-------------------------- MODULE RedactedRequest --------------------------
(***************************************************************************)
(* One request that asked for pii_redaction, and its streamed answer: the  *)
(* texts are redacted or nothing is sent (redactBody); the answer's text   *)
(* and the arguments of its tool call come back in deltas, each field with *)
(* a restorer of its own (dialects/), closed as the dialect closes it.     *)
(***************************************************************************)
EXTENDS Redaction

CONSTANTS
    Inputs,       \* bound: pairs of texts, one plain and one a leaf of tool arguments
    Labels,       \* bound: the labels the detector uses
    MaxSpans,     \* bound: spans in one answer of the detector
    Probe,        \* the input, all of its first text redacted, whose answers are any text
    Alphabet,     \* bound: what such an answer is made of, for each field
    MaxTogether,  \* bound: its length, over both fields
    MaxAlone      \* bound: its length in the arguments alone

Fields == {1, 2}            \* the text, and the arguments, which are JSON
Dialects == {"chat", "messages", "responses"}

\* What the inputs are written with.
Characters == UNION {UNION {Range(pair[f]) : f \in Fields} : pair \in Inputs}

ASSUME RedactionAssumption ==
    /\ Probe \in Inputs /\ \A pair \in Inputs : pair \in Seq(Seq(Characters)) /\ Len(pair) = 2
    /\ MaxSpans \in Nat /\ MaxTogether \in Nat /\ MaxAlone \in Nat

VARIABLES
    texts,      \* the texts of the request (extractTexts)
    answer,     \* the detector's spans, in characters of the joined texts
    sent,       \* the texts sent upstream, or <<>>
    mapping,    \* byPlaceholder
    stage,      \* "new", "refused", "redacted", "answering", "over"
    dialect,
    said,       \* what the upstream said in each field
    delta,      \* the delta it is making, and its field (0: none)
    held,       \* keyedRestorers: the restorer of each field
    got,        \* what the client got in each field
    closed      \* the fields that are closed

vars == <<texts, answer, sent, mapping, stage, dialect, said, delta, held, got, closed>>

NoDelta == [field |-> 0, text |-> <<>>]
Json(f) == f = 2

Init ==
    /\ texts \in Inputs /\ answer = <<>> /\ sent = <<>> /\ mapping = <<>>
    /\ stage = "new" /\ dialect = "none"
    /\ said = [f \in Fields |-> <<>>] /\ got = [f \in Fields |-> <<>>]
    /\ delta = NoDelta /\ held = [f \in Fields |-> NewRestorer] /\ closed = {}

\* The detector's answers: spans of the joined texts, one place too long included.
Spans ==
    LET n == Len(codePointTable(Joined(texts)))
    IN  {s \in [label : Labels, start : 0..n, end : 0..n] : s.start <= s.end}

\* redactBody: an answer that is not usable sends nothing; blank texts ask for none.
Redact(list) ==
    /\ stage = "new"
    /\ Joined(texts) = <<>> => list = <<>>
    /\ answer' = list
    /\ \/ /\ ~Usable(texts, list)
          /\ stage' = "refused" /\ UNCHANGED <<sent, mapping>>
       \/ /\ Usable(texts, list)
          /\ LET p == pseudonymize(texts, [j \in Fields |-> SpansOf(texts, list, j)])
             IN  sent' = p.texts /\ mapping' = p.mapping
          /\ stage' = "redacted"
    /\ UNCHANGED <<texts, dialect, said, delta, held, got, closed>>

\* The request goes out under one of the dialects.  Messages closes fields as Responses
\* does, and the probe is not asked under it.
Send(d) ==
    /\ stage = "redacted" /\ (texts = Probe => d # "messages")
    /\ stage' = "answering" /\ dialect' = d /\ answer' = <<>>
    /\ UNCHANGED <<texts, sent, mapping, said, delta, held, got, closed>>

-----------------------------------------------------------------------------
\* The upstream either repeats a text it was sent, or, of the probe, says anything.
Free == texts = Probe /\ mapping = (Core("P_", 1) :> Probe[1])
EchoOf(f) == IF Json(f) THEN JsonEscaped(sent[f]) ELSE sent[f]
Continues(f, c) ==
    IF Free
    THEN /\ c \in Alphabet[f]
         /\ Len(said[1]) + Len(said[2]) < IF said[1] = <<>> /\ f = 2 THEN MaxAlone ELSE MaxTogether
    ELSE /\ said[3 - f] = <<>> /\ Len(said[f]) < Len(EchoOf(f))
         /\ c = EchoOf(f)[Len(said[f]) + 1]

Says(f, c) ==
    /\ stage = "answering" /\ f \notin closed /\ delta.field \in {0, f}
    /\ Continues(f, c)
    /\ said' = [said EXCEPT ![f] = Append(@, c)]
    /\ delta' = [field |-> f, text |-> Append(delta.text, c)]
    /\ UNCHANGED <<texts, answer, sent, mapping, stage, dialect, held, got, closed>>

\* Mutant of KeyOf: one restorer for all fields.
KeyOfOne(f) == 1

\* The key of a field's restorer.
KeyOf(f) == f

\* createEventRestorer.push of a delta: its text is replaced by what may go out.
Delta ==
    LET f == delta.field
        p == Push(held[KeyOf(f)], delta.text, mapping, Json(f))
    IN  /\ stage = "answering" /\ f # 0
        /\ held' = [held EXCEPT ![KeyOf(f)] = p.to]
        /\ got' = [got EXCEPT ![f] = @ \o p.emitted]
        /\ delta' = NoDelta
        /\ UNCHANGED <<texts, answer, sent, mapping, stage, dialect, said, closed>>

\* The tails of some fields, ahead of what closes them.
TailsOf(S) ==
    /\ got' = [f \in Fields |-> IF f \in S \ closed
                                THEN got[f] \o Flush(held[KeyOf(f)], mapping, Json(f)) ELSE got[f]]
    /\ held' = [f \in Fields |-> IF f \in S THEN NewRestorer ELSE held[f]]
    /\ closed' = closed \cup S

\* content_block_stop and the .done events close one field; finish_reason closes the
\* choice, all of its fields.
CloseField(f) ==
    /\ stage = "answering" /\ delta = NoDelta /\ f \notin closed /\ said[f] # <<>>
    /\ TailsOf(IF dialect = "chat" THEN Fields ELSE {f})
    /\ UNCHANGED <<texts, answer, sent, mapping, stage, dialect, said, delta>>

\* createSseRestorer.finish: whatever is still held goes out.
Finish ==
    /\ stage = "answering" /\ delta = NoDelta
    /\ stage' = "over"
    /\ TailsOf(Fields)
    /\ UNCHANGED <<texts, answer, sent, mapping, dialect, said, delta>>

Next ==
    \/ stage = "new" /\ \E n \in 0..MaxSpans : \E list \in [1..n -> Spans] : Redact(list)
    \/ \E d \in Dialects : Send(d)
    \/ \E f \in Fields : CloseField(f)
    \/ stage = "answering" /\ \E f \in Fields : \E c \in Alphabet[f] \cup Range(EchoOf(f)) : Says(f, c)
    \/ Delta \/ Finish

Spec == Init /\ [][Next]_vars

-----------------------------------------------------------------------------
(* Properties.                                                              *)

Without(text, S) == SelectSeq(text, LAMBDA c : c \notin S)

\* Units of a text the detector marked, whichever part of the joined texts they are in.
Marked(j) ==
    LET all == Joined(texts)
        charOf(u) == Cardinality({k \in 1..u : all[k] # "lo"}) - 1
    IN  {p \in DOMAIN texts[j] :
            ~Blank(texts[j]) /\ \E k \in DOMAIN answer :
                /\ HostedLabels[answer[k].label] # "none"
                /\ charOf(OffsetOf(texts, j) + p) \in answer[k].start..(answer[k].end - 1)}

\* The text with every issued placeholder taken out.
Stripped(text) ==
    LET r == replaceFrom(text, 1, [core \in DOMAIN mapping |-> <<>>], FALSE, TRUE)
    IN  r.out \o SubSeq(text, r.last + 1, Len(text))

\* redactBody: every character the detector marked is out of the texts that are sent, but
\* for punctuation at the ends of its span, and every other one is still in them.
NothingDetectedIsSent ==
    stage = "redacted" =>
        \A j \in Fields :
            LET kept == SelectSeq([p \in DOMAIN texts[j] |-> <<p, texts[j][p]>>],
                                  LAMBDA pc : pc[1] \notin Marked(j))
            IN  Without(Stripped(sent[j]), Edge)
                    = Without([k \in DOMAIN kept |-> kept[k][2]], Edge)

\* What a restorer that had the whole answer at once would give.
AtOnce(f) ==
    LET r == replaceFrom(said[f], 1, mapping, Json(f), TRUE)
    IN  r.out \o SubSeq(said[f], r.last + 1, Len(said[f]))

\* The restorers: however an answer is cut into deltas, and whatever the other field says
\* in between, a field that is closed reads as if it had been restored whole; so does the
\* text a .done event repeats.
CutsDoNotShow ==
    \A f \in closed :
        got[f] = AtOnce(f) /\ (dialect = "responses" => restoreText(said[f], mapping, Json(f)) = got[f])

\* The client's reading of a JSON string.
Parsed(text) ==
    LET read(r, c) ==
            IF r.esc
            THEN [esc |-> FALSE, out |-> Append(r.out, CASE c = "n" -> "nl" [] c = "o" -> "["
                                                         [] c = "c" -> "]" [] OTHER -> c)]
            ELSE IF c = "\\" THEN [r EXCEPT !.esc = TRUE] ELSE [r EXCEPT !.out = Append(@, c)]
    IN  FoldLeft(read, [esc |-> FALSE, out |-> <<>>], text).out

\* The round trip: a text the upstream repeats reaches the client as it wrote it, up to
\* the spelling of a repeated surface; what it wrote in the placeholders' grammar itself
\* is not replaced by anything.
EchoIsOriginal ==
    \A f \in closed :
        said[f] # <<>> /\ said[f] = EchoOf(f) =>
            surfaceKey(IF Json(f) THEN Parsed(got[f]) ELSE got[f]) = surfaceKey(texts[f])
=============================================================================
