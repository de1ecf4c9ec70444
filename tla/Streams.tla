------------------------------- MODULE Streams -------------------------------
(***************************************************************************)
(* One served answer on its way: its bytes come in chunks that may stop    *)
(* anywhere; the relay translates, meters and forwards them; the client    *)
(* assembles what reaches it; one settle is sent.  The chat relay of       *)
(* server.mjs serves the routes of ChatRelay, the dialect relay the others.*)
(***************************************************************************)
EXTENDS StreamUpstream, Metering

CONSTANT Measured       \* the input tokens measured at authorize

ASSUME MeasuredAssumption == Measured \in Nat

VARIABLES
    line,       \* the line being read: "none", "torn", or "whole" but for its newline
    current,    \* the event that line carries
    data,       \* eventData: the data lines awaiting the blank one
    tr,         \* the translator
    ex,         \* the usage extractor
    cnt,        \* the output counter
    first,      \* the first token's kind, "none", or "gaveup"
    failed,     \* restoreFailed: the answer failed in-band
    gone,       \* clientGone
    settle,     \* the settle sent, or NoSettle
    view        \* what the client assembled

relay == <<line, current, data, tr, ex, cnt, first>>
vars == <<provider, relay, failed, gone, settle, view>>

NoSettle == [sent |-> FALSE]

Init ==
    /\ UpstreamInit
    /\ line = "none" /\ current = NoEvent /\ data = <<>>
    /\ tr = NewTranslator /\ ex = NewExtractor /\ cnt = NewCounter /\ first = "none"
    /\ failed = FALSE /\ gone = FALSE /\ settle = NoSettle /\ view = NewView

-----------------------------------------------------------------------------
(* What the relay does with one piece: r is its state, with the pieces it   *)
(* has for the client (out) and whether a line went over the cap (over).    *)

\* The extractor, the counter and, on the dialect relay, the first-token test read one
\* frame of the client's dialect.
Meter(r, e) ==
    [r EXCEPT
        !.ex  = CASE Heard = "chat" -> CostLine(@, e)
                  [] Heard = "messages" -> MessagesUsageLine(@, e)
                  [] OTHER -> ResponsesUsageLine(@, e),
        !.cnt = CASE Heard = "chat" -> CountChat(@, e)
                  [] Heard = "messages" -> CountMessages(@, e)
                  [] OTHER -> CountResponses(@, e),
        !.first = IF @ = "none" /\ route \notin ChatRelay THEN FirstTokenKind(e) ELSE @]

\* On the chat relay the detector reads the upstream's own lines.
Detect(r, e) ==
    [r EXCEPT !.first = IF @ = "none" /\ route \in ChatRelay THEN FirstTokenKind(e) ELSE @]

Dispatch(t, e) ==
    CASE route = "anthropic-chat" -> MessagesToChat(t, e)
      [] route = "responses-chat" -> ResponsesToChat(t, e)
      [] OTHER -> ResponsesToMessages(t, e)

\* Frames a translator wrote: metered, and forwarded.
Written(r, frames) ==
    [FoldLeft(Meter, r, frames) EXCEPT !.out = @ \o Frames(frames)]

\* Mutant of Translate: a stream that is over is still listened to.
TranslateOn(r) ==
    LET s == Dispatch(r.tr, r.data[1])
    IN  IF r.data = <<>> THEN r
        ELSE Written([r EXCEPT !.tr = s.to, !.data = <<>>], s.out)

\* The blank line: the event is dispatched, unless the stream is over already.
Translate(r) ==
    LET s == Dispatch(r.tr, r.data[1])
    IN  IF r.data = <<>> \/ r.tr.over # "no" THEN r
        ELSE Written([r EXCEPT !.tr = s.to, !.data = <<>>], s.out)

\* A line over the cap: ResponsesToMessagesSse fails; the dialect relay's pump skips it
\* and fails the answer; the others go on.
OverCap(r) ==
    CASE route = "responses-messages" ->
            IF r.tr.over # "no" THEN r
            ELSE Written([r EXCEPT !.tr.over = "fatal"], <<MessageError>>)
      [] route \in {"messages", "responses"} -> [r EXCEPT !.over = TRUE]
      [] OTHER -> r

\* A whole line of an answer that is not translated.  One over the cap is not counted,
\* but its usage is read where its windows hold it.
Metered(r, piece) ==
    IF ~piece.big THEN Meter(r, piece.e)
    ELSE IF route \in ChatRelay THEN [r EXCEPT !.ex = CostLine(@, piece.e)] ELSE r

\* What goes on to the client of an answer that is not translated: the bytes, or, from
\* the reasoning mirror, whole lines, those over the cap untouched.
Forward(r, piece) ==
    IF route # "fireworks" THEN [r EXCEPT !.out = Append(@, piece)]
    ELSE CASE piece.part = "nl" ->
                LET e == IF piece.big THEN piece.e ELSE Mirrored(piece.e)
                IN  [r EXCEPT !.out = @ \o <<[piece EXCEPT !.part = "rest", !.e = e], piece>>]
           [] piece.part = "blank" -> [r EXCEPT !.out = Append(@, piece)]
           [] OTHER -> r

Relayed(r, piece) ==
    LET s == CASE piece.part = "torn" -> [r EXCEPT !.line = "torn"]
               [] piece.part = "rest" ->
                    [r EXCEPT !.line = "whole", !.current = piece.e]
               [] piece.part = "nl" ->
                    [Detect(r, piece.e) EXCEPT !.line = "none", !.current = NoEvent, !.data = <<piece.e>>]
               [] OTHER -> [r EXCEPT !.data = <<>>]
    IN  IF route \in Translated
        THEN CASE piece.part = "blank" -> Translate(r)
               [] piece.part = "rest" /\ piece.big -> OverCap(s)
               [] OTHER -> s
        ELSE Forward(CASE piece.part = "nl" -> Metered(s, piece)
                       [] piece.part = "rest" /\ piece.big -> OverCap(s)
                       [] OTHER -> s, piece)

Now == [line |-> line, current |-> current, data |-> data, tr |-> tr, ex |-> ex, cnt |-> cnt,
        first |-> first, out |-> <<>>, over |-> FALSE]

Becomes(r) ==
    /\ line' = r.line /\ current' = r.current /\ data' = r.data
    /\ tr' = r.tr /\ ex' = r.ex /\ cnt' = r.cnt /\ first' = r.first

Reads(pieces) ==
    view' = IF gone \/ failed THEN view ELSE ReadAll(Heard, view, pieces)

AtFrameBoundary == view.line = "none" /\ view.data = <<>>
InBandError == Frame([k |-> "error"])

\* Mutant of FailAnswer: the open frame is not closed first.
FailAnswerOpen ==
    /\ failed' = TRUE
    /\ Reads(<<InBandError>>)

\* failAnswer: the open frame is closed, the error is written, and the client is done.
FailAnswer ==
    /\ failed' = TRUE
    /\ Reads((IF AtFrameBoundary THEN <<>> ELSE <<[InBandError EXCEPT !.part = "close"]>>)
             \o <<InBandError>>)

\* 'data': a chunk of n pieces.  A JSON body is only collected, or passed on; a detector
\* left with an oversized partial line gives up; a chunk that fails the answer is not
\* forwarded.
Data(n) ==
    LET chunk == SubSeq(wire, 1, n)
        r == FoldLeft(Relayed, Now, chunk)
        stuck == r.line = "whole" /\ chunk[n].big /\ r.first = "none" /\ route \in ChatRelay
    IN  /\ up = "open" /\ n <= Len(wire)
        /\ wire' = SubSeq(wire, n + 1, Len(wire))
        /\ IF route \in Json
           THEN /\ line' = IF chunk[n].part = "rest" THEN "whole" ELSE "torn"
                /\ current' = [e |-> chunk[n].e, big |-> chunk[n].big]
                /\ UNCHANGED <<data, tr, ex, cnt, first, failed, view>>
           ELSE /\ Becomes(IF stuck THEN [r EXCEPT !.first = "gaveup"] ELSE r)
                /\ \/ r.over /\ ~failed /\ FailAnswer
                   \/ ~(r.over /\ ~failed) /\ Reads(r.out) /\ UNCHANGED failed
        /\ UNCHANGED <<fixed, said, adding, phase, ended, up, gone, settle>>

-----------------------------------------------------------------------------
(* The end of the answer and its settle.                                    *)

Tokens(c) == c.text + (c.over + 3) \div 4

\* settleNow: the usage reported, else what was counted, else, of a JSON body too large
\* to keep, its size; and the measured input where none was reported.
Settle(x, c, bytes) ==
    settle' = [sent |-> TRUE, out |-> IF x.out > 0 THEN x.out
                                      ELSE IF Tokens(c) > 0 THEN Tokens(c) ELSE (bytes + 3) \div 4,
               in |-> IF x.in > 0 THEN x.in ELSE Measured,
               read |-> x.read, write |-> x.write, cost |-> x.cost, byok |-> x.byok,
               counted |-> c.text + c.over]

\* The last line, when it came whole but for its newline, is read at the end.
LastLine(r) ==
    IF route \notin Translated /\ r.line = "whole" THEN Meter([r EXCEPT !.line = "none"], r.current)
    ELSE r

\* On an error the mirror keeps what it holds, and the extractor behind it never reads it.
LastLineCut(r) ==
    IF route = "fireworks" THEN [LastLine(r) EXCEPT !.ex = r.ex] ELSE LastLine(r)

\* translator.finish: a stream that ended early says so.
Finished(r) ==
    IF route \in Translated /\ r.tr.over = "no"
    THEN CASE Heard = "chat" -> Written([r EXCEPT !.tr.over = "fatal"], <<ChatError>>)
           [] OTHER -> LET f == MessageFails(r.tr) IN Written([r EXCEPT !.tr = f.to], f.out)
    ELSE r

\* What the mirror still holds at the end: the start of a line, or all of it.
Held ==
    IF route = "fireworks" /\ line # "none"
    THEN <<[e |-> Mirrored(current), part |-> IF line = "whole" THEN "rest" ELSE "torn",
            big |-> FALSE]>>
    ELSE <<>>

\* 'end' of a stream.  The dialect relay adds an error of its own when no terminal
\* event was read.
End ==
    LET r == LastLine(Finished(Now))
        told == IF route \notin ChatRelay /\ r.ex.terminal = "none" /\ ~failed
                THEN <<InBandError>> ELSE <<>>
    IN  /\ up = "open" /\ route \notin Json
        /\ up' = "ended"
        /\ Becomes(r)
        /\ Reads(Held \o r.out \o told)
        /\ Settle(r.ex, r.cnt, 0)
        /\ UNCHANGED <<fixed, said, adding, phase, ended, wire, failed, gone>>

\* 'error' of a stream.  The translator's tail and the mirror's are not drained; the
\* chat relay only ends, the dialect relay writes its error.
Cut ==
    LET r == IF route \in ChatRelay THEN LastLineCut(Now) ELSE Now
    IN  /\ up = "open" /\ route \notin Json
        /\ up' = "cut"
        /\ Becomes(r)
        /\ Reads(IF route \in ChatRelay THEN <<>> ELSE <<InBandError>>)
        /\ Settle(r.ex, r.cnt, 0)
        /\ UNCHANGED <<fixed, said, adding, phase, ended, wire, failed, gone>>

\* The object of a JSON answer, in the client's dialect: frames that assemble to it.
JsonAnswer ==
    CASE route = "json-chat" -> ResponsesJsonToChat(current.e, said)
      [] route = "json-messages" -> ResponsesJsonToMessages(current.e, said)
      [] OTHER -> FlattenSeq([n \in DOMAIN said |->
                     (IF said[n].kind = "call"
                      THEN <<[k |-> "item_added", i |-> n, type |-> "call", id |-> n]>> ELSE <<>>)
                     \o <<DeltaOf(said[n].kind, n, said[n].full)>>]) \o <<current.e>>

\* jsonBody: the body came whole and was kept.
KeptWhole == line = "whole" /\ ~current.big

\* jsonBytes, where the body was dropped for its size: the envelope and the characters,
\* or those that came.  Of a part that was still kept nothing is priced.
Tallies ==
    LET size == 1 + Len(FlattenSeq([n \in DOMAIN said |-> said[n].full]))
    IN  IF line = "none" \/ ~current.big THEN {0}
        ELSE IF line = "whole" THEN {size} ELSE 0..size

\* Mutant of SettleKept: a body too large to keep is priced at nothing.
SettleKeptOnly ==
    Settle(IF KeptWhole THEN FoldLeft(Meter, Now, JsonAnswer).ex ELSE NewExtractor, NewCounter, 0)

\* Mutant of SettleKept: the usage of a body is read at its 'end' only.
SettleKeptAtEnd ==
    \E bytes \in Tallies :
        Settle(IF KeptWhole /\ up' = "ended" THEN FoldLeft(Meter, Now, JsonAnswer).ex
               ELSE NewExtractor, NewCounter, bytes)

\* settleNow of a JSON body passed on, at 'end', 'error' and close alike: what was kept
\* is parsed for its usage; what was too large is priced by its size.
SettleKept ==
    \E bytes \in Tallies :
        Settle(IF KeptWhole THEN FoldLeft(Meter, Now, JsonAnswer).ex ELSE NewExtractor,
               NewCounter, bytes)

\* 'close': the upstream is destroyed, and its 'error' settles what was delivered.
\* Once the answer failed in-band the response is over, and nothing listens.
Leaves ==
    /\ up = "open" /\ ~failed
    /\ gone' = TRUE /\ up' = "cut"
    /\ IF route = "json-native" THEN SettleKept /\ UNCHANGED relay
       ELSE LET r == IF route \in ChatRelay \ Json THEN LastLineCut(Now) ELSE Now
            IN  Becomes(r) /\ Settle(r.ex, r.cnt, 0)
    /\ UNCHANGED <<fixed, said, adding, phase, ended, wire, failed, view>>

\* What a client has of a body passed on, whose response ends in either case.
PassedOn == IF line = "whole" THEN Frames(JsonAnswer) ELSE <<>>

\* 'end' of a JSON answer.  A translated one that is not whole, or too large, is an
\* error; one passed on is what came.
JsonEnd ==
    LET frames == IF KeptWhole THEN JsonAnswer ELSE <<ChatError>>
    IN  /\ up = "open" /\ route \in Json
        /\ up' = "ended"
        /\ IF route = "json-native" THEN Reads(PassedOn) /\ SettleKept
           ELSE Reads(Frames(frames)) /\ Settle(FoldLeft(Meter, Now, frames).ex, NewCounter, 0)
        /\ UNCHANGED <<fixed, said, adding, phase, ended, wire, relay, failed, gone>>

\* 'error' of a JSON answer: one passed on is what came; of a translated one the status
\* line is still ours, and nothing went through the translator.
JsonCut ==
    /\ up = "open" /\ route \in Json
    /\ up' = "cut"
    /\ IF route = "json-native" THEN Reads(PassedOn) /\ SettleKept
       ELSE Reads(<<InBandError>>) /\ Settle(NewExtractor, NewCounter, 0)
    /\ UNCHANGED <<fixed, said, adding, phase, ended, wire, relay, failed, gone>>

Next ==
    \/ UpstreamSays /\ UNCHANGED <<relay, failed, gone, settle, view>>
    \/ \E n \in 1..4 : Data(n)
    \/ End \/ Cut \/ Leaves \/ JsonEnd \/ JsonCut

Spec == Init /\ [][Next]_vars

-----------------------------------------------------------------------------
(* Properties.                                                              *)

Output(v) == v.text # <<>> \/ v.thought # <<>> \/ v.calls # <<>>

\* The arguments the upstream gave a call: every delta, and what a terminal string adds
\* to them.  Those of a call a JSON message was cut in do not parse.
ArgsTold(n) ==
    LET item == said[n]
    IN  IF route = "json-messages" /\ ended # "end" /\ n = Len(said) THEN <<>>
        ELSE IF \/ route \in Json \/ Spoken # "responses"
                \/ item.done /\ (IsPrefix(item.sent, item.full) \/ route = "responses")
             THEN item.full ELSE item.sent

TextTold ==
    TextOf(said, "text") \o (IF route = "json-messages" THEN TextOf(said, "refusal") ELSE <<>>)

\* The translators and relays: what the client is given obeys its dialect's grammar, is
\* never more than was said, and, when it reads as complete, is everything that was
\* said: the text, each call with its arguments, and whether the answer was cut short.
\* A streamed chat answer that a filter cut says "stop" (ResponsesToChatSse).
CompleteMeansWhole ==
    /\ ~view.bad
    /\ IsPrefix(view.text, TextTold)
    /\ view.end = "complete" =>
          /\ phase = "complete"
          /\ view.text = TextTold
          /\ {view.calls[i] : i \in DOMAIN view.calls}
                = {[id |-> n, args |-> ArgsTold(n)] : n \in {m \in DOMAIN said : said[m].kind = "call"}}
          /\ Spoken # "chat" /\ ended = "max_tokens" => view.reason \in {"length", "max_tokens"}
          /\ ended = "content_filter" /\ route \notin {"responses-chat"} /\ Spoken = "responses" =>
                view.reason \in {"content_filter", "refusal"}

\* The dialect relay: an answer that is over has been told to be, complete or failed, in
\* a frame the client can read, whenever the upstream stopped between two frames and
\* whenever failAnswer ended it.
EndIsTold ==
    settle.sent /\ ~gone /\ route \notin ChatRelay \cup {"json-native"} =>
        \/ view.end # "none"
        \/ ~failed /\ (view.swallowed \/ ~AtFrameBoundary)

\* responsesMessages.mjs of a refusal: never a silent empty end_turn.
RefusalReaches ==
    view.end = "complete" /\ TextOf(said, "refusal") # <<>> =>
        view.refusal # <<>> \/ view.text # <<>> \/ view.reason = "refusal"

\* The counters and the first-token mark: what is counted is what the client was sent,
\* once each, the line its stream ended in either way; and no output is read by a client
\* before the first token was marked.
MeteredAsDelivered ==
    /\ settle.sent /\ ~failed /\ route \notin Json =>
          settle.counted \in {view.got, view.got + Size(current)}
    /\ Output(view) /\ route \notin Json => first # "none"
    /\ first \notin {"none", "gaveup"} => said # <<>>

\* The usage was read: all of its event's line and, by a translator, its blank line; of a
\* JSON body all of it, which the translators of one only look at when it ends.
Reported ==
    /\ claim # None
    /\ IF route \in Json THEN phase = "complete" /\ KeptWhole
                               /\ (up = "ended" \/ route = "json-native")
       ELSE IF route \in Translated THEN tr.over = "done"
       ELSE IF Spoken = "responses" THEN phase = "complete" /\ Len(wire) <= 1
       ELSE phase = "complete" \/ (phase = "reported" /\ Len(wire) <= 1)

\* Nothing of the usage was read.
Unreported ==
    IF route \in Json THEN ~Reported
    ELSE IF route \in Translated THEN tr.over # "done" ELSE ended = "none"

\* The prompt as the settle prices it: on the Messages endpoint and for Anthropic the
\* input excludes the caches, elsewhere it includes them.
Prompt(s) ==
    IF Heard = "messages" \/ route = "anthropic-chat" THEN s.in + s.read + s.write ELSE s.in

PromptOnce == Reported => Prompt(settle) = claim.in

\* responsesMessages.mjs of the usage: the subset numbers the provider reported are
\* billed exactly once.
BilledOnce == settle.sent => PromptOnce

\* settleNow: once the usage was read it is what is settled, whichever dialect it came in
\* and went out in, with the cost of the branch that supplied it; before that, all that
\* was delivered is, and the prompt is the measured one; a body too large to keep is
\* estimated at no less than the counter's ratio.  A prompt that is all
\* cached is left out: its input is zero in the additive convention.
BilledAsReported ==
    settle.sent =>
        /\ claim # None /\ claim.in > Field(claim, "read") + Field(claim, "write") => PromptOnce
        /\ Reported =>
              /\ settle.out = claim.out
              /\ settle.read = Field(claim, "read") /\ settle.write = Field(claim, "write")
              /\ route \in {"openrouter", "messages"} =>
                    settle.byok = ("inference" \in DOMAIN claim)
                    /\ settle.cost = Field(claim, IF settle.byok THEN "inference" ELSE "cost")
        /\ Unreported =>
              /\ view.got <= CountedChars /\ route \notin Json => settle.out >= view.got
              /\ settle.in # Measured => route = "messages"
              /\ route = "json-native" /\ line = "whole" /\ current.big =>
                    4 * settle.out >= view.got
=============================================================================
