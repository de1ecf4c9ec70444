----------------------------- MODULE Redaction -----------------------------
(***************************************************************************)
(* Reversible redaction (pii/): the spans the hosted detector reports, the *)
(* placeholders put in their place (core.mjs), and the restorer that puts  *)
(* the surfaces back into an answer that comes in chunks (restore.mjs).    *)
(* A text is a sequence of UTF-16 units; "hi" and "lo" are the halves of   *)
(* one character.  "[" and "]" are the delimiters of a placeholder, P_ and *)
(* Q_ the names of two classes, and "\", "o" and "\", "c" the delimiters   *)
(* spelled as JSON escapes.                                                *)
(***************************************************************************)
EXTENDS Integers, Sequences, SequencesExt, FiniteSets, TLC, Lists

Classes == {"P_", "Q_"}
Digits == <<"1", "2", "3", "4", "5", "6">>
IsDigit(c) == c \in Range(Digits)
IsWord(c) == c \in {"a", "A", "n", "o", "c"} \cup Classes \/ IsDigit(c)

\* HOSTED_LABELS: the class of each label, "none" for one that is not redacted.
HostedLabels == [private_person |-> "P_", secret |-> "Q_", private_date |-> "none"]

Edge == {" ", ".", "nl", "\""}
Separator == <<"nl", "nl">>
Blank(text) == Range(text) \subseteq {" ", "nl"}

Smaller(a, b) == IF a < b THEN a ELSE b
Larger(a, b) == IF a > b THEN a ELSE b
Least(S) == CHOOSE i \in S : \A j \in S : i <= j
Greatest(S) == CHOOSE i \in S : \A j \in S : i >= j

-----------------------------------------------------------------------------
(* detector.mjs: one call for the texts, joined; its offsets count          *)
(* characters, ours units.                                                  *)

\* The texts that are not blank, joined.
PartsBefore(texts, j) == SelectSeq(SubSeq(texts, 1, j - 1), LAMBDA t : ~Blank(t))
OffsetOf(texts, j) ==
    Len(FlattenSeq(PartsBefore(texts, j))) + Len(Separator) * Len(PartsBefore(texts, j))
Joined(texts) ==
    LET parts == SelectSeq(texts, LAMBDA t : ~Blank(t))
    IN  FlattenSeq([k \in DOMAIN parts |-> (IF k = 1 THEN <<>> ELSE Separator) \o parts[k]])

\* Mutant of codePointTable: characters are taken for units.
codePointTableUnits(text) == [k \in 1..(Len(text) + 1) |-> k - 1]

\* codePointTable: the unit each character starts at, and the length.
codePointTable(text) ==
    SelectSeq([k \in DOMAIN text |-> k - 1], LAMBDA u : text[u + 1] # "lo") \o <<Len(text)>>

trimEdges(text, s) ==
    LET from == Least({i \in s.start..s.end : i = s.end \/ text[i + 1] \notin Edge})
        to == Greatest({i \in from..s.end : i = from \/ text[i] \notin Edge})
    IN  IF s.start < s.end THEN [s EXCEPT !.start = from, !.end = to] ELSE s

\* hostedSpans refuses a label it does not know and an offset that is not in the text.
Usable(texts, answer) ==
    \A k \in DOMAIN answer :
        /\ answer[k].label \in DOMAIN HostedLabels
        /\ answer[k].start <= answer[k].end
        /\ answer[k].end < Len(codePointTable(Joined(texts)))

\* The spans of one text: those of the answer, clipped to it and trimmed.
SpansOf(texts, answer, j) ==
    LET table == codePointTable(Joined(texts))
        off == OffsetOf(texts, j)
        clipped(s) ==
            [start |-> Larger(table[s.start + 1], off) - off,
             end |-> Smaller(table[s.end + 1], off + Len(texts[j])) - off,
             cls |-> HostedLabels[s.label]]
        cut == [k \in DOMAIN answer |-> clipped(answer[k])]
        found == Kept(cut, {k \in DOMAIN cut : cut[k].cls # "none" /\ cut[k].start < cut[k].end})
        trimmed == [k \in DOMAIN found |-> trimEdges(texts[j], found[k])]
    IN  IF Blank(texts[j]) THEN <<>>
        ELSE Kept(trimmed, {k \in DOMAIN trimmed : trimmed[k].start < trimmed[k].end})

-----------------------------------------------------------------------------
(* core.mjs.                                                                *)

\* Mutant of Merged: the last span ends the union.
MergedLast(cur, s) == [cur EXCEPT !.end = s.end, !.cls = IF s.end - s.start > cur.best THEN s.cls ELSE @]

\* An overlapping span joins the union, the longest member names it.
Merged(cur, s) ==
    [cur EXCEPT !.end = Larger(@, s.end),
                !.cls = IF s.end - s.start > cur.best THEN s.cls ELSE @,
                !.best = Larger(@, s.end - s.start)]

\* The last union takes the span, or the span begins a new one.
Joins(out, s) ==
    IF out # <<>> /\ s.start < Last(out).end
    THEN Append(Front(out), Merged(Last(out), s))
    ELSE Append(out, [start |-> s.start, end |-> s.end, cls |-> s.cls, best |-> s.end - s.start])

\* The spans by start, the longer first; the sort is stable.
Sorted(spans) ==
    LET before(a, b) == a.start < b.start \/ (a.start = b.start /\ a.end > b.end)
        place(i) == Cardinality({k \in DOMAIN spans :
                        before(spans[k], spans[i]) \/ (k <= i /\ ~before(spans[i], spans[k]))})
    IN  [j \in DOMAIN spans |-> spans[CHOOSE i \in DOMAIN spans : place(i) = j]]

mergeSpans(spans) ==
    LET sorted == Sorted(spans)
        out[k \in 0..Len(sorted)] == IF k = 0 THEN <<>> ELSE Joins(out[k - 1], sorted[k])
    IN  out[Len(sorted)]

\* surfaceKey: spellings of one surface, here "A" and "a".
surfaceKey(surface) == [k \in DOMAIN surface |-> IF surface[k] = "A" THEN "a" ELSE surface[k]]

\* Mutant of Taken: only a literal in its delimiters is left alone.
TakenBracketed(texts) ==
    LET literals(t) ==
            {i \in 1..(Len(t) - 3) :
                t[i] = "[" /\ t[i + 1] \in Classes /\ IsDigit(t[i + 2]) /\ t[i + 3] = "]"}
    IN  UNION {{SubSeq(t, i + 1, i + 2) : i \in literals(t)} : t \in Range(texts)}

\* The placeholders the texts already hold, in delimiters or bare.
Taken(texts) ==
    LET literals(t) ==
            {i \in 1..(Len(t) - 1) :
                /\ t[i] \in Classes /\ IsDigit(t[i + 1])
                /\ i + 2 <= Len(t) => ~IsDigit(t[i + 2])}
    IN  UNION {{SubSeq(t, i, i + 1) : i \in literals(t)} : t \in Range(texts)}

\* The core of a placeholder, CLASS_n, and its text.
Core(cls, n) == <<cls, Digits[n]>>
Placeholder(core) == <<"[">> \o core \o <<"]">>

With(f, k, v) == [x \in DOMAIN f \cup {k} |-> IF x = k THEN v ELSE f[x]]

\* placeholderFor: one placeholder for each class and key, the first surface restored.
placeholderFor(taken, issued, cls, surface) ==
    LET key == <<cls, surfaceKey(surface)>>
        used == {n \in DOMAIN Digits : \E k \in DOMAIN issued.byKey : issued.byKey[k] = Core(cls, n)}
        last == IF used = {} THEN 0 ELSE Greatest(used)
        core == Core(cls, Least({n \in DOMAIN Digits : n > last /\ Core(cls, n) \notin taken}))
    IN  IF key \in DOMAIN issued.byKey THEN issued
        ELSE [byKey |-> With(issued.byKey, key, core), surfaces |-> With(issued.surfaces, core, surface)]

\* The characters of a span, as slice takes them.
Surface(text, s) == Kept(text, {i \in DOMAIN text : s.start < i /\ i <= s.end})

\* The placeholders issued once the spans of a text have theirs, and once all texts have.
IssuedIn(taken, issued, text, spans) ==
    LET by[k \in 0..Len(spans)] ==
            IF k = 0 THEN issued ELSE placeholderFor(taken, by[k - 1], spans[k].cls, Surface(text, spans[k]))
    IN  by[Len(spans)]
Issued(texts, merged) ==
    LET by[j \in 0..Len(texts)] ==
            IF j = 0 THEN [byKey |-> <<>>, surfaces |-> <<>>]
            ELSE IssuedIn(Taken(texts), by[j - 1], texts[j], merged[j])
    IN  by[Len(texts)]

\* A text with the placeholders in the place of its spans.
Replaced(text, spans, byKey) ==
    LET put(r, s) ==
            [out |-> r.out \o SubSeq(text, r.pos + 1, s.start)
                        \o Placeholder(byKey[<<s.cls, surfaceKey(Surface(text, s))>>]),
             pos |-> s.end]
        end == FoldLeft(put, [out |-> <<>>, pos |-> 0], spans)
    IN  end.out \o SubSeq(text, end.pos + 1, Len(text))

\* pseudonymize: spans[j] belongs to texts[j].
pseudonymize(texts, spans) ==
    LET merged == [j \in DOMAIN texts |-> mergeSpans(spans[j])]
        issued == Issued(texts, merged)
    IN  [texts |-> [j \in DOMAIN texts |-> Replaced(texts[j], merged[j], issued.byKey)],
         mapping |-> issued.surfaces]

-----------------------------------------------------------------------------
(* restore.mjs.  mapping is a function from cores to surfaces.              *)

Opens(json) == {<<"[">>} \cup (IF json THEN {<<"\\", "o">>} ELSE {})
Closes(json) == {<<"]">>} \cup (IF json THEN {<<"\\", "c">>} ELSE {})
StartsAt(text, i, p) == i + Len(p) - 1 <= Len(text) /\ SubSeq(text, i, i + Len(p) - 1) = p

\* A core at i ends where its digits do, and no word goes on there; 0 when there is none.
CoreEnd(text, i) ==
    LET run == {j \in (i + 1)..Len(text) : \A k \in (i + 1)..j : IsDigit(text[k])}
        j == Greatest(run)
    IN  IF i <= Len(text) /\ text[i] \in Classes /\ run # {}
           /\ (j < Len(text) => ~IsWord(text[j + 1]))
        THEN j ELSE 0

\* A bare core is not the end of a word; a JSON escape such as \n is no word.
WordStarts(text, i, json) ==
    \/ i = 1 \/ ~IsWord(text[i - 1])
    \/ json /\ i > 2 /\ text[i - 2] = "\\" /\ text[i - 1] = "n"

NoMatch == [core |-> <<>>, end |-> 0, closed |-> FALSE]

\* The token at i: its core, where it ends, and whether it is closed.
TokenAt(text, i, json) ==
    LET opened == {o \in Opens(json) : StartsAt(text, i, o) /\ CoreEnd(text, i + Len(o)) # 0}
        at == IF opened # {} THEN i + Len(CHOOSE o \in opened : TRUE) ELSE i
        end == CoreEnd(text, at)
        closing == {c \in Closes(json) : StartsAt(text, end + 1, c)}
    IN  IF opened = {} /\ (end = 0 \/ ~WordStarts(text, i, json)) THEN NoMatch
        ELSE [core |-> SubSeq(text, at, end), closed |-> closing # {},
              end |-> IF closing = {} THEN end ELSE end + Len(CHOOSE c \in closing : TRUE)]

\* JSON.stringify of a text, without its quotes.
JsonEscaped(text) ==
    FlattenSeq([k \in DOMAIN text |->
        CASE text[k] \in {"\"", "\\"} -> <<"\\", text[k]>>
          [] text[k] = "nl" -> <<"\\", "n">>
          [] OTHER -> <<text[k]>>])
surfaceFor(surface, json) == IF json THEN JsonEscaped(surface) ELSE surface

\* A token that more input could still close.
StillOpen(text, m, json) ==
    ~m.closed /\ \E c \in Closes(json) : IsPrefix(SubSeq(text, m.end + 1, Len(text)), c)

\* What replaceFrom has at one position: r.out stands for the text up to r.last.
Replace(r, text, i, mapping, json, final) ==
    LET m == TokenAt(text, i, json)
    IN  IF r.stopped \/ i <= r.last \/ m = NoMatch THEN r
        ELSE IF ~final /\ StillOpen(text, m, json) THEN [r EXCEPT !.stopped = TRUE]
        ELSE [last |-> m.end, stopped |-> FALSE,
              out |-> r.out \o (IF m.core \in DOMAIN mapping
                                THEN SubSeq(text, r.last + 1, i - 1) \o surfaceFor(mapping[m.core], json)
                                ELSE SubSeq(text, r.last + 1, m.end))]

\* replaceFrom: tokens from position `from` on are replaced, one pass; unless this is the
\* end, a token that is still open stops it.
replaceFrom(text, from, mapping, json, final) ==
    LET at[i \in (from - 1)..Len(text)] ==
            IF i = from - 1 THEN [out |-> <<>>, last |-> from - 1, stopped |-> FALSE]
            ELSE Replace(at[i - 1], text, i, mapping, json, final)
    IN  at[Len(text)]

\* Every spelling of an issued placeholder; their proper prefixes are held back.
Spellings(mapping, json) ==
    {o \o core \o c : o \in {<<>>} \cup Opens(json), core \in DOMAIN mapping, c \in Closes(json)}
ProperPrefixes(mapping, json) ==
    UNION {{SubSeq(s, 1, k) : k \in 1..(Len(s) - 1)} : s \in Spellings(mapping, json)}

\* Mutant of HeldBack: a core that may be whole is let go.
HeldBackOpen(rest, mapping, json) ==
    LET held == {k \in DOMAIN rest :
                    LET tail == SubSeq(rest, k, Len(rest))
                    IN  tail \in ProperPrefixes(mapping, json) /\ CoreEnd(tail, 1) = 0}
    IN  IF held = {} THEN <<>> ELSE SubSeq(rest, Least(held), Len(rest))

\* The longest end of the text that could begin a placeholder.
HeldBack(rest, mapping, json) ==
    LET held == {k \in DOMAIN rest : SubSeq(rest, k, Len(rest)) \in ProperPrefixes(mapping, json)}
    IN  IF held = {} THEN <<>> ELSE SubSeq(rest, Least(held), Len(rest))

\* Mutant of Context: what precedes the held text is forgotten.
ContextNone(text) == <<>>

\* The two units kept before the held text, for the word test.
Context(text) == SubSeq(text, Larger(1, Len(text) - 1), Len(text))

\* createRestorer: ctx is the text right before carry, which is held back.
NewRestorer == [ctx |-> <<>>, carry |-> <<>>]

\* What is emitted of a text replaced as far as `done` says, and the restorer after it.
Emit(text, done, mapping, json, final) ==
    LET rest == SubSeq(text, done.last + 1, Len(text))
        hold == IF final THEN <<>> ELSE HeldBack(rest, mapping, json)
        before == SubSeq(text, 1, Len(text) - Len(hold))
    IN  [emitted |-> done.out \o SubSeq(rest, 1, Len(rest) - Len(hold)),
         to |-> [ctx |-> Context(before), carry |-> hold]]

\* One run over what was held and a new chunk.
Run(r, chunk, mapping, json, final) ==
    LET text == r.ctx \o r.carry \o chunk
    IN  Emit(text, replaceFrom(text, Len(r.ctx) + 1, mapping, json, final), mapping, json, final)

Push(r, chunk, mapping, json) ==
    IF DOMAIN mapping = {} THEN [emitted |-> chunk, to |-> r] ELSE Run(r, chunk, mapping, json, FALSE)
Flush(r, mapping, json) ==
    IF r.carry = <<>> THEN <<>> ELSE Run(r, <<>>, mapping, json, TRUE).emitted

\* restoreText, of a whole text.
restoreText(text, mapping, json) ==
    LET p == Push(NewRestorer, text, mapping, json) IN p.emitted \o Flush(p.to, mapping, json)
=============================================================================
