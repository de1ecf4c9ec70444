------------------------------ MODULE Metering ------------------------------
(***************************************************************************)
(* What a streamed answer is billed by, read from the client's frames one  *)
(* at a time: the usage extractors (cost.mjs, messages.mjs, responses.mjs),*)
(* the counters of what went out (outputCount.mjs and its twins), the mark *)
(* of the first token (firstToken.mjs), and the reasoning mirror of the    *)
(* Fireworks dialect (reasoningMirror.mjs), which sits before them.        *)
(***************************************************************************)
EXTENDS Translators

CONSTANT CountedChars   \* bound: MAX_COUNTED_CHARS, the text kept to be tokenized

ASSUME MeteringAssumption == CountedChars \in Nat

-----------------------------------------------------------------------------
(* Usage.  The result of an extractor: counts, cost, and how the stream ended. *)

NewExtractor == [in |-> 0, out |-> 0, read |-> 0, write |-> 0,
                 cost |-> 0, byok |-> FALSE, terminal |-> "none"]

\* Mutant of CostOf: the provider's inference cost is billed though it is not there.
CostOfFlag(u, billed) ==
    IF "byok" \in DOMAIN u THEN [cost |-> Field(u, "inference"), byok |-> TRUE]
    ELSE [cost |-> Field(u, "cost"), byok |-> FALSE]

\* The cost of one usage object: the provider's inference cost for a BYOK frame that
\* carries one, else OpenRouter's; the flag reported is the branch taken.
CostOf(u, billed) ==
    IF "byok" \in DOMAIN u /\ billed
    THEN [cost |-> Field(u, "inference"), byok |-> TRUE]
    ELSE [cost |-> Field(u, "cost"), byok |-> FALSE]

\* parseCostingChunk and CostExtractor._line: a zero count never replaces another; the
\* inference cost is billed when it is not zero.
CostLine(r, e) ==
    IF e.k # "usage" THEN r
    ELSE LET c == CostOf(e.u, Field(e.u, "inference") # 0)
             Keep(f) == IF Field(e.u, f) # 0 THEN e.u[f] ELSE r[f]
         IN  [r EXCEPT !.in = Keep("in"), !.out = Keep("out"),
                       !.read = IF "read" \in DOMAIN e.u THEN e.u.read ELSE @,
                       !.write = IF "write" \in DOMAIN e.u THEN e.u.write ELSE @,
                       !.cost = IF c.cost # 0 THEN c.cost ELSE @, !.byok = c.byok]

\* Mutant of usageFields: a field the event is silent on is zeroed.
usageFieldsWhole(r, u) ==
    [r EXCEPT !.in = Field(u, "in"), !.out = Field(u, "out"),
              !.read = Field(u, "read"), !.write = Field(u, "write")]

\* usageFields of messages.mjs and responses.mjs, merged field by field; the inference
\* cost is billed when it is there at all.
usageFields(r, u) ==
    LET c == CostOf(u, "inference" \in DOMAIN u)
        Merged(f) == IF f \in DOMAIN u THEN u[f] ELSE r[f]
        priced == "cost" \in DOMAIN u \/ {"byok", "inference"} \subseteq DOMAIN u
    IN  [r EXCEPT !.in = Merged("in"), !.out = Merged("out"),
                  !.read = Merged("read"), !.write = Merged("write"),
                  !.cost = IF priced THEN c.cost ELSE @, !.byok = IF priced THEN c.byok ELSE @]

\* Mutant of MessagesUsageLine: message_start's placeholder is kept as the output.
MessagesUsageLineKeeps(r, e) ==
    IF r.terminal # "none" THEN r
    ELSE CASE e.k = "message_start" -> usageFields(r, e.u)
           [] e.k = "message_delta" -> usageFields(r, e.u)
           [] e.k = "message_stop" -> [r EXCEPT !.terminal = "completed"]
           [] e.k = "error" -> [r EXCEPT !.terminal = "error"]
           [] OTHER -> r

\* MessagesUsageExtractor.feed: message_start's output is a placeholder.
MessagesUsageLine(r, e) ==
    IF r.terminal # "none" THEN r
    ELSE CASE e.k = "message_start" -> [usageFields(r, e.u) EXCEPT !.out = r.out]
           [] e.k = "message_delta" -> usageFields(r, e.u)
           [] e.k = "message_stop" -> [r EXCEPT !.terminal = "completed"]
           [] e.k = "error" -> [r EXCEPT !.terminal = "error"]
           [] OTHER -> r

\* ResponsesUsageExtractor.feed: usage is null until the terminal event.
ResponsesUsageLine(r, e) ==
    IF r.terminal # "none" THEN r
    ELSE CASE e.k \in {"completed", "incomplete"} ->
                 [usageFields(r, e.u) EXCEPT !.terminal = "completed"]
           [] e.k \in {"failed", "error"} -> [r EXCEPT !.terminal = "error"]
           [] OTHER -> r

-----------------------------------------------------------------------------
(* What went out.                                                          *)

\* text: characters kept to be tokenized; over: characters past the cap, estimated.
NewCounter == [text |-> 0, over |-> 0]

\* Mutant of Add: what does not fit under the cap is not counted.
AddCapped(c, n, splits) ==
    [text |-> IF c.text + n <= CountedChars THEN c.text + n ELSE CountedChars, over |-> 0]

\* OutputCounter._add fills the room that is left; its twins count a piece past the
\* cap whole.
Add(c, n, splits) ==
    LET room == IF splits THEN CountedChars - c.text
                ELSE IF c.text + n <= CountedChars THEN n ELSE 0
        kept == IF n <= room THEN n ELSE room
    IN  [text |-> c.text + kept, over |-> c.over + (n - kept)]

\* deltaText: content, one reasoning member, the arguments of tool calls.
DeltaText(e) ==
    CASE e.k \in {"text", "args"} -> Len(e.p)
      [] e.k = "reasoning" ->
            IF e.as \cap {"reasoning_content", "reasoning"} # {} THEN Len(e.p) ELSE 0
      [] OTHER -> 0

\* OutputCounter._line, MessagesOutputCounter.feed, ResponsesOutputCounter.feed.
CountChat(c, e) == Add(c, DeltaText(e), TRUE)
CountMessages(c, e) ==
    IF e.k \in {"text_delta", "json_delta", "thinking_delta"} THEN Add(c, Len(e.p), FALSE) ELSE c
CountResponses(c, e) ==
    IF e.k \in {"output_text_delta", "args_delta", "reasoning_delta", "refusal_delta"}
    THEN Add(c, Len(e.p), FALSE) ELSE c

\* detectFirstTokenKind, on the upstream's own frames of all three dialects.
FirstTokenKind(e) ==
    CASE e.k \in {"text", "text_delta", "output_text_delta"} /\ e.p # <<>> -> "content"
      [] e.k \in {"reasoning", "thinking_delta", "reasoning_delta"} /\ e.p # <<>> -> "reasoning"
      [] e.k \in {"tool", "args", "args_delta"} -> "tool_call"
      [] e.k \in {"block_start", "item_added"} /\ e.type = "call" -> "tool_call"
      [] OTHER -> "none"

-----------------------------------------------------------------------------
\* mirrorReasoningInto: reasoning_content is repeated under OpenRouter's names, which
\* are never overwritten.
Mirrored(e) ==
    IF e.k = "reasoning" /\ "reasoning_content" \in e.as
    THEN [e EXCEPT !.as = @ \cup {"reasoning", "reasoning_details"}]
    ELSE e
=============================================================================
