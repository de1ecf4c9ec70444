---------------------------- MODULE Translators ----------------------------
(***************************************************************************)
(* The answers of providers that speak another dialect, turned into the    *)
(* client's: MessagesToChatSse (anthropic.mjs), ResponsesToChatSse and     *)
(* ResponsesJsonToChat (bedrock.mjs), ResponsesToMessagesSse and           *)
(* ResponsesJsonToMessages (responsesMessages.mjs).  Each dispatch is a    *)
(* function from a translator's state and one event to its next state and  *)
(* the frames written.  A text is the sequence of its characters; the keys *)
(* of items and blocks, and the ids of calls, are numbers.                 *)
(***************************************************************************)
EXTENDS Integers, Sequences, SequencesExt, FiniteSets, TLC

\* Usage objects: functions from the members present to their values.
None == [f \in {} |-> 0]
Field(u, f) == IF f \in DOMAIN u THEN u[f] ELSE 0

\* What the constructors set.  "over" is fatal and doneEmitted (done); tools maps the
\* key of an item or a block to the index its frames carry, and sent the arguments.
NewTranslator ==
    [over |-> "no", started |-> FALSE, next |-> 0, open |-> -1, openKey |-> -1,
     tools |-> <<>>, sent |-> <<>>, reason |-> "none", usage |-> None]

Step(t, out) == [to |-> t, out |-> out]
Silent(t) == Step(t, <<>>)

\* Frames of the chat dialect; [DONE] is the frame "done".
Chat(k, i, p) == [k |-> k, i |-> i, p |-> p]
ChatUsage(u) == [k |-> "usage", u |-> u]
ChatFinish(reason) == [k |-> "finish", reason |-> reason]
ChatEnd == [k |-> "done"]
ChatError == [k |-> "error"]

\* Frames of the Messages dialect.
Block(k, i, p) == [k |-> k, i |-> i, p |-> p]
BlockStart(i, type, id) == [k |-> "block_start", i |-> i, type |-> type, id |-> id]
MessageStart(u) == [k |-> "message_start", u |-> u]
MessageDelta(reason, u) == [k |-> "message_delta", reason |-> reason, u |-> u]
MessageStop == [k |-> "message_stop"]
MessageError == [k |-> "error"]

ChatFails(t) == Step([t EXCEPT !.over = "fatal"], <<ChatError>>)

\* STOP_REASON_MAP, with "stop" for what it does not name.
StopReason(reason) ==
    CASE reason = "max_tokens" -> "length"
      [] reason = "tool_use" -> "tool_calls"
      [] OTHER -> "stop"

\* MessagesToChatSse._dispatch: a tool's frames carry the index of its block, the
\* counts are kept for the frame written when the message stops.
MessagesToChat(t, e) ==
    CASE e.k = "message_start" ->
            Step([t EXCEPT !.usage = e.u @@ [in |-> 0, out |-> 0]], <<Chat("role", 0, <<>>)>>)
      [] e.k = "block_start" ->
            IF e.type = "call"
            THEN Step([t EXCEPT !.tools = (e.i :> t.next) @@ @, !.next = @ + 1],
                      <<Chat("tool", t.next, <<e.id>>)>>)
            ELSE Silent(t)
      [] e.k = "text_delta" -> Step(t, <<Chat("text", 0, e.p)>>)
      [] e.k = "json_delta" ->
            IF e.i \in DOMAIN t.tools THEN Step(t, <<Chat("args", t.tools[e.i], e.p)>>)
            ELSE Silent(t)
      [] e.k = "message_delta" ->
            Silent([t EXCEPT !.reason = StopReason(e.reason),
                             !.usage = IF "out" \in DOMAIN e.u THEN ("out" :> e.u.out) @@ @
                                       ELSE @])
      [] e.k = "message_stop" ->
            Step([t EXCEPT !.over = "done"],
                 <<ChatFinish(IF t.reason = "none" THEN "stop" ELSE t.reason),
                   ChatUsage(t.usage), ChatEnd>>)
      [] e.k \in {"error", "bad"} -> ChatFails(t)
      [] OTHER -> Silent(t)

-----------------------------------------------------------------------------
(* The Responses dialect, read.                                            *)

\* Mutant of Suffix: the string is written again whole.
SuffixWhole(sent, full) == full

\* What a terminal arguments string adds to the deltas: its suffix, or nothing when
\* it contradicts what the client has.
Suffix(sent, full) ==
    IF Len(full) > Len(sent) /\ IsPrefix(sent, full)
    THEN SubSeq(full, Len(sent) + 1, Len(full)) ELSE <<>>

\* Arguments for a call that was announced, none for another.  k is the frame.
Args(t, k, key, p) ==
    IF key \in DOMAIN t.tools /\ p # <<>>
    THEN Step([t EXCEPT !.sent[key] = @ \o p], <<Chat(k, t.tools[key], p)>>)
    ELSE Silent(t)

\* _emitArgsSuffix and _argsSuffix.
ArgsSuffix(t, k, key, full) ==
    IF key \in DOMAIN t.tools THEN Args(t, k, key, Suffix(t.sent[key], full)) ELSE Silent(t)

\* Mutant of ChatCounts: the caches are taken out of the input, as Anthropic's are.
ChatCountsAdditive(u) ==
    [in |-> Field(u, "in") - Field(u, "read") - Field(u, "write"), out |-> Field(u, "out"),
     read |-> Field(u, "read"), write |-> Field(u, "write")]

\* Usage under the chat names: the input still includes both cache buckets.
ChatCounts(u) ==
    [in |-> Field(u, "in"), out |-> Field(u, "out"),
     read |-> Field(u, "read"), write |-> Field(u, "write")]

\* ResponsesToChatSse._dispatch.
ResponsesToChat(t, e) ==
    CASE e.k = "created" -> Step(t, <<Chat("role", 0, <<>>)>>)
      [] e.k = "item_added" ->
            IF e.type = "call"
            THEN Step([t EXCEPT !.tools = (e.i :> t.next) @@ @, !.sent = (e.i :> <<>>) @@ @,
                                !.next = @ + 1],
                      <<Chat("tool", t.next, <<e.id>>)>>)
            ELSE Silent(t)
      [] e.k = "args_delta" -> Args(t, "args", e.i, e.p)
      [] e.k = "args_done" -> ArgsSuffix(t, "args", e.i, e.full)
      [] e.k = "item_done" ->
            IF e.type = "call" THEN ArgsSuffix(t, "args", e.i, e.full) ELSE Silent(t)
      [] e.k = "output_text_delta" -> Step(t, <<Chat("text", 0, e.p)>>)
      [] e.k \in {"completed", "incomplete"} ->
            Step([t EXCEPT !.over = "done"],
                 <<ChatFinish(IF e.k = "incomplete" /\ e.reason = "max_tokens" THEN "length"
                              ELSE IF t.tools # <<>> THEN "tool_calls" ELSE "stop")>>
                 \o (IF e.u = None THEN <<>> ELSE <<ChatUsage(ChatCounts(e.u))>>)
                 \o <<ChatEnd>>)
      [] e.k \in {"failed", "error", "bad"} -> ChatFails(t)
      [] OTHER -> Silent(t)

\* _start: message_start goes out once, ahead of anything else.
Start(t) ==
    Step([t EXCEPT !.started = TRUE],
         IF t.started THEN <<>> ELSE <<MessageStart([in |-> 0, out |-> 0])>>)

\* Mutant of Close: the block is forgotten, not stopped.
CloseForgets(t) == Silent([t EXCEPT !.open = -1, !.openKey = -1])

\* _close: the open block, if any, is stopped.
Close(t) ==
    Step([t EXCEPT !.open = -1, !.openKey = -1],
         IF t.open = -1 THEN <<>> ELSE <<Block("block_stop", t.open, <<>>)>>)

\* this._start() + this._close()
StartClose(t) == LET s == Start(t) c == Close(s.to) IN Step(c.to, s.out \o c.out)

Then(s, more) == Step(more.to, s.out \o more.out)

\* A block of this type is opened for the item.
OpenBlock(t, key, type, id) ==
    Step([t EXCEPT !.open = t.next, !.openKey = key, !.next = @ + 1],
         <<BlockStart(t.next, type, id)>>)

MessageFails(t) ==
    LET c == StartClose(t)
    IN  Step([c.to EXCEPT !.over = "fatal"], c.out \o <<MessageError>>)

\* Mutant of AdditiveCounts: the input is passed on with its caches.
AdditiveCountsVerbatim(u) ==
    [in |-> Field(u, "in"), out |-> Field(u, "out"),
     read |-> Field(u, "read"), write |-> Field(u, "write")]

\* The subset convention turned into Anthropic's: the input loses both cache buckets,
\* and is never negative.
AdditiveCounts(u) ==
    LET rest == Field(u, "in") - Field(u, "read") - Field(u, "write")
    IN  [in |-> IF rest < 0 THEN 0 ELSE rest, out |-> Field(u, "out"),
         read |-> Field(u, "read"), write |-> Field(u, "write")]

MessagesReason(e, called) ==
    CASE e.k = "incomplete" /\ e.reason = "max_tokens" -> "max_tokens"
      [] e.k = "incomplete" /\ e.reason = "content_filter" -> "refusal"
      [] OTHER -> IF called THEN "tool_use" ELSE "end_turn"

\* ResponsesToMessagesSse._dispatch.
ResponsesToMessages(t, e) ==
    CASE e.k = "created" -> Start(t)
      [] e.k = "item_added" ->
            IF e.type = "call"
            THEN LET c == StartClose(t)
                     o == OpenBlock(c.to, e.i, "call", e.id)
                 IN  Then(c, Step([o.to EXCEPT !.tools = (e.i :> o.to.open) @@ @,
                                               !.sent = (e.i :> <<>>) @@ @], o.out))
            ELSE Silent(t)
      [] e.k = "output_text_delta" ->
            LET s == Start(t)
                o == IF t.openKey = e.i THEN Silent(s.to)
                     ELSE LET c == Close(s.to) IN Then(c, OpenBlock(c.to, e.i, "text", 0))
            IN  Then(s, Then(o, Step(o.to, <<Block("text_delta", o.to.open, e.p)>>)))
      [] e.k = "args_delta" -> Args(t, "json_delta", e.i, e.p)
      [] e.k = "args_done" -> ArgsSuffix(t, "json_delta", e.i, e.full)
      [] e.k = "item_done" ->
            LET s == IF e.type = "call" THEN ArgsSuffix(t, "json_delta", e.i, e.full)
                     ELSE Silent(t)
            IN  Then(s, IF t.openKey = e.i THEN Close(s.to) ELSE Silent(s.to))
      [] e.k \in {"completed", "incomplete"} ->
            LET c == StartClose(t)
            IN  Step([c.to EXCEPT !.over = "done"],
                     c.out \o <<MessageDelta(MessagesReason(e, t.tools # <<>>),
                                             AdditiveCounts(e.u)), MessageStop>>)
      [] e.k \in {"failed", "error"} -> MessageFails(t)
      [] e.k = "bad" -> Step([t EXCEPT !.over = "fatal"], <<MessageError>>)
      [] OTHER -> Silent(t)

-----------------------------------------------------------------------------
(* One Responses object instead of a stream.                               *)

\* Texts of the items of one kind, joined.
TextOf(items, kind) ==
    FlattenSeq([i \in DOMAIN items |-> IF items[i].kind = kind THEN items[i].full ELSE <<>>])
CallsOf(items) == SelectSeq(items, LAMBDA it : it.kind = "call")

\* A Responses object that is not an answer: not a record, an error, a failed status.
NotAnAnswer(o) == o.k \in {"failed", "error", "bad"}

\* responsesJsonToChatCompletion.
ResponsesJsonToChat(o, items) ==
    IF NotAnAnswer(o) THEN <<ChatError>>
    ELSE <<Chat("text", 0, TextOf(items, "text"))>>
         \o (IF TextOf(items, "refusal") = <<>> THEN <<>>
             ELSE <<Chat("refusal", 0, TextOf(items, "refusal"))>>)
         \o FlattenSeq([n \in DOMAIN CallsOf(items) |->
                <<Chat("tool", n - 1, <<CallsOf(items)[n].id>>),
                  Chat("args", n - 1, CallsOf(items)[n].full)>>])
         \o <<ChatFinish(CASE o.k = "incomplete" /\ o.reason = "max_tokens" -> "length"
                           [] o.k = "incomplete" /\ o.reason = "content_filter" -> "content_filter"
                           [] OTHER -> IF CallsOf(items) # <<>> THEN "tool_calls" ELSE "stop"),
              ChatUsage(ChatCounts(o.u)), ChatEnd>>

\* The blocks of responsesJsonToMessage (adjacent text blocks stand for the one the code
\* joins).  The arguments are parsed; those of a call the answer was cut in do not parse.
JsonBlocks(o, items) ==
    FlattenSeq([n \in DOMAIN items |->
        CASE items[n].kind = "text" ->
                <<BlockStart(n, "text", 0), Block("text_delta", n, items[n].full),
                  Block("block_stop", n, <<>>)>>
          [] items[n].kind = "call" ->
                <<BlockStart(n, "call", items[n].id),
                  Block("json_delta", n, IF o.k = "incomplete" /\ n = Len(items)
                                         THEN <<>> ELSE items[n].full),
                  Block("block_stop", n, <<>>)>>
          [] OTHER -> <<>>])

\* responsesJsonToMessage: a refusal is the last block.
ResponsesJsonToMessages(o, items) ==
    LET refusal == TextOf(items, "refusal")
        last == Len(items) + 1
    IN  IF NotAnAnswer(o) THEN <<MessageError>>
        ELSE <<MessageStart([in |-> 0, out |-> 0])>> \o JsonBlocks(o, items)
             \o (IF refusal = <<>> THEN <<>>
                 ELSE <<BlockStart(last, "text", 0), Block("text_delta", last, refusal),
                        Block("block_stop", last, <<>>)>>)
             \o <<MessageDelta(IF refusal # <<>> /\ MessagesReason(o, FALSE) # "max_tokens"
                               THEN "refusal" ELSE MessagesReason(o, CallsOf(items) # <<>>),
                               AdditiveCounts(o.u)), MessageStop>>
=============================================================================
