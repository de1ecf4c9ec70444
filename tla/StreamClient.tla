---------------------------- MODULE StreamClient ----------------------------
(***************************************************************************)
(* The client of a served answer, which is not this repository's: an SSE   *)
(* parser, and a reader of each of the three dialects that assembles the   *)
(* answer and notices frames that break the dialect's grammar.             *)
(***************************************************************************)
EXTENDS Translators

NoEvent == [k |-> "other"]

NewView == [text |-> <<>>, thought |-> <<>>, refusal |-> <<>>, calls |-> <<>>,
            started |-> FALSE, open |-> -1, reason |-> "none", end |-> "none", bad |-> FALSE,
            line |-> "none", current |-> NoEvent, data |-> <<>>, swallowed |-> FALSE,
            got |-> 0]

\* Characters of output in an event, whatever the dialect; once each.
Size(e) ==
    IF e.k \in {"text", "args", "reasoning", "text_delta", "json_delta", "thinking_delta",
                "output_text_delta", "args_delta", "reasoning_delta", "refusal_delta"}
    THEN Len(e.p) ELSE 0

Bad(v) == [v EXCEPT !.bad = TRUE]
NewCall(v, i, id) ==
    IF i \in DOMAIN v.calls THEN Bad(v)
    ELSE [v EXCEPT !.calls = (i :> [id |-> id, args |-> <<>>]) @@ @]
MoreArgs(v, i, p) ==
    IF i \in DOMAIN v.calls THEN [v EXCEPT !.calls[i].args = @ \o p] ELSE Bad(v)

ReadChat(v, e) ==
    CASE e.k = "text" -> [v EXCEPT !.text = @ \o e.p]
      [] e.k = "refusal" -> [v EXCEPT !.refusal = @ \o e.p]
      [] e.k = "reasoning" -> IF "reasoning" \in e.as THEN [v EXCEPT !.thought = @ \o e.p] ELSE v
      [] e.k = "tool" -> NewCall(v, e.i, e.p[1])
      [] e.k = "args" -> MoreArgs(v, e.i, e.p)
      [] e.k = "finish" -> [v EXCEPT !.reason = e.reason]
      [] e.k = "done" -> [v EXCEPT !.end = "complete"]
      [] e.k = "error" -> [v EXCEPT !.end = "error"]
      [] OTHER -> v

\* Deltas belong to the one open block, and the message ends with none open.
ReadMessages(v, e) ==
    CASE e.k = "message_start" -> IF v.started THEN Bad(v) ELSE [v EXCEPT !.started = TRUE]
      [] e.k = "error" -> [v EXCEPT !.end = "error"]
      [] ~v.started -> Bad(v)
      [] e.k = "block_start" ->
            IF v.open # -1 THEN Bad(v)
            ELSE LET w == [v EXCEPT !.open = e.i]
                 IN  IF e.type = "call" THEN NewCall(w, e.i, e.id) ELSE w
      [] e.k \in {"text_delta", "thinking_delta", "json_delta", "block_stop"} /\ v.open # e.i ->
            Bad(v)
      [] e.k = "text_delta" -> [v EXCEPT !.text = @ \o e.p]
      [] e.k = "thinking_delta" -> [v EXCEPT !.thought = @ \o e.p]
      [] e.k = "json_delta" -> MoreArgs(v, e.i, e.p)
      [] e.k = "block_stop" -> [v EXCEPT !.open = -1]
      [] e.k = "message_delta" -> IF v.open # -1 THEN Bad(v) ELSE [v EXCEPT !.reason = e.reason]
      [] e.k = "message_stop" -> [v EXCEPT !.end = "complete"]
      [] OTHER -> v

ReadResponses(v, e) ==
    CASE e.k = "output_text_delta" -> [v EXCEPT !.text = @ \o e.p]
      [] e.k = "reasoning_delta" -> [v EXCEPT !.thought = @ \o e.p]
      [] e.k = "refusal_delta" -> [v EXCEPT !.refusal = @ \o e.p]
      [] e.k = "item_added" /\ e.type = "call" -> NewCall(v, e.i, e.id)
      [] e.k = "args_delta" -> MoreArgs(v, e.i, e.p)
      [] e.k = "args_done" -> IF e.i \in DOMAIN v.calls THEN [v EXCEPT !.calls[e.i].args = e.full]
                              ELSE Bad(v)
      [] e.k = "item_done" /\ e.type = "call" -> [v EXCEPT !.calls[e.i].args = e.full]
      [] e.k \in {"completed", "incomplete"} -> [v EXCEPT !.end = "complete", !.reason = e.reason]
      [] e.k \in {"failed", "error"} -> [v EXCEPT !.end = "error"]
      [] OTHER -> v

\* Nothing may follow the end but the error the dialect relay adds when the connection
\* is lost after it, which a client no longer reads.
Read(dialect, v, e) ==
    IF v.end # "none" THEN IF e.k = "error" THEN v ELSE Bad(v)
    ELSE CASE dialect = "chat" -> ReadChat(v, e)
           [] dialect = "messages" -> ReadMessages(v, e)
           [] OTHER -> ReadResponses(v, e)

\* The client's SSE parser.  A frame the relay writes itself is one piece; written
\* inside a frame, it is swallowed by it.  "close" is the blank line of failAnswer.
ReadPiece(dialect, v, piece) ==
    CASE piece.part = "torn" -> [v EXCEPT !.line = "torn"]
      [] piece.part = "rest" -> [v EXCEPT !.line = "whole", !.current = piece.e]
      [] piece.part = "nl" ->
            [v EXCEPT !.line = "none", !.data = <<v.current>>, !.current = NoEvent,
                      !.got = @ + (IF piece.big THEN 0 ELSE Size(v.current))]
      [] piece.part = "blank" ->
            LET w == [v EXCEPT !.data = <<>>]
            IN  IF v.data = <<>> THEN w ELSE Read(dialect, w, v.data[1])
      [] piece.part = "frame" ->
            IF v.line # "none" \/ v.data # <<>>
            THEN [v EXCEPT !.line = "none", !.data = <<>>, !.swallowed = TRUE]
            ELSE Read(dialect, [v EXCEPT !.got = @ + Size(piece.e)], piece.e)
      [] piece.part = "close" ->
            LET w == [v EXCEPT !.line = "none", !.data = <<>>]
            IN  CASE v.line = "whole" -> Read(dialect, w, v.current)
                  [] v.line = "none" /\ v.data # <<>> -> Read(dialect, w, v.data[1])
                  [] OTHER -> w
      [] OTHER -> v

Frame(e) == [e |-> e, part |-> "frame", big |-> FALSE]
Frames(es) == [n \in DOMAIN es |-> Frame(es[n])]
ReadAll(dialect, v, pieces) ==
    FoldLeft(LAMBDA w, piece : ReadPiece(dialect, w, piece), v, pieces)
=============================================================================
