--------------------------- MODULE StreamUpstream ---------------------------
(***************************************************************************)
(* The provider of a served answer, which is not this repository's: what   *)
(* it says, and the events of its grammar it says it in, as the headers of *)
(* the translators pin them.  Items come one after the other.              *)
(***************************************************************************)
EXTENDS StreamClient

CONSTANTS
    Routes,     \* bound: the routes exercised, some of AllRoutes
    MaxItems,   \* bound: items of an answer
    MaxPieces,  \* bound: characters of an item
    Usages      \* bound: usage objects an upstream reports

VARIABLES
    route,      \* how the answer is served, fixed by the request
    claim,      \* the usage the upstream reports, caches included in the input
    split,      \* "start" or "delta": which event of a message carries the input
    said,       \* the items said so far, with what was sent of them
    adding,     \* the last item is still open
    phase,      \* "new", "open", "reported", "complete", "failed"
    ended,      \* the reason it stopped for
    up,         \* its connection: "open", "ended" ('end' fired), "cut" ('error' fired)
    wire        \* pieces of its last event not yet read

fixed == <<route, claim, split>>
provider == <<route, claim, split, said, adding, phase, ended, up, wire>>

AllRoutes == {"anthropic-chat", "responses-chat", "json-chat", "fireworks", "openrouter",
              "messages", "responses", "responses-messages", "json-messages", "json-native"}
Json == {"json-chat", "json-messages", "json-native"}
ChatRelay == {"anthropic-chat", "responses-chat", "json-chat", "fireworks", "openrouter"}
Translated == {"anthropic-chat", "responses-chat", "responses-messages"}

ASSUME StreamAssumption ==
    Routes \subseteq AllRoutes /\ MaxItems \in Nat /\ MaxPieces \in Nat

\* The dialects on both sides of the relay.
Spoken ==
    CASE route \in {"anthropic-chat", "messages"} -> "messages"
      [] route \in {"fireworks", "openrouter"} -> "chat"
      [] OTHER -> "responses"
Heard ==
    CASE route \in ChatRelay -> "chat"
      [] route \in {"messages", "responses-messages", "json-messages"} -> "messages"
      [] OTHER -> "responses"

\* Only a Responses answer may come without usage; only a message splits it.
UpstreamInit ==
    /\ route \in Routes /\ claim \in Usages
    /\ claim = None => Spoken = "responses"
    /\ split \in {"start", "delta"}
    /\ split = "delta" => route = "messages"
    /\ said = <<>> /\ adding = FALSE /\ phase = "new" /\ ended = "none"
    /\ up = "open" /\ wire = <<>>

\* Bytes of an event as they come: part of its line, the rest, the newline, the blank
\* line.  A JSON body is one line without an end, and nothing precedes it.
Pieces(e, big) ==
    LET piece(part) == [e |-> e, part |-> part, big |-> big]
    IN  <<piece("torn"), piece("rest")>>
        \o (IF route \in Json THEN <<>> ELSE <<piece("nl"), piece("blank")>>)

Sends(e) == wire' = IF route \in Json THEN wire ELSE Pieces(e, FALSE)
Quiet == up = "open" /\ wire = <<>>

\* Anthropic puts the input on message_start, with a placeholder for the output;
\* Fireworks puts zeros there and everything on message_delta.
Costs == [f \in DOMAIN claim \cap {"cost", "byok", "inference"} |-> claim[f]]
StartUsage ==
    IF split = "start" THEN ("out" :> 1) @@ AdditiveCounts(claim) ELSE [in |-> 0, out |-> 0]
DeltaUsage ==
    (IF split = "start" THEN ("out" :> claim.out) ELSE AdditiveCounts(claim)) @@ Costs

Opens ==
    /\ Quiet /\ phase = "new"
    /\ phase' = "open"
    /\ Sends(CASE Spoken = "responses" -> [k |-> "created"]
               [] Spoken = "messages" -> MessageStart(StartUsage)
               [] OTHER -> Chat("role", 0, <<>>))
    /\ UNCHANGED <<fixed, said, adding, ended, up>>

\* A keep-alive, or an event of no interest.
Pings ==
    /\ Quiet /\ phase = "open" /\ said = <<>> /\ route \notin Json
    /\ Sends(NoEvent)
    /\ UNCHANGED <<fixed, said, adding, phase, ended, up>>

AddsItem(kind) ==
    LET i == Len(said) + 1
    IN  /\ Quiet /\ phase = "open" /\ ~adding /\ i <= MaxItems
        /\ kind = "refusal" => Spoken = "responses"
        /\ adding' = TRUE
        /\ said' = Append(said, [kind |-> kind, id |-> i, full |-> <<>>, sent |-> <<>>,
                                 done |-> FALSE])
        /\ CASE Spoken = "responses" ->
                    Sends([k |-> "item_added", i |-> i, type |-> kind, id |-> i])
             [] Spoken = "messages" -> Sends(BlockStart(i, kind, i))
             [] OTHER -> IF kind = "call" THEN Sends(Chat("tool", Len(CallsOf(said)), <<i>>))
                         ELSE wire' = wire
        /\ UNCHANGED <<fixed, phase, ended, up>>

DeltaOf(kind, i, p) ==
    CASE Spoken = "responses" ->
            [k |-> CASE kind = "text" -> "output_text_delta" [] kind = "call" -> "args_delta"
                     [] kind = "thought" -> "reasoning_delta" [] OTHER -> "refusal_delta",
             i |-> i, p |-> p]
      [] Spoken = "messages" ->
            Block(CASE kind = "text" -> "text_delta" [] kind = "call" -> "json_delta"
                    [] OTHER -> "thinking_delta", i, p)
      [] OTHER ->
            [k |-> CASE kind = "text" -> "text" [] kind = "call" -> "args" [] OTHER -> "reasoning",
             i |-> Len(CallsOf(said)) - 1, p |-> p,
             as |-> IF route = "fireworks" THEN {"reasoning_content"}
                    ELSE {"reasoning", "reasoning_details"}]

\* The next character of the open item.  The delta of a call's arguments may be lost;
\* the first delta of an answer may be larger than every buffer.
SaysPiece(lost, big) ==
    LET i == Len(said)
        p == <<10 * i + Len(said[i].full)>>
    IN  /\ Quiet /\ phase = "open" /\ adding /\ ~said[i].done
        /\ Len(said[i].full) < MaxPieces
        /\ lost => said[i].kind = "call" /\ Spoken = "responses" /\ route \notin Json
        /\ big => i = 1 /\ said[i].full = <<>> /\ ~lost /\ route \notin Json
        /\ said' = [said EXCEPT ![i].full = @ \o p, ![i].sent = IF lost THEN @ ELSE @ \o p]
        /\ wire' = IF lost \/ route \in Json THEN wire
                   ELSE Pieces(DeltaOf(said[i].kind, i, p), big)
        /\ UNCHANGED <<fixed, adding, phase, ended, up>>

\* The terminal shapes of a call's arguments repeat the whole string.
RepeatsArgs ==
    LET i == Len(said)
    IN  /\ Quiet /\ phase = "open" /\ adding /\ Spoken = "responses" /\ route \notin Json
        /\ said[i].kind = "call" /\ ~said[i].done
        /\ said' = [said EXCEPT ![i].done = TRUE]
        /\ Sends([k |-> "args_done", i |-> i, full |-> said[i].full])
        /\ UNCHANGED <<fixed, adding, phase, ended, up>>

ClosesItem ==
    LET i == Len(said)
    IN  /\ Quiet /\ phase = "open" /\ adding
        /\ adding' = FALSE
        /\ said' = [said EXCEPT ![i].done = (Spoken = "responses")]
        /\ CASE Spoken = "responses" ->
                    Sends([k |-> "item_done", i |-> i, type |-> said[i].kind,
                           full |-> said[i].full])
             [] Spoken = "messages" -> Sends(Block("block_stop", i, <<>>))
             [] OTHER -> wire' = wire
        /\ UNCHANGED <<fixed, phase, ended, up>>

Reasons == {"end", "max_tokens", "tool_use", "content_filter"}

\* message_delta, or the chat usage frame, ahead of the end.
Reports(reason) ==
    /\ Quiet /\ phase = "open" /\ ~adding /\ Spoken # "responses"
    /\ reason = "end" \/ (Spoken = "messages" /\ reason # "content_filter")
    /\ phase' = "reported" /\ ended' = reason
    /\ Sends(IF Spoken = "messages" THEN MessageDelta(reason, DeltaUsage) ELSE ChatUsage(claim))
    /\ UNCHANGED <<fixed, said, adding, up>>

\* The end of the answer.  A Responses answer reports there; cut by max_tokens, its
\* last item may be unfinished.  A JSON body may be over the size cap.
Stops(reason) ==
    /\ Quiet
    /\ phase' = "complete" /\ ended' = reason
    /\ \/ /\ Spoken = "responses" /\ phase = "open" /\ reason # "tool_use"
          /\ adding => reason = "max_tokens"
          /\ \E big \in BOOLEAN :
                 /\ big => route \in Json
                 /\ wire' = Pieces([k |-> IF reason = "end" THEN "completed" ELSE "incomplete",
                                    reason |-> reason, u |-> claim], big)
       \/ /\ Spoken # "responses" /\ phase = "reported" /\ reason = ended
          /\ Sends(IF Spoken = "messages" THEN MessageStop ELSE ChatEnd)
    /\ UNCHANGED <<fixed, said, adding, up>>

\* A failure said in-band, or a frame that is not JSON.
Fails(kind) ==
    /\ Quiet /\ phase \in {"new", "open", "reported"}
    /\ kind = "failed" => Spoken = "responses"
    /\ kind = "bad" => route \in Translated \cup Json
    /\ phase' = "failed"
    /\ wire' = Pieces([k |-> kind], FALSE)
    /\ UNCHANGED <<fixed, said, adding, ended, up>>

UpstreamSays ==
    \/ Opens \/ Pings \/ RepeatsArgs \/ ClosesItem
    \/ \E kind \in {"text", "call", "thought", "refusal"} : AddsItem(kind)
    \/ \E lost, big \in BOOLEAN : SaysPiece(lost, big)
    \/ \E reason \in Reasons : Reports(reason) \/ Stops(reason)
    \/ \E kind \in {"failed", "error", "bad"} : Fails(kind)
=============================================================================
