-------------------------------- MODULE Hold --------------------------------
(***************************************************************************)
(* What the enclave owes horse-power about one settle_id, whatever handler *)
(* serves the request: the id is announced at most once, at authorize;     *)
(* horse-power takes its balance hold or refuses; one final word (a settle *)
(* or a terminal error report) closes the books, and after it nothing is   *)
(* asked under that id.  The handlers of server.mjs are shown to implement *)
(* this contract (ChatRequest!ImplementsHold, Handlers!ImplementsHold).    *)
(***************************************************************************)
EXTENDS Naturals

VARIABLES
    hold,       \* "idle", "asked", "granted" or "refused"
    said        \* final words said: 0 or 1

Init == hold = "idle" /\ said = 0

\* The settle_id goes out with the authorize request.
Ask == hold = "idle" /\ said = 0 /\ hold' = "asked" /\ UNCHANGED said

\* horse-power decides, whether or not the enclave still waits.
Decide == hold = "asked" /\ hold' \in {"granted", "refused"} /\ UNCHANGED said

\* The settle or the terminal report: the hold is released.
Say == said = 0 /\ said' = 1 /\ UNCHANGED hold

Next == Ask \/ Decide \/ Say

Spec == Init /\ [][Next]_<<hold, said>>
=============================================================================
