------------------------------ MODULE Request ------------------------------
(***************************************************************************)
(* What the handlers of server.mjs beside the chat one have in common: the *)
(* response and its client, horse-power's authorize, the one upstream      *)
(* answer a handler holds, and what the request says of itself (outcome,   *)
(* error reports, settle).  Each handler is a module of its own that       *)
(* extends this one; Handlers composes them behind requestRouter.          *)
(*                                                                         *)
(* JavaScript runs to completion, so an action goes from one await to the  *)
(* next.  The few places where a handler is between awaits are in Running: *)
(* no event is delivered there.                                            *)
(***************************************************************************)
EXTENDS Naturals, Sequences, FiniteSets

VARIABLES
    route,      \* which handler requestRouter chose
    req,        \* the request: [cred, ehbp, pii]
    pc,         \* what the handler awaits
    res,        \* the response: "open", "ended" (res.end called), "finished"
    connected,  \* the client's connection has not closed
    clientGone, \* clientGone of the handler
    hp,         \* horse-power and this settle_id
    posts,      \* upstream requests sent
    status,     \* status of the answer held
    up,         \* the answer held: "none", "open", "ended", "cut"
    upError,    \* its 'error' is, or will be, heard
    settled,    \* settled, the latch
    failureCode,\* settleFailureCode
    streamEnd,  \* stream_end of the trace
    outcome,    \* what finalize recorded
    settles,    \* settles handed to the settle queue
    terminals,  \* error reports with terminal: true
    notes,      \* codes of the error reports with terminal: false
    threw       \* the handler ended in an exception

fixed  == <<route, req>>
client == <<res, connected, clientGone>>
answer == <<status, up, upError>>
books  == <<settled, failureCode>>
story  == <<streamEnd, outcome>>
words  == <<settles, terminals, notes>>
common == <<fixed, pc, client, hp, posts, answer, books, story, words, threw>>

Routes == {"decisions", "speech", "dialect", "private", "count"}

RequestInit ==
    /\ route \in Routes
    /\ req \in [cred : BOOLEAN, ehbp : BOOLEAN, pii : {"off", "on"}]
    /\ route # "dialect" => req.pii = "off"
    /\ route = "private" => ~req.ehbp
    /\ pc = IF route = "speech" THEN "body" ELSE "entry"
    /\ res = "open" /\ connected = TRUE /\ clientGone = FALSE
    /\ hp = "idle" /\ posts = 0
    /\ status = 0 /\ up = "none" /\ upError = FALSE
    /\ settled = FALSE /\ failureCode = "none"
    /\ streamEnd = "none" /\ outcome = "none"
    /\ settles = 0 /\ terminals = 0 /\ notes = {}
    /\ threw = FALSE

-----------------------------------------------------------------------------
(* The moves the handlers are built from.                                  *)

At(handler, where) == route = handler /\ pc = where

\* finalize of counters.beginRequest: the first outcome is the one recorded.
Finalize(o) == outcome' = IF outcome = "none" THEN o ELSE outcome

\* setStreamEnd: the first writer wins.
EndsAs(kind) == streamEnd' = IF streamEnd = "none" THEN kind ELSE streamEnd

FailsAs(code) == failureCode' = IF failureCode = "none" THEN code ELSE failureCode

\* reportEnclaveError with terminal: true, and with terminal: false.
Final == terminals' = terminals + 1
Note(code) == notes' = notes \cup {code}

\* The handler waits for `where`, and has said nothing.
Goto(where) == pc' = where /\ UNCHANGED <<client, story, words>>

\* A refusal: reported as the request's final word when `final`, finalized, answered.
Refuse(code, final) ==
    /\ terminals' = terminals + (IF final THEN 1 ELSE 0)
    /\ Finalize(code)
    /\ res' = "ended"
    /\ pc' = "done"
    /\ UNCHANGED <<connected, clientGone, settles, notes, streamEnd>>

\* Mutant of Abandon: the report is not marked as the final word.
AbandonUnsaid ==
    /\ EndsAs("client_abort")
    /\ Finalize("client_abort")
    /\ Note("client_abort")
    /\ pc' = "done"
    /\ UNCHANGED <<client, settles, terminals>>

\* The client left and nothing was bought: the terminal report releases the hold.
Abandon ==
    /\ EndsAs("client_abort")
    /\ Finalize("client_abort")
    /\ Final
    /\ pc' = "done"
    /\ UNCHANGED <<client, settles, notes>>

\* An upstream request goes out; its headers are awaited at `where`.
Post(where) == posts' = posts + 1 /\ Goto(where)

-----------------------------------------------------------------------------
(* authorizeWithHorsepower.                                                *)

\* A credential in balance backoff is answered from memory and not reported; any
\* other is announced to horse-power with this request's settle_id.
AskHorsepower ==
    \/ Refuse("authorize_rejected", FALSE) /\ UNCHANGED hp
    \/ Goto("authorize") /\ hp' = "asked"

\* External: horse-power decides, the enclave waiting for it or not.
HpDecides ==
    /\ hp = "asked"
    /\ hp' \in {"granted", "refused"}
    /\ UNCHANGED <<fixed, pc, client, posts, answer, books, story, words, threw>>

\* A refusal (a balance backoff is not reported), or no answer in time, or none.
Refused ==
    \/ hp = "refused" /\ \E backoff \in BOOLEAN : Refuse("authorize_rejected", ~backoff)
    \/ Refuse("authorize_timeout", TRUE)
    \/ Refuse("authorize_unreachable", TRUE)

\* horse-power's answer is cut off after its headers: its 'end' never comes, the
\* request's 'close' clears the deadline timer, and the await never resumes.
AuthorizeCut ==
    /\ pc = "authorize"
    /\ route # "count" => hp \in {"granted", "refused"}
    /\ Goto("stuck")
    /\ UNCHANGED <<fixed, hp, posts, answer, books, threw>>

-----------------------------------------------------------------------------
(* The client and the answer held.                                         *)

\* destroy of the answer: an 'error' follows, where somebody listens, unless it is
\* over already.
Destroyed(listening) ==
    \/ up \in {"open", "ended"} /\ up' = "cut" /\ upError' = listening
    \/ up \in {"none", "cut"} /\ UNCHANGED <<up, upError>>

\* The close handler of decisions, speech and the dialect relay.
SeenGone ==
    /\ clientGone' = TRUE
    /\ EndsAs("client_abort")
    /\ Finalize("client_abort")

\* A finished answer reaches the client.
Flush ==
    /\ res = "ended" /\ connected
    /\ res' = "finished"
    /\ UNCHANGED <<fixed, pc, connected, clientGone, hp, posts, answer, books, story,
                   words, threw>>

\* The catch of handleX, and requestRouter's: no settle has started.
Thrown ==
    /\ Refuse("internal_error", TRUE)
    /\ threw' = TRUE
=============================================================================
