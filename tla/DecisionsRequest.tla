-------------------------- MODULE DecisionsRequest --------------------------
(* POST /v1/decisions: one JSON round trip to OpenRouter, settled once.      *)
EXTENDS Request

DecisionsEntry ==
    /\ At("decisions", "entry")
    /\ \/ ~req.cred /\ Refuse("unauthenticated", FALSE)
       \/ req.cred /\ Goto("body")
    /\ UNCHANGED <<fixed, hp, posts, answer, books, threw>>

\* The body is read and opened, its shape is checked.  The close listener is
\* attached after this, so a close during the read is never seen.
DecisionsBody ==
    /\ At("decisions", "body")
    /\ \/ Refuse("request_unreadable", TRUE)
       \/ Refuse("request_unreadable", FALSE)      \* the validator's refusal
       \/ Goto("measure")
    /\ UNCHANGED <<fixed, hp, posts, answer, books, threw>>

DecisionsAsk ==
    /\ At("decisions", "measure")
    /\ AskHorsepower
    /\ UNCHANGED <<fixed, posts, answer, books, threw>>

DecisionsRefused ==
    /\ At("decisions", "authorize")
    /\ Refused
    /\ UNCHANGED <<fixed, hp, posts, answer, books, threw>>

\* Granted: the client may have left during the round trip.
DecisionsGranted ==
    /\ At("decisions", "authorize") /\ hp = "granted"
    /\ \/ clientGone /\ Abandon /\ UNCHANGED posts
       \/ ~clientGone /\ Post("attempt")
    /\ UNCHANGED <<fixed, hp, answer, books, threw>>

\* Headers, an error, or the deadline before either.
DecisionsAnswered ==
    /\ At("decisions", "attempt")
    /\ \/ Refuse("upstream_unreachable", TRUE) /\ UNCHANGED answer
       \/ /\ status' \in {200, 500} /\ up' = "open" /\ UNCHANGED upError
          /\ Goto("answer")
    /\ UNCHANGED <<fixed, hp, posts, books, threw>>

\* The answer is read whole, or cut, oversized or past the deadline.  A refused
\* status is this request's final word; a served one with no usable usage is noted.
DecisionsRead ==
    /\ At("decisions", "answer")
    /\ \/ Refuse("stream_failed", TRUE) /\ up' = "cut"
       \/ /\ up' = "ended" /\ pc' = "seal"
          /\ \/ status = 500 /\ Final /\ Finalize("upstream_error_status") /\ UNCHANGED notes
             \/ /\ status = 200 /\ Note("decisions_usage_missing")
                /\ Finalize("decisions_usage_missing") /\ UNCHANGED terminals
             \/ /\ status = 200 /\ UNCHANGED <<terminals, notes>>
                /\ \/ clientGone /\ UNCHANGED outcome
                   \/ ~clientGone /\ Finalize("clean")
          /\ UNCHANGED <<client, streamEnd, settles>>
    /\ UNCHANGED <<fixed, hp, posts, status, upError, books, threw>>

\* The answer goes out (sealed, awaited, for an EHBP client), and a served one is
\* settled whether or not it could be sealed.
DecisionsSend ==
    /\ At("decisions", "seal")
    /\ \/ UNCHANGED failureCode
       \/ req.ehbp /\ FailsAs("response_seal_failed")
    /\ res' = "ended" /\ pc' = "done"
    /\ \/ clientGone /\ UNCHANGED streamEnd
       \/ ~clientGone /\ EndsAs(IF status = 200 THEN "clean" ELSE "upstream_error")
    /\ settles' = settles + (IF status = 200 THEN 1 ELSE 0)
    /\ UNCHANGED <<fixed, connected, clientGone, hp, posts, answer, settled, outcome,
                   terminals, notes, threw>>

\* 'close' of the response: seen once the body is read; the upstream call goes on.
DecisionsClose ==
    /\ route = "decisions" /\ ~(pc = "seal" /\ ~req.ehbp)
    /\ connected /\ res # "finished"
    /\ connected' = FALSE
    /\ \/ pc \in {"entry", "body"} /\ UNCHANGED <<clientGone, story>>
       \/ pc \notin {"entry", "body"} /\ SeenGone
    /\ UNCHANGED <<fixed, pc, res, hp, posts, answer, books, words, threw>>

\* measureDecisionsInput is the one call that may throw.
DecisionsThrows ==
    /\ At("decisions", "measure")
    /\ Thrown
    /\ UNCHANGED <<fixed, hp, posts, answer, books>>

DecisionsHandler ==
    \/ DecisionsEntry \/ DecisionsBody \/ DecisionsAsk \/ DecisionsRefused
    \/ DecisionsGranted \/ DecisionsAnswered \/ DecisionsRead \/ DecisionsSend

DecisionsNext == DecisionsHandler \/ DecisionsThrows \/ DecisionsClose
=============================================================================
