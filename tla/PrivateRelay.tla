---------------------------- MODULE PrivateRelay ----------------------------
(* POST /private/v1/chat/completions: a body the client sealed to Tinfoil is  *)
(* relayed unread and settled from the router's usage line.                   *)
EXTENDS Request

\* The credential, the claimed model, the tunnel: all before authorize.
PrivateEntry ==
    /\ At("private", "entry")
    /\ \/ ~req.cred /\ Refuse("unauthenticated", FALSE) /\ UNCHANGED hp
       \/ req.cred /\ Refuse("model_rejected", FALSE) /\ UNCHANGED hp
       \/ req.cred /\ Refuse("upstream_unreachable", TRUE) /\ UNCHANGED hp
       \/ req.cred /\ AskHorsepower
    /\ UNCHANGED <<fixed, posts, answer, books, threw>>

PrivateRefused ==
    /\ At("private", "authorize")
    /\ Refused
    /\ UNCHANGED <<fixed, hp, posts, answer, books, threw>>

\* Granted: an unsealed request is refused before its body is read.
PrivateGranted ==
    /\ At("private", "authorize") /\ hp = "granted"
    /\ \/ Refuse("request_unreadable", TRUE)
       \/ Goto("body")
    /\ UNCHANGED <<fixed, hp, posts, answer, books, threw>>

PrivateBody ==
    /\ At("private", "body")
    /\ \/ Refuse("request_unreadable", TRUE) /\ UNCHANGED posts
       \/ Post("attempt")
    /\ UNCHANGED <<fixed, hp, answer, books, threw>>

\* Headers: a status that does not settle is reported as the final word now, and
\* its body is relayed all the same.
PrivateAnswered ==
    /\ At("private", "attempt")
    /\ \/ Refuse("upstream_unreachable", TRUE) /\ UNCHANGED answer
       \/ /\ status' \in {200, 422, 500} /\ up' = "open" /\ UNCHANGED upError
          /\ pc' = "stream"
          /\ \/ status' = 200 /\ UNCHANGED <<terminals, outcome>>
             \/ status' # 200 /\ Final /\ Finalize("upstream_error_status")
          /\ UNCHANGED <<client, streamEnd, settles, notes>>
    /\ UNCHANGED <<fixed, hp, posts, books, threw>>

\* Mutant of Conclude: a refused status is settled too.
ConcludeAll ==
    /\ settled' = TRUE /\ pc' = "done" /\ res' = "ended"
    /\ Finalize(streamEnd')
    /\ settles' = settles + 1

\* conclude: once; only a 2xx settles.
Conclude ==
    /\ settled' = TRUE /\ pc' = "done" /\ res' = "ended"
    /\ Finalize(streamEnd')
    /\ settles' = settles + (IF status = 200 THEN 1 ELSE 0)

\* 'end': a usage line that is missing is noted.
PrivateEnd ==
    /\ At("private", "stream") /\ up = "ended" /\ ~settled
    /\ EndsAs("clean")
    /\ Conclude
    /\ \/ UNCHANGED notes
       \/ status = 200 /\ ~clientGone /\ Note("tinfoil_usage_missing")
    /\ UNCHANGED <<fixed, connected, clientGone, hp, posts, answer, failureCode, terminals, threw>>

\* 'error': the echo of our own cancellation, settled at the delivered floor, or a
\* stream that broke.
PrivateError ==
    /\ At("private", "stream") /\ upError /\ ~settled
    /\ \/ clientGone /\ UNCHANGED <<streamEnd, failureCode, notes>>
       \/ /\ ~clientGone /\ EndsAs("upstream_error")
          /\ \/ /\ status = 200 /\ FailsAs("stream_failed")
                /\ \E more \in {{}, {"tinfoil_usage_missing"}} :
                       notes' = notes \cup {"stream_failed"} \cup more
             \/ status # 200 /\ UNCHANGED <<failureCode, notes>>
    /\ Conclude
    /\ UNCHANGED <<fixed, connected, clientGone, hp, posts, answer, terminals, threw>>

\* 'close': the listener is attached with the stream's, so a client that left
\* before the router answered is never seen.
PrivateClose ==
    /\ route = "private"
    /\ connected /\ res # "finished"
    /\ connected' = FALSE
    /\ \/ /\ pc # "stream"
          /\ UNCHANGED <<clientGone, story, up, upError, notes>>
       \/ /\ pc = "stream"
          /\ SeenGone
          /\ Destroyed(TRUE)
          /\ \/ status = 200 /\ Note("client_abort")
             \/ status # 200 /\ UNCHANGED notes
    /\ UNCHANGED <<fixed, pc, res, hp, posts, status, books, settles, terminals, threw>>

PrivateHandler ==
    \/ PrivateEntry \/ PrivateRefused \/ PrivateGranted \/ PrivateBody
    \/ PrivateAnswered \/ PrivateEnd \/ PrivateError

PrivateNext == PrivateHandler \/ PrivateClose
=============================================================================
