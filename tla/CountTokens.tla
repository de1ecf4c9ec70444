----------------------------- MODULE CountTokens -----------------------------
(* POST /v1/messages/count_tokens: authorized without a settle_id, so there  *)
(* is no hold, nothing is reported and nothing settles.                      *)
EXTENDS Request

CountEntry ==
    /\ At("count", "entry")
    /\ \/ ~req.cred /\ Refuse("unauthenticated", FALSE)
       \/ req.cred /\ Goto("body")
    /\ UNCHANGED <<fixed, hp, posts, answer, books, threw>>

\* The body, the flag and the deployment are checked before authorize.
CountBody ==
    /\ At("count", "body")
    /\ \/ \E code \in {"request_unreadable", "pii_redaction_invalid", "upstream_unreachable"} :
              Refuse(code, FALSE)
       \/ Goto("authorize")
    /\ UNCHANGED <<fixed, hp, posts, answer, books, threw>>

\* The balance backoff does not apply to it; a model without a first-party id is
\* refused.
CountAuthorized ==
    /\ At("count", "authorize")
    /\ \/ /\ \E code \in {"authorize_rejected", "authorize_timeout", "authorize_unreachable",
                          "model_rejected"} : Refuse(code, FALSE)
          /\ UNCHANGED posts
       \/ Post("attempt")
    /\ UNCHANGED <<fixed, hp, answer, books, threw>>

CountAnswered ==
    /\ At("count", "attempt")
    /\ \/ Refuse("upstream_unreachable", FALSE) /\ UNCHANGED answer
       \/ /\ status' \in {200, 500} /\ up' = "open" /\ UNCHANGED upError
          /\ Goto("answer")
    /\ UNCHANGED <<fixed, hp, posts, books, threw>>

\* The answer is read; a refused one is sanitized, which throws on a body nested
\* too deeply: nothing catches it before requestRouter, which calls no finalize.
CountRead ==
    /\ At("count", "answer")
    /\ \/ Refuse("stream_failed", FALSE) /\ up' = "cut" /\ UNCHANGED threw
       \/ /\ status = 500
          /\ up' = "ended" /\ threw' = TRUE
          /\ res' = "ended" /\ pc' = "done"
          /\ UNCHANGED <<connected, clientGone, story, words>>
       \/ /\ up' = "ended"
          /\ Finalize(IF status = 200 THEN "clean" ELSE "upstream_error_status")
          /\ pc' = "seal"
          /\ UNCHANGED <<client, streamEnd, words, threw>>
    /\ UNCHANGED <<fixed, hp, posts, status, upError, books>>

CountSend ==
    /\ At("count", "seal")
    /\ res' = "ended" /\ pc' = "done"
    /\ UNCHANGED <<fixed, connected, clientGone, hp, posts, answer, books, story, words, threw>>

\* Nothing listens for the client's close.
CountClose ==
    /\ route = "count" /\ ~(pc = "seal" /\ ~req.ehbp)
    /\ connected /\ res # "finished"
    /\ connected' = FALSE
    /\ UNCHANGED <<fixed, pc, res, clientGone, hp, posts, answer, books, story, words, threw>>

CountHandler == CountEntry \/ CountBody \/ CountAuthorized \/ CountAnswered \/ CountRead \/ CountSend

CountNext == CountHandler \/ CountClose
=============================================================================
