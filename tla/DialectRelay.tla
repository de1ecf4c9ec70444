---------------------------- MODULE DialectRelay ----------------------------
(* POST /v1/messages and /v1/responses: relayDialectRequest.  Direct providers *)
(* that speak the dialect are tried first, then OpenRouter; the frames go      *)
(* through, and the one settle is sent from whichever of 'end' and 'error'     *)
(* fires first.                                                                *)
EXTENDS Request

CONSTANT MaxDirect      \* bound: direct candidates horse-power lists

ASSUME DialectAssumption == MaxDirect \in Nat

VARIABLES
    directOnly,     \* relayDirectOnly: only the provider "own" may serve the model
    cands,          \* the direct candidates still to be walked
    own,            \* what became of "own": "untried", "unsupported", "skipped", "failed"
    sentTo,         \* providers the body was sent to
    restoreFailed,  \* restoreFailed: the answer failed in-band
    counting        \* the continuation of settleNow has not sent the settle yet

dialect == <<directOnly, cands, own, sentTo, restoreFailed, counting>>
walk    == <<directOnly, cands, own, sentTo>>

Directs == {"own", "other"}

DialectInit ==
    /\ directOnly = FALSE /\ cands = <<>> /\ own = "untried" /\ sentTo = {}
    /\ restoreFailed = FALSE /\ counting = FALSE

DialectEntry ==
    /\ At("dialect", "entry")
    /\ \/ ~req.cred /\ Refuse("unauthenticated", FALSE)
       \/ req.cred /\ Goto("body")
    /\ UNCHANGED <<fixed, hp, posts, answer, books, threw, dialect>>

\* The body, its shape and its pii_redaction flag; what the body alone decides is
\* refused before authorize, unreported.
DialectBody ==
    /\ At("dialect", "body")
    /\ \/ Refuse("request_unreadable", TRUE)
       \/ Refuse("request_unreadable", FALSE)
       \/ \E code \in {"pii_redaction_invalid", "pii_redaction_unsupported_endpoint",
                       "pii_redaction_unsupported_model", "pii_redaction_unsupported_state"} :
              /\ code # "pii_redaction_invalid" => req.pii = "on"
              /\ Refuse(code, FALSE)
       \/ Goto("measure")
    /\ UNCHANGED <<fixed, hp, posts, answer, books, threw, dialect>>

DialectAsk ==
    /\ At("dialect", "measure")
    /\ AskHorsepower
    /\ UNCHANGED <<fixed, posts, answer, books, threw, dialect>>

DialectRefused ==
    /\ At("dialect", "authorize")
    /\ Refused
    /\ UNCHANGED <<fixed, hp, posts, answer, books, threw, dialect>>

\* Granted: a routing model, a private one and an unauthorized free alias are
\* refused; the candidates and the direct-only rule are fixed.
DialectGranted ==
    /\ At("dialect", "authorize") /\ hp = "granted"
    /\ \/ clientGone /\ Abandon /\ UNCHANGED walk
       \/ /\ ~clientGone
          /\ \E code \in {"model_rejected", "model_rejected_private_path",
                          "free_model_unauthorized"} : Refuse(code, TRUE)
          /\ UNCHANGED walk
       \/ /\ ~clientGone
          /\ directOnly' \in BOOLEAN
          /\ \E n \in 0..MaxDirect : cands' \in [1..n -> Directs]
          /\ Goto(IF req.pii = "on" THEN "redact" ELSE "loop")
          /\ UNCHANGED <<own, sentTo>>
    /\ UNCHANGED <<fixed, hp, posts, answer, books, threw, restoreFailed, counting>>

\* redactBody; a detector that fails refuses, a client that left meanwhile is
\* abandoned.
DialectRedacted ==
    /\ At("dialect", "redact")
    /\ \/ Refuse("pii_redaction_unavailable", TRUE)
       \/ clientGone /\ Abandon
       \/ ~clientGone /\ Goto("loop")
    /\ UNCHANGED <<fixed, hp, posts, answer, books, threw, dialect>>

-----------------------------------------------------------------------------
(* The candidates.                                                         *)

\* A candidate is passed over: no relay for it, a hard pin, another provider than
\* the direct-only one, a binding (reported), no tunnel, ineligible, unprojectable.
DialectSkip ==
    /\ At("dialect", "loop") /\ cands # <<>>
    /\ cands' = Tail(cands)
    /\ own' \in IF Head(cands) = "own" /\ own = "untried"
                THEN {"unsupported", "skipped"} ELSE {own}
    /\ \/ UNCHANGED notes
       \/ ~(directOnly /\ Head(cands) # "own") /\ Note("upstream_unreachable")
    /\ UNCHANGED <<fixed, pc, client, hp, posts, answer, books, story, settles, terminals,
                   threw, directOnly, sentTo, restoreFailed, counting>>

\* Mutant of DialectTry: the direct-only rule is not looked at.
DialectTryAny ==
    /\ At("dialect", "loop") /\ cands # <<>>
    /\ \/ clientGone /\ Abandon /\ UNCHANGED <<posts, sentTo>>
       \/ ~clientGone /\ Post("direct") /\ sentTo' = sentTo \cup {Head(cands)}
    /\ UNCHANGED <<fixed, hp, answer, books, threw, directOnly, cands, own, restoreFailed, counting>>

\* Mutant of DialectTry: clientGone is read once, before the walk.
DialectTrySpends ==
    /\ At("dialect", "loop") /\ cands # <<>>
    /\ directOnly => Head(cands) = "own"
    /\ Post("direct") /\ sentTo' = sentTo \cup {Head(cands)}
    /\ UNCHANGED <<fixed, hp, answer, books, threw, directOnly, cands, own, restoreFailed, counting>>

\* A candidate passes every gate: nothing is sent for a client that left.
DialectTry ==
    /\ At("dialect", "loop") /\ cands # <<>>
    /\ directOnly => Head(cands) = "own"
    /\ \/ clientGone /\ Abandon /\ UNCHANGED <<posts, sentTo>>
       \/ ~clientGone /\ Post("direct") /\ sentTo' = sentTo \cup {Head(cands)}
    /\ UNCHANGED <<fixed, hp, answer, books, threw, directOnly, cands, own, restoreFailed, counting>>

\* Where a served answer goes: sealed ones await the encryptor, the others are
\* wired at once, and a client that left during the attempt is acted on then.
Serve ==
    /\ status' = 200
    /\ up' = IF ~req.ehbp /\ clientGone THEN "cut" ELSE "open"
    /\ upError' = (~req.ehbp /\ clientGone)
    /\ Goto(IF req.ehbp THEN "encrypt" ELSE "stream")

\* The direct provider answers; a refused status is drained and never relayed.
DialectDirect ==
    /\ At("dialect", "direct")
    /\ \/ Serve /\ UNCHANGED <<cands, own>>
       \/ /\ cands' = Tail(cands)
          /\ own' = IF Head(cands) = "own" THEN "failed" ELSE own
          /\ Goto("loop") /\ UNCHANGED answer
    /\ UNCHANGED <<fixed, hp, posts, books, threw, directOnly, sentTo, restoreFailed, counting>>

\* No direct provider serves: OpenRouter, unless the model is direct-only.  The
\* refusal's 400 (the first skip says unsupported, and nothing failed) is unreported.
DialectOpenRouter ==
    /\ At("dialect", "loop") /\ cands = <<>>
    /\ \/ clientGone /\ Abandon /\ UNCHANGED <<posts, sentTo>>
       \/ /\ ~clientGone /\ directOnly
          /\ Refuse(IF own = "unsupported" THEN "model_rejected" ELSE "upstream_unreachable",
                    own # "unsupported")
          /\ UNCHANGED <<posts, sentTo>>
       \/ /\ ~clientGone /\ ~directOnly
          /\ Post("attempt") /\ sentTo' = sentTo \cup {"openrouter"}
    /\ UNCHANGED <<fixed, hp, answer, books, threw, directOnly, cands, own, restoreFailed, counting>>

\* OpenRouter answers.  A refused status is the request's final word before its
\* body is read.
DialectAnswered ==
    /\ At("dialect", "attempt")
    /\ \/ Refuse("upstream_unreachable", TRUE) /\ UNCHANGED answer
       \/ Serve
       \/ /\ status' = 500 /\ up' = "open" /\ upError' = TRUE
          /\ Final /\ Finalize("upstream_error_status") /\ EndsAs("upstream_error")
          /\ pc' = "errbody"
          /\ UNCHANGED <<client, settles, notes>>
    /\ UNCHANGED <<fixed, hp, posts, books, threw, dialect>>

\* The refused body was read, cut or oversized; it goes out sanitized, unless the
\* client is gone.
DialectErrorBody ==
    /\ At("dialect", "errbody")
    /\ \/ clientGone /\ Goto("done") /\ UNCHANGED settled
       \/ /\ ~clientGone /\ settled' = TRUE
          /\ Goto("errseal")
    /\ UNCHANGED <<fixed, hp, posts, answer, failureCode, threw, dialect>>

DialectErrorSent ==
    /\ At("dialect", "errseal")
    /\ pc' = "done" /\ res' = "ended"
    /\ UNCHANGED <<fixed, connected, clientGone, hp, posts, answer, books, story, words, threw, dialect>>

\* sanitizeUpstreamErrorBody throws on a body nested too deeply.  Nothing catches
\* it here: the request that has had its final word is reported again.
DialectSanitizerThrows ==
    /\ At("dialect", "errbody") /\ up # "cut"
    /\ Thrown
    /\ UNCHANGED <<fixed, hp, posts, answer, books, dialect>>

-----------------------------------------------------------------------------
(* A served answer.                                                        *)

\* responseEncryptor: ready, and the stream is wired, a client that left during the
\* attempt being acted on now; or failed, and the answer is drained for its settle.
DialectEncryptor ==
    /\ At("dialect", "encrypt")
    /\ \/ /\ Goto("stream") /\ UNCHANGED settled
          /\ \/ clientGone /\ Destroyed(TRUE)
             \/ ~clientGone /\ UNCHANGED <<up, upError>>
       \/ /\ Finalize("stream_failed")
          /\ res' = "ended" /\ settled' = TRUE
          /\ pc' = "drain"
          /\ UNCHANGED <<connected, clientGone, streamEnd, words, up, upError>>
    /\ UNCHANGED <<fixed, hp, posts, status, failureCode, threw, dialect>>

DialectUpstreamEnds ==
    /\ route = "dialect" /\ pc \in {"encrypt", "stream", "drain"}
    /\ up = "open"
    /\ up' = "ended"
    /\ UNCHANGED <<fixed, pc, client, hp, posts, status, upError, books, story, words, threw, dialect>>

\* The upstream is cut off; nobody hears it while the encryptor is awaited.
DialectUpstreamCut ==
    /\ route = "dialect" /\ pc \in {"encrypt", "stream", "drain"}
    /\ up = "open"
    /\ up' = "cut" /\ upError' = (pc # "encrypt")
    /\ UNCHANGED <<fixed, pc, client, hp, posts, status, books, story, words, threw, dialect>>

\* failAnswer: a redacted answer that cannot be restored, or a line over the cap.
\* The client is cut off; the upstream is read to its end.
FailAnswer ==
    /\ ~restoreFailed
    /\ restoreFailed' = TRUE
    /\ FailsAs("stream_failed")
    /\ EndsAs("upstream_error")
    /\ Note("stream_failed")
    /\ res' = "ended"

Streaming == At("dialect", "stream") /\ ~settled

DialectData ==
    /\ Streaming /\ up \in {"open", "ended"} /\ ~clientGone
    /\ FailAnswer
    /\ UNCHANGED <<fixed, pc, connected, clientGone, hp, posts, answer, settled, outcome,
                   settles, terminals, threw, walk, counting>>

\* settleNow: the latch, the outcome, and a continuation that sends the settle.
SettleNow ==
    /\ settled' = TRUE
    /\ counting' = TRUE
    /\ Finalize(streamEnd')

\* 'end': the tail is flushed, which may fail the answer; an error said in-band, a
\* translation that failed or a stream without its last frame is an upstream error.
DialectEnd ==
    /\ Streaming /\ up = "ended"
    /\ \/ ~clientGone /\ FailAnswer
       \/ /\ clientGone \/ restoreFailed
          /\ res' = IF clientGone THEN "ended" ELSE res
          /\ UNCHANGED <<restoreFailed, failureCode, streamEnd, notes>>
       \/ /\ ~clientGone /\ ~restoreFailed
          /\ res' = "ended"
          /\ \/ /\ EndsAs("upstream_error") /\ Note("stream_failed")
                /\ \E code \in {"upstream_error_status", "stream_failed"} : FailsAs(code)
             \/ /\ \E kind \in {"clean", "cap_hit"} : EndsAs(kind)
                /\ UNCHANGED <<failureCode, notes>>
          /\ UNCHANGED restoreFailed
    /\ SettleNow
    /\ UNCHANGED <<fixed, pc, connected, clientGone, hp, posts, answer, settles, terminals,
                   threw, walk>>

\* 'error': the echo of our own cancellation, or an upstream that died.
DialectError ==
    /\ Streaming /\ upError /\ up = "cut"
    /\ \/ /\ clientGone \/ restoreFailed
          /\ res' = IF clientGone THEN "ended" ELSE res
          /\ UNCHANGED <<restoreFailed, failureCode, streamEnd, notes>>
       \/ ~clientGone /\ FailAnswer
       \/ /\ ~clientGone /\ ~restoreFailed
          /\ EndsAs("upstream_error")
          /\ FailsAs("stream_failed")
          /\ Note("stream_failed")
          /\ res' = "ended"
          /\ UNCHANGED restoreFailed
    /\ SettleNow
    /\ UNCHANGED <<fixed, pc, connected, clientGone, hp, posts, answer, settles, terminals,
                   threw, walk>>

\* drainForSettle: the answer is over; it is settled for nobody.
DialectDrained ==
    /\ At("dialect", "drain") /\ (up = "ended" \/ upError)
    /\ ~counting
    /\ pc' = "done"
    /\ SettleNow
    /\ UNCHANGED <<fixed, client, hp, posts, answer, failureCode, streamEnd, words, threw,
                   walk, restoreFailed>>

\* The continuation: OpenRouter's missing cost is noted, the settle is handed over.
DialectSettle ==
    /\ route = "dialect" /\ counting
    /\ counting' = FALSE
    /\ pc' = "done"
    /\ settles' = settles + 1
    /\ \/ UNCHANGED notes
       \/ /\ "openrouter" \in sentTo /\ ~clientGone /\ streamEnd # "upstream_error"
          /\ Note("usage_missing")
    /\ UNCHANGED <<fixed, client, hp, posts, answer, books, story, terminals, threw, walk,
                   restoreFailed>>

-----------------------------------------------------------------------------
\* 'close': a no-op once settled or failed in-band; else the answer held is
\* destroyed.  Its 'error' may be lost while nothing listens for it.
DialectClose ==
    /\ route = "dialect" /\ pc # "loop" /\ ~(pc = "errseal" /\ ~req.ehbp)
    /\ connected /\ res # "finished"
    /\ connected' = FALSE
    /\ \/ /\ settled \/ restoreFailed \/ pc \in {"entry", "body"}
          /\ UNCHANGED <<clientGone, story, up, upError>>
       \/ /\ ~settled /\ ~restoreFailed /\ pc \notin {"entry", "body"}
          /\ SeenGone
          /\ \/ pc = "encrypt" /\ \E later \in BOOLEAN : Destroyed(later)
             \/ pc # "encrypt" /\ Destroyed(TRUE)
    /\ UNCHANGED <<fixed, pc, res, hp, posts, status, books, words, threw, dialect>>

\* d.measure, the transforms and the projection of a candidate may throw.
DialectThrows ==
    /\ route = "dialect" /\ pc \in {"measure", "loop"}
    /\ Thrown
    /\ UNCHANGED <<fixed, hp, posts, answer, books, dialect>>

DialectHandler ==
    \/ DialectEntry \/ DialectBody \/ DialectAsk \/ DialectRefused \/ DialectGranted
    \/ DialectRedacted \/ DialectSkip \/ DialectTry \/ DialectDirect \/ DialectOpenRouter
    \/ DialectAnswered \/ DialectErrorBody \/ DialectErrorSent \/ DialectEncryptor
    \/ DialectEnd \/ DialectError \/ DialectDrained \/ DialectSettle

DialectUpstream == DialectUpstreamEnds \/ DialectUpstreamCut

DialectNext ==
    \/ DialectHandler \/ DialectUpstream \/ DialectData \/ DialectClose
    \/ DialectThrows \/ DialectSanitizerThrows
=============================================================================
