---------------------------- MODULE ChatRequest ----------------------------
(***************************************************************************)
(* One POST /v1/chat/completions: handleChatCompletion and chatCompletion  *)
(* of enclave/src/server.mjs, from the arrival of the request to the       *)
(* settle or the report that ends it, against everything that may happen   *)
(* while the handler waits: the client hangs up, horse-power answers late  *)
(* or never, an upstream refuses, stalls, ends or is cut off.              *)
(*                                                                         *)
(* JavaScript runs to completion: between two awaits nothing else happens. *)
(* `pc` is where the handler is; at a value of Running it is computing and *)
(* no event is delivered, at every other value it awaits something.        *)
(***************************************************************************)
EXTENDS Naturals, Sequences, FiniteSets, Lists

CONSTANTS
    MaxList,    \* bound: candidates horse-power lists
    Cuts        \* which of the two cuts of CutKinds are explored

CutKinds == {"authorize", "unwired"}

ASSUME ChatRequestAssumption ==
    /\ MaxList \in Nat
    /\ Cuts \subseteq CutKinds

VARIABLES
    pc,             \* where the handler is
    req,            \* what the request is: [cred, ehbp, pii, private]
    res,            \* the response: "open", "ended" (res.end called), "finished"
    connected,      \* the client's connection has not closed
    clientGone,     \* clientGone of chatCompletion
    hp,             \* horse-power and this settle_id: a hold exists iff "granted"
    private,        \* isPrivateModel of the resolved model
    directOnly,     \* the one provider that may serve the model, or "none"
    cands,          \* candidates
    idx,            \* i of the candidate loop, from 1
    ownSkipped,     \* first skip reason of the directOnly provider
    ownFailed,      \* first failed status of the directOnly provider
    sentTo,         \* providers an upstream request was sent to
    posts,          \* upstream requests sent
    status,         \* chosen.statusCode
    up,             \* the chosen response: "none", "open", "ended", "cut"
    upError,        \* its 'error' event was emitted with a listener attached
    capHit,         \* capHit
    restoreFailed,  \* restoreFailed
    failureCode,    \* settleFailureCode
    settled,        \* settled, the latch of settleNow
    counting,       \* the continuation of settleNow has not sent the settle yet
    streamEnd,      \* stream_end of the trace
    outcome,        \* what finalize recorded
    settles,        \* settles handed to the settle queue
    terminals,      \* error reports sent with terminal: true
    notes           \* codes of the error reports sent with terminal: false

client == <<res, connected, clientGone>>
route  == <<private, directOnly, cands>>
tried  == <<idx, ownSkipped, ownFailed, sentTo, posts>>
stream == <<status, up, upError, capHit, restoreFailed, failureCode, settled, counting>>
words  == <<settles, terminals, notes>>
vars   == <<pc, req, client, hp, route, tried, stream, streamEnd, outcome, words>>

Providers == {"direct", "vertex", "tinfoil"}      \* vertex and tinfoil await to build
Statuses  == {200, 400, 422, 429, 500, 503, 0}    \* 0: no response

Running  == {"transform", "loop", "unbuilt", "unrebuilt", "headers", "source", "wire"}
Awaiting == {"entry", "body", "measure", "authorize", "stuck", "redact", "build",
             "attempt", "reattest", "pause", "again", "encrypt", "opener",
             "stream", "done"}
\* Where an exception nobody caught can surface: the other awaits never reject.
ThrowPoints == {"measure", "transform", "loop", "build", "reattest", "headers",
                "encrypt", "source", "wire"}

-----------------------------------------------------------------------------
(* The moves every path is built from.                                     *)

\* finalize of counters.beginRequest: the first outcome is the one recorded.
Finalize(o) == outcome' = IF outcome = "none" THEN o ELSE outcome

\* setStreamEnd: the first writer wins.
EndsAs(kind) == streamEnd' = IF streamEnd = "none" THEN kind ELSE streamEnd

\* settleFailureCode ??= code
FailsAs(code) == failureCode' = IF failureCode = "none" THEN code ELSE failureCode

Note(code) == notes' = notes \cup {code}

\* A refusal: an error report that is the request's final word when `final`,
\* finalize, an answer to the client.
Refuse(code, final) ==
    /\ terminals' = terminals + (IF final THEN 1 ELSE 0)
    /\ Finalize(code)
    /\ res' = "ended"
    /\ pc' = "done"
    /\ UNCHANGED <<connected, clientGone, settles, notes, streamEnd>>

\* Mutant of Abandon: the report is not marked as the final word.
AbandonUnsaid ==
    /\ EndsAs("client_abort")
    /\ Finalize("client_abort")
    /\ Note("client_abort")
    /\ pc' = "done"
    /\ UNCHANGED <<client, settles, terminals>>

\* abandonBeforeUpstream: the client is gone and no upstream answer is held.
Abandon ==
    /\ EndsAs("client_abort")
    /\ terminals' = terminals + 1
    /\ Finalize("client_abort")
    /\ pc' = "done"
    /\ UNCHANGED <<client, settles, notes>>

\* The handler goes on at `where` and says nothing.
Goto(where) == pc' = where /\ UNCHANGED <<client, words, streamEnd, outcome>>

\* normalizeCandidates: OpenRouter is last, once, whatever horse-power listed.
normalizeCandidates(list) ==
    Append(Kept(list, {i \in DOMAIN list : list[i] # "openrouter"}), "openrouter")

hasTinfoilCandidate(list) == \E i \in 1..Len(list) : list[i] = "tinfoil"

\* Mutant of privateCandidates: the synthesised OpenRouter terminal survives.
privateCandidatesAll(list) == list

privateCandidates(list) == Kept(list, {i \in DOMAIN list : list[i] = "tinfoil"})

refusesUnroutedPrivate(list) == private /\ ~hasTinfoilCandidate(list)

refusesMisroutedToTinfoil(list) == ~private /\ hasTinfoilCandidate(list)

\* What horse-power may list.
Lists == UNION {[1..n -> Providers \cup {"openrouter"}] : n \in 0..MaxList}

-----------------------------------------------------------------------------
Init ==
    /\ pc = "entry"
    /\ req \in [cred : BOOLEAN, ehbp : BOOLEAN, pii : {"off", "on", "invalid"},
                private : BOOLEAN]
    /\ res = "open"
    /\ connected = TRUE
    /\ clientGone = FALSE
    /\ hp = "idle"
    /\ private = FALSE
    /\ directOnly = "none"
    /\ cands = <<>>
    /\ idx = 0
    /\ ownSkipped = "none"
    /\ ownFailed = 0
    /\ sentTo = {}
    /\ posts = 0
    /\ status = 0
    /\ up = "none"
    /\ upError = FALSE
    /\ capHit = FALSE
    /\ restoreFailed = FALSE
    /\ failureCode = "none"
    /\ settled = FALSE
    /\ counting = FALSE
    /\ streamEnd = "none"
    /\ outcome = "none"
    /\ settles = 0
    /\ terminals = 0
    /\ notes = {}

-----------------------------------------------------------------------------
(* Before an upstream: credential, body, authorize, redaction.             *)

Entry ==
    /\ pc = "entry"
    /\ \/ ~req.cred /\ Refuse("unauthenticated", FALSE)
       \/ req.cred /\ Goto("body")
    /\ UNCHANGED <<req, hp, route, tried, stream>>

\* The body is read and opened, the flag and the model are checked.
ReadBody ==
    /\ pc = "body"
    /\ \/ Refuse("request_unreadable", TRUE)
       \/ req.pii = "invalid" /\ Refuse("pii_redaction_invalid", FALSE)
       \/ req.pii # "invalid" /\ Refuse("model_rejected", TRUE)
       \/ /\ req.pii = "on" /\ req.private
          /\ Refuse("pii_redaction_unsupported_model", FALSE)
       \/ /\ req.pii # "invalid" /\ ~(req.pii = "on" /\ req.private)
          /\ Goto("measure")
    /\ UNCHANGED <<req, hp, route, tried, stream>>

\* measureInput is done: a credential in balance backoff is answered from
\* memory, any other is announced to horse-power with this request's settle_id.
SendAuthorize ==
    /\ pc = "measure"
    /\ \/ Refuse("authorize_rejected", FALSE) /\ UNCHANGED hp
       \/ Goto("authorize") /\ hp' = "asked"
    /\ UNCHANGED <<req, route, tried, stream>>

\* External: horse-power decides, the enclave waiting for it or not.
HpDecides ==
    /\ hp = "asked"
    /\ hp' \in {"granted", "refused"}
    /\ UNCHANGED <<pc, req, client, route, tried, stream, streamEnd, outcome, words>>

\* horse-power refused (a balance backoff is not reported), or no answer came
\* in time, or none can come.
AuthorizeRefused ==
    /\ pc = "authorize"
    /\ \/ hp = "refused" /\ \E backoff \in BOOLEAN : Refuse("authorize_rejected", ~backoff)
       \/ Refuse("authorize_timeout", TRUE)
       \/ Refuse("authorize_unreachable", TRUE)
    /\ UNCHANGED <<req, hp, route, tried, stream>>

\* The answer is cut off after its headers: its 'end' never comes, the request's
\* 'close' clears the deadline timer, and the await never resumes.
AuthorizeCut ==
    /\ "authorize" \in Cuts
    /\ pc = "authorize"
    /\ hp \in {"granted", "refused"}
    /\ Goto("stuck")
    /\ UNCHANGED <<req, hp, route, tried, stream>>

\* Granted: the client may have left during the round trip.  The model of the
\* answer may still be refused, and redaction needs a candidate that is not private.
AuthorizeGranted ==
    /\ pc = "authorize"
    /\ hp = "granted"
    /\ \/ clientGone /\ Abandon /\ UNCHANGED route
       \/ /\ ~clientGone
          /\ private' \in BOOLEAN
          /\ directOnly' \in Providers \cup {"none"}
          /\ \E list \in Lists : cands' = normalizeCandidates(list)
          /\ \/ Refuse("model_rejected_smart_routing", TRUE)
             \/ Refuse("free_model_unauthorized", TRUE)
             \/ /\ req.pii = "on" /\ (private' \/ hasTinfoilCandidate(cands'))
                /\ Refuse("pii_redaction_unsupported_model", TRUE)
             \/ /\ req.pii = "on" /\ ~private' /\ ~hasTinfoilCandidate(cands')
                /\ Goto("redact")
             \/ req.pii # "on" /\ Goto("transform")
    /\ UNCHANGED <<req, hp, tried, stream>>

\* redactBody; a detector that fails refuses the request.
Redact ==
    /\ pc = "redact"
    /\ \/ Refuse("pii_redaction_unavailable", TRUE)
       \/ Goto("transform")
    /\ UNCHANGED <<req, hp, route, tried, stream>>

\* transformPayload and the two private-model rules; the loop's list is fixed.
Transform ==
    /\ pc = "transform"
    /\ \/ Refuse("transform_failed", TRUE) /\ UNCHANGED <<cands, idx>>
       \/ /\ refusesUnroutedPrivate(cands)
          /\ Refuse("model_rejected_private_path", TRUE)
          /\ UNCHANGED <<cands, idx>>
       \/ /\ refusesMisroutedToTinfoil(cands)
          /\ Refuse("upstream_unreachable", TRUE)
          /\ UNCHANGED <<cands, idx>>
       \/ /\ ~refusesUnroutedPrivate(cands) /\ ~refusesMisroutedToTinfoil(cands)
          /\ cands' = IF hasTinfoilCandidate(cands) THEN privateCandidates(cands) ELSE cands
          /\ idx' = 1
          /\ Goto("loop")
    /\ UNCHANGED <<req, hp, private, directOnly, ownSkipped, ownFailed, sentTo, posts, stream>>

-----------------------------------------------------------------------------
(* The candidate loop.                                                     *)

Here == cands[idx]
Last == idx = Len(cands)

\* The first skip, or failure, of the direct-only provider is what its refusal
\* is classified from.
SkippedAs(reason) ==
    ownSkipped' = IF Here = directOnly /\ ownSkipped = "none" THEN reason ELSE ownSkipped
FailedAs(s) ==
    ownFailed' = IF Here = directOnly /\ ownFailed = 0
                 THEN IF s = 0 THEN 500 ELSE s     \* no status reads like a 5xx
                 ELSE ownFailed

SkipReasons == {"unavailable", "not_in_catalog", "unsupported"}

\* classifyDirectOnlyRefusal: the status the caller is answered with.
classifyDirectOnlyRefusal ==
    IF ownFailed # 0
    THEN IF ownFailed = 429 THEN 429 ELSE IF ownFailed \in {400, 422} THEN 502 ELSE 503
    ELSE CASE ownSkipped = "none"           -> 404
           [] ownSkipped = "not_in_catalog" -> 404
           [] ownSkipped = "unavailable"    -> 503
           [] ownSkipped = "unsupported"    -> 400

\* attemptUpstream: the request goes out, its answer is awaited at `where`.
Send(where) ==
    /\ sentTo' = sentTo \cup {Here}
    /\ posts' = posts + 1
    /\ Goto(where)
    /\ UNCHANGED <<idx, ownSkipped, ownFailed>>

\* Mutant of SendUnlessGone: the check before the attempt is missing.
SendAnyway(where) == Send(where)

SendUnlessGone(where) ==
    \/ clientGone /\ Abandon /\ UNCHANGED tried
    \/ ~clientGone /\ Send(where)

\* Nothing was chosen: only a private list can run out, OpenRouter is never skipped.
Exhausted ==
    /\ pc = "loop"
    /\ idx > Len(cands)
    /\ \/ clientGone /\ Abandon
       \/ ~clientGone /\ Refuse("upstream_unreachable", TRUE)
    /\ UNCHANGED <<req, hp, route, tried, stream>>

\* OpenRouter's turn, and it may serve the model.
TryOpenRouter ==
    /\ pc = "loop" /\ idx <= Len(cands)
    /\ Here = "openrouter" /\ directOnly = "none"
    /\ SendUnlessGone("attempt")
    /\ UNCHANGED <<req, hp, route, stream>>

\* OpenRouter's turn for a model only one direct provider may serve: refused.
\* A 400, the caller's own mistake, is not reported.
RefuseDirectOnly ==
    /\ pc = "loop" /\ idx <= Len(cands)
    /\ Here = "openrouter" /\ directOnly # "none"
    /\ \/ clientGone /\ Abandon
       \/ /\ ~clientGone
          /\ LET refusal == classifyDirectOnlyRefusal
             IN  Refuse(IF refusal = 400 THEN "model_rejected" ELSE "upstream_unreachable",
                        refusal # 400)
    /\ UNCHANGED <<req, hp, route, tried, stream>>

\* The candidate loop goes on with the next candidate.
Skip(reason) ==
    /\ SkippedAs(reason)
    /\ idx' = idx + 1
    /\ pc' = "loop"
    /\ UNCHANGED <<ownFailed, sentTo, posts, client, settles, terminals, streamEnd, outcome>>

\* A direct candidate's turn: another provider than the direct-only one is
\* skipped, a candidate that fails checkProviderBinding is skipped and reported,
\* the request of any other is built, which tinfoil and vertex await.
TryDirect ==
    /\ pc = "loop" /\ idx <= Len(cands)
    /\ Here # "openrouter"
    /\ \/ /\ directOnly # "none" /\ Here # directOnly
          /\ Skip("unsupported") /\ UNCHANGED notes
       \/ /\ directOnly \in {"none", Here}
          /\ \/ Skip("unsupported") /\ Note("upstream_unreachable")
             \/ Goto("build") /\ UNCHANGED tried
    /\ UNCHANGED <<req, hp, route, stream>>

\* buildTinfoilCandidate: an attestation that fails is reported, and the request
\* cannot be built.
AttestationFails ==
    /\ pc \in {"build", "reattest"}
    /\ Here = "tinfoil"
    /\ pc' = IF pc = "build" THEN "unbuilt" ELSE "unrebuilt"
    /\ Note("tinfoil_attestation_failed")
    /\ UNCHANGED <<req, client, hp, route, tried, stream, streamEnd, outcome,
                   settles, terminals>>

\* The candidate cannot be used (built.skip).
NotBuilt ==
    /\ pc \in {"build", "unbuilt"}
    /\ \E reason \in SkipReasons :
          \/ /\ clientGone /\ Abandon /\ SkippedAs(reason)
             /\ UNCHANGED <<idx, ownFailed, sentTo, posts>>
          \/ ~clientGone /\ Skip(reason) /\ UNCHANGED notes
    /\ UNCHANGED <<req, hp, route, stream>>

\* The request is built; a host checkBindings does not permit is skipped and
\* reported.
Built ==
    /\ pc = "build"
    /\ \/ Skip("unavailable") /\ Note("upstream_unreachable")
       \/ SendUnlessGone("attempt")
    /\ UNCHANGED <<req, hp, route, stream>>

\* An answer is taken: a 2xx, or whatever the last candidate answered.
Accept(s) ==
    /\ status' = s
    /\ up' = "open"
    /\ Goto("headers")
    /\ UNCHANGED <<tried, upError, capHit, restoreFailed, failureCode, settled, counting>>

\* The attempt failed: the next candidate, or the end of the request.
Fail(s) ==
    /\ FailedAs(s)
    /\ \/ Last /\ Refuse("upstream_unreachable", TRUE) /\ UNCHANGED idx
       \/ ~Last /\ Goto("loop") /\ idx' = idx + 1
    /\ UNCHANGED <<ownSkipped, sentTo, posts, stream>>

Judge(s) ==
    \/ s # 0 /\ (s = 200 \/ Last) /\ Accept(s)
    \/ (s = 0 \/ (s # 200 /\ ~Last)) /\ Fail(s)

Retryable(s) == Last /\ Here = "openrouter" /\ s \in {429, 503}

\* The answer of the first attempt: a tinfoil key mismatch is attested again, a
\* 429 or 503 of the terminal OpenRouter is retried after the pause it asks for,
\* unless that is too long.
Answered(s) ==
    /\ pc = "attempt"
    /\ \/ /\ Here = "tinfoil" /\ s = 422
          /\ Goto("reattest") /\ UNCHANGED <<tried, stream>>
       \/ /\ Retryable(s)
          /\ FailedAs(s)
          /\ Goto("pause")
          /\ UNCHANGED <<idx, ownSkipped, sentTo, posts, stream>>
       \/ ~(Here = "tinfoil" /\ s = 422) /\ Judge(s)
    /\ UNCHANGED <<req, hp, route>>

\* The second attestation: the client may have left, the new build may skip.
Reattested ==
    /\ \/ /\ pc \in {"reattest", "unrebuilt"}
          /\ \/ /\ clientGone /\ Abandon /\ FailedAs(422)
                /\ UNCHANGED <<idx, ownSkipped, sentTo, posts, stream>>
             \/ ~clientGone /\ Fail(422)
       \/ /\ pc = "reattest"
          /\ ~clientGone /\ Send("again") /\ UNCHANGED stream
    /\ UNCHANGED <<req, hp, route>>

Paused ==
    /\ pc = "pause"
    /\ SendUnlessGone("again")
    /\ UNCHANGED <<req, hp, route, stream>>

AnsweredAgain(s) ==
    /\ pc = "again"
    /\ Judge(s)
    /\ UNCHANGED <<req, hp, route>>

-----------------------------------------------------------------------------
(* The answer: headers, sealing, the stream.                               *)

\* Mutant of AcceptHeaders: the error status does not name the outcome.
AcceptHeadersUnnamed ==
    /\ pc = "headers"
    /\ \/ /\ status >= 400
          /\ FailsAs("upstream_error_status")
          /\ Note("upstream_error_status")
       \/ status < 400 /\ UNCHANGED <<failureCode, notes>>
    /\ pc' = IF req.ehbp THEN "encrypt" ELSE "source"
    /\ UNCHANGED <<req, client, hp, route, tried, status, up, upError, capHit,
                   restoreFailed, settled, counting, streamEnd, outcome, settles, terminals>>

\* A status that is an error is reported, and is the outcome.
AcceptHeaders ==
    /\ pc = "headers"
    /\ \/ /\ status >= 400
          /\ FailsAs("upstream_error_status")
          /\ Note("upstream_error_status")
          /\ EndsAs("upstream_error")
          /\ Finalize("upstream_error_status")
       \/ status < 400 /\ UNCHANGED <<failureCode, notes, streamEnd, outcome>>
    /\ pc' = IF req.ehbp THEN "encrypt" ELSE "source"
    /\ UNCHANGED <<req, client, hp, route, tried, status, up, upError, capHit,
                   restoreFailed, settled, counting, settles, terminals>>

\* responseEncryptor is ready.
EncryptorReady ==
    /\ pc = "encrypt"
    /\ Goto("source")
    /\ UNCHANGED <<req, hp, route, tried, stream>>

\* What is read from: a sealed tinfoil answer needs an opener, an unsealed one
\* is refused when it claims success.
ChooseSource ==
    /\ pc = "source"
    /\ \/ Here # "tinfoil" /\ Goto("wire")
       \/ Here = "tinfoil" /\ status = 200 /\ Refuse("stream_failed", TRUE)
       \/ Here = "tinfoil" /\ status # 200 /\ Goto("wire")
       \/ Here = "tinfoil" /\ Goto("opener")
    /\ UNCHANGED <<req, hp, route, tried, stream>>

OpenerReady ==
    /\ pc = "opener"
    /\ \/ Refuse("stream_failed", TRUE)
       \/ Goto("wire")
    /\ UNCHANGED <<req, hp, route, tried, stream>>

\* destroy of the upstream response: an 'error' follows unless it is over already.
\* A wrapper (decryptedStream, sanitizedErrorStream) that has read all of it may
\* still end.
Destroyed ==
    \/ up \in {"open", "ended"} /\ up' = "cut" /\ upError' = TRUE
    \/ up # "open" /\ UNCHANGED <<up, upError>>

\* Mutant of onClientGone: the report claims to be the request's final word.
onClientGoneFinal == terminals' = terminals + 1 /\ UNCHANGED notes

\* onClientGone: reported, not as the final word: the cancelled upstream settles.
onClientGone == Note("client_abort") /\ UNCHANGED terminals

\* The listeners are attached; a client that left before is acted on now.
Wire ==
    /\ pc = "wire"
    /\ pc' = "stream"
    /\ \/ clientGone /\ Destroyed /\ onClientGone
       \/ ~clientGone /\ UNCHANGED <<up, upError, notes, terminals>>
    /\ UNCHANGED <<req, client, hp, route, tried, status, capHit, restoreFailed,
                   failureCode, settled, counting, streamEnd, outcome, settles>>

\* The upstream has sent everything.  'end' waits until somebody reads.
UpstreamEnds ==
    /\ pc \in {"encrypt", "opener", "stream"}
    /\ up = "open"
    /\ up' = "ended"
    /\ UNCHANGED <<pc, req, client, hp, route, tried, status, upError, capHit,
                   restoreFailed, failureCode, settled, counting, streamEnd, outcome, words>>

\* The upstream is cut off.  The 'error' of a response is emitted once, and not
\* at all while it has no listener.
UpstreamCut ==
    /\ pc \in {"encrypt", "opener", "stream"}
    /\ pc # "stream" => "unwired" \in Cuts
    /\ up = "open"
    /\ up' = "cut"
    /\ upError' = (pc = "stream")
    /\ UNCHANGED <<pc, req, client, hp, route, tried, status, capHit, restoreFailed,
                   failureCode, settled, counting, streamEnd, outcome, words>>

\* failRestore: a redacted answer cannot be restored; the client is cut off, the
\* upstream is still read to its end.
FailRestore ==
    /\ req.pii = "on" /\ ~restoreFailed
    /\ restoreFailed' = TRUE
    /\ FailsAs("stream_failed")
    /\ EndsAs("upstream_error")
    /\ Note("stream_failed")
    /\ res' = "ended"

\* settleNow: the latch, the outcome, and a continuation that sends the settle.
SettleNow ==
    /\ settled' = TRUE
    /\ counting' = TRUE
    /\ Finalize(streamEnd')

\* A chunk: it may show that the cap was hit, or not be restorable.
OnData ==
    /\ pc = "stream" /\ ~settled
    /\ up \in {"open", "ended"}
    /\ \/ /\ ~capHit /\ ~restoreFailed /\ capHit' = TRUE
          /\ UNCHANGED <<restoreFailed, failureCode, streamEnd, notes, res>>
       \/ FailRestore /\ UNCHANGED capHit
    /\ UNCHANGED <<pc, req, connected, clientGone, hp, route, tried, status, up, upError,
                   settled, counting, outcome, settles, terminals>>

\* 'end' of the source.
OnEnd ==
    /\ pc = "stream" /\ ~settled
    /\ up = "ended"
    /\ \/ FailRestore
       \/ restoreFailed /\ UNCHANGED <<restoreFailed, failureCode, streamEnd, notes, res>>
       \/ /\ ~restoreFailed                        \* translator.failed
          /\ EndsAs("upstream_error")
          /\ FailsAs("upstream_error_status")
          /\ Note("stream_failed")
          /\ res' = "ended"
          /\ UNCHANGED restoreFailed
       \/ /\ ~restoreFailed
          /\ EndsAs(IF capHit THEN "cap_hit" ELSE "clean")
          /\ res' = "ended"
          /\ UNCHANGED <<restoreFailed, failureCode, notes>>
    /\ SettleNow
    /\ UNCHANGED <<pc, req, connected, clientGone, hp, route, tried, status, up, upError,
                   capHit, settles, terminals>>

\* Mutant of OnError: a stream that dies is not settled.
OnErrorUnsettled ==
    /\ pc = "stream" /\ ~settled
    /\ upError
    /\ EndsAs("upstream_error")
    /\ FailsAs("stream_failed")
    /\ Note("stream_failed")
    /\ res' = "ended"
    /\ pc' = "done"
    /\ Finalize(streamEnd')
    /\ UNCHANGED <<req, connected, clientGone, hp, route, tried, status, up, upError,
                   capHit, restoreFailed, settled, counting, settles, terminals>>

\* 'error' of the source: the echo of our own cancellation, or an upstream that died.
OnError ==
    /\ pc = "stream" /\ ~settled
    /\ upError
    /\ \/ clientGone /\ UNCHANGED <<failureCode, streamEnd, notes>>
       \/ /\ ~clientGone
          /\ EndsAs("upstream_error")
          /\ FailsAs("stream_failed")
          /\ Note("stream_failed")
    /\ res' = "ended"
    /\ SettleNow
    /\ UNCHANGED <<pc, req, connected, clientGone, hp, route, tried, status, up, upError,
                   capHit, restoreFailed, settles, terminals>>

\* The continuation of settleNow: output counted where no usage came, a tinfoil
\* answer without its usage line reported, the settle handed to the queue.  When a
\* usage frame came it follows settleNow at once, which nothing here can tell:
\* once settled is set, a close of the client changes nothing.
SendSettle ==
    /\ counting
    /\ counting' = FALSE
    /\ settles' = settles + 1
    /\ \/ Here = "tinfoil" /\ status = 200 /\ Note("tinfoil_usage_missing")
       \/ UNCHANGED notes
    /\ UNCHANGED <<pc, req, client, hp, route, tried, status, up, upError, capHit,
                   restoreFailed, failureCode, settled, streamEnd, outcome, terminals>>

-----------------------------------------------------------------------------
(* The client, and a throw nobody anticipated.                             *)

\* No code of this request is running.
Idle == pc \in Awaiting /\ ~(pc = "build" /\ Here = "direct")

\* 'close' of the response before it was flushed: the one listener of the handler.
ClientClose ==
    /\ Idle
    /\ connected /\ res # "finished"
    /\ connected' = FALSE
    /\ \/ /\ settled \/ restoreFailed
          /\ UNCHANGED <<clientGone, streamEnd, outcome, up, upError, notes, terminals>>
       \/ /\ ~settled /\ ~restoreFailed
          /\ clientGone' = TRUE
          /\ EndsAs("client_abort")
          /\ Finalize("client_abort")
          /\ \/ pc = "stream" /\ Destroyed /\ onClientGone
             \/ pc # "stream" /\ UNCHANGED <<up, upError, notes, terminals>>
    /\ UNCHANGED <<pc, req, res, hp, route, tried, status, capHit, restoreFailed,
                   failureCode, settled, counting, settles>>

\* A finished answer reaches the client.
Flush ==
    /\ Idle
    /\ res = "ended" /\ connected
    /\ res' = "finished"
    /\ UNCHANGED <<pc, req, connected, clientGone, hp, route, tried, stream, streamEnd,
                   outcome, words>>

\* handleChatCompletion's catch and the router's: settleStarted is still unset.
HandlerThrows ==
    /\ pc \in ThrowPoints
    /\ Refuse("internal_error", TRUE)
    /\ UNCHANGED <<req, hp, route, tried, stream>>

-----------------------------------------------------------------------------
Handler ==
    \/ Entry \/ ReadBody \/ SendAuthorize \/ AuthorizeRefused \/ AuthorizeGranted
    \/ Redact \/ Transform \/ Exhausted \/ TryOpenRouter \/ RefuseDirectOnly
    \/ TryDirect \/ NotBuilt \/ Built \/ Reattested \/ Paused
    \/ \E s \in Statuses : Answered(s) \/ AnsweredAgain(s)
    \/ AcceptHeaders \/ EncryptorReady \/ ChooseSource \/ OpenerReady \/ Wire
    \/ OnEnd \/ OnError \/ SendSettle

Next ==
    \/ Handler
    \/ AuthorizeCut \/ AttestationFails \/ OnData \/ HandlerThrows
    \/ HpDecides \/ UpstreamEnds \/ UpstreamCut
    \/ ClientClose \/ Flush

Spec == Init /\ [][Next]_vars

\* What the handler awaits comes: authorize has a deadline, the build, the pause and
\* the cryptography end by themselves; that an upstream answers an attempt and ends
\* or loses its stream is assumed, the code sets no timeout on either.
Fairness == WF_vars(Handler) /\ WF_vars(UpstreamEnds \/ UpstreamCut)

FairSpec == Spec /\ Fairness

-----------------------------------------------------------------------------
(* Properties.                                                             *)

Codes == {"upstream_unreachable", "tinfoil_attestation_failed", "upstream_error_status",
          "stream_failed", "client_abort", "tinfoil_usage_missing"}

Outcomes == {"none", "unauthenticated", "request_unreadable", "pii_redaction_invalid",
             "model_rejected", "pii_redaction_unsupported_model", "authorize_rejected",
             "authorize_timeout", "authorize_unreachable", "model_rejected_smart_routing",
             "free_model_unauthorized", "pii_redaction_unavailable", "transform_failed",
             "model_rejected_private_path", "upstream_unreachable", "stream_failed",
             "internal_error", "upstream_error_status", "clean", "cap_hit",
             "upstream_error", "client_abort"}

TypeOK ==
    /\ pc \in Running \cup Awaiting
    /\ res \in {"open", "ended", "finished"}
    /\ connected \in BOOLEAN /\ clientGone \in BOOLEAN
    /\ hp \in {"idle", "asked", "granted", "refused"}
    /\ private \in BOOLEAN
    /\ directOnly \in Providers \cup {"none"}
    /\ cands \in Seq(Providers \cup {"openrouter"})
    /\ idx \in 0..(Len(cands) + 1)
    /\ ownSkipped \in SkipReasons \cup {"none"}
    /\ ownFailed \in Statuses
    /\ sentTo \subseteq Providers \cup {"openrouter"}
    /\ posts \in Nat
    /\ status \in Statuses
    /\ up \in {"none", "open", "ended", "cut"}
    /\ upError \in BOOLEAN /\ capHit \in BOOLEAN /\ restoreFailed \in BOOLEAN
    /\ failureCode \in {"none", "upstream_error_status", "stream_failed"}
    /\ settled \in BOOLEAN /\ counting \in BOOLEAN
    /\ streamEnd \in {"none", "clean", "cap_hit", "upstream_error", "client_abort"}
    /\ outcome \in Outcomes
    /\ settles \in Nat /\ terminals \in Nat
    /\ notes \subseteq Codes

\* The request will say no more: it was refused or abandoned, or its settle is sent.
Over == pc = "done" \/ (settled /\ ~counting)

\* horse-power releases a hold, and closes the books on a settle_id, at the first
\* settle or terminal report: a request never sends two of them, whatever the order
\* of client close, upstream end and error.
AtMostOneFinalWord == settles + terminals <= 1

\* Answered by a 400 of the direct-only rule, the one refusal after authorize that
\* is not reported (server.mjs:1670).
RefusedUnreported == pc = "done" /\ outcome = "model_rejected" /\ terminals = 0

\* A request horse-power granted has, when it is over, sent its settle or its
\* terminal report, save for that one refusal.
GrantedSaysFinalWord ==
    Over /\ hp = "granted" => settles + terminals = 1 \/ RefusedUnreported

\* The contract with horse-power (module Hold): whatever the order of events, the id is
\* announced once, one final word follows at most, and nothing is asked after it.
HoldOf == INSTANCE Hold WITH hold <- hp, said <- settles + terminals

ImplementsHold == HoldOf!Spec

\* A client that hung up leaves no upstream generating: from the moment the stream
\* is wired, before or after the close, the upstream is cancelled.
AbortCancelsUpstream == pc = "stream" /\ clientGone => up # "open"

\* Nothing is bought for a client known to be gone: no upstream request starts
\* after the close.
NoSpendForNobody == [][posts' > posts => ~clientGone]_vars

\* A private model's prompt goes to tinfoil only, no other model's goes there, and
\* a direct-only model's goes to its provider only, however often the loop falls on.
NoSubstitution ==
    /\ "tinfoil" \in sentTo => private
    /\ private => sentTo \subseteq {"tinfoil"}
    /\ directOnly # "none" => sentTo \subseteq {directOnly}

\* The outcome on /health and the settle tell one story: 'clean' and 'cap_hit' are
\* recorded only for an answer that was delivered whole to a client that stayed.
CleanIsClean ==
    outcome \in {"clean", "cap_hit"} =>
        /\ settled /\ terminals = 0
        /\ ~clientGone /\ failureCode = "none" /\ status < 400

\* counters.mjs: one outcome per request, none left without one.
OverHasOutcome == Over => outcome # "none"

\* Every request horse-power granted eventually sends its final word, unless an
\* answer was cut off where nobody listens for it.
FinalWordUnlessCut ==
    hp = "granted" ~> \/ settles + terminals = 1 \/ RefusedUnreported
                      \/ pc = "stuck" \/ (up = "cut" /\ ~upError)

\* server.mjs:2402, of settleNow: "Settle exactly once, from whichever of 'end' /
\* 'error' fires first. An upstream stream error used to skip settlement entirely".
\* It fails when the upstream is cut off before the listeners are attached.
StreamFailureSettles == up = "cut" ~> settles + terminals = 1
=============================================================================
