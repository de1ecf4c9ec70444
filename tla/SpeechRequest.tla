---------------------------- MODULE SpeechRequest ----------------------------
(* POST /v1/audio/speech: the text goes to one provider chunk by chunk, the    *)
(* audio is relayed as it comes, and what produced audio is settled.           *)
EXTENDS Request

CONSTANT MaxChunks      \* bound: chunks a text is split into

ASSUME SpeechAssumption == MaxChunks \in Nat

VARIABLES
    tinfoil,        \* cand.provider is tinfoil: sealed, attested, awaited to build
    chunks,         \* chunks.length
    chunk,          \* i of the chunk loop, from 1
    reattested,     \* this chunk was re-attested already
    headersSent,    \* headersSent: startResponse has run
    dispatched,     \* dispatched: chunks that produced audio, the settled count
    heard           \* of them, those whose first byte came before the client left

speech == <<tinfoil, chunks, chunk, reattested, headersSent, dispatched, heard>>

SpeechInit ==
    /\ tinfoil = FALSE /\ chunks = 0 /\ chunk = 0 /\ reattested = FALSE
    /\ headersSent = FALSE /\ dispatched = 0 /\ heard = 0

\* The body is read before the credential is checked; the close listener comes
\* after both.
SpeechBody ==
    /\ At("speech", "body")
    /\ \/ Refuse("request_unreadable", TRUE) /\ UNCHANGED hp
       \/ ~req.cred /\ Refuse("unauthenticated", FALSE) /\ UNCHANGED hp
       \/ req.cred /\ Refuse("request_unreadable", FALSE) /\ UNCHANGED hp
       \/ req.cred /\ AskHorsepower
    /\ UNCHANGED <<fixed, posts, answer, books, threw, speech>>

SpeechRefused ==
    /\ At("speech", "authorize")
    /\ Refused
    /\ UNCHANGED <<fixed, hp, posts, answer, books, threw, speech>>

\* Granted: the route must be a bound speech candidate, the text must have a chunk.
SpeechGranted ==
    /\ At("speech", "authorize") /\ hp = "granted"
    /\ \/ clientGone /\ Abandon /\ UNCHANGED <<tinfoil, chunks, chunk>>
       \/ /\ ~clientGone
          /\ \E code \in {"upstream_unreachable", "request_unreadable"} : Refuse(code, TRUE)
          /\ UNCHANGED <<tinfoil, chunks, chunk>>
       \/ /\ ~clientGone
          /\ tinfoil' \in BOOLEAN /\ chunks' \in 1..MaxChunks /\ chunk' = 1
          /\ Goto(IF tinfoil' THEN "attest" ELSE "build")
    /\ UNCHANGED <<fixed, hp, posts, answer, books, threw, reattested, headersSent,
                   dispatched, heard>>

SpeechAttested ==
    /\ At("speech", "attest")
    /\ \/ Refuse("tinfoil_attestation_failed", TRUE) /\ UNCHANGED speech
       \/ \* The loop's own test: a client that left meanwhile gets no chunk.
          /\ ~clientGone /\ Goto("build") /\ UNCHANGED speech
       \/ clientGone /\ Abandon /\ UNCHANGED speech
    /\ UNCHANGED <<fixed, hp, posts, answer, books, threw>>

-----------------------------------------------------------------------------
(* The chunk loop.                                                         *)

\* Mutant of AfterLoop: whatever produced audio is called clean.
AfterLoopClean(count, code) ==
    /\ pc' = "done"
    /\ res' = IF res = "open" /\ (headersSent \/ ~clientGone \/ count > 0) THEN "ended" ELSE res
    /\ IF ~headersSent /\ (~clientGone \/ count = 0)
       THEN /\ Final
            /\ Finalize("stream_failed")
            /\ UNCHANGED <<settles, streamEnd, failureCode>>
       ELSE /\ settles' = settles + 1
            /\ failureCode' = code
            /\ \/ clientGone /\ UNCHANGED story
               \/ ~clientGone /\ EndsAs("clean") /\ Finalize("clean")
            /\ UNCHANGED terminals
    /\ UNCHANGED <<connected, clientGone, settled>>

\* After the loop, `count` chunks having produced audio, `code` being
\* settleFailureCode: no audio is a failure, or an abort, that never settles; any
\* audio settles.
AfterLoop(count, code) ==
    /\ pc' = "done"
    /\ res' = IF res = "open" /\ (headersSent \/ ~clientGone \/ count > 0) THEN "ended" ELSE res
    /\ IF ~headersSent /\ (~clientGone \/ count = 0)
       THEN /\ Final
            /\ Finalize("stream_failed")          \* a gone client has its outcome
            /\ UNCHANGED <<settles, streamEnd, failureCode>>
       ELSE /\ settles' = settles + 1
            /\ failureCode' = code
            /\ \/ clientGone /\ UNCHANGED story
               \/ /\ ~clientGone
                  /\ EndsAs(IF code = "none" THEN "clean" ELSE "upstream_error")
                  /\ Finalize(IF code = "none" THEN "clean" ELSE code)
            /\ UNCHANGED terminals
    /\ UNCHANGED <<connected, clientGone, settled>>

\* A chunk failed as `code`: before any audio that is the request's final word,
\* after it the audio ends here and what played settles.
ChunkFails(code, noted) ==
    \/ ~headersSent /\ Refuse(code, TRUE) /\ UNCHANGED books
    \/ headersSent /\ AfterLoop(dispatched, noted) /\ Note(noted)

\* The stop of a chunk whose client is gone: no failure, what played settles.
Stops == AfterLoop(dispatched, failureCode) /\ UNCHANGED notes

\* buildSpeechUpstreamRequest: skipped for want of a tunnel or key, or sent.
SpeechBuilt ==
    /\ At("speech", "build")
    /\ \/ /\ UNCHANGED posts
          /\ IF reattested
             THEN ChunkFails("tinfoil_attestation_failed", "stream_failed")
             ELSE ChunkFails("upstream_unreachable", "stream_failed")
       \/ Post("send") /\ UNCHANGED books
    /\ UNCHANGED <<fixed, hp, answer, threw, speech>>

\* Headers, an error or the headers deadline.  The router's key-rotation 422 is
\* re-attested once.
SpeechAnswered ==
    /\ At("speech", "send")
    /\ \/ /\ UNCHANGED <<answer, reattested>>
          /\ \/ clientGone /\ Stops
             \/ ~clientGone /\ ChunkFails("upstream_unreachable", "stream_failed")
       \/ /\ tinfoil /\ ~reattested
          /\ reattested' = TRUE
          /\ Goto("reattest") /\ UNCHANGED <<answer, books>>
       \/ /\ status' \in {200, 500} /\ up' = "open" /\ upError' = FALSE
          /\ Goto(IF status' = 200 THEN "pump" ELSE "refusal")
          /\ UNCHANGED <<books, reattested>>
    /\ UNCHANGED <<fixed, hp, posts, threw, tinfoil, chunks, chunk, headersSent, dispatched, heard>>

SpeechReattested ==
    /\ At("speech", "reattest")
    /\ \/ ChunkFails("tinfoil_attestation_failed", "stream_failed")
       \/ Goto("build") /\ UNCHANGED books
    /\ UNCHANGED <<fixed, hp, posts, answer, threw, speech>>

\* The refused chunk's body was read, or its deadline passed.
SpeechRefusal ==
    /\ At("speech", "refusal")
    /\ ChunkFails("upstream_error_status", "upstream_error_status")
    /\ up' = "ended"
    /\ UNCHANGED <<fixed, hp, posts, status, upError, threw, speech>>

\* Mutant of SpeechFirstByte: the chunk is counted when it is sent for, not when it
\* produces audio, so it is counted again at its first byte.
SpeechFirstByteTwice ==
    /\ At("speech", "pump") /\ up = "open"
    /\ dispatched' = dispatched + 2
    /\ heard' = heard + (IF clientGone THEN 0 ELSE 1)
    /\ Goto(IF headersSent THEN "relay" ELSE "start")
    /\ UNCHANGED <<fixed, hp, posts, answer, books, threw, tinfoil, chunks, chunk, reattested,
                   headersSent>>

\* The first byte of a chunk: counted, then the response is started.
SpeechFirstByte ==
    /\ At("speech", "pump") /\ up = "open"
    /\ dispatched' = dispatched + 1
    /\ heard' = heard + (IF clientGone THEN 0 ELSE 1)
    /\ Goto(IF headersSent THEN "relay" ELSE "start")
    /\ UNCHANGED <<fixed, hp, posts, answer, books, threw, tinfoil, chunks, chunk, reattested,
                   headersSent>>

\* startResponse: the encryptor is awaited for an EHBP client.
SpeechStarted ==
    /\ At("speech", "start") /\ up = "open"
    /\ headersSent' = TRUE
    /\ Goto("relay")
    /\ UNCHANGED <<fixed, hp, posts, answer, books, threw, tinfoil, chunks, chunk, reattested,
                   dispatched, heard>>

\* The chunk ends: the next one, unless the client is gone or there is none.
SpeechChunkEnds ==
    /\ route = "speech" /\ pc \in {"pump", "relay"} /\ up = "open"
    /\ up' = "ended"
    /\ \/ /\ chunk < chunks /\ ~clientGone
          /\ chunk' = chunk + 1 /\ reattested' = FALSE
          /\ Goto("build") /\ UNCHANGED books
       \/ /\ chunk = chunks \/ clientGone
          /\ Stops
          /\ UNCHANGED <<chunk, reattested>>
    /\ UNCHANGED <<fixed, hp, posts, status, upError, threw, tinfoil, chunks, headersSent,
                   dispatched, heard>>

\* The stream, or the sealing of it, fails or passes its deadline: a client that is
\* gone stops the loop, any other is told.
SpeechChunkFails ==
    /\ route = "speech" /\ pc \in {"pump", "start", "relay"}
    /\ up' = "cut"
    /\ \/ clientGone /\ Stops
       \/ /\ ~clientGone
          /\ \E noted \in {"stream_failed", "response_seal_failed"} :
                \/ ~headersSent /\ Refuse("stream_failed", TRUE) /\ UNCHANGED books
                \/ headersSent /\ AfterLoop(dispatched, noted) /\ Note("stream_failed")
    /\ UNCHANGED <<fixed, hp, posts, status, upError, threw, speech>>

\* 'close': the answer being relayed is destroyed with an error, so its pump fails;
\* between two answers there is nothing to destroy.
SpeechClose ==
    /\ route = "speech" /\ ~(pc = "build" /\ ~tinfoil) /\ ~(pc = "start" /\ ~req.ehbp)
    /\ connected /\ res # "finished"
    /\ connected' = FALSE
    /\ \/ pc = "body" /\ UNCHANGED <<clientGone, story, up>>
       \/ /\ pc # "body" /\ SeenGone
          /\ up' = IF pc \in {"pump", "start", "relay"} /\ up = "open" THEN "cut" ELSE up
    /\ UNCHANGED <<fixed, pc, res, hp, posts, status, upError, books, words, threw, speech>>

SpeechHandler ==
    \/ SpeechBody \/ SpeechRefused \/ SpeechGranted \/ SpeechAttested \/ SpeechBuilt
    \/ SpeechAnswered \/ SpeechReattested \/ SpeechRefusal \/ SpeechStarted
    \/ SpeechChunkEnds \/ SpeechChunkFails

SpeechNext == SpeechHandler \/ SpeechFirstByte \/ SpeechClose
=============================================================================
