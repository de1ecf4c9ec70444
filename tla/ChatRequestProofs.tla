------------------------- MODULE ChatRequestProofs -------------------------
(***************************************************************************)
(* Proofs about ChatRequest, for every length of the candidate list and    *)
(* with either cut possible: what a request says to horse-power and to the *)
(* counters, whatever the order of the client's close, the upstream's end  *)
(* or error, and horse-power's decision.                                   *)
(***************************************************************************)
EXTENDS ChatRequest, TLAPS

\* Where no answer of an upstream has been looked at yet.
Unanswered == (Running \cup Awaiting) \
                  {"encrypt", "source", "opener", "wire", "stream", "done"}

\* A terminal report ends the handler; a settle follows the latch, which is set only
\* while streaming, and is sent once.
WordsInv ==
    /\ settles \in Nat /\ terminals \in Nat
    /\ terminals = 0 \/ (terminals = 1 /\ pc = "done")
    /\ settled => pc = "stream"
    /\ counting => settled
    /\ settled /\ ~counting => settles = 1
    /\ ~settled \/ counting => settles = 0

\* A hold is taken for an authorize that was sent, and a request that ended after
\* that has said so, or was answered 400 by the direct-only rule.
HoldInv ==
    /\ pc \in {"entry", "body", "measure"} => hp = "idle"
    /\ pc = "done" /\ hp \in {"asked", "granted"} =>
          terminals = 1 \/ outcome = "model_rejected"

\* An outcome is recorded at the close of the client, at an error status, at the
\* end of the handler and at the settle, and not before.
OutcomeInv ==
    /\ clientGone => outcome # "none"
    /\ pc \in Unanswered /\ ~clientGone => outcome = "none"
    /\ pc = "done" \/ settled => outcome # "none"
    /\ restoreFailed => streamEnd # "none"

\* What speaks against 'clean' is recorded before the stream ends.
CleanInv ==
    /\ status \in Nat
    /\ CleanIsClean
    /\ pc \in {"encrypt", "source", "opener", "wire", "stream"} /\ status >= 400 =>
          outcome # "none"
    /\ failureCode # "none" /\ outcome = "none" => streamEnd = "upstream_error"
    /\ ~settled => streamEnd \notin {"clean", "cap_hit"}
    /\ outcome = "none" => streamEnd \in {"none", "upstream_error"}

RInv == WordsInv /\ HoldInv /\ OutcomeInv /\ CleanInv /\ AbortCancelsUpstream

Refusals == Outcomes \ {"none", "clean", "cap_hit"}

Answering == {"encrypt", "source", "opener", "wire"}

-----------------------------------------------------------------------------
(* The moves every action is built from keep RInv.                         *)

\* The handler goes on and says nothing.
LEMMA GoOn ==
    ASSUME RInv, NEW where \in Running \cup Awaiting, pc' = where,
           pc \notin {"stream", "done"}, where \notin {"stream", "done"},
           pc \in Answering <=> where \in Answering,
           where \in {"entry", "body", "measure"} => hp' = "idle",
           UNCHANGED <<clientGone, settles, terminals, streamEnd, outcome>>,
           UNCHANGED stream,
           pc \in Running \cup Awaiting
    PROVE  RInv'
<1> USE DEF RInv, stream, Answering
<1>1. WordsInv' /\ HoldInv'
  BY DEF WordsInv, HoldInv
<1>2. OutcomeInv'
  BY DEF OutcomeInv, Unanswered
<1>3. CleanInv' /\ AbortCancelsUpstream'
  BY DEF CleanInv, CleanIsClean, AbortCancelsUpstream
<1> QED
  BY <1>1, <1>2, <1>3

\* The request is refused; without a final word only where horse-power holds nothing,
\* or by the 400 of the direct-only rule.
LEMMA RefuseKeeps ==
    ASSUME RInv, NEW code \in Refusals, NEW final \in BOOLEAN, Refuse(code, final),
           pc \notin {"stream", "done"},
           UNCHANGED hp, UNCHANGED stream,
           \/ final
           \/ hp \notin {"asked", "granted"}
           \/ code = "model_rejected" /\ outcome = "none"
    PROVE  RInv'
<1> USE DEF RInv, stream, Refuse, Finalize
<1>1. code \notin {"none", "clean", "cap_hit"}
  BY DEF Refusals
<1>2. terminals = 0 /\ ~settled
  BY DEF WordsInv
<1>3. terminals' = IF final THEN 1 ELSE 0
  BY <1>2
<1>4. WordsInv'
  BY <1>2, <1>3 DEF WordsInv
<1>5. HoldInv'
  BY <1>1, <1>2, <1>3 DEF HoldInv
<1>6. OutcomeInv'
  BY <1>1, <1>2 DEF OutcomeInv, Unanswered
<1>7. CleanInv' /\ AbortCancelsUpstream'
  BY <1>1, <1>2 DEF CleanInv, CleanIsClean, AbortCancelsUpstream
<1> QED
  BY <1>4, <1>5, <1>6, <1>7

\* The request of a client that left is abandoned.
LEMMA AbandonKeeps ==
    ASSUME RInv, Abandon, clientGone, pc \notin {"stream", "done"},
           UNCHANGED hp, UNCHANGED stream
    PROVE  RInv'
<1> USE DEF RInv, stream, Abandon, client, Finalize, EndsAs
<1>1. terminals = 0 /\ ~settled
  BY DEF WordsInv
<1>2. WordsInv'
  BY <1>1 DEF WordsInv
<1>3. HoldInv'
  BY <1>1 DEF HoldInv
<1>4. OutcomeInv'
  BY <1>1 DEF OutcomeInv, Unanswered
<1>5. CleanInv' /\ AbortCancelsUpstream'
  BY <1>1 DEF CleanInv, CleanIsClean, AbortCancelsUpstream, OutcomeInv
<1> QED
  BY <1>2, <1>3, <1>4, <1>5

-----------------------------------------------------------------------------
(* The phases of a request keep RInv.                                      *)

\* Nothing is said before the request is read.
LEMMA InitRInv == Init => RInv
BY DEF Init, RInv, WordsInv, HoldInv, OutcomeInv, CleanInv, CleanIsClean,
       AbortCancelsUpstream, Unanswered

\* Up to the answer of authorize: a refusal before it was sent needs no final word.
LEMMA BeforeUpstream ==
    ASSUME RInv,
           \/ Entry \/ ReadBody \/ SendAuthorize \/ AuthorizeRefused \/ AuthorizeCut
           \/ AuthorizeGranted \/ Redact \/ Transform
    PROVE  RInv'
<1> USE DEF Refusals, Outcomes, Running, Awaiting, Answering
<1>1. CASE Entry
  <2>1. hp = "idle" /\ UNCHANGED hp /\ UNCHANGED stream
    BY <1>1 DEF Entry, RInv, HoldInv
  <2>2. CASE Refuse("unauthenticated", FALSE)
    BY <1>1, <2>1, <2>2, RefuseKeeps DEF Entry
  <2>3. CASE Goto("body")
    BY <1>1, <2>1, <2>3, GoOn DEF Entry, Goto, client, words
  <2> QED
    BY <1>1, <2>2, <2>3 DEF Entry
<1>2. CASE ReadBody
  <2>1. hp = "idle" /\ UNCHANGED hp /\ UNCHANGED stream
    BY <1>2 DEF ReadBody, RInv, HoldInv
  <2>2. ASSUME NEW code \in Refusals, NEW final \in BOOLEAN, Refuse(code, final)
        PROVE  RInv'
    BY <1>2, <2>1, <2>2, RefuseKeeps DEF ReadBody
  <2>3. CASE Goto("measure")
    BY <1>2, <2>1, <2>3, GoOn DEF ReadBody, Goto, client, words
  <2> QED
    BY <1>2, <2>2, <2>3 DEF ReadBody
<1>3. CASE SendAuthorize
  <2>1. hp = "idle" /\ UNCHANGED stream
    BY <1>3 DEF SendAuthorize, RInv, HoldInv
  <2>2. CASE Refuse("authorize_rejected", FALSE) /\ UNCHANGED hp
    BY <1>3, <2>1, <2>2, RefuseKeeps DEF SendAuthorize
  <2>3. CASE Goto("authorize")
    BY <1>3, <2>1, <2>3, GoOn DEF SendAuthorize, Goto, client, words
  <2> QED
    BY <1>3, <2>2, <2>3 DEF SendAuthorize
<1>4. CASE AuthorizeRefused
  <2>1. UNCHANGED hp /\ UNCHANGED stream
    BY <1>4 DEF AuthorizeRefused
  <2>2. ASSUME NEW backoff \in BOOLEAN, hp = "refused", Refuse("authorize_rejected", ~backoff)
        PROVE  RInv'
    BY <1>4, <2>1, <2>2, RefuseKeeps DEF AuthorizeRefused
  <2>3. ASSUME NEW code \in Refusals, Refuse(code, TRUE)
        PROVE  RInv'
    BY <1>4, <2>1, <2>3, RefuseKeeps DEF AuthorizeRefused
  <2> QED
    BY <1>4, <2>2, <2>3 DEF AuthorizeRefused
<1>5. CASE AuthorizeCut
  BY <1>5, GoOn DEF AuthorizeCut, Goto, client, words
<1>6. CASE AuthorizeGranted
  <2>1. UNCHANGED hp /\ UNCHANGED stream /\ pc = "authorize"
    BY <1>6 DEF AuthorizeGranted
  <2>2. CASE clientGone /\ Abandon
    BY <2>1, <2>2, AbandonKeeps
  <2>3. ASSUME NEW code \in Refusals, Refuse(code, TRUE)
        PROVE  RInv'
    BY <2>1, <2>3, RefuseKeeps
  <2>4. ASSUME NEW where \in {"redact", "transform"}, Goto(where)
        PROVE  RInv'
    BY <2>1, <2>4, GoOn DEF Goto, client, words
  <2> QED
    BY <1>6, <2>2, <2>3, <2>4 DEF AuthorizeGranted
<1>7. CASE Redact \/ Transform
  <2>1. UNCHANGED hp /\ UNCHANGED stream /\ pc \in {"redact", "transform"}
    BY <1>7 DEF Redact, Transform
  <2>2. ASSUME NEW code \in Refusals, Refuse(code, TRUE)
        PROVE  RInv'
    BY <2>1, <2>2, RefuseKeeps
  <2>3. ASSUME NEW where \in {"transform", "loop"}, Goto(where)
        PROVE  RInv'
    BY <2>1, <2>3, GoOn DEF Goto, client, words
  <2> QED
    BY <1>7, <2>2, <2>3 DEF Redact, Transform
<1> QED
  BY <1>1, <1>2, <1>3, <1>4, <1>5, <1>6, <1>7

\* The candidate loop: what it ends with is a final word, save for the 400 of the
\* direct-only rule, given to a client that is there.
LEMMA CandidateLoop ==
    ASSUME RInv,
           \/ Exhausted \/ TryOpenRouter \/ RefuseDirectOnly \/ TryDirect
           \/ AttestationFails \/ NotBuilt \/ Built \/ Reattested \/ Paused
           \/ \E s \in Statuses : Answered(s) \/ AnsweredAgain(s)
    PROVE  RInv'
<1> DEFINE Looping == {"loop", "build", "unbuilt", "attempt", "reattest", "unrebuilt",
                       "pause", "again"}
<1>1. pc \in Looping /\ UNCHANGED hp
  BY DEF Exhausted, TryOpenRouter, RefuseDirectOnly, TryDirect, AttestationFails, NotBuilt,
         Built, Reattested, Paused, Answered, AnsweredAgain
<1>2. ASSUME NEW where \in Looping, pc' = where, UNCHANGED stream,
             UNCHANGED <<clientGone, settles, terminals, streamEnd, outcome>>
      PROVE  RInv'
  BY <1>1, <1>2, GoOn DEF Running, Awaiting, Answering
<1>3. ASSUME NEW where \in Looping, Goto(where), UNCHANGED stream
      PROVE  RInv'
  BY <1>2, <1>3 DEF Goto, client, words
<1>4. ASSUME clientGone, Abandon, UNCHANGED stream
      PROVE  RInv'
  BY <1>1, <1>4, AbandonKeeps
<1>5. ASSUME NEW code \in Refusals, Refuse(code, TRUE), UNCHANGED stream
      PROVE  RInv'
  BY <1>1, <1>5, RefuseKeeps
<1>6. ASSUME NEW reason, Skip(reason), UNCHANGED stream
      PROVE  RInv'
  BY <1>2, <1>6 DEF Skip, client
<1>7. ASSUME NEW where \in Looping, SendUnlessGone(where), UNCHANGED stream
      PROVE  RInv'
  BY <1>3, <1>4, <1>7 DEF SendUnlessGone, Send
<1>8. ASSUME NEW s \in Statuses, Judge(s)
      PROVE  RInv'
  <2>1. CASE Accept(s)
    <3>1. s \in Nat
      BY DEF Statuses
    <3>2. terminals = 0 /\ ~settled /\ pc \in Unanswered
      BY <1>1 DEF RInv, WordsInv, Unanswered, Running, Awaiting
    <3> USE <2>1, <3>1, <3>2 DEF RInv, Accept, Goto, client, words
    <3>3. WordsInv' /\ HoldInv'
      BY <1>1 DEF WordsInv, HoldInv
    <3>4. OutcomeInv'
      BY DEF OutcomeInv
    <3>5. CleanInv' /\ AbortCancelsUpstream'
      BY DEF CleanInv, CleanIsClean, AbortCancelsUpstream
    <3> QED
      BY <3>3, <3>4, <3>5
  <2>2. CASE Fail(s)
    BY <1>3, <1>5, <2>2 DEF Fail, Refusals, Outcomes
  <2> QED
    BY <1>8, <2>1, <2>2 DEF Judge
<1>9. CASE Exhausted
  BY <1>4, <1>5, <1>9 DEF Exhausted, Refusals, Outcomes
<1>10. CASE TryOpenRouter
  BY <1>7, <1>10 DEF TryOpenRouter
<1>11. CASE RefuseDirectOnly
  <2>1. ~clientGone => outcome = "none"
    BY <1>1 DEF RInv, OutcomeInv, Unanswered, Running, Awaiting
  <2>2. ASSUME ~clientGone, Refuse("model_rejected", FALSE), UNCHANGED stream
        PROVE  RInv'
    BY <1>1, <2>1, <2>2, RefuseKeeps DEF Refusals, Outcomes
  <2>3. ASSUME Refuse("upstream_unreachable", TRUE), UNCHANGED stream
        PROVE  RInv'
    BY <1>5, <2>3 DEF Refusals, Outcomes
  <2>4. CASE classifyDirectOnlyRefusal = 400
    BY <1>4, <1>11, <2>2, <2>4 DEF RefuseDirectOnly
  <2>5. CASE classifyDirectOnlyRefusal # 400
    BY <1>4, <1>11, <2>3, <2>5 DEF RefuseDirectOnly
  <2> QED
    BY <2>4, <2>5
<1>12. CASE TryDirect
  BY <1>3, <1>6, <1>12 DEF TryDirect
<1>13. CASE AttestationFails
  BY <1>2, <1>13 DEF AttestationFails, client
<1>14. CASE NotBuilt
  BY <1>4, <1>6, <1>14 DEF NotBuilt
<1>15. CASE Built
  BY <1>6, <1>7, <1>15 DEF Built
<1>16. CASE Reattested
  <2>1. ASSUME Fail(422) PROVE RInv'
    BY <1>3, <1>5, <2>1 DEF Fail, Refusals, Outcomes
  <2> QED
    BY <1>3, <1>4, <1>16, <2>1 DEF Reattested, Send
<1>17. CASE Paused
  BY <1>7, <1>17 DEF Paused
<1>18. ASSUME NEW s \in Statuses, Answered(s) \/ AnsweredAgain(s)
       PROVE  RInv'
  BY <1>3, <1>8, <1>18 DEF Answered, AnsweredAgain
<1> QED
  BY <1>9, <1>10, <1>11, <1>12, <1>13, <1>14, <1>15, <1>16, <1>17, <1>18

\* The answer is looked at, and the stream is wired.
LEMMA Answer ==
    ASSUME RInv, \/ AcceptHeaders \/ EncryptorReady \/ ChooseSource \/ OpenerReady \/ Wire
                 \/ HandlerThrows
    PROVE  RInv'
<1>1. CASE AcceptHeaders
  <2> USE <1>1 DEF RInv, AcceptHeaders, FailsAs, EndsAs, Finalize, client
  <2>1. terminals = 0 /\ ~settled
    BY DEF WordsInv
  <2>2. WordsInv' /\ HoldInv'
    BY <2>1 DEF WordsInv, HoldInv
  <2>3. OutcomeInv'
    BY <2>1 DEF OutcomeInv, Unanswered, Running, Awaiting
  <2>4. CleanInv' /\ AbortCancelsUpstream'
    BY <2>1 DEF CleanInv, CleanIsClean, AbortCancelsUpstream
  <2> QED
    BY <2>2, <2>3, <2>4
<1>2. CASE EncryptorReady \/ ChooseSource \/ OpenerReady
  <2>1. UNCHANGED hp /\ UNCHANGED stream /\ pc \in {"encrypt", "source", "opener"}
    BY <1>2 DEF EncryptorReady, ChooseSource, OpenerReady
  <2>2. ASSUME NEW where \in {"source", "wire", "opener"}, Goto(where)
        PROVE  RInv'
    BY <2>1, <2>2, GoOn DEF Goto, client, words, Answering, Running, Awaiting
  <2>3. ASSUME Refuse("stream_failed", TRUE)
        PROVE  RInv'
    BY <2>1, <2>3, RefuseKeeps DEF Refusals, Outcomes
  <2> QED
    BY <1>2, <2>2, <2>3 DEF EncryptorReady, ChooseSource, OpenerReady
<1>3. CASE Wire
  <2> USE <1>3 DEF RInv, Wire, Destroyed, onClientGone, client
  <2>1. terminals = 0 /\ ~settled
    BY DEF WordsInv
  <2>2. WordsInv' /\ HoldInv'
    BY <2>1 DEF WordsInv, HoldInv
  <2>3. OutcomeInv'
    BY <2>1 DEF OutcomeInv, Unanswered
  <2>4. CleanInv' /\ AbortCancelsUpstream'
    BY <2>1 DEF CleanInv, CleanIsClean, AbortCancelsUpstream
  <2> QED
    BY <2>2, <2>3, <2>4
<1>4. CASE HandlerThrows
  BY <1>4, RefuseKeeps DEF HandlerThrows, ThrowPoints, Refusals, Outcomes
<1> QED
  BY <1>1, <1>2, <1>3, <1>4

\* The stream, its end or error, and the settle.
LEMMA Streaming ==
    ASSUME RInv, \/ OnData \/ OnEnd \/ OnError \/ SendSettle
    PROVE  RInv'
<1> USE DEF RInv, FailRestore, SettleNow, FailsAs, EndsAs, Finalize, client
<1>1. CASE OnData
  <2> USE <1>1 DEF OnData
  <2>1. WordsInv' /\ HoldInv'
    BY DEF WordsInv, HoldInv
  <2>2. OutcomeInv'
    BY DEF OutcomeInv, Unanswered
  <2>3. CleanInv' /\ AbortCancelsUpstream'
    BY DEF CleanInv, CleanIsClean, AbortCancelsUpstream
  <2> QED
    BY <2>1, <2>2, <2>3
<1>2. CASE OnEnd
  <2> USE <1>2 DEF OnEnd
  <2>1. terminals = 0 /\ settles = 0 /\ settled' /\ counting'
    BY DEF WordsInv
  <2>2. WordsInv' /\ HoldInv'
    BY <2>1 DEF WordsInv, HoldInv
  <2>3. streamEnd' # "none"
    BY DEF OutcomeInv
  <2>4. OutcomeInv'
    BY <2>3 DEF OutcomeInv, Unanswered
  <2>5. CleanIsClean'
    <3>1. ~settled
      OBVIOUS
    <3>2. outcome \notin {"clean", "cap_hit"}
      BY <3>1 DEF CleanInv, CleanIsClean
    <3>3. ASSUME outcome' \in {"clean", "cap_hit"}
          PROVE  /\ outcome = "none" /\ streamEnd = "none" /\ UNCHANGED failureCode
      BY <3>1, <3>2, <3>3 DEF CleanInv, OutcomeInv
    <3> QED
      BY <2>1, <3>3 DEF CleanInv, OutcomeInv, CleanIsClean
  <2>6. CleanInv' /\ AbortCancelsUpstream'
    BY <2>1, <2>3, <2>5 DEF CleanInv, AbortCancelsUpstream
  <2> QED
    BY <2>2, <2>4, <2>6
<1>3. CASE OnError
  <2> USE <1>3 DEF OnError
  <2>1. terminals = 0 /\ settles = 0 /\ settled' /\ counting'
    BY DEF WordsInv
  <2>2. WordsInv' /\ HoldInv'
    BY <2>1 DEF WordsInv, HoldInv
  <2>3. OutcomeInv'
    BY DEF OutcomeInv, Unanswered
  <2>4. CleanInv' /\ AbortCancelsUpstream'
    BY <2>1 DEF CleanInv, CleanIsClean, AbortCancelsUpstream, OutcomeInv
  <2> QED
    BY <2>2, <2>3, <2>4
<1>4. CASE SendSettle
  <2> USE <1>4 DEF SendSettle
  <2>1. pc = "stream" /\ settled /\ settles = 0
    BY DEF WordsInv
  <2>2. WordsInv' /\ HoldInv'
    BY <2>1 DEF WordsInv, HoldInv
  <2>3. OutcomeInv'
    BY DEF OutcomeInv, Unanswered
  <2>4. CleanInv' /\ AbortCancelsUpstream'
    BY DEF CleanInv, CleanIsClean, AbortCancelsUpstream
  <2> QED
    BY <2>2, <2>3, <2>4
<1> QED
  BY <1>1, <1>2, <1>3, <1>4

\* What happens around the handler while it awaits.
LEMMA Surroundings ==
    ASSUME RInv, \/ HpDecides \/ UpstreamEnds \/ UpstreamCut \/ ClientClose \/ Flush
                 \/ UNCHANGED vars
    PROVE  RInv'
<1>1. CASE HpDecides \/ Flush \/ UNCHANGED vars
  <2>1. /\ UNCHANGED <<pc, clientGone, settles, terminals, streamEnd, outcome, status, up,
                       restoreFailed, failureCode, settled, counting>>
        /\ hp' = hp \/ hp = "asked"
    BY <1>1 DEF HpDecides, Flush, vars, client, stream, words
  <2>2. WordsInv' /\ HoldInv'
    BY <2>1 DEF RInv, WordsInv, HoldInv
  <2>3. OutcomeInv' /\ CleanInv' /\ AbortCancelsUpstream'
    BY <2>1 DEF RInv, OutcomeInv, CleanInv, CleanIsClean, AbortCancelsUpstream
  <2> QED
    BY <2>2, <2>3 DEF RInv
<1>2. CASE UpstreamEnds \/ UpstreamCut
  <2>1. /\ UNCHANGED <<pc, hp, clientGone, settles, terminals, streamEnd, outcome, status,
                       restoreFailed, failureCode, settled, counting>>
        /\ up' # "open"
    BY <1>2 DEF UpstreamEnds, UpstreamCut, client, words
  <2>2. WordsInv' /\ HoldInv'
    BY <2>1 DEF RInv, WordsInv, HoldInv
  <2>3. OutcomeInv' /\ CleanInv' /\ AbortCancelsUpstream'
    BY <2>1 DEF RInv, OutcomeInv, CleanInv, CleanIsClean, AbortCancelsUpstream
  <2> QED
    BY <2>2, <2>3 DEF RInv
<1>3. CASE ClientClose
  <2> USE <1>3 DEF RInv, ClientClose, Destroyed, onClientGone, EndsAs, Finalize
  <2>1. WordsInv' /\ HoldInv'
    BY DEF WordsInv, HoldInv
  <2>2. OutcomeInv'
    BY DEF OutcomeInv
  <2>3. CleanInv'
    BY DEF CleanInv, CleanIsClean
  <2>4. AbortCancelsUpstream'
    BY DEF AbortCancelsUpstream
  <2> QED
    BY <2>1, <2>2, <2>3, <2>4
<1> QED
  BY <1>1, <1>2, <1>3

-----------------------------------------------------------------------------
(* The invariant and what follows from it.                                 *)

\* RInv is an invariant of a request.
THEOREM Inductive == Spec => []RInv
<1>1. RInv /\ [Next]_vars => RInv'
  BY BeforeUpstream, CandidateLoop, Answer, Streaming, Surroundings DEF Next, Handler
<1> QED
  BY <1>1, InitRInv, PTL DEF Spec

\* A request never sends two final words to horse-power.
THEOREM OneFinalWord == Spec => []AtMostOneFinalWord
<1>1. RInv => AtMostOneFinalWord
  BY DEF RInv, WordsInv, AtMostOneFinalWord
<1> QED
  BY <1>1, Inductive, PTL

\* A granted request that is over has sent one, save for the direct-only 400.
THEOREM GrantedIsReleased == Spec => []GrantedSaysFinalWord
<1>1. RInv => GrantedSaysFinalWord
  BY DEF RInv, WordsInv, HoldInv, GrantedSaysFinalWord, Over, RefusedUnreported
<1> QED
  BY <1>1, Inductive, PTL

\* A client that hung up leaves no upstream generating once the stream is wired.
THEOREM AbortCancels == Spec => []AbortCancelsUpstream
<1>1. RInv => AbortCancelsUpstream
  BY DEF RInv
<1> QED
  BY <1>1, Inductive, PTL

\* 'clean' and 'cap_hit' are recorded only for an answer delivered whole.
THEOREM CleanOnly == Spec => []CleanIsClean
<1>1. RInv => CleanIsClean
  BY DEF RInv, CleanInv
<1> QED
  BY <1>1, Inductive, PTL

\* A request that is over has an outcome.
THEOREM OutcomeRecorded == Spec => []OverHasOutcome
<1>1. RInv => OverHasOutcome
  BY DEF RInv, OutcomeInv, OverHasOutcome, Over
<1> QED
  BY <1>1, Inductive, PTL

\* A step starts no upstream request, or one, for a client not known to be gone.
LEMMA Spends ==
    ASSUME [Next]_vars
    PROVE  posts' = posts \/ (posts' = posts + 1 /\ ~clientGone)
<1> USE DEF tried
<1>1. CASE TryOpenRouter \/ Built \/ Paused
  BY <1>1 DEF TryOpenRouter, Built, Paused, SendUnlessGone, Send, Skip
<1>2. CASE Reattested
  BY <1>2 DEF Reattested, Send, Fail
<1>3. ASSUME NEW s \in Statuses, Answered(s) \/ AnsweredAgain(s)
      PROVE  posts' = posts
  BY <1>3 DEF Answered, AnsweredAgain, Judge, Accept, Fail
<1>4. CASE Exhausted \/ RefuseDirectOnly \/ TryDirect \/ AttestationFails \/ NotBuilt
  BY <1>4 DEF Exhausted, RefuseDirectOnly, TryDirect, AttestationFails, NotBuilt, Skip
<1>5. CASE \/ Entry \/ ReadBody \/ SendAuthorize \/ AuthorizeRefused \/ AuthorizeCut
           \/ AuthorizeGranted \/ Redact \/ Transform \/ HpDecides
  BY <1>5 DEF Entry, ReadBody, SendAuthorize, AuthorizeRefused, AuthorizeCut,
              AuthorizeGranted, Redact, Transform, HpDecides
<1>6. CASE \/ AcceptHeaders \/ EncryptorReady \/ ChooseSource \/ OpenerReady \/ Wire
           \/ HandlerThrows
  BY <1>6 DEF AcceptHeaders, EncryptorReady, ChooseSource, OpenerReady, Wire, HandlerThrows
<1>7. CASE \/ OnData \/ OnEnd \/ OnError \/ SendSettle \/ UpstreamEnds \/ UpstreamCut
           \/ ClientClose \/ Flush \/ UNCHANGED vars
  BY <1>7 DEF OnData, OnEnd, OnError, SendSettle, UpstreamEnds, UpstreamCut, ClientClose,
              Flush, vars
<1> QED
  BY <1>1, <1>2, <1>3, <1>4, <1>5, <1>6, <1>7 DEF Next, Handler

\* No upstream request starts after the client's close was seen.
THEOREM NothingSpentForNobody == Spec => NoSpendForNobody
<1>1. Init => posts \in Nat
  BY DEF Init
<1>2. posts \in Nat /\ [Next]_vars => (posts \in Nat)'
  BY Spends
<1>3. posts \in Nat /\ [Next]_vars => [posts' > posts => ~clientGone]_vars
  BY Spends
<1> QED
  BY <1>1, <1>2, <1>3, PTL DEF Spec, NoSpendForNobody

-----------------------------------------------------------------------------
(* A request implements Hold.                                              *)

\* The request leaves the id as it is, and takes back no word it said.
Speaks == UNCHANGED hp /\ settles' >= settles /\ terminals' >= terminals

\* Only the announcement and horse-power's decision change what is held; neither
\* says a word, and the id is announced where none was said.
LEMMA HoldMoves ==
    ASSUME RInv, [Next]_vars
    PROVE  \/ Speaks
           \/ hp = "idle" /\ hp' = "asked" /\ settles + terminals = 0 /\ UNCHANGED <<settles, terminals>>
           \/ hp = "asked" /\ hp' \in {"granted", "refused"} /\ UNCHANGED <<settles, terminals>>
<1> USE DEF words, Speaks
<1>0. settles \in Nat /\ terminals \in Nat
  BY DEF RInv, WordsInv
<1>1. CASE Entry \/ ReadBody \/ AuthorizeRefused \/ AuthorizeCut \/ AuthorizeGranted
  BY <1>0, <1>1 DEF Entry, ReadBody, AuthorizeRefused, AuthorizeCut, AuthorizeGranted,
                    Refuse, Abandon, Goto
<1>2. CASE Redact \/ Transform
  BY <1>0, <1>2 DEF Redact, Transform, Refuse, Abandon, Goto
<1>3. CASE SendAuthorize
  <2>1. hp = "idle" /\ settles = 0 /\ terminals = 0
    BY <1>3 DEF SendAuthorize, RInv, WordsInv, HoldInv
  <2> QED
    BY <1>3, <2>1 DEF SendAuthorize, Refuse, Goto
<1>4. CASE HpDecides
  BY <1>4 DEF HpDecides
<1>5. CASE Exhausted \/ RefuseDirectOnly \/ TryDirect \/ AttestationFails \/ NotBuilt
  BY <1>0, <1>5 DEF Exhausted, RefuseDirectOnly, TryDirect, AttestationFails, NotBuilt, Skip,
                    Refuse, Abandon, Goto
<1>6. CASE TryOpenRouter \/ Built \/ Paused
  BY <1>0, <1>6 DEF TryOpenRouter, Built, Paused, SendUnlessGone, Send, Skip, Abandon, Goto
<1>7. CASE Reattested
  BY <1>0, <1>7 DEF Reattested, Send, Fail, Refuse, Abandon, Goto
<1>8. ASSUME NEW s \in Statuses, Answered(s) \/ AnsweredAgain(s)
      PROVE  Speaks
  BY <1>0, <1>8 DEF Answered, AnsweredAgain, Judge, Accept, Fail, Refuse, Goto, Abandon
<1>9. CASE AcceptHeaders \/ EncryptorReady \/ ChooseSource \/ OpenerReady \/ HandlerThrows
  BY <1>0, <1>9 DEF AcceptHeaders, EncryptorReady, ChooseSource, OpenerReady, HandlerThrows,
                    Refuse, Goto, client
<1>10. CASE Wire \/ ClientClose
  BY <1>0, <1>10 DEF Wire, ClientClose, onClientGone, Destroyed
<1>11. CASE OnData \/ OnEnd \/ OnError \/ SendSettle
  BY <1>0, <1>11 DEF OnData, OnEnd, OnError, SendSettle, SettleNow, FailRestore
<1>12. CASE UpstreamEnds \/ UpstreamCut \/ Flush \/ UNCHANGED vars
  BY <1>0, <1>12 DEF UpstreamEnds, UpstreamCut, Flush, vars
<1> QED
  BY <1>1, <1>2, <1>3, <1>4, <1>5, <1>6, <1>7, <1>8, <1>9, <1>10, <1>11, <1>12
  DEF Next, Handler

\* What RInv says of the words, for the step to Hold.
Counted == settles \in Nat /\ terminals \in Nat /\ AtMostOneFinalWord

\* Counts that only grow, and stay at one, grow by one at most, and from zero.
LEMMA Sums ==
    ASSUME NEW a \in Nat, NEW b \in Nat, NEW c \in Nat, NEW d \in Nat,
           c >= a, d >= b, c + d <= 1
    PROVE  c + d = a + b \/ (a + b = 0 /\ c + d = 1)
  BY SMT

\* A request keeps the contract of Hold with horse-power: the id is announced at most
\* once and before any word about it, and at most one final word follows.
THEOREM KeepsHoldContract == Spec => ImplementsHold
<1>1. Init => HoldOf!Init
  BY DEF Init, HoldOf!Init
<1>2. RInv => Counted
  BY DEF RInv, WordsInv, Counted, AtMostOneFinalWord
<1>3. ASSUME RInv, Counted, Counted', [Next]_vars
      PROVE  [HoldOf!Next]_<<hp, settles + terminals>>
  <2>1. settles \in Nat /\ terminals \in Nat /\ settles' \in Nat /\ terminals' \in Nat
    BY <1>3 DEF Counted
  <2>2. CASE Speaks
    <3>1. settles' + terminals' <= 1
      BY <1>3 DEF Counted, AtMostOneFinalWord
    <3>2. settles' >= settles /\ terminals' >= terminals
      BY <2>2 DEF Speaks
    <3>3. \/ settles' + terminals' = settles + terminals
          \/ settles + terminals = 0 /\ settles' + terminals' = 1
      BY <2>1, <3>1, <3>2, Sums
    <3> QED
      BY <2>2, <3>3 DEF Speaks, HoldOf!Next, HoldOf!Say
  <2>3. CASE hp = "idle" /\ hp' = "asked" /\ settles + terminals = 0 /\ UNCHANGED <<settles, terminals>>
    BY <2>3 DEF HoldOf!Next, HoldOf!Ask
  <2>4. CASE hp = "asked" /\ hp' \in {"granted", "refused"} /\ UNCHANGED <<settles, terminals>>
    BY <2>4 DEF HoldOf!Next, HoldOf!Decide
  <2> QED
    BY <1>3, <2>2, <2>3, <2>4, HoldMoves
<1> QED
  BY <1>1, <1>2, <1>3, Inductive, PTL DEF Spec, ImplementsHold, HoldOf!Spec

-----------------------------------------------------------------------------
(* Which providers a prompt may reach.                                     *)

Names == Providers \cup {"openrouter"}

\* Before the list of the candidate loop is fixed.
Unlisted == {"entry", "body", "measure", "authorize", "stuck", "redact", "transform"}

\* Where the loop is at a candidate it may send to.
AtCandidate == {"build", "unbuilt", "attempt", "reattest", "unrebuilt", "pause", "again"}

\* A fixed list is all tinfoil for a private model, and has none for another.
ListSound ==
    \A i \in 1..Len(cands) : private <=> cands[i] = "tinfoil"

\* Nothing is sent before the list is fixed; from then on it is sound, and the candidate
\* the loop is at is the direct-only one where there is one.
RouteInv ==
    /\ pc \in Running \cup Awaiting
    /\ private \in BOOLEAN
    /\ cands \in Seq(Names)
    /\ idx \in Nat
    /\ pc \in Unlisted => sentTo = {}
    /\ pc \notin Unlisted /\ pc # "done" => idx >= 1 /\ ListSound
    /\ pc \in AtCandidate => idx <= Len(cands) /\ directOnly \in {"none", Here}
    /\ NoSubstitution

\* Nothing is listed or sent at the start.
LEMMA RouteStarts == Init => RouteInv
<1> SUFFICES ASSUME Init PROVE RouteInv
  OBVIOUS
<1>1. NoSubstitution
  BY DEF Init, NoSubstitution
<1>2. pc = "entry" /\ sentTo = {} /\ cands = <<>> /\ private = FALSE /\ idx = 0
  BY DEF Init
<1>3. <<>> \in Seq(Names)
  OBVIOUS
<1>4. private \in BOOLEAN
  BY <1>2, Zenon
<1>5. pc \in Awaiting /\ pc \in Unlisted /\ pc \notin AtCandidate
  BY <1>2 DEF Awaiting, Unlisted, AtCandidate
<1> QED
  BY <1>1, <1>2, <1>3, <1>4, <1>5 DEF RouteInv

\* normalizeCandidates and privateCandidates return lists of providers, the second of
\* tinfoil only.
LEMMA Listed ==
    ASSUME NEW list \in Seq(Names)
    PROVE  /\ normalizeCandidates(list) \in Seq(Names)
           /\ privateCandidates(list) \in Seq(Names)
           /\ \A i \in 1..Len(privateCandidates(list)) : privateCandidates(list)[i] = "tinfoil"
<1> DEFINE K == {i \in DOMAIN list : list[i] # "openrouter"}
           T == {i \in DOMAIN list : list[i] = "tinfoil"}
<1>1. Kept(list, K) \in Seq(Names)
  BY KeptElements
<1>2. normalizeCandidates(list) = Append(Kept(list, K), "openrouter") /\ "openrouter" \in Names
  BY DEF normalizeCandidates, Names
<1>3. normalizeCandidates(list) \in Seq(Names)
  <2> HIDE DEF K
  <2> QED
    BY <1>1, <1>2
<1>4. /\ Kept(list, T) \in Seq(Names)
      /\ \A j \in DOMAIN Kept(list, T) : \E i \in T : Kept(list, T)[j] = list[i]
  <2>1. T \in SUBSET DOMAIN list
    OBVIOUS
  <2> HIDE DEF T
  <2> QED
    BY <2>1, KeptElements
<1>5. privateCandidates(list) = Kept(list, T)
  BY DEF privateCandidates
<1> QED
  BY <1>3, <1>4, <1>5

\* What may be sent where the loop is.
LEMMA SendsSoundly ==
    ASSUME RouteInv, idx >= 1, idx <= Len(cands), ListSound, directOnly \in {"none", Here},
           sentTo' = sentTo \cup {Here}, UNCHANGED <<private, directOnly, cands>>
    PROVE  NoSubstitution'
<1>1. idx \in 1..Len(cands)
  BY DEF RouteInv
<1>2. private <=> Here = "tinfoil"
  BY <1>1 DEF ListSound, Here
<1> QED
  BY <1>2 DEF RouteInv, NoSubstitution

\* A step that leaves the route, and what was tried, alone, and does not enter the loop.
LEMMA RouteUntouched ==
    ASSUME RouteInv, UNCHANGED <<private, directOnly, cands, idx, sentTo>>,
           pc' \in Running \cup Awaiting,
           pc' \in Unlisted => pc \in Unlisted,
           pc' \in AtCandidate => pc \in AtCandidate,
           pc' = "done" \/ pc' \in Unlisted \/ (pc \notin Unlisted /\ pc # "done")
    PROVE  RouteInv'
  BY DEF RouteInv, NoSubstitution, ListSound, Here

\* The loop goes on to the next candidate.
LEMMA RouteNext ==
    ASSUME RouteInv, UNCHANGED <<private, directOnly, cands, sentTo>>, idx' = idx + 1,
           pc \notin Unlisted, pc # "done", pc' = "loop"
    PROVE  RouteInv'
  BY DEF RouteInv, NoSubstitution, ListSound, Unlisted, AtCandidate, Running

\* Something is sent to the candidate the loop is at.
LEMMA RouteSends ==
    ASSUME RouteInv, NEW where \in {"attempt", "again"}, Send(where), UNCHANGED route,
           pc \in AtCandidate \/ (pc = "loop" /\ idx <= Len(cands) /\ directOnly = "none")
    PROVE  RouteInv'
<1>1. /\ idx >= 1 /\ idx <= Len(cands) /\ ListSound /\ directOnly \in {"none", Here}
  BY DEF RouteInv, AtCandidate, Unlisted
<1>2. /\ sentTo' = sentTo \cup {Here} /\ UNCHANGED <<private, directOnly, cands, idx>> /\ pc' = where
  BY DEF Send, Goto, route
<1>3. NoSubstitution'
  BY <1>1, <1>2, SendsSoundly
<1> QED
  BY <1>1, <1>2, <1>3 DEF RouteInv, ListSound, Here, Unlisted, AtCandidate, Awaiting

\* Before the loop: nothing is sent, and the list that Transform fixes is sound.
LEMMA RouteBefore ==
    ASSUME RouteInv,
           Entry \/ ReadBody \/ SendAuthorize \/ AuthorizeRefused \/ AuthorizeGranted \/ Redact
           \/ Transform \/ AuthorizeCut
    PROVE  RouteInv'
<1> USE DEF Unlisted, AtCandidate, Running, Awaiting
<1>1. CASE Entry \/ ReadBody \/ SendAuthorize \/ AuthorizeRefused \/ Redact \/ AuthorizeCut
  BY <1>1, RouteUntouched DEF Entry, ReadBody, SendAuthorize, AuthorizeRefused, Redact, AuthorizeCut, Refuse, Goto, route, tried
<1>2. CASE AuthorizeGranted
  <2>1. sentTo = {} /\ sentTo' = {} /\ idx' = idx
    BY <1>2 DEF AuthorizeGranted, RouteInv, tried
  <2>2. private' \in BOOLEAN /\ cands' \in Seq(Names)
    <3>1. CASE UNCHANGED route
      BY <3>1 DEF route, RouteInv
    <3>2. CASE private' \in BOOLEAN /\ \E list \in Lists : cands' = normalizeCandidates(list)
      <4>1. \A list \in Lists : list \in Seq(Names)
        BY ChatRequestAssumption DEF Lists, Names
      <4> QED
        BY <3>2, <4>1, Listed
    <3> QED
      BY <1>2, <3>1, <3>2 DEF AuthorizeGranted
  <2>3. pc' \in {"done", "redact", "transform"}
    BY <1>2 DEF AuthorizeGranted, Abandon, Refuse, Goto
  <2> QED
    BY <2>1, <2>2, <2>3 DEF RouteInv, NoSubstitution
<1>3. CASE Transform
  <2>1. CASE UNCHANGED <<cands, idx>> /\ pc' = "done"
    BY <1>3, <2>1, RouteUntouched DEF Transform
  <2>2. CASE /\ ~refusesUnroutedPrivate(cands) /\ ~refusesMisroutedToTinfoil(cands)
             /\ cands' = IF hasTinfoilCandidate(cands) THEN privateCandidates(cands) ELSE cands
             /\ idx' = 1 /\ Goto("loop")
    <3>1. private' = private /\ private \in BOOLEAN /\ sentTo' = {} /\ pc' = "loop" /\ cands \in Seq(Names)
      BY <1>3, <2>2 DEF Transform, Goto, RouteInv
    <3>2. private <=> hasTinfoilCandidate(cands)
      BY <2>2, <3>1 DEF refusesUnroutedPrivate, refusesMisroutedToTinfoil
    <3>3. cands' \in Seq(Names) /\ ListSound'
      <4>1. CASE private
        BY <2>2, <3>1, <3>2, <4>1, Listed DEF ListSound
      <4>2. CASE ~private
        BY <2>2, <3>1, <3>2, <4>2 DEF ListSound, hasTinfoilCandidate
      <4> QED
        BY <4>1, <4>2
    <3> QED
      BY <2>2, <3>1, <3>3 DEF RouteInv, NoSubstitution
  <2> QED
    BY <1>3, <2>1, <2>2 DEF Transform, Refuse
<1> QED
  BY <1>1, <1>2, <1>3

\* In the loop: what is sent goes to the candidate the loop is at.
LEMMA RouteLoop ==
    ASSUME RouteInv,
           Exhausted \/ TryOpenRouter \/ RefuseDirectOnly \/ TryDirect \/ AttestationFails \/ NotBuilt
           \/ Built \/ Reattested \/ Paused \/ (\E s \in Statuses : Answered(s) \/ AnsweredAgain(s))
    PROVE  RouteInv'
<1> USE DEF Unlisted, AtCandidate, Running, Awaiting
<1>1. CASE Exhausted \/ RefuseDirectOnly
  BY <1>1, RouteUntouched DEF Exhausted, RefuseDirectOnly, Refuse, Abandon, route, tried
<1>2. CASE TryOpenRouter
  <2>1. CASE Abandon /\ UNCHANGED tried
    BY <1>2, <2>1, RouteUntouched DEF TryOpenRouter, Abandon, route, tried
  <2>2. CASE Send("attempt")
    BY <1>2, <2>2, RouteSends DEF TryOpenRouter
  <2> QED
    BY <1>2, <2>1, <2>2 DEF TryOpenRouter, SendUnlessGone
<1>3. CASE TryDirect
  <2>1. CASE \E reason \in SkipReasons : Skip(reason)
    BY <1>3, <2>1, RouteNext DEF TryDirect, Skip, route
  <2>2. CASE directOnly \in {"none", Here} /\ Goto("build") /\ UNCHANGED tried
    BY <1>3, <2>2 DEF TryDirect, Goto, route, tried, RouteInv, NoSubstitution, ListSound, Here
  <2> QED
    BY <1>3, <2>1, <2>2 DEF TryDirect, SkipReasons
<1>4. CASE AttestationFails
  BY <1>4, RouteUntouched DEF AttestationFails, route, tried
<1>5. CASE NotBuilt
  <2>1. CASE \E reason \in SkipReasons : Skip(reason)
    BY <1>5, <2>1, RouteNext DEF NotBuilt, Skip, route
  <2>2. CASE Abandon /\ UNCHANGED <<idx, ownFailed, sentTo, posts>>
    BY <1>5, <2>2, RouteUntouched DEF NotBuilt, Abandon, route
  <2> QED
    BY <1>5, <2>1, <2>2 DEF NotBuilt
<1>6. CASE Built
  <2>1. CASE Skip("unavailable")
    BY <1>6, <2>1, RouteNext DEF Built, Skip, route
  <2>2. CASE Abandon /\ UNCHANGED tried
    BY <1>6, <2>2, RouteUntouched DEF Built, Abandon, route, tried
  <2>3. CASE Send("attempt")
    BY <1>6, <2>3, RouteSends DEF Built
  <2> QED
    BY <1>6, <2>1, <2>2, <2>3 DEF Built, SendUnlessGone
<1>7. ASSUME NEW s \in Statuses, Fail(s), UNCHANGED route, pc \in AtCandidate PROVE RouteInv'
  <2>1. CASE pc' = "done" /\ UNCHANGED <<idx, sentTo>>
    BY <1>7, <2>1, RouteUntouched DEF route
  <2>2. CASE pc' = "loop" /\ idx' = idx + 1 /\ UNCHANGED sentTo
    BY <1>7, <2>2, RouteNext DEF route
  <2> QED
    BY <1>7, <2>1, <2>2 DEF Fail, Refuse, Goto
<1>8. ASSUME NEW s \in Statuses, Accept(s), UNCHANGED route, pc \in AtCandidate PROVE RouteInv'
  BY <1>8, RouteUntouched DEF Accept, Goto, route, tried
<1>9. CASE Reattested
  <2>1. CASE Abandon /\ UNCHANGED <<idx, ownSkipped, sentTo, posts, stream>>
    BY <1>9, <2>1, RouteUntouched DEF Reattested, Abandon, route
  <2>2. CASE Fail(422)
    BY <1>7, <1>9, <2>2 DEF Reattested, Statuses
  <2>3. CASE Send("again")
    BY <1>9, <2>3, RouteSends DEF Reattested
  <2> QED
    BY <1>9, <2>1, <2>2, <2>3 DEF Reattested
<1>10. CASE Paused
  <2>1. CASE Abandon /\ UNCHANGED tried
    BY <1>10, <2>1, RouteUntouched DEF Paused, Abandon, route, tried
  <2>2. CASE Send("again")
    BY <1>10, <2>2, RouteSends DEF Paused
  <2> QED
    BY <1>10, <2>1, <2>2 DEF Paused, SendUnlessGone
<1>11. ASSUME NEW s \in Statuses, Answered(s) \/ AnsweredAgain(s) PROVE RouteInv'
  <2>1. CASE Judge(s)
    BY <1>7, <1>8, <1>11, <2>1 DEF Judge, Answered, AnsweredAgain
  <2>2. CASE pc' \in {"reattest", "pause"} /\ UNCHANGED <<idx, sentTo>>
    BY <1>11, <2>2, RouteUntouched DEF Answered, AnsweredAgain, route
  <2> QED
    BY <1>11, <2>1, <2>2 DEF Answered, AnsweredAgain, Goto, tried
<1> QED
  BY <1>1, <1>2, <1>3, <1>4, <1>5, <1>6, <1>9, <1>10, <1>11

\* After the loop nothing is sent.
LEMMA RouteAfter ==
    ASSUME RouteInv,
           AcceptHeaders \/ EncryptorReady \/ ChooseSource \/ OpenerReady \/ Wire
           \/ OnEnd \/ OnError \/ SendSettle \/ OnData \/ HandlerThrows \/ HpDecides \/ UpstreamEnds
           \/ UpstreamCut \/ ClientClose \/ Flush \/ UNCHANGED vars
    PROVE  RouteInv'
<1> USE DEF Unlisted, AtCandidate, Running, Awaiting, route, tried
<1>1. UNCHANGED <<private, directOnly, cands, idx, sentTo>>
  BY DEF AcceptHeaders, EncryptorReady, ChooseSource, OpenerReady, Wire, OnEnd, OnError, SendSettle, OnData,
     HandlerThrows, HpDecides, UpstreamEnds, UpstreamCut, ClientClose, Flush, vars
<1>2. CASE AcceptHeaders \/ EncryptorReady \/ ChooseSource \/ OpenerReady \/ Wire
  BY <1>1, <1>2, RouteUntouched DEF AcceptHeaders, EncryptorReady, ChooseSource, OpenerReady, Wire, Refuse, Goto
<1>3. CASE HandlerThrows
  BY <1>1, <1>3, RouteUntouched DEF HandlerThrows, Refuse
<1>4. CASE pc' = pc
  BY <1>1, <1>4 DEF RouteInv, NoSubstitution, ListSound, Here
<1> QED
  BY <1>2, <1>3, <1>4 DEF OnEnd, OnError, SendSettle, OnData, HpDecides, UpstreamEnds, UpstreamCut, ClientClose, Flush, vars

\* server.mjs, the private-model rules and the candidate loop: a private model's prompt
\* goes to tinfoil only, no other model's goes there, and a direct-only model's goes to
\* its one provider; for every list horse-power may answer, of any length.
THEOREM PromptStaysOnRoute == Spec => []NoSubstitution
<1>1. RouteInv /\ [Next]_vars => RouteInv'
  BY RouteBefore, RouteLoop, RouteAfter DEF Next, Handler
<1>2. RouteInv => NoSubstitution
  BY DEF RouteInv
<1> QED
  BY <1>1, <1>2, RouteStarts, PTL DEF Spec
=============================================================================
