--------------------------- MODULE HandlersProofs ---------------------------
(***************************************************************************)
(* Proofs about Handlers for every number of speech chunks and of direct   *)
(* candidates: what each of the five handlers has said, bought and         *)
(* recorded wherever it may be interrupted.  The invariant is a conjunct   *)
(* per handler, which says what holds at each of its awaits, and one they  *)
(* share; an action of one handler leaves the conjuncts of the others      *)
(* alone, because requestRouter chose the handler once.                    *)
(***************************************************************************)
EXTENDS Handlers, TLAPS

\* Outcomes and stream ends that say the answer was delivered whole.
Whole == {"clean", "cap_hit"}

\* Nothing was said to horse-power.
Unsaid == settles = 0 /\ terminals = 0

\* At most one final word, or the second report of a sanitizer that threw.
SaidOnce ==
    \/ ~SaidTwice /\ settles + terminals <= 1
    \/ SaidTwice /\ settles = 0 /\ terminals = 2

\* What a recorded whole answer never goes with.
CleanState ==
    outcome \in Whole =>
        /\ terminals = 0 /\ status = 200
        /\ failureCode = "none" \/ (route = "decisions" /\ failureCode = "response_seal_failed")

SharedInv ==
    /\ route \in Routes
    /\ settles \in Nat /\ terminals \in Nat /\ posts \in Nat
    /\ SaidOnce
    /\ CleanState
    /\ clientGone => outcome # "none"

\* Decisions: the final word of a refused status comes before the answer is sealed, the
\* settle of a served one after.
DecisionsInv ==
    route = "decisions" =>
        /\ pc \in {"entry", "body", "measure", "authorize", "stuck", "attempt", "answer", "seal", "done"}
        /\ pc \in {"entry", "body", "measure"} => hp = "idle"
        /\ pc \notin {"seal", "done"} => Unsaid /\ failureCode = "none" /\ outcome \notin Whole
        /\ pc \in {"answer", "seal"} => status \in {200, 500}
        /\ pc = "seal" => /\ settles = 0 /\ failureCode = "none"
                          /\ terminals = IF status = 200 THEN 0 ELSE 1

\* Speech: nothing is said before the loop is over; a chunk is counted unheard only
\* after the client left, and then no other chunk follows.
SpeechInv ==
    route = "speech" =>
        /\ pc \in {"body", "authorize", "stuck", "attest", "build", "send", "reattest", "refusal",
                   "pump", "start", "relay", "done"}
        /\ pc = "body" => hp = "idle"
        /\ pc # "done" => Unsaid /\ failureCode = "none" /\ outcome \notin Whole
        /\ pc \in {"pump", "start", "relay"} => status = 200
        /\ pc = "reattest" => tinfoil
        /\ pc = "build" /\ ~tinfoil => ~clientGone
        /\ dispatched \in Nat /\ heard \in Nat
        /\ \/ dispatched = heard
           \/ dispatched = heard + 1 /\ clientGone /\ pc \in {"start", "relay", "done"}

\* Dialect: where the walk is nothing was said and no answer is held; a refused status
\* has had its final word; a served one settles once, through the latch.
DialectInv ==
    route = "dialect" =>
        /\ pc \in {"entry", "body", "measure", "authorize", "stuck", "redact", "loop", "direct", "attempt",
                   "errbody", "errseal", "encrypt", "stream", "drain", "done"}
        /\ pc \in {"entry", "body", "measure"} => hp = "idle"
        /\ pc \in {"entry", "body", "measure", "authorize", "stuck"} => sentTo = {}
        /\ pc \in {"entry", "body", "measure", "authorize", "stuck", "redact", "loop", "direct", "attempt"} =>
              Unsaid /\ status = 0 /\ ~settled /\ ~counting /\ ~restoreFailed
        /\ pc \in {"encrypt", "stream", "drain"} => Unsaid /\ status = 200
        /\ pc = "encrypt" => ~settled /\ ~counting /\ ~restoreFailed
        /\ pc = "stream" => (settled <=> counting)
        /\ pc = "drain" => settled /\ ~counting /\ outcome \notin Whole \cup {"none"}
        /\ pc \in {"errbody", "errseal"} =>
              settles = 0 /\ terminals = 1 /\ status = 500 /\ ~counting /\ outcome \notin Whole \cup {"none"}
        /\ counting => Unsaid /\ status = 200 /\ pc \in {"stream", "done"} /\ settled
        /\ threw => pc = "done"
        /\ ~settled => streamEnd \notin Whole /\ outcome \notin Whole
        /\ ~settled /\ ~restoreFailed => failureCode = "none"
        /\ restoreFailed => streamEnd # "none"

\* Private: like decisions, with the final word of a refused status at its headers.
PrivateInv ==
    route = "private" =>
        /\ pc \in {"entry", "authorize", "stuck", "body", "attempt", "stream", "done"}
        /\ pc = "entry" => hp = "idle"
        /\ pc \in {"entry", "authorize", "stuck", "body", "attempt"} => Unsaid /\ ~clientGone /\ outcome = "none"
        /\ pc # "done" => failureCode = "none" /\ streamEnd \notin Whole
        /\ pc = "stream" =>
              /\ settles = 0 /\ status \in {200, 422, 500} /\ outcome \notin Whole
              /\ terminals = IF status = 200 THEN 0 ELSE 1
              /\ status # 200 => outcome # "none"

\* Token counting says nothing and watches nobody.
CountInv ==
    route = "count" =>
        /\ pc \in {"entry", "body", "authorize", "stuck", "attempt", "answer", "seal", "done"}
        /\ hp = "idle" /\ Unsaid /\ ~clientGone /\ failureCode = "none"
        /\ pc \notin {"seal", "done"} => outcome \notin Whole
        /\ pc = "answer" => status \in {200, 500}

HandlersInv ==
    SharedInv /\ DecisionsInv /\ SpeechInv /\ DialectInv /\ PrivateInv /\ CountInv /\ NoSubstitution

\* What horse-power sees of a step: words are added, an id it has not heard of is
\* announced, or its own decision.
HoldMove ==
    \/ UNCHANGED hp /\ settles' >= settles /\ terminals' >= terminals
    \/ hp = "idle" /\ hp' = "asked" /\ Unsaid /\ UNCHANGED <<settles, terminals>>
    \/ hp = "asked" /\ hp' \in {"granted", "refused"} /\ UNCHANGED <<settles, terminals>>

\* What a step may do beside keeping the invariant.
StepSound ==
    /\ UNCHANGED route
    /\ outcome = "none" \/ UNCHANGED outcome
    /\ posts' > posts => ~clientGone \/ (route = "speech" /\ tinfoil)
    /\ HoldMove

\* Every handler is where its first line is.
LEMMA HandlersStart == Init => HandlersInv
  BY DEF Init, RequestInit, SpeechInit, DialectInit, HandlersInv, SharedInv, DecisionsInv, SpeechInv,
         DialectInv, PrivateInv, CountInv, NoSubstitution, SaidOnce, SaidTwice, CleanState, Unsaid,
         Whole, Routes

\* A decisions step.
LEMMA DecisionsStep ==
    ASSUME HandlersInv, DecisionsNext, UNCHANGED <<speech, dialect>>
    PROVE  HandlersInv' /\ StepSound
<1> USE DEF At, Refuse, Goto, Abandon, Post, Finalize, EndsAs, FailsAs, Final, Note,
            fixed, client, answer, books, story, words, speech, dialect
<1>0. route = "decisions" /\ UNCHANGED route
  BY DEF DecisionsNext, DecisionsHandler, DecisionsEntry, DecisionsBody, DecisionsAsk,
         DecisionsRefused, DecisionsGranted, DecisionsAnswered, DecisionsRead, DecisionsSend,
         DecisionsThrows, DecisionsClose
<1>1. SharedInv /\ DecisionsInv /\ ~SaidTwice /\ ~SaidTwice'
  BY <1>0 DEF HandlersInv, SaidTwice
<1>2. SpeechInv' /\ DialectInv' /\ PrivateInv' /\ CountInv' /\ NoSubstitution'
  BY <1>0 DEF HandlersInv, SpeechInv, DialectInv, PrivateInv, CountInv, NoSubstitution
<1>3. SUFFICES SharedInv' /\ DecisionsInv' /\ StepSound
  BY <1>2 DEF HandlersInv
<1> USE DEF SharedInv, DecisionsInv, StepSound, HoldMove, SaidOnce, CleanState, Unsaid, Whole
<1>4. CASE DecisionsEntry
  BY <1>0, <1>1, <1>4 DEF DecisionsEntry
<1>5. CASE DecisionsBody
  BY <1>0, <1>1, <1>5 DEF DecisionsBody
<1>6. CASE DecisionsAsk
  BY <1>0, <1>1, <1>6 DEF DecisionsAsk, AskHorsepower
<1>7. CASE DecisionsRefused
  BY <1>0, <1>1, <1>7 DEF DecisionsRefused, Refused
<1>8. CASE DecisionsGranted
  BY <1>0, <1>1, <1>8 DEF DecisionsGranted
<1>9. CASE DecisionsAnswered
  BY <1>0, <1>1, <1>9 DEF DecisionsAnswered
<1>10. CASE DecisionsRead
  BY <1>0, <1>1, <1>10 DEF DecisionsRead
<1>11. CASE DecisionsSend
  BY <1>0, <1>1, <1>11 DEF DecisionsSend
<1>12. CASE DecisionsThrows
  BY <1>0, <1>1, <1>12 DEF DecisionsThrows, Thrown
<1>13. CASE DecisionsClose
  BY <1>0, <1>1, <1>13 DEF DecisionsClose, SeenGone
<1> QED
  BY <1>4, <1>5, <1>6, <1>7, <1>8, <1>9, <1>10, <1>11, <1>12, <1>13 DEF DecisionsNext, DecisionsHandler

\* A speech step.
LEMMA SpeechStep ==
    ASSUME HandlersInv, SpeechNext, UNCHANGED dialect
    PROVE  HandlersInv' /\ StepSound
<1> USE DEF At, Refuse, Goto, Abandon, Post, Finalize, EndsAs, Final, Note,
            fixed, client, answer, books, story, words, speech, dialect
<1>0. route = "speech" /\ UNCHANGED route
  BY DEF SpeechNext, SpeechHandler, SpeechBody, SpeechRefused, SpeechGranted, SpeechAttested,
         SpeechBuilt, SpeechAnswered, SpeechReattested, SpeechRefusal, SpeechStarted,
         SpeechChunkEnds, SpeechChunkFails, SpeechFirstByte, SpeechClose
<1>1. SharedInv /\ SpeechInv /\ ~SaidTwice /\ ~SaidTwice'
  BY <1>0 DEF HandlersInv, SaidTwice
<1>2. DecisionsInv' /\ DialectInv' /\ PrivateInv' /\ CountInv' /\ NoSubstitution'
  BY <1>0 DEF HandlersInv, DecisionsInv, DialectInv, PrivateInv, CountInv, NoSubstitution
<1>3. SUFFICES SharedInv' /\ SpeechInv' /\ StepSound
  BY <1>2 DEF HandlersInv
<1> USE DEF SharedInv, SpeechInv, StepSound, HoldMove, SaidOnce, CleanState, Unsaid, Whole
<1>4. CASE SpeechBody
  BY <1>0, <1>1, <1>4 DEF SpeechBody, AskHorsepower
<1>5. CASE SpeechRefused
  BY <1>0, <1>1, <1>5 DEF SpeechRefused, Refused
<1>6. CASE SpeechGranted
  BY <1>0, <1>1, <1>6 DEF SpeechGranted
<1>7. CASE SpeechAttested
  BY <1>0, <1>1, <1>7 DEF SpeechAttested
<1>8. CASE SpeechBuilt
  BY <1>0, <1>1, <1>8 DEF SpeechBuilt, ChunkFails, AfterLoop
<1>9. CASE SpeechAnswered
  BY <1>0, <1>1, <1>9 DEF SpeechAnswered, ChunkFails, Stops, AfterLoop
<1>10. CASE SpeechReattested
  BY <1>0, <1>1, <1>10 DEF SpeechReattested, ChunkFails, AfterLoop
<1>11. CASE SpeechRefusal
  BY <1>0, <1>1, <1>11 DEF SpeechRefusal, ChunkFails, AfterLoop
<1>12. CASE SpeechStarted
  BY <1>0, <1>1, <1>12 DEF SpeechStarted
<1>13. CASE SpeechChunkEnds
  BY <1>0, <1>1, <1>13 DEF SpeechChunkEnds, Stops, AfterLoop
<1>14. CASE SpeechChunkFails
  BY <1>0, <1>1, <1>14 DEF SpeechChunkFails, Stops, AfterLoop
<1>15. CASE SpeechFirstByte
  BY <1>0, <1>1, <1>15 DEF SpeechFirstByte
<1>16. CASE SpeechClose
  BY <1>0, <1>1, <1>16 DEF SpeechClose, SeenGone
<1> QED
  BY <1>4, <1>5, <1>6, <1>7, <1>8, <1>9, <1>10, <1>11, <1>12, <1>13, <1>14, <1>15, <1>16
  DEF SpeechNext, SpeechHandler

\* A step of the private relay.
LEMMA PrivateStep ==
    ASSUME HandlersInv, PrivateNext \/ PrivateUpstream, UNCHANGED <<speech, dialect>>
    PROVE  HandlersInv' /\ StepSound
<1> USE DEF At, Refuse, Goto, Post, Finalize, EndsAs, FailsAs, Final, Note,
            fixed, client, answer, books, story, words, speech, dialect
<1>0. route = "private" /\ UNCHANGED route
  BY DEF PrivateNext, PrivateHandler, PrivateEntry, PrivateRefused, PrivateGranted, PrivateBody,
         PrivateAnswered, PrivateEnd, PrivateError, PrivateClose, PrivateUpstream
<1>1. SharedInv /\ PrivateInv /\ ~SaidTwice /\ ~SaidTwice'
  BY <1>0 DEF HandlersInv, SaidTwice
<1>2. DecisionsInv' /\ SpeechInv' /\ DialectInv' /\ CountInv' /\ NoSubstitution'
  BY <1>0 DEF HandlersInv, DecisionsInv, SpeechInv, DialectInv, CountInv, NoSubstitution
<1>3. SUFFICES SharedInv' /\ PrivateInv' /\ StepSound
  BY <1>2 DEF HandlersInv
<1> USE DEF SharedInv, PrivateInv, StepSound, HoldMove, SaidOnce, CleanState, Unsaid, Whole
<1>4. CASE PrivateEntry
  BY <1>0, <1>1, <1>4 DEF PrivateEntry, AskHorsepower
<1>5. CASE PrivateRefused
  BY <1>0, <1>1, <1>5 DEF PrivateRefused, Refused
<1>6. CASE PrivateGranted
  BY <1>0, <1>1, <1>6 DEF PrivateGranted
<1>7. CASE PrivateBody
  BY <1>0, <1>1, <1>7 DEF PrivateBody
<1>8. CASE PrivateAnswered
  BY <1>0, <1>1, <1>8 DEF PrivateAnswered
<1>9. CASE PrivateEnd
  BY <1>0, <1>1, <1>9 DEF PrivateEnd, Conclude
<1>10. CASE PrivateError
  BY <1>0, <1>1, <1>10 DEF PrivateError, Conclude
<1>11. CASE PrivateClose
  BY <1>0, <1>1, <1>11 DEF PrivateClose, SeenGone, Destroyed
<1>12. CASE PrivateUpstream
  BY <1>0, <1>1, <1>12 DEF PrivateUpstream
<1> QED
  BY <1>4, <1>5, <1>6, <1>7, <1>8, <1>9, <1>10, <1>11, <1>12 DEF PrivateNext, PrivateHandler

\* A step of token counting.
LEMMA CountStep ==
    ASSUME HandlersInv, CountNext, UNCHANGED <<speech, dialect>>
    PROVE  HandlersInv' /\ StepSound
<1> USE DEF At, Refuse, Goto, Post, Finalize, fixed, client, answer, books, story, words, speech, dialect
<1>0. route = "count" /\ UNCHANGED route
  BY DEF CountNext, CountHandler, CountEntry, CountBody, CountAuthorized, CountAnswered, CountRead,
         CountSend, CountClose
<1>1. SharedInv /\ CountInv /\ ~SaidTwice /\ ~SaidTwice'
  BY <1>0 DEF HandlersInv, SaidTwice
<1>2. DecisionsInv' /\ SpeechInv' /\ DialectInv' /\ PrivateInv' /\ NoSubstitution'
  BY <1>0 DEF HandlersInv, DecisionsInv, SpeechInv, DialectInv, PrivateInv, NoSubstitution
<1>3. SUFFICES SharedInv' /\ CountInv' /\ StepSound
  BY <1>2 DEF HandlersInv
<1> USE DEF SharedInv, CountInv, StepSound, HoldMove, SaidOnce, CleanState, Unsaid, Whole
<1>4. CASE CountEntry
  BY <1>0, <1>1, <1>4 DEF CountEntry
<1>5. CASE CountBody
  BY <1>0, <1>1, <1>5 DEF CountBody
<1>6. CASE CountAuthorized
  BY <1>0, <1>1, <1>6 DEF CountAuthorized
<1>7. CASE CountAnswered
  BY <1>0, <1>1, <1>7 DEF CountAnswered
<1>8. CASE CountRead
  BY <1>0, <1>1, <1>8 DEF CountRead
<1>9. CASE CountSend
  BY <1>0, <1>1, <1>9 DEF CountSend
<1>10. CASE CountClose
  BY <1>0, <1>1, <1>10 DEF CountClose
<1> QED
  BY <1>4, <1>5, <1>6, <1>7, <1>8, <1>9, <1>10 DEF CountNext, CountHandler

\* A step of the dialect relay.
LEMMA DialectStep ==
    ASSUME HandlersInv, DialectNext, UNCHANGED speech
    PROVE  HandlersInv' /\ StepSound
<1> USE DEF At, Refuse, Goto, Abandon, Post, Finalize, EndsAs, FailsAs, Final, Note, fixed, client,
            answer, books, story, words, speech, dialect, walk
<1>0. route = "dialect" /\ UNCHANGED route
  BY DEF DialectNext, DialectHandler, DialectUpstream, DialectEntry, DialectBody, DialectAsk,
         DialectRefused, DialectGranted, DialectRedacted, DialectSkip, DialectTry, DialectDirect,
         DialectOpenRouter, DialectAnswered, DialectErrorBody, DialectErrorSent, DialectEncryptor,
         DialectEnd, DialectError, DialectDrained, DialectSettle, DialectUpstreamEnds,
         DialectUpstreamCut, DialectData, DialectClose, DialectThrows, DialectSanitizerThrows, Streaming
<1>1. SharedInv /\ DialectInv /\ NoSubstitution
  BY DEF HandlersInv
<1>2. DecisionsInv' /\ SpeechInv' /\ PrivateInv' /\ CountInv'
  BY <1>0 DEF DecisionsInv, SpeechInv, PrivateInv, CountInv
<1>3. SUFFICES SharedInv' /\ DialectInv' /\ NoSubstitution' /\ StepSound
  BY <1>2 DEF HandlersInv
<1> USE DEF SharedInv, DialectInv, NoSubstitution, StepSound, HoldMove, SaidOnce, SaidTwice, CleanState,
            Unsaid, Whole
<1>4. CASE DialectEntry
  BY <1>0, <1>1, <1>4 DEF DialectEntry
<1>5. CASE DialectBody
  BY <1>0, <1>1, <1>5 DEF DialectBody
<1>6. CASE DialectAsk
  BY <1>0, <1>1, <1>6 DEF DialectAsk, AskHorsepower
<1>7. CASE DialectRefused
  BY <1>0, <1>1, <1>7 DEF DialectRefused, Refused
<1>8. CASE DialectGranted
  BY <1>0, <1>1, <1>8 DEF DialectGranted
<1>9. CASE DialectRedacted
  BY <1>0, <1>1, <1>9 DEF DialectRedacted
<1>10. CASE DialectSkip
  BY <1>0, <1>1, <1>10 DEF DialectSkip
<1>11. CASE DialectTry
  BY <1>0, <1>1, <1>11 DEF DialectTry
<1>12. CASE DialectDirect
  <2>1. /\ pc = "direct" /\ UNCHANGED <<client, story, words, hp, posts, books, threw>>
        /\ UNCHANGED <<directOnly, sentTo, restoreFailed, counting>>
        /\ \/ status' = 200 /\ pc' \in {"encrypt", "stream"}
           \/ UNCHANGED status /\ pc' = "loop"
    BY <1>12 DEF DialectDirect, Serve
  <2> QED
    BY <1>0, <1>1, <2>1
<1>13. CASE DialectOpenRouter
  BY <1>0, <1>1, <1>13 DEF DialectOpenRouter
<1>14. CASE DialectAnswered
  BY <1>0, <1>1, <1>14 DEF DialectAnswered, Serve
<1>15. CASE DialectErrorBody
  BY <1>0, <1>1, <1>15 DEF DialectErrorBody
<1>16. CASE DialectErrorSent
  BY <1>0, <1>1, <1>16 DEF DialectErrorSent
<1>17. CASE DialectEncryptor
  BY <1>0, <1>1, <1>17 DEF DialectEncryptor, Destroyed
<1>18. CASE DialectEnd
  BY <1>0, <1>1, <1>18 DEF DialectEnd, Streaming, FailAnswer, SettleNow
<1>19. CASE DialectError
  BY <1>0, <1>1, <1>19 DEF DialectError, Streaming, FailAnswer, SettleNow
<1>20. CASE DialectDrained
  BY <1>0, <1>1, <1>20 DEF DialectDrained, SettleNow
<1>21. CASE DialectSettle
  BY <1>0, <1>1, <1>21 DEF DialectSettle
<1>22. CASE DialectUpstreamEnds \/ DialectUpstreamCut
  BY <1>0, <1>1, <1>22 DEF DialectUpstreamEnds, DialectUpstreamCut
<1>23. CASE DialectData
  BY <1>0, <1>1, <1>23 DEF DialectData, Streaming, FailAnswer
<1>24. CASE DialectClose
  BY <1>0, <1>1, <1>24 DEF DialectClose, SeenGone, Destroyed
<1>25. CASE DialectThrows
  BY <1>0, <1>1, <1>25 DEF DialectThrows, Thrown
<1>26. CASE DialectSanitizerThrows
  BY <1>0, <1>1, <1>26 DEF DialectSanitizerThrows, Thrown
<1> QED
  BY <1>4, <1>5, <1>6, <1>7, <1>8, <1>9, <1>10, <1>11, <1>12, <1>13, <1>14, <1>15, <1>16, <1>17,
     <1>18, <1>19, <1>20, <1>21, <1>22, <1>23, <1>24, <1>25, <1>26
  DEF DialectNext, DialectHandler, DialectUpstream

\* Every step keeps the invariant and is sound in itself.
LEMMA HandlersStep ==
    ASSUME HandlersInv, [Next]_vars
    PROVE  HandlersInv' /\ StepSound
<1>1. ASSUME HpDecides \/ Flush, UNCHANGED <<speech, dialect>>
      PROVE  HandlersInv' /\ StepSound
  <2>1. /\ UNCHANGED <<route, pc, clientGone, posts, status, settled, failureCode, streamEnd, outcome,
                       settles, terminals, threw, speech, dialect>>
        /\ \/ UNCHANGED hp
           \/ hp = "asked" /\ hp' \in {"granted", "refused"}
    BY <1>1 DEF HpDecides, Flush, fixed, client, answer, books, story, words
  <2>2. HandlersInv'
    BY <2>1 DEF HandlersInv, SharedInv, DecisionsInv, SpeechInv, DialectInv, PrivateInv, CountInv,
       NoSubstitution, SaidOnce, SaidTwice, CleanState, Unsaid, speech, dialect
  <2> QED
    BY <2>1, <2>2 DEF StepSound, HoldMove, HandlersInv, SharedInv
<1>2. ASSUME UNCHANGED vars PROVE HandlersInv' /\ StepSound
  BY <1>2 DEF vars, common, fixed, client, answer, books, story, words, speech, dialect,
     HandlersInv, SharedInv, DecisionsInv, SpeechInv, DialectInv, PrivateInv, CountInv,
     NoSubstitution, SaidOnce, SaidTwice, CleanState, Unsaid, StepSound, HoldMove
<1>3. ASSUME AuthorizeCut, UNCHANGED <<speech, dialect>> PROVE HandlersInv' /\ StepSound
  <2>1. /\ pc = "authorize" /\ pc' = "stuck"
        /\ UNCHANGED <<route, hp, clientGone, posts, status, settled, failureCode, streamEnd, outcome,
                       settles, terminals, threw, speech, dialect>>
    BY <1>3 DEF AuthorizeCut, Goto, fixed, client, answer, books, story, words
  <2>2. HandlersInv'
    BY <2>1 DEF HandlersInv, SharedInv, DecisionsInv, SpeechInv, DialectInv, PrivateInv, CountInv,
       NoSubstitution, SaidOnce, SaidTwice, CleanState, Unsaid, speech, dialect
  <2> QED
    BY <2>1, <2>2 DEF StepSound, HoldMove, HandlersInv, SharedInv
<1> QED
  BY <1>1, <1>2, <1>3, DecisionsStep, SpeechStep, DialectStep, PrivateStep, CountStep DEF Next

\* What every handler owes at each of its awaits.
THEOREM HandlersSound == Spec => []HandlersInv
  BY HandlersStart, HandlersStep, PTL DEF Spec

\* NoSubstitution: the dialect relay's walk over the candidates sends a direct-only
\* model's prompt to its own provider and to no other, however many candidates fail.
THEOREM RelayStaysOnRoute == Spec => []NoSubstitution
<1>1. HandlersInv => NoSubstitution
  BY DEF HandlersInv
<1> QED
  BY <1>1, HandlersSound, PTL

\* SpeechBillsWhatWasHeard: a settled speech request counts the chunks that began to play
\* for a listening client, and at most the one that was on its way when the client left.
THEOREM SpeechBilledAsHeard == Spec => []SpeechBillsWhatWasHeard
<1>1. HandlersInv => SpeechBillsWhatWasHeard
  BY DEF HandlersInv, SpeechInv, SpeechBillsWhatWasHeard
<1> QED
  BY <1>1, HandlersSound, PTL

\* CleanIsClean: 'clean' and 'cap_hit' are recorded for a whole answer to a client that is
\* there, and no report or failure contradicts them in any later step.
THEOREM CleanStaysClean == Spec => CleanIsClean
<1>1. ASSUME HandlersInv, HandlersInv', StepSound
      PROVE  /\ outcome' \in {"clean", "cap_hit"} =>
                   /\ terminals' = 0 /\ status' = 200
                   /\ failureCode' \in {"none"} \cup
                         (IF route = "decisions" THEN {"response_seal_failed"} ELSE {})
             /\ outcome' # outcome /\ outcome' \in {"clean", "cap_hit"} => ~clientGone
  BY <1>1 DEF HandlersInv, SharedInv, CleanState, Whole, StepSound
<1>2. HandlersInv /\ [Next]_vars => HandlersInv' /\ StepSound
  BY HandlersStep
<1> QED
  BY <1>1, <1>2, HandlersSound, PTL DEF Spec, CleanIsClean

\* NoSpendForNobody: no handler sends an upstream request for a client it knows to be gone,
\* but for the speech chunk that was being sealed when the client left.
THEOREM NothingSpentForNobody == Spec => NoSpendForNobody
<1>1. StepSound => (posts' > posts => ~clientGone \/ (route = "speech" /\ tinfoil))
  BY DEF StepSound
<1>2. HandlersInv /\ [Next]_vars => StepSound
  BY HandlersStep
<1> QED
  BY <1>1, <1>2, HandlersSound, PTL DEF Spec, NoSpendForNobody

\* What is said, as Hold counts it.
Words == settles + terminals - (IF SaidTwice THEN 1 ELSE 0)

\* The count of a settles and b reports as u: all of them, or one less of two reports.
Count(a, b, u) == (a + b <= 1 /\ u = a + b) \/ (a = 0 /\ b = 2 /\ u = 1)

\* Counts that only grow, grow by one at most, and from zero.
LEMMA Sums ==
    ASSUME NEW a \in Nat, NEW b \in Nat, NEW c \in Nat, NEW d \in Nat, NEW u, NEW v,
           c >= a, d >= b, Count(a, b, u), Count(c, d, v)
    PROVE  v = u \/ (u = 0 /\ v = 1)
  BY SMT DEF Count

\* How Hold's count comes about.
LEMMA Counted ==
    ASSUME NEW a \in Nat, NEW b \in Nat, NEW twice \in BOOLEAN, NEW u,
           u = a + b - (IF twice THEN 1 ELSE 0),
           (~twice /\ a + b <= 1) \/ (twice /\ a = 0 /\ b = 2)
    PROVE  Count(a, b, u)
<1>1. CASE twice
  <2>1. u = a + b - 1
    BY <1>1, Zenon
  <2> QED
    BY <1>1, <2>1 DEF Count
<1>2. CASE ~twice
  <2>1. u = a + b - 0
    BY <1>2, Zenon
  <2> QED
    BY <1>2, <2>1 DEF Count
<1> QED
  BY <1>1, <1>2

\* Final words are only added: none is followed by a second one.
LEMMA WordsGrow ==
    ASSUME HandlersInv, HandlersInv', settles' >= settles, terminals' >= terminals
    PROVE  Words' = Words \/ (Words = 0 /\ Words' = 1)
<1>1. settles \in Nat /\ terminals \in Nat /\ settles' \in Nat /\ terminals' \in Nat
  BY DEF HandlersInv, SharedInv
<1>2. SaidOnce /\ SaidOnce' /\ SaidTwice \in BOOLEAN /\ SaidTwice' \in BOOLEAN
  BY DEF HandlersInv, SharedInv, SaidTwice
<1>3. Count(settles, terminals, Words)
  BY <1>1, <1>2, Counted DEF SaidOnce, Words
<1>4. Count(settles', terminals', Words')
  BY <1>1, <1>2, Counted DEF SaidOnce, Words
<1> QED
  BY <1>1, <1>3, <1>4, Sums

\* ImplementsHold: every handler keeps the contract of Hold with horse-power, whatever the
\* order of client close, upstream end and failure.
THEOREM HandlersKeepHold == Spec => ImplementsHold
<1>1. Init => HoldOf!Init
  BY DEF Init, RequestInit, HoldOf!Init, SaidTwice
<1>2. ASSUME HandlersInv, HandlersInv', StepSound
      PROVE  [HoldOf!Next]_<<hp, settles + terminals - (IF SaidTwice THEN 1 ELSE 0)>>
  <2>1. CASE UNCHANGED hp /\ settles' >= settles /\ terminals' >= terminals
    <3>1. Words' = Words \/ (Words = 0 /\ Words' = 1)
      BY <1>2, <2>1, WordsGrow
    <3> QED
      BY <2>1, <3>1 DEF Words, HoldOf!Next, HoldOf!Say
  <2>2. CASE hp = "idle" /\ hp' = "asked" /\ Unsaid /\ UNCHANGED <<settles, terminals>>
    <3>1. ~SaidTwice /\ ~SaidTwice'
      BY <1>2, <2>2 DEF HandlersInv, SharedInv, SaidOnce, Unsaid
    <3>2. Words = 0 + 0 - 0 /\ Words' = 0 + 0 - 0
      BY <2>2, <3>1, Zenon DEF Words, Unsaid
    <3>3. Words = 0 /\ Words' = Words
      BY <3>2
    <3> QED
      BY <2>2, <3>3 DEF Words, HoldOf!Next, HoldOf!Ask
  <2>3. CASE hp = "asked" /\ hp' \in {"granted", "refused"} /\ UNCHANGED <<settles, terminals>>
    <3>1. SaidTwice' <=> SaidTwice
      BY <1>2, <2>3 DEF HandlersInv, SharedInv, SaidOnce
    <3> QED
      BY <2>3, <3>1 DEF HoldOf!Next, HoldOf!Decide
  <2> QED
    BY <1>2, <2>1, <2>2, <2>3 DEF StepSound, HoldMove
<1>3. HandlersInv /\ [Next]_vars => HandlersInv' /\ StepSound
  BY HandlersStep
<1> QED
  BY <1>1, <1>2, <1>3, HandlersSound, PTL DEF Spec, ImplementsHold, HoldOf!Spec
=============================================================================
