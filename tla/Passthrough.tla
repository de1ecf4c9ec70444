---------------------------- MODULE Passthrough ----------------------------
(***************************************************************************)
(* The transparent proxy (passthrough.mjs): handle and upgrade of requests *)
(* that are horse-power's, under one cap, with one retry where a pooled    *)
(* socket had died.                                                        *)
(***************************************************************************)
EXTENDS Naturals, Integers, FiniteSets

CONSTANTS
    Requests,
    MaxInflight     \* maxInflight

ASSUME PassthroughAssumption == MaxInflight \in Nat \ {0} /\ IsFiniteSet(Requests)

VARIABLES
    inflight,   \* the counter of createPassthrough
    kind,       \* kind[r]: "none", "handle" or "upgrade"
    safe,       \* safe[r]: idempotent and declares no body
    held,       \* held[r]: the slot was taken and finish has not run
    up,         \* up[r]: "none", "open", "ran", "doomed", "answered", "spliced", "over"
    reused,     \* reused[r]: up.reusedSocket
    attempts,   \* attempts[r]
    responded,  \* responded[r]: horse-power has answered, of all its attempts
    gone,       \* gone[r]: clientGone
    reported,   \* reported[r]: "none", or "unreachable" / "leaver" when its client had left
    runs        \* runs[r]: times horse-power has run the request

passthrough == <<inflight, kind, safe, held, up, reused, attempts, responded, gone, reported,
                 runs>>

PassthroughInit ==
    /\ inflight = 0
    /\ kind = [r \in Requests |-> "none"]
    /\ safe = [r \in Requests |-> FALSE]
    /\ held = [r \in Requests |-> FALSE]
    /\ up = [r \in Requests |-> "none"]
    /\ reused = [r \in Requests |-> FALSE]
    /\ attempts = [r \in Requests |-> 0]
    /\ responded = [r \in Requests |-> FALSE]
    /\ gone = [r \in Requests |-> FALSE]
    /\ reported = [r \in Requests |-> "none"]
    /\ runs = [r \in Requests |-> 0]

-----------------------------------------------------------------------------
\* Mutant of finish: without the done flag.
finishAgain(r) == held' = [held EXCEPT ![r] = FALSE] /\ inflight' = inflight - 1

\* finish: once.
finish(r) ==
    /\ held' = [held EXCEPT ![r] = FALSE]
    /\ inflight' = IF held[r] THEN inflight - 1 ELSE inflight

\* At the cap: 503, and horse-power is not touched.
Overloaded(r, k) ==
    /\ up[r] = "none" /\ inflight >= MaxInflight
    /\ kind' = [kind EXCEPT ![r] = k]
    /\ up' = [up EXCEPT ![r] = "over"]
    /\ UNCHANGED <<inflight, safe, held, reused, attempts, responded, gone, reported, runs>>

\* Below the cap: a slot and the first attempt, on a pooled socket or a new one.
Admit(r, k, pooled, retryable) ==
    /\ up[r] = "none" /\ inflight < MaxInflight
    /\ inflight' = inflight + 1
    /\ held' = [held EXCEPT ![r] = TRUE]
    /\ kind' = [kind EXCEPT ![r] = k]
    /\ up' = [up EXCEPT ![r] = "open"]
    /\ attempts' = [attempts EXCEPT ![r] = 1]
    /\ reused' = [reused EXCEPT ![r] = pooled]
    /\ safe' = [safe EXCEPT ![r] = retryable]
    /\ UNCHANGED <<responded, gone, reported, runs>>

handle(r) ==
    \/ Overloaded(r, "handle")
    \/ \E pooled, retryable \in BOOLEAN : Admit(r, "handle", pooled, retryable)

\* The same cap, and a connection of its own.
upgrade(r) == Overloaded(r, "upgrade") \/ Admit(r, "upgrade", FALSE, FALSE)

\* External: horse-power reads the request and runs it, or what was on its way when the
\* request was destroyed.
HpRuns(r) ==
    /\ up[r] = "open" \/ (up[r] = "doomed" /\ runs[r] < attempts[r])
    /\ up' = [up EXCEPT ![r] = IF @ = "open" THEN "ran" ELSE @]
    /\ runs' = [runs EXCEPT ![r] = @ + 1]
    /\ UNCHANGED <<inflight, kind, safe, held, reused, attempts, responded, gone, reported>>

\* horse-power answers.
Responds(r, s) ==
    /\ up' = [up EXCEPT ![r] = s]
    /\ responded' = [responded EXCEPT ![r] = TRUE]
    /\ UNCHANGED <<inflight, kind, safe, held, reused, attempts, gone, reported, runs>>

Over(r) ==
    /\ up' = [up EXCEPT ![r] = "over"]
    /\ finish(r)
    /\ UNCHANGED <<kind, safe, reused, attempts, responded, gone, runs>>

Unanswered == {"open", "ran", "doomed"}

-----------------------------------------------------------------------------
(* handle *)

\* 'response': the head is relayed, the connect timer disarmed.
Response(r) == kind[r] = "handle" /\ up[r] = "ran" /\ Responds(r, "answered")

\* The answer ends, or breaks and the client's is destroyed.
ResponseOver(r) ==
    /\ kind[r] = "handle" /\ up[r] = "answered"
    /\ Over(r) /\ UNCHANGED reported

\* Mutant of MayRetry: neither the method nor the body is asked about.
MayRetryAny(r) == reused[r] /\ attempts[r] = 1 /\ ~gone[r]

\* A pooled socket that died under a bodiless idempotent request, the first time.
MayRetry(r) == reused[r] /\ safe[r] /\ attempts[r] = 1 /\ ~gone[r]

\* Mutant of Retry: on the pool again, as often as it likes.
RetryPooled(r) ==
    /\ up' = [up EXCEPT ![r] = "open"]
    /\ UNCHANGED <<reused, attempts>>

\* The second attempt, on a fresh connection.
Retry(r) ==
    /\ up' = [up EXCEPT ![r] = "open"]
    /\ attempts' = [attempts EXCEPT ![r] = 2]
    /\ reused' = [reused EXCEPT ![r] = FALSE]

\* Mutant of UpError: whether horse-power has answered is not asked.
UpErrorLate(r) ==
    /\ kind[r] = "handle" /\ up[r] \in Unanswered \cup {"answered"}
    /\ \/ /\ MayRetry(r) /\ Retry(r)
          /\ UNCHANGED <<inflight, kind, safe, held, responded, gone, reported, runs>>
       \/ /\ ~MayRetry(r) /\ Over(r)
          /\ reported' = [reported EXCEPT ![r] = IF gone[r] THEN "leaver" ELSE "unreachable"]

\* 'error' of an answered request: the answer is broken off.  With no answer: a refusal, a
\* reset, a dead pooled socket, the connect timeout, or the destroy that a leaving client
\* caused.  502 and a report, whoever was the cause.
UpError(r) ==
    /\ kind[r] = "handle" /\ up[r] \in Unanswered \cup {"answered"}
    /\ \/ responded[r] /\ Over(r) /\ UNCHANGED reported
       \/ /\ ~responded[r] /\ MayRetry(r) /\ Retry(r)
          /\ UNCHANGED <<inflight, kind, safe, held, responded, gone, reported, runs>>
       \/ /\ ~responded[r] /\ ~MayRetry(r) /\ Over(r)
          /\ reported' = [reported EXCEPT ![r] = IF gone[r] THEN "leaver" ELSE "unreachable"]

\* The client closes before its answer is finished: the upstream request is
\* destroyed, whose 'error' is still to come if it had no answer.
ClientCloses(r) ==
    /\ held[r]
    /\ gone' = [gone EXCEPT ![r] = TRUE]
    /\ up' = [up EXCEPT ![r] = IF @ \in Unanswered THEN "doomed" ELSE "over"]
    /\ finish(r)
    /\ UNCHANGED <<kind, safe, reused, attempts, responded, reported, runs>>

HandleClose(r) == kind[r] = "handle" /\ ClientCloses(r)

-----------------------------------------------------------------------------
(* upgrade *)

\* 101: the sockets are spliced.
Spliced(r) == kind[r] = "upgrade" /\ up[r] = "ran" /\ Responds(r, "spliced")

\* drop: either side ends, closes or fails.
Drops(r) ==
    /\ up[r] = "spliced"
    /\ Over(r) /\ UNCHANGED reported

\* Declined: the answer is relayed with close framing.
Declined(r) == kind[r] = "upgrade" /\ up[r] = "ran" /\ Responds(r, "answered")

DeclineOver(r) ==
    /\ kind[r] = "upgrade" /\ up[r] = "answered"
    /\ Over(r) /\ UNCHANGED reported

\* 'error' with no answer: reported, unless the client has left.
UpgradeError(r) ==
    /\ kind[r] = "upgrade" /\ up[r] \in Unanswered
    /\ Over(r)
    /\ reported' = IF gone[r] THEN reported ELSE [reported EXCEPT ![r] = "unreachable"]

\* cancel: the client ends, closes or fails while the slot is held.
Cancel(r) == kind[r] = "upgrade" /\ ClientCloses(r)

Errors(r) == UpError(r) \/ UpgradeError(r)

Step(r) ==
    \/ HpRuns(r) \/ Errors(r)
    \/ Response(r) \/ ResponseOver(r) \/ HandleClose(r)
    \/ Spliced(r) \/ Drops(r) \/ Declined(r) \/ DeclineOver(r) \/ Cancel(r)

\* The proxy by itself: any request may come at any time.
PassthroughNext == \E r \in Requests : handle(r) \/ upgrade(r) \/ Step(r)

PassthroughSpec == PassthroughInit /\ [][PassthroughNext]_passthrough

-----------------------------------------------------------------------------
\* The cap counts what is really open: one slot per request that holds one, never
\* more than MaxInflight, none leaked or returned twice by the several events (error,
\* end, close, both sides of a spliced pair) that can end a request.
SlotsExact ==
    /\ inflight = Cardinality({r \in Requests : held[r]})
    /\ inflight <= MaxInflight
    /\ \A r \in Requests : held[r] <=> up[r] \in {"open", "ran", "answered", "spliced"}

\* The retry: horse-power runs a request at most as often as it was sent, which is twice
\* at most; and it is sent again only where that is harmless, and neither after
\* horse-power answered it, on whichever attempt, nor after its client left.
RunAgainOnlyIfSafe ==
    [][\A r \in Requests :
          /\ runs'[r] <= attempts'[r] /\ attempts'[r] <= 2
          /\ attempts[r] > 0 /\ attempts'[r] # attempts[r] =>
                safe[r] /\ kind[r] = "handle" /\ ~responded[r] /\ ~gone[r]]_passthrough

\* A request horse-power does not answer is given up, its slot with it.
UnansweredEnds == \A r \in Requests : up[r] \in Unanswered ~> up[r] \notin Unanswered
=============================================================================
