---------------------------- MODULE SettleQueue ----------------------------
(***************************************************************************)
(* The durable settlement retry queue of one enclave worker                *)
(* (enclave/src/settleQueue.mjs) and the POST it drives                    *)
(* (settlePostOnce, enclave/src/server.mjs).                               *)
(*                                                                         *)
(* A settle is named by its settle_id, minted once per request, so it is   *)
(* submitted at most once.  An item of the queue is the settle it carries: *)
(* `queue` keeps the order of the array, the other item fields are         *)
(* functions of the settle.  A JavaScript item object outlives its place   *)
(* in the array while a POST closure still refers to it; here that is a    *)
(* settle with inFlight TRUE that is no longer in `queue`.                 *)
(*                                                                         *)
(* Time is counted in units of the backoff base (1000 ms) and only as far  *)
(* as it matters: `wait` is how long an item's nextAt is in the future.    *)
(***************************************************************************)
EXTENDS Naturals, Sequences, FiniteSets

CONSTANTS
    Settles,        \* settle ids
    MaxAttempts,    \* maxAttempts of createSettleQueue
    Cap,            \* cap of createSettleQueue
    BackoffCap,     \* cap of backoffMs, in units of its base
    MaxCuts,        \* bound: answers cut off between headers and end
    MaxCrashes      \* bound: crashes of the worker process

ASSUME SettleQueueAssumption ==
    /\ MaxAttempts \in Nat \ {0}
    /\ Cap \in Nat \ {0}
    /\ BackoffCap \in Nat \ {0}
    /\ MaxCuts \in Nat
    /\ MaxCrashes \in Nat

VARIABLES
    queue,      \* the array, oldest first
    first,      \* settles whose immediate POST, made by submit, is outstanding
    attempts,   \* item.attempts
    wait,       \* item.nextAt - now, never below 0
    inFlight,   \* item.inFlight
    posts,      \* POSTs of the settle that are outstanding
    tries,      \* POSTs of the settle ever sent; 0 until it is submitted
    stuck,      \* settles whose outstanding POST will never be answered
    acked,      \* settles whose POST came back 'ok'
    reports,    \* reasons onPermanentFailure was called with, in order
    gone,       \* settles in memory when the worker crashed
    crashes,    \* crashes so far
    billed      \* settles horse-power has debited

queueVars == <<queue, first, attempts, wait, inFlight, posts, tries, stuck,
               acked, reports, gone, crashes, billed>>

item == <<attempts, wait, inFlight>>

Statuses == {200, 400, 401, 500, 0}      \* 0: no response at all
Outcomes == {"ok", "permanent", "transient"}
Reasons  == {"permanent", "gave_up", "dropped"}

-----------------------------------------------------------------------------
(* Pure helpers.                                                           *)

classifySettleStatus(status) ==
    IF status >= 200 /\ status < 300 THEN "ok"
    ELSE IF status = 400 \/ status = 401 THEN "permanent"
    ELSE "transient"

\* Math.min(cap, base * 2^n), in units of base.
backoffMs(n) == IF 2^n \in 1..BackoffCap THEN 2^n ELSE BackoffCap

Elements(q) == {q[i] : i \in 1..Len(q)}

\* Mutant of Without: the answered item stays in the array.
WithoutForgotten(q, s) == q

\* queue.splice(queue.indexOf(item), 1), nothing when the item is not there.
Without(q, s) ==
    IF s \notin Elements(q) THEN q
    ELSE LET i == CHOOSE k \in 1..Len(q) : q[k] = s
         IN  [k \in 1..(Len(q) - 1) |-> IF k < i THEN q[k] ELSE q[k + 1]]

\* lost(meta, reason): the reporter is called; a throw of it changes nothing.
Reported(s, reason) == [reports EXCEPT ![s] = Append(@, reason)]

Submitted(s) == tries[s] > 0

Full == Len(queue) >= Cap

\* item.attempts > maxAttempts, after a retry failed transiently.
GivesUp(n) == n > MaxAttempts

-----------------------------------------------------------------------------
QueueInit ==
    /\ queue = <<>>
    /\ first = {}
    /\ attempts = [s \in Settles |-> 0]
    /\ wait = [s \in Settles |-> 0]
    /\ inFlight = [s \in Settles |-> FALSE]
    /\ posts = [s \in Settles |-> 0]
    /\ tries = [s \in Settles |-> 0]
    /\ stuck = {}
    /\ acked = {}
    /\ reports = [s \in Settles |-> <<>>]
    /\ gone = {}
    /\ crashes = 0
    /\ billed = {}

\* submit(meta): the first POST goes out at once; nothing is queued yet.
Submit(s) ==
    /\ tries[s] = 0
    /\ tries' = [tries EXCEPT ![s] = 1]
    /\ posts' = [posts EXCEPT ![s] = 1]
    /\ first' = first \cup {s}
    /\ UNCHANGED <<queue, item, stuck, acked, reports, gone, crashes, billed>>

\* Mutant of Enqueue: the dropped item is not reported.
EnqueueSilently(s) ==
    /\ queue' = Append(IF Full THEN Tail(queue) ELSE queue, s)
    /\ attempts' = [attempts EXCEPT ![s] = 1]
    /\ wait' = [wait EXCEPT ![s] = backoffMs(1)]
    /\ inFlight' = [inFlight EXCEPT ![s] = FALSE]
    /\ UNCHANGED reports

\* enqueue(meta, 1), the oldest item dropped and reported when the queue is full.
Enqueue(s) ==
    /\ \/ /\ Full
          /\ queue' = Append(Tail(queue), s)
          /\ reports' = Reported(Head(queue), "dropped")
       \/ /\ ~Full
          /\ queue' = Append(queue, s)
          /\ UNCHANGED reports
    /\ attempts' = [attempts EXCEPT ![s] = 1]
    /\ wait' = [wait EXCEPT ![s] = backoffMs(1)]
    /\ inFlight' = [inFlight EXCEPT ![s] = FALSE]

\* A POST that is answered: an 'ok' comes only from a horse-power that debited.
Answered(s, status) ==
    /\ posts[s] > 0
    /\ s \notin stuck
    /\ status = 200 => s \in billed
    /\ posts' = [posts EXCEPT ![s] = @ - 1]

\* The continuation of submit's POST.
FirstDone(s, status) ==
    /\ s \in first
    /\ Answered(s, status)
    /\ first' = first \ {s}
    /\ \/ /\ classifySettleStatus(status) = "transient"
          /\ Enqueue(s)
          /\ UNCHANGED acked
       \/ /\ classifySettleStatus(status) = "permanent"
          /\ reports' = Reported(s, "permanent")
          /\ UNCHANGED <<queue, item, acked>>
       \/ /\ classifySettleStatus(status) = "ok"
          /\ acked' = acked \cup {s}
          /\ UNCHANGED <<queue, item, reports>>
    /\ UNCHANGED <<tries, stuck, gone, crashes, billed>>

\* Mutant of Due: an item whose POST is outstanding is posted again.
DueInFlight == {s \in Elements(queue) : wait[s] = 0}

\* Mutant of Due: the last retry is never made.
DueNeverLast == {s \in Elements(queue) :
                    ~inFlight[s] /\ wait[s] = 0 /\ attempts[s] < MaxAttempts}

\* The items one drainTick posts.
Due == {s \in Elements(queue) : ~inFlight[s] /\ wait[s] = 0}

\* drainTick: every due item that is not in flight is posted, in one pass.
DrainTick ==
    /\ Due # {}
    /\ inFlight' = [s \in Settles |-> inFlight[s] \/ s \in Due]
    /\ posts' = [s \in Settles |-> posts[s] + (IF s \in Due THEN 1 ELSE 0)]
    /\ tries' = [s \in Settles |-> tries[s] + (IF s \in Due THEN 1 ELSE 0)]
    /\ UNCHANGED <<queue, first, attempts, wait, stuck, acked, reports, gone,
                   crashes, billed>>

\* The continuation of a POST made by drainTick.
RetryDone(s, status) ==
    /\ s \notin first
    /\ Answered(s, status)
    /\ inFlight' = [inFlight EXCEPT ![s] = FALSE]
    /\ \/ /\ classifySettleStatus(status) = "ok"
          /\ queue' = Without(queue, s)
          /\ acked' = acked \cup {s}
          /\ UNCHANGED <<attempts, wait, reports>>
       \/ /\ classifySettleStatus(status) = "permanent"
          /\ queue' = Without(queue, s)
          /\ reports' = Reported(s, "permanent")
          /\ UNCHANGED <<attempts, wait, acked>>
       \/ /\ classifySettleStatus(status) = "transient"
          /\ attempts' = [attempts EXCEPT ![s] = @ + 1]
          /\ \/ /\ GivesUp(attempts[s] + 1)
                /\ queue' = Without(queue, s)
                /\ reports' = Reported(s, "gave_up")
                /\ UNCHANGED wait
             \/ /\ ~GivesUp(attempts[s] + 1)
                /\ wait' = [wait EXCEPT ![s] = backoffMs(attempts[s] + 1)]
                /\ UNCHANGED <<queue, reports>>
          /\ UNCHANGED acked
    /\ UNCHANGED <<first, tries, stuck, gone, crashes, billed>>

\* The peer closes the connection after the status line and before the end of
\* the body: neither 'end' on the response nor 'error' on the request follows,
\* so the promise of settlePostOnce is never resolved.
CutAnswer(s) ==
    /\ posts[s] > 0
    /\ s \notin stuck
    /\ Cardinality(stuck) < MaxCuts
    /\ stuck' = stuck \cup {s}
    /\ UNCHANGED <<queue, first, item, posts, tries, acked, reports, gone,
                   crashes, billed>>

\* One unit of time.
Tick ==
    /\ \E s \in Settles : wait[s] > 0
    /\ wait' = [s \in Settles |-> IF wait[s] > 0 THEN wait[s] - 1 ELSE 0]
    /\ UNCHANGED <<queue, first, attempts, inFlight, posts, tries, stuck, acked,
                   reports, gone, crashes, billed>>

\* External: horse-power debits a settle it has received, once per settle_id,
\* whether or not the POST that carried it is still waited for.
HpDebit(s) ==
    /\ Submitted(s)
    /\ s \notin billed
    /\ billed' = billed \cup {s}
    /\ UNCHANGED <<queue, first, item, posts, tries, stuck, acked, reports, gone,
                   crashes>>

\* The worker process dies: the queue is memory only.
Crash ==
    /\ crashes < MaxCrashes
    /\ crashes' = crashes + 1
    /\ gone' = gone \cup {s \in Settles : posts[s] > 0 \/ s \in Elements(queue)}
    /\ queue' = <<>>
    /\ first' = {}
    /\ posts' = [s \in Settles |-> 0]
    /\ inFlight' = [s \in Settles |-> FALSE]
    /\ UNCHANGED <<attempts, wait, tries, stuck, acked, reports, billed>>

QueueNext ==
    \/ DrainTick
    \/ Tick
    \/ Crash
    \/ \E s \in Settles :
          \/ Submit(s)
          \/ CutAnswer(s)
          \/ HpDebit(s)
          \/ \E status \in Statuses : FirstDone(s, status) \/ RetryDone(s, status)

QueueSpec == QueueInit /\ [][QueueNext]_queueVars

\* The drain timer fires for as long as the worker lives, time passes, and a POST
\* that is not cut off ends: with an answer, an error, or the inactivity timeout.
Fairness ==
    /\ WF_queueVars(DrainTick)
    /\ WF_queueVars(Tick)
    /\ \A s \in Settles :
          WF_queueVars(\E status \in Statuses : FirstDone(s, status) \/ RetryDone(s, status))

FairSpec == QueueSpec /\ Fairness

-----------------------------------------------------------------------------
(* Properties.                                                             *)

TypeOK ==
    /\ queue \in Seq(Settles)
    /\ first \subseteq Settles
    /\ attempts \in [Settles -> Nat]
    /\ wait \in [Settles -> 0..BackoffCap]
    /\ inFlight \in [Settles -> BOOLEAN]
    /\ posts \in [Settles -> Nat]
    /\ tries \in [Settles -> Nat]
    /\ stuck \subseteq Settles
    /\ acked \subseteq Settles
    /\ reports \in [Settles -> Seq(Reasons)]
    /\ gone \subseteq Settles
    /\ crashes \in Nat
    /\ billed \subseteq Settles

\* The settle will be posted, or a POST of it will be answered.
Pending(s) == (posts[s] > 0 /\ s \notin stuck) \/ (s \in Elements(queue) /\ ~inFlight[s])

\* What the queue exists for (settleQueue.mjs header: "A dropped settle = a paid
\* query billed to nobody").  A settle handed to submit is still being worked on,
\* was acknowledged, or its loss was reported; only a crash of the worker and an
\* answer cut off before its end lose one without a word.
NoSilentLoss ==
    \A s \in Settles :
        Submitted(s) => Pending(s) \/ s \in acked \/ reports[s] # <<>>
                                   \/ s \in gone \/ s \in stuck

\* The inFlight flag keeps the drain timer, which fires every 2 s, from posting a
\* settle whose previous POST (15 s timeout) is still open.
AtMostOnePost == \A s \in Settles : posts[s] <= 1

\* The queue never outgrows its cap, whatever order answers arrive in.
QueueBounded == Len(queue) <= Cap

\* A settle is posted once by submit and at most MaxAttempts times by drainTick.
TriesBounded == \A s \in Settles : tries[s] <= MaxAttempts + 1

\* The reporter hears of a settle once, save for one the cap dropped while its
\* POST was open: that one may be reported again, or acknowledged, when the POST
\* ends.  Nothing else is both acknowledged and reported.
ReportsExplained ==
    \A s \in Settles :
        /\ Len(reports[s]) <= 2
        /\ Len(reports[s]) = 2 => reports[s][1] = "dropped" /\ s \notin acked
        /\ s \in acked => reports[s] \in {<<>>, <<"dropped">>}

\* Once a settle is acknowledged or its loss is reported, no step posts it again.
DecidedNeverReposted ==
    [][\A s \in Settles :
          posts'[s] > posts[s] => s \notin acked /\ reports[s] = <<>>]_queueVars

\* Every settle is eventually decided: acknowledged, reported lost or taken by a
\* crash, unless its answer was cut off.
DecidedUnlessCut ==
    \A s \in Settles :
        Submitted(s) ~> (s \in acked \/ reports[s] # <<>> \/ s \in gone \/ s \in stuck)
=============================================================================
