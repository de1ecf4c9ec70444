---------------------------- MODULE WorkerProofs ----------------------------
(***************************************************************************)
(* Proofs about what one worker keeps in its memory: the settlement queue  *)
(* (SettleQueue) and the five memories of WorkerMemory.  The two modules   *)
(* share no variable; each specification is proved about by itself.        *)
(***************************************************************************)
EXTENDS SettleQueue, WorkerMemory, FiniteSetTheorems, TLAPS

-----------------------------------------------------------------------------
(* The settlement queue, for every set of settles, every cap, number of    *)
(* attempts and backoff.                                                   *)
(*                                                                         *)
(* The invariants the code promises are not inductive.  IInv adds what     *)
(* ties the three places a settle can be (submit's POST, the array, a      *)
(* drain's POST) together: the array holds an item once, a settle of       *)
(* submit is not in it, and a POST is open exactly for a settle of submit  *)
(* or an item in flight.                                                   *)

\* The array holds no item twice.
NoDup(q) == \A i, j \in 1..Len(q) : q[i] = q[j] => i = j

\* An open POST is submit's or that of an item in flight.
PostsInv ==
    \A s \in Settles :
        /\ s \in first => ~inFlight[s] /\ posts[s] = 1
        /\ s \notin first => posts[s] = IF inFlight[s] THEN 1 ELSE 0

\* A settle that was never submitted is nowhere.
FreshInv ==
    \A s \in Settles :
        tries[s] = 0 =>
            /\ s \notin first /\ ~inFlight[s] /\ s \notin Elements(queue)
            /\ s \notin acked /\ reports[s] = <<>>

\* What can still be posted by submit or by a drain is undecided.
UndecidedInv ==
    \A s \in Settles :
        s \in first \/ s \in Elements(queue) => s \notin acked /\ reports[s] = <<>>

\* An item in flight is in the array or was dropped from it, with a report.
FlightInv ==
    \A s \in Settles : inFlight[s] => s \in Elements(queue) \/ reports[s] # <<>>

\* The POSTs of a settle are the one of submit and one for each item.attempts.
TriesInv ==
    \A s \in Settles :
        /\ tries[s] <= MaxAttempts + 1
        /\ s \in first => tries[s] = 1
        /\ inFlight[s] => tries[s] = attempts[s] + 1
        /\ s \in Elements(queue) /\ ~inFlight[s] =>
              tries[s] = attempts[s] /\ attempts[s] <= MaxAttempts

IInv ==
    /\ TypeOK
    /\ NoDup(queue)
    /\ first \cap Elements(queue) = {}
    /\ PostsInv
    /\ FreshInv
    /\ UndecidedInv
    /\ FlightInv
    /\ TriesInv
    /\ NoSilentLoss
    /\ QueueBounded

-----------------------------------------------------------------------------
(* Sequences: what Append, Tail and Without do to the items of the array.  *)

\* enqueue adds one item and repeats none.
LEMMA AppendItem ==
    ASSUME NEW q \in Seq(Settles), NEW s \in Settles, NoDup(q), s \notin Elements(q)
    PROVE  /\ Append(q, s) \in Seq(Settles)
           /\ Elements(Append(q, s)) = Elements(q) \cup {s}
           /\ NoDup(Append(q, s))
           /\ Len(Append(q, s)) = Len(q) + 1
BY DEF Elements, NoDup

\* queue.shift() takes the oldest item and no other.
LEMMA TailItem ==
    ASSUME NEW q \in Seq(Settles), NoDup(q), q # <<>>
    PROVE  /\ Head(q) \in Elements(q)
           /\ Head(q) \in Settles
           /\ Tail(q) \in Seq(Settles)
           /\ Elements(Tail(q)) = Elements(q) \ {Head(q)}
           /\ NoDup(Tail(q))
           /\ Len(Tail(q)) = Len(q) - 1
BY DEF Elements, NoDup

\* remove(item) takes that item and no other.
LEMMA WithoutItem ==
    ASSUME NEW q \in Seq(Settles), NEW s \in Settles, NoDup(q)
    PROVE  /\ Without(q, s) \in Seq(Settles)
           /\ Elements(Without(q, s)) = Elements(q) \ {s}
           /\ NoDup(Without(q, s))
           /\ Len(Without(q, s)) <= Len(q)
<1>1. CASE s \notin Elements(q)
  BY <1>1 DEF Without, Elements
<1>2. CASE s \in Elements(q)
  <2> DEFINE i == CHOOSE k \in 1..Len(q) : q[k] = s
             r == [k \in 1..(Len(q) - 1) |-> IF k < i THEN q[k] ELSE q[k + 1]]
  <2>1. Without(q, s) = r
    BY <1>2 DEF Without
  <2>2. i \in 1..Len(q) /\ q[i] = s
    <3>1. \E k \in 1..Len(q) : q[k] = s
      BY <1>2 DEF Elements
    <3> QED
      BY <3>1
  <2> HIDE DEF i
  <2>3. /\ Len(q) \in Nat /\ Len(q) >= 1
        /\ \A k \in 1..Len(q) : q[k] \in Settles
    BY <2>2
  <2>4. r \in Seq(Settles) /\ Len(r) = Len(q) - 1
    BY <2>2, <2>3
  <2>5. \A k \in 1..(Len(q) - 1) : r[k] = IF k < i THEN q[k] ELSE q[k + 1]
    OBVIOUS
  <2> HIDE DEF r
  <2>6. NoDup(r)
    BY <2>2, <2>3, <2>4, <2>5 DEF NoDup
  <2>7. Elements(r) \subseteq Elements(q) \ {s}
    <3> SUFFICES ASSUME NEW k \in 1..(Len(q) - 1) PROVE r[k] \in Elements(q) /\ r[k] # s
      BY <2>4 DEF Elements
    <3>1. CASE k < i
      <4>1. k \in 1..Len(q) /\ r[k] = q[k] /\ k # i
        BY <3>1, <2>2, <2>3, <2>5
      <4> QED
        BY <4>1, <2>2 DEF NoDup, Elements
    <3>2. CASE ~(k < i)
      <4>1. k + 1 \in 1..Len(q) /\ k + 1 # i
        BY <3>2, <2>2, <2>3
      <4>2. r[k] = q[k + 1]
        BY <3>2, <2>5
      <4> QED
        BY <4>1, <4>2, <2>2 DEF NoDup, Elements
    <3> QED
      BY <3>1, <3>2
  <2>8. Elements(q) \ {s} \subseteq Elements(r)
    <3> SUFFICES ASSUME NEW k \in 1..Len(q), q[k] # s
                 PROVE  q[k] \in Elements(r)
      BY DEF Elements
    <3>1. CASE k < i
      <4>1. k \in 1..(Len(q) - 1) /\ r[k] = q[k]
        BY <3>1, <2>2, <2>3, <2>5
      <4> QED
        BY <4>1, <2>4 DEF Elements
    <3>2. CASE k > i
      <4>1. PICK j \in 1..(Len(q) - 1) : j + 1 = k /\ ~(j < i)
        <5>1. k - 1 \in 1..(Len(q) - 1) /\ (k - 1) + 1 = k /\ ~(k - 1 < i)
          BY <3>2, <2>2, <2>3
        <5> QED
          BY <5>1
      <4>2. r[j] = q[k]
        BY <4>1, <2>5
      <4> QED
        BY <4>1, <4>2, <2>4 DEF Elements
    <3> QED
      BY <3>1, <3>2, <2>2
  <2> QED
    BY <2>1, <2>3, <2>4, <2>6, <2>7, <2>8
<1> QED
  BY <1>1, <1>2

\* The clamped backoff is a time within its cap, whatever the power is.
LEMMA BackoffInCap ==
    ASSUME NEW n \in Nat
    PROVE  backoffMs(n) \in 0..BackoffCap
BY SettleQueueAssumption DEF backoffMs

-----------------------------------------------------------------------------
(* IInv is inductive: one lemma per action.                                *)

\* Nothing is submitted when a worker starts.
LEMMA InitIInv == QueueInit => IInv
<1> SUFFICES ASSUME QueueInit PROVE IInv
  OBVIOUS
<1> USE SettleQueueAssumption
<1>1. Elements(queue) = {} /\ NoDup(queue) /\ Len(queue) = 0
  BY DEF QueueInit, Elements, NoDup
<1>2. TypeOK
  BY DEF QueueInit, TypeOK
<1>3. PostsInv /\ FreshInv /\ UndecidedInv /\ FlightInv /\ TriesInv
  BY <1>1 DEF QueueInit, PostsInv, FreshInv, UndecidedInv, FlightInv, TriesInv
<1>4. NoSilentLoss /\ QueueBounded
  BY <1>1 DEF QueueInit, NoSilentLoss, QueueBounded, Submitted
<1> QED
  BY <1>1, <1>2, <1>3, <1>4 DEF IInv

\* submit opens the one POST of a settle that was nowhere.
LEMMA SubmitIInv ==
    ASSUME IInv, NEW s \in Settles, Submit(s)
    PROVE  IInv'
<1> USE SettleQueueAssumption DEF IInv, Submit, item
<1>1. TypeOK'
  BY DEF TypeOK
<1>2. Elements(queue)' = Elements(queue) /\ NoDup(queue)'
  BY DEF Elements, NoDup
<1>3. s \notin first /\ ~inFlight[s] /\ s \notin Elements(queue)
  BY DEF FreshInv
<1>4. (first \cap Elements(queue) = {})'
  BY <1>2, <1>3
<1>5. PostsInv'
  BY <1>3 DEF PostsInv, TypeOK
<1>6. FreshInv'
  BY <1>2, <1>3 DEF FreshInv, TypeOK
<1>7. UndecidedInv'
  BY <1>2 DEF UndecidedInv, FreshInv, TypeOK
<1>8. FlightInv'
  BY <1>2 DEF FlightInv, TypeOK
<1>9. TriesInv'
  BY <1>2, <1>3 DEF TriesInv, TypeOK
<1>10. NoSilentLoss'
  BY <1>2 DEF NoSilentLoss, Pending, Submitted, TypeOK
<1>11. QueueBounded'
  BY DEF QueueBounded
<1> QED
  BY <1>1, <1>2, <1>4, <1>5, <1>6, <1>7, <1>8, <1>9, <1>10, <1>11

\* drainTick opens a POST only for items that have none.
LEMMA DrainTickIInv ==
    ASSUME IInv, DrainTick
    PROVE  IInv'
<1> USE SettleQueueAssumption DEF IInv, DrainTick
<1>1. TypeOK'
  BY DEF TypeOK
<1>2. Elements(queue)' = Elements(queue) /\ NoDup(queue)'
  BY DEF Elements, NoDup
<1>3. \A s \in Settles : s \in Due => s \in Elements(queue) /\ ~inFlight[s] /\ s \notin first
  BY DEF Due
<1> HIDE DEF Due
<1>a. \A s \in Settles : s \in Due =>
          inFlight'[s] /\ posts'[s] = posts[s] + 1 /\ tries'[s] = tries[s] + 1
  BY DEF TypeOK
<1>b. \A s \in Settles : s \notin Due =>
          (inFlight'[s] <=> inFlight[s]) /\ posts'[s] = posts[s] /\ tries'[s] = tries[s]
  BY DEF TypeOK
<1>4. PostsInv'
  <2> SUFFICES ASSUME NEW s \in Settles
               PROVE  /\ s \in first' => ~inFlight'[s] /\ posts'[s] = 1
                      /\ s \notin first' => posts'[s] = IF inFlight'[s] THEN 1 ELSE 0
    BY DEF PostsInv
  <2>1. CASE s \in Due
    BY <2>1, <1>3, <1>a DEF PostsInv
  <2>2. CASE s \notin Due
    BY <2>2, <1>b DEF PostsInv
  <2> QED
    BY <2>1, <2>2
<1>5. FreshInv'
  BY <1>2, <1>3 DEF FreshInv, TypeOK
<1>6. UndecidedInv'
  BY <1>2 DEF UndecidedInv
<1>7. FlightInv'
  BY <1>2, <1>3 DEF FlightInv, TypeOK
<1>8. TriesInv'
  <2> SUFFICES ASSUME NEW s \in Settles
               PROVE  /\ tries'[s] <= MaxAttempts + 1
                      /\ s \in first' => tries'[s] = 1
                      /\ inFlight'[s] => tries'[s] = attempts'[s] + 1
                      /\ s \in Elements(queue)' /\ ~inFlight'[s] =>
                            tries'[s] = attempts'[s] /\ attempts'[s] <= MaxAttempts
    BY DEF TriesInv
  <2>1. CASE s \in Due
    BY <2>1, <1>3, <1>a DEF TriesInv, TypeOK
  <2>2. CASE s \notin Due
    BY <2>2, <1>2, <1>b DEF TriesInv
  <2> QED
    BY <2>1, <2>2
<1>9. NoSilentLoss'
  <2> SUFFICES ASSUME NEW s \in Settles, tries'[s] > 0
               PROVE  \/ Pending(s)' \/ s \in acked' \/ reports'[s] # <<>>
                      \/ s \in gone' \/ s \in stuck'
    BY DEF NoSilentLoss, Submitted
  <2>1. CASE s \in Due
    BY <2>1, <1>3 DEF Pending, PostsInv, TypeOK
  <2>2. CASE s \notin Due
    BY <2>2, <1>2 DEF NoSilentLoss, Pending, Submitted, TypeOK
  <2> QED
    BY <2>1, <2>2
<1>10. QueueBounded'
  BY DEF QueueBounded
<1> QED
  BY <1>1, <1>2, <1>4, <1>5, <1>6, <1>7, <1>8, <1>9, <1>10

\* Time, horse-power's debit and a cut answer move no settle.
LEMMA QuietIInv ==
    ASSUME IInv, \/ Tick \/ UNCHANGED queueVars
                 \/ \E s \in Settles : CutAnswer(s) \/ HpDebit(s)
    PROVE  IInv'
<1> USE SettleQueueAssumption
<1>1. /\ UNCHANGED <<queue, first, attempts, inFlight, posts, tries, acked, reports,
                     gone, crashes>>
      /\ stuck \subseteq stuck' /\ stuck' \subseteq Settles
      /\ billed' \subseteq Settles
      /\ wait' \in [Settles -> 0..BackoffCap]
  <2>1. CASE Tick
    <3>1. wait \in [Settles -> 0..BackoffCap]
      BY DEF IInv, TypeOK
    <3>2. \A s \in Settles : (IF wait[s] > 0 THEN wait[s] - 1 ELSE 0) \in 0..BackoffCap
      BY <3>1
    <3>3. wait' \in [Settles -> 0..BackoffCap]
      BY <2>1, <3>2 DEF Tick
    <3> QED
      BY <2>1, <3>3 DEF Tick, IInv, TypeOK
  <2>2. CASE UNCHANGED queueVars
    BY <2>2 DEF queueVars, IInv, TypeOK
  <2>3. CASE \E s \in Settles : CutAnswer(s) \/ HpDebit(s)
    BY <2>3 DEF CutAnswer, HpDebit, item, IInv, TypeOK
  <2> QED
    BY <2>1, <2>2, <2>3
<1>2. Elements(queue)' = Elements(queue) /\ NoDup(queue)'
  BY <1>1 DEF Elements, NoDup, IInv
<1>3. TypeOK' /\ QueueBounded'
  BY <1>1 DEF IInv, TypeOK, QueueBounded
<1>4. PostsInv' /\ FreshInv' /\ UndecidedInv' /\ FlightInv' /\ TriesInv'
  BY <1>1, <1>2 DEF IInv, PostsInv, FreshInv, UndecidedInv, FlightInv, TriesInv
<1>5. NoSilentLoss'
  BY <1>1, <1>2 DEF IInv, NoSilentLoss, Pending, Submitted
<1> QED
  BY <1>1, <1>2, <1>3, <1>4, <1>5 DEF IInv

\* A crash empties the memory and records who was in it.
LEMMA CrashIInv ==
    ASSUME IInv, Crash
    PROVE  IInv'
<1> USE SettleQueueAssumption DEF Crash
<1>1. Elements(queue)' = {} /\ NoDup(queue)' /\ Len(queue)' = 0
  BY DEF Elements, NoDup
<1>2. TypeOK'
  BY DEF IInv, TypeOK
<1>3. QueueBounded'
  BY <1>1 DEF QueueBounded
<1>4. PostsInv' /\ FreshInv' /\ UndecidedInv' /\ FlightInv' /\ TriesInv'
  BY <1>1 DEF IInv, PostsInv, FreshInv, UndecidedInv, FlightInv, TriesInv
<1>5. NoSilentLoss'
  BY <1>1 DEF IInv, NoSilentLoss, Pending, Submitted
<1> QED
  BY <1>1, <1>2, <1>3, <1>4, <1>5 DEF IInv

\* Enqueue puts the settle of a failed first POST at the end; a full array loses its
\* oldest item, which is reported.
LEMMA EnqueueEffect ==
    ASSUME IInv, NEW s \in Settles, s \in first, Enqueue(s)
    PROVE  /\ queue' \in Seq(Settles) /\ NoDup(queue)' /\ QueueBounded'
           /\ s \in Elements(queue)'
           /\ reports' \in [Settles -> Seq(Reasons)]
           /\ reports'[s] = reports[s]
           /\ \A t \in Settles \ {s} :
                 \/ /\ t \in Elements(queue)' <=> t \in Elements(queue)
                    /\ reports'[t] = reports[t]
                 \/ /\ t \in Elements(queue) /\ t \notin Elements(queue)'
                    /\ reports'[t] # <<>> /\ reports'[t] = <<"dropped">>
<1> USE SettleQueueAssumption
<1>1. queue \in Seq(Settles) /\ NoDup(queue) /\ s \notin Elements(queue)
      /\ reports \in [Settles -> Seq(Reasons)] /\ Len(queue) <= Cap
  BY DEF IInv, TypeOK, QueueBounded
<1>2. CASE Full
  <2>1. queue # <<>>
    BY <1>2, <1>1 DEF Full
  <2> DEFINE h == Head(queue)
  <2>2. /\ h \in Settles /\ h \in Elements(queue) /\ h # s
        /\ Tail(queue) \in Seq(Settles) /\ NoDup(Tail(queue))
        /\ Elements(Tail(queue)) = Elements(queue) \ {h}
        /\ Len(Tail(queue)) = Len(queue) - 1
    BY <1>1, <2>1, TailItem
  <2>3. queue' = Append(Tail(queue), s) /\ reports' = Reported(h, "dropped")
    BY <1>2 DEF Enqueue
  <2> HIDE DEF h
  <2>4. /\ queue' \in Seq(Settles) /\ NoDup(queue)'
        /\ Elements(queue)' = (Elements(queue) \ {h}) \cup {s}
        /\ Len(queue)' = Len(queue)
    <3>1. s \notin Elements(Tail(queue))
      BY <1>1, <2>2
    <3>2. /\ Append(Tail(queue), s) \in Seq(Settles)
          /\ Elements(Append(Tail(queue), s)) = Elements(Tail(queue)) \cup {s}
          /\ NoDup(Append(Tail(queue), s))
          /\ Len(Append(Tail(queue), s)) = Len(Tail(queue)) + 1
      BY <2>2, <3>1, AppendItem
    <3>3. /\ Elements(queue)' = Elements(Append(Tail(queue), s))
          /\ NoDup(queue)' <=> NoDup(Append(Tail(queue), s))
      BY <2>3 DEF Elements, NoDup
    <3>4. Len(Tail(queue)) + 1 = Len(queue)
      BY <1>1, <2>2
    <3> QED
      BY <3>2, <3>3, <3>4, <2>2, <2>3
  <2>5. /\ reports' \in [Settles -> Seq(Reasons)]
        /\ reports'[h] # <<>> /\ reports'[h] = <<"dropped">>
        /\ \A t \in Settles \ {h} : reports'[t] = reports[t]
    <3>1. "dropped" \in Reasons /\ reports[h] = <<>>
      BY <1>1, <2>2 DEF Reasons, IInv, UndecidedInv
    <3>2. /\ Append(reports[h], "dropped") \in Seq(Reasons)
          /\ Append(reports[h], "dropped") # <<>>
          /\ Append(reports[h], "dropped") = <<"dropped">>
      BY <3>1
    <3> QED
      BY <1>1, <2>2, <2>3, <3>2 DEF Reported
  <2> QED
    BY <1>1, <2>2, <2>4, <2>5 DEF QueueBounded
<1>3. CASE ~Full
  <2>1. queue' = Append(queue, s) /\ reports' = reports
    BY <1>3 DEF Enqueue
  <2>2. /\ queue' \in Seq(Settles) /\ NoDup(queue)'
        /\ Elements(queue)' = Elements(queue) \cup {s}
        /\ Len(queue)' = Len(queue) + 1
    BY <1>1, <2>1, AppendItem DEF Elements, NoDup
  <2> QED
    BY <1>1, <1>3, <2>1, <2>2 DEF QueueBounded, Full
<1> QED
  BY <1>2, <1>3

\* A report is one more word about one settle.
LEMMA ReportedEffect ==
    ASSUME reports \in [Settles -> Seq(Reasons)], NEW s \in Settles, NEW r \in Reasons
    PROVE  /\ Reported(s, r) \in [Settles -> Seq(Reasons)]
           /\ Reported(s, r)[s] # <<>>
           /\ \A t \in Settles \ {s} : Reported(s, r)[t] = reports[t]
<1>1. Append(reports[s], r) \in Seq(Reasons) /\ Append(reports[s], r) # <<>>
  OBVIOUS
<1> QED
  BY <1>1 DEF Reported

\* The end of submit's POST: the settle is acknowledged, reported, or in the array.
LEMMA FirstDoneIInv ==
    ASSUME IInv, NEW s \in Settles, NEW status \in Statuses, FirstDone(s, status)
    PROVE  IInv'
<1> USE SettleQueueAssumption
<1>1. /\ s \in first /\ first' = first \ {s} /\ posts' = [posts EXCEPT ![s] = @ - 1]
      /\ UNCHANGED <<tries, stuck, gone, crashes, billed>>
  BY DEF FirstDone, Answered
<1>2. /\ TypeOK /\ NoDup(queue) /\ posts[s] = 1 /\ ~inFlight[s] /\ tries[s] = 1
      /\ s \notin Elements(queue) /\ s \notin acked /\ reports[s] = <<>>
  BY <1>1 DEF IInv, PostsInv, TriesInv, UndecidedInv
<1>3. /\ posts' \in [Settles -> Nat] /\ posts'[s] = 0
      /\ \A t \in Settles \ {s} : posts'[t] = posts[t]
  BY <1>1, <1>2 DEF TypeOK
<1>4. CASE Enqueue(s) /\ UNCHANGED acked
  <2>1. /\ queue' \in Seq(Settles) /\ NoDup(queue)' /\ QueueBounded'
        /\ s \in Elements(queue)'
        /\ reports' \in [Settles -> Seq(Reasons)]
        /\ reports'[s] = <<>>
        /\ \A t \in Settles \ {s} :
              \/ (t \in Elements(queue)' <=> t \in Elements(queue)) /\ reports'[t] = reports[t]
              \/ t \in Elements(queue) /\ t \notin Elements(queue)' /\ reports'[t] # <<>>
    BY <1>1, <1>2, <1>4, EnqueueEffect
  <2>2. /\ attempts' \in [Settles -> Nat] /\ inFlight' \in [Settles -> BOOLEAN]
        /\ attempts'[s] = 1 /\ ~inFlight'[s]
        /\ \A t \in Settles \ {s} : attempts'[t] = attempts[t] /\ inFlight'[t] = inFlight[t]
    BY <1>2, <1>4 DEF Enqueue, TypeOK
  <2>3. wait' \in [Settles -> 0..BackoffCap]
    BY <1>2, <1>4, BackoffInCap DEF Enqueue, TypeOK
  <2>4. TypeOK'
    BY <1>1, <1>2, <1>3, <1>4, <2>1, <2>2, <2>3 DEF TypeOK
  <2>5. (first \cap Elements(queue) = {})'
    BY <1>1, <1>2, <2>1 DEF IInv, TypeOK
  <2>6. PostsInv'
    BY <1>1, <1>3, <2>2 DEF IInv, PostsInv
  <2>7. FreshInv'
    BY <1>1, <1>2, <1>4, <2>1, <2>2 DEF IInv, FreshInv
  <2>8. UndecidedInv'
    <3> SUFFICES ASSUME NEW t \in Settles, t \in first' \/ t \in Elements(queue)'
                 PROVE  t \notin acked' /\ reports'[t] = <<>>
      BY DEF UndecidedInv
    <3>1. CASE t = s
      BY <3>1, <1>2, <1>4, <2>1
    <3>2. CASE t # s
      BY <3>2, <1>1, <1>4, <2>1 DEF IInv, UndecidedInv
    <3> QED
      BY <3>1, <3>2
  <2>9. FlightInv'
    BY <2>1, <2>2 DEF IInv, FlightInv
  <2>10. TriesInv'
    <3> SUFFICES ASSUME NEW t \in Settles
                 PROVE  /\ tries'[t] <= MaxAttempts + 1
                        /\ t \in first' => tries'[t] = 1
                        /\ inFlight'[t] => tries'[t] = attempts'[t] + 1
                        /\ t \in Elements(queue)' /\ ~inFlight'[t] =>
                              tries'[t] = attempts'[t] /\ attempts'[t] <= MaxAttempts
      BY DEF TriesInv
    <3>1. CASE t = s
      BY <3>1, <1>1, <1>2, <2>2
    <3>2. CASE t # s
      BY <3>2, <1>1, <2>1, <2>2 DEF IInv, TriesInv
    <3> QED
      BY <3>1, <3>2
  <2>11. NoSilentLoss'
    <3> SUFFICES ASSUME NEW t \in Settles, tries'[t] > 0
                 PROVE  \/ Pending(t)' \/ t \in acked' \/ reports'[t] # <<>>
                        \/ t \in gone' \/ t \in stuck'
      BY DEF NoSilentLoss, Submitted
    <3>1. CASE t = s
      BY <3>1, <2>1, <2>2 DEF Pending
    <3>2. CASE t # s
      BY <3>2, <1>1, <1>3, <1>4, <2>1, <2>2 DEF IInv, NoSilentLoss, Submitted, Pending
    <3> QED
      BY <3>1, <3>2
  <2> QED
    BY <2>1, <2>4, <2>5, <2>6, <2>7, <2>8, <2>9, <2>10, <2>11 DEF IInv
<1>5. CASE /\ UNCHANGED <<queue, item>>
           /\ \/ reports' = Reported(s, "permanent") /\ UNCHANGED acked
              \/ acked' = acked \cup {s} /\ UNCHANGED reports
  <2>1. /\ reports' \in [Settles -> Seq(Reasons)]
        /\ acked' \subseteq Settles
        /\ s \in acked' \/ reports'[s] # <<>>
        /\ \A t \in Settles \ {s} : reports'[t] = reports[t] /\ (t \in acked' <=> t \in acked)
    <3>1. "permanent" \in Reasons
      BY DEF Reasons
    <3>2. CASE reports' = Reported(s, "permanent") /\ UNCHANGED acked
      BY <1>2, <3>1, <3>2, ReportedEffect DEF TypeOK
    <3>3. CASE acked' = acked \cup {s} /\ UNCHANGED reports
      BY <1>2, <3>3 DEF TypeOK
    <3> QED
      BY <1>5, <3>2, <3>3
  <2>2. Elements(queue)' = Elements(queue) /\ NoDup(queue)' /\ QueueBounded'
        /\ UNCHANGED <<queue, attempts, wait, inFlight>>
    BY <1>5 DEF IInv, Elements, NoDup, QueueBounded, item
  <2>3. TypeOK'
    BY <1>1, <1>2, <1>3, <2>1, <2>2 DEF TypeOK
  <2>4. (first \cap Elements(queue) = {})'
    BY <1>1, <2>2 DEF IInv
  <2>5. PostsInv'
    BY <1>1, <1>2, <1>3, <2>2 DEF IInv, PostsInv
  <2>6. FreshInv' /\ TriesInv'
    BY <1>1, <1>2, <2>1, <2>2 DEF IInv, FreshInv, TriesInv
  <2>7. UndecidedInv' /\ FlightInv'
    BY <1>1, <1>2, <2>1, <2>2 DEF IInv, UndecidedInv, FlightInv
  <2>8. NoSilentLoss'
    BY <1>1, <1>3, <2>1, <2>2 DEF IInv, NoSilentLoss, Submitted, Pending
  <2> QED
    BY <2>2, <2>3, <2>4, <2>5, <2>6, <2>7, <2>8 DEF IInv
<1> QED
  BY <1>4, <1>5 DEF FirstDone

\* The end of a drain's POST: the settle leaves the array with a word, or waits in it
\* for its next turn; one that was dropped meanwhile has had its word.
LEMMA RetryDoneIInv ==
    ASSUME IInv, NEW s \in Settles, NEW status \in Statuses, RetryDone(s, status)
    PROVE  IInv'
<1> USE SettleQueueAssumption
<1>1. /\ s \notin first /\ posts[s] > 0 /\ posts' = [posts EXCEPT ![s] = @ - 1]
      /\ inFlight' = [inFlight EXCEPT ![s] = FALSE]
      /\ UNCHANGED <<first, tries, stuck, gone, crashes, billed>>
  BY DEF RetryDone, Answered
<1>2. TypeOK /\ NoDup(queue) /\ posts[s] = 1 /\ inFlight[s] /\ tries[s] = attempts[s] + 1
  BY <1>1 DEF IInv, PostsInv, TriesInv
<1>3. /\ posts' \in [Settles -> Nat] /\ posts'[s] = 0
      /\ inFlight' \in [Settles -> BOOLEAN] /\ ~inFlight'[s]
      /\ \A t \in Settles \ {s} : posts'[t] = posts[t] /\ inFlight'[t] = inFlight[t]
  BY <1>1, <1>2 DEF TypeOK
<1>4. tries[s] > 0 /\ tries[s] <= MaxAttempts + 1
  BY <1>2 DEF TypeOK, IInv, TriesInv
<1>5. PostsInv'
  BY <1>1, <1>3 DEF IInv, PostsInv
<1>6. CASE /\ queue' = Without(queue, s)
           /\ attempts' \in [Settles -> Nat] /\ UNCHANGED wait
           /\ \A t \in Settles \ {s} : attempts'[t] = attempts[t]
           /\ \/ acked' = acked \cup {s} /\ UNCHANGED reports
              \/ UNCHANGED acked /\ \E r \in Reasons : reports' = Reported(s, r)
  <2>1. /\ reports' \in [Settles -> Seq(Reasons)]
        /\ acked' \subseteq Settles
        /\ s \in acked' \/ reports'[s] # <<>>
        /\ \A t \in Settles \ {s} : reports'[t] = reports[t] /\ (t \in acked' <=> t \in acked)
    <3>1. CASE acked' = acked \cup {s} /\ UNCHANGED reports
      BY <1>2, <3>1 DEF TypeOK
    <3>2. CASE UNCHANGED acked /\ \E r \in Reasons : reports' = Reported(s, r)
      BY <1>2, <3>2, ReportedEffect DEF TypeOK
    <3> QED
      BY <1>6, <3>1, <3>2
  <2>2. /\ queue' \in Seq(Settles) /\ NoDup(queue)' /\ QueueBounded'
        /\ Elements(queue)' = Elements(queue) \ {s}
    <3>1. queue \in Seq(Settles) /\ Len(queue) <= Cap
      BY <1>2 DEF TypeOK, IInv, QueueBounded
    <3>2. /\ Without(queue, s) \in Seq(Settles)
          /\ Elements(Without(queue, s)) = Elements(queue) \ {s}
          /\ NoDup(Without(queue, s))
          /\ Len(Without(queue, s)) <= Len(queue)
      BY <3>1, <1>2, WithoutItem
    <3>3. /\ Elements(queue)' = Elements(Without(queue, s))
          /\ NoDup(queue)' <=> NoDup(Without(queue, s))
      BY <1>6 DEF Elements, NoDup
    <3> QED
      BY <1>6, <3>1, <3>2, <3>3 DEF QueueBounded
  <2>3. TypeOK'
    <3>1. TypeOK
      BY <1>2
    <3> QED
      BY <3>1, <1>1, <1>3, <1>6, <2>1, <2>2 DEF TypeOK
  <2>4. (first \cap Elements(queue) = {})'
    BY <1>1, <2>2 DEF IInv
  <2>5. FreshInv'
    <3>1. FreshInv /\ tries' = tries /\ first' = first /\ tries[s] # 0
      BY <1>1, <1>4 DEF IInv
    <3>2. \A t \in Settles : t # s => (t \in Elements(queue)' <=> t \in Elements(queue))
      BY <2>2
    <3> QED
      BY <3>1, <3>2, <1>3, <2>1 DEF FreshInv
  <2>6. UndecidedInv' /\ FlightInv'
    BY <1>1, <1>3, <2>1, <2>2 DEF IInv, UndecidedInv, FlightInv
  <2>7. TriesInv'
    BY <1>1, <1>3, <1>4, <1>6, <2>2 DEF IInv, TriesInv
  <2>8. NoSilentLoss'
    BY <1>1, <1>3, <2>1, <2>2 DEF IInv, NoSilentLoss, Submitted, Pending
  <2> QED
    BY <1>5, <2>2, <2>3, <2>4, <2>5, <2>6, <2>7, <2>8 DEF IInv
<1>7. CASE /\ UNCHANGED <<queue, reports, acked>>
           /\ attempts' = [attempts EXCEPT ![s] = @ + 1]
           /\ ~GivesUp(attempts[s] + 1)
           /\ wait' = [wait EXCEPT ![s] = backoffMs(attempts[s] + 1)]
  <2>1. Elements(queue)' = Elements(queue) /\ NoDup(queue)' /\ QueueBounded'
    BY <1>2, <1>7 DEF IInv, Elements, NoDup, QueueBounded
  <2>2. /\ attempts' \in [Settles -> Nat] /\ attempts'[s] = attempts[s] + 1
        /\ attempts'[s] <= MaxAttempts
        /\ \A t \in Settles \ {s} : attempts'[t] = attempts[t]
    BY <1>2, <1>7 DEF TypeOK, GivesUp
  <2>3. wait' \in [Settles -> 0..BackoffCap]
    <3>1. attempts[s] + 1 \in Nat
      BY <1>2 DEF TypeOK
    <3>2. backoffMs(attempts[s] + 1) \in 0..BackoffCap
      BY <3>1, BackoffInCap
    <3> QED
      BY <1>2, <1>7, <3>2 DEF TypeOK
  <2>4. TypeOK'
    BY <1>1, <1>2, <1>3, <1>7, <2>2, <2>3 DEF TypeOK
  <2>5. (first \cap Elements(queue) = {})'
    BY <1>1, <2>1 DEF IInv
  <2>6. FreshInv'
    BY <1>1, <1>3, <1>4, <1>7, <2>1 DEF IInv, FreshInv
  <2>7. UndecidedInv' /\ FlightInv'
    BY <1>1, <1>3, <1>7, <2>1 DEF IInv, UndecidedInv, FlightInv
  <2>8. TriesInv'
    <3> SUFFICES ASSUME NEW t \in Settles
                 PROVE  /\ tries'[t] <= MaxAttempts + 1
                        /\ t \in first' => tries'[t] = 1
                        /\ inFlight'[t] => tries'[t] = attempts'[t] + 1
                        /\ t \in Elements(queue)' /\ ~inFlight'[t] =>
                              tries'[t] = attempts'[t] /\ attempts'[t] <= MaxAttempts
      BY DEF TriesInv
    <3>1. CASE t = s
      BY <3>1, <1>1, <1>2, <1>3, <1>4, <2>2
    <3>2. CASE t # s
      BY <3>2, <1>1, <1>3, <2>1, <2>2 DEF IInv, TriesInv
    <3> QED
      BY <3>1, <3>2
  <2>9. NoSilentLoss'
    <3> SUFFICES ASSUME NEW t \in Settles, tries'[t] > 0
                 PROVE  \/ Pending(t)' \/ t \in acked' \/ reports'[t] # <<>>
                        \/ t \in gone' \/ t \in stuck'
      BY DEF NoSilentLoss, Submitted
    <3>1. CASE t = s
      BY <3>1, <1>2, <1>3, <1>7, <2>1 DEF Pending, IInv, FlightInv
    <3>2. CASE t # s
      BY <3>2, <1>1, <1>3, <1>7, <2>1 DEF IInv, NoSilentLoss, Submitted, Pending
    <3> QED
      BY <3>1, <3>2
  <2> QED
    BY <1>5, <2>1, <2>4, <2>5, <2>6, <2>7, <2>8, <2>9 DEF IInv
<1>8. /\ "permanent" \in Reasons /\ "gave_up" \in Reasons
      /\ attempts \in [Settles -> Nat]
      /\ [attempts EXCEPT ![s] = @ + 1] \in [Settles -> Nat]
  BY <1>2 DEF Reasons, TypeOK
<1>9. CASE /\ queue' = Without(queue, s)
            /\ acked' = acked \cup {s}
            /\ UNCHANGED <<attempts, wait, reports>>
  BY <1>6, <1>8, <1>9
<1>10. CASE /\ queue' = Without(queue, s)
            /\ reports' = Reported(s, "permanent")
            /\ UNCHANGED <<attempts, wait, acked>>
  BY <1>6, <1>8, <1>10
<1>11. CASE /\ attempts' = [attempts EXCEPT ![s] = @ + 1]
            /\ queue' = Without(queue, s)
            /\ reports' = Reported(s, "gave_up")
            /\ UNCHANGED <<wait, acked>>
  BY <1>6, <1>8, <1>11
<1> QED
  BY <1>7, <1>9, <1>10, <1>11 DEF RetryDone

-----------------------------------------------------------------------------
(* The invariant and what follows from it.                                 *)

\* Every step of a worker, of time, of horse-power or of the network keeps IInv.
LEMMA NextIInv == IInv /\ [QueueNext]_queueVars => IInv'
BY SubmitIInv, DrainTickIInv, QuietIInv, CrashIInv, FirstDoneIInv, RetryDoneIInv DEF QueueNext

\* IInv is an invariant of the settle queue.
THEOREM Inductive == QueueSpec => []IInv
BY InitIInv, NextIInv, PTL DEF QueueSpec

\* Every variable keeps its type; a waiting time never exceeds the cap of backoffMs.
THEOREM TypeCorrect == QueueSpec => []TypeOK
<1>1. IInv => TypeOK
  BY DEF IInv
<1> QED
  BY <1>1, Inductive, PTL

\* A settle handed to submit is worked on, acknowledged or reported, unless a crash
\* or a cut answer took it.
THEOREM NothingLostSilently == QueueSpec => []NoSilentLoss
<1>1. IInv => NoSilentLoss
  BY DEF IInv
<1> QED
  BY <1>1, Inductive, PTL

\* The drain timer never posts a settle whose POST is open.
THEOREM OnePostAtATime == QueueSpec => []AtMostOnePost
<1>1. IInv => AtMostOnePost
  BY DEF IInv, PostsInv, AtMostOnePost
<1> QED
  BY <1>1, Inductive, PTL

\* The array never outgrows its cap.
THEOREM QueueStaysBounded == QueueSpec => []QueueBounded
<1>1. IInv => QueueBounded
  BY DEF IInv
<1> QED
  BY <1>1, Inductive, PTL

\* A settle is posted at most once by submit and MaxAttempts times by drainTick.
THEOREM TriesStayBounded == QueueSpec => []TriesBounded
<1>1. IInv => TriesBounded
  BY DEF IInv, TriesInv, TriesBounded
<1> QED
  BY <1>1, Inductive, PTL

\* No step posts a settle that was acknowledged or reported lost.
THEOREM NeverReposted == QueueSpec => DecidedNeverReposted
<1> DEFINE Undecided(s) == posts'[s] > posts[s] => s \notin acked /\ reports[s] = <<>>
<1>1. ASSUME IInv, [QueueNext]_queueVars, NEW s \in Settles
      PROVE  Undecided(s)
  <2> USE DEF IInv
  <2>1. ASSUME NEW t \in Settles, Submit(t) PROVE Undecided(s)
    BY <1>1, <2>1 DEF Submit, FreshInv, TypeOK
  <2>2. CASE DrainTick
    BY <1>1, <2>2 DEF DrainTick, Due, UndecidedInv, TypeOK
  <2>3. CASE Crash
    BY <1>1, <2>3 DEF Crash, TypeOK
  <2>4. ASSUME NEW t \in Settles, NEW status \in Statuses,
               FirstDone(t, status) \/ RetryDone(t, status)
        PROVE  Undecided(s)
    <3>1. posts[t] > 0 /\ posts' = [posts EXCEPT ![t] = @ - 1]
      BY <2>4 DEF FirstDone, RetryDone, Answered
    <3>2. posts \in [Settles -> Nat]
      BY <1>1 DEF TypeOK
    <3>3. ~(posts'[s] > posts[s])
      BY <3>1, <3>2
    <3> QED
      BY <3>3
  <2>5. CASE Tick \/ UNCHANGED queueVars \/ \E t \in Settles : CutAnswer(t) \/ HpDebit(t)
    BY <1>1, <2>5 DEF Tick, queueVars, CutAnswer, HpDebit, TypeOK
  <2> QED
    BY <1>1, <2>1, <2>2, <2>3, <2>4, <2>5 DEF QueueNext
<1>2. IInv /\ [QueueNext]_queueVars => [\A s \in Settles : Undecided(s)]_queueVars
  BY <1>1
<1> QED
  BY <1>2, Inductive, PTL DEF QueueSpec, DecidedNeverReposted

-----------------------------------------------------------------------------
(* Who hears of a lost settle, and how often.                              *)

\* An item in flight that is not in the array was dropped, and nothing else is known
\* of it.
ReportsInv ==
    \A s \in Settles :
        /\ \/ reports[s] = <<>>
           \/ reports[s] \in {<<r>> : r \in Reasons}
           \/ s \notin acked /\ reports[s] \in {<<"dropped", r>> : r \in Reasons}
        /\ s \in acked => reports[s] \in {<<>>, <<"dropped">>}
        /\ inFlight[s] /\ s \notin Elements(queue) =>
              reports[s] = <<"dropped">> /\ s \notin acked

\* One more report about a settle that is undecided, or that was only dropped.
LEMMA OneMoreReport ==
    ASSUME reports \in [Settles -> Seq(Reasons)], NEW s \in Settles, NEW r \in Reasons
    PROVE  /\ reports[s] = <<>> => Reported(s, r)[s] = <<r>>
           /\ reports[s] = <<"dropped">> => Reported(s, r)[s] = <<"dropped", r>>
<1>1. Append(<<>>, r) = <<r>>
  OBVIOUS
<1>2. Append(<<"dropped">>, r) = <<"dropped", r>>
  <2>1. "dropped" \in Reasons
    BY DEF Reasons
  <2>2. <<"dropped">> \in Seq(Reasons) /\ Len(<<"dropped">>) = 1 /\ <<"dropped">>[1] = "dropped"
    BY <2>1
  <2>3. ASSUME NEW q \in Seq(Reasons), Len(q) = 1, q[1] = "dropped"
        PROVE  Append(q, r) = <<"dropped", r>>
    <3> DEFINE a == Append(q, r)
               b == <<"dropped", r>>
    <3>1. a \in Seq(Reasons) /\ Len(a) = 2 /\ a[1] = "dropped" /\ a[2] = r
      <4>1. Append(q, r) \in Seq(Reasons)
        OBVIOUS
      <4>2. Len(Append(q, r)) = Len(q) + 1
        OBVIOUS
      <4>3. Append(q, r)[Len(q) + 1] = r
        OBVIOUS
      <4>4. Append(q, r)[1] = q[1]
        <5>1. \A i \in 1..Len(q) : Append(q, r)[i] = q[i]
          OBVIOUS
        <5>2. 1 \in 1..Len(q)
          BY <2>3
        <5> QED
          BY <5>1, <5>2
      <4>5. Len(q) + 1 = 2
        BY <2>3
      <4> QED
        BY <2>3, <4>1, <4>2, <4>3, <4>4, <4>5
    <3>2. b \in Seq(Reasons) /\ Len(b) = 2 /\ b[1] = "dropped" /\ b[2] = r
      BY <2>1
    <3> HIDE DEF a, b
    <3>3. a = b
      BY <3>1, <3>2
    <3> QED
      BY <3>3 DEF a, b
  <2> QED
    BY <2>2, <2>3
<1>3. Reported(s, r)[s] = Append(reports[s], r)
  BY DEF Reported
<1> QED
  BY <1>1, <1>2, <1>3

\* Every step keeps ReportsInv.
LEMMA NextReports ==
    ASSUME IInv, ReportsInv, [QueueNext]_queueVars
    PROVE  ReportsInv'
<1> DEFINE Good(t) ==
      /\ \/ reports[t] = <<>>
         \/ reports[t] \in {<<r>> : r \in Reasons}
         \/ t \notin acked /\ reports[t] \in {<<"dropped", r>> : r \in Reasons}
      /\ t \in acked => reports[t] \in {<<>>, <<"dropped">>}
      /\ inFlight[t] /\ t \notin Elements(queue) =>
            reports[t] = <<"dropped">> /\ t \notin acked
<1> SUFFICES ASSUME NEW t \in Settles PROVE Good(t)'
  BY DEF ReportsInv
<1>1. TypeOK /\ Good(t)
  BY DEF IInv, ReportsInv
<1> USE DEF IInv
<1>2. ASSUME /\ reports'[t] = reports[t]
             /\ t \in acked' <=> t \in acked
             /\ inFlight'[t] /\ t \notin Elements(queue)' => inFlight[t] /\ t \notin Elements(queue)
      PROVE  Good(t)'
  BY <1>1, <1>2
<1>3. ASSUME NEW s \in Settles, Submit(s) PROVE Good(t)'
  BY <1>2, <1>3 DEF Submit, item, Elements
<1>4. CASE DrainTick
  <2>1. UNCHANGED <<reports, acked, queue>> /\ Elements(queue)' = Elements(queue)
    BY <1>4 DEF DrainTick, Elements
  <2>2. inFlight'[t] /\ t \notin Elements(queue) => inFlight[t]
    BY <1>4 DEF DrainTick, Due
  <2> QED
    BY <1>2, <2>1, <2>2
<1>5. CASE Crash
  BY <1>2, <1>5 DEF Crash
<1>6. CASE Tick \/ UNCHANGED queueVars \/ \E s \in Settles : CutAnswer(s) \/ HpDebit(s)
  BY <1>2, <1>6 DEF Tick, queueVars, CutAnswer, HpDebit, item, Elements
<1>7. ASSUME NEW s \in Settles, NEW status \in Statuses, FirstDone(s, status) PROVE Good(t)'
  <2>1. s \in first /\ s \notin Elements(queue) /\ ~inFlight[s] /\ s \notin acked /\ reports[s] = <<>>
    BY <1>7 DEF FirstDone, PostsInv, UndecidedInv
  <2>2. CASE Enqueue(s) /\ UNCHANGED acked
    <3>1. CASE t = s
      <4>1. reports'[t] = <<>> /\ t \in Elements(queue)' /\ t \notin acked'
        BY <2>1, <2>2, <3>1, EnqueueEffect
      <4> QED
        BY <4>1
    <3>2. CASE t # s
      <4>1. inFlight'[t] = inFlight[t]
        BY <1>1, <2>2, <3>2 DEF Enqueue, TypeOK
      <4>2. CASE (t \in Elements(queue)' <=> t \in Elements(queue)) /\ reports'[t] = reports[t]
        BY <1>2, <2>2, <4>1, <4>2
      <4>3. CASE t \in Elements(queue) /\ reports'[t] = <<"dropped">>
        <5>1. t \notin acked' /\ "dropped" \in Reasons
          BY <2>2, <4>3 DEF UndecidedInv, Reasons
        <5> QED
          BY <4>3, <5>1
      <4> QED
        BY <2>1, <2>2, <3>2, <4>2, <4>3, EnqueueEffect
    <3> QED
      BY <3>1, <3>2
  <2>3. CASE UNCHANGED <<queue, item, acked>> /\ reports' = Reported(s, "permanent")
    <3>1. "permanent" \in Reasons
      BY DEF Reasons
    <3>2. Elements(queue)' = Elements(queue) /\ inFlight' = inFlight /\ acked' = acked
      BY <2>3 DEF Elements, item
    <3>3. CASE t = s
      <4>1. reports'[t] = <<"permanent">>
        BY <1>1, <2>1, <2>3, <3>1, <3>3, OneMoreReport DEF TypeOK
      <4> QED
        BY <2>1, <3>1, <3>2, <3>3, <4>1
    <3>4. CASE t # s
      <4>1. reports'[t] = reports[t]
        BY <1>1, <2>3, <3>1, <3>4, ReportedEffect DEF TypeOK
      <4> QED
        BY <1>2, <3>2, <4>1
    <3> QED
      BY <3>3, <3>4
  <2>4. CASE acked' = acked \cup {s} /\ UNCHANGED <<queue, item, reports>>
    <3>1. Elements(queue)' = Elements(queue) /\ inFlight' = inFlight /\ reports' = reports
      BY <2>4 DEF Elements, item
    <3>2. CASE t = s
      BY <2>1, <3>1, <3>2
    <3>3. CASE t # s
      BY <1>2, <2>4, <3>1, <3>3
    <3> QED
      BY <3>2, <3>3
  <2> QED
    BY <1>7, <2>2, <2>3, <2>4 DEF FirstDone
<1>8. ASSUME NEW s \in Settles, NEW status \in Statuses, RetryDone(s, status) PROVE Good(t)'
  <2>1. /\ inFlight[s] /\ inFlight' = [inFlight EXCEPT ![s] = FALSE]
        /\ queue' = queue \/ queue' = Without(queue, s)
    BY <1>8 DEF RetryDone, Answered, PostsInv
  <2>2. (reports[s] = <<>> \/ reports[s] = <<"dropped">>) /\ s \notin acked
    BY <2>1 DEF ReportsInv, UndecidedInv
  <2>3. CASE t = s
    <3>1. ~inFlight'[t]
      BY <1>1, <2>1, <2>3 DEF TypeOK
    <3>2. \/ acked' = acked \cup {s} /\ reports' = reports
          \/ acked' = acked /\ reports' = reports
          \/ acked' = acked /\ \E r \in Reasons : reports' = Reported(s, r)
      BY <1>8 DEF RetryDone, Reasons
    <3>3. ASSUME NEW r \in Reasons, acked' = acked, reports' = Reported(s, r)
          PROVE  Good(t)'
      <4>1. \/ reports'[t] = <<r>>
            \/ reports'[t] = <<"dropped", r>>
        BY <1>1, <2>2, <2>3, <3>3, OneMoreReport DEF TypeOK
      <4> QED
        BY <2>2, <2>3, <3>1, <3>3, <4>1
    <3>4. ASSUME reports' = reports PROVE Good(t)'
      <4>1. "dropped" \in Reasons
        BY DEF Reasons
      <4> QED
        BY <2>2, <2>3, <3>1, <3>4, <4>1
    <3> QED
      BY <3>2, <3>3, <3>4
  <2>4. CASE t # s
    <3>1. t \in Elements(queue)' <=> t \in Elements(queue)
      <4>1. CASE queue' = queue
        BY <4>1 DEF Elements
      <4>2. CASE queue' = Without(queue, s)
        <5>1. Elements(Without(queue, s)) = Elements(queue) \ {s}
          BY <1>1, WithoutItem DEF TypeOK
        <5>2. Elements(queue)' = Elements(Without(queue, s))
          BY <4>2 DEF Elements
        <5> QED
          BY <2>4, <5>1, <5>2
      <4> QED
        BY <2>1, <4>1, <4>2
    <3>2. reports'[t] = reports[t] /\ (t \in acked' <=> t \in acked)
      BY <1>1, <1>8, <2>4 DEF RetryDone, Reported, TypeOK
    <3>3. inFlight'[t] = inFlight[t]
      BY <1>1, <2>1, <2>4 DEF TypeOK
    <3> QED
      BY <1>2, <3>1, <3>2, <3>3
  <2> QED
    BY <2>3, <2>4
<1> QED
  BY <1>3, <1>4, <1>5, <1>6, <1>7, <1>8 DEF QueueNext

\* A loss is reported once, save for an item dropped in flight; only such an item can
\* be both reported and acknowledged.
THEOREM LossesExplained == QueueSpec => []ReportsExplained
<1>1. QueueInit => ReportsInv
  BY DEF QueueInit, ReportsInv
<1>2. IInv /\ ReportsInv /\ [QueueNext]_queueVars => ReportsInv'
  BY NextReports
<1>3. ReportsInv => ReportsExplained
  <2>1. \A r \in Reasons :
           /\ Len(<<>>) = 0 /\ Len(<<r>>) = 1
           /\ Len(<<"dropped", r>>) = 2 /\ <<"dropped", r>>[1] = "dropped"
    OBVIOUS
  <2> SUFFICES ASSUME ReportsInv, NEW s \in Settles
               PROVE  /\ Len(reports[s]) <= 2
                      /\ Len(reports[s]) = 2 => reports[s][1] = "dropped" /\ s \notin acked
    BY DEF ReportsInv, ReportsExplained
  <2>2. CASE reports[s] = <<>>
    BY <2>2
  <2>3. ASSUME NEW r \in Reasons, reports[s] = <<r>>
        PROVE  Len(reports[s]) <= 2 /\ Len(reports[s]) # 2
    BY <2>1, <2>3
  <2>4. ASSUME NEW r \in Reasons, reports[s] = <<"dropped", r>>
        PROVE  Len(reports[s]) <= 2 /\ reports[s][1] = "dropped"
    BY <2>1, <2>4
  <2>5. \/ reports[s] = <<>>
        \/ \E r \in Reasons : reports[s] = <<r>>
        \/ s \notin acked /\ \E r \in Reasons : reports[s] = <<"dropped", r>>
    BY DEF ReportsInv
  <2> QED
    BY <2>2, <2>3, <2>4, <2>5, Zenon
<1> QED
  BY <1>1, <1>2, <1>3, Inductive, PTL DEF QueueSpec

-----------------------------------------------------------------------------
(* The five memories, for any clock, any number of requests, credentials,  *)
(* blobs and certificates.  Each memory has an inductive invariant of its  *)
(* own: the parts meet only in the clock.                                  *)

\* The clock is a number within its bound.
ClockInv == now \in 0..MaxTime /\ part \in Parts

-----------------------------------------------------------------------------
(* The Tinfoil keys.                                                       *)

Requests == Sealers \cup Clients

\* The types of the two caches and of the requests that read them.
TinfoilTypes ==
    /\ epoch \in Nat
    /\ cached \in [Caches -> [key : Nat, at : Nat]]
    /\ fetch \in [Caches -> [state : {"none", "open", "read"}, key : Nat]]
    /\ step \in [Requests -> {"idle", "get", "sealed", "retry", "reget", "resealed", "done"}]
    /\ key \in [Requests -> Nat]
    /\ refused \in [Requests -> [epoch : Nat, joined : BOOLEAN]]

\* Between a 422 and the seal that follows it, whatever the request could still be
\* given is no older than the key the 422 was about, unless the request joined a
\* refresh that was open then.
RetryFresh(r) ==
    step[r] \in {"retry", "reget", "resealed"} =>
        /\ refused[r].epoch <= epoch
        /\ refused[r].joined \/
              /\ step[r] = "resealed" => key[r] >= refused[r].epoch
              /\ step[r] # "resealed" =>
                    /\ cached[Of(r)] = NoKey \/ cached[Of(r)].key >= refused[r].epoch
                    /\ fetch[Of(r)].state = "read" => fetch[Of(r)].key >= refused[r].epoch

TinfoilInv == ClockInv /\ TinfoilTypes /\ \A r \in Requests : RetryFresh(r)

\* The caches and keys start empty.
LEMMA TinfoilStarts == Init => TinfoilInv
  BY TimeAssumption DEF Init, ClockInit, TinfoilInit, TinfoilInv, ClockInv, TinfoilTypes, RetryFresh,
     Requests, Caches, NoKey, NoFetch

\* Every step of the Tinfoil memory keeps its types.
LEMMA TinfoilTyped == TinfoilInv /\ TinfoilNext => ClockInv' /\ TinfoilTypes'
<1> SUFFICES ASSUME TinfoilInv, TinfoilNext PROVE ClockInv' /\ TinfoilTypes'
  OBVIOUS
<1> USE DEF TinfoilInv, TinfoilTypes, ClockInv, clock, Requests
<1>0. \A r \in Requests : Of(r) \in Caches
  BY DEF Of, Caches
<1>1. CASE Rotate
  BY <1>1 DEF Rotate
<1>2. ASSUME NEW r \in Requests, Get(r) PROVE ClockInv' /\ TinfoilTypes'
  <2> DEFINE hit == /\ key' = [key EXCEPT ![r] = cached[Of(r)].key]
                    /\ step' = [step EXCEPT ![r] = Seals(@)]
                    /\ UNCHANGED <<fetch, epoch, cached, refused, clock>>
             miss == /\ fetch' = [fetch EXCEPT ![Of(r)] = Joined(@)]
                     /\ step' = [step EXCEPT ![r] = Awaits(@)]
                     /\ UNCHANGED <<key, epoch, cached, refused, clock>>
  <2>1. hit \/ miss
    BY <1>2 DEF Get
  <2>2. Of(r) \in Caches /\ cached[Of(r)].key \in Nat
    BY <1>0
  <2>3. CASE hit
    BY <2>2, <2>3 DEF Seals
  <2>4. CASE miss
    <3>1. Joined(fetch[Of(r)]) \in [state : {"none", "open", "read"}, key : Nat]
      BY <2>2 DEF Joined
    <3> QED
      BY <2>2, <2>4, <3>1 DEF Awaits
  <2> QED
    BY <2>1, <2>3, <2>4
<1>3. ASSUME NEW r \in Requests, RouterAnswers(r) PROVE ClockInv' /\ TinfoilTypes'
  <2>1. CASE UNCHANGED <<cached, refused>>
    BY <1>3, <2>1 DEF RouterAnswers
  <2>2. CASE /\ cached' = [c \in Caches |-> IF c \in Invalidates(r) THEN NoKey ELSE cached[c]]
             /\ refused' = [refused EXCEPT ![r] = [epoch |-> epoch, joined |-> fetch[Of(r)] # NoFetch]]
    <3>1. cached' \in [Caches -> [key : Nat, at : Nat]]
      BY <2>2 DEF NoKey
    <3>2. refused' \in [Requests -> [epoch : Nat, joined : BOOLEAN]]
      BY <2>2
    <3>3. step' \in [Requests -> {"idle", "get", "sealed", "retry", "reget", "resealed", "done"}]
      BY <1>3 DEF RouterAnswers
    <3> QED
      BY <1>3, <3>1, <3>2, <3>3 DEF RouterAnswers
  <2> QED
    BY <1>3, <2>1, <2>2 DEF RouterAnswers
<1>4. ASSUME NEW c \in Caches, Fetched(c) PROVE ClockInv' /\ TinfoilTypes'
  BY <1>4 DEF Fetched
<1>5. ASSUME NEW c \in Caches, Installed(c) PROVE ClockInv' /\ TinfoilTypes'
  <2>1. now \in Nat /\ fetch[c].key \in Nat
    BY TimeAssumption
  <2> QED
    BY <1>5, <2>1 DEF Installed, Seals, NoFetch
<1>6. ASSUME NEW c \in Caches, FetchFails(c) PROVE ClockInv' /\ TinfoilTypes'
  BY <1>6 DEF FetchFails, NoFetch
<1> QED
  BY <1>1, <1>2, <1>3, <1>4, <1>5, <1>6 DEF TinfoilNext

\* Every step of the Tinfoil memory keeps a retry's prospects fresh.
LEMMA TinfoilKept == TinfoilInv /\ TinfoilNext => TinfoilInv'
<1> SUFFICES ASSUME TinfoilInv, TinfoilNext, NEW q \in Requests PROVE RetryFresh(q)'
  BY TinfoilTyped DEF TinfoilInv
<1> USE DEF TinfoilInv, TinfoilTypes, RetryFresh
<1>0. /\ \A r \in Requests : Of(r) \in Caches
      /\ Of(q)' = Of(q) /\ NoKey' = NoKey
  BY DEF Of, Caches, NoKey
<1>1. CASE Rotate
  BY <1>0, <1>1 DEF Rotate
<1>2. ASSUME NEW r \in Requests, Get(r) PROVE RetryFresh(q)'
  <2>0. fetch'[Of(q)].state = "read" => fetch'[Of(q)] = fetch[Of(q)]
    BY <1>0, <1>2 DEF Get, Joined
  <2>1. CASE q # r
    <3>1. step'[q] = step[q] /\ key'[q] = key[q] /\ UNCHANGED <<epoch, cached, refused>>
      BY <1>2, <2>1 DEF Get
    <3> QED
      BY <1>0, <2>0, <3>1
  <2>2. CASE q = r /\ Fresh(Of(r))
    BY <1>0, <1>2, <2>2 DEF Get, Seals, Fresh
  <2>3. CASE q = r /\ ~Fresh(Of(r))
    <3>1. /\ step'[q] \in {"get", "reget"} /\ (step'[q] = "reget" => step[q] = "retry")
          /\ UNCHANGED <<key, epoch, cached, refused>>
      BY <1>2, <2>3 DEF Get, Awaits
    <3> QED
      BY <1>0, <2>0, <3>1
  <2> QED
    BY <2>1, <2>2, <2>3
<1>3. ASSUME NEW r \in Requests, RouterAnswers(r) PROVE RetryFresh(q)'
  <2>0. /\ UNCHANGED <<epoch, fetch, key>>
        /\ cached'[Of(q)] \in {NoKey, cached[Of(q)]}
        /\ q # r => step'[q] = step[q] /\ refused'[q] = refused[q]
    BY <1>0, <1>3 DEF RouterAnswers
  <2>1. CASE q # r
    BY <1>0, <2>0, <2>1
  <2>2. CASE q = r /\ step'[q] = "done"
    BY <2>2
  <2>3. CASE q = r /\ step'[q] # "done"
    <3>1. /\ cached' = [c \in Caches |-> IF c \in Invalidates(q) THEN NoKey ELSE cached[c]]
          /\ refused'[q] = [epoch |-> epoch, joined |-> fetch[Of(q)] # NoFetch]
          /\ step'[q] = "retry"
      BY <1>3, <2>3 DEF RouterAnswers
    <3>2. cached'[Of(q)] = NoKey
      BY <1>0, <3>1 DEF Invalidates, Of, Requests
    <3>3. refused'[q].epoch = epoch' /\ epoch' \in Nat
      BY <2>0, <3>1
    <3>4. ~refused'[q].joined => fetch'[Of(q)].state = "none"
      <4>1. CASE fetch[Of(q)] = NoFetch
        BY <2>0, <4>1 DEF NoFetch
      <4>2. CASE fetch[Of(q)] # NoFetch
        <5>1. (fetch[Of(q)] # NoFetch) = TRUE
          BY <4>2
        <5>2. refused'[q] = [epoch |-> epoch, joined |-> TRUE]
          BY <3>1, <5>1, Zenon
        <5> QED
          BY <5>2
      <4> QED
        BY <4>1, <4>2
    <3> QED
      BY <1>0, <3>1, <3>2, <3>3, <3>4
  <2> QED
    BY <2>1, <2>2, <2>3
<1>4. ASSUME NEW c \in Caches, Fetched(c) PROVE RetryFresh(q)'
  BY <1>0, <1>4 DEF Fetched
<1>5. ASSUME NEW c \in Caches, Installed(c) PROVE RetryFresh(q)'
  BY <1>0, <1>5 DEF Installed, Seals, NoFetch, Waits, Waiting
<1>6. ASSUME NEW c \in Caches, FetchFails(c) PROVE RetryFresh(q)'
  BY <1>0, <1>6 DEF FetchFails, NoFetch
<1> QED
  BY <1>1, <1>2, <1>3, <1>4, <1>5, <1>6 DEF TinfoilNext, Requests

\* tinfoil.mjs, invalidate and get: the one retry after a 422 is sealed to a key no
\* older than the one the 422 was about, except where it joined an open refresh; for
\* any number of requests, rotations and refreshes.
THEOREM ResealsFresh == Spec => []ResealedFresh
<1>1. TinfoilInv /\ [Next]_vars => TinfoilInv'
  <2> SUFFICES ASSUME TinfoilInv, [Next]_vars PROVE TinfoilInv'
    OBVIOUS
  <2>1. CASE TinfoilNext
    BY <2>1, TinfoilKept
  <2>2. CASE UNCHANGED tinfoil /\ (Advance \/ UNCHANGED clock)
    BY <2>2, TimeAssumption DEF TinfoilInv, ClockInv, TinfoilTypes, RetryFresh, tinfoil, clock, Advance, Of, NoKey, Requests
  <2> QED
    BY <2>1, <2>2 DEF Next, vars, BackoffNext, Present, AuthorizeAnswered, BedrockNext, Deliver, Apply, Sign, Respawn, Hears, Decrypted,
       VertexNext, getToken, Issue, Minted, MintFails, VertexTick, IdentityNext, Listen, installIssued, Handshake, Close, clock, tinfoil
<1>2. TinfoilInv => ResealedFresh
  BY DEF TinfoilInv, TinfoilTypes, RetryFresh, ResealedFresh, Requests
<1> QED
  BY TinfoilStarts, <1>1, <1>2, PTL DEF Spec

-----------------------------------------------------------------------------
(* The served identity.                                                    *)

\* Every certificate a connection was served, or can still be served, has its private
\* key held; the identity's own too.
IdentityInv ==
    /\ served \in [Conns -> Certs \cup {"boot", "none"}]
    /\ wire \in Certs \cup {"boot"} /\ issued \in Certs \cup {"none"}
    /\ SpkiOf[current] \in keys /\ SpkiOf[wire] \in keys
    /\ issued \notin Broken \cup {"none"} => SpkiOf[issued] \in keys
    /\ \A n \in Conns : served[n] # "none" => SpkiOf[served[n]] \in keys
    /\ attached => wire = current

\* Only boot is presented, and only its key is held, at the start.
LEMMA IdentityStarts == Init => IdentityInv
  BY DEF Init, IdentityInit, IdentityInv

\* Every step of the identity keeps the keys of what was and may be served.
LEMMA IdentityKept == IdentityInv /\ IdentityNext => IdentityInv'
<1> SUFFICES ASSUME IdentityInv, IdentityNext PROVE IdentityInv'
  OBVIOUS
<1> USE DEF IdentityInv
<1>1. ASSUME NEW c \in Certs \cup {"boot"}, Listen(c) PROVE IdentityInv'
  BY <1>1 DEF Listen
<1>2. ASSUME NEW c \in Certs, installIssued(c) PROVE IdentityInv'
  BY <1>2 DEF installIssued, adopt
<1>3. ASSUME NEW n \in Conns, Handshake(n) PROVE IdentityInv'
  BY <1>3 DEF Handshake
<1>4. ASSUME NEW n \in Conns, Close(n) PROVE IdentityInv'
  BY <1>4 DEF Close
<1> QED
  BY <1>1, <1>2, <1>3, <1>4 DEF IdentityNext

\* servedIdentity.mjs: a receipt is signed with the key of the certificate its own
\* connection was served, whatever was installed since; for any certificates, broken
\* ones among them, and any number of connections.
THEOREM SignsWithServedKey == Spec => []SignsAsServed
<1>1. IdentityInv /\ [Next]_vars => IdentityInv'
  <2> SUFFICES ASSUME IdentityInv, [Next]_vars PROVE IdentityInv'
    OBVIOUS
  <2>1. CASE IdentityNext
    BY <2>1, IdentityKept
  <2>2. CASE UNCHANGED identity
    BY <2>2 DEF IdentityInv, identity
  <2> QED
    BY <2>1, <2>2 DEF Next, vars
<1>2. IdentityInv => SignsAsServed
  BY DEF IdentityInv, SignsAsServed, signingKeyFor
<1> QED
  BY IdentityStarts, <1>1, <1>2, PTL DEF Spec

-----------------------------------------------------------------------------
(* The Bedrock credentials.                                                *)

\* The types of what the host delivered and of what each worker made of it.
BedrockTypes ==
    /\ blobs \in Seq([kind : {"kms", "plain", "malformed"}, expiration : 0..MaxTime])
    /\ lastBlob \in 0..Len(blobs)
    /\ inbox \in [Workers -> Seq(1..Len(blobs))]
    /\ decrypting \in [Workers -> SUBSET (1..Len(blobs))]
    /\ creds \in [Workers -> 0..Len(blobs)]
    /\ respawns \in Nat

\* Broadcasts arrive in the order of delivery; where no two decrypts overlapped, what a
\* worker holds is no newer than what it decrypts, nor that than what it has still to read.
BlobsInOrder(w) ==
    /\ \A i, j \in 1..Len(inbox[w]) : i < j => inbox[w][i] <= inbox[w][j]
    /\ w \notin overlapped =>
          /\ \A i \in 1..Len(inbox[w]) : inbox[w][i] >= creds[w]
          /\ \A b \in decrypting[w] :
                /\ b >= creds[w]
                /\ \A i \in 1..Len(inbox[w]) : inbox[w][i] >= b
                /\ \A d \in decrypting[w] : d = b

BedrockInv == BedrockTypes /\ \A w \in Workers : BlobsInOrder(w)

\* Nothing was delivered at the start.
LEMMA BedrockStarts == Init => BedrockInv
  BY DEF Init, BedrockInit, BedrockInv, BedrockTypes, BlobsInOrder

\* The types are kept when a blob is delivered.
LEMMA DeliverTyped == BedrockInv /\ Deliver => BedrockTypes'
<1> SUFFICES ASSUME BedrockInv, Deliver PROVE BedrockTypes'
  OBVIOUS
<1> USE DEF BedrockInv, BedrockTypes
<1> DEFINE Blob == [kind : {"kms", "plain", "malformed"}, expiration : 0..MaxTime]
<1>1. PICK kind \in {"kms", "plain", "malformed"}, expiration \in 0..MaxTime :
         blobs' = Append(blobs, [kind |-> kind, expiration |-> expiration])
  BY DEF Deliver
<1>2. blobs' \in Seq(Blob) /\ Len(blobs') = Len(blobs) + 1 /\ Len(blobs) \in Nat
  BY <1>1
<1>3. 1..Len(blobs) \subseteq 1..Len(blobs')
  BY <1>2
<1>4. ASSUME NEW w \in Workers PROVE Append(inbox[w], Len(blobs')) \in Seq(1..Len(blobs')) /\ inbox[w] \in Seq(1..Len(blobs'))
  <2>1. inbox[w] \in Seq(1..Len(blobs))
    OBVIOUS
  <2>2. inbox[w] \in Seq(1..Len(blobs'))
    BY <1>2, <1>3, <2>1
  <2>3. Len(blobs') \in 1..Len(blobs')
    BY <1>2
  <2> QED
    BY <2>2, <2>3
<1>5. inbox' \in [Workers -> Seq(1..Len(blobs'))]
  BY <1>4 DEF Deliver
<1> QED
  BY <1>2, <1>3, <1>5 DEF Deliver

\* A blob that is delivered comes after all that was delivered before.
LEMMA DeliverKept == BedrockInv /\ Deliver => BedrockInv'
<1> SUFFICES ASSUME BedrockInv, Deliver, NEW w \in Workers PROVE BlobsInOrder(w)'
  BY DeliverTyped DEF BedrockInv
<1> USE DEF BedrockInv, BedrockTypes
<1>1. Len(blobs') = Len(blobs) + 1 /\ Len(blobs) \in Nat
  BY DEF Deliver
<1>2. inbox'[w] = inbox[w] \/ inbox'[w] = Append(inbox[w], Len(blobs'))
  BY DEF Deliver
<1>3. UNCHANGED <<decrypting, creds, overlapped>>
  BY DEF Deliver
<1>4. /\ inbox[w] \in Seq(1..Len(blobs)) /\ Len(inbox[w]) \in Nat
      /\ decrypting[w] \subseteq 1..Len(blobs) /\ creds[w] \in 0..Len(blobs)
  OBVIOUS
<1>5. CASE inbox'[w] = inbox[w]
  BY <1>3, <1>5 DEF BlobsInOrder
<1>6. CASE inbox'[w] = Append(inbox[w], Len(blobs'))
  <2>1. /\ Len(inbox'[w]) = Len(inbox[w]) + 1
        /\ \A i \in 1..Len(inbox[w]) : inbox'[w][i] = inbox[w][i] /\ inbox[w][i] \in 1..Len(blobs)
        /\ inbox'[w][Len(inbox[w]) + 1] = Len(blobs) + 1
    BY <1>1, <1>4, <1>6
  <2>2. \A i \in 1..Len(inbox'[w]) : i \in 1..Len(inbox[w]) \/ i = Len(inbox[w]) + 1
    BY <1>4, <2>1
  <2>3. \A i, j \in 1..Len(inbox'[w]) : i < j => inbox'[w][i] <= inbox'[w][j]
    <3> SUFFICES ASSUME NEW i \in 1..Len(inbox'[w]), NEW j \in 1..Len(inbox'[w]), i < j
                 PROVE  inbox'[w][i] <= inbox'[w][j]
      OBVIOUS
    <3>1. i \in 1..Len(inbox[w])
      BY <1>4, <2>1
    <3>2. CASE j \in 1..Len(inbox[w])
      BY <2>1, <3>1, <3>2 DEF BlobsInOrder
    <3>3. CASE j = Len(inbox[w]) + 1
      <4>1. inbox'[w][j] = Len(blobs) + 1
        BY <2>1, <3>3
      <4>2. inbox'[w][i] \in 1..Len(blobs)
        BY <2>1, <3>1
      <4> QED
        BY <1>1, <4>1, <4>2
    <3> QED
      BY <2>2, <3>2, <3>3
  <2>4. ASSUME NEW b \in 0..Len(blobs), \A i \in 1..Len(inbox[w]) : inbox[w][i] >= b,
               NEW i \in 1..Len(inbox'[w])
        PROVE  inbox'[w][i] >= b
    <3>1. CASE i \in 1..Len(inbox[w])
      BY <2>1, <2>4, <3>1
    <3>2. CASE i = Len(inbox[w]) + 1
      BY <1>4, <2>1, <3>2
    <3> QED
      BY <2>2, <3>1, <3>2
  <2>5. w \notin overlapped => \A i \in 1..Len(inbox'[w]) : inbox'[w][i] >= creds[w]
    BY <1>4, <2>4 DEF BlobsInOrder
  <2>6. w \notin overlapped => \A b \in decrypting[w] : \A i \in 1..Len(inbox'[w]) : inbox'[w][i] >= b
    <3> SUFFICES ASSUME w \notin overlapped, NEW b \in decrypting[w]
                 PROVE  \A i \in 1..Len(inbox'[w]) : inbox'[w][i] >= b
      OBVIOUS
    <3>1. b \in 0..Len(blobs) /\ \A i \in 1..Len(inbox[w]) : inbox[w][i] >= b
      BY <1>4 DEF BlobsInOrder
    <3> QED
      BY <2>4, <3>1
  <2> QED
    BY <1>3, <2>3, <2>5, <2>6 DEF BlobsInOrder
<1> QED
  BY <1>2, <1>5, <1>6

\* A worker applies its oldest blob, which is no older than what it has.
LEMMA ApplyKept == ASSUME NEW v \in Workers PROVE BedrockInv /\ Apply(v) => BedrockInv'
<1> SUFFICES ASSUME BedrockInv, Apply(v) PROVE BedrockInv'
  OBVIOUS
<1> USE DEF BedrockInv, BedrockTypes
<1> DEFINE b == Head(inbox[v])
<1>1. /\ inbox[v] \in Seq(1..Len(blobs)) /\ inbox[v] # <<>>
      /\ UNCHANGED <<blobs, lastBlob, respawns>>
      /\ inbox' = [inbox EXCEPT ![v] = Tail(@)]
  BY DEF Apply
<1>2. /\ b \in 1..Len(blobs) /\ b = inbox[v][1] /\ 1 \in 1..Len(inbox[v])
      /\ Tail(inbox[v]) \in Seq(1..Len(blobs))
      /\ Len(Tail(inbox[v])) = Len(inbox[v]) - 1
      /\ \A i \in 1..Len(Tail(inbox[v])) : Tail(inbox[v])[i] = inbox[v][i + 1] /\ i + 1 \in 1..Len(inbox[v])
  BY <1>1
<1>3. inbox' \in [Workers -> Seq(1..Len(blobs))]
  BY <1>1, <1>2
<1>4. \/ /\ blobs[b].kind = "kms" /\ decrypting' = [decrypting EXCEPT ![v] = @ \cup {b}] /\ creds' = creds
      \/ /\ blobs[b].kind = "plain" /\ creds' = [creds EXCEPT ![v] = b] /\ decrypting' = decrypting
      \/ blobs[b].kind = "malformed" /\ creds' = creds /\ decrypting' = decrypting
  BY DEF Apply, applyBlob
<1>5. BedrockTypes'
  <2>1. decrypting' \in [Workers -> SUBSET (1..Len(blobs))]
    <3>1. (decrypting[v] \cup {b}) \in SUBSET (1..Len(blobs))
      BY <1>2
    <3> QED
      BY <1>4, <3>1
  <2>2. creds' \in [Workers -> 0..Len(blobs)]
    <3>1. b \in 0..Len(blobs)
      BY <1>2
    <3> QED
      BY <1>4, <3>1
  <2> QED
    BY <1>1, <1>3, <2>1, <2>2
<1>6. ASSUME NEW w \in Workers, w # v PROVE BlobsInOrder(w)'
  <2>1. inbox'[w] = inbox[w] /\ decrypting'[w] = decrypting[w] /\ creds'[w] = creds[w]
    BY <1>1, <1>4, <1>6
  <2>2. w \in overlapped' <=> w \in overlapped
    BY <1>6 DEF Apply, applyBlob
  <2> QED
    BY <2>1, <2>2 DEF BlobsInOrder
<1>7. BlobsInOrder(v)'
  <2> DEFINE rest == inbox'[v]
  <2>1. rest = Tail(inbox[v])
    BY <1>1
  <2>2. \A i, j \in 1..Len(rest) : i < j => rest[i] <= rest[j]
    <3> SUFFICES ASSUME NEW i \in 1..Len(rest), NEW j \in 1..Len(rest), i < j PROVE rest[i] <= rest[j]
      OBVIOUS
    <3>1. /\ rest[i] = inbox[v][i + 1] /\ i + 1 \in 1..Len(inbox[v])
          /\ rest[j] = inbox[v][j + 1] /\ j + 1 \in 1..Len(inbox[v])
      BY <1>2, <2>1
    <3>2. i + 1 < j + 1
      BY <1>1, <2>1
    <3> QED
      BY <3>1, <3>2 DEF BlobsInOrder
  <2>3. \A i \in 1..Len(rest) : rest[i] >= b
    <3> SUFFICES ASSUME NEW i \in 1..Len(rest) PROVE rest[i] >= b
      OBVIOUS
    <3>1. rest[i] = inbox[v][i + 1] /\ i + 1 \in 1..Len(inbox[v]) /\ 1 < i + 1
      BY <1>2, <2>1
    <3>2. inbox[v][1] <= inbox[v][i + 1]
      BY <1>2, <3>1 DEF BlobsInOrder
    <3> QED
      BY <1>1, <1>2, <3>1, <3>2
  <2>4. CASE v \in overlapped'
    BY <2>2, <2>4 DEF BlobsInOrder
  <2>5. CASE v \notin overlapped'
    <3>1. v \notin overlapped /\ (blobs[b].kind = "malformed" \/ decrypting[v] = {})
      BY <2>5 DEF Apply, applyBlob
    <3>2. b >= creds[v] /\ \A i \in 1..Len(rest) : rest[i] >= creds[v]
      BY <1>2, <2>1, <3>1 DEF BlobsInOrder
    <3>3. CASE blobs[b].kind = "malformed"
      <4>1. creds'[v] = creds[v] /\ decrypting'[v] = decrypting[v]
        BY <1>4, <3>3
      <4>2. \A d \in decrypting[v] : \A i \in 1..Len(rest) : rest[i] >= d
        BY <1>2, <2>1, <3>1 DEF BlobsInOrder
      <4> QED
        BY <2>2, <3>1, <3>2, <4>1, <4>2 DEF BlobsInOrder
    <3>4. CASE blobs[b].kind = "kms"
      <4>1. creds'[v] = creds[v] /\ decrypting'[v] = {b}
        BY <1>4, <3>1, <3>4
      <4> QED
        BY <2>2, <2>3, <3>2, <4>1 DEF BlobsInOrder
    <3>5. CASE blobs[b].kind = "plain"
      <4>1. creds'[v] = b /\ decrypting'[v] = {}
        BY <1>4, <3>1, <3>5
      <4> QED
        BY <2>2, <2>3, <4>1 DEF BlobsInOrder
    <3> QED
      BY <1>4, <3>3, <3>4, <3>5
  <2> QED
    BY <2>4, <2>5
<1> QED
  BY <1>5, <1>6, <1>7

\* A decrypt that ends installs its blob or nothing; a worker that did not overlap had
\* no other under way.
LEMMA DecryptedKept ==
    ASSUME NEW v \in Workers, NEW b \in decrypting[v]
    PROVE  BedrockInv /\ Decrypted(v, b) => BedrockInv'
<1> SUFFICES ASSUME BedrockInv, Decrypted(v, b) PROVE BedrockInv'
  OBVIOUS
<1> USE DEF BedrockInv, BedrockTypes
<1>1. /\ UNCHANGED <<blobs, lastBlob, inbox, overlapped, respawns>>
      /\ decrypting' = [decrypting EXCEPT ![v] = @ \ {b}]
      /\ creds' = creds \/ creds' = [creds EXCEPT ![v] = b]
  BY DEF Decrypted
<1>2. b \in 1..Len(blobs) /\ b \in 0..Len(blobs)
  OBVIOUS
<1>3. BedrockTypes'
  BY <1>1, <1>2
<1>4. ASSUME NEW w \in Workers PROVE BlobsInOrder(w)'
  <2>1. CASE w # v
    <3>1. decrypting'[w] = decrypting[w] /\ creds'[w] = creds[w]
      BY <1>1, <2>1
    <3> QED
      BY <1>1, <3>1 DEF BlobsInOrder
  <2>2. CASE w = v
    <3>1. decrypting'[w] = decrypting[w] \ {b} /\ creds'[w] \in {creds[w], b}
      BY <1>1, <2>2
    <3> QED
      BY <1>1, <2>2, <3>1 DEF BlobsInOrder
  <2> QED
    BY <2>1, <2>2
<1> QED
  BY <1>3, <1>4

\* A new worker starts from the primary's last blob.
LEMMA RespawnKept == ASSUME NEW v \in Workers PROVE BedrockInv /\ Respawn(v) => BedrockInv'
<1> SUFFICES ASSUME BedrockInv, Respawn(v) PROVE BedrockInv'
  OBVIOUS
<1> USE DEF BedrockInv, BedrockTypes
<1> DEFINE inherited == IF lastBlob = 0 THEN <<>> ELSE <<lastBlob>>
<1>1. inherited \in Seq(1..Len(blobs)) /\ Len(inherited) <= 1
  <2>1. CASE lastBlob = 0
    BY <2>1
  <2>2. CASE lastBlob # 0
    <3>1. lastBlob \in 1..Len(blobs)
      BY <2>2
    <3> QED
      BY <2>2, <3>1
  <2> QED
    BY <2>1, <2>2
<1>2. /\ UNCHANGED <<blobs, lastBlob>> /\ respawns' = respawns + 1
      /\ creds' = [creds EXCEPT ![v] = 0]
      /\ decrypting' = [decrypting EXCEPT ![v] = {}]
      /\ overlapped' = overlapped \ {v}
      /\ inbox' = [inbox EXCEPT ![v] = inherited]
  BY DEF Respawn
<1>3. BedrockTypes'
  BY <1>1, <1>2
<1>4. ASSUME NEW w \in Workers PROVE BlobsInOrder(w)'
  <2>1. CASE w # v
    <3>1. decrypting'[w] = decrypting[w] /\ creds'[w] = creds[w] /\ inbox'[w] = inbox[w] /\ (w \in overlapped' <=> w \in overlapped)
      BY <1>2, <2>1
    <3> QED
      BY <3>1 DEF BlobsInOrder
  <2>2. CASE w = v
    <3>1. decrypting'[w] = {} /\ creds'[w] = 0 /\ inbox'[w] = inherited
      BY <1>2, <2>2
    <3>2. \A i \in 1..Len(inherited) : i = 1 /\ inherited[i] \in Nat
      BY <1>1
    <3> QED
      BY <3>1, <3>2 DEF BlobsInOrder
  <2> QED
    BY <2>1, <2>2
<1> QED
  BY <1>3, <1>4

\* Every step of the Bedrock memory keeps the order.
LEMMA BedrockKept == BedrockInv /\ BedrockNext => BedrockInv'
<1> SUFFICES ASSUME BedrockInv, BedrockNext PROVE BedrockInv'
  OBVIOUS
<1>1. ASSUME NEW w \in Workers, Sign(w) \/ Hears(w) PROVE BedrockInv'
  BY <1>1 DEF Sign, Hears, BedrockInv, BedrockTypes, BlobsInOrder
<1> QED
  BY <1>1, DeliverKept, ApplyKept, DecryptedKept, RespawnKept DEF BedrockNext

\* Credentials go back only where decrypts overlapped.
LEMMA BedrockForward == BedrockInv /\ BedrockNext => SignedAlive /\ NeverBackUnlessOverlapped
<1> SUFFICES ASSUME BedrockInv, BedrockNext PROVE SignedAlive /\ NeverBackUnlessOverlapped
  OBVIOUS
<1>1. SignedAlive
  BY DEF SignedAlive, BedrockNext, Deliver, Apply, Sign, usable, Respawn, Hears, Decrypted
<1>2. ASSUME NEW w \in Workers, creds'[w] < creds[w], w \notin overlapped PROVE respawns' > respawns
  <2> USE DEF BedrockInv, BedrockTypes
  <2>1. creds[w] \in Nat
    OBVIOUS
  <2>2. creds' # creds
    BY <1>2, <2>1
  <2>3. ASSUME NEW v \in Workers, Apply(v) PROVE FALSE
    <3>1. /\ inbox[v] \in Seq(1..Len(blobs)) /\ inbox[v] # <<>>
          /\ creds' = [creds EXCEPT ![v] = Head(inbox[v])]
      BY <2>2, <2>3 DEF Apply, applyBlob
    <3>2. v = w
      BY <1>2, <2>1, <3>1
    <3>3. creds'[w] = inbox[w][1] /\ 1 \in 1..Len(inbox[w])
      BY <3>1, <3>2
    <3> QED
      BY <1>2, <2>1, <3>3 DEF BlobsInOrder
  <2>4. ASSUME NEW v \in Workers, NEW b \in decrypting[v], Decrypted(v, b) PROVE FALSE
    <3>1. creds' = [creds EXCEPT ![v] = b]
      BY <2>2, <2>4 DEF Decrypted
    <3>2. v = w
      BY <1>2, <2>1, <3>1
    <3> QED
      BY <1>2, <2>1, <3>1, <3>2 DEF BlobsInOrder
  <2>5. ASSUME NEW v \in Workers, Respawn(v) PROVE respawns' > respawns
    BY <2>5 DEF Respawn
  <2> QED
    BY <2>2, <2>3, <2>4, <2>5 DEF BedrockNext, Deliver, Sign, Hears
<1> QED
  BY <1>1, <1>2 DEF NeverBackUnlessOverlapped

-----------------------------------------------------------------------------
(* The Vertex token.                                                       *)

\* The cache never believes more of its token than Google does; an open exchange is as
\* young as its timeout lets it be, is the only one, and what it was issued outlives it.
VertexInv ==
    /\ ClockInv
    /\ token \in Nat /\ expiresAt \in Nat
    /\ token # 0 => token >= expiresAt
    /\ inflight \in [since : Nat, issued : Nat, life : Nat]
    /\ exchanges = IF inflight = NoMint THEN 0 ELSE 1
    /\ part # "vertex" => inflight = NoMint
    /\ inflight # NoMint =>
          /\ inflight.since <= now /\ now <= inflight.since + MintLimit
          /\ inflight.issued # 0 =>
                inflight.life \in Lifetimes /\ inflight.issued >= inflight.since + inflight.life

\* No token is cached and no exchange is open at the start.
LEMMA VertexStarts == Init => VertexInv
  BY TimeAssumption DEF Init, ClockInit, VertexInit, VertexInv, ClockInv, NoMint

\* Every step of the Vertex memory keeps its invariant.
LEMMA VertexKept == part = "vertex" /\ VertexInv /\ VertexNext => VertexInv'
<1> SUFFICES ASSUME part = "vertex", VertexInv, VertexNext PROVE VertexInv'
  OBVIOUS
<1> USE TimeAssumption, VertexAssumption DEF VertexInv, ClockInv, clock
<1>1. ASSUME NEW c \in Callers, getToken(c) PROVE VertexInv'
  <2>1. CASE UNCHANGED <<inflight, exchanges>>
    BY <1>1, <2>1 DEF getToken, NoMint
  <2>2. CASE /\ inflight' = [since |-> now, issued |-> 0, life |-> 0]
             /\ inflight = NoMint /\ exchanges' = exchanges + 1
    <3>1. inflight' # NoMint' /\ NoMint' = NoMint
      BY <2>2 DEF NoMint
    <3>2. UNCHANGED <<now, part, token, expiresAt>>
      BY <1>1 DEF getToken
    <3>3. /\ inflight' \in [since : Nat, issued : Nat, life : Nat]
          /\ inflight'.since = now /\ inflight'.issued = 0
      BY <2>2
    <3> QED
      BY <2>2, <3>1, <3>2, <3>3
  <2> QED
    BY <1>1, <2>1, <2>2 DEF getToken
<1>2. CASE Issue
  <2>1. PICK life \in Lifetimes : inflight' = [inflight EXCEPT !.issued = now + life, !.life = life]
    BY <1>2 DEF Issue
  <2>2. life \in Nat /\ now + life \in Nat
    OBVIOUS
  <2>3. /\ inflight' \in [since : Nat, issued : Nat, life : Nat]
        /\ inflight'.since = inflight.since /\ inflight'.issued = now + life /\ inflight'.life = life
    BY <2>1, <2>2
  <2>4. inflight.since <= now /\ now <= MaxTime /\ inflight # NoMint
    BY <1>2 DEF Issue
  <2>5. inflight' # NoMint'
    BY <2>3, <2>4 DEF NoMint
  <2>6. UNCHANGED <<now, part, token, expiresAt, exchanges>>
    BY <1>2 DEF Issue
  <2> QED
    BY <2>2, <2>3, <2>4, <2>5, <2>6
<1>3. CASE Minted
  <2>1. inflight # NoMint
    BY <1>3 DEF Minted, NoMint
  <2>2. /\ token' = inflight.issued /\ expiresAt' = inflight.since + inflight.life
        /\ inflight' = NoMint' /\ exchanges' = exchanges - 1
        /\ UNCHANGED <<now, part>>
    BY <1>3 DEF Minted, NoMint
  <2>3. NoMint' \in [since : Nat, issued : Nat, life : Nat]
    BY DEF NoMint
  <2> QED
    BY <1>3, <2>1, <2>2, <2>3 DEF Minted
<1>4. CASE MintFails
  BY <1>4 DEF MintFails, NoMint
<1>5. CASE VertexTick
  BY <1>5 DEF VertexTick, Advance, vertex, NoMint
<1> QED
  BY <1>1, <1>2, <1>3, <1>4, <1>5 DEF VertexNext

\* What is handed out is alive.
LEMMA VertexAlive == VertexInv /\ VertexNext => (handed' # handed => handed'.expiry > now)
<1> SUFFICES ASSUME VertexInv, VertexNext, handed' # handed PROVE handed'.expiry > now
  OBVIOUS
<1> USE TimeAssumption, VertexAssumption DEF VertexInv, ClockInv
<1>1. ASSUME NEW c \in Callers, getToken(c) PROVE handed'.expiry > now
  BY <1>1 DEF getToken, Cached
<1>2. CASE Minted
  <2>1. inflight # NoMint
    BY <1>2 DEF Minted, NoMint
  <2>2. handed'.expiry = inflight.issued
    BY <1>2 DEF Minted
  <2>3. /\ inflight.life \in Nat /\ MintLimit < inflight.life
        /\ now <= inflight.since + MintLimit /\ inflight.issued >= inflight.since + inflight.life
    BY <1>2, <2>1 DEF Minted
  <2> QED
    BY <2>2, <2>3
<1> QED
  BY <1>1, <1>2 DEF VertexNext, Issue, MintFails, VertexTick, vertex

\* The steps of the other memories leave the exchange alone.
LEMMA VertexStays == VertexInv /\ [Next]_vars => VertexInv'
<1> SUFFICES ASSUME VertexInv, [Next]_vars PROVE VertexInv'
  OBVIOUS
<1>1. CASE part = "vertex" /\ VertexNext
  BY <1>1, VertexKept
<1>2. CASE UNCHANGED vertex /\ UNCHANGED clock
  BY <1>2 DEF VertexInv, ClockInv, vertex, clock, NoMint
<1>3. CASE UNCHANGED vertex /\ part # "vertex" /\ Advance
  BY <1>3, TimeAssumption DEF VertexInv, ClockInv, vertex, Advance, NoMint
<1> QED
  BY <1>1, <1>2, <1>3 DEF Next, vars, BackoffNext, Present, AuthorizeAnswered, BedrockNext, Deliver,
     Apply, Sign, Respawn, Hears, Decrypted, TinfoilNext, Rotate, Get, RouterAnswers, Fetched, Installed,
     FetchFails, IdentityNext, Listen, installIssued, Handshake, Close

\* The steps of the other memories leave the Bedrock credentials alone.
LEMMA BedrockStays == BedrockInv /\ [Next]_vars => BedrockInv'
<1> SUFFICES ASSUME BedrockInv, [Next]_vars PROVE BedrockInv'
  OBVIOUS
<1>1. CASE BedrockNext
  BY <1>1, BedrockKept
<1>2. CASE UNCHANGED bedrock
  BY <1>2 DEF bedrock, BedrockInv, BedrockTypes, BlobsInOrder
<1> QED
  BY <1>1, <1>2 DEF Next, vars

\* bedrockCreds.mjs and vertexAuth.mjs: what a request is signed with or bears is alive
\* at that moment, credentials go back only where decrypts overlapped, and one exchange
\* is open; for any number of workers, blobs, respawns and callers, any lifetimes longer
\* than the exchange may take, and any margins.
THEOREM CredentialsStayGood == Spec => CredentialsGood
<1> DEFINE Step == SignedAlive /\ NeverBackUnlessOverlapped /\ HandedAlive
<1>1. VertexInv /\ VertexInv' /\ BedrockInv /\ [Next]_vars => [Step]_vars
  <2> SUFFICES ASSUME VertexInv, VertexInv', BedrockInv, Next PROVE Step
    OBVIOUS
  <2>1. exchanges' <= 1
    BY DEF VertexInv
  <2>2. handed' # handed => handed'.expiry > now
    BY VertexAlive DEF Next, vertex
  <2>3. CASE BedrockNext
    BY <2>1, <2>2, <2>3, BedrockForward DEF HandedAlive
  <2>4. CASE UNCHANGED bedrock
    BY <2>1, <2>2, <2>4 DEF HandedAlive, bedrock, SignedAlive, NeverBackUnlessOverlapped, BedrockInv, BedrockTypes
  <2> QED
    BY <2>3, <2>4 DEF Next
<1> QED
  BY <1>1, VertexStarts, VertexStays, BedrockStarts, BedrockStays, PTL DEF Spec, CredentialsGood

-----------------------------------------------------------------------------
(* The balance backoff.                                                    *)

Entries == [key : Keys, until : Nat]

\* Every entry is the window horse-power's last answer for its credential opened, and
\* no such window reaches further ahead than the longest wait; the map is bounded.
BackoffInv ==
    /\ ClockInv
    /\ held \in Seq(Entries)
    /\ Len(held) <= MaxTracked
    /\ ask \in [Asks -> Keys \cup {"none"}]
    /\ told \in [Keys -> Nat]
    /\ \A k \in Keys : told[k] <= now + MaxRetryAfter * PerSecond
    /\ \A i \in DOMAIN held : held[i].until = told[held[i].key]

\* Nothing is held at the start.
LEMMA BackoffStarts == Init => BackoffInv
  BY TimeAssumption, BackoffAssumption DEF Init, ClockInit, BackoffInit, BackoffInv, ClockInv, Entries

\* Rounding up to whole seconds: enough, and less than a second more.
LEMMA RoundedUp ==
    ASSUME NEW a \in Nat, NEW p \in Nat \ {0}
    PROVE  LET whole == (a + p - 1) \div p
           IN  whole \in Nat /\ whole * p >= a /\ (whole - 1) * p < a /\ (a > 0 => whole >= 1)
  OBVIOUS

\* A product grows with its factor.
LEMMA Longer == ASSUME NEW a \in Nat, NEW b \in Nat, NEW p \in Nat, a <= b PROVE a * p <= b * p /\ a * p \in Nat
  OBVIOUS

\* The entry of a held credential is its window.
LEMMA EntryIs ==
    ASSUME BackoffInv, NEW k \in HeldKeys
    PROVE  Entry(k).key = k /\ Entry(k).until = told[k] /\ k \in Keys
<1>1. \E e \in {held[i] : i \in DOMAIN held} : e.key = k
  BY DEF HeldKeys
<1>2. Entry(k) \in {held[i] : i \in DOMAIN held} /\ Entry(k).key = k
  BY <1>1 DEF Entry
<1>3. PICK i \in DOMAIN held : Entry(k) = held[i]
  BY <1>2
<1>4. held[i] \in Entries /\ held[i].until = told[held[i].key]
  BY <1>3 DEF BackoffInv
<1> QED
  BY <1>2, <1>3, <1>4 DEF Entries

\* A local answer names what is left of the window horse-power opened.
LEMMA AnswersAsTold ==
    ASSUME BackoffInv, NEW a \in Asks, NEW k \in Keys, Present(a, k) PROVE LocalAnswersAsTold
<1> SUFFICES ASSUME answer' # answer PROVE LocalAnswersAsTold
  BY DEF LocalAnswersAsTold
<1>1. /\ k \in HeldKeys /\ Live(Entry(k))
      /\ answer' = [key |-> k, seconds |-> SecondsLeft(Entry(k))]
  BY DEF Present
<1>2. Entry(k).until = told[k]
  BY <1>1, EntryIs
<1> DEFINE left == told[k] - now
           whole == (left + PerSecond - 1) \div PerSecond
<1>3. told[k] \in Nat /\ now \in Nat /\ PerSecond \in Nat \ {0} /\ MaxRetryAfter \in Nat
  BY BackoffAssumption, TimeAssumption DEF BackoffInv, ClockInv
<1>4. left \in Nat /\ left > 0
  BY <1>1, <1>2, <1>3 DEF Live
<1>5. left <= MaxRetryAfter * PerSecond
  <2>1. told[k] <= now + MaxRetryAfter * PerSecond
    BY DEF BackoffInv
  <2>2. MaxRetryAfter * PerSecond \in Nat
    BY <1>3
  <2> QED
    BY <1>3, <2>1, <2>2
<1>6. whole \in Nat /\ whole >= 1 /\ whole * PerSecond >= left /\ (whole - 1) * PerSecond < left
  <2> HIDE DEF left
  <2> QED
    BY <1>3, <1>4, RoundedUp
<1>7. SecondsLeft(Entry(k)) = whole
  BY <1>2, <1>6 DEF SecondsLeft
<1>8. answer'.seconds = whole /\ answer'.key = k
  BY <1>1, <1>7
<1> QED
  BY <1>4, <1>5, <1>6, <1>8 DEF LocalAnswersAsTold

\* Room is made from what is held, and a running window goes only when the cap is full
\* of running windows.
LEMMA RoomMade ==
    ASSUME BackoffInv
    PROVE  /\ MadeRoom \in Seq(Entries) /\ Len(MadeRoom) < MaxTracked
           /\ \A j \in DOMAIN MadeRoom : \E i \in DOMAIN held : MadeRoom[j] = held[i]
           /\ \A i \in DOMAIN held :
                 \/ ~Live(held[i])
                 \/ \E j \in DOMAIN MadeRoom : MadeRoom[j] = held[i]
                 \/ Len(held) = MaxTracked /\ \A j \in DOMAIN held : Live(held[j])
<1> DEFINE K == {i \in DOMAIN held : Live(held[i])}
           swept == Kept(held, K)
<1>1. /\ held \in Seq(Entries) /\ Len(held) \in Nat /\ Len(held) <= MaxTracked
      /\ MaxTracked \in Nat \ {0} /\ K \in SUBSET DOMAIN held
  BY BackoffAssumption DEF BackoffInv
<1>2. /\ swept \in Seq(Entries) /\ Len(swept) <= Len(held)
      /\ K # DOMAIN held => Len(swept) < Len(held)
      /\ \A j \in DOMAIN swept : \E i \in K : swept[j] = held[i]
      /\ \A i \in K : \E j \in DOMAIN swept : swept[j] = held[i]
  BY <1>1, KeptElements
<1>3. MadeRoom = IF Len(held) < MaxTracked THEN held
                 ELSE IF Len(swept) < MaxTracked THEN swept
                 ELSE SubSeq(swept, Len(swept) - MaxTracked + 2, Len(swept))
  BY DEF MadeRoom
<1>4. \A i \in DOMAIN held : i \in K <=> Live(held[i])
  OBVIOUS
<1> HIDE DEF K, swept
<1>5. CASE Len(held) < MaxTracked
  BY <1>1, <1>3, <1>5
<1>6. CASE ~(Len(held) < MaxTracked) /\ Len(swept) < MaxTracked
  BY <1>1, <1>2, <1>3, <1>4, <1>6
<1>7. CASE ~(Len(held) < MaxTracked) /\ ~(Len(swept) < MaxTracked)
  <2>1. Len(held) = MaxTracked /\ Len(swept) = MaxTracked /\ K = DOMAIN held
    BY <1>1, <1>2, <1>7
  <2>2. MadeRoom = SubSeq(swept, 2, Len(swept))
    BY <1>1, <1>3, <1>7, <2>1
  <2>3. /\ MadeRoom \in Seq(Entries) /\ Len(MadeRoom) = Len(swept) - 1
        /\ \A j \in DOMAIN MadeRoom : MadeRoom[j] = swept[j + 1] /\ j + 1 \in DOMAIN swept
    <3>1. swept \in Seq(Entries) /\ Len(swept) \in Nat \ {0} /\ DOMAIN swept = 1..Len(swept)
      BY <1>1, <1>2, <2>1
    <3>2. MadeRoom \in Seq(Entries) /\ Len(MadeRoom) = Len(swept) - 1 /\ DOMAIN MadeRoom = 1..(Len(swept) - 1)
      BY <2>2, <3>1
    <3>3. \A j \in 1..(Len(swept) - 1) : MadeRoom[j] = swept[j + 1]
      BY <2>2, <3>1
    <3> QED
      BY <3>1, <3>2, <3>3
  <2>4. \A j \in DOMAIN held : Live(held[j])
    BY <1>4, <2>1
  <2>5. \A j \in DOMAIN MadeRoom : \E i \in DOMAIN held : MadeRoom[j] = held[i]
    BY <1>2, <2>1, <2>3
  <2> QED
    BY <1>1, <2>1, <2>3, <2>4, <2>5
<1> QED
  BY <1>5, <1>6, <1>7

\* A lookup that finds nothing running deletes the credential's ended window only.
LEMMA PresentKept ==
    ASSUME BackoffInv, NEW a \in Asks, NEW k \in Keys, Present(a, k)
    PROVE  BackoffInv' /\ LiveEvictedAtCapOnly
<1> USE BackoffAssumption DEF BackoffInv
<1>0. UNCHANGED <<now, part, told>>
  BY DEF Present, clock
<1>1. CASE UNCHANGED <<held, ask>>
  BY <1>0, <1>1 DEF ClockInv, LiveEvictedAtCapOnly
<1>2. CASE /\ ~(k \in HeldKeys /\ Live(Entry(k)))
           /\ held' = Kept(held, {i \in DOMAIN held : held[i].key # k})
           /\ ask' = [ask EXCEPT ![a] = k]
  <2> DEFINE K == {i \in DOMAIN held : held[i].key # k}
  <2>1. /\ held' \in Seq(Entries) /\ Len(held') <= Len(held)
        /\ \A j \in DOMAIN held' : \E i \in K : held'[j] = held[i]
        /\ \A i \in K : \E j \in DOMAIN held' : held'[j] = held[i]
    <3>1. held \in Seq(Entries) /\ K \in SUBSET DOMAIN held /\ held' = Kept(held, K)
      BY <1>2
    <3> HIDE DEF K
    <3> QED
      BY <3>1, KeptElements
  <2>2. Len(held') <= MaxTracked
    BY <2>1
  <2>3. BackoffInv'
    BY <1>0, <1>2, <2>1, <2>2 DEF ClockInv
  <2>4. ASSUME NEW i \in DOMAIN held, Live(held[i]), held[i].key = k PROVE FALSE
    <3>1. k \in HeldKeys
      BY <2>4 DEF HeldKeys
    <3>2. Entry(k).until = held[i].until
      BY <2>4, <3>1, EntryIs
    <3> QED
      BY <1>2, <2>4, <3>1, <3>2 DEF Live
  <2>5. \A i \in DOMAIN held : Live(held[i]) => held[i].key \in {held'[j].key : j \in DOMAIN held'}
    BY <2>1, <2>4
  <2> QED
    BY <2>2, <2>3, <2>5 DEF LiveEvictedAtCapOnly
<1> QED
  BY <1>1, <1>2 DEF Present

\* The wait remembered is the wait horse-power named, within the longest.
LEMMA WaitsAsNamed ==
    ASSUME NEW header \in 0..(MaxRetryAfter + 1), NEW body \in 0..(MaxRetryAfter + 1),
           retryAfterSeconds(header, body) # 0
    PROVE  LET seconds == retryAfterSeconds(header, body)
               named == IF header >= 1 THEN header ELSE body
           IN  /\ seconds = IF named <= MaxRetryAfter THEN named ELSE MaxRetryAfter
               /\ seconds \in 1..MaxRetryAfter
  BY BackoffAssumption DEF retryAfterSeconds

\* An answer of horse-power's opens one window, and every other entry stays or is
\* evicted at the cap.
LEMMA AnsweredKept ==
    ASSUME BackoffInv, NEW a \in Asks, AuthorizeAnswered(a)
    PROVE  BackoffInv' /\ LiveEvictedAtCapOnly
<1> USE BackoffAssumption DEF BackoffInv
<1>0. /\ UNCHANGED <<now, part>> /\ ask' = [ask EXCEPT ![a] = "none"]
      /\ ask[a] \in Keys
  BY DEF AuthorizeAnswered, clock
<1>1. CASE UNCHANGED <<held, told>>
  BY <1>0, <1>1 DEF ClockInv, LiveEvictedAtCapOnly
<1>2. CASE \E header, body \in 0..(MaxRetryAfter + 1) :
             LET seconds == retryAfterSeconds(header, body)
             IN  /\ seconds # 0
                 /\ remember(ask[a], seconds)
                 /\ told' = [told EXCEPT ![ask[a]] = now + PerSecond *
                       LET named == IF header >= 1 THEN header ELSE body
                       IN  IF named <= MaxRetryAfter THEN named ELSE MaxRetryAfter]
  <2>1. PICK header \in 0..(MaxRetryAfter + 1), body \in 0..(MaxRetryAfter + 1) :
             /\ retryAfterSeconds(header, body) # 0
             /\ remember(ask[a], retryAfterSeconds(header, body))
             /\ told' = [told EXCEPT ![ask[a]] = now + PerSecond *
                   LET named == IF header >= 1 THEN header ELSE body
                   IN  IF named <= MaxRetryAfter THEN named ELSE MaxRetryAfter]
    BY <1>2
  <2> DEFINE seconds == retryAfterSeconds(header, body)
             k == ask[a]
             end == now + seconds * PerSecond
             entry == [key |-> k, until |-> end]
  <2>2. seconds \in 1..MaxRetryAfter /\ told' = [told EXCEPT ![k] = now + PerSecond * seconds]
    BY <2>1, WaitsAsNamed
  <2> HIDE DEF seconds
  <2>3. now \in Nat /\ seconds * PerSecond \in Nat /\ PerSecond * seconds = seconds * PerSecond
        /\ seconds * PerSecond <= MaxRetryAfter * PerSecond
    <3>1. now \in Nat /\ seconds \in Nat /\ PerSecond \in Nat /\ seconds <= MaxRetryAfter
      BY <2>2, TimeAssumption DEF ClockInv
    <3> QED
      BY <3>1, Longer
  <2>4. end \in Nat /\ told' = [told EXCEPT ![k] = end] /\ end <= now + MaxRetryAfter * PerSecond
    <3> DEFINE m == MaxRetryAfter * PerSecond
               s == seconds * PerSecond
    <3>1. m \in Nat /\ s \in Nat /\ s <= m /\ end = now + s /\ now \in Nat
      BY <2>3
    <3>2. told' = [told EXCEPT ![k] = end]
      BY <2>2, <2>3
    <3> HIDE DEF m, s, end
    <3>3. end \in Nat /\ end <= now + m
      BY <3>1
    <3> QED
      BY <3>2, <3>3 DEF m
  <2>5. held' = IF k \in HeldKeys
                THEN [i \in DOMAIN held |-> IF held[i].key = k THEN entry ELSE held[i]]
                ELSE Append(MadeRoom, entry)
    BY <2>1 DEF remember, seconds
  <2> HIDE DEF end, k
  <2>6. entry \in Entries /\ k \in Keys
    BY <1>0, <2>4 DEF Entries, k
  <2>7. told' \in [Keys -> Nat] /\ \A c \in Keys : told'[c] <= now' + MaxRetryAfter * PerSecond
    BY <1>0, <2>4
  <2>8. CASE k \in HeldKeys
    <3>1. held' = [i \in DOMAIN held |-> IF held[i].key = k THEN entry ELSE held[i]]
      BY <2>5, <2>8
    <3>2. held' \in Seq(Entries) /\ Len(held') = Len(held) /\ DOMAIN held' = DOMAIN held
      <4>1. held \in Seq(Entries) /\ DOMAIN held = 1..Len(held) /\ Len(held) \in Nat
        OBVIOUS
      <4>2. \A i \in 1..Len(held) : held[i] \in Entries
        BY <4>1
      <4> HIDE DEF entry
      <4>3. held' \in [1..Len(held) -> Entries]
        BY <2>6, <3>1, <4>1, <4>2
      <4> QED
        BY <4>1, <4>3
    <3>3. \A i \in DOMAIN held : held'[i].key = held[i].key /\ held[i].key \in Keys
      <4> SUFFICES ASSUME NEW i \in DOMAIN held PROVE held'[i].key = held[i].key /\ held[i].key \in Keys
        OBVIOUS
      <4>1. held[i] \in Entries
        OBVIOUS
      <4>2. held'[i] = IF held[i].key = k THEN entry ELSE held[i]
        BY <3>1
      <4> QED
        BY <4>1, <4>2 DEF Entries
    <3>4. \A i \in DOMAIN held' : held'[i].until = told'[held'[i].key]
      BY <2>4, <2>6, <3>1, <3>2, <3>3
    <3> QED
      BY <1>0, <2>7, <3>2, <3>3, <3>4 DEF ClockInv, LiveEvictedAtCapOnly
  <2>9. CASE k \notin HeldKeys
    <3> DEFINE room == MadeRoom
    <3>1. held' = Append(room, entry)
      BY <2>5, <2>9
    <3>2. /\ room \in Seq(Entries) /\ Len(room) < MaxTracked
          /\ \A j \in DOMAIN room : \E i \in DOMAIN held : room[j] = held[i]
          /\ \A i \in DOMAIN held :
                \/ ~Live(held[i])
                \/ \E j \in DOMAIN room : room[j] = held[i]
                \/ Len(held) = MaxTracked /\ \A j \in DOMAIN held : Live(held[j])
      BY RoomMade
    <3> HIDE DEF room
    <3>3. /\ held' \in Seq(Entries) /\ Len(held') <= MaxTracked
          /\ \A j \in DOMAIN room : j \in DOMAIN held' /\ held'[j] = room[j]
          /\ \A j \in DOMAIN held' : held'[j] = entry \/ (j \in DOMAIN room /\ held'[j] = room[j])
      BY <2>6, <3>1, <3>2
    <3>4. \A i \in DOMAIN held : held[i].key # k /\ held[i].key \in Keys /\ held[i].until = told[held[i].key]
      <4> SUFFICES ASSUME NEW i \in DOMAIN held
                   PROVE  held[i].key # k /\ held[i].key \in Keys /\ held[i].until = told[held[i].key]
        OBVIOUS
      <4>1. held[i] \in Entries
        OBVIOUS
      <4> QED
        BY <2>9, <4>1 DEF HeldKeys, Entries
    <3>5. \A j \in DOMAIN held' : held'[j].until = told'[held'[j].key]
      BY <2>4, <2>6, <3>2, <3>3, <3>4
    <3>6. LiveEvictedAtCapOnly
      BY <3>2, <3>3 DEF LiveEvictedAtCapOnly
    <3> QED
      BY <1>0, <2>7, <3>3, <3>5, <3>6 DEF ClockInv
  <2> QED
    BY <2>8, <2>9
<1> QED
  BY <1>1, <1>2 DEF AuthorizeAnswered

\* The backoff's invariant holds whichever memory a step is of.
LEMMA BackoffStays == BackoffInv /\ [Next]_vars => BackoffInv'
<1> SUFFICES ASSUME BackoffInv, [Next]_vars PROVE BackoffInv'
  OBVIOUS
<1>1. CASE BackoffNext
  BY <1>1, PresentKept, AnsweredKept DEF BackoffNext
<1>2. CASE UNCHANGED backoff /\ UNCHANGED clock
  BY <1>2 DEF BackoffInv, ClockInv, backoff, clock
<1>3. CASE UNCHANGED backoff /\ Advance
  <2>1. now \in Nat /\ now' = now + 1 /\ now' \in 0..MaxTime /\ part' = part /\ UNCHANGED <<held, ask, told>>
    BY <1>3, TimeAssumption DEF BackoffInv, ClockInv, backoff, Advance
  <2>2. MaxRetryAfter * PerSecond \in Nat
    BY BackoffAssumption
  <2>3. ASSUME NEW k \in Keys PROVE told'[k] <= now' + MaxRetryAfter * PerSecond
    <3>1. told[k] \in Nat /\ told[k] <= now + MaxRetryAfter * PerSecond
      BY DEF BackoffInv
    <3> QED
      BY <2>1, <2>2, <3>1
  <2> QED
    BY <2>1, <2>3 DEF BackoffInv, ClockInv
<1> QED
  BY <1>1, <1>2, <1>3 DEF Next, vars, BedrockNext, Deliver, Apply, Sign, Respawn, Hears, Decrypted,
     VertexNext, getToken, Issue, Minted, MintFails, VertexTick, vertex,
     TinfoilNext, Rotate, Get, RouterAnswers, Fetched, Installed, FetchFails,
     IdentityNext, Listen, installIssued, Handshake, Close

\* balanceBackoff.mjs: a credential is answered locally only with what is left of the
\* window horse-power opened, rounded up to a second, and a running window is forgotten
\* only when the map is full of them; for any number of credentials and round trips, any
\* cap, any longest wait and any length of a tick.
THEOREM BackoffStaysAsTold == Spec => BackoffAsTold
<1>1. BackoffInv /\ [Next]_vars => [LocalAnswersAsTold /\ LiveEvictedAtCapOnly]_vars
  <2> SUFFICES ASSUME BackoffInv, Next PROVE LocalAnswersAsTold /\ LiveEvictedAtCapOnly
    OBVIOUS
  <2>1. ASSUME NEW a \in Asks, NEW k \in Keys, Present(a, k) PROVE LocalAnswersAsTold /\ LiveEvictedAtCapOnly
    BY <2>1, AnswersAsTold, PresentKept
  <2>2. ASSUME NEW a \in Asks, AuthorizeAnswered(a) PROVE LocalAnswersAsTold /\ LiveEvictedAtCapOnly
    BY <2>2, AnsweredKept DEF AuthorizeAnswered, LocalAnswersAsTold
  <2>3. CASE UNCHANGED backoff
    BY <2>3 DEF backoff, BackoffInv, LocalAnswersAsTold, LiveEvictedAtCapOnly
  <2> QED
    BY <2>1, <2>2, <2>3 DEF Next, BackoffNext
<1> QED
  BY <1>1, BackoffStarts, BackoffStays, PTL DEF Spec, BackoffAsTold
=============================================================================
