---------------------------- MODULE FleetProofs ----------------------------
(***************************************************************************)
(* Proofs about Fleet for every number of workers, names, exits and        *)
(* certificates.  A worker catches up with the primary along its own pipe, *)
(* so what it will agree on is decided by the LAST message in the pipe     *)
(* that says anything about it: a state message or an issued one for the   *)
(* certificate; a state message, a challenge or a clear of the name for a  *)
(* challenge.  An order's challenge is held by everyone it is not still    *)
(* waiting for.                                                            *)
(***************************************************************************)
EXTENDS Fleet, TLAPS

-----------------------------------------------------------------------------
(* The last word of a pipe.                                                *)

\* No message of s is one of S.
Silent(s, S) == \A i \in 1..Len(s) : s[i] \notin S

\* The last message of s that is one of S, if there is one, is one of G.
LastWord(s, S, G) ==
    \A i \in 1..Len(s) :
        s[i] \in S /\ (\A j \in 1..Len(s) : j > i => s[j] \notin S) => s[i] \in G

\* A message that is sent is the last word on what it is about.
LEMMA Told ==
    ASSUME NEW T, NEW s \in Seq(T), NEW m \in T, NEW S, NEW G, m \in S, m \in G
    PROVE  LastWord(Append(s, m), S, G) /\ ~Silent(Append(s, m), S)
<1>1. /\ Len(Append(s, m)) = Len(s) + 1 /\ Len(s) \in Nat
      /\ Append(s, m)[Len(s) + 1] = m
  OBVIOUS
<1>2. ~Silent(Append(s, m), S)
  BY <1>1 DEF Silent
<1>3. ASSUME NEW i \in 1..Len(Append(s, m)),
             \A j \in 1..Len(Append(s, m)) : j > i => Append(s, m)[j] \notin S
      PROVE  Append(s, m)[i] \in G
  BY <1>1, <1>3
<1> QED
  BY <1>2, <1>3 DEF LastWord

\* A message about something else changes nothing.
LEMMA NotTold ==
    ASSUME NEW T, NEW s \in Seq(T), NEW m \in T, NEW S, NEW G, m \notin S
    PROVE  /\ LastWord(s, S, G) => LastWord(Append(s, m), S, G)
           /\ Silent(Append(s, m), S) => Silent(s, S)
<1>1. /\ Len(Append(s, m)) = Len(s) + 1 /\ Len(s) \in Nat
      /\ Append(s, m)[Len(s) + 1] = m
      /\ \A i \in 1..Len(s) : Append(s, m)[i] = s[i]
  OBVIOUS
<1>2. Silent(Append(s, m), S) => Silent(s, S)
  BY <1>1 DEF Silent
<1>3. ASSUME LastWord(s, S, G), NEW i \in 1..Len(Append(s, m)), Append(s, m)[i] \in S,
             \A j \in 1..Len(Append(s, m)) : j > i => Append(s, m)[j] \notin S
      PROVE  Append(s, m)[i] \in G
  <2>1. i \in 1..Len(s)
    BY <1>1, <1>3
  <2>2. \A j \in 1..Len(s) : j > i => s[j] \notin S
    BY <1>1, <1>3
  <2> QED
    BY <1>1, <1>3, <2>1, <2>2 DEF LastWord
<1> QED
  BY <1>2, <1>3 DEF LastWord

\* What a worker takes from its pipe is either not the last word, or is what the
\* last word was.
LEMMA Taken ==
    ASSUME NEW T, NEW s \in Seq(T), NEW S, NEW G, s # <<>>
    PROVE  /\ LastWord(s, S, G) => LastWord(Tail(s), S, G)
           /\ Silent(Tail(s), S) /\ Head(s) \notin S => Silent(s, S)
           /\ Silent(Tail(s), S) /\ Head(s) \in S /\ LastWord(s, S, G) => Head(s) \in G
<1>1. /\ Len(Tail(s)) = Len(s) - 1 /\ Len(s) \in Nat \ {0} /\ Head(s) = s[1]
      /\ \A i \in 1..Len(s) - 1 : Tail(s)[i] = s[i + 1]
  OBVIOUS
<1>2. \A i \in 2..Len(s) : i - 1 \in 1..Len(Tail(s)) /\ s[i] = Tail(s)[i - 1]
  BY <1>1
<1>3. ASSUME LastWord(s, S, G), NEW i \in 1..Len(Tail(s)), Tail(s)[i] \in S,
             \A j \in 1..Len(Tail(s)) : j > i => Tail(s)[j] \notin S
      PROVE  Tail(s)[i] \in G
  <2>1. i + 1 \in 1..Len(s) /\ s[i + 1] \in S
    BY <1>1, <1>3
  <2>2. \A j \in 1..Len(s) : j > i + 1 => s[j] \notin S
    BY <1>1, <1>2, <1>3
  <2> QED
    BY <1>1, <1>3, <2>1, <2>2 DEF LastWord
<1>4. ASSUME Silent(Tail(s), S) PROVE \A i \in 2..Len(s) : s[i] \notin S
  BY <1>2, <1>4 DEF Silent
<1>5. Silent(Tail(s), S) /\ Head(s) \notin S => Silent(s, S)
  BY <1>1, <1>4 DEF Silent
<1>6. Silent(Tail(s), S) /\ Head(s) \in S /\ LastWord(s, S, G) => Head(s) \in G
  BY <1>1, <1>4 DEF LastWord
<1> QED
  BY <1>3, <1>5, <1>6 DEF LastWord

-----------------------------------------------------------------------------
(* Types.                                                                  *)

Messages ==
    [type : {"state"}, cert : Nat, chal : SUBSET Names]
        \cup [type : {"issued"}, cert : Nat]
        \cup [type : {"challenge", "clear"}, name : Names, ack : Nat]

Replies == [type : {"ack"}, ack : Nat] \cup [type : {"listening"}]

\* The two directions of every pipe; a worker that is down has none.
PipesOK ==
    /\ chan \in [Workers -> Seq(Messages)]
    /\ back \in [Workers -> Seq(Replies)]
    /\ \A w \in Workers : phase[w] = "down" => chan[w] = <<>> /\ back[w] = <<>>

TypeInv == TypeOK /\ PipesOK

\* A broadcast puts its message at the end of the pipe of every worker that is up.
LEMMA BroadcastType ==
    ASSUME TypeInv, NEW m \in Messages, Broadcast(m)
    PROVE  /\ chan' \in [Workers -> Seq(Messages)]
           /\ \A w \in Workers : phase[w] = "down" => chan'[w] = chan[w]
           /\ \A w \in Workers : phase[w] # "down" => chan'[w] = Append(chan[w], m)
<1>1. \A w \in Workers : chan[w] \in Seq(Messages) /\ Append(chan[w], m) \in Seq(Messages)
  BY DEF TypeInv, PipesOK
<1> QED
  BY <1>1 DEF Broadcast, Live

\* The order's own steps keep the types.
LEMMA TypeOrder ==
    ASSUME TypeInv, Arm \/ Validated \/ Clear \/ AckTimeout \/ Finalized \/ CiInstall
    PROVE  TypeInv'
<1> USE FleetAssumption
<1>1. CASE Arm
  <2>0. cur' \in Names /\ chal' \subseteq Names
    BY <1>1 DEF Arm, TypeInv, TypeOK
  <2>1. CASE BroadcastAcked("challenge") /\ order' = "arming"
    <3> DEFINE m == [type |-> "challenge", name |-> cur', ack |-> ackId + 1]
    <3>1. m \in Messages /\ Broadcast(m)
      BY <2>0, <2>1 DEF BroadcastAcked, Messages, TypeInv, TypeOK
    <3> HIDE DEF m
    <3>2. PipesOK'
      BY <1>1, <3>1, BroadcastType DEF Arm, TypeInv, PipesOK, worker
    <3>3. TypeOK'
      BY <1>1, <2>0, <2>1 DEF Arm, BroadcastAcked, TypeInv, TypeOK, Live, Orders, worker, dying
    <3> QED
      BY <3>2, <3>3 DEF TypeInv
  <2>2. CASE order' = "validating" /\ UNCHANGED <<chan, acking>>
    BY <1>1, <2>0, <2>2 DEF Arm, TypeInv, TypeOK, PipesOK, Live, Orders, worker, acking, dying
  <2> QED
    BY <1>1, <2>1, <2>2 DEF Arm
<1>2. CASE Validated
  BY <1>2 DEF Validated, TypeInv, TypeOK, PipesOK, Live, Orders, worker, primary, acking, dying
<1>3. CASE Clear
  <2>0. cur' \in Names /\ chal' \subseteq Names
    BY <1>3 DEF Clear, TypeInv, TypeOK
  <2>1. CASE BroadcastAcked("clear") /\ order' = "clearing" /\ UNCHANGED todo
    <3> DEFINE m == [type |-> "clear", name |-> cur', ack |-> ackId + 1]
    <3>1. m \in Messages /\ Broadcast(m)
      BY <2>0, <2>1 DEF BroadcastAcked, Messages, TypeInv, TypeOK
    <3> HIDE DEF m
    <3>2. PipesOK'
      BY <1>3, <3>1, BroadcastType DEF Clear, TypeInv, PipesOK, worker
    <3>3. TypeOK'
      BY <1>3, <2>0, <2>1 DEF Clear, BroadcastAcked, TypeInv, TypeOK, Live, Orders, worker, dying
    <3> QED
      BY <3>2, <3>3 DEF TypeInv
  <2>2. CASE /\ order' = IF failed THEN "failed" ELSE "between"
             /\ todo' = todo \ {cur}
             /\ UNCHANGED <<chan, acking>>
    BY <1>3, <2>0, <2>2 DEF Clear, TypeInv, TypeOK, PipesOK, Live, Orders, worker, acking, dying
  <2> QED
    BY <1>3, <2>1, <2>2 DEF Clear
<1>4. CASE AckTimeout
  BY <1>4 DEF AckTimeout, AckDone, TypeInv, TypeOK, PipesOK, Live, Orders, worker, primary, dying
<1>5. ASSUME persistIssued, UNCHANGED <<worker, back, chal, listening, acking, cur, todo, failed, dying>>,
             order' \in Orders
      PROVE  TypeInv'
  <2> DEFINE m == [type |-> "issued", cert |-> cert + 1]
  <2>1. m \in Messages /\ Broadcast(m)
    BY <1>5 DEF persistIssued, Messages, TypeInv, TypeOK
  <2> HIDE DEF m
  <2>2. PipesOK'
    BY <1>5, <2>1, BroadcastType DEF TypeInv, PipesOK, worker
  <2>3. TypeOK'
    BY <1>5 DEF persistIssued, TypeInv, TypeOK, Live, worker, acking, dying
  <2> QED
    BY <2>2, <2>3 DEF TypeInv
<1>6. CASE Finalized
  <2>1. CASE persistIssued /\ order' = "done"
    BY <1>5, <1>6, <2>1 DEF Finalized, Orders
  <2>2. CASE order' = "failed" /\ UNCHANGED <<cert, chan>>
    BY <1>6, <2>2 DEF Finalized, TypeInv, TypeOK, PipesOK, Live, Orders, worker, acking, dying
  <2> QED
    BY <1>6, <2>1, <2>2 DEF Finalized
<1>7. CASE CiInstall
  BY <1>5, <1>7 DEF CiInstall, ordering, TypeInv, TypeOK
<1> QED
  BY <1>1, <1>2, <1>3, <1>4, <1>6, <1>7

\* A worker's steps keep the types.
LEMMA TypeWorker ==
    ASSUME TypeInv, NEW w \in Workers,
           Spawn(w) \/ Online(w) \/ Receive(w) \/ Attach(w) \/ Listen(w)
    PROVE  TypeInv'
<1>1. CASE Spawn(w)
  BY <1>1 DEF Spawn, TypeInv, TypeOK, PipesOK, Live, Phases, primary, acking, ordering, dying
<1>2. CASE Online(w)
  <2> DEFINE m == [type |-> "state", cert |-> cert, chal |-> chal]
  <2>1. m \in Messages
    BY DEF Messages, TypeInv, TypeOK
  <2> HIDE DEF m
  <2>2. chan' = [chan EXCEPT ![w] = Append(chan[w], m)]
    BY <1>2 DEF Online, m
  <2>3. PipesOK'
    BY <1>2, <2>1, <2>2 DEF Online, TypeInv, TypeOK, PipesOK, Phases
  <2>4. TypeOK'
    BY <1>2 DEF Online, TypeInv, TypeOK, Live, Phases, primary, acking, ordering, dying
  <2> QED
    BY <2>3, <2>4 DEF TypeInv
<1>3. CASE Receive(w)
  <2> DEFINE m == Head(chan[w])
  <2>1. m \in Messages /\ Tail(chan[w]) \in Seq(Messages)
    BY <1>3 DEF Receive, TypeInv, PipesOK
  <2>2. AwaitState(w, m) \/ Unheard(w, m) \/ Apply(w, m)
    BY <1>3 DEF Receive
  <2>3. chan' = [chan EXCEPT ![w] = Tail(chan[w])] /\ chan[w] # <<>>
        /\ UNCHANGED <<primary, acking, ordering, dying>>
    BY <1>3 DEF Receive
  <2> HIDE DEF m
  <2>4. CASE AwaitState(w, m)
    <3>1. snap' \in [Workers -> [cert : Nat, chal : SUBSET Names]]
      <4>1. CASE m.type = "state" /\ snap' = [snap EXCEPT ![w] = [cert |-> m.cert, chal |-> m.chal]]
        <5>1. [cert |-> m.cert, chal |-> m.chal] \in [cert : Nat, chal : SUBSET Names]
          BY <2>1, <4>1 DEF Messages
        <5> QED
          BY <4>1, <5>1 DEF TypeInv, TypeOK
      <4>2. CASE UNCHANGED snap
        BY <4>2 DEF TypeInv, TypeOK
      <4> QED
        BY <2>4, <4>1, <4>2 DEF AwaitState
    <3>2. phase' \in [Workers -> Phases] /\ Live' = Live
      BY <2>4 DEF AwaitState, TypeInv, TypeOK, Live, Phases
    <3>3. TypeOK'
      BY <2>3, <2>4, <3>1, <3>2 DEF AwaitState, TypeInv, TypeOK, primary, acking, ordering, dying
    <3>4. PipesOK'
      BY <2>1, <2>3, <2>4 DEF AwaitState, TypeInv, TypeOK, PipesOK
    <3> QED
      BY <3>3, <3>4 DEF TypeInv
  <2>5. CASE Unheard(w, m)
    BY <2>1, <2>3, <2>5 DEF Unheard, TypeInv, TypeOK, PipesOK, Live, primary, acking, ordering, dying
  <2>6. CASE Apply(w, m)
    <3>0. wcert' \in [Workers -> Nat] /\ wchal' \in [Workers -> SUBSET Names]
      <4>1. CASE m.type = "issued" /\ wcert' = [wcert EXCEPT ![w] = m.cert] /\ UNCHANGED wchal
        <5>1. m.cert \in Nat
          BY <2>1, <4>1 DEF Messages
        <5> QED
          BY <4>1, <5>1 DEF TypeInv, TypeOK
      <4>2. CASE /\ m.type \in {"challenge", "clear"}
                 /\ UNCHANGED wcert
                 /\ \/ wchal' = [wchal EXCEPT ![w] = @ \cup {m.name}]
                    \/ wchal' = [wchal EXCEPT ![w] = @ \ {m.name}]
        <5>1. m.name \in Names
          BY <2>1, <4>2 DEF Messages
        <5> QED
          BY <4>2, <5>1 DEF TypeInv, TypeOK
      <4> QED
        BY <2>6, <4>1, <4>2 DEF Apply
    <3>1. TypeOK'
      BY <2>3, <2>6, <3>0 DEF Apply, TypeInv, TypeOK, Live, primary, acking, ordering, dying
    <3>2. back' \in [Workers -> Seq(Replies)]
      <4>1. CASE UNCHANGED back
        BY <4>1 DEF TypeInv, PipesOK
      <4>2. CASE /\ m.type \in {"challenge", "clear"}
                 /\ back' = [back EXCEPT ![w] = Append(@, [type |-> "ack", ack |-> m.ack])]
        <5> DEFINE r == [type |-> "ack", ack |-> m.ack]
        <5>1. r \in Replies
          BY <2>1, <4>2 DEF Messages, Replies
        <5> HIDE DEF r
        <5>2. back' = [back EXCEPT ![w] = Append(back[w], r)]
          BY <4>2 DEF r
        <5> QED
          BY <5>1, <5>2 DEF TypeInv, PipesOK
      <4> QED
        BY <2>6, <4>1, <4>2 DEF Apply
    <3>3. PipesOK'
      BY <2>1, <2>3, <2>6, <3>2 DEF Apply, TypeInv, TypeOK, PipesOK
    <3> QED
      BY <3>1, <3>3 DEF TypeInv
  <2> QED
    BY <2>2, <2>4, <2>5, <2>6
<1>4. CASE Attach(w)
  BY <1>4 DEF Attach, TypeInv, TypeOK, PipesOK, Live, Phases, primary, acking, ordering, dying
<1>5. CASE Listen(w)
  <2> DEFINE r == [type |-> "listening"]
  <2>1. r \in Replies
    BY DEF Replies
  <2> HIDE DEF r
  <2>2. back' = [back EXCEPT ![w] = Append(back[w], r)]
    BY <1>5 DEF Listen, r
  <2>3. PipesOK'
    BY <1>5, <2>1, <2>2 DEF Listen, TypeInv, TypeOK, PipesOK
  <2>4. TypeOK'
    BY <1>5 DEF Listen, TypeInv, TypeOK, Live, Phases, primary, acking, ordering, dying
  <2> QED
    BY <2>3, <2>4 DEF TypeInv
<1> QED
  BY <1>1, <1>2, <1>3, <1>4, <1>5

\* The primary's side of the pipe and an exit keep the types.
LEMMA TypePrimary ==
    ASSUME TypeInv, NEW w \in Workers, OnMessage(w) \/ Exit(w)
    PROVE  TypeInv'
<1> USE FleetAssumption
<1>1. CASE OnMessage(w)
  <2> DEFINE m == Head(back[w])
  <2>1. Tail(back[w]) \in Seq(Replies) /\ phase[w] # "down"
    BY <1>1 DEF OnMessage, TypeInv, PipesOK
  <2>2. OnAck(w, m) \/ OnListening(w, m)
    BY <1>1 DEF OnMessage
  <2> HIDE DEF m
  <2>3. PipesOK'
    BY <1>1, <2>1 DEF OnMessage, TypeInv, PipesOK, worker
  <2>4. CASE OnAck(w, m)
    BY <1>1, <2>3, <2>4 DEF OnAck, DropPending, AckDone, OnMessage, TypeInv, TypeOK, Live, Orders, worker, dying
  <2>5. CASE OnListening(w, m)
    BY <1>1, <2>1, <2>3, <2>5 DEF OnListening, OnMessage, TypeInv, TypeOK, Live, Orders, worker, dying
  <2> QED
    BY <2>2, <2>4, <2>5
<1>2. CASE Exit(w)
  <2>1. PipesOK'
    BY <1>2 DEF Exit, Gone, TypeInv, PipesOK
  <2>2. fastFailures' \in Nat
    BY <1>2 DEF Exit, TypeInv, TypeOK
  <2>3. alive' \in BOOLEAN
    <3>1. CASE fastFailures' < MaxFastFailures
      BY <1>2, <3>1, Zenon DEF Exit
    <3>2. CASE ~(fastFailures' < MaxFastFailures)
      <4>1. alive' = (fastFailures' < MaxFastFailures)
        BY <1>2 DEF Exit
      <4>2. (fastFailures' < MaxFastFailures) = FALSE
        BY <2>2, <3>2
      <4> QED
        BY <4>1, <4>2, Zenon
    <3> QED
      BY <3>1, <3>2
  <2>4. order' \in Orders /\ todo' \subseteq Names /\ pending' \subseteq Workers
    BY <1>2 DEF Exit, DropPending, AckDone, TypeInv, TypeOK, Orders
  <2>5. phase' \in [Workers -> Phases] /\ missed' \subseteq Workers /\ listening' \subseteq Live'
    BY <1>2 DEF Exit, Gone, NotListening, TypeInv, TypeOK, Phases, Live
  <2>6. /\ snap' \in [Workers -> [cert : Nat, chal : SUBSET Names]]
        /\ wcert' \in [Workers -> Nat] /\ wchal' \in [Workers -> SUBSET Names]
    BY <1>2 DEF Exit, Gone, None, TypeInv, TypeOK
  <2>7. deaths' \in Nat /\ UNCHANGED <<cert, chal, ackId, cur, failed>>
    BY <1>2 DEF Exit, TypeInv, TypeOK
  <2> QED
    BY <2>1, <2>2, <2>3, <2>4, <2>5, <2>6, <2>7 DEF TypeInv, TypeOK
<1> QED
  BY <1>1, <1>2

\* The types are an invariant: what a pipe carries, and that a worker that is down
\* has nothing in it and is not counted as listening.
THEOREM TypeCorrect == Spec => []TypeInv
<1>1. Init => TypeInv
  <2> SUFFICES ASSUME Init PROVE TypeInv
    OBVIOUS
  <2>1. PipesOK
    BY DEF Init, PipesOK
  <2>2. TypeOK
    BY FleetAssumption DEF Init, TypeOK, None, Live, Phases, Orders
  <2> QED
    BY <2>1, <2>2 DEF TypeInv
<1>2. TypeInv /\ [Next]_vars => TypeInv'
  <2>1. ASSUME TypeInv, UNCHANGED vars PROVE TypeInv'
    BY <2>1 DEF TypeInv, TypeOK, PipesOK, Live, vars, worker, primary, acking, ordering, dying
  <2> QED
    BY <2>1, TypeOrder, TypeWorker, TypePrimary DEF Next
<1> QED
  BY <1>1, <1>2, PTL DEF Spec

-----------------------------------------------------------------------------
(* A worker catches up.                                                    *)

\* The messages that say which certificate is current, and those that say it rightly.
AboutCert == {m \in Messages : m.type \in {"state", "issued"}}
TellsCert == {m \in AboutCert : m.cert = cert}

\* The messages that say whether the challenge of n is armed, and those that say it
\* rightly.
AboutName(n) ==
    {m \in Messages : m.type = "state" \/ (m.type \in {"challenge", "clear"} /\ m.name = n)}
Armed(m, n) == m.type = "challenge" \/ (m.type = "state" /\ n \in m.chal)
TellsName(n) == {m \in AboutName(n) : Armed(m, n) <=> n \in chal}

\* What a worker has, or will have when it is initialised.
HeldCert(w) == IF phase[w] = "initialising" THEN snap[w].cert ELSE wcert[w]
HeldChal(w) == IF phase[w] = "initialising" THEN snap[w].chal ELSE wchal[w]

\* The last word in a worker's pipe is right; where the pipe has none, what the worker
\* has is, unless it missed a message; and a worker that waits for the state has it coming.
CatchesUp(w) ==
    /\ LastWord(chan[w], AboutCert, TellsCert)
    /\ \A n \in Names : LastWord(chan[w], AboutName(n), TellsName(n))
    /\ phase[w] = "online" => \E i \in 1..Len(chan[w]) : chan[w][i].type = "state"
    /\ w \notin missed /\ phase[w] \in {"initialising", "ready", "listening"} =>
          /\ Silent(chan[w], AboutCert) => HeldCert(w) = cert
          /\ \A n \in Names : Silent(chan[w], AboutName(n)) => (n \in HeldChal(w) <=> n \in chal)

CatchInv == \A w \in Workers : CatchesUp(w)

\* A worker with an empty pipe that has not started catches up.
LEMMA CaughtEmpty ==
    ASSUME NEW w \in Workers, chan[w] = <<>>, phase[w] \in {"down", "forked"}
    PROVE  CatchesUp(w)
<1>1. Len(chan[w]) = 0
  OBVIOUS
<1> QED
  BY <1>1 DEF CatchesUp, LastWord

\* A worker no step touches catches up as before.
LEMMA CaughtSame ==
    ASSUME NEW w \in Workers, CatchesUp(w), UNCHANGED <<cert, chal>>,
           chan'[w] = chan[w], phase'[w] = phase[w], snap'[w] = snap[w],
           wcert'[w] = wcert[w], wchal'[w] = wchal[w], w \in missed => w \in missed'
    PROVE  CatchesUp(w)'
<1>1. TellsCert' = TellsCert /\ AboutCert' = AboutCert
  BY DEF TellsCert, AboutCert, Messages
<1>2. \A n : TellsName(n)' = TellsName(n) /\ AboutName(n)' = AboutName(n)
  BY DEF TellsName, AboutName, Messages, Armed
<1> QED
  BY <1>1, <1>2 DEF CatchesUp, LastWord, Silent, HeldCert, HeldChal

\* A worker that is sent a message which is right on what it is about, and which is
\* about all that changes, still catches up.
LEMMA CaughtTold ==
    ASSUME TypeInv, NEW w \in Workers, CatchesUp(w), NEW m \in Messages,
           chan'[w] = Append(chan[w], m), phase'[w] = phase[w], snap'[w] = snap[w],
           wcert'[w] = wcert[w], wchal'[w] = wchal[w], missed' = missed,
           m \in AboutCert => m.cert = cert',
           m \notin AboutCert => cert' = cert,
           \A n \in Names : m \in AboutName(n) => (Armed(m, n) <=> n \in chal'),
           \A n \in Names : m \notin AboutName(n) => (n \in chal' <=> n \in chal)
    PROVE  CatchesUp(w)'
<1> DEFINE s == chan[w]
<1>0. s \in Seq(Messages) /\ AboutCert' = AboutCert /\ \A n \in Names : AboutName(n)' = AboutName(n)
  BY DEF TypeInv, PipesOK, AboutCert, AboutName, Messages
<1>1. /\ LastWord(Append(s, m), AboutCert, TellsCert')
      /\ Silent(Append(s, m), AboutCert) => Silent(s, AboutCert) /\ cert' = cert
  <2>1. CASE m \in AboutCert
    <3>1. m \in TellsCert'
      BY <2>1, <1>0 DEF TellsCert
    <3> QED
      BY <1>0, <2>1, <3>1, Told
  <2>2. CASE m \notin AboutCert
    <3>1. TellsCert' = TellsCert
      BY <1>0, <2>2 DEF TellsCert
    <3>2. LastWord(s, AboutCert, TellsCert)
      BY DEF CatchesUp
    <3> QED
      BY <1>0, <2>2, <3>1, <3>2, NotTold
  <2> QED
    BY <2>1, <2>2
<1>2. ASSUME NEW n \in Names
      PROVE  /\ LastWord(Append(s, m), AboutName(n), TellsName(n)')
             /\ Silent(Append(s, m), AboutName(n)) =>
                   Silent(s, AboutName(n)) /\ (n \in chal' <=> n \in chal)
  <2>1. CASE m \in AboutName(n)
    <3>1. m \in TellsName(n)'
      BY <2>1, <1>0 DEF TellsName, Armed
    <3> QED
      BY <1>0, <2>1, <3>1, Told
  <2>2. CASE m \notin AboutName(n)
    <3>1. TellsName(n)' = TellsName(n)
      BY <1>0, <2>2 DEF TellsName, Armed
    <3>2. LastWord(s, AboutName(n), TellsName(n))
      BY DEF CatchesUp
    <3> QED
      BY <1>0, <2>2, <3>1, <3>2, NotTold
  <2> QED
    BY <2>1, <2>2
<1>3. phase[w] = "online" =>
          \E i \in 1..Len(Append(s, m)) : Append(s, m)[i].type = "state"
  <2>1. /\ Len(Append(s, m)) = Len(s) + 1 /\ Len(s) \in Nat
        /\ \A i \in 1..Len(s) : Append(s, m)[i] = s[i]
    BY <1>0
  <2> QED
    BY <2>1 DEF CatchesUp
<1> QED
  BY <1>0, <1>1, <1>2, <1>3 DEF CatchesUp, HeldCert, HeldChal

\* What a broadcast tells everyone who is up is right: everyone still catches up.
LEMMA CaughtBroadcast ==
    ASSUME TypeInv, CatchInv, NEW m \in Messages, Broadcast(m), UNCHANGED worker,
           m \in AboutCert => m.cert = cert',
           m \notin AboutCert => cert' = cert,
           \A n \in Names : m \in AboutName(n) => (Armed(m, n) <=> n \in chal'),
           \A n \in Names : m \notin AboutName(n) => (n \in chal' <=> n \in chal)
    PROVE  CatchInv'
<1> SUFFICES ASSUME NEW w \in Workers PROVE CatchesUp(w)'
  BY DEF CatchInv
<1>1. CatchesUp(w) /\ UNCHANGED <<phase, snap, wcert, wchal, missed>>
  BY DEF CatchInv, worker
<1>2. CASE phase[w] = "down"
  <2>1. chan'[w] = <<>> /\ phase'[w] = "down"
    BY <1>1, <1>2, BroadcastType DEF TypeInv, PipesOK
  <2>2. Len(chan'[w]) = 0
    BY <2>1
  <2> QED
    BY <2>1, <2>2 DEF CatchesUp, LastWord
<1>3. CASE phase[w] # "down"
  <2>1. chan'[w] = Append(chan[w], m)
    BY <1>3, BroadcastType
  <2> QED
    BY <1>1, <2>1, CaughtTold
<1> QED
  BY <1>2, <1>3

\* The order's steps: each tells the workers what it changes, or there are none.
LEMMA CaughtOrder ==
    ASSUME TypeInv, CatchInv,
           Arm \/ Validated \/ Clear \/ AckTimeout \/ Finalized \/ CiInstall
    PROVE  CatchInv'
<1>1. ASSUME UNCHANGED <<worker, chan, cert, chal>> PROVE CatchInv'
  BY <1>1, CaughtSame DEF CatchInv, worker
<1>2. ASSUME Live = {}, UNCHANGED <<worker, chan>> PROVE CatchInv'
  <2> SUFFICES ASSUME NEW w \in Workers PROVE CatchesUp(w)'
    BY DEF CatchInv
  <2>1. chan'[w] = <<>> /\ phase'[w] = "down"
    BY <1>2 DEF Live, worker, TypeInv, PipesOK
  <2>2. Len(chan'[w]) = 0
    BY <2>1
  <2> QED
    BY <2>1, <2>2 DEF CatchesUp, LastWord
<1>3. CASE Arm
  <2>0. cur' \in Names /\ chal' = chal \cup {cur'} /\ UNCHANGED <<worker, cert>>
    BY <1>3 DEF Arm, TypeInv, TypeOK
  <2>1. CASE BroadcastAcked("challenge")
    <3> DEFINE m == [type |-> "challenge", name |-> cur', ack |-> ackId + 1]
    <3>1. m \in Messages /\ Broadcast(m)
      BY <2>0, <2>1 DEF BroadcastAcked, Messages, TypeInv, TypeOK
    <3>2. m \notin AboutCert
      BY DEF AboutCert
    <3>3. \A n \in Names : (m \in AboutName(n) <=> n = cur') /\ Armed(m, n)
      BY <3>1 DEF AboutName, Armed
    <3> HIDE DEF m
    <3> QED
      BY <2>0, <3>1, <3>2, <3>3, CaughtBroadcast
  <2>2. CASE Live = {} /\ UNCHANGED <<chan, acking>>
    BY <1>2, <2>0, <2>2
  <2> QED
    BY <1>3, <2>1, <2>2 DEF Arm
<1>4. CASE Clear
  <2>0. cur \in Names /\ cur' = cur /\ chal' = chal \ {cur} /\ UNCHANGED <<worker, cert>>
    BY <1>4 DEF Clear, TypeInv, TypeOK
  <2>1. CASE BroadcastAcked("clear")
    <3> DEFINE m == [type |-> "clear", name |-> cur', ack |-> ackId + 1]
    <3>1. m \in Messages /\ Broadcast(m)
      BY <2>0, <2>1 DEF BroadcastAcked, Messages, TypeInv, TypeOK
    <3>2. m \notin AboutCert
      BY DEF AboutCert
    <3>3. \A n \in Names : (m \in AboutName(n) <=> n = cur) /\ ~Armed(m, n)
      BY <2>0, <3>1 DEF AboutName, Armed
    <3> HIDE DEF m
    <3> QED
      BY <2>0, <3>1, <3>2, <3>3, CaughtBroadcast
  <2>2. CASE Live = {} /\ UNCHANGED <<chan, acking>>
    BY <1>2, <2>0, <2>2
  <2> QED
    BY <1>4, <2>1, <2>2 DEF Clear
<1>5. ASSUME persistIssued, UNCHANGED <<worker, chal>> PROVE CatchInv'
  <2> DEFINE m == [type |-> "issued", cert |-> cert + 1]
  <2>1. m \in Messages /\ Broadcast(m) /\ m.cert = cert'
    BY <1>5 DEF persistIssued, Messages, TypeInv, TypeOK
  <2>2. m \in AboutCert /\ \A n \in Names : m \notin AboutName(n)
    BY <2>1 DEF AboutCert, AboutName
  <2> HIDE DEF m
  <2> QED
    BY <1>5, <2>1, <2>2, CaughtBroadcast
<1>6. CASE Validated
  BY <1>1, <1>6 DEF Validated, primary
<1>7. CASE AckTimeout
  BY <1>1, <1>7 DEF AckTimeout, primary
<1>8. CASE Finalized
  BY <1>1, <1>5, <1>8 DEF Finalized
<1>9. CASE CiInstall
  BY <1>5, <1>9 DEF CiInstall
<1> QED
  BY <1>3, <1>4, <1>6, <1>7, <1>8, <1>9

\* A worker that takes a message from its pipe: the state and a steady-state message
\* are applied, and one that arrives in between marks the worker.
LEMMA CaughtReceive ==
    ASSUME TypeInv, CatchInv, NEW w \in Workers, Receive(w)
    PROVE  CatchesUp(w)'
<1> DEFINE s == chan[w]
           m == Head(s)
<1>0. /\ s \in Seq(Messages) /\ s # <<>> /\ m \in Messages
      /\ chan'[w] = Tail(s) /\ UNCHANGED <<cert, chal>> /\ CatchesUp(w)
  BY DEF Receive, TypeInv, PipesOK, primary, CatchInv
<1>1. AwaitState(w, m) \/ Unheard(w, m) \/ Apply(w, m)
  BY DEF Receive
<1>2. TellsCert' = TellsCert /\ AboutCert' = AboutCert
  BY <1>0 DEF TellsCert, AboutCert, Messages
<1>3. \A n : TellsName(n)' = TellsName(n) /\ AboutName(n)' = AboutName(n)
  BY <1>0 DEF TellsName, AboutName, Messages, Armed
<1>4. /\ LastWord(s, AboutCert, TellsCert)
      /\ \A n \in Names : LastWord(s, AboutName(n), TellsName(n))
  BY <1>0 DEF CatchesUp
<1>5. /\ LastWord(Tail(s), AboutCert, TellsCert)
      /\ Silent(Tail(s), AboutCert) /\ m \notin AboutCert => Silent(s, AboutCert)
      /\ Silent(Tail(s), AboutCert) /\ m \in AboutCert => m.cert = cert
  <2>1. Silent(Tail(s), AboutCert) /\ m \in AboutCert => m \in TellsCert
    BY <1>0, <1>4, Taken
  <2> QED
    BY <1>0, <1>4, <2>1, Taken DEF TellsCert
<1>6. \A n \in Names :
          /\ LastWord(Tail(s), AboutName(n), TellsName(n))
          /\ Silent(Tail(s), AboutName(n)) /\ m \notin AboutName(n) => Silent(s, AboutName(n))
          /\ Silent(Tail(s), AboutName(n)) /\ m \in AboutName(n) => (Armed(m, n) <=> n \in chal)
  <2>1. \A n \in Names : Silent(Tail(s), AboutName(n)) /\ m \in AboutName(n) => m \in TellsName(n)
    BY <1>0, <1>4, Taken
  <2> QED
    BY <1>0, <1>4, <2>1, Taken DEF TellsName
<1> HIDE DEF m
<1>7. CASE AwaitState(w, m) /\ m.type = "state"
  <2>1. /\ phase'[w] = "initialising" /\ snap'[w] = [cert |-> m.cert, chal |-> m.chal]
    BY <1>7 DEF AwaitState, TypeInv, TypeOK
  <2>2. m \in AboutCert /\ \A n \in Names : m \in AboutName(n) /\ (Armed(m, n) <=> n \in m.chal)
    BY <1>0, <1>7 DEF AboutCert, AboutName, Armed
  <2> QED
    BY <1>0, <1>2, <1>3, <1>5, <1>6, <2>1, <2>2 DEF CatchesUp, HeldCert, HeldChal
<1>8. CASE AwaitState(w, m) /\ m.type # "state"
  <2>1. phase[w] = "online" /\ phase'[w] = "online"
    BY <1>8 DEF AwaitState
  <2>2. /\ Len(Tail(s)) = Len(s) - 1 /\ Len(s) \in Nat \ {0} /\ m = s[1]
        /\ \A i \in 1..Len(s) - 1 : Tail(s)[i] = s[i + 1]
    BY <1>0 DEF m
  <2>3. PICK i \in 1..Len(s) : s[i].type = "state"
    BY <1>0, <2>1 DEF CatchesUp
  <2>4. i # 1
    BY <1>8, <2>2, <2>3
  <2>5. i - 1 \in 1..Len(Tail(s)) /\ Tail(s)[i - 1].type = "state"
    BY <2>2, <2>3, <2>4
  <2> QED
    BY <1>0, <1>2, <1>3, <1>5, <1>6, <2>1, <2>5 DEF CatchesUp
<1>9. CASE Unheard(w, m)
  <2>1. phase'[w] = "initialising" /\ w \in missed'
    BY <1>9 DEF Unheard
  <2> QED
    BY <1>0, <1>2, <1>3, <1>5, <1>6, <2>1 DEF CatchesUp
<1>10. CASE Apply(w, m)
  <2>1. phase[w] \in {"ready", "listening"} /\ UNCHANGED <<phase, missed>>
    BY <1>10 DEF Apply
  <2>2. CASE m.type = "issued"
    <3>1. wcert'[w] = m.cert /\ wchal'[w] = wchal[w]
      BY <1>10, <2>2 DEF Apply, TypeInv, TypeOK
    <3>2. m \in AboutCert /\ \A n \in Names : m \notin AboutName(n)
      BY <1>0, <2>2 DEF AboutCert, AboutName
    <3> QED
      BY <1>0, <1>2, <1>3, <1>5, <1>6, <2>1, <3>1, <3>2 DEF CatchesUp, HeldCert, HeldChal
  <2>3. CASE m.type = "challenge"
    <3>1. wcert'[w] = wcert[w] /\ wchal'[w] = wchal[w] \cup {m.name}
      BY <1>10, <2>3 DEF Apply, TypeInv, TypeOK
    <3>2. m \notin AboutCert /\ \A n \in Names : (m \in AboutName(n) <=> n = m.name) /\ Armed(m, n)
      BY <1>0, <2>3 DEF AboutCert, AboutName, Armed
    <3> QED
      BY <1>0, <1>2, <1>3, <1>5, <1>6, <2>1, <3>1, <3>2 DEF CatchesUp, HeldCert, HeldChal
  <2>4. CASE m.type = "clear"
    <3>1. wcert'[w] = wcert[w] /\ wchal'[w] = wchal[w] \ {m.name}
      BY <1>10, <2>4 DEF Apply, TypeInv, TypeOK
    <3>2. m \notin AboutCert /\ \A n \in Names : (m \in AboutName(n) <=> n = m.name) /\ ~Armed(m, n)
      BY <1>0, <2>4 DEF AboutCert, AboutName, Armed
    <3> QED
      BY <1>0, <1>2, <1>3, <1>5, <1>6, <2>1, <3>1, <3>2 DEF CatchesUp, HeldCert, HeldChal
  <2> QED
    BY <1>10, <2>2, <2>3, <2>4 DEF Apply
<1> QED
  BY <1>1, <1>7, <1>8, <1>9, <1>10

\* A worker that comes online is sent the state as it is.
LEMMA CaughtOnline ==
    ASSUME TypeInv, CatchInv, NEW w \in Workers, Online(w)
    PROVE  CatchesUp(w)'
<1> DEFINE s == chan[w]
           m == [type |-> "state", cert |-> cert, chal |-> chal]
<1>1. /\ s \in Seq(Messages) /\ m \in Messages
      /\ chan'[w] = Append(s, m) /\ phase'[w] = "online" /\ UNCHANGED <<cert, chal>>
  BY DEF Online, TypeInv, TypeOK, PipesOK, Messages, primary
<1>2. m \in AboutCert' /\ m \in TellsCert'
  BY <1>1 DEF AboutCert, TellsCert
<1>3. \A n \in Names : m \in AboutName(n)' /\ m \in TellsName(n)'
  BY <1>1 DEF AboutName, TellsName, Armed
<1>4. Len(Append(s, m)) = Len(s) + 1 /\ Len(s) \in Nat /\ Append(s, m)[Len(s) + 1] = m /\ m.type = "state"
  BY <1>1
<1> HIDE DEF m, s
<1>5. LastWord(Append(s, m), AboutCert', TellsCert')
  BY <1>1, <1>2, Told
<1>6. \A n \in Names : LastWord(Append(s, m), AboutName(n)', TellsName(n)')
  BY <1>1, <1>3, Told
<1>7. \E i \in 1..Len(Append(s, m)) : Append(s, m)[i].type = "state"
  BY <1>4
<1> QED
  BY <1>1, <1>5, <1>6, <1>7 DEF CatchesUp

\* A worker's steps, the primary's side of a pipe and an exit touch one worker only.
LEMMA CaughtWorker ==
    ASSUME TypeInv, CatchInv, NEW w \in Workers,
           \/ Spawn(w) \/ Online(w) \/ Receive(w) \/ Attach(w) \/ Listen(w)
           \/ OnMessage(w) \/ Exit(w)
    PROVE  CatchInv'
<1>0. UNCHANGED <<cert, chal>>
  BY DEF Spawn, Online, Receive, Attach, Listen, OnMessage, Exit, primary
<1>1. ASSUME NEW v \in Workers, v # w PROVE CatchesUp(v)'
  <2>1. /\ chan'[v] = chan[v] /\ phase'[v] = phase[v] /\ snap'[v] = snap[v]
        /\ wcert'[v] = wcert[v] /\ wchal'[v] = wchal[v] /\ (v \in missed => v \in missed')
    BY <1>1 DEF Spawn, Online, Receive, AwaitState, Unheard, Apply, Attach, Listen, OnMessage,
       Exit, Gone, worker, TypeInv, TypeOK, PipesOK
  <2> QED
    BY <1>0, <2>1, CaughtSame DEF CatchInv
<1>2. CatchesUp(w)'
  <2>1. CASE Spawn(w) \/ Exit(w)
    <3>1. chan'[w] = <<>> /\ phase'[w] \in {"down", "forked"}
      BY <2>1 DEF Spawn, Exit, Gone, TypeInv, TypeOK, PipesOK
    <3>2. Len(chan'[w]) = 0
      BY <3>1
    <3> QED
      BY <3>1, <3>2 DEF CatchesUp, LastWord
  <2>2. CASE Online(w)
    BY <2>2, CaughtOnline
  <2>3. CASE Receive(w)
    BY <2>3, CaughtReceive
  <2>4. CASE Attach(w)
    <3>1. /\ phase[w] = "initialising" /\ phase'[w] = "ready" /\ wcert'[w] = snap[w].cert
          /\ wchal'[w] = snap[w].chal /\ UNCHANGED <<chan, missed>> /\ CatchesUp(w)
      BY <2>4 DEF Attach, TypeInv, TypeOK, CatchInv
    <3>2. TellsCert' = TellsCert /\ AboutCert' = AboutCert
      BY <1>0 DEF TellsCert, AboutCert, Messages
    <3>3. \A n : TellsName(n)' = TellsName(n) /\ AboutName(n)' = AboutName(n)
      BY <1>0 DEF TellsName, AboutName, Messages, Armed
    <3> QED
      BY <1>0, <3>1, <3>2, <3>3 DEF CatchesUp, HeldCert, HeldChal
  <2>5. CASE Listen(w)
    <3>1. /\ phase[w] = "ready" /\ phase'[w] = "listening"
          /\ UNCHANGED <<chan, missed, wcert, wchal>> /\ CatchesUp(w)
      BY <2>5 DEF Listen, TypeInv, TypeOK, CatchInv
    <3>2. TellsCert' = TellsCert /\ AboutCert' = AboutCert
      BY <1>0 DEF TellsCert, AboutCert, Messages
    <3>3. \A n : TellsName(n)' = TellsName(n) /\ AboutName(n)' = AboutName(n)
      BY <1>0 DEF TellsName, AboutName, Messages, Armed
    <3> QED
      BY <1>0, <3>1, <3>2, <3>3 DEF CatchesUp, HeldCert, HeldChal
  <2>6. CASE OnMessage(w)
    BY <1>0, <2>6, CaughtSame DEF OnMessage, worker, CatchInv
  <2> QED
    BY <2>1, <2>2, <2>3, <2>4, <2>5, <2>6
<1> QED
  BY <1>1, <1>2 DEF CatchInv

\* Where every message of a pipe has been taken there is no other word than what the
\* worker has.
LEMMA CaughtUp == TypeInv /\ CatchInv => Converged
<1> SUFFICES ASSUME TypeInv, CatchInv, NEW w \in Workers \ missed,
                    phase[w] \in {"ready", "listening"}, chan[w] = <<>>
             PROVE  wcert[w] = cert /\ wchal[w] = chal
  BY DEF Converged
<1>1. Len(chan[w]) = 0
  OBVIOUS
<1>2. Silent(chan[w], AboutCert) /\ \A n \in Names : Silent(chan[w], AboutName(n))
  BY <1>1 DEF Silent
<1>3. HeldCert(w) = wcert[w] /\ HeldChal(w) = wchal[w]
  BY DEF HeldCert, HeldChal
<1>4. wcert[w] = cert /\ \A n \in Names : n \in wchal[w] <=> n \in chal
  BY <1>2, <1>3 DEF CatchInv, CatchesUp
<1> QED
  BY <1>4 DEF TypeInv, TypeOK

\* Converged: a worker whose pipe is empty, and which lost nothing while it imported its
\* identity, has the primary's certificate and the primary's challenges, whenever it was
\* forked and whatever was broadcast around its state message.
THEOREM WorkersConverge == Spec => []Converged
<1>1. Init => CatchInv
  <2> SUFFICES ASSUME Init, NEW w \in Workers PROVE CatchesUp(w)
    BY DEF CatchInv
  <2> QED
    BY CaughtEmpty DEF Init
<1>2. TypeInv /\ CatchInv /\ [Next]_vars => CatchInv'
  <2>1. ASSUME CatchInv, UNCHANGED vars PROVE CatchInv'
    BY <2>1, CaughtSame DEF CatchInv, vars, worker, primary
  <2> QED
    BY <2>1, CaughtOrder, CaughtWorker DEF Next
<1> QED
  BY <1>1, <1>2, CaughtUp, TypeCorrect, PTL DEF Spec

-----------------------------------------------------------------------------
(* Who holds the challenge of an order.                                    *)

\* The messages of a pipe.
In(s) == {s[i] : i \in 1..Len(s)}

\* What a pipe holds after a message is sent, and after one is taken.
LEMMA InPipe ==
    ASSUME NEW T, NEW s \in Seq(T)
    PROVE  /\ \A m \in T : In(Append(s, m)) = In(s) \cup {m}
           /\ s # <<>> => In(Tail(s)) \subseteq In(s) /\ Head(s) \in In(s)
           /\ s = <<>> => In(s) = {}
<1>1. ASSUME NEW m \in T PROVE In(Append(s, m)) = In(s) \cup {m}
  <2>1. /\ Len(Append(s, m)) = Len(s) + 1 /\ Len(s) \in Nat
        /\ Append(s, m)[Len(s) + 1] = m
        /\ \A i \in 1..Len(s) : Append(s, m)[i] = s[i]
    OBVIOUS
  <2>2. 1..Len(s) + 1 = (1..Len(s)) \cup {Len(s) + 1}
    BY <2>1
  <2> QED
    BY <2>1, <2>2 DEF In
<1>2. ASSUME s # <<>> PROVE In(Tail(s)) \subseteq In(s) /\ Head(s) \in In(s)
  <2>1. /\ Len(Tail(s)) = Len(s) - 1 /\ Len(s) \in Nat \ {0} /\ Head(s) = s[1]
        /\ \A i \in 1..Len(s) - 1 : Tail(s)[i] = s[i + 1]
    BY <1>2
  <2>2. \A i \in 1..Len(s) - 1 : i + 1 \in 1..Len(s)
    BY <2>1
  <2> QED
    BY <2>1, <2>2 DEF In
<1>3. ASSUME s = <<>> PROVE In(s) = {}
  <2>1. Len(s) = 0
    BY <1>3
  <2> QED
    BY <2>1 DEF In
<1> QED
  BY <1>1, <1>2, <1>3

\* A worker holds the challenge of the order, or will when it is initialised.
Holds(w) ==
    /\ phase[w] = "online" => \A m \in In(chan[w]) : m.type = "state" => cur \in m.chal
    /\ phase[w] = "initialising" => cur \in snap[w].chal
    /\ phase[w] \in {"ready", "listening"} => cur \in wchal[w]

\* A message of an acknowledged broadcast has the id of one that was sent, the id of the
\* open one only if it arms the order's own challenge, and clears only a name the order
\* is through with.
MessageSound(m) ==
    m.type \in {"challenge", "clear"} =>
        /\ m.ack <= ackId
        /\ order = "arming" /\ m.ack = ackId => m.type = "challenge" /\ m.name = cur
        /\ m.type = "clear" => m.name \notin todo \/ (order = "clearing" /\ m.name = cur)

\* An answer to the open broadcast comes from a worker that holds the challenge.
ReplySound(w, r) ==
    r.type = "ack" =>
        /\ r.ack <= ackId
        /\ order = "arming" /\ r.ack = ackId => phase[w] \in {"ready", "listening"} /\ Holds(w)

PipeSound(w) ==
    /\ \A m \in In(chan[w]) : MessageSound(m)
    /\ \A r \in In(back[w]) : ReplySound(w, r)
    /\ phase[w] = "forked" => \A m \in In(chan[w]) : m.type # "state"

\* The challenge of an order that is armed is one of the primary's, so a worker that
\* comes online is told of it; every worker the order no longer waits for holds it.
HoldInv ==
    /\ order \in {"arming", "validating", "clear", "clearing"} => cur \in todo
    /\ order \in {"arming", "validating"} => cur \in chal
    /\ \A w \in Workers : PipeSound(w)
    /\ order = "arming" => \A w \in Workers \ pending : Holds(w)
    /\ order = "validating" => \A w \in Workers : Holds(w)

\* No step of a worker loses the challenge of an order: the state it comes online with
\* has it, and a clear of an earlier name is about another one.
LEMMA HoldsKept ==
    ASSUME TypeInv, HoldInv, order \in {"arming", "validating"}, NEW w \in Workers,
           Spawn(w) \/ Online(w) \/ Receive(w) \/ Attach(w) \/ Listen(w) \/ OnMessage(w) \/ Exit(w)
    PROVE  /\ \A v \in Workers : Holds(v) => Holds(v)'
           /\ Spawn(w) \/ Exit(w) => Holds(w)'
<1>0. UNCHANGED cur /\ cur \in chal /\ cur \in todo /\ PipeSound(w)
  BY DEF Spawn, Online, Receive, Attach, Listen, OnMessage, Exit, ordering, HoldInv
<1>1. ASSUME NEW v \in Workers, v # w, Holds(v) PROVE Holds(v)'
  <2>1. /\ chan'[v] = chan[v] /\ phase'[v] = phase[v] /\ snap'[v] = snap[v]
        /\ wchal'[v] = wchal[v]
    BY <1>1 DEF Spawn, Online, Receive, AwaitState, Unheard, Apply, Attach, Listen, OnMessage,
       Exit, Gone, worker, TypeInv, TypeOK, PipesOK
  <2> QED
    BY <1>0, <1>1, <2>1 DEF Holds
<1>2. Spawn(w) \/ Exit(w) => Holds(w)'
  <2>1. Spawn(w) \/ Exit(w) => phase'[w] \in {"down", "forked"}
    BY DEF Spawn, Exit, Gone, TypeInv, TypeOK
  <2> QED
    BY <2>1 DEF Holds
<1>3. ASSUME Online(w) PROVE Holds(w)'
  <2> DEFINE m == [type |-> "state", cert |-> cert, chal |-> chal]
  <2>1. /\ chan[w] \in Seq(Messages) /\ m \in Messages /\ phase[w] = "forked"
        /\ chan'[w] = Append(chan[w], m) /\ phase'[w] = "online" /\ cur \in m.chal
    BY <1>0, <1>3 DEF Online, TypeInv, TypeOK, PipesOK, Messages
  <2> HIDE DEF m
  <2>2. In(chan'[w]) = In(chan[w]) \cup {m}
    BY <2>1, InPipe
  <2> QED
    BY <1>0, <2>1, <2>2 DEF Holds, PipeSound
<1>4. ASSUME Receive(w), Holds(w) PROVE Holds(w)'
  <2> DEFINE m == Head(chan[w])
  <2>1. /\ chan[w] \in Seq(Messages) /\ chan[w] # <<>> /\ chan'[w] = Tail(chan[w])
    BY <1>4 DEF Receive, TypeInv, PipesOK
  <2>2. In(chan'[w]) \subseteq In(chan[w]) /\ m \in In(chan[w])
    BY <2>1, InPipe
  <2>3. AwaitState(w, m) \/ Unheard(w, m) \/ Apply(w, m)
    BY <1>4 DEF Receive
  <2> HIDE DEF m
  <2>4. CASE AwaitState(w, m)
    BY <1>0, <1>4, <2>2, <2>4 DEF AwaitState, Holds, TypeInv, TypeOK
  <2>5. CASE Unheard(w, m)
    BY <1>0, <1>4, <2>5 DEF Unheard, Holds
  <2>6. CASE Apply(w, m)
    <3>1. MessageSound(m)
      BY <1>0, <2>2 DEF PipeSound
    <3>2. m.type = "clear" => m.name # cur
      BY <1>0, <3>1 DEF MessageSound
    <3> QED
      BY <1>0, <1>4, <2>6, <3>2 DEF Apply, Holds, TypeInv, TypeOK
  <2> QED
    BY <2>3, <2>4, <2>5, <2>6
<1>5. ASSUME Attach(w), Holds(w) PROVE Holds(w)'
  BY <1>0, <1>5 DEF Attach, Holds, TypeInv, TypeOK
<1>6. ASSUME Listen(w), Holds(w) PROVE Holds(w)'
  BY <1>0, <1>6 DEF Listen, Holds, TypeInv, TypeOK
<1>7. ASSUME OnMessage(w), Holds(w) PROVE Holds(w)'
  BY <1>0, <1>7 DEF OnMessage, worker, Holds
<1> QED
  BY <1>1, <1>2, <1>3, <1>4, <1>5, <1>6, <1>7

\* A worker's own steps: an answer it sends to the open broadcast is sent when it holds
\* the challenge.
LEMMA HoldWorker ==
    ASSUME TypeInv, HoldInv, NEW w \in Workers,
           Spawn(w) \/ Online(w) \/ Receive(w) \/ Attach(w) \/ Listen(w)
    PROVE  HoldInv'
<1>0. UNCHANGED <<order, cur, todo, ackId, pending, chal>>
  BY DEF Spawn, Online, Receive, Attach, Listen, ordering, acking, primary
<1>1. \A m : MessageSound(m) => MessageSound(m)'
  BY <1>0 DEF MessageSound
<1>2. ASSUME order \in {"arming", "validating"}
      PROVE  \A v \in Workers : Holds(v) => Holds(v)'
  BY <1>2, HoldsKept
<1>3. ASSUME NEW v \in Workers, v # w PROVE PipeSound(v)'
  <2>1. chan'[v] = chan[v] /\ phase'[v] = phase[v] /\ back'[v] = back[v]
    BY <1>3 DEF Spawn, Online, Receive, AwaitState, Unheard, Apply, Attach, Listen,
       TypeInv, TypeOK, PipesOK
  <2>2. PipeSound(v)
    BY DEF HoldInv
  <2>3. \A r : ReplySound(v, r) => ReplySound(v, r)'
    BY <1>0, <1>2, <2>1 DEF ReplySound
  <2> QED
    BY <1>1, <2>1, <2>2, <2>3 DEF PipeSound
<1>4. PipeSound(w)'
  <2>0. PipeSound(w) /\ chan[w] \in Seq(Messages) /\ back[w] \in Seq(Replies)
    BY DEF HoldInv, TypeInv, PipesOK
  <2>1. CASE Spawn(w)
    <3>1. chan'[w] = <<>> /\ back'[w] = <<>> /\ <<>> \in Seq(Messages) /\ <<>> \in Seq(Replies)
      BY <2>1 DEF Spawn, TypeInv, PipesOK
    <3>2. In(chan'[w]) = {} /\ In(back'[w]) = {}
      BY <3>1, InPipe
    <3> QED
      BY <3>2 DEF PipeSound
  <2>2. CASE Online(w)
    <3>0. PICK m : m = [type |-> "state", cert |-> cert, chal |-> chal]
      OBVIOUS
    <3>1. /\ m \in Messages /\ chan'[w] = Append(chan[w], m)
          /\ back'[w] = back[w] /\ phase[w] = "forked" /\ phase'[w] = "online"
      BY <2>2, <3>0 DEF Online, TypeInv, TypeOK, PipesOK, Messages
    <3>2. MessageSound(m)'
      BY <3>0 DEF MessageSound
    <3>3. In(chan'[w]) = In(chan[w]) \cup {m}
      BY <2>0, <3>1, InPipe
    <3>4. \A r : ReplySound(w, r) => ReplySound(w, r)'
      BY <1>0, <3>1 DEF ReplySound
    <3> QED
      BY <1>1, <2>0, <3>1, <3>2, <3>3, <3>4 DEF PipeSound
  <2>3. CASE Receive(w)
    <3>0. PICK m : m = Head(chan[w])
      OBVIOUS
    <3>1. chan[w] # <<>> /\ chan'[w] = Tail(chan[w]) /\ m \in Messages
      BY <2>0, <2>3, <3>0 DEF Receive, TypeInv, PipesOK
    <3>2. In(chan'[w]) \subseteq In(chan[w]) /\ m \in In(chan[w])
      BY <2>0, <3>0, <3>1, InPipe
    <3>3. MessageSound(m)
      BY <2>0, <3>2 DEF PipeSound
    <3>4. AwaitState(w, m) \/ Unheard(w, m) \/ Apply(w, m)
      BY <2>3, <3>0 DEF Receive
    <3>5. phase'[w] # "forked"
      BY <3>4 DEF AwaitState, Unheard, Apply, TypeInv, TypeOK
    <3>6. phase[w] \in {"ready", "listening"} => phase'[w] = phase[w]
      BY <3>4 DEF AwaitState, Unheard, Apply
    <3>7. \A r : ReplySound(w, r) => ReplySound(w, r)'
      BY <1>0, <1>2, <3>6 DEF ReplySound
    <3>8. CASE UNCHANGED back
      BY <1>1, <2>0, <3>2, <3>5, <3>7, <3>8 DEF PipeSound
    <3>9. CASE /\ Apply(w, m) /\ m.type \in {"challenge", "clear"}
               /\ back' = [back EXCEPT ![w] = Append(@, [type |-> "ack", ack |-> m.ack])]
      <4>0. PICK r : r = [type |-> "ack", ack |-> m.ack]
        OBVIOUS
      <4>1. r \in Replies /\ back'[w] = Append(back[w], r)
        BY <3>1, <3>9, <4>0 DEF Messages, Replies, TypeInv, PipesOK
      <4>2. ReplySound(w, r)'
        <5>1. r.ack <= ackId
          BY <3>3, <3>9, <4>0 DEF MessageSound
        <5>2. ASSUME order = "arming", m.ack = ackId
              PROVE  phase'[w] \in {"ready", "listening"} /\ Holds(w)'
          <6>1. m.type = "challenge" /\ m.name = cur
            BY <3>3, <3>9, <5>2 DEF MessageSound
          <6>2. phase'[w] \in {"ready", "listening"} /\ cur \in wchal'[w]
            BY <3>9, <6>1 DEF Apply, TypeInv, TypeOK
          <6> QED
            BY <1>0, <6>2 DEF Holds
        <5> QED
          BY <1>0, <4>0, <5>1, <5>2 DEF ReplySound
      <4>3. In(back'[w]) = In(back[w]) \cup {r}
        BY <2>0, <4>1, InPipe
      <4> QED
        BY <1>1, <2>0, <3>2, <3>5, <3>7, <4>2, <4>3 DEF PipeSound
    <3> QED
      BY <3>4, <3>8, <3>9 DEF AwaitState, Unheard, Apply
  <2>4. CASE Attach(w)
    <3>1. /\ chan'[w] = chan[w] /\ back'[w] = back[w]
          /\ phase[w] = "initialising" /\ phase'[w] = "ready"
      BY <2>4 DEF Attach, TypeInv, TypeOK
    <3>2. \A r : ReplySound(w, r) => ReplySound(w, r)'
      BY <1>0, <3>1 DEF ReplySound
    <3> QED
      BY <1>1, <2>0, <3>1, <3>2 DEF PipeSound
  <2>5. CASE Listen(w)
    <3> DEFINE r == [type |-> "listening"]
    <3>1. /\ r \in Replies /\ back'[w] = Append(back[w], r) /\ chan'[w] = chan[w]
          /\ phase[w] = "ready" /\ phase'[w] = "listening"
      BY <2>5 DEF Listen, TypeInv, TypeOK, PipesOK, Replies
    <3>2. \A x : ReplySound(w, x) => ReplySound(w, x)'
      BY <1>0, <1>2, <3>1 DEF ReplySound
    <3>3. ReplySound(w, r)'
      BY DEF ReplySound
    <3> HIDE DEF r
    <3>4. In(back'[w]) = In(back[w]) \cup {r}
      BY <2>0, <3>1, InPipe
    <3> QED
      BY <1>1, <2>0, <3>1, <3>2, <3>3, <3>4 DEF PipeSound
  <2> QED
    BY <2>1, <2>2, <2>3, <2>4, <2>5
<1>5. \A v \in Workers : PipeSound(v)'
  BY <1>3, <1>4
<1> QED
  BY <1>0, <1>2, <1>5 DEF HoldInv

\* The order moves on when the last worker it waits for has answered or is gone.
LEMMA HoldPrimary ==
    ASSUME TypeInv, HoldInv, NEW w \in Workers, OnMessage(w) \/ Exit(w)
    PROVE  HoldInv'
<1>0. UNCHANGED <<cur, ackId, chal>>
  BY DEF OnMessage, Exit
<1>1. ASSUME order \in {"arming", "validating"}
      PROVE  /\ \A v \in Workers : Holds(v) => Holds(v)'
             /\ Exit(w) => Holds(w)'
  BY <1>1, HoldsKept
<1>2. \/ DropPending(w)
      \/ UNCHANGED <<pending, order, todo>>
      \/ /\ order = "waiting" /\ order' = "between"
         /\ UNCHANGED <<pending, todo>>
  BY DEF OnMessage, OnAck, OnListening, Exit
<1>3. \/ UNCHANGED <<order, todo>>
      \/ order = "arming" /\ order' = "validating" /\ UNCHANGED todo
      \/ order = "clearing" /\ order' \in {"failed", "between"} /\ todo' = todo \ {cur}
      \/ order = "waiting" /\ order' = "between" /\ UNCHANGED todo
  BY <1>2 DEF DropPending, AckDone
<1>4. \A m : MessageSound(m) => MessageSound(m)'
  BY <1>0, <1>3 DEF MessageSound
<1>5. ASSUME NEW v \in Workers PROVE PipeSound(v)'
  <2>0. PipeSound(v) /\ chan[v] \in Seq(Messages) /\ back[v] \in Seq(Replies)
    BY DEF HoldInv, TypeInv, PipesOK
  <2>1. CASE phase'[v] = phase[v] /\ chan'[v] = chan[v] /\ In(back'[v]) \subseteq In(back[v])
    <3>1. \A r : ReplySound(v, r) => ReplySound(v, r)'
      BY <1>0, <1>1, <1>3, <2>1 DEF ReplySound
    <3> QED
      BY <1>4, <2>0, <2>1, <3>1 DEF PipeSound
  <2>2. CASE OnMessage(w)
    <3>1. UNCHANGED <<phase, chan>> /\ back[w] # <<>> /\ back' = [back EXCEPT ![w] = Tail(back[w])]
      BY <2>2 DEF OnMessage, worker
    <3>2. CASE v = w
      <4>1. back'[v] = Tail(back[v])
        BY <3>1, <3>2 DEF TypeInv, PipesOK
      <4>2. In(back'[v]) \subseteq In(back[v])
        BY <2>0, <3>1, <3>2, <4>1, InPipe
      <4> QED
        BY <2>1, <3>1, <4>2
    <3>3. CASE v # w
      BY <2>1, <3>1, <3>3 DEF TypeInv, PipesOK
    <3> QED
      BY <3>2, <3>3
  <2>3. CASE Exit(w)
    <3>1. CASE v = w
      <4>1. /\ chan'[v] = <<>> /\ back'[v] = <<>> /\ phase'[v] = "down"
            /\ <<>> \in Seq(Messages) /\ <<>> \in Seq(Replies)
        BY <2>3, <3>1 DEF Exit, Gone, TypeInv, TypeOK, PipesOK
      <4>2. In(chan'[v]) = {} /\ In(back'[v]) = {}
        BY <4>1, InPipe
      <4> QED
        BY <4>1, <4>2 DEF PipeSound
    <3>2. CASE v # w
      BY <2>1, <2>3, <3>2 DEF Exit, Gone, TypeInv, TypeOK, PipesOK
    <3> QED
      BY <3>1, <3>2
  <2> QED
    BY <2>2, <2>3
<1>6. ASSUME order = "arming", DropPending(w) PROVE Holds(w)'
  <2>1. CASE Exit(w)
    BY <1>1, <1>6, <2>1
  <2>2. CASE OnMessage(w)
    <3> DEFINE m == Head(back[w])
    <3>1. back[w] \in Seq(Replies) /\ back[w] # <<>> /\ (OnAck(w, m) \/ OnListening(w, m))
      BY <2>2 DEF OnMessage, TypeInv, PipesOK
    <3>2. m \in In(back[w])
      BY <3>1, InPipe
    <3>3. ReplySound(w, m)
      BY <3>2 DEF HoldInv, PipeSound
    <3> HIDE DEF m
    <3>4. CASE m.type = "ack" /\ m.ack = ackId
      BY <1>1, <1>6, <3>3, <3>4 DEF ReplySound
    <3>5. CASE ~(m.type = "ack" /\ m.ack = ackId)
      <4>1. pending' = pending
        BY <3>1, <3>5 DEF OnAck, OnListening
      <4>2. w \notin pending
        BY <1>6, <4>1 DEF DropPending
      <4> QED
        BY <1>1, <1>6, <4>2 DEF HoldInv
    <3> QED
      BY <3>4, <3>5
  <2> QED
    BY <2>1, <2>2
<1>7. order' = "arming" => \A v \in Workers \ pending' : Holds(v)'
  <2> SUFFICES ASSUME order' = "arming", NEW v \in Workers \ pending' PROVE Holds(v)'
    OBVIOUS
  <2>1. order = "arming"
    BY <1>3
  <2>2. (v = w /\ DropPending(w)) \/ v \notin pending
    BY <1>2, <2>1 DEF DropPending
  <2> QED
    BY <1>1, <1>6, <2>1, <2>2 DEF HoldInv
<1>8. order' = "validating" => \A v \in Workers : Holds(v)'
  <2> SUFFICES ASSUME order' = "validating", NEW v \in Workers PROVE Holds(v)'
    OBVIOUS
  <2>1. CASE order = "validating"
    BY <1>1, <2>1 DEF HoldInv
  <2>2. CASE order # "validating"
    <3>1. order = "arming" /\ DropPending(w) /\ pending = {w}
      BY <1>2, <2>2 DEF DropPending, AckDone
    <3> QED
      BY <1>1, <1>6, <3>1 DEF HoldInv
  <2> QED
    BY <2>1, <2>2
<1> QED
  BY <1>0, <1>3, <1>5, <1>7, <1>8 DEF HoldInv

\* The order's own steps: a broadcast opens with an id no message has yet, and waits for
\* every worker that is up.
LEMMA HoldOrder ==
    ASSUME TypeInv, HoldInv,
           Arm \/ Validated \/ Clear \/ AckTimeout \/ Finalized \/ CiInstall
    PROVE  HoldInv'
<1>0. UNCHANGED <<phase, snap, wcert, wchal, missed, back>>
  BY DEF Arm, Validated, Clear, AckTimeout, Finalized, CiInstall, worker
<1>1. ASSUME NEW Sent,
             \A w \in Workers : In(chan'[w]) \subseteq In(chan[w]) \cup Sent,
             \A m \in Sent : m.type # "state" /\ MessageSound(m)',
             \A m \in Messages : MessageSound(m) => MessageSound(m)',
             ackId' \in {ackId, ackId + 1}, order' = "arming" => ackId' = ackId + 1
      PROVE  \A w \in Workers : PipeSound(w)'
  <2> SUFFICES ASSUME NEW w \in Workers PROVE PipeSound(w)'
    OBVIOUS
  <2>0. PipeSound(w) /\ chan[w] \in Seq(Messages) /\ back[w] \in Seq(Replies)
    BY DEF HoldInv, TypeInv, PipesOK
  <2>1. In(chan[w]) \subseteq Messages /\ In(back[w]) \subseteq Replies
    BY <2>0 DEF In
  <2>2. In(chan'[w]) \subseteq In(chan[w]) \cup Sent
    BY <1>1
  <2>3. ASSUME NEW r \in In(back[w]) PROVE ReplySound(w, r)'
    <3>1. ReplySound(w, r) /\ r \in Replies
      BY <2>0, <2>1, <2>3 DEF PipeSound
    <3>2. r.type = "ack" => r.ack \in Nat /\ r.ack <= ackId
      BY <3>1 DEF ReplySound, Replies
    <3>3. ackId \in Nat
      BY DEF TypeInv, TypeOK
    <3> QED
      BY <1>0, <1>1, <3>2, <3>3 DEF ReplySound
  <2>4. In(back'[w]) = In(back[w])
    BY <1>0
  <2> QED
    BY <1>0, <1>1, <2>0, <2>1, <2>2, <2>3, <2>4 DEF PipeSound
<1>2. ASSUME NEW m \in Messages, Broadcast(m)
      PROVE  \A w \in Workers : In(chan'[w]) \subseteq In(chan[w]) \cup {m}
  <2> SUFFICES ASSUME NEW w \in Workers PROVE In(chan'[w]) \subseteq In(chan[w]) \cup {m}
    OBVIOUS
  <2>1. chan'[w] = chan[w] \/ chan'[w] = Append(chan[w], m)
    BY <1>2, BroadcastType
  <2>2. In(Append(chan[w], m)) = In(chan[w]) \cup {m}
    BY InPipe DEF TypeInv, PipesOK
  <2> QED
    BY <2>1, <2>2
<1>3. ASSUME NEW w \in Workers, phase[w] = "down" PROVE Holds(w)'
  BY <1>0, <1>3 DEF Holds
<1>4. ackId \in Nat /\ \A m \in Messages : m.type \in {"challenge", "clear"} => m.ack \in Nat
  BY DEF TypeInv, TypeOK, Messages
<1>5. CASE Arm
  <2>0. /\ order = "between" /\ cur' \in todo /\ todo' = todo /\ cur' \in chal' /\ cur' \in Names
    BY <1>5 DEF Arm, TypeInv, TypeOK
  <2>1. CASE BroadcastAcked("challenge") /\ order' = "arming"
    <3>0. PICK m : m = [type |-> "challenge", name |-> cur', ack |-> ackId + 1]
      OBVIOUS
    <3>1. m \in Messages /\ Broadcast(m) /\ ackId' = ackId + 1 /\ pending' = Live
      BY <1>4, <2>0, <2>1, <3>0 DEF BroadcastAcked, Messages
    <3>2. m.type # "state" /\ MessageSound(m)'
      BY <1>4, <3>0, <3>1 DEF MessageSound
    <3>3. \A x \in Messages : MessageSound(x) => MessageSound(x)'
      BY <1>4, <2>0, <2>1, <3>1 DEF MessageSound
    <3>4. \A w \in Workers : PipeSound(w)'
      <4> DEFINE Sent == {m}
      <4>1. \A w \in Workers : In(chan'[w]) \subseteq In(chan[w]) \cup Sent
        BY <1>2, <3>1
      <4>2. \A x \in Sent : x.type # "state" /\ MessageSound(x)'
        BY <3>2
      <4> HIDE DEF Sent
      <4> QED
        BY <1>1, <3>1, <3>3, <4>1, <4>2
    <3>5. \A w \in Workers \ pending' : Holds(w)'
      BY <1>3, <3>1 DEF Live
    <3> QED
      BY <2>0, <2>1, <3>4, <3>5 DEF HoldInv
  <2>2. CASE Live = {} /\ order' = "validating" /\ UNCHANGED <<chan, acking>>
    <3>1. \A x \in Messages : MessageSound(x) => MessageSound(x)'
      BY <2>0, <2>2 DEF MessageSound, acking
    <3>2. \A w \in Workers : PipeSound(w)'
      <4>1. \A w \in Workers : In(chan'[w]) \subseteq In(chan[w]) \cup {}
        BY <2>2
      <4> QED
        BY <1>1, <2>2, <3>1, <4>1 DEF acking
    <3>3. \A w \in Workers : Holds(w)'
      BY <1>3, <2>2 DEF Live
    <3> QED
      BY <2>0, <2>2, <3>2, <3>3 DEF HoldInv
  <2> QED
    BY <1>5, <2>1, <2>2 DEF Arm
<1>6. ASSUME UNCHANGED <<chan, ackId>>, order' \notin {"arming", "validating"},
             order' \in {"clear", "clearing"} => cur' \in todo',
             \A m \in Messages : MessageSound(m) => MessageSound(m)'
      PROVE  HoldInv'
  <2>1. \A w \in Workers : PipeSound(w)'
    <3> DEFINE Sent == {}
    <3>1. \A w \in Workers : In(chan'[w]) \subseteq In(chan[w]) \cup Sent
      BY <1>6
    <3>2. \A x \in Sent : x.type # "state" /\ MessageSound(x)'
      OBVIOUS
    <3> HIDE DEF Sent
    <3> QED
      BY <1>1, <1>6, <3>1, <3>2
  <2> QED
    BY <1>6, <2>1 DEF HoldInv
<1>7. CASE Validated
  <2>1. /\ order = "validating" /\ order' = "clear" /\ UNCHANGED <<chan, ackId, cur, todo>>
    BY <1>7 DEF Validated, acking
  <2>2. \A m \in Messages : MessageSound(m) => MessageSound(m)'
    BY <2>1 DEF MessageSound
  <2> QED
    BY <1>6, <2>1, <2>2 DEF HoldInv
<1>8. CASE Clear
  <2>0. order = "clear" /\ cur' = cur /\ cur \in todo /\ cur \in Names
    BY <1>8 DEF Clear, HoldInv, TypeInv, TypeOK
  <2>1. CASE BroadcastAcked("clear") /\ order' = "clearing" /\ UNCHANGED todo
    <3>0. PICK m : m = [type |-> "clear", name |-> cur, ack |-> ackId + 1]
      OBVIOUS
    <3>1. m \in Messages /\ Broadcast(m) /\ ackId' = ackId + 1
      BY <1>4, <2>0, <2>1, <3>0 DEF BroadcastAcked, Messages
    <3>2. m.type # "state" /\ MessageSound(m)'
      BY <1>4, <2>0, <2>1, <3>0, <3>1 DEF MessageSound
    <3>3. \A x \in Messages : MessageSound(x) => MessageSound(x)'
      BY <1>4, <2>0, <2>1, <3>1 DEF MessageSound
    <3>4. \A w \in Workers : PipeSound(w)'
      <4> DEFINE Sent == {m}
      <4>1. \A w \in Workers : In(chan'[w]) \subseteq In(chan[w]) \cup Sent
        BY <1>2, <3>1
      <4>2. \A x \in Sent : x.type # "state" /\ MessageSound(x)'
        BY <3>2
      <4> HIDE DEF Sent
      <4> QED
        BY <1>1, <3>1, <3>3, <4>1, <4>2
    <3> QED
      BY <2>0, <2>1, <3>4 DEF HoldInv
  <2>2. CASE /\ order' = IF failed THEN "failed" ELSE "between"
             /\ todo' = todo \ {cur}
             /\ UNCHANGED <<chan, acking>>
    <3>1. order' \in {"failed", "between"} /\ UNCHANGED <<chan, ackId>>
      BY <2>2 DEF acking
    <3>2. \A m \in Messages : MessageSound(m) => MessageSound(m)'
      BY <2>0, <2>2, <3>1 DEF MessageSound
    <3> QED
      BY <1>6, <3>1, <3>2
  <2> QED
    BY <1>8, <2>1, <2>2 DEF Clear
<1>9. CASE AckTimeout
  <2>1. /\ UNCHANGED <<chan, ackId, cur>>
        /\ \/ order = "arming" /\ order' = "clear" /\ UNCHANGED todo
           \/ order = "clearing" /\ order' \in {"failed", "between"} /\ todo' = todo \ {cur}
    BY <1>9 DEF AckTimeout, AckDone
  <2>2. \A m \in Messages : MessageSound(m) => MessageSound(m)'
    BY <2>1 DEF MessageSound
  <2> QED
    BY <1>6, <2>1, <2>2 DEF HoldInv
<1>10. ASSUME persistIssued \/ UNCHANGED chan, order \in {"between", "none"},
              order' \in {"done", "failed", "none"}, UNCHANGED <<ackId, cur, todo>>
       PROVE  HoldInv'
  <2>0. PICK m : m = [type |-> "issued", cert |-> cert + 1]
    OBVIOUS
  <2>1. m \in Messages /\ m.type # "state" /\ MessageSound(m)'
    BY <2>0 DEF Messages, MessageSound, TypeInv, TypeOK
  <2>2. \A x \in Messages : MessageSound(x) => MessageSound(x)'
    BY <1>10 DEF MessageSound
  <2>3. Broadcast(m) \/ UNCHANGED chan
    BY <1>10, <2>0 DEF persistIssued
  <2>4. \A w \in Workers : PipeSound(w)'
    <3> DEFINE Sent == {m}
    <3>1. \A w \in Workers : In(chan'[w]) \subseteq In(chan[w]) \cup Sent
      BY <1>2, <2>1, <2>3
    <3>2. \A x \in Sent : x.type # "state" /\ MessageSound(x)'
      BY <2>1
    <3> HIDE DEF Sent
    <3> QED
      BY <1>1, <1>10, <2>2, <3>1, <3>2
  <2> QED
    BY <1>10, <2>4 DEF HoldInv
<1>11. CASE Finalized
  BY <1>10, <1>11 DEF Finalized, acking
<1>12. CASE CiInstall
  BY <1>10, <1>12 DEF CiInstall, acking, ordering
<1> QED
  BY <1>5, <1>7, <1>8, <1>9, <1>11, <1>12

\* ValidatedEverywhere: the CA is told to validate a name only when every worker that
\* accepts connections holds its challenge, and that stays so until the validation is
\* over, whichever workers die, come back or were starting when it was armed.
THEOREM ValidatesEverywhere == Spec => []ValidatedEverywhere
<1>1. Init => HoldInv
  <2> SUFFICES ASSUME Init PROVE HoldInv
    OBVIOUS
  <2>1. ASSUME NEW w \in Workers PROVE PipeSound(w)
    <3>1. chan[w] = <<>> /\ back[w] = <<>> /\ <<>> \in Seq(Messages) /\ <<>> \in Seq(Replies)
      BY DEF Init
    <3>2. In(chan[w]) = {} /\ In(back[w]) = {}
      BY <3>1, InPipe
    <3> QED
      BY <3>2 DEF PipeSound
  <2> QED
    BY <2>1 DEF Init, HoldInv
<1>2. TypeInv /\ HoldInv /\ [Next]_vars => HoldInv'
  <2>1. ASSUME HoldInv, UNCHANGED vars PROVE HoldInv'
    BY <2>1 DEF HoldInv, PipeSound, MessageSound, ReplySound, Holds,
       vars, worker, primary, acking, ordering
  <2> QED
    BY <2>1, HoldOrder, HoldWorker, HoldPrimary DEF Next
<1>3. HoldInv => ValidatedEverywhere
  BY DEF HoldInv, Holds, ValidatedEverywhere
<1> QED
  BY <1>1, <1>2, <1>3, TypeCorrect, PTL DEF Spec

=============================================================================
