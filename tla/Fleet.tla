------------------------------- MODULE Fleet -------------------------------
(***************************************************************************)
(* The in-enclave cluster: the primary's view of its workers (createFleet) *)
(* and a worker's life (workerMain), enclave/src/server.mjs, with the      *)
(* in-enclave certificate order that waits on them (obtainCertificate,     *)
(* enclave/src/acmeRunner.mjs).                                            *)
(*                                                                         *)
(* A slot of Workers holds one worker at a time; a replacement has a new   *)
(* id, and nothing of the old one (its IPC channel, its place in an ack    *)
(* set) outlives its exit, so the slot stands for the id.  `chan` and      *)
(* `back` are the two directions of the IPC pipe, each in order.           *)
(* A message that finds no listener of the worker's own is dropped, as     *)
(* workerMain says of its first one.                                       *)
(***************************************************************************)
EXTENDS Naturals, Sequences, FiniteSets

CONSTANTS
    Workers,            \* worker slots
    Names,              \* names of the certificate order
    MaxFastFailures,    \* exits in a row, soon after a start, before giving up
    MaxDeaths,          \* bound: worker exits
    MaxCerts            \* bound: certificates installed

ASSUME FleetAssumption ==
    /\ Workers # {} /\ IsFiniteSet(Workers)
    /\ IsFiniteSet(Names)
    /\ MaxFastFailures \in Nat \ {0}
    /\ MaxDeaths \in Nat
    /\ MaxCerts \in Nat

VARIABLES
    alive,          \* the primary has not exited
    phase,          \* where a worker is in workerMain
    chan,           \* primary to worker
    back,           \* worker to primary
    snap,           \* the state message a worker is initialising from
    wcert, wchal,   \* the certificate and the challenges a worker has installed
    missed,         \* workers that dropped a message while initialising
    cert, chal,     \* issuedCerts and challenges of the primary
    listening,      \* listening of createFleet
    ackId, pending, \* the open acknowledged broadcast: its id, who has not answered
    order, cur, todo, failed,  \* the order: step, name, names left, an error was thrown
    deaths, fastFailures

worker  == <<phase, snap, wcert, wchal, missed>>
primary == <<cert, chal, listening>>
acking  == <<ackId, pending>>
ordering == <<order, cur, todo, failed>>
dying   == <<alive, deaths, fastFailures>>
vars == <<worker, chan, back, primary, acking, ordering, dying>>

None == [cert |-> 0, chal |-> {}]

Live == {w \in Workers : phase[w] # "down"}

\* Every live worker is sent m; a worker that has just been forked is one.
Broadcast(m) == chan' = [w \in Workers |-> IF w \in Live THEN Append(chan[w], m) ELSE chan[w]]

Init ==
    /\ alive = TRUE
    /\ phase = [w \in Workers |-> "forked"]
    /\ chan = [w \in Workers |-> <<>>]
    /\ back = [w \in Workers |-> <<>>]
    /\ snap = [w \in Workers |-> None]
    /\ wcert = [w \in Workers |-> 0]
    /\ wchal = [w \in Workers |-> {}]
    /\ missed = {}
    /\ cert = 0
    /\ chal = {}
    /\ listening = {}
    /\ ackId = 0
    /\ pending = {}
    /\ order \in {"waiting", "none"}
    /\ cur \in Names
    /\ todo = Names
    /\ failed = FALSE
    /\ deaths = 0
    /\ fastFailures = 0

-----------------------------------------------------------------------------
(* The order.                                                              *)

\* What an acknowledged broadcast does when it is over: an armed challenge may be
\* validated, a cleared one ends its authorization.
AckDone ==
    \/ order = "arming" /\ order' = "validating" /\ UNCHANGED todo
    \/ /\ order = "clearing"
       /\ order' = IF failed THEN "failed" ELSE "between"
       /\ todo' = todo \ {cur}

\* broadcastAcked: with no live worker it is over at once.
BroadcastAcked(kind) ==
    /\ Broadcast([type |-> kind, name |-> cur', ack |-> ackId + 1])
    /\ ackId' = ackId + 1
    /\ pending' = Live
    /\ Live # {}

\* onChallengeArmed of the next authorization: armChallenge.
Arm ==
    /\ alive /\ order = "between"
    /\ cur' \in todo
    /\ chal' = chal \cup {cur'}
    /\ \/ BroadcastAcked("challenge") /\ order' = "arming"
       \/ Live = {} /\ order' = "validating" /\ UNCHANGED <<chan, acking>>
    /\ UNCHANGED <<worker, back, cert, listening, todo, failed, dying>>

\* External: the CA validates by a handshake some listening worker answers.
Validated ==
    /\ alive /\ order = "validating"
    /\ order' = "clear"
    /\ failed' \in BOOLEAN
    /\ UNCHANGED <<worker, chan, back, primary, acking, cur, todo, dying>>

\* The finally of an authorization: clearChallenge.
Clear ==
    /\ alive /\ order = "clear"
    /\ cur' = cur
    /\ chal' = chal \ {cur}
    /\ \/ BroadcastAcked("clear") /\ order' = "clearing" /\ UNCHANGED todo
       \/ /\ Live = {}
          /\ order' = IF failed THEN "failed" ELSE "between"
          /\ todo' = todo \ {cur}
          /\ UNCHANGED <<chan, acking>>
    /\ UNCHANGED <<worker, back, cert, listening, failed, dying>>

\* Mutant of AckTimeout: only an armed challenge is timed out.
AckTimeoutArming ==
    /\ alive /\ pending # {} /\ order = "arming"
    /\ pending' = {} /\ order' = "clear" /\ failed' = TRUE
    /\ UNCHANGED <<worker, chan, back, primary, ackId, cur, todo, dying>>

\* Ten seconds: arming fails the order, clearing only logs.
AckTimeout ==
    /\ alive /\ pending # {}
    /\ pending' = {}
    /\ \/ order = "arming" /\ order' = "clear" /\ failed' = TRUE /\ UNCHANGED todo
       \/ order = "clearing" /\ AckDone /\ UNCHANGED failed
    /\ UNCHANGED <<worker, chan, back, primary, ackId, cur, dying>>

\* Mutant of persistIssued: the workers are told only when the save succeeded.
persistIssuedLate ==
    /\ cert' = cert + 1
    /\ \/ Broadcast([type |-> "issued", cert |-> cert + 1])
       \/ UNCHANGED chan

\* persistIssued: installed here, broadcast, and only then sealed and saved.
persistIssued ==
    /\ cert' = cert + 1
    /\ Broadcast([type |-> "issued", cert |-> cert + 1])

\* The order is finalized, or an ACME call fails at any point outside an authorization.
Finalized ==
    /\ alive /\ order = "between" /\ todo = {}
    /\ \/ persistIssued /\ order' = "done"
       \/ order' = "failed" /\ UNCHANGED <<cert, chan>>
    /\ UNCHANGED <<worker, back, chal, listening, acking, cur, todo, failed, dying>>

\* acme-install of the CI-driven renewal, the other way a certificate comes.
CiInstall ==
    /\ alive /\ order = "none" /\ cert < MaxCerts
    /\ persistIssued
    /\ UNCHANGED <<worker, back, chal, listening, acking, ordering, dying>>

-----------------------------------------------------------------------------
(* Workers.                                                                *)

\* Mutant of Online: active challenges are not part of the state.
OnlineNoChallenges(w) ==
    /\ alive /\ phase[w] = "forked"
    /\ phase' = [phase EXCEPT ![w] = "online"]
    /\ chan' = [chan EXCEPT ![w] = Append(@, [type |-> "state", cert |-> cert, chal |-> {}])]
    /\ UNCHANGED <<snap, wcert, wchal, missed, back, primary, acking, ordering, dying>>

\* 'online': the primary sends the state as it is now.
Online(w) ==
    /\ alive /\ phase[w] = "forked"
    /\ phase' = [phase EXCEPT ![w] = "online"]
    /\ chan' = [chan EXCEPT ![w] = Append(@, [type |-> "state", cert |-> cert, chal |-> chal])]
    /\ UNCHANGED <<snap, wcert, wchal, missed, back, primary, acking, ordering, dying>>

\* The listener for the first message takes the state and goes; what precedes the
\* state is not for it.
AwaitState(w, m) ==
    /\ phase[w] = "online"
    /\ \/ /\ m.type = "state"
          /\ phase' = [phase EXCEPT ![w] = "initialising"]
          /\ snap' = [snap EXCEPT ![w] = [cert |-> m.cert, chal |-> m.chal]]
       \/ m.type # "state" /\ UNCHANGED <<phase, snap>>
    /\ UNCHANGED <<wcert, wchal, missed, back>>

\* Between the two listeners, while the identity is imported.
Unheard(w, m) ==
    /\ phase[w] = "initialising"
    /\ missed' = missed \cup {w}
    /\ UNCHANGED <<phase, snap, wcert, wchal, back>>

\* The steady-state listener.
Apply(w, m) ==
    /\ phase[w] \in {"ready", "listening"}
    /\ \/ /\ m.type = "challenge"
          /\ wchal' = [wchal EXCEPT ![w] = @ \cup {m.name}]
          /\ back' = [back EXCEPT ![w] = Append(@, [type |-> "ack", ack |-> m.ack])]
          /\ UNCHANGED wcert
       \/ /\ m.type = "clear"
          /\ wchal' = [wchal EXCEPT ![w] = @ \ {m.name}]
          /\ back' = [back EXCEPT ![w] = Append(@, [type |-> "ack", ack |-> m.ack])]
          /\ UNCHANGED wcert
       \/ /\ m.type = "issued"
          /\ wcert' = [wcert EXCEPT ![w] = m.cert]
          /\ UNCHANGED <<wchal, back>>
    /\ UNCHANGED <<phase, snap, missed>>

\* 'message' in a worker.
Receive(w) ==
    /\ alive /\ chan[w] # <<>>
    /\ LET m == Head(chan[w]) IN AwaitState(w, m) \/ Unheard(w, m) \/ Apply(w, m)
    /\ chan' = [chan EXCEPT ![w] = Tail(@)]
    /\ UNCHANGED <<primary, acking, ordering, dying>>

\* The identity is imported: the state is installed, the steady listener attached.
Attach(w) ==
    /\ alive /\ phase[w] = "initialising"
    /\ phase' = [phase EXCEPT ![w] = "ready"]
    /\ wcert' = [wcert EXCEPT ![w] = snap[w].cert]
    /\ wchal' = [wchal EXCEPT ![w] = snap[w].chal]
    /\ UNCHANGED <<snap, missed, chan, back, primary, acking, ordering, dying>>

\* The credential blob is applied and both ports are bound.
Listen(w) ==
    /\ alive /\ phase[w] = "ready"
    /\ phase' = [phase EXCEPT ![w] = "listening"]
    /\ back' = [back EXCEPT ![w] = Append(@, [type |-> "listening"])]
    /\ UNCHANGED <<snap, wcert, wchal, missed, chan, primary, acking, ordering, dying>>

-----------------------------------------------------------------------------
(* The primary's side of the pipe, and a worker's exit.                    *)

\* A worker is dropped from the open broadcast, which may be over then.
DropPending(w) ==
    /\ pending' = pending \ {w}
    /\ \/ pending = {w} /\ AckDone
       \/ pending # {w} /\ UNCHANGED <<order, todo>>

\* An ack of a broadcast that is over is ignored.
OnAck(w, m) ==
    /\ m.type = "ack"
    /\ \/ m.ack = ackId /\ DropPending(w)
       \/ m.ack # ackId /\ UNCHANGED <<pending, order, todo>>
    /\ UNCHANGED listening

\* The pending order is placed once, when every worker listens.
OnListening(w, m) ==
    /\ m.type = "listening"
    /\ listening' = listening \cup {w}
    /\ order' = IF order = "waiting" /\ listening' = Workers THEN "between" ELSE order
    /\ UNCHANGED <<pending, todo>>

\* onMessage of the primary.
OnMessage(w) ==
    /\ alive /\ back[w] # <<>>
    /\ LET m == Head(back[w]) IN OnAck(w, m) \/ OnListening(w, m)
    /\ back' = [back EXCEPT ![w] = Tail(@)]
    /\ UNCHANGED <<worker, chan, cert, chal, ackId, cur, failed, dying>>

\* The worker is gone: what it held, its pipe and its place in every set.
Gone(w) ==
    /\ phase' = [phase EXCEPT ![w] = "down"]
    /\ chan' = [chan EXCEPT ![w] = <<>>]
    /\ back' = [back EXCEPT ![w] = <<>>]
    /\ snap' = [snap EXCEPT ![w] = None]
    /\ wcert' = [wcert EXCEPT ![w] = 0]
    /\ wchal' = [wchal EXCEPT ![w] = {}]
    /\ missed' = missed \ {w}

NotListening(w) == listening' = listening \ {w}

\* 'exit' of a worker: ten fast failures in a row take the enclave down.
Exit(w) ==
    /\ alive /\ phase[w] # "down" /\ deaths < MaxDeaths
    /\ deaths' = deaths + 1
    /\ Gone(w)
    /\ NotListening(w)
    /\ \/ w \in pending /\ DropPending(w)
       \/ w \notin pending /\ UNCHANGED <<pending, order, todo>>
    /\ \E fast \in BOOLEAN : fastFailures' = IF fast THEN fastFailures + 1 ELSE 0
    /\ alive' = (fastFailures' < MaxFastFailures)
    /\ UNCHANGED <<cert, chal, ackId, cur, failed>>

\* The respawn timer.
Spawn(w) ==
    /\ alive /\ phase[w] = "down"
    /\ phase' = [phase EXCEPT ![w] = "forked"]
    /\ UNCHANGED <<snap, wcert, wchal, missed, chan, back, primary, acking, ordering, dying>>

Next ==
    \/ Arm \/ Validated \/ Clear \/ AckTimeout \/ Finalized \/ CiInstall
    \/ \E w \in Workers :
          \/ Spawn(w) \/ Online(w) \/ Receive(w) \/ Attach(w) \/ Listen(w)
          \/ OnMessage(w) \/ Exit(w)

Spec == Init /\ [][Next]_vars

\* Timers fire, pipes deliver, workers and the CA make progress.
Fairness ==
    /\ WF_vars(Arm \/ Validated \/ Clear \/ Finalized)
    /\ WF_vars(AckTimeout)
    /\ \A w \in Workers :
          /\ WF_vars(Spawn(w) \/ Online(w) \/ Attach(w) \/ Listen(w))
          /\ WF_vars(Receive(w)) /\ WF_vars(OnMessage(w))

FairSpec == Spec /\ Fairness

-----------------------------------------------------------------------------
(* Properties.                                                             *)

Phases == {"down", "forked", "online", "initialising", "ready", "listening"}
Orders == {"none", "waiting", "between", "arming", "validating", "clear", "clearing",
           "done", "failed"}

TypeOK ==
    /\ alive \in BOOLEAN
    /\ phase \in [Workers -> Phases]
    /\ snap \in [Workers -> [cert : Nat, chal : SUBSET Names]]
    /\ wcert \in [Workers -> Nat]
    /\ wchal \in [Workers -> SUBSET Names]
    /\ missed \subseteq Workers /\ pending \subseteq Workers
    /\ listening \subseteq Live
    /\ cert \in Nat /\ chal \subseteq Names
    /\ ackId \in Nat
    /\ order \in Orders /\ cur \in Names /\ todo \subseteq Names
    /\ failed \in BOOLEAN
    /\ deaths \in Nat /\ fastFailures \in Nat

\* clusterProto.mjs: "EVERY worker must hold it before the CA is told to validate".
\* While a challenge is being validated every worker that accepts connections holds
\* it, workers that died and came back, or were starting when it was armed, included.
ValidatedEverywhere ==
    order = "validating" =>
        \A w \in Workers : phase[w] = "listening" => cur \in wchal[w]

\* A worker that has taken every message sent to it agrees with the primary on the
\* certificate and on the challenges, unless one arrived while it was initialising.
Converged ==
    \A w \in Workers \ missed :
        phase[w] \in {"ready", "listening"} /\ chan[w] = <<>> =>
            wcert[w] = cert /\ wchal[w] = chal

\* An order that was placed is decided, whatever workers die meanwhile.
OrderDecided ==
    order = "between" ~> (order \in {"done", "failed"} \/ ~alive)
=============================================================================
