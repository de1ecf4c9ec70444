----------------------------- MODULE WorkerClock -----------------------------
(* The clock that what a worker remembers is judged by.  The memories share    *)
(* nothing else, so a behaviour exercises one of them: part.                   *)
EXTENDS Naturals, Sequences, FiniteSets

CONSTANT MaxTime        \* bound: ticks of the clock

ASSUME TimeAssumption == MaxTime \in Nat

VARIABLES
    now,        \* Date.now, in ticks
    part        \* the memory this behaviour exercises

Parts == {"backoff", "bedrock", "vertex", "tinfoil", "identity"}

clock == <<now, part>>

ClockInit == now = 0 /\ part \in Parts

Advance == now < MaxTime /\ now' = now + 1 /\ UNCHANGED part
=============================================================================
