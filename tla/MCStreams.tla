----------------------------- MODULE MCStreams -----------------------------
(* Model-checking instances of Streams.                                      *)
EXTENDS Streams

\* Both cache buckets; a BYOK frame with its inference cost; one flagged without it; and
\* an answer whose usage is null.
MCUsages ==
    {[in |-> 9, out |-> 5, read |-> 3, write |-> 1, cost |-> 7],
     [in |-> 4, out |-> 2, cost |-> 7, byok |-> 1, inference |-> 6],
     [in |-> 4, out |-> 2, cost |-> 7, byok |-> 1],
     None}

\* Every token of the prompt read from a cache or written to it.
MCAllCached == {[in |-> 4, out |-> 2, read |-> 3, write |-> 1]}
=============================================================================
