--------------------------- MODULE MCWorkerMemory ---------------------------
(* Model-checking instances of WorkerMemory.                                 *)
EXTENDS WorkerMemory

\* Two certificates of one key: a renewal that kept its key, and a misissued one.
MCSpkiOf == [c \in Certs \cup {"boot"} |-> IF c \in {"c1", "c2"} THEN "k1" ELSE c]
=============================================================================
