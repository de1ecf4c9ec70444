---------------------------- MODULE WorkerMemory ----------------------------
(***************************************************************************)
(* What a worker remembers between requests: the balance backoff, the      *)
(* Bedrock credentials, the Vertex token, the Tinfoil keys and the served  *)
(* identity.  They meet only in the clock, so each behaviour exercises one.*)
(***************************************************************************)
EXTENDS BalanceBackoff, BedrockCreds, VertexAuth, TinfoilKeys, ServedIdentity

vars == <<clock, backoff, bedrock, vertex, tinfoil, identity>>

Init == ClockInit /\ BackoffInit /\ BedrockInit /\ VertexInit /\ TinfoilInit /\ IdentityInit

Next ==
    \/ part = "backoff"  /\ BackoffNext  /\ UNCHANGED <<bedrock, vertex, tinfoil, identity>>
    \/ part = "bedrock"  /\ BedrockNext  /\ UNCHANGED <<backoff, vertex, tinfoil, identity>>
    \/ part = "vertex"   /\ VertexNext   /\ UNCHANGED <<backoff, bedrock, tinfoil, identity>>
    \/ part = "tinfoil"  /\ TinfoilNext  /\ UNCHANGED <<backoff, bedrock, vertex, identity>>
    \/ part = "identity" /\ IdentityNext /\ UNCHANGED <<backoff, bedrock, vertex, tinfoil>>
    \/ /\ part \in {"backoff", "bedrock", "tinfoil"}
       /\ Advance
       /\ UNCHANGED <<backoff, bedrock, vertex, tinfoil, identity>>

Spec == Init /\ [][Next]_vars

-----------------------------------------------------------------------------
(* Properties, the named parts of which are stated with each memory.       *)

\* balanceBackoff.mjs: the window a credential is refused in is hp's, never ours, and
\* the bounded map forgets a running window only when it is full of them.
BackoffAsTold == [][LocalAnswersAsTold /\ LiveEvictedAtCapOnly]_vars

\* bedrockCreds.mjs and vertexAuth.mjs: what a request is signed with, or bears, is
\* alive at that moment; credentials go back to an older delivery only where two
\* decrypts overlapped; one token exchange is open at a time.
CredentialsGood == [][SignedAlive /\ NeverBackUnlessOverlapped /\ HandedAlive]_vars
=============================================================================
