----------------------------- MODULE VertexAuth -----------------------------
(***************************************************************************)
(* The Vertex access token (vertexAuth.mjs): cached until a margin before  *)
(* its expiry, minted by at most one exchange that concurrent requests     *)
(* share.                                                                  *)
(***************************************************************************)
EXTENDS WorkerClock

CONSTANTS
    Callers,        \* requests with a vertex candidate
    Lifetimes,      \* expires_in values Google answers
    TokenMargin,    \* EXPIRY_MARGIN_MS
    MintLimit       \* the longest an exchange takes, in ticks

ASSUME VertexAssumption ==
    /\ Lifetimes \subseteq Nat /\ TokenMargin \in Nat /\ MintLimit \in Nat
    /\ \A life \in Lifetimes : MintLimit < life

VARIABLES
    token,          \* the cached token's end of life at Google, 0 when there is none
    expiresAt,      \* what the cache believes of it
    inflight,       \* the open exchange: [since, issued, life], NoMint when none
    waiting,        \* callers that await it
    handed,         \* [caller, expiry]: the last token handed to a request
    exchanges       \* exchanges open at the endpoint

vertex == <<token, expiresAt, inflight, waiting, handed, exchanges>>

NoMint == [since |-> MaxTime + 1, issued |-> 0, life |-> 0]

VertexInit ==
    /\ token = 0 /\ expiresAt = 0 /\ inflight = NoMint /\ waiting = {}
    /\ handed = [caller |-> "none", expiry |-> 0] /\ exchanges = 0

Cached == token # 0 /\ now + TokenMargin < expiresAt

getToken(c) ==
    /\ c \notin waiting
    /\ \/ /\ Cached
          /\ handed' = [caller |-> c, expiry |-> token]
          /\ UNCHANGED <<inflight, waiting, exchanges>>
       \/ /\ ~Cached
          /\ waiting' = waiting \cup {c}
          /\ \/ inflight # NoMint /\ UNCHANGED <<inflight, exchanges>>
             \/ /\ inflight = NoMint
                /\ inflight' = [since |-> now, issued |-> 0, life |-> 0]
                /\ exchanges' = exchanges + 1
          /\ UNCHANGED handed
    /\ UNCHANGED <<token, expiresAt, clock>>

\* External: Google issues a token of some lifetime.
Issue ==
    /\ inflight # NoMint /\ inflight.issued = 0
    /\ \E life \in Lifetimes : 
          inflight' = [inflight EXCEPT !.issued = now + life, !.life = life]
    /\ UNCHANGED <<token, expiresAt, waiting, handed, exchanges, clock>>

\* The answer comes.  Its expiry is reckoned from the call of getToken.
Minted ==
    /\ inflight.issued # 0
    /\ token' = inflight.issued
    /\ expiresAt' = inflight.since + inflight.life
    /\ \E c \in waiting : handed' = [caller |-> c, expiry |-> inflight.issued]
    /\ waiting' = {} /\ inflight' = NoMint /\ exchanges' = exchanges - 1
    /\ UNCHANGED clock

\* An error, a refusal, a timeout or an unusable answer: every waiter skips vertex.
MintFails ==
    /\ inflight # NoMint
    /\ waiting' = {} /\ inflight' = NoMint /\ exchanges' = exchanges - 1
    /\ UNCHANGED <<token, expiresAt, handed, clock>>

\* The exchange's timeout bounds what the clock may do meanwhile.
VertexTick ==
    /\ inflight # NoMint => now < inflight.since + MintLimit
    /\ Advance /\ UNCHANGED vertex

VertexNext == (\E c \in Callers : getToken(c)) \/ Issue \/ Minted \/ MintFails \/ VertexTick

-----------------------------------------------------------------------------
\* A token handed to a request is alive at Google, whether it was cached or minted
\* for somebody else's call, and one exchange at most is open.
HandedAlive == (handed' # handed => handed'.expiry > now) /\ exchanges' <= 1
=============================================================================
