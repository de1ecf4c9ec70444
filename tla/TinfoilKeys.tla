----------------------------- MODULE TinfoilKeys -----------------------------
(***************************************************************************)
(* The two caches of tinfoil.mjs: the attestor's verified router key, that *)
(* the enclave seals with, and the raw bundle handed to clients that seal  *)
(* for themselves; and the router's key-rotation 422 that invalidates them.*)
(***************************************************************************)
EXTENDS WorkerClock

CONSTANTS
    Sealers,        \* requests the enclave seals (chat, speech)
    Clients,        \* requests a client sealed itself (the private relay)
    MaxRotations,   \* bound: key rotations of the router
    KeyTtl          \* ATTESTATION_TTL_MS and BUNDLE_CACHE_TTL_MS

ASSUME TinfoilAssumption == MaxRotations \in Nat /\ KeyTtl \in Nat \ {0} /\ Sealers \cap Clients = {}

VARIABLES
    epoch,      \* the router's key
    cached,     \* cached[c]: the key a cache holds, [key, at], NoKey when none
    fetch,      \* fetch[c]: the refresh, [state, key]: "none", "open", "read"
    step,       \* step[r]: "idle", "get", "sealed", "retry", "reget", "resealed", "done"
    key,        \* key[r]: the key a request was sealed to
    refused     \* refused[r]: [epoch, joined] of the 422 it got

tinfoil == <<epoch, cached, fetch, step, key, refused>>

Caches == {"attestor", "bundle"}

NoKey == [key |-> 0, at |-> 0]

NoFetch == [state |-> "none", key |-> 0]

\* Which cache a request reads.
Of(r) == IF r \in Sealers THEN "attestor" ELSE "bundle"

TinfoilInit ==
    /\ epoch = 1
    /\ cached = [c \in Caches |-> NoKey]
    /\ fetch = [c \in Caches |-> NoFetch]
    /\ step = [r \in Sealers \cup Clients |-> "idle"]
    /\ key = [r \in Sealers \cup Clients |-> 0]
    /\ refused = [r \in Sealers \cup Clients |-> [epoch |-> 0, joined |-> FALSE]]

\* External: the router rotates its key.
Rotate ==
    /\ epoch <= MaxRotations
    /\ epoch' = epoch + 1
    /\ UNCHANGED <<cached, fetch, step, key, refused, clock>>

Fresh(c) == cached[c] # NoKey /\ now - cached[c].at < KeyTtl

Waiting == {"get", "reget"}

\* Where a get leads from here: awaiting the refresh, and holding the key.
Awaits(s) == IF s = "idle" THEN "get" ELSE "reget"
Seals(s)  == IF s \in {"idle", "get"} THEN "sealed" ELSE "resealed"

\* The refresh a miss awaits: the open one, or a new one.
Joined(f) == IF f = NoFetch THEN [state |-> "open", key |-> 0] ELSE f

\* get: a hit seals at once; a miss awaits the refresh.
Get(r) ==
    /\ step[r] \in {"idle", "retry"}
    /\ \/ /\ Fresh(Of(r))
          /\ key' = [key EXCEPT ![r] = cached[Of(r)].key]
          /\ step' = [step EXCEPT ![r] = Seals(@)]
          /\ UNCHANGED fetch
       \/ /\ ~Fresh(Of(r))
          /\ fetch' = [fetch EXCEPT ![Of(r)] = Joined(@)]
          /\ step' = [step EXCEPT ![r] = Awaits(@)]
          /\ UNCHANGED key
    /\ UNCHANGED <<epoch, cached, refused, clock>>

\* External: ATC answers with the router's key of that moment.
Fetched(c) ==
    /\ fetch[c].state = "open"
    /\ fetch' = [fetch EXCEPT ![c] = [state |-> "read", key |-> epoch]]
    /\ UNCHANGED <<epoch, cached, step, key, refused, clock>>

Waits(r, c) == Of(r) = c /\ step[r] \in Waiting

\* The bundle is verified (the attestor's) and cached; who awaited it seals.
Installed(c) ==
    /\ fetch[c].state = "read"
    /\ cached' = [cached EXCEPT ![c] = [key |-> fetch[c].key, at |-> now]]
    /\ key' = [r \in DOMAIN key |-> IF Waits(r, c) THEN fetch[c].key ELSE key[r]]
    /\ step' = [r \in DOMAIN step |-> IF Waits(r, c) THEN Seals(step[r]) ELSE step[r]]
    /\ fetch' = [fetch EXCEPT ![c] = NoFetch]
    /\ UNCHANGED <<epoch, refused, clock>>

\* The fetch or the verification fails: what was cached stays, who awaited it is
\* refused.
FetchFails(c) ==
    /\ fetch[c] # NoFetch
    /\ fetch' = [fetch EXCEPT ![c] = NoFetch]
    /\ step' = [r \in DOMAIN step |-> IF Waits(r, c) THEN "done" ELSE step[r]]
    /\ UNCHANGED <<epoch, cached, key, refused, clock>>

\* Mutant of Invalidates: the enclave's own 422 drops the bundle only.
InvalidatesBundle(r) == {"bundle"}

\* A 422 for a request the enclave sealed invalidates both caches, one for a client's
\* own the bundle.
Invalidates(r) == IF r \in Sealers THEN Caches ELSE {"bundle"}

\* The router answers.  The first 422 invalidates, and get is called again: by the
\* enclave in the same turn, by a client when it comes back, so that the model has
\* every order the code has, and more.  The second 422 is final.
RouterAnswers(r) ==
    /\ step[r] \in {"sealed", "resealed"}
    /\ \/ /\ key[r] = epoch \/ step[r] = "resealed"
          /\ step' = [step EXCEPT ![r] = "done"]
          /\ UNCHANGED <<cached, refused>>
       \/ /\ key[r] # epoch /\ step[r] = "sealed"
          /\ cached' = [c \in Caches |-> IF c \in Invalidates(r) THEN NoKey ELSE cached[c]]
          /\ refused' = [refused EXCEPT ![r] = [epoch |-> epoch, joined |-> fetch[Of(r)] # NoFetch]]
          /\ step' = [step EXCEPT ![r] = "retry"]
    /\ UNCHANGED <<epoch, fetch, key, clock>>

TinfoilNext ==
    \/ Rotate
    \/ \E r \in Sealers \cup Clients : Get(r) \/ RouterAnswers(r)
    \/ \E c \in Caches : Fetched(c) \/ Installed(c) \/ FetchFails(c)

-----------------------------------------------------------------------------
\* tinfoil.mjs, of invalidate: the next get refetches.  What a request is sealed to
\* after a 422 is no older than the key that 422 was about, so the one retry is not
\* wasted; except where a refresh was open when the 422 came: get joins that one.
ResealedFresh ==
    \A r \in DOMAIN step :
        step[r] = "resealed" => key[r] >= refused[r].epoch \/ refused[r].joined
=============================================================================
