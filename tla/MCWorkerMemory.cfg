\* Three credentials and room for two: eviction happens, with and without an expired
\* entry.  Two workers, two blobs and a respawn: decrypts overlap.  Two callers share
\* one exchange.  Two sealers and a client see one rotation each, and one more.
CONSTANTS
    MaxTime = 4
    Keys = {k1, k2, k3}
    Asks = {a1, a2}
    PerSecond = 2
    MaxRetryAfter = 2
    MaxTracked = 2
    Workers = {w1, w2}
    MaxBlobs = 2
    MaxRespawns = 1
    CredsMargin = 1
    Callers = {c1, c2}
    Lifetimes = {2, 4}
    TokenMargin = 1
    MintLimit = 1
    Sealers = {s1, s2}
    Clients = {x1}
    MaxRotations = 2
    KeyTtl = 2
    Certs = {"c1", "c2", "c3"}
    Broken = {"c2"}
    SpkiOf <- MCSpkiOf
    Conns = {n1, n2}
SPECIFICATION Spec
INVARIANT ResealedFresh
INVARIANT SignsAsServed
PROPERTY BackoffAsTold
PROPERTY CredentialsGood
CHECK_DEADLOCK FALSE
