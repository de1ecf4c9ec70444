\* Two workers, two names, two exits: a worker is replaced while a challenge is
\* armed, validated and cleared.
CONSTANTS
    Workers = {w1, w2}
    Names = {n1, n2}
    MaxFastFailures = 2
    MaxDeaths = 2
    MaxCerts = 2
SPECIFICATION FairSpec
INVARIANT ValidatedEverywhere
INVARIANT Converged
PROPERTY OrderDecided
CHECK_DEADLOCK FALSE
