\* Three settles and a cap of two: the drop of the oldest item happens, in
\* flight or not; two retries each; one cut answer and one crash.
CONSTANTS
    Settles = {s1, s2, s3}
    MaxAttempts = 2
    Cap = 2
    BackoffCap = 1
    MaxCuts = 1
    MaxCrashes = 1
SPECIFICATION FairSpec
INVARIANT NoSilentLoss
INVARIANT AtMostOnePost
INVARIANT ReportsExplained
PROPERTY DecidedUnlessCut
PROPERTY DecidedNeverReposted
CHECK_DEADLOCK FALSE
