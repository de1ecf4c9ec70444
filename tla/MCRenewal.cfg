\* An authority and a fleet box, four boots between them and two certificate keys:
\* two renewals in a row, restarts before and after each, a write that fails or
\* comes late, with every fault at every boot and save.
CONSTANTS
    Boxes = {auth, box}
    Authority = auth
    Faults = {"unkeyed", "unopened", "mismatch", "import", "swallow"}
    MaxKeys = 2
    MaxBoots = 4
SPECIFICATION Spec
INVARIANT PersistedMeansStored
INVARIANT FirstAnswerHonest
INVARIANT LastCsrInstallable
PROPERTY IdentityKept
PROPERTY NeverOlder
CHECK_DEADLOCK FALSE
