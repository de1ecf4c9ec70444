\* Two connections that may share a peer tuple, one of each port; two requests and room
\* for one.  A header is read in every way its bytes can be cut.  Two changes of
\* spelling combine, an escape with a slash or with a dot segment.
CONSTANTS
    Conns = {c1, c2}
    Peers = {p}
    Headers <- MCHeaders
    FirstRead = 2
    HeaderFixed = 3
    EnclaveRoutes <- MCRoutes
    Names = {"v1", "messages", "health"}
    Requests = {r1, r2}
    MaxInflight = 1
    Foreign <- MCForeign
    Methods = {"GET", "POST"}
    MaxRespell = 2
SPECIFICATION Spec
INVARIANT SlotsExact
INVARIANT LeavesAsItShould
PROPERTY RunAgainOnlyIfSafe
PROPERTY UnansweredEnds
CHECK_DEADLOCK FALSE
