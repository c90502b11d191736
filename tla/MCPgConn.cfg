\* Extended and simple query protocol with authentication enabled: clients
\* authenticate, are rejected (and keep sending frames), or fail startup.
\* Runs stop at MaxFrames frames or after Close, hence no deadlock check.
CONSTANTS
    Unnamed = un
    Names = {un, s1}
    Portals = {pa, pb}
    EnableAuth = TRUE
    AuthResults = {"ok", "rejected", "failed"}
    MaxRows = 2
    MaxFrames = 4

SYMMETRY PortalSymmetry
SPECIFICATION Spec
INVARIANT TypeOK
INVARIANT NoClosedStmtReachable
INVARIANT RowCountMatches
PROPERTY SilentAfterError
CHECK_DEADLOCK FALSE
