\* Every kind of client message, concurrent sessions, user creation and
\* rewrites of duckserver.users through ExecuteQuery.
CONSTANTS
    Sessions = {c1, c2}
    Users = {alice, bob}
    Passwords = {pw1, pw2}
    InitialKinds = {"io", "unparsable", "wrongMech", "noData", "noNonce", "good"}
    FinalKinds = {"io", "unparsable", "proof", "shortProof"}

SYMMETRY AuthSymmetry
SPECIFICATION Spec
INVARIANT TypeOK
 
CHECK_DEADLOCK FALSE
