\* Clients that send a well-formed SCRAM exchange for a user that may not exist
\* yet or with a password that does not match, or a SASLInitialResponse that
\* does not parse.
CONSTANTS
    Sessions = {c1, c2}
    Users = {alice}
    Passwords = {pw1, pw2}
    InitialKinds = {"good", "unparsable"}
    FinalKinds = {"proof"}

SPECIFICATION Spec
INVARIANT OnlyAuthenticatedInLoop
CHECK_DEADLOCK FALSE
