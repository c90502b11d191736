\* Two client connections and one that sends a CancelRequest for either key.
\* Runs end when every statement has been used up, hence no deadlock check.
CONSTANTS
    Conns = {c1, c2, c3}
    MaxQueries = 2

SYMMETRY ConnSymmetry
SPECIFICATION Spec
INVARIANT CancelReachesStatement
CHECK_DEADLOCK FALSE
