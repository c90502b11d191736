\* A connection that closes must have released every engine statement it prepared.
CONSTANTS
    Unnamed = un
    Names = {un, s1}
    Portals = {pa, pb}
    EnableAuth = FALSE
    AuthResults = {"ok"}
    MaxRows = 1
    MaxFrames = 3

SPECIFICATION Spec
INVARIANT NoLeakAfterClose
CHECK_DEADLOCK FALSE
