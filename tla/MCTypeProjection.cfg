\* A column's OID depends on whether the result was empty, or on whether
\* its first value was NULL: expected to be violated.
CONSTANT EngineTypes <- MCEngineTypes
SPECIFICATION Spec
INVARIANT OidPerColumnType
CHECK_DEADLOCK FALSE
