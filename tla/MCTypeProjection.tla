------------------------- MODULE MCTypeProjection -------------------------
(* TypeProjection for the engine types a reporting client typically meets: *)
(* one the two ways agree on (INTEGER with a value), one they do not       *)
(* (TIMESTAMP), one duck2pgType maps to a name pgTypes lacks (DATE), and   *)
(* one toPgValue rejects (HUGEINT).                                        *)
EXTENDS TypeProjection

MCEngineTypes == {"INTEGER", "TIMESTAMP", "DATE", "HUGEINT"}
=============================================================================
