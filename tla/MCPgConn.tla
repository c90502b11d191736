------------------------------ MODULE MCPgConn ------------------------------
(* Model-checking instance of PgConn: two statement names (the unnamed one  *)
(* and one named), two portals, result sets of up to MaxRows rows.         *)
EXTENDS PgConn, TLC

\* Portal names play no special role in the code (the unnamed portal is
\* just the key ""), so permuting them is a symmetry.
PortalSymmetry == Permutations(Portals)
=============================================================================
