------------------------------ MODULE MCPgServer ----------------------------
(* Model-checking instance of PgServer: a few accepted connections, any of *)
(* which may open with a CancelRequest naming another one's key.           *)
EXTENDS PgServer, TLC

\* Connections are interchangeable: the code treats every key alike.
ConnSymmetry == Permutations(Conns)
=============================================================================
