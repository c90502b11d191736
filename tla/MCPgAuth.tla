------------------------------ MODULE MCPgAuth ------------------------------
(* Model-checking instance of PgAuth: two sessions, one user name, two     *)
(* passwords.                                                              *)
EXTENDS PgAuth, TLC

\* Sessions are interchangeable, and so are passwords.
AuthSymmetry == Permutations(Sessions) \cup Permutations(Passwords)
=============================================================================
