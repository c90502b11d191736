------------------------------- MODULE MCCopyIn -----------------------------
(* Model-checking instance of CopyIn: client streams of up to MaxData       *)
(* CopyData frames of every record class, ended by every final frame.      *)
EXTENDS CopyIn, TLC
=============================================================================
