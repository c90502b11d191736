---------------------------- MODULE MCBindValues ----------------------------
(* Model-checking instance of BindValues: statements of up to MaxSql       *)
(* characters over '$', three digits, a quote and a space; Bind values    *)
(* that parse as an integer (with a leading zero), a decimal whose         *)
(* float64 prints shorter, infinity, and strings with and without a quote. *)
EXTENDS BindValues

MCParamTexts == {<<"0", "7">>, <<"7", ".", "0">>, <<"i", "n", "f">>, <<"a">>, <<"a", "'">>}
=============================================================================
