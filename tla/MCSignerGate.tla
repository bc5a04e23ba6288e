---------------------------- MODULE MCSignerGate ----------------------------
(* Model-checking instance of SignerGate; temporal properties, so no        *)
(* symmetry.                                                                *)
EXTENDS SignerGate
=============================================================================
