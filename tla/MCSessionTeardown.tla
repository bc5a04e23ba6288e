-------------------------- MODULE MCSessionTeardown --------------------------
(* Model values for the checks of SessionTeardown.                         *)
EXTENDS SessionTeardown, TLC

Symmetry == Permutations(Shut) \cup Permutations(Conn)
=============================================================================
