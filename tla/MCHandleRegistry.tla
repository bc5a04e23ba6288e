-------------------------- MODULE MCHandleRegistry --------------------------
(* Model-checking instances of HandleRegistry. *)
EXTENDS HandleRegistry, TLC

(* Sound for the safety runs only. *)
Symmetry == Permutations(Envs) \cup Permutations(Addrs) \cup Permutations(NodeObjs)

=============================================================================
