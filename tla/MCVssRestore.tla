---------------------------- MODULE MCVssRestore ----------------------------
(* Instances of VssRestore for TLC. *)
EXTENDS VssRestore

CONSTANTS n1, n2

TwoNodes == {n1, n2}
=============================================================================
