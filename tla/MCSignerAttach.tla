---------------------------- MODULE MCSignerAttach ----------------------------
(* Two signers of one seed, on networks with different coin types: one node *)
(* id, two account keys.                                                    *)
EXTENDS SignerAttach, TLC

CONSTANTS s1, s2, main, test

MCId == (s1 :> main) @@ (s2 :> test)
MCNodeOf == (main :> "node") @@ (test :> "node")

Symmetry == Permutations(Threads)
=============================================================================
