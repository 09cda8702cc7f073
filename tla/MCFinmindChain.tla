---------------------------- MODULE MCFinmindChain ----------------------------
(* Small instances of FinmindChain: see the .cfg files. *)
EXTENDS FinmindChain, TLC
Symmetry == Permutations(Chains) \cup Permutations(Workers)
=============================================================================
