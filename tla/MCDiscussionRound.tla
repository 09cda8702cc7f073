-------------------------- MODULE MCDiscussionRound --------------------------
(* TLC instances of DiscussionRound. *)
EXTENDS DiscussionRound, TLC

Symmetry == Permutations(Runs)
=============================================================================
