--------------------------- MODULE MCStripeWebhook ---------------------------
(* Small instances of StripeWebhook: see the .cfg files. *)
EXTENDS StripeWebhook, TLC
Symmetry == Permutations(Events) \cup Permutations(Tasks)
=============================================================================
