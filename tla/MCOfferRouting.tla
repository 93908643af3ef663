---------------------------- MODULE MCOfferRouting ----------------------------
(* Instances of OfferRouting for TLC. *)
EXTENDS OfferRouting, TLC

SymmetricKeys == Permutations(Key)

=============================================================================
