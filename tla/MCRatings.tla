------------------------------ MODULE MCRatings ------------------------------
(* Ratings with interchangeable trips and requests. *)
EXTENDS Ratings, TLC

Symmetric == Permutations(Trip) \cup Permutations(Request)

=============================================================================
