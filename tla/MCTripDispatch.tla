---------------------------- MODULE MCTripDispatch ----------------------------
(* Instances of TripDispatch for TLC. *)
EXTENDS TripDispatch, TLC

\* Trips, and drivers, are interchangeable (used by runs without liveness only).
SymmetricTrips   == Permutations(Trip)
SymmetricDrivers == Permutations(Driver)

=============================================================================
