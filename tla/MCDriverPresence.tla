--------------------------- MODULE MCDriverPresence ---------------------------
(* Instances of DriverPresence for TLC. *)
EXTENDS DriverPresence, TLC

=============================================================================
