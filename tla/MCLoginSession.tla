--------------------------- MODULE MCLoginSession ---------------------------
(* LoginSession with interchangeable requests. *)
EXTENDS LoginSession, TLC

SymmetricHandlers == Permutations(Handler)

=============================================================================
