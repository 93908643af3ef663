------------------------------ MODULE MCPricing ------------------------------
(* Instances of Pricing for TLC. *)
EXTENDS Pricing, TLC

=============================================================================
