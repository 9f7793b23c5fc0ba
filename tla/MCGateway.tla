----------------------------- MODULE MCGateway -----------------------------
(* Instances of Gateway for TLC. *)
EXTENDS Gateway, TLC

CONSTANTS cheap, dear
TwoPrices == (cheap :> 1) @@ (dear :> 2)
=============================================================================
