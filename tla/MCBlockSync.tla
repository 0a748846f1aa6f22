----------------------------- MODULE MCBlockSync -----------------------------
(* Instances of BlockSync for TLC: two peers, one behind the other. *)
EXTENDS BlockSync, TLC
CONSTANTS p1, p2
MCPeer == {p1, p2}
LongChain == (p1 :> 4) @@ (p2 :> 3)
=============================================================================
