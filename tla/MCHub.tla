-------------------------------- MODULE MCHub --------------------------------
(***************************************************************************)
(* Two agents, each connected once, and two API connections that post.     *)
(***************************************************************************)
EXTENDS Hub, TLC

CONSTANTS alice, bob, laptop, desktop, p1, p2

MCAgentOf == (laptop :> alice) @@ (desktop :> bob)
TwoAndOne == (p1 :> 2) @@ (p2 :> 1)
OnlyTwo == (p1 :> 2)
=============================================================================
