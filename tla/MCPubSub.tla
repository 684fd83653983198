---- MODULE MCPubSub ----
(* Three clients, an exact subscription to the event that is published, a     *)
(* glob that matches it, and a glob that does not.                            *)
EXTENDS PubSub, TLC

CONSTANTS c1, c2, c3, p1, e, g, x

MCOffers == (c1 :> {e}) @@ (c2 :> {e, g}) @@ (c3 :> {e, x})

MCEvent == (p1 :> e)

MCMatch == (p1 :> {g})
====
