---- MODULE MCRegistry ----
(* Three connections, the third one from the address of the first. *)
EXTENDS Registry, TLC

CONSTANTS c1, c2, c3, a1, a2, k1, k2, kc

MCAddr == (c1 :> a1) @@ (c2 :> a2) @@ (c3 :> a1)

MCOffers == (c1 :> {k1, k2}) @@ (c2 :> {k1}) @@ (c3 :> {k2, kc})
====
