---- MODULE MCRequests ----
(* Two clients, three requests: one of each client under the same id, to the   *)
(* built-in service, and one under an id of its own, to a service which shares *)
(* its name with the other one.                                                *)
EXTENDS Requests, TLC

CONSTANTS c1, c2, r1, r2, r3, s1, s2, n1

MCSender == [r \in Req |-> IF r = r2 THEN c2 ELSE c1]

MCTarget == [r \in Req |-> IF r = r3 THEN s2 ELSE s1]

MCNameOf == (s1 :> n1) @@ (s2 :> n1)

MCIdOf == [r \in Req |-> IF r = r3 THEN 2 ELSE 1]

\* The service of r3 may reply twice, that of r2 never does.
MCMaxReplies == (r1 :> 1) @@ (r2 :> 0) @@ (r3 :> 2)
====
