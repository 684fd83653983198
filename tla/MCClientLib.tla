---- MODULE MCClientLib ----
(* The calls of the client's goroutines: one of the program, one of a handler. *)
EXTENDS ClientLib

CONSTANTS r1, n1, k1

\* The broker may answer the call of the program twice, by a reply and a timeout.
\* The message loop reads no more once it waits for an answer to the other one.
MCMaxAnswers == [r \in Req |-> IF r = r1 THEN 2 ELSE 0]
====
