-------------------------------- MODULE Rpc ---------------------------------
(***************************************************************************)
(* What the broker promises of requests, without its table, its timers and *)
(* its goroutines: a request is refused, or it is given to its service and *)
(* the sender gets the reply or hears that there was none.                 *)
(*                                                                         *)
(* The promise is as weak as the code makes it: the sender of a request    *)
(* whose reply comes at the last moment may hear both.                     *)
(***************************************************************************)
EXTENDS Naturals, Sequences

CONSTANTS
  Req,
  Client,
  Sender    \* the client that makes each request

VARIABLES
  status,   \* unasked, refused, accepted, or served: its service replied
  got       \* the answers given to each request, and to whom

vars == <<status, got>>

Refusal == {"NoSuchService", "InvalidIdentification"}

Init ==
  /\ status = [r \in Req |-> "unasked"]
  /\ got = [r \in Req |-> <<>>]

Has(r, kind) == \E n \in 1..Len(got[r]) : got[r][n].kind = kind

Answer(r, kind) ==
  /\ ~Has(r, kind)
  /\ got' = [got EXCEPT ![r] = Append(@, [to |-> Sender[r], kind |-> kind])]

Refuse(r) ==
  /\ status[r] = "unasked"
  /\ status' = [status EXCEPT ![r] = "refused"]
  /\ \E kind \in Refusal : Answer(r, kind)

Accept(r) ==
  /\ status[r] = "unasked"
  /\ status' = [status EXCEPT ![r] = "accepted"]
  /\ UNCHANGED got

Serve(r) ==
  /\ status[r] = "accepted"
  /\ status' = [status EXCEPT ![r] = "served"]
  /\ UNCHANGED got

RelayReply(r) ==
  /\ status[r] = "served"
  /\ Answer(r, "reply")
  /\ UNCHANGED status

GiveUp(r) ==
  /\ status[r] \in {"accepted", "served"}
  /\ Answer(r, "Timeout")
  /\ UNCHANGED status

Next == \E r \in Req : Refuse(r) \/ Accept(r) \/ Serve(r) \/ RelayReply(r) \/ GiveUp(r)

\* The first answer always comes.
Fairness == \A r \in Req : WF_vars(got[r] = <<>> /\ (RelayReply(r) \/ GiveUp(r)))

Spec == Init /\ [][Next]_vars /\ Fairness

=============================================================================
