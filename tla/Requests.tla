------------------------------ MODULE Requests ------------------------------
(***************************************************************************)
(* The broker's request routing: handleRequest, its timeout, handleReply,  *)
(* and the built-in service's use of the request table.                    *)
(*                                                                         *)
(* Three kinds of goroutine meet in the table reqIds: the one of the       *)
(* connection that sent a request, the runtime's timers, and the one of    *)
(* the connection that serves it.  The table is only locked around each    *)
(* access, so a lookup and the delete that follows it are two actions.     *)
(*                                                                         *)
(* Spies are left out: no request of the network reaches the code that     *)
(* adds one.                                                               *)
(***************************************************************************)
EXTENDS Naturals, Sequences

CONSTANTS
  Req,         \* request messages, each sent once
  Client,      \* the connections that send them
  Service,     \* registered services, each on a connection of its own
  Builtin,     \* those of the built-in "cellaserv" service
  Sender,      \* the connection of each request
  Target,      \* the service each request names
  NameOf,      \* the name of each service
  IdOf,        \* the id the sender chose for each request
  EarlyFire,   \* may a timer fire before the two statements after it ran?
  MaxReplies,  \* how often the service of each request may reply to it
  None

ASSUME ConstAssumption ==
  /\ Builtin \subseteq Service
  /\ Sender \in [Req -> Client]
  /\ Target \in [Req -> Service]
  /\ EarlyFire \in BOOLEAN
  /\ MaxReplies \in [Req -> Nat]
  /\ None \notin Req

\* Ids are drawn at random (client.go:427) and incremented: nothing keeps two
\* clients from using the same one.  These are the requests with an id of their own.
OwnId == {r \in Req : \A q \in Req : IdOf[q] = IdOf[r] => q = r}

Ids == {IdOf[r] : r \in Req}

VARIABLES
  serving,     \* the services that are registered, and connected
  pc,          \* how far handleRequest is with each request
  reqIds,      \* the request tracked under each id
  timer,       \* the timer of each request
  inbox,       \* the requests written to the connection of their service
  sent,        \* how many replies the service wrote for each request
  job,         \* the handleReply call of each service's connection
  name,        \* the request that gave each client its name
  got,         \* the answers written for each request, and to whom
  later        \* history: the requests tracked under the id of each after it

vars == <<serving, pc, reqIds, timer, inbox, sent, job, name, got, later>>

NoJob == [at |-> "idle", rep |-> None, track |-> None]

Job == [at : {"idle", "found", "deleted"}, rep : Req \cup {None},
        track : Req \cup {None}]

Answer == [to : Client,
           kind : {"NoSuchService", "InvalidIdentification", "Timeout", "reply"}]

TypeOK ==
  /\ serving \subseteq Service
  /\ pc \in [Req -> {"unsent", "armed", "tracked", "done"}]
  /\ reqIds \in [Ids -> Req \cup {None}]
  /\ timer \in [Req -> {"off", "armed", "found", "deleted", "over"}]
  /\ inbox \subseteq Req
  /\ sent \in [Req -> Nat]
  /\ job \in [Service -> Job]
  /\ name \in [Client -> Req \cup {None}]
  /\ got \in [Req -> Seq(Answer)]
  /\ later \in [Req -> SUBSET Req]
  /\ \A s \in Service : job[s].at # "idle" => job[s].rep # None /\ job[s].track # None

Init ==
  /\ serving = {}
  /\ pc = [r \in Req |-> "unsent"]
  /\ reqIds = [i \in Ids |-> None]
  /\ timer = [r \in Req |-> "off"]
  /\ inbox = {}
  /\ sent = [r \in Req |-> 0]
  /\ job = [s \in Service |-> NoJob]
  /\ name = [c \in Client |-> None]
  /\ got = [r \in Req |-> <<>>]
  /\ later = [r \in Req |-> {}]

Send(r, c, k) == got' = [got EXCEPT ![r] = Append(@, [to |-> c, kind |-> k])]

-----------------------------------------------------------------------------
(* The registry, as far as requests see it *)

Appear(s) ==
  /\ s \notin serving
  /\ job[s] = NoJob
  /\ serving' = serving \cup {s}
  /\ UNCHANGED <<pc, reqIds, timer, inbox, sent, job, name, got, later>>

\* The connection of the service ends, and what it had not read is lost.  Its
\* goroutine only sees that once it has handled every reply it read.
Vanish(s) ==
  /\ s \in serving
  /\ job[s] = NoJob
  /\ serving' = serving \ {s}
  /\ inbox' = {r \in inbox : Target[r] # s}
  /\ UNCHANGED <<pc, reqIds, timer, sent, job, name, got, later>>

-----------------------------------------------------------------------------
(* handleRequest *)

\* The goroutine of a connection handles one request after the other.
Reads(r) ==
  /\ pc[r] = "unsent"
  /\ \A q \in Req : Sender[q] = Sender[r] => pc[q] \in {"unsent", "done"}

Named(r) == \E s \in serving : NameOf[s] = NameOf[Target[r]]

Refuse(r, kind) ==
  /\ Reads(r)
  /\ pc' = [pc EXCEPT ![r] = "done"]
  /\ Send(r, Sender[r], kind)
  /\ UNCHANGED <<serving, reqIds, timer, inbox, sent, job, name, later>>

NoSuchService(r) == ~Named(r) /\ Refuse(r, "NoSuchService")

InvalidIdentification(r) ==
  Named(r) /\ Target[r] \notin serving /\ Refuse(r, "InvalidIdentification")

\* The service is found and time.AfterFunc starts the timer.
ArmTimer_forwards(r) ==
  /\ Reads(r)
  /\ Target[r] \in serving
  /\ pc' = [pc EXCEPT ![r] = "armed"]
  /\ timer' = [timer EXCEPT ![r] = "armed"]
  /\ inbox' = inbox \cup {r}
  /\ UNCHANGED <<serving, reqIds, sent, job, name, got, later>>

ArmTimer(r) ==
  /\ Reads(r)
  /\ Target[r] \in serving
  /\ pc' = [pc EXCEPT ![r] = "armed"]
  /\ timer' = [timer EXCEPT ![r] = "armed"]
  /\ UNCHANGED <<serving, reqIds, inbox, sent, job, name, got, later>>

WasTracked(r) == pc[r] \in {"tracked", "done"}

\* b.reqIds[id] = reqTrack, whatever was there
Track_keepsFirst(r) ==
  /\ pc[r] = "armed"
  /\ pc' = [pc EXCEPT ![r] = "tracked"]
  /\ reqIds' = [reqIds EXCEPT ![IdOf[r]] = IF @ = None THEN r ELSE @]
  /\ later' = [q \in Req |-> IF IdOf[q] = IdOf[r] /\ WasTracked(q)
                             THEN later[q] \cup {r} ELSE later[q]]
  /\ UNCHANGED <<serving, timer, inbox, sent, job, name, got>>

Track(r) ==
  /\ pc[r] = "armed"
  /\ pc' = [pc EXCEPT ![r] = "tracked"]
  /\ reqIds' = [reqIds EXCEPT ![IdOf[r]] = r]
  /\ later' = [q \in Req |-> IF IdOf[q] = IdOf[r] /\ WasTracked(q)
                             THEN later[q] \cup {r} ELSE later[q]]
  /\ UNCHANGED <<serving, timer, inbox, sent, job, name, got>>

\* srvc.sendMessage: the service was found earlier and may be gone, in which
\* case the error is logged and the request is left to its timer.
Forward(r) ==
  /\ pc[r] = "tracked"
  /\ pc' = [pc EXCEPT ![r] = "done"]
  /\ inbox' = IF Target[r] \in serving THEN inbox \cup {r} ELSE inbox
  /\ UNCHANGED <<serving, reqIds, timer, sent, job, name, got, later>>

-----------------------------------------------------------------------------
(* handleTimeout *)

MayFire(r) == EarlyFire \/ pc[r] # "armed"

\* The timer fires and looks its request up.
Expire(r) ==
  /\ timer[r] = "armed" /\ MayFire(r)
  /\ timer' = [timer EXCEPT ![r] = IF reqIds[IdOf[r]] = None THEN "over" ELSE "found"]
  /\ UNCHANGED <<serving, pc, reqIds, inbox, sent, job, name, got, later>>

TimeoutDelete_keeps(r) ==
  /\ timer[r] = "found"
  /\ timer' = [timer EXCEPT ![r] = "deleted"]
  /\ UNCHANGED <<serving, pc, reqIds, inbox, sent, job, name, got, later>>

TimeoutDelete(r) ==
  /\ timer[r] = "found"
  /\ timer' = [timer EXCEPT ![r] = "deleted"]
  /\ reqIds' = [reqIds EXCEPT ![IdOf[r]] = None]
  /\ UNCHANGED <<serving, pc, inbox, sent, job, name, got, later>>

TimeoutSend(r) ==
  /\ timer[r] = "deleted"
  /\ timer' = [timer EXCEPT ![r] = "over"]
  /\ Send(r, Sender[r], "Timeout")
  /\ UNCHANGED <<serving, pc, reqIds, inbox, sent, job, name, later>>

-----------------------------------------------------------------------------
(* Services, and handleReply on their connections *)

CanReply(s, r) ==
  /\ r \in inbox /\ Target[r] = s /\ s \in serving
  /\ sent[r] < MaxReplies[r]
  /\ job[s] = NoJob

\* nameClient: RenameClientFromRequest finds the sender through the id of the
\* request, and leaves every name alone when the request is not tracked any
\* more.
NameClient(s, r) ==
  /\ s \in Builtin
  /\ CanReply(s, r)
  /\ reqIds[IdOf[r]] # None
  /\ name' = [name EXCEPT ![Sender[reqIds[IdOf[r]]]] = r]
  /\ UNCHANGED <<serving, pc, reqIds, timer, inbox, sent, job, got, later>>

\* The broker reads a reply and looks its request up; without one, the reply
\* is dropped.
ReplyLookup_unchecked(s, r) ==
  /\ CanReply(s, r)
  /\ sent' = [sent EXCEPT ![r] = @ + 1]
  /\ job' = [job EXCEPT ![s] = [at |-> "found", rep |-> r, track |-> reqIds[IdOf[r]]]]
  /\ UNCHANGED <<serving, pc, reqIds, timer, inbox, name, got, later>>

ReplyLookup(s, r) ==
  /\ CanReply(s, r)
  /\ sent' = [sent EXCEPT ![r] = @ + 1]
  /\ job' = IF reqIds[IdOf[r]] = None THEN job
            ELSE [job EXCEPT ![s] = [at |-> "found", rep |-> r,
                                     track |-> reqIds[IdOf[r]]]]
  /\ UNCHANGED <<serving, pc, reqIds, timer, inbox, name, got, later>>

ReplyDelete(s) ==
  /\ job[s].at = "found"
  /\ job' = [job EXCEPT ![s].at = "deleted"]
  /\ reqIds' = [reqIds EXCEPT ![IdOf[job[s].rep]] = None]
  /\ UNCHANGED <<serving, pc, timer, inbox, sent, name, got, later>>

\* timer.Stop() has no effect on a timer that fired.
Stopped(r) == [timer EXCEPT ![r] = IF @ = "armed" THEN "over" ELSE @]

\* ... and the reply is written to the connection that was tracked.
ReplySend_drops(s) ==
  /\ job[s].at = "deleted"
  /\ timer' = Stopped(job[s].track)
  /\ job' = [job EXCEPT ![s] = NoJob]
  /\ UNCHANGED <<serving, pc, reqIds, inbox, sent, name, got, later>>

ReplySend(s) ==
  /\ job[s].at = "deleted"
  /\ timer' = Stopped(job[s].track)
  /\ Send(job[s].rep, Sender[job[s].track], "reply")
  /\ job' = [job EXCEPT ![s] = NoJob]
  /\ UNCHANGED <<serving, pc, reqIds, inbox, sent, name, later>>

-----------------------------------------------------------------------------

Handle(r) ==
  \/ NoSuchService(r) \/ InvalidIdentification(r)
  \/ ArmTimer(r) \/ Track(r) \/ Forward(r)

Timer(r) == Expire(r) \/ TimeoutDelete(r) \/ TimeoutSend(r)

Relay(s) == ReplyDelete(s) \/ ReplySend(s)

Next ==
  \/ \E s \in Service : Appear(s) \/ Vanish(s)
  \/ \E r \in Req : Handle(r)
  \/ \E r \in Req : Timer(r)
  \/ \E s \in Service, r \in Req : NameClient(s, r) \/ ReplyLookup(s, r)
  \/ \E s \in Service : Relay(s)

\* Goroutines are scheduled, timers fire, writes to connections return.
\* Nothing is asked of the services.
Fairness ==
  /\ \A r \in Req : WF_vars(Handle(r)) /\ WF_vars(Timer(r))
  /\ \A s \in Service : WF_vars(Relay(s))

Spec == Init /\ [][Next]_vars /\ Fairness

-----------------------------------------------------------------------------
(* Properties *)

\* TimerBacked: a request in the table has a timer that has yet to delete it:
\* no entry of reqIds outlives its timer, whoever replies or vanishes.
TimerBacked ==
  \A i \in Ids : reqIds[i] # None => timer[reqIds[i]] \in {"armed", "found"}

\* AnswerBelongs: refusals and timeouts reach the sender of their request, and
\* a reply goes astray only to a client that used the id of the request after
\* it: never to one that had used it before, although the table holds one
\* sender for each id and lookup, delete and overwriting interleave.
AnswerBelongs ==
  \A r \in Req : \A n \in 1..Len(got[r]) :
    \/ got[r][n].to = Sender[r]
    \/ got[r][n].kind = "reply" /\ \E q \in later[r] : got[r][n].to = Sender[q]

\* NamesSender: a name_client request names the client that sent it, however
\* late the built-in service gets to it, or one that used its id after it.
NamesSender ==
  \A c \in Client : name[c] # None =>
    c = Sender[name[c]] \/ \E q \in later[name[c]] : c = Sender[q]

-----------------------------------------------------------------------------
(* The abstract specification of requests *)

\* What a client knows of its request, from the state of the broker.
Status(r) ==
  IF pc[r] = "unsent" THEN "unasked"
  ELSE IF pc[r] = "done" /\ timer[r] = "off" THEN "refused"
  ELSE IF sent[r] > 0 THEN "served"
  ELSE "accepted"

Abstract ==
  INSTANCE Rpc WITH
    Req <- OwnId,
    status <- [r \in OwnId |-> Status(r)],
    got <- [r \in OwnId |-> got[r]]

\* ImplementsRpc: table, timers and goroutines together do what Rpc promises of a
\* request with an id of its own, whatever other requests do under theirs: if it
\* is refused it is answered by the refusal alone; otherwise it gets at most one
\* reply, which its service made, at most one timeout, and one of them for sure,
\* however often and however late the service replies.
ImplementsRpc == Abstract!Spec

=============================================================================
