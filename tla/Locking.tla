------------------------------ MODULE Locking ------------------------------
(***************************************************************************)
(* The mutexes of the broker and the sockets it writes to while it holds   *)
(* them.                                                                   *)
(*                                                                         *)
(* Every connection has a goroutine that handles its messages one by one   *)
(* and at last removes its client; the built-in service has another, which *)
(* registers services on behalf of other clients.  What a handler does is  *)
(* here the sequence of its locks, unlocks and writes; what it computes is *)
(* in the modules Registry, Requests and PubSub.  A write to a client that *)
(* has stopped reading waits until it reads again, or is gone.             *)
(***************************************************************************)
EXTENDS Naturals, Sequences, FiniteSets

CONSTANTS
  Client,
  Monitor,    \* the clients that subscribe to the events of the broker
  Builtin,    \* the goroutine of the built-in service
  MaxOps,     \* how many handlers run in all
  None

ASSUME ConstAssumption ==
  /\ Monitor \subseteq Client /\ Monitor # {}
  /\ Builtin \notin Client
  /\ MaxOps \in Nat
  /\ None \notin Client \cup {Builtin}
  /\ Client \cap {"services", "reqIds", "subscriberMap", "subscriberMatchMap"} = {}

\* Goroutines are named after the client they serve.
Goroutine == Client \cup {Builtin}

\* The read-write mutexes of the broker, and the mutex of each client.
Mutex == {"services", "reqIds", "subscriberMap", "subscriberMatchMap"} \cup Client

VARIABLES
  op,        \* the handler each goroutine runs, and where it is
  ops,       \* how many have run
  writer,    \* who holds each mutex, or waits for its readers to leave
  readers,   \* who holds it for reading
  stalled,   \* the clients that do not read, and whose buffers are full
  gone       \* the clients that have disconnected

vars == <<op, ops, writer, readers, stalled, gone>>

-----------------------------------------------------------------------------
(* The steps of the handlers *)

Step(do, on) == <<[do |-> do, on |-> on]>>

Lock(m) == Step("lock", {m})

Unlock(m) == Step("unlock", {m})

RLock(m) == Step("rlock", {m})

RUnlock(m) == Step("runlock", {m})

\* Writes to each of the clients, in any order.
Send(to) == Step("send", to)

doPublish_deferred(to) == RLock("subscriberMap") \o Send(to) \o RUnlock("subscriberMap")

doPublish(to) == RLock("subscriberMap") \o RUnlock("subscriberMap") \o Send(to)

cellaservPublish == doPublish(Monitor)

HandleRegister_servicesFirst(c, replaces) ==
  Lock("services") \o Lock(c)
    \o (IF replaces THEN cellaservPublish ELSE <<>>)
    \o cellaservPublish
    \o Unlock(c) \o Unlock("services")

HandleRegister(c, replaces) ==
  Lock(c) \o Lock("services")
    \o (IF replaces THEN cellaservPublish ELSE <<>>)
    \o cellaservPublish
    \o Unlock("services") \o Unlock(c)

\* An event the client has subscribed to before is left alone.
handleSubscribe_keepsLock(c, map, present) ==
  Lock(c)
    \o (IF present THEN <<>> ELSE Lock(map) \o Unlock(map) \o cellaservPublish \o Unlock(c))

handleSubscribe(c, map, present) ==
  Lock(c)
    \o (IF present THEN <<>> ELSE Lock(map) \o Unlock(map) \o cellaservPublish)
    \o Unlock(c)

\* The services are looked up without a mutex; a refusal goes back to c.
handleRequest(c, to) ==
  IF to = {c} THEN Send(to) ELSE Lock("reqIds") \o Unlock("reqIds") \o Send(to)

\* handleReply, and like it handleTimeout; nothing is sent if nothing is found.
handleReply(to) ==
  RLock("reqIds") \o RUnlock("reqIds")
    \o (IF to = {} THEN <<>> ELSE Lock("reqIds") \o Unlock("reqIds") \o Send(to))

GetEventsJSON ==
  RLock("subscriberMap") \o RUnlock("subscriberMap")
    \o RLock("subscriberMatchMap") \o RUnlock("subscriberMatchMap")

\* removeServicesOnClient, removeSubscriptionsOfClient, and the event of the end;
\* for a client that has a service and a subscription, or has neither.
removeClient(c, present) ==
  Lock(c)
    \o (IF present THEN cellaservPublish \o Lock("services") \o Unlock("services") ELSE <<>>)
    \o Lock("subscriberMap") \o Unlock("subscriberMap")
    \o Lock("subscriberMatchMap") \o Unlock("subscriberMatchMap")
    \o (IF present THEN cellaservPublish ELSE <<>>)
    \o Unlock(c)
    \o cellaservPublish

\* A handler: the goroutine that runs it, whether it passes a message on (traffic)
\* or changes or lists what the broker knows (admin), whom it writes to, the steps.
Op(by, kind, to, steps) == [by |-> by, kind |-> kind, to |-> to, steps |-> steps]

Handler ==
  UNION {
    {Op(c, "admin", Monitor, HandleRegister(c, replaces)) : replaces \in BOOLEAN}
      \cup {Op(c, "admin", Monitor, handleSubscribe(c, map, present)) :
              map \in {"subscriberMap", "subscriberMatchMap"}, present \in BOOLEAN}
      \cup {Op(c, "traffic", {d}, doPublish({d})) : d \in Client}
      \cup {Op(c, "traffic", {d}, handleRequest(c, {d})) : d \in Client}
      \cup {Op(c, "traffic", to, handleReply(to)) : to \in {{}} \cup {{d} : d \in Client}}
      \* register_service and list_events
      \cup {Op(Builtin, "admin", Monitor, HandleRegister(c, replaces)) : replaces \in BOOLEAN}
      \cup {Op(Builtin, "admin", {}, GetEventsJSON)}
    : c \in Client}

Removal == {Op(c, "admin", Monitor, removeClient(c, present)) : c \in Client, present \in BOOLEAN}

Rest == Op(None, "rest", {}, <<>>)

-----------------------------------------------------------------------------

TypeOK ==
  /\ \A g \in Goroutine :
       /\ op[g].by \in {g, None}
       /\ op[g].to \subseteq Client
       /\ \A i \in 1..Len(op[g].steps) : op[g].steps[i].on \subseteq Mutex
  /\ ops \in 0..MaxOps
  /\ writer \in [Mutex -> Goroutine \cup {None}]
  /\ readers \in [Mutex -> SUBSET Goroutine]
  /\ stalled \subseteq Client
  /\ gone \subseteq Client

Init ==
  /\ op = [g \in Goroutine |-> Rest]
  /\ ops = 0
  /\ writer = [m \in Mutex |-> None]
  /\ readers = [m \in Mutex |-> {}]
  /\ stalled = {}
  /\ gone = {}

Running(g) == op[g].steps # <<>>

Starts(o) ==
  /\ ops < MaxOps
  /\ ops' = ops + 1
  /\ ~Running(o.by) /\ o.by \notin gone
  /\ op' = [op EXCEPT ![o.by] = o]

Begin(o) ==
  /\ Starts(o)
  /\ UNCHANGED <<writer, readers, stalled, gone>>

\* The connection is closed: writes to it fail from now on.
Disconnect(o) ==
  /\ Starts(o)
  /\ gone' = gone \cup {o.by}
  /\ stalled' = stalled \ {o.by}
  /\ UNCHANGED <<writer, readers>>

\* Bound: one client at a time.
Stall(c) ==
  /\ stalled = {} /\ c \notin gone
  /\ stalled' = {c}
  /\ UNCHANGED <<op, ops, writer, readers, gone>>

ReadAgain(c) ==
  /\ c \in stalled
  /\ stalled' = stalled \ {c}
  /\ UNCHANGED <<op, ops, writer, readers, gone>>

-----------------------------------------------------------------------------
(* One step of a goroutine *)

Now(g) == Head(op[g].steps)

Done(g) ==
  op' = [op EXCEPT ![g] = IF Len(op[g].steps) = 1 THEN Rest
                          ELSE [op[g] EXCEPT !.steps = Tail(op[g].steps)]]

\* Lock keeps new readers out, then waits for those who are in.
DoLock(g, m) ==
  /\ Now(g).do = "lock" /\ writer[m] = None
  /\ writer' = [writer EXCEPT ![m] = g]
  /\ IF readers[m] = {} THEN Done(g) ELSE op' = [op EXCEPT ![g].steps[1].do = "drain"]
  /\ UNCHANGED readers

DoDrain(g, m) ==
  /\ Now(g).do = "drain" /\ readers[m] = {}
  /\ Done(g)
  /\ UNCHANGED <<writer, readers>>

DoUnlock(g, m) ==
  /\ Now(g).do = "unlock"
  /\ writer' = [writer EXCEPT ![m] = None]
  /\ Done(g)
  /\ UNCHANGED readers

DoRLock(g, m) ==
  /\ Now(g).do = "rlock" /\ writer[m] = None
  /\ readers' = [readers EXCEPT ![m] = @ \cup {g}]
  /\ Done(g)
  /\ UNCHANGED writer

DoRUnlock(g, m) ==
  /\ Now(g).do = "runlock"
  /\ readers' = [readers EXCEPT ![m] = @ \ {g}]
  /\ Done(g)
  /\ UNCHANGED writer

\* SendRawMessage to one of the clients that are left.
DoSend(g, c) ==
  /\ Now(g).do = "send" /\ c \notin stalled
  /\ IF Now(g).on = {c} THEN Done(g) ELSE op' = [op EXCEPT ![g].steps[1].on = @ \ {c}]
  /\ UNCHANGED <<writer, readers>>

Go(g) ==
  /\ Running(g)
  /\ \E x \in Now(g).on :
       \/ DoLock(g, x) \/ DoDrain(g, x) \/ DoUnlock(g, x)
       \/ DoRLock(g, x) \/ DoRUnlock(g, x)
       \/ DoSend(g, x)
  /\ UNCHANGED <<ops, stalled, gone>>

Next ==
  \/ \E o \in Handler : Begin(o)
  \/ \E o \in Removal : Disconnect(o)
  \/ \E g \in Goroutine : Go(g)
  \/ \E c \in Client : Stall(c) \/ ReadAgain(c)

\* Goroutines are scheduled, and a waiting one gets the mutex in the end: sync
\* mutexes hand over to a goroutine that waits for long.  Every Go step changes op.
Fairness == \A g \in Goroutine : WF_op(Go(g))

Spec == Init /\ [][Next]_vars /\ Fairness

-----------------------------------------------------------------------------
(* Properties *)

\* Those whom g waits for, at a mutex.
WaitsFor(g) ==
  IF ~Running(g) THEN {}
  ELSE UNION {CASE Now(g).do \in {"lock", "rlock"} -> {writer[m]} \ {None}
                [] Now(g).do = "drain" -> readers[m]
                [] OTHER -> {} : m \in Now(g).on}

\* NoLockCycle: no goroutines wait for each other's mutexes in a circle, be it
\* that a registration on behalf of a client meets the removal of that client.
NoLockCycle ==
  ~\E d \in (SUBSET Goroutine) \ {{}} : \A g \in d : WaitsFor(g) \cap d # {}

\* OpEnds: as long as all clients read, the handlers of the messages that came
\* all end, and no goroutine is left with a mutex that another one waits for.
OpEnds == []<>(stalled # {} \/ \A g \in Goroutine : ~Running(g))

\* TrafficPasses: requests, replies and publishes end as long as those they are
\* sent to read, even while registrations and removals hang, with their mutexes
\* held, on a monitor that does not.
TrafficPasses ==
  \A c \in Client :
    op[c].kind = "traffic"
      ~> ~Running(c) \/ op[c].to \cap stalled # {}

=============================================================================
