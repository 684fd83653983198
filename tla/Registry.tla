------------------------------ MODULE Registry ------------------------------
(***************************************************************************)
(* The broker's service registry: which connection serves which service,   *)
(* and what becomes of that when connections end.                          *)
(*                                                                         *)
(* Every connection has a goroutine (broker.go, handle) that runs          *)
(* newClient, then HandleRegister for each register message, then          *)
(* removeClient.  The built-in "cellaserv" service also calls              *)
(* HandleRegister, on behalf of the sender of a register_service request   *)
(* and from its own goroutine.  HandleRegister holds the client's mutex    *)
(* and servicesMtx from its first line to its last, and nothing it shares  *)
(* with the others is read in between under other locks, except one        *)
(* element of the slice that removeServicesOnClient is ranging over: it is *)
(* one action.  removeServicesOnClient only locks servicesMtx around the   *)
(* delete, and is one action per announcement and one per delete.          *)
(*                                                                         *)
(* A Go slice is a window on a backing array, and "range c.services"       *)
(* captures the window once.  owned[c] is the live c.services; scan[c].arr *)
(* is the captured window, on the same array: what HandleRegister writes   *)
(* into c.services is written into it too.                                 *)
(***************************************************************************)
EXTENDS Naturals, Sequences

CONSTANTS
  Client,      \* connections; each is accepted once
  Key,         \* (service name, identification) pairs
  Address,     \* remote addresses, which serve as client ids
  Addr,        \* the remote address of each connection
  Offers,      \* the services each connection may register
  OnBehalf,    \* the connections that also send register_service requests
  BuiltinKey,  \* the keys whose service name is "cellaserv"
  None

ASSUME ConstAssumption ==
  /\ Addr \in [Client -> Address]
  /\ Offers \in [Client -> SUBSET Key]
  /\ OnBehalf \subseteq Client
  /\ BuiltinKey \subseteq Key
  /\ None \notin Client \cup Key

VARIABLES
  conn,        \* where the goroutine of each connection is
  clientIds,   \* mapClientIdToClient
  services,    \* services[name][identification].client, None when absent
  owned,       \* the services slice of each client, as keys
  scan,        \* the range loop of removeServicesOnClient
  pending,     \* the register_service request the built-in service holds
  announced,   \* what a subscriber of new-service and lost-service believes
  started,     \* startedWithCellaserv is closed
  panicked     \* it was closed twice: the process is gone

vars == <<conn, clientIds, services, owned, scan, pending, announced,
          started, panicked>>

(***************************************************************************)
(* new: not accepted yet.  up: reading messages.  range: in                *)
(* removeServicesOnClient, about to take the next element.  lost: it has   *)
(* announced the loss of scan.cur and is about to delete it.  unlocked:    *)
(* the client's mutex is released, its id still listed.  gone: removeClient*)
(* has returned.                                                           *)
(***************************************************************************)
Phase == {"new", "up", "range", "lost", "unlocked", "gone"}

NoScan == [arr |-> <<>>, i |-> 1, cur |-> None]

\* The index of the first element the range loop has yet to read.
Ahead(c) == IF conn[c] = "lost" THEN scan[c].i + 1 ELSE scan[c].i

TypeOK ==
  /\ conn \in [Client -> Phase]
  /\ clientIds \in [Address -> Client \cup {None}]
  /\ services \in [Key -> Client \cup {None}]
  /\ owned \in [Client -> Seq(Key)]
  /\ scan \in [Client -> [arr : Seq(Key), i : Nat \ {0}, cur : Key \cup {None}]]
  /\ pending \in [Client -> Key \cup {None}]
  /\ announced \subseteq Address \X Key
  /\ started \in BOOLEAN
  /\ panicked \in BOOLEAN
  /\ \A c \in Client : /\ Ahead(c) <= Len(scan[c].arr) + 1
                       /\ conn[c] = "lost" <=> scan[c].cur # None

Init ==
  /\ conn = [c \in Client |-> "new"]
  /\ clientIds = [a \in Address |-> None]
  /\ services = [k \in Key |-> None]
  /\ owned = [c \in Client |-> <<>>]
  /\ scan = [c \in Client |-> NoScan]
  /\ pending = [c \in Client |-> None]
  /\ announced = {}
  /\ started = FALSE
  /\ panicked = FALSE

-----------------------------------------------------------------------------
(* Slices *)

Positions(s, k) == {p \in 1..Len(s) : s[p] = k}

\* The first element a search loop stops at, 0 when there is none.
FirstIndex(s, k) ==
  IF Positions(s, k) = {} THEN 0
  ELSE CHOOSE p \in Positions(s, k) : \A q \in Positions(s, k) : p <= q

\* s[p] = s[len(s)-1]; s = s[:len(s)-1]
SwapRemove_forgetsLast(s, p) == [i \in 1..(Len(s) - 1) |-> s[i]]

SwapRemove(s, p) ==
  [i \in 1..(Len(s) - 1) |-> IF i = p THEN s[Len(s)] ELSE s[i]]

\* c.mtx is held by the removal of c
Removing(c) == conn[c] \in {"range", "lost"}

-----------------------------------------------------------------------------
(* Registration *)

\* Lines 29-44: the entry found under the key is dropped from the slice of
\* the client that registered it, whose mutex is not held: the write may land
\* in the array its removal is ranging over.
DropOwned_rescans(o, k) ==
  LET p == FirstIndex(owned[o], k)
  IN  [own  |-> [owned EXCEPT ![o] = IF p = 0 THEN @ ELSE SwapRemove(@, p)],
       scan |-> [scan EXCEPT ![o].arr =
                   IF p = 0 \/ ~Removing(o) THEN @ ELSE SwapRemove(@, p)]]

DropOwned(o, k) ==
  LET p == FirstIndex(owned[o], k)
  IN  [own  |-> [owned EXCEPT ![o] = IF p = 0 THEN @ ELSE SwapRemove(@, p)],
       scan |-> [scan EXCEPT ![o].arr =
                   IF p = 0 \/ ~Removing(o) THEN @
                   ELSE [@ EXCEPT ![p] = owned[o][Len(owned[o])]]]]

Dropped(k) ==
  IF services[k] = None THEN [own |-> owned, scan |-> scan]
  ELSE DropOwned(services[k], k)

\* close(b.startedWithCellaserv) of a closed channel
ClosesTwice(k) == k \in BuiltinKey /\ started

Lost(o, k) == IF o = None THEN {} ELSE {<<Addr[o], k>>}

\* HandleRegister's lost-service and new-service events, in that order.
Announce_newFirst(c, k) ==
  (announced \cup (IF ClosesTwice(k) THEN {} ELSE {<<Addr[c], k>>}))
    \ Lost(services[k], k)

Announce(c, k) ==
  (announced \ Lost(services[k], k))
    \cup (IF ClosesTwice(k) THEN {} ELSE {<<Addr[c], k>>})

HandleRegister(c, k) ==
  /\ ~Removing(c)
  /\ announced' = Announce(c, k)
  /\ services' = [services EXCEPT ![k] = c]
  /\ owned' = [Dropped(k).own EXCEPT ![c] = Append(@, k)]
  /\ scan' = Dropped(k).scan
  /\ started' = (started \/ k \in BuiltinKey)
  /\ panicked' = ClosesTwice(k)

\* newClient; a remote address is in use by one connection at a time
NewClient(c) ==
  /\ conn[c] = "new"
  /\ \A d \in Client : conn[d] = "up" => Addr[d] # Addr[c]
  /\ conn' = [conn EXCEPT ![c] = "up"]
  /\ clientIds' = [clientIds EXCEPT ![Addr[c]] = c]
  /\ UNCHANGED <<services, owned, scan, pending, announced, started, panicked>>

\* A register message read by the connection's goroutine.
Register(c, k) ==
  /\ conn[c] = "up"
  /\ HandleRegister(c, k)
  /\ UNCHANGED <<conn, clientIds, pending>>

\* A register_service request is tracked and forwarded to the built-in
\* service.  The connection may be closed while it is on its way.
AskRegister(c, k) ==
  /\ c \in OnBehalf
  /\ conn[c] = "up"
  /\ pending[c] = None
  /\ pending' = [pending EXCEPT ![c] = k]
  /\ UNCHANGED <<conn, clientIds, services, owned, scan, announced, started,
                 panicked>>

\* registerService: GetRequestSender still knows the request, so its sender
\* is registered, connected or not.
BuiltinRegister(c) ==
  /\ pending[c] # None
  /\ HandleRegister(c, pending[c])
  /\ pending' = [pending EXCEPT ![c] = None]
  /\ UNCHANGED <<conn, clientIds>>

\* registerService: the request timed out first, GetRequestSender fails.
BuiltinForgets(c) ==
  /\ pending[c] # None
  /\ pending' = [pending EXCEPT ![c] = None]
  /\ UNCHANGED <<conn, clientIds, services, owned, scan, announced, started,
                 panicked>>

-----------------------------------------------------------------------------
(* removeClient *)

\* The goroutine sees the connection closed, takes c.mtx and evaluates the
\* range expression.
Disconnect(c) ==
  /\ conn[c] = "up"
  /\ conn' = [conn EXCEPT ![c] = "range"]
  /\ scan' = [scan EXCEPT ![c] = [arr |-> owned[c], i |-> 1, cur |-> None]]
  /\ UNCHANGED <<clientIds, services, owned, pending, announced, started,
                 panicked>>

\* A range loop stops at the length it captured, whatever became of the
\* slice since.
ScanOver_live(c) == scan[c].i > Len(owned[c])

ScanOver(c) == scan[c].i > Len(scan[c].arr)

PublishLost(c) ==
  /\ conn[c] = "range"
  /\ ~ScanOver(c)
  /\ LET k == scan[c].arr[scan[c].i]
     IN  /\ scan' = [scan EXCEPT ![c].cur = k]
         /\ announced' = announced \ {<<Addr[c], k>>}
  /\ conn' = [conn EXCEPT ![c] = "lost"]
  /\ UNCHANGED <<clientIds, services, owned, pending, started, panicked>>

DeleteService_stuck(c) ==
  /\ conn[c] = "lost"
  /\ services' = [services EXCEPT ![scan[c].cur] = None]
  /\ scan' = [scan EXCEPT ![c].cur = None]
  /\ conn' = [conn EXCEPT ![c] = "range"]
  /\ UNCHANGED <<clientIds, owned, pending, announced, started, panicked>>

DeleteService_skips(c) ==
  /\ conn[c] = "lost"
  /\ services' = [services EXCEPT ![scan[c].cur] = None]
  /\ scan' = [scan EXCEPT ![c].i = @ + 2, ![c].cur = None]
  /\ conn' = [conn EXCEPT ![c] = "range"]
  /\ UNCHANGED <<clientIds, owned, pending, announced, started, panicked>>

\* delete(b.services[s.Name], s.Identification), whoever is registered there.
DeleteService(c) ==
  /\ conn[c] = "lost"
  /\ services' = [services EXCEPT ![scan[c].cur] = None]
  /\ scan' = [scan EXCEPT ![c].i = @ + 1, ![c].cur = None]
  /\ conn' = [conn EXCEPT ![c] = "range"]
  /\ UNCHANGED <<clientIds, owned, pending, announced, started, panicked>>

\* The loop ends; the other cleanups do not touch this state; c.mtx.Unlock().
EndScan(c) ==
  /\ conn[c] = "range"
  /\ ScanOver(c)
  /\ conn' = [conn EXCEPT ![c] = "unlocked"]
  /\ scan' = [scan EXCEPT ![c] = NoScan]
  /\ UNCHANGED <<clientIds, services, owned, pending, announced, started,
                 panicked>>

\* mapClientIdToClient.Delete(c.id), whichever client is stored there.
ForgetClient(c) ==
  /\ conn[c] = "unlocked"
  /\ clientIds' = [clientIds EXCEPT ![Addr[c]] = None]
  /\ conn' = [conn EXCEPT ![c] = "gone"]
  /\ UNCHANGED <<services, owned, scan, pending, announced, started, panicked>>

Removal(c) ==
  ~panicked /\ (PublishLost(c) \/ DeleteService(c) \/ EndScan(c) \/ ForgetClient(c))

\* Nothing is left to do, or nobody is left to do it.
Idle ==
  /\ \/ panicked
     \/ \A c \in Client : conn[c] = "gone" /\ pending[c] = None
  /\ UNCHANGED vars

Next ==
  \/ \E c \in Client :
       /\ ~panicked
       /\ \/ NewClient(c)
          \/ \E k \in Offers[c] : Register(c, k)
          \/ \E k \in Offers[c] : AskRegister(c, k)
          \/ BuiltinRegister(c)
          \/ BuiltinForgets(c)
          \/ Disconnect(c)
  \/ \E c \in Client : Removal(c)
  \/ Idle

\* A removal that has begun proceeds: its publishes are not blocked for ever
\* by a subscriber that stops reading.
Fairness == \A c \in Client : WF_vars(Removal(c))

Spec == Init /\ [][Next]_vars /\ Fairness

-----------------------------------------------------------------------------
(* Properties *)

\* RoutedIsTracked: a service to which requests are routed is in the services
\* slice of its client (register.go:61), although other goroutines remove
\* elements of that slice without its mutex.
RoutedIsTracked ==
  \A k \in Key : services[k] # None => Positions(owned[services[k]], k) # {}

\* ScanCovers: while a connection is being removed, every service still routed
\* to it is the element being deleted or lies ahead of the range loop
\* (client.go:104), whatever replacements moved meanwhile in the array.
ScanCovers ==
  \A k \in Key : \A c \in Client :
    services[k] = c /\ Removing(c) =>
      \/ scan[c].cur = k
      \/ \E j \in Positions(scan[c].arr, k) : j >= Ahead(c)

\* NoOrphan: once removeClient has released the mutex of a client for which no
\* register_service request was made, no request is routed to it any more.
NoOrphan ==
  \A k \in Key : \A c \in Client \ OnBehalf :
    conn[c] \in {"unlocked", "gone"} => services[k] # c

Unshared(c) == \A d \in Client \ {c} : Addr[d] # Addr[c]

\* MonitorKnows: a subscriber of the new-service and lost-service events knows
\* every routed service of a client that is not being removed, when the
\* address of that client identifies it.
MonitorKnows ==
  \A k \in Key :
    services[k] # None /\ ~panicked /\ Unshared(services[k])
      /\ ~Removing(services[k])
    => <<Addr[services[k]], k>> \in announced

\* RemovalCompletes: a connection that ends is eventually out of the registry
\* and of the client list, however many of its services are replaced in the
\* meantime, unless the process dies.
RemovalCompletes ==
  \A c \in Client : Removing(c) ~> panicked \/ conn[c] = "gone"

\* AnnouncedIsRouted: a service announced as new, not announced as lost, and
\* whose connection is open, receives the requests made to it.
AnnouncedIsRouted ==
  \A c \in Client : \A k \in Key :
    conn[c] = "up" /\ Unshared(c) /\ ~panicked /\ <<Addr[c], k>> \in announced
      => services[k] = c

=============================================================================
