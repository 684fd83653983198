# A TLA+ verification of cellaserv

cellaserv is a message broker for a robot: programs connect to it over TCP,
register services, send requests to services, publish events and subscribe to
them. This directory models the broker and its Go client library in TLA+,
checks the models with TLC on small instances, and proves theorems about them
with TLAPS for every value of their constants.

## The system

| Component | Source | State | Operations |
| --- | --- | --- | --- |
| Connections and framing | `common/net.go`, `broker/broker.go` (`handle`) | the byte stream, where the reader is in it | send, receive, end of connection |
| Service registry | `broker/register.go`, `broker/client.go` | `services`, the `services` slice of each client, `mapClientIdToClient` | `newClient`, `HandleRegister`, `removeClient` |
| Request routing | `broker/request.go`, `broker/reply.go` | `reqIds`, the timers | `handleRequest`, its timeout, `handleReply`, `GetRequestSender` |
| Publish and subscribe | `broker/subscribe.go`, `broker/publish.go`, `broker/client.go` | `subscriberMap`, `subscriberMatchMap`, the `subscribes` slices | `handleSubscribe`, `doPublish`, `removeSubscriptionsOfClient` |
| Built-in service `cellaserv` | `broker/cellaserv/cellaserv.go` | a client of the broker in the same process, which also calls the broker directly | `register_service`, `name_client`, `whoami`, lists, logs, `shutdown` |
| Client library | `client/` | `requestsInFlight`, subscribers, services, channels between its goroutines | `Request`, `Publish`, `Subscribe`, `RegisterService`, `Close`, message loop |
| Start and shutdown | `broker/broker.go` (`Run`, `serve`), `cmd/cellaserv/main.go` | started, quit and error channels | listen, accept, quit |
| Mutexes and slow clients | `broker/*.go` | the four read-write mutexes of `Broker`, the mutex of each client, the sockets written to while they are held | lock, unlock, `SendRawMessage` |
| Publish logging | `broker/publish_logging.go` | the open log files | write, rotate, read |
| Web interface | `broker/web/` | web sockets subscribed to events, the one client of the web interface | subscribe, ping, request, publish, pages |
| Command line tool | `cmd/cellaservctl/main.go` | a client of the library | request, publish, subscribe, lists |
| Spying | `broker/service.go`, `broker/cellaserv/cellaserv.go` | the spies of each service | `spy` (not reachable) |

**How they interact.** Each connection has a goroutine of the broker which
reads messages and calls the handlers, then removes the client. The handlers
share the maps of `Broker`, each with its mutex, and the slices of `client`,
under the client's mutex. Requests are forwarded by the goroutine of the sender
to the connection of the service, and replies by the goroutine of the service
to the connection of the sender; timers answer in between. Handlers publish
events of the broker itself (`log.cellaserv.*`) while they hold their mutexes.
The built-in service is a client over TCP whose handlers call back into the
broker's maps from the goroutine of its own client library. The web interface
is another one: all its web sockets share one client, whose message loop writes
events to them one after the other.

**What is hard.** Locks that cover one access and not the decision made on it;
slices that one goroutine ranges over while another writes into their array;
maps read without their mutex; a removal that competes with registrations under
the same key; a timeout that competes with a reply; a byte stream that is cut
anywhere and can end anywhere; unbuffered channels whose reader may be gone;
writes, with mutexes held, to a peer that does not read; files that two
goroutines create at once.

**What makes each component correct.**

* Registry: nothing is routed to a client that was removed; what is announced
  is what is routed; a removal ends.
* Requests: an answer reaches the client that asked, once, as long as ids are not
  used twice; every request gets one; the table does not leak.
* Publish and subscribe: the maps list exactly the subscribers; an event
  reaches the clients that are subscribed, and no other.
* Connections: the messages handled are those that were sent, in order; a client
  whose connection ends is removed.
* Client library: replies reach the calls that wait for them; service requests
  are replied to once; the loop ends when the client or the connection does; and
  where a message is misread, nothing else goes wrong than what must.
* Mutexes: no goroutines wait for each other; a client that does not read harms
  only what is sent to it.
* Publish logging: the log holds what was written to it, all of it and in order,
  and what was once shown stays.
* Web interface: a web socket that fails is closed, and does not stop the
  others or the loop they share.
* Start and shutdown: the parts start in the order they depend on each other;
  when one ends all do, and the exit code says whether it was an error.

`PROJECT.json` lists 40 hazards, each at its line, with the properties that
would catch it going wrong.

## The modules

| Module | Models | How |
| --- | --- | --- |
| `Registry` | service registry | `conn[c]` is the program counter of the goroutine of a connection. `HandleRegister` holds both mutexes throughout and is one action; `removeServicesOnClient` is one action per announcement (`PublishLost`) and per delete (`DeleteService`). `owned[c]` is the live slice, `scan[c].arr` the window captured by `range`, on the same array. |
| `Requests` | request routing | `pc[r]` is the progress of `handleRequest`, `timer[r]` that of the timer's function, `job[s]` that of `handleReply` on the connection of a service. Each critical section on `reqIds` is one action. `later[r]` records which requests were tracked under the id of `r` after it. The registry is reduced to services that appear and vanish. |
| `PubSub` | publish and subscribe | `mem[k]` holds the arrays allocated for a key, `subs[k]` the slice stored in the map. Writers are atomic (they hold the mutex of their map); `doPublish` visits globs one by one and reads slices one element at a time. |
| `Connection` | connections and framing | the stream is a sequence of cells (byte `n` of message `k`), which arrive in pieces; `at` is the point `Broker.handle` has reached. |
| `Rpc` | what the broker promises of requests | the abstract specification which `Requests` implements: a request is refused, or accepted and then answered to its sender. |
| `Locking` | the mutexes of the broker | `op[g].steps` is what is left of the handler of a goroutine: its locks, unlocks and writes, in the order of the code. `Go` takes the next one. A `Lock` is two steps, keeping new readers out and waiting for the old ones, as in `sync.RWMutex`. `stalled` are the clients that do not read. |
| `ClientLib` | client library | receiver, message loop, calls, `RegisterService` and `Close` as kinds of processes; a send on an unbuffered channel is one step with its receive. Handlers run in the message loop, and may make a request or call `Close` there. A read of the receiver may give a whole message, or a part of one, and the rest (`Rest`) is then taken for the next message; a connection may be cut within a message. `misread` records that a read did not give what was sent. |
| `Subscribers` | the client's list of subscribers | slices with the arrays under them. `SubscribeUntil` reads the slice, stores the slice and stores the element as separate steps, since it holds no mutex; `handlePublish` ranges, then removes index by index. |
| `WebSubscribe` | web sockets | extends `Subscribers` with the handler of the web interface, `apiSubscribe` (`serve`) and the pinger (`ping`), which meet on the channel `done`. |
| `PublishLog` | publish logging | `pub[p]` is the progress of `handleLoggingPublish`; files are sequences of bytes, each handle has an offset; a write may fail or write a part of the line; the process may end at any point and start again. |
| `Lifecycle` | start and shutdown | `actor[a]` is where the `Run` of each of the three actors of `main`'s run group is; `ready` holds the channels that are closed; `serve` and `http` are the goroutines they start, `group` is the state of the group. `conn` are the connections of the process to itself, which are accepted, or reset when the listener closes before that; other clients may register the name `cellaserv` too (`foreign`). The broker listens on the default address or on another one. A panic in any goroutine ends the process. |
| `RegistryProofs`, `RequestsProofs`, `PubSubProofs`, `ConnectionProofs`, `LockingProofs`, `ClientLibProofs`, `PublishLogProofs`, `LifecycleProofs` | | theorems about the module they are named after, with their proofs; `ClientLibProofs` also has those about `WebSubscribe` |
| `MC*` | | the instances TLC checks |

An operator with an underscore in its name, such as `Announce_newFirst`, is a
wrong version of the operator it precedes. It is used to see that a property
notices the mistake, and by nothing else.

**Abstractions.** Names, payloads and addresses are model values. A (name,
identification) pair is one key in `Registry`; in `Requests` services carry a
name, as the two refusals differ in it. Each map operation is atomic: what the
Go runtime does when it detects a concurrent access to a map (it may end the
process) is not modelled. A slice header is read and stored in one piece.
Writes to connections return, except in `Locking` and `WebSubscribe`, which are
about the ones that do not; in `Locking` handlers are the sequence of their
locks and writes, and what they compute is in the modules of their component.
Spies are left out, as no request reaches `handleSpy`: `cellaserv.go:166-174`
does not list it. `Connection` covers what follows a loss of the connection as
TCP sockets do it: data that has arrived can still be read, then one read
fails, then reads report the end. `PublishLog` has one event, as files of
different events share nothing.

What is narrower than the code:

* In `Requests` only the service a request went to replies to it. `handleReply`
  relays a reply that any connection sends under an id it knows; the properties
  are about services that reply to what they were sent.
* `PubSub` gives each key its kind. The README of the repository (lines 90-92)
  offers the syntax of `filepath.Match`; `subscribe.go:33` takes only names that
  contain `*` for patterns, so that one made of `?` or `[]` alone is an exact
  name. Which names are patterns is a constant here.
* In `WebSubscribe` a subscription succeeds: `SubscribeUntil` fails, and
  `apiSubscribe` returns (`client.go:373-376`, `web.go:207-210`), only for a
  name that cannot be marshalled (one that is not UTF-8).
* In `Locking` the publish of `newClient`, `name_client` and `whoami` (the read
  lock of the request ids, released, then a publish) and the `GetRequestSender`
  before `register_service` are not handlers of their own. Each takes, one after
  the other, mutexes which handlers of the model take in the same way, and none
  holds one while it takes another in a new order.
* In `ClientLib` a message is one piece, and what is left of one that was read
  in part is one piece as well. A message that `RecvMessage` parses and the loop
  cannot counts as lost at the receiver.
* In `Lifecycle` other clients are not accepted one by one: they may register at
  any time after the listener has opened, as their connections outlive it.

## The runs

| Run | Instance | Distinct states |
| --- | --- | --- |
| `registry` | 3 connections, 2 of them on one address; 3 keys, one of them `cellaserv`'s; 1 connection with `register_service` | 309,509 |
| `requests` | 3 requests of 2 clients: two under one id, one of each client, to the built-in service; one under an id of its own to a second service, which may reply twice | 428,754 |
| `pubsub` | 3 clients; the event, a glob that matches it, a glob that does not; 1 publish | 1,044,054 |
| `locking` | 2 clients, one of which subscribes to the broker's events, and the built-in service; 3 handlers in all; one client at a time may stop reading | 174,828 |
| `client_lib` | a call of the program, replied to up to twice, and one of a handler; 1 `Close`, handlers that call `Close`, 1 publish, 1 service request; any read may be short, the connection may be cut anywhere | 422,559 |
| `web_subscribe` | 2 web sockets, each of which may stall once or break; 2 events | 392,004 |
| `publish_log` | 4 publishes of one event with lines of 1 or 2 bytes, of which any number may be written; 2 seconds; 2 restarts | 5,858,616 |
| `connection` | 3 messages: empty, of the largest size, or too big; lengths of 2 bytes | 46,753 |
| `lifecycle` | 2 shutdown requests, 2 registrations of `cellaserv` by others; any of listen, accept and the HTTP server may fail; the default address and another one | 5,249 |
| `registry_replaced`, `connection_short_read`, `lifecycle_listen` | small instances | disagreements between the code and what is said of it |

`registry`. `RoutedIsTracked`: a routed service is in its client's slice.
`ScanCovers`: a removal has ahead of it every service still routed to its
client, although replacements swap elements under it. `NoOrphan`: a client that
is gone serves nothing, unless a `register_service` request was made for it.
`MonitorKnows`: the events new-service and lost-service tell a subscriber of
every service of a live client. `RemovalCompletes`: removals end, or the process
has panicked on a second `cellaserv`. Three connections are enough for
two services of one connection to be replaced, by different clients, while it
is being removed, and for its address to be used again meanwhile.

`requests`. `TimerBacked`: no entry of `reqIds` outlives its timer. Nothing keeps
two clients from using one id, and then the entry of the later request replaces
that of the earlier one. `AnswerBelongs` says how far this goes: refusals and
timeouts always reach the sender, and a reply goes astray only to a client that
used the id after the request was tracked. `NamesSender` says the same of the
client that `name_client` names. Misdelivery does occur in this run, within those
limits. `ImplementsRpc`: for a request with an id of its own (`OwnId`) the broker
does what `Rpc` promises, whatever happens under other ids. The refinement mapping
is `Status`, which reads what a client may know of its request off `pc`, `timer`
and `sent`; the answers (`got`) are the same in both. `Rpc` says that a refused
request is answered by the refusal alone, that another one gets at most one
reply, which its service made, and at most one timeout, and (its fairness) that
it gets one of the two. It allows both: the timer's function may have looked the
request up when the reply deletes it. Under a shared id `Rpc` is not implemented: a
timer may delete the entry of another request, which then gets no answer. Two
requests of one client show the order of its goroutine, two services the
independence of theirs; the shared id is used by two clients, in either order, while
the built-in service, the timers and the table get to each at any time.

`pubsub`. `MapsAgree`: the maps list exactly the subscribers. `NoStranger`: no
client gets what it did not subscribe to. `StableDelivery`: a client that stays
is reached, unless another leaves and then one subscribes during the publish.
`PublishEnds`. With three clients the array of the event grows twice, and a
removal followed by an append reuses a place. `StableDelivery` is as strong as
the code lets it be: in the excepted case a publish does miss a client that is
subscribed throughout.

`locking`. `NoLockCycle`: no goroutines wait for each other's mutexes in a
circle; the built-in service registers on behalf of a client whose own goroutine
removes it, and the two lock the client and `services`. `OpEnds`: every handler
ends while all clients read. `TrafficPasses`: a request, a reply or a publish
ends as long as those it is sent to read, even while registrations and
removals hang on a monitor that does not: they hold mutexes which the traffic
does not need. Three handlers are enough for one to hold what a second waits
for while a third goes by.

`client_lib`. The client reads with the same `RecvMessage` as the broker, so its
receiver may get a part of a message: it then logs an error and drops it, or
parses the part as something else, and is out of step with the messages from
there on (`misread`). `ReplyKept` and `ServedOnce`: until that happens no reply is
lost between receiver, loop and call, short of a cut connection, and every service
request is on its way or was replied to once; a reply that cannot be written is
only logged, and so not counted, once the connection is not open.
`NoSpontaneousPanic`: on an open connection only a second `Close` panics. On one
that is not, it takes a call of `Close` (whose `close(quitCh)` may meet that of the
loop), a request that is being sent, or a message the receiver got a part of: when
the connection ends behind the length of a message, `RecvMessage` returns neither a
message nor an error, and the loop dereferences nil (`client.go:249`).
`CallReturns`: a call of the program gets its reply, unless the connection or the
client is closed, a read gave a part of a message (the call then waits for ever on
an open connection), or the loop is `Stuck`: a handler that makes a request waits
for a reply which only its own goroutine could handle, and a second reply to a
request waits for a call that has returned. `LossEndsLoop`, `CloseEndsLoop`: the
loop ends with the connection and with `Close`, unless it is stuck. The request of
the handler is not answered in this instance, as the loop that waits for the answer
would not read it.

`web_subscribe`. `ListRight`: each subscribed web socket is in the client's list
exactly once, and the removals, made from the highest index down, remove the
right ones; unless an append overlaps another one, a removal or the start of a
range, which the missing mutex allows. `Isolation`: a web socket is only closed
when its own peer failed. `LoopGoesOn`: a peer that does not read does not stop
the message loop for good, because the pinger ends `apiSubscribe`, which closes
the web socket; except in `LoopBlocked`, where a second ping fails before the
next event and takes the place of the one reader of `done`. `BrokenIsClosed`: a
broken peer's web socket is closed, unless the pinger itself received the
signal meant for `apiSubscribe`. Two web sockets suffice for one to be removed
while the other is called, appended or blocked.

`publish_log`. `LogExact`: the file holds all that was written, in the order of the
writes (a write that fails, which is only logged, may leave a part of a line),
unless the first publishes of an event overlap (both create the file, and the
second create truncates it) or the broker is started twice in a second (the
directory is the same). `LaterLinesKept`: even after such a race, lines written
once it is over stay. `LogsExtend`: what `get_logs` has shown, it shows again.
Four publishes allow two that race, one that ends the race and one more.

`connection`. `InStep`, `InOrder`: until a read is short or a message too big,
reading starts where messages start and messages are handled in order.
`OnlyBroken`: the registration of the service with no name, which handling a
nil message amounts to, only happens on a connection that is lost or out of
step. `LossRemoves`: the client is always removed.

`lifecycle`. `ExitMeans`: `main` exits with success only after a shutdown
request, so an actor's error is not hidden by the actors which return nil after
it; or when a connection of the process to itself was reset, as the actor whose
client it was returns nil for it, perhaps before the broker has returned its error.
`PanicExplained` gives the reasons for which the process panics: a second shutdown
request; a second registration of the name `cellaserv`, by whichever client
(`register.go:64-67` closes a channel again); on an address that is not the
default, a web interface that does not reach the default one or loses what it
found there; a client of the process that connects after the listener has failed
or was shut down, or after another client took the name `cellaserv` (the web
interface then starts early); a connection of its own that was not yet accepted
when the listener closed, whose `name_client` request may fail. There is no other,
so an undisturbed start never panics. `Serves`: the web interface comes up once the
broker listens. `OneEndsAll`: the return of one actor, or a shutdown request,
ends the process. The state space is small because each part runs once; the
second shutdown request is the one that closes a closed channel, and two foreign
registrations do so without the built-in service.

**Disagreements found.** A service registered while its previous owner is being
removed is announced but not routed (`registry_replaced`). A message that
arrives in two pieces is misread (`connection_short_read`). When the broker
cannot listen, its error is sent on a channel nobody receives from and the
process hangs (`lifecycle_listen`). `PROJECT.json` quotes what the code's
comments and README say in each case.

**Limits shown by the models.** The following are stated as the exceptions of the
properties above, or are steps of the models which no property forbids. A client
that connects from the address of one that is being removed vanishes from the list
of clients when the removal deletes that address. A request can get
a reply and a timeout; its reply can go to a client that used its id later. Any
client that registers the name `cellaserv` ends the process. A call of the client
library can wait for ever after a short read, and a loss of the connection within a
message can make the library panic. A publish can miss a subscriber. The client's
loop can get stuck, `Close` or not. A web socket can leak, and its pinger can block the loop
of the web interface. That loop then reads no more, so the web interface's
client becomes one that does not read: publishes to it block, and
`TrafficPasses` says how far this goes. Log lines can be lost to a race at the
first publish of an event.

**Fairness.** Goroutines that can run do run (weak fairness on each one's next
step), a call of the client library that has begun is sent, timers fire, written
bytes arrive, pings are sent for ever. In `Locking`
weak fairness of `Go` includes that a goroutine that waits for a mutex gets it,
as the mutexes of `sync` hand over to one that has waited for long; with three
handlers no stream of others keeps it away in any case. The only strong
fairness is that of `SelectQuit`: Go's `select` draws among the ready cases, so
one that is ready again and again is taken. Nothing is assumed of services (they
may never reply), of subscribers, of peers, or of when clients come and go. In
`ClientLib` the broker answers every request, which is what `ImplementsRpc` says
of the broker.

**Deadlock** is checked in most runs. Where a system really comes to rest, an
action of its own that changes nothing (`Idle`, `Finished`, `Ended`, `Gone`,
`Over`) says which states these are. It is not checked in `locking` and
`web_subscribe`: their models stop when the bounded number of handlers or events
is used up, and there a client that never reads again may stop them too, which
their liveness properties speak about.

## The proofs

Every theorem holds for all values of the constants that satisfy the module's
`ConstAssumption` (`WebAssumption` in `WebSubscribe`): any number of clients,
messages, handlers, restarts. Each proof module has an inductive invariant
`IInv` (`WebInv` for the web sockets), a lemma for each action that preserves it,
and short theorems that read a property off it. TLC has checked each `IInv` that
it can evaluate as an invariant of the module's run. Every invariant that a passing
run checks is stated by a theorem.

| Module | Theorems about the properties of the runs |
| --- | --- |
| `RegistryProofs` | `TypeOK`, `RoutedIsTracked`, `ScanCovers`, `NoOrphan`, `MonitorKnows` |
| `RequestsProofs` | `TypeOK`, `TimerBacked`, `AnswerBelongs`, `NamesSender`; the safety part of `ImplementsRpc` |
| `PubSubProofs` | `TypeOK`, `MapsAgree`, `NoStranger`, `StableDelivery` |
| `ConnectionProofs` | `TypeOK`, `InStep`, `InOrder`, `OnlyBroken` |
| `LockingProofs` | `TypeOK`, `NoLockCycle` |
| `ClientLibProofs` | of `ClientLib`: `TypeOK`, `ReplyKept`, `ServedOnce`, `NoSpontaneousPanic`; of `WebSubscribe`: `WebTypeOK`, `Isolation`, `ListRight` |
| `PublishLogProofs` | `TypeOK`, `LogExact`, `LaterLinesKept`, `LogsExtend` |
| `LifecycleProofs` | `TypeOK`, `ExitMeans`, `PanicExplained` |

**Registry.** `IInv` adds two facts to the properties. `Aliased`: while a
removal is in progress, the live slice is not longer than the captured window
and agrees with it, which is why a write through the one is seen through the
other. `PendingAsked`: only the connections in `OnBehalf` have a pending
`register_service` request. The heart of the argument is `HandleRegister`: the
element swapped into the place of the replaced one was the last of the slice, so
it lies at or after that place; if the place is behind the range loop, the
swapped element is still found at its old place in the window, which the loop
will reach. Lemmas `FirstIndexFinds`, `SwapRemoveKeeps` and `DroppedKeeps` say
what the operators on slices keep. `MonitorKnows` needs `ScanCovers`: only because
the removal still has a routed service ahead of it is the loss of that service
announced by the time its client is gone.

**Requests.** `AnswersBelong` and `SenderNamed` assume nothing of ids or timers.
Their argument is `Latest`: from the moment a request is tracked, and for as long
as its service may look at it, the entry under its id is its own or that of a
request tracked after it; `JobsLatest` says so of the entry a `handleReply` holds
while the table changes behind it, and `Delivered` of what was sent. `NoLeak`
assumes that a timer does not fire before the statement after its creation; TLC
finds a counterexample without this, as `PROJECT.json` notes under the hazard at
`request.go:60`. `Implementation` is the refinement, for the requests with an id of
their own: `Init` maps to `Rpc`'s, and each step to a step of `Rpc` or to none, in
particular each step on a request that shares its id (`Unseen`). That an id is free
when a client uses it again would not be enough: a second reply to the earlier
request finds the entry of the later one, and is relayed. The invariant `RInv` ties
the program to the answers given: nothing is given before the request is accepted (`Fresh`,
`Accepted`); a timeout that was sent has a timer that is over (`OneTimeout`); and
once a reply was sent its entry is used up and does not come back, so that a
`handleReply` underway, which holds an entry, belongs to a request without a
reply (`OneReply`). The fairness of `Rpc` is left to TLC.

**Publish and subscribe.** `MapsInv`: each slice of a map lists the subscribers of
its key, each once, inside its array. `CallInv`: what a publish still reads lies
in its window, and every element of the window is a client that has subscribed,
or has been removed while the publish ran (`WindowOK`); a client that stays
subscribed is collected or still ahead of it (`Covered`). An append writes behind
the live slice, and so behind every window; a removal overwrites a place with
the last element, which may hide it from a window that has passed that place,
but then the element is still read at its old place, until an append reuses it:
that is the exception of `StableDelivery`. The loop that removes a connection
from a slice is the function `Sweep`; that it removes exactly that connection is
shown from the least iteration at which it could go wrong (`LeastNat`,
`SweepIs`, `SweepRemoves`).

**Connection.** `Stream`: the cells in flight are consecutive cells of
consecutive messages, of which only the first may be cut. `Sync`: there is a next
message; those before it are handled or empty, and the stream starts with it, or
with what follows its length when the length has been read. `Sorted` and
`NamelessWhy` give the order of the messages and the reason of a registration
under no name. Reads take a prefix and leave the rest; the lemmas before `Sync`
say what that makes of a stream.

**Locking.** The code nowhere says in which order mutexes are taken. The proof
reads the order off the handlers: the mutex of one client, that of the services,
then one of those of the subscriptions and of the request ids. `Disciplined(s,
H, K)` says that the steps `s`, taken with the mutexes `H` held, respect that
order and leave `K` held; `Join` composes it, and each handler is shown, step by
step, to start and end with none (`RegisterSteps`, `SubscribeSteps`,
`RemoveSteps`, `TrafficSteps`). `IInv`: the steps a goroutine has left, taken with
what it holds, are disciplined. Then along any chain of waiting goroutines the
place in the order rises, or a writer waits for the readers of the mutex it has
reserved, who wait for later ones; so no chain closes. `IInv` quantifies over
functions into sets of mutexes and is not checked by TLC. The proof needs that
the mutexes of the clients are other ones than those of the broker, which
`ConstAssumption` says.

**Client library.** `Balance` counts the service requests on the wire, at the
receiver, in the loop and replied to, as long as nothing was misread: they are as
many as were sent while the connection is open, and at most as many after it, when
a cut may take some and a reply may not be written. `KnownService` says that none
is sent before the service is stored, which is why the loop drops none; the lemmas
`CountAppend`, `CountTail` and `CountCut` say how the count changes with the wire.
`Unasked` and `Tracked` give `ReplyKept`: nothing is answered before it is asked,
and the loop knows the channel of every call that was sent. `Ends` accounts for
every closed `quitCh` and every goroutine within `Close` by the calls of `Close`
or by the loss of the connection, and for every nil message by a read that went
wrong at the end of one.

**Subscribers and web sockets.** The calls and the list of subscribers belong to
one client library but share no variable: the second half of `ClientLibProofs`
is about `WebSpec`, under the assumption `WebAssumption`. Names in `WebSubscribe`
differ from those in `ClientLib`, so that one module extends both. The invariant
`WebInv` adds three parts to `WebTypeOK`.

* `Bounds`: slices stay within their arrays, whatever overlaps.
* `Right`, as long as nothing has raced. `Entries` says what the list is: the
  first `Upto` places of the array hold subscribers that were added, none twice;
  who was added and did not ask to be removed is there; and a place holds one who
  asked exactly if its index is still to be dropped. `Upto` and the indices to drop
  are those of the slice and of the loop, corrected while a removal stands between its two assignments or an append
  between its two stores. `OneAppend`: the append underway writes behind the
  list. `Window`: a range reads the beginning of the list in the array it began
  with, which an append that moves the list to a new array leaves as it was.
  `Marks`: the indices to remove fall from the first to the last and lie behind
  the range.
* `Blamed`: who was removed, or is being removed, and whose web socket ends, has
  a peer that failed; this gives `Isolation`.

`handlePublish` removes by index and moves the last element into the place. As
the indices fall, each removal takes the highest one left: the element that moves
is either the one that goes or one that nobody asked to remove, and the places
of the indices still to come stay as they were (`EntriesMark` is the step that
marks a place and `EntriesSwap` the one that removes it; `IndexFirst` and
`IndexRest` say what the order gives).
With nothing left to drop, `Entries` is a bijection between places and
subscribers (`EntriesCount`), which is `ListRight`. Ascending indices would break
it, as the mutant of that run shows.

**Publish logging.** `AtTheEnd`: in a session without a race, the one handle
writes at the end of the file; `OneCreates`, `Calm` and `Kept` say who may still
create the file, and where the lines since then are. `ShownIsPrefix` relates the
last answer of `get_logs` to the file, and gives the action property
`LogsExtend`.

**Lifecycle.** `Order` says what has happened before an actor is where it is,
`Connected` where the connections of the process to itself stand meanwhile;
`Causes` why the first actor returned and why the broker did, which
`PanicExplained` needs to exclude a panic in an undisturbed start.

**Only model-checked.** Every liveness property, and with them the fairness part
of `ImplementsRpc`: the proof system does not reason about fairness here.
That recursive definitions compute what they are meant to for every input is outside
the proof system; none is used in the modules that are proved about.

## Not modelled

* Spying: no request reaches `handleSpy` (`cellaserv.go:166-174`), so the list of
  spies is always empty.
* Monitoring: counters that are only incremented and read by Prometheus.
* The pages, templates and static files of the web interface, and its requests
  and publishes: each is one call of the client library, in `ClientLib`, between
  parsing and formatting.
* Logging helpers, flags and version strings: they change no state the other
  parts read.
* `cellaservctl` except for the handler that closes its client, which is in
  `ClientLib`: sequential calls of the library, and printing. The example
  programs are the same.
