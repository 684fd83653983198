----------------------------- MODULE ClientLib -----------------------------
(***************************************************************************)
(* The Go client library: the goroutine that receives messages, the one    *)
(* that handles them, the goroutines that wait for replies, and the ways   *)
(* in which a client comes to its end.                                     *)
(*                                                                         *)
(* The receiver and the message loop meet on msgCh, the loop and a waiting *)
(* call on the channel of the call; both are unbuffered, so a send is one  *)
(* step with the receive, and blocks its goroutine until then.             *)
(*                                                                         *)
(* Handlers of requests and of events run in the message loop.  Some do    *)
(* more than return: they may make a request, or call Close, which is how  *)
(* cellaservctl stops after the first event.                               *)
(***************************************************************************)
EXTENDS Naturals, Sequences, FiniteSets

CONSTANTS
  Req,            \* the calls of sendRequestWaitForReply
  Nested,         \* those among them that handlers make
  Closer,         \* the calls of Close by other goroutines
  HandlerCloses,  \* may the handler of an event call Close?
  MaxAnswers,     \* how many replies with the id of each request may come
  MaxEvents,      \* how many publishes, and how many service requests, may come
  None

ASSUME ConstAssumption ==
  /\ Nested \subseteq Req
  /\ HandlerCloses \in BOOLEAN
  /\ MaxAnswers \in [Req -> Nat]
  /\ MaxEvents \in Nat
  /\ None \notin Req

VARIABLES
  wire,        \* what the broker has sent and the receiver has not read
  remote,      \* the connection: open, closed by the broker, or cut
  answers,     \* how many replies the broker has sent for each request
  events,      \* how many publishes and service requests it has sent
  rx,          \* the receiver: reading, offering a message on msgCh, or gone
  misread,     \* some read gave something else than the message the broker sent
  closeCh,     \* closed: the receiver saw the connection closed
  quit,
  quitCh,      \* closed: the client has quit
  inFlight,    \* the keys of requestsInFlight
  caller,      \* where each call of sendRequestWaitForReply is
  closer,      \* where each call of Close is
  closes,      \* how many calls of Close began
  service,     \* RegisterService: not called, stored, or sent to the broker
  loop,        \* what the message loop is doing
  replied,     \* how many service requests the loop has replied to
  panicked

broker == <<wire, remote, answers, events>>

input == <<rx, misread>>

calls == <<inFlight, caller>>

ends == <<closeCh, quit, quitCh, closer, closes>>

serves == <<service, replied>>

vars == <<broker, input, ends, calls, serves, loop, panicked>>

Message == [kind : {"reply"}, id : Req] \cup [kind : {"publish", "request"}, id : {None}]

Nothing == [kind |-> "none", id |-> None]

\* A part of a message: what a read left behind, or what came before a cut.
Rest == [kind |-> "rest", id |-> None]

\* What RecvMessage may return for it.
NilMessage == [kind |-> "nil", id |-> None]

TypeOK ==
  /\ wire \in Seq(Message \cup {Rest})
  /\ remote \in {"open", "closed", "cut"}
  /\ answers \in [Req -> Nat]
  /\ events \in [{"publish", "request"} -> 0..MaxEvents]
  /\ rx \in [at : {"read", "gone"}, msg : {Nothing}]
              \cup [at : {"offer"}, msg : Message \cup {NilMessage}]
  /\ {misread, closeCh, quit, quitCh, panicked} \subseteq BOOLEAN
  /\ inFlight \subseteq Req
  /\ caller \in [Req -> {"idle", "stored", "waiting", "returned"}]
  /\ closer \in [Closer -> {"idle", "set", "done"}]
  /\ closes \in Nat
  /\ service \in {"none", "stored", "sent"}
  /\ loop \in [at : {"select", "closing", "exited"}, msg : {Nothing}]
                \cup [at : {"handle", "nested"}, msg : Message]
  /\ replied \in Nat

Init ==
  /\ wire = <<>> /\ remote = "open"
  /\ answers = [r \in Req |-> 0]
  /\ events = [kind \in {"publish", "request"} |-> 0]
  /\ rx = [at |-> "read", msg |-> Nothing] /\ misread = FALSE
  /\ closeCh = FALSE /\ quit = FALSE /\ quitCh = FALSE
  /\ inFlight = {} /\ caller = [r \in Req |-> "idle"]
  /\ closer = [k \in Closer |-> "idle"] /\ closes = 0
  /\ service = "none" /\ replied = 0
  /\ loop = [at |-> "select", msg |-> Nothing]
  /\ panicked = FALSE

-----------------------------------------------------------------------------
(* The broker *)

SendToClient(m) == wire' = Append(wire, m)

BrokerReplies(r) ==
  /\ remote = "open"
  /\ caller[r] \in {"waiting", "returned"}
  /\ answers[r] < MaxAnswers[r]
  /\ SendToClient([kind |-> "reply", id |-> r])
  /\ answers' = [answers EXCEPT ![r] = @ + 1]
  /\ UNCHANGED <<remote, events, input, ends, calls, serves, loop, panicked>>

\* Requests come for the service that was registered.
BrokerSends(kind) ==
  /\ remote = "open"
  /\ kind = "request" => service = "sent"
  /\ events[kind] < MaxEvents
  /\ SendToClient([kind |-> kind, id |-> None])
  /\ events' = [events EXCEPT ![kind] = @ + 1]
  /\ UNCHANGED <<remote, answers, input, ends, calls, serves, loop, panicked>>

BrokerCloses ==
  /\ remote = "open"
  /\ remote' = "closed"
  /\ UNCHANGED <<wire, answers, events, input, ends, calls, serves, loop, panicked>>

\* The connection is lost with what was under way, perhaps within a message.
ConnectionCut ==
  /\ remote = "open"
  /\ remote' = "cut"
  /\ \E n \in 0..Len(wire) :
        wire' \in {SubSeq(wire, 1, n)}
                    \cup (IF n < Len(wire) THEN {Append(SubSeq(wire, 1, n), Rest)} ELSE {})
  /\ UNCHANGED <<answers, events, input, ends, calls, serves, loop, panicked>>

-----------------------------------------------------------------------------
(* The receiver *)

Reading == [at |-> "read", msg |-> Nothing]

Offer(m) == [at |-> "offer", msg |-> m]

Receive ==
  /\ rx.at = "read"
  /\ wire # <<>> /\ Head(wire) # Rest
  /\ rx' = Offer(Head(wire))
  /\ wire' = Tail(wire)
  /\ UNCHANGED <<remote, answers, events, misread, ends, calls, serves, loop, panicked>>

\* An error of RecvMessage is logged and the message is lost, and so is what only
\* the loop cannot parse; the bytes that were read may also pass for any message.
Misreads(left) ==
  /\ misread' = TRUE
  /\ wire' = left
  /\ rx' \in {Reading} \cup {Offer(m) : m \in Message}
                \cup (IF remote # "open" /\ left = <<>> THEN {Offer(NilMessage)} ELSE {})
  /\ UNCHANGED <<remote, answers, events, ends, calls, serves, loop, panicked>>

\* The one conn.Read of the payload returns a part of it, or the message is too
\* big and none of it is read: the rest is taken for the next message.
ReceiveShort ==
  /\ rx.at = "read"
  /\ wire # <<>> /\ Head(wire) # Rest
  /\ Misreads(<<Rest>> \o Tail(wire))

\* Out of step with the messages, a read takes the piece, and perhaps more: it
\* ends with a message or within one.  If the connection ends behind the length
\* of a message, RecvMessage returns neither a message nor an error.
ReceiveRest ==
  /\ rx.at = "read"
  /\ wire # <<>> /\ Head(wire) = Rest
  /\ \E n \in 1..Len(wire) :
       LET left == SubSeq(wire, n + 1, Len(wire)) IN
         Misreads(left) \/ (n > 1 /\ Misreads(<<Rest>> \o left))

ReceiveClosed_forgetsSignal ==
  /\ rx.at = "read"
  /\ wire = <<>> /\ remote # "open"
  /\ rx' = [at |-> "gone", msg |-> Nothing]
  /\ UNCHANGED <<broker, misread, ends, calls, serves, loop, panicked>>

ReceiveClosed ==
  /\ rx.at = "read"
  /\ wire = <<>> /\ remote # "open"
  /\ rx' = [at |-> "gone", msg |-> Nothing]
  /\ closeCh' = TRUE
  /\ UNCHANGED <<broker, misread, quit, quitCh, closer, closes, calls, serves, loop, panicked>>

-----------------------------------------------------------------------------
(* sendRequestWaitForReply, and the stubs that call it *)

\* A write to a connection that is not open may fail, and then the call panics.
SendFrom(r, at) ==
  /\ caller[r] = at
  /\ UNCHANGED inFlight
  /\ \/ /\ caller' = [caller EXCEPT ![r] = "waiting"]
        /\ UNCHANGED panicked
     \/ /\ remote # "open"
        /\ UNCHANGED caller
        /\ panicked' = TRUE

\* As it would be if the request was sent before its channel is stored.
Call_late(r) ==
  \/ SendFrom(r, "idle")
  \/ /\ caller[r] = "waiting" /\ r \notin inFlight
     /\ inFlight' = inFlight \cup {r}
     /\ UNCHANGED <<caller, panicked>>

\* The channel is made and stored, then the request is sent.
Call(r) ==
  \/ /\ caller[r] = "idle"
     /\ caller' = [caller EXCEPT ![r] = "stored"]
     /\ inFlight' = inFlight \cup {r}
     /\ UNCHANGED panicked
  \/ SendFrom(r, "stored")

SendRequest(r) ==
  /\ r \notin Nested
  /\ Call(r)
  /\ UNCHANGED <<broker, input, ends, serves, loop>>

-----------------------------------------------------------------------------
(* RegisterService *)

RegisterStores ==
  /\ service = "none"
  /\ service' = "stored"
  /\ UNCHANGED <<broker, input, ends, calls, replied, loop, panicked>>

\* A write that fails is logged.
RegisterSends ==
  /\ service = "stored"
  /\ service' = "sent"
  /\ UNCHANGED <<broker, input, ends, calls, replied, loop, panicked>>

-----------------------------------------------------------------------------
(* The message loop *)

Select == [at |-> "select", msg |-> Nothing]

Exited == [at |-> "exited", msg |-> Nothing]

\* case msg := <-c.msgCh: a reply to no known request, a request for an unknown
\* service are errors that are logged; anything else is handled.  A nil message
\* is dereferenced.
SelectMessage ==
  /\ loop.at = "select"
  /\ rx.at = "offer"
  /\ rx' = Reading
  /\ panicked' = (rx.msg = NilMessage)
  /\ loop' = IF \/ rx.msg.kind = "reply" /\ rx.msg.id \notin inFlight
                \/ rx.msg.kind = "request" /\ service = "none"
                \/ rx.msg = NilMessage
             THEN Select ELSE [at |-> "handle", msg |-> rx.msg]
  /\ UNCHANGED <<broker, misread, ends, calls, serves>>

Handles(kind) == loop.at = "handle" /\ loop.msg.kind = kind

\* As it would be if calls held the mutex while they wait.
HandleReply_needsMutex ==
  /\ Handles("reply")
  /\ \A r \in Req : caller[r] # "waiting"
  /\ loop' = Select
  /\ UNCHANGED <<broker, input, ends, calls, serves, panicked>>

\* replyChan <- rep meets the call that waits on the channel.
HandleReply ==
  /\ Handles("reply")
  /\ caller[loop.msg.id] = "waiting"
  /\ caller' = [caller EXCEPT ![loop.msg.id] = "returned"]
  /\ loop' = Select
  /\ UNCHANGED <<broker, input, ends, inFlight, serves, panicked>>

\* handlePublish: the handlers of the subscribers return.
HandlePublish ==
  /\ Handles("publish")
  /\ loop' = Select
  /\ UNCHANGED <<broker, input, ends, calls, serves, panicked>>

\* A handler calls Close.
PublishCloses ==
  /\ Handles("publish") /\ HandlerCloses
  /\ quit' = TRUE /\ quitCh' = TRUE
  /\ closes' = closes + 1
  /\ panicked' = quitCh
  /\ loop' = Select
  /\ UNCHANGED <<broker, input, closeCh, closer, calls, serves>>

\* handleRequest and sendRequestReply: the result or the error of the service's
\* handler is the reply.  A write that fails is logged.
HandleRequest_silentOnError ==
  /\ Handles("request")
  /\ replied' \in {replied, replied + 1}
  /\ loop' = Select
  /\ UNCHANGED <<broker, input, ends, calls, service, panicked>>

HandleRequest ==
  /\ Handles("request")
  /\ \/ replied' = replied + 1
     \/ remote # "open" /\ replied' = replied
  /\ loop' = Select
  /\ UNCHANGED <<broker, input, ends, calls, service, panicked>>

\* A handler makes a request, and waits for the reply in the message loop.
HandlerCalls(r) ==
  /\ r \in Nested
  /\ IF caller[r] = "idle" THEN Handles("publish") \/ Handles("request")
     ELSE loop.at = "nested"
  /\ Call(r)
  /\ loop' = [loop EXCEPT !.at = "nested"]
  /\ UNCHANGED <<broker, input, ends, serves>>

\* case <-c.closeCh: if !c.quit ...
SelectClosed ==
  /\ loop.at = "select"
  /\ closeCh
  /\ loop' = IF quit THEN Exited ELSE [at |-> "closing", msg |-> Nothing]
  /\ UNCHANGED <<broker, input, ends, calls, serves, panicked>>

\* ... close(c.quitCh), which panics if Close got there first.
CloseQuit ==
  /\ loop.at = "closing"
  /\ panicked' = quitCh
  /\ quitCh' = TRUE
  /\ loop' = Exited
  /\ UNCHANGED <<broker, input, closeCh, quit, closer, closes, calls, serves>>

\* case <-c.quitCh
SelectQuit_closesAgain ==
  /\ loop.at = "select"
  /\ quitCh
  /\ loop' = Exited
  /\ panicked' = quitCh
  /\ UNCHANGED <<broker, input, ends, calls, serves>>

SelectQuit_waitsForRemote ==
  /\ loop.at = "select"
  /\ quitCh /\ closeCh
  /\ loop' = Exited
  /\ UNCHANGED <<broker, input, ends, calls, serves, panicked>>

SelectQuit ==
  /\ loop.at = "select"
  /\ quitCh
  /\ loop' = Exited
  /\ UNCHANGED <<broker, input, ends, calls, serves, panicked>>

-----------------------------------------------------------------------------
(* Close *)

CloseSets(k) ==
  /\ closer[k] = "idle"
  /\ closer' = [closer EXCEPT ![k] = "set"]
  /\ quit' = TRUE
  /\ closes' = closes + 1
  /\ UNCHANGED <<broker, input, closeCh, quitCh, calls, serves, loop, panicked>>

CloseCloses(k) ==
  /\ closer[k] = "set"
  /\ closer' = [closer EXCEPT ![k] = "done"]
  /\ panicked' = quitCh
  /\ quitCh' = TRUE
  /\ UNCHANGED <<broker, input, closeCh, quit, closes, calls, serves, loop>>

-----------------------------------------------------------------------------

Receiver == ~panicked /\ (Receive \/ ReceiveShort \/ ReceiveRest \/ ReceiveClosed)

Handling ==
  \/ HandleReply \/ HandlePublish \/ PublishCloses \/ HandleRequest \/ CloseQuit
  \/ \E r \in Req : HandlerCalls(r)

Loop == ~panicked /\ (SelectMessage \/ SelectClosed \/ SelectQuit \/ Handling)

Closing(k) == ~panicked /\ (CloseSets(k) \/ CloseCloses(k))

\* Every goroutine has ended or waits for something that does not come.
Ended ==
  /\ ~ENABLED (Receiver \/ Loop)
  /\ UNCHANGED vars

Next ==
  \/ \E r \in Req : ~panicked /\ (SendRequest(r) \/ BrokerReplies(r))
  \/ \E kind \in {"publish", "request"} : ~panicked /\ BrokerSends(kind)
  \/ ~panicked /\ (RegisterStores \/ RegisterSends)
  \/ ~panicked /\ (BrokerCloses \/ ConnectionCut)
  \/ Receiver
  \/ Loop
  \/ \E k \in Closer : Closing(k)
  \/ Ended

\* Goroutines are scheduled; handlers return, or make their call, and a call that
\* has begun is sent.  A ready quitCh is chosen eventually, as select draws among
\* the ready cases.  Close is not promised.  The broker answers every request, or
\* closes.
Fairness ==
  /\ WF_vars(Receiver)
  /\ WF_vars(Loop)
  /\ SF_vars(~panicked /\ SelectQuit)
  /\ \A k \in Closer : WF_vars(~panicked /\ CloseCloses(k))
  /\ \A r \in Req \ Nested : WF_vars(~panicked /\ caller[r] = "stored" /\ SendRequest(r))
  /\ \A r \in Req : WF_vars(~panicked /\ answers[r] = 0 /\ BrokerReplies(r))

Spec == Init /\ [][Next]_vars /\ Fairness

-----------------------------------------------------------------------------
(* Properties *)

InTransit(r) ==
  \/ \E n \in 1..Len(wire) : wire[n].id = r
  \/ rx.msg.id = r
  \/ loop.msg.id = r

\* ReplyKept: as long as the receiver gets whole messages, a reply that was sent to
\* a waiting call is on its way to it until the message loop ends: neither the
\* receiver nor the loop loses it.  A cut connection takes replies with it, and a
\* read that returns a part of a message loses that message and may lose others.
ReplyKept ==
  ~misread /\ remote # "cut" =>
    \A r \in Req :
      caller[r] = "waiting" /\ answers[r] > 0 /\ loop.at # "exited" => InTransit(r)

\* NoSpontaneousPanic: while the connection is open the client only panics if
\* Close is called twice, be it by a handler that gets a second event.  Once it is
\* not, it takes a call of Close, a request that is being sent, or a message the
\* receiver got a part of: the loop may be given a nil message then.
NoSpontaneousPanic ==
  panicked => \/ closes > 1
              \/ /\ remote # "open"
                 /\ closes > 0 \/ misread \/ \E r \in Req : caller[r] = "stored"

RequestsIn ==
  Cardinality({n \in 1..Len(wire) : wire[n].kind = "request"})
    + Cardinality({m \in {rx, loop} : m.msg.kind = "request"})

\* ServedOnce: as long as the receiver gets whole messages, no service request is
\* handled twice, and while the connection is open every one the broker sent is
\* still on its way to its handler or has got exactly one reply, also while the
\* client is closing, and from the moment the broker knows the service.
ServedOnce ==
  ~misread => /\ RequestsIn + replied <= events["request"]
              /\ remote = "open" => RequestsIn + replied = events["request"]

\* The message loop waits for what only the message loop could do: the reply to
\* a call of its own, or a call that takes a second reply.
Stuck ==
  \/ loop.at = "nested"
  \/ Handles("reply") /\ caller[loop.msg.id] = "returned"

\* CallReturns: a call of the program gets its reply, unless the connection or the
\* client is closed, a read gave a part of a message, a handler makes a request, or
\* a request is answered twice.
CallReturns ==
  \A r \in Req \ Nested :
    caller[r] = "waiting" ~>
      caller[r] = "returned" \/ remote # "open" \/ quit \/ misread \/ Stuck

\* LossEndsLoop: when the connection is closed or cut the message loop ends, with
\* the quit channel closed for those who wait for it, or the client panics.
LossEndsLoop ==
  remote # "open" ~> panicked \/ (loop.at = "exited" /\ quitCh) \/ Stuck

\* CloseEndsLoop: Close ends the message loop, whoever calls it, unless the loop
\* is stuck.
CloseEndsLoop == quitCh ~> panicked \/ loop.at = "exited" \/ Stuck

=============================================================================
