--------------------------- MODULE ClientLibProofs ---------------------------
(***************************************************************************)
(* For any number of calls, of messages of the broker and of calls of      *)
(* Close: the client library loses no reply and no service request while   *)
(* it gets whole messages, and panics only for the reasons                 *)
(* NoSpontaneousPanic names.  For any number of web sockets and of events: *)
(* its list of subscribers holds the ones it should, and a web page that   *)
(* goes away harms no other (WebSubscribe).                                *)
(***************************************************************************)
EXTENDS ClientLib, WebSubscribe, FiniteSetTheorems, SequenceTheorems, TLAPS

-----------------------------------------------------------------------------
(***************************************************************************)
(* The service requests.  Each is in one place: on the wire, in the hands  *)
(* of the receiver, in those of the message loop, or replied to; and since *)
(* the broker only sends one for a service it knows, none is dropped.  A   *)
(* cut connection, and a reply that cannot be written, only take some      *)
(* away.                                                                   *)
(***************************************************************************)
One(m) == IF m.kind = "request" THEN 1 ELSE 0

Requests(w) == {n \in 1..Len(w) : w[n].kind = "request"}

Piece == Message \cup {Rest}

Known == Cardinality(Requests(wire)) + One(rx.msg) + One(loop.msg) + replied

Balance ==
  ~misread => /\ Known <= events["request"]
              /\ remote = "open" => Known = events["request"]

KnownService == events["request"] > 0 => service = "sent"

\* The replies.  Nothing is answered before it is asked, and the loop knows the
\* channel of every call that waits.
Unasked == \A r \in Req : caller[r] \in {"idle", "stored"} => answers[r] = 0

Tracked == \A r \in Req : caller[r] \in {"stored", "waiting"} => r \in inFlight

\* The ends.  Every goroutine that is within Close, and every closed quitCh, is
\* accounted for in closes; a nil message takes the end of the connection.
Ends ==
  /\ closeCh => remote # "open"
  /\ loop.at = "closing" => remote # "open"
  /\ rx.msg = NilMessage => misread /\ remote # "open"
  /\ quitCh => remote # "open" \/ closes > 0
  /\ quitCh => loop.at = "exited" \/ closes > 0
  /\ \A k \in Closer : closer[k] # "idle" => closes > 0
  /\ \A k \in Closer : closer[k] = "set" /\ quitCh => remote # "open" \/ closes > 1
  /\ \A j, k \in Closer : j # k /\ closer[j] # "idle" /\ closer[k] # "idle" => closes > 1

IInv ==
  /\ TypeOK /\ Balance /\ KnownService
  /\ Unasked /\ Tracked /\ ReplyKept
  /\ Ends /\ NoSpontaneousPanic

-----------------------------------------------------------------------------
(***************************************************************************)
(* Counting the requests of a sequence.                                    *)
(***************************************************************************)

\* Taken: what SelectMessage and Receive rely on, the message of the receiver
\* and that of the loop are messages, nil or nothing.
LEMMA Taken ==
  ASSUME TypeOK
  PROVE  /\ rx.msg \in Message \cup {Nothing, NilMessage} /\ loop.msg \in Message \cup {Nothing}
         /\ rx.at = "offer" => rx.msg \in Message \cup {NilMessage}
         /\ rx.at # "offer" => rx.msg = Nothing
         /\ loop.at \in {"handle", "nested"} => loop.msg \in Message
         /\ loop.at \notin {"handle", "nested"} => loop.msg = Nothing
         /\ rx.at \in {"read", "gone", "offer"}
         /\ loop.at \in {"select", "closing", "exited", "handle", "nested"}
  BY DEF TypeOK

\* OneIs: a message is one service request or none.
LEMMA OneIs ==
  /\ One(Nothing) = 0 /\ One(Rest) = 0 /\ One(NilMessage) = 0
  /\ \A m : One(m) \in {0, 1}
  /\ \A m : m.kind = "request" => One(m) = 1
  /\ \A m : m.kind # "request" => One(m) = 0
  BY DEF One, Nothing, Rest, NilMessage

\* RequestsFinite: the requests on the wire can be counted.
LEMMA RequestsFinite ==
  ASSUME NEW w \in Seq(Piece)
  PROVE  IsFiniteSet(Requests(w)) /\ Cardinality(Requests(w)) \in Nat
<1>1. Len(w) \in Nat
  OBVIOUS
<1>2. Requests(w) \in SUBSET Nat /\ \A n \in Requests(w) : n <= Len(w)
  BY <1>1 DEF Requests
<1>3. IsFiniteSet(Requests(w))
  BY <1>1, <1>2, FS_BoundedSetOfNaturals
<1> QED
  BY <1>3, FS_CardinalityType

\* CountEmpty: no request is on an empty wire.
LEMMA CountEmpty == Cardinality(Requests(<<>>)) = 0
<1>1. Requests(<<>>) = {}
  BY DEF Requests
<1> QED
  BY <1>1, FS_EmptySet

\* CountAppend: sending a message adds one request, if it is one.
LEMMA CountAppend ==
  ASSUME NEW w \in Seq(Piece), NEW m \in Piece
  PROVE  Cardinality(Requests(Append(w, m))) = Cardinality(Requests(w)) + One(m)
<1> DEFINE v == Append(w, m)
<1>1. /\ Len(w) \in Nat /\ Len(v) = Len(w) + 1 /\ v[Len(w) + 1] = m
      /\ \A n \in 1..Len(w) : v[n] = w[n]
  OBVIOUS
<1> HIDE DEF v
<1>2. CASE m.kind = "request"
  <2>1. Requests(v) = Requests(w) \cup {Len(w) + 1} /\ (Len(w) + 1) \notin Requests(w)
    BY <1>1, <1>2 DEF Requests
  <2>2. Cardinality(Requests(v)) = Cardinality(Requests(w)) + 1
    BY <2>1, RequestsFinite, FS_AddElement
  <2> QED
    BY <1>2, <2>2, OneIs DEF v
<1>3. CASE m.kind # "request"
  <2>1. Requests(v) = Requests(w)
    BY <1>1, <1>3 DEF Requests
  <2> QED
    BY <1>3, <2>1, OneIs, RequestsFinite DEF v
<1> QED
  BY <1>2, <1>3

\* CountTail: taking a message takes one request, if it is one.
LEMMA CountTail ==
  ASSUME NEW w \in Seq(Piece), w # <<>>
  PROVE  Cardinality(Requests(w)) = Cardinality(Requests(Tail(w))) + One(Head(w))
<1> DEFINE t == Tail(w)
           S == Requests(w) \ {1}
           f == [n \in Requests(t) |-> n + 1]
<1>1. t \in Seq(Piece)
  OBVIOUS
<1>2. Len(w) \in Nat \ {0} /\ Len(t) = Len(w) - 1 /\ Head(w) = w[1]
  OBVIOUS
<1>3. \A n \in 1..Len(t) : t[n] = w[n + 1]
  OBVIOUS
<1>4. IsFiniteSet(Requests(w)) /\ Cardinality(Requests(w)) \in Nat
      /\ IsFiniteSet(Requests(t)) /\ Cardinality(Requests(t)) \in Nat
  BY <1>1, RequestsFinite
<1> HIDE DEF t
<1>5. f \in Bijection(Requests(t), S)
  <2>1. f \in [Requests(t) -> S]
    BY <1>2, <1>3 DEF Requests
  <2>2. \A a, b \in Requests(t) : f[a] = f[b] => a = b
    BY <1>2 DEF Requests
  <2>3. ASSUME NEW k \in S PROVE \E n \in Requests(t) : f[n] = k
    <3>1. k \in 2..Len(w) /\ w[k].kind = "request"
      BY <1>2 DEF Requests
    <3>2. k - 1 \in 1..Len(t) /\ (k - 1) + 1 = k
      BY <1>2, <3>1
    <3>3. k - 1 \in Requests(t)
      BY <1>3, <3>1, <3>2 DEF Requests
    <3> QED
      BY <3>2, <3>3
  <2> QED
    BY <2>1, <2>2, <2>3 DEF Bijection, Injection, Surjection, IsInjective
<1>6. Cardinality(S) = Cardinality(Requests(t))
  BY <1>4, <1>5, FS_Bijection DEF ExistsBijection
<1>7. Cardinality(S) = IF 1 \in Requests(w) THEN Cardinality(Requests(w)) - 1
                       ELSE Cardinality(Requests(w))
  BY <1>4, FS_RemoveElement
<1>8. 1 \in Requests(w) <=> Head(w).kind = "request"
  BY <1>2 DEF Requests
<1> QED
  BY <1>4, <1>6, <1>7, <1>8, OneIs DEF t

\* CountCut: a cut only takes requests away.
LEMMA CountCut ==
  ASSUME NEW w \in Seq(Piece), NEW n \in 0..Len(w)
  PROVE  /\ SubSeq(w, 1, n) \in Seq(Piece)
         /\ Cardinality(Requests(SubSeq(w, 1, n))) <= Cardinality(Requests(w))
<1> DEFINE v == SubSeq(w, 1, n)
<1>1. v \in Seq(Piece) /\ Len(w) \in Nat /\ Len(v) = n /\ \A i \in 1..n : v[i] = w[i]
  OBVIOUS
<1> HIDE DEF v
<1>2. Requests(v) \subseteq Requests(w)
  BY <1>1 DEF Requests
<1>3. Cardinality(Requests(v)) <= Cardinality(Requests(w))
  BY <1>2, RequestsFinite, FS_Subset
<1> QED
  BY <1>1, <1>3 DEF v

\* ServedOnceIs: Balance says what ServedOnce says.
LEMMA ServedOnceIs ==
  ASSUME TypeOK
  PROVE  RequestsIn = Cardinality(Requests(wire)) + One(rx.msg) + One(loop.msg)
<1>0. PICK P : P = {m \in {rx, loop} : m.msg.kind = "request"}
  OBVIOUS
<1>1. Cardinality(Requests(wire)) \in Nat
  BY RequestsFinite DEF TypeOK, Piece
<1>2. Cardinality(P) = One(rx.msg) + One(loop.msg)
  <2>1. rx.msg.kind = "request" => rx.at = "offer"
    BY Taken DEF Nothing, NilMessage
  <2>2. loop.msg.kind = "request" => loop.at \in {"handle", "nested"}
    BY Taken DEF Nothing, NilMessage
  <2>3. CASE rx.msg.kind = "request" /\ loop.msg.kind = "request"
    <3>1. P = {rx} \cup {loop} /\ loop \notin {rx}
      BY <1>0, <2>1, <2>2, <2>3
    <3>2. Cardinality(P) = 2
      <4>1. IsFiniteSet({rx}) /\ Cardinality({rx}) = 1
        BY FS_Singleton
      <4>2. Cardinality({rx} \cup {loop}) = Cardinality({rx}) + 1
        BY <3>1, <4>1, FS_AddElement
      <4> QED
        BY <3>1, <4>1, <4>2
    <3> QED
      BY <2>3, <3>2, OneIs
  <2>4. CASE rx.msg.kind = "request" /\ loop.msg.kind # "request"
    <3>1. P = {rx}
      BY <1>0, <2>4
    <3>2. Cardinality(P) = 1
      BY <3>1, FS_Singleton
    <3> QED
      BY <2>4, <3>2, OneIs
  <2>5. CASE rx.msg.kind # "request" /\ loop.msg.kind = "request"
    <3>1. P = {loop}
      BY <1>0, <2>5
    <3>2. Cardinality(P) = 1
      BY <3>1, FS_Singleton
    <3> QED
      BY <2>5, <3>2, OneIs
  <2>6. CASE rx.msg.kind # "request" /\ loop.msg.kind # "request"
    <3>1. P = {}
      BY <1>0, <2>6
    <3> QED
      BY <2>6, <3>1, FS_EmptySet, OneIs
  <2> QED
    BY <2>3, <2>4, <2>5, <2>6
<1>3. RequestsIn = Cardinality(Requests(wire)) + Cardinality(P)
  BY <1>0 DEF RequestsIn, Requests
<1> QED
  BY <1>1, <1>2, <1>3, OneIs

-----------------------------------------------------------------------------
(***************************************************************************)
(* The steps, one by one.                                                  *)
(***************************************************************************)

\* Steps: every step is one of the named actions, by a client that has not
\* panicked, or changes nothing.
LEMMA Steps ==
  ASSUME [Next]_vars
  PROVE  \/ UNCHANGED vars
         \/ /\ ~panicked
            /\ \/ \E r \in Req : SendRequest(r) \/ BrokerReplies(r) \/ HandlerCalls(r)
               \/ \E kind \in {"publish", "request"} : BrokerSends(kind)
               \/ RegisterStores \/ RegisterSends \/ BrokerCloses \/ ConnectionCut
               \/ Receive \/ ReceiveShort \/ ReceiveRest \/ ReceiveClosed
               \/ SelectMessage \/ SelectClosed \/ SelectQuit
               \/ HandleReply \/ HandlePublish \/ PublishCloses \/ HandleRequest \/ CloseQuit
               \/ \E k \in Closer : CloseSets(k) \/ CloseCloses(k)
  BY DEF Next, Receiver, Loop, Handling, Closing, Ended

Counted == TypeOK /\ Balance /\ KnownService

\* BalanceNumbers: the terms of the balance are numbers.
LEMMA BalanceNumbers ==
  ASSUME TypeOK
  PROVE  /\ Cardinality(Requests(wire)) \in Nat
         /\ One(rx.msg) \in {0, 1} /\ One(loop.msg) \in {0, 1}
         /\ events["request"] \in Nat /\ replied \in Nat /\ Known \in Nat
  BY RequestsFinite, OneIs, ConstAssumption DEF TypeOK, Piece, Known

\* CountedInit: at first there is nothing to count.
LEMMA CountedInit == Init => Counted
<1> SUFFICES ASSUME Init PROVE Counted
  OBVIOUS
<1>1. TypeOK
  <2>1. wire \in Seq(Message \cup {Rest}) /\ inFlight \subseteq Req /\ closes \in Nat
    BY DEF Init
  <2>2. answers \in [Req -> Nat] /\ replied \in Nat
        /\ events \in [{"publish", "request"} -> 0..MaxEvents]
    BY ConstAssumption DEF Init
  <2>3. {misread, closeCh, quit, quitCh, panicked} \subseteq BOOLEAN
    BY DEF Init
  <2>4. /\ caller \in [Req -> {"idle", "stored", "waiting", "returned"}]
        /\ closer \in [Closer -> {"idle", "set", "done"}]
        /\ rx \in [at : {"read", "gone"}, msg : {Nothing}]
        /\ loop \in [at : {"select", "closing", "exited"}, msg : {Nothing}]
        /\ remote \in {"open", "closed", "cut"} /\ service \in {"none", "stored", "sent"}
    BY DEF Init
  <2> QED
    BY <2>1, <2>2, <2>3, <2>4 DEF TypeOK
<1>2. Balance
  <2>1. One(rx.msg) = 0 /\ One(loop.msg) = 0
    BY OneIs DEF Init
  <2>2. Cardinality(Requests(wire)) = 0
    BY CountEmpty DEF Init
  <2>3. events["request"] = 0 /\ replied = 0
    BY DEF Init
  <2> QED
    BY <2>1, <2>2, <2>3 DEF Balance, Known
<1>3. KnownService
  BY DEF Init, KnownService
<1> QED
  BY <1>1, <1>2, <1>3 DEF Counted

\* CountedStep: no step loses a request, or replies twice.  The loop drops a
\* request only for a service it does not have, and then none was sent.
LEMMA CountedStep == Counted /\ [Next]_vars => Counted'
<1> SUFFICES ASSUME Counted, [Next]_vars PROVE Counted'
  OBVIOUS
<1> USE ConstAssumption DEF Counted, broker, input, calls, ends, serves
<1>0. TypeOK /\ Balance /\ KnownService
  OBVIOUS
<1>1. CASE UNCHANGED vars
  BY <1>1 DEF vars, TypeOK, Balance, Known, KnownService
<1>2. ASSUME NEW r \in Req, Call(r) PROVE calls' \in (SUBSET Req) \X [Req -> {"idle", "stored", "waiting", "returned"}]
                                        /\ panicked' \in BOOLEAN
  <2>1. panicked' = panicked \/ panicked' = TRUE
    BY <1>2 DEF Call, SendFrom
  <2>2. panicked' \in BOOLEAN
    BY <2>1, Zenon DEF TypeOK
  <2> QED
    BY <1>2, <2>2 DEF Call, SendFrom, TypeOK
<1>20. ASSUME NEW r \in Req, SendRequest(r) PROVE Counted'
  <2>1. {misread', closeCh', quit', quitCh', panicked'} \subseteq BOOLEAN
    BY <1>2, <1>20, Zenon DEF SendRequest, TypeOK
  <2> QED
    BY <1>2, <1>20, <2>1 DEF SendRequest, TypeOK, Balance, Known, KnownService
<1>3. ASSUME NEW r \in Req, BrokerReplies(r) PROVE Counted'
  <2>1. [kind |-> "reply", id |-> r] \in Message
    BY DEF Message
  <2>2. TypeOK'
    BY <1>3, <2>1 DEF BrokerReplies, SendToClient, TypeOK
  <2>3. Cardinality(Requests(wire')) = Cardinality(Requests(wire))
    <3>1. PICK m : m = [kind |-> "reply", id |-> r]
      OBVIOUS
    <3>2. m \in Piece /\ wire \in Seq(Piece) /\ wire' = Append(wire, m)
      BY <1>3, <2>1, <3>1 DEF BrokerReplies, SendToClient, TypeOK, Piece
    <3>3. One(m) = 0
      BY <3>1, OneIs
    <3> QED
      BY <3>2, <3>3, CountAppend, BalanceNumbers
  <2> QED
    BY <1>3, <2>2, <2>3 DEF BrokerReplies, Balance, Known, KnownService
<1>4. ASSUME NEW r \in Req, HandlerCalls(r) PROVE Counted'
  <2>1. loop.at \in {"handle", "nested"} /\ loop.msg \in Message
    BY <1>4, Taken DEF HandlerCalls, Handles
  <2>2. loop' = [at |-> "nested", msg |-> loop.msg]
    BY <1>4, <2>1 DEF HandlerCalls, TypeOK
  <2>3. {misread', closeCh', quit', quitCh', panicked'} \subseteq BOOLEAN
    BY <1>2, <1>4, Zenon DEF HandlerCalls, TypeOK
  <2> QED
    BY <1>2, <1>4, <2>1, <2>2, <2>3 DEF HandlerCalls, TypeOK, Balance, Known, KnownService
<1>5. ASSUME NEW kind \in {"publish", "request"}, BrokerSends(kind) PROVE Counted'
  <2> DEFINE m == [kind |-> kind, id |-> None]
  <2>1. m \in Message /\ m.kind = kind
    BY DEF Message
  <2>2. TypeOK'
    BY <1>5, <2>1 DEF BrokerSends, SendToClient, TypeOK
  <2>3. Cardinality(Requests(wire')) = Cardinality(Requests(wire)) + One(m)
    <3>1. m \in Piece /\ wire \in Seq(Piece) /\ wire' = Append(wire, m)
      BY <1>5, <2>1 DEF BrokerSends, SendToClient, TypeOK, Piece
    <3> HIDE DEF m
    <3> QED
      BY <3>1, CountAppend
  <2>4. events'["request"] = events["request"] + One(m)
    <3>1. /\ events \in [{"publish", "request"} -> 0..MaxEvents]
          /\ events' = [events EXCEPT ![kind] = events[kind] + 1]
          /\ MaxEvents \in Nat
      BY <1>5, ConstAssumption DEF BrokerSends, TypeOK
    <3>2. One(m) = IF kind = "request" THEN 1 ELSE 0
      BY <2>1 DEF One
    <3> QED BY <3>1, <3>2
  <2>5. Balance'
    BY <1>5, <2>3, <2>4, BalanceNumbers, OneIs DEF BrokerSends, Balance, Known
  <2>6. KnownService'
    BY <1>5, <2>1, <2>4, OneIs, BalanceNumbers DEF BrokerSends, KnownService
  <2> QED
    BY <2>2, <2>5, <2>6
<1>6. CASE RegisterStores \/ RegisterSends
  BY <1>6, BalanceNumbers DEF RegisterStores, RegisterSends, TypeOK, Balance, Known, KnownService
<1>7. CASE BrokerCloses
  BY <1>7, BalanceNumbers DEF BrokerCloses, TypeOK, Balance, Known, KnownService
<1>70. CASE ConnectionCut
  <2>1. PICK n \in 0..Len(wire) :
           wire' \in {SubSeq(wire, 1, n), Append(SubSeq(wire, 1, n), Rest)}
    BY <1>70 DEF ConnectionCut
  <2>2. PICK v : v = SubSeq(wire, 1, n)
    OBVIOUS
  <2>3. v \in Seq(Piece) /\ Cardinality(Requests(v)) <= Cardinality(Requests(wire))
    BY <2>2, CountCut DEF TypeOK, Piece
  <2>4. Rest \in Piece /\ Cardinality(Requests(v)) \in Nat
    BY <2>3, RequestsFinite DEF Piece
  <2>5. Append(v, Rest) \in Seq(Piece) /\ Cardinality(Requests(Append(v, Rest))) = Cardinality(Requests(v))
    BY <2>3, <2>4, CountAppend, OneIs
  <2>6. wire' \in Seq(Piece) /\ Cardinality(Requests(wire')) <= Cardinality(Requests(wire))
        /\ Cardinality(Requests(wire')) \in Nat
    BY <2>1, <2>2, <2>3, <2>4, <2>5
  <2>7. TypeOK'
    BY <1>70, <2>6 DEF ConnectionCut, TypeOK, Piece
  <2>8. Balance'
    BY <1>70, <2>6, BalanceNumbers DEF ConnectionCut, Balance, Known
  <2> QED
    BY <1>70, <2>7, <2>8 DEF ConnectionCut, KnownService
<1>8. CASE Receive
  <2>1. wire \in Seq(Piece) /\ wire # <<>> /\ Head(wire) \in Message
    BY <1>8 DEF Receive, TypeOK, Piece
  <2>2. TypeOK'
    BY <1>8, <2>1 DEF Receive, Offer, TypeOK, Piece
  <2>3. One(rx.msg) = 0 /\ rx'.msg = Head(wire)
    BY <1>8, Taken, OneIs DEF Receive, Offer
  <2>4. Cardinality(Requests(wire)) = Cardinality(Requests(wire')) + One(rx'.msg)
    BY <1>8, <2>1, <2>3, CountTail DEF Receive
  <2>5. Cardinality(Requests(wire')) \in Nat
    BY <2>2, RequestsFinite DEF TypeOK, Piece
  <2>6. Balance'
    BY <1>8, <2>3, <2>4, <2>5, OneIs, BalanceNumbers DEF Receive, Balance, Known
  <2> QED
    BY <1>8, <2>2, <2>6 DEF Receive, KnownService
<1>80. ASSUME NEW left, left \in Seq(Piece), Misreads(left) PROVE Counted'
  <2>1. rx' \in [at : {"read", "gone"}, msg : {Nothing}]
                  \cup [at : {"offer"}, msg : Message \cup {NilMessage}]
    BY <1>80 DEF Misreads, Offer, Reading
  <2>2. {misread', closeCh', quit', quitCh', panicked'} \subseteq BOOLEAN /\ misread'
    BY <1>80, Zenon DEF Misreads, TypeOK
  <2>3. TypeOK'
    BY <1>80, <2>1, <2>2 DEF Misreads, TypeOK, Piece
  <2> QED
    BY <1>80, <2>2, <2>3 DEF Misreads, Balance, KnownService
<1>81. CASE ReceiveShort
  <2>1. <<Rest>> \o Tail(wire) \in Seq(Piece) /\ Misreads(<<Rest>> \o Tail(wire))
    BY <1>81 DEF ReceiveShort, TypeOK, Piece
  <2> QED
    BY <1>80, <2>1
<1>82. CASE ReceiveRest
  <2>1. PICK n \in 1..Len(wire) : \/ Misreads(SubSeq(wire, n + 1, Len(wire)))
                                 \/ Misreads(<<Rest>> \o SubSeq(wire, n + 1, Len(wire)))
    BY <1>82 DEF ReceiveRest
  <2>2. PICK v : v = SubSeq(wire, n + 1, Len(wire))
    OBVIOUS
  <2>3. v \in Seq(Piece)
    BY <2>2 DEF TypeOK, Piece
  <2>4. <<Rest>> \o v \in Seq(Piece)
    BY <2>3 DEF Piece
  <2> QED
    BY <1>80, <2>1, <2>2, <2>3, <2>4
<1>9. CASE ReceiveClosed
  <2>1. One(rx.msg) = 0 /\ One(rx'.msg) = 0
    BY <1>9, Taken, OneIs DEF ReceiveClosed
  <2> QED
    BY <1>9, <2>1 DEF ReceiveClosed, TypeOK, Balance, Known, KnownService
<1>10. CASE SelectMessage
  <2>1. rx.msg \in Message \cup {NilMessage} /\ One(loop.msg) = 0 /\ One(rx'.msg) = 0
    BY <1>10, Taken, OneIs DEF SelectMessage, Reading
  <2>2. ~misread => One(loop'.msg) = One(rx.msg)
    <3> SUFFICES ASSUME ~misread PROVE One(loop'.msg) = One(rx.msg)
      OBVIOUS
    <3>1. rx.msg.kind = "request" => service # "none"
      <4> SUFFICES ASSUME One(rx.msg) = 1 PROVE events["request"] > 0
        BY OneIs DEF KnownService
      <4> QED
        BY BalanceNumbers DEF Balance, Known
    <3>2. CASE loop' = Select
      <4>1. rx.msg.kind # "request"
        BY <1>10, <3>1, <3>2 DEF SelectMessage, Select, NilMessage
      <4> QED
        BY <3>2, <4>1, OneIs DEF Select
    <3>3. CASE loop' = [at |-> "handle", msg |-> rx.msg]
      BY <3>3
    <3> QED
      BY <1>10, <3>2, <3>3 DEF SelectMessage
  <2>3. TypeOK'
    <3>1. {misread', closeCh', quit', quitCh', panicked'} \subseteq BOOLEAN
      BY <1>10, Zenon DEF SelectMessage, TypeOK
    <3>2. loop' = Select \/ (rx.msg \in Message /\ loop' = [at |-> "handle", msg |-> rx.msg])
      BY <1>10, <2>1 DEF SelectMessage
    <3> QED
      BY <1>10, <3>1, <3>2 DEF SelectMessage, Select, Reading, TypeOK
  <2>4. Balance'
    BY <1>10, <2>1, <2>2, BalanceNumbers DEF SelectMessage, Balance, Known
  <2> QED
    BY <1>10, <2>3, <2>4 DEF SelectMessage, KnownService
<1>11. CASE SelectClosed \/ SelectQuit \/ CloseQuit
  <2>1. One(loop.msg) = 0 /\ One(loop'.msg) = 0
    BY <1>11, Taken, OneIs DEF SelectClosed, SelectQuit, CloseQuit, Exited
  <2>2. TypeOK'
    <3>1. {misread', closeCh', quit', quitCh', panicked'} \subseteq BOOLEAN
      BY <1>11, Zenon DEF SelectClosed, SelectQuit, CloseQuit, TypeOK
    <3> QED
      BY <1>11, <3>1 DEF SelectClosed, SelectQuit, CloseQuit, Exited, TypeOK
  <2> QED
    BY <1>11, <2>1, <2>2 DEF SelectClosed, SelectQuit, CloseQuit, Balance, Known, KnownService
<1>12. CASE HandleReply \/ HandlePublish \/ PublishCloses
  <2>1. One(loop.msg) = 0 /\ One(loop'.msg) = 0
    BY <1>12, OneIs DEF HandleReply, HandlePublish, PublishCloses, Handles, Select
  <2>2. TypeOK'
    <3>1. {misread', closeCh', quit', quitCh', panicked'} \subseteq BOOLEAN
      BY <1>12, Zenon DEF HandleReply, HandlePublish, PublishCloses, TypeOK
    <3>2. loop' \in [at : {"select"}, msg : {Nothing}] /\ closes' \in Nat
      BY <1>12 DEF HandleReply, HandlePublish, PublishCloses, Select, TypeOK
    <3>3. caller' \in [Req -> {"idle", "stored", "waiting", "returned"}]
      BY <1>12 DEF HandleReply, HandlePublish, PublishCloses, TypeOK
    <3>4. UNCHANGED <<broker, input, inFlight, closer, serves>>
      BY <1>12 DEF HandleReply, HandlePublish, PublishCloses
    <3> QED
      BY <3>1, <3>2, <3>3, <3>4 DEF TypeOK
  <2> QED
    BY <1>12, <2>1, <2>2 DEF HandleReply, HandlePublish, PublishCloses, Balance, Known, KnownService
<1>13. CASE HandleRequest
  <2>1. One(loop.msg) = 1 /\ One(loop'.msg) = 0
    BY <1>13, OneIs DEF HandleRequest, Handles, Select
  <2>2. Balance' /\ replied' \in Nat
    BY <1>13, <2>1, BalanceNumbers DEF HandleRequest, Balance, Known
  <2>3. TypeOK'
    BY <1>13, <2>2 DEF HandleRequest, Select, TypeOK
  <2> QED
    BY <1>13, <2>2, <2>3 DEF HandleRequest, KnownService
<1>14. ASSUME NEW k \in Closer, CloseSets(k) \/ CloseCloses(k) PROVE Counted'
  <2>1. {misread', closeCh', quit', quitCh', panicked'} \subseteq BOOLEAN
    BY <1>14, Zenon DEF CloseSets, CloseCloses, TypeOK
  <2>2. closer' \in [Closer -> {"idle", "set", "done"}] /\ closes' \in Nat
    <3>1. CASE CloseSets(k)
      BY <3>1 DEF CloseSets, TypeOK
    <3>2. CASE CloseCloses(k)
      BY <3>2 DEF CloseCloses, TypeOK
    <3> QED
      BY <1>14, <3>1, <3>2
  <2>3. UNCHANGED <<broker, input, calls, serves, loop>>
    BY <1>14 DEF CloseSets, CloseCloses
  <2> QED
    BY <2>1, <2>2, <2>3 DEF TypeOK, Balance, Known, KnownService
<1> QED
  BY <1>1, <1>20, <1>3, <1>4, <1>5, <1>6, <1>7, <1>70, <1>8, <1>81, <1>82, <1>9, <1>10, <1>11, <1>12, <1>13, <1>14,
     Steps

-----------------------------------------------------------------------------
(***************************************************************************)
(* The replies on their way.                                               *)
(***************************************************************************)
Kept == Unasked /\ Tracked /\ ReplyKept

\* Whose: a message that is not a reply is on its way to no call.
LEMMA Whose ==
  /\ \A m \in Message \cup {Nothing, Rest, NilMessage} : m.kind # "reply" => m.id \notin Req
  /\ \A m \in Message : m.kind = "reply" => m.id \in Req
  /\ NilMessage.kind # "reply" /\ NilMessage \notin Message
  BY ConstAssumption DEF Message, Nothing, Rest, NilMessage

\* KeptStep: no step loses a reply a call waits for, but a cut or a misread.
LEMMA KeptStep == TypeOK /\ Kept /\ [Next]_vars => Kept'
<1> SUFFICES ASSUME TypeOK, Kept, [Next]_vars PROVE Kept'
  OBVIOUS
<1> USE DEF Kept, broker, input, calls, ends, serves
<1>1. CASE UNCHANGED vars
  BY <1>1 DEF vars, Unasked, Tracked, ReplyKept, InTransit
<1>2. ASSUME NEW q \in Req, Call(q), UNCHANGED <<broker, input, loop.msg>>,
             loop.at # "exited" \/ loop'.at = "exited"
      PROVE  Kept'
  <2>1. /\ caller[q] \in {"idle", "stored"} /\ answers[q] = 0
        /\ UNCHANGED <<wire, remote, answers, rx, misread>>
        /\ inFlight' = inFlight \cup {q}
        /\ \A r \in Req : r # q => caller'[r] = caller[r]
    BY <1>2 DEF Call, SendFrom, Unasked, Tracked, TypeOK
  <2>2. Unasked' /\ Tracked'
    BY <2>1 DEF Unasked, Tracked
  <2>3. ASSUME NEW r \in Req, caller'[r] = "waiting", answers'[r] > 0, loop'.at # "exited",
               ~misread, remote # "cut"
        PROVE  InTransit(r)'
    <3>1. r # q /\ caller[r] = "waiting" /\ answers[r] > 0
      BY <2>1, <2>3
    <3>2. InTransit(r)
      BY <1>2, <2>3, <3>1 DEF ReplyKept
    <3> QED
      BY <1>2, <2>1, <3>2 DEF InTransit
  <2> QED
    BY <2>1, <2>2, <2>3 DEF ReplyKept
<1>3. ASSUME NEW q \in Req, BrokerReplies(q) PROVE Kept'
  <2> DEFINE m == [kind |-> "reply", id |-> q]
  <2>1. /\ m \in Piece /\ m.id = q /\ wire \in Seq(Piece)
        /\ caller[q] \notin {"idle", "stored"}
        /\ UNCHANGED <<caller, inFlight, rx, misread, loop, remote>>
        /\ wire' = Append(wire, m)
        /\ \A r \in Req : r # q => answers'[r] = answers[r]
    BY <1>3 DEF BrokerReplies, SendToClient, TypeOK, Message, Piece
  <2>2. /\ Len(wire) \in Nat /\ Len(wire') = Len(wire) + 1 /\ wire'[Len(wire) + 1].id = q
        /\ \A n \in 1..Len(wire) : wire'[n] = wire[n]
    BY <2>1
  <2>3. Unasked' /\ Tracked'
    BY <2>1 DEF Unasked, Tracked
  <2>4. ASSUME NEW r \in Req, caller'[r] = "waiting", answers'[r] > 0, loop'.at # "exited",
               ~misread, remote # "cut"
        PROVE  InTransit(r)'
    <3>1. CASE r = q
      BY <2>2, <3>1 DEF InTransit
    <3>2. CASE r # q
      <4>1. InTransit(r)
        BY <2>1, <2>4, <3>2 DEF ReplyKept
      <4> QED
        BY <2>1, <2>2, <4>1 DEF InTransit
    <3> QED
      BY <3>1, <3>2
  <2> QED
    BY <2>1, <2>3, <2>4 DEF ReplyKept
<1>4. ASSUME NEW kind \in {"publish", "request"}, BrokerSends(kind) PROVE Kept'
  <2> DEFINE m == [kind |-> kind, id |-> None]
  <2>1. /\ m \in Piece /\ wire \in Seq(Piece)
        /\ UNCHANGED <<caller, inFlight, answers, rx, misread, loop, remote>>
        /\ wire' = Append(wire, m)
    BY <1>4 DEF BrokerSends, SendToClient, TypeOK, Message, Piece
  <2>2. /\ Len(wire) \in Nat /\ Len(wire') = Len(wire) + 1
        /\ \A n \in 1..Len(wire) : wire'[n] = wire[n]
    BY <2>1
  <2>3. Unasked' /\ Tracked'
    BY <2>1 DEF Unasked, Tracked
  <2>4. \A r \in Req : InTransit(r) => InTransit(r)'
    BY <2>1, <2>2 DEF InTransit
  <2> QED
    BY <2>1, <2>3, <2>4 DEF ReplyKept
<1>5. CASE Receive
  <2>1. /\ wire \in Seq(Piece) /\ wire # <<>> /\ rx.msg = Nothing
        /\ rx'.msg = Head(wire) /\ wire' = Tail(wire)
        /\ UNCHANGED <<caller, inFlight, answers, loop, misread, remote>>
    BY <1>5, Taken DEF Receive, Offer, TypeOK, Piece
  <2>2. /\ Len(wire) \in Nat \ {0} /\ Len(wire') = Len(wire) - 1 /\ rx'.msg = wire[1]
        /\ \A n \in 1..Len(wire') : wire'[n] = wire[n + 1]
    BY <2>1
  <2>3. Unasked' /\ Tracked'
    BY <2>1 DEF Unasked, Tracked
  <2>4. ASSUME NEW r \in Req, InTransit(r) PROVE InTransit(r)'
    <3>1. CASE rx.msg.id = r
      BY <2>1, <3>1, Whose DEF Nothing
    <3>2. CASE loop.msg.id = r
      BY <2>1, <3>2 DEF InTransit
    <3>3. ASSUME NEW n \in 1..Len(wire), wire[n].id = r PROVE InTransit(r)'
      <4>1. CASE n = 1
        BY <2>2, <3>3, <4>1 DEF InTransit
      <4>2. CASE n # 1
        <5>1. n - 1 \in 1..Len(wire') /\ (n - 1) + 1 = n
          BY <2>2, <4>2
        <5>2. wire'[n - 1].id = r
          BY <2>2, <3>3, <5>1
        <5> QED
          BY <5>1, <5>2 DEF InTransit
      <4> QED
        BY <4>1, <4>2
    <3> QED
      BY <2>4, <3>1, <3>2, <3>3 DEF InTransit
  <2> QED
    BY <2>1, <2>3, <2>4 DEF ReplyKept
<1>6. CASE SelectMessage
  <2>1. /\ rx.msg \in Message \cup {NilMessage} /\ loop.msg = Nothing /\ loop.at = "select"
        /\ rx'.msg = Nothing
        /\ UNCHANGED <<wire, remote, caller, inFlight, answers, misread>>
    BY <1>6, Taken DEF SelectMessage, Reading
  <2>2. Unasked' /\ Tracked'
    BY <2>1 DEF Unasked, Tracked
  <2>3. ASSUME NEW r \in Req, caller[r] = "waiting", InTransit(r) PROVE InTransit(r)'
    <3>1. CASE rx.msg.id = r
      <4>1. rx.msg.kind = "reply" /\ rx.msg.id \in inFlight
        BY <2>1, <2>3, <3>1, Whose DEF Tracked
      <4>2. loop'.msg = rx.msg
        BY <1>6, <4>1, Whose DEF SelectMessage
      <4> QED
        BY <3>1, <4>2 DEF InTransit
    <3>2. CASE loop.msg.id = r
      BY <2>1, <3>2, Whose DEF Nothing
    <3>3. CASE \E n \in 1..Len(wire) : wire[n].id = r
      BY <2>1, <3>3 DEF InTransit
    <3> QED
      BY <2>3, <3>1, <3>2, <3>3 DEF InTransit
  <2> QED
    BY <2>1, <2>2, <2>3 DEF ReplyKept
<1>7. CASE HandleReply
  <2>1. /\ loop.msg \in Message /\ loop.msg.kind = "reply" /\ loop.msg.id \in Req
        /\ loop.at = "handle"
        /\ UNCHANGED <<wire, rx, inFlight, answers, misread, remote>>
        /\ caller[loop.msg.id] = "waiting"
        /\ caller' = [caller EXCEPT ![loop.msg.id] = "returned"]
    BY <1>7, Taken, Whose DEF HandleReply, Handles
  <2>2. /\ caller'[loop.msg.id] = "returned"
        /\ \A r \in Req : r # loop.msg.id => caller'[r] = caller[r]
    BY <2>1 DEF TypeOK
  <2>3. Unasked' /\ Tracked'
    BY <2>1, <2>2 DEF Unasked, Tracked
  <2>4. ASSUME NEW r \in Req, r # loop.msg.id, InTransit(r) PROVE InTransit(r)'
    BY <2>1, <2>4 DEF InTransit
  <2> QED
    BY <2>1, <2>2, <2>3, <2>4 DEF ReplyKept
<1>8. CASE HandlePublish \/ PublishCloses \/ HandleRequest
  <2>1. /\ loop.msg \in Message /\ loop.msg.kind # "reply" /\ loop.at = "handle"
        /\ UNCHANGED <<wire, rx, inFlight, answers, caller, misread, remote>>
    BY <1>8, Taken DEF HandlePublish, PublishCloses, HandleRequest, Handles
  <2>2. Unasked' /\ Tracked'
    BY <2>1 DEF Unasked, Tracked
  <2>3. \A r \in Req : InTransit(r) => InTransit(r)'
    BY <2>1, Whose DEF InTransit
  <2> QED
    BY <2>1, <2>2, <2>3 DEF ReplyKept
<1>9. CASE SelectClosed \/ SelectQuit \/ CloseQuit
  <2>1. /\ loop.msg = Nothing /\ loop.at # "exited"
        /\ UNCHANGED <<wire, rx, inFlight, answers, caller, misread, remote>>
    BY <1>9, Taken DEF SelectClosed, SelectQuit, CloseQuit
  <2>2. Unasked' /\ Tracked'
    BY <2>1 DEF Unasked, Tracked
  <2>3. \A r \in Req : InTransit(r) => InTransit(r)'
    BY <2>1, Whose DEF InTransit, Nothing
  <2> QED
    BY <2>1, <2>2, <2>3 DEF ReplyKept
<1>10. CASE ReceiveClosed
  <2>1. /\ rx.msg = Nothing /\ UNCHANGED <<wire, loop, inFlight, answers, caller, misread, remote>>
    BY <1>10, Taken DEF ReceiveClosed
  <2>2. \A r \in Req : InTransit(r) => InTransit(r)'
    BY <2>1, Whose DEF InTransit, Nothing
  <2> QED
    BY <2>1, <2>2 DEF Unasked, Tracked, ReplyKept
<1>11. ASSUME UNCHANGED <<wire, rx, loop, inFlight, answers, caller, misread>>,
              remote = "cut" => remote' = "cut"
       PROVE  Kept'
  BY <1>11 DEF Unasked, Tracked, ReplyKept, InTransit
<1>12. CASE RegisterStores \/ RegisterSends \/ BrokerCloses
  BY <1>11, <1>12 DEF RegisterStores, RegisterSends, BrokerCloses
<1>16. ASSUME misread' \/ remote' = "cut", UNCHANGED <<answers, caller, inFlight>> PROVE Kept'
  BY <1>16 DEF Unasked, Tracked, ReplyKept
<1>17. CASE ConnectionCut \/ ReceiveShort \/ ReceiveRest
  BY <1>16, <1>17 DEF ConnectionCut, ReceiveShort, ReceiveRest, Misreads
<1>13. ASSUME NEW k \in Closer, CloseSets(k) \/ CloseCloses(k) PROVE Kept'
  BY <1>11, <1>13 DEF CloseSets, CloseCloses
<1>14. ASSUME NEW q \in Req, SendRequest(q) PROVE Kept'
  BY <1>2, <1>14 DEF SendRequest
<1>15. ASSUME NEW q \in Req, HandlerCalls(q) PROVE Kept'
  <2>1. loop.at # "exited" /\ loop'.msg = loop.msg
    BY <1>15, Taken DEF HandlerCalls, Handles, TypeOK
  <2> QED
    BY <1>2, <1>15, <2>1 DEF HandlerCalls
<1> QED
  BY <1>1, <1>3, <1>4, <1>5, <1>6, <1>7, <1>8, <1>9, <1>10, <1>12, <1>13, <1>14, <1>15, <1>17, Steps

-----------------------------------------------------------------------------
(***************************************************************************)
(* The ends of the client.                                                 *)
(***************************************************************************)
Accounted == Ends /\ NoSpontaneousPanic

\* AccountedInit: at first nothing is closed.
LEMMA AccountedInit == Init => Accounted
  BY DEF Init, Accounted, Ends, NoSpontaneousPanic, Nothing, NilMessage

\* AccountedStep: no step closes quitCh, or closes it again, without a cause.
LEMMA AccountedStep == TypeOK /\ Accounted /\ [Next]_vars => Accounted'
<1> SUFFICES ASSUME TypeOK, Accounted, [Next]_vars PROVE Accounted'
  OBVIOUS
<1> USE DEF Accounted, broker, input, calls, ends, serves
<1>0. closes \in Nat /\ closer \in [Closer -> {"idle", "set", "done"}]
      /\ remote \in {"open", "closed", "cut"}
  BY DEF TypeOK
<1>1. CASE UNCHANGED vars
  BY <1>1 DEF vars, Ends, NoSpontaneousPanic
<1>2. ASSUME ~panicked, UNCHANGED <<closeCh, quitCh, closer, closes, remote>>,
             panicked' => remote # "open" /\ (misread' \/ \E r \in Req : caller'[r] = "stored"),
             loop'.at = "closing" => remote # "open",
             loop.at = "exited" => loop'.at = "exited",
             rx'.msg = NilMessage => misread' /\ remote # "open"
      PROVE  Accounted'
  BY <1>2 DEF Ends, NoSpontaneousPanic
<1>3. ASSUME NEW q \in Req, ~panicked, Call(q), UNCHANGED <<broker, input, ends>>,
             loop'.at # "closing", loop.at = "exited" => loop'.at = "exited"
      PROVE  Accounted'
  <2>1. panicked' => remote # "open" /\ \E r \in Req : caller'[r] = "stored"
    BY <1>3 DEF Call, SendFrom
  <2>2. rx'.msg = NilMessage => misread' /\ remote # "open"
    BY <1>3 DEF Ends
  <2> QED
    BY <1>2, <1>3, <2>1, <2>2
<1>4. ASSUME NEW q \in Req, ~panicked, SendRequest(q) PROVE Accounted'
  <2>1. panicked' => remote # "open" /\ \E r \in Req : caller'[r] = "stored"
    BY <1>4 DEF SendRequest, Call, SendFrom
  <2> QED
    BY <1>2, <1>4, <2>1 DEF SendRequest, Ends
<1>5. ASSUME NEW q \in Req, ~panicked, HandlerCalls(q) PROVE Accounted'
  <2>1. loop'.at = "nested" /\ loop.at # "exited"
    BY <1>5 DEF HandlerCalls, Handles, TypeOK
  <2> QED
    BY <1>3, <1>5, <2>1 DEF HandlerCalls
<1>6. ASSUME NEW q \in Req, ~panicked, BrokerReplies(q) PROVE Accounted'
  BY <1>2, <1>6 DEF BrokerReplies, Ends
<1>7. ASSUME NEW kind \in {"publish", "request"}, ~panicked, BrokerSends(kind)
      PROVE  Accounted'
  BY <1>2, <1>7 DEF BrokerSends, Ends
<1>8. ASSUME ~panicked, RegisterStores \/ RegisterSends PROVE Accounted'
  BY <1>2, <1>8 DEF RegisterStores, RegisterSends, Ends
<1>80. ASSUME ~panicked, Receive PROVE Accounted'
  <2>1. rx'.msg \in Message
    BY <1>80 DEF Receive, Offer, TypeOK
  <2>2. rx'.msg # NilMessage
    BY <2>1, Whose
  <2> QED
    BY <1>2, <1>80, <2>2 DEF Receive, Ends
<1>81. ASSUME ~panicked, NEW left, Misreads(left) PROVE Accounted'
  <2>1. misread' /\ UNCHANGED <<remote, loop, panicked, closeCh, quitCh, closer, closes>>
    BY <1>81 DEF Misreads
  <2>2. remote = "open" => rx'.msg \in Message \cup {Nothing}
    BY <1>81 DEF Misreads, Offer, Reading
  <2>3. rx'.msg = NilMessage => remote # "open"
    BY <2>2, Whose DEF Nothing, NilMessage
  <2> QED
    BY <1>2, <1>81, <2>1, <2>3 DEF Ends
<1>82. ASSUME ~panicked, ReceiveShort \/ ReceiveRest PROVE Accounted'
  BY <1>81, <1>82 DEF ReceiveShort, ReceiveRest
<1>9. ASSUME ~panicked, BrokerCloses \/ ConnectionCut PROVE Accounted'
  <2>1. /\ remote' # "open" /\ ~panicked'
        /\ UNCHANGED <<rx, misread, closeCh, quitCh, closer, closes, loop>>
    BY <1>9 DEF BrokerCloses, ConnectionCut
  <2> QED
    BY <2>1 DEF Ends, NoSpontaneousPanic
<1>10. ASSUME ~panicked, ReceiveClosed PROVE Accounted'
  <2>1. rx'.msg = Nothing
    BY <1>10 DEF ReceiveClosed
  <2>2. rx'.msg # NilMessage
    BY <2>1 DEF Nothing, NilMessage
  <2> QED
    BY <1>10, <2>2 DEF ReceiveClosed, Ends, NoSpontaneousPanic
<1>11. ASSUME ~panicked, SelectClosed \/ SelectQuit PROVE Accounted'
  <2>1. loop'.at = "closing" => remote # "open"
    BY <1>11 DEF SelectClosed, SelectQuit, Exited, Ends
  <2>2. loop.at = "select" /\ (rx'.msg = NilMessage => misread' /\ remote # "open") /\ ~panicked'
    BY <1>11 DEF SelectClosed, SelectQuit, Ends
  <2> QED
    BY <1>2, <1>11, <2>1, <2>2 DEF SelectClosed, SelectQuit
<1>110. ASSUME ~panicked, SelectMessage PROVE Accounted'
  <2>1. panicked' => misread' /\ remote # "open"
    BY <1>110 DEF SelectMessage, Ends
  <2>2. rx'.msg # NilMessage
    BY <1>110 DEF SelectMessage, Reading, Nothing, NilMessage
  <2>3. loop'.at # "closing" /\ loop.at # "exited"
    BY <1>110 DEF SelectMessage, Select
  <2> QED
    BY <1>2, <1>110, <2>1, <2>2, <2>3 DEF SelectMessage
<1>12. ASSUME ~panicked, HandleReply \/ HandlePublish \/ HandleRequest PROVE Accounted'
  <2>1. loop'.at = "select" /\ loop.at # "exited"
    BY <1>12 DEF HandleReply, HandlePublish, HandleRequest, Select, Handles
  <2>2. rx'.msg = NilMessage => misread' /\ remote # "open"
    BY <1>12 DEF HandleReply, HandlePublish, HandleRequest, Ends
  <2> QED
    BY <1>2, <1>12, <2>1, <2>2 DEF HandleReply, HandlePublish, HandleRequest
<1>13. CASE PublishCloses
  <2>1. /\ closes' = closes + 1 /\ panicked' = quitCh /\ loop'.at = "select"
        /\ UNCHANGED <<remote, closeCh, closer, rx, misread>>
    BY <1>13 DEF PublishCloses, Select
  <2> QED
    BY <1>0, <2>1 DEF Ends, NoSpontaneousPanic
<1>14. CASE CloseQuit
  <2>1. /\ remote # "open" /\ loop'.at = "exited" /\ (panicked' => closes > 0)
        /\ UNCHANGED <<remote, closer, closes, closeCh, rx, misread>>
    BY <1>14 DEF CloseQuit, Exited, Ends
  <2> QED
    BY <2>1 DEF Ends, NoSpontaneousPanic
<1>15. ASSUME NEW k \in Closer, ~panicked, CloseSets(k) PROVE Accounted'
  <2>1. /\ closes' = closes + 1 /\ ~panicked' /\ closer[k] = "idle" /\ closer'[k] = "set"
        /\ \A j \in Closer : j # k => closer'[j] = closer[j]
        /\ UNCHANGED <<remote, closeCh, quitCh, loop, rx, misread>>
    BY <1>0, <1>15 DEF CloseSets
  <2> QED
    BY <1>0, <2>1 DEF Ends, NoSpontaneousPanic
<1>16. ASSUME NEW k \in Closer, ~panicked, CloseCloses(k) PROVE Accounted'
  <2>1. /\ panicked' = quitCh /\ closer[k] = "set" /\ closer'[k] = "done"
        /\ \A j \in Closer : j # k => closer'[j] = closer[j]
        /\ UNCHANGED <<remote, closeCh, loop, closes, rx, misread>>
    BY <1>0, <1>16 DEF CloseCloses
  <2>2. closes > 0 /\ (quitCh => remote # "open" \/ closes > 1)
    BY <2>1 DEF Ends
  <2>3. \A j \in Closer : closer'[j] = "set" => closes > 1
    BY <2>1 DEF Ends
  <2> QED
    BY <1>0, <2>1, <2>2, <2>3 DEF Ends, NoSpontaneousPanic
<1> QED
  BY <1>1, <1>4, <1>5, <1>6, <1>7, <1>8, <1>80, <1>82, <1>9, <1>10, <1>11, <1>110, <1>12, <1>13, <1>14, <1>15, <1>16,
     Steps

-----------------------------------------------------------------------------
(***************************************************************************)
(* The theorems.                                                           *)
(***************************************************************************)

\* Invariance: IInv is an invariant of the client library.
LEMMA Invariance == Spec => []IInv
<1>1. Init => IInv
  BY CountedInit, AccountedInit
     DEF Init, IInv, Counted, Accounted, Unasked, Tracked, ReplyKept
<1>2. IInv /\ [Next]_vars => IInv'
  BY CountedStep, KeptStep, AccountedStep DEF IInv, Counted, Kept, Accounted
<1> QED
  BY <1>1, <1>2, PTL DEF Spec

\* TypeCorrect: the variables keep their types, also when the stream is out of
\* step with the messages.
THEOREM TypeCorrect == Spec => []TypeOK
<1>1. IInv => TypeOK
  BY DEF IInv
<1> QED
  BY <1>1, Invariance, PTL

\* ReplyIsKept: however many calls wait, and whatever handlers do, the receiver
\* and the message loop lose no reply to a call that waits for it, as long as the
\* receiver gets whole messages and the connection is not cut.
THEOREM ReplyIsKept == Spec => []ReplyKept
<1>1. IInv => ReplyKept
  BY DEF IInv
<1> QED
  BY <1>1, Invariance, PTL

\* EachServedOnce: as long as the receiver gets whole messages, no service request
\* is handled twice, and while the connection is open every one is on its way to
\* the handler, being handled, or replied to once.
THEOREM EachServedOnce == Spec => []ServedOnce
<1>1. IInv => ServedOnce
  BY ServedOnceIs DEF IInv, ServedOnce, Balance, Known
<1> QED
  BY <1>1, Invariance, PTL

\* NoPanicByItself: the client library panics only if Close is called a second
\* time; or, once the connection is closed or cut, if Close is called, a request is
\* being sent, or the receiver got a part of a message.
THEOREM NoPanicByItself == Spec => []NoSpontaneousPanic
<1>1. IInv => NoSpontaneousPanic
  BY DEF IInv
<1> QED
  BY <1>1, Invariance, PTL

-----------------------------------------------------------------------------
(***************************************************************************)
(* The list of subscribers, and the web sockets that use it.  Its          *)
(* variables are others than those of the calls above.                     *)
(***************************************************************************)

-----------------------------------------------------------------------------
(***************************************************************************)
(* What a list of subscribers is to be.  The first m elements of the array *)
(* A are members of D, each once; R are the members whose removal was      *)
(* asked for: those of them that are still in the list are at the indices  *)
(* I, and all other members of D are in the list.                          *)
(***************************************************************************)
Entries(A, m, D, R, I) ==
  /\ \A i \in 1..m : A[i] \in D
  /\ \A i, j \in 1..m : A[i] = A[j] => i = j
  /\ \A s \in D : s \in R \/ \E i \in 1..m : A[i] = s
  /\ \A i \in 1..m : A[i] \in R <=> i \in I

\* EntriesAgree: another array with the same beginning, as Grown makes one.
LEMMA EntriesAgree ==
  ASSUME NEW A, NEW B, NEW m \in Nat, NEW D, NEW R, NEW I,
         Entries(A, m, D, R, I), \A i \in 1..m : B[i] = A[i]
  PROVE  Entries(B, m, D, R, I)
BY DEF Entries

\* EntriesAdd: append, of an element that was not there.
LEMMA EntriesAdd ==
  ASSUME NEW A, NEW B, NEW m \in Nat, NEW D, NEW R, NEW I, NEW s,
         Entries(A, m, D, R, I), \A i \in 1..m : B[i] = A[i],
         B[m + 1] = s, s \notin D, R \subseteq D, I \subseteq 1..m
  PROVE  Entries(B, m + 1, D \cup {s}, R, I)
<1>1. \A i \in 1..(m + 1) : i \in 1..m \/ i = m + 1
  OBVIOUS
<1>2. m + 1 \in 1..(m + 1) /\ m + 1 \notin 1..m /\ 1..m \subseteq 1..(m + 1)
  OBVIOUS
<1>3. \A i \in 1..m : B[i] \in D /\ B[i] # s
  BY DEF Entries
<1>4. \A i \in 1..(m + 1) : B[i] \in D \cup {s}
  BY <1>1, <1>3
<1>5. \A i, j \in 1..(m + 1) : B[i] = B[j] => i = j
  BY <1>1, <1>3 DEF Entries
<1>6. \A d \in D \cup {s} : d \in R \/ \E i \in 1..(m + 1) : B[i] = d
  BY <1>2 DEF Entries
<1>7. \A i \in 1..(m + 1) : B[i] \in R <=> i \in I
  BY <1>1, <1>2 DEF Entries
<1> QED BY <1>4, <1>5, <1>6, <1>7 DEF Entries

\* EntriesMark: a handler asks for the removal of its subscriber.
LEMMA EntriesMark ==
  ASSUME NEW A, NEW m \in Nat, NEW D, NEW R, NEW I, NEW x \in 1..m,
         Entries(A, m, D, R, I)
  PROVE  Entries(A, m, D, R \cup {A[x]}, I \cup {x})
BY DEF Entries

\* EntriesSwap: the last element takes the place of the one with the highest of
\* the indices, which leaves the elements at the others where they are.
LEMMA EntriesSwap ==
  ASSUME NEW A, NEW B, NEW m \in Nat, NEW D, NEW R, NEW I, NEW x \in 1..m,
         Entries(A, m, D, R, I), x \in I, \A y \in I : y <= x,
         \A i \in 1..m : B[i] = IF i = x THEN A[m] ELSE A[i]
  PROVE  Entries(B, m - 1, D, R, I \ {x})
<1>1. /\ m \in 1..m /\ m - 1 \in Nat
      /\ \A i \in 1..(m - 1) : i \in 1..m /\ i # m
      /\ \A i \in 1..m : i \in 1..(m - 1) \/ i = m
  OBVIOUS
<1>2. \A i \in 1..(m - 1) : B[i] \in D
  BY <1>1 DEF Entries
<1>3. \A i, j \in 1..(m - 1) : B[i] = B[j] => i = j
  BY <1>1 DEF Entries
<1>4. ASSUME NEW s \in D, s \notin R PROVE \E i \in 1..(m - 1) : B[i] = s
  <2>1. PICK i \in 1..m : A[i] = s
    BY <1>4 DEF Entries
  <2>2. i # x
    BY <1>4, <2>1 DEF Entries
  <2>3. CASE i = m
    <3>1. x \in 1..(m - 1) /\ B[x] = s
      BY <1>1, <2>1, <2>2, <2>3
    <3> QED BY <3>1
  <2>4. CASE i # m
    <3>1. i \in 1..(m - 1) /\ B[i] = s
      BY <1>1, <2>1, <2>2, <2>4
    <3> QED BY <3>1
  <2> QED BY <2>3, <2>4
<1>5. ASSUME NEW i \in 1..(m - 1) PROVE B[i] \in R <=> i \in I \ {x}
  <2>1. CASE i # x
    BY <1>1, <2>1 DEF Entries
  <2>2. CASE i = x
    <3>1. m \notin I /\ B[i] = A[m]
      BY <1>1, <2>2
    <3> QED BY <1>1, <2>2, <3>1 DEF Entries
  <2> QED BY <2>1, <2>2
<1> QED BY <1>2, <1>3, <1>4, <1>5 DEF Entries

\* EntriesCount: with nothing to remove, the list has as many elements as there
\* are members that did not ask to be removed.
LEMMA EntriesCount ==
  ASSUME NEW A, NEW m \in Nat, NEW D, NEW R, NEW I, Entries(A, m, D, R, I), I = {}
  PROVE  {A[i] : i \in 1..m} = D \ R /\ Cardinality(D \ R) = m
<1>1. \A i \in 1..m : A[i] \in D \ R
  BY DEF Entries
<1>2. \A s \in D \ R : \E i \in 1..m : A[i] = s
  BY DEF Entries
<1> DEFINE f == [i \in 1..m |-> A[i]]
<1>3. f \in [1..m -> D \ R] /\ \A i \in 1..m : f[i] = A[i]
  BY <1>1
<1>4. \A i, j \in 1..m : f[i] = f[j] => i = j
  BY <1>3 DEF Entries
<1> HIDE DEF f
<1>5. f \in Bijection(1..m, D \ R)
  BY <1>2, <1>3, <1>4 DEF Bijection, Injection, Surjection, IsInjective
<1>6. Cardinality(D \ R) = m
  BY <1>5, FS_CountingElements DEF ExistsBijection
<1> QED BY <1>1, <1>2, <1>6

-----------------------------------------------------------------------------
(***************************************************************************)
(* The indices to remove, which handlePublish keeps from the highest down. *)
(***************************************************************************)
Falling(r) == \A j, k \in 1..Len(r) : j < k => r[j] > r[k]

Indices(r) == {r[j] : j \in 1..Len(r)}

\* IndexFirst: handlePublish puts the index it has come to before the lower ones.
LEMMA IndexFirst ==
  ASSUME NEW r \in Seq(Nat), Falling(r), NEW x \in Nat, \A j \in 1..Len(r) : r[j] < x,
         NEW q, q = <<x>> \o r
  PROVE  /\ q \in Seq(Nat) /\ Falling(q) /\ Indices(q) = Indices(r) \cup {x}
         /\ \A j \in 1..Len(q) : q[j] <= x
<1>1. /\ <<x>> \in Seq(Nat) /\ Len(<<x>>) = 1 /\ <<x>>[1] = x
  OBVIOUS
<1>2. /\ q \in Seq(Nat) /\ Len(q) = 1 + Len(r) /\ Len(r) \in Nat
      /\ \A j \in 1..(1 + Len(r)) : q[j] = IF j <= 1 THEN <<x>>[j] ELSE r[j - 1]
  BY <1>1, ConcatProperties
<1>3. q[1] = x /\ 1 \in 1..Len(q)
  BY <1>1, <1>2
<1>4. \A j \in 1..Len(q) : j = 1 \/ (j - 1 \in 1..Len(r) /\ q[j] = r[j - 1])
  BY <1>2
<1>5. \A j \in 1..Len(r) : j + 1 \in 1..Len(q) /\ q[j + 1] = r[j]
  BY <1>2
<1>6. \A j \in 1..Len(r) : r[j] \in Nat
  OBVIOUS
<1>7. Falling(q)
  <2> SUFFICES ASSUME NEW j \in 1..Len(q), NEW k \in 1..Len(q), j < k PROVE q[j] > q[k]
    BY DEF Falling
  <2>1. k # 1 /\ k - 1 \in 1..Len(r) /\ q[k] = r[k - 1]
    BY <1>2, <1>4
  <2>2. CASE j = 1
    BY <1>3, <1>6, <2>1, <2>2
  <2>3. CASE j # 1
    <3>1. j - 1 \in 1..Len(r) /\ q[j] = r[j - 1] /\ j - 1 < k - 1
      BY <1>4, <2>3
    <3> QED BY <2>1, <3>1 DEF Falling
  <2> QED BY <2>2, <2>3
<1>8. Indices(q) = Indices(r) \cup {x}
  <2>1. ASSUME NEW y \in Indices(q) PROVE y \in Indices(r) \cup {x}
    <3>1. PICK j \in 1..Len(q) : q[j] = y
      BY DEF Indices
    <3> QED BY <1>3, <1>4, <3>1 DEF Indices
  <2>2. ASSUME NEW y \in Indices(r) PROVE y \in Indices(q)
    <3>1. PICK j \in 1..Len(r) : r[j] = y
      BY DEF Indices
    <3> QED BY <1>5, <3>1 DEF Indices
  <2>3. x \in Indices(q)
    BY <1>3 DEF Indices
  <2> QED BY <2>1, <2>2, <2>3
<1>9. \A j \in 1..Len(q) : q[j] <= x
  BY <1>3, <1>4, <1>6
<1> QED BY <1>2, <1>7, <1>8, <1>9

\* IndexRest: the first index to remove is the highest.
LEMMA IndexRest ==
  ASSUME NEW r \in Seq(Nat), r # <<>>, Falling(r)
  PROVE  /\ Tail(r) \in Seq(Nat) /\ Falling(Tail(r)) /\ Len(Tail(r)) = Len(r) - 1
         /\ Head(r) \in Nat /\ Head(r) \in Indices(r)
         /\ Indices(Tail(r)) = Indices(r) \ {Head(r)}
         /\ \A y \in Indices(r) : y \in Nat /\ y <= Head(r)
         /\ \A y \in Indices(Tail(r)) : y < Head(r)
<1>1. PICK q, n : q = Tail(r) /\ n = Len(r)
  OBVIOUS
<1>2. /\ q \in Seq(Nat) /\ Len(q) = n - 1 /\ n \in Nat /\ n > 0 /\ Head(r) = r[1]
      /\ \A j \in 1..(n - 1) : q[j] = r[j + 1]
  BY <1>1
<1>3. \A j \in 1..n : r[j] \in Nat /\ (j = 1 \/ j - 1 \in 1..(n - 1))
  BY <1>1, <1>2
<1>4. \A j \in 1..(n - 1) : j \in 1..n /\ j + 1 \in 1..n /\ 1 \in 1..n /\ 1 < j + 1
  BY <1>2
<1>5. Falling(q)
  BY <1>1, <1>2, <1>4 DEF Falling
<1>6. \A j \in 1..n : j # 1 => r[j] < r[1]
  BY <1>1, <1>3 DEF Falling
<1>7. \A y \in Indices(q) : y \in Indices(r) /\ y < Head(r)
  <2> SUFFICES ASSUME NEW j \in 1..(n - 1) PROVE q[j] \in Indices(r) /\ q[j] < Head(r)
    BY <1>2 DEF Indices
  <2>1. q[j] = r[j + 1] /\ j + 1 \in 1..n /\ j + 1 # 1
    BY <1>2, <1>4
  <2> QED BY <1>1, <1>2, <1>6, <2>1 DEF Indices
<1>8. \A y \in Indices(r) : y \in Nat /\ (y = Head(r) \/ (y \in Indices(q) /\ y < Head(r)))
  <2> SUFFICES ASSUME NEW j \in 1..n
               PROVE  r[j] \in Nat /\ (r[j] = Head(r) \/ (r[j] \in Indices(q) /\ r[j] < Head(r)))
    BY <1>1 DEF Indices
  <2>1. CASE j = 1
    BY <1>2, <1>3, <2>1
  <2>2. CASE j # 1
    <3>1. j - 1 \in 1..(n - 1) /\ q[j - 1] = r[(j - 1) + 1] /\ (j - 1) + 1 = j
      BY <1>2, <1>3, <2>2
    <3> QED BY <1>2, <1>3, <1>6, <2>2, <3>1 DEF Indices
  <2> QED BY <2>1, <2>2
<1>9. Head(r) \in Indices(r) /\ Head(r) \in Nat
  BY <1>1, <1>2, <1>3 DEF Indices
<1>10. Indices(q) = Indices(r) \ {Head(r)}
  <2>1. \A y \in Indices(q) : y # Head(r)
    <3>1. SUFFICES ASSUME NEW y \in Indices(q), y = Head(r) PROVE FALSE
      OBVIOUS
    <3>2. y < Head(r)
      BY <1>7
    <3> QED BY <1>9, <3>1, <3>2
  <2>2. \A y \in Indices(q) : y \in Indices(r)
    BY <1>7
  <2>3. \A y \in Indices(r) : y = Head(r) \/ y \in Indices(q)
    BY <1>8
  <2> QED BY <2>1, <2>2, <2>3, Zenon
<1>11. \A y \in Indices(r) : y \in Nat /\ y <= Head(r)
  BY <1>8, <1>9
<1>12. \A y \in Indices(q) : y < Head(r)
  BY <1>7
<1> QED BY <1>1, <1>2, <1>5, <1>9, <1>10, <1>11, <1>12

\* IndexNone: with nothing to remove.
LEMMA IndexNone == Indices(<<>>) = {} /\ Falling(<<>>)
BY DEF Indices, Falling

-----------------------------------------------------------------------------
(***************************************************************************)
(* The arrays.  Element is what they hold; a store changes one element, an *)
(* append to a full slice adds an array.                                   *)
(***************************************************************************)
Element == Sub \cup {NoSub}

Heap == Seq(Seq(Element))

\* The heap g is h with x as the element l of the array a.
Stored(h, a, l, x, g) ==
  /\ g \in Heap /\ Len(g) = Len(h)
  /\ \A b \in 1..Len(h) : Len(g[b]) = Len(h[b]) /\ Len(h[b]) \in Nat
  /\ \A b \in 1..Len(h) : \A i \in 1..Len(h[b]) :
       g[b][i] = IF b = a /\ i = l THEN x ELSE h[b][i]

\* StoreIs: a store changes one element of one array.
LEMMA StoreIs ==
  ASSUME NEW h \in Heap, NEW a \in 1..Len(h), NEW l \in 1..Len(h[a]), NEW x \in Element,
         NEW g, g = [h EXCEPT ![a] = [h[a] EXCEPT ![l] = x]]
  PROVE  Stored(h, a, l, x, g)
<1>0. PICK c : c = [h[a] EXCEPT ![l] = x] /\ g = [h EXCEPT ![a] = c]
  OBVIOUS
<1>1. \A b \in 1..Len(h) : h[b] \in Seq(Element) /\ Len(h[b]) \in Nat
  BY DEF Heap
<1>2. /\ c \in Seq(Element) /\ Len(c) = Len(h[a])
      /\ \A i \in 1..Len(h[a]) : c[i] = IF i = l THEN x ELSE h[a][i]
  BY <1>0, <1>1, ExceptSeq
<1>3. /\ g \in Seq(Seq(Element)) /\ Len(g) = Len(h)
      /\ \A b \in 1..Len(h) : g[b] = IF b = a THEN c ELSE h[b]
  <2>1. PICK T : T = Seq(Element) /\ h \in Seq(T) /\ c \in T
    BY <1>2 DEF Heap
  <2>2. /\ [h EXCEPT ![a] = c] \in Seq(T) /\ Len([h EXCEPT ![a] = c]) = Len(h)
        /\ \A b \in 1..Len(h) : [h EXCEPT ![a] = c][b] = IF b = a THEN c ELSE h[b]
    BY <2>1, ExceptSeq
  <2> QED BY <1>0, <2>1, <2>2
<1> QED BY <1>1, <1>2, <1>3 DEF Stored, Heap

\* GrownIs: the array append allocates has room, and begins with the old one.
LEMMA GrownIs ==
  ASSUME NEW a \in Seq(Element), NEW b, b = Grown(a)
  PROVE  b \in Seq(Element) /\ Len(b) > Len(a) /\ \A i \in 1..Len(a) : b[i] = a[i]
<1>1. PICK n : n = IF a = <<>> THEN 1 ELSE 2 * Len(a)
  OBVIOUS
<1>2. n \in Nat /\ n > Len(a) /\ Len(a) \in Nat
  BY <1>1
<1>3. b = [i \in 1..n |-> IF i <= Len(a) THEN a[i] ELSE NoSub]
  BY <1>1 DEF Grown
<1>4. \A i \in 1..n : (IF i <= Len(a) THEN a[i] ELSE NoSub) \in Element
  BY <1>2 DEF Element
<1> QED BY <1>2, <1>3, <1>4

\* GrowIs: append's new array joins the heap, and the others stay.
LEMMA GrowIs ==
  ASSUME NEW h \in Heap, NEW a \in 1..Len(h), NEW g, g = Append(h, Grown(h[a]))
  PROVE  /\ g \in Heap /\ Len(g) = Len(h) + 1 /\ Len(h) \in Nat
         /\ \A b \in 1..Len(h) : g[b] = h[b] /\ Len(h[b]) \in Nat
         /\ Len(g[Len(h) + 1]) \in Nat /\ Len(g[Len(h) + 1]) > Len(h[a])
         /\ \A i \in 1..Len(h[a]) : g[Len(h) + 1][i] = h[a][i]
<1>1. PICK c : c = Grown(h[a])
  OBVIOUS
<1>2. \A b \in 1..Len(h) : h[b] \in Seq(Element) /\ Len(h[b]) \in Nat
  BY DEF Heap
<1>3. c \in Seq(Element) /\ Len(c) > Len(h[a]) /\ \A i \in 1..Len(h[a]) : c[i] = h[a][i]
  BY <1>1, <1>2, GrownIs
<1>4. /\ g \in Seq(Seq(Element)) /\ Len(g) = Len(h) + 1 /\ g[Len(h) + 1] = c
      /\ \A b \in 1..Len(h) : g[b] = h[b]
  BY <1>1, <1>3, AppendProperties DEF Heap
<1> QED BY <1>2, <1>3, <1>4 DEF Heap

-----------------------------------------------------------------------------
LoopType ==
  [at : {"idle", "range", "call", "signal", "copy", "shrink"}, range : Slice,
   idx : Nat, sub : Element, event : SUBSET Sub, remove : Seq(Nat)]

(***************************************************************************)
(* The invariant of the list.  Upto is how much of it is in place: one     *)
(* less than its length between the two stores of an append, and between   *)
(* the two steps of a removal.                                             *)
(***************************************************************************)
Added == {s \in Sub : append[s].at = "done"}

Storing == \E s \in Sub : append[s].at = "stored"

Upto == IF handling.at = "shrink" \/ Storing THEN slice.len - 1 ELSE slice.len

ToDrop == IF handling.at = "shrink" THEN Indices(Tail(handling.remove)) ELSE Indices(handling.remove)

Ranging == handling.at \in {"range", "call", "signal"}

Calling == handling.at \in {"call", "signal"}

InHeap(h, v) == v.arr \in 1..Len(h) /\ v.len <= Len(h[v.arr])

\* Slices stay within their arrays, whatever overlaps.
Bounds ==
  /\ InHeap(heap, slice) /\ InHeap(heap, handling.range)
  /\ \A s \in Sub : Appending(s) => InHeap(heap, append[s].slice) /\ append[s].slice.len > 0
  /\ handling.idx \in 1..(handling.range.len + 1)
  /\ Calling => handling.sub \in Sub /\ handling.idx <= handling.range.len
  /\ \A j \in 1..Len(handling.remove) : handling.remove[j] > 0
  /\ Removes => handling.remove # <<>>
  /\ handling.at = "shrink" /\ ~crashed => slice.len > 0

\* The append underway, if any, is about to extend the list as it is.
OneAppend ==
  /\ \A s, t \in Sub : Appending(s) /\ Appending(t) => s = t
  /\ \A s \in Sub : Appending(s) => ~Removes
  /\ \A s \in Sub : append[s].at \in {"read", "filled"} =>
       /\ append[s].slice.len = slice.len + 1
       /\ \A i \in 1..slice.len : heap[append[s].slice.arr][i] = heap[slice.arr][i]
  /\ \A s \in Sub : append[s].at = "stored" => append[s].slice = slice
  /\ \A s \in Sub : append[s].at = "filled" => heap[append[s].slice.arr][append[s].slice.len] = s

\* A range reads the beginning of the list, in the array it began with.
Window ==
  Ranging =>
    /\ handling.range.len <= Upto
    /\ \A i \in 1..handling.range.len : heap[handling.range.arr][i] = heap[slice.arr][i]
    /\ Calling => handling.sub = heap[handling.range.arr][handling.idx]

\* The indices to remove lie within the list, behind the range.
Marks ==
  /\ handling.at = "idle" => handling.remove = <<>>
  /\ Falling(handling.remove)
  /\ ToDrop \subseteq 1..Upto
  /\ Ranging => \A j \in 1..Len(handling.remove) : handling.remove[j] < handling.idx

Right ==
  /\ ~crashed /\ removed \subseteq Added
  /\ OneAppend /\ Window /\ Marks
  /\ Entries(heap[slice.arr], Upto, Added, removed, ToDrop)

ListInv == SubscribersOK /\ Bounds /\ (~raced => Right)

\* ListTyped: the parts of a state of the list have their types.
LEMMA ListTyped ==
  ASSUME ListInv
  PROVE  /\ heap \in Heap /\ Len(heap) \in Nat
         /\ slice.arr \in 1..Len(heap) /\ slice.len \in 0..Len(heap[slice.arr]) /\ slice \in Slice
         /\ \A a \in 1..Len(heap) : heap[a] \in Seq(Element) /\ Len(heap[a]) \in Nat
         /\ \A s \in Sub : Appending(s) =>
              /\ append[s].slice.arr \in 1..Len(heap)
              /\ append[s].slice.len \in 1..Len(heap[append[s].slice.arr])
         /\ handling.remove \in Seq(Nat) /\ handling.range.len \in Nat /\ handling.idx \in Nat
         /\ handling.range.arr \in 1..Len(heap)
         /\ handling.range.len <= Len(heap[handling.range.arr])
         /\ handling.event \subseteq Sub
<1>1. heap \in Heap /\ \A a \in 1..Len(heap) : heap[a] \in Seq(Element) /\ Len(heap[a]) \in Nat
  BY DEF ListInv, SubscribersOK, Heap, Element
<1>2. /\ slice \in Slice /\ slice.len \in Nat
      /\ \A s \in Sub : append[s].slice \in Slice /\ append[s].slice.len \in Nat
  BY DEF ListInv, SubscribersOK, Slice
<1>3. /\ handling.remove \in Seq(Nat) /\ handling.range.len \in Nat /\ handling.idx \in Nat
      /\ handling.event \subseteq Sub
  BY DEF ListInv, SubscribersOK, Slice
<1>4. /\ slice.arr \in 1..Len(heap) /\ slice.len <= Len(heap[slice.arr])
      /\ handling.range.arr \in 1..Len(heap)
      /\ handling.range.len <= Len(heap[handling.range.arr])
  BY DEF ListInv, Bounds, InHeap
<1>5. ASSUME NEW s \in Sub, Appending(s)
      PROVE  /\ append[s].slice.arr \in 1..Len(heap)
             /\ append[s].slice.len <= Len(heap[append[s].slice.arr]) /\ append[s].slice.len > 0
  BY <1>5 DEF ListInv, Bounds, InHeap
<1>6. Len(heap) \in Nat
  BY <1>1 DEF Heap
<1>7. slice.len \in 0..Len(heap[slice.arr])
  BY <1>1, <1>2, <1>4
<1>8. ASSUME NEW s \in Sub, Appending(s)
      PROVE  append[s].slice.len \in 1..Len(heap[append[s].slice.arr])
  BY <1>1, <1>2, <1>5, <1>8
<1> QED BY <1>1, <1>2, <1>3, <1>4, <1>5, <1>6, <1>7, <1>8

\* AppendReads changes no element of an array that is there.
LEMMA AppendReadsKeeps ==
  ASSUME ListInv, ~crashed, NEW s \in Sub, AppendReads(s)
  PROVE  ListInv'
<1>1. PICK a, n, v : /\ a = slice.arr /\ n = slice.len
                     /\ v = [arr |-> IF n = Len(heap[a]) THEN Len(heap) + 1 ELSE a, len |-> n + 1]
  OBVIOUS
<1>2. /\ append[s].at = "new" /\ append' = [append EXCEPT ![s] = [at |-> "read", slice |-> v]]
      /\ UNCHANGED <<slice, handling, removed, crashed>>
      /\ heap' = IF n = Len(heap[a]) THEN Append(heap, Grown(heap[a])) ELSE heap
      /\ raced' = (raced \/ Removes \/ \E t \in Sub : Appending(t))
  BY <1>1 DEF AppendReads
<1>3. /\ heap \in Heap /\ Len(heap) \in Nat /\ a \in 1..Len(heap) /\ n \in 0..Len(heap[a])
      /\ Len(heap[a]) \in Nat
  BY <1>1, ListTyped
<1>4. /\ heap' \in Heap /\ Len(heap') \in Nat /\ Len(heap') >= Len(heap)
      /\ \A b \in 1..Len(heap) : heap'[b] = heap[b]
  <2>1. CASE n = Len(heap[a])
    <3>1. PICK g : g = heap' /\ g = Append(heap, Grown(heap[a]))
      BY <1>2, <2>1
    <3>2. /\ g \in Heap /\ Len(g) = Len(heap) + 1
          /\ \A b \in 1..Len(heap) : g[b] = heap[b]
      BY <1>3, <3>1, GrowIs
    <3> QED BY <1>3, <3>1, <3>2
  <2>2. CASE n # Len(heap[a])
    BY <1>2, <1>3, <2>2
  <2> QED BY <2>1, <2>2
<1>5. /\ v \in Slice /\ v.arr \in 1..Len(heap') /\ v.len = n + 1 /\ v.len <= Len(heap'[v.arr])
      /\ \A i \in 1..n : heap'[v.arr][i] = heap[a][i]
  <2>1. CASE n = Len(heap[a])
    <3>1. PICK g : g = heap' /\ g = Append(heap, Grown(heap[a]))
      BY <1>2, <2>1
    <3>2. /\ Len(g) = Len(heap) + 1 /\ n < Len(g[Len(heap) + 1])
          /\ \A i \in 1..n : g[Len(heap) + 1][i] = heap[a][i]
      BY <1>3, <2>1, <3>1, GrowIs
    <3>3. v.arr = Len(heap) + 1 /\ v.len = n + 1 /\ v \in Slice
      BY <1>1, <1>2, <1>3, <2>1 DEF Slice
    <3>4. n + 1 <= Len(heap'[Len(heap) + 1])
      BY <1>3, <1>4, <3>1, <3>2
    <3> QED BY <1>3, <3>1, <3>2, <3>3, <3>4
  <2>2. CASE n # Len(heap[a])
    BY <1>1, <1>2, <1>3, <2>2 DEF Slice
  <2> QED BY <2>1, <2>2
<1>6. /\ append'[s] = [at |-> "read", slice |-> v]
      /\ \A t \in Sub : t # s => append'[t] = append[t]
      /\ append \in [Sub -> [at : {"new", "read", "stored", "filled", "done"}, slice : Slice]]
      /\ append' \in [Sub -> [at : {"new", "read", "stored", "filled", "done"}, slice : Slice]]
  BY <1>2, <1>5 DEF ListInv, SubscribersOK
<1>7. SubscribersOK'
  BY <1>2, <1>4, <1>6 DEF ListInv, SubscribersOK, Heap, Element
<1>8. Bounds'
  <2>1. InHeap(heap, slice)' /\ InHeap(heap, handling.range)'
    BY <1>2, <1>3, <1>4 DEF ListInv, Bounds, InHeap
  <2>2. ASSUME NEW t \in Sub, Appending(t)'
        PROVE  InHeap(heap', append'[t].slice) /\ append'[t].slice.len > 0
    <3>1. CASE t = s
      BY <1>3, <1>5, <1>6, <3>1 DEF InHeap
    <3>2. CASE t # s
      <4>1. append'[t] = append[t] /\ Appending(t)
        BY <1>6, <2>2, <3>2 DEF Appending
      <4>2. InHeap(heap, append[t].slice) /\ append[t].slice.len > 0
        BY <4>1 DEF ListInv, Bounds
      <4>3. InHeap(heap', append[t].slice)
        BY <1>3, <1>4, <4>2 DEF InHeap
      <4> QED BY <4>1, <4>2, <4>3
    <3> QED BY <3>1, <3>2
  <2> QED BY <1>2, <2>1, <2>2 DEF ListInv, Bounds, Calling, Removes
<1>9. ASSUME ~raced' PROVE Right'
  <2>1. Right /\ ~Removes /\ \A t \in Sub : ~Appending(t)
    BY <1>2, <1>9 DEF ListInv
  <2>2. Added' = Added /\ Storing' = Storing
    BY <1>2, <1>6 DEF Added, Storing
  <2>3. Upto' = Upto /\ ToDrop' = ToDrop
    BY <1>2, <2>2 DEF Upto, ToDrop
  <2>4. heap'[slice'.arr] = heap[slice.arr] /\ heap'[handling'.range.arr] = heap[handling.range.arr]
    BY <1>2, <1>4, ListTyped
  <2>5. OneAppend'
    <3>1. \A t \in Sub : Appending(t)' => t = s
      BY <1>6, <2>1 DEF Appending
    <3>2. ~Removes'
      BY <1>2, <2>1 DEF Removes
    <3>3. append'[s].at = "read" /\ append'[s].slice = v
      BY <1>6
    <3>4. v.len = slice'.len + 1 /\ \A i \in 1..slice'.len : heap'[v.arr][i] = heap'[slice'.arr][i]
      BY <1>1, <1>2, <1>5, <2>4
    <3> QED BY <3>1, <3>2, <3>3, <3>4 DEF OneAppend, Appending
  <2>6. Window'
    BY <1>2, <2>1, <2>3, <2>4 DEF Right, Window, Ranging, Calling
  <2>7. Marks'
    BY <1>2, <2>1, <2>3 DEF Right, Marks, Ranging
  <2> QED BY <1>2, <2>1, <2>2, <2>3, <2>4, <2>5, <2>6, <2>7 DEF Right
<1> QED BY <1>7, <1>8, <1>9 DEF ListInv

\* StoreSlice: the list becomes the longer one, whose last element is in place
\* or the next thing to be stored.
LEMMA StoreSliceKeeps ==
  ASSUME ListInv, ~crashed, NEW s \in Sub, StoreSlice(s)
  PROVE  ListInv'
<1>1. PICK v, n : v = append[s].slice /\ n = slice.len
  OBVIOUS
<1>2. /\ append[s].at \in {"read", "filled"} /\ slice' = v
      /\ append' = [append EXCEPT ![s].at = IF append[s].at = "filled" THEN "done" ELSE "stored"]
      /\ UNCHANGED <<heap, handling, removed, raced, crashed>>
  BY <1>1 DEF StoreSlice
<1>3. append \in [Sub -> [at : {"new", "read", "stored", "filled", "done"}, slice : Slice]]
  BY DEF ListInv, SubscribersOK
<1>4. /\ append'[s] = [at |-> IF append[s].at = "filled" THEN "done" ELSE "stored", slice |-> v]
      /\ \A t \in Sub : t # s => append'[t] = append[t]
      /\ append' \in [Sub -> [at : {"new", "read", "stored", "filled", "done"}, slice : Slice]]
  BY <1>1, <1>2, <1>3
<1>5. /\ v \in Slice /\ v.arr \in 1..Len(heap) /\ v.len \in 1..Len(heap[v.arr])
      /\ n \in Nat /\ Len(heap[v.arr]) \in Nat
  BY <1>1, <1>2, <1>3, ListTyped DEF Appending
<1>6. SubscribersOK'
  BY <1>2, <1>4, <1>5 DEF ListInv, SubscribersOK
<1>7. Bounds'
  <2>1. InHeap(heap, slice)' /\ slice'.len > 0
    BY <1>2, <1>5 DEF InHeap
  <2>2. ASSUME NEW t \in Sub, Appending(t)'
        PROVE  InHeap(heap', append'[t].slice) /\ append'[t].slice.len > 0
    <3>1. CASE t = s
      BY <1>2, <1>4, <1>5, <3>1 DEF InHeap
    <3>2. CASE t # s
      BY <1>2, <1>4, <2>2, <3>2 DEF ListInv, Bounds, Appending
    <3> QED BY <3>1, <3>2
  <2> QED BY <1>2, <2>1, <2>2 DEF ListInv, Bounds, Calling, Removes
<1>8. ASSUME ~raced' PROVE Right'
  <2>1. Right /\ OneAppend /\ Window /\ Marks /\ Appending(s)
    BY <1>2, <1>8 DEF ListInv, Right, Appending
  <2>2. ~Removes /\ handling.at # "shrink" /\ \A t \in Sub : Appending(t) => t = s
    BY <2>1 DEF OneAppend, Removes
  <2>3. v.len = n + 1 /\ \A i \in 1..n : heap[v.arr][i] = heap[slice.arr][i]
    BY <1>1, <1>2, <2>1 DEF OneAppend
  <2>4. Upto = n /\ ToDrop' = ToDrop
    BY <1>1, <1>2, <2>2 DEF Upto, Storing, ToDrop, Appending
  <2>5. Ranging => /\ handling.range.len <= n
                   /\ \A i \in 1..handling.range.len : heap[handling.range.arr][i] = heap[v.arr][i]
    <3> SUFFICES ASSUME Ranging
                 PROVE  /\ handling.range.len <= n
                        /\ \A i \in 1..handling.range.len : heap[handling.range.arr][i] = heap[v.arr][i]
      OBVIOUS
    <3>1. handling.range.len <= n /\ handling.range.len \in Nat
      BY <2>1, <2>4, ListTyped DEF Window
    <3>2. \A i \in 1..handling.range.len : i \in 1..n
      BY <1>5, <3>1
    <3> QED BY <2>1, <2>3, <3>1, <3>2 DEF Window
  <2>6. Upto' \in {n, n + 1} /\ Window'
    <3>1. Upto' \in {n, n + 1}
      BY <1>2, <1>5, <2>3 DEF Upto
    <3>2. Ranging => handling.range.len <= Upto'
      BY <1>5, <2>5, <3>1, ListTyped
    <3> QED BY <1>2, <2>1, <2>5, <3>1, <3>2 DEF Window, Ranging, Calling
  <2>7. Marks'
    <3>1. ToDrop' \subseteq 1..Upto'
      <4>1. ToDrop \subseteq 1..n
        BY <2>1, <2>4 DEF Marks
      <4> QED BY <1>5, <2>4, <2>6, <4>1
    <3> QED BY <1>2, <2>1, <3>1 DEF Marks, Ranging
  <2>8. Entries(heap[slice.arr], n, Added, removed, ToDrop)
    BY <2>1, <2>4 DEF Right
  <2>9. CASE append[s].at = "read"
    <3>1. append'[s].at = "stored" /\ append'[s].slice = v
      BY <1>4, <2>9
    <3>2. Added' = Added
      BY <1>4, <2>9, <3>1 DEF Added
    <3>3. Upto' = n
      BY <1>2, <1>5, <2>3, <3>1 DEF Upto, Storing
    <3>4. Entries(heap[v.arr], n, Added, removed, ToDrop)
      BY <1>5, <2>3, <2>8, EntriesAgree
    <3>5. OneAppend'
      BY <1>2, <1>4, <2>2, <3>1 DEF OneAppend, Appending, Removes
    <3> QED BY <1>2, <2>1, <2>4, <2>6, <2>7, <3>2, <3>3, <3>4, <3>5 DEF Right
  <2>10. CASE append[s].at = "filled"
    <3>1. append'[s].at = "done"
      BY <1>4, <2>10
    <3>2. Added' = Added \cup {s} /\ s \notin Added
      BY <1>4, <2>10, <3>1 DEF Added
    <3>3. \A t \in Sub : ~Appending(t)'
      BY <1>4, <2>2, <3>1 DEF Appending
    <3>4. Upto' = n + 1
      BY <1>2, <2>2, <2>3, <3>3 DEF Upto, Storing, Appending
    <3>5. heap[v.arr][n + 1] = s
      BY <1>1, <2>1, <2>3, <2>10 DEF OneAppend
    <3>6. removed \subseteq Added /\ ToDrop \subseteq 1..n
      BY <2>1, <2>4 DEF Right, Marks
    <3>7. Entries(heap[v.arr], n + 1, Added \cup {s}, removed, ToDrop)
      BY <1>5, <2>3, <2>8, <3>2, <3>5, <3>6, EntriesAdd
    <3>8. OneAppend'
      BY <3>3 DEF OneAppend, Appending
    <3> QED BY <1>2, <2>1, <2>4, <2>6, <2>7, <3>2, <3>4, <3>6, <3>7, <3>8 DEF Right
  <2> QED BY <1>2, <2>9, <2>10
<1> QED BY <1>6, <1>7, <1>8 DEF ListInv

\* StoreElement: the element is stored behind the part of the list that is in
\* place, and so behind every range.
LEMMA StoreElementKeeps ==
  ASSUME ListInv, ~crashed, NEW s \in Sub, StoreElement(s)
  PROVE  ListInv'
<1>1. PICK v, n : v = append[s].slice /\ n = slice.len
  OBVIOUS
<1>2. /\ append[s].at \in {"read", "stored"} /\ heap' = [heap EXCEPT ![v.arr][v.len] = s]
      /\ append' = [append EXCEPT ![s].at = IF append[s].at = "stored" THEN "done" ELSE "filled"]
      /\ UNCHANGED <<slice, handling, removed, raced, crashed>>
  BY <1>1 DEF StoreElement
<1>3. append \in [Sub -> [at : {"new", "read", "stored", "filled", "done"}, slice : Slice]]
  BY DEF ListInv, SubscribersOK
<1>4. /\ append'[s] = [at |-> IF append[s].at = "stored" THEN "done" ELSE "filled", slice |-> v]
      /\ \A t \in Sub : t # s => append'[t] = append[t]
      /\ append' \in [Sub -> [at : {"new", "read", "stored", "filled", "done"}, slice : Slice]]
  BY <1>1, <1>2, <1>3
<1>5. /\ v.arr \in 1..Len(heap) /\ v.len \in 1..Len(heap[v.arr]) /\ heap \in Heap
      /\ n \in 0..Len(heap[slice.arr]) /\ slice.arr \in 1..Len(heap) /\ s \in Element
  BY <1>1, <1>2, <1>3, ListTyped DEF Appending, Element
<1>6. /\ heap' \in Heap /\ Len(heap') = Len(heap)
      /\ \A b \in 1..Len(heap) : Len(heap'[b]) = Len(heap[b]) /\ Len(heap[b]) \in Nat
      /\ \A b \in 1..Len(heap) : \A i \in 1..Len(heap[b]) :
           heap'[b][i] = IF b = v.arr /\ i = v.len THEN s ELSE heap[b][i]
  <2>1. PICK g, a, l : g = heap' /\ a = v.arr /\ l = v.len
    OBVIOUS
  <2>2. g = [heap EXCEPT ![a] = [heap[a] EXCEPT ![l] = s]] /\ a \in 1..Len(heap) /\ l \in 1..Len(heap[a])
    BY <1>2, <1>5, <2>1
  <2>3. Stored(heap, a, l, s, g)
    BY <1>5, <2>2, StoreIs
  <2> QED BY <2>1, <2>3 DEF Stored
<1>7. SubscribersOK'
  BY <1>2, <1>4, <1>6 DEF ListInv, SubscribersOK, Heap, Element
<1>8. Bounds'
  <2>1. \A w : InHeap(heap, w) => InHeap(heap', w)
    BY <1>6 DEF InHeap
  <2>2. \A t \in Sub : Appending(t)' => Appending(t) /\ append'[t].slice = append[t].slice
    <3>1. SUFFICES ASSUME NEW t \in Sub, Appending(t)'
                   PROVE  Appending(t) /\ append'[t].slice = append[t].slice
      OBVIOUS
    <3>2. CASE t = s
      BY <1>1, <1>2, <1>4, <3>2 DEF Appending
    <3>3. CASE t # s
      BY <1>4, <3>1, <3>3 DEF Appending
    <3> QED BY <3>2, <3>3
  <2> QED BY <1>2, <2>1, <2>2 DEF ListInv, Bounds, Calling, Removes
<1>9. ASSUME ~raced' PROVE Right'
  <2>1. Right /\ OneAppend /\ Window /\ Marks /\ Appending(s)
    BY <1>2, <1>9 DEF ListInv, Right, Appending
  <2>2. ~Removes /\ handling.at # "shrink" /\ \A t \in Sub : Appending(t) => t = s
    BY <2>1 DEF OneAppend, Removes
  <2>3. v.len = Upto + 1 /\ Upto \in Nat /\ ToDrop' = ToDrop /\ Upto <= n
    <3>1. CASE append[s].at = "read"
      <4>1. v.len = n + 1 /\ ~Storing
        BY <1>1, <2>1, <2>2, <3>1 DEF OneAppend, Storing, Appending
      <4> QED BY <1>1, <1>2, <1>5, <2>2, <4>1 DEF Upto, ToDrop
    <3>2. CASE append[s].at = "stored"
      <4>1. v.len = n /\ Storing
        BY <1>1, <2>1, <3>2 DEF OneAppend, Storing
      <4> QED BY <1>1, <1>2, <1>5, <2>2, <4>1 DEF Upto, ToDrop
    <3> QED BY <1>2, <3>1, <3>2
  <2>4. \A b \in 1..Len(heap) : \A i \in 1..Len(heap[b]) : i <= Upto => heap'[b][i] = heap[b][i]
    BY <1>6, <2>3
  <2>5. \A i \in 1..Upto : heap'[slice.arr][i] = heap[slice.arr][i]
    <3>1. \A i \in 1..Upto : i \in 1..Len(heap[slice.arr]) /\ i <= Upto
      BY <1>5, <2>3
    <3> QED BY <1>5, <2>4, <3>1
  <2>6. Upto' \in {Upto, Upto + 1} /\ Window'
    <3>1. Upto' \in {Upto, Upto + 1}
      <4>1. Storing' => Storing
        BY <1>2, <1>4 DEF Storing
      <4> QED BY <1>1, <1>2, <1>5, <2>2, <4>1 DEF Upto
    <3>2. ASSUME Ranging PROVE Window'
      <4>1. /\ handling.range.len <= Upto /\ handling.range.len \in Nat
            /\ handling.range.arr \in 1..Len(heap)
            /\ handling.range.len <= Len(heap[handling.range.arr])
            /\ Len(heap[handling.range.arr]) \in Nat /\ handling.idx \in Nat
        BY <2>1, <3>2, ListTyped DEF Window
      <4>2. \A i \in 1..handling.range.len :
              i \in 1..Upto /\ i \in 1..Len(heap[handling.range.arr]) /\ i <= Upto
        BY <2>3, <4>1
      <4>3. \A i \in 1..handling.range.len : heap'[handling.range.arr][i] = heap'[slice.arr][i]
        BY <2>1, <2>4, <2>5, <3>2, <4>1, <4>2 DEF Window
      <4>4. handling.range.len <= Upto'
        BY <2>3, <3>1, <4>1
      <4>5. Calling => handling.idx \in 1..handling.range.len
        BY <4>1 DEF ListInv, Bounds
      <4>6. Calling => handling.sub = heap'[handling.range.arr][handling.idx]
        BY <2>1, <2>4, <3>2, <4>1, <4>2, <4>5 DEF Window
      <4> QED BY <1>2, <4>3, <4>4, <4>6 DEF Window, Calling
    <3>3. ASSUME ~Ranging PROVE Window'
      BY <1>2, <3>3 DEF Window, Ranging
    <3> QED BY <3>1, <3>2, <3>3
  <2>7. Marks'
    <3>1. ToDrop' \subseteq 1..Upto'
      <4>1. ToDrop \subseteq 1..Upto
        BY <2>1 DEF Marks
      <4> QED BY <2>3, <2>6, <4>1
    <3> QED BY <1>2, <2>1, <3>1 DEF Marks, Ranging
  <2>8. Entries(heap[slice.arr], Upto, Added, removed, ToDrop) /\ removed \subseteq Added
    BY <2>1 DEF Right
  <2>9. CASE append[s].at = "read"
    <3>1. append'[s].at = "filled" /\ append'[s].slice = v
      BY <1>4, <2>9
    <3>2. Added' = Added /\ ~Storing /\ ~Storing'
      BY <1>4, <2>2, <2>9, <3>1 DEF Added, Storing, Appending
    <3>3. Upto' = n /\ Upto = n
      BY <1>1, <1>2, <2>2, <3>2 DEF Upto
    <3>4. Entries(heap'[slice.arr], n, Added, removed, ToDrop)
      BY <2>3, <2>5, <2>8, <3>3, EntriesAgree
    <3>5. OneAppend'
      <4>1. heap'[v.arr][v.len] = s
        BY <1>5, <1>6
      <4>2. \A i \in 1..n : heap[v.arr][i] = heap[slice.arr][i]
        BY <1>1, <2>1, <2>9 DEF OneAppend
      <4>3. \A i \in 1..n : heap'[v.arr][i] = heap'[slice.arr][i]
        <5>1. \A i \in 1..n : i \in 1..Len(heap[v.arr]) /\ i <= Upto
          BY <1>5, <1>6, <2>3, <3>3
        <5> QED BY <1>5, <2>4, <2>5, <3>3, <4>2, <5>1
      <4>4. \A t \in Sub : Appending(t)' => t = s
        BY <1>4, <2>2 DEF Appending
      <4>5. v.len = n + 1 /\ ~Removes' /\ slice'.len = n /\ slice'.arr = slice.arr
        BY <1>1, <1>2, <2>1, <2>2, <2>9 DEF OneAppend, Appending, Removes
      <4>6. \A t \in Sub : append'[t].at \in {"read", "filled", "stored"} => t = s
        BY <4>4 DEF Appending
      <4> QED BY <3>1, <4>1, <4>3, <4>4, <4>5, <4>6 DEF OneAppend
    <3> QED BY <1>2, <2>1, <2>3, <2>6, <2>7, <2>8, <3>2, <3>3, <3>4, <3>5 DEF Right
  <2>10. CASE append[s].at = "stored"
    <3>1. append'[s].at = "done"
      BY <1>4, <2>10
    <3>2. Added' = Added \cup {s} /\ s \notin Added /\ Storing
      BY <1>4, <2>10, <3>1 DEF Added, Storing
    <3>3. \A t \in Sub : ~Appending(t)'
      BY <1>4, <2>2, <3>1 DEF Appending
    <3>4. Upto' = n /\ Upto = n - 1
      BY <1>1, <1>2, <2>2, <3>2, <3>3 DEF Upto, Storing, Appending
    <3>5. v = slice
      BY <1>1, <2>1, <2>10 DEF OneAppend
    <3>6. heap'[slice.arr][Upto + 1] = s /\ Upto' = Upto + 1
      BY <1>1, <1>5, <1>6, <2>3, <3>4, <3>5
    <3>7. ToDrop \subseteq 1..Upto
      BY <2>1 DEF Marks
    <3>8. Entries(heap'[slice.arr], Upto + 1, Added \cup {s}, removed, ToDrop)
      BY <2>3, <2>5, <2>8, <3>2, <3>6, <3>7, EntriesAdd
    <3>9. OneAppend'
      BY <3>3 DEF OneAppend, Appending
    <3> QED BY <1>2, <2>1, <2>3, <2>6, <2>7, <2>8, <3>2, <3>6, <3>8, <3>9 DEF Right
  <2> QED BY <1>2, <2>9, <2>10
<1> QED BY <1>7, <1>8, <1>9 DEF ListInv

\* BeginRange: no append is underway, so the range begins with the whole list.
LEMMA BeginRangeKeeps ==
  ASSUME ListInv, ~crashed, NEW event \in SUBSET Sub, BeginRange(event)
  PROVE  ListInv'
<1>1. /\ handling.at = "idle"
      /\ handling' = [at |-> "range", range |-> slice, idx |-> 1, sub |-> NoSub,
                      event |-> event, remove |-> <<>>]
      /\ UNCHANGED <<heap, slice, append, removed, crashed>>
      /\ raced' = (raced \/ \E s \in Sub : Appending(s))
  BY DEF BeginRange, Idle, list
<1>2. SubscribersOK'
  BY <1>1 DEF ListInv, SubscribersOK
<1>3. Bounds'
  <2>1. slice.len \in Nat
    BY ListTyped
  <2> QED BY <1>1, <2>1 DEF ListInv, Bounds, InHeap, Calling, Appending, Removes
<1>4. ASSUME ~raced' PROVE Right'
  <2>1. Right /\ \A s \in Sub : ~Appending(s)
    BY <1>1, <1>4 DEF ListInv
  <2>2. ~Storing /\ ~Storing' /\ Added' = Added
    BY <1>1, <2>1 DEF Storing, Added, Appending
  <2>3. Upto = slice.len /\ Upto' = slice.len /\ handling.remove = <<>>
    BY <1>1, <2>1, <2>2 DEF Upto, Right, Marks
  <2>4. ToDrop = Indices(<<>>) /\ ToDrop' = Indices(<<>>)
    BY <1>1, <2>3 DEF ToDrop
  <2>5. OneAppend'
    BY <1>1, <2>1 DEF OneAppend, Appending
  <2>6. Window'
    BY <1>1, <2>3, ListTyped DEF Window, Calling
  <2>7. Marks'
    BY <1>1, <2>4, IndexNone DEF Marks
  <2> QED BY <1>1, <2>1, <2>2, <2>3, <2>4, <2>5, <2>6, <2>7 DEF Right
<1> QED BY <1>2, <1>3, <1>4 DEF ListInv

\* LoopMoves: a step that only moves the range on.
LEMMA LoopMoves ==
  ASSUME ListInv, Ranging, Ranging', Bounds', SubscribersOK',
         handling'.range = handling.range, handling'.remove = handling.remove,
         handling'.idx \in {handling.idx, handling.idx + 1},
         UNCHANGED <<heap, slice, append, removed, raced>>,
         ~raced => ~crashed' /\ (Calling' => handling'.sub = heap[handling.range.arr][handling'.idx])
  PROVE  ListInv'
<1>1. ASSUME ~raced' PROVE Right'
  <2>1. Right /\ ~crashed' /\ (Calling' => handling'.sub = heap[handling.range.arr][handling'.idx])
    BY <1>1 DEF ListInv
  <2>2. handling.at # "shrink" /\ handling'.at # "shrink" /\ handling'.at # "idle" /\ ~Removes'
    BY DEF Ranging, Removes
  <2>3. Added' = Added /\ Storing' = Storing
    BY DEF Added, Storing
  <2>4. Upto' = Upto /\ ToDrop' = ToDrop
    BY <2>2, <2>3 DEF Upto, ToDrop
  <2>5. OneAppend'
    BY <2>1, <2>2 DEF Right, OneAppend, Appending
  <2>6. Window'
    BY <2>1, <2>4 DEF Right, Window
  <2>7. Marks'
    <3>1. \A j \in 1..Len(handling.remove) : handling.remove[j] < handling.idx /\ handling.remove[j] \in Nat
      <4>1. handling.remove \in Seq(Nat)
        BY ListTyped
      <4>2. \A j \in 1..Len(handling.remove) : handling.remove[j] < handling.idx
        BY <2>1 DEF Right, Marks
      <4> QED BY <4>1, <4>2
    <3>2. \A j \in 1..Len(handling.remove) : handling.remove[j] < handling'.idx
      <4>1. handling.idx \in Nat /\ handling'.idx \in Nat /\ handling'.idx >= handling.idx
        BY ListTyped
      <4> QED BY <3>1, <4>1
    <3> QED BY <2>1, <2>2, <2>4, <3>2 DEF Right, Marks
  <2> QED BY <2>1, <2>3, <2>4, <2>5, <2>6, <2>7 DEF Right
<1> QED BY <1>1 DEF ListInv

\* Visit: the element is one that was added, so not a nil pointer.
LEMMA VisitKeeps ==
  ASSUME ListInv, ~crashed, Visit
  PROVE  ListInv'
<1>1. PICK s : s = heap[handling.range.arr][handling.idx]
  OBVIOUS
<1>2. /\ handling.at = "range" /\ handling.idx <= handling.range.len /\ crashed' = (s = NoSub)
      /\ handling' = IF s \in handling.event THEN [handling EXCEPT !.at = "call", !.sub = s]
                     ELSE [handling EXCEPT !.idx = handling.idx + 1]
      /\ UNCHANGED <<heap, slice, append, removed, raced>>
  BY <1>1 DEF Visit, list
<1>3. /\ handling \in LoopType
      /\ handling.range.len \in Nat /\ handling.idx \in 1..(handling.range.len + 1)
  BY ListTyped DEF ListInv, SubscribersOK, LoopType, Element, Bounds
<1>4. /\ handling'.range = handling.range /\ handling'.remove = handling.remove
      /\ \/ handling'.at = "call" /\ handling'.sub = s /\ s \in Sub /\ handling'.idx = handling.idx
         \/ handling'.at = "range" /\ handling'.idx = handling.idx + 1
      /\ handling' \in LoopType
  <2>1. CASE s \in handling.event
    BY <1>2, <1>3, <2>1 DEF LoopType, Element
  <2>2. CASE s \notin handling.event
    <3>1. handling.idx + 1 \in Nat /\ handling' = [handling EXCEPT !.idx = handling.idx + 1]
      BY <1>2, <1>3, <2>2
    <3> QED BY <1>2, <1>3, <3>1 DEF LoopType
  <2> QED BY <2>1, <2>2
<1>5. SubscribersOK'
  BY <1>2, <1>4 DEF ListInv, SubscribersOK, LoopType, Element
<1>6. Bounds'
  <2>1. handling'.idx \in 1..(handling.range.len + 1)
    BY <1>2, <1>3, <1>4
  <2> QED BY <1>2, <1>4, <2>1 DEF ListInv, Bounds, InHeap, Calling, Appending, Removes
<1>7. ASSUME ~raced PROVE ~crashed'
  <2>1. handling.idx \in 1..handling.range.len /\ handling.range.len <= Upto
    BY <1>2, <1>3, <1>7 DEF ListInv, Right, Window, Ranging
  <2>2. s = heap[slice.arr][handling.idx]
    BY <1>1, <1>2, <1>7, <2>1 DEF ListInv, Right, Window, Ranging
  <2>3. Upto \in Nat \/ Upto = -1
    BY ListTyped DEF Upto
  <2>4. handling.idx \in 1..Upto
    BY <1>3, <2>1, <2>3
  <2>5. s \in Added
    BY <1>7, <2>2, <2>4 DEF ListInv, Right, Entries
  <2> QED BY <1>2, <2>5, WebAssumption DEF Added
<1>8. Ranging /\ Ranging' /\ (Calling' => handling'.sub = s /\ handling'.idx = handling.idx)
  BY <1>2, <1>4 DEF Ranging, Calling
<1> QED BY <1>1, <1>2, <1>4, <1>5, <1>6, <1>7, <1>8, LoopMoves

\* WriteFails: the handler waits to signal.
LEMMA SignalKeeps ==
  ASSUME ListInv, ~crashed, handling.at = "call", handling' = [handling EXCEPT !.at = "signal"],
         UNCHANGED <<heap, slice, append, removed, raced, crashed>>
  PROVE  ListInv'
<1>1. handling \in LoopType
  BY DEF ListInv, SubscribersOK, LoopType, Element
<1>2. /\ handling' \in LoopType
      /\ handling'.at = "signal" /\ handling'.range = handling.range /\ handling'.idx = handling.idx
      /\ handling'.sub = handling.sub /\ handling'.remove = handling.remove
  BY <1>1 DEF LoopType
<1>3. SubscribersOK'
  BY <1>2 DEF ListInv, SubscribersOK, LoopType, Element
<1>4. Bounds'
  BY <1>2 DEF ListInv, Bounds, InHeap, Calling, Appending, Removes
<1>5. Ranging /\ Ranging' /\ Calling
  BY <1>2 DEF Ranging, Calling
<1>6. ~raced => handling.sub = heap[handling.range.arr][handling.idx]
  BY <1>5 DEF ListInv, Right, Window
<1> QED BY <1>2, <1>3, <1>4, <1>5, <1>6, LoopMoves

\* HandlerReturns: the index of the element is put before those kept so far,
\* which are lower.
LEMMA HandlerReturnsKeeps ==
  ASSUME ListInv, ~crashed, Calling, NEW remove \in BOOLEAN, HandlerReturns(remove)
  PROVE  ListInv'
<1>1. PICK x, r, q : /\ x = handling.idx /\ r = handling.remove
                     /\ q = IF remove THEN <<x>> \o r ELSE r
  OBVIOUS
<1>2. /\ handling \in LoopType /\ r \in Seq(Nat) /\ x \in 1..handling.range.len
      /\ handling.range.len \in Nat /\ x \in Nat /\ x > 0 /\ handling.sub \in Sub
      /\ \A j \in 1..Len(r) : r[j] > 0
  <2>1. handling \in LoopType
    BY DEF ListInv, SubscribersOK, LoopType, Element
  <2>2. x \in Nat /\ handling.range.len \in Nat /\ r \in Seq(Nat)
    BY <1>1, ListTyped
  <2>3. handling.sub \in Sub /\ x <= handling.range.len /\ x \in 1..(handling.range.len + 1)
    BY <1>1 DEF ListInv, Bounds
  <2>4. \A j \in 1..Len(r) : r[j] > 0
    BY <1>1 DEF ListInv, Bounds
  <2> QED BY <2>1, <2>2, <2>3, <2>4
<1>3. handling' = [handling EXCEPT !.at = "range", !.idx = x + 1, !.sub = NoSub, !.remove = q]
  BY <1>1 DEF HandlerReturns
<1>4. /\ removed' = IF remove THEN removed \cup {handling.sub} ELSE removed
      /\ UNCHANGED <<heap, slice, append, raced, crashed>>
  BY DEF HandlerReturns, list
<1>5. q \in Seq(Nat) /\ \A j \in 1..Len(q) : q[j] > 0
  <2>1. CASE remove
    <3>1. /\ q \in Seq(Nat) /\ Len(q) = 1 + Len(r) /\ Len(r) \in Nat
          /\ \A j \in 1..(1 + Len(r)) : q[j] = IF j <= 1 THEN <<x>>[j] ELSE r[j - 1]
      BY <1>1, <1>2, <2>1, ConcatProperties
    <3>2. <<x>>[1] = x /\ \A j \in 1..(1 + Len(r)) : j = 1 \/ (j > 1 /\ j - 1 \in 1..Len(r))
      BY <3>1
    <3>3. ASSUME NEW j \in 1..Len(q) PROVE q[j] > 0
      <4>1. CASE j = 1
        BY <1>2, <3>1, <3>2, <4>1
      <4>2. CASE j # 1
        <5>1. j - 1 \in 1..Len(r) /\ ~(j <= 1) /\ j \in 1..(1 + Len(r))
          BY <3>1, <3>2, <4>2
        <5>2. q[j] = r[j - 1]
          BY <3>1, <5>1
        <5> QED BY <1>2, <5>1, <5>2
      <4> QED BY <4>1, <4>2
    <3> QED BY <3>1, <3>3
  <2>2. CASE ~remove
    BY <1>1, <1>2, <2>2
  <2> QED BY <2>1, <2>2
<1>6. /\ handling' \in LoopType /\ handling'.at = "range" /\ handling'.range = handling.range
      /\ handling'.idx = x + 1 /\ handling'.remove = q
  <2>1. x + 1 \in Nat /\ NoSub \in Element
    BY <1>2 DEF Element
  <2> QED BY <1>2, <1>3, <1>5, <2>1 DEF LoopType
<1>7. SubscribersOK'
  BY <1>2, <1>4, <1>6 DEF ListInv, SubscribersOK, LoopType, Element
<1>8. Bounds'
  <2>1. handling'.idx \in 1..(handling.range.len + 1)
    BY <1>2, <1>6
  <2> QED BY <1>4, <1>5, <1>6, <2>1 DEF ListInv, Bounds, InHeap, Calling, Appending, Removes
<1>9. ASSUME ~raced' PROVE Right'
  <2>1. /\ Right /\ Ranging /\ Falling(r) /\ (\A j \in 1..Len(r) : r[j] < x)
        /\ ~Removes' /\ handling.at # "shrink" /\ handling'.at # "shrink"
    BY <1>1, <1>4, <1>6, <1>9 DEF ListInv, Right, Marks, Ranging, Calling, Removes
  <2>2. Added' = Added /\ Storing' = Storing
    BY <1>4 DEF Added, Storing
  <2>3. Upto' = Upto /\ ToDrop = Indices(r) /\ ToDrop' = Indices(q)
    BY <1>1, <1>4, <1>6, <2>1, <2>2 DEF Upto, ToDrop
  <2>4. x \in 1..Upto /\ Upto \in Nat /\ handling.sub = heap[slice.arr][x]
    <3>1. handling.range.len <= Upto /\ handling.sub = heap[slice.arr][x]
      BY <1>1, <1>2, <2>1 DEF Right, Window
    <3>2. Upto \in Int
      BY ListTyped DEF Upto
    <3> QED BY <1>2, <3>1, <3>2
  <2>5. OneAppend'
    BY <1>4, <1>6, <2>1 DEF Right, OneAppend, Appending
  <2>6. Window'
    BY <1>4, <1>6, <2>1, <2>3 DEF Right, Window, Calling
  <2>7. CASE remove
    <3>1. Falling(q) /\ Indices(q) = Indices(r) \cup {x} /\ \A j \in 1..Len(q) : q[j] <= x
      BY <1>1, <1>2, <2>1, <2>7, IndexFirst
    <3>2. \A j \in 1..Len(q) : q[j] < x + 1
      BY <1>2, <1>5, <3>1
    <3>3. Marks'
      BY <1>6, <2>1, <2>3, <2>4, <3>1, <3>2 DEF Right, Marks
    <3>4. Entries(heap[slice.arr], Upto, Added, removed \cup {handling.sub}, Indices(q))
      BY <2>1, <2>3, <2>4, <3>1, EntriesMark DEF Right
    <3>5. handling.sub \in Added
      BY <2>1, <2>4 DEF Right, Entries
    <3> QED BY <1>4, <2>1, <2>2, <2>3, <2>5, <2>6, <2>7, <3>3, <3>4, <3>5 DEF Right
  <2>8. CASE ~remove
    <3>1. q = r
      BY <1>1, <2>8
    <3>2. \A j \in 1..Len(q) : q[j] < x + 1
      <4>1. \A j \in 1..Len(q) : q[j] \in Nat /\ q[j] < x /\ x \in Nat
        BY <1>2, <1>5, <2>1, <3>1
      <4> QED BY <4>1
    <3>3. Marks'
      BY <1>6, <2>1, <2>3, <3>1, <3>2 DEF Right, Marks
    <3> QED BY <1>4, <2>1, <2>2, <2>3, <2>5, <2>6, <2>8, <3>1, <3>3 DEF Right
  <2> QED BY <2>7, <2>8
<1> QED BY <1>7, <1>8, <1>9 DEF ListInv

\* EndRange: with nothing to remove the loop is idle; else no append is underway.
LEMMA EndRangeKeeps ==
  ASSUME ListInv, ~crashed, EndRange
  PROVE  ListInv'
<1>1. PICK r : r = handling.remove
  OBVIOUS
<1>2. /\ handling.at = "range"
      /\ handling' = IF r = <<>> THEN Idle ELSE [handling EXCEPT !.at = "copy"]
      /\ raced' = (raced \/ (r # <<>> /\ \E s \in Sub : Appending(s)))
      /\ UNCHANGED <<heap, slice, append, removed, crashed>>
  BY <1>1 DEF EndRange, list
<1>3. handling \in LoopType
  BY DEF ListInv, SubscribersOK, LoopType, Element
<1>4. /\ handling' \in LoopType /\ handling'.remove = r
      /\ handling'.at = IF r = <<>> THEN "idle" ELSE "copy"
      /\ IF r = <<>> THEN handling'.range = Nil /\ handling'.idx = 1
         ELSE handling'.range = handling.range /\ handling'.idx = handling.idx
  <2>1. CASE r = <<>>
    BY <1>2, <2>1 DEF LoopType, Element, Idle, Nil, Slice
  <2>2. CASE r # <<>>
    BY <1>1, <1>2, <1>3, <2>2 DEF LoopType
  <2> QED BY <2>1, <2>2
<1>5. SubscribersOK'
  BY <1>2, <1>4 DEF ListInv, SubscribersOK, LoopType, Element
<1>6. Bounds'
  <2>1. CASE r = <<>>
    <3>1. InHeap(heap, Nil) /\ Nil.len = 0
      <4>1. 1 \in 1..Len(heap) /\ Len(heap[1]) \in Nat
        BY ListTyped
      <4> QED BY <4>1 DEF InHeap, Nil
    <3>2. InHeap(heap, slice) /\ \A s \in Sub : Appending(s) =>
            InHeap(heap, append[s].slice) /\ append[s].slice.len > 0
      BY DEF ListInv, Bounds
    <3>3. /\ handling'.at = "idle" /\ handling'.range = Nil /\ handling'.idx = 1
          /\ handling'.remove = <<>>
      BY <1>4, <2>1
    <3>4. InHeap(heap', slice') /\ InHeap(heap', handling'.range)
      BY <1>2, <3>1, <3>2, <3>3 DEF InHeap
    <3>5. handling'.idx \in 1..(handling'.range.len + 1)
      BY <3>1, <3>3
    <3>6. \A s \in Sub : Appending(s)' =>
            InHeap(heap', append'[s].slice) /\ append'[s].slice.len > 0
      BY <1>2, <3>2 DEF InHeap, Appending
    <3> QED BY <3>3, <3>4, <3>5, <3>6 DEF Bounds, Calling, Removes
  <2>2. CASE r # <<>>
    BY <1>1, <1>2, <1>4, <2>2 DEF ListInv, Bounds, InHeap, Calling, Appending, Removes
  <2> QED BY <2>1, <2>2
<1>7. ASSUME ~raced' PROVE Right'
  <2>1. Right /\ handling'.at # "shrink" /\ ~Ranging' /\ (r # <<>> => \A s \in Sub : ~Appending(s))
    <3>1. ~raced /\ (r # <<>> => \A s \in Sub : ~Appending(s))
      BY <1>2, <1>7
    <3>2. handling'.at \in {"idle", "copy"}
      BY <1>4
    <3> QED BY <3>1, <3>2 DEF ListInv, Ranging
  <2>2. Added' = Added /\ Storing' = Storing
    BY <1>2 DEF Added, Storing
  <2>3. Upto' = Upto /\ ToDrop' = ToDrop
    BY <1>1, <1>2, <1>4, <2>1, <2>2 DEF Upto, ToDrop
  <2>4. OneAppend'
    BY <1>2, <1>4, <2>1 DEF Right, OneAppend, Appending, Removes
  <2>5. Window'
    BY <2>1 DEF Window
  <2>6. Marks'
    BY <1>1, <1>4, <2>1, <2>3 DEF Right, Marks
  <2> QED BY <1>2, <2>1, <2>2, <2>3, <2>4, <2>5, <2>6 DEF Right
<1> QED BY <1>5, <1>6, <1>7 DEF ListInv

\* CopyLast: the highest index comes first, so the element that takes its place
\* is not itself to be removed.
LEMMA CopyLastKeeps ==
  ASSUME ListInv, ~crashed, CopyLast
  PROVE  ListInv'
<1>1. PICK a, n, r, x : a = slice.arr /\ n = slice.len /\ r = handling.remove /\ x = Head(r)
  OBVIOUS
<1>2. /\ handling.at = "copy" /\ crashed' = (x > n) /\ (crashed' <=> x > n)
      /\ handling' = [handling EXCEPT !.at = "shrink"]
      /\ UNCHANGED <<slice, append, removed, raced>>
  BY <1>1 DEF CopyLast
<1>3. heap' = IF crashed' THEN heap ELSE [heap EXCEPT ![a] = [heap[a] EXCEPT ![x] = heap[a][n]]]
  BY <1>1 DEF CopyLast
<1>4. /\ heap \in Heap /\ a \in 1..Len(heap) /\ n \in 0..Len(heap[a]) /\ Len(heap[a]) \in Nat
      /\ heap[a] \in Seq(Element) /\ r \in Seq(Nat)
  BY <1>1, ListTyped
<1>5. r # <<>> /\ x \in Nat /\ x > 0
  <2>1. r # <<>> /\ \A j \in 1..Len(r) : r[j] > 0
    BY <1>1, <1>2 DEF ListInv, Bounds, Removes
  <2>2. x = r[1] /\ 1 \in 1..Len(r) /\ x \in Nat
    BY <1>1, <1>4, <2>1
  <2> QED BY <2>1, <2>2
<1>6. ASSUME ~crashed'
      PROVE  x \in 1..n /\ Stored(heap, a, x, heap[a][n], heap')
  <2>1. x \in 1..n /\ x \in 1..Len(heap[a]) /\ n \in 1..Len(heap[a])
    BY <1>2, <1>4, <1>5, <1>6
  <2>2. PICK y, g : y = heap[a][n] /\ g = heap'
    OBVIOUS
  <2>3. y \in Element /\ g = [heap EXCEPT ![a] = [heap[a] EXCEPT ![x] = y]]
    BY <1>3, <1>4, <1>6, <2>1, <2>2
  <2>4. Stored(heap, a, x, y, g)
    BY <1>4, <2>1, <2>3, StoreIs
  <2> QED BY <2>1, <2>2, <2>4
<1>7. /\ heap' \in Heap /\ Len(heap') = Len(heap)
      /\ \A b \in 1..Len(heap) : Len(heap'[b]) = Len(heap[b])
  <2>1. CASE crashed'
    BY <1>3, <1>4, <2>1
  <2>2. CASE ~crashed'
    BY <1>6, <2>2 DEF Stored
  <2> QED BY <2>1, <2>2
<1>8. handling \in LoopType
  BY DEF ListInv, SubscribersOK, LoopType, Element
<1>9. /\ handling' \in LoopType /\ handling'.at = "shrink" /\ handling'.remove = r
      /\ handling'.range = handling.range /\ handling'.idx = handling.idx
  BY <1>1, <1>2, <1>8 DEF LoopType
<1>10. SubscribersOK'
  <2>1. crashed' \in BOOLEAN
    BY <1>2
  <2> QED BY <1>2, <1>7, <1>9, <2>1 DEF ListInv, SubscribersOK, LoopType, Heap, Element
<1>11. Bounds'
  <2>1. \A w : InHeap(heap, w) => InHeap(heap', w)
    BY <1>7 DEF InHeap
  <2>2. ~crashed' => slice'.len > 0
    BY <1>1, <1>2, <1>4, <1>6
  <2> QED BY <1>1, <1>2, <1>5, <1>9, <2>1, <2>2 DEF ListInv, Bounds, Calling, Appending, Removes
<1>12. ASSUME ~raced' PROVE Right'
  <2>1. Right /\ Removes /\ \A s \in Sub : ~Appending(s)
    BY <1>2, <1>12 DEF ListInv, Right, OneAppend, Removes
  <2>2. Added' = Added /\ ~Storing /\ ~Storing'
    BY <1>2, <2>1 DEF Added, Storing, Appending
  <2>3. Upto = n /\ Upto' = n - 1 /\ ToDrop = Indices(r) /\ ToDrop' = Indices(Tail(r))
    BY <1>1, <1>2, <1>9, <2>2 DEF Upto, ToDrop
  <2>4. /\ Falling(r) /\ x \in Indices(r) /\ Indices(Tail(r)) = Indices(r) \ {x}
        /\ (\A y \in Indices(r) : y \in Nat /\ y <= x) /\ (\A y \in Indices(Tail(r)) : y < x)
    <3>1. Falling(r)
      BY <1>1, <2>1 DEF Right, Marks
    <3> QED BY <1>1, <1>4, <1>5, <3>1, IndexRest
  <2>5. Indices(r) \subseteq 1..n /\ x \in 1..n /\ ~crashed'
    <3>1. Indices(r) \subseteq 1..n
      BY <2>1, <2>3 DEF Right, Marks
    <3> QED BY <1>2, <1>4, <2>4, <3>1
  <2>6. \A i \in 1..n : heap'[a][i] = IF i = x THEN heap[a][n] ELSE heap[a][i]
    <3>1. \A i \in 1..n : i \in 1..Len(heap[a])
      BY <1>4
    <3> QED BY <1>4, <1>6, <2>5, <3>1 DEF Stored
  <2>7. Entries(heap'[a], n - 1, Added, removed, Indices(r) \ {x})
    <3>1. Entries(heap[a], n, Added, removed, Indices(r)) /\ n \in Nat
      BY <1>1, <1>4, <2>1, <2>3 DEF Right
    <3>2. \A y \in Indices(r) : y <= x
      BY <2>4
    <3> QED BY <2>4, <2>5, <2>6, <3>1, <3>2, EntriesSwap
  <2>8. OneAppend'
    BY <1>2, <2>1 DEF OneAppend, Appending
  <2>9. ~Ranging' /\ Window'
    BY <1>9 DEF Window, Ranging
  <2>10. Marks'
    <3>1. ToDrop' \subseteq 1..Upto'
      <4>1. \A y \in Indices(Tail(r)) : y \in 1..n /\ y < x
        BY <2>4, <2>5
      <4> QED BY <1>4, <2>3, <2>5, <4>1
    <3> QED BY <1>9, <2>4, <2>9, <3>1 DEF Marks
  <2> QED BY <1>1, <1>2, <2>1, <2>2, <2>3, <2>4, <2>5, <2>7, <2>8, <2>9, <2>10 DEF Right
<1> QED BY <1>10, <1>11, <1>12 DEF ListInv

\* Shrink: the list becomes as long as what is in place.
LEMMA ShrinkKeeps ==
  ASSUME ListInv, ~crashed, Shrink
  PROVE  ListInv'
<1>1. PICK n, r : n = slice.len /\ r = handling.remove
  OBVIOUS
<1>2. /\ handling.at = "shrink" /\ slice' = [slice EXCEPT !.len = n - 1]
      /\ handling' = IF Len(r) = 1 THEN Idle
                     ELSE [handling EXCEPT !.at = "copy", !.remove = Tail(r)]
      /\ UNCHANGED <<heap, append, removed, raced, crashed>>
  BY <1>1 DEF Shrink
<1>3. /\ handling \in LoopType /\ slice \in Slice /\ slice.arr \in 1..Len(heap)
      /\ n \in 0..Len(heap[slice.arr]) /\ Len(heap[slice.arr]) \in Nat /\ r \in Seq(Nat)
  <2>1. handling \in LoopType
    BY DEF ListInv, SubscribersOK, LoopType, Element
  <2> QED BY <1>1, <2>1, ListTyped
<1>4. n > 0 /\ r # <<>> /\ \A j \in 1..Len(r) : r[j] > 0
  BY <1>1, <1>2 DEF ListInv, Bounds, Removes
<1>5. /\ slice' \in Slice /\ slice'.arr = slice.arr /\ slice'.len = n - 1
      /\ n - 1 \in 0..Len(heap[slice.arr])
  <2>1. n - 1 \in Nat /\ n - 1 \in 0..Len(heap[slice.arr])
    BY <1>3, <1>4
  <2> QED BY <1>2, <1>3, <2>1 DEF Slice
<1>6. /\ Tail(r) \in Seq(Nat) /\ Len(Tail(r)) = Len(r) - 1 /\ Len(r) \in Nat /\ Len(r) > 0
      /\ \A j \in 1..Len(Tail(r)) : Tail(r)[j] > 0
  <2>1. PICK q : q = Tail(r)
    OBVIOUS
  <2>2. /\ q \in Seq(Nat) /\ Len(q) = Len(r) - 1 /\ Len(r) \in Nat /\ Len(r) > 0
        /\ \A j \in 1..Len(q) : q[j] = r[j + 1]
    BY <1>3, <1>4, <2>1, HeadTailProperties
  <2>3. \A j \in 1..Len(q) : q[j] > 0
    BY <1>4, <2>2
  <2> QED BY <2>1, <2>2, <2>3
<1>7. CASE Len(r) = 1
  <2>1. /\ handling' = Idle /\ handling' \in LoopType /\ handling'.at = "idle"
        /\ handling'.remove = <<>> /\ handling'.range = Nil /\ handling'.idx = 1
    BY <1>2, <1>7 DEF LoopType, Element, Idle, Nil, Slice
  <2>2. SubscribersOK'
    BY <1>2, <1>5, <2>1 DEF ListInv, SubscribersOK, LoopType, Element
  <2>3. InHeap(heap, Nil) /\ Nil.len = 0
    <3>1. 1 \in 1..Len(heap) /\ Len(heap[1]) \in Nat
      BY ListTyped
    <3> QED BY <3>1 DEF InHeap, Nil
  <2>4. InHeap(heap, slice)'
    BY <1>2, <1>3, <1>5 DEF InHeap
  <2>5. Bounds'
    BY <1>2, <2>1, <2>3, <2>4 DEF ListInv, Bounds, Calling, Appending, Removes
  <2>6. Indices(Tail(r)) = Indices(<<>>) /\ Falling(<<>>)
    BY <1>6, <1>7, IndexNone DEF Indices
  <2>7. ASSUME ~raced' PROVE Right'
    <3>1. Right /\ \A s \in Sub : ~Appending(s)
      BY <1>2, <2>7 DEF ListInv, Right, OneAppend, Removes
    <3>2. Added' = Added /\ ~Storing'
      BY <1>2, <3>1 DEF Added, Storing, Appending
    <3>3. Upto = n - 1 /\ Upto' = n - 1 /\ ToDrop' = Indices(<<>>) /\ ToDrop = ToDrop'
      BY <1>1, <1>2, <1>5, <2>1, <2>6, <3>2 DEF Upto, ToDrop
    <3>4. OneAppend'
      BY <1>2, <3>1 DEF OneAppend, Appending
    <3>5. ~Ranging' /\ Window'
      BY <2>1 DEF Window, Ranging
    <3>6. Marks'
      BY <2>1, <2>6, <3>1, <3>3, <3>5 DEF Right, Marks
    <3> QED BY <1>2, <1>5, <3>1, <3>2, <3>3, <3>4, <3>5, <3>6 DEF Right
  <2> QED BY <2>2, <2>5, <2>7 DEF ListInv
<1>8. CASE Len(r) # 1
  <2>1. /\ handling' \in LoopType /\ handling'.at = "copy" /\ handling'.remove = Tail(r)
        /\ handling'.range = handling.range /\ handling'.idx = handling.idx
    BY <1>2, <1>3, <1>6, <1>8 DEF LoopType
  <2>2. SubscribersOK'
    BY <1>2, <1>5, <2>1 DEF ListInv, SubscribersOK, LoopType, Element
  <2>3. InHeap(heap, slice)' /\ Tail(r) # <<>>
    <3>1. InHeap(heap, slice)'
      BY <1>2, <1>3, <1>5 DEF InHeap
    <3>2. PICK q : q = Tail(r)
      OBVIOUS
    <3>3. Len(q) # Len(<<>>)
      BY <1>6, <1>8, <3>2
    <3> QED BY <3>1, <3>2, <3>3
  <2>4. Bounds'
    BY <1>2, <1>6, <2>1, <2>3 DEF ListInv, Bounds, Calling, Appending, Removes
  <2>5. ASSUME ~raced' PROVE Right'
    <3>1. Right /\ \A s \in Sub : ~Appending(s)
      BY <1>2, <2>5 DEF ListInv, Right, OneAppend, Removes
    <3>2. Added' = Added /\ ~Storing'
      BY <1>2, <3>1 DEF Added, Storing, Appending
    <3>3. Upto = n - 1 /\ Upto' = n - 1 /\ ToDrop = Indices(Tail(r)) /\ ToDrop' = ToDrop
      BY <1>1, <1>2, <1>5, <2>1, <3>2 DEF Upto, ToDrop
    <3>4. OneAppend'
      BY <1>2, <3>1 DEF OneAppend, Appending
    <3>5. ~Ranging' /\ Window'
      BY <2>1 DEF Window, Ranging
    <3>6. Falling(Tail(r))
      BY <1>1, <1>3, <1>4, <3>1, IndexRest DEF Right, Marks
    <3>7. Marks'
      BY <2>1, <3>1, <3>3, <3>5, <3>6 DEF Right, Marks
    <3> QED BY <1>2, <1>5, <3>1, <3>2, <3>3, <3>4, <3>5, <3>7 DEF Right
  <2> QED BY <2>2, <2>4, <2>5 DEF ListInv
<1> QED BY <1>7, <1>8

-----------------------------------------------------------------------------
(***************************************************************************)
(* The web sockets.  Blame never falls on a web socket whose peer did not  *)
(* fail: what each goroutine is about to do says whose fault it is.        *)
(***************************************************************************)
Blamed ==
  /\ \A s \in Sub : peer[s] # "open" \/ serve[s] = "returned" \/ ping[s] = "sending" => s \in failed
  /\ handling.at = "signal" => handling.sub \in failed
  /\ removed \subseteq failed

WebInv == WebTypeOK /\ ListInv /\ Blamed

\* WebStart: initially the list is empty and no page is open.
LEMMA WebStart == WebInit => WebInv
<1> SUFFICES ASSUME WebInit PROVE WebInv
  OBVIOUS
<1>1. /\ heap = <<<<>>>> /\ slice = [arr |-> 1, len |-> 0] /\ removed = {}
      /\ append = [s \in Sub |-> [at |-> "new", slice |-> [arr |-> 1, len |-> 0]]]
      /\ handling = [at |-> "idle", range |-> [arr |-> 1, len |-> 0], idx |-> 1, sub |-> NoSub,
                     event |-> {}, remove |-> <<>>]
      /\ raced = FALSE /\ crashed = FALSE
  BY DEF WebInit, SubscribersInit, Nil, Idle
<1>2. /\ heap \in Seq(Seq(Sub \cup {NoSub})) /\ Len(heap) = 1 /\ heap[1] = <<>> /\ Len(heap[1]) = 0
  BY <1>1
<1>3. SubscribersOK
  <2>0. raced \in BOOLEAN /\ crashed \in BOOLEAN
    BY <1>1, Zenon
  <2>1. slice \in Slice /\ removed \subseteq Sub
    BY <1>1 DEF Slice
  <2>2. append \in [Sub -> [at : {"new", "read", "stored", "filled", "done"}, slice : Slice]]
    BY <1>1 DEF Slice
  <2>3. handling \in LoopType
    BY <1>1 DEF LoopType, Slice, Element
  <2> QED BY <1>2, <2>0, <2>1, <2>2, <2>3 DEF SubscribersOK, LoopType, Element
<1>4. Bounds
  <2>1. slice.arr = 1 /\ slice.len = 0 /\ handling.range = slice /\ handling.idx = 1
    BY <1>1
  <2>2. handling.at = "idle" /\ handling.remove = <<>> /\ \A s \in Sub : append[s].at = "new"
    BY <1>1
  <2> QED BY <1>2, <2>1, <2>2 DEF Bounds, InHeap, Calling, Appending, Removes
<1>5. Right
  <2>1. ~Storing /\ Added = {} /\ \A s \in Sub : ~Appending(s) /\ append[s].at = "new"
    BY <1>1 DEF Storing, Added, Appending
  <2>2. handling.at = "idle" /\ handling.remove = <<>> /\ ~crashed
    BY <1>1
  <2>3. Upto = 0 /\ ToDrop = {} /\ Falling(handling.remove)
    BY <1>1, <2>1, <2>2, IndexNone DEF Upto, ToDrop
  <2>4. Entries(heap[slice.arr], 0, {}, {}, {})
    BY DEF Entries
  <2>5. OneAppend
    BY <2>1 DEF OneAppend
  <2>6. Window /\ Marks
    BY <2>2, <2>3 DEF Window, Marks, Ranging
  <2> QED BY <1>1, <2>1, <2>2, <2>3, <2>4, <2>5, <2>6 DEF Right
<1>6. WebTypeOK
  BY <1>3, WebAssumption DEF WebTypeOK, WebInit
<1>7. Blamed
  BY <1>1 DEF Blamed, WebInit
<1> QED BY <1>3, <1>4, <1>5, <1>6, <1>7 DEF WebInv, ListInv

\* What is not the list keeps the list.
LEMMA ListUnchanged ==
  ASSUME ListInv, UNCHANGED subscribers
  PROVE  ListInv'
<1>1. UNCHANGED <<heap, slice, append, handling, removed, raced, crashed>>
  BY DEF subscribers, list
<1>2. SubscribersOK'
  BY <1>1 DEF ListInv, SubscribersOK
<1>3. Bounds'
  BY <1>1 DEF ListInv, Bounds, InHeap, Calling, Appending, Removes
<1>4. Upto' = Upto /\ ToDrop' = ToDrop /\ Added' = Added
  BY <1>1 DEF Upto, Storing, ToDrop, Added
<1>5. OneAppend <=> OneAppend'
  BY <1>1 DEF OneAppend, Appending, Removes
<1>6. (Window <=> Window') /\ (Marks <=> Marks')
  BY <1>1, <1>4 DEF Window, Marks, Ranging, Calling
<1>7. Right <=> Right'
  BY <1>1, <1>4, <1>5, <1>6 DEF Right
<1> QED BY <1>1, <1>2, <1>3, <1>7 DEF ListInv

\* The goroutines of the web sockets and their peers.
LEMMA SocketStep ==
  ASSUME WebInv, NEW s \in Sub, NEW how \in {"stalled", "broken"},
         \/ PeerFails(s, how) \/ PeerRecovers(s) \/ Upgrade(s) \/ Wait(s)
         \/ PingFails(s) \/ PingerSignals(s)
  PROVE  WebInv'
<1>1. WebTypeOK /\ ListInv /\ Blamed
  BY DEF WebInv
<1>2. UNCHANGED subscribers /\ UNCHANGED published
  BY DEF PeerFails, PeerRecovers, Upgrade, Wait, PingFails, PingerSignals
<1>3. ListInv' /\ UNCHANGED <<handling, removed>>
  BY <1>1, <1>2, ListUnchanged DEF subscribers
<1>4. ListInv' => SubscribersOK'
  BY DEF ListInv
<1>5. CASE PeerFails(s, how)
  BY <1>1, <1>2, <1>3, <1>4, <1>5 DEF WebInv, WebTypeOK, Blamed, PeerFails
<1>6. CASE PeerRecovers(s)
  BY <1>1, <1>2, <1>3, <1>4, <1>6 DEF WebInv, WebTypeOK, Blamed, PeerRecovers
<1>7. CASE Upgrade(s)
  BY <1>1, <1>2, <1>3, <1>4, <1>7 DEF WebInv, WebTypeOK, Blamed, Upgrade
<1>8. CASE Wait(s)
  BY <1>1, <1>2, <1>3, <1>4, <1>8 DEF WebInv, WebTypeOK, Blamed, Wait
<1>9. CASE PingFails(s)
  BY <1>1, <1>2, <1>3, <1>4, <1>9 DEF WebInv, WebTypeOK, Blamed, PingFails, WriteMayFail
<1>10. CASE PingerSignals(s)
  BY <1>1, <1>2, <1>3, <1>4, <1>10 DEF WebInv, WebTypeOK, Blamed, PingerSignals
<1> QED BY <1>5, <1>6, <1>7, <1>8, <1>9, <1>10

\* A step of the list alone, that neither removes anybody nor signals.
LEMMA QuietListStep ==
  ASSUME WebInv, ListInv', UNCHANGED web, published' \in 0..MaxPublished,
         removed' = removed, handling'.at = "signal" => handling'.sub \in failed
  PROVE  WebInv'
<1>1. SubscribersOK' /\ UNCHANGED <<peer, failed, serve, ping>>
  BY DEF WebInv, ListInv, web
<1> QED BY <1>1 DEF WebInv, WebTypeOK, Blamed

\* SubscribeStep: the steps of an append.
LEMMA SubscribeStep ==
  ASSUME WebInv, ~crashed, NEW s \in Sub, Subscribe(s)
  PROVE  WebInv'
<1>1. AppendReads(s) \/ StoreSlice(s) \/ StoreElement(s)
  BY DEF Subscribe
<1>2. ListInv'
  BY <1>1, AppendReadsKeeps, StoreSliceKeeps, StoreElementKeeps DEF WebInv
<1>3. removed' = removed /\ handling' = handling
  BY <1>1 DEF AppendReads, StoreSlice, StoreElement
<1>4. UNCHANGED web /\ published' \in 0..MaxPublished
  BY DEF Subscribe, WebInv, WebTypeOK
<1> QED BY <1>2, <1>3, <1>4, QuietListStep DEF WebInv, Blamed

\* ReceiveStep: handlePublish begins.
LEMMA ReceiveStep ==
  ASSUME WebInv, ~crashed, NEW event \in Event, ReceivePublish(event)
  PROVE  WebInv'
<1>1. event \in SUBSET Sub /\ MaxPublished \in Nat /\ published \in 0..MaxPublished
  BY WebAssumption DEF WebInv, WebTypeOK
<1>2. ListInv'
  BY <1>1, BeginRangeKeeps DEF WebInv, ReceivePublish
<1>3. published' \in 0..MaxPublished /\ UNCHANGED web
  BY <1>1 DEF ReceivePublish
<1>4. removed' = removed /\ handling'.at = "range"
  BY DEF ReceivePublish, BeginRange, Idle
<1> QED BY <1>2, <1>3, <1>4, QuietListStep

\* LoopStep: the steps of handlePublish and of the handlers it calls.
LEMMA LoopStep ==
  ASSUME WebInv, WebLoop
  PROVE  WebInv'
<1>1. ~crashed /\ ListInv /\ Blamed /\ WebTypeOK
  BY DEF WebInv, WebLoop
<1>2. handling \in LoopType /\ (Calling => handling.sub \in Sub)
  BY <1>1 DEF ListInv, SubscribersOK, LoopType, Element, Bounds
<1>3. CASE HandlePublishStep
  <2>1. /\ Visit \/ EndRange \/ CopyLast \/ Shrink
        /\ UNCHANGED <<web, published>>
    BY <1>3 DEF HandlePublishStep
  <2>2. ListInv'
    BY <1>1, <2>1, VisitKeeps, EndRangeKeeps, CopyLastKeeps, ShrinkKeeps
  <2>3. removed' = removed
    BY <2>1 DEF Visit, EndRange, CopyLast, Shrink
  <2>4. handling'.at # "signal"
    <3>1. CASE Visit
      BY <1>2, <3>1 DEF Visit, LoopType
    <3>2. CASE EndRange
      BY <1>2, <3>2 DEF EndRange, Idle, LoopType
    <3>3. CASE CopyLast
      BY <1>2, <3>3 DEF CopyLast, LoopType
    <3>4. CASE Shrink
      BY <1>2, <3>4 DEF Shrink, Idle, LoopType
    <3> QED BY <2>1, <3>1, <3>2, <3>3, <3>4
  <2> QED BY <1>1, <2>1, <2>2, <2>3, <2>4, QuietListStep DEF WebTypeOK
<1>4. CASE WriteMessage
  <2>1. Calling /\ HandlerReturns(FALSE) /\ UNCHANGED <<web, published>>
    BY <1>4 DEF WriteMessage, Calling
  <2>2. ListInv'
    BY <1>1, <2>1, HandlerReturnsKeeps
  <2>3. removed' = removed /\ handling'.at = "range"
    BY <1>2, <2>1 DEF HandlerReturns, LoopType
  <2> QED BY <1>1, <2>1, <2>2, <2>3, QuietListStep DEF WebTypeOK
<1>5. CASE WriteFails
  <2>1. /\ handling.at = "call" /\ (serve[handling.sub] = "returned" \/ peer[handling.sub] = "broken")
        /\ handling' = [handling EXCEPT !.at = "signal"]
        /\ UNCHANGED <<heap, slice, append, removed, raced, crashed>>
        /\ UNCHANGED <<web, published>>
    BY <1>5 DEF WriteFails, list
  <2>2. ListInv'
    BY <1>1, <2>1, SignalKeeps
  <2>3. handling'.sub = handling.sub
    BY <1>2, <2>1 DEF LoopType
  <2>4. handling.sub \in failed
    BY <1>1, <1>2, <2>1 DEF Blamed, Calling
  <2> QED BY <1>1, <2>1, <2>2, <2>3, <2>4, QuietListStep DEF WebTypeOK
<1>6. CASE SignalServe \/ SignalPinger
  <2>1. handling.at = "signal" /\ Calling /\ HandlerReturns(TRUE)
    BY <1>6 DEF SignalServe, SignalPinger, Calling
  <2>2. ListInv' /\ SubscribersOK'
    BY <1>1, <2>1, HandlerReturnsKeeps DEF ListInv
  <2>3. removed' = removed \cup {handling.sub} /\ handling'.at = "range" /\ handling.sub \in failed
    BY <1>1, <1>2, <2>1 DEF HandlerReturns, LoopType, Blamed
  <2>4. CASE SignalServe
    BY <1>1, <1>2, <2>1, <2>2, <2>3, <2>4 DEF SignalServe, WebInv, Blamed, WebTypeOK
  <2>5. CASE SignalPinger
    BY <1>1, <1>2, <2>1, <2>2, <2>3, <2>5 DEF SignalPinger, WebInv, Blamed, WebTypeOK
  <2> QED BY <1>6, <2>4, <2>5
<1> QED BY <1>3, <1>4, <1>5, <1>6 DEF WebLoop

\* WebStep: every step keeps the invariant.
LEMMA WebStep == WebInv /\ [WebNext]_webVars => WebInv'
<1> SUFFICES ASSUME WebInv, [WebNext]_webVars PROVE WebInv'
  OBVIOUS
<1>1. CASE UNCHANGED webVars
  <2>1. ListInv' /\ UNCHANGED web /\ published' = published /\ removed' = removed /\ handling' = handling
    BY <1>1, ListUnchanged DEF WebInv, webVars, subscribers
  <2>2. published' \in 0..MaxPublished /\ (handling'.at = "signal" => handling'.sub \in failed)
    BY <2>1 DEF WebInv, WebTypeOK, Blamed
  <2> QED BY <2>1, <2>2, QuietListStep
<1>2. ASSUME NEW s \in Sub,
             Serve(s) \/ Ping(s) \/ (~crashed /\ (Upgrade(s) \/ PeerRecovers(s)))
      PROVE  WebInv'
  BY <1>2, SocketStep, SubscribeStep DEF Serve, Ping
<1>3. ASSUME NEW s \in Sub, NEW how \in {"stalled", "broken"}, PeerFails(s, how)
      PROVE  WebInv'
  BY <1>3, SocketStep
<1>4. ASSUME NEW event \in Event, ~crashed, ReceivePublish(event)
      PROVE  WebInv'
  BY <1>4, ReceiveStep
<1>5. CASE WebLoop
  BY <1>5, LoopStep
<1> QED BY <1>1, <1>2, <1>3, <1>4, <1>5 DEF WebNext

\* SubscribersTyped: the list of subscribers, its appends and its range, and the
\* goroutines of the web sockets are well typed, also when appends race.
THEOREM SubscribersTyped == WebSpec => []WebTypeOK
<1>1. WebInv => WebTypeOK
  BY DEF WebInv
<1> QED BY <1>1, WebStart, WebStep, PTL DEF WebSpec

\* OthersUnharmed: apiSubscribe only closes a web socket, and its handler is only
\* removed, if the peer of that web socket failed.
THEOREM OthersUnharmed == WebSpec => []Isolation
<1>1. WebInv => Isolation
  BY DEF WebInv, Blamed, Isolation
<1> QED BY <1>1, WebStart, WebStep, PTL DEF WebSpec

\* SubscribersListed: without a race, handlePublish does not panic and leaves in
\* the list each subscriber that was added and not removed, once.
THEOREM SubscribersListed == WebSpec => []ListRight
<1>1. WebInv => ListRight
  <2> SUFFICES ASSUME WebInv, ~raced PROVE ListRight
    BY DEF ListRight
  <2>1. ListInv /\ Right /\ ~crashed
    BY DEF WebInv, ListInv, Right
  <2>2. ASSUME handling.at = "idle", \A s \in Sub : ~Appending(s)
        PROVE  /\ Len(Listed) = Cardinality(Subscribed)
               /\ {Listed[i] : i \in 1..Len(Listed)} = Subscribed
    <3>1. PICK a, n, l : a = heap[slice.arr] /\ n = slice.len /\ l = Listed
      OBVIOUS
    <3>2. Upto = n /\ ToDrop = {}
      BY <2>1, <2>2, <3>1, IndexNone DEF Upto, Storing, ToDrop, Right, Marks, Appending
    <3>3. Subscribed = Added \ removed
      BY DEF Subscribed, Added
    <3>4. a \in Seq(Element) /\ n \in 0..Len(a) /\ n \in Nat /\ Len(a) \in Nat
      BY <2>1, <3>1, ListTyped
    <3>5. {a[i] : i \in 1..n} = Added \ removed /\ Cardinality(Added \ removed) = n
      <4>1. Entries(heap[slice.arr], Upto, Added, removed, ToDrop)
        BY <2>1 DEF Right
      <4>2. Entries(a, n, Added, removed, {})
        BY <3>1, <3>2, <4>1
      <4> QED BY <3>4, <4>2, EntriesCount
    <3>6. Len(l) = n /\ \A i \in 1..n : l[i] = a[i]
      BY <3>1, <3>4 DEF Listed
    <3> QED BY <3>1, <3>3, <3>5, <3>6
  <2> QED BY <2>1, <2>2 DEF ListRight
<1> QED BY <1>1, WebStart, WebStep, PTL DEF WebSpec

=============================================================================
