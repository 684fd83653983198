----------------------------- MODULE Connection -----------------------------
(***************************************************************************)
(* One connection of the broker: how the bytes of a client are cut into    *)
(* messages, and how the goroutine that reads them learns of the end.      *)
(*                                                                         *)
(* A message is known by its rank among those the client has written.  The *)
(* bytes of the stream are cells: byte n of message k, its first Header    *)
(* bytes being the length.  TCP delivers them in pieces.                   *)
(***************************************************************************)
EXTENDS Integers, Sequences

CONSTANTS
  Header,    \* the bytes of a length
  MaxSize,   \* maxMessageSize
  Sizes,     \* the sizes of the messages that are written
  MaxSent    \* how many messages are written

ASSUME ConstAssumption ==
  /\ Header \in Nat \ {0}
  /\ MaxSize \in Nat
  /\ MaxSent \in Nat
  /\ Sizes \subseteq 0..(MaxSize + 1)

VARIABLES
  written,    \* the sizes of the messages the client has written
  stream,     \* the cells that are written and not read
  arrived,    \* how many of them the broker can read now
  peer,       \* the client's end of the connection
  at,         \* what Broker.handle is doing
  announced,  \* the length that was just read
  handled,    \* the messages given to handleMessage
  nameless,   \* the client has registered the service with no name
  fault       \* a read was short, or a message was too big

vars == <<written, stream, arrived, peer, at, announced, handled, nameless, fault>>

Cell == [msg : 1..MaxSent, n : 1..(Header + MaxSize + 1)]

TypeOK ==
  /\ written \in Seq(Sizes) /\ Len(written) <= MaxSent
  /\ stream \in Seq(Cell)
  /\ arrived \in 0..Len(stream)
  /\ peer \in {"open", "eof", "reset"}
  /\ at \in {"header", "payload", "nil", "removing", "gone"}
  /\ announced \in 0..MaxSize
  /\ handled \in Seq(1..MaxSent)
  /\ {nameless, fault} \subseteq BOOLEAN

Init ==
  /\ written = <<>> /\ stream = <<>> /\ arrived = 0
  /\ peer = "open"
  /\ at = "header" /\ announced = 0
  /\ handled = <<>>
  /\ nameless = FALSE /\ fault = FALSE

-----------------------------------------------------------------------------
(* The client's end, and the network *)

Cells(k, first, last) == [n \in 1..(last - first + 1) |-> [msg |-> k, n |-> first + n - 1]]

\* SendRawMessage: the length and the message in one write.
Write(size) ==
  /\ peer = "open"
  /\ Len(written) < MaxSent
  /\ written' = Append(written, size)
  /\ stream' = stream \o Cells(Len(written) + 1, 1, Header + size)
  /\ UNCHANGED <<arrived, peer, at, announced, handled, nameless, fault>>

Arrive ==
  /\ \E n \in (arrived + 1)..Len(stream) : arrived' = n
  /\ UNCHANGED <<written, stream, peer, at, announced, handled, nameless, fault>>

\* The client ends, perhaps within a write.
Close ==
  /\ peer = "open"
  /\ peer' = "eof"
  /\ \E n \in arrived..Len(stream) : stream' = SubSeq(stream, 1, n)
  /\ UNCHANGED <<written, arrived, at, announced, handled, nameless, fault>>

\* The connection is reset or times out.  What has arrived may still be read;
\* then one read fails with the error, and those after it report the end.
Reset ==
  /\ peer = "open"
  /\ peer' = "reset"
  /\ \E n \in 0..arrived : stream' = SubSeq(stream, 1, n) /\ arrived' = n
  /\ UNCHANGED <<written, at, announced, handled, nameless, fault>>

-----------------------------------------------------------------------------
(* RecvMessage, and Broker.handle around it *)

Consume(n) ==
  /\ stream' = SubSeq(stream, n + 1, Len(stream))
  /\ arrived' = arrived - n

\* The lengths that Header cells may be read as: bytes that are not a length
\* can be any number.  All that are too big are MaxSize + 1.
Announces(cells) ==
  LET k == cells[1].msg
  IN  IF cells = Cells(k, 1, Header) THEN {written[k]} ELSE 0..(MaxSize + 1)

TooBig_offByOne(len) == len >= MaxSize

TooBig(len) == len > MaxSize

\* The length is read; a message that is too big is an error, and its bytes
\* stay in the stream.
ReadLength ==
  /\ at = "header"
  /\ arrived >= Header
  /\ \E len \in Announces(SubSeq(stream, 1, Header)) :
       /\ fault' = (fault \/ len > MaxSize)
       /\ \/ /\ TooBig(len)
             /\ at' = "nil"
             /\ UNCHANGED announced
          \/ /\ ~TooBig(len)
             /\ at' = "payload"
             /\ announced' = len
  /\ Consume(Header)
  /\ UNCHANGED <<written, peer, handled, nameless>>

\* io.EOF: closed.
LengthEof_ignored ==
  /\ at = "header"
  /\ peer = "eof" /\ stream = <<>>
  /\ at' = "nil"
  /\ UNCHANGED <<written, stream, arrived, peer, announced, handled, nameless, fault>>

LengthEof ==
  /\ at = "header"
  /\ peer = "eof" /\ stream = <<>>
  /\ at' = "removing"
  /\ UNCHANGED <<written, stream, arrived, peer, announced, handled, nameless, fault>>

\* Any other error, with part of a length read or none: not closed.
LengthFails_onIdle ==
  /\ at = "header"
  /\ arrived = Len(stream) /\ arrived < Header
  /\ at' = "nil"
  /\ Consume(arrived)
  /\ UNCHANGED <<written, peer, announced, handled, nameless, fault>>

LengthFails ==
  /\ at = "header"
  /\ arrived = Len(stream) /\ arrived < Header
  /\ peer = "reset" \/ (peer = "eof" /\ arrived > 0)
  /\ at' = "nil"
  /\ peer' = "eof"
  /\ Consume(arrived)
  /\ UNCHANGED <<written, announced, handled, nameless, fault>>

\* The whole of a message that was read becomes that message; other bytes are
\* garbage.  Of what garbage may parse as, the registration of a service that
\* nobody asked for is kept.
Parse_loses(cells, len) ==
  \/ UNCHANGED <<handled, nameless>>
  \/ \E k \in 1..Len(written) :
       /\ len = written[k]
       /\ cells = Cells(k, Header + 1, Header + len)
       /\ handled' = Append(handled, k)
       /\ UNCHANGED nameless

Parse(cells, len) ==
  \/ \E k \in 1..Len(written) :
       /\ len = written[k]
       /\ cells = Cells(k, Header + 1, Header + len)
       /\ handled' = Append(handled, k)
       /\ UNCHANGED nameless
  \/ /\ ~ \E k \in 1..Len(written) :
            len = written[k] /\ cells = Cells(k, Header + 1, Header + len)
     /\ nameless' \in {nameless, TRUE}
     /\ UNCHANGED handled

\* One Read, which returns what has arrived up to the announced length.
ReadPayload ==
  /\ at = "payload"
  /\ announced > 0 /\ arrived > 0
  /\ LET n == IF arrived < announced THEN arrived ELSE announced
     IN  /\ Parse(SubSeq(stream, 1, n), announced)
         /\ Consume(n)
         /\ fault' = (fault \/ n < announced)
  /\ at' = "header"
  /\ UNCHANGED <<written, peer, announced>>

\* A Read of no bytes: the empty message is a registration with no name.
ReadEmpty ==
  /\ at = "payload"
  /\ announced = 0
  /\ at' = "nil"
  /\ UNCHANGED <<written, stream, arrived, peer, announced, handled, nameless, fault>>

\* The error is wrapped before it is compared with io.EOF: not closed.
PayloadFails ==
  /\ at = "payload"
  /\ announced > 0
  /\ peer # "open" /\ stream = <<>>
  /\ at' = "nil"
  /\ peer' = "eof"
  /\ UNCHANGED <<written, stream, arrived, announced, handled, nameless, fault>>

\* handleMessage with no message: its type is that of a registration.
HandleNil ==
  /\ at = "nil"
  /\ at' = "header"
  /\ nameless' = TRUE
  /\ UNCHANGED <<written, stream, arrived, peer, announced, handled, fault>>

\* removeClient
Remove ==
  /\ at = "removing"
  /\ at' = "gone"
  /\ nameless' = FALSE
  /\ UNCHANGED <<written, stream, arrived, peer, announced, handled, fault>>

Handle == ReadLength \/ LengthEof \/ LengthFails \/ ReadPayload \/ ReadEmpty
            \/ PayloadFails \/ HandleNil \/ Remove

Gone == at = "gone" /\ UNCHANGED vars

Next ==
  \/ \E size \in Sizes : Write(size)
  \/ Arrive \/ Close \/ Reset
  \/ Handle
  \/ Gone

\* What is written arrives, and the goroutine of the connection is scheduled.
Spec == Init /\ [][Next]_vars /\ WF_vars(Arrive) /\ WF_vars(Handle)

-----------------------------------------------------------------------------
(* Properties *)

Boundary(k) == IF stream = <<>> THEN TRUE ELSE Head(stream) = [msg |-> k, n |-> 1]

\* InStep: until a read is short or a message too big, Broker.handle starts to
\* read a length where the client's next message starts.
InStep ==
  ~fault /\ at = "header"
    => \E k \in 1..(Len(written) + 1) :
         Boundary(k) /\ \A i \in 1..Len(handled) : handled[i] < k

\* InOrder: until then, the messages that are handled are those that were
\* written, in order; only the empty ones are taken for registrations.
InOrder ==
  ~fault => /\ \A i, j \in 1..Len(handled) : i < j => handled[i] < handled[j]
            /\ \A k \in 1..Len(written) :
                 (\E i \in 1..Len(handled) : handled[i] > k) /\ written[k] > 0
                   => \E i \in 1..Len(handled) : handled[i] = k

\* OnlyBroken: a client gets registered under no name only when it asks for it,
\* or its connection is lost, or its stream is out of step.
OnlyBroken ==
  nameless => fault \/ peer # "open" \/ \E k \in 1..Len(written) : written[k] = 0

\* LossRemoves: a client whose connection ends is removed, wherever in a message
\* it ends, even if the stream is out of step or the end is reported as an error.
LossRemoves == peer # "open" ~> at = "gone"

\* ReadsMessages: while the connection is open and every message has an allowed
\* size, what RecvMessage returns is the next message of the client.
ReadsMessages ==
  peer = "open" /\ (\A k \in 1..Len(written) : written[k] \in 1..MaxSize)
    => ~nameless /\ handled = [i \in 1..Len(handled) |-> i]

=============================================================================
