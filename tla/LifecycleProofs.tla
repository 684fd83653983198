--------------------------- MODULE LifecycleProofs ---------------------------
(***************************************************************************)
(* For any number of shutdown requests and of foreign registrations, and   *)
(* any address: the process ends with success only when it was asked to or *)
(* lost a connection to itself, and panics for no other reason than the    *)
(* ones PanicExplained names.                                              *)
(***************************************************************************)
EXTENDS Lifecycle, TLAPS

(***************************************************************************)
(* How far the actors have come tells what has happened before: each waits *)
(* for a channel that the one it depends on closes.                        *)
(***************************************************************************)
Order ==
  /\ "started" \in ready <=> actor["broker"] \in {"select", "nil", "error", "returned"}
  /\ actor["broker"] = "select" => listening
  /\ serve # "off" => "started" \in ready
  /\ foreign > 0 => "started" \in ready
  /\ actor["cellaserv"] \in {"dial", "select"} => "started" \in ready
  /\ "withCellaserv" \in ready <=> registered \/ foreign > 0
  /\ actor["web"] \in {"dial", "select"} => "withCellaserv" \in ready

\* The connections of the process to itself.
Connected ==
  /\ conn["cellaserv"] # "none" =>
       "started" \in ready /\ actor["cellaserv"] \in {"select", "returned"}
  /\ registered => conn["cellaserv"] = "accepted"
  /\ conn["cellaserv"] = "reset" => BrokerLeft
  /\ conn["cellaserv"] # "elsewhere"
  /\ conn["web"] # "none" => "started" \in ready /\ actor["web"] \in {"select", "returned"}
  /\ conn["web"] = "reset" => BrokerLeft \/ addr # "default"
  /\ conn["web"] = "elsewhere" => addr # "default"

\* The web interface was up, so that both clients of the process have connected.
WebWasUp == actor["web"] = "returned" /\ actor["cellaserv"] \in {"select", "returned"}

\* Why the first actor returned, and why the broker does.
Cause == serve = "gone" \/ shutdowns > 0 \/ foreign > 0 \/ WebWasUp

Causes ==
  /\ "quit" \in ready => shutdowns > 0
  /\ group # "running" => first # "none"
  /\ first = "nil" => shutdowns > 0 \/ conn["cellaserv"] = "reset" \/ conn["web"] = "reset"
  /\ actor["broker"] = "nil" => shutdowns > 0 \/ first # "none"
  /\ first # "none" => Cause
  /\ BrokerLeft => Cause

IInv == TypeOK /\ Order /\ Connected /\ Causes /\ PanicExplained

LEMMA InitIInv == Init => IInv
<1> SUFFICES ASSUME Init PROVE IInv
  OBVIOUS
<1>1. {listening, registered, panicked} \subseteq BOOLEAN
  BY Zenon DEF Init
<1>2. TypeOK
  BY <1>1, ConstAssumption DEF Init, TypeOK, Actor, Own
<1>3. Order /\ Connected
  BY DEF Init, Order, Connected, Actor, Own
<1>4. Causes /\ PanicExplained
  BY DEF Init, Causes, BrokerLeft, PanicExplained, Actor
<1> QED BY <1>2, <1>3, <1>4 DEF IInv

-----------------------------------------------------------------------------
(* The steps of a live process *)

LEMMA ListenOkStep ==
  ASSUME IInv, ~panicked, ListenOk
  PROVE  IInv'
<1> USE DEF own
<1>0. TypeOK /\ Order /\ Connected /\ Causes
  BY DEF IInv
<1>1. {listening', registered', panicked'} \subseteq BOOLEAN
  BY <1>0, Zenon DEF TypeOK, ListenOk, Goes
<1>2. TypeOK'
  BY <1>0, <1>1, ConstAssumption DEF TypeOK, Order, Actor, Own, ListenOk, Goes
<1>3. Order'
  BY <1>0, ConstAssumption DEF TypeOK, Order, Connected, Actor, Own, ListenOk, Goes
<1>4. Connected'
  BY <1>0, ConstAssumption DEF TypeOK, Order, Connected, BrokerLeft, Actor, Own, ListenOk, Goes
<1>5. Causes'
  BY <1>0, ConstAssumption DEF TypeOK, Order, Connected, Causes, Cause, WebWasUp, BrokerLeft, Actor, Own, ListenOk, Goes
<1>6. PanicExplained'
  BY <1>0, ConstAssumption
     DEF TypeOK, Order, Connected, Causes, Cause, WebWasUp, BrokerLeft, PanicExplained, Registrations, Actor, Own, ListenOk, Goes
<1> QED BY <1>2, <1>3, <1>4, <1>5, <1>6 DEF IInv

LEMMA ListenFailsStep ==
  ASSUME IInv, ~panicked, ListenFails
  PROVE  IInv'
<1> USE DEF own
<1>0. TypeOK /\ Order /\ Connected /\ Causes
  BY DEF IInv
<1>1. {listening', registered', panicked'} \subseteq BOOLEAN
  BY <1>0, Zenon DEF TypeOK, ListenFails, Goes
<1>2. TypeOK'
  BY <1>0, <1>1, ConstAssumption DEF TypeOK, Order, Actor, Own, ListenFails, Goes
<1>3. Order'
  BY <1>0, ConstAssumption DEF TypeOK, Order, Connected, Actor, Own, ListenFails, Goes
<1>4. Connected'
  BY <1>0, ConstAssumption DEF TypeOK, Order, Connected, BrokerLeft, Actor, Own, ListenFails, Goes
<1>5. Causes'
  BY <1>0, ConstAssumption DEF TypeOK, Order, Connected, Causes, Cause, WebWasUp, BrokerLeft, Actor, Own, ListenFails, Goes
<1>6. PanicExplained'
  BY <1>0, ConstAssumption
     DEF TypeOK, Order, Connected, Causes, Cause, WebWasUp, BrokerLeft, PanicExplained, Registrations, Actor, Own, ListenFails, Goes
<1> QED BY <1>2, <1>3, <1>4, <1>5, <1>6 DEF IInv

LEMMA AcceptFailsStep ==
  ASSUME IInv, ~panicked, AcceptFails
  PROVE  IInv'
<1> USE DEF own
<1>0. TypeOK /\ Order /\ Connected /\ Causes
  BY DEF IInv
<1>1. {listening', registered', panicked'} \subseteq BOOLEAN
  BY <1>0, Zenon DEF TypeOK, AcceptFails
<1>2. TypeOK'
  BY <1>0, <1>1, ConstAssumption DEF TypeOK, Order, Actor, Own, AcceptFails
<1>3. Order'
  BY <1>0, ConstAssumption DEF TypeOK, Order, Connected, Actor, Own, AcceptFails
<1>4. Connected'
  BY <1>0, ConstAssumption DEF TypeOK, Order, Connected, BrokerLeft, Actor, Own, AcceptFails
<1>5. Causes'
  BY <1>0, ConstAssumption DEF TypeOK, Order, Connected, Causes, Cause, WebWasUp, BrokerLeft, Actor, Own, AcceptFails
<1>6. PanicExplained'
  BY <1>0, ConstAssumption
     DEF TypeOK, Order, Connected, Causes, Cause, WebWasUp, BrokerLeft, PanicExplained, Registrations, Actor, Own, AcceptFails
<1> QED BY <1>2, <1>3, <1>4, <1>5, <1>6 DEF IInv

LEMMA BrokerFailsStep ==
  ASSUME IInv, ~panicked, BrokerFails
  PROVE  IInv'
<1> USE DEF own
<1>0. TypeOK /\ Order /\ Connected /\ Causes
  BY DEF IInv
<1>1. {listening', registered', panicked'} \subseteq BOOLEAN
  BY <1>0, Zenon DEF TypeOK, BrokerFails, Goes
<1>2. TypeOK'
  BY <1>0, <1>1, ConstAssumption DEF TypeOK, Order, Actor, Own, BrokerFails, Goes
<1>3. Order'
  BY <1>0, ConstAssumption DEF TypeOK, Order, Connected, Actor, Own, BrokerFails, Goes
<1>4. Connected'
  BY <1>0, ConstAssumption DEF TypeOK, Order, Connected, BrokerLeft, Actor, Own, BrokerFails, Goes
<1>5. Causes'
  BY <1>0, ConstAssumption DEF TypeOK, Order, Connected, Causes, Cause, WebWasUp, BrokerLeft, Actor, Own, BrokerFails, Goes
<1>6. PanicExplained'
  BY <1>0, ConstAssumption
     DEF TypeOK, Order, Connected, Causes, Cause, WebWasUp, BrokerLeft, PanicExplained, Registrations, Actor, Own, BrokerFails, Goes
<1> QED BY <1>2, <1>3, <1>4, <1>5, <1>6 DEF IInv

LEMMA BrokerStopsStep ==
  ASSUME IInv, ~panicked, BrokerStops
  PROVE  IInv'
<1> USE DEF own
<1>0. TypeOK /\ Order /\ Connected /\ Causes
  BY DEF IInv
<1>1. {listening', registered', panicked'} \subseteq BOOLEAN
  BY <1>0, Zenon DEF TypeOK, BrokerStops, Goes, Cancelled
<1>2. TypeOK'
  BY <1>0, <1>1, ConstAssumption DEF TypeOK, Order, Actor, Own, BrokerStops, Goes, Cancelled
<1>3. Order'
  BY <1>0, ConstAssumption DEF TypeOK, Order, Connected, Actor, Own, BrokerStops, Goes, Cancelled
<1>4. Connected'
  BY <1>0, ConstAssumption DEF TypeOK, Order, Connected, BrokerLeft, Actor, Own, BrokerStops, Goes, Cancelled
<1>5. Causes'
  BY <1>0, ConstAssumption DEF TypeOK, Order, Connected, Causes, Cause, WebWasUp, BrokerLeft, Actor, Own, BrokerStops, Goes, Cancelled
<1>6. PanicExplained'
  BY <1>0, ConstAssumption
     DEF TypeOK, Order, Connected, Causes, Cause, WebWasUp, BrokerLeft, PanicExplained, Registrations, Actor, Own, BrokerStops, Goes, Cancelled
<1> QED BY <1>2, <1>3, <1>4, <1>5, <1>6 DEF IInv

LEMMA BrokerReturnsStep ==
  ASSUME IInv, ~panicked, BrokerReturns
  PROVE  IInv'
<1> USE DEF own
<1>0. TypeOK /\ Order /\ Connected /\ Causes
  BY DEF IInv
<1>1. {listening', registered', panicked'} \subseteq BOOLEAN
  BY <1>0, Zenon DEF TypeOK, BrokerReturns, Return, Goes
<1>2. TypeOK'
  BY <1>0, <1>1, ConstAssumption DEF TypeOK, Order, Actor, Own, BrokerReturns, Return, Goes
<1>3. Order'
  BY <1>0, ConstAssumption DEF TypeOK, Order, Connected, Actor, Own, BrokerReturns, Return, Goes
<1>4. Connected'
  BY <1>0, ConstAssumption DEF TypeOK, Order, Connected, BrokerLeft, Actor, Own, BrokerReturns, Return, Goes
<1>5. Causes'
  BY <1>0, ConstAssumption DEF TypeOK, Order, Connected, Causes, Cause, WebWasUp, BrokerLeft, Actor, Own, BrokerReturns, Return, Goes
<1>6. PanicExplained'
  BY <1>0, ConstAssumption
     DEF TypeOK, Order, Connected, Causes, Cause, WebWasUp, BrokerLeft, PanicExplained, Registrations, Actor, Own, BrokerReturns, Return, Goes
<1> QED BY <1>2, <1>3, <1>4, <1>5, <1>6 DEF IInv

LEMMA RegisterCellaservStep ==
  ASSUME IInv, ~panicked, RegisterCellaserv
  PROVE  IInv'
<1> USE DEF own
<1>0. TypeOK /\ Order /\ Connected /\ Causes
  BY DEF IInv
<1>1. {listening', registered', panicked'} \subseteq BOOLEAN
  BY <1>0 DEF TypeOK, RegisterCellaserv, HandleRegister
<1>2. TypeOK'
  BY <1>0, <1>1, ConstAssumption DEF TypeOK, Order, Actor, Own, RegisterCellaserv, HandleRegister
<1>3. Order'
  BY <1>0, ConstAssumption DEF TypeOK, Order, Connected, Actor, Own, RegisterCellaserv, HandleRegister
<1>4. Connected'
  BY <1>0, ConstAssumption DEF TypeOK, Order, Connected, BrokerLeft, Actor, Own, RegisterCellaserv, HandleRegister
<1>5. Causes'
  BY <1>0, ConstAssumption DEF TypeOK, Order, Connected, Causes, Cause, WebWasUp, BrokerLeft, Actor, Own, RegisterCellaserv, HandleRegister
<1>6. PanicExplained'
  BY <1>0, ConstAssumption
     DEF TypeOK, Order, Connected, Causes, Cause, WebWasUp, BrokerLeft, PanicExplained, Registrations, Actor, Own, RegisterCellaserv, HandleRegister
<1> QED BY <1>2, <1>3, <1>4, <1>5, <1>6 DEF IInv

LEMMA ForeignRegistersStep ==
  ASSUME IInv, ~panicked, ForeignRegisters
  PROVE  IInv'
<1> USE DEF own
<1>0. TypeOK /\ Order /\ Connected /\ Causes
  BY DEF IInv
<1>1. {listening', registered', panicked'} \subseteq BOOLEAN
  BY <1>0 DEF TypeOK, ForeignRegisters, HandleRegister
<1>2. TypeOK'
  BY <1>0, <1>1, ConstAssumption DEF TypeOK, Order, Actor, Own, ForeignRegisters, HandleRegister
<1>3. Order'
  BY <1>0, ConstAssumption DEF TypeOK, Order, Connected, Actor, Own, ForeignRegisters, HandleRegister
<1>4. Connected'
  BY <1>0, ConstAssumption DEF TypeOK, Order, Connected, BrokerLeft, Actor, Own, ForeignRegisters, HandleRegister
<1>5. Causes'
  BY <1>0, ConstAssumption DEF TypeOK, Order, Connected, Causes, Cause, WebWasUp, BrokerLeft, Actor, Own, ForeignRegisters, HandleRegister
<1>6. PanicExplained'
  BY <1>0, ConstAssumption
     DEF TypeOK, Order, Connected, Causes, Cause, WebWasUp, BrokerLeft, PanicExplained, Registrations, Actor, Own, ForeignRegisters, HandleRegister
<1> QED BY <1>2, <1>3, <1>4, <1>5, <1>6 DEF IInv

LEMMA CellaservBeginsStep ==
  ASSUME IInv, ~panicked, CellaservBegins
  PROVE  IInv'
<1> USE DEF own
<1>0. TypeOK /\ Order /\ Connected /\ Causes
  BY DEF IInv
<1>1. {listening', registered', panicked'} \subseteq BOOLEAN
  BY <1>0, Zenon DEF TypeOK, CellaservBegins, Begins, Return, Goes, Cancelled
<1>2. TypeOK'
  BY <1>0, <1>1, ConstAssumption DEF TypeOK, Order, Actor, Own, CellaservBegins, Begins, Return, Goes, Cancelled
<1>3. Order'
  BY <1>0, ConstAssumption DEF TypeOK, Order, Connected, Actor, Own, CellaservBegins, Begins, Return, Goes, Cancelled
<1>4. Connected'
  BY <1>0, ConstAssumption DEF TypeOK, Order, Connected, BrokerLeft, Actor, Own, CellaservBegins, Begins, Return, Goes, Cancelled
<1>5. Causes'
  BY <1>0, ConstAssumption DEF TypeOK, Order, Connected, Causes, Cause, WebWasUp, BrokerLeft, Actor, Own, CellaservBegins, Begins, Return, Goes, Cancelled
<1>6. PanicExplained'
  BY <1>0, ConstAssumption
     DEF TypeOK, Order, Connected, Causes, Cause, WebWasUp, BrokerLeft, PanicExplained, Registrations, Actor, Own, CellaservBegins, Begins, Return, Goes, Cancelled
<1> QED BY <1>2, <1>3, <1>4, <1>5, <1>6 DEF IInv

LEMMA CellaservDialsStep ==
  ASSUME IInv, ~panicked, CellaservDials
  PROVE  IInv'
<1> USE DEF own
<1>0. TypeOK /\ Order /\ Connected /\ Causes
  BY DEF IInv
<1>1. {listening', registered', panicked'} \subseteq BOOLEAN
  BY <1>0, Zenon DEF TypeOK, CellaservDials, Dials, Goes
<1>2. TypeOK'
  BY <1>0, <1>1, ConstAssumption DEF TypeOK, Order, Actor, Own, CellaservDials, Dials, Goes
<1>3. Order'
  BY <1>0, ConstAssumption DEF TypeOK, Order, Connected, Actor, Own, CellaservDials, Dials, Goes
<1>4. Connected'
  BY <1>0, ConstAssumption DEF TypeOK, Order, Connected, BrokerLeft, Actor, Own, CellaservDials, Dials, Goes
<1>5. Causes'
  BY <1>0, ConstAssumption DEF TypeOK, Order, Connected, Causes, Cause, WebWasUp, BrokerLeft, Actor, Own, CellaservDials, Dials, Goes
<1>6. PanicExplained'
  BY <1>0, ConstAssumption
     DEF TypeOK, Order, Connected, Causes, Cause, WebWasUp, BrokerLeft, PanicExplained, Registrations, Actor, Own, CellaservDials, Dials, Goes
<1> QED BY <1>2, <1>3, <1>4, <1>5, <1>6 DEF IInv

LEMMA CellaservStopsStep ==
  ASSUME IInv, ~panicked, CellaservStops
  PROVE  IInv'
<1> USE DEF own
<1>0. TypeOK /\ Order /\ Connected /\ Causes
  BY DEF IInv
<1>1. {listening', registered', panicked'} \subseteq BOOLEAN
  BY <1>0, Zenon DEF TypeOK, CellaservStops, Return, Goes, Cancelled
<1>2. TypeOK'
  BY <1>0, <1>1, ConstAssumption DEF TypeOK, Order, Actor, Own, CellaservStops, Return, Goes, Cancelled
<1>3. Order'
  BY <1>0, ConstAssumption DEF TypeOK, Order, Connected, Actor, Own, CellaservStops, Return, Goes, Cancelled
<1>4. Connected'
  BY <1>0, ConstAssumption DEF TypeOK, Order, Connected, BrokerLeft, Actor, Own, CellaservStops, Return, Goes, Cancelled
<1>5. Causes'
  BY <1>0, ConstAssumption DEF TypeOK, Order, Connected, Causes, Cause, WebWasUp, BrokerLeft, Actor, Own, CellaservStops, Return, Goes, Cancelled
<1>6. PanicExplained'
  BY <1>0, ConstAssumption
     DEF TypeOK, Order, Connected, Causes, Cause, WebWasUp, BrokerLeft, PanicExplained, Registrations, Actor, Own, CellaservStops, Return, Goes, Cancelled
<1> QED BY <1>2, <1>3, <1>4, <1>5, <1>6 DEF IInv

LEMMA ShutdownStep ==
  ASSUME IInv, ~panicked, Shutdown
  PROVE  IInv'
<1> USE DEF own
<1>0. TypeOK /\ Order /\ Connected /\ Causes
  BY DEF IInv
<1>1. {listening', registered', panicked'} \subseteq BOOLEAN
  BY <1>0 DEF TypeOK, Shutdown
<1>2. TypeOK'
  BY <1>0, <1>1, ConstAssumption DEF TypeOK, Order, Actor, Own, Shutdown
<1>3. Order'
  BY <1>0, ConstAssumption DEF TypeOK, Order, Connected, Actor, Own, Shutdown
<1>4. Connected'
  BY <1>0, ConstAssumption DEF TypeOK, Order, Connected, BrokerLeft, Actor, Own, Shutdown
<1>5. Causes'
  BY <1>0, ConstAssumption DEF TypeOK, Order, Connected, Causes, Cause, WebWasUp, BrokerLeft, Actor, Own, Shutdown
<1>6. PanicExplained'
  BY <1>0, ConstAssumption
     DEF TypeOK, Order, Connected, Causes, Cause, WebWasUp, BrokerLeft, PanicExplained, Registrations, Actor, Own, Shutdown
<1> QED BY <1>2, <1>3, <1>4, <1>5, <1>6 DEF IInv

LEMMA WebBeginsStep ==
  ASSUME IInv, ~panicked, WebBegins
  PROVE  IInv'
<1> USE DEF own
<1>0. TypeOK /\ Order /\ Connected /\ Causes
  BY DEF IInv
<1>1. {listening', registered', panicked'} \subseteq BOOLEAN
  BY <1>0, Zenon DEF TypeOK, WebBegins, Begins, Return, Goes, Cancelled
<1>2. TypeOK'
  BY <1>0, <1>1, ConstAssumption DEF TypeOK, Order, Actor, Own, WebBegins, Begins, Return, Goes, Cancelled
<1>3. Order'
  BY <1>0, ConstAssumption DEF TypeOK, Order, Connected, Actor, Own, WebBegins, Begins, Return, Goes, Cancelled
<1>4. Connected'
  BY <1>0, ConstAssumption DEF TypeOK, Order, Connected, BrokerLeft, Actor, Own, WebBegins, Begins, Return, Goes, Cancelled
<1>5. Causes'
  BY <1>0, ConstAssumption DEF TypeOK, Order, Connected, Causes, Cause, WebWasUp, BrokerLeft, Actor, Own, WebBegins, Begins, Return, Goes, Cancelled
<1>6. PanicExplained'
  BY <1>0, ConstAssumption
     DEF TypeOK, Order, Connected, Causes, Cause, WebWasUp, BrokerLeft, PanicExplained, Registrations, Actor, Own, WebBegins, Begins, Return, Goes, Cancelled
<1> QED BY <1>2, <1>3, <1>4, <1>5, <1>6 DEF IInv

LEMMA WebDialsStep ==
  ASSUME IInv, ~panicked, WebDials
  PROVE  IInv'
<1> USE DEF own
<1>0. TypeOK /\ Order /\ Connected /\ Causes
  BY DEF IInv
<1>1. {listening', registered', panicked'} \subseteq BOOLEAN
  BY <1>0, Zenon DEF TypeOK, WebDials, Dials, Goes
<1>2. TypeOK'
  BY <1>0, <1>1, ConstAssumption DEF TypeOK, Order, Actor, Own, WebDials, Dials, Goes
<1>3. Order'
  BY <1>0, ConstAssumption DEF TypeOK, Order, Connected, Actor, Own, WebDials, Dials, Goes
<1>4. Connected'
  BY <1>0, ConstAssumption DEF TypeOK, Order, Connected, BrokerLeft, Actor, Own, WebDials, Dials, Goes
<1>5. Causes'
  <2>1. /\ UNCHANGED <<serve, ready, shutdowns, foreign, first, group, conn["cellaserv"]>>
        /\ UNCHANGED <<actor["broker"], actor["cellaserv"]>>
    BY <1>0 DEF TypeOK, Actor, Own, WebDials, Dials, Goes
  <2>2. conn["web"] # "reset" /\ actor["web"] = "dial"
    BY <1>0 DEF Connected, WebDials, Dials
  <2> QED BY <1>0, <2>1, <2>2 DEF Causes, Cause, WebWasUp, BrokerLeft
<1>6. PanicExplained'
  BY <1>0, ConstAssumption
     DEF TypeOK, Order, Connected, Causes, Cause, WebWasUp, BrokerLeft, PanicExplained, Registrations, Actor, Own, WebDials, Dials, Goes
<1> QED BY <1>2, <1>3, <1>4, <1>5, <1>6 DEF IInv

LEMMA HttpFailsStep ==
  ASSUME IInv, ~panicked, HttpFails
  PROVE  IInv'
<1> USE DEF own
<1>0. TypeOK /\ Order /\ Connected /\ Causes
  BY DEF IInv
<1>1. {listening', registered', panicked'} \subseteq BOOLEAN
  BY <1>0, Zenon DEF TypeOK, HttpFails
<1>2. TypeOK'
  BY <1>0, <1>1, ConstAssumption DEF TypeOK, Order, Actor, Own, HttpFails
<1>3. Order'
  BY <1>0, ConstAssumption DEF TypeOK, Order, Connected, Actor, Own, HttpFails
<1>4. Connected'
  BY <1>0, ConstAssumption DEF TypeOK, Order, Connected, BrokerLeft, Actor, Own, HttpFails
<1>5. Causes'
  BY <1>0, ConstAssumption DEF TypeOK, Order, Connected, Causes, Cause, WebWasUp, BrokerLeft, Actor, Own, HttpFails
<1>6. PanicExplained'
  BY <1>0, ConstAssumption
     DEF TypeOK, Order, Connected, Causes, Cause, WebWasUp, BrokerLeft, PanicExplained, Registrations, Actor, Own, HttpFails
<1> QED BY <1>2, <1>3, <1>4, <1>5, <1>6 DEF IInv

LEMMA WebFailsStep ==
  ASSUME IInv, ~panicked, WebFails
  PROVE  IInv'
<1> USE DEF own
<1>0. TypeOK /\ Order /\ Connected /\ Causes
  BY DEF IInv
<1>1. {listening', registered', panicked'} \subseteq BOOLEAN
  BY <1>0, Zenon DEF TypeOK, WebFails, Return, Goes
<1>2. TypeOK'
  BY <1>0, <1>1, ConstAssumption DEF TypeOK, Order, Actor, Own, WebFails, Return, Goes
<1>3. Order'
  BY <1>0, ConstAssumption DEF TypeOK, Order, Connected, Actor, Own, WebFails, Return, Goes
<1>4. Connected'
  BY <1>0, ConstAssumption DEF TypeOK, Order, Connected, BrokerLeft, Actor, Own, WebFails, Return, Goes
<1>5. Causes'
  BY <1>0, ConstAssumption DEF TypeOK, Order, Connected, Causes, Cause, WebWasUp, BrokerLeft, Actor, Own, WebFails, Return, Goes
<1>6. PanicExplained'
  BY <1>0, ConstAssumption
     DEF TypeOK, Order, Connected, Causes, Cause, WebWasUp, BrokerLeft, PanicExplained, Registrations, Actor, Own, WebFails, Return, Goes
<1> QED BY <1>2, <1>3, <1>4, <1>5, <1>6 DEF IInv

LEMMA WebStopsStep ==
  ASSUME IInv, ~panicked, WebStops
  PROVE  IInv'
<1> USE DEF own
<1>0. TypeOK /\ Order /\ Connected /\ Causes
  BY DEF IInv
<1>1. {listening', registered', panicked'} \subseteq BOOLEAN
  BY <1>0, Zenon DEF TypeOK, WebStops, Return, Goes, Cancelled
<1>2. TypeOK'
  BY <1>0, <1>1, ConstAssumption DEF TypeOK, Order, Actor, Own, WebStops, Return, Goes, Cancelled
<1>3. Order'
  BY <1>0, ConstAssumption DEF TypeOK, Order, Connected, Actor, Own, WebStops, Return, Goes, Cancelled
<1>4. Connected'
  BY <1>0, ConstAssumption DEF TypeOK, Order, Connected, BrokerLeft, Actor, Own, WebStops, Return, Goes, Cancelled
<1>5. Causes'
  BY <1>0, ConstAssumption DEF TypeOK, Order, Connected, Causes, Cause, WebWasUp, BrokerLeft, Actor, Own, WebStops, Return, Goes, Cancelled
<1>6. PanicExplained'
  BY <1>0, ConstAssumption
     DEF TypeOK, Order, Connected, Causes, Cause, WebWasUp, BrokerLeft, PanicExplained, Registrations, Actor, Own, WebStops, Return, Goes, Cancelled
<1> QED BY <1>2, <1>3, <1>4, <1>5, <1>6 DEF IInv

LEMMA InterruptStep ==
  ASSUME IInv, ~panicked, Interrupt
  PROVE  IInv'
<1> USE DEF own
<1>0. TypeOK /\ Order /\ Connected /\ Causes
  BY DEF IInv
<1>1. {listening', registered', panicked'} \subseteq BOOLEAN
  BY <1>0, Zenon DEF TypeOK, Interrupt
<1>2. TypeOK'
  BY <1>0, <1>1, ConstAssumption DEF TypeOK, Order, Actor, Own, Interrupt
<1>3. Order'
  BY <1>0, ConstAssumption DEF TypeOK, Order, Connected, Actor, Own, Interrupt
<1>4. Connected'
  BY <1>0, ConstAssumption DEF TypeOK, Order, Connected, BrokerLeft, Actor, Own, Interrupt
<1>5. Causes'
  BY <1>0, ConstAssumption DEF TypeOK, Order, Connected, Causes, Cause, WebWasUp, BrokerLeft, Actor, Own, Interrupt
<1>6. PanicExplained'
  BY <1>0, ConstAssumption
     DEF TypeOK, Order, Connected, Causes, Cause, WebWasUp, BrokerLeft, PanicExplained, Registrations, Actor, Own, Interrupt
<1> QED BY <1>2, <1>3, <1>4, <1>5, <1>6 DEF IInv

LEMMA EndStep ==
  ASSUME IInv, ~panicked, End
  PROVE  IInv'
<1> USE DEF own
<1>0. TypeOK /\ Order /\ Connected /\ Causes
  BY DEF IInv
<1>1. {listening', registered', panicked'} \subseteq BOOLEAN
  BY <1>0, Zenon DEF TypeOK, End
<1>2. TypeOK'
  BY <1>0, <1>1, ConstAssumption DEF TypeOK, Order, Actor, Own, End
<1>3. Order'
  BY <1>0, ConstAssumption DEF TypeOK, Order, Connected, Actor, Own, End
<1>4. Connected'
  BY <1>0, ConstAssumption DEF TypeOK, Order, Connected, BrokerLeft, Actor, Own, End
<1>5. Causes'
  BY <1>0, ConstAssumption DEF TypeOK, Order, Connected, Causes, Cause, WebWasUp, BrokerLeft, Actor, Own, End
<1>6. PanicExplained'
  BY <1>0, ConstAssumption
     DEF TypeOK, Order, Connected, Causes, Cause, WebWasUp, BrokerLeft, PanicExplained, Registrations, Actor, Own, End
<1> QED BY <1>2, <1>3, <1>4, <1>5, <1>6 DEF IInv

LEMMA AcceptStep ==
  ASSUME IInv, ~panicked, NEW a \in Own, Accept(a)
  PROVE  IInv'
<1> USE DEF own
<1>0. TypeOK /\ Order /\ Connected /\ Causes
  BY DEF IInv
<1>1. {listening', registered', panicked'} \subseteq BOOLEAN
  BY <1>0, Zenon DEF TypeOK, Accept
<1>2. TypeOK'
  BY <1>0, <1>1, ConstAssumption DEF TypeOK, Order, Actor, Own, Accept
<1>3. Order'
  BY <1>0, ConstAssumption DEF TypeOK, Order, Connected, Actor, Own, Accept
<1>4. Connected'
  BY <1>0, ConstAssumption DEF TypeOK, Order, Connected, BrokerLeft, Actor, Own, Accept
<1>5. Causes'
  BY <1>0, ConstAssumption DEF TypeOK, Order, Connected, Causes, Cause, WebWasUp, BrokerLeft, Actor, Own, Accept
<1>6. PanicExplained'
  BY <1>0, ConstAssumption
     DEF TypeOK, Order, Connected, Causes, Cause, WebWasUp, BrokerLeft, PanicExplained, Registrations, Actor, Own, Accept
<1> QED BY <1>2, <1>3, <1>4, <1>5, <1>6 DEF IInv

LEMMA ResetStep ==
  ASSUME IInv, ~panicked, NEW a \in Own, Reset(a)
  PROVE  IInv'
<1> USE DEF own
<1>0. TypeOK /\ Order /\ Connected /\ Causes
  BY DEF IInv
<1>1. {listening', registered', panicked'} \subseteq BOOLEAN
  BY <1>0, Zenon DEF TypeOK, Reset
<1>2. TypeOK'
  BY <1>0, <1>1, ConstAssumption DEF TypeOK, Order, Actor, Own, Reset
<1>3. Order'
  BY <1>0, ConstAssumption DEF TypeOK, Order, Connected, Actor, Own, Reset
<1>4. Connected'
  BY <1>0, ConstAssumption DEF TypeOK, Order, Connected, BrokerLeft, Actor, Own, Reset
<1>5. Causes'
  BY <1>0, ConstAssumption DEF TypeOK, Order, Connected, Causes, Cause, WebWasUp, BrokerLeft, Actor, Own, Reset
<1>6. PanicExplained'
  BY <1>0, ConstAssumption
     DEF TypeOK, Order, Connected, Causes, Cause, WebWasUp, BrokerLeft, PanicExplained, Registrations, Actor, Own, Reset
<1> QED BY <1>2, <1>3, <1>4, <1>5, <1>6 DEF IInv

LEMMA NextIInv == IInv /\ [Next]_vars => IInv'
<1> SUFFICES ASSUME IInv, [Next]_vars PROVE IInv'
  OBVIOUS
<1>1. CASE UNCHANGED vars
  BY <1>1 DEF vars, own, IInv, TypeOK, Order, Connected, Causes, Cause, WebWasUp, BrokerLeft,
              PanicExplained, Registrations
<1>2. CASE Over
  BY <1>1, <1>2 DEF Over
<1>3. CASE Alive /\ (BrokerRuns \/ Connections \/ AcceptFails \/ ForeignRegisters)
  BY <1>3, ListenOkStep, ListenFailsStep, BrokerFailsStep, BrokerStopsStep, BrokerReturnsStep,
     AcceptStep, RegisterCellaservStep, ForeignRegistersStep, AcceptFailsStep
     DEF Alive, BrokerRuns, Connections
<1>4. CASE Alive /\ (CellaservRuns \/ Shutdown)
  BY <1>4, CellaservBeginsStep, CellaservDialsStep, CellaservStopsStep, ShutdownStep
     DEF Alive, CellaservRuns
<1>5. CASE Alive /\ (WebRuns \/ HttpFails)
  BY <1>5, WebBeginsStep, WebDialsStep, WebFailsStep, WebStopsStep, HttpFailsStep
     DEF Alive, WebRuns
<1>6. CASE Alive /\ GroupRuns
  BY <1>6, InterruptStep, EndStep DEF Alive, GroupRuns
<1>7. CASE \E a \in Own : Alive /\ Reset(a)
  BY <1>7, ResetStep DEF Alive
<1> QED BY <1>1, <1>2, <1>3, <1>4, <1>5, <1>6, <1>7 DEF Next

LEMMA Invariance == Spec => []IInv
BY InitIInv, NextIInv, PTL DEF Spec

-----------------------------------------------------------------------------
(* The theorems *)

\* The phases of the process keep their types; the listener is open only while
\* Broker.Run waits in its select.
THEOREM TypeCorrect == Spec => []TypeOK
<1>1. IInv => TypeOK
  BY DEF IInv
<1> QED BY <1>1, Invariance, PTL

\* main exits with success only after a shutdown request or the reset of one of its
\* own connections: the actors that return nil because the group was interrupted
\* never hide the error of the first.
THEOREM ExitIsRight == Spec => []ExitMeans
<1>1. IInv => ExitMeans
  BY DEF IInv, Causes, ExitMeans, Own
<1> QED BY <1>1, Invariance, PTL

\* The process panics only on a second shutdown request, a second registration of
\* the name cellaserv, an address that is not the default, or when one of its own
\* clients connects to, or is not yet accepted by, a broker that leaves.
THEOREM PanicsExplained == Spec => []PanicExplained
<1>1. IInv => PanicExplained
  BY DEF IInv
<1> QED BY <1>1, Invariance, PTL

=============================================================================
