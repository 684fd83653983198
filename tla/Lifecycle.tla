------------------------------ MODULE Lifecycle ------------------------------
(***************************************************************************)
(* The cellaserv process, from its start to its end: main runs the broker, *)
(* the built-in service and the web interface as the actors of a group     *)
(* (oklog/run).  When the first of them returns, the group cancels the     *)
(* contexts of all, waits for the others, and main exits.                  *)
(*                                                                         *)
(* A panic in any goroutine ends the process.  A send on an unbuffered     *)
(* channel is one step with its receive and blocks until then.             *)
(***************************************************************************)
EXTENDS Naturals

CONSTANTS
  MaxShutdowns,  \* how many shutdown requests are made
  MaxForeign     \* how often other clients register a service named cellaserv

ASSUME ConstAssumption == MaxShutdowns \in Nat /\ MaxForeign \in Nat

VARIABLES
  addr,       \* the broker's address is the default one, or another
  actor,      \* where Run of each actor is
  listening,  \* the TCP listener of the broker is open
  serve,      \* the accept loop: off, accept, error (to be sent), gone
  ready,      \* the closed ones among startedCh, startedWithCellaserv, quitCh
  conn,       \* the connections of the built-in service and of the web interface
  registered, \* the built-in service is registered
  foreign,    \* how many other clients registered a service of its name
  http,       \* the HTTP server's goroutine
  shutdowns,  \* how many shutdown requests were handled
  first,      \* the result of the first actor that returned
  group,      \* running, interrupted (contexts are cancelled), ended
  panicked

own == <<conn, registered, foreign>>

vars == <<addr, actor, listening, serve, ready, own, http, shutdowns, first, group, panicked>>

Actor == {"broker", "cellaserv", "web"}

Own == {"cellaserv", "web"}

TypeOK ==
  /\ addr \in {"default", "other"}
  /\ actor \in [Actor -> {"start", "failed", "dial", "select", "nil", "error", "returned"}]
  /\ serve \in {"off", "accept", "error", "gone"}
  /\ ready \subseteq {"started", "withCellaserv", "quit"}
  /\ http \in {"off", "serving", "error", "gone"}
  /\ shutdowns \in 0..MaxShutdowns
  /\ first \in {"none", "nil", "error"}
  /\ group \in {"running", "interrupted", "ended"}
  /\ conn \in [Own -> {"none", "pending", "accepted", "elsewhere", "reset"}]
  /\ foreign \in 0..MaxForeign
  /\ {listening, registered, panicked} \subseteq BOOLEAN
  /\ listening => serve # "off" /\ actor["broker"] = "select"

Init ==
  /\ addr \in {"default", "other"}
  /\ actor = [a \in Actor |-> "start"]
  /\ listening = FALSE /\ serve = "off"
  /\ conn = [a \in Own |-> "none"]
  /\ registered = FALSE /\ foreign = 0
  /\ ready = {}
  /\ http = "off"
  /\ shutdowns = 0
  /\ first = "none"
  /\ group = "running"
  /\ panicked = FALSE

Goes(a, to) == actor' = [actor EXCEPT ![a] = to]

Return_lastResult(a, result) == Goes(a, "returned") /\ first' = result

\* An actor returns; the group keeps the first result.
Return(a, result) ==
  /\ Goes(a, "returned")
  /\ first' = IF first = "none" THEN result ELSE first

Cancelled == group # "running"

-----------------------------------------------------------------------------
(* Broker.Run and serve *)

ListenOk ==
  /\ actor["broker"] = "start"
  /\ Goes("broker", "select")
  /\ listening' = TRUE /\ serve' = "accept"
  /\ ready' = ready \cup {"started"}
  /\ UNCHANGED <<addr, own, http, shutdowns, first, group, panicked>>

\* errCh <- err, before anything can receive from errCh
ListenFails ==
  /\ actor["broker"] = "start"
  /\ Goes("broker", "failed")
  /\ UNCHANGED <<addr, listening, serve, ready, own, http, shutdowns, first, group,
                 panicked>>

\* A permanent error of Accept; Close of the listener causes one too.
AcceptFails ==
  /\ serve = "accept"
  /\ serve' = "error"
  /\ UNCHANGED <<addr, actor, listening, ready, own, http, shutdowns, first, group,
                 panicked>>

\* case e := <-errCh.  The deferred l.Close() runs before Run returns.
BrokerFails ==
  /\ actor["broker"] = "select" /\ serve = "error"
  /\ Goes("broker", "error")
  /\ serve' = "gone"
  /\ listening' = FALSE
  /\ UNCHANGED <<addr, ready, own, http, shutdowns, first, group, panicked>>

\* case <-b.quitCh, case <-ctx.Done()
BrokerStops_early ==
  /\ actor["broker"] = "select"
  /\ "started" \in ready
  /\ Goes("broker", "nil")
  /\ listening' = FALSE
  /\ UNCHANGED <<addr, serve, ready, own, http, shutdowns, first, group, panicked>>

BrokerStops ==
  /\ actor["broker"] = "select"
  /\ "quit" \in ready \/ Cancelled
  /\ Goes("broker", "nil")
  /\ listening' = FALSE
  /\ UNCHANGED <<addr, serve, ready, own, http, shutdowns, first, group, panicked>>

BrokerReturns ==
  /\ actor["broker"] \in {"nil", "error"}
  /\ Return("broker", actor["broker"])
  /\ UNCHANGED <<addr, listening, serve, ready, own, http, shutdowns, group, panicked>>

\* The accept loop takes a connection of the process to itself.
Accept(a) ==
  /\ serve = "accept" /\ listening
  /\ conn[a] = "pending"
  /\ conn' = [conn EXCEPT ![a] = "accepted"]
  /\ UNCHANGED <<addr, actor, listening, serve, ready, registered, foreign, http, shutdowns, first,
                 group, panicked>>

\* What was not accepted when the listener was closed is reset; another server
\* may close at any time.  If the goroutine that names the client has still to
\* write, it panics.
Reset(a) ==
  /\ (conn[a] = "pending" /\ ~listening) \/ conn[a] = "elsewhere"
  /\ conn' = [conn EXCEPT ![a] = "reset"]
  /\ panicked' \in BOOLEAN
  /\ UNCHANGED <<addr, actor, listening, serve, ready, registered, foreign, http, shutdowns, first,
                 group>>

\* HandleRegister of a service named cellaserv: close(b.startedWithCellaserv)
HandleRegister ==
  /\ panicked' = ("withCellaserv" \in ready)
  /\ ready' = ready \cup {"withCellaserv"}

RegisterCellaserv ==
  /\ conn["cellaserv"] = "accepted" /\ ~registered
  /\ registered' = TRUE
  /\ HandleRegister
  /\ UNCHANGED <<addr, actor, listening, serve, conn, foreign, http, shutdowns, first, group>>

\* Any client may register a service of this name; its connection outlives the
\* listener.
ForeignRegisters ==
  /\ serve # "off" /\ foreign < MaxForeign
  /\ foreign' = foreign + 1
  /\ HandleRegister
  /\ UNCHANGED <<addr, actor, listening, serve, conn, registered, http, shutdowns, first, group>>

-----------------------------------------------------------------------------
(* Cellaserv.Run *)

\* Waiting for what the actor depends on, or to be cancelled.
Begins(a, channel) ==
  /\ actor[a] = "start"
  /\ \/ channel \in ready /\ Goes(a, "dial") /\ UNCHANGED first
     \/ Cancelled /\ Return(a, "nil")
  /\ UNCHANGED <<addr, listening, serve, ready, own, http, shutdowns, group, panicked>>

CellaservBegins_unready == Begins("cellaserv", "quit")

CellaservBegins == Begins("cellaserv", "started")

\* NewClient panics when it cannot connect.
Dials(a) ==
  /\ actor[a] = "dial"
  /\ panicked' = ~listening
  /\ IF listening
     THEN Goes(a, "select") /\ conn' = [conn EXCEPT ![a] = "pending"]
     ELSE UNCHANGED <<actor, conn>>

CellaservDials ==
  /\ Dials("cellaserv")
  /\ UNCHANGED <<addr, listening, serve, ready, registered, foreign, http, shutdowns, first, group>>

CellaservStops_onQuit ==
  /\ actor["cellaserv"] = "select"
  /\ "quit" \in ready
  /\ Return("cellaserv", "nil")
  /\ UNCHANGED <<addr, listening, serve, ready, own, http, shutdowns, group, panicked>>

\* case <-c.Quit(), case <-ctx.Done().  Neither the broker nor the actor closes
\* the connection, so c.Quit() is only closed if it was reset.
CellaservStops ==
  /\ actor["cellaserv"] = "select"
  /\ Cancelled \/ conn["cellaserv"] = "reset"
  /\ Return("cellaserv", "nil")
  /\ UNCHANGED <<addr, listening, serve, ready, own, http, shutdowns, group, panicked>>

\* A shutdown request is handled in the goroutine of the built-in service's
\* client, which outlives Run: close(cs.broker.Quit()).
Shutdown ==
  /\ registered
  /\ shutdowns < MaxShutdowns
  /\ shutdowns' = shutdowns + 1
  /\ panicked' = ("quit" \in ready)
  /\ ready' = ready \cup {"quit"}
  /\ UNCHANGED <<addr, actor, listening, serve, own, http, first, group>>

-----------------------------------------------------------------------------
(* Handler.Run of the web interface *)

WebBegins == Begins("web", "withCellaserv")

\* The address is not passed on: the client of the web interface connects to
\* the default one, whatever listens there.
WebDials ==
  /\ \/ addr = "default" /\ Dials("web") /\ http' = IF listening THEN "serving" ELSE http
     \/ /\ addr = "other" /\ actor["web"] = "dial"
        /\ \/ panicked' = TRUE /\ UNCHANGED <<actor, conn, http>>
           \/ /\ Goes("web", "select") /\ conn' = [conn EXCEPT !["web"] = "elsewhere"]
              /\ http' = "serving"
              /\ UNCHANGED panicked
  /\ UNCHANGED <<addr, listening, serve, ready, registered, foreign, shutdowns, first, group>>

HttpFails ==
  /\ http = "serving"
  /\ http' = "error"
  /\ UNCHANGED <<addr, actor, listening, serve, ready, own, shutdowns, first, group,
                 panicked>>

\* case err := <-errChan
WebFails ==
  /\ actor["web"] = "select" /\ http = "error"
  /\ Return("web", "error")
  /\ http' = "gone"
  /\ UNCHANGED <<addr, listening, serve, ready, own, shutdowns, group, panicked>>

\* case <-ctx.Done(): return httpSrv.Close(), case <-h.client.Quit()
WebStops ==
  /\ actor["web"] = "select"
  /\ \/ Cancelled /\ http' = "gone"
     \/ conn["web"] = "reset" /\ http' = http
  /\ Return("web", "nil")
  /\ UNCHANGED <<addr, listening, serve, ready, own, shutdowns, group, panicked>>

-----------------------------------------------------------------------------
(* The group, and main *)

Interrupt ==
  /\ group = "running" /\ first # "none"
  /\ group' = "interrupted"
  /\ UNCHANGED <<addr, actor, listening, serve, ready, own, http, shutdowns, first,
                 panicked>>

End ==
  /\ group = "interrupted"
  /\ \A a \in Actor : actor[a] = "returned"
  /\ group' = "ended"
  /\ UNCHANGED <<addr, actor, listening, serve, ready, own, http, shutdowns, first,
                 panicked>>

Alive == ~panicked /\ group # "ended"

BrokerRuns == ListenOk \/ ListenFails \/ BrokerFails \/ BrokerStops \/ BrokerReturns

Connections == RegisterCellaserv \/ \E a \in Own : Accept(a)

CellaservRuns == CellaservBegins \/ CellaservDials \/ CellaservStops

WebRuns == WebBegins \/ WebDials \/ WebFails \/ WebStops

GroupRuns == Interrupt \/ End

\* The process is over, or hangs on an error of Listen.
Over ==
  /\ ~Alive \/ actor["broker"] = "failed"
  /\ UNCHANGED vars

Next ==
  \/ Alive /\ BrokerRuns
  \/ Alive /\ Connections
  \/ Alive /\ CellaservRuns
  \/ Alive /\ WebRuns
  \/ Alive /\ GroupRuns
  \/ Alive /\ AcceptFails
  \/ Alive /\ HttpFails
  \/ Alive /\ Shutdown
  \/ Alive /\ ForeignRegisters
  \/ \E a \in Own : Alive /\ Reset(a)
  \/ Over

\* Goroutines are scheduled.  Nothing need fail, and nobody need ask for a
\* shutdown or take the name of the built-in service.
Fairness ==
  /\ WF_vars(Alive /\ BrokerRuns)
  /\ WF_vars(Alive /\ Connections)
  /\ WF_vars(Alive /\ CellaservRuns)
  /\ WF_vars(Alive /\ WebRuns)
  /\ WF_vars(Alive /\ GroupRuns)

Spec == Init /\ [][Next]_vars /\ Fairness

-----------------------------------------------------------------------------
(* Properties *)

\* ExitMeans: main exits with success only after a shutdown request, or if a
\* connection of its own was reset: the error of an actor is not hidden by the
\* others, which return nil after it.
ExitMeans ==
  group = "ended" /\ first = "nil" => shutdowns > 0 \/ \E a \in Own : conn[a] = "reset"

Registrations == foreign + (IF registered THEN 1 ELSE 0)

BrokerLeft == actor["broker"] \in {"nil", "error", "returned"}

\* PanicExplained: the process panics only on a second shutdown request, on a
\* second registration of a service named cellaserv, when the web interface does not
\* reach the default address or loses the server it found there, when a client of
\* its own connects after the listener has failed or was shut down (or after another
\* client took the name cellaserv first), or when a connection of its own was not
\* yet accepted when the listener was closed: never in an undisturbed start.
PanicExplained ==
  panicked => \/ shutdowns > 1
              \/ Registrations > 1
              \/ addr # "default" /\ (actor["web"] = "dial" \/ conn["web"] = "reset")
              \/ /\ BrokerLeft /\ \E a \in Own : actor[a] = "dial"
                 /\ serve = "gone" \/ shutdowns > 0 \/ foreign > 0
              \/ BrokerLeft /\ \E a \in Own : conn[a] = "reset"

\* Serves: once the broker listens, the web interface comes up, unless
\* something fails, or a shutdown is requested, first.
Serves ==
  "started" \in ready
    ~> http = "serving" \/ first # "none" \/ serve = "error" \/ panicked

\* OneEndsAll: when one actor returns, or a shutdown is requested, the whole
\* process ends, whatever phase of its start each actor is in.
OneEndsAll == first # "none" \/ "quit" \in ready ~> ~Alive

\* ListenFailureEnds: when the broker cannot listen, the process ends.
ListenFailureEnds == actor["broker"] = "failed" ~> ~Alive

=============================================================================
