---------------------------- MODULE WebSubscribe ----------------------------
(***************************************************************************)
(* Web sockets that are subscribed to events.  For each of them there is   *)
(* the goroutine of the HTTP request, apiSubscribe, and a pinger; the      *)
(* handler of its events runs in the message loop of the one client of the *)
(* web interface, and writes to the web socket there.                      *)
(*                                                                         *)
(* The three meet on the unbuffered channel done.  The pinger and the      *)
(* handler send on it when a write fails; apiSubscribe and the pinger      *)
(* receive from it.  A send ends with a receive, or never.                 *)
(***************************************************************************)
EXTENDS Subscribers

CONSTANTS
  Event,         \* the events, each as the set of the subscribers it matches
  MaxPublished   \* how many publishes come

ASSUME WebAssumption ==
  /\ Event \subseteq SUBSET Sub
  /\ MaxPublished \in Nat
  /\ NoSub \notin Sub

VARIABLES
  peer,       \* the other end of each web socket: open, stalled (does not read), broken
  failed,     \* the web sockets whose peer has stalled or broken at some time
  serve,      \* where apiSubscribe is; when it returns the web socket is closed
  ping,       \* where the pinger is
  published   \* how many publishes have come

web == <<peer, failed, serve, ping>>

webVars == <<subscribers, web, published>>

WebTypeOK ==
  /\ SubscribersOK
  /\ peer \in [Sub -> {"open", "stalled", "broken"}]
  /\ failed \subseteq Sub
  /\ serve \in [Sub -> {"new", "subscribing", "waiting", "returned"}]
  /\ ping \in [Sub -> {"off", "select", "sending", "gone"}]
  /\ published \in 0..MaxPublished

WebInit ==
  /\ SubscribersInit
  /\ peer = [s \in Sub |-> "open"]
  /\ failed = {}
  /\ serve = [s \in Sub |-> "new"]
  /\ ping = [s \in Sub |-> "off"]
  /\ published = 0

-----------------------------------------------------------------------------
(* The peers *)

\* A peer stalls at most once: a write that waits ends when the peer recovers.
PeerFails(s, how) ==
  /\ serve[s] # "new"
  /\ peer[s] # "broken"
  /\ how = "stalled" => s \notin failed
  /\ peer' = [peer EXCEPT ![s] = how]
  /\ failed' = failed \cup {s}
  /\ UNCHANGED <<subscribers, serve, ping, published>>

PeerRecovers(s) ==
  /\ peer[s] = "stalled"
  /\ peer' = [peer EXCEPT ![s] = "open"]
  /\ UNCHANGED <<subscribers, failed, serve, ping, published>>

-----------------------------------------------------------------------------
(* apiSubscribe *)

\* upgrader.Upgrade, and go h.ping(ws, done).
Upgrade(s) ==
  /\ serve[s] = "new"
  /\ serve' = [serve EXCEPT ![s] = "subscribing"]
  /\ ping' = [ping EXCEPT ![s] = "select"]
  /\ UNCHANGED <<subscribers, peer, failed, published>>

\* h.client.SubscribeUntil, in three steps.
Subscribe(s) ==
  /\ serve[s] = "subscribing"
  /\ AppendReads(s) \/ StoreSlice(s) \/ StoreElement(s)
  /\ UNCHANGED <<web, published>>

\* The subscribe message is sent, and <-done reached.
Wait(s) ==
  /\ serve[s] = "subscribing" /\ append[s].at = "done"
  /\ serve' = [serve EXCEPT ![s] = "waiting"]
  /\ UNCHANGED <<subscribers, peer, failed, ping, published>>

-----------------------------------------------------------------------------
(* The pinger *)

WriteMayFail(s) == serve[s] = "returned" \/ peer[s] # "open"

PingFails_logsOnly(s) ==
  /\ ping[s] = "select"
  /\ WriteMayFail(s)
  /\ UNCHANGED webVars

\* The web socket is closed, broken, or does not take the ping in time.
PingFails(s) ==
  /\ ping[s] = "select"
  /\ WriteMayFail(s)
  /\ ping' = [ping EXCEPT ![s] = "sending"]
  /\ UNCHANGED <<subscribers, peer, failed, serve, published>>

\* done <- struct{}{} meets apiSubscribe; the pinger goes on.
PingerSignals_anyServe(s) ==
  /\ ping[s] = "sending"
  /\ \E t \in Sub : serve[t] = "waiting" /\ serve' = [serve EXCEPT ![t] = "returned"]
  /\ ping' = [ping EXCEPT ![s] = "select"]
  /\ UNCHANGED <<subscribers, peer, failed, published>>

PingerSignals_returns(s) ==
  /\ ping[s] = "sending"
  /\ ping' = [ping EXCEPT ![s] = "gone"]
  /\ UNCHANGED <<subscribers, peer, failed, serve, published>>

PingerSignals(s) ==
  /\ ping[s] = "sending" /\ serve[s] = "waiting"
  /\ serve' = [serve EXCEPT ![s] = "returned"]
  /\ ping' = [ping EXCEPT ![s] = "select"]
  /\ UNCHANGED <<subscribers, peer, failed, published>>

-----------------------------------------------------------------------------
(* The message loop: handlePublish, and the handler of apiSubscribe *)

ReceivePublish(event) ==
  /\ published < MaxPublished
  /\ published' = published + 1
  /\ BeginRange(event)
  /\ UNCHANGED web

\* Bookkeeping of handlePublish, between the calls of handlers.
HandlePublishStep ==
  /\ Visit \/ EndRange \/ CopyLast \/ Shrink
  /\ UNCHANGED <<web, published>>

\* ws.WriteMessage succeeds; that of a broken connection may, for a while.
WriteMessage ==
  /\ handling.at = "call"
  /\ serve[handling.sub] # "returned" /\ peer[handling.sub] # "stalled"
  /\ HandlerReturns(FALSE)
  /\ UNCHANGED <<web, published>>

\* It fails.  On a web socket whose peer does not read it waits, until the web
\* socket is closed.
WriteFails ==
  /\ handling.at = "call"
  /\ serve[handling.sub] = "returned" \/ peer[handling.sub] = "broken"
  /\ handling' = [handling EXCEPT !.at = "signal"]
  /\ UNCHANGED <<list, append, removed, raced, crashed, web, published>>

\* done <- struct{}{} meets apiSubscribe ...
SignalServe ==
  /\ handling.at = "signal"
  /\ serve[handling.sub] = "waiting"
  /\ serve' = [serve EXCEPT ![handling.sub] = "returned"]
  /\ HandlerReturns(TRUE)
  /\ UNCHANGED <<peer, failed, ping, published>>

\* ... or the pinger, which returns.
SignalPinger ==
  /\ handling.at = "signal"
  /\ ping[handling.sub] = "select"
  /\ ping' = [ping EXCEPT ![handling.sub] = "gone"]
  /\ HandlerReturns(TRUE)
  /\ UNCHANGED <<peer, failed, serve, published>>

-----------------------------------------------------------------------------

WebLoop ==
  ~crashed /\ (HandlePublishStep \/ WriteMessage \/ WriteFails \/ SignalServe \/ SignalPinger)

Serve(s) == ~crashed /\ (Subscribe(s) \/ Wait(s))

Ping(s) == ~crashed /\ (PingFails(s) \/ PingerSignals(s))

WebNext ==
  \/ \E s \in Sub :
       \/ Serve(s) \/ Ping(s)
       \/ ~crashed /\ (Upgrade(s) \/ PeerRecovers(s))
       \/ \E how \in {"stalled", "broken"} : ~crashed /\ PeerFails(s, how)
  \/ \E event \in Event : ~crashed /\ ReceivePublish(event)
  \/ WebLoop

\* Goroutines are scheduled.  Pings are sent for ever, and on a connection that
\* is broken, or that nobody reads, one fails in the end.
WebFairness ==
  /\ WF_webVars(WebLoop)
  /\ \A s \in Sub : WF_webVars(Serve(s)) /\ WF_webVars(Ping(s))

WebSpec == WebInit /\ [][WebNext]_webVars /\ WebFairness

-----------------------------------------------------------------------------
(* Properties *)

\* ListRight: between publishes the list of subscribers holds each web socket
\* that subscribed, and whose handler did not ask for its removal, exactly once,
\* and removals do not panic, also when web sockets subscribe during the range;
\* unless an append overlapped another one, a removal or the start of a range.
ListRight ==
  ~raced =>
    /\ ~crashed
    /\ handling.at = "idle" /\ (\A s \in Sub : ~Appending(s)) =>
         /\ Len(Listed) = Cardinality(Subscribed)
         /\ {Listed[i] : i \in 1..Len(Listed)} = Subscribed

\* Isolation: a web socket is only closed, and its handler only removed, if its
\* own peer failed, whatever happens to the others.
Isolation == \A s \in Sub : serve[s] = "returned" \/ s \in removed => s \in failed

\* The handler waits to send on done, which apiSubscribe has left, and to which
\* the pinger is sending itself.
LoopBlocked ==
  /\ handling.at = "signal"
  /\ serve[handling.sub] = "returned" /\ ping[handling.sub] = "sending"

\* LoopGoesOn: a peer that breaks or does not read does not stop the message
\* loop of the web client, thanks to the pinger; unless a second ping failed
\* before the next event came, or appends raced.
LoopGoesOn == handling.at # "idle" ~> handling.at = "idle" \/ crashed \/ raced \/ LoopBlocked

\* BrokenIsClosed: the web socket of a broken peer is closed in the end, unless
\* the pinger took the signal of the handler, which leaves nobody to send one.
BrokenIsClosed ==
  <>[]\A s \in Sub :
    peer[s] = "broken" => serve[s] = "returned" \/ ping[s] = "gone" \/ crashed

=============================================================================
