------------------------------- MODULE PubSub -------------------------------
(***************************************************************************)
(* The broker's subscriptions: handleSubscribe, removeSubscriptionsOfClient*)
(* and doPublish, which reads what the other two write.                    *)
(*                                                                         *)
(* Both writers hold the mutex of the map they write, from the lookup to   *)
(* the store.  doPublish holds subscriberMapMtx while it ranges over the   *)
(* OTHER map, and no mutex while it ranges over the exact subscribers: it  *)
(* reads slices, element by element, while the writers work on them.       *)
(*                                                                         *)
(* So the model keeps the arrays behind the slices.  mem[k][v] is the v-th *)
(* array allocated for the key k, as long as its capacity; subs[k] is the  *)
(* slice stored under k, that is an array and a length.  An append with    *)
(* room left and a removal write into the array; other slices on the same  *)
(* array see it.                                                           *)
(***************************************************************************)
EXTENDS Naturals, Sequences

CONSTANTS
  Client,
  Key,       \* subscription strings
  Glob,      \* those that contain "*", kept in subscriberMatchMap
  Offers,    \* the keys each client may subscribe to
  Publish,   \* publish messages, each handled once
  Event,     \* the key equal to the event of each publish
  Match,     \* the globs that match the event of each publish
  None

ASSUME ConstAssumption ==
  /\ Glob \subseteq Key
  /\ Offers \in [Client -> SUBSET Key]
  /\ Event \in [Publish -> Key]
  /\ Match \in [Publish -> SUBSET Glob]
  /\ None \notin Client

VARIABLES
  conn,        \* up; exact: removed from subscriberMap; gone: from both maps
  subscribes,  \* the subscribes slice of each client
  mem,         \* the arrays allocated for each key
  subs,        \* subscriberMap and subscriberMatchMap; v = 0: no such key
  pub          \* the doPublish call of each message

vars == <<conn, subscribes, mem, subs, pub>>

Exact == Key \ Glob

Slice == [v : Nat, n : Nat]

Absent == [v |-> 0, n |-> 0]

(***************************************************************************)
(* A doPublish call: the globs it must still visit and those it has        *)
(* visited; the slice it is ranging over and the index of its next         *)
(* element; the clients it collected.  The rest is history: the clients    *)
(* that were subscribed when it began and have not left since, those that  *)
(* were gone, whether a client left since, and whether one subscribed      *)
(* after that.                                                             *)
(***************************************************************************)
Idle == [at |-> "idle", must |-> {}, seen |-> {}, key |-> None, win |-> Absent,
         i |-> 1, set |-> {}, owed |-> {}, past |-> {}, left |-> FALSE,
         reused |-> FALSE]

\* The array under the slice stored for k.
Array(k) == IF subs[k].v = 0 THEN <<>> ELSE mem[k][subs[k].v]

Reading == {"glob", "globlist", "exact"}

TypeOK ==
  /\ conn \in [Client -> {"up", "exact", "gone"}]
  /\ subscribes \in [Client -> SUBSET Key]
  /\ mem \in [Key -> Seq(Seq(Client \cup {None}))]
  /\ subs \in [Key -> Slice]
  /\ \A k \in Key : subs[k].v \in 0..Len(mem[k]) /\ subs[k].n <= Len(Array(k))
  /\ \A p \in Publish :
       /\ pub[p].at \in Reading \cup {"idle", "send", "done"}
       /\ pub[p].set \subseteq Client
       /\ pub[p].owed \subseteq Client
       /\ pub[p].i \in 1..(pub[p].win.n + 1)

Init ==
  /\ conn = [c \in Client |-> "up"]
  /\ subscribes = [c \in Client |-> {}]
  /\ mem = [k \in Key |-> <<>>]
  /\ subs = [k \in Key |-> Absent]
  /\ pub = [p \in Publish |-> Idle]

\* The elements of the slice stored under k.
List(k) == [i \in 1..subs[k].n |-> mem[k][subs[k].v][i]]

\* Publishers hold subscriberMapMtx for reading while they visit the globs.
ReadLocked == \E p \in Publish : pub[p].at \in {"glob", "globlist"}

-----------------------------------------------------------------------------
(* handleSubscribe *)

\* append(slice, c): in place when there is room, or else into an array of
\* twice the capacity.
Grow(a) == [i \in 1..(IF a = <<>> THEN 1 ELSE 2 * Len(a)) |->
              IF i <= Len(a) THEN a[i] ELSE None]

AppendTo(k, c) ==
  LET n == subs[k].n
      a == Array(k)
  IN  IF n < Len(a)
      THEN /\ mem' = [mem EXCEPT ![k][subs[k].v][n + 1] = c]
           /\ subs' = [subs EXCEPT ![k].n = n + 1]
      ELSE /\ mem' = [mem EXCEPT ![k] = Append(@, [Grow(a) EXCEPT ![n + 1] = c])]
           /\ subs' = [subs EXCEPT ![k] = [v |-> Len(mem[k]) + 1, n |-> n + 1]]

\* What a publish in progress remembers of a subscribe.
Subscribed(p) == [pub[p] EXCEPT !.reused = @ \/ pub[p].left]

Subscribe_again(c, k) ==
  /\ conn[c] = "up"
  /\ k \in Exact => ~ReadLocked
  /\ subscribes' = [subscribes EXCEPT ![c] = @ \cup {k}]
  /\ AppendTo(k, c)
  /\ pub' = [p \in Publish |-> Subscribed(p)]
  /\ UNCHANGED conn

Subscribe(c, k) ==
  /\ conn[c] = "up"
  /\ k \notin subscribes[c]
  /\ k \in Exact => ~ReadLocked
  /\ subscribes' = [subscribes EXCEPT ![c] = @ \cup {k}]
  /\ AppendTo(k, c)
  /\ pub' = [p \in Publish |-> Subscribed(p)]
  /\ UNCHANGED conn

-----------------------------------------------------------------------------
(* removeSubscriptionsOfClient *)

\* The inner loop of removeConnFromMap over an array a and a length n: every
\* element equal to c is overwritten by a[n], and the stored slice becomes
\* a[:n-1], n being the length when the loop began.
Sweep(a, n, c) ==
  LET At[i \in 0..n] ==
        IF i = 0 THEN [arr |-> a, n |-> n]
        ELSE IF At[i - 1].arr[i] # c THEN At[i - 1]
        ELSE [arr |-> [At[i - 1].arr EXCEPT ![i] = At[i - 1].arr[n]], n |-> n - 1]
  IN  At[n]

Swept(k, c) == Sweep(Array(k), subs[k].n, c)

\* removeConnFromMap on one of the two maps; a key without subscribers is
\* deleted.
RemoveConnFromMap(keys, c) ==
  /\ mem' = [k \in Key |->
               IF k \in keys /\ subs[k].v # 0
               THEN [mem[k] EXCEPT ![subs[k].v] = Swept(k, c).arr] ELSE mem[k]]
  /\ subs' = [k \in Key |->
                IF k \notin keys \/ subs[k].v = 0 THEN subs[k]
                ELSE IF Swept(k, c).n = 0 THEN Absent
                ELSE [subs[k] EXCEPT !.n = Swept(k, c).n]]

\* What a publish in progress remembers of a removal.
Left(p, c) == [pub[p] EXCEPT !.owed = @ \ {c}, !.left = @ \/ pub[p].at \in Reading]

RemoveExact(c) ==
  /\ conn[c] = "up"
  /\ ~ReadLocked
  /\ RemoveConnFromMap(Exact, c)
  /\ conn' = [conn EXCEPT ![c] = "exact"]
  /\ pub' = [p \in Publish |-> Left(p, c)]
  /\ UNCHANGED subscribes

RemoveGlob(c) ==
  /\ conn[c] = "exact"
  /\ RemoveConnFromMap(Glob, c)
  /\ conn' = [conn EXCEPT ![c] = "gone"]
  /\ pub' = [p \in Publish |-> Left(p, c)]
  /\ UNCHANGED subscribes

-----------------------------------------------------------------------------
(* doPublish *)

Set(p, rec) == pub' = [pub EXCEPT ![p] = rec]

Present == {k \in Glob : subs[k].v # 0}

\* The keys whose subscribers the publish is for.
Wanted(p) == Match[p] \cup ({Event[p]} \cap Exact)

\* subscriberMapMtx.RLock(), and the range over the globs begins.
Begin(p) ==
  /\ pub[p].at = "idle"
  /\ Set(p, [Idle EXCEPT !.at = "glob", !.must = Present,
               !.owed = {c \in Client : conn[c] = "up" /\ subscribes[c] \cap Wanted(p) # {}},
               !.past = {c \in Client : conn[c] = "gone"}])
  /\ UNCHANGED <<conn, subscribes, mem, subs>>

\* A range over a map produces each entry once; one that is deleted before it
\* is reached is not produced, one that is added may or may not be.
VisitGlob_unmatched(p, k) ==
  /\ pub[p].at = "glob"
  /\ k \in Present \ pub[p].seen
  /\ Set(p, [pub[p] EXCEPT !.at = "globlist", !.seen = @ \cup {k}, !.key = k,
               !.win = subs[k], !.i = 1])
  /\ UNCHANGED <<conn, subscribes, mem, subs>>

VisitGlob_revisits(p, k) ==
  /\ pub[p].at = "glob"
  /\ k \in Present \ pub[p].seen
  /\ Set(p, IF k \in Match[p]
            THEN [pub[p] EXCEPT !.at = "globlist", !.key = k, !.win = subs[k], !.i = 1]
            ELSE [pub[p] EXCEPT !.seen = @ \cup {k}])
  /\ UNCHANGED <<conn, subscribes, mem, subs>>

VisitGlob(p, k) ==
  /\ pub[p].at = "glob"
  /\ k \in Present \ pub[p].seen
  /\ Set(p, IF k \in Match[p]
            THEN [pub[p] EXCEPT !.at = "globlist", !.seen = @ \cup {k}, !.key = k,
                    !.win = subs[k], !.i = 1]
            ELSE [pub[p] EXCEPT !.seen = @ \cup {k}])
  /\ UNCHANGED <<conn, subscribes, mem, subs>>

\* One iteration of "for _, client := range clients": the element is read from
\* the array as it is now, up to the length captured with the slice.
ReadElement(p) ==
  /\ pub[p].at \in {"globlist", "exact"}
  /\ pub[p].i <= pub[p].win.n
  /\ Set(p, [pub[p] EXCEPT !.set = @ \cup {mem[pub[p].key][pub[p].win.v][pub[p].i]},
                           !.i = @ + 1])
  /\ UNCHANGED <<conn, subscribes, mem, subs>>

EndGlobList(p) ==
  /\ pub[p].at = "globlist"
  /\ pub[p].i > pub[p].win.n
  /\ Set(p, [pub[p] EXCEPT !.at = "glob", !.key = None, !.win = Absent, !.i = 1])
  /\ UNCHANGED <<conn, subscribes, mem, subs>>

\* RUnlock, and b.subscriberMap[pub.Event] is read, without a lock.
EndGlob(p) ==
  /\ pub[p].at = "glob"
  /\ pub[p].must \cap Present \subseteq pub[p].seen
  /\ Set(p, [pub[p] EXCEPT !.at = "exact", !.key = Event[p], !.i = 1,
               !.win = IF Event[p] \in Exact THEN subs[Event[p]] ELSE Absent])
  /\ UNCHANGED <<conn, subscribes, mem, subs>>

EndExact_byLiveLength(p) ==
  /\ pub[p].at = "exact"
  /\ pub[p].i > pub[p].win.n \/ pub[p].i > subs[pub[p].key].n
  /\ Set(p, [pub[p] EXCEPT !.at = "send", !.key = None, !.win = Absent, !.i = 1])
  /\ UNCHANGED <<conn, subscribes, mem, subs>>

EndExact(p) ==
  /\ pub[p].at = "exact"
  /\ pub[p].i > pub[p].win.n
  /\ Set(p, [pub[p] EXCEPT !.at = "send", !.key = None, !.win = Absent, !.i = 1])
  /\ UNCHANGED <<conn, subscribes, mem, subs>>

\* The message is written to every connection collected.
SendAll(p) ==
  /\ pub[p].at = "send"
  /\ Set(p, [pub[p] EXCEPT !.at = "done"])
  /\ UNCHANGED <<conn, subscribes, mem, subs>>

DoPublish(p) ==
  \/ Begin(p)
  \/ \E k \in Glob : VisitGlob(p, k)
  \/ ReadElement(p) \/ EndGlobList(p) \/ EndGlob(p) \/ EndExact(p) \/ SendAll(p)

\* Every client has left and every message is handled.
Finished ==
  /\ \A c \in Client : conn[c] = "gone"
  /\ \A p \in Publish : pub[p].at = "done"
  /\ UNCHANGED vars

Next ==
  \/ \E c \in Client : \E k \in Offers[c] : Subscribe(c, k)
  \/ \E c \in Client : RemoveExact(c) \/ RemoveGlob(c)
  \/ \E p \in Publish : DoPublish(p)
  \/ Finished

\* The goroutine of a publish is scheduled, and its writes return.
Fairness == \A p \in Publish : WF_vars(DoPublish(p))

Spec == Init /\ [][Next]_vars /\ Fairness

-----------------------------------------------------------------------------
(* Properties *)

\* In the map of k, according to handleSubscribe and removeClient.
Listed(c, k) ==
  /\ k \in subscribes[c]
  /\ conn[c] = "up" \/ (conn[c] = "exact" /\ k \in Glob)

\* MapsAgree: each map lists exactly the clients that subscribed and have not
\* been removed from it, each of them once, and has no key without
\* subscribers, so that list_events shows no client that left.
MapsAgree ==
  \A k \in Key :
    /\ {List(k)[i] : i \in 1..subs[k].n} = {c \in Client : Listed(c, k)}
    /\ \A i, j \in 1..subs[k].n : List(k)[i] = List(k)[j] => i = j
    /\ subs[k].n = 0 <=> subs[k].v = 0

\* NoStranger: a publish is written to no client that did not subscribe to its
\* event, and to none that was removed before the publish began, however the
\* arrays changed while they were read.
NoStranger ==
  \A p \in Publish : \A c \in pub[p].set :
    subscribes[c] \cap Wanted(p) # {} /\ c \notin pub[p].past

\* StableDelivery: a client that is subscribed when a publish begins, and does
\* not leave, gets it, even if others leave while the lists are read, as long
\* as nobody subscribes after that.
StableDelivery ==
  \A p \in Publish :
    pub[p].at \in {"send", "done"} /\ ~pub[p].reused => pub[p].owed \subseteq pub[p].set

\* PublishEnds: a publish that began is eventually written to its subscribers,
\* however many clients subscribe and leave meanwhile.
PublishEnds == \A p \in Publish : pub[p].at = "glob" ~> pub[p].at = "done"

=============================================================================
