--------------------------- MODULE RequestsProofs ---------------------------
(***************************************************************************)
(* For every number of clients, requests and services: the request table   *)
(* never outlives its timers, an answer goes to the client that asked or,  *)
(* if ids are used twice, to one that used the id later, and to requests   *)
(* with an id of their own every step is one that Rpc allows.              *)
(***************************************************************************)
EXTENDS Requests, TLAPS

(***************************************************************************)
(* An entry is stored under the id of its request, once that request has   *)
(* been tracked.  A handleReply call holds an entry stored under the id it *)
(* was called with; once it has deleted that id, its entry is nowhere in   *)
(* the table, so stopping its timer takes the timer of no tracked request. *)
(***************************************************************************)
Keyed ==
  \A i \in Ids : reqIds[i] # None =>
    IdOf[reqIds[i]] = i /\ WasTracked(reqIds[i])

JobsTracked ==
  \A s \in Service : job[s].at # "idle" =>
    /\ IdOf[job[s].track] = IdOf[job[s].rep]
    /\ WasTracked(job[s].track)
    /\ job[s].at = "deleted" => \A i \in Ids : reqIds[i] # job[s].track

(***************************************************************************)
(* Whose entry a request can meet under its id: its own, or one stored     *)
(* after it, from the moment it is tracked and for as long as its service  *)
(* may look at it.  The entry of a handleReply call is such a one.         *)
(***************************************************************************)
Awaiting(r) == pc[r] = "tracked" \/ r \in inbox

Latest ==
  \A r \in Req : Awaiting(r) =>
    WasTracked(r) /\ reqIds[IdOf[r]] \in {None, r} \cup later[r]

JobsLatest ==
  \A s \in Service : job[s].at # "idle" =>
    job[s].track \in {job[s].rep} \cup later[job[s].rep]

Delivered == Latest /\ JobsLatest /\ AnswerBelongs /\ NamesSender

ArmedAhead == \A r \in Req : pc[r] = "armed" => timer[r] = "armed"

IInv ==
  /\ TypeOK
  /\ Keyed
  /\ JobsTracked
  /\ ~EarlyFire => ArmedAhead /\ TimerBacked
  /\ Delivered

-----------------------------------------------------------------------------

\* The broker starts without requests.
LEMMA InitIInv == Init => IInv
<1> SUFFICES ASSUME Init PROVE IInv
  OBVIOUS
<1> USE ConstAssumption
<1>1. \A s \in Service : job[s] = NoJob
  BY DEF Init
<1>2. NoJob \in Job /\ NoJob.at = "idle"
  BY DEF NoJob, Job
<1>3. /\ \A r \in Req : pc[r] = "unsent" /\ got[r] = <<>> /\ Len(got[r]) = 0
      /\ \A i \in Ids : reqIds[i] = None
      /\ \A c \in Client : name[c] = None
      /\ inbox = {}
  BY DEF Init
<1>4. TypeOK
  <2>1. job \in [Service -> Job]
    BY <1>2 DEF Init
  <2>2. got \in [Req -> Seq(Answer)]
    BY DEF Init
  <2>3. \A s \in Service : job[s].at = "idle"
    BY <1>1, <1>2
  <2> QED BY <2>1, <2>2, <2>3 DEF Init, TypeOK
<1>5. Keyed /\ TimerBacked /\ ArmedAhead /\ NamesSender
  BY <1>3 DEF Keyed, TimerBacked, ArmedAhead, NamesSender
<1>6. JobsTracked
  BY <1>1, <1>2 DEF JobsTracked
<1>7. AnswerBelongs /\ Latest /\ JobsLatest
  BY <1>1, <1>2, <1>3 DEF AnswerBelongs, Latest, Awaiting, JobsLatest
<1> QED BY <1>4, <1>5, <1>6, <1>7 DEF IInv, Delivered

\* An answer written to the sender of its request leaves AnswerBelongs true, and
\* so does a reply written to a client that used its id later.
LEMMA SendBelongs ==
  ASSUME TypeOK, NEW r \in Req, NEW c \in Client, UNCHANGED later,
         NEW k \in {"NoSuchService", "InvalidIdentification", "Timeout", "reply"},
         Send(r, c, k)
  PROVE  /\ got' \in [Req -> Seq(Answer)]
         /\ /\ AnswerBelongs
            /\ c = Sender[r] \/ (k = "reply" /\ \E q \in later[r] : c = Sender[q])
            => AnswerBelongs'
<1> DEFINE a == [to |-> c, kind |-> k]
           Right(q, x) == \/ x.to = Sender[q]
                          \/ x.kind = "reply" /\ \E p \in later[q] : x.to = Sender[p]
<1>1. a \in Answer /\ a.to = c /\ a.kind = k
  BY DEF Answer
<1>2. /\ got \in [Req -> Seq(Answer)]
      /\ got' = [got EXCEPT ![r] = Append(got[r], a)]
  BY DEF TypeOK, Send
<1> HIDE DEF a
<1>3. got' \in [Req -> Seq(Answer)]
  BY <1>1, <1>2
<1>4. ASSUME AnswerBelongs, Right(r, a), NEW q \in Req, NEW n \in 1..Len(got'[q])
      PROVE  Right(q, got'[q][n])
  <2>0. \A p \in Req : \A m \in 1..Len(got[p]) : Right(p, got[p][m])
    BY <1>4 DEF AnswerBelongs
  <2> HIDE DEF Right
  <2>1. CASE q = r
    <3>1. got'[q] = Append(got[r], a) /\ got[r] \in Seq(Answer)
      BY <1>2, <2>1
    <3>2. CASE n = Len(got[r]) + 1
      BY <1>1, <1>4, <2>1, <3>1, <3>2
    <3>3. CASE n # Len(got[r]) + 1
      <4>1. n \in 1..Len(got[r]) /\ got'[q][n] = got[r][n]
        BY <1>1, <3>1, <3>3
      <4> QED BY <2>0, <2>1, <4>1
    <3> QED BY <3>2, <3>3
  <2>2. CASE q # r
    <3>1. got'[q] = got[q]
      BY <1>2, <2>2
    <3> QED BY <2>0, <3>1
  <2> QED BY <2>1, <2>2
<1>5. ASSUME AnswerBelongs, c = Sender[r] \/ (k = "reply" /\ \E q \in later[r] : c = Sender[q])
      PROVE  AnswerBelongs'
  <2>1. Right(r, a)
    BY <1>1, <1>5
  <2>2. \A q \in Req : \A n \in 1..Len(got'[q]) : Right(q, got'[q][n])
    BY <1>4, <1>5, <2>1
  <2> QED BY <2>2 DEF AnswerBelongs
<1> QED BY <1>3, <1>5

\* Requests met under the id of another one stay what they are when nothing is
\* tracked and the table only shrinks.
LEMMA LatestKept ==
  ASSUME Latest, UNCHANGED later,
         \A r \in Req : WasTracked(r) => WasTracked(r)',
         \A r \in Req : Awaiting(r)' => Awaiting(r),
         \A r \in Req : reqIds'[IdOf[r]] \in {None, reqIds[IdOf[r]]}
  PROVE  Latest'
<1> SUFFICES ASSUME NEW r \in Req, Awaiting(r)'
             PROVE  WasTracked(r)' /\ reqIds'[IdOf[r]] \in {None, r} \cup later[r]
  BY DEF Latest
<1>1. WasTracked(r) /\ reqIds[IdOf[r]] \in {None, r} \cup later[r]
  BY DEF Latest
<1> QED BY <1>1

\* The same for a step that leaves the calls, the names and the answers alone.
LEMMA DeliveredKept ==
  ASSUME Delivered, UNCHANGED <<later, job, name, got>>,
         \A r \in Req : WasTracked(r) => WasTracked(r)',
         \A r \in Req : Awaiting(r)' => Awaiting(r),
         \A r \in Req : reqIds'[IdOf[r]] \in {None, reqIds[IdOf[r]]}
  PROVE  Delivered'
<1>1. Latest'
  BY LatestKept DEF Delivered
<1>2. JobsLatest' /\ AnswerBelongs' /\ NamesSender'
  BY DEF Delivered, JobsLatest, AnswerBelongs, NamesSender
<1> QED BY <1>1, <1>2 DEF Delivered

\* Services come and go, and with them their unread requests.
LEMMA ServiceIInv ==
  ASSUME IInv, NEW s \in Service, Appear(s) \/ Vanish(s)
  PROVE  IInv'
<1>1. UNCHANGED <<pc, reqIds, timer, sent, job, name, got, later>>
  BY DEF Appear, Vanish
<1>2. serving' \subseteq Service /\ inbox' \subseteq inbox /\ inbox' \subseteq Req
  BY DEF IInv, TypeOK, Appear, Vanish
<1>3. TypeOK'
  BY <1>1, <1>2 DEF IInv, TypeOK
<1>4. Keyed' /\ JobsTracked' /\ (~EarlyFire => ArmedAhead' /\ TimerBacked')
  BY <1>1 DEF IInv, Keyed, JobsTracked, ArmedAhead, TimerBacked, WasTracked
<1>5. Delivered'
  <2>1. /\ \A r \in Req : WasTracked(r) => WasTracked(r)'
        /\ \A r \in Req : Awaiting(r)' => Awaiting(r)
    BY <1>1, <1>2 DEF WasTracked, Awaiting
  <2> QED BY <1>1, <2>1, DeliveredKept DEF IInv
<1> QED BY <1>3, <1>4, <1>5 DEF IInv

\* handleRequest, refusing: only an untracked request changes.
LEMMA RefuseIInv ==
  ASSUME IInv, NEW r \in Req,
         NEW k \in {"NoSuchService", "InvalidIdentification"}, Refuse(r, k)
  PROVE  IInv'
<1> USE ConstAssumption
<1>1. /\ TypeOK /\ pc[r] = "unsent"
      /\ pc' = [pc EXCEPT ![r] = "done"]
      /\ Send(r, Sender[r], k)
      /\ UNCHANGED <<serving, reqIds, timer, inbox, sent, job, name, later>>
  BY DEF IInv, Refuse, Reads
<1>2. /\ got' \in [Req -> Seq(Answer)]
      /\ AnswerBelongs => AnswerBelongs'
  BY <1>1, SendBelongs
<1>3. /\ \A q \in Req : WasTracked(q) => WasTracked(q)'
      /\ \A q \in Req : pc'[q] = "armed" => pc[q] = "armed"
      /\ pc' \in [Req -> {"unsent", "armed", "tracked", "done"}]
  BY <1>1 DEF TypeOK, WasTracked
<1>4. TypeOK'
  BY <1>1, <1>2, <1>3 DEF TypeOK
<1>5. Keyed'
  BY <1>1, <1>3 DEF IInv, TypeOK, Keyed
<1>6. JobsTracked'
  BY <1>1, <1>3 DEF IInv, TypeOK, Job, JobsTracked
<1>7. ~EarlyFire => ArmedAhead' /\ TimerBacked'
  BY <1>1, <1>3 DEF IInv, ArmedAhead, TimerBacked
<1>8. Delivered'
  <2>1. \A q \in Req : Awaiting(q)' => Awaiting(q)
    BY <1>1 DEF TypeOK, Awaiting
  <2>2. Latest'
    BY <1>1, <1>3, <2>1, LatestKept DEF IInv, Delivered
  <2> QED BY <1>1, <1>2, <2>2 DEF IInv, Delivered, JobsLatest, NamesSender
<1> QED BY <1>4, <1>5, <1>6, <1>7, <1>8 DEF IInv

\* handleRequest, accepting: the timer is armed before the request is tracked.
LEMMA ArmTimerIInv ==
  ASSUME IInv, NEW r \in Req, ArmTimer(r)
  PROVE  IInv'
<1>1. /\ TypeOK /\ pc[r] = "unsent"
      /\ pc' = [pc EXCEPT ![r] = "armed"]
      /\ timer' = [timer EXCEPT ![r] = "armed"]
      /\ UNCHANGED <<serving, reqIds, inbox, sent, job, name, got, later>>
  BY DEF IInv, ArmTimer, Reads
<1>2. /\ \A q \in Req : WasTracked(q) => WasTracked(q)'
      /\ \A q \in Req \ {r} : pc'[q] = pc[q] /\ timer'[q] = timer[q]
      /\ timer'[r] = "armed"
      /\ pc' \in [Req -> {"unsent", "armed", "tracked", "done"}]
      /\ timer' \in [Req -> {"off", "armed", "found", "deleted", "over"}]
  BY <1>1 DEF TypeOK, WasTracked
<1>3. TypeOK'
  BY <1>1, <1>2 DEF TypeOK
<1>4. Keyed'
  BY <1>1, <1>2 DEF IInv, TypeOK, Keyed
<1>5. JobsTracked'
  BY <1>1, <1>2 DEF IInv, TypeOK, Job, JobsTracked
<1>6. ~EarlyFire => ArmedAhead' /\ TimerBacked'
  BY <1>1, <1>2 DEF IInv, TypeOK, ArmedAhead, TimerBacked
<1>7. Delivered'
  <2>1. \A q \in Req : Awaiting(q)' => Awaiting(q)
    BY <1>1 DEF TypeOK, Awaiting
  <2> QED BY <1>1, <1>2, <2>1, DeliveredKept DEF IInv
<1> QED BY <1>3, <1>4, <1>5, <1>6, <1>7 DEF IInv

\* The entry is stored; its timer, not fired yet, is still to come.
LEMMA TrackIInv ==
  ASSUME IInv, NEW r \in Req, Track(r)
  PROVE  IInv'
<1> USE ConstAssumption
<1>1. /\ TypeOK /\ pc[r] = "armed" /\ IdOf[r] \in Ids
      /\ pc' = [pc EXCEPT ![r] = "tracked"]
      /\ reqIds' = [reqIds EXCEPT ![IdOf[r]] = r]
      /\ later' = [q \in Req |-> IF IdOf[q] = IdOf[r] /\ WasTracked(q)
                                 THEN later[q] \cup {r} ELSE later[q]]
      /\ UNCHANGED <<serving, timer, inbox, sent, job, name, got>>
  BY DEF IInv, Track, Ids
<1>2. /\ \A q \in Req : WasTracked(q) => WasTracked(q)'
      /\ WasTracked(r)' /\ ~WasTracked(r)
      /\ \A q \in Req : pc'[q] = "armed" => pc[q] = "armed"
      /\ pc' \in [Req -> {"unsent", "armed", "tracked", "done"}]
  BY <1>1 DEF TypeOK, WasTracked
<1>3. /\ reqIds' \in [Ids -> Req \cup {None}]
      /\ reqIds'[IdOf[r]] = r
      /\ \A i \in Ids : i # IdOf[r] => reqIds'[i] = reqIds[i]
  BY <1>1 DEF TypeOK
<1>4. TypeOK'
  <2>1. later' \in [Req -> SUBSET Req]
    BY <1>1 DEF TypeOK
  <2> QED BY <1>1, <1>2, <1>3, <2>1 DEF TypeOK
<1>5. Keyed'
  BY <1>1, <1>2, <1>3 DEF IInv, TypeOK, Keyed
<1>6. JobsTracked'
  <2> SUFFICES ASSUME NEW s \in Service, job[s].at # "idle"
               PROVE  /\ IdOf[job[s].track] = IdOf[job[s].rep]
                      /\ WasTracked(job[s].track)'
                      /\ job[s].at = "deleted" => \A i \in Ids : reqIds'[i] # job[s].track
    BY <1>1 DEF JobsTracked, WasTracked
  <2>1. job[s].track \in Req
    BY <1>1 DEF TypeOK, Job
  <2>2. /\ IdOf[job[s].track] = IdOf[job[s].rep]
        /\ WasTracked(job[s].track)
        /\ job[s].at = "deleted" => \A i \in Ids : reqIds[i] # job[s].track
    BY DEF IInv, JobsTracked
  <2>3. job[s].track # r /\ WasTracked(job[s].track)'
    BY <1>1, <1>2, <2>1, <2>2 DEF WasTracked
  <2>4. job[s].at = "deleted" => \A i \in Ids : reqIds'[i] # job[s].track
    BY <1>3, <2>2, <2>3
  <2> QED BY <2>2, <2>3, <2>4
<1>7. ~EarlyFire => ArmedAhead' /\ TimerBacked'
  BY <1>1, <1>2, <1>3 DEF IInv, ArmedAhead, TimerBacked
<1>8. \A q \in Req : later[q] \subseteq later'[q]
  BY <1>1
<1>9. Latest'
  <2> SUFFICES ASSUME NEW q \in Req, Awaiting(q)'
               PROVE  WasTracked(q)' /\ reqIds'[IdOf[q]] \in {None, q} \cup later'[q]
    BY DEF Latest
  <2>1. CASE q = r
    BY <1>2, <1>3, <2>1
  <2>2. CASE q # r
    <3>1. Awaiting(q)
      BY <1>1, <2>2 DEF TypeOK, Awaiting
    <3>2. WasTracked(q) /\ reqIds[IdOf[q]] \in {None, q} \cup later[q]
      BY <3>1 DEF IInv, Delivered, Latest
    <3>3. CASE IdOf[q] = IdOf[r]
      BY <1>1, <1>2, <1>3, <3>2, <3>3
    <3>4. CASE IdOf[q] # IdOf[r]
      BY <1>2, <1>3, <1>8, <3>2, <3>4 DEF Ids
    <3> QED BY <3>3, <3>4
  <2> QED BY <2>1, <2>2
<1>10. JobsLatest'
  <2>1. \A s \in Service : job[s].at # "idle" => job[s].rep \in Req
    BY <1>1 DEF TypeOK, Job
  <2> QED BY <1>1, <1>8, <2>1 DEF IInv, Delivered, JobsLatest
<1>11. AnswerBelongs'
  BY <1>1, <1>8 DEF IInv, Delivered, AnswerBelongs
<1>12. NamesSender'
  <2>1. \A c \in Client : name[c] # None => name[c] \in Req
    BY <1>1 DEF TypeOK
  <2> QED BY <1>1, <1>8, <2>1 DEF IInv, Delivered, NamesSender
<1> QED BY <1>4, <1>5, <1>6, <1>7, <1>9, <1>10, <1>11, <1>12 DEF IInv, Delivered

\* Forwarding touches the connection of the service only.
LEMMA ForwardIInv ==
  ASSUME IInv, NEW r \in Req, Forward(r)
  PROVE  IInv'
<1>1. /\ TypeOK /\ pc[r] = "tracked"
      /\ pc' = [pc EXCEPT ![r] = "done"]
      /\ inbox' \subseteq inbox \cup {r}
      /\ UNCHANGED <<serving, reqIds, timer, sent, job, name, got, later>>
  BY DEF IInv, Forward
<1>2. /\ \A q \in Req : WasTracked(q) => WasTracked(q)'
      /\ \A q \in Req : pc'[q] = "armed" => pc[q] = "armed"
      /\ pc' \in [Req -> {"unsent", "armed", "tracked", "done"}]
  BY <1>1 DEF TypeOK, WasTracked
<1>3. TypeOK'
  BY <1>1, <1>2 DEF TypeOK
<1>4. Keyed'
  BY <1>1, <1>2 DEF IInv, TypeOK, Keyed
<1>5. JobsTracked'
  BY <1>1, <1>2 DEF IInv, TypeOK, Job, JobsTracked
<1>6. ~EarlyFire => ArmedAhead' /\ TimerBacked'
  BY <1>1, <1>2 DEF IInv, ArmedAhead, TimerBacked
<1>7. Delivered'
  <2>1. \A q \in Req : Awaiting(q)' => Awaiting(q)
    BY <1>1 DEF TypeOK, Awaiting
  <2> QED BY <1>1, <1>2, <2>1, DeliveredKept DEF IInv
<1> QED BY <1>3, <1>4, <1>5, <1>6, <1>7 DEF IInv

\* A timer fires: it dies only when the table holds nothing under its id.
LEMMA ExpireIInv ==
  ASSUME IInv, NEW r \in Req, Expire(r)
  PROVE  IInv'
<1> USE ConstAssumption
<1> DEFINE t == IF reqIds[IdOf[r]] = None THEN "over" ELSE "found"
<1>1. /\ TypeOK /\ timer[r] = "armed" /\ MayFire(r) /\ IdOf[r] \in Ids
      /\ timer' = [timer EXCEPT ![r] = t]
      /\ UNCHANGED <<serving, pc, reqIds, inbox, sent, job, name, got, later>>
  BY DEF IInv, Expire, Ids
<1>2. /\ timer' \in [Req -> {"off", "armed", "found", "deleted", "over"}]
      /\ timer'[r] = t
      /\ \A q \in Req \ {r} : timer'[q] = timer[q]
  BY <1>1 DEF TypeOK
<1>3. TypeOK'
  BY <1>1, <1>2 DEF TypeOK
<1>4. Keyed' /\ JobsTracked'
  BY <1>1 DEF IInv, Keyed, JobsTracked, WasTracked
<1>5. ASSUME ~EarlyFire PROVE ArmedAhead' /\ TimerBacked'
  <2>1. ArmedAhead'
    BY <1>1, <1>2, <1>5 DEF IInv, ArmedAhead, MayFire
  <2>2. ASSUME NEW i \in Ids, reqIds[i] # None
        PROVE  timer'[reqIds[i]] \in {"armed", "found"}
    <3>1. reqIds[i] \in Req /\ IdOf[reqIds[i]] = i
      BY <1>1, <2>2 DEF IInv, TypeOK, Keyed
    <3>2. CASE reqIds[i] = r
      BY <1>2, <2>2, <3>1, <3>2
    <3>3. CASE reqIds[i] # r
      BY <1>2, <1>5, <2>2, <3>1, <3>3 DEF IInv, TimerBacked
    <3> QED BY <3>2, <3>3
  <2> QED BY <1>1, <2>1, <2>2 DEF TimerBacked
<1>6. Delivered'
  BY <1>1, DeliveredKept DEF IInv, WasTracked, Awaiting
<1> QED BY <1>3, <1>4, <1>5, <1>6 DEF IInv

\* The table after a delete under the id of r: nothing new, nothing of that id.
LEMMA DeletedKeyed ==
  ASSUME IInv, NEW r \in Req, reqIds' = [reqIds EXCEPT ![IdOf[r]] = None]
  PROVE  /\ reqIds' \in [Ids -> Req \cup {None}]
         /\ \A i \in Ids : reqIds'[i] # None => reqIds'[i] = reqIds[i]
         /\ \A i \in Ids, q \in Req : IdOf[q] = IdOf[r] => reqIds'[i] # q
<1> USE ConstAssumption
<1>1. IdOf[r] \in Ids /\ reqIds \in [Ids -> Req \cup {None}]
  BY DEF IInv, TypeOK, Ids
<1>2. /\ reqIds' \in [Ids -> Req \cup {None}]
      /\ reqIds'[IdOf[r]] = None
      /\ \A i \in Ids : i # IdOf[r] => reqIds'[i] = reqIds[i]
  BY <1>1
<1>3. ASSUME NEW i \in Ids, NEW q \in Req, IdOf[q] = IdOf[r], reqIds'[i] = q
      PROVE  FALSE
  <2>1. i # IdOf[r] /\ reqIds[i] = q /\ q # None
    BY <1>2, <1>3
  <2>2. IdOf[q] = i
    BY <2>1 DEF IInv, Keyed
  <2> QED BY <1>3, <2>1, <2>2
<1> QED BY <1>2, <1>3

\* The timer deletes whatever is under its id, then is out of the table.
LEMMA TimeoutDeleteIInv ==
  ASSUME IInv, NEW r \in Req, TimeoutDelete(r)
  PROVE  IInv'
<1> USE ConstAssumption
<1>1. /\ TypeOK /\ timer[r] = "found"
      /\ timer' = [timer EXCEPT ![r] = "deleted"]
      /\ reqIds' = [reqIds EXCEPT ![IdOf[r]] = None]
      /\ UNCHANGED <<serving, pc, inbox, sent, job, name, got, later>>
  BY DEF IInv, TimeoutDelete
<1>2. /\ reqIds' \in [Ids -> Req \cup {None}]
      /\ \A i \in Ids : reqIds'[i] # None => reqIds'[i] = reqIds[i]
      /\ \A i \in Ids, q \in Req : IdOf[q] = IdOf[r] => reqIds'[i] # q
  BY <1>1, DeletedKeyed
<1>3. /\ timer' \in [Req -> {"off", "armed", "found", "deleted", "over"}]
      /\ \A q \in Req \ {r} : timer'[q] = timer[q]
  BY <1>1 DEF TypeOK
<1>4. TypeOK'
  BY <1>1, <1>2, <1>3 DEF TypeOK
<1>5. Keyed'
  BY <1>1, <1>2 DEF IInv, Keyed, WasTracked
<1>6. JobsTracked'
  <2>1. \A s \in Service : job[s].at # "idle" => job[s].track # None
    BY DEF IInv, TypeOK
  <2> QED BY <1>1, <1>2, <2>1 DEF IInv, JobsTracked, WasTracked
<1>7. ASSUME ~EarlyFire PROVE ArmedAhead' /\ TimerBacked'
  <2>1. ArmedAhead'
    BY <1>1, <1>3, <1>7 DEF IInv, ArmedAhead
  <2>2. ASSUME NEW i \in Ids, reqIds'[i] # None
        PROVE  timer'[reqIds'[i]] \in {"armed", "found"}
    <3>1. reqIds'[i] \in Req /\ reqIds'[i] # r /\ reqIds'[i] = reqIds[i]
      BY <1>2, <2>2
    <3> QED BY <1>3, <1>7, <3>1, <2>2 DEF IInv, TimerBacked
  <2> QED BY <2>1, <2>2 DEF TimerBacked
<1>8. Delivered'
  <2>1. \A q \in Req : reqIds'[IdOf[q]] \in {None, reqIds[IdOf[q]]}
    BY <1>2 DEF Ids
  <2> QED BY <1>1, <2>1, DeliveredKept DEF IInv, WasTracked, Awaiting
<1> QED BY <1>4, <1>5, <1>6, <1>7, <1>8 DEF IInv

\* The timeout is written to the sender the timer was made for.
LEMMA TimeoutSendIInv ==
  ASSUME IInv, NEW r \in Req, TimeoutSend(r)
  PROVE  IInv'
<1> USE ConstAssumption
<1>1. /\ TypeOK /\ timer[r] = "deleted"
      /\ timer' = [timer EXCEPT ![r] = "over"]
      /\ Send(r, Sender[r], "Timeout")
      /\ UNCHANGED <<serving, pc, reqIds, inbox, sent, job, name, later>>
  BY DEF IInv, TimeoutSend
<1>2. /\ got' \in [Req -> Seq(Answer)]
      /\ AnswerBelongs => AnswerBelongs'
  BY <1>1, SendBelongs
<1>3. /\ timer' \in [Req -> {"off", "armed", "found", "deleted", "over"}]
      /\ \A q \in Req \ {r} : timer'[q] = timer[q]
  BY <1>1 DEF TypeOK
<1>4. TypeOK'
  BY <1>1, <1>2, <1>3 DEF TypeOK
<1>5. Keyed' /\ JobsTracked'
  BY <1>1 DEF IInv, Keyed, JobsTracked, WasTracked
<1>6. ASSUME ~EarlyFire PROVE ArmedAhead' /\ TimerBacked'
  <2>1. \A q \in Req : timer[q] \in {"armed", "found"} => timer'[q] = timer[q]
    BY <1>1, <1>3
  <2>2. ArmedAhead'
    BY <1>1, <1>6, <2>1 DEF IInv, ArmedAhead
  <2>3. \A i \in Ids : reqIds[i] # None => reqIds[i] \in Req
    BY <1>1 DEF TypeOK
  <2>4. TimerBacked'
    BY <1>1, <1>6, <2>1, <2>3 DEF IInv, TimerBacked
  <2> QED BY <2>2, <2>4
<1>7. Delivered'
  <2>1. Latest'
    BY <1>1, LatestKept DEF IInv, Delivered, WasTracked, Awaiting
  <2> QED BY <1>1, <1>2, <2>1 DEF IInv, Delivered, JobsLatest, NamesSender
<1> QED BY <1>4, <1>5, <1>6, <1>7 DEF IInv

\* The built-in service names the sender it finds under the request's id.
LEMMA NameClientIInv ==
  ASSUME IInv, NEW s \in Service, NEW r \in Req, NameClient(s, r)
  PROVE  IInv'
<1> USE ConstAssumption
<1> DEFINE q == reqIds[IdOf[r]]
<1>1. /\ TypeOK /\ IdOf[r] \in Ids /\ q # None /\ r \in inbox
      /\ name' = [name EXCEPT ![Sender[q]] = r]
      /\ UNCHANGED <<serving, pc, reqIds, timer, inbox, sent, job, got, later>>
  BY DEF IInv, NameClient, CanReply, Ids
<1>2. q \in Req /\ Sender[q] \in Client /\ q \in {r} \cup later[r]
  BY <1>1 DEF IInv, TypeOK, Delivered, Latest, Awaiting
<1> HIDE DEF q
<1>3. /\ name' \in [Client -> Req \cup {None}]
      /\ name'[Sender[q]] = r
      /\ \A c \in Client : c # Sender[q] => name'[c] = name[c]
  BY <1>1, <1>2 DEF TypeOK
<1>4. TypeOK'
  BY <1>1, <1>3 DEF TypeOK
<1>5. Keyed' /\ JobsTracked' /\ (~EarlyFire => ArmedAhead' /\ TimerBacked')
  BY <1>1 DEF IInv, Keyed, JobsTracked, ArmedAhead, TimerBacked, WasTracked
<1>6. NamesSender'
  <2> SUFFICES ASSUME NEW c \in Client, name'[c] # None
               PROVE  c = Sender[name'[c]] \/ \E p \in later[name'[c]] : c = Sender[p]
    BY <1>1 DEF NamesSender
  <2>1. CASE c = Sender[q]
    BY <1>2, <1>3, <2>1
  <2>2. CASE c # Sender[q]
    BY <1>3, <2>2 DEF IInv, Delivered, NamesSender
  <2> QED BY <2>1, <2>2
<1>7. Delivered'
  <2>1. Latest'
    BY <1>1, LatestKept DEF IInv, Delivered, WasTracked, Awaiting
  <2> QED BY <1>1, <1>6, <2>1 DEF IInv, Delivered, JobsLatest, AnswerBelongs
<1> QED BY <1>4, <1>5, <1>7 DEF IInv

\* A reply finds its entry, or is dropped.
LEMMA ReplyLookupIInv ==
  ASSUME IInv, NEW s \in Service, NEW r \in Req, ReplyLookup(s, r)
  PROVE  IInv'
<1> USE ConstAssumption
<1> DEFINE q == reqIds[IdOf[r]]
           j == [at |-> "found", rep |-> r, track |-> q]
<1>1. /\ TypeOK /\ IdOf[r] \in Ids /\ r \in inbox
      /\ sent' = [sent EXCEPT ![r] = @ + 1]
      /\ job' = IF q = None THEN job ELSE [job EXCEPT ![s] = j]
      /\ UNCHANGED <<serving, pc, reqIds, timer, inbox, name, got, later>>
  BY DEF IInv, ReplyLookup, CanReply, Ids
<1>2. sent' \in [Req -> Nat]
  BY <1>1 DEF TypeOK
<1>3. /\ ~EarlyFire => ArmedAhead' /\ TimerBacked'
      /\ Latest' /\ AnswerBelongs' /\ NamesSender'
      /\ Keyed'
  <2>1. Latest'
    BY <1>1, LatestKept DEF IInv, Delivered, WasTracked, Awaiting
  <2> QED BY <1>1, <2>1 DEF IInv, Delivered, ArmedAhead, TimerBacked, AnswerBelongs,
                            NamesSender, Keyed, WasTracked
<1>4. CASE q = None
  <2>1. TypeOK'
    BY <1>1, <1>2, <1>4 DEF TypeOK
  <2>2. JobsTracked'
    BY <1>1, <1>4 DEF IInv, JobsTracked, WasTracked
  <2>3. JobsLatest'
    BY <1>1, <1>4 DEF IInv, Delivered, JobsLatest
  <2> QED BY <1>3, <2>1, <2>2, <2>3 DEF IInv, Delivered
<1>5. CASE q # None
  <2>1. q \in Req /\ IdOf[q] = IdOf[r] /\ WasTracked(q)
    BY <1>1, <1>5 DEF IInv, TypeOK, Keyed
  <2>2. j \in Job
    BY <2>1 DEF Job
  <2>3. /\ job' \in [Service -> Job]
        /\ job'[s] = j
        /\ \A u \in Service \ {s} : job'[u] = job[u]
    BY <1>1, <1>5, <2>2 DEF TypeOK
  <2>4. TypeOK'
    BY <1>1, <1>2, <1>5, <2>3 DEF TypeOK
  <2>5. \A u \in Service : pc'[job'[u].track] = pc[job'[u].track] /\ pc'[q] = pc[q]
    BY <1>1
  <2>6. ASSUME NEW u \in Service, job'[u].at # "idle"
        PROVE  /\ IdOf[job'[u].track] = IdOf[job'[u].rep]
               /\ pc'[job'[u].track] \in {"tracked", "done"}
               /\ job'[u].at = "deleted" => \A i \in Ids : reqIds'[i] # job'[u].track
    <3>1. CASE u = s
      BY <2>1, <2>3, <2>5, <3>1 DEF WasTracked
    <3>2. CASE u # s
      BY <1>1, <2>3, <2>6, <3>2 DEF IInv, JobsTracked, WasTracked
    <3> QED BY <3>1, <3>2
  <2>7. JobsTracked'
    BY <2>6 DEF JobsTracked, WasTracked
  <2>8. q \in {r} \cup later[r]
    BY <1>1, <1>5 DEF IInv, Delivered, Latest, Awaiting
  <2>9. JobsLatest'
    BY <1>1, <2>3, <2>8 DEF IInv, Delivered, JobsLatest
  <2> QED BY <1>3, <2>4, <2>7, <2>9 DEF IInv, Delivered
<1> QED BY <1>4, <1>5

\* handleReply deletes the id it was called with: its entry is out of the table.
LEMMA ReplyDeleteIInv ==
  ASSUME IInv, NEW s \in Service, ReplyDelete(s)
  PROVE  IInv'
<1> USE ConstAssumption
<1> DEFINE r == job[s].rep
           t == job[s].track
<1>1. /\ TypeOK /\ job[s].at = "found"
      /\ job' = [job EXCEPT ![s].at = "deleted"]
      /\ reqIds' = [reqIds EXCEPT ![IdOf[r]] = None]
      /\ UNCHANGED <<serving, pc, timer, inbox, sent, name, got, later>>
  BY DEF IInv, ReplyDelete
<1>2. r \in Req /\ t \in Req /\ job[s] \in Job
  BY <1>1 DEF TypeOK, Job
<1>3. IdOf[t] = IdOf[r] /\ pc[t] \in {"tracked", "done"}
  BY <1>1 DEF IInv, JobsTracked, WasTracked
<1> HIDE DEF r, t
<1>4. /\ reqIds' \in [Ids -> Req \cup {None}]
      /\ \A i \in Ids : reqIds'[i] # None => reqIds'[i] = reqIds[i]
      /\ \A i \in Ids, q \in Req : IdOf[q] = IdOf[r] => reqIds'[i] # q
  BY <1>1, <1>2, DeletedKeyed
<1>5. /\ job'[s].rep = r /\ job'[s].track = t
      /\ job' \in [Service -> Job]
      /\ \A u \in Service \ {s} : job'[u] = job[u]
  <2>1. job' = [job EXCEPT ![s] = [job[s] EXCEPT !.at = "deleted"]]
    BY <1>1
  <2>2. [job[s] EXCEPT !.at = "deleted"] \in Job
    BY <1>2 DEF Job
  <2>3. job \in [Service -> Job]
    BY <1>1 DEF TypeOK
  <2> QED BY <2>1, <2>2, <2>3 DEF Job, r, t
<1>6. TypeOK'
  <2>1. \A u \in Service : job'[u].at # "idle" => job'[u].rep # None /\ job'[u].track # None
    BY <1>1, <1>2, <1>5 DEF TypeOK
  <2> QED BY <1>1, <1>4, <1>5, <2>1 DEF TypeOK
<1>7. Keyed'
  BY <1>1, <1>4 DEF IInv, Keyed, WasTracked
<1>8. ASSUME NEW u \in Service, job'[u].at # "idle"
      PROVE  /\ IdOf[job'[u].track] = IdOf[job'[u].rep]
             /\ pc'[job'[u].track] \in {"tracked", "done"}
             /\ job'[u].at = "deleted" => \A i \in Ids : reqIds'[i] # job'[u].track
  <2>1. CASE u = s
    BY <1>1, <1>2, <1>3, <1>4, <1>5, <2>1
  <2>2. CASE u # s
    <3>1. job[u].track # None /\ job'[u] = job[u] /\ job[u].at # "idle"
      BY <1>1, <1>5, <1>8, <2>2 DEF TypeOK
    <3>2. /\ IdOf[job[u].track] = IdOf[job[u].rep]
          /\ pc[job[u].track] \in {"tracked", "done"}
          /\ job[u].at = "deleted" => \A i \in Ids : reqIds[i] # job[u].track
      BY <3>1 DEF IInv, JobsTracked, WasTracked
    <3>3. job[u].at = "deleted" => \A i \in Ids : reqIds'[i] # job[u].track
      BY <1>4, <3>1, <3>2
    <3> QED BY <1>1, <3>1, <3>2, <3>3
  <2> QED BY <2>1, <2>2
<1>9. JobsTracked'
  BY <1>8 DEF JobsTracked, WasTracked
<1>10. ~EarlyFire => ArmedAhead' /\ TimerBacked'
  BY <1>1, <1>4 DEF IInv, ArmedAhead, TimerBacked
<1>11. Delivered'
  <2>1. \A q \in Req : reqIds'[IdOf[q]] \in {None, reqIds[IdOf[q]]}
    BY <1>4 DEF Ids
  <2>2. Latest'
    BY <1>1, <2>1, LatestKept DEF IInv, Delivered, WasTracked, Awaiting
  <2>3. t \in {r} \cup later[r]
    BY <1>1 DEF IInv, Delivered, JobsLatest, r, t
  <2>4. JobsLatest'
    BY <1>1, <1>5, <2>3 DEF IInv, Delivered, JobsLatest
  <2> QED BY <1>1, <2>2, <2>4 DEF IInv, Delivered, AnswerBelongs, NamesSender
<1> QED BY <1>6, <1>7, <1>9, <1>10, <1>11 DEF IInv

\* The timer that is stopped belongs to no entry of the table, and the reply
\* goes to the sender of the entry it found.
LEMMA ReplySendIInv ==
  ASSUME IInv, NEW s \in Service, ReplySend(s)
  PROVE  IInv'
<1> USE ConstAssumption
<1> DEFINE r == job[s].rep
           t == job[s].track
<1>1. /\ TypeOK /\ job[s].at = "deleted"
      /\ timer' = [timer EXCEPT ![t] = IF @ = "armed" THEN "over" ELSE @]
      /\ Send(r, Sender[t], "reply")
      /\ job' = [job EXCEPT ![s] = NoJob]
      /\ UNCHANGED <<serving, pc, reqIds, inbox, sent, name, later>>
  BY DEF IInv, ReplySend, Stopped
<1>2. r \in Req /\ t \in Req /\ Sender[t] \in Client
  BY <1>1 DEF TypeOK, Job
<1>3. /\ IdOf[t] = IdOf[r] /\ pc[t] \in {"tracked", "done"}
      /\ \A i \in Ids : reqIds[i] # t
  BY <1>1 DEF IInv, JobsTracked, WasTracked
<1> HIDE DEF r, t
<1>4. /\ got' \in [Req -> Seq(Answer)]
      /\ AnswerBelongs'
  <2>1. AnswerBelongs /\ t \in {r} \cup later[r]
    BY <1>1 DEF IInv, Delivered, JobsLatest, r, t
  <2> QED BY <1>1, <1>2, <2>1, SendBelongs
<1>5. /\ timer' \in [Req -> {"off", "armed", "found", "deleted", "over"}]
      /\ \A q \in Req \ {t} : timer'[q] = timer[q]
  BY <1>1, <1>2 DEF TypeOK
<1>6. NoJob \in Job /\ NoJob.at = "idle"
  BY DEF NoJob, Job
<1>7. /\ job' \in [Service -> Job]
      /\ job'[s].at = "idle"
      /\ \A u \in Service \ {s} : job'[u] = job[u]
  BY <1>1, <1>6 DEF TypeOK
<1>8. TypeOK'
  BY <1>1, <1>4, <1>5, <1>7 DEF TypeOK
<1>9. Keyed'
  BY <1>1 DEF IInv, Keyed, WasTracked
<1>10. JobsTracked'
  BY <1>1, <1>7 DEF IInv, JobsTracked, WasTracked
<1>11. ASSUME ~EarlyFire PROVE ArmedAhead' /\ TimerBacked'
  <2>1. ArmedAhead'
    BY <1>1, <1>3, <1>5, <1>11 DEF IInv, ArmedAhead
  <2>2. \A i \in Ids : reqIds[i] # None => reqIds[i] \in Req
    BY <1>1 DEF TypeOK
  <2>3. TimerBacked'
    BY <1>1, <1>3, <1>5, <1>11, <2>2 DEF IInv, TimerBacked
  <2> QED BY <2>1, <2>3
<1>12. Delivered'
  <2>1. Latest'
    BY <1>1, LatestKept DEF IInv, Delivered, WasTracked, Awaiting
  <2>2. JobsLatest' /\ NamesSender'
    BY <1>1, <1>7 DEF IInv, Delivered, JobsLatest, NamesSender
  <2> QED BY <1>4, <2>1, <2>2 DEF Delivered
<1> QED BY <1>8, <1>9, <1>10, <1>11, <1>12 DEF IInv

\* Every step of the request router preserves the invariant.
LEMMA NextIInv == IInv /\ [Next]_vars => IInv'
<1> SUFFICES ASSUME IInv, [Next]_vars PROVE IInv'
  OBVIOUS
<1>1. CASE UNCHANGED vars
  <2>1. UNCHANGED <<serving, pc, reqIds, timer, inbox, sent, job, name, got, later>>
    BY <1>1 DEF vars
  <2>2. TypeOK'
    BY <2>1 DEF IInv, TypeOK
  <2>3. Delivered'
    BY <2>1, DeliveredKept DEF IInv, WasTracked, Awaiting
  <2> QED BY <2>1, <2>2, <2>3 DEF IInv, Keyed, JobsTracked, ArmedAhead, TimerBacked, WasTracked
<1>2. ASSUME NEW r \in Req, Handle(r) PROVE IInv'
  BY <1>2, RefuseIInv, ArmTimerIInv, TrackIInv, ForwardIInv
     DEF Handle, NoSuchService, InvalidIdentification
<1>3. ASSUME NEW r \in Req, Timer(r) PROVE IInv'
  BY <1>3, ExpireIInv, TimeoutDeleteIInv, TimeoutSendIInv DEF Timer
<1>4. ASSUME NEW s \in Service, Relay(s) PROVE IInv'
  BY <1>4, ReplyDeleteIInv, ReplySendIInv DEF Relay
<1> QED BY <1>1, <1>2, <1>3, <1>4, ServiceIInv, NameClientIInv, ReplyLookupIInv DEF Next

\* The invariant holds throughout every behaviour.
THEOREM Invariance == Spec => []IInv
<1>1. Init => IInv
  BY InitIInv
<1>2. IInv /\ [Next]_vars => IInv'
  BY NextIInv
<1> QED BY <1>1, <1>2, PTL DEF Spec

\* The request table and its users are well formed: handleReply never goes on
\* without the entry it looked up.
THEOREM TypeCorrect == Spec => []TypeOK
<1>1. IInv => TypeOK
  BY DEF IInv
<1> QED BY <1>1, Invariance, PTL

\* If no timer fires before its request is tracked, no entry of reqIds outlives
\* its timer, whichever ids the clients choose.
THEOREM NoLeak == ASSUME ~EarlyFire PROVE Spec => []TimerBacked
<1>1. IInv => TimerBacked
  BY DEF IInv
<1> QED BY <1>1, Invariance, PTL

\* Whichever ids the clients choose and whenever timers fire, refusals and
\* timeouts reach the sender of their request, and a reply that goes astray
\* goes to a client that used its id later.
THEOREM AnswersBelong == Spec => []AnswerBelongs
<1>1. IInv => AnswerBelongs
  BY DEF IInv, Delivered
<1> QED BY <1>1, Invariance, PTL

\* Whichever ids the clients choose, name_client names its sender or a client
\* that used its id later.
THEOREM SenderNamed == Spec => []NamesSender
<1>1. IInv => NamesSender
  BY DEF IInv, Delivered
<1> QED BY <1>1, Invariance, PTL

-----------------------------------------------------------------------------
(***************************************************************************)
(* The request router implements Rpc, as far as safety goes, for requests  *)
(* with an id of their own.  What is needed beyond IInv is that a request  *)
(* takes part in nothing before it is accepted, that its service has       *)
(* replied when a reply is on its way, and that the entry a reply or a     *)
(* timeout has used up does not come back: nobody else uses its id.        *)
(***************************************************************************)
Has(r, kind) == \E n \in 1..Len(got[r]) : got[r][n].kind = kind

Fresh ==
  \A r \in Req : pc[r] = "unsent" => timer[r] = "off" /\ sent[r] = 0 /\ got[r] = <<>>

\* Whatever is underway, waits at a service or was replied to has a timer.
Accepted ==
  /\ \A r \in Req : pc[r] \in {"armed", "tracked"} => timer[r] # "off"
  /\ \A r \in Req : r \in inbox \/ sent[r] > 0 => pc[r] = "done" /\ timer[r] # "off"

OneTimeout == \A r \in Req : Has(r, "Timeout") => timer[r] = "over"

UsedUp(r) == sent[r] > 0 /\ reqIds[IdOf[r]] = None

OneReply ==
  /\ \A r \in OwnId : Has(r, "reply") => UsedUp(r)
  /\ \A s \in Service : job[s].at # "idle" => sent[job[s].rep] > 0
  /\ \A s \in Service : job[s].at # "idle" /\ job[s].rep \in OwnId =>
       /\ Target[job[s].rep] = s
       /\ ~Has(job[s].rep, "reply")
       /\ job[s].at = "deleted" => UsedUp(job[s].rep)

RInv == Fresh /\ Accepted /\ OneTimeout /\ OneReply

\* One answer more: of the kinds given to each request, only that one is new.
LEMMA SendAdds ==
  ASSUME TypeOK, NEW r \in Req, NEW c \in Client,
         NEW k \in {"NoSuchService", "InvalidIdentification", "Timeout", "reply"},
         Send(r, c, k), NEW q \in Req, NEW j
  PROVE  Has(q, j)' <=> Has(q, j) \/ (q = r /\ j = k)
<1> DEFINE a == [to |-> c, kind |-> k]
<1>1. a \in Answer /\ a.kind = k
  BY DEF Answer
<1>2. /\ got \in [Req -> Seq(Answer)]
      /\ got' = [got EXCEPT ![r] = Append(got[r], a)]
  BY DEF TypeOK, Send
<1> HIDE DEF a
<1>3. CASE q = r
  <2>1. got'[q] = Append(got[q], a) /\ got[q] \in Seq(Answer)
    BY <1>2, <1>3
  <2>2. /\ Len(got'[q]) = Len(got[q]) + 1 /\ Len(got[q]) \in Nat
        /\ \A n \in 1..Len(got[q]) : got'[q][n] = got[q][n]
        /\ got'[q][Len(got[q]) + 1] = a
    BY <1>1, <2>1
  <2> QED BY <1>1, <1>3, <2>2, SMTT(40) DEF Has
<1>4. CASE q # r
  <2>1. got'[q] = got[q]
    BY <1>2, <1>4
  <2> QED BY <1>4, <2>1 DEF Has
<1> QED BY <1>3, <1>4

\* Answers that stay the same are the same to Rpc.
LEMMA SameAnswers ==
  ASSUME UNCHANGED got, NEW r \in Req, NEW k
  PROVE  Has(r, k)' <=> Has(r, k)
BY DEF Has

\* What was answered to a request with an id of its own is what Rpc sees.
LEMMA HasSeen ==
  ASSUME NEW r \in OwnId, NEW k
  PROVE  Abstract!Has(r, k) <=> Has(r, k)
BY DEF Abstract!Has, Has

\* A step that changes no status and no answers of theirs is a stutter of Rpc.
LEMMA Stutters ==
  ASSUME \A r \in OwnId : got'[r] = got[r], \A r \in OwnId : Status(r)' = Status(r)
  PROVE  UNCHANGED Abstract!vars
<1>1. [r \in OwnId |-> Status(r)]' = [r \in OwnId |-> Status(r)]
  OBVIOUS
<1>2. [r \in OwnId |-> got[r]]' = [r \in OwnId |-> got[r]]
  OBVIOUS
<1> QED BY <1>1, <1>2 DEF Abstract!vars

\* The broker starts where Rpc does.
LEMMA InitRInv == Init => RInv /\ Abstract!Init
<1> SUFFICES ASSUME Init PROVE RInv /\ Abstract!Init
  OBVIOUS
<1>1. /\ \A r \in Req : /\ pc[r] = "unsent" /\ timer[r] = "off" /\ sent[r] = 0
                        /\ got[r] = <<>> /\ Len(got[r]) = 0
      /\ \A s \in Service : job[s].at = "idle"
      /\ inbox = {}
  BY DEF Init, NoJob
<1>2. \A r \in Req, k \in {"Timeout", "reply"} : ~Has(r, k)
  BY <1>1 DEF Has
<1>3. RInv
  BY <1>1, <1>2 DEF RInv, Fresh, Accepted, OneTimeout, OneReply, OwnId
<1>4. \A r \in Req : Status(r) = "unasked"
  BY <1>1 DEF Status
<1>5. OwnId \subseteq Req
  BY DEF OwnId
<1>6. Abstract!Init
  BY <1>1, <1>4, <1>5 DEF Abstract!Init
<1> QED BY <1>3, <1>6

\* Steps that Rpc does not see: requests go on, timers go on, the table shrinks.
LEMMA QuietStep ==
  ASSUME TypeOK, RInv, UNCHANGED <<sent, got>>,
         \A r \in Req : \/ pc'[r] = pc[r]
                        \/ /\ pc[r] \in {"armed", "tracked"} /\ timer[r] # "off"
                           /\ pc'[r] \in {"tracked", "done"},
         \A r \in Req : \/ timer'[r] = timer[r]
                        \/ timer[r] \notin {"off", "over"} /\ timer'[r] # "off",
         \A r \in inbox' : r \in inbox \/ (pc'[r] = "done" /\ timer'[r] # "off"),
         \A r \in OwnId : UsedUp(r) => UsedUp(r)',
         \A s \in Service : job'[s].at # "idle" =>
           /\ job[s].at # "idle" /\ job'[s].rep = job[s].rep /\ job[s].rep \in Req
           /\ job'[s].at = "deleted" => job[s].at = "deleted" \/ UsedUp(job[s].rep)'
  PROVE  RInv' /\ UNCHANGED Abstract!vars
<1>1. Fresh /\ Accepted /\ OneTimeout /\ OneReply
  BY DEF RInv
<1>2. \A r \in Req : timer'[r] = "off" <=> timer[r] = "off"
  OBVIOUS
<1>3. Fresh'
  BY <1>1 DEF Fresh
<1>4. Accepted'
  BY <1>1, <1>2 DEF Accepted
<1>5. OneTimeout'
  BY <1>1, SameAnswers DEF OneTimeout
<1>6. \A r \in OwnId : r \in Req /\ (Has(r, "reply")' => UsedUp(r)')
  BY <1>1, SameAnswers DEF OneReply, OwnId
<1>7. ASSUME NEW s \in Service, job'[s].at # "idle", job'[s].rep \in OwnId
      PROVE  /\ Target[job'[s].rep] = s
             /\ ~Has(job[s].rep, "reply")'
             /\ job'[s].at = "deleted" => UsedUp(job[s].rep)'
  <2>1. PICK r \in Req : r \in OwnId /\ job[s].rep = r /\ job'[s].rep = r
    BY <1>7
  <2>2. /\ Target[r] = s /\ ~Has(r, "reply")
        /\ job[s].at = "deleted" => UsedUp(r)
    BY <1>1, <1>7, <2>1 DEF OneReply
  <2>3. ~Has(r, "reply")'
    BY <2>2, SameAnswers
  <2>4. job'[s].at = "deleted" => UsedUp(r)'
    BY <1>7, <2>1, <2>2
  <2> QED BY <2>1, <2>2, <2>3, <2>4
<1>8. OneReply'
  <2>1. \A s \in Service : job'[s].at # "idle" => sent'[job'[s].rep] > 0
    BY <1>1 DEF OneReply
  <2> QED BY <1>6, <1>7, <2>1 DEF OneReply
<1>9. \A r \in OwnId : Status(r)' = Status(r)
  BY <1>1, <1>2, <1>6 DEF Status, Accepted
<1> QED BY <1>3, <1>4, <1>5, <1>8, <1>9, Stutters DEF RInv

\* Services come and go, requests are tracked and forwarded, timers fire.
LEMMA QuietHandle ==
  ASSUME IInv, RInv,
         \/ \E s \in Service : Appear(s) \/ Vanish(s)
         \/ \E r \in Req : Track(r) \/ Forward(r) \/ Expire(r) \/ TimeoutDelete(r)
         \/ \E s \in Service, r \in Req : NameClient(s, r)
  PROVE  RInv' /\ UNCHANGED Abstract!vars
<1> USE ConstAssumption
<1>1. TypeOK /\ Accepted
  BY DEF IInv, RInv
<1>2. /\ \A s \in Service : job[s].at # "idle" => job[s].rep \in Req
      /\ OwnId \subseteq Req
  BY <1>1 DEF TypeOK, Job, OwnId
<1>3. CASE \E s \in Service : Appear(s) \/ Vanish(s)
  <2>1. UNCHANGED <<pc, reqIds, timer, sent, job, got>> /\ inbox' \subseteq inbox
    BY <1>3 DEF Appear, Vanish
  <2>2. \A r \in Req : UsedUp(r)' = UsedUp(r)
    BY <2>1 DEF UsedUp
  <2> QED BY <1>1, <1>2, <2>1, <2>2, QuietStep
<1>4. ASSUME NEW r \in Req, Track(r) PROVE RInv' /\ UNCHANGED Abstract!vars
  <2>1. /\ pc[r] = "armed" /\ timer[r] # "off"
        /\ \A q \in Req : pc'[q] = IF q = r THEN "tracked" ELSE pc[q]
        /\ \A q \in Req : reqIds'[IdOf[q]] = IF IdOf[q] = IdOf[r] THEN r ELSE reqIds[IdOf[q]]
        /\ UNCHANGED <<timer, inbox, sent, job, got>>
    BY <1>1, <1>4 DEF Track, TypeOK, Accepted, Ids
  <2>2. \A q \in OwnId : UsedUp(q) => UsedUp(q)'
    BY <1>1, <2>1 DEF UsedUp, Accepted, OwnId
  <2> QED BY <1>1, <1>2, <2>1, <2>2, QuietStep
<1>5. ASSUME NEW r \in Req, Forward(r) PROVE RInv' /\ UNCHANGED Abstract!vars
  <2>1. /\ pc[r] = "tracked" /\ timer[r] # "off"
        /\ \A q \in Req : pc'[q] = IF q = r THEN "done" ELSE pc[q]
        /\ inbox' \subseteq inbox \cup {r}
        /\ UNCHANGED <<reqIds, timer, sent, job, got>>
    BY <1>1, <1>5 DEF Forward, TypeOK, Accepted
  <2>2. \A q \in Req : UsedUp(q)' = UsedUp(q)
    BY <2>1 DEF UsedUp
  <2> QED BY <1>1, <1>2, <2>1, <2>2, QuietStep
<1>6. ASSUME NEW r \in Req, Expire(r) PROVE RInv' /\ UNCHANGED Abstract!vars
  <2>1. /\ timer[r] = "armed" /\ timer'[r] \in {"over", "found"}
        /\ \A q \in Req \ {r} : timer'[q] = timer[q]
        /\ UNCHANGED <<pc, reqIds, inbox, sent, job, got>>
    BY <1>1, <1>6 DEF Expire, TypeOK
  <2>2. \A q \in Req : UsedUp(q)' = UsedUp(q)
    BY <2>1 DEF UsedUp
  <2> QED BY <1>1, <1>2, <2>1, <2>2, QuietStep
<1>7. ASSUME NEW r \in Req, TimeoutDelete(r) PROVE RInv' /\ UNCHANGED Abstract!vars
  <2>1. /\ timer[r] = "found" /\ timer'[r] = "deleted"
        /\ \A q \in Req \ {r} : timer'[q] = timer[q]
        /\ \A q \in Req : reqIds'[IdOf[q]] \in {None, reqIds[IdOf[q]]}
        /\ UNCHANGED <<pc, inbox, sent, job, got>>
    BY <1>1, <1>7 DEF TimeoutDelete, TypeOK, Ids
  <2>2. \A q \in Req : UsedUp(q) => UsedUp(q)'
    BY <2>1 DEF UsedUp
  <2> QED BY <1>1, <1>2, <2>1, <2>2, QuietStep
<1>8. CASE \E s \in Service, r \in Req : NameClient(s, r)
  <2>1. UNCHANGED <<pc, reqIds, timer, inbox, sent, job, got>>
    BY <1>8 DEF NameClient
  <2>2. \A r \in Req : UsedUp(r)' = UsedUp(r)
    BY <2>1 DEF UsedUp
  <2> QED BY <1>1, <1>2, <2>1, <2>2, QuietStep
<1> QED BY <1>3, <1>4, <1>5, <1>6, <1>7, <1>8

\* handleReply takes the entry out of the table; with an own id it was that of
\* the request it replies to, which is not tracked a second time.
LEMMA QuietDelete ==
  ASSUME IInv, RInv, NEW s \in Service, ReplyDelete(s)
  PROVE  RInv' /\ UNCHANGED Abstract!vars
<1> USE ConstAssumption
<1>1. TypeOK /\ Accepted /\ OneReply
  BY DEF IInv, RInv
<1>2. /\ \A u \in Service : job[u].at # "idle" => job[u].rep \in Req
      /\ OwnId \subseteq Req
  BY <1>1 DEF TypeOK, Job, OwnId
<1>3. PICK r \in Req : job[s].rep = r
  BY <1>2 DEF ReplyDelete
<1>4. /\ job[s].at = "found" /\ sent[r] > 0
      /\ UNCHANGED <<pc, timer, inbox, sent, got>>
  BY <1>1, <1>3 DEF ReplyDelete, OneReply
<1>5. \A q \in Req : reqIds'[IdOf[q]] = IF IdOf[q] = IdOf[r] THEN None ELSE reqIds[IdOf[q]]
  BY <1>1, <1>3 DEF ReplyDelete, TypeOK, Ids
<1>6. /\ job'[s].rep = r
      /\ \A u \in Service \ {s} : job'[u] = job[u]
  <2>1. job[s] \in Job /\ job' = [job EXCEPT ![s] = [job[s] EXCEPT !.at = "deleted"]]
    BY <1>1 DEF ReplyDelete, TypeOK
  <2> QED BY <1>1, <1>3, <2>1 DEF Job, TypeOK
<1>7. UsedUp(r)' /\ \A q \in Req : UsedUp(q) => UsedUp(q)'
  BY <1>4, <1>5 DEF UsedUp
<1>8. ASSUME NEW u \in Service, job'[u].at # "idle"
      PROVE  /\ job[u].at # "idle" /\ job'[u].rep = job[u].rep /\ job[u].rep \in Req
             /\ job'[u].at = "deleted" => job[u].at = "deleted" \/ UsedUp(job[u].rep)'
  <2>1. CASE u = s
    BY <1>3, <1>4, <1>6, <1>7, <2>1
  <2>2. CASE u # s
    BY <1>2, <1>6, <1>8, <2>2
  <2> QED BY <2>1, <2>2
<1> QED BY <1>1, <1>2, <1>4, <1>7, <1>8, QuietStep

\* The status of one request changes; its answers do, or do not.
LEMMA StatusStep ==
  ASSUME NEW r \in OwnId, NEW v, Status(r)' = v,
         \A q \in Req \ {r} : Status(q)' = Status(q)
  PROVE  [q \in OwnId |-> Status(q)]' = [[q \in OwnId |-> Status(q)] EXCEPT ![r] = v]
BY DEF OwnId

LEMMA SameSeen ==
  ASSUME UNCHANGED got
  PROVE  [q \in OwnId |-> got[q]]' = [q \in OwnId |-> got[q]]
OBVIOUS

LEMMA SendSeen ==
  ASSUME TypeOK, NEW r \in OwnId, NEW k, Send(r, Sender[r], k), ~Has(r, k)
  PROVE  Abstract!Answer(r, k)
<1>1. /\ r \in Req /\ OwnId \subseteq Req
      /\ got' = [got EXCEPT ![r] = Append(got[r], [to |-> Sender[r], kind |-> k])]
      /\ got \in [Req -> Seq(Answer)]
  BY DEF OwnId, Send, TypeOK
<1>2. [q \in OwnId |-> got[q]]' =
        [[q \in OwnId |-> got[q]] EXCEPT ![r] = Append(@, [to |-> Sender[r], kind |-> k])]
  BY <1>1
<1>3. ~Abstract!Has(r, k)
  BY HasSeen
<1> QED BY <1>2, <1>3 DEF Abstract!Answer

\* What happens to a request that shares its id is nothing to Rpc.
LEMMA Unseen ==
  ASSUME NEW r \in Req, r \notin OwnId,
         \A q \in Req \ {r} : got'[q] = got[q] /\ Status(q)' = Status(q)
  PROVE  UNCHANGED Abstract!vars
BY Stutters DEF OwnId

\* A refusal is the first and only answer.
LEMMA RefuseImplements ==
  ASSUME IInv, RInv, NEW r \in Req,
         NEW k \in {"NoSuchService", "InvalidIdentification"}, Refuse(r, k)
  PROVE  RInv' /\ ((r \in OwnId /\ Abstract!Refuse(r)) \/ UNCHANGED Abstract!vars)
<1> USE ConstAssumption
<1>1. TypeOK /\ Fresh /\ Accepted /\ OneTimeout /\ OneReply
  BY DEF IInv, RInv
<1>2. /\ pc[r] = "unsent" /\ timer[r] = "off" /\ sent[r] = 0 /\ got[r] = <<>>
      /\ Send(r, Sender[r], k) /\ Sender[r] \in Client
      /\ \A q \in Req \ {r} : got'[q] = got[q]
      /\ \A q \in Req : pc'[q] = IF q = r THEN "done" ELSE pc[q]
      /\ UNCHANGED <<reqIds, timer, inbox, sent, job>>
  BY <1>1 DEF Refuse, Reads, Fresh, TypeOK, Send
<1>3. \A q \in Req, j \in {"Timeout", "reply"} : Has(q, j)' <=> Has(q, j)
  BY <1>1, <1>2, SendAdds
<1>4. Fresh'
  BY <1>1, <1>2, SMTT(40) DEF Fresh, Send
<1>5. Accepted'
  BY <1>1, <1>2 DEF Accepted
<1>6. OneTimeout'
  BY <1>1, <1>2, <1>3 DEF OneTimeout
<1>7. \A q \in Req : UsedUp(q)' = UsedUp(q)
  BY <1>2 DEF UsedUp
<1>8. OneReply'
  <2>1. \A s \in Service : job[s].at # "idle" => job[s].rep \in Req
    BY <1>1 DEF TypeOK, Job
  <2>2. ASSUME NEW s \in Service, job'[s].at # "idle", job'[s].rep \in OwnId
        PROVE  /\ Target[job'[s].rep] = s
               /\ ~Has(job[s].rep, "reply")'
               /\ job'[s].at = "deleted" => UsedUp(job[s].rep)'
    <3>1. PICK q \in Req : q \in OwnId /\ job[s].rep = q /\ job'[s].rep = q
      BY <1>2, <2>1, <2>2
    <3> QED BY <1>1, <1>2, <1>3, <1>7, <2>2, <3>1 DEF OneReply
  <2>3. \A q \in OwnId : q \in Req
    BY DEF OwnId
  <2>4. \A s \in Service : job'[s].at # "idle" => sent'[job'[s].rep] > 0
    BY <1>1, <1>2 DEF OneReply
  <2> QED BY <1>1, <1>2, <1>3, <1>7, <2>2, <2>3, <2>4 DEF OneReply
<1>9. /\ Status(r) = "unasked" /\ Status(r)' = "refused"
      /\ \A q \in Req \ {r} : Status(q)' = Status(q)
  BY <1>2 DEF Status
<1>10. ~Has(r, k) /\ k \in Abstract!Refusal
  BY <1>2 DEF Has, Abstract!Refusal
<1>11. CASE r \in OwnId
  <2>1. Abstract!Answer(r, k)
    BY <1>1, <1>2, <1>10, <1>11, SendSeen
  <2>2. [q \in OwnId |-> Status(q)][r] = "unasked"
    BY <1>9, <1>11
  <2>3. Abstract!Refuse(r)
    BY <1>9, <1>10, <1>11, <2>1, <2>2, StatusStep DEF Abstract!Refuse
  <2> QED BY <1>4, <1>5, <1>6, <1>8, <1>11, <2>3 DEF RInv
<1>12. CASE r \notin OwnId
  <2>1. UNCHANGED Abstract!vars
    BY <1>2, <1>9, <1>12, Unseen
  <2> QED BY <1>4, <1>5, <1>6, <1>8, <2>1 DEF RInv
<1> QED BY <1>11, <1>12

\* A request whose service is found is accepted when its timer is armed.
LEMMA ArmTimerImplements ==
  ASSUME IInv, RInv, NEW r \in Req, ArmTimer(r)
  PROVE  RInv' /\ ((r \in OwnId /\ Abstract!Accept(r)) \/ UNCHANGED Abstract!vars)
<1> USE ConstAssumption
<1>1. TypeOK /\ Fresh /\ Accepted /\ OneTimeout /\ OneReply
  BY DEF IInv, RInv
<1>2. /\ pc[r] = "unsent" /\ timer[r] = "off" /\ sent[r] = 0 /\ got[r] = <<>>
      /\ \A q \in Req : pc'[q] = IF q = r THEN "armed" ELSE pc[q]
      /\ \A q \in Req : timer'[q] = IF q = r THEN "armed" ELSE timer[q]
      /\ UNCHANGED <<reqIds, inbox, sent, job, got>>
  BY <1>1 DEF ArmTimer, Reads, Fresh, TypeOK
<1>3. Fresh' /\ Accepted'
  BY <1>1, <1>2 DEF Fresh, Accepted
<1>4. OneTimeout'
  <2>1. ~Has(r, "Timeout")
    BY <1>1, <1>2 DEF OneTimeout
  <2> QED BY <1>1, <1>2, <2>1, SameAnswers DEF OneTimeout
<1>5. OneReply'
  <2>1. \A q \in OwnId : q \in Req
    BY DEF OwnId
  <2>2. \A q \in Req : (UsedUp(q)' <=> UsedUp(q)) /\ (Has(q, "reply")' <=> Has(q, "reply"))
    BY <1>2, SameAnswers DEF UsedUp
  <2> QED BY <1>1, <1>2, <2>1, <2>2 DEF OneReply
<1>6. /\ Status(r) = "unasked" /\ Status(r)' = "accepted"
      /\ \A q \in Req \ {r} : Status(q)' = Status(q)
  BY <1>2 DEF Status
<1>7. CASE r \in OwnId
  <2>1. [q \in OwnId |-> Status(q)][r] = "unasked"
    BY <1>6, <1>7
  <2>2. Abstract!Accept(r)
    BY <1>2, <1>6, <1>7, <2>1, StatusStep, SameSeen DEF Abstract!Accept
  <2> QED BY <1>3, <1>4, <1>5, <1>7, <2>2 DEF RInv
<1>8. CASE r \notin OwnId
  <2>1. UNCHANGED Abstract!vars
    BY <1>2, <1>6, <1>8, Unseen
  <2> QED BY <1>3, <1>4, <1>5, <2>1 DEF RInv
<1> QED BY <1>7, <1>8

\* A timer that deleted the entry of its request gives up once.
LEMMA TimeoutSendImplements ==
  ASSUME IInv, RInv, NEW r \in Req, TimeoutSend(r)
  PROVE  RInv' /\ ((r \in OwnId /\ Abstract!GiveUp(r)) \/ UNCHANGED Abstract!vars)
<1> USE ConstAssumption
<1>1. TypeOK /\ Fresh /\ Accepted /\ OneTimeout /\ OneReply
  BY DEF IInv, RInv
<1>2. /\ timer[r] = "deleted" /\ pc[r] # "unsent"
      /\ \A q \in Req : timer'[q] = IF q = r THEN "over" ELSE timer[q]
      /\ Send(r, Sender[r], "Timeout") /\ Sender[r] \in Client
      /\ \A q \in Req \ {r} : got'[q] = got[q]
      /\ UNCHANGED <<pc, reqIds, inbox, sent, job>>
  BY <1>1 DEF TimeoutSend, Fresh, TypeOK, Send
<1>3. /\ \A q \in Req : Has(q, "reply")' <=> Has(q, "reply")
      /\ \A q \in Req : Has(q, "Timeout")' <=> Has(q, "Timeout") \/ q = r
  BY <1>1, <1>2, SendAdds
<1>4. Fresh' /\ Accepted'
  BY <1>1, <1>2 DEF Fresh, Accepted
<1>5. OneTimeout'
  BY <1>1, <1>2, <1>3 DEF OneTimeout
<1>6. \A q \in Req : UsedUp(q)' = UsedUp(q)
  BY <1>2 DEF UsedUp
<1>7. OneReply'
  <2>1. \A s \in Service : job[s].at # "idle" => job[s].rep \in Req
    BY <1>1 DEF TypeOK, Job
  <2>2. ASSUME NEW s \in Service, job'[s].at # "idle", job'[s].rep \in OwnId
        PROVE  /\ Target[job'[s].rep] = s
               /\ ~Has(job[s].rep, "reply")'
               /\ job'[s].at = "deleted" => UsedUp(job[s].rep)'
    <3>1. PICK q \in Req : q \in OwnId /\ job[s].rep = q /\ job'[s].rep = q
      BY <1>2, <2>1, <2>2
    <3> QED BY <1>1, <1>2, <1>3, <1>6, <2>2, <3>1 DEF OneReply
  <2>3. \A q \in OwnId : q \in Req
    BY DEF OwnId
  <2>4. \A s \in Service : job'[s].at # "idle" => sent'[job'[s].rep] > 0
    BY <1>1, <1>2 DEF OneReply
  <2> QED BY <1>1, <1>2, <1>3, <1>6, <2>2, <2>3, <2>4 DEF OneReply
<1>8. /\ Status(r) \in {"accepted", "served"}
      /\ \A q \in Req : Status(q)' = Status(q)
  BY <1>2 DEF Status
<1>9. ~Has(r, "Timeout")
  BY <1>1, <1>2 DEF OneTimeout
<1>10. CASE r \in OwnId
  <2>1. Abstract!Answer(r, "Timeout")
    BY <1>1, <1>2, <1>9, <1>10, SendSeen
  <2>2. /\ [q \in OwnId |-> Status(q)][r] \in {"accepted", "served"}
        /\ [q \in OwnId |-> Status(q)]' = [q \in OwnId |-> Status(q)]
    BY <1>8, <1>10 DEF OwnId
  <2>3. Abstract!GiveUp(r)
    BY <2>1, <2>2 DEF Abstract!GiveUp
  <2> QED BY <1>4, <1>5, <1>7, <1>10, <2>3 DEF RInv
<1>11. CASE r \notin OwnId
  <2>1. UNCHANGED Abstract!vars
    BY <1>2, <1>8, <1>11, Unseen
  <2> QED BY <1>4, <1>5, <1>7, <2>1 DEF RInv
<1> QED BY <1>10, <1>11

\* The first reply of a service serves the request; later ones are not seen.
LEMMA ReplyLookupImplements ==
  ASSUME IInv, RInv, NEW s \in Service, NEW r \in Req, ReplyLookup(s, r)
  PROVE  RInv' /\ ((r \in OwnId /\ Abstract!Serve(r)) \/ UNCHANGED Abstract!vars)
<1> USE ConstAssumption
<1>1. TypeOK /\ Fresh /\ Accepted /\ OneTimeout /\ OneReply
  BY DEF IInv, RInv
<1>2. /\ r \in inbox /\ Target[r] = s /\ pc[r] = "done" /\ timer[r] # "off"
      /\ \A q \in Req : sent'[q] = IF q = r THEN sent[q] + 1 ELSE sent[q]
      /\ sent[r] \in Nat
      /\ UNCHANGED <<pc, reqIds, timer, inbox, got>>
  BY <1>1 DEF ReplyLookup, CanReply, Accepted, TypeOK
<1>3. Fresh' /\ Accepted'
  BY <1>1, <1>2 DEF Fresh, Accepted
<1>4. OneTimeout'
  BY <1>1, <1>2, SameAnswers DEF OneTimeout
<1>5. \A q \in OwnId : q \in Req /\ (UsedUp(q) => UsedUp(q)')
  BY <1>2 DEF UsedUp, OwnId
<1>6. \A u \in Service \ {s} : job'[u] = job[u]
  BY <1>1 DEF ReplyLookup, TypeOK
<1>7. job'[s].at # "idle" => job'[s].at = "found" /\ job'[s].rep = r /\ reqIds[IdOf[r]] # None
  <2>1. CASE reqIds[IdOf[r]] = None
    BY <2>1 DEF ReplyLookup, CanReply, NoJob
  <2>2. CASE reqIds[IdOf[r]] # None
    BY <1>1, <2>2 DEF ReplyLookup, TypeOK
  <2> QED BY <2>1, <2>2
<1>8. ASSUME NEW u \in Service, job'[u].at # "idle", job'[u].rep \in OwnId
      PROVE  /\ Target[job'[u].rep] = u
             /\ ~Has(job[u].rep, "reply")'
             /\ job'[u].at = "deleted" => UsedUp(job[u].rep)'
  <2>1. CASE u = s
    <3>1. ~Has(r, "reply")
      BY <1>1, <1>7, <1>8, <2>1 DEF OneReply, UsedUp
    <3>2. ~Has(r, "reply")'
      BY <1>2, <3>1, SameAnswers
    <3> QED BY <1>2, <1>7, <1>8, <2>1, <3>2
  <2>2. CASE u # s
    <3>1. PICK q \in Req : q \in OwnId /\ job[u].rep = q /\ job'[u].rep = q
      BY <1>1, <1>6, <1>8, <2>2 DEF TypeOK, Job
    <3>2. /\ Target[q] = u /\ ~Has(q, "reply")
          /\ job'[u].at = "deleted" => UsedUp(q)
      BY <1>1, <1>6, <1>8, <2>2, <3>1 DEF OneReply
    <3>3. ~Has(q, "reply")'
      BY <1>2, <3>2, SameAnswers
    <3> QED BY <1>5, <3>1, <3>2, <3>3
  <2> QED BY <2>1, <2>2
<1>9. \A q \in OwnId : Has(q, "reply")' => UsedUp(q)'
  BY <1>1, <1>2, <1>5, SameAnswers DEF OneReply
<1>10. OneReply'
  <2>1. ASSUME NEW u \in Service, job'[u].at # "idle" PROVE sent'[job'[u].rep] > 0
    <3>1. CASE u = s
      BY <1>2, <1>7, <2>1, <3>1
    <3>2. CASE u # s
      <4>1. job[u].at # "idle" /\ job[u].rep \in Req /\ job'[u] = job[u]
        BY <1>1, <1>6, <2>1, <3>2 DEF TypeOK, Job
      <4>2. PICK q \in Req : job[u].rep = q /\ job'[u].rep = q
        BY <4>1
      <4>3. sent[q] > 0 /\ sent[q] \in Nat
        BY <1>1, <4>1, <4>2 DEF OneReply, TypeOK
      <4> QED BY <1>2, <4>2, <4>3
    <3> QED BY <3>1, <3>2
  <2> QED BY <1>8, <1>9, <2>1 DEF OneReply
<1>11. /\ Status(r) = IF sent[r] > 0 THEN "served" ELSE "accepted"
       /\ Status(r)' = "served"
       /\ \A q \in Req \ {r} : Status(q)' = Status(q)
  BY <1>2 DEF Status
<1>12. CASE sent[r] > 0 \/ r \notin OwnId
  <2>1. \A q \in OwnId : Status(q)' = Status(q)
    BY <1>5, <1>11, <1>12
  <2> QED BY <1>2, <1>3, <1>4, <1>10, <2>1, Stutters DEF RInv
<1>13. CASE ~(sent[r] > 0) /\ r \in OwnId
  <2>1. [q \in OwnId |-> Status(q)][r] = "accepted"
    BY <1>11, <1>13
  <2>2. Abstract!Serve(r)
    BY <1>2, <1>11, <1>13, <2>1, StatusStep, SameSeen DEF Abstract!Serve
  <2> QED BY <1>3, <1>4, <1>10, <1>13, <2>2 DEF RInv
<1> QED BY <1>12, <1>13

\* The reply is relayed to the sender of the request it was made for, once: the
\* entry it used is that of the request, and nothing is left under its id.
LEMMA ReplySendImplements ==
  ASSUME IInv, RInv, NEW s \in Service, ReplySend(s)
  PROVE  RInv' /\ ((\E r \in OwnId : Abstract!RelayReply(r)) \/ UNCHANGED Abstract!vars)
<1> USE ConstAssumption
<1>1. TypeOK /\ Fresh /\ Accepted /\ OneTimeout /\ OneReply /\ JobsTracked
  BY DEF IInv, RInv
<1>2. PICK r \in Req, t \in Req : job[s].rep = r /\ job[s].track = t /\ IdOf[r] = IdOf[t]
  BY <1>1 DEF ReplySend, TypeOK, Job, JobsTracked
<1>3. /\ sent[r] > 0 /\ pc[r] = "done" /\ timer[r] # "off"
      /\ r \in OwnId => t = r /\ UsedUp(r) /\ ~Has(r, "reply")
  BY <1>1, <1>2 DEF ReplySend, OneReply, Accepted, OwnId
<1>4. /\ Send(r, Sender[t], "reply") /\ Sender[t] \in Client
      /\ \A q \in Req \ {r} : got'[q] = got[q]
      /\ \A q \in Req : timer'[q] = IF q = t /\ timer[t] = "armed" THEN "over" ELSE timer[q]
      /\ UNCHANGED <<pc, reqIds, inbox, sent>>
  BY <1>1, <1>2 DEF ReplySend, Stopped, Send, TypeOK
<1>5. job'[s].at = "idle" /\ \A u \in Service \ {s} : job'[u] = job[u]
  BY <1>1 DEF ReplySend, TypeOK, NoJob
<1>6. /\ \A q \in Req : Has(q, "Timeout")' <=> Has(q, "Timeout")
      /\ \A q \in Req : Has(q, "reply")' <=> Has(q, "reply") \/ q = r
  BY <1>1, <1>4, SendAdds
<1>7. Fresh' /\ Accepted'
  BY <1>1, <1>3, <1>4 DEF Fresh, Accepted
<1>8. OneTimeout'
  BY <1>1, <1>4, <1>6 DEF OneTimeout
<1>9. \A q \in OwnId : q \in Req /\ UsedUp(q)' = UsedUp(q)
  BY <1>4 DEF UsedUp, OwnId
<1>10. ASSUME NEW u \in Service, job'[u].at # "idle"
       PROVE  /\ sent'[job'[u].rep] > 0
              /\ job'[u].rep \in OwnId =>
                   /\ Target[job'[u].rep] = u
                   /\ ~Has(job[u].rep, "reply")'
                   /\ job'[u].at = "deleted" => UsedUp(job[u].rep)'
  <2>1. u # s /\ job'[u] = job[u]
    BY <1>5, <1>10
  <2>2. PICK q \in Req : job[u].rep = q /\ job'[u].rep = q
    BY <1>1, <1>10, <2>1 DEF TypeOK, Job
  <2>3. sent'[q] > 0
    BY <1>1, <1>4, <1>10, <2>1, <2>2 DEF OneReply
  <2>4. ASSUME q \in OwnId
        PROVE  Target[q] = u /\ ~Has(q, "reply")' /\ (job'[u].at = "deleted" => UsedUp(q)')
    <3>1. /\ Target[q] = u /\ ~Has(q, "reply")
          /\ job'[u].at = "deleted" => UsedUp(q)
      BY <1>1, <1>10, <2>1, <2>2, <2>4 DEF OneReply
    <3>2. q # r
      BY <1>1, <1>2, <2>1, <2>4, <3>1 DEF OneReply, ReplySend
    <3> QED BY <1>6, <1>9, <2>4, <3>1, <3>2
  <2> QED BY <2>2, <2>3, <2>4
<1>11. OneReply'
  <2>1. \A q \in OwnId : Has(q, "reply")' => UsedUp(q)'
    BY <1>1, <1>3, <1>6, <1>9 DEF OneReply
  <2> QED BY <1>10, <2>1 DEF OneReply
<1>12. \A q \in Req : Status(q)' = Status(q)
  <2>1. \A q \in Req : timer'[q] = "off" <=> timer[q] = "off"
    BY <1>4
  <2> QED BY <1>4, <2>1 DEF Status
<1>13. CASE r \in OwnId
  <2>1. Abstract!Answer(r, "reply")
    BY <1>1, <1>3, <1>4, <1>13, SendSeen
  <2>2. /\ [q \in OwnId |-> Status(q)][r] = "served"
        /\ [q \in OwnId |-> Status(q)]' = [q \in OwnId |-> Status(q)]
    BY <1>3, <1>9, <1>12, <1>13 DEF Status
  <2>3. Abstract!RelayReply(r)
    BY <2>1, <2>2 DEF Abstract!RelayReply
  <2> QED BY <1>7, <1>8, <1>11, <1>13, <2>3 DEF RInv
<1>14. CASE r \notin OwnId
  <2>1. UNCHANGED Abstract!vars
    BY <1>4, <1>12, <1>14, Unseen
  <2> QED BY <1>7, <1>8, <1>11, <2>1 DEF RInv
<1> QED BY <1>13, <1>14

\* Every step of the broker is a step of Rpc, or one that Rpc does not see.
LEMMA NextImplements ==
  ASSUME IInv, RInv, [Next]_vars
  PROVE  RInv' /\ [Abstract!Next]_(Abstract!vars)
<1>1. CASE UNCHANGED vars
  <2>1. UNCHANGED <<pc, reqIds, timer, inbox, sent, job, got>>
    BY <1>1 DEF vars
  <2>2. \A s \in Service : job[s].at # "idle" => job[s].rep \in Req
    BY DEF IInv, TypeOK, Job
  <2>3. \A r \in OwnId : UsedUp(r)' = UsedUp(r)
    BY <2>1 DEF UsedUp
  <2>4. RInv' /\ UNCHANGED Abstract!vars
    BY <2>1, <2>2, <2>3, QuietStep DEF IInv
  <2> QED BY <2>4
<1>2. ASSUME NEW r \in Req, Handle(r) PROVE RInv' /\ [Abstract!Next]_(Abstract!vars)
  <2>1. CASE NoSuchService(r) \/ InvalidIdentification(r)
    BY <2>1, RefuseImplements DEF NoSuchService, InvalidIdentification, Abstract!Next
  <2>2. CASE ArmTimer(r)
    BY <2>2, ArmTimerImplements DEF Abstract!Next
  <2>3. CASE Track(r) \/ Forward(r)
    BY <2>3, QuietHandle
  <2> QED BY <1>2, <2>1, <2>2, <2>3 DEF Handle
<1>3. ASSUME NEW r \in Req, Timer(r) PROVE RInv' /\ [Abstract!Next]_(Abstract!vars)
  <2>1. CASE Expire(r) \/ TimeoutDelete(r)
    BY <2>1, QuietHandle
  <2>2. CASE TimeoutSend(r)
    BY <2>2, TimeoutSendImplements DEF Abstract!Next
  <2> QED BY <1>3, <2>1, <2>2 DEF Timer
<1>4. ASSUME NEW s \in Service, NEW r \in Req, ReplyLookup(s, r)
      PROVE  RInv' /\ [Abstract!Next]_(Abstract!vars)
  BY <1>4, ReplyLookupImplements DEF Abstract!Next
<1>5. ASSUME NEW s \in Service, Relay(s) PROVE RInv' /\ [Abstract!Next]_(Abstract!vars)
  <2>1. CASE ReplyDelete(s)
    BY <2>1, QuietDelete
  <2>2. CASE ReplySend(s)
    BY <2>2, ReplySendImplements DEF Abstract!Next
  <2> QED BY <1>5, <2>1, <2>2 DEF Relay
<1>6. ASSUME NEW s \in Service, Appear(s) \/ Vanish(s)
      PROVE  RInv' /\ [Abstract!Next]_(Abstract!vars)
  BY <1>6, QuietHandle
<1>7. ASSUME NEW s \in Service, NEW r \in Req, NameClient(s, r)
      PROVE  RInv' /\ [Abstract!Next]_(Abstract!vars)
  BY <1>7, QuietHandle
<1> QED BY <1>1, <1>2, <1>3, <1>4, <1>5, <1>6, <1>7 DEF Next

\* For requests with an id of their own, the broker implements Rpc but for its
\* fairness, whatever is done under other ids: a refused request gets the refusal
\* alone, another one at most one reply, made by its service, and at most one
\* timeout, all of them sent to its sender.
THEOREM Implementation == Spec => Abstract!Init /\ [][Abstract!Next]_(Abstract!vars)
<1>1. Init => RInv /\ Abstract!Init
  BY InitRInv
<1>2. IInv /\ RInv /\ [Next]_vars => RInv' /\ [Abstract!Next]_(Abstract!vars)
  BY NextImplements
<1> QED BY <1>1, <1>2, Invariance, PTL DEF Spec

=============================================================================
