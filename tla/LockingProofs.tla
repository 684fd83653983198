---------------------------- MODULE LockingProofs ----------------------------
(***************************************************************************)
(* For any number of connections and monitors: the goroutines of the       *)
(* broker do not wait for each other's mutexes in a circle.                *)
(*                                                                         *)
(* The mutexes are taken in one order: that of a client, that of the       *)
(* services, then at most one of those of the subscriptions and of the     *)
(* request ids; no two clients' are held at once, and a handler ends with  *)
(* nothing held.  The order is not written down anywhere in the code: it   *)
(* is read off every handler here, by composing what its steps do to the   *)
(* mutexes it holds.                                                       *)
(***************************************************************************)
EXTENDS Locking, SequenceTheorems, WellFoundedInduction, TLAPS

-----------------------------------------------------------------------------
(***************************************************************************)
(* What a sequence of steps does to the mutexes that are held.             *)
(***************************************************************************)
StepType ==
  [do : {"lock", "drain", "unlock", "rlock", "runlock", "send"}, on : SUBSET Mutex]

\* Those held for writing and those held for reading.
Holding == [w : SUBSET Mutex, r : SUBSET Mutex]

Free == [w |-> {}, r |-> {}]

\* The place of a mutex, given as a singleton, in the order.
Rank(on) == IF on \subseteq Client THEN 1 ELSE IF on = {"services"} THEN 2 ELSE 3

Below(S, on) == \A x \in S : Rank({x}) < Rank(on)

\* A step taken with H held leaves K held, and it respects the order.
Leaves(x, H, K) ==
  \/ x.do = "send" /\ x.on \subseteq Client /\ K = H
  \/ \E m \in Mutex :
       /\ x.on = {m}
       /\ \/ /\ x.do = "lock" /\ Below(H.w, {m}) /\ Below(H.r, {m})
             /\ K = [w |-> H.w \cup {m}, r |-> H.r]
          \/ /\ x.do = "drain" /\ m \in H.w /\ Below(H.w \ {m}, {m}) /\ Below(H.r, {m})
             /\ K = H
          \/ /\ x.do = "unlock" /\ m \in H.w
             /\ K = [w |-> H.w \ {m}, r |-> H.r]
          \/ /\ x.do = "rlock" /\ Below(H.w, {m}) /\ Below(H.r, {m})
             /\ K = [w |-> H.w, r |-> H.r \cup {m}]
          \/ /\ x.do = "runlock" /\ m \in H.r
             /\ K = [w |-> H.w, r |-> H.r \ {m}]

\* h is what is held before the first step and after each of them.
Along(h, s, H, K) ==
  /\ h \in [0..Len(s) -> Holding]
  /\ h[0] = H /\ h[Len(s)] = K
  /\ \A i \in 1..Len(s) : Leaves(s[i], h[i - 1], h[i])

\* The steps of s, taken with H held, leave K held.
Disciplined(s, H, K) == s \in Seq(StepType) /\ \E h : Along(h, s, H, K)

\* NoSteps: no steps leave what was held.
LEMMA NoSteps ==
  /\ \A H \in Holding : Disciplined(<<>>, H, H)
  /\ \A H, K : Disciplined(<<>>, H, K) => H = K
<1>1. ASSUME NEW H \in Holding PROVE Disciplined(<<>>, H, H)
  <2>1. Along([i \in 0..0 |-> H], <<>>, H, H)
    BY DEF Along
  <2> QED
    BY <2>1 DEF Disciplined
<1> QED
  BY <1>1 DEF Disciplined, Along

\* OneStep: one step does what it does.
LEMMA OneStep ==
  ASSUME NEW x \in StepType, NEW H \in Holding, NEW K \in Holding, Leaves(x, H, K)
  PROVE  Disciplined(<<x>>, H, K)
<1> DEFINE h == [i \in 0..1 |-> IF i = 0 THEN H ELSE K]
<1>1. h \in [0..1 -> Holding] /\ h[0] = H /\ h[1] = K
  OBVIOUS
<1>2. Len(<<x>>) = 1 /\ <<x>>[1] = x /\ <<x>> \in Seq(StepType)
  OBVIOUS
<1> HIDE DEF h
<1>3. \A i \in 1..1 : i = 1 /\ i - 1 = 0
  OBVIOUS
<1>4. Along(h, <<x>>, H, K)
  BY <1>1, <1>2, <1>3 DEF Along
<1> QED
  BY <1>2, <1>4 DEF Disciplined

\* Join: what two sequences of steps do one after the other.
LEMMA Join ==
  ASSUME NEW s, NEW t, NEW H, NEW K, NEW L, Disciplined(s, H, K), Disciplined(t, K, L)
  PROVE  Disciplined(s \o t, H, L)
<1>1. PICK f : Along(f, s, H, K)
  BY DEF Disciplined
<1>2. PICK g : Along(g, t, K, L)
  BY DEF Disciplined
<1>3. PICK m, n, u : m = Len(s) /\ n = Len(t) /\ u = s \o t
  OBVIOUS
<1>4. /\ m \in Nat /\ n \in Nat
      /\ u \in Seq(StepType) /\ Len(u) = m + n
      /\ \A i \in 1..m : u[i] = s[i]
      /\ \A i \in (m + 1)..(m + n) : u[i] = t[i - m]
  BY <1>3, ConcatProperties DEF Disciplined
<1>5. PICK h : h = [i \in 0..(m + n) |-> IF i <= m THEN f[i] ELSE g[i - m]]
  OBVIOUS
<1>6. /\ f \in [0..m -> Holding] /\ f[0] = H /\ f[m] = K
      /\ \A i \in 1..m : Leaves(s[i], f[i - 1], f[i])
  BY <1>1, <1>3 DEF Along
<1>7. /\ g \in [0..n -> Holding] /\ g[0] = K /\ g[n] = L
      /\ \A i \in 1..n : Leaves(t[i], g[i - 1], g[i])
  BY <1>2, <1>3 DEF Along
<1>8. \A i \in 0..m : h[i] = f[i]
  BY <1>4, <1>5
<1>9. \A i \in m..(m + n) : h[i] = g[i - m]
  <2>1. ASSUME NEW i \in m..(m + n), i > m PROVE h[i] = g[i - m]
    BY <1>4, <1>5, <2>1
  <2>2. h[m] = g[m - m]
    BY <1>4, <1>6, <1>7, <1>8
  <2> QED
    BY <1>4, <2>1, <2>2
<1>10. h \in [0..(m + n) -> Holding]
  BY <1>4, <1>5, <1>6, <1>7
<1>11. h[0] = H /\ h[m + n] = L
  BY <1>4, <1>6, <1>7, <1>8, <1>9
<1>12. ASSUME NEW i \in 1..(m + n) PROVE Leaves(u[i], h[i - 1], h[i])
  <2>1. CASE i \in 1..m
    <3>1. i - 1 \in 0..m /\ i \in 0..m
      BY <1>4, <2>1
    <3> QED
      BY <1>4, <1>6, <1>8, <2>1, <3>1
  <2>2. CASE i \in (m + 1)..(m + n)
    <3>1. /\ i - 1 \in m..(m + n) /\ i \in m..(m + n)
          /\ i - m \in 1..n /\ (i - 1) - m = (i - m) - 1
      BY <1>4, <2>2
    <3>2. h[i - 1] = g[(i - m) - 1] /\ h[i] = g[i - m] /\ u[i] = t[i - m]
      BY <1>4, <1>9, <2>2, <3>1
    <3> QED
      BY <1>7, <3>1, <3>2
  <2> QED
    BY <1>4, <2>1, <2>2
<1>13. Along(h, u, H, L)
  BY <1>4, <1>10, <1>11, <1>12 DEF Along
<1> QED
  BY <1>3, <1>4, <1>13 DEF Disciplined

\* Advance: the first step leaves what the rest begins with.
LEMMA Advance ==
  ASSUME NEW s, NEW H, NEW K, Disciplined(s, H, K), s # <<>>
  PROVE  \E L \in Holding : Leaves(Head(s), H, L) /\ Disciplined(Tail(s), L, K)
<1>1. PICK f : Along(f, s, H, K)
  BY DEF Disciplined
<1>2. PICK n, t : n = Len(s) /\ t = Tail(s)
  OBVIOUS
<1>3. /\ n \in Nat /\ s \in Seq(StepType) /\ n > 0 /\ t \in Seq(StepType) /\ Len(t) = n - 1
      /\ Head(s) = s[1] /\ \A i \in 1..(n - 1) : t[i] = s[i + 1]
  BY <1>2 DEF Disciplined
<1>4. /\ f \in [0..n -> Holding] /\ f[0] = H /\ f[n] = K
      /\ \A i \in 1..n : Leaves(s[i], f[i - 1], f[i])
  BY <1>1, <1>2 DEF Along
<1>5. PICK h : h = [i \in 0..(n - 1) |-> f[i + 1]]
  OBVIOUS
<1>6. /\ h \in [0..(n - 1) -> Holding] /\ h[0] = f[1] /\ h[n - 1] = K /\ f[1] \in Holding
      /\ \A i \in 0..(n - 1) : h[i] = f[i + 1]
  BY <1>3, <1>4, <1>5
<1>7. ASSUME NEW i \in 1..(n - 1) PROVE Leaves(t[i], h[i - 1], h[i])
  <2>1. /\ i + 1 \in 1..n /\ (i + 1) - 1 = i /\ (i - 1) + 1 = i
        /\ i - 1 \in 0..(n - 1) /\ i \in 0..(n - 1)
    BY <1>3
  <2>2. h[i - 1] = f[(i + 1) - 1] /\ h[i] = f[i + 1] /\ t[i] = s[i + 1]
    BY <1>3, <1>6, <2>1
  <2> QED
    BY <1>4, <2>1, <2>2
<1>8. Along(h, t, f[1], K)
  BY <1>3, <1>6, <1>7 DEF Along
<1>9. Leaves(s[1], H, f[1])
  <2>1. 1 \in 1..n /\ 1 - 1 = 0
    BY <1>3
  <2> QED
    BY <1>4, <2>1
<1> QED
  BY <1>2, <1>3, <1>6, <1>8, <1>9 DEF Disciplined

\* Change: another first step that leaves the same.
LEMMA Change ==
  ASSUME NEW s, NEW t, NEW H, NEW G \in Holding, NEW K, Disciplined(s, H, K), s # <<>>,
         NEW x \in StepType, t = [s EXCEPT ![1] = x],
         NEW L \in Holding, Leaves(x, G, L), Disciplined(Tail(s), L, K)
  PROVE  Disciplined(t, G, K)
<1>1. s \in Seq(StepType)
  BY DEF Disciplined
<1>2. t = <<x>> \o Tail(s)
  <2>1. t \in Seq(StepType) /\ Len(t) = Len(s) /\ t[1] = x
        /\ \A i \in 2..Len(s) : t[i] = s[i]
    BY <1>1, ExceptSeq
  <2>2. /\ <<x>> \o Tail(s) \in Seq(StepType) /\ Len(<<x>> \o Tail(s)) = Len(s)
        /\ \A i \in 1..Len(s) : (<<x>> \o Tail(s))[i] = IF i = 1 THEN x ELSE s[i]
    BY <1>1
  <2> QED
    BY <2>1, <2>2, SeqEqual
<1>3. Disciplined(<<x>>, G, L)
  BY OneStep
<1>4. Disciplined(<<x>> \o Tail(s), G, K)
  BY <1>3, Join, Zenon
<1> QED
  BY <1>2, <1>4, Zenon

-----------------------------------------------------------------------------
(***************************************************************************)
(* Every handler takes the mutexes in order, and ends with none.           *)
(***************************************************************************)

\* Writing(S): the mutexes of S are held for writing, and no others.
Writing(S) == [w |-> S, r |-> {}]

\* Ranks: the order of the mutexes.
LEMMA Ranks ==
  /\ \A c \in Client : Rank({c}) = 1
  /\ Rank({"services"}) = 2
  /\ \A m \in {"subscriberMap", "subscriberMatchMap", "reqIds"} : Rank({m}) = 3
  /\ {"services", "subscriberMap", "subscriberMatchMap", "reqIds"} \subseteq Mutex
  /\ Client \subseteq Mutex
  /\ \A c \in Client : c \notin {"services", "subscriberMap", "subscriberMatchMap", "reqIds"}
  BY ConstAssumption DEF Rank, Mutex

\* LockStep: a mutex that is after those that are held may be locked.
LEMMA LockStep ==
  ASSUME NEW m \in Mutex, NEW S \in SUBSET Mutex, Below(S, {m}), NEW T, T = S \cup {m}
  PROVE  Disciplined(Lock(m), Writing(S), Writing(T))
<1> DEFINE x == [do |-> "lock", on |-> {m}]
<1>1. x \in StepType
  BY DEF StepType
<1>2. Writing(S) \in Holding /\ Writing(T) \in Holding
  BY DEF Writing, Holding
<1>3. Leaves(x, Writing(S), Writing(T))
  BY DEF Leaves, Writing, Below
<1>4. Disciplined(<<x>>, Writing(S), Writing(T))
  BY <1>1, <1>2, <1>3, OneStep
<1> QED
  BY <1>4 DEF Lock, Step

\* UnlockStep: a mutex that is held may be unlocked.
LEMMA UnlockStep ==
  ASSUME NEW m \in Mutex, NEW S \in SUBSET Mutex, m \notin S, NEW T, T = S \cup {m}
  PROVE  Disciplined(Unlock(m), Writing(T), Writing(S))
<1> DEFINE x == [do |-> "unlock", on |-> {m}]
<1>1. x \in StepType
  BY DEF StepType
<1>2. Writing(S) \in Holding /\ Writing(T) \in Holding
  BY DEF Writing, Holding
<1>3. Leaves(x, Writing(T), Writing(S))
  <2>1. S = T \ {m} /\ m \in T
    OBVIOUS
  <2> QED
    BY <2>1 DEF Leaves, Writing
<1>4. Disciplined(<<x>>, Writing(T), Writing(S))
  BY <1>1, <1>2, <1>3, OneStep
<1> QED
  BY <1>4 DEF Unlock, Step

\* LockPass: a mutex is locked and unlocked again.
LEMMA LockPass ==
  ASSUME NEW m \in Mutex, NEW S \in SUBSET Mutex, Below(S, {m})
  PROVE  Disciplined(Lock(m) \o Unlock(m), Writing(S), Writing(S))
<1>1. m \notin S
  BY DEF Below, Rank
<1>2. Disciplined(Lock(m), Writing(S), Writing(S \cup {m}))
  BY LockStep
<1>3. Disciplined(Unlock(m), Writing(S \cup {m}), Writing(S))
  BY <1>1, UnlockStep
<1> QED
  BY <1>2, <1>3, Join, Zenon

\* ReadSteps: a mutex that is after those that are held may be locked for
\* reading, and unlocked then.
LEMMA ReadSteps ==
  ASSUME NEW m \in Mutex, NEW S \in SUBSET Mutex, Below(S, {m}),
         NEW R, R = [w |-> S, r |-> {m}]
  PROVE  Disciplined(RLock(m), Writing(S), R) /\ Disciplined(RUnlock(m), R, Writing(S))
<1> DEFINE x == [do |-> "rlock", on |-> {m}]
           y == [do |-> "runlock", on |-> {m}]
<1>1. x \in StepType /\ y \in StepType
  BY DEF StepType
<1>2. Writing(S) \in Holding /\ R \in Holding
  BY DEF Writing, Holding
<1>3. Leaves(x, Writing(S), R)
  BY DEF Leaves, Writing, Below
<1>4. Leaves(y, R, Writing(S))
  BY DEF Leaves, Writing
<1>5. Disciplined(<<x>>, Writing(S), R) /\ Disciplined(<<y>>, R, Writing(S))
  BY <1>1, <1>2, <1>3, <1>4, OneStep
<1> QED
  BY <1>5 DEF RLock, RUnlock, Step

\* ReadPass: a mutex is locked for reading and unlocked again.
LEMMA ReadPass ==
  ASSUME NEW m \in Mutex, NEW S \in SUBSET Mutex, Below(S, {m})
  PROVE  Disciplined(RLock(m) \o RUnlock(m), Writing(S), Writing(S))
<1>1. PICK R : R = [w |-> S, r |-> {m}]
  OBVIOUS
<1>2. Disciplined(RLock(m), Writing(S), R) /\ Disciplined(RUnlock(m), R, Writing(S))
  BY <1>1, ReadSteps
<1> QED
  BY <1>2, Join, Zenon

\* SendStep: a message is sent, whatever is held.
LEMMA SendStep ==
  ASSUME NEW to \in SUBSET Client, NEW S \in SUBSET Mutex
  PROVE  Disciplined(Send(to), Writing(S), Writing(S))
<1> DEFINE x == [do |-> "send", on |-> to]
<1>1. x \in StepType
  BY Ranks DEF StepType
<1>2. Writing(S) \in Holding
  BY DEF Writing, Holding
<1>3. Leaves(x, Writing(S), Writing(S))
  BY DEF Leaves
<1>4. Disciplined(<<x>>, Writing(S), Writing(S))
  BY <1>1, <1>2, <1>3, OneStep
<1> QED
  BY <1>4 DEF Send, Step

\* Skip: nothing is done, whatever is held.
LEMMA Skip ==
  ASSUME NEW S \in SUBSET Mutex
  PROVE  Disciplined(<<>>, Writing(S), Writing(S))
<1>1. Writing(S) \in Holding
  BY DEF Writing, Holding
<1> QED
  BY <1>1, NoSteps

\* Early(S): none of the mutexes of S is one of the last in the order.
Early(S) == S \in SUBSET Mutex /\ \A x \in S : Rank({x}) < 3

\* EarlyBelow: then each of the last ones may be locked.
LEMMA EarlyBelow ==
  ASSUME NEW S, Early(S), NEW m \in {"subscriberMap", "subscriberMatchMap", "reqIds"}
  PROVE  Below(S, {m}) /\ m \in Mutex /\ S \in SUBSET Mutex
  BY Ranks DEF Early, Below

\* PublishStep: doPublish may be called with the mutex of a client and that of
\* the services held.
LEMMA PublishStep ==
  ASSUME NEW to \in SUBSET Client, NEW S, Early(S)
  PROVE  Disciplined(doPublish(to), Writing(S), Writing(S))
<1>1. Below(S, {"subscriberMap"}) /\ "subscriberMap" \in Mutex /\ S \in SUBSET Mutex
  BY EarlyBelow
<1>2. Disciplined(RLock("subscriberMap") \o RUnlock("subscriberMap"), Writing(S), Writing(S))
  BY <1>1, ReadPass
<1>3. Disciplined(Send(to), Writing(S), Writing(S))
  BY <1>1, SendStep
<1>4. Disciplined((RLock("subscriberMap") \o RUnlock("subscriberMap")) \o Send(to),
                  Writing(S), Writing(S))
  BY <1>2, <1>3, Join, Zenon
<1> QED
  BY <1>4 DEF doPublish

\* RegisterSteps: HandleRegister, run by the goroutine of a client or by that of
\* the built-in service.
LEMMA RegisterSteps ==
  ASSUME NEW c \in Client, NEW replaces \in BOOLEAN
  PROVE  Disciplined(HandleRegister(c, replaces), Writing({}), Writing({}))
<1> DEFINE p == IF replaces THEN cellaservPublish ELSE <<>>
<1>1. c \in Mutex /\ "services" \in Mutex /\ c # "services"
  BY Ranks
<1>2. Below({}, {c}) /\ Below({c}, {"services"}) /\ Early({c, "services"})
  BY Ranks, <1>1 DEF Below, Early
<1>3. Disciplined(Lock(c), Writing({}), Writing({c}))
  BY <1>1, <1>2, LockStep
<1>4. Disciplined(Lock("services"), Writing({c}), Writing({c, "services"}))
  <2>1. {c, "services"} = {c} \cup {"services"} /\ {c} \in SUBSET Mutex
    BY <1>1
  <2> QED
    BY <1>1, <1>2, <2>1, LockStep
<1>5. Disciplined(cellaservPublish, Writing({c, "services"}), Writing({c, "services"}))
  BY <1>2, PublishStep, ConstAssumption DEF cellaservPublish
<1>6. Disciplined(p, Writing({c, "services"}), Writing({c, "services"}))
  BY <1>1, <1>5, Skip
<1>7. Disciplined(Unlock("services"), Writing({c, "services"}), Writing({c}))
  <2>1. {c, "services"} = {c} \cup {"services"} /\ {c} \in SUBSET Mutex /\ "services" \notin {c}
    BY <1>1
  <2> QED
    BY <1>1, <2>1, UnlockStep
<1>8. Disciplined(Unlock(c), Writing({c}), Writing({}))
  BY <1>1, UnlockStep
<1> HIDE DEF p
<1>9. Disciplined(Lock(c) \o Lock("services"), Writing({}), Writing({c, "services"}))
  BY <1>3, <1>4, Join, Zenon
<1>10. Disciplined(Lock(c) \o Lock("services") \o p, Writing({}), Writing({c, "services"}))
  BY <1>6, <1>9, Join, Zenon
<1>11. Disciplined(Lock(c) \o Lock("services") \o p \o cellaservPublish,
                   Writing({}), Writing({c, "services"}))
  BY <1>5, <1>10, Join, Zenon
<1>12. Disciplined(Lock(c) \o Lock("services") \o p \o cellaservPublish \o Unlock("services"),
                   Writing({}), Writing({c}))
  BY <1>7, <1>11, Join, Zenon
<1>13. Disciplined(Lock(c) \o Lock("services") \o p \o cellaservPublish \o Unlock("services")
                     \o Unlock(c),
                   Writing({}), Writing({}))
  BY <1>8, <1>12, Join, Zenon
<1> QED
  BY <1>13 DEF HandleRegister, p

\* MapPass: a mutex of the subscriptions is locked and unlocked with others held.
LEMMA MapPass ==
  ASSUME NEW S, Early(S), NEW m \in {"subscriberMap", "subscriberMatchMap", "reqIds"}
  PROVE  Disciplined(Lock(m) \o Unlock(m), Writing(S), Writing(S))
  BY EarlyBelow, LockPass

\* SubscribeSteps: handleSubscribe, of a new subscription or of one again.
LEMMA SubscribeSteps ==
  ASSUME NEW c \in Client, NEW map \in {"subscriberMap", "subscriberMatchMap"},
         NEW present \in BOOLEAN
  PROVE  Disciplined(handleSubscribe(c, map, present), Writing({}), Writing({}))
<1> DEFINE p == IF present THEN <<>> ELSE Lock(map) \o Unlock(map) \o cellaservPublish
<1>1. c \in Mutex /\ Early({c}) /\ Below({}, {c}) /\ {c} \in SUBSET Mutex
  BY Ranks DEF Below, Early
<1>2. Disciplined(Lock(c), Writing({}), Writing({c}))
  BY <1>1, LockStep
<1>3. Disciplined(Unlock(c), Writing({c}), Writing({}))
  BY <1>1, UnlockStep
<1>4. Disciplined(Lock(map) \o Unlock(map), Writing({c}), Writing({c}))
  BY <1>1, MapPass
<1>5. Disciplined(cellaservPublish, Writing({c}), Writing({c}))
  BY <1>1, PublishStep, ConstAssumption DEF cellaservPublish
<1>6. Disciplined(Lock(map) \o Unlock(map) \o cellaservPublish, Writing({c}), Writing({c}))
  BY <1>4, <1>5, Join, Zenon
<1>7. Disciplined(<<>>, Writing({c}), Writing({c}))
  BY <1>1, Skip
<1>8. Disciplined(p, Writing({c}), Writing({c}))
  BY <1>6, <1>7, Zenon
<1> HIDE DEF p
<1>9. Disciplined(Lock(c) \o p, Writing({}), Writing({c}))
  BY <1>2, <1>8, Join, Zenon
<1>10. Disciplined(Lock(c) \o p \o Unlock(c), Writing({}), Writing({}))
  BY <1>3, <1>9, Join, Zenon
<1> QED
  BY <1>10 DEF handleSubscribe, p

\* RemoveSteps: removeClient.  The mutex of the services is unlocked before the
\* mutexes of the subscriptions are locked.
LEMMA RemoveSteps ==
  ASSUME NEW c \in Client, NEW present \in BOOLEAN
  PROVE  Disciplined(removeClient(c, present), Writing({}), Writing({}))
<1> DEFINE p == IF present THEN cellaservPublish \o Lock("services") \o Unlock("services")
                ELSE <<>>
           q == IF present THEN cellaservPublish ELSE <<>>
           m == Lock("subscriberMap") \o Unlock("subscriberMap")
           mm == Lock("subscriberMatchMap") \o Unlock("subscriberMatchMap")
           H == Writing({c})
<1>1. /\ c \in Mutex /\ "services" \in Mutex /\ Early({c}) /\ Early({})
      /\ Below({}, {c}) /\ Below({c}, {"services"}) /\ {c} \in SUBSET Mutex
  BY Ranks DEF Below, Early
<1>2. Disciplined(Lock(c), Writing({}), H)
  BY <1>1, LockStep
<1>3. Disciplined(Unlock(c), H, Writing({}))
  BY <1>1, UnlockStep
<1>4. Disciplined(cellaservPublish, H, H)
      /\ Disciplined(cellaservPublish, Writing({}), Writing({}))
  BY <1>1, PublishStep, ConstAssumption DEF cellaservPublish
<1>5. Disciplined(<<>>, H, H)
  BY <1>1, Skip
<1>6. Disciplined(Lock("services"), H, Writing({c} \cup {"services"}))
  BY <1>1, LockStep
<1>7. Disciplined(Unlock("services"), Writing({c} \cup {"services"}), H)
  <2>1. "services" \notin {c}
    BY Ranks
  <2> QED
    BY <1>1, <2>1, UnlockStep
<1>8. Disciplined(Lock("subscriberMap"), H, Writing({c} \cup {"subscriberMap"}))
  BY <1>1, EarlyBelow, LockStep
<1>9. Disciplined(Unlock("subscriberMap"), Writing({c} \cup {"subscriberMap"}), H)
  <2>1. "subscriberMap" \notin {c} /\ "subscriberMap" \in Mutex
    BY Ranks
  <2> QED
    BY <1>1, <2>1, UnlockStep
<1>10. Disciplined(Lock("subscriberMatchMap"), H, Writing({c} \cup {"subscriberMatchMap"}))
  BY <1>1, EarlyBelow, LockStep
<1>11. Disciplined(Unlock("subscriberMatchMap"), Writing({c} \cup {"subscriberMatchMap"}), H)
  <2>1. "subscriberMatchMap" \notin {c} /\ "subscriberMatchMap" \in Mutex
    BY Ranks
  <2> QED
    BY <1>1, <2>1, UnlockStep
<1> HIDE DEF H
<1>12. Disciplined(cellaservPublish \o Lock("services"), H, Writing({c} \cup {"services"}))
  BY <1>4, <1>6, Join, Zenon
<1>13. Disciplined(cellaservPublish \o Lock("services") \o Unlock("services"), H, H)
  BY <1>7, <1>12, Join, Zenon
<1>14. Disciplined(p, H, H) /\ Disciplined(q, H, H)
  BY <1>4, <1>5, <1>13, Zenon
<1> HIDE DEF p, q
<1>15. Disciplined(Lock(c) \o p, Writing({}), H)
  BY <1>2, <1>14, Join, Zenon
<1>16. Disciplined(Lock(c) \o p \o Lock("subscriberMap"),
                   Writing({}), Writing({c} \cup {"subscriberMap"}))
  BY <1>8, <1>15, Join, Zenon
<1>17. Disciplined(Lock(c) \o p \o Lock("subscriberMap") \o Unlock("subscriberMap"),
                   Writing({}), H)
  BY <1>9, <1>16, Join, Zenon
<1>18. Disciplined(Lock(c) \o p \o Lock("subscriberMap") \o Unlock("subscriberMap")
                     \o Lock("subscriberMatchMap"),
                   Writing({}), Writing({c} \cup {"subscriberMatchMap"}))
  BY <1>10, <1>17, Join, Zenon
<1>19. Disciplined(Lock(c) \o p \o Lock("subscriberMap") \o Unlock("subscriberMap")
                     \o Lock("subscriberMatchMap") \o Unlock("subscriberMatchMap"),
                   Writing({}), H)
  BY <1>11, <1>18, Join, Zenon
<1>20. Disciplined(Lock(c) \o p \o Lock("subscriberMap") \o Unlock("subscriberMap")
                     \o Lock("subscriberMatchMap") \o Unlock("subscriberMatchMap") \o q,
                   Writing({}), H)
  BY <1>14, <1>19, Join, Zenon
<1>21. Disciplined(Lock(c) \o p \o Lock("subscriberMap") \o Unlock("subscriberMap")
                     \o Lock("subscriberMatchMap") \o Unlock("subscriberMatchMap") \o q
                     \o Unlock(c),
                   Writing({}), Writing({}))
  BY <1>3, <1>20, Join, Zenon
<1>22. Disciplined(Lock(c) \o p \o Lock("subscriberMap") \o Unlock("subscriberMap")
                     \o Lock("subscriberMatchMap") \o Unlock("subscriberMatchMap") \o q
                     \o Unlock(c) \o cellaservPublish,
                   Writing({}), Writing({}))
  BY <1>4, <1>21, Join, Zenon
<1> QED
  BY <1>22, Zenon DEF removeClient, p, q

\* TrafficSteps: the handlers of requests and replies, and list_events.
LEMMA TrafficSteps ==
  ASSUME NEW c \in Client, NEW to \in SUBSET Client
  PROVE  /\ Disciplined(handleRequest(c, to), Writing({}), Writing({}))
         /\ Disciplined(handleReply(to), Writing({}), Writing({}))
         /\ Disciplined(GetEventsJSON, Writing({}), Writing({}))
<1> DEFINE E == Writing({})
<1>1. Early({}) /\ {} \in SUBSET Mutex
  BY DEF Early
<1>2. \A m \in {"subscriberMap", "subscriberMatchMap", "reqIds"} :
        m \in Mutex /\ Below({}, {m})
  BY Ranks DEF Below
<1>3. Disciplined(Send(to), E, E) /\ Disciplined(<<>>, E, E)
  BY <1>1, SendStep, Skip
<1>4. /\ Disciplined(RLock("reqIds") \o RUnlock("reqIds"), E, E)
      /\ Disciplined(RLock("subscriberMap") \o RUnlock("subscriberMap"), E, E)
  BY <1>1, <1>2, ReadPass
<1>5. Disciplined(Lock("reqIds") \o Unlock("reqIds"), E, E)
  BY <1>1, MapPass
<1>6. Disciplined(Lock("reqIds") \o Unlock("reqIds") \o Send(to), E, E)
  BY <1>3, <1>5, Join, Zenon
<1>7. Disciplined(handleRequest(c, to), E, E)
  BY <1>3, <1>6, Zenon DEF handleRequest
<1>8. Disciplined(handleReply(to), E, E)
  <2> DEFINE p == IF to = {} THEN <<>> ELSE Lock("reqIds") \o Unlock("reqIds") \o Send(to)
  <2>1. Disciplined(p, E, E)
    BY <1>3, <1>6, Zenon
  <2> HIDE DEF p
  <2>2. Disciplined(RLock("reqIds") \o RUnlock("reqIds") \o p, E, E)
    BY <1>4, <2>1, Join, Zenon
  <2> QED
    BY <2>2, Zenon DEF handleReply, p
<1>9. Disciplined(GetEventsJSON, E, E)
  <2>1. PICK R : R = [w |-> {}, r |-> {"subscriberMatchMap"}]
    OBVIOUS
  <2>2. /\ Disciplined(RLock("subscriberMatchMap"), E, R)
        /\ Disciplined(RUnlock("subscriberMatchMap"), R, E)
    BY <1>1, <1>2, <2>1, ReadSteps
  <2>3. Disciplined(RLock("subscriberMap") \o RUnlock("subscriberMap")
                      \o RLock("subscriberMatchMap"), E, R)
    BY <1>4, <2>2, Join, Zenon
  <2>4. Disciplined(RLock("subscriberMap") \o RUnlock("subscriberMap")
                      \o RLock("subscriberMatchMap") \o RUnlock("subscriberMatchMap"), E, E)
    BY <2>2, <2>3, Join, Zenon
  <2> QED
    BY <2>4 DEF GetEventsJSON
<1> QED
  BY <1>7, <1>8, <1>9

-----------------------------------------------------------------------------
(***************************************************************************)
(* The invariant: the steps a goroutine has left, taken with the mutexes   *)
(* it holds, respect the order and leave none.                             *)
(***************************************************************************)
OpType ==
  [by : Goroutine \cup {None}, kind : {"admin", "traffic", "rest"}, to : SUBSET Client,
   steps : Seq(StepType)]

Held(g) == [w |-> {m \in Mutex : writer[m] = g}, r |-> {m \in Mutex : g \in readers[m]}]

Typed ==
  /\ op \in [Goroutine -> OpType]
  /\ ops \in 0..MaxOps
  /\ writer \in [Mutex -> Goroutine \cup {None}]
  /\ readers \in [Mutex -> SUBSET Goroutine]
  /\ stalled \subseteq Client
  /\ gone \subseteq Client

IInv ==
  /\ Typed
  /\ \A g \in Goroutine : op[g].by \in {g, None}
  /\ \A g \in Goroutine : Disciplined(op[g].steps, Held(g), Free)

\* Names: the names of the goroutines.
LEMMA Names ==
  /\ Client \subseteq Goroutine /\ Builtin \in Goroutine /\ None \notin Goroutine
  /\ Monitor \in SUBSET Client
  BY ConstAssumption DEF Goroutine

\* OpIs: what a handler is, given its steps.
LEMMA OpIs ==
  ASSUME NEW by \in Goroutine, NEW kind \in {"admin", "traffic"}, NEW to \in SUBSET Client,
         NEW steps, Disciplined(steps, Writing({}), Writing({})), NEW o,
         o = Op(by, kind, to, steps)
  PROVE  /\ o \in OpType /\ o.by \in Goroutine
         /\ Disciplined(o.steps, Free, Free)
<1>1. steps \in Seq(StepType)
  BY DEF Disciplined
<1>2. o \in OpType /\ o.by = by /\ o.steps = steps
  BY <1>1 DEF Op, OpType
<1>3. Writing({}) = Free
  BY DEF Writing, Free
<1> QED
  BY <1>2, <1>3

\* HandlerIs: every handler respects the order and ends with nothing held.
LEMMA HandlerIs ==
  ASSUME NEW o \in Handler \cup Removal
  PROVE  o \in OpType /\ o.by \in Goroutine /\ Disciplined(o.steps, Free, Free)
<1> DEFINE Good == o \in OpType /\ o.by \in Goroutine /\ Disciplined(o.steps, Free, Free)
<1>1. ASSUME NEW by \in Goroutine, NEW c \in Client, NEW replaces \in BOOLEAN,
             o = Op(by, "admin", Monitor, HandleRegister(c, replaces))
      PROVE  Good
  BY <1>1, RegisterSteps, Names, OpIs
<1>2. ASSUME NEW c \in Client, NEW map \in {"subscriberMap", "subscriberMatchMap"},
             NEW present \in BOOLEAN,
             o = Op(c, "admin", Monitor, handleSubscribe(c, map, present))
      PROVE  Good
  BY <1>2, SubscribeSteps, Names, OpIs
<1>3. ASSUME NEW c \in Client, NEW d \in Client, o = Op(c, "traffic", {d}, doPublish({d}))
      PROVE  Good
  <2>1. Disciplined(doPublish({d}), Writing({}), Writing({}))
    BY PublishStep DEF Early
  <2> QED
    BY <1>3, <2>1, Names, OpIs
<1>4. ASSUME NEW c \in Client, NEW d \in Client,
             o = Op(c, "traffic", {d}, handleRequest(c, {d}))
      PROVE  Good
  BY <1>4, TrafficSteps, Names, OpIs
<1>5. ASSUME NEW c \in Client, NEW to \in {{}} \cup {{d} : d \in Client},
             o = Op(c, "traffic", to, handleReply(to))
      PROVE  Good
  <2>1. to \in SUBSET Client
    OBVIOUS
  <2> QED
    BY <1>5, <2>1, TrafficSteps, Names, OpIs
<1>6. ASSUME NEW c \in Client, o = Op(Builtin, "admin", {}, GetEventsJSON)
      PROVE  Good
  <2>1. Disciplined(GetEventsJSON, Writing({}), Writing({})) /\ {} \in SUBSET Client
    BY <1>6, TrafficSteps
  <2> QED
    BY <1>6, <2>1, Names, OpIs
<1>7. ASSUME NEW c \in Client, NEW present \in BOOLEAN,
             o = Op(c, "admin", Monitor, removeClient(c, present))
      PROVE  Good
  BY <1>7, RemoveSteps, Names, OpIs
<1>8. CASE o \in Handler
  <2> DEFINE
        Registers(by, c) ==
          {Op(by, "admin", Monitor, HandleRegister(c, replaces)) : replaces \in BOOLEAN}
        Subscribes(c) ==
          {Op(c, "admin", Monitor, handleSubscribe(c, map, present)) :
             map \in {"subscriberMap", "subscriberMatchMap"}, present \in BOOLEAN}
        Publishes(c) == {Op(c, "traffic", {d}, doPublish({d})) : d \in Client}
        Requests(c) == {Op(c, "traffic", {d}, handleRequest(c, {d})) : d \in Client}
        Replies(c) ==
          {Op(c, "traffic", to, handleReply(to)) : to \in {{}} \cup {{d} : d \in Client}}
        Lists == {Op(Builtin, "admin", {}, GetEventsJSON)}
        All(c) == Registers(c, c) \cup Subscribes(c) \cup Publishes(c) \cup Requests(c)
                    \cup Replies(c) \cup Registers(Builtin, c) \cup Lists
  <2>1. Handler = UNION {All(c) : c \in Client}
    BY DEF Handler
  <2>2. ASSUME NEW c \in Client, o \in All(c) PROVE Good
    <3>1. c \in Goroutine /\ Builtin \in Goroutine
      BY Names
    <3>2. CASE o \in Registers(c, c) \/ o \in Registers(Builtin, c)
      <4> HIDE DEF Good
      <4> QED
        BY <1>1, <3>1, <3>2
    <3>3. CASE o \in Subscribes(c)
      <4> HIDE DEF Good
      <4> QED
        BY <1>2, <3>3
    <3>4. CASE o \in Publishes(c) \/ o \in Requests(c)
      <4> HIDE DEF Good
      <4> QED
        BY <1>3, <1>4, <3>4
    <3>5. CASE o \in Replies(c) \/ o \in Lists
      <4> HIDE DEF Good
      <4> QED
        BY <1>5, <1>6, <3>5
    <3> HIDE DEF Good, Registers, Subscribes, Publishes, Requests, Replies, Lists
    <3> QED
      BY <2>2, <3>2, <3>3, <3>4, <3>5
  <2> HIDE DEF All
  <2> QED
    BY <1>8, <2>1, <2>2
<1>9. CASE o \in Removal
  BY <1>7, <1>9 DEF Removal
<1> QED
  BY <1>8, <1>9

\* Frame: what a step of one goroutine has to show.
LEMMA Frame ==
  ASSUME IInv, NEW g \in Goroutine, NEW o \in OpType, o.by \in {g, None},
         op' = [op EXCEPT ![g] = o], Typed',
         \A h \in Goroutine : h # g => Held(h)' = Held(h),
         Disciplined(o.steps, Held(g)', Free)
  PROVE  IInv'
<1>1. op'[g] = o /\ \A h \in Goroutine : h # g => op'[h] = op[h]
  BY DEF IInv, Typed
<1>2. \A h \in Goroutine : op'[h].by \in {h, None}
  BY <1>1 DEF IInv
<1>3. \A h \in Goroutine : Disciplined(op'[h].steps, Held(h)', Free)
  BY <1>1, Zenon DEF IInv
<1> QED
  BY <1>2, <1>3 DEF IInv

\* StartStep: a handler begins with nothing held.
LEMMA StartStep ==
  ASSUME IInv, NEW o \in Handler \cup Removal, Starts(o), UNCHANGED <<writer, readers>>,
         stalled' \subseteq Client, gone' \subseteq Client
  PROVE  IInv'
<1>1. o \in OpType /\ o.by \in Goroutine /\ Disciplined(o.steps, Free, Free)
  BY HandlerIs
<1>2. op' = [op EXCEPT ![o.by] = o] /\ op[o.by].steps = <<>>
  BY DEF Starts, Running
<1>3. Held(o.by) = Free
  BY <1>1, <1>2, NoSteps DEF IInv
<1>4. Typed'
  BY <1>1, <1>2, ConstAssumption DEF IInv, Typed, Starts
<1>5. \A h \in Goroutine : Held(h)' = Held(h)
  BY DEF Held
<1>6. PICK g : g = o.by
  OBVIOUS
<1>7. Disciplined(o.steps, Held(g)', Free)
  BY <1>1, <1>3, <1>5, <1>6
<1>8. g \in Goroutine /\ o.by \in {g, None} /\ op' = [op EXCEPT ![g] = o]
  BY <1>1, <1>2, <1>6
<1> QED
  BY <1>1, <1>4, <1>5, <1>7, <1>8, Frame

\* Ahead(g, L): the next step of g leaves L held, with which the rest respects
\* the order.
Ahead(g, L) ==
  /\ L \in Holding
  /\ op[g].steps \in Seq(StepType) /\ op[g].steps # <<>>
  /\ Now(g) \in StepType
  /\ Leaves(Now(g), Held(g), L)
  /\ Disciplined(Tail(op[g].steps), L, Free)

\* GoesOn: a goroutine that runs has something ahead.
LEMMA GoesOn ==
  ASSUME IInv, NEW g \in Goroutine, Running(g)
  PROVE  \E L : Ahead(g, L)
<1>1. PICK s : s = op[g].steps
  OBVIOUS
<1>2. Disciplined(s, Held(g), Free) /\ s # <<>>
  BY <1>1 DEF IInv, Running
<1>3. PICK L \in Holding : Leaves(Head(s), Held(g), L) /\ Disciplined(Tail(s), L, Free)
  BY <1>2, Advance, Zenon
<1>4. s \in Seq(StepType) /\ Head(s) \in StepType
  BY <1>2 DEF Disciplined
<1> QED
  BY <1>1, <1>2, <1>3, <1>4, Zenon DEF Ahead, Now

\* DoneStep: a step is done, and has left what was ahead.
LEMMA DoneStep ==
  ASSUME IInv, NEW g \in Goroutine, NEW L, Ahead(g, L), Done(g),
         UNCHANGED <<ops, stalled, gone>>,
         writer' \in [Mutex -> Goroutine \cup {None}], readers' \in [Mutex -> SUBSET Goroutine],
         \A h \in Goroutine : h # g => Held(h)' = Held(h),
         Held(g)' = L
  PROVE  IInv'
<1>1. op[g] \in OpType /\ op[g].by \in {g, None}
  BY DEF IInv, Typed
<1>2. PICK s : s = op[g].steps
  OBVIOUS
<1>3. s \in Seq(StepType) /\ s # <<>> /\ Tail(s) \in Seq(StepType)
  BY <1>2 DEF Ahead
<1>4. PICK o : o = IF Len(s) = 1 THEN Rest ELSE [op[g] EXCEPT !.steps = Tail(s)]
  OBVIOUS
<1>5. Len(s) = 1 => Tail(s) = <<>>
  <2>1. Len(s) = 1 => Len(Tail(s)) = 0
    BY <1>3
  <2>2. PICK t : t = Tail(s)
    OBVIOUS
  <2>3. Len(t) = 0 => t = <<>>
    BY <1>3, <2>2, EmptySeq
  <2> QED
    BY <2>1, <2>2, <2>3, Zenon
<1>6. o \in OpType /\ o.by \in {g, None} /\ o.steps = Tail(s)
  <2>1. CASE Len(s) = 1
    BY <1>4, <1>5, <2>1 DEF Rest, Op, OpType
  <2>2. CASE Len(s) # 1
    BY <1>1, <1>3, <1>4, <2>2 DEF OpType
  <2> QED
    BY <2>1, <2>2
<1>7. op' = [op EXCEPT ![g] = o]
  BY <1>2, <1>4 DEF Done, IInv, Typed
<1>8. Typed'
  BY <1>6, <1>7 DEF IInv, Typed
<1>9. Disciplined(o.steps, Held(g)', Free)
  BY <1>2, <1>6, Zenon DEF Ahead
<1> QED
  BY <1>6, <1>7, <1>8, <1>9, Frame

\* ChangeStep: a step is changed to another one that leaves what was ahead.
LEMMA ChangeStep ==
  ASSUME IInv, NEW g \in Goroutine, NEW L, Ahead(g, L), NEW x \in StepType,
         op' = [op EXCEPT ![g].steps[1] = x],
         UNCHANGED <<ops, stalled, gone>>,
         writer' \in [Mutex -> Goroutine \cup {None}], readers' \in [Mutex -> SUBSET Goroutine],
         \A h \in Goroutine : h # g => Held(h)' = Held(h),
         Leaves(x, Held(g)', L)
  PROVE  IInv'
<1>1. op[g] \in OpType /\ op[g].by \in {g, None}
  BY DEF IInv, Typed
<1>2. PICK s : s = op[g].steps
  OBVIOUS
<1>3. PICK t : t = [s EXCEPT ![1] = x]
  OBVIOUS
<1>4. PICK o : o = [op[g] EXCEPT !.steps = t]
  OBVIOUS
<1>5. /\ s \in Seq(StepType) /\ s # <<>> /\ L \in Holding
      /\ Disciplined(s, Held(g), Free) /\ Disciplined(Tail(s), L, Free)
  BY <1>2, Zenon DEF Ahead, IInv
<1>6. Held(g)' \in Holding
  BY DEF Held, Holding
<1>7. PICK G : G = Held(g)'
  OBVIOUS
<1>8. Disciplined(t, G, Free)
  BY <1>3, <1>5, <1>6, <1>7, Change
<1>9. o \in OpType /\ o.by \in {g, None} /\ o.steps = t
  <2>1. t \in Seq(StepType)
    BY <1>8 DEF Disciplined
  <2> QED
    BY <1>1, <1>4, <2>1 DEF OpType
<1>10. op' = [op EXCEPT ![g] = o]
  BY <1>2, <1>3, <1>4 DEF IInv, Typed
<1>11. Typed'
  BY <1>9, <1>10 DEF IInv, Typed
<1>12. Disciplined(o.steps, Held(g)', Free)
  BY <1>7, <1>8, <1>9
<1> QED
  BY <1>9, <1>10, <1>11, <1>12, Frame

\* StepChanges: the ways in which a step is changed.
LEMMA StepChanges ==
  ASSUME NEW y \in StepType
  PROVE  /\ [y EXCEPT !.do = "drain"] = [do |-> "drain", on |-> y.on]
         /\ [do |-> "drain", on |-> y.on] \in StepType
         /\ \A m : /\ [y EXCEPT !.on = @ \ {m}] = [do |-> y.do, on |-> y.on \ {m}]
                  /\ [do |-> y.do, on |-> y.on \ {m}] \in StepType
  BY DEF StepType

\* GoStep: every step of a handler does to the mutexes what Leaves says.
LEMMA GoStep ==
  ASSUME IInv, NEW g \in Goroutine, Go(g)
  PROVE  IInv'
<1>1. Running(g) /\ UNCHANGED <<ops, stalled, gone>>
  BY DEF Go
<1>2. PICK L : Ahead(g, L)
  BY <1>1, GoesOn
<1>3. PICK m \in Now(g).on :
        \/ DoLock(g, m) \/ DoDrain(g, m) \/ DoUnlock(g, m)
        \/ DoRLock(g, m) \/ DoRUnlock(g, m)
        \/ DoSend(g, m)
  BY DEF Go
<1>4. PICK s : s = op[g].steps
  OBVIOUS
<1>5. /\ Leaves(Now(g), Held(g), L) /\ Now(g) \in StepType /\ m \in Mutex
      /\ s \in Seq(StepType) /\ s # <<>> /\ s[1] = Now(g)
  BY <1>2, <1>4 DEF Ahead, StepType, Now
<1>6. /\ writer \in [Mutex -> Goroutine \cup {None}] /\ readers \in [Mutex -> SUBSET Goroutine]
      /\ None \notin Goroutine /\ op \in [Goroutine -> OpType] /\ op[g] \in OpType
  BY Names DEF IInv, Typed
<1>7. CASE DoLock(g, m)
  <2>1. /\ Now(g).do = "lock" /\ Now(g).on = {m} /\ Below(Held(g).w, {m}) /\ Below(Held(g).r, {m})
        /\ L = [w |-> Held(g).w \cup {m}, r |-> Held(g).r]
    BY <1>5, <1>7 DEF DoLock, Leaves
  <2>2. writer[m] = None /\ writer' = [writer EXCEPT ![m] = g] /\ readers' = readers
    BY <1>7 DEF DoLock
  <2>3. /\ writer' \in [Mutex -> Goroutine \cup {None}]
        /\ readers' \in [Mutex -> SUBSET Goroutine]
    BY <1>6, <2>2
  <2>4. Held(g)' = L
    <3>1. \A k \in Mutex : writer'[k] = g <=> writer[k] = g \/ k = m
      BY <1>5, <1>6, <2>2
    <3>2. {k \in Mutex : writer'[k] = g} = {k \in Mutex : writer[k] = g} \cup {m}
      BY <1>5, <3>1
    <3> QED
      BY <2>1, <2>2, <3>2 DEF Held
  <2>5. \A h \in Goroutine : h # g => Held(h)' = Held(h)
    BY <1>5, <1>6, <2>2 DEF Held
  <2>6. CASE readers[m] = {}
    <3>1. Done(g)
      BY <1>7, <2>6 DEF DoLock
    <3> QED
      BY <1>1, <1>2, <2>3, <2>4, <2>5, <3>1, DoneStep
  <2>7. CASE readers[m] # {}
    <3>1. PICK x : x = [do |-> "drain", on |-> {m}]
      OBVIOUS
    <3>2. x \in StepType /\ x = [Now(g) EXCEPT !.do = "drain"]
      BY <1>5, <2>1, <3>1, StepChanges
    <3>3. op' = [op EXCEPT ![g].steps[1] = x]
      <4>1. op' = [op EXCEPT ![g].steps[1].do = "drain"]
        BY <1>7, <2>7 DEF DoLock
      <4> QED
        BY <1>4, <1>5, <1>6, <3>2, <4>1
    <3>4. Leaves(x, L, L)
      <4>1. m \in L.w /\ Below(L.w \ {m}, {m}) /\ Below(L.r, {m})
        BY <2>1 DEF Below
      <4> QED
        BY <1>5, <3>1, <4>1 DEF Leaves
    <3>5. Leaves(x, Held(g)', L)
      BY <2>4, <3>4
    <3> QED
      BY <1>1, <1>2, <2>3, <2>5, <3>2, <3>3, <3>5, ChangeStep
  <2> QED
    BY <2>6, <2>7
<1>8. CASE DoDrain(g, m)
  <2>1. L = Held(g)
    BY <1>5, <1>8 DEF DoDrain, Leaves
  <2>2. Done(g) /\ UNCHANGED <<writer, readers>>
    BY <1>8 DEF DoDrain
  <2>3. \A h \in Goroutine : Held(h)' = Held(h)
    BY <2>2 DEF Held
  <2> QED
    BY <1>1, <1>2, <1>6, <2>1, <2>2, <2>3, DoneStep
<1>9. CASE DoUnlock(g, m)
  <2>1. m \in Held(g).w /\ L = [w |-> Held(g).w \ {m}, r |-> Held(g).r]
    BY <1>5, <1>9 DEF DoUnlock, Leaves
  <2>2. writer[m] = g /\ writer' = [writer EXCEPT ![m] = None] /\ readers' = readers /\ Done(g)
    BY <1>9, <2>1 DEF DoUnlock, Held
  <2>3. /\ writer' \in [Mutex -> Goroutine \cup {None}]
        /\ readers' \in [Mutex -> SUBSET Goroutine]
    BY <1>6, <2>2
  <2>4. Held(g)' = L
    BY <1>5, <1>6, <2>1, <2>2 DEF Held
  <2>5. \A h \in Goroutine : h # g => Held(h)' = Held(h)
    BY <1>5, <1>6, <2>2 DEF Held
  <2> QED
    BY <1>1, <1>2, <2>2, <2>3, <2>4, <2>5, DoneStep
<1>10. CASE DoRLock(g, m)
  <2>1. L = [w |-> Held(g).w, r |-> Held(g).r \cup {m}]
    BY <1>5, <1>10 DEF DoRLock, Leaves
  <2>2. readers' = [readers EXCEPT ![m] = @ \cup {g}] /\ writer' = writer /\ Done(g)
    BY <1>10 DEF DoRLock
  <2>3. /\ writer' \in [Mutex -> Goroutine \cup {None}]
        /\ readers' \in [Mutex -> SUBSET Goroutine]
    BY <1>6, <2>2
  <2>4. Held(g)' = L
    <3>1. {x \in Mutex : writer'[x] = g} = {x \in Mutex : writer[x] = g}
      BY <2>2
    <3>2. {x \in Mutex : g \in readers'[x]} = {x \in Mutex : g \in readers[x]} \cup {m}
      BY <1>5, <1>6, <2>2
    <3> QED
      BY <2>1, <3>1, <3>2 DEF Held
  <2>5. \A h \in Goroutine : h # g => Held(h)' = Held(h)
    BY <1>5, <1>6, <2>2 DEF Held
  <2> QED
    BY <1>1, <1>2, <2>2, <2>3, <2>4, <2>5, DoneStep
<1>11. CASE DoRUnlock(g, m)
  <2>1. L = [w |-> Held(g).w, r |-> Held(g).r \ {m}]
    BY <1>5, <1>11 DEF DoRUnlock, Leaves
  <2>2. readers' = [readers EXCEPT ![m] = @ \ {g}] /\ writer' = writer /\ Done(g)
    BY <1>11 DEF DoRUnlock
  <2>3. /\ writer' \in [Mutex -> Goroutine \cup {None}]
        /\ readers' \in [Mutex -> SUBSET Goroutine]
    BY <1>6, <2>2
  <2>4. Held(g)' = L
    BY <1>5, <1>6, <2>1, <2>2 DEF Held
  <2>5. \A h \in Goroutine : h # g => Held(h)' = Held(h)
    BY <1>5, <1>6, <2>2 DEF Held
  <2> QED
    BY <1>1, <1>2, <2>2, <2>3, <2>4, <2>5, DoneStep
<1>12. CASE DoSend(g, m)
  <2>1. Now(g).do = "send" /\ L = Held(g) /\ Now(g).on \subseteq Client
    BY <1>5, <1>12 DEF DoSend, Leaves
  <2>2. UNCHANGED <<writer, readers>>
    BY <1>12 DEF DoSend
  <2>3. \A h \in Goroutine : Held(h)' = Held(h)
    BY <2>2 DEF Held
  <2>4. CASE Now(g).on = {m}
    <3>1. Done(g)
      BY <1>12, <2>4 DEF DoSend
    <3> QED
      BY <1>1, <1>2, <1>6, <2>1, <2>2, <2>3, <3>1, DoneStep
  <2>5. CASE Now(g).on # {m}
    <3>1. PICK x : x = [do |-> "send", on |-> Now(g).on \ {m}]
      OBVIOUS
    <3>2. x \in StepType /\ x = [Now(g) EXCEPT !.on = @ \ {m}]
      BY <1>5, <2>1, <3>1, StepChanges
    <3>3. op' = [op EXCEPT ![g].steps[1] = x]
      <4>1. op' = [op EXCEPT ![g].steps[1].on = @ \ {m}]
        BY <1>12, <2>5 DEF DoSend
      <4> QED
        BY <1>4, <1>5, <1>6, <3>2, <4>1
    <3>4. Leaves(x, L, L)
      BY <2>1, <3>1 DEF Leaves
    <3>5. Leaves(x, Held(g)', L)
      BY <2>1, <2>3, <3>4
    <3> QED
      BY <1>1, <1>2, <1>6, <2>2, <2>3, <3>2, <3>3, <3>5, ChangeStep
  <2> QED
    BY <2>4, <2>5
<1> QED
  BY <1>3, <1>7, <1>8, <1>9, <1>10, <1>11, <1>12

\* Invariance: the discipline is an invariant of the broker.
LEMMA Invariance == Spec => []IInv
<1>1. Init => IInv
  <2> SUFFICES ASSUME Init PROVE IInv
    OBVIOUS
  <2>1. Rest \in OpType /\ Rest.by = None /\ Rest.steps = <<>>
    BY DEF Rest, Op, OpType
  <2>2. Typed
    BY <2>1, ConstAssumption DEF Init, Typed
  <2>3. ASSUME NEW g \in Goroutine PROVE Held(g) = Free /\ op[g] = Rest
    BY Names DEF Init, Held, Free
  <2>4. Disciplined(<<>>, Free, Free)
    BY NoSteps DEF Free, Holding
  <2> QED
    BY <2>1, <2>2, <2>3, <2>4 DEF IInv
<1>2. IInv /\ [Next]_vars => IInv'
  <2> SUFFICES ASSUME IInv, [Next]_vars PROVE IInv'
    OBVIOUS
  <2>1. CASE UNCHANGED vars
    BY <2>1 DEF vars, IInv, Typed, Held
  <2>2. ASSUME NEW o \in Handler, Begin(o) PROVE IInv'
    BY <2>2, StartStep DEF Begin, IInv, Typed
  <2>3. ASSUME NEW o \in Removal, Disconnect(o) PROVE IInv'
    <3>1. o.by \in Client
      BY <2>3 DEF Removal, Op
    <3>2. stalled' \subseteq Client /\ gone' \subseteq Client
      BY <2>3, <3>1 DEF Disconnect, IInv, Typed
    <3> QED
      BY <2>3, <3>2, StartStep DEF Disconnect
  <2>4. ASSUME NEW g \in Goroutine, Go(g) PROVE IInv'
    BY <2>4, GoStep
  <2>5. ASSUME NEW c \in Client, Stall(c) \/ ReadAgain(c) PROVE IInv'
    <3>1. UNCHANGED <<op, ops, writer, readers, gone>> /\ stalled' \subseteq Client
      BY <2>5 DEF Stall, ReadAgain, IInv, Typed
    <3> QED
      BY <3>1 DEF IInv, Typed, Held
  <2> QED
    BY <2>1, <2>2, <2>3, <2>4, <2>5 DEF Next
<1> QED
  BY <1>1, <1>2, PTL DEF Spec

\* TypeCorrect: the variables keep their types.
THEOREM TypeCorrect == Spec => []TypeOK
<1>1. IInv => TypeOK
  <2> SUFFICES ASSUME IInv PROVE TypeOK
    OBVIOUS
  <2>1. ASSUME NEW g \in Goroutine
        PROVE  /\ op[g].by \in {g, None}
               /\ op[g].to \subseteq Client
               /\ \A i \in 1..Len(op[g].steps) : op[g].steps[i].on \subseteq Mutex
    <3>1. op[g] \in OpType /\ op[g].by \in {g, None}
      BY DEF IInv, Typed
    <3>2. op[g].to \subseteq Client /\ op[g].steps \in Seq(StepType)
      BY <3>1 DEF OpType
    <3>3. ASSUME NEW i \in 1..Len(op[g].steps) PROVE op[g].steps[i].on \subseteq Mutex
      <4>1. op[g].steps[i] \in StepType
        BY <3>2
      <4> QED
        BY <4>1 DEF StepType
    <3> QED
      BY <3>1, <3>2, <3>3
  <2> QED
    BY <2>1 DEF TypeOK, IInv, Typed
<1> QED
  BY <1>1, Invariance, PTL

-----------------------------------------------------------------------------
(***************************************************************************)
(* No circle.  Whoever waits for a mutex waits for somebody who, if he     *)
(* waits himself, waits for a mutex that is later in the order, or for the *)
(* readers of the same one; and readers wait for later ones.               *)
(***************************************************************************)
Level(g) == 2 * Rank(Now(g).on) + (IF Now(g).do = "drain" THEN 1 ELSE 0)

\* WaitsAt: g waits at m, and holds nothing that is later.
WaitsAt(g, m) ==
  /\ m \in Mutex /\ Now(g).on = {m}
  /\ Below(Held(g).r, {m})
  /\ \/ /\ Now(g).do \in {"lock", "rlock"}
        /\ Below(Held(g).w, {m})
        /\ \A h \in WaitsFor(g) : m \in Held(h).w
     \/ /\ Now(g).do = "drain"
        /\ Below(Held(g).w \ {m}, {m})
        /\ \A h \in WaitsFor(g) : m \in Held(h).r

\* WaitsSomewhere: a goroutine that waits for others waits at a mutex they hold.
LEMMA WaitsSomewhere ==
  ASSUME IInv, NEW g \in Goroutine, WaitsFor(g) # {}
  PROVE  \E m : WaitsAt(g, m)
<1>1. Running(g)
  BY DEF WaitsFor
<1>2. PICK L : Ahead(g, L)
  BY <1>1, GoesOn
<1>3. Leaves(Now(g), Held(g), L)
  BY <1>2 DEF Ahead
<1>4. Now(g).do \in {"lock", "rlock", "drain"}
  BY <1>1 DEF WaitsFor
<1>5. PICK m \in Mutex :
        /\ Now(g).on = {m} /\ Below(Held(g).r, {m})
        /\ Now(g).do \in {"lock", "rlock"} => Below(Held(g).w, {m})
        /\ Now(g).do = "drain" => Below(Held(g).w \ {m}, {m})
  BY <1>3, <1>4 DEF Leaves
<1>6. ASSUME NEW h \in WaitsFor(g), Now(g).do \in {"lock", "rlock"} PROVE m \in Held(h).w
  <2>1. h \in {writer[m]} \ {None}
    BY <1>1, <1>5, <1>6 DEF WaitsFor
  <2> QED
    BY <2>1 DEF Held
<1>7. ASSUME NEW h \in WaitsFor(g), Now(g).do = "drain" PROVE m \in Held(h).r
  <2>1. h \in readers[m]
    BY <1>1, <1>5, <1>7 DEF WaitsFor
  <2> QED
    BY <2>1 DEF Held
<1> QED
  BY <1>4, <1>5, <1>6, <1>7 DEF WaitsAt

\* LevelIs: the levels are bounded.
LEMMA LevelIs ==
  ASSUME NEW g, NEW m \in Mutex, Now(g).on = {m}
  PROVE  /\ Rank({m}) \in 1..3 /\ Level(g) \in 2..7
         /\ Now(g).do = "drain" => Level(g) = 2 * Rank({m}) + 1
         /\ Now(g).do # "drain" => Level(g) = 2 * Rank({m})
<1>1. Rank({m}) \in 1..3
  BY DEF Rank
<1> QED
  BY <1>1 DEF Level

\* Climbs: along the waiting the level rises.
LEMMA Climbs ==
  ASSUME IInv, NEW g \in Goroutine, NEW h \in Goroutine, h \in WaitsFor(g), WaitsFor(h) # {}
  PROVE  Level(g) < Level(h) /\ Level(g) \in 2..7 /\ Level(h) \in 2..7
<1>1. PICK m : WaitsAt(g, m)
  BY WaitsSomewhere
<1>2. PICK n : WaitsAt(h, n)
  BY WaitsSomewhere
<1>3. m \in Mutex /\ Now(g).on = {m} /\ n \in Mutex /\ Now(h).on = {n}
  BY <1>1, <1>2 DEF WaitsAt
<1>4. \/ Rank({m}) < Rank({n})
      \/ Rank({m}) = Rank({n}) /\ Now(g).do # "drain" /\ Now(h).do = "drain"
  <2>1. CASE Now(g).do \in {"lock", "rlock"}
    <3>1. m \in Held(h).w
      BY <1>1, <2>1 DEF WaitsAt
    <3> QED
      BY <1>2, <2>1, <3>1 DEF WaitsAt, Below
  <2>2. CASE Now(g).do = "drain"
    <3>1. m \in Held(h).r
      BY <1>1, <2>2 DEF WaitsAt
    <3> QED
      BY <1>2, <3>1 DEF WaitsAt, Below
  <2> QED
    BY <1>1, <2>1, <2>2 DEF WaitsAt
<1>5. /\ Rank({m}) \in 1..3 /\ Level(g) \in 2..7
      /\ Now(g).do = "drain" => Level(g) = 2 * Rank({m}) + 1
      /\ Now(g).do # "drain" => Level(g) = 2 * Rank({m})
  BY <1>3, LevelIs
<1>6. /\ Rank({n}) \in 1..3 /\ Level(h) \in 2..7
      /\ Now(h).do = "drain" => Level(h) = 2 * Rank({n}) + 1
      /\ Now(h).do # "drain" => Level(h) = 2 * Rank({n})
  BY <1>3, LevelIs
<1> QED
  BY <1>4, <1>5, <1>6

\* NobodyWaitsInACircle: no goroutines of the broker wait for each other's
\* mutexes in a circle, for any number of connections, handlers and monitors.
THEOREM NobodyWaitsInACircle == Spec => []NoLockCycle
<1>1. ASSUME IInv, NEW d \in SUBSET Goroutine, d # {},
             \A g \in d : WaitsFor(g) \cap d # {}
      PROVE  FALSE
  <2>1. ASSUME NEW g \in d
        PROVE  \E h \in d : Level(g) < Level(h) /\ Level(g) \in 2..7 /\ Level(h) \in 2..7
    <3>1. PICK h \in d : h \in WaitsFor(g)
      BY <1>1
    <3>2. WaitsFor(h) # {} /\ g \in Goroutine /\ h \in Goroutine
      BY <1>1
    <3> QED
      BY <1>1, <3>1, <3>2, Climbs
  <2>2. PICK T : T = {7 - Level(g) : g \in d}
    OBVIOUS
  <2>3. T \subseteq Nat /\ T # {}
    BY <1>1, <2>1, <2>2
  <2>4. \A x, y \in Nat : y < x => <<y, x>> \in OpToRel(<, Nat)
    BY DEF OpToRel
  <2>5. PICK R : IsWellFoundedOn(R, Nat) /\ \A x, y \in Nat : y < x => <<y, x>> \in R
    BY <2>4, NatLessThanWellFounded, Zenon
  <2>6. PICK x \in T : \A y \in T : ~(<<y, x>> \in R)
    BY <2>3, <2>5, WFMin
  <2>7. \A y \in T : ~(y < x)
    BY <2>3, <2>5, <2>6
  <2>8. PICK g \in d : x = 7 - Level(g)
    BY <2>2, <2>6
  <2>9. PICK h \in d : Level(g) < Level(h) /\ Level(g) \in 2..7 /\ Level(h) \in 2..7
    BY <2>1
  <2>10. 7 - Level(h) \in T
    BY <2>2
  <2> QED
    BY <2>7, <2>8, <2>9, <2>10
<1>2. IInv => NoLockCycle
  BY <1>1 DEF NoLockCycle
<1> QED
  BY <1>2, Invariance, PTL

=============================================================================
