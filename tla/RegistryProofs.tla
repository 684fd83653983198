--------------------------- MODULE RegistryProofs ---------------------------
(***************************************************************************)
(* For every number of connections, services and addresses: the registry   *)
(* only routes to services their client keeps track of, the removal of a   *)
(* connection meets every service routed to it, and leaves none behind; no *)
(* removed client stays in the list of clients, and what is announced is   *)
(* what is routed.                                                         *)
(***************************************************************************)
EXTENDS Registry, TLAPS, WellFoundedInduction

(***************************************************************************)
(* What the three invariants rest on.  While a client is being removed, its*)
(* slice and the window its range loop captured lie on one array, so that  *)
(* a replacement overwrites the element it looked up, and no other.  Only  *)
(* clients that ask for it are registered by the built-in service.         *)
(***************************************************************************)
Aliased ==
  \A c \in Client : Removing(c) =>
    /\ Len(owned[c]) <= Len(scan[c].arr)
    /\ \A j \in 1..Len(owned[c]) : scan[c].arr[j] = owned[c][j]

PendingAsked == \A c \in Client : pending[c] # None => c \in OnBehalf

IInv ==
  /\ TypeOK
  /\ RoutedIsTracked
  /\ Aliased
  /\ ScanCovers
  /\ PendingAsked
  /\ NoOrphan

-----------------------------------------------------------------------------
(* Slices *)

\* A search loop finds an element that is there, at an index of the slice.
LEMMA FirstIndexFinds ==
  ASSUME NEW s \in Seq(Key), NEW k, Positions(s, k) # {}
  PROVE  /\ FirstIndex(s, k) \in 1..Len(s)
         /\ s[FirstIndex(s, k)] = k
<1> DEFINE P == Positions(s, k)
<1>1. P \subseteq Nat
  BY DEF Positions
<1>2. PICK p \in P : \A q \in P : ~(<<q, p>> \in OpToRel(<, Nat))
  BY <1>1, WFMin, NatLessThanWellFounded, Zenon
<1>3. \A q \in P : p <= q
  <2> TAKE q \in P
  <2>1. p \in Nat /\ q \in Nat
    BY <1>1
  <2>2. ~(q < p)
    BY <1>2, <2>1 DEF OpToRel
  <2> QED BY <2>1, <2>2
<1>4. FirstIndex(s, k) \in P
  BY <1>3 DEF FirstIndex
<1> QED BY <1>4 DEF Positions

\* The search loop reports 0 exactly when the element is absent.
LEMMA FirstIndexZero ==
  ASSUME NEW s \in Seq(Key), NEW k
  PROVE  /\ FirstIndex(s, k) \in 0..Len(s)
         /\ FirstIndex(s, k) = 0 <=> Positions(s, k) = {}
<1>1. CASE Positions(s, k) = {}
  BY <1>1 DEF FirstIndex
<1>2. CASE Positions(s, k) # {}
  BY <1>2, FirstIndexFinds
<1> QED BY <1>1, <1>2

\* Removal by swapping with the last element yields a slice one shorter...
LEMMA SwapRemoveType ==
  ASSUME NEW s \in Seq(Key), NEW p \in 1..Len(s)
  PROVE  /\ SwapRemove(s, p) \in Seq(Key)
         /\ Len(SwapRemove(s, p)) = Len(s) - 1
         /\ \A j \in 1..(Len(s) - 1) :
              SwapRemove(s, p)[j] = IF j = p THEN s[Len(s)] ELSE s[j]
<1>1. Len(s) \in Nat /\ Len(s) >= 1
  OBVIOUS
<1>2. \A j \in 1..Len(s) : s[j] \in Key
  OBVIOUS
<1>3. SwapRemove(s, p) \in [1..(Len(s) - 1) -> Key]
  BY <1>1, <1>2 DEF SwapRemove
<1> QED BY <1>1, <1>3 DEF SwapRemove

\* ... that still holds every element but the one removed.
LEMMA SwapRemoveKeeps ==
  ASSUME NEW s \in Seq(Key), NEW p \in 1..Len(s), NEW k \in Key,
         s[p] # k, Positions(s, k) # {}
  PROVE  Positions(SwapRemove(s, p), k) # {}
<1>1. PICK q \in 1..Len(s) : s[q] = k
  BY DEF Positions
<1>2. q # p
  BY <1>1
<1>3. CASE q = Len(s)
  <2>1. p \in 1..(Len(s) - 1)
    BY <1>2, <1>3
  <2>2. SwapRemove(s, p)[p] = k
    BY <1>1, <1>3, <2>1, SwapRemoveType
  <2> QED BY <2>1, <2>2, SwapRemoveType DEF Positions
<1>4. CASE q # Len(s)
  <2>1. q \in 1..(Len(s) - 1)
    BY <1>4
  <2>2. SwapRemove(s, p)[q] = k
    BY <1>1, <1>2, <2>1, SwapRemoveType
  <2> QED BY <2>1, <2>2, SwapRemoveType DEF Positions
<1> QED BY <1>3, <1>4


-----------------------------------------------------------------------------
(* Registration *)

ScanRecord == [arr : Seq(Key), i : Nat \ {0}, cur : Key \cup {None}]

\* Lines 29-44 of HandleRegister take the replaced service out of its owner's
\* slice and leave the rest in place: every other service is still tracked,
\* slice and captured window still agree, and the window keeps its length and
\* every element but the one looked up.
LEMMA DroppedKeeps ==
  ASSUME IInv, NEW k \in Key
  PROVE  /\ Dropped(k).own \in [Client -> Seq(Key)]
         /\ Dropped(k).scan \in [Client -> ScanRecord]
         /\ \A d \in Client : /\ Dropped(k).scan[d].i = scan[d].i
                              /\ Dropped(k).scan[d].cur = scan[d].cur
                              /\ Len(Dropped(k).scan[d].arr) = Len(scan[d].arr)
         /\ \A d \in Client, h \in Key \ {k} :
              Positions(owned[d], h) # {} => Positions(Dropped(k).own[d], h) # {}
         /\ \A d \in Client : Removing(d) =>
              /\ Len(Dropped(k).own[d]) <= Len(Dropped(k).scan[d].arr)
              /\ \A j \in 1..Len(Dropped(k).own[d]) :
                   Dropped(k).scan[d].arr[j] = Dropped(k).own[d][j]
         /\ \A d \in Client, h \in Key \ {k} : Removing(d) =>
              Positions(scan[d].arr, h) \subseteq Positions(Dropped(k).scan[d].arr, h)
<1>0. /\ services[k] \in Client \cup {None}
      /\ owned \in [Client -> Seq(Key)]
      /\ scan \in [Client -> ScanRecord]
  BY DEF IInv, TypeOK, ScanRecord
<1>1. CASE services[k] = None
  <2>1. Dropped(k).own = owned /\ Dropped(k).scan = scan
    BY <1>1 DEF Dropped
  <2> QED BY <1>0, <2>1 DEF IInv, Aliased
<1>2. CASE services[k] # None
  <2> DEFINE o == services[k]
             s == owned[o]
             p == FirstIndex(s, k)
             arr == scan[o].arr
  <2>1. o \in Client /\ s \in Seq(Key) /\ arr \in Seq(Key)
    BY <1>0, <1>2 DEF ScanRecord
  <2>2. p \in 1..Len(s) /\ s[p] = k
    <3>1. Positions(s, k) # {}
      BY <1>2 DEF IInv, RoutedIsTracked
    <3> QED BY <2>1, <3>1, FirstIndexFinds
  <2> DEFINE brr == IF Removing(o) THEN [arr EXCEPT ![p] = s[Len(s)]] ELSE arr
  <2>3. /\ Dropped(k).own = [owned EXCEPT ![o] = SwapRemove(s, p)]
        /\ Dropped(k).scan = [scan EXCEPT ![o].arr = brr]
    <3>1. p # 0
      BY <2>1, <2>2
    <3>2. Dropped(k) =
            [own  |-> [owned EXCEPT ![o] = IF p = 0 THEN @ ELSE SwapRemove(@, p)],
             scan |-> [scan EXCEPT ![o].arr =
                         IF p = 0 \/ ~Removing(o) THEN @
                         ELSE [@ EXCEPT ![p] = owned[o][Len(owned[o])]]]]
      BY <1>2 DEF Dropped, DropOwned
    <3>3. Dropped(k).own = [owned EXCEPT ![o] = SwapRemove(s, p)]
      BY <3>1, <3>2
    <3>4. CASE Removing(o)
      BY <3>1, <3>2, <3>3, <3>4
    <3>5. CASE ~Removing(o)
      BY <3>1, <3>2, <3>3, <3>5
    <3> QED BY <3>4, <3>5
  <2>4. /\ SwapRemove(s, p) \in Seq(Key)
        /\ Len(SwapRemove(s, p)) = Len(s) - 1
        /\ \A j \in 1..(Len(s) - 1) :
              SwapRemove(s, p)[j] = IF j = p THEN s[Len(s)] ELSE s[j]
    BY <2>1, <2>2, SwapRemoveType
  <2>5. Removing(o) => Len(s) <= Len(arr) /\ \A j \in 1..Len(s) : arr[j] = s[j]
    BY <2>1 DEF IInv, Aliased
  <2>6. /\ brr \in Seq(Key)
        /\ Len(brr) = Len(arr)
        /\ Removing(o) => \A j \in 1..Len(arr) :
                            brr[j] = IF j = p THEN s[Len(s)] ELSE arr[j]
    <3>1. CASE Removing(o)
      <4>1. p \in 1..Len(arr) /\ s[Len(s)] \in Key
        BY <2>1, <2>2, <2>5, <3>1
      <4> QED BY <2>1, <3>1, <4>1
    <3>2. CASE ~Removing(o)
      BY <2>1, <3>2
    <3> QED BY <3>1, <3>2
  <2> HIDE DEF o, s, p, arr, brr
  <2>7. /\ Dropped(k).own \in [Client -> Seq(Key)]
        /\ Dropped(k).scan \in [Client -> ScanRecord]
    <3>1. Dropped(k).own \in [Client -> Seq(Key)]
      BY <1>0, <2>1, <2>3, <2>4
    <3>2. [scan[o] EXCEPT !.arr = brr] \in ScanRecord
      BY <1>0, <2>1, <2>6 DEF ScanRecord
    <3>3. Dropped(k).scan = [scan EXCEPT ![o] = [scan[o] EXCEPT !.arr = brr]]
      BY <2>3
    <3> QED BY <1>0, <2>1, <3>1, <3>2, <3>3
  <2>8. /\ Dropped(k).own[o] = SwapRemove(s, p)
        /\ Dropped(k).scan[o].arr = brr
        /\ \A d \in Client : /\ Dropped(k).scan[d].i = scan[d].i
                             /\ Dropped(k).scan[d].cur = scan[d].cur
        /\ \A d \in Client \ {o} : /\ Dropped(k).own[d] = owned[d]
                                   /\ Dropped(k).scan[d] = scan[d]
    BY <1>0, <2>1, <2>3 DEF ScanRecord
  <2>9. \A d \in Client : Len(Dropped(k).scan[d].arr) = Len(scan[d].arr)
    BY <2>6, <2>8 DEF arr
  <2>10. ASSUME NEW d \in Client, NEW h \in Key \ {k}, Positions(owned[d], h) # {}
         PROVE  Positions(Dropped(k).own[d], h) # {}
    <3>1. CASE d = o
      <4>1. Positions(s, h) # {} /\ s[p] # h
        BY <2>2, <2>10, <3>1 DEF s
      <4> QED BY <2>1, <2>2, <2>8, <3>1, <4>1, SwapRemoveKeeps
    <3>2. CASE d # o
      BY <2>8, <2>10, <3>2
    <3> QED BY <3>1, <3>2
  <2>11. ASSUME NEW d \in Client, Removing(d)
         PROVE  /\ Len(Dropped(k).own[d]) <= Len(Dropped(k).scan[d].arr)
                /\ \A j \in 1..Len(Dropped(k).own[d]) :
                     Dropped(k).scan[d].arr[j] = Dropped(k).own[d][j]
    <3>1. CASE d = o
      <4>1. Len(SwapRemove(s, p)) <= Len(brr)
        BY <2>1, <2>4, <2>5, <2>6, <2>11, <3>1
      <4>2. ASSUME NEW j \in 1..Len(SwapRemove(s, p))
            PROVE  brr[j] = SwapRemove(s, p)[j]
        <5>1. j \in 1..(Len(s) - 1) /\ j \in 1..Len(arr) /\ j \in 1..Len(s)
          BY <2>1, <2>4, <2>5, <2>11, <3>1
        <5> QED BY <2>4, <2>5, <2>6, <2>11, <3>1, <5>1
      <4> QED BY <2>8, <3>1, <4>1, <4>2
    <3>2. CASE d # o
      BY <2>8, <2>11, <3>2, SMTT(40) DEF IInv, Aliased
    <3> QED BY <3>1, <3>2
  <2>12. ASSUME NEW d \in Client, NEW h \in Key \ {k}, Removing(d)
         PROVE  Positions(scan[d].arr, h) \subseteq Positions(Dropped(k).scan[d].arr, h)
    <3>1. CASE d = o
      <4> SUFFICES ASSUME NEW j \in 1..Len(arr), arr[j] = h
                   PROVE  brr[j] = h
        BY <2>6, <2>8, <3>1 DEF Positions, arr
      <4>1. j # p
        BY <2>2, <2>5, <2>12, <3>1
      <4> QED BY <2>6, <2>12, <3>1, <4>1
    <3>2. CASE d # o
      BY <2>8, <3>2
    <3> QED BY <3>1, <3>2
  <2> QED BY <2>7, <2>8, <2>9, <2>10, <2>11, <2>12
<1> QED BY <1>1, <1>2

-----------------------------------------------------------------------------
(* The inductive invariant *)

\* The broker starts with an empty registry.
LEMMA InitIInv == Init => IInv
<1> SUFFICES ASSUME Init PROVE IInv
  OBVIOUS
<1> USE ConstAssumption
<1>1. TypeOK
  <2>1. \A c \in Client : scan[c] = NoScan /\ conn[c] = "new"
    BY DEF Init
  <2>2. NoScan \in ScanRecord /\ NoScan.i = 1 /\ NoScan.cur = None
        /\ Len(NoScan.arr) = 0
    BY DEF NoScan, ScanRecord
  <2>3. \A c \in Client : /\ Ahead(c) <= Len(scan[c].arr) + 1
                          /\ conn[c] = "lost" <=> scan[c].cur # None
    <3> TAKE c \in Client
    <3>1. scan[c].i = 1 /\ Len(scan[c].arr) = 0 /\ scan[c].cur = None
      BY <2>1, <2>2
    <3> QED BY <2>1, <3>1 DEF Ahead
  <2>4. scan \in [Client -> ScanRecord]
    BY <2>2 DEF Init
  <2>5. owned \in [Client -> Seq(Key)] /\ conn \in [Client -> Phase]
    BY DEF Init, Phase
  <2>6. /\ clientIds \in [Address -> Client \cup {None}]
        /\ services \in [Key -> Client \cup {None}]
        /\ pending \in [Client -> Key \cup {None}]
        /\ announced \subseteq Address \X Key
        /\ started \in BOOLEAN /\ panicked \in BOOLEAN
    BY DEF Init
  <2> QED BY <2>3, <2>4, <2>5, <2>6 DEF TypeOK, ScanRecord
<1>2. \A c \in Client : ~Removing(c)
  BY DEF Init, Removing
<1>3. \A k \in Key : services[k] = None
  BY DEF Init
<1> QED BY <1>1, <1>2, <1>3
        DEF IInv, RoutedIsTracked, Aliased, ScanCovers, PendingAsked, NoOrphan, Init

\* A registration, from a register message or from the built-in service.
LEMMA HandleRegisterIInv ==
  ASSUME IInv, NEW c \in Client, NEW k \in Key, HandleRegister(c, k),
         conn' = conn, clientIds' = clientIds,
         pending' \in [Client -> Key \cup {None}],
         \A d \in Client : pending'[d] # None => pending[d] # None,
         conn[c] = "up" \/ c \in OnBehalf
  PROVE  IInv'
<1> USE ConstAssumption
<1> DEFINE own == Dropped(k).own
           scn == Dropped(k).scan
<1>0. TypeOK
  BY DEF IInv
<1>1. /\ own \in [Client -> Seq(Key)]
      /\ scn \in [Client -> ScanRecord]
      /\ \A d \in Client : /\ scn[d].i = scan[d].i
                           /\ scn[d].cur = scan[d].cur
                           /\ Len(scn[d].arr) = Len(scan[d].arr)
      /\ \A d \in Client, h \in Key \ {k} :
           Positions(owned[d], h) # {} => Positions(own[d], h) # {}
      /\ \A d \in Client : Removing(d) =>
           /\ Len(own[d]) <= Len(scn[d].arr)
           /\ \A j \in 1..Len(own[d]) : scn[d].arr[j] = own[d][j]
      /\ \A d \in Client, h \in Key \ {k} : Removing(d) =>
           Positions(scan[d].arr, h) \subseteq Positions(scn[d].arr, h)
  BY DroppedKeeps
<1>2. /\ ~Removing(c)
      /\ services' = [services EXCEPT ![k] = c]
      /\ owned' = [own EXCEPT ![c] = Append(own[c], k)]
      /\ scan' = scn
  BY DEF HandleRegister
<1> HIDE DEF own, scn
<1>3. \A d \in Client : Removing(d)' <=> Removing(d)
  BY DEF Removing
<1>4. /\ owned' \in [Client -> Seq(Key)]
      /\ owned'[c] = Append(own[c], k)
      /\ \A d \in Client \ {c} : owned'[d] = own[d]
  BY <1>1, <1>2
<1>5. /\ services'[k] = c
      /\ \A h \in Key \ {k} : services'[h] = services[h]
      /\ services' \in [Key -> Client \cup {None}]
  BY <1>0, <1>2 DEF TypeOK
<1>6. TypeOK'
  <2>1. announced' \subseteq Address \X Key
    <3>1. Addr[c] \in Address /\ announced \subseteq Address \X Key
      BY <1>0 DEF TypeOK
    <3>2. announced' \subseteq announced \cup {<<Addr[c], k>>}
      BY DEF HandleRegister, Announce
    <3> QED BY <3>1, <3>2
  <2>2. started' \in BOOLEAN /\ panicked' \in BOOLEAN
    BY DEF HandleRegister, ClosesTwice
  <2>3. \A d \in Client : /\ Ahead(d)' <= Len(scan'[d].arr) + 1
                          /\ conn'[d] = "lost" <=> scan'[d].cur # None
    BY <1>0, <1>1, <1>2 DEF TypeOK, Ahead
  <2>4. scan' \in [Client -> [arr : Seq(Key), i : Nat \ {0}, cur : Key \cup {None}]]
    BY <1>1, <1>2 DEF ScanRecord
  <2> QED BY <1>0, <1>4, <1>5, <2>1, <2>2, <2>3, <2>4 DEF TypeOK
<1>7. RoutedIsTracked'
  <2> SUFFICES ASSUME NEW h \in Key, services'[h] # None
               PROVE  Positions(owned'[services'[h]], h) # {}
    BY DEF RoutedIsTracked, Positions
  <2>1. CASE h = k
    <3>1. own[c] \in Seq(Key)
      BY <1>1
    <3>2. /\ Len(own[c]) + 1 \in 1..Len(Append(own[c], k))
          /\ Append(own[c], k)[Len(own[c]) + 1] = k
      BY <3>1
    <3> QED BY <1>4, <1>5, <2>1, <3>2 DEF Positions
  <2>2. CASE h # k
    <3> DEFINE d == services[h]
    <3>1. d \in Client /\ services'[h] = d
      BY <1>0, <1>5, <2>2 DEF TypeOK
    <3>2. Positions(own[d], h) # {}
      BY <1>1, <2>2, <3>1 DEF IInv, RoutedIsTracked
    <3>3. CASE d = c
      <4>1. PICK j \in 1..Len(own[c]) : own[c][j] = h
        BY <3>2, <3>3 DEF Positions
      <4>2. own[c] \in Seq(Key)
        BY <1>1
      <4>3. j \in 1..Len(Append(own[c], k)) /\ Append(own[c], k)[j] = h
        BY <4>1, <4>2
      <4> QED BY <1>4, <3>1, <3>3, <4>3 DEF Positions
    <3>4. CASE d # c
      BY <1>4, <3>1, <3>2, <3>4
    <3> QED BY <3>3, <3>4
  <2> QED BY <2>1, <2>2
<1>8. Aliased'
  <2> SUFFICES ASSUME NEW d \in Client, Removing(d)
               PROVE  /\ Len(owned'[d]) <= Len(scan'[d].arr)
                      /\ \A j \in 1..Len(owned'[d]) : scan'[d].arr[j] = owned'[d][j]
    BY <1>3 DEF Aliased
  <2>1. d # c
    BY <1>2
  <2> QED BY <1>1, <1>2, <1>4, <2>1
<1>9. ScanCovers'
  <2> SUFFICES ASSUME NEW h \in Key, NEW d \in Client, services'[h] = d, Removing(d)
               PROVE  \/ scan'[d].cur = h
                      \/ \E j \in Positions(scan'[d].arr, h) : j >= Ahead(d)'
    BY <1>3 DEF ScanCovers, Positions
  <2>1. h # k /\ services[h] = d
    BY <1>2, <1>5
  <2>2. Ahead(d)' = Ahead(d)
    BY <1>1, <1>2 DEF Ahead
  <2>3. \/ scan[d].cur = h
        \/ \E j \in Positions(scan[d].arr, h) : j >= Ahead(d)
    BY <2>1 DEF IInv, ScanCovers
  <2> QED BY <1>1, <1>2, <2>1, <2>2, <2>3
<1>10. PendingAsked'
  BY DEF IInv, PendingAsked
<1>11. NoOrphan'
  BY <1>5 DEF IInv, NoOrphan
<1> QED BY <1>6, <1>7, <1>8, <1>9, <1>10, <1>11 DEF IInv

\* Steps that leave the registry itself alone.
LEMMA FrameIInv ==
  ASSUME IInv, UNCHANGED <<services, owned, scan, announced, started, panicked>>,
         conn' \in [Client -> Phase],
         clientIds' \in [Address -> Client \cup {None}],
         pending' \in [Client -> Key \cup {None}],
         \A c \in Client : pending'[c] # None => c \in OnBehalf,
         \A c \in Client : /\ conn'[c] \in {"range", "lost"} => conn'[c] = conn[c]
                           /\ conn[c] \in {"range", "lost"} => conn'[c] = conn[c],
         \A c \in Client : conn'[c] \in {"unlocked", "gone"} =>
                             conn[c] \in {"unlocked", "gone"}
  PROVE  IInv'
<1>1. TypeOK'
  <2>1. \A c \in Client : conn'[c] = "lost" <=> conn[c] = "lost"
    OBVIOUS
  <2> QED BY <2>1 DEF IInv, TypeOK, Ahead
<1>2. RoutedIsTracked'
  BY DEF IInv, RoutedIsTracked, Positions
<1>3. \A c \in Client : /\ Removing(c)' => Removing(c)
                        /\ Removing(c)' => Ahead(c)' = Ahead(c)
  BY DEF Removing, Ahead
<1>4. Aliased'
  BY <1>3 DEF IInv, Aliased
<1>5. ScanCovers'
  BY <1>3 DEF IInv, ScanCovers, Positions
<1>6. PendingAsked' /\ NoOrphan'
  BY DEF IInv, PendingAsked, NoOrphan
<1> QED BY <1>1, <1>2, <1>4, <1>5, <1>6 DEF IInv

\* removeClient evaluates its range expression: the window is the whole slice.
LEMMA DisconnectIInv ==
  ASSUME IInv, NEW c \in Client, Disconnect(c)
  PROVE  IInv'
<1> USE ConstAssumption
<1> DEFINE r == [arr |-> owned[c], i |-> 1, cur |-> None]
<1>1. /\ conn[c] = "up"
      /\ conn' = [conn EXCEPT ![c] = "range"]
      /\ scan' = [scan EXCEPT ![c] = r]
      /\ UNCHANGED <<clientIds, services, owned, pending, announced, started, panicked>>
  BY DEF Disconnect
<1>2. TypeOK /\ owned[c] \in Seq(Key) /\ r \in ScanRecord
  BY DEF IInv, TypeOK, ScanRecord
<1>3. /\ conn'[c] = "range" /\ scan'[c] = r
      /\ \A d \in Client \ {c} : conn'[d] = conn[d] /\ scan'[d] = scan[d]
  BY <1>1, <1>2 DEF TypeOK
<1>4. TypeOK'
  <2>1. scan' \in [Client -> [arr : Seq(Key), i : Nat \ {0}, cur : Key \cup {None}]]
    BY <1>1, <1>2 DEF TypeOK, ScanRecord
  <2>2. conn' \in [Client -> Phase]
    BY <1>1, <1>2 DEF TypeOK, Phase
  <2>3. \A d \in Client : /\ Ahead(d)' <= Len(scan'[d].arr) + 1
                          /\ conn'[d] = "lost" <=> scan'[d].cur # None
    <3> TAKE d \in Client
    <3>1. CASE d = c
      <4>1. Ahead(c)' = 1 /\ scan'[c].arr = owned[c] /\ scan'[c].cur = None
        BY <1>3 DEF Ahead
      <4> QED BY <1>2, <1>3, <3>1, <4>1
    <3>2. CASE d # c
      BY <1>2, <1>3, <3>2 DEF TypeOK, Ahead
    <3> QED BY <3>1, <3>2
  <2> QED BY <1>1, <1>2, <2>1, <2>2, <2>3 DEF TypeOK
<1>5. RoutedIsTracked'
  BY <1>1 DEF IInv, RoutedIsTracked, Positions
<1>6. \A d \in Client \ {c} : /\ Removing(d)' = Removing(d)
                              /\ Ahead(d)' = Ahead(d)
  BY <1>3 DEF Removing, Ahead
<1>7. Aliased'
  BY <1>1, <1>2, <1>3, <1>6 DEF IInv, Aliased
<1>8. ScanCovers'
  <2> SUFFICES ASSUME NEW k \in Key, NEW d \in Client, services[k] = d, Removing(d)'
               PROVE  \/ scan'[d].cur = k
                      \/ \E j \in Positions(scan'[d].arr, k) : j >= Ahead(d)'
    BY <1>1 DEF ScanCovers, Positions
  <2>1. CASE d = c
    <3>1. PICK j \in Positions(owned[c], k) : TRUE
      BY <1>2, <2>1, ConstAssumption DEF IInv, RoutedIsTracked
    <3>2. j >= 1 /\ Ahead(c)' = 1
      BY <1>2, <1>3, <3>1 DEF Positions, Ahead
    <3> QED BY <1>3, <2>1, <3>1, <3>2
  <2>2. CASE d # c
    BY <1>3, <1>6, <2>2 DEF IInv, ScanCovers
  <2> QED BY <2>1, <2>2
<1>9. PendingAsked' /\ NoOrphan'
  BY <1>1, <1>3 DEF IInv, PendingAsked, NoOrphan
<1> QED BY <1>4, <1>5, <1>7, <1>8, <1>9 DEF IInv

\* The range loop reads its next element, which becomes the current one.
LEMMA PublishLostIInv ==
  ASSUME IInv, NEW c \in Client, PublishLost(c)
  PROVE  IInv'
<1> USE ConstAssumption
<1> DEFINE k == scan[c].arr[scan[c].i]
<1>1. /\ conn[c] = "range" /\ scan[c].i <= Len(scan[c].arr)
      /\ conn' = [conn EXCEPT ![c] = "lost"]
      /\ scan' = [scan EXCEPT ![c].cur = k]
      /\ announced' \subseteq announced
      /\ UNCHANGED <<clientIds, services, owned, pending, started, panicked>>
  <2>1. scan[c].i \in Nat /\ Len(scan[c].arr) \in Nat
    BY DEF IInv, TypeOK
  <2> QED BY <2>1 DEF PublishLost, ScanOver
<1>2. TypeOK /\ scan[c] \in ScanRecord /\ k \in Key
  BY <1>1 DEF IInv, TypeOK, ScanRecord
<1> HIDE DEF k
<1>3. /\ conn'[c] = "lost"
      /\ scan'[c].cur = k /\ scan'[c].arr = scan[c].arr /\ scan'[c].i = scan[c].i
      /\ \A d \in Client \ {c} : conn'[d] = conn[d] /\ scan'[d] = scan[d]
  BY <1>1, <1>2 DEF TypeOK, ScanRecord
<1>4. TypeOK'
  <2>1. scan' \in [Client -> [arr : Seq(Key), i : Nat \ {0}, cur : Key \cup {None}]]
    <3>1. [scan[c] EXCEPT !.cur = k] \in ScanRecord
      BY <1>2 DEF ScanRecord
    <3>2. scan' = [scan EXCEPT ![c] = [scan[c] EXCEPT !.cur = k]]
      BY <1>1
    <3> QED BY <1>2, <3>1, <3>2 DEF TypeOK, ScanRecord
  <2>2. conn' \in [Client -> Phase]
    BY <1>1, <1>2 DEF TypeOK, Phase
  <2>3. \A d \in Client : /\ Ahead(d)' <= Len(scan'[d].arr) + 1
                          /\ conn'[d] = "lost" <=> scan'[d].cur # None
    <3> TAKE d \in Client
    <3>1. CASE d = c
      <4>1. scan[c].i \in Nat /\ Len(scan[c].arr) \in Nat
        BY <1>2 DEF ScanRecord
      <4>2. Ahead(c)' = scan[c].i + 1
        BY <1>3 DEF Ahead
      <4> QED BY <1>1, <1>2, <1>3, <3>1, <4>1, <4>2
    <3>2. CASE d # c
      BY <1>2, <1>3, <3>2 DEF TypeOK, Ahead
    <3> QED BY <3>1, <3>2
  <2> QED BY <1>1, <1>2, <2>1, <2>2, <2>3 DEF TypeOK
<1>5. RoutedIsTracked'
  BY <1>1 DEF IInv, RoutedIsTracked, Positions
<1>6. \A d \in Client \ {c} : /\ Removing(d)' = Removing(d)
                              /\ Ahead(d)' = Ahead(d)
  BY <1>3 DEF Removing, Ahead
<1>7. Aliased'
  <2>1. Removing(c)
    BY <1>1 DEF Removing
  <2> QED BY <1>1, <1>3, <1>6, <2>1 DEF IInv, Aliased
<1>8. ScanCovers'
  <2> SUFFICES ASSUME NEW h \in Key, NEW d \in Client, services[h] = d, Removing(d)'
               PROVE  \/ scan'[d].cur = h
                      \/ \E j \in Positions(scan'[d].arr, h) : j >= Ahead(d)'
    BY <1>1 DEF ScanCovers, Positions
  <2>1. CASE d = c
    <3>1. scan[c].cur = None /\ Removing(c) /\ Ahead(c) = scan[c].i
      BY <1>1, <1>2 DEF TypeOK, Removing, Ahead
    <3>2. PICK j \in Positions(scan[c].arr, h) : j >= scan[c].i
      BY <2>1, <3>1 DEF IInv, ScanCovers
    <3>3. Ahead(c)' = scan[c].i + 1
      BY <1>3 DEF Ahead
    <3>4. CASE j = scan[c].i
      BY <1>3, <2>1, <3>2, <3>4 DEF Positions, k
    <3>5. CASE j # scan[c].i
      <4>1. j \in Nat /\ scan[c].i \in Nat
        BY <1>2, <3>2 DEF Positions, ScanRecord
      <4>2. j >= scan[c].i + 1
        BY <3>2, <3>5, <4>1
      <4> QED BY <1>3, <2>1, <3>2, <3>3, <4>2
    <3> QED BY <3>4, <3>5
  <2>2. CASE d # c
    BY <1>3, <1>6, <2>2 DEF IInv, ScanCovers
  <2> QED BY <2>1, <2>2
<1>9. PendingAsked' /\ NoOrphan'
  BY <1>1, <1>3 DEF IInv, PendingAsked, NoOrphan
<1> QED BY <1>4, <1>5, <1>7, <1>8, <1>9 DEF IInv

\* The current element leaves the registry, whoever is registered there.
LEMMA DeleteServiceIInv ==
  ASSUME IInv, NEW c \in Client, DeleteService(c)
  PROVE  IInv'
<1> USE ConstAssumption
<1> DEFINE k == scan[c].cur
           r == [arr |-> scan[c].arr, i |-> scan[c].i + 1, cur |-> None]
<1>1. TypeOK /\ scan[c] \in ScanRecord /\ conn[c] = "lost" /\ k \in Key
  BY DEF IInv, TypeOK, ScanRecord, DeleteService
<1>2. /\ conn' = [conn EXCEPT ![c] = "range"]
      /\ services' = [services EXCEPT ![k] = None]
      /\ scan' = [scan EXCEPT ![c] = r]
      /\ UNCHANGED <<clientIds, owned, pending, announced, started, panicked>>
  BY <1>1 DEF DeleteService, TypeOK, ScanRecord
<1>3. scan[c].i + 1 <= Len(scan[c].arr) + 1 /\ r \in ScanRecord
  BY <1>1 DEF TypeOK, Ahead, ScanRecord
<1>4. /\ conn'[c] = "range" /\ scan'[c] = r
      /\ \A d \in Client \ {c} : conn'[d] = conn[d] /\ scan'[d] = scan[d]
  BY <1>1, <1>2 DEF TypeOK
<1>5. /\ services' \in [Key -> Client \cup {None}]
      /\ services'[k] = None
      /\ \A h \in Key \ {k} : services'[h] = services[h]
  BY <1>1, <1>2 DEF TypeOK
<1>6. TypeOK'
  <2>1. scan' \in [Client -> [arr : Seq(Key), i : Nat \ {0}, cur : Key \cup {None}]]
    BY <1>1, <1>2, <1>3 DEF TypeOK, ScanRecord
  <2>2. conn' \in [Client -> Phase]
    BY <1>1, <1>2 DEF TypeOK, Phase
  <2>3. \A d \in Client : /\ Ahead(d)' <= Len(scan'[d].arr) + 1
                          /\ conn'[d] = "lost" <=> scan'[d].cur # None
    <3> TAKE d \in Client
    <3>1. CASE d = c
      <4>1. Ahead(c)' = scan[c].i + 1 /\ scan'[c].arr = scan[c].arr /\ scan'[c].cur = None
        BY <1>4 DEF Ahead
      <4> QED BY <1>3, <1>4, <3>1, <4>1
    <3>2. CASE d # c
      BY <1>1, <1>4, <3>2 DEF TypeOK, Ahead
    <3> QED BY <3>1, <3>2
  <2> QED BY <1>1, <1>2, <1>5, <2>1, <2>2, <2>3 DEF TypeOK
<1>7. RoutedIsTracked'
  BY <1>1, <1>2, <1>5 DEF IInv, RoutedIsTracked, Positions
<1>8. \A d \in Client \ {c} : /\ Removing(d)' = Removing(d)
                              /\ Ahead(d)' = Ahead(d)
  BY <1>4 DEF Removing, Ahead
<1>9. Removing(c) /\ Ahead(c)' = Ahead(c) /\ scan'[c].arr = scan[c].arr
  BY <1>1, <1>4 DEF Removing, Ahead
<1>10. Aliased'
  BY <1>2, <1>4, <1>8, <1>9 DEF IInv, Aliased
<1>11. ScanCovers'
  <2> SUFFICES ASSUME NEW h \in Key, NEW d \in Client, services'[h] = d, Removing(d)'
               PROVE  \/ scan'[d].cur = h
                      \/ \E j \in Positions(scan'[d].arr, h) : j >= Ahead(d)'
    BY DEF ScanCovers, Positions
  <2>1. h # k /\ services[h] = d
    BY <1>1, <1>5
  <2>2. CASE d = c
    BY <1>9, <2>1, <2>2 DEF IInv, ScanCovers
  <2>3. CASE d # c
    BY <1>4, <1>8, <2>1, <2>3 DEF IInv, ScanCovers
  <2> QED BY <2>2, <2>3
<1>12. PendingAsked' /\ NoOrphan'
  BY <1>1, <1>2, <1>4, <1>5 DEF IInv, PendingAsked, NoOrphan
<1> QED BY <1>6, <1>7, <1>10, <1>11, <1>12 DEF IInv

\* When the range loop is over nothing lies ahead of it, so nothing is routed to c.
LEMMA NothingAhead ==
  ASSUME IInv, NEW c \in Client, EndScan(c)
  PROVE  \A k \in Key : services[k] # c
<1> SUFFICES ASSUME NEW k \in Key, services[k] = c PROVE FALSE
  OBVIOUS
<1>1. TypeOK /\ conn[c] = "range"
  BY DEF IInv, EndScan
<1>2. Removing(c) /\ scan[c].cur = None /\ Ahead(c) = scan[c].i
  BY <1>1 DEF TypeOK, Removing, Ahead
<1>3. PICK j \in Positions(scan[c].arr, k) : j >= scan[c].i
  BY <1>2, ConstAssumption DEF IInv, ScanCovers
<1>4. /\ scan[c].i > Len(scan[c].arr) /\ j \in 1..Len(scan[c].arr)
      /\ scan[c].i \in Nat /\ Len(scan[c].arr) \in Nat
  BY <1>1, <1>3 DEF EndScan, ScanOver, Positions, TypeOK
<1> QED BY <1>3, <1>4

\* The range loop is over, and c.mtx is released.
LEMMA EndScanIInv ==
  ASSUME IInv, NEW c \in Client, EndScan(c)
  PROVE  IInv'
<1> USE ConstAssumption
<1>1. /\ TypeOK /\ conn[c] = "range"
      /\ conn' = [conn EXCEPT ![c] = "unlocked"]
      /\ scan' = [scan EXCEPT ![c] = NoScan]
      /\ UNCHANGED <<clientIds, services, owned, pending, announced, started, panicked>>
  BY DEF IInv, EndScan
<1>2. /\ conn'[c] = "unlocked" /\ scan'[c] = NoScan
      /\ \A d \in Client \ {c} : conn'[d] = conn[d] /\ scan'[d] = scan[d]
  BY <1>1 DEF TypeOK
<1>3. /\ NoScan \in ScanRecord /\ NoScan.i = 1 /\ NoScan.cur = None
      /\ Len(NoScan.arr) = 0
  BY DEF NoScan, ScanRecord
<1>4. TypeOK'
  <2>1. scan' \in [Client -> [arr : Seq(Key), i : Nat \ {0}, cur : Key \cup {None}]]
    BY <1>1, <1>3 DEF TypeOK, ScanRecord
  <2>2. conn' \in [Client -> Phase]
    BY <1>1 DEF TypeOK, Phase
  <2>3. \A d \in Client : /\ Ahead(d)' <= Len(scan'[d].arr) + 1
                          /\ conn'[d] = "lost" <=> scan'[d].cur # None
    <3> TAKE d \in Client
    <3>1. CASE d = c
      <4>1. Ahead(c)' = 1 /\ Len(scan'[c].arr) = 0 /\ scan'[c].cur = None
        BY <1>2, <1>3 DEF Ahead
      <4> QED BY <1>2, <3>1, <4>1
    <3>2. CASE d # c
      BY <1>1, <1>2, <3>2 DEF TypeOK, Ahead
    <3> QED BY <3>1, <3>2
  <2> QED BY <1>1, <2>1, <2>2, <2>3 DEF TypeOK
<1>5. RoutedIsTracked'
  BY <1>1 DEF IInv, RoutedIsTracked, Positions
<1>6. /\ ~Removing(c)'
      /\ \A d \in Client \ {c} : /\ Removing(d)' = Removing(d)
                                 /\ Ahead(d)' = Ahead(d)
  BY <1>2 DEF Removing, Ahead
<1>7. Aliased'
  BY <1>1, <1>2, <1>6 DEF IInv, Aliased
<1>8. ScanCovers'
  BY <1>1, <1>2, <1>6 DEF IInv, ScanCovers, Positions
<1>9. \A k \in Key : services[k] # c
  BY NothingAhead
<1>10. PendingAsked' /\ NoOrphan'
  BY <1>1, <1>2, <1>9 DEF IInv, PendingAsked, NoOrphan
<1> QED BY <1>4, <1>5, <1>7, <1>8, <1>10 DEF IInv

\* Every step of the registry preserves the invariant.
LEMMA NextIInv == IInv /\ [Next]_vars => IInv'
<1> SUFFICES ASSUME IInv, [Next]_vars PROVE IInv'
  OBVIOUS
<1> USE ConstAssumption
<1>0. TypeOK /\ PendingAsked
  BY DEF IInv
<1>1. ASSUME NEW c \in Client, NewClient(c) PROVE IInv'
  <2>1. /\ conn' = [conn EXCEPT ![c] = "up"] /\ conn[c] = "new"
        /\ clientIds' = [clientIds EXCEPT ![Addr[c]] = c]
        /\ UNCHANGED <<services, owned, scan, pending, announced, started, panicked>>
    BY <1>1 DEF NewClient
  <2>2. conn' \in [Client -> Phase] /\ clientIds' \in [Address -> Client \cup {None}]
    BY <1>0, <2>1 DEF TypeOK, Phase
  <2>3. pending' \in [Client -> Key \cup {None}]
        /\ \A d \in Client : pending'[d] # None => d \in OnBehalf
    BY <1>0, <2>1 DEF TypeOK, PendingAsked
  <2>4. \A d \in Client : conn'[d] = conn[d] \/ (conn'[d] = "up" /\ conn[d] = "new")
    BY <1>0, <2>1 DEF TypeOK
  <2> QED BY <2>1, <2>2, <2>3, <2>4, FrameIInv
<1>2. ASSUME NEW c \in Client, NEW k \in Offers[c], Register(c, k) PROVE IInv'
  <2>1. k \in Key /\ pending' \in [Client -> Key \cup {None}]
    BY <1>0, <1>2 DEF Register, TypeOK
  <2> QED BY <1>2, <2>1, HandleRegisterIInv DEF Register
<1>3. ASSUME NEW c \in Client, NEW k \in Offers[c], AskRegister(c, k) PROVE IInv'
  <2>1. /\ pending' = [pending EXCEPT ![c] = k] /\ c \in OnBehalf /\ k \in Key
        /\ UNCHANGED <<conn, clientIds, services, owned, scan, announced, started, panicked>>
    BY <1>3 DEF AskRegister
  <2>2. pending' \in [Client -> Key \cup {None}]
        /\ \A d \in Client : pending'[d] # None => d \in OnBehalf
    BY <1>0, <2>1 DEF TypeOK, PendingAsked
  <2> QED BY <1>0, <2>1, <2>2, FrameIInv DEF TypeOK
<1>4. ASSUME NEW c \in Client, BuiltinRegister(c) PROVE IInv'
  <2>1. /\ pending[c] \in Key /\ c \in OnBehalf
        /\ pending' \in [Client -> Key \cup {None}]
        /\ \A d \in Client : pending'[d] # None => pending[d] # None
    BY <1>0, <1>4 DEF BuiltinRegister, TypeOK, PendingAsked
  <2> QED BY <1>4, <2>1, HandleRegisterIInv DEF BuiltinRegister
<1>5. ASSUME NEW c \in Client, BuiltinForgets(c) PROVE IInv'
  <2>1. /\ pending' = [pending EXCEPT ![c] = None]
        /\ UNCHANGED <<conn, clientIds, services, owned, scan, announced, started, panicked>>
    BY <1>5 DEF BuiltinForgets
  <2>2. pending' \in [Client -> Key \cup {None}]
        /\ \A d \in Client : pending'[d] # None => d \in OnBehalf
    BY <1>0, <2>1 DEF TypeOK, PendingAsked
  <2> QED BY <1>0, <2>1, <2>2, FrameIInv DEF TypeOK
<1>6. ASSUME NEW c \in Client, ForgetClient(c) PROVE IInv'
  <2>1. /\ conn' = [conn EXCEPT ![c] = "gone"] /\ conn[c] = "unlocked"
        /\ clientIds' = [clientIds EXCEPT ![Addr[c]] = None]
        /\ UNCHANGED <<services, owned, scan, pending, announced, started, panicked>>
    BY <1>6 DEF ForgetClient
  <2>2. conn' \in [Client -> Phase] /\ clientIds' \in [Address -> Client \cup {None}]
    BY <1>0, <2>1 DEF TypeOK, Phase
  <2>3. pending' \in [Client -> Key \cup {None}]
        /\ \A d \in Client : pending'[d] # None => d \in OnBehalf
    BY <1>0, <2>1 DEF TypeOK, PendingAsked
  <2>4. \A d \in Client : conn'[d] = conn[d] \/ (conn'[d] = "gone" /\ conn[d] = "unlocked")
    BY <1>0, <2>1 DEF TypeOK
  <2> QED BY <2>1, <2>2, <2>3, <2>4, FrameIInv
<1>7. CASE UNCHANGED vars
  BY <1>7, <1>0, FrameIInv DEF vars, TypeOK, PendingAsked
<1>8. CASE Idle
  BY <1>7, <1>8 DEF Idle
<1>9. CASE \E c \in Client : Removal(c)
  BY <1>6, <1>9, PublishLostIInv, DeleteServiceIInv, EndScanIInv DEF Removal
<1> QED BY <1>1, <1>2, <1>3, <1>4, <1>5, <1>7, <1>8, <1>9, DisconnectIInv DEF Next

\* The invariant holds throughout every behaviour.
THEOREM Invariance == Spec => []IInv
<1>1. Init => IInv
  BY InitIInv
<1>2. IInv /\ [Next]_vars => IInv'
  BY NextIInv
<1> QED BY <1>1, <1>2, PTL DEF Spec

\* The registry is well formed, whatever connections come, register and go:
\* in particular the range loop of removeServicesOnClient never leaves the
\* window it captured.
THEOREM TypeCorrect == Spec => []TypeOK
<1>1. IInv => TypeOK
  BY DEF IInv
<1> QED BY <1>1, Invariance, PTL

\* HandleRegister removes elements of other clients' slices without their
\* mutex, and still a routed service never drops out of its client's slice.
THEOREM RoutedTracked == Spec => []RoutedIsTracked
<1>1. IInv => RoutedIsTracked
  BY DEF IInv
<1> QED BY <1>1, Invariance, PTL

\* Replacements that shuffle the array under the range loop never hide a
\* routed service from it.
THEOREM ScanCovered == Spec => []ScanCovers
<1>1. IInv => ScanCovers
  BY DEF IInv
<1> QED BY <1>1, Invariance, PTL

\* removeClient leaves no request routed to the connection it removed, unless
\* register_service was called for that connection.
THEOREM NothingOrphaned == Spec => []NoOrphan
<1>1. IInv => NoOrphan
  BY DEF IInv
<1> QED BY <1>1, Invariance, PTL

-----------------------------------------------------------------------------
(***************************************************************************)
(* What a subscriber of the events believes.  A removal announces losses   *)
(* before it deletes: from there to its end the belief of a subscriber and *)
(* the registry may differ, and by its end nothing is routed to the client *)
(* any more, which is why ScanCovers is needed here too.                   *)
(***************************************************************************)
LEMMA NextMonitorKnows ==
  ASSUME IInv, IInv', MonitorKnows, [Next]_vars
  PROVE  MonitorKnows'
<1> USE ConstAssumption
<1>0. TypeOK /\ TypeOK'
  BY DEF IInv
<1>1. ASSUME NEW k \in Key, NEW c \in Client, services[k] = c, ~panicked, Unshared(c), ~Removing(c)
      PROVE  <<Addr[c], k>> \in announced
  BY <1>1 DEF MonitorKnows
<1> SUFFICES ASSUME NEW k \in Key, services'[k] # None, ~panicked', Unshared(services'[k]),
                    conn'[services'[k]] \notin {"range", "lost"}
             PROVE  <<Addr[services'[k]], k>> \in announced'
  BY DEF MonitorKnows, Unshared, Removing
<1>2. PICK c \in Client : c = services'[k]
  BY <1>0 DEF TypeOK
<1>3. ~panicked' /\ Unshared(c) /\ conn'[c] \notin {"range", "lost"}
  BY <1>2
<1> SUFFICES <<Addr[c], k>> \in announced'
  BY <1>2
<1>4. ASSUME NEW d \in Client, NEW h \in Key, HandleRegister(d, h), ~panicked, conn' = conn
      PROVE  <<Addr[c], k>> \in announced'
  <2>1. /\ ~ClosesTwice(h) /\ services' = [services EXCEPT ![h] = d]
        /\ announced' = (announced \ Lost(services[h], h)) \cup {<<Addr[d], h>>}
    BY <1>3, <1>4 DEF HandleRegister, Announce
  <2>2. CASE k = h
    BY <1>0, <1>2, <2>1, <2>2 DEF TypeOK
  <2>3. CASE k # h
    <3>1. services[k] = c /\ ~Removing(c)
      BY <1>0, <1>2, <1>3, <1>4, <2>1, <2>3 DEF TypeOK, Removing
    <3>2. <<Addr[c], k>> \in announced
      BY <1>1, <1>3, <1>4, <3>1
    <3>3. <<Addr[c], k>> \notin Lost(services[h], h)
      BY <2>3 DEF Lost
    <3> QED BY <2>1, <3>2, <3>3
  <2> QED BY <2>2, <2>3
<1>5. ASSUME services' = services, announced' = announced, ~panicked, ~Removing(c)
      PROVE  <<Addr[c], k>> \in announced'
  BY <1>1, <1>2, <1>3, <1>5
<1>6. ASSUME NEW d \in Client, NewClient(d), ~panicked PROVE <<Addr[c], k>> \in announced'
  <2>1. ~Removing(c)
    BY <1>0, <1>3, <1>6 DEF NewClient, Removing, TypeOK
  <2> QED BY <1>5, <1>6, <2>1 DEF NewClient
<1>7. ASSUME NEW d \in Client, NEW h \in Offers[d], ~panicked,
             Register(d, h) \/ AskRegister(d, h)
      PROVE  <<Addr[c], k>> \in announced'
  <2>1. h \in Key /\ conn' = conn
    BY <1>7 DEF Register, AskRegister
  <2>2. CASE Register(d, h)
    BY <1>4, <1>7, <2>1, <2>2 DEF Register
  <2>3. CASE AskRegister(d, h)
    BY <1>3, <1>5, <1>7, <2>1, <2>3 DEF AskRegister, Removing
  <2> QED BY <1>7, <2>2, <2>3
<1>8. ASSUME NEW d \in Client, BuiltinRegister(d), ~panicked PROVE <<Addr[c], k>> \in announced'
  <2>1. pending[d] \in Key /\ conn' = conn
    BY <1>0, <1>8 DEF BuiltinRegister, TypeOK
  <2> QED BY <1>4, <1>8, <2>1 DEF BuiltinRegister
<1>9. ASSUME NEW d \in Client, BuiltinForgets(d), ~panicked PROVE <<Addr[c], k>> \in announced'
  BY <1>3, <1>5, <1>9 DEF BuiltinForgets, Removing
<1>10. ASSUME NEW d \in Client, Disconnect(d) \/ ForgetClient(d), ~panicked
       PROVE  <<Addr[c], k>> \in announced'
  <2>1. ~Removing(c)
    BY <1>0, <1>3, <1>10, SMTT(40) DEF Disconnect, ForgetClient, Removing, TypeOK
  <2> QED BY <1>5, <1>10, <2>1 DEF Disconnect, ForgetClient
<1>11. ASSUME NEW d \in Client, PublishLost(d), ~panicked PROVE <<Addr[c], k>> \in announced'
  <2>1. c # d /\ ~Removing(c) /\ services[k] = c
    BY <1>0, <1>2, <1>3, <1>11 DEF PublishLost, Removing, TypeOK
  <2>2. <<Addr[c], k>> \in announced /\ Addr[d] # Addr[c]
    BY <1>1, <1>3, <1>11, <2>1 DEF Unshared
  <2> QED BY <1>11, <2>2 DEF PublishLost
<1>12. ASSUME NEW d \in Client, DeleteService(d), ~panicked PROVE <<Addr[c], k>> \in announced'
  <2>1. ~Removing(c) /\ services[k] = c /\ announced' = announced
    <3>1. scan[d].cur \in Key /\ services' = [services EXCEPT ![scan[d].cur] = None]
      BY <1>0, <1>12 DEF DeleteService, TypeOK
    <3>2. services[k] = c
      BY <1>0, <1>2, <3>1 DEF TypeOK
    <3> QED BY <1>0, <1>3, <1>12, <3>2 DEF DeleteService, Removing, TypeOK
  <2> QED BY <1>1, <1>3, <1>12, <2>1
<1>13. ASSUME NEW d \in Client, EndScan(d), ~panicked PROVE <<Addr[c], k>> \in announced'
  <2>1. services' = services /\ announced' = announced /\ conn' = [conn EXCEPT ![d] = "unlocked"]
    BY <1>13 DEF EndScan
  <2>2. c # d
    BY <1>2, <1>13, <2>1, NothingAhead
  <2>3. ~Removing(c)
    BY <1>0, <1>3, <2>1, <2>2 DEF Removing, TypeOK
  <2> QED BY <1>5, <1>13, <2>1, <2>3
<1>14. CASE UNCHANGED vars
  BY <1>3, <1>5, <1>14 DEF vars, Removing
<1>15. CASE Idle
  BY <1>14, <1>15 DEF Idle
<1> QED BY <1>6, <1>7, <1>8, <1>9, <1>10, <1>11, <1>12, <1>13, <1>14, <1>15 DEF Next, Removal

\* A subscriber of the new-service and lost-service events knows every routed
\* service of a client that is not being removed and whose address is its own.
THEOREM MonitorUpToDate == Spec => []MonitorKnows
<1>1. Init => MonitorKnows
  BY ConstAssumption DEF Init, MonitorKnows
<1>2. IInv /\ IInv' /\ MonitorKnows /\ [Next]_vars => MonitorKnows'
  BY NextMonitorKnows
<1> QED BY <1>1, <1>2, Invariance, PTL DEF Spec

=============================================================================
