---------------------------- MODULE PubSubProofs ----------------------------
(***************************************************************************)
(* For every set of clients, subscriptions and publishes: the maps list    *)
(* exactly the subscribers, a publish reaches nobody else, and it reaches  *)
(* every client that stays, unless one subscribes after another has left.  *)
(***************************************************************************)
EXTENDS PubSub, WellFoundedInduction, SequenceTheorems, TLAPS

-----------------------------------------------------------------------------
(* What removeConnFromMap makes of a slice *)

\* Every non-empty set of naturals has a least element.
LEMMA LeastNat ==
  ASSUME NEW T, T \subseteq Nat, T # {}
  PROVE  \E x \in T : \A y \in T : x <= y
<1>1. \A x, y \in Nat : y < x => <<y, x>> \in OpToRel(<, Nat)
  BY DEF OpToRel
<1>2. PICK R : IsWellFoundedOn(R, Nat) /\ \A x, y \in Nat : y < x => <<y, x>> \in R
  BY <1>1, NatLessThanWellFounded, Zenon
<1>3. PICK x \in T : \A y \in T : ~(<<y, x>> \in R)
  BY <1>2, WFMin
<1>4. \A y \in T : ~(y < x)
  BY <1>2, <1>3
<1> QED BY <1>4

\* One iteration of the loop of Sweep, as a function of those before it.
Iteration(f, i, a, n, c) ==
  IF i = 0 THEN [arr |-> a, n |-> n]
  ELSE IF f[i - 1].arr[i] # c THEN f[i - 1]
  ELSE [arr |-> [f[i - 1].arr EXCEPT ![i] = f[i - 1].arr[n]], n |-> n - 1]

\* If some f does what the iterations say, Sweep computes what f does: f exists,
\* so the loop is well defined, and by induction there is no other.
LEMMA SweepIs ==
  ASSUME NEW a, NEW n \in Nat, NEW c, NEW f,
         f = [i \in 0..n |-> Iteration(f, i, a, n, c)]
  PROVE  Sweep(a, n, c) = f[n]
<1> DEFINE g == CHOOSE h : h = [i \in 0..n |-> Iteration(h, i, a, n, c)]
<1>1. g = [i \in 0..n |-> Iteration(g, i, a, n, c)]
  OBVIOUS
<1>2. Sweep(a, n, c) = g[n]
  BY DEF Sweep, Iteration
<1> HIDE DEF g
<1> DEFINE T == {i \in 0..n : g[i] # f[i]}
<1>3. ASSUME T # {} PROVE FALSE
  <2>1. T \subseteq Nat
    OBVIOUS
  <2>2. PICK i \in T : \A j \in T : i <= j
    BY <1>3, <2>1, LeastNat
  <2>3. g[i] = Iteration(g, i, a, n, c) /\ f[i] = Iteration(f, i, a, n, c)
    BY <1>1, <2>2
  <2>4. CASE i = 0
    BY <2>2, <2>3, <2>4 DEF Iteration
  <2>5. CASE i # 0
    <3>1. i - 1 \in 0..n /\ i - 1 \notin T
      BY <2>2, <2>5
    <3>2. g[i - 1] = f[i - 1]
      BY <3>1
    <3> QED BY <2>2, <2>3, <3>2 DEF Iteration
  <2> QED BY <2>4, <2>5
<1>4. n \notin T
  BY <1>3
<1>5. g[n] = f[n]
  BY <1>4
<1> QED BY <1>2, <1>5

\* On a slice without repetitions the loop removes c, wherever it is: the last
\* element takes its place and the slice is one shorter.
LEMMA SweepRemoves ==
  ASSUME NEW S, NEW a \in Seq(S), NEW n \in 0..Len(a), NEW c,
         \A i, j \in 1..n : a[i] = a[j] => i = j
  PROVE  \/ /\ \A i \in 1..n : a[i] # c
            /\ Sweep(a, n, c) = [arr |-> a, n |-> n]
         \/ \E m \in 1..n :
              /\ a[m] = c
              /\ Sweep(a, n, c) = [arr |-> [a EXCEPT ![m] = a[n]], n |-> n - 1]
<1>1. n \in Nat /\ DOMAIN a = 1..Len(a) /\ Len(a) \in Nat
  OBVIOUS
<1>2. CASE \A i \in 1..n : a[i] # c
  <2> DEFINE same == [arr |-> a, n |-> n]
             f == [i \in 0..n |-> same]
  <2>1. ASSUME NEW i \in 0..n PROVE Iteration(f, i, a, n, c) = same
    <3>1. CASE i = 0
      BY <3>1 DEF Iteration
    <3>2. CASE i # 0
      <4>1. i - 1 \in 0..n /\ i \in 1..n
        BY <1>1, <3>2
      <4>2. f[i - 1] = same /\ same.arr[i] # c
        BY <1>2, <4>1
      <4> HIDE DEF same, f
      <4> QED BY <3>2, <4>2 DEF Iteration
    <3> QED BY <3>1, <3>2
  <2>2. f = [i \in 0..n |-> Iteration(f, i, a, n, c)]
    BY <2>1
  <2>3. Sweep(a, n, c) = f[n]
    <3> HIDE DEF f
    <3> QED BY <1>1, <2>2, SweepIs
  <2> QED BY <1>1, <1>2, <2>3
<1>3. ASSUME NEW m \in 1..n, a[m] = c
      PROVE  Sweep(a, n, c) = [arr |-> [a EXCEPT ![m] = a[n]], n |-> n - 1]
  <2> DEFINE same == [arr |-> a, n |-> n]
             less == [arr |-> [a EXCEPT ![m] = a[n]], n |-> n - 1]
             f == [i \in 0..n |-> IF i < m THEN same ELSE less]
  <2>1. ASSUME NEW i \in 0..n PROVE Iteration(f, i, a, n, c) = f[i]
    <3>1. CASE i = 0
      <4>1. f[i] = same
        BY <1>1, <3>1
      <4> QED BY <3>1, <4>1 DEF Iteration
    <3>2. CASE i # 0 /\ i < m
      <4>1. f[i - 1] = same /\ f[i] = same
        BY <1>1, <3>2
      <4>2. a[i] # c
        BY <1>1, <1>3, <3>2
      <4>3. same.arr[i] # c
        BY <4>2
      <4> HIDE DEF same, f
      <4> QED BY <3>2, <4>1, <4>3 DEF Iteration
    <3>3. CASE i = m
      <4>1. f[i - 1] = same /\ f[i] = less
        BY <1>1, <3>3
      <4>2. same.arr[i] = c /\ i # 0
        BY <1>1, <1>3, <3>3
      <4>3. Iteration(f, i, a, n, c) = [arr |-> [same.arr EXCEPT ![i] = same.arr[n]], n |-> n - 1]
        <5> HIDE DEF same, f
        <5> QED BY <4>1, <4>2 DEF Iteration
      <4> QED BY <3>3, <4>1, <4>3
    <3>4. CASE i > m
      <4>1. f[i - 1] = less /\ f[i] = less /\ i # 0
        BY <1>1, <3>4
      <4>2. a[i] # c /\ i # m /\ i \in DOMAIN a
        BY <1>1, <1>3, <3>4
      <4>3. less.arr[i] # c
        BY <4>2
      <4> HIDE DEF less, f
      <4> QED BY <4>1, <4>3 DEF Iteration
    <3> QED BY <1>1, <3>1, <3>2, <3>3, <3>4
  <2>2. f = [i \in 0..n |-> Iteration(f, i, a, n, c)]
    BY <2>1
  <2>3. Sweep(a, n, c) = f[n]
    <3> HIDE DEF f
    <3> QED BY <1>1, <2>2, SweepIs
  <2> QED BY <1>1, <2>3
<1> QED BY <1>2, <1>3

-----------------------------------------------------------------------------
(***************************************************************************)
(* The inductive invariant.  Each key's slice is in its array and lists    *)
(* the right clients, each once.  A window is the slice a publish ranges   *)
(* over: whatever is written into its array, its elements are clients that *)
(* subscribed to its key and were not gone when the publish began.  Until  *)
(* a client leaves, the slice in the map covers the window, so that only   *)
(* an append after a removal writes into it.  Removals overwrite only the  *)
(* client that leaves, so a client that stays is Ahead of the publish      *)
(* until it is collected.                                                  *)
(***************************************************************************)
Memory == Seq(Seq(Client \cup {None}))

\* The first n elements of the array M[v] are the members of C, each once.
Lists(M, v, n, C) ==
  /\ n \in Nat
  /\ n = 0 <=> v = 0
  /\ n > 0 => v \in 1..Len(M) /\ n <= Len(M[v])
  /\ \A i \in 1..n : M[v][i] \in C
  /\ \A c \in C : \E i \in 1..n : M[v][i] = c
  /\ \A i, j \in 1..n : M[v][i] = M[v][j] => i = j

MapsInv ==
  /\ conn \in [Client -> {"up", "exact", "gone"}]
  /\ subscribes \in [Client -> SUBSET Key]
  /\ mem \in [Key -> Memory]
  /\ subs \in [Key -> Slice]
  /\ \A k \in Key : Lists(mem[k], subs[k].v, subs[k].n, {c \in Client : Listed(c, k)})

Call == [at : Reading \cup {"idle", "send", "done"}, must : SUBSET Key, seen : SUBSET Key,
         key : Key \cup {None}, win : Slice, i : Nat, set : SUBSET Client,
         owed : SUBSET Client, past : SUBSET Client, left : BOOLEAN, reused : BOOLEAN]

\* The elements of the window v, n of the arrays M are in C.
Holds(M, v, n, C) ==
  /\ n > 0 => v \in 1..Len(M) /\ n <= Len(M[v])
  /\ \A j \in 1..n : M[v][j] \in C

Ranging(r) == r.at \in {"globlist", "exact"}

WindowOK(p, r) ==
  Ranging(r) =>
    /\ r.key \in Key
    /\ r.win.n > 0 => r.key \in Wanted(p)
    /\ Holds(mem[r.key], r.win.v, r.win.n,
             {c \in Client : r.key \in subscribes[c] /\ c \notin r.past})

PastGone(r) == \A c \in r.past : conn[c] = "gone"

Known(p, r) == \A c \in r.set : subscribes[c] \cap Wanted(p) # {} /\ c \notin r.past

OwedUp(r) == \A c \in r.owed : conn[c] = "up"

LiveWindow(r) ==
  Ranging(r) /\ ~r.left /\ subs[r.key].v = r.win.v => r.win.n <= subs[r.key].n

Ahead(p, r, c) ==
  \/ /\ r.at \in {"glob", "globlist"}
     /\ \E k \in subscribes[c] \cap Wanted(p) : k \in Exact \/ k \in r.must \ r.seen
  \/ /\ Ranging(r)
     /\ \E j \in r.i..r.win.n : mem[r.key][r.win.v][j] = c

Covered(p, r) == ~r.reused => \A c \in r.owed : c \in r.set \/ Ahead(p, r, c)

CallInv(p, r) ==
  /\ r.i \in 1..(r.win.n + 1)
  /\ WindowOK(p, r) /\ PastGone(r) /\ Known(p, r)
  /\ OwedUp(r) /\ LiveWindow(r) /\ Covered(p, r)

IInv ==
  /\ MapsInv
  /\ pub \in [Publish -> Call]
  /\ \A p \in Publish : CallInv(p, pub[p])

-----------------------------------------------------------------------------
(* What the writers do to the arrays *)

\* An append of c to the first n elements of the array v writes one element,
\* behind the slice, or leaves the arrays alone and starts a new one: it turns
\* the arrays M into m, and the new slice is on the array w.
Extended(M, v, n, m, w, c) ==
  /\ Len(m) >= Len(M)
  /\ \A u \in 1..Len(M) : Len(m[u]) = Len(M[u])
  /\ \A u \in 1..Len(M) : \A i \in 1..Len(M[u]) :
       m[u][i] = IF u = v /\ i = n + 1 THEN c ELSE M[u][i]
  /\ w = v \/ w = Len(M) + 1
  /\ w \in 1..Len(m)
  /\ n + 1 <= Len(m[w])
  /\ \A i \in 1..n : m[w][i] = M[v][i]
  /\ m[w][n + 1] = c

Appended(k, c) ==
  /\ mem' \in [Key -> Memory] /\ subs' \in [Key -> Slice]
  /\ \A q \in Key \ {k} : mem'[q] = mem[q] /\ subs'[q] = subs[q]
  /\ subs'[k].n = subs[k].n + 1
  /\ Extended(mem[k], subs[k].v, subs[k].n, mem'[k], subs'[k].v, c)

LEMMA AppendWrites ==
  ASSUME TypeOK, NEW k \in Key, NEW c \in Client, AppendTo(k, c)
  PROVE  Appended(k, c)
<1> DEFINE S == Client \cup {None}
<1>0. PICK n, v, a, M, L :
        n = subs[k].n /\ v = subs[k].v /\ a = Array(k) /\ M = mem[k] /\ L = Len(M)
  OBVIOUS
<1>1. /\ mem \in [Key -> Memory] /\ subs \in [Key -> Slice]
      /\ v \in 0..L /\ n <= Len(a) /\ n \in Nat /\ c \in S
      /\ M \in Seq(Seq(S)) /\ L \in Nat
  BY <1>0 DEF TypeOK, Memory, Slice
<1>2. /\ v = 0 => a = <<>> /\ n = 0
      /\ v # 0 => v \in 1..L /\ a = M[v]
      /\ a \in Seq(S) /\ Len(a) \in Nat
      /\ \A u \in 1..L : M[u] \in Seq(S) /\ Len(M[u]) \in Nat
  BY <1>0, <1>1 DEF Array
<1>3. ASSUME NEW m \in Memory, NEW w \in Nat, Extended(M, v, n, m, w, c),
             mem' = [mem EXCEPT ![k] = m],
             subs' = [subs EXCEPT ![k] = [v |-> w, n |-> n + 1]]
      PROVE  Appended(k, c)
  <2>1. mem' \in [Key -> Memory] /\ mem'[k] = m /\ \A q \in Key \ {k} : mem'[q] = mem[q]
    BY <1>1, <1>3
  <2>2. /\ subs' \in [Key -> Slice] /\ subs'[k].v = w /\ subs'[k].n = n + 1
        /\ \A q \in Key \ {k} : subs'[q] = subs[q]
    BY <1>1, <1>3 DEF Slice
  <2> QED BY <1>0, <1>3, <2>1, <2>2 DEF Appended
<1>4. CASE n < Len(a)
  <2> DEFINE b == [M[v] EXCEPT ![n + 1] = c]
             m == [M EXCEPT ![v] = b]
  <2>1. v \in 1..L /\ a = M[v] /\ n + 1 \in 1..Len(a)
    BY <1>1, <1>2, <1>4
  <2>2. mem' = [mem EXCEPT ![k] = m]
    BY <1>0, <1>4 DEF AppendTo
  <2>3. subs' = [subs EXCEPT ![k] = [v |-> v, n |-> n + 1]]
    BY <1>0, <1>1, <1>4 DEF AppendTo, Slice
  <2>4. /\ b \in Seq(S) /\ Len(b) = Len(a)
        /\ \A i \in 1..Len(a) : b[i] = IF i = n + 1 THEN c ELSE a[i]
    BY <1>1, <1>2, <2>1, ExceptSeq
  <2> HIDE DEF b
  <2>5. /\ m \in Seq(Seq(S)) /\ Len(m) = L
        /\ \A u \in 1..L : m[u] = IF u = v THEN b ELSE M[u]
    BY <1>0, <1>1, <2>1, <2>4, ExceptSeq
  <2> HIDE DEF m, S
  <2>6. m[v] = b /\ b[n + 1] = c /\ n + 1 <= Len(b)
    BY <2>1, <2>4, <2>5
  <2>7. \A i \in 1..n : m[v][i] = M[v][i]
    <3> SUFFICES ASSUME NEW i \in 1..n PROVE b[i] = a[i]
      BY <2>1, <2>6
    <3> QED BY <1>1, <2>1, <2>4, SMTT(40)
  <2>8. \A u \in 1..L : Len(m[u]) = Len(M[u])
    BY <2>1, <2>4, <2>5
  <2>9. \A u \in 1..L : \A i \in 1..Len(M[u]) :
          m[u][i] = IF u = v /\ i = n + 1 THEN c ELSE M[u][i]
    BY <2>1, <2>4, <2>5
  <2>10. v \in 1..Len(m) /\ Len(m) >= L /\ n + 1 <= Len(m[v]) /\ m[v][n + 1] = c
    BY <1>1, <2>1, <2>5, <2>6
  <2>11. Extended(M, v, n, m, v, c)
    BY <1>0, <2>7, <2>8, <2>9, <2>10 DEF Extended
  <2>12. m \in Memory /\ v \in Nat
    BY <1>1, <2>5 DEF Memory, S
  <2> QED BY <1>3, <2>2, <2>3, <2>11, <2>12
<1>5. CASE ~(n < Len(a))
  <2> DEFINE g == Grow(a)
             b == [g EXCEPT ![n + 1] = c]
             m == Append(M, b)
  <2>1. n = Len(a)
    BY <1>1, <1>2, <1>5
  <2>2. mem' = [mem EXCEPT ![k] = m] /\ subs' = [subs EXCEPT ![k] = [v |-> L + 1, n |-> n + 1]]
    BY <1>0, <1>5 DEF AppendTo
  <2>3. /\ g \in Seq(S) /\ Len(g) >= n + 1 /\ Len(g) \in Nat
        /\ \A i \in 1..n : g[i] = a[i]
    <3>1. PICK len \in Nat : len >= n + 1 /\ len = IF a = <<>> THEN 1 ELSE 2 * Len(a)
      <4>1. CASE a = <<>>
        BY <1>2, <2>1, <4>1
      <4>2. CASE a # <<>>
        <5>1. Len(a) >= 1
          BY <1>2, <4>2, EmptySeq
        <5> QED BY <1>2, <2>1, <4>2, <5>1
      <4> QED BY <4>1, <4>2
    <3>2. g = [i \in 1..len |-> IF i <= Len(a) THEN a[i] ELSE None]
      BY <3>1 DEF Grow
    <3>3. \A i \in 1..len : (IF i <= Len(a) THEN a[i] ELSE None) \in S
      BY <1>2
    <3> QED BY <1>1, <2>1, <3>1, <3>2, <3>3
  <2> HIDE DEF g
  <2>4. /\ b \in Seq(S) /\ Len(b) = Len(g)
        /\ \A i \in 1..Len(g) : b[i] = IF i = n + 1 THEN c ELSE g[i]
    BY <1>1, <2>3, ExceptSeq
  <2> HIDE DEF b
  <2>5. /\ m \in Seq(Seq(S)) /\ Len(m) = L + 1 /\ m[L + 1] = b
        /\ \A u \in 1..L : m[u] = M[u]
    BY <1>0, <1>1, <2>4, AppendProperties
  <2> HIDE DEF m, S
  <2>6. \A i \in 1..n : m[L + 1][i] = M[v][i]
    <3> SUFFICES ASSUME NEW i \in 1..n PROVE b[i] = M[v][i]
      BY <2>5
    <3>1. v # 0 /\ a = M[v]
      BY <1>1, <1>2
    <3> QED BY <1>1, <2>3, <2>4, <3>1
  <2>7. \A u \in 1..L : \A i \in 1..Len(M[u]) : ~(u = v /\ i = n + 1)
    <3> SUFFICES ASSUME NEW u \in 1..L, NEW i \in 1..Len(M[u]), u = v, i = n + 1 PROVE FALSE
      OBVIOUS
    <3>1. a = M[u]
      BY <1>1, <1>2
    <3> QED BY <1>1, <1>2, <2>1, <3>1
  <2>8. L + 1 \in 1..Len(m) /\ Len(m) >= L /\ n + 1 <= Len(m[L + 1]) /\ m[L + 1][n + 1] = c
    BY <1>1, <2>3, <2>4, <2>5
  <2>9. Extended(M, v, n, m, L + 1, c)
    BY <1>0, <2>5, <2>6, <2>7, <2>8, SMTT(40) DEF Extended
  <2>10. m \in Memory /\ L + 1 \in Nat
    BY <1>1, <2>5 DEF Memory, S
  <2> QED BY <1>3, <2>2, <2>9, <2>10
<1> QED BY <1>4, <1>5

\* A removal of c from the first n elements of the array v overwrites c by the
\* last of them: it turns the arrays M into m, and the slice into the first l
\* elements of the array w, with no array when nothing is left.
Shrunk(M, v, n, m, w, l, c) ==
  \/ m = M /\ w = v /\ l = n /\ \A i \in 1..n : M[v][i] # c
  \/ \E x \in 1..n :
       /\ v \in 1..Len(M) /\ M[v][x] = c
       /\ Len(m) = Len(M)
       /\ \A u \in 1..Len(M) : Len(m[u]) = Len(M[u])
       /\ \A u \in 1..Len(M) : \A i \in 1..Len(M[u]) :
            m[u][i] = IF u = v /\ i = x THEN M[v][n] ELSE M[u][i]
       /\ l = n - 1
       /\ w = IF n = 1 THEN 0 ELSE v

Removed(keys, c) ==
  /\ mem' \in [Key -> Memory] /\ subs' \in [Key -> Slice]
  /\ \A q \in Key \ keys : mem'[q] = mem[q] /\ subs'[q] = subs[q]
  /\ \A k \in keys : Shrunk(mem[k], subs[k].v, subs[k].n, mem'[k], subs'[k].v, subs'[k].n, c)

LEMMA RemoveWrites ==
  ASSUME TypeOK, MapsAgree, NEW keys \in SUBSET Key, NEW c, RemoveConnFromMap(keys, c)
  PROVE  Removed(keys, c)
<1> DEFINE S == Client \cup {None}
<1>1. /\ mem \in [Key -> Memory] /\ subs \in [Key -> Slice]
      /\ \A k \in Key : subs[k].v \in 0..Len(mem[k]) /\ subs[k].n <= Len(Array(k))
  BY DEF TypeOK, Memory
<1>2. \A q \in Key \ keys : mem'[q] = mem[q] /\ subs'[q] = subs[q]
  BY DEF RemoveConnFromMap
<1>3. ASSUME NEW k \in keys
      PROVE  /\ mem'[k] \in Memory /\ subs'[k] \in Slice
             /\ Shrunk(mem[k], subs[k].v, subs[k].n, mem'[k], subs'[k].v, subs'[k].n, c)
  <2>0. PICK n, v, M, L : n = subs[k].n /\ v = subs[k].v /\ M = mem[k] /\ L = Len(M)
    OBVIOUS
  <2>1. k \in Key /\ n \in Nat /\ v \in 0..L /\ M \in Memory /\ L \in Nat /\ subs[k] \in Slice
    BY <1>1, <2>0 DEF Slice, Memory
  <2>2. CASE v = 0
    <3>1. n = 0
      BY <2>0, <2>1, <2>2 DEF MapsAgree
    <3>2. mem'[k] = mem[k] /\ subs'[k] = subs[k]
      BY <2>0, <2>1, <2>2 DEF RemoveConnFromMap
    <3>3. \A i \in 1..n : M[v][i] # c
      BY <3>1
    <3> QED BY <2>0, <2>1, <3>2, <3>3 DEF Shrunk
  <2>3. CASE v # 0
    <3>0. PICK a : a = M[v]
      OBVIOUS
    <3>1. v \in 1..L /\ Array(k) = a /\ a \in Seq(S) /\ n \in 0..Len(a) /\ Len(a) \in Nat
      <4>1. v \in 1..L
        BY <2>1, <2>3
      <4>2. Array(k) = a
        BY <2>0, <2>3, <3>0 DEF Array
      <4>3. a \in Seq(S) /\ Len(a) \in Nat
        BY <2>0, <2>1, <3>0, <4>1 DEF Memory
      <4> QED BY <1>1, <2>0, <2>1, <4>1, <4>2, <4>3
    <3>2. n # 0
      BY <2>0, <2>1, <2>3 DEF MapsAgree
    <3>3. \A i, j \in 1..n : a[i] = a[j] => i = j
      BY <2>0, <2>1, <3>0 DEF MapsAgree, List
    <3>4. PICK sw : sw = Sweep(a, n, c)
      OBVIOUS
    <3>5. /\ mem'[k] = [M EXCEPT ![v] = sw.arr]
          /\ subs'[k] = IF sw.n = 0 THEN Absent ELSE [subs[k] EXCEPT !.n = sw.n]
      BY <2>0, <2>1, <2>3, <3>1, <3>4 DEF RemoveConnFromMap, Swept
    <3>6. CASE (\A i \in 1..n : a[i] # c) /\ sw = [arr |-> a, n |-> n]
      <4>1. sw.arr = a /\ sw.n = n
        BY <2>1, <3>2, <3>6
      <4>2. mem'[k] = M
        BY <2>1, <3>0, <3>1, <3>5, <4>1 DEF Memory
      <4>3. subs'[k] = subs[k]
        BY <2>0, <2>1, <3>2, <3>5, <4>1 DEF Slice
      <4> QED BY <2>0, <2>1, <3>0, <3>6, <4>2, <4>3 DEF Shrunk
    <3>7. ASSUME NEW x \in 1..n, a[x] = c, sw = [arr |-> [a EXCEPT ![x] = a[n]], n |-> n - 1]
          PROVE  /\ mem'[k] \in Memory /\ subs'[k] \in Slice
                 /\ Shrunk(M, v, n, mem'[k], subs'[k].v, subs'[k].n, c)
      <4> DEFINE b == [a EXCEPT ![x] = a[n]]
                 m == [M EXCEPT ![v] = b]
      <4>1. sw.arr = b /\ sw.n = n - 1
        BY <3>7
      <4>2. x \in 1..Len(a) /\ n \in 1..Len(a) /\ a[n] \in S
        BY <2>1, <3>1, <3>2
      <4>3. /\ b \in Seq(S) /\ Len(b) = Len(a)
            /\ \A i \in 1..Len(a) : b[i] = IF i = x THEN a[n] ELSE a[i]
        BY <3>1, <4>2, ExceptSeq
      <4> HIDE DEF b
      <4>4. /\ m \in Memory /\ Len(m) = L
            /\ \A u \in 1..L : m[u] = IF u = v THEN b ELSE M[u]
        BY <2>0, <2>1, <3>1, <4>3, ExceptSeq DEF Memory
      <4> HIDE DEF m, S
      <4>5. mem'[k] = m
        BY <3>5, <4>1 DEF m
      <4>6. subs'[k] \in Slice /\ subs'[k].n = n - 1 /\ subs'[k].v = IF n = 1 THEN 0 ELSE v
        BY <2>0, <2>1, <3>2, <3>5, <4>1 DEF Slice, Absent
      <4>7. \A u \in 1..L : Len(m[u]) = Len(M[u])
        BY <3>0, <4>3, <4>4
      <4>8. \A u \in 1..L : \A i \in 1..Len(M[u]) :
              m[u][i] = IF u = v /\ i = x THEN M[v][n] ELSE M[u][i]
        BY <3>0, <4>3, <4>4
      <4>9. PICK w, l : w = subs'[k].v /\ l = subs'[k].n
        OBVIOUS
      <4>10. /\ v \in 1..Len(M) /\ M[v][x] = c /\ Len(m) = Len(M)
             /\ l = n - 1 /\ w = IF n = 1 THEN 0 ELSE v
        BY <2>0, <3>0, <3>1, <3>7, <4>4, <4>6, <4>9
      <4>11. Shrunk(M, v, n, m, w, l, c)
        BY <2>0, <4>7, <4>8, <4>10 DEF Shrunk
      <4> QED BY <4>4, <4>5, <4>6, <4>9, <4>11
    <3>8. \/ (\A i \in 1..n : a[i] # c) /\ sw = [arr |-> a, n |-> n]
          \/ \E x \in 1..n : a[x] = c /\ sw = [arr |-> [a EXCEPT ![x] = a[n]], n |-> n - 1]
      BY <3>1, <3>3, <3>4, SweepRemoves
    <3> QED BY <2>0, <3>6, <3>7, <3>8
  <2> QED BY <2>2, <2>3
<1>4. \A k \in Key : mem'[k] \in Memory /\ subs'[k] \in Slice
  BY <1>1, <1>2, <1>3
<1>5. mem' \in [Key -> Memory] /\ subs' \in [Key -> Slice]
  BY <1>4 DEF RemoveConnFromMap
<1> QED BY <1>2, <1>3, <1>5 DEF Removed

-----------------------------------------------------------------------------
(* What that means for the lists and for the windows on them *)

LEMMA ExtendLists ==
  ASSUME NEW M \in Memory, NEW m \in Memory, NEW v \in Nat, NEW n, NEW w \in Nat, NEW C, NEW c,
         c \notin C, Lists(M, v, n, C), Extended(M, v, n, m, w, c)
  PROVE  Lists(m, w, n + 1, C \cup {c})
<1>1. /\ n \in Nat /\ w \in 1..Len(m) /\ n + 1 <= Len(m[w]) /\ m[w][n + 1] = c
      /\ \A i \in 1..n : m[w][i] = M[v][i] /\ M[v][i] \in C
      /\ \A d \in C : \E i \in 1..n : M[v][i] = d
      /\ \A i, j \in 1..n : M[v][i] = M[v][j] => i = j
  BY DEF Lists, Extended
<1>2. PICK a : a = m[w]
  OBVIOUS
<1>3. \A i \in 1..(n + 1) : IF i = n + 1 THEN a[i] = c ELSE i \in 1..n /\ a[i] = M[v][i]
  BY <1>1, <1>2
<1>4. \A i \in 1..(n + 1) : a[i] \in C \cup {c}
  BY <1>1, <1>3
<1>5. \A d \in C \cup {c} : \E i \in 1..(n + 1) : a[i] = d
  <2>1. a[n + 1] = c /\ n + 1 \in 1..(n + 1)
    BY <1>1, <1>2
  <2>2. ASSUME NEW d \in C PROVE \E i \in 1..(n + 1) : a[i] = d
    <3>1. PICK i \in 1..n : M[v][i] = d
      BY <1>1
    <3>2. i \in 1..(n + 1) /\ a[i] = d
      BY <1>1, <1>2, <3>1
    <3> QED BY <3>2
  <2> QED BY <2>1, <2>2
<1>6. ASSUME NEW i \in 1..(n + 1), NEW j \in 1..(n + 1), a[i] = a[j] PROVE i = j
  <2>1. CASE i \in 1..n /\ j \in 1..n
    BY <1>1, <1>2, <1>6, <2>1
  <2>2. CASE i = n + 1 /\ j # n + 1
    BY <1>1, <1>3, <1>6, <2>2
  <2>3. CASE i # n + 1 /\ j = n + 1
    BY <1>1, <1>3, <1>6, <2>3
  <2> QED BY <1>1, <2>1, <2>2, <2>3
<1>7. n + 1 \in Nat /\ n + 1 # 0 /\ w # 0
  BY <1>1
<1> QED BY <1>1, <1>2, <1>4, <1>5, <1>6, <1>7 DEF Lists

LEMMA ShrinkLists ==
  ASSUME NEW M \in Memory, NEW m \in Memory, NEW v \in Nat, NEW n, NEW w \in Nat, NEW l, NEW C,
         NEW c, Lists(M, v, n, C), Shrunk(M, v, n, m, w, l, c)
  PROVE  Lists(m, w, l, C \ {c})
<1>1. /\ n \in Nat /\ (n = 0 <=> v = 0)
      /\ n > 0 => v \in 1..Len(M) /\ n <= Len(M[v])
      /\ \A i \in 1..n : M[v][i] \in C
      /\ \A d \in C : \E i \in 1..n : M[v][i] = d
      /\ \A i, j \in 1..n : M[v][i] = M[v][j] => i = j
  BY DEF Lists
<1>2. CASE m = M /\ w = v /\ l = n /\ \A i \in 1..n : M[v][i] # c
  <2>1. c \notin C
    BY <1>1, <1>2
  <2>2. C \ {c} = C
    BY <2>1
  <2> QED BY <1>2, <2>2
<1>3. ASSUME NEW x \in 1..n, v \in 1..Len(M), M[v][x] = c,
             Len(m) = Len(M),
             \A u \in 1..Len(M) : Len(m[u]) = Len(M[u]),
             \A u \in 1..Len(M) : \A i \in 1..Len(M[u]) :
               m[u][i] = IF u = v /\ i = x THEN M[v][n] ELSE M[u][i],
             l = n - 1, w = IF n = 1 THEN 0 ELSE v
      PROVE  Lists(m, w, l, C \ {c})
  <2>1. n \in 1..Len(M[v]) /\ Len(M[v]) \in Nat /\ l \in Nat
    BY <1>1, <1>3 DEF Memory
  <2>2. PICK a, b : a = M[v] /\ b = m[v]
    OBVIOUS
  <2>3. /\ \A i \in 1..n : b[i] = IF i = x THEN a[n] ELSE a[i]
        /\ Len(b) = Len(a) /\ n <= Len(a)
    BY <1>3, <2>1, <2>2
  <2>4. /\ \A i, j \in 1..n : a[i] = a[j] => i = j
        /\ \A i \in 1..n : a[i] \in C
        /\ \A d \in C : \E i \in 1..n : a[i] = d
        /\ a[x] = c
    BY <1>1, <1>3, <2>2
  <2>5. ASSUME NEW i \in 1..l PROVE b[i] \in C \ {c}
    <3>1. i \in 1..n /\ n \in 1..n /\ i # n
      BY <1>1, <1>3, <2>1
    <3>2. CASE i = x
      <4>1. b[i] = a[n] /\ n # x
        BY <2>3, <3>1, <3>2
      <4> QED BY <2>4, <3>1, <4>1
    <3>3. CASE i # x
      <4>1. b[i] = a[i]
        BY <2>3, <3>1, <3>3
      <4> QED BY <2>4, <3>1, <3>3, <4>1
    <3> QED BY <3>2, <3>3
  <2>6. ASSUME NEW d \in C \ {c} PROVE \E i \in 1..l : b[i] = d
    <3>1. PICK i \in 1..n : a[i] = d
      BY <2>4
    <3>2. i # x /\ b[i] = d
      BY <2>3, <2>4, <3>1
    <3>3. CASE i = n
      <4>1. b[x] = d /\ x \in 1..l
        BY <1>1, <1>3, <2>3, <3>1, <3>2, <3>3
      <4> QED BY <4>1
    <3>4. CASE i # n
      BY <1>1, <1>3, <3>2, <3>4
    <3> QED BY <3>3, <3>4
  <2>7. ASSUME NEW i \in 1..l, NEW j \in 1..l, b[i] = b[j] PROVE i = j
    <3>1. i \in 1..n /\ j \in 1..n /\ n \in 1..n /\ i # n /\ j # n
      BY <1>1, <1>3, <2>1
    <3>2. /\ b[i] = IF i = x THEN a[n] ELSE a[i]
          /\ b[j] = IF j = x THEN a[n] ELSE a[j]
      BY <2>3, <3>1
    <3> QED BY <2>4, <2>7, <3>1, <3>2
  <2>8. CASE n = 1
    <3>1. l = 0 /\ w = 0 /\ 1..l = {}
      BY <1>3, <2>8
    <3> QED BY <2>5, <2>6, <3>1 DEF Lists
  <2>9. CASE n # 1
    <3>1. l # 0 /\ w = v /\ w # 0 /\ m[w] = b /\ w \in 1..Len(m) /\ l <= Len(b)
      BY <1>1, <1>3, <2>1, <2>2, <2>3, <2>9
    <3> QED BY <2>1, <2>5, <2>6, <2>7, <3>1 DEF Lists
  <2> QED BY <2>8, <2>9
<1> QED BY <1>2, <1>3 DEF Shrunk

LEMMA ExtendHolds ==
  ASSUME NEW M \in Memory, NEW m \in Memory, NEW v, NEW n, NEW w, NEW c, NEW V, NEW N \in Nat,
         NEW C, NEW D, C \subseteq D, c \in D,
         Holds(M, V, N, C), Extended(M, v, n, m, w, c)
  PROVE  Holds(m, V, N, D)
<1>1. /\ Len(M) \in Nat /\ Len(m) \in Nat /\ Len(m) >= Len(M)
      /\ \A u \in 1..Len(M) : Len(M[u]) \in Nat /\ Len(m[u]) = Len(M[u])
      /\ \A u \in 1..Len(M) : \A i \in 1..Len(M[u]) :
           m[u][i] = IF u = v /\ i = n + 1 THEN c ELSE M[u][i]
  BY SMTT(40) DEF Extended, Memory
<1>2. /\ N > 0 => V \in 1..Len(M) /\ N <= Len(M[V])
      /\ \A j \in 1..N : M[V][j] \in C
  BY DEF Holds
<1>3. N > 0 => V \in 1..Len(m) /\ N <= Len(m[V])
  BY <1>1, <1>2
<1>4. ASSUME NEW j \in 1..N PROVE m[V][j] \in D
  <2>1. V \in 1..Len(M) /\ j \in 1..Len(M[V]) /\ M[V][j] \in C
    BY <1>1, <1>2
  <2>2. m[V][j] = IF V = v /\ j = n + 1 THEN c ELSE M[V][j]
    BY <1>1, <2>1
  <2> QED BY <2>1, <2>2
<1> QED BY <1>3, <1>4 DEF Holds

\* The window v, n is the same in the arrays m as in M, but for members of E.
Kept(M, m, v, n, E) == \A j \in 1..n : M[v][j] \notin E => m[v][j] = M[v][j]

LEMMA ExtendKeeps ==
  ASSUME NEW M \in Memory, NEW m, NEW v, NEW n \in Nat, NEW w, NEW c, NEW V, NEW N \in Nat, NEW C,
         Holds(M, V, N, C), Extended(M, v, n, m, w, c), V = v => N <= n
  PROVE  Kept(M, m, V, N, {})
<1> SUFFICES ASSUME NEW j \in 1..N PROVE m[V][j] = M[V][j]
  BY DEF Kept
<1>1. V \in 1..Len(M) /\ N <= Len(M[V])
  BY DEF Holds
<1>2. j \in 1..Len(M[V]) /\ ~(V = v /\ j = n + 1)
  BY <1>1 DEF Memory
<1> QED BY <1>1, <1>2 DEF Extended

LEMMA ShrinkHolds ==
  ASSUME NEW M \in Memory, NEW m \in Memory, NEW v, NEW n, NEW w, NEW l, NEW c, NEW V,
         NEW N \in Nat, NEW C, NEW B, NEW D, B \subseteq D, C \subseteq D,
         Lists(M, v, n, B), Holds(M, V, N, C), Shrunk(M, v, n, m, w, l, c)
  PROVE  Holds(m, V, N, D)
<1>1. /\ N > 0 => V \in 1..Len(M) /\ N <= Len(M[V])
      /\ \A j \in 1..N : M[V][j] \in C
  BY DEF Holds
<1>2. CASE m = M
  BY <1>1, <1>2 DEF Holds
<1>3. ASSUME NEW x \in 1..n,
             Len(m) = Len(M),
             \A u \in 1..Len(M) : Len(m[u]) = Len(M[u]),
             \A u \in 1..Len(M) : \A i \in 1..Len(M[u]) :
               m[u][i] = IF u = v /\ i = x THEN M[v][n] ELSE M[u][i]
      PROVE  Holds(m, V, N, D)
  <2>1. M[v][n] \in B
    BY <1>3 DEF Lists
  <2>2. N > 0 => V \in 1..Len(m) /\ N <= Len(m[V])
    BY <1>1, <1>3
  <2>3. ASSUME NEW j \in 1..N PROVE m[V][j] \in D
    <3>1. V \in 1..Len(M) /\ j \in 1..Len(M[V]) /\ M[V][j] \in C
      BY <1>1 DEF Memory
    <3>2. m[V][j] = IF V = v /\ j = x THEN M[v][n] ELSE M[V][j]
      BY <1>3, <3>1
    <3> QED BY <2>1, <3>1, <3>2
  <2> QED BY <2>2, <2>3 DEF Holds
<1> QED BY <1>2, <1>3 DEF Shrunk

LEMMA ShrinkKeeps ==
  ASSUME NEW M \in Memory, NEW m, NEW v, NEW n, NEW w, NEW l, NEW c, NEW V, NEW N \in Nat, NEW C,
         Holds(M, V, N, C), Shrunk(M, v, n, m, w, l, c)
  PROVE  Kept(M, m, V, N, {c})
<1> SUFFICES ASSUME NEW j \in 1..N, M[V][j] # c PROVE m[V][j] = M[V][j]
  BY DEF Kept
<1>1. V \in 1..Len(M) /\ N <= Len(M[V])
  BY DEF Holds
<1>2. j \in 1..Len(M[V])
  BY <1>1 DEF Memory
<1>3. CASE m = M
  BY <1>3
<1>4. ASSUME NEW x, M[v][x] = c,
             \A u \in 1..Len(M) : \A i \in 1..Len(M[u]) :
               m[u][i] = IF u = v /\ i = x THEN M[v][n] ELSE M[u][i]
      PROVE  m[V][j] = M[V][j]
  BY <1>1, <1>2, <1>4
<1> QED BY <1>3, <1>4 DEF Shrunk

-----------------------------------------------------------------------------
(* The invariant implies the properties *)

LEMMA InvTypeOK ==
  ASSUME IInv
  PROVE  TypeOK
<1>1. /\ MapsInv /\ pub \in [Publish -> Call]
      /\ mem \in [Key -> Memory] /\ subs \in [Key -> Slice]
  BY DEF IInv, MapsInv
<1>2. ASSUME NEW k \in Key
      PROVE  subs[k].v \in 0..Len(mem[k]) /\ subs[k].n <= Len(Array(k))
  <2>1. PICK n, v, M : n = subs[k].n /\ v = subs[k].v /\ M = mem[k]
    OBVIOUS
  <2>2. n \in Nat /\ v \in Nat /\ M \in Memory /\ Len(M) \in Nat
    BY <1>1, <2>1 DEF Slice, Memory
  <2>3. (n = 0 <=> v = 0) /\ (n > 0 => v \in 1..Len(M) /\ n <= Len(M[v]))
    BY <1>1, <2>1 DEF MapsInv, Lists
  <2>4. CASE n = 0
    BY <2>1, <2>2, <2>3, <2>4 DEF Array
  <2>5. CASE n # 0
    BY <2>1, <2>2, <2>3, <2>5 DEF Array
  <2> QED BY <2>4, <2>5
<1>3. ASSUME NEW p \in Publish
      PROVE  /\ pub[p].at \in Reading \cup {"idle", "send", "done"}
             /\ pub[p].set \subseteq Client
             /\ pub[p].owed \subseteq Client
             /\ pub[p].i \in 1..(pub[p].win.n + 1)
  <2>1. pub[p] \in Call /\ CallInv(p, pub[p])
    BY <1>1 DEF IInv
  <2> QED BY <2>1 DEF Call, CallInv
<1> QED BY <1>1, <1>2, <1>3 DEF TypeOK, MapsInv, Memory

LEMMA InvMaps ==
  ASSUME IInv
  PROVE  MapsAgree
<1> SUFFICES ASSUME NEW k \in Key
             PROVE  /\ {List(k)[i] : i \in 1..subs[k].n} = {c \in Client : Listed(c, k)}
                    /\ \A i, j \in 1..subs[k].n : List(k)[i] = List(k)[j] => i = j
                    /\ subs[k].n = 0 <=> subs[k].v = 0
  BY DEF MapsAgree
<1>1. PICK n, v, M, C : n = subs[k].n /\ v = subs[k].v /\ M = mem[k] /\ C = {c \in Client : Listed(c, k)}
  OBVIOUS
<1>2. Lists(M, v, n, C)
  BY <1>1 DEF IInv, MapsInv
<1>3. \A i \in 1..n : List(k)[i] = M[v][i]
  BY <1>1 DEF List
<1>4. {List(k)[i] : i \in 1..n} = C
  BY <1>2, <1>3 DEF Lists
<1>5. /\ \A i, j \in 1..n : List(k)[i] = List(k)[j] => i = j
      /\ n = 0 <=> v = 0
  BY <1>2, <1>3 DEF Lists
<1> QED BY <1>1, <1>4, <1>5

LEMMA InvStranger ==
  ASSUME IInv
  PROVE  NoStranger
BY DEF IInv, CallInv, Known, NoStranger

LEMMA InvStable ==
  ASSUME IInv
  PROVE  StableDelivery
<1> SUFFICES ASSUME NEW p \in Publish, pub[p].at \in {"send", "done"}, ~pub[p].reused,
                    NEW c \in pub[p].owed
             PROVE  c \in pub[p].set
  BY DEF StableDelivery
<1>1. Covered(p, pub[p])
  BY DEF IInv, CallInv
<1>2. ~Ahead(p, pub[p], c)
  BY DEF Ahead, Ranging
<1> QED BY <1>1, <1>2 DEF Covered

-----------------------------------------------------------------------------
(* The invariant is inductive *)

\* The calls can be looked at one by one, each as the record it becomes.
LEMMA CallByCall ==
  ASSUME MapsInv', pub' \in [Publish -> Call],
         \A p \in Publish : \A r \in Call : pub'[p] = r => CallInv(p, r)'
  PROVE  IInv'
<1> SUFFICES ASSUME NEW p \in Publish
             PROVE  CallInv(p, pub[p])'
  BY DEF IInv
<1>1. PICK r \in Call : pub'[p] = r
  OBVIOUS
<1>2. CallInv(p, r)'
  BY <1>1
<1>3. WindowOK(p, pub[p])'
  BY <1>1, <1>2 DEF CallInv, WindowOK, Ranging
<1>4. PastGone(pub[p])' /\ Known(p, pub[p])' /\ OwedUp(pub[p])' /\ (pub[p].i \in 1..(pub[p].win.n + 1))'
  BY <1>1, <1>2 DEF CallInv, PastGone, Known, OwedUp
<1>5. LiveWindow(pub[p])'
  BY <1>1, <1>2 DEF CallInv, LiveWindow, Ranging
<1>6. Covered(p, pub[p])'
  BY <1>1, <1>2 DEF CallInv, Covered, Ahead, Ranging
<1> QED BY <1>3, <1>4, <1>5, <1>6 DEF CallInv

\* A step of one call disturbs neither the maps nor the other calls.
LEMMA CallStep ==
  ASSUME IInv, NEW p \in Publish, NEW r \in Call, CallInv(p, r), Set(p, r),
         UNCHANGED <<conn, subscribes, mem, subs>>
  PROVE  IInv'
<1>1. pub \in [Publish -> Call] /\ \A q \in Publish : CallInv(q, pub[q])
  BY DEF IInv
<1>2. MapsInv'
  BY DEF IInv, MapsInv, Listed
<1>3. pub' \in [Publish -> Call]
  BY <1>1 DEF Set
<1>4. ASSUME NEW q \in Publish, NEW s \in Call, pub'[q] = s PROVE CallInv(q, s)'
  <2>1. CallInv(q, s)
    BY <1>1, <1>4 DEF Set
  <2>2. WindowOK(q, s)' /\ LiveWindow(s)'
    BY <2>1 DEF CallInv, WindowOK, LiveWindow
  <2>3. Covered(q, s)'
    BY <2>1 DEF CallInv, Covered, Ahead
  <2> QED BY <2>1, <2>2, <2>3 DEF CallInv, PastGone, Known, OwedUp
<1> QED BY <1>2, <1>3, <1>4, CallByCall

LEMMA InitIInv == Init => IInv
<1> SUFFICES ASSUME Init PROVE IInv
  OBVIOUS
<1>1. MapsInv
  <2>1. <<>> \in Memory /\ Absent \in Slice
    BY DEF Memory, Slice, Absent
  <2>2. ASSUME NEW k \in Key
        PROVE  Lists(mem[k], subs[k].v, subs[k].n, {c \in Client : Listed(c, k)})
    <3>1. subs[k].v = 0 /\ subs[k].n = 0
      BY DEF Init, Absent
    <3>2. {c \in Client : Listed(c, k)} = {}
      BY DEF Init, Listed
    <3> QED BY <3>1, <3>2 DEF Lists
  <2> QED BY <2>1, <2>2 DEF MapsInv, Init
<1>2. Idle \in Call
  BY DEF Idle, Call, Absent, Slice, Reading
<1>3. ASSUME NEW p \in Publish PROVE CallInv(p, pub[p])
  <2>1. pub[p] = Idle
    BY DEF Init
  <2>2. CallInv(p, Idle)
    BY DEF CallInv, Idle, Absent, WindowOK, Ranging, PastGone, Known, OwedUp, LiveWindow, Covered
  <2> QED BY <2>1, <2>2
<1> QED BY <1>1, <1>2, <1>3 DEF IInv, Init

\* Which keys a publish is for.
LEMMA WantedKeys ==
  ASSUME NEW p \in Publish
  PROVE  /\ Wanted(p) \subseteq Key
         /\ \A k \in Wanted(p) : IF k \in Glob THEN k \in Match[p] ELSE k \in Exact /\ k = Event[p]
         /\ Match[p] \subseteq Wanted(p) /\ Match[p] \subseteq Glob
         /\ Event[p] \in Exact => Event[p] \in Wanted(p)
BY ConstAssumption DEF Wanted, Exact

\* A client that is up is in the slice of every key it subscribed to.
LEMMA UpIsListed ==
  ASSUME IInv, NEW c \in Client, conn[c] = "up", NEW k \in subscribes[c]
  PROVE  /\ k \in Key /\ subs[k].v # 0
         /\ \E j \in 1..subs[k].n : mem[k][subs[k].v][j] = c
<1>1. k \in Key /\ Lists(mem[k], subs[k].v, subs[k].n, {d \in Client : Listed(d, k)})
  BY DEF IInv, MapsInv
<1>2. c \in {d \in Client : Listed(d, k)}
  BY DEF Listed
<1>3. PICK j \in 1..subs[k].n : mem[k][subs[k].v][j] = c
  BY <1>1, <1>2 DEF Lists
<1>4. subs[k].n # 0
  BY <1>3
<1> QED BY <1>1, <1>3, <1>4 DEF Lists

\* The slice of a key is a window in order.
LEMMA FreshWindow ==
  ASSUME IInv, NEW k \in Key, NEW past, \A c \in past : conn[c] = "gone"
  PROVE  Holds(mem[k], subs[k].v, subs[k].n, {c \in Client : k \in subscribes[c] /\ c \notin past})
<1>1. Lists(mem[k], subs[k].v, subs[k].n, {d \in Client : Listed(d, k)})
  BY DEF IInv, MapsInv
<1>2. {d \in Client : Listed(d, k)} \subseteq {c \in Client : k \in subscribes[c] /\ c \notin past}
  BY DEF Listed
<1> QED BY <1>1, <1>2 DEF Lists, Holds

LEMMA BeginInv ==
  ASSUME IInv, NEW p \in Publish, Begin(p)
  PROVE  IInv'
<1> DEFINE up == {c \in Client : conn[c] = "up" /\ subscribes[c] \cap Wanted(p) # {}}
           past == {c \in Client : conn[c] = "gone"}
           r == [Idle EXCEPT !.at = "glob", !.must = Present, !.owed = up, !.past = past]
<1>1. /\ r.at = "glob" /\ r.must = Present /\ r.seen = {} /\ r.i = 1 /\ r.win.n = 0
      /\ r.set = {} /\ r.owed = up /\ r.past = past /\ r \in Call
  BY ConstAssumption DEF Idle, Call, Absent, Slice, Reading, Present
<1>2. Set(p, r) /\ UNCHANGED <<conn, subscribes, mem, subs>>
  BY DEF Begin
<1> HIDE DEF r
<1>3. Covered(p, r)
  <2> SUFFICES ASSUME NEW c \in r.owed PROVE Ahead(p, r, c)
    BY DEF Covered
  <2>1. c \in Client /\ conn[c] = "up"
    BY <1>1
  <2>2. PICK k \in subscribes[c] \cap Wanted(p) : TRUE
    BY <1>1
  <2>3. k \in Key /\ subs[k].v # 0
    BY <2>1, <2>2, UpIsListed
  <2>4. k \in Exact \/ k \in r.must \ r.seen
    BY <1>1, <2>3 DEF Exact, Present
  <2> QED BY <1>1, <2>2, <2>4 DEF Ahead
<1>4. CallInv(p, r)
  BY <1>1, <1>3 DEF CallInv, WindowOK, Ranging, PastGone, Known, OwedUp, LiveWindow
<1> QED BY <1>1, <1>2, <1>4, CallStep

LEMMA VisitGlobInv ==
  ASSUME IInv, NEW p \in Publish, NEW k \in Glob, VisitGlob(p, k)
  PROVE  IInv'
<1>1. PICK o \in Call : o = pub[p] /\ CallInv(p, o)
  BY DEF IInv
<1>2. /\ o.at = "glob" /\ k \in Present \ o.seen /\ k \in Key /\ UNCHANGED <<conn, subscribes, mem, subs>>
      /\ subs[k] \in Slice
  BY <1>1, ConstAssumption DEF VisitGlob, IInv, MapsInv
<1>3. /\ \A c \in o.owed : c \in Client /\ conn[c] = "up"
      /\ ~o.reused => \A c \in o.owed : c \in o.set \/
           \E q \in subscribes[c] \cap Wanted(p) : q \in Exact \/ q \in o.must \ o.seen
  BY <1>1, <1>2 DEF CallInv, OwedUp, Covered, Ahead, Ranging, Call
<1>4. CASE k \in Match[p]
  <2> DEFINE r == [o EXCEPT !.at = "globlist", !.seen = @ \cup {k}, !.key = k, !.win = subs[k], !.i = 1]
  <2>1. /\ r \in Call /\ r.at = "globlist" /\ r.seen = o.seen \cup {k} /\ r.key = k
        /\ r.win = subs[k] /\ r.i = 1 /\ r.must = o.must /\ r.set = o.set /\ r.owed = o.owed
        /\ r.past = o.past /\ r.left = o.left /\ r.reused = o.reused
    BY <1>2 DEF Call, Reading
  <2>2. Set(p, r)
    BY <1>1, <1>4 DEF VisitGlob
  <2> HIDE DEF r
  <2>3. WindowOK(p, r)
    <3>1. k \in Wanted(p)
      BY <1>4, WantedKeys
    <3>2. \A c \in r.past : conn[c] = "gone"
      BY <1>1, <2>1 DEF CallInv, PastGone
    <3> QED BY <1>2, <2>1, <3>1, <3>2, FreshWindow DEF WindowOK
  <2>4. Covered(p, r)
    <3> SUFFICES ASSUME ~o.reused, NEW c \in o.owed, c \notin o.set PROVE Ahead(p, r, c)
      BY <2>1 DEF Covered
    <3>1. PICK q \in subscribes[c] \cap Wanted(p) : q \in Exact \/ q \in o.must \ o.seen
      BY <1>3
    <3>2. CASE q = k
      <4>1. \E j \in 1..subs[k].n : mem[k][subs[k].v][j] = c
        BY <1>3, <3>1, <3>2, UpIsListed
      <4> QED BY <2>1, <4>1 DEF Ahead, Ranging
    <3>3. CASE q # k
      BY <2>1, <3>1, <3>3 DEF Ahead
    <3> QED BY <3>2, <3>3
  <2>5. r.i \in 1..(r.win.n + 1)
    BY <1>2, <2>1 DEF Slice
  <2>6. LiveWindow(r)
    BY <1>2, <2>1 DEF LiveWindow, Slice
  <2>7. CallInv(p, r)
    BY <1>1, <2>1, <2>3, <2>4, <2>5, <2>6 DEF CallInv, PastGone, Known, OwedUp
  <2> QED BY <1>2, <2>1, <2>2, <2>7, CallStep
<1>5. CASE k \notin Match[p]
  <2> DEFINE r == [o EXCEPT !.seen = @ \cup {k}]
  <2>1. /\ r \in Call /\ r.at = "glob" /\ r.seen = o.seen \cup {k}
        /\ r.win = o.win /\ r.i = o.i /\ r.must = o.must /\ r.set = o.set /\ r.owed = o.owed
        /\ r.past = o.past /\ r.reused = o.reused
    BY <1>2 DEF Call
  <2>2. Set(p, r)
    BY <1>1, <1>5 DEF VisitGlob
  <2> HIDE DEF r
  <2>3. Covered(p, r)
    <3> SUFFICES ASSUME ~o.reused, NEW c \in o.owed, c \notin o.set PROVE Ahead(p, r, c)
      BY <2>1 DEF Covered
    <3>1. PICK q \in subscribes[c] \cap Wanted(p) : q \in Exact \/ q \in o.must \ o.seen
      BY <1>3
    <3>2. q # k
      BY <1>5, <3>1, WantedKeys
    <3> QED BY <2>1, <3>1, <3>2 DEF Ahead
  <2>4. CallInv(p, r)
    BY <1>1, <2>1, <2>3 DEF CallInv, WindowOK, Ranging, PastGone, Known, OwedUp, LiveWindow
  <2> QED BY <1>2, <2>1, <2>2, <2>4, CallStep
<1> QED BY <1>4, <1>5

LEMMA ReadElementInv ==
  ASSUME IInv, NEW p \in Publish, ReadElement(p)
  PROVE  IInv'
<1>1. PICK o \in Call : o = pub[p] /\ CallInv(p, o)
  BY DEF IInv
<1>2. /\ Ranging(o) /\ o.i <= o.win.n /\ UNCHANGED <<conn, subscribes, mem, subs>>
      /\ o.i \in Nat /\ o.win.n \in Nat /\ o.i \in 1..o.win.n
  BY <1>1 DEF ReadElement, Ranging, Call, Slice, CallInv
<1>3. PICK e : e = mem[o.key][o.win.v][o.i]
  OBVIOUS
<1>4. /\ e \in Client /\ o.key \in subscribes[e] /\ e \notin o.past /\ o.key \in Wanted(p)
  <2> DEFINE C == {c \in Client : o.key \in subscribes[c] /\ c \notin o.past}
  <2>1. Holds(mem[o.key], o.win.v, o.win.n, C) /\ o.key \in Wanted(p)
    BY <1>1, <1>2 DEF CallInv, WindowOK
  <2>2. e \in C
    <3> HIDE DEF C
    <3> QED BY <1>2, <1>3, <2>1 DEF Holds
  <2> QED BY <2>1, <2>2
<1> DEFINE r == [o EXCEPT !.set = @ \cup {e}, !.i = @ + 1]
<1>5. /\ r \in Call /\ r.at = o.at /\ r.seen = o.seen /\ r.key = o.key
      /\ r.win = o.win /\ r.i = o.i + 1 /\ r.must = o.must /\ r.set = o.set \cup {e} /\ r.owed = o.owed
      /\ r.past = o.past /\ r.left = o.left /\ r.reused = o.reused
  <2>1. o.set \cup {e} \in SUBSET Client /\ o.i + 1 \in Nat
    BY <1>2, <1>4 DEF Call
  <2> QED BY <2>1 DEF Call
<1>6. Set(p, r)
  BY <1>1, <1>3 DEF ReadElement
<1> HIDE DEF r
<1>7. Covered(p, r)
  <2> SUFFICES ASSUME ~o.reused, NEW c \in o.owed, c \notin o.set, c # e PROVE Ahead(p, r, c)
    BY <1>5 DEF Covered
  <2>1. Ahead(p, o, c)
    BY <1>1 DEF CallInv, Covered
  <2>2. CASE \E j \in o.i..o.win.n : mem[o.key][o.win.v][j] = c
    <3>1. PICK j \in o.i..o.win.n : mem[o.key][o.win.v][j] = c
      BY <2>2
    <3>2. j \in r.i..r.win.n
      BY <1>2, <1>3, <1>5, <3>1
    <3> QED BY <1>2, <1>5, <3>1, <3>2 DEF Ahead, Ranging
  <2>3. CASE o.at \in {"glob", "globlist"}
             /\ \E q \in subscribes[c] \cap Wanted(p) : q \in Exact \/ q \in o.must \ o.seen
    BY <1>5, <2>3 DEF Ahead
  <2> QED BY <2>1, <2>2, <2>3 DEF Ahead
<1>8. r.i \in 1..(r.win.n + 1)
  BY <1>2, <1>5
<1>9. WindowOK(p, r) /\ LiveWindow(r)
  BY <1>1, <1>5 DEF CallInv, WindowOK, LiveWindow, Ranging
<1>10. Known(p, r)
  BY <1>1, <1>4, <1>5 DEF CallInv, Known
<1>11. CallInv(p, r)
  BY <1>1, <1>5, <1>7, <1>8, <1>9, <1>10 DEF CallInv, PastGone, OwedUp
<1> QED BY <1>2, <1>5, <1>6, <1>11, CallStep

LEMMA EndGlobListInv ==
  ASSUME IInv, NEW p \in Publish, EndGlobList(p)
  PROVE  IInv'
<1>1. PICK o \in Call : o = pub[p] /\ CallInv(p, o)
  BY DEF IInv
<1>2. /\ o.at = "globlist" /\ o.i > o.win.n /\ UNCHANGED <<conn, subscribes, mem, subs>>
      /\ o.i \in Nat /\ o.win.n \in Nat
  BY <1>1 DEF EndGlobList, Call, Slice
<1> DEFINE r == [o EXCEPT !.at = "glob", !.key = None, !.win = Absent, !.i = 1]
<1>3. /\ r \in Call /\ r.at = "glob" /\ r.seen = o.seen
      /\ r.win.n = 0 /\ r.i = 1 /\ r.must = o.must /\ r.set = o.set /\ r.owed = o.owed
      /\ r.past = o.past /\ r.left = o.left /\ r.reused = o.reused
  BY DEF Call, Absent, Slice, Reading
<1>4. Set(p, r)
  BY <1>1 DEF EndGlobList
<1> HIDE DEF r
<1>5. Covered(p, r)
  <2> SUFFICES ASSUME ~o.reused, NEW c \in o.owed, c \notin o.set PROVE Ahead(p, r, c)
    BY <1>3 DEF Covered
  <2>1. Ahead(p, o, c)
    BY <1>1 DEF CallInv, Covered
  <2>2. \A j \in o.i..o.win.n : FALSE
    BY <1>2
  <2> QED BY <1>3, <2>1, <2>2 DEF Ahead
<1>6. CallInv(p, r)
  BY <1>1, <1>3, <1>5 DEF CallInv, WindowOK, Ranging, PastGone, Known, OwedUp, LiveWindow
<1> QED BY <1>2, <1>3, <1>4, <1>6, CallStep

LEMMA EndGlobInv ==
  ASSUME IInv, NEW p \in Publish, EndGlob(p)
  PROVE  IInv'
<1>1. PICK o \in Call : o = pub[p] /\ CallInv(p, o)
  BY DEF IInv
<1>2. /\ o.at = "glob" /\ o.must \cap Present \subseteq o.seen
      /\ UNCHANGED <<conn, subscribes, mem, subs>>
  BY <1>1 DEF EndGlob
<1>3. PICK e, w : e = Event[p] /\ w = IF e \in Exact THEN subs[e] ELSE Absent
  OBVIOUS
<1>4. e \in Key /\ subs[e] \in Slice /\ w \in Slice /\ Absent.n = 0
  BY <1>3, ConstAssumption DEF IInv, MapsInv, Absent, Slice
<1> DEFINE r == [o EXCEPT !.at = "exact", !.key = e, !.i = 1, !.win = w]
<1>5. /\ r \in Call /\ r.at = "exact" /\ r.seen = o.seen /\ r.key = e
      /\ r.win = w /\ r.i = 1 /\ r.must = o.must /\ r.set = o.set /\ r.owed = o.owed
      /\ r.past = o.past /\ r.left = o.left /\ r.reused = o.reused
  BY <1>4 DEF Call, Reading
<1>6. Set(p, r)
  BY <1>1, <1>3 DEF EndGlob
<1> HIDE DEF r
<1>7. WindowOK(p, r)
  <2> DEFINE C == {c \in Client : e \in subscribes[c] /\ c \notin o.past}
  <2>1. \A c \in o.past : conn[c] = "gone"
    BY <1>1 DEF CallInv, PastGone
  <2>2. Holds(mem[e], subs[e].v, subs[e].n, C)
    BY <1>4, <2>1, FreshWindow
  <2> HIDE DEF C
  <2>3. Holds(mem[e], w.v, w.n, C)
    <3>1. CASE e \in Exact
      BY <1>3, <2>2, <3>1
    <3>2. CASE e \notin Exact
      BY <1>3, <1>4, <3>2 DEF Holds
    <3> QED BY <3>1, <3>2
  <2>4. w.n > 0 => e \in Wanted(p)
    BY <1>3, <1>4, WantedKeys
  <2> QED BY <1>4, <1>5, <2>3, <2>4 DEF WindowOK, C
<1>8. Covered(p, r)
  <2> SUFFICES ASSUME ~o.reused, NEW c \in o.owed, c \notin o.set PROVE Ahead(p, r, c)
    BY <1>5 DEF Covered
  <2>1. c \in Client /\ conn[c] = "up"
    BY <1>1 DEF CallInv, OwedUp, Call
  <2>2. PICK q \in subscribes[c] \cap Wanted(p) : q \in Exact \/ q \in o.must \ o.seen
    BY <1>1, <1>2 DEF CallInv, Covered, Ahead, Ranging
  <2>3. q \in Key /\ subs[q].v # 0 /\ \E j \in 1..subs[q].n : mem[q][subs[q].v][j] = c
    BY <2>1, <2>2, UpIsListed
  <2>4. q \in Exact
    BY <1>2, <2>2, <2>3 DEF Present, Exact
  <2>5. q = e
    BY <1>3, <2>2, <2>4, WantedKeys DEF Exact
  <2> QED BY <1>3, <1>5, <2>3, <2>4, <2>5 DEF Ahead, Ranging
<1>9. LiveWindow(r)
  <2>1. CASE e \in Exact
    BY <1>3, <1>4, <1>5, <2>1 DEF LiveWindow, Slice
  <2>2. CASE e \notin Exact
    BY <1>3, <1>4, <1>5, <2>2 DEF LiveWindow, Slice
  <2> QED BY <2>1, <2>2
<1>10. r.i \in 1..(r.win.n + 1)
  BY <1>4, <1>5 DEF Slice
<1>11. CallInv(p, r)
  BY <1>1, <1>5, <1>7, <1>8, <1>9, <1>10 DEF CallInv, PastGone, Known, OwedUp
<1> QED BY <1>2, <1>5, <1>6, <1>11, CallStep

LEMMA EndExactInv ==
  ASSUME IInv, NEW p \in Publish, EndExact(p)
  PROVE  IInv'
<1>1. PICK o \in Call : o = pub[p] /\ CallInv(p, o)
  BY DEF IInv
<1>2. /\ o.at = "exact" /\ o.i > o.win.n /\ UNCHANGED <<conn, subscribes, mem, subs>>
      /\ o.i \in Nat /\ o.win.n \in Nat
  BY <1>1 DEF EndExact, Call, Slice
<1> DEFINE r == [o EXCEPT !.at = "send", !.key = None, !.win = Absent, !.i = 1]
<1>3. /\ r \in Call /\ r.at = "send" /\ r.win.n = 0 /\ r.i = 1 /\ r.set = o.set /\ r.owed = o.owed
      /\ r.past = o.past /\ r.reused = o.reused
  BY DEF Call, Absent, Slice
<1>4. Set(p, r)
  BY <1>1 DEF EndExact
<1> HIDE DEF r
<1>5. Covered(p, r)
  <2> SUFFICES ASSUME ~o.reused, NEW c \in o.owed, c \notin o.set PROVE FALSE
    BY <1>3 DEF Covered
  <2>1. Ahead(p, o, c)
    BY <1>1 DEF CallInv, Covered
  <2>2. \A j \in o.i..o.win.n : FALSE
    BY <1>2
  <2> QED BY <1>2, <2>1, <2>2 DEF Ahead
<1>6. CallInv(p, r)
  BY <1>1, <1>3, <1>5 DEF CallInv, WindowOK, Ranging, PastGone, Known, OwedUp, LiveWindow
<1> QED BY <1>2, <1>3, <1>4, <1>6, CallStep

LEMMA SendAllInv ==
  ASSUME IInv, NEW p \in Publish, SendAll(p)
  PROVE  IInv'
<1>1. PICK o \in Call : o = pub[p] /\ CallInv(p, o)
  BY DEF IInv
<1>2. o.at = "send" /\ UNCHANGED <<conn, subscribes, mem, subs>>
  BY <1>1 DEF SendAll
<1> DEFINE r == [o EXCEPT !.at = "done"]
<1>3. /\ r \in Call /\ r.at = "done" /\ r.win = o.win /\ r.i = o.i /\ r.set = o.set
      /\ r.owed = o.owed /\ r.past = o.past /\ r.reused = o.reused
  BY DEF Call
<1>4. Set(p, r)
  BY <1>1 DEF SendAll
<1> HIDE DEF r
<1>5. Covered(p, r)
  BY <1>1, <1>2, <1>3 DEF CallInv, Covered, Ahead, Ranging
<1>6. CallInv(p, r)
  BY <1>1, <1>3, <1>5 DEF CallInv, WindowOK, Ranging, PastGone, Known, OwedUp, LiveWindow
<1> QED BY <1>2, <1>3, <1>4, <1>6, CallStep

LEMMA SubscribeInv ==
  ASSUME IInv, NEW c \in Client, NEW k \in Offers[c], Subscribe(c, k)
  PROVE  IInv'
<1>1. /\ k \in Key /\ conn[c] = "up" /\ k \notin subscribes[c] /\ UNCHANGED conn
      /\ subscribes' = [subscribes EXCEPT ![c] = @ \cup {k}]
      /\ pub' = [p \in Publish |-> Subscribed(p)]
      /\ conn \in [Client -> {"up", "exact", "gone"}] /\ subscribes \in [Client -> SUBSET Key]
      /\ mem \in [Key -> Memory] /\ subs \in [Key -> Slice]
      /\ pub \in [Publish -> Call] /\ \A p \in Publish : CallInv(p, pub[p])
  BY ConstAssumption DEF Subscribe, IInv, MapsInv
<1>2. Appended(k, c)
  BY <1>1, InvTypeOK, AppendWrites DEF Subscribe
<1>3. /\ mem' \in [Key -> Memory] /\ subs' \in [Key -> Slice]
      /\ \A q \in Key \ {k} : mem'[q] = mem[q] /\ subs'[q] = subs[q]
      /\ subs'[k].n = subs[k].n + 1
      /\ Extended(mem[k], subs[k].v, subs[k].n, mem'[k], subs'[k].v, c)
      /\ subs[k].n \in Nat /\ subs[k].v \in Nat /\ subs'[k].v \in Nat
  BY <1>1, <1>2 DEF Appended, Slice
<1>4. /\ subscribes' \in [Client -> SUBSET Key] /\ k \in subscribes'[c]
      /\ \A d \in Client : subscribes[d] \subseteq subscribes'[d]
      /\ \A d \in Client, q \in Key : q \in subscribes'[d] <=> q \in subscribes[d] \/ (d = c /\ q = k)
  BY <1>1
<1>5. MapsInv'
  <2>1. ASSUME NEW q \in Key
        PROVE  Lists(mem'[q], subs'[q].v, subs'[q].n, {d \in Client : Listed(d, q)'})
    <3> DEFINE C == {d \in Client : Listed(d, q)}
               D == {d \in Client : Listed(d, q)'}
    <3>1. Lists(mem[q], subs[q].v, subs[q].n, C)
      BY DEF IInv, MapsInv
    <3>2. CASE q = k
      <4>1. c \notin C /\ D = C \cup {c}
        BY <1>1, <1>4, <3>2 DEF Listed
      <4> HIDE DEF C, D
      <4>2. mem[k] \in Memory /\ mem'[k] \in Memory
        BY <1>1, <1>3
      <4>3. Lists(mem'[k], subs'[k].v, subs[k].n + 1, C \cup {c})
        BY <1>3, <3>1, <3>2, <4>1, <4>2, ExtendLists
      <4> QED BY <1>3, <3>2, <4>1, <4>3 DEF D
    <3>3. CASE q # k
      <4>1. D = C
        BY <1>1, <1>4, <3>3 DEF Listed
      <4> QED BY <1>3, <3>1, <3>3, <4>1
    <3> QED BY <3>2, <3>3
  <2> QED BY <1>1, <1>3, <1>4, <2>1 DEF MapsInv
<1>6. ASSUME NEW p \in Publish, NEW o \in Call, o = pub[p]
      PROVE  /\ Subscribed(p) \in Call
             /\ \A r \in Call : Subscribed(p) = r => CallInv(p, r)'
  <2>1. CallInv(p, o) /\ o.left \in BOOLEAN /\ o.reused \in BOOLEAN
    BY <1>1, <1>6 DEF Call
  <2>2. Subscribed(p) = [o EXCEPT !.reused = @ \/ o.left]
    BY <1>6 DEF Subscribed
  <2>3. Subscribed(p) \in Call
    BY <2>1, <2>2 DEF Call
  <2>4. SUFFICES ASSUME NEW r \in Call, r = Subscribed(p) PROVE CallInv(p, r)'
    BY <2>3
  <2>5. /\ r.at = o.at /\ r.must = o.must /\ r.seen = o.seen /\ r.key = o.key /\ r.win = o.win
        /\ r.i = o.i /\ r.set = o.set /\ r.owed = o.owed /\ r.past = o.past /\ r.left = o.left
        /\ (r.reused <=> o.reused \/ o.left)
    BY <2>1, <2>2, <2>4 DEF Call
  <2>6. /\ r.win.n \in Nat /\ r.win.v \in Nat /\ r.i \in Nat /\ r.i \in 1..(r.win.n + 1)
        /\ r.owed \subseteq Client /\ r.set \subseteq Client /\ r.past \subseteq Client
    BY <2>1, <2>5 DEF Call, Slice, CallInv
  <2>7. PastGone(r)' /\ OwedUp(r)' /\ Known(p, r)'
    BY <1>1, <1>4, <2>1, <2>5, <2>6 DEF CallInv, PastGone, OwedUp, Known
  <2> DEFINE C == {d \in Client : r.key \in subscribes[d] /\ d \notin r.past}
             D == {d \in Client : r.key \in subscribes'[d] /\ d \notin r.past}
  <2>8. Ranging(r) =>
          /\ r.key \in Key
          /\ r.win.n > 0 => r.key \in Wanted(p)
          /\ Holds(mem[r.key], r.win.v, r.win.n, C)
    BY <2>1, <2>5 DEF CallInv, WindowOK, Ranging
  <2>9. C \subseteq D /\ (r.key = k => c \in D)
    BY <1>1, <1>4, <2>1, <2>5 DEF CallInv, PastGone
  <2> HIDE DEF C, D
  <2>10. ASSUME Ranging(r) PROVE Holds(mem'[r.key], r.win.v, r.win.n, D)
    <3>1. CASE r.key = k
      <4>1. mem[k] \in Memory /\ mem'[k] \in Memory
        BY <1>1, <1>3
      <4> QED BY <1>3, <2>6, <2>8, <2>9, <2>10, <3>1, <4>1, ExtendHolds
    <3>2. CASE r.key # k
      <4>1. mem'[r.key] = mem[r.key]
        BY <1>3, <2>8, <2>10, <3>2
      <4> QED BY <2>8, <2>9, <2>10, <4>1 DEF Holds
    <3> QED BY <3>1, <3>2
  <2>11. WindowOK(p, r)'
    BY <2>8, <2>10 DEF WindowOK, Ranging, D
  <2>12. ASSUME Ranging(r), ~r.left, r.key = k, subs[k].v = r.win.v
         PROVE  r.win.n <= subs[k].n
    BY <2>1, <2>5, <2>12 DEF CallInv, LiveWindow, Ranging
  <2>13. LiveWindow(r)'
    <3> SUFFICES ASSUME Ranging(r), ~r.left, subs'[r.key].v = r.win.v
                 PROVE  r.win.n <= subs'[r.key].n
      BY DEF LiveWindow, Ranging
    <3>1. CASE r.key = k /\ r.win.n > 0
      <4>1. r.win.v \in 1..Len(mem[k]) /\ Len(mem[k]) \in Nat
        BY <1>1, <2>8, <3>1 DEF Holds, Memory
      <4>2. subs'[k].v = subs[k].v \/ subs'[k].v = Len(mem[k]) + 1
        BY <1>3 DEF Extended
      <4>3. subs[k].v = r.win.v
        BY <3>1, <4>1, <4>2
      <4> QED BY <1>3, <2>6, <2>12, <3>1, <4>3
    <3>2. CASE r.key = k /\ ~(r.win.n > 0)
      BY <1>3, <2>6, <3>2
    <3>3. CASE r.key # k
      <4>1. subs'[r.key] = subs[r.key]
        BY <1>3, <2>8, <3>3
      <4> QED BY <2>1, <2>5, <4>1 DEF CallInv, LiveWindow, Ranging
    <3> QED BY <3>1, <3>2, <3>3
  <2>14. Covered(p, r)'
    <3> SUFFICES ASSUME ~o.reused, ~o.left, NEW d \in o.owed, d \notin o.set PROVE Ahead(p, r, d)'
      BY <2>5 DEF Covered
    <3>1. d \in Client /\ Ahead(p, o, d)
      BY <2>1, <2>5, <2>6 DEF CallInv, Covered
    <3>2. CASE o.at \in {"glob", "globlist"}
               /\ \E q \in subscribes[d] \cap Wanted(p) : q \in Exact \/ q \in o.must \ o.seen
      BY <1>4, <2>5, <3>1, <3>2 DEF Ahead
    <3>3. ASSUME Ranging(o), NEW j \in o.i..o.win.n, mem[o.key][o.win.v][j] = d
          PROVE  Ahead(p, r, d)'
      <4>1. Ranging(r) /\ j \in r.i..r.win.n /\ j \in 1..r.win.n
        BY <2>5, <2>6, <3>3 DEF Ranging
      <4>2. mem'[r.key][r.win.v][j] = mem[r.key][r.win.v][j]
        <5>1. CASE r.key = k
          <6>1. r.win.v = subs[k].v => r.win.n <= subs[k].n
            BY <2>5, <2>12, <4>1, <5>1
          <6>2. mem[k] \in Memory
            BY <1>1
          <6>3. Holds(mem[k], r.win.v, r.win.n, C)
            BY <2>8, <4>1, <5>1
          <6>4. Kept(mem[k], mem'[k], r.win.v, r.win.n, {})
            BY <1>3, <2>6, <6>1, <6>2, <6>3, ExtendKeeps
          <6> QED BY <4>1, <5>1, <6>4 DEF Kept
        <5>2. CASE r.key # k
          BY <1>3, <2>8, <4>1, <5>2
        <5> QED BY <5>1, <5>2
      <4> QED BY <2>5, <3>3, <4>1, <4>2 DEF Ahead, Ranging
    <3> QED BY <3>1, <3>2, <3>3 DEF Ahead
  <2> QED BY <2>6, <2>7, <2>11, <2>13, <2>14 DEF CallInv
<1>7. pub' \in [Publish -> Call] /\ \A p \in Publish : \A r \in Call : pub'[p] = r => CallInv(p, r)'
  BY <1>1, <1>6
<1> QED BY <1>5, <1>7, CallByCall

\* What both calls of removeConnFromMap have in common.
LEMMA RemoveInv ==
  ASSUME IInv, NEW c \in Client, NEW keys \in SUBSET Key, NEW s \in {"exact", "gone"},
         conn[c] # "gone", conn' = [conn EXCEPT ![c] = s],
         RemoveConnFromMap(keys, c), UNCHANGED subscribes,
         pub' = [p \in Publish |-> Left(p, c)],
         \A q \in Key, d \in Client : Listed(d, q)' <=> Listed(d, q) /\ ~(d = c /\ q \in keys)
  PROVE  IInv'
<1>1. /\ conn \in [Client -> {"up", "exact", "gone"}] /\ subscribes \in [Client -> SUBSET Key]
      /\ mem \in [Key -> Memory] /\ subs \in [Key -> Slice]
      /\ pub \in [Publish -> Call] /\ \A p \in Publish : CallInv(p, pub[p])
      /\ \A q \in Key : Lists(mem[q], subs[q].v, subs[q].n, {d \in Client : Listed(d, q)})
  BY DEF IInv, MapsInv
<1>2. Removed(keys, c)
  BY InvTypeOK, InvMaps, RemoveWrites
<1>3. /\ mem' \in [Key -> Memory] /\ subs' \in [Key -> Slice]
      /\ \A q \in Key \ keys : mem'[q] = mem[q] /\ subs'[q] = subs[q]
      /\ \A q \in keys : Shrunk(mem[q], subs[q].v, subs[q].n, mem'[q], subs'[q].v, subs'[q].n, c)
  BY <1>2 DEF Removed
<1>4. MapsInv'
  <2>1. ASSUME NEW q \in Key
        PROVE  Lists(mem'[q], subs'[q].v, subs'[q].n, {d \in Client : Listed(d, q)'})
    <3> DEFINE C == {d \in Client : Listed(d, q)}
               D == {d \in Client : Listed(d, q)'}
    <3>1. Lists(mem[q], subs[q].v, subs[q].n, C)
      BY <1>1
    <3>2. CASE q \in keys
      <4>1. D = C \ {c}
        BY <3>2
      <4> HIDE DEF C, D
      <4>2. mem[q] \in Memory /\ mem'[q] \in Memory /\ subs[q].v \in Nat /\ subs'[q].v \in Nat
        BY <1>1, <1>3 DEF Slice
      <4>3. Lists(mem'[q], subs'[q].v, subs'[q].n, C \ {c})
        BY <1>3, <3>1, <3>2, <4>2, ShrinkLists
      <4> QED BY <4>1, <4>3 DEF D
    <3>3. CASE q \notin keys
      <4>1. D = C
        BY <3>3
      <4> QED BY <1>3, <3>1, <3>3, <4>1
    <3> QED BY <3>2, <3>3
  <2> QED BY <1>1, <1>3, <2>1 DEF MapsInv
<1>5. ASSUME NEW p \in Publish, NEW o \in Call, o = pub[p]
      PROVE  /\ Left(p, c) \in Call
             /\ \A r \in Call : Left(p, c) = r => CallInv(p, r)'
  <2>1. CallInv(p, o) /\ o.left \in BOOLEAN
    BY <1>1, <1>5 DEF Call
  <2>2. Left(p, c) = [o EXCEPT !.owed = @ \ {c}, !.left = @ \/ o.at \in Reading]
    BY <1>5 DEF Left
  <2>3. Left(p, c) \in Call
    BY <2>1, <2>2 DEF Call
  <2>4. SUFFICES ASSUME NEW r \in Call, r = Left(p, c) PROVE CallInv(p, r)'
    BY <2>3
  <2>5. /\ r.at = o.at /\ r.must = o.must /\ r.seen = o.seen /\ r.key = o.key /\ r.win = o.win
        /\ r.i = o.i /\ r.set = o.set /\ r.owed = o.owed \ {c} /\ r.past = o.past
        /\ r.reused = o.reused /\ (r.left <=> o.left \/ o.at \in Reading)
    BY <2>1, <2>2, <2>4 DEF Call
  <2>6. /\ r.win.n \in Nat /\ r.i \in Nat /\ r.i \in 1..(r.win.n + 1)
        /\ o.owed \subseteq Client /\ r.set \subseteq Client /\ r.past \subseteq Client
    BY <2>1, <2>5 DEF Call, Slice, CallInv
  <2>7. PastGone(r)' /\ OwedUp(r)' /\ Known(p, r)' /\ c \notin r.past
    BY <1>1, <2>1, <2>5, <2>6 DEF CallInv, PastGone, OwedUp, Known
  <2> DEFINE B == {d \in Client : Listed(d, r.key)}
             C == {d \in Client : r.key \in subscribes[d] /\ d \notin r.past}
  <2>8. Ranging(r) =>
          /\ r.key \in Key
          /\ r.win.n > 0 => r.key \in Wanted(p)
          /\ Holds(mem[r.key], r.win.v, r.win.n, C)
    BY <2>1, <2>5 DEF CallInv, WindowOK, Ranging
  <2>9. B \subseteq C
    BY <2>1, <2>5 DEF CallInv, PastGone, Listed
  <2> HIDE DEF B, C
  <2>10. ASSUME Ranging(r) PROVE Holds(mem'[r.key], r.win.v, r.win.n, C)
    <3>1. CASE r.key \in keys
      <4>1. mem[r.key] \in Memory /\ mem'[r.key] \in Memory
        BY <1>1, <1>3, <3>1
      <4>2. Lists(mem[r.key], subs[r.key].v, subs[r.key].n, B)
        BY <1>1, <3>1 DEF B
      <4>3. Shrunk(mem[r.key], subs[r.key].v, subs[r.key].n, mem'[r.key], subs'[r.key].v, subs'[r.key].n, c)
        BY <1>3, <3>1
      <4> QED BY <2>6, <2>8, <2>9, <2>10, <4>1, <4>2, <4>3, ShrinkHolds
    <3>2. CASE r.key \notin keys
      BY <1>3, <2>8, <2>10, <3>2
    <3> QED BY <3>1, <3>2
  <2>11. WindowOK(p, r)'
    BY <2>8, <2>10 DEF WindowOK, Ranging, C
  <2>12. LiveWindow(r)'
    BY <2>5 DEF LiveWindow, Ranging, Reading
  <2>13. Covered(p, r)'
    <3> SUFFICES ASSUME ~o.reused, NEW d \in o.owed, d # c, d \notin o.set PROVE Ahead(p, r, d)'
      BY <2>5 DEF Covered
    <3>1. d \in Client /\ Ahead(p, o, d)
      BY <2>1, <2>6 DEF CallInv, Covered
    <3>2. CASE o.at \in {"glob", "globlist"}
               /\ \E q \in subscribes[d] \cap Wanted(p) : q \in Exact \/ q \in o.must \ o.seen
      BY <2>5, <3>2 DEF Ahead
    <3>3. ASSUME Ranging(o), NEW j \in o.i..o.win.n, mem[o.key][o.win.v][j] = d
          PROVE  Ahead(p, r, d)'
      <4>1. Ranging(r) /\ j \in r.i..r.win.n /\ j \in 1..r.win.n /\ mem[r.key][r.win.v][j] = d
        BY <2>5, <2>6, <3>3 DEF Ranging
      <4>2. mem'[r.key][r.win.v][j] = d
        <5>1. CASE r.key \in keys
          <6>1. mem[r.key] \in Memory
            BY <1>1, <5>1
          <6>2. Shrunk(mem[r.key], subs[r.key].v, subs[r.key].n, mem'[r.key], subs'[r.key].v, subs'[r.key].n, c)
            BY <1>3, <5>1
          <6>3. Holds(mem[r.key], r.win.v, r.win.n, C)
            BY <2>8, <4>1
          <6>4. Kept(mem[r.key], mem'[r.key], r.win.v, r.win.n, {c})
            BY <2>6, <6>1, <6>2, <6>3, ShrinkKeeps
          <6> QED BY <4>1, <6>4 DEF Kept
        <5>2. CASE r.key \notin keys
          BY <1>3, <2>8, <4>1, <5>2
        <5> QED BY <5>1, <5>2
      <4> QED BY <4>1, <4>2 DEF Ahead, Ranging
    <3> QED BY <3>1, <3>2, <3>3 DEF Ahead
  <2> QED BY <2>6, <2>7, <2>11, <2>12, <2>13 DEF CallInv
<1>6. pub' \in [Publish -> Call] /\ \A p \in Publish : \A r \in Call : pub'[p] = r => CallInv(p, r)'
  BY <1>1, <1>5
<1> QED BY <1>4, <1>6, CallByCall

LEMMA RemoveExactInv ==
  ASSUME IInv, NEW c \in Client, RemoveExact(c)
  PROVE  IInv'
<1>1. conn \in [Client -> {"up", "exact", "gone"}] /\ Exact \in SUBSET Key
  BY DEF IInv, MapsInv, Exact
<1>2. /\ conn[c] = "up" /\ conn' = [conn EXCEPT ![c] = "exact"] /\ RemoveConnFromMap(Exact, c)
      /\ UNCHANGED subscribes /\ pub' = [p \in Publish |-> Left(p, c)]
  BY DEF RemoveExact
<1>3. \A q \in Key, d \in Client : Listed(d, q)' <=> Listed(d, q) /\ ~(d = c /\ q \in Exact)
  BY <1>1, <1>2 DEF Listed, Exact
<1> QED BY <1>1, <1>2, <1>3, RemoveInv

LEMMA RemoveGlobInv ==
  ASSUME IInv, NEW c \in Client, RemoveGlob(c)
  PROVE  IInv'
<1>1. conn \in [Client -> {"up", "exact", "gone"}] /\ Glob \in SUBSET Key
  BY ConstAssumption DEF IInv, MapsInv
<1>2. /\ conn[c] = "exact" /\ conn' = [conn EXCEPT ![c] = "gone"] /\ RemoveConnFromMap(Glob, c)
      /\ UNCHANGED subscribes /\ pub' = [p \in Publish |-> Left(p, c)]
  BY DEF RemoveGlob
<1>3. \A q \in Key, d \in Client : Listed(d, q)' <=> Listed(d, q) /\ ~(d = c /\ q \in Glob)
  BY <1>1, <1>2 DEF Listed
<1> QED BY <1>1, <1>2, <1>3, RemoveInv

-----------------------------------------------------------------------------
(* The theorems *)

LEMMA NextIInv == IInv /\ [Next]_vars => IInv'
<1> SUFFICES ASSUME IInv, [Next]_vars PROVE IInv'
  OBVIOUS
<1>1. ASSUME NEW c \in Client, NEW k \in Offers[c], Subscribe(c, k) PROVE IInv'
  BY <1>1, SubscribeInv
<1>2. ASSUME NEW c \in Client, RemoveExact(c) \/ RemoveGlob(c) PROVE IInv'
  BY <1>2, RemoveExactInv, RemoveGlobInv
<1>3. ASSUME NEW p \in Publish, DoPublish(p) PROVE IInv'
  BY <1>3, BeginInv, VisitGlobInv, ReadElementInv, EndGlobListInv, EndGlobInv, EndExactInv,
     SendAllInv DEF DoPublish
<1>4. CASE UNCHANGED vars
  <2>1. MapsInv' /\ pub' \in [Publish -> Call]
    BY <1>4 DEF IInv, MapsInv, Listed, vars
  <2>2. ASSUME NEW p \in Publish, NEW r \in Call, pub'[p] = r PROVE CallInv(p, r)'
    <3>1. CallInv(p, r)
      BY <1>4, <2>2 DEF IInv, vars
    <3>2. WindowOK(p, r)' /\ LiveWindow(r)'
      BY <1>4, <3>1 DEF CallInv, WindowOK, LiveWindow, vars
    <3>3. Covered(p, r)'
      BY <1>4, <3>1 DEF CallInv, Covered, Ahead, vars
    <3> QED BY <1>4, <3>1, <3>2, <3>3 DEF CallInv, PastGone, Known, OwedUp, vars
  <2> QED BY <2>1, <2>2, CallByCall
<1> QED BY <1>1, <1>2, <1>3, <1>4 DEF Next, Finished

LEMMA AlwaysIInv == Spec => []IInv
BY InitIInv, NextIInv, PTL DEF Spec

\* The slices stay inside their arrays, whatever doPublish, handleSubscribe and
\* removeSubscriptionsOfClient do to them, and a publish stays in its window.
THEOREM TypeCorrect == Spec => []TypeOK
BY AlwaysIInv, InvTypeOK, PTL

\* Each map lists exactly the clients that subscribed and have not been
\* removed from it, each once, and holds no key without subscribers.
THEOREM ListsAreExact == Spec => []MapsAgree
BY AlwaysIInv, InvMaps, PTL

\* No publish is written to a client that did not subscribe to its event, or
\* that was removed from both maps before it began, although doPublish reads
\* the slices while they are overwritten.
THEOREM NobodyElse == Spec => []NoStranger
BY AlwaysIInv, InvStranger, PTL

\* A client that is subscribed when a publish begins, and stays, gets it, even
\* if others leave meanwhile, unless one subscribes after one has left.
THEOREM StayersAreServed == Spec => []StableDelivery
BY AlwaysIInv, InvStable, PTL

=============================================================================
