-------------------------- MODULE ConnectionProofs --------------------------
(***************************************************************************)
(* For every length of the header, every set of sizes and every number of  *)
(* messages: until a read is short or a message too big, RecvMessage cuts  *)
(* the stream where the client did, and the messages are handled in order. *)
(***************************************************************************)
EXTENDS Connection, SequenceTheorems, TLAPS

-----------------------------------------------------------------------------
(***************************************************************************)
(* The stream.  Whatever has been read, and wherever the client stopped,   *)
(* the cells that are left are consecutive cells of consecutive messages;  *)
(* and the last of them ends a message as long as the connection is open.  *)
(***************************************************************************)
At(k, n) == [msg |-> k, n |-> n]

InMessages(W, s) ==
  \A i \in 1..Len(s) : s[i].msg \in 1..Len(W) /\ s[i].n \in 1..(Header + W[s[i].msg])

Runs(W, s) ==
  \A i, j \in 1..Len(s) :
    i <= j /\ s[i].n + (j - i) <= Header + W[s[i].msg] => s[j] = At(s[i].msg, s[i].n + (j - i))

Turns(W, s) ==
  \A i, j \in 1..Len(s) :
    j = i + 1 /\ s[i].n = Header + W[s[i].msg] => s[j] = At(s[i].msg + 1, 1)

EndsMessage(W, s, pr) ==
  pr = "open" /\ Len(s) > 0 => s[Len(s)] = At(Len(W), Header + W[Len(W)])

Consecutive(W, s, pr) == InMessages(W, s) /\ Runs(W, s) /\ Turns(W, s) /\ EndsMessage(W, s, pr)

\* The next cell is cell f of message k; or there is none, and if the client
\* can still write, its next message is k.
Starts(W, s, pr, k, f) ==
  IF Len(s) = 0 THEN pr = "open" => k = Len(W) + 1 /\ f = 1 ELSE s[1] = At(k, f)

StartKept(W, s, pr, X, t, now) == \A k, f : Starts(W, s, pr, k, f) => Starts(X, t, now, k, f)

\* The same once the cells up to g of message k are read.
Onward(W, s, pr, k, g) ==
  IF g = Header + W[k] THEN Starts(W, s, pr, k + 1, 1) ELSE Starts(W, s, pr, k, g + 1)

LEMMA SizesAre ==
  ASSUME NEW W \in Seq(Sizes)
  PROVE  Len(W) \in Nat /\ \A k \in 1..Len(W) : W[k] \in Nat /\ W[k] <= MaxSize + 1
<1>1. Len(W) \in Nat /\ \A k \in 1..Len(W) : W[k] \in Sizes
  OBVIOUS
<1>2. \A x \in Sizes : x \in Nat /\ x <= MaxSize + 1
  BY ConstAssumption
<1> QED BY <1>1, <1>2

\* What is left of the stream after a read.
LEMMA Suffix ==
  ASSUME NEW s \in Seq(Cell), NEW n \in 0..Len(s), NEW t, t = SubSeq(s, n + 1, Len(s))
  PROVE  /\ t \in Seq(Cell) /\ Len(t) = Len(s) - n
         /\ \A i \in 1..Len(t) : t[i] = s[n + i]
<1>1. Len(s) \in Nat /\ n + 1 \in Int /\ \A i \in (n + 1)..Len(s) : s[i] \in Cell
  OBVIOUS
<1>2. /\ t \in Seq(Cell) /\ Len(t) = IF n + 1 <= Len(s) THEN Len(s) - (n + 1) + 1 ELSE 0
      /\ \A i \in 1..(Len(s) - (n + 1) + 1) : t[i] = s[(n + 1) + i - 1]
  BY <1>1, SubSeqProperties
<1>3. Len(t) = Len(s) - n
  BY <1>1, <1>2
<1>4. ASSUME NEW i \in 1..Len(t) PROVE t[i] = s[n + i]
  <2>1. i \in 1..(Len(s) - (n + 1) + 1) /\ (n + 1) + i - 1 = n + i
    BY <1>1, <1>3
  <2> QED BY <1>2, <2>1
<1> QED BY <1>2, <1>3, <1>4

\* What is left of it when the client ends.
LEMMA Prefix ==
  ASSUME NEW s \in Seq(Cell), NEW n \in 0..Len(s), NEW t, t = SubSeq(s, 1, n)
  PROVE  /\ t \in Seq(Cell) /\ Len(t) = n
         /\ \A i \in 1..n : t[i] = s[i]
<1>1. Len(s) \in Nat /\ 1 \in Int /\ n \in Int /\ \A i \in 1..n : s[i] \in Cell
  OBVIOUS
<1>2. /\ t \in Seq(Cell) /\ Len(t) = IF 1 <= n THEN n - 1 + 1 ELSE 0
      /\ \A i \in 1..(n - 1 + 1) : t[i] = s[1 + i - 1]
  BY <1>1, SubSeqProperties
<1> QED BY <1>1, <1>2

LEMMA ReadKeeps ==
  ASSUME NEW W \in Seq(Sizes), NEW s \in Seq(Cell), NEW pr, NEW n \in 0..Len(s), NEW t,
         t = SubSeq(s, n + 1, Len(s)), Consecutive(W, s, pr)
  PROVE  InMessages(W, t) /\ Runs(W, t) /\ Turns(W, t) /\ EndsMessage(W, t, pr)
<1>1. /\ t \in Seq(Cell) /\ Len(t) = Len(s) - n /\ Len(s) \in Nat /\ n \in Nat
      /\ \A i \in 1..Len(t) : t[i] = s[n + i] /\ n + i \in 1..Len(s)
  BY Suffix
<1>2. InMessages(W, t)
  BY <1>1 DEF Consecutive, InMessages
<1>3. Runs(W, t)
  <2> SUFFICES ASSUME NEW i \in 1..Len(t), NEW j \in 1..Len(t), i <= j,
                      t[i].n + (j - i) <= Header + W[t[i].msg]
               PROVE  t[j] = At(t[i].msg, t[i].n + (j - i))
    BY DEF Runs
  <2>1. /\ n + i \in 1..Len(s) /\ n + j \in 1..Len(s) /\ n + i <= n + j
        /\ (n + j) - (n + i) = j - i /\ t[i] = s[n + i] /\ t[j] = s[n + j]
    BY <1>1, SMTT(40)
  <2>2. \A x, y \in 1..Len(s) :
          x <= y /\ s[x].n + (y - x) <= Header + W[s[x].msg] => s[y] = At(s[x].msg, s[x].n + (y - x))
    BY DEF Consecutive, Runs
  <2>3. s[n + i].n + ((n + j) - (n + i)) <= Header + W[s[n + i].msg]
    BY <2>1
  <2>4. s[n + j] = At(s[n + i].msg, s[n + i].n + ((n + j) - (n + i)))
    BY <2>1, <2>2, <2>3
  <2> QED BY <2>1, <2>4
<1>4. Turns(W, t)
  <2> SUFFICES ASSUME NEW i \in 1..Len(t), NEW j \in 1..Len(t), j = i + 1, t[i].n = Header + W[t[i].msg]
               PROVE  t[j] = At(t[i].msg + 1, 1)
    BY DEF Turns
  <2>1. n + i \in 1..Len(s) /\ n + j \in 1..Len(s) /\ n + j = (n + i) + 1 /\ t[i] = s[n + i] /\ t[j] = s[n + j]
    BY <1>1
  <2> QED BY <2>1 DEF Consecutive, Turns
<1>5. EndsMessage(W, t, pr)
  <2> SUFFICES ASSUME pr = "open", Len(t) > 0 PROVE t[Len(t)] = At(Len(W), Header + W[Len(W)])
    BY DEF EndsMessage
  <2>1. Len(t) \in 1..Len(t) /\ n + Len(t) = Len(s) /\ Len(s) > 0
    BY <1>1
  <2>2. t[Len(t)] = s[n + Len(t)]
    BY <1>1, <2>1
  <2> QED BY <2>1, <2>2 DEF Consecutive, EndsMessage
<1> QED BY <1>2, <1>3, <1>4, <1>5

LEMMA EndKeeps ==
  ASSUME NEW W \in Seq(Sizes), NEW s \in Seq(Cell), NEW pr, NEW n \in 0..Len(s), NEW t,
         t = SubSeq(s, 1, n), Consecutive(W, s, pr), NEW now, now # "open"
  PROVE  /\ InMessages(W, t) /\ Runs(W, t) /\ Turns(W, t) /\ EndsMessage(W, t, now)
         /\ StartKept(W, s, pr, W, t, now)
<1>1. /\ t \in Seq(Cell) /\ Len(t) = n /\ Len(s) \in Nat /\ n \in Nat
      /\ \A i \in 1..n : t[i] = s[i] /\ i \in 1..Len(s)
  BY Prefix
<1>2. InMessages(W, t) /\ EndsMessage(W, t, now)
  BY <1>1 DEF Consecutive, InMessages, EndsMessage
<1>3. Runs(W, t) /\ Turns(W, t)
  BY <1>1 DEF Consecutive, Runs, Turns
<1>4. StartKept(W, s, pr, W, t, now)
  <2>1. CASE n = 0
    BY <1>1, <2>1 DEF Starts, StartKept
  <2>2. CASE n # 0
    <3>1. t[1] = s[1] /\ Len(t) # 0 /\ Len(s) # 0
      BY <1>1, <2>2
    <3> QED BY <3>1 DEF Starts, StartKept
  <2> QED BY <2>1, <2>2
<1> QED BY <1>2, <1>3, <1>4

\* The cells of a whole message.
LEMMA CellsAre ==
  ASSUME NEW K \in 1..MaxSent, NEW H \in 1..(Header + MaxSize + 1), NEW c, c = Cells(K, 1, H)
  PROVE  c \in Seq(Cell) /\ Len(c) = H /\ \A i \in 1..H : c[i] = At(K, i)
<1>1. H \in Nat /\ H - 1 + 1 = H /\ \A i \in 1..H : 1 + i - 1 = i
  BY ConstAssumption
<1>2. c = [i \in 1..H |-> [msg |-> K, n |-> 1 + i - 1]]
  BY <1>1 DEF Cells
<1>3. c = [i \in 1..H |-> At(K, i)]
  BY <1>1, <1>2 DEF At
<1>4. \A i \in 1..H : At(K, i) \in Cell
  BY <1>1, ConstAssumption DEF At, Cell
<1> QED BY <1>1, <1>3, <1>4

\* Of a run that goes on behind position L, the cell at L is not the last.
LEMMA NotLast ==
  ASSUME NEW x \in Nat, NEW m \in Nat, NEW i \in Nat, NEW j \in Nat, NEW L \in Nat,
         i <= L, L < j, x + (j - i) <= m
  PROVE  x + (L - i) <= m /\ x + (L - i) # m
OBVIOUS

\* A write puts a whole message behind the others.
LEMMA WriteKeeps ==
  ASSUME NEW W \in Seq(Sizes), NEW s \in Seq(Cell), NEW size \in Sizes, Len(W) < MaxSent,
         NEW X, X = Append(W, size), NEW t, t = s \o Cells(Len(W) + 1, 1, Header + size),
         Consecutive(W, s, "open")
  PROVE  /\ t \in Seq(Cell) /\ Len(t) >= Len(s)
         /\ InMessages(X, t) /\ Runs(X, t) /\ Turns(X, t) /\ EndsMessage(X, t, "open")
         /\ StartKept(W, s, "open", X, t, "open")
<1>1. PICK L, K, H, c : /\ L = Len(s) /\ K = Len(W) + 1 /\ H = Header + size
                        /\ c = Cells(K, 1, H)
  OBVIOUS
<1>2. /\ L \in Nat /\ Len(W) \in Nat /\ K \in 1..MaxSent /\ size \in 0..(MaxSize + 1)
      /\ H \in 1..(Header + MaxSize + 1) /\ H \in Nat /\ Header \in Nat
  BY <1>1, ConstAssumption
<1>3. /\ X \in Seq(Sizes) /\ Len(X) = K /\ X[K] = size /\ \A k \in 1..Len(W) : X[k] = W[k]
  BY <1>1, AppendProperties
<1>4. /\ Len(c) = H /\ \A i \in 1..H : c[i] = At(K, i)
      /\ c \in Seq(Cell)
  BY <1>1, <1>2, CellsAre, Zenon
<1>5. /\ t \in Seq(Cell) /\ Len(t) = L + H
      /\ \A i \in 1..(L + H) : t[i] = IF i <= L THEN s[i] ELSE c[i - L]
  <2>1. t = s \o c /\ s \in Seq(Cell) /\ c \in Seq(Cell)
    BY <1>1, <1>4
  <2>2. /\ t \in Seq(Cell) /\ Len(t) = Len(s) + Len(c)
        /\ \A i \in 1..(Len(s) + Len(c)) : t[i] = IF i <= Len(s) THEN s[i] ELSE c[i - Len(s)]
    BY <2>1, ConcatProperties, ZenonT(40)
  <2>3. Len(s) = L /\ Len(c) = H
    BY <1>1, <1>4
  <2> QED BY <2>2, <2>3, Zenon
<1>6. /\ \A i \in 1..L : t[i] = s[i] /\ s[i].msg \in 1..Len(W) /\ X[s[i].msg] = W[s[i].msg]
                         /\ W[s[i].msg] \in Nat /\ s[i].n \in 1..(Header + W[s[i].msg])
      /\ \A i \in (L + 1)..(L + H) : t[i] = At(K, i - L) /\ t[i].msg = K /\ t[i].n = i - L
  <2>1. ASSUME NEW i \in 1..L
        PROVE  t[i] = s[i] /\ s[i].msg \in 1..Len(W) /\ X[s[i].msg] = W[s[i].msg]
               /\ W[s[i].msg] \in Nat /\ s[i].n \in 1..(Header + W[s[i].msg])
    BY <1>1, <1>2, <1>3, <1>5, SizesAre DEF Consecutive, InMessages
  <2>2. ASSUME NEW i \in (L + 1)..(L + H)
        PROVE  t[i] = At(K, i - L) /\ t[i].msg = K /\ t[i].n = i - L
    <3>1. i - L \in 1..H /\ i \in 1..(L + H) /\ ~(i <= L)
      BY <1>2
    <3> QED BY <1>4, <1>5, <3>1 DEF At
  <2> QED BY <2>1, <2>2
<1>7. InMessages(X, t)
  <2> SUFFICES ASSUME NEW i \in 1..(L + H)
               PROVE  t[i].msg \in 1..K /\ t[i].n \in 1..(Header + X[t[i].msg])
    BY <1>3, <1>5 DEF InMessages
  <2>1. CASE i <= L
    BY <1>1, <1>2, <1>6, <2>1, SMTT(40)
  <2>2. CASE ~(i <= L)
    <3>1. i \in (L + 1)..(L + H) /\ i - L \in 1..H /\ K \in 1..K
      BY <1>2, <2>2
    <3>2. t[i].msg = K /\ t[i].n = i - L /\ H = Header + X[K]
      BY <1>1, <1>3, <1>6, <3>1
    <3> QED BY <3>1, <3>2
  <2> QED BY <2>1, <2>2
<1>8. L > 0 => s[L].msg = Len(W) /\ s[L].n = Header + W[Len(W)]
  BY <1>1 DEF Consecutive, EndsMessage, At
<1>9. Runs(X, t)
  <2> SUFFICES ASSUME NEW i \in 1..(L + H), NEW j \in 1..(L + H), i <= j,
                      t[i].n + (j - i) <= Header + X[t[i].msg]
               PROVE  t[j] = At(t[i].msg, t[i].n + (j - i))
    BY <1>5 DEF Runs
  <2>a. i \in Nat /\ j \in Nat
    BY <1>2
  <2>0. \A x, y \in 1..L :
          x <= y /\ s[x].n + (y - x) <= Header + W[s[x].msg] => s[y] = At(s[x].msg, s[x].n + (y - x))
    BY <1>1 DEF Consecutive, Runs
  <2>1. CASE j <= L
    <3>1. i \in 1..L /\ j \in 1..L
      BY <1>2, <2>1
    <3> QED BY <1>6, <2>0, <3>1
  <2>2. CASE i > L
    <3>1. i \in (L + 1)..(L + H) /\ j \in (L + 1)..(L + H) /\ (i - L) + (j - i) = j - L
      BY <1>2, <2>2
    <3> QED BY <1>6, <3>1
  <2>3. CASE i <= L /\ L < j
    <3>1. i \in 1..L /\ L \in 1..L /\ L > 0 /\ i <= L
      BY <1>2, <2>3
    <3>a. /\ t[i] = s[i] /\ X[s[i].msg] = W[s[i].msg] /\ W[s[i].msg] \in Nat
          /\ s[i].n \in 1..(Header + W[s[i].msg])
      BY <1>6, <3>1
    <3>b. s[i].n \in Nat /\ Header + W[s[i].msg] \in Nat
      <4>1. PICK w : w = Header + W[s[i].msg]
        OBVIOUS
      <4>a. \A p, q \in Nat : p + q \in Nat
        OBVIOUS
      <4>2. w \in Nat
        BY <1>2, <3>a, <4>1, <4>a, Zenon
      <4>3. s[i].n \in 1..w
        BY <3>a, <4>1, Zenon
      <4>4. s[i].n \in Nat
        BY <4>2, <4>3
      <4> QED BY <4>1, <4>2, <4>4, Zenon
    <3>2. s[i].n + (j - i) <= Header + W[s[i].msg]
      BY <3>a
    <3>3. /\ s[i].n + (L - i) <= Header + W[s[i].msg]
          /\ s[i].n + (L - i) # Header + W[s[i].msg]
      BY <1>2, <2>3, <2>a, <3>2, <3>b, NotLast, Zenon
    <3>4. s[L] = At(s[i].msg, s[i].n + (L - i))
      BY <2>0, <3>1, <3>3
    <3>5. s[L].msg = s[i].msg /\ s[L].n = s[i].n + (L - i)
      BY <3>4 DEF At
    <3> QED BY <1>8, <3>1, <3>3, <3>5
  <2>4. j <= L \/ i > L \/ (i <= L /\ L < j)
    BY <1>2, <2>a
  <2> QED BY <2>1, <2>2, <2>3, <2>4, Zenon
<1>10. Turns(X, t)
  <2> SUFFICES ASSUME NEW i \in 1..(L + H), NEW j \in 1..(L + H), j = i + 1, t[i].n = Header + X[t[i].msg]
               PROVE  t[j] = At(t[i].msg + 1, 1)
    BY <1>5 DEF Turns
  <2>a. i \in Nat /\ j \in Nat
    BY <1>2
  <2>1. CASE j <= L
    <3>1. i \in 1..L /\ j \in 1..L
      BY <1>2, <2>1
    <3> QED BY <1>1, <1>6, <3>1 DEF Consecutive, Turns
  <2>2. CASE i > L
    <3>1. i \in (L + 1)..(L + H)
      BY <1>2, <2>2
    <3>2. i - L = H
      BY <1>1, <1>3, <1>6, <3>1
    <3> QED BY <1>2, <3>1, <3>2, SMTT(40)
  <2>3. CASE i = L
    <3>1. i \in 1..L /\ L > 0 /\ j \in (L + 1)..(L + H) /\ j - L = 1
      BY <1>2, <2>3
    <3>2. t[i].msg = Len(W) /\ t[j] = At(K, 1)
      BY <1>6, <1>8, <2>3, <3>1
    <3> QED BY <1>1, <3>2
  <2>4. j <= L \/ i > L \/ i = L
    BY <1>2, <2>a
  <2> QED BY <2>1, <2>2, <2>3, <2>4, Zenon
<1>11. EndsMessage(X, t, "open")
  <2>1. L + H \in (L + 1)..(L + H) /\ (L + H) - L = H
    BY <1>2
  <2>2. t[L + H] = At(K, H)
    BY <1>6, <2>1
  <2> QED BY <1>1, <1>3, <1>5, <2>2 DEF EndsMessage
<1>12. ASSUME NEW k, NEW f, Starts(W, s, "open", k, f) PROVE Starts(X, t, "open", k, f)
  <2>0. Len(t) # 0
    BY <1>2, <1>5
  <2>1. CASE L = 0
    <3>1. k = K /\ f = 1
      BY <1>1, <1>12, <2>1 DEF Starts
    <3>2. 1 \in (L + 1)..(L + H) /\ 1 - L = 1
      BY <1>2, <2>1
    <3>3. t[1] = At(K, 1)
      BY <1>6, <3>2
    <3> QED BY <2>0, <3>1, <3>3 DEF Starts
  <2>2. CASE L # 0
    <3>1. 1 \in 1..L
      BY <1>2, <2>2
    <3>2. t[1] = s[1]
      BY <1>6, <3>1
    <3> QED BY <1>1, <1>12, <2>0, <2>2, <3>2 DEF Starts
  <2> QED BY <2>1, <2>2
<1>13. Len(t) >= Len(s)
  BY <1>1, <1>2, <1>5
<1> QED BY <1>5, <1>7, <1>9, <1>10, <1>11, <1>12, <1>13 DEF StartKept

\* A read of c, the next n cells, of which the first is cell f of message k and
\* the last its cell g, leaves t.
Reads(W, s, pr, n, c, t, k, f, g) ==
  /\ W \in Seq(Sizes) /\ s \in Seq(Cell) /\ Consecutive(W, s, pr) /\ Starts(W, s, pr, k, f)
  /\ n \in 1..Len(s) /\ c = SubSeq(s, 1, n) /\ t = SubSeq(s, n + 1, Len(s))
  /\ f \in Nat /\ g \in Nat /\ g = f + n - 1 /\ g <= Header + W[k]

Reached(W, pr, c, t, k, f, g) ==
  k \in 1..Len(W) /\ c = Cells(k, f, g) /\ Onward(W, t, pr, k, g)

\* A read that does not go beyond the message it starts in gets cells of that
\* message, and leaves the stream where the rest of it, or the next one, starts.
LEMMA ReadAdvances ==
  ASSUME NEW W, NEW s, NEW pr, NEW n, NEW c, NEW t, NEW k, NEW f, NEW g,
         Reads(W, s, pr, n, c, t, k, f, g)
  PROVE  Reached(W, pr, c, t, k, f, g)
<1>r. /\ W \in Seq(Sizes) /\ s \in Seq(Cell) /\ Consecutive(W, s, pr) /\ Starts(W, s, pr, k, f)
      /\ n \in 1..Len(s) /\ c = SubSeq(s, 1, n) /\ t = SubSeq(s, n + 1, Len(s))
      /\ f \in Nat /\ g \in Nat /\ g = f + n - 1 /\ g <= Header + W[k]
  BY DEF Reads
<1> USE <1>r
<1> SUFFICES k \in 1..Len(W) /\ c = Cells(k, f, g) /\ Onward(W, t, pr, k, g)
  BY DEF Reached
<1>0. Len(s) \in Nat /\ n \in Nat /\ n \in 0..Len(s)
  OBVIOUS
<1>1. /\ t \in Seq(Cell) /\ Len(t) = Len(s) - n /\ Len(s) \in Nat /\ n \in Nat
      /\ \A i \in 1..Len(t) : t[i] = s[n + i]
  BY <1>0, Suffix
<1>2. s[1] = At(k, f) /\ s[1].msg = k /\ s[1].n = f /\ 1 \in 1..Len(s) /\ n \in 1..Len(s)
  BY <1>1 DEF Starts, At
<1>3. k \in 1..Len(W) /\ W[k] \in Nat /\ Len(W) \in Nat /\ Header \in Nat
  BY <1>2, SizesAre, ConstAssumption DEF Consecutive, InMessages
<1>4. ASSUME NEW i \in 1..n PROVE s[i] = At(k, f + i - 1)
  <2>1. i \in 1..Len(s) /\ f + (i - 1) = f + i - 1 /\ f + (i - 1) <= Header + W[k] /\ 1 <= i
    BY <1>1, <1>3, SMTT(40)
  <2>2. s[i] = At(s[1].msg, s[1].n + (i - 1))
    BY <1>2, <2>1 DEF Consecutive, Runs
  <2> QED BY <1>2, <2>1, <2>2
<1>5. c = Cells(k, f, g)
  <2>1. (f + n - 1) - f + 1 = n
    BY <1>1
  <2>2. Cells(k, f, f + n - 1) = [i \in 1..n |-> At(k, f + i - 1)]
    BY <2>1 DEF Cells, At
  <2>3. SubSeq(s, 1, n) = [i \in 1..n |-> s[i]]
    BY <1>1
  <2> QED BY <1>4, <2>2, <2>3
<1>6. s[n].msg = k /\ s[n].n = f + n - 1
  <2>1. n \in 1..n
    BY <1>0
  <2>2. s[n] = At(k, f + n - 1)
    BY <1>4, <2>1
  <2> QED BY <2>2 DEF At
<1>7. CASE n = Len(s)
  <2>1. Len(t) = 0
    BY <1>1, <1>7
  <2>2. pr = "open" => k = Len(W) /\ f + n - 1 = Header + W[k]
    BY <1>1, <1>6, <1>7 DEF Consecutive, EndsMessage, At
  <2> QED BY <1>3, <1>5, <2>1, <2>2 DEF Starts, Onward
<1>8. CASE n # Len(s)
  <2>1. n + 1 \in 1..Len(s) /\ 1 \in 1..Len(t) /\ t[1] = s[n + 1] /\ Len(t) # 0
    BY <1>1, <1>8
  <2>2. CASE f + n - 1 = Header + W[k]
    <3>1. s[n + 1] = At(k + 1, 1)
      BY <1>1, <1>2, <1>6, <2>1, <2>2 DEF Consecutive, Turns
    <3> QED BY <1>3, <1>5, <2>1, <2>2, <3>1 DEF Starts, Onward
  <2>3. CASE f + n - 1 # Header + W[k]
    <3>1. f + ((n + 1) - 1) = f + n /\ f + n <= Header + W[k] /\ 1 <= n + 1
      <4>1. PICK m : m = Header + W[k]
        OBVIOUS
      <4>2. m \in Nat
        BY <1>3, <4>1
      <4>3. f + n - 1 # m /\ f + n - 1 <= m
        BY <2>3, <4>1
      <4>4. f + n <= m
        BY <1>0, <4>2, <4>3
      <4> QED BY <1>0, <4>1, <4>4
    <3>2. s[n + 1] = At(s[1].msg, s[1].n + ((n + 1) - 1))
      BY <1>2, <2>1, <3>1 DEF Consecutive, Runs
    <3>3. g # Header + W[k] /\ g + 1 = f + n
      BY <1>0, <2>3
    <3>4. t[1] = At(k, g + 1)
      BY <1>2, <2>1, <3>1, <3>2, <3>3
    <3>5. Onward(W, t, pr, k, g)
      BY <2>1, <3>3, <3>4 DEF Starts, Onward
    <3> QED BY <1>3, <1>5, <3>5
  <2> QED BY <2>2, <2>3
<1> QED BY <1>7, <1>8

-----------------------------------------------------------------------------
(***************************************************************************)
(* The inductive invariant.  Unless the stream is out of step there is a   *)
(* message k, the next one: those before it have been handled, or were     *)
(* empty, and what is left of the stream starts with it; or, if its length *)
(* has just been read, with what follows its length.                       *)
(***************************************************************************)
Served(W, h, k) ==
  /\ \A i \in 1..Len(h) : h[i] < k
  /\ \A j \in 1..Len(W) : j < k /\ W[j] > 0 => \E i \in 1..Len(h) : h[i] = j

Announced(W, s, pr, len, k) ==
  /\ k \in 1..Len(W) /\ len = W[k]
  /\ IF len > 0 THEN Starts(W, s, pr, k, Header + 1) ELSE Starts(W, s, pr, k + 1, 1)

Place(W, s, pr, a, len, k) ==
  IF a = "payload" THEN Announced(W, s, pr, len, k) ELSE Starts(W, s, pr, k, 1)

Synced(W, s, pr, a, len, h) ==
  \E k \in 1..(Len(W) + 1) : Served(W, h, k) /\ Place(W, s, pr, a, len, k)

Increasing(h) == \A i, j \in 1..Len(h) : i < j => h[i] < h[j]

Empty(W) == \E k \in 1..Len(W) : W[k] = 0

Stream == Consecutive(written, stream, peer)

Sync == ~fault => Synced(written, stream, peer, at, announced, handled)

Sorted == ~fault => Increasing(handled)

NamelessWhy == nameless \/ at = "nil" => fault \/ peer # "open" \/ Empty(written)

IInv == TypeOK /\ Stream /\ Sync /\ Sorted /\ NamelessWhy

\* The invariant after a step, said of the values the step gives.
LEMMA Afterwards ==
  ASSUME TypeOK', Consecutive(written', stream', peer'),
         ~fault' => Synced(written', stream', peer', at', announced', handled'),
         ~fault' => Increasing(handled'),
         nameless' \/ at' = "nil" => fault' \/ peer' # "open" \/ Empty(written')
  PROVE  IInv'
<1>1. Stream'
  BY DEF Stream, Consecutive, InMessages, Runs, Turns, EndsMessage, At
<1>2. Sync'
  BY DEF Sync, Synced, Served, Place, Announced, Starts, At
<1>3. Sorted' /\ NamelessWhy'
  BY DEF Sorted, Increasing, NamelessWhy, Empty
<1> QED BY <1>1, <1>2, <1>3 DEF IInv

\* A step that moves no start and handles no message keeps the next message.
LEMMA NextStays ==
  ASSUME NEW W, NEW s, NEW pr, NEW a, NEW len, NEW h, Synced(W, s, pr, a, len, h),
         NEW X, Len(W) \in Nat, Len(X) \in Nat, Len(X) >= Len(W), Len(X) <= Len(W) + 1,
         \A k \in 1..Len(W) : X[k] = W[k],
         NEW t, NEW now, NEW b, a = "payload" <=> b = "payload",
         StartKept(W, s, pr, X, t, now)
  PROVE  Synced(X, t, now, b, len, h)
<1>1. PICK k \in 1..(Len(W) + 1) : Served(W, h, k) /\ Place(W, s, pr, a, len, k)
  BY DEF Synced
<1>2. k \in 1..(Len(X) + 1) /\ k \in Nat
  OBVIOUS
<1>3. Served(X, h, k)
  <2>1. ASSUME NEW j \in 1..Len(X), j < k, X[j] > 0 PROVE \E i \in 1..Len(h) : h[i] = j
    <3>1. j \in 1..Len(W)
      BY <1>2, <2>1
    <3> QED BY <1>1, <2>1, <3>1 DEF Served
  <2> QED BY <1>1, <2>1 DEF Served
<1>4. Place(X, t, now, b, len, k)
  <2>1. CASE a = "payload"
    <3>1. Announced(W, s, pr, len, k)
      BY <1>1, <2>1 DEF Place
    <3>2. k \in 1..Len(X) /\ len = X[k]
      BY <3>1 DEF Announced
    <3> QED BY <2>1, <3>1, <3>2 DEF Announced, Place, StartKept
  <2>2. CASE a # "payload"
    BY <1>1, <2>2 DEF Place, StartKept
  <2> QED BY <2>1, <2>2
<1> QED BY <1>2, <1>3, <1>4 DEF Synced

-----------------------------------------------------------------------------
(* The client's end *)

\* What every step needs of the types.
LEMMA Lengths ==
  ASSUME TypeOK
  PROVE  /\ written \in Seq(Sizes) /\ stream \in Seq(Cell)
         /\ Len(written) \in Nat /\ Len(stream) \in Nat
         /\ arrived \in Nat /\ arrived <= Len(stream) /\ arrived \in 0..Len(stream)
<1>1. written \in Seq(Sizes) /\ stream \in Seq(Cell) /\ arrived \in 0..Len(stream)
  BY DEF TypeOK
<1>2. Len(written) \in Nat /\ Len(stream) \in Nat
  BY <1>1
<1> QED BY <1>1, <1>2

LEMMA WriteStep ==
  ASSUME IInv, NEW size \in Sizes, Write(size)
  PROVE  IInv'
<1>0. TypeOK /\ Consecutive(written, stream, "open") /\ peer = "open" /\ peer' = peer
  BY DEF IInv, Stream, Write
<1>1. /\ written \in Seq(Sizes) /\ stream \in Seq(Cell) /\ Len(written) \in Nat
      /\ Len(stream) \in Nat /\ arrived \in 0..Len(stream) /\ Len(written) < MaxSent
  BY <1>0, Lengths DEF Write
<1>2. /\ written' = Append(written, size)
      /\ stream' = stream \o Cells(Len(written) + 1, 1, Header + size)
      /\ at' = at /\ announced' = announced /\ handled' = handled /\ arrived' = arrived
      /\ nameless' = nameless /\ fault' = fault
  BY DEF Write
<1>3. /\ stream' \in Seq(Cell) /\ Len(stream') >= Len(stream)
      /\ Consecutive(written', stream', "open")
      /\ StartKept(written, stream, "open", written', stream', "open")
  <2>1. /\ stream' \in Seq(Cell) /\ Len(stream') >= Len(stream)
        /\ InMessages(written', stream') /\ Runs(written', stream') /\ Turns(written', stream')
        /\ EndsMessage(written', stream', "open")
        /\ StartKept(written, stream, "open", written', stream', "open")
    BY <1>0, <1>1, <1>2, WriteKeeps
  <2> QED BY <2>1 DEF Consecutive
<1>4. /\ written' \in Seq(Sizes) /\ Len(written') = Len(written) + 1
      /\ \A k \in 1..Len(written) : written'[k] = written[k]
  BY <1>1, <1>2, AppendProperties
<1>5. TypeOK'
  <2>1. Len(stream') \in Nat
    BY <1>3
  <2>2. arrived' \in 0..Len(stream') /\ Len(written') <= MaxSent
    BY <1>1, <1>2, <1>3, <1>4, <2>1, ConstAssumption
  <2> QED BY <1>0, <1>2, <1>3, <1>4, <2>2 DEF TypeOK
<1>6. ASSUME ~fault' PROVE Synced(written', stream', peer', at', announced', handled')
  <2>1. Synced(written, stream, "open", at, announced, handled)
    BY <1>0, <1>2, <1>6 DEF IInv, Sync
  <2>2. Len(written') \in Nat /\ Len(written') >= Len(written) /\ Len(written') <= Len(written) + 1
    BY <1>1, <1>4
  <2>3. Synced(written', stream', "open", at, announced, handled)
    BY <1>1, <1>3, <1>4, <2>1, <2>2, NextStays
  <2> QED BY <1>0, <1>2, <2>3
<1>7. ~fault' => Increasing(handled')
  BY <1>2 DEF IInv, Sorted
<1>8. nameless' \/ at' = "nil" => fault' \/ peer' # "open" \/ Empty(written')
  <2>1. Empty(written) => Empty(written')
    BY <1>1, <1>4 DEF Empty
  <2> QED BY <1>0, <1>2, <2>1 DEF IInv, NamelessWhy
<1> QED BY <1>0, <1>3, <1>5, <1>6, <1>7, <1>8, Afterwards

\* A step that leaves the stream, the client's end and the messages alone.
LEMMA QuietStep ==
  ASSUME IInv, UNCHANGED <<written, stream, peer, announced, handled, fault>>,
         arrived' \in 0..Len(stream), nameless' \in BOOLEAN,
         at' \in {"header", "payload", "nil", "removing", "gone"},
         at = "payload" <=> at' = "payload",
         nameless' \/ at' = "nil" => nameless \/ at = "nil"
  PROVE  IInv'
<1>1. TypeOK'
  BY DEF IInv, TypeOK
<1>2. Consecutive(written', stream', peer')
  BY DEF IInv, Stream
<1>3. ASSUME ~fault' PROVE Synced(written', stream', peer', at', announced', handled')
  <2>1. Synced(written, stream, peer, at, announced, handled)
    BY <1>3 DEF IInv, Sync
  <2>2. Len(written) \in Nat
    BY Lengths DEF IInv
  <2>3. Synced(written, stream, peer, at', announced, handled)
    <3>1. StartKept(written, stream, peer, written, stream, peer)
      BY DEF StartKept
    <3> QED BY <2>1, <2>2, <3>1, NextStays
  <2> QED BY <2>3
<1>4. ~fault' => Increasing(handled')
  BY DEF IInv, Sorted
<1>5. nameless' \/ at' = "nil" => fault' \/ peer' # "open" \/ Empty(written')
  BY DEF IInv, NamelessWhy
<1> QED BY <1>1, <1>2, <1>3, <1>4, <1>5, Afterwards

\* The client ends, or its end is noticed: part of the stream is lost.
LEMMA EndStep ==
  ASSUME IInv, NEW n \in 0..Len(stream), stream' = SubSeq(stream, 1, n),
         arrived' \in 0..n, peer' \in {"eof", "reset"},
         UNCHANGED <<written, announced, handled, nameless, fault>>,
         at' \in {"header", "payload", "nil", "removing", "gone"},
         at = "payload" <=> at' = "payload"
  PROVE  IInv'
<1>0. /\ TypeOK /\ written \in Seq(Sizes) /\ stream \in Seq(Cell) /\ Len(written) \in Nat
      /\ Consecutive(written, stream, peer) /\ peer' # "open"
  BY Lengths DEF IInv, Stream
<1>1. /\ Consecutive(written, stream', peer')
      /\ StartKept(written, stream, peer, written, stream', peer')
  <2>1. /\ InMessages(written, stream') /\ Runs(written, stream') /\ Turns(written, stream')
        /\ EndsMessage(written, stream', peer')
        /\ StartKept(written, stream, peer, written, stream', peer')
    BY <1>0, EndKeeps
  <2> QED BY <2>1 DEF Consecutive
<1>2. stream' \in Seq(Cell) /\ Len(stream') = n
  BY <1>0, Prefix
<1>3. TypeOK'
  BY <1>0, <1>2 DEF TypeOK
<1>4. ASSUME ~fault' PROVE Synced(written', stream', peer', at', announced', handled')
  <2>1. Synced(written, stream, peer, at, announced, handled)
    BY <1>4 DEF IInv, Sync
  <2>2. Synced(written, stream', peer', at', announced, handled)
    BY <1>0, <1>1, <2>1, NextStays
  <2> QED BY <2>2
<1>5. ~fault' => Increasing(handled')
  BY DEF IInv, Sorted
<1> QED BY <1>0, <1>1, <1>3, <1>4, <1>5, Afterwards

-----------------------------------------------------------------------------
(* RecvMessage *)

LEMMA ConsumeKeeps ==
  ASSUME IInv, NEW n \in Nat, n <= arrived, Consume(n), written' = written, peer' = peer
  PROVE  /\ Consecutive(written', stream', peer')
         /\ stream' \in Seq(Cell) /\ arrived' \in 0..Len(stream')
<1>1. /\ written \in Seq(Sizes) /\ stream \in Seq(Cell) /\ Len(stream) \in Nat
      /\ arrived \in Nat /\ arrived <= Len(stream) /\ Consecutive(written, stream, peer)
  BY Lengths DEF IInv, Stream
<1>2. n \in 0..Len(stream) /\ stream' = SubSeq(stream, n + 1, Len(stream)) /\ arrived' = arrived - n
  BY <1>1 DEF Consume
<1>3. InMessages(written, stream') /\ Runs(written, stream') /\ Turns(written, stream')
      /\ EndsMessage(written, stream', peer)
  BY <1>1, <1>2, ReadKeeps
<1>4. stream' \in Seq(Cell) /\ Len(stream') = Len(stream) - n
  BY <1>1, <1>2, Suffix
<1>5. arrived' \in 0..Len(stream')
  BY <1>1, <1>2, <1>4
<1> QED BY <1>3, <1>4, <1>5 DEF Consecutive

\* The first cell that is left is of a message that was written.
LEMMA FirstIsWritten ==
  ASSUME NEW W \in Seq(Sizes), NEW s \in Seq(Cell), NEW pr, Consecutive(W, s, pr), Len(s) > 0
  PROVE  s[1].msg \in 1..Len(W) /\ W[s[1].msg] \in Nat /\ W[s[1].msg] <= MaxSize + 1
<1>1. 1 \in 1..Len(s)
  OBVIOUS
<1>2. s[1].msg \in 1..Len(W)
  BY <1>1 DEF Consecutive, InMessages
<1> QED BY <1>2, SizesAre

\* In step, the length that is read is that of the next message.
LEMMA LengthRead ==
  ASSUME NEW W \in Seq(Sizes), NEW s \in Seq(Cell), NEW pr, Consecutive(W, s, pr),
         NEW k, Starts(W, s, pr, k, 1), Len(s) >= Header,
         NEW t, t = SubSeq(s, Header + 1, Len(s)), NEW c, c = SubSeq(s, 1, Header)
  PROVE  k \in 1..Len(W) /\ c = Cells(k, 1, Header) /\ c[1].msg = k /\ Announced(W, t, pr, W[k], k)
<1>1. Header \in Nat /\ Header # 0 /\ Len(s) \in Nat /\ Header \in 1..Len(s) /\ Len(s) > 0
  BY ConstAssumption
<1>2. s[1] = At(k, 1) /\ s[1].msg = k
  BY <1>1 DEF Starts, At
<1>3. k \in 1..Len(W) /\ W[k] \in Nat
  BY <1>1, <1>2, FirstIsWritten
<1>4. Header = 1 + Header - 1 /\ Header <= Header + W[k] /\ 1 \in Nat
  BY <1>1, <1>3
<1>5. c = Cells(k, 1, Header) /\ Onward(W, t, pr, k, Header)
  <2>1. PICK n, f, g : n = Header /\ f = 1 /\ g = Header
    OBVIOUS
  <2>2. /\ n \in 1..Len(s) /\ t = SubSeq(s, n + 1, Len(s)) /\ c = SubSeq(s, 1, n)
        /\ f \in Nat /\ g \in Nat /\ g = f + n - 1 /\ Starts(W, s, pr, k, f) /\ g <= Header + W[k]
    BY <1>1, <1>4, <2>1
  <2>3. c = Cells(k, f, g) /\ Onward(W, t, pr, k, g)
    <3>1. Reads(W, s, pr, n, c, t, k, f, g)
      BY <2>2 DEF Reads
    <3>2. Reached(W, pr, c, t, k, f, g)
      BY <3>1, ReadAdvances, Zenon
    <3> QED BY <3>2 DEF Reached
  <2> QED BY <2>1, <2>3
<1>6. Announced(W, t, pr, W[k], k)
  <2>1. CASE W[k] = 0
    <3>1. Header = Header + W[k] /\ ~(W[k] > 0)
      BY <1>1, <2>1
    <3> QED BY <1>3, <1>5, <3>1 DEF Announced, Onward
  <2>2. CASE W[k] > 0
    <3>1. Header # Header + W[k]
      BY <1>1, <1>3, <2>2
    <3> QED BY <1>3, <1>5, <2>2, <3>1 DEF Announced, Onward
  <2> QED BY <1>3, <2>1, <2>2
<1>7. c[1] = s[1]
  <2>1. Header \in 0..Len(s) /\ 1 \in 1..Header
    BY <1>1
  <2> QED BY <2>1, Prefix
<1> QED BY <1>2, <1>3, <1>5, <1>6, <1>7

LEMMA ReadLengthStep ==
  ASSUME IInv, ReadLength
  PROVE  IInv'
<1>0. /\ TypeOK /\ Consecutive(written, stream, peer) /\ at = "header"
      /\ written' = written /\ peer' = peer /\ handled' = handled /\ nameless' = nameless
  BY DEF IInv, Stream, ReadLength
<1>1. /\ written \in Seq(Sizes) /\ stream \in Seq(Cell) /\ Len(stream) \in Nat /\ Len(written) \in Nat
      /\ arrived \in Nat /\ Header \in Nat /\ Header # 0 /\ MaxSize \in Nat
      /\ Header <= arrived /\ Header <= Len(stream)
  BY <1>0, Lengths, ConstAssumption DEF ReadLength
<1>2. /\ Consecutive(written', stream', peer')
      /\ stream' \in Seq(Cell) /\ arrived' \in 0..Len(stream')
  BY <1>0, <1>1, ConsumeKeeps DEF ReadLength
<1>3. PICK len : /\ len \in Announces(SubSeq(stream, 1, Header))
                 /\ fault' = (fault \/ len > MaxSize)
                 /\ \/ len > MaxSize /\ at' = "nil" /\ announced' = announced
                    \/ ~(len > MaxSize) /\ at' = "payload" /\ announced' = len
  BY DEF ReadLength, TooBig
<1>4. len \in 0..(MaxSize + 1)
  <2>1. PICK c, k : c = SubSeq(stream, 1, Header) /\ k = c[1].msg
    OBVIOUS
  <2>2. Header \in 0..Len(stream) /\ 1 \in 1..Header /\ Len(stream) > 0
    BY <1>1
  <2>3. c[1] = stream[1]
    BY <1>1, <2>1, <2>2, Prefix
  <2>4. written[k] \in 0..(MaxSize + 1)
    BY <1>0, <1>1, <2>1, <2>2, <2>3, FirstIsWritten
  <2> QED BY <1>3, <2>1, <2>4 DEF Announces
<1>5. TypeOK'
  <2>1. announced' \in 0..MaxSize
    BY <1>0, <1>1, <1>3, <1>4 DEF TypeOK
  <2>2. fault' \in BOOLEAN /\ at' \in {"header", "payload", "nil", "removing", "gone"}
    BY <1>3
  <2> QED BY <1>0, <1>2, <2>1, <2>2 DEF TypeOK
<1>6. ASSUME ~fault' PROVE Synced(written', stream', peer', at', announced', handled')
  <2>1. ~fault /\ at' = "payload" /\ announced' = len
    BY <1>3, <1>6
  <2>2. PICK k \in 1..(Len(written) + 1) :
          Served(written, handled, k) /\ Place(written, stream, peer, at, announced, k)
    BY <2>1 DEF IInv, Sync, Synced
  <2>3. Starts(written, stream, peer, k, 1)
    BY <1>0, <2>2 DEF Place
  <2>4. stream' = SubSeq(stream, Header + 1, Len(stream)) /\ Len(stream) >= Header
    BY <1>1 DEF ReadLength, Consume
  <2>a. PICK c : c = SubSeq(stream, 1, Header)
    OBVIOUS
  <2>5. c = Cells(k, 1, Header) /\ c[1].msg = k /\ Announced(written, stream', peer, written[k], k)
    BY <1>0, <1>1, <2>3, <2>4, <2>a, LengthRead
  <2>6. len = written[k]
    <3>1. Announces(c) = {written[k]}
      BY <2>5 DEF Announces
    <3> QED BY <1>3, <2>a, <3>1
  <2>7. Place(written, stream', peer, at', announced', k)
    BY <2>1, <2>5, <2>6 DEF Place
  <2> QED BY <1>0, <2>2, <2>7 DEF Synced
<1>7. ~fault' => Increasing(handled')
  BY <1>0, <1>3 DEF IInv, Sorted
<1>8. nameless' \/ at' = "nil" => fault' \/ peer' # "open" \/ Empty(written')
  BY <1>0, <1>3 DEF IInv, NamelessWhy
<1> QED BY <1>2, <1>5, <1>6, <1>7, <1>8, Afterwards

\* An error in place of a length: whatever had arrived of it is lost.
LEMMA LengthFailsStep ==
  ASSUME IInv, LengthFails
  PROVE  IInv'
<1>1. stream \in Seq(Cell) /\ Len(stream) \in Nat /\ arrived = Len(stream)
  BY Lengths DEF IInv, LengthFails
<1>2. Len(stream) \in 0..Len(stream) /\ stream' = SubSeq(stream, Len(stream) + 1, Len(stream))
      /\ arrived' = 0
  BY <1>1 DEF LengthFails, Consume
<1>3. stream' \in Seq(Cell) /\ Len(stream') = 0
  BY <1>1, <1>2, Suffix
<1>4. stream' = SubSeq(stream, 1, 0)
  BY <1>1, <1>3
<1> QED BY <1>1, <1>2, <1>4, EndStep DEF LengthFails

\* c is the whole message k, of size len, and t starts with the next.
Received(W, pr, c, t, len, k) ==
  /\ k \in 1..Len(W) /\ len = W[k] /\ c = Cells(k, Header + 1, Header + len)
  /\ Starts(W, t, pr, k + 1, 1)

\* In step, a whole message is read as that message.
LEMMA PayloadRead ==
  ASSUME NEW W \in Seq(Sizes), NEW s \in Seq(Cell), NEW pr, Consecutive(W, s, pr),
         NEW len \in Nat, len > 0, len <= Len(s), NEW k, Announced(W, s, pr, len, k),
         NEW t, t = SubSeq(s, len + 1, Len(s)), NEW c, c = SubSeq(s, 1, len)
  PROVE  Received(W, pr, c, t, len, k)
<1>1. k \in 1..Len(W) /\ len = W[k] /\ Starts(W, s, pr, k, Header + 1)
  BY DEF Announced
<1>2. PICK f, g : f = Header + 1 /\ g = Header + len
  OBVIOUS
<1>3. Header \in Nat /\ Len(s) \in Nat
  BY ConstAssumption
<1>4. f \in Nat /\ g \in Nat /\ g = f + len - 1 /\ len \in 1..Len(s) /\ g <= Header + len
  BY <1>2, <1>3
<1>5. Reads(W, s, pr, len, c, t, k, f, g)
  BY <1>1, <1>2, <1>4 DEF Reads
<1>6. Reached(W, pr, c, t, k, f, g)
  BY <1>5, ReadAdvances, Zenon
<1> QED BY <1>1, <1>2, <1>6 DEF Reached, Onward, Received

\* The cells of a message tell which message it is.
LEMMA CellsTell ==
  ASSUME NEW k, NEW j, NEW len \in Nat, len > 0,
         Cells(k, Header + 1, Header + len) = Cells(j, Header + 1, Header + len)
  PROVE  j = k
<1>1. PICK a, b : a = Header + 1 /\ b = Header + len
  OBVIOUS
<1>2. 1 \in 1..(b - a + 1)
  BY <1>1, ConstAssumption
<1>3. Cells(k, a, b)[1].msg = k /\ Cells(j, a, b)[1].msg = j
  BY <1>2 DEF Cells
<1> QED BY <1>1, <1>3

\* The message that was read is the last that is handled, and the next one follows.
LEMMA ServedNext ==
  ASSUME NEW W, NEW h \in Seq(1..MaxSent), NEW k \in 1..MaxSent, Served(W, h, k), Increasing(h),
         Len(W) \in Nat, k \in 1..Len(W), NEW g, g = Append(h, k)
  PROVE  k + 1 \in 1..(Len(W) + 1) /\ Served(W, g, k + 1) /\ Increasing(g)
<1>1. /\ g \in Seq(1..MaxSent) /\ Len(h) \in Nat /\ Len(g) = Len(h) + 1 /\ g[Len(h) + 1] = k
      /\ \A i \in 1..Len(h) : g[i] = h[i] /\ h[i] \in Nat /\ h[i] < k
  BY ConstAssumption, AppendProperties DEF Served
<1>2. \A i \in 1..Len(g) : i \in 1..Len(h) \/ i = Len(h) + 1
  BY <1>1
<1>3. Increasing(g)
  <2>1. ASSUME NEW i \in 1..Len(g), NEW j \in 1..Len(g), i < j PROVE g[i] < g[j]
    <3>1. i \in 1..Len(h)
      BY <1>1, <2>1
    <3>2. CASE j \in 1..Len(h)
      BY <1>1, <2>1, <3>1, <3>2 DEF Increasing
    <3>3. CASE j = Len(h) + 1
      BY <1>1, <3>1, <3>3
    <3> QED BY <1>2, <3>2, <3>3
  <2> QED BY <2>1 DEF Increasing
<1>4. \A i \in 1..Len(g) : g[i] < k + 1
  BY <1>1, <1>2
<1>5. ASSUME NEW j \in 1..Len(W), j < k + 1, W[j] > 0 PROVE \E i \in 1..Len(g) : g[i] = j
  <2>1. CASE j = k
    <3>1. Len(h) + 1 \in 1..Len(g)
      BY <1>1
    <3> QED BY <1>1, <2>1, <3>1
  <2>2. CASE j < k
    <3>1. PICK i \in 1..Len(h) : h[i] = j
      BY <1>5, <2>2 DEF Served
    <3>2. i \in 1..Len(g)
      BY <1>1
    <3> QED BY <1>1, <3>1, <3>2
  <2>3. j < k \/ j = k
    BY <1>5
  <2> QED BY <2>1, <2>2, <2>3
<1>6. k + 1 \in 1..(Len(W) + 1)
  OBVIOUS
<1>7. Served(W, g, k + 1)
  BY <1>4, <1>5 DEF Served
<1> QED BY <1>3, <1>6, <1>7

LEMMA ReadPayloadStep ==
  ASSUME IInv, ReadPayload
  PROVE  IInv'
<1>0. /\ TypeOK /\ Consecutive(written, stream, peer) /\ at = "payload" /\ at' = "header"
      /\ announced > 0 /\ arrived > 0
      /\ written' = written /\ peer' = peer /\ announced' = announced
  BY DEF IInv, Stream, ReadPayload
<1>1. /\ written \in Seq(Sizes) /\ stream \in Seq(Cell) /\ Len(stream) \in Nat /\ Len(written) \in Nat
      /\ arrived \in Nat /\ arrived <= Len(stream) /\ announced \in Nat
      /\ Len(written) <= MaxSent /\ MaxSent \in Nat /\ handled \in Seq(1..MaxSent)
  BY <1>0, Lengths, ConstAssumption DEF TypeOK
<1>2. PICK n : /\ n = IF arrived < announced THEN arrived ELSE announced
               /\ Parse(SubSeq(stream, 1, n), announced)
               /\ Consume(n)
               /\ fault' = (fault \/ n < announced)
  BY DEF ReadPayload
<1>3. n \in Nat /\ n <= arrived
  BY <1>1, <1>2
<1>4. /\ Consecutive(written', stream', peer')
      /\ stream' \in Seq(Cell) /\ arrived' \in 0..Len(stream')
  BY <1>0, <1>2, <1>3, ConsumeKeeps
<1>5. PICK c : c = SubSeq(stream, 1, n)
  OBVIOUS
<1>6. \/ \E j \in 1..Len(written) :
           /\ announced = written[j] /\ c = Cells(j, Header + 1, Header + announced)
           /\ handled' = Append(handled, j) /\ nameless' = nameless
      \/ /\ ~ \E j \in 1..Len(written) :
                announced = written[j] /\ c = Cells(j, Header + 1, Header + announced)
         /\ nameless' \in {nameless, TRUE}
         /\ handled' = handled
  BY <1>2, <1>5 DEF Parse
<1>7. TypeOK'
  <2>1. handled' \in Seq(1..MaxSent) /\ nameless' \in BOOLEAN
    <3>1. \A j \in 1..Len(written) : Append(handled, j) \in Seq(1..MaxSent)
      BY <1>1, AppendProperties
    <3>2. nameless \in BOOLEAN
      BY <1>0 DEF TypeOK
    <3> QED BY <1>1, <1>6, <3>1, <3>2
  <2>2. fault' \in BOOLEAN
    BY <1>2
  <2> QED BY <1>0, <1>4, <2>1, <2>2 DEF TypeOK
<1>8. ASSUME ~fault'
      PROVE  /\ Synced(written', stream', peer', at', announced', handled')
             /\ Increasing(handled') /\ nameless' = nameless
  <2>1. ~fault /\ n = announced /\ announced <= Len(stream)
    <3>1. ~fault /\ ~(n < announced)
      BY <1>2, <1>8
    <3> QED BY <1>1, <1>2, <1>3, <3>1
  <2>2. PICK k \in 1..(Len(written) + 1) :
          Served(written, handled, k) /\ Place(written, stream, peer, at, announced, k)
    BY <2>1 DEF IInv, Sync, Synced
  <2>3. Announced(written, stream, peer, announced, k)
    BY <1>0, <2>2 DEF Place
  <2>4. stream' = SubSeq(stream, announced + 1, Len(stream)) /\ c = SubSeq(stream, 1, announced)
    BY <1>2, <1>5, <2>1 DEF Consume
  <2>5. /\ k \in 1..Len(written) /\ announced = written[k]
        /\ c = Cells(k, Header + 1, Header + announced)
        /\ Starts(written, stream', peer, k + 1, 1)
    <3>1. Received(written, peer, c, stream', announced, k)
      BY <1>0, <1>1, <2>1, <2>3, <2>4, PayloadRead
    <3> QED BY <3>1 DEF Received
  <2>6. handled' = Append(handled, k) /\ nameless' = nameless
    <3>1. PICK j \in 1..Len(written) :
            /\ c = Cells(j, Header + 1, Header + announced)
            /\ handled' = Append(handled, j) /\ nameless' = nameless
      BY <1>6, <2>5
    <3>2. j = k
      BY <1>0, <1>1, <2>5, <3>1, CellsTell
    <3> QED BY <3>1, <3>2
  <2>7. Increasing(handled) /\ k \in 1..MaxSent
    BY <1>1, <2>1, <2>5 DEF IInv, Sorted
  <2>8. k + 1 \in 1..(Len(written) + 1) /\ Served(written, handled', k + 1) /\ Increasing(handled')
    BY <1>1, <2>2, <2>5, <2>6, <2>7, ServedNext
  <2>9. Place(written, stream', peer, at', announced', k + 1)
    BY <1>0, <2>5 DEF Place
  <2>10. Synced(written, stream', peer, at', announced', handled')
    BY <2>8, <2>9 DEF Synced
  <2> QED BY <1>0, <2>6, <2>8, <2>10
<1>9. nameless' \/ at' = "nil" => fault' \/ peer' # "open" \/ Empty(written')
  BY <1>0, <1>2, <1>8 DEF IInv, NamelessWhy
<1> QED BY <1>4, <1>7, <1>8, <1>9, Afterwards

\* The empty message has been read as soon as its length has.
LEMMA ReadEmptyStep ==
  ASSUME IInv, ReadEmpty
  PROVE  IInv'
<1>0. /\ TypeOK /\ Consecutive(written, stream, peer) /\ at = "payload" /\ at' = "nil"
      /\ announced = 0 /\ UNCHANGED <<written, stream, arrived, peer, announced, handled, nameless, fault>>
  BY DEF IInv, Stream, ReadEmpty
<1>1. TypeOK'
  BY <1>0 DEF TypeOK
<1>2. written \in Seq(Sizes) /\ Len(written) \in Nat /\ handled \in Seq(1..MaxSent) /\ MaxSent \in Nat
  BY <1>0, Lengths, ConstAssumption DEF TypeOK
<1>3. ASSUME ~fault
      PROVE  Synced(written, stream, peer, at', announced, handled) /\ Empty(written)
  <2>1. PICK k \in 1..(Len(written) + 1) :
          Served(written, handled, k) /\ Place(written, stream, peer, at, announced, k)
    BY <1>3 DEF IInv, Sync, Synced
  <2>2. k \in 1..Len(written) /\ written[k] = 0 /\ Starts(written, stream, peer, k + 1, 1)
    BY <1>0, <2>1 DEF Place, Announced
  <2>3. Served(written, handled, k + 1)
    <3>1. \A i \in 1..Len(handled) : handled[i] < k + 1
      BY <1>2, <2>1 DEF Served
    <3>2. ASSUME NEW j \in 1..Len(written), j < k + 1, written[j] > 0
          PROVE  \E i \in 1..Len(handled) : handled[i] = j
      <4>1. j # k
        BY <2>2, <3>2
      <4>2. j < k
        BY <1>2, <3>2, <4>1
      <4> QED BY <2>1, <3>2, <4>2 DEF Served
    <3> QED BY <3>1, <3>2 DEF Served
  <2>4. k + 1 \in 1..(Len(written) + 1) /\ Place(written, stream, peer, at', announced, k + 1)
    BY <1>0, <1>2, <2>2 DEF Place
  <2> QED BY <2>2, <2>3, <2>4 DEF Synced, Empty
<1>4. ~fault' => Increasing(handled')
  BY <1>0 DEF IInv, Sorted
<1> QED BY <1>0, <1>1, <1>3, <1>4, Afterwards

\* An error in place of a message, which is therefore not handled.
LEMMA PayloadFailsStep ==
  ASSUME IInv, PayloadFails
  PROVE  IInv'
<1>0. /\ TypeOK /\ Consecutive(written, stream, peer) /\ at = "payload" /\ at' = "nil"
      /\ stream = <<>> /\ peer' = "eof"
      /\ UNCHANGED <<written, stream, arrived, announced, handled, nameless, fault>>
  BY DEF IInv, Stream, PayloadFails
<1>1. TypeOK'
  BY <1>0 DEF TypeOK
<1>2. Len(stream) = 0
  BY <1>0
<1>3. Consecutive(written, stream, peer')
  BY <1>0, <1>2 DEF Consecutive, EndsMessage
<1>4. ASSUME ~fault PROVE Synced(written, stream, peer', at', announced, handled)
  <2>1. PICK k \in 1..(Len(written) + 1) : Served(written, handled, k)
    BY <1>4 DEF IInv, Sync, Synced
  <2>2. Place(written, stream, peer', at', announced, k)
    BY <1>0, <1>2 DEF Place, Starts
  <2> QED BY <2>1, <2>2 DEF Synced
<1>5. ~fault' => Increasing(handled')
  BY <1>0 DEF IInv, Sorted
<1> QED BY <1>0, <1>1, <1>3, <1>4, <1>5, Afterwards

\* handleMessage with no message.
LEMMA HandleNilStep ==
  ASSUME IInv, HandleNil
  PROVE  IInv'
BY QuietStep, Lengths DEF IInv, HandleNil

-----------------------------------------------------------------------------
(* The invariant *)

LEMMA InitInv == Init => IInv
<1> SUFFICES ASSUME Init PROVE IInv
  OBVIOUS
<1>1. /\ written = <<>> /\ stream = <<>> /\ arrived = 0 /\ peer = "open" /\ at = "header"
      /\ announced = 0 /\ handled = <<>> /\ nameless = FALSE /\ fault = FALSE
  BY DEF Init
<1>2. Len(written) = 0 /\ Len(stream) = 0 /\ Len(handled) = 0
  BY <1>1
<1>3. TypeOK
  <2>1. written \in Seq(Sizes) /\ stream \in Seq(Cell) /\ handled \in Seq(1..MaxSent)
    BY <1>1
  <2>2. Len(written) <= MaxSent /\ arrived \in 0..Len(stream) /\ announced \in 0..MaxSize
    BY <1>1, <1>2, ConstAssumption
  <2>3. {nameless, fault} \subseteq BOOLEAN
    BY <1>1, Zenon
  <2> QED BY <1>1, <2>1, <2>2, <2>3 DEF TypeOK
<1>4. Stream
  BY <1>1, <1>2 DEF Stream, Consecutive, InMessages, Runs, Turns, EndsMessage
<1>5. Sync
  <2>1. Served(written, handled, 1) /\ Place(written, stream, peer, at, announced, 1)
    BY <1>1, <1>2 DEF Served, Place, Starts
  <2>2. 1 \in 1..(Len(written) + 1)
    BY <1>2
  <2> QED BY <2>1, <2>2 DEF Sync, Synced
<1>6. Sorted /\ NamelessWhy
  BY <1>1, <1>2 DEF Sorted, Increasing, NamelessWhy
<1> QED BY <1>3, <1>4, <1>5, <1>6 DEF IInv

LEMMA NextInv == IInv /\ [Next]_vars => IInv'
<1> SUFFICES ASSUME IInv, [Next]_vars PROVE IInv'
  OBVIOUS
<1>0. /\ TypeOK /\ stream \in Seq(Cell) /\ Len(stream) \in Nat /\ arrived \in Nat
      /\ arrived <= Len(stream) /\ arrived \in 0..Len(stream)
      /\ nameless \in BOOLEAN /\ at \in {"header", "payload", "nil", "removing", "gone"}
  BY Lengths DEF IInv, TypeOK
<1>1. ASSUME NEW size \in Sizes, Write(size) PROVE IInv'
  BY <1>1, WriteStep
<1>2. CASE Arrive
  <2>1. arrived' \in 0..Len(stream)
    BY <1>0, <1>2 DEF Arrive
  <2> QED BY <1>0, <1>2, <2>1, QuietStep DEF Arrive
<1>3. CASE Close
  <2>1. PICK n \in arrived..Len(stream) : stream' = SubSeq(stream, 1, n)
    BY <1>3 DEF Close
  <2>2. n \in 0..Len(stream) /\ arrived' \in 0..n
    BY <1>0, <1>3 DEF Close
  <2> QED BY <1>0, <1>3, <2>1, <2>2, EndStep DEF Close
<1>4. CASE Reset
  <2>1. PICK n \in 0..arrived : stream' = SubSeq(stream, 1, n) /\ arrived' = n
    BY <1>4 DEF Reset
  <2>2. n \in 0..Len(stream) /\ arrived' \in 0..n
    BY <1>0, <2>1
  <2> QED BY <1>0, <1>4, <2>1, <2>2, EndStep DEF Reset
<1>5. CASE LengthEof
  BY <1>0, <1>5, QuietStep DEF LengthEof
<1>6. CASE Remove
  BY <1>0, <1>6, QuietStep DEF Remove
<1>7. CASE Gone \/ UNCHANGED vars
  BY <1>0, <1>7, QuietStep DEF Gone, vars
<1>8. CASE ReadLength
  BY <1>8, ReadLengthStep
<1>9. CASE LengthFails
  BY <1>9, LengthFailsStep
<1>10. CASE ReadPayload
  BY <1>10, ReadPayloadStep
<1>11. CASE ReadEmpty
  BY <1>11, ReadEmptyStep
<1>12. CASE PayloadFails
  BY <1>12, PayloadFailsStep
<1>13. CASE HandleNil
  BY <1>13, HandleNilStep
<1> QED BY <1>1, <1>2, <1>3, <1>4, <1>5, <1>6, <1>7, <1>8, <1>9, <1>10, <1>11, <1>12, <1>13
        DEF Next, Handle

LEMMA Invariance == Spec => []IInv
BY InitInv, NextInv, PTL DEF Spec

-----------------------------------------------------------------------------
(* The theorems *)

\* The variables keep their types: no length beyond MaxSize is ever accepted, and
\* no more is read than has arrived, whatever garbage the bytes are read as.
THEOREM TypeCorrect == Spec => []TypeOK
<1>1. IInv => TypeOK
  BY DEF IInv
<1> QED BY <1>1, Invariance, PTL

\* Until a read is short or a message too big, Broker.handle starts to read a
\* length where the client's next message starts, in whatever pieces the bytes
\* of the messages arrive.
THEOREM StaysInStep == Spec => []InStep
<1>1. IInv => InStep
  <2> SUFFICES ASSUME IInv, ~fault, at = "header"
               PROVE  \E k \in 1..(Len(written) + 1) :
                        Boundary(k) /\ \A i \in 1..Len(handled) : handled[i] < k
    BY DEF InStep
  <2>1. PICK k \in 1..(Len(written) + 1) :
          Served(written, handled, k) /\ Place(written, stream, peer, at, announced, k)
    BY DEF IInv, Sync, Synced
  <2>2. Boundary(k)
    <3>1. Starts(written, stream, peer, k, 1) /\ stream \in Seq(Cell)
      BY <2>1 DEF Place, IInv, TypeOK
    <3>2. CASE stream = <<>>
      BY <3>2 DEF Boundary
    <3>3. CASE stream # <<>>
      <4>1. Len(stream) # 0 /\ Head(stream) = stream[1]
        BY <3>1, <3>3
      <4> QED BY <3>1, <3>3, <4>1 DEF Boundary, Starts, At
    <3> QED BY <3>2, <3>3
  <2>3. \A i \in 1..Len(handled) : handled[i] < k
    BY <2>1 DEF Served
  <2> QED BY <2>2, <2>3
<1> QED BY <1>1, Invariance, PTL

\* Until then handleMessage gets the messages the client has written, each once,
\* in the order they were written, and misses none but the empty ones.
THEOREM HandledInOrder == Spec => []InOrder
<1>1. IInv => InOrder
  <2> SUFFICES ASSUME IInv, ~fault
               PROVE  /\ \A i, j \in 1..Len(handled) : i < j => handled[i] < handled[j]
                      /\ \A k \in 1..Len(written) :
                           (\E i \in 1..Len(handled) : handled[i] > k) /\ written[k] > 0
                             => \E i \in 1..Len(handled) : handled[i] = k
    BY DEF InOrder
  <2>1. \A i, j \in 1..Len(handled) : i < j => handled[i] < handled[j]
    BY DEF IInv, Sorted, Increasing
  <2>2. ASSUME NEW k \in 1..Len(written), NEW i \in 1..Len(handled), handled[i] > k, written[k] > 0
        PROVE  \E j \in 1..Len(handled) : handled[j] = k
    <3>1. PICK m \in 1..(Len(written) + 1) : Served(written, handled, m)
      BY DEF IInv, Sync, Synced
    <3>2. handled[i] \in Nat /\ Len(written) \in Nat
      BY Lengths, ConstAssumption DEF IInv, TypeOK
    <3>3. k < m
      <4>1. handled[i] < m
        BY <3>1 DEF Served
      <4> QED BY <2>2, <3>2, <4>1
    <3> QED BY <2>2, <3>1, <3>3 DEF Served
  <2> QED BY <2>1, <2>2
<1> QED BY <1>1, Invariance, PTL

\* A client gets registered under no name only when one of its messages is empty,
\* its connection is lost, or its stream is out of step.
THEOREM NamelessExplained == Spec => []OnlyBroken
<1>1. IInv => OnlyBroken
  BY DEF IInv, NamelessWhy, Empty, OnlyBroken
<1> QED BY <1>1, Invariance, PTL

=============================================================================
