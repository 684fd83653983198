-------------------------- MODULE PublishLogProofs --------------------------
(***************************************************************************)
(* For every number of publishes, seconds and restarts: the log of a       *)
(* session in which the first publishes did not overlap, and that was not  *)
(* started twice, holds what was written, and get_logs shows more and more *)
(* of it; and once the race to create a file is over, lines stay.          *)
(***************************************************************************)
EXTENDS PublishLog, SequenceTheorems, TLAPS

-----------------------------------------------------------------------------
(* Writes *)

\* What is written of a line is a sequence of that many characters.
LEMMA LineIs ==
  ASSUME NEW p \in Publish, NEW n \in 1..Size[p]
  PROVE  Line(p, n) \in Seq(Publish) /\ Len(Line(p, n)) = n /\ n \in Nat \ {0}
<1>1. n \in Nat \ {0}
  BY ConstAssumption
<1> QED BY <1>1 DEF Line

\* A write at an offset leaves what is before it, and puts the line at it.
Written(text, o, line, new) ==
  /\ new \in Seq(Cell)
  /\ Len(new) = IF o + Len(line) > Len(text) THEN o + Len(line) ELSE Len(text)
  /\ \A i \in 1..Len(line) : new[o + i] = line[i]
  /\ \A i \in 1..Len(text) : i <= o => new[i] = text[i]

LEMMA OverwriteIs ==
  ASSUME NEW text \in Seq(Cell), NEW o \in Nat, NEW line \in Seq(Publish),
         NEW new, new = Overwrite(text, o, line)
  PROVE  Written(text, o, line, new)
<1> DEFINE end == o + Len(line)
           len == IF end > Len(text) THEN end ELSE Len(text)
           at(i) == IF i \in (o + 1)..end THEN line[i - o]
                    ELSE IF i <= Len(text) THEN text[i] ELSE Hole
<1>1. Len(text) \in Nat /\ Len(line) \in Nat /\ len \in Nat /\ len >= end /\ len >= Len(text)
  OBVIOUS
<1>2. new = [i \in 1..len |-> at(i)]
  BY DEF Overwrite
<1>3. ASSUME NEW i \in 1..len PROVE at(i) \in Cell
  <2>1. CASE i \in (o + 1)..end
    <3>1. i - o \in 1..Len(line)
      BY <1>1, <2>1
    <3> QED BY <2>1, <3>1 DEF Cell
  <2>2. CASE i \notin (o + 1)..end /\ i <= Len(text)
    <3>1. i \in 1..Len(text)
      BY <1>1, <2>2
    <3> QED BY <2>2, <3>1
  <2> QED BY <2>1, <2>2 DEF Cell
<1>4. new \in Seq(Cell) /\ Len(new) = len
  <2> HIDE DEF len, at
  <2> QED BY <1>1, <1>2, <1>3
<1>5. ASSUME NEW i \in 1..Len(line) PROVE new[o + i] = line[i]
  <2>1. o + i \in 1..len /\ o + i \in (o + 1)..end /\ (o + i) - o = i
    BY <1>1
  <2> QED BY <1>2, <2>1
<1>6. ASSUME NEW i \in 1..Len(text), i <= o PROVE new[i] = text[i]
  <2>1. i \in 1..len /\ i \notin (o + 1)..end
    BY <1>1, <1>6
  <2> QED BY <1>2, <2>1
<1> QED BY <1>4, <1>5, <1>6 DEF Written

\* A write at the end of the file appends to it.
LEMMA AppendIs ==
  ASSUME NEW text \in Seq(Publish), NEW line \in Seq(Publish)
  PROVE  Overwrite(text, Len(text), line) = text \o line
<1>1. text \in Seq(Cell) /\ Len(text) \in Nat /\ Len(line) \in Nat
  <2>1. Publish \subseteq Cell
    BY DEF Cell
  <2> QED BY <2>1
<1>0. PICK new : new = Overwrite(text, Len(text), line)
  OBVIOUS
<1>2. /\ new \in Seq(Cell) /\ Len(new) = Len(text) + Len(line)
      /\ \A i \in 1..Len(line) : new[Len(text) + i] = line[i]
      /\ \A i \in 1..Len(text) : new[i] = text[i]
  <2>1. Written(text, Len(text), line, new)
    BY <1>0, <1>1, OverwriteIs
  <2> QED BY <1>1, <2>1 DEF Written
<1>3. text \o line \in Seq(Cell) /\ Len(text \o line) = Len(text) + Len(line)
  <2>1. line \in Seq(Cell)
    BY DEF Cell
  <2> QED BY <1>1, <2>1, ConcatProperties
<1>4. ASSUME NEW i \in 1..(Len(text) + Len(line)) PROVE new[i] = (text \o line)[i]
  <2>1. (text \o line)[i] = IF i <= Len(text) THEN text[i] ELSE line[i - Len(text)]
    BY ConcatProperties
  <2>2. CASE i <= Len(text)
    BY <1>1, <1>2, <2>1, <2>2
  <2>3. CASE ~(i <= Len(text))
    <3>1. i - Len(text) \in 1..Len(line) /\ Len(text) + (i - Len(text)) = i
      BY <1>1, <2>3
    <3>2. new[Len(text) + (i - Len(text))] = line[i - Len(text)]
      BY <1>2, <3>1
    <3> QED BY <2>1, <2>3, <3>1, <3>2
  <2> QED BY <2>2, <2>3
<1>5. new = text \o line
  BY <1>2, <1>3, <1>4, SeqEqual
<1> QED BY <1>0, <1>5

LEMMA PrefixIs ==
  ASSUME NEW s \in Seq(Cell), NEW t \in Seq(Cell)
  PROVE  IsExtension(s, t) <=> Len(s) <= Len(t) /\ \A i \in 1..Len(s) : t[i] = s[i]
<1>1. Len(s) \in Nat /\ Len(t) \in Nat
  OBVIOUS
<1> SUFFICES ASSUME Len(s) <= Len(t)
             PROVE  SubSeq(t, 1, Len(s)) = s <=> \A i \in 1..Len(s) : t[i] = s[i]
  BY DEF IsExtension
<1>2. SubSeq(t, 1, Len(s)) \in Seq(Cell) /\ Len(SubSeq(t, 1, Len(s))) = Len(s)
      /\ \A i \in 1..Len(s) : SubSeq(t, 1, Len(s))[i] = t[i]
  BY <1>1, SubSeqProperties
<1>3. ASSUME \A i \in 1..Len(s) : t[i] = s[i] PROVE SubSeq(t, 1, Len(s)) = s
  BY <1>2, <1>3, SeqEqual
<1> QED BY <1>2, <1>3

-----------------------------------------------------------------------------
(***************************************************************************)
(* The inductive invariant.  A session that has not raced creates its file *)
(* once, before anything is written, and all its writes go through the     *)
(* handle that was stored, whose offset is the end of the file.  In any    *)
(* session, after a calm moment, no publish creates the file again and all *)
(* write through the handle that was stored.                               *)
(***************************************************************************)
Starting(p) == pub[p] \in {"create", "store"}

Handles ==
  /\ \A p \in Publish : pub[p] \in {"idle", "create"} => handle[p] = None
  /\ \A p \in Publish : pub[p] = "store" => handle[p] = p
  /\ \A p \in Publish : pub[p] = "write" => handle[p] \in Publish /\ loggers # None
  /\ loggers # None => pub[loggers] \in {"write", "done"}

FutureEmpty ==
  /\ session <= clock
  /\ \A s \in Second : s > session => file[s] = <<>> /\ wrote[s] = <<>>

OneCreates ==
  session \notin raced =>
    /\ \A p, q \in Publish : Starting(p) /\ Starting(q) => p = q
    /\ \A p \in Publish : Starting(p) => loggers = None
    /\ \A p \in Publish : pub[p] = "store" => offset[p] = 0
    /\ \A p \in Publish : pub[p] = "write" => handle[p] = loggers

AtTheEnd ==
  /\ session \notin reused /\ loggers = None => wrote[session] = <<>>
  /\ Clean(session) /\ loggers # None => offset[loggers] = Len(file[session])

Calm ==
  /\ calm => /\ loggers # None
             /\ \A p \in Publish : InProgress(p) => pub[p] = "write" /\ handle[p] = loggers
  /\ kept # <<>> => calm

Kept ==
  kept # <<>> =>
    /\ offset[loggers] \in Len(kept)..Len(file[session])
    /\ \A i \in 1..Len(kept) : file[session][offset[loggers] - Len(kept) + i] = kept[i]

ShownIsPrefix ==
  Clean(shown.session) => IsExtension(shown.text, file[shown.session])

IInv ==
  /\ TypeOK
  /\ Handles /\ FutureEmpty
  /\ OneCreates /\ LogExact /\ AtTheEnd
  /\ Calm /\ Kept
  /\ ShownIsPrefix

LEMMA InitIInv == Init => IInv
<1> SUFFICES ASSUME Init PROVE IInv
  OBVIOUS
<1>1. TypeOK
  <2>1. 0 \in Second /\ 0 \in 0..MaxRestarts /\ <<>> \in Seq(Cell) /\ <<>> \in Seq(Publish)
    BY ConstAssumption DEF Second
  <2> QED BY <2>1 DEF Init, TypeOK
<1>2. Handles /\ OneCreates /\ LogExact /\ Calm /\ Kept
  BY DEF Init, Handles, OneCreates, Starting, LogExact, Calm, Kept
<1>3. FutureEmpty /\ AtTheEnd
  BY ConstAssumption DEF Init, FutureEmpty, AtTheEnd, Second
<1>4. ShownIsPrefix
  <2>1. shown.text = <<>> /\ file[shown.session] = <<>> /\ <<>> \in Seq(Cell)
    BY ConstAssumption DEF Init, Second
  <2>2. PICK e \in Seq(Cell) : e = <<>>
    BY <2>1
  <2>3. IsExtension(e, e)
    BY PrefixIs
  <2> QED BY <2>1, <2>2, <2>3 DEF ShownIsPrefix
<1> QED BY <1>1, <1>2, <1>3, <1>4 DEF IInv

\* The parts that only read the files.
LEMMA FilesSame ==
  ASSUME IInv, UNCHANGED <<file, wrote, shown>>, raced \subseteq raced', reused \subseteq reused'
  PROVE  LogExact' /\ ShownIsPrefix'
BY DEF IInv, LogExact, ShownIsPrefix, Clean

LEMMA LoadHitInv ==
  ASSUME IInv, NEW p \in Publish, LoadHit(p)
  PROVE  IInv'
<1>1. /\ pub[p] = "idle" /\ loggers # None /\ loggers \in Publish
      /\ pub' = [pub EXCEPT ![p] = "write"] /\ handle' = [handle EXCEPT ![p] = loggers]
      /\ calm' = (calm \/ \A q \in Publish : InProgress(q) => handle[q] = loggers)
      /\ UNCHANGED <<clock, restarts, session, file, offset, loggers, shown, wrote, kept, raced, reused>>
      /\ pub \in [Publish -> {"idle", "create", "store", "write", "done"}]
      /\ handle \in [Publish -> Publish \cup {None}] /\ calm \in BOOLEAN
  BY DEF IInv, TypeOK, LoadHit, process, disk
<1>2. TypeOK'
  BY <1>1 DEF IInv, TypeOK
<1>3. Handles' /\ FutureEmpty'
  BY <1>1, ConstAssumption DEF IInv, Handles, FutureEmpty
<1>4. OneCreates' /\ AtTheEnd'
  BY <1>1 DEF IInv, OneCreates, AtTheEnd, Starting, Clean
<1>5. Calm'
  <2>1. ASSUME \A q \in Publish : InProgress(q) => handle[q] = loggers, NEW q \in Publish, InProgress(q)
        PROVE  pub[q] = "write"
    BY <1>1, <2>1, ConstAssumption DEF IInv, Handles, InProgress
  <2>2. ASSUME calm', NEW q \in Publish, InProgress(q) PROVE pub[q] = "write" /\ handle[q] = loggers
    BY <1>1, <2>1, <2>2 DEF IInv, Calm
  <2> QED BY <1>1, <2>2 DEF IInv, Calm, InProgress
<1>6. Kept'
  BY <1>1 DEF IInv, Kept
<1> QED BY <1>1, <1>2, <1>3, <1>4, <1>5, <1>6, FilesSame DEF IInv

LEMMA LoadMissInv ==
  ASSUME IInv, NEW p \in Publish, LoadMiss(p)
  PROVE  IInv'
<1>1. /\ pub[p] = "idle" /\ loggers = None
      /\ pub' = [pub EXCEPT ![p] = "create"]
      /\ raced' = IF \E q \in Publish : pub[q] \in {"create", "store"}
                  THEN raced \cup {session} ELSE raced
      /\ UNCHANGED <<clock, restarts, session, file, offset, loggers, handle, shown, wrote, calm, kept, reused>>
      /\ pub \in [Publish -> {"idle", "create", "store", "write", "done"}]
      /\ session \in Second
  BY DEF IInv, TypeOK, LoadMiss, process, disk
<1>2. TypeOK'
  BY <1>1 DEF IInv, TypeOK
<1>3. Handles' /\ FutureEmpty'
  BY <1>1, ConstAssumption DEF IInv, Handles, FutureEmpty
<1>4. OneCreates'
  BY <1>1 DEF IInv, OneCreates, Starting
<1>5. AtTheEnd' /\ Kept'
  BY <1>1 DEF IInv, AtTheEnd, Clean, Kept
<1>6. Calm'
  BY <1>1 DEF IInv, Calm
<1>7. raced \subseteq raced'
  BY <1>1
<1> QED BY <1>1, <1>2, <1>3, <1>4, <1>5, <1>6, <1>7, FilesSame DEF IInv

LEMMA CreateFailsInv ==
  ASSUME IInv, NEW p \in Publish, CreateFails(p)
  PROVE  IInv'
<1>1. /\ pub[p] = "create" /\ pub' = [pub EXCEPT ![p] = "done"]
      /\ UNCHANGED <<clock, restarts, session, file, offset, loggers, handle, shown, wrote, calm, kept, raced, reused>>
      /\ pub \in [Publish -> {"idle", "create", "store", "write", "done"}]
  BY DEF IInv, TypeOK, CreateFails, process, disk, history
<1>2. TypeOK'
  BY <1>1 DEF IInv, TypeOK
<1>3. Handles' /\ FutureEmpty'
  BY <1>1, ConstAssumption DEF IInv, Handles, FutureEmpty
<1>4. OneCreates' /\ AtTheEnd' /\ Kept'
  BY <1>1 DEF IInv, OneCreates, Starting, AtTheEnd, Clean, Kept
<1>5. Calm'
  BY <1>1 DEF IInv, Calm, InProgress
<1> QED BY <1>1, <1>2, <1>3, <1>4, <1>5, FilesSame DEF IInv

LEMMA WriteFailsInv ==
  ASSUME IInv, NEW p \in Publish, WriteFails(p)
  PROVE  IInv'
<1>1. /\ pub[p] = "write" /\ pub' = [pub EXCEPT ![p] = "done"]
      /\ UNCHANGED <<clock, restarts, session, file, offset, loggers, handle, shown, wrote, calm, kept, raced, reused>>
      /\ pub \in [Publish -> {"idle", "create", "store", "write", "done"}]
  BY DEF IInv, TypeOK, WriteFails, process, disk, history
<1>2. TypeOK'
  BY <1>1 DEF IInv, TypeOK
<1>3. Handles' /\ FutureEmpty'
  BY <1>1, ConstAssumption DEF IInv, Handles, FutureEmpty
<1>4. OneCreates' /\ AtTheEnd' /\ Kept'
  BY <1>1 DEF IInv, OneCreates, Starting, AtTheEnd, Clean, Kept
<1>5. Calm'
  BY <1>1 DEF IInv, Calm, InProgress
<1> QED BY <1>1, <1>2, <1>3, <1>4, <1>5, FilesSame DEF IInv

LEMMA StoreInv ==
  ASSUME IInv, NEW p \in Publish, Store(p)
  PROVE  IInv'
<1>1. /\ pub[p] = "store" /\ loggers' = p /\ pub' = [pub EXCEPT ![p] = "write"]
      /\ UNCHANGED <<clock, restarts, session, file, offset, handle, shown, wrote, calm, kept, raced, reused>>
      /\ pub \in [Publish -> {"idle", "create", "store", "write", "done"}]
      /\ session \in Second /\ p # None
  BY ConstAssumption DEF IInv, TypeOK, Store, process, disk, history
<1>2. TypeOK'
  BY <1>1 DEF IInv, TypeOK
<1>3. Handles' /\ FutureEmpty'
  BY <1>1, ConstAssumption DEF IInv, Handles, FutureEmpty
<1>4. OneCreates'
  BY <1>1 DEF IInv, OneCreates, Starting, Handles
<1>5. AtTheEnd'
  <2>1. ASSUME Clean(session) PROVE offset[p] = Len(file[session])
    <3>1. loggers = None /\ offset[p] = 0
      BY <1>1, <2>1 DEF IInv, OneCreates, Starting, Clean
    <3>2. file[session] = <<>>
      BY <1>1, <2>1, <3>1 DEF IInv, AtTheEnd, LogExact, Clean
    <3> QED BY <3>1, <3>2
  <2> QED BY <1>1, <2>1 DEF AtTheEnd, Clean
<1>6. ~calm /\ kept = <<>>
  BY <1>1 DEF IInv, Calm, InProgress
<1>7. Calm' /\ Kept'
  BY <1>1, <1>6 DEF Calm, Kept
<1> QED BY <1>1, <1>2, <1>3, <1>4, <1>5, <1>7, FilesSame DEF IInv

LEMMA CreateInv ==
  ASSUME IInv, NEW p \in Publish, Create(p)
  PROVE  IInv'
<1>1. /\ pub[p] = "create" /\ pub' = [pub EXCEPT ![p] = "store"]
      /\ file' = [file EXCEPT ![session] = <<>>] /\ offset' = [offset EXCEPT ![p] = 0]
      /\ handle' = [handle EXCEPT ![p] = p]
      /\ UNCHANGED <<clock, restarts, session, loggers, shown, wrote, calm, kept, raced, reused>>
      /\ pub \in [Publish -> {"idle", "create", "store", "write", "done"}]
      /\ file \in [Second -> Seq(Cell)] /\ offset \in [Publish -> Nat]
      /\ handle \in [Publish -> Publish \cup {None}] /\ session \in Second
  BY DEF IInv, TypeOK, Create, process, history
<1>2. TypeOK'
  <2>1. <<>> \in Seq(Cell)
    OBVIOUS
  <2>2. file' \in [Second -> Seq(Cell)] /\ offset' \in [Publish -> Nat]
    BY <1>1, <2>1
  <2> QED BY <1>1, <2>2 DEF IInv, TypeOK
<1>3. Handles' /\ FutureEmpty'
  BY <1>1, ConstAssumption DEF IInv, Handles, FutureEmpty
<1>4. OneCreates'
  BY <1>1 DEF IInv, OneCreates, Starting
<1>5. ASSUME Clean(session) PROVE loggers = None /\ wrote[session] = <<>> /\ file[session] = <<>>
  BY <1>1, <1>5 DEF IInv, OneCreates, Starting, AtTheEnd, LogExact, Clean
<1>6. AtTheEnd' /\ LogExact'
  BY <1>1, <1>5 DEF IInv, AtTheEnd, LogExact, Clean
<1>7. ~calm /\ kept = <<>>
  BY <1>1 DEF IInv, Calm, InProgress
<1>8. Calm' /\ Kept'
  BY <1>1, <1>7 DEF Calm, Kept
<1>9. ShownIsPrefix'
  <2>1. ASSUME Clean(shown.session) PROVE file'[shown.session] = file[shown.session]
    BY <1>1, <1>5, <2>1 DEF IInv, TypeOK
  <2> QED BY <1>1, <2>1 DEF IInv, ShownIsPrefix, Clean
<1> QED BY <1>2, <1>3, <1>4, <1>6, <1>8, <1>9 DEF IInv

LEMMA WriteLineInv ==
  ASSUME IInv, NEW p \in Publish, NEW l \in 1..Size[p], WriteLine(p, l)
  PROVE  IInv'
<1>1. PICK h, o, text, line, new :
        /\ h = handle[p] /\ o = offset[h] /\ text = file[session] /\ line = Line(p, l)
        /\ new = Overwrite(text, o, line)
  OBVIOUS
<1>2. /\ pub[p] = "write" /\ pub' = [pub EXCEPT ![p] = "done"]
      /\ file' = [file EXCEPT ![session] = new] /\ offset' = [offset EXCEPT ![h] = o + l]
      /\ wrote' = [wrote EXCEPT ![session] = @ \o line]
      /\ kept' = IF calm THEN kept \o line ELSE kept
      /\ UNCHANGED <<clock, restarts, session, loggers, handle, shown, calm, raced, reused>>
  BY <1>1 DEF WriteLine, process
<1>3. /\ pub \in [Publish -> {"idle", "create", "store", "write", "done"}]
      /\ file \in [Second -> Seq(Cell)] /\ wrote \in [Second -> Seq(Publish)]
      /\ offset \in [Publish -> Nat] /\ kept \in Seq(Publish) /\ session \in Second
      /\ shown \in [session : Second, text : Seq(Cell)]
  BY DEF IInv, TypeOK
<1>4. h \in Publish /\ loggers # None
  BY <1>1, <1>2 DEF IInv, Handles
<1>5. line \in Seq(Publish) /\ Len(line) = l /\ l \in Nat /\ line # <<>>
  BY <1>1, LineIs
<1>6. Written(text, o, line, new) /\ o \in Nat /\ text \in Seq(Cell) /\ new \in Seq(Cell)
  <2>1. o \in Nat /\ text \in Seq(Cell)
    BY <1>1, <1>3, <1>4
  <2>2. Written(text, o, line, new)
    BY <1>1, <1>5, <2>1, OverwriteIs
  <2> QED BY <2>1, <2>2 DEF Written
<1>7. wrote[session] \o line \in Seq(Publish) /\ kept \o line \in Seq(Publish)
  BY <1>3, <1>5, ConcatProperties
<1>8. TypeOK'
  <2>1. file' \in [Second -> Seq(Cell)] /\ wrote' \in [Second -> Seq(Publish)]
    BY <1>2, <1>3, <1>6, <1>7
  <2>2. offset' \in [Publish -> Nat] /\ kept' \in Seq(Publish)
    <3>1. o + l \in Nat
      BY <1>5, <1>6
    <3>2. offset' \in [Publish -> Nat]
      BY <1>2, <1>3, <3>1
    <3>3. kept' \in Seq(Publish)
      <4>1. CASE calm
        BY <1>2, <1>7, <4>1
      <4>2. CASE ~calm
        BY <1>2, <1>3, <4>2
      <4> QED BY <4>1, <4>2
    <3> QED BY <3>2, <3>3
  <2> QED BY <1>2, <1>3, <2>1, <2>2 DEF IInv, TypeOK
<1>9. Handles' /\ FutureEmpty'
  <2>1. Handles'
    BY <1>2, <1>3, <1>4, ConstAssumption DEF IInv, Handles
  <2>2. FutureEmpty'
    BY <1>2, <1>3 DEF IInv, FutureEmpty, Second
  <2> QED BY <2>1, <2>2
<1>10. OneCreates'
  BY <1>2, <1>3, <1>4 DEF IInv, OneCreates, Starting
<1>11. ASSUME Clean(session)
       PROVE  new = wrote[session] \o line /\ o = Len(text) /\ h = loggers /\ text = wrote[session]
  <2>1. h = loggers /\ o = Len(text) /\ text = wrote[session]
    BY <1>1, <1>2, <1>3, <1>4, <1>11 DEF IInv, OneCreates, AtTheEnd, LogExact, Clean
  <2>2. text \in Seq(Publish)
    BY <1>3, <2>1
  <2> QED BY <1>1, <1>5, <2>1, <2>2, AppendIs
<1>12. LogExact'
  BY <1>2, <1>3, <1>11 DEF IInv, LogExact, Clean
<1>13. AtTheEnd'
  <2>1. ASSUME Clean(session) PROVE Len(new) = o + l
    BY <1>5, <1>6, <1>11, <2>1 DEF Written
  <2> QED BY <1>2, <1>3, <1>4, <1>11, <2>1 DEF AtTheEnd, Clean
<1>14. Calm'
  <2>1. calm' => loggers' # None /\ \A q \in Publish : InProgress(q)' => pub'[q] = "write" /\ handle'[q] = loggers'
    BY <1>2, <1>3 DEF IInv, Calm, InProgress
  <2>2. kept' # <<>> => calm'
    BY <1>2 DEF IInv, Calm
  <2> QED BY <2>1, <2>2 DEF Calm
<1>15. Kept'
  <2>1. CASE ~calm
    BY <1>2, <2>1 DEF IInv, Calm, Kept
  <2>2. CASE calm
    <3>1. h = loggers /\ kept' = kept \o line /\ file'[session'] = new /\ offset'[loggers'] = o + l
      BY <1>1, <1>2, <1>3, <1>4, <2>2 DEF IInv, Calm, InProgress
    <3>2. PICK n, m : n = Len(kept) /\ m = Len(line)
      OBVIOUS
    <3>3. /\ n \in Nat /\ m \in Nat /\ m = l /\ Len(kept') = n + m
          /\ \A i \in 1..(n + m) : kept'[i] = IF i <= n THEN kept[i] ELSE line[i - n]
      <4>1. kept \in Seq(Publish) /\ line \in Seq(Publish) /\ n \in Nat /\ m \in Nat /\ m = l
        BY <1>3, <1>5, <3>2
      <4>2. /\ Len(kept \o line) = Len(kept) + Len(line)
            /\ \A i \in 1..(Len(kept) + Len(line)) :
                 (kept \o line)[i] = IF i <= Len(kept) THEN kept[i] ELSE line[i - Len(kept)]
        BY <4>1, ConcatProperties
      <4> QED BY <3>1, <3>2, <4>1, <4>2
    <3>4. n > 0 => n <= o /\ o <= Len(text) /\ \A i \in 1..n : text[o - n + i] = kept[i]
      <4>1. ASSUME n > 0 PROVE kept # <<>>
        BY <3>2, <4>1
      <4> QED BY <1>1, <3>1, <3>2, <3>3, <4>1 DEF IInv, Kept
    <3>5. /\ Len(text) \in Nat
          /\ Len(new) = IF o + m > Len(text) THEN o + m ELSE Len(text)
          /\ \A i \in 1..m : new[o + i] = line[i]
          /\ \A i \in 1..Len(text) : i <= o => new[i] = text[i]
      BY <1>6, <3>2 DEF Written
    <3>6. o + m \in (n + m)..Len(new)
      <4>1. o \in Nat /\ n \in Nat /\ m \in Nat /\ n <= o
        BY <1>6, <3>3, <3>4
      <4>2. Len(new) \in Nat /\ o + m <= Len(new)
        BY <3>5, <4>1
      <4> QED BY <4>1, <4>2
    <3>7. ASSUME NEW i \in 1..(n + m) PROVE new[(o + m) - (n + m) + i] = kept'[i]
      <4>1. CASE i <= n
        <5>1. n > 0 /\ i \in 1..n
          BY <3>3, <4>1
        <5>2. o - n + i \in 1..Len(text) /\ o - n + i <= o /\ (o + m) - (n + m) + i = o - n + i
          BY <1>6, <3>3, <3>4, <3>5, <5>1, SMTT(40)
        <5>3. new[o - n + i] = text[o - n + i] /\ text[o - n + i] = kept[i]
          BY <3>4, <3>5, <5>1, <5>2
        <5> QED BY <3>3, <4>1, <5>2, <5>3
      <4>2. CASE ~(i <= n)
        <5>1. i - n \in 1..m /\ (o + m) - (n + m) + i = o + (i - n)
          BY <1>6, <3>3, <4>2
        <5>2. new[o + (i - n)] = line[i - n]
          BY <3>5, <5>1
        <5> QED BY <3>3, <4>2, <5>1, <5>2
      <4> QED BY <4>1, <4>2
    <3> QED BY <3>1, <3>3, <3>6, <3>7 DEF Kept
  <2> QED BY <2>1, <2>2
<1>16. ShownIsPrefix'
  <2> SUFFICES ASSUME Clean(shown.session)
               PROVE  IsExtension(shown.text, file'[shown.session])
    BY <1>2 DEF ShownIsPrefix, Clean
  <2>1. IsExtension(shown.text, file[shown.session])
    BY DEF IInv, ShownIsPrefix
  <2>2. CASE shown.session # session
    BY <1>2, <1>3, <2>1, <2>2
  <2>3. CASE shown.session = session
    <3>1. shown.text \in Seq(Cell) /\ file'[session] = new /\ file[session] = text
      BY <1>1, <1>2, <1>3
    <3>2. Len(shown.text) <= Len(text) /\ \A i \in 1..Len(shown.text) : text[i] = shown.text[i]
      BY <1>6, <2>1, <2>3, <3>1, PrefixIs
    <3>3. /\ Len(text) \in Nat /\ Len(shown.text) \in Nat /\ o = Len(text)
          /\ Len(new) >= Len(text) /\ \A i \in 1..Len(text) : new[i] = text[i]
      BY <1>5, <1>6, <1>11, <2>3, <3>1 DEF Written
    <3>4. Len(shown.text) <= Len(new) /\ \A i \in 1..Len(shown.text) : new[i] = shown.text[i]
      BY <1>6, <3>2, <3>3
    <3>5. IsExtension(shown.text, new)
      BY <1>6, <3>1, <3>4, PrefixIs
    <3> QED BY <2>3, <3>1, <3>5
  <2> QED BY <2>2, <2>3
<1> QED BY <1>8, <1>9, <1>10, <1>12, <1>13, <1>14, <1>15, <1>16 DEF IInv

LEMMA GetLogsInv ==
  ASSUME IInv, GetLogsByPattern
  PROVE  IInv'
<1>1. /\ shown' = [session |-> session, text |-> file[session]]
      /\ UNCHANGED <<clock, restarts, session, file, offset, loggers, pub, handle, wrote, calm, kept, raced, reused>>
      /\ file \in [Second -> Seq(Cell)] /\ session \in Second
  BY DEF IInv, TypeOK, GetLogsByPattern, process, disk, history
<1>2. file[session] \in Seq(Cell)
  BY <1>1
<1>3. TypeOK'
  BY <1>1, <1>2 DEF IInv, TypeOK
<1>4. Handles' /\ FutureEmpty' /\ OneCreates' /\ LogExact' /\ AtTheEnd' /\ Calm' /\ Kept'
  BY <1>1 DEF IInv, Handles, FutureEmpty, OneCreates, Starting, LogExact, Clean, AtTheEnd, Calm,
     InProgress, Kept
<1>5. IsExtension(file[session], file[session])
  BY <1>2, PrefixIs
<1>6. ShownIsPrefix'
  BY <1>1, <1>5 DEF ShownIsPrefix
<1> QED BY <1>3, <1>4, <1>6 DEF IInv

LEMMA TickInv ==
  ASSUME IInv, Tick
  PROVE  IInv'
<1>1. /\ clock < MaxSecond /\ clock' = clock + 1
      /\ UNCHANGED <<restarts, session, file, offset, loggers, pub, handle, shown, wrote, calm, kept, raced, reused>>
      /\ clock \in 0..MaxSecond /\ session \in 0..MaxSecond
  BY DEF IInv, TypeOK, Second, Tick, disk, history
<1>2. TypeOK'
  BY <1>1, ConstAssumption, SMTT(40) DEF IInv, TypeOK, Second
<1>3. FutureEmpty'
  BY <1>1, ConstAssumption DEF IInv, FutureEmpty
<1>4. Handles' /\ OneCreates' /\ AtTheEnd' /\ Calm' /\ Kept'
  BY <1>1 DEF IInv, Handles, OneCreates, Starting, Clean, AtTheEnd, Calm, InProgress, Kept
<1> QED BY <1>1, <1>2, <1>3, <1>4, FilesSame DEF IInv

LEMMA RotateInv ==
  ASSUME IInv, rotatePublishLoggers
  PROVE  IInv'
<1>1. /\ restarts < MaxRestarts /\ restarts' = restarts + 1 /\ session' = clock /\ loggers' = None
      /\ pub' = [p \in Publish |-> IF InProgress(p) THEN "done" ELSE pub[p]]
      /\ handle' = [p \in Publish |-> None] /\ calm' = FALSE /\ kept' = <<>>
      /\ reused' = IF clock = session THEN reused \cup {clock} ELSE reused
      /\ UNCHANGED <<clock, file, offset, shown, wrote, raced>>
  BY DEF rotatePublishLoggers, disk
<1>2. /\ pub \in [Publish -> {"idle", "create", "store", "write", "done"}]
      /\ restarts \in 0..MaxRestarts /\ clock \in Second /\ session \in Second
  BY DEF IInv, TypeOK
<1>3. \A p \in Publish : pub'[p] \in {"idle", "done"}
  BY <1>1, <1>2 DEF InProgress
<1>4. TypeOK'
  <2>1. restarts' \in 0..MaxRestarts /\ kept' \in Seq(Publish)
    BY <1>1, <1>2, ConstAssumption
  <2>2. pub' \in [Publish -> {"idle", "create", "store", "write", "done"}]
    BY <1>1, <1>2
  <2> QED BY <1>1, <1>2, <2>1, <2>2 DEF IInv, TypeOK
<1>5. Handles' /\ OneCreates' /\ Calm' /\ Kept'
  BY <1>1, <1>3 DEF Handles, OneCreates, Starting, Calm, InProgress, Kept
<1>6. FutureEmpty'
  BY <1>1, <1>2, ConstAssumption DEF IInv, FutureEmpty, Second
<1>7. AtTheEnd'
  <2>1. CASE clock = session
    BY <1>1, <2>1 DEF AtTheEnd
  <2>2. CASE clock # session
    <3>1. clock > session
      BY <1>2, <2>2, ConstAssumption DEF IInv, FutureEmpty, Second
    <3>2. wrote[clock] = <<>>
      BY <1>2, <3>1 DEF IInv, FutureEmpty
    <3> QED BY <1>1, <3>2 DEF AtTheEnd
  <2> QED BY <2>1, <2>2
<1>8. reused \subseteq reused'
  BY <1>1
<1> QED BY <1>1, <1>4, <1>5, <1>6, <1>7, <1>8, FilesSame DEF IInv

-----------------------------------------------------------------------------
(* The theorems *)

LEMMA NextIInv == IInv /\ [Next]_vars => IInv'
<1> SUFFICES ASSUME IInv, [Next]_vars PROVE IInv'
  OBVIOUS
<1>1. ASSUME NEW p \in Publish, handleLoggingPublish(p) PROVE IInv'
  BY <1>1, LoadHitInv, LoadMissInv, CreateInv, CreateFailsInv, StoreInv, WriteLineInv,
     WriteFailsInv
     DEF handleLoggingPublish
<1>2. CASE UNCHANGED vars
  <2>1. UNCHANGED <<clock, restarts, session, file, offset, loggers, pub, handle, shown, wrote, calm,
                    kept, raced, reused>>
    BY <1>2 DEF vars, process, disk, history
  <2>2. TypeOK' /\ Handles' /\ FutureEmpty' /\ OneCreates' /\ AtTheEnd' /\ Calm' /\ Kept'
    BY <2>1 DEF IInv, TypeOK, Handles, FutureEmpty, OneCreates, Starting, Clean, AtTheEnd, Calm,
       InProgress, Kept
  <2> QED BY <2>1, <2>2, FilesSame DEF IInv
<1> QED BY <1>1, <1>2, GetLogsInv, TickInv, RotateInv DEF Next

LEMMA AlwaysIInv == Spec => []IInv
BY InitIInv, NextIInv, PTL DEF Spec

\* Every value the logging code keeps has its type; no write goes through a
\* handle that does not exist.
THEOREM TypeCorrect == Spec => []TypeOK
BY AlwaysIInv, PTL DEF IInv

\* The file of a session holds exactly the lines that handleLoggingPublish
\* wrote, in order, unless two publishes both found no file or the broker was
\* started twice in that second.
THEOREM LogIsExact == Spec => []LogExact
BY AlwaysIInv, PTL DEF IInv

\* Once the race to create the file is over, the lines that are logged stay
\* where they were written.
THEOREM NothingIsOverwritten == Spec => []LaterLinesKept
<1>1. ASSUME IInv PROVE LaterLinesKept
  <2> SUFFICES ASSUME kept # <<>>
               PROVE  /\ offset[loggers] \in Len(kept)..Len(file[session])
                      /\ SubSeq(file[session], offset[loggers] - Len(kept) + 1, offset[loggers]) = kept
    BY DEF LaterLinesKept
  <2>1. PICK n, end, text : n = Len(kept) /\ end = offset[loggers] /\ text = file[session]
    OBVIOUS
  <2>2. /\ n \in Nat /\ end \in n..Len(text) /\ kept \in Seq(Publish) /\ text \in Seq(Cell)
        /\ Len(text) \in Nat /\ \A i \in 1..n : text[end - n + i] = kept[i]
    BY <1>1, <2>1 DEF IInv, TypeOK, Kept
  <2>3. PICK m, sub : m = end - n + 1 /\ sub = SubSeq(text, m, end)
    OBVIOUS
  <2>4. m \in Int /\ end \in Int /\ end - m + 1 = n /\ \A i \in m..end : text[i] \in Cell
    BY <2>2, <2>3
  <2>5. /\ sub \in Seq(Cell) /\ Len(sub) = n
        /\ \A i \in 1..n : sub[i] = text[m + i - 1]
    BY <2>2, <2>3, <2>4, SubSeqProperties
  <2>6. kept \in Seq(Cell)
    BY <2>2 DEF Cell
  <2>7. \A i \in 1..n : sub[i] = kept[i]
    <3> SUFFICES ASSUME NEW i \in 1..n PROVE sub[i] = kept[i]
      OBVIOUS
    <3>1. m + i - 1 = end - n + i
      BY <2>2, <2>3
    <3> QED BY <2>2, <2>5, <3>1
  <2>8. sub = kept
    BY <2>1, <2>5, <2>6, <2>7, SeqEqual
  <2> QED BY <2>1, <2>2, <2>3, <2>8
<1> QED BY <1>1, AlwaysIInv, PTL

\* What get_logs shows in one session only grows: no line it has shown is lost
\* or changed.
THEOREM ShownLinesStay == Spec => LogsExtend
<1>1. ASSUME IInv, [Next]_vars, shown'.session = shown.session, Clean(shown.session)'
      PROVE  IsExtension(shown.text, shown'.text)
  <2>1. CASE GetLogsByPattern
    <3>1. shown' = [session |-> session, text |-> file[session]] /\ UNCHANGED <<raced, reused>>
      BY <2>1 DEF GetLogsByPattern, history
    <3>2. shown.session = session /\ Clean(shown.session) /\ shown'.text = file[session]
      BY <1>1, <3>1 DEF Clean
    <3> QED BY <1>1, <3>2 DEF IInv, ShownIsPrefix
  <2>2. CASE ~GetLogsByPattern
    <3>1. shown' = shown
      BY <1>1, <2>2 DEF Next, vars, handleLoggingPublish, LoadHit, LoadMiss, Create,
         CreateFails, Store, WriteLine, WriteFails, Tick, rotatePublishLoggers
    <3>2. shown.text \in Seq(Cell)
      BY <1>1 DEF IInv, TypeOK
    <3>3. IsExtension(shown.text, shown.text)
      BY <3>2, PrefixIs
    <3> QED BY <3>1, <3>3
  <2> QED BY <2>1, <2>2
<1>2. IInv /\ [Next]_vars =>
        [shown'.session = shown.session /\ Clean(shown.session)' => IsExtension(shown.text, shown'.text)]_vars
  BY <1>1
<1> QED BY <1>2, AlwaysIInv, PTL DEF Spec, LogsExtend

=============================================================================
