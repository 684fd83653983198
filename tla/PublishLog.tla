----------------------------- MODULE PublishLog -----------------------------
(***************************************************************************)
(* The log files of the broker: one file for each log event, in a          *)
(* directory named after the second at which the broker was started.       *)
(*                                                                         *)
(* The publishes of one event, each in the goroutine of its connection,    *)
(* share a file through publishLoggingLoggers, a sync.Map: each operation  *)
(* on it is atomic, and nothing holds them together.  Every os.Create      *)
(* truncates the file and gives a handle with an offset of its own.  The   *)
(* process may end at any point and be started again.                      *)
(***************************************************************************)
EXTENDS Naturals, Sequences

CONSTANTS
  Publish,      \* the publishes of one log event
  Size,         \* the length of the line of each of them
  MaxSecond,    \* the last second of the clock
  MaxRestarts,  \* how often the process may end and be started again
  None

ASSUME ConstAssumption ==
  /\ Size \in [Publish -> Nat \ {0}]
  /\ MaxSecond \in Nat
  /\ MaxRestarts \in Nat
  /\ None \notin Publish

Second == 0..MaxSecond

VARIABLES
  clock,
  restarts,
  session,   \* publishLoggingSession, the second of the last start
  file,      \* the contents of the file of the event, in each session
  loggers,   \* the handle publishLoggingLoggers has for the event; a handle is
             \* named after the publish that created it
  offset,    \* where each handle writes next
  pub,       \* where each publish is
  handle,    \* the handle it writes to
  shown,     \* what get_logs returned last
  wrote,     \* all that was written in each session
  calm,      \* a publish has found a handle when no other was in use
  kept,      \* what was written since then
  raced,     \* the sessions in which two publishes both found no file
  reused     \* the sessions of more than one start

disk == <<file, offset>>

history == <<wrote, calm, kept, raced, reused>>

process == <<clock, restarts, session>>

vars == <<process, disk, loggers, pub, handle, shown, history>>

Hole == "hole"

Cell == Publish \cup {Hole}

TypeOK ==
  /\ clock \in Second /\ session \in Second
  /\ restarts \in 0..MaxRestarts
  /\ file \in [Second -> Seq(Cell)]
  /\ loggers \in Publish \cup {None}
  /\ offset \in [Publish -> Nat]
  /\ pub \in [Publish -> {"idle", "create", "store", "write", "done"}]
  /\ handle \in [Publish -> Publish \cup {None}]
  /\ shown \in [session : Second, text : Seq(Cell)]
  /\ wrote \in [Second -> Seq(Publish)]
  /\ calm \in BOOLEAN
  /\ kept \in Seq(Publish)
  /\ raced \subseteq Second
  /\ reused \subseteq Second

Init ==
  /\ clock = 0 /\ restarts = 0 /\ session = 0
  /\ file = [s \in Second |-> <<>>]
  /\ loggers = None
  /\ offset = [p \in Publish |-> 0]
  /\ pub = [p \in Publish |-> "idle"]
  /\ handle = [p \in Publish |-> None]
  /\ shown = [session |-> 0, text |-> <<>>]
  /\ wrote = [s \in Second |-> <<>>]
  /\ calm = FALSE /\ kept = <<>>
  /\ raced = {} /\ reused = {}

\* The first n characters of the line of a publish.
Line(p, n) == [i \in 1..n |-> p]

\* What a file holds after a write of line at offset o: a gap before o is zeros,
\* what was there beyond the line stays.
Overwrite(text, o, line) ==
  LET end == o + Len(line)
  IN  [i \in 1..(IF end > Len(text) THEN end ELSE Len(text)) |->
         IF i \in (o + 1)..end THEN line[i - o]
         ELSE IF i <= Len(text) THEN text[i] ELSE Hole]

InProgress(p) == pub[p] \in {"create", "store", "write"}

-----------------------------------------------------------------------------
(* handleLoggingPublish *)

\* publishLoggingLoggers.Load finds a handle.
LoadHit(p) ==
  /\ pub[p] = "idle"
  /\ loggers # None
  /\ pub' = [pub EXCEPT ![p] = "write"]
  /\ handle' = [handle EXCEPT ![p] = loggers]
  /\ calm' = (calm \/ \A q \in Publish : InProgress(q) => handle[q] = loggers)
  /\ UNCHANGED <<process, disk, loggers, shown, wrote, kept, raced, reused>>

\* It finds none: the file is to be created.
LoadMiss(p) ==
  /\ pub[p] = "idle"
  /\ loggers = None
  /\ pub' = [pub EXCEPT ![p] = "create"]
  /\ raced' = IF \E q \in Publish : pub[q] \in {"create", "store"}
              THEN raced \cup {session} ELSE raced
  /\ UNCHANGED <<process, disk, loggers, handle, shown, wrote, calm, kept, reused>>

\* publishLoggingSetup.
Create(p) ==
  /\ pub[p] = "create"
  /\ file' = [file EXCEPT ![session] = <<>>]
  /\ offset' = [offset EXCEPT ![p] = 0]
  /\ handle' = [handle EXCEPT ![p] = p]
  /\ pub' = [pub EXCEPT ![p] = "store"]
  /\ UNCHANGED <<process, loggers, shown, history>>

\* The file cannot be created: the publish is not logged.
CreateFails(p) ==
  /\ pub[p] = "create"
  /\ pub' = [pub EXCEPT ![p] = "done"]
  /\ UNCHANGED <<process, disk, loggers, handle, shown, history>>

Store_forgets(p) ==
  /\ pub[p] = "store"
  /\ pub' = [pub EXCEPT ![p] = "write"]
  /\ UNCHANGED <<process, disk, loggers, handle, shown, history>>

Store(p) ==
  /\ pub[p] = "store"
  /\ loggers' = p
  /\ pub' = [pub EXCEPT ![p] = "write"]
  /\ UNCHANGED <<process, disk, handle, shown, history>>

\* logger.Write, at the offset of the handle: the line, or n characters of it
\* when the write fails, which is only reported.
WriteLine_fromStart(p, n) ==
  /\ pub[p] = "write"
  /\ file' = [file EXCEPT ![session] = Overwrite(@, 0, Line(p, n))]
  /\ offset' = [offset EXCEPT ![handle[p]] = n]
  /\ pub' = [pub EXCEPT ![p] = "done"]
  /\ wrote' = [wrote EXCEPT ![session] = @ \o Line(p, n)]
  /\ kept' = IF calm THEN kept \o Line(p, n) ELSE kept
  /\ UNCHANGED <<process, loggers, handle, shown, calm, raced, reused>>

WriteLine(p, n) ==
  LET h == handle[p] IN
  /\ pub[p] = "write"
  /\ file' = [file EXCEPT ![session] = Overwrite(@, offset[h], Line(p, n))]
  /\ offset' = [offset EXCEPT ![h] = @ + n]
  /\ pub' = [pub EXCEPT ![p] = "done"]
  /\ wrote' = [wrote EXCEPT ![session] = @ \o Line(p, n)]
  /\ kept' = IF calm THEN kept \o Line(p, n) ELSE kept
  /\ UNCHANGED <<process, loggers, handle, shown, calm, raced, reused>>

\* Nothing at all is written.
WriteFails(p) ==
  /\ pub[p] = "write"
  /\ pub' = [pub EXCEPT ![p] = "done"]
  /\ UNCHANGED <<process, disk, loggers, handle, shown, history>>

-----------------------------------------------------------------------------
(* get_logs, in the directory of the session *)

GetLogsByPattern ==
  /\ shown' = [session |-> session, text |-> file[session]]
  /\ UNCHANGED <<process, disk, loggers, pub, handle, history>>

-----------------------------------------------------------------------------
(* The clock and the process *)

Tick ==
  /\ clock < MaxSecond
  /\ clock' = clock + 1
  /\ UNCHANGED <<restarts, session, disk, loggers, pub, handle, shown, history>>

\* The process ends, with whatever was in progress, and is started again.  The
\* directory is named after the second, and may be there already.
rotatePublishLoggers ==
  /\ restarts < MaxRestarts
  /\ restarts' = restarts + 1
  /\ session' = clock
  /\ loggers' = None
  /\ pub' = [p \in Publish |-> IF InProgress(p) THEN "done" ELSE pub[p]]
  /\ handle' = [p \in Publish |-> None]
  /\ calm' = FALSE /\ kept' = <<>>
  /\ reused' = IF clock = session THEN reused \cup {clock} ELSE reused
  /\ UNCHANGED <<clock, disk, shown, wrote, raced>>

-----------------------------------------------------------------------------

handleLoggingPublish(p) ==
  \/ LoadHit(p) \/ LoadMiss(p)
  \/ Create(p) \/ CreateFails(p) \/ Store(p)
  \/ WriteFails(p) \/ \E n \in 1..Size[p] : WriteLine(p, n)

Next ==
  \/ \E p \in Publish : handleLoggingPublish(p)
  \/ GetLogsByPattern
  \/ Tick
  \/ rotatePublishLoggers

Spec == Init /\ [][Next]_vars

-----------------------------------------------------------------------------
(* Properties *)

Clean(s) == s \notin raced /\ s \notin reused

\* LogExact: the file of a session holds all that was written to it, in the order
\* of the writes, unless the first two publishes of the event overlapped or the
\* broker was started twice in that second.
LogExact == \A s \in Second : Clean(s) => file[s] = wrote[s]

\* LaterLinesKept: once the publishes that race to create the file are over,
\* what is logged stays: the lines written since then end at the offset of the
\* handle that was kept, whatever the race did to the file before.
LaterLinesKept ==
  kept # <<>> =>
    LET end == offset[loggers]
    IN  /\ end \in Len(kept)..Len(file[session])
        /\ SubSeq(file[session], end - Len(kept) + 1, end) = kept

IsExtension(s, t) == Len(s) <= Len(t) /\ SubSeq(t, 1, Len(s)) = s

\* LogsExtend: of two answers of get_logs in one session, the second starts with
\* the first: no line that was shown is lost or changed.
LogsExtend ==
  [][shown'.session = shown.session /\ Clean(shown.session)'
       => IsExtension(shown.text, shown'.text)]_vars

=============================================================================
