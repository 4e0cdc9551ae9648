------------------------------ MODULE EventStore ------------------------------
(***************************************************************************)
(* runtime/src/events-store.ts: the append-only event log and its offset   *)
(* index, over a file system on which the process can be killed between    *)
(* any two system calls and inside a write, and a call can fail.           *)
(*                                                                         *)
(* A file is a sequence of cells: cell k of the canonical bytes of event e *)
(* is <<e, k>>, and NewLine ends a record.  append() runs to its end in    *)
(* one turn of the event loop (every call in it is synchronous and the     *)
(* calls are chained), so no other append or read comes in between: only a *)
(* crash does.  An index entry is an offset; its length is BodyLen[e].     *)
(***************************************************************************)
EXTENDS Integers, Sequences, FiniteSets

CONSTANTS
  Events,          \* the events the runtime may append
  BodyLen,         \* length of the canonical bytes of each, without newline
  NewLine,
  NoEvent,         \* no append is running
  NoEntry,         \* the index does not know the event
  Unreadable,      \* events.idx.json is missing, empty or cut short
  MaxCrashes,      \* bound: kills of the process
  MaxRejections    \* bound: system calls that fail

ASSUME StoreAssumption ==
  /\ IsFiniteSet(Events)
  /\ BodyLen \in [Events -> Nat \ {0}]
  /\ NewLine \notin Events \X Nat
  /\ NoEvent \notin Events
  /\ NoEntry \notin Nat
  /\ Unreadable \notin [Events -> Nat \cup {NoEntry}]
  /\ MaxCrashes \in Nat /\ MaxRejections \in Nat

VARIABLES
  log,         \* events.log
  idxFile,     \* events.idx.json
  running,     \* the process is up
  index,       \* its index in memory
  size,        \* what it believes the length of the log to be
  pc,          \* where the running append (or the boot) stands
  current,     \* the event being appended
  acked,       \* history: events whose append() was fulfilled
  tears,       \* history: writes that left an unterminated tail
  crashes,     \* history: kills (bounds the model)
  rejected     \* history: appends and boots that threw (bounds the model)

memory == <<index, size, pc, current>>
vars == <<log, idxFile, running, memory, acked, tears, crashes, rejected>>

IndexMaps == [Events -> Nat \cup {NoEntry}]

-----------------------------------------------------------------------------
(* Records in a file.                                                      *)

Body(e) == [k \in 1 .. BodyLen[e] |-> <<e, k>>]

\* Mutant: the record terminator is forgotten.
LineUnterminated(e) == Body(e)
Line(e) == Append(Body(e), NewLine)

\* The bytes of e stand at offset o.
BodyAt(file, e, o) ==
  /\ o + BodyLen[e] <= Len(file)
  /\ \A k \in 1 .. BodyLen[e] : file[o + k] = <<e, k>>

\* They make a whole line: a walk parses it.
LineAt(file, e, o) ==
  /\ BodyAt(file, e, o)
  /\ o = 0 \/ file[o] = NewLine
  /\ o + BodyLen[e] = Len(file) \/ file[o + BodyLen[e] + 1] = NewLine

Lines(file, e) == {o \in 0 .. Len(file) : LineAt(file, e, o)}

\* rebuildIndex() visits terminated lines only; a walk also parses the tail.
Terminated(file, e) == {o \in Lines(file, e) : o + BodyLen[e] < Len(file)}

\* What walkFromHead() and walkFromTip() yield.
Walked == {e \in Events : Lines(log, e) # {}}

\* getById(e): at most one event; none when it returns undefined or throws.
GetById(e) ==
  {f \in Events : /\ index[e] # NoEntry
                  /\ BodyLen[f] = BodyLen[e]
                  /\ BodyAt(log, f, index[e])}

-----------------------------------------------------------------------------
Init ==
  /\ log = <<>>
  /\ idxFile = Unreadable
  /\ running = FALSE
  /\ index = [e \in Events |-> NoEntry]
  /\ size = 0
  /\ pc = "idle"
  /\ current = NoEvent
  /\ acked = {} /\ tears = 0 /\ crashes = 0 /\ rejected = 0

\* A later record of the same event overwrites the entry of an earlier one.
Rebuilt(file) ==
  [e \in Events |->
     IF Terminated(file, e) = {} THEN NoEntry
     ELSE CHOOSE o \in Terminated(file, e) : \A p \in Terminated(file, e) : p <= o]

\* bootstrap(): an index that parses is taken as it is.
BootLoaded ==
  /\ ~running
  /\ idxFile # Unreadable
  /\ index' = idxFile
  /\ size' = Len(log)
  /\ running' = TRUE
  /\ UNCHANGED <<log, idxFile, pc, current, acked, tears, crashes, rejected>>

\* bootstrap(): otherwise it is rebuilt from the log, then written.
BootRebuilt ==
  /\ ~running
  /\ idxFile = Unreadable
  /\ index' = Rebuilt(log)
  /\ size' = Len(log)
  /\ running' = TRUE
  /\ pc' = "persist"
  /\ UNCHANGED <<log, idxFile, current, acked, tears, crashes, rejected>>

\* append() of an event the index knows.
AppendKnown(e) ==
  /\ running /\ pc = "idle"
  /\ index[e] # NoEntry
  /\ acked' = acked \cup {e}
  /\ UNCHANGED <<log, idxFile, running, memory, tears, crashes, rejected>>

\* Mutant: the index is not asked first.
AppendAnyway(e) ==
  /\ running /\ pc = "idle"
  /\ current' = e
  /\ pc' = "write"
  /\ UNCHANGED <<log, idxFile, running, index, size, acked, tears, crashes, rejected>>

AppendNew(e) ==
  /\ running /\ pc = "idle"
  /\ index[e] = NoEntry
  /\ current' = e
  /\ pc' = "write"
  /\ UNCHANGED <<log, idxFile, running, index, size, acked, tears, crashes, rejected>>

\* writeSync of the whole line.
Write ==
  /\ pc = "write"
  /\ log' = log \o Line(current)
  /\ pc' = "sync"
  /\ UNCHANGED <<idxFile, running, index, size, current, acked, tears, crashes, rejected>>

\* Mutant: the size is advanced before the offset is taken.
IndexLineLate ==
  /\ pc = "sync"
  /\ size' = size + BodyLen[current] + 1
  /\ index' = [index EXCEPT ![current] = size']
  /\ pc' = "persist"
  /\ UNCHANGED <<log, idxFile, running, current, acked, tears, crashes, rejected>>

\* fdatasyncSync succeeded: the entry, then the new size.
IndexLine ==
  /\ pc = "sync"
  /\ index' = [index EXCEPT ![current] = size]
  /\ size' = size + BodyLen[current] + 1
  /\ pc' = "persist"
  /\ UNCHANGED <<log, idxFile, running, current, acked, tears, crashes, rejected>>

\* persistIndex(): writeFileSync truncates the file ...
Truncate ==
  /\ pc = "persist"
  /\ idxFile' = Unreadable
  /\ pc' = "flush"
  /\ UNCHANGED <<log, running, index, size, current, acked, tears, crashes, rejected>>

\* Mutant: the index file is written at boot only.
FlushAtBootOnly ==
  /\ pc = "flush"
  /\ idxFile' = IF current = NoEvent THEN index ELSE [index EXCEPT ![current] = NoEntry]
  /\ acked' = acked \cup ({current} \ {NoEvent})
  /\ pc' = "idle"
  /\ current' = NoEvent
  /\ UNCHANGED <<log, running, index, size, tears, crashes, rejected>>

\* ... and writes it; then the listeners run and append() is fulfilled.
Flush ==
  /\ pc = "flush"
  /\ idxFile' = index
  /\ acked' = acked \cup ({current} \ {NoEvent})
  /\ pc' = "idle"
  /\ current' = NoEvent
  /\ UNCHANGED <<log, running, index, size, tears, crashes, rejected>>

-----------------------------------------------------------------------------
(* What goes wrong.                                                        *)

\* Part of the record is written, at most all of it but the newline.
Tear ==
  /\ pc = "write"
  /\ \E n \in 1 .. BodyLen[current] : log' = log \o SubSeq(Line(current), 1, n)
  /\ tears' = tears + 1

\* A write or sync that fails rejects the append; what it wrote stays.  At
\* boot it ends the constructor, and with it the process.
Reject ==
  /\ rejected < MaxRejections
  /\ rejected' = rejected + 1
  /\ pc' = "idle"
  /\ current' = NoEvent
  /\ running' = (current # NoEvent)
  /\ UNCHANGED <<idxFile, index, size, acked, crashes>>

ShortWrite == Tear /\ Reject

CallFails ==
  /\ pc # "idle"
  /\ Reject
  /\ UNCHANGED <<log, tears>>

Killed ==
  /\ running
  /\ crashes < MaxCrashes
  /\ crashes' = crashes + 1
  /\ running' = FALSE
  /\ index' = [e \in Events |-> NoEntry]
  /\ size' = 0
  /\ pc' = "idle"
  /\ current' = NoEvent
  /\ UNCHANGED <<idxFile, acked, rejected>>

Crash == Killed /\ UNCHANGED <<log, tears>>

CrashInWrite == Tear /\ Killed

Next ==
  \/ BootLoaded \/ BootRebuilt
  \/ \E e \in Events : AppendKnown(e) \/ AppendNew(e)
  \/ Write \/ IndexLine \/ Truncate \/ Flush
  \/ ShortWrite \/ CallFails \/ Crash \/ CrashInWrite

Spec == Init /\ [][Next]_vars

-----------------------------------------------------------------------------
Cells == (Events \X Nat) \cup {NewLine}

TypeOK ==
  /\ log \in Seq(Cells)
  /\ idxFile \in IndexMaps \cup {Unreadable}
  /\ running \in BOOLEAN
  /\ index \in IndexMaps
  /\ size \in 0 .. Len(log)
  /\ pc \in {"idle", "write", "sync", "persist", "flush"}
  /\ current \in Events \cup {NoEvent}
  /\ acked \subseteq Events
  /\ tears \in Nat
  /\ crashes \in 0 .. MaxCrashes
  /\ rejected \in 0 .. MaxRejections

\* As long as no call failed, getById() of an indexed event returns that event,
\* whatever was torn and wherever the process was killed: offsets taken from a
\* counter in memory stay those of an append-only file.
ReadsBack ==
  rejected = 0 => \A e \in Events : index[e] # NoEntry => GetById(e) = {e}

\* An event whose append was fulfilled is found by every walk, but for at most
\* one per torn write: the record glued to the tail the tear left behind.
AckedAreWalked == Cardinality(acked \ Walked) <= tears

\* getById() finds the fulfilled appends of earlier lives of the process too,
\* with the same exception, unless a call failed.
AckedAreFound ==
  running /\ rejected = 0 =>
    Cardinality(acked \ {e \in Events : e \in GetById(e)}) <= tears

\* What is left of "idempotent on event.id": an event is written again only if
\* the process restarted or an append was rejected in between.
WrittenOncePerLife ==
  \A e \in Events : Cardinality(Lines(log, e)) <= 1 + crashes + rejected

\* events-store.ts:86-89 says that a missing or stale index is rebuilt at boot.
BootRebuildsStaleIndex ==
  [][~running /\ running' =>
       \A e \in Events : Terminated(log, e) # {} => index'[e] # NoEntry]_vars
=============================================================================
