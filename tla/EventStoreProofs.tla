--------------------------- MODULE EventStoreProofs ---------------------------
(***************************************************************************)
(* For every finite set of events of every length and any number of        *)
(* crashes: offsets stay good (type correctness and ReadsBack), an event   *)
(* is written once per life of the process, and what is lost of the        *)
(* fulfilled appends is paid for by torn writes.                           *)
(***************************************************************************)
EXTENDS EventStore, SumsProofs, SequenceTheorems

\* Every entry of an index stands at the bytes of its event.
Sound(file, map) ==
  \A e \in Events : map[e] # NoEntry => BodyAt(file, e, map[e])

\* Between the write and the index update the record starts where the
\* counter in memory says; otherwise the counter is the length of the log.
SizeIsLength ==
  running =>
    IF pc = "sync" THEN size + BodyLen[current] + 1 = Len(log) /\ BodyAt(log, current, size)
                   ELSE size = Len(log)

Control ==
  /\ ~running => pc = "idle"
  /\ pc \in {"write", "sync"} => current \in Events
  /\ pc = "sync" => size + BodyLen[current] + 1 <= Len(log)

Offsets ==
  rejected = 0 =>
    /\ SizeIsLength
    /\ Sound(log, index)
    /\ idxFile # Unreadable => Sound(log, idxFile)

StoreInv == TypeOK /\ Control /\ Offsets

-----------------------------------------------------------------------------
LEMMA LineShape ==
  ASSUME NEW e \in Events
  PROVE  /\ BodyLen[e] \in Nat \ {0}
         /\ Line(e) \in Seq(Cells)
         /\ Len(Line(e)) = BodyLen[e] + 1
         /\ \A k \in 1 .. BodyLen[e] : Line(e)[k] = <<e, k>>
<1>1. BodyLen[e] \in Nat \ {0}
  BY StoreAssumption
<1>2. Body(e) \in Seq(Cells) /\ Len(Body(e)) = BodyLen[e]
  <2>1. Body(e) \in [1 .. BodyLen[e] -> Cells]
    BY <1>1 DEF Body, Cells
  <2>2. QED
    BY <1>1, <2>1, SeqDef
<1>3. NewLine \in Cells
  BY DEF Cells
<1>4. \A k \in 1 .. BodyLen[e] : Body(e)[k] = <<e, k>>
  BY DEF Body
<1>5. QED
  BY <1>1, <1>2, <1>3, <1>4, AppendProperties DEF Line

\* Appending to a file moves nothing in it.
LEMMA BodyStays ==
  ASSUME NEW file \in Seq(Cells), NEW tail \in Seq(Cells), NEW e \in Events,
         NEW o \in Nat, BodyAt(file, e, o)
  PROVE  BodyAt(file \o tail, e, o)
<1>1. /\ Len(file \o tail) = Len(file) + Len(tail)
      /\ \A i \in 1 .. Len(file) : (file \o tail)[i] = file[i]
      /\ Len(file) \in Nat /\ Len(tail) \in Nat
  BY ConcatProperties, LenProperties
<1>2. BodyLen[e] \in Nat
  BY LineShape
<1>3. \A k \in 1 .. BodyLen[e] : o + k \in 1 .. Len(file)
  BY <1>1, <1>2 DEF BodyAt
<1>4. QED
  BY <1>1, <1>2, <1>3 DEF BodyAt

LEMMA SoundStays ==
  ASSUME NEW file \in Seq(Cells), NEW tail \in Seq(Cells), NEW map \in IndexMaps,
         Sound(file, map)
  PROVE  Sound(file \o tail, map)
BY BodyStays DEF Sound, IndexMaps

\* The line just written stands at the old end of the file.
LEMMA BodyWritten ==
  ASSUME NEW file \in Seq(Cells), NEW e \in Events
  PROVE  /\ BodyAt(file \o Line(e), e, Len(file))
         /\ Len(file \o Line(e)) = Len(file) + BodyLen[e] + 1
         /\ file \o Line(e) \in Seq(Cells)
<1>1. /\ Len(file \o Line(e)) = Len(file) + Len(Line(e))
      /\ \A i \in 1 .. Len(file) + Len(Line(e)) :
           i > Len(file) => (file \o Line(e))[i] = Line(e)[i - Len(file)]
      /\ Len(file) \in Nat
      /\ file \o Line(e) \in Seq(Cells)
  BY LineShape, ConcatProperties, LenProperties
<1>2. \A k \in 1 .. BodyLen[e] : (file \o Line(e))[Len(file) + k] = <<e, k>>
  <2> SUFFICES ASSUME NEW k \in 1 .. BodyLen[e]
               PROVE  (file \o Line(e))[Len(file) + k] = <<e, k>>
    OBVIOUS
  <2>1. /\ Len(file) + k \in 1 .. Len(file) + Len(Line(e))
        /\ Len(file) + k > Len(file)
        /\ Len(file) + k - Len(file) = k
    BY <1>1, LineShape
  <2>2. QED
    BY <1>1, <2>1, LineShape
<1>3. Len(file \o Line(e)) = Len(file) + BodyLen[e] + 1
  <2>1. Len(Line(e)) = BodyLen[e] + 1 /\ BodyLen[e] \in Nat
    BY LineShape
  <2>2. QED
    BY <1>1, <2>1
<1>4. Len(file) + BodyLen[e] <= Len(file \o Line(e))
  BY <1>1, <1>3, LineShape
<1>5. BodyAt(file \o Line(e), e, Len(file))
  BY <1>2, <1>4 DEF BodyAt
<1>6. QED
  BY <1>1, <1>3, <1>5

LEMMA TornTail ==
  ASSUME NEW file \in Seq(Cells), NEW e \in Events, NEW n \in 1 .. BodyLen[e]
  PROVE  /\ SubSeq(Line(e), 1, n) \in Seq(Cells)
         /\ file \o SubSeq(Line(e), 1, n) \in Seq(Cells)
         /\ Len(file \o SubSeq(Line(e), 1, n)) >= Len(file)
<1>1. SubSeq(Line(e), 1, n) \in Seq(Cells)
  BY LineShape, SubSeqProperties
<1>2. QED
  BY <1>1, ConcatProperties, LenProperties

LEMMA RebuiltIsSound ==
  ASSUME NEW file \in Seq(Cells)
  PROVE  Rebuilt(file) \in IndexMaps /\ Sound(file, Rebuilt(file))
<1>1. \A e \in Events : Rebuilt(file)[e] # NoEntry =>
        Rebuilt(file)[e] \in Nat /\ BodyAt(file, e, Rebuilt(file)[e])
  <2> SUFFICES ASSUME NEW e \in Events, Rebuilt(file)[e] # NoEntry
               PROVE  Rebuilt(file)[e] \in Nat /\ BodyAt(file, e, Rebuilt(file)[e])
    OBVIOUS
  <2> DEFINE T == Terminated(file, e)
             last == CHOOSE o \in T : \A p \in T : p <= o
  <2>1. T # {} /\ Rebuilt(file)[e] = last
    BY DEF Rebuilt
  <2>2. Len(file) \in Nat
    BY LenProperties
  <2>3. T \subseteq 0 .. Len(file)
    BY DEF Terminated, Lines
  <2>4. \E o \in T : \A p \in T : p <= o
    BY <2>1, <2>2, <2>3, LargestExists
  <2>5. last \in T
    BY <2>4
  <2>6. QED
    BY <2>1, <2>2, <2>3, <2>5 DEF Terminated, Lines, LineAt
<1>2. QED
  BY <1>1 DEF Rebuilt, IndexMaps, Sound

-----------------------------------------------------------------------------
LEMMA StoreInit == Init => StoreInv
<1> SUFFICES ASSUME Init PROVE StoreInv
  OBVIOUS
<1>1. log \in Seq(Cells) /\ Len(log) = 0
  BY EmptySeq DEF Init
<1>2. index \in IndexMaps /\ Sound(log, index)
  BY DEF Init, IndexMaps, Sound
<1>3. size \in 0 .. Len(log)
  BY <1>1 DEF Init
<1>4. crashes \in 0 .. MaxCrashes /\ rejected \in 0 .. MaxRejections
  BY StoreAssumption DEF Init
<1>5. idxFile \in IndexMaps \cup {Unreadable} /\ running \in BOOLEAN /\ acked \subseteq Events
  BY DEF Init
<1>6. TypeOK
  BY <1>1, <1>2, <1>3, <1>4, <1>5 DEF Init, TypeOK
<1>7. QED
  BY <1>2, <1>6 DEF Init, StoreInv, Control, Offsets, SizeIsLength

LEMMA StoreStep == StoreInv /\ [Next]_vars => StoreInv'
<1> SUFFICES ASSUME StoreInv, [Next]_vars PROVE StoreInv'
  OBVIOUS
<1> USE DEF StoreInv
<1>1. CASE BootLoaded
  <2>1. TypeOK'
    BY <1>1, LenProperties DEF BootLoaded, TypeOK
  <2>2. QED
    BY <1>1, <2>1 DEF BootLoaded, Control, Offsets, SizeIsLength, TypeOK
<1>2. CASE BootRebuilt
  <2>1. Rebuilt(log) \in IndexMaps /\ Sound(log, Rebuilt(log))
    BY RebuiltIsSound DEF TypeOK
  <2>2. TypeOK'
    BY <1>2, <2>1, LenProperties DEF BootRebuilt, TypeOK
  <2>3. QED
    BY <1>2, <2>1, <2>2 DEF BootRebuilt, Control, Offsets, SizeIsLength, TypeOK
<1>3. CASE \E e \in Events : AppendKnown(e) \/ AppendNew(e)
  BY <1>3 DEF AppendKnown, AppendNew, memory, TypeOK, Control, Offsets, SizeIsLength
<1>4. CASE Write
  <2>1. /\ current \in Events
        /\ log' = log \o Line(current)
        /\ log \in Seq(Cells)
        /\ index \in IndexMaps
    BY <1>4 DEF Write, Control, TypeOK
  <2>2. /\ BodyAt(log', current, Len(log))
        /\ Len(log') = Len(log) + BodyLen[current] + 1
        /\ log' \in Seq(Cells)
        /\ Len(log) \in Nat
        /\ BodyLen[current] \in Nat
    BY <2>1, BodyWritten, LineShape, LenProperties
  <2>3. TypeOK'
    BY <1>4, <2>2 DEF Write, TypeOK
  <2>4. Control'
    BY <1>4, <2>1, <2>2 DEF Write, Control, TypeOK
  <2>5. Offsets'
    <3> SUFFICES ASSUME rejected' = 0 PROVE Offsets'
      BY DEF Offsets
    <3>1. SizeIsLength /\ Sound(log, index) /\ (idxFile # Unreadable => Sound(log, idxFile))
      BY <1>4 DEF Write, Offsets
    <3>2. Sound(log', index')
      BY <1>4, <2>1, <3>1, SoundStays, LineShape DEF Write
    <3>3. idxFile' # Unreadable => Sound(log', idxFile')
      BY <1>4, <2>1, <3>1, SoundStays, LineShape DEF Write, TypeOK
    <3>4. SizeIsLength'
      BY <1>4, <2>1, <2>2, <3>1 DEF Write, SizeIsLength, Control
    <3>5. QED
      BY <3>2, <3>3, <3>4 DEF Offsets
  <2>6. QED
    BY <2>3, <2>4, <2>5
<1>5. CASE IndexLine
  <2>1. /\ current \in Events /\ BodyLen[current] \in Nat /\ size \in Nat
        /\ Len(log) \in Nat
    BY <1>5, LineShape, LenProperties DEF IndexLine, Control, TypeOK
  <2>2. index' \in IndexMaps
    BY <1>5, <2>1 DEF IndexLine, TypeOK, IndexMaps
  <2>3. TypeOK'
    BY <1>5, <2>1, <2>2 DEF IndexLine, TypeOK, Control
  <2>4. Control'
    BY <1>5 DEF IndexLine, Control
  <2>5. Offsets'
    <3> SUFFICES ASSUME rejected' = 0 PROVE Offsets'
      BY DEF Offsets
    <3>1. SizeIsLength /\ Sound(log, index) /\ (idxFile # Unreadable => Sound(log, idxFile))
      BY <1>5 DEF IndexLine, Offsets
    <3>2. running
      BY <1>5 DEF IndexLine, Control
    <3>3. SizeIsLength'
      BY <1>5, <3>1, <3>2 DEF IndexLine, SizeIsLength
    <3>4. Sound(log', index')
      BY <1>5, <2>1, <3>1, <3>2 DEF IndexLine, SizeIsLength, Sound, TypeOK, IndexMaps
    <3>5. QED
      BY <1>5, <3>1, <3>3, <3>4 DEF IndexLine, Offsets
  <2>6. QED
    BY <2>3, <2>4, <2>5
<1>6. CASE Truncate
  BY <1>6 DEF Truncate, TypeOK, Control, Offsets, SizeIsLength
<1>7. CASE Flush
  BY <1>7 DEF Flush, TypeOK, Control, Offsets, SizeIsLength
<1>8. ASSUME Tear
      PROVE  /\ log' \in Seq(Cells)
             /\ size \in 0 .. Len(log')
             /\ tears' \in Nat
             /\ \A map \in IndexMaps : Sound(log, map) => Sound(log', map)
  <2>1. /\ current \in Events /\ log \in Seq(Cells) /\ size \in 0 .. Len(log)
    BY <1>8 DEF Tear, Control, TypeOK
  <2>2. PICK n \in 1 .. BodyLen[current] : log' = log \o SubSeq(Line(current), 1, n)
    BY <1>8 DEF Tear
  <2>3. /\ SubSeq(Line(current), 1, n) \in Seq(Cells)
        /\ log' \in Seq(Cells)
        /\ Len(log') >= Len(log)
    BY <2>1, <2>2, TornTail
  <2>4. Len(log) \in Nat /\ Len(log') \in Nat
    BY <2>1, <2>3, LenProperties
  <2>5. \A map \in IndexMaps : Sound(log, map) => Sound(log', map)
    BY <2>1, <2>2, <2>3, SoundStays
  <2>6. size \in 0 .. Len(log')
    BY <2>1, <2>3, <2>4
  <2>7. tears' \in Nat
    BY <1>8 DEF Tear, TypeOK
  <2>8. QED
    BY <2>3, <2>5, <2>6, <2>7
<1>9. CASE ShortWrite
  <2>1. TypeOK'
    BY <1>8, <1>9, StoreAssumption DEF ShortWrite, Reject, TypeOK
  <2>2. rejected' # 0
    BY <1>9 DEF ShortWrite, Reject, TypeOK
  <2>3. QED
    BY <1>9, <2>1, <2>2 DEF ShortWrite, Reject, Control, Offsets
<1>10. CASE CallFails
  <2>1. TypeOK'
    BY <1>10, StoreAssumption DEF CallFails, Reject, TypeOK
  <2>2. rejected' # 0
    BY <1>10 DEF CallFails, Reject, TypeOK
  <2>3. QED
    BY <1>10, <2>1, <2>2 DEF CallFails, Reject, Control, Offsets
<1>11. ASSUME Killed PROVE /\ index' \in IndexMaps
                           /\ \A file : Sound(file, index')
                           /\ crashes' \in 0 .. MaxCrashes
  BY <1>11, StoreAssumption DEF Killed, IndexMaps, Sound, TypeOK
<1>12. CASE Crash
  <2>1. size' \in 0 .. Len(log')
    BY <1>12, LenProperties DEF Crash, Killed, TypeOK
  <2>2. TypeOK'
    BY <1>11, <1>12, <2>1 DEF Crash, Killed, TypeOK
  <2>3. QED
    BY <1>11, <1>12, <2>2 DEF Crash, Killed, Control, Offsets, SizeIsLength
<1>13. CASE CrashInWrite
  <2>1. log' \in Seq(Cells) /\ tears' \in Nat
    BY <1>8, <1>13 DEF CrashInWrite
  <2>2. size' \in 0 .. Len(log')
    BY <1>13, <2>1, LenProperties DEF CrashInWrite, Killed
  <2>3. TypeOK'
    BY <1>11, <1>13, <2>1, <2>2 DEF CrashInWrite, Killed, TypeOK
  <2>4. QED
    BY <1>8, <1>11, <1>13, <2>3 DEF CrashInWrite, Killed, Control, Offsets, SizeIsLength, TypeOK
<1>14. CASE UNCHANGED vars
  BY <1>14 DEF vars, memory, TypeOK, Control, Offsets, SizeIsLength
<1>15. QED
  BY <1>1, <1>2, <1>3, <1>4, <1>5, <1>6, <1>7, <1>9, <1>10, <1>12, <1>13, <1>14 DEF Next

\* The inductive invariant: control, and offsets that stay good.
THEOREM StoreInvariance == Spec => []StoreInv
BY StoreInit, StoreStep, PTL DEF Spec

\* The state of the store keeps its shape: in particular the counter in
\* memory never runs past the end of the log.
THEOREM StoreTypeCorrect == Spec => []TypeOK
<1>1. StoreInv => TypeOK
  BY DEF StoreInv
<1>2. QED
  BY <1>1, StoreInvariance, PTL

\* An indexed event is the one getById() returns.
LEMMA IndexedReadsBack == StoreInv => ReadsBack
<1> SUFFICES ASSUME StoreInv, rejected = 0, NEW e \in Events, index[e] # NoEntry
             PROVE  GetById(e) = {e}
  BY DEF ReadsBack
<1>1. BodyAt(log, e, index[e])
  BY DEF StoreInv, Offsets, Sound
<1>2. ASSUME NEW f \in Events, BodyLen[f] = BodyLen[e], BodyAt(log, f, index[e])
      PROVE  f = e
  <2>1. 1 \in 1 .. BodyLen[e]
    BY LineShape
  <2>2. log[index[e] + 1] = <<e, 1>> /\ log[index[e] + 1] = <<f, 1>>
    BY <1>1, <1>2, <2>1 DEF BodyAt
  <2>3. QED
    BY <2>2
<1>3. QED
  BY <1>1, <1>2 DEF GetById

\* getById of an indexed event returns that event, across any number of
\* crashes and torn writes, as long as no system call failed.
THEOREM ReadsBackHolds == Spec => []ReadsBack
BY IndexedReadsBack, StoreInvariance, PTL

-----------------------------------------------------------------------------
(* The appends.  An event is written only while the index does not know    *)
(* it, and what is acknowledged is known.                                  *)

Known(map) == {e \in Events : map[e] # NoEntry}

Appends ==
  /\ pc = "idle" => current = NoEvent
  /\ pc = "write" => index[current] = NoEntry
  /\ pc \in {"persist", "flush"} /\ current # NoEvent => index[current] # NoEntry

LEMMA AppendsInit == Init => Appends
BY DEF Init, Appends

LEMMA AppendsStep == StoreInv /\ Appends /\ [Next]_vars => Appends'
<1> SUFFICES ASSUME StoreInv, Appends, [Next]_vars PROVE Appends'
  OBVIOUS
<1> USE DEF StoreInv, Appends
<1>1. CASE BootLoaded
  BY <1>1 DEF BootLoaded, Control
<1>2. CASE BootRebuilt
  BY <1>2 DEF BootRebuilt, TypeOK, Control
<1>3. CASE \E e \in Events : AppendKnown(e) \/ AppendNew(e)
  BY <1>3 DEF AppendKnown, AppendNew, memory
<1>4. CASE Write
  BY <1>4 DEF Write
<1>5. CASE IndexLine
  <2>1. size \in Nat /\ size # NoEntry /\ current \in Events
    BY <1>5, StoreAssumption, LenProperties DEF IndexLine, TypeOK, Control
  <2>2. index'[current] = size
    BY <1>5, <2>1 DEF IndexLine, TypeOK, IndexMaps
  <2>3. QED
    BY <1>5, <2>1, <2>2 DEF IndexLine
<1>6. CASE Truncate
  BY <1>6 DEF Truncate
<1>7. CASE Flush
  BY <1>7 DEF Flush
<1>8. CASE ShortWrite \/ CallFails
  BY <1>8 DEF ShortWrite, CallFails, Reject
<1>9. CASE Crash \/ CrashInWrite
  BY <1>9 DEF Crash, CrashInWrite, Killed
<1>10. CASE UNCHANGED vars
  BY <1>10 DEF vars, memory
<1>11. QED
  BY <1>1, <1>2, <1>3, <1>4, <1>5, <1>6, <1>7, <1>8, <1>9, <1>10 DEF Next

-----------------------------------------------------------------------------
(* An append adds no line but its own.                                     *)

\* A prefix of the line of c, all of it or torn.
LEMMA Prefix ==
  ASSUME NEW c \in Events, NEW n \in 1 .. BodyLen[c] + 1
  PROVE  /\ SubSeq(Line(c), 1, n) \in Seq(Cells)
         /\ Len(SubSeq(Line(c), 1, n)) = n
         /\ \A k \in 1 .. n : k <= BodyLen[c] => SubSeq(Line(c), 1, n)[k] = <<c, k>>
         /\ n = BodyLen[c] + 1 => SubSeq(Line(c), 1, n) = Line(c)
<1>1. /\ BodyLen[c] \in Nat \ {0} /\ n \in Nat
      /\ Line(c) \in Seq(Cells) /\ Len(Line(c)) = BodyLen[c] + 1
  BY LineShape
<1>2. \A i \in 1 .. n : Line(c)[i] \in Cells
  <2>1. \A i \in 1 .. n : i \in 1 .. Len(Line(c))
    BY <1>1
  <2>2. QED
    BY <1>1, <2>1, ElementOfSeq
<1>3. /\ SubSeq(Line(c), 1, n) \in Seq(Cells)
      /\ Len(SubSeq(Line(c), 1, n)) = n
      /\ \A i \in 1 .. n : SubSeq(Line(c), 1, n)[i] = Line(c)[i]
  <2>1. n - 1 + 1 = n /\ 1 <= n /\ \A i \in 1 .. n : 1 + i - 1 = i
    BY <1>1
  <2>2. QED
    BY <1>1, <1>2, <2>1, SubSeqProperties
<1>4. \A k \in 1 .. n : k <= BodyLen[c] => SubSeq(Line(c), 1, n)[k] = <<c, k>>
  BY <1>1, <1>3, LineShape
<1>5. ASSUME n = BodyLen[c] + 1
      PROVE  SubSeq(Line(c), 1, n) = Line(c)
  BY <1>1, <1>3, <1>5, LenProperties
<1>6. QED
  BY <1>3, <1>4, <1>5

LEMMA LinesOfAppend ==
  ASSUME NEW file \in Seq(Cells), NEW c \in Events, NEW n \in 1 .. BodyLen[c] + 1,
         NEW e \in Events
  PROVE  LET now == Lines(file \o SubSeq(Line(c), 1, n), e)
         IN  IF e = c THEN now \subseteq Lines(file, e) \cup {Len(file)}
                      ELSE now \subseteq Lines(file, e)
<1> DEFINE piece == SubSeq(Line(c), 1, n)
<1>1. PICK long : long = file \o piece
  OBVIOUS
<1>2. /\ Len(file) \in Nat /\ n \in Nat /\ BodyLen[e] \in Nat \ {0}
      /\ BodyLen[c] \in Nat \ {0}
      /\ n <= BodyLen[c] + 1
  BY LineShape, LenProperties
<1>3. /\ Len(long) = Len(file) + n
      /\ \A i \in 1 .. Len(file) : long[i] = file[i]
      /\ \A k \in 1 .. n : long[Len(file) + k] = piece[k]
  <2>1. piece \in Seq(Cells) /\ Len(piece) = n
    BY Prefix
  <2>2. /\ Len(long) = Len(file) + n
        /\ \A i \in 1 .. Len(file) + n : long[i] =
             IF i <= Len(file) THEN file[i] ELSE piece[i - Len(file)]
    BY <1>1, <2>1, ConcatProperties
  <2>3. \A i \in 1 .. Len(file) : long[i] = file[i]
    BY <1>2, <2>2
  <2>4. ASSUME NEW k \in 1 .. n PROVE long[Len(file) + k] = piece[k]
    <3>1. /\ Len(file) + k \in 1 .. Len(file) + n
          /\ ~(Len(file) + k <= Len(file))
          /\ Len(file) + k - Len(file) = k
      BY <1>2
    <3>2. QED
      BY <2>2, <3>1
  <2>5. QED
    BY <2>2, <2>3, <2>4
<1>4. \A k \in 1 .. n : k <= BodyLen[c] => long[Len(file) + k] = <<c, k>>
  BY <1>3, Prefix
<1>5. ASSUME NEW o \in Lines(long, e)
      PROVE  IF e = c THEN o \in Lines(file, e) \cup {Len(file)} ELSE o \in Lines(file, e)
  <2>1. /\ o \in Nat /\ o + BodyLen[e] <= Len(long)
        /\ \A k \in 1 .. BodyLen[e] : long[o + k] = <<e, k>>
        /\ o = 0 \/ long[o] = NewLine
        /\ o + BodyLen[e] = Len(long) \/ long[o + BodyLen[e] + 1] = NewLine
    BY <1>2, <1>3 DEF Lines, LineAt, BodyAt
  <2>2. CASE o + BodyLen[e] <= Len(file)
    \* The line lies in the old file, and ended there already.
    <3>1. \A k \in 1 .. BodyLen[e] : o + k \in 1 .. Len(file)
      BY <1>2, <2>1, <2>2
    <3>2. BodyAt(file, e, o)
      BY <1>3, <2>1, <2>2, <3>1 DEF BodyAt
    <3>3. o = 0 \/ file[o] = NewLine
      <4>1. o = 0 \/ o \in 1 .. Len(file)
        BY <1>2, <2>1, <2>2
      <4>2. QED
        BY <1>3, <2>1, <4>1
    <3>4. o + BodyLen[e] = Len(file) \/ file[o + BodyLen[e] + 1] = NewLine
      <4>1. CASE o + BodyLen[e] = Len(file)
        BY <4>1
      <4>2. CASE o + BodyLen[e] # Len(file)
        <5>1. o + BodyLen[e] + 1 \in 1 .. Len(file)
          BY <1>2, <2>1, <2>2, <4>2
        <5>2. o + BodyLen[e] # Len(long)
          BY <1>2, <1>3, <2>1, <2>2
        <5>3. QED
          BY <1>3, <2>1, <5>1, <5>2
      <4>3. QED
        BY <4>1, <4>2
    <3>5. o \in 0 .. Len(file)
      BY <1>2, <2>1, <2>2
    <3>6. QED
      BY <3>2, <3>3, <3>4, <3>5 DEF Lines, LineAt
  <2>3. CASE ~(o + BodyLen[e] <= Len(file))
    \* Its last cell is one of the new cells: it is the line of c, at the end.
    <3>1. PICK b \in 1 .. n : b = o + BodyLen[e] - Len(file)
      <4>1. o + BodyLen[e] - Len(file) \in 1 .. n
        BY <1>2, <1>3, <2>1, <2>3
      <4>2. QED
        BY <4>1
    <3>2. Len(file) + b = o + BodyLen[e] /\ BodyLen[e] \in 1 .. BodyLen[e]
      <4>1. PICK m \in Nat \ {0} : m = BodyLen[e]
        BY <1>2
      <4>2. PICK len \in Nat : len = Len(file)
        BY <1>2
      <4>3. len + b = o + m
        BY <1>2, <2>1, <3>1, <4>1, <4>2
      <4>4. m \in 1 .. m
        OBVIOUS
      <4>5. QED
        BY <4>1, <4>2, <4>3, <4>4
    <3>3. long[Len(file) + b] = <<e, BodyLen[e]>>
      BY <2>1, <3>2
    <3>4. b <= BodyLen[c]
      <4>1. SUFFICES ASSUME ~(b <= BodyLen[c]) PROVE FALSE
        OBVIOUS
      <4>2. b = BodyLen[c] + 1 /\ n = BodyLen[c] + 1
        BY <1>2, <3>1, <4>1
      <4>3. piece = Line(c) /\ Body(c) \in Seq(Cells) /\ Len(Body(c)) = BodyLen[c]
        <5>1. Body(c) \in [1 .. BodyLen[c] -> Cells]
          BY <1>2 DEF Body, Cells
        <5>2. Body(c) \in Seq(Cells) /\ Len(Body(c)) = BodyLen[c]
          BY <1>2, <5>1, SeqDef
        <5>3. piece = Line(c)
          BY <4>2, Prefix
        <5>4. QED
          BY <5>2, <5>3
      <4>4. piece[b] = NewLine
        BY <4>2, <4>3, AppendProperties DEF Line, Cells
      <4>5. NewLine = <<e, BodyLen[e]>> /\ <<e, BodyLen[e]>> \in Events \X Nat
        BY <1>2, <1>3, <3>1, <3>3, <4>4
      <4>6. QED
        BY <4>5, StoreAssumption
    <3>5. <<e, BodyLen[e]>> = <<c, b>>
      BY <1>4, <3>3, <3>4
    <3>6. e = c /\ b = BodyLen[e]
      BY <3>5
    <3>7. o = Len(file)
      BY <1>2, <2>1, <3>2, <3>6
    <3>8. QED
      BY <3>6, <3>7
  <2>4. QED
    BY <2>2, <2>3
<1>6. QED
  BY <1>1, <1>5

LEMMA LinesFinite ==
  ASSUME NEW file \in Seq(Cells), NEW e \in Events
  PROVE  IsFiniteSet(Lines(file, e)) /\ Cardinality(Lines(file, e)) \in Nat
<1>1. Len(file) \in Nat
  BY LenProperties
<1>2. IsFiniteSet(0 .. Len(file))
  BY <1>1, FS_Interval
<1>3. Lines(file, e) \in SUBSET (0 .. Len(file))
  BY DEF Lines
<1>4. QED
  BY <1>2, <1>3, FS_Subset, FS_CardinalityType

LEMMA LinesGrow ==
  ASSUME NEW file \in Seq(Cells), NEW c \in Events, NEW n \in 1 .. BodyLen[c] + 1,
         NEW e \in Events
  PROVE  LET long == file \o SubSeq(Line(c), 1, n)
         IN  /\ Cardinality(Lines(long, e)) \in Nat
             /\ Cardinality(Lines(long, e)) <=
                  Cardinality(Lines(file, e)) + (IF e = c THEN 1 ELSE 0)
<1>1. PICK long : long = file \o SubSeq(Line(c), 1, n)
  OBVIOUS
<1>2. long \in Seq(Cells)
  BY <1>1, Prefix, ConcatProperties
<1>3. PICK before : before = Lines(file, e)
  OBVIOUS
<1>4. IsFiniteSet(before) /\ Cardinality(before) \in Nat
  BY <1>3, LinesFinite
<1>5. /\ IsFiniteSet(before \cup {Len(file)})
      /\ Cardinality(before \cup {Len(file)}) <= Cardinality(before) + 1
      /\ Cardinality(before \cup {Len(file)}) \in Nat
  <2>1. PICK more : more = before \cup {Len(file)}
    OBVIOUS
  <2>2. /\ IsFiniteSet(more)
        /\ Cardinality(more) = IF Len(file) \in before THEN Cardinality(before)
                               ELSE Cardinality(before) + 1
    BY <1>4, <2>1, FS_AddElement
  <2>3. QED
    BY <1>4, <2>1, <2>2
<1>6. Cardinality(Lines(long, e)) \in Nat
  BY <1>2, LinesFinite
<1>7. CASE e = c
  <2>1. Lines(long, e) \in SUBSET (before \cup {Len(file)})
    BY <1>1, <1>3, <1>7, LinesOfAppend
  <2>2. Cardinality(Lines(long, e)) <= Cardinality(before \cup {Len(file)})
    BY <1>5, <2>1, FS_Subset
  <2>3. QED
    BY <1>1, <1>3, <1>4, <1>5, <1>6, <1>7, <2>2
<1>8. CASE e # c
  <2>1. Lines(long, e) \in SUBSET before
    BY <1>1, <1>3, <1>8, LinesOfAppend
  <2>2. Cardinality(Lines(long, e)) <= Cardinality(before)
    BY <1>4, <2>1, FS_Subset
  <2>3. QED
    BY <1>1, <1>3, <1>4, <1>6, <1>8, <2>2
<1>9. QED
  BY <1>7, <1>8

-----------------------------------------------------------------------------
(* One line per life.  The line this life accounts for is the one its      *)
(* index knows, or is about to.                                            *)

Standing(e) ==
  IF running /\ (index[e] # NoEntry \/ (pc = "sync" /\ current = e)) THEN 1 ELSE 0

OncePerLife ==
  \A e \in Events : Cardinality(Lines(log, e)) <= crashes + rejected + Standing(e)

\* The log stays: lives and rejections must not fall below what stands.
LEMMA OnceKept ==
  ASSUME TypeOK, OncePerLife, log' = log,
         \A e \in Events :
           crashes + rejected + Standing(e) <= crashes' + rejected' + Standing(e)'
  PROVE  OncePerLife'
<1> SUFFICES ASSUME NEW e \in Events
             PROVE  Cardinality(Lines(log, e)) <= crashes' + rejected' + Standing(e)'
  BY DEF OncePerLife
<1>1. PICK n \in Nat : n = Cardinality(Lines(log, e))
  BY LinesFinite DEF TypeOK
<1>2. PICK before : before = crashes + rejected + Standing(e)
  OBVIOUS
<1>3. before \in Nat
  BY <1>2, StoreAssumption DEF TypeOK, Standing
<1>4. PICK after : after = crashes' + rejected' + Standing(e)'
  OBVIOUS
<1>5. n <= before /\ before <= after
  BY <1>1, <1>2, <1>4 DEF OncePerLife
<1>6. QED
  BY <1>1, <1>3, <1>4, <1>5

\* A torn line of the running append: one more line, but a life or a
\* rejection more as well.
LEMMA OnceTorn ==
  ASSUME TypeOK, Control, Appends, OncePerLife, Tear,
         TypeOK', crashes' + rejected' = crashes + rejected + 1
  PROVE  OncePerLife'
<1> SUFFICES ASSUME NEW e \in Events
             PROVE  Cardinality(Lines(log', e)) <= crashes' + rejected' + Standing(e)'
  BY DEF OncePerLife
<1>1. pc = "write" /\ current \in Events /\ log \in Seq(Cells)
  BY DEF Tear, Control, TypeOK
<1>2. PICK n \in 1 .. BodyLen[current] : log' = log \o SubSeq(Line(current), 1, n)
  BY DEF Tear
<1>3. n \in 1 .. BodyLen[current] + 1
  BY <1>1, LineShape
<1>4. PICK was \in Nat : was = Cardinality(Lines(log, e))
  BY <1>1, LinesFinite
<1>5. PICK is \in Nat : /\ is = Cardinality(Lines(log', e))
                        /\ is <= was + (IF e = current THEN 1 ELSE 0)
  BY <1>1, <1>2, <1>3, <1>4, LinesGrow
<1>6. was <= crashes + rejected + Standing(e)
  BY <1>4 DEF OncePerLife
<1>7. Standing(e)' \in {0, 1} /\ Standing(e) \in {0, 1}
  BY DEF Standing
<1>8. e = current => Standing(e) = 0
  BY <1>1 DEF Standing, Appends
<1>9. crashes \in Nat /\ rejected \in Nat
  BY StoreAssumption DEF TypeOK
<1>10. QED
  BY <1>4, <1>5, <1>6, <1>7, <1>8, <1>9

LEMMA OnceInit == Init => OncePerLife
<1> SUFFICES ASSUME Init, NEW e \in Events
             PROVE  Cardinality(Lines(log, e)) <= crashes + rejected + Standing(e)
  BY DEF OncePerLife
<1>1. BodyLen[e] \in Nat \ {0} /\ Len(log) = 0
  BY LineShape, EmptySeq DEF Init
<1>2. Lines(log, e) = {}
  <2>1. \A o \in 0 .. 0 : ~(o + BodyLen[e] <= 0)
    BY <1>1
  <2>2. QED
    BY <1>1, <2>1 DEF Lines, LineAt, BodyAt
<1>3. QED
  BY <1>2, FS_EmptySet DEF Init, Standing

LEMMA OnceStep == StoreInv /\ StoreInv' /\ Appends /\ OncePerLife /\ [Next]_vars => OncePerLife'
<1> SUFFICES ASSUME StoreInv, StoreInv', Appends, OncePerLife, [Next]_vars PROVE OncePerLife'
  OBVIOUS
<1> USE DEF StoreInv
<1>0. /\ crashes \in Nat /\ rejected \in Nat
      /\ \A e \in Events : Standing(e) \in {0, 1} /\ Standing(e)' \in {0, 1}
  BY StoreAssumption DEF TypeOK, Standing
<1>1. CASE BootLoaded
  <2>1. \A e \in Events : Standing(e) <= Standing(e)'
    BY <1>0, <1>1 DEF BootLoaded, Standing
  <2>2. QED
    BY <1>0, <1>1, <2>1, OnceKept DEF BootLoaded
<1>2. CASE BootRebuilt
  <2>1. \A e \in Events : Standing(e) <= Standing(e)'
    BY <1>0, <1>2 DEF BootRebuilt, Standing
  <2>2. QED
    BY <1>0, <1>2, <2>1, OnceKept DEF BootRebuilt
<1>3. CASE \E e \in Events : AppendKnown(e) \/ AppendNew(e)
  <2>1. /\ \A e \in Events : Standing(e) <= Standing(e)'
        /\ log' = log /\ crashes' = crashes /\ rejected' = rejected
    BY <1>0, <1>3 DEF AppendKnown, AppendNew, memory, Standing
  <2>2. QED
    BY <1>0, <2>1, OnceKept
<1>4. CASE Write
  <2> SUFFICES ASSUME NEW e \in Events
               PROVE  Cardinality(Lines(log', e)) <= crashes' + rejected' + Standing(e)'
    BY DEF OncePerLife
  <2>1. /\ running /\ current \in Events /\ log \in Seq(Cells)
        /\ log' = log \o Line(current)
        /\ index[current] = NoEntry
    BY <1>4 DEF Write, Control, TypeOK, Appends
  <2>2. BodyLen[current] + 1 \in 1 .. BodyLen[current] + 1
    BY <2>1, LineShape
  <2>3. log' = log \o SubSeq(Line(current), 1, BodyLen[current] + 1)
    BY <2>1, <2>2, Prefix
  <2>4. PICK was \in Nat : was = Cardinality(Lines(log, e))
    BY <2>1, LinesFinite
  <2>5. PICK is \in Nat : /\ is = Cardinality(Lines(log', e))
                          /\ is <= was + (IF e = current THEN 1 ELSE 0)
    BY <2>1, <2>2, <2>3, <2>4, LinesGrow
  <2>6. was <= crashes + rejected + Standing(e)
    BY <2>4 DEF OncePerLife
  <2>7. Standing(e)' = IF e = current THEN 1 ELSE Standing(e)
    BY <1>4, <2>1 DEF Write, Standing
  <2>8. e = current => Standing(e) = 0
    BY <1>4, <2>1 DEF Write, Standing
  <2>9. crashes' = crashes /\ rejected' = rejected
    BY <1>4 DEF Write
  <2>10. QED
    BY <1>0, <2>4, <2>5, <2>6, <2>7, <2>8, <2>9
<1>5. CASE IndexLine
  <2>1. index'[current] # NoEntry /\ index \in IndexMaps /\ running /\ current \in Events
    <3>1. size \in Nat /\ size # NoEntry /\ index \in IndexMaps /\ running /\ current \in Events
      BY <1>5, StoreAssumption, LenProperties DEF IndexLine, TypeOK, Control
    <3>2. QED
      BY <1>5, <3>1 DEF IndexLine, IndexMaps
  <2>2. \A e \in Events : e # current => index'[e] = index[e]
    BY <1>5, <2>1 DEF IndexLine, IndexMaps
  <2>3. \A e \in Events : Standing(e) <= Standing(e)'
    BY <1>0, <1>5, <2>1, <2>2 DEF IndexLine, Standing
  <2>4. QED
    BY <1>0, <1>5, <2>3, OnceKept DEF IndexLine
<1>6. CASE Truncate
  <2>1. \A e \in Events : Standing(e) <= Standing(e)'
    BY <1>0, <1>6 DEF Truncate, Standing
  <2>2. QED
    BY <1>0, <1>6, <2>1, OnceKept DEF Truncate
<1>7. CASE Flush
  <2>1. \A e \in Events : Standing(e) <= Standing(e)'
    BY <1>0, <1>7 DEF Flush, Standing
  <2>2. QED
    BY <1>0, <1>7, <2>1, OnceKept DEF Flush
<1>8. CASE ShortWrite
  <2>1. Tear /\ crashes' + rejected' = crashes + rejected + 1
    BY <1>0, <1>8 DEF ShortWrite, Reject
  <2>2. QED
    BY <2>1, OnceTorn
<1>9. CASE CallFails
  <2>1. log' = log /\ crashes' = crashes /\ rejected' = rejected + 1
    BY <1>9 DEF CallFails, Reject
  <2>2. \A e \in Events : Standing(e) <= Standing(e)' + 1
    BY <1>0
  <2>3. \A e \in Events : crashes + rejected + Standing(e) <= crashes' + rejected' + Standing(e)'
    BY <1>0, <2>1, <2>2
  <2>4. QED
    BY <2>1, <2>3, OnceKept
<1>10. CASE Crash
  <2>1. log' = log /\ crashes' = crashes + 1 /\ rejected' = rejected
    BY <1>10 DEF Crash, Killed
  <2>2. \A e \in Events : Standing(e) <= Standing(e)' + 1
    BY <1>0
  <2>3. \A e \in Events : crashes + rejected + Standing(e) <= crashes' + rejected' + Standing(e)'
    BY <1>0, <2>1, <2>2
  <2>4. QED
    BY <2>1, <2>3, OnceKept
<1>11. CASE CrashInWrite
  <2>1. Tear /\ crashes' + rejected' = crashes + rejected + 1
    BY <1>0, <1>11 DEF CrashInWrite, Killed
  <2>2. QED
    BY <2>1, OnceTorn
<1>12. CASE UNCHANGED vars
  <2>1. /\ \A e \in Events : Standing(e) <= Standing(e)'
        /\ log' = log /\ crashes' = crashes /\ rejected' = rejected
    BY <1>0, <1>12 DEF vars, memory, Standing
  <2>2. QED
    BY <1>0, <2>1, OnceKept
<1>13. QED
  BY <1>1, <1>2, <1>3, <1>4, <1>5, <1>6, <1>7, <1>8, <1>9, <1>10, <1>11, <1>12 DEF Next

\* "Idempotent on event.id", across crashes: an event has one line in the log,
\* and one more for each restart and each rejected append.
THEOREM WrittenOnce == Spec => []WrittenOncePerLife
<1>1. Init => StoreInv /\ Appends /\ OncePerLife
  BY StoreInit, AppendsInit, OnceInit
<1>2. (StoreInv /\ Appends /\ OncePerLife) /\ [Next]_vars => (StoreInv /\ Appends /\ OncePerLife)'
  BY StoreStep, AppendsStep, OnceStep
<1>3. StoreInv /\ OncePerLife => WrittenOncePerLife
  <2> SUFFICES ASSUME StoreInv, OncePerLife, NEW e \in Events
               PROVE  Cardinality(Lines(log, e)) <= 1 + crashes + rejected
    BY DEF WrittenOncePerLife
  <2>1. /\ Cardinality(Lines(log, e)) \in Nat
        /\ crashes \in Nat /\ rejected \in Nat
    BY LinesFinite, StoreAssumption DEF StoreInv, TypeOK
  <2>2. Cardinality(Lines(log, e)) <= crashes + rejected + Standing(e) /\ Standing(e) \in {0, 1}
    BY DEF OncePerLife, Standing
  <2>3. QED
    BY <2>1, <2>2
<1>4. QED
  BY <1>1, <1>2, <1>3, PTL DEF Spec

-----------------------------------------------------------------------------
(* What a torn write costs.  The store owes the walks every event it has   *)
(* acknowledged, or still may: the index and its file know it, or it was   *)
(* just written.  Of these only the record glued to a torn tail is not a   *)
(* terminated line, and a tail that is still ragged has cost nothing yet.  *)

OnDisk == IF idxFile = Unreadable THEN {} ELSE Known(idxFile)

Owed == acked \cup Known(index) \cup OnDisk \cup (IF pc = "sync" THEN {current} ELSE {})

Lost == {e \in Owed : Terminated(log, e) = {}}

Ragged == IF log # <<>> /\ log[Len(log)] # NewLine THEN 1 ELSE 0

LossPerTear == Cardinality(Lost) + Ragged <= tears

LEMMA TerminatedStays ==
  ASSUME NEW file \in Seq(Cells), NEW tail \in Seq(Cells), NEW e \in Events,
         Terminated(file, e) # {}
  PROVE  Terminated(file \o tail, e) # {}
<1>1. PICK o : o \in Terminated(file, e)
  OBVIOUS
<1>2. /\ o \in Nat /\ BodyLen[e] \in Nat /\ Len(file) \in Nat
      /\ o + BodyLen[e] < Len(file)
      /\ BodyAt(file, e, o)
      /\ o = 0 \/ file[o] = NewLine
      /\ file[o + BodyLen[e] + 1] = NewLine
  BY <1>1, LineShape, LenProperties DEF Terminated, Lines, LineAt
<1>3. PICK long : long = file \o tail
  OBVIOUS
<1>4. /\ Len(long) \in Nat /\ Len(file) <= Len(long)
      /\ \A i \in 1 .. Len(file) : long[i] = file[i]
  <2>1. /\ Len(long) = Len(file) + Len(tail) /\ Len(tail) \in Nat
        /\ \A i \in 1 .. Len(file) + Len(tail) : long[i] =
             IF i <= Len(file) THEN file[i] ELSE tail[i - Len(file)]
    BY <1>3, ConcatProperties, LenProperties
  <2>2. \A i \in 1 .. Len(file) : i \in 1 .. Len(file) + Len(tail) /\ i <= Len(file)
    BY <1>2, <2>1
  <2>3. QED
    BY <1>2, <2>1, <2>2
<1>5. BodyAt(long, e, o)
  BY <1>2, <1>3, BodyStays
<1>6. o = 0 \/ long[o] = NewLine
  <2>1. o = 0 \/ o \in 1 .. Len(file)
    BY <1>2
  <2>2. QED
    BY <1>2, <1>4, <2>1
<1>7. long[o + BodyLen[e] + 1] = NewLine
  <2>1. o + BodyLen[e] + 1 \in 1 .. Len(file)
    BY <1>2
  <2>2. QED
    BY <1>2, <1>4, <2>1
<1>8. o \in 0 .. Len(long) /\ o + BodyLen[e] < Len(long)
  BY <1>2, <1>4
<1>9. QED
  BY <1>3, <1>5, <1>6, <1>7, <1>8 DEF Terminated, Lines, LineAt

\* A whole line leaves no ragged tail.
LEMMA LineEnds ==
  ASSUME NEW file \in Seq(Cells), NEW e \in Events
  PROVE  LET long == file \o Line(e) IN long[Len(long)] = NewLine
<1>1. PICK long : long = file \o Line(e)
  OBVIOUS
<1>2. /\ Len(file) \in Nat /\ BodyLen[e] \in Nat \ {0}
      /\ Line(e) \in Seq(Cells) /\ Len(Line(e)) = BodyLen[e] + 1
      /\ Len(long) = Len(file) + Len(Line(e))
      /\ \A i \in 1 .. Len(file) + Len(Line(e)) : long[i] =
           IF i <= Len(file) THEN file[i] ELSE Line(e)[i - Len(file)]
  BY <1>1, LineShape, ConcatProperties, LenProperties
<1>3. Line(e)[BodyLen[e] + 1] = NewLine
  <2>1. Body(e) \in [1 .. BodyLen[e] -> Cells]
    BY <1>2 DEF Body, Cells
  <2>2. PICK m \in Nat : m = BodyLen[e]
    BY <1>2
  <2>3. PICK b : b = Body(e)
    OBVIOUS
  <2>4. b \in Seq(Cells) /\ Len(b) = m
    BY <2>1, <2>2, <2>3, SeqDef
  <2>5. NewLine \in Cells
    BY DEF Cells
  <2>6. Append(b, NewLine)[m + 1] = NewLine
    BY <2>4, <2>5, AppendProperties
  <2>7. QED
    BY <2>2, <2>3, <2>6 DEF Line
<1>4. PICK m \in Nat \ {0} : m = BodyLen[e] + 1 /\ Len(Line(e)) = m
  BY <1>2
<1>5. PICK len \in Nat : len = Len(file)
  BY <1>2
<1>6. Len(long) = len + m
  BY <1>2, <1>4, <1>5
<1>7. len + m \in 1 .. len + m /\ ~(len + m <= len) /\ (len + m) - len = m
  OBVIOUS
<1>8. long[Len(long)] = Line(e)[m]
  BY <1>2, <1>4, <1>5, <1>6, <1>7
<1>9. QED
  BY <1>1, <1>3, <1>4, <1>8

\* A line written to a file that is not ragged can be walked.
LEMMA LineTerminates ==
  ASSUME NEW file \in Seq(Cells), NEW e \in Events,
         file = <<>> \/ file[Len(file)] = NewLine
  PROVE  Terminated(file \o Line(e), e) # {}
<1>1. PICK long : long = file \o Line(e)
  OBVIOUS
<1>2. /\ BodyAt(long, e, Len(file))
      /\ Len(long) = Len(file) + BodyLen[e] + 1
      /\ Len(file) \in Nat /\ BodyLen[e] \in Nat \ {0}
  BY <1>1, BodyWritten, LineShape, LenProperties
<1>3. \A i \in 1 .. Len(file) : long[i] = file[i]
  <2>1. /\ Line(e) \in Seq(Cells) /\ Len(Line(e)) \in Nat
        /\ \A i \in 1 .. Len(file) + Len(Line(e)) : long[i] =
             IF i <= Len(file) THEN file[i] ELSE Line(e)[i - Len(file)]
    BY <1>1, LineShape, ConcatProperties, LenProperties
  <2>2. \A i \in 1 .. Len(file) : i \in 1 .. Len(file) + Len(Line(e)) /\ i <= Len(file)
    BY <1>2, <2>1
  <2>3. QED
    BY <2>1, <2>2
<1>4. Len(file) = 0 \/ long[Len(file)] = NewLine
  <2>1. CASE Len(file) = 0
    BY <2>1
  <2>2. CASE Len(file) # 0
    <3>1. file # <<>> /\ Len(file) \in 1 .. Len(file)
      BY <1>2, <2>2, EmptySeq
    <3>2. QED
      BY <1>3, <3>1
  <2>3. QED
    BY <2>1, <2>2
<1>5. long[Len(file) + BodyLen[e] + 1] = NewLine
  BY <1>1, <1>2, LineEnds
<1>6. Len(file) \in 0 .. Len(long) /\ Len(file) + BodyLen[e] < Len(long)
  BY <1>2
<1>7. Len(file) \in Terminated(long, e)
  BY <1>2, <1>4, <1>5, <1>6 DEF Terminated, Lines, LineAt
<1>8. QED
  BY <1>1, <1>7

LEMMA LostFinite ==
  ASSUME TypeOK, Control
  PROVE  /\ Owed \in SUBSET Events
         /\ IsFiniteSet(Lost) /\ Cardinality(Lost) \in Nat
         /\ Ragged \in {0, 1}
<1>1. OnDisk \in SUBSET Events /\ Known(index) \in SUBSET Events
  BY DEF OnDisk, Known
<1>2. Owed \in SUBSET Events
  BY <1>1 DEF Owed, TypeOK, Control
<1>3. Lost \in SUBSET Events
  BY <1>2 DEF Lost
<1>4. IsFiniteSet(Events)
  BY StoreAssumption
<1>5. QED
  BY <1>2, <1>3, <1>4, FS_Subset, FS_CardinalityType DEF Ragged

\* The log stays, and nothing more is owed than before or stands in it.
LEMMA LossKept ==
  ASSUME TypeOK, Control, TypeOK', Control', LossPerTear, log' = log, tears' = tears,
         \A e \in Owed' \ Owed : Terminated(log, e) # {}
  PROVE  LossPerTear'
<1>1. /\ IsFiniteSet(Lost) /\ Cardinality(Lost) \in Nat /\ Ragged \in {0, 1}
  BY LostFinite
<1>2. PICK after : after = Lost'
  OBVIOUS
<1>3. after \in SUBSET Lost
  BY <1>2 DEF Lost
<1>4. IsFiniteSet(after) /\ Cardinality(after) <= Cardinality(Lost)
  BY <1>1, <1>3, FS_Subset
<1>5. Cardinality(after) \in Nat
  BY <1>4, FS_CardinalityType
<1>6. Ragged' = Ragged
  BY DEF Ragged
<1>7. Cardinality(Lost)' = Cardinality(after)
  BY <1>2
<1>8. tears \in Nat
  BY DEF TypeOK
<1>9. QED
  BY <1>1, <1>4, <1>5, <1>6, <1>7, <1>8 DEF LossPerTear

\* A torn write: the tail may be ragged now, for one tear more.
LEMMA LossTorn ==
  ASSUME TypeOK, Control, TypeOK', Control', LossPerTear, Tear, Owed' \subseteq Owed
  PROVE  LossPerTear'
<1>1. /\ IsFiniteSet(Lost) /\ Cardinality(Lost) \in Nat /\ Ragged \in {0, 1}
      /\ Owed \in SUBSET Events
  BY LostFinite
<1>2. Ragged' \in {0, 1}
  BY DEF Ragged
<1>3. current \in Events /\ log \in Seq(Cells) /\ tears \in Nat /\ tears' = tears + 1
  BY DEF Tear, Control, TypeOK
<1>4. PICK n \in 1 .. BodyLen[current] : log' = log \o SubSeq(Line(current), 1, n)
  BY DEF Tear
<1>5. SubSeq(Line(current), 1, n) \in Seq(Cells)
  BY <1>3, TornTail
<1>6. PICK after : after = Lost'
  OBVIOUS
<1>7. after \in SUBSET Lost
  <2> SUFFICES ASSUME NEW e \in after PROVE e \in Lost
    OBVIOUS
  <2>1. e \in Owed /\ Terminated(log', e) = {}
    BY <1>6 DEF Lost
  <2>2. Terminated(log, e) = {}
    BY <1>1, <1>3, <1>4, <1>5, <2>1, TerminatedStays
  <2>3. QED
    BY <2>1, <2>2 DEF Lost
<1>8. IsFiniteSet(after) /\ Cardinality(after) <= Cardinality(Lost)
  BY <1>1, <1>7, FS_Subset
<1>9. Cardinality(after) \in Nat
  BY <1>8, FS_CardinalityType
<1>10. Cardinality(Lost)' = Cardinality(after)
  BY <1>6
<1>11. QED
  BY <1>1, <1>2, <1>3, <1>8, <1>9, <1>10 DEF LossPerTear

LEMMA LossInit == Init => LossPerTear
<1> SUFFICES ASSUME Init PROVE LossPerTear
  OBVIOUS
<1>1. Owed = {}
  BY DEF Init, Owed, Known, OnDisk
<1>2. Lost = {}
  BY <1>1 DEF Lost
<1>3. Ragged = 0
  BY DEF Init, Ragged
<1>4. QED
  BY <1>2, <1>3, FS_EmptySet DEF Init, LossPerTear

\* The whole line of one more owed event: it can be walked, unless a ragged
\* tail is in front of it, which it closes.
LEMMA LossWrite == StoreInv /\ StoreInv' /\ LossPerTear /\ Write => LossPerTear'
<1> SUFFICES ASSUME StoreInv, StoreInv', LossPerTear, Write PROVE LossPerTear'
  OBVIOUS
<1> USE DEF StoreInv
<1>1. /\ current \in Events /\ log \in Seq(Cells) /\ tears \in Nat /\ tears' = tears
      /\ log' = log \o Line(current)
      /\ Line(current) \in Seq(Cells)
  BY LineShape DEF Write, Control, TypeOK
<1>2. Ragged' = 0
  <2>1. log'[Len(log')] = NewLine
    BY <1>1, LineEnds
  <2>2. QED
    BY <2>1 DEF Ragged
<1>3. Owed' = Owed \cup {current}
  BY DEF Write, Owed, Known, OnDisk
<1>4. /\ IsFiniteSet(Lost) /\ Cardinality(Lost) \in Nat /\ Ragged \in {0, 1}
      /\ Owed \in SUBSET Events
  BY LostFinite
<1>5. PICK after : after = Lost'
  OBVIOUS
<1>6. \A e \in after : /\ e \in Owed \cup {current} /\ e \in Events
                       /\ Terminated(log', e) = {} /\ Terminated(log, e) = {}
  <2> SUFFICES ASSUME NEW e \in after
               PROVE  /\ e \in Owed \cup {current} /\ e \in Events
                      /\ Terminated(log', e) = {} /\ Terminated(log, e) = {}
    OBVIOUS
  <2>1. e \in Owed \cup {current} /\ Terminated(log', e) = {}
    BY <1>3, <1>5 DEF Lost
  <2>2. e \in Events
    BY <1>1, <1>4, <2>1
  <2>3. QED
    BY <1>1, <2>1, <2>2, TerminatedStays
<1>7. after \in SUBSET (Lost \cup {current})
  BY <1>6 DEF Lost
<1>8. /\ IsFiniteSet(Lost \cup {current})
      /\ Cardinality(Lost \cup {current}) \in Nat
      /\ Cardinality(Lost \cup {current}) <= Cardinality(Lost) + 1
  <2>1. PICK more : more = Lost \cup {current}
    OBVIOUS
  <2>2. /\ IsFiniteSet(more)
        /\ Cardinality(more) = IF current \in Lost THEN Cardinality(Lost)
                               ELSE Cardinality(Lost) + 1
    BY <1>4, <2>1, FS_AddElement
  <2>3. QED
    BY <1>4, <2>1, <2>2
<1>9. Cardinality(Lost)' = Cardinality(after)
  BY <1>5
<1>10. CASE Ragged = 1
  <2>1. IsFiniteSet(after) /\ Cardinality(after) <= Cardinality(Lost \cup {current})
    BY <1>7, <1>8, FS_Subset
  <2>2. Cardinality(after) \in Nat
    BY <2>1, FS_CardinalityType
  <2>3. QED
    BY <1>1, <1>2, <1>4, <1>8, <1>9, <1>10, <2>1, <2>2 DEF LossPerTear
<1>11. CASE Ragged = 0
  <2>1. Terminated(log', current) # {}
    BY <1>1, <1>11, LineTerminates DEF Ragged
  <2>2. after \in SUBSET Lost
    BY <1>6, <1>7, <2>1
  <2>3. IsFiniteSet(after) /\ Cardinality(after) <= Cardinality(Lost)
    BY <1>4, <2>2, FS_Subset
  <2>4. Cardinality(after) \in Nat
    BY <2>3, FS_CardinalityType
  <2>5. QED
    BY <1>1, <1>2, <1>4, <1>9, <1>11, <2>3, <2>4 DEF LossPerTear
<1>12. QED
  BY <1>4, <1>10, <1>11

LEMMA LossStep ==
  StoreInv /\ StoreInv' /\ Appends /\ LossPerTear /\ [Next]_vars => LossPerTear'
<1> SUFFICES ASSUME StoreInv, StoreInv', Appends, LossPerTear, [Next]_vars PROVE LossPerTear'
  OBVIOUS
<1> USE DEF StoreInv
<1>1. CASE BootLoaded
  <2>1. Owed' \subseteq Owed
    BY <1>1 DEF BootLoaded, Control, Owed, Known, OnDisk
  <2>2. QED
    BY <1>1, <2>1, LossKept DEF BootLoaded
<1>2. CASE BootRebuilt
  <2>1. \A e \in Owed' \ Owed : e \in Events /\ Rebuilt(log)[e] # NoEntry
    BY <1>2 DEF BootRebuilt, Owed, Known, OnDisk
  <2>2. \A e \in Owed' \ Owed : Terminated(log, e) # {}
    BY <2>1 DEF Rebuilt
  <2>3. QED
    BY <1>2, <2>2, LossKept DEF BootRebuilt
<1>3. ASSUME NEW e \in Events, AppendKnown(e) \/ AppendNew(e)
      PROVE  LossPerTear'
  <2>1. /\ Owed' \subseteq Owed
        /\ log' = log /\ tears' = tears
    BY <1>3 DEF AppendKnown, AppendNew, memory, Owed, Known, OnDisk
  <2>2. QED
    BY <2>1, LossKept
<1>4. CASE Write
  BY <1>4, LossWrite
<1>5. CASE IndexLine
  <2>1. /\ current \in Events /\ pc = "sync" /\ idxFile' = idxFile /\ acked' = acked
        /\ \A e \in Events : e # current => index'[e] = index[e]
        /\ pc' = "persist"
    BY <1>5 DEF IndexLine, Control, TypeOK, IndexMaps
  <2>2. Known(index)' \subseteq Known(index) \cup {current}
    BY <2>1 DEF Known
  <2>3. Owed' \subseteq Owed
    BY <2>1, <2>2 DEF Owed, OnDisk, Known
  <2>4. QED
    BY <1>5, <2>3, LossKept DEF IndexLine
<1>6. CASE Truncate
  <2>1. Owed' \subseteq Owed
    BY <1>6 DEF Truncate, Owed, Known, OnDisk
  <2>2. QED
    BY <1>6, <2>1, LossKept DEF Truncate
<1>7. CASE Flush
  <2>1. {current} \ {NoEvent} \subseteq Known(index)
    BY <1>7 DEF Flush, Appends, Known, TypeOK
  <2>2. OnDisk' \subseteq Known(index)
    BY <1>7 DEF Flush, OnDisk, Known
  <2>3. Owed' \subseteq Owed
    BY <1>7, <2>1, <2>2 DEF Flush, Owed, Known
  <2>4. QED
    BY <1>7, <2>3, LossKept DEF Flush
<1>8. ASSUME Reject PROVE Owed' \subseteq Owed
  BY <1>8 DEF Reject, Owed, Known, OnDisk
<1>9. CASE ShortWrite
  BY <1>8, <1>9, LossTorn DEF ShortWrite
<1>10. CASE CallFails
  BY <1>8, <1>10, LossKept DEF CallFails
<1>11. ASSUME Killed PROVE Owed' \subseteq Owed
  BY <1>11 DEF Killed, Owed, Known, OnDisk
<1>12. CASE Crash
  BY <1>11, <1>12, LossKept DEF Crash
<1>13. CASE CrashInWrite
  BY <1>11, <1>13, LossTorn DEF CrashInWrite
<1>14. CASE UNCHANGED vars
  <2>1. Owed' \subseteq Owed /\ log' = log /\ tears' = tears
    BY <1>14 DEF vars, memory, Owed, Known, OnDisk
  <2>2. QED
    BY <2>1, LossKept
<1>15. QED
  BY <1>1, <1>2, <1>3, <1>4, <1>5, <1>6, <1>7, <1>9, <1>10, <1>12, <1>13, <1>14 DEF Next

LEMMA LossInvariance == Spec => [](StoreInv /\ Appends /\ LossPerTear)
<1>1. Init => StoreInv /\ Appends /\ LossPerTear
  BY StoreInit, AppendsInit, LossInit
<1>2. (StoreInv /\ Appends /\ LossPerTear) /\ [Next]_vars => (StoreInv /\ Appends /\ LossPerTear)'
  BY StoreStep, AppendsStep, LossStep
<1>3. QED
  BY <1>1, <1>2, PTL DEF Spec

\* Every walk finds the event of every fulfilled append, but for at most one
\* per torn write, whatever calls fail and wherever the process is killed.
THEOREM AckedWalked == Spec => []AckedAreWalked
<1>1. StoreInv /\ LossPerTear => AckedAreWalked
  <2> SUFFICES ASSUME StoreInv, LossPerTear PROVE Cardinality(acked \ Walked) <= tears
    BY DEF AckedAreWalked
  <2>1. acked \ Walked \in SUBSET Lost
    BY DEF Walked, Lost, Owed, Terminated, StoreInv, TypeOK
  <2>2. IsFiniteSet(Lost) /\ Cardinality(Lost) \in Nat /\ Ragged \in {0, 1} /\ tears \in Nat
    BY LostFinite DEF StoreInv, TypeOK
  <2>3. IsFiniteSet(acked \ Walked) /\ Cardinality(acked \ Walked) <= Cardinality(Lost)
    BY <2>1, <2>2, FS_Subset
  <2>4. Cardinality(acked \ Walked) \in Nat
    BY <2>3, FS_CardinalityType
  <2>5. QED
    BY <2>2, <2>3, <2>4 DEF LossPerTear
<1>2. QED
  BY <1>1, LossInvariance, PTL

-----------------------------------------------------------------------------
(* Without a failed call the index, in memory or on disk, misses no more   *)
(* than the tears cost.                                                    *)

Missing(map) == acked \ Known(map)

Indexed ==
  rejected = 0 =>
    /\ running => Cardinality(Missing(index)) <= tears
    /\ idxFile # Unreadable => Cardinality(Missing(idxFile)) <= tears
    /\ running /\ pc \in {"idle", "write", "sync"} => idxFile = index

LEMMA FewerMissing ==
  ASSUME NEW S \in SUBSET Events, NEW T \in SUBSET S, NEW n \in Nat, NEW m \in Nat,
         n <= m, Cardinality(S) <= n
  PROVE  Cardinality(T) <= m
<1>1. IsFiniteSet(S)
  BY StoreAssumption, FS_Subset
<1>2. IsFiniteSet(T) /\ Cardinality(T) <= Cardinality(S)
  BY <1>1, FS_Subset
<1>3. Cardinality(S) \in Nat /\ Cardinality(T) \in Nat
  BY <1>1, <1>2, FS_CardinalityType
<1>4. QED
  BY <1>2, <1>3

LEMMA IndexedInit == Init => Indexed
BY DEF Init, Indexed

LEMMA IndexedStep ==
  StoreInv /\ StoreInv' /\ Appends /\ LossPerTear /\ Indexed /\ [Next]_vars => Indexed'
<1> SUFFICES ASSUME StoreInv, StoreInv', Appends, LossPerTear, Indexed, [Next]_vars,
                    rejected' = 0
             PROVE  Indexed'
  BY DEF Indexed
<1> USE DEF StoreInv
<1>0. /\ tears \in Nat /\ tears' \in Nat /\ acked \in SUBSET Events
      /\ \A map : Missing(map) \in SUBSET Events
  BY DEF TypeOK, Missing
<1>1. CASE BootLoaded
  <2>1. Missing(idxFile)' = Missing(idxFile) /\ Missing(index)' = Missing(idxFile)
    BY <1>1 DEF BootLoaded, Missing, Known
  <2>2. QED
    BY <1>1, <2>1 DEF BootLoaded, Indexed
<1>2. CASE BootRebuilt
  <2>1. Missing(index)' \subseteq Lost
    <3> SUFFICES ASSUME NEW e \in Missing(index)' PROVE e \in Lost
      OBVIOUS
    <3>1. e \in acked /\ e \in Events /\ Rebuilt(log)[e] = NoEntry
      BY <1>0, <1>2 DEF BootRebuilt, Missing, Known
    <3>2. Terminated(log, e) = {}
      <4>1. SUFFICES ASSUME Terminated(log, e) # {} PROVE FALSE
        OBVIOUS
      <4>2. Terminated(log, e) \in SUBSET (0 .. Len(log)) /\ Len(log) \in Nat
        BY LenProperties DEF Terminated, Lines, TypeOK
      <4>3. \E o \in Terminated(log, e) : \A p \in Terminated(log, e) : p <= o
        BY <4>1, <4>2, LargestExists
      <4>4. Rebuilt(log)[e] \in Terminated(log, e)
        BY <3>1, <4>1, <4>3 DEF Rebuilt
      <4>5. QED
        BY <3>1, <4>2, <4>4, StoreAssumption
    <3>3. QED
      BY <3>1, <3>2 DEF Lost, Owed
  <2>2. /\ Cardinality(Lost) \in Nat /\ Ragged \in {0, 1} /\ Lost \in SUBSET Events
        /\ Cardinality(Lost) + Ragged <= tears
    BY LostFinite DEF LossPerTear, Lost
  <2>3. Cardinality(Missing(index)') <= tears
    <3>1. PICK rest : rest = Missing(index)'
      OBVIOUS
    <3>2. Cardinality(Lost) <= tears /\ rest \in SUBSET Lost
      BY <1>0, <2>1, <2>2, <3>1
    <3>3. Cardinality(rest) <= tears
      BY <1>0, <2>2, <3>2, FewerMissing
    <3>4. QED
      BY <3>1, <3>3
  <2>4. QED
    BY <1>2, <2>3 DEF BootRebuilt, Indexed
<1>3. ASSUME NEW e \in Events, AppendKnown(e)
      PROVE  Indexed'
  <2>1. /\ rejected = 0 /\ running /\ idxFile = index /\ idxFile' = index' /\ index' = index
        /\ tears' = tears
    BY <1>3 DEF AppendKnown, memory, Indexed
  <2>2. Missing(index)' \in SUBSET Missing(index)
    BY <1>3, <2>1 DEF AppendKnown, Missing, Known
  <2>3. Cardinality(Missing(index)') <= tears
    <3>1. PICK rest : rest = Missing(index)'
      OBVIOUS
    <3>2. Cardinality(rest) <= tears
      BY <1>0, <2>1, <2>2, <3>1, FewerMissing DEF Indexed
    <3>3. QED
      BY <3>1, <3>2
  <2>4. QED
    BY <1>3, <2>1, <2>3 DEF AppendKnown, Indexed, Missing, Known
<1>4. ASSUME NEW e \in Events, AppendNew(e)
      PROVE  Indexed'
  BY <1>4 DEF AppendNew, Indexed, Missing, Known
<1>5. CASE Write
  BY <1>5 DEF Write, Indexed, Missing, Known
<1>6. CASE IndexLine
  <2>1. /\ \A e \in Events : e # current => index'[e] = index[e]
        /\ size # NoEntry /\ index'[current] = size
        /\ acked' = acked /\ rejected = 0 /\ tears' = tears /\ running
    BY <1>6, StoreAssumption, LenProperties DEF IndexLine, Control, TypeOK, IndexMaps
  <2>2. Missing(index)' \in SUBSET Missing(index)
    BY <2>1 DEF Missing, Known
  <2>3. Cardinality(Missing(index)') <= tears
    <3>1. PICK rest : rest = Missing(index)'
      OBVIOUS
    <3>2. Cardinality(rest) <= tears
      BY <1>0, <2>1, <2>2, <3>1, FewerMissing DEF Indexed
    <3>3. QED
      BY <3>1, <3>2
  <2>4. QED
    BY <1>6, <2>1, <2>3 DEF IndexLine, Indexed, Missing, Known
<1>7. CASE Truncate
  BY <1>7 DEF Truncate, Indexed, Missing, Known
<1>8. CASE Flush
  <2>1. {current} \ {NoEvent} \subseteq Known(index)
    BY <1>8 DEF Flush, Appends, Known, TypeOK
  <2>2. Missing(index)' = Missing(index)
    BY <1>8, <2>1 DEF Flush, Missing, Known
  <2>3. running /\ rejected = 0
    BY <1>8 DEF Flush, Control
  <2>4. idxFile' = index' /\ tears' = tears
    BY <1>8 DEF Flush
  <2>5. Cardinality(Missing(index)') <= tears
    BY <2>2, <2>3 DEF Indexed
  <2>6. QED
    BY <2>4, <2>5 DEF Indexed, Missing, Known
<1>9. CASE ShortWrite \/ CallFails
  BY <1>9 DEF ShortWrite, CallFails, Reject, TypeOK
<1>10. CASE Crash \/ CrashInWrite
  <2>1. /\ ~running' /\ rejected = 0 /\ idxFile' = idxFile /\ acked' = acked
        /\ tears' \in {tears, tears + 1}
    BY <1>10 DEF Crash, CrashInWrite, Killed, Tear
  <2>2. Missing(idxFile)' = Missing(idxFile)
    BY <2>1 DEF Missing, Known
  <2>3. tears <= tears'
    BY <1>0, <2>1
  <2>4. idxFile # Unreadable => Cardinality(Missing(idxFile)) <= tears'
    BY <1>0, <2>1, <2>3, FewerMissing DEF Indexed
  <2>5. QED
    BY <2>1, <2>2, <2>4 DEF Indexed
<1>11. CASE UNCHANGED vars
  BY <1>11 DEF vars, memory, Indexed, Missing, Known
<1>12. QED
  BY <1>1, <1>2, <1>3, <1>4, <1>5, <1>6, <1>7, <1>8, <1>9, <1>10, <1>11 DEF Next

\* getById() finds the fulfilled appends of earlier lives of the process too,
\* but for at most one per torn write, as long as no call failed.
THEOREM AckedFound == Spec => []AckedAreFound
<1>1. Init => StoreInv /\ Appends /\ LossPerTear /\ Indexed
  BY StoreInit, AppendsInit, LossInit, IndexedInit
<1>2. (StoreInv /\ Appends /\ LossPerTear /\ Indexed) /\ [Next]_vars
        => (StoreInv /\ Appends /\ LossPerTear /\ Indexed)'
  BY StoreStep, AppendsStep, LossStep, IndexedStep
<1>3. StoreInv /\ Indexed => AckedAreFound
  <2> SUFFICES ASSUME StoreInv, Indexed, running, rejected = 0
               PROVE  Cardinality(acked \ {e \in Events : e \in GetById(e)}) <= tears
    BY DEF AckedAreFound
  <2>1. \A e \in Known(index) : e \in GetById(e)
    BY IndexedReadsBack DEF ReadsBack, Known
  <2>2. acked \ {e \in Events : e \in GetById(e)} \in SUBSET Missing(index)
    BY <2>1 DEF Missing, Known
  <2>3. Missing(index) \in SUBSET Events /\ tears \in Nat
    BY DEF Missing, StoreInv, TypeOK
  <2>4. QED
    BY <2>2, <2>3, FewerMissing DEF Indexed
<1>4. QED
  BY <1>1, <1>2, <1>3, PTL DEF Spec
=============================================================================
