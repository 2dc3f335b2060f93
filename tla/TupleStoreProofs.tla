-------------------------- MODULE TupleStoreProofs --------------------------
(***************************************************************************)
(* For every limit of memory, size of the buffer and bound on puts and      *)
(* failures: what the tuple store holds, what its buffer mirrors, and that  *)
(* for the strict client it implements TupleQueue.                          *)
(***************************************************************************)
EXTENDS TupleStore, SequenceTheorems, TLAPS

-----------------------------------------------------------------------------
(* The operations on the file.                                              *)

LEMMA FlushAtRange == FlushAt \in 2 .. BufferSize
  BY StoreAssumption DEF FlushAt

\* What reaches the file of a text that should.
LEMMA FileGrows ==
  ASSUME NEW text \in Seq(Tuples), file \in Seq(Tuples),
         \/ WrittenOrLost(text) \/ Written(text) \/ FlushFails(text)
  PROVE  file' \in Seq(Tuples)
  <1>1. file \o text \in Seq(Tuples)
    BY ConcatProperties
  <1>2. ASSUME NEW n \in 0 .. Len(text) - 1
        PROVE  file \o SubSeq(text, 1, n) \in Seq(Tuples)
    <2>1. \A i \in 1 .. n : text[i] \in Tuples
      OBVIOUS
    <2>2. SubSeq(text, 1, n) \in Seq(Tuples)
      BY <2>1, SubSeqProperties
    <2>3. QED
      BY <2>2, ConcatProperties
  <1>3. QED
    BY <1>1, <1>2 DEF WrittenOrLost, Written, FlushFails

LEMMA CountGrows ==
  ASSUME NEW text \in Seq(Tuples), file_count \in Nat,
         \/ WrittenOrLost(text) \/ Written(text) \/ FlushFails(text)
  PROVE  file_count' \in Nat
  <1>1. Len(text) \in Nat
    BY LenProperties
  <1>2. QED
    BY <1>1 DEF WrittenOrLost, Written, FlushFails, CountAfter

LEMMA FailuresBounded ==
  ASSUME failures \in 0 .. MaxFailures, Fail \/ Succeed
  PROVE  failures' \in 0 .. MaxFailures
  BY StoreAssumption DEF Fail, Succeed

\* Only a client that is not strict meets a failure.
LEMMA StrictSucceeds ==
  ASSUME NEW text, strict, WrittenOrLost(text)
  PROVE  file' = file \o text /\ file_count' = file_count + Len(text)
  BY DEF WrittenOrLost, Fail, CountAfter

LEMMA DamageSeen ==
  ASSUME NEW text, damaged \in BOOLEAN, Damage(text), ~damaged'
  PROVE  ~damaged /\ file' = file \o text
  BY Zenon DEF Damage

LEMMA DamageTyped ==
  ASSUME NEW text, Damage(text)
  PROVE  damaged' \in BOOLEAN
  BY Zenon DEF Damage

\* The file and its count agree unless the store is damaged.
LEMMA UndamagedFile ==
  ASSUME NEW text \in Seq(Tuples), file \in Seq(Tuples), damaged \in BOOLEAN,
         ~damaged => file_count = Len(file),
         Written(text) \/ WrittenOrLost(text),
         Damage(text) \/ (Written(text) /\ UNCHANGED damaged),
         ~damaged'
  PROVE  /\ ~damaged
         /\ file' = file \o text
         /\ file_count' = Len(file')
  <1>1. ~damaged /\ file' = file \o text
    <2>1. CASE Damage(text)
      BY <2>1, DamageSeen
    <2>2. CASE Written(text) /\ UNCHANGED damaged
      BY <2>2, Zenon DEF Written
    <2>3. QED
      BY <2>1, <2>2
  <1>2. file_count' = file_count + Len(text)
    BY DEF Written, WrittenOrLost, CountAfter
  <1>3. QED
    BY <1>1, <1>2, ConcatProperties

LEMMA UndamagedByFailure ==
  ASSUME NEW text, file \in Seq(Tuples), damaged \in BOOLEAN,
         FlushFails(text), Damage(<<>>), ~damaged'
  PROVE  ~damaged /\ file' = file /\ file_count' = file_count
  <1>1. ~damaged /\ file' = file \o <<>>
    BY DamageSeen
  <1>2. QED
    BY <1>1, ConcatEmptySeq DEF FlushFails

-----------------------------------------------------------------------------
(* The types.                                                               *)

Typed == TypeOK /\ capacity >= 1

LEMMA InitTyped == Init => Typed
  <1> SUFFICES ASSUME Init PROVE Typed
    OBVIOUS
  <1>1. current_memory \in Nat /\ capacity \in Nat /\ capacity >= 1
    <2>1. PointerSize * InitialCapacity \in Nat
      BY StoreAssumption
    <2>2. QED
      BY <2>1, StoreAssumption DEF Init
  <1>2. /\ using_file \in BOOLEAN /\ write_mode \in BOOLEAN /\ freed \in BOOLEAN
        /\ scanning \in BOOLEAN /\ damaged \in BOOLEAN /\ misplaced \in BOOLEAN
        /\ strict \in BOOLEAN
    BY Zenon DEF Init
  <1>3. /\ puts \in 0 .. MaxPuts /\ failures \in 0 .. MaxFailures
        /\ file_count \in Nat /\ buffer_start \in Nat /\ read_pos \in Nat
    BY StoreAssumption DEF Init
  <1>4. /\ tuples \in Seq(Tuples) /\ file \in Seq(Tuples) /\ buffer \in Seq(Tuples)
        /\ acked \in Seq(Tuples) /\ got \in Tuples \cup {NoTuple}
    BY EmptySeq DEF Init
  <1>5. QED
    BY <1>1, <1>2, <1>3, <1>4 DEF Typed, TypeOK

LEMMA GrowTyped ==
  ASSUME Typed, Grow
  PROVE  capacity' \in Nat /\ capacity' >= 1 /\ current_memory' \in Nat
  <1>1. CASE ArrayFull /\ ~MustDump
    <2>1. tuples # <<>>
      BY <1>1, EmptySeq DEF Typed, TypeOK, ArrayFull
    <2>2. Spare \in Int
      BY StoreAssumption DEF Spare, Typed, TypeOK
    <2>3. DoubleSize > MaxMemory => Spare > 0
      BY <1>1, <2>1, <2>2 DEF MustDump
    <2>4. capacity' = (IF DoubleSize > MaxMemory THEN capacity + Spare ELSE 2 * capacity)
      BY <1>1 DEF Grow
    <2>5. capacity' \in Nat /\ capacity' >= 1 /\ capacity' - capacity \in Nat
      <3>1. capacity \in Nat /\ capacity >= 1
        BY DEF Typed, TypeOK
      <3>2. CASE DoubleSize > MaxMemory
        BY <2>2, <2>3, <2>4, <3>1, <3>2
      <3>3. CASE ~(DoubleSize > MaxMemory)
        BY <2>4, <3>1, <3>3
      <3>4. QED
        BY <3>2, <3>3
    <2>6. \A d \in Nat : PointerSize * d \in Nat
      BY StoreAssumption
    <2>7. current_memory' = current_memory + PointerSize * (capacity' - capacity)
      BY <1>1 DEF Grow
    <2>8. PointerSize * (capacity' - capacity) \in Nat
      BY <2>5, <2>6
    <2>9. current_memory' \in Nat
      BY <2>7, <2>8 DEF Typed, TypeOK
    <2>10. QED
      BY <2>5, <2>9
  <1>2. CASE ~(ArrayFull /\ ~MustDump)
    BY <1>2 DEF Grow, Typed, TypeOK
  <1>3. QED
    BY <1>1, <1>2

LEMMA NextPut ==
  ASSUME Typed, StartPut
  PROVE  /\ puts' \in 1 .. MaxPuts /\ puts' \in Tuples
         /\ scanning' \in BOOLEAN
  <1>1. scanning' \in BOOLEAN
    BY Zenon DEF StartPut
  <1>2. puts \in 0 .. MaxPuts /\ puts < MaxPuts /\ puts' = puts + 1
    BY DEF Typed, TypeOK, StartPut
  <1>3. QED
    BY <1>1, <1>2, StoreAssumption DEF Tuples

LEMMA AcknowledgeTyped ==
  ASSUME Typed, NEW t \in Tuples, Acknowledge(t)
  PROVE  acked' \in Seq(Tuples)
  BY AppendProperties DEF Typed, TypeOK, Acknowledge

LEMMA PendingTyped ==
  ASSUME Typed
  PROVE  Pending \in Seq(Tuples) /\ ToFlush \in Seq(Tuples)
  BY EmptySeq DEF Typed, TypeOK, Pending, ToFlush

\* The buffer after a fill: part of the file, which has not become shorter.
LEMMA FillTyped ==
  ASSUME Typed, file' \in Seq(Tuples), file_count' \in Nat,
         NEW last \in Int, last <= LastRead
  PROVE  /\ LastRead \in Int
         /\ SubSeq(file', read_pos + 1, last) \in Seq(Tuples)
         /\ Len(SubSeq(file', read_pos + 1, last)) =
              IF read_pos + 1 <= last THEN last - read_pos ELSE 0
         /\ \A i \in 1 .. last - read_pos :
              /\ read_pos + i <= Len(file')
              /\ SubSeq(file', read_pos + 1, last)[i] = file'[read_pos + i]
  <1>1. read_pos \in Nat /\ BufferSize \in Nat /\ Len(file') \in Nat
    BY StoreAssumption DEF Typed, TypeOK
  <1>2. LastRead \in Int /\ LastRead <= Len(file')
    BY <1>1 DEF LastRead, Lesser
  <1>3. \A i \in read_pos + 1 .. last : i \in 1 .. Len(file')
    BY <1>1, <1>2
  <1>4. \A i \in read_pos + 1 .. last : file'[i] \in Tuples
    BY <1>3
  <1>5. /\ SubSeq(file', read_pos + 1, last) \in Seq(Tuples)
        /\ Len(SubSeq(file', read_pos + 1, last)) =
             IF read_pos + 1 <= last THEN last - (read_pos + 1) + 1 ELSE 0
        /\ \A i \in 1 .. last - (read_pos + 1) + 1 :
             SubSeq(file', read_pos + 1, last)[i] = file'[read_pos + 1 + i - 1]
    BY <1>1, <1>4, SubSeqProperties, SMTT(30)
  <1>6. \A i \in 1 .. last - read_pos :
          /\ i \in 1 .. last - (read_pos + 1) + 1
          /\ read_pos + 1 + i - 1 = read_pos + i
          /\ read_pos + i <= Len(file')
    BY <1>1, <1>2
  <1>7. QED
    BY <1>1, <1>2, <1>5, <1>6

LEMMA TypedStep ==
  ASSUME Typed, Next, UNCHANGED strict
  PROVE  Typed'
  <1>0. /\ tuples \in Seq(Tuples) /\ file \in Seq(Tuples) /\ buffer \in Seq(Tuples)
        /\ acked \in Seq(Tuples) /\ file_count \in Nat /\ read_pos \in Nat
        /\ failures \in 0 .. MaxFailures /\ damaged \in BOOLEAN
        /\ buffer_start \in Nat
    BY DEF Typed, TypeOK
  <1>1. CASE PutInMemory
    <2>1. /\ capacity' \in Nat /\ capacity' >= 1 /\ current_memory' \in Nat
          /\ puts' \in 1 .. MaxPuts /\ puts' \in Tuples /\ scanning' \in BOOLEAN
      BY <1>1, GrowTyped, NextPut DEF PutInMemory
    <2>2. tuples' \in Seq(Tuples) /\ acked' \in Seq(Tuples)
      BY <1>0, <1>1, <2>1, AppendProperties, AcknowledgeTyped DEF PutInMemory
    <2>3. failures' \in 0 .. MaxFailures
      BY <1>0, <1>1, FailuresBounded DEF PutInMemory
    <2>4. UNCHANGED <<disk, buf, read_pos, freed, got, harm, strict>>
      BY <1>1 DEF PutInMemory
    <2>5. QED
      BY <2>1, <2>2, <2>3, <2>4 DEF Typed, TypeOK, disk, buf, harm
  <1>2. CASE PutWithDump
    <2>1. /\ puts' \in 1 .. MaxPuts /\ puts' \in Tuples /\ scanning' \in BOOLEAN
      BY <1>2, NextPut DEF PutWithDump
    <2>2. /\ file' \in Seq(Tuples) /\ file_count' \in Nat
          /\ damaged' \in BOOLEAN
      BY <1>0, <1>2, FileGrows, CountGrows, DamageTyped DEF PutWithDump
    <2>3. failures' \in 0 .. MaxFailures
      BY <1>0, <1>2, FailuresBounded DEF PutWithDump, WrittenOrLost
    <2>4. /\ tuples' \in Seq(Tuples) /\ buffer' \in Seq(Tuples)
          /\ acked' \in Seq(Tuples)
      BY <1>2, <2>1, EmptySeq, AcknowledgeTyped DEF PutWithDump
    <2>5. using_file' \in BOOLEAN /\ write_mode' \in BOOLEAN
      BY <1>2, Zenon DEF PutWithDump
    <2>6. UNCHANGED <<capacity, current_memory, buffer_start, read_pos, freed, got,
                      misplaced, strict>>
      BY <1>2 DEF PutWithDump
    <2>7. QED
      BY <2>1, <2>2, <2>3, <2>4, <2>5, <2>6 DEF Typed, TypeOK
  <1>3. CASE DumpRefused
    <2>1. /\ puts' \in 1 .. MaxPuts /\ scanning' \in BOOLEAN
          /\ failures' \in 0 .. MaxFailures
      BY <1>0, <1>3, NextPut, FailuresBounded DEF DumpRefused
    <2>2. UNCHANGED <<memory, disk, buf, read_pos, freed, acked, got, harm, strict>>
      BY <1>3 DEF DumpRefused
    <2>3. QED
      BY <2>1, <2>2 DEF Typed, TypeOK, memory, disk, buf, harm
  <1>4. CASE DumpLoses
    <2>1. /\ puts' \in 1 .. MaxPuts /\ scanning' \in BOOLEAN
          /\ failures' \in 0 .. MaxFailures
      BY <1>0, <1>4, NextPut, FailuresBounded DEF DumpLoses
    <2>2. file' \in Seq(Tuples)
      <3>1. PICK n \in 0 .. Len(tuples) - 1 : \E kept \in [1 .. n -> DOMAIN tuples] :
              file' = file \o [i \in 1 .. n |-> tuples[kept[i]]]
        BY <1>4 DEF DumpLoses
      <3>2. PICK kept \in [1 .. n -> DOMAIN tuples] :
              file' = file \o [i \in 1 .. n |-> tuples[kept[i]]]
        BY <3>1
      <3>3. \A i \in 1 .. n : tuples[kept[i]] \in Tuples
        BY <1>0
      <3>4. [i \in 1 .. n |-> tuples[kept[i]]] \in Seq(Tuples)
        <4>1. n \in Nat /\ [i \in 1 .. n |-> tuples[kept[i]]] \in [1 .. n -> Tuples]
          BY <3>3
        <4>2. QED
          BY <4>1, SeqDef
      <3>5. QED
        BY <1>0, <3>2, <3>4, ConcatProperties
    <2>3. file_count' \in Nat
      BY <1>0, <1>4, LenProperties DEF DumpLoses, CountAfter
    <2>4. tuples' \in Seq(Tuples)
      BY <1>4, EmptySeq DEF DumpLoses
    <2>5. using_file' \in BOOLEAN /\ damaged' \in BOOLEAN
      BY <1>4, Zenon DEF DumpLoses
    <2>6. UNCHANGED <<capacity, current_memory, buf, read_pos, freed, acked, got,
                      misplaced, strict>>
      BY <1>4 DEF DumpLoses
    <2>7. QED
      BY <2>1, <2>2, <2>3, <2>4, <2>5, <2>6 DEF Typed, TypeOK, buf
  <1>5. CASE PutInBuffer
    <2>1. /\ puts' \in 1 .. MaxPuts /\ puts' \in Tuples /\ scanning' \in BOOLEAN
      BY <1>5, NextPut DEF PutInBuffer
    <2>2. Append(Pending, puts') \in Seq(Tuples)
      BY <2>1, PendingTyped, AppendProperties
    <2>3. acked' \in Seq(Tuples)
      BY <1>5, <2>1, AcknowledgeTyped DEF PutInBuffer
    <2>4. file' \in Seq(Tuples) /\ file_count' \in Nat
      BY <1>0, <1>5, <2>2, FileGrows, CountGrows DEF PutInBuffer
    <2>5. failures' \in 0 .. MaxFailures
      BY <1>0, <1>5, FailuresBounded DEF PutInBuffer, WrittenOrLost, FlushFails
    <2>6. damaged' \in BOOLEAN
      BY <1>0, <1>5, DamageTyped DEF PutInBuffer
    <2>7. write_mode' \in BOOLEAN
      BY <1>5, Zenon DEF PutInBuffer
    <2>8. buffer' \in Seq(Tuples)
      BY <1>5, <2>2, EmptySeq DEF PutInBuffer
    <2>9. UNCHANGED <<memory, using_file, buffer_start, read_pos, freed, got,
                      misplaced, strict>>
      BY <1>5 DEF PutInBuffer
    <2>10. QED
      BY <2>1, <2>3, <2>4, <2>5, <2>6, <2>7, <2>8, <2>9 DEF Typed, TypeOK, memory
  <1>6. CASE PutInFullBuffer
    <2>1. /\ puts' \in 1 .. MaxPuts /\ puts' \in Tuples /\ scanning' \in BOOLEAN
      BY <1>6, NextPut DEF PutInFullBuffer
    <2>2. acked' \in Seq(Tuples)
      BY <1>0, <1>6, <2>1, AcknowledgeTyped DEF PutInFullBuffer
    <2>3. file' \in Seq(Tuples) /\ file_count' \in Nat
      BY <1>0, <1>6, PendingTyped, FileGrows, CountGrows DEF PutInFullBuffer
    <2>4. failures' \in 0 .. MaxFailures
      BY <1>0, <1>6, FailuresBounded DEF PutInFullBuffer, WrittenOrLost, FlushFails
    <2>5. damaged' \in BOOLEAN /\ write_mode' \in BOOLEAN
      <3>1. write_mode \in BOOLEAN
        BY DEF Typed, TypeOK
      <3>2. QED
        BY <1>6, <3>1, DamageTyped, Zenon DEF PutInFullBuffer
    <2>6. buffer' \in Seq(Tuples)
      <3>1. <<puts'>> \in Seq(Tuples)
        BY <2>1
      <3>2. buffer' = <<puts'>> \/ buffer' = buffer
        BY <1>6 DEF PutInFullBuffer
      <3>3. QED
        BY <1>0, <3>1, <3>2
    <2>7. UNCHANGED <<memory, using_file, buffer_start, read_pos, freed, got,
                      misplaced, strict>>
      BY <1>6 DEF PutInFullBuffer
    <2>8. QED
      BY <2>1, <2>2, <2>3, <2>4, <2>5, <2>6, <2>7 DEF Typed, TypeOK, memory
  <1>7. CASE GetFromMemory
    <2>1. got' \in Tuples \cup {NoTuple} /\ read_pos' \in Nat
      <3>1. CASE read_pos < Len(tuples)
        <4>1. tuples[read_pos + 1] \in Tuples
          BY <1>0, <3>1
        <4>2. QED
          BY <1>0, <1>7, <3>1, <4>1 DEF GetFromMemory, Return
      <3>2. CASE ~(read_pos < Len(tuples))
        BY <1>0, <1>7, <3>2 DEF GetFromMemory, ReturnNull
      <3>3. QED
        BY <3>1, <3>2
    <2>2. UNCHANGED <<memory, disk, buf, freed, puts, failures, acked, scanning,
                      harm, strict>>
      BY <1>7 DEF GetFromMemory
    <2>3. QED
      BY <2>1, <2>2 DEF Typed, TypeOK, memory, disk, buf, harm
  <1>8. CASE GetAtEnd
    <2>1. got' \in Tuples \cup {NoTuple} /\ read_pos' = read_pos
      BY <1>8 DEF GetAtEnd, ReturnNull
    <2>2. UNCHANGED <<memory, disk, buf, freed, puts, failures, acked, scanning,
                      harm, strict>>
      BY <1>8 DEF GetAtEnd
    <2>3. QED
      BY <2>1, <2>2 DEF Typed, TypeOK, memory, disk, buf, harm
  <1>9. CASE GetFromBuffer
    <2>1. got' \in Tuples \cup {NoTuple} /\ read_pos' \in Nat
      <3>1. read_pos - buffer_start + 1 \in 1 .. Len(buffer)
        BY <1>0, <1>9, LenProperties DEF GetFromBuffer, InBuffer
      <3>2. buffer[read_pos - buffer_start + 1] \in Tuples
        BY <1>0, <3>1
      <3>3. QED
        BY <1>0, <1>9, <3>2 DEF GetFromBuffer, Return
    <2>2. UNCHANGED <<memory, disk, buf, freed, puts, failures, acked, scanning,
                      harm, strict>>
      BY <1>9 DEF GetFromBuffer
    <2>3. QED
      BY <2>1, <2>2 DEF Typed, TypeOK, memory, disk, buf, harm
  <1>10. CASE GetAndFill
    <2>1. /\ file' \in Seq(Tuples) /\ file_count' \in Nat
      BY <1>0, <1>10, PendingTyped, FileGrows, CountGrows DEF GetAndFill
    <2>2. failures' \in 0 .. MaxFailures
      BY <1>0, <1>10, FailuresBounded DEF GetAndFill, WrittenOrLost
    <2>3. damaged' \in BOOLEAN /\ misplaced' \in BOOLEAN /\ write_mode' \in BOOLEAN
      BY <1>0, <1>10, DamageTyped, Zenon DEF GetAndFill, StartFill
    <2>4. LastRead \in Int
      BY <2>1, StoreAssumption DEF LastRead, Lesser, Typed, TypeOK
    <2>5. PICK last \in Int : /\ last <= LastRead
                              /\ buffer' = SubSeq(file', read_pos + 1, last)
      <3>1. \/ buffer' = SubSeq(file', read_pos + 1, LastRead)
            \/ \E last \in read_pos .. LastRead - 1 :
                 buffer' = SubSeq(file', read_pos + 1, last)
        BY <1>10 DEF GetAndFill
      <3>2. LastRead <= LastRead /\ read_pos .. LastRead - 1 \subseteq Int
        BY <1>0, <2>4
      <3>3. \A last \in read_pos .. LastRead - 1 : last <= LastRead
        BY <1>0, <2>4
      <3>4. QED
        BY <2>4, <3>1, <3>2, <3>3, Zenon
    <2>6. buffer' \in Seq(Tuples)
      BY <2>1, <2>5, FillTyped
    <2>7. got' \in Tuples \cup {NoTuple} /\ read_pos' \in Nat
      <3>1. CASE buffer' # <<>>
        BY <1>0, <1>10, <2>6, <3>1, HeadTailProperties DEF GetAndFill, Return
      <3>2. CASE buffer' = <<>>
        BY <1>0, <1>10, <3>2 DEF GetAndFill, ReturnNull
      <3>3. QED
        BY <3>1, <3>2
    <2>8. buffer_start' \in Nat
      BY <1>0, <1>10 DEF GetAndFill, StartFill
    <2>9. UNCHANGED <<memory, using_file, freed, puts, acked, scanning, strict>>
      BY <1>10 DEF GetAndFill
    <2>10. QED
      BY <2>1, <2>2, <2>3, <2>6, <2>7, <2>8, <2>9 DEF Typed, TypeOK, memory
  <1>11. CASE FillFails
    <2>1. file' \in Seq(Tuples) /\ file_count' \in Nat
      BY <1>0, <1>11, FileGrows, CountGrows DEF FillFails
    <2>2. failures' \in 0 .. MaxFailures
      BY <1>0, <1>11, FailuresBounded DEF FillFails, FlushFails
    <2>3. damaged' \in BOOLEAN /\ misplaced' \in BOOLEAN /\ write_mode' \in BOOLEAN
      <3>1. misplaced \in BOOLEAN /\ write_mode \in BOOLEAN
        BY DEF Typed, TypeOK
      <3>2. CASE UNCHANGED <<buf, misplaced>> /\ Damage(<<>>)
        <4>1. misplaced' = misplaced /\ write_mode' = write_mode
          BY <3>2 DEF buf
        <4>2. QED
          BY <3>1, <3>2, <4>1, DamageTyped
      <3>3. CASE StartFill /\ misplaced' = (buffer # <<>>) /\ damaged' = damaged
        BY <1>0, <3>3, Zenon DEF StartFill
      <3>4. QED
        BY <1>11, <3>2, <3>3 DEF FillFails
    <2>4. got' \in Tuples \cup {NoTuple} /\ read_pos' = read_pos
      BY <1>11 DEF FillFails, ReturnNull
    <2>5. buffer' \in Seq(Tuples) /\ buffer_start' \in Nat
      BY <1>0, <1>11 DEF FillFails, StartFill, buf
    <2>6. UNCHANGED <<memory, using_file, freed, puts, acked, scanning, strict>>
      BY <1>11 DEF FillFails
    <2>7. QED
      BY <2>1, <2>2, <2>3, <2>4, <2>5, <2>6 DEF Typed, TypeOK, memory
  <1>12. CASE Rescan
    <2>1. file' \in Seq(Tuples) /\ file_count' \in Nat
      BY <1>0, <1>12, PendingTyped, FileGrows, CountGrows DEF Rescan
    <2>2. failures' \in 0 .. MaxFailures
      BY <1>0, <1>12, FailuresBounded DEF Rescan, WrittenOrLost, FlushFails
    <2>3. damaged' \in BOOLEAN /\ write_mode' \in BOOLEAN /\ scanning' \in BOOLEAN
      <3>1. write_mode \in BOOLEAN /\ scanning \in BOOLEAN
        BY DEF Typed, TypeOK
      <3>2. damaged' \in BOOLEAN
        BY <1>0, <1>12, DamageTyped DEF Rescan
      <3>3. scanning' \in BOOLEAN
        BY <1>12, <3>1, Zenon DEF Rescan
      <3>4. write_mode' \in BOOLEAN
        BY <1>12, <3>1, Zenon DEF Rescan, EmptyAfterFlush
      <3>5. QED
        BY <3>2, <3>3, <3>4
    <2>4. read_pos' \in Nat /\ buffer' \in Seq(Tuples)
      <3>1. read_pos' = 0 \/ read_pos' = read_pos
        BY <1>12 DEF Rescan
      <3>2. buffer' = <<>> \/ buffer' = buffer
        BY <1>12 DEF Rescan, EmptyAfterFlush
      <3>3. read_pos' \in Nat
        BY <1>0, <3>1
      <3>4. buffer' \in Seq(Tuples)
        <4>1. <<>> \in Seq(Tuples)
          BY EmptySeq
        <4>2. QED
          BY <1>0, <3>2, <4>1, Zenon
      <3>5. QED
        BY <3>3, <3>4
    <2>5. UNCHANGED <<memory, using_file, buffer_start, freed, puts, acked, got,
                      misplaced, strict>>
      BY <1>12 DEF Rescan
    <2>6. QED
      BY <2>1, <2>2, <2>3, <2>4, <2>5 DEF Typed, TypeOK, memory
  <1>13. CASE Free
    <2>1. freed' \in BOOLEAN
      BY <1>13, Zenon DEF Free
    <2>2. UNCHANGED <<memory, disk, buf, read_pos, puts, failures, acked, got,
                      scanning, harm, strict>>
      BY <1>13 DEF Free
    <2>3. QED
      BY <2>1, <2>2 DEF Typed, TypeOK, memory, disk, buf, harm
  <1>14. QED
    BY <1>1, <1>2, <1>3, <1>4, <1>5, <1>6, <1>7, <1>8, <1>9, <1>10, <1>11, <1>12,
       <1>13 DEF Next

-----------------------------------------------------------------------------
(* The inductive invariant.                                                 *)

\* Tuples are in memory or on file, and write mode comes with something to write.
OnePlace ==
  /\ ~using_file => file = <<>> /\ file_count = 0 /\ buffer = <<>> /\ ~write_mode
  /\ using_file => tuples = <<>>
  /\ write_mode => buffer # <<>>

HeldInOrder ==
  ~damaged => acked = tuples \o file \o Pending /\ file_count = Len(file)

\* What the strict client is spared.
Steady ==
  strict => /\ ~damaged /\ ~misplaced
            /\ write_mode => Len(buffer) < FlushAt
            /\ scanning => ~write_mode
            /\ read_pos <= Len(acked)

IInv == Typed /\ OnePlace /\ HeldInOrder /\ BufferMirrorsFile /\ Steady

LEMMA InitIInv == Init => IInv
  <1> SUFFICES ASSUME Init PROVE IInv
    OBVIOUS
  <1>1. Typed
    BY InitTyped
  <1>2. OnePlace
    BY DEF Init, OnePlace
  <1>3. HeldInOrder
    <2>1. Pending = <<>> /\ acked = <<>> /\ tuples = <<>> /\ file = <<>> /\ file_count = 0
      BY DEF Init, Pending
    <2>2. <<>> \o <<>> \o <<>> = <<>>
      BY EmptySeq, ConcatEmptySeq
    <2>3. QED
      BY <2>1, <2>2, EmptySeq DEF HeldInOrder
  <1>4. BufferMirrorsFile
    BY DEF Init, BufferMirrorsFile
  <1>5. Steady
    BY EmptySeq DEF Init, Steady
  <1>6. QED
    BY <1>1, <1>2, <1>3, <1>4, <1>5 DEF IInv

\* Only a store in memory has something to dump.
LEMMA DumpFromMemory ==
  ASSUME OnePlace, MustDump
  PROVE  ~using_file /\ file = <<>> /\ file_count = 0 /\ buffer = <<>> /\ ~write_mode
  BY DEF OnePlace, MustDump

LEMMA WritesWhatIsPending ==
  ASSUME OnePlace
  PROVE  ToFlush = Pending
  BY DEF OnePlace, ToFlush, Pending, Unflushed

LEMMA OnePlaceStep ==
  ASSUME Typed, OnePlace, Next
  PROVE  OnePlace'
  <1>1. CASE PutInMemory
    BY <1>1 DEF PutInMemory, OnePlace, disk, buf
  <1>2. CASE PutWithDump
    <2>1. tuples' = <<>> /\ using_file' /\ buffer' # <<>>
      BY <1>2 DEF PutWithDump
    <2>2. QED
      BY <2>1 DEF OnePlace
  <1>3. CASE DumpRefused
    BY <1>3 DEF DumpRefused, OnePlace, memory, disk, buf
  <1>4. CASE DumpLoses
    <2>1. tuples' = <<>> /\ using_file' /\ ~write_mode'
      BY <1>4, DumpFromMemory DEF DumpLoses, buf
    <2>2. QED
      BY <2>1 DEF OnePlace
  <1>5. CASE PutInBuffer
    <2>1. Append(Pending, puts') # <<>>
      BY <1>5, NextPut, PendingTyped, AppendProperties DEF PutInBuffer
    <2>2. write_mode' => buffer' # <<>>
      BY <1>5, <2>1 DEF PutInBuffer
    <2>3. using_file' /\ tuples' = <<>>
      BY <1>5 DEF PutInBuffer, OnePlace, memory
    <2>4. QED
      BY <2>2, <2>3 DEF OnePlace
  <1>6. CASE PutInFullBuffer
    <2>1. write_mode' => buffer' # <<>>
      BY <1>6 DEF PutInFullBuffer, OnePlace
    <2>2. using_file' /\ tuples' = <<>>
      BY <1>6 DEF PutInFullBuffer, OnePlace, memory
    <2>3. QED
      BY <2>1, <2>2 DEF OnePlace
  <1>7. CASE GetFromMemory
    BY <1>7 DEF GetFromMemory, OnePlace, memory, disk, buf
  <1>8. CASE GetAtEnd
    BY <1>8 DEF GetAtEnd, OnePlace, memory, disk, buf
  <1>9. CASE GetFromBuffer
    BY <1>9 DEF GetFromBuffer, OnePlace, memory, disk, buf
  <1>10. CASE GetAndFill
    <2>1. using_file' /\ tuples' = <<>> /\ ~write_mode'
      BY <1>10 DEF GetAndFill, StartFill, OnePlace, memory
    <2>2. QED
      BY <2>1 DEF OnePlace
  <1>11. CASE FillFails
    <2>1. using_file' /\ tuples' = <<>>
      BY <1>11 DEF FillFails, OnePlace, memory
    <2>2. write_mode' => buffer' # <<>>
      BY <1>11 DEF FillFails, StartFill, OnePlace, buf
    <2>3. QED
      BY <2>1, <2>2 DEF OnePlace
  <1>12. CASE Rescan
    <2>1. using_file' = using_file /\ tuples' = tuples
      BY <1>12 DEF Rescan, memory
    <2>2. write_mode' => buffer' # <<>>
      BY <1>12 DEF Rescan, EmptyAfterFlush, OnePlace
    <2>3. CASE using_file
      BY <2>1, <2>2, <2>3 DEF OnePlace
    <2>4. CASE ~using_file
      <3>1. file = <<>> /\ file_count = 0 /\ buffer = <<>> /\ ~write_mode /\ ~Unflushed
        BY <2>4 DEF OnePlace, Unflushed
      <3>2. ToFlush = <<>>
        BY <3>1 DEF ToFlush
      <3>3. WrittenOrLost(<<>>) /\ EmptyAfterFlush
        BY <1>12, <2>4, <3>1, <3>2 DEF Rescan
      <3>4. file' = <<>> /\ file_count' = 0
        <4>1. file' = file \o <<>>
          BY <3>3, EmptySeq DEF WrittenOrLost
        <4>2. QED
          BY <3>1, <3>3, <4>1, EmptySeq, ConcatEmptySeq DEF WrittenOrLost, CountAfter
      <3>5. buffer' = <<>> /\ ~write_mode'
        BY <3>1, <3>3 DEF EmptyAfterFlush
      <3>6. QED
        BY <2>1, <2>4, <3>4, <3>5 DEF OnePlace
    <2>5. QED
      BY <2>3, <2>4
  <1>13. CASE Free
    BY <1>13 DEF Free, OnePlace, memory, disk, buf
  <1>14. QED
    BY <1>1, <1>2, <1>3, <1>4, <1>5, <1>6, <1>7, <1>8, <1>9, <1>10, <1>11, <1>12,
       <1>13 DEF Next

-----------------------------------------------------------------------------
(* The contents.                                                            *)

\* Three sequences join in either order, and an element appended to them is
\* appended to the last.
Associates(s, t, u) == (s \o t) \o u = s \o (t \o u)
AppendsLast(s, t, u, x) == Append(s \o t \o u, x) = s \o t \o Append(u, x)

LEMMA Associated ==
  ASSUME NEW s \in Seq(Tuples), NEW t \in Seq(Tuples), NEW u \in Seq(Tuples)
  PROVE  Associates(s, t, u)
  BY ConcatAssociative, SMTT(30) DEF Associates

LEMMA MovedToFile ==
  ASSUME NEW s \in Seq(Tuples), NEW t \in Seq(Tuples), NEW u \in Seq(Tuples)
  PROVE  s \o t \o u = s \o (t \o u) \o <<>>
  <1>1. t \o u \in Seq(Tuples)
    BY ConcatProperties
  <1>2. s \o (t \o u) \in Seq(Tuples)
    BY <1>1, ConcatProperties
  <1>3. s \o (t \o u) \o <<>> = s \o (t \o u)
    BY <1>2, ConcatEmptySeq
  <1>4. QED
    <2>1. Associates(s, t, u)
      BY Associated
    <2>2. QED
      BY <1>3, <2>1, Zenon DEF Associates

LEMMA AppendedLast ==
  ASSUME NEW s \in Seq(Tuples), NEW t \in Seq(Tuples), NEW u \in Seq(Tuples),
         NEW x \in Tuples
  PROVE  AppendsLast(s, t, u, x)
  <1>1. s \o t \in Seq(Tuples)
    BY ConcatProperties
  <1>2. s \o t \o u \in Seq(Tuples)
    BY <1>1, ConcatProperties
  <1>3. Append(s \o t \o u, x) = (s \o t \o u) \o <<x>>
    BY <1>2, AppendIsConcat
  <1>4. <<x>> \in Seq(Tuples)
    OBVIOUS
  <1>5. (s \o t \o u) \o <<x>> = (s \o t) \o (u \o <<x>>)
    <2>1. Associates(s \o t, u, <<x>>)
      BY <1>1, <1>4, Associated
    <2>2. QED
      BY <2>1, Zenon DEF Associates
  <1>6. Append(u, x) = u \o <<x>>
    BY AppendIsConcat
  <1>7. QED
    BY <1>3, <1>5, <1>6, Zenon DEF AppendsLast

\* A flush that works moves what is pending to the file.
LEMMA FlushedInOrder ==
  ASSUME Typed, HeldInOrder,
         UNCHANGED <<tuples, acked>>, Pending' = <<>>,
         Written(Pending) \/ WrittenOrLost(Pending),
         Damage(Pending) \/ (Written(Pending) /\ UNCHANGED damaged)
  PROVE  HeldInOrder'
  <1> SUFFICES ASSUME ~damaged'
               PROVE  acked' = tuples' \o file' \o Pending' /\ file_count' = Len(file')
    BY DEF HeldInOrder
  <1>1. /\ Pending \in Seq(Tuples) /\ file \in Seq(Tuples) /\ tuples \in Seq(Tuples)
        /\ damaged \in BOOLEAN
    BY PendingTyped DEF Typed, TypeOK
  <1>2. ~damaged => file_count = Len(file)
    BY DEF HeldInOrder
  <1>3. ~damaged /\ file' = file \o Pending /\ file_count' = Len(file')
    BY <1>1, <1>2, UndamagedFile
  <1>4. acked = tuples \o file \o Pending
    BY <1>3 DEF HeldInOrder
  <1>5. QED
    BY <1>1, <1>3, <1>4, MovedToFile

\* A flush that fails leaves everything where it is.
LEMMA KeptInOrder ==
  ASSUME Typed, HeldInOrder, UNCHANGED <<tuples, acked>>, Pending' = Pending,
         NEW text, FlushFails(text), Damage(<<>>)
  PROVE  HeldInOrder'
  <1> SUFFICES ASSUME ~damaged'
               PROVE  acked' = tuples' \o file' \o Pending' /\ file_count' = Len(file')
    BY DEF HeldInOrder
  <1>1. file \in Seq(Tuples) /\ damaged \in BOOLEAN
    BY DEF Typed, TypeOK
  <1>2. ~damaged /\ file' = file /\ file_count' = file_count
    BY <1>1, UndamagedByFailure
  <1>3. QED
    BY <1>2 DEF HeldInOrder

LEMMA HeldInMemory ==
  ASSUME Typed, OnePlace, HeldInOrder, ~using_file, ~damaged
  PROVE  acked = tuples
  <1>1. file = <<>> /\ Pending = <<>> /\ tuples \in Seq(Tuples)
    BY DEF OnePlace, Pending, Typed, TypeOK
  <1>2. acked = tuples \o <<>> \o <<>>
    BY <1>1 DEF HeldInOrder
  <1>3. QED
    BY <1>1, <1>2, ConcatEmptySeq

\* Actions that touch neither the tuples nor the modes of the buffer.
LEMMA HeldUntouched ==
  ASSUME HeldInOrder, UNCHANGED <<tuples, disk, buf, acked, damaged>>
  PROVE  HeldInOrder'
  <1>1. /\ tuples' = tuples /\ file' = file /\ file_count' = file_count
        /\ acked' = acked /\ damaged' = damaged /\ Pending' = Pending
    BY DEF disk, buf, Pending
  <1>2. QED
    BY <1>1 DEF HeldInOrder

LEMMA HeldStep ==
  ASSUME Typed, OnePlace, HeldInOrder, Next
  PROVE  HeldInOrder'
  <1>0. /\ tuples \in Seq(Tuples) /\ file \in Seq(Tuples) /\ Pending \in Seq(Tuples)
        /\ damaged \in BOOLEAN /\ ToFlush = Pending
    BY PendingTyped, WritesWhatIsPending DEF Typed, TypeOK
  <1>1. CASE PutInMemory
    <2> SUFFICES ASSUME ~damaged'
                 PROVE  acked' = tuples' \o file' \o Pending' /\ file_count' = Len(file')
      BY DEF HeldInOrder
    <2>1. /\ ~using_file /\ tuples' = Append(tuples, puts') /\ puts' \in Tuples
          /\ acked' = Append(acked, puts') /\ ~damaged
          /\ file' = file /\ file_count' = file_count /\ Pending' = Pending
      BY <1>1, NextPut DEF PutInMemory, Acknowledge, disk, buf, harm, Pending
    <2>2. file = <<>> /\ file_count = 0 /\ Pending = <<>>
      BY <2>1 DEF OnePlace, Pending
    <2>3. acked' = Append(tuples, puts')
      BY <2>1, HeldInMemory
    <2>4. Append(tuples, puts') \in Seq(Tuples)
      BY <1>0, <2>1, AppendProperties
    <2>5. Append(tuples, puts') \o <<>> \o <<>> = Append(tuples, puts')
      BY <2>4, ConcatEmptySeq
    <2>6. QED
      BY <2>1, <2>2, <2>3, <2>5, EmptySeq
  <1>2. CASE PutWithDump
    <2> SUFFICES ASSUME ~damaged'
                 PROVE  acked' = tuples' \o file' \o Pending' /\ file_count' = Len(file')
      BY DEF HeldInOrder
    <2>1. /\ ~using_file /\ file = <<>> /\ file_count = 0 /\ puts' \in Tuples
          /\ acked' = Append(acked, puts')
          /\ tuples' = <<>> /\ Pending' = <<puts'>>
      BY <1>2, NextPut, DumpFromMemory DEF PutWithDump, Acknowledge, Pending
    <2>2. ~damaged => file_count = Len(file)
      BY DEF HeldInOrder
    <2>3. ~damaged /\ file' = file \o tuples /\ file_count' = Len(file')
      BY <1>0, <1>2, <2>2, UndamagedFile DEF PutWithDump
    <2>4. file' = tuples /\ acked' = Append(tuples, puts')
      BY <1>0, <2>1, <2>3, HeldInMemory, ConcatEmptySeq
    <2>5. Append(tuples, puts') = <<>> \o tuples \o <<puts'>>
      BY <1>0, <2>1, AppendIsConcat, ConcatEmptySeq
    <2>6. QED
      BY <2>1, <2>3, <2>4, <2>5
  <1>3. CASE DumpRefused
    BY <1>3, HeldUntouched DEF DumpRefused, memory, harm
  <1>4. CASE DumpLoses
    <2>1. damaged' = TRUE
      BY <1>4 DEF DumpLoses
    <2>2. QED
      BY <2>1 DEF HeldInOrder
  <1>5. CASE PutInBuffer
    <2> SUFFICES ASSUME ~damaged'
                 PROVE  acked' = tuples' \o file' \o Pending' /\ file_count' = Len(file')
      BY DEF HeldInOrder
    <2> DEFINE new == Append(Pending, puts')
    <2>1. /\ puts' \in Tuples /\ acked' = Append(acked, puts') /\ tuples' = tuples
      BY <1>5, NextPut DEF PutInBuffer, Acknowledge, memory
    <2>2. new \in Seq(Tuples)
      BY <1>0, <2>1, AppendProperties
    <2>3. ~damaged => acked' = tuples \o file \o new
      <3> SUFFICES ASSUME ~damaged PROVE acked' = tuples \o file \o new
        OBVIOUS
      <3>1. acked = tuples \o file \o Pending
        BY DEF HeldInOrder
      <3>2. Append(tuples \o file \o Pending, puts') = tuples \o file \o new
        <4>1. AppendsLast(tuples, file, Pending, puts')
          BY <1>0, <2>1, AppendedLast
        <4>2. QED
          BY <4>1, Zenon DEF AppendsLast
      <3>3. QED
        BY <2>1, <3>1, <3>2
    <2>4. ~damaged => file_count = Len(file)
      BY DEF HeldInOrder
    <2>5. CASE /\ buffer' = new /\ write_mode' = TRUE
               /\ UNCHANGED <<file, file_count, damaged>>
      <3>1. Pending' = new /\ ~damaged
        BY <2>5 DEF Pending
      <3>2. QED
        BY <2>1, <2>3, <2>4, <2>5, <3>1
    <2>6. CASE /\ WrittenOrLost(new) /\ Damage(new)
               /\ buffer' = <<>> /\ write_mode' = FALSE
      <3>1. Pending' = <<>>
        BY <2>6 DEF Pending
      <3>2. ~damaged /\ file' = file \o new /\ file_count' = Len(file')
        BY <1>0, <2>2, <2>4, <2>6, UndamagedFile
      <3>3. tuples \o file \o new = tuples \o (file \o new) \o <<>>
        BY <1>0, <2>2, MovedToFile
      <3>4. QED
        BY <2>1, <2>3, <3>1, <3>2, <3>3
    <2>7. CASE /\ FlushFails(new) /\ Damage(<<>>)
               /\ buffer' = new /\ write_mode' = TRUE
      <3>1. Pending' = new
        BY <2>7 DEF Pending
      <3>2. ~damaged /\ file' = file /\ file_count' = file_count
        BY <1>0, <2>7, UndamagedByFailure
      <3>3. QED
        BY <2>1, <2>3, <2>4, <3>1, <3>2
    <2>8. QED
      BY <1>5, <2>5, <2>6, <2>7 DEF PutInBuffer
  <1>6. CASE PutInFullBuffer
    <2>1. CASE damaged' = TRUE
      BY <2>1 DEF HeldInOrder
    <2>2. CASE /\ FlushFails(Pending) /\ Damage(<<>>)
               /\ UNCHANGED <<buffer, write_mode, acked>>
      <3>1. tuples' = tuples /\ Pending' = Pending
        BY <1>6, <2>2 DEF PutInFullBuffer, memory, Pending
      <3>2. QED
        BY <2>2, <3>1, KeptInOrder
    <2>3. QED
      BY <1>6, <2>1, <2>2 DEF PutInFullBuffer
  <1>7. CASE GetFromMemory
    BY <1>7, HeldUntouched DEF GetFromMemory, memory, harm
  <1>8. CASE GetAtEnd
    BY <1>8, HeldUntouched DEF GetAtEnd, memory, harm
  <1>9. CASE GetFromBuffer
    BY <1>9, HeldUntouched DEF GetFromBuffer, memory, harm
  <1>10. CASE GetAndFill
    <2>1. UNCHANGED <<tuples, acked>> /\ Pending' = <<>>
      BY <1>10 DEF GetAndFill, StartFill, memory, Pending
    <2>2. /\ Written(Pending) \/ WrittenOrLost(Pending)
          /\ Damage(Pending) \/ (Written(Pending) /\ UNCHANGED damaged)
      BY <1>0, <1>10 DEF GetAndFill
    <2>3. QED
      BY <2>1, <2>2, FlushedInOrder
  <1>11. CASE FillFails
    <2>1. UNCHANGED <<tuples, acked>>
      BY <1>11 DEF FillFails, memory
    <2>2. CASE /\ FlushFails(buffer) /\ Damage(<<>>) /\ UNCHANGED <<buf, misplaced>>
      <3>1. Pending' = Pending
        BY <2>2 DEF buf, Pending
      <3>2. QED
        BY <2>1, <2>2, <3>1, KeptInOrder
    <2>3. CASE /\ ~Unflushed /\ StartFill
               /\ UNCHANGED <<buffer, file, file_count, damaged>>
      <3>1. Pending = <<>>
        BY <1>0, <2>3 DEF ToFlush
      <3>2. Pending' = <<>>
        BY <2>3 DEF StartFill, Pending
      <3>3. QED
        BY <2>1, <2>3, <3>1, <3>2 DEF HeldInOrder
    <2>4. QED
      BY <1>11, <2>2, <2>3 DEF FillFails
  <1>12. CASE Rescan
    <2>1. UNCHANGED <<tuples, acked>>
      BY <1>12 DEF Rescan, memory
    <2>2. EmptyAfterFlush => Pending' = <<>>
      <3>1. CASE Unflushed
        BY <3>1 DEF EmptyAfterFlush, Pending
      <3>2. CASE ~Unflushed
        <4>1. Pending = <<>>
          BY <1>0, <3>2 DEF ToFlush
        <4>2. QED
          BY <3>2, <4>1 DEF EmptyAfterFlush, Pending
      <3>3. QED
        BY <3>1, <3>2
    <2>3. CASE /\ WrittenOrLost(ToFlush) /\ Damage(ToFlush) /\ EmptyAfterFlush
      BY <1>0, <2>1, <2>2, <2>3, FlushedInOrder
    <2>4. CASE /\ Written(ToFlush) /\ UNCHANGED damaged /\ EmptyAfterFlush
      BY <1>0, <2>1, <2>2, <2>4, FlushedInOrder
    <2>5. CASE /\ FlushFails(buffer) /\ Damage(<<>>) /\ UNCHANGED <<buffer, write_mode>>
      <3>1. Pending' = Pending
        BY <2>5 DEF Pending
      <3>2. QED
        BY <2>1, <2>5, <3>1, KeptInOrder
    <2>6. QED
      BY <1>12, <2>3, <2>4, <2>5 DEF Rescan
  <1>13. CASE Free
    BY <1>13, HeldUntouched DEF Free, memory, harm
  <1>14. QED
    BY <1>1, <1>2, <1>3, <1>4, <1>5, <1>6, <1>7, <1>8, <1>9, <1>10, <1>11, <1>12,
       <1>13 DEF Next

-----------------------------------------------------------------------------
(* The buffer and the file.                                                 *)

LEMMA MirrorUntouched ==
  ASSUME BufferMirrorsFile,
         UNCHANGED <<using_file, file, buf, damaged, misplaced>>
  PROVE  BufferMirrorsFile'
  <1>1. /\ using_file' = using_file /\ file' = file /\ buffer' = buffer
        /\ buffer_start' = buffer_start /\ write_mode' = write_mode
        /\ damaged' = damaged /\ misplaced' = misplaced
    BY DEF buf
  <1>2. QED
    BY <1>1 DEF BufferMirrorsFile

\* An empty buffer mirrors everything.
LEMMA MirrorEmpty ==
  ASSUME buffer' = <<>>
  PROVE  BufferMirrorsFile'
  <1>1. 1 .. Len(buffer') = {}
    BY EmptySeq
  <1>2. QED
    BY <1>1 DEF BufferMirrorsFile

LEMMA MirrorFailure ==
  ASSUME Typed, BufferMirrorsFile, UNCHANGED <<using_file, buf, misplaced>>,
         NEW text, FlushFails(text), Damage(<<>>)
  PROVE  BufferMirrorsFile'
  <1>1. /\ using_file' = using_file /\ buffer' = buffer
        /\ buffer_start' = buffer_start /\ write_mode' = write_mode
        /\ misplaced' = misplaced
    BY DEF buf
  <1>2. file \in Seq(Tuples) /\ damaged \in BOOLEAN
    BY DEF Typed, TypeOK
  <1>3. ~damaged' => ~damaged /\ file' = file
    BY <1>2, UndamagedByFailure
  <1>4. QED
    BY <1>1, <1>3 DEF BufferMirrorsFile

LEMMA MirrorStep ==
  ASSUME Typed, OnePlace, HeldInOrder, BufferMirrorsFile, Next
  PROVE  BufferMirrorsFile'
  <1>1. CASE PutInMemory
    BY <1>1, MirrorUntouched DEF PutInMemory, disk, harm
  <1>2. CASE PutWithDump
    <2>1. write_mode' = TRUE
      BY <1>2 DEF PutWithDump
    <2>2. QED
      BY <2>1 DEF BufferMirrorsFile
  <1>3. CASE DumpRefused
    BY <1>3, MirrorUntouched DEF DumpRefused, disk, harm
  <1>4. CASE DumpLoses
    <2>1. damaged' = TRUE
      BY <1>4 DEF DumpLoses
    <2>2. QED
      BY <2>1 DEF BufferMirrorsFile
  <1>5. CASE PutInBuffer
    <2>1. CASE write_mode' = TRUE
      BY <2>1 DEF BufferMirrorsFile
    <2>2. CASE buffer' = <<>>
      BY <2>2, MirrorEmpty
    <2>3. QED
      BY <1>5, <2>1, <2>2 DEF PutInBuffer
  <1>6. CASE PutInFullBuffer
    <2>1. CASE damaged' = TRUE
      BY <2>1 DEF BufferMirrorsFile
    <2>2. CASE /\ FlushFails(Pending) /\ Damage(<<>>)
               /\ UNCHANGED <<buffer, write_mode, acked>>
      BY <1>6, <2>2, MirrorFailure DEF PutInFullBuffer, buf
    <2>3. QED
      BY <1>6, <2>1, <2>2 DEF PutInFullBuffer
  <1>7. CASE GetFromMemory
    BY <1>7, MirrorUntouched DEF GetFromMemory, disk, harm
  <1>8. CASE GetAtEnd
    BY <1>8, MirrorUntouched DEF GetAtEnd, disk, harm
  <1>9. CASE GetFromBuffer
    BY <1>9, MirrorUntouched DEF GetFromBuffer, disk, harm
  <1>10. CASE GetAndFill
    <2>1. /\ file' \in Seq(Tuples) /\ file_count' \in Nat
      BY <1>10, PendingTyped, FileGrows, CountGrows DEF GetAndFill, Typed, TypeOK
    <2>2. read_pos \in Nat /\ LastRead \in Int
      BY <2>1, StoreAssumption DEF LastRead, Lesser, Typed, TypeOK
    <2>3. PICK last \in Int : /\ last <= LastRead
                              /\ buffer' = SubSeq(file', read_pos + 1, last)
      <3>1. \/ buffer' = SubSeq(file', read_pos + 1, LastRead)
            \/ \E last \in read_pos .. LastRead - 1 :
                 buffer' = SubSeq(file', read_pos + 1, last)
        BY <1>10 DEF GetAndFill
      <3>2. LastRead <= LastRead /\ read_pos .. LastRead - 1 \subseteq Int
        BY <2>2
      <3>3. \A last \in read_pos .. LastRead - 1 : last <= LastRead
        BY <2>2
      <3>4. QED
        BY <2>2, <3>1, <3>2, <3>3, Zenon
    <2>4. /\ Len(buffer') = IF read_pos + 1 <= last THEN last - read_pos ELSE 0
          /\ \A i \in 1 .. last - read_pos :
               /\ read_pos + i <= Len(file')
               /\ buffer'[i] = file'[read_pos + i]
      BY <2>1, <2>3, FillTyped
    <2>5. 1 .. Len(buffer') \subseteq 1 .. last - read_pos
      BY <2>2, <2>3, <2>4
    <2>6. buffer_start' = read_pos
      BY <1>10 DEF GetAndFill, StartFill
    <2>7. QED
      BY <2>4, <2>5, <2>6 DEF BufferMirrorsFile
  <1>11. CASE FillFails
    <2>1. CASE /\ FlushFails(buffer) /\ Damage(<<>>) /\ UNCHANGED <<buf, misplaced>>
      BY <1>11, <2>1, MirrorFailure DEF FillFails
    <2>2. CASE misplaced' = (buffer # <<>>) /\ buffer' = buffer
      <3>1. CASE buffer = <<>>
        BY <2>2, <3>1, MirrorEmpty
      <3>2. CASE buffer # <<>>
        BY <2>2, <3>2 DEF BufferMirrorsFile
      <3>3. QED
        BY <3>1, <3>2
    <2>3. QED
      BY <1>11, <2>1, <2>2 DEF FillFails
  <1>12. CASE Rescan
    <2>1. CASE /\ Written(ToFlush) \/ WrittenOrLost(ToFlush)
               /\ Damage(ToFlush) \/ (Written(ToFlush) /\ UNCHANGED damaged)
               /\ EmptyAfterFlush
      <3>1. CASE Unflushed
        BY <2>1, <3>1, MirrorEmpty DEF EmptyAfterFlush
      <3>2. CASE ~Unflushed
        <4>1. /\ ToFlush = <<>> /\ buffer' = buffer /\ write_mode' = write_mode
              /\ using_file' = using_file /\ buffer_start' = buffer_start
              /\ misplaced' = misplaced
          BY <1>12, <2>1, <3>2 DEF ToFlush, EmptyAfterFlush, Rescan
        <4>2. /\ <<>> \in Seq(Tuples) /\ file \in Seq(Tuples) /\ damaged \in BOOLEAN
              /\ file \o <<>> = file
          BY EmptySeq, ConcatEmptySeq DEF Typed, TypeOK
        <4>3. ~damaged => file_count = Len(file)
          BY DEF HeldInOrder
        <4>4. ~damaged' => ~damaged /\ file' = file \o <<>>
          BY <2>1, <4>1, <4>2, <4>3, UndamagedFile
        <4>5. QED
          BY <4>1, <4>2, <4>4 DEF BufferMirrorsFile
      <3>3. QED
        BY <3>1, <3>2
    <2>2. CASE /\ FlushFails(buffer) /\ Damage(<<>>) /\ UNCHANGED <<buffer, write_mode>>
      BY <1>12, <2>2, MirrorFailure DEF Rescan, buf
    <2>3. QED
      BY <1>12, <2>1, <2>2 DEF Rescan
  <1>13. CASE Free
    BY <1>13, MirrorUntouched DEF Free, disk, harm
  <1>14. QED
    BY <1>1, <1>2, <1>3, <1>4, <1>5, <1>6, <1>7, <1>8, <1>9, <1>10, <1>11, <1>12,
       <1>13 DEF Next

-----------------------------------------------------------------------------
(* The strict client.                                                       *)

LEMMA NoFailure == ASSUME strict PROVE ~Fail
  BY DEF Fail

\* What it writes leaves the store sound.
LEMMA StrictUndamaged ==
  ASSUME NEW text, strict, ~damaged, WrittenOrLost(text), Damage(text)
  PROVE  ~damaged'
  <1>1. file' = file \o text
    BY StrictSucceeds
  <1>2. QED
    BY <1>1, Zenon DEF Damage

\* Its buffer never gets full: it is flushed before.
LEMMA NeverFull ==
  ASSUME Typed, Steady, strict
  PROVE  Len(Pending) < BufferSize
  <1>1. CASE write_mode
    <2>1. Len(buffer) < FlushAt /\ Pending = buffer /\ Len(buffer) \in Nat
      BY <1>1, LenProperties DEF Steady, Pending, Typed, TypeOK
    <2>2. QED
      BY <2>1, FlushAtRange, StoreAssumption
  <1>2. CASE ~write_mode
    <2>1. Len(Pending) = 0
      BY <1>2, EmptySeq DEF Pending
    <2>2. QED
      BY <2>1, StoreAssumption
  <1>3. QED
    BY <1>1, <1>2

\* While it reads, the tuples are all in memory or all on file.
LEMMA ReadsEverything ==
  ASSUME Typed, OnePlace, HeldInOrder, Steady, strict
  PROVE  /\ ~using_file => acked = tuples
         /\ using_file /\ scanning => acked = file /\ file_count = Len(file)
  <1>1. ~damaged
    BY DEF Steady
  <1>2. ASSUME using_file, scanning
        PROVE  acked = file /\ file_count = Len(file)
    <2>1. tuples = <<>> /\ Pending = <<>> /\ file \in Seq(Tuples)
      BY <1>2 DEF OnePlace, Steady, Pending, Typed, TypeOK
    <2>2. acked = <<>> \o file \o <<>> /\ file_count = Len(file)
      BY <1>1, <2>1 DEF HeldInOrder
    <2>3. QED
      BY <2>1, <2>2, ConcatEmptySeq
  <1>3. QED
    BY <1>1, <1>2, HeldInMemory

LEMMA SteadyStep ==
  ASSUME IInv, Next, UNCHANGED strict
  PROVE  Steady'
  <1> SUFFICES ASSUME strict
               PROVE  /\ ~damaged' /\ ~misplaced'
                      /\ write_mode' => Len(buffer') < FlushAt
                      /\ scanning' => ~write_mode'
                      /\ read_pos' <= Len(acked')
    BY DEF Steady, FlushAt
  <1>0. /\ ~damaged /\ ~misplaced
        /\ write_mode => Len(buffer) < FlushAt
        /\ scanning => ~write_mode
        /\ read_pos <= Len(acked)
        /\ ~Fail
    BY NoFailure DEF IInv, Steady
  <1>a. /\ acked \in Seq(Tuples) /\ Len(acked) \in Nat /\ read_pos \in Nat
        /\ file_count \in Nat
        /\ ToFlush = Pending /\ Pending \in Seq(Tuples)
        /\ Typed /\ OnePlace /\ HeldInOrder /\ Steady
    BY PendingTyped, WritesWhatIsPending, LenProperties DEF IInv, Typed, TypeOK
  <1>b. ASSUME StartPut, Acknowledge(puts'), UNCHANGED read_pos
        PROVE  read_pos' <= Len(acked') /\ ~scanning'
    <2>1. puts' \in Tuples /\ ~scanning'
      BY <1>a, <1>b, NextPut DEF StartPut
    <2>2. Len(acked') = Len(acked) + 1
      BY <1>a, <1>b, <2>1, AppendProperties DEF Acknowledge
    <2>3. QED
      BY <1>0, <1>a, <1>b, <2>1, <2>2
  <1>1. CASE PutInMemory
    <2>1. read_pos' <= Len(acked') /\ ~scanning'
      BY <1>1, <1>b DEF PutInMemory
    <2>2. UNCHANGED <<disk, buf, harm>>
      BY <1>1 DEF PutInMemory
    <2>3. QED
      BY <1>0, <2>1, <2>2 DEF buf, harm
  <1>2. CASE PutWithDump
    <2>1. read_pos' <= Len(acked') /\ ~scanning'
      BY <1>2, <1>b DEF PutWithDump
    <2>2. ~damaged'
      BY <1>0, <1>2, StrictUndamaged DEF PutWithDump
    <2>3. buffer' = <<puts'>> /\ misplaced' = misplaced
      BY <1>2 DEF PutWithDump
    <2>4. Len(buffer') = 1
      BY <2>3
    <2>5. QED
      BY <1>0, <2>1, <2>2, <2>3, <2>4, FlushAtRange
  <1>3. CASE DumpRefused
    BY <1>0, <1>3 DEF DumpRefused
  <1>4. CASE DumpLoses
    BY <1>0, <1>4 DEF DumpLoses
  <1>5. CASE PutInBuffer
    <2>1. read_pos' <= Len(acked') /\ ~scanning' /\ misplaced' = misplaced
      BY <1>5, <1>b DEF PutInBuffer
    <2>2. ~damaged' /\ (write_mode' => Len(buffer') < FlushAt)
      <3> DEFINE new == Append(Pending, puts')
      <3>1. CASE /\ Len(new) < FlushAt /\ buffer' = new
                 /\ UNCHANGED <<file, file_count, damaged>>
        BY <1>0, <3>1
      <3>2. CASE /\ WrittenOrLost(new) /\ Damage(new) /\ write_mode' = FALSE
        BY <1>0, <3>2, StrictUndamaged
      <3>3. ~FlushFails(new)
        BY <1>0 DEF FlushFails
      <3>4. QED
        BY <1>5, <3>1, <3>2, <3>3 DEF PutInBuffer
    <2>3. QED
      BY <1>0, <2>1, <2>2
  <1>6. CASE PutInFullBuffer
    <2>1. Len(Pending) >= BufferSize /\ Len(Pending) < BufferSize /\ Len(Pending) \in Nat
      BY <1>6, <1>a, NeverFull, LenProperties DEF PutInFullBuffer
    <2>2. QED
      BY <2>1, StoreAssumption
  <1>7. CASE GetFromMemory
    <2>1. UNCHANGED <<disk, buf, acked, scanning, harm>>
      BY <1>7 DEF GetFromMemory
    <2>2. read_pos' <= Len(acked')
      <3>1. acked = tuples
        BY <1>7, <1>a, ReadsEverything DEF GetFromMemory
      <3>2. \/ read_pos < Len(tuples) /\ read_pos' = read_pos + 1
            \/ read_pos' = read_pos
        BY <1>7 DEF GetFromMemory, Return, ReturnNull
      <3>3. QED
        BY <1>0, <1>a, <2>1, <3>1, <3>2
    <2>3. QED
      BY <1>0, <2>1, <2>2 DEF buf, harm
  <1>8. CASE GetAtEnd
    <2>1. UNCHANGED <<disk, buf, acked, scanning, harm, read_pos>>
      BY <1>8 DEF GetAtEnd, ReturnNull
    <2>2. QED
      BY <1>0, <2>1 DEF buf, harm
  <1>9. CASE GetFromBuffer
    <2>1. UNCHANGED <<disk, buf, acked, scanning, harm>> /\ read_pos' = read_pos + 1
      BY <1>9 DEF GetFromBuffer, Return
    <2>2. read_pos < file_count /\ file_count = Len(acked)
      BY <1>9, <1>a, ReadsEverything DEF GetFromBuffer, StartGet
    <2>3. QED
      BY <1>0, <1>a, <2>1, <2>2 DEF buf, harm
  <1>10. CASE GetAndFill
    <2>1. /\ acked' = acked /\ scanning' = scanning /\ misplaced' = FALSE
          /\ write_mode' = FALSE
          /\ read_pos' = read_pos \/ read_pos' = read_pos + 1
      BY <1>10 DEF GetAndFill, StartFill, Return, ReturnNull
    <2>2. ~damaged'
      BY <1>0, <1>10, StrictUndamaged DEF GetAndFill
    <2>3. read_pos < file_count /\ file_count = Len(acked)
      BY <1>10, <1>a, ReadsEverything DEF GetAndFill, StartGet
    <2>4. QED
      BY <1>0, <1>a, <2>1, <2>2, <2>3
  <1>11. CASE FillFails
    BY <1>0, <1>11 DEF FillFails, FlushFails
  <1>12. CASE Rescan
    <2>1. /\ WrittenOrLost(ToFlush) /\ Damage(ToFlush) /\ EmptyAfterFlush
          /\ read_pos' = 0 /\ acked' = acked /\ misplaced' = misplaced
      BY <1>0, <1>12 DEF Rescan, FlushFails
    <2>2. ~damaged'
      BY <1>0, <2>1, StrictUndamaged
    <2>3. ~write_mode'
      BY <1>a, <2>1 DEF EmptyAfterFlush, OnePlace, Unflushed
    <2>4. QED
      BY <1>0, <1>a, <2>1, <2>2, <2>3
  <1>13. CASE Free
    <2>1. UNCHANGED <<disk, buf, acked, scanning, harm, read_pos>>
      BY <1>13 DEF Free
    <2>2. QED
      BY <1>0, <2>1 DEF buf, harm
  <1>14. QED
    BY <1>1, <1>2, <1>3, <1>4, <1>5, <1>6, <1>7, <1>8, <1>9, <1>10, <1>11, <1>12,
       <1>13 DEF Next

LEMMA StepIInv ==
  ASSUME IInv, Next, UNCHANGED strict
  PROVE  IInv'
  <1>1. Typed'
    BY TypedStep DEF IInv
  <1>2. OnePlace' /\ HeldInOrder' /\ BufferMirrorsFile'
    BY OnePlaceStep, HeldStep, MirrorStep DEF IInv
  <1>3. Steady'
    BY SteadyStep
  <1>4. QED
    BY <1>1, <1>2, <1>3 DEF IInv

LEMMA StutterIInv ==
  ASSUME IInv, UNCHANGED vars
  PROVE  IInv'
  <1>1. UNCHANGED <<tuples, capacity, current_memory, using_file, file, file_count,
                    buffer, buffer_start, write_mode, read_pos, freed, puts, failures,
                    acked, got, strict, scanning, damaged, misplaced>>
    BY DEF vars, memory, disk, buf, harm
  <1>2. Typed'
    BY <1>1 DEF IInv, Typed, TypeOK
  <1>3. OnePlace' /\ HeldInOrder'
    BY <1>1 DEF IInv, OnePlace, HeldInOrder, Pending
  <1>4. BufferMirrorsFile'
    BY <1>1, MirrorUntouched DEF IInv, buf
  <1>5. Steady'
    BY <1>1 DEF IInv, Steady, FlushAt
  <1>6. QED
    BY <1>2, <1>3, <1>4, <1>5 DEF IInv

LEMMA Invariance == Spec => []IInv
  <1>1. Init => IInv
    BY InitIInv
  <1>2. IInv /\ [Next /\ UNCHANGED strict]_vars => IInv'
    BY StepIInv, StutterIInv
  <1>3. QED
    BY <1>1, <1>2, PTL DEF Spec

-----------------------------------------------------------------------------
(* The refinement.                                                          *)

LEMMA InitRefines == Init => Queue!Init
  BY DEF Init, Queue!Init, Seen

\* A client that is not strict shows nothing.
LEMMA OthersUnseen ==
  ASSUME ~strict, UNCHANGED strict
  PROVE  UNCHANGED Queue!vars
  BY DEF Queue!vars, Seen

LEMMA UnchangedView ==
  ASSUME UNCHANGED <<acked, read_pos, got, strict>>
  PROVE  UNCHANGED Queue!vars
  BY DEF Queue!vars, Seen

LEMMA PutRefines ==
  ASSUME strict, strict', NEW t \in Tuples, Acknowledge(t), UNCHANGED <<read_pos, got>>
  PROVE  Queue!Next
  <1>1. Queue!Put(t)
    BY DEF Queue!Put, Seen, Acknowledge
  <1>2. QED
    BY <1>1 DEF Queue!Next

LEMMA GetRefines ==
  ASSUME strict, strict', acked' = acked,
         \/ read_pos < Len(acked) /\ Return(acked[read_pos + 1])
         \/ read_pos = Len(acked) /\ ReturnNull
  PROVE  Queue!Next
  <1>1. Queue!GetNext
    BY DEF Queue!GetNext, Seen, Return, ReturnNull
  <1>2. QED
    BY <1>1 DEF Queue!Next

\* What the strict client reads through the buffer.
LEMMA BufferedTuple ==
  ASSUME IInv, strict, scanning, using_file, InBuffer
  PROVE  buffer[read_pos - buffer_start + 1] = file[read_pos + 1]
  <1>1. /\ read_pos \in Nat /\ buffer_start \in Nat /\ Len(buffer) \in Nat
    BY LenProperties DEF IInv, Typed, TypeOK
  <1>2. read_pos - buffer_start + 1 \in 1 .. Len(buffer)
    BY <1>1 DEF InBuffer
  <1>3. ~write_mode /\ ~damaged /\ ~misplaced
    BY DEF IInv, Steady
  <1>4. \A i \in 1 .. Len(buffer) : buffer[i] = file[buffer_start + i]
    BY <1>3 DEF IInv, BufferMirrorsFile
  <1>5. buffer_start + (read_pos - buffer_start + 1) = read_pos + 1
    BY <1>1
  <1>6. QED
    BY <1>2, <1>4, <1>5

LEMMA NextRefines ==
  ASSUME IInv, Next, UNCHANGED strict
  PROVE  Queue!Next \/ UNCHANGED Queue!vars
  <1>0. CASE ~strict
    BY <1>0, OthersUnseen
  <1> SUFFICES ASSUME strict, strict' PROVE Queue!Next \/ UNCHANGED Queue!vars
    BY <1>0
  <1>a. /\ Typed /\ OnePlace /\ HeldInOrder /\ Steady /\ ~Fail
        /\ read_pos \in Nat /\ read_pos <= Len(acked) /\ Len(acked) \in Nat
    BY NoFailure, LenProperties DEF IInv, Steady, Typed, TypeOK
  <1>1. CASE PutInMemory
    BY <1>1, <1>a, NextPut, PutRefines DEF PutInMemory
  <1>2. CASE PutWithDump
    BY <1>2, <1>a, NextPut, PutRefines DEF PutWithDump
  <1>3. CASE DumpRefused
    BY <1>3, <1>a DEF DumpRefused
  <1>4. CASE DumpLoses
    BY <1>4, <1>a DEF DumpLoses
  <1>5. CASE PutInBuffer
    BY <1>5, <1>a, NextPut, PutRefines DEF PutInBuffer
  <1>6. CASE PutInFullBuffer
    <2>1. Len(Pending) >= BufferSize /\ Len(Pending) < BufferSize /\ Len(Pending) \in Nat
      BY <1>6, <1>a, NeverFull, PendingTyped, LenProperties DEF PutInFullBuffer
    <2>2. QED
      BY <2>1, StoreAssumption
  <1>7. CASE GetFromMemory
    <2>1. acked = tuples /\ acked' = acked
      BY <1>7, <1>a, ReadsEverything DEF GetFromMemory
    <2>2. \/ read_pos < Len(acked) /\ Return(acked[read_pos + 1])
          \/ read_pos = Len(acked) /\ ReturnNull
      BY <1>7, <1>a, <2>1 DEF GetFromMemory
    <2>3. QED
      BY <2>1, <2>2, GetRefines
  <1>8. CASE GetAtEnd
    <2>1. acked' = acked /\ file_count = Len(acked) /\ ReturnNull
      BY <1>8, <1>a, ReadsEverything DEF GetAtEnd, StartGet
    <2>2. read_pos = Len(acked)
      BY <1>8, <1>a, <2>1 DEF GetAtEnd
    <2>3. QED
      BY <2>1, <2>2, GetRefines
  <1>9. CASE GetFromBuffer
    <2>1. scanning /\ using_file /\ InBuffer /\ read_pos < file_count /\ acked' = acked
      BY <1>9 DEF GetFromBuffer, StartGet
    <2>2. acked = file /\ file_count = Len(file)
      BY <1>a, <2>1, ReadsEverything
    <2>3. Return(acked[read_pos + 1])
      BY <1>9, <2>1, <2>2, BufferedTuple DEF GetFromBuffer
    <2>4. QED
      BY <2>1, <2>2, <2>3, GetRefines
  <1>10. CASE GetAndFill
    <2>1. scanning /\ using_file /\ read_pos < file_count /\ acked' = acked
      BY <1>10 DEF GetAndFill, StartGet
    <2>2. acked = file /\ file_count = Len(file) /\ file \in Seq(Tuples)
      BY <1>a, <2>1, ReadsEverything DEF Typed, TypeOK
    <2>3. ToFlush = <<>>
      BY <1>a, <2>1 DEF Steady, ToFlush, Unflushed
    <2>4. file' = file \o <<>> /\ file_count' = file_count + Len(<<>>)
      BY <1>10, <1>a, <2>3, StrictSucceeds DEF GetAndFill
    <2>5. file' = file /\ file_count' = file_count
      BY <2>2, <2>4, EmptySeq, ConcatEmptySeq, LenProperties
    <2>6. LastRead \in Int /\ read_pos + 1 <= LastRead
      BY <1>a, <2>1, <2>2, <2>5, StoreAssumption, LenProperties DEF LastRead, Lesser
    <2>7. buffer' = SubSeq(file', read_pos + 1, LastRead)
      BY <1>10, <1>a DEF GetAndFill
    <2>8. /\ buffer' \in Seq(Tuples) /\ Len(buffer') = LastRead - read_pos
          /\ \A i \in 1 .. LastRead - read_pos : buffer'[i] = file'[read_pos + i]
      <3>1. file' \in Seq(Tuples) /\ file_count' \in Nat /\ LastRead <= LastRead
        BY <2>2, <2>5, <2>6, LenProperties
      <3>2. QED
        BY <1>a, <2>6, <2>7, <3>1, FillTyped
    <2>9. buffer' # <<>> /\ buffer'[1] = file[read_pos + 1]
      BY <1>a, <2>5, <2>6, <2>8, EmptySeq
    <2>10. Return(file[read_pos + 1])
      <3>1. Return(Head(buffer')) /\ Head(buffer') = buffer'[1]
        BY <1>10, <2>8, <2>9 DEF GetAndFill
      <3>2. QED
        BY <2>9, <3>1
    <2>11. QED
      BY <2>1, <2>2, <2>10, GetRefines
  <1>11. CASE FillFails
    BY <1>a, <1>11 DEF FillFails, FlushFails
  <1>12. CASE Rescan
    <2>1. read_pos' = 0 /\ UNCHANGED <<acked, got>>
      BY <1>12, <1>a DEF Rescan, FlushFails
    <2>2. Queue!Rescan
      BY <2>1 DEF Queue!Rescan, Seen
    <2>3. QED
      BY <2>2 DEF Queue!Next
  <1>13. CASE Free
    BY <1>13, UnchangedView DEF Free
  <1>14. QED
    BY <1>1, <1>2, <1>3, <1>4, <1>5, <1>6, <1>7, <1>8, <1>9, <1>10, <1>11, <1>12,
       <1>13 DEF Next

-----------------------------------------------------------------------------
(* The array.                                                               *)

LEMMA QuotientBelow ==
  ASSUME NEW n \in Int, NEW p \in Nat \ {0}
  PROVE  n \div p \in Int /\ p * (n \div p) <= n
  OBVIOUS

\* Growth makes room for one tuple at least and stays within the limit.
LEMMA GrowFits ==
  ASSUME Typed, ArrayFits, Grow, ~using_file, ~MustDump
  PROVE  /\ Len(tuples) + 1 <= capacity'
         /\ capacity' # InitialCapacity => current_memory' <= MaxMemory
  <1>0. /\ Len(tuples) \in Nat /\ capacity \in Nat /\ capacity >= 1
        /\ current_memory \in Nat /\ Len(tuples) <= capacity
    BY LenProperties DEF Typed, TypeOK, ArrayFits
  <1>1. CASE ArrayFull
    <2>1. tuples # <<>> /\ Spare \in Int /\ PointerSize * Spare <= MaxMemory - current_memory
      <3>1. tuples # <<>>
        BY <1>0, <1>1, EmptySeq DEF ArrayFull
      <3>2. MaxMemory - current_memory \in Int
        BY <1>0, StoreAssumption
      <3>3. QED
        BY <3>1, <3>2, StoreAssumption, QuotientBelow DEF Spare
    <2>2. /\ capacity' = (IF DoubleSize > MaxMemory THEN capacity + Spare ELSE 2 * capacity)
          /\ current_memory' = current_memory + PointerSize * (capacity' - capacity)
      BY <1>1 DEF Grow
    <2>3. CASE DoubleSize > MaxMemory
      <3>1. Spare > 0
        BY <1>1, <2>1, <2>3 DEF MustDump
      <3>2. capacity' = capacity + Spare /\ capacity' - capacity = Spare
        BY <1>0, <2>1, <2>2, <2>3
      <3>3. current_memory' = current_memory + PointerSize * Spare
        BY <2>2, <3>2
      <3>4. PointerSize * Spare \in Int
        BY <2>1, StoreAssumption
      <3>5. QED
        BY <1>0, <2>1, <3>1, <3>2, <3>3, <3>4, StoreAssumption
    <2>4. CASE ~(DoubleSize > MaxMemory)
      <3>1. capacity' = 2 * capacity /\ capacity' - capacity = capacity
        BY <1>0, <2>2, <2>4
      <3>2. current_memory' = DoubleSize
        BY <2>2, <3>1 DEF DoubleSize
      <3>3. PointerSize * capacity \in Int
        BY <1>0, StoreAssumption
      <3>4. current_memory' <= MaxMemory
        BY <1>0, <2>4, <3>2, <3>3, StoreAssumption DEF DoubleSize
      <3>5. QED
        BY <1>0, <3>1, <3>4
    <2>5. QED
      BY <2>3, <2>4
  <1>2. CASE ~ArrayFull
    <2>1. UNCHANGED <<capacity, current_memory>>
      BY <1>2 DEF Grow
    <2>2. Len(tuples) + 1 <= capacity
      BY <1>0, <1>2 DEF ArrayFull
    <2>3. QED
      BY <2>1, <2>2 DEF ArrayFits
  <1>3. QED
    BY <1>1, <1>2

LEMMA ArrayStep ==
  ASSUME Typed, ArrayFits, Next
  PROVE  ArrayFits'
  <1>0. tuples \in Seq(Tuples) /\ Len(tuples) \in Nat /\ capacity \in Nat /\ puts \in Nat
    BY LenProperties DEF Typed, TypeOK
  <1>1. CASE PutInMemory
    <2>1. Grow /\ ~using_file /\ ~MustDump /\ tuples' = Append(tuples, puts')
      BY <1>1 DEF PutInMemory
    <2>2. Len(tuples') = Len(tuples) + 1
      BY <1>0, <2>1
    <2>3. QED
      BY <2>1, <2>2, GrowFits DEF ArrayFits
  <1>2. CASE PutWithDump \/ DumpLoses
    <2>1. tuples' = <<>> /\ UNCHANGED <<capacity, current_memory>>
      BY <1>2 DEF PutWithDump, DumpLoses
    <2>2. Len(tuples') = 0
      BY <2>1
    <2>3. QED
      BY <1>0, <2>1, <2>2 DEF ArrayFits
  <1>3. CASE UNCHANGED memory
    BY <1>3 DEF ArrayFits, memory
  <1>4. ASSUME ~PutInMemory, ~PutWithDump, ~DumpLoses
        PROVE  UNCHANGED memory
    BY <1>4 DEF Next, DumpRefused, PutInBuffer, PutInFullBuffer, GetFromMemory,
       GetAtEnd, GetFromBuffer, GetAndFill, FillFails, Rescan, Free
  <1>5. QED
    BY <1>1, <1>2, <1>3, <1>4

-----------------------------------------------------------------------------
(* The theorems.                                                            *)

\* tuplestore_put never writes beyond the array that it has allocated, and an
\* array that has grown fits in the limit of memory, for any sizes.
THEOREM ArrayIsNotOverrun == Spec => []ArrayFits
  <1>1. Init => ArrayFits
    BY StoreAssumption DEF Init, ArrayFits
  <1>2. IInv /\ ArrayFits /\ [Next /\ UNCHANGED strict]_vars => ArrayFits'
    <2>1. ASSUME UNCHANGED vars, ArrayFits PROVE ArrayFits'
      BY <2>1 DEF vars, memory, ArrayFits
    <2>2. QED
      BY <2>1, ArrayStep DEF IInv
  <1>3. QED
    BY Invariance, <1>1, <1>2, PTL DEF Spec

\* The contents of the store: as long as no write has gone wrong, the tuples of
\* successful calls of tuplestore_put are in memory, on file and in the buffer
\* that waits to be written, in order, and file_count counts those on file.
THEOREM ContentsSurvive == Spec => []ContentsKept
  <1>1. IInv /\ ArrayFits => ContentsKept
    BY DEF IInv, Typed, HeldInOrder, ContentsKept
  <1>2. QED
    BY Invariance, ArrayIsNotOverrun, <1>1, PTL

\* What tuplestore_get_next finds in the buffer of a store in read mode is what
\* the file holds there.
THEOREM BufferIsCurrent == Spec => []BufferMirrorsFile
  <1>1. IInv => BufferMirrorsFile
    BY DEF IInv
  <1>2. QED
    BY Invariance, <1>1, PTL

\* The client that rescans before it reads sees a sequence with a cursor,
\* wherever the store keeps the tuples and however often it is flushed.
THEOREM StoreIsAQueue == Spec => IsAQueue
  <1>1. Init => Queue!Init
    BY InitRefines
  <1>2. IInv /\ [Next /\ UNCHANGED strict]_vars => [Queue!Next]_(Queue!vars)
    <2>1. ASSUME UNCHANGED vars PROVE UNCHANGED Queue!vars
      <3>1. UNCHANGED <<acked, read_pos, got, strict>>
        BY <2>1 DEF vars
      <3>2. QED
        BY <3>1, UnchangedView
    <2>2. QED
      BY <2>1, NextRefines
  <1>3. QED
    BY <1>1, <1>2, Invariance, PTL DEF Spec, IsAQueue, Queue!Spec
=============================================================================
