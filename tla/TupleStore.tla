----------------------------- MODULE TupleStore -----------------------------
(***************************************************************************)
(* src/tuplestore_demo/tuplestore_demo.c: a sequence of tuples kept in      *)
(* memory until a limit, then in a temporary file behind one buffer that    *)
(* serves both for reading and for writing.                                 *)
(*                                                                          *)
(* A tuple is the number of the put that brought it.  The contents of the   *)
(* buffer beyond buffer_count are never used and are not kept.  Memory is   *)
(* counted in the units of the constants.  File operations may fail; malloc *)
(* and realloc do not.                                                      *)
(***************************************************************************)
EXTENDS Integers, Sequences

CONSTANTS
  InitialCapacity,  \* TUPLESTORE_INITIAL_CAPACITY
  BufferSize,       \* TUPLESTORE_MIN_BUFFER_SIZE
  MaxMemory,        \* max_memory_kb * 1024
  StoreSize, PointerSize, TupleSize,  \* the sizeof's
  MaxPuts,          \* bound: calls of tuplestore_put
  MaxFailures       \* bound: failures of file operations

ASSUME StoreAssumption ==
  /\ InitialCapacity \in Nat \ {0}
  /\ BufferSize \in Nat /\ BufferSize >= 3
  /\ MaxMemory \in Nat /\ StoreSize \in Nat
  /\ PointerSize \in Nat \ {0} /\ TupleSize \in Nat \ {0}
  /\ MaxPuts \in Nat /\ MaxFailures \in Nat

NoTuple == 0
Tuples == 1 .. MaxPuts

\* (int)(buffer_size * TUPLESTORE_FLUSH_THRESHOLD)
FlushAt == (3 * BufferSize) \div 4

VARIABLES
  tuples,          \* tuples[0 .. count - 1]
  capacity, current_memory,
  using_file,
  file,            \* what the temporary file holds
  file_count,      \* what the store believes it holds
  buffer,          \* buffer[0 .. buffer_count - 1]
  buffer_start, write_mode, read_pos,
  freed,
  puts, failures,  \* counts of what the bounds limit
  acked,           \* history: tuples whose put returned TUPLESTORE_SUCCESS
  got,             \* history: what the last get_next returned
  strict,          \* whether the client calls get_next only after a rescan
                   \* that follows its last put, as main() does; file
                   \* operations do not fail then
  scanning,        \* history: no put since the last rescan
  damaged,         \* history: tuples were counted in the file and not written,
                   \* or written and not counted, or put left one in a buffer
                   \* that is in read mode
  misplaced        \* history: the buffer was not read from buffer_start

memory == <<tuples, capacity, current_memory>>
disk == <<using_file, file, file_count>>
buf == <<buffer, buffer_start, write_mode>>
harm == <<damaged, misplaced>>
vars == <<memory, disk, buf, read_pos, freed, puts, failures, acked, got,
          strict, scanning, harm>>

\* tuplestore_create
Init ==
  /\ tuples = <<>> /\ capacity = InitialCapacity
  /\ current_memory = StoreSize + PointerSize * InitialCapacity
  /\ using_file = FALSE /\ file = <<>> /\ file_count = 0
  /\ buffer = <<>> /\ buffer_start = 0 /\ write_mode = FALSE
  /\ read_pos = 0 /\ freed = FALSE
  /\ puts = 0 /\ failures = 0
  /\ acked = <<>> /\ got = NoTuple /\ scanning = FALSE
  /\ damaged = FALSE /\ misplaced = FALSE
  /\ strict \in BOOLEAN

Fail == ~strict /\ failures < MaxFailures /\ failures' = failures + 1
Succeed == UNCHANGED failures

-----------------------------------------------------------------------------
(* tuplestore_flush_buffer.                                                 *)

\* it has something to write
Unflushed == using_file /\ write_mode /\ buffer # <<>>
ToFlush == IF Unflushed THEN buffer ELSE <<>>

\* Mutant: the flush forgets to count.
CountAfterKept(text) == file_count

CountAfter(text) == file_count + Len(text)

\* text is written, and the fflush that follows succeeds
Written(text) ==
  /\ file' = file \o text
  /\ file_count' = CountAfter(text)

\* The same with what the code does not see: the result of fflush is not looked
\* at, and what stdio still held may be lost.
WrittenOrLost(text) ==
  /\ \/ Succeed /\ file' = file \o text
     \/ /\ Fail
        /\ \E n \in 0 .. Len(text) - 1 : file' = file \o SubSeq(text, 1, n)
  /\ file_count' = CountAfter(text)

\* fwrite fails: the error is returned with the buffer and file_count as they
\* are; some of the tuples may have reached the file.
FlushFails(text) ==
  /\ Fail
  /\ \E n \in 0 .. Len(text) - 1 : file' = file \o SubSeq(text, 1, n)
  /\ UNCHANGED file_count

\* the file holds something else than what file_count now counts
Damage(text) == damaged' = (damaged \/ file' # file \o text)

-----------------------------------------------------------------------------
(* tuplestore_put.                                                          *)

DoubleSize == current_memory + PointerSize * capacity
Spare == (MaxMemory - current_memory) \div PointerSize

ArrayFull == ~using_file /\ Len(tuples) >= capacity

\* put calls tuplestore_dump_to_file with tuples to dump
MustDump ==
  /\ tuples # <<>>
  /\ \/ current_memory + TupleSize > MaxMemory
     \/ ArrayFull /\ DoubleSize > MaxMemory /\ Spare <= 0

\* the array grows to twice its capacity or to what the limit allows
Grow ==
  IF ArrayFull /\ ~MustDump
  THEN /\ capacity' = IF DoubleSize > MaxMemory THEN capacity + Spare
                      ELSE 2 * capacity
       /\ current_memory' = current_memory + PointerSize * (capacity' - capacity)
  ELSE UNCHANGED <<capacity, current_memory>>

StartPut ==
  /\ ~freed /\ puts < MaxPuts
  /\ puts' = puts + 1
  /\ scanning' = FALSE

Acknowledge(t) == acked' = Append(acked, t)

PutInMemory ==
  /\ StartPut /\ Succeed
  /\ ~using_file /\ ~MustDump
  /\ Grow
  /\ tuples' = Append(tuples, puts')
  /\ Acknowledge(puts')
  /\ UNCHANGED <<disk, buf, read_pos, freed, got, harm>>

\* the tuples in memory go to the file, the new one to the buffer
PutWithDump ==
  /\ StartPut
  /\ MustDump
  /\ WrittenOrLost(tuples) /\ Damage(tuples)
  /\ tuples' = <<>> /\ using_file' = TRUE
  /\ buffer' = <<puts'>> /\ write_mode' = TRUE
  /\ Acknowledge(puts')
  /\ UNCHANGED <<capacity, current_memory, buffer_start, read_pos, freed, got,
                 misplaced>>

\* the temporary file cannot be created: put returns the error
DumpRefused ==
  /\ StartPut /\ Fail
  /\ MustDump
  /\ UNCHANGED <<memory, disk, buf, read_pos, freed, acked, got, harm>>

\* Some writes of the dump fail: their tuples are freed and counted all the
\* same, and put returns the error without storing its own tuple.
DumpLoses ==
  /\ StartPut /\ Fail
  /\ MustDump
  /\ \E n \in 0 .. Len(tuples) - 1 : \E kept \in [1 .. n -> DOMAIN tuples] :
       /\ \A i, j \in 1 .. n : i < j => kept[i] < kept[j]
       /\ file' = file \o [i \in 1 .. n |-> tuples[kept[i]]]
  /\ file_count' = CountAfter(tuples)
  /\ tuples' = <<>> /\ using_file' = TRUE
  /\ damaged' = TRUE
  /\ UNCHANGED <<capacity, current_memory, buf, read_pos, freed, acked, got,
                 misplaced>>

\* switching to write mode drops what the buffer held for reading
Pending == IF write_mode THEN buffer ELSE <<>>

PutInBuffer ==
  /\ StartPut
  /\ using_file /\ Len(Pending) < BufferSize
  /\ LET new == Append(Pending, puts')
     IN  \/ /\ Len(new) < FlushAt /\ Succeed
            /\ buffer' = new /\ write_mode' = TRUE
            /\ UNCHANGED <<file, file_count, damaged>>
         \/ /\ Len(new) >= FlushAt
            /\ WrittenOrLost(new) /\ Damage(new)
            /\ buffer' = <<>> /\ write_mode' = FALSE
         \* the result of this last flush is not looked at
         \/ /\ Len(new) >= FlushAt
            /\ FlushFails(new) /\ Damage(<<>>)
            /\ buffer' = new /\ write_mode' = TRUE
  /\ Acknowledge(puts')
  /\ UNCHANGED <<memory, using_file, buffer_start, read_pos, freed, got,
                 misplaced>>

\* The flush that makes room leaves the buffer in read mode, and the new tuple
\* goes into it nevertheless.
PutInFullBuffer ==
  /\ StartPut
  /\ using_file /\ Len(Pending) >= BufferSize
  /\ \/ /\ WrittenOrLost(Pending)
        /\ buffer' = <<puts'>> /\ write_mode' = FALSE
        /\ damaged' = TRUE
        /\ Acknowledge(puts')
     \/ /\ FlushFails(Pending) /\ Damage(<<>>)
        /\ UNCHANGED <<buffer, write_mode, acked>>
  /\ UNCHANGED <<memory, using_file, buffer_start, read_pos, freed, got,
                 misplaced>>

-----------------------------------------------------------------------------
(* tuplestore_get_next, tuplestore_rescan, tuplestore_free.                 *)

StartGet ==
  /\ ~freed
  /\ strict => scanning

Return(t) ==
  /\ got' = t
  /\ read_pos' = read_pos + 1

ReturnNull == got' = NoTuple /\ UNCHANGED read_pos

GetFromMemory ==
  /\ StartGet /\ ~using_file
  /\ IF read_pos < Len(tuples) THEN Return(tuples[read_pos + 1])
     ELSE ReturnNull
  /\ UNCHANGED <<memory, disk, buf, freed, puts, failures, acked, scanning,
                 harm>>

GetAtEnd ==
  /\ StartGet /\ using_file /\ read_pos >= file_count
  /\ ReturnNull
  /\ UNCHANGED <<memory, disk, buf, freed, puts, failures, acked, scanning,
                 harm>>

InBuffer == read_pos - buffer_start \in 0 .. Len(buffer) - 1

\* whichever mode the buffer is in
GetFromBuffer ==
  /\ StartGet /\ using_file /\ read_pos < file_count
  /\ InBuffer
  /\ Return(buffer[read_pos - buffer_start + 1])
  /\ UNCHANGED <<memory, disk, buf, freed, puts, failures, acked, scanning,
                 harm>>

\* what is there to read from read_pos on: file_count limits the request, the
\* length of the file the answer
Lesser(m, n) == IF m < n THEN m ELSE n
LastRead == Lesser(read_pos + BufferSize, Lesser(file_count', Len(file')))

\* Mutant: buffer_start is left where the last fill put it.
StartFillInPlace == UNCHANGED buffer_start /\ write_mode' = FALSE

StartFill == buffer_start' = read_pos /\ write_mode' = FALSE

\* tuplestore_fill_buffer, then the first tuple of the buffer if there is one
GetAndFill ==
  /\ StartGet /\ using_file /\ read_pos < file_count
  /\ ~InBuffer
  /\ \/ /\ WrittenOrLost(ToFlush) /\ Damage(ToFlush)
        /\ StartFill
        /\ buffer' = SubSeq(file', read_pos + 1, LastRead)
        /\ misplaced' = FALSE
     \* fread reads less than it should
     \/ /\ Fail /\ Written(ToFlush) /\ UNCHANGED damaged
        /\ StartFill
        /\ \E last \in read_pos .. LastRead - 1 :
             buffer' = SubSeq(file', read_pos + 1, last)
        /\ misplaced' = FALSE
  /\ IF buffer' # <<>> THEN Return(Head(buffer')) ELSE ReturnNull
  /\ UNCHANGED <<memory, using_file, freed, puts, acked, scanning>>

\* fill_buffer returns an error before it reads: the flush fails, or fseek does
\* when buffer_start is set already and the buffer still holds what it held.
FillFails ==
  /\ StartGet /\ using_file /\ read_pos < file_count
  /\ ~InBuffer
  /\ \/ /\ Unflushed /\ FlushFails(buffer) /\ Damage(<<>>)
        /\ UNCHANGED <<buf, misplaced>>
     \/ /\ Fail /\ ~Unflushed
        /\ StartFill
        /\ misplaced' = (buffer # <<>>)
        /\ UNCHANGED <<buffer, file, file_count, damaged>>
  /\ ReturnNull
  /\ UNCHANGED <<memory, using_file, freed, puts, acked, scanning>>

EmptyAfterFlush ==
  IF Unflushed THEN buffer' = <<>> /\ write_mode' = FALSE
  ELSE UNCHANGED <<buffer, write_mode>>

Rescan ==
  /\ ~freed
  /\ \/ /\ WrittenOrLost(ToFlush) /\ Damage(ToFlush)
        /\ EmptyAfterFlush
        /\ read_pos' = 0
        /\ scanning' = TRUE
     \* fseek fails when read_pos is set already
     \/ /\ using_file
        /\ Fail /\ Written(ToFlush) /\ UNCHANGED damaged
        /\ EmptyAfterFlush
        /\ read_pos' = 0
        /\ UNCHANGED scanning
     \/ /\ Unflushed /\ FlushFails(buffer) /\ Damage(<<>>)
        /\ UNCHANGED <<buffer, write_mode, read_pos, scanning>>
  /\ UNCHANGED <<memory, using_file, buffer_start, freed, puts, acked, got,
                 misplaced>>

Free ==
  /\ ~freed
  /\ freed' = TRUE
  /\ UNCHANGED <<memory, disk, buf, read_pos, puts, failures, acked, got,
                 scanning, harm>>

Next ==
  \/ PutInMemory \/ PutWithDump \/ DumpRefused \/ DumpLoses
  \/ PutInBuffer \/ PutInFullBuffer
  \/ GetFromMemory \/ GetAtEnd \/ GetFromBuffer \/ GetAndFill \/ FillFails
  \/ Rescan \/ Free

Spec == Init /\ [][Next /\ UNCHANGED strict]_vars

-----------------------------------------------------------------------------
(* Properties.                                                              *)

TypeOK ==
  /\ tuples \in Seq(Tuples) /\ file \in Seq(Tuples) /\ buffer \in Seq(Tuples)
  /\ capacity \in Nat /\ current_memory \in Nat
  /\ using_file \in BOOLEAN /\ write_mode \in BOOLEAN
  /\ file_count \in Nat /\ buffer_start \in Nat /\ read_pos \in Nat
  /\ freed \in BOOLEAN /\ strict \in BOOLEAN /\ scanning \in BOOLEAN
  /\ damaged \in BOOLEAN /\ misplaced \in BOOLEAN
  /\ puts \in 0 .. MaxPuts /\ failures \in 0 .. MaxFailures
  /\ acked \in Seq(Tuples) /\ got \in Tuples \cup {NoTuple}

\* The array is never written beyond its end, and once it has grown the store
\* stays within its limit of memory.
ArrayFits ==
  /\ Len(tuples) <= capacity
  /\ capacity # InitialCapacity => current_memory <= MaxMemory

\* Every tuple whose put succeeded is still in the store, once and in order,
\* and file_count tells how many of them the file holds: through growth, the
\* spill, changes of buffer mode and flushes that fail and are retried, unless
\* the store is damaged.  The array that holds them is not overrun.
ContentsKept ==
  /\ TypeOK
  /\ ArrayFits
  /\ ~damaged => /\ acked = tuples \o file \o Pending
                 /\ file_count = Len(file)

\* A buffer in read mode mirrors the file from buffer_start on, whatever puts,
\* flushes and rescans came between the fill and the next read, unless a failed
\* fseek left it with an older buffer or the store is damaged.
BufferMirrorsFile ==
  using_file /\ ~write_mode /\ ~damaged /\ ~misplaced =>
    \A i \in 1 .. Len(buffer) :
      buffer_start + i <= Len(file) /\ buffer[i] = file[buffer_start + i]

\* For the strict client the store implements a sequence with a cursor, in
\* memory and on file: what a scan returns are the tuples put so far, each
\* once and in order.  What another client sees is not compared.
Seen(value, otherwise) == IF strict THEN value ELSE otherwise
Queue == INSTANCE TupleQueue WITH stored <- Seen(acked, <<>>),
                                  cursor <- Seen(read_pos, 0),
                                  got <- Seen(got, NoTuple)
IsAQueue == Queue!Spec
=============================================================================
