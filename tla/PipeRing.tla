------------------------------ MODULE PipeRing ------------------------------
(***************************************************************************)
(* src/syslog_demo/pipe_demo.c, the pipe as a circular buffer: init,        *)
(* pipe_write and pipe_read.  A call is one step: writer and reader are the *)
(* same process.  The loops over the bytes are closed forms: byte k of a    *)
(* call goes to, or comes from, the slot k places after the position.       *)
(***************************************************************************)
EXTENDS Integers, Sequences

CONSTANTS
  BUFFER_SIZE,
  Bytes,       \* what the buffer holds; NUL, the byte of memset, is one
  NUL,
  MaxCall      \* bound: bytes a call asks for

ASSUME PipeAssumption ==
  /\ BUFFER_SIZE \in Nat \ {0}
  /\ NUL \in Bytes
  /\ MaxCall \in Nat

VARIABLES
  ring,       \* buffer[0 .. BUFFER_SIZE - 1]
  read_pos, write_pos, data_size,
  passed      \* what the last call wrote or read (its length is the result)

pipeVars == <<ring, read_pos, write_pos, data_size, passed>>

Positions == 0 .. BUFFER_SIZE - 1

\* init_pipe_buffer
PipeInit ==
  /\ ring = [p \in Positions |-> NUL]
  /\ read_pos = 0 /\ write_pos = 0 /\ data_size = 0
  /\ passed = <<>>

-----------------------------------------------------------------------------

\* Mutant: the last slot is left out of the circle.
AfterShort(p, n) ==
  IF BUFFER_SIZE = 1 THEN 0 ELSE (p + n) % (BUFFER_SIZE - 1)

\* The position n places after p, n steps of (pos + 1) % BUFFER_SIZE.
After(p, n) == (p + n) % BUFFER_SIZE

\* The ring once the bytes of s are stored from position p on.
Stored(p, s) ==
  [q \in Positions |-> LET k == (q - p) % BUFFER_SIZE
                       IN  IF k < Len(s) THEN s[k + 1] ELSE ring[q]]

\* How many of n bytes a call transfers when there is room or data for m.
Transfer(n, m) == IF n < m THEN n ELSE m

\* pipe_write: nothing when the pipe is full, else as much as fits.
PipeWrite(data) ==
  LET n == IF data_size >= BUFFER_SIZE THEN 0
           ELSE Transfer(Len(data), BUFFER_SIZE - data_size)
  IN  /\ passed' = SubSeq(data, 1, n)
      /\ ring' = Stored(write_pos, SubSeq(data, 1, n))
      /\ write_pos' = After(write_pos, n)
      /\ data_size' = data_size + n
      /\ UNCHANGED read_pos

\* pipe_read: nothing when the pipe is empty, else at most max_len bytes.
PipeRead(max_len) ==
  LET n == IF data_size = 0 THEN 0 ELSE Transfer(max_len, data_size)
  IN  /\ passed' = [k \in 1 .. n |-> ring[After(read_pos, k - 1)]]
      /\ read_pos' = After(read_pos, n)
      /\ data_size' = data_size - n
      /\ UNCHANGED <<ring, write_pos>>

Requests == UNION {[1 .. n -> Bytes \ {NUL}] : n \in 0 .. MaxCall}

PipeNext ==
  \/ \E data \in Requests : PipeWrite(data)
  \/ \E max_len \in 0 .. MaxCall : PipeRead(max_len)

PipeSpec == PipeInit /\ [][PipeNext]_pipeVars

-----------------------------------------------------------------------------
(* Properties.                                                              *)

PipeTypeOK ==
  /\ ring \in [Positions -> Bytes]
  /\ read_pos \in Positions /\ write_pos \in Positions
  /\ data_size \in 0 .. BUFFER_SIZE
  /\ passed \in Seq(Bytes)

\* The two positions are data_size apart: the counter and the positions, which
\* pipe_write and pipe_read move separately, never disagree, so full and empty
\* (the positions are equal in both) are not mistaken for each other.
PositionsAgree == write_pos = After(read_pos, data_size)

\* The bytes that are in the pipe, oldest first.
Held == [i \in 1 .. data_size |-> ring[After(read_pos, i - 1)]]

\* However writes and reads of any size alternate, and wherever the positions
\* wrap, the buffer is a first-in first-out pipe: no byte is lost, repeated,
\* overtaken or made up, and a call transfers all it can.
Pipe == INSTANCE ByteQueue
          WITH content <- Held, moved <- passed, Capacity <- BUFFER_SIZE,
               Writes <- Requests, Sizes <- 0 .. MaxCall
IsAPipe == Pipe!Spec
=============================================================================
