------------------------------ MODULE PipeFifo ------------------------------
(***************************************************************************)
(* src/syslog_demo/pipe_demo.c, simulate_fifo: a parent writes messages     *)
(* into a real pipe, closes it and waits for its child, which reads a fixed *)
(* number of times or to the end of the file.  The pipe is the kernel's: a  *)
(* read waits for data or the end of the file and takes all there is, all   *)
(* messages together being shorter than its buffer of 1024 bytes; a write   *)
(* when no reader is left kills the writer (SIGPIPE).                       *)
(***************************************************************************)
EXTENDS Integers, Sequences

CONSTANTS
  Messages,  \* how many messages the parent writes
  Reads      \* how often the child reads

ASSUME FifoAssumption == Messages \in Nat /\ Reads \in Nat

VARIABLES
  parent,   \* "writing", "waiting" (has closed its end), "done" or "killed"
  sent,     \* messages written, or tried
  fifo,     \* the messages in the pipe
  child,    \* "reading" or "exited"
  reads,    \* iterations of the child's loop
  received  \* history: the messages the child has read

fifoVars == <<parent, sent, fifo, child, reads, received>>

FifoInit ==
  /\ parent = "writing" /\ sent = 0 /\ fifo = <<>>
  /\ child = "reading" /\ reads = 0 /\ received = <<>>

ParentWrites ==
  /\ parent = "writing" /\ sent < Messages
  /\ sent' = sent + 1
  /\ \/ /\ child = "reading"
        /\ fifo' = Append(fifo, sent')
        /\ UNCHANGED parent
     \/ /\ child = "exited"
        /\ parent' = "killed"
        /\ UNCHANGED fifo
  /\ UNCHANGED <<child, reads, received>>

\* close(pipefd[1]), then wait(NULL)
ParentCloses ==
  /\ parent = "writing" /\ sent = Messages
  /\ parent' = "waiting"
  /\ UNCHANGED <<sent, fifo, child, reads, received>>

ParentEnds ==
  /\ parent = "waiting" /\ child = "exited"
  /\ parent' = "done"
  /\ UNCHANGED <<sent, fifo, child, reads, received>>

\* Mutant: the loop ends one read earlier.
IsLastReadEarly(n) == n = Reads - 1

\* for (i = 0; i < 5; i++)
IsLastRead(n) == n = Reads

\* One read.
ChildReads ==
  /\ child = "reading" /\ fifo # <<>>
  /\ received' = received \o fifo
  /\ fifo' = <<>>
  /\ reads' = reads + 1
  /\ child' = IF IsLastRead(reads') THEN "exited" ELSE "reading"
  /\ UNCHANGED <<parent, sent>>

\* read returns 0: every writer has closed.
ChildSeesEnd ==
  /\ child = "reading" /\ fifo = <<>> /\ parent # "writing"
  /\ child' = "exited"
  /\ UNCHANGED <<parent, sent, fifo, reads, received>>

FifoNext ==
  \/ ParentWrites \/ ParentCloses \/ ParentEnds
  \/ ChildReads \/ ChildSeesEnd

FifoSpec == FifoInit /\ [][FifoNext]_fifoVars

-----------------------------------------------------------------------------

\* However the sleeps of the two let reads and writes interleave, and however
\* many messages a read finds, the child that leaves has read all of them in
\* order: its loop is long enough, so the parent never writes to a pipe that
\* has no reader.
ChildGetsAll ==
  child = "exited" => received = [i \in 1 .. Messages |-> i]
=============================================================================
