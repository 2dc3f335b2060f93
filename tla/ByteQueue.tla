----------------------------- MODULE ByteQueue -----------------------------
(***************************************************************************)
(* What a pipe promises the two ends of src/syslog_demo/pipe_demo.c: a      *)
(* bounded first-in first-out sequence of bytes that takes as much of a     *)
(* write as it has room for and gives as much to a read as it holds.        *)
(***************************************************************************)
EXTENDS Integers, Sequences

CONSTANTS
  Capacity,
  Writes,  \* the sequences of bytes that may be written
  Sizes    \* how much may be asked of a read

VARIABLES
  content,  \* the bytes written and not yet read
  moved     \* the bytes that the last call transferred

vars == <<content, moved>>

Least(a, b) == IF a < b THEN a ELSE b

Init == content = <<>> /\ moved = <<>>

Write(data) ==
  /\ moved' = SubSeq(data, 1, Least(Len(data), Capacity - Len(content)))
  /\ content' = content \o moved'

Read(max_len) ==
  /\ moved' = SubSeq(content, 1, Least(max_len, Len(content)))
  /\ content' = SubSeq(content, Len(moved') + 1, Len(content))

Next ==
  \/ \E data \in Writes : Write(data)
  \/ \E max_len \in Sizes : Read(max_len)

Spec == Init /\ [][Next]_vars
=============================================================================
