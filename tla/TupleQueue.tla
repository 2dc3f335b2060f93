----------------------------- MODULE TupleQueue -----------------------------
(***************************************************************************)
(* What a tuple store promises its client (tuplestore_design.md, sections 2 *)
(* and 4), wherever it keeps the tuples: a sequence that put extends and a  *)
(* cursor that get_next moves along it and rescan moves back to its start.  *)
(***************************************************************************)
EXTENDS Naturals, Sequences

CONSTANTS Tuples, NoTuple

VARIABLES
  stored,  \* the tuples whose put succeeded, in order
  cursor,  \* how many of them have been read since the last rescan
  got      \* what the last get_next returned

vars == <<stored, cursor, got>>

Init == stored = <<>> /\ cursor = 0 /\ got = NoTuple

Put(t) ==
  /\ stored' = Append(stored, t)
  /\ UNCHANGED <<cursor, got>>

GetNext ==
  /\ \/ /\ cursor < Len(stored)
        /\ got' = stored[cursor + 1]
        /\ cursor' = cursor + 1
     \/ /\ cursor = Len(stored)
        /\ got' = NoTuple
        /\ UNCHANGED cursor
  /\ UNCHANGED stored

Rescan ==
  /\ cursor' = 0
  /\ UNCHANGED <<stored, got>>

Next == (\E t \in Tuples : Put(t)) \/ GetNext \/ Rescan

Spec == Init /\ [][Next]_vars
=============================================================================
