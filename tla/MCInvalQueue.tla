---------------------------- MODULE MCInvalQueue ----------------------------
(* Values for the constants of InvalQueue that a cfg file cannot write.     *)
EXTENDS InvalQueue

OneLargeClient == [b \in Backends |-> IF b = 1 THEN 2 ELSE 1]
=============================================================================
