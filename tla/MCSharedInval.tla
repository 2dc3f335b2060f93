--------------------------- MODULE MCSharedInval ---------------------------
(* Values for the constants of SharedInval that a cfg file cannot write.    *)
EXTENDS SharedInval

OneDatabase == [b \in Slots |-> 1]
=============================================================================
