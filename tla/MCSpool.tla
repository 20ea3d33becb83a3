------------------------------ MODULE MCSpool -------------------------------
(* Model-checking instance of Spool: two readers of a short result. *)
EXTENDS Spool

MCBatchSizes == {1, 2}

=============================================================================
