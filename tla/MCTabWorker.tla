---------------------------- MODULE MCTabWorker -----------------------------
(* Model-checking instances of TabWorker. *)
EXTENDS TabWorker

=============================================================================
