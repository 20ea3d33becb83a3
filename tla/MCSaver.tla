------------------------------ MODULE MCSaver -------------------------------
(* Model-checking instance of Saver: two processes share one workspace. *)
EXTENDS Saver

=============================================================================
