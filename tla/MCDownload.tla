----------------------------- MODULE MCDownload -----------------------------
(* Model-checking instance of Download: two threads stop one download. *)
EXTENDS Download

=============================================================================
