------------------------- MODULE WorkspaceRegister --------------------------
(***************************************************************************)
(* What the workspace file promises (docs/workspace.md, src/storage.rs).   *)
(* Snapshots are numbered in the order in which the edits were made. The   *)
(* file is read as one whole snapshot at any time, even after a power      *)
(* loss; it only moves on to later snapshots; and a snapshot whose save    *)
(* was acknowledged is never replaced by an older one again.               *)
(***************************************************************************)
EXTENDS Naturals

VARIABLES
  issued,     \* the number of the last edit
  value,      \* the snapshot a reader finds in the file
  survivors,  \* the snapshots a power loss may leave in it
  promised    \* the last snapshot whose save was acknowledged

registerVars == <<issued, value, survivors, promised>>

Init ==
  /\ issued = 0
  /\ value = 0
  /\ survivors = {0}
  /\ promised = 0

Issue ==
  /\ issued' = issued + 1
  /\ UNCHANGED <<value, survivors, promised>>

\* The file moves to a later snapshot, which a power loss may still undo.
Store ==
  /\ value' \in value .. issued
  /\ survivors' = survivors \cup {value'}
  /\ UNCHANGED <<issued, promised>>

Settle ==
  /\ survivors' = {value}
  /\ UNCHANGED <<issued, value, promised>>

\* Only a snapshot that every power loss leaves behind is acknowledged.
Promise ==
  /\ promised' = value
  /\ survivors = {value}
  /\ UNCHANGED <<issued, value, survivors>>

PowerLoss ==
  /\ value' \in survivors
  /\ survivors' = {value'}
  /\ UNCHANGED <<issued, promised>>

Next == Issue \/ Store \/ Settle \/ Promise \/ PowerLoss

Spec == Init /\ [][Next]_registerVars

\* The file, and whatever a power loss makes of it, is never older than a
\* snapshot whose save was acknowledged.
PromiseKept == \A s \in survivors \cup {value} : promised <= s

=============================================================================
