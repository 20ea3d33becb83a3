---------------------------- MODULE ResultStream ----------------------------
(***************************************************************************)
(* What the anonymous result spool promises, without files, offsets or     *)
(* locks: one ordered stream of batches with a single, final outcome, that *)
(* any number of readers consume from the beginning, each at its own pace. *)
(* A reader learns of the end only after every batch of a complete stream. *)
(* module Spool is shown to implement this specification.                  *)
(***************************************************************************)
EXTENDS Integers, Sequences

CONSTANTS Readers,      \* the writers and copies that read one result
          BatchSizes    \* the row counts a batch may have

VARIABLES published,    \* the committed batches, oldest first
          outcome,      \* "downloading", then one of Outcomes for ever
          delivered,    \* per reader, the batches it was given
          result,       \* per reader, "reading", then "done", "stopped" or "failed"
          abandoned     \* the readers whose own job was cancelled

streamVars == <<published, outcome, delivered, result, abandoned>>

Outcomes == {"complete", "failed", "cancelled"}

Init ==
  /\ published = <<>>
  /\ outcome = "downloading"
  /\ delivered = [r \in Readers |-> <<>>]
  /\ result = [r \in Readers |-> "reading"]
  /\ abandoned = {}

\* A batch becomes visible to every reader at once.
Publish ==
  /\ outcome = "downloading"
  /\ \E n \in BatchSizes : published' = Append(published, n)
  /\ UNCHANGED <<outcome, delivered, result, abandoned>>

Close ==
  /\ outcome = "downloading"
  /\ outcome' \in Outcomes
  /\ UNCHANGED <<published, delivered, result, abandoned>>

Deliver(r) ==
  /\ result[r] = "reading"
  /\ Len(delivered[r]) < Len(published)
  /\ delivered' = [delivered EXCEPT
                     ![r] = Append(@, published[Len(delivered[r]) + 1])]
  /\ UNCHANGED <<published, outcome, result, abandoned>>

\* The end of the stream: nothing was skipped and nothing can follow.
Finish(r) ==
  /\ result[r] = "reading"
  /\ outcome = "complete"
  /\ delivered[r] = published
  /\ result' = [result EXCEPT ![r] = "done"]
  /\ UNCHANGED <<published, outcome, delivered, abandoned>>

Abandon(r) ==
  /\ abandoned' = abandoned \cup {r}
  /\ UNCHANGED <<published, outcome, delivered, result>>

\* Only a stopped result, or the reader's own job, stops a reader.
Stop(r) ==
  /\ result[r] = "reading"
  /\ outcome \in {"failed", "cancelled"} \/ r \in abandoned
  /\ result' = [result EXCEPT ![r] = "stopped"]
  /\ UNCHANGED <<published, outcome, delivered, abandoned>>

\* A reader may be unable to go on: an error of its own, which is reported as
\* one and changes nothing for the others.
Fail(r) ==
  /\ result[r] = "reading"
  /\ result' = [result EXCEPT ![r] = "failed"]
  /\ UNCHANGED <<published, outcome, delivered, abandoned>>

Next ==
  \/ Publish
  \/ Close
  \/ \E r \in Readers : Deliver(r) \/ Finish(r) \/ Stop(r) \/ Fail(r) \/ Abandon(r)

Spec == Init /\ [][Next]_streamVars

=============================================================================
