----------------------------- MODULE JobsProofs -----------------------------
(***************************************************************************)
(* The invariant of the export registry, for any exports, connections and  *)
(* limits, and what follows from it.  Each part of JobsInv has a lemma     *)
(* with one step per action.                                               *)
(***************************************************************************)
EXTENDS Jobs, TLAPS, FiniteSetTheorems

JobState == [profile : Profiles \cup {NoProfile}, onCancel : BOOLEAN, remaining : Nat]

ExportState == [pc : ExportPcs, call : Call]

\* The guards of an export are finitely many, and adding or dropping one counts.
LEMMA HoldersCount ==
  ASSUME JobsInv, NEW e \in Exports
  PROVE  /\ IsFiniteSet(holders[e])
         /\ Alive(e) <=> holders[e] # {}
         /\ \A s \in Stages \ holders[e] :
              Cardinality(holders[e] \cup {s}) = job[e].remaining + 1
         /\ \A s \in holders[e] :
              /\ job[e].remaining > 0
              /\ Cardinality(holders[e] \ {s}) = job[e].remaining - 1
<1>1. IsFiniteSet(Stages)
  <2>1. Stages = (({} \cup {"writer"}) \cup {"producer"}) \cup {"bound"}
    BY DEF Stages
  <2> QED
    BY <2>1, FS_EmptySet, FS_AddElement
<1>2. holders[e] \in SUBSET Stages
  BY DEF JobsInv, TypeOK
<1>3. IsFiniteSet(holders[e])
  BY <1>1, <1>2, FS_Subset
<1>4. job[e].remaining = Cardinality(holders[e]) /\ Cardinality(holders[e]) \in Nat
  BY <1>3, FS_CardinalityType DEF JobsInv, Counted
<1>5. Cardinality(holders[e]) = 0 <=> holders[e] = {}
  BY <1>3, FS_EmptySet
<1>6. Alive(e) <=> holders[e] # {}
  BY <1>4, <1>5 DEF Alive
<1>7. \A s \in Stages \ holders[e] :
        Cardinality(holders[e] \cup {s}) = job[e].remaining + 1
  BY <1>3, <1>4, FS_AddElement
<1>8. \A s \in holders[e] : Cardinality(holders[e] \ {s}) = job[e].remaining - 1
  BY <1>3, <1>4, FS_RemoveElement
<1> QED
  BY <1>3, <1>4, <1>5, <1>6, <1>7, <1>8

\* Moving the program counter of an export keeps the types.
LEMMA ExportToType ==
  ASSUME TypeOK, NEW e \in Exports, NEW pc \in ExportPcs, ExportTo(e, pc)
  PROVE  export' \in [Exports -> ExportState]
<1>1. export \in [Exports -> ExportState]
  BY DEF TypeOK, ExportState
<1>2. [export[e] EXCEPT !.pc = pc] \in ExportState
  BY <1>1 DEF ExportState
<1> QED
  BY <1>1, <1>2 DEF ExportTo

\* Every step keeps the types.
LEMMA TypeKept == JobsInv /\ [Next]_vars => TypeOK'
<1> SUFFICES ASSUME JobsInv, [Next]_vars PROVE TypeOK'
  OBVIOUS
<1>1. ASSUME NEW e \in Exports, Admit(e) PROVE TypeOK'
  BY <1>1 DEF Admit, history, JobsInv, TypeOK, Call, Stages, ExportPcs
<1>2. ASSUME NEW e \in Exports, Attach(e) PROVE TypeOK'
  BY <1>2 DEF Attach, history, JobsInv, TypeOK, Call, Stages, ExportPcs
<1>3. ASSUME NEW e \in Exports, Retain(e) PROVE TypeOK'
  BY <1>3, JobsAssumption DEF Retain, JobsInv, TypeOK, ExportPcs, ExportTo
<1>4. ASSUME NEW e \in Exports, RefuseStage(e) PROVE TypeOK'
  <2>1. export' \in [Exports -> ExportState]
    BY <1>4, ExportToType DEF RefuseStage, Refused, ExportPcs, JobsInv
  <2> QED
    BY <1>4, <2>1 DEF RefuseStage, history, JobsInv, TypeOK, ExportState,
       JobState
<1>5. ASSUME NEW e \in Exports, Join(e) PROVE TypeOK'
  <2>1. export' \in [Exports -> ExportState]
    BY <1>5, ExportToType DEF Join, Refused, ExportPcs, JobsInv
  <2>2. job' \in [Exports -> JobState]
    <3>1. job \in [Exports -> JobState]
      BY DEF JobsInv, TypeOK, JobState
    <3>2. job[e] \in JobState /\ job[e].remaining + 1 \in Nat
      BY <3>1 DEF JobState
    <3>3. [job[e] EXCEPT !.remaining = @ + 1] \in JobState
      BY <3>2 DEF JobState
    <3>4. [[job[e] EXCEPT !.remaining = @ + 1] EXCEPT !.onCancel = TRUE] \in JobState
      BY <3>3 DEF JobState
    <3>5. CASE export[e].call.stage = "producer"
      <4>1. job' = [job EXCEPT ![e] =
                      [[job[e] EXCEPT !.remaining = @ + 1] EXCEPT !.onCancel = TRUE]]
        BY <1>5, <3>1, <3>2, <3>5 DEF Join, JobState
      <4> QED
        BY <4>1, <3>1, <3>4
    <3>6. CASE export[e].call.stage # "producer"
      <4>1. job' = [job EXCEPT ![e] = [job[e] EXCEPT !.remaining = @ + 1]]
        BY <1>5, <3>1, <3>2, <3>6 DEF Join, JobState
      <4> QED
        BY <4>1, <3>1, <3>3
    <3> QED
      BY <3>5, <3>6
  <2> QED
    BY <1>5, <2>1, <2>2 DEF Join, history, JobsInv, TypeOK, ExportState,
       JobState, Call
<1>6. ASSUME NEW e \in Exports, RefuseJob(e) PROVE TypeOK'
  BY <1>6, JobsAssumption DEF RefuseJob, history, JobsInv, TypeOK, ExportPcs,
     ExportTo, Refused
<1>7. ASSUME NEW e \in Exports, Open(e) PROVE TypeOK'
  <2>1. export' \in [Exports -> ExportState]
    BY <1>7, ExportToType DEF Open, Refused, ExportPcs, JobsInv
  <2> QED
    BY <1>7, <2>1 DEF Open, history, JobsInv, TypeOK, ExportState, Call, Stages
<1>8. ASSUME NEW e \in Exports, Request(e) PROVE TypeOK'
  <2>1. export' \in [Exports -> ExportState]
    BY <1>8, ExportToType DEF Request, Refused, ExportPcs, JobsInv
  <2> QED
    BY <1>8, <2>1 DEF Request, history, JobsInv, TypeOK, ExportState, JobState
<1>9. ASSUME NEW e \in Exports, Dispatch(e) PROVE TypeOK'
  BY <1>9, JobsAssumption DEF Dispatch, JobsInv, TypeOK, ExportPcs, ExportTo
<1>10. ASSUME NEW e \in Exports, Settle(e) PROVE TypeOK'
  <2>1. export' \in [Exports -> ExportState]
    BY <1>10, ExportToType DEF Settle, Refused, ExportPcs, JobsInv
  <2> QED
    BY <1>10, <2>1 DEF Settle, history, JobsInv, TypeOK, ExportState, JobState
<1>11. ASSUME NEW e \in Exports, Fork(e) PROVE TypeOK'
  <2>1. export' \in [Exports -> ExportState]
    BY <1>11, ExportToType DEF Fork, Refused, ExportPcs, JobsInv
  <2>2. job' \in [Exports -> JobState]
    <3>1. job \in [Exports -> JobState]
      BY DEF JobsInv, TypeOK, JobState
    <3>2. [job[e] EXCEPT !.remaining = @ + 1] \in JobState
      BY <3>1 DEF JobState
    <3> QED
      BY <1>11, <3>1, <3>2 DEF Fork
  <2> QED
    BY <1>11, <2>1, <2>2 DEF Fork, history, JobsInv, TypeOK, ExportState,
       JobState, Stages
<1>12. ASSUME NEW e \in Exports, Drop(e) PROVE TypeOK'
  <2>1. job' \in [Exports -> JobState]
    <3>1. job \in [Exports -> JobState] /\ job[e].remaining > 0
      BY <1>12, HoldersCount DEF JobsInv, TypeOK, JobState, Drop
    <3>2. [job[e] EXCEPT !.remaining = @ - 1] \in JobState
      BY <3>1 DEF JobState
    <3> QED
      BY <1>12, <3>1, <3>2 DEF Drop
  <2> QED
    BY <1>12, <2>1 DEF Drop, history, JobsInv, TypeOK, ExportState, JobState
<1>13. ASSUME NEW e \in Exports, CancelFlag(e) PROVE TypeOK'
  BY <1>13 DEF CancelFlag, history, JobsInv, TypeOK
<1>14. CASE Cancel
  BY <1>14 DEF Cancel, JobsInv, TypeOK, StopperPcs
<1>15. CASE CancelAndWait
  BY <1>15 DEF CancelAndWait, JobsInv, TypeOK, StopperPcs
<1>16. CASE StoreFlag
  <2>1. PICK j \in stopper.todo :
          /\ flag' = [flag EXCEPT ![j] = TRUE]
          /\ stopper' = [stopper EXCEPT !.at = j]
    BY <1>16 DEF StoreFlag
  <2> QED
    BY <1>16, <2>1 DEF StoreFlag, history, JobsInv, TypeOK
<1>17. CASE CallBack
  BY <1>17 DEF CallBack, JobsInv, TypeOK
<1>18. CASE EndPass
  BY <1>18 DEF EndPass, history, JobsInv, TypeOK, StopperPcs
<1>19. CASE AwaitJob
  <2>1. PICK j \in stopper.todo :
          stopper' = IF Alive(j) THEN [stopper EXCEPT !.pc = "expired"]
                     ELSE [stopper EXCEPT !.todo = @ \ {j}]
    BY <1>19 DEF AwaitJob
  <2>2. stopper' \in [pc : StopperPcs, jobs : SUBSET Exports,
                      todo : SUBSET Exports, at : Exports \cup {Free}]
    BY <2>1 DEF JobsInv, TypeOK, StopperPcs
  <2> QED
    BY <1>19, <2>2 DEF AwaitJob, history, JobsInv, TypeOK
<1>20. CASE Return
  BY <1>20 DEF Return, history, JobsInv, TypeOK, StopperPcs
<1>21. CASE ActiveCount
  BY <1>21 DEF ActiveCount, history, JobsInv, TypeOK
<1>22. CASE UNCHANGED vars
  BY <1>22 DEF vars, JobsInv, TypeOK
<1> QED
  BY <1>1, <1>2, <1>3, <1>4, <1>5, <1>6, <1>7, <1>8, <1>9, <1>10, <1>11, <1>12,
     <1>13, <1>14, <1>15, <1>16, <1>17, <1>18, <1>19, <1>20, <1>21, <1>22 DEF
     Next, Register, Stage, StopJobs

\* An export that opens its job has no guard yet: a later stage would join.
LEMMA OpensFresh ==
  ASSUME JobsInv, NEW e \in Exports, Open(e)
  PROVE  /\ ~Opened(e)
         /\ holders[e] = {}
         /\ job[e].remaining = 0
         /\ Cardinality({export[e].call.stage}) = 1
         /\ export[e].call.stage = "writer"
<1>1. ~Opened(e)
  <2> SUFFICES ASSUME Opened(e) PROVE FALSE
    OBVIOUS
  <2>1. holders[e] = {"writer"}
    BY DEF JobsInv, Staged, Open, Locked, ExportAt
  <2> QED
    BY <2>1, HoldersCount DEF JobsInv, Counted, Open, Joins
<1>2. holders[e] = {}
  BY <1>1 DEF JobsInv, Staged
<1>3. job[e].remaining = 0
  BY <1>2, FS_EmptySet DEF JobsInv, Counted
<1>4. Cardinality({export[e].call.stage}) = 1
  <2> DEFINE x == export[e].call.stage
  <2>1. IsFiniteSet({}) /\ Cardinality({}) = 0
    BY FS_EmptySet
  <2>2. Cardinality({} \cup {x}) = Cardinality({}) + 1
    BY <2>1, FS_AddElement
  <2>3. {} \cup {x} = {x}
    OBVIOUS
  <2> QED
    BY <2>1, <2>2, <2>3
<1>5. export[e].call.stage = "writer"
  BY <1>1 DEF Opened, JobsInv, Staged, TypeOK, Call, Stages, Open, Locked,
     ExportAt
<1> QED
  BY <1>1, <1>2, <1>3, <1>4, <1>5

\* A stage that joins is the download, and only the dialog's guard is there.
LEMMA JoinsWriter ==
  ASSUME JobsInv, NEW e \in Exports, Join(e)
  PROVE  /\ Opened(e)
         /\ holders[e] = {"writer"}
         /\ export[e].call.stage = "producer"
<1>1. Opened(e)
  BY DEF JobsInv, Staged, Join, Joins
<1>2. holders[e] = {"writer"}
  BY <1>1 DEF JobsInv, Staged, Join, Locked, ExportAt
<1>3. export[e].call.stage = "producer"
  BY <1>1 DEF Opened, Join, Locked, ExportAt
<1> QED
  BY <1>1, <1>2, <1>3

\* Every step keeps the guards counted and the jobs listed.
LEMMA CountedKept == JobsInv /\ [Next]_vars => Counted'
<1> SUFFICES ASSUME JobsInv, [Next]_vars PROVE Counted'
  OBVIOUS
<1>1. ASSUME NEW e \in Exports, Admit(e) PROVE Counted'
  BY <1>1 DEF Admit, JobsInv, Alive, Counted
<1>2. ASSUME NEW e \in Exports, Attach(e) PROVE Counted'
  BY <1>2 DEF Attach, JobsInv, Alive, Counted
<1>3. ASSUME NEW e \in Exports, Retain(e) PROVE Counted'
  <2>1. registry'.jobs = {j \in registry.jobs : Alive(j)}
    BY <1>3 DEF Retain, JobsInv, TypeOK
  <2>2. IsFiniteSet(registry'.jobs)
    BY <2>1, FS_Subset DEF JobsInv, Counted
  <2> QED
    BY <1>3, <2>1, <2>2 DEF Retain, JobsInv, Counted, Alive
<1>4. ASSUME NEW e \in Exports, RefuseStage(e) PROVE Counted'
  BY <1>4 DEF RefuseStage, JobsInv, Alive, Counted
<1>5. ASSUME NEW e \in Exports, Join(e) PROVE Counted'
  <2>1. "producer" \in Stages \ holders[e]
    BY <1>5, JoinsWriter DEF Stages
  <2>2. holders' = [holders EXCEPT ![e] = @ \cup {"producer"}]
    BY <1>5, JoinsWriter DEF Join
  <2>3. Cardinality(holders'[e]) = job[e].remaining + 1
    BY <2>1, <2>2, HoldersCount DEF JobsInv, TypeOK
  <2>4. job'[e].remaining = job[e].remaining + 1
    BY <1>5 DEF Join, JobsInv, TypeOK
  <2>5. \A j \in Exports \ {e} :
          job'[j].remaining = job[j].remaining /\ holders'[j] = holders[j]
    BY <1>5, <2>2 DEF Join, JobsInv, TypeOK
  <2>6. e \in registry.jobs /\ registry' = registry
    BY <1>5 DEF Join, Joins
  <2> QED
    BY <2>3, <2>4, <2>5, <2>6 DEF JobsInv, Counted, Alive
<1>6. ASSUME NEW e \in Exports, RefuseJob(e) PROVE Counted'
  BY <1>6 DEF RefuseJob, JobsInv, Alive, Counted
<1>7. ASSUME NEW e \in Exports, Open(e) PROVE Counted'
  <2>1. Cardinality(holders'[e]) = 1 /\ job'[e].remaining = 1
    <3>1. holders'[e] = {export[e].call.stage}
      BY <1>7, OpensFresh DEF Open, JobsInv, TypeOK
    <3> QED
      BY <1>7, <3>1, OpensFresh DEF Open, JobsInv, TypeOK
  <2>2. \A j \in Exports \ {e} :
          job'[j].remaining = job[j].remaining /\ holders'[j] = holders[j]
    BY <1>7 DEF Open, JobsInv, TypeOK
  <2>3. registry'.jobs = registry.jobs \cup {e}
    BY <1>7 DEF Open, JobsInv, TypeOK
  <2>4. IsFiniteSet(registry'.jobs)
    BY <2>3, FS_AddElement DEF JobsInv, Counted
  <2> QED
    BY <2>1, <2>2, <2>3, <2>4 DEF JobsInv, Counted, Alive
<1>8. ASSUME NEW e \in Exports, Request(e) PROVE Counted'
  BY <1>8 DEF Request, JobsInv, Alive, Counted
<1>9. ASSUME NEW e \in Exports, Dispatch(e) PROVE Counted'
  BY <1>9 DEF Dispatch, JobsInv, Alive, Counted
<1>10. ASSUME NEW e \in Exports, Settle(e) PROVE Counted'
  BY <1>10 DEF Settle, JobsInv, Alive, Counted
<1>11. ASSUME NEW e \in Exports, Fork(e) PROVE Counted'
  <2>1. "bound" \in Stages \ holders[e] /\ holders[e] # {}
    BY <1>11 DEF Stages, Fork, JobsInv, Staged, ExportAt
  <2>2. Cardinality(holders'[e]) = job[e].remaining + 1
    BY <1>11, <2>1, HoldersCount DEF Fork, JobsInv, TypeOK
  <2>3. job'[e].remaining = job[e].remaining + 1
    BY <1>11 DEF Fork, JobsInv, TypeOK
  <2>4. \A j \in Exports \ {e} :
          job'[j].remaining = job[j].remaining /\ holders'[j] = holders[j]
    BY <1>11 DEF Fork, JobsInv, TypeOK
  <2>5. e \in registry.jobs /\ registry' = registry
    BY <1>11, <2>1, HoldersCount DEF Fork, JobsInv, Counted
  <2> QED
    BY <2>2, <2>3, <2>4, <2>5 DEF JobsInv, Counted, Alive
<1>12. ASSUME NEW e \in Exports, Drop(e) PROVE Counted'
  BY <1>12, HoldersCount DEF Drop, JobsInv, TypeOK, Alive, Counted
<1>13. ASSUME NEW e \in Exports, CancelFlag(e) PROVE Counted'
  BY <1>13 DEF CancelFlag, JobsInv, Alive, Counted
<1>14. CASE Cancel
  BY <1>14 DEF Cancel, JobsInv, Alive, Counted
<1>15. CASE CancelAndWait
  BY <1>15 DEF CancelAndWait, JobsInv, Alive, Counted
<1>16. CASE StoreFlag
  BY <1>16 DEF StoreFlag, JobsInv, Alive, Counted
<1>17. CASE CallBack
  BY <1>17 DEF CallBack, JobsInv, Alive, Counted
<1>18. CASE EndPass
  BY <1>18 DEF EndPass, JobsInv, Alive, Counted
<1>19. CASE AwaitJob
  BY <1>19 DEF AwaitJob, JobsInv, Alive, Counted
<1>20. CASE Return
  BY <1>20 DEF Return, JobsInv, Alive, Counted
<1>21. CASE ActiveCount
  <2>1. registry'.jobs = {j \in registry.jobs : Alive(j)}
    BY <1>21 DEF ActiveCount, JobsInv, TypeOK
  <2>2. IsFiniteSet(registry'.jobs)
    BY <2>1, FS_Subset DEF JobsInv, Counted
  <2> QED
    BY <1>21, <2>1, <2>2 DEF ActiveCount, history, JobsInv, Counted, Alive
<1>22. CASE UNCHANGED vars
  BY <1>22 DEF vars, JobsInv, Alive, Counted
<1> QED
  BY <1>1, <1>2, <1>3, <1>4, <1>5, <1>6, <1>7, <1>8, <1>9, <1>10, <1>11, <1>12,
     <1>13, <1>14, <1>15, <1>16, <1>17, <1>18, <1>19, <1>20, <1>21, <1>22 DEF
     Next, Register, Stage, StopJobs

\* Every step keeps the order in which a dialog registers its stages.
LEMMA StagedKept == JobsInv /\ [Next]_vars => Staged'
<1> SUFFICES ASSUME JobsInv, [Next]_vars PROVE Staged'
  OBVIOUS
<1>1. ASSUME NEW e \in Exports, Admit(e) PROVE Staged'
  BY <1>1, HoldersCount, JobsAssumption DEF Admit, history, JobsInv, TypeOK,
     Alive, Of, Counted, Staged, Opened, Locked, Joins, Call, Stages, ExportTo,
     ExportAt, StopperAt, Passing, Refused
<1>2. ASSUME NEW e \in Exports, Attach(e) PROVE Staged'
  BY <1>2, JobsAssumption DEF Attach, history, JobsInv, Staged, Opened,
     ExportAt
<1>3. ASSUME NEW e \in Exports, Retain(e) PROVE Staged'
  BY <1>3, JobsAssumption DEF Retain, JobsInv, TypeOK, Staged, Opened,
     ExportTo, ExportAt
<1>4. ASSUME NEW e \in Exports, RefuseStage(e) PROVE Staged'
  BY <1>4, JobsAssumption DEF RefuseStage, history, JobsInv, TypeOK, Staged,
     Opened, Locked, ExportTo, ExportAt, Refused
<1>5. ASSUME NEW e \in Exports, Join(e) PROVE Staged'
  BY <1>5, JobsAssumption DEF Join, history, JobsInv, TypeOK, Staged, Opened,
     Locked, ExportTo, ExportAt
<1>6. ASSUME NEW e \in Exports, RefuseJob(e) PROVE Staged'
  BY <1>6, JobsAssumption DEF RefuseJob, history, JobsInv, TypeOK, Staged,
     Opened, Locked, ExportTo, ExportAt, Refused
<1>7. ASSUME NEW e \in Exports, Open(e) PROVE Staged'
  <2>1. /\ holders'[e] = {"writer"} /\ job'[e].onCancel = FALSE
        /\ export'[e].call = export[e].call
        /\ export'[e].pc \in {"request", "admitted"}
    <3>1. holders[e] = {} /\ export[e].call.stage = "writer"
      BY <1>7, OpensFresh
    <3>2. holders'[e] = {"writer"}
      BY <1>7, <3>1 DEF Open, JobsInv, TypeOK
    <3>3. job'[e].onCancel = FALSE
      BY <1>7, <3>1 DEF Open, JobsInv, TypeOK
    <3>4. export'[e].call = export[e].call
      BY <1>7 DEF Open, JobsInv, TypeOK, ExportTo
    <3>5. export'[e].pc \in {"request", "admitted"}
      BY <1>7 DEF Open, JobsInv, TypeOK, ExportTo
    <3> QED
      BY <3>2, <3>3, <3>4, <3>5
  <2>2. \A j \in Exports \ {e} :
          holders'[j] = holders[j] /\ job'[j] = job[j] /\ export'[j] = export[j]
    BY <1>7 DEF Open, JobsInv, TypeOK, ExportTo
  <2>3. /\ registry'.jobs = registry.jobs \cup {e}
        /\ stopper' = stopper /\ asked' = asked
        /\ lock' = Free /\ lock = e
    BY <1>7 DEF Open, Locked, history, JobsInv, TypeOK
  <2>4. export[e].call.stage = "writer"
        /\ (export[e].call.profile = NoProfile => export[e].call.limit = 0)
    BY OpensFresh, <1>7 DEF JobsInv, Staged
  <2> QED
    BY <2>1, <2>2, <2>3, <2>4, JobsAssumption DEF JobsInv, Staged, Opened,
       ExportAt
<1>8. ASSUME NEW e \in Exports, Request(e) PROVE Staged'
  BY <1>8 DEF Request, JobsInv, Staged, Opened, ExportTo, ExportAt
<1>9. ASSUME NEW e \in Exports, Dispatch(e) PROVE Staged'
  BY <1>9 DEF Dispatch, JobsInv, Staged, Opened, ExportTo, ExportAt
<1>10. ASSUME NEW e \in Exports, Settle(e) PROVE Staged'
  <2>1. CASE ExportAt(e, "admitted") /\ ExportTo(e, "settled")
    BY <1>10, <2>1 DEF Settle, history, JobsInv, Staged, Opened, ExportTo,
       ExportAt
  <2>2. CASE ExportAt(e, "new") /\ ExportTo(e, "ended")
    BY <1>10, <2>2 DEF Settle, history, JobsInv, Staged, Opened, ExportTo,
       ExportAt
  <2> QED
    BY <1>10, <2>1, <2>2 DEF Settle
<1>11. ASSUME NEW e \in Exports, Fork(e) PROVE Staged'
  BY <1>11 DEF Fork, history, JobsInv, TypeOK, Staged, Opened, ExportTo,
     ExportAt
<1>12. ASSUME NEW e \in Exports, Drop(e) PROVE Staged'
  BY <1>12 DEF Drop, history, JobsInv, Staged, Opened, ExportAt
<1>13. ASSUME NEW e \in Exports, CancelFlag(e) PROVE Staged'
  BY <1>13 DEF CancelFlag, history, JobsInv, Staged, Opened, ExportAt
<1>14. CASE Cancel
  BY <1>14 DEF Cancel, JobsInv, Staged, Opened, ExportAt
<1>15. CASE CancelAndWait
  BY <1>15 DEF CancelAndWait, JobsInv, Staged, Opened, ExportAt
<1>16. CASE StoreFlag
  BY <1>16 DEF StoreFlag, history, JobsInv, Staged, Opened, ExportAt
<1>17. CASE CallBack
  BY <1>17 DEF CallBack, JobsInv, Staged, Opened, ExportAt
<1>18. CASE EndPass
  BY <1>18 DEF EndPass, history, JobsInv, Staged, Opened, ExportAt
<1>19. CASE AwaitJob
  <2>1. UNCHANGED <<lock, export, holders, job, registry, asked, stopper.jobs>>
    BY <1>19 DEF AwaitJob, history, JobsInv, TypeOK
  <2> QED
    BY <2>1 DEF JobsInv, Staged, Opened, ExportAt
<1>20. CASE Return
  BY <1>20 DEF Return, history, JobsInv, Staged, Opened, ExportAt
<1>21. CASE ActiveCount
  BY <1>21 DEF ActiveCount, history, JobsInv, Staged, Opened, ExportAt
<1>22. CASE UNCHANGED vars
  BY <1>22 DEF vars, JobsInv, Staged, Opened, ExportAt
<1> QED
  BY <1>1, <1>2, <1>3, <1>4, <1>5, <1>6, <1>7, <1>8, <1>9, <1>10, <1>11, <1>12,
     <1>13, <1>14, <1>15, <1>16, <1>17, <1>18, <1>19, <1>20, <1>21, <1>22 DEF
     Next, Register, Stage, StopJobs

\* Every step keeps a listed job flagged, or on the stopping thread's list.
LEMMA FlaggedKept == JobsInv /\ [Next]_vars => Flagged'
<1> SUFFICES ASSUME JobsInv, [Next]_vars PROVE Flagged'
  OBVIOUS
<1>1. ASSUME NEW e \in Exports, Admit(e) PROVE Flagged'
  BY <1>1 DEF Admit, history, JobsInv, Flagged, Passing
<1>2. ASSUME NEW e \in Exports, Attach(e) PROVE Flagged'
  BY <1>2 DEF Attach, history, JobsInv, Flagged, Passing
<1>3. ASSUME NEW e \in Exports, Retain(e) PROVE Flagged'
  BY <1>3 DEF Retain, JobsInv, Flagged, Passing
<1>4. ASSUME NEW e \in Exports, RefuseStage(e) PROVE Flagged'
  BY <1>4 DEF RefuseStage, history, JobsInv, Flagged, Passing
<1>5. ASSUME NEW e \in Exports, Join(e) PROVE Flagged'
  BY <1>5 DEF Join, history, JobsInv, Flagged, Passing
<1>6. ASSUME NEW e \in Exports, RefuseJob(e) PROVE Flagged'
  BY <1>6 DEF RefuseJob, history, JobsInv, Flagged, Passing
<1>7. ASSUME NEW e \in Exports, Open(e) PROVE Flagged'
  BY <1>7 DEF Open, history, JobsInv, Flagged, Passing
<1>8. ASSUME NEW e \in Exports, Request(e) PROVE Flagged'
  BY <1>8 DEF Request, JobsInv, Flagged, Passing
<1>9. ASSUME NEW e \in Exports, Dispatch(e) PROVE Flagged'
  BY <1>9 DEF Dispatch, JobsInv, Flagged, Passing
<1>10. ASSUME NEW e \in Exports, Settle(e) PROVE Flagged'
  BY <1>10 DEF Settle, history, JobsInv, Flagged, Passing
<1>11. ASSUME NEW e \in Exports, Fork(e) PROVE Flagged'
  BY <1>11 DEF Fork, history, JobsInv, Flagged, Passing
<1>12. ASSUME NEW e \in Exports, Drop(e) PROVE Flagged'
  BY <1>12 DEF Drop, history, JobsInv, Flagged, Passing
<1>13. ASSUME NEW e \in Exports, CancelFlag(e) PROVE Flagged'
  BY <1>13 DEF CancelFlag, history, JobsInv, Flagged, Passing
<1>14. CASE Cancel
  BY <1>14 DEF Cancel, JobsInv, Flagged, StopperAt, Passing
<1>15. CASE CancelAndWait
  BY <1>15 DEF CancelAndWait, JobsInv, TypeOK, Flagged, StopperAt, Passing
<1>16. CASE StoreFlag
  BY <1>16 DEF StoreFlag, history, JobsInv, TypeOK, Flagged, Passing
<1>17. CASE CallBack
  BY <1>17 DEF CallBack, JobsInv, Flagged, Passing
<1>18. CASE EndPass
  BY <1>18 DEF EndPass, history, JobsInv, Flagged
<1>19. CASE AwaitJob
  <2>1. PICK j \in stopper.todo :
          stopper' = IF Alive(j) THEN [stopper EXCEPT !.pc = "expired"]
                     ELSE [stopper EXCEPT !.todo = @ \ {j}]
    BY <1>19 DEF AwaitJob
  <2>2. stopper.pc = "waiting" /\ asked' = asked /\ flag' = flag
    BY <1>19 DEF AwaitJob, StopperAt, history
  <2>3. stopper.at = Free /\ stopper'.at = Free
    BY <2>1, <2>2 DEF JobsInv, TypeOK, Flagged, Passing
  <2> QED
    BY <2>2, <2>3 DEF JobsInv, Flagged, Passing
<1>20. CASE Return
  BY <1>20 DEF Return, history, JobsInv, Flagged
<1>21. CASE ActiveCount
  BY <1>21 DEF ActiveCount, history, JobsInv, Flagged, Passing
<1>22. CASE UNCHANGED vars
  BY <1>22 DEF vars, JobsInv, Flagged, Passing
<1> QED
  BY <1>1, <1>2, <1>3, <1>4, <1>5, <1>6, <1>7, <1>8, <1>9, <1>10, <1>11, <1>12,
     <1>13, <1>14, <1>15, <1>16, <1>17, <1>18, <1>19, <1>20, <1>21, <1>22 DEF
     Next, Register, Stage, StopJobs

\* Every step keeps what quit knows of the jobs that are alive.
LEMMA StoppingKept == JobsInv /\ [Next]_vars => Stopping'
<1> SUFFICES ASSUME JobsInv, [Next]_vars PROVE Stopping'
  OBVIOUS
<1>1. ASSUME NEW e \in Exports, Admit(e) PROVE Stopping'
  BY <1>1 DEF Admit, JobsInv, Alive, Stopping, ExportAt, StopperAt
<1>2. ASSUME NEW e \in Exports, Attach(e) PROVE Stopping'
  BY <1>2 DEF Attach, JobsInv, Alive, Stopping, ExportAt, StopperAt
<1>3. ASSUME NEW e \in Exports, Retain(e) PROVE Stopping'
  BY <1>3 DEF Retain, JobsInv, Alive, Stopping, ExportTo, ExportAt, StopperAt
<1>4. ASSUME NEW e \in Exports, RefuseStage(e) PROVE Stopping'
  BY <1>4 DEF RefuseStage, JobsInv, Alive, Stopping, Locked, ExportTo,
     ExportAt, StopperAt, Refused
<1>5. ASSUME NEW e \in Exports, Join(e) PROVE Stopping'
  BY <1>5 DEF Join, JobsInv, TypeOK, Alive, Stopping, Locked, Joins, ExportTo,
     ExportAt, StopperAt
<1>6. ASSUME NEW e \in Exports, RefuseJob(e) PROVE Stopping'
  BY <1>6 DEF RefuseJob, JobsInv, Alive, Stopping, Locked, ExportTo, ExportAt,
     StopperAt, Refused
<1>7. ASSUME NEW e \in Exports, Open(e) PROVE Stopping'
  BY <1>7 DEF Open, JobsInv, TypeOK, Alive, Staged, Opened, Stopping, Locked,
     ExportTo, ExportAt, StopperAt
<1>8. ASSUME NEW e \in Exports, Request(e) PROVE Stopping'
  BY <1>8 DEF Request, JobsInv, TypeOK, Alive, Stopping, ExportTo, ExportAt,
     StopperAt
<1>9. ASSUME NEW e \in Exports, Dispatch(e) PROVE Stopping'
  BY <1>9 DEF Dispatch, JobsInv, Alive, Stopping, ExportTo, ExportAt, StopperAt
<1>10. ASSUME NEW e \in Exports, Settle(e) PROVE Stopping'
  <2>1. \A j \in Exports : ExportAt(j, "request") => ExportAt(j, "request")'
    BY <1>10 DEF Settle, ExportTo, ExportAt, JobsInv, TypeOK
  <2> QED
    BY <1>10, <2>1 DEF Settle, history, JobsInv, Stopping, Alive, StopperAt
<1>11. ASSUME NEW e \in Exports, Fork(e) PROVE Stopping'
  BY <1>11, HoldersCount DEF Fork, JobsInv, Alive, Stopping, ExportTo,
     ExportAt, StopperAt
<1>12. ASSUME NEW e \in Exports, Drop(e) PROVE Stopping'
  BY <1>12 DEF Drop, JobsInv, TypeOK, Alive, Stopping, ExportAt, StopperAt
<1>13. ASSUME NEW e \in Exports, CancelFlag(e) PROVE Stopping'
  BY <1>13 DEF CancelFlag, JobsInv, Alive, Stopping, ExportAt, StopperAt
<1>14. CASE Cancel
  BY <1>14 DEF Cancel, JobsInv, Stopping, StopperAt
<1>15. CASE CancelAndWait
  BY <1>15 DEF CancelAndWait, JobsInv, Alive, Counted, Stopping, StopperAt
<1>16. CASE StoreFlag
  BY <1>16 DEF StoreFlag, JobsInv, Alive, Stopping, ExportAt, StopperAt
<1>17. CASE CallBack
  BY <1>17 DEF CallBack, JobsInv, Alive, Stopping, ExportAt, StopperAt, Passing
<1>18. CASE EndPass
  BY <1>18 DEF EndPass, JobsInv, Alive, Stopping, ExportAt, StopperAt, Passing
<1>19. CASE AwaitJob
  BY <1>19 DEF AwaitJob, JobsInv, Alive, Stopping, ExportAt, StopperAt
<1>20. CASE Return
  BY <1>20 DEF Return, JobsInv, Alive, Stopping, ExportAt, StopperAt
<1>21. CASE ActiveCount
  BY <1>21 DEF ActiveCount, JobsInv, Alive, Stopping, ExportAt, StopperAt
<1>22. CASE UNCHANGED vars
  BY <1>22 DEF vars, JobsInv, Alive, Stopping, ExportAt, StopperAt
<1> QED
  BY <1>1, <1>2, <1>3, <1>4, <1>5, <1>6, <1>7, <1>8, <1>9, <1>10, <1>11, <1>12,
     <1>13, <1>14, <1>15, <1>16, <1>17, <1>18, <1>19, <1>20, <1>21, <1>22 DEF
     Next, Register, Stage, StopJobs

\* A step that leaves the list, the profiles and a registration under way alone
\* leaves its count alone.
LEMMA SameLimit ==
  ASSUME JobsInv, registry'.jobs = registry.jobs, full' = full,
         \A j \in Exports : job'[j].profile = job[j].profile,
         \A j \in Exports : export'[j].pc = "locked" => export'[j] = export[j]
  PROVE  LimitSeen'
<1> SUFFICES ASSUME NEW e \in Exports, ExportAt(e, "locked")', AtLimit(export[e].call)'
             PROVE  full'[e]
  BY DEF LimitSeen
<1>1. export'[e] = export[e]
  BY DEF ExportAt
<1>2. Of(export[e].call.profile, registry.jobs)'
        = Of(export[e].call.profile, registry.jobs)
  BY <1>1 DEF Of, JobsInv, TypeOK
<1>3. AtLimit(export[e].call)
  BY <1>1, <1>2 DEF AtLimit
<1> QED
  BY <1>1, <1>3 DEF JobsInv, LimitSeen, ExportAt

\* While nobody holds the lock there is no count to keep.
LEMMA UnlockedLimit ==
  ASSUME JobsInv, \A j \in Exports : export'[j].pc # "locked"
  PROVE  LimitSeen'
  BY DEF LimitSeen, ExportAt

\* Every step keeps the count of a registration one of jobs that were alive.
LEMMA LimitKept == JobsInv /\ [Next]_vars => LimitSeen'
<1> SUFFICES ASSUME JobsInv, [Next]_vars PROVE LimitSeen'
  OBVIOUS
<1>1. ASSUME NEW e \in Exports, Admit(e) PROVE LimitSeen'
  <2>1. registry'.jobs = registry.jobs /\ full' = full
    BY <1>1 DEF Admit, history, JobsInv, TypeOK
  <2>2. \A j \in Exports : job'[j].profile = job[j].profile
    BY <1>1 DEF Admit, history, JobsInv, TypeOK
  <2>3. \A j \in Exports : export'[j].pc = "locked" => export'[j] = export[j]
    BY <1>1 DEF Admit, history, ExportTo, ExportAt, Locked, Refused, JobsInv,
       TypeOK
  <2> QED
    BY <2>1, <2>2, <2>3, SameLimit
<1>2. ASSUME NEW e \in Exports, Attach(e) PROVE LimitSeen'
  <2>1. registry'.jobs = registry.jobs /\ full' = full
    BY <1>2 DEF Attach, history, JobsInv, TypeOK
  <2>2. \A j \in Exports : job'[j].profile = job[j].profile
    BY <1>2 DEF Attach, history, JobsInv, TypeOK
  <2>3. \A j \in Exports : export'[j].pc = "locked" => export'[j] = export[j]
    BY <1>2 DEF Attach, history, ExportTo, ExportAt, Locked, Refused, JobsInv,
       TypeOK
  <2> QED
    BY <2>1, <2>2, <2>3, SameLimit
<1>3. ASSUME NEW e \in Exports, Retain(e) PROVE LimitSeen'
  <2> DEFINE p == export[e].call.profile
             A == {j \in Exports : Alive(j) /\ job[j].profile = p}
  <2>1. \A j \in Exports \ {e} : export'[j].pc # "locked"
    BY <1>3, JobsAssumption DEF Retain, ExportTo, JobsInv, Staged, ExportAt,
       TypeOK
  <2>2. export'[e].call = export[e].call /\ job' = job
        /\ registry'.jobs = {j \in registry.jobs : Alive(j)}
    BY <1>3 DEF Retain, ExportTo, JobsInv, TypeOK
  <2>3. A = Of(p, registry.jobs)'
    BY <2>2 DEF Of, JobsInv, Counted, TypeOK
  <2>4. full'[e] = (Cardinality(A) >= export[e].call.limit)
    BY <1>3 DEF Retain, JobsInv, TypeOK
  <2>5. AtLimit(export[e].call)' => full'[e]
    BY <2>2, <2>3, <2>4 DEF AtLimit
  <2> QED
    BY <2>1, <2>5 DEF LimitSeen, ExportAt
<1>4. ASSUME NEW e \in Exports, RefuseStage(e) PROVE LimitSeen'
  BY <1>4 DEF RefuseStage, history, JobsInv, Of, LimitSeen, AtLimit, ExportTo,
     ExportAt, Refused
<1>5. ASSUME NEW e \in Exports, Join(e) PROVE LimitSeen'
  BY <1>5 DEF Join, JobsInv, TypeOK, Staged, LimitSeen, Locked, ExportTo,
     ExportAt
<1>6. ASSUME NEW e \in Exports, RefuseJob(e) PROVE LimitSeen'
  BY <1>6 DEF RefuseJob, history, JobsInv, Of, LimitSeen, AtLimit, ExportTo,
     ExportAt, Refused
<1>7. ASSUME NEW e \in Exports, Open(e) PROVE LimitSeen'
  BY <1>7 DEF Open, JobsInv, TypeOK, Staged, LimitSeen, Locked, ExportTo,
     ExportAt
<1>8. ASSUME NEW e \in Exports, Request(e) PROVE LimitSeen'
  BY <1>8 DEF Request, JobsInv, Of, LimitSeen, AtLimit, ExportTo, ExportAt
<1>9. ASSUME NEW e \in Exports, Dispatch(e) PROVE LimitSeen'
  <2>1. registry'.jobs = registry.jobs /\ full' = full
    BY <1>9 DEF Dispatch, history, JobsInv, TypeOK
  <2>2. \A j \in Exports : job'[j].profile = job[j].profile
    BY <1>9 DEF Dispatch, history, JobsInv, TypeOK
  <2>3. \A j \in Exports : export'[j].pc = "locked" => export'[j] = export[j]
    BY <1>9 DEF Dispatch, history, ExportTo, ExportAt, Locked, Refused,
       JobsInv, TypeOK
  <2> QED
    BY <2>1, <2>2, <2>3, SameLimit
<1>10. ASSUME NEW e \in Exports, Settle(e) PROVE LimitSeen'
  <2>1. registry'.jobs = registry.jobs /\ full' = full
    BY <1>10 DEF Settle, history, JobsInv, TypeOK
  <2>2. \A j \in Exports : job'[j].profile = job[j].profile
    BY <1>10 DEF Settle, history, JobsInv, TypeOK
  <2>3. \A j \in Exports : export'[j].pc = "locked" => export'[j] = export[j]
    BY <1>10 DEF Settle, history, ExportTo, ExportAt, Locked, Refused, JobsInv,
       TypeOK
  <2> QED
    BY <2>1, <2>2, <2>3, SameLimit
<1>11. ASSUME NEW e \in Exports, Fork(e) PROVE LimitSeen'
  <2>1. registry'.jobs = registry.jobs /\ full' = full
    BY <1>11 DEF Fork, history, JobsInv, TypeOK
  <2>2. \A j \in Exports : job'[j].profile = job[j].profile
    BY <1>11 DEF Fork, history, JobsInv, TypeOK
  <2>3. \A j \in Exports : export'[j].pc = "locked" => export'[j] = export[j]
    BY <1>11 DEF Fork, history, ExportTo, ExportAt, Locked, Refused, JobsInv,
       TypeOK
  <2> QED
    BY <2>1, <2>2, <2>3, SameLimit
<1>12. ASSUME NEW e \in Exports, Drop(e) PROVE LimitSeen'
  BY <1>12 DEF Drop, history, JobsInv, Of, LimitSeen, AtLimit, ExportAt
<1>13. ASSUME NEW e \in Exports, CancelFlag(e) PROVE LimitSeen'
  BY <1>13 DEF CancelFlag, history, JobsInv, Of, LimitSeen, AtLimit, ExportAt
<1>14. CASE Cancel
  BY <1>14 DEF Cancel, JobsInv, Of, LimitSeen, AtLimit, ExportAt
<1>15. CASE CancelAndWait
  <2>1. registry'.jobs = registry.jobs /\ full' = full
    BY <1>15 DEF CancelAndWait, history, JobsInv, TypeOK
  <2>2. \A j \in Exports : job'[j].profile = job[j].profile
    BY <1>15 DEF CancelAndWait, history, JobsInv, TypeOK
  <2>3. \A j \in Exports : export'[j].pc = "locked" => export'[j] = export[j]
    BY <1>15 DEF CancelAndWait
  <2> QED
    BY <2>1, <2>2, <2>3, SameLimit
<1>16. CASE StoreFlag
  BY <1>16 DEF StoreFlag, history, JobsInv, Of, LimitSeen, AtLimit, ExportAt
<1>17. CASE CallBack
  BY <1>17 DEF CallBack, JobsInv, Of, LimitSeen, AtLimit, ExportAt
<1>18. CASE EndPass
  BY <1>18 DEF EndPass, history, JobsInv, Of, LimitSeen, AtLimit, ExportAt
<1>19. CASE AwaitJob
  BY <1>19 DEF AwaitJob, history, JobsInv, Of, LimitSeen, AtLimit, ExportAt
<1>20. CASE Return
  BY <1>20 DEF Return, history, JobsInv, Of, LimitSeen, AtLimit, ExportAt
<1>21. CASE ActiveCount
  <2>1. \A j \in Exports : export'[j].pc # "locked"
    BY <1>21, JobsAssumption DEF ActiveCount, history, JobsInv, Staged,
       ExportAt
  <2> QED
    BY <2>1, UnlockedLimit
<1>22. CASE UNCHANGED vars
  BY <1>22 DEF vars, JobsInv, Of, LimitSeen, AtLimit, ExportAt
<1> QED
  BY <1>1, <1>2, <1>3, <1>4, <1>5, <1>6, <1>7, <1>8, <1>9, <1>10, <1>11, <1>12,
     <1>13, <1>14, <1>15, <1>16, <1>17, <1>18, <1>19, <1>20, <1>21, <1>22 DEF
     Next, Register, Stage, StopJobs

\* The initial states satisfy the invariant.
LEMMA InitInv == Init => JobsInv
<1> SUFFICES ASSUME Init PROVE JobsInv
  OBVIOUS
<1>1. TypeOK
  BY DEF Init, TypeOK, Call, Stages, ExportPcs, StopperPcs
<1>2. Counted
  BY FS_EmptySet DEF Init, Counted, Alive
<1>3. Staged
  BY JobsAssumption DEF Init, Staged, Opened, ExportAt
<1>4. Flagged /\ Stopping /\ LimitSeen
  BY DEF Init, Flagged, Stopping, LimitSeen, Alive, StopperAt, ExportAt
<1> QED
  BY <1>1, <1>2, <1>3, <1>4 DEF JobsInv

\* Every step keeps the invariant.
LEMMA StepKeepsInv == JobsInv /\ [Next]_vars => JobsInv'
  BY TypeKept, CountedKept, StagedKept, FlaggedKept, StoppingKept, LimitKept
     DEF JobsInv

\* Guards are counted, jobs that hold one are listed, and the registration
\* order, the flags, the pass of quit and the counts of the limit are kept in
\* every reachable state.
THEOREM JobsCorrect == Spec => []JobsInv
<1> QED
  BY InitInv, StepKeepsInv, PTL DEF Spec

\* When cancel_and_wait reports success, only unrestricted exports that came
\* after it still hold a guard.
THEOREM QuitIsCompleteAlways == Spec => []QuitIsComplete
<1>1. JobsInv => QuitIsComplete
  BY HoldersCount DEF JobsInv, Stopping, QuitIsComplete, StopperAt, Alive
<1> QED
  BY <1>1, JobsCorrect, PTL

\* Every step keeps a listed download dispatched, or about to be.
LEMMA DispatchKept == JobsInv /\ CancelDispatched /\ [Next]_vars => CancelDispatched'
<1> SUFFICES ASSUME JobsInv, CancelDispatched, [Next]_vars PROVE CancelDispatched'
  OBVIOUS
<1>1. ASSUME NEW e \in Exports, Admit(e) PROVE CancelDispatched'
  BY <1>1 DEF Admit, history, CancelDispatched, ExportAt, Passing
<1>2. ASSUME NEW e \in Exports, Attach(e) PROVE CancelDispatched'
  BY <1>2 DEF Attach, history, CancelDispatched, ExportAt, Passing
<1>3. ASSUME NEW e \in Exports, Retain(e) PROVE CancelDispatched'
  BY <1>3 DEF Retain, CancelDispatched, ExportTo, ExportAt, Passing
<1>4. ASSUME NEW e \in Exports, RefuseStage(e) PROVE CancelDispatched'
  <2>1. UNCHANGED <<asked, called, job, stopper>>
    BY <1>4 DEF RefuseStage, history
  <2>2. \A j \in Exports : ExportAt(j, "dispatch") => ExportAt(j, "dispatch")'
    BY <1>4 DEF RefuseStage, Locked, Refused, ExportTo, ExportAt, JobsInv,
       TypeOK
  <2> QED
    BY <2>1, <2>2 DEF CancelDispatched, Passing, JobsInv, TypeOK
<1>5. ASSUME NEW e \in Exports, Join(e) PROVE CancelDispatched'
  <2>1. Opened(e) /\ export[e].call.stage = "producer"
    BY <1>5, JoinsWriter
  <2>2. \A j \in Exports \ {e} : job'[j] = job[j] /\ export'[j] = export[j]
    BY <1>5 DEF Join, ExportTo, JobsInv, TypeOK
  <2>3. asked' = asked /\ called' = called /\ stopper' = stopper
    BY <1>5 DEF Join, history
  <2>4. flag[e] => ExportAt(e, "dispatch")'
    BY <1>5, <2>1 DEF Join, Late, ExportTo, ExportAt, JobsInv, TypeOK
  <2> QED
    BY <2>2, <2>3, <2>4 DEF JobsInv, Flagged, CancelDispatched, ExportAt,
       Passing, TypeOK
<1>6. ASSUME NEW e \in Exports, RefuseJob(e) PROVE CancelDispatched'
  <2>1. UNCHANGED <<asked, called, job, stopper>>
    BY <1>6 DEF RefuseJob, history
  <2>2. \A j \in Exports : ExportAt(j, "dispatch") => ExportAt(j, "dispatch")'
    BY <1>6 DEF RefuseJob, Locked, Refused, ExportTo, ExportAt, JobsInv, TypeOK
  <2> QED
    BY <2>1, <2>2 DEF CancelDispatched, Passing, JobsInv, TypeOK
<1>7. ASSUME NEW e \in Exports, Open(e) PROVE CancelDispatched'
  <2>1. ~Opened(e)
    BY <1>7, OpensFresh
  <2>2. \A j \in Exports \ {e} : job'[j] = job[j] /\ export'[j] = export[j]
    BY <1>7 DEF Open, ExportTo, JobsInv, TypeOK
  <2>3. asked' = asked /\ called' = called /\ stopper' = stopper
    BY <1>7 DEF Open, history
  <2>4. e \notin asked
    BY <2>1 DEF JobsInv, Staged
  <2> QED
    BY <2>2, <2>3, <2>4 DEF CancelDispatched, ExportAt, Passing, JobsInv,
       TypeOK
<1>8. ASSUME NEW e \in Exports, Request(e) PROVE CancelDispatched'
  BY <1>8 DEF Request, CancelDispatched, ExportTo, ExportAt, Passing
<1>9. ASSUME NEW e \in Exports, Dispatch(e) PROVE CancelDispatched'
  BY <1>9 DEF Dispatch, CancelDispatched, ExportTo, ExportAt, Passing
<1>10. ASSUME NEW e \in Exports, Settle(e) PROVE CancelDispatched'
  BY <1>10 DEF Settle, history, JobsInv, TypeOK, CancelDispatched, ExportTo,
     ExportAt, Passing
<1>11. ASSUME NEW e \in Exports, Fork(e) PROVE CancelDispatched'
  BY <1>11 DEF Fork, history, CancelDispatched, ExportTo, ExportAt, Passing
<1>12. ASSUME NEW e \in Exports, Drop(e) PROVE CancelDispatched'
  BY <1>12 DEF Drop, history, CancelDispatched, ExportAt, Passing
<1>13. ASSUME NEW e \in Exports, CancelFlag(e) PROVE CancelDispatched'
  BY <1>13 DEF CancelFlag, history, CancelDispatched, ExportAt, Passing
<1>14. CASE Cancel
  BY <1>14 DEF Cancel, CancelDispatched, ExportAt, StopperAt, Passing
<1>15. CASE CancelAndWait
  BY <1>15 DEF CancelAndWait, CancelDispatched, ExportAt, StopperAt, Passing
<1>16. CASE StoreFlag
  BY <1>16 DEF StoreFlag, history, CancelDispatched, ExportAt, Passing
<1>17. CASE CallBack
  BY <1>17 DEF CallBack, CancelDispatched, ExportAt, Passing
<1>18. CASE EndPass
  BY <1>18 DEF EndPass, history, CancelDispatched, ExportAt
<1>19. CASE AwaitJob
  <2>1. stopper.pc = "waiting" /\ UNCHANGED <<asked, called, job, export>>
    BY <1>19 DEF AwaitJob, StopperAt, history
  <2> QED
    BY <2>1 DEF CancelDispatched, ExportAt, Passing
<1>20. CASE Return
  BY <1>20 DEF Return, history, CancelDispatched, ExportAt
<1>21. CASE ActiveCount
  BY <1>21 DEF ActiveCount, history, CancelDispatched, ExportAt, Passing
<1>22. CASE UNCHANGED vars
  BY <1>22 DEF vars, CancelDispatched, ExportAt, Passing
<1> QED
  BY <1>1, <1>2, <1>3, <1>4, <1>5, <1>6, <1>7, <1>8, <1>9, <1>10, <1>11, <1>12,
     <1>13, <1>14, <1>15, <1>16, <1>17, <1>18, <1>19, <1>20, <1>21, <1>22 DEF
     Next, Register, Stage, StopJobs

\* The download of every job listed by cancel or cancel_and_wait gets its call,
\* however the pass and the attachment interleave.
THEOREM CancelDispatchedAlways == Spec => []CancelDispatched
<1>1. Init => CancelDispatched
  BY DEF Init, CancelDispatched
<1> QED
  BY <1>1, DispatchKept, JobsCorrect, PTL DEF Spec

\* What WithinLimit says of one step.
LimitStep ==
  \A e \in Exports :
    /\ holders[e] = {} /\ holders'[e] # {}
    /\ export[e].call.limit # 0
    => Cardinality(Holding(export[e].call.profile)') <= export[e].call.limit

\* Only the step that opens a job gives a first guard to an export.
LEMMA FirstGuard ==
  ASSUME JobsInv, [Next]_vars, NEW e \in Exports, holders[e] = {}, holders'[e] # {}
  PROVE  Open(e)
<1>1. ASSUME NEW j \in Exports, Join(j) PROVE FALSE
  <2>1. holders[j] # {}
    BY <1>1, JoinsWriter
  <2> QED
    BY <1>1, <2>1 DEF Join, JobsInv, TypeOK
<1>2. ASSUME NEW j \in Exports, Open(j) PROVE j = e
  BY <1>2 DEF Open, JobsInv, TypeOK
<1>3. ASSUME NEW j \in Exports, Fork(j) PROVE FALSE
  BY <1>3 DEF Fork, JobsInv, TypeOK
<1>4. ASSUME NEW j \in Exports, Drop(j) PROVE FALSE
  <2>1. PICK s \in holders[j] : holders' = [holders EXCEPT ![j] = @ \ {s}]
    BY <1>4 DEF Drop
  <2> QED
    BY <2>1 DEF JobsInv, TypeOK
<1>5. CASE \E j \in Exports : Admit(j) \/ Attach(j) \/ Retain(j) \/ RefuseStage(j)
                              \/ RefuseJob(j) \/ Request(j) \/ Dispatch(j)
                              \/ Settle(j) \/ CancelFlag(j)
  BY <1>5 DEF Admit, Attach, Retain, RefuseStage, RefuseJob, Request, Dispatch,
     Settle, CancelFlag
<1>6. CASE StopJobs \/ ActiveCount \/ UNCHANGED vars
  BY <1>6 DEF StopJobs, Cancel, CancelAndWait, StoreFlag, CallBack, EndPass,
     AwaitJob, Return, ActiveCount, vars
<1> QED
  BY <1>1, <1>2, <1>3, <1>4, <1>5, <1>6 DEF Next, Register, Stage

\* A registration that opens a job stays within its limit: every export that
\* holds a guard of the connection is listed, so it was counted.
LEMMA StepWithinLimit == JobsInv /\ [Next]_vars => LimitStep
<1> SUFFICES ASSUME JobsInv, [Next]_vars, NEW e \in Exports,
                    holders[e] = {}, holders'[e] # {}, export[e].call.limit # 0
             PROVE  Cardinality(Holding(export[e].call.profile)') <= export[e].call.limit
  BY DEF LimitStep
<1> DEFINE p == export[e].call.profile
           n == export[e].call.limit
           L == Of(p, registry.jobs)
<1>1. Open(e)
  BY FirstGuard
<1>2. p # NoProfile
  BY DEF JobsInv, Staged
<1>3. ~AtLimit(export[e].call)
  BY <1>1, <1>2 DEF Open
<1>4. IsFiniteSet(L) /\ Cardinality(L) \in Nat
  BY FS_Subset, FS_CardinalityType DEF Of, JobsInv, Counted
<1>5. n \in Nat
  BY JobsAssumption DEF JobsInv, TypeOK, Call
<1>6. Cardinality(L) < n
  BY <1>3, <1>4, <1>5 DEF AtLimit
<1>7. IsFiniteSet(L \cup {e}) /\ Cardinality(L \cup {e}) <= Cardinality(L) + 1
  <2> HIDE DEF L
  <2>1. CASE e \in L
    <3>1. L \cup {e} = L
      BY <2>1
    <3>2. Cardinality(L) <= Cardinality(L) + 1
      BY <1>4
    <3> QED
      BY <3>1, <3>2, <1>4
  <2>2. CASE e \notin L
    <3>1. Cardinality(L \cup {e}) = Cardinality(L) + 1 /\ IsFiniteSet(L \cup {e})
      BY <2>2, <1>4, FS_AddElement
    <3> QED
      BY <3>1, <1>4
  <2> QED
    BY <2>1, <2>2
<1>8. Holding(p)' \subseteq L \cup {e}
  <2> SUFFICES ASSUME NEW j \in Exports, j # e, holders'[j] # {}, job'[j].profile = p'
               PROVE  j \in L
    BY DEF Holding
  <2>1. p' = p
    BY <1>1 DEF Open, ExportTo, JobsInv, TypeOK
  <2>2. holders'[j] = holders[j] /\ job'[j] = job[j]
    BY <1>1 DEF Open, JobsInv, TypeOK
  <2>3. j \in registry.jobs
    BY <2>2, HoldersCount DEF JobsInv, Counted
  <2> QED
    BY <2>1, <2>2, <2>3 DEF Of
<1>9. Cardinality(Holding(p)') <= Cardinality(L \cup {e})
      /\ Cardinality(Holding(p)') \in Nat /\ Cardinality(L \cup {e}) \in Nat
  BY <1>7, <1>8, FS_Subset, FS_CardinalityType
<1> QED
  BY <1>4, <1>5, <1>6, <1>7, <1>9

\* The exports of a connection that hold a guard in any stage stay within the
\* limit under which the last of them was admitted.
THEOREM WithinLimitAlways == Spec => WithinLimit
<1>1. JobsInv /\ [Next]_vars => [LimitStep]_vars
  BY StepWithinLimit
<1>2. WithinLimit <=> [][LimitStep]_vars
  BY PTL DEF WithinLimit, LimitStep
<1> QED
  BY <1>1, <1>2, JobsCorrect, PTL DEF Spec

\* What RefusedWhenFull says of one step.
RefusalStep ==
  \A e \in Exports :
    /\ ExportAt(e, "locked")
    /\ export'[e].pc = "ended"
    /\ ~registry.stopping
    => full[e]

\* An export that has no job when it registers is not refused for its stage: it
\* is not on the list.
LEMMA StageAccepted ==
  ASSUME JobsInv, NEW e \in Exports, RefuseStage(e)
  PROVE  export'[e].pc # "ended"
<1>1. Opened(e) /\ ExportAt(e, "locked")
  BY DEF JobsInv, Staged, RefuseStage, Mismatched, Locked
<1>2. export[e].call.stage = "producer"
  BY <1>1 DEF Opened, ExportAt
<1> QED
  BY <1>2 DEF RefuseStage, Refused, ExportTo, JobsInv, TypeOK

\* A registration ends an export only when the jobs counted under the lock had
\* reached the limit, and none of them had ended.
LEMMA StepRefusedWhenFull == JobsInv /\ [Next]_vars => RefusalStep
<1> SUFFICES ASSUME JobsInv, [Next]_vars, NEW e \in Exports, ExportAt(e, "locked"),
                    export'[e].pc = "ended", ~registry.stopping
             PROVE  full[e]
  BY DEF RefusalStep
<1>1. ASSUME NEW j \in Exports, RefuseJob(j) PROVE full[e]
  <2>1. j = e
    BY <1>1 DEF RefuseJob, Locked, JobsInv, Staged
  <2> QED
    BY <1>1, <2>1 DEF RefuseJob, Locked, JobsInv, LimitSeen
<1>2. ASSUME NEW j \in Exports, RefuseStage(j) PROVE FALSE
  <2>1. j = e
    BY <1>2 DEF RefuseStage, Locked, JobsInv, Staged
  <2> QED
    BY <1>2, <2>1, StageAccepted
<1>3. ASSUME NEW j \in Exports,
             Admit(j) \/ Attach(j) \/ Retain(j) \/ Join(j) \/ Open(j)
             \/ Request(j) \/ Dispatch(j) \/ Fork(j)
      PROVE  FALSE
  <2>1. export'[j].pc # "ended"
    <3>1. CASE Admit(j)
      BY <3>1 DEF Admit, ExportTo, JobsInv, TypeOK
    <3>2. CASE Attach(j)
      BY <3>2 DEF Attach, ExportTo, JobsInv, TypeOK
    <3>3. CASE Retain(j)
      BY <3>3 DEF Retain, ExportTo, JobsInv, TypeOK
    <3>4. CASE Join(j)
      BY <3>4 DEF Join, ExportTo, JobsInv, TypeOK
    <3>5. CASE Open(j)
      BY <3>5 DEF Open, ExportTo, JobsInv, TypeOK
    <3>6. CASE Request(j)
      BY <3>6 DEF Request, ExportTo, JobsInv, TypeOK
    <3>7. CASE Dispatch(j)
      BY <3>7 DEF Dispatch, ExportTo, JobsInv, TypeOK
    <3>8. CASE Fork(j)
      BY <3>8 DEF Fork, ExportTo, JobsInv, TypeOK
    <3> QED
      BY <1>3, <3>1, <3>2, <3>3, <3>4, <3>5, <3>6, <3>7, <3>8
  <2>2. \A k \in Exports \ {j} : export'[k] = export[k]
    BY <1>3 DEF Admit, Attach, Retain, Join, Open, Request, Dispatch, Fork,
       ExportTo, JobsInv, TypeOK
  <2> QED
    BY <2>1, <2>2 DEF ExportAt
<1>4. ASSUME NEW j \in Exports, Settle(j) PROVE FALSE
  BY <1>4 DEF Settle, ExportAt, ExportTo, JobsInv, TypeOK
<1>5. CASE \E j \in Exports : Drop(j) \/ CancelFlag(j)
  BY <1>5 DEF Drop, CancelFlag, ExportAt
<1>6. CASE StopJobs \/ ActiveCount \/ UNCHANGED vars
  BY <1>6 DEF StopJobs, Cancel, CancelAndWait, StoreFlag, CallBack, EndPass,
     AwaitJob, Return, ActiveCount, vars, ExportAt
<1> QED
  BY <1>1, <1>2, <1>3, <1>4, <1>5, <1>6 DEF Next, Register, Stage

\* No job that ended keeps a permit: an export is refused only when the limit was
\* reached by jobs that were alive.
THEOREM RefusedWhenFullAlways == Spec => RefusedWhenFull
<1>1. JobsInv /\ [Next]_vars => [RefusalStep]_vars
  BY StepRefusedWhenFull
<1>2. RefusedWhenFull <=> [][RefusalStep]_vars
  BY PTL DEF RefusedWhenFull, RefusalStep
<1> QED
  BY <1>1, <1>2, JobsCorrect, PTL DEF Spec

=============================================================================
