-------------------------------- MODULE Jobs --------------------------------
(***************************************************************************)
(* The registry of export jobs: src/src/export/jobs.rs, as the export      *)
(* dialog and the tab worker use it.                                       *)
(*                                                                         *)
(* An export is one attempt of the dialog, with a cancellation flag of its *)
(* own.  It is admitted before any SQL; its download, when it needs one,   *)
(* attaches to the same job later; each stage holds a Writer guard.  The   *)
(* registry lock covers a whole registration, but guards are dropped and   *)
(* forked without it, so a registration has two steps.                     *)
(*                                                                         *)
(* A job is named by its export, since the flag identifies it.             *)
(* `holders`, `asked`, `called` and `full` are history.                    *)
(***************************************************************************)
EXTENDS Integers, FiniteSets

CONSTANTS Exports,    \* the attempts to export
          Profiles,   \* the connections
          Limits      \* what concurrent_exports may be; 0 is no limit

VARIABLES
  registry,   \* Registry: stopping, and the exports whose job it lists
  lock,       \* who holds the registry lock: an export, or Free
  flag,       \* per export, its cancellation flag
  job,        \* per export, State: profile, on_cancel is set, remaining
  export,     \* per export, its dialog: pc, and the registration it makes
  stopper,    \* the thread in cancel or cancel_and_wait, and its jobs
  holders,    \* per export, the stages that hold a Writer
  asked,      \* the exports that cancel or cancel_and_wait has listed
  called,     \* the exports whose on_cancel was called
  full        \* per export, the limit was reached when it took the lock

vars == <<registry, lock, flag, job, export, stopper, holders, asked, called,
          full>>

history == <<asked, called, full>>

Free == "free"
NoProfile == "unrestricted"

ASSUME JobsAssumption ==
  /\ Limits \subseteq Nat
  /\ Free \notin Exports
  /\ NoProfile \notin Profiles

\* The dialog's guard moves to the writer thread; the download's is kept with
\* its command; bind forks one that the cancel thread may take over.
Stages == {"writer", "producer", "bound"}

Call == [profile : Profiles \cup {NoProfile}, limit : Limits \cup {0},
         stage : Stages]

Init ==
  /\ registry = [stopping |-> FALSE, jobs |-> {}]
  /\ lock = Free
  /\ flag = [e \in Exports |-> FALSE]
  /\ job = [e \in Exports |->
              [profile |-> NoProfile, onCancel |-> FALSE, remaining |-> 0]]
  /\ export = [e \in Exports |->
                 [pc |-> "new", call |-> [profile |-> NoProfile, limit |-> 0,
                                          stage |-> "writer"]]]
  /\ stopper = [pc |-> "idle", jobs |-> {}, todo |-> {}, at |-> Free]
  /\ holders = [e \in Exports |-> {}]
  /\ asked = {}
  /\ called = {}
  /\ full = [e \in Exports |-> FALSE]

ExportAt(e, pc) == export[e].pc = pc

ExportTo(e, pc) == export' = [export EXCEPT ![e].pc = pc]

Alive(e) == job[e].remaining > 0

Of(p, js) == {j \in js : job[j].profile = p}

---------------------------------------------------------------------------
(* Registration *)

\* The dialog admits the export, or a copy, after check_cancelled.
Admit(e) ==
  /\ ExportAt(e, "new")
  /\ ~flag[e]
  /\ \E p \in Profiles \cup {NoProfile}, n \in Limits :
       export' = [export EXCEPT ![e] =
                    [pc |-> "register",
                     call |-> [profile |-> p,
                               limit |-> IF p = NoProfile THEN 0 ELSE n,
                               stage |-> "writer"]]]
  /\ UNCHANGED <<registry, lock, flag, job, stopper, holders, history>>

\* drain_with_transfer or run_and_export: the profile is the worker's, which
\* may not be the one that admitted the export.
Attach(e) ==
  /\ ExportAt(e, "admitted")
  /\ ~flag[e]
  /\ \E p \in Profiles, n \in Limits :
       export' = [export EXCEPT ![e] =
                    [pc |-> "register",
                     call |-> [profile |-> p, limit |-> n, stage |-> "producer"]]]
  /\ UNCHANGED <<registry, lock, flag, job, stopper, holders, history>>

\* Mutant of Retain: the jobs that ended stay listed.
RetainNothing(e) ==
  /\ ExportAt(e, "register")
  /\ lock = Free
  /\ lock' = e
  /\ ExportTo(e, "locked")
  /\ full' = [full EXCEPT ![e] =
       Cardinality({j \in Exports : Alive(j) /\ job[j].profile = export[e].call.profile})
         >= export[e].call.limit]
  /\ UNCHANGED <<registry, flag, job, stopper, holders, asked, called>>

\* The lock is taken and the jobs that ended are dropped from the list.  Only
\* drops can happen until the lock is released, so one look at all jobs does.
Retain(e) ==
  /\ ExportAt(e, "register")
  /\ lock = Free
  /\ lock' = e
  /\ registry' = [registry EXCEPT !.jobs = {j \in @ : Alive(j)}]
  /\ ExportTo(e, "locked")
  /\ full' = [full EXCEPT ![e] =
       Cardinality({j \in Exports : Alive(j) /\ job[j].profile = export[e].call.profile})
         >= export[e].call.limit]
  /\ UNCHANGED <<flag, job, stopper, holders, asked, called>>

Locked(e) == ExportAt(e, "locked") /\ lock = e

\* The export has a job already, which a stage of it keeps alive.
Joins(e) == e \in registry.jobs /\ Alive(e)

\* A stage of another connection, or a second download, is an error.
Mismatched(e) ==
  /\ e \in registry.jobs
  /\ LET call == export[e].call IN
     \/ call.profile # NoProfile /\ job[e].profile # call.profile
     \/ Alive(e) /\ call.stage = "producer" /\ job[e].onCancel

Refused(e) == ExportTo(e, IF export[e].call.stage = "writer" THEN "ended" ELSE "settled")

RefuseStage(e) ==
  /\ Locked(e)
  /\ Mismatched(e)
  /\ lock' = Free
  /\ Refused(e)
  /\ UNCHANGED <<registry, flag, job, stopper, holders, history>>

\* Mutant of Late: only quit is noticed by a late stage.
LateForQuit(e) == registry.stopping

\* A cancel came before the download attached.
Late(e) == registry.stopping \/ flag[e]

Join(e) ==
  /\ Locked(e)
  /\ Joins(e)
  /\ ~Mismatched(e)
  /\ job' = [job EXCEPT ![e].remaining = @ + 1,
                        ![e].onCancel = IF export[e].call.stage = "producer"
                                        THEN TRUE ELSE @]
  /\ holders' = [holders EXCEPT ![e] = @ \cup {export[e].call.stage}]
  /\ lock' = Free
  /\ ExportTo(e, IF Late(e) /\ export[e].call.stage = "producer"
                 THEN "dispatch" ELSE "settled")
  /\ UNCHANGED <<registry, flag, stopper, history>>

\* Mutant of AtLimit: an off-by-one.
AboveLimit(call) ==
  /\ call.limit # 0
  /\ Cardinality(Of(call.profile, registry.jobs)) > call.limit

AtLimit(call) ==
  /\ call.limit # 0
  /\ Cardinality(Of(call.profile, registry.jobs)) >= call.limit

\* A limited export gets no job after quit began, or beyond the limit.
RefuseJob(e) ==
  /\ Locked(e)
  /\ ~Joins(e)
  /\ ~Mismatched(e)
  /\ export[e].call.profile # NoProfile
  /\ registry.stopping \/ AtLimit(export[e].call)
  /\ lock' = Free
  /\ Refused(e)
  /\ UNCHANGED <<registry, flag, job, stopper, holders, history>>

\* An unrestricted one gets its job even then, and is cancelled at once.
Open(e) ==
  LET call == export[e].call IN
  /\ Locked(e)
  /\ ~Joins(e)
  /\ ~Mismatched(e)
  /\ \/ call.profile = NoProfile
     \/ ~registry.stopping /\ ~AtLimit(call)
  /\ job' = [job EXCEPT ![e] = [profile |-> call.profile, remaining |-> 1,
                                onCancel |-> call.stage = "producer"]]
  /\ registry' = [registry EXCEPT !.jobs = @ \cup {e}]
  /\ holders' = [holders EXCEPT ![e] = @ \cup {call.stage}]
  /\ lock' = Free
  /\ ExportTo(e, IF registry.stopping THEN "request" ELSE "admitted")
  /\ UNCHANGED <<flag, stopper, history>>

\* register_inner's own request_cancel, after quit began.
Request(e) ==
  /\ ExportAt(e, "request")
  /\ flag' = [flag EXCEPT ![e] = TRUE]
  /\ called' = IF job[e].onCancel THEN called \cup {e} ELSE called
  /\ ExportTo(e, "admitted")
  /\ UNCHANGED <<registry, lock, job, stopper, holders, asked, full>>

\* The late download is cancelled by the thread that attached it.
Dispatch(e) ==
  /\ ExportAt(e, "dispatch")
  /\ called' = called \cup {e}
  /\ ExportTo(e, "settled")
  /\ UNCHANGED <<registry, lock, flag, job, stopper, holders, asked, full>>

\* The dialog needs no download, or gives up: a cancelled flag, a failed
\* sign-in, a closed form.  Its writer, or its error path, has the guard now.
Settle(e) ==
  /\ \/ ExportAt(e, "admitted") /\ ExportTo(e, "settled")
     \/ ExportAt(e, "new") /\ flag[e] /\ ExportTo(e, "ended")
  /\ UNCHANGED <<registry, lock, flag, job, stopper, holders, history>>

---------------------------------------------------------------------------
(* The stages of a job *)

\* Mutant of Fork: the forked guard is not counted.
ForkUncounted(e) ==
  /\ ExportAt(e, "settled")
  /\ "producer" \in holders[e]
  /\ holders' = [holders EXCEPT ![e] = @ \cup {"bound"}]
  /\ ExportTo(e, "bound")
  /\ UNCHANGED <<registry, lock, flag, job, stopper, history>>

\* Writer::fork, when the worker binds the download.
Fork(e) ==
  /\ ExportAt(e, "settled")
  /\ "producer" \in holders[e]
  /\ job' = [job EXCEPT ![e].remaining = @ + 1]
  /\ holders' = [holders EXCEPT ![e] = @ \cup {"bound"}]
  /\ ExportTo(e, "bound")
  /\ UNCHANGED <<registry, lock, flag, stopper, history>>

\* Mutant of Drop: the first stage that ends gives the permit back.
DropJob(e) ==
  /\ export[e].pc \in {"settled", "bound"}
  /\ \E s \in holders[e] : holders' = [holders EXCEPT ![e] = @ \ {s}]
  /\ job' = [job EXCEPT ![e].remaining = 0]
  /\ UNCHANGED <<registry, lock, flag, export, stopper, history>>

\* Writer::drop, in any order and on any thread; it takes no registry lock.
Drop(e) ==
  /\ export[e].pc \in {"settled", "bound"}
  /\ \E s \in holders[e] : holders' = [holders EXCEPT ![e] = @ \ {s}]
  /\ job' = [job EXCEPT ![e].remaining = @ - 1]
  /\ UNCHANGED <<registry, lock, flag, export, stopper, history>>

\* The user cancels this export: the dialog stops its download itself.
CancelFlag(e) ==
  /\ ~flag[e]
  /\ flag' = [flag EXCEPT ![e] = TRUE]
  /\ UNCHANGED <<registry, lock, job, export, stopper, holders, history>>

---------------------------------------------------------------------------
(* cancel, and cancel_and_wait *)

StopperAt(pc) == stopper.pc = pc

Passing == stopper.pc \in {"cancelling", "stopping"}

\* Both list the jobs under the lock; quit also refuses new ones and stores
\* every flag while it holds the lock.
Cancel ==
  /\ StopperAt("idle")
  /\ lock = Free
  /\ stopper' = [pc |-> "cancelling", jobs |-> registry.jobs,
                 todo |-> registry.jobs, at |-> Free]
  /\ asked' = asked \cup registry.jobs
  /\ UNCHANGED <<registry, lock, flag, job, export, holders, called, full>>

CancelAndWait ==
  /\ StopperAt("idle")
  /\ lock = Free
  /\ registry' = [registry EXCEPT !.stopping = TRUE]
  /\ flag' = [e \in Exports |-> flag[e] \/ e \in registry.jobs]
  /\ stopper' = [pc |-> "stopping", jobs |-> registry.jobs,
                 todo |-> registry.jobs, at |-> Free]
  /\ asked' = asked \cup registry.jobs
  /\ UNCHANGED <<lock, job, export, holders, called, full>>

\* request_cancel: the flag first, then the callback that is there.
StoreFlag ==
  /\ Passing
  /\ stopper.at = Free
  /\ \E j \in stopper.todo :
       /\ flag' = [flag EXCEPT ![j] = TRUE]
       /\ stopper' = [stopper EXCEPT !.at = j]
  /\ UNCHANGED <<registry, lock, job, export, holders, history>>

CallBack ==
  /\ Passing
  /\ stopper.at # Free
  /\ called' = IF job[stopper.at].onCancel THEN called \cup {stopper.at} ELSE called
  /\ stopper' = [stopper EXCEPT !.todo = @ \ {stopper.at}, !.at = Free]
  /\ UNCHANGED <<registry, lock, flag, job, export, holders, asked, full>>

EndPass ==
  /\ Passing
  /\ stopper.todo = {}
  /\ stopper' = [stopper EXCEPT
                   !.pc = IF StopperAt("cancelling") THEN "idle" ELSE "waiting",
                   !.jobs = IF StopperAt("cancelling") THEN {} ELSE @,
                   !.todo = IF StopperAt("cancelling") THEN {} ELSE stopper.jobs]
  /\ UNCHANGED <<registry, lock, flag, job, export, holders, history>>

\* One deadline for all: a job that still has a stage then ends the wait.
AwaitJob ==
  /\ StopperAt("waiting")
  /\ \E j \in stopper.todo :
       stopper' = IF Alive(j) THEN [stopper EXCEPT !.pc = "expired"]
                  ELSE [stopper EXCEPT !.todo = @ \ {j}]
  /\ UNCHANGED <<registry, lock, flag, job, export, holders, history>>

Return ==
  /\ StopperAt("waiting")
  /\ stopper.todo = {}
  /\ stopper' = [stopper EXCEPT !.pc = "returned"]
  /\ UNCHANGED <<registry, lock, flag, job, export, holders, history>>

\* active_count forgets the jobs that ended.
ActiveCount ==
  /\ lock = Free
  /\ registry' = [registry EXCEPT !.jobs = {j \in @ : Alive(j)}]
  /\ UNCHANGED <<lock, flag, job, export, stopper, holders, history>>

Register(e) ==
  \/ Admit(e) \/ Attach(e) \/ Retain(e) \/ RefuseStage(e) \/ Join(e)
  \/ RefuseJob(e) \/ Open(e) \/ Request(e) \/ Dispatch(e) \/ Settle(e)

Stage(e) == Fork(e) \/ Drop(e) \/ CancelFlag(e)

StopJobs ==
  Cancel \/ CancelAndWait \/ StoreFlag \/ CallBack \/ EndPass \/ AwaitJob \/ Return

Next ==
  \/ \E e \in Exports : Register(e) \/ Stage(e)
  \/ StopJobs
  \/ ActiveCount

Spec == Init /\ [][Next]_vars

---------------------------------------------------------------------------
(* Properties *)

ExportPcs == {"new", "register", "locked", "admitted", "request", "dispatch",
              "settled", "bound", "ended"}

StopperPcs == {"idle", "cancelling", "stopping", "waiting", "returned", "expired"}

TypeOK ==
  /\ registry \in [stopping : BOOLEAN, jobs : SUBSET Exports]
  /\ lock \in Exports \cup {Free}
  /\ flag \in [Exports -> BOOLEAN]
  /\ job \in [Exports -> [profile : Profiles \cup {NoProfile},
                          onCancel : BOOLEAN, remaining : Nat]]
  /\ export \in [Exports -> [pc : ExportPcs, call : Call]]
  /\ stopper \in [pc : StopperPcs, jobs : SUBSET Exports,
                  todo : SUBSET Exports, at : Exports \cup {Free}]
  /\ holders \in [Exports -> SUBSET Stages]
  /\ asked \in SUBSET Exports
  /\ called \in SUBSET Exports
  /\ full \in [Exports -> BOOLEAN]

\* The export has had a job.
Opened(e) ==
  /\ export[e].pc \notin {"new", "ended"}
  /\ export[e].pc \in {"register", "locked"} => export[e].call.stage = "producer"

\* Every guard is counted, and a job with a guard is listed.
Counted ==
  /\ IsFiniteSet(registry.jobs)
  /\ \A e \in Exports :
       /\ job[e].remaining = Cardinality(holders[e])
       /\ Alive(e) => e \in registry.jobs

\* A dialog registers a stage at a time: its guard keeps the job alive until
\* the download is attached.
Staged ==
  \A e \in Exports :
    /\ lock = e <=> ExportAt(e, "locked")
    /\ ~Opened(e) => holders[e] = {}
    /\ Opened(e) /\ export[e].pc \notin {"dispatch", "settled", "bound"} =>
         holders[e] = {"writer"} /\ ~job[e].onCancel
    /\ export[e].pc \in {"dispatch", "settled"} => "bound" \notin holders[e]
    /\ e \in registry.jobs \cup stopper.jobs \cup asked => Opened(e)
    /\ ExportAt(e, "new") => ~job[e].onCancel
    /\ export[e].call.stage # "bound"
    /\ export[e].call.profile = NoProfile =>
         export[e].call.limit = 0 /\ export[e].call.stage = "writer"

\* A job that was listed for a cancel has its flag, or will get it.
Flagged ==
  /\ \A e \in asked : flag[e] \/ (Passing /\ e \in stopper.todo)
  /\ stopper.at # Free =>
       Passing /\ flag[stopper.at] /\ stopper.at \in stopper.todo

\* What quit still has to wait for.
Stopping ==
  /\ registry.stopping <=> stopper.pc \notin {"idle", "cancelling"}
  /\ registry.stopping =>
       \A e \in Exports :
         Alive(e) =>
           \/ e \in stopper.jobs
           \/ job[e].profile = NoProfile /\ (flag[e] \/ ExportAt(e, "request"))
  /\ stopper.pc \in {"waiting", "returned"} =>
       \A e \in stopper.jobs : e \in stopper.todo \/ ~Alive(e)
  /\ StopperAt("returned") => stopper.todo = {}

\* The count that a registration compares is of jobs that were alive when it
\* took the lock.
LimitSeen ==
  \A e \in Exports :
    ExportAt(e, "locked") /\ AtLimit(export[e].call) => full[e]

\* The inductive invariant.
JobsInv ==
  TypeOK /\ Counted /\ Staged /\ Flagged /\ Stopping /\ LimitSeen

\* The exports that hold a guard of a connection.
Holding(p) == {e \in Exports : holders[e] # {} /\ job[e].profile = p}

\* The exports of one connection that hold anything, in any stage, stay within
\* the limit under which the last of them was admitted (results.md, "Export
\* transfer limits").
WithinLimit ==
  [][\A e \in Exports :
       /\ holders[e] = {} /\ holders'[e] # {}
       /\ export[e].call.limit # 0
       => Cardinality(Holding(export[e].call.profile)') <= export[e].call.limit]_vars

\* An export is refused only if the limit was really reached while it asked: no
\* job that ended keeps a permit.
RefusedWhenFull ==
  [][\A e \in Exports :
       /\ ExportAt(e, "locked")
       /\ export'[e].pc = "ended"
       /\ ~registry.stopping
       => full[e]]_vars

\* A download of a job that was cancelled is cancelled too, also when it
\* attaches in the middle of that cancel or after it.
CancelDispatched ==
  \A e \in asked :
    job[e].onCancel =>
      \/ e \in called
      \/ ExportAt(e, "dispatch")
      \/ Passing /\ e \in stopper.todo

\* When cancel_and_wait reports success, no stage of any export is left but
\* those of unrestricted exports that came after it, which are cancelled.
QuitIsComplete ==
  StopperAt("returned") =>
    \A e \in Exports :
      holders[e] # {} =>
        /\ job[e].profile = NoProfile
        /\ flag[e] \/ ExportAt(e, "request")

=============================================================================
