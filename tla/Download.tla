------------------------------ MODULE Download ------------------------------
(***************************************************************************)
(* One result download of a tab worker, and the routing of its             *)
(* cancellation: src/src/worker/download.rs with the export paths of       *)
(* src/src/worker.rs (drain) and src/src/worker/run_export.rs.             *)
(*                                                                         *)
(* The runner thread owns the session. Other threads (the tab, the export  *)
(* dialog, the file writer, application quit) may stop the download at any *)
(* moment, which starts a thread that sends CancelOperation and one that   *)
(* interrupts the transport at a deadline.  Afterwards the runner either   *)
(* gives the session to the next query or discards it.                     *)
(*                                                                         *)
(* Every action is one critical section of State's mutex, or one call that *)
(* a thread makes between two of them.  The spool is reduced to its status *)
(* (module Spool); `transport`, `stray` and `wires` are history.           *)
(***************************************************************************)
EXTENDS Integers, FiniteSets

CONSTANTS Callers,   \* threads that may each stop the download once
          Runner     \* the tab worker's own thread

ASSUME DownloadAssumption == Runner \notin Callers

VARIABLES
  kind,       \* "drain" an open cursor, or "run" SQL for the export
  cancel,     \* the export's cancellation flag
  state,      \* the mutex-protected State
  spool,      \* the status of the result spool, "none" before there is one
  runner,     \* the runner: pc, and whether close_operation failed
  session,    \* "none" before connecting, "held", then "reused" or "discarded"
  call,       \* per thread, the stop call it is making: kind and pc
  canceller,  \* the qrow-export-cancel thread: pc, result, and the guard it took
  watchdog,   \* the qrow-export-deadline thread
  expired,    \* the cleanup deadline has passed
  transport,  \* "live", "refused" by the runner's own thread, or "aborted"
  stray,      \* the next query's transport was interrupted
  wires       \* how often CancelOperation was sent

vars == <<kind, cancel, state, spool, runner, session, call, canceller,
          watchdog, expired, transport, stray, wires>>

threads == <<canceller, watchdog, expired>>
history == <<transport, stray, wires>>

Threads == Callers \cup {Runner}

Stopped(status) == status \in {"failed", "cancelled"}

Init ==
  /\ kind \in {"drain", "run"}
  /\ cancel = FALSE
  /\ state = [source |-> IF kind = "drain" THEN "ready" ELSE "pending",
              route |-> "pending", started |-> FALSE, done |-> FALSE,
              failed |-> FALSE, aborted |-> FALSE, guard |-> FALSE]
  /\ spool = IF kind = "drain" THEN "downloading" ELSE "none"
  /\ runner = [pc |-> "queued", closeFailed |-> FALSE]
  /\ session \in IF kind = "drain" THEN {"held"} ELSE {"held", "none"}
  /\ call = [t \in Threads |-> [kind |-> "none", pc |-> "idle"]]
  /\ canceller = [pc |-> "none", failed |-> FALSE, guard |-> FALSE]
  /\ watchdog = "none"
  /\ expired = FALSE
  /\ transport = "live"
  /\ stray = FALSE
  /\ wires = 0

---------------------------------------------------------------------------
(* Parts shared by the actions *)

At(pc) == runner.pc = pc

GoTo(pc) == runner' = [runner EXCEPT !.pc = pc]

StopSpool(status) ==
  spool' = IF spool = "downloading" THEN status ELSE spool

\* Cancellation::abort_transport from the cancellation route.
AbortTransport ==
  /\ transport' = "aborted"
  /\ stray' = (stray \/ session = "reused")
  /\ UNCHANGED wires

\* abort_transport from the runner itself, when registration is refused.
RefuseTransport ==
  /\ transport' = IF transport = "live" THEN "refused" ELSE transport
  /\ UNCHANGED <<stray, wires>>

Routed == state.route \in {"transport", "downloading"}

\* abort_operation, under the routing lock.
AbortOperation ==
  IF Routed
  THEN /\ AbortTransport
       /\ state' = [state EXCEPT !.aborted = TRUE, !.done = TRUE,
                                 !.failed = TRUE, !.guard = FALSE]
  ELSE UNCHANGED <<state, history>>

---------------------------------------------------------------------------
(* Stopping the download: cancel, cancel_in_background, fail, abort and    *)
(* session_changed.  "flag" is the job registry's own store of the shared  *)
(* flag, before it calls cancel_in_background.                             *)

CallKinds == {"cancel", "background", "fail", "abort"}

Calling(t, pc) == call[t].pc = pc

CallTo(t, pc) == call' = [call EXCEPT ![t].pc = pc]

Outcome(t) ==
  IF call[t].kind \in {"fail", "abort"} THEN "failed" ELSE "cancelled"

StartCall(t) ==
  /\ Calling(t, "idle")
  /\ \E k \in CallKinds :
       call' = [call EXCEPT ![t] =
                  [kind |-> k,
                   pc |-> IF k = "background" THEN "flag" ELSE "source"]]
  /\ UNCHANGED <<kind, cancel, state, spool, runner, session, threads, history>>

\* Jobs::request_cancel, or the dialog, stores the flag first.
SetFlagFirst(t) ==
  /\ Calling(t, "flag")
  /\ cancel' = TRUE
  /\ CallTo(t, "source")
  /\ UNCHANGED <<kind, state, spool, runner, session, threads, history>>

\* The first critical section of terminal_source.
TerminalSource(t) ==
  /\ Calling(t, "source")
  /\ IF state.source = "pending"
     THEN state' = [state EXCEPT !.source =
                      IF call[t].kind = "sessionChanged"
                      THEN "sessionChanged" ELSE Outcome(t)]
     ELSE UNCHANGED state
  /\ CallTo(t, IF state.source = "ready" /\ call[t].kind # "sessionChanged"
               THEN "stop" ELSE "store")
  /\ UNCHANGED <<kind, cancel, spool, runner, session, threads, history>>

\* Mutant of TerminalStop: a ready spool is left to the protocol work.
TerminalStopLater(t) ==
  /\ Calling(t, "stop")
  /\ CallTo(t, "store")
  /\ UNCHANGED <<kind, cancel, state, spool, runner, session, threads, history>>

\* The spool is stopped after the routing lock is released.
TerminalStop(t) ==
  /\ Calling(t, "stop")
  /\ StopSpool(Outcome(t))
  /\ CallTo(t, "store")
  /\ UNCHANGED <<kind, cancel, state, runner, session, threads, history>>

StoreCancel(t) ==
  /\ Calling(t, "store")
  /\ cancel' = TRUE
  /\ CallTo(t, "route")
  /\ UNCHANGED <<kind, state, spool, runner, session, threads, history>>

\* A running operation is claimed, with its guard, by exactly one caller.
Claim ==
  /\ state.route = "downloading"
  /\ ~state.started
  /\ state' = [state EXCEPT !.started = TRUE, !.guard = FALSE]
  /\ canceller' = [pc |-> "claimed", failed |-> FALSE, guard |-> state.guard]

\* The critical section of cancel_operation_with: an operation that has not
\* started has only its transport.
CancelOperation(t) ==
  /\ Calling(t, "route")
  /\ call[t].kind # "abort"
  /\ \/ /\ state.route = "transport"
        /\ AbortTransport
        /\ state' = [state EXCEPT !.aborted = TRUE, !.done = TRUE,
                                  !.guard = FALSE]
        /\ CallTo(t, "done")
        /\ UNCHANGED canceller
     \/ /\ Claim
        /\ CallTo(t, "spawn")
        /\ UNCHANGED history
     \/ /\ state.route # "transport"
        /\ state.route = "downloading" => state.started
        /\ CallTo(t, "done")
        /\ UNCHANGED <<state, canceller, history>>
  /\ UNCHANGED <<kind, cancel, spool, runner, session, watchdog, expired>>

\* abort, or cancel_in_background without a thread to run in.
AbortCall(t) ==
  /\ Calling(t, "route")
  /\ call[t].kind \in {"abort", "background"}
  /\ AbortOperation
  /\ CallTo(t, "done")
  /\ UNCHANGED <<kind, cancel, spool, runner, session, threads>>

\* Without a thread, the closure is dropped with its guard.
SpawnCanceller(t) ==
  /\ Calling(t, "spawn")
  /\ \/ /\ canceller' = [canceller EXCEPT !.pc = "starting"]
        /\ UNCHANGED <<state, history>>
     \/ /\ AbortOperation
        /\ canceller' = [canceller EXCEPT !.pc = "finished", !.guard = FALSE]
  /\ CallTo(t, "done")
  /\ UNCHANGED <<kind, cancel, spool, runner, session, watchdog, expired>>

CallStep(t) ==
  \/ SetFlagFirst(t)
  \/ TerminalSource(t)
  \/ TerminalStop(t)
  \/ StoreCancel(t)
  \/ CancelOperation(t)
  \/ AbortCall(t)
  \/ SpawnCanceller(t)

---------------------------------------------------------------------------
(* The cancel thread and the deadline thread *)

\* Without a deadline thread, the transport is interrupted at once.
StartWatchdog ==
  /\ canceller.pc = "starting"
  /\ canceller' = [canceller EXCEPT !.pc = "armed"]
  /\ \/ watchdog' = "waiting" /\ UNCHANGED <<state, history>>
     \/ AbortOperation /\ UNCHANGED watchdog
  /\ UNCHANGED <<kind, cancel, spool, runner, session, call, expired>>

SendCancel ==
  /\ canceller.pc = "armed"
  /\ canceller' = [canceller EXCEPT !.pc = "cancelling"]
  /\ wires' = wires + 1
  /\ UNCHANGED <<kind, cancel, state, spool, runner, session, call, watchdog,
                 expired, transport, stray>>

\* cancel_with_deadline returns, if it ever does.
CancelReturns ==
  /\ canceller.pc = "cancelling"
  /\ \E failed \in BOOLEAN :
       canceller' = [canceller EXCEPT !.pc = "returned", !.failed = failed]
  /\ UNCHANGED <<kind, cancel, state, spool, runner, session, call, watchdog,
                 expired, history>>

\* The guard is dropped, and the result is published under the lock.
ReportCancelled ==
  /\ canceller.pc = "returned"
  /\ canceller' = [canceller EXCEPT !.pc = "finished", !.guard = FALSE]
  /\ state' = [state EXCEPT !.done = TRUE, !.failed = canceller.failed]
  /\ UNCHANGED <<kind, cancel, spool, runner, session, call, watchdog, expired,
                 history>>

\* The deadline starts when the cancellation is claimed.
DeadlinePasses ==
  /\ state.started
  /\ ~expired
  /\ expired' = TRUE
  /\ UNCHANGED <<kind, cancel, state, spool, runner, session, call, canceller,
                 watchdog, history>>

\* Mutant of WatchdogAborts: the deadline is checked against the flag that the
\* cancellation was claimed, not against the route.
WatchdogAbortsLate ==
  /\ watchdog = "waiting"
  /\ expired
  /\ state.started
  /\ watchdog' = "exited"
  /\ AbortTransport
  /\ state' = [state EXCEPT !.aborted = TRUE]
  /\ UNCHANGED <<kind, cancel, spool, runner, session, call, canceller, expired>>

\* The deadline thread holds the routing lock, so it cannot abort a session
\* that the runner has already released.
WatchdogAborts ==
  /\ watchdog = "waiting"
  /\ expired
  /\ state.route = "downloading"
  /\ watchdog' = "exited"
  /\ AbortTransport
  /\ state' = [state EXCEPT !.aborted = TRUE]
  /\ UNCHANGED <<kind, cancel, spool, runner, session, call, canceller, expired>>

WatchdogExits ==
  /\ watchdog = "waiting"
  /\ state.route # "downloading"
  /\ watchdog' = "exited"
  /\ UNCHANGED <<kind, cancel, state, spool, runner, session, call, canceller,
                 expired, history>>

---------------------------------------------------------------------------
(* The runner: accepting the command *)

\* Mutant of DropCommand: the Request has no Drop.
DropCommandSilently ==
  /\ At("queued")
  /\ IF kind = "run" THEN UNCHANGED spool ELSE StopSpool("failed")
  /\ GoTo("done")
  /\ session' = "discarded"
  /\ UNCHANGED <<kind, cancel, state, call, threads, history>>

\* The worker stops before it takes the command: the dropped Request fails the
\* download, a dropped Drain fails its spool through the producer.
DropCommand ==
  /\ At("queued")
  /\ IF kind = "run"
     THEN /\ call' = [call EXCEPT ![Runner] = [kind |-> "fail", pc |-> "source"]]
          /\ UNCHANGED spool
     ELSE /\ StopSpool("failed")
          /\ UNCHANGED call
  /\ GoTo("done")
  /\ session' = "discarded"
  /\ UNCHANGED <<kind, cancel, state, threads, history>>

\* The drained prefix is stale, or its cursor is gone: the session is kept.
RefuseDrain ==
  /\ At("queued")
  /\ kind = "drain"
  /\ StopSpool("failed")
  /\ GoTo("done")
  /\ session' = "reused"
  /\ UNCHANGED <<kind, cancel, state, call, threads, history>>

\* The expected session is gone: nothing was sent and the session is kept.
SessionChanged ==
  /\ At("queued")
  /\ kind = "run"
  /\ call' = [call EXCEPT ![Runner] = [kind |-> "sessionChanged", pc |-> "source"]]
  /\ GoTo("done")
  /\ session' = IF session = "none" THEN "discarded" ELSE "reused"
  /\ UNCHANGED <<kind, cancel, state, spool, threads, history>>

\* Another server or user needs a new session: the old one is closed first.
AcceptRun ==
  /\ At("queued")
  /\ kind = "run"
  /\ \/ cancel /\ GoTo("error")
     \/ ~cancel /\ GoTo(IF session = "none" THEN "connect" ELSE "prepare")
     \/ ~cancel /\ session = "held" /\ GoTo("switch")
  /\ UNCHANGED <<kind, cancel, state, spool, session, call, threads, history>>

---------------------------------------------------------------------------
(* The runner: preparing the session *)

\* register_transport under the lock.  The check before it reads the same
\* flag, so it can only refuse earlier.
Registrable ==
  /\ ~cancel
  /\ ~state.aborted
  /\ state.route \in {"pending", "transport"}

Register(next) ==
  IF Registrable
  THEN /\ state' = [state EXCEPT !.route = "transport"]
       /\ GoTo(next)
       /\ UNCHANGED history
  ELSE /\ RefuseTransport
       /\ GoTo("error")
       /\ UNCHANGED state

RegisterOld ==
  /\ At("switch")
  /\ Register("disconnect")
  /\ UNCHANGED <<kind, cancel, spool, session, call, threads>>

Disconnect ==
  /\ At("disconnect")
  /\ session' = "none"
  /\ GoTo(IF cancel THEN "error" ELSE "connect")
  /\ UNCHANGED <<kind, cancel, state, spool, call, threads, history>>

RegisterConnecting ==
  /\ At("connect")
  /\ Register("connecting")
  /\ UNCHANGED <<kind, cancel, spool, session, call, threads>>

\* The connector ends with a session, or with an error and without one.
Connect ==
  /\ At("connecting")
  /\ \/ session' = "held" /\ GoTo("prepare")
     \/ GoTo("error") /\ UNCHANGED session
  /\ UNCHANGED <<kind, cancel, state, spool, call, threads, history>>

RegisterSession ==
  /\ At("prepare")
  /\ Register("registered")
  /\ UNCHANGED <<kind, cancel, spool, session, call, threads>>

\* The flag is read once more after the registration, and before the SQL.
CheckRegistered ==
  /\ At("registered")
  /\ \/ cancel /\ RefuseTransport /\ GoTo("error")
     \/ ~cancel /\ GoTo("execute") /\ UNCHANGED history
  /\ UNCHANGED <<kind, cancel, state, spool, session, call, threads>>

\* The server rejects the SQL (release_transport), the transport fails, or the
\* server returns an operation handle.
Execute ==
  /\ At("execute")
  /\ \/ GoTo("error") /\ UNCHANGED state
     \/ /\ state' = [state EXCEPT !.route =
                       IF @ = "transport" /\ ~state.aborted THEN "pending" ELSE @]
        /\ GoTo("error")
     \/ ~cancel /\ GoTo("bind") /\ UNCHANGED state
  /\ UNCHANGED <<kind, cancel, spool, session, call, threads, history>>

---------------------------------------------------------------------------
(* The runner: the download *)

\* bind gives the operation to the cancellation route, unless it is too late.
Bind ==
  /\ ~cancel
  /\ ~state.aborted
  /\ state.route \in {"pending", "transport"}
  /\ state' = [state EXCEPT !.route = "downloading", !.guard = TRUE]
  /\ UNCHANGED history

RefuseBind ==
  /\ cancel \/ state.aborted
  /\ RefuseTransport
  /\ UNCHANGED state

BindRun ==
  /\ At("bind")
  /\ \/ Bind /\ GoTo("poll")
     \/ RefuseBind /\ GoTo("error")
  /\ UNCHANGED <<kind, cancel, spool, session, call, threads>>

\* A refused bind of a drain cancels the spool and keeps the session.
BindDrain ==
  /\ At("queued")
  /\ kind = "drain"
  /\ \/ Bind /\ GoTo("fetch") /\ UNCHANGED <<spool, session>>
     \/ /\ RefuseBind
        /\ StopSpool("cancelled")
        /\ GoTo("done")
        /\ session' = "reused"
  /\ UNCHANGED <<kind, cancel, call, threads>>

\* The operation ends: with rows, without rows, cancelled or in error.  While
\* it runs, the runner looks at the flag every 100 ms.
Poll ==
  /\ At("poll")
  /\ \/ ~cancel /\ GoTo("publish")
     \/ ~cancel /\ GoTo("finish")
     \/ GoTo("error")
  /\ UNCHANGED <<kind, cancel, state, spool, session, call, threads, history>>

\* finish_without_spool, after close_operation succeeded.
FinishWithoutSpool ==
  /\ At("finish")
  /\ \/ /\ ~cancel
        /\ state.route = "downloading"
        /\ state.source = "pending"
        /\ state' = [state EXCEPT !.source = "failed", !.route = "downloaded",
                                  !.guard = FALSE]
        /\ GoTo("done")
        /\ session' = "reused"
     \/ GoTo("error") /\ UNCHANGED <<state, session>>
  /\ UNCHANGED <<kind, cancel, spool, call, threads, history>>

PublishSpool ==
  /\ At("publish")
  /\ \/ /\ ~cancel
        /\ state.source = "pending"
        /\ state' = [state EXCEPT !.source = "ready"]
        /\ spool' = "downloading"
        /\ GoTo("fetch")
     \/ GoTo("error") /\ UNCHANGED <<state, spool>>
  /\ UNCHANGED <<kind, cancel, session, call, threads, history>>

\* Batches are fetched until the last one, or until the flag, the spool or the
\* connector stops the loop.  A failed append stops the spool, and so does the
\* end of the loop of a run; a drain leaves that to download.fail.
Fetch ==
  /\ At("fetch")
  /\ \/ ~cancel /\ spool = "downloading" /\ GoTo("complete") /\ UNCHANGED spool
     \/ \E status \in {"failed", "cancelled"} : StopSpool(status) /\ GoTo("error")
     \/ kind = "drain" /\ GoTo("error") /\ UNCHANGED spool
  /\ UNCHANGED <<kind, cancel, state, session, call, threads, history>>

\* The conditions of complete, under the commit lock and the routing lock.
Handoff ==
  /\ ~cancel
  /\ spool = "downloading"
  /\ state.route = "downloading"
  /\ ~state.aborted

Detach == state' = [state EXCEPT !.route = "downloaded", !.guard = FALSE]

Complete ==
  /\ At("complete")
  /\ \/ /\ Handoff
        /\ spool' = "complete"
        /\ Detach
        /\ GoTo("done")
        /\ session' = "reused"
     \/ /\ \E status \in {"failed", "cancelled"} : StopSpool(status)
        /\ GoTo("error")
        /\ UNCHANGED <<state, session>>
  /\ UNCHANGED <<kind, cancel, call, threads, history>>

---------------------------------------------------------------------------
(* The runner: after an error *)

\* download.cancel or download.fail, as for any other caller.
StopOwnDownload ==
  /\ At("error")
  /\ \E k \in IF kind = "drain" THEN {"fail"} ELSE {"cancel", "fail"} :
       call' = [call EXCEPT ![Runner] = [kind |-> k, pc |-> "source"]]
  /\ GoTo("close")
  /\ UNCHANGED <<kind, cancel, state, spool, session, threads, history>>

CloseOperation ==
  /\ At("close")
  /\ Calling(Runner, "done")
  /\ \E failed \in IF session = "none" THEN {TRUE} ELSE BOOLEAN :
       runner' = [pc |-> "stopping", closeFailed |-> failed]
  /\ UNCHANGED <<kind, cancel, state, spool, session, call, threads, history>>

CancelPending == state.started /\ ~state.done /\ ~state.aborted

\* Mutant of TimedOut: the runner does not wait for the cancel thread.
TimedOutNever == FALSE

\* stopped waits two seconds at most for a pending cancel, then gives up on it.
TimedOut == CancelPending

\* Mutant of Clean: a deadline that interrupted the transport is forgotten.
CleanIfAnswered == ~TimedOut /\ ~state.failed

Clean == ~TimedOut /\ ~state.aborted /\ ~state.failed

StoppedState == [state EXCEPT !.route = "stopped", !.aborted = @ \/ TimedOut,
                              !.guard = FALSE]

\* The end of stopped, after the wait, and the decision about the session.
Release ==
  /\ At("stopping")
  /\ IF ~Clean /\ Routed THEN AbortTransport ELSE UNCHANGED history
  /\ state' = StoppedState
  /\ session' = IF Clean /\ ~runner.closeFailed THEN "reused" ELSE "discarded"
  /\ GoTo("done")
  /\ UNCHANGED <<kind, cancel, spool, call, threads>>

RunnerStep ==
  \/ DropCommand
  \/ RefuseDrain
  \/ SessionChanged
  \/ AcceptRun
  \/ RegisterOld
  \/ Disconnect
  \/ RegisterConnecting
  \/ Connect
  \/ RegisterSession
  \/ CheckRegistered
  \/ Execute
  \/ BindRun
  \/ BindDrain
  \/ Poll
  \/ FinishWithoutSpool
  \/ PublishSpool
  \/ Fetch
  \/ Complete
  \/ StopOwnDownload
  \/ CloseOperation
  \/ Release

---------------------------------------------------------------------------

CancellerStep == StartWatchdog \/ SendCancel \/ ReportCancelled

WatchdogStep == WatchdogAborts \/ WatchdogExits

\* The runner is done and every thread has returned.
Finished ==
  /\ At("done")
  /\ \A t \in Threads : call[t].pc \in {"idle", "done"}
  /\ canceller.pc \in {"none", "cancelling", "finished"}
  /\ watchdog \in {"none", "exited"}
  /\ UNCHANGED vars

Next ==
  \/ RunnerStep
  \/ \E t \in Callers : StartCall(t)
  \/ \E t \in Threads : CallStep(t)
  \/ CancellerStep
  \/ CancelReturns
  \/ DeadlinePasses
  \/ WatchdogStep
  \/ Finished

\* Where the runner waits for the server, which may never answer.
Waiting ==
  \/ runner.pc \in {"disconnect", "connecting", "execute", "fetch"}
  \/ runner.pc = "close" /\ state.route = "downloading"

\* What ends such a wait: the operation was cancelled, or the transport cut.
Interrupted ==
  \/ transport # "live"
  \/ canceller.pc = "finished" /\ ~canceller.failed

\* Every thread runs, and the clock moves, but nothing is assumed of a server
\* whose operation and transport were left alone: neither the runner's wait
\* nor CancelOperation need return.  A poll returns, but only a runner that
\* sees the flag leaves the polling loop.
Fairness ==
  /\ WF_vars(RunnerStep /\ (Waiting => Interrupted) /\ (At("poll") => cancel))
  /\ \A t \in Threads : WF_vars(CallStep(t))
  /\ WF_vars(CancellerStep)
  /\ WF_vars(WatchdogStep)
  /\ WF_vars(DeadlinePasses)

Spec == Init /\ [][Next]_vars

FairSpec == Spec /\ Fairness

---------------------------------------------------------------------------
(* Properties *)

Sources   == {"pending", "ready", "failed", "sessionChanged", "cancelled"}
Routes    == {"pending", "transport", "downloading", "downloaded", "stopped"}
RunnerPcs == {"queued", "switch", "disconnect", "connect", "connecting",
              "prepare", "registered", "execute", "bind", "poll", "finish",
              "publish", "fetch", "complete", "error", "close", "stopping",
              "done"}
CallPcs   == {"idle", "flag", "source", "stop", "store", "route", "spawn",
              "done"}
CancelPcs == {"none", "claimed", "starting", "armed", "cancelling",
              "returned", "finished"}

TypeOK ==
  /\ kind \in {"drain", "run"}
  /\ cancel \in BOOLEAN
  /\ state \in [source : Sources, route : Routes, started : BOOLEAN,
                done : BOOLEAN, failed : BOOLEAN, aborted : BOOLEAN,
                guard : BOOLEAN]
  /\ spool \in {"none", "downloading", "complete", "failed", "cancelled"}
  /\ runner \in [pc : RunnerPcs, closeFailed : BOOLEAN]
  /\ session \in {"none", "held", "reused", "discarded"}
  /\ call \in [Threads -> [kind : CallKinds \cup {"none", "sessionChanged"},
                           pc : CallPcs]]
  /\ canceller \in [pc : CancelPcs, failed : BOOLEAN, guard : BOOLEAN]
  /\ watchdog \in {"none", "waiting", "exited"}
  /\ expired \in BOOLEAN
  /\ transport \in {"live", "refused", "aborted"}
  /\ stray \in BOOLEAN
  /\ wires \in Nat

\* The runner prepares a session before anything can be interrupted, and lets
\* go of it for good.
RunnerInv ==
  /\ At("queued") =>
       /\ state.route = "pending"
       /\ ~state.started
       /\ ~state.aborted
       /\ transport = "live"
  /\ runner.pc \in {"switch", "disconnect", "connect", "connecting", "prepare",
                    "registered", "execute", "bind"} =>
       state.route \in {"pending", "transport"}
  /\ At("done") <=> session \in {"reused", "discarded"}
  /\ At("done") => ~Routed
  /\ spool = "complete" => At("done")

\* Whoever comes to the cancellation route has stopped the readers first.
CallInv ==
  \A t \in Threads :
    /\ call[t].kind = "sessionChanged" => At("done")
    /\ Calling(t, "stop") => state.source = "ready"
    /\ call[t].pc \in {"store", "route", "spawn"} =>
         \/ call[t].kind = "sessionChanged"
         \/ /\ state.source # "pending"
            /\ state.source = "ready" => spool # "downloading"
    /\ call[t].pc \in {"route", "spawn"} => cancel
    /\ Calling(t, "spawn") =>
         /\ canceller.pc = "claimed"
         /\ \A u \in Threads : Calling(u, "spawn") => u = t

\* One cancel thread is claimed, and its result is never taken for granted.
CancelInv ==
  /\ state.started <=> canceller.pc # "none"
  /\ expired => state.started
  /\ state.started \/ state.aborted => cancel
  /\ state.done => state.aborted \/ canceller.pc = "finished"
  /\ canceller.pc \in {"none", "claimed", "starting", "armed"} => wires = 0
  /\ wires <= 1
  /\ state.guard => state.route = "downloading"
  /\ canceller.guard => canceller.pc \notin {"none", "finished"}
  /\ state.source = "ready" <=> spool # "none"
  /\ canceller.pc # "none" =>
       /\ state.source # "pending"
       /\ state.source = "ready" => Stopped(spool)

\* What is known of a transport that was cut, and of a session that was kept.
SessionInv ==
  /\ transport = "aborted" => state.aborted \/ session = "discarded"
  /\ transport = "refused" => cancel
  /\ session = "reused" =>
       /\ ~state.aborted
       /\ canceller.pc \in {"none", "finished"}
  /\ spool = "complete" =>
       session = "reused" /\ transport = "live" /\ ~state.started
  /\ ~stray

\* The inductive invariant from which the properties below follow.
DownloadInv == TypeOK /\ RunnerInv /\ CallInv /\ CancelInv /\ SessionInv

\* Cancelling one download never interrupts the transport under the next query
\* of the session: the stop of the tab, the stop of an export or quit, and the
\* deadline of a cancel may all come after the runner released the session.
NoStrayAbort == ~stray

\* The next query gets the session only when CancelOperation for this download
\* is answered, so that a late cancel cannot reach the next operation.
CancelFinishedBeforeReuse ==
  session = "reused" => canceller.pc \in {"none", "finished"}

\* A session whose transport the cancellation interrupted is never reused.
AbortedSessionDiscarded == session = "reused" => transport # "aborted"

\* The readers see the outcome before any protocol work: when CancelOperation
\* is sent, the source is terminal or its spool is stopped (the test target's
\* assertion in download.rs).
TerminalBeforeProtocol ==
  canceller.pc \in {"cancelling", "returned"} =>
    /\ state.source # "pending"
    /\ state.source = "ready" => Stopped(spool)

\* However many threads stop the download, CancelOperation is sent once.
OneCancelRequest == wires <= 1

\* After the handoff of a complete result no cancel, late or early, and no
\* writer error touches the session that produced it.
CompleteDetaches ==
  spool = "complete" => session = "reused" /\ transport = "live" /\ wires = 0

\* No job guard survives the download and its cancel thread, on any path, so
\* application quit does not wait for a writer that is gone.
WriterReleased ==
  At("done") /\ canceller.pc \in {"none", "finished"} =>
    ~state.guard /\ ~canceller.guard

\* connector/mod.rs, of abort_transport: "The owning worker must discard the
\* session after this call."
InterruptedSessionDiscarded == session = "reused" => transport = "live"

\* A download that was stopped, or that its runner left, resolves: the runner
\* is free again and every reader of the result has an answer, even when the
\* server answers neither the query nor CancelOperation.
Resolves ==
  (cancel \/ At("done")) ~>
    (At("done") /\ state.source # "pending" /\ spool # "downloading")

=============================================================================
