----------------------------- MODULE TabWorker ------------------------------
(***************************************************************************)
(* A query tab and its worker thread: src/src/worker.rs,                   *)
(* src/src/worker/lifecycle.rs, and the part of src/src/ui.rs that decides *)
(* which command the tab may send (tab.busy) and applies worker events.    *)
(*                                                                         *)
(* The tab sends commands through a channel and cancels through a shared   *)
(* flag and the shared cancellation target of the open operation; the      *)
(* worker answers with events.  The connection is a Kyuubi one, whose      *)
(* cursor outlives a preview page.  A download, the drain of a cursor or a *)
(* query that runs for an export, is a few steps here: module Download has *)
(* its inside.                                                             *)
(*                                                                         *)
(* A row count stands for the rows, since an operation's rows arrive in    *)
(* order; `foreign` remembers whether the tab mixed two results.           *)
(* The export dialog keeps the rows that the tab showed when it opened.    *)
(* `requested`, `asked` and `drained` are history.                         *)
(***************************************************************************)
EXTENDS Integers, Sequences

CONSTANTS Queries,      \* bound: executions that the user may start as a query
          Exports,      \* bound: executions that the user may start for an export
          MaxRows,      \* bound: rows of a result
          Page,         \* PREVIEW_ROWS
          Limit,        \* MAX_RESULT_ROWS
          MaxIdle,      \* bound: how often the idle timer expires
          KeepAlive,    \* the policy sends keep-alives, or else disconnects
          BrowserAuth   \* a connection may wait for a browser sign-in

ASSUME TabAssumption ==
  /\ Queries \cup Exports \subseteq Nat \ {0}
  /\ {MaxRows, MaxIdle} \subseteq Nat
  /\ {Page, Limit} \subseteq Nat \ {0}
  /\ {KeepAlive, BrowserAuth} \subseteq BOOLEAN

VARIABLES
  ui,         \* the tab: what it shows and may do, and its cancel call's pc
  commands,   \* the command channel
  events,     \* the event channel
  worker,     \* the Runner: pc, current execution, session, cursor and rows
  op,         \* the open operation of the session, and what it delivered
  cancelled,  \* the shared cancellation flag
  target,     \* the shared cancellation target: NoTarget, KeepOp, an execution
  download,   \* the shared slot: the execution whose download it holds, or 0
  exportCancel, \* executions whose download is cancelled; a queued drain carries
              \* its own flag
  stopped,    \* shutdown was called
  cancels,    \* the threads that send CancelOperation
  idles,      \* how often the idle timer expired
  requested, asked, drained

vars == <<ui, commands, events, worker, op, cancelled, target, download,
          exportCancel, stopped, cancels, idles, requested,
          asked, drained>>

NoTarget == 0
KeepOp   == -1

NoSnapshot == -1
NoOp     == [x |-> 0, total |-> 0, served |-> 0]

Init ==
  /\ ui = [pc |-> "ready", busy |-> FALSE, cancelling |-> FALSE,
           connected |-> FALSE, execution |-> 0, more |-> FALSE,
           cursor |-> "unavailable", rows |-> 0, foreign |-> FALSE,
           snapshot |-> NoSnapshot]
  /\ commands = <<>>
  /\ events = <<>>
  /\ worker = [pc |-> "idle", x |-> 0, session |-> 0, expected |-> 0,
               cursor |-> "unavailable", rows |-> 0, pending |-> 0,
               wanted |-> 0, batch |-> 0, kept |-> NoTarget, failed |-> FALSE]
  /\ op = NoOp
  /\ cancelled = FALSE
  /\ target = NoTarget
  /\ download = 0
  /\ exportCancel = {}
  /\ stopped = FALSE
  /\ cancels = {}
  /\ idles = 0
  /\ requested = {}
  /\ asked = {}
  /\ drained = {}

tabState    == <<ui, commands>>
workerState == <<worker, op, events>>
history     == <<requested, asked, drained>>

---------------------------------------------------------------------------
(* The tab: commands.  Every command makes it busy. *)

UiReady == ui.pc = "ready" /\ ~stopped

Command(kind, x, rows, expected) ==
  [kind |-> kind, x |-> x, rows |-> rows, expected |-> expected, stopped |-> FALSE]

Send(kind) == commands' = Append(commands, Command(kind, ui.execution, 0, 0))

\* start_result empties the result table; a new execution begins, which a dialog
\* of the one before it can no longer drain.
Start(x) ==
  ui' = [ui EXCEPT !.busy = TRUE, !.cancelling = FALSE, !.more = FALSE, !.execution = x,
                   !.cursor = "unavailable", !.rows = 0, !.foreign = FALSE,
                   !.snapshot = NoSnapshot]

\* The error of a cancel that is still being sent no longer concerns the tab.
Supersede == cancels' = {[c EXCEPT !.current = FALSE] : c \in cancels}

\* run_with_id
Run ==
  /\ UiReady
  /\ ~ui.busy
  /\ ui.execution + 1 \in Queries
  /\ Start(ui.execution + 1)
  /\ commands' = Append(commands, Command("run", ui.execution + 1, 0, 0))
  /\ Supersede
  /\ cancelled' = FALSE
  /\ UNCHANGED <<workerState, target, download, exportCancel, stopped, idles, history>>

\* run_and_export. The export expects the session that the dialog reviewed, which
\* is still there; or none, when there is none or it is of another connection.
RunExport ==
  /\ UiReady
  /\ ~ui.busy
  /\ ui.execution + 1 \in Exports
  /\ download = 0
  /\ Start(ui.execution + 1)
  /\ \E expected \in {0, worker.session} :
       commands' = Append(commands, Command("export", ui.execution + 1, 0, expected))
  /\ download' = ui.execution + 1
  /\ Supersede
  /\ cancelled' = FALSE
  /\ UNCHANGED <<workerState, target, exportCancel, stopped, idles, history>>

More ==
  /\ UiReady
  /\ ~ui.busy
  /\ ui.more
  /\ ui' = [ui EXCEPT !.busy = TRUE, !.cancelling = FALSE]
  /\ Send("more")
  /\ Supersede
  /\ cancelled' = FALSE
  /\ UNCHANGED <<workerState, target, download, exportCancel, stopped, idles, history>>

\* open_export, at any time, also while rows arrive: the dialog takes a snapshot
\* of the rows that the tab shows, none when only the columns are there. Only such
\* dialogs are taken as may have a cursor to drain: neither a complete or consumed
\* result has one, nor a run-and-export, whose rows go to its own download.
OpenExport ==
  /\ UiReady
  /\ ui.execution \in Queries
  /\ ui.cursor \in {"unavailable", "available"}
  /\ ui' = [ui EXCEPT !.snapshot = ui.rows]
  /\ UNCHANGED <<commands, workerState, cancelled, target, download, exportCancel,
                 stopped, cancels, idles, history>>

\* all_source looks at the tab of now, and sends the snapshot of the dialog, which
\* may be older; a second try sends the same one.
DrainCursor ==
  /\ UiReady
  /\ ~ui.busy
  /\ ui.cursor = "available"
  /\ worker.session # 0
  /\ ui.snapshot # NoSnapshot
  /\ ui' = [ui EXCEPT !.busy = TRUE, !.cancelling = FALSE]
  /\ commands' = Append(commands, Command("drain", ui.execution, ui.snapshot, 0))
  /\ UNCHANGED <<workerState, cancelled, target, download, exportCancel, stopped,
                 cancels, idles, history>>

Disconnect ==
  /\ UiReady
  /\ ~ui.busy
  /\ ui.connected
  /\ ui' = [ui EXCEPT !.busy = TRUE]
  /\ Send("disconnect")
  /\ Supersede
  /\ UNCHANGED <<workerState, cancelled, target, download, exportCancel, stopped,
                 idles, history>>

---------------------------------------------------------------------------
(* The tab: Worker::cancel and Worker::shutdown, on the tab's thread *)

CancelTab ==
  /\ UiReady
  /\ ui.busy
  /\ ~ui.cancelling
  /\ ui' = [ui EXCEPT !.pc = "cancel"]
  /\ UNCHANGED <<commands, workerState, cancelled, target, download,
                 exportCancel, stopped, cancels, idles, history>>

\* The tab closes, or the application quits: the tab's end of the event
\* channel goes away.
Shutdown ==
  /\ UiReady
  /\ stopped' = TRUE
  /\ ui' = [ui EXCEPT !.pc = "cancel"]
  /\ events' = <<>>
  /\ UNCHANGED <<commands, worker, op, cancelled, target, download,
                 exportCancel, cancels, idles, history>>

AfterCancel ==
  ui' = [ui EXCEPT !.pc = IF stopped THEN "send" ELSE "ready",
                   !.cancelling = TRUE]

\* An export, or a drain that runs, is cancelled through its own download.
CancelDownload ==
  /\ ui.pc = "cancel"
  /\ download # 0
  /\ exportCancel' = exportCancel \cup {download}
  /\ AfterCancel
  /\ UNCHANGED <<commands, workerState, cancelled, target, download,
                 stopped, cancels, idles, history>>

CancelFlag ==
  /\ ui.pc = "cancel"
  /\ download = 0
  /\ cancelled' = TRUE
  /\ requested' = requested \cup {ui.execution}
  /\ ui' = [ui EXCEPT !.pc = "target"]
  /\ UNCHANGED <<commands, workerState, target, download, stopped,
                 exportCancel, cancels, idles, asked, drained>>

CancelTarget ==
  /\ ui.pc = "target"
  /\ cancels' = IF target = NoTarget THEN cancels
                ELSE cancels \cup {[target |-> target, current |-> TRUE]}
  /\ AfterCancel
  /\ UNCHANGED <<commands, workerState, cancelled, target, download,
                 stopped, exportCancel, idles, history>>

SendShutdown ==
  /\ ui.pc = "send"
  /\ Send("shutdown")
  /\ ui' = [ui EXCEPT !.pc = "closed"]
  /\ UNCHANGED <<workerState, cancelled, target, download, stopped,
                 exportCancel, cancels, idles, history>>

\* The export that waits for a download is stopped: its dialog, its writer or the
\* job registry sets the flag.
StopExport ==
  /\ \/ /\ download \notin {0} \cup exportCancel
        /\ exportCancel' = exportCancel \cup {download}
        /\ UNCHANGED commands
     \/ \E i \in 1..Len(commands) :
          /\ commands[i].kind = "export" /\ commands[i].x \notin exportCancel
          /\ exportCancel' = exportCancel \cup {commands[i].x}
          /\ UNCHANGED commands
     \/ \E i \in 1..Len(commands) :
          /\ commands[i].kind = "drain" /\ ~commands[i].stopped
          /\ commands' = [commands EXCEPT ![i].stopped = TRUE]
          /\ UNCHANGED exportCancel
  /\ UNCHANGED <<ui, workerState, cancelled, target, download,
                 stopped, cancels, idles, history>>

---------------------------------------------------------------------------
(* The tab: applying the events, all that are in the channel at once: the  *)
(* user can do nothing in between.                                         *)

Idle(u) == [u EXCEPT !.busy = FALSE, !.cancelling = FALSE]

CloseCursor(u) == [u EXCEPT !.more = FALSE]

\* The query still runs: only another Cancel becomes possible.
CancelFailed(u) == [u EXCEPT !.cancelling = FALSE]

\* The command ends, and with it the cursor.
End(u, cursor) == [CloseCursor(Idle(u)) EXCEPT !.cursor = cursor]

AddRows(u, e) == [u EXCEPT !.rows = @ + e.rows, !.foreign = @ \/ e.x # u.execution]

Lost(u, disconnected) == [u EXCEPT !.connected = @ /\ ~disconnected]

ApplyAlways(u, e) ==
  CASE e.kind = "connecting" -> [u EXCEPT !.connected = FALSE, !.busy = TRUE]
    [] e.kind = "connected"  -> [u EXCEPT !.connected = TRUE]
    [] e.kind = "busy"       -> [u EXCEPT !.busy = TRUE]
    [] e.kind = "keepAliveFinished" -> Idle(u)
    [] e.kind = "rows"       -> AddRows(u, e)
    [] e.kind = "ready"      -> [Idle(u) EXCEPT !.more = e.more]
    [] e.kind = "cancelled"  -> End(u, "consumed")
    [] e.kind = "error"      -> Lost(CloseCursor(Idle(u)), e.disconnected)
    [] e.kind = "cancelError"  -> CancelFailed(u)
    [] e.kind = "disconnected" -> Lost(End(u, "unavailable"), TRUE)

ApplyDownload(u, e) ==
  CASE e.kind = "previewRows" -> [u EXCEPT !.rows = @ + e.rows]
    [] e.kind = "cursor" ->
         IF e.state = "draining"
         THEN [u EXCEPT !.cursor = e.state, !.busy = TRUE, !.more = FALSE]
         ELSE [u EXCEPT !.cursor = e.state]
    [] e.kind = "downloaded" -> End(u, "downloaded")
    [] e.kind = "downloadFailed" ->
         Lost(IF e.consumed THEN End(u, "consumed") ELSE Idle(u), e.disconnected)

\* apply_worker_event: events of a cursor or a download name their execution, the
\* others concern whatever the tab shows.
Apply(u, e) ==
  IF e.kind \in {"previewRows", "cursor", "downloaded", "downloadFailed"}
  THEN IF e.x = u.execution THEN ApplyDownload(u, e) ELSE u
  ELSE ApplyAlways(u, e)

PollEvent ==
  /\ ui.pc \in {"ready", "events"}
  /\ ~stopped
  /\ events # <<>>
  /\ ui' = [Apply(ui, Head(events)) EXCEPT !.pc = IF Tail(events) = <<>> THEN "ready" ELSE "events"]
  /\ events' = Tail(events)
  /\ UNCHANGED <<commands, worker, op, cancelled, target, download,
                 exportCancel, stopped, cancels, idles, history>>

Kind(kind) == [kind |-> kind]
ReadyEvent(more) == [kind |-> "ready", more |-> more]
ErrorEvent(disconnected) == [kind |-> "error", disconnected |-> disconnected]
CursorEvent(state) == [kind |-> "cursor", x |-> worker.x, state |-> state]
FailedEvent(x, consumed, disconnected) ==
  [kind |-> "downloadFailed", x |-> x, consumed |-> consumed,
   disconnected |-> disconnected]

\* Nobody reads the channel of a tab that shut its worker down.
Emit(sent) == events' = IF stopped THEN events ELSE events \o sent

Silent == UNCHANGED events

---------------------------------------------------------------------------
(* The cancel threads *)

\* CancelOperation is sent on a transport of its own.  Its error is shown
\* unless the tab sent another command since.
SendCancel(c) ==
  /\ cancels' = cancels \ {c}
  /\ asked' = asked \cup {c.target}
  /\ \/ Silent
     \/ c.current /\ Emit(<<Kind("cancelError")>>)
  /\ UNCHANGED <<tabState, worker, op, cancelled, target, download, exportCancel,
                 stopped, idles, requested, drained>>

---------------------------------------------------------------------------
(* The worker: shared parts *)

WorkerAt(pc) == worker.pc = pc

WorkerTo(pc) == worker' = [worker EXCEPT !.pc = pc]

Unchanging == UNCHANGED <<ui, stopped, cancels>>

\* The session ends: disconnect().
Disconnected == [worker EXCEPT !.session = 0, !.cursor = "unavailable",
                               !.pending = 0]

CloseOperation == op' = NoOp /\ target' = NoTarget

\* The command ends in an error: the session survives only an error of the
\* query itself, and only if its operation can be closed.
Fail ==
  /\ \E disconnected \in IF worker.session # 0 THEN BOOLEAN ELSE {TRUE} :
       /\ worker' = [IF disconnected THEN Disconnected ELSE worker
                       EXCEPT !.pc = "idle"]
       /\ Emit(<<ErrorEvent(disconnected)>>)
  /\ CloseOperation

\* finish_cancelled_fetch
FinishCancelled ==
  /\ cancelled
  /\ worker.session # 0
  /\ CloseOperation
  /\ worker' = [worker EXCEPT !.pc = "idle", !.pending = 0, !.cursor = "consumed"]
  /\ Emit(<<Kind("cancelled")>>)

Take(kind) ==
  /\ WorkerAt("idle")
  /\ commands # <<>>
  /\ Head(commands).kind = kind
  /\ commands' = Tail(commands)

---------------------------------------------------------------------------
(* The worker: run *)

TakeRun ==
  /\ Take("run")
  /\ worker' = [worker EXCEPT !.pc = "prepare", !.x = Head(commands).x,
                              !.cursor = "unavailable", !.pending = 0, !.rows = 0]
  /\ Silent
  /\ Unchanging
  /\ UNCHANGED <<op, cancelled, target, download, exportCancel, idles, history>>

\* prepare_session: another connection, or none, needs a new session.
PrepareSession ==
  /\ WorkerAt("prepare")
  /\ \/ /\ worker.session # 0
        /\ WorkerTo("check")
        /\ Silent
        /\ UNCHANGED <<op, target>>
     \/ /\ worker' = [Disconnected EXCEPT !.pc = "connect"]
        /\ CloseOperation
        /\ Emit(<<Kind("connecting")>>)
  /\ Unchanging
  /\ UNCHANGED <<commands, cancelled, download, exportCancel, idles, history>>

\* The session is opened and selects its database. The `USE` statement is polled
\* without a deadline, without a look at the flag, and no target is published: it
\* may take for ever.
Connect ==
  /\ WorkerAt("connect")
  /\ \/ /\ worker' = [worker EXCEPT !.pc = "check", !.session = worker.x]
        /\ Emit(<<Kind("connected")>>)
        /\ UNCHANGED <<op, target>>
     \/ Fail
     \/ /\ BrowserAuth /\ cancelled
        /\ WorkerTo("signInCancelled")
        /\ Emit(<<Kind("disconnected")>>)
        /\ CloseOperation
  /\ Unchanging
  /\ UNCHANGED <<commands, cancelled, download, exportCancel, idles, history>>

\* A cancelled browser sign-in is reported with two events.
ReportSignInCancelled ==
  /\ WorkerAt("signInCancelled")
  /\ WorkerTo("idle")
  /\ Emit(<<Kind("cancelled")>>)
  /\ Unchanging
  /\ UNCHANGED <<commands, op, cancelled, target, download, exportCancel, idles, history>>

\* Mutant of CheckCancelled: setup does not look at the flag.
CheckNothing ==
  /\ WorkerAt("check")
  /\ WorkerTo("clear")
  /\ Emit(<<Kind("busy")>>)
  /\ Unchanging
  /\ UNCHANGED <<commands, op, cancelled, target, download, exportCancel, idles, history>>

CheckCancelled ==
  /\ WorkerAt("check")
  /\ IF cancelled
     THEN WorkerTo("idle") /\ Emit(<<Kind("cancelled")>>)
     ELSE WorkerTo("clear") /\ Emit(<<Kind("busy")>>)
  /\ Unchanging
  /\ UNCHANGED <<commands, op, cancelled, target, download, exportCancel, idles, history>>

ClearTarget ==
  /\ WorkerAt("clear")
  /\ target' = NoTarget
  /\ WorkerTo("execute")
  /\ Silent
  /\ Unchanging
  /\ UNCHANGED <<commands, op, cancelled, download, exportCancel, idles, history>>

\* execute closes the previous operation and submits the SQL.
Execute ==
  /\ WorkerAt("execute")
  /\ \/ /\ \E total \in 0..MaxRows :
             op' = [x |-> worker.x, total |-> total, served |-> 0]
        /\ WorkerTo("publish")
        /\ Silent
        /\ UNCHANGED target
     \/ Fail
  /\ Unchanging
  /\ UNCHANGED <<commands, cancelled, download, exportCancel, idles, requested, asked, drained>>

PublishTarget ==
  /\ WorkerAt("publish")
  /\ target' = worker.x
  /\ WorkerTo("catch")
  /\ Silent
  /\ Unchanging
  /\ UNCHANGED <<commands, op, cancelled, download, exportCancel, idles, history>>

\* Mutant of CatchCancel: the flag is not read after the target is published.
CatchNothing ==
  /\ WorkerAt("catch")
  /\ WorkerTo("poll")
  /\ Silent
  /\ Unchanging
  /\ UNCHANGED <<commands, op, cancelled, target, download, exportCancel, idles, history>>

\* A cancel that found no target yet is sent by the worker itself.
CatchCancel ==
  /\ WorkerAt("catch")
  /\ asked' = IF cancelled THEN asked \cup {worker.x} ELSE asked
  /\ \/ WorkerTo("poll") /\ Silent /\ UNCHANGED <<op, target>>
     \/ cancelled /\ Fail
  /\ Unchanging
  /\ UNCHANGED <<commands, cancelled, download, exportCancel, idles, requested, drained>>

\* wait_for_result, which never looks at the flag.
PollResult ==
  /\ WorkerAt("poll")
  /\ \/ /\ CloseOperation
        /\ WorkerTo("idle")
        /\ Emit(<<Kind("cancelled")>>)
     \/ /\ CloseOperation
        /\ WorkerTo("idle")
        /\ Emit(<<ReadyEvent(FALSE)>>)
     \/ /\ ~cancelled
        /\ worker' = [worker EXCEPT !.pc = "fetch", !.wanted = Page]
        /\ Silent
        /\ UNCHANGED <<op, target>>
     \/ Fail
  /\ Unchanging
  /\ UNCHANGED <<commands, cancelled, download, exportCancel, idles, history>>

---------------------------------------------------------------------------
(* The worker: preview pages *)

TakeMore ==
  /\ Take("more")
  /\ IF worker.pending > 0
     THEN /\ worker' = [worker EXCEPT !.cursor = "available"]
          /\ Emit(<<CursorEvent("available"), ReadyEvent(FALSE)>>)
     ELSE /\ worker' = [worker EXCEPT !.pc = "fetch", !.wanted = Page]
          /\ Silent
  /\ Unchanging
  /\ UNCHANGED <<op, cancelled, target, download, exportCancel, idles, history>>

\* One fetch; without a session or an operation it is an error.
Fetch ==
  /\ WorkerAt("fetch")
  /\ \/ FinishCancelled
     \/ /\ ~cancelled
        /\ op.x # 0
        /\ \E n \in 0..worker.wanted :
             /\ n <= op.total - op.served
             /\ n = 0 => op.served = op.total
             /\ worker' = [worker EXCEPT !.pc = "fetched", !.batch = n]
             /\ op' = [op EXCEPT !.served = @ + n]
        /\ Silent
        /\ UNCHANGED target
     \/ Fail
  /\ Unchanging
  /\ UNCHANGED <<commands, cancelled, download, exportCancel, idles, history>>

Limited == worker.rows + worker.batch > Limit

\* The last page, or the first row beyond the preview limit: a row that was
\* fetched and not shown is kept for a drain.
EndPage ==
  /\ worker.batch = 0 \/ Limited
  /\ IF Limited /\ worker.batch > 0
     THEN /\ worker' = [worker EXCEPT !.pc = "idle", !.pending = worker.batch,
                                      !.cursor = "available"]
          /\ Emit(<<CursorEvent("available"), ReadyEvent(FALSE)>>)
          /\ UNCHANGED <<op, target>>
     ELSE /\ worker' = [worker EXCEPT !.pc = "idle", !.cursor = "complete"]
          /\ Emit(<<CursorEvent("complete"), ReadyEvent(FALSE)>>)
          /\ CloseOperation

RowsEvent == [kind |-> "rows", x |-> worker.x, rows |-> worker.batch]

Shown == [worker EXCEPT !.rows = @ + worker.batch, !.wanted = @ - worker.batch,
                        !.batch = 0]

\* Mutant of FinishPage: the page ends without offering the cursor.
FinishPageQuietly ==
  /\ WorkerAt("paged")
  /\ WorkerTo("idle")
  /\ Silent
  /\ Unchanging
  /\ UNCHANGED <<commands, op, cancelled, target, download, exportCancel, idles, history>>

\* The page is full: the cursor waits for More or for a drain, unless a cancel
\* came with the last rows.
FinishPage ==
  /\ WorkerAt("paged")
  /\ \/ FinishCancelled
     \/ /\ ~cancelled
        /\ worker' = [worker EXCEPT !.pc = "idle", !.cursor = "available"]
        /\ Emit(<<CursorEvent("available"), ReadyEvent(TRUE)>>)
        /\ UNCHANGED <<op, target>>
     \/ cancelled /\ Fail
  /\ Unchanging
  /\ UNCHANGED <<commands, cancelled, download, exportCancel, idles, history>>

\* Mutant of ContinuePage: each batch reports the end of the page.
ContinuePageEagerly ==
  /\ worker.batch > 0
  /\ ~Limited
  /\ worker' = [Shown EXCEPT !.pc = IF Shown.wanted > 0 THEN "fetch" ELSE "paged"]
  /\ Emit(<<RowsEvent, ReadyEvent(TRUE)>>)
  /\ UNCHANGED <<op, target>>

ContinuePage ==
  /\ worker.batch > 0
  /\ ~Limited
  /\ worker' = [Shown EXCEPT !.pc = IF Shown.wanted > 0 THEN "fetch" ELSE "paged"]
  /\ Emit(<<RowsEvent>>)
  /\ UNCHANGED <<op, target>>

\* A cancel that came during the fetch drops its rows.
ShowPage ==
  /\ WorkerAt("fetched")
  /\ \/ FinishCancelled
     \/ ~cancelled /\ EndPage
     \/ ~cancelled /\ ContinuePage
     \/ (cancelled \/ worker.batch = 0) /\ Fail
  /\ Unchanging
  /\ UNCHANGED <<commands, cancelled, download, exportCancel, idles, history>>

---------------------------------------------------------------------------
(* The worker: draining the cursor into an export *)

\* Mutant of Stale: the number of rows that the dialog showed is not compared.
StaleExecution(d) == worker.x # d.x \/ worker.cursor # "available"

\* The dialog's rows are no longer the rows before the cursor.
Stale(d) ==
  \/ worker.x # d.x
  \/ worker.cursor # "available"
  \/ worker.rows # d.rows

\* Nothing was read from the cursor when the drain is refused: the prefix is
\* stale, the operation is gone, or the export was cancelled before the bind.
RefuseDrain ==
  /\ Take("drain")
  /\ Stale(Head(commands)) \/ target = NoTarget \/ Head(commands).stopped
  /\ Emit(<<FailedEvent(Head(commands).x, FALSE, FALSE)>>)
  /\ Unchanging
  /\ UNCHANGED <<worker, op, cancelled, target, download, exportCancel, idles, history>>

BindDrain ==
  /\ Take("drain")
  /\ ~Stale(Head(commands))
  /\ target # NoTarget
  /\ ~Head(commands).stopped
  /\ download' = worker.x
  /\ worker' = [worker EXCEPT !.pc = "drain", !.cursor = "draining",
                              !.batch = Head(commands).rows]
  /\ Emit(<<CursorEvent("draining")>>)
  /\ Unchanging
  /\ UNCHANGED <<op, cancelled, target, exportCancel, idles, history>>

Least(a, b) == IF a < b THEN a ELSE b

\* The download leaves the shared slot.
EndDownload(x) == download' = 0 /\ exportCancel' = exportCancel \ {x}

\* All rows reach the spool: those shown (batch holds the dialog's), the
\* pending row, and the rest.  Some of the rest is shown too.
CompleteDrain ==
  /\ WorkerAt("drain")
  /\ worker.x \notin exportCancel
  /\ op.x # 0
  /\ \E shown \in 0..Least(op.total, Limit) :
       /\ shown >= worker.rows
       /\ worker' = [worker EXCEPT !.pc = "idle", !.cursor = "downloaded",
                                   !.pending = 0, !.rows = shown]
       /\ Emit(<<[kind |-> "previewRows", x |-> worker.x,
                  rows |-> shown - worker.rows],
                 CursorEvent("downloaded"),
                 [kind |-> "downloaded", x |-> worker.x]>>)
  /\ drained' = drained \cup
       {[rows |-> worker.batch + worker.pending + (op.total - op.served),
         total |-> op.total]}
  /\ CloseOperation
  /\ EndDownload(worker.x)
  /\ Unchanging
  /\ UNCHANGED <<commands, cancelled, idles, requested, asked>>

\* A failed download closes its operation or gives up the session. The rows that
\* were read cannot be fetched again, so that the cursor is consumed.
FailDownload(x, pending) ==
  /\ \E disconnected \in IF worker.session # 0 THEN BOOLEAN ELSE {TRUE} :
       /\ worker' = [IF disconnected THEN Disconnected
                     ELSE [worker EXCEPT !.pending = pending]
                       EXCEPT !.pc = "idle", !.cursor = "consumed"]
       /\ Emit(<<CursorEvent("consumed"), FailedEvent(x, TRUE, disconnected)>>)
  /\ CloseOperation
  /\ EndDownload(x)

FailDrain ==
  /\ WorkerAt("drain")
  /\ \E pending \in {0, worker.pending} : FailDownload(worker.x, pending)
  /\ Unchanging
  /\ UNCHANGED <<commands, cancelled, idles, history>>

---------------------------------------------------------------------------
(* The worker: a query that runs for an export *)

\* Mutant of SessionKept: only the dialog compares the session.
SessionUnchecked(c) == TRUE

SessionKept(c) == c.expected \in {0, worker.session}

\* The session that the user reviewed has ended: nothing is run.
RefuseExport ==
  /\ Take("export")
  /\ ~SessionKept(Head(commands))
  /\ Emit(<<FailedEvent(Head(commands).x, FALSE, worker.session = 0)>>)
  /\ EndDownload(Head(commands).x)
  /\ Unchanging
  /\ UNCHANGED <<worker, op, cancelled, target, idles, history>>

\* The export was cancelled while it was queued.
DropExport ==
  /\ Take("export")
  /\ SessionKept(Head(commands))
  /\ Head(commands).x \in exportCancel
  /\ FailDownload(Head(commands).x, worker.pending)
  /\ Unchanging
  /\ UNCHANGED <<cancelled, idles, history>>

TakeExport ==
  /\ Take("export")
  /\ SessionKept(Head(commands))
  /\ Head(commands).x \notin exportCancel
  /\ worker' = [worker EXCEPT !.pc = "exportPrepare", !.x = Head(commands).x,
                              !.expected = Head(commands).expected,
                              !.cursor = "unavailable", !.pending = 0, !.rows = 0]
  /\ Silent
  /\ Unchanging
  /\ UNCHANGED <<op, cancelled, target, download, exportCancel, idles, history>>

\* Each step of an export fails when its download is cancelled.
ExportStep(pc) == WorkerAt(pc) /\ worker.x \notin exportCancel

ExportFails ==
  /\ worker.pc \in {"exportPrepare", "exportConnect", "exportClear", "exportExecute",
                    "exportBind", "exportPoll"}
  /\ FailDownload(worker.x, 0)
  /\ Unchanging
  /\ UNCHANGED <<commands, cancelled, idles, requested, asked, drained>>

\* prepare_session, with the export's own flag: another connection, or none, needs
\* a new session.
PrepareExport ==
  /\ ExportStep("exportPrepare")
  /\ \/ /\ worker.session # 0
        /\ WorkerTo("exportClear")
        /\ Silent
        /\ UNCHANGED <<op, target>>
     \/ /\ worker.expected = 0 \/ worker.session = 0
        /\ worker' = [Disconnected EXCEPT !.pc = "exportConnect"]
        /\ CloseOperation
        /\ Emit(<<Kind("connecting")>>)
  /\ Unchanging
  /\ UNCHANGED <<commands, cancelled, download, exportCancel, idles, history>>

\* The session of an export registers its transport, so that only a stop of the
\* download ends a `USE` statement that does not end by itself.
ConnectExport ==
  /\ WorkerAt("exportConnect")
  /\ worker' = [worker EXCEPT !.pc = "exportClear", !.session = worker.x]
  /\ Emit(<<Kind("connected")>>)
  /\ Unchanging
  /\ UNCHANGED <<commands, op, cancelled, target, download, exportCancel, idles, history>>

ClearExport ==
  /\ ExportStep("exportClear")
  /\ target' = NoTarget
  /\ WorkerTo("exportExecute")
  /\ Emit(<<Kind("busy")>>)
  /\ Unchanging
  /\ UNCHANGED <<commands, op, cancelled, download, exportCancel, idles, history>>

ExecuteExport ==
  /\ ExportStep("exportExecute")
  /\ \E total \in 0..MaxRows : op' = [x |-> worker.x, total |-> total, served |-> 0]
  /\ worker' = [worker EXCEPT !.pc = "exportBind", !.expected = 0]
  /\ Silent
  /\ Unchanging
  /\ UNCHANGED <<commands, cancelled, target, download, exportCancel, idles, history>>

BindExport ==
  /\ ExportStep("exportBind")
  /\ target' = worker.x
  /\ WorkerTo("exportPoll")
  /\ Silent
  /\ Unchanging
  /\ UNCHANGED <<commands, op, cancelled, download, exportCancel, idles, history>>

\* A statement without a result set is complete; the rows of any other go to
\* the spool.
PollExport ==
  /\ ExportStep("exportPoll")
  /\ \/ /\ worker' = [worker EXCEPT !.pc = "idle", !.cursor = "complete"]
        /\ Emit(<<CursorEvent("complete"), ReadyEvent(FALSE)>>)
        /\ CloseOperation
        /\ EndDownload(worker.x)
     \/ /\ worker' = [worker EXCEPT !.pc = "drain", !.cursor = "draining", !.batch = 0]
        /\ Emit(<<CursorEvent("draining")>>)
        /\ UNCHANGED <<op, target, download, exportCancel>>
  /\ Unchanging
  /\ UNCHANGED <<commands, cancelled, idles, history>>

---------------------------------------------------------------------------
(* The worker: disconnect and shutdown *)

TakeDisconnect ==
  /\ Take("disconnect")
  /\ worker' = Disconnected
  /\ CloseOperation
  /\ Emit(<<Kind("disconnected")>>)
  /\ Unchanging
  /\ UNCHANGED <<cancelled, download, exportCancel, idles, history>>

TakeShutdown ==
  /\ Take("shutdown")
  /\ worker' = [Disconnected EXCEPT !.pc = "ended"]
  /\ CloseOperation
  /\ Silent
  /\ Unchanging
  /\ UNCHANGED <<cancelled, download, exportCancel, idles, history>>

---------------------------------------------------------------------------
(* The worker: the idle timer *)

\* recv_timeout finds no command in time, and the idle guard does not defer.
ExpireIdle ==
  /\ WorkerAt("idle")
  /\ commands = <<>>
  /\ worker.session # 0
  /\ idles < MaxIdle
  /\ idles' = idles + 1
  /\ WorkerTo("maintain")
  /\ Silent
  /\ Unchanging
  /\ UNCHANGED <<commands, op, cancelled, target, download, exportCancel, history>>

Maintain ==
  /\ WorkerAt("maintain")
  /\ \/ /\ stopped
        /\ WorkerTo("idle")
        /\ Silent
        /\ UNCHANGED <<op, target>>
     \/ /\ ~stopped /\ ~KeepAlive
        /\ worker' = [Disconnected EXCEPT !.pc = "idle"]
        /\ CloseOperation
        /\ Emit(<<Kind("disconnected")>>)
     \/ /\ ~stopped /\ KeepAlive
        /\ WorkerTo("reset")
        /\ Silent
        /\ UNCHANGED <<op, target>>
  /\ Unchanging
  /\ UNCHANGED <<commands, cancelled, download, exportCancel, idles, history>>

ResetCancelled ==
  /\ WorkerAt("reset")
  /\ cancelled' = FALSE
  /\ WorkerTo("keepAlive")
  /\ Emit(<<Kind("busy")>>)
  /\ Unchanging
  /\ UNCHANGED <<commands, op, target, download, exportCancel, idles, history>>

FailKeepAlive ==
  /\ worker' = [Disconnected EXCEPT !.pc = "idle", !.kept = NoTarget]
  /\ CloseOperation
  /\ Emit(<<ErrorEvent(TRUE)>>)

\* keep_alive saves the target of the open cursor, if there is one.
StartKeepAlive ==
  /\ WorkerAt("keepAlive")
  /\ \/ stopped /\ FailKeepAlive
     \/ /\ ~stopped
        /\ worker' = [worker EXCEPT !.pc = "keepExecute", !.kept = target,
                                    !.failed = FALSE]
        /\ target' = NoTarget
        /\ Silent
        /\ UNCHANGED op
  /\ Unchanging
  /\ UNCHANGED <<commands, cancelled, download, exportCancel, idles, history>>

\* The session sets the open operation aside and runs the maintenance SQL.
ExecuteKeepAlive ==
  /\ WorkerAt("keepExecute")
  /\ \E failed \in BOOLEAN :
       worker' = [worker EXCEPT !.pc = IF failed THEN "keepClose" ELSE "keepPublish",
                                !.failed = failed]
  /\ asked' = asked \ {KeepOp}
  /\ Silent
  /\ Unchanging
  /\ UNCHANGED <<commands, op, cancelled, target, download, exportCancel, idles, requested,
                 drained>>

PublishKeepAlive ==
  /\ WorkerAt("keepPublish")
  /\ target' = KeepOp
  /\ WorkerTo("keepCatch")
  /\ Silent
  /\ Unchanging
  /\ UNCHANGED <<commands, op, cancelled, download, exportCancel, idles, history>>

CatchKeepAlive ==
  /\ WorkerAt("keepCatch")
  /\ asked' = IF cancelled \/ stopped THEN asked \cup {KeepOp} ELSE asked
  /\ \/ WorkerTo("keepWait")
     \/ /\ cancelled \/ stopped
        /\ worker' = [worker EXCEPT !.pc = "keepClose", !.failed = TRUE]
  /\ Silent
  /\ Unchanging
  /\ UNCHANGED <<commands, op, cancelled, target, download, exportCancel, idles, requested,
                 drained>>

WaitKeepAlive ==
  /\ WorkerAt("keepWait")
  /\ \E failed \in BOOLEAN :
       worker' = [worker EXCEPT !.pc = "keepClose", !.failed = failed]
  /\ Silent
  /\ Unchanging
  /\ UNCHANGED <<commands, op, cancelled, target, download, exportCancel, idles, history>>

\* Mutant of RestoreTarget: the maintenance operation takes its target along.
ForgetTarget == target' = NoTarget

RestoreTarget == target' = worker.kept

CloseKeepAlive ==
  /\ WorkerAt("keepClose")
  /\ \/ FailKeepAlive
     \/ /\ ~worker.failed
        /\ worker' = [worker EXCEPT !.pc = "idle", !.kept = NoTarget]
        /\ RestoreTarget
        /\ Emit(<<Kind("keepAliveFinished")>>)
        /\ UNCHANGED op
  /\ Unchanging
  /\ UNCHANGED <<commands, cancelled, download, exportCancel, idles, history>>

---------------------------------------------------------------------------

WorkerStep ==
  \/ TakeRun
  \/ PrepareSession
  \/ Connect
  \/ ReportSignInCancelled
  \/ CheckCancelled
  \/ ClearTarget
  \/ Execute
  \/ PublishTarget
  \/ CatchCancel
  \/ PollResult
  \/ TakeMore
  \/ Fetch
  \/ ShowPage
  \/ FinishPage
  \/ RefuseDrain
  \/ BindDrain
  \/ CompleteDrain
  \/ FailDrain
  \/ RefuseExport
  \/ DropExport
  \/ TakeExport
  \/ ExportFails
  \/ PrepareExport
  \/ ConnectExport
  \/ ClearExport
  \/ ExecuteExport
  \/ BindExport
  \/ PollExport
  \/ TakeDisconnect
  \/ TakeShutdown
  \/ ExpireIdle
  \/ Maintain
  \/ ResetCancelled
  \/ StartKeepAlive
  \/ ExecuteKeepAlive
  \/ PublishKeepAlive
  \/ CatchKeepAlive
  \/ WaitKeepAlive
  \/ CloseKeepAlive

CancelStep == CancelDownload \/ CancelFlag \/ CancelTarget \/ SendShutdown

\* The worker ended, and nobody uses its channels any more.
Finished ==
  /\ WorkerAt("ended")
  /\ ui.pc = "closed"
  /\ cancels = {}
  /\ UNCHANGED vars

Next ==
  \/ Run
  \/ RunExport
  \/ More
  \/ OpenExport
  \/ DrainCursor
  \/ Disconnect
  \/ CancelTab
  \/ Shutdown
  \/ CancelStep
  \/ PollEvent
  \/ StopExport
  \/ \E c \in cancels : SendCancel(c)
  \/ WorkerStep
  \/ Finished

\* What the worker waits for without a limit: the end of an operation, and the
\* `USE` statement of a new session, which no cancel reaches. The transport of an
\* export's session belongs to its download, whose cancel interrupts it.
Waiting ==
  \/ WorkerAt("connect")
  \/ WorkerAt("exportConnect") /\ worker.x \notin exportCancel
  \/ WorkerAt("poll") /\ worker.x \notin asked
  \/ WorkerAt("keepWait") /\ KeepOp \notin asked
  \/ worker.pc \in {"drain", "exportPoll"} /\ worker.x \notin exportCancel \cup asked

\* Threads run, and every network read has a response timeout, but the server may
\* report a statement as running for ever. A query ends once CancelOperation was
\* sent for it: the server then ends it, or cannot be reached.
Fairness ==
  /\ WF_vars(WorkerStep /\ ~Waiting)
  /\ WF_vars(CancelStep)
  /\ WF_vars(\E c \in cancels : SendCancel(c))

Spec == Init /\ [][Next]_vars

FairSpec == Spec /\ Fairness

---------------------------------------------------------------------------
(* Properties *)

Number  == {0} \cup Queries \cup Exports
Targets == {NoTarget, KeepOp} \cup Number
Cursors == {"unavailable", "available", "draining", "downloaded", "consumed",
            "complete"}
KeepAlivePcs == {"keepAlive", "keepExecute", "keepPublish", "keepCatch",
                 "keepWait", "keepClose"}
CommandPcs == {"prepare", "connect", "signInCancelled", "check", "clear",
               "execute", "publish", "catch", "poll", "fetch", "fetched",
               "paged", "drain", "exportPrepare", "exportConnect", "exportClear",
               "exportExecute", "exportBind", "exportPoll"}

UiPcs == {"ready", "events", "cancel", "target", "send", "closed"}
WorkerPcs ==
  {"idle", "ended", "maintain", "reset"} \cup CommandPcs \cup KeepAlivePcs

UiStates ==
  [pc: UiPcs, busy: BOOLEAN,
   cancelling: BOOLEAN, connected: BOOLEAN, execution: Number, more: BOOLEAN,
   cursor: Cursors, rows: Nat, foreign: BOOLEAN, snapshot: {NoSnapshot} \cup Nat]

WorkerStates ==
  [pc: WorkerPcs, x: Number, session: Number, expected: Number, cursor: Cursors, rows: Nat,
   pending: Nat, wanted: Nat, batch: Nat, kept: Targets, failed: BOOLEAN]

CommandTypes ==
  [kind: {"run", "export", "more", "drain", "disconnect", "shutdown"}, x: Number,
   rows: Nat, expected: Number, stopped: BOOLEAN]

EventTypes ==
  [kind: {"connecting", "connected", "busy", "keepAliveFinished", "cancelled",
          "cancelError", "disconnected"}]
    \cup [kind: {"rows", "previewRows"}, x: Number, rows: Nat]
    \cup [kind: {"ready"}, more: BOOLEAN]
    \cup [kind: {"error"}, disconnected: BOOLEAN]
    \cup [kind: {"cursor"}, x: Number, state: Cursors]
    \cup [kind: {"downloaded"}, x: Number]
    \cup [kind: {"downloadFailed"}, x: Number, consumed: BOOLEAN, disconnected: BOOLEAN]

TypeOK ==
  /\ ui \in UiStates
  /\ worker \in WorkerStates
  /\ commands \in Seq(CommandTypes)
  /\ events \in Seq(EventTypes)
  /\ op \in [x: Number, total: 0..MaxRows, served: 0..MaxRows]
  /\ {cancelled, stopped} \subseteq BOOLEAN
  /\ download \in Number
  /\ exportCancel \cup requested \subseteq Number
  /\ cancels \subseteq [target: Targets, current: BOOLEAN]
  /\ {target} \cup asked \subseteq Targets

\* The shared cancellation target is the open operation, or nothing: also
\* after a keep-alive, which borrows it, a failed fetch or a cancelled setup.
\* Only while an operation starts, or a keep-alive runs, do the two differ.
TargetIsBound ==
  worker.pc \notin {"execute", "publish", "exportExecute", "exportBind"} \cup KeepAlivePcs =>
    target = op.x

TabInv == TypeOK /\ TargetIsBound

\* A cancel that the user requested before the query was submitted prevents
\* its submission, whatever setup was doing (queries.md, "Cancel work").
CancelPreventsSubmission ==
  [][worker.pc = "check" /\ worker'.pc = "clear" => worker.x \notin requested]_vars

\* A cancel reaches a query that runs: either the cancelling thread sees the
\* target, or the worker sees the flag, in whatever order the two stores and
\* the two loads happen.
CancelReachesServer ==
  WorkerAt("poll") /\ worker.x \in requested /\ ui.pc # "target" =>
    \/ worker.x \in asked
    \/ \E c \in cancels : c.target = worker.x

\* A drained export holds each row of its result exactly once: the rows of the
\* dialog's snapshot, which may be older than the tab, the rows that were fetched
\* beyond the preview, and the rest.
DrainIsWhole == \A d \in drained : d.rows = d.total

\* When the worker has nothing to do and the tab has seen everything, the tab
\* is not busy: every path of every command reports its end.
NotStuckBusy ==
  UiReady /\ commands = <<>> /\ events = <<>> /\ WorkerAt("idle") => ~ui.busy

\* An export that was reviewed for a session runs in that session and in no
\* other, with its settings, temporary tables and transaction, although the
\* idle timer may close it at any time (run_export.rs:119-120).
ExportKeepsSession ==
  WorkerAt("exportExecute") => worker.expected \in {0, worker.session}

\* A tab runs one query at a time (queries.md: "A tab can run one query at a
\* time"): no query waits behind another one.
OneQuery ==
  worker.pc \in CommandPcs => \A i \in 1..Len(commands) : commands[i].kind # "run"

\* The result table holds the rows of one query.
OneResult == ~ui.foreign

\* Once the tab shuts its worker down, the worker closes the session and ends,
\* whatever it was doing; only a server that never finishes the `USE` statement of
\* a new session can keep it.
WorkerEnds == stopped ~> WorkerAt("ended") \/ [](WorkerAt("connect"))

=============================================================================
