# Formal models of Qrow

TLA+ models of the parts of Qrow where several threads share state: the result
spool of an export, the download that hands a result from a session to a file
writer, the registry of export jobs, the tab worker with its controller, the
catalog worker, the saver of the workspace file, and the two services that keep
sign-ins. TLC checks the models on small instances. TLAPS proves the invariants
of all eight, and two refinements, for every value of the constants.

Paths below are relative to the repository (`src/worker.rs` is
`src/src/worker.rs` in `PROJECT.json`).

## Modules

| Module | What it is | Code |
| --- | --- | --- |
| `ResultStream` | What a result promises its readers: abstract specification | the contract of `Spool`, `Producer`, `Reader` |
| `Spool` | The spool file, its commit record, its producer and its readers | `src/export/spool.rs` |
| `Download` | Routing of one download's cancellation, with the runner around it | `src/worker/download.rs`, `src/worker/run_export.rs`, `Runner::drain` |
| `Jobs` | The registry of export jobs: limit, shared permits, cancel, quit | `src/export/jobs.rs`, as `src/ui/export_dialog.rs` and the workers use it |
| `TabWorker` | A tab, its worker thread, cancel threads and the idle timer | `src/worker.rs`, `src/worker/lifecycle.rs`, the tab part of `src/ui.rs` |
| `CatalogWorker` | The catalog's worker thread and the calls of the window | `src/catalog/worker.rs`, `Scope` of `src/catalog.rs` |
| `WorkspaceRegister` | What the workspace file promises: abstract specification | the contract of `Saver` and `WorkspaceFile` |
| `Saver` | Processes, saver threads, the workspace file and its disk | `src/storage.rs`, autosave and quit in `src/ui.rs` |
| `TokenService` | One OpenID Connect sign-in, its callers, store and provider | `src/oidc/service.rs`, its window in `src/ui/sign_in_view.rs` |
| `ExternalAuth` | Trino browser sign-in shared by the sessions of a connection | `src/external_auth.rs`, the request loop of `src/connector/trino/protocol.rs` |
| `SpoolProofs`, `DownloadProofs`, `JobsProofs`, `TabWorkerProofs`, `SaverProofs`, `TokenServiceProofs`, `ExternalAuthProofs`, `CatalogWorkerProofs` | Theorems about the module of that name | |
| `MC*` | Instances for TLC | |

`Download` uses the spool as its status only, and `TabWorker` takes a drain as
one step (bind, then complete or fail), and a run-and-export as its steps on the
session and the tab. Each coarser view is justified by the
finer module: `Spool` shows that a status is final and decides what readers
see, `Download` shows that a drain ends with a session that nothing else
touches. `Jobs` has the download as a callback, which is `Download`'s stop. The
other modules share no state with these.

## The system

| Component | State | Operations | What is hard |
| --- | --- | --- | --- |
| Result spool (`export/spool.rs`) | a file, a commit record (offset, rows, status) behind a mutex, a condition variable | append, finish, cancel, fail, drop of the producer, read | readers open the file on their own and read it without the lock while it grows; a stop comes between a write and its commit |
| Download (`worker/download.rs`) | route, source, claim and guard of a cancellation behind a mutex | publish, bind, register, complete, cancel, fail, abort, stopped | cancel, completion, a deadline thread and the reuse of the session race |
| Run-and-export (`worker/run_export.rs`) | a request with a job guard and a download | run_export, download_execution, preview, pacing | every early return must resolve the download and decide whether the session survives |
| Tab worker (`worker.rs`, `worker/lifecycle.rs`) | session, cursor, pending batch, flag and target shared with the tab | Run, RunExport, More, Drain, Disconnect, Shutdown, idle maintenance | a cancel meets setup, submission, polling, fetching, keep-alive; commands queue behind maintenance |
| Tab controller (`ui.rs`) | busy, cancelling, connected, cursor, rows per tab | run, next page, cancel, disconnect, close, events | decides from events that are older than its last command |
| Export jobs (`export/jobs.rs`) | registered jobs with the number of their stages | register, fork, cancel, cancel and wait | a stage attaches after the cancel; permits are shared by stages |
| Catalog worker (`catalog/worker.rs`) | queue, running batch, cancel flag, target, sessions | refresh, stop, cancel, configure, set live | a stop meets the end of a batch; commands are read at three kinds of places; a covered request is dropped |
| Saver (`storage.rs`) | lock file, workspace file, queue of snapshots, receipts | save, flush, stop, load | coalescing against acknowledgements; a crash or power loss in the replacement; a second process |
| OIDC service (`oidc/service.rs`) | tokens, generation, secret store | sign in, sign out, access token, configure | a refresh token is replaced before it is saved; a sign-out meets a refresh |
| External authentication (`external_auth.rs`) | a token and one browser flight per entry | authenticate, clear, reject | a late flight after sign-out; the last waiter leaves |
| Export budget (`export/budget.rs`) | bytes in use, shared batches with counts | allowance, acquire, share, drop | counts must return to zero in every drop order |
| Stream writers, disk (`export/stream.rs`, `export/disk.rs`) | a temporary output, reserved bytes of a volume | write, save | a failed write must leave the destination as it was |
| Connectors (`connector/`) | a transport, an operation, a cancel target | execute, poll, fetch, close, cancel, abort | what a cut transport leaves behind |
| Assistant, dbt, logs, views | per conversation and per window | | process control and presentation |

Commands go from the controller to a worker through a channel; events come
back through another. A cancel does not use the channel: the controller's
thread stores a flag, reads the published target and starts a thread that
sends CancelOperation. A download is shared by the worker, the file writer,
the export dialog and the job registry. The catalog worker serves the
connections of all tabs that share a catalog; sign-ins are called from every
thread that opens a session. `PROJECT.json` lists every component with its
status, and every hazard with the line where it bites.

## Spool

`file` is the sequence of records in the file, `torn` says that part of one
more has reached it, `commit` is the mutex-protected record. An offset counts
records. `StartAppend`, `CheckBeforeWrite`, `WritePart`, `Flush` and
`CommitRecord` are the steps of `append_bounded` and `write_record_with`
between which another thread can run: the check before the write and the commit
after it take the mutex separately. `StopSpool` (cancel, fail) takes it at any
time. `RecordFailure` and `DropProducer` are the error path. A reader is
`Await` (under the mutex), `ReadRecord` (without it) and `CheckEnd`; a read may also
fail by itself, with an I/O error or for lack of memory (`"failed"`), which ends
that reader and nothing else.

* `SpoolInv` is the inductive invariant. Its parts: the committed prefix holds
  whole batch records with running totals and, when the result is complete,
  exactly one end record after them (`CommittedIsWhole`); while the download
  runs, the producer is at most one record ahead (`ProducerFollows`); each
  reader stands on a record boundary of what it saw committed, and has returned
  just the batches before it (`ReaderFollows`).
* `NoCorruptRead`: the "invalid record" errors of `Reader::next` cannot occur,
  although the file is read without the lock.
* `TerminalIsSticky` (proved, not run): complete, failed and cancelled are
  final, and a failed or cancelled result gains no rows.
* `ImplementsStream`: under the mapping from file and commit record to the
  batches and the outcome, the spool implements `ResultStream`: in order, no
  batch lost or repeated, an end only after all of a complete result. A reader's
  own failure is `Fail`.
* `ReadersFinish`: every reader ends. Fairness: each thread keeps taking steps,
  and the owner of the producer appends, finishes or drops it, because the
  worker holds it in a function that returns.

`BatchSizes = {1, 2}` and `MaxRows = 3` give results of zero to three batches,
unequal batches, and a stop before, between and after them. Two readers are
enough for one to be ahead of the other; readers do not affect each other.

## Download

The routing mutex makes each critical section one action. `call[t]` is the
progress of a stop by thread `t` through `terminal_source`, the store of the
cancel flag and `cancel_operation` or `abort_operation`; `canceller` and
`watchdog` are the threads `qrow-export-cancel` and `qrow-export-deadline`;
`runner` goes through `run_export` or `drain` from the queue to `stopped` or
`complete`. `transport`, `stray` and `wires` are history variables: whether the
session's transport was cut and by whom, whether that hit a session that had
gone on to its next query, and how often CancelOperation was sent.

* `NoStrayAbort`: no stop, cancel or deadline of this download cuts the
  transport under the next query.
* `CancelFinishedBeforeReuse`: the session is reused only when the download's
  CancelOperation was answered, so it cannot hit the next operation.
* `AbortedSessionDiscarded`: a session whose transport was cut by the
  cancellation is dropped.
* `TerminalBeforeProtocol`, `OneCancelRequest`, `CompleteDetaches`,
  `WriterReleased` (proved, not run): readers are stopped before the server is
  asked, any number of stops sends one CancelOperation, after a complete result
  nothing touches its session, and no job guard is left when runner and cancel
  thread are done.
* `Resolves`: a stopped download, or one that its runner left, has a terminal
  source and status, and the runner is free.

`DownloadInv` is inductive. Besides the types it says that the route is pending or
a transport before bind, and that the runner is done only with a closed route,
the session reused or discarded (`RunnerInv`), that whoever comes to the routing
has already stopped the readers and set the flag (`CallInv`), that one cancel
thread was claimed for a started cancellation and its answer is recorded when
it is there (`CancelInv`), and what is known of a cut transport and of a kept
session (`SessionInv`). The properties above it follow from `DownloadInv` by
definition expansion.

Fairness: every started thread takes its next step, the
deadline passes, and a blocked server call returns once its transport was cut
or the operation cancelled. A server that answers nothing is included: the
runner waits in `Waiting` without fairness until it is interrupted.

`MCDownloadInterrupted` is expected to be violated. The connector boundary says
that the owning worker must discard a session after `abort_transport`
(`src/connector/mod.rs:49-50`). When a stop comes between the publication of
the spool and the bind, `Download::bind` cuts the transport and `Runner::drain`
reports a refused drain that keeps the session and its cursor. For this reason
`transport` tells `"refused"`, cut by the runner's own refused bind, from
`"aborted"`, cut by the cancellation, and `AbortedSessionDiscarded` is about
the latter.

Two threads in `MCDownload` are enough for two stops to overlap; every further
stop meets the claim or the closed route just as the second. The proofs hold
for any set of threads.

## TabWorker

The tab's commands (`Run`, `RunExport`, `More`, `DrainCursor`, `Disconnect`,
`Shutdown`) have the guards of the controller. `CancelTab` is a sequence of steps,
since the worker runs between them: stop the export's download, set the flag, read
the target, start the thread. `Take` receives a command; the actions after it
are the pieces of `run`, `run_export`, `fetch_preview`, `drain` and `maintain`
between two accesses to shared state. A page ends in `FinishPage`, after its last
rows were sent. `OpenExport` is the dialog, which keeps the rows it was opened with
(`ui.snapshot`): `DrainCursor` checks the tab of now and sends that snapshot, which
may be older, and `Stale` is the worker's check of it. `ExpireIdle`, `Maintain` and the keep-alive steps are
`lifecycle.rs`. The tab applies one event per step (`PollEvent`), all that are there
before the user can act again (`ui.pc = "events"`), as `drain_workers` does.

A run-and-export carries the session that its dialog reviewed (`expected`). The
worker refuses the command when that session is gone (`SessionKept`), drops it
when the export was stopped in the queue, and else goes through
`PrepareExport` to `PollExport`, each of which ends in `ExportFails` when the
download is stopped. From the first row on an export is a drain.

* `TabInv`: types, and the published target is the open operation except while
  one is being submitted or a keep-alive has borrowed it.
* `CancelReachesServer`: a requested cancel of a query that is being polled is
  never lost between the flag and the target.
* `CancelPreventsSubmission`: a cancel before submission prevents it.
* `NotStuckBusy`: a tab is never left busy with nothing that could end it.
* `OneResult`: the table never mixes rows of two executions.
* `DrainIsWhole`: an exported cursor holds each row once: the rows shown, the
  row fetched beyond the limit, and the rest. A drain with a snapshot older than
  the rows the worker has shown is refused.
* `ExportKeepsSession`: a reviewed export executes in the reviewed session or not
  at all, although the idle timer may close that session, or the dialog be slow,
  at any point before.
* `WorkerEnds`: after shutdown the worker closes its session and ends, unless it
  stays in the setup of a session for ever.

Instances. `MCTabWorker` has two executions, the second of which may be an export,
and no idle timer; `Page = Limit = 2` with results of up to two rows gives empty,
full and cut pages. `MCTabIdle` has a query and then an export, results of up to
two rows, one idle period with keep-alive, `Page = Limit = 1` and browser
sign-in. A result of two rows passes the limit: the second row is fetched beyond
it and waits (`pending`) for the next page or a drain, while results of at most one
row are complete. A dialog that was opened before the first or the second row has a
stale snapshot, and the timer expires under an open cursor and before an export. The two violations explain why these
are separate: `CancelPreventsSubmission` does not hold once idle maintenance can
meet a queued run.

* `MCTabLostCancel`: `maintain` resets the cancel flag (`lifecycle.rs:58`). A
  run queued after the timer expired, and cancelled before the worker takes it,
  is submitted. `docs/queries.md:202-203` says the request is recorded and
  prevents submission.
* `MCTabBusy`: the events of maintenance clear `tab.busy` (`ui.rs:1913`,
  `ui.rs:1773`) of a run that waits behind it, so a second run is accepted.
  `docs/queries.md:4` says that a tab can run one query at a time.

Both defects reach further than the property of their run: two queries that wait
behind each other share one flag, one table and one busy mark, so with a third
query and an idle period `OneResult` and `CancelReachesServer` fail as well. So
they do after a cancelled browser sign-in, which is reported by two events:
between them the tab is not busy while the worker still sends the second.
`TabWorkerProofs` proves the properties for tabs without either, and `MCTabIdle`
shows which of them survive one idle period and two executions.
`BrowserAuth` is off in `MCTabWorker` for the same reason.

`DrainIsWhole` relies on the server answering a fetch of a cancelled operation with
an error. Fairness: every network read has a response timeout, so the worker
takes its steps; only the poll of a statement, the wait of a keep-alive and a
drain may last for ever, unless their operation was asked to cancel, and so may the
setup of a session, which no cancel reaches: the connector polls its `USE`
statement without a deadline, a target or a look at the flag (`hive.rs:295`). A
download interrupts the transport of the session that its export opens, so
`exportConnect` ends when the export is stopped. Threads that were started run.
The session is a Kyuubi session.

## Jobs

`export[e]` is the dialog of one export: `Admit`, `Attach` start a registration
of its writer or of its download, `Retain` takes the registry lock and prunes,
and the outcome is one of `RefuseStage`, `Join`, `RefuseJob` and `Open`.
The lock covers all of it, but guards are forked and dropped without the lock,
so a registration has a second look at a job after the pruning, and the callback
of a late stage (`Dispatch`) and of a late job (`Request`) come after the unlock.
`stopper` is the thread in `cancel` or `cancel_and_wait`: it lists the jobs under
the lock and then takes one job at a time, the flag first (`StoreFlag`) and the
callback after it (`CallBack`), before it waits (`AwaitJob`). `holders`,
`asked`, `called` and `full` are history. The window registers on one thread,
but `Jobs` is a shared handle and its tests use it from several, so
registrations of different exports interleave in the model.

* `WithinLimit`: with all the stages of an export counted once, the exports of a
  connection that hold a guard stay within the limit of every admission.
* `RefusedWhenFull`: an export is refused only when jobs that were alive had
  reached the limit: an ended job gives its permit back.
* `CancelDispatched`: every job that a cancel listed has its download called
  back, also when the download attaches during that cancel or after it.
* `QuitIsComplete`: after a successful `cancel_and_wait` no stage is left, but
  those of unrestricted copies that came after quit began, which are cancelled.
* `JobsInv` is inductive: guards are counted and a job that has one is listed
  (`Counted`); the guard of the dialog is there until its download is attached
  (`Staged`); a listed job has its flag or is on the list of the stopping thread
  (`Flagged`); what quit has yet to wait for (`Stopping`); a count that reaches
  the limit is one of live jobs (`LimitSeen`).

`MCJobs` has two exports, two connections, the limits none and one: the second
export meets a full, a freed and another connection. A third export would only
be refused or admitted as the second is. Exports are symmetric: nothing orders
them, and no liveness is checked with the symmetry.

## CatalogWorker

A call of the window is a `script`: the step it is at, whom it stops, which members
leave with it, and the command it sends at the end. The worker runs between the
steps: a stop reads the running batch (`Look`), sets the flag if it is a refresh
of its member (`Flag`), reads the target and cancels it (`Cancel`), and tells the
worker (`Tell`); a shutdown or a change of the connection does the same to all
(`Raise`, `CancelAny`); `SendLast` sends the call's own command. The worker is
`r.pc`: `Receive`, `Automatic`, `Start`, then for each request `Begin`, `Connect`,
`Execute`, `Sent` (the target is published), `Polled`, `StopSeen` and `Accept`
(commands taken while the server works, `AcceptedEarly` the ones that are handled
at once), and between requests the checkpoint (`CheckCommand`, `CheckShutdown`,
`Interrupted`, `Proceed`). `Handle` is the whole of `Runner::handle` on one command.
`EndLook`, `EndRunning`, `EndFlag` and `Outcome` are the end of a refresh, whose
order decides what a late stop finds. A refresh carries the number of the call
that asked for it, `n`, which orders the queue; `stopAt` is the last call that
stopped a member, and is history.

* `CatalogInv`: what other threads see of the running refresh is the refresh that
  the worker runs, a request uses the session of its member, and no waiting
  refresh is one that another waiting or the running one includes.
* `NoLeftoverFlag`: the flag belongs to the running refresh, or the command that
  wipes it is on its way. A flag that stayed would keep the next stop out.
* `FlagStays`: the command of an earlier stop that comes late does not take down
  the flag of a later refresh.
* `CancelReachesRequest`: a stop that comes between the start of a request and
  the publication of its target still reaches the server.
* `OnlyOwnStops`: a refresh is cancelled only by a stop of its own member made
  after it was asked for, and no waiting refresh is lost to another member.
* `RefreshEnds`, `ShutdownEnds`: by the deadline if by nothing else, unless the
  setup of a session never ends (`StuckInSetup`).

`MaxCalls = 3` bounds the calls of the window and the automatic refreshes
together: two refreshes and a stop, a refresh with a stop and a reconfiguration, or
a stop between two refreshes are the shortest histories in which batches, flags and
members can be confused. Two members are one that is stopped and one that is not.
The scopes, the connection and one schema of it, cover each other one way. Fairness: the
window's thread and the worker run, and the deadline passes. The server need not
answer a request: the worker looks at the flag and the deadline while it waits. The
setup of a session is outside the fairness of the worker, because neither flag nor
deadline is looked at there, and its `USE` statement is polled for as long as the
server reports it as running (`worker.rs:1205`, `hive.rs:295`).

Observed while modelling, and left as they are because nothing in the
repository promises otherwise. A refresh that the running refresh of another
member covers is dropped (`worker.rs:742`) and is lost if that one is stopped. A
refresh that is asked for after a stop of its member, while the stopped refresh
winds down, is removed with the others (`worker.rs:614`). `accept_refreshes` handles
a Refresh ahead of a Configure that it defers.

## Saver and WorkspaceRegister

An edit is a number and a snapshot of the workspace is the number of its last
edit. `survivors` are the snapshots that a power loss may leave at the path:
`Rename` adds the new one, `SyncDirectory` makes it the only one, and without `Sync`
the data of the new file may be lost (`Torn`). The steps of `write_atomically` are
`Write`, `Sync`, `Rename`, `SyncDirectory`, each of which may fail; `Receive`,
`Coalesce` and `StopCoalescing` are the thread's loop. The window edits, sends a
save when its timer fires, and quits: a flush, its receipt, and a second flush when
there were edits meanwhile (`FlushAgain`), or a quit that is called off (`CallOff`),
because a connection form is being saved or work has become active. `Acquire` and `Exit` take and free
the lock; a process may crash at any point and another one open the file, and
the power may fail.

* `ImplementsRegister`: the file is read as one whole snapshot at any time, also
  after a power loss, only moves on to later ones but for a power loss, and an
  acknowledged snapshot is never replaced by an older one.
* `QuitKeepsEdits`: a confirmed quit leaves the last edit on the disk.
* `SaverInv` is inductive: one process holds the lock (`LockInv`), the stop is the
  last command (`StopInv`), snapshots wait in the order of their edits
  (`OrderInv`), the write is as far as its step says (`WriteInv`), and a flush is
  the last command until it is answered (`FlushInv`).
* `EditsReachFile`: an edit reaches the file, its window ends, the user is
  told after the edit, or a quit that was called off left it behind (`stranded`).
  Fairness: the thread, the window's timer and its receipts. A write that fails
  for ever is included.

The last case is a behaviour of the code. While a quit waits for its flush, autosave
clears the mark of an edit without sending a save (`ui.rs:1931-1937`), because the
end of the quit flushes again. But `request_quit` returns without a flush when a
form is saving or work has become active (`ui.rs:1381-1390`). The window stays
open, and the edit is neither saved nor reported until the next edit or quit;
`docs/workspace.md:171-174` says that Qrow saves after a short editing delay, and
saves edits made during a save before it exits. A crash in that state loses the edit.

Two processes and two edits: an edit during the flush of another one, and a
process that takes over from one that ended in the middle of a save.

## TokenService

One sign-in: `config` and `gen` (the record and its generation), `holder` (the work
mutex), `tokens` (in memory), `store`, and the provider's `valid` tokens. A
caller is `Ask`, `Lock`, `Load`, `Reuse` or `NeedsRefresh`, `Exchange` (the provider may
replace the refresh token), `SavePending` (the new token is saved first),
`IdToken`, `Save`; each may fail. The browser sign-in and the sign-out are threads
of their own, with what the window makes of their results (`ShowSignIn`,
`ShowSignOut`). `Crash` loses everything but the store and the workspace file.

* `NewestIsKept`: the store has the refresh token that the provider accepts,
  unless the provider's answer was lost or its save failed, and a replaced token
  is never presented.
* `SignedOutStaysOut`: after a sign-out no refresh, late browser sign-in, edit or
  crash brings tokens back.
* `TokenInv` is inductive: the owner of the lock, and nobody else, is between
  taking and freeing it (`LockInv`), memory and store agree (`MemoryInv`), and a
  token that is not stored yet is known to one thread and accepted (`RefreshInv`).

`MaxTokens = 3`: sign-in, one replacement, and a second sign-in or replacement.
`MaxEdits = 1` gives two requirements; `MaxChanges = 2`, a sign-out and an edit;
`MaxCrashes = 1`. Callers and accounts are symmetric, and no liveness is checked.

## ExternalAuth

An entry is the state of the connection between two sign-outs or edits, a flight
is one browser sign-in. `Open` finds or makes the entry, `Send` to `Fail` are the
attempts of the request loop, each of which may also end the request (`Failed`): a
cancelled query or an oversized token, a network error, a challenge of no use.
Requests that close or cancel a statement do not authenticate, and are left out.
`Check`, `Enter` (join a flight or start one) and `Leave` are `authenticate`.
`RunOpener`, `OpenerReturns` and `Publish` are the flight's thread: it may start the
command that opens the browser, waits for it, polls, and ends.
`Invalidate` and `Forget` are the two steps of `Entry::invalidate`: the flag without
the lock, and the state under it.

* `SharedSignIn`: while a query waits on a valid entry its flight is not
  cancelled, whoever else leaves.
* `SignedOutForgets`: an invalidated entry never holds a token again.
* `AuthInv` is inductive: a flight counts its waiters, runs for one entry and is
  cancelled when it is no longer that entry's, and a connection has one
  browser sign-in that is not cancelled.
* `WaitingEnds`: each browser sign-in leaves its entry, unless its opener never
  returns (`OpenerStuck`). Fairness: the polls of a flight look at its flag and
  deadline, so its thread ends once it polls. The opener is waited for without
  either (`external_auth.rs:447`), so nothing is assumed of `OpenerReturns`.

Two sessions, two entries and two flights: before and after a sign-out, and a
second flight after a cancelled one. A request that passed its check before a
sign-out may still open the browser; its token is not stored.

## Proofs

Every proof is checked by TLAPS without any assumption but those on the
constants, which are stated in the modules and evaluated by TLC in each run:
bounds are natural numbers, batch sizes are positive, and names like the owner
of a free lock differ from the processes, threads or accounts. `ExternalAuth` needs
finitely many callers, because it counts them; all other sets may be infinite.

* `SpoolCorrect`, `NeverCorrupt`, `OutcomeIsFinal`. Every step keeps the
  committed prefix of the file (`PrefixKept`), so what a reader has checked stays
  true while it reads without the lock; `CommitRecord` is the only step that
  extends the prefix, and only by the record that `ProducerFollows` describes.
* `SpoolImplementsStream`. A flush is a stutter, a commit is `Publish` or
  `Close`, a stop is `Close` or a stutter, a read is `Deliver`, the end record
  is `Finish`. The refinement needs `SpoolInv` in both states.
* `DownloadCorrect`: `DownloadInv` is preserved by the steps of the runner, of
  the stop calls, and of the two threads, one lemma per part of the invariant
  and per kind of step. `NeverStray`, `CancelAnsweredBeforeReuse`,
  `AbortedNeverReused`, `ReadersStoppedFirst`, `CancelSentOnce`,
  `CompleteIsDetached` and `WriterFreed` follow.
* `JobsCorrect`: `JobsInv`, one lemma per part. Only `Open` gives an export its
  first guard (`FirstGuard`), and every export of a connection that holds a guard
  was among those it counted, so `WithinLimitAlways` follows;
  `RefusedWhenFullAlways` rests on `LimitSeen`, `QuitIsCompleteAlways` on
  `Stopping`. `CancelDispatchedAlways` adds `CancelDispatched` to `JobsInv` as an
  inductive invariant.
* `TabCorrect`: `TabInv`, of any tab. Its strengthening `TabIInv` adds what the
  pieces of a command know of the operation that they are about to publish or
  have set aside for a keep-alive (`TargetInv`), of the rows of a page (`RowsInv`)
  and of the reviewed session (`ExportInv`); `ExportStaysInSession` follows.
* `NeverStuckBusy`, `OneQueryAtATime`, `OneResultAlways`, `DrainWholeAlways`,
  `CancelPreventsAlways`, `CancelReachesAlways`: the properties about the order of
  commands and events, for a tab whose idle timer does nothing and whose
  connection needs no browser sign-in (`NoMaintenance`). The hypothesis is needed:
  `MCTabBusy` and `MCTabLostCancel` are the counterexamples without it. `OrderInv`
  says that a tab is in one of four phases (`PhaseInv`): no command and no event
  that ends one (`Quiet`), a command that waits (`Queued`), a worker that runs it
  (`Working`), or one ending event on its way (`Answered`). Everything else is
  about a phase: which events the channel holds (`ChannelInv`), when the tab may
  ask for more rows (`MoreInv`), which execution the queue and the worker have
  (`QueueInv`, `WorkInv`), where a requested cancel is (`RequestInv`), and that
  the rows shown and the rows served agree (`CountInv`).
* `SaverCorrect`: `SaverInv`. A receipt that says ok means a file on the disk,
  because the flush was the last command and the thread has nothing else to
  write: this is `FlushInv`, and it needs the order of the queue and of the write.
  `QuitKeepsEditsAlways` reads it off for a window that quit.
  `RegisterImplemented`: an edit is `Issue`, a rename `Store`, the sync of the
  directory `Settle`, the answer to a flush `Promise`. `PromiseIsKept` carries the
  abstract promise over to the file.
* `TokenCorrect`: `TokenInv`; with it `SignedOutStaysOutAlways` and
  `NewestIsKeptAlways`, each inductive together with `TokenInv`. Mutual exclusion
  is what makes them true: a sign-out waits for the refresh that holds the
  tokens, and one that comes first has the generation moved on.
* `AuthCorrect`: `AuthInv`. Joining and leaving change one waiter set by one
  element, so the count follows by the cardinality of a set with one element
  more or less. `SharedSignInAlways` and `SignedOutForgetsAlways` are inductive
  with it.
* `CatalogCorrect`, `NoFlagLeft`, `CancelReaches`, `FlagStaysUp`, `OwnStopsOnly`: the
  five safety properties of `CatalogWorker`, from one inductive invariant `IInv`.
  All of them are about the order of calls: a flag, a cancellation at the server
  or a command on its way must be later than the refresh that it meets. `IInv`
  therefore gives each of them a call in `stopAt` and compares it with the `n` of
  the refresh: for the call in progress (`ScriptInv`), for what was asked for
  (`OrderInv`), for the commands on their way, also among each other
  (`ChannelInv`), for those set aside during a request (`DeferredInv`), for the
  flag and for the batch that a stop has seen (`FlagInv`), and for a refresh that
  is about to end as cancelled (`RunsInv`). One lemma per step of the window and
  of the worker. There is no hypothesis but the assumptions on the constants.

One caution for whoever extends these proofs: the SMT encoding of this version
of TLAPS is not to be trusted with an EXCEPT that updates a field by arithmetic
after another field of the same element. The modules give such updates an
operator (`Joined`, `Left`, `Again`, `Expired`) or rebuild the record, and for
each module it was checked that the prover does not derive FALSE from its
actions.

Only model-checked: the order of a tab's commands when the idle timer or a browser
sign-in takes part, where most of it does not hold, and the liveness properties,
since TLAPS does not reason about fairness and ENABLED.

## Bounds

`MaxRows`, `BatchSizes` (Spool); `Callers` (Download); `Exports`, `Limits` (Jobs);
`Queries`, `Exports`, `MaxRows`, `Page`, `Limit`, `MaxIdle` (TabWorker); `MaxCalls` (CatalogWorker);
`MaxEdits` (Saver); `MaxTokens`, `MaxEdits`, `MaxChanges`, `MaxCrashes`
(TokenService); `MaxEntries`, `MaxFlights` (ExternalAuth). In `TabWorker` a row
count stands for the rows, because rows of one operation arrive in order. The
proofs hold for every value of the bounds.

## Not modelled

* In `TabWorker`: `update_profile`, the guard by which other components defer an
  idle disconnect, Postgres and Trino sessions, the preview and the pacing of an
  export.
* In `CatalogWorker`: names, rows and the merge of catalogs; a request succeeds
  or fails.
* In `TokenService`: several sign-ins (each has its own lock and store key), the
  removal of a sign-in, and the status texts. A call that took the account
  before a sign-in with another account may mark the new one as expired; the
  next successful call corrects it. An edit between the last check and the save of
  a browser sign-in stores tokens of the old requirements, which `Matches` then
  refuses; this is in the model.
* `export/budget.rs`: each operation is one critical section over a map from
  buffer addresses to counts. A property would restate its arithmetic.
* `assistant/transcripts.rs`: a coalescing writer of the shape of the saver,
  without receipts and without a second process.
* Text and bytes: SQL scanning, export formats, the Thrift, SASL, TLS, JWT and OIDC
  protocols, the dbt manifest, migrations of the workspace, the generated Thrift
  client. These are most of the repository's lines, and have no control that a
  state machine could show; so do the views, forms and rendering.
* The agents that the assistant controls are programs outside the repository.

The modules cover the components in which threads or processes share state. What
would come next: a proof of `DrainIsWhole` and `NotStuckBusy` without
`NoMaintenance` (TLC finds neither violated in `MCTabIdle`), the order of a tab's
commands with an idle timer whose events name the command that they answer (the
repair of `MCTabBusy`), and the sessions of Trino and Postgres as parameters of
`TabWorker`.
