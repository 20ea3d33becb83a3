------------------------------- MODULE Saver --------------------------------
(***************************************************************************)
(* The workspace file and its saver thread (src/storage.rs), with the      *)
(* window that edits, saves and quits (src/ui.rs). Several processes may   *)
(* open one workspace, crash, be killed, or lose power. An edit is a       *)
(* number; a snapshot of the workspace is the number of its last edit.     *)
(***************************************************************************)
EXTENDS Integers, Sequences

CONSTANTS
  Processes,  \* Qrow processes that open the same workspace
  Nobody,     \* the owner of a free lock
  MaxEdits    \* bound on the edits of all processes

ASSUME NobodyAssumption == Nobody \notin Processes
ASSUME MaxEditsAssumption == MaxEdits \in Nat

VARIABLES
  lock,       \* owner of the workspace lock
  file,       \* the snapshot the path names
  survivors,  \* what a power loss may leave at the path
  edits,      \* edits made by all processes
  promised,   \* history: the last snapshot acknowledged by a flush
  ui,         \* per process: what its window does
  edited,     \* per process: its last edit
  dirty,      \* per process: an edit waits for the autosave timer
  flushed,    \* per process: the snapshot of the last flush
  receipt,    \* per process: answer to that flush
  told,       \* per process: its last edit when a failure was last reported
  stranded,   \* per process: its last edit that a called-off quit left unsaved
  errors,     \* per process: failures on their way to the window
  queue,      \* per process: commands to the saver thread
  saver       \* per process: the saver thread

diskVars == <<lock, file, survivors>>
windowVars == <<ui, edited, dirty, flushed, receipt, told, stranded>>
vars == <<diskVars, windowVars, edits, promised, errors, queue, saver>>

\* A file whose data may not have reached the disk is worth nothing after a
\* power loss.
Torn == -1

Snapshots == 0 .. MaxEdits
Flushes == {"quit", "finish"}
Commands == [kind : {"save", "stop"} \cup Flushes, n : Snapshots]

NoThread == [pc |-> "none", kind |-> "save", n |-> 0, synced |-> FALSE, ok |-> FALSE]

\* Saver::open ran and the process did not end.
Open(p) == ui[p] \in {"open", "quitting", "failed"}

At(p, pc) == saver[p].pc = pc

Goto(p, pc) == saver' = [saver EXCEPT ![p].pc = pc]

Send(p, kind) == queue' = [queue EXCEPT ![p] = Append(@, [kind |-> kind, n |-> edited[p]])]

Init ==
  /\ lock = Nobody
  /\ file = 0
  /\ survivors = {0}
  /\ edits = 0
  /\ promised = 0
  /\ ui = [p \in Processes |-> "closed"]
  /\ edited = [p \in Processes |-> 0]
  /\ dirty = [p \in Processes |-> FALSE]
  /\ flushed = [p \in Processes |-> 0]
  /\ receipt = [p \in Processes |-> "none"]
  /\ told = [p \in Processes |-> 0]
  /\ stranded = [p \in Processes |-> 0]
  /\ errors = [p \in Processes |-> FALSE]
  /\ queue = [p \in Processes |-> <<>>]
  /\ saver = [p \in Processes |-> NoThread]

-----------------------------------------------------------------------------
(* Opening the workspace                                                   *)

\* WorkspaceFile::acquire: the operating system grants the lock to one process.
Acquire(p) ==
  /\ ui[p] = "closed"
  /\ lock = Nobody
  /\ lock' = p
  /\ ui' = [ui EXCEPT ![p] = "loading"]
  /\ UNCHANGED <<file, survivors, edits, promised, edited, dirty, flushed, receipt, told,
                 stranded, errors, queue, saver>>

\* The workspace is read under the lock, and the thread starts.
Load(p) ==
  /\ ui[p] = "loading"
  /\ ui' = [ui EXCEPT ![p] = "open"]
  /\ edited' = [edited EXCEPT ![p] = file]
  /\ Goto(p, "receive")
  /\ UNCHANGED <<diskVars, edits, promised, dirty, flushed, receipt, told, stranded, errors,
                 queue>>

\* A file that cannot be read or has an unknown version is left untouched.
LoadFails(p) ==
  /\ ui[p] = "loading"
  /\ ui' = [ui EXCEPT ![p] = "closed"]
  /\ lock' = Nobody
  /\ UNCHANGED <<file, survivors, edits, promised, edited, dirty, flushed, receipt, told,
                 stranded, errors, queue, saver>>

-----------------------------------------------------------------------------
(* The window                                                              *)

Edit(p) ==
  /\ Open(p)
  /\ edits < MaxEdits
  /\ edits' = edits + 1
  /\ edited' = [edited EXCEPT ![p] = edits']
  /\ dirty' = [dirty EXCEPT ![p] = TRUE]
  /\ UNCHANGED <<diskVars, promised, ui, flushed, receipt, told, stranded, errors, queue,
                 saver>>

\* 400 ms after an edit. While a quit waits for its flush nothing is sent, but
\* the mark is cleared all the same.
Autosave(p) ==
  /\ Open(p)
  /\ dirty[p]
  /\ dirty' = [dirty EXCEPT ![p] = FALSE]
  /\ IF ui[p] = "quitting" THEN UNCHANGED queue ELSE Send(p, "save")
  /\ UNCHANGED <<diskVars, edits, promised, ui, edited, flushed, receipt, told, stranded,
                 errors, saver>>

ShowError(p) ==
  /\ Open(p)
  /\ errors[p]
  /\ errors' = [errors EXCEPT ![p] = FALSE]
  /\ told' = [told EXCEPT ![p] = edited[p]]
  /\ UNCHANGED <<diskVars, edits, promised, ui, edited, dirty, flushed, receipt, stranded,
                 queue, saver>>

\* Each flush has a receipt of its own; the one of a quit is not read any more
\* once the application is being terminated.
Awaits(p, kind) ==
  \/ kind = "quit" /\ ui[p] = "quitting"
  \/ kind = "finish" /\ ui[p] = "finishing"

\* The window sends the current snapshot and waits for its receipt.
Flush(p, kind, state) ==
  /\ Send(p, kind)
  /\ flushed' = [flushed EXCEPT ![p] = edited[p]]
  /\ receipt' = [receipt EXCEPT ![p] = "none"]
  /\ ui' = [ui EXCEPT ![p] = state]

\* Quit, window close, or "Retry save and quit". Nothing happens while a
\* connection form is being saved, or until the user confirms to quit although
\* work is active.
RequestQuit(p) ==
  /\ ui[p] \in {"open", "failed"}
  /\ Flush(p, "quit", "quitting")
  /\ UNCHANGED <<diskVars, edits, promised, edited, dirty, told, stranded, errors, saver>>

\* Mutant of Current: a confirmed save is taken for the latest one.
AnyFlush(p) == TRUE

\* What the flush saved is all there is to save.
Current(p) == flushed[p] = edited[p]

ConfirmQuit(p) ==
  /\ ui[p] = "quitting"
  /\ receipt[p] = "ok"
  /\ Current(p)
  /\ ui' = [ui EXCEPT ![p] = "saved"]
  /\ queue' = [queue EXCEPT ![p] = Append(@, [kind |-> "stop", n |-> edited[p]])]
  /\ UNCHANGED <<diskVars, edits, promised, edited, dirty, flushed, receipt, told, stranded,
                 errors, saver>>

\* There were edits while the flush was under way, and request_quit flushes again.
FlushAgain(p) ==
  /\ ui[p] = "quitting"
  /\ receipt[p] = "ok"
  /\ ~Current(p)
  /\ Flush(p, "quit", "quitting")
  /\ UNCHANGED <<diskVars, edits, promised, edited, dirty, told, stranded, errors, saver>>

\* A connection form is being saved, or there were edits and work has become
\* active since: request_quit returns, and the window stays open. Autosave may
\* have cleared the mark of those edits.
CallOff(p) ==
  /\ ui[p] = "quitting"
  /\ receipt[p] = "ok"
  /\ ui' = [ui EXCEPT ![p] = "open"]
  /\ stranded' = IF dirty[p] \/ Current(p) THEN stranded
                 ELSE [stranded EXCEPT ![p] = edited[p]]
  /\ UNCHANGED <<diskVars, edits, promised, edited, dirty, flushed, receipt, told, errors,
                 queue, saver>>

QuitFails(p) ==
  /\ ui[p] = "quitting"
  /\ receipt[p] = "failed"
  /\ ui' = [ui EXCEPT ![p] = "failed"]
  /\ told' = [told EXCEPT ![p] = edited[p]]
  /\ UNCHANGED <<diskVars, edits, promised, edited, dirty, flushed, receipt, stranded,
                 errors, queue, saver>>

KeepEditing(p) ==
  /\ ui[p] = "failed"
  /\ ui' = [ui EXCEPT ![p] = "open"]
  /\ UNCHANGED <<diskVars, edits, promised, edited, dirty, flushed, receipt, told, stranded,
                 errors, queue, saver>>

\* "Quit without saving": Saver::stop lets the thread finish its queue.
Discard(p) ==
  /\ ui[p] = "failed"
  /\ ui' = [ui EXCEPT ![p] = "discarded"]
  /\ Send(p, "stop")
  /\ UNCHANGED <<diskVars, edits, promised, edited, dirty, flushed, receipt, told, stranded,
                 errors, saver>>

\* The system ends the application: finish() flushes and blocks the window.
Terminate(p) ==
  /\ Open(p)
  /\ Flush(p, "finish", "finishing")
  /\ UNCHANGED <<diskVars, edits, promised, edited, dirty, told, stranded, errors, saver>>

\* Saver::finish goes on to stop; after a failure it only drops the saver.
Finish(p) ==
  /\ ui[p] = "finishing"
  /\ receipt[p] # "none"
  /\ ui' = [ui EXCEPT ![p] = IF receipt[p] = "ok" THEN "saved" ELSE "dropped"]
  /\ Send(p, "stop")
  /\ UNCHANGED <<diskVars, edits, promised, edited, dirty, flushed, receipt, told, stranded,
                 errors, saver>>

\* The end of the process. Its threads die with it, its lock is released.
Reset(p) ==
  /\ ui' = [ui EXCEPT ![p] = "closed"]
  /\ edited' = [edited EXCEPT ![p] = 0]
  /\ dirty' = [dirty EXCEPT ![p] = FALSE]
  /\ flushed' = [flushed EXCEPT ![p] = 0]
  /\ receipt' = [receipt EXCEPT ![p] = "none"]
  /\ told' = [told EXCEPT ![p] = 0]
  /\ stranded' = [stranded EXCEPT ![p] = 0]
  /\ errors' = [errors EXCEPT ![p] = FALSE]
  /\ queue' = [queue EXCEPT ![p] = <<>>]
  /\ saver' = [saver EXCEPT ![p] = NoThread]
  /\ lock' = IF lock = p THEN Nobody ELSE lock

\* stop() joined the thread, or the saver was only dropped.
Exit(p) ==
  /\ \/ ui[p] \in {"saved", "discarded"} /\ At(p, "none")
     \/ ui[p] = "dropped"
  /\ Reset(p)
  /\ UNCHANGED <<file, survivors, edits, promised>>

Crash(p) ==
  /\ ui[p] # "closed"
  /\ Reset(p)
  /\ UNCHANGED <<file, survivors, edits, promised>>

-----------------------------------------------------------------------------
(* The saver thread                                                        *)

Next1(p) == Head(queue[p])

SaveWaits(p) == queue[p] # <<>> /\ Next1(p).kind = "save"

\* Takes the head of the queue. A command that ended the coalescing loop is
\* kept by the thread (pending); it stays the head of the queue here.
Receive(p) ==
  /\ At(p, "receive")
  /\ queue[p] # <<>>
  /\ queue' = [queue EXCEPT ![p] = Tail(@)]
  /\ IF Next1(p).kind = "stop"
     THEN /\ saver' = [saver EXCEPT ![p] = NoThread]
          /\ lock' = Nobody
     ELSE /\ saver' = [saver EXCEPT ![p] =
               [pc |-> IF Next1(p).kind = "save" THEN "coalesce" ELSE "write",
                kind |-> Next1(p).kind, n |-> Next1(p).n, synced |-> FALSE, ok |-> FALSE]]
          /\ UNCHANGED lock
  /\ UNCHANGED <<file, survivors, edits, promised, windowVars, errors>>

\* Mutant of Coalesce: the first of the waiting saves is kept.
CoalesceFirst(p) ==
  /\ At(p, "coalesce")
  /\ SaveWaits(p)
  /\ queue' = [queue EXCEPT ![p] = Tail(@)]
  /\ UNCHANGED <<diskVars, edits, promised, windowVars, errors, saver>>

\* Only saves are replaced by later saves.
Coalesce(p) ==
  /\ At(p, "coalesce")
  /\ SaveWaits(p)
  /\ queue' = [queue EXCEPT ![p] = Tail(@)]
  /\ saver' = [saver EXCEPT ![p].n = Next1(p).n]
  /\ UNCHANGED <<diskVars, edits, promised, windowVars, errors>>

StopCoalescing(p) ==
  /\ At(p, "coalesce")
  /\ ~SaveWaits(p)
  /\ Goto(p, "write")
  /\ UNCHANGED <<diskVars, edits, promised, windowVars, errors, queue>>

\* write_atomically: a fresh temporary file with the whole snapshot.
Write(p) ==
  /\ At(p, "write")
  /\ Goto(p, "sync")
  /\ UNCHANGED <<diskVars, edits, promised, windowVars, errors, queue>>

\* Mutant of Sync: the file is renamed before its data is on the disk.
SyncNothing(p) ==
  /\ At(p, "sync")
  /\ Goto(p, "rename")
  /\ UNCHANGED <<diskVars, edits, promised, windowVars, errors, queue>>

Sync(p) ==
  /\ At(p, "sync")
  /\ saver' = [saver EXCEPT ![p].pc = "rename", ![p].synced = TRUE]
  /\ UNCHANGED <<diskVars, edits, promised, windowVars, errors, queue>>

\* The path names the new file at once; the directory on the disk may still
\* name the old one, and whatever is there may not have its data.
Rename(p) ==
  /\ At(p, "rename")
  /\ file' = saver[p].n
  /\ survivors' = survivors \cup {IF saver[p].synced THEN saver[p].n ELSE Torn}
  /\ Goto(p, "syncDirectory")
  /\ UNCHANGED <<lock, edits, promised, windowVars, errors, queue>>

\* Mutant of SyncDirectory: the rename is not made durable.
SyncNoDirectory(p) ==
  /\ At(p, "syncDirectory")
  /\ saver' = [saver EXCEPT ![p].pc = "reply", ![p].ok = TRUE]
  /\ UNCHANGED <<diskVars, edits, promised, windowVars, errors, queue>>

SyncDirectory(p) ==
  /\ At(p, "syncDirectory")
  /\ survivors' = {file}
  /\ saver' = [saver EXCEPT ![p].pc = "reply", ![p].ok = TRUE]
  /\ UNCHANGED <<lock, file, edits, promised, windowVars, errors, queue>>

\* Any step of write_atomically may fail; a temporary file is removed.
WriteFails(p) ==
  /\ saver[p].pc \in {"write", "sync", "rename", "syncDirectory"}
  /\ saver' = [saver EXCEPT ![p].pc = "reply", ![p].ok = FALSE]
  /\ UNCHANGED <<diskVars, edits, promised, windowVars, errors, queue>>

\* A flush is answered; the failure of a save goes to the error channel.
Reply(p) ==
  /\ At(p, "reply")
  /\ Goto(p, "receive")
  /\ IF saver[p].kind = "save"
     THEN /\ errors' = [errors EXCEPT ![p] = @ \/ ~saver[p].ok]
          /\ UNCHANGED <<promised, receipt>>
     ELSE /\ promised' = IF saver[p].ok THEN saver[p].n ELSE promised
          /\ receipt' = IF Awaits(p, saver[p].kind)
                        THEN [receipt EXCEPT ![p] = IF saver[p].ok THEN "ok" ELSE "failed"]
                        ELSE receipt
          /\ UNCHANGED errors
  /\ UNCHANGED <<diskVars, edits, ui, edited, dirty, flushed, told, stranded, queue>>

PowerLoss ==
  /\ file' \in survivors
  /\ survivors' = {file'}
  /\ lock' = Nobody
  /\ ui' = [p \in Processes |-> "closed"]
  /\ edited' = [p \in Processes |-> 0]
  /\ dirty' = [p \in Processes |-> FALSE]
  /\ flushed' = [p \in Processes |-> 0]
  /\ receipt' = [p \in Processes |-> "none"]
  /\ told' = [p \in Processes |-> 0]
  /\ stranded' = [p \in Processes |-> 0]
  /\ errors' = [p \in Processes |-> FALSE]
  /\ queue' = [p \in Processes |-> <<>>]
  /\ saver' = [p \in Processes |-> NoThread]
  /\ UNCHANGED <<edits, promised>>

-----------------------------------------------------------------------------

Thread(p) ==
  \/ Receive(p) \/ Coalesce(p) \/ StopCoalescing(p)
  \/ Write(p) \/ Sync(p) \/ Rename(p) \/ SyncDirectory(p) \/ WriteFails(p)
  \/ Reply(p)

\* finish_quit, when the receipt is there.
FinishQuit(p) == ConfirmQuit(p) \/ FlushAgain(p) \/ CallOff(p) \/ QuitFails(p)

Window(p) == Autosave(p) \/ ShowError(p) \/ FinishQuit(p) \/ Finish(p)

User(p) ==
  \/ Acquire(p) \/ Load(p) \/ LoadFails(p)
  \/ Edit(p) \/ RequestQuit(p) \/ KeepEditing(p) \/ Discard(p) \/ Terminate(p)
  \/ Exit(p) \/ Crash(p)

Next == PowerLoss \/ \E p \in Processes : Thread(p) \/ Window(p) \/ User(p)

Spec == Init /\ [][Next]_vars

\* The thread runs, and the window's timer and its receipts are served.
FairSpec ==
  /\ Spec
  /\ \A p \in Processes : WF_vars(Thread(p)) /\ WF_vars(Autosave(p)) /\ WF_vars(ShowError(p))
                          /\ WF_vars(FinishQuit(p))

-----------------------------------------------------------------------------

Writing == {"coalesce", "write", "sync", "rename", "syncDirectory", "reply"}

TypeInv ==
  /\ lock \in Processes \cup {Nobody}
  /\ file \in Snapshots
  /\ survivors \subseteq Snapshots
  /\ edits \in Snapshots
  /\ promised \in Snapshots
  /\ ui \in [Processes -> {"closed", "loading", "open", "quitting", "failed", "finishing",
                           "saved", "discarded", "dropped"}]
  /\ edited \in [Processes -> Snapshots]
  /\ dirty \in [Processes -> BOOLEAN]
  /\ flushed \in [Processes -> Snapshots]
  /\ receipt \in [Processes -> {"none", "ok", "failed"}]
  /\ told \in [Processes -> Snapshots]
  /\ stranded \in [Processes -> Snapshots]
  /\ errors \in [Processes -> BOOLEAN]
  /\ queue \in [Processes -> Seq(Commands)]
  /\ saver \in [Processes -> [pc : Writing \cup {"none", "receive"}, kind : {"save"} \cup Flushes,
                             n : Snapshots, synced : BOOLEAN, ok : BOOLEAN]]

\* The window has sent its last command.
Stopped(p) == ui[p] \in {"saved", "discarded", "dropped"}

\* The lock is held while a process reads the file or has a saver thread. A
\* window has one from its start to the stop it sent last.
LockInv(p) ==
  /\ lock = p <=> (ui[p] = "loading" \/ ~At(p, "none"))
  /\ ui[p] \in {"closed", "loading"} => At(p, "none") /\ flushed[p] = 0
  /\ Open(p) \/ ui[p] = "finishing" => ~At(p, "none")
  /\ At(p, "none") => queue[p] = <<>>

\* The stop comes last.
StopInv(p) ==
  \A i \in 1 .. Len(queue[p]) : queue[p][i].kind = "stop" <=> i = Len(queue[p]) /\ Stopped(p)

\* The oldest snapshot the thread may still write.
Oldest(p) == IF saver[p].pc \in Writing THEN saver[p].n ELSE file

\* Whatever a power loss leaves is at least what was promised.
DiskInv ==
  /\ \A s \in survivors : promised <= s /\ s <= file
  /\ survivors # {}
  /\ file <= edits

\* Snapshots go to the file in the order of their edits.
OrderInv(p) ==
  /\ edited[p] <= edits
  /\ flushed[p] <= edited[p]
  /\ ~At(p, "none") =>
       /\ file <= Oldest(p)
       /\ Oldest(p) <= edited[p]
       /\ \A i \in 1 .. Len(queue[p]) :
            /\ Oldest(p) <= queue[p][i].n
            /\ queue[p][i].n <= edited[p]
            /\ \A j \in i .. Len(queue[p]) : queue[p][i].n <= queue[p][j].n

\* Where the thread is in write_atomically.
WriteInv(p) ==
  /\ At(p, "rename") => saver[p].synced
  /\ At(p, "syncDirectory") => file = saver[p].n
  /\ At(p, "reply") /\ saver[p].ok => file = saver[p].n /\ survivors = {file}

\* The thread has still to answer a flush.
Outstanding(p, kind) ==
  \/ saver[p].pc \in Writing /\ saver[p].kind = kind
  \/ \E i \in 1 .. Len(queue[p]) : queue[p][i].kind = kind

\* A flush is the only one of its kind and the last command until it is answered,
\* so an answer means that the thread has nothing else to write.
FlushLast(p, kind) ==
  \/ /\ queue[p] # <<>>
     /\ queue[p][Len(queue[p])] = [kind |-> kind, n |-> flushed[p]]
     /\ \A i \in 1 .. Len(queue[p]) - 1 : queue[p][i].kind # kind
     /\ saver[p].pc \in Writing => saver[p].kind # kind
  \/ /\ queue[p] = <<>>
     /\ saver[p].pc \in Writing \ {"coalesce"}
     /\ saver[p].kind = kind
     /\ saver[p].n = flushed[p]

FlushInv(p) ==
  /\ ui[p] \in {"open", "failed"} => ~Outstanding(p, "quit")
  /\ Open(p) => ~Outstanding(p, "finish")
  /\ ui[p] = "quitting" /\ receipt[p] = "none" => FlushLast(p, "quit")
  /\ ui[p] = "finishing" /\ receipt[p] = "none" => FlushLast(p, "finish")
  /\ ui[p] = "finishing" => Current(p)
  /\ ui[p] \in {"quitting", "finishing"} /\ receipt[p] # "none" =>
       At(p, "receive") /\ queue[p] = <<>>
  /\ ui[p] \in {"quitting", "finishing"} /\ receipt[p] = "ok" =>
       file = flushed[p] /\ survivors = {file}
  /\ ui[p] = "saved" =>
       /\ saver[p].pc \in {"receive", "none"}
       /\ Current(p)
       /\ At(p, "receive") => survivors = {flushed[p]} /\ Len(queue[p]) = 1

\* INVARIANT: the inductive invariant of the workspace file: the lock belongs
\* to the process that reads or writes, snapshots are written in order, and an
\* answered flush is on the disk with nothing behind it (storage.rs:208-252).
SaverInv ==
  /\ TypeInv
  /\ DiskInv
  /\ \A p \in Processes :
       LockInv(p) /\ StopInv(p) /\ OrderInv(p) /\ WriteInv(p) /\ FlushInv(p)

\* INVARIANT: a window that quits because its save was confirmed leaves its
\* last edit where a power loss finds it, also when there were edits while the
\* flush was under way (docs/workspace.md, ui.rs:2069-2098).
QuitKeepsEdits ==
  \A p \in Processes : ui[p] = "saved" /\ ~At(p, "none") => survivors = {edited[p]}

\* PROPERTY (refinement): the saver implements the workspace register.
Register == INSTANCE WorkspaceRegister WITH issued <- edits, value <- file
ImplementsRegister == Register!Spec

\* LIVENESS: every edit reaches the file, or its window ends, or it reports a
\* failure after the edit. An edit during the flush of a quit is also lost to the
\* file, until the next one, when that quit is called off (storage.rs:221-241,
\* ui.rs:1381-1390, 1923-1948).
EditsReachFile ==
  \A p \in Processes : \A n \in 1 .. MaxEdits :
    Open(p) /\ edited[p] = n ~>
      file >= n \/ told[p] >= n \/ stranded[p] >= n \/ ~Open(p)

=============================================================================
