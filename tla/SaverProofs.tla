---------------------------- MODULE SaverProofs -----------------------------
(***************************************************************************)
(* The invariant of the workspace file and of the saver threads, for any   *)
(* processes and any number of edits, and that they implement the register *)
(* of WorkspaceRegister. A step of one process leaves the others alone: so *)
(* each part has a lemma for the process that moves, with one step per     *)
(* action, and OthersKept is about the others.                             *)
(***************************************************************************)
EXTENDS Saver, SequenceTheorems, TLAPS

Step(p) == Thread(p) \/ Window(p) \/ User(p)

Windows == {"closed", "loading", "open", "quitting", "failed", "finishing", "saved",
            "discarded", "dropped"}

Threads == [pc : Writing \cup {"none", "receive"}, kind : {"save"} \cup Flushes,
            n : Snapshots, synced : BOOLEAN, ok : BOOLEAN]

-----------------------------------------------------------------------------
(* Queues                                                                  *)

\* A command of the window is the last of its queue.
Added(p, kind) ==
  /\ queue' \in [Processes -> Seq(Commands)]
  /\ \A q \in Processes \ {p} : queue'[q] = queue[q]
  /\ Len(queue'[p]) = Len(queue[p]) + 1
  /\ queue'[p] # <<>>
  /\ \A i \in 1 .. Len(queue[p]) : queue'[p][i] = queue[p][i]
  /\ queue'[p][Len(queue[p]) + 1] = [kind |-> kind, n |-> edited[p]]

LEMMA SendStep ==
  ASSUME SaverInv, NEW p \in Processes, NEW kind \in {"save", "stop"} \cup Flushes,
         queue' = [queue EXCEPT ![p] = Append(@, [kind |-> kind, n |-> edited[p]])]
  PROVE  Added(p, kind)
<1> DEFINE c == [kind |-> kind, n |-> edited[p]]
<1>1. c \in Commands /\ queue[p] \in Seq(Commands)
  BY DEF SaverInv, TypeInv, Commands
<1>2. queue' = [queue EXCEPT ![p] = Append(queue[p], c)] /\ queue \in [Processes -> Seq(Commands)]
  BY DEF SaverInv, TypeInv
<1> HIDE DEF c
<1>3. /\ Append(queue[p], c) \in Seq(Commands) /\ Append(queue[p], c) # <<>>
      /\ Len(Append(queue[p], c)) = Len(queue[p]) + 1
      /\ \A i \in 1 .. Len(queue[p]) : Append(queue[p], c)[i] = queue[p][i]
      /\ Append(queue[p], c)[Len(queue[p]) + 1] = c
  BY <1>1, AppendProperties
<1>4. queue'[p] = Append(queue[p], c) /\ queue' \in [Processes -> Seq(Commands)]
  BY <1>2, <1>3
<1> QED
  BY <1>2, <1>3, <1>4 DEF Added, c

\* The thread takes the first command of its queue.
Taken(p) ==
  /\ queue' \in [Processes -> Seq(Commands)]
  /\ \A q \in Processes \ {p} : queue'[q] = queue[q]
  /\ Head(queue[p]) = queue[p][1]
  /\ Len(queue[p]) >= 1
  /\ Len(queue'[p]) = Len(queue[p]) - 1
  /\ queue'[p] = <<>> <=> Len(queue[p]) = 1
  /\ 1 \in 1 .. Len(queue[p])
  /\ \A i \in 1 .. Len(queue'[p]) :
       i + 1 \in 1 .. Len(queue[p]) /\ queue'[p][i] = queue[p][i + 1]
  /\ \A i \in 1 .. Len(queue'[p]) - 1 :
       i + 1 \in 1 .. Len(queue[p]) - 1 /\ queue'[p][i] = queue[p][i + 1]

LEMMA TakeStep ==
  ASSUME SaverInv, NEW p \in Processes, queue[p] # <<>>,
         queue' = [queue EXCEPT ![p] = Tail(@)]
  PROVE  Taken(p)
<1>1. queue \in [Processes -> Seq(Commands)]
  BY DEF SaverInv, TypeInv
<1>2. queue'[p] = Tail(queue[p]) /\ \A q \in Processes \ {p} : queue'[q] = queue[q]
  BY <1>1
<1>3. /\ Tail(queue[p]) \in Seq(Commands) /\ Len(Tail(queue[p])) = Len(queue[p]) - 1
      /\ \A i \in 1 .. Len(Tail(queue[p])) : Tail(queue[p])[i] = queue[p][i + 1]
  BY <1>1, HeadTailProperties
<1>4. Len(queue[p]) \in Nat \ {0} /\ Head(queue[p]) = queue[p][1]
  BY <1>1, EmptySeq
<1>5. queue'[p] = <<>> <=> Len(queue[p]) = 1
  <2>1. Tail(queue[p]) = <<>> <=> Len(Tail(queue[p])) = 0
    BY <1>3, EmptySeq
  <2>2. Len(Tail(queue[p])) = 0 <=> Len(queue[p]) = 1
    BY <1>3, <1>4
  <2> QED
    BY <2>1, <2>2, <1>2
<1>6. queue' \in [Processes -> Seq(Commands)]
  BY <1>1, <1>3
<1>7. Len(queue[p]) \in Nat \ {0} /\ Len(queue'[p]) = Len(queue[p]) - 1
  BY <1>2, <1>3, <1>4
<1>8. \A i \in 1 .. Len(queue'[p]) :
        i + 1 \in 1 .. Len(queue[p]) /\ queue'[p][i] = queue[p][i + 1]
  <2>1. \A i \in 1 .. Len(queue'[p]) : i + 1 \in 1 .. Len(queue[p])
    BY <1>7
  <2> QED
    BY <2>1, <1>2, <1>3
<1>9. \A i \in 1 .. Len(queue'[p]) - 1 :
        i \in 1 .. Len(queue'[p]) /\ i + 1 \in 1 .. Len(queue[p]) - 1
  BY <1>7
<1> QED
  BY <1>2, <1>4, <1>5, <1>6, <1>7, <1>8, <1>9 DEF Taken

-----------------------------------------------------------------------------
(* The process that moves                                                  *)

\* What TypeInv says of one process, and the other parts of the invariant.
LEMMA Typed ==
  ASSUME SaverInv, NEW p \in Processes
  PROVE  /\ ui[p] \in Windows
         /\ edited[p] \in Nat /\ flushed[p] \in Nat /\ file \in Nat /\ edits \in Nat
         /\ promised \in Nat /\ survivors \subseteq Nat
         /\ receipt[p] \in {"none", "ok", "failed"}
         /\ queue[p] \in Seq(Commands) /\ Len(queue[p]) \in Nat
         /\ queue[p] = <<>> <=> Len(queue[p]) = 0
         /\ \A i \in 1 .. Len(queue[p]) :
              queue[p][i] \in Commands /\ queue[p][i].n \in Nat
         /\ saver[p] \in Threads /\ saver[p].n \in Nat
         /\ saver[p].pc \in Writing \cup {"none", "receive"}
         /\ saver[p].kind \in {"save", "quit", "finish"}
         /\ saver[p].ok \in BOOLEAN /\ saver[p].synced \in BOOLEAN
         /\ ui \in [Processes -> Windows] /\ edited \in [Processes -> Nat]
         /\ flushed \in [Processes -> Nat]
         /\ receipt \in [Processes -> {"none", "ok", "failed"}]
         /\ queue \in [Processes -> Seq(Commands)] /\ saver \in [Processes -> Threads]
         /\ lock \in Processes \cup {Nobody} /\ Nobody \notin Processes
         /\ DiskInv /\ LockInv(p) /\ StopInv(p) /\ OrderInv(p) /\ WriteInv(p) /\ FlushInv(p)
<1>1. queue \in [Processes -> Seq(Commands)] /\ queue[p] \in Seq(Commands)
  BY DEF SaverInv, TypeInv
<1>2. Len(queue[p]) \in Nat /\ (queue[p] = <<>> <=> Len(queue[p]) = 0)
  BY <1>1, EmptySeq
<1>3. \A i \in 1 .. Len(queue[p]) : queue[p][i] \in Commands
  BY <1>1, ElementOfSeq
<1>4. \A c \in Commands : c.n \in Nat
  BY MaxEditsAssumption DEF Commands, Snapshots
<1>5. saver \in [Processes -> Threads]
  BY DEF SaverInv, TypeInv, Threads
<1>6. ui \in [Processes -> Windows] /\ receipt \in [Processes -> {"none", "ok", "failed"}]
  BY DEF SaverInv, TypeInv, Windows
<1>7. /\ edited \in [Processes -> Nat] /\ flushed \in [Processes -> Nat]
      /\ file \in Nat /\ edits \in Nat /\ promised \in Nat /\ survivors \subseteq Nat
  BY MaxEditsAssumption DEF SaverInv, TypeInv, Snapshots
<1>8. /\ ui[p] \in Windows /\ receipt[p] \in {"none", "ok", "failed"}
      /\ lock \in Processes \cup {Nobody}
  BY <1>6 DEF SaverInv, TypeInv
<1>9. /\ saver[p] \in Threads /\ saver[p].n \in Nat
      /\ saver[p].pc \in Writing \cup {"none", "receive"}
      /\ saver[p].kind \in {"save", "quit", "finish"}
      /\ saver[p].ok \in BOOLEAN /\ saver[p].synced \in BOOLEAN
  BY <1>5, MaxEditsAssumption DEF Threads, Flushes, Snapshots
<1>10. DiskInv /\ LockInv(p) /\ StopInv(p) /\ OrderInv(p) /\ WriteInv(p) /\ FlushInv(p)
  BY DEF SaverInv
<1> QED
  BY <1>1, <1>2, <1>3, <1>4, <1>5, <1>6, <1>7, <1>8, <1>9, <1>10, NobodyAssumption

\* The process that moves keeps the lock while it needs it.
LEMMA LockStep ==
  ASSUME SaverInv, NEW p \in Processes, Step(p)
  PROVE  LockInv(p)'
<1>a. /\ ui \in [Processes -> Windows] /\ edited \in [Processes -> Nat]
      /\ flushed \in [Processes -> Nat] /\ receipt \in [Processes -> {"none", "ok", "failed"}]
      /\ queue \in [Processes -> Seq(Commands)] /\ saver \in [Processes -> Threads]
      /\ Len(queue[p]) \in Nat /\ (queue[p] = <<>> <=> Len(queue[p]) = 0)
      /\ \A i \in 1 .. Len(queue[p]) : queue[p][i] \in Commands /\ queue[p][i].n \in Nat
      /\ lock \in Processes \cup {Nobody} /\ Nobody \notin Processes
      /\ file \in Nat /\ edits \in Nat /\ promised \in Nat /\ survivors \subseteq Nat
      /\ saver[p].n \in Nat /\ saver[p] \in Threads
      /\ saver[p].pc \in Writing \cup {"none", "receive"}
  BY Typed
<1>b. DiskInv /\ LockInv(p) /\ StopInv(p) /\ OrderInv(p) /\ WriteInv(p) /\ FlushInv(p)
  BY DEF SaverInv
<1>1. CASE Acquire(p)
  BY <1>1, <1>a, <1>b DEF Acquire, diskVars, windowVars, LockInv, At, Open, Threads
<1>2. CASE Load(p)
  BY <1>2, <1>a, <1>b DEF Load, Goto, diskVars, windowVars, LockInv, At, Open, Threads
<1>3. CASE LoadFails(p)
  BY <1>3, <1>a, <1>b DEF LoadFails, diskVars, windowVars, LockInv, At, Open, Threads
<1>4. CASE Edit(p)
  BY <1>4, <1>a, <1>b DEF Edit, Open, diskVars, windowVars, LockInv, At, Threads
<1>5. CASE KeepEditing(p)
  BY <1>5, <1>a, <1>b DEF KeepEditing, diskVars, windowVars, LockInv, At, Open,
     Threads
<1>6. CASE Exit(p)
  BY <1>6, <1>a, <1>b DEF Exit, Reset, NoThread, diskVars, windowVars, LockInv, At,
     Open, Threads
<1>7. CASE Crash(p)
  BY <1>7, <1>a, <1>b DEF Crash, Reset, NoThread, diskVars, windowVars, LockInv, At,
     Open, Threads
<1>8. CASE ShowError(p)
  BY <1>8, <1>a, <1>b DEF ShowError, Open, diskVars, windowVars, LockInv, At, Threads
<1>9. CASE QuitFails(p)
  BY <1>9, <1>a, <1>b DEF QuitFails, diskVars, windowVars, LockInv, At, Open, Threads
<1>26. CASE CallOff(p)
  BY <1>26, <1>a, <1>b DEF CallOff, diskVars, windowVars, LockInv, At, Open, Threads
<1>10. CASE StopCoalescing(p)
  BY <1>10, <1>a, <1>b DEF StopCoalescing, SaveWaits, Goto, diskVars, windowVars,
     LockInv, At, Open, Threads
<1>11. CASE Write(p)
  BY <1>11, <1>a, <1>b DEF Write, Goto, diskVars, windowVars, LockInv, At, Open,
     Threads
<1>12. CASE Sync(p)
  BY <1>12, <1>a, <1>b DEF Sync, diskVars, windowVars, LockInv, At, Open, Threads
<1>13. CASE Rename(p)
  BY <1>13, <1>a, <1>b DEF Rename, Goto, diskVars, windowVars, LockInv, At, Open,
     Threads
<1>14. CASE SyncDirectory(p)
  BY <1>14, <1>a, <1>b DEF SyncDirectory, diskVars, windowVars, LockInv, At, Open,
     Threads
<1>15. CASE WriteFails(p)
  BY <1>15, <1>a, <1>b DEF WriteFails, diskVars, windowVars, LockInv, At, Open,
     Threads
<1>16. CASE Reply(p)
  BY <1>16, <1>a, <1>b DEF Reply, Goto, Awaits, diskVars, windowVars, LockInv, At,
     Open, Threads
<1>17. CASE Autosave(p)
  <2> QED
    BY <1>17, <1>a, <1>b DEF Autosave, Open, diskVars, windowVars, LockInv, At, Threads
<1>18. CASE RequestQuit(p)
  <2>1. queue'[p] # <<>>
    BY <1>18, SendStep DEF RequestQuit, Flush, Send, Flushes, Added
  <2> QED
    BY <1>18, <2>1, <1>a, <1>b DEF RequestQuit, Flush, diskVars, windowVars, LockInv,
       At, Open, Threads
<1>19. CASE FlushAgain(p)
  <2>1. queue'[p] # <<>>
    BY <1>19, SendStep DEF FlushAgain, Flush, Send, Flushes, Added
  <2> QED
    BY <1>19, <2>1, <1>a, <1>b DEF FlushAgain, Flush, diskVars, windowVars, LockInv,
       At, Open, Threads
<1>20. CASE Terminate(p)
  <2>1. queue'[p] # <<>>
    BY <1>20, SendStep DEF Terminate, Flush, Send, Flushes, Added
  <2> QED
    BY <1>20, <2>1, <1>a, <1>b DEF Terminate, Flush, Open, diskVars, windowVars,
       LockInv, At, Threads
<1>21. CASE Discard(p)
  <2>1. queue'[p] # <<>>
    BY <1>21, SendStep DEF Discard, Send, Flushes, Added
  <2> QED
    BY <1>21, <2>1, <1>a, <1>b DEF Discard, diskVars, windowVars, LockInv, At, Open, Threads
<1>22. CASE Finish(p)
  <2>1. queue'[p] # <<>>
    BY <1>22, SendStep DEF Finish, Send, Flushes, Added
  <2> QED
    BY <1>22, <2>1, <1>a, <1>b DEF Finish, diskVars, windowVars, LockInv, At, Open, Threads
<1>23. CASE ConfirmQuit(p)
  <2>1. queue'[p] # <<>>
    BY <1>23, SendStep DEF ConfirmQuit, Send, Flushes, Added
  <2> QED
    BY <1>23, <2>1, <1>a, <1>b DEF ConfirmQuit, Current, diskVars, windowVars,
       LockInv, At, Open, Threads
<1>24. CASE Receive(p)
  <2>1. Taken(p)
    BY <1>24, TakeStep DEF Receive
  <2>2. CASE Next1(p).kind = "stop"
    <3>1. Len(queue[p]) = 1 /\ Stopped(p)
      BY <2>1, <2>2, <1>a, <1>b DEF Taken, StopInv, Next1
    <3>2. queue'[p] = <<>> /\ lock' = Nobody /\ saver'[p] = NoThread /\ UNCHANGED windowVars
      BY <1>24, <2>1, <2>2, <3>1, <1>a, <1>b DEF Receive, Taken
    <3> QED
      BY <3>1, <3>2, <1>a, <1>b DEF LockInv, At, Open, Stopped, NoThread, windowVars
  <2>3. CASE Next1(p).kind # "stop"
    <3>1. /\ saver'[p].pc \in {"coalesce", "write"} /\ lock' = lock /\ UNCHANGED windowVars
          /\ saver[p].pc = "receive"
      BY <1>24, <2>3, <1>a, <1>b DEF Receive, At
    <3> QED
      BY <3>1, <1>a, <1>b DEF LockInv, At, Open, windowVars
  <2> QED
    BY <2>2, <2>3
<1>25. CASE Coalesce(p)
  <2>1. Taken(p)
    BY <1>25, TakeStep DEF Coalesce, SaveWaits
  <2> QED
    BY <1>25, <2>1, <1>a, <1>b DEF Coalesce, Next1, SaveWaits, diskVars, windowVars,
       LockInv, At, Open, Threads, Taken
<1> QED
  BY <1>1, <1>2, <1>3, <1>4, <1>5, <1>6, <1>7, <1>8, <1>9, <1>10, <1>11, <1>12, <1>13,
     <1>14, <1>15, <1>16, <1>17, <1>18, <1>19, <1>20, <1>21, <1>22, <1>23, <1>24,
     <1>25, <1>26 DEF Step, Thread, Window, FinishQuit, User

\* The stop of the process that moves stays the last command.
LEMMA StopStep ==
  ASSUME SaverInv, NEW p \in Processes, Step(p)
  PROVE  StopInv(p)'
<1>a. /\ ui \in [Processes -> Windows] /\ edited \in [Processes -> Nat]
      /\ flushed \in [Processes -> Nat] /\ receipt \in [Processes -> {"none", "ok", "failed"}]
      /\ queue \in [Processes -> Seq(Commands)] /\ saver \in [Processes -> Threads]
      /\ Len(queue[p]) \in Nat /\ (queue[p] = <<>> <=> Len(queue[p]) = 0)
      /\ \A i \in 1 .. Len(queue[p]) : queue[p][i] \in Commands /\ queue[p][i].n \in Nat
      /\ lock \in Processes \cup {Nobody} /\ Nobody \notin Processes
      /\ file \in Nat /\ edits \in Nat /\ promised \in Nat /\ survivors \subseteq Nat
      /\ saver[p].n \in Nat /\ saver[p] \in Threads
      /\ saver[p].pc \in Writing \cup {"none", "receive"}
  BY Typed
<1>b. DiskInv /\ LockInv(p) /\ StopInv(p) /\ OrderInv(p) /\ WriteInv(p) /\ FlushInv(p)
  BY DEF SaverInv
<1>1. CASE Acquire(p)
  <2>1. queue'[p] = queue[p] /\ (Stopped(p)' <=> Stopped(p))
    BY <1>1, <1>a, <1>b DEF Acquire, diskVars, windowVars, Stopped
  <2> QED
    BY <2>1, <1>a, <1>b DEF StopInv, Stopped
<1>2. CASE Load(p)
  <2>1. queue'[p] = queue[p] /\ (Stopped(p)' <=> Stopped(p))
    BY <1>2, <1>a, <1>b DEF Load, Goto, diskVars, windowVars, Stopped
  <2> QED
    BY <2>1, <1>a, <1>b DEF StopInv, Stopped
<1>3. CASE LoadFails(p)
  <2>1. queue'[p] = queue[p] /\ (Stopped(p)' <=> Stopped(p))
    BY <1>3, <1>a, <1>b DEF LoadFails, diskVars, windowVars, Stopped
  <2> QED
    BY <2>1, <1>a, <1>b DEF StopInv, Stopped
<1>4. CASE Edit(p)
  <2>1. queue'[p] = queue[p] /\ (Stopped(p)' <=> Stopped(p))
    BY <1>4, <1>a, <1>b DEF Edit, Open, diskVars, windowVars, Stopped
  <2> QED
    BY <2>1, <1>a, <1>b DEF StopInv, Stopped
<1>5. CASE KeepEditing(p)
  <2>1. queue'[p] = queue[p] /\ (Stopped(p)' <=> Stopped(p))
    BY <1>5, <1>a, <1>b DEF KeepEditing, diskVars, windowVars, Stopped
  <2> QED
    BY <2>1, <1>a, <1>b DEF StopInv, Stopped
<1>6. CASE Exit(p)
  <2>1. queue'[p] = <<>>
    BY <1>6, <1>a, <1>b DEF Exit, Reset
  <2> QED
    BY <2>1, EmptySeq DEF StopInv
<1>7. CASE Crash(p)
  <2>1. queue'[p] = <<>>
    BY <1>7, <1>a, <1>b DEF Crash, Reset
  <2> QED
    BY <2>1, EmptySeq DEF StopInv
<1>8. CASE ShowError(p)
  <2>1. queue'[p] = queue[p] /\ (Stopped(p)' <=> Stopped(p))
    BY <1>8, <1>a, <1>b DEF ShowError, Open, diskVars, windowVars, Stopped
  <2> QED
    BY <2>1, <1>a, <1>b DEF StopInv, Stopped
<1>9. CASE QuitFails(p)
  <2>1. queue'[p] = queue[p] /\ (Stopped(p)' <=> Stopped(p))
    BY <1>9, <1>a, <1>b DEF QuitFails, diskVars, windowVars, Stopped
  <2> QED
    BY <2>1, <1>a, <1>b DEF StopInv, Stopped
<1>26. CASE CallOff(p)
  <2>1. queue'[p] = queue[p] /\ (Stopped(p)' <=> Stopped(p))
    BY <1>26, <1>a, <1>b DEF CallOff, diskVars, windowVars, Stopped
  <2> QED
    BY <2>1, <1>a, <1>b DEF StopInv, Stopped
<1>10. CASE StopCoalescing(p)
  <2>1. queue'[p] = queue[p] /\ (Stopped(p)' <=> Stopped(p))
    BY <1>10, <1>a, <1>b DEF StopCoalescing, SaveWaits, Goto, diskVars, windowVars, Stopped
  <2> QED
    BY <2>1, <1>a, <1>b DEF StopInv, Stopped
<1>11. CASE Write(p)
  <2>1. queue'[p] = queue[p] /\ (Stopped(p)' <=> Stopped(p))
    BY <1>11, <1>a, <1>b DEF Write, Goto, diskVars, windowVars, Stopped
  <2> QED
    BY <2>1, <1>a, <1>b DEF StopInv, Stopped
<1>12. CASE Sync(p)
  <2>1. queue'[p] = queue[p] /\ (Stopped(p)' <=> Stopped(p))
    BY <1>12, <1>a, <1>b DEF Sync, diskVars, windowVars, Stopped
  <2> QED
    BY <2>1, <1>a, <1>b DEF StopInv, Stopped
<1>13. CASE Rename(p)
  <2>1. queue'[p] = queue[p] /\ (Stopped(p)' <=> Stopped(p))
    BY <1>13, <1>a, <1>b DEF Rename, Goto, diskVars, windowVars, Stopped
  <2> QED
    BY <2>1, <1>a, <1>b DEF StopInv, Stopped
<1>14. CASE SyncDirectory(p)
  <2>1. queue'[p] = queue[p] /\ (Stopped(p)' <=> Stopped(p))
    BY <1>14, <1>a, <1>b DEF SyncDirectory, diskVars, windowVars, Stopped
  <2> QED
    BY <2>1, <1>a, <1>b DEF StopInv, Stopped
<1>15. CASE WriteFails(p)
  <2>1. queue'[p] = queue[p] /\ (Stopped(p)' <=> Stopped(p))
    BY <1>15, <1>a, <1>b DEF WriteFails, diskVars, windowVars, Stopped
  <2> QED
    BY <2>1, <1>a, <1>b DEF StopInv, Stopped
<1>16. CASE Reply(p)
  <2>1. queue'[p] = queue[p] /\ (Stopped(p)' <=> Stopped(p))
    BY <1>16, <1>a, <1>b DEF Reply, Goto, Awaits, diskVars, windowVars, Stopped
  <2> QED
    BY <2>1, <1>a, <1>b DEF StopInv, Stopped
<1>17. CASE Autosave(p)
  <2>0. CASE ui[p] = "quitting"
    BY <1>17, <2>0, <1>a, <1>b DEF Autosave, StopInv, Stopped
  <2> SUFFICES ASSUME ui[p] # "quitting" PROVE StopInv(p)'
    BY <2>0
  <2>1. Added(p, "save")
    BY <1>17, SendStep DEF Autosave, Send
  <2>2. ~Stopped(p) /\ ~Stopped(p)'
    BY <1>17, <1>a, <1>b DEF Autosave, Open, Stopped
  <2>3. ASSUME NEW i \in 1 .. Len(queue'[p])
        PROVE  queue'[p][i].kind = "stop" <=> i = Len(queue'[p]) /\ Stopped(p)'
    <3>1. CASE i \in 1 .. Len(queue[p])
      <4>1. queue[p][i].kind # "stop"
        BY <2>2, <3>1, <1>b DEF StopInv
      <4> QED
        BY <2>1, <2>2, <3>1, <4>1, <1>a DEF Added
    <3>2. CASE i = Len(queue[p]) + 1
      BY <2>1, <2>2, <3>2, <1>a, <1>b DEF Added, Stopped
    <3> QED
      BY <2>1, <3>1, <3>2, <1>a, <1>b DEF Added
  <2> QED
    BY <2>3 DEF StopInv
<1>18. CASE RequestQuit(p)
  <2>1. Added(p, "quit")
    BY <1>18, SendStep DEF RequestQuit, Flush, Send, Flushes
  <2>2. ~Stopped(p) /\ ~Stopped(p)'
    BY <1>18, <1>a, <1>b DEF RequestQuit, Flush, Stopped
  <2>3. ASSUME NEW i \in 1 .. Len(queue'[p])
        PROVE  queue'[p][i].kind = "stop" <=> i = Len(queue'[p]) /\ Stopped(p)'
    <3>1. CASE i \in 1 .. Len(queue[p])
      <4>1. queue[p][i].kind # "stop"
        BY <2>2, <3>1, <1>b DEF StopInv
      <4> QED
        BY <2>1, <2>2, <3>1, <4>1, <1>a DEF Added
    <3>2. CASE i = Len(queue[p]) + 1
      BY <2>1, <2>2, <3>2, <1>a, <1>b DEF Added, Stopped
    <3> QED
      BY <2>1, <3>1, <3>2, <1>a, <1>b DEF Added
  <2> QED
    BY <2>3 DEF StopInv
<1>19. CASE FlushAgain(p)
  <2>1. Added(p, "quit")
    BY <1>19, SendStep DEF FlushAgain, Flush, Send, Flushes
  <2>2. ~Stopped(p) /\ ~Stopped(p)'
    BY <1>19, <1>a, <1>b DEF FlushAgain, Flush, Stopped
  <2>3. ASSUME NEW i \in 1 .. Len(queue'[p])
        PROVE  queue'[p][i].kind = "stop" <=> i = Len(queue'[p]) /\ Stopped(p)'
    <3>1. CASE i \in 1 .. Len(queue[p])
      <4>1. queue[p][i].kind # "stop"
        BY <2>2, <3>1, <1>b DEF StopInv
      <4> QED
        BY <2>1, <2>2, <3>1, <4>1, <1>a DEF Added
    <3>2. CASE i = Len(queue[p]) + 1
      BY <2>1, <2>2, <3>2, <1>a, <1>b DEF Added, Stopped
    <3> QED
      BY <2>1, <3>1, <3>2, <1>a, <1>b DEF Added
  <2> QED
    BY <2>3 DEF StopInv
<1>20. CASE Terminate(p)
  <2>1. Added(p, "finish")
    BY <1>20, SendStep DEF Terminate, Flush, Send, Flushes
  <2>2. ~Stopped(p) /\ ~Stopped(p)'
    BY <1>20, <1>a, <1>b DEF Terminate, Flush, Open, Stopped
  <2>3. ASSUME NEW i \in 1 .. Len(queue'[p])
        PROVE  queue'[p][i].kind = "stop" <=> i = Len(queue'[p]) /\ Stopped(p)'
    <3>1. CASE i \in 1 .. Len(queue[p])
      <4>1. queue[p][i].kind # "stop"
        BY <2>2, <3>1, <1>b DEF StopInv
      <4> QED
        BY <2>1, <2>2, <3>1, <4>1, <1>a DEF Added
    <3>2. CASE i = Len(queue[p]) + 1
      BY <2>1, <2>2, <3>2, <1>a, <1>b DEF Added, Stopped
    <3> QED
      BY <2>1, <3>1, <3>2, <1>a, <1>b DEF Added
  <2> QED
    BY <2>3 DEF StopInv
<1>21. CASE Discard(p)
  <2>1. Added(p, "stop")
    BY <1>21, SendStep DEF Discard, Send, Flushes
  <2>2. ~Stopped(p) /\ Stopped(p)'
    BY <1>21, <1>a, <1>b DEF Discard, Stopped
  <2>3. ASSUME NEW i \in 1 .. Len(queue'[p])
        PROVE  queue'[p][i].kind = "stop" <=> i = Len(queue'[p]) /\ Stopped(p)'
    <3>1. CASE i \in 1 .. Len(queue[p])
      <4>1. queue[p][i].kind # "stop"
        BY <2>2, <3>1, <1>b DEF StopInv
      <4> QED
        BY <2>1, <2>2, <3>1, <4>1, <1>a DEF Added
    <3>2. CASE i = Len(queue[p]) + 1
      BY <2>1, <2>2, <3>2, <1>a, <1>b DEF Added, Stopped
    <3> QED
      BY <2>1, <3>1, <3>2, <1>a, <1>b DEF Added
  <2> QED
    BY <2>3 DEF StopInv
<1>22. CASE Finish(p)
  <2>1. Added(p, "stop")
    BY <1>22, SendStep DEF Finish, Send, Flushes
  <2>2. ~Stopped(p) /\ Stopped(p)'
    BY <1>22, <1>a, <1>b DEF Finish, Stopped
  <2>3. ASSUME NEW i \in 1 .. Len(queue'[p])
        PROVE  queue'[p][i].kind = "stop" <=> i = Len(queue'[p]) /\ Stopped(p)'
    <3>1. CASE i \in 1 .. Len(queue[p])
      <4>1. queue[p][i].kind # "stop"
        BY <2>2, <3>1, <1>b DEF StopInv
      <4> QED
        BY <2>1, <2>2, <3>1, <4>1, <1>a DEF Added
    <3>2. CASE i = Len(queue[p]) + 1
      BY <2>1, <2>2, <3>2, <1>a, <1>b DEF Added, Stopped
    <3> QED
      BY <2>1, <3>1, <3>2, <1>a, <1>b DEF Added
  <2> QED
    BY <2>3 DEF StopInv
<1>23. CASE ConfirmQuit(p)
  <2>1. Added(p, "stop")
    BY <1>23, SendStep DEF ConfirmQuit, Send, Flushes
  <2>2. ~Stopped(p) /\ Stopped(p)'
    BY <1>23, <1>a, <1>b DEF ConfirmQuit, Current, Stopped
  <2>3. ASSUME NEW i \in 1 .. Len(queue'[p])
        PROVE  queue'[p][i].kind = "stop" <=> i = Len(queue'[p]) /\ Stopped(p)'
    <3>1. CASE i \in 1 .. Len(queue[p])
      <4>1. queue[p][i].kind # "stop"
        BY <2>2, <3>1, <1>b DEF StopInv
      <4> QED
        BY <2>1, <2>2, <3>1, <4>1, <1>a DEF Added
    <3>2. CASE i = Len(queue[p]) + 1
      BY <2>1, <2>2, <3>2, <1>a, <1>b DEF Added, Stopped
    <3> QED
      BY <2>1, <3>1, <3>2, <1>a, <1>b DEF Added
  <2> QED
    BY <2>3 DEF StopInv
<1>24. CASE Receive(p)
  <2>1. Taken(p)
    BY <1>24, TakeStep DEF Receive
  <2>2. Stopped(p)' <=> Stopped(p)
    BY <1>24 DEF Receive, Stopped, windowVars
  <2>3. ASSUME NEW i \in 1 .. Len(queue'[p])
        PROVE  queue'[p][i].kind = "stop" <=> i = Len(queue'[p]) /\ Stopped(p)'
    <3>1. /\ i + 1 \in 1 .. Len(queue[p]) /\ queue'[p][i] = queue[p][i + 1]
          /\ i = Len(queue'[p]) <=> i + 1 = Len(queue[p])
      BY <2>1, <1>a DEF Taken
    <3>2. queue[p][i + 1].kind = "stop" <=> i + 1 = Len(queue[p]) /\ Stopped(p)
      BY <3>1, <1>b DEF StopInv
    <3> QED
      BY <2>2, <3>1, <3>2
  <2> QED
    BY <2>3 DEF StopInv
<1>25. CASE Coalesce(p)
  <2>1. Taken(p)
    BY <1>25, TakeStep DEF Coalesce, SaveWaits
  <2>2. Stopped(p)' <=> Stopped(p)
    BY <1>25 DEF Coalesce, Stopped, windowVars
  <2>3. ASSUME NEW i \in 1 .. Len(queue'[p])
        PROVE  queue'[p][i].kind = "stop" <=> i = Len(queue'[p]) /\ Stopped(p)'
    <3>1. /\ i + 1 \in 1 .. Len(queue[p]) /\ queue'[p][i] = queue[p][i + 1]
          /\ i = Len(queue'[p]) <=> i + 1 = Len(queue[p])
      BY <2>1, <1>a DEF Taken
    <3>2. queue[p][i + 1].kind = "stop" <=> i + 1 = Len(queue[p]) /\ Stopped(p)
      BY <3>1, <1>b DEF StopInv
    <3> QED
      BY <2>2, <3>1, <3>2
  <2> QED
    BY <2>3 DEF StopInv
<1> QED
  BY <1>1, <1>2, <1>3, <1>4, <1>5, <1>6, <1>7, <1>8, <1>9, <1>10, <1>11, <1>12, <1>13,
     <1>14, <1>15, <1>16, <1>17, <1>18, <1>19, <1>20, <1>21, <1>22, <1>23, <1>24,
     <1>25, <1>26 DEF Step, Thread, Window, FinishQuit, User

\* The file goes on to later snapshots, and keeps what was promised.
LEMMA DiskStep ==
  ASSUME SaverInv, NEW p \in Processes, Step(p)
  PROVE  DiskInv'
<1>a. /\ ui \in [Processes -> Windows] /\ edited \in [Processes -> Nat]
      /\ flushed \in [Processes -> Nat] /\ receipt \in [Processes -> {"none", "ok", "failed"}]
      /\ queue \in [Processes -> Seq(Commands)] /\ saver \in [Processes -> Threads]
      /\ Len(queue[p]) \in Nat /\ (queue[p] = <<>> <=> Len(queue[p]) = 0)
      /\ \A i \in 1 .. Len(queue[p]) : queue[p][i] \in Commands /\ queue[p][i].n \in Nat
      /\ lock \in Processes \cup {Nobody} /\ Nobody \notin Processes
      /\ file \in Nat /\ edits \in Nat /\ promised \in Nat /\ survivors \subseteq Nat
      /\ saver[p].n \in Nat /\ saver[p] \in Threads
      /\ saver[p].pc \in Writing \cup {"none", "receive"}
  BY Typed
<1>b. DiskInv /\ LockInv(p) /\ StopInv(p) /\ OrderInv(p) /\ WriteInv(p) /\ FlushInv(p)
  BY DEF SaverInv
<1>1. CASE Acquire(p)
  BY <1>1, <1>a, <1>b DEF Acquire, diskVars, windowVars, DiskInv, WriteInv, OrderInv,
     Oldest, At, Writing, Threads
<1>2. CASE Load(p)
  BY <1>2, <1>a, <1>b DEF Load, Goto, diskVars, windowVars, DiskInv, WriteInv,
     OrderInv, Oldest, At, Writing, Threads
<1>3. CASE LoadFails(p)
  BY <1>3, <1>a, <1>b DEF LoadFails, diskVars, windowVars, DiskInv, WriteInv,
     OrderInv, Oldest, At, Writing, Threads
<1>4. CASE Edit(p)
  BY <1>4, <1>a, <1>b DEF Edit, Open, diskVars, windowVars, DiskInv, WriteInv,
     OrderInv, Oldest, At, Writing, Threads
<1>5. CASE KeepEditing(p)
  BY <1>5, <1>a, <1>b DEF KeepEditing, diskVars, windowVars, DiskInv, WriteInv,
     OrderInv, Oldest, At, Writing, Threads
<1>6. CASE Exit(p)
  BY <1>6, <1>a, <1>b DEF Exit, Reset, NoThread, diskVars, windowVars, DiskInv,
     WriteInv, OrderInv, Oldest, At, Writing, Threads
<1>7. CASE Crash(p)
  BY <1>7, <1>a, <1>b DEF Crash, Reset, NoThread, diskVars, windowVars, DiskInv,
     WriteInv, OrderInv, Oldest, At, Writing, Threads
<1>8. CASE ShowError(p)
  BY <1>8, <1>a, <1>b DEF ShowError, Open, diskVars, windowVars, DiskInv, WriteInv,
     OrderInv, Oldest, At, Writing, Threads
<1>9. CASE QuitFails(p)
  BY <1>9, <1>a, <1>b DEF QuitFails, diskVars, windowVars, DiskInv, WriteInv,
     OrderInv, Oldest, At, Writing, Threads
<1>26. CASE CallOff(p)
  BY <1>26, <1>a, <1>b DEF CallOff, diskVars, windowVars, DiskInv, WriteInv,
     OrderInv, Oldest, At, Writing, Threads
<1>10. CASE StopCoalescing(p)
  BY <1>10, <1>a, <1>b DEF StopCoalescing, SaveWaits, Goto, diskVars, windowVars,
     DiskInv, WriteInv, OrderInv, Oldest, At, Writing, Threads
<1>11. CASE Write(p)
  BY <1>11, <1>a, <1>b DEF Write, Goto, diskVars, windowVars, DiskInv, WriteInv,
     OrderInv, Oldest, At, Writing, Threads
<1>12. CASE Sync(p)
  BY <1>12, <1>a, <1>b DEF Sync, diskVars, windowVars, DiskInv, WriteInv, OrderInv,
     Oldest, At, Writing, Threads
<1>13. CASE Rename(p)
  <2>1. promised <= file
    <3>1. PICK s \in survivors : promised <= s /\ s <= file
      BY <1>b DEF DiskInv
    <3> QED
      BY <3>1, <1>a
  <2>2. /\ file' = saver[p].n /\ UNCHANGED <<promised, edits>>
        /\ survivors' = survivors \cup {saver[p].n}
    BY <1>13, <1>b DEF Rename, At, WriteInv
  <2>3. file <= saver[p].n /\ saver[p].n <= edited[p] /\ edited[p] <= edits /\ edited[p] \in Nat
    BY <1>13, <1>a, <1>b DEF Rename, OrderInv, Oldest, At, Writing
  <2>4. ASSUME NEW s \in survivors' PROVE promised <= s /\ s <= saver[p].n
    <3>1. CASE s \in survivors
      BY <2>3, <3>1, <1>a, <1>b DEF DiskInv
    <3>2. CASE s = saver[p].n
      BY <2>1, <2>3, <3>2, <1>a
    <3> QED
      BY <2>2, <2>4, <3>1, <3>2
  <2> QED
    BY <2>2, <2>3, <2>4, <1>a DEF DiskInv
<1>14. CASE SyncDirectory(p)
  <2>1. promised <= file
    <3>1. PICK s \in survivors : promised <= s /\ s <= file
      BY <1>b DEF DiskInv
    <3> QED
      BY <3>1, <1>a
  <2> QED
    BY <1>14, <2>1, <1>a, <1>b DEF SyncDirectory, DiskInv
<1>15. CASE WriteFails(p)
  BY <1>15, <1>a, <1>b DEF WriteFails, diskVars, windowVars, DiskInv, WriteInv,
     OrderInv, Oldest, At, Writing, Threads
<1>16. CASE Reply(p)
  BY <1>16, <1>a, <1>b DEF Reply, Goto, Awaits, diskVars, windowVars, DiskInv,
     WriteInv, OrderInv, Oldest, At, Writing, Threads
<1>17. CASE Autosave(p)
  BY <1>17, <1>a, <1>b DEF Autosave, Open, diskVars, windowVars, DiskInv, WriteInv,
     OrderInv, Oldest, At, Writing, Threads
<1>18. CASE RequestQuit(p)
  BY <1>18, <1>a, <1>b DEF RequestQuit, Flush, diskVars, windowVars, DiskInv,
     WriteInv, OrderInv, Oldest, At, Writing, Threads
<1>19. CASE FlushAgain(p)
  BY <1>19, <1>a, <1>b DEF FlushAgain, Flush, diskVars, windowVars, DiskInv, WriteInv,
     OrderInv, Oldest, At, Writing, Threads
<1>20. CASE Terminate(p)
  BY <1>20, <1>a, <1>b DEF Terminate, Flush, Open, diskVars, windowVars, DiskInv,
     WriteInv, OrderInv, Oldest, At, Writing, Threads
<1>21. CASE Discard(p)
  BY <1>21, <1>a, <1>b DEF Discard, diskVars, windowVars, DiskInv, WriteInv, OrderInv,
     Oldest, At, Writing, Threads
<1>22. CASE Finish(p)
  BY <1>22, <1>a, <1>b DEF Finish, diskVars, windowVars, DiskInv, WriteInv, OrderInv,
     Oldest, At, Writing, Threads
<1>23. CASE ConfirmQuit(p)
  BY <1>23, <1>a, <1>b DEF ConfirmQuit, Current, diskVars, windowVars, DiskInv,
     WriteInv, OrderInv, Oldest, At, Writing, Threads
<1>24. CASE Receive(p)
  BY <1>24, <1>a, <1>b DEF Receive, Next1, NoThread, diskVars, windowVars, DiskInv,
     WriteInv, OrderInv, Oldest, At, Writing, Threads
<1>25. CASE Coalesce(p)
  BY <1>25, <1>a, <1>b DEF Coalesce, Next1, SaveWaits, diskVars, windowVars, DiskInv,
     WriteInv, OrderInv, Oldest, At, Writing, Threads
<1> QED
  BY <1>1, <1>2, <1>3, <1>4, <1>5, <1>6, <1>7, <1>8, <1>9, <1>10, <1>11, <1>12, <1>13,
     <1>14, <1>15, <1>16, <1>17, <1>18, <1>19, <1>20, <1>21, <1>22, <1>23, <1>24,
     <1>25, <1>26 DEF Step, Thread, Window, FinishQuit, User

\* What the thread has written.
LEMMA WriteStep ==
  ASSUME SaverInv, NEW p \in Processes, Step(p)
  PROVE  WriteInv(p)'
<1>a. /\ ui \in [Processes -> Windows] /\ edited \in [Processes -> Nat]
      /\ flushed \in [Processes -> Nat] /\ receipt \in [Processes -> {"none", "ok", "failed"}]
      /\ queue \in [Processes -> Seq(Commands)] /\ saver \in [Processes -> Threads]
      /\ Len(queue[p]) \in Nat /\ (queue[p] = <<>> <=> Len(queue[p]) = 0)
      /\ \A i \in 1 .. Len(queue[p]) : queue[p][i] \in Commands /\ queue[p][i].n \in Nat
      /\ lock \in Processes \cup {Nobody} /\ Nobody \notin Processes
      /\ file \in Nat /\ edits \in Nat /\ promised \in Nat /\ survivors \subseteq Nat
      /\ saver[p].n \in Nat /\ saver[p] \in Threads
      /\ saver[p].pc \in Writing \cup {"none", "receive"}
  BY Typed
<1>b. DiskInv /\ LockInv(p) /\ StopInv(p) /\ OrderInv(p) /\ WriteInv(p) /\ FlushInv(p)
  BY DEF SaverInv
<1>1. CASE Acquire(p)
  BY <1>1, <1>a, <1>b DEF Acquire, diskVars, windowVars, WriteInv, LockInv, At,
     Threads
<1>2. CASE Load(p)
  BY <1>2, <1>a, <1>b DEF Load, Goto, diskVars, windowVars, WriteInv, LockInv, At,
     Threads
<1>3. CASE LoadFails(p)
  BY <1>3, <1>a, <1>b DEF LoadFails, diskVars, windowVars, WriteInv, LockInv, At,
     Threads
<1>4. CASE Edit(p)
  BY <1>4, <1>a, <1>b DEF Edit, Open, diskVars, windowVars, WriteInv, LockInv, At,
     Threads
<1>5. CASE KeepEditing(p)
  BY <1>5, <1>a, <1>b DEF KeepEditing, diskVars, windowVars, WriteInv, LockInv, At,
     Threads
<1>6. CASE Exit(p)
  BY <1>6, <1>a, <1>b DEF Exit, Reset, NoThread, diskVars, windowVars, WriteInv,
     LockInv, At, Threads
<1>7. CASE Crash(p)
  BY <1>7, <1>a, <1>b DEF Crash, Reset, NoThread, diskVars, windowVars, WriteInv,
     LockInv, At, Threads
<1>8. CASE ShowError(p)
  BY <1>8, <1>a, <1>b DEF ShowError, Open, diskVars, windowVars, WriteInv, LockInv,
     At, Threads
<1>9. CASE QuitFails(p)
  BY <1>9, <1>a, <1>b DEF QuitFails, diskVars, windowVars, WriteInv, LockInv, At,
     Threads
<1>26. CASE CallOff(p)
  BY <1>26, <1>a, <1>b DEF CallOff, diskVars, windowVars, WriteInv, LockInv, At,
     Threads
<1>10. CASE StopCoalescing(p)
  BY <1>10, <1>a, <1>b DEF StopCoalescing, SaveWaits, Goto, diskVars, windowVars,
     WriteInv, LockInv, At, Threads
<1>11. CASE Write(p)
  BY <1>11, <1>a, <1>b DEF Write, Goto, diskVars, windowVars, WriteInv, LockInv, At,
     Threads
<1>12. CASE Sync(p)
  BY <1>12, <1>a, <1>b DEF Sync, diskVars, windowVars, WriteInv, LockInv, At, Threads
<1>13. CASE Rename(p)
  BY <1>13, <1>a, <1>b DEF Rename, Goto, diskVars, windowVars, WriteInv, LockInv, At,
     Threads
<1>14. CASE SyncDirectory(p)
  BY <1>14, <1>a, <1>b DEF SyncDirectory, diskVars, windowVars, WriteInv, LockInv, At,
     Threads
<1>15. CASE WriteFails(p)
  BY <1>15, <1>a, <1>b DEF WriteFails, diskVars, windowVars, WriteInv, LockInv, At,
     Threads
<1>16. CASE Reply(p)
  BY <1>16, <1>a, <1>b DEF Reply, Goto, Awaits, diskVars, windowVars, WriteInv,
     LockInv, At, Threads
<1>17. CASE Autosave(p)
  BY <1>17, <1>a, <1>b DEF Autosave, Open, diskVars, windowVars, WriteInv, LockInv,
     At, Threads
<1>18. CASE RequestQuit(p)
  BY <1>18, <1>a, <1>b DEF RequestQuit, Flush, diskVars, windowVars, WriteInv,
     LockInv, At, Threads
<1>19. CASE FlushAgain(p)
  BY <1>19, <1>a, <1>b DEF FlushAgain, Flush, diskVars, windowVars, WriteInv, LockInv,
     At, Threads
<1>20. CASE Terminate(p)
  BY <1>20, <1>a, <1>b DEF Terminate, Flush, Open, diskVars, windowVars, WriteInv,
     LockInv, At, Threads
<1>21. CASE Discard(p)
  BY <1>21, <1>a, <1>b DEF Discard, diskVars, windowVars, WriteInv, LockInv, At,
     Threads
<1>22. CASE Finish(p)
  BY <1>22, <1>a, <1>b DEF Finish, diskVars, windowVars, WriteInv, LockInv, At,
     Threads
<1>23. CASE ConfirmQuit(p)
  BY <1>23, <1>a, <1>b DEF ConfirmQuit, Current, diskVars, windowVars, WriteInv,
     LockInv, At, Threads
<1>24. CASE Receive(p)
  BY <1>24, <1>a, <1>b DEF Receive, Next1, NoThread, diskVars, windowVars, WriteInv,
     LockInv, At, Threads
<1>25. CASE Coalesce(p)
  BY <1>25, <1>a, <1>b DEF Coalesce, Next1, SaveWaits, diskVars, windowVars, WriteInv,
     LockInv, At, Threads
<1> QED
  BY <1>1, <1>2, <1>3, <1>4, <1>5, <1>6, <1>7, <1>8, <1>9, <1>10, <1>11, <1>12, <1>13,
     <1>14, <1>15, <1>16, <1>17, <1>18, <1>19, <1>20, <1>21, <1>22, <1>23, <1>24,
     <1>25, <1>26 DEF Step, Thread, Window, FinishQuit, User

\* The snapshots of the commands are in order when the window sends one more.
LEMMA AddedOrder ==
  ASSUME SaverInv, NEW p \in Processes, ~At(p, "none"), NEW kind, Added(p, kind)
  PROVE  \A i \in 1 .. Len(queue'[p]) :
           /\ Oldest(p) <= queue'[p][i].n
           /\ queue'[p][i].n <= edited[p]
           /\ \A j \in i .. Len(queue'[p]) : queue'[p][i].n <= queue'[p][j].n
<1>a. /\ Len(queue[p]) \in Nat /\ edited[p] \in Nat /\ Oldest(p) <= edited[p]
      /\ \A i \in 1 .. Len(queue[p]) :
           /\ Oldest(p) <= queue[p][i].n
           /\ queue[p][i].n <= edited[p]
           /\ \A j \in i .. Len(queue[p]) : queue[p][i].n <= queue[p][j].n
  BY Typed DEF OrderInv
<1> DEFINE m == Len(queue[p])
<1>1. /\ Len(queue'[p]) = m + 1 /\ queue'[p][m + 1].n = edited[p]
      /\ \A i \in 1 .. m : queue'[p][i].n = queue[p][i].n
  BY DEF Added
<1> SUFFICES ASSUME NEW i \in 1 .. m + 1
             PROVE  /\ Oldest(p) <= queue'[p][i].n
                    /\ queue'[p][i].n <= edited[p]
                    /\ \A j \in i .. m + 1 : queue'[p][i].n <= queue'[p][j].n
  BY <1>1
<1>2. CASE i = m + 1
  BY <1>1, <1>2, <1>a
<1>3. CASE i \in 1 .. m
  <2>1. queue'[p][i].n = queue[p][i].n /\ queue[p][i].n <= edited[p] /\ Oldest(p) <= queue[p][i].n
    BY <1>1, <1>3, <1>a
  <2>2. ASSUME NEW j \in i .. m + 1 PROVE queue'[p][i].n <= queue'[p][j].n
    <3>1. CASE j = m + 1
      BY <2>1, <3>1, <1>1
    <3>2. CASE j # m + 1
      <4>1. j \in i .. m /\ j \in 1 .. m
        BY <3>2, <1>3, <1>a
      <4> QED
        BY <2>1, <4>1, <1>1, <1>3, <1>a
    <3> QED
      BY <3>1, <3>2
  <2> QED
    BY <2>1, <2>2
<1> QED
  BY <1>2, <1>3, <1>a

\* They stay in order when the thread takes the first one, which is the oldest.
LEMMA TakenOrder ==
  ASSUME SaverInv, NEW p \in Processes, ~At(p, "none"), Taken(p)
  PROVE  /\ Oldest(p) <= queue[p][1].n /\ queue[p][1].n <= edited[p] /\ queue[p][1].n \in Nat
         /\ \A i \in 1 .. Len(queue'[p]) :
              /\ queue[p][1].n <= queue'[p][i].n
              /\ queue'[p][i].n <= edited[p]
              /\ \A j \in i .. Len(queue'[p]) : queue'[p][i].n <= queue'[p][j].n
<1>a. /\ Len(queue[p]) \in Nat /\ Len(queue[p]) >= 1
      /\ \A i \in 1 .. Len(queue[p]) :
           /\ queue[p][i].n \in Nat
           /\ Oldest(p) <= queue[p][i].n
           /\ queue[p][i].n <= edited[p]
           /\ \A j \in i .. Len(queue[p]) : queue[p][i].n <= queue[p][j].n
  BY Typed DEF OrderInv, Taken
<1>1. /\ Len(queue'[p]) = Len(queue[p]) - 1
      /\ \A i \in 1 .. Len(queue'[p]) : queue'[p][i] = queue[p][i + 1]
  BY DEF Taken
<1>2. Oldest(p) <= queue[p][1].n /\ queue[p][1].n <= edited[p] /\ queue[p][1].n \in Nat
  BY <1>a
<1>3. ASSUME NEW i \in 1 .. Len(queue'[p])
      PROVE  /\ queue[p][1].n <= queue'[p][i].n
             /\ queue'[p][i].n <= edited[p]
             /\ \A j \in i .. Len(queue'[p]) : queue'[p][i].n <= queue'[p][j].n
  <2>1. i + 1 \in 1 .. Len(queue[p]) /\ queue'[p][i] = queue[p][i + 1]
    BY <1>1, <1>a
  <2>2. queue[p][1].n <= queue[p][i + 1].n /\ queue[p][i + 1].n <= edited[p]
    BY <2>1, <1>a
  <2>3. ASSUME NEW j \in i .. Len(queue'[p]) PROVE queue'[p][i].n <= queue'[p][j].n
    <3>1. j + 1 \in i + 1 .. Len(queue[p]) /\ queue'[p][j] = queue[p][j + 1]
      BY <2>1, <1>1, <1>a
    <3> QED
      BY <2>1, <3>1, <1>a
  <2> QED
    BY <2>1, <2>2, <2>3
<1> QED
  BY <1>2, <1>3

\* The process that moves sends and writes snapshots in order.
LEMMA OrderStep ==
  ASSUME SaverInv, NEW p \in Processes, Step(p)
  PROVE  OrderInv(p)'
<1>a. /\ ui \in [Processes -> Windows] /\ edited \in [Processes -> Nat]
      /\ flushed \in [Processes -> Nat] /\ receipt \in [Processes -> {"none", "ok", "failed"}]
      /\ queue \in [Processes -> Seq(Commands)] /\ saver \in [Processes -> Threads]
      /\ Len(queue[p]) \in Nat /\ (queue[p] = <<>> <=> Len(queue[p]) = 0)
      /\ \A i \in 1 .. Len(queue[p]) : queue[p][i] \in Commands /\ queue[p][i].n \in Nat
      /\ lock \in Processes \cup {Nobody} /\ Nobody \notin Processes
      /\ file \in Nat /\ edits \in Nat /\ promised \in Nat /\ survivors \subseteq Nat
      /\ saver[p].n \in Nat /\ saver[p] \in Threads
      /\ saver[p].pc \in Writing \cup {"none", "receive"}
  BY Typed
<1>b. DiskInv /\ LockInv(p) /\ StopInv(p) /\ OrderInv(p) /\ WriteInv(p) /\ FlushInv(p)
  BY DEF SaverInv
<1>1. CASE Acquire(p)
  BY <1>1, <1>a, <1>b DEF Acquire, diskVars, windowVars, OrderInv, LockInv, DiskInv,
     Oldest, At, Writing, Threads, Open
<1>2. CASE Load(p)
  BY <1>2, <1>a, <1>b DEF Load, Goto, diskVars, windowVars, OrderInv, LockInv,
     DiskInv, Oldest, At, Writing, Threads, Open
<1>3. CASE LoadFails(p)
  BY <1>3, <1>a, <1>b DEF LoadFails, diskVars, windowVars, OrderInv, LockInv, DiskInv,
     Oldest, At, Writing, Threads, Open
<1>4. CASE Edit(p)
  BY <1>4, <1>a, <1>b DEF Edit, Open, diskVars, windowVars, OrderInv, LockInv,
     DiskInv, Oldest, At, Writing, Threads
<1>5. CASE KeepEditing(p)
  BY <1>5, <1>a, <1>b DEF KeepEditing, diskVars, windowVars, OrderInv, LockInv,
     DiskInv, Oldest, At, Writing, Threads, Open
<1>6. CASE Exit(p)
  BY <1>6, <1>a, <1>b DEF Exit, Reset, NoThread, diskVars, windowVars, OrderInv,
     LockInv, DiskInv, Oldest, At, Writing, Threads, Open
<1>7. CASE Crash(p)
  BY <1>7, <1>a, <1>b DEF Crash, Reset, NoThread, diskVars, windowVars, OrderInv,
     LockInv, DiskInv, Oldest, At, Writing, Threads, Open
<1>8. CASE ShowError(p)
  BY <1>8, <1>a, <1>b DEF ShowError, Open, diskVars, windowVars, OrderInv, LockInv,
     DiskInv, Oldest, At, Writing, Threads
<1>9. CASE QuitFails(p)
  BY <1>9, <1>a, <1>b DEF QuitFails, diskVars, windowVars, OrderInv, LockInv, DiskInv,
     Oldest, At, Writing, Threads, Open
<1>26. CASE CallOff(p)
  BY <1>26, <1>a, <1>b DEF CallOff, diskVars, windowVars, OrderInv, LockInv, DiskInv,
     Oldest, At, Writing, Threads, Open
<1>10. CASE StopCoalescing(p)
  BY <1>10, <1>a, <1>b DEF StopCoalescing, SaveWaits, Goto, diskVars, windowVars,
     OrderInv, LockInv, DiskInv, Oldest, At, Writing, Threads, Open
<1>11. CASE Write(p)
  BY <1>11, <1>a, <1>b DEF Write, Goto, diskVars, windowVars, OrderInv, LockInv,
     DiskInv, Oldest, At, Writing, Threads, Open
<1>12. CASE Sync(p)
  BY <1>12, <1>a, <1>b DEF Sync, diskVars, windowVars, OrderInv, LockInv, DiskInv,
     Oldest, At, Writing, Threads, Open
<1>13. CASE Rename(p)
  BY <1>13, <1>a, <1>b DEF Rename, Goto, diskVars, windowVars, OrderInv, LockInv,
     DiskInv, Oldest, At, Writing, Threads, Open
<1>14. CASE SyncDirectory(p)
  BY <1>14, <1>a, <1>b DEF SyncDirectory, diskVars, windowVars, OrderInv, LockInv,
     DiskInv, Oldest, At, Writing, Threads, Open
<1>15. CASE WriteFails(p)
  BY <1>15, <1>a, <1>b DEF WriteFails, diskVars, windowVars, OrderInv, LockInv,
     DiskInv, Oldest, At, Writing, Threads, Open
<1>16. CASE Reply(p)
  BY <1>16, <1>a, <1>b DEF Reply, Goto, Awaits, diskVars, windowVars, OrderInv,
     LockInv, DiskInv, Oldest, At, Writing, Threads, Open
<1>17. CASE Autosave(p)
  <2>1. /\ saver' = saver /\ UNCHANGED <<file, edits, edited, flushed>> /\ ~At(p, "none")
    BY <1>17, <1>b DEF Autosave, diskVars, LockInv
  <2>2. Oldest(p)' = Oldest(p)
    BY <2>1 DEF Oldest
  <2>3. CASE ui[p] = "quitting"
    BY <1>17, <2>1, <2>2, <2>3, <1>b DEF Autosave, OrderInv, At
  <2>4. CASE ui[p] # "quitting"
    <3>1. Added(p, "save")
      BY <1>17, <2>4, SendStep DEF Autosave, Send
    <3> QED
      BY <2>1, <2>2, <3>1, <1>b, AddedOrder DEF OrderInv, At
  <2> QED
    BY <2>3, <2>4
<1>18. CASE RequestQuit(p)
  <2>1. Added(p, "quit") /\ ~At(p, "none")
    BY <1>18, SendStep, <1>b DEF RequestQuit, Flush, Send, Flushes, LockInv, Open
  <2>2. /\ saver' = saver /\ UNCHANGED <<file, edits, edited>>
        /\ flushed'[p] \in {flushed[p], edited[p]}
    BY <1>18, <1>a DEF RequestQuit, Flush, diskVars, windowVars, OrderInv, LockInv,
       DiskInv, Oldest, At, Writing, Threads, Open
  <2>3. Oldest(p)' = Oldest(p)
    BY <2>2 DEF Oldest
  <2> QED
    BY <2>1, <2>2, <2>3, <1>a, <1>b, AddedOrder DEF OrderInv, At
<1>19. CASE FlushAgain(p)
  <2>1. Added(p, "quit") /\ ~At(p, "none")
    BY <1>19, SendStep, <1>b DEF FlushAgain, Flush, Send, Flushes, LockInv, Open
  <2>2. /\ saver' = saver /\ UNCHANGED <<file, edits, edited>>
        /\ flushed'[p] \in {flushed[p], edited[p]}
    BY <1>19, <1>a DEF FlushAgain, Flush, diskVars, windowVars, OrderInv, LockInv,
       DiskInv, Oldest, At, Writing, Threads, Open
  <2>3. Oldest(p)' = Oldest(p)
    BY <2>2 DEF Oldest
  <2> QED
    BY <2>1, <2>2, <2>3, <1>a, <1>b, AddedOrder DEF OrderInv, At
<1>20. CASE Terminate(p)
  <2>1. Added(p, "finish") /\ ~At(p, "none")
    BY <1>20, SendStep, <1>b DEF Terminate, Flush, Send, Flushes, LockInv, Open
  <2>2. /\ saver' = saver /\ UNCHANGED <<file, edits, edited>>
        /\ flushed'[p] \in {flushed[p], edited[p]}
    BY <1>20, <1>a DEF Terminate, Flush, Open, diskVars, windowVars, OrderInv,
       LockInv, DiskInv, Oldest, At, Writing, Threads
  <2>3. Oldest(p)' = Oldest(p)
    BY <2>2 DEF Oldest
  <2> QED
    BY <2>1, <2>2, <2>3, <1>a, <1>b, AddedOrder DEF OrderInv, At
<1>21. CASE Discard(p)
  <2>1. Added(p, "stop") /\ ~At(p, "none")
    BY <1>21, SendStep, <1>b DEF Discard, Send, Flushes, LockInv, Open
  <2>2. /\ saver' = saver /\ UNCHANGED <<file, edits, edited>>
        /\ flushed'[p] \in {flushed[p], edited[p]}
    BY <1>21, <1>a DEF Discard, diskVars, windowVars, OrderInv, LockInv, DiskInv,
       Oldest, At, Writing, Threads, Open
  <2>3. Oldest(p)' = Oldest(p)
    BY <2>2 DEF Oldest
  <2> QED
    BY <2>1, <2>2, <2>3, <1>a, <1>b, AddedOrder DEF OrderInv, At
<1>22. CASE Finish(p)
  <2>1. Added(p, "stop") /\ ~At(p, "none")
    BY <1>22, SendStep, <1>b DEF Finish, Send, Flushes, LockInv, Open
  <2>2. /\ saver' = saver /\ UNCHANGED <<file, edits, edited>>
        /\ flushed'[p] \in {flushed[p], edited[p]}
    BY <1>22, <1>a DEF Finish, diskVars, windowVars, OrderInv, LockInv, DiskInv,
       Oldest, At, Writing, Threads, Open
  <2>3. Oldest(p)' = Oldest(p)
    BY <2>2 DEF Oldest
  <2> QED
    BY <2>1, <2>2, <2>3, <1>a, <1>b, AddedOrder DEF OrderInv, At
<1>23. CASE ConfirmQuit(p)
  <2>1. Added(p, "stop") /\ ~At(p, "none")
    BY <1>23, SendStep, <1>b DEF ConfirmQuit, Send, Flushes, LockInv, Open
  <2>2. /\ saver' = saver /\ UNCHANGED <<file, edits, edited>>
        /\ flushed'[p] \in {flushed[p], edited[p]}
    BY <1>23, <1>a DEF ConfirmQuit, Current, diskVars, windowVars, OrderInv, LockInv,
       DiskInv, Oldest, At, Writing, Threads, Open
  <2>3. Oldest(p)' = Oldest(p)
    BY <2>2 DEF Oldest
  <2> QED
    BY <2>1, <2>2, <2>3, <1>a, <1>b, AddedOrder DEF OrderInv, At
<1>24. CASE Receive(p)
  <2>1. Taken(p) /\ ~At(p, "none") /\ UNCHANGED <<file, edits, edited, flushed>>
    BY <1>24, TakeStep DEF Receive, At, windowVars
  <2>2. CASE Next1(p).kind = "stop"
    <3>1. At(p, "none")'
      BY <1>24, <2>2, <1>a DEF Receive, NoThread, At
    <3> QED
      BY <2>1, <3>1, <1>b DEF OrderInv
  <2>3. CASE Next1(p).kind # "stop"
    <3>1. saver'[p].pc \in Writing /\ saver'[p].n = queue[p][1].n /\ saver[p].pc = "receive"
      BY <1>24, <2>1, <2>3, <1>a DEF Receive, Taken, Next1, Writing, At
    <3>2. Oldest(p) = file /\ Oldest(p)' = queue[p][1].n
      BY <2>1, <3>1 DEF Oldest, Writing
    <3> QED
      BY <2>1, <3>2, <1>a, <1>b, TakenOrder DEF OrderInv
  <2> QED
    BY <2>2, <2>3
<1>25. CASE Coalesce(p)
  <2>1. Taken(p) /\ ~At(p, "none") /\ UNCHANGED <<file, edits, edited, flushed>>
    BY <1>25, TakeStep DEF Coalesce, SaveWaits, At, windowVars, diskVars
  <2>2. Oldest(p) = saver[p].n /\ Oldest(p)' = queue[p][1].n
    BY <1>25, <2>1, <1>a DEF Coalesce, Taken, Next1, Writing, At, Oldest, Threads
  <2> QED
    BY <2>1, <2>2, <1>a, <1>b, TakenOrder DEF OrderInv
<1> QED
  BY <1>1, <1>2, <1>3, <1>4, <1>5, <1>6, <1>7, <1>8, <1>9, <1>10, <1>11, <1>12, <1>13,
     <1>14, <1>15, <1>16, <1>17, <1>18, <1>19, <1>20, <1>21, <1>22, <1>23, <1>24,
     <1>25, <1>26 DEF Step, Thread, Window, FinishQuit, User

\* Another flush becomes outstanding only when it is sent.
LEMMA AddedOutstanding ==
  ASSUME SaverInv, NEW p \in Processes, NEW sent, Added(p, sent), saver' = saver,
         NEW kind, kind # sent, ~Outstanding(p, kind)
  PROVE  ~Outstanding(p, kind)'
<1>1. ASSUME NEW i \in 1 .. Len(queue'[p]) PROVE queue'[p][i].kind # kind
  <2>1. Len(queue[p]) \in Nat
    BY Typed
  <2>2. CASE i \in 1 .. Len(queue[p])
    BY <2>2 DEF Added, Outstanding
  <2>3. CASE i = Len(queue[p]) + 1
    BY <2>3 DEF Added
  <2> QED
    BY <2>1, <2>2, <2>3 DEF Added
<1> QED
  BY <1>1 DEF Outstanding

\* A flush that is sent when none of its kind is outstanding is the last command.
LEMMA AddedLast ==
  ASSUME SaverInv, NEW p \in Processes, NEW kind, Added(p, kind), saver' = saver,
         ~Outstanding(p, kind), flushed'[p] = edited[p]
  PROVE  FlushLast(p, kind)'
<1>1. Len(queue[p]) \in Nat /\ Len(queue'[p]) = Len(queue[p]) + 1 /\ queue'[p] # <<>>
  BY Typed DEF Added
<1>2. queue'[p][Len(queue'[p])] = [kind |-> kind, n |-> flushed'[p]]
  BY <1>1 DEF Added
<1>3. \A i \in 1 .. Len(queue'[p]) - 1 : queue'[p][i].kind # kind
  BY <1>1 DEF Added, Outstanding
<1>4. saver'[p].pc \in Writing => saver'[p].kind # kind
  BY DEF Outstanding
<1> QED
  BY <1>1, <1>2, <1>3, <1>4 DEF FlushLast

\* The flush of the process that moves is answered last, for what it sent.
LEMMA FlushStep ==
  ASSUME SaverInv, NEW p \in Processes, Step(p)
  PROVE  FlushInv(p)'
<1>a. /\ ui \in [Processes -> Windows] /\ edited \in [Processes -> Nat]
      /\ flushed \in [Processes -> Nat] /\ receipt \in [Processes -> {"none", "ok", "failed"}]
      /\ queue \in [Processes -> Seq(Commands)] /\ saver \in [Processes -> Threads]
      /\ Len(queue[p]) \in Nat /\ (queue[p] = <<>> <=> Len(queue[p]) = 0)
      /\ \A i \in 1 .. Len(queue[p]) : queue[p][i] \in Commands /\ queue[p][i].n \in Nat
      /\ lock \in Processes \cup {Nobody} /\ Nobody \notin Processes
      /\ file \in Nat /\ edits \in Nat /\ promised \in Nat /\ survivors \subseteq Nat
      /\ saver[p].n \in Nat /\ saver[p] \in Threads
      /\ saver[p].pc \in Writing \cup {"none", "receive"}
  BY Typed
<1>b. DiskInv /\ LockInv(p) /\ StopInv(p) /\ OrderInv(p) /\ WriteInv(p) /\ FlushInv(p)
  BY DEF SaverInv
<1>1. CASE Acquire(p)
  BY <1>1, <1>a, <1>b DEF Acquire, diskVars, windowVars, FlushInv, FlushLast,
     Outstanding, Current, WriteInv, LockInv, At, Writing, Open, Threads
<1>2. CASE Load(p)
  BY <1>2, <1>a, <1>b DEF Load, Goto, diskVars, windowVars, FlushInv, FlushLast,
     Outstanding, Current, WriteInv, LockInv, At, Writing, Open, Threads
<1>3. CASE LoadFails(p)
  BY <1>3, <1>a, <1>b DEF LoadFails, diskVars, windowVars, FlushInv, FlushLast,
     Outstanding, Current, WriteInv, LockInv, At, Writing, Open, Threads
<1>4. CASE Edit(p)
  BY <1>4, <1>a, <1>b DEF Edit, Open, diskVars, windowVars, FlushInv, FlushLast,
     Outstanding, Current, WriteInv, LockInv, At, Writing, Threads
<1>5. CASE KeepEditing(p)
  BY <1>5, <1>a, <1>b DEF KeepEditing, diskVars, windowVars, FlushInv, FlushLast,
     Outstanding, Current, WriteInv, LockInv, At, Writing, Open, Threads
<1>6. CASE Exit(p)
  BY <1>6, <1>a, <1>b DEF Exit, Reset, NoThread, diskVars, windowVars, FlushInv,
     FlushLast, Outstanding, Current, WriteInv, LockInv, At, Writing, Open, Threads
<1>7. CASE Crash(p)
  BY <1>7, <1>a, <1>b DEF Crash, Reset, NoThread, diskVars, windowVars, FlushInv,
     FlushLast, Outstanding, Current, WriteInv, LockInv, At, Writing, Open, Threads
<1>8. CASE ShowError(p)
  BY <1>8, <1>a, <1>b DEF ShowError, Open, diskVars, windowVars, FlushInv, FlushLast,
     Outstanding, Current, WriteInv, LockInv, At, Writing, Threads
<1>9. CASE QuitFails(p)
  BY <1>9, <1>a, <1>b DEF QuitFails, diskVars, windowVars, FlushInv, FlushLast,
     Outstanding, Current, WriteInv, LockInv, At, Writing, Open, Threads
<1>26. CASE CallOff(p)
  BY <1>26, <1>a, <1>b DEF CallOff, diskVars, windowVars, FlushInv, FlushLast,
     Outstanding, Current, WriteInv, LockInv, At, Writing, Open, Threads
<1>10. CASE StopCoalescing(p)
  BY <1>10, <1>a, <1>b DEF StopCoalescing, SaveWaits, Goto, diskVars, windowVars,
     FlushInv, FlushLast, Outstanding, Current, WriteInv, LockInv, At, Writing, Open,
     Threads
<1>11. CASE Write(p)
  BY <1>11, <1>a, <1>b DEF Write, Goto, diskVars, windowVars, FlushInv, FlushLast,
     Outstanding, Current, WriteInv, LockInv, At, Writing, Open, Threads
<1>12. CASE Sync(p)
  BY <1>12, <1>a, <1>b DEF Sync, diskVars, windowVars, FlushInv, FlushLast,
     Outstanding, Current, WriteInv, LockInv, At, Writing, Open, Threads
<1>13. CASE Rename(p)
  BY <1>13, <1>a, <1>b DEF Rename, Goto, diskVars, windowVars, FlushInv, FlushLast,
     Outstanding, Current, WriteInv, LockInv, At, Writing, Open, Threads
<1>14. CASE SyncDirectory(p)
  BY <1>14, <1>a, <1>b DEF SyncDirectory, diskVars, windowVars, FlushInv, FlushLast,
     Outstanding, Current, WriteInv, LockInv, At, Writing, Open, Threads
<1>15. CASE WriteFails(p)
  BY <1>15, <1>a, <1>b DEF WriteFails, diskVars, windowVars, FlushInv, FlushLast,
     Outstanding, Current, WriteInv, LockInv, At, Writing, Open, Threads
<1>16. CASE Reply(p)
  BY <1>16, <1>a, <1>b DEF Reply, Goto, Awaits, diskVars, windowVars, FlushInv,
     FlushLast, Outstanding, Current, WriteInv, LockInv, At, Writing, Open, Threads
<1>17. CASE Autosave(p)
  <2>1. /\ saver' = saver /\ UNCHANGED <<ui, edited, flushed, receipt, file, survivors>>
        /\ Open(p)
    BY <1>17 DEF Autosave, diskVars
  <2>2. CASE ui[p] = "quitting"
    BY <1>17, <2>1, <2>2, <1>b DEF Autosave, Open, diskVars, windowVars, FlushInv,
       FlushLast, Outstanding, Current, WriteInv, LockInv, At, Writing, Threads
  <2>3. CASE ui[p] # "quitting"
    <3>1. Added(p, "save") /\ ui[p] \in {"open", "failed"}
      BY <1>17, <2>1, <2>3, SendStep DEF Autosave, Send, Open
    <3>2. ~Outstanding(p, "quit")' /\ ~Outstanding(p, "finish")'
      BY <2>1, <3>1, <1>b, AddedOutstanding DEF FlushInv
    <3> QED
      BY <2>1, <3>1, <3>2 DEF FlushInv
  <2> QED
    BY <2>2, <2>3
<1>18. CASE RequestQuit(p)
  <2>1. /\ Added(p, "quit") /\ saver' = saver /\ UNCHANGED edited
        /\ flushed'[p] = edited[p] /\ receipt'[p] = "none" /\ ui'[p] = "quitting"
    BY <1>18, SendStep, <1>a DEF RequestQuit, Flush, Send, Flushes
  <2>2. ~Outstanding(p, "quit")
    BY <1>18, <1>b DEF RequestQuit, FlushInv, Open
  <2>3. FlushLast(p, "quit")'
    BY <2>1, <2>2, AddedLast
  <2>4. ~Outstanding(p, "finish")'
    BY <1>18, <2>1, <1>b, AddedOutstanding DEF RequestQuit, FlushInv, Open
  <2> QED
    BY <2>1, <2>3, <2>4 DEF FlushInv, Open
<1>19. CASE FlushAgain(p)
  <2>1. Added(p, "quit")
    BY <1>19, SendStep DEF FlushAgain, Flush, Send, Flushes
  <2> QED
    BY <1>19, <2>1, <1>a, <1>b DEF FlushAgain, Flush, diskVars, windowVars,
       FlushInv, FlushLast, Outstanding, Current, WriteInv, LockInv, At, Writing,
       Open, Threads, Added
<1>20. CASE Terminate(p)
  <2>1. /\ Added(p, "finish") /\ saver' = saver /\ UNCHANGED edited
        /\ flushed'[p] = edited[p] /\ receipt'[p] = "none" /\ ui'[p] = "finishing"
    BY <1>20, SendStep, <1>a DEF Terminate, Flush, Send, Flushes
  <2>2. ~Outstanding(p, "finish")
    BY <1>20, <1>b DEF Terminate, FlushInv, Open
  <2>3. FlushLast(p, "finish")'
    BY <2>1, <2>2, AddedLast
  <2> QED
    BY <2>1, <2>3 DEF FlushInv, Open, Current
<1>21. CASE Discard(p)
  <2>1. Added(p, "stop")
    BY <1>21, SendStep DEF Discard, Send, Flushes
  <2> QED
    BY <1>21, <2>1, <1>a, <1>b DEF Discard, diskVars, windowVars, FlushInv,
       FlushLast, Outstanding, Current, WriteInv, LockInv, At, Writing, Open,
       Threads, Added
<1>22. CASE Finish(p)
  <2>1. Added(p, "stop")
    BY <1>22, SendStep DEF Finish, Send, Flushes
  <2> QED
    BY <1>22, <2>1, <1>a, <1>b DEF Finish, diskVars, windowVars, FlushInv,
       FlushLast, Outstanding, Current, WriteInv, LockInv, At, Writing, Open,
       Threads, Added
<1>23. CASE ConfirmQuit(p)
  <2>1. Added(p, "stop")
    BY <1>23, SendStep DEF ConfirmQuit, Send, Flushes
  <2> QED
    BY <1>23, <2>1, <1>a, <1>b DEF ConfirmQuit, Current, diskVars, windowVars,
       FlushInv, FlushLast, Outstanding, WriteInv, LockInv, At, Writing, Open,
       Threads, Added
<1>24. CASE Receive(p)
  <2>1. /\ Taken(p) /\ queue[p] # <<>> /\ saver[p].pc = "receive"
        /\ UNCHANGED <<ui, edited, flushed, receipt, file, survivors>>
    BY <1>24, TakeStep DEF Receive, At, windowVars
  <2>2. CASE Next1(p).kind = "stop"
    <3>1. Stopped(p) /\ At(p, "none")'
      <4>1. Stopped(p)
        BY <2>1, <2>2, <1>b DEF Taken, Next1, StopInv
      <4> QED
        BY <1>24, <2>2, <4>1, <1>a DEF Receive, NoThread, At
    <3> QED
      BY <2>1, <3>1, <1>b DEF FlushInv, Stopped, Open, At, Current
  <2>3. CASE Next1(p).kind # "stop"
    <3>1. /\ saver'[p].pc = IF queue[p][1].kind = "save" THEN "coalesce" ELSE "write"
          /\ saver'[p].kind = queue[p][1].kind /\ saver'[p].n = queue[p][1].n
      BY <1>24, <2>1, <2>3, <1>a DEF Receive, Taken, Next1
    <3>2. ui[p] # "saved"
      BY <2>1, <2>3, <1>a, <1>b DEF FlushInv, StopInv, Stopped, Taken, Next1, At
    <3>3. ASSUME NEW kind \in Flushes, FlushLast(p, kind) PROVE FlushLast(p, kind)'
      <4>1. /\ queue[p][Len(queue[p])] = [kind |-> kind, n |-> flushed[p]]
            /\ \A i \in 1 .. Len(queue[p]) - 1 : queue[p][i].kind # kind
            /\ saver[p].pc \in Writing => saver[p].kind # kind
        BY <2>1, <3>3, <1>a DEF FlushLast, Taken
      <4>2. CASE Len(queue[p]) = 1
        BY <2>1, <3>1, <4>1, <4>2 DEF FlushLast, Taken, Flushes, Writing
      <4>3. CASE Len(queue[p]) # 1
        <5>1. Len(queue'[p]) \in Nat \ {0} /\ queue'[p] # <<>>
          BY <2>1, <4>3, <1>a DEF Taken
        <5>2. queue'[p][Len(queue'[p])] = queue[p][Len(queue[p])]
          BY <2>1, <5>1, <1>a DEF Taken
        <5>3. ASSUME NEW i \in 1 .. Len(queue'[p]) - 1 PROVE queue'[p][i].kind # kind
          <6>1. i + 1 \in 1 .. Len(queue[p]) - 1 /\ queue'[p][i] = queue[p][i + 1]
            BY <2>1 DEF Taken
          <6> QED
            BY <4>1, <6>1
        <5>4. saver'[p].kind # kind
          BY <2>1, <3>1, <4>1, <5>1, <1>a DEF Taken
        <5> QED
          BY <2>1, <4>1, <5>1, <5>2, <5>3, <5>4 DEF FlushLast
      <4> QED
        BY <4>2, <4>3
    <3>4. ASSUME NEW kind, ~Outstanding(p, kind) PROVE ~Outstanding(p, kind)'
      <4>1. \A i \in 1 .. Len(queue'[p]) : queue'[p][i].kind # kind
        BY <2>1, <3>4 DEF Outstanding, Taken
      <4>2. saver'[p].kind # kind
        BY <2>1, <3>1, <3>4 DEF Outstanding, Taken
      <4> QED
        BY <4>1, <4>2 DEF Outstanding
    <3> QED
      BY <2>1, <3>2, <3>3, <3>4, <1>b DEF FlushInv, Flushes, Open, Current
  <2> QED
    BY <2>2, <2>3
<1>25. CASE Coalesce(p)
  <2>1. /\ Taken(p) /\ queue[p] # <<>> /\ queue[p][1].kind = "save"
        /\ saver[p].pc = "coalesce" /\ saver'[p].pc = "coalesce"
        /\ saver'[p].kind = saver[p].kind
        /\ UNCHANGED <<ui, edited, flushed, receipt, file, survivors>>
    BY <1>25, TakeStep, <1>a DEF Coalesce, Taken, SaveWaits, Next1, At, windowVars,
       diskVars, Threads
  <2>2. ASSUME NEW kind \in Flushes, FlushLast(p, kind) PROVE FlushLast(p, kind)'
    <3>1. /\ queue[p][Len(queue[p])] = [kind |-> kind, n |-> flushed[p]]
          /\ \A i \in 1 .. Len(queue[p]) - 1 : queue[p][i].kind # kind
          /\ saver[p].pc \in Writing => saver[p].kind # kind
      BY <2>1, <2>2, <1>a DEF FlushLast, Taken
    <3>2. Len(queue'[p]) \in Nat \ {0} /\ queue'[p] # <<>>
      BY <2>1, <3>1, <1>a DEF Taken, Flushes
    <3>3. queue'[p][Len(queue'[p])] = queue[p][Len(queue[p])]
      <4>1. Len(queue'[p]) \in 1 .. Len(queue'[p]) /\ Len(queue'[p]) + 1 = Len(queue[p])
        BY <2>1, <3>2, <1>a DEF Taken
      <4> QED
        BY <2>1, <4>1 DEF Taken
    <3>4. ASSUME NEW i \in 1 .. Len(queue'[p]) - 1 PROVE queue'[p][i].kind # kind
      <4>1. i + 1 \in 1 .. Len(queue[p]) - 1 /\ queue'[p][i] = queue[p][i + 1]
        BY <2>1 DEF Taken
      <4> QED
        BY <3>1, <4>1
    <3> QED
      BY <2>1, <3>1, <3>2, <3>3, <3>4 DEF FlushLast
  <2>3. ASSUME NEW kind, ~Outstanding(p, kind) PROVE ~Outstanding(p, kind)'
    <3>1. \A i \in 1 .. Len(queue'[p]) : queue'[p][i].kind # kind
      BY <2>1, <2>3 DEF Outstanding, Taken
    <3> QED
      BY <2>1, <2>3, <3>1 DEF Outstanding, Writing
  <2> QED
    BY <2>1, <2>2, <2>3, <1>b DEF FlushInv, Flushes, Open, Current, At
<1> QED
  BY <1>1, <1>2, <1>3, <1>4, <1>5, <1>6, <1>7, <1>8, <1>9, <1>10, <1>11, <1>12, <1>13,
     <1>14, <1>15, <1>16, <1>17, <1>18, <1>19, <1>20, <1>21, <1>22, <1>23, <1>24,
     <1>25, <1>26 DEF Step, Thread, Window, FinishQuit, User

\* The records that the actions make of a thread.
LEMMA ThreadRecords ==
  ASSUME NEW s \in Threads, NEW pc \in Writing \cup {"none", "receive"}, NEW b \in BOOLEAN
  PROVE  /\ [s EXCEPT !.pc = pc] \in Threads
         /\ [s EXCEPT !.pc = pc, !.synced = TRUE] \in Threads
         /\ [s EXCEPT !.pc = pc, !.ok = b] \in Threads
         /\ \A n \in Snapshots : [s EXCEPT !.n = n] \in Threads
  BY DEF Threads

\* The process that moves keeps the types.
LEMMA TypeStep ==
  ASSUME SaverInv, NEW p \in Processes, Step(p)
  PROVE  TypeInv'
<1>a. /\ ui \in [Processes -> Windows] /\ edited \in [Processes -> Nat]
      /\ flushed \in [Processes -> Nat] /\ receipt \in [Processes -> {"none", "ok", "failed"}]
      /\ queue \in [Processes -> Seq(Commands)] /\ saver \in [Processes -> Threads]
      /\ Len(queue[p]) \in Nat /\ (queue[p] = <<>> <=> Len(queue[p]) = 0)
      /\ \A i \in 1 .. Len(queue[p]) : queue[p][i] \in Commands /\ queue[p][i].n \in Nat
      /\ lock \in Processes \cup {Nobody} /\ Nobody \notin Processes
      /\ file \in Nat /\ edits \in Nat /\ promised \in Nat /\ survivors \subseteq Nat
      /\ saver[p].n \in Nat /\ saver[p] \in Threads
      /\ saver[p].pc \in Writing \cup {"none", "receive"}
  BY Typed
<1>c. TypeInv /\ 0 \in Snapshots /\ MaxEdits \in Nat /\ Snapshots = 0 .. MaxEdits
      /\ saver[p].n \in Snapshots /\ edited[p] \in Snapshots
      /\ WriteInv(p)
  <2>1. TypeInv /\ WriteInv(p)
    BY DEF SaverInv
  <2>2. 0 \in Snapshots /\ MaxEdits \in Nat /\ Snapshots = 0 .. MaxEdits
    BY MaxEditsAssumption DEF Snapshots
  <2>3. edited[p] \in Snapshots /\ saver \in [Processes -> Threads]
    BY <2>1, <1>a DEF TypeInv
  <2>4. saver[p].n \in Snapshots
    BY <2>3 DEF Threads
  <2> QED
    BY <2>1, <2>2, <2>3, <2>4
<1>1. CASE Acquire(p)
  <2>1. /\ ui' = [ui EXCEPT ![p] = "loading"] /\ lock' = p
        /\ UNCHANGED <<file, survivors, edits, promised, edited, dirty, flushed, receipt, told,
                       stranded, errors, queue, saver>>
    BY <1>1 DEF Acquire
  <2> QED
    BY <2>1, <1>c DEF TypeInv
<1>2. CASE Load(p)
  <2>1. "receive" \in Writing \cup {"none", "receive"}
    BY DEF Writing
  <2>2. saver' = [saver EXCEPT ![p] = [saver[p] EXCEPT !.pc = "receive"]]
    BY <1>2, <1>a DEF Load, Goto, Threads
  <2>3. saver' \in [Processes -> Threads]
    BY <2>1, <2>2, <1>a, <1>c, ThreadRecords
  <2> QED
    BY <1>2, <2>3, <1>a, <1>c DEF Load, diskVars, windowVars, TypeInv, Threads
<1>3. CASE LoadFails(p)
  <2>1. /\ ui' = [ui EXCEPT ![p] = "closed"] /\ lock' = Nobody
        /\ UNCHANGED <<file, survivors, edits, promised, edited, dirty, flushed, receipt, told,
                       stranded, errors, queue, saver>>
    BY <1>3 DEF LoadFails
  <2> QED
    BY <2>1, <1>c DEF TypeInv
<1>4. CASE Edit(p)
  <2>1. edits' \in Snapshots
    BY <1>4, <1>a, <1>c DEF Edit
  <2>2. /\ edited' = [edited EXCEPT ![p] = edits'] /\ dirty' = [dirty EXCEPT ![p] = TRUE]
        /\ UNCHANGED <<diskVars, promised, ui, flushed, receipt, told, stranded, errors, queue,
                       saver>>
    BY <1>4 DEF Edit
  <2> QED
    BY <2>1, <2>2, <1>c DEF diskVars, TypeInv
<1>5. CASE KeepEditing(p)
  <2>1. /\ ui' = [ui EXCEPT ![p] = "open"]
        /\ UNCHANGED <<diskVars, edits, promised, edited, dirty, flushed, receipt, told,
                       stranded, errors, queue, saver>>
    BY <1>5 DEF KeepEditing
  <2> QED
    BY <2>1, <1>c DEF diskVars, TypeInv
<1>6. CASE Exit(p) \/ Crash(p)
  <2>1. Reset(p) /\ UNCHANGED <<file, survivors, edits, promised>>
    BY <1>6 DEF Exit, Crash
  <2>2. /\ ui' = [ui EXCEPT ![p] = "closed"] /\ receipt' = [receipt EXCEPT ![p] = "none"]
        /\ saver' = [saver EXCEPT ![p] = NoThread] /\ queue' = [queue EXCEPT ![p] = <<>>]
        /\ edited' = [edited EXCEPT ![p] = 0] /\ flushed' = [flushed EXCEPT ![p] = 0]
        /\ told' = [told EXCEPT ![p] = 0] /\ stranded' = [stranded EXCEPT ![p] = 0]
        /\ dirty' = [dirty EXCEPT ![p] = FALSE] /\ errors' = [errors EXCEPT ![p] = FALSE]
        /\ lock' \in {lock, Nobody}
    BY <2>1 DEF Reset
  <2>3. NoThread \in Threads
    BY <1>c DEF NoThread, Threads
  <2>4. /\ saver' \in [Processes -> Threads] /\ queue' \in [Processes -> Seq(Commands)]
        /\ lock' \in Processes \cup {Nobody}
    BY <2>2, <2>3, <1>a
  <2> QED
    BY <2>1, <2>2, <2>4, <1>c DEF TypeInv, Threads
<1>8. CASE ShowError(p)
  BY <1>8, <1>a, <1>c DEF ShowError, Open, diskVars, windowVars, TypeInv
<1>9. CASE QuitFails(p)
  BY <1>9, <1>a, <1>c DEF QuitFails, diskVars, windowVars, TypeInv
<1>26. CASE CallOff(p)
  <2>1. /\ ui' = [ui EXCEPT ![p] = "open"]
        /\ stranded' \in {stranded, [stranded EXCEPT ![p] = edited[p]]}
        /\ UNCHANGED <<diskVars, edits, promised, edited, dirty, flushed, receipt, told, errors,
                       queue, saver>>
    BY <1>26 DEF CallOff
  <2> QED
    BY <2>1, <1>c DEF diskVars, TypeInv
<1>10. CASE StopCoalescing(p)
  <2>1. "write" \in Writing \cup {"none", "receive"}
    BY DEF Writing
  <2>2. saver' = [saver EXCEPT ![p] = [saver[p] EXCEPT !.pc = "write"]]
    BY <1>10, <1>a DEF StopCoalescing, Goto, Threads
  <2>3. saver' \in [Processes -> Threads]
    BY <2>1, <2>2, <1>a, <1>c, ThreadRecords
  <2> QED
    BY <1>10, <2>3, <1>a, <1>c DEF StopCoalescing, diskVars, windowVars, TypeInv, Threads
<1>11. CASE Write(p)
  <2>1. "sync" \in Writing \cup {"none", "receive"}
    BY DEF Writing
  <2>2. saver' = [saver EXCEPT ![p] = [saver[p] EXCEPT !.pc = "sync"]]
    BY <1>11, <1>a DEF Write, Goto, Threads
  <2>3. saver' \in [Processes -> Threads]
    BY <2>1, <2>2, <1>a, <1>c, ThreadRecords
  <2> QED
    BY <1>11, <2>3, <1>a, <1>c DEF Write, diskVars, windowVars, TypeInv, Threads
<1>12. CASE Sync(p)
  <2>1. "rename" \in Writing \cup {"none", "receive"}
    BY DEF Writing
  <2>2. saver' = [saver EXCEPT ![p] = [saver[p] EXCEPT !.pc = "rename", !.synced = TRUE]]
    BY <1>12, <1>a DEF Sync, Threads
  <2>3. saver' \in [Processes -> Threads]
    BY <2>1, <2>2, <1>a, <1>c, ThreadRecords
  <2> QED
    BY <1>12, <2>3, <1>a, <1>c DEF Sync, diskVars, windowVars, TypeInv, Threads
<1>13. CASE Rename(p)
  <2>1. "syncDirectory" \in Writing \cup {"none", "receive"}
    BY DEF Writing
  <2>2. saver' = [saver EXCEPT ![p] = [saver[p] EXCEPT !.pc = "syncDirectory"]]
    BY <1>13, <1>a DEF Rename, Goto, Threads
  <2>3. saver' \in [Processes -> Threads]
    BY <2>1, <2>2, <1>a, <1>c, ThreadRecords
  <2>4. saver[p].synced
    BY <1>13, <1>c DEF Rename, WriteInv, At
  <2> QED
    BY <1>13, <2>3, <2>4, <1>a, <1>c DEF Rename, diskVars, windowVars, TypeInv, Threads
<1>14. CASE SyncDirectory(p)
  <2>1. "reply" \in Writing \cup {"none", "receive"}
    BY DEF Writing
  <2>2. saver' = [saver EXCEPT ![p] = [saver[p] EXCEPT !.pc = "reply", !.ok = TRUE]]
    BY <1>14, <1>a DEF SyncDirectory, Threads
  <2>3. saver' \in [Processes -> Threads]
    BY <2>1, <2>2, <1>a, <1>c, ThreadRecords
  <2> QED
    BY <1>14, <2>3, <1>a, <1>c DEF SyncDirectory, diskVars, windowVars, TypeInv, Threads
<1>15. CASE WriteFails(p)
  <2>1. "reply" \in Writing \cup {"none", "receive"}
    BY DEF Writing
  <2>2. saver' = [saver EXCEPT ![p] = [saver[p] EXCEPT !.pc = "reply", !.ok = FALSE]]
    BY <1>15, <1>a DEF WriteFails, Threads
  <2>3. saver' \in [Processes -> Threads]
    BY <2>1, <2>2, <1>a, <1>c, ThreadRecords
  <2> QED
    BY <1>15, <2>3, <1>a, <1>c DEF WriteFails, diskVars, windowVars, TypeInv, Threads
<1>16. CASE Reply(p)
  <2>1. "receive" \in Writing \cup {"none", "receive"}
    BY DEF Writing
  <2>2. saver' = [saver EXCEPT ![p] = [saver[p] EXCEPT !.pc = "receive"]]
    BY <1>16, <1>a DEF Reply, Goto, Threads
  <2>3. saver' \in [Processes -> Threads]
    BY <2>1, <2>2, <1>a, <1>c, ThreadRecords
  <2> QED
    BY <1>16, <2>3, <1>a, <1>c DEF Reply, Awaits, diskVars, windowVars, TypeInv, Threads
<1>17. CASE Autosave(p)
  <2>1. queue' \in [Processes -> Seq(Commands)]
    BY <1>17, SendStep, <1>c DEF Autosave, Send, Added, TypeInv
  <2> QED
    BY <1>17, <2>1, <1>a, <1>c DEF Autosave, diskVars, TypeInv
<1>18. CASE RequestQuit(p)
  <2>1. queue' \in [Processes -> Seq(Commands)]
    BY <1>18, SendStep DEF RequestQuit, Flush, Send, Flushes, Added
  <2> QED
    BY <1>18, <2>1, <1>a, <1>c DEF RequestQuit, Flush, diskVars, windowVars, TypeInv
<1>19. CASE FlushAgain(p)
  <2>1. queue' \in [Processes -> Seq(Commands)]
    BY <1>19, SendStep DEF FlushAgain, Flush, Send, Flushes, Added
  <2> QED
    BY <1>19, <2>1, <1>a, <1>c DEF FlushAgain, Flush, diskVars, windowVars, TypeInv
<1>20. CASE Terminate(p)
  <2>1. queue' \in [Processes -> Seq(Commands)]
    BY <1>20, SendStep DEF Terminate, Flush, Send, Flushes, Added
  <2> QED
    BY <1>20, <2>1, <1>a, <1>c DEF Terminate, Flush, Open, diskVars, windowVars, TypeInv
<1>21. CASE Discard(p)
  <2>1. queue' \in [Processes -> Seq(Commands)]
    BY <1>21, SendStep DEF Discard, Send, Flushes, Added
  <2> QED
    BY <1>21, <2>1, <1>a, <1>c DEF Discard, diskVars, windowVars, TypeInv
<1>22. CASE Finish(p)
  <2>1. queue' \in [Processes -> Seq(Commands)]
    BY <1>22, SendStep DEF Finish, Send, Flushes, Added
  <2> QED
    BY <1>22, <2>1, <1>a, <1>c DEF Finish, diskVars, windowVars, TypeInv
<1>23. CASE ConfirmQuit(p)
  <2>1. queue' \in [Processes -> Seq(Commands)]
    BY <1>23, SendStep DEF ConfirmQuit, Send, Flushes, Added
  <2> QED
    BY <1>23, <2>1, <1>a, <1>c DEF ConfirmQuit, Current, diskVars, windowVars, TypeInv
<1>24. CASE Receive(p)
  <2>1. Taken(p) /\ queue[p][1] \in Commands
    BY <1>24, TakeStep, <1>a DEF Receive, Taken
  <2>2. saver' \in [Processes -> Threads]
    <3>1. NoThread \in Threads
      BY <1>c DEF NoThread, Threads, Writing
    <3>2. Next1(p).kind # "stop" =>
            [pc |-> IF Next1(p).kind = "save" THEN "coalesce" ELSE "write", kind |-> Next1(p).kind,
             n |-> Next1(p).n, synced |-> FALSE, ok |-> FALSE] \in Threads
      BY <2>1 DEF Next1, Taken, Commands, Threads, Writing
    <3> QED
      BY <1>24, <3>1, <3>2, <1>a DEF Receive
  <2> QED
    BY <1>24, <2>1, <2>2, <1>a, <1>c DEF Receive, Taken, diskVars, windowVars,
       TypeInv, Threads
<1>25. CASE Coalesce(p)
  <2>1. Taken(p) /\ queue[p][1] \in Commands
    BY <1>25, TakeStep, <1>a DEF Coalesce, Taken, SaveWaits
  <2>2. saver' = [saver EXCEPT ![p] = [saver[p] EXCEPT !.n = queue[p][1].n]]
    BY <1>25, <2>1, <1>a DEF Coalesce, Next1, Taken, Threads
  <2>3. queue[p][1].n \in Snapshots
    BY <2>1 DEF Commands
  <2>4. saver' \in [Processes -> Threads]
    BY <2>2, <2>3, <1>a, ThreadRecords
  <2> QED
    BY <1>25, <2>1, <2>4, <1>a, <1>c DEF Coalesce, Taken, diskVars, windowVars,
       TypeInv, Threads
<1> QED
  BY <1>1, <1>2, <1>3, <1>4, <1>5, <1>6, <1>8, <1>9, <1>10, <1>11, <1>12, <1>13,
     <1>14, <1>15, <1>16, <1>17, <1>18, <1>19, <1>20, <1>21, <1>22, <1>23, <1>24,
     <1>25, <1>26 DEF Step, Thread, Window, FinishQuit, User

-----------------------------------------------------------------------------
(* The other processes                                                     *)

\* What a step of another process does to a process: nothing, and the file is
\* left alone while the process has a saver thread.
Same(q) ==
  /\ ui'[q] = ui[q] /\ edited'[q] = edited[q] /\ flushed'[q] = flushed[q]
  /\ receipt'[q] = receipt[q] /\ queue'[q] = queue[q] /\ saver'[q] = saver[q]
  /\ edits' \in Nat /\ edits <= edits'
  /\ lock' = q <=> lock = q
  /\ lock = q => UNCHANGED <<file, survivors>>

\* A step of one process leaves the others alone.
LEMMA OthersAlone ==
  ASSUME SaverInv, NEW p \in Processes, Step(p)
  PROVE  \A q \in Processes \ {p} : Same(q)
<1>a. /\ ui \in [Processes -> Windows] /\ edited \in [Processes -> Nat]
      /\ flushed \in [Processes -> Nat] /\ receipt \in [Processes -> {"none", "ok", "failed"}]
      /\ queue \in [Processes -> Seq(Commands)] /\ saver \in [Processes -> Threads]
      /\ Len(queue[p]) \in Nat /\ (queue[p] = <<>> <=> Len(queue[p]) = 0)
      /\ \A i \in 1 .. Len(queue[p]) : queue[p][i] \in Commands /\ queue[p][i].n \in Nat
      /\ lock \in Processes \cup {Nobody} /\ Nobody \notin Processes
      /\ file \in Nat /\ edits \in Nat /\ promised \in Nat /\ survivors \subseteq Nat
      /\ saver[p].n \in Nat /\ saver[p] \in Threads
      /\ saver[p].pc \in Writing \cup {"none", "receive"}
  BY Typed
<1>b. DiskInv /\ LockInv(p) /\ StopInv(p) /\ OrderInv(p) /\ WriteInv(p) /\ FlushInv(p)
  BY DEF SaverInv
<1>1. CASE Acquire(p)
  BY <1>1, <1>a, <1>b DEF Acquire, diskVars, windowVars, Same, LockInv, At, Flush,
     Send
<1>2. CASE Load(p)
  BY <1>2, <1>a, <1>b DEF Load, Goto, diskVars, windowVars, Same, LockInv, At, Flush,
     Send
<1>3. CASE LoadFails(p)
  BY <1>3, <1>a, <1>b DEF LoadFails, diskVars, windowVars, Same, LockInv, At, Flush,
     Send
<1>4. CASE Edit(p)
  BY <1>4, <1>a, <1>b DEF Edit, Open, diskVars, windowVars, Same, LockInv, At, Flush,
     Send
<1>5. CASE KeepEditing(p)
  BY <1>5, <1>a, <1>b DEF KeepEditing, diskVars, windowVars, Same, LockInv, At, Flush,
     Send
<1>6. CASE Exit(p)
  BY <1>6, <1>a, <1>b DEF Exit, Reset, NoThread, diskVars, windowVars, Same, LockInv,
     At, Flush, Send
<1>7. CASE Crash(p)
  BY <1>7, <1>a, <1>b DEF Crash, Reset, NoThread, diskVars, windowVars, Same, LockInv,
     At, Flush, Send
<1>8. CASE ShowError(p)
  BY <1>8, <1>a, <1>b DEF ShowError, Open, diskVars, windowVars, Same, LockInv, At,
     Flush, Send
<1>9. CASE QuitFails(p)
  BY <1>9, <1>a, <1>b DEF QuitFails, diskVars, windowVars, Same, LockInv, At, Flush,
     Send
<1>26. CASE CallOff(p)
  BY <1>26, <1>a, <1>b DEF CallOff, diskVars, windowVars, Same, LockInv, At, Flush,
     Send
<1>10. CASE StopCoalescing(p)
  BY <1>10, <1>a, <1>b DEF StopCoalescing, SaveWaits, Goto, diskVars, windowVars,
     Same, LockInv, At, Flush, Send
<1>11. CASE Write(p)
  BY <1>11, <1>a, <1>b DEF Write, Goto, diskVars, windowVars, Same, LockInv, At,
     Flush, Send
<1>12. CASE Sync(p)
  BY <1>12, <1>a, <1>b DEF Sync, diskVars, windowVars, Same, LockInv, At, Flush, Send
<1>13. CASE Rename(p)
  BY <1>13, <1>a, <1>b DEF Rename, Goto, diskVars, windowVars, Same, LockInv, At,
     Flush, Send
<1>14. CASE SyncDirectory(p)
  BY <1>14, <1>a, <1>b DEF SyncDirectory, diskVars, windowVars, Same, LockInv, At,
     Flush, Send
<1>15. CASE WriteFails(p)
  BY <1>15, <1>a, <1>b DEF WriteFails, diskVars, windowVars, Same, LockInv, At, Flush,
     Send
<1>16. CASE Reply(p)
  BY <1>16, <1>a, <1>b DEF Reply, Goto, Awaits, diskVars, windowVars, Same, LockInv,
     At, Flush, Send
<1>17. CASE Autosave(p)
  BY <1>17, <1>a, <1>b DEF Autosave, Open, diskVars, windowVars, Same, LockInv, At,
     Flush, Send
<1>18. CASE RequestQuit(p)
  BY <1>18, <1>a, <1>b DEF RequestQuit, Flush, diskVars, windowVars, Same, LockInv,
     At, Send
<1>19. CASE FlushAgain(p)
  BY <1>19, <1>a, <1>b DEF FlushAgain, Flush, diskVars, windowVars, Same, LockInv, At,
     Send
<1>20. CASE Terminate(p)
  BY <1>20, <1>a, <1>b DEF Terminate, Flush, Open, diskVars, windowVars, Same,
     LockInv, At, Send
<1>21. CASE Discard(p)
  BY <1>21, <1>a, <1>b DEF Discard, diskVars, windowVars, Same, LockInv, At, Flush,
     Send
<1>22. CASE Finish(p)
  BY <1>22, <1>a, <1>b DEF Finish, diskVars, windowVars, Same, LockInv, At, Flush,
     Send
<1>23. CASE ConfirmQuit(p)
  BY <1>23, <1>a, <1>b DEF ConfirmQuit, Current, diskVars, windowVars, Same, LockInv,
     At, Flush, Send
<1>24. CASE Receive(p)
  BY <1>24, <1>a, <1>b DEF Receive, Next1, NoThread, diskVars, windowVars, Same,
     LockInv, At, Flush, Send
<1>25. CASE Coalesce(p)
  BY <1>25, <1>a, <1>b DEF Coalesce, Next1, SaveWaits, diskVars, windowVars, Same,
     LockInv, At, Flush, Send
<1> QED
  BY <1>1, <1>2, <1>3, <1>4, <1>5, <1>6, <1>7, <1>8, <1>9, <1>10, <1>11, <1>12, <1>13,
     <1>14, <1>15, <1>16, <1>17, <1>18, <1>19, <1>20, <1>21, <1>22, <1>23, <1>24,
     <1>25, <1>26 DEF Step, Thread, Window, FinishQuit, User

LEMMA OthersKept ==
  ASSUME SaverInv, NEW p \in Processes, Step(p), NEW q \in Processes \ {p}
  PROVE  LockInv(q)' /\ StopInv(q)' /\ OrderInv(q)' /\ WriteInv(q)' /\ FlushInv(q)'
<1>1. Same(q)
  BY OthersAlone
<1>2. LockInv(q) /\ StopInv(q) /\ OrderInv(q) /\ WriteInv(q) /\ FlushInv(q)
  BY DEF SaverInv
<1>3. edits \in Nat /\ edited[q] \in Nat
  BY Typed
<1>4. LockInv(q)'
  BY <1>1, <1>2 DEF Same, LockInv, At, Open
<1>5. StopInv(q)'
  BY <1>1, <1>2 DEF Same, StopInv, Stopped
<1>6. OrderInv(q)'
  BY <1>1, <1>2, <1>3 DEF Same, OrderInv, LockInv, Oldest, At
<1>7. WriteInv(q)'
  BY <1>1, <1>2 DEF Same, WriteInv, LockInv, At
<1>8. FlushInv(q)'
  <2>1. UNCHANGED <<Open(q), Current(q), Outstanding(q, "quit"), Outstanding(q, "finish"),
                    FlushLast(q, "quit"), FlushLast(q, "finish")>>
    BY <1>1 DEF Same, Open, Current, Outstanding, FlushLast
  <2> QED
    BY <1>1, <1>2, <2>1 DEF Same, FlushInv, LockInv, At, Open
<1> QED
  BY <1>4, <1>5, <1>6, <1>7, <1>8

-----------------------------------------------------------------------------
(* The invariant                                                           *)

\* A power loss leaves one of the files that it may leave, and no process.
LEMMA PowerLossKept == SaverInv /\ PowerLoss => SaverInv'
<1> SUFFICES ASSUME SaverInv, PowerLoss PROVE SaverInv'
  OBVIOUS
<1>1. TypeInv /\ DiskInv /\ 0 \in Snapshots /\ Snapshots = 0 .. MaxEdits /\ MaxEdits \in Nat
  BY MaxEditsAssumption DEF SaverInv, Snapshots
<1>2. NoThread \in Threads
  BY <1>1 DEF NoThread, Threads, Writing
<1>3. <<>> \in Seq(Commands)
  BY EmptySeq
<1>4. TypeInv'
  BY <1>1, <1>2, <1>3 DEF PowerLoss, TypeInv, Threads
<1>5. DiskInv'
  BY <1>1 DEF PowerLoss, DiskInv, TypeInv
<1>6. ASSUME NEW p \in Processes
      PROVE  LockInv(p)' /\ StopInv(p)' /\ OrderInv(p)' /\ WriteInv(p)' /\ FlushInv(p)'
  <2>1. /\ ui'[p] = "closed" /\ edited'[p] = 0 /\ flushed'[p] = 0 /\ queue'[p] = <<>>
        /\ saver'[p].pc = "none" /\ lock' = Nobody /\ edits' \in Nat
    BY <1>1 DEF PowerLoss, NoThread, TypeInv
  <2>2. Len(queue'[p]) = 0
    BY <2>1, EmptySeq
  <2> QED
    BY <2>1, <2>2, NobodyAssumption DEF LockInv, StopInv, OrderInv, WriteInv,
       FlushInv, At, Open
<1> QED
  BY <1>4, <1>5, <1>6 DEF SaverInv

LEMMA InitHolds == Init => SaverInv
<1> SUFFICES ASSUME Init PROVE SaverInv
  OBVIOUS
<1>1. 0 \in Snapshots /\ Snapshots = 0 .. MaxEdits /\ MaxEdits \in Nat
  BY MaxEditsAssumption DEF Snapshots
<1>2. NoThread \in Threads
  BY <1>1 DEF NoThread, Threads, Writing
<1>3. <<>> \in Seq(Commands)
  BY EmptySeq
<1>4. TypeInv
  BY <1>1, <1>2, <1>3 DEF Init, TypeInv, Threads
<1>5. DiskInv
  BY DEF Init, DiskInv
<1>6. ASSUME NEW p \in Processes
      PROVE  LockInv(p) /\ StopInv(p) /\ OrderInv(p) /\ WriteInv(p) /\ FlushInv(p)
  <2>1. Len(queue[p]) = 0
    BY EmptySeq DEF Init
  <2> QED
    BY <2>1, NobodyAssumption
    DEF Init, NoThread, LockInv, StopInv, OrderInv, WriteInv, FlushInv, At, Open
<1> QED
  BY <1>4, <1>5, <1>6 DEF SaverInv

LEMMA NextKept == SaverInv /\ [Next]_vars => SaverInv'
<1> SUFFICES ASSUME SaverInv, [Next]_vars PROVE SaverInv'
  OBVIOUS
<1>1. CASE PowerLoss
  BY <1>1, PowerLossKept
<1>2. ASSUME NEW p \in Processes, Step(p) PROVE SaverInv'
  <2>1. ASSUME NEW q \in Processes
        PROVE  LockInv(q)' /\ StopInv(q)' /\ OrderInv(q)' /\ WriteInv(q)' /\ FlushInv(q)'
    <3>1. CASE q = p
      BY <1>2, <3>1, LockStep, StopStep, OrderStep, WriteStep, FlushStep
    <3>2. CASE q # p
      BY <1>2, <3>2, OthersKept
    <3> QED
      BY <3>1, <3>2
  <2> QED
    BY <1>2, <2>1, TypeStep, DiskStep DEF SaverInv
<1>3. CASE UNCHANGED vars
  BY <1>3
  DEF vars, diskVars, windowVars, SaverInv, TypeInv, DiskInv, LockInv, StopInv, OrderInv, WriteInv,
      FlushInv, FlushLast, Outstanding, Current, Oldest, Stopped, Open, At
<1> QED
  BY <1>1, <1>2, <1>3 DEF Next, Step

\* The lock belongs to the process that reads or writes the workspace, snapshots
\* are written in the order of their edits, and an answered flush is on the disk.
THEOREM SaverCorrect == Spec => []SaverInv
  BY InitHolds, NextKept, PTL DEF Spec

\* A window that quits because its save was confirmed leaves its last edit where
\* a power loss finds it.
THEOREM QuitKeepsEditsAlways == Spec => []QuitKeepsEdits
<1>1. SaverInv => QuitKeepsEdits
  <2> SUFFICES ASSUME SaverInv, NEW p \in Processes, ui[p] = "saved", ~At(p, "none")
               PROVE  survivors = {edited[p]}
    BY DEF QuitKeepsEdits
  <2> QED
    BY DEF SaverInv, FlushInv, At, Current
<1> QED
  BY <1>1, SaverCorrect, PTL

-----------------------------------------------------------------------------
(* The register                                                            *)

\* A step of a process is a step of the register, or none.
LEMMA RegisterStep ==
  ASSUME SaverInv, NEW p \in Processes, Step(p)
  PROVE  [Register!Next]_(Register!registerVars)
<1>a. /\ ui \in [Processes -> Windows] /\ edited \in [Processes -> Nat]
      /\ flushed \in [Processes -> Nat] /\ receipt \in [Processes -> {"none", "ok", "failed"}]
      /\ queue \in [Processes -> Seq(Commands)] /\ saver \in [Processes -> Threads]
      /\ Len(queue[p]) \in Nat /\ (queue[p] = <<>> <=> Len(queue[p]) = 0)
      /\ \A i \in 1 .. Len(queue[p]) : queue[p][i] \in Commands /\ queue[p][i].n \in Nat
      /\ lock \in Processes \cup {Nobody} /\ Nobody \notin Processes
      /\ file \in Nat /\ edits \in Nat /\ promised \in Nat /\ survivors \subseteq Nat
      /\ saver[p].n \in Nat /\ saver[p] \in Threads
      /\ saver[p].pc \in Writing \cup {"none", "receive"}
  BY Typed
<1>b. DiskInv /\ LockInv(p) /\ StopInv(p) /\ OrderInv(p) /\ WriteInv(p) /\ FlushInv(p)
  BY DEF SaverInv
<1>1. CASE Acquire(p)
  BY <1>1, <1>a, <1>b DEF Acquire, diskVars, windowVars, Register!registerVars
<1>2. CASE Load(p)
  BY <1>2, <1>a, <1>b DEF Load, Goto, diskVars, windowVars, Register!registerVars
<1>3. CASE LoadFails(p)
  BY <1>3, <1>a, <1>b DEF LoadFails, diskVars, windowVars, Register!registerVars
<1>4. CASE Edit(p)
  <2>1. Register!Issue
    BY <1>4 DEF Edit, diskVars, Register!Issue
  <2> QED
    BY <2>1 DEF Register!Next
<1>5. CASE KeepEditing(p)
  BY <1>5, <1>a, <1>b DEF KeepEditing, diskVars, windowVars, Register!registerVars
<1>6. CASE Exit(p)
  BY <1>6, <1>a, <1>b DEF Exit, Reset, NoThread, diskVars, windowVars,
     Register!registerVars
<1>7. CASE Crash(p)
  BY <1>7, <1>a, <1>b DEF Crash, Reset, NoThread, diskVars, windowVars,
     Register!registerVars
<1>8. CASE ShowError(p)
  BY <1>8, <1>a, <1>b DEF ShowError, Open, diskVars, windowVars, Register!registerVars
<1>9. CASE QuitFails(p)
  BY <1>9, <1>a, <1>b DEF QuitFails, diskVars, windowVars, Register!registerVars
<1>26. CASE CallOff(p)
  BY <1>26, <1>a, <1>b DEF CallOff, diskVars, windowVars, Register!registerVars
<1>10. CASE StopCoalescing(p)
  BY <1>10, <1>a, <1>b DEF StopCoalescing, SaveWaits, Goto, diskVars, windowVars,
     Register!registerVars
<1>11. CASE Write(p)
  BY <1>11, <1>a, <1>b DEF Write, Goto, diskVars, windowVars, Register!registerVars
<1>12. CASE Sync(p)
  BY <1>12, <1>a, <1>b DEF Sync, diskVars, windowVars, Register!registerVars
<1>13. CASE Rename(p)
  <2>1. saver[p].synced /\ file <= saver[p].n /\ saver[p].n <= edits
    BY <1>13, <1>a, <1>b DEF Rename, WriteInv, OrderInv, Oldest, At, Writing
  <2>2. Register!Store
    BY <1>13, <2>1, <1>a DEF Rename, Register!Store
  <2> QED
    BY <2>2 DEF Register!Next
<1>14. CASE SyncDirectory(p)
  <2>1. Register!Settle
    BY <1>14 DEF SyncDirectory, Register!Settle
  <2> QED
    BY <2>1 DEF Register!Next
<1>15. CASE WriteFails(p)
  BY <1>15, <1>a, <1>b DEF WriteFails, diskVars, windowVars, Register!registerVars
<1>16. CASE Reply(p)
  <2>1. CASE saver[p].kind # "save" /\ saver[p].ok
    <3>1. file = saver[p].n /\ survivors = {file}
      BY <1>16, <2>1, <1>b DEF Reply, WriteInv, At
    <3>2. Register!Promise
      BY <1>16, <2>1, <3>1 DEF Reply, diskVars, Register!Promise
    <3> QED
      BY <3>2 DEF Register!Next
  <2>2. CASE ~(saver[p].kind # "save" /\ saver[p].ok)
    BY <1>16, <2>2 DEF Reply, diskVars, Register!registerVars
  <2> QED
    BY <2>1, <2>2
<1>17. CASE Autosave(p)
  BY <1>17, <1>a, <1>b DEF Autosave, Open, diskVars, windowVars, Register!registerVars
<1>18. CASE RequestQuit(p)
  BY <1>18, <1>a, <1>b DEF RequestQuit, Flush, diskVars, windowVars,
     Register!registerVars
<1>19. CASE FlushAgain(p)
  BY <1>19, <1>a, <1>b DEF FlushAgain, Flush, diskVars, windowVars,
     Register!registerVars
<1>20. CASE Terminate(p)
  BY <1>20, <1>a, <1>b DEF Terminate, Flush, Open, diskVars, windowVars,
     Register!registerVars
<1>21. CASE Discard(p)
  BY <1>21, <1>a, <1>b DEF Discard, diskVars, windowVars, Register!registerVars
<1>22. CASE Finish(p)
  BY <1>22, <1>a, <1>b DEF Finish, diskVars, windowVars, Register!registerVars
<1>23. CASE ConfirmQuit(p)
  BY <1>23, <1>a, <1>b DEF ConfirmQuit, Current, diskVars, windowVars,
     Register!registerVars
<1>24. CASE Receive(p)
  BY <1>24, <1>a, <1>b DEF Receive, Next1, NoThread, diskVars, windowVars,
     Register!registerVars
<1>25. CASE Coalesce(p)
  BY <1>25, <1>a, <1>b DEF Coalesce, Next1, SaveWaits, diskVars, windowVars,
     Register!registerVars
<1> QED
  BY <1>1, <1>2, <1>3, <1>4, <1>5, <1>6, <1>7, <1>8, <1>9, <1>10, <1>11, <1>12, <1>13,
     <1>14, <1>15, <1>16, <1>17, <1>18, <1>19, <1>20, <1>21, <1>22, <1>23, <1>24,
     <1>25, <1>26 DEF Step, Thread, Window, FinishQuit, User

\* The saver implements the workspace register: the file is one whole snapshot at
\* any time, and moves on to later ones.
THEOREM RegisterImplemented == Spec => ImplementsRegister
<1>1. Init => Register!Init
  BY DEF Init, Register!Init
<1>2. SaverInv /\ [Next]_vars => [Register!Next]_(Register!registerVars)
  <2> SUFFICES ASSUME SaverInv, [Next]_vars PROVE [Register!Next]_(Register!registerVars)
    OBVIOUS
  <2>1. CASE PowerLoss
    <3>1. Register!PowerLoss
      BY <2>1 DEF PowerLoss, Register!PowerLoss
    <3> QED
      BY <3>1 DEF Register!Next
  <2>2. ASSUME NEW p \in Processes, Step(p) PROVE [Register!Next]_(Register!registerVars)
    BY <2>2, RegisterStep
  <2>3. CASE UNCHANGED vars
    BY <2>3 DEF vars, diskVars, Register!registerVars
  <2> QED
    BY <2>1, <2>2, <2>3 DEF Next, Step
<1> QED
  BY <1>1, <1>2, SaverCorrect, PTL DEF Spec, ImplementsRegister, Register!Spec

\* Nothing older than an acknowledged snapshot is ever in the file.
THEOREM PromiseIsKept == Spec => []Register!PromiseKept
<1>1. SaverInv => Register!PromiseKept
  <2> SUFFICES ASSUME SaverInv PROVE Register!PromiseKept
    OBVIOUS
  <2>1. PICK s \in survivors : promised <= s /\ s <= file
    BY DEF SaverInv, DiskInv
  <2>2. promised \in Nat /\ file \in Nat /\ survivors \subseteq Nat
    BY MaxEditsAssumption DEF SaverInv, TypeInv, Snapshots
  <2>3. promised <= file
    BY <2>1, <2>2
  <2> QED
    BY <2>3 DEF SaverInv, DiskInv, Register!PromiseKept
<1> QED
  BY <1>1, SaverCorrect, PTL

=============================================================================
