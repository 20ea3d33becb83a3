--------------------------- MODULE DownloadProofs ---------------------------
(***************************************************************************)
(* Proofs about Download, for any set of threads that stop the download.   *)
(* DownloadInv is inductive: each lemma below shows that one of its parts  *)
(* is kept by every step, and the theorems at the end read the safety      *)
(* properties off the invariant.                                           *)
(***************************************************************************)
EXTENDS Download, TLAPS

RoutingState == [source : Sources, route : Routes, started : BOOLEAN,
                 done : BOOLEAN, failed : BOOLEAN, aborted : BOOLEAN,
                 guard : BOOLEAN]
SpoolStates  == {"none", "downloading", "complete", "failed", "cancelled"}
RunnerState  == [pc : RunnerPcs, closeFailed : BOOLEAN]
CallState    == [kind : CallKinds \cup {"none", "sessionChanged"}, pc : CallPcs]
CancellerState == [pc : CancelPcs, failed : BOOLEAN, guard : BOOLEAN]
TransportState == {"live", "refused", "aborted"}

\* TypeOK, with a name for the values of each variable.
TypeOfEach ==
  /\ kind \in {"drain", "run"}
  /\ cancel \in BOOLEAN
  /\ state \in RoutingState
  /\ spool \in SpoolStates
  /\ runner \in RunnerState
  /\ session \in {"none", "held", "reused", "discarded"}
  /\ call \in [Threads -> CallState]
  /\ canceller \in CancellerState
  /\ watchdog \in {"none", "waiting", "exited"}
  /\ expired \in BOOLEAN
  /\ transport \in TransportState
  /\ stray \in BOOLEAN
  /\ wires \in Nat

\* The two say the same, in this state and in the next.
LEMMA TypesNamed == (TypeOK <=> TypeOfEach) /\ (TypeOK' <=> TypeOfEach')
BY DEF TypeOK, TypeOfEach, RoutingState, SpoolStates, RunnerState, CallState,
       CancellerState, TransportState

\* The initial state satisfies the invariant.
LEMMA InitInv == Init => DownloadInv
<1> SUFFICES ASSUME Init PROVE DownloadInv
  OBVIOUS
<1>1. TypeOK
  <2>1. state \in RoutingState
    BY DEF Init, RoutingState, Sources, Routes
  <2>2. call \in [Threads -> CallState]
    BY DEF Init, CallState, CallPcs
  <2> QED
    BY <2>1, <2>2
       DEF Init, TypeOK, RoutingState, CallState, RunnerPcs, CancelPcs
<1>2. RunnerInv
  BY DEF Init, RunnerInv, At, Routed
<1>3. CallInv
  BY DEF Init, CallInv, Calling
<1>4. CancelInv /\ SessionInv
  BY DEF Init, CancelInv, SessionInv
<1> QED
  BY <1>1, <1>2, <1>3, <1>4 DEF DownloadInv

---------------------------------------------------------------------------
(* TypeOK *)

\* Moving the program counter of a call keeps the types.
LEMMA CallToType ==
  ASSUME TypeOK, NEW t \in Threads, NEW pc \in CallPcs, CallTo(t, pc)
  PROVE  call' \in [Threads -> CallState]
<1>1. call \in [Threads -> CallState]
  BY DEF TypeOK, CallState
<1>2. [call[t] EXCEPT !.pc = pc] \in CallState
  BY <1>1 DEF CallState
<1> QED
  BY <1>1, <1>2 DEF CallTo

\* Moving the runner's program counter keeps the types.
LEMMA GoToType ==
  ASSUME TypeOK, NEW pc \in RunnerPcs, GoTo(pc)
  PROVE  runner' \in RunnerState
  BY DEF TypeOK, GoTo, RunnerState

\* An abort of the transport leaves the session's fields well typed.
LEMMA AbortType ==
  ASSUME TypeOK, AbortOperation
  PROVE  /\ state' \in RoutingState /\ transport' \in TransportState
         /\ stray' \in BOOLEAN /\ wires' \in Nat
  BY DEF TypeOK, AbortOperation, AbortTransport, history, RoutingState,
         TransportState

\* The steps of a stop call keep the types.
LEMMA CallTypeKept ==
  ASSUME TypeOK, NEW t \in Threads, CallStep(t) \/ StartCall(t)
  PROVE  TypeOK'
<1> USE DEF TransportState, CancellerState
<1>1. call \in [Threads -> CallState]
  BY DEF TypeOK, CallState
<1>2. CASE StartCall(t)
  <2>1. call' \in [Threads -> CallState]
    BY <1>1, <1>2 DEF StartCall, CallState, CallPcs
  <2> QED
    BY <1>2, <2>1 DEF StartCall, TypeOK, CallState, threads, history
<1>3. CASE SetFlagFirst(t)
  <2>1. call' \in [Threads -> CallState]
    BY <1>3, CallToType DEF SetFlagFirst, CallPcs
  <2> QED
    BY <1>3, <2>1 DEF SetFlagFirst, TypeOK, CallState, threads, history
<1>4. CASE TerminalSource(t)
  <2>1. call' \in [Threads -> CallState]
    BY <1>4, CallToType DEF TerminalSource, CallPcs
  <2>2. state' \in RoutingState
    BY <1>4 DEF TerminalSource, TypeOK, RoutingState, Outcome, Sources
  <2> QED
    BY <1>4, <2>1, <2>2 DEF TerminalSource, TypeOK, CallState, RoutingState, threads, history
<1>5. CASE TerminalStop(t)
  <2>1. call' \in [Threads -> CallState]
    BY <1>5, CallToType DEF TerminalStop, CallPcs
  <2>2. spool' \in SpoolStates
    BY <1>5 DEF TerminalStop, StopSpool, Outcome, SpoolStates, TypeOK
  <2> QED
    BY <1>5, <2>1, <2>2 DEF TerminalStop, TypeOK, CallState, SpoolStates, threads, history
<1>6. CASE StoreCancel(t)
  <2>1. call' \in [Threads -> CallState]
    BY <1>6, CallToType DEF StoreCancel, CallPcs
  <2> QED
    BY <1>6, <2>1 DEF StoreCancel, TypeOK, CallState, threads, history
<1>7. CASE CancelOperation(t)
  <2>1. call' \in [Threads -> CallState]
    BY <1>7, CallToType DEF CancelOperation, CallPcs
  <2>2. /\ state' \in RoutingState /\ transport' \in TransportState
        /\ stray' \in BOOLEAN /\ wires' \in Nat
    <3>1. CASE AbortTransport /\ state' = [state EXCEPT !.aborted = TRUE,
                                              !.done = TRUE, !.guard = FALSE]
      BY <3>1 DEF AbortTransport, TypeOK, RoutingState
    <3>2. CASE Claim /\ UNCHANGED history
      BY <3>2 DEF Claim, TypeOK, RoutingState, history
    <3>3. CASE UNCHANGED <<state, history>>
      BY <3>3 DEF TypeOK, RoutingState, history
    <3> QED
      BY <1>7, <3>1, <3>2, <3>3 DEF CancelOperation
  <2>3. canceller' \in CancellerState
    <3>1. state.guard \in BOOLEAN
      BY DEF TypeOK
    <3>2. CASE Claim
      BY <3>1, <3>2 DEF Claim, CancelPcs
    <3>3. CASE UNCHANGED canceller
      BY <3>3 DEF TypeOK
    <3> QED
      BY <1>7, <3>2, <3>3 DEF CancelOperation
  <2> QED
    BY <1>7, <2>1, <2>2, <2>3 DEF CancelOperation, TypeOK, CallState, RoutingState
<1>8. CASE AbortCall(t)
  <2>1. call' \in [Threads -> CallState]
    BY <1>8, CallToType DEF AbortCall, CallPcs
  <2>2. /\ state' \in RoutingState /\ transport' \in TransportState
        /\ stray' \in BOOLEAN /\ wires' \in Nat
    BY <1>8, AbortType DEF AbortCall
  <2> QED
    BY <1>8, <2>1, <2>2 DEF AbortCall, TypeOK, CallState, RoutingState, threads
<1>9. CASE SpawnCanceller(t)
  <2>1. call' \in [Threads -> CallState]
    BY <1>9, CallToType DEF SpawnCanceller, CallPcs
  <2>2. /\ state' \in RoutingState /\ transport' \in TransportState
        /\ stray' \in BOOLEAN /\ wires' \in Nat
    <3>1. CASE AbortOperation
      BY <3>1, AbortType
    <3>2. CASE UNCHANGED <<state, history>>
      BY <3>2 DEF TypeOK, RoutingState, history
    <3> QED
      BY <1>9, <3>1, <3>2 DEF SpawnCanceller
  <2>3. canceller' \in CancellerState
    BY <1>9 DEF SpawnCanceller, TypeOK, CancelPcs
  <2> QED
    BY <1>9, <2>1, <2>2, <2>3 DEF SpawnCanceller, TypeOK, CallState, RoutingState
<1> QED
  BY <1>2, <1>3, <1>4, <1>5, <1>6, <1>7, <1>8, <1>9 DEF CallStep

\* The steps of the runner keep the types.
LEMMA TypeOfRunner ==
  ASSUME TypeOK, RunnerStep
  PROVE  TypeOK'
<1>0. TypeOfEach
  BY TypesNamed
<1> USE DownloadAssumption DEF TypeOfEach, At, GoTo, threads, history
<1>1. CASE DropCommand
  <2>1. call' \in [Threads -> CallState]
    BY <1>0, <1>1 DEF DropCommand, StopSpool, CallState, CallKinds, CallPcs,
       Threads
  <2>2. TypeOfEach'
    BY <1>0, <1>1, <2>1 DEF DropCommand, RunnerPcs, RunnerState, StopSpool,
       SpoolStates
  <2> QED
    BY <2>2, TypesNamed
<1>2. CASE RefuseDrain
  <2>1. TypeOfEach'
    BY <1>0, <1>2 DEF RefuseDrain, StopSpool, RunnerPcs, RunnerState,
       SpoolStates
  <2> QED
    BY <2>1, TypesNamed
<1>3. CASE SessionChanged
  <2>1. call' \in [Threads -> CallState]
    BY <1>0, <1>3 DEF SessionChanged, CallState, CallKinds, CallPcs, Threads
  <2>2. TypeOfEach'
    BY <1>0, <1>3, <2>1 DEF SessionChanged, RunnerPcs, RunnerState
  <2> QED
    BY <2>2, TypesNamed
<1>4. CASE AcceptRun
  <2>1. TypeOfEach'
    BY <1>0, <1>4 DEF AcceptRun, RunnerPcs, RunnerState
  <2> QED
    BY <2>1, TypesNamed
<1>5. CASE RegisterOld
  <2>1. state' \in RoutingState
    BY <1>0, <1>5 DEF RegisterOld, Register, Registrable, RefuseTransport,
       RoutingState, Sources, Routes
  <2>2. TypeOfEach'
    BY <1>0, <1>5, <2>1 DEF RegisterOld, RunnerPcs, RunnerState, Register,
       RefuseTransport, TransportState
  <2> QED
    BY <2>2, TypesNamed
<1>6. CASE Disconnect
  <2>1. TypeOfEach'
    BY <1>0, <1>6 DEF Disconnect, RunnerPcs, RunnerState
  <2> QED
    BY <2>1, TypesNamed
<1>7. CASE RegisterConnecting
  <2>1. state' \in RoutingState
    BY <1>0, <1>7 DEF RegisterConnecting, Register, Registrable,
       RefuseTransport, RoutingState, Sources, Routes
  <2>2. TypeOfEach'
    BY <1>0, <1>7, <2>1 DEF RegisterConnecting, RunnerPcs, RunnerState,
       Register, RefuseTransport, TransportState
  <2> QED
    BY <2>2, TypesNamed
<1>8. CASE Connect
  <2>1. TypeOfEach'
    BY <1>0, <1>8 DEF Connect, RunnerPcs, RunnerState
  <2> QED
    BY <2>1, TypesNamed
<1>9. CASE RegisterSession
  <2>1. state' \in RoutingState
    BY <1>0, <1>9 DEF RegisterSession, Register, Registrable, RefuseTransport,
       RoutingState, Sources, Routes
  <2>2. TypeOfEach'
    BY <1>0, <1>9, <2>1 DEF RegisterSession, RunnerPcs, RunnerState, Register,
       RefuseTransport, TransportState
  <2> QED
    BY <2>2, TypesNamed
<1>10. CASE CheckRegistered
  <2>1. TypeOfEach'
    BY <1>0, <1>10 DEF CheckRegistered, RefuseTransport, RunnerPcs,
       RunnerState, TransportState
  <2> QED
    BY <2>1, TypesNamed
<1>11. CASE Execute
  <2>1. state' \in RoutingState
    BY <1>0, <1>11 DEF Execute, RoutingState, Sources, Routes
  <2>2. TypeOfEach'
    BY <1>0, <1>11, <2>1 DEF Execute, RunnerPcs, RunnerState
  <2> QED
    BY <2>2, TypesNamed
<1>12. CASE BindRun
  <2>1. state' \in RoutingState
    BY <1>0, <1>12 DEF BindRun, Bind, RefuseBind, RefuseTransport,
       RoutingState, Sources, Routes
  <2>2. TypeOfEach'
    BY <1>0, <1>12, <2>1 DEF BindRun, RunnerPcs, RunnerState, Bind,
       RefuseBind, RefuseTransport, TransportState
  <2> QED
    BY <2>2, TypesNamed
<1>13. CASE BindDrain
  <2>1. state' \in RoutingState
    BY <1>0, <1>13 DEF BindDrain, Bind, RefuseBind, RefuseTransport,
       StopSpool, RoutingState, Sources, Routes
  <2>2. TypeOfEach'
    BY <1>0, <1>13, <2>1 DEF BindDrain, RunnerPcs, RunnerState, StopSpool,
       SpoolStates, Bind, RefuseBind, RefuseTransport, TransportState
  <2> QED
    BY <2>2, TypesNamed
<1>14. CASE Poll
  <2>1. TypeOfEach'
    BY <1>0, <1>14 DEF Poll, RunnerPcs, RunnerState
  <2> QED
    BY <2>1, TypesNamed
<1>15. CASE FinishWithoutSpool
  <2>1. state' \in RoutingState
    BY <1>0, <1>15 DEF FinishWithoutSpool, RoutingState, Sources, Routes
  <2>2. TypeOfEach'
    BY <1>0, <1>15, <2>1 DEF FinishWithoutSpool, RunnerPcs, RunnerState
  <2> QED
    BY <2>2, TypesNamed
<1>16. CASE PublishSpool
  <2>1. state' \in RoutingState
    BY <1>0, <1>16 DEF PublishSpool, RoutingState, Sources, Routes
  <2>2. TypeOfEach'
    BY <1>0, <1>16, <2>1 DEF PublishSpool, RunnerPcs, RunnerState, SpoolStates
  <2> QED
    BY <2>2, TypesNamed
<1>17. CASE Fetch
  <2>1. TypeOfEach'
    BY <1>0, <1>17 DEF Fetch, StopSpool, RunnerPcs, RunnerState, SpoolStates
  <2> QED
    BY <2>1, TypesNamed
<1>18. CASE Complete
  <2>1. state' \in RoutingState
    BY <1>0, <1>18 DEF Complete, StopSpool, Handoff, Detach, RoutingState,
       Sources, Routes
  <2>2. TypeOfEach'
    BY <1>0, <1>18, <2>1 DEF Complete, RunnerPcs, RunnerState, StopSpool,
       SpoolStates
  <2> QED
    BY <2>2, TypesNamed
<1>19. CASE StopOwnDownload
  <2>1. call' \in [Threads -> CallState]
    BY <1>0, <1>19 DEF StopOwnDownload, CallState, CallKinds, CallPcs, Threads
  <2>2. TypeOfEach'
    BY <1>0, <1>19, <2>1 DEF StopOwnDownload, RunnerPcs, RunnerState
  <2> QED
    BY <2>2, TypesNamed
<1>20. CASE CloseOperation
  <2>1. runner' \in RunnerState
    <3>1. \A failed \in BOOLEAN :
            [pc |-> "stopping", closeFailed |-> failed] \in RunnerState
      BY DEF RunnerState, RunnerPcs
    <3>2. PICK failed \in BOOLEAN :
            runner' = [pc |-> "stopping", closeFailed |-> failed]
      BY <1>20, Zenon DEF CloseOperation
    <3> QED
      BY <3>1, <3>2
  <2>2. TypeOfEach'
    BY <1>0, <1>20, <2>1 DEF CloseOperation
  <2> QED
    BY <2>2, TypesNamed
<1>21. CASE Release
  <2>1. state' \in RoutingState
    BY <1>0, <1>21 DEF Release, Clean, TimedOut, CancelPending, Routed,
       AbortTransport, StoppedState, RoutingState, Sources, Routes
  <2>2. transport' \in TransportState /\ stray' \in BOOLEAN /\ wires' \in Nat
    BY <1>0, <1>21 DEF Release, Clean, TimedOut, CancelPending, Routed,
       AbortTransport, StoppedState, TransportState
  <2>3. TypeOfEach'
    BY <1>0, <1>21, <2>1, <2>2 DEF Release, RunnerPcs, RunnerState
  <2> QED
    BY <2>3, TypesNamed
<1> QED
  BY <1>1, <1>2, <1>3, <1>4, <1>5, <1>6, <1>7, <1>8, <1>9, <1>10, <1>11,
     <1>12, <1>13, <1>14, <1>15, <1>16, <1>17, <1>18, <1>19, <1>20, <1>21 DEF
     RunnerStep

\* The steps of the cancel thread and of the deadline thread keep the types.
LEMMA TypeOfThreads ==
  ASSUME TypeOK, 
         CancellerStep \/ CancelReturns \/ DeadlinePasses \/ WatchdogStep
  PROVE  TypeOK'
<1>0. TypeOfEach
  BY TypesNamed
<1> USE DownloadAssumption DEF TypeOfEach, At, GoTo, threads, history
<1>1. CASE StartWatchdog
  <2>1. canceller' \in CancellerState
    BY <1>0, <1>1 DEF StartWatchdog, AbortOperation, Routed, AbortTransport,
       CancellerState, CancelPcs
  <2>2. state' \in RoutingState /\ transport' \in TransportState
        /\ stray' \in BOOLEAN /\ wires' \in Nat
    BY <1>0, <1>1 DEF StartWatchdog, AbortOperation, Routed, AbortTransport,
       RoutingState, Sources, Routes, TransportState
  <2>3. TypeOfEach'
    BY <1>0, <1>1, <2>1, <2>2 DEF StartWatchdog
  <2> QED
    BY <2>3, TypesNamed
<1>2. CASE SendCancel
  <2>1. canceller' \in CancellerState
    BY <1>0, <1>2 DEF SendCancel, CancellerState, CancelPcs
  <2>2. TypeOfEach'
    BY <1>0, <1>2, <2>1 DEF SendCancel
  <2> QED
    BY <2>2, TypesNamed
<1>3. CASE CancelReturns
  <2>1. canceller' \in CancellerState
    BY <1>0, <1>3 DEF CancelReturns, CancellerState, CancelPcs
  <2>2. TypeOfEach'
    BY <1>0, <1>3, <2>1 DEF CancelReturns
  <2> QED
    BY <2>2, TypesNamed
<1>4. CASE ReportCancelled
  <2>1. canceller' \in CancellerState
    BY <1>0, <1>4 DEF ReportCancelled, CancellerState, CancelPcs
  <2>2. state' \in RoutingState
    <3>1. canceller.failed \in BOOLEAN
      BY <1>0 DEF CancellerState
    <3> QED
      BY <1>0, <1>4, <3>1 DEF ReportCancelled, RoutingState
  <2>3. TypeOfEach'
    BY <1>0, <1>4, <2>1, <2>2 DEF ReportCancelled
  <2> QED
    BY <2>3, TypesNamed
<1>5. CASE DeadlinePasses
  <2>1. TypeOfEach'
    BY <1>0, <1>5 DEF DeadlinePasses
  <2> QED
    BY <2>1, TypesNamed
<1>6. CASE WatchdogAborts
  <2>1. state' \in RoutingState
    BY <1>0, <1>6 DEF WatchdogAborts, AbortTransport, RoutingState, Sources,
       Routes
  <2>2. TypeOfEach'
    BY <1>0, <1>6, <2>1 DEF WatchdogAborts, AbortTransport, TransportState
  <2> QED
    BY <2>2, TypesNamed
<1>7. CASE WatchdogExits
  <2>1. TypeOfEach'
    BY <1>0, <1>7 DEF WatchdogExits
  <2> QED
    BY <2>1, TypesNamed
<1> QED
  BY <1>1, <1>2, <1>3, <1>4, <1>5, <1>6, <1>7 DEF CancellerStep, WatchdogStep

---------------------------------------------------------------------------
(* RunnerInv: what the runner may find when it goes on *)

\* The steps of the runner keep it.
LEMMA RunnerInvOfRunner ==
  ASSUME DownloadInv, RunnerStep
  PROVE  RunnerInv'
<1>0. TypeOK /\ RunnerInv /\ CancelInv /\ SessionInv
  BY DEF DownloadInv
<1> USE DownloadAssumption DEF At, GoTo, Calling, CallTo, threads, history,
   RunnerInv, Routed, CancelInv, TypeOK, RunnerPcs
<1>1. CASE DropCommand
  BY <1>0, <1>1 DEF DropCommand, StopSpool
<1>2. CASE RefuseDrain
  BY <1>0, <1>2 DEF RefuseDrain, StopSpool
<1>3. CASE SessionChanged
  BY <1>0, <1>3 DEF SessionChanged
<1>4. CASE AcceptRun
  BY <1>0, <1>4 DEF AcceptRun
<1>5. CASE RegisterOld
  BY <1>0, <1>5 DEF RegisterOld, Register, Registrable, RefuseTransport
<1>6. CASE Disconnect
  BY <1>0, <1>6 DEF Disconnect
<1>7. CASE RegisterConnecting
  BY <1>0, <1>7 DEF RegisterConnecting, Register, Registrable, RefuseTransport
<1>8. CASE Connect
  BY <1>0, <1>8 DEF Connect
<1>9. CASE RegisterSession
  BY <1>0, <1>9 DEF RegisterSession, Register, Registrable, RefuseTransport
<1>10. CASE CheckRegistered
  BY <1>0, <1>10 DEF CheckRegistered, RefuseTransport
<1>11. CASE Execute
  BY <1>0, <1>11 DEF Execute
<1>12. CASE BindRun
  BY <1>0, <1>12 DEF BindRun, Bind, RefuseBind, RefuseTransport
<1>13. CASE BindDrain
  BY <1>0, <1>13 DEF BindDrain, Bind, RefuseBind, RefuseTransport, StopSpool
<1>14. CASE Poll
  BY <1>0, <1>14 DEF Poll
<1>15. CASE FinishWithoutSpool
  BY <1>0, <1>15 DEF FinishWithoutSpool
<1>16. CASE PublishSpool
  BY <1>0, <1>16 DEF PublishSpool
<1>17. CASE Fetch
  BY <1>0, <1>17 DEF Fetch, StopSpool
<1>18. CASE Complete
  BY <1>0, <1>18 DEF Complete, StopSpool, Handoff, Detach
<1>19. CASE StopOwnDownload
  BY <1>0, <1>19 DEF StopOwnDownload
<1>20. CASE CloseOperation
  BY <1>0, <1>20 DEF CloseOperation
<1>21. CASE Release
  BY <1>0, <1>21 DEF Release, Clean, TimedOut, CancelPending, AbortTransport,
     StoppedState
<1> QED
  BY <1>1, <1>2, <1>3, <1>4, <1>5, <1>6, <1>7, <1>8, <1>9, <1>10, <1>11,
     <1>12, <1>13, <1>14, <1>15, <1>16, <1>17, <1>18, <1>19, <1>20, <1>21 DEF
     RunnerStep

\* The steps of a stop call keep it.
LEMMA RunnerInvOfCall ==
  ASSUME DownloadInv, NEW t \in Threads, CallStep(t) \/ StartCall(t)
  PROVE  RunnerInv'
<1>0. TypeOK /\ RunnerInv /\ CancelInv /\ SessionInv
  BY DEF DownloadInv
<1> USE DownloadAssumption DEF At, GoTo, Calling, CallTo, threads, history,
   RunnerInv, Routed, CancelInv, TypeOK, RunnerPcs
<1>1. CASE StartCall(t)
  BY <1>0, <1>1 DEF StartCall
<1>2. CASE SetFlagFirst(t)
  BY <1>0, <1>2 DEF SetFlagFirst
<1>3. CASE TerminalSource(t)
  BY <1>0, <1>3 DEF TerminalSource, Outcome
<1>4. CASE TerminalStop(t)
  BY <1>0, <1>4 DEF TerminalStop, StopSpool, Outcome
<1>5. CASE StoreCancel(t)
  BY <1>0, <1>5 DEF StoreCancel
<1>6. CASE CancelOperation(t)
  BY <1>0, <1>6 DEF CancelOperation, Claim, AbortTransport
<1>7. CASE AbortCall(t)
  BY <1>0, <1>7 DEF AbortCall, AbortOperation, AbortTransport
<1>8. CASE SpawnCanceller(t)
  BY <1>0, <1>8 DEF SpawnCanceller, AbortOperation, AbortTransport
<1> QED
  BY <1>1, <1>2, <1>3, <1>4, <1>5, <1>6, <1>7, <1>8 DEF CallStep

\* The steps of the cancel thread and of the deadline thread keep it.
LEMMA RunnerInvOfThreads ==
  ASSUME DownloadInv,
         CancellerStep \/ CancelReturns \/ DeadlinePasses \/ WatchdogStep
  PROVE  RunnerInv'
<1>0. TypeOK /\ RunnerInv /\ CancelInv /\ SessionInv
  BY DEF DownloadInv
<1> USE DownloadAssumption DEF At, GoTo, Calling, CallTo, threads, history,
   RunnerInv, Routed, CancelInv, TypeOK, RunnerPcs
<1>1. CASE StartWatchdog
  BY <1>0, <1>1 DEF StartWatchdog, AbortOperation, AbortTransport
<1>2. CASE SendCancel
  BY <1>0, <1>2 DEF SendCancel
<1>3. CASE CancelReturns
  BY <1>0, <1>3 DEF CancelReturns
<1>4. CASE ReportCancelled
  BY <1>0, <1>4 DEF ReportCancelled
<1>5. CASE DeadlinePasses
  BY <1>0, <1>5 DEF DeadlinePasses
<1>6. CASE WatchdogAborts
  BY <1>0, <1>6 DEF WatchdogAborts, AbortTransport
<1>7. CASE WatchdogExits
  BY <1>0, <1>7 DEF WatchdogExits
<1> QED
  BY <1>1, <1>2, <1>3, <1>4, <1>5, <1>6, <1>7 DEF CancellerStep, WatchdogStep

---------------------------------------------------------------------------
(* CallInv: the order inside a stop call *)

\* The steps of the runner keep it.
LEMMA CallInvOfRunner ==
  ASSUME DownloadInv, RunnerStep
  PROVE  CallInv'
<1>0. TypeOK /\ RunnerInv /\ CallInv /\ CancelInv
  BY DEF DownloadInv
<1> USE DownloadAssumption DEF At, GoTo, Calling, CallTo, threads, history,
   CallInv, CancelInv, RunnerInv, Routed, TypeOK, Threads
<1>1. CASE DropCommand
  BY <1>0, <1>1 DEF DropCommand, StopSpool
<1>2. CASE RefuseDrain
  BY <1>0, <1>2 DEF RefuseDrain, StopSpool
<1>3. CASE SessionChanged
  BY <1>0, <1>3 DEF SessionChanged
<1>4. CASE AcceptRun
  BY <1>0, <1>4 DEF AcceptRun
<1>5. CASE RegisterOld
  BY <1>0, <1>5 DEF RegisterOld, Register, Registrable, RefuseTransport
<1>6. CASE Disconnect
  BY <1>0, <1>6 DEF Disconnect
<1>7. CASE RegisterConnecting
  BY <1>0, <1>7 DEF RegisterConnecting, Register, Registrable, RefuseTransport
<1>8. CASE Connect
  BY <1>0, <1>8 DEF Connect
<1>9. CASE RegisterSession
  BY <1>0, <1>9 DEF RegisterSession, Register, Registrable, RefuseTransport
<1>10. CASE CheckRegistered
  BY <1>0, <1>10 DEF CheckRegistered, RefuseTransport
<1>11. CASE Execute
  BY <1>0, <1>11 DEF Execute
<1>12. CASE BindRun
  BY <1>0, <1>12 DEF BindRun, Bind, RefuseBind, RefuseTransport
<1>13. CASE BindDrain
  BY <1>0, <1>13 DEF BindDrain, Bind, RefuseBind, RefuseTransport, StopSpool
<1>14. CASE Poll
  BY <1>0, <1>14 DEF Poll
<1>15. CASE FinishWithoutSpool
  BY <1>0, <1>15 DEF FinishWithoutSpool
<1>16. CASE PublishSpool
  BY <1>0, <1>16 DEF PublishSpool
<1>17. CASE Fetch
  BY <1>0, <1>17 DEF Fetch, StopSpool
<1>18. CASE Complete
  BY <1>0, <1>18 DEF Complete, StopSpool, Handoff, Detach
<1>19. CASE StopOwnDownload
  BY <1>0, <1>19 DEF StopOwnDownload
<1>20. CASE CloseOperation
  BY <1>0, <1>20 DEF CloseOperation
<1>21. CASE Release
  BY <1>0, <1>21 DEF Release, Clean, TimedOut, CancelPending, AbortTransport,
     StoppedState
<1> QED
  BY <1>1, <1>2, <1>3, <1>4, <1>5, <1>6, <1>7, <1>8, <1>9, <1>10, <1>11,
     <1>12, <1>13, <1>14, <1>15, <1>16, <1>17, <1>18, <1>19, <1>20, <1>21 DEF
     RunnerStep

\* The steps of a stop call keep it.
LEMMA CallInvOfCall ==
  ASSUME DownloadInv, NEW t \in Threads, CallStep(t) \/ StartCall(t)
  PROVE  CallInv'
<1>0. TypeOK /\ RunnerInv /\ CallInv /\ CancelInv
  BY DEF DownloadInv
<1> USE DownloadAssumption DEF At, GoTo, Calling, CallTo, threads, history,
   CallInv, CancelInv, RunnerInv, Routed, TypeOK, Threads
<1>1. CASE StartCall(t)
  BY <1>0, <1>1 DEF StartCall, CallKinds
<1>2. CASE SetFlagFirst(t)
  BY <1>0, <1>2 DEF SetFlagFirst
<1>3. CASE TerminalSource(t)
  BY <1>0, <1>3 DEF TerminalSource, Outcome
<1>4. CASE TerminalStop(t)
  BY <1>0, <1>4 DEF TerminalStop, StopSpool, Outcome
<1>5. CASE StoreCancel(t)
  BY <1>0, <1>5 DEF StoreCancel
<1>6. CASE CancelOperation(t)
  <2>1. CASE /\ state.route = "transport" /\ AbortTransport /\ CallTo(t, "done")
             /\ state' = [state EXCEPT !.aborted = TRUE, !.done = TRUE, !.guard = FALSE]
             /\ UNCHANGED canceller
    BY <1>0, <1>6, <2>1 DEF CancelOperation, AbortTransport
  <2>2. CASE Claim /\ CallTo(t, "spawn") /\ UNCHANGED history
    BY <1>0, <1>6, <2>2 DEF CancelOperation, Claim
  <2>3. CASE CallTo(t, "done") /\ UNCHANGED <<state, canceller, history>>
    BY <1>0, <1>6, <2>3 DEF CancelOperation
  <2> QED
    BY <1>6, <2>1, <2>2, <2>3 DEF CancelOperation
<1>7. CASE AbortCall(t)
  <2>1. CASE AbortOperation /\ Routed
    <3>1. /\ state' = [state EXCEPT !.aborted = TRUE, !.done = TRUE,
                                     !.failed = TRUE, !.guard = FALSE]
          /\ UNCHANGED wires
      BY <2>1 DEF AbortOperation, AbortTransport, Routed
    <3> QED
      BY <1>0, <3>1, <1>7, <2>1 DEF AbortCall
  <2>2. CASE AbortOperation /\ ~Routed
    BY <1>0, <1>7, <2>2 DEF AbortCall, AbortOperation
  <2> QED
    BY <1>7, <2>1, <2>2 DEF AbortCall, AbortOperation
<1>8. CASE SpawnCanceller(t)
  <2>1. CASE /\ canceller' = [canceller EXCEPT !.pc = "starting"]
             /\ UNCHANGED <<state, history>>
    BY <1>0, <1>8, <2>1 DEF SpawnCanceller
  <2>2. CASE /\ canceller' = [canceller EXCEPT !.pc = "finished", !.guard = FALSE]
             /\ AbortOperation /\ Routed
    <3>1. /\ state' = [state EXCEPT !.aborted = TRUE, !.done = TRUE,
                                     !.failed = TRUE, !.guard = FALSE]
          /\ UNCHANGED wires
      BY <2>2 DEF AbortOperation, AbortTransport, Routed
    <3> QED
      BY <1>0, <3>1, <1>8, <2>2 DEF SpawnCanceller
  <2>3. CASE /\ canceller' = [canceller EXCEPT !.pc = "finished", !.guard = FALSE]
             /\ AbortOperation /\ ~Routed
    BY <1>0, <1>8, <2>3 DEF SpawnCanceller, AbortOperation
  <2> QED
    BY <1>8, <2>1, <2>2, <2>3 DEF SpawnCanceller, AbortOperation
<1> QED
  BY <1>1, <1>2, <1>3, <1>4, <1>5, <1>6, <1>7, <1>8 DEF CallStep

\* The steps of the cancel thread and of the deadline thread keep it.
LEMMA CallInvOfThreads ==
  ASSUME DownloadInv,
         CancellerStep \/ CancelReturns \/ DeadlinePasses \/ WatchdogStep
  PROVE  CallInv'
<1>0. TypeOK /\ RunnerInv /\ CallInv /\ CancelInv
  BY DEF DownloadInv
<1> USE DownloadAssumption DEF At, GoTo, Calling, CallTo, threads, history,
   CallInv, CancelInv, RunnerInv, Routed, TypeOK, Threads
<1>1. CASE StartWatchdog
  <2>1. CASE watchdog' = "waiting" /\ UNCHANGED <<state, history>>
    BY <1>0, <1>1, <2>1 DEF StartWatchdog
  <2>2. CASE AbortOperation /\ Routed
    <3>1. /\ state' = [state EXCEPT !.aborted = TRUE, !.done = TRUE,
                                     !.failed = TRUE, !.guard = FALSE]
          /\ UNCHANGED wires
      BY <2>2 DEF AbortOperation, AbortTransport, Routed
    <3> QED
      BY <1>0, <3>1, <1>1, <2>2 DEF StartWatchdog
  <2>3. CASE AbortOperation /\ ~Routed
    BY <1>0, <1>1, <2>3 DEF StartWatchdog, AbortOperation
  <2> QED
    BY <1>1, <2>1, <2>2, <2>3 DEF StartWatchdog, AbortOperation
<1>2. CASE SendCancel
  BY <1>0, <1>2 DEF SendCancel
<1>3. CASE CancelReturns
  BY <1>0, <1>3 DEF CancelReturns
<1>4. CASE ReportCancelled
  BY <1>0, <1>4 DEF ReportCancelled
<1>5. CASE DeadlinePasses
  BY <1>0, <1>5 DEF DeadlinePasses
<1>6. CASE WatchdogAborts
  BY <1>0, <1>6 DEF WatchdogAborts, AbortTransport
<1>7. CASE WatchdogExits
  BY <1>0, <1>7 DEF WatchdogExits
<1> QED
  BY <1>1, <1>2, <1>3, <1>4, <1>5, <1>6, <1>7 DEF CancellerStep, WatchdogStep

---------------------------------------------------------------------------
(* CancelInv: one cancel thread, and one request *)

\* The steps of the runner keep it.
LEMMA CancelInvOfRunner ==
  ASSUME DownloadInv, RunnerStep
  PROVE  CancelInv'
<1>0. TypeOK /\ RunnerInv /\ CallInv /\ CancelInv /\ SessionInv
  BY DEF DownloadInv
<1> USE DownloadAssumption DEF At, GoTo, Calling, CallTo, threads, history,
   CancelInv, RunnerInv, Routed, CallInv, TypeOK, Stopped
<1>1. CASE DropCommand
  BY <1>0, <1>1 DEF DropCommand, StopSpool
<1>2. CASE RefuseDrain
  BY <1>0, <1>2 DEF RefuseDrain, StopSpool
<1>3. CASE SessionChanged
  BY <1>0, <1>3 DEF SessionChanged
<1>4. CASE AcceptRun
  BY <1>0, <1>4 DEF AcceptRun
<1>5. CASE RegisterOld
  BY <1>0, <1>5 DEF RegisterOld, Register, Registrable, RefuseTransport
<1>6. CASE Disconnect
  BY <1>0, <1>6 DEF Disconnect
<1>7. CASE RegisterConnecting
  BY <1>0, <1>7 DEF RegisterConnecting, Register, Registrable, RefuseTransport
<1>8. CASE Connect
  BY <1>0, <1>8 DEF Connect
<1>9. CASE RegisterSession
  BY <1>0, <1>9 DEF RegisterSession, Register, Registrable, RefuseTransport
<1>10. CASE CheckRegistered
  BY <1>0, <1>10 DEF CheckRegistered, RefuseTransport
<1>11. CASE Execute
  BY <1>0, <1>11 DEF Execute
<1>12. CASE BindRun
  BY <1>0, <1>12 DEF BindRun, Bind, RefuseBind, RefuseTransport
<1>13. CASE BindDrain
  BY <1>0, <1>13 DEF BindDrain, Bind, RefuseBind, RefuseTransport, StopSpool
<1>14. CASE Poll
  BY <1>0, <1>14 DEF Poll
<1>15. CASE FinishWithoutSpool
  BY <1>0, <1>15 DEF FinishWithoutSpool
<1>16. CASE PublishSpool
  BY <1>0, <1>16 DEF PublishSpool
<1>17. CASE Fetch
  BY <1>0, <1>17 DEF Fetch, StopSpool
<1>18. CASE Complete
  BY <1>0, <1>18 DEF Complete, StopSpool, Handoff, Detach
<1>19. CASE StopOwnDownload
  BY <1>0, <1>19 DEF StopOwnDownload
<1>20. CASE CloseOperation
  BY <1>0, <1>20 DEF CloseOperation
<1>21. CASE Release
  BY <1>0, <1>21 DEF Release, Clean, TimedOut, CancelPending, AbortTransport,
     StoppedState
<1> QED
  BY <1>1, <1>2, <1>3, <1>4, <1>5, <1>6, <1>7, <1>8, <1>9, <1>10, <1>11,
     <1>12, <1>13, <1>14, <1>15, <1>16, <1>17, <1>18, <1>19, <1>20, <1>21 DEF
     RunnerStep

\* The steps of a stop call keep it.
LEMMA CancelInvOfCall ==
  ASSUME DownloadInv, NEW t \in Threads, CallStep(t) \/ StartCall(t)
  PROVE  CancelInv'
<1>0. TypeOK /\ RunnerInv /\ CallInv /\ CancelInv /\ SessionInv
  BY DEF DownloadInv
<1> USE DownloadAssumption DEF At, GoTo, Calling, CallTo, threads, history,
   CancelInv, RunnerInv, Routed, CallInv, TypeOK, Stopped
<1>1. CASE StartCall(t)
  BY <1>0, <1>1 DEF StartCall
<1>2. CASE SetFlagFirst(t)
  BY <1>0, <1>2 DEF SetFlagFirst
<1>3. CASE TerminalSource(t)
  BY <1>0, <1>3 DEF TerminalSource, Outcome
<1>4. CASE TerminalStop(t)
  BY <1>0, <1>4 DEF TerminalStop, StopSpool, Outcome
<1>5. CASE StoreCancel(t)
  BY <1>0, <1>5 DEF StoreCancel
<1>6. CASE CancelOperation(t)
  <2>1. CASE /\ state.route = "transport" /\ AbortTransport /\ CallTo(t, "done")
             /\ state' = [state EXCEPT !.aborted = TRUE, !.done = TRUE, !.guard = FALSE]
             /\ UNCHANGED canceller
    BY <1>0, <1>6, <2>1 DEF CancelOperation, AbortTransport
  <2>2. CASE Claim /\ CallTo(t, "spawn") /\ UNCHANGED history
    BY <1>0, <1>6, <2>2 DEF CancelOperation, Claim
  <2>3. CASE CallTo(t, "done") /\ UNCHANGED <<state, canceller, history>>
    BY <1>0, <1>6, <2>3 DEF CancelOperation
  <2> QED
    BY <1>6, <2>1, <2>2, <2>3 DEF CancelOperation
<1>7. CASE AbortCall(t)
  <2>1. CASE AbortOperation /\ Routed
    <3>1. /\ state' = [state EXCEPT !.aborted = TRUE, !.done = TRUE,
                                     !.failed = TRUE, !.guard = FALSE]
          /\ UNCHANGED wires
      BY <2>1 DEF AbortOperation, AbortTransport, Routed
    <3> QED
      BY <1>0, <3>1, <1>7, <2>1 DEF AbortCall
  <2>2. CASE AbortOperation /\ ~Routed
    BY <1>0, <1>7, <2>2 DEF AbortCall, AbortOperation
  <2> QED
    BY <1>7, <2>1, <2>2 DEF AbortCall, AbortOperation
<1>8. CASE SpawnCanceller(t)
  <2>1. CASE /\ canceller' = [canceller EXCEPT !.pc = "starting"]
             /\ UNCHANGED <<state, history>>
    BY <1>0, <1>8, <2>1 DEF SpawnCanceller
  <2>2. CASE /\ canceller' = [canceller EXCEPT !.pc = "finished", !.guard = FALSE]
             /\ AbortOperation /\ Routed
    <3>1. /\ state' = [state EXCEPT !.aborted = TRUE, !.done = TRUE,
                                     !.failed = TRUE, !.guard = FALSE]
          /\ UNCHANGED wires
      BY <2>2 DEF AbortOperation, AbortTransport, Routed
    <3> QED
      BY <1>0, <3>1, <1>8, <2>2 DEF SpawnCanceller
  <2>3. CASE /\ canceller' = [canceller EXCEPT !.pc = "finished", !.guard = FALSE]
             /\ AbortOperation /\ ~Routed
    BY <1>0, <1>8, <2>3 DEF SpawnCanceller, AbortOperation
  <2> QED
    BY <1>8, <2>1, <2>2, <2>3 DEF SpawnCanceller, AbortOperation
<1> QED
  BY <1>1, <1>2, <1>3, <1>4, <1>5, <1>6, <1>7, <1>8 DEF CallStep

\* The steps of the cancel thread and of the deadline thread keep it.
LEMMA CancelInvOfThreads ==
  ASSUME DownloadInv,
         CancellerStep \/ CancelReturns \/ DeadlinePasses \/ WatchdogStep
  PROVE  CancelInv'
<1>0. TypeOK /\ RunnerInv /\ CallInv /\ CancelInv /\ SessionInv
  BY DEF DownloadInv
<1> USE DownloadAssumption DEF At, GoTo, Calling, CallTo, threads, history,
   CancelInv, RunnerInv, Routed, CallInv, TypeOK, Stopped
<1>1. CASE StartWatchdog
  <2>1. CASE watchdog' = "waiting" /\ UNCHANGED <<state, history>>
    BY <1>0, <1>1, <2>1 DEF StartWatchdog
  <2>2. CASE AbortOperation /\ Routed
    <3>1. /\ state' = [state EXCEPT !.aborted = TRUE, !.done = TRUE,
                                     !.failed = TRUE, !.guard = FALSE]
          /\ UNCHANGED wires
      BY <2>2 DEF AbortOperation, AbortTransport, Routed
    <3> QED
      BY <1>0, <3>1, <1>1, <2>2 DEF StartWatchdog
  <2>3. CASE AbortOperation /\ ~Routed
    BY <1>0, <1>1, <2>3 DEF StartWatchdog, AbortOperation
  <2> QED
    BY <1>1, <2>1, <2>2, <2>3 DEF StartWatchdog, AbortOperation
<1>2. CASE SendCancel
  BY <1>0, <1>2 DEF SendCancel
<1>3. CASE CancelReturns
  BY <1>0, <1>3 DEF CancelReturns
<1>4. CASE ReportCancelled
  BY <1>0, <1>4 DEF ReportCancelled
<1>5. CASE DeadlinePasses
  BY <1>0, <1>5 DEF DeadlinePasses
<1>6. CASE WatchdogAborts
  BY <1>0, <1>6 DEF WatchdogAborts, AbortTransport
<1>7. CASE WatchdogExits
  BY <1>0, <1>7 DEF WatchdogExits
<1> QED
  BY <1>1, <1>2, <1>3, <1>4, <1>5, <1>6, <1>7 DEF CancellerStep, WatchdogStep

---------------------------------------------------------------------------
(* SessionInv: the transport and the session *)

\* The steps of the runner keep it.
LEMMA SessionInvOfRunner ==
  ASSUME DownloadInv, RunnerStep
  PROVE  SessionInv'
<1>0. TypeOK /\ RunnerInv /\ CallInv /\ CancelInv /\ SessionInv
  BY DEF DownloadInv
<1> USE DownloadAssumption DEF At, GoTo, Calling, CallTo, threads, history,
   SessionInv, CancelInv, RunnerInv, Routed, TypeOK, Stopped
<1>1. CASE DropCommand
  BY <1>0, <1>1 DEF DropCommand, StopSpool
<1>2. CASE RefuseDrain
  BY <1>0, <1>2 DEF RefuseDrain, StopSpool
<1>3. CASE SessionChanged
  BY <1>0, <1>3 DEF SessionChanged
<1>4. CASE AcceptRun
  BY <1>0, <1>4 DEF AcceptRun
<1>5. CASE RegisterOld
  BY <1>0, <1>5 DEF RegisterOld, Register, Registrable, RefuseTransport
<1>6. CASE Disconnect
  BY <1>0, <1>6 DEF Disconnect
<1>7. CASE RegisterConnecting
  BY <1>0, <1>7 DEF RegisterConnecting, Register, Registrable, RefuseTransport
<1>8. CASE Connect
  BY <1>0, <1>8 DEF Connect
<1>9. CASE RegisterSession
  BY <1>0, <1>9 DEF RegisterSession, Register, Registrable, RefuseTransport
<1>10. CASE CheckRegistered
  BY <1>0, <1>10 DEF CheckRegistered, RefuseTransport
<1>11. CASE Execute
  BY <1>0, <1>11 DEF Execute
<1>12. CASE BindRun
  BY <1>0, <1>12 DEF BindRun, Bind, RefuseBind, RefuseTransport
<1>13. CASE BindDrain
  BY <1>0, <1>13 DEF BindDrain, Bind, RefuseBind, RefuseTransport, StopSpool
<1>14. CASE Poll
  BY <1>0, <1>14 DEF Poll
<1>15. CASE FinishWithoutSpool
  BY <1>0, <1>15 DEF FinishWithoutSpool
<1>16. CASE PublishSpool
  BY <1>0, <1>16 DEF PublishSpool
<1>17. CASE Fetch
  BY <1>0, <1>17 DEF Fetch, StopSpool
<1>18. CASE Complete
  BY <1>0, <1>18 DEF Complete, StopSpool, Handoff, Detach
<1>19. CASE StopOwnDownload
  BY <1>0, <1>19 DEF StopOwnDownload
<1>20. CASE CloseOperation
  BY <1>0, <1>20 DEF CloseOperation
<1>21. CASE Release
  BY <1>0, <1>21 DEF Release, Clean, TimedOut, CancelPending, AbortTransport,
     StoppedState
<1> QED
  BY <1>1, <1>2, <1>3, <1>4, <1>5, <1>6, <1>7, <1>8, <1>9, <1>10, <1>11,
     <1>12, <1>13, <1>14, <1>15, <1>16, <1>17, <1>18, <1>19, <1>20, <1>21 DEF
     RunnerStep

\* The steps of a stop call keep it.
LEMMA SessionInvOfCall ==
  ASSUME DownloadInv, NEW t \in Threads, CallStep(t) \/ StartCall(t)
  PROVE  SessionInv'
<1>0. TypeOK /\ RunnerInv /\ CallInv /\ CancelInv /\ SessionInv
  BY DEF DownloadInv
<1> USE DownloadAssumption DEF At, GoTo, Calling, CallTo, threads, history,
   SessionInv, CancelInv, RunnerInv, Routed, TypeOK, Stopped
<1>1. CASE StartCall(t)
  BY <1>0, <1>1 DEF StartCall
<1>2. CASE SetFlagFirst(t)
  BY <1>0, <1>2 DEF SetFlagFirst
<1>3. CASE TerminalSource(t)
  BY <1>0, <1>3 DEF TerminalSource, Outcome
<1>4. CASE TerminalStop(t)
  BY <1>0, <1>4 DEF TerminalStop, StopSpool, Outcome
<1>5. CASE StoreCancel(t)
  BY <1>0, <1>5 DEF StoreCancel
<1>6. CASE CancelOperation(t)
  <2>1. CASE /\ state.route = "transport" /\ AbortTransport /\ CallTo(t, "done")
             /\ state' = [state EXCEPT !.aborted = TRUE, !.done = TRUE, !.guard = FALSE]
             /\ UNCHANGED canceller
    BY <1>0, <1>6, <2>1 DEF CancelOperation, AbortTransport
  <2>2. CASE Claim /\ CallTo(t, "spawn") /\ UNCHANGED history
    BY <1>0, <1>6, <2>2 DEF CancelOperation, Claim
  <2>3. CASE CallTo(t, "done") /\ UNCHANGED <<state, canceller, history>>
    BY <1>0, <1>6, <2>3 DEF CancelOperation
  <2> QED
    BY <1>6, <2>1, <2>2, <2>3 DEF CancelOperation
<1>7. CASE AbortCall(t)
  <2>1. CASE AbortOperation /\ Routed
    BY <1>0, <1>7, <2>1 DEF AbortCall, AbortOperation, AbortTransport
  <2>2. CASE AbortOperation /\ ~Routed
    BY <1>0, <1>7, <2>2 DEF AbortCall, AbortOperation
  <2> QED
    BY <1>7, <2>1, <2>2 DEF AbortCall, AbortOperation
<1>8. CASE SpawnCanceller(t)
  <2>1. CASE /\ canceller' = [canceller EXCEPT !.pc = "starting"]
             /\ UNCHANGED <<state, history>>
    BY <1>0, <1>8, <2>1 DEF SpawnCanceller, CallInv
  <2>2. CASE /\ canceller' = [canceller EXCEPT !.pc = "finished", !.guard = FALSE]
             /\ AbortOperation /\ Routed
    BY <1>0, <1>8, <2>2 DEF SpawnCanceller, AbortOperation, AbortTransport
  <2>3. CASE /\ canceller' = [canceller EXCEPT !.pc = "finished", !.guard = FALSE]
             /\ AbortOperation /\ ~Routed
    BY <1>0, <1>8, <2>3 DEF SpawnCanceller, AbortOperation
  <2> QED
    BY <1>8, <2>1, <2>2, <2>3 DEF SpawnCanceller, AbortOperation
<1> QED
  BY <1>1, <1>2, <1>3, <1>4, <1>5, <1>6, <1>7, <1>8 DEF CallStep

\* The steps of the cancel thread and of the deadline thread keep it.
LEMMA SessionInvOfThreads ==
  ASSUME DownloadInv,
         CancellerStep \/ CancelReturns \/ DeadlinePasses \/ WatchdogStep
  PROVE  SessionInv'
<1>0. TypeOK /\ RunnerInv /\ CallInv /\ CancelInv /\ SessionInv
  BY DEF DownloadInv
<1> USE DownloadAssumption DEF At, GoTo, Calling, CallTo, threads, history,
   SessionInv, CancelInv, RunnerInv, Routed, TypeOK, Stopped
<1>1. CASE StartWatchdog
  <2>1. CASE watchdog' = "waiting" /\ UNCHANGED <<state, history>>
    BY <1>0, <1>1, <2>1 DEF StartWatchdog
  <2>2. CASE AbortOperation /\ Routed
    BY <1>0, <1>1, <2>2 DEF StartWatchdog, AbortOperation, AbortTransport
  <2>3. CASE AbortOperation /\ ~Routed
    BY <1>0, <1>1, <2>3 DEF StartWatchdog, AbortOperation
  <2> QED
    BY <1>1, <2>1, <2>2, <2>3 DEF StartWatchdog, AbortOperation
<1>2. CASE SendCancel
  BY <1>0, <1>2 DEF SendCancel
<1>3. CASE CancelReturns
  BY <1>0, <1>3 DEF CancelReturns
<1>4. CASE ReportCancelled
  BY <1>0, <1>4 DEF ReportCancelled
<1>5. CASE DeadlinePasses
  BY <1>0, <1>5 DEF DeadlinePasses
<1>6. CASE WatchdogAborts
  BY <1>0, <1>6 DEF WatchdogAborts, AbortTransport
<1>7. CASE WatchdogExits
  BY <1>0, <1>7 DEF WatchdogExits
<1> QED
  BY <1>1, <1>2, <1>3, <1>4, <1>5, <1>6, <1>7 DEF CancellerStep, WatchdogStep

---------------------------------------------------------------------------
(* The theorems *)

\* Every step keeps the invariant.
LEMMA StepKeepsInv == DownloadInv /\ [Next]_vars => DownloadInv'
<1> SUFFICES ASSUME DownloadInv, [Next]_vars PROVE DownloadInv'
  OBVIOUS
<1>0. TypeOK
  BY DEF DownloadInv
<1>1. CASE RunnerStep
  BY <1>0, <1>1, TypeOfRunner, RunnerInvOfRunner, CallInvOfRunner, CancelInvOfRunner,
     SessionInvOfRunner
     DEF DownloadInv
<1>2. CASE \E t \in Callers : StartCall(t)
  <2>1. PICK t \in Callers : StartCall(t)
    BY <1>2
  <2>2. t \in Threads
    BY DEF Threads
  <2> QED
    BY <1>0, <2>1, <2>2, CallTypeKept, RunnerInvOfCall, CallInvOfCall, CancelInvOfCall,
     SessionInvOfCall
       DEF DownloadInv
<1>3. CASE \E t \in Threads : CallStep(t)
  <2>1. PICK t \in Threads : CallStep(t)
    BY <1>3
  <2> QED
    BY <1>0, <2>1, CallTypeKept, RunnerInvOfCall, CallInvOfCall, CancelInvOfCall,
     SessionInvOfCall
       DEF DownloadInv
<1>4. CASE CancellerStep \/ CancelReturns \/ DeadlinePasses \/ WatchdogStep
  BY <1>0, <1>4, TypeOfThreads, RunnerInvOfThreads, CallInvOfThreads, CancelInvOfThreads,
     SessionInvOfThreads
     DEF DownloadInv
<1>5. CASE UNCHANGED vars
  <2>1. TypeOK'
    BY <1>0, <1>5 DEF TypeOK, vars
  <2>2. RunnerInv' /\ CancelInv' /\ SessionInv'
    BY <1>5 DEF DownloadInv, RunnerInv, CancelInv, SessionInv, At, Routed, vars
  <2>3. CallInv'
    BY <1>5 DEF DownloadInv, CallInv, Calling, At, vars
  <2> QED
    BY <2>1, <2>2, <2>3 DEF DownloadInv
<1> QED
  BY <1>1, <1>2, <1>3, <1>4, <1>5 DEF Next, Finished

\* Every reachable state satisfies the invariant: the runner's steps, the stop
\* calls, the cancel thread and the deadline interleave as they like.
THEOREM DownloadCorrect == Spec => []DownloadInv
<1>1. Init => DownloadInv
  BY InitInv
<1> QED
  BY <1>1, StepKeepsInv, PTL DEF Spec

\* No abort of this download cuts the transport under the session's next query.
THEOREM NeverStray == Spec => []NoStrayAbort
<1>1. DownloadInv => NoStrayAbort
  BY DEF DownloadInv, NoStrayAbort, SessionInv
<1> QED
  BY <1>1, DownloadCorrect, PTL

\* A session goes to the next query only after its CancelOperation was answered.
THEOREM CancelAnsweredBeforeReuse == Spec => []CancelFinishedBeforeReuse
<1>1. DownloadInv => CancelFinishedBeforeReuse
  BY DEF DownloadInv, CancelFinishedBeforeReuse, SessionInv
<1> QED
  BY <1>1, DownloadCorrect, PTL

\* A session whose transport the cancellation cut is never used again.
THEOREM AbortedNeverReused == Spec => []AbortedSessionDiscarded
<1>1. DownloadInv => AbortedSessionDiscarded
  BY DEF DownloadInv, AbortedSessionDiscarded, SessionInv, TypeOK
<1> QED
  BY <1>1, DownloadCorrect, PTL

\* The readers are stopped before CancelOperation is sent.
THEOREM ReadersStoppedFirst == Spec => []TerminalBeforeProtocol
<1>1. DownloadInv => TerminalBeforeProtocol
  BY DEF DownloadInv, TerminalBeforeProtocol, CancelInv
<1> QED
  BY <1>1, DownloadCorrect, PTL

\* CancelOperation is sent at most once.
THEOREM CancelSentOnce == Spec => []OneCancelRequest
<1>1. DownloadInv => OneCancelRequest
  BY DEF DownloadInv, OneCancelRequest, CancelInv
<1> QED
  BY <1>1, DownloadCorrect, PTL

\* After a complete result nothing touches the session that produced it.
THEOREM CompleteIsDetached == Spec => []CompleteDetaches
<1>1. DownloadInv => CompleteDetaches
  BY DEF DownloadInv, CompleteDetaches, SessionInv, CancelInv, TypeOK
<1> QED
  BY <1>1, DownloadCorrect, PTL

\* The job guard is dropped on every path.
THEOREM WriterFreed == Spec => []WriterReleased
<1>1. DownloadInv => WriterReleased
  BY DEF DownloadInv, WriterReleased, RunnerInv, CancelInv, Routed
<1> QED
  BY <1>1, DownloadCorrect, PTL

=============================================================================
