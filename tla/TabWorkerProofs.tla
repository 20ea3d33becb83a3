-------------------------- MODULE TabWorkerProofs ---------------------------
(***************************************************************************)
(* Proofs about TabWorker, for any executions, page sizes, limits and      *)
(* connection settings. TabIInv is inductive: the types of the module, the *)
(* published target, the rows of a page and the session of an export.      *)
(*                                                                         *)
(* The second half is about the order of commands and events. It is for    *)
(* tabs whose idle timer does nothing and that sign in without a browser   *)
(* (NoMaintenance), because with either of them most of its theorems are   *)
(* false. OrderInv is inductive there: a tab is in one of four phases, and *)
(* everything else is about a phase. Liveness is left to the model checker.*)
(***************************************************************************)
EXTENDS TabWorker, SequenceTheorems, TLAPS

-----------------------------------------------------------------------------
(* Types                                                                   *)

LEMMA PcFacts ==
  /\ {"idle", "ended", "maintain", "reset", "prepare", "connect", "signInCancelled", "check",
      "clear", "execute", "publish", "catch", "poll", "fetch", "fetched", "paged", "drain",
      "exportPrepare", "exportConnect", "exportClear", "exportExecute", "exportBind",
      "exportPoll", "keepAlive", "keepExecute", "keepPublish", "keepCatch", "keepWait",
      "keepClose"} \subseteq WorkerPcs
  /\ {"ready", "events", "cancel", "target", "send", "closed"} \subseteq UiPcs
  BY DEF WorkerPcs, CommandPcs, KeepAlivePcs, UiPcs

LEMMA CursorFacts ==
  {"unavailable", "available", "draining", "downloaded", "consumed", "complete"} \subseteq Cursors
  BY DEF Cursors

\* The states of the parts of TypeOK.
LEMMA Typed ==
  ASSUME TypeOK
  PROVE  /\ worker.pc \in WorkerPcs /\ worker.x \in Number /\ worker.session \in Number
         /\ worker.expected \in Number /\ worker.cursor \in Cursors
         /\ worker.rows \in Nat /\ worker.pending \in Nat /\ worker.wanted \in Nat
         /\ worker.batch \in Nat /\ worker.kept \in Targets /\ worker.failed \in BOOLEAN
         /\ op.x \in Number /\ op.total \in 0..MaxRows /\ op.served \in 0..MaxRows
         /\ op.total \in Nat /\ op.served \in Nat
         /\ 0 \in Number /\ 0 \in Targets /\ Number \subseteq Targets /\ KeepOp \in Targets
         /\ 0 \in 0..MaxRows /\ MaxRows \in Nat /\ Page \in Nat /\ Limit \in Nat
         /\ ui.execution \in Number /\ ui.rows \in Nat /\ ui.pc \in UiPcs
         /\ ui.busy \in BOOLEAN /\ ui.more \in BOOLEAN
         /\ cancelled \in BOOLEAN /\ stopped \in BOOLEAN /\ Number \subseteq Nat
  <1>1. 0 \in 0..MaxRows /\ MaxRows \in Nat /\ Page \in Nat /\ Limit \in Nat
    BY TabAssumption
  <1>2. /\ Number \subseteq Nat /\ 0 \in Number /\ 0 \in Targets /\ Number \subseteq Targets
        /\ KeepOp \in Targets
    BY TabAssumption DEF Number, Targets, NoTarget
  <1> QED
    BY <1>1, <1>2 DEF TypeOK, WorkerStates, UiStates

LEMMA NoOpTyped == NoOp \in [x: Number, total: 0..MaxRows, served: 0..MaxRows]
  BY TabAssumption DEF NoOp, Number

LEMMA DisconnectedTyped ==
  ASSUME TypeOK
  PROVE  Disconnected \in WorkerStates
  BY Typed, CursorFacts DEF TypeOK, WorkerStates, Disconnected

LEMMA AtPc ==
  ASSUME NEW w \in WorkerStates, NEW pc \in WorkerPcs
  PROVE  [w EXCEPT !.pc = pc] \in WorkerStates
  BY DEF WorkerStates

LEMMA EventFacts ==
  ASSUME TypeOK
  PROVE  /\ \A k \in {"connecting", "connected", "busy", "keepAliveFinished", "cancelled",
                     "cancelError", "disconnected"} : Kind(k) \in EventTypes
         /\ \A b \in BOOLEAN : ReadyEvent(b) \in EventTypes /\ ErrorEvent(b) \in EventTypes
         /\ \A c \in Cursors : CursorEvent(c) \in EventTypes
         /\ \A x \in Number, b \in BOOLEAN, d \in BOOLEAN : FailedEvent(x, b, d) \in EventTypes
         /\ RowsEvent \in EventTypes
         /\ [kind |-> "downloaded", x |-> worker.x] \in EventTypes
         /\ \A n \in Nat : [kind |-> "previewRows", x |-> worker.x, rows |-> n] \in EventTypes
  <1>1. \A k \in {"connecting", "connected", "busy", "keepAliveFinished", "cancelled",
                     "cancelError", "disconnected"} : Kind(k) \in EventTypes
    BY DEF Kind, EventTypes
  <1>2. \A b \in BOOLEAN : ReadyEvent(b) \in EventTypes /\ ErrorEvent(b) \in EventTypes
    BY DEF ReadyEvent, ErrorEvent, EventTypes
  <1>3. \A c \in Cursors : CursorEvent(c) \in EventTypes
    BY Typed DEF CursorEvent, EventTypes
  <1>4. \A x \in Number, b \in BOOLEAN, d \in BOOLEAN : FailedEvent(x, b, d) \in EventTypes
    BY DEF FailedEvent, EventTypes
  <1>5. RowsEvent \in EventTypes
    BY Typed DEF RowsEvent, EventTypes
  <1>6. [kind |-> "downloaded", x |-> worker.x] \in EventTypes
    BY Typed DEF EventTypes
  <1>7. \A n \in Nat : [kind |-> "previewRows", x |-> worker.x, rows |-> n] \in EventTypes
    BY Typed DEF EventTypes
  <1> QED
    BY <1>1, <1>2, <1>3, <1>4, <1>5, <1>6, <1>7

LEMMA EmitTyped ==
  ASSUME TypeOK, NEW sent \in Seq(EventTypes), Emit(sent)
  PROVE  events' \in Seq(EventTypes)
  BY ConcatProperties DEF TypeOK, Emit

LEMMA One == ASSUME NEW a \in EventTypes PROVE <<a>> \in Seq(EventTypes)
  OBVIOUS
LEMMA Two ==
  ASSUME NEW a \in EventTypes, NEW b \in EventTypes
  PROVE  <<a, b>> \in Seq(EventTypes)
  OBVIOUS
LEMMA Three ==
  ASSUME NEW a \in EventTypes, NEW b \in EventTypes, NEW c \in EventTypes
  PROVE  <<a, b, c>> \in Seq(EventTypes)
  OBVIOUS

\* The events that end a command, and which of them concern the tab's execution.
Ends(e) == e.kind \in {"ready", "cancelled", "error", "disconnected", "keepAliveFinished",
                       "downloaded", "downloadFailed"}

Concerns(e, x) == e.kind \in {"downloaded", "downloadFailed"} => e.x = x

\* What applying an event makes of the parts of the tab that the invariants are about.
Applied(u, v, e) ==
  /\ v \in UiStates
  /\ v.pc = u.pc /\ v.execution = u.execution
  /\ v.more = TRUE => u.more = TRUE \/ (e.kind = "ready" /\ e.more = TRUE)
  /\ v.foreign = TRUE => u.foreign = TRUE \/ (e.kind = "rows" /\ e.x # u.execution)
  /\ Ends(e) /\ Concerns(e, u.execution) =>
       /\ v.busy = FALSE
       /\ v.more = TRUE => (e.kind = "keepAliveFinished" \/ (e.kind = "ready" /\ e.more = TRUE)
                             \/ (e.kind = "downloadFailed" /\ e.consumed = FALSE))
  /\ ~(Ends(e) /\ Concerns(e, u.execution)) /\ u.busy = TRUE => v.busy = TRUE

LEMMA IdleFacts ==
  ASSUME NEW u \in UiStates
  PROVE  /\ Idle(u) \in UiStates /\ Idle(u).pc = u.pc /\ Idle(u).execution = u.execution
         /\ Idle(u).more = u.more /\ Idle(u).foreign = u.foreign /\ Idle(u).busy = FALSE
  BY DEF Idle, UiStates

LEMMA CloseFacts ==
  ASSUME NEW u \in UiStates
  PROVE  LET v == CloseCursor(Idle(u)) IN
           /\ v \in UiStates /\ v.pc = u.pc /\ v.execution = u.execution
           /\ v.more = FALSE /\ v.foreign = u.foreign /\ v.busy = FALSE
  <1> DEFINE v == Idle(u)
  <1>1. /\ v \in UiStates /\ v.pc = u.pc /\ v.execution = u.execution
        /\ v.foreign = u.foreign /\ v.busy = FALSE
    BY IdleFacts
  <1> HIDE DEF v
  <1>2. /\ CloseCursor(v) \in UiStates /\ CloseCursor(v).pc = v.pc
        /\ CloseCursor(v).execution = v.execution /\ CloseCursor(v).more = FALSE
        /\ CloseCursor(v).foreign = v.foreign /\ CloseCursor(v).busy = v.busy
    BY <1>1 DEF CloseCursor, UiStates
  <1> QED
    BY <1>1, <1>2 DEF v

LEMMA EndFacts ==
  ASSUME NEW u \in UiStates, NEW c \in Cursors
  PROVE  LET v == End(u, c) IN
           /\ v \in UiStates /\ v.pc = u.pc /\ v.execution = u.execution
           /\ v.more = FALSE /\ v.foreign = u.foreign /\ v.busy = FALSE
  <1> DEFINE v == CloseCursor(Idle(u))
  <1>1. /\ v \in UiStates /\ v.pc = u.pc /\ v.execution = u.execution
        /\ v.foreign = u.foreign /\ v.busy = FALSE /\ v.more = FALSE
    BY CloseFacts
  <1> HIDE DEF v
  <1>2. LET w == [v EXCEPT !.cursor = c] IN
        /\ w \in UiStates /\ w.pc = v.pc
        /\ w.execution = v.execution /\ w.more = v.more
        /\ w.foreign = v.foreign /\ w.busy = v.busy
    BY <1>1 DEF UiStates
  <1> QED
    BY <1>1, <1>2 DEF v, End

LEMMA LostFacts ==
  ASSUME NEW u \in UiStates, NEW b \in BOOLEAN
  PROVE  LET v == Lost(u, b) IN
           /\ v \in UiStates /\ v.pc = u.pc /\ v.execution = u.execution
           /\ v.more = u.more /\ v.foreign = u.foreign /\ v.busy = u.busy
  BY DEF Lost, UiStates

LEMMA ApplyFacts ==
  ASSUME NEW u \in UiStates, NEW e \in EventTypes
  PROVE  Applied(u, Apply(u, e), e)
  <1>1. CASE e.kind = "connecting"
    BY <1>1 DEF Apply, ApplyAlways, ApplyDownload, Applied, Ends, UiStates
  <1>2. CASE e.kind = "connected"
    BY <1>2 DEF Apply, ApplyAlways, ApplyDownload, Applied, Ends, UiStates
  <1>3. CASE e.kind = "busy"
    BY <1>3 DEF Apply, ApplyAlways, ApplyDownload, Applied, Ends, UiStates
  <1>4. CASE e.kind = "keepAliveFinished"
    <2>1. Apply(u, e) = Idle(u)
      BY <1>4 DEF Apply, ApplyAlways, ApplyDownload
    <2> DEFINE v == Idle(u)
    <2>2. /\ v \in UiStates /\ v.pc = u.pc /\ v.execution = u.execution
          /\ v.more = u.more /\ v.foreign = u.foreign /\ v.busy = FALSE
      BY IdleFacts
    <2> HIDE DEF v
    <2>3. Apply(u, e) = v
      BY <2>1 DEF v
    <2> QED
      BY <1>4, <2>2, <2>3 DEF Applied, Ends, Concerns
  <1>5. CASE e.kind = "rows"
    <2>1. Apply(u, e) = AddRows(u, e) /\ e.rows \in Nat
      BY <1>5 DEF Apply, ApplyAlways, ApplyDownload, EventTypes
    <2> DEFINE f == (u.foreign \/ e.x # u.execution)
    <2>2. f \in BOOLEAN
      OBVIOUS
    <2>3. AddRows(u, e) = [u EXCEPT !.rows = @ + e.rows, !.foreign = f]
      BY DEF AddRows, UiStates
    <2> HIDE DEF f
    <2> DEFINE n == u.rows + e.rows
    <2>5. n \in Nat
      BY <2>1 DEF UiStates
    <2>6. AddRows(u, e) = [u EXCEPT !.rows = n, !.foreign = f]
      BY <2>3
    <2> HIDE DEF n
    <2>4. /\ AddRows(u, e) \in UiStates /\ AddRows(u, e).pc = u.pc
          /\ AddRows(u, e).execution = u.execution /\ AddRows(u, e).more = u.more
          /\ AddRows(u, e).foreign = f /\ AddRows(u, e).busy = u.busy
      BY <2>2, <2>5, <2>6 DEF UiStates
    <2> QED
      BY <1>5, <2>1, <2>4 DEF Applied, Ends, f
  <1>6. CASE e.kind = "ready"
    <2>1. Apply(u, e) = [Idle(u) EXCEPT !.more = e.more] /\ e.more \in BOOLEAN
      BY <1>6 DEF Apply, ApplyAlways, ApplyDownload, EventTypes
    <2> DEFINE v == Idle(u)
    <2>2. /\ v \in UiStates /\ v.pc = u.pc /\ v.execution = u.execution
          /\ v.foreign = u.foreign /\ v.busy = FALSE
      BY IdleFacts
    <2> HIDE DEF v
    <2> DEFINE w == [v EXCEPT !.more = e.more]
    <2>4. /\ w \in UiStates /\ w.pc = v.pc
          /\ w.execution = v.execution /\ w.more = e.more
          /\ w.foreign = v.foreign /\ w.busy = v.busy
      BY <2>1, <2>2 DEF UiStates
    <2> HIDE DEF w
    <2>5. Apply(u, e) = w
      BY <2>1 DEF v, w
    <2> QED
      BY <1>6, <2>2, <2>4, <2>5 DEF Applied, Ends, Concerns
  <1>7. CASE e.kind = "cancelled"
    <2>1. Apply(u, e) = End(u, "consumed")
      BY <1>7 DEF Apply, ApplyAlways, ApplyDownload
    <2> DEFINE v == End(u, "consumed")
    <2>2. /\ v \in UiStates /\ v.pc = u.pc /\ v.execution = u.execution
          /\ v.foreign = u.foreign /\ v.busy = FALSE /\ v.more = FALSE
      BY EndFacts, CursorFacts
    <2> HIDE DEF v
    <2> QED
      BY <1>7, <2>1, <2>2 DEF Applied, Ends, Concerns, v
  <1>8. CASE e.kind = "error"
    <2>1. Apply(u, e) = Lost(CloseCursor(Idle(u)), e.disconnected) /\ e.disconnected \in BOOLEAN
      BY <1>8 DEF Apply, ApplyAlways, ApplyDownload, EventTypes
    <2> DEFINE v == CloseCursor(Idle(u))
    <2>2. /\ v \in UiStates /\ v.pc = u.pc /\ v.execution = u.execution
          /\ v.foreign = u.foreign /\ v.busy = FALSE /\ v.more = FALSE
      BY CloseFacts
    <2> HIDE DEF v
    <2> QED
      BY <1>8, <2>1, <2>2, LostFacts DEF Applied, Ends, Concerns, v
  <1>9. CASE e.kind = "cancelError"
    BY <1>9 DEF Apply, ApplyAlways, ApplyDownload, Applied, Ends, CancelFailed, UiStates
  <1>10. CASE e.kind = "disconnected"
    <2> DEFINE v == End(u, "unavailable")
    <2>1. Apply(u, e) = Lost(v, TRUE)
      BY <1>10 DEF Apply, ApplyAlways, ApplyDownload
    <2>2. /\ v \in UiStates /\ v.pc = u.pc /\ v.execution = u.execution
          /\ v.foreign = u.foreign /\ v.busy = FALSE /\ v.more = FALSE
      BY EndFacts, CursorFacts
    <2> HIDE DEF v
    <2> QED
      BY <1>10, <2>1, <2>2, LostFacts DEF Applied, Ends, Concerns
  <1>11. CASE /\ e.kind \in {"previewRows", "cursor", "downloaded", "downloadFailed"}
              /\ e.x # u.execution
    <2>1. Apply(u, e) = u
      BY <1>11 DEF Apply, ApplyAlways, ApplyDownload
    <2> QED
      BY <1>11, <2>1 DEF Applied, Ends, Concerns, UiStates
  <1>12. CASE e.kind = "previewRows" /\ e.x = u.execution
    <2>1. Apply(u, e) = [u EXCEPT !.rows = @ + e.rows] /\ e.rows \in Nat
      BY <1>12 DEF Apply, ApplyAlways, ApplyDownload, EventTypes
    <2> QED
      BY <1>12, <2>1 DEF Applied, Ends, UiStates
  <1>13. CASE e.kind = "cursor" /\ e.x = u.execution
    <2>1. e.state \in Cursors
      BY <1>13 DEF EventTypes
    <2>2. \/ Apply(u, e) = [u EXCEPT !.cursor = e.state, !.busy = TRUE, !.more = FALSE]
          \/ Apply(u, e) = [u EXCEPT !.cursor = e.state]
      BY <1>13 DEF Apply, ApplyAlways, ApplyDownload
    <2> QED
      BY <1>13, <2>1, <2>2 DEF Applied, Ends, UiStates
  <1>14. CASE e.kind = "downloaded" /\ e.x = u.execution
    <2>1. Apply(u, e) = End(u, "downloaded")
      BY <1>14 DEF Apply, ApplyAlways, ApplyDownload
    <2> DEFINE v == End(u, "downloaded")
    <2>2. /\ v \in UiStates /\ v.pc = u.pc /\ v.execution = u.execution
          /\ v.foreign = u.foreign /\ v.busy = FALSE /\ v.more = FALSE
      BY EndFacts, CursorFacts
    <2> HIDE DEF v
    <2> QED
      BY <1>14, <2>1, <2>2 DEF Applied, Ends, Concerns, v
  <1>15. CASE e.kind = "downloadFailed" /\ e.x = u.execution
    <2>1. e.consumed \in BOOLEAN /\ e.disconnected \in BOOLEAN
      BY <1>15 DEF EventTypes
    <2> DEFINE v == IF e.consumed THEN End(u, "consumed") ELSE Idle(u)
    <2>2. Apply(u, e) = Lost(v, e.disconnected)
      BY <1>15 DEF Apply, ApplyAlways, ApplyDownload
    <2>3. /\ v \in UiStates /\ v.pc = u.pc /\ v.execution = u.execution
          /\ v.foreign = u.foreign /\ v.busy = FALSE
          /\ v.more = TRUE => u.more = TRUE /\ e.consumed = FALSE
      BY <2>1, EndFacts, IdleFacts, CursorFacts
    <2> HIDE DEF v
    <2> QED
      BY <1>15, <2>1, <2>2, <2>3, LostFacts DEF Applied, Ends, Concerns
  <1>16. e.kind \in {"connecting", "connected", "busy", "keepAliveFinished", "cancelled",
                     "cancelError", "disconnected", "rows", "previewRows", "ready", "error",
                     "cursor", "downloaded", "downloadFailed"}
    BY DEF EventTypes
  <1> QED
    BY <1>1, <1>2, <1>3, <1>4, <1>5, <1>6, <1>7, <1>8, <1>9, <1>10, <1>11, <1>12, <1>13,
       <1>14, <1>15, <1>16

-----------------------------------------------------------------------------
(* The invariant                                                           *)

\* The target is the open operation, also when a keep-alive has set both aside.
TargetInv ==
  /\ TargetIsBound
  /\ worker.pc \in {"publish", "exportBind"} => op.x = worker.x
  /\ worker.pc = "keepAlive" => target = op.x
  /\ worker.pc \in KeepAlivePcs \ {"keepAlive"} => worker.kept = op.x

\* The server delivers no more rows than there are, and no more than asked for.
RowsInv ==
  /\ op.served <= op.total
  /\ WorkerAt("fetched") => worker.batch <= worker.wanted

\* Once the worker took the export, no step gives up the reviewed session.
ExportInv ==
  /\ worker.pc \in {"exportPrepare", "exportClear", "exportExecute"} =>
       worker.expected \in {0, worker.session}
  /\ WorkerAt("exportConnect") => worker.expected = 0

TabIInv == TypeOK /\ TargetInv /\ RowsInv /\ ExportInv

LEMMA CommandTyped ==
  ASSUME TypeOK, NEW kind \in {"run", "export", "more", "drain", "disconnect", "shutdown"},
         NEW x \in Number, NEW rows \in Nat, NEW expected \in Number
  PROVE  /\ Command(kind, x, rows, expected) \in CommandTypes
         /\ Append(commands, Command(kind, x, rows, expected)) \in Seq(CommandTypes)
  <1>1. Command(kind, x, rows, expected) \in CommandTypes
    BY DEF Command, CommandTypes
  <1> QED
    BY <1>1, AppendProperties DEF TypeOK

LEMMA TakeTyped ==
  ASSUME TypeOK, NEW kind, Take(kind)
  PROVE  /\ commands' \in Seq(CommandTypes)
         /\ Head(commands) \in CommandTypes
         /\ Head(commands).x \in Number /\ Head(commands).rows \in Nat
         /\ Head(commands).expected \in Number
  <1>1. Head(commands) \in CommandTypes /\ Tail(commands) \in Seq(CommandTypes)
    BY DEF TypeOK, Take
  <1> QED
    BY <1>1 DEF Take, CommandTypes

LEMMA Superseded ==
  ASSUME TypeOK, Supersede
  PROVE  cancels' \subseteq [target: Targets, current: BOOLEAN]
  BY DEF TypeOK, Supersede

LEMMA UserTyped ==
  ASSUME TypeOK,
         \/ Run \/ RunExport \/ More \/ OpenExport
         \/ DrainCursor \/ Disconnect \/ CancelTab \/ Shutdown
         \/ CancelStep \/ PollEvent \/ StopExport \/ \E c \in cancels : SendCancel(c)
  PROVE  TypeOK'
<1> USE Typed
<1>1. CASE Run
  <2>1. ui.execution + 1 \in Number
    BY <1>1 DEF Run, Number
  <2>2. ui' \in UiStates
    BY <1>1, <2>1, CursorFacts DEF Run, Start, TypeOK, UiStates
  <2>3. commands' \in Seq(CommandTypes)
    BY <1>1, <2>1, CommandTyped DEF Run
  <2>4. cancels' \subseteq [target: Targets, current: BOOLEAN]
    BY <1>1, Superseded DEF Run
  <2> QED
    BY <1>1, <2>2, <2>3, <2>4 DEF Run, TypeOK, workerState, history
<1>2. CASE RunExport
  <2>1. ui.execution + 1 \in Number
    BY <1>2 DEF RunExport, Number
  <2>2. ui' \in UiStates
    BY <1>2, <2>1, CursorFacts DEF RunExport, Start, TypeOK, UiStates
  <2>3. commands' \in Seq(CommandTypes)
    <3>1. PICK e \in {0, worker.session} :
            commands' = Append(commands, Command("export", ui.execution + 1, 0, e))
      BY <1>2 DEF RunExport
    <3>2. e \in Number
      BY <3>1
    <3>3. Append(commands, Command("export", ui.execution + 1, 0, e)) \in Seq(CommandTypes)
      BY <2>1, <3>2, CommandTyped
    <3> QED
      BY <3>1, <3>3
  <2>4. cancels' \subseteq [target: Targets, current: BOOLEAN]
    BY <1>2, Superseded DEF RunExport
  <2> QED
    BY <1>2, <2>1, <2>2, <2>3, <2>4 DEF RunExport, TypeOK, workerState, history
<1>3. CASE More
  <2>2. ui' \in UiStates
    BY <1>3 DEF More, TypeOK, UiStates
  <2>3. commands' \in Seq(CommandTypes)
    BY <1>3, CommandTyped DEF More, Send
  <2>4. cancels' \subseteq [target: Targets, current: BOOLEAN]
    BY <1>3, Superseded DEF More
  <2> QED
    BY <1>3, <2>2, <2>3, <2>4 DEF More, TypeOK, workerState, history
<1>4. CASE DrainCursor
  <2>2. ui' \in UiStates
    BY <1>4 DEF DrainCursor, TypeOK, UiStates
  <2>3. commands' \in Seq(CommandTypes)
    <3>1. ui.snapshot \in Nat /\ ui.execution \in Number
      BY <1>4 DEF DrainCursor, TypeOK, UiStates
    <3> QED
      BY <1>4, <3>1, CommandTyped DEF DrainCursor
  <2> QED
    BY <1>4, <2>2, <2>3 DEF DrainCursor, TypeOK, workerState, history
<1>15. CASE OpenExport
  <2>2. ui' \in UiStates
    BY <1>15 DEF OpenExport, TypeOK, UiStates
  <2> QED
    BY <1>15, <2>2 DEF OpenExport, TypeOK, workerState, history
<1>5. CASE Disconnect
  <2>2. ui' \in UiStates
    BY <1>5 DEF Disconnect, TypeOK, UiStates
  <2>3. commands' \in Seq(CommandTypes)
    BY <1>5, CommandTyped DEF Disconnect, Send
  <2>4. cancels' \subseteq [target: Targets, current: BOOLEAN]
    BY <1>5, Superseded DEF Disconnect
  <2> QED
    BY <1>5, <2>2, <2>3, <2>4 DEF Disconnect, TypeOK, workerState, history
<1>6. CASE CancelTab
  <2>2. ui' \in UiStates
    BY <1>6, PcFacts DEF CancelTab, TypeOK, UiStates
  <2> QED
    BY <1>6, <2>2 DEF CancelTab, TypeOK, workerState, history
<1>7. CASE Shutdown
  <2>2. ui' \in UiStates
    BY <1>7, PcFacts DEF Shutdown, TypeOK, UiStates
  <2>3. <<>> \in Seq(EventTypes)
    OBVIOUS
  <2> QED
    BY <1>7, <2>2, <2>3 DEF Shutdown, TypeOK, history
<1>8. CASE CancelDownload
  <2>2. ui' \in UiStates
    BY <1>8, PcFacts DEF CancelDownload, AfterCancel, TypeOK, UiStates
  <2> QED
    BY <1>8, <2>2 DEF CancelDownload, TypeOK, workerState, history
<1>9. CASE CancelFlag
  <2>2. ui' \in UiStates
    BY <1>9, PcFacts DEF CancelFlag, TypeOK, UiStates
  <2> QED
    BY <1>9, <2>2 DEF CancelFlag, TypeOK, workerState
<1>10. CASE CancelTarget
  <2>2. ui' \in UiStates
    BY <1>10, PcFacts DEF CancelTarget, AfterCancel, TypeOK, UiStates
  <2>3. cancels' \subseteq [target: Targets, current: BOOLEAN]
    <3>1. [target |-> target, current |-> TRUE] \in [target: Targets, current: BOOLEAN]
      BY DEF TypeOK
    <3> QED
      BY <1>10, <3>1 DEF CancelTarget, TypeOK
  <2> QED
    BY <1>10, <2>2, <2>3 DEF CancelTarget, TypeOK, workerState, history
<1>11. CASE SendShutdown
  <2>2. ui' \in UiStates
    BY <1>11, PcFacts DEF SendShutdown, TypeOK, UiStates
  <2>3. commands' \in Seq(CommandTypes)
    BY <1>11, CommandTyped DEF SendShutdown, Send
  <2> QED
    BY <1>11, <2>2, <2>3 DEF SendShutdown, TypeOK, workerState, history
<1>12. CASE PollEvent
  <2>1. Head(events) \in EventTypes /\ Tail(events) \in Seq(EventTypes)
    BY <1>12 DEF PollEvent, TypeOK
  <2> DEFINE v == Apply(ui, Head(events))
  <2>2. v \in UiStates
    BY <2>1, ApplyFacts DEF Applied, TypeOK
  <2>3. ui' = [v EXCEPT !.pc = IF Tail(events) = <<>> THEN "ready" ELSE "events"]
    BY <1>12 DEF PollEvent
  <2> HIDE DEF v
  <2>4. ui' \in UiStates
    BY <2>2, <2>3, PcFacts DEF UiStates
  <2> QED
    BY <1>12, <2>1, <2>4 DEF PollEvent, TypeOK, history
<1>13. CASE StopExport
  <2>1. commands' \in Seq(CommandTypes) /\ exportCancel' \subseteq Number
    <3>1. \A i \in 1..Len(commands) : commands[i] \in CommandTypes
      BY DEF TypeOK
    <3>2. CASE UNCHANGED commands
      BY <1>13, <3>1, <3>2 DEF StopExport, TypeOK, CommandTypes
    <3>3. ASSUME NEW i \in 1..Len(commands),
                 commands' = [commands EXCEPT ![i].stopped = TRUE], UNCHANGED exportCancel
          PROVE  commands' \in Seq(CommandTypes) /\ exportCancel' \subseteq Number
      <4> DEFINE c == [commands[i] EXCEPT !.stopped = TRUE]
      <4>1. c \in CommandTypes
        BY <3>1 DEF CommandTypes
      <4>2. commands' = [commands EXCEPT ![i] = c]
        BY <3>3
      <4> HIDE DEF c
      <4>3. commands' \in Seq(CommandTypes)
        BY <4>1, <4>2, ExceptSeq DEF TypeOK
      <4> QED
        BY <3>3, <4>3 DEF TypeOK
    <3> QED
      BY <1>13, <3>2, <3>3 DEF StopExport
  <2> QED
    BY <1>13, <2>1 DEF StopExport, TypeOK, workerState, history
<1>14. ASSUME NEW c \in cancels, SendCancel(c) PROVE TypeOK'
  <2>1. c.target \in Targets
    BY DEF TypeOK
  <2>2. events' \in Seq(EventTypes)
    BY <1>14, EventFacts, One, EmitTyped DEF SendCancel, Silent, TypeOK
  <2>3. asked' \subseteq Targets /\ cancels' \subseteq [target: Targets, current: BOOLEAN]
    BY <1>14, <2>1 DEF SendCancel, TypeOK
  <2> QED
    BY <1>14, <2>2, <2>3 DEF SendCancel, TypeOK, tabState
<1> QED
  BY <1>1, <1>2, <1>3, <1>4, <1>5, <1>6, <1>7, <1>8, <1>9, <1>10, <1>11, <1>12, <1>13, <1>14, <1>15
     DEF CancelStep

\* What the worker's own state and the channel become, in types.
StepTyped ==
  /\ worker' \in WorkerStates
  /\ op' \in [x: Number, total: 0..MaxRows, served: 0..MaxRows]
  /\ target' \in Targets
  /\ events' \in Seq(EventTypes)

LEMMA DownTyped ==
  ASSUME TypeOK, NEW pc \in WorkerPcs
  PROVE  [Disconnected EXCEPT !.pc = pc] \in WorkerStates
  BY DisconnectedTyped, AtPc

LEMMA CloseTyped ==
  ASSUME TypeOK, CloseOperation
  PROVE  /\ op' \in [x: Number, total: 0..MaxRows, served: 0..MaxRows]
         /\ target' \in Targets
  BY Typed, NoOpTyped DEF CloseOperation, NoTarget

LEMMA FailTyped ==
  ASSUME TypeOK, Fail
  PROVE  StepTyped
<1>1. PICK d \in BOOLEAN : /\ worker' = [IF d THEN Disconnected ELSE worker EXCEPT !.pc = "idle"]
                           /\ Emit(<<ErrorEvent(d)>>)
  BY DEF Fail
<1>2. worker' \in WorkerStates
  <2>1. (IF d THEN Disconnected ELSE worker) \in WorkerStates
    BY DisconnectedTyped DEF TypeOK
  <2> QED
    BY <1>1, <2>1, AtPc, PcFacts
<1>3. events' \in Seq(EventTypes)
  BY <1>1, EventFacts, One, EmitTyped
<1> QED
  BY <1>2, <1>3, CloseTyped DEF Fail, StepTyped

LEMMA FinishCancelledTyped ==
  ASSUME TypeOK, FinishCancelled
  PROVE  StepTyped
<1>1. worker' \in WorkerStates
  BY Typed, PcFacts, CursorFacts DEF FinishCancelled, TypeOK, WorkerStates
<1>2. events' \in Seq(EventTypes)
  BY EventFacts, One, EmitTyped DEF FinishCancelled
<1> QED
  BY <1>1, <1>2, CloseTyped DEF FinishCancelled, StepTyped

LEMMA FailKeepAliveTyped ==
  ASSUME TypeOK, FailKeepAlive
  PROVE  StepTyped
<1> DEFINE w == Disconnected
<1>1. w \in WorkerStates
  BY DisconnectedTyped
<1>2. worker' = [w EXCEPT !.pc = "idle", !.kept = NoTarget]
  BY DEF FailKeepAlive
<1> HIDE DEF w
<1>3. worker' \in WorkerStates
  BY <1>1, <1>2, Typed, PcFacts DEF WorkerStates, NoTarget
<1>4. events' \in Seq(EventTypes)
  BY EventFacts, One, EmitTyped DEF FailKeepAlive
<1> QED
  BY <1>3, <1>4, CloseTyped DEF FailKeepAlive, StepTyped

LEMMA FailDownloadTyped ==
  ASSUME TypeOK, NEW x \in Number, NEW pending \in Nat, FailDownload(x, pending)
  PROVE  StepTyped /\ download' \in Number /\ exportCancel' \subseteq Number
<1>1. PICK d \in BOOLEAN :
        /\ worker' = [IF d THEN Disconnected ELSE [worker EXCEPT !.pending = pending]
                        EXCEPT !.pc = "idle", !.cursor = "consumed"]
        /\ Emit(<<CursorEvent("consumed"), FailedEvent(x, TRUE, d)>>)
  BY DEF FailDownload
<1>2. worker' \in WorkerStates
  <2> DEFINE w == IF d THEN Disconnected ELSE [worker EXCEPT !.pending = pending]
  <2>1. [worker EXCEPT !.pending = pending] \in WorkerStates
    BY DEF TypeOK, WorkerStates
  <2>2. w \in WorkerStates
    BY <2>1, DisconnectedTyped
  <2>3. worker' = [w EXCEPT !.pc = "idle", !.cursor = "consumed"]
    BY <1>1
  <2> HIDE DEF w
  <2> QED
    BY <2>2, <2>3, PcFacts, CursorFacts DEF WorkerStates
<1>3. events' \in Seq(EventTypes)
  BY <1>1, EventFacts, CursorFacts, Two, EmitTyped
<1>4. download' \in Number /\ exportCancel' \subseteq Number
  BY Typed DEF FailDownload, EndDownload, TypeOK
<1> QED
  BY <1>2, <1>3, <1>4, CloseTyped DEF FailDownload, StepTyped

LEMMA WorkerTyped ==
  ASSUME TypeOK, RowsInv, WorkerStep
  PROVE  TypeOK'
<1>1. CASE TakeRun
  <2>1. worker' \in WorkerStates
    BY <1>1, TakeTyped, PcFacts, CursorFacts DEF TakeRun, TypeOK, WorkerStates
  <2>2. events' \in Seq(EventTypes)
    BY <1>1 DEF TakeRun, Silent, TypeOK
  <2>3. op' \in [x: Number, total: 0..MaxRows, served: 0..MaxRows] /\ target' \in Targets
    BY <1>1 DEF TakeRun, TypeOK
  <2> QED
    BY <1>1, <2>1, <2>2, <2>3, TakeTyped DEF TakeRun, TypeOK, Unchanging, history
<1>2. CASE PrepareSession
  <2>1. worker' \in WorkerStates
    BY <1>2, DownTyped, PcFacts DEF PrepareSession, TypeOK, WorkerTo, WorkerStates
  <2>2. events' \in Seq(EventTypes)
    BY <1>2, EventFacts, One, EmitTyped DEF PrepareSession, Silent, TypeOK
  <2>3. op' \in [x: Number, total: 0..MaxRows, served: 0..MaxRows] /\ target' \in Targets
    BY <1>2, CloseTyped DEF PrepareSession, TypeOK
  <2> QED
    BY <1>2, <2>1, <2>2, <2>3 DEF PrepareSession, TypeOK, Unchanging, history
<1>3. CASE Connect
  <2>1. worker' \in WorkerStates
    BY <1>3, PcFacts, CloseTyped, FailTyped, FinishCancelledTyped, FailKeepAliveTyped DEF
       Connect, TypeOK, WorkerTo, StepTyped, WorkerStates
  <2>2. events' \in Seq(EventTypes)
    BY <1>3, EventFacts, One, EmitTyped, FailTyped DEF Connect, StepTyped
  <2>3. op' \in [x: Number, total: 0..MaxRows, served: 0..MaxRows] /\ target' \in Targets
    BY <1>3, CloseTyped, FailTyped DEF Connect, TypeOK, StepTyped
  <2> QED
    BY <1>3, <2>1, <2>2, <2>3 DEF Connect, TypeOK, Unchanging, history
<1>4. CASE ReportSignInCancelled
  <2>1. worker' \in WorkerStates
    BY <1>4, PcFacts DEF ReportSignInCancelled, TypeOK, WorkerTo, WorkerStates
  <2>2. events' \in Seq(EventTypes)
    BY <1>4, EventFacts, One, EmitTyped DEF ReportSignInCancelled
  <2>3. op' \in [x: Number, total: 0..MaxRows, served: 0..MaxRows] /\ target' \in Targets
    BY <1>4 DEF ReportSignInCancelled, TypeOK
  <2> QED
    BY <1>4, <2>1, <2>2, <2>3 DEF ReportSignInCancelled, TypeOK, Unchanging, history
<1>5. CASE CheckCancelled
  <2>1. worker' \in WorkerStates
    <3>1. CASE cancelled
      BY <1>5, <3>1, PcFacts DEF CheckCancelled, TypeOK, WorkerTo, WorkerStates
    <3>2. CASE ~cancelled
      BY <1>5, <3>2, PcFacts DEF CheckCancelled, TypeOK, WorkerTo, WorkerStates
    <3> QED
      BY <3>1, <3>2
  <2>2. events' \in Seq(EventTypes)
    BY <1>5, EventFacts, One, EmitTyped DEF CheckCancelled
  <2> QED
    BY <1>5, <2>1, <2>2 DEF CheckCancelled, TypeOK, Unchanging, history
<1>6. CASE ClearTarget
  <2>1. worker' \in WorkerStates
    BY <1>6, PcFacts DEF ClearTarget, TypeOK, WorkerTo, WorkerStates
  <2>2. events' \in Seq(EventTypes)
    BY <1>6 DEF ClearTarget, Silent, TypeOK
  <2>3. op' \in [x: Number, total: 0..MaxRows, served: 0..MaxRows] /\ target' \in Targets
    BY <1>6, Typed DEF ClearTarget, TypeOK, NoTarget
  <2> QED
    BY <1>6, <2>1, <2>2, <2>3 DEF ClearTarget, TypeOK, Unchanging, history
<1>7. CASE Execute
  <2>1. worker' \in WorkerStates
    BY <1>7, PcFacts, FailTyped DEF Execute, TypeOK, WorkerTo, StepTyped, WorkerStates
  <2>2. events' \in Seq(EventTypes)
    BY <1>7, FailTyped DEF Execute, Silent, TypeOK, StepTyped
  <2>3. op' \in [x: Number, total: 0..MaxRows, served: 0..MaxRows] /\ target' \in Targets
    BY <1>7, Typed, PcFacts, FailTyped, FinishCancelledTyped, FailKeepAliveTyped DEF
       Execute, TypeOK, StepTyped
  <2> QED
    BY <1>7, <2>1, <2>2, <2>3 DEF Execute, TypeOK, Unchanging
<1>8. CASE PublishTarget
  <2>1. worker' \in WorkerStates
    BY <1>8, PcFacts DEF PublishTarget, TypeOK, WorkerTo, WorkerStates
  <2>2. events' \in Seq(EventTypes)
    BY <1>8 DEF PublishTarget, Silent, TypeOK
  <2>3. op' \in [x: Number, total: 0..MaxRows, served: 0..MaxRows] /\ target' \in Targets
    BY <1>8, Typed DEF PublishTarget, TypeOK
  <2> QED
    BY <1>8, <2>1, <2>2, <2>3 DEF PublishTarget, TypeOK, Unchanging, history
<1>9. CASE CatchCancel
  <2>1. worker' \in WorkerStates
    BY <1>9, PcFacts, FailTyped DEF CatchCancel, TypeOK, WorkerTo, StepTyped, WorkerStates
  <2>2. events' \in Seq(EventTypes)
    BY <1>9, FailTyped DEF CatchCancel, Silent, TypeOK, StepTyped
  <2>3. op' \in [x: Number, total: 0..MaxRows, served: 0..MaxRows] /\ target' \in Targets
    BY <1>9, FailTyped DEF CatchCancel, TypeOK, StepTyped
  <2> QED
    BY <1>9, <2>1, <2>2, <2>3, Typed DEF CatchCancel, TypeOK, Unchanging
<1>10. CASE PollResult
  <2>1. worker' \in WorkerStates
    BY <1>10, Typed, PcFacts, CloseTyped, FailTyped, FinishCancelledTyped,
       FailKeepAliveTyped DEF PollResult, TypeOK, WorkerTo, StepTyped, WorkerStates
  <2>2. events' \in Seq(EventTypes)
    BY <1>10, EventFacts, One, EmitTyped, FailTyped DEF PollResult, Silent, TypeOK,
       StepTyped
  <2>3. op' \in [x: Number, total: 0..MaxRows, served: 0..MaxRows] /\ target' \in Targets
    BY <1>10, CloseTyped, FailTyped DEF PollResult, TypeOK, StepTyped
  <2> QED
    BY <1>10, <2>1, <2>2, <2>3 DEF PollResult, TypeOK, Unchanging, history
<1>11. CASE TakeMore
  <2>1. worker' \in WorkerStates
    <3>1. CASE worker.pending > 0
      BY <1>11, <3>1, CursorFacts DEF TakeMore, TypeOK, WorkerStates
    <3>2. CASE ~(worker.pending > 0)
      BY <1>11, <3>2, Typed, PcFacts DEF TakeMore, TypeOK, WorkerStates
    <3> QED
      BY <3>1, <3>2
  <2>2. events' \in Seq(EventTypes)
    BY <1>11, EventFacts, Two, EmitTyped, CursorFacts DEF TakeMore, Silent, TypeOK
  <2> QED
    BY <1>11, <2>1, <2>2, TakeTyped DEF TakeMore, TypeOK, Unchanging, history
<1>12. CASE Fetch
  <2>1. StepTyped
    <3>1. ASSUME NEW m \in 0..worker.wanted, m <= op.total - op.served,
                 worker' = [worker EXCEPT !.pc = "fetched", !.batch = m],
                 op' = [op EXCEPT !.served = @ + m], Silent, UNCHANGED target
          PROVE  StepTyped
      <4>1. m \in Nat
        OBVIOUS
      <4>2. worker' \in WorkerStates
        BY <3>1, <4>1, PcFacts DEF TypeOK, WorkerStates
      <4>3. op.served + m \in 0..MaxRows
        BY <3>1, <4>1, Typed
      <4>4. op' \in [x: Number, total: 0..MaxRows, served: 0..MaxRows]
        BY <3>1, <4>3 DEF TypeOK
      <4> QED
        BY <3>1, <4>2, <4>4 DEF StepTyped, Silent, TypeOK
    <3> QED
      BY <1>12, <3>1, FailTyped, FinishCancelledTyped DEF Fetch
  <2> QED
    BY <1>12, <2>1 DEF Fetch, TypeOK, Unchanging, history, StepTyped
<1>13. CASE ShowPage
  <2>1. StepTyped
    <3>1. ASSUME EndPage PROVE StepTyped
      <4>1. worker' \in WorkerStates
        BY <3>1, PcFacts, CursorFacts DEF EndPage, TypeOK, WorkerStates
      <4>2. events' \in Seq(EventTypes)
        BY <3>1, EventFacts, Two, EmitTyped, CursorFacts DEF EndPage
      <4> QED
        BY <3>1, <4>1, <4>2, CloseTyped DEF EndPage, StepTyped, TypeOK
    <3>2. ASSUME ContinuePage PROVE StepTyped
      <4>1. worker.rows + worker.batch \in Nat /\ worker.wanted - worker.batch \in Nat
        BY <1>13, Typed DEF RowsInv, ShowPage
      <4> DEFINE rows == worker.rows + worker.batch
                 wanted == worker.wanted - worker.batch
                 w == [worker EXCEPT !.rows = rows, !.wanted = wanted, !.batch = 0]
                 pc == IF Shown.wanted > 0 THEN "fetch" ELSE "paged"
      <4>2. w \in WorkerStates
        <5> HIDE DEF rows, wanted
        <5> QED
          BY <4>1 DEF TypeOK, WorkerStates, rows, wanted
      <4>3. Shown = w
        BY DEF Shown
      <4>4. pc \in WorkerPcs
        BY PcFacts
      <4>5. worker' = [w EXCEPT !.pc = pc]
        BY <3>2, <4>3 DEF ContinuePage
      <4> HIDE DEF w, pc
      <4>6. worker' \in WorkerStates
        BY <4>2, <4>4, <4>5, AtPc
      <4>7. events' \in Seq(EventTypes)
        BY <3>2, EventFacts, One, EmitTyped DEF ContinuePage
      <4> QED
        BY <3>2, <4>6, <4>7 DEF ContinuePage, StepTyped, TypeOK
    <3> QED
      BY <1>13, <3>1, <3>2, FailTyped, FinishCancelledTyped DEF ShowPage
  <2> QED
    BY <1>13, <2>1 DEF ShowPage, TypeOK, Unchanging, history, StepTyped
<1>14. CASE FinishPage
  <2>1. worker' \in WorkerStates
    BY <1>14, PcFacts, CursorFacts, FailTyped, FinishCancelledTyped DEF FinishPage, TypeOK,
       StepTyped, WorkerStates
  <2>2. events' \in Seq(EventTypes)
    BY <1>14, EventFacts, Two, EmitTyped, CursorFacts, FailTyped, FinishCancelledTyped DEF
       FinishPage, StepTyped
  <2>3. op' \in [x: Number, total: 0..MaxRows, served: 0..MaxRows] /\ target' \in Targets
    BY <1>14, FailTyped, FinishCancelledTyped DEF FinishPage, TypeOK, StepTyped
  <2> QED
    BY <1>14, <2>1, <2>2, <2>3 DEF FinishPage, TypeOK, Unchanging, history
<1>15. CASE RefuseDrain
  <2>1. worker' \in WorkerStates
    BY <1>15 DEF RefuseDrain, TypeOK
  <2>2. events' \in Seq(EventTypes)
    BY <1>15, EventFacts, One, EmitTyped, TakeTyped DEF RefuseDrain
  <2>3. op' \in [x: Number, total: 0..MaxRows, served: 0..MaxRows] /\ target' \in Targets
    BY <1>15 DEF RefuseDrain, TypeOK
  <2> QED
    BY <1>15, <2>1, <2>2, <2>3, TakeTyped DEF RefuseDrain, TypeOK, Unchanging, history
<1>16. CASE BindDrain
  <2>1. worker' \in WorkerStates
    BY <1>16, TakeTyped, PcFacts, CursorFacts DEF BindDrain, TypeOK, WorkerStates
  <2>2. events' \in Seq(EventTypes)
    BY <1>16, EventFacts, One, EmitTyped, CursorFacts DEF BindDrain
  <2>3. op' \in [x: Number, total: 0..MaxRows, served: 0..MaxRows] /\ target' \in Targets
    BY <1>16 DEF BindDrain, TypeOK
  <2> QED
    BY <1>16, <2>1, <2>2, <2>3, TakeTyped, Typed DEF BindDrain, TypeOK, Unchanging, history
<1>17. CASE CompleteDrain
  <2>1. PICK shown \in 0..Least(op.total, Limit) :
          /\ shown >= worker.rows
          /\ worker' = [worker EXCEPT !.pc = "idle", !.cursor = "downloaded",
                                      !.pending = 0, !.rows = shown]
          /\ Emit(<<[kind |-> "previewRows", x |-> worker.x, rows |-> shown - worker.rows],
                    CursorEvent("downloaded"), [kind |-> "downloaded", x |-> worker.x]>>)
    BY <1>17 DEF CompleteDrain
  <2>2. shown \in Nat /\ shown - worker.rows \in Nat
    BY <2>1, Typed
  <2>3. worker' \in WorkerStates
    BY <2>1, <2>2, PcFacts, CursorFacts DEF TypeOK, WorkerStates
  <2>4. events' \in Seq(EventTypes)
    BY <2>1, <2>2, EventFacts, Three, EmitTyped, CursorFacts
  <2> QED
    BY <1>17, <2>3, <2>4, Typed, CloseTyped DEF CompleteDrain, TypeOK, Unchanging,
       EndDownload
<1>18. CASE FailDrain
  BY <1>18, FailDownloadTyped, Typed DEF FailDrain, TypeOK, Unchanging, history, StepTyped
<1>19. CASE RefuseExport
  <2>1. worker' \in WorkerStates
    BY <1>19 DEF RefuseExport, TypeOK
  <2>2. events' \in Seq(EventTypes)
    BY <1>19, EventFacts, One, EmitTyped, TakeTyped DEF RefuseExport
  <2>3. op' \in [x: Number, total: 0..MaxRows, served: 0..MaxRows] /\ target' \in Targets
    BY <1>19 DEF RefuseExport, TypeOK
  <2> QED
    BY <1>19, <2>1, <2>2, <2>3, TakeTyped, Typed DEF RefuseExport, TypeOK, Unchanging,
       history, EndDownload
<1>20. CASE DropExport
  BY <1>20, FailDownloadTyped, TakeTyped, Typed DEF DropExport, TypeOK, Unchanging, history,
     StepTyped
<1>21. CASE TakeExport
  <2>1. worker' \in WorkerStates
    BY <1>21, TakeTyped, PcFacts, CursorFacts DEF TakeExport, TypeOK, WorkerStates
  <2>2. events' \in Seq(EventTypes)
    BY <1>21 DEF TakeExport, Silent, TypeOK
  <2>3. op' \in [x: Number, total: 0..MaxRows, served: 0..MaxRows] /\ target' \in Targets
    BY <1>21 DEF TakeExport, TypeOK
  <2> QED
    BY <1>21, <2>1, <2>2, <2>3, TakeTyped DEF TakeExport, TypeOK, Unchanging, history
<1>22. CASE ExportFails
  BY <1>22, FailDownloadTyped, Typed DEF ExportFails, TypeOK, Unchanging, StepTyped
<1>23. CASE PrepareExport
  <2>1. worker' \in WorkerStates
    BY <1>23, DownTyped, PcFacts DEF PrepareExport, TypeOK, WorkerTo, WorkerStates
  <2>2. events' \in Seq(EventTypes)
    BY <1>23, EventFacts, One, EmitTyped DEF PrepareExport, Silent, TypeOK
  <2>3. op' \in [x: Number, total: 0..MaxRows, served: 0..MaxRows] /\ target' \in Targets
    BY <1>23, CloseTyped DEF PrepareExport, TypeOK
  <2> QED
    BY <1>23, <2>1, <2>2, <2>3 DEF PrepareExport, TypeOK, Unchanging, history
<1>24. CASE ConnectExport
  <2>1. worker' \in WorkerStates
    BY <1>24, PcFacts DEF ConnectExport, TypeOK, WorkerStates
  <2>2. events' \in Seq(EventTypes)
    BY <1>24, EventFacts, One, EmitTyped DEF ConnectExport
  <2>3. op' \in [x: Number, total: 0..MaxRows, served: 0..MaxRows] /\ target' \in Targets
    BY <1>24 DEF ConnectExport, TypeOK
  <2> QED
    BY <1>24, <2>1, <2>2, <2>3 DEF ConnectExport, TypeOK, Unchanging, history
<1>25. CASE ClearExport
  <2>1. worker' \in WorkerStates
    BY <1>25, PcFacts DEF ClearExport, TypeOK, WorkerTo, WorkerStates
  <2>2. events' \in Seq(EventTypes)
    BY <1>25, EventFacts, One, EmitTyped DEF ClearExport
  <2>3. op' \in [x: Number, total: 0..MaxRows, served: 0..MaxRows] /\ target' \in Targets
    BY <1>25, Typed DEF ClearExport, TypeOK, NoTarget
  <2> QED
    BY <1>25, <2>1, <2>2, <2>3 DEF ClearExport, TypeOK, Unchanging, history
<1>26. CASE ExecuteExport
  <2>1. worker' \in WorkerStates
    BY <1>26, Typed, PcFacts DEF ExecuteExport, TypeOK, WorkerStates
  <2>2. events' \in Seq(EventTypes)
    BY <1>26 DEF ExecuteExport, Silent, TypeOK
  <2>3. op' \in [x: Number, total: 0..MaxRows, served: 0..MaxRows] /\ target' \in Targets
    BY <1>26, Typed DEF ExecuteExport, TypeOK
  <2> QED
    BY <1>26, <2>1, <2>2, <2>3 DEF ExecuteExport, TypeOK, Unchanging, history
<1>27. CASE BindExport
  <2>1. worker' \in WorkerStates
    <3>1. worker' = [worker EXCEPT !.pc = "exportPoll"] /\ "exportPoll" \in WorkerPcs
      BY <1>27, PcFacts DEF BindExport, WorkerTo
    <3>2. worker \in WorkerStates
      BY DEF TypeOK
    <3> QED
      BY <3>1, <3>2, AtPc
  <2>2. events' \in Seq(EventTypes)
    BY <1>27 DEF BindExport, Silent, TypeOK
  <2>3. op' \in [x: Number, total: 0..MaxRows, served: 0..MaxRows] /\ target' \in Targets
    <3>1. UNCHANGED op /\ target' = worker.x
      BY <1>27 DEF BindExport
    <3>2. worker.x \in Targets
      BY Typed
    <3> QED
      BY <3>1, <3>2 DEF TypeOK
  <2> QED
    BY <1>27, <2>1, <2>2, <2>3 DEF BindExport, TypeOK, Unchanging, history
<1>28. CASE PollExport
  <2>1. worker' \in WorkerStates
    BY <1>28, Typed, PcFacts, CursorFacts DEF PollExport, TypeOK, WorkerStates
  <2>2. events' \in Seq(EventTypes)
    BY <1>28, EventFacts, One, Two, EmitTyped, CursorFacts DEF PollExport
  <2>3. op' \in [x: Number, total: 0..MaxRows, served: 0..MaxRows] /\ target' \in Targets
    BY <1>28, CloseTyped DEF PollExport, TypeOK
  <2> QED
    BY <1>28, <2>1, <2>2, <2>3, Typed DEF PollExport, TypeOK, Unchanging, history,
       EndDownload
<1>29. CASE TakeDisconnect
  <2>1. worker' \in WorkerStates
    BY <1>29, DisconnectedTyped DEF TakeDisconnect
  <2>2. events' \in Seq(EventTypes)
    BY <1>29, EventFacts, One, EmitTyped DEF TakeDisconnect
  <2>3. op' \in [x: Number, total: 0..MaxRows, served: 0..MaxRows] /\ target' \in Targets
    BY <1>29, CloseTyped DEF TakeDisconnect
  <2> QED
    BY <1>29, <2>1, <2>2, <2>3, TakeTyped DEF TakeDisconnect, TypeOK, Unchanging, history
<1>30. CASE TakeShutdown
  <2>1. worker' \in WorkerStates
    BY <1>30, DownTyped, PcFacts DEF TakeShutdown
  <2>2. events' \in Seq(EventTypes)
    BY <1>30 DEF TakeShutdown, Silent, TypeOK
  <2>3. op' \in [x: Number, total: 0..MaxRows, served: 0..MaxRows] /\ target' \in Targets
    BY <1>30, CloseTyped DEF TakeShutdown
  <2> QED
    BY <1>30, <2>1, <2>2, <2>3, TakeTyped DEF TakeShutdown, TypeOK, Unchanging, history
<1>31. CASE ExpireIdle
  <2>1. worker' \in WorkerStates
    BY <1>31, PcFacts DEF ExpireIdle, TypeOK, WorkerTo, WorkerStates
  <2>2. events' \in Seq(EventTypes)
    BY <1>31 DEF ExpireIdle, Silent, TypeOK
  <2>3. op' \in [x: Number, total: 0..MaxRows, served: 0..MaxRows] /\ target' \in Targets
    BY <1>31 DEF ExpireIdle, TypeOK
  <2> QED
    BY <1>31, <2>1, <2>2, <2>3 DEF ExpireIdle, TypeOK, Unchanging, history
<1>32. CASE Maintain
  <2>1. worker' \in WorkerStates
    BY <1>32, DownTyped, PcFacts DEF Maintain, TypeOK, WorkerTo, WorkerStates
  <2>2. events' \in Seq(EventTypes)
    BY <1>32, EventFacts, One, EmitTyped DEF Maintain, Silent, TypeOK
  <2>3. op' \in [x: Number, total: 0..MaxRows, served: 0..MaxRows] /\ target' \in Targets
    BY <1>32, CloseTyped DEF Maintain, TypeOK
  <2> QED
    BY <1>32, <2>1, <2>2, <2>3 DEF Maintain, TypeOK, Unchanging, history
<1>33. CASE ResetCancelled
  <2>1. worker' \in WorkerStates
    BY <1>33, PcFacts DEF ResetCancelled, TypeOK, WorkerTo, WorkerStates
  <2>2. events' \in Seq(EventTypes)
    BY <1>33, EventFacts, One, EmitTyped DEF ResetCancelled
  <2>3. op' \in [x: Number, total: 0..MaxRows, served: 0..MaxRows] /\ target' \in Targets
    BY <1>33 DEF ResetCancelled, TypeOK
  <2> QED
    BY <1>33, <2>1, <2>2, <2>3 DEF ResetCancelled, TypeOK, Unchanging, history
<1>34. CASE StartKeepAlive
  <2>1. worker' \in WorkerStates
    BY <1>34, Typed, PcFacts, FailTyped, FinishCancelledTyped, FailKeepAliveTyped DEF
       StartKeepAlive, TypeOK, StepTyped, WorkerStates
  <2>2. events' \in Seq(EventTypes)
    BY <1>34, FailKeepAliveTyped DEF StartKeepAlive, Silent, TypeOK, StepTyped
  <2>3. op' \in [x: Number, total: 0..MaxRows, served: 0..MaxRows] /\ target' \in Targets
    BY <1>34, Typed, FailKeepAliveTyped DEF StartKeepAlive, TypeOK, StepTyped, NoTarget
  <2> QED
    BY <1>34, <2>1, <2>2, <2>3 DEF StartKeepAlive, TypeOK, Unchanging, history
<1>35. CASE ExecuteKeepAlive
  <2>1. worker' \in WorkerStates
    BY <1>35, Typed, PcFacts, FailTyped, FinishCancelledTyped DEF ExecuteKeepAlive, TypeOK,
       WorkerStates
  <2>2. events' \in Seq(EventTypes)
    BY <1>35 DEF ExecuteKeepAlive, Silent, TypeOK
  <2>3. op' \in [x: Number, total: 0..MaxRows, served: 0..MaxRows] /\ target' \in Targets
    BY <1>35 DEF ExecuteKeepAlive, TypeOK
  <2> QED
    BY <1>35, <2>1, <2>2, <2>3 DEF ExecuteKeepAlive, TypeOK, Unchanging
<1>36. CASE PublishKeepAlive
  <2>1. worker' \in WorkerStates
    BY <1>36, PcFacts DEF PublishKeepAlive, TypeOK, WorkerTo, WorkerStates
  <2>2. events' \in Seq(EventTypes)
    BY <1>36 DEF PublishKeepAlive, Silent, TypeOK
  <2>3. op' \in [x: Number, total: 0..MaxRows, served: 0..MaxRows] /\ target' \in Targets
    BY <1>36, Typed DEF PublishKeepAlive, TypeOK
  <2> QED
    BY <1>36, <2>1, <2>2, <2>3 DEF PublishKeepAlive, TypeOK, Unchanging, history
<1>37. CASE CatchKeepAlive
  <2>1. worker' \in WorkerStates
    BY <1>37, Typed, PcFacts, FailTyped, FinishCancelledTyped DEF CatchKeepAlive, TypeOK,
       WorkerTo, WorkerStates
  <2>2. events' \in Seq(EventTypes)
    BY <1>37 DEF CatchKeepAlive, Silent, TypeOK
  <2>3. op' \in [x: Number, total: 0..MaxRows, served: 0..MaxRows] /\ target' \in Targets
    BY <1>37 DEF CatchKeepAlive, TypeOK
  <2> QED
    BY <1>37, <2>1, <2>2, <2>3, Typed DEF CatchKeepAlive, TypeOK, Unchanging
<1>38. CASE WaitKeepAlive
  <2>1. worker' \in WorkerStates
    BY <1>38, Typed, PcFacts DEF WaitKeepAlive, TypeOK, WorkerStates
  <2>2. events' \in Seq(EventTypes)
    BY <1>38 DEF WaitKeepAlive, Silent, TypeOK
  <2>3. op' \in [x: Number, total: 0..MaxRows, served: 0..MaxRows] /\ target' \in Targets
    BY <1>38 DEF WaitKeepAlive, TypeOK
  <2> QED
    BY <1>38, <2>1, <2>2, <2>3 DEF WaitKeepAlive, TypeOK, Unchanging, history
<1>39. CASE CloseKeepAlive
  <2>1. CASE FailKeepAlive
    BY <1>39, <2>1, FailKeepAliveTyped DEF CloseKeepAlive, TypeOK, Unchanging, history,
       StepTyped
  <2>2. CASE ~FailKeepAlive
    <3>1. worker' = [worker EXCEPT !.pc = "idle", !.kept = NoTarget] /\ target' = worker.kept
          /\ Emit(<<Kind("keepAliveFinished")>>) /\ UNCHANGED op
      BY <1>39, <2>2 DEF CloseKeepAlive, RestoreTarget
    <3>2. worker' \in WorkerStates
      BY <3>1, Typed, PcFacts DEF TypeOK, WorkerStates, NoTarget
    <3>3. events' \in Seq(EventTypes)
      BY <3>1, EventFacts, One, EmitTyped
    <3> QED
      BY <1>39, <3>1, <3>2, <3>3, Typed DEF CloseKeepAlive, TypeOK, Unchanging, history
  <2> QED
    BY <2>1, <2>2
<1> QED
  BY <1>1, <1>2, <1>3, <1>4, <1>5, <1>6, <1>7, <1>8, <1>9, <1>10, <1>11, <1>12, <1>13,
     <1>14, <1>15, <1>16, <1>17, <1>18, <1>19, <1>20, <1>21, <1>22, <1>23, <1>24, <1>25, <1>26,
     <1>27, <1>28, <1>29, <1>30, <1>31, <1>32, <1>33, <1>34, <1>35, <1>36, <1>37, <1>38, <1>39
     DEF WorkerStep

\* A command that ends early closes its operation.
LEMMA EndsClosed ==
  ASSUME TypeOK
  PROVE  /\ Fail \/ FinishCancelled \/ FailKeepAlive => worker'.pc = "idle" /\ CloseOperation
         /\ \A x, pending : FailDownload(x, pending) => worker'.pc = "idle" /\ CloseOperation
  BY DEF TypeOK, WorkerStates, Fail, FinishCancelled, FailKeepAlive, FailDownload,
     Disconnected

LEMMA DownPc ==
  ASSUME TypeOK, NEW pc
  PROVE  [Disconnected EXCEPT !.pc = pc].pc = pc
  BY DEF TypeOK, WorkerStates, Disconnected

LEMMA Closed ==
  ASSUME CloseOperation,
         worker'.pc \in {"idle", "ended", "connect", "signInCancelled", "exportConnect"}
  PROVE  TargetInv' /\ RowsInv'
  BY DEF CloseOperation, TargetInv, TargetIsBound, RowsInv, KeepAlivePcs, NoOp, NoTarget,
     WorkerAt

\* A step that leaves the operation and the target alone, from a state where the two
\* agree to another one.
LEMMA SameTarget ==
  ASSUME TargetInv, UNCHANGED <<op, target>>,
         worker.pc \notin {"execute", "publish", "exportExecute", "exportBind"} \cup KeepAlivePcs,
         worker'.pc \notin {"publish", "exportBind"} \cup (KeepAlivePcs \ {"keepAlive"})
  PROVE  TargetInv'
  BY DEF TargetInv, TargetIsBound


LEMMA TargetStep ==
  ASSUME TypeOK, TargetInv, WorkerStep
  PROVE  TargetInv'
<1>1. CASE TakeRun
  BY <1>1 DEF TakeRun, WorkerAt, Take, TargetInv, TargetIsBound, KeepAlivePcs
<1>2. CASE PrepareSession
  <2>1. CASE CloseOperation /\ worker'.pc = "connect"
    BY <2>1, Closed
  <2>2. CASE UNCHANGED <<op, target>> /\ worker'.pc = "check"
    BY <1>2, <2>2 DEF PrepareSession, WorkerAt, TargetInv, TargetIsBound, KeepAlivePcs
  <2>3. \/ CloseOperation /\ worker'.pc = "connect"
        \/ UNCHANGED <<op, target>> /\ worker'.pc = "check"
    BY <1>2, DownPc DEF PrepareSession, WorkerTo, TypeOK, WorkerStates
  <2> QED
    BY <2>1, <2>2, <2>3
<1>3. CASE Connect
  BY <1>3, EndsClosed, Closed DEF Connect, WorkerTo, WorkerAt, TargetInv, TargetIsBound,
     KeepAlivePcs, TypeOK, WorkerStates
<1>4. CASE ReportSignInCancelled
  BY <1>4 DEF ReportSignInCancelled, WorkerTo, WorkerAt, TargetInv, TargetIsBound,
     KeepAlivePcs
<1>5. CASE CheckCancelled
  <2>1. worker.pc = "check" /\ worker'.pc \in {"idle", "clear"} /\ UNCHANGED <<op, target>>
    BY <1>5 DEF CheckCancelled, WorkerTo, WorkerAt, TypeOK, WorkerStates
  <2> QED
    BY <2>1 DEF TargetInv, TargetIsBound, KeepAlivePcs
<1>6. CASE ClearTarget
  BY <1>6 DEF ClearTarget, WorkerTo, TargetInv, TargetIsBound, KeepAlivePcs
<1>7. CASE Execute
  BY <1>7, EndsClosed, Closed, DownPc DEF Execute, WorkerTo, TargetInv, TargetIsBound,
     KeepAlivePcs, TypeOK, WorkerStates
<1>8. CASE PublishTarget
  BY <1>8 DEF PublishTarget, WorkerTo, WorkerAt, TargetInv, TargetIsBound, KeepAlivePcs
<1>9. CASE CatchCancel
  BY <1>9, EndsClosed, Closed DEF CatchCancel, WorkerTo, WorkerAt, TargetInv, TargetIsBound,
     KeepAlivePcs, TypeOK, WorkerStates
<1>10. CASE PollResult
  BY <1>10, EndsClosed, Closed DEF PollResult, WorkerTo, WorkerAt, TargetInv, TargetIsBound,
     KeepAlivePcs, TypeOK, WorkerStates
<1>11. CASE TakeMore
  BY <1>11 DEF TakeMore, WorkerAt, Take, TargetInv, TargetIsBound, KeepAlivePcs, TypeOK,
     WorkerStates
<1>12. CASE Fetch
  BY <1>12, EndsClosed, Closed DEF Fetch, WorkerAt, TargetInv, TargetIsBound, KeepAlivePcs,
     TypeOK, WorkerStates
<1>13. CASE ShowPage
  <2>1. CASE FinishCancelled \/ Fail
    BY <2>1, EndsClosed, Closed
  <2>2. CASE EndPage
    <3>1. worker'.pc = "idle" /\ (CloseOperation \/ UNCHANGED <<op, target>>)
      BY <2>2 DEF EndPage, TypeOK, WorkerStates
    <3> QED
      BY <1>13, <3>1, Closed DEF ShowPage, WorkerAt, TargetInv, TargetIsBound, KeepAlivePcs
  <2>3. CASE ContinuePage
    <3>1. worker'.pc \in {"fetch", "paged"} /\ UNCHANGED <<op, target>>
      BY <2>3 DEF ContinuePage
    <3> QED
      BY <1>13, <3>1 DEF ShowPage, WorkerAt, TargetInv, TargetIsBound, KeepAlivePcs
  <2> QED
    BY <1>13, <2>1, <2>2, <2>3 DEF ShowPage
<1>14. CASE FinishPage
  BY <1>14, EndsClosed, Closed DEF FinishPage, WorkerAt, TargetInv, TargetIsBound,
     KeepAlivePcs, TypeOK, WorkerStates
<1>15. CASE RefuseDrain
  BY <1>15 DEF RefuseDrain, TargetInv, TargetIsBound
<1>16. CASE BindDrain
  BY <1>16 DEF BindDrain, WorkerAt, Take, TargetInv, TargetIsBound, KeepAlivePcs
<1>17. CASE CompleteDrain
  BY <1>17, Closed DEF CompleteDrain
<1>18. CASE FailDrain
  BY <1>18, EndsClosed, Closed DEF FailDrain
<1>19. CASE RefuseExport
  BY <1>19 DEF RefuseExport, TargetInv, TargetIsBound
<1>20. CASE DropExport
  BY <1>20, EndsClosed, Closed DEF DropExport
<1>21. CASE TakeExport
  BY <1>21 DEF TakeExport, WorkerAt, Take, TargetInv, TargetIsBound, KeepAlivePcs
<1>22. CASE ExportFails
  BY <1>22, EndsClosed, Closed DEF ExportFails
<1>23. CASE PrepareExport
  <2>1. CASE worker' = [Disconnected EXCEPT !.pc = "exportConnect"] /\ CloseOperation
    <3>1. worker'.pc = "exportConnect"
      BY <2>1
    <3> QED
      BY <2>1, <3>1, Closed
  <2>2. CASE worker' = [worker EXCEPT !.pc = "exportClear"] /\ UNCHANGED <<op, target>>
    <3>1. worker'.pc = "exportClear"
      BY <2>2
    <3> QED
      BY <1>23, <2>2, <3>1 DEF PrepareExport, ExportStep, WorkerAt, TargetInv,
         TargetIsBound, KeepAlivePcs
  <2> QED
    BY <1>23, <2>1, <2>2 DEF PrepareExport, WorkerTo
<1>24. CASE ConnectExport
  BY <1>24 DEF ConnectExport, WorkerAt, TargetInv, TargetIsBound, KeepAlivePcs
<1>25. CASE ClearExport
  BY <1>25 DEF ClearExport, WorkerTo, TargetInv, TargetIsBound, KeepAlivePcs
<1>26. CASE ExecuteExport
  BY <1>26 DEF ExecuteExport, TargetInv, TargetIsBound, KeepAlivePcs
<1>27. CASE BindExport
  BY <1>27 DEF BindExport, WorkerTo, WorkerAt, ExportStep, TargetInv, TargetIsBound,
     KeepAlivePcs
<1>28. CASE PollExport
  BY <1>28, Closed DEF PollExport, WorkerAt, ExportStep, TargetInv, TargetIsBound,
     KeepAlivePcs, TypeOK, WorkerStates
<1>29. CASE TakeDisconnect
  <2>1. worker'.pc = "idle"
    BY <1>29 DEF TakeDisconnect, Take, WorkerAt, Disconnected
  <2> QED
    BY <1>29, <2>1, Closed DEF TakeDisconnect
<1>30. CASE TakeShutdown
  BY <1>30, Closed DEF TakeShutdown
<1>31. CASE ExpireIdle
  BY <1>31 DEF ExpireIdle, WorkerTo, WorkerAt, TargetInv, TargetIsBound, KeepAlivePcs
<1>32. CASE Maintain
  <2>1. CASE worker' = [Disconnected EXCEPT !.pc = "idle"] /\ CloseOperation
    <3>1. worker'.pc = "idle"
      BY <2>1
    <3> QED
      BY <2>1, <3>1, Closed
  <2>2. CASE worker' = [worker EXCEPT !.pc = "idle"] /\ UNCHANGED <<op, target>>
    <3>1. worker'.pc = "idle"
      BY <2>2
    <3> QED
      BY <1>32, <2>2, <3>1 DEF Maintain, WorkerAt, TargetInv, TargetIsBound, KeepAlivePcs
  <2>3. CASE worker' = [worker EXCEPT !.pc = "reset"] /\ UNCHANGED <<op, target>>
    <3>1. worker'.pc = "reset"
      BY <2>3
    <3> QED
      BY <1>32, <2>3, <3>1 DEF Maintain, WorkerAt, TargetInv, TargetIsBound, KeepAlivePcs
  <2> QED
    BY <1>32, <2>1, <2>2, <2>3 DEF Maintain, WorkerTo
<1>33. CASE ResetCancelled
  BY <1>33 DEF ResetCancelled, WorkerTo, WorkerAt, TargetInv, TargetIsBound, KeepAlivePcs
<1>34. CASE StartKeepAlive
  <2>1. CASE FailKeepAlive
    BY <2>1, EndsClosed, Closed
  <2>2. CASE /\ worker' = [worker EXCEPT !.pc = "keepExecute", !.kept = target,
                                         !.failed = FALSE]
             /\ op' = op
    <3>1. worker'.pc = "keepExecute" /\ worker'.kept = target
      BY <2>2 DEF TypeOK, WorkerStates
    <3> QED
      BY <1>34, <2>2, <3>1 DEF StartKeepAlive, WorkerAt, TargetInv, TargetIsBound, KeepAlivePcs
  <2> QED
    BY <1>34, <2>1, <2>2 DEF StartKeepAlive
<1>35. CASE ExecuteKeepAlive
  BY <1>35 DEF ExecuteKeepAlive, WorkerAt, TargetInv, TargetIsBound, KeepAlivePcs
<1>36. CASE PublishKeepAlive
  BY <1>36 DEF PublishKeepAlive, WorkerTo, WorkerAt, TargetInv, TargetIsBound, KeepAlivePcs
<1>37. CASE CatchKeepAlive
  BY <1>37 DEF CatchKeepAlive, WorkerTo, WorkerAt, TargetInv, TargetIsBound, KeepAlivePcs,
     TypeOK, WorkerStates
<1>38. CASE WaitKeepAlive
  BY <1>38 DEF WaitKeepAlive, WorkerAt, TargetInv, TargetIsBound, KeepAlivePcs
<1>39. CASE CloseKeepAlive
  <2>1. CASE FailKeepAlive
    BY <2>1, EndsClosed, Closed
  <2>2. CASE worker'.pc = "idle" /\ target' = worker.kept /\ UNCHANGED op
    BY <1>39, <2>2 DEF CloseKeepAlive, WorkerAt, TargetInv, TargetIsBound, KeepAlivePcs
  <2> QED
    BY <1>39, <2>1, <2>2 DEF CloseKeepAlive, RestoreTarget, TypeOK, WorkerStates
<1> QED
  BY <1>1, <1>2, <1>3, <1>4, <1>5, <1>6, <1>7, <1>8, <1>9, <1>10, <1>11, <1>12, <1>13,
     <1>14, <1>15, <1>16, <1>17, <1>18, <1>19, <1>20, <1>21, <1>22, <1>23, <1>24, <1>25, <1>26,
     <1>27, <1>28, <1>29, <1>30, <1>31, <1>32, <1>33, <1>34, <1>35, <1>36, <1>37, <1>38, <1>39
     DEF WorkerStep

LEMMA RowsStep ==
  ASSUME TypeOK, RowsInv, WorkerStep
  PROVE  RowsInv'
<1>1. CASE TakeRun
  BY <1>1 DEF TakeRun, WorkerAt, RowsInv
<1>2. CASE PrepareSession
  BY <1>2, Closed, DownPc DEF PrepareSession, WorkerTo, WorkerAt, RowsInv, TypeOK,
     WorkerStates
<1>3. CASE Connect
  BY <1>3, EndsClosed, Closed DEF Connect, WorkerTo, WorkerAt, RowsInv, TypeOK, WorkerStates
<1>4. CASE ReportSignInCancelled
  BY <1>4 DEF ReportSignInCancelled, WorkerTo, WorkerAt, RowsInv
<1>5. CASE CheckCancelled
  BY <1>5 DEF CheckCancelled, WorkerTo, WorkerAt, RowsInv, TypeOK, WorkerStates
<1>6. CASE ClearTarget
  BY <1>6 DEF ClearTarget, WorkerTo, WorkerAt, RowsInv
<1>7. CASE Execute
  BY <1>7, EndsClosed, Closed DEF Execute, WorkerTo, WorkerAt, RowsInv, TypeOK, WorkerStates
<1>8. CASE PublishTarget
  BY <1>8 DEF PublishTarget, WorkerTo, WorkerAt, RowsInv
<1>9. CASE CatchCancel
  BY <1>9, EndsClosed, Closed DEF CatchCancel, WorkerTo, WorkerAt, RowsInv, TypeOK,
     WorkerStates
<1>10. CASE PollResult
  BY <1>10, EndsClosed, Closed DEF PollResult, WorkerTo, WorkerAt, RowsInv, TypeOK,
     WorkerStates
<1>11. CASE TakeMore
  BY <1>11 DEF TakeMore, WorkerAt, RowsInv, TypeOK, WorkerStates
<1>12. CASE Fetch
  <2>1. CASE FinishCancelled \/ Fail
    BY <2>1, EndsClosed, Closed
  <2>2. ASSUME NEW n \in 0..worker.wanted, n <= op.total - op.served,
               worker' = [worker EXCEPT !.pc = "fetched", !.batch = n],
               op' = [op EXCEPT !.served = @ + n]
        PROVE  RowsInv'
    BY <2>2 DEF RowsInv, TypeOK
  <2> QED
    BY <1>12, <2>1, <2>2 DEF Fetch
<1>13. CASE ShowPage
  <2>1. CASE FinishCancelled \/ Fail
    BY <2>1, EndsClosed, Closed
  <2>2. CASE EndPage
    <3>1. worker'.pc = "idle" /\ (CloseOperation \/ UNCHANGED <<op, target>>)
      BY <2>2 DEF EndPage, TypeOK, WorkerStates
    <3> QED
      BY <1>13, <3>1, Closed DEF WorkerAt, RowsInv
  <2>3. CASE ContinuePage
    <3>1. worker'.pc \in {"fetch", "paged"} /\ UNCHANGED <<op, target>>
      BY <2>3 DEF ContinuePage
    <3> QED
      BY <1>13, <3>1 DEF WorkerAt, RowsInv
  <2> QED
    BY <1>13, <2>1, <2>2, <2>3 DEF ShowPage
<1>14. CASE FinishPage
  BY <1>14, EndsClosed, Closed DEF FinishPage, WorkerAt, RowsInv, TypeOK, WorkerStates
<1>15. CASE RefuseDrain
  BY <1>15 DEF RefuseDrain, WorkerAt, RowsInv
<1>16. CASE BindDrain
  BY <1>16 DEF BindDrain, WorkerAt, RowsInv
<1>17. CASE CompleteDrain
  BY <1>17, Closed DEF CompleteDrain
<1>18. CASE FailDrain
  BY <1>18, EndsClosed, Closed DEF FailDrain
<1>19. CASE RefuseExport
  BY <1>19 DEF RefuseExport, WorkerAt, RowsInv
<1>20. CASE DropExport
  BY <1>20, EndsClosed, Closed DEF DropExport
<1>21. CASE TakeExport
  BY <1>21 DEF TakeExport, WorkerAt, RowsInv
<1>22. CASE ExportFails
  BY <1>22, EndsClosed, Closed DEF ExportFails
<1>23. CASE PrepareExport
  BY <1>23, Typed, EndsClosed, Closed, DownPc DEF PrepareExport, WorkerTo, WorkerAt,
     RowsInv, TypeOK, WorkerStates
<1>24. CASE ConnectExport
  BY <1>24 DEF ConnectExport, WorkerAt, RowsInv
<1>25. CASE ClearExport
  BY <1>25 DEF ClearExport, WorkerTo, WorkerAt, RowsInv
<1>26. CASE ExecuteExport
  BY <1>26 DEF ExecuteExport, WorkerAt, RowsInv
<1>27. CASE BindExport
  BY <1>27 DEF BindExport, WorkerTo, WorkerAt, RowsInv
<1>28. CASE PollExport
  BY <1>28, Closed DEF PollExport, WorkerAt, RowsInv, TypeOK, WorkerStates
<1>29. CASE TakeDisconnect
  <2>1. worker'.pc = "idle"
    BY <1>29 DEF TakeDisconnect, Take, WorkerAt, Disconnected
  <2> QED
    BY <1>29, <2>1, Closed DEF TakeDisconnect
<1>30. CASE TakeShutdown
  BY <1>30, Closed DEF TakeShutdown
<1>31. CASE ExpireIdle
  BY <1>31 DEF ExpireIdle, WorkerTo, WorkerAt, RowsInv
<1>32. CASE Maintain
  BY <1>32, Closed, DownPc DEF Maintain, WorkerTo, WorkerAt, RowsInv, TypeOK, WorkerStates
<1>33. CASE ResetCancelled
  BY <1>33 DEF ResetCancelled, WorkerTo, WorkerAt, RowsInv
<1>34. CASE StartKeepAlive
  BY <1>34, EndsClosed, Closed DEF StartKeepAlive, WorkerAt, RowsInv, TypeOK, WorkerStates
<1>35. CASE ExecuteKeepAlive
  BY <1>35 DEF ExecuteKeepAlive, WorkerAt, RowsInv
<1>36. CASE PublishKeepAlive
  BY <1>36 DEF PublishKeepAlive, WorkerTo, WorkerAt, RowsInv
<1>37. CASE CatchKeepAlive
  BY <1>37 DEF CatchKeepAlive, WorkerTo, WorkerAt, RowsInv, TypeOK, WorkerStates
<1>38. CASE WaitKeepAlive
  BY <1>38 DEF WaitKeepAlive, WorkerAt, RowsInv
<1>39. CASE CloseKeepAlive
  BY <1>39, EndsClosed, Closed DEF CloseKeepAlive, WorkerAt, RowsInv, TypeOK, WorkerStates
<1> QED
  BY <1>1, <1>2, <1>3, <1>4, <1>5, <1>6, <1>7, <1>8, <1>9, <1>10, <1>11, <1>12, <1>13,
     <1>14, <1>15, <1>16, <1>17, <1>18, <1>19, <1>20, <1>21, <1>22, <1>23, <1>24, <1>25, <1>26,
     <1>27, <1>28, <1>29, <1>30, <1>31, <1>32, <1>33, <1>34, <1>35, <1>36, <1>37, <1>38, <1>39
     DEF WorkerStep

LEMMA EndsExport ==
  ASSUME TypeOK, Fail \/ FinishCancelled
  PROVE  ExportInv'
  BY EndsClosed DEF ExportInv, WorkerAt

LEMMA ExportStepKeeps ==
  ASSUME TypeOK, ExportInv, WorkerStep
  PROVE  ExportInv'
<1>1. CASE TakeRun
  BY <1>1 DEF TakeRun, WorkerAt, ExportInv
<1>2. CASE PrepareSession
  BY <1>2 DEF PrepareSession, WorkerTo, WorkerAt, Disconnected, ExportInv, TypeOK,
     WorkerStates
<1>3. CASE Connect
  <2>1. CASE Fail \/ FinishCancelled
    BY <2>1, EndsExport
  <2>2. CASE ~(Fail \/ FinishCancelled)
    BY <1>3, <2>2 DEF Connect, WorkerTo, WorkerAt, ExportInv, TypeOK, WorkerStates
  <2> QED
    BY <2>1, <2>2
<1>4. CASE ReportSignInCancelled
  BY <1>4 DEF ReportSignInCancelled, WorkerTo, WorkerAt, ExportInv
<1>5. CASE CheckCancelled
  BY <1>5 DEF CheckCancelled, WorkerTo, WorkerAt, ExportInv, TypeOK, WorkerStates
<1>6. CASE ClearTarget
  BY <1>6 DEF ClearTarget, WorkerTo, WorkerAt, ExportInv
<1>7. CASE Execute
  BY <1>7 DEF Execute, WorkerTo, WorkerAt, Fail, Disconnected, ExportInv, TypeOK,
     WorkerStates
<1>8. CASE PublishTarget
  BY <1>8 DEF PublishTarget, WorkerTo, WorkerAt, ExportInv
<1>9. CASE CatchCancel
  <2>1. CASE Fail \/ FinishCancelled
    BY <2>1, EndsExport
  <2>2. CASE ~(Fail \/ FinishCancelled)
    BY <1>9, <2>2 DEF CatchCancel, WorkerTo, WorkerAt, ExportInv, TypeOK, WorkerStates
  <2> QED
    BY <2>1, <2>2
<1>10. CASE PollResult
  <2>1. CASE Fail \/ FinishCancelled
    BY <2>1, EndsExport
  <2>2. CASE ~(Fail \/ FinishCancelled)
    BY <1>10, <2>2 DEF PollResult, WorkerTo, WorkerAt, ExportInv, TypeOK, WorkerStates
  <2> QED
    BY <2>1, <2>2
<1>11. CASE TakeMore
  BY <1>11 DEF TakeMore, WorkerAt, ExportInv, TypeOK, WorkerStates
<1>12. CASE Fetch
  <2>1. CASE Fail \/ FinishCancelled
    BY <2>1, EndsExport
  <2>2. CASE ~(Fail \/ FinishCancelled)
    BY <1>12, <2>2 DEF Fetch, WorkerAt, ExportInv, TypeOK, WorkerStates
  <2> QED
    BY <2>1, <2>2
<1>13. CASE ShowPage
  <2>1. CASE FinishCancelled \/ Fail
    BY <2>1, Typed DEF FinishCancelled, Fail, Disconnected, WorkerAt, ExportInv, TypeOK,
       WorkerStates
  <2>2. CASE EndPage
    BY <2>2 DEF EndPage, WorkerAt, ExportInv, TypeOK, WorkerStates
  <2>3. CASE ContinuePage
    BY <2>3 DEF ContinuePage, WorkerAt, ExportInv
  <2> QED
    BY <1>13, <2>1, <2>2, <2>3 DEF ShowPage
<1>14. CASE FinishPage
  <2>1. CASE Fail \/ FinishCancelled
    BY <2>1, EndsExport
  <2>2. CASE ~(Fail \/ FinishCancelled)
    BY <1>14, <2>2 DEF FinishPage, WorkerAt, ExportInv, TypeOK, WorkerStates
  <2> QED
    BY <2>1, <2>2
<1>15. CASE RefuseDrain
  BY <1>15 DEF RefuseDrain, WorkerAt, ExportInv
<1>16. CASE BindDrain
  BY <1>16 DEF BindDrain, WorkerAt, ExportInv
<1>17. CASE CompleteDrain
  BY <1>17 DEF CompleteDrain, WorkerAt, ExportInv
<1>18. CASE FailDrain
  BY <1>18 DEF FailDrain, WorkerAt, FailDownload, ExportInv
<1>19. CASE RefuseExport
  BY <1>19 DEF RefuseExport, WorkerAt, ExportInv
<1>20. CASE DropExport
  BY <1>20 DEF DropExport, WorkerAt, FailDownload, ExportInv
<1>21. CASE TakeExport
  BY <1>21 DEF TakeExport, WorkerAt, SessionKept, ExportInv
<1>22. CASE ExportFails
  BY <1>22 DEF ExportFails, WorkerAt, FailDownload, ExportInv
<1>23. CASE PrepareExport
  BY <1>23 DEF PrepareExport, WorkerTo, WorkerAt, Disconnected, ExportStep, ExportInv,
     TypeOK, WorkerStates
<1>24. CASE ConnectExport
  BY <1>24 DEF ConnectExport, ExportInv
<1>25. CASE ClearExport
  BY <1>25 DEF ClearExport, WorkerTo, WorkerAt, ExportStep, ExportInv
<1>26. CASE ExecuteExport
  BY <1>26 DEF ExecuteExport, ExportInv
<1>27. CASE BindExport
  BY <1>27 DEF BindExport, WorkerTo, WorkerAt, ExportInv
<1>28. CASE PollExport
  BY <1>28 DEF PollExport, WorkerAt, ExportInv, TypeOK, WorkerStates
<1>29. CASE TakeDisconnect
  BY <1>29 DEF TakeDisconnect, WorkerAt, Disconnected, Take, ExportInv
<1>30. CASE TakeShutdown
  BY <1>30 DEF TakeShutdown, WorkerAt, ExportInv
<1>31. CASE ExpireIdle
  BY <1>31 DEF ExpireIdle, WorkerTo, WorkerAt, ExportInv
<1>32. CASE Maintain
  BY <1>32 DEF Maintain, WorkerTo, WorkerAt, Disconnected, ExportInv, TypeOK, WorkerStates
<1>33. CASE ResetCancelled
  BY <1>33 DEF ResetCancelled, WorkerTo, WorkerAt, ExportInv
<1>34. CASE StartKeepAlive
  BY <1>34 DEF StartKeepAlive, WorkerAt, FailKeepAlive, Disconnected, ExportInv, TypeOK,
     WorkerStates
<1>35. CASE ExecuteKeepAlive
  BY <1>35 DEF ExecuteKeepAlive, WorkerAt, ExportInv
<1>36. CASE PublishKeepAlive
  BY <1>36 DEF PublishKeepAlive, WorkerTo, WorkerAt, ExportInv
<1>37. CASE CatchKeepAlive
  BY <1>37 DEF CatchKeepAlive, WorkerTo, WorkerAt, ExportInv, TypeOK, WorkerStates
<1>38. CASE WaitKeepAlive
  BY <1>38 DEF WaitKeepAlive, WorkerAt, ExportInv
<1>39. CASE CloseKeepAlive
  BY <1>39 DEF CloseKeepAlive, WorkerAt, FailKeepAlive, Disconnected, ExportInv, TypeOK,
     WorkerStates
<1> QED
  BY <1>1, <1>2, <1>3, <1>4, <1>5, <1>6, <1>7, <1>8, <1>9, <1>10, <1>11, <1>12, <1>13,
     <1>14, <1>15, <1>16, <1>17, <1>18, <1>19, <1>20, <1>21, <1>22, <1>23, <1>24, <1>25, <1>26,
     <1>27, <1>28, <1>29, <1>30, <1>31, <1>32, <1>33, <1>34, <1>35, <1>36, <1>37, <1>38, <1>39
     DEF WorkerStep

LEMMA UserStill ==
  ASSUME \/ Run \/ RunExport \/ More \/ OpenExport
         \/ DrainCursor \/ Disconnect \/ CancelTab \/ Shutdown
         \/ CancelStep \/ PollEvent \/ StopExport \/ \E c \in cancels : SendCancel(c)
  PROVE  UNCHANGED <<worker, op, target>>
  BY DEF Run, RunExport, More, OpenExport, DrainCursor, Disconnect, CancelTab, Shutdown, CancelStep,
     CancelDownload, CancelFlag, CancelTarget, SendShutdown, PollEvent, StopExport, SendCancel,
     workerState

LEMMA TabInit == Init => TabIInv
<1> SUFFICES ASSUME Init PROVE TabIInv
  OBVIOUS
<1>1. ui \in UiStates
  BY PcFacts, CursorFacts, TabAssumption, NoOpTyped DEF UiStates, Number, Init
<1>2. worker \in WorkerStates
  BY PcFacts, CursorFacts, TabAssumption, NoOpTyped DEF WorkerStates, Number, Targets,
     NoTarget, Init
<1>3. commands \in Seq(CommandTypes) /\ events \in Seq(EventTypes)
  BY TabAssumption, NoOpTyped DEF Init
<1>4. cancels \subseteq [target: Targets, current: BOOLEAN]
  BY TabAssumption, NoOpTyped DEF Init
<1>5. TypeOK
  BY <1>1, <1>2, <1>3, <1>4, TabAssumption, NoOpTyped DEF TypeOK, Number, Targets, NoTarget,
     Init
<1> QED
  BY <1>5, TabAssumption, NoOpTyped DEF TabIInv, TargetInv, TargetIsBound, KeepAlivePcs,
     RowsInv, ExportInv, WorkerAt, NoOp, NoTarget, Init

LEMMA TabNext == TabIInv /\ [Next]_vars => TabIInv'
<1> SUFFICES ASSUME TabIInv, [Next]_vars PROVE TabIInv'
  OBVIOUS
<1>1. CASE WorkerStep
  BY <1>1, WorkerTyped, TargetStep, RowsStep, ExportStepKeeps DEF TabIInv
<1>2. CASE \/ Run \/ RunExport \/ More \/ OpenExport
           \/ DrainCursor \/ Disconnect \/ CancelTab \/ Shutdown
           \/ CancelStep \/ PollEvent \/ StopExport \/ \E c \in cancels : SendCancel(c)
  <2>1. TypeOK'
    BY <1>2, UserTyped DEF TabIInv
  <2>2. TargetInv' /\ RowsInv' /\ ExportInv'
    BY <1>2, UserStill DEF TabIInv, TargetInv, TargetIsBound, RowsInv, ExportInv, WorkerAt
  <2> QED
    BY <2>1, <2>2 DEF TabIInv
<1>3. CASE UNCHANGED vars
  BY <1>3 DEF vars, tabState, history, TabIInv, TypeOK, TargetInv, TargetIsBound, RowsInv,
     ExportInv, WorkerAt
<1> QED
  BY <1>1, <1>2, <1>3 DEF Next, Finished

LEMMA TabAlways == Spec => []TabIInv
  BY TabInit, TabNext, PTL DEF Spec

\* The tab is typed, and the shared cancellation target is the open operation or nothing
\* whenever no operation starts and no keep-alive runs: a cancel reaches the operation
\* that is open, also after a keep-alive, a failed fetch or a cancelled setup.
THEOREM TabCorrect == Spec => []TabInv
  <1>1. TabIInv => TabInv
    BY DEF TabIInv, TabInv, TargetInv
  <1> QED
    BY <1>1, TabAlways, PTL

\* An export that was reviewed for a session runs in that session, whatever the idle timer
\* and the other commands do before the worker takes it.
THEOREM ExportStaysInSession == Spec => []ExportKeepsSession
  <1>1. TabIInv => ExportKeepsSession
    BY DEF TabIInv, ExportInv, ExportKeepsSession, WorkerAt
  <1> QED
    BY <1>1, TabAlways, PTL

-----------------------------------------------------------------------------
(* The invariant of a tab whose connection needs no maintenance            *)

\* The idle timer does not interfere, and no sign-in is cancelled in the browser: a
\* connection whose policy does nothing when idle, which signs in without a browser.
NoMaintenance == MaxIdle = 0 /\ BrowserAuth = FALSE

CalmInv ==
  /\ idles = 0
  /\ worker.pc \in {"idle", "ended"} \cup (CommandPcs \ {"signInCancelled"})

OnlyCancelErrors(first) == \A i \in first..Len(events) : events[i].kind = "cancelError"

Unanswered(last) == \A i \in 1..last : ~Ends(events[i])

\* One command at a time: there is none, it is queued, the worker works at it, or its end
\* is reported and the tab has not seen it yet.
Quiet ==
  /\ ui.busy = FALSE
  /\ commands = <<>>
  /\ worker.pc = "idle"
  /\ OnlyCancelErrors(1)

Queued ==
  /\ ui.busy = TRUE
  /\ Len(commands) = 1
  /\ commands[1].kind # "shutdown"
  /\ worker.pc = "idle"
  /\ Unanswered(Len(events))

Working ==
  /\ ui.busy = TRUE
  /\ commands = <<>>
  /\ worker.pc \notin {"idle", "ended"}
  /\ Unanswered(Len(events))

Answered ==
  /\ ui.busy = TRUE
  /\ commands = <<>>
  /\ worker.pc = "idle"
  /\ \E n \in 1..Len(events) :
       /\ Ends(events[n])
       /\ Concerns(events[n], ui.execution)
       /\ Unanswered(n - 1)
       /\ OnlyCancelErrors(n + 1)

PhaseInv ==
  /\ stopped = TRUE \/ Quiet \/ Queued \/ Working \/ Answered
  /\ ui.pc \in {"send", "closed"} => stopped = TRUE

\* The channel carries rows of the execution that the tab shows.
ChannelInv ==
  \A i \in 1..Len(events) :
    /\ events[i].kind # "keepAliveFinished"
    /\ events[i].kind = "rows" => events[i].x = ui.execution

Aligned == worker.x = ui.execution /\ worker.cursor = "available"

\* More is offered only for the cursor of the worker's own execution.
MoreInv ==
  stopped = FALSE =>
    /\ ui.more = TRUE /\ ui.busy = FALSE => Aligned
    /\ \A i \in 1..Len(events) :
         /\ events[i].kind = "ready" /\ events[i].more = TRUE => Aligned
         /\ events[i].kind = "downloadFailed" /\ events[i].consumed = FALSE /\ ui.more = TRUE
              => Aligned
    /\ \A i \in 1..Len(commands) :
         /\ commands[i].kind = "drain" /\ ui.more = TRUE => Aligned
         /\ commands[i].kind = "export" => ui.more = FALSE

\* Also while the tab shuts down, a command waits for an idle worker.
QueueInv ==
  \A i \in 1..Len(commands) :
    commands[i].kind # "shutdown" =>
      /\ i = 1
      /\ worker.pc = "idle"
      /\ commands[i].x = ui.execution
      /\ commands[i].kind = "run" => commands[i].x # 0
      /\ commands[i].kind = "more" => Aligned

SubmittingPcs == {"prepare", "connect", "check", "clear", "execute"}

WorkInv ==
  /\ worker.pc \notin {"idle", "ended"} => worker.x = ui.execution
  /\ worker.pc \in SubmittingPcs \cup {"publish", "catch", "poll"} => worker.x # 0
  /\ worker.pc \in {"publish", "catch", "poll"} => op.x = worker.x

\* A requested cancel that has not reached the server is still in the flag.
RequestInv ==
  /\ \A x \in requested : x <= ui.execution
  /\ \A i \in 1..Len(commands) :
       commands[i].kind = "run" /\ commands[i].x \in requested => cancelled = TRUE
  /\ worker.pc \in SubmittingPcs \cup {"publish", "catch"} /\ worker.x \in requested =>
       cancelled = TRUE

ExportPcs == {"exportPrepare", "exportConnect", "exportClear", "exportExecute",
              "exportBind", "exportPoll"}

\* What the operation delivered is shown, pending, just fetched or counted by the drain.
CountInv ==
  /\ worker.pc \in SubmittingPcs \cup ExportPcs =>
       worker.rows = 0 /\ worker.pending = 0 /\ worker.cursor = "unavailable"
  /\ worker.pc \in {"exportBind", "exportPoll"} => op.served = 0
  /\ op.x # 0 =>
       /\ worker.pc = "idle" /\ worker.cursor = "available" =>
            worker.rows + worker.pending = op.served
       /\ worker.pc \in {"publish", "catch", "poll", "fetch", "paged"} =>
            worker.rows = op.served /\ worker.pending = 0
       /\ worker.pc = "fetched" =>
            worker.rows + worker.batch = op.served /\ worker.pending = 0
       /\ worker.pc = "drain" => worker.batch + worker.pending = op.served

OrderInv == TabIInv /\ CalmInv /\ PhaseInv /\ ChannelInv /\ MoreInv /\ QueueInv /\ WorkInv
              /\ RequestInv /\ CountInv

-----------------------------------------------------------------------------
(* The worker's steps                                                      *)

\* The steps that remain without maintenance.
CalmStep ==
  \/ TakeRun
  \/ PrepareSession
  \/ Connect
  \/ CheckCancelled
  \/ ClearTarget
  \/ Execute
  \/ PublishTarget
  \/ CatchCancel
  \/ PollResult
  \/ TakeMore
  \/ Fetch
  \/ ShowPage
  \/ FinishPage
  \/ RefuseDrain
  \/ BindDrain
  \/ CompleteDrain
  \/ FailDrain
  \/ RefuseExport
  \/ DropExport
  \/ TakeExport
  \/ ExportFails
  \/ PrepareExport
  \/ ConnectExport
  \/ ClearExport
  \/ ExecuteExport
  \/ BindExport
  \/ PollExport
  \/ TakeDisconnect
  \/ TakeShutdown

LEMMA OnlyCalmSteps ==
  ASSUME NoMaintenance, CalmInv, WorkerStep
  PROVE  CalmStep
<1>1. ~ReportSignInCancelled
  BY DEF NoMaintenance, CalmInv, CommandPcs, WorkerAt, ReportSignInCancelled
<1>2. ~ExpireIdle
  BY DEF NoMaintenance, CalmInv, CommandPcs, WorkerAt, ExpireIdle
<1>3. ~Maintain
  BY DEF NoMaintenance, CalmInv, CommandPcs, WorkerAt, Maintain
<1>4. ~ResetCancelled
  BY DEF NoMaintenance, CalmInv, CommandPcs, WorkerAt, ResetCancelled
<1>5. ~StartKeepAlive
  BY DEF NoMaintenance, CalmInv, CommandPcs, WorkerAt, StartKeepAlive
<1>6. ~ExecuteKeepAlive
  BY DEF NoMaintenance, CalmInv, CommandPcs, WorkerAt, ExecuteKeepAlive
<1>7. ~PublishKeepAlive
  BY DEF NoMaintenance, CalmInv, CommandPcs, WorkerAt, PublishKeepAlive
<1>8. ~CatchKeepAlive
  BY DEF NoMaintenance, CalmInv, CommandPcs, WorkerAt, CatchKeepAlive
<1>9. ~WaitKeepAlive
  BY DEF NoMaintenance, CalmInv, CommandPcs, WorkerAt, WaitKeepAlive
<1>10. ~CloseKeepAlive
  BY DEF NoMaintenance, CalmInv, CommandPcs, WorkerAt, CloseKeepAlive
<1> QED
  BY <1>1, <1>2, <1>3, <1>4, <1>5, <1>6, <1>7, <1>8, <1>9, <1>10 DEF WorkerStep, CalmStep

-----------------------------------------------------------------------------
(* What a step of the worker sends                                         *)

\* The execution of the command that the worker takes or works at.
Subject == IF worker.pc = "idle" THEN Head(commands).x ELSE worker.x

Fine(e) ==
  /\ e \in EventTypes
  /\ e.kind # "keepAliveFinished"
  /\ e.kind = "rows" => e.x = worker.x /\ worker.pc = "fetched"
  /\ e.kind \in {"downloaded", "downloadFailed"} => e.x = Subject
  /\ e.kind = "ready" /\ e.more = TRUE =>
       worker.pc = "paged" /\ worker' = [worker EXCEPT !.pc = "idle", !.cursor = "available"]
  /\ e.kind = "downloadFailed" /\ e.consumed = FALSE =>
       worker.pc = "idle" /\ worker' = worker /\ Head(commands).kind \in {"drain", "export"}

\* The last event of a command, and no other one, ends it.
Sends ==
  \E sent \in Seq(EventTypes) :
    /\ Emit(sent)
    /\ \A i \in 1..Len(sent) : Fine(sent[i])
    /\ worker'.pc = "idle" => /\ sent # <<>>
                              /\ Ends(sent[Len(sent)])
                              /\ \A i \in 1..Len(sent) - 1 : ~Ends(sent[i])
    /\ worker'.pc # "idle" => \A i \in 1..Len(sent) : ~Ends(sent[i])

LEMMA SendNone ==
  ASSUME TypeOK, Silent, worker'.pc # "idle"
  PROVE  Sends
<1>1. Emit(<<>>)
  BY ConcatEmptySeq DEF Silent, Emit, TypeOK
<1> DEFINE s == <<>>
<1>2. Emit(s) /\ s \in Seq(EventTypes) /\ Len(s) = 0
  BY <1>1
<1> HIDE DEF s
<1>3. \A i \in 1..Len(s) : Fine(s[i]) /\ ~Ends(s[i])
  BY <1>2
<1> QED
  BY <1>2, <1>3 DEF Sends

LEMMA SendOne ==
  ASSUME NEW a, Fine(a), Emit(<<a>>),
         worker'.pc = "idle" => Ends(a), worker'.pc # "idle" => ~Ends(a)
  PROVE  Sends
<1>1. <<a>> \in Seq(EventTypes) /\ Len(<<a>>) = 1 /\ <<a>>[1] = a
  BY DEF Fine
<1> DEFINE s == <<a>>
<1>2. Emit(s) /\ s \in Seq(EventTypes) /\ Len(s) = 1 /\ s[1] = a
  BY <1>1
<1> HIDE DEF s
<1> QED
  BY <1>2 DEF Sends

LEMMA SendTwo ==
  ASSUME NEW a, NEW b, Fine(a), Fine(b), Emit(<<a, b>>), worker'.pc = "idle",
         ~Ends(a), Ends(b)
  PROVE  Sends
<1> DEFINE s == <<a, b>>
<1>2. Emit(s) /\ s \in Seq(EventTypes) /\ Len(s) = 2 /\ s[1] = a /\ s[2] = b
  BY DEF Fine
<1> HIDE DEF s
<1>3. \A i \in 1..Len(s) : i = 1 \/ i = 2
  BY <1>2
<1>4. \A i \in 1..Len(s) : Fine(s[i])
  BY <1>2, <1>3
<1>5. s # <<>> /\ Ends(s[Len(s)]) /\ \A i \in 1..Len(s) - 1 : ~Ends(s[i])
  BY <1>2
<1> QED
  BY <1>2, <1>4, <1>5 DEF Sends

LEMMA SendThree ==
  ASSUME NEW a, NEW b, NEW c, Fine(a), Fine(b), Fine(c), Emit(<<a, b, c>>),
         worker'.pc = "idle", ~Ends(a), ~Ends(b), Ends(c)
  PROVE  Sends
<1> DEFINE s == <<a, b, c>>
<1>2. Emit(s) /\ s \in Seq(EventTypes) /\ Len(s) = 3 /\ s[1] = a /\ s[2] = b /\ s[3] = c
  BY DEF Fine
<1> HIDE DEF s
<1>3. \A i \in 1..Len(s) : i = 1 \/ i = 2 \/ i = 3
  BY <1>2
<1>4. \A i \in 1..Len(s) : Fine(s[i])
  BY <1>2, <1>3
<1>5. s # <<>> /\ Ends(s[Len(s)]) /\ \A i \in 1..Len(s) - 1 : ~Ends(s[i])
  BY <1>2, <1>3
<1> QED
  BY <1>2, <1>4, <1>5 DEF Sends

LEMMA FineEvents ==
  ASSUME TypeOK
  PROVE  /\ \A k \in {"connecting", "connected", "busy"} : Fine(Kind(k)) /\ ~Ends(Kind(k))
         /\ \A k \in {"cancelled", "disconnected"} : Fine(Kind(k)) /\ Ends(Kind(k))
         /\ \A d \in BOOLEAN : Fine(ErrorEvent(d)) /\ Ends(ErrorEvent(d))
         /\ \A c \in Cursors : Fine(CursorEvent(c)) /\ ~Ends(CursorEvent(c))
         /\ Fine(ReadyEvent(FALSE)) /\ Ends(ReadyEvent(FALSE)) /\ Ends(ReadyEvent(TRUE))
         /\ ~Ends(RowsEvent)
<1>1. \A k \in {"connecting", "connected", "busy"} : Fine(Kind(k)) /\ ~Ends(Kind(k))
  BY EventFacts DEF Fine, Kind, Ends
<1>2. \A k \in {"cancelled", "disconnected"} : Fine(Kind(k)) /\ Ends(Kind(k))
  BY EventFacts DEF Fine, Kind, Ends
<1>3. \A d \in BOOLEAN : Fine(ErrorEvent(d)) /\ Ends(ErrorEvent(d))
  BY EventFacts DEF Fine, ErrorEvent, Ends
<1>4. \A c \in Cursors : Fine(CursorEvent(c)) /\ ~Ends(CursorEvent(c))
  BY EventFacts DEF Fine, CursorEvent, Ends
<1>5. Fine(ReadyEvent(FALSE)) /\ Ends(ReadyEvent(FALSE)) /\ Ends(ReadyEvent(TRUE))
  BY EventFacts DEF Fine, ReadyEvent, Ends
<1>6. ~Ends(RowsEvent)
  BY DEF RowsEvent, Ends
<1> QED
  BY <1>1, <1>2, <1>3, <1>4, <1>5, <1>6

LEMMA FailSends ==
  ASSUME TypeOK, Fail
  PROVE  Sends
<1>1. PICK d \in BOOLEAN : Emit(<<ErrorEvent(d)>>)
  BY DEF Fail
<1>2. Fine(ErrorEvent(d)) /\ Ends(ErrorEvent(d))
  BY FineEvents
<1>3. worker'.pc = "idle"
  BY EndsClosed
<1> QED
  BY <1>1, <1>2, <1>3, SendOne

LEMMA FinishCancelledSends ==
  ASSUME TypeOK, FinishCancelled
  PROVE  Sends
<1>1. worker'.pc = "idle"
  BY EndsClosed
<1> QED
  BY <1>1, FineEvents, SendOne DEF FinishCancelled

LEMMA FailDownloadSends ==
  ASSUME TypeOK, NEW pending, Subject \in Number, FailDownload(Subject, pending)
  PROVE  Sends
<1>1. PICK d \in BOOLEAN : Emit(<<CursorEvent("consumed"), FailedEvent(Subject, TRUE, d)>>)
  BY DEF FailDownload
<1>2. Fine(FailedEvent(Subject, TRUE, d)) /\ Ends(FailedEvent(Subject, TRUE, d))
  BY EventFacts DEF Fine, Ends, FailedEvent
<1>3. Fine(CursorEvent("consumed")) /\ ~Ends(CursorEvent("consumed"))
  BY FineEvents, CursorFacts
<1>4. worker'.pc = "idle"
  BY EndsClosed
<1> QED
  BY <1>1, <1>2, <1>3, <1>4, SendTwo


LEMMA CalmStepKeeps ==
  ASSUME TypeOK, NoMaintenance, CalmInv, CalmStep
  PROVE  CalmInv'
<1>1. CASE TakeRun
  BY <1>1 DEF TakeRun, CalmInv, CommandPcs
<1>2. CASE PrepareSession
  <2>1. worker'.pc \in {"check", "connect"} /\ UNCHANGED idles
    BY <1>2, DownPc DEF PrepareSession, WorkerTo, TypeOK, WorkerStates
  <2> QED
    BY <2>1 DEF CalmInv, CommandPcs
<1>3. CASE Connect
  BY <1>3, EndsClosed DEF Connect, NoMaintenance, CalmInv, CommandPcs, TypeOK, WorkerStates
<1>4. CASE CheckCancelled
  BY <1>4 DEF CheckCancelled, WorkerTo, CalmInv, CommandPcs, TypeOK, WorkerStates
<1>5. CASE ClearTarget
  BY <1>5 DEF ClearTarget, WorkerTo, CalmInv, CommandPcs
<1>6. CASE Execute
  BY <1>6, EndsClosed DEF Execute, WorkerTo, CalmInv, CommandPcs, TypeOK, WorkerStates
<1>7. CASE PublishTarget
  BY <1>7 DEF PublishTarget, WorkerTo, CalmInv, CommandPcs
<1>8. CASE CatchCancel
  BY <1>8, EndsClosed DEF CatchCancel, WorkerTo, CalmInv, CommandPcs, TypeOK, WorkerStates
<1>9. CASE PollResult
  BY <1>9, EndsClosed DEF PollResult, WorkerTo, CalmInv, CommandPcs, TypeOK, WorkerStates
<1>10. CASE TakeMore
  <2>1. worker' = [worker EXCEPT !.cursor = "available"]
          \/ worker' = [worker EXCEPT !.pc = "fetch", !.wanted = Page]
    BY <1>10 DEF TakeMore
  <2> QED
    BY <1>10, <2>1 DEF TakeMore, CalmInv, CommandPcs, TypeOK, WorkerStates
<1>11. CASE Fetch
  BY <1>11, EndsClosed DEF Fetch, CalmInv, CommandPcs, TypeOK, WorkerStates
<1>12. CASE ShowPage
  <2>1. CASE FinishCancelled \/ Fail
    BY <1>12, <2>1, EndsClosed DEF ShowPage, CalmInv
  <2>2. CASE EndPage
    BY <1>12, <2>2 DEF ShowPage, EndPage, CalmInv, TypeOK, WorkerStates
  <2>3. CASE ContinuePage
    BY <1>12, <2>3 DEF ShowPage, ContinuePage, CalmInv, CommandPcs
  <2> QED
    BY <1>12, <2>1, <2>2, <2>3 DEF ShowPage
<1>13. CASE FinishPage
  BY <1>13, EndsClosed DEF FinishPage, CalmInv, TypeOK, WorkerStates
<1>14. CASE RefuseDrain
  BY <1>14 DEF RefuseDrain, CalmInv
<1>15. CASE BindDrain
  BY <1>15 DEF BindDrain, CalmInv, CommandPcs
<1>16. CASE CompleteDrain
  BY <1>16 DEF CompleteDrain, CalmInv
<1>17. CASE FailDrain
  BY <1>17, EndsClosed DEF FailDrain, CalmInv
<1>18. CASE RefuseExport
  BY <1>18 DEF RefuseExport, CalmInv
<1>19. CASE DropExport
  BY <1>19, EndsClosed DEF DropExport, CalmInv
<1>20. CASE TakeExport
  BY <1>20 DEF TakeExport, CalmInv, CommandPcs
<1>21. CASE ExportFails
  BY <1>21, EndsClosed DEF ExportFails, CalmInv
<1>22. CASE PrepareExport
  <2>1. worker' = [worker EXCEPT !.pc = "exportClear"]
          \/ worker' = [Disconnected EXCEPT !.pc = "exportConnect"]
    BY <1>22 DEF PrepareExport, WorkerTo
  <2>2. worker'.pc \in {"exportClear", "exportConnect"}
    BY <2>1, DownPc DEF TypeOK, WorkerStates
  <2> QED
    BY <1>22, <2>2 DEF PrepareExport, CalmInv, CommandPcs
<1>23. CASE ConnectExport
  BY <1>23 DEF ConnectExport, CalmInv, CommandPcs
<1>24. CASE ClearExport
  BY <1>24 DEF ClearExport, WorkerTo, CalmInv, CommandPcs
<1>25. CASE ExecuteExport
  BY <1>25 DEF ExecuteExport, CalmInv, CommandPcs
<1>26. CASE BindExport
  BY <1>26 DEF BindExport, WorkerTo, CalmInv, CommandPcs
<1>27. CASE PollExport
  BY <1>27 DEF PollExport, CalmInv, CommandPcs, TypeOK, WorkerStates
<1>28. CASE TakeDisconnect
  BY <1>28 DEF TakeDisconnect, Disconnected, CalmInv
<1>29. CASE TakeShutdown
  BY <1>29 DEF TakeShutdown, CalmInv
<1> QED
  BY <1>1, <1>2, <1>3, <1>4, <1>5, <1>6, <1>7, <1>8, <1>9, <1>10, <1>11, <1>12, <1>13,
     <1>14, <1>15, <1>16, <1>17, <1>18, <1>19, <1>20, <1>21, <1>22, <1>23, <1>24, <1>25, <1>26,
     <1>27, <1>28, <1>29 DEF CalmStep

LEMMA WorkerFrame ==
  ASSUME CalmInv, CalmStep
  PROVE  /\ UNCHANGED <<ui, stopped, cancels, requested, cancelled, idles>>
         /\ \/ worker.pc = "idle" /\ commands # <<>> /\ commands' = Tail(commands)
            \/ worker.pc \notin {"idle", "ended"} /\ UNCHANGED commands
<1>1. CASE TakeRun
  BY <1>1 DEF TakeRun, Unchanging, history, WorkerAt, Take
<1>2. CASE PrepareSession
  BY <1>2 DEF PrepareSession, Unchanging, history, WorkerAt
<1>3. CASE Connect
  BY <1>3 DEF Connect, Unchanging, history, WorkerAt
<1>4. CASE CheckCancelled
  BY <1>4 DEF CheckCancelled, Unchanging, history, WorkerAt
<1>5. CASE ClearTarget
  BY <1>5 DEF ClearTarget, Unchanging, history, WorkerAt
<1>6. CASE Execute
  BY <1>6 DEF Execute, Unchanging, history, WorkerAt
<1>7. CASE PublishTarget
  BY <1>7 DEF PublishTarget, Unchanging, history, WorkerAt
<1>8. CASE CatchCancel
  BY <1>8 DEF CatchCancel, Unchanging, history, WorkerAt
<1>9. CASE PollResult
  BY <1>9 DEF PollResult, Unchanging, history, WorkerAt
<1>10. CASE TakeMore
  BY <1>10 DEF TakeMore, Unchanging, history, WorkerAt, Take
<1>11. CASE Fetch
  BY <1>11 DEF Fetch, Unchanging, history, WorkerAt
<1>12. CASE ShowPage
  BY <1>12 DEF ShowPage, Unchanging, history, WorkerAt
<1>13. CASE FinishPage
  BY <1>13 DEF FinishPage, Unchanging, history, WorkerAt
<1>14. CASE RefuseDrain
  BY <1>14 DEF RefuseDrain, Unchanging, history, WorkerAt, Take
<1>15. CASE BindDrain
  BY <1>15 DEF BindDrain, Unchanging, history, WorkerAt, Take
<1>16. CASE CompleteDrain
  BY <1>16 DEF CompleteDrain, Unchanging, history, WorkerAt
<1>17. CASE FailDrain
  BY <1>17 DEF FailDrain, Unchanging, history, WorkerAt
<1>18. CASE RefuseExport
  BY <1>18 DEF RefuseExport, Unchanging, history, WorkerAt, Take
<1>19. CASE DropExport
  BY <1>19 DEF DropExport, Unchanging, history, WorkerAt, Take
<1>20. CASE TakeExport
  BY <1>20 DEF TakeExport, Unchanging, history, WorkerAt, Take
<1>21. CASE ExportFails
  BY <1>21 DEF ExportFails, Unchanging, history, WorkerAt
<1>22. CASE PrepareExport
  BY <1>22 DEF PrepareExport, Unchanging, history, WorkerAt, ExportStep
<1>23. CASE ConnectExport
  BY <1>23 DEF ConnectExport, Unchanging, history, WorkerAt
<1>24. CASE ClearExport
  BY <1>24 DEF ClearExport, Unchanging, history, WorkerAt, ExportStep
<1>25. CASE ExecuteExport
  BY <1>25 DEF ExecuteExport, Unchanging, history, WorkerAt, ExportStep
<1>26. CASE BindExport
  BY <1>26 DEF BindExport, Unchanging, history, WorkerAt, ExportStep
<1>27. CASE PollExport
  BY <1>27 DEF PollExport, Unchanging, history, WorkerAt, ExportStep
<1>28. CASE TakeDisconnect
  BY <1>28 DEF TakeDisconnect, Unchanging, history, WorkerAt, Take
<1>29. CASE TakeShutdown
  BY <1>29 DEF TakeShutdown, Unchanging, history, WorkerAt, Take
<1> QED
  BY <1>1, <1>2, <1>3, <1>4, <1>5, <1>6, <1>7, <1>8, <1>9, <1>10, <1>11, <1>12, <1>13,
     <1>14, <1>15, <1>16, <1>17, <1>18, <1>19, <1>20, <1>21, <1>22, <1>23, <1>24, <1>25, <1>26,
     <1>27, <1>28, <1>29 DEF CalmStep

LEMMA WorkerSends ==
  ASSUME TypeOK, NoMaintenance, CalmStep
  PROVE  Sends
<1>1. CASE TakeRun
  BY <1>1, SendNone DEF TakeRun
<1>2. CASE PrepareSession
  BY <1>2, SendNone, SendOne, FineEvents, DownPc DEF PrepareSession, WorkerTo, TypeOK,
     WorkerStates
<1>3. CASE Connect
  <2>1. Fail \/ (worker' = [worker EXCEPT !.pc = "check", !.session = worker.x]
                 /\ Emit(<<Kind("connected")>>))
    BY <1>3 DEF Connect, NoMaintenance
  <2>2. worker' = [worker EXCEPT !.pc = "check", !.session = worker.x] => worker'.pc # "idle"
    OBVIOUS
  <2> QED
    BY <2>1, <2>2, SendOne, FailSends, FineEvents
<1>4. CASE CheckCancelled
  BY <1>4, SendOne, FineEvents DEF CheckCancelled, WorkerTo, TypeOK, WorkerStates
<1>5. CASE ClearTarget
  BY <1>5, SendNone DEF ClearTarget, WorkerTo
<1>6. CASE Execute
  BY <1>6, SendNone, FailSends DEF Execute, WorkerTo, TypeOK, WorkerStates
<1>7. CASE PublishTarget
  BY <1>7, SendNone DEF PublishTarget, WorkerTo
<1>8. CASE CatchCancel
  BY <1>8, SendNone, FailSends DEF CatchCancel, WorkerTo, TypeOK, WorkerStates
<1>9. CASE PollResult
  BY <1>9, SendNone, SendOne, FailSends, FineEvents DEF PollResult, WorkerTo, TypeOK,
     WorkerStates
<1>10. CASE TakeMore
  BY <1>10, SendNone, SendTwo, CursorFacts, FineEvents DEF TakeMore, WorkerAt, TypeOK,
     WorkerStates, Take
<1>11. CASE Fetch
  BY <1>11, SendNone, FailSends, FinishCancelledSends DEF Fetch, TypeOK, WorkerStates
<1>12. CASE ShowPage
  <2>1. CASE FinishCancelled \/ Fail
    BY <2>1, FinishCancelledSends, FailSends
  <2>2. CASE EndPage
    <3>1. worker'.pc = "idle"
      BY <2>2 DEF EndPage, TypeOK, WorkerStates
    <3> QED
      BY <2>2, <3>1, SendTwo, CursorFacts, FineEvents DEF EndPage
  <2>3. CASE ContinuePage
    <3>1. worker'.pc # "idle" /\ Emit(<<RowsEvent>>)
      BY <2>3 DEF ContinuePage
    <3>2. Fine(RowsEvent)
      BY <1>12, EventFacts DEF Fine, RowsEvent, ShowPage, WorkerAt
    <3> QED
      BY <3>1, <3>2, SendOne, FineEvents
  <2> QED
    BY <1>12, <2>1, <2>2, <2>3 DEF ShowPage
<1>13. CASE FinishPage
  <2>1. CASE FinishCancelled \/ Fail
    BY <2>1, FinishCancelledSends, FailSends
  <2>2. CASE worker' = [worker EXCEPT !.pc = "idle", !.cursor = "available"]
               /\ Emit(<<CursorEvent("available"), ReadyEvent(TRUE)>>)
    <3>1. worker'.pc = "idle"
      BY <2>2
    <3>2. Fine(ReadyEvent(TRUE))
      BY <1>13, <2>2, EventFacts DEF Fine, ReadyEvent, FinishPage, WorkerAt
    <3> QED
      BY <2>2, <3>1, <3>2, SendTwo, CursorFacts, FineEvents
  <2> QED
    BY <1>13, <2>1, <2>2 DEF FinishPage
<1>14. CASE RefuseDrain
  <2> DEFINE e == FailedEvent(Head(commands).x, FALSE, FALSE)
  <2>1. Emit(<<e>>) /\ worker' = worker /\ worker.pc = "idle" /\ Head(commands).kind = "drain"
    BY <1>14 DEF RefuseDrain, Take, WorkerAt
  <2>2. Head(commands).x \in Number
    BY <1>14, TakeTyped DEF RefuseDrain
  <2>3. Fine(e) /\ Ends(e)
    BY <2>1, <2>2, EventFacts DEF Fine, Ends, FailedEvent, Subject
  <2> QED
    BY <2>1, <2>3, SendOne
<1>15. CASE BindDrain
  BY <1>15, SendOne, CursorFacts, FineEvents DEF BindDrain, WorkerStates
<1>16. CASE CompleteDrain
  <2>1. PICK shown \in 0..Least(op.total, Limit) :
          /\ shown >= worker.rows
          /\ worker' = [worker EXCEPT !.pc = "idle", !.cursor = "downloaded",
                                      !.pending = 0, !.rows = shown]
          /\ Emit(<<[kind |-> "previewRows", x |-> worker.x, rows |-> shown - worker.rows],
                    CursorEvent("downloaded"), [kind |-> "downloaded", x |-> worker.x]>>)
    BY <1>16 DEF CompleteDrain
  <2> DEFINE p == [kind |-> "previewRows", x |-> worker.x, rows |-> shown - worker.rows]
             d == [kind |-> "downloaded", x |-> worker.x]
  <2>2. shown - worker.rows \in Nat
    BY <2>1, Typed
  <2>3. Fine(p) /\ ~Ends(p)
    BY <2>2, EventFacts DEF Fine, Ends
  <2>4. worker.pc = "drain"
    BY <1>16 DEF CompleteDrain, WorkerAt
  <2>5. Fine(d) /\ Ends(d)
    BY <2>4, EventFacts DEF Fine, Ends, Subject
  <2>6. Fine(CursorEvent("downloaded")) /\ ~Ends(CursorEvent("downloaded"))
    BY CursorFacts, FineEvents
  <2>7. worker'.pc = "idle"
    BY <2>1
  <2> QED
    BY <2>1, <2>3, <2>5, <2>6, <2>7, SendThree
<1>17. CASE FailDrain
  <2>1. worker.pc = "drain" /\ \E pending \in {0, worker.pending} : FailDownload(worker.x, pending)
    BY <1>17 DEF FailDrain, WorkerAt
  <2> QED
    BY <2>1, FailDownloadSends, Typed DEF Subject
<1>18. CASE RefuseExport
  <2> DEFINE e == FailedEvent(Head(commands).x, FALSE, worker.session = 0)
  <2>1. Emit(<<e>>) /\ worker' = worker /\ worker.pc = "idle" /\ Head(commands).kind = "export"
    BY <1>18 DEF RefuseExport, Take, WorkerAt
  <2>2. Head(commands).x \in Number
    BY <1>18, TakeTyped DEF RefuseExport
  <2>3. Fine(e) /\ Ends(e)
    BY <2>1, <2>2, EventFacts DEF Fine, Ends, FailedEvent, Subject
  <2> QED
    BY <2>1, <2>3, SendOne
<1>19. CASE DropExport
  <2>1. worker.pc = "idle" /\ FailDownload(Head(commands).x, worker.pending)
    BY <1>19 DEF DropExport, Take, WorkerAt
  <2>2. Head(commands).x \in Number
    BY <1>19, TakeTyped DEF DropExport
  <2> QED
    BY <2>1, <2>2, FailDownloadSends DEF Subject
<1>20. CASE TakeExport
  BY <1>20, SendNone DEF TakeExport
<1>21. CASE ExportFails
  <2>1. worker.pc # "idle" /\ FailDownload(worker.x, 0)
    BY <1>21 DEF ExportFails
  <2> QED
    BY <2>1, FailDownloadSends, Typed DEF Subject
<1>22. CASE PrepareExport
  BY <1>22, SendNone, SendOne, FineEvents, DownPc DEF PrepareExport, WorkerTo, TypeOK,
     WorkerStates
<1>23. CASE ConnectExport
  BY <1>23, SendOne, FineEvents DEF ConnectExport, WorkerStates
<1>24. CASE ClearExport
  BY <1>24, SendOne, FineEvents DEF ClearExport, WorkerTo, WorkerStates
<1>25. CASE ExecuteExport
  BY <1>25, SendNone DEF ExecuteExport
<1>26. CASE BindExport
  BY <1>26, SendNone DEF BindExport, WorkerTo
<1>27. CASE PollExport
  BY <1>27, SendOne, SendTwo, CursorFacts, FineEvents DEF PollExport, TypeOK, WorkerStates
<1>28. CASE TakeDisconnect
  <2>1. worker'.pc = "idle" /\ Emit(<<Kind("disconnected")>>)
    BY <1>28 DEF TakeDisconnect, Take, WorkerAt, Disconnected
  <2> QED
    BY <2>1, SendOne, FineEvents
<1>29. CASE TakeShutdown
  BY <1>29, SendNone, PcFacts, FineEvents, EndsClosed DEF TakeShutdown
<1> QED
  BY <1>1, <1>2, <1>3, <1>4, <1>5, <1>6, <1>7, <1>8, <1>9, <1>10, <1>11, <1>12, <1>13,
     <1>14, <1>15, <1>16, <1>17, <1>18, <1>19, <1>20, <1>21, <1>22, <1>23, <1>24, <1>25, <1>26,
     <1>27, <1>28, <1>29 DEF CalmStep

-----------------------------------------------------------------------------
(* What a step of the worker keeps                                         *)

LEMMA Taken ==
  ASSUME TypeOK, QueueInv, NEW kind, Take(kind), kind # "shutdown"
  PROVE  /\ Head(commands).kind = kind /\ Head(commands).x = ui.execution
         /\ kind = "run" => Head(commands).x # 0
         /\ kind = "more" => Aligned
<1>1. Len(commands) >= 1 /\ Head(commands) = commands[1]
  BY DEF TypeOK, Take
<1> QED
  BY <1>1 DEF QueueInv, Take

\* Only the shutdown waits behind another command or while the worker works.
LEMMA QueueStep ==
  ASSUME TypeOK, QueueInv, CalmInv, CalmStep
  PROVE  /\ \A i \in 1..Len(commands') : commands'[i].kind = "shutdown"
         /\ QueueInv'
<1>1. CASE commands # <<>> /\ commands' = Tail(commands)
  <2>1. Len(commands') = Len(commands) - 1
        /\ \A i \in 1..Len(commands') : commands'[i] = commands[i + 1] /\ i + 1 \in 1..Len(commands)
    BY <1>1 DEF TypeOK
  <2>2. \A i \in 1..Len(commands') : commands'[i].kind = "shutdown"
    BY <2>1 DEF QueueInv
  <2> QED
    BY <2>2 DEF QueueInv
<1>2. CASE worker.pc \notin {"idle", "ended"} /\ UNCHANGED commands
  BY <1>2 DEF QueueInv
<1> QED
  BY <1>1, <1>2, WorkerFrame

LEMMA ClosedCount ==
  ASSUME CloseOperation,
         worker'.pc \in {"idle", "ended", "connect", "exportConnect"},
         worker'.pc \in {"connect", "exportConnect"} =>
           worker'.rows = 0 /\ worker'.pending = 0 /\ worker'.cursor = "unavailable"
  PROVE  CountInv'
  BY DEF CloseOperation, CountInv, SubmittingPcs, ExportPcs, NoOp

LEMMA DownFacts ==
  ASSUME TypeOK
  PROVE  /\ Disconnected.pc = worker.pc
         /\ \A pc : LET w == [Disconnected EXCEPT !.pc = pc] IN
              /\ w.pc = pc /\ w.x = worker.x /\ w.rows = worker.rows
              /\ w.pending = 0 /\ w.cursor = "unavailable"
  BY DEF TypeOK, WorkerStates, Disconnected

LEMMA CalmConnect ==
  ASSUME NoMaintenance, Connect
  PROVE  \/ Fail
         \/ /\ worker' = [worker EXCEPT !.pc = "check", !.session = worker.x]
            /\ UNCHANGED <<op, target>>
  BY DEF NoMaintenance, Connect

LEMMA EndPageIdle ==
  ASSUME TypeOK, EndPage
  PROVE  worker'.pc = "idle"
  BY DEF EndPage, TypeOK, WorkerStates

\* How the worker's pc moves, and whose execution it works at.
Submitting(pc) == pc \in SubmittingPcs \cup {"publish", "catch", "poll"}

TakesExecution ==
  \/ Take("run") /\ worker'.pc = "prepare" /\ worker'.x = Head(commands).x
  \/ Take("more") /\ worker'.pc = "fetch" /\ worker'.x = worker.x
  \/ Take("drain") /\ worker'.pc = "drain" /\ worker'.x = Head(commands).x
  \/ Take("export") /\ worker'.pc = "exportPrepare" /\ worker'.x = Head(commands).x

KeepsExecution ==
  /\ worker.pc \notin {"idle", "ended"}
  /\ worker'.x = worker.x
  /\ \/ worker.pc \in SubmittingPcs /\ worker'.pc \in SubmittingPcs
     \/ worker.pc = "execute" /\ worker'.pc = "publish" /\ op'.x = worker.x
     \/ worker.pc = "publish" /\ worker'.pc = "catch" /\ UNCHANGED op
     \/ worker.pc = "catch" /\ worker'.pc = "poll" /\ UNCHANGED op
     \/ ~Submitting(worker'.pc) /\ worker'.pc # "ended"

Moves ==
  \/ worker'.pc = "idle"
  \/ Take("shutdown") /\ worker'.pc = "ended"
  \/ TakesExecution
  \/ KeepsExecution


LEMMA WorkerMoves ==
  ASSUME TypeOK, NoMaintenance, CalmInv, CalmStep
  PROVE  Moves
<1>1. CASE TakeRun
  BY <1>1 DEF TakeRun, Moves, TakesExecution
<1>2. CASE PrepareSession
  <2>1. CASE worker' = [Disconnected EXCEPT !.pc = "connect"]
    BY <1>2, <2>1, DownFacts DEF PrepareSession, WorkerAt, Moves, KeepsExecution,
       SubmittingPcs
  <2>2. CASE worker' = [worker EXCEPT !.pc = "check"]
    BY <1>2, <2>2 DEF PrepareSession, WorkerAt, Moves, KeepsExecution, SubmittingPcs
  <2> QED
    BY <1>2, <2>1, <2>2 DEF PrepareSession, WorkerTo
<1>3. CASE Connect
  <2>1. CASE worker' = [worker EXCEPT !.pc = "check", !.session = worker.x]
    BY <1>3, <2>1 DEF Connect, WorkerAt, Moves, KeepsExecution, SubmittingPcs
  <2> QED
    BY <1>3, <2>1, CalmConnect, EndsClosed DEF Moves
<1>4. CASE CheckCancelled
  BY <1>4 DEF CheckCancelled, WorkerTo, WorkerAt, Moves, KeepsExecution, SubmittingPcs,
     TypeOK, WorkerStates
<1>5. CASE ClearTarget
  BY <1>5 DEF ClearTarget, WorkerTo, WorkerAt, Moves, KeepsExecution, SubmittingPcs
<1>6. CASE Execute
  <2>1. CASE Fail
    BY <2>1, EndsClosed DEF Moves
  <2>2. ASSUME NEW total, op' = [x |-> worker.x, total |-> total, served |-> 0],
               worker' = [worker EXCEPT !.pc = "publish"]
        PROVE  Moves
    <3>1. op'.x = worker.x
      BY <2>2
    <3> QED
      BY <1>6, <2>2, <3>1 DEF Execute, WorkerAt, Moves, KeepsExecution
  <2> QED
    BY <1>6, <2>1, <2>2 DEF Execute, WorkerTo
<1>7. CASE PublishTarget
  BY <1>7 DEF PublishTarget, WorkerTo, WorkerAt, Moves, KeepsExecution
<1>8. CASE CatchCancel
  BY <1>8, EndsClosed DEF CatchCancel, WorkerTo, WorkerAt, Moves, KeepsExecution, TypeOK,
     WorkerStates
<1>9. CASE PollResult
  <2>1. CASE Fail \/ worker' = [worker EXCEPT !.pc = "idle"]
    BY <2>1, EndsClosed DEF Moves, TypeOK, WorkerStates
  <2>2. CASE worker' = [worker EXCEPT !.pc = "fetch", !.wanted = Page]
    BY <1>9, <2>2 DEF PollResult, WorkerAt, Moves, KeepsExecution, Submitting, SubmittingPcs
  <2> QED
    BY <1>9, <2>1, <2>2 DEF PollResult, WorkerTo
<1>10. CASE TakeMore
  <2>1. CASE worker' = [worker EXCEPT !.cursor = "available"]
    BY <1>10, <2>1 DEF TakeMore, Take, WorkerAt, Moves
  <2>2. CASE worker' = [worker EXCEPT !.pc = "fetch", !.wanted = Page]
    BY <1>10, <2>2 DEF TakeMore, Moves, TakesExecution
  <2> QED
    BY <1>10, <2>1, <2>2 DEF TakeMore
<1>11. CASE Fetch
  <2>1. CASE Fail \/ FinishCancelled
    BY <2>1, EndsClosed DEF Moves
  <2>2. ASSUME NEW n, worker' = [worker EXCEPT !.pc = "fetched", !.batch = n] PROVE Moves
    BY <1>11, <2>2 DEF Fetch, WorkerAt, Moves, KeepsExecution, Submitting, SubmittingPcs,
       TypeOK, WorkerStates
  <2> QED
    BY <1>11, <2>1, <2>2 DEF Fetch
<1>12. CASE ShowPage
  <2>1. CASE FinishCancelled \/ Fail
    BY <2>1, EndsClosed DEF Moves
  <2>2. CASE EndPage
    BY <2>2, EndPageIdle DEF Moves
  <2>3. CASE ContinuePage
    BY <1>12, <2>3 DEF ShowPage, WorkerAt, ContinuePage, Shown, Moves, KeepsExecution,
       Submitting, SubmittingPcs
  <2> QED
    BY <1>12, <2>1, <2>2, <2>3 DEF ShowPage
<1>13. CASE FinishPage
  BY <1>13, EndsClosed DEF FinishPage, Moves, TypeOK, WorkerStates
<1>14. CASE RefuseDrain
  BY <1>14 DEF RefuseDrain, WorkerAt, Take, Moves
<1>15. CASE BindDrain
  <2>1. worker' = [worker EXCEPT !.pc = "drain", !.cursor = "draining",
                                 !.batch = Head(commands).rows]
        /\ worker.x = Head(commands).x
    BY <1>15 DEF BindDrain, Stale
  <2> QED
    BY <1>15, <2>1 DEF BindDrain, Moves, TakesExecution
<1>16. CASE CompleteDrain
  BY <1>16 DEF CompleteDrain, Moves
<1>17. CASE FailDrain
  BY <1>17, EndsClosed DEF FailDrain, Moves
<1>18. CASE RefuseExport
  BY <1>18 DEF RefuseExport, WorkerAt, Take, Moves
<1>19. CASE DropExport
  BY <1>19, EndsClosed DEF DropExport, Moves
<1>20. CASE TakeExport
  BY <1>20 DEF TakeExport, Moves, TakesExecution
<1>21. CASE ExportFails
  BY <1>21, EndsClosed DEF ExportFails, Moves
<1>22. CASE PrepareExport
  <2>1. CASE worker' = [Disconnected EXCEPT !.pc = "exportConnect"]
    BY <1>22, <2>1, DownFacts DEF PrepareExport, ExportStep, WorkerAt, Moves,
       KeepsExecution, Submitting, SubmittingPcs
  <2>2. CASE worker' = [worker EXCEPT !.pc = "exportClear"]
    BY <1>22, <2>2 DEF PrepareExport, ExportStep, WorkerAt, Moves, KeepsExecution,
       Submitting, SubmittingPcs
  <2> QED
    BY <1>22, <2>1, <2>2 DEF PrepareExport, WorkerTo
<1>23. CASE ConnectExport
  BY <1>23 DEF ConnectExport, WorkerAt, Moves, KeepsExecution, Submitting, SubmittingPcs
<1>24. CASE ClearExport
  BY <1>24 DEF ClearExport, WorkerTo, WorkerAt, ExportStep, Moves, KeepsExecution,
     Submitting, SubmittingPcs
<1>25. CASE ExecuteExport
  BY <1>25 DEF ExecuteExport, WorkerAt, ExportStep, Moves, KeepsExecution, Submitting,
     SubmittingPcs
<1>26. CASE BindExport
  BY <1>26 DEF BindExport, WorkerTo, WorkerAt, ExportStep, Moves, KeepsExecution,
     Submitting, SubmittingPcs
<1>27. CASE PollExport
  <2>1. CASE worker' = [worker EXCEPT !.pc = "idle", !.cursor = "complete"]
    BY <2>1 DEF Moves
  <2>2. CASE worker' = [worker EXCEPT !.pc = "drain", !.cursor = "draining", !.batch = 0]
    BY <1>27, <2>2 DEF PollExport, ExportStep, WorkerAt, Moves, KeepsExecution, Submitting,
       SubmittingPcs
  <2> QED
    BY <1>27, <2>1, <2>2 DEF PollExport
<1>28. CASE TakeDisconnect
  BY <1>28, DownFacts DEF TakeDisconnect, Take, WorkerAt, Moves
<1>29. CASE TakeShutdown
  BY <1>29 DEF TakeShutdown, Moves
<1> QED
  BY <1>1, <1>2, <1>3, <1>4, <1>5, <1>6, <1>7, <1>8, <1>9, <1>10, <1>11, <1>12, <1>13,
     <1>14, <1>15, <1>16, <1>17, <1>18, <1>19, <1>20, <1>21, <1>22, <1>23, <1>24, <1>25, <1>26,
     <1>27, <1>28, <1>29 DEF CalmStep

LEMMA WorkStep ==
  ASSUME TypeOK, QueueInv, CalmInv, WorkInv, NoMaintenance, CalmStep
  PROVE  WorkInv'
<1>1. UNCHANGED ui
  BY WorkerFrame
<1>2. CASE worker'.pc \in {"idle", "ended"}
  BY <1>2 DEF WorkInv, SubmittingPcs
<1>3. CASE TakesExecution
  BY <1>1, <1>3, Taken DEF TakesExecution, WorkInv, SubmittingPcs, Aligned
<1>4. CASE KeepsExecution
  BY <1>1, <1>4 DEF KeepsExecution, Submitting, WorkInv, SubmittingPcs
<1> QED
  BY <1>2, <1>3, <1>4, WorkerMoves DEF Moves

LEMMA RequestStep ==
  ASSUME TypeOK, QueueInv, RequestInv, CalmInv, NoMaintenance, CalmStep
  PROVE  RequestInv'
<1>1. UNCHANGED <<ui, requested, cancelled>>
  BY WorkerFrame
<1>2. worker'.pc \in SubmittingPcs \cup {"publish", "catch"} /\ worker'.x \in requested =>
        cancelled = TRUE
  <2>1. CASE worker'.pc \in {"idle", "ended"}
    BY <2>1 DEF SubmittingPcs
  <2>2. CASE TakesExecution
    <3>1. CASE Take("run") /\ worker'.x = Head(commands).x
      <4>1. Len(commands) >= 1 /\ Head(commands) = commands[1] /\ commands[1].kind = "run"
        BY <3>1 DEF TypeOK, Take
      <4> QED
        BY <3>1, <4>1 DEF RequestInv
    <3>2. CASE worker'.pc \in {"fetch", "drain", "exportPrepare"}
      BY <3>2 DEF SubmittingPcs
    <3> QED
      BY <2>2, <3>1, <3>2 DEF TakesExecution
  <2>3. CASE KeepsExecution
    BY <2>3 DEF KeepsExecution, Submitting, RequestInv, SubmittingPcs
  <2> QED
    BY <2>1, <2>2, <2>3, WorkerMoves DEF Moves
<1> QED
  BY <1>1, <1>2, QueueStep DEF RequestInv


LEMMA CountStep ==
  ASSUME TypeOK, RowsInv, QueueInv, CountInv, NoMaintenance, CalmStep
  PROVE  CountInv'
<1>1. CASE TakeRun
  BY <1>1 DEF TakeRun, CountInv
<1>2. CASE PrepareSession
  <2>1. CASE worker' = [Disconnected EXCEPT !.pc = "connect"] /\ CloseOperation
    <3>1. worker'.pc = "connect" /\ worker'.rows = worker.rows /\ worker'.pending = 0
          /\ worker'.cursor = "unavailable"
      BY <2>1, DownFacts
    <3> QED
      BY <1>2, <2>1, <3>1 DEF PrepareSession, WorkerAt, CountInv, SubmittingPcs
  <2>2. CASE worker' = [worker EXCEPT !.pc = "check"]
    BY <1>2, <2>2 DEF PrepareSession, WorkerAt, CountInv, SubmittingPcs
  <2> QED
    BY <1>2, <2>1, <2>2 DEF PrepareSession, WorkerTo
<1>3. CASE Connect
  <2>1. CASE worker' = [worker EXCEPT !.pc = "check", !.session = worker.x] /\ UNCHANGED op
    BY <1>3, <2>1 DEF Connect, WorkerAt, CountInv, SubmittingPcs
  <2> QED
    BY <1>3, <2>1, CalmConnect, ClosedCount, EndsClosed
<1>4. CASE CheckCancelled
  <2>1. /\ worker.pc = "check" /\ worker'.pc \in {"idle", "clear"} /\ UNCHANGED op
        /\ worker'.rows = worker.rows /\ worker'.pending = worker.pending
        /\ worker'.cursor = worker.cursor
    BY <1>4 DEF CheckCancelled, WorkerTo, WorkerAt, TypeOK, WorkerStates
  <2> QED
    BY <2>1 DEF CountInv, SubmittingPcs, ExportPcs
<1>5. CASE ClearTarget
  BY <1>5 DEF ClearTarget, WorkerTo, WorkerAt, CountInv, SubmittingPcs
<1>6. CASE Execute
  <2>1. CASE Fail
    BY <2>1, ClosedCount, EndsClosed
  <2>2. CASE ~Fail
    <3>1. /\ worker.pc = "execute" /\ worker'.pc = "publish" /\ op'.served = 0
          /\ worker'.rows = worker.rows /\ worker'.pending = worker.pending
          /\ worker'.cursor = worker.cursor
      BY <1>6, <2>2 DEF Execute, WorkerTo, WorkerAt, TypeOK, WorkerStates
    <3> QED
      BY <3>1 DEF CountInv, SubmittingPcs, ExportPcs
  <2> QED
    BY <2>1, <2>2
<1>7. CASE PublishTarget
  BY <1>7 DEF PublishTarget, WorkerTo, WorkerAt, CountInv, SubmittingPcs, ExportPcs
<1>8. CASE CatchCancel
  BY <1>8, ClosedCount, EndsClosed DEF CatchCancel, WorkerTo, WorkerAt, CountInv,
     SubmittingPcs, ExportPcs, TypeOK, WorkerStates
<1>9. CASE PollResult
  <2>1. CASE CloseOperation /\ worker'.pc = "idle"
    BY <2>1, ClosedCount
  <2>2. CASE worker' = [worker EXCEPT !.pc = "fetch", !.wanted = Page] /\ UNCHANGED op
    BY <1>9, <2>2 DEF PollResult, WorkerAt, CountInv, SubmittingPcs, ExportPcs, TypeOK,
       WorkerStates
  <2>3. Fail => CloseOperation /\ worker'.pc = "idle"
    BY EndsClosed
  <2> QED
    BY <1>9, <2>1, <2>2, <2>3 DEF PollResult, WorkerTo, TypeOK, WorkerStates
<1>10. CASE TakeMore
  <2>1. CASE worker.pending > 0
    <3>1. worker' = [worker EXCEPT !.cursor = "available"] /\ UNCHANGED op
          /\ worker.pc = "idle" /\ worker.cursor = "available"
      BY <1>10, <2>1, Taken DEF TakeMore, Take, WorkerAt, Aligned
    <3> QED
      BY <3>1 DEF CountInv
  <2>2. CASE ~(worker.pending > 0)
    <3>1. worker' = [worker EXCEPT !.pc = "fetch", !.wanted = Page] /\ worker.pending = 0
          /\ UNCHANGED op /\ worker.pc = "idle" /\ worker.cursor = "available"
      BY <1>10, <2>2, Taken DEF TakeMore, Take, WorkerAt, Aligned, TypeOK, WorkerStates
    <3> QED
      BY <3>1 DEF CountInv, SubmittingPcs, ExportPcs, TypeOK, WorkerStates
  <2> QED
    BY <2>1, <2>2
<1>11. CASE Fetch
  <2>1. CASE FinishCancelled \/ Fail
    BY <2>1, ClosedCount, EndsClosed
  <2>2. ASSUME NEW n \in 0..worker.wanted,
               worker' = [worker EXCEPT !.pc = "fetched", !.batch = n],
               op' = [op EXCEPT !.served = @ + n]
        PROVE  CountInv'
    <3>1. worker.pc = "fetch"
      BY <1>11 DEF Fetch, WorkerAt
    <3>2. op'.x = op.x /\ op'.served = op.served + n
      BY <2>2
    <3> QED
      BY <2>2, <3>1, <3>2 DEF CountInv, SubmittingPcs, ExportPcs
  <2> QED
    BY <1>11, <2>1, <2>2 DEF Fetch
<1>12. CASE ShowPage
  <2>1. CASE FinishCancelled \/ Fail
    BY <2>1, ClosedCount, EndsClosed
  <2>2. CASE EndPage
    <3>1. CASE CloseOperation /\ worker'.pc = "idle"
      BY <3>1, ClosedCount
    <3>2. CASE UNCHANGED op /\ worker' = [worker EXCEPT !.pc = "idle", !.pending = worker.batch,
                                                   !.cursor = "available"]
      BY <1>12, <3>2 DEF ShowPage, WorkerAt, CountInv, SubmittingPcs, ExportPcs
    <3>3. CASE CloseOperation /\ worker' = [worker EXCEPT !.pc = "idle", !.cursor = "complete"]
      BY <3>1, <3>3
    <3> QED
      BY <2>2, <3>2, <3>3 DEF EndPage
  <2>3. CASE ContinuePage
    <3> DEFINE pc == IF Shown.wanted > 0 THEN "fetch" ELSE "paged"
    <3>1. pc \in {"fetch", "paged"} /\ worker' = [Shown EXCEPT !.pc = pc] /\ UNCHANGED op
      BY <2>3 DEF ContinuePage
    <3> HIDE DEF pc
    <3>2. worker'.pc = pc /\ worker'.rows = worker.rows + worker.batch
          /\ worker'.pending = worker.pending
      BY <3>1 DEF Shown
    <3> QED
      BY <1>12, <3>1, <3>2 DEF ShowPage, WorkerAt, CountInv, SubmittingPcs, ExportPcs
  <2> QED
    BY <1>12, <2>1, <2>2, <2>3 DEF ShowPage
<1>13. CASE FinishPage
  <2>1. CASE FinishCancelled \/ Fail
    BY <2>1, ClosedCount, EndsClosed
  <2>2. CASE worker' = [worker EXCEPT !.pc = "idle", !.cursor = "available"] /\ UNCHANGED op
    BY <1>13, <2>2 DEF FinishPage, WorkerAt, CountInv, SubmittingPcs, ExportPcs, TypeOK
  <2> QED
    BY <1>13, <2>1, <2>2 DEF FinishPage
<1>14. CASE RefuseDrain
  BY <1>14 DEF RefuseDrain, CountInv
<1>15. CASE BindDrain
  <2>1. worker' = [worker EXCEPT !.pc = "drain", !.cursor = "draining",
                                 !.batch = Head(commands).rows]
        /\ worker.pc = "idle" /\ worker.cursor = "available"
        /\ worker.rows = Head(commands).rows /\ UNCHANGED op
    BY <1>15 DEF BindDrain, Take, WorkerAt, Stale
  <2> QED
    BY <2>1 DEF CountInv, SubmittingPcs, ExportPcs
<1>16. CASE CompleteDrain
  BY <1>16 DEF CompleteDrain, CountInv, SubmittingPcs, ExportPcs
<1>17. CASE FailDrain
  BY <1>17, ClosedCount, EndsClosed DEF FailDrain
<1>18. CASE RefuseExport
  BY <1>18 DEF RefuseExport, CountInv
<1>19. CASE DropExport
  BY <1>19, ClosedCount, EndsClosed DEF DropExport
<1>20. CASE TakeExport
  BY <1>20 DEF TakeExport, CountInv
<1>21. CASE ExportFails
  BY <1>21, ClosedCount, EndsClosed DEF ExportFails
<1>22. CASE PrepareExport
  <2>1. CASE worker' = [Disconnected EXCEPT !.pc = "exportConnect"] /\ CloseOperation
    <3>1. worker'.pc = "exportConnect" /\ worker'.rows = worker.rows /\ worker'.pending = 0
          /\ worker'.cursor = "unavailable"
      BY <2>1, DownFacts
    <3> QED
      BY <1>22, <2>1, <3>1 DEF PrepareExport, ExportStep, WorkerAt, CountInv, ExportPcs
  <2>2. CASE worker' = [worker EXCEPT !.pc = "exportClear"]
    BY <1>22, <2>2 DEF PrepareExport, ExportStep, WorkerAt, CountInv, ExportPcs
  <2> QED
    BY <1>22, <2>1, <2>2 DEF PrepareExport, WorkerTo
<1>23. CASE ConnectExport
  BY <1>23 DEF ConnectExport, WorkerAt, CountInv, ExportPcs
<1>24. CASE ClearExport
  BY <1>24 DEF ClearExport, WorkerTo, WorkerAt, ExportStep, CountInv, ExportPcs
<1>25. CASE ExecuteExport
  BY <1>25 DEF ExecuteExport, WorkerAt, ExportStep, CountInv, ExportPcs
<1>26. CASE BindExport
  BY <1>26 DEF BindExport, WorkerTo, WorkerAt, ExportStep, CountInv, ExportPcs
<1>27. CASE PollExport
  <2>1. CASE CloseOperation /\ worker'.pc = "idle"
    BY <2>1, ClosedCount
  <2>2. CASE worker' = [worker EXCEPT !.pc = "drain", !.cursor = "draining", !.batch = 0]
               /\ UNCHANGED op
    BY <1>27, <2>2 DEF PollExport, ExportStep, WorkerAt, CountInv, SubmittingPcs, ExportPcs
  <2> QED
    BY <1>27, <2>1, <2>2 DEF PollExport, TypeOK, WorkerStates
<1>28. CASE TakeDisconnect
  BY <1>28, DownFacts DEF TakeDisconnect, Take, WorkerAt, CountInv
<1>29. CASE TakeShutdown
  BY <1>29 DEF TakeShutdown, CountInv, SubmittingPcs, ExportPcs
<1> QED
  BY <1>1, <1>2, <1>3, <1>4, <1>5, <1>6, <1>7, <1>8, <1>9, <1>10, <1>11, <1>12, <1>13,
     <1>14, <1>15, <1>16, <1>17, <1>18, <1>19, <1>20, <1>21, <1>22, <1>23, <1>24, <1>25, <1>26,
     <1>27, <1>28, <1>29 DEF CalmStep

-----------------------------------------------------------------------------
(* The worker's answers                                                    *)

LEMMA EmitFacts ==
  ASSUME NEW sent \in Seq(EventTypes), events \in Seq(EventTypes), stopped = FALSE, Emit(sent)
  PROVE  /\ Len(events) \in Nat /\ Len(sent) \in Nat /\ Len(events') = Len(events) + Len(sent)
         /\ \A i \in 1..Len(events) : events'[i] = events[i]
         /\ \A i \in 1..Len(sent) : events'[Len(events) + i] = sent[i]
         /\ \A i \in Len(events) + 1..Len(events') :
              i - Len(events) \in 1..Len(sent) /\ events'[i] = sent[i - Len(events)]
         /\ \A i \in 1..Len(events') :
              \/ i \in 1..Len(events) /\ events'[i] = events[i]
              \/ \E j \in 1..Len(sent) : events'[i] = sent[j]
<1>1. /\ Len(events) \in Nat /\ Len(sent) \in Nat /\ Len(events') = Len(events) + Len(sent)
      /\ \A i \in 1..Len(events) : events'[i] = events[i]
      /\ \A i \in 1..Len(sent) : events'[Len(events) + i] = sent[i]
      /\ \A i \in Len(events) + 1..Len(events') :
           i - Len(events) \in 1..Len(sent) /\ events'[i] = sent[i - Len(events)]
  BY ConcatProperties DEF Emit
<1>2. ASSUME NEW i \in 1..Len(events')
      PROVE  \/ i \in 1..Len(events) /\ events'[i] = events[i]
             \/ \E j \in 1..Len(sent) : events'[i] = sent[j]
  <2>1. CASE i <= Len(events)
    BY <1>1, <2>1
  <2>2. CASE i > Len(events)
    <3>1. i \in Len(events) + 1..Len(events')
      BY <1>1, <2>2
    <3> QED
      BY <1>1, <3>1
  <2> QED
    BY <1>1, <2>1, <2>2
<1> QED
  BY <1>1, <1>2

LEMMA OneTail ==
  ASSUME NEW S, NEW s \in Seq(S), Len(s) = 1
  PROVE  s[1] = Head(s) /\ Tail(s) = <<>>
<1>1. s # <<>>
  BY EmptySeq
<1>2. Tail(s) \in Seq(S) /\ Len(Tail(s)) = 0 /\ s[1] = Head(s)
  BY <1>1
<1> DEFINE t == Tail(s)
<1>3. t \in Seq(S) /\ Len(t) = 0
  BY <1>2
<1> HIDE DEF t
<1>4. t = <<>>
  BY <1>3, EmptySeq
<1> QED
  BY <1>2, <1>4 DEF t

\* Before a step of the worker a command is queued or in work, and the step is at it.
LEMMA StepPhase ==
  ASSUME TypeOK, CalmInv, PhaseInv, QueueInv, WorkInv, CalmStep, stopped = FALSE
  PROVE  /\ ui.busy = TRUE /\ commands' = <<>> /\ Unanswered(Len(events))
         /\ Subject = ui.execution
         /\ worker.pc = "idle" =>
              Len(commands) = 1 /\ commands[1] = Head(commands) /\ Head(commands).kind # "shutdown"
<1>1. CASE worker.pc = "idle" /\ commands # <<>> /\ commands' = Tail(commands)
  <2>1. Queued
    BY <1>1 DEF PhaseInv, Quiet, Working, Answered
  <2>2. commands[1] = Head(commands) /\ Tail(commands) = <<>>
    BY <2>1, OneTail DEF Queued, TypeOK
  <2>3. Head(commands).x = ui.execution
    BY <2>1, <2>2 DEF Queued, QueueInv
  <2> QED
    BY <1>1, <2>1, <2>2, <2>3 DEF Queued, Subject
<1>2. CASE worker.pc \notin {"idle", "ended"} /\ UNCHANGED commands
  <2>1. Working
    BY <1>2 DEF PhaseInv, Quiet, Queued, Answered
  <2> QED
    BY <1>2, <2>1 DEF Working, WorkInv, Subject
<1> QED
  BY <1>1, <1>2, WorkerFrame

\* Only a shutdown ends the worker.
LEMMA StillWorks ==
  ASSUME TypeOK, NoMaintenance, CalmInv, CalmStep, worker'.pc = "ended"
  PROVE  worker.pc = "idle" /\ Head(commands).kind = "shutdown"
<1>1. Take("shutdown")
  BY WorkerMoves DEF Moves, TakesExecution, KeepsExecution, SubmittingPcs
<1> QED
  BY <1>1 DEF Take, WorkerAt

LEMMA AnswerStep ==
  ASSUME TypeOK, NoMaintenance, CalmInv, PhaseInv, QueueInv, WorkInv, CalmStep
  PROVE  PhaseInv'
<1>1. UNCHANGED <<ui, stopped>>
  BY WorkerFrame
<1>2. CASE stopped = TRUE
  BY <1>1, <1>2 DEF PhaseInv
<1>3. CASE stopped = FALSE
  <2>1. /\ ui.busy = TRUE /\ commands' = <<>> /\ Unanswered(Len(events))
        /\ Subject = ui.execution
        /\ worker.pc = "idle" => Head(commands).kind # "shutdown"
    BY <1>3, StepPhase
  <2>2. PICK sent \in Seq(EventTypes) :
          /\ Emit(sent)
          /\ \A i \in 1..Len(sent) : Fine(sent[i])
          /\ worker'.pc = "idle" => /\ sent # <<>>
                                    /\ Ends(sent[Len(sent)])
                                    /\ \A i \in 1..Len(sent) - 1 : ~Ends(sent[i])
          /\ worker'.pc # "idle" => \A i \in 1..Len(sent) : ~Ends(sent[i])
    BY WorkerSends DEF Sends
  <2> DEFINE m == Len(events)
             n == Len(events')
  <2>3. /\ m \in Nat /\ Len(sent) \in Nat /\ n = m + Len(sent)
        /\ \A i \in 1..m : events'[i] = events[i]
        /\ \A i \in m + 1..n : i - m \in 1..Len(sent) /\ events'[i] = sent[i - m]
    BY <1>3, <2>2, EmitFacts DEF TypeOK
  <2> HIDE DEF m, n
  <2>4. \A i \in 1..m : ~Ends(events'[i])
    BY <2>1, <2>3 DEF Unanswered, m
  <2>5. CASE worker'.pc = "idle"
    <3>1. Len(sent) >= 1 /\ n \in 1..n /\ n - m = Len(sent) /\ n \in m + 1..n
      BY <2>2, <2>3, <2>5
    <3>2. Ends(events'[n]) /\ Fine(events'[n])
      BY <2>2, <2>3, <2>5, <3>1
    <3>3. Concerns(events'[n], ui.execution)
      BY <2>1, <3>2 DEF Fine, Concerns
    <3>4. \A i \in 1..n - 1 : ~Ends(events'[i])
      <4>1. ASSUME NEW i \in 1..n - 1, i > m PROVE ~Ends(events'[i])
        <5>1. i \in m + 1..n /\ i - m \in 1..Len(sent) - 1
          BY <2>3, <4>1
        <5> QED
          BY <2>2, <2>3, <2>5, <5>1
      <4> QED
        BY <2>3, <2>4, <4>1
    <3>5. Answered'
      BY <1>1, <2>1, <2>5, <3>1, <3>2, <3>3, <3>4 DEF Answered, Unanswered,
         OnlyCancelErrors, n
    <3> QED
      BY <1>1, <3>5 DEF PhaseInv
  <2>6. CASE worker'.pc # "idle"
    <3>1. worker'.pc # "ended"
      BY <2>1, StillWorks
    <3>2. \A i \in 1..n : ~Ends(events'[i])
      BY <2>2, <2>3, <2>4, <2>6
    <3>3. Working'
      BY <1>1, <2>1, <2>6, <3>1, <3>2 DEF Working, Unanswered, n
    <3> QED
      BY <1>1, <3>3 DEF PhaseInv
  <2> QED
    BY <2>5, <2>6
<1> QED
  BY <1>2, <1>3 DEF TypeOK


LEMMA ChannelStep ==
  ASSUME TypeOK, NoMaintenance, CalmInv, ChannelInv, WorkInv, CalmStep
  PROVE  ChannelInv'
<1>1. UNCHANGED <<ui, stopped>>
  BY WorkerFrame
<1>2. PICK sent \in Seq(EventTypes) : Emit(sent) /\ \A i \in 1..Len(sent) : Fine(sent[i])
  BY WorkerSends DEF Sends
<1>3. CASE stopped = TRUE
  BY <1>1, <1>2, <1>3 DEF Emit, ChannelInv
<1>4. CASE stopped = FALSE
  <2>1. \A i \in 1..Len(events') :
          \/ i \in 1..Len(events) /\ events'[i] = events[i]
          \/ \E j \in 1..Len(sent) : events'[i] = sent[j]
    BY <1>2, <1>4, EmitFacts DEF TypeOK
  <2>2. \A j \in 1..Len(sent) : /\ sent[j].kind # "keepAliveFinished"
                                /\ sent[j].kind = "rows" => sent[j].x = ui.execution
    BY <1>2 DEF Fine, WorkInv
  <2> QED
    BY <1>1, <2>1, <2>2 DEF ChannelInv
<1> QED
  BY <1>3, <1>4 DEF TypeOK

LEMMA MoreStep ==
  ASSUME TypeOK, NoMaintenance, CalmInv, PhaseInv, QueueInv, WorkInv, MoreInv, CalmStep
  PROVE  MoreInv'
<1>1. UNCHANGED <<ui, stopped>>
  BY WorkerFrame
<1>2. CASE stopped = TRUE
  BY <1>1, <1>2 DEF MoreInv
<1>3. CASE stopped = FALSE
  <2>1. /\ ui.busy = TRUE /\ commands' = <<>> /\ Unanswered(Len(events))
        /\ worker.pc = "idle" => Len(commands) = 1 /\ commands[1] = Head(commands)
    BY <1>3, StepPhase
  <2>2. PICK sent \in Seq(EventTypes) : Emit(sent) /\ \A i \in 1..Len(sent) : Fine(sent[i])
    BY WorkerSends DEF Sends
  <2>3. \A i \in 1..Len(events') :
          \/ i \in 1..Len(events) /\ events'[i] = events[i]
          \/ \E j \in 1..Len(sent) : events'[i] = sent[j]
    BY <1>3, <2>2, EmitFacts DEF TypeOK
  <2>4. \A i \in 1..Len(events) : events[i].kind \notin {"ready", "downloadFailed"}
    BY <2>1 DEF Unanswered, Ends
  <2>5. ASSUME NEW j \in 1..Len(sent)
        PROVE  /\ sent[j].kind = "ready" /\ sent[j].more = TRUE => Aligned'
               /\ sent[j].kind = "downloadFailed" /\ sent[j].consumed = FALSE /\ ui.more = TRUE
                    => Aligned'
    <3>1. Fine(sent[j])
      BY <2>2
    <3>2. CASE /\ worker.pc = "paged"
               /\ worker' = [worker EXCEPT !.pc = "idle", !.cursor = "available"]
      BY <1>1, <3>2 DEF WorkInv, Aligned, TypeOK, WorkerStates
    <3>3. CASE worker.pc = "idle" /\ worker' = worker /\ ui.more = TRUE
               /\ Head(commands).kind \in {"drain", "export"}
      <4>1. Len(commands) = 1 /\ commands[1].kind \in {"drain", "export"}
        BY <2>1, <3>3
      <4>2. Aligned
        BY <1>3, <3>3, <4>1 DEF MoreInv
      <4> QED
        BY <1>1, <3>3, <4>2 DEF Aligned
    <3> QED
      BY <3>1, <3>2, <3>3 DEF Fine
  <2>6. \A i \in 1..Len(events') :
          /\ events'[i].kind = "ready" /\ events'[i].more = TRUE => Aligned'
          /\ events'[i].kind = "downloadFailed" /\ events'[i].consumed = FALSE /\ ui.more = TRUE
               => Aligned'
    BY <2>3, <2>4, <2>5
  <2>7. Len(commands') = 0
    BY <2>1
  <2> QED
    BY <1>1, <2>1, <2>6, <2>7 DEF MoreInv
<1> QED
  BY <1>2, <1>3 DEF TypeOK

LEMMA WorkerOrder ==
  ASSUME NoMaintenance, OrderInv, WorkerStep
  PROVE  OrderInv'
<1>1. TabIInv'
  BY WorkerTyped, TargetStep, RowsStep, ExportStepKeeps DEF OrderInv, TabIInv
<1>2. CalmStep
  BY OnlyCalmSteps DEF OrderInv
<1> QED
  BY <1>1, <1>2, CalmStepKeeps, AnswerStep, ChannelStep, MoreStep, QueueStep, WorkStep,
     RequestStep, CountStep DEF OrderInv, TabIInv

-----------------------------------------------------------------------------
(* The user's steps                                                        *)

LEMMA FromQuiet ==
  ASSUME OrderInv, UiReady, ~ui.busy
  PROVE  Quiet /\ stopped = FALSE /\ commands = <<>> /\ worker.pc = "idle"
  BY Typed DEF OrderInv, TabIInv, UiReady, PhaseInv, Quiet, Queued, Working, Answered

LEMMA Submitted ==
  ASSUME OrderInv, Quiet, stopped = FALSE, NEW c,
         UNCHANGED <<worker, op, events, stopped, idles>>,
         commands' = Append(commands, c), ui'.busy = TRUE, ui'.pc = "ready",
         c.kind # "shutdown", c.x = ui'.execution,
         c.kind = "run" => c.x # 0,
         c.kind = "more" => Aligned',
         c.kind = "drain" /\ ui'.more = TRUE => Aligned',
         c.kind = "export" => ui'.more = FALSE
  PROVE  /\ CalmInv' /\ PhaseInv' /\ ChannelInv' /\ MoreInv' /\ QueueInv' /\ WorkInv'
         /\ CountInv'
         /\ \A i \in 1..Len(commands') : commands'[i] = c
         /\ worker'.pc = "idle"
<1>1. Len(commands') = 1 /\ commands'[1] = c
  BY DEF Quiet
<1>2. \A i \in 1..Len(commands') : i = 1
  BY <1>1
<1>3. worker.pc = "idle" /\ \A i \in 1..Len(events) : events[i].kind = "cancelError"
  BY DEF Quiet, OnlyCancelErrors
<1>4. CalmInv' /\ CountInv'
  BY DEF OrderInv, CalmInv, CountInv
<1>5. PhaseInv'
  BY <1>1, <1>3 DEF PhaseInv, Queued, Unanswered, Ends
<1>6. ChannelInv'
  BY <1>3 DEF ChannelInv
<1>7. MoreInv'
  BY <1>1, <1>2, <1>3 DEF MoreInv
<1>8. QueueInv'
  BY <1>1, <1>2, <1>3 DEF QueueInv
<1>9. WorkInv'
  BY <1>3 DEF WorkInv, SubmittingPcs
<1> QED
  BY <1>1, <1>2, <1>3, <1>4, <1>5, <1>6, <1>7, <1>8, <1>9

LEMMA SubmitOrder ==
  ASSUME OrderInv, TabIInv', Run \/ RunExport \/ More \/ DrainCursor \/ Disconnect
  PROVE  OrderInv'
<1>1. Quiet /\ stopped = FALSE /\ worker.pc = "idle"
  BY FromQuiet DEF Run, RunExport, More, DrainCursor, Disconnect
<1>2. ui \in UiStates /\ ui.execution \in Nat /\ ui.pc = "ready"
  BY Typed DEF OrderInv, TabIInv, TypeOK, Run, RunExport, More, DrainCursor, Disconnect,
     UiReady
<1>3. \A x \in requested : x \in Nat /\ x <= ui.execution
  BY Typed DEF OrderInv, TabIInv, TypeOK, RequestInv
<1>4. ui.more = TRUE => Aligned
  BY <1>1 DEF OrderInv, MoreInv, Quiet
<1>5. CASE Run
  <2> DEFINE c == Command("run", ui.execution + 1, 0, 0)
  <2>1. c.kind = "run" /\ c.x = ui.execution + 1 /\ c.x # 0
    BY <1>2 DEF Command
  <2>2. /\ UNCHANGED <<worker, op, events, stopped, idles, requested>>
        /\ commands' = Append(commands, c)
        /\ ui'.busy = TRUE /\ ui'.pc = "ready" /\ ui'.execution = ui.execution + 1
    BY <1>2, <1>5 DEF Run, Start, UiStates, workerState, history
  <2> HIDE DEF c
  <2>3. /\ CalmInv' /\ PhaseInv' /\ ChannelInv' /\ MoreInv' /\ QueueInv' /\ WorkInv'
        /\ CountInv'
        /\ \A i \in 1..Len(commands') : commands'[i] = c
        /\ worker'.pc = "idle"
    BY <1>1, <1>2, <2>1, <2>2, Submitted
  <2>4. RequestInv'
    <3>1. \A x \in requested : x <= ui'.execution /\ x # c.x
      BY <1>2, <1>3, <2>1, <2>2
    <3> QED
      BY <2>2, <2>3, <3>1 DEF RequestInv, SubmittingPcs
  <2> QED
    BY <2>3, <2>4 DEF OrderInv
<1>6. CASE RunExport
  <2>1. PICK expected :
          commands' = Append(commands, Command("export", ui.execution + 1, 0, expected))
    BY <1>6 DEF RunExport
  <2> DEFINE c == Command("export", ui.execution + 1, 0, expected)
  <2>2. c.kind = "export" /\ c.x = ui.execution + 1
    BY DEF Command
  <2>3. /\ UNCHANGED <<worker, op, events, stopped, idles, requested>>
        /\ commands' = Append(commands, c)
        /\ ui'.busy = TRUE /\ ui'.pc = "ready" /\ ui'.execution = ui.execution + 1
        /\ ui'.more = FALSE
    BY <1>2, <1>6, <2>1 DEF RunExport, Start, UiStates, workerState, history
  <2> HIDE DEF c
  <2>4. /\ CalmInv' /\ PhaseInv' /\ ChannelInv' /\ MoreInv' /\ QueueInv' /\ WorkInv'
        /\ CountInv'
        /\ \A i \in 1..Len(commands') : commands'[i] = c
        /\ worker'.pc = "idle"
    BY <1>1, <1>2, <2>2, <2>3, Submitted
  <2>5. RequestInv'
    <3>1. \A x \in requested : x <= ui'.execution
      BY <1>2, <1>3, <2>3
    <3> QED
      BY <2>2, <2>3, <2>4, <3>1 DEF RequestInv, SubmittingPcs
  <2> QED
    BY <2>4, <2>5 DEF OrderInv
<1>7. ASSUME NEW kind \in {"more", "drain", "disconnect"}, NEW rows,
             commands' = Append(commands, Command(kind, ui.execution, rows, 0)),
             UNCHANGED <<worker, op, events, stopped, idles, requested>>,
             ui'.busy = TRUE, ui'.pc = "ready", ui'.execution = ui.execution, ui'.more = ui.more,
             kind = "more" => ui.more = TRUE
      PROVE  OrderInv'
  <2> DEFINE c == Command(kind, ui.execution, rows, 0)
  <2>1. c.kind = kind /\ c.x = ui.execution /\ commands' = Append(commands, c)
    BY <1>7 DEF Command
  <2>2. Aligned => Aligned'
    BY <1>7 DEF Aligned
  <2> HIDE DEF c
  <2>3. /\ CalmInv' /\ PhaseInv' /\ ChannelInv' /\ MoreInv' /\ QueueInv' /\ WorkInv'
        /\ CountInv'
        /\ \A i \in 1..Len(commands') : commands'[i] = c
        /\ worker'.pc = "idle"
    BY <1>1, <1>4, <1>7, <2>1, <2>2, Submitted
  <2>4. RequestInv'
    BY <1>3, <1>7, <2>1, <2>3 DEF RequestInv, SubmittingPcs
  <2> QED
    BY <2>3, <2>4 DEF OrderInv
<1>8. CASE More
  BY <1>2, <1>7, <1>8 DEF More, Send, UiStates, workerState, history
<1>9. CASE DrainCursor
  BY <1>2, <1>7, <1>9 DEF DrainCursor, UiStates, workerState, history
<1>10. CASE Disconnect
  BY <1>2, <1>7, <1>10 DEF Disconnect, Send, UiStates, workerState, history
<1> QED
  BY <1>5, <1>6, <1>8, <1>9, <1>10

LEMMA SameTab ==
  ASSUME OrderInv, UNCHANGED <<commands, worker, op, events, idles, stopped>>,
         ui'.busy = ui.busy, ui'.more = ui.more, ui'.execution = ui.execution,
         ui'.pc \in {"send", "closed"} => stopped = TRUE
  PROVE  /\ CalmInv' /\ PhaseInv' /\ ChannelInv' /\ MoreInv' /\ QueueInv' /\ WorkInv'
         /\ CountInv'
<1>1. PhaseInv'
  BY DEF OrderInv, PhaseInv, Quiet, Queued, Working, Answered, OnlyCancelErrors, Unanswered
<1>2. ChannelInv' /\ MoreInv' /\ QueueInv'
  BY DEF OrderInv, ChannelInv, MoreInv, QueueInv, Aligned
<1>3. CalmInv' /\ WorkInv' /\ CountInv'
  BY DEF OrderInv, CalmInv, WorkInv, CountInv
<1> QED
  BY <1>1, <1>2, <1>3

LEMMA CancelOrder ==
  ASSUME OrderInv, TabIInv', CancelTab \/ CancelDownload \/ CancelFlag \/ CancelTarget
  PROVE  OrderInv'
<1>1. ui \in UiStates
  BY DEF OrderInv, TabIInv, TypeOK
<1>2. CASE CancelTab
  <2>1. CalmInv' /\ PhaseInv' /\ ChannelInv' /\ MoreInv' /\ QueueInv' /\ WorkInv' /\ CountInv'
    BY <1>1, <1>2, SameTab DEF CancelTab, UiStates, workerState
  <2>2. RequestInv'
    BY <1>1, <1>2 DEF OrderInv, RequestInv, CancelTab, UiStates, workerState, history
  <2> QED
    BY <2>1, <2>2 DEF OrderInv
<1>3. CASE CancelDownload
  <2>1. CalmInv' /\ PhaseInv' /\ ChannelInv' /\ MoreInv' /\ QueueInv' /\ WorkInv' /\ CountInv'
    BY <1>1, <1>3, SameTab, Typed DEF OrderInv, TabIInv, CancelDownload, AfterCancel,
       UiStates, workerState
  <2>2. RequestInv'
    BY <1>1, <1>3 DEF OrderInv, RequestInv, CancelDownload, AfterCancel, UiStates,
       workerState, history
  <2> QED
    BY <2>1, <2>2 DEF OrderInv
<1>4. CASE CancelTarget
  <2>1. CalmInv' /\ PhaseInv' /\ ChannelInv' /\ MoreInv' /\ QueueInv' /\ WorkInv' /\ CountInv'
    BY <1>1, <1>4, SameTab, Typed DEF OrderInv, TabIInv, CancelTarget, AfterCancel,
       UiStates, workerState
  <2>2. RequestInv'
    BY <1>1, <1>4 DEF OrderInv, RequestInv, CancelTarget, AfterCancel, UiStates,
       workerState, history
  <2> QED
    BY <2>1, <2>2 DEF OrderInv
<1>5. CASE CancelFlag
  <2>1. CalmInv' /\ PhaseInv' /\ ChannelInv' /\ MoreInv' /\ QueueInv' /\ WorkInv' /\ CountInv'
    BY <1>1, <1>5, SameTab DEF CancelFlag, UiStates, workerState
  <2>2. RequestInv'
    BY <1>1, <1>5, Typed DEF OrderInv, TabIInv, RequestInv, CancelFlag, UiStates,
       workerState
  <2> QED
    BY <2>1, <2>2 DEF OrderInv
<1> QED
  BY <1>2, <1>3, <1>4, <1>5

LEMMA OpenOrder ==
  ASSUME OrderInv, TabIInv', OpenExport
  PROVE  OrderInv'
<1>1. ui \in UiStates
  BY DEF OrderInv, TabIInv, TypeOK
<1>2. CalmInv' /\ PhaseInv' /\ ChannelInv' /\ MoreInv' /\ QueueInv' /\ WorkInv' /\ CountInv'
  BY <1>1, SameTab DEF OpenExport, UiReady, UiStates, workerState
<1>3. RequestInv'
  BY <1>1 DEF OrderInv, RequestInv, OpenExport, UiStates, workerState, history
<1> QED
  BY <1>2, <1>3 DEF OrderInv

LEMMA ShutdownOrder ==
  ASSUME OrderInv, TabIInv', Shutdown \/ SendShutdown
  PROVE  OrderInv'
<1>1. ui \in UiStates
  BY DEF OrderInv, TabIInv, TypeOK
<1>2. CASE Shutdown
  <2>1. /\ ui'.execution = ui.execution /\ stopped' = TRUE
        /\ UNCHANGED <<commands, worker, op, idles, cancelled, requested>>
        /\ Len(events') = 0
    BY <1>1, <1>2 DEF Shutdown, UiStates, history
  <2>2. PhaseInv' /\ MoreInv' /\ ChannelInv'
    BY <2>1 DEF PhaseInv, MoreInv, ChannelInv
  <2> QED
    BY <2>1, <2>2 DEF OrderInv, CalmInv, QueueInv, WorkInv, RequestInv, CountInv, Aligned
<1>3. CASE SendShutdown
  <2> DEFINE c == Command("shutdown", ui.execution, 0, 0)
  <2>1. /\ ui'.execution = ui.execution /\ stopped = TRUE
        /\ UNCHANGED <<worker, op, events, idles, stopped, cancelled, requested>>
        /\ commands' = Append(commands, c) /\ c.kind = "shutdown"
    BY <1>1, <1>3 DEF SendShutdown, Send, Command, UiStates, workerState, history, OrderInv,
       PhaseInv
  <2> HIDE DEF c
  <2>2. \A i \in 1..Len(commands') :
          \/ i \in 1..Len(commands) /\ commands'[i] = commands[i]
          \/ commands'[i].kind = "shutdown"
    BY <2>1 DEF OrderInv, TabIInv, TypeOK
  <2>3. PhaseInv' /\ MoreInv' /\ ChannelInv'
    BY <2>1 DEF OrderInv, PhaseInv, MoreInv, ChannelInv
  <2>4. QueueInv' /\ RequestInv'
    BY <2>1, <2>2 DEF OrderInv, QueueInv, RequestInv, Aligned
  <2> QED
    BY <2>1, <2>3, <2>4 DEF OrderInv, CalmInv, WorkInv, CountInv
<1> QED
  BY <1>2, <1>3

LEMMA StopOrder ==
  ASSUME OrderInv, TabIInv', StopExport
  PROVE  OrderInv'
<1>1. /\ Len(commands') = Len(commands)
      /\ \A i \in 1..Len(commands) :
           commands'[i].kind = commands[i].kind /\ commands'[i].x = commands[i].x
  <2>1. ASSUME NEW i \in 1..Len(commands), commands' = [commands EXCEPT ![i].stopped = TRUE]
        PROVE  /\ Len(commands') = Len(commands)
               /\ \A j \in 1..Len(commands) :
                    commands'[j].kind = commands[j].kind /\ commands'[j].x = commands[j].x
    BY <2>1 DEF OrderInv, TabIInv, TypeOK, CommandTypes
  <2> QED
    BY <2>1 DEF StopExport
<1>2. UNCHANGED <<ui, worker, op, events, idles, stopped, cancelled, requested>>
  BY DEF StopExport, workerState, history
<1>3. commands = <<>> => commands' = <<>>
  BY <1>1, EmptySeq DEF OrderInv, TabIInv, TypeOK
<1>4. PhaseInv'
  BY <1>1, <1>2, <1>3 DEF OrderInv, PhaseInv, Quiet, Queued, Working, Answered,
     OnlyCancelErrors, Unanswered
<1>5. ChannelInv' /\ MoreInv' /\ QueueInv' /\ RequestInv'
  BY <1>1, <1>2 DEF OrderInv, ChannelInv, MoreInv, QueueInv, RequestInv, Aligned
<1> QED
  BY <1>2, <1>4, <1>5 DEF OrderInv, CalmInv, WorkInv, CountInv

LEMMA Reached ==
  ASSUME OrderInv, events # <<>>
  PROVE  /\ Len(events) \in Nat \ {0} /\ Head(events) = events[1] /\ Head(events) \in EventTypes
         /\ Tail(events) \in Seq(EventTypes) /\ Len(Tail(events)) = Len(events) - 1
         /\ \A i \in 1..Len(events) - 1 : Tail(events)[i] = events[i + 1]
  BY DEF OrderInv, TabIInv, TypeOK

LEMMA CancelErrorFacts ==
  ASSUME NEW u \in UiStates, NEW e, e.kind = "cancelError"
  PROVE  Apply(u, e).busy = u.busy
  BY DEF Apply, ApplyAlways, CancelFailed, UiStates

LEMMA PollOrder ==
  ASSUME OrderInv, TabIInv', PollEvent
  PROVE  OrderInv'
<1> DEFINE e == Head(events)
           v == Apply(ui, e)
           m == Len(events)
<1>1. /\ m \in Nat \ {0} /\ e = events[1] /\ e \in EventTypes
      /\ events' = Tail(events) /\ Len(events') = m - 1
      /\ \A i \in 1..m - 1 : events'[i] = events[i + 1] /\ i + 1 \in 1..m
  BY Reached DEF PollEvent
<1>2. Applied(ui, v, e) /\ ui \in UiStates
  BY <1>1, ApplyFacts DEF OrderInv, TabIInv, TypeOK
<1>3. e.kind = "cancelError" => v.busy = ui.busy
  BY <1>2, CancelErrorFacts
<1>4. ui' = [v EXCEPT !.pc = IF Tail(events) = <<>> THEN "ready" ELSE "events"]
  BY DEF PollEvent
<1>5. /\ stopped = FALSE
      /\ UNCHANGED <<commands, worker, op, idles, stopped, cancelled, requested>>
  BY Typed DEF PollEvent, history, OrderInv, TabIInv
<1> HIDE DEF v, e, m
<1>6. ui'.execution = ui.execution /\ ui'.busy = v.busy /\ ui'.more = v.more
      /\ ui'.pc \in {"ready", "events"}
  BY <1>2, <1>4 DEF Applied, UiStates
<1>7. e.kind # "keepAliveFinished"
  BY <1>1 DEF OrderInv, ChannelInv, m
<1>8. ui.busy = TRUE /\ ~Ends(e) => ui'.busy = TRUE
  BY <1>2, <1>6 DEF Applied
<1>9. ui'.more = TRUE => ui.more = TRUE \/ (e.kind = "ready" /\ e.more = TRUE)
  BY <1>2, <1>6 DEF Applied
<1>10. Ends(e) /\ Concerns(e, ui.execution) =>
         /\ ui'.busy = FALSE
         /\ ui'.more = TRUE => \/ e.kind = "ready" /\ e.more = TRUE
                               \/ e.kind = "downloadFailed" /\ e.consumed = FALSE
  BY <1>2, <1>6, <1>7 DEF Applied
<1>11. PhaseInv' /\ (ui'.busy = FALSE => ui.busy = FALSE \/ (Ends(e) /\ Concerns(e, ui.execution)))
  <2>1. CASE Quiet
    <3>1. ui'.busy = FALSE
      BY <1>1, <1>3, <1>6, <2>1 DEF Quiet, OnlyCancelErrors, m
    <3>2. Quiet'
      BY <1>1, <1>5, <2>1, <3>1 DEF Quiet, OnlyCancelErrors, m
    <3> QED
      BY <1>6, <2>1, <3>2 DEF PhaseInv, Quiet
  <2>2. CASE Queued
    <3>1. ~Ends(e)
      BY <1>1, <2>2 DEF Queued, Unanswered, m
    <3>2. Queued'
      BY <1>1, <1>5, <1>8, <2>2, <3>1 DEF Queued, Unanswered, m
    <3> QED
      BY <1>6, <3>2 DEF PhaseInv, Queued
  <2>3. CASE Working
    <3>1. ~Ends(e)
      BY <1>1, <2>3 DEF Working, Unanswered, m
    <3>2. Working'
      BY <1>1, <1>5, <1>8, <2>3, <3>1 DEF Working, Unanswered, m
    <3> QED
      BY <1>6, <3>2 DEF PhaseInv, Working
  <2>4. CASE Answered
    <3>1. PICK n \in 1..m : /\ Ends(events[n])
                            /\ Concerns(events[n], ui.execution)
                            /\ Unanswered(n - 1)
                            /\ OnlyCancelErrors(n + 1)
      BY <2>4 DEF Answered, m
    <3>2. CASE n = 1
      <4>1. ui'.busy = FALSE /\ Ends(e) /\ Concerns(e, ui.execution)
        BY <1>1, <1>10, <3>1, <3>2
      <4>2. \A i \in 1..m - 1 : events'[i].kind = "cancelError"
        BY <1>1, <3>1, <3>2 DEF OnlyCancelErrors, m
      <4>3. Quiet'
        BY <1>1, <1>5, <2>4, <4>1, <4>2 DEF Quiet, Answered, OnlyCancelErrors
      <4> QED
        BY <1>6, <4>1, <4>3 DEF PhaseInv
    <3>3. CASE n # 1
      <4>1. ~Ends(e)
        BY <1>1, <3>1, <3>3 DEF Unanswered
      <4> DEFINE k == n - 1
      <4>2. k \in 1..m - 1 /\ events'[k] = events[n]
        BY <1>1, <3>1, <3>3
      <4>3. \A i \in 1..k - 1 : ~Ends(events'[i])
        BY <1>1, <3>1, <3>3 DEF Unanswered
      <4>4. \A i \in k + 1..m - 1 : events'[i].kind = "cancelError"
        BY <1>1, <3>1, <3>3 DEF OnlyCancelErrors, m
      <4> HIDE DEF k
      <4>5. ui'.busy = TRUE
        BY <1>8, <2>4, <4>1 DEF Answered
      <4>6. Answered'
        BY <1>1, <1>5, <1>6, <2>4, <3>1, <4>2, <4>3, <4>4, <4>5 DEF Answered, Unanswered,
           OnlyCancelErrors
      <4> QED
        BY <1>6, <4>5, <4>6 DEF PhaseInv
    <3> QED
      BY <3>2, <3>3
  <2> QED
    BY <1>5, <2>1, <2>2, <2>3, <2>4 DEF OrderInv, PhaseInv
<1>12. ChannelInv'
  BY <1>1, <1>6 DEF OrderInv, ChannelInv, m
<1>13. MoreInv'
  <2>1. Aligned => Aligned'
    BY <1>5, <1>6 DEF Aligned
  <2>2. e.kind = "ready" /\ e.more = TRUE => Aligned
    BY <1>1, <1>5 DEF OrderInv, MoreInv, m
  <2>3. e.kind = "downloadFailed" /\ e.consumed = FALSE /\ ui.more = TRUE => Aligned
    BY <1>1, <1>5 DEF OrderInv, MoreInv, m
  <2>4. ui'.more = TRUE /\ ui'.busy = FALSE => Aligned
    <3>1. CASE ui.busy = FALSE
      BY <1>5, <1>9, <2>2, <3>1 DEF OrderInv, MoreInv
    <3>2. CASE Ends(e) /\ Concerns(e, ui.execution)
      BY <1>9, <1>10, <2>2, <2>3, <3>2
    <3> QED
      BY <1>11, <3>1, <3>2
  <2>5. \A i \in 1..m - 1 :
          /\ events'[i].kind = "ready" /\ events'[i].more = TRUE => Aligned
          /\ events'[i].kind = "downloadFailed" /\ events'[i].consumed = FALSE /\ ui'.more = TRUE
               => Aligned
    BY <1>1, <1>5, <1>9, <2>2 DEF OrderInv, MoreInv, m
  <2>6. \A i \in 1..Len(commands) :
          /\ commands[i].kind = "drain" /\ ui'.more = TRUE => Aligned
          /\ commands[i].kind = "export" => ui'.more = FALSE
    <3>1. ASSUME NEW i \in 1..Len(commands), commands[i].kind = "export" PROVE ui'.more = FALSE
      <4>1. ui.more = FALSE /\ Queued
        BY <1>5, <3>1 DEF OrderInv, MoreInv, PhaseInv, Quiet, Working, Answered
      <4>2. ~Ends(e)
        BY <1>1, <4>1 DEF Queued, Unanswered, m
      <4>3. ui'.more \in BOOLEAN
        BY DEF TabIInv, TypeOK, UiStates
      <4> QED
        BY <1>9, <4>1, <4>2, <4>3 DEF Ends
    <3> QED
      BY <1>5, <1>9, <2>2, <3>1 DEF OrderInv, MoreInv
  <2> QED
    BY <1>1, <1>5, <2>1, <2>4, <2>5, <2>6 DEF MoreInv
<1> QED
  BY <1>5, <1>6, <1>11, <1>12, <1>13 DEF OrderInv, CalmInv, QueueInv, WorkInv, RequestInv,
     CountInv, Aligned

LEMMA CancelErrorOrder ==
  ASSUME OrderInv, TabIInv', NEW c \in cancels, SendCancel(c)
  PROVE  OrderInv'
<1>1. UNCHANGED <<ui, commands, worker, op, stopped, idles, cancelled, requested>>
  BY DEF SendCancel, tabState
<1>2. CASE UNCHANGED events
  BY <1>1, <1>2 DEF OrderInv, CalmInv, PhaseInv, Quiet, Queued, Working, Answered,
     Unanswered, OnlyCancelErrors, ChannelInv, MoreInv, QueueInv, WorkInv, RequestInv,
     CountInv, Aligned
<1>3. CASE stopped = FALSE /\ Emit(<<Kind("cancelError")>>)
  <2> DEFINE sent == <<Kind("cancelError")>>
             m == Len(events)
  <2>1. sent \in Seq(EventTypes) /\ Len(sent) = 1 /\ sent[1].kind = "cancelError"
    BY EventFacts DEF Kind, OrderInv, TabIInv
  <2>2. Emit(sent)
    BY <1>3
  <2> HIDE DEF sent
  <2>3. /\ m \in Nat /\ Len(events') = m + 1
        /\ \A i \in 1..m : events'[i] = events[i]
        /\ events'[m + 1] = sent[1]
    <3>1. /\ m \in Nat /\ Len(events') = m + Len(sent)
          /\ \A i \in 1..m : events'[i] = events[i]
          /\ \A i \in 1..Len(sent) : events'[m + i] = sent[i]
      BY <1>3, <2>1, <2>2, EmitFacts DEF OrderInv, TabIInv, TypeOK
    <3>2. 1 \in 1..Len(sent)
      BY <2>1
    <3> QED
      BY <2>1, <3>1, <3>2
  <2>4. events'[m + 1].kind = "cancelError" /\ ~Ends(events'[m + 1])
    BY <2>1, <2>3 DEF Ends
  <2> HIDE DEF m
  <2>5. \A i \in 1..m + 1 : i \in 1..m \/ i = m + 1
    BY <2>3
  <2>6. PhaseInv'
    <3>1. Quiet => Quiet'
      BY <1>1, <2>3, <2>4, <2>5 DEF Quiet, OnlyCancelErrors, m
    <3>2. Queued => Queued'
      BY <1>1, <2>3, <2>4, <2>5 DEF Queued, Unanswered, m
    <3>3. Working => Working'
      BY <1>1, <2>3, <2>4, <2>5 DEF Working, Unanswered, m
    <3>4. ASSUME Answered PROVE Answered'
      <4>1. PICK n \in 1..m : /\ Ends(events[n])
                              /\ Concerns(events[n], ui.execution)
                              /\ Unanswered(n - 1)
                              /\ OnlyCancelErrors(n + 1)
        BY <3>4 DEF Answered, m
      <4>2. n \in 1..m + 1 /\ events'[n] = events[n]
        BY <2>3, <4>1
      <4>3. \A i \in 1..n - 1 : ~Ends(events'[i])
        BY <2>3, <4>1 DEF Unanswered
      <4>4. \A i \in n + 1..m + 1 : events'[i].kind = "cancelError"
        BY <2>3, <2>4, <2>5, <4>1 DEF OnlyCancelErrors, m
      <4> QED
        BY <1>1, <2>3, <3>4, <4>1, <4>2, <4>3, <4>4 DEF Answered, Unanswered,
           OnlyCancelErrors
    <3> QED
      BY <1>1, <3>1, <3>2, <3>3, <3>4 DEF OrderInv, PhaseInv
  <2>7. ChannelInv' /\ MoreInv'
    BY <1>1, <2>3, <2>4, <2>5 DEF OrderInv, ChannelInv, MoreInv, Aligned, m
  <2> QED
    BY <1>1, <2>6, <2>7 DEF OrderInv, CalmInv, QueueInv, WorkInv, RequestInv, CountInv,
       Aligned
<1>4. stopped \in BOOLEAN
  BY Typed DEF OrderInv, TabIInv
<1> QED
  BY <1>2, <1>3, <1>4 DEF SendCancel, Silent, Emit

-----------------------------------------------------------------------------
(* The theorems                                                            *)

LEMMA OrderInit == NoMaintenance /\ Init => OrderInv
<1> SUFFICES ASSUME NoMaintenance, Init PROVE OrderInv
  OBVIOUS
<1>1. commands = <<>> /\ events = <<>> /\ Len(commands) = 0 /\ Len(events) = 0
      /\ worker.pc = "idle" /\ idles = 0 /\ requested = {} /\ op.x = 0
      /\ ui.busy = FALSE /\ ui.more = FALSE /\ ui.pc = "ready"
  BY DEF Init, NoOp
<1>2. PhaseInv
  BY <1>1 DEF PhaseInv, Quiet, OnlyCancelErrors
<1> QED
  BY <1>1, <1>2, TabInit DEF OrderInv, CalmInv, ChannelInv, MoreInv, QueueInv, WorkInv,
     RequestInv, CountInv, SubmittingPcs, ExportPcs

LEMMA OrderNext ==
  ASSUME NoMaintenance, OrderInv, [Next]_vars
  PROVE  OrderInv'
<1>1. TabIInv'
  BY TabNext DEF OrderInv
<1>2. CASE UNCHANGED vars
  BY <1>1, <1>2 DEF vars, tabState, history, OrderInv, CalmInv, PhaseInv, Quiet, Queued,
     Working, Answered, Unanswered, OnlyCancelErrors, ChannelInv, MoreInv, QueueInv, WorkInv,
     RequestInv, CountInv, Aligned
<1> QED
  BY <1>1, <1>2, WorkerOrder, SubmitOrder, OpenOrder, CancelOrder, ShutdownOrder, StopOrder,
     PollOrder,
     CancelErrorOrder DEF Next, CancelStep, Finished

LEMMA OrderAlways == ASSUME NoMaintenance PROVE Spec => []OrderInv
  BY OrderInit, OrderNext, PTL DEF Spec


LEMMA DrainedFrame ==
  ASSUME CalmStep
  PROVE  CompleteDrain \/ UNCHANGED drained
<1>1. CASE TakeRun
  BY <1>1 DEF TakeRun, history, Take
<1>2. CASE PrepareSession
  BY <1>2 DEF PrepareSession, history
<1>3. CASE Connect
  BY <1>3 DEF Connect, history
<1>4. CASE CheckCancelled
  BY <1>4 DEF CheckCancelled, history
<1>5. CASE ClearTarget
  BY <1>5 DEF ClearTarget, history
<1>6. CASE Execute
  BY <1>6 DEF Execute, history
<1>7. CASE PublishTarget
  BY <1>7 DEF PublishTarget, history
<1>8. CASE CatchCancel
  BY <1>8 DEF CatchCancel, history
<1>9. CASE PollResult
  BY <1>9 DEF PollResult, history
<1>10. CASE TakeMore
  BY <1>10 DEF TakeMore, history, Take
<1>11. CASE Fetch
  BY <1>11 DEF Fetch, history
<1>12. CASE ShowPage
  BY <1>12 DEF ShowPage, history
<1>13. CASE FinishPage
  BY <1>13 DEF FinishPage, history
<1>14. CASE RefuseDrain
  BY <1>14 DEF RefuseDrain, history, Take
<1>15. CASE BindDrain
  BY <1>15 DEF BindDrain, history, Take
<1>16. CASE CompleteDrain
  BY <1>16 DEF CompleteDrain, history
<1>17. CASE FailDrain
  BY <1>17 DEF FailDrain, history
<1>18. CASE RefuseExport
  BY <1>18 DEF RefuseExport, history, Take
<1>19. CASE DropExport
  BY <1>19 DEF DropExport, history, Take
<1>20. CASE TakeExport
  BY <1>20 DEF TakeExport, history, Take
<1>21. CASE ExportFails
  BY <1>21 DEF ExportFails, history
<1>22. CASE PrepareExport
  BY <1>22 DEF PrepareExport, history, ExportStep
<1>23. CASE ConnectExport
  BY <1>23 DEF ConnectExport, history
<1>24. CASE ClearExport
  BY <1>24 DEF ClearExport, history, ExportStep
<1>25. CASE ExecuteExport
  BY <1>25 DEF ExecuteExport, history, ExportStep
<1>26. CASE BindExport
  BY <1>26 DEF BindExport, history, ExportStep
<1>27. CASE PollExport
  BY <1>27 DEF PollExport, history, ExportStep
<1>28. CASE TakeDisconnect
  BY <1>28 DEF TakeDisconnect, history, Take
<1>29. CASE TakeShutdown
  BY <1>29 DEF TakeShutdown, history, Take
<1> QED
  BY <1>1, <1>2, <1>3, <1>4, <1>5, <1>6, <1>7, <1>8, <1>9, <1>10, <1>11, <1>12, <1>13,
     <1>14, <1>15, <1>16, <1>17, <1>18, <1>19, <1>20, <1>21, <1>22, <1>23, <1>24, <1>25, <1>26,
     <1>27, <1>28, <1>29 DEF CalmStep

LEMMA StepAtCheck ==
  ASSUME CalmStep, worker.pc = "check"
  PROVE  CheckCancelled
<1>1. CASE TakeRun
  BY <1>1 DEF TakeRun, WorkerAt, Take
<1>2. CASE PrepareSession
  BY <1>2 DEF PrepareSession, WorkerAt
<1>3. CASE Connect
  BY <1>3 DEF Connect, WorkerAt
<1>4. CASE CheckCancelled
  BY <1>4 DEF CheckCancelled, WorkerAt
<1>5. CASE ClearTarget
  BY <1>5 DEF ClearTarget, WorkerAt
<1>6. CASE Execute
  BY <1>6 DEF Execute, WorkerAt
<1>7. CASE PublishTarget
  BY <1>7 DEF PublishTarget, WorkerAt
<1>8. CASE CatchCancel
  BY <1>8 DEF CatchCancel, WorkerAt
<1>9. CASE PollResult
  BY <1>9 DEF PollResult, WorkerAt
<1>10. CASE TakeMore
  BY <1>10 DEF TakeMore, WorkerAt, Take
<1>11. CASE Fetch
  BY <1>11 DEF Fetch, WorkerAt
<1>12. CASE ShowPage
  BY <1>12 DEF ShowPage, WorkerAt
<1>13. CASE FinishPage
  BY <1>13 DEF FinishPage, WorkerAt
<1>14. CASE RefuseDrain
  BY <1>14 DEF RefuseDrain, WorkerAt, Take
<1>15. CASE BindDrain
  BY <1>15 DEF BindDrain, WorkerAt, Take
<1>16. CASE CompleteDrain
  BY <1>16 DEF CompleteDrain, WorkerAt
<1>17. CASE FailDrain
  BY <1>17 DEF FailDrain, WorkerAt
<1>18. CASE RefuseExport
  BY <1>18 DEF RefuseExport, WorkerAt, Take
<1>19. CASE DropExport
  BY <1>19 DEF DropExport, WorkerAt, Take
<1>20. CASE TakeExport
  BY <1>20 DEF TakeExport, WorkerAt, Take
<1>21. CASE ExportFails
  BY <1>21 DEF ExportFails, WorkerAt
<1>22. CASE PrepareExport
  BY <1>22 DEF PrepareExport, WorkerAt, ExportStep
<1>23. CASE ConnectExport
  BY <1>23 DEF ConnectExport, WorkerAt
<1>24. CASE ClearExport
  BY <1>24 DEF ClearExport, WorkerAt, ExportStep
<1>25. CASE ExecuteExport
  BY <1>25 DEF ExecuteExport, WorkerAt, ExportStep
<1>26. CASE BindExport
  BY <1>26 DEF BindExport, WorkerAt, ExportStep
<1>27. CASE PollExport
  BY <1>27 DEF PollExport, WorkerAt, ExportStep
<1>28. CASE TakeDisconnect
  BY <1>28 DEF TakeDisconnect, WorkerAt, Take
<1>29. CASE TakeShutdown
  BY <1>29 DEF TakeShutdown, WorkerAt, Take
<1> QED
  BY <1>1, <1>2, <1>3, <1>4, <1>5, <1>6, <1>7, <1>8, <1>9, <1>10, <1>11, <1>12, <1>13,
     <1>14, <1>15, <1>16, <1>17, <1>18, <1>19, <1>20, <1>21, <1>22, <1>23, <1>24, <1>25, <1>26,
     <1>27, <1>28, <1>29 DEF CalmStep

LEMMA StepAtCatch ==
  ASSUME CalmStep, worker.pc = "catch"
  PROVE  CatchCancel
<1>1. CASE TakeRun
  BY <1>1 DEF TakeRun, WorkerAt, Take
<1>2. CASE PrepareSession
  BY <1>2 DEF PrepareSession, WorkerAt
<1>3. CASE Connect
  BY <1>3 DEF Connect, WorkerAt
<1>4. CASE CheckCancelled
  BY <1>4 DEF CheckCancelled, WorkerAt
<1>5. CASE ClearTarget
  BY <1>5 DEF ClearTarget, WorkerAt
<1>6. CASE Execute
  BY <1>6 DEF Execute, WorkerAt
<1>7. CASE PublishTarget
  BY <1>7 DEF PublishTarget, WorkerAt
<1>8. CASE CatchCancel
  BY <1>8 DEF CatchCancel, WorkerAt
<1>9. CASE PollResult
  BY <1>9 DEF PollResult, WorkerAt
<1>10. CASE TakeMore
  BY <1>10 DEF TakeMore, WorkerAt, Take
<1>11. CASE Fetch
  BY <1>11 DEF Fetch, WorkerAt
<1>12. CASE ShowPage
  BY <1>12 DEF ShowPage, WorkerAt
<1>13. CASE FinishPage
  BY <1>13 DEF FinishPage, WorkerAt
<1>14. CASE RefuseDrain
  BY <1>14 DEF RefuseDrain, WorkerAt, Take
<1>15. CASE BindDrain
  BY <1>15 DEF BindDrain, WorkerAt, Take
<1>16. CASE CompleteDrain
  BY <1>16 DEF CompleteDrain, WorkerAt
<1>17. CASE FailDrain
  BY <1>17 DEF FailDrain, WorkerAt
<1>18. CASE RefuseExport
  BY <1>18 DEF RefuseExport, WorkerAt, Take
<1>19. CASE DropExport
  BY <1>19 DEF DropExport, WorkerAt, Take
<1>20. CASE TakeExport
  BY <1>20 DEF TakeExport, WorkerAt, Take
<1>21. CASE ExportFails
  BY <1>21 DEF ExportFails, WorkerAt
<1>22. CASE PrepareExport
  BY <1>22 DEF PrepareExport, WorkerAt, ExportStep
<1>23. CASE ConnectExport
  BY <1>23 DEF ConnectExport, WorkerAt
<1>24. CASE ClearExport
  BY <1>24 DEF ClearExport, WorkerAt, ExportStep
<1>25. CASE ExecuteExport
  BY <1>25 DEF ExecuteExport, WorkerAt, ExportStep
<1>26. CASE BindExport
  BY <1>26 DEF BindExport, WorkerAt, ExportStep
<1>27. CASE PollExport
  BY <1>27 DEF PollExport, WorkerAt, ExportStep
<1>28. CASE TakeDisconnect
  BY <1>28 DEF TakeDisconnect, WorkerAt, Take
<1>29. CASE TakeShutdown
  BY <1>29 DEF TakeShutdown, WorkerAt, Take
<1> QED
  BY <1>1, <1>2, <1>3, <1>4, <1>5, <1>6, <1>7, <1>8, <1>9, <1>10, <1>11, <1>12, <1>13,
     <1>14, <1>15, <1>16, <1>17, <1>18, <1>19, <1>20, <1>21, <1>22, <1>23, <1>24, <1>25, <1>26,
     <1>27, <1>28, <1>29 DEF CalmStep

\* The tab is never left busy when the worker has nothing to do: the end of every command
\* is reported, also when it fails, is refused or is cancelled.
THEOREM NeverStuckBusy == NoMaintenance => (Spec => []NotStuckBusy)
<1> SUFFICES ASSUME NoMaintenance PROVE Spec => []NotStuckBusy
  OBVIOUS
<1>1. OrderInv => NotStuckBusy
  <2> SUFFICES ASSUME OrderInv, UiReady, commands = <<>>, events = <<>>, WorkerAt("idle")
               PROVE  ~ui.busy
    BY DEF NotStuckBusy
  <2>1. Quiet
    BY DEF OrderInv, PhaseInv, Quiet, Queued, Working, Answered, WorkerAt, UiReady
  <2> QED
    BY <2>1 DEF Quiet
<1> QED
  BY <1>1, OrderAlways, PTL

\* No query waits behind another one, as long as the connection needs no maintenance.
THEOREM OneQueryAtATime == NoMaintenance => (Spec => []OneQuery)
<1> SUFFICES ASSUME NoMaintenance PROVE Spec => []OneQuery
  OBVIOUS
<1>1. OrderInv => OneQuery
  BY DEF OrderInv, QueueInv, OneQuery, CommandPcs
<1> QED
  BY <1>1, OrderAlways, PTL

LEMMA ForeignStep ==
  ASSUME NoMaintenance, OrderInv, OneResult, [Next]_vars
  PROVE  OneResult'
<1> SUFFICES ui'.foreign = FALSE
  BY DEF OneResult
<1>1. ui \in UiStates /\ ui.foreign = FALSE
  BY DEF OrderInv, TabIInv, TypeOK, OneResult, UiStates
<1>2. CASE WorkerStep
  BY <1>1, <1>2, WorkerFrame, OnlyCalmSteps DEF OrderInv
<1>3. CASE PollEvent
  <2> DEFINE v == Apply(ui, Head(events))
  <2>1. Head(events) = events[1] /\ 1 \in 1..Len(events) /\ Head(events) \in EventTypes
    BY <1>3, Reached DEF PollEvent
  <2>2. Applied(ui, v, Head(events))
    BY <1>1, <2>1, ApplyFacts
  <2>3. ~(Head(events).kind = "rows" /\ Head(events).x # ui.execution)
    BY <2>1 DEF OrderInv, ChannelInv
  <2>4. ui' = [v EXCEPT !.pc = IF Tail(events) = <<>> THEN "ready" ELSE "events"]
    BY <1>3 DEF PollEvent
  <2> HIDE DEF v
  <2>5. v.foreign = FALSE /\ v \in UiStates
    <3>1. v.foreign \in BOOLEAN /\ v \in UiStates
      BY <2>2 DEF Applied, UiStates
    <3> QED
      BY <1>1, <2>2, <2>3, <3>1 DEF Applied
  <2> QED
    BY <2>4, <2>5 DEF UiStates
<1>4. CASE \/ Run \/ RunExport \/ More \/ OpenExport
           \/ DrainCursor \/ Disconnect \/ CancelTab \/ Shutdown
           \/ CancelStep \/ StopExport \/ \E c \in cancels : SendCancel(c)
  BY <1>1, <1>4 DEF Run, RunExport, Start, More, OpenExport, DrainCursor, Disconnect, CancelTab,
     Shutdown, CancelStep, CancelDownload, CancelFlag, CancelTarget, AfterCancel, SendShutdown,
     StopExport, SendCancel, tabState, UiStates
<1>5. CASE UNCHANGED vars
  BY <1>1, <1>5 DEF vars
<1> QED
  BY <1>2, <1>3, <1>4, <1>5 DEF Next, Finished

\* The result table never mixes the rows of two executions, however late the worker's
\* events are polled.
THEOREM OneResultAlways == NoMaintenance => (Spec => []OneResult)
<1> SUFFICES ASSUME NoMaintenance PROVE Spec => []OneResult
  OBVIOUS
<1>1. Init => OneResult
  BY DEF Init, OneResult
<1> QED
  BY <1>1, ForeignStep, OrderAlways, PTL DEF Spec

LEMMA DrainStep ==
  ASSUME NoMaintenance, OrderInv, DrainIsWhole, [Next]_vars
  PROVE  DrainIsWhole'
<1>1. CASE CompleteDrain
  <2>1. worker.batch + worker.pending = op.served
    BY <1>1 DEF OrderInv, CountInv, CompleteDrain, WorkerAt
  <2>2. worker.batch + worker.pending + (op.total - op.served) = op.total
    BY <2>1, Typed DEF OrderInv, TabIInv
  <2> QED
    BY <1>1, <2>2 DEF CompleteDrain, DrainIsWhole
<1>2. CASE WorkerStep /\ ~CompleteDrain
  BY <1>2, OnlyCalmSteps, DrainedFrame DEF OrderInv, DrainIsWhole
<1>3. CASE ~WorkerStep
  BY <1>3 DEF Next, Finished, vars, DrainIsWhole, Run, RunExport, More, OpenExport, DrainCursor,
     Disconnect, CancelTab, Shutdown, CancelStep, CancelDownload, CancelFlag, CancelTarget,
     SendShutdown, PollEvent, StopExport, SendCancel, history
<1> QED
  BY <1>1, <1>2, <1>3

\* A drained export holds each row of its result once.
THEOREM DrainWholeAlways == NoMaintenance => (Spec => []DrainIsWhole)
<1> SUFFICES ASSUME NoMaintenance PROVE Spec => []DrainIsWhole
  OBVIOUS
<1>1. Init => DrainIsWhole
  BY DEF Init, DrainIsWhole
<1> QED
  BY <1>1, DrainStep, OrderAlways, PTL DEF Spec

\* A cancel that was requested before the query is submitted prevents its submission.
THEOREM CancelPreventsAlways == NoMaintenance => (Spec => CancelPreventsSubmission)
<1> SUFFICES ASSUME NoMaintenance PROVE Spec => CancelPreventsSubmission
  OBVIOUS
<1>1. ASSUME OrderInv, [Next]_vars
      PROVE  [worker.pc = "check" /\ worker'.pc = "clear" => worker.x \notin requested]_vars
  <2> SUFFICES ASSUME worker.pc = "check", worker'.pc = "clear" PROVE cancelled = FALSE
    BY <1>1, Typed DEF OrderInv, TabIInv, RequestInv, SubmittingPcs
  <2>1. WorkerStep
    BY <1>1, UserStill DEF Next, Finished, vars
  <2>2. CheckCancelled
    BY <1>1, <2>1, OnlyCalmSteps, StepAtCheck DEF OrderInv
  <2>3. ~cancelled
    BY <1>1, <2>2 DEF CheckCancelled, WorkerTo, OrderInv, TabIInv, TypeOK, WorkerStates
  <2> QED
    BY <1>1, <2>3, Typed DEF OrderInv, TabIInv
<1> QED
  BY <1>1, OrderAlways, PTL DEF Spec, CancelPreventsSubmission

LEMMA ReachStep ==
  ASSUME NoMaintenance, OrderInv, CancelReachesServer, [Next]_vars
  PROVE  CancelReachesServer'
<1> SUFFICES ASSUME worker'.pc = "poll", worker'.x \in requested', ui'.pc # "target"
             PROVE  worker'.x \in asked' \/ \E c \in cancels' : c.target = worker'.x
  BY DEF CancelReachesServer, WorkerAt
<1>1. CASE WorkerStep
  <2>1. CalmStep
    BY <1>1, OnlyCalmSteps DEF OrderInv
  <2>2. worker.pc = "catch" /\ worker'.x = worker.x
    BY <2>1, WorkerMoves DEF OrderInv, TabIInv, Moves, TakesExecution, KeepsExecution,
       Submitting, SubmittingPcs
  <2>3. CatchCancel
    BY <2>1, <2>2, StepAtCatch
  <2>4. cancelled = TRUE
    BY <2>1, <2>2, WorkerFrame DEF OrderInv, RequestInv
  <2> QED
    BY <2>2, <2>3, <2>4 DEF CatchCancel
<1>2. CASE ~WorkerStep
  <2>1. worker.pc = "poll" /\ worker.x = worker'.x
    BY <1>2, UserStill DEF Next, Finished, vars
  <2>2. target = worker.x /\ worker.x # NoTarget
    BY <2>1 DEF OrderInv, TabIInv, TargetInv, TargetIsBound, WorkInv, KeepAlivePcs, NoTarget
  <2>3. worker.x \in requested /\ ui.pc # "target" =>
          worker.x \in asked \/ \E c \in cancels : c.target = worker.x
    BY <2>1 DEF CancelReachesServer, WorkerAt
  <2>4. CASE CancelTarget
    <3> DEFINE d == [target |-> target, current |-> TRUE]
    <3>1. d \in cancels' /\ d.target = worker'.x
      BY <2>1, <2>2, <2>4 DEF CancelTarget
    <3> QED
      BY <3>1
  <2>5. CASE CancelFlag
    BY <2>5, Typed DEF CancelFlag, OrderInv, TabIInv, TypeOK, UiStates
  <2>6. ASSUME NEW c \in cancels, SendCancel(c)
        PROVE  worker.x \in asked' \/ \E d \in cancels' : d.target = worker.x
    BY <2>3, <2>6 DEF SendCancel, tabState
  <2>7. ASSUME ui.pc # "target", requested' = requested, asked' = asked,
               Supersede \/ UNCHANGED cancels
        PROVE  worker.x \in asked' \/ \E d \in cancels' : d.target = worker.x
    <3>1. CASE UNCHANGED cancels
      BY <2>1, <2>3, <2>7, <3>1
    <3>2. CASE Supersede
      <4>1. ASSUME NEW c \in cancels, c.target = worker.x
            PROVE  \E d \in cancels' : d.target = worker.x
        <5> DEFINE d == [c EXCEPT !.current = FALSE]
        <5>1. d \in cancels' /\ d.target = worker.x
          BY <3>2, <4>1 DEF Supersede, OrderInv, TabIInv, TypeOK
        <5> QED
          BY <5>1
      <4> QED
        BY <2>1, <2>3, <2>7, <4>1
    <3> QED
      BY <2>7, <3>1, <3>2
  <2>8. CASE \/ Run \/ RunExport \/ More \/ OpenExport
             \/ DrainCursor \/ Disconnect \/ CancelTab \/ Shutdown
    BY <2>1, <2>7, <2>8 DEF Run, RunExport, More, OpenExport, DrainCursor, Disconnect, CancelTab,
       Shutdown, UiReady, history
  <2>9. CASE CancelDownload \/ SendShutdown \/ PollEvent
    BY <2>1, <2>7, <2>9 DEF CancelDownload, SendShutdown, PollEvent, history
  <2>10. CASE StopExport \/ UNCHANGED vars
    BY <2>1, <2>7, <2>10 DEF StopExport, vars, history
  <2> QED
    BY <1>2, <2>1, <2>4, <2>5, <2>6, <2>8, <2>9, <2>10 DEF Next, CancelStep, Finished
<1> QED
  BY <1>1, <1>2

\* A requested cancel reaches the query that runs.
THEOREM CancelReachesAlways == NoMaintenance => (Spec => []CancelReachesServer)
<1> SUFFICES ASSUME NoMaintenance PROVE Spec => []CancelReachesServer
  OBVIOUS
<1>1. Init => CancelReachesServer
  BY DEF Init, CancelReachesServer, WorkerAt
<1> QED
  BY <1>1, ReachStep, OrderAlways, PTL DEF Spec

=============================================================================
