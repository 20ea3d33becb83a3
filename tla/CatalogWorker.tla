--------------------------- MODULE CatalogWorker ---------------------------
(***************************************************************************)
(* The thread that reads the catalog of one connection, or of the          *)
(* connections that share one (src/catalog/worker.rs), and the calls of    *)
(* the window thread, whose steps interleave with it. A scope is a path:   *)
(* <<>> is the connection, <<s>> a schema, <<s, r>> a relation. Names and  *)
(* rows are left out; a catalog is what the worker decides with. The queue *)
(* of the worker is a set: its order is that of the calls, in `n`.         *)
(***************************************************************************)
EXTENDS Integers, SequencesExt

CONSTANTS
  Members,      \* connections that may share the catalog
  Nobody,       \* no member
  MemberSets,   \* the sets of members that a shared catalog may have
  Schemas,      \* schemas of the connection
  Scopes,       \* scopes that the user may refresh
  MaxCalls      \* bound on the calls of the window and the automatic refreshes

ASSUME NobodyAssumption == Nobody \notin Members
ASSUME MemberSetsAssumption == MemberSets \subseteq (SUBSET Members) \ {{}}
ASSUME MembersAssumption == Members # {}
ASSUME MaxCallsAssumption == MaxCalls \in Nat

VARIABLES
  config,    \* window: the members and the identity that it last sent
  warm,      \* window: members that it reported to have a live session
  calls,     \* window: calls so far
  script,    \* window: what is left of the call it is in
  looked,    \* window: the batch that stop() found running, or 0
  stopped,   \* window: shutdown or delete was called
  stopAt,    \* history, per member: the last call that stops its refreshes
  channel,   \* commands on their way to the worker
  flag,      \* which refresh to cancel: 0, a batch, or All
  running,   \* batch and member of the refresh in progress
  target,    \* batch of the request in progress, or 0
  hit,       \* that request was cancelled at the server
  deferred,  \* worker: commands that wait for its next checkpoint
  queue,     \* worker: refreshes that wait
  known,     \* worker: its own copy of the config
  live,      \* worker: members that have a live session
  session,   \* worker: the member that its open session belongs to
  catalog,   \* worker: what it knows of the catalog
  autos,     \* worker: automatic refreshes so far
  r          \* worker: the refresh in progress, and where it is

windowVars == <<config, warm, calls, script, looked, stopped, stopAt>>
atomics == <<flag, running, target, hit>>
workerVars == <<deferred, queue, known, live, session, catalog, autos>>
vars == <<windowVars, channel, atomics, workerVars, r>>

Connection == <<>>
All == -1  \* CANCEL_ALL: not the number of a batch
NoRun == [batch |-> 0, member |-> Nobody]

\* The record r while no refresh is in progress.
Idle(pc, batch, resume) ==
  [pc |-> pc, active |-> FALSE, scope |-> Connection, member |-> Nobody, n |-> 0,
   batch |-> batch, phase |-> "none", at |-> Connection, left |-> {}, result |-> "none",
   outcome |-> "none", interrupted |-> FALSE, expired |-> FALSE, automatic |-> FALSE,
   resume |-> resume, all |-> FALSE]

Covers(a, b) == IsPrefix(a, b)

Empty(identity) ==
  [identity |-> identity, loaded |-> FALSE, unfinished |-> FALSE, done |-> {}]

Command(kind, arg) == [kind |-> kind, arg |-> arg]
NoCommand == Command("none", Nobody)

To(step, who, gone, last) == [step |-> step, who |-> who, gone |-> gone, last |-> last]
NoCall == To("none", Nobody, {}, NoCommand)

Init ==
  /\ \E shared \in BOOLEAN :
       config = [members |-> IF shared THEN Members ELSE {CHOOSE m \in Members : TRUE},
                 identity |-> 1, shared |-> shared]
  /\ warm = {}
  /\ calls = 0
  /\ script = NoCall
  /\ looked = 0
  /\ stopped = FALSE
  /\ stopAt = [m \in Members |-> 0]
  /\ channel = <<>>
  /\ flag = 0
  /\ running = NoRun
  /\ target = 0
  /\ hit = FALSE
  /\ deferred = <<>>
  /\ queue = {}
  /\ known = config
  /\ live = {}
  /\ session = Nobody
  /\ catalog = [Empty(1) EXCEPT !.loaded = ~config.shared]
  /\ autos = 0
  /\ r = Idle("wait", 0, FALSE)

-----------------------------------------------------------------------------
(* The window. A call runs step by step: it stops the refreshes of the     *)
(* members in `gone`, one after the other, and then sends its command.     *)

At(step) == script.step = step

\* CatalogWorker::stop, of one member after the other: look at the running
\* refresh; if it is the member's, flag its batch and cancel its request; tell
\* the worker.
StopThenSend(gone, last) ==
  IF gone # {} THEN {To("look", m, gone \ {m}, last) : m \in gone}
  ELSE IF last # NoCommand THEN {To("send", Nobody, {}, last)}
  ELSE {NoCall}

\* CatalogWorker::cancel, and then the command.
CancelThenSend(last) == {To("raise", Nobody, {}, last)}

\* stopAt of a call that stops every refresh of the given members.
Stops(members) == [m \in Members |-> IF m \in members THEN calls + 1 ELSE stopAt[m]]

Call(scripts) ==
  /\ script = NoCall
  /\ ~stopped
  /\ calls + autos < MaxCalls
  /\ calls' = calls + 1
  /\ script' \in scripts
  /\ UNCHANGED <<looked, channel, atomics, workerVars, r>>

CallSend(kind, arg) == Call(StopThenSend({}, Command(kind, arg)))

CallRefresh(m, scope) ==
  /\ CallSend("refresh", [member |-> m, scope |-> scope, n |-> calls + 1])
  /\ m \in config.members
  /\ UNCHANGED <<config, warm, stopped, stopAt>>

CallRefreshIfUnloaded(m) ==
  /\ CallSend("refreshIfUnloaded", [member |-> m, scope |-> Connection, n |-> calls + 1])
  /\ m \in warm
  /\ UNCHANGED <<config, warm, stopped, stopAt>>

CallSetLive(m) ==
  /\ m \in config.members
  /\ CallSend(IF m \in warm THEN "cold" ELSE "live", m)
  /\ warm' = IF m \in warm THEN warm \ {m} ELSE warm \cup {m}
  /\ UNCHANGED <<config, stopped, stopAt>>

CallStop(m) ==
  /\ m \in config.members
  /\ Call(StopThenSend({m}, NoCommand))
  /\ stopAt' = Stops({m})
  /\ UNCHANGED <<config, warm, stopped>>

\* A private catalog of another server is cleared. The members of a shared one
\* come and go, and those that leave stop. (Other settings may change too.)
CallConfigure(next) ==
  /\ next.members = config.members \/ config.shared
  /\ next.shared = config.shared
  /\ next # config
  /\ config.shared => next.identity = config.identity
  /\ LET gone == config.members \ next.members IN
     IF next.identity # config.identity
     THEN Call(CancelThenSend(Command("configure", next))) /\ stopAt' = Stops(Members)
     ELSE Call(StopThenSend(gone, Command("configure", next))) /\ stopAt' = Stops(gone)
  /\ config' = next
  /\ warm' = warm \cap next.members
  /\ UNCHANGED stopped

\* A new shared catalog starts with the private one of the member that made it.
CallSeed ==
  /\ config.shared
  /\ calls = 0
  /\ \E seed \in [unfinished : BOOLEAN] : CallSend("seed", seed)
  /\ UNCHANGED <<config, warm, stopped, stopAt>>

\* delete and shutdown differ in the cache file only.
CallShutdown ==
  /\ Call(CancelThenSend(Command("shutdown", Nobody)))
  /\ stopped' = TRUE
  /\ stopAt' = Stops(Members)
  /\ UNCHANGED <<config, warm>>

Then(step) ==
  /\ script' = [script EXCEPT !.step = step]
  /\ UNCHANGED <<config, warm, calls, stopped, stopAt>>

Look ==
  /\ At("look")
  /\ Then("flag")
  /\ looked' = IF running.member = script.who THEN running.batch ELSE 0
  /\ UNCHANGED <<channel, atomics, workerVars, r>>

\* compare_exchange: a flag that is up already stays.
Flag ==
  /\ At("flag")
  /\ Then("cancel")
  /\ flag' = IF looked # 0 /\ flag = 0 THEN looked ELSE flag
  /\ UNCHANGED <<looked, channel, running, target, hit, workerVars, r>>

\* cancel_target of one batch; a thread of its own calls the server.
Cancel ==
  /\ At("cancel")
  /\ Then("tell")
  /\ hit' = (hit \/ (looked # 0 /\ target = looked))
  /\ looked' = 0
  /\ UNCHANGED <<channel, flag, running, target, workerVars, r>>

Raise ==
  /\ At("raise")
  /\ Then("cancelAny")
  /\ flag' = All
  /\ UNCHANGED <<looked, channel, running, target, hit, workerVars, r>>

CancelAny ==
  /\ At("cancelAny")
  /\ Then("tell")
  /\ hit' = (hit \/ target # 0)
  /\ UNCHANGED <<looked, channel, flag, running, target, workerVars, r>>

Send(command) ==
  /\ channel' = IF r.pc = "exit" THEN channel ELSE Append(channel, command)
  /\ UNCHANGED <<config, warm, calls, stopped, stopAt, looked, atomics, workerVars, r>>

Tell ==
  /\ At("tell")
  /\ Send(Command("cancel", script.who))
  /\ script' \in StopThenSend(script.gone, script.last)

SendLast ==
  /\ At("send")
  /\ Send(script.last)
  /\ script' = NoCall

-----------------------------------------------------------------------------
(* The worker applies a command. `next` is the record r that goes on.      *)

Keep(member) == {q \in queue : q.member # member}
KeepMembers(members) == {q \in queue : q.member \in members}

\* Mutant of Covered: only the waiting refreshes are looked at.
CoveredByWaiting(scope) == \E q \in queue : Covers(q.scope, scope)

\* A refresh that the running or a waiting one includes does not wait again,
\* and it replaces the waiting ones that it includes.
Covered(scope) ==
  \/ r.active /\ Covers(r.scope, scope)
  \/ \E q \in queue : Covers(q.scope, scope)

Refresh(request, next) ==
  /\ queue' = IF request.member \notin known.members \/ Covered(request.scope) THEN queue
              ELSE {q \in queue : ~Covers(request.scope, q.scope)} \cup {request}
  /\ r' = next
  /\ UNCHANGED <<flag, live, catalog, known, session>>

RefreshIfUnloaded(request, next) ==
  IF catalog.loaded
  THEN r' = next /\ UNCHANGED <<queue, flag, live, catalog, known, session>>
  ELSE Refresh(request, next)

CancelEvery(next) ==
  /\ flag' = 0
  /\ queue' = {}
  /\ r' = [next EXCEPT !.interrupted = TRUE]
  /\ UNCHANGED <<live, catalog, known, session>>

\* Mutant of KeepsFlag: the flag of a later stop is wiped with that of this one.
KeepsNoFlag == flag = All

\* A flag of the refresh in progress belongs to a later stop.
KeepsFlag == flag = All \/ (r.active /\ flag = r.batch)

CancelMember(m, next) ==
  /\ flag' = IF KeepsFlag THEN flag ELSE 0
  /\ queue' = Keep(m)
  /\ r' = [next EXCEPT !.interrupted = @ \/ (r.active /\ r.member = m)]
  /\ UNCHANGED <<live, catalog, known, session>>

\* The member of the open session may have left or have other settings now.
Configure(next, to) ==
  /\ IF catalog.identity # to.identity
     THEN /\ session' = Nobody
          /\ catalog' = Empty(to.identity)
          /\ r' = [next EXCEPT !.resume = FALSE]
     ELSE /\ session' \in {Nobody} \cup ({session} \cap to.members)
          /\ catalog' = catalog
          /\ r' = next
  /\ live' = live \cap to.members
  /\ queue' = KeepMembers(to.members)
  /\ known' = to
  /\ UNCHANGED flag

SetLive(m, next) ==
  /\ live' = live \cup {m}
  /\ r' = [next EXCEPT !.resume =
            @ \/ (/\ live = {}
                  /\ m \in known.members
                  /\ catalog.unfinished \/ (r.active /\ r.scope = Connection))]
  /\ UNCHANGED <<flag, queue, catalog, known, session>>

SetCold(m, next) ==
  /\ live' = live \ {m}
  /\ r' = next
  /\ UNCHANGED <<flag, queue, catalog, known, session>>

Seed(seed, next) ==
  /\ IF catalog.loaded
     THEN catalog' = catalog /\ r' = next
     ELSE /\ catalog' = [catalog EXCEPT !.loaded = TRUE, !.unfinished = seed.unfinished]
          /\ r' = [next EXCEPT !.resume = FALSE]
  /\ UNCHANGED <<flag, queue, live, known, session>>

\* Runner::handle, for the commands after which the worker goes on.
Handle(c, next) ==
  \/ c.kind = "refresh" /\ Refresh(c.arg, next)
  \/ c.kind = "refreshIfUnloaded" /\ RefreshIfUnloaded(c.arg, next)
  \/ c.kind = "cancel" /\ c.arg = Nobody /\ CancelEvery(next)
  \/ c.kind = "cancel" /\ c.arg # Nobody /\ CancelMember(c.arg, next)
  \/ c.kind = "configure" /\ Configure(next, c.arg)
  \/ c.kind = "live" /\ SetLive(c.arg, next)
  \/ c.kind = "cold" /\ SetCold(c.arg, next)
  \/ c.kind = "seed" /\ Seed(c.arg, next)

Ends(c) == c.kind = "shutdown"

\* The next command: the deferred ones came first.
Waiting == deferred # <<>> \/ channel # <<>>
NextCommand == IF deferred # <<>> THEN Head(deferred) ELSE Head(channel)

Take ==
  IF deferred # <<>> THEN deferred' = Tail(deferred) /\ UNCHANGED channel
  ELSE channel' = Tail(channel) /\ UNCHANGED deferred

-----------------------------------------------------------------------------
(* The worker between refreshes                                            *)

workerRest == <<windowVars, running, target, hit, autos>>

Goto(pc) == [r EXCEPT !.pc = pc]

Receive ==
  /\ r.pc = "wait"
  /\ Waiting
  /\ ~Ends(NextCommand)
  /\ Take
  /\ Handle(NextCommand, Goto("pop"))
  /\ UNCHANGED workerRest

\* Mutant of End: the worker waits on after the command that ends it.
EndLater ==
  /\ r.pc = "wait"
  /\ Waiting
  /\ Ends(NextCommand)
  /\ Take
  /\ UNCHANGED <<workerRest, r, flag, queue, known, session, live, catalog>>

End ==
  /\ r.pc = "wait"
  /\ Waiting
  /\ Ends(NextCommand)
  /\ Take
  /\ session' = Nobody
  /\ r' = Idle("exit", r.batch, r.resume)
  /\ UNCHANGED <<workerRest, flag, queue, known, live, catalog>>

\* The period passed, or an unfinished refresh continues. The preferred member
\* runs it if it is live, else another one that is. It counts as asked for
\* before the call that the window is in.
Automatic(m) ==
  /\ r.pc = "wait"
  /\ ~Waiting
  /\ calls + autos < MaxCalls
  /\ m \in live \cap known.members
  /\ autos' = autos + 1
  /\ queue' = {[member |-> m, scope |-> Connection,
                n |-> IF script = NoCall THEN calls ELSE calls - 1]}
  /\ r' = [Goto("pop") EXCEPT !.automatic = TRUE]
  /\ UNCHANGED <<windowVars, channel, atomics, deferred, known, live, session, catalog>>

\* The member of a waiting refresh is known: see QueueInv.
Start ==
  /\ r.pc = "pop"
  /\ \E q \in queue :
     /\ \A p \in queue : q.n <= p.n
     /\ queue' = queue \ {q}
     /\ running' = [batch |-> r.batch + 1, member |-> q.member]
     /\ r' = [pc |-> "begin", active |-> TRUE, scope |-> q.scope, member |-> q.member,
              n |-> q.n, batch |-> r.batch + 1,
              phase |-> IF q.scope = Connection THEN "schemas" ELSE "relations",
              at |-> q.scope, left |-> {}, result |-> "none", outcome |-> "none",
              interrupted |-> FALSE, expired |-> FALSE, automatic |-> r.automatic,
              resume |-> r.resume /\ q.scope # Connection, all |-> FALSE]
  /\ UNCHANGED <<windowVars, channel, flag, target, hit, deferred, known, live, session,
                 catalog, autos>>

Rest ==
  /\ r.pc = "pop"
  /\ queue = {}
  /\ session' = Nobody
  /\ r' = Goto("wait")
  /\ UNCHANGED <<windowVars, channel, atomics, deferred, queue, known, live, catalog, autos>>

-----------------------------------------------------------------------------
(* One request of the refresh in progress (read_rows)                      *)

CancelRequested == flag = All \/ flag = r.batch
Cold == r.automatic /\ r.member \notin live
MustStop == r.expired \/ Cold

readRest == <<windowVars, channel, deferred, queue, known, live, catalog, autos, running, flag>>

\* The request ends, and the refresh goes to a checkpoint with its answer.
Answer(result) ==
  /\ r' = [Goto("check") EXCEPT !.result = result]
  /\ target' = 0
  /\ hit' = FALSE

OnTo(pc) == r' = Goto(pc) /\ UNCHANGED <<target, hit>>

\* The deadline of the refresh passes. From then on the watchdog may cancel
\* the request in progress at the server.
Expire ==
  /\ r.pc \in {"connect", "sent", "poll", "check"}
  /\ ~r.expired
  /\ r' = [r EXCEPT !.expired = TRUE]
  /\ hit' = (hit \/ target # 0)
  /\ UNCHANGED <<windowVars, channel, flag, running, target, workerVars>>

\* A session of another member is closed.
Begin ==
  /\ r.pc = "begin"
  /\ IF MustStop THEN Answer("lost") /\ UNCHANGED session
     ELSE IF session = r.member THEN OnTo("execute") /\ UNCHANGED session
     ELSE OnTo("connect") /\ session' = Nobody
  /\ UNCHANGED readRest

\* Credentials and connect; a sign-in in the browser ends on CancelRequested, the
\* `USE` statement of a Kyuubi session only when its server answers.
Connect ==
  /\ r.pc = "connect"
  /\ \/ Answer("lost") /\ UNCHANGED session
     \/ /\ session' = r.member
        /\ IF MustStop THEN Answer("lost") ELSE OnTo("execute")
  /\ UNCHANGED readRest

Execute ==
  /\ r.pc = "execute"
  /\ \/ Answer("query")
     \/ r' = Goto("sent") /\ target' = r.batch /\ hit' = FALSE
  /\ UNCHANGED <<readRest, session>>

\* Mutant of Sent: no second look at the flag after the request is published.
SentUnchecked ==
  /\ r.pc = "sent"
  /\ IF MustStop THEN Answer("lost") ELSE OnTo("poll")
  /\ UNCHANGED <<readRest, session>>

\* A cancel that came before the request was published is made up for.
Sent ==
  /\ r.pc = "sent"
  /\ IF MustStop THEN Answer("lost")
     ELSE \/ CancelRequested /\ Answer("lost")
          \/ r' = Goto("poll") /\ hit' = (hit \/ CancelRequested) /\ UNCHANGED target
  /\ UNCHANGED <<readRest, session>>

\* The server answers with rows, or with an error, as after a cancellation.
\* Lost tells whether the error left a session to go on with.
Polled ==
  /\ r.pc = "poll"
  /\ \E result \in {"rows", "query"} : Answer(result)
  /\ UNCHANGED <<readRest, session>>

\* Mutant of StopSeen: the poll loop does not watch the deadline.
StopUnseen ==
  /\ r.pc = "poll"
  /\ CancelRequested
  /\ Answer("lost")
  /\ UNCHANGED <<readRest, session>>

StopSeen ==
  /\ r.pc = "poll"
  /\ CancelRequested \/ MustStop
  /\ Answer("lost")
  /\ UNCHANGED <<readRest, session>>

AcceptedEarly(c) ==
  \/ c.kind \in {"refresh", "refreshIfUnloaded", "live", "cold"}
  \/ c.kind = "cancel" /\ c.arg # Nobody

\* accept_refreshes, while the request runs: the other commands wait.
Accept ==
  /\ r.pc = "poll"
  /\ channel # <<>>
  /\ LET c == Head(channel) IN
     /\ channel' = Tail(channel)
     /\ IF AcceptedEarly(c)
        THEN Handle(c, r) /\ UNCHANGED deferred
        ELSE /\ deferred' = Append(deferred, c)
             /\ UNCHANGED <<flag, queue, known, live, session, catalog, r>>
  /\ UNCHANGED workerRest

-----------------------------------------------------------------------------
(* Checkpoints, and what a refresh does with the answer of a request       *)

CheckCommand ==
  /\ r.pc = "check"
  /\ Waiting
  /\ ~Ends(NextCommand)
  /\ Take
  /\ Handle(NextCommand, r)
  /\ UNCHANGED workerRest

Finish(outcome) == r' = [Goto("end") EXCEPT !.outcome = outcome]

CheckShutdown ==
  /\ r.pc = "check"
  /\ Waiting
  /\ Ends(NextCommand)
  /\ Take
  /\ Finish("stopped")
  /\ UNCHANGED <<workerRest, flag, queue, known, live, session, catalog>>

\* Nothing stops the refresh at this checkpoint.
Clear ==
  /\ r.pc = "check"
  /\ ~Waiting
  /\ ~r.interrupted /\ ~CancelRequested
  /\ ~MustStop

checkRest == <<windowVars, channel, atomics, deferred, queue, known, live, session, autos>>

Interrupted ==
  /\ r.pc = "check"
  /\ ~Waiting
  /\ \/ r.interrupted \/ CancelRequested
     \/ MustStop
  /\ Finish(IF r.interrupted \/ CancelRequested THEN "cancelled"
            ELSE IF r.expired THEN "timedOut" ELSE "cold")
  /\ UNCHANGED <<checkRest, catalog>>

Proceed ==
  /\ Clear
  /\ r.result = "none"
  /\ r' = Goto("begin")
  /\ UNCHANGED <<checkRest, catalog>>

\* The session is lost, or it cannot close the failed request.
Lost ==
  /\ Clear
  /\ r.result \in {"lost", "query"}
  /\ Finish("unavailable")
  /\ UNCHANGED <<checkRest, catalog>>

Request(phase, at) == [Goto("check") EXCEPT !.result = "none", !.phase = phase, !.at = at]

\* The next of the schemas, or the end of a connection refresh.
NextSchema(left, done) ==
  IF left = {}
  THEN /\ r' = [Goto("end") EXCEPT !.outcome = "ok", !.left = {}, !.resume = FALSE]
       /\ catalog' = [catalog EXCEPT !.loaded = TRUE, !.unfinished = FALSE, !.done = {}]
  ELSE /\ \E s \in left :
            r' = [Request("relations", <<s>>) EXCEPT !.left = left]
       /\ catalog' = [catalog EXCEPT !.loaded = TRUE, !.unfinished = TRUE, !.done = done]

\* A refresh that stopped within the refresh period continues.
SchemaList ==
  /\ Clear
  /\ r.phase = "schemas"
  /\ r.result = "rows"
  /\ \E done \in {{}} \cup (IF catalog.unfinished THEN {catalog.done} ELSE {}) :
       NextSchema(Schemas \ done, done)
  /\ UNCHANGED checkRest

SchemaListFails ==
  /\ Clear
  /\ r.phase = "schemas"
  /\ r.result = "query"
  /\ Finish("ok")
  /\ UNCHANGED <<checkRest, catalog>>

\* The columns of a schema in one request, or of one relation after the other.
Relations ==
  /\ Clear
  /\ r.phase = "relations"
  /\ r.result = "rows"
  /\ \E phase \in IF Len(r.at) = 1 THEN {"columns", "tables"} ELSE {"tables"} :
       r' = Request(phase, r.at)
  /\ UNCHANGED <<checkRest, catalog>>

\* One broken view can fail the request for the whole schema.
ColumnsFail ==
  /\ Clear
  /\ r.phase = "columns"
  /\ r.result = "query"
  /\ r' = Request("tables", r.at)
  /\ UNCHANGED <<checkRest, catalog>>

\* The last request of a schema or of a relation.
LastRequest ==
  \/ r.phase = "relations" /\ r.result = "query"
  \/ r.phase = "relations" /\ r.result = "rows" /\ Len(r.at) = 2  \* the relation is gone
  \/ r.phase = "columns" /\ r.result = "rows"
  \/ r.phase = "tables" /\ r.result \in {"rows", "query"}

Part ==
  /\ Clear
  /\ LastRequest
  /\ IF r.scope # Connection
     THEN Finish("ok") /\ UNCHANGED catalog
     ELSE NextSchema(r.left \ {Head(r.at)},
                     IF r.result = "query" \/ ~catalog.unfinished THEN catalog.done
                     ELSE catalog.done \cup {Head(r.at)})
  /\ UNCHANGED checkRest

-----------------------------------------------------------------------------
(* The end of a refresh                                                    *)

EndLook ==
  /\ r.pc = "end"
  /\ r' = [Goto("clearRunning") EXCEPT !.all = (flag = All), !.automatic = FALSE,
                                        !.expired = FALSE]
  /\ UNCHANGED <<windowVars, channel, atomics, workerVars>>

EndRunning ==
  /\ r.pc = "clearRunning"
  /\ running' = NoRun
  /\ r' = Goto("clearFlag")
  /\ UNCHANGED <<windowVars, channel, flag, target, hit, workerVars>>

\* Mutant of EndFlag: the flag of the refresh outlives it.
EndNoFlag ==
  /\ r.pc = "clearFlag"
  /\ r' = Goto("outcome")
  /\ UNCHANGED <<windowVars, channel, atomics, workerVars>>

EndFlag ==
  /\ r.pc = "clearFlag"
  /\ flag' = IF flag = r.batch THEN 0 ELSE flag
  /\ r' = Goto("outcome")
  /\ UNCHANGED <<windowVars, channel, running, target, hit, workerVars>>

\* Mutant of Left: a cancelled refresh takes every waiting one with it.
LeftNothing == IF r.outcome \in {"cancelled", "unavailable"} THEN {} ELSE queue

\* The refreshes that still wait. Others of the member that failed to connect
\* would fail in the same way; other members connect with other settings.
Left ==
  IF r.outcome = "cancelled" /\ r.all THEN {}
  ELSE IF r.outcome \in {"cancelled", "unavailable"} THEN Keep(r.member)
  ELSE queue

Outcome ==
  /\ r.pc = "outcome"
  /\ IF r.outcome = "stopped"
     THEN /\ session' = Nobody
          /\ queue' = {}
          /\ r' = Idle("exit", r.batch, r.resume)
     ELSE /\ queue' = Left
          /\ session' = IF r.outcome \in {"unavailable", "timedOut"} THEN Nobody ELSE session
          /\ r' = Idle("pop", r.batch, r.resume)
  /\ UNCHANGED <<windowVars, channel, atomics, deferred, known, live, catalog, autos>>

-----------------------------------------------------------------------------

Configs ==
  [members : MemberSets \cup {config.members}, identity : {1, 2}, shared : {config.shared}]

Window ==
  \/ \E m \in Members : \/ \E scope \in Scopes : CallRefresh(m, scope)
                        \/ CallRefreshIfUnloaded(m) \/ CallSetLive(m) \/ CallStop(m)
  \/ \E next \in Configs : CallConfigure(next)
  \/ CallSeed \/ CallShutdown

Script == Look \/ Flag \/ Cancel \/ Raise \/ CancelAny \/ Tell \/ SendLast

Worker ==
  \/ Receive \/ End \/ Start \/ Rest
  \/ Begin \/ Connect \/ Execute \/ Sent \/ StopSeen
  \/ CheckCommand \/ CheckShutdown \/ Interrupted \/ Proceed \/ Lost
  \/ SchemaList \/ SchemaListFails \/ Relations \/ ColumnsFail \/ Part
  \/ EndLook \/ EndRunning \/ EndFlag \/ Outcome

Next ==
  \/ Window \/ Script \/ Worker
  \/ (\E m \in Members : Automatic(m))
  \/ Polled \/ Accept \/ Expire

Spec == Init /\ [][Next]_vars

\* The window thread goes through its calls; the worker runs while nothing
\* that it waits for is the server's; refreshes reach their deadline. Nothing
\* is assumed of the server: it may report a request as running for ever, and
\* also the `USE` statement of a new session, which neither a flag nor the
\* watchdog reaches.
FairSpec ==
  /\ Spec
  /\ WF_vars(Script)
  /\ WF_vars(Worker /\ r.pc # "connect")
  /\ WF_vars(Expire)

-----------------------------------------------------------------------------

Refreshing == {"begin", "connect", "execute", "sent", "poll", "check", "end",
               "clearRunning", "clearFlag", "outcome"}

Places == {Connection} \cup Scopes \cup {<<s>> : s \in Schemas}
Requests == [member : Members, scope : Places, n : 0 .. MaxCalls]
Runs ==
  [pc : Refreshing \cup {"wait", "pop", "exit"}, active : BOOLEAN, scope : Places,
   member : Members \cup {Nobody}, n : 0 .. MaxCalls, batch : Nat,
   phase : {"none", "schemas", "relations", "columns", "tables"}, at : Places,
   left : SUBSET Schemas, result : {"none", "rows", "query", "lost"},
   outcome : {"none", "ok", "cancelled", "stopped", "unavailable", "timedOut", "cold"},
   interrupted : BOOLEAN, expired : BOOLEAN, automatic : BOOLEAN, resume : BOOLEAN,
   all : BOOLEAN]

TypeInv ==
  /\ r \in Runs
  /\ r.active <=> r.pc \in Refreshing
  /\ flag \in {All} \cup 0 .. r.batch
  /\ queue \subseteq Requests
  /\ session \in Members \cup {Nobody}

\* What the window and the idle timers of the tabs see is the refresh that the
\* worker runs, and a request runs in the session of its member.
RunInv ==
  /\ running = IF r.pc \in Refreshing \ {"clearFlag", "outcome"}
               THEN [batch |-> r.batch, member |-> r.member] ELSE NoRun
  /\ target # 0 => target = r.batch /\ r.pc \in {"sent", "poll"}
  /\ r.pc \in {"execute", "sent", "poll"} => session = r.member

\* No refresh waits for a member that has left, and none that the running one
\* or another waiting one includes.
QueueInv ==
  \A q \in queue :
    /\ q.member \in known.members
    /\ r.active => ~Covers(r.scope, q.scope)
    /\ \A p \in queue \ {q} : ~Covers(p.scope, q.scope)

\* INVARIANT: the worker's refresh, its session and what other threads see of
\* them agree, and no waiting refresh is one that another includes
\* (worker.rs:534-542, 742-754).
CatalogInv == TypeInv /\ RunInv /\ QueueInv

\* A cancellation command that the worker has not handled yet.
CancelComes(members) ==
  \/ /\ script.step \in {"look", "flag", "cancel", "raise", "cancelAny", "tell"}
     /\ script.who \in members
  \/ \E i \in DOMAIN deferred : deferred[i].kind = "cancel" /\ deferred[i].arg \in members
  \/ \E i \in DOMAIN channel : channel[i].kind = "cancel" /\ channel[i].arg \in members

\* INVARIANT: a flag is never left over: it is the one of the running refresh,
\* or the command that wipes it is on its way. A flag that stayed would keep
\* the next stop from setting its own (worker.rs:294-307, 572-577, 770-784).
NoLeftoverFlag ==
  r.pc # "exit" =>
    /\ flag = All => CancelComes({Nobody})
    /\ flag \notin {0, All} =>
         (flag = r.batch /\ r.pc \in Refreshing \ {"outcome"}) \/ CancelComes(Members)

\* ACTION PROPERTY: the flag of a running refresh is up until the refresh ends; the
\* command of an earlier stop that comes late does not take it down
\* (worker.rs:770-777).
FlagStays ==
  [][flag # 0 /\ flag = running.batch /\ flag' # flag =>
       \/ flag' = All
       \/ Waiting /\ NextCommand.kind = "cancel" /\ NextCommand.arg = Nobody]_vars

\* INVARIANT: a stop that found the refresh reaches its request at the server,
\* also one between the start of the request and its publication
\* (worker.rs:311-323, 1223-1226).
CancelReachesRequest ==
  r.pc = "poll" /\ CancelRequested =>
    hit \/ script.step \in {"cancel", "cancelAny"}

\* ACTION PROPERTY: a refresh ends as cancelled only by a stop of its own member
\* after it was asked for, and no waiting refresh is lost to the stop or the
\* failure of another member (worker.rs:294-307, 614-632).
OnlyOwnStops ==
  [][/\ r.pc = "outcome" /\ r.outcome = "cancelled" => stopAt[r.member] > r.n
     /\ r.pc \notin {"pop", "wait"} =>
          \A q \in queue \ queue' :
            \/ stopAt[q.member] # 0
            \/ q.member \notin known'.members
            \/ r.outcome = "unavailable" /\ q.member = r.member
            \/ \E p \in queue' : Covers(p.scope, q.scope)]_vars

\* The server never finishes the setup of a session.
StuckInSetup == [](r.pc = "connect")

\* LIVENESS: no refresh runs for ever, though the server may never answer a
\* request and a stop may find the flag of another batch up: the deadline ends
\* it at last (worker.rs:486-500, 1232-1253), and only the setup of a session
\* can outlast it (worker.rs:1205, connections.md:1106-1108).
RefreshEnds == r.active ~> ~r.active \/ StuckInSetup

\* LIVENESS: a worker that is shut down or deleted ends, unless the setup of a
\* session keeps it (worker.rs:343-356).
ShutdownEnds == stopped ~> r.pc = "exit" \/ StuckInSetup

=============================================================================
