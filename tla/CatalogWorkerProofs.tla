------------------------ MODULE CatalogWorkerProofs ------------------------
(***************************************************************************)
(* Proofs about CatalogWorker, for any members, schemas and scopes and any *)
(* number of calls. IInv is inductive: it adds to the invariants of the    *)
(* module what a flag, a cancellation and a command on its way rest on,    *)
(* which is the order of the calls. Each lemma of the form XStep shows     *)
(* that X keeps IInv, and the theorems at the end read the properties off  *)
(* it. Liveness is left to the model checker.                              *)
(***************************************************************************)
EXTENDS CatalogWorker, SequenceTheorems, TLAPS

-----------------------------------------------------------------------------
(* The inductive invariant                                                 *)

Steps == {"none", "look", "flag", "cancel", "raise", "cancelAny", "tell", "send"}
SomeConfigs == [members : SUBSET Members, identity : {1, 2}, shared : BOOLEAN]
Wakes == {"refresh", "refreshIfUnloaded"}
LastCommands ==
  [kind : Wakes, arg : Requests] \cup [kind : {"live", "cold"}, arg : Members]
  \cup [kind : {"configure"}, arg : SomeConfigs]
  \cup [kind : {"seed"}, arg : [unfinished : BOOLEAN]]
  \cup [kind : {"shutdown"}, arg : {Nobody}]
\* Only the script itself sends a cancellation.
Commands == LastCommands \cup [kind : {"cancel"}, arg : Members \cup {Nobody}]

Scripts == [step : Steps, who : Members \cup {Nobody}, gone : SUBSET Members,
            last : LastCommands \cup {NoCommand}]

TypeOK ==
  /\ TypeInv
  /\ calls \in Nat /\ autos \in Nat /\ calls + autos <= MaxCalls
  /\ config \in SomeConfigs /\ known \in SomeConfigs
  /\ warm \subseteq Members
  /\ looked \in Nat
  /\ stopAt \in [Members -> 0 .. calls]
  /\ script \in Scripts
  /\ channel \in Seq(Commands) /\ deferred \in Seq(Commands)

\* The last call whose command may have reached the worker.
Latest == IF script = NoCall THEN calls ELSE calls - 1
\* A call stopped the refreshes of every member.
AllStop == \A m \in Members : stopAt[m] # 0

\* What is left of the call that the window is in: whoever it still stops is
\* recorded in stopAt, and its own command comes last.
ScriptInv ==
  /\ script.step = "none" => script = NoCall
  /\ script.step # "none" => calls >= 1
  /\ script.step \in {"look", "flag", "cancel"} => script.who \in Members
  /\ script.step \in {"raise", "cancelAny"} => script.who = Nobody
  /\ script.step \in {"look", "flag", "cancel", "raise", "cancelAny", "tell"} =>
       /\ \A m \in Members : script.who \in {m, Nobody} => stopAt[m] = calls
       /\ script.last.kind \notin Wakes
  /\ script.step = "send" => script.last \in LastCommands
  /\ \A m \in script.gone : stopAt[m] = calls
  /\ script.last.kind \in Wakes => script.last.arg.n = calls
  /\ script.last.kind = "shutdown" => \A m \in Members : stopAt[m] = calls

\* Nothing was asked for by a call that the window has not come to the end of.
OrderInv ==
  /\ \A i \in DOMAIN channel : channel[i].kind \in Wakes => channel[i].arg.n <= Latest
  /\ \A q \in queue : q.n <= Latest
  /\ r.active => r.n <= Latest

\* The refresh in progress was asked for before its member was stopped.
Own == r.n < stopAt[r.member]

\* A stop on its way to the worker is later than the refreshes that it meets
\* there: the running one, the waiting ones and those on their way before it.
ChannelInv ==
  \A i \in DOMAIN channel :
    /\ channel[i].kind = "shutdown" => AllStop
    /\ channel[i].kind = "cancel" =>
         \A m \in Members : channel[i].arg \in {m, Nobody} =>
           /\ stopAt[m] # 0
           /\ r.active /\ r.member = m => Own
           /\ \A q \in queue : q.member = m => q.n < stopAt[m]
           /\ \A j \in DOMAIN channel :
                j < i /\ channel[j].kind \in Wakes /\ channel[j].arg.member = m =>
                  channel[j].arg.n < stopAt[m]

\* Commands are deferred during a request, and worked off at the checkpoint
\* after it, unless the refresh ends the worker.
DeferredInv ==
  /\ deferred # <<>> => \/ r.pc \in {"poll", "check", "exit"}
                        \/ /\ r.outcome = "stopped"
                           /\ r.pc \in {"end", "clearRunning", "clearFlag", "outcome"}
  /\ \A i \in DOMAIN deferred :
       /\ deferred[i].kind \in {"cancel", "configure", "seed", "shutdown"}
       /\ deferred[i].kind \in {"cancel", "shutdown"} => AllStop
       /\ deferred[i].kind = "cancel" => deferred[i].arg = Nobody /\ (r.active => Own)

\* A flag that the refresh in progress finds is meant for it, and so is the
\* batch that a stop has seen.
FlagInv ==
  /\ flag = All => AllStop
  /\ r.active /\ CancelRequested => Own
  /\ looked # 0 => script.step \in {"flag", "cancel"} /\ looked <= r.batch
  /\ looked = r.batch /\ r.active => r.member = script.who

\* A refresh that is about to end as cancelled was stopped, and the request of
\* one whose flag is up is cancelled at the server or about to be.
RunsInv ==
  /\ r.pc = "wait" => queue = {}
  /\ r.active => r.batch > 0 /\ r.member \in Members
  /\ r.active /\ r.interrupted => Own
  /\ r.active /\ r.outcome = "cancelled" => Own
  /\ r.outcome = "stopped" \/ r.all => AllStop
  /\ r.pc \in {"sent", "poll"} => target = r.batch
  /\ r.pc = "poll" /\ CancelRequested =>
       \/ hit
       \/ script.step = "cancel" /\ looked = r.batch
       \/ script.step = "cancelAny"

IInv == /\ TypeOK /\ ScriptInv /\ OrderInv /\ ChannelInv /\ DeferredInv /\ FlagInv /\ RunsInv
        /\ RunInv /\ QueueInv /\ NoLeftoverFlag

-----------------------------------------------------------------------------
(* The record of the worker                                                *)

Pcs == Refreshing \cup {"wait", "pop", "exit"}
Results == {"none", "rows", "query", "lost"}
Outcomes == {"none", "ok", "cancelled", "stopped", "unavailable", "timedOut", "cold"}
Phases == {"none", "schemas", "relations", "columns", "tables"}

\* s is about the same refresh as r.
SameRun(s) ==
  /\ s \in Runs
  /\ s.active = r.active /\ s.scope = r.scope /\ s.member = r.member
  /\ s.n = r.n /\ s.batch = r.batch

Kept(s) == SameRun(s) /\ s.all = r.all /\ s.interrupted = r.interrupted

LEMMA RunFacts ==
  ASSUME r \in Runs
  PROVE  /\ r.pc \in Pcs /\ r.active \in BOOLEAN /\ r.scope \in Places
         /\ r.member \in Members \cup {Nobody} /\ r.n \in 0 .. MaxCalls /\ r.batch \in Nat
         /\ r.at \in Places /\ r.left \in SUBSET Schemas /\ r.interrupted \in BOOLEAN
         /\ r.outcome \in Outcomes /\ Kept(r) /\ r.n \in Nat /\ r.n <= MaxCalls
         /\ r.all \in BOOLEAN
  BY MaxCallsAssumption DEF Runs, Pcs, Outcomes, Kept, SameRun

LEMMA GotoFacts ==
  ASSUME r \in Runs, NEW pc \in Pcs
  PROVE  Kept(Goto(pc)) /\ Goto(pc).pc = pc /\ Goto(pc).outcome = r.outcome
  BY DEF Runs, Goto, Pcs, Kept, SameRun

LEMMA AnswerFacts ==
  ASSUME r \in Runs, NEW result \in Results
  PROVE  LET s == [Goto("check") EXCEPT !.result = result]
         IN  Kept(s) /\ s.pc = "check" /\ s.outcome = r.outcome
  <1> DEFINE g == Goto("check")
  <1>1. Kept(g) /\ g.pc = "check" /\ g.outcome = r.outcome
    BY GotoFacts DEF Pcs, Refreshing
  <1> HIDE DEF g
  <1>2. Kept([g EXCEPT !.result = result]) /\ [g EXCEPT !.result = result].pc = "check"
        /\ [g EXCEPT !.result = result].outcome = r.outcome
    BY <1>1 DEF Kept, SameRun, Runs, Results
  <1> QED
    BY <1>2 DEF g

LEMMA FinishFacts ==
  ASSUME r \in Runs, NEW outcome \in Outcomes
  PROVE  LET s == [Goto("end") EXCEPT !.outcome = outcome]
         IN  Kept(s) /\ s.pc = "end" /\ s.outcome = outcome
  <1> DEFINE g == Goto("end")
  <1>1. Kept(g) /\ g.pc = "end"
    BY GotoFacts DEF Pcs, Refreshing
  <1> HIDE DEF g
  <1>2. Kept([g EXCEPT !.outcome = outcome]) /\ [g EXCEPT !.outcome = outcome].pc = "end"
        /\ [g EXCEPT !.outcome = outcome].outcome = outcome
    BY <1>1 DEF Kept, SameRun, Runs, Outcomes
  <1> QED
    BY <1>2 DEF g

LEMMA RequestFacts ==
  ASSUME r \in Runs, NEW phase \in Phases, NEW at \in Places
  PROVE  LET s == Request(phase, at)
         IN  Kept(s) /\ s.pc = "check" /\ s.outcome = r.outcome
  <1> DEFINE g == [Goto("check") EXCEPT !.result = "none"]
             h == [g EXCEPT !.phase = phase]
  <1>1. Kept(g) /\ g.pc = "check" /\ g.outcome = r.outcome
    BY AnswerFacts DEF Results
  <1>2. Request(phase, at) = [h EXCEPT !.at = at]
    BY DEF Request
  <1> HIDE DEF g
  <1>3. Kept(h) /\ h.pc = "check" /\ h.outcome = r.outcome
    BY <1>1 DEF Kept, SameRun, Runs, Phases
  <1> HIDE DEF h
  <1>4. Kept([h EXCEPT !.at = at]) /\ [h EXCEPT !.at = at].pc = "check"
        /\ [h EXCEPT !.at = at].outcome = r.outcome
    BY <1>3 DEF Kept, SameRun, Runs
  <1> QED
    BY <1>2, <1>4

LEMMA NextRequestFacts ==
  ASSUME r \in Runs, NEW at \in Places, NEW left \in SUBSET Schemas
  PROVE  LET s == [Request("relations", at) EXCEPT !.left = left]
         IN  Kept(s) /\ s.pc = "check" /\ s.outcome = r.outcome
  <1> DEFINE g == Request("relations", at)
  <1>1. Kept(g) /\ g.pc = "check" /\ g.outcome = r.outcome
    BY RequestFacts DEF Phases
  <1> HIDE DEF g
  <1>2. Kept([g EXCEPT !.left = left]) /\ [g EXCEPT !.left = left].pc = "check"
        /\ [g EXCEPT !.left = left].outcome = r.outcome
    BY <1>1 DEF Kept, SameRun, Runs
  <1> QED
    BY <1>2 DEF g

LEMMA LastRequestFacts ==
  ASSUME r \in Runs
  PROVE  LET s == [Goto("end") EXCEPT !.outcome = "ok", !.left = {}, !.resume = FALSE]
         IN  Kept(s) /\ s.pc = "end" /\ s.outcome = "ok"
  BY DEF Runs, Goto, Kept, SameRun, Refreshing

LEMMA ExpireFacts ==
  ASSUME r \in Runs
  PROVE  LET s == [r EXCEPT !.expired = TRUE]
         IN  Kept(s) /\ s.pc = r.pc /\ s.outcome = r.outcome
  BY DEF Runs, Kept, SameRun

LEMMA ResumeFacts ==
  ASSUME NEW s \in Runs, NEW resume \in BOOLEAN
  PROVE  LET t == [s EXCEPT !.resume = resume]
         IN  /\ t \in Runs /\ t.pc = s.pc /\ t.outcome = s.outcome /\ t.all = s.all
             /\ t.active = s.active /\ t.scope = s.scope /\ t.member = s.member
             /\ t.n = s.n /\ t.batch = s.batch /\ t.interrupted = s.interrupted
  BY DEF Runs

LEMMA InterruptedFacts ==
  ASSUME NEW s \in Runs, NEW interrupted \in BOOLEAN
  PROVE  LET t == [s EXCEPT !.interrupted = interrupted]
         IN  /\ t \in Runs /\ t.pc = s.pc /\ t.outcome = s.outcome /\ t.all = s.all
             /\ t.active = s.active /\ t.scope = s.scope /\ t.member = s.member
             /\ t.n = s.n /\ t.batch = s.batch /\ t.interrupted = interrupted
  BY DEF Runs

LEMMA EndLookFacts ==
  ASSUME r \in Runs, NEW all \in BOOLEAN
  PROVE  LET s == [Goto("clearRunning") EXCEPT !.all = all, !.automatic = FALSE,
                                              !.expired = FALSE]
         IN  /\ s \in Runs /\ s.pc = "clearRunning" /\ s.outcome = r.outcome /\ s.all = all
             /\ s.active = r.active /\ s.scope = r.scope /\ s.member = r.member
             /\ s.n = r.n /\ s.batch = r.batch /\ s.interrupted = r.interrupted
  BY DEF Runs, Goto, Refreshing

-----------------------------------------------------------------------------
(* The steps of a refresh                                                  *)

\* The refresh stays the same one, and nobody sends, stops or asks for anything.
LEMMA QuietStep ==
  ASSUME IInv, UNCHANGED <<windowVars, channel, queue, known, autos>>, SameRun(r'),
         r.pc \in Refreshing, r'.pc \in Refreshing, flag' \in {flag, 0},
         session' \in Members \cup {Nobody}, deferred' \in Seq(Commands)
  PROVE  /\ TypeOK' /\ ScriptInv' /\ OrderInv' /\ ChannelInv' /\ FlagInv' /\ QueueInv'
         /\ r.active /\ r.batch > 0
  <1>1. /\ r' \in Runs /\ r'.active = r.active /\ r'.scope = r.scope /\ r'.member = r.member
        /\ r'.n = r.n /\ r'.batch = r.batch
    BY DEF SameRun
  <1>2. TypeOK'
    <2>1. flag' \in {All} \cup 0 .. r.batch
      BY RunFacts DEF IInv, TypeOK, TypeInv
    <2>2. TypeInv'
      BY <1>1, <2>1 DEF IInv, TypeOK, TypeInv
    <2> QED
      BY <2>2 DEF IInv, TypeOK, windowVars
  <1>3. ScriptInv'
    BY DEF IInv, ScriptInv, windowVars
  <1>4. OrderInv'
    BY <1>1 DEF IInv, OrderInv, windowVars, Latest
  <1>5. ChannelInv'
    BY <1>1 DEF IInv, ChannelInv, windowVars, AllStop, Own
  <1>6. r.active /\ r.batch > 0 /\ r.batch \in Nat
    BY RunFacts DEF IInv, TypeOK, TypeInv, RunsInv
  <1>7. FlagInv'
    BY <1>1, <1>6 DEF IInv, FlagInv, windowVars, AllStop, Own, CancelRequested, All
  <1>8. QueueInv'
    BY <1>1 DEF IInv, QueueInv
  <1> QED
    BY <1>2, <1>3, <1>4, <1>5, <1>6, <1>7, <1>8

requestVars == <<windowVars, channel, deferred, queue, known, autos, running, flag>>

\* A request of a refresh goes on.
LEMMA RequestStep ==
  ASSUME IInv, UNCHANGED requestVars, Kept(r'), r'.outcome = r.outcome,
         session' \in Members \cup {Nobody},
         r.pc \in {"begin", "connect", "execute", "sent", "poll", "check"},
         r'.pc \in {"begin", "connect", "execute", "sent", "poll", "check"},
         r.pc \in {"poll", "check"} => r'.pc \in {"poll", "check"},
         r'.pc \in {"sent", "poll"} => target' = r.batch,
         target' # 0 => r'.pc \in {"sent", "poll"},
         r'.pc \in {"execute", "sent", "poll"} => session' = r.member,
         r'.pc = "poll" /\ CancelRequested =>
           \/ hit'
           \/ script.step = "cancel" /\ looked = r.batch
           \/ script.step = "cancelAny"
  PROVE  IInv'
  <1>1. /\ SameRun(r') /\ r.pc \in Refreshing /\ r'.pc \in Refreshing
        /\ deferred' \in Seq(Commands)
    BY DEF IInv, TypeOK, Kept, requestVars, Refreshing
  <1>2. /\ TypeOK' /\ ScriptInv' /\ OrderInv' /\ ChannelInv' /\ FlagInv' /\ QueueInv'
        /\ r.active /\ r.batch > 0
    BY <1>1, QuietStep DEF requestVars
  <1>3. /\ r'.active = r.active /\ r'.member = r.member
        /\ r'.n = r.n /\ r'.batch = r.batch /\ r'.all = r.all
        /\ r'.interrupted = r.interrupted
    BY DEF Kept, SameRun
  <1>4. DeferredInv'
    BY <1>3 DEF IInv, DeferredInv, requestVars, windowVars, AllStop, Own
  <1>5. RunsInv'
    BY <1>3 DEF IInv, RunsInv, requestVars, windowVars, AllStop, Own, CancelRequested
  <1>6. RunInv'
    BY <1>3 DEF IInv, RunInv, requestVars, Refreshing
  <1>7. NoLeftoverFlag'
    BY <1>3 DEF IInv, NoLeftoverFlag, requestVars, windowVars, CancelComes, Refreshing
  <1> QED
    BY <1>2, <1>4, <1>5, <1>6, <1>7 DEF IInv

LEMMA BeginStep == ASSUME IInv, Begin PROVE IInv'
  <1>1. r \in Runs /\ session \in Members \cup {Nobody} /\ Nobody \in Members \cup {Nobody}
    BY DEF IInv, TypeOK, TypeInv
  <1>2. /\ Kept(r') /\ r'.outcome = r.outcome /\ session' \in Members \cup {Nobody}
        /\ r'.pc \in {"connect", "execute", "check"}
        /\ r'.pc = "execute" => session' = r.member
        /\ r'.pc = "check" => target' = 0
        /\ r'.pc # "check" => target' = target
    <2>1. CASE Answer("lost") /\ UNCHANGED session
      BY <1>1, <2>1, AnswerFacts DEF Answer, Results
    <2>2. CASE OnTo("execute") /\ session = r.member /\ UNCHANGED session
      BY <1>1, <2>2, GotoFacts DEF OnTo, Pcs, Refreshing
    <2>3. CASE OnTo("connect") /\ session' = Nobody
      BY <1>1, <2>3, GotoFacts DEF OnTo, Pcs, Refreshing
    <2> QED
      BY <2>1, <2>2, <2>3 DEF Begin
  <1>3. r.pc = "begin" /\ UNCHANGED requestVars
    BY DEF Begin, readRest, requestVars
  <1>4. target = 0
    BY <1>3 DEF IInv, RunInv
  <1> QED
    BY <1>2, <1>3, <1>4, RequestStep

LEMMA ConnectStep == ASSUME IInv, Connect PROVE IInv'
  <1>1. r \in Runs /\ session \in Members \cup {Nobody} /\ r.member \in Members \cup {Nobody}
    BY RunFacts DEF IInv, TypeOK, TypeInv
  <1>2. /\ Kept(r') /\ r'.outcome = r.outcome /\ session' \in Members \cup {Nobody}
        /\ r'.pc \in {"execute", "check"}
        /\ r'.pc = "execute" => session' = r.member
        /\ r'.pc = "check" => target' = 0
        /\ r'.pc # "check" => target' = target
    <2>1. CASE Answer("lost") /\ session' \in {session, r.member}
      BY <1>1, <2>1, AnswerFacts DEF Answer, Results
    <2>2. CASE OnTo("execute") /\ session' = r.member
      BY <1>1, <2>2, GotoFacts DEF OnTo, Pcs, Refreshing
    <2> QED
      BY <2>1, <2>2 DEF Connect
  <1>3. r.pc = "connect" /\ UNCHANGED requestVars
    BY DEF Connect, readRest, requestVars
  <1>4. target = 0
    BY <1>3 DEF IInv, RunInv
  <1> QED
    BY <1>2, <1>3, <1>4, RequestStep

LEMMA ExecuteStep == ASSUME IInv, Execute PROVE IInv'
  <1>1. r \in Runs /\ session \in Members \cup {Nobody} /\ session = r.member
    BY DEF IInv, TypeOK, TypeInv, RunInv, Execute
  <1>2. /\ Kept(r') /\ r'.outcome = r.outcome
        /\ r'.pc \in {"sent", "check"}
        /\ r'.pc = "check" => target' = 0
        /\ r'.pc = "sent" => target' = r.batch
    <2>1. CASE Answer("query")
      BY <1>1, <2>1, AnswerFacts DEF Answer, Results
    <2>2. CASE r' = Goto("sent") /\ target' = r.batch
      BY <1>1, <2>2, GotoFacts DEF Pcs, Refreshing
    <2> QED
      BY <2>1, <2>2 DEF Execute
  <1>3. r.pc = "execute" /\ UNCHANGED requestVars /\ session' = session
    BY DEF Execute, readRest, requestVars
  <1> QED
    BY <1>1, <1>2, <1>3, RequestStep

LEMMA SentStep == ASSUME IInv, Sent PROVE IInv'
  <1>1. /\ r \in Runs /\ session \in Members \cup {Nobody} /\ session = r.member
        /\ target = r.batch
    BY DEF IInv, TypeOK, TypeInv, RunInv, RunsInv, Sent
  <1>2. /\ Kept(r') /\ r'.outcome = r.outcome
        /\ r'.pc \in {"poll", "check"}
        /\ r'.pc = "check" => target' = 0
        /\ r'.pc = "poll" => target' = target /\ (CancelRequested => hit')
    <2>1. CASE Answer("lost")
      BY <1>1, <2>1, AnswerFacts DEF Answer, Results
    <2>2. CASE r' = Goto("poll") /\ hit' = (hit \/ CancelRequested) /\ UNCHANGED target
      BY <1>1, <2>2, GotoFacts DEF Pcs, Refreshing
    <2> QED
      BY <2>1, <2>2 DEF Sent
  <1>3. r.pc = "sent" /\ UNCHANGED requestVars /\ session' = session
    BY DEF Sent, readRest, requestVars
  <1> QED
    BY <1>1, <1>2, <1>3, RequestStep

LEMMA AnswerStep == ASSUME IInv, Polled \/ StopSeen PROVE IInv'
  <1>1. r \in Runs /\ session \in Members \cup {Nobody}
    BY DEF IInv, TypeOK, TypeInv
  <1>2. \E result \in {"rows", "query", "lost"} : Answer(result)
    BY DEF Polled, StopSeen
  <1>3. Kept(r') /\ r'.outcome = r.outcome /\ r'.pc = "check" /\ target' = 0
    BY <1>1, <1>2, AnswerFacts DEF Answer, Results
  <1>4. r.pc = "poll" /\ UNCHANGED requestVars /\ session' = session
    BY DEF Polled, StopSeen, readRest, requestVars
  <1> QED
    BY <1>1, <1>3, <1>4, RequestStep

LEMMA ExpireStep == ASSUME IInv, Expire PROVE IInv'
  <1>1. r \in Runs /\ session \in Members \cup {Nobody}
    BY DEF IInv, TypeOK, TypeInv
  <1>2. /\ Kept(r') /\ r'.outcome = r.outcome /\ r'.pc = r.pc /\ target' = target
        /\ r.pc \in {"connect", "sent", "poll", "check"} /\ session' = session
        /\ UNCHANGED requestVars
    BY <1>1, ExpireFacts DEF Expire, requestVars, workerVars
  <1>3. /\ r.pc \in {"sent", "poll"} => target = r.batch /\ session = r.member
        /\ target # 0 => r.pc \in {"sent", "poll"}
        /\ r.pc = "poll" /\ CancelRequested =>
               \/ hit
               \/ script.step = "cancel" /\ looked = r.batch
               \/ script.step = "cancelAny"
    BY DEF IInv, RunInv, RunsInv
  <1>4. /\ r'.pc \in {"sent", "poll"} => target' = r.batch
        /\ target' # 0 => r'.pc \in {"sent", "poll"}
        /\ r'.pc \in {"execute", "sent", "poll"} => session' = r.member
    BY <1>2, <1>3
  <1>5. r'.pc = "poll" /\ CancelRequested =>
           \/ hit'
           \/ script.step = "cancel" /\ looked = r.batch
           \/ script.step = "cancelAny"
    BY <1>2, <1>3 DEF Expire
  <1>6. /\ r.pc \in {"begin", "connect", "execute", "sent", "poll", "check"}
        /\ r'.pc \in {"begin", "connect", "execute", "sent", "poll", "check"}
        /\ r.pc \in {"poll", "check"} => r'.pc \in {"poll", "check"}
        /\ session' \in Members \cup {Nobody}
    BY <1>1, <1>2
  <1>7. UNCHANGED requestVars /\ Kept(r') /\ r'.outcome = r.outcome
    BY <1>2
  <1> QED
    BY <1>4, <1>5, <1>6, <1>7, RequestStep

checkVars ==
  <<windowVars, channel, flag, running, target, deferred, queue, known, session, autos>>

\* A checkpoint at which no command waits.
LEMMA CheckStep ==
  ASSUME IInv, UNCHANGED checkVars, Kept(r'), r.pc = "check", ~Waiting,
         r'.pc \in {"begin", "check", "end"},
         \/ r'.outcome = r.outcome
         \/ r'.outcome \in {"ok", "unavailable", "timedOut", "cold"}
         \/ r'.outcome = "cancelled" /\ (r.interrupted \/ CancelRequested)
  PROVE  IInv'
  <1>1. /\ SameRun(r') /\ r.pc \in Refreshing /\ r'.pc \in Refreshing
        /\ deferred' \in Seq(Commands)
        /\ session' \in Members \cup {Nobody}
    BY DEF IInv, TypeOK, TypeInv, Kept, checkVars, Refreshing
  <1>2. /\ TypeOK' /\ ScriptInv' /\ OrderInv' /\ ChannelInv' /\ FlagInv' /\ QueueInv'
        /\ r.active /\ r.batch > 0
    BY <1>1, QuietStep DEF checkVars
  <1>3. /\ r'.active = r.active /\ r'.member = r.member
        /\ r'.n = r.n /\ r'.batch = r.batch /\ r'.all = r.all
        /\ r'.interrupted = r.interrupted
    BY DEF Kept, SameRun
  <1>4. DeferredInv'
    BY <1>3 DEF IInv, DeferredInv, checkVars, windowVars, AllStop, Own, Waiting
  <1>5. RunsInv'
    BY <1>2, <1>3 DEF IInv, RunsInv, FlagInv, checkVars, windowVars, AllStop, Own,
       CancelRequested
  <1>6. RunInv'
    BY <1>3 DEF IInv, RunInv, checkVars, Refreshing
  <1>7. NoLeftoverFlag'
    BY <1>3 DEF IInv, NoLeftoverFlag, checkVars, windowVars, CancelComes, Refreshing
  <1> QED
    BY <1>2, <1>4, <1>5, <1>6, <1>7 DEF IInv

LEMMA FinishStep ==
  ASSUME IInv, UNCHANGED <<checkRest, catalog>>, r.pc = "check", ~Waiting,
         NEW outcome \in Outcomes, Finish(outcome),
         outcome \notin {"none", "stopped"},
         outcome = "cancelled" => r.interrupted \/ CancelRequested
  PROVE  IInv'
  <1>1. r \in Runs
    BY DEF IInv, TypeOK, TypeInv
  <1>2. Kept(r') /\ r'.pc = "end" /\ r'.outcome = outcome
    BY <1>1, FinishFacts DEF Finish
  <1>3. UNCHANGED checkVars
    BY DEF checkRest, checkVars, atomics
  <1> QED
    BY <1>2, <1>3, CheckStep DEF Outcomes

LEMMA InterruptedStep == ASSUME IInv, Interrupted PROVE IInv'
  <1> DEFINE outcome == IF r.interrupted \/ CancelRequested THEN "cancelled"
                        ELSE IF r.expired THEN "timedOut" ELSE "cold"
  <1>1. /\ outcome \in Outcomes \ {"none", "stopped"}
        /\ outcome = "cancelled" => r.interrupted \/ CancelRequested
    BY DEF Outcomes
  <1>2. Finish(outcome) /\ r.pc = "check" /\ ~Waiting /\ UNCHANGED <<checkRest, catalog>>
    BY DEF Interrupted
  <1> HIDE DEF outcome
  <1> QED
    BY <1>1, <1>2, FinishStep

LEMMA ProceedStep == ASSUME IInv, Proceed PROVE IInv'
  <1>1. r \in Runs
    BY DEF IInv, TypeOK, TypeInv
  <1>2. Kept(r') /\ r'.pc = "begin" /\ r'.outcome = r.outcome
    BY <1>1, GotoFacts DEF Proceed, Pcs, Refreshing
  <1>3. UNCHANGED checkVars /\ r.pc = "check" /\ ~Waiting
    BY DEF Proceed, Clear, checkRest, checkVars, atomics
  <1> QED
    BY <1>2, <1>3, CheckStep

LEMMA LostStep == ASSUME IInv, Lost \/ SchemaListFails PROVE IInv'
  <1>1. \E outcome \in {"ok", "unavailable"} : Finish(outcome)
    BY DEF Lost, SchemaListFails
  <1>2. UNCHANGED <<checkRest, catalog>> /\ r.pc = "check" /\ ~Waiting
    BY DEF Lost, SchemaListFails, Clear
  <1> QED
    BY <1>1, <1>2, FinishStep DEF Outcomes

LEMMA RelationsStep == ASSUME IInv, Relations \/ ColumnsFail PROVE IInv'
  <1>1. r \in Runs /\ r.at \in Places
    BY RunFacts DEF IInv, TypeOK, TypeInv
  <1>2. \E phase \in Phases : r' = Request(phase, r.at)
    BY DEF Relations, ColumnsFail, Phases
  <1>3. Kept(r') /\ r'.pc = "check" /\ r'.outcome = r.outcome
    BY <1>1, <1>2, RequestFacts
  <1>4. UNCHANGED checkVars /\ r.pc = "check" /\ ~Waiting
    BY DEF Relations, ColumnsFail, Clear, checkRest, checkVars, atomics
  <1> QED
    BY <1>3, <1>4, CheckStep

LEMMA NextSchemaStep ==
  ASSUME IInv, Clear, UNCHANGED checkRest,
         NEW left \in SUBSET Schemas, NEW done, NextSchema(left, done)
  PROVE  IInv'
  <1>1. r \in Runs
    BY DEF IInv, TypeOK, TypeInv
  <1>2. UNCHANGED checkVars /\ r.pc = "check" /\ ~Waiting
    BY DEF Clear, checkRest, checkVars, atomics
  <1>3. CASE left = {}
    <2>1. Kept(r') /\ r'.pc = "end" /\ r'.outcome = "ok"
      BY <1>1, <1>3, LastRequestFacts DEF NextSchema
    <2> QED
      BY <1>2, <2>1, CheckStep
  <1>4. CASE left # {}
    <2>1. PICK s \in left : r' = [Request("relations", <<s>>) EXCEPT !.left = left]
      BY <1>4 DEF NextSchema
    <2>2. <<s>> \in Places
      BY DEF Places
    <2>3. Kept(r') /\ r'.pc = "check" /\ r'.outcome = r.outcome
      BY <1>1, <2>1, <2>2, NextRequestFacts
    <2> QED
      BY <1>2, <2>3, CheckStep
  <1> QED
    BY <1>3, <1>4

LEMMA SchemaListStep == ASSUME IInv, SchemaList PROVE IInv'
  <1>1. PICK done \in {{}} \cup (IF catalog.unfinished THEN {catalog.done} ELSE {}) :
          NextSchema(Schemas \ done, done)
    BY DEF SchemaList
  <1>2. Schemas \ done \in SUBSET Schemas /\ Clear /\ UNCHANGED checkRest
    BY DEF SchemaList
  <1> QED
    BY <1>1, <1>2, NextSchemaStep

LEMMA PartStep == ASSUME IInv, Part PROVE IInv'
  <1>1. Clear /\ UNCHANGED checkRest /\ r.pc = "check" /\ ~Waiting
    BY DEF Part, Clear
  <1>2. CASE r.scope # Connection
    <2>1. Finish("ok") /\ UNCHANGED <<checkRest, catalog>>
      BY <1>1, <1>2 DEF Part
    <2> QED
      BY <1>1, <2>1, FinishStep DEF Outcomes
  <1>3. CASE r.scope = Connection
    <2> DEFINE left == r.left \ {Head(r.at)}
    <2>1. left \in SUBSET Schemas
      BY RunFacts DEF IInv, TypeOK, TypeInv
    <2>2. \E done : NextSchema(left, done)
      BY <1>3 DEF Part
    <2> HIDE DEF left
    <2> QED
      BY <1>1, <2>1, <2>2, NextSchemaStep
  <1> QED
    BY <1>2, <1>3

-----------------------------------------------------------------------------
(* The end of a refresh                                                    *)

LEMMA EndLookStep == ASSUME IInv, EndLook PROVE IInv'
  <1>1. r \in Runs /\ r.pc = "end" /\ (flag = All) \in BOOLEAN
    BY DEF IInv, TypeOK, TypeInv, EndLook
  <1>2. /\ r' \in Runs /\ r'.pc = "clearRunning" /\ r'.outcome = r.outcome
        /\ r'.all = (flag = All)
        /\ r'.active = r.active /\ r'.scope = r.scope /\ r'.member = r.member
        /\ r'.n = r.n /\ r'.batch = r.batch /\ r'.interrupted = r.interrupted
    BY <1>1, EndLookFacts DEF EndLook
  <1>3. UNCHANGED <<windowVars, channel, flag, running, target, hit, deferred, queue, known,
                    session, autos>>
    BY DEF EndLook, atomics, workerVars
  <1>4. /\ TypeOK' /\ ScriptInv' /\ OrderInv' /\ ChannelInv' /\ FlagInv' /\ QueueInv'
        /\ r.active /\ r.batch > 0
    <2>1. SameRun(r') /\ r.pc \in Refreshing /\ r'.pc \in Refreshing
      BY <1>1, <1>2 DEF SameRun, Refreshing
    <2>2. deferred' \in Seq(Commands) /\ session' \in Members \cup {Nobody}
      BY <1>3 DEF IInv, TypeOK, TypeInv
    <2> QED
      BY <1>3, <2>1, <2>2, QuietStep
  <1>5. DeferredInv'
    BY <1>1, <1>2, <1>3 DEF IInv, DeferredInv, windowVars, AllStop, Own
  <1>6. RunsInv'
    BY <1>1, <1>2, <1>3 DEF IInv, RunsInv, FlagInv, windowVars, AllStop, Own
  <1>7. RunInv'
    BY <1>1, <1>2, <1>3 DEF IInv, RunInv, Refreshing
  <1>8. NoLeftoverFlag'
    BY <1>1, <1>2, <1>3 DEF IInv, NoLeftoverFlag, windowVars, CancelComes, Refreshing
  <1> QED
    BY <1>4, <1>5, <1>6, <1>7, <1>8 DEF IInv

LEMMA EndRunningStep == ASSUME IInv, EndRunning PROVE IInv'
  <1>1. r \in Runs /\ r.pc = "clearRunning"
    BY DEF IInv, TypeOK, TypeInv, EndRunning
  <1>2. Kept(r') /\ r'.pc = "clearFlag" /\ r'.outcome = r.outcome
    BY <1>1, GotoFacts DEF EndRunning, Pcs, Refreshing
  <1>3. /\ UNCHANGED <<windowVars, channel, flag, target, hit, deferred, queue, known,
                       session, autos>>
        /\ running' = NoRun
    BY DEF EndRunning, workerVars
  <1>4. /\ r'.active = r.active /\ r'.member = r.member
        /\ r'.n = r.n /\ r'.batch = r.batch /\ r'.all = r.all
        /\ r'.interrupted = r.interrupted
    BY <1>2 DEF Kept, SameRun
  <1>5. /\ TypeOK' /\ ScriptInv' /\ OrderInv' /\ ChannelInv' /\ FlagInv' /\ QueueInv'
        /\ r.active /\ r.batch > 0
    <2>1. SameRun(r') /\ r.pc \in Refreshing /\ r'.pc \in Refreshing
      BY <1>1, <1>2 DEF Kept, Refreshing
    <2>2. deferred' \in Seq(Commands) /\ session' \in Members \cup {Nobody}
      BY <1>3 DEF IInv, TypeOK, TypeInv
    <2> QED
      BY <1>3, <2>1, <2>2, QuietStep
  <1>6. DeferredInv'
    BY <1>1, <1>2, <1>3, <1>4 DEF IInv, DeferredInv, windowVars, AllStop, Own
  <1>7. RunsInv'
    BY <1>1, <1>2, <1>3, <1>4 DEF IInv, RunsInv, windowVars, AllStop, Own
  <1>8. RunInv'
    BY <1>1, <1>2, <1>3, <1>4 DEF IInv, RunInv, Refreshing
  <1>9. NoLeftoverFlag'
    BY <1>1, <1>2, <1>3, <1>4 DEF IInv, NoLeftoverFlag, windowVars, CancelComes, Refreshing
  <1> QED
    BY <1>5, <1>6, <1>7, <1>8, <1>9 DEF IInv

LEMMA EndFlagStep == ASSUME IInv, EndFlag PROVE IInv'
  <1>1. r \in Runs /\ r.pc = "clearFlag"
    BY DEF IInv, TypeOK, TypeInv, EndFlag
  <1>2. Kept(r') /\ r'.pc = "outcome" /\ r'.outcome = r.outcome
    BY <1>1, GotoFacts DEF EndFlag, Pcs, Refreshing
  <1>3. /\ UNCHANGED <<windowVars, channel, running, target, hit, deferred, queue, known,
                       session, autos>>
        /\ flag' = IF flag = r.batch THEN 0 ELSE flag
    BY DEF EndFlag, workerVars
  <1>4. /\ r'.active = r.active /\ r'.member = r.member
        /\ r'.n = r.n /\ r'.batch = r.batch /\ r'.all = r.all
        /\ r'.interrupted = r.interrupted
    BY <1>2 DEF Kept, SameRun
  <1>5. /\ TypeOK' /\ ScriptInv' /\ OrderInv' /\ ChannelInv' /\ FlagInv' /\ QueueInv'
        /\ r.active /\ r.batch > 0
    <2>1. SameRun(r') /\ r.pc \in Refreshing /\ r'.pc \in Refreshing
      BY <1>1, <1>2 DEF Kept, Refreshing
    <2>2. /\ deferred' \in Seq(Commands) /\ session' \in Members \cup {Nobody}
          /\ flag' \in {flag, 0}
      BY <1>3 DEF IInv, TypeOK, TypeInv
    <2> QED
      BY <1>3, <2>1, <2>2, QuietStep
  <1>6. DeferredInv'
    BY <1>1, <1>2, <1>3, <1>4 DEF IInv, DeferredInv, windowVars, AllStop, Own
  <1>7. RunsInv'
    BY <1>1, <1>2, <1>3, <1>4 DEF IInv, RunsInv, windowVars, AllStop, Own
  <1>8. RunInv'
    BY <1>1, <1>2, <1>3, <1>4 DEF IInv, RunInv, Refreshing
  <1>9. NoLeftoverFlag'
    BY <1>1, <1>2, <1>3, <1>4 DEF IInv, NoLeftoverFlag, windowVars, CancelComes, Refreshing,
       All
  <1> QED
    BY <1>5, <1>6, <1>7, <1>8, <1>9 DEF IInv

-----------------------------------------------------------------------------
(* The worker takes commands, and refreshes come and go                    *)

LEMMA CommandFacts ==
  ASSUME NEW c \in Commands
  PROVE  /\ c.kind \in Wakes => c.arg \in Requests
         /\ c.kind = "cancel" => c.arg \in Members \cup {Nobody}
         /\ c.kind \in {"live", "cold"} => c.arg \in Members
         /\ c.kind = "configure" => c.arg \in SomeConfigs
         /\ c.kind = "seed" => c.arg \in [unfinished : BOOLEAN]
         /\ c.kind \in Wakes \cup {"cancel", "live", "cold", "configure", "seed", "shutdown"}
  BY DEF Commands, LastCommands, Wakes

LEMMA RequestTyped ==
  ASSUME NEW q \in Requests
  PROVE  q.member \in Members /\ q.scope \in Places /\ q.n \in 0 .. MaxCalls /\ q.n \in Nat
  BY MaxCallsAssumption DEF Requests

LEMMA WindowTyped ==
  ASSUME TypeOK
  PROVE  /\ calls \in Nat /\ Latest \in Int /\ Latest <= calls
         /\ \A m \in Members : stopAt[m] \in Nat /\ stopAt[m] <= calls
         /\ looked \in Nat /\ script.step \in Steps /\ script.who \in Members \cup {Nobody}
         /\ script.gone \in SUBSET Members /\ script.last \in LastCommands \cup {NoCommand}
  BY DEF TypeOK, Latest, Scripts

\* The channel after the first d commands are taken.
Taken(d) ==
  /\ channel' \in Seq(Commands)
  /\ \A i \in DOMAIN channel' : i + d \in DOMAIN channel /\ channel'[i] = channel[i + d]
  /\ d = 1 => 1 \in DOMAIN channel

\* A step of the worker that starts no refresh.
LEMMA WorkerStep ==
  ASSUME IInv, UNCHANGED <<windowVars, autos>>, NEW d \in {0, 1}, Taken(d),
         deferred' \in Seq(Commands), known' \in SomeConfigs,
         \A q \in queue' :
           q \in queue \/ (d = 1 /\ channel[1].kind \in Wakes /\ q = channel[1].arg),
         r' \in Runs, r'.batch = r.batch, SameRun(r') \/ r'.active = FALSE,
         r'.active <=> r'.pc \in Refreshing, flag' \in {flag, 0},
         session' \in Members \cup {Nobody}
  PROVE  TypeOK' /\ ScriptInv' /\ OrderInv' /\ ChannelInv' /\ FlagInv'
  <1>1. \A q \in queue' : q \in Requests
    <2>1. d = 1 => channel[1] \in Commands
      BY DEF IInv, TypeOK, Taken
    <2> QED
      BY <2>1, CommandFacts DEF IInv, TypeOK, TypeInv
  <1>2. TypeOK'
    <2>1. flag' \in {All} \cup 0 .. r.batch
      BY RunFacts DEF IInv, TypeOK, TypeInv
    <2>2. TypeInv'
      BY <1>1, <2>1 DEF TypeInv
    <2> QED
      BY <2>2 DEF IInv, TypeOK, windowVars, Taken
  <1>3. ScriptInv'
    BY DEF IInv, ScriptInv, windowVars
  <1>4. OrderInv'
    <2>1. Latest' = Latest
      BY DEF Latest, windowVars
    <2>2. \A i \in DOMAIN channel' : channel'[i].kind \in Wakes => channel'[i].arg.n <= Latest
      BY DEF Taken, IInv, OrderInv
    <2>3. \A q \in queue' : q.n <= Latest
      BY DEF Taken, IInv, OrderInv
    <2>4. r'.active => r'.n <= Latest
      BY DEF IInv, OrderInv, SameRun
    <2> QED
      BY <2>1, <2>2, <2>3, <2>4 DEF OrderInv
  <1>5. ChannelInv'
    <2> SUFFICES ASSUME NEW i \in DOMAIN channel'
                 PROVE  /\ channel'[i].kind = "shutdown" => AllStop
                        /\ channel'[i].kind = "cancel" =>
                             \A m \in Members : channel'[i].arg \in {m, Nobody} =>
                               /\ stopAt[m] # 0
                               /\ r'.active /\ r'.member = m => r'.n < stopAt[r'.member]
                               /\ \A q \in queue' : q.member = m => q.n < stopAt[m]
                               /\ \A j \in DOMAIN channel' :
                                    /\ j < i
                                    /\ channel'[j].kind \in Wakes
                                    /\ channel'[j].arg.member = m
                                    => channel'[j].arg.n < stopAt[m]
      BY DEF ChannelInv, windowVars, AllStop, Own
    <2>1. i + d \in DOMAIN channel /\ channel'[i] = channel[i + d] /\ i \in Nat /\ i > 0
      BY DEF Taken
    <2>2. channel'[i].kind = "shutdown" => AllStop
      BY <2>1 DEF IInv, ChannelInv
    <2> SUFFICES ASSUME channel'[i].kind = "cancel",
                        NEW m \in Members, channel'[i].arg \in {m, Nobody}
                 PROVE  /\ stopAt[m] # 0
                        /\ r'.active /\ r'.member = m => r'.n < stopAt[r'.member]
                        /\ \A q \in queue' : q.member = m => q.n < stopAt[m]
                        /\ \A j \in DOMAIN channel' :
                                    /\ j < i
                                    /\ channel'[j].kind \in Wakes
                                    /\ channel'[j].arg.member = m
                                    => channel'[j].arg.n < stopAt[m]
      BY <2>2
    <2>3. /\ stopAt[m] # 0
          /\ r.active /\ r.member = m => Own
          /\ \A q \in queue : q.member = m => q.n < stopAt[m]
          /\ \A j \in DOMAIN channel :
               j < i + d /\ channel[j].kind \in Wakes /\ channel[j].arg.member = m =>
                channel[j].arg.n < stopAt[m]
      BY <2>1 DEF IInv, ChannelInv
    <2>4. r'.active /\ r'.member = m => r'.n < stopAt[r'.member]
      BY <2>3 DEF SameRun, Own
    <2>5. ASSUME NEW q \in queue', q.member = m
          PROVE  q.n < stopAt[m]
      <3>1. CASE q \in queue
        BY <2>3, <2>5, <3>1
      <3>2. CASE d = 1 /\ channel[1].kind \in Wakes /\ q = channel[1].arg
        <4>1. 1 \in DOMAIN channel /\ 1 < i + d
          BY <2>1, <3>2 DEF Taken
        <4> QED
          BY <2>3, <2>5, <3>2, <4>1
      <3> QED
        BY <3>1, <3>2
    <2>6. ASSUME NEW j \in DOMAIN channel', j < i, channel'[j].kind \in Wakes,
                 channel'[j].arg.member = m
          PROVE  channel'[j].arg.n < stopAt[m]
      <3>1. j + d \in DOMAIN channel /\ channel'[j] = channel[j + d] /\ j \in Nat /\ j + d < i + d
        BY <2>1, <2>6 DEF Taken
      <3> QED
        BY <2>3, <2>6, <3>1
    <2> QED
      BY <2>3, <2>4, <2>5, <2>6
  <1>6. FlagInv'
    <2>1. flag' = All => AllStop
      BY DEF IInv, FlagInv, All
    <2>2. r'.active /\ (flag' = All \/ flag' = r'.batch) => r'.n < stopAt[r'.member]
      <3> SUFFICES ASSUME r'.active, flag' = All \/ flag' = r'.batch
                   PROVE  r'.n < stopAt[r'.member]
        OBVIOUS
      <3>1. r'.active = r.active /\ r'.n = r.n /\ r'.member = r.member /\ r'.batch = r.batch
        BY DEF SameRun
      <3>2. r.batch > 0
        BY <3>1 DEF IInv, RunsInv
      <3>3. flag = flag'
        BY <3>1, <3>2 DEF All
      <3> QED
        BY <3>1, <3>3 DEF IInv, FlagInv, CancelRequested, Own
    <2>3. looked = r'.batch /\ r'.active => r'.member = script.who
      BY DEF IInv, FlagInv, SameRun
    <2>4. looked # 0 => script.step \in {"flag", "cancel"} /\ looked <= r'.batch
      BY DEF IInv, FlagInv
    <2> QED
      BY <2>1, <2>2, <2>3, <2>4 DEF FlagInv, windowVars, AllStop, CancelRequested, Own
  <1> QED
    BY <1>2, <1>3, <1>4, <1>5, <1>6

LEMMA NothingTaken ==
  ASSUME IInv, channel' = channel
  PROVE  Taken(0)
  BY DEF IInv, TypeOK, Taken

LEMMA QueueStep ==
  ASSUME IInv, UNCHANGED <<windowVars, channel, deferred, known, autos>>, queue' \subseteq queue,
         r' \in Runs, r'.batch = r.batch, SameRun(r') \/ r'.active = FALSE,
         r'.active <=> r'.pc \in Refreshing, flag' = flag,
         session' \in Members \cup {Nobody}
  PROVE  TypeOK' /\ ScriptInv' /\ OrderInv' /\ ChannelInv' /\ FlagInv'
  <1>1. Taken(0)
    BY NothingTaken
  <1>2. deferred' \in Seq(Commands) /\ known' \in SomeConfigs /\ flag' \in {flag, 0}
    BY DEF IInv, TypeOK
  <1>3. \A q \in queue' :
          q \in queue \/ (0 = 1 /\ channel[1].kind \in Wakes /\ q = channel[1].arg)
    OBVIOUS
  <1> QED
    BY <1>1, <1>2, <1>3, WorkerStep

LEMMA OutcomeStep == ASSUME IInv, Outcome PROVE IInv'
  <1>1. r \in Runs /\ r.batch \in Nat /\ r.resume \in BOOLEAN /\ r.pc = "outcome" /\ r.active
    BY DEF IInv, TypeOK, TypeInv, Outcome, Runs, Refreshing
  <1>2. /\ r' \in Runs /\ r'.pc \in {"pop", "exit"} /\ r'.active = FALSE /\ r'.batch = r.batch
        /\ r'.outcome = "none" /\ r'.all = FALSE /\ r'.interrupted = FALSE
        /\ r'.pc = "pop" => r.outcome # "stopped"
    <2>1. CASE r.outcome = "stopped"
      <3>1. r' = Idle("exit", r.batch, r.resume) /\ queue' = {}
        BY <2>1 DEF Outcome
      <3>2. /\ r' \in Runs /\ r'.pc = "exit" /\ r'.active = FALSE /\ r'.batch = r.batch
            /\ r'.outcome = "none" /\ r'.all = FALSE /\ r'.interrupted = FALSE
        BY <1>1, <3>1, MaxCallsAssumption DEF Runs, Idle, Places
      <3> QED
        BY <3>1, <3>2
    <2>2. CASE r.outcome # "stopped"
      <3>1. r' = Idle("pop", r.batch, r.resume)
        BY <2>2 DEF Outcome
      <3>2. /\ r' \in Runs /\ r'.pc = "pop" /\ r'.active = FALSE /\ r'.batch = r.batch
            /\ r'.outcome = "none" /\ r'.all = FALSE /\ r'.interrupted = FALSE
        BY <1>1, <3>1, MaxCallsAssumption DEF Runs, Idle, Places
      <3> QED
        BY <2>2, <3>2
    <2> QED
      BY <2>1, <2>2
  <1>3. /\ UNCHANGED <<windowVars, channel, flag, running, target, hit, deferred, known,
                       autos>>
        /\ queue' \subseteq queue /\ session' \in {session, Nobody}
    BY DEF Outcome, atomics, Left, Keep
  <1>4. TypeOK' /\ ScriptInv' /\ OrderInv' /\ ChannelInv' /\ FlagInv'
    <2>1. r'.active <=> r'.pc \in Refreshing
      BY <1>2 DEF Refreshing
    <2>2. /\ deferred' \in Seq(Commands) /\ session' \in Members \cup {Nobody}
          /\ known' \in SomeConfigs
      BY <1>3 DEF IInv, TypeOK, TypeInv
    <2> QED
      BY <1>2, <1>3, <2>1, <2>2, QueueStep
  <1>5. DeferredInv'
    BY <1>1, <1>2, <1>3 DEF IInv, DeferredInv, windowVars, AllStop, Own
  <1>6. RunsInv'
    BY <1>1, <1>2, <1>3 DEF IInv, RunsInv, windowVars, AllStop, Own
  <1>7. RunInv'
    BY <1>1, <1>2, <1>3 DEF IInv, RunInv, Refreshing
  <1>8. NoLeftoverFlag'
    BY <1>1, <1>2, <1>3 DEF IInv, NoLeftoverFlag, windowVars, CancelComes, Refreshing
  <1>9. QueueInv'
    BY <1>2, <1>3 DEF IInv, QueueInv
  <1> QED
    BY <1>4, <1>5, <1>6, <1>7, <1>8, <1>9 DEF IInv

LEMMA RestStep == ASSUME IInv, Rest PROVE IInv'
  <1>1. r \in Runs /\ r.pc = "pop" /\ ~r.active
    BY DEF IInv, TypeOK, TypeInv, Rest, Runs, Refreshing
  <1>2. Kept(r') /\ r'.pc = "wait" /\ r'.outcome = r.outcome
    BY <1>1, GotoFacts DEF Rest, Pcs
  <1>3. /\ UNCHANGED <<windowVars, channel, flag, running, target, hit, deferred, queue,
                       known, autos>>
        /\ session' = Nobody /\ queue = {}
    BY DEF Rest, atomics
  <1>4. /\ r'.active = r.active /\ r'.member = r.member /\ r' \in Runs
        /\ r'.n = r.n /\ r'.batch = r.batch /\ r'.all = r.all
        /\ r'.interrupted = r.interrupted
    BY <1>2 DEF Kept, SameRun
  <1>5. TypeOK' /\ ScriptInv' /\ OrderInv' /\ ChannelInv' /\ FlagInv'
    <2>1. (r'.active <=> r'.pc \in Refreshing) /\ SameRun(r')
      BY <1>1, <1>2, <1>4 DEF Refreshing, Kept
    <2>2. /\ deferred' \in Seq(Commands) /\ session' \in Members \cup {Nobody}
          /\ known' \in SomeConfigs
      BY <1>3 DEF IInv, TypeOK, TypeInv
    <2> QED
      BY <1>2, <1>3, <1>4, <2>1, <2>2, QueueStep
  <1>6. DeferredInv'
    BY <1>1, <1>2, <1>3, <1>4 DEF IInv, DeferredInv, windowVars, AllStop, Own
  <1>7. RunsInv'
    BY <1>1, <1>2, <1>3, <1>4 DEF IInv, RunsInv, windowVars, AllStop, Own
  <1>8. RunInv'
    BY <1>1, <1>2, <1>3, <1>4 DEF IInv, RunInv, Refreshing
  <1>9. NoLeftoverFlag'
    BY <1>1, <1>2, <1>3, <1>4 DEF IInv, NoLeftoverFlag, windowVars, CancelComes, Refreshing
  <1>10. QueueInv'
    BY <1>3 DEF QueueInv
  <1> QED
    BY <1>5, <1>6, <1>7, <1>8, <1>9, <1>10 DEF IInv

-----------------------------------------------------------------------------
(* What a command changes                                                  *)

\* `next` is the record that a command finds, and v the one that it leaves.
Handled(c, next, v) ==
  /\ SameRun(v) /\ v.pc = next.pc /\ v.outcome = next.outcome /\ v.all = next.all
  /\ v.interrupted => r.interrupted \/ (c.kind = "cancel" /\ c.arg \in {r.member, Nobody})

\* All that the invariant needs to know of what a command does.
Effect(c, next) ==
  /\ Handled(c, next, r') /\ QueueInv'
  /\ \A q \in queue' : q \in queue \/ (c.kind \in Wakes /\ q = c.arg)
  /\ c.kind # "cancel" => flag' = flag
  /\ c.kind = "cancel" => flag' = 0 \/ (c.arg # Nobody /\ KeepsFlag /\ flag' = flag)
  /\ known' \in SomeConfigs /\ session' \in Members \cup {Nobody}
  /\ c.kind # "configure" => session' = session

LEMMA HandledNext ==
  ASSUME NEW c, NEW next, Kept(next)
  PROVE  Handled(c, next, next)
  BY DEF Kept, Handled

LEMMA HandledResume ==
  ASSUME NEW c, NEW next, Kept(next), NEW resume \in BOOLEAN
  PROVE  Handled(c, next, [next EXCEPT !.resume = resume])
  BY ResumeFacts DEF Kept, SameRun, Handled

LEMMA HandledInterrupted ==
  ASSUME NEW c, NEW next, Kept(next), NEW interrupted \in BOOLEAN,
         interrupted => r.interrupted \/ (c.kind = "cancel" /\ c.arg \in {r.member, Nobody})
  PROVE  Handled(c, next, [next EXCEPT !.interrupted = interrupted])
  BY InterruptedFacts DEF Kept, SameRun, Handled

LEMMA QueueSubset ==
  ASSUME QueueInv, queue' \subseteq queue, SameRun(r'),
         \A q \in queue' : q.member \in known'.members
  PROVE  QueueInv'
  BY DEF QueueInv, SameRun

LEMMA RefreshEffect ==
  ASSUME IInv, NEW c \in Commands, NEW next, Kept(next), c.kind \in Wakes,
         Refresh(c.arg, next)
  PROVE  Effect(c, next)
  <1>1. Handled(c, next, r') /\ SameRun(r')
    BY HandledNext DEF Refresh, Handled
  <1>2. known' = known /\ session' = session /\ flag' = flag
    BY DEF Refresh
  <1>3. \A q \in queue' : q \in queue \/ q = c.arg
    BY DEF Refresh
  <1>4. QueueInv'
    <2>1. r'.active = r.active /\ r'.scope = r.scope /\ QueueInv
      BY <1>1 DEF SameRun, IInv
    <2>2. CASE queue' = queue
      BY <1>2, <2>1, <2>2 DEF QueueInv
    <2>3. CASE queue' # queue
      <3>1. /\ queue' = {q \in queue : ~Covers(c.arg.scope, q.scope)} \cup {c.arg}
            /\ c.arg.member \in known.members /\ ~Covered(c.arg.scope)
        BY <2>3 DEF Refresh
      <3> QED
        BY <1>2, <2>1, <3>1 DEF QueueInv, Covered
    <2> QED
      BY <2>2, <2>3
  <1>5. c.kind \notin {"cancel", "configure"}
    BY DEF Wakes
  <1> QED
    BY <1>1, <1>2, <1>3, <1>4, <1>5 DEF Effect, IInv, TypeOK, TypeInv

LEMMA CancelEveryEffect ==
  ASSUME IInv, NEW c \in Commands, NEW next, Kept(next), c.kind = "cancel", c.arg = Nobody,
         CancelEvery(next)
  PROVE  Effect(c, next)
  <1>1. Handled(c, next, r') /\ SameRun(r')
    BY HandledInterrupted DEF CancelEvery, Handled
  <1>2. known' = known /\ session' = session /\ flag' = 0 /\ queue' = {}
    BY DEF CancelEvery
  <1>3. QueueInv'
    BY <1>2 DEF QueueInv
  <1> QED
    BY <1>1, <1>2, <1>3 DEF Effect, IInv, TypeOK, TypeInv

LEMMA CancelMemberEffect ==
  ASSUME IInv, NEW c \in Commands, NEW next, Kept(next), c.kind = "cancel", c.arg # Nobody,
         CancelMember(c.arg, next)
  PROVE  Effect(c, next)
  <1>1. Handled(c, next, r') /\ SameRun(r')
    <2> DEFINE interrupted == next.interrupted \/ (r.active /\ r.member = c.arg)
    <2>1. next \in Runs /\ next.interrupted = r.interrupted /\ next.interrupted \in BOOLEAN
      BY DEF Kept, SameRun, Runs
    <2>2. r' = [next EXCEPT !.interrupted = interrupted]
      BY <2>1 DEF CancelMember, Runs
    <2>3. /\ interrupted \in BOOLEAN
          /\ interrupted => \/ r.interrupted
                            \/ c.kind = "cancel" /\ c.arg \in {r.member, Nobody}
      BY <2>1
    <2> HIDE DEF interrupted
    <2> QED
      BY <2>2, <2>3, HandledInterrupted DEF Handled
  <1>2. known' = known /\ session' = session /\ queue' \subseteq queue
    BY DEF CancelMember, Keep
  <1>3. flag' = 0 \/ (KeepsFlag /\ flag' = flag)
    BY DEF CancelMember
  <1>4. QueueInv'
    BY <1>1, <1>2, QueueSubset DEF QueueInv, IInv
  <1>5. \A q \in queue' : q \in queue
    BY <1>2
  <1> QED
    BY <1>1, <1>2, <1>3, <1>4, <1>5 DEF Effect, IInv, TypeOK, TypeInv

LEMMA ConfigureEffect ==
  ASSUME IInv, NEW c \in Commands, NEW next, Kept(next), c.kind = "configure",
         Configure(next, c.arg)
  PROVE  Effect(c, next)
  <1>1. Handled(c, next, r') /\ SameRun(r')
    <2>1. r' = next \/ r' = [next EXCEPT !.resume = FALSE]
      BY DEF Configure
    <2>2. FALSE \in BOOLEAN
      OBVIOUS
    <2> QED
      BY <2>1, <2>2, HandledNext, HandledResume DEF Handled
  <1>2. /\ known' = c.arg /\ c.arg \in SomeConfigs /\ flag' = flag
        /\ session' \in {session, Nobody}
    BY CommandFacts DEF Configure
  <1>3. queue' \subseteq queue /\ \A q \in queue' : q.member \in known'.members
    BY DEF Configure, KeepMembers
  <1>4. QueueInv'
    BY <1>1, <1>3, QueueSubset DEF IInv
  <1>5. \A q \in queue' : q \in queue
    BY <1>3
  <1> QED
    BY <1>1, <1>2, <1>4, <1>5 DEF Effect, IInv, TypeOK, TypeInv

LEMMA QuietEffect ==
  ASSUME IInv, NEW c \in Commands, NEW next, Kept(next), c.kind # "cancel",
         c.kind # "configure",
         UNCHANGED <<flag, queue, known, session>>,
         r' = next \/ (\E resume \in BOOLEAN : r' = [next EXCEPT !.resume = resume])
  PROVE  Effect(c, next)
  <1>1. Handled(c, next, r') /\ SameRun(r')
    BY HandledNext, HandledResume DEF Handled
  <1>2. QueueInv'
    BY <1>1 DEF QueueInv, SameRun, IInv
  <1> QED
    BY <1>1, <1>2 DEF Effect, IInv, TypeOK, TypeInv

LEMMA HandleEffect ==
  ASSUME IInv, NEW c \in Commands, NEW next, Kept(next), Handle(c, next)
  PROVE  Effect(c, next)
  <1>1. CASE c.kind = "refresh" /\ Refresh(c.arg, next)
    BY <1>1, RefreshEffect DEF Wakes
  <1>2. CASE c.kind = "refreshIfUnloaded" /\ RefreshIfUnloaded(c.arg, next)
    <2>1. CASE catalog.loaded
      <3>1. UNCHANGED <<flag, queue, known, session>> /\ r' = next
        BY <1>2, <2>1 DEF RefreshIfUnloaded
      <3> QED
        BY <1>2, <3>1, QuietEffect
    <2>2. CASE ~catalog.loaded
      BY <1>2, <2>2, RefreshEffect DEF RefreshIfUnloaded, Wakes
    <2> QED
      BY <2>1, <2>2
  <1>3. CASE c.kind = "cancel" /\ c.arg = Nobody /\ CancelEvery(next)
    BY <1>3, CancelEveryEffect
  <1>4. CASE c.kind = "cancel" /\ c.arg # Nobody /\ CancelMember(c.arg, next)
    BY <1>4, CancelMemberEffect
  <1>5. CASE c.kind = "configure" /\ Configure(next, c.arg)
    BY <1>5, ConfigureEffect
  <1>6. CASE c.kind = "live" /\ SetLive(c.arg, next)
    <2> DEFINE resume == next.resume \/ (/\ live = {}
                                         /\ c.arg \in known.members
                                         /\ \/ catalog.unfinished
                                            \/ r.active /\ r.scope = Connection)
    <2>1. r' = [next EXCEPT !.resume = resume] /\ UNCHANGED <<flag, queue, known, session>>
      BY <1>6 DEF SetLive, Kept, SameRun, Runs
    <2>2. resume \in BOOLEAN
      OBVIOUS
    <2> HIDE DEF resume
    <2> QED
      BY <1>6, <2>1, <2>2, QuietEffect
  <1>7. CASE c.kind = "cold" /\ SetCold(c.arg, next)
    BY <1>7, QuietEffect DEF SetCold
  <1>8. CASE c.kind = "seed" /\ Seed(c.arg, next)
    <2>1. UNCHANGED <<flag, queue, known, session>>
      BY <1>8 DEF Seed
    <2>2. r' = next \/ r' = [next EXCEPT !.resume = FALSE]
      BY <1>8 DEF Seed
    <2>3. FALSE \in BOOLEAN
      OBVIOUS
    <2> QED
      BY <1>8, <2>1, <2>2, <2>3, QuietEffect
  <1> QED
    BY <1>1, <1>2, <1>3, <1>4, <1>5, <1>6, <1>7, <1>8 DEF Handle

LEMMA TailFacts ==
  ASSUME NEW S, NEW s \in Seq(S), s # <<>>
  PROVE  /\ Tail(s) \in Seq(S) /\ Head(s) = s[1] /\ 1 \in DOMAIN s /\ s[1] \in S
         /\ \A i \in DOMAIN Tail(s) : i + 1 \in DOMAIN s /\ Tail(s)[i] = s[i + 1]
         /\ \A i \in DOMAIN s : i = 1 \/ (i - 1 \in DOMAIN Tail(s) /\ Tail(s)[i - 1] = s[i])
  <1>1. Len(s) \in Nat /\ Len(s) >= 1
    BY EmptySeq, LenProperties
  <1>2. /\ Tail(s) \in Seq(S) /\ Len(Tail(s)) = Len(s) - 1
        /\ \A i \in 1 .. Len(Tail(s)) : Tail(s)[i] = s[i + 1]
        /\ Head(s) = s[1]
    BY <1>1, HeadTailProperties
  <1>3. DOMAIN s = 1 .. Len(s) /\ DOMAIN Tail(s) = 1 .. Len(Tail(s))
    BY <1>1, <1>2
  <1>4. 1 \in DOMAIN s /\ s[1] \in S
    BY <1>1, <1>3
  <1>5. \A i \in DOMAIN Tail(s) : i + 1 \in DOMAIN s /\ Tail(s)[i] = s[i + 1]
    BY <1>1, <1>2, <1>3
  <1>6. \A i \in DOMAIN s : i = 1 \/ (i - 1 \in DOMAIN Tail(s) /\ Tail(s)[i - 1] = s[i])
    BY <1>1, <1>2, <1>3
  <1> QED
    BY <1>2, <1>4, <1>5, <1>6

LEMMA HeadOfChannel ==
  ASSUME TypeOK, channel # <<>>, channel' = Tail(channel)
  PROVE  Taken(1) /\ Head(channel) = channel[1]
  BY TailFacts DEF TypeOK, Taken

\* Every command stays on its way but the one that is taken, c.
OthersStay(c) ==
  /\ \A i \in DOMAIN channel :
       channel[i] = c \/ (\E j \in DOMAIN channel' : channel'[j] = channel[i])
  /\ \A i \in DOMAIN deferred :
       deferred[i] = c \/ (\E j \in DOMAIN deferred' : deferred'[j] = deferred[i])

LEMMA ChannelRest ==
  ASSUME TypeOK, channel # <<>>, channel' = Tail(channel)
  PROVE  \A i \in DOMAIN channel :
           channel[i] = Head(channel) \/ (\E j \in DOMAIN channel' : channel'[j] = channel[i])
  BY TailFacts DEF TypeOK

LEMMA DeferredRest ==
  ASSUME TypeOK, deferred # <<>>, deferred' = Tail(deferred)
  PROVE  /\ deferred' \in Seq(Commands)
         /\ \A i \in DOMAIN deferred' : \E j \in DOMAIN deferred : deferred'[i] = deferred[j]
         /\ \A i \in DOMAIN deferred :
              \/ deferred[i] = Head(deferred)
              \/ \E j \in DOMAIN deferred' : deferred'[j] = deferred[i]
  BY TailFacts DEF TypeOK

\* A command that the worker takes is one that a stop or a request may rest on.
Fresh(c) ==
  /\ c \in Commands
  /\ c.kind = "shutdown" => AllStop
  /\ c.kind = "cancel" /\ c.arg = Nobody => AllStop
  /\ c.kind = "cancel" => \A m \in Members : c.arg \in {m, Nobody} =>
                            stopAt[m] # 0 /\ (r.active /\ r.member = m => Own)

LEMMA FreshChannel ==
  ASSUME IInv, channel # <<>>
  PROVE  Fresh(Head(channel))
  <1>1. Head(channel) = channel[1] /\ channel[1] \in Commands /\ 1 \in DOMAIN channel
    BY TailFacts DEF TypeOK, IInv
  <1> QED
    BY <1>1 DEF IInv, ChannelInv, Fresh, AllStop

LEMMA FreshDeferred ==
  ASSUME IInv, deferred # <<>>
  PROVE  Fresh(Head(deferred)) /\ Head(deferred).kind \notin Wakes
  <1>1. Head(deferred) = deferred[1] /\ deferred[1] \in Commands /\ 1 \in DOMAIN deferred
    BY TailFacts DEF TypeOK, IInv
  <1> QED
    BY <1>1 DEF IInv, DeferredInv, Fresh, AllStop, Wakes

\* The next command, taken from `deferred` or from the channel.
LEMMA TakeFacts ==
  ASSUME IInv, Waiting, Take
  PROVE  /\ Fresh(NextCommand) /\ OthersStay(NextCommand)
         /\ deferred' \in Seq(Commands)
         /\ \A i \in DOMAIN deferred' : \E j \in DOMAIN deferred : deferred'[i] = deferred[j]
         /\ deferred = <<>> => deferred' = <<>>
         /\ \E d \in {0, 1} :
              /\ Taken(d)
              /\ NextCommand.kind \in Wakes => d = 1 /\ NextCommand = channel[1]
  <1>1. CASE deferred # <<>>
    <2>1. deferred' = Tail(deferred) /\ channel' = channel /\ NextCommand = Head(deferred)
      BY <1>1 DEF Take, NextCommand
    <2>2. Taken(0)
      BY <2>1, NothingTaken
    <2>3. /\ deferred' \in Seq(Commands)
          /\ \A i \in DOMAIN deferred' : \E j \in DOMAIN deferred : deferred'[i] = deferred[j]
          /\ \A i \in DOMAIN deferred :
               \/ deferred[i] = Head(deferred)
              \/ \E j \in DOMAIN deferred' : deferred'[j] = deferred[i]
      BY <1>1, <2>1, DeferredRest DEF IInv
    <2>4. OthersStay(NextCommand)
      BY <2>1, <2>3 DEF OthersStay
    <2>5. Fresh(NextCommand) /\ NextCommand.kind \notin Wakes
      BY <1>1, <2>1, FreshDeferred
    <2> QED
      BY <1>1, <2>2, <2>3, <2>4, <2>5
  <1>2. CASE deferred = <<>>
    <2>1. /\ deferred' = deferred /\ channel' = Tail(channel) /\ NextCommand = Head(channel)
          /\ channel # <<>>
      BY <1>2 DEF Take, NextCommand, Waiting
    <2>2. Taken(1) /\ NextCommand = channel[1]
      BY <2>1, HeadOfChannel DEF IInv
    <2>3. OthersStay(NextCommand)
      BY <2>1, ChannelRest DEF OthersStay, IInv
    <2>4. Fresh(NextCommand)
      BY <2>1, FreshChannel
    <2>5. deferred' \in Seq(Commands)
      BY <2>1 DEF IInv, TypeOK
    <2> QED
      BY <1>2, <2>1, <2>2, <2>3, <2>4, <2>5
  <1> QED
    BY <1>1, <1>2

\* A cancellation that is still on its way after the worker took c.
LEMMA CancelStillComes ==
  ASSUME NEW c, OthersStay(c), UNCHANGED script, NEW members, CancelComes(members),
         ~(c.kind = "cancel" /\ c.arg \in members)
  PROVE  CancelComes(members)'
  <1>1. CASE /\ script.step \in {"look", "flag", "cancel", "raise", "cancelAny", "tell"}
             /\ script.who \in members
    BY <1>1 DEF CancelComes
  <1>2. CASE \E i \in DOMAIN deferred : deferred[i].kind = "cancel" /\ deferred[i].arg \in members
    <2>1. PICK i \in DOMAIN deferred : deferred[i].kind = "cancel" /\ deferred[i].arg \in members
      BY <1>2
    <2>2. \E j \in DOMAIN deferred' : deferred'[j] = deferred[i]
      BY <2>1 DEF OthersStay
    <2> QED
      BY <2>1, <2>2 DEF CancelComes
  <1>3. CASE \E i \in DOMAIN channel : channel[i].kind = "cancel" /\ channel[i].arg \in members
    <2>1. PICK i \in DOMAIN channel : channel[i].kind = "cancel" /\ channel[i].arg \in members
      BY <1>3
    <2>2. \E j \in DOMAIN channel' : channel'[j] = channel[i]
      BY <2>1 DEF OthersStay
    <2> QED
      BY <2>1, <2>2 DEF CancelComes
  <1> QED
    BY <1>1, <1>2, <1>3 DEF CancelComes

\* The worker applies a command that it took from the channel or from `deferred`.
LEMMA CommandStep ==
  ASSUME IInv, NEW c, NEW next, Fresh(c), OthersStay(c), Kept(next), next.outcome = r.outcome,
         Effect(c, next), NEW d \in {0, 1}, Taken(d),
         c.kind \in Wakes => d = 1 /\ c = channel[1],
         UNCHANGED <<windowVars, running, target, hit, autos>>, deferred' \in Seq(Commands),
         \A i \in DOMAIN deferred' : \E j \in DOMAIN deferred : deferred'[i] = deferred[j],
         deferred = <<>> => deferred' = <<>>,
         \/ r.pc = "wait" /\ next.pc = "pop"
         \/ r.pc = "check" /\ next.pc = "check"
         \/ r.pc = "poll" /\ next.pc = "poll" /\ c.kind # "configure"
  PROVE  IInv'
  <1>1. /\ r' \in Runs /\ r'.active = r.active /\ r'.scope = r.scope /\ r'.member = r.member
        /\ r'.n = r.n /\ r'.batch = r.batch /\ r'.all = r.all /\ r'.outcome = r.outcome
        /\ r'.pc = next.pc /\ SameRun(r')
        /\ r'.interrupted =>
             r.interrupted \/ (c.kind = "cancel" /\ c.arg \in {r.member, Nobody})
    BY DEF Effect, Handled, SameRun, Kept
  <1>2. /\ QueueInv' /\ known' \in SomeConfigs /\ session' \in Members \cup {Nobody}
        /\ flag' \in {flag, 0}
        /\ \A q \in queue' : q \in queue \/ (c.kind \in Wakes /\ q = c.arg)
    BY DEF Effect
  <1>3. (r.active <=> r.pc \in Refreshing) /\ (r'.active <=> r'.pc \in Refreshing)
    <2>1. r.active <=> r.pc \in Refreshing
      BY DEF IInv, TypeOK, TypeInv
    <2> QED
      BY <1>1, <2>1 DEF Refreshing
  <1>4. TypeOK' /\ ScriptInv' /\ OrderInv' /\ ChannelInv' /\ FlagInv'
    <2>1. \A q \in queue' :
            q \in queue \/ (d = 1 /\ channel[1].kind \in Wakes /\ q = channel[1].arg)
      BY <1>2
    <2> QED
      BY <1>1, <1>2, <1>3, <2>1, WorkerStep
  <1>5. DeferredInv'
    <2>1. r.pc = "wait" => deferred' = <<>>
      BY DEF IInv, DeferredInv
    <2> QED
      BY <1>1, <2>1 DEF IInv, DeferredInv, windowVars, AllStop, Own
  <1>6. RunsInv'
    <2>1. r'.active /\ r'.interrupted => Own /\ Own'
      <3> SUFFICES ASSUME r'.active, r'.interrupted
                   PROVE  Own
        BY <1>1 DEF Own, windowVars
      <3>1. r.active /\ r.member \in Members
        BY <1>1 DEF IInv, RunsInv
      <3> QED
        BY <1>1, <3>1 DEF IInv, RunsInv, Fresh
    <2>2. r'.active => r'.batch > 0 /\ r'.member \in Members
      BY <1>1 DEF IInv, RunsInv
    <2>3. r'.pc = "poll" /\ CancelRequested' => CancelRequested
      BY <1>1, <1>2, <1>3, <2>2 DEF CancelRequested, All, Refreshing
    <2> QED
      BY <1>1, <1>3, <2>1, <2>2, <2>3 DEF IInv, RunsInv, windowVars, AllStop, Own
  <1>7. RunInv'
    <2>1. r.pc = "poll" => session' = session
      BY DEF Effect
    <2> QED
      BY <1>1, <2>1 DEF IInv, RunInv, Refreshing
  <1>8. NoLeftoverFlag'
    <2> SUFFICES ASSUME r'.pc # "exit", flag' # 0
                 PROVE  /\ flag' = All => CancelComes({Nobody})'
                        /\ flag' \notin {0, All} =>
                             \/ flag' = r'.batch /\ r'.pc \in Refreshing \ {"outcome"}
                             \/ CancelComes(Members)'
      BY DEF NoLeftoverFlag, All
    <2>1. flag' = flag /\ r.pc # "exit" /\ (c.kind = "cancel" => c.arg # Nobody /\ KeepsFlag)
      BY DEF Effect
    <2>2. UNCHANGED script
      BY DEF windowVars
    <2>3. flag = All => CancelComes({Nobody})'
      BY <2>1, <2>2, CancelStillComes DEF IInv, NoLeftoverFlag
    <2>4. flag \notin {0, All} =>
            (flag = r.batch /\ r'.pc \in Refreshing \ {"outcome"}) \/ CancelComes(Members)'
      <3>1. CASE r.active /\ flag = r.batch
        BY <1>1, <1>3, <3>1 DEF Refreshing
      <3>2. CASE ~(r.active /\ flag = r.batch)
        BY <1>3, <2>1, <2>2, <3>2, CancelStillComes DEF IInv, NoLeftoverFlag, KeepsFlag
      <3> QED
        BY <3>1, <3>2
    <2> QED
      BY <1>1, <2>1, <2>3, <2>4
  <1> QED
    BY <1>2, <1>4, <1>5, <1>6, <1>7, <1>8 DEF IInv

LEMMA ReceiveStep == ASSUME IInv, Receive PROVE IInv'
  <1>1. r \in Runs
    BY DEF IInv, TypeOK, TypeInv
  <1>2. Kept(Goto("pop")) /\ Goto("pop").pc = "pop" /\ Goto("pop").outcome = r.outcome
    BY <1>1, GotoFacts DEF Pcs
  <1>3. /\ Waiting /\ Take /\ Handle(NextCommand, Goto("pop")) /\ r.pc = "wait"
        /\ UNCHANGED <<windowVars, running, target, hit, autos>>
    BY DEF Receive, workerRest
  <1>4. NextCommand \in Commands
    BY <1>3, TakeFacts DEF Fresh
  <1>5. Effect(NextCommand, Goto("pop"))
    BY <1>2, <1>3, <1>4, HandleEffect
  <1> QED
    BY <1>2, <1>3, <1>5, TakeFacts, CommandStep

LEMMA CheckCommandStep == ASSUME IInv, CheckCommand PROVE IInv'
  <1>1. r \in Runs /\ Kept(r)
    BY RunFacts DEF IInv, TypeOK, TypeInv
  <1>2. /\ Waiting /\ Take /\ Handle(NextCommand, r) /\ r.pc = "check"
        /\ UNCHANGED <<windowVars, running, target, hit, autos>>
    BY DEF CheckCommand, workerRest
  <1>3. NextCommand \in Commands
    BY <1>2, TakeFacts DEF Fresh
  <1>4. Effect(NextCommand, r)
    BY <1>1, <1>2, <1>3, HandleEffect
  <1> QED
    BY <1>1, <1>2, <1>4, TakeFacts, CommandStep

\* The worker takes the command that ends it.
LEMMA LastCommandStep == ASSUME IInv, End \/ CheckShutdown PROVE IInv'
  <1>1. /\ r \in Runs /\ Waiting /\ Take /\ r.batch \in Nat /\ r.resume \in BOOLEAN
        /\ UNCHANGED <<windowVars, running, target, hit, autos, flag, queue, known>>
        /\ NextCommand.kind = "shutdown"
    BY DEF IInv, TypeOK, TypeInv, End, CheckShutdown, workerRest, Ends, Runs
  <1>2. AllStop
    BY <1>1, TakeFacts DEF Fresh
  <1>3. CASE End
    <2>1. r' = Idle("exit", r.batch, r.resume) /\ session' = Nobody /\ r.pc = "wait"
      BY <1>3 DEF End
    <2>2. /\ r' \in Runs /\ r'.pc = "exit" /\ r'.active = FALSE /\ r'.batch = r.batch
          /\ r'.outcome = "none" /\ r'.all = FALSE /\ r'.interrupted = FALSE
      BY <1>1, <2>1, MaxCallsAssumption DEF Runs, Idle, Places
    <2>3. deferred' = <<>>
      BY <1>1, <2>1, TakeFacts DEF IInv, DeferredInv
    <2>4. TypeOK' /\ ScriptInv' /\ OrderInv' /\ ChannelInv' /\ FlagInv'
      <3>1. PICK d \in {0, 1} : Taken(d)
        BY <1>1, TakeFacts
      <3>2. /\ deferred' \in Seq(Commands) /\ session' \in Members \cup {Nobody}
            /\ known' \in SomeConfigs
        BY <1>1, <2>1, TakeFacts DEF IInv, TypeOK, TypeInv
      <3>3. (r'.active <=> r'.pc \in Refreshing) /\ flag' \in {flag, 0}
        BY <1>1, <2>2 DEF Refreshing
      <3> QED
        BY <1>1, <2>2, <3>1, <3>2, <3>3, WorkerStep
    <2>5. DeferredInv'
      BY <2>3 DEF DeferredInv
    <2>6. RunsInv'
      BY <2>2 DEF RunsInv
    <2>7. RunInv'
      BY <1>1, <2>1, <2>2 DEF IInv, RunInv, Refreshing
    <2>8. NoLeftoverFlag'
      BY <2>2 DEF NoLeftoverFlag
    <2>9. QueueInv'
      BY <1>1, <2>2 DEF IInv, QueueInv
    <2> QED
      BY <2>4, <2>5, <2>6, <2>7, <2>8, <2>9 DEF IInv
  <1>4. CASE CheckShutdown
    <2>1. /\ Kept(r') /\ r'.pc = "end" /\ r'.outcome = "stopped" /\ r.pc = "check"
          /\ session' = session
      BY <1>1, <1>4, FinishFacts DEF CheckShutdown, Finish, Outcomes
    <2>2. /\ r'.active = r.active /\ r'.member = r.member /\ r' \in Runs /\ SameRun(r')
          /\ r'.n = r.n /\ r'.batch = r.batch /\ r'.all = r.all
          /\ r'.interrupted = r.interrupted
      BY <2>1 DEF Kept, SameRun
    <2>3. r.active
      BY <2>1 DEF IInv, TypeOK, TypeInv, Refreshing
    <2>4. TypeOK' /\ ScriptInv' /\ OrderInv' /\ ChannelInv' /\ FlagInv'
      <3>1. PICK d \in {0, 1} : Taken(d)
        BY <1>1, TakeFacts
      <3>2. /\ deferred' \in Seq(Commands) /\ session' \in Members \cup {Nobody}
            /\ known' \in SomeConfigs
        BY <1>1, <2>1, TakeFacts DEF IInv, TypeOK, TypeInv
      <3>3. (r'.active <=> r'.pc \in Refreshing) /\ flag' \in {flag, 0}
        BY <1>1, <2>1, <2>2, <2>3 DEF Refreshing
      <3> QED
        BY <1>1, <2>2, <3>1, <3>2, <3>3, WorkerStep
    <2>5. DeferredInv'
      <3>1. \A i \in DOMAIN deferred' : \E j \in DOMAIN deferred : deferred'[i] = deferred[j]
        BY <1>1, TakeFacts
      <3> QED
        BY <1>1, <2>1, <2>2, <3>1 DEF IInv, DeferredInv, windowVars, AllStop, Own
    <2>6. RunsInv'
      BY <1>1, <1>2, <2>1, <2>2 DEF IInv, RunsInv, windowVars, AllStop, Own
    <2>7. RunInv'
      BY <1>1, <2>1, <2>2 DEF IInv, RunInv, Refreshing
    <2>8. NoLeftoverFlag'
      <3>1. OthersStay(NextCommand) /\ NextCommand.kind # "cancel" /\ UNCHANGED script
        BY <1>1, TakeFacts DEF windowVars
      <3> QED
        BY <1>1, <2>1, <2>2, <3>1, CancelStillComes DEF IInv, NoLeftoverFlag, Refreshing
    <2>9. QueueInv'
      BY <1>1, <2>2 DEF IInv, QueueInv, SameRun
    <2> QED
      BY <2>4, <2>5, <2>6, <2>7, <2>8, <2>9 DEF IInv
  <1> QED
    BY <1>3, <1>4

\* During a request a command is applied at once or waits for the checkpoint.
LEMMA AcceptStep == ASSUME IInv, Accept PROVE IInv'
  <1> DEFINE c == Head(channel)
  <1>1. /\ r.pc = "poll" /\ channel # <<>> /\ channel' = Tail(channel)
        /\ UNCHANGED <<windowVars, running, target, hit, autos>>
    BY DEF Accept, workerRest
  <1>2. Fresh(c) /\ c = channel[1] /\ Taken(1) /\ c \in Commands
    BY <1>1, FreshChannel, HeadOfChannel DEF IInv, Fresh
  <1>3. \A i \in DOMAIN channel :
          channel[i] = c \/ (\E j \in DOMAIN channel' : channel'[j] = channel[i])
    BY <1>1, ChannelRest DEF IInv
  <1>4. r \in Runs /\ Kept(r) /\ r.active /\ r.member \in Members
    <2>1. r.active
      BY <1>1 DEF IInv, TypeOK, TypeInv, Refreshing
    <2> QED
      BY <2>1, RunFacts DEF IInv, TypeOK, TypeInv, RunsInv
  <1>5. \/ /\ AcceptedEarly(c)
           /\ Handle(c, r) /\ UNCHANGED deferred
        \/ /\ ~AcceptedEarly(c)
           /\ deferred' = Append(deferred, c)
           /\ UNCHANGED <<flag, queue, known, live, session, catalog, r>>
    BY DEF Accept
  <1> HIDE DEF c
  <1>6. CASE /\ AcceptedEarly(c)
             /\ Handle(c, r) /\ UNCHANGED deferred
    <2>1. Effect(c, r)
      BY <1>2, <1>4, <1>6, HandleEffect
    <2>2. OthersStay(c)
      BY <1>3, <1>6 DEF OthersStay
    <2>3. deferred' \in Seq(Commands) /\ c.kind # "configure"
      BY <1>6 DEF IInv, TypeOK, AcceptedEarly
    <2> QED
      BY <1>1, <1>2, <1>4, <1>6, <2>1, <2>2, <2>3, CommandStep
  <1>7. CASE /\ ~AcceptedEarly(c)
             /\ deferred' = Append(deferred, c)
             /\ UNCHANGED <<flag, queue, known, live, session, catalog, r>>
    <2>1. /\ deferred' \in Seq(Commands)
          /\ \A i \in DOMAIN deferred' :
               deferred'[i] = c \/ (\E j \in DOMAIN deferred : deferred'[i] = deferred[j])
          /\ \A i \in DOMAIN deferred : \E j \in DOMAIN deferred' : deferred'[j] = deferred[i]
          /\ \E j \in DOMAIN deferred' : deferred'[j] = c
      <3>1. deferred \in Seq(Commands)
        BY DEF IInv, TypeOK
      <3>2. /\ deferred' \in Seq(Commands) /\ Len(deferred') = Len(deferred) + 1
            /\ Len(deferred) \in Nat
            /\ \A i \in 1 .. Len(deferred) : deferred'[i] = deferred[i]
            /\ deferred'[Len(deferred) + 1] = c
        BY <1>2, <1>7, <3>1, AppendProperties, LenProperties
      <3>3. /\ DOMAIN deferred = 1 .. Len(deferred)
            /\ DOMAIN deferred' = 1 .. (Len(deferred) + 1)
        BY <3>1, <3>2
      <3> QED
        BY <3>2, <3>3
    <2>2. /\ c.kind \in {"cancel", "configure", "seed", "shutdown"}
          /\ c.kind = "cancel" => c.arg = Nobody
      BY <1>2, <1>7, CommandFacts DEF Wakes, AcceptedEarly
    <2>3. TypeOK' /\ ScriptInv' /\ OrderInv' /\ ChannelInv' /\ FlagInv'
      <3>1. known' \in SomeConfigs /\ session' \in Members \cup {Nobody} /\ r' \in Runs
        BY <1>7 DEF IInv, TypeOK, TypeInv
      <3>2. /\ r'.active <=> r'.pc \in Refreshing
            /\ flag' \in {flag, 0} /\ SameRun(r') /\ r'.batch = r.batch
        BY <1>4, <1>7 DEF IInv, TypeOK, TypeInv, Kept
      <3> QED
        BY <1>1, <1>2, <1>7, <2>1, <3>1, <3>2, WorkerStep
    <2>4. DeferredInv'
      <3>1. c.kind \in {"cancel", "shutdown"} => AllStop
        BY <1>2, <2>2 DEF Fresh
      <3>2. c.kind = "cancel" => c.arg = Nobody /\ Own
        BY <1>2, <1>4, <2>2 DEF Fresh
      <3>3. UNCHANGED <<stopAt, r>>
        BY <1>1, <1>7 DEF windowVars
      <3> QED
        BY <1>1, <2>1, <2>2, <3>1, <3>2, <3>3 DEF IInv, DeferredInv, AllStop, Own
    <2>5. RunsInv' /\ RunInv' /\ QueueInv'
      BY <1>1, <1>7 DEF IInv, RunsInv, RunInv, QueueInv, windowVars, AllStop, Own,
         CancelRequested
    <2>6. NoLeftoverFlag'
      <3>1. ASSUME NEW members, CancelComes(members)
            PROVE  CancelComes(members)'
        <4>1. UNCHANGED script
          BY <1>1 DEF windowVars
        <4> QED
          BY <1>3, <2>1, <3>1, <4>1 DEF CancelComes
      <3> QED
        BY <1>7, <3>1 DEF IInv, NoLeftoverFlag
    <2> QED
      BY <2>3, <2>4, <2>5, <2>6 DEF IInv
  <1> QED
    BY <1>5, <1>6, <1>7

LEMMA AutomaticFacts ==
  ASSUME r \in Runs
  PROVE  LET s == [Goto("pop") EXCEPT !.automatic = TRUE]
         IN  Kept(s) /\ s.pc = "pop" /\ s.outcome = r.outcome
  BY DEF Runs, Goto, Kept, SameRun

LEMMA AutomaticStep == ASSUME IInv, NEW m \in Members, Automatic(m) PROVE IInv'
  <1> DEFINE q == [member |-> m, scope |-> Connection, n |-> Latest]
  <1>1. /\ r \in Runs /\ r.pc = "wait" /\ deferred = <<>> /\ channel = <<>> /\ ~r.active
        /\ autos' = autos + 1 /\ calls + autos < MaxCalls /\ m \in known.members
        /\ queue' = {q}
        /\ r' = [Goto("pop") EXCEPT !.automatic = TRUE]
        /\ UNCHANGED <<windowVars, channel, flag, running, target, hit, deferred, known,
                       session>>
    BY DEF IInv, TypeOK, TypeInv, Refreshing, Automatic, Waiting, Latest, atomics
  <1>2. Kept(r') /\ r'.pc = "pop" /\ r'.outcome = r.outcome
    BY <1>1, AutomaticFacts
  <1>3. /\ r'.active = r.active /\ r'.member = r.member /\ r' \in Runs /\ r'.scope = r.scope
        /\ r'.n = r.n /\ r'.batch = r.batch /\ r'.all = r.all
        /\ r'.interrupted = r.interrupted
    BY <1>2 DEF Kept, SameRun
  <1>4. Latest \in 0 .. MaxCalls /\ Latest' = Latest
    <2>1. script # NoCall => calls >= 1
      BY DEF IInv, ScriptInv
    <2> QED
      BY <1>1, <2>1, MaxCallsAssumption DEF IInv, TypeOK, Latest, windowVars
  <1>5. q \in Requests /\ q.n = Latest /\ q.member = m
    BY <1>4 DEF Requests, Places
  <1> HIDE DEF q
  <1>6. TypeOK'
    <2>1. TypeInv'
      BY <1>1, <1>2, <1>3, <1>5 DEF IInv, TypeOK, TypeInv, Refreshing
    <2>2. calls' \in Nat /\ autos' \in Nat /\ calls' + autos' <= MaxCalls
      BY <1>1, MaxCallsAssumption DEF IInv, TypeOK, windowVars
    <2> QED
      BY <1>1, <2>1, <2>2 DEF IInv, TypeOK, windowVars
  <1>7. ScriptInv'
    BY <1>1 DEF IInv, ScriptInv, windowVars
  <1>8. OrderInv'
    BY <1>1, <1>3, <1>4, <1>5 DEF IInv, OrderInv, TypeOK
  <1>9. ChannelInv' /\ DeferredInv'
    BY <1>1 DEF ChannelInv, DeferredInv
  <1>10. FlagInv'
    BY <1>1, <1>3 DEF IInv, FlagInv, windowVars, AllStop
  <1>11. RunsInv'
    BY <1>1, <1>2, <1>3 DEF IInv, RunsInv, windowVars, AllStop
  <1>12. RunInv'
    BY <1>1, <1>2, <1>3 DEF IInv, RunInv, Refreshing
  <1>13. NoLeftoverFlag'
    BY <1>1, <1>2, <1>3 DEF IInv, NoLeftoverFlag, windowVars, CancelComes, Refreshing
  <1>14. QueueInv'
    BY <1>1, <1>3, <1>5 DEF QueueInv
  <1> QED
    BY <1>6, <1>7, <1>8, <1>9, <1>10, <1>11, <1>12, <1>13, <1>14 DEF IInv

\* A refresh that starts while a cancellation of everything is up was asked for before it.
LEMMA StartStep == ASSUME IInv, Start PROVE IInv'
  <1>1. PICK q \in queue :
          /\ queue' = queue \ {q}
          /\ running' = [batch |-> r.batch + 1, member |-> q.member]
          /\ r' = [pc |-> "begin", active |-> TRUE, scope |-> q.scope, member |-> q.member,
                   n |-> q.n, batch |-> r.batch + 1,
                   phase |-> IF q.scope = Connection THEN "schemas" ELSE "relations",
                   at |-> q.scope, left |-> {}, result |-> "none", outcome |-> "none",
                   interrupted |-> FALSE, expired |-> FALSE, automatic |-> r.automatic,
                   resume |-> r.resume /\ q.scope # Connection, all |-> FALSE]
    BY DEF Start
  <1>2. /\ r \in Runs /\ r.pc = "pop" /\ ~r.active /\ r.batch \in Nat /\ q \in Requests
        /\ r.automatic \in BOOLEAN /\ r.resume \in BOOLEAN
        /\ UNCHANGED <<windowVars, channel, flag, target, hit, deferred, known, session,
                       autos>>
    BY DEF IInv, TypeOK, TypeInv, Start, Refreshing, Runs
  <1>3. q.member \in Members /\ q.scope \in Places /\ q.n \in 0 .. MaxCalls /\ q.n \in Nat
    BY <1>2, RequestTyped
  <1>4. /\ r' \in Runs /\ r'.pc = "begin" /\ r'.active = TRUE /\ r'.scope = q.scope
        /\ r'.member = q.member /\ r'.n = q.n /\ r'.batch = r.batch + 1
        /\ r'.outcome = "none" /\ r'.all = FALSE /\ r'.interrupted = FALSE
    <2>1. (IF q.scope = Connection THEN "schemas" ELSE "relations") \in Phases
      BY DEF Phases
    <2> QED
      BY <1>1, <1>2, <1>3, <2>1 DEF Runs, Phases, Refreshing
  <1>5. deferred = <<>>
    BY <1>2 DEF IInv, DeferredInv
  <1>6. flag \in {All} \cup 0 .. r.batch /\ looked \in Nat /\ (looked # 0 => looked <= r.batch)
    BY DEF IInv, TypeOK, TypeInv, FlagInv
  <1>7. TypeOK'
    <2>1. TypeInv'
      BY <1>1, <1>2, <1>4, <1>6 DEF IInv, TypeOK, TypeInv, Refreshing
    <2> QED
      BY <1>2, <2>1 DEF IInv, TypeOK, windowVars
  <1>8. ScriptInv'
    BY <1>2 DEF IInv, ScriptInv, windowVars
  <1>9. OrderInv'
    BY <1>1, <1>2, <1>4 DEF IInv, OrderInv, windowVars, Latest
  <1>10. ChannelInv'
    BY <1>1, <1>2, <1>4 DEF IInv, ChannelInv, windowVars, AllStop, Own
  <1>11. DeferredInv'
    BY <1>2, <1>5 DEF DeferredInv
  <1>12. FlagInv'
    <2>1. flag = All => q.n < stopAt[q.member]
      <3> SUFFICES ASSUME flag = All PROVE q.n < stopAt[q.member]
        OBVIOUS
      <3>1. CancelComes({Nobody})
        BY <1>2 DEF IInv, NoLeftoverFlag
      <3>2. CASE /\ script.step \in {"look", "flag", "cancel", "raise", "cancelAny", "tell"}
                 /\ script.who = Nobody
        <4>1. stopAt[q.member] = calls /\ script # NoCall
          BY <1>3, <3>2 DEF IInv, ScriptInv, NoCall, To
        <4>2. q.n <= calls - 1 /\ calls \in Nat
          BY <4>1 DEF IInv, OrderInv, Latest, TypeOK
        <4> QED
          BY <1>3, <4>1, <4>2
      <3>3. CASE \E i \in DOMAIN channel : channel[i].kind = "cancel" /\ channel[i].arg = Nobody
        BY <1>3, <3>3 DEF IInv, ChannelInv
      <3> QED
        BY <1>5, <3>1, <3>2, <3>3 DEF CancelComes
    <2>2. flag # r.batch + 1 /\ looked # r.batch + 1
      BY <1>2, <1>6 DEF All
    <2> QED
      BY <1>2, <1>4, <1>6, <2>1, <2>2 DEF IInv, FlagInv, windowVars, AllStop, Own,
         CancelRequested
  <1>13. RunsInv'
    BY <1>2, <1>3, <1>4 DEF RunsInv
  <1>14. RunInv'
    BY <1>1, <1>2, <1>4 DEF IInv, RunInv, Refreshing
  <1>15. NoLeftoverFlag'
    BY <1>2, <1>4 DEF IInv, NoLeftoverFlag, windowVars, CancelComes, Refreshing
  <1>16. QueueInv'
    BY <1>1, <1>2, <1>4 DEF IInv, QueueInv
  <1> QED
    BY <1>7, <1>8, <1>9, <1>10, <1>11, <1>12, <1>13, <1>14, <1>15, <1>16 DEF IInv

-----------------------------------------------------------------------------
(* The calls of the window                                                 *)

LEMMA ToFacts ==
  ASSUME NEW step, NEW who, NEW gone, NEW last
  PROVE  LET s == To(step, who, gone, last)
         IN  s.step = step /\ s.who = who /\ s.gone = gone /\ s.last = last
  BY DEF To

LEMMA ToTyped ==
  ASSUME NEW step \in Steps, NEW who \in Members \cup {Nobody}, NEW gone \in SUBSET Members,
         NEW last \in LastCommands \cup {NoCommand}
  PROVE  To(step, who, gone, last) \in Scripts
  BY DEF To, Scripts

LEMMA NoCallFacts ==
  /\ NoCall \in Scripts /\ NoCall.step = "none" /\ NoCall.gone = {} /\ NoCall.last = NoCommand
  /\ NoCommand.kind = "none" /\ NoCommand.kind \notin Wakes
  BY ToTyped DEF NoCall, To, NoCommand, Command, Wakes, Steps

\* What the rest of a call is, when its first step is to stop a member or to send.
LEMMA StopThenSendFacts ==
  ASSUME NEW gone \in SUBSET Members, NEW last \in LastCommands \cup {NoCommand},
         script' \in StopThenSend(gone, last), calls' \in Nat, calls' >= 1,
         \A m \in gone : stopAt'[m] = calls',
         last.kind \in Wakes => gone = {} /\ last.arg.n = calls',
         last.kind = "shutdown" => \A m \in Members : stopAt'[m] = calls'
  PROVE  /\ script' \in Scripts /\ ScriptInv' /\ script'.step \in {"look", "send", "none"}
         /\ gone # {} \/ last # NoCommand => script'.step # "none" /\ script' # NoCall
         /\ last.kind \in Wakes => script'.last = last
  <1>1. CASE gone # {}
    <2>1. PICK m \in gone : script' = To("look", m, gone \ {m}, last)
      BY <1>1 DEF StopThenSend
    <2>2. /\ script'.step = "look" /\ script'.who = m /\ script'.gone = gone \ {m}
          /\ script'.last = last
      BY <2>1, ToFacts
    <2>3. script' \in Scripts
      BY <2>1, ToTyped DEF Steps
    <2>4. m \in Members /\ m # Nobody
      BY NobodyAssumption
    <2>5. ScriptInv'
      BY <1>1, <2>2, <2>4 DEF ScriptInv
    <2> QED
      BY <2>2, <2>3, <2>5, NoCallFacts
  <1>2. CASE gone = {} /\ last # NoCommand
    <2>1. script' = To("send", Nobody, {}, last)
      BY <1>2 DEF StopThenSend
    <2>2. script'.step = "send" /\ script'.gone = {} /\ script'.last = last
      BY <2>1, ToFacts
    <2>3. script' \in Scripts
      BY <2>1, ToTyped DEF Steps
    <2>4. ScriptInv'
      BY <1>2, <2>2 DEF ScriptInv
    <2> QED
      BY <2>2, <2>3, <2>4, NoCallFacts
  <1>3. CASE gone = {} /\ last = NoCommand
    <2>1. script' = NoCall
      BY <1>3 DEF StopThenSend
    <2>2. ScriptInv'
      BY <2>1, NoCallFacts DEF ScriptInv
    <2> QED
      BY <1>3, <2>1, <2>2, NoCallFacts
  <1> QED
    BY <1>1, <1>2, <1>3

\* A call stops refreshes that were asked for before it, and no later ones.
LEMMA CallStep ==
  ASSUME IInv, NEW scripts, Call(scripts), NEW members \in SUBSET Members,
         stopAt' = Stops(members),
         config' \in SomeConfigs, warm' \subseteq Members,
         script' \in Scripts, ScriptInv', script' # NoCall
  PROVE  IInv'
  <1>1. /\ script = NoCall /\ script.step = "none" /\ calls' = calls + 1
        /\ calls + autos < MaxCalls
        /\ UNCHANGED <<looked, channel, flag, running, target, hit, deferred, queue, known,
                       session, autos, r>>
    BY NoCallFacts DEF Call, atomics, workerVars
  <1>2. /\ calls \in Nat /\ r \in Runs /\ r.n \in Nat /\ r.batch \in Nat
        /\ \A m \in Members : stopAt[m] \in Nat /\ stopAt[m] <= calls
    BY RunFacts, WindowTyped DEF IInv, TypeOK, TypeInv
  <1>3. \A m \in Members : stopAt'[m] = stopAt[m] \/ stopAt'[m] = calls + 1
    BY DEF Stops
  <1>4. Latest = calls /\ Latest' = calls
    BY <1>1, <1>2 DEF Latest
  <1>5. looked = 0
    BY <1>1 DEF IInv, FlagInv
  <1>6. AllStop => AllStop'
    BY <1>2, <1>3 DEF AllStop
  <1>7. r.active => r.member \in Members /\ r.n <= calls /\ r.batch > 0
    BY <1>4 DEF IInv, RunsInv, OrderInv
  <1>8. r.active /\ Own => Own'
    BY <1>1, <1>2, <1>3, <1>7 DEF Own
  <1>9. TypeOK'
    <2>1. TypeInv'
      BY <1>1 DEF IInv, TypeOK, TypeInv
    <2>2. stopAt' \in [Members -> 0 .. calls']
      BY <1>1, <1>2 DEF Stops
    <2>3. calls' \in Nat /\ autos' \in Nat /\ calls' + autos' <= MaxCalls
      BY <1>1, MaxCallsAssumption DEF IInv, TypeOK
    <2> QED
      BY <1>1, <2>1, <2>2, <2>3 DEF IInv, TypeOK, Scripts
  <1>10. OrderInv'
    BY <1>1, <1>4 DEF IInv, OrderInv
  <1>11. ChannelInv'
    <2> SUFFICES ASSUME NEW i \in DOMAIN channel, channel[i].kind = "cancel",
                        NEW m \in Members, channel[i].arg \in {m, Nobody}
                 PROVE  /\ stopAt'[m] # 0
                        /\ r.active /\ r.member = m => Own'
                        /\ \A q \in queue : q.member = m => q.n < stopAt'[m]
                        /\ \A j \in DOMAIN channel :
                              /\ j < i
                              /\ channel[j].kind \in Wakes
                              /\ channel[j].arg.member = m
                              => channel[j].arg.n < stopAt'[m]
      BY <1>1, <1>6 DEF IInv, ChannelInv
    <2>1. /\ stopAt[m] # 0
          /\ r.active /\ r.member = m => Own
          /\ \A q \in queue : q.member = m => q.n < stopAt[m]
          /\ \A j \in DOMAIN channel :
               j < i /\ channel[j].kind \in Wakes /\ channel[j].arg.member = m =>
                channel[j].arg.n < stopAt[m]
      BY DEF IInv, ChannelInv
    <2>2. stopAt'[m] # 0 /\ (r.active /\ r.member = m => Own')
      BY <1>2, <1>3, <1>8, <2>1
    <2>3. ASSUME NEW q \in queue, q.member = m
          PROVE  q.n < stopAt'[m]
      <3>1. q.n < stopAt[m] /\ q.n <= calls /\ q.n \in Nat
        BY <1>4, <2>1, <2>3, RequestTyped DEF IInv, OrderInv, TypeOK, TypeInv
      <3> QED
        BY <1>2, <1>3, <3>1
    <2>4. ASSUME NEW j \in DOMAIN channel, j < i,
                 channel[j].kind \in Wakes, channel[j].arg.member = m
          PROVE  channel[j].arg.n < stopAt'[m]
      <3>1. channel[j].arg \in Requests
        BY <2>4, CommandFacts DEF IInv, TypeOK
      <3>2. channel[j].arg.n < stopAt[m] /\ channel[j].arg.n <= calls /\ channel[j].arg.n \in Nat
        BY <1>4, <2>1, <2>4, <3>1, RequestTyped DEF IInv, OrderInv
      <3> QED
        BY <1>2, <1>3, <3>2
    <2> QED
      BY <2>2, <2>3, <2>4
  <1>12. DeferredInv'
    BY <1>1, <1>6, <1>8 DEF IInv, DeferredInv
  <1>13. FlagInv'
    BY <1>1, <1>5, <1>6, <1>7, <1>8 DEF IInv, FlagInv, CancelRequested
  <1>14. RunsInv'
    BY <1>1, <1>6, <1>7, <1>8 DEF IInv, RunsInv, CancelRequested
  <1>15. RunInv' /\ QueueInv'
    BY <1>1 DEF IInv, RunInv, QueueInv
  <1>16. NoLeftoverFlag'
    BY <1>1 DEF IInv, NoLeftoverFlag, CancelComes
  <1> QED
    BY <1>9, <1>10, <1>11, <1>12, <1>13, <1>14, <1>15, <1>16 DEF IInv

LEMMA CommandTyped ==
  /\ \A kind \in Wakes, q \in Requests : Command(kind, q) \in LastCommands
  /\ \A kind \in {"live", "cold"}, m \in Members : Command(kind, m) \in LastCommands
  /\ \A next \in SomeConfigs : Command("configure", next) \in LastCommands
  /\ \A seed \in [unfinished : BOOLEAN] : Command("seed", seed) \in LastCommands
  /\ Command("shutdown", Nobody) \in LastCommands
  /\ \A who \in Members \cup {Nobody} : Command("cancel", who) \in Commands
  BY DEF Command, LastCommands, Commands, Wakes

LEMMA CommandParts ==
  ASSUME NEW kind, NEW arg
  PROVE  Command(kind, arg).kind = kind /\ Command(kind, arg).arg = arg
  BY DEF Command

LEMMA StopsNone ==
  ASSUME TypeOK
  PROVE  stopAt = Stops({})
  BY DEF TypeOK, Stops

\* A call that sends one command and stops nobody.
LEMMA SendCallStep ==
  ASSUME IInv, NEW kind, NEW arg, CallSend(kind, arg), Command(kind, arg) \in LastCommands,
         kind \in Wakes => arg.n = calls + 1, kind \notin {"shutdown", "none"},
         config' = config, warm' \subseteq Members, stopAt' = stopAt
  PROVE  IInv'
  <1>1. /\ Command(kind, arg) # NoCommand /\ Command(kind, arg).kind = kind
        /\ Command(kind, arg).arg = arg
    BY CommandParts DEF NoCommand
  <1> DEFINE last == Command(kind, arg)
  <1>2. /\ Call(StopThenSend({}, last)) /\ calls' = calls + 1 /\ calls \in Nat
        /\ script' \in StopThenSend({}, last)
    BY DEF CallSend, Call, IInv, TypeOK
  <1> HIDE DEF last
  <1>3. script' \in Scripts /\ ScriptInv' /\ script' # NoCall
    <2>1. calls' \in Nat /\ calls' >= 1
      BY <1>2
    <2>2. /\ last \in LastCommands \cup {NoCommand} /\ last # NoCommand
          /\ last.kind # "shutdown"
          /\ last.kind \in Wakes => last.arg.n = calls'
      BY <1>1, <1>2 DEF last
    <2> QED
      BY <1>2, <2>1, <2>2, StopThenSendFacts
  <1>4. stopAt' = Stops({}) /\ config' \in SomeConfigs
    BY StopsNone DEF IInv, TypeOK
  <1> QED
    BY <1>2, <1>3, <1>4, CallStep

LEMMA CallRefreshStep ==
  ASSUME IInv, NEW m \in Members, NEW scope \in Scopes, CallRefresh(m, scope)
  PROVE  IInv'
  <1> DEFINE q == [member |-> m, scope |-> scope, n |-> calls + 1]
  <1>1. CallSend("refresh", q) /\ UNCHANGED <<config, warm, stopped, stopAt>>
    BY DEF CallRefresh
  <1>2. calls + 1 \in 0 .. MaxCalls
    BY <1>1, MaxCallsAssumption DEF CallSend, Call, IInv, TypeOK
  <1>3. q \in Requests /\ q.n = calls + 1
    BY <1>2 DEF Requests, Places
  <1> HIDE DEF q
  <1>4. Command("refresh", q) \in LastCommands /\ warm' \subseteq Members
    BY <1>1, <1>3, CommandTyped DEF Wakes, IInv, TypeOK
  <1> QED
    BY <1>1, <1>3, <1>4, SendCallStep

LEMMA CallRefreshIfUnloadedStep ==
  ASSUME IInv, NEW m \in Members, CallRefreshIfUnloaded(m)
  PROVE  IInv'
  <1> DEFINE q == [member |-> m, scope |-> Connection, n |-> calls + 1]
  <1>1. CallSend("refreshIfUnloaded", q) /\ UNCHANGED <<config, warm, stopped, stopAt>>
    BY DEF CallRefreshIfUnloaded
  <1>2. calls + 1 \in 0 .. MaxCalls
    BY <1>1, MaxCallsAssumption DEF CallSend, Call, IInv, TypeOK
  <1>3. q \in Requests /\ q.n = calls + 1
    BY <1>2 DEF Requests, Places
  <1> HIDE DEF q
  <1>4. Command("refreshIfUnloaded", q) \in LastCommands /\ warm' \subseteq Members
    BY <1>1, <1>3, CommandTyped DEF Wakes, IInv, TypeOK
  <1> QED
    BY <1>1, <1>3, <1>4, SendCallStep

LEMMA CallSetLiveStep == ASSUME IInv, NEW m \in Members, CallSetLive(m) PROVE IInv'
  <1>1. PICK kind \in {"live", "cold"} : CallSend(kind, m)
    BY DEF CallSetLive
  <1>2. UNCHANGED <<config, stopAt>> /\ warm' \subseteq Members
    BY DEF CallSetLive, IInv, TypeOK
  <1>3. Command(kind, m) \in LastCommands /\ kind \notin Wakes \cup {"shutdown", "none"}
    BY CommandTyped DEF Wakes
  <1> QED
    BY <1>1, <1>2, <1>3, SendCallStep

LEMMA CallSeedStep == ASSUME IInv, CallSeed PROVE IInv'
  <1>1. PICK seed \in [unfinished : BOOLEAN] : CallSend("seed", seed)
    BY DEF CallSeed
  <1>2. UNCHANGED <<config, warm, stopAt>> /\ warm' \subseteq Members
    BY DEF CallSeed, IInv, TypeOK
  <1>3. Command("seed", seed) \in LastCommands /\ "seed" \notin Wakes
    BY CommandTyped DEF Wakes
  <1> QED
    BY <1>1, <1>2, <1>3, SendCallStep

\* A call that stops some members first.
LEMMA StopCallStep ==
  ASSUME IInv, NEW gone \in SUBSET Members, NEW last \in LastCommands \cup {NoCommand},
         Call(StopThenSend(gone, last)), stopAt' = Stops(gone),
         gone # {} \/ last # NoCommand, last.kind \notin Wakes \cup {"shutdown"},
         config' \in SomeConfigs, warm' \subseteq Members
  PROVE  IInv'
  <1>1. calls' = calls + 1 /\ calls \in Nat /\ script' \in StopThenSend(gone, last)
    BY DEF Call, IInv, TypeOK
  <1>2. \A m \in gone : stopAt'[m] = calls'
    BY <1>1 DEF Stops
  <1>3. script' \in Scripts /\ ScriptInv' /\ script' # NoCall
    <2>1. calls' \in Nat /\ calls' >= 1
      BY <1>1
    <2> QED
      BY <1>1, <1>2, <2>1, StopThenSendFacts
  <1> QED
    BY <1>3, CallStep

LEMMA CallStopStep == ASSUME IInv, NEW m \in Members, CallStop(m) PROVE IInv'
  <1>1. /\ Call(StopThenSend({m}, NoCommand)) /\ stopAt' = Stops({m})
        /\ UNCHANGED <<config, warm>>
    BY DEF CallStop
  <1>2. config' \in SomeConfigs /\ warm' \subseteq Members
    BY <1>1 DEF IInv, TypeOK
  <1>3. {m} \in SUBSET Members /\ {m} # {} /\ NoCommand.kind \notin Wakes \cup {"shutdown"}
    BY NoCallFacts
  <1> QED
    BY <1>1, <1>2, <1>3, StopCallStep

\* A call that stops every refresh first.
LEMMA CancelCallStep ==
  ASSUME IInv, NEW last \in LastCommands, Call(CancelThenSend(last)),
         stopAt' = Stops(Members),
         last.kind \notin Wakes, config' \in SomeConfigs, warm' \subseteq Members
  PROVE  IInv'
  <1>1. calls' = calls + 1 /\ calls \in Nat /\ script' = To("raise", Nobody, {}, last)
    BY DEF Call, CancelThenSend, IInv, TypeOK
  <1>2. \A m \in Members : stopAt'[m] = calls'
    BY <1>1 DEF Stops
  <1>3. /\ script'.step = "raise" /\ script'.who = Nobody /\ script'.gone = {}
        /\ script'.last = last
    BY <1>1, ToFacts
  <1>4. script' \in Scripts /\ script' # NoCall
    BY <1>1, <1>3, ToTyped, NoCallFacts DEF Steps
  <1>5. ScriptInv'
    BY <1>1, <1>2, <1>3 DEF ScriptInv
  <1>6. Members \in SUBSET Members
    OBVIOUS
  <1> QED
    BY <1>4, <1>5, <1>6, CallStep

LEMMA CallShutdownStep == ASSUME IInv, CallShutdown PROVE IInv'
  <1>1. /\ Call(CancelThenSend(Command("shutdown", Nobody))) /\ stopAt' = Stops(Members)
        /\ UNCHANGED <<config, warm>>
    BY DEF CallShutdown
  <1>2. config' \in SomeConfigs /\ warm' \subseteq Members
    BY <1>1 DEF IInv, TypeOK
  <1>3. /\ Command("shutdown", Nobody) \in LastCommands
        /\ Command("shutdown", Nobody).kind \notin Wakes
    BY CommandTyped, CommandParts DEF Wakes
  <1> QED
    BY <1>1, <1>2, <1>3, CancelCallStep

LEMMA CallConfigureStep ==
  ASSUME IInv, NEW next \in SomeConfigs, CallConfigure(next)
  PROVE  IInv'
  <1> DEFINE gone == config.members \ next.members
             last == Command("configure", next)
  <1>1. /\ last \in LastCommands /\ last.kind \notin Wakes \cup {"shutdown"}
        /\ last # NoCommand
    BY CommandTyped, CommandParts DEF Wakes, NoCommand
  <1>2. config' \in SomeConfigs /\ warm' \subseteq Members /\ gone \in SUBSET Members
    BY DEF CallConfigure, IInv, TypeOK, SomeConfigs
  <1>3. \/ Call(CancelThenSend(last)) /\ stopAt' = Stops(Members)
        \/ Call(StopThenSend(gone, last)) /\ stopAt' = Stops(gone)
    BY DEF CallConfigure
  <1> HIDE DEF gone, last
  <1> QED
    BY <1>1, <1>2, <1>3, CancelCallStep, StopCallStep

LEMMA ConfigsTyped == ASSUME TypeOK PROVE Configs \subseteq SomeConfigs
  BY MemberSetsAssumption DEF TypeOK, Configs, SomeConfigs

LEMMA WindowStep == ASSUME IInv, Window PROVE IInv'
  BY CallRefreshStep, CallRefreshIfUnloadedStep, CallSetLiveStep, CallStopStep,
     CallConfigureStep, CallSeedStep, CallShutdownStep, ConfigsTyped DEF Window, IInv

\* The next step of a call, on the way to the command that it sends.
LEMMA ThenStep ==
  ASSUME IInv, NEW step, Then(step), UNCHANGED <<channel, running, target, workerVars, r>>,
         \/ script.step = "look" /\ step = "flag"
         \/ script.step = "flag" /\ step = "cancel"
         \/ script.step = "cancel" /\ step = "tell"
         \/ script.step = "raise" /\ step = "cancelAny"
         \/ script.step = "cancelAny" /\ step = "tell",
         looked' \in Nat, flag' \in {All} \cup 0 .. r.batch
  PROVE  /\ TypeOK' /\ ScriptInv' /\ OrderInv' /\ ChannelInv' /\ DeferredInv' /\ RunInv'
         /\ QueueInv'
         /\ script'.step = step /\ script'.who = script.who
         /\ UNCHANGED <<calls, stopAt, channel, deferred, queue, target, r>>
         /\ \A members : CancelComes(members) => CancelComes(members)'
         /\ CancelComes({script.who})'
  <1>1. /\ script \in Scripts /\ script' = [script EXCEPT !.step = step] /\ step \in Steps
        /\ UNCHANGED <<config, warm, calls, stopped, stopAt>>
    BY DEF IInv, TypeOK, Scripts, Then, Steps
  <1>2. /\ script' \in Scripts /\ script'.step = step /\ script'.who = script.who
        /\ script'.gone = script.gone /\ script'.last = script.last
    BY <1>1 DEF Scripts
  <1>3. script # NoCall /\ script' # NoCall
    BY <1>2, NoCallFacts
  <1>4. Latest' = Latest
    BY <1>1, <1>3 DEF Latest
  <1>5. TypeOK'
    <2>1. TypeInv'
      BY DEF IInv, TypeOK, TypeInv, workerVars
    <2> QED
      BY <1>1, <1>2, <2>1 DEF IInv, TypeOK, workerVars, Scripts
  <1>6. ScriptInv'
    BY <1>1, <1>2 DEF IInv, ScriptInv
  <1>7. OrderInv'
    BY <1>4 DEF IInv, OrderInv, workerVars
  <1>8. ChannelInv' /\ DeferredInv'
    BY <1>1 DEF IInv, ChannelInv, DeferredInv, workerVars, AllStop, Own
  <1>9. RunInv' /\ QueueInv'
    BY DEF IInv, RunInv, QueueInv, workerVars
  <1>10. UNCHANGED <<calls, stopAt, channel, deferred, queue, target, r>>
    BY <1>1 DEF workerVars
  <1>11. script'.step \in {"look", "flag", "cancel", "raise", "cancelAny", "tell"}
    BY <1>2
  <1>12. \A members : CancelComes(members) => CancelComes(members)'
    BY <1>2, <1>10, <1>11 DEF CancelComes
  <1>13. CancelComes({script.who})'
    BY <1>2, <1>11 DEF CancelComes
  <1> QED
    BY <1>2, <1>5, <1>6, <1>7, <1>8, <1>9, <1>10, <1>12, <1>13

LEMMA LookStep == ASSUME IInv, Look PROVE IInv'
  <1>1. /\ script.step = "look" /\ Then("flag") /\ flag' = flag /\ hit' = hit
        /\ UNCHANGED <<channel, running, target, workerVars, r>>
        /\ looked' = IF running.member = script.who THEN running.batch ELSE 0
    BY DEF Look, At, atomics
  <1>2. /\ script.who \in Members /\ r.batch \in Nat
        /\ flag \in {All} \cup 0 .. r.batch
    BY <1>1, RunFacts DEF IInv, ScriptInv, TypeOK, TypeInv
  <1>3. looked' = 0 \/ (looked' = r.batch /\ r.member = script.who)
    BY <1>1, <1>2, NobodyAssumption DEF IInv, RunInv, NoRun
  <1>4. looked' \in Nat /\ looked' <= r.batch
    BY <1>2, <1>3
  <1>5. /\ TypeOK' /\ ScriptInv' /\ OrderInv' /\ ChannelInv' /\ DeferredInv' /\ RunInv'
        /\ QueueInv'
        /\ script'.step = "flag" /\ script'.who = script.who
        /\ UNCHANGED <<calls, stopAt, channel, deferred, queue, target, r>>
        /\ \A members : CancelComes(members) => CancelComes(members)'
    BY <1>1, <1>2, <1>4, ThenStep
  <1>6. FlagInv'
    <2>1. looked' = r.batch /\ r.active => r.member = script.who
      BY <1>3 DEF IInv, RunsInv
    <2> QED
      BY <1>1, <1>4, <1>5, <2>1 DEF IInv, FlagInv, AllStop, Own, CancelRequested
  <1>7. RunsInv'
    BY <1>1, <1>5 DEF IInv, RunsInv, AllStop, Own, CancelRequested
  <1>8. NoLeftoverFlag'
    BY <1>1, <1>5 DEF IInv, NoLeftoverFlag
  <1> QED
    BY <1>5, <1>6, <1>7, <1>8 DEF IInv

LEMMA FlagStep == ASSUME IInv, Flag PROVE IInv'
  <1>1. /\ script.step = "flag" /\ Then("cancel") /\ looked' = looked /\ hit' = hit
        /\ UNCHANGED <<channel, running, target, workerVars, r>>
        /\ flag' = IF looked # 0 /\ flag = 0 THEN looked ELSE flag
    BY DEF Flag, At
  <1>2. /\ script.who \in Members /\ r.batch \in Nat /\ looked \in Nat /\ looked <= r.batch
        /\ flag \in {All} \cup 0 .. r.batch /\ calls \in Nat /\ calls >= 1
        /\ stopAt[script.who] = calls /\ script # NoCall
    BY <1>1, RunFacts, NoCallFacts DEF IInv, ScriptInv, TypeOK, TypeInv, FlagInv
  <1>3. flag' \in {All} \cup 0 .. r.batch
    BY <1>1, <1>2
  <1>4. /\ TypeOK' /\ ScriptInv' /\ OrderInv' /\ ChannelInv' /\ DeferredInv' /\ RunInv'
        /\ QueueInv'
        /\ script'.step = "cancel" /\ script'.who = script.who
        /\ UNCHANGED <<calls, stopAt, channel, deferred, queue, target, r>>
        /\ \A members : CancelComes(members) => CancelComes(members)'
        /\ CancelComes({script.who})'
    BY <1>1, <1>2, <1>3, ThenStep
  <1>5. flag' = flag \/ (flag' = looked /\ looked # 0 /\ flag' # All)
    BY <1>1, <1>2 DEF All
  <1>6. r.active /\ looked = r.batch => Own
    <2>1. r.active /\ looked = r.batch => r.member = script.who /\ r.n <= calls - 1 /\ r.n \in Nat
      BY <1>2, RunFacts DEF IInv, FlagInv, OrderInv, Latest, TypeOK, TypeInv
    <2> QED
      BY <1>2, <2>1 DEF Own
  <1>7. FlagInv'
    BY <1>1, <1>2, <1>4, <1>5, <1>6 DEF IInv, FlagInv, AllStop, Own, CancelRequested
  <1>8. RunsInv'
    BY <1>1, <1>4, <1>5 DEF IInv, RunsInv, AllStop, Own, CancelRequested
  <1>9. NoLeftoverFlag'
    <2>1. CancelComes(Members)'
      BY <1>2, <1>4 DEF CancelComes
    <2> QED
      BY <1>4, <1>5, <2>1 DEF IInv, NoLeftoverFlag
  <1> QED
    BY <1>4, <1>7, <1>8, <1>9 DEF IInv

LEMMA CancelStep == ASSUME IInv, Cancel PROVE IInv'
  <1>1. /\ script.step = "cancel" /\ Then("tell") /\ looked' = 0 /\ flag' = flag
        /\ UNCHANGED <<channel, running, target, workerVars, r>>
        /\ hit' = (hit \/ (looked # 0 /\ target = looked))
    BY DEF Cancel, At
  <1>2. r.batch \in Nat /\ flag \in {All} \cup 0 .. r.batch /\ looked' \in Nat
    BY <1>1, RunFacts DEF IInv, TypeOK, TypeInv
  <1>3. /\ TypeOK' /\ ScriptInv' /\ OrderInv' /\ ChannelInv' /\ DeferredInv' /\ RunInv'
        /\ QueueInv'
        /\ script'.step = "tell" /\ script'.who = script.who
        /\ UNCHANGED <<calls, stopAt, channel, deferred, queue, target, r>>
        /\ \A members : CancelComes(members) => CancelComes(members)'
    BY <1>1, <1>2, ThenStep
  <1>4. FlagInv'
    BY <1>1, <1>2, <1>3 DEF IInv, FlagInv, RunsInv, AllStop, Own, CancelRequested
  <1>5. r.pc = "poll" /\ CancelRequested => hit'
    <2>1. r.pc = "poll" => target = r.batch /\ r.batch # 0
      <3>1. r.pc = "poll" => r.active
        BY DEF IInv, TypeOK, TypeInv, Refreshing
      <3> QED
        BY <1>2, <3>1 DEF IInv, RunsInv
    <2>2. r.pc = "poll" /\ CancelRequested => hit \/ looked = r.batch
      BY <1>1 DEF IInv, RunsInv
    <2> QED
      BY <1>1, <2>1, <2>2, Zenon
  <1>6. RunsInv'
    BY <1>1, <1>3, <1>5 DEF IInv, RunsInv, AllStop, Own, CancelRequested
  <1>7. NoLeftoverFlag'
    BY <1>1, <1>3 DEF IInv, NoLeftoverFlag
  <1> QED
    BY <1>3, <1>4, <1>6, <1>7 DEF IInv

LEMMA RaiseStep == ASSUME IInv, Raise PROVE IInv'
  <1>1. /\ script.step = "raise" /\ Then("cancelAny") /\ looked' = looked /\ flag' = All
        /\ UNCHANGED <<channel, running, target, workerVars, r>> /\ hit' = hit
    BY DEF Raise, At
  <1>2. /\ flag' \in {All} \cup 0 .. r.batch /\ looked = 0 /\ looked' \in Nat
        /\ script.who = Nobody /\ calls \in Nat /\ calls >= 1 /\ script # NoCall
        /\ \A m \in Members : stopAt[m] = calls
    BY <1>1, NoCallFacts DEF IInv, ScriptInv, TypeOK, FlagInv
  <1>3. /\ TypeOK' /\ ScriptInv' /\ OrderInv' /\ ChannelInv' /\ DeferredInv' /\ RunInv'
        /\ QueueInv'
        /\ script'.step = "cancelAny" /\ script'.who = script.who
        /\ UNCHANGED <<calls, stopAt, channel, deferred, queue, target, r>>
        /\ CancelComes({script.who})'
    BY <1>1, <1>2, ThenStep
  <1>4. AllStop
    BY <1>2 DEF AllStop
  <1>5. r.active => Own /\ r.batch > 0
    <2>1. r.active => r.member \in Members /\ r.n <= calls - 1 /\ r.n \in Nat /\ r.batch > 0
      BY <1>2, RunFacts DEF IInv, RunsInv, OrderInv, Latest, TypeOK, TypeInv
    <2> QED
      BY <1>2, <2>1 DEF Own
  <1>6. FlagInv'
    BY <1>1, <1>2, <1>3, <1>4, <1>5 DEF FlagInv, AllStop, Own, CancelRequested
  <1>7. RunsInv'
    BY <1>1, <1>3 DEF IInv, RunsInv, AllStop, Own
  <1>8. NoLeftoverFlag'
    BY <1>1, <1>2, <1>3 DEF NoLeftoverFlag
  <1> QED
    BY <1>3, <1>6, <1>7, <1>8 DEF IInv

LEMMA CancelAnyStep == ASSUME IInv, CancelAny PROVE IInv'
  <1>1. /\ script.step = "cancelAny" /\ Then("tell") /\ looked' = looked /\ flag' = flag
        /\ UNCHANGED <<channel, running, target, workerVars, r>> /\ hit' = (hit \/ target # 0)
    BY DEF CancelAny, At
  <1>2. r.batch \in Nat /\ flag \in {All} \cup 0 .. r.batch /\ looked' \in Nat /\ looked = 0
    BY <1>1, RunFacts DEF IInv, TypeOK, TypeInv, FlagInv
  <1>3. /\ TypeOK' /\ ScriptInv' /\ OrderInv' /\ ChannelInv' /\ DeferredInv' /\ RunInv'
        /\ QueueInv'
        /\ script'.step = "tell" /\ script'.who = script.who
        /\ UNCHANGED <<calls, stopAt, channel, deferred, queue, target, r>>
        /\ \A members : CancelComes(members) => CancelComes(members)'
    BY <1>1, <1>2, ThenStep
  <1>4. FlagInv'
    BY <1>1, <1>2, <1>3 DEF IInv, FlagInv, AllStop, Own, CancelRequested
  <1>5. r.pc = "poll" => hit'
    <2>1. r.pc = "poll" => target # 0
      <3>1. r.pc = "poll" => r.active
        BY DEF IInv, TypeOK, TypeInv, Refreshing
      <3> QED
        BY <1>2, <3>1 DEF IInv, RunsInv
    <2> QED
      BY <1>1, <2>1, Zenon
  <1>6. RunsInv'
    BY <1>1, <1>3, <1>5 DEF IInv, RunsInv, AllStop, Own
  <1>7. NoLeftoverFlag'
    BY <1>1, <1>3 DEF IInv, NoLeftoverFlag
  <1> QED
    BY <1>3, <1>4, <1>6, <1>7 DEF IInv

\* A command goes to the worker. A stop is told to it after the flag and the
\* cancellation, and the command of a call comes last.
LEMMA AppendStep ==
  ASSUME IInv, NEW c \in Commands, Send(c), script.step \in {"tell", "send"},
         script' \in Scripts, ScriptInv', script'.step \in {"look", "send", "none"},
         script.step = "tell" => c = Command("cancel", script.who),
         script.step = "send" => c.kind # "cancel" /\ script' = NoCall,
         c.kind \in Wakes => c.arg.n = calls,
         c.kind = "shutdown" => AllStop
  PROVE  IInv'
  <1>1. /\ UNCHANGED <<config, warm, calls, stopAt, looked, flag, running, target, hit, deferred,
                        queue, known, session, autos, r>>
        /\ channel' = IF r.pc = "exit" THEN channel ELSE Append(channel, c)
    BY DEF Send, atomics, workerVars
  <1>2. /\ calls \in Nat /\ calls >= 1 /\ r \in Runs /\ r.n \in Nat
        /\ channel \in Seq(Commands)
        /\ \A m \in Members : stopAt[m] \in Nat
        /\ script # NoCall
    BY RunFacts, WindowTyped, NoCallFacts DEF IInv, TypeOK, TypeInv, ScriptInv
  <1>3. Latest = calls - 1 /\ Latest' \in {calls - 1, calls}
        /\ (c.kind \in Wakes => Latest' = calls)
    <2>1. c.kind \in Wakes => script' = NoCall
      BY CommandParts DEF Wakes
    <2> QED
      BY <1>1, <1>2, <2>1 DEF Latest
  <1>4. looked = 0
    BY DEF IInv, FlagInv
  <1>5. script.step = "tell" => \A m \in Members : script.who \in {m, Nobody} => stopAt[m] = calls
    BY DEF IInv, ScriptInv
  <1>6. c.kind = "cancel" => /\ script.step = "tell" /\ c.arg = script.who
                             /\ \A m \in Members : c.arg \in {m, Nobody} => stopAt[m] = calls
    BY <1>5, CommandParts
  <1>7. r.active => r.n < calls
    BY <1>2, <1>3 DEF IInv, OrderInv
  <1>8. \A q \in queue : q.n < calls
    <2>1. \A q \in queue : q.n \in Nat
      BY RequestTyped DEF IInv, TypeOK, TypeInv
    <2> QED
      BY <1>2, <1>3, <2>1 DEF IInv, OrderInv
  <1>9. \A i \in DOMAIN channel :
          channel[i].kind \in Wakes => channel[i].arg.n \in Nat /\ channel[i].arg.n < calls
    <2>1. \A i \in DOMAIN channel : channel[i].kind \in Wakes => channel[i].arg.n \in Nat
      BY CommandFacts, RequestTyped DEF IInv, TypeOK
    <2> QED
      BY <1>2, <1>3, <2>1 DEF IInv, OrderInv
  <1>10. /\ channel' \in Seq(Commands)
         /\ channel' = channel
            \/ /\ DOMAIN channel' = 1 .. (Len(channel) + 1) /\ DOMAIN channel = 1 .. Len(channel)
               /\ Len(channel) \in Nat /\ channel'[Len(channel) + 1] = c
               /\ \A i \in DOMAIN channel : channel'[i] = channel[i]
    BY <1>1, <1>2
  <1>11. TypeOK'
    <2>1. TypeInv'
      BY <1>1 DEF IInv, TypeOK, TypeInv
    <2> QED
      BY <1>1, <1>10, <2>1 DEF IInv, TypeOK, Scripts
  <1>12. OrderInv'
    <2>1. (r.active => r.n <= Latest') /\ \A q \in queue' : q.n <= Latest'
      <3>1. \A q \in queue : q.n \in Nat
        BY RequestTyped DEF IInv, TypeOK, TypeInv
      <3> QED
        BY <1>1, <1>2, <1>3, <1>7, <1>8, <3>1
    <2>2. ASSUME NEW i \in DOMAIN channel', channel'[i].kind \in Wakes
          PROVE  channel'[i].arg.n <= Latest'
      <3>1. CASE i \in DOMAIN channel /\ channel'[i] = channel[i]
        <4>1. channel'[i].arg.n \in Nat /\ channel'[i].arg.n < calls
          BY <1>9, <2>2, <3>1
        <4> QED
          BY <1>2, <1>3, <4>1
      <3>2. CASE channel'[i] = c
        BY <1>2, <1>3, <2>2, <3>2
      <3> QED
        BY <1>10, <3>1, <3>2
    <2> QED
      BY <1>1, <2>1, <2>2 DEF OrderInv
  <1>13. ChannelInv'
    <2> SUFFICES ASSUME NEW i \in DOMAIN channel'
                 PROVE  /\ channel'[i].kind = "shutdown" => AllStop
                        /\ channel'[i].kind = "cancel" =>
                             \A m \in Members : channel'[i].arg \in {m, Nobody} =>
                               /\ stopAt[m] # 0
                               /\ r.active /\ r.member = m => Own
                               /\ \A q \in queue : q.member = m => q.n < stopAt[m]
                               /\ \A j \in DOMAIN channel' :
                                    /\ j < i
                                    /\ channel'[j].kind \in Wakes
                                    /\ channel'[j].arg.member = m
                                    => channel'[j].arg.n < stopAt[m]
      BY <1>1 DEF ChannelInv, AllStop, Own
    <2>1. CASE i \in DOMAIN channel /\ channel'[i] = channel[i]
      <3>1. \A j \in DOMAIN channel' : j < i => j \in DOMAIN channel /\ channel'[j] = channel[j]
        BY <1>10, <2>1
      <3> QED
        BY <2>1, <3>1 DEF IInv, ChannelInv
    <2>2. CASE i = Len(channel) + 1 /\ channel'[i] = c
          /\ \A j \in DOMAIN channel' : j < i => j \in DOMAIN channel /\ channel'[j] = channel[j]
      <3>1. r.active /\ stopAt[r.member] = calls => Own
        BY <1>7 DEF Own
      <3> QED
        BY <1>2, <1>6, <1>8, <1>9, <2>2, <3>1
    <2> QED
      BY <1>10, <2>1, <2>2
  <1>14. DeferredInv'
    BY <1>1 DEF IInv, DeferredInv, AllStop, Own
  <1>15. FlagInv'
    <2>1. r.active => looked # r.batch
      BY <1>4 DEF IInv, RunsInv
    <2> QED
      BY <1>1, <1>4, <2>1 DEF IInv, FlagInv, AllStop, Own, CancelRequested
  <1>16. RunsInv'
    BY <1>1 DEF IInv, RunsInv, AllStop, Own, CancelRequested
  <1>17. RunInv' /\ QueueInv'
    BY <1>1 DEF IInv, RunInv, QueueInv
  <1>18. NoLeftoverFlag'
    <2> SUFFICES ASSUME NEW members, CancelComes(members), r.pc # "exit"
                 PROVE  CancelComes(members)'
      BY <1>1 DEF IInv, NoLeftoverFlag
    <2>1. channel' = Append(channel, c)
      BY <1>1
    <2>2. CASE \E i \in DOMAIN deferred : deferred[i].kind = "cancel" /\ deferred[i].arg \in members
      BY <1>1, <2>2 DEF CancelComes
    <2>3. CASE \E i \in DOMAIN channel : channel[i].kind = "cancel" /\ channel[i].arg \in members
      BY <1>10, <2>3 DEF CancelComes
    <2>4. CASE script.step = "tell" /\ script.who \in members
      <3>1. c.kind = "cancel" /\ c.arg \in members
        BY <2>4, CommandParts
      <3>2. Len(channel) + 1 \in DOMAIN channel' /\ channel'[Len(channel) + 1] = c
        BY <1>2, <2>1
      <3> QED
        BY <3>1, <3>2 DEF CancelComes
    <2> QED
      BY <2>2, <2>3, <2>4 DEF CancelComes
  <1> QED
    BY <1>11, <1>12, <1>13, <1>14, <1>15, <1>16, <1>17, <1>18 DEF IInv

LEMMA TellStep == ASSUME IInv, Tell PROVE IInv'
  <1> DEFINE c == Command("cancel", script.who)
  <1>1. /\ script.step = "tell" /\ Send(c)
        /\ script' \in StopThenSend(script.gone, script.last)
        /\ calls' = calls /\ stopAt' = stopAt
    BY DEF Tell, At, Send
  <1>2. /\ script.gone \in SUBSET Members /\ script.last \in LastCommands \cup {NoCommand}
        /\ script.who \in Members \cup {Nobody} /\ calls \in Nat
    BY DEF IInv, TypeOK, Scripts
  <1>3. /\ calls >= 1 /\ script.last.kind \notin Wakes
        /\ \A m \in script.gone : stopAt[m] = calls
        /\ script.last.kind = "shutdown" => \A m \in Members : stopAt[m] = calls
    BY <1>1 DEF IInv, ScriptInv
  <1>4. script' \in Scripts /\ ScriptInv' /\ script'.step \in {"look", "send", "none"}
    BY <1>1, <1>2, <1>3, StopThenSendFacts
  <1>5. c \in Commands /\ c.kind = "cancel"
    BY <1>2, CommandTyped, CommandParts
  <1>6. c = Command("cancel", script.who)
    OBVIOUS
  <1> HIDE DEF c
  <1> QED
    BY <1>1, <1>4, <1>5, <1>6, AppendStep DEF Wakes

LEMMA SendLastStep == ASSUME IInv, SendLast PROVE IInv'
  <1> DEFINE c == script.last
  <1>1. script.step = "send" /\ Send(c) /\ script' = NoCall
    BY DEF SendLast, At
  <1>2. /\ c \in LastCommands /\ calls >= 1 /\ calls \in Nat
        /\ c.kind \in Wakes => c.arg.n = calls
        /\ c.kind = "shutdown" => AllStop
    <2>1. c \in LastCommands /\ calls >= 1 /\ calls \in Nat
      BY <1>1 DEF IInv, ScriptInv, TypeOK
    <2> QED
      BY <2>1 DEF IInv, ScriptInv, AllStop
  <1>3. c \in Commands /\ c.kind # "cancel"
    BY <1>2 DEF Commands, LastCommands, Wakes
  <1>4. ScriptInv' /\ script' \in Scripts /\ script'.step = "none"
    BY <1>1, NoCallFacts DEF ScriptInv
  <1> HIDE DEF c
  <1> QED
    BY <1>1, <1>2, <1>3, <1>4, AppendStep

-----------------------------------------------------------------------------
(* The invariant of the worker                                             *)

LEMMA InitInv == ASSUME Init PROVE IInv
  <1>1. /\ script = NoCall /\ script.step = "none" /\ calls = 0 /\ autos = 0 /\ looked = 0
        /\ flag = 0
        /\ channel = <<>> /\ deferred = <<>> /\ queue = {} /\ known = config /\ warm = {}
        /\ running = NoRun /\ target = 0 /\ session = Nobody
        /\ stopAt = [m \in Members |-> 0]
    BY NoCallFacts DEF Init
  <1>2. /\ r \in Runs /\ r.pc = "wait" /\ ~r.active /\ r.batch = 0 /\ r.outcome = "none"
        /\ ~r.all
    BY MaxCallsAssumption DEF Init, Idle, Runs, Places, Refreshing
  <1>3. config \in SomeConfigs
    <2>1. PICK shared \in BOOLEAN :
            config = [members |-> IF shared THEN Members ELSE {CHOOSE m \in Members : TRUE},
                      identity |-> 1, shared |-> shared]
      BY DEF Init
    <2>2. (CHOOSE m \in Members : TRUE) \in Members
      BY MembersAssumption
    <2> QED
      BY <2>1, <2>2 DEF SomeConfigs
  <1>4. TypeOK
    <2>1. TypeInv
      BY <1>1, <1>2 DEF TypeInv, Refreshing
    <2>2. channel \in Seq(Commands) /\ deferred \in Seq(Commands)
      BY <1>1
    <2> QED
      BY <1>1, <1>3, <2>1, <2>2, NoCallFacts, MaxCallsAssumption DEF TypeOK, Scripts
  <1>5. ScriptInv
    BY <1>1, NoCallFacts DEF ScriptInv
  <1>6. OrderInv /\ ChannelInv
    BY <1>1, <1>2 DEF OrderInv, ChannelInv
  <1>7. DeferredInv
    BY <1>1 DEF DeferredInv
  <1>8. FlagInv /\ NoLeftoverFlag
    BY <1>1, <1>2 DEF FlagInv, NoLeftoverFlag, All
  <1>9. RunsInv
    BY <1>1, <1>2 DEF RunsInv
  <1>10. RunInv /\ QueueInv
    BY <1>1, <1>2 DEF RunInv, QueueInv, Refreshing
  <1> QED
    BY <1>4, <1>5, <1>6, <1>7, <1>8, <1>9, <1>10 DEF IInv

LEMMA StutterStep == ASSUME IInv, UNCHANGED vars PROVE IInv'
  <1>1. UNCHANGED <<config, warm, calls, script, looked, stopped, stopAt, channel, flag, running,
                    target, hit, deferred, queue, known, session, autos, r>>
    BY DEF vars, windowVars, atomics, workerVars
  <1>2. TypeOK'
    BY <1>1 DEF IInv, TypeOK, TypeInv
  <1>3. ScriptInv' /\ OrderInv'
    BY <1>1 DEF IInv, ScriptInv, OrderInv, Latest
  <1>4. ChannelInv' /\ DeferredInv'
    BY <1>1 DEF IInv, ChannelInv, DeferredInv, AllStop, Own
  <1>5. FlagInv' /\ RunsInv'
    BY <1>1 DEF IInv, FlagInv, RunsInv, AllStop, Own, CancelRequested
  <1>6. RunInv' /\ QueueInv'
    BY <1>1 DEF IInv, RunInv, QueueInv
  <1>7. NoLeftoverFlag'
    BY <1>1 DEF IInv, NoLeftoverFlag, CancelComes
  <1> QED
    BY <1>2, <1>3, <1>4, <1>5, <1>6, <1>7 DEF IInv

LEMMA NextStep == ASSUME IInv, Next PROVE IInv'
  <1>1. CASE Window
    BY <1>1, WindowStep
  <1>2. CASE Script
    BY <1>2, LookStep, FlagStep, CancelStep, RaiseStep, CancelAnyStep, TellStep, SendLastStep
       DEF Script
  <1>3. CASE Receive \/ End \/ Start \/ Rest
    BY <1>3, ReceiveStep, LastCommandStep, StartStep, RestStep
  <1>4. CASE Begin \/ Connect \/ Execute \/ Sent \/ StopSeen \/ Polled \/ Accept \/ Expire
    BY <1>4, BeginStep, ConnectStep, ExecuteStep, SentStep, AnswerStep, AcceptStep, ExpireStep
  <1>5. CASE CheckCommand \/ CheckShutdown \/ Interrupted \/ Proceed \/ Lost
    BY <1>5, CheckCommandStep, LastCommandStep, InterruptedStep, ProceedStep, LostStep
  <1>6. CASE SchemaList \/ SchemaListFails \/ Relations \/ ColumnsFail \/ Part
    BY <1>6, SchemaListStep, LostStep, RelationsStep, PartStep
  <1>7. CASE EndLook \/ EndRunning \/ EndFlag \/ Outcome
    BY <1>7, EndLookStep, EndRunningStep, EndFlagStep, OutcomeStep
  <1>8. CASE \E m \in Members : Automatic(m)
    BY <1>8, AutomaticStep
  <1> QED
    BY <1>1, <1>2, <1>3, <1>4, <1>5, <1>6, <1>7, <1>8 DEF Next, Worker

\* IInv holds in every state: every lemma above takes part.
THEOREM Inductive == Spec => []IInv
  <1>1. IInv /\ [Next]_vars => IInv'
    BY NextStep, StutterStep
  <1> QED
    BY <1>1, InitInv, PTL DEF Spec

\* The worker's refresh, its session, its queue and what other threads see of
\* them agree (worker.rs:534-542, 742-754).
THEOREM CatalogCorrect == Spec => []CatalogInv
  <1>1. IInv => CatalogInv
    BY DEF IInv, TypeOK, CatalogInv
  <1> QED
    BY <1>1, Inductive, PTL

\* A flag that no refresh answers to is about to be wiped: it never keeps the
\* next stop from setting its own (worker.rs:294-307, 572-577, 770-784).
THEOREM NoFlagLeft == Spec => []NoLeftoverFlag
  <1>1. IInv => NoLeftoverFlag
    BY DEF IInv
  <1> QED
    BY <1>1, Inductive, PTL

\* A stop reaches the request that it finds, whenever the request is published
\* (worker.rs:311-323, 1223-1226).
THEOREM CancelReaches == Spec => []CancelReachesRequest
  <1>1. IInv => CancelReachesRequest
    BY DEF IInv, RunsInv, CancelReachesRequest
  <1> QED
    BY <1>1, Inductive, PTL

-----------------------------------------------------------------------------
(* What a step never does                                                  *)

LEMMA HandleFlag ==
  ASSUME NEW c, NEW next, Handle(c, next), KeepsFlag
  PROVE  flag' = flag \/ (c.kind = "cancel" /\ c.arg = Nobody)
  <1>1. CASE Refresh(c.arg, next) \/ RefreshIfUnloaded(c.arg, next)
    BY <1>1 DEF Refresh, RefreshIfUnloaded
  <1>2. CASE CancelMember(c.arg, next)
    BY <1>2 DEF CancelMember
  <1>3. CASE \/ Configure(next, c.arg) \/ SetLive(c.arg, next)
             \/ SetCold(c.arg, next) \/ Seed(c.arg, next)
    BY <1>3 DEF Configure, SetLive, SetCold, Seed
  <1> QED
    BY <1>1, <1>2, <1>3 DEF Handle

LEMMA FlagStaysStep ==
  ASSUME IInv, Next, flag # 0, flag = running.batch, flag' # flag, flag' # All
  PROVE  Waiting /\ NextCommand.kind = "cancel" /\ NextCommand.arg = Nobody
  <1>1. /\ r.pc \in Refreshing \ {"clearFlag", "outcome"} /\ flag = r.batch /\ r.active
    BY DEF IInv, RunInv, NoRun, TypeOK, TypeInv
  <1>2. KeepsFlag
    BY <1>1 DEF KeepsFlag
  <1>3. CASE CheckCommand
    BY <1>2, <1>3, HandleFlag DEF CheckCommand
  <1>4. CASE Accept
    <2>1. Handle(Head(channel), r) \/ flag' = flag
      BY <1>4 DEF Accept
    <2>2. Head(channel).kind = "cancel" /\ Head(channel).arg = Nobody => flag' = flag
      BY <1>4 DEF Accept, AcceptedEarly
    <2> QED
      BY <1>2, <2>1, <2>2, HandleFlag
  <1>5. CASE Window
    BY <1>5 DEF Window, CallRefresh, CallRefreshIfUnloaded, CallSetLive, CallStop,
                CallConfigure, CallSeed, CallShutdown, CallSend, Call, atomics
  <1>6. CASE Script
    BY <1>6 DEF Script, Look, Flag, Cancel, Raise, CancelAny, Tell, SendLast, Send, atomics
  <1>7. CASE Receive \/ End \/ Start \/ Rest \/ (\E m \in Members : Automatic(m))
    BY <1>1, <1>7 DEF Receive, End, Start, Rest, Automatic, Refreshing
  <1>8. CASE Begin \/ Connect \/ Execute \/ Sent \/ StopSeen \/ Polled \/ Expire
    BY <1>8 DEF Begin, Connect, Execute, Sent, StopSeen, Polled, Expire, readRest
  <1>9. CASE CheckShutdown \/ Interrupted \/ Proceed \/ Lost \/ SchemaList \/ SchemaListFails
            \/ Relations \/ ColumnsFail \/ Part
    BY <1>9 DEF CheckShutdown, Interrupted, Proceed, Lost, SchemaList, SchemaListFails,
                Relations, ColumnsFail, Part, checkRest, atomics
  <1>10. CASE EndLook \/ EndRunning \/ EndFlag \/ Outcome
    BY <1>1, <1>10 DEF EndLook, EndRunning, EndFlag, Outcome, atomics
  <1> QED
    BY <1>3, <1>4, <1>5, <1>6, <1>7, <1>8, <1>9, <1>10 DEF Next, Worker

\* The command of an earlier stop does not take down the flag of a later one
\* (worker.rs:770-777).
THEOREM FlagStaysUp == Spec => FlagStays
  <1>1. IInv /\ [Next]_vars =>
          [flag # 0 /\ flag = running.batch /\ flag' # flag =>
             \/ flag' = All
             \/ Waiting /\ NextCommand.kind = "cancel" /\ NextCommand.arg = Nobody]_vars
    BY FlagStaysStep
  <1> QED
    BY <1>1, Inductive, PTL DEF Spec, FlagStays

\* A waiting refresh that a step of the worker drops.
Dropped(q) ==
  \/ stopAt[q.member] # 0
  \/ q.member \notin known'.members
  \/ r.outcome = "unavailable" /\ q.member = r.member
  \/ \E p \in queue' : Covers(p.scope, q.scope)

LEMMA HandleDrops ==
  ASSUME IInv, NEW c, NEW next, Fresh(c), Handle(c, next), NEW q \in queue, q \notin queue'
  PROVE  Dropped(q)
  <1>1. q.member \in Members
    BY RequestTyped DEF IInv, TypeOK, TypeInv
  <1>2. CASE Refresh(c.arg, next)
    <2>1. queue' = {p \in queue : ~Covers(c.arg.scope, p.scope)} \cup {c.arg}
      BY <1>2 DEF Refresh
    <2> QED
      BY <2>1 DEF Dropped
  <1>3. CASE c.kind = "cancel"
    <2>1. c.arg \in {q.member, Nobody}
      BY <1>3 DEF Handle, CancelMember, Keep
    <2> QED
      BY <1>1, <1>3, <2>1 DEF Fresh, Dropped, AllStop
  <1>4. CASE Configure(next, c.arg)
    <2>1. queue' = KeepMembers(c.arg.members) /\ known' = c.arg
      BY <1>4 DEF Configure
    <2> QED
      BY <2>1 DEF KeepMembers, Dropped
  <1>5. CASE queue' = queue
    BY <1>5
  <1> QED
    BY <1>2, <1>3, <1>4, <1>5 DEF Handle, RefreshIfUnloaded, SetLive, SetCold, Seed

LEMMA OutcomeDrops ==
  ASSUME IInv, Outcome, NEW q \in queue, q \notin queue'
  PROVE  Dropped(q)
  <1>1. q.member \in Members /\ r.active /\ r.member \in Members /\ r.n \in Nat
        /\ \A m \in Members : stopAt[m] \in Nat
    <2>1. r.active
      BY DEF Outcome, IInv, TypeOK, TypeInv, Refreshing
    <2> QED
      BY <2>1, RequestTyped, RunFacts, WindowTyped DEF IInv, TypeOK, TypeInv, RunsInv
  <1>2. CASE r.outcome = "stopped" \/ r.all
    BY <1>1, <1>2 DEF IInv, RunsInv, AllStop, Dropped
  <1>3. CASE r.outcome = "cancelled" /\ ~r.all
    <2>1. q.member = r.member
      BY <1>3 DEF Outcome, Left, Keep
    <2>2. r.n < stopAt[r.member]
      BY <1>1, <1>3 DEF IInv, RunsInv, Own
    <2> QED
      BY <1>1, <2>1, <2>2 DEF Dropped
  <1>4. CASE r.outcome = "unavailable"
    BY <1>4 DEF Outcome, Left, Keep, Dropped
  <1>5. CASE r.outcome \notin {"stopped", "cancelled", "unavailable"}
    BY <1>5 DEF Outcome, Left
  <1> QED
    BY <1>2, <1>3, <1>4, <1>5

LEMMA DropStep ==
  ASSUME IInv, Next, r.pc \notin {"pop", "wait"}, NEW q \in queue, q \notin queue'
  PROVE  Dropped(q)
  <1>1. CASE CheckCommand
    <2>1. Waiting /\ Take /\ Handle(NextCommand, r)
      BY <1>1 DEF CheckCommand
    <2>2. Fresh(NextCommand)
      BY <2>1, TakeFacts
    <2> QED
      BY <2>1, <2>2, HandleDrops
  <1>2. CASE Accept
    <2>1. Handle(Head(channel), r)
      BY <1>2 DEF Accept
    <2>2. Fresh(Head(channel))
      BY <1>2, FreshChannel DEF Accept
    <2> QED
      BY <2>1, <2>2, HandleDrops
  <1>3. CASE Outcome
    BY <1>3, OutcomeDrops
  <1>4. CASE Window
    BY <1>4 DEF Window, CallRefresh, CallRefreshIfUnloaded, CallSetLive, CallStop,
                CallConfigure, CallSeed, CallShutdown, CallSend, Call, workerVars
  <1>5. CASE Script
    BY <1>5 DEF Script, Look, Flag, Cancel, Raise, CancelAny, Tell, SendLast, Send, workerVars
  <1>6. CASE Receive \/ End \/ Start \/ Rest \/ (\E m \in Members : Automatic(m))
    BY <1>6 DEF Receive, End, Start, Rest, Automatic
  <1>7. CASE Begin \/ Connect \/ Execute \/ Sent \/ StopSeen \/ Polled \/ Expire
    BY <1>7 DEF Begin, Connect, Execute, Sent, StopSeen, Polled, Expire, readRest, workerVars
  <1>8. CASE CheckShutdown \/ Interrupted \/ Proceed \/ Lost \/ SchemaList \/ SchemaListFails
            \/ Relations \/ ColumnsFail \/ Part
    BY <1>8 DEF CheckShutdown, Interrupted, Proceed, Lost, SchemaList, SchemaListFails,
                Relations, ColumnsFail, Part, checkRest
  <1>9. CASE EndLook \/ EndRunning \/ EndFlag
    BY <1>9 DEF EndLook, EndRunning, EndFlag, workerVars
  <1> QED
    BY <1>1, <1>2, <1>3, <1>4, <1>5, <1>6, <1>7, <1>8, <1>9 DEF Next, Worker

\* A refresh is cancelled, and a waiting one dropped, by a stop of its own member
\* and never by that of another one (worker.rs:294-307, 614-632).
THEOREM OwnStopsOnly == Spec => OnlyOwnStops
  <1>1. ASSUME IInv, Next
        PROVE  /\ r.pc = "outcome" /\ r.outcome = "cancelled" => stopAt[r.member] > r.n
               /\ r.pc \notin {"pop", "wait"} =>
                    \A q \in queue \ queue' :
                      \/ stopAt[q.member] # 0
                      \/ q.member \notin known'.members
                      \/ r.outcome = "unavailable" /\ q.member = r.member
                      \/ \E p \in queue' : Covers(p.scope, q.scope)
    <2>1. r.pc = "outcome" /\ r.outcome = "cancelled" => stopAt[r.member] > r.n
      <3>1. r.pc = "outcome" => r.active
        BY <1>1 DEF IInv, TypeOK, TypeInv, Refreshing
      <3>2. r.active => r.member \in Members /\ r.n \in Nat /\ stopAt[r.member] \in Nat
        BY <1>1, RunFacts, WindowTyped DEF IInv, TypeOK, TypeInv, RunsInv
      <3>3. r.active /\ r.outcome = "cancelled" => r.n < stopAt[r.member]
        BY <1>1 DEF IInv, RunsInv, Own
      <3> QED
        BY <3>1, <3>2, <3>3
    <2> QED
      BY <1>1, <2>1, DropStep DEF Dropped
  <1>2. IInv /\ [Next]_vars =>
          [/\ r.pc = "outcome" /\ r.outcome = "cancelled" => stopAt[r.member] > r.n
           /\ r.pc \notin {"pop", "wait"} =>
                \A q \in queue \ queue' :
                  \/ stopAt[q.member] # 0
                  \/ q.member \notin known'.members
                  \/ r.outcome = "unavailable" /\ q.member = r.member
                  \/ \E p \in queue' : Covers(p.scope, q.scope)]_vars
    BY <1>1
  <1> QED
    BY <1>2, Inductive, PTL DEF Spec, OnlyOwnStops
=============================================================================
