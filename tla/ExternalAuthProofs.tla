-------------------------- MODULE ExternalAuthProofs --------------------------
(***************************************************************************)
(* The invariant of the browser sign-in of a connection, for any number of *)
(* sessions, entries and flights: the requests of a connection share one   *)
(* sign-in, which ends when nobody waits for it, and nothing of it         *)
(* survives a sign-out. Each part has a lemma with one step per action;    *)
(* the actions that change one request only have their lemma, QuietStep.   *)
(***************************************************************************)
EXTENDS ExternalAuth, FiniteSetTheorems, TLAPS

\* OneBrowser follows from FlightInv.
IInv == TypeInv /\ CallInv /\ FlightInv /\ CountInv /\ SharedSignIn /\ SignedOutForgets

Waits == {"wait", "leave"}

\* The actions that change one request, and nothing else.
Quiet(c) ==
  \/ Cached(c) \/ Send(c) \/ SendFails(c) \/ Accepted(c) \/ Fail(c) \/ Check(c) \/ Replaced(c)
  \/ Cancelled(c) \/ Ended(c) \/ TimedOut(c) \/ CancelQuery(c)

LEMMA InitHolds == Init => IInv
<1> SUFFICES ASSUME Init PROVE IInv
  OBVIOUS
<1> USE BoundsAssumption DEF Init
<1>1. TypeInv
  BY DEF TypeInv, CallType, FlightType, StateType, Entries, Flights, Pcs, NoCall, NoFlight
<1>2. CallInv /\ FlightInv /\ SharedSignIn /\ SignedOutForgets
  BY DEF CallInv, RequestInv, FlightInv, EntryInv, RunInv, SharedSignIn,
     SignedOutForgets, At, NoCall, NoFlight, Running,
     Entries, Flights
<1>3. CountInv
  <2>1. \A f \in Flights : Waiting(f) = {}
    BY DEF Waiting, NoCall
  <2> QED
    BY <2>1, FS_EmptySet DEF CountInv, NoFlight
<1> QED
  BY <1>1, <1>2, <1>3 DEF IInv

\* The waiters of a flight are finitely many: the count is a number.
LEMMA WaitingFinite == \A f : IsFiniteSet(Waiting(f))
  BY CallersAssumption, FS_Subset DEF Waiting

\* The records that the actions make of a request are requests.
LEMMA CallRecords ==
  ASSUME NEW r \in CallType, NEW pc \in Pcs
  PROVE  /\ [r EXCEPT !.pc = pc] \in CallType
         /\ [r EXCEPT !.cancelled = TRUE] \in CallType
         /\ \A t \in 0 .. flights : [r EXCEPT !.pc = pc, !.token = t] \in CallType
         /\ \A t \in 0 .. flights, n \in 0 .. 2 :
              [r EXCEPT !.pc = pc, !.token = t, !.attempt = n] \in CallType
         /\ \A f \in 0 .. flights : [r EXCEPT !.flight = f] \in CallType
<1> DEFINE E == 0 .. entries
           F == 0 .. flights
           N == 0 .. 2
           B == BOOLEAN
<1>1. CallType = [pc : Pcs, entry : E, token : F, attempt : N, flight : F, cancelled : B]
  BY DEF CallType
<1>2. TRUE \in B
  OBVIOUS
<1> HIDE DEF E, F, N, B
<1>3. /\ [r EXCEPT !.pc = pc] \in CallType
      /\ [r EXCEPT !.cancelled = TRUE] \in CallType
  BY <1>1, <1>2
<1>4. ASSUME NEW t \in F PROVE [r EXCEPT !.pc = pc, !.token = t] \in CallType
  BY <1>1
<1>5. ASSUME NEW t \in F, NEW n \in N
      PROVE  [r EXCEPT !.pc = pc, !.token = t, !.attempt = n] \in CallType
  BY <1>1
<1>6. ASSUME NEW f \in F PROVE [r EXCEPT !.flight = f] \in CallType
  BY <1>1
<1> QED
  BY <1>3, <1>4, <1>5, <1>6 DEF E, F, N, B

LEMMA AgainCall ==
  ASSUME NEW r \in CallType, NEW t \in 0 .. flights, r.attempt < 2
  PROVE  Again(r, t) \in CallType
<1>1. r.attempt + 1 \in 0 .. 2 /\ "request" \in Pcs
  BY DEF CallType, Pcs
<1> QED
  BY <1>1, CallRecords DEF Again

\* A request of a session that opens or goes on.
LEMMA FreshCall ==
  ASSUME NEW E, NEW F, NEW e \in E, 0 \in E, 0 \in F
  PROVE  /\ [NoCall EXCEPT !.pc = "open", !.entry = e] \in
              [pc : Pcs, entry : E, token : F, attempt : 0 .. 2, flight : F, cancelled : BOOLEAN]
         /\ NoCall \in
              [pc : Pcs, entry : E, token : F, attempt : 0 .. 2, flight : F, cancelled : BOOLEAN]
<1> DEFINE N == 0 .. 2
           B == BOOLEAN
<1>1. 0 \in N /\ FALSE \in B /\ {"open", "idle"} \subseteq Pcs
  BY DEF Pcs
<1> HIDE DEF N, B
<1>2. /\ [NoCall EXCEPT !.pc = "open", !.entry = e] \in
           [pc : Pcs, entry : E, token : F, attempt : N, flight : F, cancelled : B]
      /\ NoCall \in [pc : Pcs, entry : E, token : F, attempt : N, flight : F, cancelled : B]
  BY <1>1 DEF NoCall
<1> QED
  BY <1>2 DEF N, B

LEMMA FailedCall ==
  ASSUME NEW r \in CallType, 0 \in 0 .. flights
  PROVE  Failed(r) \in CallType
<1> DEFINE E == 0 .. entries
           F == 0 .. flights
           N == 0 .. 2
           B == BOOLEAN
<1>1. CallType = [pc : Pcs, entry : E, token : F, attempt : N, flight : F, cancelled : B]
  BY DEF CallType
<1>2. 0 \in N /\ 0 \in F /\ FALSE \in B /\ "failed" \in Pcs
  BY DEF Pcs
<1> HIDE DEF E, F, N, B
<1> QED
  BY <1>1, <1>2 DEF Failed, NoCall

\* The records that the actions make of a flight are flights.
LEMMA FlightRecords ==
  ASSUME NEW a \in FlightType
  PROVE  /\ \A out \in {"token", "error"} :
              [a EXCEPT !.opener = "none", !.result = out] \in FlightType
         /\ \A run \in {"running", "returned"} : [a EXCEPT !.opener = run] \in FlightType
         /\ \A b \in BOOLEAN : [a EXCEPT !.cancel = b] \in FlightType
<1> DEFINE E == 0 .. entries
           W == Nat
           B == BOOLEAN
           O == {"none", "running", "returned"}
           R == {"none", "token", "error"}
<1>1. FlightType = [entry : E, cancel : B, waiters : W, opener : O, result : R]
  BY DEF FlightType
<1>2. {"token", "error"} \subseteq R /\ "none" \in O /\ {"running", "returned"} \subseteq O
  OBVIOUS
<1>3. BOOLEAN = B
  OBVIOUS
<1> HIDE DEF E, W, B, O, R
<1> QED
  BY <1>1, <1>2, <1>3

\* More entries and flights make more requests, not fewer.
LEMMA CallsGrow ==
  ASSUME NEW A, NEW B, NEW F, NEW G, A \subseteq B, F \subseteq G
  PROVE  [pc : Pcs, entry : A, token : F, attempt : 0 .. 2, flight : F, cancelled : BOOLEAN]
         \subseteq
         [pc : Pcs, entry : B, token : G, attempt : 0 .. 2, flight : G, cancelled : BOOLEAN]
<1> DEFINE N == 0 .. 2
           C == BOOLEAN
<1> HIDE DEF N, C
<1>1. [pc : Pcs, entry : A, token : F, attempt : N, flight : F, cancelled : C]
      \subseteq [pc : Pcs, entry : B, token : G, attempt : N, flight : G, cancelled : C]
  OBVIOUS
<1> QED
  BY <1>1 DEF N, C

\* What the actions of a request that concern nobody else do: the request keeps
\* its flight while it waits, and begins no wait.
QuietTo(c, next) ==
  /\ next \in CallType
  /\ next.flight = call[c].flight
  /\ next.pc \in Waits <=> call[c].pc \in Waits
  /\ next.pc = "wait" => call[c].pc = "wait"
  /\ next.pc # "idle" => next.entry = call[c].entry /\ call[c].pc # "idle"
  /\ next.pc \in {"check", "enter", "wait", "leave"} => next.attempt < 2

LEMMA QuietStep ==
  ASSUME IInv, NEW c \in Callers, Quiet(c)
  PROVE  /\ UNCHANGED <<registryVars, state, flightVars, accepted>>
         /\ \E next : call' = [call EXCEPT ![c] = next] /\ QuietTo(c, next)
<1> USE DEF At
<1>a. /\ call \in [Callers -> CallType] /\ call[c] \in CallType
      /\ call[c].entry \in 0 .. entries /\ call[c].token \in 0 .. flights
      /\ call[c].attempt \in 0 .. 2 /\ call[c].flight \in 0 .. flights
      /\ call[c].pc \in Pcs /\ call[c].cancelled \in BOOLEAN
      /\ entries \in Nat /\ flights \in Nat
  BY BoundsAssumption DEF IInv, TypeInv, CallType
<1>b. /\ call[c].pc # "idle" => call[c].entry # 0
      /\ call[c].pc \in {"check", "enter", "wait", "leave"} => call[c].attempt < 2
      /\ call[c].pc \notin Waits => call[c].flight = 0
  BY DEF IInv, CallInv, RequestInv, Waits
<1>c. call[c].pc # "idle" => state[call[c].entry].token \in 0 .. flights
  <2>1. SUFFICES ASSUME call[c].pc # "idle" PROVE state[call[c].entry].token \in 0 .. flights
    OBVIOUS
  <2>2. call[c].entry \in Entries
    BY <1>a, <1>b, <2>1, BoundsAssumption DEF IInv, TypeInv, Entries
  <2>3. state[call[c].entry] \in StateType
    BY <2>2 DEF IInv, TypeInv
  <2> QED
    BY <2>3 DEF StateType
<1>d. 0 \in 0 .. flights /\ 0 \in 0 .. 2
      /\ {"idle", "open", "request", "sent", "failed", "check", "enter", "wait", "leave"}
           \subseteq Pcs
  BY <1>a DEF Pcs
<1>e. NoCall \in CallType /\ [NoCall EXCEPT !.pc = "open", !.entry = call[c].entry] \in CallType
  <2>1. 0 \in 0 .. entries
    BY <1>a
  <2> QED
    BY <1>a, <1>d, <2>1, FreshCall DEF CallType
<1>f. call[c].pc \notin Waits /\ call[c].pc # "idle" => QuietTo(c, Failed(call[c]))
  <2>1. SUFFICES ASSUME call[c].pc \notin Waits, call[c].pc # "idle"
                 PROVE  QuietTo(c, Failed(call[c]))
    OBVIOUS
  <2>2. Failed(call[c]) \in CallType
    BY <1>a, <1>d, FailedCall
  <2> QED
    BY <1>a, <1>b, <2>1, <2>2 DEF QuietTo, Waits, Failed, NoCall
<1>1. UNCHANGED <<registryVars, state, flightVars, accepted>>
  BY DEF Quiet, Cached, Send, SendFails, Accepted, Fail, Check, Replaced, Cancelled, Ended,
     TimedOut, CancelQuery
<1>2. CASE Cached(c)
  <2>1. QuietTo(c, [call[c] EXCEPT !.pc = "request", !.token = state[call[c].entry].token,
                                 !.attempt = 0])
    <3>1. state[call[c].entry].token \in 0 .. flights
      BY <1>2, <1>c DEF Cached
    <3>2. [call[c] EXCEPT !.pc = "request", !.token = state[call[c].entry].token,
                      !.attempt = 0] \in CallType
      BY <1>a, <1>d, <3>1, CallRecords
    <3> QED
      BY <1>2, <1>a, <1>b, <3>2 DEF Cached, QuietTo, Waits
  <2>2. QuietTo(c, NoCall)
    BY <1>2, <1>a, <1>b, <1>e DEF Cached, QuietTo, Waits, NoCall
  <2>3. \/ call' = [call EXCEPT ![c] =
                      [call[c] EXCEPT !.pc = "request", !.token = state[call[c].entry].token,
                                              !.attempt = 0]]
        \/ call' = [call EXCEPT ![c] = NoCall]
    BY <1>2, <1>a DEF Cached
  <2> QED
    BY <1>1, <2>1, <2>2, <2>3
<1>3. CASE Send(c)
  <2>1. QuietTo(c, Failed(call[c]))
    BY <1>3, <1>f DEF Send, Waits
  <2>2. QuietTo(c, [call[c] EXCEPT !.pc = "sent"])
    <3>1. [call[c] EXCEPT !.pc = "sent"] \in CallType
      BY <1>a, <1>d, CallRecords
    <3> QED
      BY <1>3, <1>a, <1>b, <3>1 DEF Send, QuietTo, Waits
  <2>3. \/ call' = [call EXCEPT ![c] = Failed(call[c])]
        \/ call' = [call EXCEPT ![c] = [call[c] EXCEPT !.pc = "sent"]]
    BY <1>3, <1>a DEF Send
  <2> QED
    BY <1>1, <2>1, <2>2, <2>3
<1>12. CASE SendFails(c)
  <2>1. QuietTo(c, Failed(call[c]))
    BY <1>12, <1>f DEF SendFails, Waits
  <2> QED
    BY <1>1, <1>12, <2>1 DEF SendFails
<1>4. CASE Accepted(c)
  <2>1. QuietTo(c, [NoCall EXCEPT !.pc = "open", !.entry = call[c].entry])
    BY <1>4, <1>a, <1>b, <1>e DEF Accepted, QuietTo, Waits, NoCall
  <2>2. call' = [call EXCEPT ![c] = [NoCall EXCEPT !.pc = "open", !.entry = call[c].entry]]
    BY <1>4, <1>a DEF Accepted
  <2> QED
    BY <1>1, <2>1, <2>2
<1>5. CASE Fail(c)
  <2>1. QuietTo(c, NoCall)
    BY <1>5, <1>a, <1>b, <1>e DEF Fail, QuietTo, Waits, NoCall
  <2>2. QuietTo(c, [NoCall EXCEPT !.pc = "open", !.entry = call[c].entry])
    BY <1>5, <1>a, <1>b, <1>e DEF Fail, QuietTo, Waits, NoCall
  <2>3. \/ call' = [call EXCEPT ![c] = NoCall]
        \/ call' = [call EXCEPT ![c] = [NoCall EXCEPT !.pc = "open", !.entry = call[c].entry]]
    BY <1>5, <1>a DEF Fail
  <2> QED
    BY <1>1, <2>1, <2>2, <2>3
<1>6. CASE Check(c)
  <2>1. QuietTo(c, Failed(call[c]))
    BY <1>6, <1>f DEF Check, Waits
  <2>2. QuietTo(c, [call[c] EXCEPT !.pc = "enter"])
    <3>1. [call[c] EXCEPT !.pc = "enter"] \in CallType
      BY <1>a, <1>d, CallRecords
    <3> QED
      BY <1>6, <1>a, <1>b, <3>1 DEF Check, QuietTo, Waits
  <2>3. \/ call' = [call EXCEPT ![c] = Failed(call[c])]
        \/ call' = [call EXCEPT ![c] = [call[c] EXCEPT !.pc = "enter"]]
    BY <1>6, <1>a DEF Check
  <2> QED
    BY <1>1, <2>1, <2>2, <2>3
<1>7. CASE Replaced(c)
  <2>1. QuietTo(c, Again(call[c], state[call[c].entry].token))
    <3>1. state[call[c].entry].token \in 0 .. flights
      BY <1>7, <1>c DEF Replaced
    <3>2. call[c].attempt < 2
      BY <1>7, <1>b DEF Replaced
    <3>3. Again(call[c], state[call[c].entry].token) \in CallType
      BY <1>a, <1>d, <3>1, <3>2, AgainCall
    <3> QED
      BY <1>7, <1>a, <1>b, <3>3 DEF Replaced, QuietTo, Waits, Again
  <2>2. call' = [call EXCEPT ![c] = Again(call[c], state[call[c].entry].token)]
    BY <1>7, <1>a DEF Replaced
  <2> QED
    BY <1>1, <2>1, <2>2
<1>8. CASE Cancelled(c)
  <2>1. QuietTo(c, [call[c] EXCEPT !.pc = "leave", !.token = 0])
    <3>1. [call[c] EXCEPT !.pc = "leave", !.token = 0] \in CallType
      BY <1>a, <1>d, CallRecords
    <3> QED
      BY <1>8, <1>a, <1>b, <3>1 DEF Cancelled, QuietTo, Waits
  <2>2. call' = [call EXCEPT ![c] = [call[c] EXCEPT !.pc = "leave", !.token = 0]]
    BY <1>8, <1>a DEF Cancelled
  <2> QED
    BY <1>1, <2>1, <2>2
<1>9. CASE Ended(c)
  <2>1. QuietTo(c, [call[c] EXCEPT !.pc = "leave", !.token = call[c].flight])
    <3>1. [call[c] EXCEPT !.pc = "leave", !.token = call[c].flight] \in CallType
      BY <1>a, <1>d, CallRecords
    <3> QED
      BY <1>9, <1>a, <1>b, <3>1 DEF Ended, QuietTo, Waits
  <2>2. QuietTo(c, [call[c] EXCEPT !.pc = "leave", !.token = 0])
    <3>1. [call[c] EXCEPT !.pc = "leave", !.token = 0] \in CallType
      BY <1>a, <1>d, CallRecords
    <3> QED
      BY <1>9, <1>a, <1>b, <3>1 DEF Ended, QuietTo, Waits
  <2>3. \/ call' = [call EXCEPT ![c] = [call[c] EXCEPT !.pc = "leave", !.token = call[c].flight]]
        \/ call' = [call EXCEPT ![c] = [call[c] EXCEPT !.pc = "leave", !.token = 0]]
    BY <1>9, <1>a DEF Ended
  <2> QED
    BY <1>1, <2>1, <2>2, <2>3
<1>10. CASE TimedOut(c)
  <2>1. QuietTo(c, [call[c] EXCEPT !.pc = "leave", !.token = 0])
    <3>1. [call[c] EXCEPT !.pc = "leave", !.token = 0] \in CallType
      BY <1>a, <1>d, CallRecords
    <3> QED
      BY <1>10, <1>a, <1>b, <3>1 DEF TimedOut, QuietTo, Waits
  <2>2. call' = [call EXCEPT ![c] = [call[c] EXCEPT !.pc = "leave", !.token = 0]]
    BY <1>10, <1>a DEF TimedOut
  <2> QED
    BY <1>1, <2>1, <2>2
<1>11. CASE CancelQuery(c)
  <2>1. QuietTo(c, [call[c] EXCEPT !.cancelled = TRUE])
    <3>1. [call[c] EXCEPT !.cancelled = TRUE] \in CallType
      BY <1>a, <1>d, CallRecords
    <3> QED
      BY <1>11, <1>a, <1>b, <3>1 DEF CancelQuery, QuietTo, Waits
  <2>2. call' = [call EXCEPT ![c] = [call[c] EXCEPT !.cancelled = TRUE]]
    BY <1>11, <1>a DEF CancelQuery
  <2> QED
    BY <1>1, <2>1, <2>2
<1> QED
  BY <1>2, <1>3, <1>4, <1>5, <1>6, <1>7, <1>8, <1>9, <1>10, <1>11, <1>12 DEF Quiet

\* The opener of a sign-in changes nothing else.
LEMMA OpenerStep ==
  ASSUME IInv, NEW f \in Flights, RunOpener(f) \/ OpenerReturns(f)
  PROVE  /\ UNCHANGED <<registryVars, state, flights, call, accepted>>
         /\ flight' \in [Flights -> FlightType]
         /\ \A g \in Flights : /\ flight'[g].entry = flight[g].entry
                              /\ flight'[g].cancel = flight[g].cancel
                              /\ flight'[g].waiters = flight[g].waiters
                              /\ flight'[g].result = flight[g].result
<1>1. flight \in [Flights -> FlightType]
  BY DEF IInv, TypeInv
<1>2. UNCHANGED <<registryVars, state, flights, call, accepted>>
  BY DEF RunOpener, OpenerReturns
<1>3. PICK opener \in {"running", "returned"} : flight' = [flight EXCEPT ![f].opener = opener]
  BY DEF RunOpener, OpenerReturns
<1> QED
  BY <1>1, <1>2, <1>3 DEF FlightType

\* Every step keeps the types.
LEMMA TypeKept == IInv /\ [Next]_vars => TypeInv'
<1> SUFFICES ASSUME IInv, [Next]_vars PROVE TypeInv'
  OBVIOUS
<1>a. /\ call \in [Callers -> CallType] /\ flight \in [Flights -> FlightType]
      /\ state \in [Entries -> StateType] /\ valid \in [Entries -> BOOLEAN]
      /\ entries \in 0 .. MaxEntries /\ flights \in 0 .. MaxFlights
      /\ current \in 0 .. entries /\ dropping \in {0, current} /\ accepted \subseteq 1 .. flights
      /\ Entries = 1 .. MaxEntries /\ Flights = 1 .. MaxFlights
      /\ MaxEntries \in Nat /\ MaxFlights \in Nat /\ entries \in Nat /\ flights \in Nat
  BY BoundsAssumption DEF IInv, TypeInv, Entries, Flights
<1>b. UNCHANGED <<entries, flights>> =>
        /\ CallType' = CallType /\ FlightType' = FlightType /\ StateType' = StateType
  BY DEF CallType, FlightType, StateType
<1>1. ASSUME NEW c \in Callers, Quiet(c) PROVE TypeInv'
  <2>1. /\ UNCHANGED <<registryVars, state, flightVars, accepted>>
        /\ call' \in [Callers -> CallType]
    BY <1>1, <1>a, QuietStep DEF QuietTo
  <2> QED
    BY <2>1, <1>a, <1>b DEF TypeInv, registryVars, flightVars
<1>2. ASSUME NEW c \in Callers, Open(c) PROVE TypeInv'
  <2> DEFINE e == IF current # 0 THEN current ELSE entries + 1
  <2>1. /\ entries' \in entries .. MaxEntries /\ current' = e /\ e \in 1 .. entries'
        /\ valid' \in [Entries -> BOOLEAN]
        /\ call' = [call EXCEPT ![c] = [NoCall EXCEPT !.pc = "open", !.entry = e]]
        /\ UNCHANGED <<dropping, state, flights, flight, accepted>> /\ dropping = 0
    BY <1>2, <1>a DEF Open, flightVars
  <2>2. CallType \subseteq CallType' /\ FlightType \subseteq FlightType' /\ StateType' = StateType
    <3>1. 0 .. entries \subseteq 0 .. entries'
      BY <2>1, <1>a
    <3>2. CallType \subseteq CallType'
      BY <2>1, <3>1, CallsGrow DEF CallType
    <3> QED
      BY <2>1, <3>1, <3>2 DEF FlightType, StateType
  <2>3. [NoCall EXCEPT !.pc = "open", !.entry = e] \in CallType'
    <3>1. e \in 0 .. entries' /\ 0 \in 0 .. entries' /\ 0 \in 0 .. flights
      BY <2>1, <1>a
    <3> QED
      BY <2>1, <3>1, FreshCall DEF CallType
  <2>4. call' \in [Callers -> CallType']
    BY <2>1, <2>2, <2>3, <1>a
  <2> QED
    BY <2>1, <2>2, <2>4, <1>a DEF TypeInv
<1>3. ASSUME NEW c \in Callers, Reject(c) PROVE TypeInv'
  <2> DEFINE next == [call[c] EXCEPT !.pc = "check"]
             e == call[c].entry
  <2>1. next \in CallType /\ Failed(call[c]) \in CallType
    <3>1. "check" \in Pcs /\ call[c] \in CallType /\ 0 \in 0 .. flights
      BY <1>3, <1>a DEF Pcs
    <3>2. next \in CallType
      BY <3>1, CallRecords
    <3>3. Failed(call[c]) \in CallType
      BY <3>1, FailedCall
    <3> QED
      BY <3>2, <3>3
  <2>2. call' \in [Callers -> CallType]
    <3>1. \/ call' = [call EXCEPT ![c] = Failed(call[c])]
          \/ call' = [call EXCEPT ![c] = next]
      BY <1>3, <1>a DEF Reject
    <3> QED
      BY <2>1, <3>1, <1>a
  <2>3. state' \in [Entries -> StateType]
    <3>1. e \in Entries => state[e] \in StateType
      BY <1>a
    <3>2. e \in Entries =>
            (IF state[e].token = call[c].token THEN 0 ELSE state[e].token) \in 0 .. flights
      BY <3>1, <1>a DEF StateType
    <3>3. e \in Entries =>
            [state[e] EXCEPT !.token = IF @ = call[c].token THEN 0 ELSE @] \in StateType
      BY <3>1, <3>2 DEF StateType
    <3> QED
      BY <1>3, <3>3, <1>a DEF Reject
  <2> QED
    BY <1>3, <2>2, <2>3, <1>a, <1>b DEF Reject, TypeInv, registryVars, flightVars
<1>4. ASSUME NEW c \in Callers, Enter(c) PROVE TypeInv'
  <2> DEFINE e == call[c].entry
             f == IF Existing(e) # 0 THEN Existing(e) ELSE flights + 1
  <2>1. e \in Entries
    BY <1>4, <1>a DEF Enter, IInv, CallInv, RequestInv, At, CallType
  <2>2. /\ f \in Flights /\ flights' = IF Existing(e) # 0 THEN flights ELSE f
        /\ flight' = [flight EXCEPT ![f] = Joined(flight[f], e)]
        /\ state' = [state EXCEPT ![e] = [token |-> 0, flight |-> f]]
        /\ call' = [call EXCEPT ![c].pc = "wait", ![c].flight = f]
        /\ UNCHANGED <<current, entries, valid, dropping, accepted>>
    BY <1>4 DEF Enter, registryVars
  <2>3. f \in 1 .. flights' /\ flights' \in flights .. MaxFlights
    <3>1. state[e].flight \in 0 .. flights
      BY <2>1, <1>a DEF StateType
    <3>2. CASE Existing(e) # 0
      <4>1. Existing(e) = state[e].flight
        BY <3>2 DEF Existing
      <4> QED
        BY <2>2, <3>1, <3>2, <4>1, <1>a
    <3>3. CASE Existing(e) = 0
      BY <2>2, <3>3, <1>a
    <3> QED
      BY <3>2, <3>3
  <2>4. CallType \subseteq CallType' /\ FlightType' = FlightType /\ StateType \subseteq StateType'
    <3>1. 0 .. flights \subseteq 0 .. flights'
      BY <2>3, <1>a
    <3>2. CallType \subseteq CallType'
      BY <2>2, <3>1, CallsGrow DEF CallType
    <3> QED
      BY <2>2, <3>1, <3>2 DEF FlightType, StateType
  <2>5. [call[c] EXCEPT !.pc = "wait", !.flight = f] \in CallType'
    <3>1. call[c] \in CallType'
      BY <2>4, <1>a
    <3>2. f \in 0 .. flights' /\ "wait" \in Pcs
      BY <2>3, <1>a DEF Pcs
    <3> QED
      BY <3>1, <3>2 DEF CallType
  <2>6. Joined(flight[f], e) \in FlightType
    <3>1. flight[f] \in FlightType /\ e \in 0 .. entries
      BY <2>2, <1>a DEF CallType
    <3>2. flight[f].waiters + 1 \in Nat
      BY <3>1 DEF FlightType
    <3> QED
      BY <3>1, <3>2 DEF FlightType, Joined
  <2>7. [token |-> 0, flight |-> f] \in StateType'
    BY <2>3, <1>a DEF StateType
  <2>8. call' \in [Callers -> CallType']
    BY <2>2, <2>4, <2>5, <1>a
  <2>9. state' \in [Entries -> StateType'] /\ flight' \in [Flights -> FlightType']
    <3>1. state' \in [Entries -> StateType']
      BY <2>2, <2>4, <2>7, <1>a
    <3>2. flight' \in [Flights -> FlightType]
      BY <2>2, <2>6, <1>a
    <3> QED
      BY <2>4, <3>1, <3>2
  <2> QED
    BY <2>2, <2>3, <2>8, <2>9, <1>a DEF TypeInv
<1>5. ASSUME NEW c \in Callers, Leave(c) PROVE TypeInv'
  <2> DEFINE f == call[c].flight
  <2>1. f \in Flights /\ flight[f].waiters \in Nat \ {0}
    <3>1. f \in Flights /\ c \in Waiting(f)
      BY <1>5, <1>a DEF Leave, IInv, CallInv, RequestInv, At, CallType, Waiting
    <3> QED
      BY <3>1, WaitingFinite, FS_CardinalityType, FS_EmptySet DEF IInv, CountInv
  <2>2. Left(flight[f], LastWaiter(f)) \in FlightType
    <3>1. flight[f] \in FlightType /\ flight[f].waiters - 1 \in Nat
      BY <2>1, <1>a
    <3>2. flight[f].cancel \/ LastWaiter(f) \in BOOLEAN
      BY DEF LastWaiter
    <3> QED
      BY <3>1, <3>2 DEF FlightType, Left
  <2>3. flight' \in [Flights -> FlightType]
    <3>1. flight' = [flight EXCEPT ![f] = Left(flight[f], LastWaiter(f))]
      BY <1>5 DEF Leave
    <3> QED
      BY <2>1, <2>2, <3>1, <1>a
  <2>4. call' \in [Callers -> CallType]
    <3>1. call[c].attempt < 2 /\ call[c] \in CallType
      BY <1>5, <1>a DEF Leave, IInv, CallInv, RequestInv, At
    <3> DEFINE request == [call[c] EXCEPT !.flight = 0]
    <3>2. request \in CallType /\ request.attempt < 2 /\ request.token \in 0 .. flights
      <4> "failed" \in Pcs /\ 0 \in 0 .. flights
        BY <1>a DEF Pcs
      <4>1. request \in CallType
        BY <3>1, CallRecords
      <4> QED
        BY <3>1, <4>1 DEF CallType
    <3>3. call' = [call EXCEPT ![c] = IF request.token # 0 THEN Again(request, request.token)
                                      ELSE Failed(request)]
      BY <1>5 DEF Leave
    <3>4. Again(request, request.token) \in CallType
      BY <3>2, AgainCall
    <3>5. Failed(request) \in CallType
      <4> HIDE DEF request
      <4> QED
        BY <3>2, <1>a, FailedCall
    <3> HIDE DEF request
    <3> QED
      BY <3>3, <3>4, <3>5, <1>a
  <2> QED
    BY <1>5, <2>3, <2>4, <1>a, <1>b DEF Leave, TypeInv, registryVars
<1>6. ASSUME NEW f \in Flights, Publish(f) PROVE TypeInv'
  <2> DEFINE e == flight[f].entry
  <2>1. e \in Entries /\ f <= flights
    BY <1>6, <1>a DEF Publish, Running, IInv, FlightInv, RunInv, FlightType
  <2>2. PICK outcome \in {"token", "error"} :
          /\ flight' = [flight EXCEPT ![f].opener = "none", ![f].result = outcome]
          /\ state' = [state EXCEPT
               ![e].token = IF MayStore(f, e) THEN IF outcome = "token" THEN f ELSE 0 ELSE @,
               ![e].flight = IF Clear(f, e) THEN 0 ELSE @]
          /\ accepted' = IF outcome = "token" THEN accepted \cup {f} ELSE accepted
    BY <1>6 DEF Publish
  <2>3. flight' \in [Flights -> FlightType]
    <3>1. [flight[f] EXCEPT !.opener = "none", !.result = outcome] \in FlightType
      BY <1>a, FlightRecords
    <3> QED
      BY <2>2, <3>1, <1>a
  <2>4. state' \in [Entries -> StateType]
    BY <2>1, <2>2, <1>a DEF StateType
  <2>5. UNCHANGED <<current, entries, valid, dropping, flights, call>>
    BY <1>6 DEF Publish, registryVars
  <2> QED
    BY <2>1, <2>2, <2>3, <2>4, <2>5, <1>a, <1>b DEF TypeInv
<1>7. CASE Invalidate
  BY <1>7, <1>a, <1>b DEF Invalidate, registryVars, flightVars, IInv, TypeInv
<1>8. CASE Forget
  <2>1. state' \in [Entries -> StateType]
    BY <1>8, <1>a DEF Forget, StateType
  <2>2. flight' \in [Flights -> FlightType]
    <3>1. ASSUME NEW g \in Flights
          PROVE  [flight[g] EXCEPT !.cancel = @ \/ g = state[dropping].flight] \in FlightType
      <4>1. flight[g] \in FlightType
        BY <1>a
      <4>2. (flight[g].cancel \/ g = state[dropping].flight) \in BOOLEAN
        OBVIOUS
      <4> QED
        BY <4>1, <4>2, FlightRecords
    <3>2. flight' = [g \in Flights |->
                      [flight[g] EXCEPT !.cancel = @ \/ g = state[dropping].flight]]
      BY <1>8 DEF Forget
    <3> QED
      BY <3>1, <3>2
  <2> QED
    BY <1>8, <2>1, <2>2, <1>a, <1>b DEF Forget, TypeInv
<1>9. CASE Revoke
  BY <1>9, <1>a, <1>b DEF Revoke, registryVars, flightVars, IInv, TypeInv
<1>10. CASE UNCHANGED vars
  BY <1>10, <1>a, <1>b DEF vars, registryVars, flightVars, IInv, TypeInv
<1>11. ASSUME NEW f \in Flights, RunOpener(f) \/ OpenerReturns(f) PROVE TypeInv'
  BY <1>11, OpenerStep, <1>a, <1>b DEF TypeInv, registryVars
<1> QED
  BY <1>1, <1>2, <1>3, <1>4, <1>5, <1>6, <1>7, <1>8, <1>9, <1>10, <1>11 DEF Next,
     CallerNext, Quiet

\* Every step keeps what a request waits for.
LEMMA CallKept == IInv /\ [Next]_vars => CallInv'
<1> SUFFICES ASSUME IInv, [Next]_vars PROVE CallInv'
  OBVIOUS
<1>a. /\ call \in [Callers -> CallType] /\ flight \in [Flights -> FlightType]
      /\ state \in [Entries -> StateType] /\ valid \in [Entries -> BOOLEAN]
      /\ entries \in 0 .. MaxEntries /\ flights \in 0 .. MaxFlights
      /\ current \in 0 .. entries /\ dropping \in {0, current} /\ accepted \subseteq 1 .. flights
      /\ Entries = 1 .. MaxEntries /\ Flights = 1 .. MaxFlights
      /\ MaxEntries \in Nat /\ MaxFlights \in Nat /\ entries \in Nat /\ flights \in Nat
  BY BoundsAssumption DEF IInv, TypeInv, Entries, Flights
<1>b. UNCHANGED <<entries, flights>> =>
        /\ CallType' = CallType /\ FlightType' = FlightType /\ StateType' = StateType
  BY DEF CallType, FlightType, StateType
<1>1. ASSUME NEW c \in Callers, Quiet(c) PROVE CallInv'
  <2>1. UNCHANGED <<registryVars, state, flightVars, accepted>>
    BY <1>1, QuietStep
  <2>2. PICK next : call' = [call EXCEPT ![c] = next] /\ QuietTo(c, next)
    BY <1>1, QuietStep
  <2>3. ASSUME NEW d \in Callers PROVE RequestInv(d)'
    <3>1. RequestInv(d)
      BY DEF IInv, CallInv
    <3>2. CASE d = c
      BY <2>1, <2>2, <3>1, <3>2, <1>a DEF RequestInv, QuietTo, At, Waits, flightVars
    <3>3. CASE d # c
      BY <2>1, <2>2, <3>1, <3>3, <1>a DEF RequestInv, At, flightVars
    <3> QED
      BY <3>2, <3>3
  <2> QED
    BY <2>3 DEF CallInv
<1>2. ASSUME NEW c \in Callers, Open(c) PROVE CallInv'
  BY <1>2, <1>a DEF Open, registryVars, flightVars, IInv, CallInv, RequestInv,
     FlightInv, CallType, FlightType, At, NoCall
<1>3. ASSUME NEW c \in Callers, Reject(c) PROVE CallInv'
  <2>1. /\ \/ call' = [call EXCEPT ![c] = Failed(call[c])]
           \/ call[c].attempt < 2 /\ call' = [call EXCEPT ![c].pc = "check"]
        /\ call[c].pc = "sent" /\ flight' = flight
    BY <1>3 DEF Reject, At, flightVars
  <2>2. ASSUME NEW d \in Callers PROVE RequestInv(d)'
    <3>1. RequestInv(d)
      BY DEF IInv, CallInv
    <3>2. CASE call' = [call EXCEPT ![c] = Failed(call[c])]
      BY <2>1, <3>1, <3>2, <1>a DEF RequestInv, At, Failed, NoCall
    <3>3. CASE call[c].attempt < 2 /\ call' = [call EXCEPT ![c].pc = "check"]
      BY <2>1, <3>1, <3>3, <1>a DEF RequestInv, At
    <3> QED
      BY <2>1, <3>2, <3>3
  <2> QED
    BY <2>2 DEF CallInv
<1>4. ASSUME NEW c \in Callers, Enter(c) PROVE CallInv'
  <2> DEFINE e == call[c].entry
             f == IF Existing(e) # 0 THEN Existing(e) ELSE flights + 1
  <2>1. /\ f \in Flights /\ call[c].pc = "enter"
        /\ flight' = [flight EXCEPT ![f] = Joined(flight[f], e)]
        /\ call' = [call EXCEPT ![c].pc = "wait", ![c].flight = f]
    BY <1>4 DEF Enter, At
  <2>2. e \in Entries /\ e # 0
    BY <2>1, <1>a DEF IInv, CallInv, RequestInv, At, CallType
  <2>3. flight[f].entry = e \/ f > flights
    <3>1. CASE Existing(e) # 0
      <4>1. f = state[e].flight /\ f # 0
        BY <3>1 DEF Existing
      <4>2. EntryInv(e)
        BY <2>2 DEF IInv, FlightInv
      <4> HIDE DEF f
      <4> QED
        BY <4>1, <4>2 DEF EntryInv
    <3>2. CASE Existing(e) = 0
      BY <3>2, <1>a
    <3> QED
      BY <3>1, <3>2
  <2>4. ASSUME NEW d \in Callers PROVE RequestInv(d)'
    <3>1. RequestInv(d) /\ call[d].flight \in 0 .. flights /\ f # 0
      BY <2>1, <1>a DEF IInv, CallInv, CallType
    <3>2. CASE d = c
      BY <2>1, <2>2, <3>1, <3>2, <1>a DEF RequestInv, At, FlightType, Joined
    <3>3. CASE d # c
      <4>1. call'[d] = call[d]
        BY <2>1, <3>3, <1>a
      <4>2. call[d].flight # 0 => flight'[call[d].flight].entry = flight[call[d].flight].entry
        BY <2>1, <2>3, <3>1, <1>a DEF FlightType, Joined
      <4> QED
        BY <3>1, <4>1, <4>2 DEF RequestInv, At
    <3> QED
      BY <3>2, <3>3
  <2> QED
    BY <2>4 DEF CallInv
<1>5. ASSUME NEW c \in Callers, Leave(c) PROVE CallInv'
  <2> DEFINE f == call[c].flight
             request == [call[c] EXCEPT !.flight = 0]
  <2>1. /\ flight' = [flight EXCEPT ![f] = Left(flight[f], LastWaiter(f))]
        /\ call' = [call EXCEPT ![c] = IF request.token # 0 THEN Again(request, request.token)
                                       ELSE Failed(request)]
        /\ At(c, "leave")
    BY <1>5 DEF Leave
  <2>2. \A g \in Flights : flight'[g].entry = flight[g].entry
    BY <2>1, <1>a DEF Left, FlightType
  <2>3. ASSUME NEW d \in Callers PROVE RequestInv(d)'
    <3>1. RequestInv(d) /\ call[d].flight \in 0 .. flights
      BY <1>a DEF IInv, CallInv, CallType
    <3>2. CASE d = c
      <4>1. /\ call'[c].pc \in {"request", "failed"} /\ call'[c].flight = 0
            /\ call'[c].entry = call[c].entry
        BY <2>1, <1>a DEF Again, Failed, NoCall, CallType
      <4> QED
        BY <2>1, <3>1, <3>2, <4>1 DEF RequestInv, At
    <3>3. CASE d # c
      BY <2>1, <2>2, <3>1, <3>3, <1>a DEF RequestInv, At
    <3> QED
      BY <3>2, <3>3
  <2> QED
    BY <2>3 DEF CallInv
<1>6. ASSUME NEW f \in Flights, Publish(f) PROVE CallInv'
  BY <1>6, <1>a DEF Publish, Running, MayStore, Clear, registryVars, flightVars, IInv,
     CallInv, RequestInv, FlightInv, CallType, FlightType, At, NoCall
<1>7. CASE Invalidate
  BY <1>7, <1>a DEF Invalidate, registryVars, flightVars, IInv, CallInv, RequestInv,
     FlightInv, CallType, FlightType, At, NoCall
<1>8. CASE Forget
  BY <1>8, <1>a DEF Forget, registryVars, flightVars, IInv, CallInv, RequestInv,
     FlightInv, CallType, FlightType, At, NoCall
<1>9. CASE Revoke
  BY <1>9, <1>a DEF Revoke, registryVars, flightVars, IInv, CallInv, RequestInv,
     FlightInv, CallType, FlightType, At, NoCall
<1>10. CASE UNCHANGED vars
  BY <1>10, <1>a DEF vars, registryVars, flightVars, IInv, CallInv, RequestInv,
     FlightInv, CallType, FlightType, At, NoCall
<1>11. ASSUME NEW f \in Flights, RunOpener(f) \/ OpenerReturns(f) PROVE CallInv'
  <2>1. call' = call /\ \A g \in Flights : flight'[g].entry = flight[g].entry
    BY <1>11, OpenerStep
  <2>2. ASSUME NEW d \in Callers PROVE RequestInv(d)'
    <3>1. RequestInv(d) /\ call[d].flight \in 0 .. flights
      BY <1>a DEF IInv, CallInv, CallType
    <3> QED
      BY <2>1, <3>1, <1>a DEF RequestInv, At
  <2> QED
    BY <2>2 DEF CallInv
<1> QED
  BY <1>1, <1>2, <1>3, <1>4, <1>5, <1>6, <1>7, <1>8, <1>9, <1>10, <1>11 DEF Next,
     CallerNext, Quiet

\* Every step keeps the flights of the entries.
LEMMA FlightKept == IInv /\ [Next]_vars => FlightInv'
<1> SUFFICES ASSUME IInv, [Next]_vars PROVE FlightInv'
  OBVIOUS
<1>a. /\ call \in [Callers -> CallType] /\ flight \in [Flights -> FlightType]
      /\ state \in [Entries -> StateType] /\ valid \in [Entries -> BOOLEAN]
      /\ entries \in 0 .. MaxEntries /\ flights \in 0 .. MaxFlights
      /\ current \in 0 .. entries /\ dropping \in {0, current} /\ accepted \subseteq 1 .. flights
      /\ Entries = 1 .. MaxEntries /\ Flights = 1 .. MaxFlights
      /\ MaxEntries \in Nat /\ MaxFlights \in Nat /\ entries \in Nat /\ flights \in Nat
  BY BoundsAssumption DEF IInv, TypeInv, Entries, Flights
<1>b. UNCHANGED <<entries, flights>> =>
        /\ CallType' = CallType /\ FlightType' = FlightType /\ StateType' = StateType
  BY DEF CallType, FlightType, StateType
<1>1. ASSUME NEW c \in Callers, Quiet(c) PROVE FlightInv'
  <2>1. UNCHANGED <<registryVars, state, flightVars, accepted>>
    BY <1>1, QuietStep
  <2>2. PICK next : call' = [call EXCEPT ![c] = next] /\ QuietTo(c, next)
    BY <1>1, QuietStep
  <2> QED
    BY <2>1, <2>2, <1>a DEF IInv, FlightInv, EntryInv, RunInv, Running, registryVars,
       flightVars
<1>2. ASSUME NEW c \in Callers, Open(c) PROVE FlightInv'
  <2>1. /\ UNCHANGED <<dropping, state, flights, flight>> /\ dropping = 0
    BY <1>2 DEF Open, flightVars
  <2> QED
    BY <2>1, <1>a DEF IInv, FlightInv, EntryInv, RunInv, Running
<1>3. ASSUME NEW c \in Callers, Reject(c) PROVE FlightInv'
  <2> DEFINE e == call[c].entry
  <2>1. /\ UNCHANGED <<registryVars, flightVars>>
        /\ state' = [state EXCEPT ![e].token = IF @ = call[c].token THEN 0 ELSE @]
    BY <1>3 DEF Reject
  <2>2. \A x \in Entries : state'[x].flight = state[x].flight
    BY <2>1, <1>a DEF StateType
  <2>3. \A f \in Flights : f <= flights => flight[f].entry \in Entries
    BY <1>a DEF IInv, FlightInv, RunInv, FlightType
  <2> QED
    BY <2>1, <2>2, <2>3, <1>a DEF IInv, FlightInv, EntryInv, RunInv, Running,
       registryVars, flightVars
<1>4. ASSUME NEW c \in Callers, Enter(c) PROVE FlightInv'
  <2> DEFINE e == call[c].entry
             f == IF Existing(e) # 0 THEN Existing(e) ELSE flights + 1
  <2>1. /\ f \in Flights /\ flights' = IF Existing(e) # 0 THEN flights ELSE f
        /\ flight' = [flight EXCEPT ![f] = Joined(flight[f], e)]
        /\ state' = [state EXCEPT ![e] = [token |-> 0, flight |-> f]]
        /\ UNCHANGED registryVars /\ At(c, "enter")
    BY <1>4 DEF Enter
  <2>2. e \in Entries /\ e # 0
    BY <2>1, <1>a DEF IInv, CallInv, RequestInv, At, CallType
  <2>3. \A g \in Flights : /\ flight'[g].entry = IF g = f THEN e ELSE flight[g].entry
                           /\ flight'[g].cancel = flight[g].cancel
                           /\ flight'[g].result = flight[g].result
    BY <2>1, <1>a DEF Joined, FlightType
  <2>4. \A x \in Entries : state'[x].flight = IF x = e THEN f ELSE state[x].flight
    BY <2>1, <2>2, <1>a
  <2>5. f \in 1 .. flights' /\ flights \in 0 .. flights' /\ flights' \in Nat
        /\ \/ flights' = flights /\ f <= flights
           \/ flights' = flights + 1 /\ f = flights'
    <3>1. state[e].flight \in 0 .. flights
      BY <2>2, <1>a DEF StateType
    <3>2. CASE Existing(e) # 0
      <4>1. Existing(e) = state[e].flight
        BY <3>2 DEF Existing
      <4> QED
        BY <2>1, <3>1, <3>2, <4>1, <1>a
    <3>3. CASE Existing(e) = 0
      BY <2>1, <3>3, <1>a
    <3> QED
      BY <3>2, <3>3
  <2>6. ~flight[f].cancel /\ flight[f].result = "none" /\ (f <= flights => flight[f].entry = e)
    <3>1. CASE Existing(e) # 0
      <4>1. f = state[e].flight /\ f # 0 /\ ~flight[f].cancel
        BY <3>1 DEF Existing
      <4>2. EntryInv(e)
        BY <2>2 DEF IInv, FlightInv
      <4> HIDE DEF f
      <4> QED
        BY <4>1, <4>2 DEF EntryInv, Running
    <3>2. CASE Existing(e) = 0
      BY <2>1, <3>2, <1>a DEF IInv, FlightInv, RunInv
    <3> QED
      BY <3>1, <3>2
  <2>7. ASSUME NEW x \in Entries PROVE EntryInv(x)'
    <3>1. EntryInv(x) /\ state[x].flight \in 0 .. flights
      BY <1>a DEF IInv, FlightInv, StateType
    <3>2. CASE x = e
      BY <2>1, <2>3, <2>4, <2>5, <2>6, <3>2, <1>a DEF EntryInv, Running
    <3>3. CASE x # e
      BY <2>1, <2>3, <2>4, <2>5, <2>6, <3>1, <3>3, <1>a DEF EntryInv, Running
    <3> QED
      BY <3>2, <3>3
  <2>8. ASSUME NEW g \in Flights PROVE RunInv(g)'
    <3>1. RunInv(g) /\ (g <= flights => flight[g].entry \in Entries)
      BY <1>a DEF IInv, FlightInv, RunInv, FlightType
    <3>2. CASE g = f
      BY <2>2, <2>3, <2>4, <2>5, <3>2, <1>a DEF RunInv, Running
    <3>3. CASE g # f
      <4>1. g <= flights /\ Running(g) /\ ~flight[g].cancel => flight[g].entry # e
        <5>1. SUFFICES ASSUME g <= flights, Running(g), ~flight[g].cancel, flight[g].entry = e
                       PROVE FALSE
          OBVIOUS
        <5>2. state[e].flight = g
          BY <3>1, <5>1 DEF RunInv
        <5> QED
          BY <2>1, <3>3, <5>1, <5>2, <1>a DEF Existing
      <4> QED
        BY <2>3, <2>4, <2>5, <3>1, <3>3, <4>1, <1>a DEF RunInv, Running
    <3> QED
      BY <3>2, <3>3
  <2> QED
    BY <2>1, <2>7, <2>8 DEF IInv, FlightInv, registryVars
<1>5. ASSUME NEW c \in Callers, Leave(c) PROVE FlightInv'
  <2> DEFINE f == call[c].flight
  <2>1. /\ flight' = [flight EXCEPT ![f] = Left(flight[f], LastWaiter(f))]
        /\ UNCHANGED <<registryVars, state, flights>>
    BY <1>5 DEF Leave
  <2>2. f \in 1 .. flights
    BY <1>5, <1>a DEF Leave, IInv, CallInv, RequestInv, At, CallType
  <2>3. \A g \in Flights : /\ flight'[g].entry = flight[g].entry
                           /\ ~flight'[g].cancel => ~flight[g].cancel
                           /\ g > flights => flight'[g] = flight[g]
                           /\ flight'[g].result = flight[g].result
    BY <2>1, <2>2, <1>a DEF Left, FlightType
  <2>4. ASSUME NEW x \in Entries PROVE EntryInv(x)'
    <3>1. EntryInv(x) /\ state[x].flight \in 0 .. flights
      BY <1>a DEF IInv, FlightInv, StateType
    <3> QED
      BY <2>1, <2>3, <3>1, <1>a DEF EntryInv, Running
  <2>5. ASSUME NEW g \in Flights PROVE RunInv(g)'
    <3>1. RunInv(g)
      BY DEF IInv, FlightInv
    <3> QED
      BY <2>1, <2>3, <3>1, <1>a DEF RunInv, Running
  <2> QED
    BY <2>1, <2>4, <2>5 DEF IInv, FlightInv, registryVars
<1>6. ASSUME NEW f \in Flights, Publish(f) PROVE FlightInv'
  <2> DEFINE e == flight[f].entry
  <2>1. e \in Entries /\ Running(f) /\ UNCHANGED <<registryVars, flights>>
    BY <1>6, <1>a DEF Publish, Running, IInv, FlightInv, RunInv, FlightType
  <2>2. PICK outcome \in {"token", "error"} :
          /\ flight' = [flight EXCEPT ![f].opener = "none", ![f].result = outcome]
          /\ state' = [state EXCEPT
               ![e].token = IF MayStore(f, e) THEN IF outcome = "token" THEN f ELSE 0 ELSE @,
               ![e].flight = IF Clear(f, e) THEN 0 ELSE @]
    BY <1>6 DEF Publish
  <2>3. \A x \in Entries :
          state'[x].flight = IF x = e /\ state[x].flight = f THEN 0 ELSE state[x].flight
    BY <2>1, <2>2, <1>a DEF StateType, Clear
  <2>4. \A g \in Flights : /\ flight'[g].entry = flight[g].entry
                           /\ flight'[g].cancel = flight[g].cancel
                           /\ flight'[g].result = IF g = f THEN outcome ELSE flight[g].result
    BY <2>2, <1>a DEF FlightType
  <2>5. ASSUME NEW x \in Entries PROVE EntryInv(x)'
    <3>1. EntryInv(x) /\ state[x].flight \in 0 .. flights
      BY <1>a DEF IInv, FlightInv, StateType
    <3> QED
      BY <2>1, <2>3, <2>4, <3>1, <1>a DEF EntryInv, Running
  <2>6. ASSUME NEW g \in Flights PROVE RunInv(g)'
    <3>1. RunInv(g) /\ (g <= flights => flight[g].entry \in Entries)
      BY <1>a DEF IInv, FlightInv, RunInv, FlightType
    <3>2. CASE g = f
      BY <2>1, <2>4, <3>1, <3>2, <1>a DEF RunInv, Running
    <3>3. CASE g # f
      BY <2>1, <2>3, <2>4, <3>1, <3>3, <1>a DEF RunInv, Running
    <3> QED
      BY <3>2, <3>3
  <2> QED
    BY <2>1, <2>5, <2>6 DEF IInv, FlightInv, registryVars
<1>7. CASE Invalidate
  <2>1. UNCHANGED <<state, flights, flight>> /\ dropping' = current /\ ~valid'[current]
    BY <1>7, <1>a DEF Invalidate, flightVars
  <2> QED
    BY <2>1, <1>a DEF IInv, FlightInv, EntryInv, RunInv, Running
<1>8. CASE Forget
  <2>1. /\ dropping \in Entries /\ dropping' = 0 /\ flights' = flights
        /\ state' = [state EXCEPT ![dropping] = [token |-> 0, flight |-> 0]]
    BY <1>8, <1>a DEF Forget
  <2>2. \A g \in Flights : /\ flight'[g].entry = flight[g].entry
                           /\ flight'[g].result = flight[g].result
                           /\ flight'[g].cancel <=>
                                flight[g].cancel \/ g = state[dropping].flight
    <3>1. ASSUME NEW g \in Flights
          PROVE  /\ flight'[g].entry = flight[g].entry
                 /\ flight'[g].result = flight[g].result
                 /\ flight'[g].cancel <=> flight[g].cancel \/ g = state[dropping].flight
      <4>1. flight'[g] = [flight[g] EXCEPT !.cancel = @ \/ g = state[dropping].flight]
        BY <1>8 DEF Forget
      <4>2. flight[g] \in FlightType
        BY <1>a
      <4> QED
        BY <4>1, <4>2 DEF FlightType
    <3> QED
      BY <3>1
  <2>3. \A x \in Entries : state'[x].flight = IF x = dropping THEN 0 ELSE state[x].flight
    BY <2>1, <1>a
  <2>4. \A x \in Entries : state[x].flight \in 0 .. flights
    BY <1>a DEF StateType
  <2>5. ASSUME NEW x \in Entries PROVE EntryInv(x)'
    <3>1. EntryInv(x)
      BY DEF IInv, FlightInv
    <3> QED
      BY <2>1, <2>2, <2>3, <2>4, <3>1, <1>a DEF EntryInv, Running
  <2>6. ASSUME NEW g \in Flights PROVE RunInv(g)'
    <3>1. RunInv(g) /\ (g <= flights => flight[g].entry \in Entries)
      BY <1>a DEF IInv, FlightInv, RunInv, FlightType
    <3>2. CASE g > flights
      BY <2>1, <2>2, <2>4, <3>1, <3>2, <1>a DEF RunInv, Running
    <3>3. CASE g <= flights
      <4>1. SUFFICES ASSUME Running(g), ~flight[g].cancel, g # state[dropping].flight
                     PROVE  state'[flight[g].entry].flight = g
        BY <2>1, <2>2, <3>1, <3>3, <1>a DEF RunInv, Running
      <4> QED
        BY <2>3, <3>1, <3>3, <4>1 DEF RunInv
    <3> QED
      BY <3>2, <3>3, <1>a
  <2> QED
    BY <2>1, <2>5, <2>6 DEF IInv, FlightInv
<1>9. CASE Revoke
  BY <1>9, <1>a DEF Revoke, registryVars, flightVars, IInv, FlightInv, EntryInv,
     RunInv, Running
<1>10. CASE UNCHANGED vars
  BY <1>10, <1>a DEF vars, registryVars, flightVars, IInv, FlightInv, EntryInv,
     RunInv, Running
<1>11. ASSUME NEW f \in Flights, RunOpener(f) \/ OpenerReturns(f) PROVE FlightInv'
  <2>1. /\ UNCHANGED <<registryVars, state, flights>>
        /\ \A g \in Flights : /\ flight'[g].entry = flight[g].entry
                             /\ flight'[g].cancel = flight[g].cancel
                             /\ flight'[g].result = flight[g].result
    BY <1>11, OpenerStep
  <2>2. ASSUME NEW x \in Entries PROVE EntryInv(x)'
    <3>1. EntryInv(x) /\ state[x].flight \in 0 .. flights
      BY <1>a DEF IInv, FlightInv, StateType
    <3> QED
      BY <2>1, <3>1, <1>a DEF EntryInv, Running
  <2>3. ASSUME NEW g \in Flights PROVE RunInv(g)'
    <3>1. RunInv(g)
      BY DEF IInv, FlightInv
    <3> QED
      BY <2>1, <3>1 DEF RunInv, Running
  <2> QED
    BY <2>1, <2>2, <2>3 DEF IInv, FlightInv, registryVars
<1> QED
  BY <1>1, <1>2, <1>3, <1>4, <1>5, <1>6, <1>7, <1>8, <1>9, <1>10, <1>11 DEF Next,
     CallerNext, Quiet

\* Every step counts the waiters.
LEMMA CountKept == IInv /\ [Next]_vars => CountInv'
<1> SUFFICES ASSUME IInv, [Next]_vars PROVE CountInv'
  OBVIOUS
<1>a. /\ call \in [Callers -> CallType] /\ flight \in [Flights -> FlightType]
      /\ state \in [Entries -> StateType] /\ valid \in [Entries -> BOOLEAN]
      /\ entries \in 0 .. MaxEntries /\ flights \in 0 .. MaxFlights
      /\ current \in 0 .. entries /\ dropping \in {0, current} /\ accepted \subseteq 1 .. flights
      /\ Entries = 1 .. MaxEntries /\ Flights = 1 .. MaxFlights
      /\ MaxEntries \in Nat /\ MaxFlights \in Nat /\ entries \in Nat /\ flights \in Nat
  BY BoundsAssumption DEF IInv, TypeInv, Entries, Flights
<1>b. UNCHANGED <<entries, flights>> =>
        /\ CallType' = CallType /\ FlightType' = FlightType /\ StateType' = StateType
  BY DEF CallType, FlightType, StateType
<1>1. ASSUME NEW c \in Callers, Quiet(c) PROVE CountInv'
  <2>1. UNCHANGED <<registryVars, state, flightVars, accepted>>
    BY <1>1, QuietStep
  <2>2. PICK next : call' = [call EXCEPT ![c] = next] /\ QuietTo(c, next)
    BY <1>1, QuietStep
  <2>3. \A g \in Flights : Waiting(g)' = Waiting(g)
    BY <2>1, <2>2, <1>a DEF QuietTo, Waiting, Waits, CallType
  <2>4. \A g \in Flights : flight'[g].waiters = flight[g].waiters
    BY <2>1 DEF flightVars
  <2> QED
    BY <2>3, <2>4 DEF IInv, CountInv
<1>2. ASSUME NEW c \in Callers, Open(c) PROVE CountInv'
  <2>1. \A g \in Flights : Waiting(g)' = Waiting(g)
    BY <1>2, <1>a DEF Open, Waiting, NoCall, At, CallType
  <2>2. \A g \in Flights : flight'[g].waiters = flight[g].waiters
    BY <1>2 DEF Open, flightVars
  <2> QED
    BY <2>1, <2>2 DEF IInv, CountInv
<1>3. ASSUME NEW c \in Callers, Reject(c) PROVE CountInv'
  <2>1. \A g \in Flights : Waiting(g)' = Waiting(g)
    <3>1. call[c].pc = "sent" /\ call[c] \in CallType
      BY <1>3, <1>a DEF Reject, At
    <3>2. \A d \in Callers \ {c} : call'[d] = call[d]
      BY <1>3, <1>a DEF Reject
    <3>3. call'[c] = Failed(call[c]) \/ call'[c] = [call[c] EXCEPT !.pc = "check"]
      BY <1>3, <1>a DEF Reject
    <3>4. call'[c].pc \in {"failed", "check"}
      BY <3>1, <3>3 DEF Failed, NoCall, CallType
    <3> QED
      BY <3>1, <3>2, <3>4 DEF Waiting
  <2>2. \A g \in Flights : flight'[g].waiters = flight[g].waiters
    BY <1>3 DEF Reject, flightVars
  <2> QED
    BY <2>1, <2>2 DEF IInv, CountInv
<1>4. ASSUME NEW c \in Callers, Enter(c) PROVE CountInv'
  <2> DEFINE e == call[c].entry
  <2>1. PICK f \in Flights :
          /\ flight' = [flight EXCEPT ![f] = Joined(flight[f], e)]
          /\ call' = [call EXCEPT ![c].pc = "wait", ![c].flight = f]
    BY <1>4 DEF Enter
  <2>2. At(c, "enter") /\ call'[c].pc = "wait" /\ call'[c].flight = f
        /\ \A d \in Callers \ {c} : call'[d] = call[d]
    BY <1>4, <2>1, <1>a DEF Enter, CallType
  <2>3. Waiting(f)' = Waiting(f) \cup {c} /\ c \notin Waiting(f)
    BY <2>2 DEF Waiting, At
  <2>4. \A g \in Flights \ {f} : Waiting(g)' = Waiting(g)
    BY <2>2 DEF Waiting, At
  <2>5. \A g \in Flights :
          flight'[g].waiters = IF g = f THEN flight[g].waiters + 1 ELSE flight[g].waiters
    BY <2>1, <1>a DEF Joined, FlightType
  <2>6. Cardinality(Waiting(f)') = Cardinality(Waiting(f)) + 1
    BY <2>3, WaitingFinite, FS_AddElement
  <2>7. ASSUME NEW g \in Flights PROVE flight'[g].waiters = Cardinality(Waiting(g)')
    <3>1. flight[g].waiters = Cardinality(Waiting(g))
      BY DEF IInv, CountInv
    <3>2. CASE g = f
      BY <2>5, <2>6, <3>1, <3>2
    <3>3. CASE g # f
      BY <2>4, <2>5, <3>1, <3>3
    <3> QED
      BY <3>2, <3>3
  <2> QED
    BY <2>7 DEF CountInv
<1>5. ASSUME NEW c \in Callers, Leave(c) PROVE CountInv'
  <2> DEFINE request == [call[c] EXCEPT !.flight = 0]
  <2>1. PICK f \in Flights :
          /\ f = call[c].flight
          /\ flight' = [flight EXCEPT ![f] = Left(flight[f], LastWaiter(f))]
    <3>1. call[c].flight \in Flights
      BY <1>5, <1>a DEF Leave, IInv, CallInv, RequestInv, At, CallType
    <3>2. flight' = [flight EXCEPT ![call[c].flight] =
                       Left(flight[call[c].flight], LastWaiter(call[c].flight))]
      BY <1>5 DEF Leave
    <3> QED
      BY <3>1, <3>2
  <2>2. /\ call' = [call EXCEPT ![c] = IF request.token # 0 THEN Again(request, request.token)
                                       ELSE Failed(request)]
        /\ At(c, "leave")
    BY <1>5 DEF Leave
  <2>3. call'[c].pc \notin {"wait", "leave"} /\ \A d \in Callers \ {c} : call'[d] = call[d]
    BY <2>2, <1>a DEF Again, Failed, NoCall, CallType
  <2>4. Waiting(f)' = Waiting(f) \ {c} /\ c \in Waiting(f)
    BY <2>1, <2>2, <2>3 DEF Waiting, At
  <2>5. \A g \in Flights \ {f} : Waiting(g)' = Waiting(g)
    BY <2>1, <2>3 DEF Waiting, At
  <2>6. \A g \in Flights :
          flight'[g].waiters = IF g = f THEN flight[g].waiters - 1 ELSE flight[g].waiters
    BY <2>1, <1>a DEF Left, FlightType
  <2>7. Cardinality(Waiting(f)') = Cardinality(Waiting(f)) - 1
    BY <2>4, WaitingFinite, FS_RemoveElement
  <2>8. ASSUME NEW g \in Flights PROVE flight'[g].waiters = Cardinality(Waiting(g)')
    <3>1. flight[g].waiters = Cardinality(Waiting(g))
      BY DEF IInv, CountInv
    <3>2. CASE g = f
      BY <2>6, <2>7, <3>1, <3>2
    <3>3. CASE g # f
      BY <2>5, <2>6, <3>1, <3>3
    <3> QED
      BY <3>2, <3>3
  <2> QED
    BY <2>8 DEF CountInv
<1>6. ASSUME NEW f \in Flights, Publish(f) PROVE CountInv'
  <2>1. \A g \in Flights : Waiting(g)' = Waiting(g)
    BY <1>6 DEF Publish, Waiting
  <2>2. \A g \in Flights : flight'[g].waiters = flight[g].waiters
    BY <1>6, <1>a DEF Publish, FlightType
  <2> QED
    BY <2>1, <2>2 DEF IInv, CountInv
<1>7. CASE Invalidate
  <2>1. \A g \in Flights : Waiting(g)' = Waiting(g)
    BY <1>7 DEF Invalidate, Waiting
  <2>2. \A g \in Flights : flight'[g].waiters = flight[g].waiters
    BY <1>7 DEF Invalidate, flightVars
  <2> QED
    BY <2>1, <2>2 DEF IInv, CountInv
<1>8. CASE Forget
  <2>1. \A g \in Flights : Waiting(g)' = Waiting(g)
    BY <1>8 DEF Forget, Waiting
  <2>2. \A g \in Flights : flight'[g].waiters = flight[g].waiters
    BY <1>8, <1>a DEF Forget, FlightType
  <2> QED
    BY <2>1, <2>2 DEF IInv, CountInv
<1>9. CASE Revoke
  <2>1. \A g \in Flights : Waiting(g)' = Waiting(g)
    BY <1>9 DEF Revoke, Waiting
  <2>2. \A g \in Flights : flight'[g].waiters = flight[g].waiters
    BY <1>9 DEF Revoke, flightVars
  <2> QED
    BY <2>1, <2>2 DEF IInv, CountInv
<1>10. CASE UNCHANGED vars
  <2>1. \A g \in Flights : Waiting(g)' = Waiting(g)
    BY <1>10 DEF vars, Waiting
  <2>2. \A g \in Flights : flight'[g].waiters = flight[g].waiters
    BY <1>10 DEF vars, flightVars
  <2> QED
    BY <2>1, <2>2 DEF IInv, CountInv
<1>11. ASSUME NEW f \in Flights, RunOpener(f) \/ OpenerReturns(f) PROVE CountInv'
  <2>1. \A g \in Flights : Waiting(g)' = Waiting(g)
    BY <1>11, OpenerStep DEF Waiting
  <2>2. \A g \in Flights : flight'[g].waiters = flight[g].waiters
    BY <1>11, OpenerStep
  <2> QED
    BY <2>1, <2>2 DEF IInv, CountInv
<1> QED
  BY <1>1, <1>2, <1>3, <1>4, <1>5, <1>6, <1>7, <1>8, <1>9, <1>10, <1>11 DEF Next,
     CallerNext, Quiet

\* No step cancels a sign-in that another request waits for.
LEMMA SharedKept == IInv /\ [Next]_vars => SharedSignIn'
<1> SUFFICES ASSUME IInv, [Next]_vars PROVE SharedSignIn'
  OBVIOUS
<1>a. /\ call \in [Callers -> CallType] /\ flight \in [Flights -> FlightType]
      /\ state \in [Entries -> StateType] /\ valid \in [Entries -> BOOLEAN]
      /\ entries \in 0 .. MaxEntries /\ flights \in 0 .. MaxFlights
      /\ current \in 0 .. entries /\ dropping \in {0, current} /\ accepted \subseteq 1 .. flights
      /\ Entries = 1 .. MaxEntries /\ Flights = 1 .. MaxFlights
      /\ MaxEntries \in Nat /\ MaxFlights \in Nat /\ entries \in Nat /\ flights \in Nat
  BY BoundsAssumption DEF IInv, TypeInv, Entries, Flights
<1>b. UNCHANGED <<entries, flights>> =>
        /\ CallType' = CallType /\ FlightType' = FlightType /\ StateType' = StateType
  BY DEF CallType, FlightType, StateType
<1>1. ASSUME NEW c \in Callers, Quiet(c) PROVE SharedSignIn'
  <2>1. UNCHANGED <<registryVars, state, flightVars, accepted>>
    BY <1>1, QuietStep
  <2>2. PICK next : call' = [call EXCEPT ![c] = next] /\ QuietTo(c, next)
    BY <1>1, QuietStep
  <2>3. ASSUME NEW d \in Callers, At(d, "wait")', valid[call'[d].entry]
        PROVE  ~flight[call'[d].flight].cancel
    <3>1. At(d, "wait") /\ call'[d].entry = call[d].entry /\ call'[d].flight = call[d].flight
      BY <2>2, <2>3, <1>a DEF QuietTo, At
    <3> QED
      BY <2>3, <3>1 DEF IInv, SharedSignIn
  <2> QED
    BY <2>1, <2>3 DEF SharedSignIn, registryVars, flightVars
<1>2. ASSUME NEW c \in Callers, Open(c) PROVE SharedSignIn'
  <2>1. /\ flight' = flight /\ call'[c].pc = "open"
        /\ \A d \in Callers \ {c} : call'[d] = call[d]
        /\ \A x \in 1 .. entries : valid'[x] = valid[x]
    <3>1. CASE current # 0
      BY <1>2, <3>1, <1>a DEF Open, NoCall, flightVars
    <3>2. CASE current = 0
      <4>1. \A x \in 1 .. entries : x # entries + 1 /\ x \in Entries
        BY <1>a
      <4>2. /\ valid' = [valid EXCEPT ![entries + 1] = TRUE]
            /\ call' = [call EXCEPT ![c] = [NoCall EXCEPT !.pc = "open", !.entry = entries + 1]]
            /\ flight' = flight
        BY <1>2, <3>2 DEF Open, flightVars
      <4>3. \A x \in 1 .. entries : valid'[x] = valid[x]
        BY <4>1, <4>2, <1>a
      <4> QED
        BY <4>2, <4>3, <1>a DEF NoCall
    <3> QED
      BY <3>1, <3>2
  <2>2. ASSUME NEW d \in Callers, At(d, "wait")', valid'[call'[d].entry]
        PROVE  ~flight[call'[d].flight].cancel
    <3>1. At(d, "wait") /\ call'[d] = call[d]
      BY <2>1, <2>2 DEF At
    <3>2. call[d].entry \in 1 .. entries
      BY <3>1, <1>a DEF IInv, CallInv, RequestInv, At, CallType
    <3> QED
      BY <2>1, <2>2, <3>1, <3>2 DEF IInv, SharedSignIn
  <2> QED
    BY <2>1, <2>2 DEF SharedSignIn
<1>3. ASSUME NEW c \in Callers, Reject(c) PROVE SharedSignIn'
  <2>1. /\ UNCHANGED <<registryVars, flightVars>> /\ call'[c].pc # "wait"
        /\ \A d \in Callers \ {c} : call'[d] = call[d]
    BY <1>3, <1>a DEF Reject, Failed, NoCall, CallType
  <2> QED
    BY <2>1 DEF IInv, SharedSignIn, At, registryVars, flightVars
<1>4. ASSUME NEW c \in Callers, Enter(c) PROVE SharedSignIn'
  <2> DEFINE e == call[c].entry
  <2>1. PICK f \in Flights :
          /\ f = IF Existing(e) # 0 THEN Existing(e) ELSE flights + 1
          /\ UNCHANGED registryVars
          /\ flight' = [flight EXCEPT ![f] = Joined(flight[f], e)]
          /\ call' = [call EXCEPT ![c].pc = "wait", ![c].flight = f]
    BY <1>4 DEF Enter
  <2>2. ~flight[f].cancel
    <3>1. CASE Existing(e) # 0
      BY <2>1, <3>1 DEF Existing
    <3>2. CASE Existing(e) = 0
      BY <2>1, <3>2, <1>a DEF IInv, FlightInv, RunInv
    <3> QED
      BY <3>1, <3>2
  <2>3. \A g \in Flights : flight'[g].cancel = flight[g].cancel
    BY <2>1, <1>a DEF Joined, FlightType
  <2>4. ASSUME NEW d \in Callers, At(d, "wait")', valid[call'[d].entry]
        PROVE  ~flight'[call'[d].flight].cancel
    <3>1. CASE d = c
      BY <2>1, <2>2, <2>3, <3>1, <1>a DEF CallType
    <3>2. CASE d # c
      <4>1. call'[d] = call[d] /\ At(d, "wait")
        BY <2>1, <2>4, <3>2, <1>a DEF At
      <4>2. call[d].flight \in Flights
        BY <4>1, <1>a DEF IInv, CallInv, RequestInv, At, CallType
      <4> QED
        BY <2>3, <2>4, <4>1, <4>2 DEF IInv, SharedSignIn
    <3> QED
      BY <3>1, <3>2
  <2> QED
    BY <2>1, <2>4 DEF SharedSignIn, registryVars
<1>5. ASSUME NEW c \in Callers, Leave(c) PROVE SharedSignIn'
  <2> DEFINE f == call[c].flight
             request == [call[c] EXCEPT !.flight = 0]
  <2>1. /\ flight' = [flight EXCEPT ![f] = Left(flight[f], LastWaiter(f))]
        /\ call' = [call EXCEPT ![c] = IF request.token # 0 THEN Again(request, request.token)
                                       ELSE Failed(request)]
        /\ At(c, "leave") /\ UNCHANGED registryVars
    BY <1>5 DEF Leave
  <2>2. f \in Flights
    BY <2>1, <1>a DEF IInv, CallInv, RequestInv, At, CallType
  <2>3. call'[c].pc # "wait" /\ \A d \in Callers \ {c} : call'[d] = call[d]
    BY <2>1, <1>a DEF Again, Failed, NoCall, CallType
  <2>4. ASSUME NEW d \in Callers, At(d, "wait")', valid[call'[d].entry]
        PROVE  ~flight'[call'[d].flight].cancel
    <3>1. d # c /\ At(d, "wait") /\ call'[d] = call[d]
      BY <2>3, <2>4 DEF At
    <3>2. ~flight[call[d].flight].cancel /\ call[d].flight \in Flights
      BY <2>4, <3>1, <1>a DEF IInv, SharedSignIn, CallInv, RequestInv, At, CallType
    <3>3. CASE call[d].flight = f
      <4>1. {c, d} \subseteq Waiting(f)
        BY <2>1, <3>1, <3>3 DEF Waiting, At
      <4>2. Cardinality(Waiting(f) \ {c}) = Cardinality(Waiting(f)) - 1
        BY <4>1, WaitingFinite, FS_RemoveElement
      <4>3. Cardinality(Waiting(f) \ {c}) # 0
        <5>1. IsFiniteSet(Waiting(f) \ {c}) /\ Waiting(f) \ {c} # {}
          BY <3>1, <4>1, WaitingFinite, FS_Subset
        <5> QED
          BY <5>1, FS_EmptySet
      <4>4. ~LastWaiter(f)
        BY <2>2, <4>2, <4>3 DEF LastWaiter, IInv, CountInv
      <4> QED
        BY <2>1, <2>2, <3>1, <3>2, <3>3, <4>4, <1>a DEF Left, FlightType
    <3>4. CASE call[d].flight # f
      BY <2>1, <2>2, <3>1, <3>2, <3>4, <1>a
    <3> QED
      BY <3>3, <3>4
  <2> QED
    BY <2>1, <2>4 DEF SharedSignIn, registryVars
<1>6. ASSUME NEW f \in Flights, Publish(f) PROVE SharedSignIn'
  <2>1. UNCHANGED <<registryVars, call>> /\ \A g \in Flights : flight'[g].cancel = flight[g].cancel
    BY <1>6, <1>a DEF Publish, FlightType
  <2>2. \A d \in Callers : At(d, "wait") => call[d].flight \in Flights
    BY <1>a DEF IInv, CallInv, RequestInv, At, CallType
  <2> QED
    BY <2>1, <2>2 DEF IInv, SharedSignIn, At, registryVars
<1>7. CASE Invalidate
  <2>1. UNCHANGED <<flight, call>> /\ \A x \in Entries : valid'[x] => valid[x]
    BY <1>7, <1>a DEF Invalidate, flightVars
  <2>2. \A d \in Callers : At(d, "wait") => call[d].entry \in Entries
    BY <1>a DEF IInv, CallInv, RequestInv, At, CallType
  <2> QED
    BY <2>1, <2>2 DEF IInv, SharedSignIn, At
<1>8. CASE Forget
  <2>1. /\ UNCHANGED <<valid, call>> /\ dropping \in Entries /\ ~valid[dropping]
        /\ \A g \in Flights : flight'[g].cancel <=>
                                flight[g].cancel \/ g = state[dropping].flight
    <3>1. dropping \in Entries /\ ~valid[dropping] /\ UNCHANGED <<valid, call>>
      BY <1>8, <1>a DEF Forget, IInv, FlightInv
    <3>2. \A g \in Flights : flight'[g].cancel <=>
                               flight[g].cancel \/ g = state[dropping].flight
      BY <1>8, <1>a DEF Forget, FlightType
    <3> QED
      BY <3>1, <3>2
  <2>2. ASSUME NEW d \in Callers, At(d, "wait"), valid[call[d].entry]
        PROVE  ~flight'[call[d].flight].cancel
    <3>1. /\ call[d].flight \in Flights /\ flight[call[d].flight].entry = call[d].entry
          /\ call[d].flight # 0
      BY <2>2, <1>a DEF IInv, CallInv, RequestInv, At, CallType
    <3>2. call[d].flight # state[dropping].flight
      BY <2>1, <2>2, <3>1 DEF IInv, FlightInv, EntryInv
    <3> QED
      BY <2>1, <2>2, <3>1, <3>2 DEF IInv, SharedSignIn
  <2> QED
    BY <2>1, <2>2 DEF SharedSignIn, At
<1>9. CASE Revoke
  BY <1>9, <1>a DEF Revoke, registryVars, flightVars, IInv, SharedSignIn, At
<1>10. CASE UNCHANGED vars
  BY <1>10, <1>a DEF vars, registryVars, flightVars, IInv, SharedSignIn, At
<1>11. ASSUME NEW f \in Flights, RunOpener(f) \/ OpenerReturns(f) PROVE SharedSignIn'
  <2>1. UNCHANGED <<registryVars, call>> /\ \A g \in Flights : flight'[g].cancel = flight[g].cancel
    BY <1>11, OpenerStep
  <2>2. \A d \in Callers : At(d, "wait") => call[d].flight \in Flights
    BY <1>a DEF IInv, CallInv, RequestInv, At, CallType
  <2> QED
    BY <2>1, <2>2 DEF IInv, SharedSignIn, At, registryVars
<1> QED
  BY <1>1, <1>2, <1>3, <1>4, <1>5, <1>6, <1>7, <1>8, <1>9, <1>10, <1>11 DEF Next,
     CallerNext, Quiet

\* No step brings a token back.
LEMMA ForgottenKept == IInv /\ [Next]_vars => SignedOutForgets'
<1> SUFFICES ASSUME IInv, [Next]_vars PROVE SignedOutForgets'
  OBVIOUS
<1>a. /\ call \in [Callers -> CallType] /\ flight \in [Flights -> FlightType]
      /\ state \in [Entries -> StateType] /\ valid \in [Entries -> BOOLEAN]
      /\ entries \in 0 .. MaxEntries /\ flights \in 0 .. MaxFlights
      /\ current \in 0 .. entries /\ dropping \in {0, current} /\ accepted \subseteq 1 .. flights
      /\ Entries = 1 .. MaxEntries /\ Flights = 1 .. MaxFlights
      /\ MaxEntries \in Nat /\ MaxFlights \in Nat /\ entries \in Nat /\ flights \in Nat
  BY BoundsAssumption DEF IInv, TypeInv, Entries, Flights
<1>b. UNCHANGED <<entries, flights>> =>
        /\ CallType' = CallType /\ FlightType' = FlightType /\ StateType' = StateType
  BY DEF CallType, FlightType, StateType
<1>1. ASSUME NEW c \in Callers, Quiet(c) PROVE SignedOutForgets'
  <2> QED
    BY <1>1, QuietStep DEF registryVars, IInv, SignedOutForgets
<1>2. ASSUME NEW c \in Callers, Open(c) PROVE SignedOutForgets'
  BY <1>2, <1>a DEF Open, registryVars, flightVars, IInv, SignedOutForgets, StateType
<1>3. ASSUME NEW c \in Callers, Reject(c) PROVE SignedOutForgets'
  BY <1>3, <1>a DEF Reject, registryVars, flightVars, IInv, SignedOutForgets,
     StateType
<1>4. ASSUME NEW c \in Callers, Enter(c) PROVE SignedOutForgets'
  BY <1>4, <1>a DEF Enter, registryVars, flightVars, IInv, SignedOutForgets, StateType
<1>5. ASSUME NEW c \in Callers, Leave(c) PROVE SignedOutForgets'
  BY <1>5, <1>a DEF Leave, registryVars, flightVars, IInv, SignedOutForgets, StateType
<1>6. ASSUME NEW f \in Flights, Publish(f) PROVE SignedOutForgets'
  BY <1>6, <1>a DEF Publish, Running, MayStore, Clear, registryVars, flightVars, IInv,
     SignedOutForgets, StateType
<1>7. CASE Invalidate
  BY <1>7, <1>a DEF Invalidate, registryVars, flightVars, IInv, SignedOutForgets,
     StateType
<1>8. CASE Forget
  BY <1>8, <1>a DEF Forget, registryVars, flightVars, IInv, SignedOutForgets,
     StateType
<1>9. CASE Revoke
  BY <1>9, <1>a DEF Revoke, registryVars, flightVars, IInv, SignedOutForgets,
     StateType
<1>10. CASE UNCHANGED vars
  BY <1>10, <1>a DEF vars, registryVars, flightVars, IInv, SignedOutForgets, StateType
<1>11. ASSUME NEW f \in Flights, RunOpener(f) \/ OpenerReturns(f) PROVE SignedOutForgets'
  BY <1>11, OpenerStep DEF registryVars, IInv, SignedOutForgets
<1> QED
  BY <1>1, <1>2, <1>3, <1>4, <1>5, <1>6, <1>7, <1>8, <1>9, <1>10, <1>11 DEF Next,
     CallerNext, Quiet

\* The inductive invariant.
LEMMA Inductive == Spec => []IInv
<1>1. IInv /\ [Next]_vars => IInv'
  BY TypeKept, CallKept, FlightKept, CountKept, SharedKept, ForgottenKept DEF IInv
<1> QED
  BY <1>1, InitHolds, PTL DEF Spec

\* The requests of a connection share one browser sign-in, which knows its
\* waiters.
THEOREM AuthCorrect == Spec => []AuthInv
<1>1. IInv => AuthInv
  <2> SUFFICES ASSUME IInv PROVE OneBrowser
    BY DEF IInv, AuthInv
  <2> QED
    BY DEF IInv, FlightInv, RunInv, OneBrowser
<1> QED
  BY <1>1, Inductive, PTL

\* Nothing but the end of its connection's tokens cancels a sign-in for which
\* a request waits.
THEOREM SharedSignInAlways == Spec => []SharedSignIn
<1>1. IInv => SharedSignIn
  BY DEF IInv
<1> QED
  BY <1>1, Inductive, PTL

\* After a sign-out the old state never holds a token again.
THEOREM SignedOutForgetsAlways == Spec => []SignedOutForgets
<1>1. IInv => SignedOutForgets
  BY DEF IInv
<1> QED
  BY <1>1, Inductive, PTL

=============================================================================
