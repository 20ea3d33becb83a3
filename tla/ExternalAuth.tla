---------------------------- MODULE ExternalAuth ----------------------------
(***************************************************************************)
(* Trino browser sign-in (src/external_auth.rs): the requests of several   *)
(* sessions (the loop in src/connector/trino/protocol.rs) share the token  *)
(* of their connection and one browser sign-in, while the user stops       *)
(* queries, signs out or edits the connection, and while the server        *)
(* rejects tokens. An entry is the token state of the connection between   *)
(* two sign-outs or edits. A flight is one browser sign-in; the token that *)
(* it fetches has its number.                                              *)
(***************************************************************************)
EXTENDS Integers, FiniteSets

CONSTANTS
  Callers,     \* sessions of the connection
  MaxEntries,  \* bound on the entries
  MaxFlights   \* bound on the browser sign-ins

ASSUME CallersAssumption == IsFiniteSet(Callers)
ASSUME BoundsAssumption == MaxEntries \in Nat \ {0} /\ MaxFlights \in Nat

Entries == 1 .. MaxEntries
Flights == 1 .. MaxFlights

VARIABLES
  current,    \* the entry in the registry; 0 after it was taken out
  entries,    \* entries created so far
  valid,      \* per entry: nothing invalidated it
  state,      \* per entry: its token and its flight, 0 is none
  dropping,   \* the entry that Entry::invalidate is in the middle of
  flights,    \* browser sign-ins started so far
  flight,     \* per browser sign-in: its entry, flag, waiters, opener and result
  call,       \* per caller: its request
  accepted    \* tokens that the server accepts

registryVars == <<current, entries, valid, dropping>>
flightVars == <<flights, flight>>
vars == <<registryVars, state, flightVars, call, accepted>>

\* A request: the entry of its source, the token that it sends, the number of
\* its attempt, its flight, and whether its own query is cancelled.
NoCall == [pc |-> "idle", entry |-> 0, token |-> 0, attempt |-> 0, flight |-> 0,
           cancelled |-> FALSE]

NoFlight == [entry |-> 0, cancel |-> FALSE, waiters |-> 0, opener |-> "none",
             result |-> "none"]

Init ==
  /\ current = 0
  /\ entries = 0
  /\ valid = [e \in Entries |-> FALSE]
  /\ state = [e \in Entries |-> [token |-> 0, flight |-> 0]]
  /\ dropping = 0
  /\ flights = 0
  /\ flight = [f \in Flights |-> NoFlight]
  /\ call = [c \in Callers |-> NoCall]
  /\ accepted = {}

At(c, pc) == call[c].pc = pc

-----------------------------------------------------------------------------
(* The connection                                                          *)

\* Service::secret: a session opens with the entry of the connection, which
\* is created when there is none. The registry is locked during an
\* invalidation.
Open(c) ==
  /\ At(c, "idle")
  /\ dropping = 0
  /\ current # 0 \/ entries < MaxEntries
  /\ LET e == IF current # 0 THEN current ELSE entries + 1
     IN /\ current' = e
        /\ entries' = IF current # 0 THEN entries ELSE e
        /\ valid' = IF current # 0 THEN valid ELSE [valid EXCEPT ![e] = TRUE]
        /\ call' = [call EXCEPT ![c] = [NoCall EXCEPT !.pc = "open", !.entry = e]]
  /\ UNCHANGED <<dropping, state, flightVars, accepted>>

\* Sign-out, or an edit of the connection, takes the entry out of the
\* registry: first it is marked as invalid.
Invalidate ==
  /\ current # 0
  /\ dropping = 0
  /\ valid' = [valid EXCEPT ![current] = FALSE]
  /\ dropping' = current
  /\ UNCHANGED <<current, entries, state, flightVars, call, accepted>>

\* Then its token goes, and its browser sign-in is cancelled.
Forget ==
  /\ dropping # 0
  /\ state' = [state EXCEPT ![dropping] = [token |-> 0, flight |-> 0]]
  /\ flight' = [f \in Flights |->
                 [flight[f] EXCEPT !.cancel = @ \/ f = state[dropping].flight]]
  /\ current' = 0
  /\ dropping' = 0
  /\ UNCHANGED <<entries, valid, flights, call, accepted>>

-----------------------------------------------------------------------------
(* A request. Cancellation and closing requests, which never sign in and   *)
(* take the last token that was sent, are left out.                        *)

\* Source::cached: a request of the session takes the token of the entry.
Cached(c) ==
  /\ At(c, "open")
  /\ IF valid[call[c].entry]
     THEN call' = [call EXCEPT ![c].pc = "request", ![c].token = state[call[c].entry].token,
                               ![c].attempt = 0]
     ELSE call' = [call EXCEPT ![c] = NoCall]
  /\ UNCHANGED <<registryVars, state, flightVars, accepted>>

\* The error of a request.
Failed(request) == [NoCall EXCEPT !.pc = "failed", !.entry = request.entry]

\* A cancelled query sends no further attempt; a token that is too large is not
\* sent at all.
Send(c) ==
  /\ At(c, "request")
  /\ \/ call' = [call EXCEPT ![c] = Failed(call[c])]
     \/ ~call[c].cancelled /\ call' = [call EXCEPT ![c].pc = "sent"]
  /\ UNCHANGED <<registryVars, state, flightVars, accepted>>

\* A network error returns at once: repeating a submission could execute SQL
\* twice.
SendFails(c) ==
  /\ At(c, "sent")
  /\ call' = [call EXCEPT ![c] = Failed(call[c])]
  /\ UNCHANGED <<registryVars, state, flightVars, accepted>>

\* The session goes on to its next request.
Accepted(c) ==
  /\ At(c, "sent")
  /\ call[c].token \in accepted
  /\ call' = [call EXCEPT ![c] = [NoCall EXCEPT !.pc = "open", !.entry = call[c].entry]]
  /\ UNCHANGED <<registryVars, state, flightVars, accepted>>

\* HTTP 401. Source::reject takes a token out of the entry only if it is the
\* rejected one. The challenge of the answer may be of no use.
Reject(c) ==
  /\ At(c, "sent")
  /\ call[c].token \notin accepted
  /\ state' = [state EXCEPT ![call[c].entry].token = IF @ = call[c].token THEN 0 ELSE @]
  /\ \/ call' = [call EXCEPT ![c] = Failed(call[c])]
     \/ call[c].attempt < 2 /\ call' = [call EXCEPT ![c].pc = "check"]
  /\ UNCHANGED <<registryVars, flightVars, accepted>>

\* The session ends with its query, or stays for the next one.
Fail(c) ==
  /\ At(c, "failed")
  /\ \/ call' = [call EXCEPT ![c] = NoCall]
     \/ call' = [call EXCEPT ![c] = [NoCall EXCEPT !.pc = "open", !.entry = call[c].entry]]
  /\ UNCHANGED <<registryVars, state, flightVars, accepted>>

\* Source::authenticate: the check before the lock.
Check(c) ==
  /\ At(c, "check")
  /\ call' = [call EXCEPT ![c] = IF call[c].cancelled \/ ~valid[call[c].entry]
                                  THEN Failed(call[c]) ELSE [call[c] EXCEPT !.pc = "enter"]]
  /\ UNCHANGED <<registryVars, state, flightVars, accepted>>

\* The next attempt of a request.
Again(request, token) ==
  [request EXCEPT !.pc = "request", !.token = token, !.attempt = request.attempt + 1]

\* Another caller fetched a new token meanwhile.
Replaced(c) ==
  /\ At(c, "enter")
  /\ state[call[c].entry].token \notin {0, call[c].token}
  /\ call' = [call EXCEPT ![c] = Again(call[c], state[call[c].entry].token)]
  /\ UNCHANGED <<registryVars, state, flightVars, accepted>>

\* Mutant of Existing: each request opens the browser.
ExistingNone(e) == 0

\* The browser sign-in of the entry that can be joined, or 0.
Existing(e) ==
  LET f == state[e].flight IN IF f # 0 /\ ~flight[f].cancel THEN f ELSE 0

Joined(a, e) == [a EXCEPT !.entry = e, !.waiters = a.waiters + 1]

\* Join the flight of the entry, or start one with its thread.
Enter(c) ==
  /\ At(c, "enter")
  /\ state[call[c].entry].token \in {0, call[c].token}
  /\ LET e == call[c].entry
         f == IF Existing(e) # 0 THEN Existing(e) ELSE flights + 1
     IN /\ f \in Flights
        /\ flights' = IF Existing(e) # 0 THEN flights ELSE f
        /\ flight' = [flight EXCEPT ![f] = Joined(flight[f], e)]
        /\ state' = [state EXCEPT ![e] = [token |-> 0, flight |-> f]]
        /\ call' = [call EXCEPT ![c].pc = "wait", ![c].flight = f]
  /\ UNCHANGED <<registryVars, accepted>>

\* The query of the caller is cancelled, or its connection changed.
Cancelled(c) ==
  /\ At(c, "wait")
  /\ call[c].cancelled \/ ~valid[call[c].entry]
  /\ call' = [call EXCEPT ![c].pc = "leave", ![c].token = 0]
  /\ UNCHANGED <<registryVars, state, flightVars, accepted>>

\* The flight ended: its token is for the next attempt, an error for the query.
\* The flags were checked before, and may be up by now.
Ended(c) ==
  /\ At(c, "wait")
  /\ flight[call[c].flight].result # "none"
  /\ call' = [call EXCEPT ![c].pc = "leave",
                          ![c].token = IF flight[call[c].flight].result = "token"
                                       THEN call[c].flight ELSE 0]
  /\ UNCHANGED <<registryVars, state, flightVars, accepted>>

TimedOut(c) ==
  /\ At(c, "wait")
  /\ flight[call[c].flight].result = "none"
  /\ call' = [call EXCEPT ![c].pc = "leave", ![c].token = 0]
  /\ UNCHANGED <<registryVars, state, flightVars, accepted>>

\* Mutant of LastWaiter: whoever leaves cancels the flight.
LastWaiterAny(f) == TRUE

LastWaiter(f) == flight[f].waiters = 1

Left(a, last) == [a EXCEPT !.waiters = a.waiters - 1, !.cancel = a.cancel \/ last]

\* Waiter::drop.
Leave(c) ==
  /\ At(c, "leave")
  /\ LET f == call[c].flight
     IN flight' = [flight EXCEPT ![f] = Left(flight[f], LastWaiter(f))]
  /\ LET request == [call[c] EXCEPT !.flight = 0]
     IN call' = [call EXCEPT ![c] = IF request.token # 0 THEN Again(request, request.token)
                                    ELSE Failed(request)]
  /\ UNCHANGED <<registryVars, state, flights, accepted>>

\* The user stops the query of the caller.
CancelQuery(c) ==
  /\ call[c].pc \in {"request", "sent", "check", "enter", "wait"}
  /\ ~call[c].cancelled
  /\ call' = [call EXCEPT ![c].cancelled = TRUE]
  /\ UNCHANGED <<registryVars, state, flightVars, accepted>>

-----------------------------------------------------------------------------
(* The thread of a flight                                                  *)

Running(f) == f <= flights /\ flight[f].result = "none"

\* Mutant of MayStore: only the flight of the entry is compared.
MayStoreInvalid(f, e) == ~flight[f].cancel /\ state[e].flight = f

\* A sign-out, a changed connection or the cancel of the last waiter must not
\* let a late result restore the authentication.
MayStore(f, e) == valid[e] /\ ~flight[f].cancel /\ state[e].flight = f

\* Mutant of Clear: a flight that was cancelled stays in the entry.
ClearStored(f, e) == MayStore(f, e)

Clear(f, e) == state[e].flight = f

\* With a redirect in the challenge the thread runs the opener of the system
\* browser, after a look at its flag and its deadline.
RunOpener(f) ==
  /\ Running(f)
  /\ flight[f].opener = "none"
  /\ ~flight[f].cancel
  /\ flight' = [flight EXCEPT ![f].opener = "running"]
  /\ UNCHANGED <<registryVars, state, flights, call, accepted>>

\* The opener is waited for without a deadline, and without a look at the flag.
OpenerReturns(f) ==
  /\ Running(f)
  /\ flight[f].opener = "running"
  /\ flight' = [flight EXCEPT ![f].opener = "returned"]
  /\ UNCHANGED <<registryVars, state, flights, call, accepted>>

\* The thread ends: without an opener, with an opener that failed, or after the
\* polls. The result goes to the entry, and to the waiters, in one critical
\* section.
Publish(f) ==
  /\ Running(f)
  /\ flight[f].opener # "running"
  /\ LET e == flight[f].entry
     IN \E outcome \in {"token", "error"} :
          /\ flight' = [flight EXCEPT ![f].opener = "none", ![f].result = outcome]
          /\ state' = [state EXCEPT
               ![e].token = IF MayStore(f, e) THEN IF outcome = "token" THEN f ELSE 0 ELSE @,
               ![e].flight = IF Clear(f, e) THEN 0 ELSE @]
          /\ accepted' = IF outcome = "token" THEN accepted \cup {f} ELSE accepted
  /\ UNCHANGED <<registryVars, flights, call>>

\* The server ends the session of a token.
Revoke ==
  /\ \E f \in accepted : accepted' = accepted \ {f}
  /\ UNCHANGED <<registryVars, state, flightVars, call>>

CallerNext(c) ==
  \/ Open(c) \/ Cached(c) \/ Send(c) \/ SendFails(c) \/ Accepted(c) \/ Reject(c)
  \/ Fail(c) \/ Check(c) \/ Replaced(c) \/ Enter(c)
  \/ Cancelled(c) \/ Ended(c) \/ TimedOut(c) \/ Leave(c) \/ CancelQuery(c)

Next ==
  \/ Invalidate \/ Forget \/ Revoke
  \/ \E c \in Callers : CallerNext(c)
  \/ \E f \in Flights : RunOpener(f) \/ OpenerReturns(f) \/ Publish(f)

Spec == Init /\ [][Next]_vars

\* The polls of a browser sign-in have a deadline, its opener has none.
FairSpec == Spec /\ \A f \in Flights : WF_vars(Publish(f))

-----------------------------------------------------------------------------
(* Properties                                                              *)

Waiting(f) == {c \in Callers : call[c].pc \in {"wait", "leave"} /\ call[c].flight = f}

Pcs == {"idle", "open", "request", "sent", "failed", "check", "enter", "wait", "leave"}

StateType == [token : 0 .. flights, flight : 0 .. flights]

FlightType == [entry : 0 .. entries, cancel : BOOLEAN, waiters : Nat,
               opener : {"none", "running", "returned"}, result : {"none", "token", "error"}]

CallType == [pc : Pcs, entry : 0 .. entries, token : 0 .. flights, attempt : 0 .. 2,
             flight : 0 .. flights, cancelled : BOOLEAN]

TypeInv ==
  /\ entries \in 0 .. MaxEntries
  /\ current \in 0 .. entries
  /\ dropping \in {0, current}
  /\ valid \in [Entries -> BOOLEAN]
  /\ state \in [Entries -> StateType]
  /\ flights \in 0 .. MaxFlights
  /\ flight \in [Flights -> FlightType]
  /\ call \in [Callers -> CallType]
  /\ accepted \subseteq 1 .. flights

\* A request has an entry, and waits for a flight of it. A third attempt that is
\* rejected fails.
RequestInv(c) ==
  /\ ~At(c, "idle") => call[c].entry # 0
  /\ call[c].pc \in {"check", "enter", "wait", "leave"} => call[c].attempt < 2
  /\ call[c].pc \in {"wait", "leave"} =>
       call[c].flight # 0 /\ flight[call[c].flight].entry = call[c].entry
  /\ call[c].pc \notin {"wait", "leave"} => call[c].flight = 0

CallInv == \A c \in Callers : RequestInv(c)

\* A flight of an entry runs, and was started for it. A running flight that is
\* not its entry's is cancelled.
EntryInv(e) ==
  state[e].flight # 0 => Running(state[e].flight) /\ flight[state[e].flight].entry = e

RunInv(f) ==
  /\ f <= flights => flight[f].entry # 0
  /\ f > flights => ~flight[f].cancel /\ flight[f].result = "none"
  /\ Running(f) /\ ~flight[f].cancel => state[flight[f].entry].flight = f

FlightInv ==
  /\ \A e \in Entries : EntryInv(e)
  /\ \A f \in Flights : RunInv(f)
  /\ dropping # 0 => ~valid[dropping]

\* A flight knows how many requests wait for it.
CountInv == \A f \in Flights : flight[f].waiters = Cardinality(Waiting(f))

\* Two requests of a connection never have the browser open at the same time,
\* except that a cancelled sign-in may still be ending.
OneBrowser ==
  \A f, g \in Flights :
    /\ Running(f) /\ Running(g)
    /\ flight[f].entry = flight[g].entry
    /\ ~flight[f].cancel /\ ~flight[g].cancel
    => f = g

\* The requests of a connection share one browser sign-in, which knows its
\* waiters, and a sign-in that is no longer the connection's is cancelled
\* (Source::authenticate, Waiter::drop).
AuthInv == TypeInv /\ CallInv /\ FlightInv /\ CountInv /\ OneBrowser

\* Cancelling one query does not cancel the sign-in of another one
\* (external_auth.rs:318-319): while someone waits, and the connection is what
\* it was, the flight is not cancelled.
SharedSignIn ==
  \A c \in Callers :
    At(c, "wait") /\ valid[call[c].entry] => ~flight[call[c].flight].cancel

\* After a sign-out or a change of the connection the old state never holds a
\* token again, however late a request starts its sign-in or a sign-in ends
\* (external_auth.rs:386).
SignedOutForgets ==
  \A e \in Entries : ~valid[e] /\ dropping # e => state[e].token = 0

\* The opener of the sign-in never returns.
OpenerStuck(f) == [](flight[f].opener = "running")

\* The status does not stay at waiting: each browser sign-in leaves its entry,
\* unless the command that opens the browser does not return.
WaitingEnds ==
  \A e \in Entries, f \in Flights :
    state[e].flight = f ~> state[e].flight # f \/ OpenerStuck(f)
=============================================================================
