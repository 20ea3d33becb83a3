---------------------------- MODULE TokenService ----------------------------
(***************************************************************************)
(* One OpenID Connect sign-in (src/oidc/service.rs): threads that ask for  *)
(* an access token, the browser sign-in, the sign-out, edits of the        *)
(* sign-in, the secret store, and a provider that may replace the refresh  *)
(* token whenever it is used. Each thread takes the work lock; crashes,    *)
(* failures of the store and lost answers of the provider may come at any  *)
(* point. A refresh token is its number.                                   *)
(***************************************************************************)
EXTENDS Integers, FiniteSets

CONSTANTS
  Callers,     \* threads that need an access token
  Subjects,    \* accounts of the provider
  Nobody,      \* no account; the owner of a free lock
  SignInThread, SignOutThread, \* the other owners of the lock
  MaxTokens,   \* bound on the refresh tokens that the provider issues
  MaxEdits,    \* bound on the token requirements that the form can choose
  MaxChanges,  \* bound on the generation
  MaxCrashes   \* bound on the crashes

ASSUME NobodyAssumption == Nobody \notin Subjects \cup Callers
ASSUME ThreadsAssumption ==
  /\ Nobody \notin {SignInThread, SignOutThread}
  /\ SignInThread \notin Callers
  /\ SignOutThread \notin Callers \cup {SignInThread}
ASSUME BoundsAssumption ==
  MaxTokens \in Nat /\ MaxEdits \in Nat /\ MaxChanges \in Nat /\ MaxCrashes \in Nat

VARIABLES
  config,   \* the sign-in: its requirements and its account
  gen,      \* generation: sign-outs and changes of the requirements
  holder,   \* owner of the work lock
  loaded,   \* work: the store was read
  tokens,   \* work: the tokens in memory
  store,    \* the tokens in the secret store
  shown,    \* the sign-in as the window shows it
  saved,    \* the sign-in as the workspace file has it
  call,     \* per caller: the call that it is in
  signIn,   \* the browser sign-in
  signOut,  \* what the sign-out does
  valid,    \* provider: refresh tokens that it accepts
  issued,   \* provider: refresh tokens issued so far
  lost,     \* history: a refresh token never reached the store
  out,      \* history: signed out, and not signed in since
  crashes   \* history: crashes so far

recordVars == <<config, gen, holder, loaded, tokens>>
windowVars == <<shown, saved>>
providerVars == <<valid, issued>>
historyVars == <<lost, out, crashes>>
vars == <<recordVars, store, windowVars, call, signIn, signOut, providerVars, historyVars>>

\* Stored tokens: whose they are, for which requirements, and whether the
\* access token stays valid long enough. Refresh token 0 is none.
Tokens == [subject : Subjects, req : 0 .. MaxEdits, refresh : 0 .. MaxTokens, fresh : BOOLEAN]
NoTokens == [subject |-> Nobody, req |-> 0, refresh |-> 0, fresh |-> FALSE]

NoCall == [pc |-> "idle", subject |-> Nobody, req |-> 0, gen |-> 0, refresh |-> 0]
NoSignIn == [pc |-> "idle", subject |-> Nobody, req |-> 0, gen |-> 0, refresh |-> 0]

Init ==
  /\ config = [req |-> 0, subject |-> Nobody]
  /\ gen = 0
  /\ holder = Nobody
  /\ loaded = FALSE
  /\ tokens = NoTokens
  /\ store = NoTokens
  /\ shown = config
  /\ saved = config
  /\ call = [c \in Callers |-> NoCall]
  /\ signIn = NoSignIn
  /\ signOut = "idle"
  /\ valid = {}
  /\ issued = 0
  /\ lost = FALSE
  /\ out = TRUE
  /\ crashes = 0

At(c, pc) == call[c].pc = pc

Goto(c, pc) == call' = [call EXCEPT ![c].pc = pc]

-----------------------------------------------------------------------------
(* A caller                                                                *)

\* access_token with the account that opened the session, or retry with the
\* present one. Without that account there is nothing to ask for.
Ask(c) ==
  /\ At(c, "idle")
  /\ config.subject # Nobody
  /\ call' = [call EXCEPT ![c] = [NoCall EXCEPT !.pc = "lock", !.subject = config.subject,
                                                !.req = config.req]]
  /\ UNCHANGED <<recordVars, store, windowVars, signIn, signOut, providerVars, historyVars>>

\* The call ends with an error, and its guard releases the lock.
Fail(c) ==
  /\ call' = [call EXCEPT ![c] = NoCall]
  /\ holder' = Nobody

Lock(c) ==
  /\ At(c, "lock")
  /\ holder = Nobody
  /\ holder' = c
  /\ call' = [call EXCEPT ![c].pc = "load", ![c].gen = gen]
  /\ UNCHANGED <<config, gen, loaded, tokens, store, windowVars, signIn, signOut, providerVars,
                 historyVars>>

Load(c) ==
  /\ At(c, "load")
  /\ loaded' = TRUE
  /\ tokens' = IF loaded THEN tokens ELSE store
  /\ Goto(c, "match")
  /\ UNCHANGED <<config, gen, holder, store, windowVars, signIn, signOut, providerVars,
                 historyVars>>

LoadFails(c) ==
  /\ At(c, "load")
  /\ ~loaded
  /\ Fail(c)
  /\ UNCHANGED <<config, gen, loaded, tokens, store, windowVars, signIn, signOut, providerVars,
                 historyVars>>

\* Stored::matches.
Matches(c) == tokens # NoTokens /\ tokens.req = call[c].req /\ tokens.subject = call[c].subject

\* The access token is good: no request to the provider. The caller looks at the
\* settings of its connection again and opens its transport.
Reuse(c) ==
  /\ At(c, "match")
  /\ Matches(c)
  /\ tokens.fresh
  /\ call' = [call EXCEPT ![c] = NoCall]
  /\ holder' = Nobody
  /\ UNCHANGED <<config, gen, loaded, tokens, store, windowVars, signIn, signOut, providerVars,
                 historyVars>>

\* No tokens of this account, or no refresh token: a sign-in is required.
Required(c) ==
  /\ At(c, "match")
  /\ ~Matches(c) \/ (~tokens.fresh /\ tokens.refresh = 0)
  /\ Fail(c)
  /\ UNCHANGED <<config, gen, loaded, tokens, store, windowVars, signIn, signOut, providerVars,
                 historyVars>>

NeedsRefresh(c) ==
  /\ At(c, "match")
  /\ Matches(c)
  /\ ~tokens.fresh
  /\ tokens.refresh # 0
  /\ Goto(c, "exchange")
  /\ UNCHANGED <<recordVars, store, windowVars, signIn, signOut, providerVars, historyVars>>

\* The provider keeps the refresh token, or replaces it by a new one.
Grant(c, replaced) ==
  /\ At(c, "exchange")
  /\ tokens.refresh \in valid
  /\ IF replaced
     THEN /\ issued < MaxTokens
          /\ issued' = issued + 1
          /\ valid' = (valid \ {tokens.refresh}) \cup {issued'}
     ELSE UNCHANGED providerVars

\* Mutant of Exchange: the new refresh token is not saved before the check of
\* the ID token.
ExchangeUnsaved(c) ==
  /\ \E replaced \in BOOLEAN :
       /\ Grant(c, replaced)
       /\ call' = [call EXCEPT ![c].pc = "idToken",
                               ![c].refresh = IF replaced THEN issued' ELSE tokens.refresh]
  /\ UNCHANGED <<recordVars, store, windowVars, signIn, signOut, historyVars>>

Exchange(c) ==
  /\ \E replaced \in BOOLEAN :
       /\ Grant(c, replaced)
       /\ call' = [call EXCEPT ![c].pc = IF replaced THEN "pending" ELSE "idToken",
                               ![c].refresh = IF replaced THEN issued' ELSE tokens.refresh]
  /\ UNCHANGED <<recordVars, store, windowVars, signIn, signOut, historyVars>>

\* The network fails before the provider answers, or after it did.
ExchangeFails(c) ==
  /\ At(c, "exchange")
  /\ \/ UNCHANGED <<providerVars, lost>>
     \/ Grant(c, TRUE) /\ lost' = TRUE
  /\ Fail(c)
  /\ UNCHANGED <<config, gen, loaded, tokens, store, windowVars, signIn, signOut, out, crashes>>

\* The refresh token is rejected: it is not tried again. A failure to delete
\* it is ignored.
Rejected(c) ==
  /\ At(c, "exchange")
  /\ tokens.refresh \notin valid
  /\ tokens' = NoTokens
  /\ store' \in {store, NoTokens}
  /\ Fail(c)
  /\ UNCHANGED <<config, gen, loaded, windowVars, signIn, signOut, providerVars, historyVars>>

\* Mutant of SavePending: the tokens in memory keep the old refresh token.
SavePendingStore(c) ==
  /\ At(c, "pending")
  /\ store' = [tokens EXCEPT !.refresh = call[c].refresh, !.fresh = FALSE]
  /\ Goto(c, "idToken")
  /\ UNCHANGED <<recordVars, windowVars, signIn, signOut, providerVars, historyVars>>

\* The new refresh token goes to the store, without an access token.
SavePending(c) ==
  /\ At(c, "pending")
  /\ tokens' = [tokens EXCEPT !.refresh = call[c].refresh, !.fresh = FALSE]
  /\ store' = tokens'
  /\ Goto(c, "idToken")
  /\ UNCHANGED <<config, gen, holder, loaded, windowVars, signIn, signOut, providerVars,
                 historyVars>>

SavePendingFails(c) ==
  /\ At(c, "pending")
  /\ lost' = TRUE
  /\ Fail(c)
  /\ UNCHANGED <<config, gen, loaded, tokens, store, windowVars, signIn, signOut, providerVars,
                 out, crashes>>

\* The keys cannot be fetched, the ID token is not valid, a scope is missing,
\* or the sign-in was signed out or changed meanwhile.
IdTokenFails(c) ==
  /\ At(c, "idToken")
  /\ Fail(c)
  /\ UNCHANGED <<config, gen, loaded, tokens, store, windowVars, signIn, signOut, providerVars,
                 historyVars>>

SameGeneration(c) == call[c].gen = gen

IdToken(c) ==
  /\ At(c, "idToken")
  /\ SameGeneration(c)
  /\ Goto(c, "save")
  /\ UNCHANGED <<recordVars, store, windowVars, signIn, signOut, providerVars, historyVars>>

Save(c) ==
  /\ At(c, "save")
  /\ tokens' = [subject |-> call[c].subject, req |-> call[c].req, refresh |-> call[c].refresh,
                fresh |-> TRUE]
  /\ store' = tokens'
  /\ call' = [call EXCEPT ![c] = NoCall]
  /\ holder' = Nobody
  /\ UNCHANGED <<config, gen, loaded, windowVars, signIn, signOut, providerVars, historyVars>>

SaveFails(c) ==
  /\ At(c, "save")
  /\ Fail(c)
  /\ UNCHANGED <<config, gen, loaded, tokens, store, windowVars, signIn, signOut, providerVars,
                 historyVars>>

-----------------------------------------------------------------------------
(* The browser sign-in                                                     *)

\* The window starts no second sign-in, and none during a sign-out. A busy
\* query keeps it from starting; a catalog request does not.
StartSignIn ==
  /\ signIn.pc = "idle"
  /\ signOut = "idle"
  /\ signIn' = [NoSignIn EXCEPT !.pc = "started", !.req = config.req]
  /\ UNCHANGED <<recordVars, store, windowVars, call, signOut, providerVars, historyVars>>

ReadGeneration ==
  /\ signIn.pc = "started"
  /\ signIn' = [signIn EXCEPT !.pc = "browser", !.gen = gen]
  /\ UNCHANGED <<recordVars, store, windowVars, call, signOut, providerVars, historyVars>>

\* The user signs in with any account. The provider may send no refresh token.
Granted ==
  /\ signIn.pc = "browser"
  /\ \E s \in Subjects :
       \/ /\ issued < MaxTokens
          /\ issued' = issued + 1
          /\ valid' = valid \cup {issued'}
          /\ signIn' = [signIn EXCEPT !.pc = "lock", !.subject = s, !.refresh = issued']
       \/ /\ signIn' = [signIn EXCEPT !.pc = "lock", !.subject = s]
          /\ UNCHANGED providerVars
  /\ UNCHANGED <<recordVars, store, windowVars, call, signOut, historyVars>>

\* The user cancels, the time is over, or the provider or its answer fails.
SignInFails ==
  /\ \/ signIn.pc = "browser"
     \/ signIn.pc = "lock" /\ holder = Nobody
  /\ signIn' = NoSignIn
  /\ UNCHANGED <<recordVars, store, windowVars, call, signOut, providerVars, historyVars>>

\* The check under the lock: the sign-in is the one that the browser opened for.
LockSignIn ==
  /\ signIn.pc = "lock"
  /\ holder = Nobody
  /\ IF signIn.gen = gen
     THEN holder' = SignInThread /\ signIn' = [signIn EXCEPT !.pc = "save"]
     ELSE holder' = holder /\ signIn' = NoSignIn
  /\ UNCHANGED <<config, gen, loaded, tokens, store, windowVars, call, signOut, providerVars,
                 historyVars>>

SaveSignIn ==
  /\ signIn.pc = "save"
  /\ tokens' = [subject |-> signIn.subject, req |-> signIn.req, refresh |-> signIn.refresh,
                fresh |-> TRUE]
  /\ store' = tokens'
  /\ loaded' = TRUE
  /\ config' = [config EXCEPT !.subject = signIn.subject]
  /\ holder' = Nobody
  /\ signIn' = [signIn EXCEPT !.pc = "done"]
  /\ out' = FALSE
  /\ UNCHANGED <<gen, windowVars, call, signOut, providerVars, lost, crashes>>

SaveSignInFails ==
  /\ signIn.pc = "save"
  /\ holder' = Nobody
  /\ signIn' = NoSignIn
  /\ UNCHANGED <<config, gen, loaded, tokens, store, windowVars, call, signOut, providerVars,
                 historyVars>>

\* The window takes the outcome and shows the account.
ShowSignIn ==
  /\ signIn.pc = "done"
  /\ shown' = [shown EXCEPT !.subject = signIn.subject]
  /\ signIn' = NoSignIn
  /\ UNCHANGED <<recordVars, store, saved, call, signOut, providerVars, historyVars>>

-----------------------------------------------------------------------------
(* The sign-out and the settings                                           *)

\* The window offers it for an account, without a sign-in that is open. The
\* generation changes before the thread waits for the lock.
StartSignOut ==
  /\ signOut = "idle"
  /\ signIn.pc = "idle"
  /\ shown.subject # Nobody
  /\ gen < MaxChanges
  /\ gen' = gen + 1
  /\ signOut' = "lock"
  /\ UNCHANGED <<config, holder, loaded, tokens, store, windowVars, call, signIn, providerVars,
                 historyVars>>

\* Mutant of LockSignOut: the sign-out does not wait for a running refresh.
LockSignOutNever ==
  /\ signOut = "lock"
  /\ signOut' = "delete"
  /\ UNCHANGED <<recordVars, store, windowVars, call, signIn, providerVars, historyVars>>

LockSignOut ==
  /\ signOut = "lock"
  /\ holder = Nobody
  /\ holder' = SignOutThread
  /\ signOut' = "delete"
  /\ UNCHANGED <<config, gen, loaded, tokens, store, windowVars, call, signIn, providerVars,
                 historyVars>>

Delete ==
  /\ signOut = "delete"
  /\ store' = NoTokens
  /\ tokens' = NoTokens
  /\ loaded' = TRUE
  /\ config' = [config EXCEPT !.subject = Nobody]
  /\ holder' = Nobody
  /\ signOut' = "done"
  /\ out' = TRUE
  /\ UNCHANGED <<gen, windowVars, call, signIn, providerVars, lost, crashes>>

\* The tokens stay, and so does the account.
DeleteFails ==
  /\ signOut = "delete"
  /\ holder' = Nobody
  /\ signOut' = "idle"
  /\ UNCHANGED <<config, gen, loaded, tokens, store, windowVars, call, signIn, providerVars,
                 historyVars>>

ShowSignOut ==
  /\ signOut = "done"
  /\ shown' = [shown EXCEPT !.subject = Nobody]
  /\ signOut' = "idle"
  /\ UNCHANGED <<recordVars, store, saved, call, signIn, providerVars, historyVars>>

\* The form changes the requirements while the window shows no account. The
\* service keeps its own account, and this does not wait for the work lock.
Configure ==
  /\ shown.subject = Nobody
  /\ gen < MaxChanges
  /\ \E req \in 0 .. MaxEdits \ {config.req} :
       /\ config' = [config EXCEPT !.req = req]
       /\ shown' = [shown EXCEPT !.req = req]
  /\ gen' = gen + 1
  /\ UNCHANGED <<holder, loaded, tokens, store, saved, call, signIn, signOut, providerVars,
                 historyVars>>

SaveWorkspace ==
  /\ saved # shown
  /\ saved' = shown
  /\ UNCHANGED <<recordVars, store, shown, call, signIn, signOut, providerVars, historyVars>>

-----------------------------------------------------------------------------
(* Time and crashes                                                        *)

Expired(t) == IF t.fresh THEN [t EXCEPT !.fresh = FALSE] ELSE t

\* The access token comes near its end.
Expire ==
  /\ tokens.fresh \/ store.fresh
  /\ tokens' = Expired(tokens)
  /\ store' = Expired(store)
  /\ UNCHANGED <<config, gen, holder, loaded, windowVars, call, signIn, signOut, providerVars,
                 historyVars>>

\* The process ends and starts again. A new refresh token that is not in the
\* store is gone.
Crash ==
  /\ crashes < MaxCrashes
  /\ crashes' = crashes + 1
  /\ config' = saved
  /\ shown' = saved
  /\ gen' = 0
  /\ holder' = Nobody
  /\ loaded' = FALSE
  /\ tokens' = NoTokens
  /\ call' = [c \in Callers |-> NoCall]
  /\ signIn' = NoSignIn
  /\ signOut' = "idle"
  /\ lost' = (lost \/ \E c \in Callers : At(c, "pending"))
  /\ UNCHANGED <<store, saved, providerVars, out>>

CallerNext(c) ==
  \/ Ask(c) \/ Lock(c) \/ Load(c) \/ LoadFails(c)
  \/ Reuse(c) \/ Required(c) \/ NeedsRefresh(c)
  \/ Exchange(c) \/ ExchangeFails(c) \/ Rejected(c)
  \/ SavePending(c) \/ SavePendingFails(c)
  \/ IdToken(c) \/ IdTokenFails(c)
  \/ Save(c) \/ SaveFails(c)

Next ==
  \/ \E c \in Callers : CallerNext(c)
  \/ StartSignIn \/ ReadGeneration \/ Granted \/ SignInFails
  \/ LockSignIn \/ SaveSignIn \/ SaveSignInFails \/ ShowSignIn
  \/ StartSignOut \/ LockSignOut \/ Delete \/ DeleteFails \/ ShowSignOut
  \/ Configure \/ SaveWorkspace \/ Expire \/ Crash

Spec == Init /\ [][Next]_vars

-----------------------------------------------------------------------------
(* Properties                                                              *)

Locked == {"load", "match", "exchange", "pending", "idToken", "save"}

\* A caller that works with tokens, and one that has an answer of the provider.
Working == {"exchange", "pending", "idToken", "save"}
Refreshed == {"pending", "idToken", "save"}

TypeInv ==
  /\ config \in [req : 0 .. MaxEdits, subject : Subjects \cup {Nobody}]
  /\ shown \in [req : 0 .. MaxEdits, subject : Subjects \cup {Nobody}]
  /\ saved \in [req : 0 .. MaxEdits, subject : Subjects \cup {Nobody}]
  /\ gen \in 0 .. MaxChanges
  /\ holder \in Callers \cup {Nobody, SignInThread, SignOutThread}
  /\ loaded \in BOOLEAN
  /\ tokens \in Tokens \cup {NoTokens}
  /\ store \in Tokens \cup {NoTokens}
  /\ call \in [Callers -> [pc : {"idle", "lock"} \cup Locked, subject : Subjects \cup {Nobody},
                           req : 0 .. MaxEdits, gen : 0 .. MaxChanges, refresh : 0 .. MaxTokens]]
  /\ signIn \in [pc : {"idle", "started", "browser", "lock", "save", "done"},
                 subject : Subjects \cup {Nobody}, req : 0 .. MaxEdits, gen : 0 .. MaxChanges,
                 refresh : 0 .. MaxTokens]
  /\ signOut \in {"idle", "lock", "delete", "done"}
  /\ valid \subseteq 1 .. issued
  /\ issued \in 0 .. MaxTokens
  /\ lost \in BOOLEAN
  /\ out \in BOOLEAN

\* The owner of the work lock, and nobody else, is between taking and
\* releasing it.
LockInv ==
  /\ \A c \in Callers : call[c].pc \in Locked <=> holder = c
  /\ signIn.pc = "save" <=> holder = SignInThread
  /\ signOut = "delete" <=> holder = SignOutThread

\* The tokens in memory are those in the store, except for tokens that the
\* provider rejected and the store did not delete.
MemoryInv == loaded => tokens \in {store, NoTokens}

\* A caller that refreshes has tokens to refresh.
CallInv ==
  /\ \A c \in Callers :
       /\ call[c].pc # "idle" => call[c].subject \in Subjects
       /\ call[c].pc \in Working \cup {"match"} => loaded
       /\ call[c].pc \in Working => tokens # NoTokens
       /\ At(c, "exchange") => tokens.refresh # 0
  /\ signIn.pc \in {"lock", "save", "done"} => signIn.subject \in Subjects

\* A refresh token that is not stored yet is valid, and known to one thread.
RefreshInv ==
  /\ {tokens.refresh, store.refresh} \subseteq 0 .. issued
  /\ \A c \in Callers : call[c].pc \in Refreshed => call[c].refresh \in valid
  /\ signIn.pc \in {"started", "browser"} => signIn.refresh = 0
  /\ signIn.pc \in {"lock", "save"} /\ signIn.refresh # 0 =>
       /\ signIn.refresh \in valid \ {tokens.refresh, store.refresh}
       /\ \A c \in Callers : call[c].pc \in Refreshed => call[c].refresh # signIn.refresh

\* Only one thread at a time works on the tokens of a sign-in, the tokens in
\* memory are those in the store, and a thread that has new tokens has the only
\* copy (work: Mutex<Work>, valid_token, refresh, sign_in, sign_out).
TokenInv == TypeInv /\ LockInv /\ MemoryInv /\ CallInv /\ RefreshInv

\* Nobody holds a new refresh token that the store does not have yet.
Settled == ~lost /\ \A c \in Callers : ~At(c, "pending")

\* A provider may replace the refresh token when it is used. The store has
\* the token that the provider accepts, through crashes and failures, unless
\* the answer of the provider was lost or could not be saved; and Qrow never
\* presents a replaced token (refresh saves the pending token first).
NewestIsKept ==
  /\ Settled => store.refresh \in valid \cup {0}
  /\ \A c \in Callers : At(c, "exchange") /\ ~lost => tokens.refresh \in valid

\* After a sign-out no refresh, no late sign-in and no restart brings tokens
\* back, until the user signs in again (sign_out waits for the work lock).
SignedOutStaysOut == out => store = NoTokens /\ tokens = NoTokens
=============================================================================
