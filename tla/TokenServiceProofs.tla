-------------------------- MODULE TokenServiceProofs --------------------------
(***************************************************************************)
(* The invariant of a sign-in's tokens, for any callers, accounts and      *)
(* bounds, and what follows from it: a sign-out is final, and the newest   *)
(* refresh token is kept. Each part has a lemma with one step per action.  *)
(***************************************************************************)
EXTENDS TokenService, TLAPS

\* The properties need TokenInv, and TokenInv needs none of them.
IInv == TokenInv /\ SignedOutStaysOut /\ NewestIsKept


CallType == [pc : {"idle", "lock"} \cup Locked, subject : Subjects \cup {Nobody},
             req : 0 .. MaxEdits, gen : 0 .. MaxChanges, refresh : 0 .. MaxTokens]

SignInType == [pc : {"idle", "started", "browser", "lock", "save", "done"},
               subject : Subjects \cup {Nobody}, req : 0 .. MaxEdits, gen : 0 .. MaxChanges,
               refresh : 0 .. MaxTokens]

\* What the actions make of a record is a record of its type.
LEMMA RecordTypes ==
  /\ NoCall \in CallType
  /\ NoSignIn \in SignInType
  /\ \A r \in CallType, pc \in {"idle", "lock"} \cup Locked, s \in Subjects \cup {Nobody},
        q \in 0 .. MaxEdits, n \in 0 .. MaxChanges, t \in 0 .. MaxTokens :
       /\ [r EXCEPT !.pc = pc, !.gen = n] \in CallType
       /\ [r EXCEPT !.pc = pc, !.refresh = t] \in CallType
       /\ [r EXCEPT !.pc = pc, !.subject = s, !.req = q] \in CallType
  /\ \A r \in SignInType, pc \in {"idle", "started", "browser", "lock", "save", "done"},
        s \in Subjects \cup {Nobody}, q \in 0 .. MaxEdits, n \in 0 .. MaxChanges,
        t \in 0 .. MaxTokens :
       /\ [r EXCEPT !.pc = pc, !.gen = n] \in SignInType
       /\ [r EXCEPT !.pc = pc, !.req = q] \in SignInType
       /\ [r EXCEPT !.pc = pc, !.subject = s] \in SignInType
       /\ [r EXCEPT !.pc = pc, !.subject = s, !.refresh = t] \in SignInType
  /\ NoTokens \notin Tokens
  /\ Expired(NoTokens) = NoTokens
  /\ \A r \in Tokens, t \in 0 .. MaxTokens :
       /\ Expired(r) \in Tokens
       /\ [r EXCEPT !.refresh = t, !.fresh = FALSE] \in Tokens
<1>1. NoCall \in CallType /\ NoSignIn \in SignInType
  BY BoundsAssumption DEF NoCall, NoSignIn, CallType, SignInType, Locked
<1>2. NoTokens \notin Tokens /\ Expired(NoTokens) = NoTokens
  BY NobodyAssumption DEF NoTokens, Tokens, Expired
<1>3. ASSUME NEW r \in CallType, NEW pc \in {"idle", "lock"} \cup Locked,
             NEW s \in Subjects \cup {Nobody}, NEW q \in 0 .. MaxEdits,
             NEW n \in 0 .. MaxChanges, NEW t \in 0 .. MaxTokens
      PROVE  /\ [r EXCEPT !.pc = pc, !.gen = n] \in CallType
             /\ [r EXCEPT !.pc = pc, !.refresh = t] \in CallType
             /\ [r EXCEPT !.pc = pc, !.subject = s, !.req = q] \in CallType
  BY DEF CallType
<1>4. ASSUME NEW r \in SignInType,
             NEW pc \in {"idle", "started", "browser", "lock", "save", "done"},
             NEW s \in Subjects \cup {Nobody}, NEW q \in 0 .. MaxEdits,
             NEW n \in 0 .. MaxChanges, NEW t \in 0 .. MaxTokens
      PROVE  /\ [r EXCEPT !.pc = pc, !.gen = n] \in SignInType
             /\ [r EXCEPT !.pc = pc, !.req = q] \in SignInType
             /\ [r EXCEPT !.pc = pc, !.subject = s] \in SignInType
             /\ [r EXCEPT !.pc = pc, !.subject = s, !.refresh = t] \in SignInType
  BY DEF SignInType
<1>5. ASSUME NEW r \in Tokens, NEW t \in 0 .. MaxTokens
      PROVE  /\ Expired(r) \in Tokens
             /\ [r EXCEPT !.refresh = t, !.fresh = FALSE] \in Tokens
  BY DEF Tokens, Expired
<1> QED
  BY <1>1, <1>2, <1>3, <1>4, <1>5

LEMMA InitHolds == Init => IInv
<1> SUFFICES ASSUME Init PROVE IInv
  OBVIOUS
<1> USE NobodyAssumption, ThreadsAssumption, BoundsAssumption DEF Init
<1>1. TypeInv
  <2>1. call \in [Callers -> CallType] /\ signIn \in SignInType
    BY RecordTypes
  <2>2. /\ NoTokens \in Tokens \cup {NoTokens}
        /\ config \in [req : 0 .. MaxEdits, subject : Subjects \cup {Nobody}]
        /\ 0 \in 0 .. MaxChanges /\ 0 \in 0 .. MaxTokens
    OBVIOUS
  <2> QED
    BY <2>1, <2>2 DEF TypeInv, CallType, SignInType
<1>2. LockInv /\ MemoryInv /\ CallInv /\ RefreshInv
  BY DEF LockInv, MemoryInv, CallInv, RefreshInv, Locked, Working, Refreshed, At,
     NoTokens, NoCall, NoSignIn
<1> QED
  BY <1>1, <1>2 DEF IInv, TokenInv, SignedOutStaysOut, NewestIsKept, Settled, At,
     NoTokens, NoCall

\* Every step keeps the types.
LEMMA TypeKept == IInv /\ [Next]_vars => TypeInv'
<1> SUFFICES ASSUME IInv, [Next]_vars PROVE TypeInv'
  OBVIOUS
<1> call \in [Callers -> CallType] /\ signIn \in SignInType
  BY DEF IInv, TokenInv, TypeInv, CallType, SignInType
<1>1. ASSUME NEW c \in Callers, Ask(c) PROVE TypeInv'
  <2>1. call' \in [Callers -> CallType]
    BY <1>1, RecordTypes DEF Ask, Locked, IInv, TokenInv, TypeInv
  <2> QED
    BY <1>1, <2>1, BoundsAssumption DEF Ask, recordVars, windowVars, providerVars,
       historyVars, IInv, TokenInv, TypeInv, Locked, NoTokens, NoCall, NoSignIn,
       Tokens, CallInv, At, CallType, SignInType
<1>2. ASSUME NEW c \in Callers, Lock(c) PROVE TypeInv'
  <2>1. call' \in [Callers -> CallType]
    BY <1>2, RecordTypes DEF Lock, Locked, IInv, TokenInv, TypeInv
  <2> QED
    BY <1>2, <2>1, BoundsAssumption DEF Lock, At, recordVars, windowVars,
       providerVars, historyVars, IInv, TokenInv, TypeInv, Locked, NoTokens, NoCall,
       NoSignIn, Tokens, CallInv, CallType, SignInType
<1>3. ASSUME NEW c \in Callers, Load(c) PROVE TypeInv'
  BY <1>3, BoundsAssumption, NobodyAssumption, ThreadsAssumption DEF Load, Goto,
     recordVars, windowVars, providerVars, historyVars, IInv, TokenInv, TypeInv,
     Locked, NoTokens, NoCall, NoSignIn, Tokens, CallInv, At
<1>4. ASSUME NEW c \in Callers, LoadFails(c) PROVE TypeInv'
  BY <1>4, BoundsAssumption, NobodyAssumption, ThreadsAssumption DEF LoadFails, Fail,
     recordVars, windowVars, providerVars, historyVars, IInv, TokenInv, TypeInv,
     Locked, NoTokens, NoCall, NoSignIn, Tokens, CallInv, At
<1>5. ASSUME NEW c \in Callers, Reuse(c) PROVE TypeInv'
  BY <1>5, BoundsAssumption, NobodyAssumption, ThreadsAssumption DEF Reuse,
     recordVars, windowVars, providerVars, historyVars, IInv, TokenInv, TypeInv,
     Locked, NoTokens, NoCall, NoSignIn, Tokens, CallInv, At
<1>6. ASSUME NEW c \in Callers, Required(c) PROVE TypeInv'
  BY <1>6, BoundsAssumption, NobodyAssumption, ThreadsAssumption DEF Required, Fail,
     recordVars, windowVars, providerVars, historyVars, IInv, TokenInv, TypeInv,
     Locked, NoTokens, NoCall, NoSignIn, Tokens, CallInv, At
<1>7. ASSUME NEW c \in Callers, NeedsRefresh(c) PROVE TypeInv'
  BY <1>7, BoundsAssumption, NobodyAssumption, ThreadsAssumption DEF NeedsRefresh,
     Goto, Matches, recordVars, windowVars, providerVars, historyVars, IInv, TokenInv,
     TypeInv, Locked, NoTokens, NoCall, NoSignIn, Tokens, CallInv, At
<1>8. ASSUME NEW c \in Callers, Exchange(c) PROVE TypeInv'
  <2>1. PICK replaced \in BOOLEAN :
          /\ Grant(c, replaced)
          /\ call' = [call EXCEPT ![c].pc = IF replaced THEN "pending" ELSE "idToken",
                                  ![c].refresh = IF replaced THEN issued' ELSE tokens.refresh]
    BY <1>8 DEF Exchange
  <2>2. issued' \in 0 .. MaxTokens /\ valid' \subseteq 1 .. issued'
    BY <2>1, BoundsAssumption DEF Grant, providerVars, IInv, TokenInv, TypeInv
  <2>3. tokens.refresh \in 0 .. MaxTokens
    BY BoundsAssumption DEF Tokens, NoTokens, IInv, TokenInv, TypeInv
  <2> DEFINE next == [call[c] EXCEPT !.pc = IF replaced THEN "pending" ELSE "idToken",
                                     !.refresh = IF replaced THEN issued' ELSE tokens.refresh]
  <2>4. next \in CallType
    <3>1. (IF replaced THEN issued' ELSE tokens.refresh) \in 0 .. MaxTokens
      BY <2>2, <2>3
    <3>2. (IF replaced THEN "pending" ELSE "idToken") \in {"idle", "lock"} \cup Locked
      BY DEF Locked
    <3> QED
      BY <3>1, <3>2 DEF CallType
  <2>5. call' \in [Callers -> CallType]
    BY <2>1, <2>4
  <2> QED
    BY <1>8, <2>2, <2>5 DEF Exchange, recordVars, windowVars, historyVars, IInv, TokenInv,
       TypeInv, CallType, SignInType
<1>9. ASSUME NEW c \in Callers, ExchangeFails(c) PROVE TypeInv'
  <2>1. /\ issued' \in 0 .. MaxTokens /\ valid' \subseteq 1 .. issued'
        /\ lost' \in BOOLEAN
    <3>1. CASE UNCHANGED <<providerVars, lost>>
      BY <3>1, BoundsAssumption DEF providerVars, IInv, TokenInv, TypeInv
    <3>2. CASE Grant(c, TRUE) /\ lost' = TRUE
      <4>1. issued' = issued + 1 /\ issued < MaxTokens
        BY <3>2 DEF Grant
      <4>2. valid' = (valid \ {tokens.refresh}) \cup {issued'}
        BY <3>2 DEF Grant
      <4> QED
        <5>1. issued \in 0 .. MaxTokens /\ valid \subseteq 1 .. issued
          BY DEF IInv, TokenInv, TypeInv
        <5>2. issued' \in 0 .. MaxTokens
          BY <4>1, <5>1, BoundsAssumption
        <5>3. valid' \subseteq 1 .. issued'
          <6>1. issued \in Nat /\ issued' \in 1 .. issued'
            BY <4>1, <5>1, BoundsAssumption
          <6>2. \A t \in valid : t \in 1 .. issued'
            BY <4>1, <5>1, <6>1
          <6> QED
            BY <4>2, <6>1, <6>2
        <5> QED
          BY <3>2, <5>2, <5>3
    <3> QED
      BY <1>9, <3>1, <3>2 DEF ExchangeFails
  <2>2. call' \in [Callers -> CallType]
    BY <1>9, RecordTypes DEF ExchangeFails, Fail
  <2> QED
    BY <1>9, <2>1, <2>2 DEF ExchangeFails, Fail, windowVars, IInv, TokenInv, TypeInv,
       CallType, SignInType
<1>10. ASSUME NEW c \in Callers, Rejected(c) PROVE TypeInv'
  BY <1>10, BoundsAssumption, NobodyAssumption, ThreadsAssumption DEF Rejected, Fail,
     recordVars, windowVars, providerVars, historyVars, IInv, TokenInv, TypeInv,
     Locked, NoTokens, NoCall, NoSignIn, Tokens, CallInv, At
<1>11. ASSUME NEW c \in Callers, SavePending(c) PROVE TypeInv'
  <2>1. tokens \in Tokens
    BY <1>11 DEF SavePending, At, CallInv, Working, IInv, TokenInv, TypeInv
  <2>2. call[c].refresh \in 0 .. MaxTokens
    BY <1>11 DEF CallType
  <2>3. tokens' \in Tokens \cup {NoTokens}
    BY <1>11, <2>1, <2>2, RecordTypes DEF SavePending
  <2>4. call' \in [Callers -> CallType]
    BY <1>11 DEF SavePending, Goto, Locked, CallType
  <2> QED
    BY <1>11, <2>1, <2>2, <2>3, <2>4, BoundsAssumption DEF SavePending, Goto,
       recordVars, windowVars, providerVars, historyVars, IInv, TokenInv, TypeInv,
       Locked, NoTokens, NoCall, NoSignIn, Tokens, CallInv, At, CallType, SignInType
<1>12. ASSUME NEW c \in Callers, SavePendingFails(c) PROVE TypeInv'
  BY <1>12, BoundsAssumption, NobodyAssumption, ThreadsAssumption DEF
     SavePendingFails, Fail, recordVars, windowVars, providerVars, historyVars, IInv,
     TokenInv, TypeInv, Locked, NoTokens, NoCall, NoSignIn, Tokens, CallInv, At
<1>13. ASSUME NEW c \in Callers, IdToken(c) PROVE TypeInv'
  BY <1>13, BoundsAssumption, NobodyAssumption, ThreadsAssumption DEF IdToken, Goto,
     recordVars, windowVars, providerVars, historyVars, IInv, TokenInv, TypeInv,
     Locked, NoTokens, NoCall, NoSignIn, Tokens, CallInv, At
<1>14. ASSUME NEW c \in Callers, IdTokenFails(c) PROVE TypeInv'
  BY <1>14, BoundsAssumption, NobodyAssumption, ThreadsAssumption DEF IdTokenFails,
     Fail, recordVars, windowVars, providerVars, historyVars, IInv, TokenInv, TypeInv,
     Locked, NoTokens, NoCall, NoSignIn, Tokens, CallInv, At
<1>15. ASSUME NEW c \in Callers, Save(c) PROVE TypeInv'
  BY <1>15, BoundsAssumption, NobodyAssumption, ThreadsAssumption DEF Save,
     recordVars, windowVars, providerVars, historyVars, IInv, TokenInv, TypeInv,
     Locked, NoTokens, NoCall, NoSignIn, Tokens, CallInv, At
<1>16. ASSUME NEW c \in Callers, SaveFails(c) PROVE TypeInv'
  BY <1>16, BoundsAssumption, NobodyAssumption, ThreadsAssumption DEF SaveFails, Fail,
     recordVars, windowVars, providerVars, historyVars, IInv, TokenInv, TypeInv,
     Locked, NoTokens, NoCall, NoSignIn, Tokens, CallInv, At
<1>17. CASE StartSignIn
  <2>1. signIn' \in SignInType
    BY <1>17, RecordTypes DEF StartSignIn, IInv, TokenInv, TypeInv
  <2> QED
    BY <1>17, <2>1, BoundsAssumption DEF StartSignIn, recordVars, windowVars,
       providerVars, historyVars, IInv, TokenInv, TypeInv, Locked, NoTokens, NoCall,
       NoSignIn, Tokens, CallInv, At, CallType, SignInType
<1>18. CASE ReadGeneration
  <2>1. signIn' \in SignInType
    BY <1>18, RecordTypes DEF ReadGeneration, IInv, TokenInv, TypeInv
  <2> QED
    BY <1>18, <2>1, BoundsAssumption DEF ReadGeneration, recordVars, windowVars,
       providerVars, historyVars, IInv, TokenInv, TypeInv, Locked, NoTokens, NoCall,
       NoSignIn, Tokens, CallInv, At, CallType, SignInType
<1>19. CASE Granted
  <2>1. PICK s \in Subjects :
          \/ /\ issued < MaxTokens
             /\ issued' = issued + 1
             /\ valid' = valid \cup {issued'}
             /\ signIn' = [signIn EXCEPT !.pc = "lock", !.subject = s, !.refresh = issued']
          \/ /\ signIn' = [signIn EXCEPT !.pc = "lock", !.subject = s]
             /\ UNCHANGED providerVars
    BY <1>19 DEF Granted
  <2>2. issued' \in 0 .. MaxTokens /\ valid' \subseteq 1 .. issued'
    BY <2>1, BoundsAssumption DEF providerVars, IInv, TokenInv, TypeInv
  <2>3. signIn' \in SignInType
    <3>1. [signIn EXCEPT !.pc = "lock", !.subject = s] \in SignInType
      BY BoundsAssumption DEF SignInType
    <3>2. [signIn EXCEPT !.pc = "lock", !.subject = s, !.refresh = issued'] \in SignInType
      BY <2>2 DEF SignInType
    <3> QED
      BY <2>1, <3>1, <3>2
  <2> QED
    BY <1>19, <2>2, <2>3 DEF Granted, recordVars, windowVars, historyVars, IInv, TokenInv,
       TypeInv, CallType, SignInType
<1>20. CASE SignInFails
  BY <1>20, BoundsAssumption, NobodyAssumption, ThreadsAssumption DEF SignInFails,
     recordVars, windowVars, providerVars, historyVars, IInv, TokenInv, TypeInv,
     Locked, NoTokens, NoCall, NoSignIn, Tokens, CallInv, At
<1>21. CASE LockSignIn
  BY <1>21, BoundsAssumption, NobodyAssumption, ThreadsAssumption DEF LockSignIn,
     recordVars, windowVars, providerVars, historyVars, IInv, TokenInv, TypeInv,
     Locked, NoTokens, NoCall, NoSignIn, Tokens, CallInv, At
<1>22. CASE SaveSignIn
  BY <1>22, BoundsAssumption, NobodyAssumption, ThreadsAssumption DEF SaveSignIn,
     recordVars, windowVars, providerVars, historyVars, IInv, TokenInv, TypeInv,
     Locked, NoTokens, NoCall, NoSignIn, Tokens, CallInv, At
<1>23. CASE SaveSignInFails
  BY <1>23, BoundsAssumption, NobodyAssumption, ThreadsAssumption DEF SaveSignInFails,
     recordVars, windowVars, providerVars, historyVars, IInv, TokenInv, TypeInv,
     Locked, NoTokens, NoCall, NoSignIn, Tokens, CallInv, At
<1>24. CASE ShowSignIn
  BY <1>24, BoundsAssumption, NobodyAssumption, ThreadsAssumption DEF ShowSignIn,
     recordVars, windowVars, providerVars, historyVars, IInv, TokenInv, TypeInv,
     Locked, NoTokens, NoCall, NoSignIn, Tokens, CallInv, At
<1>25. CASE StartSignOut
  BY <1>25, BoundsAssumption, NobodyAssumption, ThreadsAssumption DEF StartSignOut,
     recordVars, windowVars, providerVars, historyVars, IInv, TokenInv, TypeInv,
     Locked, NoTokens, NoCall, NoSignIn, Tokens, CallInv, At
<1>26. CASE LockSignOut
  BY <1>26, BoundsAssumption, NobodyAssumption, ThreadsAssumption DEF LockSignOut,
     recordVars, windowVars, providerVars, historyVars, IInv, TokenInv, TypeInv,
     Locked, NoTokens, NoCall, NoSignIn, Tokens, CallInv, At
<1>27. CASE Delete
  BY <1>27, BoundsAssumption, NobodyAssumption, ThreadsAssumption DEF Delete,
     recordVars, windowVars, providerVars, historyVars, IInv, TokenInv, TypeInv,
     Locked, NoTokens, NoCall, NoSignIn, Tokens, CallInv, At
<1>28. CASE DeleteFails
  BY <1>28, BoundsAssumption, NobodyAssumption, ThreadsAssumption DEF DeleteFails,
     recordVars, windowVars, providerVars, historyVars, IInv, TokenInv, TypeInv,
     Locked, NoTokens, NoCall, NoSignIn, Tokens, CallInv, At
<1>29. CASE ShowSignOut
  BY <1>29, BoundsAssumption, NobodyAssumption, ThreadsAssumption DEF ShowSignOut,
     recordVars, windowVars, providerVars, historyVars, IInv, TokenInv, TypeInv,
     Locked, NoTokens, NoCall, NoSignIn, Tokens, CallInv, At
<1>30. CASE Configure
  BY <1>30, BoundsAssumption, NobodyAssumption, ThreadsAssumption DEF Configure,
     recordVars, windowVars, providerVars, historyVars, IInv, TokenInv, TypeInv,
     Locked, NoTokens, NoCall, NoSignIn, Tokens, CallInv, At
<1>31. CASE SaveWorkspace
  BY <1>31, BoundsAssumption, NobodyAssumption, ThreadsAssumption DEF SaveWorkspace,
     recordVars, windowVars, providerVars, historyVars, IInv, TokenInv, TypeInv,
     Locked, NoTokens, NoCall, NoSignIn, Tokens, CallInv, At
<1>32. CASE Crash
  <2>1. call' \in [Callers -> CallType] /\ signIn' \in SignInType
    BY <1>32, RecordTypes DEF Crash
  <2> QED
    BY <1>32, <2>1, BoundsAssumption DEF Crash, recordVars, windowVars, providerVars,
       historyVars, IInv, TokenInv, TypeInv, Locked, NoTokens, NoCall, NoSignIn,
       Tokens, CallInv, At, CallType, SignInType
<1>33. CASE Expire
  <2>1. tokens' \in Tokens \cup {NoTokens} /\ store' \in Tokens \cup {NoTokens}
    BY <1>33, RecordTypes DEF Expire, IInv, TokenInv, TypeInv
  <2> QED
    BY <1>33, <2>1, BoundsAssumption DEF Expire, Expired, recordVars, windowVars,
       providerVars, historyVars, IInv, TokenInv, TypeInv, Locked, NoTokens, NoCall,
       NoSignIn, Tokens, CallInv, At, CallType, SignInType
<1>34. CASE UNCHANGED vars
  BY <1>34, BoundsAssumption, NobodyAssumption, ThreadsAssumption DEF vars,
     recordVars, windowVars, providerVars, historyVars, IInv, TokenInv, TypeInv,
     Locked, NoTokens, NoCall, NoSignIn, Tokens, CallInv, At
<1> QED
  BY <1>1, <1>2, <1>3, <1>4, <1>5, <1>6, <1>7, <1>8, <1>9, <1>10, <1>11, <1>12, <1>13,
     <1>14, <1>15, <1>16, <1>17, <1>18, <1>19, <1>20, <1>21, <1>22, <1>23, <1>24,
     <1>25, <1>26, <1>27, <1>28, <1>29, <1>30, <1>31, <1>32, <1>33, <1>34 DEF Next,
     CallerNext

\* Every step keeps the owner of the work lock.
LEMMA LockKept == IInv /\ [Next]_vars => LockInv'
<1> SUFFICES ASSUME IInv, [Next]_vars PROVE LockInv'
  OBVIOUS
<1>1. ASSUME NEW c \in Callers, Ask(c) PROVE LockInv'
  BY <1>1, NobodyAssumption, ThreadsAssumption DEF Ask, recordVars, windowVars,
     providerVars, historyVars, IInv, TokenInv, LockInv, Locked, At, TypeInv, NoCall,
     NoSignIn
<1>2. ASSUME NEW c \in Callers, Lock(c) PROVE LockInv'
  BY <1>2, NobodyAssumption, ThreadsAssumption DEF Lock, At, recordVars, windowVars,
     providerVars, historyVars, IInv, TokenInv, LockInv, Locked, TypeInv, NoCall,
     NoSignIn
<1>3. ASSUME NEW c \in Callers, Load(c) PROVE LockInv'
  BY <1>3, NobodyAssumption, ThreadsAssumption DEF Load, Goto, recordVars, windowVars,
     providerVars, historyVars, IInv, TokenInv, LockInv, Locked, At, TypeInv, NoCall,
     NoSignIn
<1>4. ASSUME NEW c \in Callers, LoadFails(c) PROVE LockInv'
  BY <1>4, NobodyAssumption, ThreadsAssumption DEF LoadFails, Fail, recordVars,
     windowVars, providerVars, historyVars, IInv, TokenInv, LockInv, Locked, At,
     TypeInv, NoCall, NoSignIn
<1>5. ASSUME NEW c \in Callers, Reuse(c) PROVE LockInv'
  BY <1>5, NobodyAssumption, ThreadsAssumption DEF Reuse, recordVars, windowVars,
     providerVars, historyVars, IInv, TokenInv, LockInv, Locked, At, TypeInv, NoCall,
     NoSignIn
<1>6. ASSUME NEW c \in Callers, Required(c) PROVE LockInv'
  BY <1>6, NobodyAssumption, ThreadsAssumption DEF Required, Fail, recordVars,
     windowVars, providerVars, historyVars, IInv, TokenInv, LockInv, Locked, At,
     TypeInv, NoCall, NoSignIn
<1>7. ASSUME NEW c \in Callers, NeedsRefresh(c) PROVE LockInv'
  BY <1>7, NobodyAssumption, ThreadsAssumption DEF NeedsRefresh, Goto, Matches,
     recordVars, windowVars, providerVars, historyVars, IInv, TokenInv, LockInv,
     Locked, At, TypeInv, NoCall, NoSignIn
<1>8. ASSUME NEW c \in Callers, Exchange(c) PROVE LockInv'
  BY <1>8, NobodyAssumption, ThreadsAssumption DEF Exchange, Grant, recordVars,
     windowVars, providerVars, historyVars, IInv, TokenInv, LockInv, Locked, At,
     TypeInv, NoCall, NoSignIn
<1>9. ASSUME NEW c \in Callers, ExchangeFails(c) PROVE LockInv'
  BY <1>9, NobodyAssumption, ThreadsAssumption DEF ExchangeFails, Grant, Fail,
     recordVars, windowVars, providerVars, historyVars, IInv, TokenInv, LockInv,
     Locked, At, TypeInv, NoCall, NoSignIn
<1>10. ASSUME NEW c \in Callers, Rejected(c) PROVE LockInv'
  BY <1>10, NobodyAssumption, ThreadsAssumption DEF Rejected, Fail, recordVars,
     windowVars, providerVars, historyVars, IInv, TokenInv, LockInv, Locked, At,
     TypeInv, NoCall, NoSignIn
<1>11. ASSUME NEW c \in Callers, SavePending(c) PROVE LockInv'
  BY <1>11, NobodyAssumption, ThreadsAssumption DEF SavePending, Goto, recordVars,
     windowVars, providerVars, historyVars, IInv, TokenInv, LockInv, Locked, At,
     TypeInv, NoCall, NoSignIn
<1>12. ASSUME NEW c \in Callers, SavePendingFails(c) PROVE LockInv'
  BY <1>12, NobodyAssumption, ThreadsAssumption DEF SavePendingFails, Fail,
     recordVars, windowVars, providerVars, historyVars, IInv, TokenInv, LockInv,
     Locked, At, TypeInv, NoCall, NoSignIn
<1>13. ASSUME NEW c \in Callers, IdToken(c) PROVE LockInv'
  BY <1>13, NobodyAssumption, ThreadsAssumption DEF IdToken, Goto, recordVars,
     windowVars, providerVars, historyVars, IInv, TokenInv, LockInv, Locked, At,
     TypeInv, NoCall, NoSignIn
<1>14. ASSUME NEW c \in Callers, IdTokenFails(c) PROVE LockInv'
  BY <1>14, NobodyAssumption, ThreadsAssumption DEF IdTokenFails, Fail, recordVars,
     windowVars, providerVars, historyVars, IInv, TokenInv, LockInv, Locked, At,
     TypeInv, NoCall, NoSignIn
<1>15. ASSUME NEW c \in Callers, Save(c) PROVE LockInv'
  BY <1>15, NobodyAssumption, ThreadsAssumption DEF Save, recordVars, windowVars,
     providerVars, historyVars, IInv, TokenInv, LockInv, Locked, At, TypeInv, NoCall,
     NoSignIn
<1>16. ASSUME NEW c \in Callers, SaveFails(c) PROVE LockInv'
  BY <1>16, NobodyAssumption, ThreadsAssumption DEF SaveFails, Fail, recordVars,
     windowVars, providerVars, historyVars, IInv, TokenInv, LockInv, Locked, At,
     TypeInv, NoCall, NoSignIn
<1>17. CASE StartSignIn
  BY <1>17, NobodyAssumption, ThreadsAssumption DEF StartSignIn, recordVars,
     windowVars, providerVars, historyVars, IInv, TokenInv, LockInv, Locked, At,
     TypeInv, NoCall, NoSignIn
<1>18. CASE ReadGeneration
  BY <1>18, NobodyAssumption, ThreadsAssumption DEF ReadGeneration, recordVars,
     windowVars, providerVars, historyVars, IInv, TokenInv, LockInv, Locked, At,
     TypeInv, NoCall, NoSignIn
<1>19. CASE Granted
  BY <1>19, NobodyAssumption, ThreadsAssumption DEF Granted, recordVars, windowVars,
     providerVars, historyVars, IInv, TokenInv, LockInv, Locked, At, TypeInv, NoCall,
     NoSignIn
<1>20. CASE SignInFails
  BY <1>20, NobodyAssumption, ThreadsAssumption DEF SignInFails, recordVars,
     windowVars, providerVars, historyVars, IInv, TokenInv, LockInv, Locked, At,
     TypeInv, NoCall, NoSignIn
<1>21. CASE LockSignIn
  BY <1>21, NobodyAssumption, ThreadsAssumption DEF LockSignIn, recordVars,
     windowVars, providerVars, historyVars, IInv, TokenInv, LockInv, Locked, At,
     TypeInv, NoCall, NoSignIn
<1>22. CASE SaveSignIn
  BY <1>22, NobodyAssumption, ThreadsAssumption DEF SaveSignIn, recordVars,
     windowVars, providerVars, historyVars, IInv, TokenInv, LockInv, Locked, At,
     TypeInv, NoCall, NoSignIn
<1>23. CASE SaveSignInFails
  BY <1>23, NobodyAssumption, ThreadsAssumption DEF SaveSignInFails, recordVars,
     windowVars, providerVars, historyVars, IInv, TokenInv, LockInv, Locked, At,
     TypeInv, NoCall, NoSignIn
<1>24. CASE ShowSignIn
  BY <1>24, NobodyAssumption, ThreadsAssumption DEF ShowSignIn, recordVars,
     windowVars, providerVars, historyVars, IInv, TokenInv, LockInv, Locked, At,
     TypeInv, NoCall, NoSignIn
<1>25. CASE StartSignOut
  BY <1>25, NobodyAssumption, ThreadsAssumption DEF StartSignOut, recordVars,
     windowVars, providerVars, historyVars, IInv, TokenInv, LockInv, Locked, At,
     TypeInv, NoCall, NoSignIn
<1>26. CASE LockSignOut
  BY <1>26, NobodyAssumption, ThreadsAssumption DEF LockSignOut, recordVars,
     windowVars, providerVars, historyVars, IInv, TokenInv, LockInv, Locked, At,
     TypeInv, NoCall, NoSignIn
<1>27. CASE Delete
  BY <1>27, NobodyAssumption, ThreadsAssumption DEF Delete, recordVars, windowVars,
     providerVars, historyVars, IInv, TokenInv, LockInv, Locked, At, TypeInv, NoCall,
     NoSignIn
<1>28. CASE DeleteFails
  BY <1>28, NobodyAssumption, ThreadsAssumption DEF DeleteFails, recordVars,
     windowVars, providerVars, historyVars, IInv, TokenInv, LockInv, Locked, At,
     TypeInv, NoCall, NoSignIn
<1>29. CASE ShowSignOut
  BY <1>29, NobodyAssumption, ThreadsAssumption DEF ShowSignOut, recordVars,
     windowVars, providerVars, historyVars, IInv, TokenInv, LockInv, Locked, At,
     TypeInv, NoCall, NoSignIn
<1>30. CASE Configure
  BY <1>30, NobodyAssumption, ThreadsAssumption DEF Configure, recordVars, windowVars,
     providerVars, historyVars, IInv, TokenInv, LockInv, Locked, At, TypeInv, NoCall,
     NoSignIn
<1>31. CASE SaveWorkspace
  BY <1>31, NobodyAssumption, ThreadsAssumption DEF SaveWorkspace, recordVars,
     windowVars, providerVars, historyVars, IInv, TokenInv, LockInv, Locked, At,
     TypeInv, NoCall, NoSignIn
<1>32. CASE Crash
  BY <1>32, NobodyAssumption, ThreadsAssumption DEF Crash, recordVars, windowVars,
     providerVars, historyVars, IInv, TokenInv, LockInv, Locked, At, TypeInv, NoCall,
     NoSignIn
<1>33. CASE Expire
  BY <1>33, NobodyAssumption, ThreadsAssumption DEF Expire, Expired, recordVars,
     windowVars, providerVars, historyVars, IInv, TokenInv, LockInv, Locked, At,
     TypeInv, NoCall, NoSignIn
<1>34. CASE UNCHANGED vars
  BY <1>34, NobodyAssumption, ThreadsAssumption DEF vars, recordVars, windowVars,
     providerVars, historyVars, IInv, TokenInv, LockInv, Locked, At, TypeInv, NoCall,
     NoSignIn
<1> QED
  BY <1>1, <1>2, <1>3, <1>4, <1>5, <1>6, <1>7, <1>8, <1>9, <1>10, <1>11, <1>12, <1>13,
     <1>14, <1>15, <1>16, <1>17, <1>18, <1>19, <1>20, <1>21, <1>22, <1>23, <1>24,
     <1>25, <1>26, <1>27, <1>28, <1>29, <1>30, <1>31, <1>32, <1>33, <1>34 DEF Next,
     CallerNext

\* The memory follows the store.
LEMMA MemoryKept == IInv /\ [Next]_vars => MemoryInv'
<1> SUFFICES ASSUME IInv, [Next]_vars PROVE MemoryInv'
  OBVIOUS
<1>1. ASSUME NEW c \in Callers, Ask(c) PROVE MemoryInv'
  BY <1>1 DEF Ask, recordVars, windowVars, providerVars, historyVars, IInv, TokenInv,
     MemoryInv, NoTokens, Tokens, TypeInv
<1>2. ASSUME NEW c \in Callers, Lock(c) PROVE MemoryInv'
  BY <1>2 DEF Lock, At, recordVars, windowVars, providerVars, historyVars, IInv,
     TokenInv, MemoryInv, NoTokens, Tokens, TypeInv
<1>3. ASSUME NEW c \in Callers, Load(c) PROVE MemoryInv'
  BY <1>3 DEF Load, Goto, recordVars, windowVars, providerVars, historyVars, IInv,
     TokenInv, MemoryInv, NoTokens, Tokens, TypeInv
<1>4. ASSUME NEW c \in Callers, LoadFails(c) PROVE MemoryInv'
  BY <1>4 DEF LoadFails, Fail, recordVars, windowVars, providerVars, historyVars,
     IInv, TokenInv, MemoryInv, NoTokens, Tokens, TypeInv
<1>5. ASSUME NEW c \in Callers, Reuse(c) PROVE MemoryInv'
  BY <1>5 DEF Reuse, recordVars, windowVars, providerVars, historyVars, IInv,
     TokenInv, MemoryInv, NoTokens, Tokens, TypeInv
<1>6. ASSUME NEW c \in Callers, Required(c) PROVE MemoryInv'
  BY <1>6 DEF Required, Fail, recordVars, windowVars, providerVars, historyVars, IInv,
     TokenInv, MemoryInv, NoTokens, Tokens, TypeInv
<1>7. ASSUME NEW c \in Callers, NeedsRefresh(c) PROVE MemoryInv'
  BY <1>7 DEF NeedsRefresh, Goto, Matches, recordVars, windowVars, providerVars,
     historyVars, IInv, TokenInv, MemoryInv, NoTokens, Tokens, TypeInv
<1>8. ASSUME NEW c \in Callers, Exchange(c) PROVE MemoryInv'
  BY <1>8 DEF Exchange, Grant, recordVars, windowVars, providerVars, historyVars,
     IInv, TokenInv, MemoryInv, NoTokens, Tokens, TypeInv
<1>9. ASSUME NEW c \in Callers, ExchangeFails(c) PROVE MemoryInv'
  BY <1>9 DEF ExchangeFails, Grant, Fail, recordVars, windowVars, providerVars,
     historyVars, IInv, TokenInv, MemoryInv, NoTokens, Tokens, TypeInv
<1>10. ASSUME NEW c \in Callers, Rejected(c) PROVE MemoryInv'
  BY <1>10 DEF Rejected, Fail, recordVars, windowVars, providerVars, historyVars,
     IInv, TokenInv, MemoryInv, NoTokens, Tokens, TypeInv
<1>11. ASSUME NEW c \in Callers, SavePending(c) PROVE MemoryInv'
  BY <1>11 DEF SavePending, Goto, recordVars, windowVars, providerVars, historyVars,
     IInv, TokenInv, MemoryInv, NoTokens, Tokens, TypeInv
<1>12. ASSUME NEW c \in Callers, SavePendingFails(c) PROVE MemoryInv'
  BY <1>12 DEF SavePendingFails, Fail, recordVars, windowVars, providerVars,
     historyVars, IInv, TokenInv, MemoryInv, NoTokens, Tokens, TypeInv
<1>13. ASSUME NEW c \in Callers, IdToken(c) PROVE MemoryInv'
  BY <1>13 DEF IdToken, Goto, recordVars, windowVars, providerVars, historyVars, IInv,
     TokenInv, MemoryInv, NoTokens, Tokens, TypeInv
<1>14. ASSUME NEW c \in Callers, IdTokenFails(c) PROVE MemoryInv'
  BY <1>14 DEF IdTokenFails, Fail, recordVars, windowVars, providerVars, historyVars,
     IInv, TokenInv, MemoryInv, NoTokens, Tokens, TypeInv
<1>15. ASSUME NEW c \in Callers, Save(c) PROVE MemoryInv'
  BY <1>15 DEF Save, recordVars, windowVars, providerVars, historyVars, IInv,
     TokenInv, MemoryInv, NoTokens, Tokens, TypeInv
<1>16. ASSUME NEW c \in Callers, SaveFails(c) PROVE MemoryInv'
  BY <1>16 DEF SaveFails, Fail, recordVars, windowVars, providerVars, historyVars,
     IInv, TokenInv, MemoryInv, NoTokens, Tokens, TypeInv
<1>17. CASE StartSignIn
  BY <1>17 DEF StartSignIn, recordVars, windowVars, providerVars, historyVars, IInv,
     TokenInv, MemoryInv, NoTokens, Tokens, TypeInv
<1>18. CASE ReadGeneration
  BY <1>18 DEF ReadGeneration, recordVars, windowVars, providerVars, historyVars,
     IInv, TokenInv, MemoryInv, NoTokens, Tokens, TypeInv
<1>19. CASE Granted
  BY <1>19 DEF Granted, recordVars, windowVars, providerVars, historyVars, IInv,
     TokenInv, MemoryInv, NoTokens, Tokens, TypeInv
<1>20. CASE SignInFails
  BY <1>20 DEF SignInFails, recordVars, windowVars, providerVars, historyVars, IInv,
     TokenInv, MemoryInv, NoTokens, Tokens, TypeInv
<1>21. CASE LockSignIn
  BY <1>21 DEF LockSignIn, recordVars, windowVars, providerVars, historyVars, IInv,
     TokenInv, MemoryInv, NoTokens, Tokens, TypeInv
<1>22. CASE SaveSignIn
  BY <1>22 DEF SaveSignIn, recordVars, windowVars, providerVars, historyVars, IInv,
     TokenInv, MemoryInv, NoTokens, Tokens, TypeInv
<1>23. CASE SaveSignInFails
  BY <1>23 DEF SaveSignInFails, recordVars, windowVars, providerVars, historyVars,
     IInv, TokenInv, MemoryInv, NoTokens, Tokens, TypeInv
<1>24. CASE ShowSignIn
  BY <1>24 DEF ShowSignIn, recordVars, windowVars, providerVars, historyVars, IInv,
     TokenInv, MemoryInv, NoTokens, Tokens, TypeInv
<1>25. CASE StartSignOut
  BY <1>25 DEF StartSignOut, recordVars, windowVars, providerVars, historyVars, IInv,
     TokenInv, MemoryInv, NoTokens, Tokens, TypeInv
<1>26. CASE LockSignOut
  BY <1>26 DEF LockSignOut, recordVars, windowVars, providerVars, historyVars, IInv,
     TokenInv, MemoryInv, NoTokens, Tokens, TypeInv
<1>27. CASE Delete
  BY <1>27 DEF Delete, recordVars, windowVars, providerVars, historyVars, IInv,
     TokenInv, MemoryInv, NoTokens, Tokens, TypeInv
<1>28. CASE DeleteFails
  BY <1>28 DEF DeleteFails, recordVars, windowVars, providerVars, historyVars, IInv,
     TokenInv, MemoryInv, NoTokens, Tokens, TypeInv
<1>29. CASE ShowSignOut
  BY <1>29 DEF ShowSignOut, recordVars, windowVars, providerVars, historyVars, IInv,
     TokenInv, MemoryInv, NoTokens, Tokens, TypeInv
<1>30. CASE Configure
  BY <1>30 DEF Configure, recordVars, windowVars, providerVars, historyVars, IInv,
     TokenInv, MemoryInv, NoTokens, Tokens, TypeInv
<1>31. CASE SaveWorkspace
  BY <1>31 DEF SaveWorkspace, recordVars, windowVars, providerVars, historyVars, IInv,
     TokenInv, MemoryInv, NoTokens, Tokens, TypeInv
<1>32. CASE Crash
  BY <1>32 DEF Crash, recordVars, windowVars, providerVars, historyVars, IInv,
     TokenInv, MemoryInv, NoTokens, Tokens, TypeInv
<1>33. CASE Expire
  BY <1>33, RecordTypes DEF Expire, IInv, TokenInv, MemoryInv, TypeInv
<1>34. CASE UNCHANGED vars
  BY <1>34 DEF vars, recordVars, windowVars, providerVars, historyVars, IInv,
     TokenInv, MemoryInv, NoTokens, Tokens, TypeInv
<1> QED
  BY <1>1, <1>2, <1>3, <1>4, <1>5, <1>6, <1>7, <1>8, <1>9, <1>10, <1>11, <1>12, <1>13,
     <1>14, <1>15, <1>16, <1>17, <1>18, <1>19, <1>20, <1>21, <1>22, <1>23, <1>24,
     <1>25, <1>26, <1>27, <1>28, <1>29, <1>30, <1>31, <1>32, <1>33, <1>34 DEF Next,
     CallerNext

\* A thread that refreshes keeps its tokens.
LEMMA CallKept == IInv /\ [Next]_vars => CallInv'
<1> SUFFICES ASSUME IInv, [Next]_vars PROVE CallInv'
  OBVIOUS
<1>1. ASSUME NEW c \in Callers, Ask(c) PROVE CallInv'
  BY <1>1, NobodyAssumption, ThreadsAssumption DEF Ask, recordVars, windowVars,
     providerVars, historyVars, IInv, TokenInv, CallInv, LockInv, Locked, Working, At,
     TypeInv, NoCall, NoSignIn, NoTokens, Tokens
<1>2. ASSUME NEW c \in Callers, Lock(c) PROVE CallInv'
  BY <1>2, NobodyAssumption, ThreadsAssumption DEF Lock, At, recordVars, windowVars,
     providerVars, historyVars, IInv, TokenInv, CallInv, LockInv, Locked, Working,
     TypeInv, NoCall, NoSignIn, NoTokens, Tokens
<1>3. ASSUME NEW c \in Callers, Load(c) PROVE CallInv'
  BY <1>3, NobodyAssumption, ThreadsAssumption DEF Load, Goto, recordVars, windowVars,
     providerVars, historyVars, IInv, TokenInv, CallInv, LockInv, Locked, Working, At,
     TypeInv, NoCall, NoSignIn, NoTokens, Tokens
<1>4. ASSUME NEW c \in Callers, LoadFails(c) PROVE CallInv'
  BY <1>4, NobodyAssumption, ThreadsAssumption DEF LoadFails, Fail, recordVars,
     windowVars, providerVars, historyVars, IInv, TokenInv, CallInv, LockInv, Locked,
     Working, At, TypeInv, NoCall, NoSignIn, NoTokens, Tokens
<1>5. ASSUME NEW c \in Callers, Reuse(c) PROVE CallInv'
  BY <1>5, NobodyAssumption, ThreadsAssumption DEF Reuse, recordVars, windowVars,
     providerVars, historyVars, IInv, TokenInv, CallInv, LockInv, Locked, Working, At,
     TypeInv, NoCall, NoSignIn, NoTokens, Tokens
<1>6. ASSUME NEW c \in Callers, Required(c) PROVE CallInv'
  BY <1>6, NobodyAssumption, ThreadsAssumption DEF Required, Fail, recordVars,
     windowVars, providerVars, historyVars, IInv, TokenInv, CallInv, LockInv, Locked,
     Working, At, TypeInv, NoCall, NoSignIn, NoTokens, Tokens
<1>7. ASSUME NEW c \in Callers, NeedsRefresh(c) PROVE CallInv'
  BY <1>7, NobodyAssumption, ThreadsAssumption DEF NeedsRefresh, Goto, Matches,
     recordVars, windowVars, providerVars, historyVars, IInv, TokenInv, CallInv,
     LockInv, Locked, Working, At, TypeInv, NoCall, NoSignIn, NoTokens, Tokens
<1>8. ASSUME NEW c \in Callers, Exchange(c) PROVE CallInv'
  BY <1>8, NobodyAssumption, ThreadsAssumption DEF Exchange, Grant, recordVars,
     windowVars, providerVars, historyVars, IInv, TokenInv, CallInv, LockInv, Locked,
     Working, At, TypeInv, NoCall, NoSignIn, NoTokens, Tokens
<1>9. ASSUME NEW c \in Callers, ExchangeFails(c) PROVE CallInv'
  BY <1>9, NobodyAssumption, ThreadsAssumption DEF ExchangeFails, Grant, Fail,
     recordVars, windowVars, providerVars, historyVars, IInv, TokenInv, CallInv,
     LockInv, Locked, Working, At, TypeInv, NoCall, NoSignIn, NoTokens, Tokens
<1>10. ASSUME NEW c \in Callers, Rejected(c) PROVE CallInv'
  BY <1>10, NobodyAssumption, ThreadsAssumption DEF Rejected, Fail, recordVars,
     windowVars, providerVars, historyVars, IInv, TokenInv, CallInv, LockInv, Locked,
     Working, At, TypeInv, NoCall, NoSignIn, NoTokens, Tokens
<1>11. ASSUME NEW c \in Callers, SavePending(c) PROVE CallInv'
  BY <1>11, NobodyAssumption, ThreadsAssumption DEF SavePending, Goto, recordVars,
     windowVars, providerVars, historyVars, IInv, TokenInv, CallInv, LockInv, Locked,
     Working, At, TypeInv, NoCall, NoSignIn, NoTokens, Tokens
<1>12. ASSUME NEW c \in Callers, SavePendingFails(c) PROVE CallInv'
  BY <1>12, NobodyAssumption, ThreadsAssumption DEF SavePendingFails, Fail,
     recordVars, windowVars, providerVars, historyVars, IInv, TokenInv, CallInv,
     LockInv, Locked, Working, At, TypeInv, NoCall, NoSignIn, NoTokens, Tokens
<1>13. ASSUME NEW c \in Callers, IdToken(c) PROVE CallInv'
  BY <1>13, NobodyAssumption, ThreadsAssumption DEF IdToken, Goto, recordVars,
     windowVars, providerVars, historyVars, IInv, TokenInv, CallInv, LockInv, Locked,
     Working, At, TypeInv, NoCall, NoSignIn, NoTokens, Tokens
<1>14. ASSUME NEW c \in Callers, IdTokenFails(c) PROVE CallInv'
  BY <1>14, NobodyAssumption, ThreadsAssumption DEF IdTokenFails, Fail, recordVars,
     windowVars, providerVars, historyVars, IInv, TokenInv, CallInv, LockInv, Locked,
     Working, At, TypeInv, NoCall, NoSignIn, NoTokens, Tokens
<1>15. ASSUME NEW c \in Callers, Save(c) PROVE CallInv'
  BY <1>15, NobodyAssumption, ThreadsAssumption DEF Save, recordVars, windowVars,
     providerVars, historyVars, IInv, TokenInv, CallInv, LockInv, Locked, Working, At,
     TypeInv, NoCall, NoSignIn, NoTokens, Tokens
<1>16. ASSUME NEW c \in Callers, SaveFails(c) PROVE CallInv'
  BY <1>16, NobodyAssumption, ThreadsAssumption DEF SaveFails, Fail, recordVars,
     windowVars, providerVars, historyVars, IInv, TokenInv, CallInv, LockInv, Locked,
     Working, At, TypeInv, NoCall, NoSignIn, NoTokens, Tokens
<1>17. CASE StartSignIn
  BY <1>17, NobodyAssumption, ThreadsAssumption DEF StartSignIn, recordVars,
     windowVars, providerVars, historyVars, IInv, TokenInv, CallInv, LockInv, Locked,
     Working, At, TypeInv, NoCall, NoSignIn, NoTokens, Tokens
<1>18. CASE ReadGeneration
  BY <1>18, NobodyAssumption, ThreadsAssumption DEF ReadGeneration, recordVars,
     windowVars, providerVars, historyVars, IInv, TokenInv, CallInv, LockInv, Locked,
     Working, At, TypeInv, NoCall, NoSignIn, NoTokens, Tokens
<1>19. CASE Granted
  BY <1>19, NobodyAssumption, ThreadsAssumption DEF Granted, recordVars, windowVars,
     providerVars, historyVars, IInv, TokenInv, CallInv, LockInv, Locked, Working, At,
     TypeInv, NoCall, NoSignIn, NoTokens, Tokens
<1>20. CASE SignInFails
  BY <1>20, NobodyAssumption, ThreadsAssumption DEF SignInFails, recordVars,
     windowVars, providerVars, historyVars, IInv, TokenInv, CallInv, LockInv, Locked,
     Working, At, TypeInv, NoCall, NoSignIn, NoTokens, Tokens
<1>21. CASE LockSignIn
  BY <1>21, NobodyAssumption, ThreadsAssumption DEF LockSignIn, recordVars,
     windowVars, providerVars, historyVars, IInv, TokenInv, CallInv, LockInv, Locked,
     Working, At, TypeInv, NoCall, NoSignIn, NoTokens, Tokens
<1>22. CASE SaveSignIn
  BY <1>22, NobodyAssumption, ThreadsAssumption DEF SaveSignIn, recordVars,
     windowVars, providerVars, historyVars, IInv, TokenInv, CallInv, LockInv, Locked,
     Working, At, TypeInv, NoCall, NoSignIn, NoTokens, Tokens
<1>23. CASE SaveSignInFails
  BY <1>23, NobodyAssumption, ThreadsAssumption DEF SaveSignInFails, recordVars,
     windowVars, providerVars, historyVars, IInv, TokenInv, CallInv, LockInv, Locked,
     Working, At, TypeInv, NoCall, NoSignIn, NoTokens, Tokens
<1>24. CASE ShowSignIn
  BY <1>24, NobodyAssumption, ThreadsAssumption DEF ShowSignIn, recordVars,
     windowVars, providerVars, historyVars, IInv, TokenInv, CallInv, LockInv, Locked,
     Working, At, TypeInv, NoCall, NoSignIn, NoTokens, Tokens
<1>25. CASE StartSignOut
  BY <1>25, NobodyAssumption, ThreadsAssumption DEF StartSignOut, recordVars,
     windowVars, providerVars, historyVars, IInv, TokenInv, CallInv, LockInv, Locked,
     Working, At, TypeInv, NoCall, NoSignIn, NoTokens, Tokens
<1>26. CASE LockSignOut
  BY <1>26, NobodyAssumption, ThreadsAssumption DEF LockSignOut, recordVars,
     windowVars, providerVars, historyVars, IInv, TokenInv, CallInv, LockInv, Locked,
     Working, At, TypeInv, NoCall, NoSignIn, NoTokens, Tokens
<1>27. CASE Delete
  BY <1>27, NobodyAssumption, ThreadsAssumption DEF Delete, recordVars, windowVars,
     providerVars, historyVars, IInv, TokenInv, CallInv, LockInv, Locked, Working, At,
     TypeInv, NoCall, NoSignIn, NoTokens, Tokens
<1>28. CASE DeleteFails
  BY <1>28, NobodyAssumption, ThreadsAssumption DEF DeleteFails, recordVars,
     windowVars, providerVars, historyVars, IInv, TokenInv, CallInv, LockInv, Locked,
     Working, At, TypeInv, NoCall, NoSignIn, NoTokens, Tokens
<1>29. CASE ShowSignOut
  BY <1>29, NobodyAssumption, ThreadsAssumption DEF ShowSignOut, recordVars,
     windowVars, providerVars, historyVars, IInv, TokenInv, CallInv, LockInv, Locked,
     Working, At, TypeInv, NoCall, NoSignIn, NoTokens, Tokens
<1>30. CASE Configure
  BY <1>30, NobodyAssumption, ThreadsAssumption DEF Configure, recordVars, windowVars,
     providerVars, historyVars, IInv, TokenInv, CallInv, LockInv, Locked, Working, At,
     TypeInv, NoCall, NoSignIn, NoTokens, Tokens
<1>31. CASE SaveWorkspace
  BY <1>31, NobodyAssumption, ThreadsAssumption DEF SaveWorkspace, recordVars,
     windowVars, providerVars, historyVars, IInv, TokenInv, CallInv, LockInv, Locked,
     Working, At, TypeInv, NoCall, NoSignIn, NoTokens, Tokens
<1>32. CASE Crash
  BY <1>32, NobodyAssumption, ThreadsAssumption DEF Crash, recordVars, windowVars,
     providerVars, historyVars, IInv, TokenInv, CallInv, LockInv, Locked, Working, At,
     TypeInv, NoCall, NoSignIn, NoTokens, Tokens
<1>33. CASE Expire
  BY <1>33, NobodyAssumption, ThreadsAssumption DEF Expire, Expired, recordVars,
     windowVars, providerVars, historyVars, IInv, TokenInv, CallInv, LockInv, Locked,
     Working, At, TypeInv, NoCall, NoSignIn, NoTokens, Tokens
<1>34. CASE UNCHANGED vars
  BY <1>34, NobodyAssumption, ThreadsAssumption DEF vars, recordVars, windowVars,
     providerVars, historyVars, IInv, TokenInv, CallInv, LockInv, Locked, Working, At,
     TypeInv, NoCall, NoSignIn, NoTokens, Tokens
<1> QED
  BY <1>1, <1>2, <1>3, <1>4, <1>5, <1>6, <1>7, <1>8, <1>9, <1>10, <1>11, <1>12, <1>13,
     <1>14, <1>15, <1>16, <1>17, <1>18, <1>19, <1>20, <1>21, <1>22, <1>23, <1>24,
     <1>25, <1>26, <1>27, <1>28, <1>29, <1>30, <1>31, <1>32, <1>33, <1>34 DEF Next,
     CallerNext

\* New refresh tokens stay with their thread.
LEMMA RefreshKept == IInv /\ [Next]_vars => RefreshInv'
<1> SUFFICES ASSUME IInv, [Next]_vars PROVE RefreshInv'
  OBVIOUS
<1>1. ASSUME NEW c \in Callers, Ask(c) PROVE RefreshInv'
  BY <1>1, NobodyAssumption, ThreadsAssumption, BoundsAssumption DEF Ask, recordVars,
     windowVars, providerVars, historyVars, IInv, TokenInv, RefreshInv, CallInv,
     LockInv, Locked, Refreshed, Working, At, TypeInv, NoCall, NoSignIn, NoTokens,
     Tokens
<1>2. ASSUME NEW c \in Callers, Lock(c) PROVE RefreshInv'
  BY <1>2, NobodyAssumption, ThreadsAssumption, BoundsAssumption DEF Lock, At,
     recordVars, windowVars, providerVars, historyVars, IInv, TokenInv, RefreshInv,
     CallInv, LockInv, Locked, Refreshed, Working, TypeInv, NoCall, NoSignIn,
     NoTokens, Tokens
<1>3. ASSUME NEW c \in Callers, Load(c) PROVE RefreshInv'
  BY <1>3, NobodyAssumption, ThreadsAssumption, BoundsAssumption DEF Load, Goto,
     recordVars, windowVars, providerVars, historyVars, IInv, TokenInv, RefreshInv,
     CallInv, LockInv, Locked, Refreshed, Working, At, TypeInv, NoCall, NoSignIn,
     NoTokens, Tokens
<1>4. ASSUME NEW c \in Callers, LoadFails(c) PROVE RefreshInv'
  BY <1>4, NobodyAssumption, ThreadsAssumption, BoundsAssumption DEF LoadFails, Fail,
     recordVars, windowVars, providerVars, historyVars, IInv, TokenInv, RefreshInv,
     CallInv, LockInv, Locked, Refreshed, Working, At, TypeInv, NoCall, NoSignIn,
     NoTokens, Tokens
<1>5. ASSUME NEW c \in Callers, Reuse(c) PROVE RefreshInv'
  BY <1>5, NobodyAssumption, ThreadsAssumption, BoundsAssumption DEF Reuse,
     recordVars, windowVars, providerVars, historyVars, IInv, TokenInv, RefreshInv,
     CallInv, LockInv, Locked, Refreshed, Working, At, TypeInv, NoCall, NoSignIn,
     NoTokens, Tokens
<1>6. ASSUME NEW c \in Callers, Required(c) PROVE RefreshInv'
  BY <1>6, NobodyAssumption, ThreadsAssumption, BoundsAssumption DEF Required, Fail,
     recordVars, windowVars, providerVars, historyVars, IInv, TokenInv, RefreshInv,
     CallInv, LockInv, Locked, Refreshed, Working, At, TypeInv, NoCall, NoSignIn,
     NoTokens, Tokens
<1>7. ASSUME NEW c \in Callers, NeedsRefresh(c) PROVE RefreshInv'
  BY <1>7, NobodyAssumption, ThreadsAssumption, BoundsAssumption DEF NeedsRefresh,
     Goto, Matches, recordVars, windowVars, providerVars, historyVars, IInv, TokenInv,
     RefreshInv, CallInv, LockInv, Locked, Refreshed, Working, At, TypeInv, NoCall,
     NoSignIn, NoTokens, Tokens
<1>8. ASSUME NEW c \in Callers, Exchange(c) PROVE RefreshInv'
  BY <1>8, NobodyAssumption, ThreadsAssumption, BoundsAssumption DEF Exchange, Grant,
     recordVars, windowVars, providerVars, historyVars, IInv, TokenInv, RefreshInv,
     CallInv, LockInv, Locked, Refreshed, Working, At, TypeInv, NoCall, NoSignIn,
     NoTokens, Tokens
<1>9. ASSUME NEW c \in Callers, ExchangeFails(c) PROVE RefreshInv'
  BY <1>9, NobodyAssumption, ThreadsAssumption, BoundsAssumption DEF ExchangeFails,
     Grant, Fail, recordVars, windowVars, providerVars, historyVars, IInv, TokenInv,
     RefreshInv, CallInv, LockInv, Locked, Refreshed, Working, At, TypeInv, NoCall,
     NoSignIn, NoTokens, Tokens
<1>10. ASSUME NEW c \in Callers, Rejected(c) PROVE RefreshInv'
  BY <1>10, NobodyAssumption, ThreadsAssumption, BoundsAssumption DEF Rejected, Fail,
     recordVars, windowVars, providerVars, historyVars, IInv, TokenInv, RefreshInv,
     CallInv, LockInv, Locked, Refreshed, Working, At, TypeInv, NoCall, NoSignIn,
     NoTokens, Tokens
<1>11. ASSUME NEW c \in Callers, SavePending(c) PROVE RefreshInv'
  BY <1>11, NobodyAssumption, ThreadsAssumption, BoundsAssumption DEF SavePending,
     Goto, recordVars, windowVars, providerVars, historyVars, IInv, TokenInv,
     RefreshInv, CallInv, LockInv, Locked, Refreshed, Working, At, TypeInv, NoCall,
     NoSignIn, NoTokens, Tokens
<1>12. ASSUME NEW c \in Callers, SavePendingFails(c) PROVE RefreshInv'
  BY <1>12, NobodyAssumption, ThreadsAssumption, BoundsAssumption DEF
     SavePendingFails, Fail, recordVars, windowVars, providerVars, historyVars, IInv,
     TokenInv, RefreshInv, CallInv, LockInv, Locked, Refreshed, Working, At, TypeInv,
     NoCall, NoSignIn, NoTokens, Tokens
<1>13. ASSUME NEW c \in Callers, IdToken(c) PROVE RefreshInv'
  BY <1>13, NobodyAssumption, ThreadsAssumption, BoundsAssumption DEF IdToken, Goto,
     recordVars, windowVars, providerVars, historyVars, IInv, TokenInv, RefreshInv,
     CallInv, LockInv, Locked, Refreshed, Working, At, TypeInv, NoCall, NoSignIn,
     NoTokens, Tokens
<1>14. ASSUME NEW c \in Callers, IdTokenFails(c) PROVE RefreshInv'
  BY <1>14, NobodyAssumption, ThreadsAssumption, BoundsAssumption DEF IdTokenFails,
     Fail, recordVars, windowVars, providerVars, historyVars, IInv, TokenInv,
     RefreshInv, CallInv, LockInv, Locked, Refreshed, Working, At, TypeInv, NoCall,
     NoSignIn, NoTokens, Tokens
<1>15. ASSUME NEW c \in Callers, Save(c) PROVE RefreshInv'
  BY <1>15, NobodyAssumption, ThreadsAssumption, BoundsAssumption DEF Save,
     recordVars, windowVars, providerVars, historyVars, IInv, TokenInv, RefreshInv,
     CallInv, LockInv, Locked, Refreshed, Working, At, TypeInv, NoCall, NoSignIn,
     NoTokens, Tokens
<1>16. ASSUME NEW c \in Callers, SaveFails(c) PROVE RefreshInv'
  BY <1>16, NobodyAssumption, ThreadsAssumption, BoundsAssumption DEF SaveFails, Fail,
     recordVars, windowVars, providerVars, historyVars, IInv, TokenInv, RefreshInv,
     CallInv, LockInv, Locked, Refreshed, Working, At, TypeInv, NoCall, NoSignIn,
     NoTokens, Tokens
<1>17. CASE StartSignIn
  BY <1>17, NobodyAssumption, ThreadsAssumption, BoundsAssumption DEF StartSignIn,
     recordVars, windowVars, providerVars, historyVars, IInv, TokenInv, RefreshInv,
     CallInv, LockInv, Locked, Refreshed, Working, At, TypeInv, NoCall, NoSignIn,
     NoTokens, Tokens
<1>18. CASE ReadGeneration
  BY <1>18, NobodyAssumption, ThreadsAssumption, BoundsAssumption DEF ReadGeneration,
     recordVars, windowVars, providerVars, historyVars, IInv, TokenInv, RefreshInv,
     CallInv, LockInv, Locked, Refreshed, Working, At, TypeInv, NoCall, NoSignIn,
     NoTokens, Tokens
<1>19. CASE Granted
  <2>1. UNCHANGED <<tokens, store, call>>
    BY <1>19 DEF Granted, recordVars
  <2>2. PICK s \in Subjects :
          \/ /\ issued < MaxTokens
             /\ issued' = issued + 1
             /\ valid' = valid \cup {issued'}
             /\ signIn' = [signIn EXCEPT !.pc = "lock", !.subject = s, !.refresh = issued']
          \/ /\ signIn' = [signIn EXCEPT !.pc = "lock", !.subject = s]
             /\ UNCHANGED providerVars
    BY <1>19 DEF Granted
  <2>3. CASE UNCHANGED providerVars
    <3>1. signIn'.refresh = 0 /\ signIn'.pc = "lock"
      <4>1. signIn' = [signIn EXCEPT !.pc = "lock", !.subject = s]
        BY <2>2, <2>3 DEF providerVars, IInv, TokenInv, TypeInv
      <4>2. signIn.refresh = 0
        BY <1>19 DEF Granted, IInv, TokenInv, RefreshInv
      <4> QED
        BY <4>1, <4>2 DEF IInv, TokenInv, TypeInv
    <3> QED
      BY <2>1, <2>3, <3>1 DEF providerVars, IInv, TokenInv, RefreshInv
  <2>4. CASE issued' = issued + 1 /\ valid' = valid \cup {issued'} /\ signIn'.refresh = issued'
             /\ signIn'.pc = "lock"
    <3>1. issued' \notin valid /\ issued' \notin 0 .. issued /\ issued \in Nat
      BY <2>4 DEF IInv, TokenInv, TypeInv
    <3>2. {tokens'.refresh, store'.refresh} \subseteq 0 .. issued
      BY <2>1 DEF IInv, TokenInv, RefreshInv
    <3>3. \A c \in Callers : call'[c].pc \in Refreshed =>
                               call'[c].refresh \in valid /\ call'[c].refresh # issued'
      BY <2>1, <3>1 DEF IInv, TokenInv, RefreshInv
    <3> QED
      BY <2>4, <3>1, <3>2, <3>3 DEF RefreshInv
  <2> QED
    BY <2>2, <2>3, <2>4 DEF IInv, TokenInv, TypeInv
<1>20. CASE SignInFails
  BY <1>20, NobodyAssumption, ThreadsAssumption, BoundsAssumption DEF SignInFails,
     recordVars, windowVars, providerVars, historyVars, IInv, TokenInv, RefreshInv,
     CallInv, LockInv, Locked, Refreshed, Working, At, TypeInv, NoCall, NoSignIn,
     NoTokens, Tokens
<1>21. CASE LockSignIn
  BY <1>21, NobodyAssumption, ThreadsAssumption, BoundsAssumption DEF LockSignIn,
     recordVars, windowVars, providerVars, historyVars, IInv, TokenInv, RefreshInv,
     CallInv, LockInv, Locked, Refreshed, Working, At, TypeInv, NoCall, NoSignIn,
     NoTokens, Tokens
<1>22. CASE SaveSignIn
  BY <1>22, NobodyAssumption, ThreadsAssumption, BoundsAssumption DEF SaveSignIn,
     recordVars, windowVars, providerVars, historyVars, IInv, TokenInv, RefreshInv,
     CallInv, LockInv, Locked, Refreshed, Working, At, TypeInv, NoCall, NoSignIn,
     NoTokens, Tokens
<1>23. CASE SaveSignInFails
  BY <1>23, NobodyAssumption, ThreadsAssumption, BoundsAssumption DEF SaveSignInFails,
     recordVars, windowVars, providerVars, historyVars, IInv, TokenInv, RefreshInv,
     CallInv, LockInv, Locked, Refreshed, Working, At, TypeInv, NoCall, NoSignIn,
     NoTokens, Tokens
<1>24. CASE ShowSignIn
  BY <1>24, NobodyAssumption, ThreadsAssumption, BoundsAssumption DEF ShowSignIn,
     recordVars, windowVars, providerVars, historyVars, IInv, TokenInv, RefreshInv,
     CallInv, LockInv, Locked, Refreshed, Working, At, TypeInv, NoCall, NoSignIn,
     NoTokens, Tokens
<1>25. CASE StartSignOut
  BY <1>25, NobodyAssumption, ThreadsAssumption, BoundsAssumption DEF StartSignOut,
     recordVars, windowVars, providerVars, historyVars, IInv, TokenInv, RefreshInv,
     CallInv, LockInv, Locked, Refreshed, Working, At, TypeInv, NoCall, NoSignIn,
     NoTokens, Tokens
<1>26. CASE LockSignOut
  BY <1>26, NobodyAssumption, ThreadsAssumption, BoundsAssumption DEF LockSignOut,
     recordVars, windowVars, providerVars, historyVars, IInv, TokenInv, RefreshInv,
     CallInv, LockInv, Locked, Refreshed, Working, At, TypeInv, NoCall, NoSignIn,
     NoTokens, Tokens
<1>27. CASE Delete
  BY <1>27, NobodyAssumption, ThreadsAssumption, BoundsAssumption DEF Delete,
     recordVars, windowVars, providerVars, historyVars, IInv, TokenInv, RefreshInv,
     CallInv, LockInv, Locked, Refreshed, Working, At, TypeInv, NoCall, NoSignIn,
     NoTokens, Tokens
<1>28. CASE DeleteFails
  BY <1>28, NobodyAssumption, ThreadsAssumption, BoundsAssumption DEF DeleteFails,
     recordVars, windowVars, providerVars, historyVars, IInv, TokenInv, RefreshInv,
     CallInv, LockInv, Locked, Refreshed, Working, At, TypeInv, NoCall, NoSignIn,
     NoTokens, Tokens
<1>29. CASE ShowSignOut
  BY <1>29, NobodyAssumption, ThreadsAssumption, BoundsAssumption DEF ShowSignOut,
     recordVars, windowVars, providerVars, historyVars, IInv, TokenInv, RefreshInv,
     CallInv, LockInv, Locked, Refreshed, Working, At, TypeInv, NoCall, NoSignIn,
     NoTokens, Tokens
<1>30. CASE Configure
  BY <1>30, NobodyAssumption, ThreadsAssumption, BoundsAssumption DEF Configure,
     recordVars, windowVars, providerVars, historyVars, IInv, TokenInv, RefreshInv,
     CallInv, LockInv, Locked, Refreshed, Working, At, TypeInv, NoCall, NoSignIn,
     NoTokens, Tokens
<1>31. CASE SaveWorkspace
  BY <1>31, NobodyAssumption, ThreadsAssumption, BoundsAssumption DEF SaveWorkspace,
     recordVars, windowVars, providerVars, historyVars, IInv, TokenInv, RefreshInv,
     CallInv, LockInv, Locked, Refreshed, Working, At, TypeInv, NoCall, NoSignIn,
     NoTokens, Tokens
<1>32. CASE Crash
  BY <1>32, NobodyAssumption, ThreadsAssumption, BoundsAssumption DEF Crash,
     recordVars, windowVars, providerVars, historyVars, IInv, TokenInv, RefreshInv,
     CallInv, LockInv, Locked, Refreshed, Working, At, TypeInv, NoCall, NoSignIn,
     NoTokens, Tokens
<1>33. CASE Expire
  BY <1>33, NobodyAssumption, ThreadsAssumption, BoundsAssumption DEF Expire, Expired,
     recordVars, windowVars, providerVars, historyVars, IInv, TokenInv, RefreshInv,
     CallInv, LockInv, Locked, Refreshed, Working, At, TypeInv, NoCall, NoSignIn,
     NoTokens, Tokens
<1>34. CASE UNCHANGED vars
  BY <1>34, NobodyAssumption, ThreadsAssumption, BoundsAssumption DEF vars,
     recordVars, windowVars, providerVars, historyVars, IInv, TokenInv, RefreshInv,
     CallInv, LockInv, Locked, Refreshed, Working, At, TypeInv, NoCall, NoSignIn,
     NoTokens, Tokens
<1> QED
  BY <1>1, <1>2, <1>3, <1>4, <1>5, <1>6, <1>7, <1>8, <1>9, <1>10, <1>11, <1>12, <1>13,
     <1>14, <1>15, <1>16, <1>17, <1>18, <1>19, <1>20, <1>21, <1>22, <1>23, <1>24,
     <1>25, <1>26, <1>27, <1>28, <1>29, <1>30, <1>31, <1>32, <1>33, <1>34 DEF Next,
     CallerNext

\* No step brings tokens back.
LEMMA SignedOutKept == IInv /\ [Next]_vars => SignedOutStaysOut'
<1> SUFFICES ASSUME IInv, [Next]_vars PROVE SignedOutStaysOut'
  OBVIOUS
<1>1. ASSUME NEW c \in Callers, Ask(c) PROVE SignedOutStaysOut'
  BY <1>1, NobodyAssumption, ThreadsAssumption DEF Ask, recordVars, windowVars,
     providerVars, historyVars, IInv, TokenInv, SignedOutStaysOut, CallInv, Working,
     At, NoTokens, Tokens, TypeInv
<1>2. ASSUME NEW c \in Callers, Lock(c) PROVE SignedOutStaysOut'
  BY <1>2, NobodyAssumption, ThreadsAssumption DEF Lock, At, recordVars, windowVars,
     providerVars, historyVars, IInv, TokenInv, SignedOutStaysOut, CallInv, Working,
     NoTokens, Tokens, TypeInv
<1>3. ASSUME NEW c \in Callers, Load(c) PROVE SignedOutStaysOut'
  BY <1>3, NobodyAssumption, ThreadsAssumption DEF Load, Goto, recordVars, windowVars,
     providerVars, historyVars, IInv, TokenInv, SignedOutStaysOut, CallInv, Working,
     At, NoTokens, Tokens, TypeInv
<1>4. ASSUME NEW c \in Callers, LoadFails(c) PROVE SignedOutStaysOut'
  BY <1>4, NobodyAssumption, ThreadsAssumption DEF LoadFails, Fail, recordVars,
     windowVars, providerVars, historyVars, IInv, TokenInv, SignedOutStaysOut,
     CallInv, Working, At, NoTokens, Tokens, TypeInv
<1>5. ASSUME NEW c \in Callers, Reuse(c) PROVE SignedOutStaysOut'
  BY <1>5, NobodyAssumption, ThreadsAssumption DEF Reuse, recordVars, windowVars,
     providerVars, historyVars, IInv, TokenInv, SignedOutStaysOut, CallInv, Working,
     At, NoTokens, Tokens, TypeInv
<1>6. ASSUME NEW c \in Callers, Required(c) PROVE SignedOutStaysOut'
  BY <1>6, NobodyAssumption, ThreadsAssumption DEF Required, Fail, recordVars,
     windowVars, providerVars, historyVars, IInv, TokenInv, SignedOutStaysOut,
     CallInv, Working, At, NoTokens, Tokens, TypeInv
<1>7. ASSUME NEW c \in Callers, NeedsRefresh(c) PROVE SignedOutStaysOut'
  BY <1>7, NobodyAssumption, ThreadsAssumption DEF NeedsRefresh, Goto, Matches,
     recordVars, windowVars, providerVars, historyVars, IInv, TokenInv,
     SignedOutStaysOut, CallInv, Working, At, NoTokens, Tokens, TypeInv
<1>8. ASSUME NEW c \in Callers, Exchange(c) PROVE SignedOutStaysOut'
  BY <1>8, NobodyAssumption, ThreadsAssumption DEF Exchange, Grant, recordVars,
     windowVars, providerVars, historyVars, IInv, TokenInv, SignedOutStaysOut,
     CallInv, Working, At, NoTokens, Tokens, TypeInv
<1>9. ASSUME NEW c \in Callers, ExchangeFails(c) PROVE SignedOutStaysOut'
  BY <1>9, NobodyAssumption, ThreadsAssumption DEF ExchangeFails, Grant, Fail,
     recordVars, windowVars, providerVars, historyVars, IInv, TokenInv,
     SignedOutStaysOut, CallInv, Working, At, NoTokens, Tokens, TypeInv
<1>10. ASSUME NEW c \in Callers, Rejected(c) PROVE SignedOutStaysOut'
  BY <1>10, NobodyAssumption, ThreadsAssumption DEF Rejected, Fail, recordVars,
     windowVars, providerVars, historyVars, IInv, TokenInv, SignedOutStaysOut,
     CallInv, Working, At, NoTokens, Tokens, TypeInv
<1>11. ASSUME NEW c \in Callers, SavePending(c) PROVE SignedOutStaysOut'
  BY <1>11, NobodyAssumption, ThreadsAssumption DEF SavePending, Goto, recordVars,
     windowVars, providerVars, historyVars, IInv, TokenInv, SignedOutStaysOut,
     CallInv, Working, At, NoTokens, Tokens, TypeInv
<1>12. ASSUME NEW c \in Callers, SavePendingFails(c) PROVE SignedOutStaysOut'
  BY <1>12, NobodyAssumption, ThreadsAssumption DEF SavePendingFails, Fail,
     recordVars, windowVars, providerVars, historyVars, IInv, TokenInv,
     SignedOutStaysOut, CallInv, Working, At, NoTokens, Tokens, TypeInv
<1>13. ASSUME NEW c \in Callers, IdToken(c) PROVE SignedOutStaysOut'
  BY <1>13, NobodyAssumption, ThreadsAssumption DEF IdToken, Goto, recordVars,
     windowVars, providerVars, historyVars, IInv, TokenInv, SignedOutStaysOut,
     CallInv, Working, At, NoTokens, Tokens, TypeInv
<1>14. ASSUME NEW c \in Callers, IdTokenFails(c) PROVE SignedOutStaysOut'
  BY <1>14, NobodyAssumption, ThreadsAssumption DEF IdTokenFails, Fail, recordVars,
     windowVars, providerVars, historyVars, IInv, TokenInv, SignedOutStaysOut,
     CallInv, Working, At, NoTokens, Tokens, TypeInv
<1>15. ASSUME NEW c \in Callers, Save(c) PROVE SignedOutStaysOut'
  BY <1>15, NobodyAssumption, ThreadsAssumption DEF Save, recordVars, windowVars,
     providerVars, historyVars, IInv, TokenInv, SignedOutStaysOut, CallInv, Working,
     At, NoTokens, Tokens, TypeInv
<1>16. ASSUME NEW c \in Callers, SaveFails(c) PROVE SignedOutStaysOut'
  BY <1>16, NobodyAssumption, ThreadsAssumption DEF SaveFails, Fail, recordVars,
     windowVars, providerVars, historyVars, IInv, TokenInv, SignedOutStaysOut,
     CallInv, Working, At, NoTokens, Tokens, TypeInv
<1>17. CASE StartSignIn
  BY <1>17, NobodyAssumption, ThreadsAssumption DEF StartSignIn, recordVars,
     windowVars, providerVars, historyVars, IInv, TokenInv, SignedOutStaysOut,
     CallInv, Working, At, NoTokens, Tokens, TypeInv
<1>18. CASE ReadGeneration
  BY <1>18, NobodyAssumption, ThreadsAssumption DEF ReadGeneration, recordVars,
     windowVars, providerVars, historyVars, IInv, TokenInv, SignedOutStaysOut,
     CallInv, Working, At, NoTokens, Tokens, TypeInv
<1>19. CASE Granted
  BY <1>19, NobodyAssumption, ThreadsAssumption DEF Granted, recordVars, windowVars,
     providerVars, historyVars, IInv, TokenInv, SignedOutStaysOut, CallInv, Working,
     At, NoTokens, Tokens, TypeInv
<1>20. CASE SignInFails
  BY <1>20, NobodyAssumption, ThreadsAssumption DEF SignInFails, recordVars,
     windowVars, providerVars, historyVars, IInv, TokenInv, SignedOutStaysOut,
     CallInv, Working, At, NoTokens, Tokens, TypeInv
<1>21. CASE LockSignIn
  BY <1>21, NobodyAssumption, ThreadsAssumption DEF LockSignIn, recordVars,
     windowVars, providerVars, historyVars, IInv, TokenInv, SignedOutStaysOut,
     CallInv, Working, At, NoTokens, Tokens, TypeInv
<1>22. CASE SaveSignIn
  BY <1>22, NobodyAssumption, ThreadsAssumption DEF SaveSignIn, recordVars,
     windowVars, providerVars, historyVars, IInv, TokenInv, SignedOutStaysOut,
     CallInv, Working, At, NoTokens, Tokens, TypeInv
<1>23. CASE SaveSignInFails
  BY <1>23, NobodyAssumption, ThreadsAssumption DEF SaveSignInFails, recordVars,
     windowVars, providerVars, historyVars, IInv, TokenInv, SignedOutStaysOut,
     CallInv, Working, At, NoTokens, Tokens, TypeInv
<1>24. CASE ShowSignIn
  BY <1>24, NobodyAssumption, ThreadsAssumption DEF ShowSignIn, recordVars,
     windowVars, providerVars, historyVars, IInv, TokenInv, SignedOutStaysOut,
     CallInv, Working, At, NoTokens, Tokens, TypeInv
<1>25. CASE StartSignOut
  BY <1>25, NobodyAssumption, ThreadsAssumption DEF StartSignOut, recordVars,
     windowVars, providerVars, historyVars, IInv, TokenInv, SignedOutStaysOut,
     CallInv, Working, At, NoTokens, Tokens, TypeInv
<1>26. CASE LockSignOut
  BY <1>26, NobodyAssumption, ThreadsAssumption DEF LockSignOut, recordVars,
     windowVars, providerVars, historyVars, IInv, TokenInv, SignedOutStaysOut,
     CallInv, Working, At, NoTokens, Tokens, TypeInv
<1>27. CASE Delete
  BY <1>27, NobodyAssumption, ThreadsAssumption DEF Delete, recordVars, windowVars,
     providerVars, historyVars, IInv, TokenInv, SignedOutStaysOut, CallInv, Working,
     At, NoTokens, Tokens, TypeInv
<1>28. CASE DeleteFails
  BY <1>28, NobodyAssumption, ThreadsAssumption DEF DeleteFails, recordVars,
     windowVars, providerVars, historyVars, IInv, TokenInv, SignedOutStaysOut,
     CallInv, Working, At, NoTokens, Tokens, TypeInv
<1>29. CASE ShowSignOut
  BY <1>29, NobodyAssumption, ThreadsAssumption DEF ShowSignOut, recordVars,
     windowVars, providerVars, historyVars, IInv, TokenInv, SignedOutStaysOut,
     CallInv, Working, At, NoTokens, Tokens, TypeInv
<1>30. CASE Configure
  BY <1>30, NobodyAssumption, ThreadsAssumption DEF Configure, recordVars, windowVars,
     providerVars, historyVars, IInv, TokenInv, SignedOutStaysOut, CallInv, Working,
     At, NoTokens, Tokens, TypeInv
<1>31. CASE SaveWorkspace
  BY <1>31, NobodyAssumption, ThreadsAssumption DEF SaveWorkspace, recordVars,
     windowVars, providerVars, historyVars, IInv, TokenInv, SignedOutStaysOut,
     CallInv, Working, At, NoTokens, Tokens, TypeInv
<1>32. CASE Crash
  BY <1>32, NobodyAssumption, ThreadsAssumption DEF Crash, recordVars, windowVars,
     providerVars, historyVars, IInv, TokenInv, SignedOutStaysOut, CallInv, Working,
     At, NoTokens, Tokens, TypeInv
<1>33. CASE Expire
  BY <1>33, NobodyAssumption, ThreadsAssumption DEF Expire, Expired, recordVars,
     windowVars, providerVars, historyVars, IInv, TokenInv, SignedOutStaysOut,
     CallInv, Working, At, NoTokens, Tokens, TypeInv
<1>34. CASE UNCHANGED vars
  BY <1>34, NobodyAssumption, ThreadsAssumption DEF vars, recordVars, windowVars,
     providerVars, historyVars, IInv, TokenInv, SignedOutStaysOut, CallInv, Working,
     At, NoTokens, Tokens, TypeInv
<1> QED
  BY <1>1, <1>2, <1>3, <1>4, <1>5, <1>6, <1>7, <1>8, <1>9, <1>10, <1>11, <1>12, <1>13,
     <1>14, <1>15, <1>16, <1>17, <1>18, <1>19, <1>20, <1>21, <1>22, <1>23, <1>24,
     <1>25, <1>26, <1>27, <1>28, <1>29, <1>30, <1>31, <1>32, <1>33, <1>34 DEF Next,
     CallerNext

\* No step loses the newest token.
LEMMA NewestKept == IInv /\ [Next]_vars => NewestIsKept'
<1> SUFFICES ASSUME IInv, [Next]_vars PROVE NewestIsKept'
  OBVIOUS
<1>1. ASSUME NEW c \in Callers, Ask(c) PROVE NewestIsKept'
  BY <1>1, NobodyAssumption, ThreadsAssumption DEF Ask, recordVars, windowVars,
     providerVars, historyVars, IInv, TokenInv, NewestIsKept, Settled, RefreshInv,
     CallInv, MemoryInv, LockInv, Locked, Refreshed, Working, At, NoTokens, NoCall,
     Tokens, TypeInv
<1>2. ASSUME NEW c \in Callers, Lock(c) PROVE NewestIsKept'
  BY <1>2, NobodyAssumption, ThreadsAssumption DEF Lock, At, recordVars, windowVars,
     providerVars, historyVars, IInv, TokenInv, NewestIsKept, Settled, RefreshInv,
     CallInv, MemoryInv, LockInv, Locked, Refreshed, Working, NoTokens, NoCall,
     Tokens, TypeInv
<1>3. ASSUME NEW c \in Callers, Load(c) PROVE NewestIsKept'
  BY <1>3, NobodyAssumption, ThreadsAssumption DEF Load, Goto, recordVars, windowVars,
     providerVars, historyVars, IInv, TokenInv, NewestIsKept, Settled, RefreshInv,
     CallInv, MemoryInv, LockInv, Locked, Refreshed, Working, At, NoTokens, NoCall,
     Tokens, TypeInv
<1>4. ASSUME NEW c \in Callers, LoadFails(c) PROVE NewestIsKept'
  BY <1>4, NobodyAssumption, ThreadsAssumption DEF LoadFails, Fail, recordVars,
     windowVars, providerVars, historyVars, IInv, TokenInv, NewestIsKept, Settled,
     RefreshInv, CallInv, MemoryInv, LockInv, Locked, Refreshed, Working, At,
     NoTokens, NoCall, Tokens, TypeInv
<1>5. ASSUME NEW c \in Callers, Reuse(c) PROVE NewestIsKept'
  BY <1>5, NobodyAssumption, ThreadsAssumption DEF Reuse, recordVars, windowVars,
     providerVars, historyVars, IInv, TokenInv, NewestIsKept, Settled, RefreshInv,
     CallInv, MemoryInv, LockInv, Locked, Refreshed, Working, At, NoTokens, NoCall,
     Tokens, TypeInv
<1>6. ASSUME NEW c \in Callers, Required(c) PROVE NewestIsKept'
  BY <1>6, NobodyAssumption, ThreadsAssumption DEF Required, Fail, recordVars,
     windowVars, providerVars, historyVars, IInv, TokenInv, NewestIsKept, Settled,
     RefreshInv, CallInv, MemoryInv, LockInv, Locked, Refreshed, Working, At,
     NoTokens, NoCall, Tokens, TypeInv
<1>7. ASSUME NEW c \in Callers, NeedsRefresh(c) PROVE NewestIsKept'
  BY <1>7, NobodyAssumption, ThreadsAssumption DEF NeedsRefresh, Goto, Matches,
     recordVars, windowVars, providerVars, historyVars, IInv, TokenInv, NewestIsKept,
     Settled, RefreshInv, CallInv, MemoryInv, LockInv, Locked, Refreshed, Working, At,
     NoTokens, NoCall, Tokens, TypeInv
<1>8. ASSUME NEW c \in Callers, Exchange(c) PROVE NewestIsKept'
  BY <1>8, NobodyAssumption, ThreadsAssumption DEF Exchange, Grant, recordVars,
     windowVars, providerVars, historyVars, IInv, TokenInv, NewestIsKept, Settled,
     RefreshInv, CallInv, MemoryInv, LockInv, Locked, Refreshed, Working, At,
     NoTokens, NoCall, Tokens, TypeInv
<1>9. ASSUME NEW c \in Callers, ExchangeFails(c) PROVE NewestIsKept'
  BY <1>9, NobodyAssumption, ThreadsAssumption DEF ExchangeFails, Grant, Fail,
     recordVars, windowVars, providerVars, historyVars, IInv, TokenInv, NewestIsKept,
     Settled, RefreshInv, CallInv, MemoryInv, LockInv, Locked, Refreshed, Working, At,
     NoTokens, NoCall, Tokens, TypeInv
<1>10. ASSUME NEW c \in Callers, Rejected(c) PROVE NewestIsKept'
  BY <1>10, NobodyAssumption, ThreadsAssumption DEF Rejected, Fail, recordVars,
     windowVars, providerVars, historyVars, IInv, TokenInv, NewestIsKept, Settled,
     RefreshInv, CallInv, MemoryInv, LockInv, Locked, Refreshed, Working, At,
     NoTokens, NoCall, Tokens, TypeInv
<1>11. ASSUME NEW c \in Callers, SavePending(c) PROVE NewestIsKept'
  BY <1>11, NobodyAssumption, ThreadsAssumption DEF SavePending, Goto, recordVars,
     windowVars, providerVars, historyVars, IInv, TokenInv, NewestIsKept, Settled,
     RefreshInv, CallInv, MemoryInv, LockInv, Locked, Refreshed, Working, At,
     NoTokens, NoCall, Tokens, TypeInv
<1>12. ASSUME NEW c \in Callers, SavePendingFails(c) PROVE NewestIsKept'
  BY <1>12, NobodyAssumption, ThreadsAssumption DEF SavePendingFails, Fail,
     recordVars, windowVars, providerVars, historyVars, IInv, TokenInv, NewestIsKept,
     Settled, RefreshInv, CallInv, MemoryInv, LockInv, Locked, Refreshed, Working, At,
     NoTokens, NoCall, Tokens, TypeInv
<1>13. ASSUME NEW c \in Callers, IdToken(c) PROVE NewestIsKept'
  BY <1>13, NobodyAssumption, ThreadsAssumption DEF IdToken, Goto, recordVars,
     windowVars, providerVars, historyVars, IInv, TokenInv, NewestIsKept, Settled,
     RefreshInv, CallInv, MemoryInv, LockInv, Locked, Refreshed, Working, At,
     NoTokens, NoCall, Tokens, TypeInv
<1>14. ASSUME NEW c \in Callers, IdTokenFails(c) PROVE NewestIsKept'
  BY <1>14, NobodyAssumption, ThreadsAssumption DEF IdTokenFails, Fail, recordVars,
     windowVars, providerVars, historyVars, IInv, TokenInv, NewestIsKept, Settled,
     RefreshInv, CallInv, MemoryInv, LockInv, Locked, Refreshed, Working, At,
     NoTokens, NoCall, Tokens, TypeInv
<1>15. ASSUME NEW c \in Callers, Save(c) PROVE NewestIsKept'
  BY <1>15, NobodyAssumption, ThreadsAssumption DEF Save, recordVars, windowVars,
     providerVars, historyVars, IInv, TokenInv, NewestIsKept, Settled, RefreshInv,
     CallInv, MemoryInv, LockInv, Locked, Refreshed, Working, At, NoTokens, NoCall,
     Tokens, TypeInv
<1>16. ASSUME NEW c \in Callers, SaveFails(c) PROVE NewestIsKept'
  BY <1>16, NobodyAssumption, ThreadsAssumption DEF SaveFails, Fail, recordVars,
     windowVars, providerVars, historyVars, IInv, TokenInv, NewestIsKept, Settled,
     RefreshInv, CallInv, MemoryInv, LockInv, Locked, Refreshed, Working, At,
     NoTokens, NoCall, Tokens, TypeInv
<1>17. CASE StartSignIn
  BY <1>17, NobodyAssumption, ThreadsAssumption DEF StartSignIn, recordVars,
     windowVars, providerVars, historyVars, IInv, TokenInv, NewestIsKept, Settled,
     RefreshInv, CallInv, MemoryInv, LockInv, Locked, Refreshed, Working, At,
     NoTokens, NoCall, Tokens, TypeInv
<1>18. CASE ReadGeneration
  BY <1>18, NobodyAssumption, ThreadsAssumption DEF ReadGeneration, recordVars,
     windowVars, providerVars, historyVars, IInv, TokenInv, NewestIsKept, Settled,
     RefreshInv, CallInv, MemoryInv, LockInv, Locked, Refreshed, Working, At,
     NoTokens, NoCall, Tokens, TypeInv
<1>19. CASE Granted
  BY <1>19, NobodyAssumption, ThreadsAssumption DEF Granted, recordVars, windowVars,
     providerVars, historyVars, IInv, TokenInv, NewestIsKept, Settled, RefreshInv,
     CallInv, MemoryInv, LockInv, Locked, Refreshed, Working, At, NoTokens, NoCall,
     Tokens, TypeInv
<1>20. CASE SignInFails
  BY <1>20, NobodyAssumption, ThreadsAssumption DEF SignInFails, recordVars,
     windowVars, providerVars, historyVars, IInv, TokenInv, NewestIsKept, Settled,
     RefreshInv, CallInv, MemoryInv, LockInv, Locked, Refreshed, Working, At,
     NoTokens, NoCall, Tokens, TypeInv
<1>21. CASE LockSignIn
  BY <1>21, NobodyAssumption, ThreadsAssumption DEF LockSignIn, recordVars,
     windowVars, providerVars, historyVars, IInv, TokenInv, NewestIsKept, Settled,
     RefreshInv, CallInv, MemoryInv, LockInv, Locked, Refreshed, Working, At,
     NoTokens, NoCall, Tokens, TypeInv
<1>22. CASE SaveSignIn
  BY <1>22, NobodyAssumption, ThreadsAssumption DEF SaveSignIn, recordVars,
     windowVars, providerVars, historyVars, IInv, TokenInv, NewestIsKept, Settled,
     RefreshInv, CallInv, MemoryInv, LockInv, Locked, Refreshed, Working, At,
     NoTokens, NoCall, Tokens, TypeInv
<1>23. CASE SaveSignInFails
  BY <1>23, NobodyAssumption, ThreadsAssumption DEF SaveSignInFails, recordVars,
     windowVars, providerVars, historyVars, IInv, TokenInv, NewestIsKept, Settled,
     RefreshInv, CallInv, MemoryInv, LockInv, Locked, Refreshed, Working, At,
     NoTokens, NoCall, Tokens, TypeInv
<1>24. CASE ShowSignIn
  BY <1>24, NobodyAssumption, ThreadsAssumption DEF ShowSignIn, recordVars,
     windowVars, providerVars, historyVars, IInv, TokenInv, NewestIsKept, Settled,
     RefreshInv, CallInv, MemoryInv, LockInv, Locked, Refreshed, Working, At,
     NoTokens, NoCall, Tokens, TypeInv
<1>25. CASE StartSignOut
  BY <1>25, NobodyAssumption, ThreadsAssumption DEF StartSignOut, recordVars,
     windowVars, providerVars, historyVars, IInv, TokenInv, NewestIsKept, Settled,
     RefreshInv, CallInv, MemoryInv, LockInv, Locked, Refreshed, Working, At,
     NoTokens, NoCall, Tokens, TypeInv
<1>26. CASE LockSignOut
  BY <1>26, NobodyAssumption, ThreadsAssumption DEF LockSignOut, recordVars,
     windowVars, providerVars, historyVars, IInv, TokenInv, NewestIsKept, Settled,
     RefreshInv, CallInv, MemoryInv, LockInv, Locked, Refreshed, Working, At,
     NoTokens, NoCall, Tokens, TypeInv
<1>27. CASE Delete
  BY <1>27, NobodyAssumption, ThreadsAssumption DEF Delete, recordVars, windowVars,
     providerVars, historyVars, IInv, TokenInv, NewestIsKept, Settled, RefreshInv,
     CallInv, MemoryInv, LockInv, Locked, Refreshed, Working, At, NoTokens, NoCall,
     Tokens, TypeInv
<1>28. CASE DeleteFails
  BY <1>28, NobodyAssumption, ThreadsAssumption DEF DeleteFails, recordVars,
     windowVars, providerVars, historyVars, IInv, TokenInv, NewestIsKept, Settled,
     RefreshInv, CallInv, MemoryInv, LockInv, Locked, Refreshed, Working, At,
     NoTokens, NoCall, Tokens, TypeInv
<1>29. CASE ShowSignOut
  BY <1>29, NobodyAssumption, ThreadsAssumption DEF ShowSignOut, recordVars,
     windowVars, providerVars, historyVars, IInv, TokenInv, NewestIsKept, Settled,
     RefreshInv, CallInv, MemoryInv, LockInv, Locked, Refreshed, Working, At,
     NoTokens, NoCall, Tokens, TypeInv
<1>30. CASE Configure
  BY <1>30, NobodyAssumption, ThreadsAssumption DEF Configure, recordVars, windowVars,
     providerVars, historyVars, IInv, TokenInv, NewestIsKept, Settled, RefreshInv,
     CallInv, MemoryInv, LockInv, Locked, Refreshed, Working, At, NoTokens, NoCall,
     Tokens, TypeInv
<1>31. CASE SaveWorkspace
  BY <1>31, NobodyAssumption, ThreadsAssumption DEF SaveWorkspace, recordVars,
     windowVars, providerVars, historyVars, IInv, TokenInv, NewestIsKept, Settled,
     RefreshInv, CallInv, MemoryInv, LockInv, Locked, Refreshed, Working, At,
     NoTokens, NoCall, Tokens, TypeInv
<1>32. CASE Crash
  BY <1>32, NobodyAssumption, ThreadsAssumption DEF Crash, recordVars, windowVars,
     providerVars, historyVars, IInv, TokenInv, NewestIsKept, Settled, RefreshInv,
     CallInv, MemoryInv, LockInv, Locked, Refreshed, Working, At, NoTokens, NoCall,
     Tokens, TypeInv
<1>33. CASE Expire
  BY <1>33, NobodyAssumption, ThreadsAssumption DEF Expire, Expired, recordVars,
     windowVars, providerVars, historyVars, IInv, TokenInv, NewestIsKept, Settled,
     RefreshInv, CallInv, MemoryInv, LockInv, Locked, Refreshed, Working, At,
     NoTokens, NoCall, Tokens, TypeInv
<1>34. CASE UNCHANGED vars
  BY <1>34, NobodyAssumption, ThreadsAssumption DEF vars, recordVars, windowVars,
     providerVars, historyVars, IInv, TokenInv, NewestIsKept, Settled, RefreshInv,
     CallInv, MemoryInv, LockInv, Locked, Refreshed, Working, At, NoTokens, NoCall,
     Tokens, TypeInv
<1> QED
  BY <1>1, <1>2, <1>3, <1>4, <1>5, <1>6, <1>7, <1>8, <1>9, <1>10, <1>11, <1>12, <1>13,
     <1>14, <1>15, <1>16, <1>17, <1>18, <1>19, <1>20, <1>21, <1>22, <1>23, <1>24,
     <1>25, <1>26, <1>27, <1>28, <1>29, <1>30, <1>31, <1>32, <1>33, <1>34 DEF Next,
     CallerNext

\* The inductive invariant.
LEMMA Inductive == Spec => []IInv
<1>1. IInv /\ [Next]_vars => IInv'
  BY TypeKept, LockKept, MemoryKept, CallKept, RefreshKept, SignedOutKept, NewestKept
     DEF IInv, TokenInv
<1> QED
  BY <1>1, InitHolds, PTL DEF Spec

\* One thread at a time works on the tokens of a sign-in, and what it has not
\* stored yet is known to it alone.
THEOREM TokenCorrect == Spec => []TokenInv
<1>1. IInv => TokenInv
  BY DEF IInv
<1> QED
  BY <1>1, Inductive, PTL

\* A sign-out is final: no refresh, no late sign-in and no restart brings the
\* tokens back.
THEOREM SignedOutStaysOutAlways == Spec => []SignedOutStaysOut
<1>1. IInv => SignedOutStaysOut
  BY DEF IInv
<1> QED
  BY <1>1, Inductive, PTL

\* The store has the newest refresh token, and a replaced one is never presented,
\* unless the answer of the provider was lost or could not be saved.
THEOREM NewestIsKeptAlways == Spec => []NewestIsKept
<1>1. IInv => NewestIsKept
  BY DEF IInv
<1> QED
  BY <1>1, Inductive, PTL

=============================================================================
