-------------------------- MODULE HttpClientProofs --------------------------
(***************************************************************************)
(* Proofs about HttpClient, for every set of requests, every number of     *)
(* retries, and any number of faults, expiries and tokens; and, at the     *)
(* end, about the caches that its answers go into (HistoryCache), for any  *)
(* callers, keys, size and lifetime.                                       *)
(***************************************************************************)
EXTENDS HttpClient, Algorithms, SequenceTheorems, TLAPS

(* A mutation that was carried out never goes back to the wire: only the   *)
(* error paths and the clean-up of a step-up are left to it.               *)
Past == {"transient", "restore", "clear", "done"}

Once(r) == executed[r] <= 1 /\ (executed[r] = 1 => pc[r] \in Past)

OnceInv == \A r \in Mutations : Once(r)

IndInv == TypeOK /\ OnceInv

-----------------------------------------------------------------------------
(* The client starts with one good token and no request under way. *)
LEMMA InitInv == Init => IndInv
<1> SUFFICES ASSUME Init PROVE IndInv
  OBVIOUS
<1>1. TypeOK
  <2>1. /\ credential \in Credentials /\ result \in Nat /\ leader \in Actors \cup {None}
        /\ minted \in Nat /\ expired \in Nat
        /\ bounds \in [faults : Nat, expiries : Nat, updates : Nat]
    BY DEF Init, InitAt, Credentials
  <2>2. inFlight \in BOOLEAN /\ timer \in BOOLEAN /\ disposed \in BOOLEAN
    BY DEF Init, InitAt
  <2>3. pc \in [Actors -> PCs] /\ tok \in [Actors -> Nat]
    BY DEF Init, InitAt, PCs
  <2>4. /\ phase \in [Requests -> {"first", "auth", "step"}]
        /\ attempt \in [Requests -> 0..MaxRetries]
    BY ConstantsOK DEF Init, InitAt, ConstantsOK
  <2>5. bearer \in [Requests -> Credentials] /\ original \in [Requests -> Credentials]
    BY DEF Init, InitAt, Credentials
  <2>6. spent \in SUBSET Requests /\ executed \in [Requests -> Nat]
    BY DEF Init, InitAt
  <2> QED
    BY <2>1, <2>2, <2>3, <2>4, <2>5, <2>6 DEF TypeOK
<1>2. OnceInv
  BY DEF OnceInv, Once, Init, InitAt, Requests
<1> QED
  BY <1>1, <1>2 DEF IndInv

(* Every step keeps the types. *)
LEMMA TypeStep == TypeOK /\ [Next]_vars => TypeOK'
<1> SUFFICES ASSUME TypeOK, [Next]_vars PROVE TypeOK'
  OBVIOUS
<1> USE ConstantsOK DEF ConstantsOK, TypeOK, Credentials, Actors, PCs, SendPCs, RefreshPCs, StepPCs,
       Goto, shared, refresh, local, server
<1>1. ASSUME NEW r \in Requests, Start(r) PROVE TypeOK'
  BY <1>1 DEF Start
<1>2. ASSUME NEW r \in Requests, Send(r) PROVE TypeOK'
  BY <1>2 DEF Send
<1>3. ASSUME NEW r \in Requests, Succeed(r) PROVE TypeOK'
  BY <1>3 DEF Succeed, Execute, Return
<1>4. ASSUME NEW r \in Requests, LoseReply(r) PROVE TypeOK'
  BY <1>4 DEF LoseReply, Execute, Fault, Count
<1>5. ASSUME NEW r \in Requests, LoseRequest(r) PROVE TypeOK'
  BY <1>5 DEF LoseRequest, Fault, Count
<1>6. ASSUME NEW r \in Requests, Reject(r) PROVE TypeOK'
  BY <1>6 DEF Reject, Fault, Count
<1>7. ASSUME NEW r \in Requests, Challenge(r) PROVE TypeOK'
  BY <1>7 DEF Challenge
<1>8. ASSUME NEW r \in Requests, Transient(r) PROVE TypeOK'
  BY <1>8 DEF Transient, Retryable, Return
<1>9. ASSUME NEW r \in Requests, Cancelled(r) PROVE TypeOK'
  BY <1>9 DEF Cancelled, Return
<1>10. ASSUME NEW r \in Requests, Rejected(r) PROVE TypeOK'
  BY <1>10 DEF Rejected, Return
<1>11. ASSUME NEW r \in Requests, Refreshed(r) PROVE TypeOK'
  BY <1>11 DEF Refreshed, AuthRetry
<1>12. ASSUME NEW r \in Requests, Challenged(r) PROVE TypeOK'
  BY <1>12 DEF Challenged, Return
<1>13. ASSUME NEW r \in Requests, Claim(r) PROVE TypeOK'
  BY <1>13 DEF Claim
<1>14. ASSUME NEW r \in Requests, Handler(r) PROVE TypeOK'
  BY <1>14 DEF Handler
<1>15. ASSUME NEW r \in Requests, Swap(r) PROVE TypeOK'
  BY <1>15 DEF Swap
<1>16. ASSUME NEW r \in Requests, Install(r) PROVE TypeOK'
  BY <1>16 DEF Install
<1>17. ASSUME NEW r \in Requests, Restore(r) PROVE TypeOK'
  BY <1>17 DEF Restore, Restored
<1>18. ASSUME NEW r \in Requests, Clear(r) PROVE TypeOK'
  BY <1>18 DEF Clear
<1>19. ASSUME NEW a \in Actors, Refresh(a) PROVE TypeOK'
  BY <1>19 DEF Refresh
<1>20. ASSUME NEW a \in Actors, ProviderMints(a) PROVE TypeOK'
  BY <1>20 DEF ProviderMints, Publish
<1>21. ASSUME NEW a \in Actors, ProviderFails(a) PROVE TypeOK'
  BY <1>21 DEF ProviderFails, Publish, Fault, Count
<1>22. ASSUME NEW a \in Actors, Wake(a) PROVE TypeOK'
  BY <1>22 DEF Wake
<1>23. ASSUME NEW a \in Actors, Apply(a) PROVE TypeOK'
  BY <1>23 DEF Apply
<1>24. ASSUME NEW a \in Actors, Schedule(a) PROVE TypeOK'
  BY <1>24 DEF Schedule
<1>25. CASE TimerFires
  BY <1>25 DEF TimerFires
<1>26. CASE TimerDone
  BY <1>26 DEF TimerDone
<1>27. CASE UpdateToken
  BY <1>27 DEF UpdateToken, Count
<1>28. CASE Dispose
  BY <1>28 DEF Dispose
<1>29. CASE Expire
  BY <1>29 DEF Expire, Count
<1>30. CASE UNCHANGED vars
  BY <1>30 DEF vars
<1> QED
  BY <1>1, <1>2, <1>3, <1>4, <1>5, <1>6, <1>7, <1>8, <1>9, <1>10, <1>11, <1>12, <1>13, <1>14, <1>15, <1>16, <1>17, <1>18, <1>19, <1>20, <1>21, <1>22, <1>23, <1>24, <1>25, <1>26, <1>27, <1>28, <1>29, <1>30
     DEF Next, SendStep, RefreshStep, StepUpStep

(* Nothing but Execute counts, and no step leads out of Past except a read's *)
(* retry.                                                                  *)
LEMMA OnceStep == IndInv /\ [Next]_vars => OnceInv'
<1> SUFFICES ASSUME TypeOK, OnceInv, [Next]_vars, NEW m \in Mutations
             PROVE  Once(m)'
  BY DEF IndInv, OnceInv
<1>0. m \in Requests /\ m \in Actors /\ m \notin Reads /\ m # Timer
  BY ConstantsOK DEF ConstantsOK, Requests, Actors
<1>a. Once(m) /\ executed[m] \in Nat
  BY <1>0 DEF OnceInv, TypeOK
<1>t. pc \in [Actors -> PCs] /\ executed \in [Requests -> Nat]
  BY DEF TypeOK
<1> USE <1>0, <1>a, <1>t DEF Once, Past, Actors
<1>1. ASSUME NEW r \in Requests, Start(r) PROVE Once(m)'
  BY <1>1 DEF Start, Goto, shared, refresh, local, server
<1>2. ASSUME NEW r \in Requests, Send(r) PROVE Once(m)'
  BY <1>2 DEF Send, Goto, shared, refresh, local, server
<1>3. ASSUME NEW r \in Requests, Succeed(r) PROVE Once(m)'
  BY <1>3 DEF Succeed, Execute, Return, Goto, shared, refresh, local, server
<1>4. ASSUME NEW r \in Requests, LoseReply(r) PROVE Once(m)'
  BY <1>4 DEF LoseReply, Execute, Goto, shared, refresh, local, server
<1>5. ASSUME NEW r \in Requests, LoseRequest(r) PROVE Once(m)'
  BY <1>5 DEF LoseRequest, Goto, shared, refresh, local, server
<1>6. ASSUME NEW r \in Requests, Reject(r) PROVE Once(m)'
  BY <1>6 DEF Reject, Goto, shared, refresh, local, server
<1>7. ASSUME NEW r \in Requests, Challenge(r) PROVE Once(m)'
  BY <1>7 DEF Challenge, Goto, shared, refresh, local, server
<1>8. ASSUME NEW r \in Requests, Transient(r) PROVE Once(m)'
  BY <1>8 DEF Transient, Retryable, Return, Goto, shared, refresh, local, server
<1>9. ASSUME NEW r \in Requests, Cancelled(r) PROVE Once(m)'
  BY <1>9 DEF Cancelled, Retryable, Return, Goto, shared, refresh, local, server
<1>10. ASSUME NEW r \in Requests, Rejected(r) PROVE Once(m)'
  BY <1>10 DEF Rejected, Return, Goto, shared, refresh, local, server
<1>11. ASSUME NEW r \in Requests, Refreshed(r) PROVE Once(m)'
  BY <1>11 DEF Refreshed, AuthRetry, Goto, shared, refresh, local, server
<1>12. ASSUME NEW r \in Requests, Challenged(r) PROVE Once(m)'
  BY <1>12 DEF Challenged, Return, Goto, shared, refresh, local, server
<1>13. ASSUME NEW r \in Requests, Claim(r) PROVE Once(m)'
  BY <1>13 DEF Claim, Goto, shared, refresh, local, server
<1>14. ASSUME NEW r \in Requests, Handler(r) PROVE Once(m)'
  BY <1>14 DEF Handler, Goto, shared, refresh, local, server
<1>15. ASSUME NEW r \in Requests, Swap(r) PROVE Once(m)'
  BY <1>15 DEF Swap, Goto, shared, refresh, local, server
<1>16. ASSUME NEW r \in Requests, Install(r) PROVE Once(m)'
  BY <1>16 DEF Install, Goto, shared, refresh, local, server
<1>17. ASSUME NEW r \in Requests, Restore(r) PROVE Once(m)'
  BY <1>17 DEF Restore, Goto, shared, refresh, local, server
<1>18. ASSUME NEW r \in Requests, Clear(r) PROVE Once(m)'
  BY <1>18 DEF Clear, Goto, shared, refresh, local, server
<1>19. ASSUME NEW a \in Actors, Refresh(a) PROVE Once(m)'
  BY <1>19 DEF Refresh, Goto, shared, refresh, local, server
<1>20. ASSUME NEW a \in Actors, ProviderMints(a) PROVE Once(m)'
  BY <1>20 DEF ProviderMints, Publish, Goto, shared, refresh, local, server
<1>21. ASSUME NEW a \in Actors, ProviderFails(a) PROVE Once(m)'
  BY <1>21 DEF ProviderFails, Publish, Goto, shared, refresh, local, server
<1>22. ASSUME NEW a \in Actors, Wake(a) PROVE Once(m)'
  BY <1>22 DEF Wake, Goto, shared, refresh, local, server
<1>23. ASSUME NEW a \in Actors, Apply(a) PROVE Once(m)'
  BY <1>23 DEF Apply, Goto, shared, refresh, local, server
<1>24. ASSUME NEW a \in Actors, Schedule(a) PROVE Once(m)'
  BY <1>24 DEF Schedule, Goto, shared, refresh, local, server
<1>25. CASE TimerFires
  BY <1>25 DEF TimerFires, Goto, shared, refresh, local, server
<1>26. CASE TimerDone
  BY <1>26 DEF TimerDone, Goto, shared, refresh, local, server
<1>27. CASE UpdateToken
  BY <1>27 DEF UpdateToken, Goto, shared, refresh, local, server
<1>28. CASE Dispose
  BY <1>28 DEF Dispose, Goto, shared, refresh, local, server
<1>29. CASE Expire
  BY <1>29 DEF Expire, Goto, shared, refresh, local, server
<1>30. CASE UNCHANGED vars
  BY <1>30 DEF vars, local, server
<1> QED
  BY <1>1, <1>2, <1>3, <1>4, <1>5, <1>6, <1>7, <1>8, <1>9, <1>10, <1>11, <1>12, <1>13, <1>14, <1>15, <1>16, <1>17, <1>18, <1>19, <1>20, <1>21, <1>22, <1>23, <1>24, <1>25, <1>26, <1>27, <1>28, <1>29, <1>30
     DEF Next, SendStep, RefreshStep, StepUpStep, Actors

-----------------------------------------------------------------------------
(* The inductive invariant: a mutation carried out once has left the wire  *)
(* for good, which no bound on retries, faults or tokens takes part in.    *)
THEOREM Invariance == Spec => []IndInv
<1>1. IndInv /\ [Next]_vars => IndInv'
  BY TypeStep, OnceStep DEF IndInv
<1> QED
  BY InitInv, <1>1, PTL DEF Spec

(* The client's shared fields and its requests' locals keep their types.   *)
THEOREM TypeCorrect == Spec => []TypeOK
<1>1. IndInv => TypeOK
  BY DEF IndInv
<1> QED
  BY <1>1, Invariance, PTL

(* requestWithRetry, executeWithAuthRetry and runStepUpRetry together      *)
(* never have the server carry a mutation out twice, whatever is lost,     *)
(* rejected, refreshed or stepped up, and whoever else uses the client.    *)
THEOREM MutationsOnce == Spec => []MutationOnce
<1>1. IndInv => MutationOnce
  BY DEF IndInv, OnceInv, Once, MutationOnce
<1> QED
  BY <1>1, Invariance, PTL

-----------------------------------------------------------------------------
(* Until the first step-up retry the credential is always a numbered       *)
(* token, and nothing is restored over it.                                 *)
NoStepUp == \A r \in Requests : phase[r] # "step"

Numbered == credential \in Nat /\ \A r \in Requests : bearer[r] \in Nat

(* Who asks for a refresh is in its first call, who restores in its last. *)
Placed ==
    \A r \in Requests :
        /\ pc[r] \in RefreshPCs => phase[r] = "first"
        /\ pc[r] = "restore" => phase[r] = "step"

Known ==
    /\ expired <= minted /\ result <= minted
    /\ \A a \in Actors : tok[a] <= minted

(* A token a refresh is handing out has not expired. *)
Fresh ==
    \A a \in Actors :
        /\ pc[a] = "wake" => result = 0 \/ result > expired
        /\ pc[a] \in {"apply", "schedule", "refreshed"} => tok[a] = 0 \/ tok[a] > expired
        /\ pc[a] = "apply" => tok[a] # 0

(* A request that is sent again after a refresh finds a credential at      *)
(* least as good as the token it was given.                                *)
Kept(r) ==
    phase[r] = "auth" =>
        /\ pc[r] # "idle"
        /\ pc[r] \in {"send", "wire", "transient"} => tok[r] <= expired \/ credential > expired
        /\ pc[r] = "wire" => tok[r] <= expired \/ bearer[r] > expired
        /\ pc[r] = "rejected" => tok[r] <= expired

AllKept == \A r \in Requests : Kept(r)

Honest == TypeOK /\ Placed /\ Known /\ Fresh /\ (NoStepUp => Numbered /\ AllKept)

(* Every step keeps it: whoever puts a token in place was just given it,   *)
(* and a token expires only once nobody is being given one.                *)
LEMMA HonestStep ==
    ASSUME Honest, [Next]_vars
    PROVE  Placed' /\ Known' /\ Fresh' /\ (NoStepUp' => Numbered' /\ AllKept')
<1> DEFINE Goal == Placed' /\ Known' /\ Fresh' /\ (NoStepUp' => Numbered' /\ AllKept')
<1> USE ConstantsOK DEF ConstantsOK, Honest, TypeOK, NoStepUp, Numbered, Placed, Known, Fresh,
       AllKept, Kept, Actors, RefreshPCs, Goto, shared, refresh, local, server
<1>1. ASSUME NEW r \in Requests, Start(r) PROVE Goal
  BY <1>1 DEF Start
<1>2. ASSUME NEW r \in Requests, Send(r) PROVE Goal
  BY <1>2 DEF Send
<1>3. ASSUME NEW r \in Requests, Succeed(r) PROVE Goal
  BY <1>3 DEF Succeed, Execute, Return
<1>4. ASSUME NEW r \in Requests, LoseReply(r) PROVE Goal
  BY <1>4 DEF LoseReply, Execute
<1>5. ASSUME NEW r \in Requests, LoseRequest(r) PROVE Goal
  BY <1>5 DEF LoseRequest
<1>6. ASSUME NEW r \in Requests, Reject(r) PROVE Goal
  BY <1>6 DEF Reject, Good
<1>7. ASSUME NEW r \in Requests, Challenge(r) PROVE Goal
  BY <1>7 DEF Challenge, NeedsStepUp
<1>8. ASSUME NEW r \in Requests, Transient(r) PROVE Goal
  BY <1>8 DEF Transient, Return
<1>9. ASSUME NEW r \in Requests, Cancelled(r) PROVE Goal
  BY <1>9 DEF Cancelled, Return
<1>10. ASSUME NEW r \in Requests, Rejected(r) PROVE Goal
  BY <1>10 DEF Rejected, Return
<1>11. ASSUME NEW r \in Requests, Refreshed(r) PROVE Goal
  BY <1>11 DEF Refreshed, AuthRetry
<1>12. ASSUME NEW r \in Requests, Challenged(r) PROVE Goal
  BY <1>12 DEF Challenged, Return
<1>13. ASSUME NEW r \in Requests, Claim(r) PROVE Goal
  BY <1>13 DEF Claim
<1>14. ASSUME NEW r \in Requests, Handler(r) PROVE Goal
  BY <1>14 DEF Handler
<1>15. ASSUME NEW r \in Requests, Swap(r) PROVE Goal
  BY <1>15 DEF Swap
<1>16. ASSUME NEW r \in Requests, Install(r) PROVE Goal
  BY <1>16 DEF Install
<1>17. ASSUME NEW r \in Requests, Restore(r) PROVE Goal
  BY <1>17 DEF Restore, Restored
<1>18. ASSUME NEW r \in Requests, Clear(r) PROVE Goal
  BY <1>18 DEF Clear
<1>19. ASSUME NEW a \in Actors, Refresh(a) PROVE Goal
  BY <1>19 DEF Refresh
<1>20. ASSUME NEW a \in Actors, ProviderMints(a) PROVE Goal
  BY <1>20 DEF ProviderMints, Publish
<1>21. ASSUME NEW a \in Actors, ProviderFails(a) PROVE Goal
  BY <1>21 DEF ProviderFails, Publish
<1>22. ASSUME NEW a \in Actors, Wake(a) PROVE Goal
  BY <1>22 DEF Wake
<1>23. ASSUME NEW a \in Actors, Apply(a) PROVE Goal
  BY <1>23 DEF Apply
<1>24. ASSUME NEW a \in Actors, Schedule(a) PROVE Goal
  BY <1>24 DEF Schedule
<1>25. CASE TimerFires
  BY <1>25 DEF TimerFires
<1>26. CASE TimerDone
  BY <1>26 DEF TimerDone
<1>27. CASE UpdateToken
  BY <1>27 DEF UpdateToken
<1>28. CASE Dispose
  BY <1>28 DEF Dispose
<1>29. CASE Expire
  BY <1>29 DEF Expire, RefreshPCs
<1>30. CASE UNCHANGED vars
  BY <1>30 DEF vars
<1> QED
  BY <1>1, <1>2, <1>3, <1>4, <1>5, <1>6, <1>7, <1>8, <1>9, <1>10, <1>11, <1>12, <1>13, <1>14, <1>15, <1>16, <1>17, <1>18, <1>19, <1>20, <1>21, <1>22, <1>23, <1>24, <1>25, <1>26, <1>27, <1>28, <1>29, <1>30
     DEF Next, SendStep, RefreshStep, StepUpStep

(* executeWithAuthRetry reports a second rejection only for a token that   *)
(* has expired since the provider returned it, however many requests share *)
(* the client and the refresh, and whenever the timer or UpdateToken       *)
(* replaces the credential, until a step-up retry swaps it.                *)
THEOREM AuthErrorsHonest == Spec => []AuthErrorHonest
<1>1. Init => Honest
  <2> SUFFICES ASSUME Init PROVE Honest
    OBVIOUS
  <2>1. TypeOK
    BY InitInv DEF IndInv
  <2>2. Placed /\ Known /\ Fresh
    BY DEF Init, InitAt, Placed, Known, Fresh, Actors, RefreshPCs
  <2>3. Numbered /\ AllKept
    BY DEF Init, InitAt, Numbered, AllKept, Kept
  <2> QED
    BY <2>1, <2>2, <2>3 DEF Honest
<1>2. Honest /\ [Next]_vars => Honest'
  BY HonestStep, TypeStep DEF Honest
<1>3. Honest => AuthErrorHonest
  BY DEF Honest, NoStepUp, AllKept, Kept, AuthErrorHonest
<1> QED
  BY <1>1, <1>2, <1>3, PTL DEF Spec

-----------------------------------------------------------------------------
(* A step-up token is the client's credential only while the retry it was  *)
(* obtained for is short of its restore, unless one saved another's token. *)
Standing(r) == phase[r] = "step" /\ pc[r] \notin {"idle", "clear", "done"}

(* A request reaches the step-up retry and a refresh from its first call,  *)
(* once, and saves its original just before the step-up token is put in.   *)
StepInv ==
    /\ \A r \in Requests :
          /\ pc[r] \in RefreshPCs \cup {"claim", "handler", "swap", "install"} => phase[r] = "first"
          /\ original[r] \in Requests => pc[r] = "install" \/ phase[r] = "step"
    /\ credential \in Requests => Overlapped \/ \E r \in Requests : Standing(r)

(* Every step keeps it: a restore that puts a step-up token back has saved *)
(* that of a retry it overlapped.                                          *)
LEMMA StepUpKept ==
    ASSUME TypeOK, StepInv, [Next]_vars
    PROVE  StepInv'
<1> USE ConstantsOK DEF ConstantsOK, TypeOK, Credentials, StepInv, Standing, Overlapped, Actors,
       RefreshPCs, Goto, shared, refresh, local, server
<1>1. ASSUME NEW r \in Requests, Start(r) PROVE StepInv'
  BY <1>1 DEF Start
<1>2. ASSUME NEW r \in Requests, Send(r) PROVE StepInv'
  BY <1>2 DEF Send
<1>3. ASSUME NEW r \in Requests, Succeed(r) PROVE StepInv'
  BY <1>3 DEF Succeed, Execute, Return
<1>4. ASSUME NEW r \in Requests, LoseReply(r) PROVE StepInv'
  BY <1>4 DEF LoseReply, Execute
<1>5. ASSUME NEW r \in Requests, LoseRequest(r) PROVE StepInv'
  BY <1>5 DEF LoseRequest
<1>6. ASSUME NEW r \in Requests, Reject(r) PROVE StepInv'
  BY <1>6 DEF Reject, Good
<1>7. ASSUME NEW r \in Requests, Challenge(r) PROVE StepInv'
  BY <1>7 DEF Challenge, NeedsStepUp
<1>8. ASSUME NEW r \in Requests, Transient(r) PROVE StepInv'
  BY <1>8 DEF Transient, Return
<1>9. ASSUME NEW r \in Requests, Cancelled(r) PROVE StepInv'
  BY <1>9 DEF Cancelled, Return
<1>10. ASSUME NEW r \in Requests, Rejected(r) PROVE StepInv'
  BY <1>10 DEF Rejected, Return
<1>11. ASSUME NEW r \in Requests, Refreshed(r) PROVE StepInv'
  BY <1>11 DEF Refreshed, AuthRetry
<1>12. ASSUME NEW r \in Requests, Challenged(r) PROVE StepInv'
  BY <1>12 DEF Challenged, Return
<1>13. ASSUME NEW r \in Requests, Claim(r) PROVE StepInv'
  BY <1>13 DEF Claim
<1>14. ASSUME NEW r \in Requests, Handler(r) PROVE StepInv'
  BY <1>14 DEF Handler
<1>15. ASSUME NEW r \in Requests, Swap(r) PROVE StepInv'
  BY <1>15 DEF Swap
<1>16. ASSUME NEW r \in Requests, Install(r) PROVE StepInv'
  BY <1>16 DEF Install
<1>17. ASSUME NEW r \in Requests, Restore(r) PROVE StepInv'
  BY <1>17 DEF Restore, Restored
<1>18. ASSUME NEW r \in Requests, Clear(r) PROVE StepInv'
  BY <1>18 DEF Clear
<1>19. ASSUME NEW a \in Actors, Refresh(a) PROVE StepInv'
  BY <1>19 DEF Refresh
<1>20. ASSUME NEW a \in Actors, ProviderMints(a) PROVE StepInv'
  BY <1>20 DEF ProviderMints, Publish
<1>21. ASSUME NEW a \in Actors, ProviderFails(a) PROVE StepInv'
  BY <1>21 DEF ProviderFails, Publish
<1>22. ASSUME NEW a \in Actors, Wake(a) PROVE StepInv'
  BY <1>22 DEF Wake
<1>23. ASSUME NEW a \in Actors, Apply(a) PROVE StepInv'
  BY <1>23 DEF Apply
<1>24. ASSUME NEW a \in Actors, Schedule(a) PROVE StepInv'
  BY <1>24 DEF Schedule
<1>25. CASE TimerFires
  BY <1>25 DEF TimerFires
<1>26. CASE TimerDone
  BY <1>26 DEF TimerDone
<1>27. CASE UpdateToken
  BY <1>27 DEF UpdateToken
<1>28. CASE Dispose
  BY <1>28 DEF Dispose
<1>29. CASE Expire
  BY <1>29 DEF Expire, RefreshPCs
<1>30. CASE UNCHANGED vars
  BY <1>30 DEF vars
<1> QED
  BY <1>1, <1>2, <1>3, <1>4, <1>5, <1>6, <1>7, <1>8, <1>9, <1>10, <1>11, <1>12, <1>13, <1>14, <1>15, <1>16, <1>17, <1>18, <1>19, <1>20, <1>21, <1>22, <1>23, <1>24, <1>25, <1>26, <1>27, <1>28, <1>29, <1>30
     DEF Next, SendStep, RefreshStep, StepUpStep

(* The step-up token of one request is not the client's credential once    *)
(* the retries are over, unless two of them overlapped.                    *)
THEOREM StepUpsEnd == Spec => []ClientSound
<1>1. Init => StepInv
  BY ConstantsOK DEF ConstantsOK, Init, InitAt, StepInv, Actors, RefreshPCs
<1>2. TypeOK /\ StepInv /\ [Next]_vars => StepInv'
  BY StepUpKept
<1>3. TypeOK /\ StepInv => ClientSound
  BY DEF StepInv, Standing, StepUpRestored, ClientSound
<1> QED
  BY <1>1, <1>2, <1>3, TypeCorrect, PTL DEF Spec

-----------------------------------------------------------------------------
(* HistoryCache, a part of Algorithms. *)

Entries == [key : CacheKeys, value : Nat, expiresAt : Nat]

Distinct(seq) == \A i, j \in DOMAIN seq : seq[i].key = seq[j].key => i = j

(* What is held is what was used last, in that order. *)
Agreeing(held, used) ==
    /\ Len(held) <= Len(used)
    /\ \A i \in DOMAIN held : held[i].key = used[i].key

ListsOK ==
    /\ items \in Seq(Entries) /\ recency \in Seq([key : CacheKeys])
    /\ Distinct(items) /\ Distinct(recency)
    /\ Len(items) <= MaxEntries
    /\ Agreeing(items, recency)

CallersTyped ==
    /\ version \in [CacheKeys \cup {Meta} -> {0, 1}] /\ ctime \in Nat
    /\ metaCache \in {Nothing, 0, 1}
    /\ cpc \in [Readers -> {"idle", "refreshed", "fetching", "storing"}]
    /\ want \in [Readers -> CacheKeys \cup {Meta, Nothing}]
    /\ fetched \in [Readers -> {Nothing, 0, 1}] /\ began \in [Readers -> {0, 1}]
    /\ alone \in [Readers -> BOOLEAN]

(* A call knows what it wants, and its answer is no older than the call. A *)
(* refresh that is alone finds nothing held.                               *)
CallOK(c) ==
    /\ cpc[c] # "idle" => want[c] \in CacheKeys \cup {Meta} /\ began[c] <= version[want[c]]
    /\ cpc[c] = "storing" => fetched[c] \in {0, 1} /\ began[c] <= fetched[c]
    /\ (cpc[c] # "idle" /\ alone[c]) => \A d \in Readers \ {c} : cpc[d] = "idle"
    /\ (cpc[c] = "refreshed" /\ alone[c]) => metaCache = Nothing

CacheInv ==
    /\ ListsOK /\ CallersTyped
    /\ \A c \in Readers : CallOK(c)
    /\ Cache!NotPastItsTime /\ Cache!RefreshedAnew

-----------------------------------------------------------------------------
(* The lists. *)

LEMMA RemoveAtIs ==
    ASSUME NEW T, NEW s \in Seq(T), NEW i \in 1..Len(s),
           NEW r, r = Cache!RemoveAt(s, i)
    PROVE  /\ r \in Seq(T) /\ Len(r) = Len(s) - 1
           /\ \A j \in 1..Len(r) : r[j] = IF j < i THEN s[j] ELSE s[j + 1]
<1> DEFINE a == SubSeq(s, 1, i - 1)
           b == SubSeq(s, i + 1, Len(s))
<1>1. /\ a \in Seq(T) /\ Len(a) = i - 1
      /\ \A j \in 1..Len(a) : a[j] = s[j]
  <2>1. 1 \in Int /\ i - 1 \in Int /\ Len(s) \in Nat
    BY LenProperties
  <2> QED
    BY <2>1, SubSeqProperties
<1>2. /\ b \in Seq(T) /\ Len(b) = Len(s) - i
      /\ \A j \in 1..Len(b) : b[j] = s[i + j]
  <2>1. i + 1 \in Int /\ Len(s) \in Nat
    BY LenProperties
  <2> QED
    BY <2>1, SubSeqProperties
<1>3. r = a \o b
  BY DEF Cache!RemoveAt
<1> HIDE DEF a, b
<1>4. r \in Seq(T) /\ Len(r) = Len(a) + Len(b)
      /\ \A j \in 1..Len(r) : r[j] = IF j <= Len(a) THEN a[j] ELSE b[j - Len(a)]
  <2>1. a \in Seq(T) /\ b \in Seq(T)
    BY <1>1, <1>2
  <2>2. /\ a \o b \in Seq(T) /\ Len(a \o b) = Len(a) + Len(b)
        /\ \A j \in 1..Len(a) + Len(b) : (a \o b)[j] = IF j <= Len(a) THEN a[j] ELSE b[j - Len(a)]
    BY <2>1, ConcatProperties, Zenon
  <2> QED
    BY <1>3, <2>2
<1>5. Len(s) \in Nat /\ Len(r) = Len(s) - 1
  BY <1>1, <1>2, <1>4, LenProperties
<1>6. ASSUME NEW j \in 1..Len(r)
      PROVE  r[j] = IF j < i THEN s[j] ELSE s[j + 1]
  <2>1. CASE j < i
    BY <1>1, <1>4, <1>5, <2>1
  <2>2. CASE ~(j < i)
    <3>1. /\ r[j] = b[j - Len(a)] /\ j - Len(a) \in 1..Len(b)
          /\ i + (j - Len(a)) = j + 1
      BY <1>1, <1>2, <1>4, <1>5, <2>2
    <3> QED
      BY <1>2, <2>2, <3>1
  <2> QED
    BY <2>1, <2>2
<1> QED
  BY <1>4, <1>5, <1>6

LEMMA FrontIs ==
    ASSUME NEW T, NEW s \in Seq(T), NEW e \in T, NEW r, r = <<e>> \o s
    PROVE  /\ r \in Seq(T) /\ Len(r) = Len(s) + 1
           /\ r[1] = e /\ \A j \in 2..Len(r) : r[j] = s[j - 1]
<1>1. <<e>> \in Seq(T) /\ Len(<<e>>) = 1 /\ <<e>>[1] = e
  OBVIOUS
<1>2. /\ r \in Seq(T) /\ Len(r) = 1 + Len(s)
      /\ \A j \in 1..Len(r) : r[j] = IF j <= 1 THEN <<e>>[j] ELSE s[j - 1]
  BY <1>1, ConcatProperties
<1> QED
  BY <1>1, <1>2, LenProperties

LEMMA PlaceIs ==
    ASSUME NEW s, NEW k, Distinct(s), Cache!Has(s, k)
    PROVE  /\ Cache!Place(s, k) \in DOMAIN s /\ s[Cache!Place(s, k)].key = k
           /\ \A i \in DOMAIN s : s[i].key = k => i = Cache!Place(s, k)
BY DEF Cache!Has, Cache!Place, Distinct

LEMMA WithoutIs ==
    ASSUME NEW T, NEW s \in Seq(T), NEW k, Distinct(s), NEW r, r = Cache!Without(s, k)
    PROVE  /\ r \in Seq(T) /\ Distinct(r) /\ ~Cache!Has(r, k)
           /\ ~Cache!Has(s, k) => r = s
           /\ Cache!Has(s, k) =>
                 /\ Len(r) = Len(s) - 1
                 /\ \A j \in 1..Len(r) : r[j] = IF j < Cache!Place(s, k) THEN s[j] ELSE s[j + 1]
<1>1. CASE ~Cache!Has(s, k)
  BY <1>1 DEF Cache!Without
<1>2. CASE Cache!Has(s, k)
  <2> DEFINE i == Cache!Place(s, k)
  <2>1. DOMAIN s = 1..Len(s) /\ Len(s) \in Nat
    BY LenProperties
  <2>2. /\ i \in 1..Len(s) /\ s[i].key = k
        /\ \A j \in 1..Len(s) : s[j].key = k => j = i
    BY <1>2, <2>1, PlaceIs
  <2> HIDE DEF i
  <2>3. /\ r \in Seq(T) /\ Len(r) = Len(s) - 1
        /\ \A j \in 1..Len(r) : r[j] = IF j < i THEN s[j] ELSE s[j + 1]
    <3>1. r = Cache!RemoveAt(s, i)
      BY <1>2 DEF Cache!Without, i
    <3> QED
      <4>1. \A n \in 1..Len(s) : \A x : x = Cache!RemoveAt(s, n) =>
               /\ x \in Seq(T) /\ Len(x) = Len(s) - 1
               /\ \A j \in 1..Len(x) : x[j] = IF j < n THEN s[j] ELSE s[j + 1]
        BY RemoveAtIs
      <4> QED
        BY <2>2, <3>1, <4>1
  <2>4. DOMAIN r = 1..Len(r)
    BY <2>3, LenProperties
  <2>5. \A j \in 1..Len(r) : r[j].key # k
    BY <2>1, <2>2, <2>3
  <2>6. \A x, y \in 1..Len(r) : r[x].key = r[y].key => x = y
    <3>1. \A x, y \in 1..Len(s) : s[x].key = s[y].key => x = y
      BY <2>1 DEF Distinct
    <3>2. ASSUME NEW x \in 1..Len(r), NEW y \in 1..Len(r), r[x].key = r[y].key
          PROVE  x = y
      <4> DEFINE X == IF x < i THEN x ELSE x + 1
                 Y == IF y < i THEN y ELSE y + 1
      <4>1. r[x] = s[X] /\ r[y] = s[Y] /\ X \in 1..Len(s) /\ Y \in 1..Len(s)
        BY <2>1, <2>2, <2>3
      <4>2. X = Y
        BY <3>1, <3>2, <4>1
      <4> QED
        BY <2>2, <4>2
    <3> QED
      BY <3>2
  <2> QED
    BY <1>2, <2>3, <2>4, <2>5, <2>6 DEF Cache!Has, Distinct, i
<1> QED
  BY <1>1, <1>2

(* A key in front of a list that does not hold it. *)
LEMMA FrontDistinct ==
    ASSUME NEW T, NEW s \in Seq(T), NEW e \in T, Distinct(s), ~Cache!Has(s, e.key)
    PROVE  Distinct(<<e>> \o s)
<1> DEFINE r == <<e>> \o s
<1>1. /\ r \in Seq(T) /\ Len(r) = Len(s) + 1
      /\ r[1] = e /\ \A j \in 2..Len(r) : r[j] = s[j - 1]
  BY FrontIs
<1> HIDE DEF r
<1>2. /\ DOMAIN r = 1..Len(r) /\ DOMAIN s = 1..Len(s) /\ Len(s) \in Nat
  BY <1>1, LenProperties
<1>3. \A j \in 2..Len(r) : r[j].key # e.key /\ j - 1 \in DOMAIN s
  BY <1>1, <1>2 DEF Cache!Has
<1>4. ASSUME NEW x \in 1..Len(r), NEW y \in 1..Len(r), r[x].key = r[y].key
      PROVE  x = y
  <2>1. CASE x = 1 \/ y = 1
    BY <1>1, <1>2, <1>3, <1>4, <2>1
  <2>2. CASE x # 1 /\ y # 1
    <3>1. x \in 2..Len(r) /\ y \in 2..Len(r)
      BY <1>1, <1>2, <2>2
    <3>2. x - 1 \in DOMAIN s /\ y - 1 \in DOMAIN s /\ s[x - 1].key = s[y - 1].key
      BY <1>1, <1>3, <1>4, <3>1
    <3>3. x - 1 = y - 1
      BY <3>2 DEF Distinct
    <3> QED
      BY <3>1, <3>3
  <2> QED
    BY <2>1, <2>2
<1> QED
  BY <1>2, <1>4 DEF Distinct, r

(* Where a key that is held is found in both lists. *)
LEMMA SamePlace ==
    ASSUME ListsOK, NEW k
    PROVE  /\ Cache!Has(items, k) =>
                 /\ Cache!Has(recency, k) /\ Cache!Place(recency, k) = Cache!Place(items, k)
                 /\ Cache!Place(items, k) \in 1..Len(items)
           /\ (~Cache!Has(items, k) /\ Cache!Has(recency, k)) =>
                 Cache!Place(recency, k) \in Nat /\ Cache!Place(recency, k) > Len(items)
<1>1. /\ DOMAIN items = 1..Len(items) /\ DOMAIN recency = 1..Len(recency)
      /\ Len(items) \in Nat /\ Len(recency) \in Nat /\ Len(items) <= Len(recency)
      /\ \A i \in 1..Len(items) : i \in DOMAIN recency /\ items[i].key = recency[i].key
  <2>1. /\ DOMAIN items = 1..Len(items) /\ DOMAIN recency = 1..Len(recency)
        /\ Len(items) \in Nat /\ Len(recency) \in Nat
    BY LenProperties DEF ListsOK
  <2> QED
    BY <2>1 DEF ListsOK, Agreeing
<1>2. Distinct(items) /\ Distinct(recency)
  BY DEF ListsOK
<1>3. ASSUME Cache!Has(items, k)
      PROVE  /\ Cache!Has(recency, k) /\ Cache!Place(recency, k) = Cache!Place(items, k)
             /\ Cache!Place(items, k) \in 1..Len(items)
  <2> DEFINE i == Cache!Place(items, k)
  <2>1. i \in 1..Len(items) /\ items[i].key = k
    BY <1>1, <1>2, <1>3, PlaceIs
  <2> HIDE DEF i
  <2>2. i \in DOMAIN recency /\ recency[i].key = k
    BY <1>1, <2>1
  <2>3. Cache!Has(recency, k)
    BY <2>2 DEF Cache!Has
  <2>4. i = Cache!Place(recency, k)
    BY <1>2, <2>2, <2>3, PlaceIs
  <2> QED
    BY <2>1, <2>3, <2>4 DEF i
<1>4. ASSUME ~Cache!Has(items, k), Cache!Has(recency, k)
      PROVE  Cache!Place(recency, k) \in Nat /\ Cache!Place(recency, k) > Len(items)
  <2> DEFINE i == Cache!Place(recency, k)
  <2>1. i \in 1..Len(recency) /\ recency[i].key = k
    BY <1>1, <1>2, <1>4, PlaceIs
  <2>2. i \notin 1..Len(items)
    BY <1>1, <1>4, <2>1 DEF Cache!Has
  <2> QED
    BY <1>1, <2>1, <2>2
<1> QED
  BY <1>3, <1>4

(* The lists without a key agree as far as both go. *)
LEMMA WithoutAgree ==
    ASSUME ListsOK, NEW k, NEW held, held = Cache!Without(items, k),
           NEW used, used = Cache!Without(recency, k)
    PROVE  /\ held \in Seq(Entries) /\ used \in Seq([key : CacheKeys])
           /\ Distinct(held) /\ Distinct(used)
           /\ ~Cache!Has(held, k) /\ ~Cache!Has(used, k)
           /\ Agreeing(held, used)
           /\ Len(held) = IF Cache!Has(items, k) THEN Len(items) - 1 ELSE Len(items)
<1>1. /\ items \in Seq(Entries) /\ recency \in Seq([key : CacheKeys])
      /\ Distinct(items) /\ Distinct(recency) /\ Len(items) <= Len(recency)
      /\ \A i \in DOMAIN items : items[i].key = recency[i].key
  BY DEF ListsOK, Agreeing
<1>2. /\ held \in Seq(Entries) /\ Distinct(held) /\ ~Cache!Has(held, k)
      /\ ~Cache!Has(items, k) => held = items
      /\ Cache!Has(items, k) =>
            /\ Len(held) = Len(items) - 1
            /\ \A j \in 1..Len(held) :
                  held[j] = IF j < Cache!Place(items, k) THEN items[j] ELSE items[j + 1]
  BY <1>1, WithoutIs
<1>3. /\ used \in Seq([key : CacheKeys]) /\ Distinct(used) /\ ~Cache!Has(used, k)
      /\ ~Cache!Has(recency, k) => used = recency
      /\ Cache!Has(recency, k) =>
            /\ Len(used) = Len(recency) - 1
            /\ \A j \in 1..Len(used) :
                  used[j] = IF j < Cache!Place(recency, k) THEN recency[j] ELSE recency[j + 1]
  BY <1>1, WithoutIs
<1>4. /\ Len(items) \in Nat /\ Len(recency) \in Nat /\ Len(held) \in Nat
      /\ DOMAIN items = 1..Len(items) /\ DOMAIN held = 1..Len(held)
      /\ DOMAIN recency = 1..Len(recency)
  BY <1>1, <1>2, LenProperties
<1>5. CASE Cache!Has(items, k)
  <2>1. /\ Cache!Has(recency, k) /\ Cache!Place(recency, k) = Cache!Place(items, k)
        /\ Cache!Place(items, k) \in 1..Len(items)
    BY <1>5, SamePlace
  <2>2. ASSUME NEW j \in 1..Len(held) PROVE held[j].key = used[j].key
    <3> DEFINE i == Cache!Place(items, k)
               x == IF j < i THEN j ELSE j + 1
    <3>1. x \in 1..Len(items) /\ j \in 1..Len(used)
      BY <1>1, <1>2, <1>3, <1>4, <1>5, <2>1
    <3>2. held[j] = items[x] /\ used[j] = recency[x]
      BY <1>2, <1>3, <1>5, <2>1, <3>1
    <3> QED
      BY <1>1, <1>4, <3>1, <3>2
  <2> QED
    BY <1>1, <1>2, <1>3, <1>4, <1>5, <2>1, <2>2 DEF Agreeing
<1>6. CASE ~Cache!Has(items, k) /\ ~Cache!Has(recency, k)
  BY <1>1, <1>2, <1>3, <1>6 DEF Agreeing
<1>7. CASE ~Cache!Has(items, k) /\ Cache!Has(recency, k)
  <2>1. Cache!Place(recency, k) \in Nat /\ Cache!Place(recency, k) > Len(items)
    BY <1>7, SamePlace
  <2>2. Cache!Place(recency, k) \in DOMAIN recency
    BY <1>1, <1>7, PlaceIs
  <2>3. Len(held) = Len(items) /\ Len(used) = Len(recency) - 1 /\ Len(items) <= Len(used)
    <3>1. held = items /\ Len(used) = Len(recency) - 1
      BY <1>2, <1>3, <1>7
    <3> QED
      BY <1>4, <2>1, <2>2, <3>1
  <2>4. ASSUME NEW j \in 1..Len(held) PROVE held[j].key = used[j].key
    <3>1. j \in 1..Len(used) /\ j < Cache!Place(recency, k) /\ j \in 1..Len(items)
      BY <1>3, <1>4, <2>1, <2>3
    <3>2. held[j] = items[j] /\ used[j] = recency[j]
      BY <1>2, <1>3, <1>7, <3>1
    <3> QED
      BY <1>1, <1>4, <3>1, <3>2
  <2> QED
    BY <1>2, <1>3, <1>4, <1>7, <2>3, <2>4 DEF Agreeing
<1> QED
  BY <1>5, <1>6, <1>7

LEMMA MovedToFront ==
    ASSUME ListsOK, NEW k \in CacheKeys, NEW e \in Entries, e.key = k,
           NEW held, held = <<e>> \o Cache!Without(items, k), NEW used, used = Cache!Use(k)
    PROVE  /\ held \in Seq(Entries) /\ used \in Seq([key : CacheKeys])
           /\ Distinct(held) /\ Distinct(used) /\ Agreeing(held, used)
           /\ Len(held) = IF Cache!Has(items, k) THEN Len(items) ELSE Len(items) + 1
<1> DEFINE h == Cache!Without(items, k)
           u == Cache!Without(recency, k)
           f == [key |-> k]
<1>1. /\ h \in Seq(Entries) /\ u \in Seq([key : CacheKeys])
      /\ Distinct(h) /\ Distinct(u) /\ ~Cache!Has(h, k) /\ ~Cache!Has(u, k)
      /\ Agreeing(h, u)
      /\ Len(h) = IF Cache!Has(items, k) THEN Len(items) - 1 ELSE Len(items)
  BY WithoutAgree
<1>2. held = <<e>> \o h /\ used = <<f>> \o u /\ f \in [key : CacheKeys] /\ f.key = k
  BY DEF Cache!Use
<1> HIDE DEF h, u, f
<1>3. /\ held \in Seq(Entries) /\ Len(held) = Len(h) + 1
      /\ held[1] = e /\ \A j \in 2..Len(held) : held[j] = h[j - 1]
  <2>1. \A x : x = <<e>> \o h =>
           /\ x \in Seq(Entries) /\ Len(x) = Len(h) + 1
           /\ x[1] = e /\ \A j \in 2..Len(x) : x[j] = h[j - 1]
    BY <1>1, FrontIs
  <2> QED
    BY <1>2, <2>1
<1>4. /\ used \in Seq([key : CacheKeys]) /\ Len(used) = Len(u) + 1
      /\ used[1] = f /\ \A j \in 2..Len(used) : used[j] = u[j - 1]
  BY <1>1, <1>2, FrontIs
<1>5. Distinct(held) /\ Distinct(used)
  BY <1>1, <1>2, FrontDistinct
<1>6. /\ Len(h) \in Nat /\ Len(u) \in Nat /\ DOMAIN h = 1..Len(h) /\ DOMAIN held = 1..Len(held)
      /\ Len(items) \in Nat
  BY <1>1, <1>3, LenProperties DEF ListsOK
<1>7. Agreeing(held, used)
  <2>1. Len(h) <= Len(u) /\ \A i \in 1..Len(h) : h[i].key = u[i].key
    BY <1>1, <1>6 DEF Agreeing
  <2>2. ASSUME NEW i \in 2..Len(held) PROVE held[i].key = used[i].key
    <3>1. i \in 2..Len(used) /\ i - 1 \in 1..Len(h)
      BY <1>3, <1>4, <1>6, <2>1
    <3>2. held[i] = h[i - 1] /\ used[i] = u[i - 1]
      BY <1>3, <1>4, <3>1
    <3> QED
      BY <2>1, <3>1, <3>2
  <2>3. held[1].key = used[1].key
    BY <1>2, <1>3, <1>4
  <2> QED
    BY <1>3, <1>4, <1>6, <2>1, <2>2, <2>3 DEF Agreeing
<1> QED
  BY <1>1, <1>3, <1>4, <1>5, <1>6, <1>7

(* What is too much goes from the end of the list. *)
LEMMA Trimmed ==
    ASSUME NEW held \in Seq(Entries), NEW used, Distinct(held), Agreeing(held, used),
           NEW n \in 1..Len(held), NEW r, r = SubSeq(held, 1, n)
    PROVE  r \in Seq(Entries) /\ Len(r) = n /\ Distinct(r) /\ Agreeing(r, used)
<1>1. Len(held) \in Nat /\ DOMAIN held = 1..Len(held)
  BY LenProperties
<1>2. /\ r \in Seq(Entries) /\ Len(r) = n /\ \A j \in 1..Len(r) : r[j] = held[j]
  <2>1. 1 \in Int /\ n \in Int
    BY <1>1
  <2>2. /\ SubSeq(held, 1, n) \in Seq(Entries)
        /\ Len(SubSeq(held, 1, n)) = IF 1 <= n THEN n - 1 + 1 ELSE 0
        /\ \A i \in 1..(n - 1 + 1) : SubSeq(held, 1, n)[i] = held[1 + i - 1]
    BY <1>1, <2>1, SubSeqProperties
  <2> QED
    BY <1>1, <2>1, <2>2
<1>3. DOMAIN r = 1..n
  BY <1>2, LenProperties
<1> QED
  BY <1>1, <1>2, <1>3 DEF Distinct, Agreeing

-----------------------------------------------------------------------------
(* The calls. *)

CallsOK == CallersTyped /\ \A c \in Readers : CallOK(c)

LEMMA BeginOK ==
    ASSUME CallsOK, NEW c \in Readers, NEW k \in CacheKeys \cup {Meta},
           NEW at \in {"fetching", "refreshed"}, Cache!Begin(c, k, at),
           metaCache' \in {metaCache, Nothing}, at = "refreshed" => metaCache' = Nothing
    PROVE  CallsOK'
<1>1. /\ cpc[c] = "idle" /\ version' = version /\ ctime' = ctime /\ fetched' = fetched
      /\ want' = [want EXCEPT ![c] = k] /\ began' = [began EXCEPT ![c] = version[k]]
      /\ alone' = [d \in Readers |->
            IF d = c THEN \A x \in Readers \ {c} : cpc[x] = "idle" ELSE cpc[d] = "idle"]
      /\ cpc' = [cpc EXCEPT ![c] = at]
  BY DEF Cache!Begin
<1>2. CallersTyped
  BY DEF CallsOK
<1>3. version[k] \in {0, 1} /\ alone' \in [Readers -> BOOLEAN]
  <2>1. \A d \in Readers :
           (IF d = c THEN \A x \in Readers \ {c} : cpc[x] = "idle" ELSE cpc[d] = "idle") \in BOOLEAN
    OBVIOUS
  <2> QED
    BY <1>1, <1>2, <2>1 DEF CallersTyped
<1>4. CallersTyped'
  BY <1>1, <1>2, <1>3 DEF CallersTyped
<1>5. /\ cpc'[c] = at /\ want'[c] = k /\ began'[c] = version[k]
      /\ alone'[c] <=> \A x \in Readers \ {c} : cpc[x] = "idle"
      /\ \A d \in Readers \ {c} : /\ cpc'[d] = cpc[d] /\ want'[d] = want[d] /\ began'[d] = began[d]
                                 /\ alone'[d] <=> cpc[d] = "idle"
  BY <1>1, <1>2 DEF CallersTyped
<1>6. CallOK(c)'
  BY <1>1, <1>3, <1>5 DEF CallOK
<1>7. ASSUME NEW d \in Readers \ {c} PROVE CallOK(d)'
  <2>1. CallOK(d)
    BY DEF CallsOK
  <2> QED
    BY <1>1, <1>5, <2>1 DEF CallOK
<1> QED
  BY <1>4, <1>6, <1>7 DEF CallsOK

LEMMA HitOK ==
    ASSUME CallsOK, NEW c \in Readers, Cache!Hit(c), metaCache' = metaCache
    PROVE  CallsOK'
<1>1. /\ version' = version /\ ctime' = ctime /\ fetched' = fetched /\ want' = want /\ began' = began
      /\ alone' = [d \in Readers |-> cpc[d] = "idle"] /\ cpc' = cpc
  BY DEF Cache!Hit
<1>2. CallersTyped
  BY DEF CallsOK
<1>3. CallersTyped'
  <2>1. \A d \in Readers : (cpc[d] = "idle") \in BOOLEAN
    OBVIOUS
  <2>2. alone' \in [Readers -> BOOLEAN]
    BY <1>1, <2>1
  <2> QED
    BY <1>1, <1>2, <2>2 DEF CallersTyped
<1>4. \A d \in Readers : alone'[d] <=> cpc[d] = "idle"
  BY <1>1
<1>5. ASSUME NEW d \in Readers PROVE CallOK(d)'
  <2>1. CallOK(d)
    BY DEF CallsOK
  <2> QED
    BY <1>1, <1>4, <2>1 DEF CallOK
<1> QED
  BY <1>3, <1>5 DEF CallsOK

(* A call that ends may store what it has fetched: no refresh is alone     *)
(* while it does.                                                          *)
LEMMA EndOK ==
    ASSUME CallsOK, NEW c \in Readers, cpc[c] # "idle", Cache!End(c), version' = version, ctime' = ctime,
           metaCache' \in {Nothing, 0, 1}
    PROVE  CallsOK'
<1>1. /\ cpc' = [cpc EXCEPT ![c] = "idle"]
      /\ want' = [want EXCEPT ![c] = Nothing] /\ fetched' = [fetched EXCEPT ![c] = Nothing]
      /\ began' = [began EXCEPT ![c] = 0] /\ alone' = [alone EXCEPT ![c] = TRUE]
  BY DEF Cache!End
<1>2. CallersTyped
  BY DEF CallsOK
<1>3. CallersTyped'
  BY <1>1, <1>2 DEF CallersTyped
<1>4. /\ cpc'[c] = "idle"
      /\ \A d \in Readers \ {c} : /\ cpc'[d] = cpc[d] /\ want'[d] = want[d] /\ began'[d] = began[d]
                                 /\ fetched'[d] = fetched[d] /\ alone'[d] = alone[d]
  BY <1>1, <1>2 DEF CallersTyped
<1>5. CallOK(c)'
  BY <1>4 DEF CallOK
<1>6. ASSUME NEW d \in Readers \ {c} PROVE CallOK(d)'
  <2>1. CallOK(d)
    BY DEF CallsOK
  <2>2. ~(cpc[d] # "idle" /\ alone[d])
    BY <2>1 DEF CallOK
  <2> QED
    BY <1>4, <2>1, <2>2 DEF CallOK
<1> QED
  BY <1>3, <1>5, <1>6 DEF CallsOK

(* A call goes on. *)
LEMMA GoOnOK ==
    ASSUME CallsOK, NEW c \in Readers, NEW at \in {"fetching", "storing"},
           cpc[c] \in {"refreshed", "fetching"},
           cpc' = [cpc EXCEPT ![c] = at], metaCache' = metaCache, version' = version, ctime' = ctime,
           want' = want, began' = began, alone' = alone,
           fetched' = IF at = "storing" THEN [fetched EXCEPT ![c] = version[want[c]]] ELSE fetched
    PROVE  CallsOK'
<1>1. CallersTyped /\ CallOK(c) /\ version[want[c]] \in {0, 1}
  BY DEF CallsOK, CallOK, CallersTyped
<1>2. CallersTyped'
  BY <1>1 DEF CallersTyped
<1>3. /\ cpc'[c] = at /\ at = "storing" => fetched'[c] = version[want[c]]
      /\ \A d \in Readers \ {c} : cpc'[d] = cpc[d] /\ fetched'[d] = fetched[d]
  BY <1>1 DEF CallersTyped
<1>4. CallOK(c)'
  BY <1>1, <1>3 DEF CallOK
<1>5. ASSUME NEW d \in Readers \ {c} PROVE CallOK(d)'
  <2>1. CallOK(d)
    BY DEF CallsOK
  <2>2. ~(cpc[d] # "idle" /\ alone[d])
    BY <2>1 DEF CallOK
  <2> QED
    BY <1>3, <2>1, <2>2 DEF CallOK
<1> QED
  BY <1>2, <1>4, <1>5 DEF CallsOK

-----------------------------------------------------------------------------
(* The steps. *)

AnswerOK == Cache!NotPastItsTime /\ Cache!RefreshedAnew

LEMMA CacheInvIs == CacheInv <=> ListsOK /\ CallsOK /\ AnswerOK
BY DEF CacheInv, CallsOK, AnswerOK

LEMMA CacheInitInv ==
    ASSUME Cache!ConstantsOK, Cache!Init
    PROVE  CacheInv
<1>1. items = <<>> /\ recency = <<>>
  BY DEF Cache!Init
<1>2. ListsOK
  <2>1. /\ <<>> \in Seq(Entries) /\ <<>> \in Seq([key : CacheKeys]) /\ Len(<<>>) = 0 /\ DOMAIN <<>> = {}
    BY EmptySeq
  <2> QED
    BY <1>1, <2>1 DEF ListsOK, Distinct, Agreeing, Cache!ConstantsOK
<1>3. CallersTyped
  BY DEF Cache!Init, CallersTyped
<1>4. \A c \in Readers : CallOK(c)
  BY DEF Cache!Init, CallOK
<1>5. Cache!NotPastItsTime /\ Cache!RefreshedAnew
  BY DEF Cache!Init, Cache!NotPastItsTime, Cache!RefreshedAnew
<1> QED
  BY <1>2, <1>3, <1>4, <1>5 DEF CacheInv

LEMMA ListsStay ==
    ASSUME ListsOK, items' = items, recency' = recency
    PROVE  ListsOK'
BY DEF ListsOK, Distinct, Agreeing

LEMMA AnswerStays ==
    ASSUME AnswerOK, answered' = answered
    PROVE  AnswerOK'
BY DEF AnswerOK, Cache!NotPastItsTime, Cache!RefreshedAnew

LEMMA LookStep ==
    ASSUME Cache!ConstantsOK, CacheInv, NEW c \in Readers, NEW k \in CacheKeys, Cache!Look(c, k)
    PROVE  CacheInv'
<1> DEFINE e == Cache!Entry(items, k)
           i == Cache!Place(items, k)
<1>1. ListsOK /\ CallsOK /\ AnswerOK /\ metaCache' = metaCache /\ k \in CacheKeys \cup {Meta}
  BY CacheInvIs DEF Cache!Look
<1>2. CASE ~Cache!Has(items, k) \/ Cache!Expired(e)
  <2>1. /\ items' = Cache!Without(items, k)
        /\ recency' = IF Cache!Has(items, k) THEN Cache!Without(recency, k) ELSE recency
        /\ Cache!Begin(c, k, "fetching") /\ answered' = answered
    <3>1. CASE ~Cache!Has(items, k)
      <4>1. Cache!get(k) = <<Nothing, items>>
        BY <3>1 DEF Cache!get
      <4>2. Cache!get(k)[1] = Nothing /\ Cache!get(k)[2] = items
        BY <4>1
      <4>3. /\ items' = items /\ recency' = recency
            /\ Cache!Begin(c, k, "fetching") /\ answered' = answered
        BY <3>1, <4>2 DEF Cache!Look
      <4> QED
        BY <3>1, <4>3 DEF Cache!Without
    <3>2. CASE Cache!Has(items, k) /\ Cache!Expired(e)
      <4>1. Cache!get(k) = <<Nothing, Cache!Without(items, k)>>
        BY <3>2 DEF Cache!get
      <4>2. Cache!get(k)[1] = Nothing /\ Cache!get(k)[2] = Cache!Without(items, k)
        BY <4>1
      <4> QED
        BY <3>2, <4>2 DEF Cache!Look
    <3> QED
      BY <1>2, <3>1, <3>2
  <2>2. CallsOK'
    BY <1>1, <2>1, BeginOK
  <2>3. AnswerOK'
    BY <1>1, <2>1, AnswerStays
  <2>4. ListsOK'
    <3>1. CASE ~Cache!Has(items, k)
      BY <1>1, <2>1, <3>1, ListsStay DEF Cache!Without
    <3>2. CASE Cache!Has(items, k)
      <4>1. recency' = Cache!Without(recency, k)
        BY <2>1, <3>2
      <4>2. /\ items' \in Seq(Entries) /\ recency' \in Seq([key : CacheKeys])
            /\ Distinct(items') /\ Distinct(recency') /\ Agreeing(items', recency')
            /\ Len(items') = Len(items) - 1
        BY <1>1, <2>1, <3>2, <4>1, WithoutAgree
      <4>3. Len(items') <= MaxEntries
        BY <1>1, <4>2, LenProperties DEF ListsOK, Cache!ConstantsOK
      <4> QED
        BY <4>2, <4>3 DEF ListsOK, Entries, Distinct, Agreeing
    <3> QED
      BY <3>1, <3>2
  <2> QED
    BY <2>2, <2>3, <2>4, CacheInvIs DEF CacheInv, CallsOK, AnswerOK
<1>3. CASE Cache!Has(items, k) /\ ~Cache!Expired(e)
  <2>1. i \in DOMAIN items /\ e = items[i] /\ e.key = k
    BY <1>1, <1>3, PlaceIs DEF ListsOK, Cache!Entry
  <2>2. e \in Entries
    BY <1>1, <2>1, ElementOfSeq, LenProperties DEF ListsOK
  <2>3. e.value # Nothing /\ e.value \in Nat /\ e.expiresAt \in Nat
    BY <2>2 DEF Entries, Cache!ConstantsOK
  <2>4. Cache!get(k) = <<e.value, <<e>> \o Cache!Without(items, k)>>
    BY <1>3 DEF Cache!get
  <2>5. Cache!get(k)[1] = e.value /\ Cache!get(k)[2] = <<e>> \o Cache!Without(items, k)
    BY <2>4
  <2>6. /\ items' = <<e>> \o Cache!Without(items, k) /\ recency' = Cache!Use(k)
        /\ Cache!Hit(c) /\ Cache!Answer(e.value, "cached", Cache!Age(k), 0)
    BY <2>3, <2>5 DEF Cache!Look
  <2>7. CallsOK'
    BY <1>1, <2>6, HitOK
  <2>8. AnswerOK'
    <3>1. answered'.how = "cached" /\ answered'.age = ctime + TTL - e.expiresAt
      BY <2>6 DEF Cache!Answer, Cache!Age
    <3>2. TTL > 0 => ctime + TTL - e.expiresAt <= TTL
      BY <1>1, <1>3, <2>3 DEF Cache!Expired, Cache!ConstantsOK, CallsOK, CallersTyped
    <3> QED
      BY <3>1, <3>2 DEF AnswerOK, Cache!NotPastItsTime, Cache!RefreshedAnew
  <2>9. ListsOK'
    <3> HIDE DEF e
    <3>1. /\ items' \in Seq(Entries) /\ recency' \in Seq([key : CacheKeys])
          /\ Distinct(items') /\ Distinct(recency') /\ Agreeing(items', recency')
          /\ Len(items') = Len(items)
      BY <1>1, <1>3, <2>1, <2>2, <2>6, MovedToFront
    <3> QED
      BY <1>1, <3>1 DEF ListsOK, Entries, Distinct, Agreeing
  <2> QED
    BY <2>7, <2>8, <2>9, CacheInvIs DEF CacheInv, CallsOK, AnswerOK
<1> QED
  BY <1>2, <1>3

LEMMA MetaStep ==
    ASSUME Cache!ConstantsOK, CacheInv, NEW c \in Readers,
           Cache!LookMeta(c) \/ Cache!RefreshMarketMeta(c) \/ Cache!Reload(c)
    PROVE  CacheInv'
<1>1. ListsOK /\ CallsOK /\ AnswerOK /\ Meta \in CacheKeys \cup {Meta} /\ CallersTyped
  BY CacheInvIs DEF CallsOK
<1>2. CASE Cache!LookMeta(c)
  <2>1. items' = items /\ recency' = recency /\ metaCache' = metaCache
    BY <1>2 DEF Cache!LookMeta, Cache!cache
  <2>2. CASE metaCache # Nothing
    <3>1. Cache!Hit(c) /\ Cache!Answer(metaCache, "held", 0, 0)
      BY <1>2, <2>2 DEF Cache!LookMeta
    <3>2. AnswerOK'
      BY <3>1 DEF Cache!Answer, AnswerOK, Cache!NotPastItsTime, Cache!RefreshedAnew
    <3> QED
      BY <1>1, <2>1, <3>1, <3>2, HitOK, ListsStay, CacheInvIs DEF CacheInv, CallsOK, AnswerOK
  <2>3. CASE metaCache = Nothing
    <3>1. Cache!Begin(c, Meta, "fetching") /\ answered' = answered
      BY <1>2, <2>3 DEF Cache!LookMeta
    <3>2. CallsOK'
      BY <1>1, <2>1, <3>1, BeginOK
    <3> QED
      BY <1>1, <2>1, <3>1, <3>2, AnswerStays, ListsStay DEF CacheInv, CallsOK, AnswerOK
  <2> QED
    BY <2>2, <2>3
<1>3. CASE Cache!RefreshMarketMeta(c)
  <2>1. /\ Cache!Begin(c, Meta, "refreshed") /\ metaCache' = Nothing
        /\ items' = items /\ recency' = recency /\ answered' = answered
    BY <1>3 DEF Cache!RefreshMarketMeta
  <2>2. CallsOK'
    BY <1>1, <2>1, BeginOK
  <2> QED
    BY <1>1, <2>1, <2>2, AnswerStays, ListsStay DEF CacheInv, CallsOK, AnswerOK
<1>4. CASE Cache!Reload(c)
  <2>1. /\ cpc[c] = "refreshed" /\ items' = items /\ recency' = recency /\ metaCache' = metaCache
        /\ ctime' = ctime /\ version' = version
    BY <1>4 DEF Cache!Reload, Cache!cache
  <2>2. CASE metaCache # Nothing
    <3>1. Cache!End(c) /\ Cache!Answer(metaCache, "refresh", 0, Cache!Since(c))
      BY <1>4, <2>2 DEF Cache!Reload
    <3>2. CallsOK'
      BY <1>1, <2>1, <3>1, EndOK DEF CallersTyped
    <3>3. AnswerOK'
      <4>1. CallOK(c)
        BY <1>1 DEF CallsOK
      <4>2. Cache!Since(c) = 0
        BY <2>1, <2>2, <4>1 DEF CallOK, Cache!Since
      <4>3. metaCache >= 0
        BY <1>1, <2>2 DEF CallersTyped
      <4> QED
        BY <3>1, <4>2, <4>3 DEF Cache!Answer, AnswerOK, Cache!NotPastItsTime, Cache!RefreshedAnew
    <3> QED
      BY <1>1, <2>1, <3>2, <3>3, ListsStay DEF CacheInv, CallsOK, AnswerOK
  <2>3. CASE metaCache = Nothing
    <3>1. /\ cpc' = [cpc EXCEPT ![c] = "fetching"] /\ want' = want /\ fetched' = fetched /\ began' = began
          /\ alone' = alone /\ answered' = answered
      BY <1>4, <2>3 DEF Cache!Reload
    <3>2. CallsOK'
      BY <1>1, <2>1, <3>1, GoOnOK
    <3> QED
      BY <1>1, <2>1, <3>1, <3>2, AnswerStays, ListsStay DEF CacheInv, CallsOK, AnswerOK
  <2> QED
    BY <2>2, <2>3
<1> QED
  BY <1>2, <1>3, <1>4

LEMMA FetchStep ==
    ASSUME CacheInv, NEW c \in Readers, Cache!Fetch(c)
    PROVE  CacheInv'
<1>1. ListsOK /\ CallsOK /\ AnswerOK /\ CallersTyped
  BY CacheInvIs DEF CallsOK
<1>2. /\ cpc[c] = "fetching" /\ items' = items /\ recency' = recency /\ metaCache' = metaCache
      /\ ctime' = ctime /\ version' = version
  BY DEF Cache!Fetch, Cache!cache
<1>3. CASE /\ cpc' = [cpc EXCEPT ![c] = "storing"] /\ fetched' = [fetched EXCEPT ![c] = version[want[c]]]
           /\ UNCHANGED <<want, began, alone, answered>>
  <2>1. CallsOK'
    BY <1>1, <1>2, <1>3, GoOnOK
  <2> QED
    BY <1>1, <1>2, <1>3, <2>1, AnswerStays, ListsStay DEF CacheInv, CallsOK, AnswerOK
<1>4. CASE Cache!End(c) /\ answered' = Nothing
  <2>1. CallsOK'
    BY <1>1, <1>2, <1>4, EndOK DEF CallersTyped
  <2>2. AnswerOK'
    BY <1>4 DEF AnswerOK, Cache!NotPastItsTime, Cache!RefreshedAnew
  <2> QED
    BY <1>1, <1>2, <2>1, <2>2, ListsStay DEF CacheInv, CallsOK, AnswerOK
<1> QED
  BY <1>3, <1>4 DEF Cache!Fetch

LEMMA StoreStep ==
    ASSUME Cache!ConstantsOK, CacheInv, NEW c \in Readers, Cache!Store(c) \/ Cache!StoreNothing(c)
    PROVE  CacheInv'
<1>1. ListsOK /\ CallsOK /\ AnswerOK /\ CallersTyped /\ CallOK(c)
  BY CacheInvIs DEF CallsOK
<1>2. /\ cpc[c] = "storing" /\ Cache!End(c) /\ ctime' = ctime /\ version' = version
      /\ Cache!Answer(fetched[c], "fetched", 0, Cache!Since(c))
  BY DEF Cache!Store, Cache!StoreNothing
<1>3. /\ want[c] \in CacheKeys \cup {Meta} /\ fetched[c] \in {0, 1} /\ began[c] <= fetched[c]
  BY <1>1, <1>2 DEF CallOK
<1>4. AnswerOK'
  <2>1. fetched[c] >= Cache!Since(c)
    BY <1>1, <1>3 DEF Cache!Since, CallersTyped
  <2> QED
    BY <1>2, <2>1 DEF Cache!Answer, AnswerOK, Cache!NotPastItsTime, Cache!RefreshedAnew
<1>5. CASE items' = items /\ recency' = recency /\ metaCache' \in {metaCache, fetched[c]}
  <2>1. CallsOK'
    BY <1>1, <1>2, <1>3, <1>5, EndOK DEF CallersTyped
  <2> QED
    BY <1>1, <1>4, <1>5, <2>1, ListsStay DEF CacheInv, CallsOK, AnswerOK
<1>6. CASE /\ want[c] # Meta /\ items' = Cache!set(want[c], fetched[c])
           /\ recency' = Cache!Use(want[c]) /\ metaCache' = metaCache
  <2> DEFINE k == want[c]
             e == [key |-> k, value |-> fetched[c], expiresAt |-> ctime + TTL]
             full == <<e>> \o Cache!Without(items, k)
             n == IF Len(full) > MaxEntries THEN MaxEntries ELSE Len(full)
  <2>1. CallsOK'
    BY <1>1, <1>2, <1>6, EndOK DEF CallersTyped
  <2>2. k \in CacheKeys /\ e \in Entries /\ e.key = k
    BY <1>1, <1>3, <1>6 DEF Entries, CallersTyped, Cache!ConstantsOK
  <2>3. items' = SubSeq(full, 1, n) /\ recency' = Cache!Use(k)
    BY <1>6 DEF Cache!set
  <2> HIDE DEF k, e
  <2>4. /\ full \in Seq(Entries) /\ recency' \in Seq([key : CacheKeys])
        /\ Distinct(full) /\ Distinct(recency') /\ Agreeing(full, recency')
        /\ Len(full) = IF Cache!Has(items, k) THEN Len(items) ELSE Len(items) + 1
    BY <1>1, <2>2, <2>3, MovedToFront
  <2>5. Len(full) \in Nat /\ Len(full) >= 1
    <3>1. Len(items) \in Nat
      BY <1>1, LenProperties DEF ListsOK
    <3>2. Cache!Has(items, k) => Cache!Place(items, k) \in 1..Len(items)
      BY <1>1, SamePlace
    <3> QED
      BY <2>4, <3>1, <3>2
  <2>6. n \in 1..Len(full) /\ n <= MaxEntries
    BY <2>5 DEF Cache!ConstantsOK
  <2> HIDE DEF full, n
  <2>7. items' \in Seq(Entries) /\ Len(items') = n /\ Distinct(items') /\ Agreeing(items', recency')
    BY <2>3, <2>4, <2>6, Trimmed
  <2>8. ListsOK'
    BY <2>4, <2>6, <2>7 DEF ListsOK, Entries, Distinct, Agreeing
  <2> QED
    BY <1>4, <2>1, <2>8 DEF CacheInv, CallsOK, AnswerOK
<1> QED
  BY <1>5, <1>6 DEF Cache!Store, Cache!StoreNothing, Cache!cache

LEMMA OutsideStep ==
    ASSUME Cache!ConstantsOK, CacheInv,
           Cache!Clear \/ Cache!Tick \/ Cache!ServerChanges \/ UNCHANGED Cache!vars
    PROVE  CacheInv'
<1>1. ListsOK /\ CallsOK /\ AnswerOK /\ CallersTyped
  BY CacheInvIs DEF CallsOK
<1>2. UNCHANGED <<cpc, want, fetched, began, alone>> /\ metaCache' = metaCache /\ answered' = answered
  BY DEF Cache!Clear, Cache!Tick, Cache!ServerChanges, Cache!vars, Cache!local, Cache!cache
<1>3. \/ items' = items /\ recency' = recency
      \/ items' = <<>> /\ recency' = <<>>
  BY DEF Cache!Clear, Cache!Tick, Cache!ServerChanges, Cache!vars, Cache!cache
<1>4. /\ ctime' \in {ctime, ctime + 1}
      /\ version' \in {version, [version EXCEPT ![Meta] = 1]}
  BY DEF Cache!Clear, Cache!Tick, Cache!ServerChanges, Cache!vars
<1>5. CallersTyped'
  BY <1>1, <1>2, <1>4 DEF CallersTyped
<1>6. \A k \in CacheKeys \cup {Meta} : version'[k] >= version[k]
  BY <1>1, <1>4 DEF CallersTyped
<1>7. ASSUME NEW c \in Readers PROVE CallOK(c)'
  <2>1. CallOK(c)
    BY <1>1 DEF CallsOK
  <2>2. cpc[c] # "idle" => began[c] <= version'[want[c]]
    BY <1>1, <1>5, <1>6, <2>1 DEF CallOK, CallersTyped
  <2> QED
    BY <1>2, <2>1, <2>2 DEF CallOK
<1>8. ListsOK'
  <2>1. CASE items' = items /\ recency' = recency
    BY <1>1, <2>1, ListsStay
  <2>2. CASE items' = <<>> /\ recency' = <<>>
    <3>1. /\ <<>> \in Seq(Entries) /\ <<>> \in Seq([key : CacheKeys]) /\ Len(<<>>) = 0 /\ DOMAIN <<>> = {}
      BY EmptySeq
    <3>2. 0 <= MaxEntries
      BY DEF Cache!ConstantsOK
    <3> QED
      BY <2>2, <3>1, <3>2 DEF ListsOK, Distinct, Agreeing, Entries
  <2> QED
    BY <1>3, <2>1, <2>2
<1>9. AnswerOK'
  BY <1>1, <1>2, AnswerStays
<1> QED
  BY <1>5, <1>7, <1>8, <1>9 DEF CacheInv, AnswerOK

LEMMA CacheInvSound == CacheInv => Cache!CacheSound
<1> SUFFICES ASSUME CacheInv
             PROVE  Cache!CacheSound
  OBVIOUS
<1>1. Cache!TypeOK
  <2>1. ASSUME NEW i \in DOMAIN items PROVE items[i].key \in CacheKeys /\ items[i].expiresAt \in Nat
    <3>1. items[i] \in Entries
      BY ElementOfSeq, LenProperties DEF CacheInv, ListsOK
    <3> QED
      BY <3>1 DEF Entries
  <2> QED
    BY <2>1 DEF CacheInv, CallersTyped, Cache!TypeOK
<1>2. Cache!RecentKept
  BY DEF CacheInv, ListsOK, Agreeing, Cache!RecentKept
<1> QED
  BY <1>1, <1>2 DEF CacheInv, Cache!CacheSound

(* get, set, RefreshMarketMeta: the cache holds what was used last, as     *)
(* much of it as it has room for, and answers nothing past its time; a     *)
(* refresh that is alone returns nothing older than its call. For any      *)
(* callers, keys, size and lifetime, and any number of calls.              *)
THEOREM CacheIsSound == AlgorithmsSpec => []CacheSound
<1> DEFINE Inv == topic = "cache" => CacheInv
<1> Cache!ConstantsOK
  BY ComputationsOK
<1>1. Cache!Init => CacheInv
  BY CacheInitInv
<1>2. CacheInv /\ [Cache!Next]_(Cache!vars) => CacheInv'
  <2> SUFFICES ASSUME CacheInv, [Cache!Next]_(Cache!vars)
               PROVE  CacheInv'
    OBVIOUS
  <2>1. CASE \E c \in Readers : \E k \in CacheKeys : Cache!Look(c, k)
    BY <2>1, LookStep
  <2>2. CASE \E c \in Readers :
               Cache!LookMeta(c) \/ Cache!RefreshMarketMeta(c) \/ Cache!Reload(c)
    BY <2>2, MetaStep
  <2>3. CASE \E c \in Readers : Cache!Fetch(c)
    BY <2>3, FetchStep
  <2>4. CASE \E c \in Readers : Cache!Store(c) \/ Cache!StoreNothing(c)
    BY <2>4, StoreStep
  <2>5. CASE Cache!Clear \/ Cache!Tick \/ Cache!ServerChanges \/ UNCHANGED Cache!vars
    BY <2>5, OutsideStep
  <2> QED
    BY <2>1, <2>2, <2>3, <2>4, <2>5 DEF Cache!Next
<1>3. CacheInv => Cache!CacheSound
  BY CacheInvSound
<1>4. AlgorithmsInit => Inv
  BY <1>1 DEF AlgorithmsInit
<1>5. Inv /\ [AlgorithmsNext]_algorithmVars => Inv'
  <2> SUFFICES ASSUME Inv, [AlgorithmsNext]_algorithmVars, topic' = "cache"
               PROVE  CacheInv'
    OBVIOUS
  <2>1. topic = "cache" /\ [Cache!Next]_(Cache!vars)
    BY DEF AlgorithmsNext, algorithmVars, MoneyNext, EvidenceNext, BookNext, CacheNext, CandlesNext,
      LadderNext, RevalueNext,
      cacheVars, Cache!vars, Cache!cache, Cache!local
  <2> QED
    BY <1>2, <2>1
<1>6. Inv => CacheSound
  BY <1>3 DEF CacheSound
<1> QED
  BY <1>4, <1>5, <1>6, PTL DEF AlgorithmsSpec
=============================================================================
