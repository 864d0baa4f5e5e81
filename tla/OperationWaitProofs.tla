------------------------- MODULE OperationWaitProofs -------------------------
(***************************************************************************)
(* Proofs about OperationWait, for any number of callers of a handle and   *)
(* of failures: what a wait leaves behind, what is cached, and that the    *)
(* handle implements Settlement. At the end, about two computations that   *)
(* stand in for the server until it has settled: Revaluation, figures      *)
(* re-marked at the mid prices the client has heard of, and                *)
(* ProjectedPositions, the book between an execution and its accounting.   *)
(* Both are about sums over finite sets, which come first.                 *)
(***************************************************************************)
EXTENDS OperationWait, Algorithms, Sequences, FiniteSetTheorems, WellFoundedInduction, TLAPS

(* Whatever a part of the handle takes for the settlement is the server's: *)
(* the submission's answer, a read's, the channel's, a caller's verdict.   *)
Agreement ==
    /\ sub = "calling" => op = "none"
    /\ sub \in Terminal => op = sub
    /\ wire = "sent" => op \in Terminal
    /\ \A c \in Callers :
          /\ answer[c] \in Terminal => op = answer[c]
          /\ slot[c] # "none" => op = slot[c]
          /\ verdict[c] \in Terminal => op = verdict[c]

(* A worker belongs to a wait, is the only one to hold its interest in the *)
(* event types, and backs off twice at most.                               *)
Workers ==
    \A c \in Callers :
        /\ pc[c] \in {"idle", "submit"} => wpc[c] = "none"
        /\ pc[c] \in {"store", "done"} => wpc[c] \in {"none", "gone"}
        /\ wpc[c] \in {"none", "gone"} => c \notin acquired
        /\ wpc[c] = "backoff" => attempt[c] < 2

(* The inductive invariant. *)
IndInv == TypeOK /\ Agreement /\ Workers /\ CacheIsSettlement

-----------------------------------------------------------------------------
(* Nothing is submitted at first, and nobody waits. *)
LEMMA InitInv == Init => IndInv
<1> SUFFICES ASSUME Init PROVE IndInv
  OBVIOUS
<1> USE DEF Init, InitWith, States, Terminal
<1>1. TypeOK
  <2>1. faults \in Nat
    BY ConstantsOK DEF ConstantsOK
  <2>2. settleDone \in BOOLEAN /\ up \in BOOLEAN /\ registered \in BOOLEAN
    BY Zenon
  <2>3. ackOk \in [Callers -> BOOLEAN] /\ good \in [Callers -> BOOLEAN]
    OBVIOUS
  <2>4. /\ pc \in [Callers -> {"idle", "submit", "wait", "join", "store", "done"}]
        /\ wpc \in [Callers -> {"none", "idle", "ack", "confirmed", "read", "reply", "backoff", "gone"}]
        /\ attempt \in [Callers -> 0..2]
    OBVIOUS
  <2> QED
    BY <2>1, <2>2, <2>3, <2>4 DEF TypeOK
<1>2. Agreement /\ Workers /\ CacheIsSettlement
  BY DEF Agreement, Workers, CacheIsSettlement
<1> QED
  BY <1>1, <1>2 DEF IndInv

(* The end of a worker changes its own entries only. *)
LEMMA ReturnTypes ==
    ASSUME TypeOK, NEW c \in Callers, WorkerReturns(c)
    PROVE  /\ wpc' \in [Callers -> {"none", "idle", "ack", "confirmed", "read", "reply", "backoff", "gone"}]
           /\ acquired' \in SUBSET Callers /\ registered' \in BOOLEAN
           /\ completed' \in [Callers -> Nat] /\ covered' \in [Callers -> Nat]
           /\ attempt' \in [Callers -> 0..2] /\ ackOk' \in [Callers -> BOOLEAN]
           /\ answer' \in [Callers -> States \cup {"none", "error"}]
           /\ good' \in [Callers -> BOOLEAN] /\ crossed' \in SUBSET Callers
<1>1. registered' \in BOOLEAN
  BY Zenon DEF WorkerReturns, TypeOK
<1>2. acquired' \in SUBSET Callers /\ crossed' \in SUBSET Callers
  BY DEF WorkerReturns, TypeOK
<1>3. /\ completed' \in [Callers -> Nat] /\ covered' \in [Callers -> Nat]
      /\ attempt' \in [Callers -> 0..2]
  BY DEF WorkerReturns, TypeOK
<1>4. ackOk' \in [Callers -> BOOLEAN] /\ good' \in [Callers -> BOOLEAN]
  BY DEF WorkerReturns, TypeOK
<1>5. /\ answer' \in [Callers -> States \cup {"none", "error"}]
      /\ wpc' \in [Callers -> {"none", "idle", "ack", "confirmed", "read", "reply", "backoff", "gone"}]
  BY DEF WorkerReturns, TypeOK
<1> QED
  BY <1>1, <1>2, <1>3, <1>4, <1>5

(* recover and its nudges keep the types of what they count. *)
LEMMA RecoverTypes ==
    ASSUME TypeOK, Recover(Listening)
    PROVE  /\ requests' \in SUBSET Callers
           /\ nudges' \in [Callers -> Nat] /\ revision' \in [Callers -> Nat]
<1>1. requests' \in SUBSET Callers
  BY DEF Recover, TypeOK
<1>2. nudges' \in [Callers -> Nat]
  BY DEF Recover, TypeOK
<1>3. revision' \in [Callers -> Nat]
  BY DEF Recover, Advanced, TypeOK
<1> QED
  BY <1>1, <1>2, <1>3

(* The channel of a wait takes only terminal states. *)
LEMMA ResolveTypes ==
    ASSUME TypeOK, NEW C, NEW s, slot' = TryResolve(C, s)
    PROVE  slot' \in [Callers -> Terminal \cup {"none"}]
BY DEF TryResolve, TypeOK

(* Every step keeps the types. *)
LEMMA TypeStep == TypeOK /\ Workers /\ [Next]_vars => TypeOK'
<1> SUFFICES ASSUME TypeOK, Workers, [Next]_vars PROVE TypeOK'
  OBVIOUS
<1> USE DEF TypeOK, handle, recovery, worker, socket
<1>1. CASE Submitted
  BY <1>1 DEF Submitted, States
<1>2. CASE SubmitFails
  BY <1>2 DEF SubmitFails, Fault, States
<1>3. ASSUME NEW c \in Callers, Wait(c) PROVE TypeOK'
  BY <1>3 DEF Wait
<1>4. ASSUME NEW c \in Callers, SettledAtOnce(c) PROVE TypeOK'
  BY <1>4 DEF SettledAtOnce, Ends
<1>5. ASSUME NEW c \in Callers, CancelSubmitted(c) PROVE TypeOK'
  BY <1>5 DEF CancelSubmitted, Ends
<1>6. ASSUME NEW c \in Callers, WaitForOperation(c) PROVE TypeOK'
  BY <1>6 DEF WaitForOperation
<1>7. ASSUME NEW c \in Callers, TakeResult(c) PROVE TypeOK'
  BY <1>7 DEF TakeResult
<1>8. ASSUME NEW c \in Callers, Deadline(c) PROVE TypeOK'
  BY <1>8 DEF Deadline
<1>9. ASSUME NEW c \in Callers, Join(c) PROVE TypeOK'
  BY <1>9 DEF Join
<1>10. ASSUME NEW c \in Callers, Store(c) PROVE TypeOK'
  <2>1. settleDone' \in BOOLEAN
    BY <1>10, Zenon DEF Store, Caches
  <2>2. stored' \in Terminal \cup {"none", "open"}
    BY <1>10 DEF Store
  <2> QED
    BY <1>10, <2>1, <2>2 DEF Store
<1>11. ASSUME NEW c \in Callers, Nudge(c) PROVE TypeOK'
  BY <1>11 DEF Nudge
<1>12. ASSUME NEW c \in Callers, WorkerStops(c) PROVE TypeOK'
  BY <1>12, ReturnTypes DEF WorkerStops
<1>13. ASSUME NEW c \in Callers, TakeRequest(c) PROVE TypeOK'
  <2>1. CASE slot[c] # "none" \/ revision[c] <= completed[c]
    BY <1>13, <2>1 DEF TakeRequest
  <2>2. CASE ~(slot[c] # "none" \/ revision[c] <= completed[c])
    <3>1. good' \in [Callers -> BOOLEAN] /\ ackOk' \in [Callers -> BOOLEAN]
      BY <1>13, <2>2 DEF TakeRequest
    <3>2. /\ wpc' \in [Callers -> {"none", "idle", "ack", "confirmed", "read", "reply", "backoff", "gone"}]
          /\ covered' \in [Callers -> Nat] /\ completed' \in [Callers -> Nat]
          /\ attempt' \in [Callers -> 0..2]
      BY <1>13, <2>2 DEF TakeRequest
    <3>3. acquired' \in SUBSET Callers /\ requests' \in SUBSET Callers /\ UNCHANGED <<answer, crossed>>
      BY <1>13, <2>2 DEF TakeRequest
    <3>4. UNCHANGED <<op, handle, pc, verdict, slot, nudges, revision, socket, faults>>
      BY <1>13 DEF TakeRequest
    <3> QED
      BY <3>1, <3>2, <3>3, <3>4
  <2> QED
    BY <2>1, <2>2
<1>14. ASSUME NEW c \in Callers, Acknowledged(c) PROVE TypeOK'
  BY <1>14 DEF Acknowledged, CoversFrom
<1>15. ASSUME NEW c \in Callers, AckFails(c) PROVE TypeOK'
  BY <1>15 DEF AckFails, CoversFrom, Fault
<1>40. ASSUME NEW c \in Callers, Load(c) PROVE TypeOK'
  BY <1>40 DEF Load, CoversFrom, Over
<1>16. ASSUME NEW c \in Callers, Serve(c) PROVE TypeOK'
  BY <1>16 DEF Serve, Fault
<1>17. ASSUME NEW c \in Callers, WorkerLeaves(c) PROVE TypeOK'
  BY <1>17, ReturnTypes DEF WorkerLeaves
<1>18. ASSUME NEW c \in Callers, Reply(c) PROVE TypeOK'
  <2>0. slot' \in [Callers -> Terminal \cup {"none"}]
    BY <1>18, ResolveTypes DEF Reply
  <2>1. CASE answer[c] \in Terminal
    BY <1>18, <2>0, <2>1, ReturnTypes DEF Reply
  <2>2. CASE answer[c] \notin Terminal
    <3> DEFINE ok == answer[c] = "pending" /\ ackOk[c]
    <3>1. CASE ok \/ attempt[c] = 2
      <4>1. RoundEnds(c, ok) /\ answer' = [answer EXCEPT ![c] = "none"] /\ UNCHANGED registered
        BY <1>18, <2>2, <3>1 DEF Reply
      <4>2. good' \in [Callers -> BOOLEAN]
        BY <4>1, Zenon DEF RoundEnds
      <4> QED
        BY <1>18, <2>0, <4>1, <4>2 DEF Reply, RoundEnds
    <3>2. CASE ~(ok \/ attempt[c] = 2)
      <4>1. /\ wpc' = [wpc EXCEPT ![c] = "backoff"] /\ answer' = [answer EXCEPT ![c] = "none"]
            /\ UNCHANGED <<registered, completed, covered, attempt, acquired, ackOk, good, crossed>>
        BY <1>18, <2>2, <3>2 DEF Reply
      <4>2. UNCHANGED <<op, handle, pc, verdict, recovery, up, wire, faults>>
        BY <1>18 DEF Reply
      <4> QED
        BY <2>0, <4>1, <4>2
    <3> QED
      BY <3>1, <3>2
  <2> QED
    BY <2>1, <2>2
<1>19. ASSUME NEW c \in Callers, Backoff(c) PROVE TypeOK'
  BY <1>19 DEF Backoff, Workers
<1>20. CASE Settle
  <2>1. op' \in States \cup {"none"} /\ wire' \in {"none", "sent", "lost"}
    BY <1>20 DEF Settle, States, Terminal
  <2> QED
    BY <1>20, <2>1 DEF Settle
<1>21. CASE Register
  BY <1>21 DEF Register
<1>22. CASE Event
  BY <1>22, ResolveTypes DEF Event
<1>23. CASE BareEvent
  BY <1>23, RecoverTypes DEF BareEvent
<1>24. CASE Lose
  BY <1>24 DEF Lose, Fault
<1>25. CASE Gap
  BY <1>25, RecoverTypes DEF Gap
<1>26. CASE Drop
  <2>1. up' \in BOOLEAN /\ registered' \in BOOLEAN
    BY <1>26, Zenon DEF Drop
  <2>2. wire' \in {"none", "sent", "lost"} /\ faults' \in Nat
    BY <1>26 DEF Drop, Fault
  <2> QED
    BY <1>26, <2>1, <2>2 DEF Drop
<1>27. CASE Authenticated
  BY <1>27, RecoverTypes DEF Authenticated, Cross
<1>28. CASE Rotated
  <2>1. registered' \in BOOLEAN
    BY <1>28, Zenon DEF Rotated
  <2> QED
    BY <1>28, <2>1, RecoverTypes DEF Rotated, Fault, Cross
<1>29. CASE UNCHANGED vars
  BY <1>29 DEF vars
<1> QED
  BY <1>40, <1>1, <1>2, <1>3, <1>4, <1>5, <1>6, <1>7, <1>8, <1>9, <1>10, <1>11, <1>12, <1>13, <1>14,
     <1>15, <1>16, <1>17, <1>18, <1>19, <1>20, <1>21, <1>22, <1>23, <1>24, <1>25, <1>26, <1>27,
     <1>28, <1>29 DEF Next

(* A settlement is final, so that whoever saw one still agrees with the    *)
(* server; and nobody takes anything for one that is not.                  *)
LEMMA AgreementStep == TypeOK /\ Agreement /\ CacheIsSettlement /\ [Next]_vars => Agreement'
<1> SUFFICES ASSUME TypeOK, Agreement, CacheIsSettlement, [Next]_vars PROVE Agreement'
  OBVIOUS
<1> USE DEF Agreement, Terminal, handle, recovery, worker, socket
<1>a. \A c \in Callers : slot[c] \in {"none", "completed", "failed"}
  BY DEF TypeOK
<1>1. CASE Submitted
  BY <1>1, <1>a DEF Submitted, States
<1>2. CASE SubmitFails
  BY <1>2, <1>a DEF SubmitFails, States
<1>3. ASSUME NEW c \in Callers, Wait(c) PROVE Agreement'
  BY <1>3 DEF Wait, CacheIsSettlement, TypeOK
<1>4. ASSUME NEW c \in Callers, SettledAtOnce(c) PROVE Agreement'
  BY <1>4 DEF SettledAtOnce, Ends, TypeOK
<1>5. ASSUME NEW c \in Callers, CancelSubmitted(c) PROVE Agreement'
  BY <1>5 DEF CancelSubmitted, Ends, TypeOK
<1>6. ASSUME NEW c \in Callers, WaitForOperation(c) PROVE Agreement'
  BY <1>6 DEF WaitForOperation
<1>7. ASSUME NEW c \in Callers, TakeResult(c) PROVE Agreement'
  BY <1>7 DEF TakeResult, TypeOK
<1>8. ASSUME NEW c \in Callers, Deadline(c) PROVE Agreement'
  BY <1>8 DEF Deadline, TypeOK
<1>9. ASSUME NEW c \in Callers, Join(c) PROVE Agreement'
  BY <1>9 DEF Join, TypeOK
<1>10. ASSUME NEW c \in Callers, Store(c) PROVE Agreement'
  BY <1>10 DEF Store
<1>11. ASSUME NEW c \in Callers, Nudge(c) PROVE Agreement'
  BY <1>11 DEF Nudge
<1>12. ASSUME NEW c \in Callers, WorkerStops(c) PROVE Agreement'
  BY <1>12 DEF WorkerStops, WorkerReturns, TypeOK
<1>13. ASSUME NEW c \in Callers, TakeRequest(c) PROVE Agreement'
  BY <1>13 DEF TakeRequest
<1>14. ASSUME NEW c \in Callers, Acknowledged(c) PROVE Agreement'
  BY <1>14 DEF Acknowledged
<1>15. ASSUME NEW c \in Callers, AckFails(c) PROVE Agreement'
  BY <1>15 DEF AckFails
<1>40. ASSUME NEW c \in Callers, Load(c) PROVE Agreement'
  BY <1>40 DEF Load, CoversFrom, Over
<1>16. ASSUME NEW c \in Callers, Serve(c) PROVE Agreement'
  BY <1>16 DEF Serve, TypeOK
<1>17. ASSUME NEW c \in Callers, WorkerLeaves(c) PROVE Agreement'
  BY <1>17 DEF WorkerLeaves, WorkerReturns, TypeOK
<1>18. ASSUME NEW c \in Callers, Reply(c) PROVE Agreement'
  <2>1. \A d \in Callers : slot'[d] # "none" => op = slot'[d]
    BY <1>18 DEF Reply, TryResolve
  <2>2. answer' = [answer EXCEPT ![c] = "none"]
    BY <1>18 DEF Reply, WorkerReturns
  <2>3. UNCHANGED <<op, sub, verdict, wire>>
    BY <1>18 DEF Reply
  <2> QED
    BY <2>1, <2>2, <2>3 DEF TypeOK
<1>19. ASSUME NEW c \in Callers, Backoff(c) PROVE Agreement'
  BY <1>19 DEF Backoff
<1>20. CASE Settle
  BY <1>20, <1>a DEF Settle
<1>21. CASE Register
  BY <1>21 DEF Register
<1>22. CASE Event
  BY <1>22 DEF Event, TryResolve
<1>23. CASE BareEvent
  BY <1>23 DEF BareEvent
<1>24. CASE Lose
  BY <1>24 DEF Lose
<1>25. CASE Gap
  BY <1>25 DEF Gap
<1>26. CASE Drop
  BY <1>26 DEF Drop
<1>27. CASE Authenticated
  BY <1>27 DEF Authenticated
<1>28. CASE Rotated
  BY <1>28 DEF Rotated
<1>29. CASE UNCHANGED vars
  BY <1>29 DEF vars
<1> QED
  BY <1>40, <1>1, <1>2, <1>3, <1>4, <1>5, <1>6, <1>7, <1>8, <1>9, <1>10, <1>11, <1>12, <1>13, <1>14,
     <1>15, <1>16, <1>17, <1>18, <1>19, <1>20, <1>21, <1>22, <1>23, <1>24, <1>25, <1>26, <1>27,
     <1>28, <1>29 DEF Next

(* A wait is over only when its worker is, and takes it up only once. *)
LEMMA WorkersStep == TypeOK /\ Workers /\ [Next]_vars => Workers'
<1> SUFFICES ASSUME TypeOK, Workers, [Next]_vars PROVE Workers'
  OBVIOUS
<1> USE DEF TypeOK, Workers, handle, recovery, worker, socket
<1>a. ASSUME NEW c \in Callers, wpc[c] # "none", WorkerReturns(c), UNCHANGED pc PROVE Workers'
  BY <1>a DEF WorkerReturns
<1>1. CASE Submitted \/ SubmitFails
  BY <1>1 DEF Submitted, SubmitFails
<1>2. ASSUME NEW c \in Callers, Wait(c) PROVE Workers'
  BY <1>2 DEF Wait
<1>3. ASSUME NEW c \in Callers, SettledAtOnce(c) \/ CancelSubmitted(c) PROVE Workers'
  BY <1>3 DEF SettledAtOnce, CancelSubmitted, Ends
<1>4. ASSUME NEW c \in Callers, WaitForOperation(c) PROVE Workers'
  BY <1>4 DEF WaitForOperation
<1>5. ASSUME NEW c \in Callers, TakeResult(c) \/ Deadline(c) PROVE Workers'
  BY <1>5 DEF TakeResult, Deadline
<1>6. ASSUME NEW c \in Callers, Join(c) PROVE Workers'
  BY <1>6 DEF Join, Joined
<1>7. ASSUME NEW c \in Callers, Store(c) PROVE Workers'
  BY <1>7 DEF Store
<1>8. ASSUME NEW c \in Callers, Nudge(c) PROVE Workers'
  BY <1>8 DEF Nudge
<1>9. ASSUME NEW c \in Callers, WorkerStops(c) \/ WorkerLeaves(c) PROVE Workers'
  BY <1>9, <1>a DEF WorkerStops, WorkerLeaves
<1>10. ASSUME NEW c \in Callers, TakeRequest(c) PROVE Workers'
  <2>1. CASE slot[c] # "none" \/ revision[c] <= completed[c]
    BY <1>10, <2>1 DEF TakeRequest
  <2>2. CASE ~(slot[c] # "none" \/ revision[c] <= completed[c])
    <3>1. /\ wpc' = [wpc EXCEPT ![c] = "ack"] /\ acquired' = acquired \cup {c}
          /\ attempt' = [attempt EXCEPT ![c] = 0] /\ UNCHANGED pc /\ pc[c] = "wait"
      BY <1>10, <2>2 DEF TakeRequest
    <3> QED
      BY <3>1
  <2> QED
    BY <2>1, <2>2
<1>11. ASSUME NEW c \in Callers, Acknowledged(c) PROVE Workers'
  BY <1>11 DEF Acknowledged, Over
<1>12. ASSUME NEW c \in Callers, AckFails(c) PROVE Workers'
  BY <1>12 DEF AckFails, Over
<1>40. ASSUME NEW c \in Callers, Load(c) PROVE Workers'
  BY <1>40 DEF Load, CoversFrom, Over
<1>13. ASSUME NEW c \in Callers, Serve(c) PROVE Workers'
  BY <1>13 DEF Serve
<1>14. ASSUME NEW c \in Callers, Reply(c) PROVE Workers'
  <2>0. pc[c] = "wait" /\ wpc[c] = "reply" /\ UNCHANGED pc
    BY <1>14 DEF Reply, Over
  <2>1. CASE answer[c] \in Terminal
    BY <1>14, <1>a, <2>0, <2>1 DEF Reply
  <2>2. CASE answer[c] \notin Terminal
    <3> DEFINE ok == answer[c] = "pending" /\ ackOk[c]
    <3>1. CASE ok \/ attempt[c] = 2
      <4>1. RoundEnds(c, ok)
        BY <1>14, <2>2, <3>1 DEF Reply
      <4>2. wpc' = [wpc EXCEPT ![c] = "idle"] /\ UNCHANGED <<attempt, acquired>>
        BY <4>1 DEF RoundEnds
      <4> QED
        BY <2>0, <4>2
    <3>2. CASE ~(ok \/ attempt[c] = 2)
      <4>1. wpc' = [wpc EXCEPT ![c] = "backoff"] /\ UNCHANGED <<attempt, acquired>>
        BY <1>14, <2>2, <3>2 DEF Reply
      <4>2. attempt[c] < 2
        BY <3>2
      <4> QED
        BY <2>0, <4>1, <4>2
    <3> QED
      BY <3>1, <3>2
  <2> QED
    BY <2>1, <2>2
<1>15. ASSUME NEW c \in Callers, Backoff(c) PROVE Workers'
  BY <1>15 DEF Backoff
<1>16. CASE Settle \/ Register \/ Event \/ BareEvent \/ Lose \/ Gap \/ Drop \/ Authenticated
            \/ Rotated
  BY <1>16 DEF Settle, Register, Event, BareEvent, Lose, Gap, Drop, Authenticated, Rotated
<1>17. CASE UNCHANGED vars
  BY <1>17 DEF vars
<1> QED
  BY <1>40, <1>1, <1>2, <1>3, <1>4, <1>5, <1>6, <1>7, <1>8, <1>9, <1>10, <1>11, <1>12, <1>13, <1>14,
     <1>15, <1>16, <1>17 DEF Next

(* Only Store writes the cache, with a verdict that agrees. *)
LEMMA CacheStep == TypeOK /\ Agreement /\ CacheIsSettlement /\ [Next]_vars => CacheIsSettlement'
<1> SUFFICES ASSUME TypeOK, Agreement, CacheIsSettlement, [Next]_vars PROVE CacheIsSettlement'
  OBVIOUS
<1> USE DEF CacheIsSettlement, handle
<1>1. ASSUME NEW c \in Callers, Store(c) PROVE CacheIsSettlement'
  BY <1>1 DEF Store, Caches, Agreement, Terminal
<1>2. CASE Submitted \/ SubmitFails
  BY <1>2 DEF Submitted, SubmitFails, Agreement
<1>3. CASE Settle
  BY <1>3 DEF Settle
<1>4. CASE UNCHANGED <<op, settleDone, stored>>
  BY <1>4
<1>5. ASSUME NEW c \in Callers,
             \/ Wait(c) \/ SettledAtOnce(c) \/ CancelSubmitted(c) \/ WaitForOperation(c)
             \/ TakeResult(c) \/ Deadline(c) \/ Join(c) \/ Nudge(c)
      PROVE  UNCHANGED <<op, settleDone, stored>>
  BY <1>5 DEF Wait, SettledAtOnce, CancelSubmitted, WaitForOperation, TakeResult, Deadline, Join,
              Nudge
<1>6. ASSUME NEW c \in Callers,
             \/ WorkerStops(c) \/ TakeRequest(c) \/ Acknowledged(c) \/ AckFails(c)
             \/ Load(c)
             \/ Serve(c) \/ WorkerLeaves(c) \/ Reply(c) \/ Backoff(c)
      PROVE  UNCHANGED <<op, settleDone, stored>>
  BY <1>6 DEF WorkerStops, TakeRequest, Acknowledged, AckFails, Load, Serve, WorkerLeaves,
         Reply, Backoff
<1>7. ASSUME Register \/ Event \/ BareEvent \/ Lose \/ Gap \/ Drop \/ Authenticated \/ Rotated
      PROVE  UNCHANGED <<op, settleDone, stored>>
  BY <1>7 DEF Register, Event, BareEvent, Lose, Gap, Drop, Authenticated, Rotated
<1>8. CASE UNCHANGED vars
  BY <1>8 DEF vars
<1> QED
  BY <1>1, <1>2, <1>3, <1>4, <1>5, <1>6, <1>7, <1>8 DEF Next

(* The invariant is inductive. *)
LEMMA IndStep == IndInv /\ [Next]_vars => IndInv'
BY TypeStep, AgreementStep, WorkersStep, CacheStep DEF IndInv

(* It holds in every behaviour. *)
LEMMA Inductive == Spec => []IndInv
BY InitInv, IndStep, PTL DEF Spec

-----------------------------------------------------------------------------
(* The handle, its callers and their workers keep their types.             *)
THEOREM TypeCorrect == Spec => []TypeOK
<1>1. IndInv => TypeOK
  BY DEF IndInv
<1> QED
  BY <1>1, Inductive, PTL

(* Whenever a wait is over, its worker has ended and released the event    *)
(* types: the deferred functions of waitForOperation leave nothing behind. *)
THEOREM NothingIsLeft == Spec => []NothingLeft
<1>1. IndInv => NothingLeft
  BY DEF IndInv, Workers, NothingLeft
<1> QED
  BY <1>1, Inductive, PTL

(* What h.settled keeps for later callers of Wait is the settlement the    *)
(* server has.                                                             *)
THEOREM CacheIsTrue == Spec => []CacheIsSettlement
<1>1. IndInv => CacheIsSettlement
  BY DEF IndInv
<1> QED
  BY <1>1, Inductive, PTL

-----------------------------------------------------------------------------
(* What waitForOperation's order of acknowledgement, revision and read     *)
(* keeps true of a worker.                                                 *)
Rounds == {"ack", "confirmed", "read", "reply", "backoff"}

(* A token or a nudge is on its way to the worker. *)
Asked(c) == c \in requests \/ nudges[c] > 0

(* A round covers no more than there was to cover, and a worker that is    *)
(* not running covers nothing.                                             *)
Counted(c) ==
    /\ completed[c] <= covered[c] /\ covered[c] <= revision[c]
    /\ wpc[c] \in {"none", "gone"} => completed[c] = 0 /\ covered[c] = 0 /\ ~good[c]

(* A recovery that no round covers has asked for one. *)
Remembered(c) ==
    /\ wpc[c] \in Rounds => c \in acquired /\ (revision[c] > covered[c] => Asked(c))
    /\ wpc[c] = "idle" /\ good[c] => c \in acquired
    /\ wpc[c] = "idle" /\ slot[c] = "none" /\ revision[c] > completed[c] => Asked(c)

(* An acknowledgement stands until a recovery that follows the load of    *)
(* revision, unless the socket was replaced before it: the server has the  *)
(* event types on the socket there is...                                   *)
Registered(c) ==
    up /\ c \notin crossed =>
          /\ wpc[c] = "confirmed" /\ ackOk[c] => registered
          /\ wpc[c] \in {"read", "reply"} /\ ackOk[c] /\ revision[c] <= covered[c] => registered
          /\ wpc[c] = "idle" /\ good[c] /\ revision[c] <= completed[c] => registered

(* ...and its event is on its way if it has settled since the read. *)
EventDue(c) ==
    (op \in Terminal /\ slot[c] = "none" /\ up /\ c \notin crossed) =>
        /\ (wpc[c] = "reply" /\ ackOk[c] /\ answer[c] = "pending" /\ revision[c] <= covered[c])
              => wire # "none"
        /\ wpc[c] = "idle" /\ good[c] /\ revision[c] <= completed[c] => wire # "none"

(* A wait follows the submission. *)
Watching(c) ==
    pc[c] = "wait" => sub # "calling" /\ Remembered(c) /\ Registered(c) /\ EventDue(c)

Watched == \A c \in Callers : Counted(c) /\ Watching(c)

(* Every step keeps it: whatever may hide the event calls recover, which   *)
(* no round that began before it covers.                                   *)
LEMMA WatchedStep ==
    ASSUME TypeOK, Agreement, Workers, Watched, [Next]_vars
    PROVE  Watched'
<1> SUFFICES ASSUME NEW d \in Callers PROVE Counted(d)' /\ Watching(d)'
  BY DEF Watched
<1> DEFINE Goal == Counted(d)' /\ Watching(d)'
<1> USE DEF TypeOK, Workers, Watched, Counted, Watching, Remembered, Registered, EventDue, Asked,
       Rounds, Terminal, States, handle, recovery, worker, socket
<1>1. ASSUME NEW c \in Callers, Wait(c) PROVE Goal
  BY <1>1 DEF Wait
<1>2. ASSUME NEW c \in Callers, SettledAtOnce(c) PROVE Goal
  BY <1>2 DEF SettledAtOnce, Ends
<1>3. ASSUME NEW c \in Callers, CancelSubmitted(c) PROVE Goal
  BY <1>3 DEF CancelSubmitted, Ends
<1>4. ASSUME NEW c \in Callers, WaitForOperation(c) PROVE Goal
  BY <1>4 DEF WaitForOperation
<1>5. ASSUME NEW c \in Callers, TakeResult(c) PROVE Goal
  BY <1>5 DEF TakeResult
<1>6. ASSUME NEW c \in Callers, Deadline(c) PROVE Goal
  BY <1>6 DEF Deadline
<1>7. ASSUME NEW c \in Callers, Join(c) PROVE Goal
  BY <1>7 DEF Join, Joined
<1>8. ASSUME NEW c \in Callers, Store(c) PROVE Goal
  BY <1>8 DEF Store
<1>9. ASSUME NEW c \in Callers, Nudge(c) PROVE Goal
  BY <1>9 DEF Nudge
<1>10. ASSUME NEW c \in Callers, WorkerStops(c) PROVE Goal
  BY <1>10 DEF WorkerStops, WorkerReturns
<1>11. ASSUME NEW c \in Callers, TakeRequest(c) PROVE Goal
  BY <1>11 DEF TakeRequest
<1>12. ASSUME NEW c \in Callers, Acknowledged(c) PROVE Goal
  BY <1>12 DEF Acknowledged, CoversFrom
<1>13. ASSUME NEW c \in Callers, AckFails(c) PROVE Goal
  BY <1>13 DEF AckFails, CoversFrom
<1>40. ASSUME NEW c \in Callers, Load(c) PROVE Goal
  BY <1>40 DEF Load, CoversFrom, Over
<1>14. ASSUME NEW c \in Callers, Serve(c) PROVE Goal
  BY <1>14 DEF Serve
<1>15. ASSUME NEW c \in Callers, WorkerLeaves(c) PROVE Goal
  BY <1>15 DEF WorkerLeaves, WorkerReturns
<1>16. ASSUME NEW c \in Callers, Reply(c) PROVE Goal
  <2>0. /\ pc[c] = "wait" /\ wpc[c] = "reply" /\ slot[c] = "none"
        /\ UNCHANGED <<op, sub, pc, requests, nudges, revision, up, wire>>
    BY <1>16 DEF Reply, Over
  <2>s. slot'[d] # slot[d] => d = c /\ answer[c] \in Terminal
    BY <1>16 DEF Reply, TryResolve
  <2>1. CASE answer[c] \in Terminal
    <3>1. WorkerReturns(c)
      BY <1>16, <2>1 DEF Reply
    <3>2. CASE d = c
      <4>1. slot'[c] # "none"
        BY <1>16, <2>0, <2>1 DEF Reply, TryResolve
      <4> QED
        BY <2>0, <3>1, <3>2, <4>1 DEF WorkerReturns
    <3>3. CASE d # c
      BY <2>0, <2>s, <3>1, <3>3 DEF WorkerReturns
    <3> QED
      BY <3>2, <3>3
  <2>2. CASE answer[c] \notin Terminal
    <3> DEFINE ok == answer[c] = "pending" /\ ackOk[c]
    <3>0. answer' = [answer EXCEPT ![c] = "none"] /\ UNCHANGED <<registered, slot>>
      <4>1. answer' = [answer EXCEPT ![c] = "none"] /\ UNCHANGED registered
        BY <1>16, <2>2 DEF Reply
      <4>2. slot' = TryResolve({c}, answer[c])
        BY <1>16 DEF Reply
      <4>3. slot' = slot
        BY <2>2, <4>2 DEF TryResolve
      <4> QED
        BY <4>1, <4>3
    <3>1. CASE ok \/ attempt[c] = 2
      <4>1. RoundEnds(c, ok)
        BY <1>16, <2>2, <3>1 DEF Reply
      <4>2. /\ wpc' = [wpc EXCEPT ![c] = "idle"] /\ completed' = [completed EXCEPT ![c] = covered[c]]
            /\ UNCHANGED <<covered, attempt, acquired, ackOk, crossed>>
        BY <4>1 DEF RoundEnds
      <4>3. good' = [good EXCEPT ![c] = ok]
        BY <4>1 DEF RoundEnds
      <4>4. CASE d = c
        <5>1. good'[c] => ok
          BY <4>3
        <5> QED
          BY <2>0, <3>0, <4>2, <4>4, <5>1
      <4>5. CASE d # c
        <5>1. good'[d] = good[d]
          BY <4>3, <4>5
        <5> QED
          BY <2>0, <3>0, <4>2, <4>5, <5>1
      <4> QED
        BY <4>4, <4>5
    <3>2. CASE ~(ok \/ attempt[c] = 2)
      <4>1. /\ wpc' = [wpc EXCEPT ![c] = "backoff"]
            /\ UNCHANGED <<completed, covered, attempt, acquired, ackOk, good, crossed>>
        BY <1>16, <2>2, <3>2 DEF Reply
      <4> QED
        BY <2>0, <3>0, <4>1
    <3> QED
      BY <3>1, <3>2
  <2> QED
    BY <2>1, <2>2
<1>17. ASSUME NEW c \in Callers, Backoff(c) PROVE Goal
  BY <1>17 DEF Backoff
<1>18. CASE Submitted
  BY <1>18 DEF Submitted, Agreement
<1>19. CASE SubmitFails
  BY <1>19 DEF SubmitFails, Agreement
<1>20. CASE Settle
  BY <1>20 DEF Settle
<1>21. CASE Register
  BY <1>21 DEF Register
<1>22. CASE Event
  BY <1>22 DEF Event, TryResolve, Listening
<1>23. CASE BareEvent
  BY <1>23 DEF BareEvent, Recover, Advanced, Listening
<1>24. CASE Lose
  BY <1>24 DEF Lose
<1>25. CASE Gap
  BY <1>25 DEF Gap, Recover, Advanced, Listening
<1>26. CASE Drop
  BY <1>26 DEF Drop
<1>27. CASE Authenticated
  BY <1>27 DEF Authenticated, Recover, Advanced, Listening, Cross
<1>28. CASE Rotated
  BY <1>28 DEF Rotated, Recover, Advanced, Listening, Cross
<1>29. CASE UNCHANGED vars
  BY <1>29 DEF vars
<1> QED
  BY <1>40, <1>1, <1>2, <1>3, <1>4, <1>5, <1>6, <1>7, <1>8, <1>9, <1>10, <1>11, <1>12, <1>13,
     <1>14, <1>15, <1>16, <1>17, <1>18, <1>19, <1>20, <1>21, <1>22, <1>23, <1>24, <1>25,
     <1>26, <1>27, <1>28, <1>29
  DEF Next

(* Callers that have yet to wait are watched. *)
LEMMA WatchedInit == Init => Watched
BY DEF Init, InitWith, Watched, Counted, Watching

(* For any callers, events, reads and sockets: a worker that has nothing   *)
(* more to do, after a round that was acknowledged and answered, misses no *)
(* settlement, unless the socket was replaced in that round between the    *)
(* acknowledgement and the load of the revision. What a wait leaves behind *)
(* and what Wait caches are as above.                                      *)
THEOREM WaitsAreSound == Spec => []WaitSound
<1>1. IndInv /\ Watched /\ [Next]_vars => Watched'
  BY WatchedStep DEF IndInv
<1>2. IndInv /\ Watched => NoMissedSettlement
  <2> SUFFICES ASSUME IndInv, Watched, NEW c \in Callers,
                      pc[c] = "wait", slot[c] = "none", wpc[c] = "idle", good[c],
                      c \notin requests, nudges[c] = 0, op \in Terminal, up, c \notin crossed
               PROVE  wire # "none"
    BY DEF NoMissedSettlement, Miscounted
  <2>1. Remembered(c) /\ EventDue(c)
    BY DEF Watched, Watching
  <2>2. revision[c] \in Nat /\ completed[c] \in Nat /\ ~(revision[c] > completed[c])
    BY <2>1 DEF Remembered, Asked, IndInv, TypeOK
  <2> QED
    BY <2>1, <2>2 DEF EventDue
<1>3. IndInv => TypeOK /\ NothingLeft /\ CacheIsSettlement
  BY DEF IndInv, Workers, NothingLeft
<1>4. IndInv /\ Watched => WaitSound
  BY <1>2, <1>3 DEF WaitSound
<1> QED
  BY <1>1, <1>4, WatchedInit, Inductive, PTL DEF Spec

-----------------------------------------------------------------------------
(* What the callers have been told, as Settlement sees it. *)
Told == [c \in Callers |-> IF pc[c] = "done" THEN verdict[c] ELSE "none"]

(* A step that neither ends a call nor concerns the operation is none of   *)
(* Settlement's.                                                           *)
LEMMA Silent ==
    ASSUME UNCHANGED <<op, verdict, pc>>
    PROVE  UNCHANGED <<op, Told>>
BY DEF Told

(* A caller's end tells it what the handle says. *)
LEMMA TellStep ==
    ASSUME IndInv, NEW c \in Callers, pc[c] # "done", NEW v \in {"open", "completed", "failed"},
           pc' = [pc EXCEPT ![c] = "done"], verdict' = [verdict EXCEPT ![c] = v],
           v \in {"completed", "failed"} => op = v, UNCHANGED op
    PROVE  Promise!Tell(c)
<1>1. Told[c] = "none" /\ Told' = [Told EXCEPT ![c] = v]
  BY DEF Told, IndInv, TypeOK
<1> QED
  BY <1>1 DEF Promise!Tell, Told

(* Every step of the handle is a step of Settlement or none of its. *)
LEMMA RefineStep == IndInv /\ [Next]_vars => [Promise!Next]_<<op, Told>>
<1> SUFFICES ASSUME IndInv, [Next]_vars PROVE [Promise!Next]_<<op, Told>>
  OBVIOUS
<1> USE DEF handle, recovery, worker, socket
<1>a. TypeOK /\ Agreement /\ CacheIsSettlement
  BY DEF IndInv
<1>1. CASE Submitted
  <2>1. UNCHANGED Told
    BY <1>1 DEF Submitted, Told
  <2>2. op = "none" /\ op' \in {"pending", "completed", "failed"}
    BY <1>1, <1>a DEF Submitted, Agreement, States
  <2> QED
    BY <2>1, <2>2 DEF Promise!Next, Promise!Create, Told
<1>2. CASE SubmitFails
  <2>1. UNCHANGED Told
    BY <1>2 DEF SubmitFails, Told
  <2>2. op = "none" /\ op' \in {"none", "pending", "completed", "failed"}
    BY <1>2, <1>a DEF SubmitFails, Agreement, States
  <2> QED
    BY <2>1, <2>2 DEF Promise!Next, Promise!Create, Told
<1>3. ASSUME NEW c \in Callers, Wait(c) PROVE [Promise!Next]_<<op, Told>>
  <2>1. CASE c \in Cached /\ settleDone
    <3>1. stored = "completed" /\ op = "completed"
      BY <1>a, <2>1 DEF CacheIsSettlement
    <3>2. /\ pc[c] # "done" /\ pc' = [pc EXCEPT ![c] = "done"]
          /\ verdict' = [verdict EXCEPT ![c] = "completed"] /\ UNCHANGED op
      BY <1>3, <2>1, <3>1 DEF Wait
    <3>3. Promise!Tell(c)
      BY <3>1, <3>2, TellStep
    <3> QED
      BY <3>3 DEF Promise!Next
  <2>2. CASE ~(c \in Cached /\ settleDone)
    <3>1. UNCHANGED <<op, Told>>
      BY <1>3, <1>a, <2>2 DEF Wait, Told, TypeOK
    <3> QED
      BY <3>1
  <2> QED
    BY <2>1, <2>2
<1>4. ASSUME NEW c \in Callers, SettledAtOnce(c) PROVE UNCHANGED <<op, Told>>
  BY <1>4, <1>a DEF SettledAtOnce, Ends, Told, TypeOK
<1>5. ASSUME NEW c \in Callers, CancelSubmitted(c) PROVE UNCHANGED <<op, Told>>
  BY <1>5, <1>a DEF CancelSubmitted, Ends, Told, TypeOK
<1>6. ASSUME NEW c \in Callers, WaitForOperation(c) PROVE UNCHANGED <<op, Told>>
  BY <1>6, <1>a DEF WaitForOperation, Told, TypeOK
<1>7. ASSUME NEW c \in Callers, TakeResult(c) PROVE UNCHANGED <<op, Told>>
  BY <1>7, <1>a DEF TakeResult, Told, TypeOK
<1>8. ASSUME NEW c \in Callers, Deadline(c) PROVE UNCHANGED <<op, Told>>
  BY <1>8, <1>a DEF Deadline, Told, TypeOK
<1>9. ASSUME NEW c \in Callers, Join(c) PROVE UNCHANGED <<op, Told>>
  BY <1>9, <1>a DEF Join, Told, TypeOK
<1>10. ASSUME NEW c \in Callers, Store(c) PROVE [Promise!Next]_<<op, Told>>
  <2>1. pc[c] = "store" /\ pc' = [pc EXCEPT ![c] = "done"] /\ UNCHANGED <<op, verdict>>
    BY <1>10 DEF Store
  <2>2. CASE verdict[c] = "none"
    <3>1. UNCHANGED Told
      BY <2>1, <2>2, <1>a DEF Told, TypeOK
    <3> QED
      BY <2>1, <3>1
  <2>3. CASE verdict[c] # "none"
    <3>1. verdict[c] \in {"open", "completed", "failed"}
      BY <1>a, <2>3 DEF TypeOK, Terminal
    <3>2. verdict[c] \in {"completed", "failed"} => op = verdict[c]
      BY <1>a DEF Agreement, Terminal
    <3>3. verdict' = [verdict EXCEPT ![c] = verdict[c]]
      BY <2>1, <1>a DEF TypeOK
    <3>4. Promise!Tell(c)
      BY <2>1, <3>1, <3>2, <3>3, TellStep
    <3> QED
      BY <3>4 DEF Promise!Next
  <2> QED
    BY <2>2, <2>3
<1>11. ASSUME NEW c \in Callers,
              \/ Nudge(c) \/ WorkerStops(c) \/ TakeRequest(c) \/ Acknowledged(c) \/ AckFails(c)
              \/ Load(c)
              \/ Serve(c) \/ WorkerLeaves(c) \/ Reply(c) \/ Backoff(c)
       PROVE  UNCHANGED <<op, Told>>
  <2>1. UNCHANGED <<op, verdict, pc>>
    BY <1>11 DEF Nudge, WorkerStops, TakeRequest, Acknowledged, AckFails, Load, Serve, WorkerLeaves,
                 Reply, Backoff
  <2> QED
    BY <2>1, Silent
<1>12. CASE Settle
  <2>1. UNCHANGED Told
    BY <1>12 DEF Settle, Told
  <2>2. op = "pending" /\ op' \in {"completed", "failed"}
    BY <1>12 DEF Settle, Terminal
  <2> QED
    BY <2>1, <2>2 DEF Promise!Next, Promise!Settle, Told
<1>13. ASSUME Register \/ Event \/ BareEvent \/ Lose \/ Gap \/ Drop \/ Authenticated \/ Rotated
       PROVE  UNCHANGED <<op, Told>>
  <2>1. UNCHANGED <<op, verdict, pc>>
    BY <1>13 DEF Register, Event, BareEvent, Lose, Gap, Drop, Authenticated, Rotated
  <2> QED
    BY <2>1, Silent
<1>14. CASE UNCHANGED vars
  <2>1. UNCHANGED <<op, verdict, pc>>
    BY <1>14 DEF vars
  <2> QED
    BY <2>1, Silent
<1> QED
  BY <1>1, <1>2, <1>3, <1>4, <1>5, <1>6, <1>7, <1>8, <1>9, <1>10, <1>11, <1>12, <1>13, <1>14
  DEF Next

(* The handle implements Settlement: whatever its submission, its reads    *)
(* and the stream showed before, a caller of Wait or WaitTimeout is told a *)
(* settlement only when it is the operation's own, and only once.          *)
THEOREM HandleSettles == Spec => Settled
<1>1. Init => Promise!Init
  BY DEF Init, InitWith, Promise!Init
<1>2. IndInv /\ [Next]_vars =>
         [Promise!Next]_<<op, [c \in Callers |-> IF pc[c] = "done" THEN verdict[c] ELSE "none"]>>
  BY RefineStep DEF Told
<1> QED
  BY <1>1, <1>2, Inductive, PTL DEF Spec, Settled, Promise!Spec

-----------------------------------------------------------------------------
(* Sums over finite sets. The community modules' sum is a recursive        *)
(* function on the subsets; that it exists and does not depend on the      *)
(* order is shown of a smallest set for which it would fail.               *)

LEMMA LeastNatural ==
    ASSUME NEW S \in SUBSET Nat, S # {}
    PROVE  \E m \in S : \A k \in S : m <= k
<1>1. PICK m \in S : \A k \in S : <<k, m>> \notin OpToRel(<, Nat)
  BY NatLessThanWellFounded, WFMin, Zenon
<1>2. \A k \in S : ~(k < m)
  BY <1>1 DEF OpToRel
<1> QED
  BY <1>2

(* A smallest of some subsets of a finite set. *)
LEMMA SmallestSet ==
    ASSUME NEW S, IsFiniteSet(S), NEW C \in SUBSET (SUBSET S), C # {}
    PROVE  \E s \in C : /\ IsFiniteSet(s)
                        /\ \A x \in s : s \ {x} \in SUBSET S /\ s \ {x} \notin C
<1> DEFINE Sizes == {Cardinality(s) : s \in C}
<1>1. \A s \in SUBSET S : IsFiniteSet(s) /\ Cardinality(s) \in Nat
  BY FS_Subset, FS_CardinalityType
<1>2. Sizes \in SUBSET Nat /\ Sizes # {}
  BY <1>1
<1>3. PICK n \in Sizes : \A k \in Sizes : n <= k
  <2> HIDE DEF Sizes
  <2> QED
    BY <1>2, LeastNatural
<1>4. PICK s \in C : Cardinality(s) = n
  OBVIOUS
<1>5. IsFiniteSet(s) /\ n \in Nat
  BY <1>1, <1>4
<1>6. ASSUME NEW x \in s PROVE s \ {x} \in SUBSET S /\ s \ {x} \notin C
  <2>1. Cardinality(s \ {x}) = n - 1
    BY <1>4, <1>5, FS_RemoveElement
  <2>2. s \ {x} \in C => n <= n - 1
    <3>1. s \ {x} \in C => Cardinality(s \ {x}) \in Sizes
      OBVIOUS
    <3> HIDE DEF Sizes
    <3> QED
      BY <1>3, <2>1, <3>1
  <2> QED
    BY <1>5, <2>2
<1> QED
  BY <1>5, <1>6

(* The element of a set that its sum begins with. *)
FirstOf(s) == CHOOSE x \in s : TRUE

LEMMA FirstIsIn == \A s : s # {} => FirstOf(s) \in s
BY DEF FirstOf

(* The sums of f over the sets in D. *)
Sums(f, D, g) ==
    g = [s \in D |-> IF s = {} THEN 0 ELSE f[FirstOf(s)] + g[s \ {FirstOf(s)}]]

Sum(f, S) == (CHOOSE g : Sums(f, SUBSET S, g))[S]

LEMMA SumsExist ==
    ASSUME NEW S, IsFiniteSet(S), NEW f
    PROVE  \E g : Sums(f, SUBSET S, g)
<1> DEFINE Upto(n) == {s \in SUBSET S : Cardinality(s) <= n}
           Missing == {n \in Nat : ~ \E g : Sums(f, Upto(n), g)}
<1>1. \A s \in SUBSET S : IsFiniteSet(s) /\ Cardinality(s) \in Nat
  BY FS_Subset, FS_CardinalityType
<1>2. ASSUME Missing # {} PROVE FALSE
  <2>1. PICK m \in Missing : \A k \in Missing : m <= k
    <3>1. Missing \in SUBSET Nat
      OBVIOUS
    <3> HIDE DEF Missing
    <3> QED
      BY <1>2, <3>1, LeastNatural
  <2>2. m \in Nat /\ ~ \E g : Sums(f, Upto(m), g)
    OBVIOUS
  <2>3. CASE m = 0
    <3> DEFINE g == [s \in Upto(0) |-> 0]
    <3>1. \A s \in Upto(0) : s = {}
      BY <1>1, FS_EmptySet
    <3>2. g = [s \in Upto(0) |-> IF s = {} THEN 0 ELSE f[FirstOf(s)] + g[s \ {FirstOf(s)}]]
      <4>1. \A s \in Upto(0) : 0 = IF s = {} THEN 0 ELSE f[FirstOf(s)] + g[s \ {FirstOf(s)}]
        BY <3>1
      <4> HIDE DEF Upto
      <4> QED
        BY <4>1
    <3> HIDE DEF g, Upto
    <3> QED
      BY <2>2, <2>3, <3>2 DEF Sums
  <2>4. CASE m # 0
    <3>1. m - 1 \in Nat /\ m - 1 \notin Missing
      <4>1. m - 1 \in Nat /\ ~(m <= m - 1)
        BY <2>2, <2>4
      <4> HIDE DEF Missing
      <4> QED
        BY <2>1, <4>1
    <3>2. PICK h : Sums(f, Upto(m - 1), h)
      BY <3>1
    <3> DEFINE g == [s \in Upto(m) |-> IF s = {} THEN 0 ELSE f[FirstOf(s)] + h[s \ {FirstOf(s)}]]
    <3>3. \A s \in Upto(m) : s # {} => s \ {FirstOf(s)} \in Upto(m - 1)
      <4> SUFFICES ASSUME NEW s \in Upto(m), s # {} PROVE s \ {FirstOf(s)} \in Upto(m - 1)
        OBVIOUS
      <4>1. FirstOf(s) \in s /\ IsFiniteSet(s) /\ Cardinality(s) <= m /\ Cardinality(s) \in Nat
        BY <1>1, FirstIsIn
      <4>2. Cardinality(s \ {FirstOf(s)}) = Cardinality(s) - 1
        BY <4>1, FS_RemoveElement
      <4> QED
        BY <2>2, <4>1, <4>2
    <3>4. \A t \in Upto(m - 1) : t \in Upto(m)
      BY <1>1, <2>2
    <3> HIDE DEF Upto
    <3>5. \A t \in Upto(m - 1) : g[t] = h[t]
      BY <3>2, <3>4 DEF Sums
    <3>6. \A s \in Upto(m) :
             g[s] = IF s = {} THEN 0 ELSE f[FirstOf(s)] + g[s \ {FirstOf(s)}]
      BY <3>3, <3>5
    <3>7. g = [s \in Upto(m) |-> g[s]]
      OBVIOUS
    <3> HIDE DEF g
    <3>8. Sums(f, Upto(m), g)
      BY <3>6, <3>7 DEF Sums
    <3> QED
      BY <2>2, <3>8 DEF Upto
  <2> QED
    BY <2>3, <2>4
<1>3. Cardinality(S) \in Nat
  BY FS_CardinalityType
<1>4. \E g : Sums(f, Upto(Cardinality(S)), g)
  BY <1>2, <1>3
<1>5. Upto(Cardinality(S)) = SUBSET S
  BY FS_Subset
<1> QED
  BY <1>4, <1>5

(* The sums over the subsets of a set are the same in a larger one. *)
LEMMA SumsAgree ==
    ASSUME NEW S, IsFiniteSet(S), NEW T \in SUBSET S, NEW f, NEW g, NEW h,
           Sums(f, SUBSET S, g), Sums(f, SUBSET T, h)
    PROVE  h[T] = g[T]
<1> DEFINE C == {s \in SUBSET T : h[s] # g[s]}
<1> SUFFICES ASSUME C # {} PROVE FALSE
  OBVIOUS
<1>1. IsFiniteSet(T)
  BY FS_Subset
<1>2. PICK s \in C : IsFiniteSet(s) /\ \A x \in s : s \ {x} \in SUBSET T /\ s \ {x} \notin C
  <2>1. C \in SUBSET (SUBSET T)
    OBVIOUS
  <2> HIDE DEF C
  <2> QED
    BY <1>1, <2>1, SmallestSet
<1>3. /\ h[s] = IF s = {} THEN 0 ELSE f[FirstOf(s)] + h[s \ {FirstOf(s)}]
      /\ g[s] = IF s = {} THEN 0 ELSE f[FirstOf(s)] + g[s \ {FirstOf(s)}]
  <2>1. s \in SUBSET T /\ s \in SUBSET S
    OBVIOUS
  <2> QED
    BY <2>1 DEF Sums
<1>4. s # {} => h[s \ {FirstOf(s)}] = g[s \ {FirstOf(s)}]
  BY <1>2, FirstIsIn
<1> QED
  BY <1>3, <1>4

LEMMA SumStep ==
    ASSUME NEW S, IsFiniteSet(S), NEW f
    PROVE  Sum(f, S) = IF S = {} THEN 0 ELSE f[FirstOf(S)] + Sum(f, S \ {FirstOf(S)})
<1> DEFINE g == CHOOSE g : Sums(f, SUBSET S, g)
           T == S \ {FirstOf(S)}
           h == CHOOSE h : Sums(f, SUBSET T, h)
<1>1. T \in SUBSET S /\ IsFiniteSet(T)
  BY FS_Subset
<1>2. Sums(f, SUBSET S, g)
  BY SumsExist
<1>3. Sums(f, SUBSET T, h)
  <2> HIDE DEF T
  <2> QED
    BY <1>1, SumsExist
<1>4. Sum(f, S) = g[S] /\ Sum(f, T) = h[T]
  BY DEF Sum
<1>5. h[T] = g[T]
  <2> HIDE DEF g, h, T
  <2> QED
    BY <1>1, <1>2, <1>3, SumsAgree
<1>6. g[S] = IF S = {} THEN 0 ELSE f[FirstOf(S)] + g[T]
  <2> HIDE DEF g
  <2> QED
    BY <1>2 DEF Sums
<1> QED
  BY <1>4, <1>5, <1>6

LEMMA SumOfNone == \A f : Sum(f, {}) = 0
BY FS_EmptySet, SumStep

LEMMA SumType ==
    ASSUME NEW S, IsFiniteSet(S), NEW f, \A x \in S : f[x] \in Int
    PROVE  Sum(f, S) \in Int
<1> DEFINE C == {s \in SUBSET S : Sum(f, s) \notin Int}
<1> SUFFICES ASSUME C # {} PROVE FALSE
  OBVIOUS
<1>1. PICK s \in C : IsFiniteSet(s) /\ \A x \in s : s \ {x} \in SUBSET S /\ s \ {x} \notin C
  <2>1. C \in SUBSET (SUBSET S)
    OBVIOUS
  <2> HIDE DEF C
  <2> QED
    BY <2>1, SmallestSet
<1>2. s \in SUBSET S /\ Sum(f, s) \notin Int
  OBVIOUS
<1>3. Sum(f, s) = IF s = {} THEN 0 ELSE f[FirstOf(s)] + Sum(f, s \ {FirstOf(s)})
  BY <1>1, SumStep
<1>4. s # {} => FirstOf(s) \in S /\ Sum(f, s \ {FirstOf(s)}) \in Int
  BY <1>1, <1>2, FirstIsIn
<1> QED
  BY <1>2, <1>3, <1>4

(* The order is of no account: any element may be taken out. *)
LEMMA SumRemove ==
    ASSUME NEW S, IsFiniteSet(S), NEW f, \A x \in S : f[x] \in Int
    PROVE  \A x \in S : Sum(f, S) = f[x] + Sum(f, S \ {x})
<1> DEFINE C == {s \in SUBSET S : \E x \in s : Sum(f, s) # f[x] + Sum(f, s \ {x})}
<1> SUFFICES ASSUME C # {} PROVE FALSE
  OBVIOUS
<1>1. PICK s \in C : IsFiniteSet(s) /\ \A x \in s : s \ {x} \in SUBSET S /\ s \ {x} \notin C
  <2>1. C \in SUBSET (SUBSET S)
    OBVIOUS
  <2> HIDE DEF C
  <2> QED
    BY <2>1, SmallestSet
<1>2. PICK x \in s : Sum(f, s) # f[x] + Sum(f, s \ {x})
  OBVIOUS
<1> DEFINE c == FirstOf(s)
<1>3. s \in SUBSET S /\ c \in s
  BY <1>2, FirstIsIn
<1>4. Sum(f, s) = f[c] + Sum(f, s \ {c})
  BY <1>1, <1>2, SumStep
<1>5. s \ {x} \notin C /\ s \ {c} \notin C
  BY <1>1, <1>3
<1>6. x # c
  BY <1>2, <1>4
<1>7. Sum(f, s \ {c}) = f[x] + Sum(f, (s \ {c}) \ {x})
  <2>1. x \in s \ {c} /\ s \ {c} \in SUBSET S
    BY <1>3, <1>6
  <2> HIDE DEF c
  <2> QED
    BY <1>5, <2>1
<1>8. Sum(f, s \ {x}) = f[c] + Sum(f, (s \ {x}) \ {c})
  <2>1. c \in s \ {x} /\ s \ {x} \in SUBSET S
    BY <1>3, <1>6
  <2> HIDE DEF c
  <2> QED
    BY <1>5, <2>1
<1>9. Sum(f, (s \ {c}) \ {x}) = Sum(f, (s \ {x}) \ {c})
  <2>1. (s \ {c}) \ {x} = (s \ {x}) \ {c}
    OBVIOUS
  <2> QED
    BY <2>1
<1>10. f[x] \in Int /\ f[c] \in Int /\ Sum(f, (s \ {x}) \ {c}) \in Int
  <2>1. (s \ {x}) \ {c} \in SUBSET S /\ IsFiniteSet((s \ {x}) \ {c})
    BY <1>3, FS_Subset
  <2>2. \A y \in (s \ {x}) \ {c} : f[y] \in Int
    BY <2>1
  <2>3. Sum(f, (s \ {x}) \ {c}) \in Int
    BY <2>1, <2>2, SumType
  <2> QED
    BY <1>3, <2>3
<1> HIDE DEF c, C
<1> QED
  BY <1>2, <1>4, <1>7, <1>8, <1>9, <1>10

(* A sum of what is on one set, on another, or on both. *)
LEMMA SumOfParts ==
    ASSUME NEW S, IsFiniteSet(S), NEW A \in SUBSET S, NEW B \in SUBSET S,
           NEW f, \A x \in A : f[x] \in Int, NEW g, \A x \in B : g[x] \in Int,
           NEW h, \A x \in S : h[x] = (IF x \in A THEN f[x] ELSE 0) + (IF x \in B THEN g[x] ELSE 0)
    PROVE  Sum(h, S) = Sum(f, A) + Sum(g, B)
<1> DEFINE C == {s \in SUBSET S : Sum(h, s) # Sum(f, s \cap A) + Sum(g, s \cap B)}
<1>1. ASSUME C # {} PROVE FALSE
  <2>1. PICK s \in C : IsFiniteSet(s) /\ \A x \in s : s \ {x} \in SUBSET S /\ s \ {x} \notin C
    <3>1. C \in SUBSET (SUBSET S)
      OBVIOUS
    <3> HIDE DEF C
    <3> QED
      BY <1>1, <3>1, SmallestSet
  <2>2. s \in SUBSET S /\ Sum(h, s) # Sum(f, s \cap A) + Sum(g, s \cap B)
    OBVIOUS
  <2>3. s # {}
    <3>1. CASE s = {}
      <4>1. s \cap A = {} /\ s \cap B = {}
        BY <3>1
      <4>2. Sum(h, s) = 0 /\ Sum(f, s \cap A) = 0 /\ Sum(g, s \cap B) = 0
        BY <3>1, <4>1, SumOfNone
      <4> QED
        BY <2>2, <4>2
    <3> QED
      BY <3>1
  <2>4. PICK x \in s : TRUE
    BY <2>3
  <2> DEFINE t == s \ {x}
  <2>5. Sum(h, t) = Sum(f, t \cap A) + Sum(g, t \cap B)
    <3>1. t \in SUBSET S /\ t \notin C
      BY <2>1, <2>4
    <3> HIDE DEF t
    <3> QED
      BY <3>1
  <2>6. IsFiniteSet(s) /\ IsFiniteSet(s \cap A) /\ IsFiniteSet(s \cap B) /\ IsFiniteSet(t)
        /\ IsFiniteSet(t \cap A) /\ IsFiniteSet(t \cap B)
    <3>1. s \cap A \in SUBSET S /\ s \cap B \in SUBSET S /\ t \in SUBSET S
          /\ t \cap A \in SUBSET S /\ t \cap B \in SUBSET S
      BY <2>2
    <3> HIDE DEF t
    <3> QED
      BY <2>1, <3>1, FS_Subset
  <2>7. \A y \in S : h[y] \in Int
    OBVIOUS
  <2>8. Sum(h, s) = h[x] + Sum(h, t)
    <3>1. \A y \in s : h[y] \in Int
      BY <2>2, <2>7
    <3> QED
      BY <2>4, <2>6, <3>1, SumRemove
  <2>9. Sum(f, s \cap A) = (IF x \in A THEN f[x] ELSE 0) + Sum(f, t \cap A)
        /\ Sum(f, t \cap A) \in Int
    <3>1. \A y \in s \cap A : f[y] \in Int
      OBVIOUS
    <3>2. Sum(f, t \cap A) \in Int
      BY <2>6, SumType
    <3>3. CASE x \in A
      <4>1. Sum(f, s \cap A) = f[x] + Sum(f, (s \cap A) \ {x})
        BY <2>4, <2>6, <3>1, <3>3, SumRemove
      <4>2. (s \cap A) \ {x} = t \cap A
        OBVIOUS
      <4> HIDE DEF t
      <4> QED
        BY <3>2, <3>3, <4>1, <4>2
    <3>4. CASE x \notin A
      <4>1. s \cap A = t \cap A
        BY <3>4
      <4>2. Sum(f, s \cap A) = Sum(f, t \cap A)
        BY <4>1
      <4> HIDE DEF t
      <4> QED
        BY <3>2, <3>4, <4>2
    <3> QED
      BY <3>3, <3>4
  <2>10. Sum(g, s \cap B) = (IF x \in B THEN g[x] ELSE 0) + Sum(g, t \cap B)
         /\ Sum(g, t \cap B) \in Int
    <3>1. \A y \in s \cap B : g[y] \in Int
      OBVIOUS
    <3>2. Sum(g, t \cap B) \in Int
      BY <2>6, SumType
    <3>3. CASE x \in B
      <4>1. Sum(g, s \cap B) = g[x] + Sum(g, (s \cap B) \ {x})
        BY <2>4, <2>6, <3>1, <3>3, SumRemove
      <4>2. (s \cap B) \ {x} = t \cap B
        OBVIOUS
      <4> HIDE DEF t
      <4> QED
        BY <3>2, <3>3, <4>1, <4>2
    <3>4. CASE x \notin B
      <4>1. s \cap B = t \cap B
        BY <3>4
      <4>2. Sum(g, s \cap B) = Sum(g, t \cap B)
        BY <4>1
      <4> HIDE DEF t
      <4> QED
        BY <3>2, <3>4, <4>2
    <3> QED
      BY <3>3, <3>4
  <2>11. h[x] = (IF x \in A THEN f[x] ELSE 0) + (IF x \in B THEN g[x] ELSE 0)
         /\ (x \in A => f[x] \in Int) /\ (x \in B => g[x] \in Int)
    BY <2>2, <2>4
  <2> HIDE DEF t, C
  <2> QED
    BY <2>2, <2>5, <2>8, <2>9, <2>10, <2>11
<1>2. Sum(h, S) = Sum(f, S \cap A) + Sum(g, S \cap B)
  BY <1>1
<1>3. S \cap A = A /\ S \cap B = B
  OBVIOUS
<1> QED
  BY <1>2, <1>3

(* Equal functions have equal sums. *)
LEMMA SumSame ==
    ASSUME NEW S, IsFiniteSet(S), NEW f, NEW h, \A x \in S : h[x] = f[x]
    PROVE  Sum(h, S) = Sum(f, S)
<1> DEFINE C == {s \in SUBSET S : Sum(h, s) # Sum(f, s)}
<1> SUFFICES ASSUME C # {} PROVE FALSE
  OBVIOUS
<1>1. PICK s \in C : IsFiniteSet(s) /\ \A x \in s : s \ {x} \in SUBSET S /\ s \ {x} \notin C
  <2>1. C \in SUBSET (SUBSET S)
    OBVIOUS
  <2> HIDE DEF C
  <2> QED
    BY <2>1, SmallestSet
<1>2. /\ Sum(f, s) = IF s = {} THEN 0 ELSE f[FirstOf(s)] + Sum(f, s \ {FirstOf(s)})
      /\ Sum(h, s) = IF s = {} THEN 0 ELSE h[FirstOf(s)] + Sum(h, s \ {FirstOf(s)})
  BY <1>1, SumStep
<1>3. s # {} => FirstOf(s) \in S /\ Sum(h, s \ {FirstOf(s)}) = Sum(f, s \ {FirstOf(s)})
  BY <1>1, FirstIsIn
<1> QED
  BY <1>2, <1>3

LEMMA SumOfZeros ==
    ASSUME NEW S, IsFiniteSet(S), NEW f, \A x \in S : f[x] = 0
    PROVE  Sum(f, S) = 0
<1> DEFINE C == {s \in SUBSET S : Sum(f, s) # 0}
<1> SUFFICES ASSUME C # {} PROVE FALSE
  OBVIOUS
<1>1. PICK s \in C : IsFiniteSet(s) /\ \A x \in s : s \ {x} \in SUBSET S /\ s \ {x} \notin C
  <2>1. C \in SUBSET (SUBSET S)
    OBVIOUS
  <2> HIDE DEF C
  <2> QED
    BY <2>1, SmallestSet
<1>2. Sum(f, s) = IF s = {} THEN 0 ELSE f[FirstOf(s)] + Sum(f, s \ {FirstOf(s)})
  BY <1>1, SumStep
<1>3. s # {} => FirstOf(s) \in S /\ Sum(f, s \ {FirstOf(s)}) = 0
  BY <1>1, FirstIsIn
<1> QED
  BY <1>2, <1>3

(* One more of a summand is one more of the sum. *)
LEMMA SumBump ==
    ASSUME NEW S, IsFiniteSet(S), NEW f, NEW h, NEW x \in S, NEW k \in Int,
           \A y \in S : f[y] \in Int, h[x] = f[x] + k, \A y \in S \ {x} : h[y] = f[y]
    PROVE  Sum(h, S) = Sum(f, S) + k
<1>1. \A y \in S : h[y] \in Int
  OBVIOUS
<1>2. IsFiniteSet(S \ {x})
  BY FS_Subset
<1>3. Sum(h, S \ {x}) = Sum(f, S \ {x})
  BY <1>2, SumSame
<1>4. Sum(f, S \ {x}) \in Int
  <2>1. \A y \in S \ {x} : f[y] \in Int
    OBVIOUS
  <2> QED
    BY <1>2, <2>1, SumType
<1>5. Sum(h, S) = h[x] + Sum(h, S \ {x}) /\ Sum(f, S) = f[x] + Sum(f, S \ {x})
  BY <1>1, SumRemove
<1> QED
  BY <1>3, <1>4, <1>5

-----------------------------------------------------------------------------
(* Revaluation, a part of Algorithms. *)

LEMMA RevalueSum == \A f : Revalue!SumFunction(f) = Sum(f, DOMAIN f)
<1> SUFFICES ASSUME NEW f PROVE Revalue!SumFunction(f) = Sum(f, DOMAIN f)
  OBVIOUS
<1>1. Revalue!SumFunction(f) =
        (CHOOSE g : g = [s \in SUBSET (DOMAIN f) |->
            IF s = {} THEN 0
            ELSE f[CHOOSE x \in s : TRUE] + g[s \ {CHOOSE x \in s : TRUE}]])[DOMAIN f]
  BY DEF Revalue!SumFunction, Revalue!SumFunctionOnSet, Revalue!FoldFunctionOnSet,
    Revalue!MapThenFoldSet
<1> QED
  BY <1>1 DEF Sum, Sums, FirstOf

Amounts == [Markets -> Int \cup {Nothing}]

Bookish == [Markets -> [side : {"long", "short", ""}, size : Int, entry : Int]]

LEMMA RevalueConstants ==
    ASSUME Revalue!ConstantsOK
    PROVE  /\ IsFiniteSet(Markets) /\ "perp" \notin Markets
           /\ Books \subseteq Bookish /\ Prices \subseteq Int
           /\ Cash \in Int /\ Spot \in Int /\ Extra \in Int
           /\ MaxTicks \in Nat /\ Nothing \notin Int
BY DEF Revalue!ConstantsOK, Revalue!IsFiniteSet, IsFiniteSet, Bookish

LEMMA OrZeroIs ==
    ASSUME Nothing \notin Int, NEW x \in Int \cup {Nothing}
    PROVE  Revalue!OrZero(x) \in Int /\ (x \in Int => Revalue!OrZero(x) = x)
BY DEF Revalue!OrZero

LEMMA TotalIs ==
    ASSUME NEW f
    PROVE  Revalue!Total(f) = Sum([k \in DOMAIN f |-> Revalue!OrZero(f[k])], DOMAIN f)
<1>1. Revalue!Total(f) = Revalue!SumFunction([k \in DOMAIN f |-> Revalue!OrZero(f[k])])
  BY DEF Revalue!Total
<1>2. DOMAIN [k \in DOMAIN f |-> Revalue!OrZero(f[k])] = DOMAIN f
  OBVIOUS
<1> QED
  BY <1>1, <1>2, RevalueSum

(* What the server delivers of a d. *)
RowOK(d) ==
    /\ d \in [mode : {"client", "server"}, mark : Amounts, pnl : Amounts, equity : Int,
                complete : BOOLEAN]
    /\ \A m \in Markets : d.mark[m] # Nothing =>
          d.pnl[m] = Revalue!Signed(book[m]) * (d.mark[m] - book[m].entry) + Extra
    /\ d.equity = Cash + Revalue!Total(d.pnl)
    /\ d.complete => \A m \in Markets : d.mark[m] # Nothing

(* What a position is worth in a row as re-marked. *)
WorthIn(d, r, m) ==
    IF r.mark[m] = Nothing THEN Revalue!OrZero(d.pnl[m])
    ELSE Revalue!Signed(book[m]) * (r.mark[m] - book[m].entry)
            + (IF d.mark[m] # Nothing THEN Extra ELSE 0)

(* A re-marked row has the equity of its marks. *)
RowShown(d, r) ==
    /\ r.equity = Cash + Sum([m \in Markets |-> WorthIn(d, r, m)], Markets)
    /\ d.mode = "server" => r = d
    /\ r.complete => \A m \in Markets : r.mark[m] # Nothing

Delivered(f) ==
    /\ f.exchange.pnl \in Amounts
    /\ f.agg.values \in [Markets \cup {"perp"} -> Int] /\ f.agg.values["perp"] = Cash
    /\ f.object.balances \in [Markets -> Int]
    /\ f.object.positions \in Amounts

(* The other figures are what was delivered, re-marked once at the mids    *)
(* they were last re-marked at; and none of these is forgotten again.      *)
StateIs(f, s) ==
    /\ s.at \in [Markets -> Prices \cup {Nothing}]
    /\ \A m \in Markets : rheld[m] = Nothing => s.at[m] = Nothing
    /\ s.exchange.pnl =
          [m \in Markets |-> IF s.at[m] = Nothing THEN f.exchange.pnl[m]
                             ELSE Revalue!Unrealized(book[m], s.at[m])]
    /\ s.exchange.total = Revalue!Total(s.exchange.pnl)
    /\ s.agg.values =
          [k \in Markets \cup {"perp"} |->
              IF k \notin Markets \/ s.at[k] = Nothing THEN f.agg.values[k]
              ELSE Spot * s.at[k]]
    /\ s.agg.total = Revalue!Total(s.agg.values)
    /\ s.object.balances =
          [m \in Markets |-> IF s.at[m] = Nothing THEN f.object.balances[m]
                             ELSE Spot * s.at[m]]
    /\ s.object.positions =
          [m \in Markets |-> IF s.at[m] = Nothing THEN f.object.positions[m]
                             ELSE book[m].size * s.at[m]]
    /\ s.object.total =
          Revalue!Total(s.object.balances) + Revalue!Total(s.object.positions)

RevalueInv ==
    /\ Revalue!TypeOK /\ book \in Books
    /\ \/ rrow = Nothing /\ rshown = Nothing /\ state = Nothing
       \/ /\ RowOK(rrow) /\ RowShown(rrow, rshown)
          /\ Delivered(delivered) /\ StateIs(delivered, state)

LEMMA BooksTyped ==
    ASSUME Revalue!ConstantsOK, book \in Books
    PROVE  /\ book \in Bookish
           /\ \A m \in Markets : /\ book[m].size \in Int /\ book[m].entry \in Int
                                 /\ Revalue!Signed(book[m]) \in Int
<1>1. book \in Bookish
  BY DEF Revalue!ConstantsOK, Bookish
<1>2. ASSUME NEW m \in Markets
      PROVE /\ book[m].size \in Int /\ book[m].entry \in Int
            /\ Revalue!Signed(book[m]) \in Int
  <2>1. book[m].side \in {"long", "short", ""} /\ book[m].size \in Int /\ book[m].entry \in Int
    BY <1>1 DEF Bookish
  <2>2. \A n \in Int : Revalue!Abs(n) \in Int /\ -Revalue!Abs(n) \in Int
    <3> SUFFICES ASSUME NEW n \in Int PROVE Revalue!Abs(n) \in Int /\ -Revalue!Abs(n) \in Int
      OBVIOUS
    <3>1. CASE n < 0
      <4>1. Revalue!Abs(n) = -n
        BY <3>1 DEF Revalue!Abs
      <4> QED
        BY <4>1
    <3>2. CASE ~(n < 0)
      <4>1. Revalue!Abs(n) = n
        BY <3>2 DEF Revalue!Abs
      <4> QED
        BY <4>1
    <3> QED
      BY <3>1, <3>2
  <2>3. \A p : p.side = "short" => Revalue!Signed(p) = -Revalue!Abs(p.size)
    BY DEF Revalue!Signed
  <2>4. \A p : p.side = "long" => Revalue!Signed(p) = Revalue!Abs(p.size)
    BY DEF Revalue!Signed
  <2>5. \A p : p.side = "" => Revalue!Signed(p) = p.size
    BY DEF Revalue!Signed
  <2> QED
    BY <2>1, <2>2, <2>3, <2>4, <2>5
<1> QED
  BY <1>1, <1>2

LEMMA Distributes ==
    \A a, b, c, d \in Int : a * (b - d) = a * (c - d) + a * (b - c)
OBVIOUS

-----------------------------------------------------------------------------
(* The equity of a d. *)

LEMMA DeliveredWorth ==
    ASSUME Revalue!ConstantsOK, NEW d, RowOK(d), book \in Books, NEW m \in Markets
    PROVE  /\ Revalue!OrZero(d.pnl[m]) \in Int
           /\ WorthIn(d, d, m) = Revalue!OrZero(d.pnl[m])
<1>1. d.pnl[m] \in Int \cup {Nothing} /\ d.mark[m] \in Int \cup {Nothing}
  BY DEF RowOK, Amounts
<1>2. Nothing \notin Int
  BY RevalueConstants
<1>3. CASE d.mark[m] = Nothing
  BY <1>1, <1>2, <1>3, OrZeroIs DEF WorthIn
<1>4. CASE d.mark[m] # Nothing
  <2>1. d.pnl[m] = Revalue!Signed(book[m]) * (d.mark[m] - book[m].entry) + Extra
    BY <1>4 DEF RowOK
  <2>2. d.pnl[m] \in Int
    <3>1. /\ Revalue!Signed(book[m]) \in Int /\ book[m].entry \in Int
          /\ d.mark[m] \in Int /\ Extra \in Int
      BY <1>1, <1>4, BooksTyped, RevalueConstants
    <3>2. \A a, b, c, e \in Int : a * (b - c) + e \in Int
      OBVIOUS
    <3> QED
      BY <2>1, <3>1, <3>2
  <2> QED
    BY <1>2, <1>4, <2>1, <2>2, OrZeroIs DEF WorthIn
<1> QED
  BY <1>3, <1>4

(* Re-marking a position changes its worth by the shift. *)
LEMMA ShiftIs ==
    ASSUME Revalue!ConstantsOK, NEW d, RowOK(d), book \in Books, NEW m \in Markets, NEW mid \in Int,
           NEW new, new = Revalue!remarkProjectedPosition(book[m], mid, d.mark[m], d.pnl[m])
    PROVE  /\ new.shift \in Int
           /\ Revalue!Signed(book[m]) * (mid - book[m].entry)
                 + (IF d.mark[m] # Nothing THEN Extra ELSE 0)
                 = Revalue!OrZero(d.pnl[m]) + new.shift
<1> DEFINE s == Revalue!Signed(book[m])
           entry == book[m].entry
           mark == d.mark[m]
           pnl == d.pnl[m]
<1>1. /\ s \in Int /\ entry \in Int /\ Extra \in Int /\ Nothing \notin Int
      /\ mark \in Int \cup {Nothing} /\ pnl \in Int \cup {Nothing}
      /\ mark # Nothing => pnl = s * (mark - entry) + Extra
  BY BooksTyped DEF RowOK, Amounts, Revalue!ConstantsOK
<1>2. CASE mark # Nothing
  <2>1. mark \in Int /\ pnl \in Int /\ pnl # Nothing /\ pnl = s * (mark - entry) + Extra
    <3> HIDE DEF s, entry, mark, pnl
    <3> QED
      BY <1>1, <1>2
  <2>2. new.shift = s * (mid - mark)
    BY <1>2, <2>1 DEF Revalue!remarkProjectedPosition
  <2>3. Revalue!OrZero(pnl) = pnl
    BY <2>1 DEF Revalue!OrZero
  <2> HIDE DEF s, entry, mark, pnl
  <2>4. s * (mid - entry) = s * (mark - entry) + s * (mid - mark)
    BY <1>1, <2>1, Distributes
  <2>5. s * (mid - entry) \in Int /\ s * (mark - entry) \in Int /\ s * (mid - mark) \in Int
    BY <1>1, <2>1
  <2>6. s * (mid - entry) + Extra = Revalue!OrZero(pnl) + new.shift /\ new.shift \in Int
    BY <1>1, <2>1, <2>2, <2>3, <2>4, <2>5
  <2> QED
    BY <1>2, <2>6 DEF s, entry, mark, pnl
<1>3. CASE mark = Nothing
  <2>1. new.shift = s * (mid - entry) - Revalue!OrZero(pnl)
    BY <1>3 DEF Revalue!remarkProjectedPosition
  <2>2. Revalue!OrZero(pnl) \in Int
    BY <1>1, OrZeroIs
  <2>3. s * (mid - entry) \in Int
    <3> HIDE DEF s, entry
    <3> QED
      BY <1>1
  <2> HIDE DEF s, entry, mark, pnl
  <2>4. s * (mid - entry) + 0 = Revalue!OrZero(pnl) + new.shift /\ new.shift \in Int
    BY <2>1, <2>2, <2>3
  <2> QED
    BY <1>3, <2>4 DEF s, entry, mark, pnl
<1> QED
  BY <1>2, <1>3

(* A delivered row has the equity of its own marks. *)
LEMMA DeliveredIsShown ==
    ASSUME Revalue!ConstantsOK, NEW d, RowOK(d), book \in Books
    PROVE  RowShown(d, d)
<1>1. DOMAIN d.pnl = Markets
  <2>1. d.pnl \in [Markets -> Int \cup {Nothing}]
    BY DEF RowOK, Amounts
  <2> QED
    BY <2>1
<1>2. Revalue!Total(d.pnl) = Sum([m \in Markets |-> Revalue!OrZero(d.pnl[m])], Markets)
  BY <1>1, TotalIs
<1>3. \A m \in Markets :
         [n \in Markets |-> WorthIn(d, d, n)][m] = [n \in Markets |-> Revalue!OrZero(d.pnl[n])][m]
  BY DeliveredWorth
<1>4. Sum([m \in Markets |-> WorthIn(d, d, m)], Markets)
        = Sum([m \in Markets |-> Revalue!OrZero(d.pnl[m])], Markets)
  BY <1>3, SumSame, RevalueConstants
<1> QED
  BY <1>2, <1>4 DEF RowOK, RowShown

(* RevalueProjectedValuation keeps it so, whichever mids are held. *)
LEMMA RemarkedIsShown ==
    ASSUME Revalue!ConstantsOK, NEW d, RowOK(d), book \in Books,
           rheld \in [Markets -> Prices \cup {Nothing}]
    PROVE  RowShown(d, Revalue!RevalueProjectedValuation(d))
<1> DEFINE New(m) ==
               Revalue!remarkProjectedPosition(book[m], rheld[m], d.mark[m], d.pnl[m])
           moved == {m \in Markets : rheld[m] # Nothing}
           r == Revalue!RevalueProjectedValuation(d)
           f == [m \in Markets |-> Revalue!OrZero(d.pnl[m])]
           g == [m \in moved |-> New(m).shift]
           w == [m \in Markets |-> WorthIn(d, r, m)]
<1>1. CASE d.mode = "server" \/ moved = {}
  <2>1. r = d
    BY <1>1 DEF Revalue!RevalueProjectedValuation
  <2> QED
    BY <2>1, DeliveredIsShown
<1>2. CASE ~(d.mode = "server" \/ moved = {})
  <2>1. r = [d EXCEPT !.mark = [m \in Markets |-> IF m \in moved THEN rheld[m] ELSE @[m]],
                        !.pnl = [m \in Markets |-> IF m \in moved THEN New(m).pnl ELSE @[m]],
                        !.equity = @ + Revalue!SumFunction(g),
                        !.complete = @ \/ Revalue!AllMarked(d)]
    BY <1>2 DEF Revalue!RevalueProjectedValuation
  <2> HIDE DEF r, g, New
  <2>2. /\ r.equity = d.equity + Revalue!SumFunction(g)
        /\ r.mark = [m \in Markets |-> IF m \in moved THEN rheld[m] ELSE d.mark[m]]
        /\ r.complete <=> (d.complete \/ Revalue!AllMarked(d))
    BY <2>1 DEF RowOK
  <2>3. \A m \in Markets :
           /\ r.mark[m] = IF rheld[m] # Nothing THEN rheld[m] ELSE d.mark[m]
           /\ rheld[m] # Nothing => rheld[m] \in Int
    BY <2>2, RevalueConstants
  <2>4. \A m \in moved :
           /\ New(m).shift \in Int
           /\ WorthIn(d, r, m) = Revalue!OrZero(d.pnl[m]) + New(m).shift
    <3> SUFFICES ASSUME NEW m \in Markets, rheld[m] # Nothing
                 PROVE /\ New(m).shift \in Int
                       /\ WorthIn(d, r, m) = Revalue!OrZero(d.pnl[m]) + New(m).shift
      OBVIOUS
    <3>1. r.mark[m] = rheld[m] /\ rheld[m] \in Int
      BY <2>3
    <3>2. New(m) = Revalue!remarkProjectedPosition(book[m], rheld[m], d.mark[m], d.pnl[m])
      BY DEF New
    <3>3. /\ New(m).shift \in Int
          /\ Revalue!Signed(book[m]) * (rheld[m] - book[m].entry)
                + (IF d.mark[m] # Nothing THEN Extra ELSE 0)
                = Revalue!OrZero(d.pnl[m]) + New(m).shift
      BY <3>1, <3>2, ShiftIs
    <3> QED
      BY <3>1, <3>3 DEF WorthIn
  <2>5. \A m \in Markets \ moved : WorthIn(d, r, m) = Revalue!OrZero(d.pnl[m])
    <3> SUFFICES ASSUME NEW m \in Markets, rheld[m] = Nothing
                 PROVE WorthIn(d, r, m) = Revalue!OrZero(d.pnl[m])
      OBVIOUS
    <3>1. r.mark[m] = d.mark[m]
      BY <2>3
    <3> QED
      BY <3>1, DeliveredWorth DEF WorthIn
  <2>6. \A m \in Markets : f[m] \in Int
    BY DeliveredWorth
  <2>7. \A m \in moved : g[m] \in Int /\ g[m] = New(m).shift
    BY <2>4 DEF g
  <2>8. \A m \in Markets :
           w[m] = (IF m \in Markets THEN f[m] ELSE 0) + (IF m \in moved THEN g[m] ELSE 0)
    <3> SUFFICES ASSUME NEW m \in Markets
                 PROVE w[m] = f[m] + (IF m \in moved THEN g[m] ELSE 0)
      OBVIOUS
    <3>1. w[m] = WorthIn(d, r, m) /\ f[m] = Revalue!OrZero(d.pnl[m]) /\ f[m] \in Int
      BY <2>6
    <3> HIDE DEF w, f
    <3>2. CASE m \in moved
      BY <2>4, <2>7, <3>1, <3>2
    <3>3. CASE m \notin moved
      BY <2>5, <3>1, <3>3
    <3> QED
      BY <3>2, <3>3
  <2>9. Sum(w, Markets) = Sum(f, Markets) + Sum(g, moved)
    <3>1. IsFiniteSet(Markets) /\ Markets \in SUBSET Markets /\ moved \in SUBSET Markets
      BY RevalueConstants
    <3> HIDE DEF w, f, moved
    <3> QED
      BY <2>6, <2>7, <2>8, <3>1, SumOfParts
  <2>10. Sum(f, Markets) \in Int /\ Sum(g, moved) \in Int
    <3>1. IsFiniteSet(Markets) /\ IsFiniteSet(moved)
      <4>1. IsFiniteSet(Markets) /\ moved \in SUBSET Markets
        BY RevalueConstants
      <4> HIDE DEF moved
      <4> QED
        BY <4>1, FS_Subset
    <3> HIDE DEF f, moved
    <3> QED
      BY <2>6, <2>7, <3>1, SumType
  <2>11. d.equity = Cash + Sum(f, Markets)
    <3>1. DOMAIN d.pnl = Markets
      <4>1. d.pnl \in [Markets -> Int \cup {Nothing}]
        BY DEF RowOK, Amounts
      <4> QED
        BY <4>1
    <3>2. Revalue!Total(d.pnl) = Sum(f, Markets)
      BY <3>1, TotalIs
    <3> QED
      BY <3>2 DEF RowOK
  <2>12. Revalue!SumFunction(g) = Sum(g, moved)
    <3>1. DOMAIN g = moved
      BY DEF g
    <3> QED
      BY <3>1, RevalueSum
  <2>13. r.equity = Cash + Sum(w, Markets)
    <3>1. Cash \in Int
      BY RevalueConstants
    <3> HIDE DEF w, f, moved
    <3> QED
      BY <2>2, <2>9, <2>10, <2>11, <2>12, <3>1
  <2>14. r.complete => \A m \in Markets : r.mark[m] # Nothing
    <3>1. d.complete => \A m \in Markets : d.mark[m] # Nothing
      BY DEF RowOK
    <3>2. Revalue!AllMarked(d) => \A m \in Markets : rheld[m] # Nothing \/ d.mark[m] # Nothing
      BY DEF Revalue!AllMarked
    <3> QED
      BY <2>2, <2>3, <3>1, <3>2
  <2>15. RowShown(d, r)
    BY <1>2, <2>13, <2>14 DEF RowShown
  <2> QED
    BY <2>15 DEF r
<1> QED
  BY <1>1, <1>2

-----------------------------------------------------------------------------
(* The other figures. *)

(* Re-marked again, they are what was delivered, re-marked once. *)
LEMMA RevaluedIs ==
    ASSUME NEW f, StateIs(f, state), Delivered(f), rheld \in [Markets -> Prices \cup {Nothing}]
    PROVE  StateIs(f, Revalue!Revalued(state))
<1> DEFINE s == Revalue!Revalued(state)
<1>1. \A m \in Markets : rheld[m] = Nothing => state.at[m] = Nothing
  BY DEF StateIs
<1>2. s.at = rheld
  BY DEF Revalue!Revalued
<1>3. /\ s.exchange.pnl =
            [m \in Markets |-> IF rheld[m] = Nothing THEN state.exchange.pnl[m]
                               ELSE Revalue!Unrealized(book[m], rheld[m])]
      /\ s.exchange.total = Revalue!Total(s.exchange.pnl)
  BY DEF Revalue!Revalued, Revalue!RevalueExchangeState
<1>4. /\ s.agg.values =
            [k \in DOMAIN state.agg.values |->
                IF k \notin Markets \/ rheld[k] = Nothing THEN state.agg.values[k]
                ELSE Spot * rheld[k]]
      /\ s.agg.total = Revalue!Total(s.agg.values)
  BY DEF Revalue!Revalued, Revalue!RevalueAggregation
<1>5. /\ s.object.balances =
            [m \in Markets |-> IF rheld[m] = Nothing THEN state.object.balances[m]
                               ELSE Spot * rheld[m]]
      /\ s.object.positions =
            [m \in Markets |-> IF rheld[m] = Nothing THEN state.object.positions[m]
                               ELSE book[m].size * rheld[m]]
      /\ s.object.total = Revalue!Total(s.object.balances) + Revalue!Total(s.object.positions)
  BY DEF Revalue!Revalued, Revalue!RevalueObject
<1> HIDE DEF s
<1>6. \A m \in Markets : rheld[m] = Nothing => state.exchange.pnl[m] = f.exchange.pnl[m]
  BY <1>1 DEF StateIs
<1>7. s.exchange.pnl =
        [m \in Markets |-> IF s.at[m] = Nothing THEN f.exchange.pnl[m]
                           ELSE Revalue!Unrealized(book[m], s.at[m])]
  BY <1>2, <1>3, <1>6
<1>8. /\ DOMAIN state.agg.values = Markets \cup {"perp"}
      /\ \A k \in Markets \cup {"perp"} :
            k \notin Markets \/ rheld[k] = Nothing => state.agg.values[k] = f.agg.values[k]
  BY <1>1 DEF StateIs
<1>9. s.agg.values =
        [k \in Markets \cup {"perp"} |->
            IF k \notin Markets \/ s.at[k] = Nothing THEN f.agg.values[k]
            ELSE Spot * s.at[k]]
  BY <1>2, <1>4, <1>8
<1>10. \A m \in Markets : rheld[m] = Nothing =>
          /\ state.object.balances[m] = f.object.balances[m]
          /\ state.object.positions[m] = f.object.positions[m]
  BY <1>1 DEF StateIs
<1>11. s.object.balances =
         [m \in Markets |-> IF s.at[m] = Nothing THEN f.object.balances[m]
                            ELSE Spot * s.at[m]]
  BY <1>2, <1>5, <1>10
<1>12. s.object.positions =
         [m \in Markets |-> IF s.at[m] = Nothing THEN f.object.positions[m]
                            ELSE book[m].size * s.at[m]]
  BY <1>2, <1>5, <1>10
<1>13. s.at \in [Markets -> Prices \cup {Nothing}]
       /\ \A m \in Markets : rheld[m] = Nothing => s.at[m] = Nothing
  BY <1>2
<1>14. StateIs(f, s)
  BY <1>3, <1>4, <1>5, <1>7, <1>9, <1>11, <1>12, <1>13 DEF StateIs
<1> QED
  BY <1>14 DEF s

(* A total is what has been re-marked and what has not. *)
LEMMA TotalSplits ==
    ASSUME NEW S, IsFiniteSet(S), Nothing \notin Int, NEW K \in SUBSET S,
           NEW values, DOMAIN values = S, \A x \in S \ K : values[x] \in Int \cup {Nothing},
           NEW a, \A x \in S \ K : a[x] = Revalue!OrZero(values[x]),
           NEW g, \A x \in K : g[x] \in Int /\ values[x] = g[x]
    PROVE  Revalue!Total(values) = Sum(a, S \ K) + Sum(g, K)
<1> DEFINE h == [x \in S |-> Revalue!OrZero(values[x])]
<1>1. Revalue!Total(values) = Sum(h, S)
  BY TotalIs
<1>2. \A x \in S \ K : a[x] \in Int /\ h[x] = a[x]
  BY OrZeroIs
<1>3. \A x \in K : h[x] = g[x]
  BY OrZeroIs
<1>4. \A x \in S : h[x] = (IF x \in S \ K THEN a[x] ELSE 0) + (IF x \in K THEN g[x] ELSE 0)
  <2> HIDE DEF h
  <2> QED
    BY <1>2, <1>3
<1>5. IsFiniteSet(S \ K) /\ IsFiniteSet(K) /\ S \ K \in SUBSET S
  BY FS_Subset
<1> HIDE DEF h
<1>6. Sum(h, S) = Sum(a, S \ K) + Sum(g, K)
  BY <1>2, <1>4, <1>5, SumOfParts
<1> QED
  BY <1>1, <1>6

LEMMA TotalsFollow ==
    ASSUME Revalue!ConstantsOK, book \in Books, Delivered(delivered), StateIs(delivered, state)
    PROVE  Revalue!TotalsAtMids
<1> DEFINE Known == {m \in Markets : state.at[m] # Nothing}
           All == Markets \cup {"perp"}
           Missing(values) == [m \in Markets \ Known |-> Revalue!OrZero(values[m])]
           pnl == [m \in Known |-> Revalue!Unrealized(book[m], state.at[m])]
           spot == [m \in Known |-> Spot * state.at[m]]
           notional == [m \in Known |-> book[m].size * state.at[m]]
           both == [m \in Known |-> (Spot + book[m].size) * state.at[m]]
<1>1. /\ IsFiniteSet(Markets) /\ Nothing \notin Int /\ Known \in SUBSET Markets
      /\ IsFiniteSet(Known) /\ IsFiniteSet(All) /\ Known \in SUBSET All
      /\ "perp" \notin Markets /\ Cash \in Int /\ Spot \in Int
  <2>1. IsFiniteSet(Markets) /\ IsFiniteSet({"perp"}) /\ Known \in SUBSET Markets
    BY FS_Singleton, RevalueConstants
  <2>2. IsFiniteSet(Known) /\ IsFiniteSet(All)
    <3> HIDE DEF Known
    <3> QED
      BY <2>1, FS_Subset, FS_Union
  <2> QED
    BY <2>1, <2>2, RevalueConstants
<1>2. ASSUME NEW m \in Known
      PROVE  /\ state.at[m] \in Int /\ book[m].size \in Int /\ book[m].entry \in Int
             /\ Revalue!Unrealized(book[m], state.at[m]) \in Int
             /\ Spot * state.at[m] \in Int /\ book[m].size * state.at[m] \in Int
             /\ (Spot + book[m].size) * state.at[m]
                   = Spot * state.at[m] + book[m].size * state.at[m]
  <2>1. state.at[m] \in Int /\ book[m].size \in Int /\ book[m].entry \in Int /\ Spot \in Int
    BY BooksTyped, RevalueConstants DEF StateIs
  <2>2. \A a, b, c \in Int : (a - b) * c \in Int /\ (b - a) * c \in Int
    OBVIOUS
  <2>3. Revalue!Unrealized(book[m], state.at[m]) \in Int
    BY <2>1, <2>2 DEF Revalue!Unrealized
  <2>4. \A a, b, c \in Int : a * c \in Int /\ b * c \in Int /\ (a + b) * c = a * c + b * c
    OBVIOUS
  <2> QED
    BY <2>1, <2>3, <2>4
<1>3. /\ \A m \in Known : pnl[m] \in Int /\ pnl[m] = Revalue!Unrealized(book[m], state.at[m])
      /\ \A m \in Known : spot[m] \in Int /\ spot[m] = Spot * state.at[m]
      /\ \A m \in Known : notional[m] \in Int /\ notional[m] = book[m].size * state.at[m]
      /\ \A m \in Known : both[m] = spot[m] + notional[m]
  BY <1>2
<1>4. \A m \in Known : state.at[m] # Nothing
  OBVIOUS
<1>5. \A m \in Markets \ Known : state.at[m] = Nothing
  OBVIOUS
<1>6. \A values : Revalue!SumFunction(Missing(values)) = Sum(Missing(values), Markets \ Known)
  <2> SUFFICES ASSUME NEW values
               PROVE Revalue!SumFunction(Missing(values)) = Sum(Missing(values), Markets \ Known)
    OBVIOUS
  <2>1. DOMAIN Missing(values) = Markets \ Known
    OBVIOUS
  <2> HIDE DEF Missing, Known
  <2> QED
    BY <2>1, RevalueSum
<1>7. /\ Revalue!SumFunction(pnl) = Sum(pnl, Known)
      /\ Revalue!SumFunction(spot) = Sum(spot, Known)
      /\ Revalue!SumFunction(both) = Sum(both, Known)
  <2>1. DOMAIN pnl = Known /\ DOMAIN spot = Known /\ DOMAIN both = Known
    OBVIOUS
  <2> HIDE DEF pnl, spot, both, Known
  <2> QED
    BY <2>1, RevalueSum
<1>8. Sum(spot, Known) \in Int /\ Sum(notional, Known) \in Int
  <2> HIDE DEF Known, spot, notional
  <2> QED
    BY <1>1, <1>3, SumType
<1> HIDE DEF Known, pnl, spot, notional, both
<1>9. state.exchange.total = Revalue!SumFunction(Missing(delivered.exchange.pnl)) + Revalue!SumFunction(pnl)
  <2>1. DOMAIN state.exchange.pnl = Markets
    BY DEF StateIs
  <2>2. \A m \in Markets \ Known :
           /\ state.exchange.pnl[m] \in Int \cup {Nothing}
           /\ Missing(delivered.exchange.pnl)[m] = Revalue!OrZero(state.exchange.pnl[m])
    BY <1>5 DEF StateIs, Delivered, Amounts
  <2>3. \A m \in Known : pnl[m] \in Int /\ state.exchange.pnl[m] = pnl[m]
    BY <1>1, <1>3, <1>4 DEF StateIs
  <2>4. Revalue!Total(state.exchange.pnl)
          = Sum(Missing(delivered.exchange.pnl), Markets \ Known) + Sum(pnl, Known)
    <3> HIDE DEF Missing
    <3> QED
      BY <1>1, <2>1, <2>2, <2>3, TotalSplits
  <2> HIDE DEF Missing
  <2> QED
    BY <1>6, <1>7, <2>4 DEF StateIs
<1>10. state.agg.total =
        Cash + Revalue!SumFunction(Missing(delivered.agg.values)) + Revalue!SumFunction(spot)
  <2> DEFINE rest == [k \in All \ Known |-> Revalue!OrZero(delivered.agg.values[k])]
  <2>1. DOMAIN state.agg.values = All
    BY DEF StateIs
  <2>2. \A k \in All : delivered.agg.values[k] \in Int
    BY DEF Delivered
  <2>3. \A k \in All \ Known : /\ state.agg.values[k] \in Int \cup {Nothing}
                               /\ rest[k] = Revalue!OrZero(state.agg.values[k])
    BY <1>5, <2>2 DEF StateIs
  <2>4. \A k \in Known : spot[k] \in Int /\ state.agg.values[k] = spot[k]
    BY <1>1, <1>3, <1>4 DEF StateIs
  <2>5. Revalue!Total(state.agg.values) = Sum(rest, All \ Known) + Sum(spot, Known)
    <3> HIDE DEF All, rest
    <3> QED
      BY <1>1, <2>1, <2>3, <2>4, TotalSplits
  <2>6. \A k \in All \ Known : rest[k] \in Int /\ rest[k] = delivered.agg.values[k]
    <3> HIDE DEF All
    <3> QED
      BY <1>1, <2>2, OrZeroIs
  <2>7. "perp" \in All \ Known /\ (All \ Known) \ {"perp"} = Markets \ Known
    BY <1>1
  <2>8. Sum(rest, All \ Known) = rest["perp"] + Sum(rest, Markets \ Known)
    <3>1. IsFiniteSet(All \ Known)
      <4> HIDE DEF All
      <4> QED
        BY <1>1, FS_Subset
    <3> HIDE DEF rest, All
    <3> QED
      BY <2>6, <2>7, <3>1, SumRemove
  <2>9. rest["perp"] = Cash
    BY <2>6, <2>7 DEF Delivered
  <2>10. \A m \in Markets \ Known : rest[m] = Missing(delivered.agg.values)[m] /\ rest[m] \in Int
    BY <2>6
  <2>11. /\ Sum(rest, Markets \ Known) = Sum(Missing(delivered.agg.values), Markets \ Known)
         /\ Sum(rest, Markets \ Known) \in Int
    <3>1. IsFiniteSet(Markets \ Known)
      BY <1>1, FS_Subset
    <3> HIDE DEF rest, Missing
    <3> QED
      BY <2>10, <3>1, SumSame, SumType
  <2>12. state.agg.total = Sum(rest, All \ Known) + Sum(spot, Known)
    BY <2>5 DEF StateIs
  <2> HIDE DEF rest, Missing, All
  <2> QED
    BY <1>1, <1>6, <1>7, <1>8, <2>5, <2>8, <2>9, <2>11, <2>12
<1>11. state.object.total =
         Revalue!SumFunction(Missing(delivered.object.balances))
           + Revalue!SumFunction(Missing(delivered.object.positions)) + Revalue!SumFunction(both)
  <2>1. DOMAIN state.object.balances = Markets /\ DOMAIN state.object.positions = Markets
    BY DEF StateIs
  <2>2. \A m \in Markets \ Known :
           /\ state.object.balances[m] \in Int \cup {Nothing}
           /\ Missing(delivered.object.balances)[m] = Revalue!OrZero(state.object.balances[m])
    BY <1>5 DEF StateIs, Delivered
  <2>3. \A m \in Markets \ Known :
           /\ state.object.positions[m] \in Int \cup {Nothing}
           /\ Missing(delivered.object.positions)[m] = Revalue!OrZero(state.object.positions[m])
    BY <1>5 DEF StateIs, Delivered, Amounts
  <2>4. \A m \in Known : spot[m] \in Int /\ state.object.balances[m] = spot[m]
    BY <1>1, <1>3, <1>4 DEF StateIs
  <2>5. \A m \in Known : notional[m] \in Int /\ state.object.positions[m] = notional[m]
    BY <1>1, <1>3, <1>4 DEF StateIs
  <2>6. Revalue!Total(state.object.balances)
          = Sum(Missing(delivered.object.balances), Markets \ Known) + Sum(spot, Known)
    <3> HIDE DEF Missing
    <3> QED
      BY <1>1, <2>1, <2>2, <2>4, TotalSplits
  <2>7. Revalue!Total(state.object.positions)
          = Sum(Missing(delivered.object.positions), Markets \ Known) + Sum(notional, Known)
    <3> HIDE DEF Missing
    <3> QED
      BY <1>1, <2>1, <2>3, <2>5, TotalSplits
  <2>8. /\ Sum(Missing(delivered.object.balances), Markets \ Known) \in Int
         /\ Sum(Missing(delivered.object.positions), Markets \ Known) \in Int
    <3>1. \A m \in Markets \ Known : /\ Missing(delivered.object.balances)[m] \in Int
                                     /\ Missing(delivered.object.positions)[m] \in Int
      BY <1>1, OrZeroIs DEF Delivered, Amounts
    <3>2. IsFiniteSet(Markets \ Known)
      BY <1>1, FS_Subset
    <3> HIDE DEF Missing
    <3> QED
      BY <3>1, <3>2, SumType
  <2>9. Sum(both, Known) = Sum(spot, Known) + Sum(notional, Known)
    <3>1. \A m \in Known : both[m] = (IF m \in Known THEN spot[m] ELSE 0)
                                      + (IF m \in Known THEN notional[m] ELSE 0)
      BY <1>3
    <3>2. Known \in SUBSET Known
      OBVIOUS
    <3> QED
      BY <1>1, <1>3, <3>1, <3>2, SumOfParts
  <2>10. state.object.total = Revalue!Total(state.object.balances) + Revalue!Total(state.object.positions)
    BY DEF StateIs
  <2> HIDE DEF Missing
  <2> QED
    <3>1. /\ Revalue!SumFunction(Missing(delivered.object.balances))
               = Sum(Missing(delivered.object.balances), Markets \ Known)
          /\ Revalue!SumFunction(Missing(delivered.object.positions))
               = Sum(Missing(delivered.object.positions), Markets \ Known)
          /\ Revalue!SumFunction(both) = Sum(both, Known)
      BY <1>6, <1>7
    <3> QED
      BY <1>8, <2>6, <2>7, <2>9, <2>10, <2>8, <3>1
<1> QED
  BY <1>9, <1>10, <1>11 DEF Revalue!TotalsAtMids, Known, pnl, spot, both

LEMMA TotalType ==
    ASSUME Nothing \notin Int, NEW S, IsFiniteSet(S), NEW f \in [S -> Int \cup {Nothing}]
    PROVE  Revalue!Total(f) \in Int
<1> DEFINE h == [x \in S |-> Revalue!OrZero(f[x])]
<1>1. Revalue!Total(f) = Sum(h, S)
  BY TotalIs
<1>2. \A x \in S : h[x] \in Int
  BY OrZeroIs
<1> HIDE DEF h
<1> QED
  BY <1>1, <1>2, SumType

LEMMA RevalueSteps ==
    ASSUME Revalue!ConstantsOK, RevalueInv, Revalue!Next
    PROVE  RevalueInv'
<1>1. /\ mids \in [Markets -> Prices] /\ rheld \in [Markets -> Prices \cup {Nothing}]
      /\ ticks \in 0..MaxTicks /\ book \in Books /\ MaxTicks \in Nat
  BY RevalueConstants DEF RevalueInv, Revalue!TypeOK
<1>2. CASE Revalue!Deliver
  <2>1. PICK how \in [Markets -> {"marked", "pnl", "none"}], mode \in {"client", "server"} :
          LET pnl == [m \in Markets |-> IF how[m] = "none" THEN Nothing
                                        ELSE Revalue!Signed(book[m]) * (mids[m] - book[m].entry) + Extra] IN
          rrow' = [mode |-> mode,
                  mark |-> [m \in Markets |-> IF how[m] = "marked" THEN mids[m] ELSE Nothing],
                  pnl |-> pnl,
                  equity |-> Cash + Revalue!Total(pnl),
                  complete |-> \A m \in Markets : how[m] = "marked"]
    BY <1>2 DEF Revalue!Deliver
  <2>2. LET spot == [m \in Markets |-> Spot * mids[m]]
            notional == [m \in Markets |-> IF rrow'.pnl[m] = Nothing THEN Nothing
                                           ELSE book[m].size * mids[m]]
            entries == [k \in Markets \cup {"perp"} |-> IF k = "perp" THEN Cash ELSE spot[k]] IN
        delivered' = [exchange |-> [pnl |-> rrow'.pnl, total |-> Revalue!Total(rrow'.pnl)],
                  agg |-> [values |-> entries, total |-> Revalue!Total(entries)],
                  object |-> [balances |-> spot, positions |-> notional,
                              total |-> Revalue!Total(spot) + Revalue!Total(notional)],
                  at |-> [m \in Markets |-> Nothing]]
    BY <1>2 DEF Revalue!Deliver
  <2>3. rshown' = rrow' /\ state' = delivered' /\ UNCHANGED <<book, mids, rheld, ticks>>
    BY <1>2 DEF Revalue!Deliver
  <2> DEFINE pnl == [m \in Markets |-> IF how[m] = "none" THEN Nothing
                       ELSE Revalue!Signed(book[m]) * (mids[m] - book[m].entry) + Extra]
             mark == [m \in Markets |-> IF how[m] = "marked" THEN mids[m] ELSE Nothing]
             spot == [m \in Markets |-> Spot * mids[m]]
             notional == [m \in Markets |-> IF rrow'.pnl[m] = Nothing THEN Nothing
                                            ELSE book[m].size * mids[m]]
             entries == [k \in Markets \cup {"perp"} |-> IF k = "perp" THEN Cash ELSE spot[k]]
  <2>4. ASSUME NEW m \in Markets
        PROVE  /\ mids[m] \in Int /\ Spot * mids[m] \in Int /\ book[m].size * mids[m] \in Int
               /\ Revalue!Signed(book[m]) * (mids[m] - book[m].entry) + Extra \in Int
    <3>1. /\ mids[m] \in Int /\ Spot \in Int /\ Extra \in Int /\ book[m].size \in Int
          /\ book[m].entry \in Int /\ Revalue!Signed(book[m]) \in Int
      BY <1>1, BooksTyped, RevalueConstants
    <3>2. \A a, b, c, e \in Int : a * b \in Int /\ a * (b - c) + e \in Int
      OBVIOUS
    <3> QED
      BY <3>1, <3>2
  <2>5. pnl \in Amounts /\ mark \in Amounts
    BY <2>4 DEF Amounts
  <2>6. /\ rrow'.pnl = pnl /\ rrow'.mark = mark /\ rrow'.equity = Cash + Revalue!Total(pnl)
        /\ rrow'.complete = (\A m \in Markets : how[m] = "marked") /\ rrow'.mode = mode
    BY <2>1
  <2>7. Cash + Revalue!Total(pnl) \in Int
    <3>1. Revalue!Total(pnl) \in Int
      <4>1. pnl \in [Markets -> Int \cup {Nothing}] /\ IsFiniteSet(Markets) /\ Nothing \notin Int
        BY <2>5, RevalueConstants DEF Amounts
      <4> HIDE DEF pnl
      <4> QED
        BY <4>1, TotalType
    <3> QED
      BY <3>1, RevalueConstants
  <2>8. RowOK(rrow')
    <3>1. rrow' = [mode |-> mode, mark |-> mark, pnl |-> pnl, equity |-> Cash + Revalue!Total(pnl),
                  complete |-> \A m \in Markets : how[m] = "marked"]
      BY <2>1
    <3>2. rrow' \in [mode : {"client", "server"}, mark : Amounts, pnl : Amounts, equity : Int,
                    complete : BOOLEAN]
      <4> HIDE DEF mark, pnl
      <4> QED
        BY <2>5, <2>7, <3>1
    <3>3. ASSUME NEW m \in Markets, rrow'.mark[m] # Nothing
          PROVE rrow'.pnl[m] = Revalue!Signed(book[m]) * (rrow'.mark[m] - book[m].entry) + Extra
      <4>1. how[m] = "marked"
        BY <2>6, <3>3
      <4> QED
        BY <2>6, <4>1
    <3>4. rrow'.complete => \A m \in Markets : rrow'.mark[m] # Nothing
      <4>1. \A m \in Markets : how[m] = "marked" => mark[m] # Nothing
        BY <2>4, RevalueConstants
      <4> QED
        BY <2>6, <4>1
    <3> HIDE DEF mark, pnl
    <3> QED
      BY <2>6, <3>2, <3>3, <3>4 DEF RowOK
  <2>9. RowOK(rrow)' /\ RowShown(rrow, rshown)'
    <3>1. RowShown(rrow', rrow')
      BY <1>1, <2>8, DeliveredIsShown
    <3> QED
      BY <2>3, <2>8, <3>1 DEF RowOK, RowShown, WorthIn
  <2>10. /\ delivered'.at = [m \in Markets |-> Nothing]
         /\ delivered'.exchange.pnl = pnl /\ delivered'.exchange.total = Revalue!Total(pnl)
         /\ delivered'.agg.values = entries /\ delivered'.agg.total = Revalue!Total(entries)
         /\ delivered'.object.balances = spot /\ delivered'.object.positions = notional
         /\ delivered'.object.total = Revalue!Total(spot) + Revalue!Total(notional)
    BY <2>2, <2>6
  <2>11. /\ entries \in [Markets \cup {"perp"} -> Int] /\ entries["perp"] = Cash
         /\ spot \in [Markets -> Int] /\ notional \in Amounts
    <3>1. spot \in [Markets -> Int] /\ notional \in Amounts
      BY <2>4 DEF Amounts
    <3> HIDE DEF spot
    <3> QED
      BY <3>1, RevalueConstants
  <2>12. Delivered(delivered)'
    <3> HIDE DEF entries, spot, notional, pnl
    <3> QED
      BY <2>5, <2>10, <2>11 DEF Delivered, Amounts
  <2>13. StateIs(delivered, state)'
    <3>1. /\ DOMAIN pnl = Markets /\ DOMAIN entries = Markets \cup {"perp"}
          /\ DOMAIN spot = Markets /\ DOMAIN notional = Markets
          /\ pnl = [m \in Markets |-> pnl[m]] /\ spot = [m \in Markets |-> spot[m]]
          /\ entries = [k \in Markets \cup {"perp"} |-> entries[k]]
          /\ notional = [m \in Markets |-> notional[m]]
      OBVIOUS
    <3> HIDE DEF entries, spot, notional, pnl
    <3> QED
      BY <2>3, <2>10, <3>1 DEF StateIs
  <2>14. Revalue!TypeOK' /\ book' \in Books
    BY <1>1, <2>3 DEF Revalue!TypeOK
  <2> QED
    BY <2>9, <2>12, <2>13, <2>14 DEF RevalueInv
<1>3. ASSUME NEW m \in Markets, Revalue!Hear(m) PROVE RevalueInv'
  <2>1. /\ rrow # Nothing /\ rheld' = [rheld EXCEPT ![m] = mids[m]]
        /\ UNCHANGED <<book, mids, rrow, rshown, delivered, state, ticks>>
    BY <1>3 DEF Revalue!Hear
  <2>2. RowOK(rrow) /\ RowShown(rrow, rshown) /\ Delivered(delivered) /\ StateIs(delivered, state)
    BY <2>1 DEF RevalueInv
  <2>3. Revalue!TypeOK' /\ book' \in Books
    BY <1>1, <2>1 DEF Revalue!TypeOK
  <2>4. \A k \in Markets : rheld'[k] = Nothing => rheld[k] = Nothing
    BY <1>1, <2>1, RevalueConstants
  <2>5. RowOK(rrow)' /\ RowShown(rrow, rshown)' /\ Delivered(delivered)'
    BY <2>1, <2>2 DEF RowOK, RowShown, WorthIn, Delivered
  <2>6. StateIs(delivered, state)'
    BY <2>1, <2>2, <2>4 DEF StateIs
  <2> QED
    BY <2>1, <2>3, <2>5, <2>6 DEF RevalueInv
<1>4. ASSUME NEW m \in Markets, NEW p \in Prices, Revalue!MoveMid(m, p) PROVE RevalueInv'
  <2>1. /\ ticks < MaxTicks /\ ticks' = ticks + 1 /\ mids' = [mids EXCEPT ![m] = p]
        /\ UNCHANGED <<book, rheld, rrow, rshown, delivered, state>>
    BY <1>4 DEF Revalue!MoveMid
  <2>2. Revalue!TypeOK' /\ book' \in Books
    BY <1>1, <2>1 DEF Revalue!TypeOK
  <2> QED
    BY <2>1, <2>2 DEF RevalueInv, RowOK, RowShown, WorthIn, Delivered, StateIs
<1>5. CASE Revalue!Remark
  <2>1. /\ rrow # Nothing /\ rshown' = Revalue!RevalueProjectedValuation(rrow)
        /\ state' = Revalue!Revalued(state) /\ UNCHANGED <<book, mids, rheld, rrow, delivered, ticks>>
    BY <1>5 DEF Revalue!Remark
  <2>2. RowOK(rrow) /\ RowShown(rrow, rshown) /\ Delivered(delivered) /\ StateIs(delivered, state)
    BY <2>1 DEF RevalueInv
  <2>3. RowShown(rrow, rshown') /\ StateIs(delivered, state')
    BY <1>1, <2>1, <2>2, RemarkedIsShown, RevaluedIs
  <2>4. RowShown(rrow, rshown)' /\ StateIs(delivered, state)'
    BY <2>1, <2>3 DEF RowShown, WorthIn, StateIs
  <2>5. Revalue!TypeOK' /\ book' \in Books /\ RowOK(rrow)' /\ Delivered(delivered)'
    BY <1>1, <2>1, <2>2 DEF Revalue!TypeOK, RowOK, Delivered
  <2> QED
    BY <2>1, <2>4, <2>5 DEF RevalueInv
<1> QED
  BY <1>2, <1>3, <1>4, <1>5 DEF Revalue!Next

(* The row and the other figures as they are shown, at any time and after  *)
(* any mid prices.                                                         *)
LEMMA RevalueInvImplies ==
    ASSUME Revalue!ConstantsOK, RevalueInv
    PROVE  Revalue!RevaluedSound
<1>1. Revalue!TypeOK /\ book \in Books
  BY DEF RevalueInv
<1>2. CASE rrow = Nothing /\ rshown = Nothing /\ state = Nothing
  BY <1>1, <1>2 DEF Revalue!RevaluedSound, Revalue!EquityAtMarks, Revalue!CompleteIsMarked,
    Revalue!TotalsAtMids
<1>3. CASE /\ RowOK(rrow) /\ RowShown(rrow, rshown)
           /\ Delivered(delivered) /\ StateIs(delivered, state)
  <2>1. rshown.equity = Cash + Revalue!SumFunction([m \in Markets |-> Revalue!Worth(m)])
    <3>1. \A m \in Markets : WorthIn(rrow, rshown, m) = Revalue!Worth(m)
      BY DEF WorthIn, Revalue!Worth
    <3>2. [m \in Markets |-> WorthIn(rrow, rshown, m)] = [m \in Markets |-> Revalue!Worth(m)]
      BY <3>1
    <3> DEFINE w == [m \in Markets |-> Revalue!Worth(m)]
    <3>3. DOMAIN w = Markets
      OBVIOUS
    <3>4. Revalue!SumFunction(w) = Sum(w, Markets)
      <4> HIDE DEF w
      <4> QED
        BY <3>3, RevalueSum
    <3> QED
      BY <1>3, <3>2, <3>4 DEF RowShown
  <2>2. Revalue!EquityAtMarks /\ Revalue!CompleteIsMarked
    BY <1>3, <2>1 DEF Revalue!EquityAtMarks, Revalue!CompleteIsMarked, RowShown
  <2>3. Revalue!TotalsAtMids
    BY <1>1, <1>3, TotalsFollow
  <2> QED
    BY <1>1, <2>2, <2>3 DEF Revalue!RevaluedSound
<1> QED
  BY <1>2, <1>3 DEF RevalueInv

(* Figures re-marked between two deliveries: however often, and whichever  *)
(* mid prices came when, the equity of a row is what the server would give *)
(* it at the marks shown, a complete row has every mark, and the totals    *)
(* are those of what was delivered, priced once at the last mids. For      *)
(* every number of markets and every position, price and price path.       *)
THEOREM RevaluedIsSound == AlgorithmsSpec => []RevaluedSound
<1> DEFINE Inv == topic = "revalue" => RevalueInv
<1> Revalue!ConstantsOK
  BY ComputationsOK
<1>1. Revalue!Init => RevalueInv
  BY RevalueConstants DEF Revalue!Init, RevalueInv, Revalue!TypeOK
<1>2. RevalueInv /\ [Revalue!Next]_Revalue!vars => RevalueInv'
  <2>1. ASSUME RevalueInv, UNCHANGED Revalue!vars PROVE RevalueInv'
    BY <2>1 DEF Revalue!vars, RevalueInv, Revalue!TypeOK, RowOK, RowShown, WorthIn, Delivered, StateIs
  <2> QED
    BY <2>1, RevalueSteps
<1>3. RevalueInv => Revalue!RevaluedSound
  BY RevalueInvImplies
<1>4. AlgorithmsInit => Inv
  BY <1>1 DEF AlgorithmsInit
<1>5. Inv /\ [AlgorithmsNext]_algorithmVars => Inv'
  <2> SUFFICES ASSUME Inv, [AlgorithmsNext]_algorithmVars, topic' = "revalue"
               PROVE  RevalueInv'
    OBVIOUS
  <2>1. topic = "revalue" /\ [Revalue!Next]_(Revalue!vars)
    BY DEF AlgorithmsNext, algorithmVars, MoneyNext, EvidenceNext, BookNext, CacheNext, CandlesNext,
      LadderNext, RevalueNext,
      revalueVars, Revalue!vars
  <2> QED
    BY <1>2, <2>1
<1>6. Inv => RevaluedSound
  BY <1>3 DEF RevaluedSound
<1> QED
  BY <1>4, <1>5, <1>6, PTL DEF AlgorithmsSpec

-----------------------------------------------------------------------------
(* ProjectedPositions, a part of Algorithms. *)

LEMMA ProjectedSum == \A f : Projected!SumFunction(f) = Sum(f, DOMAIN f)
<1> SUFFICES ASSUME NEW f PROVE Projected!SumFunction(f) = Sum(f, DOMAIN f)
  OBVIOUS
<1>1. Projected!SumFunction(f) =
        (CHOOSE g : g = [s \in SUBSET (DOMAIN f) |->
            IF s = {} THEN 0
            ELSE f[CHOOSE x \in s : TRUE] + g[s \ {CHOOSE x \in s : TRUE}]])[DOMAIN f]
  BY DEF Projected!SumFunction, Projected!SumFunctionOnSet, Projected!FoldFunctionOnSet,
    Projected!MapThenFoldSet
<1> QED
  BY <1>1 DEF Sum, Sums, FirstOf

RowType == [qty : Int, entry : Projected!Price]

(* What holds of 0 and passes on holds up to any number. *)
LEMMA Upto ==
    ASSUME NEW N \in Nat, NEW S, 0 \in S, \A n \in 0..(N - 1) : n \in S => n + 1 \in S
    PROVE  \A n \in 0..N : n \in S
<1> DEFINE C == {n \in 0..N : n \notin S}
<1> SUFFICES ASSUME C # {} PROVE FALSE
  OBVIOUS
<1>1. PICK n \in C : \A k \in C : n <= k
  <2>1. C \in SUBSET Nat
    OBVIOUS
  <2> HIDE DEF C
  <2> QED
    BY <2>1, LeastNatural
<1>2. n # 0 /\ n \in 0..N /\ n \notin S
  OBVIOUS
<1>3. n - 1 \in 0..(N - 1) /\ n - 1 \notin C
  <2>1. n - 1 \in 0..(N - 1) /\ ~(n <= n - 1)
    BY <1>2
  <2> HIDE DEF C
  <2> QED
    BY <1>1, <2>1
<1>4. n - 1 \in S
  BY <1>2, <1>3
<1>5. (n - 1) + 1 \in S
  BY <1>3, <1>4
<1> QED
  BY <1>2, <1>5

-----------------------------------------------------------------------------
(* Rows to which changes are applied one after another. *)

(* The rows after each of N changes, of which those in E are applied. *)
Rows(r, E, delta, price, N, g) ==
    g = [n \in 0..N |-> IF n = 0 THEN r
                        ELSE IF n \in E THEN Projected!Applied(g[n - 1], delta[n], price[n])
                        ELSE g[n - 1]]

LEMMA RowsExist ==
    ASSUME NEW r, NEW E, NEW delta, NEW price, NEW N \in Nat
    PROVE  \E g : Rows(r, E, delta, price, N, g)
<1> DEFINE S == {n \in Nat : \E g : Rows(r, E, delta, price, n, g)}
<1>1. 0 \in S
  <2> DEFINE g == [n \in 0..0 |-> r]
  <2>1. \A n \in 0..0 : n = 0
    OBVIOUS
  <2>2. g = [n \in 0..0 |-> IF n = 0 THEN r
                            ELSE IF n \in E THEN Projected!Applied(g[n - 1], delta[n], price[n])
                            ELSE g[n - 1]]
    <3>1. \A n \in 0..0 : r = IF n = 0 THEN r
                            ELSE IF n \in E THEN Projected!Applied(g[n - 1], delta[n], price[n])
                            ELSE g[n - 1]
      BY <2>1
    <3> QED
      BY <3>1
  <2> HIDE DEF g
  <2>3. Rows(r, E, delta, price, 0, g)
    BY <2>2 DEF Rows
  <2> QED
    BY <2>3
<1>2. ASSUME NEW n \in 0..(N - 1), n \in S PROVE n + 1 \in S
  <2>1. PICK h : Rows(r, E, delta, price, n, h)
    BY <1>2
  <2> DEFINE g == [k \in 0..(n + 1) |-> IF k = 0 THEN r
                        ELSE IF k \in E THEN Projected!Applied(h[k - 1], delta[k], price[k])
                        ELSE h[k - 1]]
  <2>2. \A k \in 0..n : g[k] = h[k]
    BY <2>1 DEF Rows
  <2>3. \A k \in 0..(n + 1) :
           g[k] = IF k = 0 THEN r
                  ELSE IF k \in E THEN Projected!Applied(g[k - 1], delta[k], price[k])
                  ELSE g[k - 1]
    <3>1. \A k \in 0..(n + 1) : k # 0 => g[k - 1] = h[k - 1]
      <4>1. \A k \in 0..(n + 1) : k # 0 => k - 1 \in 0..n
        OBVIOUS
      <4> HIDE DEF g
      <4> QED
        BY <2>2, <4>1
    <3>2. \A k \in 0..(n + 1) :
             g[k] = IF k = 0 THEN r
                    ELSE IF k \in E THEN Projected!Applied(h[k - 1], delta[k], price[k])
                    ELSE h[k - 1]
      OBVIOUS
    <3> HIDE DEF g
    <3> QED
      BY <3>1, <3>2
  <2>4. g = [k \in 0..(n + 1) |-> g[k]]
    OBVIOUS
  <2> HIDE DEF g
  <2>5. Rows(r, E, delta, price, n + 1, g)
    BY <2>3, <2>4 DEF Rows
  <2> QED
    BY <2>5
<1>3. N \in S
  <2>1. \A n \in 0..N : n \in S
    <3> HIDE DEF S
    <3> QED
      BY <1>1, <1>2, Upto
  <2> HIDE DEF S
  <2> QED
    BY <2>1
<1> QED
  BY <1>3

(* A change to a row is a row. *)
LEMMA AppliedType ==
    ASSUME NEW r \in RowType, NEW delta \in Int, NEW price \in Projected!Price
    PROVE  /\ Projected!Applied(r, delta, price) \in RowType
           /\ Projected!Applied(r, delta, price).qty = r.qty + delta
           /\ Projected!Applied(r, delta, price).entry
                = Projected!blendedEntry(r.qty, r.entry, delta, price)
<1>1. \A n \in Int : Projected!Abs(n) \in Int
  <2> SUFFICES ASSUME NEW n \in Int PROVE Projected!Abs(n) \in Int
    OBVIOUS
  <2>1. CASE n < 0
    BY <2>1 DEF Projected!Abs
  <2>2. CASE ~(n < 0)
    BY <2>2 DEF Projected!Abs
  <2> QED
    BY <2>1, <2>2
<1>2. ASSUME r.entry # Unknown, price # Unknown
      PROVE  <<Projected!Abs(r.qty) * r.entry[1] * price[2] + Projected!Abs(delta) * price[1] * r.entry[2],
               (Projected!Abs(r.qty) + Projected!Abs(delta)) * r.entry[2] * price[2]>> \in Int \X Int
  <2>1. /\ Projected!Abs(r.qty) \in Int /\ Projected!Abs(delta) \in Int
        /\ r.entry \in Int \X Int /\ price \in Int \X Int
    BY <1>1, <1>2 DEF RowType, Projected!Price
  <2>2. /\ r.entry[1] \in Int /\ r.entry[2] \in Int /\ price[1] \in Int /\ price[2] \in Int
    BY <2>1
  <2>3. \A a, b, c, d, e, f \in Int : a * b * c + d * e * f \in Int /\ (a + b) * c * d \in Int
    OBVIOUS
  <2> QED
    BY <2>1, <2>2, <2>3
<1>3. Projected!blendedEntry(r.qty, r.entry, delta, price) \in Projected!Price
  BY <1>2 DEF Projected!blendedEntry, Projected!Price, RowType
<1> QED
  BY <1>3 DEF Projected!Applied, RowType

LEMMA RowsType ==
    ASSUME NEW r \in RowType, NEW N \in Nat, NEW E \in SUBSET (1..N), NEW delta, NEW price, NEW g,
           \A n \in E : delta[n] \in Int /\ price[n] \in Projected!Price,
           Rows(r, E, delta, price, N, g)
    PROVE  \A n \in 0..N : g[n] \in RowType
<1> DEFINE S == {n \in 0..N : g[n] \in RowType}
<1>1. 0 \in S
  BY DEF Rows
<1>2. ASSUME NEW n \in 0..(N - 1), n \in S PROVE n + 1 \in S
  <2>1. g[n + 1] = IF n + 1 \in E THEN Projected!Applied(g[n], delta[n + 1], price[n + 1]) ELSE g[n]
    BY DEF Rows
  <2>2. g[n] \in RowType /\ n + 1 \in 0..N
    BY <1>2
  <2> QED
    BY <2>1, <2>2, AppliedType
<1>3. \A n \in 0..N : n \in S
  <2> HIDE DEF S
  <2> QED
    BY <1>1, <1>2, Upto
<1> QED
  BY <1>3

(* The quantity of a row is the sum of the changes. *)
LEMMA RowsSum ==
    ASSUME NEW r \in RowType, NEW N \in Nat, NEW E \in SUBSET (1..N), NEW delta, NEW price, NEW g,
           \A n \in E : delta[n] \in Int /\ price[n] \in Projected!Price,
           Rows(r, E, delta, price, N, g)
    PROVE  g[N].qty = r.qty + Sum(delta, E)
<1> DEFINE To(n) == {e \in E : e <= n}
           S == {n \in 0..N : g[n].qty = r.qty + Sum(delta, To(n))}
<1>1. r.qty \in Int /\ IsFiniteSet(E) /\ \A e \in E : e \in Int /\ 1 <= e /\ e <= N
  <2>1. IsFiniteSet(1..N)
    BY FS_Interval
  <2>2. IsFiniteSet(E)
    BY <2>1, FS_Subset
  <2>3. \A e \in E : e \in 1..N
    OBVIOUS
  <2> QED
    BY <2>2, <2>3 DEF RowType
<1>2. 0 \in S
  <2>1. To(0) = {}
    <3>1. \A e \in E : ~(e <= 0)
      BY <1>1
    <3> QED
      BY <3>1
  <2>2. Sum(delta, To(0)) = 0
    BY <2>1, SumOfNone
  <2>3. g[0] = r
    BY DEF Rows
  <2> HIDE DEF To
  <2> QED
    BY <1>1, <2>2, <2>3
<1>3. ASSUME NEW n \in 0..(N - 1), n \in S PROVE n + 1 \in S
  <2>1. g[n + 1] = IF n + 1 \in E THEN Projected!Applied(g[n], delta[n + 1], price[n + 1]) ELSE g[n]
    BY DEF Rows
  <2>2. g[n] \in RowType /\ n + 1 \in 0..N /\ g[n].qty = r.qty + Sum(delta, To(n))
    BY <1>3, RowsType
  <2>3. IsFiniteSet(To(n)) /\ IsFiniteSet(To(n + 1))
    BY <1>1, FS_Subset
  <2>4. Sum(delta, To(n)) \in Int
    <3>1. \A e \in To(n) : delta[e] \in Int
      OBVIOUS
    <3> HIDE DEF To
    <3> QED
      BY <2>3, <3>1, SumType
  <2>5. CASE n + 1 \in E
    <3>1. n + 1 \in To(n + 1) /\ To(n + 1) \ {n + 1} = To(n)
      <4>1. \A e \in E : (e <= n + 1 /\ e # n + 1) <=> e <= n
        BY <1>1
      <4>2. n + 1 <= n + 1
        OBVIOUS
      <4> QED
        BY <2>5, <4>1, <4>2
    <3>2. \A e \in To(n + 1) : delta[e] \in Int
      OBVIOUS
    <3>3. Sum(delta, To(n + 1)) = delta[n + 1] + Sum(delta, To(n))
      <4> HIDE DEF To
      <4>1. Sum(delta, To(n + 1)) = delta[n + 1] + Sum(delta, To(n + 1) \ {n + 1})
        BY <2>3, <3>1, <3>2, SumRemove
      <4> QED
        BY <3>1, <4>1
    <3>4. g[n + 1].qty = g[n].qty + delta[n + 1] /\ delta[n + 1] \in Int
      BY <2>1, <2>2, <2>5, AppliedType
    <3> HIDE DEF To
    <3> QED
      BY <1>1, <2>2, <2>4, <3>3, <3>4
  <2>6. CASE n + 1 \notin E
    <3>1. To(n + 1) = To(n)
      <4>1. \A e \in E : e <= n + 1 <=> e <= n
        BY <1>1, <2>6
      <4> QED
        BY <4>1
    <3> HIDE DEF To
    <3> QED
      BY <2>1, <2>2, <2>6, <3>1
  <2> QED
    BY <2>5, <2>6
<1>4. \A n \in 0..N : n \in S
  <2> HIDE DEF S
  <2> QED
    BY <1>2, <1>3, Upto
<1>5. g[N].qty = r.qty + Sum(delta, To(N))
  <2>1. N \in S
    <3> HIDE DEF S
    <3> QED
      BY <1>4
  <2> HIDE DEF To
  <2> QED
    BY <2>1
<1>6. To(N) = E
  BY <1>1
<1> HIDE DEF To
<1> QED
  BY <1>5, <1>6

-----------------------------------------------------------------------------
(* Blending. A direction s is 1 or -1, and s * q is a quantity q seen in   *)
(* that direction: below zero it is held the other way.                    *)

(* What a change by k in a direction makes of a price. *)
LEMMA BlendIs ==
    ASSUME NEW s \in {1, -1}, NEW q \in Int, NEW d \in Int, s * d > 0, NEW entry, NEW price
    PROVE  LET t == s * q
               k == s * d
               new == Projected!blendedEntry(q, entry, d, price) IN
           /\ (t = 0 \/ t + k = 0 \/ (t < 0 /\ t + k > 0)) => new = price
           /\ (t < 0 /\ t + k < 0) => new = entry
           /\ (t > 0 /\ (entry = Unknown \/ price = Unknown)) => new = Unknown
           /\ (t > 0 /\ entry # Unknown /\ price # Unknown) =>
                new = <<t * entry[1] * price[2] + k * price[1] * entry[2],
                        (t + k) * entry[2] * price[2]>>
<1>1. \A n \in Int : /\ n > 0 => Projected!Sign(n) = 1 /\ Projected!Abs(n) = n
                     /\ n < 0 => Projected!Sign(n) = -1 /\ Projected!Abs(n) = -n
                     /\ n = 0 => Projected!Sign(n) = 0
  BY DEF Projected!Sign, Projected!Abs
<1>2. CASE s = 1
  <2>1. s * q = q /\ s * d = d /\ d > 0
    BY <1>2
  <2>2. Projected!Sign(d) = 1 /\ Projected!Abs(d) = d
    BY <1>1, <2>1
  <2>3. CASE q = 0 \/ q + d = 0
    BY <2>1, <2>3 DEF Projected!blendedEntry
  <2>4. CASE q < 0 /\ q + d > 0
    <3>1. Projected!Sign(q) # Projected!Sign(q + d)
      BY <1>1, <2>4
    <3> QED
      BY <2>1, <2>4, <3>1 DEF Projected!blendedEntry
  <2>5. CASE q < 0 /\ q + d < 0
    <3>1. Projected!Sign(q) = -1 /\ Projected!Sign(q + d) = -1
      BY <1>1, <2>5
    <3>2. Projected!blendedEntry(q, entry, d, price) = entry
      BY <2>2, <2>5, <3>1 DEF Projected!blendedEntry
    <3> QED
      BY <2>1, <2>5, <3>2
  <2>6. CASE q > 0
    <3>1. /\ Projected!Sign(q) = 1 /\ Projected!Sign(q + d) = 1 /\ Projected!Abs(q) = q
          /\ q # 0 /\ q + d # 0
      BY <1>1, <2>1, <2>6
    <3>2. Projected!blendedEntry(q, entry, d, price) =
            IF entry = Unknown \/ price = Unknown THEN Unknown
            ELSE <<q * entry[1] * price[2] + d * price[1] * entry[2], (q + d) * entry[2] * price[2]>>
      BY <2>2, <3>1 DEF Projected!blendedEntry
    <3> QED
      BY <2>1, <2>6, <3>2
  <2> QED
    BY <2>1, <2>3, <2>4, <2>5, <2>6
<1>3. CASE s = -1
  <2>1. s * q = -q /\ s * d = -d /\ d < 0 /\ -d \in Int /\ -q \in Int
    BY <1>3
  <2>2. Projected!Sign(d) = -1 /\ Projected!Abs(d) = -d
    BY <1>1, <2>1
  <2>3. CASE q = 0 \/ q + d = 0
    BY <2>1, <2>3 DEF Projected!blendedEntry
  <2>4. CASE q > 0 /\ q + d < 0
    <3>1. Projected!Sign(q) = 1 /\ Projected!Sign(q + d) = -1
      BY <1>1, <2>4
    <3> QED
      BY <2>1, <2>4, <3>1 DEF Projected!blendedEntry
  <2>5. CASE q > 0 /\ q + d > 0
    <3>1. Projected!Sign(q) = 1 /\ Projected!Sign(q + d) = 1
      BY <1>1, <2>5
    <3>2. Projected!blendedEntry(q, entry, d, price) = entry
      BY <2>2, <2>5, <3>1 DEF Projected!blendedEntry
    <3> QED
      BY <2>1, <2>5, <3>2
  <2>6. CASE q < 0
    <3>1. /\ Projected!Sign(q) = -1 /\ Projected!Sign(q + d) = -1 /\ Projected!Abs(q) = -q
          /\ q # 0 /\ q + d # 0
      <4>1. q + d < 0 /\ q + d \in Int
        BY <2>1, <2>6
      <4> QED
        BY <1>1, <2>6, <4>1
    <3>2. Projected!blendedEntry(q, entry, d, price) =
            IF entry = Unknown \/ price = Unknown THEN Unknown
            ELSE <<(-q) * entry[1] * price[2] + (-d) * price[1] * entry[2],
                   ((-q) + (-d)) * entry[2] * price[2]>>
      BY <2>2, <3>1 DEF Projected!blendedEntry
    <3> QED
      BY <2>1, <2>6, <3>2
  <2>7. /\ -q = 0 <=> q = 0
        /\ (-q) + (-d) = 0 <=> q + d = 0
        /\ -q < 0 <=> q > 0
        /\ -q > 0 <=> q < 0
        /\ (-q) + (-d) > 0 <=> q + d < 0
        /\ (-q) + (-d) < 0 <=> q + d > 0
    OBVIOUS
  <2> QED
    BY <2>1, <2>3, <2>4, <2>5, <2>6, <2>7
<1> QED
  BY <1>2, <1>3

-----------------------------------------------------------------------------
(* What the ledger makes of a row, one fill after another. Fill n of N is  *)
(* the fill a + n of its execution, whose first i fills cost cost[i].      *)

Folds(r, s, cost, a, N, g) ==
    g = [n \in 0..N |-> IF n = 0 THEN r
                        ELSE Projected!Folded(g[n - 1], s, cost[a + n] - cost[a + n - 1])]

LEMMA FoldsExist ==
    ASSUME NEW r, NEW s, NEW cost, NEW a, NEW N \in Nat
    PROVE  \E g : Folds(r, s, cost, a, N, g)
<1> DEFINE After(k, h) == Projected!Folded(h, s, cost[a + k] - cost[a + k - 1])
           S == {n \in Nat : \E g : Folds(r, s, cost, a, n, g)}
<1>1. 0 \in S
  <2> DEFINE g == [n \in 0..0 |-> r]
  <2>1. \A n \in 0..0 : n = 0
    OBVIOUS
  <2>2. g = [n \in 0..0 |-> IF n = 0 THEN r ELSE After(n, g[n - 1])]
    <3>1. \A n \in 0..0 : r = IF n = 0 THEN r ELSE After(n, g[n - 1])
      BY <2>1
    <3> HIDE DEF After
    <3> QED
      BY <3>1
  <2> HIDE DEF g
  <2>3. Folds(r, s, cost, a, 0, g)
    BY <2>2 DEF Folds
  <2> QED
    BY <2>3
<1>2. ASSUME NEW n \in 0..(N - 1), n \in S PROVE n + 1 \in S
  <2>1. PICK h : Folds(r, s, cost, a, n, h)
    BY <1>2
  <2>2. \A k \in 0..n : h[k] = IF k = 0 THEN r ELSE After(k, h[k - 1])
    BY <2>1 DEF Folds
  <2> HIDE DEF After
  <2> DEFINE g == [k \in 0..(n + 1) |-> IF k = 0 THEN r ELSE After(k, h[k - 1])]
  <2>3. \A k \in 0..n : g[k] = h[k]
    BY <2>2
  <2>4. \A k \in 0..(n + 1) : g[k] = IF k = 0 THEN r ELSE After(k, g[k - 1])
    <3>1. \A k \in 0..(n + 1) : k # 0 => g[k - 1] = h[k - 1]
      <4>1. \A k \in 0..(n + 1) : k # 0 => k - 1 \in 0..n
        OBVIOUS
      <4> HIDE DEF g
      <4> QED
        BY <2>3, <4>1
    <3>2. \A k \in 0..(n + 1) : g[k] = IF k = 0 THEN r ELSE After(k, h[k - 1])
      OBVIOUS
    <3> HIDE DEF g
    <3> QED
      BY <3>1, <3>2
  <2>5. g = [k \in 0..(n + 1) |-> g[k]]
    OBVIOUS
  <2> HIDE DEF g
  <2>6. g = [k \in 0..(n + 1) |-> IF k = 0 THEN r ELSE After(k, g[k - 1])]
    BY <2>4, <2>5
  <2>7. Folds(r, s, cost, a, n + 1, g)
    BY <2>6 DEF Folds, After
  <2> QED
    BY <2>7
<1>3. \A n \in 0..N : n \in S
  <2> HIDE DEF S
  <2> QED
    BY <1>1, <1>2, Upto
<1>4. N \in S
  <2> HIDE DEF S
  <2> QED
    BY <1>3
<1> QED
  BY <1>4

(* What one fill in a direction makes of a row. *)
LEMMA FoldedIs ==
    ASSUME NEW s \in {1, -1}, NEW x \in RowType, NEW p \in Int, Unknown \notin Int \X Int
    PROVE  LET u == s * x.qty
               y == Projected!Folded(x, s, p) IN
           /\ u \in Int /\ y \in RowType /\ y.qty = x.qty + s /\ s * y.qty = u + 1
           /\ u = 0 => y.entry = <<p, 1>>
           /\ u < 0 /\ u + 1 < 0 => y.entry = x.entry
           /\ u > 0 => y.entry = IF x.entry = Unknown THEN Unknown
                                 ELSE <<u * x.entry[1] + p * x.entry[2], (u + 1) * x.entry[2]>>
<1> DEFINE y == Projected!Folded(x, s, p)
           u == s * x.qty
           e == x.entry
<1>1. x.qty \in Int /\ s \in Int /\ s * s = 1 /\ (e # Unknown => e \in Int \X Int)
  BY DEF RowType, Projected!Price
<1>2. /\ u \in Int /\ (u = 0 <=> x.qty = 0) /\ (u + 1 = 0 <=> x.qty + s = 0)
      /\ u > 0 => Projected!Sign(x.qty) = s /\ Projected!Abs(x.qty) = u
      /\ u < 0 => Projected!Sign(x.qty) # s
  <2>1. CASE s = 1
    BY <1>1, <2>1 DEF Projected!Sign, Projected!Abs
  <2>2. CASE s = -1
    <3>1. u = -x.qty
      BY <1>1, <2>2
    <3> QED
      BY <1>1, <2>2, <3>1 DEF Projected!Sign, Projected!Abs
  <2> QED
    BY <2>1, <2>2
<1>3. y.qty = x.qty + s /\ s * y.qty = u + 1
  <2>1. y.qty = x.qty + s
    BY DEF Projected!Folded
  <2>2. CASE s = 1
    BY <1>1, <2>1, <2>2
  <2>3. CASE s = -1
    BY <1>1, <2>1, <2>3
  <2> QED
    BY <2>1, <2>2, <2>3
<1>4. y.entry = IF u = 0 THEN <<p, 1>>
                ELSE IF u + 1 = 0 \/ e = Unknown THEN Unknown
                ELSE IF Projected!Sign(x.qty) # s THEN e
                ELSE <<Projected!Abs(x.qty) * e[1] + p * e[2], (Projected!Abs(x.qty) + 1) * e[2]>>
  <2> HIDE DEF u
  <2> QED
    BY <1>2 DEF Projected!Folded
<1>5. e # Unknown /\ u > 0 => <<u * e[1] + p * e[2], (u + 1) * e[2]>> \in Int \X Int
  <2>1. \A a, b, c, d \in Int : a * b + c * d \in Int /\ (a + 1) * d \in Int
    OBVIOUS
  <2>2. e # Unknown => e[1] \in Int /\ e[2] \in Int
    BY <1>1
  <2> HIDE DEF u, e
  <2> QED
    BY <1>2, <2>1, <2>2
<1> HIDE DEF u
<1>6. /\ u = 0 => y.entry = <<p, 1>>
      /\ u < 0 /\ u + 1 < 0 => y.entry = e
      /\ u > 0 => y.entry = IF e = Unknown THEN Unknown
                            ELSE <<u * e[1] + p * e[2], (u + 1) * e[2]>>
      /\ u < 0 /\ u + 1 = 0 => y.entry = Unknown
  <2> HIDE DEF y, e
  <2> QED
    BY <1>2, <1>4
<1>7. y.entry \in Projected!Price
  <2>1. u = 0 \/ u > 0 \/ (u < 0 /\ u + 1 < 0) \/ (u < 0 /\ u + 1 = 0)
    BY <1>2
  <2> HIDE DEF y, e
  <2> QED
    BY <1>1, <1>5, <1>6, <2>1 DEF Projected!Price
<1>8. y \in RowType
  <2>1. y = [qty |-> y.qty, entry |-> y.entry]
    BY DEF Projected!Folded
  <2> QED
    BY <1>1, <1>3, <1>7, <2>1 DEF RowType
<1> QED
  BY <1>2, <1>3, <1>6, <1>8 DEF u

(* A row x that n fills in a direction have made of r: they first reduce   *)
(* what is held the other way, and what they then hold costs what they do. *)
SettledIs(s, r, cost, a, n, x) ==
    LET t == s * r.qty IN
    /\ s * x.qty = t + n
    /\ (t < 0 /\ t + n < 0) => x.entry = r.entry
    /\ (t <= 0 /\ t + n > 0) =>
          /\ x.entry \in Int \X Int
          /\ (cost[a + n] - cost[a - t]) * x.entry[2] = x.entry[1] * (t + n)
    /\ t > 0 =>
          IF r.entry = Unknown THEN x.entry = Unknown
          ELSE /\ x.entry \in Int \X Int
               /\ (t * r.entry[1] + (cost[a + n] - cost[a]) * r.entry[2]) * x.entry[2]
                    = x.entry[1] * ((t + n) * r.entry[2])

LEMMA SettledStep ==
    ASSUME NEW s \in {1, -1}, NEW r \in RowType, Unknown \notin Int \X Int,
           NEW a \in Nat, NEW n \in Nat, NEW cost, \A i \in 0..(a + n + 1) : cost[i] \in Int,
           NEW x \in RowType, SettledIs(s, r, cost, a, n, x),
           NEW y, y = Projected!Folded(x, s, cost[a + (n + 1)] - cost[a + (n + 1) - 1])
    PROVE  SettledIs(s, r, cost, a, n + 1, y)
<1> DEFINE t == s * r.qty
           u == s * x.qty
           e == x.entry
           f == y.entry
           p == cost[a + (n + 1)] - cost[a + n]
<1>1. cost[a + (n + 1)] \in Int /\ cost[a + n] \in Int /\ cost[a] \in Int /\ p \in Int
  <2>1. a + (n + 1) \in 0..(a + n + 1) /\ a + n \in 0..(a + n + 1) /\ a \in 0..(a + n + 1)
    OBVIOUS
  <2> QED
    BY <2>1
<1>2. t \in Int
  <2>1. r.qty \in Int
    BY DEF RowType
  <2>2. CASE s = 1
    BY <2>1, <2>2
  <2>3. CASE s = -1
    BY <2>1, <2>3
  <2> QED
    BY <2>2, <2>3
<1>3. y = Projected!Folded(x, s, p)
  <2>1. a + (n + 1) - 1 = a + n
    OBVIOUS
  <2> QED
    BY <2>1
<1>4. /\ s * y.qty = u + 1
      /\ u = 0 => f = <<p, 1>>
      /\ u < 0 /\ u + 1 < 0 => f = e
      /\ u > 0 => f = IF e = Unknown THEN Unknown ELSE <<u * e[1] + p * e[2], (u + 1) * e[2]>>
  <2> HIDE DEF p
  <2> QED
    BY <1>1, <1>3, FoldedIs
<1>5. /\ u = t + n
      /\ (t < 0 /\ t + n < 0) => e = r.entry
      /\ (t <= 0 /\ t + n > 0) =>
            /\ e \in Int \X Int
            /\ (cost[a + n] - cost[a - t]) * e[2] = e[1] * (t + n)
      /\ t > 0 =>
            IF r.entry = Unknown THEN e = Unknown
            ELSE /\ e \in Int \X Int
                 /\ (t * r.entry[1] + (cost[a + n] - cost[a]) * r.entry[2]) * e[2]
                      = e[1] * ((t + n) * r.entry[2])
  BY DEF SettledIs
<1>6. r.entry # Unknown => r.entry \in Int \X Int /\ r.entry[1] \in Int /\ r.entry[2] \in Int
  BY DEF RowType, Projected!Price
<1>7. (t <= 0 /\ t + n >= 0) => cost[a - t] \in Int
  <2>1. (t <= 0 /\ t + n >= 0) => a - t \in 0..(a + n + 1)
    <3> HIDE DEF t
    <3> QED
      BY <1>2
  <2> QED
    BY <2>1
<1> DEFINE c == cost[a + n]
           c1 == cost[a + (n + 1)]
           b == cost[a - t]
           c0 == cost[a]
<1>8. p = c1 - c
  OBVIOUS
<1> HIDE DEF t, u, e, f, p, c, c1, b, c0
<1>9. (t < 0 /\ t + (n + 1) < 0) => f = r.entry
  BY <1>2, <1>4, <1>5
<1>10. (t <= 0 /\ t + (n + 1) > 0) =>
          f \in Int \X Int /\ (c1 - b) * f[2] = f[1] * (t + (n + 1))
  <2> SUFFICES ASSUME t <= 0, t + (n + 1) > 0
               PROVE  f \in Int \X Int /\ (c1 - b) * f[2] = f[1] * (t + (n + 1))
    OBVIOUS
  <2>1. c \in Int /\ c1 \in Int /\ b \in Int /\ p \in Int
    BY <1>1, <1>2, <1>7 DEF c, c1, b
  <2>2. CASE u = 0
    <3>1. a - t = a + n /\ t + (n + 1) = 1
      BY <1>2, <1>5, <2>2
    <3>2. b = c
      BY <3>1 DEF b, c
    <3>3. f = <<p, 1>>
      BY <1>4, <2>2
    <3> QED
      BY <1>8, <2>1, <3>1, <3>2, <3>3
  <2>3. CASE u # 0
    <3>1. u > 0 /\ t + n > 0 /\ u = t + n /\ t + (n + 1) = u + 1 /\ u \in Int
      BY <1>2, <1>5, <2>3
    <3>2. e \in Int \X Int /\ (c - b) * e[2] = e[1] * u
      BY <1>5, <3>1 DEF c, b
    <3>3. e # Unknown /\ e[1] \in Int /\ e[2] \in Int
      BY <3>2
    <3>4. f = <<u * e[1] + p * e[2], (u + 1) * e[2]>>
      BY <1>4, <3>1, <3>3
    <3> DEFINE i == e[1]
               j == e[2]
    <3>5. i \in Int /\ j \in Int /\ (c - b) * j = i * u /\ f = <<u * i + p * j, (u + 1) * j>>
      BY <3>2, <3>3, <3>4
    <3> HIDE DEF i, j
    <3>6. u * i + p * j \in Int /\ (u + 1) * j \in Int
      BY <2>1, <3>1, <3>5
    <3>7. (c1 - b) * ((u + 1) * j) = (u * i + p * j) * (u + 1)
      <4>1. (c1 - b) * ((u + 1) * j) = (u + 1) * ((c - b) * j) + (u + 1) * (p * j)
        <5>1. c1 = c + p
          BY <1>8, <2>1
        <5> QED
          BY <2>1, <3>1, <3>5, <5>1
      <4>2. (u * i + p * j) * (u + 1) = (u + 1) * (i * u) + (u + 1) * (p * j)
        BY <2>1, <3>1, <3>5
      <4> QED
        BY <3>5, <4>1, <4>2
    <3> QED
      BY <3>1, <3>5, <3>6, <3>7
  <2> QED
    BY <2>2, <2>3
<1>11. t > 0 =>
          IF r.entry = Unknown THEN f = Unknown
          ELSE /\ f \in Int \X Int
               /\ (t * r.entry[1] + (c1 - c0) * r.entry[2]) * f[2]
                    = f[1] * ((t + (n + 1)) * r.entry[2])
  <2>1. ASSUME t > 0, r.entry = Unknown PROVE f = Unknown
    BY <1>2, <1>4, <1>5, <2>1
  <2>2. ASSUME t > 0, r.entry # Unknown
        PROVE  /\ f \in Int \X Int
               /\ (t * r.entry[1] + (c1 - c0) * r.entry[2]) * f[2]
                    = f[1] * ((t + (n + 1)) * r.entry[2])
    <3> DEFINE g == r.entry[1]
               h == r.entry[2]
               i == e[1]
               j == e[2]
    <3>1. u > 0 /\ u = t + n /\ u \in Int /\ t + (n + 1) = u + 1
      BY <1>2, <1>5, <2>2
    <3>2. e \in Int \X Int /\ (t * g + (c - c0) * h) * j = i * (u * h)
      BY <1>5, <2>2, <3>1 DEF c, c0
    <3>3. /\ g \in Int /\ h \in Int /\ i \in Int /\ j \in Int /\ p \in Int
          /\ c \in Int /\ c0 \in Int /\ c1 \in Int
      BY <1>1, <1>6, <2>2, <3>2 DEF c, c0, c1
    <3>4. f = <<u * i + p * j, (u + 1) * j>>
      BY <1>4, <3>1, <3>2
    <3> HIDE DEF g, h, i, j
    <3>5. u * i + p * j \in Int /\ (u + 1) * j \in Int
      BY <3>1, <3>3
    <3>6. (t * g + (c1 - c0) * h) * ((u + 1) * j) = (u * i + p * j) * ((u + 1) * h)
      <4> DEFINE H == t * g + (c - c0) * h
      <4>1. (t * g + (c1 - c0) * h) * ((u + 1) * j) = (u + 1) * (H * j) + (u + 1) * (p * h * j)
        <5>1. c1 = c + p
          BY <1>8, <3>3
        <5> QED
          BY <1>2, <3>1, <3>3, <5>1
      <4>2. (u * i + p * j) * ((u + 1) * h) = (u + 1) * (i * (u * h)) + (u + 1) * (p * h * j)
        BY <3>1, <3>3
      <4> HIDE DEF H
      <4> QED
        BY <3>2, <4>1, <4>2 DEF H
    <3> QED
      BY <3>1, <3>4, <3>5, <3>6 DEF g, h
  <2> QED
    BY <2>1, <2>2
<1>12. s * y.qty = t + (n + 1)
  BY <1>2, <1>4, <1>5
<1> QED
  BY <1>9, <1>10, <1>11, <1>12 DEF SettledIs, t, f, c1, b, c0

(* Blending what is left at once, at the average of the whole execution,   *)
(* is blending it fill by fill.                                            *)
LEMMA PriceAsSettled ==
    ASSUME NEW s \in {1, -1}, NEW r \in RowType, Unknown \notin Int \X Int,
           NEW N \in Nat, N # 0, NEW a \in Nat, NEW cost, \A i \in 0..(a + N) : cost[i] \in Int,
           cost[0] = 0, NEW g, Folds(r, s, cost, a, N, g), r.qty + s * N # 0,
           NEW p, \/ s * r.qty + N < 0
                  \/ /\ p = <<cost[a + N], a + N>>
                     /\ \/ \A i \in 1..(a + N) : cost[i] = i * cost[1]
                        \/ a = 0 /\ s * r.qty >= 0
    PROVE  Projected!SamePrice(Projected!blendedEntry(r.qty, r.entry, s * N, p), g[N].entry)
<1> DEFINE t == s * r.qty
           S == {n \in 0..N : g[n] \in RowType /\ SettledIs(s, r, cost, a, n, g[n])}
<1>1. t \in Int /\ r.qty \in Int /\ t + N # 0 /\ s * N \in Int /\ s * (s * N) = N
  <2>1. r.qty \in Int
    BY DEF RowType
  <2>2. CASE s = 1
    BY <2>1, <2>2
  <2>3. CASE s = -1
    BY <2>1, <2>3
  <2> QED
    BY <2>1, <2>2, <2>3
<1>2. r.entry # Unknown => r.entry \in Int \X Int /\ r.entry[1] \in Int /\ r.entry[2] \in Int
  BY DEF RowType, Projected!Price
<1>3. 0 \in S
  <2>1. g[0] = r
    BY DEF Folds
  <2>2. t > 0 /\ r.entry # Unknown =>
          (t * r.entry[1] + (cost[a + 0] - cost[a]) * r.entry[2]) * r.entry[2]
             = r.entry[1] * ((t + 0) * r.entry[2])
    <3>1. cost[a] \in Int /\ a + 0 = a
      OBVIOUS
    <3>2. \A i, j, k, m \in Int : (i * j + (k - k) * m) * m = j * ((i + 0) * m)
      OBVIOUS
    <3> HIDE DEF t
    <3> QED
      BY <1>1, <1>2, <3>1, <3>2
  <2>3. SettledIs(s, r, cost, a, 0, r)
    BY <1>1, <1>2, <2>2 DEF SettledIs
  <2> QED
    BY <2>1, <2>3
<1>4. ASSUME NEW n \in 0..(N - 1), n \in S PROVE n + 1 \in S
  <2>1. n + 1 \in 1..N /\ n + 1 # 0 /\ n \in Nat /\ (n + 1) - 1 = n
    OBVIOUS
  <2>2. g[n + 1] = Projected!Folded(g[n], s, cost[a + (n + 1)] - cost[a + (n + 1) - 1])
    BY <2>1 DEF Folds
  <2>3. g[n] \in RowType /\ SettledIs(s, r, cost, a, n, g[n])
    BY <1>4
  <2>4. \A i \in 0..(a + n + 1) : cost[i] \in Int
    BY <2>1
  <2>5. SettledIs(s, r, cost, a, n + 1, g[n + 1])
    BY <2>1, <2>2, <2>3, <2>4, SettledStep
  <2>6. g[n + 1] \in RowType
    <3> DEFINE p1 == cost[a + (n + 1)] - cost[a + (n + 1) - 1]
               x1 == g[n]
    <3>1. p1 \in Int
      <4>1. a + (n + 1) \in 0..(a + N) /\ a + (n + 1) - 1 \in 0..(a + N)
        BY <2>1
      <4>2. cost[a + (n + 1)] \in Int /\ cost[a + (n + 1) - 1] \in Int
        BY <4>1
      <4> QED
        BY <4>2
    <3>2. g[n + 1] = Projected!Folded(x1, s, p1) /\ x1 \in RowType
      BY <2>2, <2>3
    <3> HIDE DEF p1, x1
    <3>3. Projected!Folded(x1, s, p1) \in RowType
      BY <3>1, <3>2, FoldedIs
    <3> QED
      BY <3>2, <3>3
  <2> QED
    BY <2>1, <2>5, <2>6
<1>5. \A n \in 0..N : n \in S
  <2> HIDE DEF S
  <2> QED
    BY <1>3, <1>4, Upto
<1>6. SettledIs(s, r, cost, a, N, g[N])
  BY <1>5
<1> DEFINE once == Projected!blendedEntry(r.qty, r.entry, s * N, p)
           x == g[N].entry
           c == cost[a + N]
<1>7. /\ (t = 0 \/ (t < 0 /\ t + N > 0)) => once = p
      /\ (t < 0 /\ t + N < 0) => once = r.entry
      /\ (t > 0 /\ (r.entry = Unknown \/ p = Unknown)) => once = Unknown
      /\ (t > 0 /\ r.entry # Unknown /\ p # Unknown) =>
           once = <<t * r.entry[1] * p[2] + N * p[1] * r.entry[2], (t + N) * r.entry[2] * p[2]>>
  <2> DEFINE d == s * N
  <2>1. d \in Int /\ s * d = N /\ s * d > 0
    BY <1>1
  <2> HIDE DEF d
  <2>2. once = Projected!blendedEntry(r.qty, r.entry, d, p)
    BY DEF d
  <2>3. /\ (t = 0 \/ t + s * d = 0 \/ (t < 0 /\ t + s * d > 0)) => once = p
        /\ (t < 0 /\ t + s * d < 0) => once = r.entry
        /\ (t > 0 /\ (r.entry = Unknown \/ p = Unknown)) => once = Unknown
        /\ (t > 0 /\ r.entry # Unknown /\ p # Unknown) =>
             once = <<t * r.entry[1] * p[2] + (s * d) * p[1] * r.entry[2],
                      (t + s * d) * r.entry[2] * p[2]>>
    <3> HIDE DEF once
    <3> QED
      BY <1>1, <2>1, <2>2, BlendIs
  <2> HIDE DEF once, t
  <2> QED
    BY <2>1, <2>3
<1>8. /\ (t < 0 /\ t + N < 0) => x = r.entry
      /\ (t <= 0 /\ t + N > 0) =>
            x \in Int \X Int /\ (c - cost[a - t]) * x[2] = x[1] * (t + N)
      /\ t > 0 =>
            IF r.entry = Unknown THEN x = Unknown
            ELSE /\ x \in Int \X Int
                 /\ (t * r.entry[1] + (c - cost[a]) * r.entry[2]) * x[2]
                      = x[1] * ((t + N) * r.entry[2])
  BY <1>6 DEF SettledIs
<1>9. /\ c \in Int /\ cost[a] \in Int /\ cost[1] \in Int /\ a + N \in Int /\ a + N > 0
      /\ (t <= 0 /\ t + N > 0) => cost[a - t] \in Int
  <2>1. a + N \in 0..(a + N) /\ a \in 0..(a + N) /\ 1 \in 0..(a + N)
    OBVIOUS
  <2>2. (t <= 0 /\ t + N > 0) => a - t \in 0..(a + N)
    <3> HIDE DEF t
    <3> QED
      BY <1>1
  <2> QED
    BY <2>1, <2>2
<1> DEFINE One == \A i \in 1..(a + N) : cost[i] = i * cost[1]
<1>10. One => /\ c = (a + N) * cost[1] /\ cost[a] = a * cost[1]
              /\ (t <= 0 /\ t + N > 0) => cost[a - t] = (a - t) * cost[1]
  <2> SUFFICES ASSUME One
               PROVE  /\ c = (a + N) * cost[1] /\ cost[a] = a * cost[1]
                      /\ (t <= 0 /\ t + N > 0) => cost[a - t] = (a - t) * cost[1]
    OBVIOUS
  <2>1. \A i \in 0..(a + N) : cost[i] = i * cost[1]
    <3>1. 0 * cost[1] = 0
      BY <1>9
    <3> QED
      BY <3>1
  <2>2. a + N \in 0..(a + N) /\ a \in 0..(a + N)
    OBVIOUS
  <2>3. (t <= 0 /\ t + N > 0) => a - t \in 0..(a + N)
    <3> HIDE DEF t, One
    <3> QED
      BY <1>1
  <2> QED
    BY <2>1, <2>2, <2>3
<1>11. \/ t + N < 0
       \/ p = <<c, a + N>> /\ (One \/ (a = 0 /\ t >= 0))
  OBVIOUS
<1> DEFINE b == cost[a - t]
           c0 == cost[a]
           v == cost[1]
<1>12. a = 0 => c0 = 0
  OBVIOUS
<1>13. a = 0 /\ t = 0 => b = 0
  OBVIOUS
<1>14. p = <<c, a + N>> => p # Unknown /\ p[1] = c /\ p[2] = a + N
  <2> HIDE DEF c
  <2> QED
    BY <1>9
<1> HIDE DEF t, once, x, c, One, b, c0, v
<1>15. Projected!SamePrice(once, x)
  <2>1. CASE t + N < 0
    <3>1. t < 0
      BY <1>1, <2>1
    <3> QED
      BY <1>7, <1>8, <2>1, <3>1 DEF Projected!SamePrice
  <2>2. CASE t <= 0 /\ t + N > 0
    <3>1. /\ once = p /\ x \in Int \X Int /\ (c - b) * x[2] = x[1] * (t + N)
          /\ p = <<c, a + N>> /\ (One \/ (a = 0 /\ t = 0))
      BY <1>1, <1>7, <1>8, <1>11, <2>2 DEF b
    <3>2. x # Unknown /\ x[1] \in Int /\ x[2] \in Int /\ c \in Int /\ b \in Int /\ v \in Int
      BY <1>9, <2>2, <3>1 DEF b, v
    <3>3. c * x[2] = x[1] * (a + N)
      <4>1. CASE a = 0 /\ t = 0
        BY <1>13, <3>1, <3>2, <4>1
      <4>2. CASE One
        <5> DEFINE i == x[1]
                   j == x[2]
                   k == t + N
        <5>1. c = (a + N) * v /\ b = (a - t) * v
          BY <1>10, <2>2, <4>2 DEF b, v
        <5>2. i \in Int /\ j \in Int /\ k \in Int /\ k # 0 /\ (c - b) * j = i * k
          BY <1>1, <2>2, <3>1, <3>2
        <5>3. (c - b) * j = k * (v * j)
          <6>1. ((a + N) * v - (a - t) * v) * j = (t + N) * (v * j)
            BY <1>1, <3>2, <5>2
          <6> QED
            BY <5>1, <6>1
        <5> HIDE DEF i, j, k
        <5>4. v * j = i
          <6>1. v * j \in Int /\ k * (v * j) = k * i
            BY <3>2, <5>2, <5>3
          <6>2. \A m, n \in Int : k * m = k * n => m = n
            BY <5>2
          <6> QED
            BY <5>2, <6>1, <6>2
        <5>5. (a + N) * v * j = (v * j) * (a + N)
          BY <1>9, <3>2, <5>2
        <5>6. c * j = i * (a + N)
          BY <5>1, <5>4, <5>5
        <5> QED
          BY <5>6 DEF i, j
      <4> QED
        BY <3>1, <4>1, <4>2
    <3> QED
      BY <1>14, <3>1, <3>2, <3>3 DEF Projected!SamePrice
  <2>3. CASE t > 0 /\ r.entry = Unknown
    BY <1>7, <1>8, <2>3 DEF Projected!SamePrice
  <2>4. CASE t > 0 /\ r.entry # Unknown
    <3> DEFINE g1 == r.entry[1]
               h1 == r.entry[2]
               i == x[1]
               j == x[2]
               M == a + N
               D == c - c0
    <3>1. /\ p = <<c, M>> /\ (One \/ a = 0) /\ p # Unknown /\ p[1] = c /\ p[2] = M
          /\ x \in Int \X Int /\ (t * g1 + D * h1) * j = i * ((t + N) * h1)
      BY <1>1, <1>8, <1>11, <1>14, <2>4 DEF c0
    <3>2. /\ g1 \in Int /\ h1 \in Int /\ i \in Int /\ j \in Int /\ M \in Int /\ c \in Int
          /\ c0 \in Int /\ v \in Int /\ D \in Int
      BY <1>2, <1>9, <2>4, <3>1 DEF c0, v
    <3>3. once = <<t * g1 * M + N * c * h1, (t + N) * h1 * M>>
      BY <1>7, <2>4, <3>1
    <3>4. N * c = D * M
      <4>1. CASE a = 0
        BY <1>12, <3>2, <4>1
      <4>2. CASE One
        <5>1. c = M * v /\ c0 = a * v
          BY <1>10, <4>2 DEF c0, v
        <5>2. N * (M * v) = (M * v - a * v) * M
          BY <3>2
        <5> QED
          BY <5>1, <5>2
      <4> QED
        BY <3>1, <4>1, <4>2
    <3> HIDE DEF g1, h1, i, j, M, D
    <3>5. t * g1 * M + N * c * h1 \in Int /\ (t + N) * h1 * M \in Int
      BY <1>1, <3>2
    <3>6. (t * g1 * M + N * c * h1) * j = i * ((t + N) * h1 * M)
      <4>1. (t * g1 * M + (D * M) * h1) * j = M * ((t * g1 + D * h1) * j)
        BY <1>1, <3>2
      <4>2. i * ((t + N) * h1 * M) = M * (i * ((t + N) * h1))
        BY <1>1, <3>2
      <4> QED
        BY <3>1, <3>4, <4>1, <4>2
    <3>7. once # Unknown /\ once[1] = t * g1 * M + N * c * h1 /\ once[2] = (t + N) * h1 * M
      BY <3>3, <3>5
    <3>8. x # Unknown
      BY <3>1
    <3> QED
      BY <3>6, <3>7, <3>8 DEF Projected!SamePrice, i, j
  <2> QED
    BY <1>1, <2>1, <2>2, <2>3, <2>4
<1> QED
  BY <1>15 DEF once, x

-----------------------------------------------------------------------------
(* The book. *)

Here(m) == {e \in DOMAIN plan : plan[e].market = m}

(* What the ledger has folded of each execution. *)
Recorded == [e \in DOMAIN plan |-> plan[e].sign * accounted[e]]

(* A quantity of the ledger is what was held and what it has folded. *)
BookInv ==
    /\ Projected!TypeOK
    /\ \A m \in Markets : bledger[m].qty = start[m] + Sum(Recorded, Here(m))

LEMMA ElementIs ==
    ASSUME NEW R, NEW q \in Seq(R), NEW i \in DOMAIN q
    PROVE  q[i] \in R
OBVIOUS

LEMMA PlanIs ==
    ASSUME Projected!ConstantsOK, Projected!TypeOK
    PROVE  /\ Len(plan) \in Nat /\ DOMAIN plan = 1..Len(plan) /\ IsFiniteSet(DOMAIN plan)
           /\ Unknown \notin Int \X Int
           /\ \A m \in Markets : start[m] \in Int /\ bledger[m] \in RowType
           /\ \A e \in DOMAIN plan :
                /\ plan[e].market \in Markets /\ plan[e].sign \in {1, -1}
                /\ plan[e].priced \in BOOLEAN /\ Projected!Size(e) \in Nat
                /\ \A n \in 0..Projected!Size(e) : Projected!Paid(e, n) \in Int
                /\ bexecuted[e] \in Nat /\ accounted[e] \in Nat /\ accounted[e] <= bexecuted[e]
                /\ bexecuted[e] <= Projected!Size(e) /\ Projected!AveragePrice(e) \in Projected!Price
                /\ plan[e].sign * accounted[e] \in Int /\ plan[e].sign * bexecuted[e] \in Int
                /\ Projected!SignedUnaccounted(e) = plan[e].sign * (bexecuted[e] - accounted[e])
                /\ Projected!SignedUnaccounted(e) \in Int
                /\ plan[e].sign * bexecuted[e]
                     = plan[e].sign * accounted[e] + Projected!SignedUnaccounted(e)
<1>1. plan \in Seq([market : Markets, sign : {1, -1}, paid : Seq(Int), priced : BOOLEAN])
  BY DEF Projected!ConstantsOK, Projected!TypeOK
<1>2. Len(plan) \in Nat /\ DOMAIN plan = 1..Len(plan)
  BY <1>1
<1>3. IsFiniteSet(DOMAIN plan)
  BY <1>2, FS_Interval
<1>4. \A m \in Markets : start[m] \in Int /\ bledger[m] \in RowType
  BY DEF Projected!ConstantsOK, Projected!TypeOK, RowType
<1>5. ASSUME NEW e \in DOMAIN plan
      PROVE  /\ plan[e].market \in Markets /\ plan[e].sign \in {1, -1}
             /\ plan[e].priced \in BOOLEAN /\ Projected!Size(e) \in Nat
             /\ \A n \in 0..Projected!Size(e) : Projected!Paid(e, n) \in Int
             /\ bexecuted[e] \in Nat /\ accounted[e] \in Nat /\ accounted[e] <= bexecuted[e]
             /\ bexecuted[e] <= Projected!Size(e) /\ Projected!AveragePrice(e) \in Projected!Price
             /\ plan[e].sign * accounted[e] \in Int /\ plan[e].sign * bexecuted[e] \in Int
             /\ Projected!SignedUnaccounted(e) = plan[e].sign * (bexecuted[e] - accounted[e])
             /\ Projected!SignedUnaccounted(e) \in Int
             /\ plan[e].sign * bexecuted[e]
                  = plan[e].sign * accounted[e] + Projected!SignedUnaccounted(e)
  <2>1. plan[e] \in [market : Markets, sign : {1, -1}, paid : Seq(Int), priced : BOOLEAN]
    BY <1>1, ElementIs
  <2>2. bexecuted[e] \in Nat /\ accounted[e] \in Nat /\ accounted[e] <= bexecuted[e]
    BY DEF Projected!TypeOK, Projected!Executions
  <2>3. \A s \in Int : \A a, b \in Nat :
           s * a \in Int /\ s * b \in Int /\ s * (a - b) \in Int /\ s * a = s * b + s * (a - b)
    OBVIOUS
  <2>4. Projected!SignedUnaccounted(e) = plan[e].sign * (bexecuted[e] - accounted[e])
    BY DEF Projected!SignedUnaccounted
  <2>5. plan[e].sign \in {1, -1} /\ plan[e].sign \in Int
    BY <2>1
  <2>6. /\ Projected!Size(e) \in Nat
        /\ \A n \in 0..Projected!Size(e) : Projected!Paid(e, n) \in Int
    BY <2>1 DEF Projected!Size, Projected!Paid
  <2>7. bexecuted[e] <= Projected!Size(e)
    BY DEF Projected!TypeOK, Projected!Executions
  <2>8. Projected!AveragePrice(e) \in Projected!Price
    <3>1. bexecuted[e] \in 0..Projected!Size(e)
      BY <2>2, <2>6, <2>7
    <3> QED
      BY <2>2, <2>6, <3>1 DEF Projected!AveragePrice, Projected!Price
  <2>9. /\ plan[e].sign * accounted[e] \in Int /\ plan[e].sign * bexecuted[e] \in Int
        /\ Projected!SignedUnaccounted(e) \in Int
        /\ plan[e].sign * bexecuted[e]
             = plan[e].sign * accounted[e] + Projected!SignedUnaccounted(e)
    BY <2>2, <2>3, <2>4, <2>5
  <2>10. plan[e].market \in Markets /\ plan[e].priced \in BOOLEAN
    BY <2>1
  <2> QED
    BY <2>2, <2>4, <2>5, <2>6, <2>7, <2>8, <2>9, <2>10, Zenon
<1>6. Unknown \notin Int \X Int
  BY DEF Projected!ConstantsOK
<1> QED
  BY <1>2, <1>3, <1>4, <1>5, <1>6

LEMMA BookSteps ==
    ASSUME Projected!ConstantsOK, BookInv, Projected!Next
    PROVE  BookInv'
<1>1. Projected!TypeOK /\ \A m \in Markets : bledger[m].qty = start[m] + Sum(Recorded, Here(m))
  BY DEF BookInv
<1>2. PICK e \in DOMAIN plan : Projected!VenueFills(e) \/ Projected!LedgerFolds(e)
  BY DEF Projected!Next, Projected!Executions
<1>3. CASE Projected!VenueFills(e)
  <2>1. /\ bexecuted[e] < Projected!Size(e) /\ bexecuted' = [bexecuted EXCEPT ![e] = @ + 1]
        /\ UNCHANGED <<plan, start, accounted, bledger, malformed>>
    BY <1>3 DEF Projected!VenueFills
  <2>2. Projected!TypeOK'
    <3>1. Projected!Size(e) \in Nat
      BY <1>1, PlanIs
    <3>2. /\ plan \in Plans /\ malformed \subseteq DOMAIN plan
          /\ start \in [Markets -> Starts] /\ bledger \in [Markets -> [qty : Int, entry : Projected!Price]]
          /\ bexecuted \in [DOMAIN plan -> Nat] /\ accounted \in [DOMAIN plan -> Nat]
          /\ \A k \in DOMAIN plan : accounted[k] <= bexecuted[k] /\ bexecuted[k] <= Projected!Size(k)
      BY <1>1 DEF Projected!TypeOK, Projected!Executions
    <3>3. /\ bexecuted' \in [DOMAIN plan -> Nat]
          /\ \A k \in DOMAIN plan : accounted[k] <= bexecuted'[k] /\ bexecuted'[k] <= Projected!Size(k)
      BY <2>1, <3>1, <3>2
    <3> QED
      BY <2>1, <3>2, <3>3 DEF Projected!TypeOK, Projected!Executions, Projected!Price, Projected!Size
  <2> QED
    BY <1>1, <2>1, <2>2 DEF BookInv, Recorded, Here
<1>4. CASE Projected!LedgerFolds(e)
  <2> DEFINE m == plan[e].market
             s == plan[e].sign
             p == Projected!FillPrice(e, accounted[e] + 1)
  <2>1. /\ accounted[e] < bexecuted[e] /\ accounted' = [accounted EXCEPT ![e] = @ + 1]
        /\ bledger' = [bledger EXCEPT ![m] = Projected!Folded(bledger[m], s, p)]
        /\ UNCHANGED <<plan, start, bexecuted, malformed>>
    BY <1>4 DEF Projected!LedgerFolds
  <2>2. /\ m \in Markets /\ s \in {1, -1} /\ s \in Int /\ p \in Int
        /\ bledger[m] \in RowType /\ IsFiniteSet(DOMAIN plan) /\ Unknown \notin Int \X Int
    <3>1. /\ m \in Markets /\ s \in {1, -1} /\ s \in Int
          /\ bledger[m] \in RowType /\ IsFiniteSet(DOMAIN plan) /\ Unknown \notin Int \X Int
          /\ accounted[e] \in Nat /\ bexecuted[e] \in Nat /\ Projected!Size(e) \in Nat
          /\ bexecuted[e] <= Projected!Size(e)
          /\ \A n \in 0..Projected!Size(e) : Projected!Paid(e, n) \in Int
      BY <1>1, PlanIs
    <3>2. /\ accounted[e] + 1 \in 0..Projected!Size(e)
          /\ accounted[e] + 1 - 1 \in 0..Projected!Size(e)
      BY <2>1, <3>1
    <3>3. p \in Int
      BY <3>1, <3>2 DEF Projected!FillPrice
    <3> HIDE DEF m, s, p
    <3> QED
      BY <3>1, <3>3
  <2>3. /\ Projected!Folded(bledger[m], s, p) \in RowType
        /\ Projected!Folded(bledger[m], s, p).qty = bledger[m].qty + s
    <3> HIDE DEF m, s, p
    <3> QED
      BY <2>2, FoldedIs
  <2>4. Projected!TypeOK'
    <3>1. /\ plan \in Plans /\ malformed \subseteq DOMAIN plan
          /\ start \in [Markets -> Starts] /\ bledger \in [Markets -> RowType]
          /\ bexecuted \in [DOMAIN plan -> Nat] /\ accounted \in [DOMAIN plan -> Nat]
          /\ \A k \in DOMAIN plan : accounted[k] <= bexecuted[k] /\ bexecuted[k] <= Projected!Size(k)
      BY <1>1 DEF Projected!TypeOK, Projected!Executions, RowType
    <3>2. /\ accounted' \in [DOMAIN plan -> Nat]
          /\ \A k \in DOMAIN plan : accounted'[k] <= bexecuted[k]
      BY <2>1, <3>1
    <3>3. bledger' \in [Markets -> RowType]
      <4> HIDE DEF m, s, p
      <4> QED
        BY <2>1, <2>2, <2>3, <3>1
    <3> QED
      BY <2>1, <3>1, <3>2, <3>3 DEF Projected!TypeOK, Projected!Executions, Projected!Price,
        Projected!Size, RowType
  <2>5. \A k \in DOMAIN plan : /\ Recorded[k] \in Int
                              /\ Recorded'[k] = IF k = e THEN Recorded[k] + s ELSE Recorded[k]
    <3> SUFFICES ASSUME NEW k \in DOMAIN plan
                 PROVE  /\ Recorded[k] \in Int
                        /\ Recorded'[k] = IF k = e THEN Recorded[k] + s ELSE Recorded[k]
      OBVIOUS
    <3>1. Recorded[k] = plan[k].sign * accounted[k] /\ Recorded'[k] = plan[k].sign * accounted'[k]
      BY <2>1 DEF Recorded
    <3>2. plan[k].sign * accounted[k] \in Int /\ accounted[k] \in Nat /\ plan[k].sign \in Int
      BY <1>1, PlanIs
    <3>3. accounted'[k] = IF k = e THEN accounted[k] + 1 ELSE accounted[k]
      BY <1>1, <2>1 DEF Projected!TypeOK, Projected!Executions
    <3>4. \A a \in Int : \A b \in Nat : a * (b + 1) = a * b + a
      OBVIOUS
    <3> QED
      BY <3>1, <3>2, <3>3, <3>4
  <2>6. ASSUME NEW k \in Markets
        PROVE  bledger'[k].qty = start[k] + Sum(Recorded', Here(k))
    <3>1. IsFiniteSet(Here(k)) /\ Here(k) \in SUBSET (DOMAIN plan)
      <4>1. Here(k) \in SUBSET (DOMAIN plan)
        BY DEF Here
      <4> QED
        BY <2>2, <4>1, FS_Subset
    <3>2. start[k] \in Int /\ Sum(Recorded, Here(k)) \in Int
      <4>1. \A x \in Here(k) : Recorded[x] \in Int
        BY <2>5, <3>1
      <4> QED
        BY <1>1, <3>1, <4>1, SumType, PlanIs
    <3>3. CASE k = m
      <4>1. e \in Here(k)
        BY <3>3 DEF Here
      <4>2. /\ \A y \in Here(k) : Recorded[y] \in Int
            /\ Recorded'[e] = Recorded[e] + s
            /\ \A y \in Here(k) \ {e} : Recorded'[y] = Recorded[y]
        BY <2>5, <3>1
      <4> HIDE DEF m, s, p
      <4>3. Sum(Recorded', Here(k)) = Sum(Recorded, Here(k)) + s
        <5>1. IsFiniteSet(Here(k)) /\ s \in Int
          BY <2>2, <3>1
        <5> QED
          BY <4>1, <4>2, <5>1, SumBump
      <4>4. bledger'[k].qty = bledger[k].qty + s
        <5>1. bledger'[k] = Projected!Folded(bledger[m], s, p)
          <6>1. DOMAIN bledger = Markets
            BY <1>1 DEF Projected!TypeOK
          <6> QED
            BY <2>1, <3>3, <6>1
        <5> QED
          BY <2>3, <3>3, <5>1
      <4> QED
        BY <1>1, <2>2, <3>2, <4>3, <4>4
    <3>4. CASE k # m
      <4>1. \A x \in Here(k) : Recorded'[x] = Recorded[x]
        BY <2>5, <3>1, <3>4 DEF Here
      <4>2. Sum(Recorded', Here(k)) = Sum(Recorded, Here(k))
        BY <3>1, <4>1, SumSame
      <4>3. bledger'[k] = bledger[k]
        BY <1>1, <2>1, <3>4 DEF Projected!TypeOK
      <4> QED
        BY <1>1, <4>2, <4>3
    <3> QED
      BY <3>3, <3>4
  <2>7. \A k \in Markets : (bledger'[k].qty = start'[k] + Sum(Recorded', Here(k)'))
    <3>1. \A k : Here(k)' = Here(k)
      BY <2>1 DEF Here
    <3> QED
      BY <2>1, <2>6, <3>1
  <2> QED
    BY <2>4, <2>7 DEF BookInv
<1> QED
  BY <1>2, <1>3, <1>4

-----------------------------------------------------------------------------
(* What is shown of it. *)

(* A composed row is the ledger's with the entries applied in turn. *)
LEMMA ComposedIs ==
    ASSUME Projected!ConstantsOK, Projected!TypeOK, NEW m \in Markets, NEW E \in SUBSET (DOMAIN plan),
           NEW delta, \A n \in DOMAIN plan : delta[n] = Projected!SignedUnaccounted(n),
           NEW price, \A n \in DOMAIN plan : price[n] = Projected!AveragePrice(n)
    PROVE  \E g : /\ Rows(bledger[m], E, delta, price, Len(plan), g)
                  /\ Projected!composeProjectedPosition(m, E) = g[Len(plan)]
<1> DEFINE N == Len(plan)
           IsRow(g) == g = [n \in 0..N |->
              IF n = 0 THEN bledger[m]
              ELSE IF n \in E THEN Projected!Applied(g[n - 1], Projected!SignedUnaccounted(n), Projected!AveragePrice(n))
              ELSE g[n - 1]]
           made == CHOOSE g : IsRow(g)
<1>1. N \in Nat /\ DOMAIN plan = 1..N
  BY PlanIs
<1>2. \A n \in 0..N : n # 0 => delta[n] = Projected!SignedUnaccounted(n) /\ price[n] = Projected!AveragePrice(n)
  BY <1>1
<1>3. ASSUME NEW g PROVE IsRow(g) <=> Rows(bledger[m], E, delta, price, N, g)
  <2>1. [n \in 0..N |->
              IF n = 0 THEN bledger[m]
              ELSE IF n \in E THEN Projected!Applied(g[n - 1], Projected!SignedUnaccounted(n), Projected!AveragePrice(n))
              ELSE g[n - 1]]
        = [n \in 0..N |->
              IF n = 0 THEN bledger[m]
              ELSE IF n \in E THEN Projected!Applied(g[n - 1], delta[n], price[n])
              ELSE g[n - 1]]
    <3> HIDE DEF N
    <3> QED
      BY <1>2
  <2> QED
    BY <2>1 DEF Rows
<1>4. \E g : IsRow(g)
  <2>1. \E g : Rows(bledger[m], E, delta, price, N, g)
    <3> HIDE DEF N
    <3> QED
      BY <1>1, RowsExist
  <2> HIDE DEF IsRow
  <2> QED
    BY <1>3, <2>1
<1>5. IsRow(made)
  <2> HIDE DEF IsRow
  <2> QED
    BY <1>4
<1>6. Projected!composeProjectedPosition(m, E) = made[N]
  BY DEF Projected!composeProjectedPosition
<1>7. Rows(bledger[m], E, delta, price, N, made)
  <2> HIDE DEF IsRow, made
  <2> QED
    BY <1>3, <1>5
<1> HIDE DEF made
<1> QED
  BY <1>6, <1>7

LEMMA SettledIsFolded ==
    ASSUME NEW m, NEW e, NEW N \in Nat, N = bexecuted[e] - accounted[e], accounted[e] \in Nat,
           NEW cost, \A i \in 0..(accounted[e] + N) : cost[i] = Projected!Paid(e, i)
    PROVE  \E g : /\ Folds(bledger[m], plan[e].sign, cost, accounted[e], N, g)
                  /\ Projected!Settled(m, e) = g[N]
<1> DEFINE s == plan[e].sign
           a == accounted[e]
           IsRow(g) == g = [n \in 0..N |->
              IF n = 0 THEN bledger[m]
              ELSE Projected!Folded(g[n - 1], s, Projected!FillPrice(e, a + n))]
           made == CHOOSE g : IsRow(g)
<1>1. \A n \in 0..N : n # 0 => Projected!FillPrice(e, a + n) = cost[a + n] - cost[a + n - 1]
  <2> SUFFICES ASSUME NEW n \in 0..N, n # 0
               PROVE  Projected!FillPrice(e, a + n) = cost[a + n] - cost[a + n - 1]
    OBVIOUS
  <2>1. a + n \in 0..(a + N) /\ a + n - 1 \in 0..(a + N)
    OBVIOUS
  <2>2. cost[a + n] = Projected!Paid(e, a + n) /\ cost[a + n - 1] = Projected!Paid(e, a + n - 1)
    BY <2>1
  <2> QED
    BY <2>2 DEF Projected!FillPrice
<1>2. ASSUME NEW g PROVE IsRow(g) <=> Folds(bledger[m], s, cost, a, N, g)
  <2>1. [n \in 0..N |->
              IF n = 0 THEN bledger[m]
              ELSE Projected!Folded(g[n - 1], s, Projected!FillPrice(e, a + n))]
        = [n \in 0..N |->
              IF n = 0 THEN bledger[m]
              ELSE Projected!Folded(g[n - 1], s, cost[a + n] - cost[a + n - 1])]
    BY <1>1
  <2> QED
    BY <2>1 DEF Folds
<1>3. \E g : IsRow(g)
  <2>1. \E g : Folds(bledger[m], s, cost, a, N, g)
    BY FoldsExist
  <2> HIDE DEF IsRow
  <2> QED
    BY <1>2, <2>1
<1>4. IsRow(made)
  <2> HIDE DEF IsRow
  <2> QED
    BY <1>3
<1>5. Projected!Settled(m, e) = made[N]
  BY DEF Projected!Settled
<1>6. Folds(bledger[m], s, cost, a, N, made)
  <2> HIDE DEF IsRow, made
  <2> QED
    BY <1>2, <1>4
<1> HIDE DEF made
<1> QED
  BY <1>5, <1>6

(* With one entry, the composed row is the ledger's with that applied. *)
LEMMA OneRow ==
    ASSUME NEW r, NEW N \in Nat, NEW e \in 1..N, NEW delta, NEW price, NEW g,
           Rows(r, {e}, delta, price, N, g)
    PROVE  g[N] = Projected!Applied(r, delta[e], price[e])
<1> DEFINE S == {n \in 0..N : g[n] = IF n < e THEN r ELSE Projected!Applied(r, delta[e], price[e])}
<1>1. 0 \in S
  BY DEF Rows
<1>2. ASSUME NEW n \in 0..(N - 1), n \in S PROVE n + 1 \in S
  <2>1. g[n + 1] = IF n + 1 = e THEN Projected!Applied(g[n], delta[n + 1], price[n + 1]) ELSE g[n]
    BY DEF Rows
  <2>2. g[n] = IF n < e THEN r ELSE Projected!Applied(r, delta[e], price[e])
    BY <1>2
  <2>3. CASE n + 1 = e
    BY <2>1, <2>2, <2>3
  <2>4. CASE n + 1 # e
    <3>1. n + 1 < e <=> n < e
      BY <2>4
    <3> QED
      BY <2>1, <2>2, <2>4, <3>1
  <2> QED
    BY <2>3, <2>4
<1>3. \A n \in 0..N : n \in S
  <2> HIDE DEF S
  <2> QED
    BY <1>1, <1>2, Upto
<1> QED
  BY <1>3

LEMMA PendingIs ==
    ASSUME Projected!ConstantsOK, Projected!TypeOK, NEW m
    PROVE  /\ Projected!PendingOn(m) \in SUBSET Here(m) /\ Here(m) \in SUBSET (DOMAIN plan)
           /\ \A e \in Here(m) : /\ e \in Projected!PendingOn(m) <=> accounted[e] < bexecuted[e]
                                 /\ e \notin Projected!PendingOn(m) =>
                                        Projected!SignedUnaccounted(e) = 0
<1>1. /\ Projected!PendingOn(m) \in SUBSET Here(m) /\ Here(m) \in SUBSET (DOMAIN plan)
      /\ \A e \in Here(m) : e \in Projected!PendingOn(m) <=> bexecuted[e] > accounted[e]
  BY DEF Projected!PendingOn, Projected!AccountingPending, Projected!Executions, Here
<1>2. ASSUME NEW e \in Here(m)
      PROVE  /\ e \in Projected!PendingOn(m) <=> accounted[e] < bexecuted[e]
             /\ e \notin Projected!PendingOn(m) => Projected!SignedUnaccounted(e) = 0
  <2>1. /\ accounted[e] \in Nat /\ bexecuted[e] \in Nat /\ accounted[e] <= bexecuted[e]
        /\ plan[e].sign \in {1, -1}
        /\ Projected!SignedUnaccounted(e) = plan[e].sign * (bexecuted[e] - accounted[e])
    BY <1>1, PlanIs
  <2>2. e \notin Projected!PendingOn(m) => bexecuted[e] - accounted[e] = 0
    BY <1>1, <2>1
  <2>3. \A s \in {1, -1} : s * 0 = 0
    OBVIOUS
  <2> QED
    BY <1>1, <2>1, <2>2, <2>3
<1> QED
  BY <1>1, <1>2

LEMMA SameBookFollows ==
    ASSUME Projected!ConstantsOK, BookInv
    PROVE  Projected!SameBook
<1>1. Projected!TypeOK /\ \A m \in Markets : bledger[m].qty = start[m] + Sum(Recorded, Here(m))
  BY DEF BookInv
<1>2. ASSUME NEW m \in Markets, Here(m) \cap malformed = {}
      PROVE  Projected!ProjectedPosition(m).qty
               = start[m] + Projected!SumFunction([e \in Here(m) |-> plan[e].sign * bexecuted[e]])
  <2> DEFINE E == Projected!PendingOn(m)
             delta == [e \in DOMAIN plan |-> Projected!SignedUnaccounted(e)]
             price == [e \in DOMAIN plan |-> Projected!AveragePrice(e)]
             all == [e \in Here(m) |-> plan[e].sign * bexecuted[e]]
  <2>1. /\ E \in SUBSET Here(m) /\ Here(m) \in SUBSET (DOMAIN plan) /\ E \in SUBSET (DOMAIN plan)
        /\ \A e \in Here(m) : e \notin E => Projected!SignedUnaccounted(e) = 0
    BY <1>1, PendingIs
  <2>2. /\ bledger[m] \in RowType /\ start[m] \in Int /\ Len(plan) \in Nat
        /\ DOMAIN plan = 1..Len(plan)
        /\ \A e \in DOMAIN plan : delta[e] \in Int /\ price[e] \in Projected!Price
    BY <1>1, PlanIs
  <2>3. IsFiniteSet(E) /\ IsFiniteSet(Here(m))
    BY <1>1, <2>1, PlanIs, FS_Subset
  <2>4. Projected!ProjectedPosition(m) = Projected!composeProjectedPosition(m, E)
    <3>1. E \cap malformed = {}
      <4> HIDE DEF E
      <4> QED
        BY <1>2, <2>1
    <3> QED
      BY <3>1 DEF Projected!ProjectedPosition
  <2>5. /\ \A e \in DOMAIN plan : delta[e] = Projected!SignedUnaccounted(e)
        /\ \A e \in DOMAIN plan : price[e] = Projected!AveragePrice(e)
    OBVIOUS
  <2> HIDE DEF E, delta, price
  <2>6. PICK g : /\ Rows(bledger[m], E, delta, price, Len(plan), g)
                 /\ Projected!composeProjectedPosition(m, E) = g[Len(plan)]
    BY <1>1, <2>1, <2>5, ComposedIs
  <2>7. g[Len(plan)].qty = bledger[m].qty + Sum(delta, E)
    <3>1. E \in SUBSET (1..Len(plan)) /\ \A n \in E : delta[n] \in Int /\ price[n] \in Projected!Price
      BY <2>1, <2>2
    <3> QED
      BY <2>2, <2>6, <3>1, RowsSum
  <2>8. /\ \A e \in Here(m) : Recorded[e] \in Int
        /\ \A e \in E : delta[e] \in Int
        /\ \A e \in Here(m) : all[e] = (IF e \in Here(m) THEN Recorded[e] ELSE 0)
                                         + (IF e \in E THEN delta[e] ELSE 0)
    <3>1. \A e \in DOMAIN plan : Recorded[e] = plan[e].sign * accounted[e]
      BY DEF Recorded
    <3>2. \A e \in DOMAIN plan :
             /\ plan[e].sign * accounted[e] \in Int
             /\ plan[e].sign * bexecuted[e]
                  = plan[e].sign * accounted[e] + Projected!SignedUnaccounted(e)
      BY <1>1, PlanIs
    <3>3. \A e \in Here(m) : all[e] = plan[e].sign * bexecuted[e]
      OBVIOUS
    <3> HIDE DEF all
    <3> QED
      BY <2>1, <2>2, <2>5, <3>1, <3>2, <3>3
  <2>9. Sum(all, Here(m)) = Sum(Recorded, Here(m)) + Sum(delta, E)
    <3>1. Here(m) \in SUBSET Here(m)
      OBVIOUS
    <3> HIDE DEF all
    <3> QED
      BY <2>1, <2>3, <2>8, <3>1, SumOfParts
  <2>10. Sum(Recorded, Here(m)) \in Int /\ Sum(delta, E) \in Int
    BY <2>3, <2>8, SumType
  <2>11. Projected!SumFunction(all) = Sum(all, Here(m))
    <3>1. DOMAIN all = Here(m)
      OBVIOUS
    <3> HIDE DEF all
    <3> QED
      BY <3>1, ProjectedSum
  <2> HIDE DEF all
  <2>12. Projected!ProjectedPosition(m).qty = start[m] + Projected!SumFunction(all)
    BY <1>1, <2>2, <2>4, <2>6, <2>7, <2>9, <2>10, <2>11
  <2> QED
    BY <2>12 DEF all
<1> QED
  BY <1>2 DEF Projected!SameBook, Here, Projected!Executions

LEMMA MalformedFollows ==
    ASSUME Projected!ConstantsOK, Projected!TypeOK
    PROVE  Projected!MalformedKeepsLedger
<1>1. ASSUME NEW m \in Markets, NEW e \in malformed, plan[e].market = m, accounted[e] < bexecuted[e]
      PROVE  Projected!ProjectedPosition(m) = bledger[m]
  <2>1. e \in Here(m)
    BY <1>1 DEF Projected!TypeOK, Projected!Executions, Here
  <2>2. e \in Projected!PendingOn(m)
    BY <1>1, <2>1, PendingIs
  <2> QED
    BY <2>2 DEF Projected!ProjectedPosition
<1> QED
  BY <1>1 DEF Projected!MalformedKeepsLedger

LEMMA EntryFollows ==
    ASSUME Projected!ConstantsOK, Projected!TypeOK
    PROVE  Projected!EntryAsSettled
<1>1. ASSUME NEW e \in DOMAIN plan, e \notin malformed,
             Projected!PendingOn(plan[e].market) = {e},
             Projected!ProjectedPosition(plan[e].market).qty # 0
      PROVE  LET m == plan[e].market
                 held == plan[e].sign * bledger[m].qty
                 reduces == held + (bexecuted[e] - accounted[e]) < 0
                 shown == Projected!ProjectedPosition(m) IN
             /\ (reduces \/ (plan[e].priced
                               /\ (Projected!OnePrice(e) \/ (accounted[e] = 0 /\ held >= 0)))) =>
                   Projected!SamePrice(shown.entry, Projected!Settled(m, e).entry)
             /\ ~(reduces \/ plan[e].priced) => shown.entry = Unknown
  <2> DEFINE m == plan[e].market
             s == plan[e].sign
             p == Projected!AveragePrice(e)
             a == accounted[e]
             N == bexecuted[e] - accounted[e]
             r == bledger[m]
             delta == [n \in DOMAIN plan |-> Projected!SignedUnaccounted(n)]
             price == [n \in DOMAIN plan |-> Projected!AveragePrice(n)]
             cost == [i \in 0..bexecuted[e] |-> Projected!Paid(e, i)]
  <2>1. /\ m \in Markets /\ s \in {1, -1} /\ p \in Projected!Price /\ r \in RowType
        /\ Len(plan) \in Nat /\ DOMAIN plan = 1..Len(plan) /\ Unknown \notin Int \X Int
        /\ bexecuted[e] \in Nat /\ a \in Nat
        /\ delta[e] = s * N /\ price[e] = p
    BY PlanIs
  <2>2. N \in Nat /\ N # 0 /\ a + N = bexecuted[e]
    <3>1. e \in Here(m)
      BY DEF Here
    <3>2. accounted[e] < bexecuted[e]
      BY <1>1, <3>1, PendingIs
    <3> QED
      BY <2>1, <3>2
  <2>3. Projected!ProjectedPosition(m) = Projected!composeProjectedPosition(m, {e})
    BY <1>1 DEF Projected!ProjectedPosition
  <2>4. PICK g : /\ Rows(r, {e}, delta, price, Len(plan), g)
                 /\ Projected!composeProjectedPosition(m, {e}) = g[Len(plan)]
    <3>1. /\ \A n \in DOMAIN plan : delta[n] = Projected!SignedUnaccounted(n)
          /\ \A n \in DOMAIN plan : price[n] = Projected!AveragePrice(n)
          /\ {e} \in SUBSET (DOMAIN plan)
      OBVIOUS
    <3> HIDE DEF m, delta, price
    <3> QED
      BY <2>1, <3>1, ComposedIs
  <2>5. /\ \A i \in 0..(a + N) : cost[i] = Projected!Paid(e, i) /\ cost[i] \in Int
        /\ cost[0] = 0
        /\ p = IF plan[e].priced THEN <<cost[a + N], a + N>> ELSE Unknown
        /\ Projected!OnePrice(e) => \A i \in 1..(a + N) : cost[i] = i * cost[1]
    <3>1. /\ bexecuted[e] \in Nat /\ Projected!Size(e) \in Nat /\ bexecuted[e] <= Projected!Size(e)
          /\ \A n \in 0..Projected!Size(e) : Projected!Paid(e, n) \in Int
      BY PlanIs
    <3>2. \A i \in 0..bexecuted[e] : Projected!Paid(e, i) \in Int
      BY <3>1
    <3>3. \A i \in 0..bexecuted[e] : cost[i] = Projected!Paid(e, i)
      OBVIOUS
    <3>4. 0 \in 0..bexecuted[e] /\ 1 \in 0..bexecuted[e] /\ bexecuted[e] \in 0..bexecuted[e]
      BY <2>1, <2>2
    <3>5. Projected!Paid(e, 0) = 0
      BY DEF Projected!Paid
    <3>6. Projected!OnePrice(e) => \A i \in 1..bexecuted[e] : cost[i] = i * cost[1]
      <4>1. \A i \in 1..bexecuted[e] : i \in 0..bexecuted[e]
        OBVIOUS
      <4> HIDE DEF cost
      <4> QED
        BY <3>3, <3>4, <4>1 DEF Projected!OnePrice
    <3>7. p = IF plan[e].priced THEN <<Projected!Paid(e, bexecuted[e]), bexecuted[e]>> ELSE Unknown
      BY DEF Projected!AveragePrice
    <3> HIDE DEF cost, p, a, N
    <3> QED
      BY <2>2, <3>2, <3>3, <3>4, <3>5, <3>6, <3>7
  <2>6. PICK h : Folds(r, s, cost, a, N, h) /\ Projected!Settled(m, e) = h[N]
    <3>1. N = bexecuted[e] - accounted[e] /\ accounted[e] \in Nat
          /\ \A i \in 0..(accounted[e] + N) : cost[i] = Projected!Paid(e, i)
      BY <2>1, <2>5
    <3> HIDE DEF N, cost, m
    <3> QED
      BY <2>2, <3>1, SettledIsFolded
  <2> DEFINE held == s * r.qty
             once == Projected!blendedEntry(r.qty, r.entry, s * N, p)
  <2> HIDE DEF m, s, p, a, N, r, delta, price, cost
  <2>7. g[Len(plan)] = Projected!Applied(r, s * N, p)
    <3>1. g[Len(plan)] = Projected!Applied(r, delta[e], price[e])
      BY <2>1, <2>4, OneRow
    <3> QED
      BY <2>1, <3>1
  <2>8. Projected!ProjectedPosition(m) = Projected!Applied(r, s * N, p)
    BY <2>3, <2>4, <2>7
  <2>9. s * N \in Int /\ s * (s * N) = N /\ r.qty \in Int /\ held \in Int
        /\ (r.qty + s * N = 0 <=> held + N = 0)
    <3>1. r.qty \in Int
      BY <2>1 DEF RowType
    <3>2. CASE s = 1
      BY <2>2, <3>1, <3>2
    <3>3. CASE s = -1
      BY <2>2, <3>1, <3>3
    <3> QED
      BY <2>1, <3>1, <3>2, <3>3
  <2>10. /\ Projected!ProjectedPosition(m).entry = once
         /\ r.qty + s * N # 0
    <3>1. /\ Projected!Applied(r, s * N, p).qty = r.qty + s * N
          /\ Projected!Applied(r, s * N, p).entry = once
      BY <2>1, <2>9, AppliedType
    <3>2. Projected!ProjectedPosition(m).qty # 0
      BY <1>1 DEF m
    <3> QED
      BY <2>8, <3>1, <3>2
  <2>11. ASSUME \/ held + N < 0
                \/ plan[e].priced /\ (Projected!OnePrice(e) \/ (a = 0 /\ held >= 0))
         PROVE  Projected!SamePrice(once, h[N].entry)
    <3>1. \/ held + N < 0
          \/ /\ p = <<cost[a + N], a + N>>
             /\ (\A i \in 1..(a + N) : cost[i] = i * cost[1]) \/ (a = 0 /\ held >= 0)
      BY <2>5, <2>11
    <3>2. \A i \in 0..(a + N) : cost[i] \in Int
      BY <2>5
    <3>3. /\ N \in Nat /\ N # 0 /\ a \in Nat /\ s \in {1, -1} /\ r \in RowType
          /\ Unknown \notin Int \X Int /\ cost[0] = 0 /\ Folds(r, s, cost, a, N, h)
          /\ r.qty + s * N # 0
      BY <2>1, <2>2, <2>5, <2>6, <2>10
    <3> QED
      BY <3>1, <3>2, <3>3, PriceAsSettled
  <2>12. ASSUME ~(held + N < 0), ~plan[e].priced PROVE once = Unknown
    <3>1. p = Unknown
      BY <2>5, <2>12
    <3> DEFINE d == s * N
    <3>2. d \in Int /\ s * d = N /\ s * d > 0 /\ once = Projected!blendedEntry(r.qty, r.entry, d, p)
      BY <2>2, <2>9
    <3> HIDE DEF d, once
    <3>3. s \in {1, -1} /\ r.qty \in Int
      BY <2>1, <2>9
    <3>4. /\ (held = 0 \/ held + s * d = 0 \/ (held < 0 /\ held + s * d > 0)) => once = p
          /\ (held > 0 /\ (r.entry = Unknown \/ p = Unknown)) => once = Unknown
      BY <3>2, <3>3, BlendIs
    <3> HIDE DEF held
    <3> QED
      BY <2>2, <2>9, <2>12, <3>1, <3>2, <3>4
  <2> HIDE DEF once
  <2>13. /\ (held + N < 0 \/ (plan[e].priced /\ (Projected!OnePrice(e) \/ (a = 0 /\ held >= 0)))) =>
               Projected!SamePrice(Projected!ProjectedPosition(m).entry,
                                   Projected!Settled(m, e).entry)
         /\ ~(held + N < 0 \/ plan[e].priced) => Projected!ProjectedPosition(m).entry = Unknown
    BY <2>6, <2>10, <2>11, <2>12
  <2> QED
    BY <2>13 DEF m, s, a, N, r
<1> QED
  BY <1>1 DEF Projected!EntryAsSettled, Projected!Executions

(* ProjectedPositions: for any executions, in any markets, their fills at  *)
(* any prices, however far the venue is ahead of the ledger: the quantity  *)
(* shown is what was held and what the venue has executed, and a market    *)
(* with an entry that does not parse keeps its ledger row. While one       *)
(* execution is pending on a market, its price is the one the ledger will  *)
(* settle at, if the execution reduces the position, was filled at one     *)
(* price, or opens or increases it and is not folded in part.              *)
THEOREM BookIsSound == AlgorithmsSpec => []BookSound
<1> DEFINE Inv == topic = "book" => BookInv
<1> Projected!ConstantsOK
  BY ComputationsOK
<1>1. Projected!Init => BookInv
  <2> SUFFICES ASSUME Projected!Init PROVE BookInv
    OBVIOUS
  <2>1. /\ plan \in Plans /\ start \in [Markets -> Starts]
        /\ bexecuted = [e \in DOMAIN plan |-> 0] /\ accounted = [e \in DOMAIN plan |-> 0]
        /\ bledger = [m \in Markets |->
              [qty |-> start[m], entry |-> IF start[m] = 0 THEN Unknown ELSE StartPrice]]
        /\ malformed \in {{}} \cup {{e} : e \in DOMAIN plan}
    BY DEF Projected!Init
  <2>2. plan \in Seq([market : Markets, sign : {1, -1}, paid : Seq(Int), priced : BOOLEAN])
        /\ Starts \subseteq Int /\ StartPrice \in Projected!Price
    BY <2>1 DEF Projected!ConstantsOK
  <2>3. \A e \in DOMAIN plan : plan[e].sign \in Int /\ Projected!Size(e) \in Nat
    <3>1. \A e \in DOMAIN plan :
             plan[e] \in [market : Markets, sign : {1, -1}, paid : Seq(Int), priced : BOOLEAN]
      BY <2>2, ElementIs
    <3> QED
      BY <3>1 DEF Projected!Size
  <2>4. Projected!TypeOK
    <3>1. bledger \in [Markets -> [qty : Int, entry : Projected!Price]]
      BY <2>1, <2>2 DEF Projected!Price
    <3>2. malformed \subseteq DOMAIN plan
      BY <2>1
    <3>3. \A e \in DOMAIN plan : /\ accounted[e] <= bexecuted[e] /\ bexecuted[e] <= Projected!Size(e)
      BY <2>1, <2>3
    <3>4. bexecuted \in [DOMAIN plan -> Nat] /\ accounted \in [DOMAIN plan -> Nat]
      BY <2>1
    <3> QED
      BY <2>1, <3>1, <3>2, <3>3, <3>4 DEF Projected!TypeOK, Projected!Executions
  <2>5. ASSUME NEW m \in Markets PROVE bledger[m].qty = start[m] + Sum(Recorded, Here(m))
    <3>1. IsFiniteSet(Here(m)) /\ Here(m) \in SUBSET (DOMAIN plan)
      <4>1. Here(m) \in SUBSET (DOMAIN plan)
        BY DEF Here
      <4> QED
        BY <2>4, <4>1, PlanIs, FS_Subset
    <3>2. \A e \in Here(m) : Recorded[e] = 0
      <4>1. \A s \in Int : s * 0 = 0
        OBVIOUS
      <4> QED
        BY <2>1, <2>3, <3>1, <4>1 DEF Recorded
    <3>3. Sum(Recorded, Here(m)) = 0
      BY <3>1, <3>2, SumOfZeros
    <3>4. start[m] \in Int /\ bledger[m].qty = start[m]
      BY <2>1, <2>2
    <3> QED
      BY <3>3, <3>4
  <2> QED
    BY <2>4, <2>5 DEF BookInv
<1>2. BookInv /\ [Projected!Next]_(Projected!vars) => BookInv'
  <2>1. ASSUME BookInv, UNCHANGED Projected!vars PROVE BookInv'
    BY <2>1 DEF Projected!vars, BookInv, Projected!TypeOK, Projected!Executions, Projected!Price,
      Projected!Size, Recorded, Here
  <2> QED
    BY <2>1, BookSteps
<1>3. BookInv => Projected!BookSound
  <2>1. BookInv => Projected!TypeOK
    BY DEF BookInv
  <2> QED
    BY <2>1, SameBookFollows, MalformedFollows, EntryFollows DEF Projected!BookSound
<1>4. AlgorithmsInit => Inv
  BY <1>1 DEF AlgorithmsInit
<1>5. Inv /\ [AlgorithmsNext]_algorithmVars => Inv'
  <2> SUFFICES ASSUME Inv, [AlgorithmsNext]_algorithmVars, topic' = "book"
               PROVE  BookInv'
    OBVIOUS
  <2>1. topic = "book" /\ [Projected!Next]_(Projected!vars)
    BY DEF AlgorithmsNext, algorithmVars, MoneyNext, EvidenceNext, BookNext, CacheNext, CandlesNext,
      LadderNext, RevalueNext,
      bookVars, Projected!vars
  <2> QED
    BY <1>2, <2>1
<1>6. Inv => BookSound
  BY <1>3 DEF BookSound
<1> QED
  BY <1>4, <1>5, <1>6, PTL DEF AlgorithmsSpec
=============================================================================
