------------------------ MODULE SocketRequestsProofs ------------------------
(***************************************************************************)
(* Proofs about SocketRequests, for any number of requests of each kind,   *)
(* of connections, and of replacements.                                    *)
(***************************************************************************)
EXTENDS SocketRequests, TLAPS

(* An entry of m.pending has a channel nobody signalled, and a request not *)
(* yet made has neither.                                                   *)
Unsignalled ==
    \A r \in Requests :
        /\ r \in pending => ch[r] = "open" /\ pc[r] # "idle"
        /\ pc[r] = "idle" => ch[r] = "open"

(* Between Lock and Finish the sender of a barrier's message holds sendMu, *)
(* which keeps its caller from turning the message off.                    *)
SendsLocked ==
    \A s \in Senders : at[s] \in {"send", "write"} /\ job[s] \in Barriers =>
        sendMu[job[s]] = s /\ job[s] \in active

(* A sender at work has a message. *)
Working == \A s \in Senders : at[s] # "idle" => job[s] \in Requests

(* What a caller has taken back is gone by the time it moves on. *)
TakenBack ==
    /\ \A r \in Barriers : pc[r] \in {"drop", "done"} => r \notin deferred
    /\ \A r \in Barriers \cup Projections : pc[r] = "done" => r \notin pending
    /\ \A r \in Requests : pc[r] \in {"leave", "undefer", "drop", "done"} \/ outcome[r] = "none"

(* A caller that is sending is neither before nor behind it, so that the   *)
(* end of a send brings no caller back.                                    *)
CallerSends == \A r \in Requests : at[r] # "idle" => pc[r] = "send"

(* The inductive invariant: the types and the five facts above with        *)
(* OkIsAnswered.                                                           *)
Facts == Unsignalled /\ SendsLocked /\ Working /\ TakenBack /\ CallerSends /\ OkIsAnswered

IndInv == TypeOK /\ Facts

-----------------------------------------------------------------------------
(* Nothing is pending, sent or deferred at first. *)
LEMMA InitInv == Init => IndInv
<1> SUFFICES ASSUME Init PROVE IndInv
  OBVIOUS
<1>1. TypeOK
  BY DEF Init, TypeOK, PCs
<1>2. Unsignalled /\ TakenBack /\ OkIsAnswered
  BY DEF Init, Unsignalled, TakenBack, OkIsAnswered, Requests, Projections
<1>3. SendsLocked /\ Working /\ CallerSends
  BY DEF Init, SendsLocked, Working, CallerSends, Senders
<1> QED
  BY <1>1, <1>2, <1>3 DEF IndInv, Facts

(* Every step keeps the types. *)
LEMMA TypeStep == TypeOK /\ Working /\ [Next]_vars => TypeOK'
<1> SUFFICES ASSUME TypeOK, Working, [Next]_vars PROVE TypeOK'
  OBVIOUS
<1>a. Requests \subseteq Senders /\ ConnIds \subseteq Senders
  BY DEF Senders
<1>b. used < MaxConns => used + 1 \in ConnIds
  BY ConstantsOK DEF TypeOK, ConnIds
<1> USE <1>a DEF TypeOK, PCs, Goto, callers, table, sending, link, reader, net, ghost
<1>c. ASSUME NEW s \in Senders, Finish(s)
      PROVE  /\ pc' \in [Requests -> PCs]
             /\ at' \in [Senders -> {"idle", "lock", "send", "write"}]
             /\ job' \in [Senders -> Requests \cup {None}]
             /\ target' \in [Senders -> ConnIds \cup {None}]
             /\ sendMu' \in [Requests -> Senders \cup {None}]
  BY <1>c DEF Finish
<1>1. ASSUME NEW s \in Senders, Lock(s) PROVE TypeOK'
  <2>1. CASE job[s] \in active /\ outcome[job[s]] # "cancelled"
    <3>1. sendMu' = [sendMu EXCEPT ![job[s]] = s] /\ at' = [at EXCEPT ![s] = "send"]
      BY <1>1, <2>1 DEF Lock
    <3>2. UNCHANGED <<kind, pc, outcome, active, chartWatches, table, deferred, job, target,
                      link, reader, net, ghost>>
      BY <1>1, <2>1 DEF Lock
    <3> QED
      BY <3>1, <3>2
  <2>2. CASE ~(job[s] \in active /\ outcome[job[s]] # "cancelled")
    <3>1. Finish(s) /\ UNCHANGED <<kind, outcome, active, chartWatches, table, deferred, link,
                                   reader, net, ghost>>
      BY <1>1, <2>2 DEF Lock
    <3> QED
      BY <1>c, <3>1
  <2> QED
    BY <2>1, <2>2
<1>2. ASSUME NEW s \in Senders, Send(s) PROVE TypeOK'
  <2>1. CASE conn # None /\ connected
    BY <1>2, <2>1 DEF Send
  <2>2. CASE ~(conn # None /\ connected)
    <3>1. Finish(s) /\ UNCHANGED <<kind, outcome, active, chartWatches, table, deferred, link,
                                   reader, net, ghost>>
      BY <1>2, <2>2 DEF Send
    <3> QED
      BY <1>c, <3>1
  <2> QED
    BY <2>1, <2>2
<1>3. ASSUME NEW s \in Senders, Write(s) PROVE TypeOK'
  <2>1. Finish(s) /\ UNCHANGED <<kind, outcome, active, chartWatches, table, deferred, link,
                                 reader, alive, used, replaced, stranded>>
    BY <1>3 DEF Write
  <2>2. job[s] \in Requests
    BY <1>3 DEF Write, Working
  <2>3. wire' \in [ConnIds -> SUBSET Requests] /\ asked' \in SUBSET Barriers
    BY <1>3, <2>2 DEF Write
  <2> QED
    BY <1>c, <2>1, <2>3
<1>4. ASSUME NEW r \in Requests, RegisterPending(r) PROVE TypeOK'
  BY <1>4 DEF RegisterPending, Recorded, FirstStep, Requests, Charts
<1>5. ASSUME NEW r \in Requests, OnAuthenticatedOnce(r) PROVE TypeOK'
  BY <1>5 DEF OnAuthenticatedOnce, FirstStep
<1>6. ASSUME NEW r \in Requests, CheckConnected(r) PROVE TypeOK'
  <2>1. UNCHANGED <<kind, outcome, active, chartWatches, table, deferred, link, reader, net, ghost>>
    BY <1>6 DEF CheckConnected
  <2>2. pc' \in [Requests -> PCs]
    <3>1. \E l \in {"cancel", "send", "wait", "defer"} : pc' = [pc EXCEPT ![r] = l]
      BY <1>6, Zenon DEF CheckConnected, Goto
    <3>2. {"cancel", "send", "wait", "defer"} \subseteq PCs
      BY DEF PCs
    <3> QED
      BY <3>1, <3>2
  <2>3. UNCHANGED sending \/ StartSend(r, r)
    BY <1>6 DEF CheckConnected
  <2>4. /\ job' \in [Senders -> Requests \cup {None}]
        /\ at' \in [Senders -> {"idle", "lock", "send", "write"}]
        /\ target' = target /\ sendMu' = sendMu
    BY <2>3 DEF StartSend
  <2> QED
    BY <2>1, <2>2, <2>4
<1>7. ASSUME NEW r \in Requests, CancelDeferred(r) PROVE TypeOK'
  BY <1>7 DEF CancelDeferred, StartSend
<1>8. ASSUME NEW r \in Requests, Receive(r) PROVE TypeOK'
  BY <1>8 DEF Receive, Outcome
<1>9. ASSUME NEW r \in Requests, NEW why \in {"cancelled", "timeout"}, GiveUp(r, why) 
      PROVE TypeOK'
  BY <1>9 DEF GiveUp
<1>10. ASSUME NEW r \in Requests, Leave(r) PROVE TypeOK'
  BY <1>10 DEF Leave, MayLeave
<1>11. ASSUME NEW r \in Requests, Undefer(r) PROVE TypeOK'
  BY <1>11 DEF Undefer
<1>12. ASSUME NEW r \in Requests, DropPending(r) PROVE TypeOK'
  BY <1>12 DEF DropPending, Dropped
<1>13. ASSUME NEW c \in ConnIds, BeginAttempt(c) PROVE TypeOK'
  <2>1. CASE gen = c
    <3>1. connected' \in BOOLEAN
      BY <1>13, <2>1, Zenon DEF BeginAttempt
    <3>2. stranded' \in SUBSET Barriers
      BY <1>13, <2>1 DEF BeginAttempt, Stranded
    <3> QED
      BY <1>13, <2>1, <3>1, <3>2 DEF BeginAttempt
  <2>2. CASE gen # c
    BY <1>13, <2>2 DEF BeginAttempt
  <2> QED
    BY <2>1, <2>2
<1>14. ASSUME NEW c \in ConnIds, Install(c) PROVE TypeOK'
  BY <1>14 DEF Install
<1>15. ASSUME NEW c \in ConnIds, ReadAuthenticated(c) PROVE TypeOK'
  BY <1>15 DEF ReadAuthenticated
<1>16. ASSUME NEW c \in ConnIds, OnAuthenticated(c) PROVE TypeOK'
  BY <1>16 DEF OnAuthenticated, Stranded
<1>17. ASSUME NEW c \in ConnIds, CallbacksDone(c) PROVE TypeOK'
  BY <1>17 DEF CallbacksDone
<1>18. ASSUME NEW c \in ConnIds, ResolvePending(c) PROVE TypeOK'
  BY <1>18 DEF ResolvePending, Taken
<1>19. ASSUME NEW c \in ConnIds, DropSocket(c) PROVE TypeOK'
  BY <1>19 DEF DropSocket, Close
<1>20. ASSUME NEW c \in ConnIds, ReadFails(c) PROVE TypeOK'
  BY <1>20 DEF ReadFails
<1>21. ASSUME NEW c \in ConnIds, EndAttempt(c) PROVE TypeOK'
  <2>1. CASE gen = c
    <3>1. connected' \in BOOLEAN
      BY <1>21, <2>1, Zenon DEF EndAttempt
    <3> QED
      BY <1>21, <2>1, <3>1 DEF EndAttempt, RejectPending
  <2>2. CASE gen # c
    BY <1>21, <2>2 DEF EndAttempt
  <2> QED
    BY <2>1, <2>2
<1>22. ASSUME NEW c \in ConnIds, NEW r \in Requests, RunCallback(c, r) PROVE TypeOK'
  BY <1>22 DEF RunCallback, StartSend
<1>23. ASSUME NEW c \in ConnIds, NEW r \in Requests, NEW k \in {"answer", "error"}, Read(c, r, k) 
      PROVE TypeOK'
  BY <1>23 DEF Read
<1>24. CASE Start
  BY <1>24, <1>b DEF Start
<1>25. CASE Reconnect
  BY <1>25, <1>b DEF Reconnect, Replace, Close, Stranded
<1>26. CASE Promote
  BY <1>26, <1>b DEF Promote, Replace, Stranded
<1>27. CASE Disconnect
  <2>1. connected' \in BOOLEAN
    BY <1>27, Zenon DEF Disconnect
  <2> QED
    BY <1>27, <2>1 DEF Disconnect, Replace, Close, Stranded
<1>28. CASE UNCHANGED vars
  BY <1>28 DEF vars
<1> QED
  BY <1>1, <1>2, <1>3, <1>4, <1>5, <1>6, <1>7, <1>8, <1>9, <1>10, <1>11, <1>12, <1>13,
     <1>14, <1>15, <1>16, <1>17, <1>18, <1>19, <1>20, <1>21, <1>22, <1>23, <1>24, <1>25,
     <1>26, <1>27, <1>28
     DEF Next, SendStep, CallerStep, ConnStep

(* Every step keeps the other facts. *)
LEMMA FactsStep == IndInv /\ [Next]_vars => Facts'
<1> SUFFICES ASSUME IndInv, [Next]_vars PROVE Facts'
  OBVIOUS
<1>a. Requests \subseteq Senders /\ ConnIds \subseteq Senders
  BY DEF Senders
<1>b. Barriers \subseteq Requests /\ Projections \subseteq Requests
  BY DEF Requests, Projections
<1> USE <1>a, <1>b DEF IndInv, TypeOK, Facts, Unsignalled, SendsLocked, Working, TakenBack,
       CallerSends, OkIsAnswered, Goto, callers, table, sending, link, reader, net, ghost,
       Projections
<1>c. ASSUME NEW s \in Senders, at[s] # "idle", Finish(s),
             UNCHANGED <<kind, outcome, active, pending, ch, deferred>>
      PROVE  Facts'
  BY <1>c DEF Finish
<1>1. ASSUME NEW s \in Senders, Lock(s) PROVE Facts'
  <2>1. CASE job[s] \in active /\ outcome[job[s]] # "cancelled"
    <3>1. job[s] \in Requests /\ sendMu[job[s]] = None
      BY <1>1 DEF Lock
    <3>2. sendMu' = [sendMu EXCEPT ![job[s]] = s] /\ at' = [at EXCEPT ![s] = "send"]
      BY <1>1, <2>1 DEF Lock
    <3>3. UNCHANGED <<kind, pc, outcome, active, pending, ch, deferred, job>>
      BY <1>1, <2>1 DEF Lock
    <3>4. at[s] # "idle"
      BY <1>1 DEF Lock
    <3>5. SendsLocked'
      BY ConstantsOK, <2>1, <3>1, <3>2, <3>3 DEF ConstantsOK
    <3>6. Unsignalled' /\ TakenBack' /\ OkIsAnswered'
      BY <3>3
    <3>7. Working' /\ CallerSends'
      BY <3>2, <3>3, <3>4
    <3> QED
      BY <3>5, <3>6, <3>7
  <2>2. CASE ~(job[s] \in active /\ outcome[job[s]] # "cancelled")
    <3>1. Finish(s) /\ at[s] # "idle"
      BY <1>1, <2>2 DEF Lock
    <3>2. UNCHANGED <<kind, outcome, active, pending, ch, deferred>>
      BY <1>1, <2>2 DEF Lock
    <3> QED
      BY <1>c, <3>1, <3>2
  <2> QED
    BY <2>1, <2>2
<1>2. ASSUME NEW s \in Senders, Send(s) PROVE Facts'
  <2>1. CASE conn # None /\ connected
    BY <1>2, <2>1 DEF Send
  <2>2. CASE ~(conn # None /\ connected)
    <3>1. Finish(s) /\ at[s] # "idle"
      BY <1>2, <2>2 DEF Send
    <3>2. UNCHANGED <<kind, outcome, active, pending, ch, deferred>>
      BY <1>2, <2>2 DEF Send
    <3> QED
      BY <1>c, <3>1, <3>2
  <2> QED
    BY <2>1, <2>2
<1>3. ASSUME NEW s \in Senders, Write(s) PROVE Facts'
  <2>1. Finish(s) /\ at[s] # "idle" /\ UNCHANGED <<kind, outcome, active, pending, ch, deferred>>
    BY <1>3 DEF Write
  <2> QED
    BY <1>c, <2>1
<1>4. ASSUME NEW r \in Requests, RegisterPending(r) PROVE Facts'
  BY <1>4 DEF RegisterPending, Recorded, FirstStep
<1>5. ASSUME NEW r \in Requests, OnAuthenticatedOnce(r) PROVE Facts'
  BY <1>5 DEF OnAuthenticatedOnce, FirstStep
<1>6. ASSUME NEW r \in Requests, CheckConnected(r) PROVE Facts'
  <2>1. CASE Goto(r, "send") /\ StartSend(r, r) /\ r \notin Barriers
    BY <1>6, <2>1 DEF CheckConnected, StartSend
  <2>2. CASE Goto(r, "cancel") /\ UNCHANGED sending
    BY <1>6, <2>2 DEF CheckConnected
  <2>3. CASE Goto(r, IF FirstStep(r) = "defer" THEN "wait" ELSE "defer") /\ UNCHANGED sending
    BY <1>6, <2>3 DEF CheckConnected
  <2> QED
    BY <1>6, <2>1, <2>2, <2>3 DEF CheckConnected
<1>7. ASSUME NEW r \in Requests, CancelDeferred(r) PROVE Facts'
  BY <1>7 DEF CancelDeferred, StartSend
<1>8. ASSUME NEW r \in Requests, Receive(r) PROVE Facts'
  <2>1. pc[r] = "wait" /\ outcome' = [outcome EXCEPT ![r] = Outcome(r)]
    BY <1>8 DEF Receive
  <2>2. pc' = [pc EXCEPT ![r] = IF r \in Barriers THEN "leave" ELSE "done"]
    BY <1>8 DEF Receive
  <2>3. UNCHANGED <<kind, active, pending, ch, deferred, at, job, sendMu>>
    BY <1>8 DEF Receive
  <2>4. ch[r] # "open" /\ ch[r] \in {"open", "answer", "error", "closed"}
    BY <1>8 DEF Receive
  <2>5. Unsignalled' /\ SendsLocked' /\ Working' /\ CallerSends' /\ TakenBack'
    BY ConstantsOK, <2>1, <2>2, <2>3, <2>4 DEF ConstantsOK
  <2>6. r \in Barriers \cup Projections /\ Outcome(r) = "ok" => ch[r] = "answer"
    BY ConstantsOK, <2>4 DEF Outcome, Charts, Aggregations, ConstantsOK
  <2>7. OkIsAnswered'
    BY <2>1, <2>3, <2>6
  <2> QED
    BY <2>5, <2>7
<1>9. ASSUME NEW r \in Requests, NEW why \in {"cancelled", "timeout"}, GiveUp(r, why) 
      PROVE Facts'
  BY <1>9 DEF GiveUp
<1>10. ASSUME NEW r \in Requests, Leave(r) PROVE Facts'
  <2>1. pc[r] = "leave" /\ sendMu[r] = None
    BY <1>10 DEF Leave, MayLeave
  <2>2. pc' = [pc EXCEPT ![r] = "undefer"] /\ active' = active \ {r}
    BY <1>10 DEF Leave
  <2>3. UNCHANGED <<kind, outcome, pending, ch, deferred, at, job, sendMu>>
    BY <1>10 DEF Leave
  <2>4. SendsLocked'
    BY ConstantsOK, <2>1, <2>2, <2>3 DEF ConstantsOK
  <2> QED
    BY <2>1, <2>2, <2>3, <2>4
<1>11. ASSUME NEW r \in Requests, Undefer(r) PROVE Facts'
  BY <1>11 DEF Undefer
<1>12. ASSUME NEW r \in Requests, DropPending(r) PROVE Facts'
  BY <1>12 DEF DropPending, Dropped
<1>13. ASSUME NEW c \in ConnIds, BeginAttempt(c) PROVE Facts'
  BY <1>13 DEF BeginAttempt, Stranded
<1>14. ASSUME NEW c \in ConnIds, Install(c) PROVE Facts'
  BY <1>14 DEF Install
<1>15. ASSUME NEW c \in ConnIds, ReadAuthenticated(c) PROVE Facts'
  BY <1>15 DEF ReadAuthenticated
<1>16. ASSUME NEW c \in ConnIds, OnAuthenticated(c) PROVE Facts'
  BY <1>16 DEF OnAuthenticated, Stranded
<1>17. ASSUME NEW c \in ConnIds, CallbacksDone(c) PROVE Facts'
  BY <1>17 DEF CallbacksDone
<1>18. ASSUME NEW c \in ConnIds, ResolvePending(c) PROVE Facts'
  BY <1>18 DEF ResolvePending, Taken
<1>19. ASSUME NEW c \in ConnIds, DropSocket(c) PROVE Facts'
  BY <1>19 DEF DropSocket, Close
<1>20. ASSUME NEW c \in ConnIds, ReadFails(c) PROVE Facts'
  BY <1>20 DEF ReadFails
<1>21. ASSUME NEW c \in ConnIds, EndAttempt(c) PROVE Facts'
  BY <1>21 DEF EndAttempt, RejectPending
<1>22. ASSUME NEW c \in ConnIds, NEW r \in Requests, RunCallback(c, r) PROVE Facts'
  <2>1. UNCHANGED <<kind, pc, outcome, active, pending, ch>> /\ deferred' = deferred \ {r}
    BY <1>22 DEF RunCallback
  <2>2. CASE r \in deferred
    <3>1. StartSend(c, r)
      BY <1>22, <2>2 DEF RunCallback
    <3>2. at' = [at EXCEPT ![c] = IF r \in Barriers THEN "lock" ELSE "send"]
          /\ job' = [job EXCEPT ![c] = r] /\ sendMu' = sendMu
      BY <3>1 DEF StartSend
    <3>3. Unsignalled' /\ TakenBack' /\ OkIsAnswered'
      BY <2>1
    <3>4. SendsLocked' /\ Working'
      BY <2>1, <3>2
    <3>5. CallerSends'
      BY ConstantsOK, <2>1, <3>2 DEF ConstantsOK
    <3> QED
      BY <3>3, <3>4, <3>5
  <2>3. CASE r \notin deferred
    BY <1>22, <2>1, <2>3 DEF RunCallback
  <2> QED
    BY <2>2, <2>3
<1>23. ASSUME NEW c \in ConnIds, NEW r \in Requests, NEW k \in {"answer", "error"}, Read(c, r, k) 
      PROVE Facts'
  BY <1>23 DEF Read
<1>24. CASE Start
  BY <1>24 DEF Start
<1>25. CASE Reconnect
  BY <1>25 DEF Reconnect, Replace, Close, Stranded
<1>26. CASE Promote
  BY <1>26 DEF Promote, Replace, Stranded
<1>27. CASE Disconnect
  BY <1>27 DEF Disconnect, Replace, Close, Stranded
<1>28. CASE UNCHANGED vars
  BY <1>28 DEF vars
<1> QED
  BY <1>1, <1>2, <1>3, <1>4, <1>5, <1>6, <1>7, <1>8, <1>9, <1>10, <1>11, <1>12, <1>13,
     <1>14, <1>15, <1>16, <1>17, <1>18, <1>19, <1>20, <1>21, <1>22, <1>23, <1>24, <1>25,
     <1>26, <1>27, <1>28
     DEF Next, SendStep, CallerStep, ConnStep

-----------------------------------------------------------------------------
(* In every reachable state the inductive invariant holds. *)
LEMMA Invariance == Spec => []IndInv
<1>1. IndInv /\ [Next]_vars => IndInv'
  BY TypeStep, FactsStep DEF IndInv, Facts
<1> QED
  BY InitInv, <1>1, PTL DEF Spec

(* The manager's table, the senders, the connections and the callers keep  *)
(* their types.                                                            *)
THEOREM TypeCorrect == Spec => []TypeOK
<1>1. IndInv => TypeOK
  BY DEF IndInv
<1> QED
  BY Invariance, <1>1, PTL

(* A channel is signalled once, by resolvePending or by endAttempt: each   *)
(* takes the entry off m.pending in the critical section that finds it.    *)
THEOREM OneSignal == Spec => SignalledOnce
<1>1. IndInv /\ [Next]_vars => (\A r \in Requests : ch[r] # "open" => ch'[r] = ch[r])
  <2> SUFFICES ASSUME IndInv, [Next]_vars,
                      NEW q \in Requests, ch[q] # "open"
               PROVE  ch'[q] = ch[q]
    OBVIOUS
  <2>1. q \notin pending
    BY DEF IndInv, Facts, Unsignalled
  <2> USE DEF callers, table, sending, link, reader, net, ghost
  <2>2. ASSUME NEW s \in Senders, SendStep(s) PROVE UNCHANGED ch
    BY <2>2 DEF SendStep, Lock, Send, Write
  <2>3. ASSUME NEW r \in Requests, CallerStep(r) PROVE UNCHANGED ch
    BY <2>3 DEF CallerStep, RegisterPending, OnAuthenticatedOnce, CheckConnected, CancelDeferred,
                Receive, GiveUp, Leave, Undefer, DropPending
  <2>4. ASSUME NEW c \in ConnIds, ResolvePending(c) PROVE ch'[q] = ch[q]
    BY <2>1, <2>4 DEF ResolvePending, IndInv, TypeOK
  <2>5. ASSUME NEW c \in ConnIds, EndAttempt(c) PROVE ch'[q] = ch[q]
    BY <2>1, <2>5 DEF EndAttempt, RejectPending
  <2>6. ASSUME NEW c \in ConnIds, ConnStep(c), ~ResolvePending(c), ~EndAttempt(c)
        PROVE  UNCHANGED ch
    BY <2>6 DEF ConnStep, BeginAttempt, Install, ReadAuthenticated, OnAuthenticated, CallbacksDone,
                RunCallback, Read, DropSocket, ReadFails
  <2>7. CASE Start \/ Reconnect \/ Promote \/ Disconnect
    BY <2>7 DEF Start, Reconnect, Promote, Disconnect, Replace
  <2>8. CASE UNCHANGED vars
    BY <2>8 DEF vars
  <2> QED
    BY <2>2, <2>3, <2>4, <2>5, <2>6, <2>7, <2>8 DEF Next
<1> QED
  BY Invariance, <1>1, PTL DEF Spec, SignalledOnce

(* A barrier that has returned sends nothing any more. *)
THEOREM NoLateSends == Spec => []NoLateSend
<1>1. IndInv => NoLateSend
  BY DEF IndInv, Facts, SendsLocked, NoLateSend
<1> QED
  BY Invariance, <1>1, PTL

(* A barrier or projection request that has returned leaves nothing behind. *)
THEOREM NothingIsLeft == Spec => []NothingLeft
<1>1. IndInv => NothingLeft
  BY DEF IndInv, Facts, TakenBack, NothingLeft
<1> QED
  BY Invariance, <1>1, PTL

(* A barrier or projection request succeeds only with an answer to it. *)
THEOREM OnlyAnswersSucceed == Spec => []OkIsAnswered
<1>1. IndInv => OkIsAnswered
  BY DEF IndInv, Facts
<1> QED
  BY Invariance, <1>1, PTL

(* Nothing of a request that returned is left, in m.pending, m.authList or *)
(* a sender's hands.                                                       *)
THEOREM RequestsAreSound == Spec => []RequestsSound
BY TypeCorrect, NothingIsLeft, NoLateSends, PTL DEF RequestsSound

-----------------------------------------------------------------------------
(* What keeps a barrier's message from getting lost: the caller defers it  *)
(* before it looks at the status.                                          *)

(* A barrier whose entry no connection took along. *)
Live(r) == r \in pending /\ r \notin stranded

Sending(s, r) == at[s] # "idle" /\ job[s] = r

(* Its message goes out, or is about to. *)
Underway(r) ==
    \/ pc[r] \in {"cancel", "send"}
    \/ \E c \in ConnIds : r \in due[c]
    \/ \E s \in Senders : Sending(s, r)

(* The connection of the current generation has authenticated. *)
Serving == gen \in ConnIds /\ rpc[gen] \in {"callbacks", "serve"}

(* Connections are made in turn; only callbacks have callbacks to run; the *)
(* status is connected once the current one has authenticated; a caller    *)
(* sends its own message.                                                  *)
Links ==
    /\ \A c \in ConnIds : c > used => rpc[c] = "none"
    /\ \A c \in ConnIds : rpc[c] # "callbacks" => due[c] = {}
    /\ Serving => connected
    /\ \A r \in Requests : at[r] # "idle" => job[r] = r

(* A request has its entry and its message from the moment it is made. *)
Made(r) ==
    /\ pc[r] = "idle" =>
          /\ r \notin deferred /\ \A c \in ConnIds : r \notin due[c]
          /\ \A s \in Senders : ~Sending(s, r)
    /\ pc[r] \in {"defer", "check", "cancel", "send", "wait"} =>
          r \in active /\ (ch[r] = "open" => r \in pending)

(* A message on its way goes to the connection that serves... *)
Aimed(r) == \A s \in Senders : Sending(s, r) /\ at[s] = "write" => target[s] = conn

(* ...and a barrier that waits was written there or has its message to go. *)
Asked(r) ==
    pc[r] = "wait" =>
        \/ r \in asked
        \/ r \in deferred /\ r \in due[gen]
        \/ \E s \in Senders : Sending(s, r)

Found(r) ==
    Live(r) =>
        /\ Underway(r) => connected
        /\ pc[r] \in {"check", "wait"} /\ ~connected => r \in deferred
        /\ Serving /\ conn = gen /\ conn \in alive => Aimed(r) /\ Asked(r)

Unlost == Links /\ \A r \in Barriers : Made(r) /\ Found(r)

(* Every step keeps the order of the connections and their callbacks.      *)
LEMMA LinksStep ==
    ASSUME IndInv, Links, [Next]_vars
    PROVE  Links'
<1>a. Requests \subseteq Senders /\ ConnIds \subseteq Senders
  BY DEF Senders
<1>b. used < MaxConns => used + 1 \in ConnIds
  BY ConstantsOK DEF IndInv, TypeOK, ConstantsOK, ConnIds
<1>n. used \in Nat /\ ConnIds \subseteq Nat
  BY DEF IndInv, TypeOK, ConnIds
<1>d. ConnIds \cap Requests = {} /\ None \notin ConnIds /\ None \notin Requests
  BY ConstantsOK DEF ConstantsOK, Senders
<1> USE <1>a, <1>n, <1>d DEF IndInv, TypeOK, Links, Serving, Goto, callers, table, sending, link, reader,
       net, ghost
<1>1. ASSUME NEW s \in Senders, Lock(s) PROVE Links'
  BY <1>1 DEF Lock, Finish
<1>2. ASSUME NEW s \in Senders, Send(s) PROVE Links'
  BY <1>2 DEF Send, Finish
<1>3. ASSUME NEW s \in Senders, Write(s) PROVE Links'
  BY <1>3 DEF Write, Finish
<1>4. ASSUME NEW q \in Requests, RegisterPending(q) PROVE Links'
  BY <1>4 DEF RegisterPending, FirstStep
<1>5. ASSUME NEW q \in Requests, OnAuthenticatedOnce(q) PROVE Links'
  BY <1>5 DEF OnAuthenticatedOnce, FirstStep
<1>6. ASSUME NEW q \in Requests, CheckConnected(q) PROVE Links'
  BY <1>6 DEF CheckConnected, StartSend, FirstStep
<1>7. ASSUME NEW q \in Requests, CancelDeferred(q) PROVE Links'
  BY <1>7 DEF CancelDeferred, StartSend
<1>8. ASSUME NEW q \in Requests, Receive(q) PROVE Links'
  BY <1>8 DEF Receive
<1>9. ASSUME NEW q \in Requests, Leave(q) PROVE Links'
  BY <1>9 DEF Leave
<1>10. ASSUME NEW q \in Requests, Undefer(q) PROVE Links'
  BY <1>10 DEF Undefer
<1>11. ASSUME NEW q \in Requests, DropPending(q) PROVE Links'
  BY <1>11 DEF DropPending, Dropped
<1>12. ASSUME NEW q \in Requests, NEW why \in {"cancelled", "timeout"}, GiveUp(q, why)
      PROVE  Links'
  BY <1>12 DEF GiveUp
<1>13. ASSUME NEW c \in ConnIds, BeginAttempt(c) PROVE Links'
  BY <1>13 DEF BeginAttempt, Stranded
<1>14. ASSUME NEW c \in ConnIds, Install(c) PROVE Links'
  BY <1>14 DEF Install
<1>15. ASSUME NEW c \in ConnIds, ReadAuthenticated(c) PROVE Links'
  BY <1>15 DEF ReadAuthenticated
<1>16. ASSUME NEW c \in ConnIds, OnAuthenticated(c) PROVE Links'
  BY <1>16 DEF OnAuthenticated, Stranded
<1>17. ASSUME NEW c \in ConnIds, CallbacksDone(c) PROVE Links'
  BY <1>17 DEF CallbacksDone
<1>18. ASSUME NEW c \in ConnIds, ResolvePending(c) PROVE Links'
  BY <1>18 DEF ResolvePending, Taken
<1>19. ASSUME NEW c \in ConnIds, DropSocket(c) PROVE Links'
  BY <1>19 DEF DropSocket, Close
<1>20. ASSUME NEW c \in ConnIds, ReadFails(c) PROVE Links'
  BY <1>20 DEF ReadFails
<1>21. ASSUME NEW c \in ConnIds, EndAttempt(c) PROVE Links'
  BY <1>21 DEF EndAttempt, RejectPending
<1>22. ASSUME NEW c \in ConnIds, NEW q \in Requests, RunCallback(c, q) PROVE Links'
  BY <1>22 DEF RunCallback, StartSend
<1>23. ASSUME NEW c \in ConnIds, NEW q \in Requests, NEW k \in {"answer", "error"}, Read(c, q, k)
      PROVE  Links'
  BY <1>23 DEF Read
<1>24. CASE Start
  BY <1>24 DEF Start
<1>25. CASE Reconnect
  BY <1>25 DEF Reconnect, Replace, Close, Stranded
<1>26. CASE Promote
  BY <1>26 DEF Promote, Replace, Stranded
<1>27. CASE Disconnect
  BY <1>27 DEF Disconnect, Replace, Close, Stranded
<1>28. CASE UNCHANGED vars
  BY <1>28 DEF vars
<1> QED
  BY <1>1, <1>2, <1>3, <1>4, <1>5, <1>6, <1>7, <1>8, <1>9, <1>10, <1>11, <1>12, <1>13,
     <1>14, <1>15, <1>16, <1>17, <1>18, <1>19, <1>20, <1>21, <1>22, <1>23, <1>24, <1>25,
     <1>26, <1>27, <1>28
     DEF Next, SendStep, CallerStep, ConnStep

(* Every step keeps a barrier's entry and message. *)
LEMMA MadeStep ==
    ASSUME IndInv, Links, NEW r \in Barriers, Made(r), [Next]_vars
    PROVE  Made(r)'
<1>a. Requests \subseteq Senders /\ ConnIds \subseteq Senders
  BY DEF Senders
<1>r. r \in Requests /\ r \in Senders /\ r \notin Others
  BY ConstantsOK DEF ConstantsOK, Requests, Senders
<1>d. ConnIds \cap Requests = {} /\ None \notin ConnIds /\ None \notin Requests
  BY ConstantsOK DEF ConstantsOK, Senders
<1> USE <1>a, <1>r, <1>d DEF IndInv, TypeOK, Facts, Working, CallerSends, Links, Made, Sending, Goto, callers,
       table, sending, link, reader, net, ghost
<1>1. ASSUME NEW s \in Senders, Lock(s) PROVE Made(r)'
  BY <1>1 DEF Lock, Finish
<1>2. ASSUME NEW s \in Senders, Send(s) PROVE Made(r)'
  <2>1. CASE conn # None /\ connected
    BY <1>2, <2>1 DEF Send
  <2>2. CASE ~(conn # None /\ connected)
    <3>1. Finish(s) /\ UNCHANGED <<kind, outcome, active, chartWatches, table, deferred, link,
                                   reader, net, ghost>>
      BY <1>2, <2>2 DEF Send
    <3> QED
      BY <1>2, <2>2, <3>1 DEF Send, Finish
  <2> QED
    BY <2>1, <2>2
<1>3. ASSUME NEW s \in Senders, Write(s) PROVE Made(r)'
  BY <1>3 DEF Write, Finish
<1>4. ASSUME NEW q \in Requests, RegisterPending(q) PROVE Made(r)'
  BY <1>4 DEF RegisterPending, FirstStep
<1>5. ASSUME NEW q \in Requests, OnAuthenticatedOnce(q) PROVE Made(r)'
  BY <1>5 DEF OnAuthenticatedOnce, FirstStep
<1>6. ASSUME NEW q \in Requests, CheckConnected(q) PROVE Made(r)'
  BY <1>6 DEF CheckConnected, StartSend, FirstStep
<1>7. ASSUME NEW q \in Requests, CancelDeferred(q) PROVE Made(r)'
  BY <1>7 DEF CancelDeferred, StartSend
<1>8. ASSUME NEW q \in Requests, Receive(q) PROVE Made(r)'
  BY <1>8 DEF Receive
<1>9. ASSUME NEW q \in Requests, Leave(q) PROVE Made(r)'
  BY <1>9 DEF Leave
<1>10. ASSUME NEW q \in Requests, Undefer(q) PROVE Made(r)'
  BY <1>10 DEF Undefer
<1>11. ASSUME NEW q \in Requests, DropPending(q) PROVE Made(r)'
  BY <1>11 DEF DropPending, Dropped
<1>12. ASSUME NEW q \in Requests, NEW why \in {"cancelled", "timeout"}, GiveUp(q, why)
      PROVE  Made(r)'
  BY <1>12 DEF GiveUp
<1>13. ASSUME NEW c \in ConnIds, BeginAttempt(c) PROVE Made(r)'
  BY <1>13 DEF BeginAttempt, Stranded
<1>14. ASSUME NEW c \in ConnIds, Install(c) PROVE Made(r)'
  BY <1>14 DEF Install
<1>15. ASSUME NEW c \in ConnIds, ReadAuthenticated(c) PROVE Made(r)'
  BY <1>15 DEF ReadAuthenticated
<1>16. ASSUME NEW c \in ConnIds, OnAuthenticated(c) PROVE Made(r)'
  BY <1>16 DEF OnAuthenticated, Stranded
<1>17. ASSUME NEW c \in ConnIds, CallbacksDone(c) PROVE Made(r)'
  BY <1>17 DEF CallbacksDone
<1>18. ASSUME NEW c \in ConnIds, ResolvePending(c) PROVE Made(r)'
  BY <1>18 DEF ResolvePending, Taken
<1>19. ASSUME NEW c \in ConnIds, DropSocket(c) PROVE Made(r)'
  BY <1>19 DEF DropSocket, Close
<1>20. ASSUME NEW c \in ConnIds, ReadFails(c) PROVE Made(r)'
  BY <1>20 DEF ReadFails
<1>21. ASSUME NEW c \in ConnIds, EndAttempt(c) PROVE Made(r)'
  BY <1>21 DEF EndAttempt, RejectPending
<1>22. ASSUME NEW c \in ConnIds, NEW q \in Requests, RunCallback(c, q) PROVE Made(r)'
  BY <1>22 DEF RunCallback, StartSend
<1>23. ASSUME NEW c \in ConnIds, NEW q \in Requests, NEW k \in {"answer", "error"}, Read(c, q, k)
      PROVE  Made(r)'
  BY <1>23 DEF Read
<1>24. CASE Start
  BY <1>24 DEF Start
<1>25. CASE Reconnect
  BY <1>25 DEF Reconnect, Replace, Close, Stranded
<1>26. CASE Promote
  BY <1>26 DEF Promote, Replace, Stranded
<1>27. CASE Disconnect
  BY <1>27 DEF Disconnect, Replace, Close, Stranded
<1>28. CASE UNCHANGED vars
  BY <1>28 DEF vars
<1> QED
  BY <1>1, <1>2, <1>3, <1>4, <1>5, <1>6, <1>7, <1>8, <1>9, <1>10, <1>11, <1>12, <1>13,
     <1>14, <1>15, <1>16, <1>17, <1>18, <1>19, <1>20, <1>21, <1>22, <1>23, <1>24, <1>25,
     <1>26, <1>27, <1>28
     DEF Next, SendStep, CallerStep, ConnStep

(* Every step keeps a barrier's message from getting lost. *)
LEMMA FoundStep ==
    ASSUME IndInv, Links, NEW r \in Barriers, Made(r), Found(r), [Next]_vars
    PROVE  Found(r)'
<1>a. Requests \subseteq Senders /\ ConnIds \subseteq Senders
  BY DEF Senders
<1>r. r \in Requests /\ r \in Senders /\ r \notin Others
  BY ConstantsOK DEF ConstantsOK, Requests, Senders
<1>d. ConnIds \cap Requests = {} /\ None \notin ConnIds /\ None \notin Requests
  BY ConstantsOK DEF ConstantsOK, Senders
<1>b. used < MaxConns => used + 1 \in ConnIds
  BY ConstantsOK DEF IndInv, TypeOK, ConstantsOK, ConnIds
<1>n. used \in Nat /\ ConnIds \subseteq Nat
  BY DEF IndInv, TypeOK, ConnIds
<1> USE <1>a, <1>r, <1>d DEF IndInv, TypeOK, Facts, Working, CallerSends, Links, Made, Found, Live, Underway,
       Serving, Aimed, Asked, Sending, Goto, callers, table, sending, link, reader, net, ghost
<1>1. ASSUME NEW s \in Senders, Lock(s) PROVE Found(r)'
  <2>0. at[s] = "lock" /\ job[s] \in Requests
    BY <1>1 DEF Lock
  <2>1. CASE job[s] \in active /\ outcome[job[s]] # "cancelled"
    <3>1. /\ at' = [at EXCEPT ![s] = "send"]
          /\ UNCHANGED <<kind, pc, outcome, active, pending, ch, deferred, job, target, conn,
                         connected, gen, rpc, due, alive, ghost>>
      BY <1>1, <2>1 DEF Lock
    <3> QED
      BY <2>0, <3>1
  <2>2. CASE ~(job[s] \in active /\ outcome[job[s]] # "cancelled")
    <3>1. /\ Finish(s)
          /\ UNCHANGED <<kind, outcome, active, pending, ch, deferred, conn, connected, gen, rpc,
                         due, alive, ghost>>
      BY <1>1, <2>2 DEF Lock
    <3>2. CASE pc[r] = "wait" \/ r = s
      <4>1. pc[r] \in {"wait", "send"} /\ (s = r => job[s] = r)
        BY <2>0, <3>2
      <4>2. r \in active /\ outcome[r] = "none"
        BY <4>1 DEF TakenBack
      <4>3. job[s] # r /\ s # r
        BY <2>2, <4>1, <4>2
      <4> QED
        BY <2>0, <3>1, <4>3 DEF Finish
    <3>3. CASE ~(pc[r] = "wait" \/ r = s)
      BY <2>0, <3>1, <3>3 DEF Finish
    <3> QED
      BY <3>2, <3>3
  <2> QED
    BY <2>1, <2>2
<1>2. ASSUME NEW s \in Senders, Send(s) PROVE Found(r)'
  <2>1. CASE conn # None /\ connected
    BY <1>2, <2>1 DEF Send
  <2>2. CASE ~(conn # None /\ connected)
    <3>1. Finish(s) /\ UNCHANGED <<kind, outcome, active, chartWatches, table, deferred, link,
                                   reader, net, ghost>>
      BY <1>2, <2>2 DEF Send
    <3> QED
      BY <1>2, <2>2, <3>1 DEF Send, Finish
  <2> QED
    BY <2>1, <2>2
<1>3. ASSUME NEW s \in Senders, Write(s) PROVE Found(r)'
  BY <1>3 DEF Write, Finish
<1>4. ASSUME NEW q \in Requests, RegisterPending(q) PROVE Found(r)'
  BY <1>4 DEF RegisterPending, FirstStep
<1>5. ASSUME NEW q \in Requests, OnAuthenticatedOnce(q) PROVE Found(r)'
  BY <1>5 DEF OnAuthenticatedOnce, FirstStep
<1>6. ASSUME NEW q \in Requests, CheckConnected(q) PROVE Found(r)'
  BY <1>6 DEF CheckConnected, StartSend, FirstStep
<1>7. ASSUME NEW q \in Requests, CancelDeferred(q) PROVE Found(r)'
  BY <1>7 DEF CancelDeferred, StartSend
<1>8. ASSUME NEW q \in Requests, Receive(q) PROVE Found(r)'
  BY <1>8 DEF Receive
<1>9. ASSUME NEW q \in Requests, Leave(q) PROVE Found(r)'
  BY <1>9 DEF Leave
<1>10. ASSUME NEW q \in Requests, Undefer(q) PROVE Found(r)'
  BY <1>10 DEF Undefer
<1>11. ASSUME NEW q \in Requests, DropPending(q) PROVE Found(r)'
  BY <1>11 DEF DropPending, Dropped
<1>12. ASSUME NEW q \in Requests, NEW why \in {"cancelled", "timeout"}, GiveUp(q, why)
      PROVE  Found(r)'
  BY <1>12 DEF GiveUp
<1>13. ASSUME NEW c \in ConnIds, BeginAttempt(c) PROVE Found(r)'
  BY <1>13 DEF BeginAttempt, Stranded
<1>14. ASSUME NEW c \in ConnIds, Install(c) PROVE Found(r)'
  BY <1>14 DEF Install
<1>15. ASSUME NEW c \in ConnIds, ReadAuthenticated(c) PROVE Found(r)'
  BY <1>15 DEF ReadAuthenticated
<1>16. ASSUME NEW c \in ConnIds, OnAuthenticated(c) PROVE Found(r)'
  BY <1>16 DEF OnAuthenticated, Stranded
<1>17. ASSUME NEW c \in ConnIds, CallbacksDone(c) PROVE Found(r)'
  BY <1>17 DEF CallbacksDone
<1>18. ASSUME NEW c \in ConnIds, ResolvePending(c) PROVE Found(r)'
  BY <1>18 DEF ResolvePending, Taken
<1>19. ASSUME NEW c \in ConnIds, DropSocket(c) PROVE Found(r)'
  BY <1>19 DEF DropSocket, Close
<1>20. ASSUME NEW c \in ConnIds, ReadFails(c) PROVE Found(r)'
  BY <1>20 DEF ReadFails
<1>21. ASSUME NEW c \in ConnIds, EndAttempt(c) PROVE Found(r)'
  BY <1>21 DEF EndAttempt, RejectPending
<1>22. ASSUME NEW c \in ConnIds, NEW q \in Requests, RunCallback(c, q) PROVE Found(r)'
  BY <1>22 DEF RunCallback, StartSend
<1>23. ASSUME NEW c \in ConnIds, NEW q \in Requests, NEW k \in {"answer", "error"}, Read(c, q, k)
      PROVE  Found(r)'
  BY <1>23 DEF Read
<1>24. CASE Start
  BY <1>24 DEF Start
<1>25. CASE Reconnect
  BY <1>25 DEF Reconnect, Replace, Close, Stranded
<1>26. CASE Promote
  BY <1>26 DEF Promote, Replace, Stranded
<1>27. CASE Disconnect
  BY <1>27 DEF Disconnect, Replace, Close, Stranded
<1>28. CASE UNCHANGED vars
  BY <1>28 DEF vars
<1> QED
  BY <1>1, <1>2, <1>3, <1>4, <1>5, <1>6, <1>7, <1>8, <1>9, <1>10, <1>11, <1>12, <1>13,
     <1>14, <1>15, <1>16, <1>17, <1>18, <1>19, <1>20, <1>21, <1>22, <1>23, <1>24, <1>25,
     <1>26, <1>27, <1>28
     DEF Next, SendStep, CallerStep, ConnStep

(* A barrier that still waits while a connection serves has been asked for *)
(* on that connection, for any number of callers and connections: the      *)
(* order of onAuthenticatedOnce and the look at the status loses no        *)
(* message, but to a replaced connection.                                  *)
THEOREM BarriersAsked == Spec => []BarrierAsked
<1>1. Init => Unlost
  <2> SUFFICES ASSUME Init PROVE Unlost
    OBVIOUS
  <2>1. None \notin ConnIds /\ Barriers \subseteq Requests /\ Requests \subseteq Senders
    BY ConstantsOK DEF ConstantsOK, Senders, Requests
  <2>2. Links
    BY <2>1 DEF Init, Links, Serving
  <2>3. ASSUME NEW r \in Barriers PROVE Made(r) /\ Found(r)
    BY <2>1, <2>3 DEF Init, Made, Found, Live, Sending
  <2> QED
    BY <2>2, <2>3 DEF Unlost
<1>2. IndInv /\ Unlost /\ [Next]_vars => Unlost'
  BY LinksStep, MadeStep, FoundStep DEF Unlost
<1>3. IndInv /\ Unlost => BarrierAsked
  <2> SUFFICES ASSUME IndInv, Unlost, Quiet,
                      NEW r \in Barriers, pc[r] = "wait", ch[r] = "open", r \notin stranded
               PROVE  r \in asked
    BY DEF BarrierAsked
  <2>1. conn \in ConnIds
    BY DEF IndInv, TypeOK, Quiet
  <2>2. Live(r) /\ Serving
    BY <2>1 DEF Unlost, Made, Live, Serving, Quiet
  <2>3. Asked(r)
    BY <2>2 DEF Unlost, Found, Quiet
  <2>4. due[gen] = {}
    BY <2>1 DEF Unlost, Links, Quiet
  <2> QED
    BY <2>3, <2>4 DEF Asked, Sending, Quiet
<1> QED
  BY <1>1, <1>2, <1>3, Invariance, PTL DEF Spec
=============================================================================
