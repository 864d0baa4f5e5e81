----------------------- MODULE WebSocketManagerProofs -----------------------
(***************************************************************************)
(* Proofs about WebSocketManager, for every set of goroutines and sockets, *)
(* every bound and every kind of fault.                                    *)
(***************************************************************************)
EXTENDS WebSocketManager, TLAPS

(* What the position of a goroutine says of its locals. *)
Holding == {"warmRead", "warmPong", "warmed", "warmErr", "warmArm", "warmFail",
            "warmClear"}

NoSocket(p) == pc[p] \in {"idle", "begin", "dial", "warmDial"} => lconn[p] = None
HasSocket(p) ==
    pc[p] \in {"install", "read", "handle", "arm", "serve", "warmInstall"}
             \cup (Holding \ {"warmFail"}) => lconn[p] # None
NoHandoffSocket(p) == pc[p] \in {"idle", "warmDial", "warmInstall"} => hconn[p] = None
HandoffSocket(p) == pc[p] \in Holding => hconn[p] = lconn[p]
NoGeneration(p) == pc[p] \in {"idle", "retry"} \cup WarmingPCs => own[p] = 0
SocketGone(p) == pc[p] \in {"end", "warmFail", "warmClear", "retry"} => lconn[p] \notin open

(* What being the current handoff says of it. *)
HandoffShape(p) ==
    handoff = p =>
        /\ own[p] = 0
        /\ base[p] = gen
        /\ lconn[p] # None => conn # lconn[p]
        /\ pc[p] \in WarmingPCs \cup {"warmed", "warmErr", "warmFail"}
        /\ p \in promote => pc[p] \in {"warmed", "warmErr", "warmFail"}

(* What owning the current generation says of m.conn. *)
Serving == {"read", "handle", "arm", "serve", "warmArm", "warmed", "warmErr",
            "warmFail", "warmClear"}

OwnerShape(p) ==
    own[p] # 0 /\ own[p] = gen =>
        /\ pc[p] \in Serving => conn = lconn[p]
        /\ pc[p] \in {"begin", "dial", "install", "end"} => conn \notin open

(* Only the owner of the current generation reads m.conn. *)
ReaderShape(p) == conn # None /\ conn = lconn[p] => own[p] = gen

Shape ==
    \A p \in Loops :
        /\ NoSocket(p)
        /\ HasSocket(p)
        /\ NoHandoffSocket(p)
        /\ HandoffSocket(p)
        /\ NoGeneration(p)
        /\ SocketGone(p)
        /\ HandoffShape(p)
        /\ OwnerShape(p)
        /\ ReaderShape(p)

(* The generation fence: what one m.gen and one m.connecting buy. *)
Fence ==
    /\ \A p \in Loops : own[p] <= gen
    /\ shouldConnect => gen # 0
    /\ UniqueOwner
    /\ SlotHeld
    /\ DisconnectSticks

DistinctSockets ==
    \A p, q \in Loops : lconn[p] # None /\ lconn[p] = lconn[q] => p = q

IndInv ==
    /\ TypeOK
    /\ Fence
    /\ DistinctSockets
    /\ Shape
    /\ NoLeakedSocket
    /\ AttendedOrDead
    /\ HandoffBounded

-----------------------------------------------------------------------------
(* Every step preserves the type invariant. *)
LEMMA TypeStep ==
    ASSUME TypeOK, [Next]_vars
    PROVE  TypeOK'
<1> USE ConstantsOK DEF TypeOK, MgrOK, RotOK, LocOK, EnvOK, PCs, ConnectPCs, WarmingPCs, WarmedPCs, Statuses, vars, mgr, rot, loc, env
<1>1. ASSUME NEW p \in Loops, EnsureConnected(p) PROVE TypeOK'
  <2>1. CASE connecting
    BY <1>1, <2>1 DEF EnsureConnected, StartLoop, Free, Goto
  <2>2. CASE ~connecting
    BY <1>1, <2>2 DEF EnsureConnected, StartLoop, Free, Goto
  <2> QED
    BY <1>1, <2>1, <2>2 DEF EnsureConnected
<1>2. ASSUME NEW p \in Loops, Reconnect(p) PROVE TypeOK'
  <2>1. MgrOK'
    BY <1>2 DEF Reconnect, StartLoop, Goto, TakeHandoff
  <2>2. RotOK'
    BY <1>2 DEF Reconnect, StartLoop, Goto, TakeHandoff, StopHandoffTimers
  <2>3. LocOK'
    BY <1>2 DEF Reconnect, StartLoop, Goto
  <2>4. EnvOK'
    BY <1>2 DEF Reconnect, StartLoop, Goto
  <2> QED
    BY <2>1, <2>2, <2>3, <2>4
<1>3. ASSUME NEW p \in Loops, RotateConnection(p) PROVE TypeOK'
  BY <1>3 DEF RotateConnection, CanRotate, StartHandoff, ArmTimeout, Free, Goto
<1>4. ASSUME NEW p \in Loops, BeginAttempt(p) PROVE TypeOK'
  BY <1>4 DEF BeginAttempt, Superseded, LeaveLoop, OwnsSlot, Exit, Goto
<1>5. ASSUME NEW p \in Loops, NEW c \in Conns, Dial(p, c) PROVE TypeOK'
  BY <1>5 DEF Dial, Fresh, Goto
<1>6. ASSUME NEW p \in Loops, DialFails(p) PROVE TypeOK'
  BY <1>6 DEF DialFails, Fault, Goto
<1>7. ASSUME NEW p \in Loops, Install(p) PROVE TypeOK'
  BY <1>7 DEF Install, Superseded, Goto
<1>8. ASSUME NEW p \in Loops, WriteAuthFails(p) PROVE TypeOK'
  BY <1>8 DEF WriteAuthFails, Fault, Goto
<1>9. ASSUME NEW p \in Loops, ReadAuthenticated(p) PROVE TypeOK'
  BY <1>9 DEF ReadAuthenticated, Current, Goto
<1>10. ASSUME NEW p \in Loops, OnAuthenticated(p) PROVE TypeOK'
  BY <1>10 DEF OnAuthenticated, Goto
<1>11. ASSUME NEW p \in Loops, Arm(p) PROVE TypeOK'
  BY <1>11 DEF Arm, Goto
<1>12. ASSUME NEW p \in Loops, ReadFails(p) PROVE TypeOK'
  BY <1>12 DEF ReadFails, Goto
<1>13. ASSUME NEW p \in Loops, ReadStale(p) PROVE TypeOK'
  BY <1>13 DEF ReadStale, Current, Goto
<1>14. ASSUME NEW p \in Loops, EndAttempt(p) PROVE TypeOK'
  <2>1. CASE Superseded(p)
    BY <1>14, <2>1 DEF EndAttempt, LeaveLoop, OwnsSlot, Exit, Goto
  <2>2. CASE ~Superseded(p)
    <3>1. MgrOK'
      BY <1>14, <2>2 DEF EndAttempt
    <3>2. RotOK'
      <4>1. /\ TakeHandoff
            /\ rotationTimer' = FALSE
            /\ UNCHANGED <<attempts, sched>>
        BY <1>14, <2>2 DEF EndAttempt
      <4> QED
        BY <4>1 DEF TakeHandoff, StopHandoffTimers
    <3>3. LocOK'
      BY <1>14, <2>2 DEF EndAttempt, Goto
    <3>4. EnvOK'
      BY <1>14, <2>2 DEF EndAttempt
    <3> QED
      BY <3>1, <3>2, <3>3, <3>4
  <2> QED
    BY <2>1, <2>2
<1>15. ASSUME NEW p \in Loops, RotationTimerFires(p) PROVE TypeOK'
  <2>1. CASE CanRotate
    <3>1. StartHandoff(p) /\ rotationTimer' = FALSE
      BY <1>15, <2>1 DEF RotationTimerFires
    <3> QED
      BY <3>1 DEF StartHandoff, ArmTimeout, Goto
  <2>2. CASE ~CanRotate
    BY <1>15, <2>2 DEF RotationTimerFires
  <2> QED
    BY <2>1, <2>2
<1>16. ASSUME NEW p \in Loops, PromoteOnTimer(p) PROVE TypeOK'
  <2>1. CASE PutOff(p) /\ UNCHANGED sched
    BY <1>16, <2>1 DEF PromoteOnTimer, CanPromote, PutOff, TakeOver, PromotedGen, StopHandoffTimers
  <2>2. CASE TakeOver(p) /\ sched' = [sched EXCEPT ![p] = "next"]
    BY <1>16, <2>2 DEF PromoteOnTimer, CanPromote, PutOff, TakeOver, PromotedGen, StopHandoffTimers
  <2> QED
    BY <1>16, <2>1, <2>2 DEF PromoteOnTimer
<1>17. ASSUME NEW p \in Loops, HandoffTimeoutFires(p) PROVE TypeOK'
  BY <1>17 DEF HandoffTimeoutFires
<1>18. ASSUME NEW p \in Loops, HandoffTimeoutRuns(p) PROVE TypeOK'
  BY <1>18 DEF HandoffTimeoutRuns
<1>19. ASSUME NEW p \in Loops, ScheduleRotation(p) PROVE TypeOK'
  BY <1>19 DEF ScheduleRotation
<1>20. ASSUME NEW p \in Loops, NEW c \in Conns, WarmDial(p, c) PROVE TypeOK'
  BY <1>20 DEF WarmDial, Fresh, Goto
<1>21. ASSUME NEW p \in Loops, WarmDialFails(p) PROVE TypeOK'
  BY <1>21 DEF WarmDialFails, Fault, Goto
<1>22. ASSUME NEW p \in Loops, WarmInstall(p) PROVE TypeOK'
  BY <1>22 DEF WarmInstall, Exit, Goto
<1>23. ASSUME NEW p \in Loops, WarmWriteAuthFails(p) PROVE TypeOK'
  BY <1>23 DEF WarmWriteAuthFails, Fault, Goto
<1>24. ASSUME NEW p \in Loops, WarmError(p) PROVE TypeOK'
  BY <1>24 DEF WarmError, Fault, Mine, Promoted, Goto
<1>25. ASSUME NEW p \in Loops, WarmReadFails(p) PROVE TypeOK'
  <2>1. CASE Promoted(p)
    BY <1>25, <2>1 DEF WarmReadFails, Promoted, Goto
  <2>2. CASE ~Promoted(p)
    BY <1>25, <2>2 DEF WarmReadFails, Promoted, Goto
  <2> QED
    BY <1>25, <2>1, <2>2 DEF WarmReadFails
<1>26. ASSUME NEW p \in Loops, WarmReadStale(p) PROVE TypeOK'
  BY <1>26 DEF WarmReadStale, Mine, Promoted, Exit, Goto
<1>27. ASSUME NEW p \in Loops, ClearPromoted(p) PROVE TypeOK'
  BY <1>27 DEF ClearPromoted, Promoted, Goto
<1>28. ASSUME NEW p \in Loops, AbortFailed(p) PROVE TypeOK'
  <2>1. CASE handoff = p
    BY <1>28, <2>1 DEF AbortFailed, AbortHandoff, StopHandoffTimers, Exit, Goto
  <2>2. CASE handoff # p
    BY <1>28, <2>2 DEF AbortFailed, AbortHandoff, StopHandoffTimers, Exit, Goto
  <2> QED
    BY <1>28, <2>1, <2>2 DEF AbortFailed
<1>29. ASSUME NEW p \in Loops, AbortRefused(p) PROVE TypeOK'
  BY <1>29 DEF AbortRefused, AbortHandoff, StopHandoffTimers, Goto
<1>30. ASSUME NEW p \in Loops, Retry(p) PROVE TypeOK'
  BY <1>30 DEF Retry, ScheduleRetry, Exit, Goto
<1>31. ASSUME NEW p \in Loops, PromoteOnPong(p) PROVE TypeOK'
  <2>1. CASE ~CanPromote(p)
    BY <1>31, <2>1 DEF PromoteOnPong, CanPromote, PutOff, TakeOver, PromotedGen, StopHandoffTimers, Goto
  <2>2. CASE CanPromote(p) /\ PutOff(p) /\ Goto(p, "warmed")
    BY <1>31, <2>2 DEF PromoteOnPong, CanPromote, PutOff, TakeOver, PromotedGen, StopHandoffTimers, Goto
  <2>3. CASE CanPromote(p) /\ TakeOver(p) /\ Goto(p, "warmArm")
    BY <1>31, <2>3 DEF PromoteOnPong, CanPromote, PutOff, TakeOver, PromotedGen, StopHandoffTimers, Goto
  <2> QED
    BY <1>31, <2>1, <2>2, <2>3 DEF PromoteOnPong, CanPromote
<1>32. ASSUME NEW p \in Loops, WarmArm(p) PROVE TypeOK'
  BY <1>32 DEF WarmArm, Goto
<1>33. ASSUME NEW p \in Loops, WarmPong(p) PROVE TypeOK'
  BY <1>33 DEF WarmPong, Mine, Promoted, Goto
<1>34. CASE Disconnect
  <2>1. MgrOK'
    <3>1. conn' = None /\ gen' = gen + 1
      BY <1>34 DEF Disconnect
    <3>2. status' \in Statuses /\ shouldConnect' \in BOOLEAN /\ connecting' \in BOOLEAN
      BY <1>34 DEF Disconnect
    <3> QED
      BY <3>1, <3>2
  <2>2. RotOK'
    BY <1>34 DEF Disconnect, TakeHandoff, StopHandoffTimers
  <2>3. LocOK'
    BY <1>34 DEF Disconnect
  <2>4. EnvOK'
    BY <1>34 DEF Disconnect
  <2> QED
    BY <2>1, <2>2, <2>3, <2>4
<1>35. CASE RegisterPending
  BY <1>35 DEF RegisterPending
<1>36. CASE ResolvePending
  BY <1>36 DEF ResolvePending
<1>37. ASSUME NEW c \in Conns, Drop(c) PROVE TypeOK'
  BY <1>37 DEF Drop, Fault
<1>38. CASE UNCHANGED vars
  BY <1>38
<1> QED
  BY <1>1, <1>2, <1>3, <1>4, <1>5, <1>6, <1>7, <1>8, <1>9, <1>10,
     <1>11, <1>12, <1>13, <1>14, <1>15, <1>16, <1>17, <1>18, <1>19, <1>20,
     <1>21, <1>22, <1>23, <1>24, <1>25, <1>26, <1>27, <1>28, <1>29, <1>30,
     <1>31, <1>32, <1>33, <1>34, <1>35, <1>36, <1>37, <1>38
     DEF Next, UserStep, ConnectStep, TimerStep, WarmStep, EnvStep

(* Every step preserves the generation fence. *)
LEMMA FenceStep ==
    ASSUME TypeOK, Fence, [Next]_vars
    PROVE  Fence'
<1> USE ConstantsOK DEF Fence, UniqueOwner, SlotHeld, DisconnectSticks, TypeOK, MgrOK, RotOK, LocOK, EnvOK, PCs, ConnectPCs, WarmingPCs, WarmedPCs, Statuses, vars, mgr, rot, loc, env
<1>1. ASSUME NEW p \in Loops, EnsureConnected(p) PROVE Fence'
  <2>1. CASE connecting
    BY <1>1, <2>1 DEF EnsureConnected, StartLoop, Free, Goto
  <2>2. CASE ~connecting
    BY <1>1, <2>2 DEF EnsureConnected, StartLoop, Free, Goto
  <2> QED
    BY <1>1, <2>1, <2>2 DEF EnsureConnected
<1>2. ASSUME NEW p \in Loops, Reconnect(p) PROVE Fence'
  BY <1>2 DEF Reconnect, StartLoop, Free, Goto, TakeHandoff, StopHandoffTimers
<1>3. ASSUME NEW p \in Loops, RotateConnection(p) PROVE Fence'
  BY <1>3 DEF RotateConnection, CanRotate, StartHandoff, ArmTimeout, Free, Goto
<1>4. ASSUME NEW p \in Loops, BeginAttempt(p) PROVE Fence'
  BY <1>4 DEF BeginAttempt, Superseded, LeaveLoop, OwnsSlot, Exit, Goto
<1>5. ASSUME NEW p \in Loops, NEW c \in Conns, Dial(p, c) PROVE Fence'
  BY <1>5 DEF Dial, Fresh, Goto
<1>6. ASSUME NEW p \in Loops, DialFails(p) PROVE Fence'
  BY <1>6 DEF DialFails, Fault, Goto
<1>7. ASSUME NEW p \in Loops, Install(p) PROVE Fence'
  BY <1>7 DEF Install, Superseded, Goto
<1>8. ASSUME NEW p \in Loops, WriteAuthFails(p) PROVE Fence'
  BY <1>8 DEF WriteAuthFails, Fault, Goto
<1>9. ASSUME NEW p \in Loops, ReadAuthenticated(p) PROVE Fence'
  BY <1>9 DEF ReadAuthenticated, Current, Goto
<1>10. ASSUME NEW p \in Loops, OnAuthenticated(p) PROVE Fence'
  BY <1>10 DEF OnAuthenticated, Goto
<1>11. ASSUME NEW p \in Loops, Arm(p) PROVE Fence'
  BY <1>11 DEF Arm, Goto
<1>12. ASSUME NEW p \in Loops, ReadFails(p) PROVE Fence'
  BY <1>12 DEF ReadFails, Goto
<1>13. ASSUME NEW p \in Loops, ReadStale(p) PROVE Fence'
  BY <1>13 DEF ReadStale, Current, Goto
<1>14. ASSUME NEW p \in Loops, EndAttempt(p) PROVE Fence'
  <2>1. CASE Superseded(p)
    BY <1>14, <2>1 DEF EndAttempt, Superseded, LeaveLoop, OwnsSlot, Exit, Goto, TakeHandoff, StopHandoffTimers
  <2>2. CASE ~Superseded(p)
    BY <1>14, <2>2 DEF EndAttempt, Superseded, LeaveLoop, OwnsSlot, Exit, Goto, TakeHandoff, StopHandoffTimers
  <2> QED
    BY <1>14, <2>1, <2>2 DEF EndAttempt
<1>15. ASSUME NEW p \in Loops, RotationTimerFires(p) PROVE Fence'
  <2>1. CASE CanRotate
    BY <1>15, <2>1 DEF RotationTimerFires, CanRotate, StartHandoff, ArmTimeout, Free, Goto
  <2>2. CASE ~CanRotate
    BY <1>15, <2>2 DEF RotationTimerFires, CanRotate, StartHandoff, ArmTimeout, Free, Goto
  <2> QED
    BY <1>15, <2>1, <2>2 DEF RotationTimerFires
<1>16. ASSUME NEW p \in Loops, PromoteOnTimer(p) PROVE Fence'
  <2>1. CASE PutOff(p) /\ UNCHANGED sched
    BY <1>16, <2>1 DEF PromoteOnTimer, CanPromote, PutOff, TakeOver, PromotedGen, StopHandoffTimers
  <2>2. CASE TakeOver(p) /\ sched' = [sched EXCEPT ![p] = "next"]
    BY <1>16, <2>2 DEF PromoteOnTimer, CanPromote, PutOff, TakeOver, PromotedGen, StopHandoffTimers
  <2> QED
    BY <1>16, <2>1, <2>2 DEF PromoteOnTimer
<1>17. ASSUME NEW p \in Loops, HandoffTimeoutFires(p) PROVE Fence'
  BY <1>17 DEF HandoffTimeoutFires
<1>18. ASSUME NEW p \in Loops, HandoffTimeoutRuns(p) PROVE Fence'
  BY <1>18 DEF HandoffTimeoutRuns
<1>19. ASSUME NEW p \in Loops, ScheduleRotation(p) PROVE Fence'
  BY <1>19 DEF ScheduleRotation
<1>20. ASSUME NEW p \in Loops, NEW c \in Conns, WarmDial(p, c) PROVE Fence'
  BY <1>20 DEF WarmDial, Fresh, Goto
<1>21. ASSUME NEW p \in Loops, WarmDialFails(p) PROVE Fence'
  BY <1>21 DEF WarmDialFails, Fault, Goto
<1>22. ASSUME NEW p \in Loops, WarmInstall(p) PROVE Fence'
  BY <1>22 DEF WarmInstall, Exit, Goto
<1>23. ASSUME NEW p \in Loops, WarmWriteAuthFails(p) PROVE Fence'
  BY <1>23 DEF WarmWriteAuthFails, Fault, Goto
<1>24. ASSUME NEW p \in Loops, WarmError(p) PROVE Fence'
  BY <1>24 DEF WarmError, Fault, Mine, Promoted, Goto
<1>25. ASSUME NEW p \in Loops, WarmReadFails(p) PROVE Fence'
  <2>1. CASE Promoted(p)
    BY <1>25, <2>1 DEF WarmReadFails, Promoted, Goto
  <2>2. CASE ~Promoted(p)
    BY <1>25, <2>2 DEF WarmReadFails, Promoted, Goto
  <2> QED
    BY <1>25, <2>1, <2>2 DEF WarmReadFails
<1>26. ASSUME NEW p \in Loops, WarmReadStale(p) PROVE Fence'
  BY <1>26 DEF WarmReadStale, Mine, Promoted, Exit, Goto
<1>27. ASSUME NEW p \in Loops, ClearPromoted(p) PROVE Fence'
  BY <1>27 DEF ClearPromoted, Promoted, Goto
<1>28. ASSUME NEW p \in Loops, AbortFailed(p) PROVE Fence'
  <2>1. CASE handoff = p
    BY <1>28, <2>1 DEF AbortFailed, AbortHandoff, StopHandoffTimers, Exit, Goto
  <2>2. CASE handoff # p
    BY <1>28, <2>2 DEF AbortFailed, AbortHandoff, StopHandoffTimers, Exit, Goto
  <2> QED
    BY <1>28, <2>1, <2>2 DEF AbortFailed
<1>29. ASSUME NEW p \in Loops, AbortRefused(p) PROVE Fence'
  BY <1>29 DEF AbortRefused, AbortHandoff, StopHandoffTimers, Goto
<1>30. ASSUME NEW p \in Loops, Retry(p) PROVE Fence'
  BY <1>30 DEF Retry, ScheduleRetry, Exit, Goto
<1>31. ASSUME NEW p \in Loops, PromoteOnPong(p) PROVE Fence'
  <2>1. CASE ~CanPromote(p)
    BY <1>31, <2>1 DEF PromoteOnPong, CanPromote, PutOff, TakeOver, PromotedGen, StopHandoffTimers, Goto
  <2>2. CASE CanPromote(p) /\ PutOff(p) /\ Goto(p, "warmed")
    BY <1>31, <2>2 DEF PromoteOnPong, CanPromote, PutOff, TakeOver, PromotedGen, StopHandoffTimers, Goto
  <2>3. CASE CanPromote(p) /\ TakeOver(p) /\ Goto(p, "warmArm")
    BY <1>31, <2>3 DEF PromoteOnPong, CanPromote, PutOff, TakeOver, PromotedGen, StopHandoffTimers, Goto
  <2> QED
    BY <1>31, <2>1, <2>2, <2>3 DEF PromoteOnPong, CanPromote
<1>32. ASSUME NEW p \in Loops, WarmArm(p) PROVE Fence'
  BY <1>32 DEF WarmArm, Goto
<1>33. ASSUME NEW p \in Loops, WarmPong(p) PROVE Fence'
  BY <1>33 DEF WarmPong, Mine, Promoted, Goto
<1>34. CASE Disconnect
  BY <1>34 DEF Disconnect, TakeHandoff, StopHandoffTimers
<1>35. CASE RegisterPending
  BY <1>35 DEF RegisterPending
<1>36. CASE ResolvePending
  BY <1>36 DEF ResolvePending
<1>37. ASSUME NEW c \in Conns, Drop(c) PROVE Fence'
  BY <1>37 DEF Drop, Fault
<1>38. CASE UNCHANGED vars
  BY <1>38
<1> QED
  BY <1>1, <1>2, <1>3, <1>4, <1>5, <1>6, <1>7, <1>8, <1>9, <1>10,
     <1>11, <1>12, <1>13, <1>14, <1>15, <1>16, <1>17, <1>18, <1>19, <1>20,
     <1>21, <1>22, <1>23, <1>24, <1>25, <1>26, <1>27, <1>28, <1>29, <1>30,
     <1>31, <1>32, <1>33, <1>34, <1>35, <1>36, <1>37, <1>38
     DEF Next, UserStep, ConnectStep, TimerStep, WarmStep, EnvStep

(* Every step keeps the sockets of goroutines apart. *)
LEMMA DistinctStep ==
    ASSUME TypeOK, DistinctSockets, [Next]_vars
    PROVE  DistinctSockets'
<1> USE ConstantsOK DEF DistinctSockets, TypeOK, MgrOK, RotOK, LocOK, EnvOK, PCs, ConnectPCs, WarmingPCs, WarmedPCs, Statuses, vars, mgr, rot, loc, env
<1>1. ASSUME NEW p \in Loops, EnsureConnected(p) PROVE DistinctSockets'
  <2>1. CASE connecting
    BY <1>1, <2>1 DEF EnsureConnected, StartLoop, Free, Goto
  <2>2. CASE ~connecting
    BY <1>1, <2>2 DEF EnsureConnected, StartLoop, Free, Goto
  <2> QED
    BY <1>1, <2>1, <2>2 DEF EnsureConnected
<1>2. ASSUME NEW p \in Loops, Reconnect(p) PROVE DistinctSockets'
  BY <1>2 DEF Reconnect, StartLoop, Free, Goto, TakeHandoff, StopHandoffTimers
<1>3. ASSUME NEW p \in Loops, RotateConnection(p) PROVE DistinctSockets'
  BY <1>3 DEF RotateConnection, CanRotate, StartHandoff, ArmTimeout, Free, Goto
<1>4. ASSUME NEW p \in Loops, BeginAttempt(p) PROVE DistinctSockets'
  BY <1>4 DEF BeginAttempt, Superseded, LeaveLoop, OwnsSlot, Exit, Goto
<1>5. ASSUME NEW p \in Loops, NEW c \in Conns, Dial(p, c) PROVE DistinctSockets'
  BY <1>5 DEF Dial, Fresh, Goto
<1>6. ASSUME NEW p \in Loops, DialFails(p) PROVE DistinctSockets'
  BY <1>6 DEF DialFails, Fault, Goto
<1>7. ASSUME NEW p \in Loops, Install(p) PROVE DistinctSockets'
  BY <1>7 DEF Install, Superseded, Goto
<1>8. ASSUME NEW p \in Loops, WriteAuthFails(p) PROVE DistinctSockets'
  BY <1>8 DEF WriteAuthFails, Fault, Goto
<1>9. ASSUME NEW p \in Loops, ReadAuthenticated(p) PROVE DistinctSockets'
  BY <1>9 DEF ReadAuthenticated, Current, Goto
<1>10. ASSUME NEW p \in Loops, OnAuthenticated(p) PROVE DistinctSockets'
  BY <1>10 DEF OnAuthenticated, Goto
<1>11. ASSUME NEW p \in Loops, Arm(p) PROVE DistinctSockets'
  BY <1>11 DEF Arm, Goto
<1>12. ASSUME NEW p \in Loops, ReadFails(p) PROVE DistinctSockets'
  BY <1>12 DEF ReadFails, Goto
<1>13. ASSUME NEW p \in Loops, ReadStale(p) PROVE DistinctSockets'
  BY <1>13 DEF ReadStale, Current, Goto
<1>14. ASSUME NEW p \in Loops, EndAttempt(p) PROVE DistinctSockets'
  <2>1. CASE Superseded(p)
    BY <1>14, <2>1 DEF EndAttempt, Superseded, LeaveLoop, OwnsSlot, Exit, Goto, TakeHandoff, StopHandoffTimers
  <2>2. CASE ~Superseded(p)
    BY <1>14, <2>2 DEF EndAttempt, Superseded, LeaveLoop, OwnsSlot, Exit, Goto, TakeHandoff, StopHandoffTimers
  <2> QED
    BY <1>14, <2>1, <2>2 DEF EndAttempt
<1>15. ASSUME NEW p \in Loops, RotationTimerFires(p) PROVE DistinctSockets'
  <2>1. CASE CanRotate
    BY <1>15, <2>1 DEF RotationTimerFires, CanRotate, StartHandoff, ArmTimeout, Free, Goto
  <2>2. CASE ~CanRotate
    BY <1>15, <2>2 DEF RotationTimerFires, CanRotate, StartHandoff, ArmTimeout, Free, Goto
  <2> QED
    BY <1>15, <2>1, <2>2 DEF RotationTimerFires
<1>16. ASSUME NEW p \in Loops, PromoteOnTimer(p) PROVE DistinctSockets'
  <2>1. CASE PutOff(p) /\ UNCHANGED sched
    BY <1>16, <2>1 DEF PromoteOnTimer, CanPromote, PutOff, TakeOver, PromotedGen, StopHandoffTimers
  <2>2. CASE TakeOver(p) /\ sched' = [sched EXCEPT ![p] = "next"]
    BY <1>16, <2>2 DEF PromoteOnTimer, CanPromote, PutOff, TakeOver, PromotedGen, StopHandoffTimers
  <2> QED
    BY <1>16, <2>1, <2>2 DEF PromoteOnTimer
<1>17. ASSUME NEW p \in Loops, HandoffTimeoutFires(p) PROVE DistinctSockets'
  BY <1>17 DEF HandoffTimeoutFires
<1>18. ASSUME NEW p \in Loops, HandoffTimeoutRuns(p) PROVE DistinctSockets'
  BY <1>18 DEF HandoffTimeoutRuns
<1>19. ASSUME NEW p \in Loops, ScheduleRotation(p) PROVE DistinctSockets'
  BY <1>19 DEF ScheduleRotation
<1>20. ASSUME NEW p \in Loops, NEW c \in Conns, WarmDial(p, c) PROVE DistinctSockets'
  BY <1>20 DEF WarmDial, Fresh, Goto
<1>21. ASSUME NEW p \in Loops, WarmDialFails(p) PROVE DistinctSockets'
  BY <1>21 DEF WarmDialFails, Fault, Goto
<1>22. ASSUME NEW p \in Loops, WarmInstall(p) PROVE DistinctSockets'
  BY <1>22 DEF WarmInstall, Exit, Goto
<1>23. ASSUME NEW p \in Loops, WarmWriteAuthFails(p) PROVE DistinctSockets'
  BY <1>23 DEF WarmWriteAuthFails, Fault, Goto
<1>24. ASSUME NEW p \in Loops, WarmError(p) PROVE DistinctSockets'
  BY <1>24 DEF WarmError, Fault, Mine, Promoted, Goto
<1>25. ASSUME NEW p \in Loops, WarmReadFails(p) PROVE DistinctSockets'
  <2>1. CASE Promoted(p)
    BY <1>25, <2>1 DEF WarmReadFails, Promoted, Goto
  <2>2. CASE ~Promoted(p)
    BY <1>25, <2>2 DEF WarmReadFails, Promoted, Goto
  <2> QED
    BY <1>25, <2>1, <2>2 DEF WarmReadFails
<1>26. ASSUME NEW p \in Loops, WarmReadStale(p) PROVE DistinctSockets'
  BY <1>26 DEF WarmReadStale, Mine, Promoted, Exit, Goto
<1>27. ASSUME NEW p \in Loops, ClearPromoted(p) PROVE DistinctSockets'
  BY <1>27 DEF ClearPromoted, Promoted, Goto
<1>28. ASSUME NEW p \in Loops, AbortFailed(p) PROVE DistinctSockets'
  <2>1. CASE handoff = p
    BY <1>28, <2>1 DEF AbortFailed, AbortHandoff, StopHandoffTimers, Exit, Goto
  <2>2. CASE handoff # p
    BY <1>28, <2>2 DEF AbortFailed, AbortHandoff, StopHandoffTimers, Exit, Goto
  <2> QED
    BY <1>28, <2>1, <2>2 DEF AbortFailed
<1>29. ASSUME NEW p \in Loops, AbortRefused(p) PROVE DistinctSockets'
  BY <1>29 DEF AbortRefused, AbortHandoff, StopHandoffTimers, Goto
<1>30. ASSUME NEW p \in Loops, Retry(p) PROVE DistinctSockets'
  BY <1>30 DEF Retry, ScheduleRetry, Exit, Goto
<1>31. ASSUME NEW p \in Loops, PromoteOnPong(p) PROVE DistinctSockets'
  <2>1. CASE ~CanPromote(p)
    BY <1>31, <2>1 DEF PromoteOnPong, CanPromote, PutOff, TakeOver, PromotedGen, StopHandoffTimers, Goto
  <2>2. CASE CanPromote(p) /\ PutOff(p) /\ Goto(p, "warmed")
    BY <1>31, <2>2 DEF PromoteOnPong, CanPromote, PutOff, TakeOver, PromotedGen, StopHandoffTimers, Goto
  <2>3. CASE CanPromote(p) /\ TakeOver(p) /\ Goto(p, "warmArm")
    BY <1>31, <2>3 DEF PromoteOnPong, CanPromote, PutOff, TakeOver, PromotedGen, StopHandoffTimers, Goto
  <2> QED
    BY <1>31, <2>1, <2>2, <2>3 DEF PromoteOnPong, CanPromote
<1>32. ASSUME NEW p \in Loops, WarmArm(p) PROVE DistinctSockets'
  BY <1>32 DEF WarmArm, Goto
<1>33. ASSUME NEW p \in Loops, WarmPong(p) PROVE DistinctSockets'
  BY <1>33 DEF WarmPong, Mine, Promoted, Goto
<1>34. CASE Disconnect
  BY <1>34 DEF Disconnect, TakeHandoff, StopHandoffTimers
<1>35. CASE RegisterPending
  BY <1>35 DEF RegisterPending
<1>36. CASE ResolvePending
  BY <1>36 DEF ResolvePending
<1>37. ASSUME NEW c \in Conns, Drop(c) PROVE DistinctSockets'
  BY <1>37 DEF Drop, Fault
<1>38. CASE UNCHANGED vars
  BY <1>38
<1> QED
  BY <1>1, <1>2, <1>3, <1>4, <1>5, <1>6, <1>7, <1>8, <1>9, <1>10,
     <1>11, <1>12, <1>13, <1>14, <1>15, <1>16, <1>17, <1>18, <1>19, <1>20,
     <1>21, <1>22, <1>23, <1>24, <1>25, <1>26, <1>27, <1>28, <1>29, <1>30,
     <1>31, <1>32, <1>33, <1>34, <1>35, <1>36, <1>37, <1>38
     DEF Next, UserStep, ConnectStep, TimerStep, WarmStep, EnvStep

(* Every step preserves what a position says of the locals. *)
LEMMA ShapeStep ==
    ASSUME TypeOK, Fence, DistinctSockets, Shape, [Next]_vars
    PROVE  Shape'
<1> USE ConstantsOK DEF Shape, NoSocket, HasSocket, NoHandoffSocket, HandoffSocket, NoGeneration, SocketGone, HandoffShape, OwnerShape, ReaderShape, Holding, Serving, DistinctSockets, Fence, UniqueOwner, SlotHeld, DisconnectSticks, TypeOK, MgrOK, RotOK, LocOK, EnvOK, PCs, ConnectPCs, WarmingPCs, WarmedPCs, Statuses, vars, mgr, rot, loc, env
<1>1. ASSUME NEW p \in Loops, EnsureConnected(p) PROVE Shape'
  <2>1. CASE connecting
    BY <1>1, <2>1 DEF EnsureConnected, StartLoop, Free, Goto
  <2>2. CASE ~connecting
    BY <1>1, <2>2 DEF EnsureConnected, StartLoop, Free, Goto
  <2> QED
    BY <1>1, <2>1, <2>2 DEF EnsureConnected
<1>2. ASSUME NEW p \in Loops, Reconnect(p) PROVE Shape'
  BY <1>2 DEF Reconnect, StartLoop, Free, Goto, TakeHandoff, StopHandoffTimers
<1>3. ASSUME NEW p \in Loops, RotateConnection(p) PROVE Shape'
  BY <1>3 DEF RotateConnection, CanRotate, StartHandoff, ArmTimeout, Free, Goto
<1>4. ASSUME NEW p \in Loops, BeginAttempt(p) PROVE Shape'
  BY <1>4 DEF BeginAttempt, Superseded, LeaveLoop, OwnsSlot, Exit, Goto
<1>5. ASSUME NEW p \in Loops, NEW c \in Conns, Dial(p, c) PROVE Shape'
  BY <1>5 DEF Dial, Fresh, Goto
<1>6. ASSUME NEW p \in Loops, DialFails(p) PROVE Shape'
  BY <1>6 DEF DialFails, Fault, Goto
<1>7. ASSUME NEW p \in Loops, Install(p) PROVE Shape'
  BY <1>7 DEF Install, Superseded, Goto
<1>8. ASSUME NEW p \in Loops, WriteAuthFails(p) PROVE Shape'
  BY <1>8 DEF WriteAuthFails, Fault, Goto
<1>9. ASSUME NEW p \in Loops, ReadAuthenticated(p) PROVE Shape'
  BY <1>9 DEF ReadAuthenticated, Current, Goto
<1>10. ASSUME NEW p \in Loops, OnAuthenticated(p) PROVE Shape'
  BY <1>10 DEF OnAuthenticated, Goto
<1>11. ASSUME NEW p \in Loops, Arm(p) PROVE Shape'
  BY <1>11 DEF Arm, Goto
<1>12. ASSUME NEW p \in Loops, ReadFails(p) PROVE Shape'
  BY <1>12 DEF ReadFails, Goto
<1>13. ASSUME NEW p \in Loops, ReadStale(p) PROVE Shape'
  BY <1>13 DEF ReadStale, Current, Goto
<1>14. ASSUME NEW p \in Loops, EndAttempt(p) PROVE Shape'
  <2>1. CASE Superseded(p)
    BY <1>14, <2>1 DEF EndAttempt, Superseded, LeaveLoop, OwnsSlot, Exit, Goto, TakeHandoff, StopHandoffTimers
  <2>2. CASE ~Superseded(p)
    BY <1>14, <2>2 DEF EndAttempt, Superseded, LeaveLoop, OwnsSlot, Exit, Goto, TakeHandoff, StopHandoffTimers
  <2> QED
    BY <1>14, <2>1, <2>2 DEF EndAttempt
<1>15. ASSUME NEW p \in Loops, RotationTimerFires(p) PROVE Shape'
  <2>1. CASE CanRotate
    BY <1>15, <2>1 DEF RotationTimerFires, CanRotate, StartHandoff, ArmTimeout, Free, Goto
  <2>2. CASE ~CanRotate
    BY <1>15, <2>2 DEF RotationTimerFires, CanRotate, StartHandoff, ArmTimeout, Free, Goto
  <2> QED
    BY <1>15, <2>1, <2>2 DEF RotationTimerFires
<1>16. ASSUME NEW p \in Loops, PromoteOnTimer(p) PROVE Shape'
  <2>1. CASE PutOff(p) /\ UNCHANGED sched
    BY <1>16, <2>1 DEF PromoteOnTimer, CanPromote, PutOff, TakeOver, PromotedGen, StopHandoffTimers
  <2>2. CASE TakeOver(p) /\ sched' = [sched EXCEPT ![p] = "next"]
    BY <1>16, <2>2 DEF PromoteOnTimer, CanPromote, PutOff, TakeOver, PromotedGen, StopHandoffTimers
  <2> QED
    BY <1>16, <2>1, <2>2 DEF PromoteOnTimer
<1>17. ASSUME NEW p \in Loops, HandoffTimeoutFires(p) PROVE Shape'
  BY <1>17 DEF HandoffTimeoutFires
<1>18. ASSUME NEW p \in Loops, HandoffTimeoutRuns(p) PROVE Shape'
  BY <1>18 DEF HandoffTimeoutRuns
<1>19. ASSUME NEW p \in Loops, ScheduleRotation(p) PROVE Shape'
  BY <1>19 DEF ScheduleRotation
<1>20. ASSUME NEW p \in Loops, NEW c \in Conns, WarmDial(p, c) PROVE Shape'
  BY <1>20 DEF WarmDial, Fresh, Goto
<1>21. ASSUME NEW p \in Loops, WarmDialFails(p) PROVE Shape'
  BY <1>21 DEF WarmDialFails, Fault, Goto
<1>22. ASSUME NEW p \in Loops, WarmInstall(p) PROVE Shape'
  BY <1>22 DEF WarmInstall, Exit, Goto
<1>23. ASSUME NEW p \in Loops, WarmWriteAuthFails(p) PROVE Shape'
  BY <1>23 DEF WarmWriteAuthFails, Fault, Goto
<1>24. ASSUME NEW p \in Loops, WarmError(p) PROVE Shape'
  BY <1>24 DEF WarmError, Fault, Mine, Promoted, Goto
<1>25. ASSUME NEW p \in Loops, WarmReadFails(p) PROVE Shape'
  <2>1. CASE Promoted(p)
    BY <1>25, <2>1 DEF WarmReadFails, Promoted, Goto
  <2>2. CASE ~Promoted(p)
    BY <1>25, <2>2 DEF WarmReadFails, Promoted, Goto
  <2> QED
    BY <1>25, <2>1, <2>2 DEF WarmReadFails
<1>26. ASSUME NEW p \in Loops, WarmReadStale(p) PROVE Shape'
  BY <1>26 DEF WarmReadStale, Mine, Promoted, Exit, Goto
<1>27. ASSUME NEW p \in Loops, ClearPromoted(p) PROVE Shape'
  BY <1>27 DEF ClearPromoted, Promoted, Goto
<1>28. ASSUME NEW p \in Loops, AbortFailed(p) PROVE Shape'
  <2>1. CASE handoff = p
    BY <1>28, <2>1 DEF AbortFailed, AbortHandoff, StopHandoffTimers, Exit, Goto
  <2>2. CASE handoff # p
    BY <1>28, <2>2 DEF AbortFailed, AbortHandoff, StopHandoffTimers, Exit, Goto
  <2> QED
    BY <1>28, <2>1, <2>2 DEF AbortFailed
<1>29. ASSUME NEW p \in Loops, AbortRefused(p) PROVE Shape'
  BY <1>29 DEF AbortRefused, AbortHandoff, StopHandoffTimers, Goto
<1>30. ASSUME NEW p \in Loops, Retry(p) PROVE Shape'
  BY <1>30 DEF Retry, ScheduleRetry, Exit, Goto
<1>31. ASSUME NEW p \in Loops, PromoteOnPong(p) PROVE Shape'
  <2>1. CASE ~CanPromote(p)
    BY <1>31, <2>1 DEF PromoteOnPong, CanPromote, PutOff, TakeOver, PromotedGen, StopHandoffTimers, Goto
  <2>2. CASE CanPromote(p) /\ PutOff(p) /\ Goto(p, "warmed")
    BY <1>31, <2>2 DEF PromoteOnPong, CanPromote, PutOff, TakeOver, PromotedGen, StopHandoffTimers, Goto
  <2>3. CASE CanPromote(p) /\ TakeOver(p) /\ Goto(p, "warmArm")
    BY <1>31, <2>3 DEF PromoteOnPong, CanPromote, PutOff, TakeOver, PromotedGen, StopHandoffTimers, Goto
  <2> QED
    BY <1>31, <2>1, <2>2, <2>3 DEF PromoteOnPong, CanPromote
<1>32. ASSUME NEW p \in Loops, WarmArm(p) PROVE Shape'
  BY <1>32 DEF WarmArm, Goto
<1>33. ASSUME NEW p \in Loops, WarmPong(p) PROVE Shape'
  BY <1>33 DEF WarmPong, Mine, Promoted, Goto
<1>34. CASE Disconnect
  BY <1>34 DEF Disconnect, TakeHandoff, StopHandoffTimers
<1>35. CASE RegisterPending
  BY <1>35 DEF RegisterPending
<1>36. CASE ResolvePending
  BY <1>36 DEF ResolvePending
<1>37. ASSUME NEW c \in Conns, Drop(c) PROVE Shape'
  BY <1>37 DEF Drop, Fault
<1>38. CASE UNCHANGED vars
  BY <1>38
<1> QED
  BY <1>1, <1>2, <1>3, <1>4, <1>5, <1>6, <1>7, <1>8, <1>9, <1>10,
     <1>11, <1>12, <1>13, <1>14, <1>15, <1>16, <1>17, <1>18, <1>19, <1>20,
     <1>21, <1>22, <1>23, <1>24, <1>25, <1>26, <1>27, <1>28, <1>29, <1>30,
     <1>31, <1>32, <1>33, <1>34, <1>35, <1>36, <1>37, <1>38
     DEF Next, UserStep, ConnectStep, TimerStep, WarmStep, EnvStep

(* Every step preserves NoLeakedSocket. *)
LEMMA LeakStep ==
    ASSUME TypeOK, Fence, DistinctSockets, Shape, NoLeakedSocket, [Next]_vars
    PROVE  NoLeakedSocket'
<1> USE ConstantsOK DEF NoLeakedSocket, Shape, NoSocket, HasSocket, NoHandoffSocket, HandoffSocket, NoGeneration, SocketGone, HandoffShape, OwnerShape, ReaderShape, Holding, Serving, DistinctSockets, Fence, UniqueOwner, SlotHeld, DisconnectSticks, TypeOK, MgrOK, RotOK, LocOK, EnvOK, PCs, ConnectPCs, WarmingPCs, WarmedPCs, Statuses, vars, mgr, rot, loc, env
<1>1. ASSUME NEW p \in Loops, EnsureConnected(p) PROVE NoLeakedSocket'
  <2>1. CASE connecting
    BY <1>1, <2>1 DEF EnsureConnected, StartLoop, Free, Goto
  <2>2. CASE ~connecting
    BY <1>1, <2>2 DEF EnsureConnected, StartLoop, Free, Goto
  <2> QED
    BY <1>1, <2>1, <2>2 DEF EnsureConnected
<1>2. ASSUME NEW p \in Loops, Reconnect(p) PROVE NoLeakedSocket'
  <2>1. hconn[handoff] \in Warming \/ handoff = None
    BY DEF Warming
  <2> QED
    BY <1>2, <2>1 DEF Reconnect, StartLoop, Free, Goto, TakeHandoff
<1>3. ASSUME NEW p \in Loops, RotateConnection(p) PROVE NoLeakedSocket'
  BY <1>3 DEF RotateConnection, CanRotate, StartHandoff, ArmTimeout, Free, Goto
<1>4. ASSUME NEW p \in Loops, BeginAttempt(p) PROVE NoLeakedSocket'
  BY <1>4 DEF BeginAttempt, Superseded, LeaveLoop, OwnsSlot, Exit, Goto
<1>5. ASSUME NEW p \in Loops, NEW c \in Conns, Dial(p, c) PROVE NoLeakedSocket'
  BY <1>5 DEF Dial, Fresh, Goto
<1>6. ASSUME NEW p \in Loops, DialFails(p) PROVE NoLeakedSocket'
  BY <1>6 DEF DialFails, Fault, Goto
<1>7. ASSUME NEW p \in Loops, Install(p) PROVE NoLeakedSocket'
  BY <1>7 DEF Install, Superseded, Goto
<1>8. ASSUME NEW p \in Loops, WriteAuthFails(p) PROVE NoLeakedSocket'
  BY <1>8 DEF WriteAuthFails, Fault, Goto
<1>9. ASSUME NEW p \in Loops, ReadAuthenticated(p) PROVE NoLeakedSocket'
  BY <1>9 DEF ReadAuthenticated, Current, Goto
<1>10. ASSUME NEW p \in Loops, OnAuthenticated(p) PROVE NoLeakedSocket'
  BY <1>10 DEF OnAuthenticated, Goto
<1>11. ASSUME NEW p \in Loops, Arm(p) PROVE NoLeakedSocket'
  BY <1>11 DEF Arm, Goto
<1>12. ASSUME NEW p \in Loops, ReadFails(p) PROVE NoLeakedSocket'
  BY <1>12 DEF ReadFails, Goto
<1>13. ASSUME NEW p \in Loops, ReadStale(p) PROVE NoLeakedSocket'
  BY <1>13 DEF ReadStale, Current, Goto
<1>14. ASSUME NEW p \in Loops, EndAttempt(p) PROVE NoLeakedSocket'
  <2>1. CASE Superseded(p)
    BY <1>14, <2>1 DEF EndAttempt, Superseded, LeaveLoop, OwnsSlot, Exit, Goto
  <2>2. CASE ~Superseded(p)
    <3>1. hconn[handoff] \in Warming \/ handoff = None
      BY DEF Warming
    <3> QED
      BY <1>14, <2>2, <3>1 DEF EndAttempt, Superseded, Goto, TakeHandoff
  <2> QED
    BY <2>1, <2>2
<1>15. ASSUME NEW p \in Loops, RotationTimerFires(p) PROVE NoLeakedSocket'
  <2>1. CASE CanRotate
    BY <1>15, <2>1 DEF RotationTimerFires, CanRotate, StartHandoff, ArmTimeout, Free, Goto
  <2>2. CASE ~CanRotate
    BY <1>15, <2>2 DEF RotationTimerFires, CanRotate, StartHandoff, ArmTimeout, Free, Goto
  <2> QED
    BY <1>15, <2>1, <2>2 DEF RotationTimerFires
<1>16. ASSUME NEW p \in Loops, PromoteOnTimer(p) PROVE NoLeakedSocket'
  <2>1. CASE PutOff(p) /\ UNCHANGED sched
    BY <1>16, <2>1 DEF PromoteOnTimer, CanPromote, PutOff, TakeOver, PromotedGen, StopHandoffTimers
  <2>2. CASE TakeOver(p) /\ sched' = [sched EXCEPT ![p] = "next"]
    BY <1>16, <2>2 DEF PromoteOnTimer, CanPromote, PutOff, TakeOver, PromotedGen, StopHandoffTimers
  <2> QED
    BY <1>16, <2>1, <2>2 DEF PromoteOnTimer
<1>17. ASSUME NEW p \in Loops, HandoffTimeoutFires(p) PROVE NoLeakedSocket'
  BY <1>17 DEF HandoffTimeoutFires
<1>18. ASSUME NEW p \in Loops, HandoffTimeoutRuns(p) PROVE NoLeakedSocket'
  BY <1>18 DEF HandoffTimeoutRuns
<1>19. ASSUME NEW p \in Loops, ScheduleRotation(p) PROVE NoLeakedSocket'
  BY <1>19 DEF ScheduleRotation
<1>20. ASSUME NEW p \in Loops, NEW c \in Conns, WarmDial(p, c) PROVE NoLeakedSocket'
  BY <1>20 DEF WarmDial, Fresh, Goto
<1>21. ASSUME NEW p \in Loops, WarmDialFails(p) PROVE NoLeakedSocket'
  BY <1>21 DEF WarmDialFails, Fault, Goto
<1>22. ASSUME NEW p \in Loops, WarmInstall(p) PROVE NoLeakedSocket'
  BY <1>22 DEF WarmInstall, Exit, Goto
<1>23. ASSUME NEW p \in Loops, WarmWriteAuthFails(p) PROVE NoLeakedSocket'
  BY <1>23 DEF WarmWriteAuthFails, Fault, Goto
<1>24. ASSUME NEW p \in Loops, WarmError(p) PROVE NoLeakedSocket'
  BY <1>24 DEF WarmError, Fault, Mine, Promoted, Goto
<1>25. ASSUME NEW p \in Loops, WarmReadFails(p) PROVE NoLeakedSocket'
  <2>1. CASE Promoted(p)
    BY <1>25, <2>1 DEF WarmReadFails, Promoted, Goto
  <2>2. CASE ~Promoted(p)
    BY <1>25, <2>2 DEF WarmReadFails, Promoted, Goto
  <2> QED
    BY <1>25, <2>1, <2>2 DEF WarmReadFails
<1>26. ASSUME NEW p \in Loops, WarmReadStale(p) PROVE NoLeakedSocket'
  BY <1>26 DEF WarmReadStale, Mine, Promoted, Exit, Goto
<1>27. ASSUME NEW p \in Loops, ClearPromoted(p) PROVE NoLeakedSocket'
  BY <1>27 DEF ClearPromoted, Promoted, Goto
<1>28. ASSUME NEW p \in Loops, AbortFailed(p) PROVE NoLeakedSocket'
  <2>1. CASE handoff = p
    BY <1>28, <2>1 DEF AbortFailed, AbortHandoff, StopHandoffTimers, Exit, Goto
  <2>2. CASE handoff # p
    BY <1>28, <2>2 DEF AbortFailed, AbortHandoff, StopHandoffTimers, Exit, Goto
  <2> QED
    BY <1>28, <2>1, <2>2 DEF AbortFailed
<1>29. ASSUME NEW p \in Loops, AbortRefused(p) PROVE NoLeakedSocket'
  BY <1>29 DEF AbortRefused, AbortHandoff, StopHandoffTimers, Goto
<1>30. ASSUME NEW p \in Loops, Retry(p) PROVE NoLeakedSocket'
  BY <1>30 DEF Retry, ScheduleRetry, Exit, Goto
<1>31. ASSUME NEW p \in Loops, PromoteOnPong(p) PROVE NoLeakedSocket'
  <2>1. CASE ~CanPromote(p)
    BY <1>31, <2>1 DEF PromoteOnPong, CanPromote, PutOff, TakeOver, PromotedGen, StopHandoffTimers, Goto
  <2>2. CASE CanPromote(p) /\ PutOff(p) /\ Goto(p, "warmed")
    BY <1>31, <2>2 DEF PromoteOnPong, CanPromote, PutOff, TakeOver, PromotedGen, StopHandoffTimers, Goto
  <2>3. CASE CanPromote(p) /\ TakeOver(p) /\ Goto(p, "warmArm")
    BY <1>31, <2>3 DEF PromoteOnPong, CanPromote, PutOff, TakeOver, PromotedGen, StopHandoffTimers, Goto
  <2> QED
    BY <1>31, <2>1, <2>2, <2>3 DEF PromoteOnPong, CanPromote
<1>32. ASSUME NEW p \in Loops, WarmArm(p) PROVE NoLeakedSocket'
  BY <1>32 DEF WarmArm, Goto
<1>33. ASSUME NEW p \in Loops, WarmPong(p) PROVE NoLeakedSocket'
  BY <1>33 DEF WarmPong, Mine, Promoted, Goto
<1>34. CASE Disconnect
  <2>1. hconn[handoff] \in Warming \/ handoff = None
    BY DEF Warming
  <2> QED
    BY <1>34, <2>1 DEF Disconnect, TakeHandoff
<1>35. CASE RegisterPending
  BY <1>35 DEF RegisterPending
<1>36. CASE ResolvePending
  BY <1>36 DEF ResolvePending
<1>37. ASSUME NEW c \in Conns, Drop(c) PROVE NoLeakedSocket'
  BY <1>37 DEF Drop, Fault
<1>38. CASE UNCHANGED vars
  BY <1>38
<1> QED
  BY <1>1, <1>2, <1>3, <1>4, <1>5, <1>6, <1>7, <1>8, <1>9, <1>10,
     <1>11, <1>12, <1>13, <1>14, <1>15, <1>16, <1>17, <1>18, <1>19, <1>20,
     <1>21, <1>22, <1>23, <1>24, <1>25, <1>26, <1>27, <1>28, <1>29, <1>30,
     <1>31, <1>32, <1>33, <1>34, <1>35, <1>36, <1>37, <1>38
     DEF Next, UserStep, ConnectStep, TimerStep, WarmStep, EnvStep

(* Every step preserves AttendedOrDead. *)
LEMMA AttendStep ==
    ASSUME TypeOK, Fence, DistinctSockets, Shape, AttendedOrDead, [Next]_vars
    PROVE  AttendedOrDead'
<1> USE ConstantsOK DEF AttendedOrDead, Shape, NoSocket, HasSocket, NoHandoffSocket, HandoffSocket, NoGeneration, SocketGone, HandoffShape, OwnerShape, ReaderShape, Holding, Serving, DistinctSockets, Fence, UniqueOwner, SlotHeld, DisconnectSticks, TypeOK, MgrOK, RotOK, LocOK, EnvOK, PCs, ConnectPCs, WarmingPCs, WarmedPCs, Statuses, vars, mgr, rot, loc, env
<1>1. ASSUME NEW p \in Loops, EnsureConnected(p) PROVE AttendedOrDead'
  <2>1. CASE connecting
    BY <1>1, <2>1 DEF EnsureConnected, StartLoop, Free, Goto
  <2>2. CASE ~connecting
    BY <1>1, <2>2 DEF EnsureConnected, StartLoop, Free, Goto
  <2> QED
    BY <1>1, <2>1, <2>2 DEF EnsureConnected
<1>2. ASSUME NEW p \in Loops, Reconnect(p) PROVE AttendedOrDead'
  BY <1>2 DEF Reconnect, StartLoop, Free, Goto, TakeHandoff, StopHandoffTimers
<1>3. ASSUME NEW p \in Loops, RotateConnection(p) PROVE AttendedOrDead'
  BY <1>3 DEF RotateConnection, CanRotate, StartHandoff, ArmTimeout, Free, Goto
<1>4. ASSUME NEW p \in Loops, BeginAttempt(p) PROVE AttendedOrDead'
  <2>1. UNCHANGED <<shouldConnect, conn, open, gen>>
    BY <1>4 DEF BeginAttempt
  <2>2. CASE Superseded(p)
    <3>1. own' = [own EXCEPT ![p] = 0]
      BY <1>4, <2>2 DEF BeginAttempt, LeaveLoop, Exit
    <3> QED
      BY <2>1, <2>2, <3>1 DEF Superseded
  <2>3. CASE ~Superseded(p)
    <3>1. UNCHANGED own
      BY <1>4, <2>3 DEF BeginAttempt
    <3> QED
      BY <2>1, <3>1
  <2> QED
    BY <2>2, <2>3
<1>5. ASSUME NEW p \in Loops, NEW c \in Conns, Dial(p, c) PROVE AttendedOrDead'
  BY <1>5 DEF Dial, Fresh, Goto
<1>6. ASSUME NEW p \in Loops, DialFails(p) PROVE AttendedOrDead'
  BY <1>6 DEF DialFails, Fault, Goto
<1>7. ASSUME NEW p \in Loops, Install(p) PROVE AttendedOrDead'
  BY <1>7 DEF Install, Superseded, Goto
<1>8. ASSUME NEW p \in Loops, WriteAuthFails(p) PROVE AttendedOrDead'
  BY <1>8 DEF WriteAuthFails, Fault, Goto
<1>9. ASSUME NEW p \in Loops, ReadAuthenticated(p) PROVE AttendedOrDead'
  BY <1>9 DEF ReadAuthenticated, Current, Goto
<1>10. ASSUME NEW p \in Loops, OnAuthenticated(p) PROVE AttendedOrDead'
  BY <1>10 DEF OnAuthenticated, Goto
<1>11. ASSUME NEW p \in Loops, Arm(p) PROVE AttendedOrDead'
  BY <1>11 DEF Arm, Goto
<1>12. ASSUME NEW p \in Loops, ReadFails(p) PROVE AttendedOrDead'
  BY <1>12 DEF ReadFails, Goto
<1>13. ASSUME NEW p \in Loops, ReadStale(p) PROVE AttendedOrDead'
  BY <1>13 DEF ReadStale, Current, Goto
<1>14. ASSUME NEW p \in Loops, EndAttempt(p) PROVE AttendedOrDead'
  <2>1. CASE Superseded(p)
    <3>1. UNCHANGED <<conn, open, shouldConnect, gen>> /\ own' = [own EXCEPT ![p] = 0]
      BY <1>14, <2>1 DEF EndAttempt, LeaveLoop, Exit
    <3> QED
      BY <2>1, <3>1 DEF Superseded
  <2>2. CASE ~Superseded(p)
    <3>1. UNCHANGED <<conn, shouldConnect, gen, own>> /\ open' = open \ Warming
      BY <1>14, <2>2 DEF EndAttempt
    <3> QED
      BY <3>1
  <2> QED
    BY <2>1, <2>2
<1>15. ASSUME NEW p \in Loops, RotationTimerFires(p) PROVE AttendedOrDead'
  <2>1. UNCHANGED <<conn, open, shouldConnect, gen, own>>
    BY <1>15 DEF RotationTimerFires, StartHandoff
  <2> QED
    BY <2>1
<1>16. ASSUME NEW p \in Loops, PromoteOnTimer(p) PROVE AttendedOrDead'
  <2>1. CASE PutOff(p) /\ UNCHANGED sched
    BY <1>16, <2>1 DEF PromoteOnTimer, CanPromote, PutOff, TakeOver, PromotedGen, StopHandoffTimers
  <2>2. CASE TakeOver(p) /\ sched' = [sched EXCEPT ![p] = "next"]
    BY <1>16, <2>2 DEF PromoteOnTimer, CanPromote, PutOff, TakeOver, PromotedGen, StopHandoffTimers
  <2> QED
    BY <1>16, <2>1, <2>2 DEF PromoteOnTimer
<1>17. ASSUME NEW p \in Loops, HandoffTimeoutFires(p) PROVE AttendedOrDead'
  BY <1>17 DEF HandoffTimeoutFires
<1>18. ASSUME NEW p \in Loops, HandoffTimeoutRuns(p) PROVE AttendedOrDead'
  BY <1>18 DEF HandoffTimeoutRuns
<1>19. ASSUME NEW p \in Loops, ScheduleRotation(p) PROVE AttendedOrDead'
  BY <1>19 DEF ScheduleRotation
<1>20. ASSUME NEW p \in Loops, NEW c \in Conns, WarmDial(p, c) PROVE AttendedOrDead'
  BY <1>20 DEF WarmDial, Fresh, Goto
<1>21. ASSUME NEW p \in Loops, WarmDialFails(p) PROVE AttendedOrDead'
  BY <1>21 DEF WarmDialFails, Fault, Goto
<1>22. ASSUME NEW p \in Loops, WarmInstall(p) PROVE AttendedOrDead'
  BY <1>22 DEF WarmInstall, Exit, Goto
<1>23. ASSUME NEW p \in Loops, WarmWriteAuthFails(p) PROVE AttendedOrDead'
  BY <1>23 DEF WarmWriteAuthFails, Fault, Goto
<1>24. ASSUME NEW p \in Loops, WarmError(p) PROVE AttendedOrDead'
  BY <1>24 DEF WarmError, Fault, Mine, Promoted, Goto
<1>25. ASSUME NEW p \in Loops, WarmReadFails(p) PROVE AttendedOrDead'
  <2>1. CASE Promoted(p)
    BY <1>25, <2>1 DEF WarmReadFails, Promoted, Goto
  <2>2. CASE ~Promoted(p)
    BY <1>25, <2>2 DEF WarmReadFails, Promoted, Goto
  <2> QED
    BY <1>25, <2>1, <2>2 DEF WarmReadFails
<1>26. ASSUME NEW p \in Loops, WarmReadStale(p) PROVE AttendedOrDead'
  BY <1>26 DEF WarmReadStale, Mine, Promoted, Exit, Goto
<1>27. ASSUME NEW p \in Loops, ClearPromoted(p) PROVE AttendedOrDead'
  BY <1>27 DEF ClearPromoted, Promoted, Goto
<1>28. ASSUME NEW p \in Loops, AbortFailed(p) PROVE AttendedOrDead'
  <2>1. CASE handoff = p
    BY <1>28, <2>1 DEF AbortFailed, AbortHandoff, StopHandoffTimers, Exit, Goto
  <2>2. CASE handoff # p
    BY <1>28, <2>2 DEF AbortFailed, AbortHandoff, StopHandoffTimers, Exit, Goto
  <2> QED
    BY <1>28, <2>1, <2>2 DEF AbortFailed
<1>29. ASSUME NEW p \in Loops, AbortRefused(p) PROVE AttendedOrDead'
  BY <1>29 DEF AbortRefused, AbortHandoff, StopHandoffTimers, Goto
<1>30. ASSUME NEW p \in Loops, Retry(p) PROVE AttendedOrDead'
  BY <1>30 DEF Retry, ScheduleRetry, Exit, Goto
<1>31. ASSUME NEW p \in Loops, PromoteOnPong(p) PROVE AttendedOrDead'
  <2>1. CASE TakeOver(p)
    BY <1>31, <2>1 DEF TakeOver, PromotedGen
  <2>2. CASE ~TakeOver(p)
    <3>1. UNCHANGED <<conn, open, shouldConnect, gen, own>>
      BY <1>31, <2>2 DEF PromoteOnPong, PutOff
    <3> QED
      BY <3>1
  <2> QED
    BY <2>1, <2>2
<1>32. ASSUME NEW p \in Loops, WarmArm(p) PROVE AttendedOrDead'
  BY <1>32 DEF WarmArm, Goto
<1>33. ASSUME NEW p \in Loops, WarmPong(p) PROVE AttendedOrDead'
  BY <1>33 DEF WarmPong, Mine, Promoted, Goto
<1>34. CASE Disconnect
  BY <1>34 DEF Disconnect, TakeHandoff, StopHandoffTimers
<1>35. CASE RegisterPending
  BY <1>35 DEF RegisterPending
<1>36. CASE ResolvePending
  BY <1>36 DEF ResolvePending
<1>37. ASSUME NEW c \in Conns, Drop(c) PROVE AttendedOrDead'
  BY <1>37 DEF Drop, Fault
<1>38. CASE UNCHANGED vars
  BY <1>38
<1> QED
  BY <1>1, <1>2, <1>3, <1>4, <1>5, <1>6, <1>7, <1>8, <1>9, <1>10,
     <1>11, <1>12, <1>13, <1>14, <1>15, <1>16, <1>17, <1>18, <1>19, <1>20,
     <1>21, <1>22, <1>23, <1>24, <1>25, <1>26, <1>27, <1>28, <1>29, <1>30,
     <1>31, <1>32, <1>33, <1>34, <1>35, <1>36, <1>37, <1>38
     DEF Next, UserStep, ConnectStep, TimerStep, WarmStep, EnvStep

(* Every step preserves HandoffBounded. *)
LEMMA BoundStep ==
    ASSUME TypeOK, Fence, DistinctSockets, Shape, HandoffBounded, [Next]_vars
    PROVE  HandoffBounded'
<1> USE ConstantsOK DEF HandoffBounded, Shape, NoSocket, HasSocket, NoHandoffSocket, HandoffSocket, NoGeneration, SocketGone, HandoffShape, OwnerShape, ReaderShape, Holding, Serving, DistinctSockets, Fence, UniqueOwner, SlotHeld, DisconnectSticks, TypeOK, MgrOK, RotOK, LocOK, EnvOK, PCs, ConnectPCs, WarmingPCs, WarmedPCs, Statuses, vars, mgr, rot, loc, env
<1>1. ASSUME NEW p \in Loops, EnsureConnected(p) PROVE HandoffBounded'
  <2>1. CASE connecting
    BY <1>1, <2>1 DEF EnsureConnected, StartLoop, Free, Goto
  <2>2. CASE ~connecting
    BY <1>1, <2>2 DEF EnsureConnected, StartLoop, Free, Goto
  <2> QED
    BY <1>1, <2>1, <2>2 DEF EnsureConnected
<1>2. ASSUME NEW p \in Loops, Reconnect(p) PROVE HandoffBounded'
  BY <1>2 DEF Reconnect, StartLoop, Free, Goto, TakeHandoff, StopHandoffTimers
<1>3. ASSUME NEW p \in Loops, RotateConnection(p) PROVE HandoffBounded'
  BY <1>3 DEF RotateConnection, CanRotate, StartHandoff, ArmTimeout, Free, Goto
<1>4. ASSUME NEW p \in Loops, BeginAttempt(p) PROVE HandoffBounded'
  BY <1>4 DEF BeginAttempt, Superseded, LeaveLoop, OwnsSlot, Exit, Goto
<1>5. ASSUME NEW p \in Loops, NEW c \in Conns, Dial(p, c) PROVE HandoffBounded'
  BY <1>5 DEF Dial, Fresh, Goto
<1>6. ASSUME NEW p \in Loops, DialFails(p) PROVE HandoffBounded'
  BY <1>6 DEF DialFails, Fault, Goto
<1>7. ASSUME NEW p \in Loops, Install(p) PROVE HandoffBounded'
  BY <1>7 DEF Install, Superseded, Goto
<1>8. ASSUME NEW p \in Loops, WriteAuthFails(p) PROVE HandoffBounded'
  BY <1>8 DEF WriteAuthFails, Fault, Goto
<1>9. ASSUME NEW p \in Loops, ReadAuthenticated(p) PROVE HandoffBounded'
  BY <1>9 DEF ReadAuthenticated, Current, Goto
<1>10. ASSUME NEW p \in Loops, OnAuthenticated(p) PROVE HandoffBounded'
  BY <1>10 DEF OnAuthenticated, Goto
<1>11. ASSUME NEW p \in Loops, Arm(p) PROVE HandoffBounded'
  BY <1>11 DEF Arm, Goto
<1>12. ASSUME NEW p \in Loops, ReadFails(p) PROVE HandoffBounded'
  BY <1>12 DEF ReadFails, Goto
<1>13. ASSUME NEW p \in Loops, ReadStale(p) PROVE HandoffBounded'
  BY <1>13 DEF ReadStale, Current, Goto
<1>14. ASSUME NEW p \in Loops, EndAttempt(p) PROVE HandoffBounded'
  <2>1. CASE Superseded(p)
    BY <1>14, <2>1 DEF EndAttempt, Superseded, LeaveLoop, OwnsSlot, Exit, Goto, TakeHandoff, StopHandoffTimers
  <2>2. CASE ~Superseded(p)
    BY <1>14, <2>2 DEF EndAttempt, Superseded, LeaveLoop, OwnsSlot, Exit, Goto, TakeHandoff, StopHandoffTimers
  <2> QED
    BY <1>14, <2>1, <2>2 DEF EndAttempt
<1>15. ASSUME NEW p \in Loops, RotationTimerFires(p) PROVE HandoffBounded'
  <2>1. CASE CanRotate
    BY <1>15, <2>1 DEF RotationTimerFires, CanRotate, StartHandoff, ArmTimeout, Free, Goto
  <2>2. CASE ~CanRotate
    BY <1>15, <2>2 DEF RotationTimerFires, CanRotate, StartHandoff, ArmTimeout, Free, Goto
  <2> QED
    BY <1>15, <2>1, <2>2 DEF RotationTimerFires
<1>16. ASSUME NEW p \in Loops, PromoteOnTimer(p) PROVE HandoffBounded'
  <2>1. CASE PutOff(p) /\ UNCHANGED sched
    BY <1>16, <2>1 DEF PromoteOnTimer, CanPromote, PutOff, TakeOver, PromotedGen, StopHandoffTimers
  <2>2. CASE TakeOver(p) /\ sched' = [sched EXCEPT ![p] = "next"]
    BY <1>16, <2>2 DEF PromoteOnTimer, CanPromote, PutOff, TakeOver, PromotedGen, StopHandoffTimers
  <2> QED
    BY <1>16, <2>1, <2>2 DEF PromoteOnTimer
<1>17. ASSUME NEW p \in Loops, HandoffTimeoutFires(p) PROVE HandoffBounded'
  BY <1>17 DEF HandoffTimeoutFires
<1>18. ASSUME NEW p \in Loops, HandoffTimeoutRuns(p) PROVE HandoffBounded'
  BY <1>18 DEF HandoffTimeoutRuns
<1>19. ASSUME NEW p \in Loops, ScheduleRotation(p) PROVE HandoffBounded'
  BY <1>19 DEF ScheduleRotation
<1>20. ASSUME NEW p \in Loops, NEW c \in Conns, WarmDial(p, c) PROVE HandoffBounded'
  BY <1>20 DEF WarmDial, Fresh, Goto
<1>21. ASSUME NEW p \in Loops, WarmDialFails(p) PROVE HandoffBounded'
  BY <1>21 DEF WarmDialFails, Fault, Goto
<1>22. ASSUME NEW p \in Loops, WarmInstall(p) PROVE HandoffBounded'
  BY <1>22 DEF WarmInstall, Exit, Goto
<1>23. ASSUME NEW p \in Loops, WarmWriteAuthFails(p) PROVE HandoffBounded'
  BY <1>23 DEF WarmWriteAuthFails, Fault, Goto
<1>24. ASSUME NEW p \in Loops, WarmError(p) PROVE HandoffBounded'
  BY <1>24 DEF WarmError, Fault, Mine, Promoted, Goto
<1>25. ASSUME NEW p \in Loops, WarmReadFails(p) PROVE HandoffBounded'
  <2>1. CASE Promoted(p)
    BY <1>25, <2>1 DEF WarmReadFails, Promoted, Goto
  <2>2. CASE ~Promoted(p)
    BY <1>25, <2>2 DEF WarmReadFails, Promoted, Goto
  <2> QED
    BY <1>25, <2>1, <2>2 DEF WarmReadFails
<1>26. ASSUME NEW p \in Loops, WarmReadStale(p) PROVE HandoffBounded'
  BY <1>26 DEF WarmReadStale, Mine, Promoted, Exit, Goto
<1>27. ASSUME NEW p \in Loops, ClearPromoted(p) PROVE HandoffBounded'
  BY <1>27 DEF ClearPromoted, Promoted, Goto
<1>28. ASSUME NEW p \in Loops, AbortFailed(p) PROVE HandoffBounded'
  <2>1. CASE handoff = p
    BY <1>28, <2>1 DEF AbortFailed, AbortHandoff, StopHandoffTimers, Exit, Goto
  <2>2. CASE handoff # p
    BY <1>28, <2>2 DEF AbortFailed, AbortHandoff, StopHandoffTimers, Exit, Goto
  <2> QED
    BY <1>28, <2>1, <2>2 DEF AbortFailed
<1>29. ASSUME NEW p \in Loops, AbortRefused(p) PROVE HandoffBounded'
  BY <1>29 DEF AbortRefused, AbortHandoff, StopHandoffTimers, Goto
<1>30. ASSUME NEW p \in Loops, Retry(p) PROVE HandoffBounded'
  BY <1>30 DEF Retry, ScheduleRetry, Exit, Goto
<1>31. ASSUME NEW p \in Loops, PromoteOnPong(p) PROVE HandoffBounded'
  <2>1. CASE ~CanPromote(p)
    BY <1>31, <2>1 DEF PromoteOnPong, CanPromote, PutOff, TakeOver, PromotedGen, StopHandoffTimers, Goto
  <2>2. CASE CanPromote(p) /\ PutOff(p) /\ Goto(p, "warmed")
    BY <1>31, <2>2 DEF PromoteOnPong, CanPromote, PutOff, TakeOver, PromotedGen, StopHandoffTimers, Goto
  <2>3. CASE CanPromote(p) /\ TakeOver(p) /\ Goto(p, "warmArm")
    BY <1>31, <2>3 DEF PromoteOnPong, CanPromote, PutOff, TakeOver, PromotedGen, StopHandoffTimers, Goto
  <2> QED
    BY <1>31, <2>1, <2>2, <2>3 DEF PromoteOnPong, CanPromote
<1>32. ASSUME NEW p \in Loops, WarmArm(p) PROVE HandoffBounded'
  BY <1>32 DEF WarmArm, Goto
<1>33. ASSUME NEW p \in Loops, WarmPong(p) PROVE HandoffBounded'
  BY <1>33 DEF WarmPong, Mine, Promoted, Goto
<1>34. CASE Disconnect
  BY <1>34 DEF Disconnect, TakeHandoff, StopHandoffTimers
<1>35. CASE RegisterPending
  BY <1>35 DEF RegisterPending
<1>36. CASE ResolvePending
  BY <1>36 DEF ResolvePending
<1>37. ASSUME NEW c \in Conns, Drop(c) PROVE HandoffBounded'
  BY <1>37 DEF Drop, Fault
<1>38. CASE UNCHANGED vars
  BY <1>38
<1> QED
  BY <1>1, <1>2, <1>3, <1>4, <1>5, <1>6, <1>7, <1>8, <1>9, <1>10,
     <1>11, <1>12, <1>13, <1>14, <1>15, <1>16, <1>17, <1>18, <1>19, <1>20,
     <1>21, <1>22, <1>23, <1>24, <1>25, <1>26, <1>27, <1>28, <1>29, <1>30,
     <1>31, <1>32, <1>33, <1>34, <1>35, <1>36, <1>37, <1>38
     DEF Next, UserStep, ConnectStep, TimerStep, WarmStep, EnvStep

(* No step of a superseded goroutine touches the manager. *)
LEMMA InertLemma ==
    ASSUME TypeOK, Fence, DistinctSockets, Shape, [Next]_vars
    PROVE  InertStep
<1> USE ConstantsOK DEF InertStep, Shape, NoSocket, HasSocket, NoHandoffSocket, HandoffSocket, NoGeneration, SocketGone, HandoffShape, OwnerShape, ReaderShape, Holding, Serving, DistinctSockets, Fence, UniqueOwner, SlotHeld, DisconnectSticks, TypeOK, MgrOK, RotOK, LocOK, EnvOK, PCs, ConnectPCs, WarmingPCs, WarmedPCs, Statuses, vars, mgr, rot, loc, env
<1>1. ASSUME NEW p \in Loops, EnsureConnected(p) PROVE InertStep
  <2>1. CASE connecting
    BY <1>1, <2>1 DEF EnsureConnected, StartLoop, Free, Goto
  <2>2. CASE ~connecting
    BY <1>1, <2>2 DEF EnsureConnected, StartLoop, Free, Goto
  <2> QED
    BY <1>1, <2>1, <2>2 DEF EnsureConnected
<1>2. ASSUME NEW p \in Loops, Reconnect(p) PROVE InertStep
  BY <1>2 DEF Reconnect, StartLoop, Free, Goto, TakeHandoff, StopHandoffTimers
<1>3. ASSUME NEW p \in Loops, RotateConnection(p) PROVE InertStep
  BY <1>3 DEF RotateConnection, CanRotate, StartHandoff, ArmTimeout, Free, Goto
<1>4. ASSUME NEW p \in Loops, BeginAttempt(p) PROVE InertStep
  BY <1>4 DEF BeginAttempt, Superseded, LeaveLoop, OwnsSlot, Exit, Goto
<1>5. ASSUME NEW p \in Loops, NEW c \in Conns, Dial(p, c) PROVE InertStep
  BY <1>5 DEF Dial, Fresh, Goto
<1>6. ASSUME NEW p \in Loops, DialFails(p) PROVE InertStep
  BY <1>6 DEF DialFails, Fault, Goto
<1>7. ASSUME NEW p \in Loops, Install(p) PROVE InertStep
  BY <1>7 DEF Install, Superseded, Goto
<1>8. ASSUME NEW p \in Loops, WriteAuthFails(p) PROVE InertStep
  BY <1>8 DEF WriteAuthFails, Fault, Goto
<1>9. ASSUME NEW p \in Loops, ReadAuthenticated(p) PROVE InertStep
  BY <1>9 DEF ReadAuthenticated, Current, Goto
<1>10. ASSUME NEW p \in Loops, OnAuthenticated(p) PROVE InertStep
  BY <1>10 DEF OnAuthenticated, Goto
<1>11. ASSUME NEW p \in Loops, Arm(p) PROVE InertStep
  BY <1>11 DEF Arm, Goto
<1>12. ASSUME NEW p \in Loops, ReadFails(p) PROVE InertStep
  BY <1>12 DEF ReadFails, Goto
<1>13. ASSUME NEW p \in Loops, ReadStale(p) PROVE InertStep
  BY <1>13 DEF ReadStale, Current, Goto
<1>14. ASSUME NEW p \in Loops, EndAttempt(p) PROVE InertStep
  <2>1. CASE Superseded(p)
    BY <1>14, <2>1 DEF EndAttempt, Superseded, LeaveLoop, OwnsSlot, Exit, Goto, TakeHandoff, StopHandoffTimers
  <2>2. CASE ~Superseded(p)
    BY <1>14, <2>2 DEF EndAttempt, Superseded, LeaveLoop, OwnsSlot, Exit, Goto, TakeHandoff, StopHandoffTimers
  <2> QED
    BY <1>14, <2>1, <2>2 DEF EndAttempt
<1>15. ASSUME NEW p \in Loops, RotationTimerFires(p) PROVE InertStep
  <2>1. CASE CanRotate
    BY <1>15, <2>1 DEF RotationTimerFires, CanRotate, StartHandoff, ArmTimeout, Free, Goto
  <2>2. CASE ~CanRotate
    BY <1>15, <2>2 DEF RotationTimerFires, CanRotate, StartHandoff, ArmTimeout, Free, Goto
  <2> QED
    BY <1>15, <2>1, <2>2 DEF RotationTimerFires
<1>16. ASSUME NEW p \in Loops, PromoteOnTimer(p) PROVE InertStep
  <2>1. CASE PutOff(p) /\ UNCHANGED sched
    BY <1>16, <2>1 DEF PromoteOnTimer, CanPromote, PutOff, TakeOver, PromotedGen, StopHandoffTimers
  <2>2. CASE TakeOver(p) /\ sched' = [sched EXCEPT ![p] = "next"]
    BY <1>16, <2>2 DEF PromoteOnTimer, CanPromote, PutOff, TakeOver, PromotedGen, StopHandoffTimers
  <2> QED
    BY <1>16, <2>1, <2>2 DEF PromoteOnTimer
<1>17. ASSUME NEW p \in Loops, HandoffTimeoutFires(p) PROVE InertStep
  BY <1>17 DEF HandoffTimeoutFires
<1>18. ASSUME NEW p \in Loops, HandoffTimeoutRuns(p) PROVE InertStep
  BY <1>18 DEF HandoffTimeoutRuns
<1>19. ASSUME NEW p \in Loops, ScheduleRotation(p) PROVE InertStep
  BY <1>19 DEF ScheduleRotation
<1>20. ASSUME NEW p \in Loops, NEW c \in Conns, WarmDial(p, c) PROVE InertStep
  BY <1>20 DEF WarmDial, Fresh, Goto
<1>21. ASSUME NEW p \in Loops, WarmDialFails(p) PROVE InertStep
  BY <1>21 DEF WarmDialFails, Fault, Goto
<1>22. ASSUME NEW p \in Loops, WarmInstall(p) PROVE InertStep
  BY <1>22 DEF WarmInstall, Exit, Goto
<1>23. ASSUME NEW p \in Loops, WarmWriteAuthFails(p) PROVE InertStep
  BY <1>23 DEF WarmWriteAuthFails, Fault, Goto
<1>24. ASSUME NEW p \in Loops, WarmError(p) PROVE InertStep
  BY <1>24 DEF WarmError, Fault, Mine, Promoted, Goto
<1>25. ASSUME NEW p \in Loops, WarmReadFails(p) PROVE InertStep
  <2>1. CASE Promoted(p)
    BY <1>25, <2>1 DEF WarmReadFails, Promoted, Goto
  <2>2. CASE ~Promoted(p)
    BY <1>25, <2>2 DEF WarmReadFails, Promoted, Goto
  <2> QED
    BY <1>25, <2>1, <2>2 DEF WarmReadFails
<1>26. ASSUME NEW p \in Loops, WarmReadStale(p) PROVE InertStep
  BY <1>26 DEF WarmReadStale, Mine, Promoted, Exit, Goto
<1>27. ASSUME NEW p \in Loops, ClearPromoted(p) PROVE InertStep
  BY <1>27 DEF ClearPromoted, Promoted, Goto
<1>28. ASSUME NEW p \in Loops, AbortFailed(p) PROVE InertStep
  <2>1. CASE handoff = p
    BY <1>28, <2>1 DEF AbortFailed, AbortHandoff, StopHandoffTimers, Exit, Goto
  <2>2. CASE handoff # p
    BY <1>28, <2>2 DEF AbortFailed, AbortHandoff, StopHandoffTimers, Exit, Goto
  <2> QED
    BY <1>28, <2>1, <2>2 DEF AbortFailed
<1>29. ASSUME NEW p \in Loops, AbortRefused(p) PROVE InertStep
  BY <1>29 DEF AbortRefused, AbortHandoff, StopHandoffTimers, Goto
<1>30. ASSUME NEW p \in Loops, Retry(p) PROVE InertStep
  BY <1>30 DEF Retry, ScheduleRetry, Exit, Goto
<1>31. ASSUME NEW p \in Loops, PromoteOnPong(p) PROVE InertStep
  <2>1. CASE ~CanPromote(p)
    BY <1>31, <2>1 DEF PromoteOnPong, CanPromote, PutOff, TakeOver, PromotedGen, StopHandoffTimers, Goto
  <2>2. CASE CanPromote(p) /\ PutOff(p) /\ Goto(p, "warmed")
    BY <1>31, <2>2 DEF PromoteOnPong, CanPromote, PutOff, TakeOver, PromotedGen, StopHandoffTimers, Goto
  <2>3. CASE CanPromote(p) /\ TakeOver(p) /\ Goto(p, "warmArm")
    BY <1>31, <2>3 DEF PromoteOnPong, CanPromote, PutOff, TakeOver, PromotedGen, StopHandoffTimers, Goto
  <2> QED
    BY <1>31, <2>1, <2>2, <2>3 DEF PromoteOnPong, CanPromote
<1>32. ASSUME NEW p \in Loops, WarmArm(p) PROVE InertStep
  BY <1>32 DEF WarmArm, Goto
<1>33. ASSUME NEW p \in Loops, WarmPong(p) PROVE InertStep
  BY <1>33 DEF WarmPong, Mine, Promoted, Goto
<1>34. CASE Disconnect
  BY <1>34 DEF Disconnect, TakeHandoff, StopHandoffTimers
<1>35. CASE RegisterPending
  BY <1>35 DEF RegisterPending
<1>36. CASE ResolvePending
  BY <1>36 DEF ResolvePending
<1>37. ASSUME NEW c \in Conns, Drop(c) PROVE InertStep
  BY <1>37 DEF Drop, Fault
<1>38. CASE UNCHANGED vars
  BY <1>38
<1> QED
  BY <1>1, <1>2, <1>3, <1>4, <1>5, <1>6, <1>7, <1>8, <1>9, <1>10,
     <1>11, <1>12, <1>13, <1>14, <1>15, <1>16, <1>17, <1>18, <1>19, <1>20,
     <1>21, <1>22, <1>23, <1>24, <1>25, <1>26, <1>27, <1>28, <1>29, <1>30,
     <1>31, <1>32, <1>33, <1>34, <1>35, <1>36, <1>37, <1>38
     DEF Next, UserStep, ConnectStep, TimerStep, WarmStep, EnvStep

(* Besides a promotion only Install puts a socket in place, and then the   *)
(* one before it is closed.                                                *)
LEMMA SwapLemma ==
    ASSUME IndInv, [Next]_vars
    PROVE  SwapStep
<1>a. /\ \A p \in Loops : handoff = p /\ p \in promote => pc[p] \in {"warmed", "warmErr", "warmFail"}
      /\ \A p \in Loops : pc[p] = "install" /\ own[p] # 0 /\ own[p] = gen => conn \notin open
      /\ shouldConnect => gen # 0
  BY DEF IndInv, Shape, HandoffShape, OwnerShape, Fence
<1> USE <1>a DEF SwapStep, mgr
<1>1. ASSUME NEW p \in Loops, EnsureConnected(p) PROVE SwapStep
  <2>1. CASE connecting
    BY <1>1, <2>1 DEF EnsureConnected, StartLoop, Free, Goto
  <2>2. CASE ~connecting
    BY <1>1, <2>2 DEF EnsureConnected, StartLoop, Free, Goto
  <2> QED
    BY <1>1, <2>1, <2>2 DEF EnsureConnected
<1>2. ASSUME NEW p \in Loops, Reconnect(p) PROVE SwapStep
  BY <1>2 DEF Reconnect, StartLoop, Free, Goto, TakeHandoff, StopHandoffTimers
<1>3. ASSUME NEW p \in Loops, RotateConnection(p) PROVE SwapStep
  BY <1>3 DEF RotateConnection, CanRotate, StartHandoff, ArmTimeout, Free, Goto
<1>4. ASSUME NEW p \in Loops, BeginAttempt(p) PROVE SwapStep
  BY <1>4 DEF BeginAttempt, Superseded, LeaveLoop, OwnsSlot, Exit, Goto
<1>5. ASSUME NEW p \in Loops, NEW c \in Conns, Dial(p, c) PROVE SwapStep
  BY <1>5 DEF Dial, Fresh, Goto
<1>6. ASSUME NEW p \in Loops, DialFails(p) PROVE SwapStep
  BY <1>6 DEF DialFails, Fault, Goto
<1>7. ASSUME NEW p \in Loops, Install(p) PROVE SwapStep
  BY <1>7 DEF Install, Superseded, Goto
<1>8. ASSUME NEW p \in Loops, WriteAuthFails(p) PROVE SwapStep
  BY <1>8 DEF WriteAuthFails, Fault, Goto
<1>9. ASSUME NEW p \in Loops, ReadAuthenticated(p) PROVE SwapStep
  BY <1>9 DEF ReadAuthenticated, Current, Goto
<1>10. ASSUME NEW p \in Loops, OnAuthenticated(p) PROVE SwapStep
  BY <1>10 DEF OnAuthenticated, Goto
<1>11. ASSUME NEW p \in Loops, Arm(p) PROVE SwapStep
  BY <1>11 DEF Arm, Goto
<1>12. ASSUME NEW p \in Loops, ReadFails(p) PROVE SwapStep
  BY <1>12 DEF ReadFails, Goto
<1>13. ASSUME NEW p \in Loops, ReadStale(p) PROVE SwapStep
  BY <1>13 DEF ReadStale, Current, Goto
<1>14. ASSUME NEW p \in Loops, EndAttempt(p) PROVE SwapStep
  <2>1. CASE Superseded(p)
    BY <1>14, <2>1 DEF EndAttempt, Superseded, LeaveLoop, OwnsSlot, Exit, Goto, TakeHandoff, StopHandoffTimers
  <2>2. CASE ~Superseded(p)
    BY <1>14, <2>2 DEF EndAttempt, Superseded, LeaveLoop, OwnsSlot, Exit, Goto, TakeHandoff, StopHandoffTimers
  <2> QED
    BY <1>14, <2>1, <2>2 DEF EndAttempt
<1>15. ASSUME NEW p \in Loops, RotationTimerFires(p) PROVE SwapStep
  <2>1. CASE CanRotate
    BY <1>15, <2>1 DEF RotationTimerFires, CanRotate, StartHandoff, ArmTimeout, Free, Goto
  <2>2. CASE ~CanRotate
    BY <1>15, <2>2 DEF RotationTimerFires, CanRotate, StartHandoff, ArmTimeout, Free, Goto
  <2> QED
    BY <1>15, <2>1, <2>2 DEF RotationTimerFires
<1>16. ASSUME NEW p \in Loops, PromoteOnTimer(p) PROVE SwapStep
  <2>1. CASE PutOff(p) /\ UNCHANGED sched
    BY <1>16, <2>1 DEF PromoteOnTimer, CanPromote, PutOff, TakeOver, PromotedGen, StopHandoffTimers
  <2>2. CASE TakeOver(p) /\ sched' = [sched EXCEPT ![p] = "next"]
    BY <1>16, <2>2 DEF PromoteOnTimer, CanPromote, PutOff, TakeOver, PromotedGen, StopHandoffTimers
  <2> QED
    BY <1>16, <2>1, <2>2 DEF PromoteOnTimer
<1>17. ASSUME NEW p \in Loops, HandoffTimeoutFires(p) PROVE SwapStep
  BY <1>17 DEF HandoffTimeoutFires
<1>18. ASSUME NEW p \in Loops, HandoffTimeoutRuns(p) PROVE SwapStep
  BY <1>18 DEF HandoffTimeoutRuns
<1>19. ASSUME NEW p \in Loops, ScheduleRotation(p) PROVE SwapStep
  BY <1>19 DEF ScheduleRotation
<1>20. ASSUME NEW p \in Loops, NEW c \in Conns, WarmDial(p, c) PROVE SwapStep
  BY <1>20 DEF WarmDial, Fresh, Goto
<1>21. ASSUME NEW p \in Loops, WarmDialFails(p) PROVE SwapStep
  BY <1>21 DEF WarmDialFails, Fault, Goto
<1>22. ASSUME NEW p \in Loops, WarmInstall(p) PROVE SwapStep
  BY <1>22 DEF WarmInstall, Exit, Goto
<1>23. ASSUME NEW p \in Loops, WarmWriteAuthFails(p) PROVE SwapStep
  BY <1>23 DEF WarmWriteAuthFails, Fault, Goto
<1>24. ASSUME NEW p \in Loops, WarmError(p) PROVE SwapStep
  BY <1>24 DEF WarmError, Fault, Mine, Promoted, Goto
<1>25. ASSUME NEW p \in Loops, WarmReadFails(p) PROVE SwapStep
  <2>1. CASE Promoted(p)
    BY <1>25, <2>1 DEF WarmReadFails, Promoted, Goto
  <2>2. CASE ~Promoted(p)
    BY <1>25, <2>2 DEF WarmReadFails, Promoted, Goto
  <2> QED
    BY <1>25, <2>1, <2>2 DEF WarmReadFails
<1>26. ASSUME NEW p \in Loops, WarmReadStale(p) PROVE SwapStep
  BY <1>26 DEF WarmReadStale, Mine, Promoted, Exit, Goto
<1>27. ASSUME NEW p \in Loops, ClearPromoted(p) PROVE SwapStep
  BY <1>27 DEF ClearPromoted, Promoted, Goto
<1>28. ASSUME NEW p \in Loops, AbortFailed(p) PROVE SwapStep
  <2>1. CASE handoff = p
    BY <1>28, <2>1 DEF AbortFailed, AbortHandoff, StopHandoffTimers, Exit, Goto
  <2>2. CASE handoff # p
    BY <1>28, <2>2 DEF AbortFailed, AbortHandoff, StopHandoffTimers, Exit, Goto
  <2> QED
    BY <1>28, <2>1, <2>2 DEF AbortFailed
<1>29. ASSUME NEW p \in Loops, AbortRefused(p) PROVE SwapStep
  BY <1>29 DEF AbortRefused, AbortHandoff, StopHandoffTimers, Goto
<1>30. ASSUME NEW p \in Loops, Retry(p) PROVE SwapStep
  BY <1>30 DEF Retry, ScheduleRetry, Exit, Goto
<1>31. ASSUME NEW p \in Loops, PromoteOnPong(p) PROVE SwapStep
  <2>1. CASE ~CanPromote(p)
    BY <1>31, <2>1 DEF PromoteOnPong, CanPromote, PutOff, TakeOver, PromotedGen, StopHandoffTimers, Goto
  <2>2. CASE CanPromote(p) /\ PutOff(p) /\ Goto(p, "warmed")
    BY <1>31, <2>2 DEF PromoteOnPong, CanPromote, PutOff, TakeOver, PromotedGen, StopHandoffTimers, Goto
  <2>3. CASE CanPromote(p) /\ TakeOver(p) /\ Goto(p, "warmArm")
    BY <1>31, <2>3 DEF PromoteOnPong, CanPromote, PutOff, TakeOver, PromotedGen, StopHandoffTimers, Goto
  <2> QED
    BY <1>31, <2>1, <2>2, <2>3 DEF PromoteOnPong, CanPromote
<1>32. ASSUME NEW p \in Loops, WarmArm(p) PROVE SwapStep
  BY <1>32 DEF WarmArm, Goto
<1>33. ASSUME NEW p \in Loops, WarmPong(p) PROVE SwapStep
  BY <1>33 DEF WarmPong, Mine, Promoted, Goto
<1>34. CASE Disconnect
  BY <1>34 DEF Disconnect, TakeHandoff, StopHandoffTimers
<1>35. CASE RegisterPending
  BY <1>35 DEF RegisterPending
<1>36. CASE ResolvePending
  BY <1>36 DEF ResolvePending
<1>37. ASSUME NEW c \in Conns, Drop(c) PROVE SwapStep
  BY <1>37 DEF Drop, Fault
<1>38. CASE UNCHANGED vars
  BY <1>38 DEF vars, mgr
<1> QED
  BY <1>1, <1>2, <1>3, <1>4, <1>5, <1>6, <1>7, <1>8, <1>9, <1>10,
     <1>11, <1>12, <1>13, <1>14, <1>15, <1>16, <1>17, <1>18, <1>19, <1>20,
     <1>21, <1>22, <1>23, <1>24, <1>25, <1>26, <1>27, <1>28, <1>29, <1>30,
     <1>31, <1>32, <1>33, <1>34, <1>35, <1>36, <1>37, <1>38
     DEF Next, UserStep, ConnectStep, TimerStep, WarmStep, EnvStep

(* What arms the rotation timer, or will: the timer, the handoff it        *)
(* started, or a goroutine on its way to scheduleRotation.                 *)
Due ==
    \/ rotationTimer
    \/ handoff # None
    \/ \E p \in Loops : sched[p] # "none" \/ pc[p] \in {"arm", "warmArm", "retry"}

(* A goroutine consumers may be served by, a refused handoff's included:   *)
(* it is promoted if its promote timer is first.                           *)
AtWork(p) == pc[p] \in {"serve", "warmed", "warmErr"} /\ Current(p)

Armed == AutoRotate /\ status = "connected" /\ (\E p \in Loops : AtWork(p)) => Due

(* Whatever ends a handoff or the timer's wait either schedules a rotation *)
(* again, or leaves no served connection.                                  *)
LEMMA ArmedStep ==
    ASSUME IndInv, Armed, AutoRotate, [Next]_vars, status' = "connected",
           NEW q \in Loops, AtWork(q)'
    PROVE  Due'
<1>t. TypeOK
  BY DEF IndInv
<1>f. /\ \A p \in Loops : own[p] <= gen
      /\ \A p \in Loops : own[p] # 0 /\ own[p] = own[q] => p = q
      /\ shouldConnect => gen # 0
      /\ ~shouldConnect => conn = None
  BY DEF IndInv, Fence, UniqueOwner, DisconnectSticks
<1>g. /\ \A p \in Loops : lconn[p] # None /\ lconn[p] = lconn[q] => p = q
      /\ pc[q] \in {"serve", "warmed", "warmErr", "warmPong"} => lconn[q] # None
      /\ pc[q] = "warmPong" => own[q] = 0
  BY DEF IndInv, DistinctSockets, Shape, HasSocket, NoGeneration, Holding, WarmingPCs
<1>h. status = "connected" /\ pc[q] \in {"serve", "warmed", "warmErr"} /\ Current(q) => Due
  BY DEF Armed, AtWork
<1>i. pc'[q] \in {"serve", "warmed", "warmErr"} /\ gen' = own'[q] /\ conn' = lconn'[q]
  BY DEF AtWork, Current
<1> USE <1>t, <1>f, <1>g, <1>h, <1>i, ConstantsOK
    DEF ConstantsOK, TypeOK, MgrOK, RotOK, LocOK, Due, Current, vars, mgr, rot, loc, env
<1>x. ASSUME NEW p \in Loops, Exit(p), pc[p] \notin {"arm", "warmArm", "retry"},
             UNCHANGED <<status, conn, gen, handoff, rotationTimer, sched>>
      PROVE  Due'
  <2>1. p # q /\ pc' = [pc EXCEPT ![p] = "idle"]
    BY <1>x DEF Exit, Goto
  <2>2. pc'[q] = pc[q] /\ own'[q] = own[q] /\ lconn'[q] = lconn[q]
    BY <1>x, <2>1 DEF Exit
  <2>3. Due
    BY <1>x, <2>2
  <2> QED
    BY <1>x, <2>1, <2>3
<1>1. ASSUME NEW p \in Loops, EnsureConnected(p) PROVE Due'
  <2>1. CASE connecting
    BY <1>1, <2>1 DEF EnsureConnected, StartLoop, Free, Goto
  <2>2. CASE ~connecting
    BY <1>1, <2>2 DEF EnsureConnected, StartLoop, Free, Goto
  <2> QED
    BY <1>1, <2>1, <2>2 DEF EnsureConnected
<1>2. ASSUME NEW p \in Loops, Reconnect(p) PROVE Due'
  BY <1>2 DEF Reconnect, StartLoop, Free, Goto, TakeHandoff, StopHandoffTimers
<1>3. ASSUME NEW p \in Loops, RotateConnection(p) PROVE Due'
  BY <1>3 DEF RotateConnection, CanRotate, StartHandoff, ArmTimeout, Free, Goto
<1>4. ASSUME NEW p \in Loops, BeginAttempt(p) PROVE Due'
  <2>1. CASE Superseded(p)
    <3>1. LeaveLoop(p) /\ UNCHANGED <<conn, gen, rot>> /\ pc[p] = "begin"
      BY <1>4, <2>1 DEF BeginAttempt
    <3> QED
      BY <3>1, <1>x DEF LeaveLoop
  <2>2. CASE ~Superseded(p)
    BY <1>4, <2>2 DEF BeginAttempt, Goto
  <2> QED
    BY <2>1, <2>2
<1>5. ASSUME NEW p \in Loops, NEW c \in Conns, Dial(p, c) PROVE Due'
  BY <1>5 DEF Dial, Fresh, Goto
<1>6. ASSUME NEW p \in Loops, DialFails(p) PROVE Due'
  BY <1>6 DEF DialFails, Fault, Goto
<1>7. ASSUME NEW p \in Loops, Install(p) PROVE Due'
  <2>1. pc[p] = "install" /\ UNCHANGED <<status, gen, rot, own, lconn, hconn>>
    BY <1>7 DEF Install
  <2>2. p # q
    BY <1>7, <2>1 DEF Install, Goto
  <2>3. pc'[q] = pc[q] /\ own'[q] = own[q] /\ lconn'[q] = lconn[q]
    BY <1>7, <2>1, <2>2 DEF Install, Goto
  <2>4. conn' = conn
    <3>1. lconn[q] # lconn[p]
      BY <2>2, <2>3
    <3> QED
      BY <1>7, <2>3, <3>1 DEF Install
  <2>5. Due
    BY <2>1, <2>3, <2>4
  <2>6. \A x \in Loops : pc[x] \in {"arm", "warmArm", "retry"} => pc'[x] = pc[x]
    BY <1>7, <2>1 DEF Install, Goto
  <2> QED
    BY <2>1, <2>5, <2>6
<1>8. ASSUME NEW p \in Loops, WriteAuthFails(p) PROVE Due'
  BY <1>8 DEF WriteAuthFails, Fault, Goto
<1>9. ASSUME NEW p \in Loops, ReadAuthenticated(p) PROVE Due'
  BY <1>9 DEF ReadAuthenticated, Current, Goto
<1>10. ASSUME NEW p \in Loops, OnAuthenticated(p) PROVE Due'
  BY <1>10 DEF OnAuthenticated, Goto
<1>11. ASSUME NEW p \in Loops, Arm(p) PROVE Due'
  BY <1>11 DEF Arm, Goto
<1>12. ASSUME NEW p \in Loops, ReadFails(p) PROVE Due'
  BY <1>12 DEF ReadFails, Goto
<1>13. ASSUME NEW p \in Loops, ReadStale(p) PROVE Due'
  BY <1>13 DEF ReadStale, Current, Goto
<1>14. ASSUME NEW p \in Loops, EndAttempt(p) PROVE Due'
  <2>1. CASE Superseded(p)
    <3>1. /\ LeaveLoop(p) /\ pc[p] = "end"
          /\ UNCHANGED <<conn, gen, handoff, rotationTimer, sched>>
      BY <1>14, <2>1 DEF EndAttempt
    <3> QED
      BY <3>1, <1>x DEF LeaveLoop
  <2>2. CASE ~Superseded(p)
    BY <1>14, <2>2 DEF EndAttempt
  <2> QED
    BY <2>1, <2>2
<1>15. ASSUME NEW p \in Loops, RotationTimerFires(p) PROVE Due'
  <2>1. CASE CanRotate
    BY <1>15, <2>1 DEF RotationTimerFires, CanRotate, StartHandoff, ArmTimeout, Free, Goto
  <2>2. CASE ~CanRotate
    BY <1>15, <2>2 DEF RotationTimerFires, CanRotate, StartHandoff, ArmTimeout, Free, Goto
  <2> QED
    BY <1>15, <2>1, <2>2 DEF RotationTimerFires
<1>16. ASSUME NEW p \in Loops, PromoteOnTimer(p) PROVE Due'
  <2>1. CASE PutOff(p) /\ UNCHANGED sched
    BY <1>16, <2>1 DEF PromoteOnTimer, CanPromote, PutOff, TakeOver, PromotedGen, StopHandoffTimers
  <2>2. CASE TakeOver(p) /\ sched' = [sched EXCEPT ![p] = "next"]
    BY <1>16, <2>2 DEF PromoteOnTimer, CanPromote, PutOff, TakeOver, PromotedGen, StopHandoffTimers
  <2> QED
    BY <1>16, <2>1, <2>2 DEF PromoteOnTimer
<1>17. ASSUME NEW p \in Loops, HandoffTimeoutFires(p) PROVE Due'
  BY <1>17 DEF HandoffTimeoutFires
<1>18. ASSUME NEW p \in Loops, HandoffTimeoutRuns(p) PROVE Due'
  BY <1>18 DEF HandoffTimeoutRuns
<1>19. ASSUME NEW p \in Loops, ScheduleRotation(p) PROVE Due'
  BY <1>19 DEF ScheduleRotation
<1>20. ASSUME NEW p \in Loops, NEW c \in Conns, WarmDial(p, c) PROVE Due'
  BY <1>20 DEF WarmDial, Fresh, Goto
<1>21. ASSUME NEW p \in Loops, WarmDialFails(p) PROVE Due'
  BY <1>21 DEF WarmDialFails, Fault, Goto
<1>22. ASSUME NEW p \in Loops, WarmInstall(p) PROVE Due'
  <2>1. /\ pc[p] = "warmInstall"
        /\ UNCHANGED <<mgr, rot>>
        /\ Exit(p) \/ Goto(p, "warmRead")
    BY <1>22 DEF WarmInstall
  <2>2. CASE Exit(p)
    BY <1>x, <2>1, <2>2
  <2>3. CASE Goto(p, "warmRead")
    <3>1. UNCHANGED <<own, lconn>>
      BY <1>22, <2>1, <2>3 DEF WarmInstall, Exit, Goto
    <3> QED
      BY <2>1, <2>3, <3>1 DEF Goto
  <2> QED
    BY <2>1, <2>2, <2>3
<1>23. ASSUME NEW p \in Loops, WarmWriteAuthFails(p) PROVE Due'
  BY <1>23 DEF WarmWriteAuthFails, Fault, Goto
<1>24. ASSUME NEW p \in Loops, WarmError(p) PROVE Due'
  BY <1>24 DEF WarmError, Fault, Mine, Promoted, Goto
<1>25. ASSUME NEW p \in Loops, WarmReadFails(p) PROVE Due'
  <2>1. CASE Promoted(p)
    BY <1>25, <2>1 DEF WarmReadFails, Promoted, Goto
  <2>2. CASE ~Promoted(p)
    BY <1>25, <2>2 DEF WarmReadFails, Promoted, Goto
  <2> QED
    BY <1>25, <2>1, <2>2 DEF WarmReadFails
<1>26. ASSUME NEW p \in Loops, WarmReadStale(p) PROVE Due'
  BY <1>26 DEF WarmReadStale, Mine, Promoted, Exit, Goto
<1>27. ASSUME NEW p \in Loops, ClearPromoted(p) PROVE Due'
  BY <1>27 DEF ClearPromoted, Promoted, Goto
<1>28. ASSUME NEW p \in Loops, AbortFailed(p) PROVE Due'
  <2>0. pc[p] = "warmFail" /\ UNCHANGED <<mgr, rotationTimer, sched>>
    BY <1>28 DEF AbortFailed
  <2>1. CASE handoff = p
    BY <1>28, <2>0, <2>1 DEF AbortFailed, AbortHandoff, Goto
  <2>2. CASE handoff # p
    <3>1. Exit(p) /\ UNCHANGED handoff
      BY <1>28, <2>2 DEF AbortFailed, AbortHandoff
    <3> QED
      BY <1>x, <2>0, <3>1
  <2> QED
    BY <2>1, <2>2
<1>29. ASSUME NEW p \in Loops, AbortRefused(p) PROVE Due'
  BY <1>29 DEF AbortRefused, AbortHandoff, StopHandoffTimers, Goto
<1>30. ASSUME NEW p \in Loops, Retry(p) PROVE Due'
  BY <1>30 DEF Retry, ScheduleRetry, Exit, Goto
<1>31. ASSUME NEW p \in Loops, PromoteOnPong(p) PROVE Due'
  <2>1. CASE ~CanPromote(p)
    BY <1>31, <2>1 DEF PromoteOnPong, CanPromote, PutOff, TakeOver, PromotedGen, StopHandoffTimers, Goto
  <2>2. CASE CanPromote(p) /\ PutOff(p) /\ Goto(p, "warmed")
    BY <1>31, <2>2 DEF PromoteOnPong, CanPromote, PutOff, TakeOver, PromotedGen, StopHandoffTimers, Goto
  <2>3. CASE CanPromote(p) /\ TakeOver(p) /\ Goto(p, "warmArm")
    BY <1>31, <2>3 DEF PromoteOnPong, CanPromote, PutOff, TakeOver, PromotedGen, StopHandoffTimers, Goto
  <2> QED
    BY <1>31, <2>1, <2>2, <2>3 DEF PromoteOnPong, CanPromote
<1>32. ASSUME NEW p \in Loops, WarmArm(p) PROVE Due'
  BY <1>32 DEF WarmArm, Goto
<1>33. ASSUME NEW p \in Loops, WarmPong(p) PROVE Due'
  BY <1>33 DEF WarmPong, Mine, Promoted, Goto
<1>34. CASE Disconnect
  BY <1>34 DEF Disconnect, TakeHandoff, StopHandoffTimers
<1>35. CASE RegisterPending
  BY <1>35 DEF RegisterPending
<1>36. CASE ResolvePending
  BY <1>36 DEF ResolvePending
<1>37. ASSUME NEW c \in Conns, Drop(c) PROVE Due'
  BY <1>37 DEF Drop, Fault
<1>38. CASE UNCHANGED vars
  BY <1>38 DEF vars, mgr, rot, loc, env
<1> QED
  BY <1>1, <1>2, <1>3, <1>4, <1>5, <1>6, <1>7, <1>8, <1>9, <1>10,
     <1>11, <1>12, <1>13, <1>14, <1>15, <1>16, <1>17, <1>18, <1>19, <1>20,
     <1>21, <1>22, <1>23, <1>24, <1>25, <1>26, <1>27, <1>28, <1>29, <1>30,
     <1>31, <1>32, <1>33, <1>34, <1>35, <1>36, <1>37, <1>38
     DEF Next, UserStep, ConnectStep, TimerStep, WarmStep, EnvStep

(* The initial state satisfies the inductive invariant. *)
LEMMA InitInd == Init => IndInv
<1> SUFFICES ASSUME Init PROVE IndInv
  OBVIOUS
<1>1. TypeOK
  BY ConstantsOK DEF Init, TypeOK, MgrOK, RotOK, LocOK, EnvOK, PCs, Statuses
<1>2. Fence
  BY DEF Init, Fence, UniqueOwner, SlotHeld, DisconnectSticks
<1>3. DistinctSockets /\ NoLeakedSocket /\ AttendedOrDead /\ HandoffBounded
  BY ConstantsOK DEF Init, DistinctSockets, NoLeakedSocket, AttendedOrDead, HandoffBounded
<1>4. Shape
  BY ConstantsOK DEF Init, Shape, NoSocket, HasSocket, NoHandoffSocket, HandoffSocket,
     NoGeneration, SocketGone, HandoffShape, OwnerShape, ReaderShape, Holding, Serving,
     WarmingPCs
<1> QED
  BY <1>1, <1>2, <1>3, <1>4 DEF IndInv

(* Every step preserves it. *)
LEMMA NextInd == IndInv /\ [Next]_vars => IndInv'
<1> SUFFICES ASSUME IndInv, [Next]_vars PROVE IndInv'
  OBVIOUS
<1> QED
  BY TypeStep, FenceStep, DistinctStep, ShapeStep, LeakStep, AttendStep, BoundStep
     DEF IndInv

(* The inductive invariant holds of every behaviour of the manager: the    *)
(* generation fence, the shape of every goroutine's locals, and the        *)
(* ownership of sockets and handoffs.                                      *)
THEOREM Invariance == Spec => []IndInv
<1> QED
  BY InitInd, NextInd, PTL DEF Spec

(* The manager's fields, its goroutines' locals and its timers keep their  *)
(* types whatever the interleaving of calls, loops, timers and failures.   *)
THEOREM TypeCorrect == Spec => []TypeOK
<1>1. IndInv => TypeOK
  BY DEF IndInv
<1> QED
  BY <1>1, Invariance, PTL

(* EnsureConnected, Reconnect, Disconnect and promotion never leave two    *)
(* goroutines with one generation.                                         *)
THEOREM OwnersUnique == Spec => []UniqueOwner
<1>1. IndInv => UniqueOwner
  BY DEF IndInv, Fence
<1> QED
  BY <1>1, Invariance, PTL

(* A wanted connection always has its connect-loop slot taken.             *)
THEOREM SlotAlwaysHeld == Spec => []SlotHeld
<1>1. IndInv => SlotHeld
  BY DEF IndInv, Fence
<1> QED
  BY <1>1, Invariance, PTL

(* After Disconnect nothing comes back: not the socket, not the handoff,   *)
(* not the connect-loop slot.                                              *)
THEOREM DisconnectIsFinal == Spec => []DisconnectSticks
<1>1. IndInv => DisconnectSticks
  BY DEF IndInv, Fence
<1> QED
  BY <1>1, Invariance, PTL

(* Whatever supersedes a socket closes it.                                 *)
THEOREM SocketsAccounted == Spec => []NoLeakedSocket
<1>1. IndInv => NoLeakedSocket
  BY DEF IndInv
<1> QED
  BY <1>1, Invariance, PTL

(* A live m.conn has a goroutine that owns the current generation.         *)
THEOREM LiveConnAttended == Spec => []AttendedOrDead
<1>1. IndInv => AttendedOrDead
  BY DEF IndInv
<1> QED
  BY <1>1, Invariance, PTL

(* A handoff always has a timer, or the promotion itself, to end it.       *)
THEOREM HandoffAlwaysBounded == Spec => []HandoffBounded
<1>1. IndInv => HandoffBounded
  BY DEF IndInv
<1> QED
  BY <1>1, Invariance, PTL

(* A superseded goroutine exits without touching the manager.              *)
THEOREM SupersededExitsQuietly == Spec => SupersededInert
<1>1. IndInv /\ [Next]_vars => [InertStep]_vars
  BY InertLemma DEF IndInv
<1> QED
  BY <1>1, Invariance, PTL DEF Spec, SupersededInert

(* connectLoop, promoteHandoff, Disconnect: the connection lifecycle is    *)
(* sound for any goroutines, sockets and failures.                         *)
THEOREM LifecycleIsSound == Spec => []LifecycleSound
<1>1. IndInv => LifecycleSound
  BY DEF IndInv, Fence, LifecycleSound
<1> QED
  BY <1>1, Invariance, PTL

(* With a lifetime configured, a connection consumers are served from is   *)
(* always on its way to a rotation (scheduleRotation), whichever of the    *)
(* timers, the goroutines and the failures comes first.                    *)
THEOREM RotationsStayArmed == Spec => []RotationArmed
<1>1. Init => Armed
  BY DEF Init, Armed, AtWork
<1>2. IndInv /\ Armed /\ [Next]_vars => Armed'
  <2> SUFFICES ASSUME IndInv, Armed, [Next]_vars, AutoRotate, status' = "connected",
                      NEW q \in Loops, AtWork(q)'
               PROVE  Due'
    BY DEF Armed
  <2> QED
    BY ArmedStep
<1>3. Armed => RotationArmed
  BY DEF Armed, AtWork, Due, RotationArmed
<1> QED
  BY <1>1, <1>2, <1>3, Invariance, PTL DEF Spec

(* A live socket is replaced only by promoteHandoff: by the socket of the  *)
(* current handoff, under a new generation, with the status as it was.     *)
THEOREM SwapsAreSeamless == Spec => SeamlessSwap
<1>1. IndInv /\ [Next]_vars => [SwapStep]_vars
  BY SwapLemma
<1> QED
  BY <1>1, Invariance, PTL DEF Spec, SeamlessSwap
=============================================================================
