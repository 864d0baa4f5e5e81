---------------------------- MODULE OrdersProofs ----------------------------
(***************************************************************************)
(* Proofs about the orders of MCOrders, for any bounds: what a receipt and *)
(* an accounted order prove, and what reaches their observers; and about   *)
(* the evidence a receipt is made from (ExecutionEvidence). Execution,     *)
(* accounting and evidence have an inductive invariant each.               *)
(***************************************************************************)
EXTENDS MCOrders, Algorithms, FiniteSetTheorems, SequenceTheorems, TLAPS

-----------------------------------------------------------------------------
(* OrderExecution.                                                         *)

KindsOf(s) == {s[i] : i \in 1..Len(s)}

(* What an event tells of its operation o and its order r. *)
Tells(k, o, r) ==
    /\ k = "mine" => r = "done"
    /\ k = "opFailed" => o = "failed"
    /\ k = "opExecuted" => o = "executed"

AllTell(s, o, r) == \A k \in KindsOf(s) : Tells(k, o, r)

(* Evidence of the end, where the order's id is known or is not. *)
Evident(s, ids) == \E k \in KindsOf(s) : k \in {"opFailed", "opExecuted"} \/ (k = "mine" /\ ids)

(* An operation places its order once, and an outcome is not taken back. *)
Outcomes ==
    /\ op \in {"none", "pending", "failed"} => order = "none"
    /\ op = "placed" => order # "none"
    /\ op = "executed" => order = "done"
    /\ sub \in {"placed", "executed", "failed"} => op = sub
    /\ sub = "pending" => op # "none"

(* Events and answers on their way tell of what is the case by now. *)
Told ==
    /\ AllTell(wire, op, order) /\ AllTell(replay, op, order)
    /\ AllTell(batch, op, order) /\ AllTell(events, op, order)
    /\ Tells(dispatch.kind, op, order)
    /\ answer = "done" \/ result = "done" => order = "done"
    /\ answer = "failed" \/ result = "failed" => op = "failed"

(* The wait listens from its subscription on, and reads no further than    *)
(* its last attempt.                                                       *)
Listening ==
    /\ listening <=> Execution!Waiting
    /\ dispatch = Execution!Silent \/ dispatch.kind \in Execution!Kinds
    /\ dispatch.listener => pc # "idle"
    /\ pc \in {"idle", "replay", "submitted"} => rpc = "off"
    /\ rpc # "over" => attempt < MaxReads

(* What is kept for a later batch was kept before the id was known, or has *)
(* its wake-up.                                                            *)
WakesFor == pc \in {"scan", "select"} /\ Evident(events, resolved) => wake

(* The types are taken before s.ready, and given up after it. *)
Taken ==
    /\ held => started
    /\ spc # "parked" => ready = "no"
    /\ release = "done" => ready # "no" /\ ~held

(* An end in the capture stops the stream, or is about to. *)
StopsFor == sub # "calling" /\ Evident(replay, known) => stopped \/ dispatch.terminal

ExecutionInv ==
    /\ Execution!TypeOK /\ Outcomes /\ Told /\ Listening /\ WakesFor /\ Taken /\ StopsFor
    /\ Execution!VerdictIsTrue /\ Execution!HeardOnce

LEMMA KindsEmpty == KindsOf(<<>>) = {}
BY DEF KindsOf

LEMMA KindsAppend ==
    ASSUME NEW s \in Seq(Execution!Kinds), NEW k \in Execution!Kinds
    PROVE  /\ Append(s, k) \in Seq(Execution!Kinds) /\ Len(Append(s, k)) = Len(s) + 1
           /\ Append(s, k) # <<>>
           /\ KindsOf(Append(s, k)) = KindsOf(s) \cup {k}
<1>1. /\ Append(s, k) \in Seq(Execution!Kinds) /\ Len(Append(s, k)) = Len(s) + 1
      /\ Append(s, k) # <<>> /\ Append(s, k)[Len(s) + 1] = k
      /\ \A i \in 1..Len(s) : Append(s, k)[i] = s[i]
  BY AppendProperties
<1>2. Len(s) \in Nat
  OBVIOUS
<1>3. KindsOf(Append(s, k)) = {Append(s, k)[i] : i \in 1..(Len(s) + 1)}
  BY <1>1 DEF KindsOf
<1>4. 1..(Len(s) + 1) = (1..Len(s)) \cup {Len(s) + 1}
  BY <1>2
<1> QED
  BY <1>1, <1>3, <1>4 DEF KindsOf

LEMMA KindsTail ==
    ASSUME NEW s \in Seq(Execution!Kinds), s # <<>>
    PROVE  /\ Tail(s) \in Seq(Execution!Kinds) /\ Len(Tail(s)) = Len(s) - 1
           /\ Head(s) \in KindsOf(s) /\ Head(s) \in Execution!Kinds
           /\ KindsOf(Tail(s)) \subseteq KindsOf(s)
<1>1. /\ Head(s) \in Execution!Kinds /\ Tail(s) \in Seq(Execution!Kinds)
      /\ Len(Tail(s)) = Len(s) - 1 /\ \A i \in 1..Len(Tail(s)) : Tail(s)[i] = s[i + 1]
  BY HeadTailProperties
<1>2. Len(s) \in Nat /\ Len(s) # 0 /\ Head(s) = s[1]
  OBVIOUS
<1>3. \A i \in 1..(Len(s) - 1) : i + 1 \in 1..Len(s)
  BY <1>2
<1>4. 1 \in 1..Len(s)
  BY <1>2
<1> QED
  BY <1>1, <1>2, <1>3, <1>4 DEF KindsOf

LEMMA KindsConcat ==
    ASSUME NEW s \in Seq(Execution!Kinds), NEW t \in Seq(Execution!Kinds)
    PROVE  /\ s \o t \in Seq(Execution!Kinds) /\ Len(s \o t) = Len(s) + Len(t)
           /\ KindsOf(s \o t) = KindsOf(s) \cup KindsOf(t)
<1>1. /\ s \o t \in Seq(Execution!Kinds) /\ Len(s \o t) = Len(s) + Len(t)
      /\ \A i \in 1..Len(s) + Len(t) : (s \o t)[i] = IF i <= Len(s) THEN s[i] ELSE t[i - Len(s)]
  BY ConcatProperties
<1>2. Len(s) \in Nat /\ Len(t) \in Nat
  OBVIOUS
<1> DEFINE m == Len(s)
           n == Len(t)
           c == s \o t
<1>3. /\ m \in Nat /\ n \in Nat /\ Len(c) = m + n
      /\ \A i \in 1..m : i \in 1..(m + n) /\ c[i] = s[i]
      /\ \A i \in 1..n : i + m \in 1..(m + n) /\ c[i + m] = t[i]
      /\ \A i \in 1..(m + n) : \/ i \in 1..m
                               \/ i - m \in 1..n /\ c[i] = t[i - m]
  BY <1>1, <1>2
<1>4. KindsOf(c) = {c[i] : i \in 1..(m + n)} /\ KindsOf(s) = {s[i] : i \in 1..m}
      /\ KindsOf(t) = {t[i] : i \in 1..n}
  BY <1>3 DEF KindsOf
<1> HIDE DEF c, m, n
<1>5. KindsOf(c) = KindsOf(s) \cup KindsOf(t)
  BY <1>3, <1>4
<1> QED
  BY <1>1, <1>5 DEF c

(* What an event told stays true: an order that is done stays done, and an *)
(* outcome that ended stays.                                               *)
LEMMA TellsOn ==
    ASSUME NEW o, NEW r, NEW o2, NEW r2, r = "done" => r2 = "done",
           o \in {"executed", "failed"} => o2 = o
    PROVE  /\ \A k : Tells(k, o, r) => Tells(k, o2, r2)
           /\ \A s : AllTell(s, o, r) => AllTell(s, o2, r2)
BY DEF Tells, AllTell

LEMMA KindsOfEmitted ==
    /\ \A k \in Execution!Kinds : <<k>> \in Seq(Execution!Kinds) /\ KindsOf(<<k>>) = {k}
    /\ \A j, k \in Execution!Kinds :
          <<j, k>> \in Seq(Execution!Kinds) /\ KindsOf(<<j, k>>) = {j, k}
<1>1. ASSUME NEW k \in Execution!Kinds
      PROVE  <<k>> \in Seq(Execution!Kinds) /\ KindsOf(<<k>>) = {k}
  <2>1. Len(<<k>>) = 1 /\ <<k>>[1] = k /\ 1..1 = {1}
    OBVIOUS
  <2> QED
    BY <2>1 DEF KindsOf
<1>2. ASSUME NEW j \in Execution!Kinds, NEW k \in Execution!Kinds
      PROVE  <<j, k>> \in Seq(Execution!Kinds) /\ KindsOf(<<j, k>>) = {j, k}
  <2>1. Len(<<j, k>>) = 2 /\ <<j, k>>[1] = j /\ <<j, k>>[2] = k /\ 1..2 = {1, 2}
    OBVIOUS
  <2> QED
    BY <2>1 DEF KindsOf
<1> QED
  BY <1>1, <1>2

(* The events of a change are on the wire, or lost. *)
LEMMA EmitsKinds ==
    ASSUME ConstantsOK, Execution!TypeOK, NEW s \in Seq(Execution!Kinds), Execution!Emits(s)
    PROVE  /\ wire' \in Seq(Execution!Kinds) /\ KindsOf(wire') \subseteq KindsOf(wire) \cup KindsOf(s)
           /\ lossy' \in BOOLEAN /\ noise' \in 0..MaxNoise /\ faults' \in 0..ExecutionFaults
<1>1. wire \in Seq(Execution!Kinds) /\ lossy \in BOOLEAN
  BY DEF Execution!TypeOK
<1>2. /\ wire \o s \in Seq(Execution!Kinds)
      /\ KindsOf(wire \o s) \subseteq KindsOf(wire) \cup KindsOf(s)
  BY <1>1, KindsConcat
<1>3. /\ wire' = wire \/ wire' = wire \o s
      /\ lossy' = lossy \/ lossy' = TRUE
  BY Zenon DEF Execution!Emits
<1>4. noise' \in 0..MaxNoise /\ faults' \in 0..ExecutionFaults
  BY DEF Execution!Emits, Execution!Fault, Execution!bounds, Execution!TypeOK, ConstantsOK
<1> QED
  BY <1>1, <1>2, <1>3, <1>4

(* A stream is stopped once; its release is asked for, not done.           *)
LEMMA StopKept ==
    ASSUME Execution!TypeOK, Execution!Stop \/ Execution!KeepGoing
    PROVE  /\ stopped' \in BOOLEAN /\ (stopped => stopped')
           /\ release' \in {"no", "waiting", "done"} /\ (release' = "done" <=> release = "done")
<1>1. CASE Execution!Stop
  BY <1>1 DEF Execution!TypeOK, Execution!Stop
<1>2. CASE Execution!KeepGoing
  BY <1>2 DEF Execution!TypeOK, Execution!KeepGoing
<1> QED
  BY <1>1, <1>2

(* A wait returns with what its evidence told.                             *)
LEMMA ReturnKept ==
    ASSUME ConstantsOK, ExecutionInv, NEW v \in {"executed", "failed", "error"},
           NEW releases \in BOOLEAN, Execution!Return(v, releases), UNCHANGED Execution!untouched,
           v = "executed" => order = "done", v = "failed" => op = "failed"
    PROVE  ExecutionInv'
<1> USE DEF ExecutionInv, ConstantsOK, Execution!Kinds, Execution!Nobody, Execution!Silent
<1>1. /\ stopped' \in BOOLEAN /\ (stopped => stopped')
      /\ release' \in {"no", "waiting", "done"} /\ (release' = "done" <=> release = "done")
  <2>1. Execution!Stop \/ Execution!KeepGoing
    BY DEF Execution!Return
  <2> QED
    BY <2>1, StopKept
<1>2. /\ pc' = "returned" /\ verdict' = v /\ batch' = <<>> /\ events' = <<>> /\ wake' = FALSE
      /\ recovery' = FALSE /\ listening' = FALSE /\ rpc' = "over" /\ result' = "none"
      /\ answer' = "none" /\ retry' = FALSE /\ UNCHANGED <<resolved, attempt>>
      /\ UNCHANGED <<op, order, names, up, registered, wire, lossy, noise, faults, sub, known, spc,
                     ready, started, held, replay, dispatch, due, unacked>>
  BY DEF Execution!Return, Execution!untouched, Execution!server, Execution!socket,
    Execution!bounds, Execution!response, Execution!ghosts
<1>3. Execution!TypeOK'
  <2>1. <<>> \in Seq(Execution!Kinds)
    OBVIOUS
  <2>2. /\ wake' \in BOOLEAN /\ recovery' \in BOOLEAN /\ listening' \in BOOLEAN /\ retry' \in BOOLEAN
        /\ names' \in BOOLEAN /\ up' \in BOOLEAN /\ registered' \in BOOLEAN /\ lossy' \in BOOLEAN
        /\ known' \in BOOLEAN /\ started' \in BOOLEAN /\ held' \in BOOLEAN
        /\ resolved' \in BOOLEAN /\ unacked' \in BOOLEAN
    BY <1>2 DEF Execution!TypeOK
  <2> QED
    BY <1>1, <1>2, <2>1, <2>2, SMT DEF Execution!TypeOK
<1>4. Outcomes' /\ Taken'
  BY <1>1, <1>2 DEF Outcomes, Taken
<1>5. Told' /\ Execution!VerdictIsTrue'
  BY <1>2, KindsEmpty DEF Told, AllTell, Execution!VerdictIsTrue
<1>6. Listening' /\ Execution!HeardOnce' /\ WakesFor'
  BY <1>2 DEF Listening, Execution!HeardOnce, Execution!Waiting, WakesFor
<1>7. StopsFor'
  BY <1>1, <1>2 DEF StopsFor
<1> QED
  BY <1>3, <1>4, <1>5, <1>6, <1>7

LEMMA ExecutionPlaceStep ==
    ASSUME ConstantsOK, ExecutionInv, Execution!Place
    PROVE  ExecutionInv'
<1> USE DEF ExecutionInv, ConstantsOK, Execution!Kinds, Execution!Nobody, Execution!Silent
<1>1. /\ order = "done" => order' = "done"
      /\ op \in {"executed", "failed"} => op' = op
      /\ \A k : Tells(k, op, order) => Tells(k, op', order')
      /\ \A s : AllTell(s, op, order) => AllTell(s, op', order')
  <2>1. order = "done" => order' = "done"
    BY DEF Execution!Place, Outcomes, Execution!TypeOK
  <2>2. op \in {"executed", "failed"} => op' = op
    BY DEF Execution!Place, Outcomes, Execution!TypeOK
  <2> QED
    BY <2>1, <2>2, TellsOn
<1>2. Execution!TypeOK'
  <2>1. /\ names' \in BOOLEAN /\ up' \in BOOLEAN /\ registered' \in BOOLEAN /\ lossy' \in BOOLEAN
        /\ known' \in BOOLEAN /\ started' \in BOOLEAN /\ held' \in BOOLEAN
        /\ listening' \in BOOLEAN /\ stopped' \in BOOLEAN /\ wake' \in BOOLEAN
        /\ recovery' \in BOOLEAN /\ resolved' \in BOOLEAN /\ retry' \in BOOLEAN
        /\ unacked' \in BOOLEAN
    BY <1>1 DEF Execution!Place, Execution!server, Execution!socket,
      Execution!bounds, Execution!response, Execution!stream, Execution!wait,
      Execution!reader, Execution!ghosts, Execution!TypeOK, Listening
  <2> QED
    BY <1>1, <2>1, SMT DEF Execution!Place, Execution!server,
      Execution!socket, Execution!bounds, Execution!response,
      Execution!stream, Execution!wait, Execution!reader, Execution!ghosts,
      Execution!TypeOK, Listening
<1>3. Outcomes' /\ Taken'
  BY <1>1 DEF Execution!Place, Execution!server, Execution!socket,
    Execution!bounds, Execution!response, Execution!stream, Execution!wait,
    Execution!reader, Execution!ghosts, Execution!TypeOK, Outcomes, Taken
<1>4. Told' /\ Execution!VerdictIsTrue'
  BY <1>1 DEF Execution!Place, Execution!server, Execution!socket,
    Execution!bounds, Execution!response, Execution!stream, Execution!wait,
    Execution!reader, Execution!ghosts, Execution!TypeOK, Outcomes, Told,
    Execution!VerdictIsTrue
<1>5. Listening' /\ Execution!HeardOnce'
  BY <1>1 DEF Execution!Place, Execution!server, Execution!socket,
    Execution!bounds, Execution!response, Execution!stream, Execution!wait,
    Execution!reader, Execution!ghosts, Execution!TypeOK, Listening,
    Execution!HeardOnce, Execution!Waiting
<1>6. WakesFor'
  BY <1>1 DEF Execution!Place, Execution!server, Execution!socket,
    Execution!bounds, Execution!response, Execution!stream, Execution!wait,
    Execution!reader, Execution!ghosts, Execution!TypeOK, Listening, WakesFor
<1>7. StopsFor'
  BY <1>1 DEF Execution!Place, Execution!server, Execution!socket,
    Execution!bounds, Execution!response, Execution!stream, Execution!wait,
    Execution!reader, Execution!ghosts, Execution!TypeOK, StopsFor
<1> QED
  BY <1>2, <1>3, <1>4, <1>5, <1>6, <1>7

LEMMA ExecutionExecuteStep ==
    ASSUME ConstantsOK, ExecutionInv, Execution!Execute
    PROVE  ExecutionInv'
<1> USE DEF ExecutionInv, ConstantsOK, Execution!Kinds, Execution!Nobody, Execution!Silent
<1>1. /\ order = "done" => order' = "done"
      /\ op \in {"executed", "failed"} => op' = op
      /\ \A k : Tells(k, op, order) => Tells(k, op', order')
      /\ \A s : AllTell(s, op, order) => AllTell(s, op', order')
  <2>1. order = "done" => order' = "done"
    BY DEF Execution!Execute, Outcomes, Execution!TypeOK
  <2>2. op \in {"executed", "failed"} => op' = op
    BY DEF Execution!Execute, Outcomes, Execution!TypeOK
  <2> QED
    BY <2>1, <2>2, TellsOn
<1>2. /\ wire' \in Seq(Execution!Kinds) /\ lossy' \in BOOLEAN /\ noise' \in 0..MaxNoise
      /\ faults' \in 0..ExecutionFaults /\ AllTell(wire', op', order')
  <2>1. AllTell(wire, op', order')
    BY <1>1 DEF Told
  <2>2. CASE op' = op /\ order' = "done" /\ Execution!Emits(<<"mine">>)
    <3>1. <<"mine">> \in Seq(Execution!Kinds) /\ KindsOf(<<"mine">>) = {"mine"}
      BY KindsOfEmitted
    <3>2. /\ wire' \in Seq(Execution!Kinds) /\ KindsOf(wire') \subseteq KindsOf(wire) \cup {"mine"}
          /\ lossy' \in BOOLEAN /\ noise' \in 0..MaxNoise /\ faults' \in 0..ExecutionFaults
      BY <2>2, <3>1, EmitsKinds
    <3>3. AllTell(wire', op', order')
      BY <2>1, <2>2, <3>2 DEF AllTell, Tells
    <3> QED
      BY <3>2, <3>3
  <2>3. CASE op' = "executed" /\ order' = "done" /\ Execution!Emits(<<"mine", "opExecuted">>)
    <3>1. /\ <<"mine", "opExecuted">> \in Seq(Execution!Kinds)
          /\ KindsOf(<<"mine", "opExecuted">>) = {"mine", "opExecuted"}
      BY KindsOfEmitted
    <3>2. /\ wire' \in Seq(Execution!Kinds)
          /\ KindsOf(wire') \subseteq KindsOf(wire) \cup {"mine", "opExecuted"}
          /\ lossy' \in BOOLEAN /\ noise' \in 0..MaxNoise /\ faults' \in 0..ExecutionFaults
      BY <2>3, <3>1, EmitsKinds
    <3>3. AllTell(wire', op', order')
      BY <2>1, <2>3, <3>2 DEF AllTell, Tells
    <3> QED
      BY <3>2, <3>3
  <2> QED
    BY <2>2, <2>3 DEF Execution!Execute
<1>3. Execution!TypeOK'
  <2>1. /\ names' \in BOOLEAN /\ up' \in BOOLEAN /\ registered' \in BOOLEAN /\ lossy' \in BOOLEAN
        /\ known' \in BOOLEAN /\ started' \in BOOLEAN /\ held' \in BOOLEAN
        /\ listening' \in BOOLEAN /\ stopped' \in BOOLEAN /\ wake' \in BOOLEAN
        /\ recovery' \in BOOLEAN /\ resolved' \in BOOLEAN /\ retry' \in BOOLEAN
        /\ unacked' \in BOOLEAN
    BY <1>1, <1>2 DEF Execution!Execute, Execution!server, Execution!socket,
      Execution!bounds, Execution!response, Execution!stream, Execution!wait,
      Execution!reader, Execution!ghosts, Execution!TypeOK, Listening
  <2> QED
    BY <1>1, <1>2, <2>1, SMT DEF Execution!Execute, Execution!server,
      Execution!socket, Execution!bounds, Execution!response,
      Execution!stream, Execution!wait, Execution!reader, Execution!ghosts,
      Execution!TypeOK, Listening
<1>4. Outcomes' /\ Taken'
  BY <1>1, <1>2 DEF Execution!Execute, Execution!server, Execution!socket,
    Execution!bounds, Execution!response, Execution!stream, Execution!wait,
    Execution!reader, Execution!ghosts, Execution!TypeOK, Outcomes, Taken
<1>5. Told' /\ Execution!VerdictIsTrue'
  BY <1>1, <1>2 DEF Execution!Execute, Execution!server, Execution!socket,
    Execution!bounds, Execution!response, Execution!stream, Execution!wait,
    Execution!reader, Execution!ghosts, Execution!TypeOK, Outcomes, Told,
    Execution!VerdictIsTrue
<1>6. Listening' /\ Execution!HeardOnce'
  BY <1>1, <1>2 DEF Execution!Execute, Execution!server, Execution!socket,
    Execution!bounds, Execution!response, Execution!stream, Execution!wait,
    Execution!reader, Execution!ghosts, Execution!TypeOK, Listening,
    Execution!HeardOnce, Execution!Waiting
<1>7. WakesFor'
  BY <1>1, <1>2 DEF Execution!Execute, Execution!server, Execution!socket,
    Execution!bounds, Execution!response, Execution!stream, Execution!wait,
    Execution!reader, Execution!ghosts, Execution!TypeOK, Listening, WakesFor
<1>8. StopsFor'
  BY <1>1, <1>2 DEF Execution!Execute, Execution!server, Execution!socket,
    Execution!bounds, Execution!response, Execution!stream, Execution!wait,
    Execution!reader, Execution!ghosts, Execution!TypeOK, StopsFor
<1> QED
  BY <1>3, <1>4, <1>5, <1>6, <1>7, <1>8

LEMMA ExecutionFailsStep ==
    ASSUME ConstantsOK, ExecutionInv, Execution!Fails
    PROVE  ExecutionInv'
<1> USE DEF ExecutionInv, ConstantsOK, Execution!Kinds, Execution!Nobody, Execution!Silent
<1>1. /\ order = "done" => order' = "done"
      /\ op \in {"executed", "failed"} => op' = op
      /\ \A k : Tells(k, op, order) => Tells(k, op', order')
      /\ \A s : AllTell(s, op, order) => AllTell(s, op', order')
  <2>1. order = "done" => order' = "done"
    BY DEF Execution!Fails, Outcomes, Execution!TypeOK
  <2>2. op \in {"executed", "failed"} => op' = op
    BY DEF Execution!Fails, Outcomes, Execution!TypeOK
  <2> QED
    BY <2>1, <2>2, TellsOn
<1>2. /\ wire' \in Seq(Execution!Kinds) /\ lossy' \in BOOLEAN /\ noise' \in 0..MaxNoise
      /\ faults' \in 0..ExecutionFaults /\ AllTell(wire', op', order')
  <2>1. AllTell(wire, op', order') /\ op' = "failed" /\ Execution!Emits(<<"opFailed">>)
    BY <1>1 DEF Told, Execution!Fails
  <2>2. <<"opFailed">> \in Seq(Execution!Kinds) /\ KindsOf(<<"opFailed">>) = {"opFailed"}
    BY KindsOfEmitted
  <2>3. /\ wire' \in Seq(Execution!Kinds)
        /\ KindsOf(wire') \subseteq KindsOf(wire) \cup {"opFailed"}
        /\ lossy' \in BOOLEAN /\ noise' \in 0..MaxNoise /\ faults' \in 0..ExecutionFaults
    BY <2>1, <2>2, EmitsKinds
  <2>4. AllTell(wire', op', order')
    BY <2>1, <2>3 DEF AllTell, Tells
  <2> QED
    BY <2>3, <2>4
<1>3. Execution!TypeOK'
  <2>1. /\ names' \in BOOLEAN /\ up' \in BOOLEAN /\ registered' \in BOOLEAN /\ lossy' \in BOOLEAN
        /\ known' \in BOOLEAN /\ started' \in BOOLEAN /\ held' \in BOOLEAN
        /\ listening' \in BOOLEAN /\ stopped' \in BOOLEAN /\ wake' \in BOOLEAN
        /\ recovery' \in BOOLEAN /\ resolved' \in BOOLEAN /\ retry' \in BOOLEAN
        /\ unacked' \in BOOLEAN
    BY <1>1, <1>2 DEF Execution!Fails, Execution!server, Execution!socket,
      Execution!bounds, Execution!response, Execution!stream, Execution!wait,
      Execution!reader, Execution!ghosts, Execution!TypeOK, Listening
  <2> QED
    BY <1>1, <1>2, <2>1, SMT DEF Execution!Fails, Execution!server,
      Execution!socket, Execution!bounds, Execution!response,
      Execution!stream, Execution!wait, Execution!reader, Execution!ghosts,
      Execution!TypeOK, Listening
<1>4. Outcomes' /\ Taken'
  BY <1>1, <1>2 DEF Execution!Fails, Execution!server, Execution!socket,
    Execution!bounds, Execution!response, Execution!stream, Execution!wait,
    Execution!reader, Execution!ghosts, Execution!TypeOK, Outcomes, Taken
<1>5. Told' /\ Execution!VerdictIsTrue'
  BY <1>1, <1>2 DEF Execution!Fails, Execution!server, Execution!socket,
    Execution!bounds, Execution!response, Execution!stream, Execution!wait,
    Execution!reader, Execution!ghosts, Execution!TypeOK, Outcomes, Told,
    Execution!VerdictIsTrue
<1>6. Listening' /\ Execution!HeardOnce'
  BY <1>1, <1>2 DEF Execution!Fails, Execution!server, Execution!socket,
    Execution!bounds, Execution!response, Execution!stream, Execution!wait,
    Execution!reader, Execution!ghosts, Execution!TypeOK, Listening,
    Execution!HeardOnce, Execution!Waiting
<1>7. WakesFor'
  BY <1>1, <1>2 DEF Execution!Fails, Execution!server, Execution!socket,
    Execution!bounds, Execution!response, Execution!stream, Execution!wait,
    Execution!reader, Execution!ghosts, Execution!TypeOK, Listening, WakesFor
<1>8. StopsFor'
  BY <1>1, <1>2 DEF Execution!Fails, Execution!server, Execution!socket,
    Execution!bounds, Execution!response, Execution!stream, Execution!wait,
    Execution!reader, Execution!ghosts, Execution!TypeOK, StopsFor
<1> QED
  BY <1>3, <1>4, <1>5, <1>6, <1>7, <1>8

LEMMA ExecutionNoiseStep ==
    ASSUME ConstantsOK, ExecutionInv, Execution!Noise
    PROVE  ExecutionInv'
<1> USE DEF ExecutionInv, ConstantsOK, Execution!Kinds, Execution!Nobody, Execution!Silent
<1>1. wire' \in Seq(Execution!Kinds) /\ AllTell(wire', op, order)
  <2>1. wire' \in Seq(Execution!Kinds) /\ KindsOf(wire') = KindsOf(wire) \cup {"else"}
    BY KindsAppend DEF Execution!Noise, Execution!TypeOK
  <2> QED
    BY <2>1 DEF Told, AllTell, Tells
<1>2. Execution!TypeOK'
  <2>1. /\ names' \in BOOLEAN /\ up' \in BOOLEAN /\ registered' \in BOOLEAN /\ lossy' \in BOOLEAN
        /\ known' \in BOOLEAN /\ started' \in BOOLEAN /\ held' \in BOOLEAN
        /\ listening' \in BOOLEAN /\ stopped' \in BOOLEAN /\ wake' \in BOOLEAN
        /\ recovery' \in BOOLEAN /\ resolved' \in BOOLEAN /\ retry' \in BOOLEAN
        /\ unacked' \in BOOLEAN
    BY <1>1 DEF Execution!Noise, Execution!server, Execution!socket,
      Execution!bounds, Execution!response, Execution!stream, Execution!wait,
      Execution!reader, Execution!ghosts, Execution!TypeOK, Listening
  <2> QED
    BY <1>1, <2>1, SMT DEF Execution!Noise, Execution!server,
      Execution!socket, Execution!bounds, Execution!response,
      Execution!stream, Execution!wait, Execution!reader, Execution!ghosts,
      Execution!TypeOK, Listening
<1>3. Outcomes' /\ Taken'
  BY <1>1 DEF Execution!Noise, Execution!server, Execution!socket,
    Execution!bounds, Execution!response, Execution!stream, Execution!wait,
    Execution!reader, Execution!ghosts, Execution!TypeOK, Outcomes, Taken
<1>4. Told' /\ Execution!VerdictIsTrue'
  BY <1>1 DEF Execution!Noise, Execution!server, Execution!socket,
    Execution!bounds, Execution!response, Execution!stream, Execution!wait,
    Execution!reader, Execution!ghosts, Execution!TypeOK, Outcomes, Told,
    Execution!VerdictIsTrue
<1>5. Listening' /\ Execution!HeardOnce'
  BY <1>1 DEF Execution!Noise, Execution!server, Execution!socket,
    Execution!bounds, Execution!response, Execution!stream, Execution!wait,
    Execution!reader, Execution!ghosts, Execution!TypeOK, Listening,
    Execution!HeardOnce, Execution!Waiting
<1>6. WakesFor'
  BY <1>1 DEF Execution!Noise, Execution!server, Execution!socket,
    Execution!bounds, Execution!response, Execution!stream, Execution!wait,
    Execution!reader, Execution!ghosts, Execution!TypeOK, Listening, WakesFor
<1>7. StopsFor'
  BY <1>1 DEF Execution!Noise, Execution!server, Execution!socket,
    Execution!bounds, Execution!response, Execution!stream, Execution!wait,
    Execution!reader, Execution!ghosts, Execution!TypeOK, StopsFor
<1> QED
  BY <1>2, <1>3, <1>4, <1>5, <1>6, <1>7

LEMMA ExecutionRegisterStep ==
    ASSUME ConstantsOK, ExecutionInv, Execution!Register
    PROVE  ExecutionInv'
<1> USE DEF ExecutionInv, ConstantsOK, Execution!Kinds, Execution!Nobody, Execution!Silent
<1>1. Execution!TypeOK'
  <2>1. /\ names' \in BOOLEAN /\ up' \in BOOLEAN /\ registered' \in BOOLEAN /\ lossy' \in BOOLEAN
        /\ known' \in BOOLEAN /\ started' \in BOOLEAN /\ held' \in BOOLEAN
        /\ listening' \in BOOLEAN /\ stopped' \in BOOLEAN /\ wake' \in BOOLEAN
        /\ recovery' \in BOOLEAN /\ resolved' \in BOOLEAN /\ retry' \in BOOLEAN
        /\ unacked' \in BOOLEAN
    BY DEF Execution!Register, Execution!server, Execution!socket,
      Execution!bounds, Execution!response, Execution!stream, Execution!wait,
      Execution!reader, Execution!ghosts, Execution!TypeOK, Listening
  <2> QED
    BY <2>1, SMT DEF Execution!Register, Execution!server, Execution!socket,
      Execution!bounds, Execution!response, Execution!stream, Execution!wait,
      Execution!reader, Execution!ghosts, Execution!TypeOK, Listening
<1>2. Outcomes' /\ Taken'
  BY DEF Execution!Register, Execution!server, Execution!socket,
    Execution!bounds, Execution!response, Execution!stream, Execution!wait,
    Execution!reader, Execution!ghosts, Execution!TypeOK, Outcomes, Taken
<1>3. Told' /\ Execution!VerdictIsTrue'
  BY DEF Execution!Register, Execution!server, Execution!socket,
    Execution!bounds, Execution!response, Execution!stream, Execution!wait,
    Execution!reader, Execution!ghosts, Execution!TypeOK, Outcomes, Told,
    Execution!VerdictIsTrue
<1>4. Listening' /\ Execution!HeardOnce'
  BY DEF Execution!Register, Execution!server, Execution!socket,
    Execution!bounds, Execution!response, Execution!stream, Execution!wait,
    Execution!reader, Execution!ghosts, Execution!TypeOK, Listening,
    Execution!HeardOnce, Execution!Waiting
<1>5. WakesFor'
  BY DEF Execution!Register, Execution!server, Execution!socket,
    Execution!bounds, Execution!response, Execution!stream, Execution!wait,
    Execution!reader, Execution!ghosts, Execution!TypeOK, Listening, WakesFor
<1>6. StopsFor'
  BY DEF Execution!Register, Execution!server, Execution!socket,
    Execution!bounds, Execution!response, Execution!stream, Execution!wait,
    Execution!reader, Execution!ghosts, Execution!TypeOK, StopsFor
<1> QED
  BY <1>1, <1>2, <1>3, <1>4, <1>5, <1>6

LEMMA ExecutionDropStep == ASSUME ConstantsOK, ExecutionInv, Execution!Drop PROVE ExecutionInv'
<1> USE DEF ExecutionInv, ConstantsOK, Execution!Kinds, Execution!Nobody, Execution!Silent
<1>1. AllTell(<<>>, op, order)
  BY KindsEmpty DEF AllTell
<1>2. Execution!TypeOK'
  <2>1. /\ names' \in BOOLEAN /\ up' \in BOOLEAN /\ registered' \in BOOLEAN /\ lossy' \in BOOLEAN
        /\ known' \in BOOLEAN /\ started' \in BOOLEAN /\ held' \in BOOLEAN
        /\ listening' \in BOOLEAN /\ stopped' \in BOOLEAN /\ wake' \in BOOLEAN
        /\ recovery' \in BOOLEAN /\ resolved' \in BOOLEAN /\ retry' \in BOOLEAN
        /\ unacked' \in BOOLEAN
    BY <1>1, ZenonT(30) DEF Execution!Drop, Execution!Fault, Execution!server,
      Execution!socket, Execution!bounds, Execution!response,
      Execution!stream, Execution!wait, Execution!reader, Execution!ghosts,
      Execution!TypeOK, Listening
  <2> QED
    BY <1>1, <2>1, SMT DEF Execution!Drop, Execution!Fault, Execution!server,
      Execution!socket, Execution!bounds, Execution!response,
      Execution!stream, Execution!wait, Execution!reader, Execution!ghosts,
      Execution!TypeOK, Listening
<1>3. Outcomes' /\ Taken'
  BY <1>1 DEF Execution!Drop, Execution!Fault, Execution!server,
    Execution!socket, Execution!bounds, Execution!response, Execution!stream,
    Execution!wait, Execution!reader, Execution!ghosts, Execution!TypeOK,
    Outcomes, Taken
<1>4. Told' /\ Execution!VerdictIsTrue'
  BY <1>1 DEF Execution!Drop, Execution!Fault, Execution!server,
    Execution!socket, Execution!bounds, Execution!response, Execution!stream,
    Execution!wait, Execution!reader, Execution!ghosts, Execution!TypeOK,
    Outcomes, Told, Execution!VerdictIsTrue
<1>5. Listening' /\ Execution!HeardOnce'
  BY <1>1 DEF Execution!Drop, Execution!Fault, Execution!server,
    Execution!socket, Execution!bounds, Execution!response, Execution!stream,
    Execution!wait, Execution!reader, Execution!ghosts, Execution!TypeOK,
    Listening, Execution!HeardOnce, Execution!Waiting
<1>6. WakesFor'
  BY <1>1 DEF Execution!Drop, Execution!Fault, Execution!server,
    Execution!socket, Execution!bounds, Execution!response, Execution!stream,
    Execution!wait, Execution!reader, Execution!ghosts, Execution!TypeOK,
    Listening, WakesFor
<1>7. StopsFor'
  BY <1>1 DEF Execution!Drop, Execution!Fault, Execution!server,
    Execution!socket, Execution!bounds, Execution!response, Execution!stream,
    Execution!wait, Execution!reader, Execution!ghosts, Execution!TypeOK,
    StopsFor
<1> QED
  BY <1>2, <1>3, <1>4, <1>5, <1>6, <1>7

LEMMA ExecutionGapStep == ASSUME ConstantsOK, ExecutionInv, Execution!Gap PROVE ExecutionInv'
<1> USE DEF ExecutionInv, ConstantsOK, Execution!Kinds, Execution!Nobody, Execution!Silent
<1>1. Execution!TypeOK'
  <2>1. /\ names' \in BOOLEAN /\ up' \in BOOLEAN /\ registered' \in BOOLEAN /\ lossy' \in BOOLEAN
        /\ known' \in BOOLEAN /\ started' \in BOOLEAN /\ held' \in BOOLEAN
        /\ listening' \in BOOLEAN /\ stopped' \in BOOLEAN /\ wake' \in BOOLEAN
        /\ recovery' \in BOOLEAN /\ resolved' \in BOOLEAN /\ retry' \in BOOLEAN
        /\ unacked' \in BOOLEAN
    BY ZenonT(30) DEF Execution!Gap, Execution!Recovers, Execution!Waiting,
      Execution!server, Execution!socket, Execution!bounds,
      Execution!response, Execution!stream, Execution!wait, Execution!reader,
      Execution!ghosts, Execution!TypeOK, Listening
  <2> QED
    BY <2>1, SMT DEF Execution!Gap, Execution!Recovers, Execution!Waiting,
      Execution!server, Execution!socket, Execution!bounds,
      Execution!response, Execution!stream, Execution!wait, Execution!reader,
      Execution!ghosts, Execution!TypeOK, Listening
<1>2. Outcomes' /\ Taken'
  BY DEF Execution!Gap, Execution!Recovers, Execution!Waiting,
    Execution!server, Execution!socket, Execution!bounds, Execution!response,
    Execution!stream, Execution!wait, Execution!reader, Execution!ghosts,
    Execution!TypeOK, Outcomes, Taken
<1>3. Told' /\ Execution!VerdictIsTrue'
  BY DEF Execution!Gap, Execution!Recovers, Execution!Waiting,
    Execution!server, Execution!socket, Execution!bounds, Execution!response,
    Execution!stream, Execution!wait, Execution!reader, Execution!ghosts,
    Execution!TypeOK, Outcomes, Told, Execution!VerdictIsTrue
<1>4. Listening' /\ Execution!HeardOnce'
  BY DEF Execution!Gap, Execution!Recovers, Execution!Waiting,
    Execution!server, Execution!socket, Execution!bounds, Execution!response,
    Execution!stream, Execution!wait, Execution!reader, Execution!ghosts,
    Execution!TypeOK, Listening, Execution!HeardOnce, Execution!Waiting
<1>5. WakesFor'
  BY DEF Execution!Gap, Execution!Recovers, Execution!Waiting,
    Execution!server, Execution!socket, Execution!bounds, Execution!response,
    Execution!stream, Execution!wait, Execution!reader, Execution!ghosts,
    Execution!TypeOK, Listening, WakesFor
<1>6. StopsFor'
  BY DEF Execution!Gap, Execution!Recovers, Execution!Waiting,
    Execution!server, Execution!socket, Execution!bounds, Execution!response,
    Execution!stream, Execution!wait, Execution!reader, Execution!ghosts,
    Execution!TypeOK, StopsFor
<1> QED
  BY <1>1, <1>2, <1>3, <1>4, <1>5, <1>6

LEMMA ExecutionAuthenticatedStep ==
    ASSUME ConstantsOK, ExecutionInv, Execution!Authenticated
    PROVE  ExecutionInv'
<1> USE DEF ExecutionInv, ConstantsOK, Execution!Kinds, Execution!Nobody, Execution!Silent
<1>1. Execution!TypeOK'
  <2>1. /\ names' \in BOOLEAN /\ up' \in BOOLEAN /\ registered' \in BOOLEAN /\ lossy' \in BOOLEAN
        /\ known' \in BOOLEAN /\ started' \in BOOLEAN /\ held' \in BOOLEAN
        /\ listening' \in BOOLEAN /\ stopped' \in BOOLEAN /\ wake' \in BOOLEAN
        /\ recovery' \in BOOLEAN /\ resolved' \in BOOLEAN /\ retry' \in BOOLEAN
        /\ unacked' \in BOOLEAN
    BY DEF Execution!Authenticated, Execution!Recovers, Execution!Waiting,
      Execution!server, Execution!socket, Execution!bounds,
      Execution!response, Execution!stream, Execution!wait, Execution!reader,
      Execution!ghosts, Execution!TypeOK, Listening
  <2> QED
    BY <2>1, SMT DEF Execution!Authenticated, Execution!Recovers,
      Execution!Waiting, Execution!server, Execution!socket, Execution!bounds,
      Execution!response, Execution!stream, Execution!wait, Execution!reader,
      Execution!ghosts, Execution!TypeOK, Listening
<1>2. Outcomes' /\ Taken'
  BY DEF Execution!Authenticated, Execution!Recovers, Execution!Waiting,
    Execution!server, Execution!socket, Execution!bounds, Execution!response,
    Execution!stream, Execution!wait, Execution!reader, Execution!ghosts,
    Execution!TypeOK, Outcomes, Taken
<1>3. Told' /\ Execution!VerdictIsTrue'
  BY DEF Execution!Authenticated, Execution!Recovers, Execution!Waiting,
    Execution!server, Execution!socket, Execution!bounds, Execution!response,
    Execution!stream, Execution!wait, Execution!reader, Execution!ghosts,
    Execution!TypeOK, Outcomes, Told, Execution!VerdictIsTrue
<1>4. Listening' /\ Execution!HeardOnce'
  BY DEF Execution!Authenticated, Execution!Recovers, Execution!Waiting,
    Execution!server, Execution!socket, Execution!bounds, Execution!response,
    Execution!stream, Execution!wait, Execution!reader, Execution!ghosts,
    Execution!TypeOK, Listening, Execution!HeardOnce, Execution!Waiting
<1>5. WakesFor'
  BY DEF Execution!Authenticated, Execution!Recovers, Execution!Waiting,
    Execution!server, Execution!socket, Execution!bounds, Execution!response,
    Execution!stream, Execution!wait, Execution!reader, Execution!ghosts,
    Execution!TypeOK, Listening, WakesFor
<1>6. StopsFor'
  BY DEF Execution!Authenticated, Execution!Recovers, Execution!Waiting,
    Execution!server, Execution!socket, Execution!bounds, Execution!response,
    Execution!stream, Execution!wait, Execution!reader, Execution!ghosts,
    Execution!TypeOK, StopsFor
<1> QED
  BY <1>1, <1>2, <1>3, <1>4, <1>5, <1>6

LEMMA ExecutionEnsureStep ==
    ASSUME ConstantsOK, ExecutionInv, Execution!Ensure
    PROVE  ExecutionInv'
<1> USE DEF ExecutionInv, ConstantsOK, Execution!Kinds, Execution!Nobody, Execution!Silent
<1>1. started' \in BOOLEAN /\ held' \in BOOLEAN
  <2>1. \/ started' = TRUE /\ held' = TRUE
        \/ started' = started /\ held' = held
    BY DEF Execution!Ensure
  <2> QED
    BY <2>1 DEF Execution!TypeOK
<1>2. Execution!TypeOK'
  <2>1. /\ names' \in BOOLEAN /\ up' \in BOOLEAN /\ registered' \in BOOLEAN /\ lossy' \in BOOLEAN
        /\ known' \in BOOLEAN /\ started' \in BOOLEAN /\ held' \in BOOLEAN
        /\ listening' \in BOOLEAN /\ stopped' \in BOOLEAN /\ wake' \in BOOLEAN
        /\ recovery' \in BOOLEAN /\ resolved' \in BOOLEAN /\ retry' \in BOOLEAN
        /\ unacked' \in BOOLEAN
    BY <1>1 DEF Execution!Ensure, Execution!Fault, Execution!server,
      Execution!socket, Execution!bounds, Execution!response,
      Execution!stream, Execution!wait, Execution!reader, Execution!ghosts,
      Execution!TypeOK, Listening
  <2> QED
    BY <1>1, <2>1, SMT DEF Execution!Ensure, Execution!Fault,
      Execution!server, Execution!socket, Execution!bounds,
      Execution!response, Execution!stream, Execution!wait, Execution!reader,
      Execution!ghosts, Execution!TypeOK, Listening
<1>3. Outcomes' /\ Taken'
  BY <1>1 DEF Execution!Ensure, Execution!Fault, Execution!server,
    Execution!socket, Execution!bounds, Execution!response, Execution!stream,
    Execution!wait, Execution!reader, Execution!ghosts, Execution!TypeOK,
    Outcomes, Taken
<1>4. Told' /\ Execution!VerdictIsTrue'
  BY <1>1 DEF Execution!Ensure, Execution!Fault, Execution!server,
    Execution!socket, Execution!bounds, Execution!response, Execution!stream,
    Execution!wait, Execution!reader, Execution!ghosts, Execution!TypeOK,
    Outcomes, Told, Execution!VerdictIsTrue
<1>5. Listening' /\ Execution!HeardOnce'
  BY <1>1 DEF Execution!Ensure, Execution!Fault, Execution!server,
    Execution!socket, Execution!bounds, Execution!response, Execution!stream,
    Execution!wait, Execution!reader, Execution!ghosts, Execution!TypeOK,
    Listening, Execution!HeardOnce, Execution!Waiting
<1>6. WakesFor'
  BY <1>1 DEF Execution!Ensure, Execution!Fault, Execution!server,
    Execution!socket, Execution!bounds, Execution!response, Execution!stream,
    Execution!wait, Execution!reader, Execution!ghosts, Execution!TypeOK,
    Listening, WakesFor
<1>7. StopsFor'
  BY <1>1 DEF Execution!Ensure, Execution!Fault, Execution!server,
    Execution!socket, Execution!bounds, Execution!response, Execution!stream,
    Execution!wait, Execution!reader, Execution!ghosts, Execution!TypeOK,
    StopsFor
<1> QED
  BY <1>2, <1>3, <1>4, <1>5, <1>6, <1>7

LEMMA ExecutionConfirmStep ==
    ASSUME ConstantsOK, ExecutionInv, Execution!Confirm
    PROVE  ExecutionInv'
<1> USE DEF ExecutionInv, ConstantsOK, Execution!Kinds, Execution!Nobody, Execution!Silent
<1>1. Execution!TypeOK'
  <2>1. /\ names' \in BOOLEAN /\ up' \in BOOLEAN /\ registered' \in BOOLEAN /\ lossy' \in BOOLEAN
        /\ known' \in BOOLEAN /\ started' \in BOOLEAN /\ held' \in BOOLEAN
        /\ listening' \in BOOLEAN /\ stopped' \in BOOLEAN /\ wake' \in BOOLEAN
        /\ recovery' \in BOOLEAN /\ resolved' \in BOOLEAN /\ retry' \in BOOLEAN
        /\ unacked' \in BOOLEAN
    BY DEF Execution!Confirm, Execution!Fault, Execution!server,
      Execution!socket, Execution!bounds, Execution!response,
      Execution!stream, Execution!wait, Execution!reader, Execution!ghosts,
      Execution!TypeOK, Listening
  <2> QED
    BY <2>1, SMT DEF Execution!Confirm, Execution!Fault, Execution!server,
      Execution!socket, Execution!bounds, Execution!response,
      Execution!stream, Execution!wait, Execution!reader, Execution!ghosts,
      Execution!TypeOK, Listening
<1>2. Outcomes' /\ Taken'
  BY DEF Execution!Confirm, Execution!Fault, Execution!server,
    Execution!socket, Execution!bounds, Execution!response, Execution!stream,
    Execution!wait, Execution!reader, Execution!ghosts, Execution!TypeOK,
    Outcomes, Taken
<1>3. Told' /\ Execution!VerdictIsTrue'
  BY DEF Execution!Confirm, Execution!Fault, Execution!server,
    Execution!socket, Execution!bounds, Execution!response, Execution!stream,
    Execution!wait, Execution!reader, Execution!ghosts, Execution!TypeOK,
    Outcomes, Told, Execution!VerdictIsTrue
<1>4. Listening' /\ Execution!HeardOnce'
  BY DEF Execution!Confirm, Execution!Fault, Execution!server,
    Execution!socket, Execution!bounds, Execution!response, Execution!stream,
    Execution!wait, Execution!reader, Execution!ghosts, Execution!TypeOK,
    Listening, Execution!HeardOnce, Execution!Waiting
<1>5. WakesFor'
  BY DEF Execution!Confirm, Execution!Fault, Execution!server,
    Execution!socket, Execution!bounds, Execution!response, Execution!stream,
    Execution!wait, Execution!reader, Execution!ghosts, Execution!TypeOK,
    Listening, WakesFor
<1>6. StopsFor'
  BY DEF Execution!Confirm, Execution!Fault, Execution!server,
    Execution!socket, Execution!bounds, Execution!response, Execution!stream,
    Execution!wait, Execution!reader, Execution!ghosts, Execution!TypeOK,
    StopsFor
<1> QED
  BY <1>1, <1>2, <1>3, <1>4, <1>5, <1>6

LEMMA ExecutionContextEndsStep ==
    ASSUME ConstantsOK, ExecutionInv, Execution!ContextEnds
    PROVE  ExecutionInv'
<1> USE DEF ExecutionInv, ConstantsOK, Execution!Kinds, Execution!Nobody, Execution!Silent
<1>1. Execution!TypeOK'
  <2>1. /\ names' \in BOOLEAN /\ up' \in BOOLEAN /\ registered' \in BOOLEAN /\ lossy' \in BOOLEAN
        /\ known' \in BOOLEAN /\ started' \in BOOLEAN /\ held' \in BOOLEAN
        /\ listening' \in BOOLEAN /\ stopped' \in BOOLEAN /\ wake' \in BOOLEAN
        /\ recovery' \in BOOLEAN /\ resolved' \in BOOLEAN /\ retry' \in BOOLEAN
        /\ unacked' \in BOOLEAN
    BY DEF Execution!ContextEnds, Execution!Stop, Execution!Fault,
      Execution!Waiting, Execution!server, Execution!socket, Execution!bounds,
      Execution!response, Execution!stream, Execution!wait, Execution!reader,
      Execution!ghosts, Execution!TypeOK, Listening
  <2> QED
    BY <2>1, SMT DEF Execution!ContextEnds, Execution!Stop, Execution!Fault,
      Execution!Waiting, Execution!server, Execution!socket, Execution!bounds,
      Execution!response, Execution!stream, Execution!wait, Execution!reader,
      Execution!ghosts, Execution!TypeOK, Listening
<1>2. Outcomes' /\ Taken'
  BY DEF Execution!ContextEnds, Execution!Stop, Execution!Fault,
    Execution!Waiting, Execution!server, Execution!socket, Execution!bounds,
    Execution!response, Execution!stream, Execution!wait, Execution!reader,
    Execution!ghosts, Execution!TypeOK, Outcomes, Taken
<1>3. Told' /\ Execution!VerdictIsTrue'
  BY DEF Execution!ContextEnds, Execution!Stop, Execution!Fault,
    Execution!Waiting, Execution!server, Execution!socket, Execution!bounds,
    Execution!response, Execution!stream, Execution!wait, Execution!reader,
    Execution!ghosts, Execution!TypeOK, Outcomes, Told,
    Execution!VerdictIsTrue
<1>4. Listening' /\ Execution!HeardOnce'
  BY DEF Execution!ContextEnds, Execution!Stop, Execution!Fault,
    Execution!Waiting, Execution!server, Execution!socket, Execution!bounds,
    Execution!response, Execution!stream, Execution!wait, Execution!reader,
    Execution!ghosts, Execution!TypeOK, Listening, Execution!HeardOnce,
    Execution!Waiting
<1>5. WakesFor'
  BY DEF Execution!ContextEnds, Execution!Stop, Execution!Fault,
    Execution!Waiting, Execution!server, Execution!socket, Execution!bounds,
    Execution!response, Execution!stream, Execution!wait, Execution!reader,
    Execution!ghosts, Execution!TypeOK, Listening, WakesFor
<1>6. StopsFor'
  BY DEF Execution!ContextEnds, Execution!Stop, Execution!Fault,
    Execution!Waiting, Execution!server, Execution!socket, Execution!bounds,
    Execution!response, Execution!stream, Execution!wait, Execution!reader,
    Execution!ghosts, Execution!TypeOK, StopsFor
<1> QED
  BY <1>1, <1>2, <1>3, <1>4, <1>5, <1>6

LEMMA ExecutionReleaseTypesStep ==
    ASSUME ConstantsOK, ExecutionInv, Execution!ReleaseTypes
    PROVE  ExecutionInv'
<1> USE DEF ExecutionInv, ConstantsOK, Execution!Kinds, Execution!Nobody, Execution!Silent
<1>1. AllTell(<<>>, op, order)
  BY KindsEmpty DEF AllTell
<1>2. Execution!TypeOK'
  <2>1. /\ names' \in BOOLEAN /\ up' \in BOOLEAN /\ registered' \in BOOLEAN /\ lossy' \in BOOLEAN
        /\ known' \in BOOLEAN /\ started' \in BOOLEAN /\ held' \in BOOLEAN
        /\ listening' \in BOOLEAN /\ stopped' \in BOOLEAN /\ wake' \in BOOLEAN
        /\ recovery' \in BOOLEAN /\ resolved' \in BOOLEAN /\ retry' \in BOOLEAN
        /\ unacked' \in BOOLEAN
    BY <1>1 DEF Execution!ReleaseTypes, Execution!MayRelease,
      Execution!server, Execution!socket, Execution!bounds,
      Execution!response, Execution!stream, Execution!wait, Execution!reader,
      Execution!ghosts, Execution!TypeOK, Listening
  <2> QED
    BY <1>1, <2>1, SMT DEF Execution!ReleaseTypes, Execution!MayRelease,
      Execution!server, Execution!socket, Execution!bounds,
      Execution!response, Execution!stream, Execution!wait, Execution!reader,
      Execution!ghosts, Execution!TypeOK, Listening
<1>3. Outcomes' /\ Taken'
  BY <1>1 DEF Execution!ReleaseTypes, Execution!MayRelease, Execution!server,
    Execution!socket, Execution!bounds, Execution!response, Execution!stream,
    Execution!wait, Execution!reader, Execution!ghosts, Execution!TypeOK,
    Outcomes, Taken
<1>4. Told' /\ Execution!VerdictIsTrue'
  BY <1>1 DEF Execution!ReleaseTypes, Execution!MayRelease, Execution!server,
    Execution!socket, Execution!bounds, Execution!response, Execution!stream,
    Execution!wait, Execution!reader, Execution!ghosts, Execution!TypeOK,
    Outcomes, Told, Execution!VerdictIsTrue
<1>5. Listening' /\ Execution!HeardOnce'
  BY <1>1 DEF Execution!ReleaseTypes, Execution!MayRelease, Execution!server,
    Execution!socket, Execution!bounds, Execution!response, Execution!stream,
    Execution!wait, Execution!reader, Execution!ghosts, Execution!TypeOK,
    Listening, Execution!HeardOnce, Execution!Waiting
<1>6. WakesFor'
  BY <1>1 DEF Execution!ReleaseTypes, Execution!MayRelease, Execution!server,
    Execution!socket, Execution!bounds, Execution!response, Execution!stream,
    Execution!wait, Execution!reader, Execution!ghosts, Execution!TypeOK,
    Listening, WakesFor
<1>7. StopsFor'
  BY <1>1 DEF Execution!ReleaseTypes, Execution!MayRelease, Execution!server,
    Execution!socket, Execution!bounds, Execution!response, Execution!stream,
    Execution!wait, Execution!reader, Execution!ghosts, Execution!TypeOK,
    StopsFor
<1> QED
  BY <1>2, <1>3, <1>4, <1>5, <1>6, <1>7

LEMMA ExecutionReceiveStep ==
    ASSUME ConstantsOK, ExecutionInv, Execution!Receive
    PROVE  ExecutionInv'
<1> USE DEF ExecutionInv, ConstantsOK, Execution!Kinds, Execution!Nobody, Execution!Silent
<1> DEFINE k == Head(wire)
<1>1. UNCHANGED <<Execution!server, up, registered, lossy, Execution!bounds, Execution!response, spc,
                  ready, started, held, listening, stopped, release, Execution!wait, wake,
                  recovery, resolved, Execution!reader, unacked>>
  BY DEF Execution!Receive
<1>2. /\ k \in Execution!Kinds /\ k \in KindsOf(wire) /\ wire' = Tail(wire)
      /\ wire' \in Seq(Execution!Kinds) /\ KindsOf(wire') \subseteq KindsOf(wire)
      /\ dispatch = Execution!Silent
  BY KindsTail DEF Execution!Receive, Execution!TypeOK
<1>3. wire' \in Seq(Execution!Kinds) /\ AllTell(wire', op, order) /\ dispatch = Execution!Silent
  BY <1>2 DEF Told, AllTell
<1>4. /\ replay' \in Seq(Execution!Kinds) /\ Len(replay') <= Cap /\ AllTell(replay', op, order)
      /\ dispatch' \in [kind : Execution!Kinds \cup {Execution!Nobody}, listener : BOOLEAN,
                         terminal : BOOLEAN]
      /\ dispatch' = Execution!Silent \/ dispatch'.kind \in Execution!Kinds
      /\ Tells(dispatch'.kind, op, order)
      /\ dispatch'.listener => listening
      /\ due' = due + (IF dispatch'.listener THEN 1 ELSE 0)
      /\ \/ stopped
         \/ Evident(replay', known) /\ sub # "calling" =>
               Evident(replay, known) \/ dispatch'.terminal
  <2>1. CASE stopped
    <3>1. replay' = replay /\ dispatch' = dispatch /\ due' = due
      BY <2>1 DEF Execution!Receive
    <3> QED
      BY <1>2, <2>1, <3>1 DEF Execution!TypeOK, Told, Listening
  <2>2. CASE ~stopped
    <3> DEFINE s == Append(replay, k)
    <3>1. /\ replay' = Execution!Kept(k)
          /\ dispatch' = [kind |-> k, listener |-> listening, terminal |-> Execution!Ends(k)]
          /\ due' = IF listening THEN due + 1 ELSE due
      BY <2>2 DEF Execution!Receive
    <3>2. replay \in Seq(Execution!Kinds) /\ Len(replay) \in Nat /\ Len(replay) <= Cap
      BY DEF Execution!TypeOK
    <3>3. /\ s \in Seq(Execution!Kinds) /\ Len(s) = Len(replay) + 1 /\ s # <<>>
          /\ KindsOf(s) = KindsOf(replay) \cup {k}
      BY <1>2, <3>2, KindsAppend
    <3>4. /\ Tail(s) \in Seq(Execution!Kinds) /\ Len(Tail(s)) = Len(s) - 1
          /\ KindsOf(Tail(s)) \subseteq KindsOf(s)
      BY <3>3, KindsTail
    <3>5. replay' = IF Len(s) > Cap THEN Tail(s) ELSE s
      BY <3>1 DEF Execution!Kept
    <3> HIDE DEF s, k
    <3>6. /\ replay' \in Seq(Execution!Kinds) /\ Len(replay') <= Cap
          /\ KindsOf(replay') \subseteq KindsOf(replay) \cup {k}
      BY <3>2, <3>3, <3>4, <3>5
    <3>7. Execution!Ends(k) \in BOOLEAN
      BY Zenon DEF Execution!Ends
    <3>8. /\ dispatch' \in [kind : Execution!Kinds \cup {Execution!Nobody}, listener : BOOLEAN,
                             terminal : BOOLEAN]
          /\ dispatch'.kind = k /\ dispatch'.listener = listening
          /\ dispatch'.terminal = Execution!Ends(k)
      BY <1>2, <3>1, <3>7 DEF Execution!TypeOK
    <3>9. Tells(k, op, order) /\ AllTell(replay', op, order)
      BY <1>2, <3>6 DEF Told, AllTell
    <3>10. due' = due + (IF dispatch'.listener THEN 1 ELSE 0)
      BY <3>1, <3>8 DEF Execution!TypeOK
    <3>11. Evident(replay', known) /\ sub # "calling" => Evident(replay, known) \/ Execution!Ends(k)
      BY <3>6 DEF Evident, Execution!Ends
    <3> QED
      BY <1>2, <3>6, <3>8, <3>9, <3>10, <3>11
  <2> QED
    BY <2>1, <2>2 DEF Execution!TypeOK
<1>5. Execution!TypeOK'
  <2>1. /\ names' \in BOOLEAN /\ up' \in BOOLEAN /\ registered' \in BOOLEAN /\ lossy' \in BOOLEAN
        /\ known' \in BOOLEAN /\ started' \in BOOLEAN /\ held' \in BOOLEAN
        /\ listening' \in BOOLEAN /\ stopped' \in BOOLEAN /\ wake' \in BOOLEAN
        /\ recovery' \in BOOLEAN /\ resolved' \in BOOLEAN /\ retry' \in BOOLEAN
        /\ unacked' \in BOOLEAN
    BY <1>1, <1>3, <1>4 DEF Execution!server, Execution!socket,
      Execution!bounds, Execution!response, Execution!stream, Execution!wait,
      Execution!reader, Execution!ghosts, Execution!TypeOK, Listening
  <2> QED
    BY <1>1, <1>3, <1>4, <2>1, SMT DEF Execution!server, Execution!socket,
      Execution!bounds, Execution!response, Execution!stream, Execution!wait,
      Execution!reader, Execution!ghosts, Execution!TypeOK, Listening
<1>6. Outcomes' /\ Taken'
  BY <1>1, <1>3, <1>4 DEF Execution!server, Execution!socket,
    Execution!bounds, Execution!response, Execution!stream, Execution!wait,
    Execution!reader, Execution!ghosts, Execution!TypeOK, Outcomes, Taken
<1>7. Told' /\ Execution!VerdictIsTrue'
  BY <1>1, <1>3, <1>4 DEF Execution!server, Execution!socket,
    Execution!bounds, Execution!response, Execution!stream, Execution!wait,
    Execution!reader, Execution!ghosts, Execution!TypeOK, Outcomes, Told,
    Execution!VerdictIsTrue
<1>8. Listening' /\ Execution!HeardOnce'
  <2>1. Listening'
    BY <1>1, <1>3, <1>4 DEF Execution!reader, Execution!wait, Execution!stream, Execution!response,
      Execution!TypeOK, Listening, Execution!Waiting
  <2>2. Execution!HeardOnce'
    <3> SUFFICES ASSUME Execution!Waiting
                 PROVE  due' = (IF pc = "replay" THEN Len(batch) ELSE 0)
                                 + (IF dispatch'.listener THEN 1 ELSE 0)
      BY <1>1 DEF Execution!HeardOnce, Execution!Waiting, Execution!wait
    <3>1. due = IF pc = "replay" THEN Len(batch) ELSE 0
      BY <1>3 DEF Execution!HeardOnce, Execution!TypeOK
    <3> QED
      BY <1>4, <3>1 DEF Execution!TypeOK
  <2> QED
    BY <2>1, <2>2
<1>9. WakesFor'
  BY <1>1, <1>3, <1>4 DEF Execution!server, Execution!socket,
    Execution!bounds, Execution!response, Execution!stream, Execution!wait,
    Execution!reader, Execution!ghosts, Execution!TypeOK, Listening, WakesFor
<1>10. StopsFor'
  BY <1>1, <1>3, <1>4 DEF Execution!server, Execution!socket,
    Execution!bounds, Execution!response, Execution!stream, Execution!wait,
    Execution!reader, Execution!ghosts, Execution!TypeOK, StopsFor
<1> QED
  BY <1>5, <1>6, <1>7, <1>8, <1>9, <1>10

LEMMA ExecutionDispatchStep ==
    ASSUME ConstantsOK, ExecutionInv, Execution!Dispatch
    PROVE  ExecutionInv'
<1> USE DEF ExecutionInv, ConstantsOK, Execution!Kinds, Execution!Nobody, Execution!Silent
<1>1. /\ dispatch # Execution!Silent /\ dispatch' = Execution!Silent
      /\ UNCHANGED <<Execution!server, Execution!socket, Execution!bounds, Execution!response, spc,
                     ready, started, held, replay, listening, pc, batch, verdict, recovery,
                     resolved, Execution!reader, unacked>>
  BY DEF Execution!Dispatch
<1>2. /\ stopped' \in BOOLEAN /\ (stopped => stopped') /\ (dispatch.terminal => stopped')
      /\ release' \in {"no", "waiting", "done"} /\ (release' = "done" <=> release = "done")
  <2>1. /\ Execution!Stop \/ Execution!KeepGoing
        /\ dispatch.terminal => Execution!Stop
    BY DEF Execution!Dispatch
  <2> QED
    BY <2>1, StopKept DEF Execution!Stop
<1>3. Tells(dispatch'.kind, op, order)
  BY <1>1 DEF Tells
<1>4. /\ events' \in Seq(Execution!Kinds) /\ AllTell(events', op, order)
      /\ wake' \in BOOLEAN
      /\ wake' = TRUE \/ (wake' = wake /\ events' = events)
      /\ due' = due - (IF dispatch.listener /\ pc # "returned" THEN 1 ELSE 0)
  <2> DEFINE k == dispatch.kind
             s == <<k>>
  <2>1. k \in Execution!Kinds /\ Tells(k, op, order)
    BY <1>1 DEF Told, Listening
  <2>2. events \in Seq(Execution!Kinds) /\ wake \in BOOLEAN /\ AllTell(events, op, order)
    BY DEF Execution!TypeOK, Told
  <2>3. CASE dispatch.listener /\ pc # "returned"
    <3>1. events' = events \o s /\ wake' = (wake \/ s # <<>>) /\ due' = due - Len(s)
      BY <2>3 DEF Execution!Dispatch, Execution!Handles
    <3>2. s # <<>> /\ Len(s) = 1 /\ s \in Seq(Execution!Kinds)
      BY <2>1
    <3>3. KindsOf(s) = {k}
      BY <2>1, KindsOfEmitted
    <3> HIDE DEF s, k
    <3>4. events' \in Seq(Execution!Kinds) /\ KindsOf(events') = KindsOf(events) \cup {k}
      BY <2>2, <3>1, <3>2, <3>3, KindsConcat
    <3>5. wake' = TRUE
      BY <3>1, <3>2
    <3>6. AllTell(events', op, order)
      BY <2>1, <2>2, <3>4 DEF AllTell
    <3> QED
      BY <2>3, <3>1, <3>2, <3>4, <3>5, <3>6
  <2>4. CASE ~(dispatch.listener /\ pc # "returned")
    <3>1. events' = events /\ wake' = wake /\ due' = due
      BY <2>4 DEF Execution!Dispatch
    <3> QED
      BY <2>2, <2>4, <3>1 DEF Execution!TypeOK
  <2> QED
    BY <2>3, <2>4
<1>5. Execution!TypeOK'
  <2>1. /\ names' \in BOOLEAN /\ up' \in BOOLEAN /\ registered' \in BOOLEAN /\ lossy' \in BOOLEAN
        /\ known' \in BOOLEAN /\ started' \in BOOLEAN /\ held' \in BOOLEAN
        /\ listening' \in BOOLEAN /\ stopped' \in BOOLEAN /\ wake' \in BOOLEAN
        /\ recovery' \in BOOLEAN /\ resolved' \in BOOLEAN /\ retry' \in BOOLEAN
        /\ unacked' \in BOOLEAN
    BY <1>1, <1>2, <1>3, <1>4 DEF Execution!server, Execution!socket,
      Execution!bounds, Execution!response, Execution!stream, Execution!wait,
      Execution!reader, Execution!ghosts, Execution!TypeOK, Listening
  <2> QED
    BY <1>1, <1>2, <1>3, <1>4, <2>1, SMT DEF Execution!server,
      Execution!socket, Execution!bounds, Execution!response,
      Execution!stream, Execution!wait, Execution!reader, Execution!ghosts,
      Execution!TypeOK, Listening
<1>6. Outcomes' /\ Taken'
  BY <1>1, <1>2, <1>3, <1>4 DEF Execution!server, Execution!socket,
    Execution!bounds, Execution!response, Execution!stream, Execution!wait,
    Execution!reader, Execution!ghosts, Execution!TypeOK, Outcomes, Taken
<1>7. Told' /\ Execution!VerdictIsTrue'
  BY <1>1, <1>2, <1>3, <1>4 DEF Execution!server, Execution!socket,
    Execution!bounds, Execution!response, Execution!stream, Execution!wait,
    Execution!reader, Execution!ghosts, Execution!TypeOK, Outcomes, Told,
    Execution!VerdictIsTrue
<1>8. Listening' /\ Execution!HeardOnce'
  <2>1. Listening'
    BY <1>1, <1>2, <1>4 DEF Execution!reader, Execution!wait, Execution!stream, Execution!response,
      Execution!TypeOK, Listening, Execution!Waiting
  <2>2. Execution!HeardOnce'
    <3> SUFFICES ASSUME Execution!Waiting
                 PROVE  due' = IF pc = "replay" THEN Len(batch) ELSE 0
      BY <1>1 DEF Execution!HeardOnce, Execution!Waiting
    <3>1. /\ due = (IF pc = "replay" THEN Len(batch) ELSE 0) + (IF dispatch.listener THEN 1 ELSE 0)
          /\ pc # "returned"
      BY DEF Execution!HeardOnce, Execution!Waiting
    <3> QED
      BY <1>4, <3>1 DEF Execution!TypeOK
  <2> QED
    BY <2>1, <2>2
<1>9. WakesFor'
  BY <1>1, <1>2, <1>3, <1>4 DEF Execution!server, Execution!socket,
    Execution!bounds, Execution!response, Execution!stream, Execution!wait,
    Execution!reader, Execution!ghosts, Execution!TypeOK, Listening, WakesFor
<1>10. StopsFor'
  BY <1>1, <1>2, <1>3, <1>4 DEF Execution!server, Execution!socket,
    Execution!bounds, Execution!response, Execution!stream, Execution!wait,
    Execution!reader, Execution!ghosts, Execution!TypeOK, StopsFor
<1> QED
  BY <1>5, <1>6, <1>7, <1>8, <1>9, <1>10

LEMMA ExecutionAnsweredStep ==
    ASSUME ConstantsOK, ExecutionInv, Execution!Answered
    PROVE  ExecutionInv'
<1> USE DEF ExecutionInv, ConstantsOK, Execution!Kinds, Execution!Nobody, Execution!Silent
<1>1. /\ order = "done" => order' = "done"
      /\ op \in {"executed", "failed"} => op' = op
      /\ \A k : Tells(k, op, order) => Tells(k, op', order')
      /\ \A s : AllTell(s, op, order) => AllTell(s, op', order')
  <2>1. order = "done" => order' = "done"
    BY DEF Execution!Answered, Outcomes, Execution!TypeOK
  <2>2. op \in {"executed", "failed"} => op' = op
    BY DEF Execution!Answered, Outcomes, Execution!TypeOK
  <2> QED
    BY <2>1, <2>2, TellsOn
<1>2. /\ sub = "calling" /\ sub' = op' /\ known' = (names /\ op' \in {"placed", "executed"})
      /\ op' \in {"pending", "placed", "executed", "failed"} /\ known' \in BOOLEAN
      /\ UNCHANGED <<names, Execution!socket, Execution!bounds, spc, ready, started, held, replay,
                     listening, dispatch, Execution!wait, wake, recovery, resolved,
                     Execution!reader, Execution!ghosts>>
  BY DEF Execution!Answered, Execution!TypeOK
<1>3. /\ order' \in {"none", "working", "done"}
      /\ op' \in {"pending", "failed"} => order' = "none"
      /\ op' = "placed" => order' # "none"
      /\ op' = "executed" => order' = "done"
  BY DEF Execution!Answered, Execution!TypeOK, Outcomes
<1>4. /\ stopped' \in BOOLEAN /\ (stopped => stopped') /\ (Evident(replay, known') => stopped')
      /\ release' \in {"no", "waiting", "done"} /\ (release' = "done" <=> release = "done")
  <2>1. Evident(replay, known') <=> Execution!Rechecked(known')
    BY DEF Evident, KindsOf, Execution!Rechecked
  <2>2. /\ Execution!Stop \/ Execution!KeepGoing
        /\ Execution!Rechecked(known') => Execution!Stop
    BY DEF Execution!Answered
  <2> QED
    BY <2>1, <2>2, StopKept DEF Execution!Stop
<1>5. Execution!TypeOK'
  <2>1. /\ names' \in BOOLEAN /\ up' \in BOOLEAN /\ registered' \in BOOLEAN /\ lossy' \in BOOLEAN
        /\ known' \in BOOLEAN /\ started' \in BOOLEAN /\ held' \in BOOLEAN
        /\ listening' \in BOOLEAN /\ stopped' \in BOOLEAN /\ wake' \in BOOLEAN
        /\ recovery' \in BOOLEAN /\ resolved' \in BOOLEAN /\ retry' \in BOOLEAN
        /\ unacked' \in BOOLEAN
    BY <1>1, <1>2, <1>3, <1>4 DEF Execution!server, Execution!socket,
      Execution!bounds, Execution!response, Execution!stream, Execution!wait,
      Execution!reader, Execution!ghosts, Execution!TypeOK, Listening
  <2> QED
    BY <1>1, <1>2, <1>3, <1>4, <2>1, SMT DEF Execution!server,
      Execution!socket, Execution!bounds, Execution!response,
      Execution!stream, Execution!wait, Execution!reader, Execution!ghosts,
      Execution!TypeOK, Listening
<1>6. Outcomes' /\ Taken'
  BY <1>1, <1>2, <1>3, <1>4 DEF Execution!server, Execution!socket,
    Execution!bounds, Execution!response, Execution!stream, Execution!wait,
    Execution!reader, Execution!ghosts, Execution!TypeOK, Outcomes, Taken
<1>7. Told' /\ Execution!VerdictIsTrue'
  BY <1>1, <1>2, <1>3, <1>4 DEF Execution!server, Execution!socket,
    Execution!bounds, Execution!response, Execution!stream, Execution!wait,
    Execution!reader, Execution!ghosts, Execution!TypeOK, Outcomes, Told,
    Execution!VerdictIsTrue
<1>8. Listening' /\ Execution!HeardOnce'
  BY <1>1, <1>2, <1>3, <1>4 DEF Execution!server, Execution!socket,
    Execution!bounds, Execution!response, Execution!stream, Execution!wait,
    Execution!reader, Execution!ghosts, Execution!TypeOK, Listening,
    Execution!HeardOnce, Execution!Waiting
<1>9. WakesFor'
  BY <1>1, <1>2, <1>3, <1>4 DEF Execution!server, Execution!socket,
    Execution!bounds, Execution!response, Execution!stream, Execution!wait,
    Execution!reader, Execution!ghosts, Execution!TypeOK, Listening, WakesFor
<1>10. StopsFor'
  BY <1>1, <1>2, <1>3, <1>4 DEF Execution!server, Execution!socket,
    Execution!bounds, Execution!response, Execution!stream, Execution!wait,
    Execution!reader, Execution!ghosts, Execution!TypeOK, StopsFor
<1> QED
  BY <1>5, <1>6, <1>7, <1>8, <1>9, <1>10

LEMMA ExecutionCreateStep ==
    ASSUME ConstantsOK, ExecutionInv, Execution!Create
    PROVE  ExecutionInv'
<1> USE DEF ExecutionInv, ConstantsOK, Execution!Kinds, Execution!Nobody, Execution!Silent
<1>1. /\ order = "done" => order' = "done"
      /\ op \in {"executed", "failed"} => op' = op
      /\ \A k : Tells(k, op, order) => Tells(k, op', order')
      /\ \A s : AllTell(s, op, order) => AllTell(s, op', order')
  <2>1. order = "done" => order' = "done"
    BY DEF Execution!Create, Outcomes, Execution!TypeOK
  <2>2. op \in {"executed", "failed"} => op' = op
    BY DEF Execution!Create, Outcomes, Execution!TypeOK
  <2> QED
    BY <2>1, <2>2, TellsOn
<1>2. Execution!TypeOK'
  <2>1. /\ names' \in BOOLEAN /\ up' \in BOOLEAN /\ registered' \in BOOLEAN /\ lossy' \in BOOLEAN
        /\ known' \in BOOLEAN /\ started' \in BOOLEAN /\ held' \in BOOLEAN
        /\ listening' \in BOOLEAN /\ stopped' \in BOOLEAN /\ wake' \in BOOLEAN
        /\ recovery' \in BOOLEAN /\ resolved' \in BOOLEAN /\ retry' \in BOOLEAN
        /\ unacked' \in BOOLEAN
    BY <1>1 DEF Execution!Create, Execution!server, Execution!socket,
      Execution!bounds, Execution!response, Execution!stream, Execution!wait,
      Execution!reader, Execution!ghosts, Execution!TypeOK, Listening
  <2> QED
    BY <1>1, <2>1, SMT DEF Execution!Create, Execution!server,
      Execution!socket, Execution!bounds, Execution!response,
      Execution!stream, Execution!wait, Execution!reader, Execution!ghosts,
      Execution!TypeOK, Listening
<1>3. Outcomes' /\ Taken'
  BY <1>1 DEF Execution!Create, Execution!server, Execution!socket,
    Execution!bounds, Execution!response, Execution!stream, Execution!wait,
    Execution!reader, Execution!ghosts, Execution!TypeOK, Outcomes, Taken
<1>4. Told' /\ Execution!VerdictIsTrue'
  BY <1>1 DEF Execution!Create, Execution!server, Execution!socket,
    Execution!bounds, Execution!response, Execution!stream, Execution!wait,
    Execution!reader, Execution!ghosts, Execution!TypeOK, Outcomes, Told,
    Execution!VerdictIsTrue
<1>5. Listening' /\ Execution!HeardOnce'
  BY <1>1 DEF Execution!Create, Execution!server, Execution!socket,
    Execution!bounds, Execution!response, Execution!stream, Execution!wait,
    Execution!reader, Execution!ghosts, Execution!TypeOK, Listening,
    Execution!HeardOnce, Execution!Waiting
<1>6. WakesFor'
  BY <1>1 DEF Execution!Create, Execution!server, Execution!socket,
    Execution!bounds, Execution!response, Execution!stream, Execution!wait,
    Execution!reader, Execution!ghosts, Execution!TypeOK, Listening, WakesFor
<1>7. StopsFor'
  BY <1>1 DEF Execution!Create, Execution!server, Execution!socket,
    Execution!bounds, Execution!response, Execution!stream, Execution!wait,
    Execution!reader, Execution!ghosts, Execution!TypeOK, StopsFor
<1> QED
  BY <1>2, <1>3, <1>4, <1>5, <1>6, <1>7

LEMMA ExecutionSubmitFailsStep ==
    ASSUME ConstantsOK, ExecutionInv, Execution!SubmitFails
    PROVE  ExecutionInv'
<1> USE DEF ExecutionInv, ConstantsOK, Execution!Kinds, Execution!Nobody, Execution!Silent
<1>1. Execution!TypeOK'
  <2>1. /\ names' \in BOOLEAN /\ up' \in BOOLEAN /\ registered' \in BOOLEAN /\ lossy' \in BOOLEAN
        /\ known' \in BOOLEAN /\ started' \in BOOLEAN /\ held' \in BOOLEAN
        /\ listening' \in BOOLEAN /\ stopped' \in BOOLEAN /\ wake' \in BOOLEAN
        /\ recovery' \in BOOLEAN /\ resolved' \in BOOLEAN /\ retry' \in BOOLEAN
        /\ unacked' \in BOOLEAN
    BY DEF Execution!SubmitFails, Execution!Fault, Execution!Stop,
      Execution!server, Execution!socket, Execution!bounds,
      Execution!response, Execution!stream, Execution!wait, Execution!reader,
      Execution!ghosts, Execution!TypeOK, Listening
  <2> QED
    BY <2>1, SMT DEF Execution!SubmitFails, Execution!Fault, Execution!Stop,
      Execution!server, Execution!socket, Execution!bounds,
      Execution!response, Execution!stream, Execution!wait, Execution!reader,
      Execution!ghosts, Execution!TypeOK, Listening
<1>2. Outcomes' /\ Taken'
  BY DEF Execution!SubmitFails, Execution!Fault, Execution!Stop,
    Execution!server, Execution!socket, Execution!bounds, Execution!response,
    Execution!stream, Execution!wait, Execution!reader, Execution!ghosts,
    Execution!TypeOK, Outcomes, Taken
<1>3. Told' /\ Execution!VerdictIsTrue'
  BY DEF Execution!SubmitFails, Execution!Fault, Execution!Stop,
    Execution!server, Execution!socket, Execution!bounds, Execution!response,
    Execution!stream, Execution!wait, Execution!reader, Execution!ghosts,
    Execution!TypeOK, Outcomes, Told, Execution!VerdictIsTrue
<1>4. Listening' /\ Execution!HeardOnce'
  BY DEF Execution!SubmitFails, Execution!Fault, Execution!Stop,
    Execution!server, Execution!socket, Execution!bounds, Execution!response,
    Execution!stream, Execution!wait, Execution!reader, Execution!ghosts,
    Execution!TypeOK, Listening, Execution!HeardOnce, Execution!Waiting
<1>5. WakesFor'
  BY DEF Execution!SubmitFails, Execution!Fault, Execution!Stop,
    Execution!server, Execution!socket, Execution!bounds, Execution!response,
    Execution!stream, Execution!wait, Execution!reader, Execution!ghosts,
    Execution!TypeOK, Listening, WakesFor
<1>6. StopsFor'
  BY DEF Execution!SubmitFails, Execution!Fault, Execution!Stop,
    Execution!server, Execution!socket, Execution!bounds, Execution!response,
    Execution!stream, Execution!wait, Execution!reader, Execution!ghosts,
    Execution!TypeOK, StopsFor
<1> QED
  BY <1>1, <1>2, <1>3, <1>4, <1>5, <1>6

LEMMA ExecutionListenStep ==
    ASSUME ConstantsOK, ExecutionInv, Execution!Listen
    PROVE  ExecutionInv'
<1> USE DEF ExecutionInv, ConstantsOK, Execution!Kinds, Execution!Nobody, Execution!Silent
<1>1. Execution!TypeOK'
  <2>1. /\ names' \in BOOLEAN /\ up' \in BOOLEAN /\ registered' \in BOOLEAN /\ lossy' \in BOOLEAN
        /\ known' \in BOOLEAN /\ started' \in BOOLEAN /\ held' \in BOOLEAN
        /\ listening' \in BOOLEAN /\ stopped' \in BOOLEAN /\ wake' \in BOOLEAN
        /\ recovery' \in BOOLEAN /\ resolved' \in BOOLEAN /\ retry' \in BOOLEAN
        /\ unacked' \in BOOLEAN
    BY DEF Execution!Listen, Execution!Batch, Execution!server,
      Execution!socket, Execution!bounds, Execution!response,
      Execution!stream, Execution!wait, Execution!reader, Execution!ghosts,
      Execution!TypeOK, Listening
  <2> QED
    BY <2>1, SMT DEF Execution!Listen, Execution!Batch, Execution!server,
      Execution!socket, Execution!bounds, Execution!response,
      Execution!stream, Execution!wait, Execution!reader, Execution!ghosts,
      Execution!TypeOK, Listening
<1>2. Outcomes' /\ Taken'
  BY DEF Execution!Listen, Execution!Batch, Execution!server,
    Execution!socket, Execution!bounds, Execution!response, Execution!stream,
    Execution!wait, Execution!reader, Execution!ghosts, Execution!TypeOK,
    Outcomes, Taken
<1>3. Told' /\ Execution!VerdictIsTrue'
  BY DEF Execution!Listen, Execution!Batch, Execution!server,
    Execution!socket, Execution!bounds, Execution!response, Execution!stream,
    Execution!wait, Execution!reader, Execution!ghosts, Execution!TypeOK,
    Outcomes, Told, Execution!VerdictIsTrue
<1>4. Listening' /\ Execution!HeardOnce'
  BY DEF Execution!Listen, Execution!Batch, Execution!server,
    Execution!socket, Execution!bounds, Execution!response, Execution!stream,
    Execution!wait, Execution!reader, Execution!ghosts, Execution!TypeOK,
    Listening, Execution!HeardOnce, Execution!Waiting
<1>5. WakesFor'
  BY DEF Execution!Listen, Execution!Batch, Execution!server,
    Execution!socket, Execution!bounds, Execution!response, Execution!stream,
    Execution!wait, Execution!reader, Execution!ghosts, Execution!TypeOK,
    Listening, WakesFor
<1>6. StopsFor'
  BY DEF Execution!Listen, Execution!Batch, Execution!server,
    Execution!socket, Execution!bounds, Execution!response, Execution!stream,
    Execution!wait, Execution!reader, Execution!ghosts, Execution!TypeOK,
    StopsFor
<1> QED
  BY <1>1, <1>2, <1>3, <1>4, <1>5, <1>6

LEMMA ExecutionReplayedStep ==
    ASSUME ConstantsOK, ExecutionInv, Execution!Replayed
    PROVE  ExecutionInv'
<1> USE DEF ExecutionInv, ConstantsOK, Execution!Kinds, Execution!Nobody, Execution!Silent
<1>1. /\ pc = "replay" /\ batch' = <<>> /\ pc' = "submitted"
      /\ UNCHANGED <<Execution!server, Execution!socket, Execution!bounds, Execution!response,
                     Execution!stream, verdict, recovery, resolved, Execution!reader, unacked>>
  BY DEF Execution!Replayed
<1>2. /\ events' \in Seq(Execution!Kinds) /\ AllTell(events', op, order)
      /\ wake' \in BOOLEAN /\ due' = due - Len(batch) /\ Len(batch) \in Nat
      /\ AllTell(<<>>, op, order)
  <2>1. batch \in Seq(Execution!Kinds) /\ events \in Seq(Execution!Kinds) /\ Len(batch) \in Nat
    BY DEF Execution!TypeOK
  <2>2. /\ events \o batch \in Seq(Execution!Kinds)
        /\ KindsOf(events \o batch) = KindsOf(events) \cup KindsOf(batch)
    BY <2>1, KindsConcat
  <2>3. events' = events \o batch /\ wake' = (wake \/ batch # <<>>) /\ due' = due - Len(batch)
    BY DEF Execution!Replayed, Execution!Handles
  <2>4. wake' \in BOOLEAN
    BY <2>3, Zenon
  <2>5. AllTell(events', op, order) /\ AllTell(<<>>, op, order)
    BY <2>2, <2>3, KindsEmpty DEF Told, AllTell
  <2> QED
    BY <2>1, <2>2, <2>3, <2>4, <2>5
<1>3. Execution!TypeOK'
  <2>1. /\ names' \in BOOLEAN /\ up' \in BOOLEAN /\ registered' \in BOOLEAN /\ lossy' \in BOOLEAN
        /\ known' \in BOOLEAN /\ started' \in BOOLEAN /\ held' \in BOOLEAN
        /\ listening' \in BOOLEAN /\ stopped' \in BOOLEAN /\ wake' \in BOOLEAN
        /\ recovery' \in BOOLEAN /\ resolved' \in BOOLEAN /\ retry' \in BOOLEAN
        /\ unacked' \in BOOLEAN
    BY <1>1, <1>2 DEF Execution!server, Execution!socket, Execution!bounds,
      Execution!response, Execution!stream, Execution!wait, Execution!reader,
      Execution!ghosts, Execution!TypeOK, Listening
  <2> QED
    BY <1>1, <1>2, <2>1, SMT DEF Execution!server, Execution!socket,
      Execution!bounds, Execution!response, Execution!stream, Execution!wait,
      Execution!reader, Execution!ghosts, Execution!TypeOK, Listening
<1>4. Outcomes' /\ Taken'
  BY <1>1, <1>2 DEF Execution!server, Execution!socket, Execution!bounds,
    Execution!response, Execution!stream, Execution!wait, Execution!reader,
    Execution!ghosts, Execution!TypeOK, Outcomes, Taken
<1>5. Told' /\ Execution!VerdictIsTrue'
  BY <1>1, <1>2 DEF Execution!server, Execution!socket, Execution!bounds,
    Execution!response, Execution!stream, Execution!wait, Execution!reader,
    Execution!ghosts, Execution!TypeOK, Outcomes, Told,
    Execution!VerdictIsTrue
<1>6. Listening' /\ Execution!HeardOnce'
  BY <1>1, <1>2 DEF Execution!server, Execution!socket, Execution!bounds,
    Execution!response, Execution!stream, Execution!wait, Execution!reader,
    Execution!ghosts, Execution!TypeOK, Listening, Execution!HeardOnce,
    Execution!Waiting
<1>7. WakesFor'
  BY <1>1, <1>2 DEF Execution!server, Execution!socket, Execution!bounds,
    Execution!response, Execution!stream, Execution!wait, Execution!reader,
    Execution!ghosts, Execution!TypeOK, Listening, WakesFor
<1>8. StopsFor'
  BY <1>1, <1>2 DEF Execution!server, Execution!socket, Execution!bounds,
    Execution!response, Execution!stream, Execution!wait, Execution!reader,
    Execution!ghosts, Execution!TypeOK, StopsFor
<1> QED
  BY <1>3, <1>4, <1>5, <1>6, <1>7, <1>8

LEMMA ExecutionSubmittedStep ==
    ASSUME ConstantsOK, ExecutionInv, Execution!Submitted
    PROVE  ExecutionInv'
<1> USE DEF ExecutionInv, ConstantsOK, Execution!Kinds, Execution!Nobody, Execution!Silent
<1> DEFINE Goes ==
          /\ pc = "submitted" /\ sub \in {"pending", "placed"}
          /\ resolved' = known /\ rpc' = (IF known THEN "ready" ELSE "wait")
          /\ batch' = events /\ events' = <<>> /\ pc' = "scan"
          /\ UNCHANGED <<wake, recovery, attempt, answer, result, retry>>
          /\ UNCHANGED <<op, order, names, up, registered, wire, lossy, noise, faults, sub, known,
                         spc, ready, started, held, replay, dispatch, due, unacked, listening,
                         stopped, release, verdict>>
<1>1. SUFFICES ASSUME Goes PROVE ExecutionInv'
  <2>1. UNCHANGED Execution!untouched
    BY DEF Execution!Submitted
  <2>2. /\ sub = "executed" => order = "done"
        /\ sub = "failed" => op = "failed"
    BY DEF Outcomes
  <2>3. ASSUME \/ sub = "error" /\ Execution!Return("error", FALSE)
               \/ sub = "failed" /\ Execution!Return("failed", FALSE)
               \/ sub = "executed" /\ Execution!Return("executed", TRUE)
        PROVE  ExecutionInv'
    BY <2>1, <2>2, <2>3, ReturnKept
  <2> QED
    BY <1>1, <2>3 DEF Execution!Submitted, Execution!TakeEvents, Execution!untouched,
      Execution!server, Execution!socket, Execution!bounds, Execution!response, Execution!ghosts
<1>2. AllTell(<<>>, op, order) /\ ~Evident(<<>>, resolved') /\ rpc = "off"
  BY <1>1, KindsEmpty DEF AllTell, Evident, Listening
<1>3. Execution!TypeOK'
  BY <1>1, <1>2 DEF Execution!TypeOK, Listening
<1>4. Outcomes' /\ Taken'
  BY <1>1, <1>2 DEF Outcomes, Taken
<1>5. Told' /\ Execution!VerdictIsTrue'
  BY <1>1, <1>2 DEF Told, Execution!VerdictIsTrue
<1>6. Listening' /\ Execution!HeardOnce'
  BY <1>1, <1>2 DEF Listening, Execution!HeardOnce, Execution!Waiting
<1>7. WakesFor' /\ StopsFor'
  BY <1>1, <1>2 DEF WakesFor, StopsFor
<1> QED
  BY <1>3, <1>4, <1>5, <1>6, <1>7

LEMMA ExecutionScanStep ==
    ASSUME ConstantsOK, ExecutionInv, Execution!Scan
    PROVE  ExecutionInv'
<1> USE DEF ExecutionInv, ConstantsOK, Execution!Kinds, Execution!Nobody, Execution!Silent
<1> DEFINE e == Head(batch)
<1>1. /\ e \in Execution!Kinds /\ Tail(batch) \in Seq(Execution!Kinds)
      /\ AllTell(Tail(batch), op, order) /\ Tells(e, op, order) /\ pc = "scan"
  BY KindsTail DEF Execution!Scan, Execution!TypeOK, Told, AllTell
<1> DEFINE Goes ==
          /\ e \in {"mine", "else"} /\ ~(e = "mine" /\ resolved)
          /\ \/ events' = events
             \/ events' = Append(events, e) /\ ~resolved
          /\ batch' = Tail(batch)
          /\ UNCHANGED <<pc, wake, recovery, resolved, rpc, attempt, answer, result,
                         retry>>
          /\ UNCHANGED <<op, order, names, up, registered, wire, lossy, noise, faults, sub, known,
                         spc, ready, started, held, replay, dispatch, due, unacked, listening,
                         stopped, release, verdict>>
<1>2. SUFFICES ASSUME Goes PROVE ExecutionInv'
  <2>1. UNCHANGED Execution!untouched
    BY DEF Execution!Scan
  <2>2. /\ e \in {"mine", "opExecuted"} => order = "done"
        /\ e = "opFailed" => op = "failed"
    BY <1>1 DEF Outcomes, Tells
  <2>3. ASSUME \/ e = "opFailed" /\ Execution!Return("failed", FALSE)
               \/ e = "opExecuted" /\ Execution!Return("executed", TRUE)
               \/ e = "mine" /\ Execution!Return("executed", TRUE)
        PROVE  ExecutionInv'
    BY <2>1, <2>2, <2>3, ReturnKept
  <2> HIDE DEF e
  <2>4. \/ e = "opFailed" /\ Execution!Return("failed", FALSE)
        \/ e = "opExecuted" /\ Execution!Return("executed", TRUE)
        \/ e = "mine" /\ Execution!Return("executed", TRUE)
        \/ /\ e \in {"mine", "else"} /\ ~(e = "mine" /\ resolved)
           /\ events' = IF Execution!Early(e) /\ Len(events) < EarlyCap
                        THEN Append(events, e) ELSE events
           /\ batch' = Tail(batch)
           /\ UNCHANGED <<pc, listening, stopped, release, wake, recovery, resolved, verdict,
                          Execution!reader>>
    BY DEF Execution!Scan, Execution!Mine, e
  <2> QED
    BY <1>2, <2>1, <2>3, <2>4 DEF Execution!Early, Execution!reader, Execution!untouched,
      Execution!server, Execution!socket, Execution!bounds, Execution!response, Execution!ghosts
<1> HIDE DEF e
<1>3. /\ events' \in Seq(Execution!Kinds) /\ AllTell(events', op, order)
      /\ Evident(events', resolved) => Evident(events, resolved)
  <2>1. events \in Seq(Execution!Kinds) /\ AllTell(events, op, order)
    BY DEF Execution!TypeOK, Told
  <2>2. CASE events' = Append(events, e) /\ ~resolved
    <3>1. events' \in Seq(Execution!Kinds) /\ KindsOf(events') = KindsOf(events) \cup {e}
      BY <1>1, <2>1, <2>2, KindsAppend
    <3> QED
      BY <1>1, <1>2, <2>1, <2>2, <3>1 DEF AllTell, Evident
  <2> QED
    BY <1>2, <2>1, <2>2
<1>4. Execution!TypeOK'
  BY <1>1, <1>2, <1>3 DEF Execution!TypeOK, Listening
<1>5. Outcomes' /\ Taken'
  BY <1>1, <1>2, <1>3 DEF Outcomes, Taken
<1>6. Told' /\ Execution!VerdictIsTrue'
  BY <1>1, <1>2, <1>3 DEF Told, Execution!VerdictIsTrue
<1>7. Listening' /\ Execution!HeardOnce'
  BY <1>1, <1>2, <1>3 DEF Listening, Execution!HeardOnce, Execution!Waiting
<1>8. WakesFor' /\ StopsFor'
  BY <1>1, <1>2, <1>3 DEF WakesFor, StopsFor
<1> QED
  BY <1>4, <1>5, <1>6, <1>7, <1>8

LEMMA ExecutionScannedStep ==
    ASSUME ConstantsOK, ExecutionInv, Execution!Scanned
    PROVE  ExecutionInv'
<1> USE DEF ExecutionInv, ConstantsOK, Execution!Kinds, Execution!Nobody, Execution!Silent
<1>1. Execution!TypeOK'
  <2>1. /\ names' \in BOOLEAN /\ up' \in BOOLEAN /\ registered' \in BOOLEAN /\ lossy' \in BOOLEAN
        /\ known' \in BOOLEAN /\ started' \in BOOLEAN /\ held' \in BOOLEAN
        /\ listening' \in BOOLEAN /\ stopped' \in BOOLEAN /\ wake' \in BOOLEAN
        /\ recovery' \in BOOLEAN /\ resolved' \in BOOLEAN /\ retry' \in BOOLEAN
        /\ unacked' \in BOOLEAN
    BY DEF Execution!Scanned, Execution!untouched, Execution!server,
      Execution!socket, Execution!bounds, Execution!response,
      Execution!stream, Execution!wait, Execution!reader, Execution!ghosts,
      Execution!TypeOK, Listening
  <2> QED
    BY <2>1, SMT DEF Execution!Scanned, Execution!untouched, Execution!server,
      Execution!socket, Execution!bounds, Execution!response,
      Execution!stream, Execution!wait, Execution!reader, Execution!ghosts,
      Execution!TypeOK, Listening
<1>2. Outcomes' /\ Taken'
  BY DEF Execution!Scanned, Execution!untouched, Execution!server,
    Execution!socket, Execution!bounds, Execution!response, Execution!stream,
    Execution!wait, Execution!reader, Execution!ghosts, Execution!TypeOK,
    Outcomes, Taken
<1>3. Told' /\ Execution!VerdictIsTrue'
  BY DEF Execution!Scanned, Execution!untouched, Execution!server,
    Execution!socket, Execution!bounds, Execution!response, Execution!stream,
    Execution!wait, Execution!reader, Execution!ghosts, Execution!TypeOK,
    Outcomes, Told, Execution!VerdictIsTrue
<1>4. Listening' /\ Execution!HeardOnce'
  BY DEF Execution!Scanned, Execution!untouched, Execution!server,
    Execution!socket, Execution!bounds, Execution!response, Execution!stream,
    Execution!wait, Execution!reader, Execution!ghosts, Execution!TypeOK,
    Listening, Execution!HeardOnce, Execution!Waiting
<1>5. WakesFor'
  BY DEF Execution!Scanned, Execution!untouched, Execution!server,
    Execution!socket, Execution!bounds, Execution!response, Execution!stream,
    Execution!wait, Execution!reader, Execution!ghosts, Execution!TypeOK,
    Listening, WakesFor
<1>6. StopsFor'
  BY DEF Execution!Scanned, Execution!untouched, Execution!server,
    Execution!socket, Execution!bounds, Execution!response, Execution!stream,
    Execution!wait, Execution!reader, Execution!ghosts, Execution!TypeOK,
    StopsFor
<1> QED
  BY <1>1, <1>2, <1>3, <1>4, <1>5, <1>6

LEMMA ExecutionWokenStep ==
    ASSUME ConstantsOK, ExecutionInv, Execution!Woken
    PROVE  ExecutionInv'
<1> USE DEF ExecutionInv, ConstantsOK, Execution!Kinds, Execution!Nobody, Execution!Silent
<1>1. /\ pc = "select" /\ wake' = FALSE /\ batch' = events /\ events' = <<>> /\ pc' = "scan"
      /\ UNCHANGED <<Execution!server, Execution!socket, Execution!bounds, Execution!response, spc,
                     ready, started, held, replay, dispatch, Execution!ghosts, listening,
                     stopped, release, recovery, resolved, verdict, Execution!reader>>
  BY DEF Execution!Woken, Execution!TakeEvents, Execution!untouched
<1>2. AllTell(<<>>, op, order) /\ ~Evident(<<>>, resolved)
  BY KindsEmpty DEF AllTell, Evident
<1>3. Execution!TypeOK'
  <2>1. /\ names' \in BOOLEAN /\ up' \in BOOLEAN /\ registered' \in BOOLEAN /\ lossy' \in BOOLEAN
        /\ known' \in BOOLEAN /\ started' \in BOOLEAN /\ held' \in BOOLEAN
        /\ listening' \in BOOLEAN /\ stopped' \in BOOLEAN /\ wake' \in BOOLEAN
        /\ recovery' \in BOOLEAN /\ resolved' \in BOOLEAN /\ retry' \in BOOLEAN
        /\ unacked' \in BOOLEAN
    <3>1. UNCHANGED <<names, up, registered, lossy, known, started, held, listening, stopped,
                       recovery, resolved, retry, unacked>>
      BY <1>1 DEF Execution!server, Execution!socket, Execution!response,
        Execution!stream, Execution!wait, Execution!reader, Execution!ghosts
    <3>2. wake' \in BOOLEAN
      BY <1>1, Zenon
    <3> QED
      BY <3>1, <3>2 DEF Execution!TypeOK
  <2> QED
    BY <1>1, <1>2, <2>1, SMT DEF Execution!server, Execution!socket,
      Execution!bounds, Execution!response, Execution!stream, Execution!wait,
      Execution!reader, Execution!ghosts, Execution!TypeOK, Listening
<1>4. Outcomes' /\ Taken'
  BY <1>1, <1>2 DEF Execution!server, Execution!socket, Execution!bounds,
    Execution!response, Execution!stream, Execution!wait, Execution!reader,
    Execution!ghosts, Execution!TypeOK, Outcomes, Taken
<1>5. Told' /\ Execution!VerdictIsTrue'
  BY <1>1, <1>2 DEF Execution!server, Execution!socket, Execution!bounds,
    Execution!response, Execution!stream, Execution!wait, Execution!reader,
    Execution!ghosts, Execution!TypeOK, Outcomes, Told,
    Execution!VerdictIsTrue
<1>6. Listening' /\ Execution!HeardOnce'
  BY <1>1, <1>2 DEF Execution!server, Execution!socket, Execution!bounds,
    Execution!response, Execution!stream, Execution!wait, Execution!reader,
    Execution!ghosts, Execution!TypeOK, Listening, Execution!HeardOnce,
    Execution!Waiting
<1>7. WakesFor'
  BY <1>1, <1>2 DEF Execution!server, Execution!socket, Execution!bounds,
    Execution!response, Execution!stream, Execution!wait, Execution!reader,
    Execution!ghosts, Execution!TypeOK, Listening, WakesFor
<1>8. StopsFor'
  BY <1>1, <1>2 DEF Execution!server, Execution!socket, Execution!bounds,
    Execution!response, Execution!stream, Execution!wait, Execution!reader,
    Execution!ghosts, Execution!TypeOK, StopsFor
<1> QED
  BY <1>3, <1>4, <1>5, <1>6, <1>7, <1>8

LEMMA ExecutionTakeSnapshotStep ==
    ASSUME ConstantsOK, ExecutionInv, Execution!TakeSnapshot
    PROVE  ExecutionInv'
<1> USE DEF ExecutionInv, ConstantsOK, Execution!Kinds, Execution!Nobody, Execution!Silent
<1> DEFINE Goes ==
          /\ pc = "select" /\ result' = "none"
          /\ batch' = events /\ events' = <<>> /\ pc' = "scan"
          /\ UNCHANGED <<wake, recovery, resolved, rpc, attempt, answer, retry>>
          /\ UNCHANGED <<op, order, names, up, registered, wire, lossy, noise, faults, sub, known,
                         spc, ready, started, held, replay, dispatch, due, unacked, listening,
                         stopped, release, verdict>>
<1>1. SUFFICES ASSUME Goes PROVE ExecutionInv'
  <2>1. UNCHANGED Execution!untouched
    BY DEF Execution!TakeSnapshot
  <2>2. /\ result = "done" => order = "done"
        /\ result = "failed" => op = "failed"
    BY DEF Told
  <2>3. ASSUME \/ result = "failed" /\ Execution!Return("failed", TRUE)
               \/ result = "done" /\ Execution!Return("executed", TRUE)
        PROVE  ExecutionInv'
    BY <2>1, <2>2, <2>3, ReturnKept
  <2> QED
    BY <1>1, <2>3 DEF Execution!TakeSnapshot, Execution!TakeEvents, Execution!untouched,
      Execution!server, Execution!socket, Execution!bounds, Execution!response, Execution!ghosts
<1>2. AllTell(<<>>, op, order) /\ ~Evident(<<>>, resolved')
  BY KindsEmpty DEF AllTell, Evident
<1>3. Execution!TypeOK'
  BY <1>1, <1>2 DEF Execution!TypeOK, Listening
<1>4. Outcomes' /\ Taken'
  BY <1>1, <1>2 DEF Outcomes, Taken
<1>5. Told' /\ Execution!VerdictIsTrue'
  BY <1>1, <1>2 DEF Told, Execution!VerdictIsTrue
<1>6. Listening' /\ Execution!HeardOnce'
  BY <1>1, <1>2 DEF Listening, Execution!HeardOnce, Execution!Waiting
<1>7. WakesFor' /\ StopsFor'
  BY <1>1, <1>2 DEF WakesFor, StopsFor
<1> QED
  BY <1>3, <1>4, <1>5, <1>6, <1>7

LEMMA ExecutionDeadlineStep ==
    ASSUME ConstantsOK, ExecutionInv, Execution!Deadline
    PROVE  ExecutionInv'
BY ReturnKept DEF Execution!Deadline

LEMMA ExecutionSettledWaitStep ==
    ASSUME ConstantsOK, ExecutionInv, Execution!SettledWait
    PROVE  ExecutionInv'
<1> USE DEF ExecutionInv, ConstantsOK, Execution!Kinds, Execution!Nobody, Execution!Silent
<1>1. /\ rpc = "wait" /\ rpc' \in {"send", "ready"}
      /\ attempt' = IF rpc' = "send" THEN MaxReads - 1 ELSE attempt
      /\ answer' \in {"none", "working", "done", "failed", "error"}
      /\ answer' # answer => \/ answer' = "error"
                             \/ answer' = "failed" /\ op = "failed"
                             \/ answer' = "done" /\ op = "executed"
      /\ resolved' \in BOOLEAN /\ wake' \in BOOLEAN
      /\ wake' = TRUE \/ (wake' = wake /\ resolved' = resolved)
      /\ noise' \in 0..MaxNoise /\ faults' \in 0..ExecutionFaults
      /\ UNCHANGED <<Execution!server, Execution!socket, Execution!response, Execution!stream,
                     Execution!wait, recovery, result, retry, Execution!ghosts>>
  <2> USE DEF Execution!SettledWait
  <2>1. \/ rpc' = "send" /\ answer' = "failed" /\ op = "failed" /\ UNCHANGED <<resolved, wake>>
        \/ rpc' = "send" /\ answer' = "done" /\ op = "executed" /\ UNCHANGED <<resolved, wake>>
        \/ rpc' = "ready" /\ resolved' = TRUE /\ wake' = TRUE /\ UNCHANGED answer
        \/ rpc' = "ready" /\ UNCHANGED <<answer, resolved, wake>>
        \/ rpc' = "send" /\ answer' = "error" /\ UNCHANGED <<resolved, wake>>
    BY Zenon DEF Execution!Sends, Execution!Identified
  <2>2. noise' \in 0..MaxNoise /\ faults' \in 0..ExecutionFaults
    BY DEF Execution!Fault, Execution!bounds, Execution!TypeOK
  <2>3. /\ rpc = "wait" /\ attempt' = IF rpc' = "send" THEN MaxReads - 1 ELSE attempt
        /\ UNCHANGED <<Execution!server, Execution!socket, Execution!response, Execution!stream,
                       Execution!wait, recovery, result, retry, Execution!ghosts>>
    OBVIOUS
  <2>4. /\ resolved' \in BOOLEAN /\ wake' \in BOOLEAN
        /\ wake' = TRUE \/ (wake' = wake /\ resolved' = resolved)
    BY <2>1 DEF Execution!TypeOK
  <2> QED
    BY <2>1, <2>2, <2>3, <2>4 DEF Execution!TypeOK
<1>2. Execution!TypeOK'
  <2>1. /\ names' \in BOOLEAN /\ up' \in BOOLEAN /\ registered' \in BOOLEAN /\ lossy' \in BOOLEAN
        /\ known' \in BOOLEAN /\ started' \in BOOLEAN /\ held' \in BOOLEAN
        /\ listening' \in BOOLEAN /\ stopped' \in BOOLEAN /\ wake' \in BOOLEAN
        /\ recovery' \in BOOLEAN /\ resolved' \in BOOLEAN /\ retry' \in BOOLEAN
        /\ unacked' \in BOOLEAN
    BY <1>1 DEF Execution!server, Execution!socket, Execution!bounds,
      Execution!response, Execution!stream, Execution!wait, Execution!reader,
      Execution!ghosts, Execution!TypeOK, Listening
  <2> QED
    BY <1>1, <2>1, SMT DEF Execution!server, Execution!socket,
      Execution!bounds, Execution!response, Execution!stream, Execution!wait,
      Execution!reader, Execution!ghosts, Execution!TypeOK, Listening
<1>3. Outcomes' /\ Taken'
  BY <1>1 DEF Execution!server, Execution!socket, Execution!bounds,
    Execution!response, Execution!stream, Execution!wait, Execution!reader,
    Execution!ghosts, Execution!TypeOK, Outcomes, Taken
<1>4. Told' /\ Execution!VerdictIsTrue'
  BY <1>1 DEF Execution!server, Execution!socket, Execution!bounds,
    Execution!response, Execution!stream, Execution!wait, Execution!reader,
    Execution!ghosts, Execution!TypeOK, Outcomes, Told,
    Execution!VerdictIsTrue
<1>5. Listening' /\ Execution!HeardOnce'
  <2>1. Listening'
    BY <1>1 DEF Execution!reader, Execution!wait, Execution!stream, Execution!response,
      Execution!TypeOK, Listening, Execution!Waiting
  <2>2. Execution!HeardOnce'
    BY <1>1 DEF Execution!HeardOnce, Execution!Waiting, Execution!wait, Execution!stream,
      Execution!ghosts
  <2> QED
    BY <2>1, <2>2
<1>6. WakesFor'
  BY <1>1 DEF Execution!server, Execution!socket, Execution!bounds,
    Execution!response, Execution!stream, Execution!wait, Execution!reader,
    Execution!ghosts, Execution!TypeOK, Listening, WakesFor
<1>7. StopsFor'
  BY <1>1 DEF Execution!server, Execution!socket, Execution!bounds,
    Execution!response, Execution!stream, Execution!wait, Execution!reader,
    Execution!ghosts, Execution!TypeOK, StopsFor
<1> QED
  BY <1>2, <1>3, <1>4, <1>5, <1>6, <1>7

LEMMA ExecutionAwaitReadyStep ==
    ASSUME ConstantsOK, ExecutionInv, Execution!AwaitReady
    PROVE  ExecutionInv'
<1> USE DEF ExecutionInv, ConstantsOK, Execution!Kinds, Execution!Nobody, Execution!Silent
<1>1. /\ rpc = "ready" /\ rpc' \in {"get", "send"} /\ recovery' = FALSE
      /\ answer' \in {answer, "error"}
      /\ UNCHANGED <<Execution!server, Execution!socket, Execution!bounds, Execution!response,
                     Execution!stream, Execution!wait, wake, resolved, attempt, result, retry, due>>
  BY DEF Execution!AwaitReady, Execution!Sends
<1>2. unacked' \in BOOLEAN
  BY Zenon DEF Execution!AwaitReady
<1>3. Execution!TypeOK'
  <2>1. /\ names' \in BOOLEAN /\ up' \in BOOLEAN /\ registered' \in BOOLEAN /\ lossy' \in BOOLEAN
        /\ known' \in BOOLEAN /\ started' \in BOOLEAN /\ held' \in BOOLEAN
        /\ listening' \in BOOLEAN /\ stopped' \in BOOLEAN /\ wake' \in BOOLEAN
        /\ recovery' \in BOOLEAN /\ resolved' \in BOOLEAN /\ retry' \in BOOLEAN
        /\ unacked' \in BOOLEAN
    <3>1. UNCHANGED <<names, up, registered, lossy, known, started, held, listening, stopped,
                       wake, resolved, retry>>
      BY <1>1 DEF Execution!server, Execution!socket, Execution!response,
        Execution!stream, Execution!wait, Execution!reader, Execution!ghosts
    <3>2. recovery' \in BOOLEAN /\ unacked' \in BOOLEAN
      BY <1>1, <1>2, Zenon
    <3> QED
      BY <3>1, <3>2 DEF Execution!TypeOK
  <2> QED
    BY <1>1, <1>2, <2>1, SMT DEF Execution!server, Execution!socket,
      Execution!bounds, Execution!response, Execution!stream, Execution!wait,
      Execution!reader, Execution!ghosts, Execution!TypeOK, Listening
<1>4. Outcomes' /\ Taken'
  BY <1>1, <1>2 DEF Execution!server, Execution!socket, Execution!bounds,
    Execution!response, Execution!stream, Execution!wait, Execution!reader,
    Execution!ghosts, Execution!TypeOK, Outcomes, Taken
<1>5. Told' /\ Execution!VerdictIsTrue'
  BY <1>1, <1>2 DEF Execution!server, Execution!socket, Execution!bounds,
    Execution!response, Execution!stream, Execution!wait, Execution!reader,
    Execution!ghosts, Execution!TypeOK, Outcomes, Told,
    Execution!VerdictIsTrue
<1>6. Listening' /\ Execution!HeardOnce'
  BY <1>1, <1>2 DEF Execution!server, Execution!socket, Execution!bounds,
    Execution!response, Execution!stream, Execution!wait, Execution!reader,
    Execution!ghosts, Execution!TypeOK, Listening, Execution!HeardOnce,
    Execution!Waiting
<1>7. WakesFor'
  BY <1>1, <1>2 DEF Execution!server, Execution!socket, Execution!bounds,
    Execution!response, Execution!stream, Execution!wait, Execution!reader,
    Execution!ghosts, Execution!TypeOK, Listening, WakesFor
<1>8. StopsFor'
  BY <1>1, <1>2 DEF Execution!server, Execution!socket, Execution!bounds,
    Execution!response, Execution!stream, Execution!wait, Execution!reader,
    Execution!ghosts, Execution!TypeOK, StopsFor
<1> QED
  BY <1>3, <1>4, <1>5, <1>6, <1>7, <1>8

LEMMA ExecutionRecoverReadyStep ==
    ASSUME ConstantsOK, ExecutionInv, Execution!RecoverReady
    PROVE  ExecutionInv'
<1> USE DEF ExecutionInv, ConstantsOK, Execution!Kinds, Execution!Nobody, Execution!Silent
<1>1. Execution!TypeOK'
  <2>1. /\ names' \in BOOLEAN /\ up' \in BOOLEAN /\ registered' \in BOOLEAN /\ lossy' \in BOOLEAN
        /\ known' \in BOOLEAN /\ started' \in BOOLEAN /\ held' \in BOOLEAN
        /\ listening' \in BOOLEAN /\ stopped' \in BOOLEAN /\ wake' \in BOOLEAN
        /\ recovery' \in BOOLEAN /\ resolved' \in BOOLEAN /\ retry' \in BOOLEAN
        /\ unacked' \in BOOLEAN
    BY DEF Execution!RecoverReady, Execution!Sends, Execution!Fault,
      Execution!server, Execution!socket, Execution!bounds,
      Execution!response, Execution!stream, Execution!wait, Execution!reader,
      Execution!ghosts, Execution!TypeOK, Listening
  <2> QED
    BY <2>1, SMT DEF Execution!RecoverReady, Execution!Sends, Execution!Fault,
      Execution!server, Execution!socket, Execution!bounds,
      Execution!response, Execution!stream, Execution!wait, Execution!reader,
      Execution!ghosts, Execution!TypeOK, Listening
<1>2. Outcomes' /\ Taken'
  BY DEF Execution!RecoverReady, Execution!Sends, Execution!Fault,
    Execution!server, Execution!socket, Execution!bounds, Execution!response,
    Execution!stream, Execution!wait, Execution!reader, Execution!ghosts,
    Execution!TypeOK, Outcomes, Taken
<1>3. Told' /\ Execution!VerdictIsTrue'
  BY DEF Execution!RecoverReady, Execution!Sends, Execution!Fault,
    Execution!server, Execution!socket, Execution!bounds, Execution!response,
    Execution!stream, Execution!wait, Execution!reader, Execution!ghosts,
    Execution!TypeOK, Outcomes, Told, Execution!VerdictIsTrue
<1>4. Listening' /\ Execution!HeardOnce'
  BY DEF Execution!RecoverReady, Execution!Sends, Execution!Fault,
    Execution!server, Execution!socket, Execution!bounds, Execution!response,
    Execution!stream, Execution!wait, Execution!reader, Execution!ghosts,
    Execution!TypeOK, Listening, Execution!HeardOnce, Execution!Waiting
<1>5. WakesFor'
  BY DEF Execution!RecoverReady, Execution!Sends, Execution!Fault,
    Execution!server, Execution!socket, Execution!bounds, Execution!response,
    Execution!stream, Execution!wait, Execution!reader, Execution!ghosts,
    Execution!TypeOK, Listening, WakesFor
<1>6. StopsFor'
  BY DEF Execution!RecoverReady, Execution!Sends, Execution!Fault,
    Execution!server, Execution!socket, Execution!bounds, Execution!response,
    Execution!stream, Execution!wait, Execution!reader, Execution!ghosts,
    Execution!TypeOK, StopsFor
<1> QED
  BY <1>1, <1>2, <1>3, <1>4, <1>5, <1>6

LEMMA ExecutionServeStep ==
    ASSUME ConstantsOK, ExecutionInv, Execution!Serve
    PROVE  ExecutionInv'
<1> USE DEF ExecutionInv, ConstantsOK, Execution!Kinds, Execution!Nobody, Execution!Silent
<1>1. Execution!TypeOK'
  <2>1. /\ names' \in BOOLEAN /\ up' \in BOOLEAN /\ registered' \in BOOLEAN /\ lossy' \in BOOLEAN
        /\ known' \in BOOLEAN /\ started' \in BOOLEAN /\ held' \in BOOLEAN
        /\ listening' \in BOOLEAN /\ stopped' \in BOOLEAN /\ wake' \in BOOLEAN
        /\ recovery' \in BOOLEAN /\ resolved' \in BOOLEAN /\ retry' \in BOOLEAN
        /\ unacked' \in BOOLEAN
    BY DEF Execution!Serve, Execution!Sends, Execution!Fault,
      Execution!server, Execution!socket, Execution!bounds,
      Execution!response, Execution!stream, Execution!wait, Execution!reader,
      Execution!ghosts, Execution!TypeOK, Listening
  <2> QED
    BY <2>1, SMT DEF Execution!Serve, Execution!Sends, Execution!Fault,
      Execution!server, Execution!socket, Execution!bounds,
      Execution!response, Execution!stream, Execution!wait, Execution!reader,
      Execution!ghosts, Execution!TypeOK, Listening
<1>2. Outcomes' /\ Taken'
  BY DEF Execution!Serve, Execution!Sends, Execution!Fault, Execution!server,
    Execution!socket, Execution!bounds, Execution!response, Execution!stream,
    Execution!wait, Execution!reader, Execution!ghosts, Execution!TypeOK,
    Outcomes, Taken
<1>3. Told' /\ Execution!VerdictIsTrue'
  BY DEF Execution!Serve, Execution!Sends, Execution!Fault, Execution!server,
    Execution!socket, Execution!bounds, Execution!response, Execution!stream,
    Execution!wait, Execution!reader, Execution!ghosts, Execution!TypeOK,
    Outcomes, Told, Execution!VerdictIsTrue
<1>4. Listening' /\ Execution!HeardOnce'
  BY DEF Execution!Serve, Execution!Sends, Execution!Fault, Execution!server,
    Execution!socket, Execution!bounds, Execution!response, Execution!stream,
    Execution!wait, Execution!reader, Execution!ghosts, Execution!TypeOK,
    Listening, Execution!HeardOnce, Execution!Waiting
<1>5. WakesFor'
  BY DEF Execution!Serve, Execution!Sends, Execution!Fault, Execution!server,
    Execution!socket, Execution!bounds, Execution!response, Execution!stream,
    Execution!wait, Execution!reader, Execution!ghosts, Execution!TypeOK,
    Listening, WakesFor
<1>6. StopsFor'
  BY DEF Execution!Serve, Execution!Sends, Execution!Fault, Execution!server,
    Execution!socket, Execution!bounds, Execution!response, Execution!stream,
    Execution!wait, Execution!reader, Execution!ghosts, Execution!TypeOK,
    StopsFor
<1> QED
  BY <1>1, <1>2, <1>3, <1>4, <1>5, <1>6

LEMMA ExecutionReplyStep ==
    ASSUME ConstantsOK, ExecutionInv, Execution!Reply
    PROVE  ExecutionInv'
<1> USE DEF ExecutionInv, ConstantsOK, Execution!Kinds, Execution!Nobody, Execution!Silent
<1>1. /\ rpc = "reply" /\ rpc' = "send"
      /\ resolved' \in BOOLEAN /\ wake' \in BOOLEAN
      /\ wake' = TRUE \/ (wake' = wake /\ resolved' = resolved)
      /\ UNCHANGED <<Execution!server, Execution!socket, Execution!bounds, Execution!response,
                     Execution!stream, Execution!wait, recovery, attempt, answer, result, retry,
                     Execution!ghosts>>
  BY DEF Execution!Reply, Execution!Identified, Execution!TypeOK
<1>2. Execution!TypeOK'
  <2>1. /\ names' \in BOOLEAN /\ up' \in BOOLEAN /\ registered' \in BOOLEAN /\ lossy' \in BOOLEAN
        /\ known' \in BOOLEAN /\ started' \in BOOLEAN /\ held' \in BOOLEAN
        /\ listening' \in BOOLEAN /\ stopped' \in BOOLEAN /\ wake' \in BOOLEAN
        /\ recovery' \in BOOLEAN /\ resolved' \in BOOLEAN /\ retry' \in BOOLEAN
        /\ unacked' \in BOOLEAN
    BY <1>1 DEF Execution!server, Execution!socket, Execution!bounds,
      Execution!response, Execution!stream, Execution!wait, Execution!reader,
      Execution!ghosts, Execution!TypeOK, Listening
  <2> QED
    BY <1>1, <2>1, SMT DEF Execution!server, Execution!socket,
      Execution!bounds, Execution!response, Execution!stream, Execution!wait,
      Execution!reader, Execution!ghosts, Execution!TypeOK, Listening
<1>3. Outcomes' /\ Taken'
  BY <1>1 DEF Execution!server, Execution!socket, Execution!bounds,
    Execution!response, Execution!stream, Execution!wait, Execution!reader,
    Execution!ghosts, Execution!TypeOK, Outcomes, Taken
<1>4. Told' /\ Execution!VerdictIsTrue'
  BY <1>1 DEF Execution!server, Execution!socket, Execution!bounds,
    Execution!response, Execution!stream, Execution!wait, Execution!reader,
    Execution!ghosts, Execution!TypeOK, Outcomes, Told,
    Execution!VerdictIsTrue
<1>5. Listening' /\ Execution!HeardOnce'
  BY <1>1 DEF Execution!server, Execution!socket, Execution!bounds,
    Execution!response, Execution!stream, Execution!wait, Execution!reader,
    Execution!ghosts, Execution!TypeOK, Listening, Execution!HeardOnce,
    Execution!Waiting
<1>6. WakesFor'
  BY <1>1 DEF Execution!server, Execution!socket, Execution!bounds,
    Execution!response, Execution!stream, Execution!wait, Execution!reader,
    Execution!ghosts, Execution!TypeOK, Listening, WakesFor
<1>7. StopsFor'
  BY <1>1 DEF Execution!server, Execution!socket, Execution!bounds,
    Execution!response, Execution!stream, Execution!wait, Execution!reader,
    Execution!ghosts, Execution!TypeOK, StopsFor
<1> QED
  BY <1>2, <1>3, <1>4, <1>5, <1>6, <1>7

LEMMA ExecutionSendSnapshotStep ==
    ASSUME ConstantsOK, ExecutionInv, Execution!SendSnapshot
    PROVE  ExecutionInv'
<1> USE DEF ExecutionInv, ConstantsOK, Execution!Kinds, Execution!Nobody, Execution!Silent
<1>1. Execution!TypeOK'
  <2>1. /\ names' \in BOOLEAN /\ up' \in BOOLEAN /\ registered' \in BOOLEAN /\ lossy' \in BOOLEAN
        /\ known' \in BOOLEAN /\ started' \in BOOLEAN /\ held' \in BOOLEAN
        /\ listening' \in BOOLEAN /\ stopped' \in BOOLEAN /\ wake' \in BOOLEAN
        /\ recovery' \in BOOLEAN /\ resolved' \in BOOLEAN /\ retry' \in BOOLEAN
        /\ unacked' \in BOOLEAN
    BY DEF Execution!SendSnapshot, Execution!server, Execution!socket,
      Execution!bounds, Execution!response, Execution!stream, Execution!wait,
      Execution!reader, Execution!ghosts, Execution!TypeOK, Listening
  <2> QED
    BY <2>1, SMT DEF Execution!SendSnapshot, Execution!server,
      Execution!socket, Execution!bounds, Execution!response,
      Execution!stream, Execution!wait, Execution!reader, Execution!ghosts,
      Execution!TypeOK, Listening
<1>2. Outcomes' /\ Taken'
  BY DEF Execution!SendSnapshot, Execution!server, Execution!socket,
    Execution!bounds, Execution!response, Execution!stream, Execution!wait,
    Execution!reader, Execution!ghosts, Execution!TypeOK, Outcomes, Taken
<1>3. Told' /\ Execution!VerdictIsTrue'
  BY DEF Execution!SendSnapshot, Execution!server, Execution!socket,
    Execution!bounds, Execution!response, Execution!stream, Execution!wait,
    Execution!reader, Execution!ghosts, Execution!TypeOK, Outcomes, Told,
    Execution!VerdictIsTrue
<1>4. Listening' /\ Execution!HeardOnce'
  BY DEF Execution!SendSnapshot, Execution!server, Execution!socket,
    Execution!bounds, Execution!response, Execution!stream, Execution!wait,
    Execution!reader, Execution!ghosts, Execution!TypeOK, Listening,
    Execution!HeardOnce, Execution!Waiting
<1>5. WakesFor'
  BY DEF Execution!SendSnapshot, Execution!server, Execution!socket,
    Execution!bounds, Execution!response, Execution!stream, Execution!wait,
    Execution!reader, Execution!ghosts, Execution!TypeOK, Listening, WakesFor
<1>6. StopsFor'
  BY DEF Execution!SendSnapshot, Execution!server, Execution!socket,
    Execution!bounds, Execution!response, Execution!stream, Execution!wait,
    Execution!reader, Execution!ghosts, Execution!TypeOK, StopsFor
<1> QED
  BY <1>1, <1>2, <1>3, <1>4, <1>5, <1>6

LEMMA ExecutionReadAgainStep ==
    ASSUME ConstantsOK, ExecutionInv, Execution!ReadAgain
    PROVE  ExecutionInv'
<1> USE DEF ExecutionInv, ConstantsOK, Execution!Kinds, Execution!Nobody, Execution!Silent
<1>1. /\ rpc = "park" /\ rpc' = "ready" /\ retry' = FALSE
      /\ UNCHANGED <<Execution!server, Execution!socket, Execution!bounds, Execution!response,
                     Execution!stream, Execution!wait, wake, resolved, attempt, result, answer, Execution!ghosts>>
  BY DEF Execution!ReadAgain
<1>2. recovery' \in BOOLEAN
  BY DEF Execution!ReadAgain, Execution!TypeOK
<1>3. Execution!TypeOK'
  <2>1. /\ names' \in BOOLEAN /\ up' \in BOOLEAN /\ registered' \in BOOLEAN /\ lossy' \in BOOLEAN
        /\ known' \in BOOLEAN /\ started' \in BOOLEAN /\ held' \in BOOLEAN
        /\ listening' \in BOOLEAN /\ stopped' \in BOOLEAN /\ wake' \in BOOLEAN
        /\ recovery' \in BOOLEAN /\ resolved' \in BOOLEAN /\ retry' \in BOOLEAN
        /\ unacked' \in BOOLEAN
    <3>1. UNCHANGED <<names, up, registered, lossy, known, started, held, listening, stopped,
                       wake, resolved, unacked>>
      BY <1>1 DEF Execution!server, Execution!socket, Execution!response,
        Execution!stream, Execution!wait, Execution!reader, Execution!ghosts
    <3>2. recovery' \in BOOLEAN /\ retry' \in BOOLEAN
      BY <1>1, <1>2, Zenon
    <3> QED
      BY <3>1, <3>2 DEF Execution!TypeOK
  <2> QED
    BY <1>1, <1>2, <2>1, SMT DEF Execution!server, Execution!socket,
      Execution!bounds, Execution!response, Execution!stream, Execution!wait,
      Execution!reader, Execution!ghosts, Execution!TypeOK, Listening
<1>4. Outcomes' /\ Taken'
  BY <1>1, <1>2 DEF Execution!server, Execution!socket, Execution!bounds,
    Execution!response, Execution!stream, Execution!wait, Execution!reader,
    Execution!ghosts, Execution!TypeOK, Outcomes, Taken
<1>5. Told' /\ Execution!VerdictIsTrue'
  BY <1>1, <1>2 DEF Execution!server, Execution!socket, Execution!bounds,
    Execution!response, Execution!stream, Execution!wait, Execution!reader,
    Execution!ghosts, Execution!TypeOK, Outcomes, Told,
    Execution!VerdictIsTrue
<1>6. Listening' /\ Execution!HeardOnce'
  BY <1>1, <1>2 DEF Execution!server, Execution!socket, Execution!bounds,
    Execution!response, Execution!stream, Execution!wait, Execution!reader,
    Execution!ghosts, Execution!TypeOK, Listening, Execution!HeardOnce,
    Execution!Waiting
<1>7. WakesFor'
  BY <1>1, <1>2 DEF Execution!server, Execution!socket, Execution!bounds,
    Execution!response, Execution!stream, Execution!wait, Execution!reader,
    Execution!ghosts, Execution!TypeOK, Listening, WakesFor
<1>8. StopsFor'
  BY <1>1, <1>2 DEF Execution!server, Execution!socket, Execution!bounds,
    Execution!response, Execution!stream, Execution!wait, Execution!reader,
    Execution!ghosts, Execution!TypeOK, StopsFor
<1> QED
  BY <1>3, <1>4, <1>5, <1>6, <1>7, <1>8

LEMMA ExecutionInitInv == ConstantsOK /\ Execution!Init => ExecutionInv
<1> SUFFICES ASSUME ConstantsOK, Execution!Init PROVE ExecutionInv
  OBVIOUS
<1> USE DEF ConstantsOK, Execution!Init, Execution!Kinds, Execution!Nobody, Execution!Silent
<1>1. Execution!TypeOK
  <2>1. <<>> \in Seq(Execution!Kinds) /\ Len(<<>>) = 0
    OBVIOUS
  <2>2. /\ names \in BOOLEAN /\ up \in BOOLEAN /\ registered \in BOOLEAN /\ lossy \in BOOLEAN
        /\ known \in BOOLEAN /\ started \in BOOLEAN /\ held \in BOOLEAN
        /\ listening \in BOOLEAN /\ stopped \in BOOLEAN /\ wake \in BOOLEAN
        /\ recovery \in BOOLEAN /\ resolved \in BOOLEAN /\ retry \in BOOLEAN
        /\ unacked \in BOOLEAN
    BY Zenon
  <2>3. dispatch \in [kind : Execution!Kinds \cup {Execution!Nobody}, listener : BOOLEAN,
                      terminal : BOOLEAN]
    OBVIOUS
  <2> QED
    BY <2>1, <2>2, <2>3, SMT DEF Execution!TypeOK
<1>2. Outcomes /\ Listening /\ WakesFor /\ Taken /\ StopsFor
  BY DEF Outcomes, Listening, Execution!Waiting, WakesFor, Taken, StopsFor
<1>3. Told
  BY KindsEmpty DEF Told, AllTell, Tells
<1>4. Execution!VerdictIsTrue /\ Execution!HeardOnce
  BY DEF Execution!VerdictIsTrue, Execution!HeardOnce, Execution!Waiting
<1> QED
  BY <1>1, <1>2, <1>3, <1>4 DEF ExecutionInv

LEMMA ExecutionKept ==
    ASSUME ConstantsOK, ExecutionInv, [Execution!Next]_(Execution!vars)
    PROVE  ExecutionInv'
<1>1. CASE UNCHANGED Execution!vars
  <2> USE DEF ExecutionInv
  <2>1. UNCHANGED <<op, order, names, up, registered, wire, lossy, noise, faults, sub, known, spc,
                    ready, started, held, replay, listening, stopped, release, dispatch, pc, batch,
                    events, verdict, wake, recovery, resolved, rpc, attempt, answer, result, retry,
                    due, unacked>>
    BY <1>1 DEF Execution!vars, Execution!server, Execution!socket, Execution!bounds,
      Execution!response, Execution!stream, Execution!wait, Execution!reader, Execution!ghosts
  <2>2. Execution!TypeOK'
    BY <2>1 DEF Execution!TypeOK
  <2>3. Outcomes' /\ Told' /\ Taken' /\ StopsFor' /\ WakesFor' /\ Execution!VerdictIsTrue'
    BY <2>1 DEF Outcomes, Told, Taken, StopsFor, WakesFor, Execution!VerdictIsTrue
  <2>4. Listening' /\ Execution!HeardOnce'
    BY <2>1 DEF Listening, Execution!Waiting, Execution!HeardOnce
  <2> QED
    BY <2>2, <2>3, <2>4
<1> QED
  BY <1>1, ExecutionPlaceStep, ExecutionExecuteStep, ExecutionFailsStep,
     ExecutionNoiseStep, ExecutionRegisterStep, ExecutionDropStep,
     ExecutionGapStep, ExecutionAuthenticatedStep, ExecutionEnsureStep,
     ExecutionConfirmStep, ExecutionContextEndsStep,
     ExecutionReleaseTypesStep, ExecutionReceiveStep,
     ExecutionDispatchStep, ExecutionAnsweredStep, ExecutionCreateStep,
     ExecutionSubmitFailsStep, ExecutionListenStep, ExecutionReplayedStep,
     ExecutionSubmittedStep, ExecutionScanStep, ExecutionScannedStep,
     ExecutionWokenStep, ExecutionTakeSnapshotStep, ExecutionDeadlineStep,
     ExecutionSettledWaitStep, ExecutionAwaitReadyStep,
     ExecutionRecoverReadyStep, ExecutionServeStep, ExecutionReplyStep,
     ExecutionSendSnapshotStep, ExecutionReadAgainStep
     DEF Execution!Next

(* ExecutionReceipt and its orderStream, for any number of other orders'   *)
(* events, faults, reads and events kept: a receipt is proof of execution  *)
(* and a failure of failure, each captured event reaches the wait once, no *)
(* wake-up is lost, and a stream whose capture holds an end is stopped and *)
(* gives its subscription up.                                              *)
THEOREM ReceiptsAreTrue == Spec => []ReceiptSound
<1> DEFINE Inv == phase = "execution" => ExecutionInv
<1>1. Init => Inv
  BY ConstantsOK, ExecutionInitInv DEF Init
<1>2. Inv /\ [Next]_vars => Inv'
  <2> SUFFICES ASSUME Inv, [Next]_vars, phase' = "execution" PROVE ExecutionInv'
    OBVIOUS
  <2>1. phase = "execution" /\ [Execution!Next]_(Execution!vars)
    BY DEF Next, vars, ExecutionStep, AccountingStep, executionOnly, Execution!vars,
      Execution!server, Execution!socket, Execution!bounds, Execution!response,
      Execution!stream, Execution!wait, Execution!reader, Execution!ghosts
  <2> QED
    BY <2>1, ConstantsOK, ExecutionKept
<1>3. Inv => ReceiptSound
  <2> SUFFICES ASSUME ExecutionInv
               PROVE  /\ Execution!TypeOK /\ Execution!VerdictIsTrue /\ Execution!HeardOnce
                      /\ Execution!Woke /\ Execution!NothingHeld /\ Execution!EndsUnobserved
    BY DEF ReceiptSound
  <2> USE DEF ExecutionInv
  <2>1. Execution!Woke
    BY DEF WakesFor, Evident, KindsOf, Execution!Woke, Execution!Evidence
  <2>2. Execution!NothingHeld
    BY DEF Taken, Execution!NothingHeld
  <2>3. Execution!EndsUnobserved
    <3> SUFFICES ASSUME sub # "calling", dispatch = Execution!Silent, NEW i \in 1..Len(replay),
                        \/ replay[i] \in {"opFailed", "opExecuted"}
                        \/ replay[i] = "mine" /\ known
                 PROVE  stopped
      BY DEF Execution!EndsUnobserved
    <3>1. replay[i] \in KindsOf(replay)
      BY DEF KindsOf
    <3>2. ~dispatch.terminal
      BY DEF Execution!Silent
    <3> QED
      BY <3>1, <3>2 DEF StopsFor, Evident
  <2> QED
    BY <2>1, <2>2, <2>3
<1> QED
  BY <1>1, <1>2, <1>3, PTL DEF Spec

-----------------------------------------------------------------------------
(* OrderAccounting.                                                        *)

(* A read that found the order complete found it on the ledger; the rows   *)
(* that are summed are the ledger's.                                       *)
ReadsTheLedger ==
    /\ detail = "complete" => recorded = own
    /\ rows \subseteq recorded
    /\ apc = "check" => detail = "uncounted" /\ sum = Accounting!Sizes(rows)

(* A fill is called for when it is first seen. *)
CalledWhenSeen ==
    seen \subseteq own /\ \A f \in Accounting!Fills : called[f] = IF f \in seen THEN 1 ELSE 0

AccountingInv ==
    /\ Accounting!TypeOK /\ ReadsTheLedger /\ CalledWhenSeen
    /\ Accounting!AccountedIsRecorded

(* The instance's cardinality is FiniteSets'. *)
LEMMA SizesCardinality == \A S : Accounting!Cardinality(S) = Cardinality(S)
BY DEF Accounting!Cardinality, Cardinality

(* Equal sums of a part and of the whole leave nothing out: every size is  *)
(* positive.                                                               *)
LEMMA SizesCover ==
    ASSUME ConstantsOK, NEW T \in SUBSET (Accounting!Fills \ {0}), NEW S \in SUBSET T
    PROVE  /\ Accounting!Sizes(S) \in Nat
           /\ Accounting!Sizes(S) = Accounting!Sizes(T) => S = T
<1> USE DEF ConstantsOK, Accounting!Fills
<1>1. \A R \in SUBSET (Accounting!Fills \ {0}) : IsFiniteSet(Accounting!Units(R))
  <2> TAKE R \in SUBSET (Accounting!Fills \ {0})
  <2>1. IsFiniteSet(0..MaxFills) /\ IsFiniteSet(1..MaxFills)
    BY FS_Interval
  <2>2. IsFiniteSet((0..MaxFills) \X (1..MaxFills))
    BY <2>1, FS_Product
  <2>3. Accounting!Units(R) \in SUBSET ((0..MaxFills) \X (1..MaxFills))
    BY DEF Accounting!Units
  <2> QED
    BY <2>2, <2>3, FS_Subset
<1>2. Accounting!Units(S) \in SUBSET Accounting!Units(T)
  BY DEF Accounting!Units
<1>3. Accounting!Sizes(S) \in Nat
  <2>1. IsFiniteSet(Accounting!Units(S))
    BY <1>1
  <2> QED
    BY <2>1, FS_CardinalityType, SizesCardinality DEF Accounting!Sizes
<1>4. ASSUME Accounting!Sizes(S) = Accounting!Sizes(T) PROVE S = T
  <2>1. Accounting!Units(S) = Accounting!Units(T)
    <3>1. IsFiniteSet(Accounting!Units(T))
      BY <1>1
    <3>2. Cardinality(Accounting!Units(T)) = Cardinality(Accounting!Units(S))
      BY <1>4, SizesCardinality DEF Accounting!Sizes
    <3> HIDE DEF Accounting!Fills
    <3> QED
      BY <1>2, <3>1, <3>2, FS_Subset
  <2>2. \A f \in T : <<f, 1>> \in Accounting!Units(T)
    BY DEF Accounting!Units
  <2>3. \A f \in T : f \in S
    BY <2>1, <2>2 DEF Accounting!Units
  <2> QED
    BY <2>3
<1> QED
  BY <1>3, <1>4

LEMMA FillsAppended ==
    ASSUME NEW s \in Seq(Accounting!Fills), NEW f \in Accounting!Fills
    PROVE  Append(s, f) \in Seq(Accounting!Fills) /\ s \o <<f, f>> \in Seq(Accounting!Fills)
OBVIOUS

LEMMA AccountingRecordStep ==
    ASSUME ConstantsOK, AccountingInv, NEW f \in Accounting!Fills, Accounting!Record(f)
    PROVE  AccountingInv'
<1> USE DEF AccountingInv, ConstantsOK
<1>1. Append(wire, f) \in Seq(Accounting!Fills) /\ recorded' \in SUBSET own
  BY FillsAppended DEF Accounting!Record, Accounting!TypeOK
<1>2. Accounting!TypeOK'
  <2>1. /\ carries' \in BOOLEAN /\ lossy' \in BOOLEAN /\ foreign' \in BOOLEAN
        /\ trigger' \in BOOLEAN /\ identified' \in BOOLEAN /\ owake' \in BOOLEAN
        /\ off' \in BOOLEAN
    BY <1>1 DEF Accounting!Record, Accounting!Fault, Accounting!ledger,
      Accounting!socket, Accounting!accounted, Accounting!observer,
      Accounting!TypeOK
  <2> QED
    <3>1. /\ wire' \in Seq(Accounting!Fills) /\ faults' \in 0..AccountingFaults
      <4>1. wire' = Append(wire, f) \/ wire' = wire
        BY Zenon DEF Accounting!Record
      <4>2. faults' = faults \/ Accounting!Fault
        BY Zenon DEF Accounting!Record
      <4>3. faults' \in 0..AccountingFaults
        BY <4>2 DEF Accounting!Fault, Accounting!TypeOK
      <4> QED
        BY <1>1, <4>1, <4>3 DEF Accounting!TypeOK
    <3>2. rows' \in SUBSET own' /\ recorded' \in SUBSET own' /\ own' = own
      BY <1>1 DEF Accounting!Record, Accounting!ledger, Accounting!accounted, Accounting!TypeOK
    <3>3. UNCHANGED <<carries, captured, foreign, Accounting!accounted, Accounting!observer>>
      BY DEF Accounting!Record
    <3> QED
      BY <2>1, <3>1, <3>2, <3>3, SMT DEF Accounting!accounted, Accounting!observer,
        Accounting!TypeOK
<1>3. ReadsTheLedger' /\ Accounting!AccountedIsRecorded'
  BY <1>1 DEF Accounting!Record, Accounting!Fault, Accounting!ledger,
    Accounting!socket, Accounting!accounted, Accounting!observer,
    Accounting!TypeOK, ReadsTheLedger, Accounting!AccountedIsRecorded
<1>4. CalledWhenSeen'
  BY <1>1 DEF Accounting!Record, Accounting!Fault, Accounting!ledger,
    Accounting!socket, Accounting!accounted, Accounting!observer,
    Accounting!TypeOK, CalledWhenSeen
<1> QED
  BY <1>2, <1>3, <1>4

LEMMA AccountingRecordForeignStep ==
    ASSUME ConstantsOK, AccountingInv, Accounting!RecordForeign
    PROVE  AccountingInv'
<1> USE DEF AccountingInv, ConstantsOK
<1>1. Append(wire, 0) \in Seq(Accounting!Fills)
  BY FillsAppended DEF Accounting!Fills, Accounting!TypeOK
<1>2. Accounting!TypeOK'
  <2>1. /\ carries' \in BOOLEAN /\ lossy' \in BOOLEAN /\ foreign' \in BOOLEAN
        /\ trigger' \in BOOLEAN /\ identified' \in BOOLEAN /\ owake' \in BOOLEAN
        /\ off' \in BOOLEAN
    BY <1>1 DEF Accounting!RecordForeign, Accounting!ledger,
      Accounting!socket, Accounting!accounted, Accounting!observer,
      Accounting!TypeOK
  <2> QED
    BY <1>1, <2>1, SMT DEF Accounting!RecordForeign, Accounting!ledger,
      Accounting!socket, Accounting!accounted, Accounting!observer,
      Accounting!TypeOK
<1>3. ReadsTheLedger' /\ Accounting!AccountedIsRecorded'
  BY <1>1 DEF Accounting!RecordForeign, Accounting!ledger, Accounting!socket,
    Accounting!accounted, Accounting!observer, Accounting!TypeOK,
    ReadsTheLedger, Accounting!AccountedIsRecorded
<1>4. CalledWhenSeen'
  BY <1>1 DEF Accounting!RecordForeign, Accounting!ledger, Accounting!socket,
    Accounting!accounted, Accounting!observer, Accounting!TypeOK,
    CalledWhenSeen
<1> QED
  BY <1>2, <1>3, <1>4

LEMMA AccountingFillEventStep ==
    ASSUME ConstantsOK, AccountingInv, Accounting!FillEvent
    PROVE  AccountingInv'
<1> USE DEF AccountingInv, ConstantsOK
<1>1. UNCHANGED <<Accounting!ledger, lossy, foreign, apc, identified, detail, rows, sum, opc, batch,
                seen, called, off, faults>>
  BY DEF Accounting!FillEvent
<1>2. Accounting!TypeOK'
  <2>1. /\ carries' \in BOOLEAN /\ lossy' \in BOOLEAN /\ foreign' \in BOOLEAN
        /\ trigger' \in BOOLEAN /\ identified' \in BOOLEAN /\ owake' \in BOOLEAN
        /\ off' \in BOOLEAN
    <3>1. trigger' \in BOOLEAN
      BY Zenon DEF Accounting!FillEvent
    <3>2. owake' \in BOOLEAN
      BY DEF Accounting!FillEvent, Accounting!TypeOK
    <3> QED
      BY <1>1, <3>1, <3>2 DEF Accounting!ledger, Accounting!TypeOK
  <2> QED
    <3> DEFINE f == Head(wire)
    <3>1. f \in Accounting!Fills /\ Tail(wire) \in Seq(Accounting!Fills) /\ wire' = Tail(wire)
      BY HeadTailProperties DEF Accounting!FillEvent, Accounting!TypeOK
    <3>2. /\ captured' = Append(captured, f)
          /\ queued' = queued \/ queued' = queued \o <<f, f>>
      BY DEF Accounting!FillEvent
    <3> HIDE DEF f
    <3>3. captured' \in Seq(Accounting!Fills) /\ queued' \in Seq(Accounting!Fills)
      BY <3>1, <3>2, FillsAppended DEF Accounting!TypeOK
    <3> QED
      BY <1>1, <2>1, <3>1, <3>3, SMT DEF Accounting!ledger, Accounting!TypeOK
<1>3. ReadsTheLedger' /\ Accounting!AccountedIsRecorded'
  BY <1>1 DEF Accounting!Attached, Accounting!Looks, Accounting!ledger,
    Accounting!socket, Accounting!accounted, Accounting!observer,
    Accounting!TypeOK, ReadsTheLedger, Accounting!AccountedIsRecorded
<1>4. CalledWhenSeen'
  BY <1>1 DEF Accounting!Attached, Accounting!Looks, Accounting!ledger,
    Accounting!socket, Accounting!accounted, Accounting!observer,
    Accounting!TypeOK, CalledWhenSeen
<1> QED
  BY <1>2, <1>3, <1>4

LEMMA AccountingGapStep ==
    ASSUME ConstantsOK, AccountingInv, Accounting!Gap
    PROVE  AccountingInv'
<1> USE DEF AccountingInv, ConstantsOK
<1>1. Accounting!TypeOK'
  <2>1. /\ carries' \in BOOLEAN /\ lossy' \in BOOLEAN /\ foreign' \in BOOLEAN
        /\ trigger' \in BOOLEAN /\ identified' \in BOOLEAN /\ owake' \in BOOLEAN
        /\ off' \in BOOLEAN
    BY DEF Accounting!Gap, Accounting!Attached, Accounting!ledger,
      Accounting!socket, Accounting!accounted, Accounting!observer,
      Accounting!TypeOK
  <2> QED
    BY <2>1, SMT DEF Accounting!Gap, Accounting!Attached, Accounting!ledger,
      Accounting!socket, Accounting!accounted, Accounting!observer,
      Accounting!TypeOK
<1>2. ReadsTheLedger' /\ Accounting!AccountedIsRecorded'
  BY DEF Accounting!Gap, Accounting!Attached, Accounting!ledger,
    Accounting!socket, Accounting!accounted, Accounting!observer,
    Accounting!TypeOK, ReadsTheLedger, Accounting!AccountedIsRecorded
<1>3. CalledWhenSeen'
  BY DEF Accounting!Gap, Accounting!Attached, Accounting!ledger,
    Accounting!socket, Accounting!accounted, Accounting!observer,
    Accounting!TypeOK, CalledWhenSeen
<1> QED
  BY <1>1, <1>2, <1>3

LEMMA AccountingReceiptStep ==
    ASSUME ConstantsOK, AccountingInv, Accounting!Receipt
    PROVE  AccountingInv'
<1> USE DEF AccountingInv, ConstantsOK
<1>1. Accounting!TypeOK'
  <2>1. /\ carries' \in BOOLEAN /\ lossy' \in BOOLEAN /\ foreign' \in BOOLEAN
        /\ trigger' \in BOOLEAN /\ identified' \in BOOLEAN /\ owake' \in BOOLEAN
        /\ off' \in BOOLEAN
    BY DEF Accounting!Receipt, Accounting!ledger, Accounting!socket,
      Accounting!accounted, Accounting!observer, Accounting!TypeOK
  <2> QED
    BY <2>1, SMT DEF Accounting!Receipt, Accounting!ledger, Accounting!socket,
      Accounting!accounted, Accounting!observer, Accounting!TypeOK
<1>2. ReadsTheLedger' /\ Accounting!AccountedIsRecorded'
  BY DEF Accounting!Receipt, Accounting!ledger, Accounting!socket,
    Accounting!accounted, Accounting!observer, Accounting!TypeOK,
    ReadsTheLedger, Accounting!AccountedIsRecorded
<1>3. CalledWhenSeen'
  BY DEF Accounting!Receipt, Accounting!ledger, Accounting!socket,
    Accounting!accounted, Accounting!observer, Accounting!TypeOK,
    CalledWhenSeen
<1> QED
  BY <1>1, <1>2, <1>3

LEMMA AccountingTriggeredStep ==
    ASSUME ConstantsOK, AccountingInv, Accounting!Triggered
    PROVE  AccountingInv'
<1> USE DEF AccountingInv, ConstantsOK
<1>1. Accounting!TypeOK'
  <2>1. /\ carries' \in BOOLEAN /\ lossy' \in BOOLEAN /\ foreign' \in BOOLEAN
        /\ trigger' \in BOOLEAN /\ identified' \in BOOLEAN /\ owake' \in BOOLEAN
        /\ off' \in BOOLEAN
    BY DEF Accounting!Triggered, Accounting!ledger, Accounting!socket,
      Accounting!accounted, Accounting!observer, Accounting!TypeOK
  <2> QED
    BY <2>1, SMT DEF Accounting!Triggered, Accounting!ledger,
      Accounting!socket, Accounting!accounted, Accounting!observer,
      Accounting!TypeOK
<1>2. ReadsTheLedger' /\ Accounting!AccountedIsRecorded'
  BY DEF Accounting!Triggered, Accounting!ledger, Accounting!socket,
    Accounting!accounted, Accounting!observer, Accounting!TypeOK,
    ReadsTheLedger, Accounting!AccountedIsRecorded
<1>3. CalledWhenSeen'
  BY DEF Accounting!Triggered, Accounting!ledger, Accounting!socket,
    Accounting!accounted, Accounting!observer, Accounting!TypeOK,
    CalledWhenSeen
<1> QED
  BY <1>1, <1>2, <1>3

LEMMA AccountingTimerFiresStep ==
    ASSUME ConstantsOK, AccountingInv, Accounting!TimerFires
    PROVE  AccountingInv'
<1> USE DEF AccountingInv, ConstantsOK
<1>1. Accounting!TypeOK'
  <2>1. /\ carries' \in BOOLEAN /\ lossy' \in BOOLEAN /\ foreign' \in BOOLEAN
        /\ trigger' \in BOOLEAN /\ identified' \in BOOLEAN /\ owake' \in BOOLEAN
        /\ off' \in BOOLEAN
    BY DEF Accounting!TimerFires, Accounting!ledger, Accounting!socket,
      Accounting!accounted, Accounting!observer, Accounting!TypeOK
  <2> QED
    BY <2>1, SMT DEF Accounting!TimerFires, Accounting!ledger,
      Accounting!socket, Accounting!accounted, Accounting!observer,
      Accounting!TypeOK
<1>2. ReadsTheLedger' /\ Accounting!AccountedIsRecorded'
  BY DEF Accounting!TimerFires, Accounting!ledger, Accounting!socket,
    Accounting!accounted, Accounting!observer, Accounting!TypeOK,
    ReadsTheLedger, Accounting!AccountedIsRecorded
<1>3. CalledWhenSeen'
  BY DEF Accounting!TimerFires, Accounting!ledger, Accounting!socket,
    Accounting!accounted, Accounting!observer, Accounting!TypeOK,
    CalledWhenSeen
<1> QED
  BY <1>1, <1>2, <1>3

LEMMA AccountingReadOrderStep ==
    ASSUME ConstantsOK, AccountingInv, Accounting!ReadOrder
    PROVE  AccountingInv'
<1> USE DEF AccountingInv, ConstantsOK
<1>1. Accounting!TypeOK'
  <2>1. /\ carries' \in BOOLEAN /\ lossy' \in BOOLEAN /\ foreign' \in BOOLEAN
        /\ trigger' \in BOOLEAN /\ identified' \in BOOLEAN /\ owake' \in BOOLEAN
        /\ off' \in BOOLEAN
    BY DEF Accounting!ReadOrder, Accounting!Fault, Accounting!ledger,
      Accounting!socket, Accounting!accounted, Accounting!observer,
      Accounting!TypeOK
  <2> QED
    BY <2>1, SMT DEF Accounting!ReadOrder, Accounting!Fault,
      Accounting!ledger, Accounting!socket, Accounting!accounted,
      Accounting!observer, Accounting!TypeOK
<1>2. ReadsTheLedger' /\ Accounting!AccountedIsRecorded'
  BY DEF Accounting!ReadOrder, Accounting!Fault, Accounting!ledger,
    Accounting!socket, Accounting!accounted, Accounting!observer,
    Accounting!TypeOK, ReadsTheLedger, Accounting!AccountedIsRecorded
<1>3. CalledWhenSeen'
  BY DEF Accounting!ReadOrder, Accounting!Fault, Accounting!ledger,
    Accounting!socket, Accounting!accounted, Accounting!observer,
    Accounting!TypeOK, CalledWhenSeen
<1> QED
  BY <1>1, <1>2, <1>3

LEMMA AccountingListFillsStep ==
    ASSUME ConstantsOK, AccountingInv, Accounting!ListFills
    PROVE  AccountingInv'
<1> USE DEF AccountingInv, ConstantsOK
<1>1. rows' \in SUBSET own /\ sum' \in Nat
  <2>1. CASE rows' = {f \in own : f \in recorded} /\ sum' = Accounting!Sizes(rows')
    <3>1. own \in SUBSET (Accounting!Fills \ {0}) /\ rows' \in SUBSET own
      BY <2>1 DEF Accounting!TypeOK
    <3> QED
      BY <2>1, <3>1, SizesCover
  <2>2. CASE UNCHANGED <<rows, sum>>
    BY <2>2 DEF Accounting!TypeOK
  <2> QED
    BY <2>1, <2>2 DEF Accounting!ListFills, Accounting!Counted
<1>2. Accounting!TypeOK'
  <2>1. /\ carries' \in BOOLEAN /\ lossy' \in BOOLEAN /\ foreign' \in BOOLEAN
        /\ trigger' \in BOOLEAN /\ identified' \in BOOLEAN /\ owake' \in BOOLEAN
        /\ off' \in BOOLEAN
    BY <1>1 DEF Accounting!ListFills, Accounting!Fault, Accounting!Counted,
      Accounting!ledger, Accounting!socket, Accounting!accounted,
      Accounting!observer, Accounting!TypeOK
  <2> QED
    BY <1>1, <2>1, SMT DEF Accounting!ListFills, Accounting!Fault,
      Accounting!Counted, Accounting!ledger, Accounting!socket,
      Accounting!accounted, Accounting!observer, Accounting!TypeOK
<1>3. ReadsTheLedger' /\ Accounting!AccountedIsRecorded'
  BY <1>1 DEF Accounting!ListFills, Accounting!Fault, Accounting!Counted,
    Accounting!ledger, Accounting!socket, Accounting!accounted,
    Accounting!observer, Accounting!TypeOK, ReadsTheLedger,
    Accounting!AccountedIsRecorded
<1>4. CalledWhenSeen'
  BY <1>1 DEF Accounting!ListFills, Accounting!Fault, Accounting!Counted,
    Accounting!ledger, Accounting!socket, Accounting!accounted,
    Accounting!observer, Accounting!TypeOK, CalledWhenSeen
<1> QED
  BY <1>2, <1>3, <1>4

LEMMA AccountingCheckStep ==
    ASSUME ConstantsOK, AccountingInv, Accounting!Check
    PROVE  AccountingInv'
<1> USE DEF AccountingInv, ConstantsOK
<1>1. Accounting!IsAccounted => recorded = own
  <2>1. own \in SUBSET (Accounting!Fills \ {0}) /\ recorded \in SUBSET own /\ rows \in SUBSET recorded
    BY DEF Accounting!TypeOK, ReadsTheLedger
  <2>2. CASE detail = "complete" \/ own = {}
    BY <2>1, <2>2 DEF ReadsTheLedger
  <2>3. CASE detail = "uncounted" /\ rows # {} /\ sum = Accounting!Sizes(own)
    <3>1. sum = Accounting!Sizes(rows)
      BY <2>1, <2>3 DEF Accounting!Check, ReadsTheLedger
    <3>2. rows = own
      BY <2>1, <2>3, <3>1, SizesCover
    <3> QED
      BY <2>1, <3>2
  <2> QED
    BY <2>2, <2>3 DEF Accounting!IsAccounted
<1>2. Accounting!TypeOK'
  <2>1. /\ carries' \in BOOLEAN /\ lossy' \in BOOLEAN /\ foreign' \in BOOLEAN
        /\ trigger' \in BOOLEAN /\ identified' \in BOOLEAN /\ owake' \in BOOLEAN
        /\ off' \in BOOLEAN
    BY <1>1 DEF Accounting!Check, Accounting!ledger, Accounting!socket,
      Accounting!accounted, Accounting!observer, Accounting!TypeOK
  <2> QED
    BY <1>1, <2>1, SMT DEF Accounting!Check, Accounting!ledger,
      Accounting!socket, Accounting!accounted, Accounting!observer,
      Accounting!TypeOK
<1>3. ReadsTheLedger' /\ Accounting!AccountedIsRecorded'
  BY <1>1 DEF Accounting!Check, Accounting!ledger, Accounting!socket,
    Accounting!accounted, Accounting!observer, Accounting!TypeOK,
    ReadsTheLedger, Accounting!AccountedIsRecorded
<1>4. CalledWhenSeen'
  BY <1>1 DEF Accounting!Check, Accounting!ledger, Accounting!socket,
    Accounting!accounted, Accounting!observer, Accounting!TypeOK,
    CalledWhenSeen
<1> QED
  BY <1>2, <1>3, <1>4

LEMMA AccountingOnFillStep ==
    ASSUME ConstantsOK, AccountingInv, Accounting!OnFill
    PROVE  AccountingInv'
<1> USE DEF AccountingInv, ConstantsOK
<1>1. Accounting!TypeOK'
  <2>1. /\ carries' \in BOOLEAN /\ lossy' \in BOOLEAN /\ foreign' \in BOOLEAN
        /\ trigger' \in BOOLEAN /\ identified' \in BOOLEAN /\ owake' \in BOOLEAN
        /\ off' \in BOOLEAN
    BY DEF Accounting!OnFill, Accounting!ledger, Accounting!socket,
      Accounting!accounted, Accounting!observer, Accounting!TypeOK
  <2> QED
    BY <2>1, SMT DEF Accounting!OnFill, Accounting!ledger, Accounting!socket,
      Accounting!accounted, Accounting!observer, Accounting!TypeOK
<1>2. ReadsTheLedger' /\ Accounting!AccountedIsRecorded'
  BY DEF Accounting!OnFill, Accounting!ledger, Accounting!socket,
    Accounting!accounted, Accounting!observer, Accounting!TypeOK,
    ReadsTheLedger, Accounting!AccountedIsRecorded
<1>3. CalledWhenSeen'
  BY DEF Accounting!OnFill, Accounting!ledger, Accounting!socket,
    Accounting!accounted, Accounting!observer, Accounting!TypeOK,
    CalledWhenSeen
<1> QED
  BY <1>1, <1>2, <1>3

LEMMA AccountingResolvedStep ==
    ASSUME ConstantsOK, AccountingInv, Accounting!Resolved
    PROVE  AccountingInv'
<1> USE DEF AccountingInv, ConstantsOK
<1>1. Accounting!TypeOK'
  <2>1. /\ carries' \in BOOLEAN /\ lossy' \in BOOLEAN /\ foreign' \in BOOLEAN
        /\ trigger' \in BOOLEAN /\ identified' \in BOOLEAN /\ owake' \in BOOLEAN
        /\ off' \in BOOLEAN
    BY DEF Accounting!Resolved, Accounting!Fault, Accounting!ledger,
      Accounting!socket, Accounting!accounted, Accounting!observer,
      Accounting!TypeOK
  <2> QED
    BY <2>1, SMT DEF Accounting!Resolved, Accounting!Fault, Accounting!ledger,
      Accounting!socket, Accounting!accounted, Accounting!observer,
      Accounting!TypeOK
<1>2. ReadsTheLedger' /\ Accounting!AccountedIsRecorded'
  BY DEF Accounting!Resolved, Accounting!Fault, Accounting!ledger,
    Accounting!socket, Accounting!accounted, Accounting!observer,
    Accounting!TypeOK, ReadsTheLedger, Accounting!AccountedIsRecorded
<1>3. CalledWhenSeen'
  BY DEF Accounting!Resolved, Accounting!Fault, Accounting!ledger,
    Accounting!socket, Accounting!accounted, Accounting!observer,
    Accounting!TypeOK, CalledWhenSeen
<1> QED
  BY <1>1, <1>2, <1>3

LEMMA AccountingTakeBatchStep ==
    ASSUME ConstantsOK, AccountingInv, Accounting!TakeBatch
    PROVE  AccountingInv'
<1> USE DEF AccountingInv, ConstantsOK
<1>1. Accounting!TypeOK'
  <2>1. /\ carries' \in BOOLEAN /\ lossy' \in BOOLEAN /\ foreign' \in BOOLEAN
        /\ trigger' \in BOOLEAN /\ identified' \in BOOLEAN /\ owake' \in BOOLEAN
        /\ off' \in BOOLEAN
    BY DEF Accounting!TakeBatch, Accounting!ledger, Accounting!socket,
      Accounting!accounted, Accounting!observer, Accounting!TypeOK
  <2> QED
    BY <2>1, SMT DEF Accounting!TakeBatch, Accounting!ledger,
      Accounting!socket, Accounting!accounted, Accounting!observer,
      Accounting!TypeOK
<1>2. ReadsTheLedger' /\ Accounting!AccountedIsRecorded'
  BY DEF Accounting!TakeBatch, Accounting!ledger, Accounting!socket,
    Accounting!accounted, Accounting!observer, Accounting!TypeOK,
    ReadsTheLedger, Accounting!AccountedIsRecorded
<1>3. CalledWhenSeen'
  BY DEF Accounting!TakeBatch, Accounting!ledger, Accounting!socket,
    Accounting!accounted, Accounting!observer, Accounting!TypeOK,
    CalledWhenSeen
<1> QED
  BY <1>1, <1>2, <1>3

LEMMA AccountingCallbackStep ==
    ASSUME ConstantsOK, AccountingInv, Accounting!Callback
    PROVE  AccountingInv'
<1> USE DEF AccountingInv, ConstantsOK
<1>1. UNCHANGED <<Accounting!ledger, Accounting!socket, Accounting!accounted, opc, queued, owake, off,
                faults>>
  BY DEF Accounting!Callback
<1>2. batch' \in Seq(Accounting!Fills) /\ Head(batch) \in Accounting!Fills
  BY HeadTailProperties DEF Accounting!Callback, Accounting!TypeOK
<1>3. \/ UNCHANGED <<seen, called>>
      \/ \E f \in Accounting!Fills :
           /\ f \in own /\ f \notin seen
           /\ seen' = seen \cup {f} /\ called' = [called EXCEPT ![f] = @ + 1]
  BY <1>2 DEF Accounting!Callback, Accounting!Matches, Accounting!Fresh
<1>4. Accounting!TypeOK'
  <2>1. /\ carries' \in BOOLEAN /\ lossy' \in BOOLEAN /\ foreign' \in BOOLEAN
        /\ trigger' \in BOOLEAN /\ identified' \in BOOLEAN /\ owake' \in BOOLEAN
        /\ off' \in BOOLEAN
    BY <1>1 DEF Accounting!Matches, Accounting!Fresh, Accounting!ledger,
      Accounting!socket, Accounting!accounted, Accounting!observer,
      Accounting!TypeOK
  <2> QED
    <3>1. seen' \in SUBSET Accounting!Fills /\ called' \in [Accounting!Fills -> Nat]
      <4>1. seen \in SUBSET Accounting!Fills /\ called \in [Accounting!Fills -> Nat]
        BY DEF Accounting!TypeOK
      <4>2. CASE UNCHANGED <<seen, called>>
        BY <4>1, <4>2
      <4>3. ASSUME NEW f \in Accounting!Fills, seen' = seen \cup {f},
                   called' = [called EXCEPT ![f] = @ + 1]
            PROVE  seen' \in SUBSET Accounting!Fills /\ called' \in [Accounting!Fills -> Nat]
        <5>1. called[f] + 1 \in Nat
          BY <4>1
        <5> QED
          BY <4>1, <4>3, <5>1
      <4> QED
        BY <1>3, <4>2, <4>3
    <3> QED
      BY <1>1, <1>2, <2>1, <3>1, SMT DEF Accounting!ledger, Accounting!socket,
        Accounting!accounted, Accounting!TypeOK
<1>5. ReadsTheLedger' /\ Accounting!AccountedIsRecorded'
  BY <1>1 DEF Accounting!Matches, Accounting!Fresh, Accounting!ledger,
    Accounting!socket, Accounting!accounted, Accounting!observer,
    Accounting!TypeOK, ReadsTheLedger, Accounting!AccountedIsRecorded
<1>6. CalledWhenSeen'
  BY <1>1, <1>3 DEF Accounting!ledger, Accounting!TypeOK, CalledWhenSeen
<1> QED
  BY <1>4, <1>5, <1>6

LEMMA AccountingScannedStep ==
    ASSUME ConstantsOK, AccountingInv, Accounting!Scanned
    PROVE  AccountingInv'
<1> USE DEF AccountingInv, ConstantsOK
<1>1. Accounting!TypeOK'
  <2>1. /\ carries' \in BOOLEAN /\ lossy' \in BOOLEAN /\ foreign' \in BOOLEAN
        /\ trigger' \in BOOLEAN /\ identified' \in BOOLEAN /\ owake' \in BOOLEAN
        /\ off' \in BOOLEAN
    BY DEF Accounting!Scanned, Accounting!ledger, Accounting!socket,
      Accounting!accounted, Accounting!observer, Accounting!TypeOK
  <2> QED
    BY <2>1, SMT DEF Accounting!Scanned, Accounting!ledger, Accounting!socket,
      Accounting!accounted, Accounting!observer, Accounting!TypeOK
<1>2. ReadsTheLedger' /\ Accounting!AccountedIsRecorded'
  BY DEF Accounting!Scanned, Accounting!ledger, Accounting!socket,
    Accounting!accounted, Accounting!observer, Accounting!TypeOK,
    ReadsTheLedger, Accounting!AccountedIsRecorded
<1>3. CalledWhenSeen'
  BY DEF Accounting!Scanned, Accounting!ledger, Accounting!socket,
    Accounting!accounted, Accounting!observer, Accounting!TypeOK,
    CalledWhenSeen
<1> QED
  BY <1>1, <1>2, <1>3

LEMMA AccountingStopFillsStep ==
    ASSUME ConstantsOK, AccountingInv, Accounting!StopFills
    PROVE  AccountingInv'
<1> USE DEF AccountingInv, ConstantsOK
<1>1. Accounting!TypeOK'
  <2>1. /\ carries' \in BOOLEAN /\ lossy' \in BOOLEAN /\ foreign' \in BOOLEAN
        /\ trigger' \in BOOLEAN /\ identified' \in BOOLEAN /\ owake' \in BOOLEAN
        /\ off' \in BOOLEAN
    BY DEF Accounting!StopFills, Accounting!ledger, Accounting!socket,
      Accounting!accounted, Accounting!observer, Accounting!TypeOK
  <2> QED
    BY <2>1, SMT DEF Accounting!StopFills, Accounting!ledger,
      Accounting!socket, Accounting!accounted, Accounting!observer,
      Accounting!TypeOK
<1>2. ReadsTheLedger' /\ Accounting!AccountedIsRecorded'
  BY DEF Accounting!StopFills, Accounting!ledger, Accounting!socket,
    Accounting!accounted, Accounting!observer, Accounting!TypeOK,
    ReadsTheLedger, Accounting!AccountedIsRecorded
<1>3. CalledWhenSeen'
  BY DEF Accounting!StopFills, Accounting!ledger, Accounting!socket,
    Accounting!accounted, Accounting!observer, Accounting!TypeOK,
    CalledWhenSeen
<1> QED
  BY <1>1, <1>2, <1>3

LEMMA AccountingInitInv == ConstantsOK /\ Accounting!Init => AccountingInv
<1> SUFFICES ASSUME ConstantsOK, Accounting!Init PROVE AccountingInv
  OBVIOUS
<1> USE DEF ConstantsOK, Accounting!Init, Accounting!Fills
<1>1. Accounting!TypeOK
  <2>1. called \in [Accounting!Fills -> Nat] /\ own \in SUBSET (Accounting!Fills \ {0})
    OBVIOUS
  <2>2. /\ carries \in BOOLEAN /\ lossy \in BOOLEAN /\ foreign \in BOOLEAN /\ trigger \in BOOLEAN
        /\ identified \in BOOLEAN /\ owake \in BOOLEAN /\ off \in BOOLEAN
    BY Zenon
  <2> QED
    BY <2>1, <2>2 DEF Accounting!TypeOK
<1>2. ReadsTheLedger /\ CalledWhenSeen /\ Accounting!AccountedIsRecorded
  BY DEF ReadsTheLedger, CalledWhenSeen, Accounting!AccountedIsRecorded
<1> QED
  BY <1>1, <1>2 DEF AccountingInv

LEMMA AccountingKept ==
    ASSUME ConstantsOK, AccountingInv, [Accounting!Next]_(Accounting!vars)
    PROVE  AccountingInv'
<1>1. CASE UNCHANGED Accounting!vars
  BY <1>1 DEF Accounting!vars, Accounting!ledger, Accounting!socket, Accounting!accounted,
    Accounting!observer, AccountingInv, Accounting!TypeOK, ReadsTheLedger, CalledWhenSeen,
    Accounting!AccountedIsRecorded
<1> QED
  BY <1>1, AccountingRecordStep, AccountingRecordForeignStep,
     AccountingFillEventStep, AccountingGapStep, AccountingReceiptStep,
     AccountingTriggeredStep, AccountingTimerFiresStep,
     AccountingReadOrderStep, AccountingListFillsStep,
     AccountingCheckStep, AccountingOnFillStep, AccountingResolvedStep,
     AccountingTakeBatchStep, AccountingCallbackStep,
     AccountingScannedStep, AccountingStopFillsStep
     DEF Accounting!Next

(* Accounted and OnFill, for any fills and faults: Accounted returns only  *)
(* when the ledger has recorded every fill of the order, and OnFill hands  *)
(* no fill over twice and none of another order.                           *)
THEOREM AccountsAreRecorded == Spec => []AccountingSound
<1> DEFINE Inv == phase = "accounting" => AccountingInv
<1>1. Init => Inv
  BY ConstantsOK, AccountingInitInv DEF Init
<1>2. Inv /\ [Next]_vars => Inv'
  <2> SUFFICES ASSUME Inv, [Next]_vars, phase' = "accounting" PROVE AccountingInv'
    OBVIOUS
  <2>1. phase = "accounting" /\ [Accounting!Next]_(Accounting!vars)
    BY DEF Next, vars, ExecutionStep, AccountingStep, accountingOnly, Accounting!vars,
      Accounting!ledger, Accounting!socket, Accounting!accounted, Accounting!observer
  <2> QED
    BY <2>1, ConstantsOK, AccountingKept
<1>3. Inv => AccountingSound
  <2> SUFFICES ASSUME AccountingInv PROVE Accounting!CalledOnce
    BY DEF AccountingSound, AccountingInv
  <2> QED
    BY DEF AccountingInv, CalledWhenSeen, Accounting!CalledOnce
<1> QED
  BY <1>1, <1>2, <1>3, PTL DEF Spec

-----------------------------------------------------------------------------
(* ExecutionEvidence, a part of Algorithms. *)

Statuses == {"OPEN", "FILLED", "CANCELED", "EXPIRED", "REJECTED"}

(* A record of the order says a size it had, and what became of it only    *)
(* once that was so.                                                       *)
Witnesses(r, o) ==
    /\ r.status \in Statuses /\ r.filled \in Nat \cup {Garbled}
    /\ r.status # "OPEN" => r.status = o.status /\ r.filled \in {o.filled, Garbled}

(* An operation as it is, or as it was read. *)
ReadAs(o, now) ==
    /\ o = [state |-> o.state, outcome |-> o.outcome]
    /\ o.state \in {"pending", "completed", "failed"}
    /\ o.outcome # Nothing =>
          Witnesses(o.outcome, now) /\ o.outcome.orderId \in {"", Evidence!Order}

(* What the venue makes of an order: only what is full or immediate is     *)
(* FILLED, and what is full ends in no other way.                          *)
OrderOK ==
    /\ eorder \in [status : Statuses, filled : Nat, size : Nat]
    /\ eorder.filled = eorder.size => eorder.status \in {"OPEN", "FILLED"}
    /\ eorder.status = "FILLED" => eorder.filled = eorder.size \/ Evidence!Immediate
    /\ eorder.status = "REJECTED" => eorder.filled = 0
    /\ resized = {} => eorder.size = MaxSize

IntentOK ==
    /\ intent.known \in BOOLEAN
    /\ intent.size \in {MaxSize, Garbled}

RecordsOK ==
    /\ ReadAs(eop, eorder)
    /\ copy # Nothing => ReadAs(copy, eorder)
    /\ history # Nothing =>
          history.id = "another" \/ (history.id = Evidence!Order /\ Witnesses(history, eorder))
    /\ edetail # Nothing => receipt # Nothing

EvidenceInv == OrderOK /\ IntentOK /\ RecordsOK /\ Evidence!EvidenceSound

LEMMA EvidenceInitInv == Evidence!ConstantsOK /\ Evidence!Init => EvidenceInv
BY DEF Evidence!ConstantsOK, Evidence!Init, EvidenceInv, OrderOK, IntentOK, RecordsOK, ReadAs,
  Statuses, Evidence!EvidenceSound, Evidence!TypeOK, Evidence!ReceiptIsTrue, Evidence!VerdictsAgree,
  Evidence!NoForeignAnswer, Evidence!DetailMatches

(* The facts that a receipt of an order that has ended is made from. *)
LEMMA OutcomeIsTrue ==
    ASSUME Evidence!ConstantsOK, OrderOK, IntentOK, Evidence!TypeOK,
           NEW row, row.id = Evidence!Order, row.status = eorder.status, row.filled = eorder.filled,
           row.size = IF intent.known THEN intent.size ELSE Garbled,
           eorder.status # "OPEN",
           Evidence!executionDisposition(row)[1] # "unknown"
    PROVE  LET out == Evidence!ExecutionOutcome(row) IN
           /\ out.orderId = Evidence!Order /\ out.filled = eorder.filled
           /\ out.state \in {"filled", "partial", "no_fill", "rejected"}
           /\ out.state \in {"no_fill", "rejected"} <=> eorder.filled = 0
           /\ (resized = {} /\ intent.known /\ intent.size # Garbled) =>
                 /\ out.state = "filled" <=> out.fulfillment = "full"
                 /\ out.state = "partial" <=> out.fulfillment = "partial"
                 /\ out.fulfillment = "full" <=> eorder.filled = intent.size
<1> DEFINE st == Evidence!normalizeExecutionStatus(row.status)
           short == row.size # Garbled /\ row.size > 0 /\ row.filled < row.size
           d == Evidence!executionDisposition(row)
<1>1. /\ eorder.filled \in Nat /\ eorder.filled # Garbled /\ row.filled # Garbled
      /\ MaxSize \in Nat /\ MaxSize > 0
  BY DEF OrderOK, Evidence!ConstantsOK
<1>2. eorder.status \in {"FILLED", "CANCELED", "EXPIRED", "REJECTED"}
  BY DEF OrderOK, Statuses
<1>3. /\ st \in {"FILLED", "CANCELLED", "FAILED"}
      /\ st = "FILLED" <=> eorder.status = "FILLED"
      /\ st = "FAILED" => eorder.filled = 0
  BY <1>2 DEF Evidence!normalizeExecutionStatus, OrderOK
<1>4. /\ d[1] \in {"filled", "partial", "no_fill", "rejected"}
      /\ d[1] \in {"no_fill", "rejected"} <=> eorder.filled = 0
      /\ d[1] = "filled" <=> st = "FILLED" /\ ~short /\ eorder.filled > 0
  <2> HIDE DEF st, short
  <2>1. CASE st = "FILLED"
    BY <1>1, <2>1 DEF Evidence!executionDisposition, st, short
  <2>2. CASE st = "CANCELLED"
    BY <1>1, <2>2 DEF Evidence!executionDisposition, st, short
  <2>3. CASE st = "FAILED"
    BY <1>1, <1>3, <2>3 DEF Evidence!executionDisposition, st, short
  <2> QED
    BY <1>3, <2>1, <2>2, <2>3
<1>5. ASSUME resized = {}, intent.known, intent.size # Garbled
      PROVE  /\ row.size = MaxSize /\ intent.size = MaxSize /\ eorder.size = MaxSize
             /\ eorder.filled <= MaxSize
             /\ short <=> eorder.filled < MaxSize
             /\ eorder.filled = MaxSize => st = "FILLED"
  BY <1>1, <1>2, <1>3, <1>5 DEF OrderOK, IntentOK, Evidence!TypeOK
<1>6. ASSUME resized = {}, intent.known, intent.size # Garbled
      PROVE  /\ Evidence!Fulfillment(row) = IF eorder.filled = 0 THEN "none"
                                            ELSE IF eorder.filled < MaxSize THEN "partial" ELSE "full"
  BY <1>1, <1>5, <1>6 DEF Evidence!Fulfillment
<1> HIDE DEF st, short, d
<1> DEFINE out == Evidence!ExecutionOutcome(row)
<1>7. /\ out.orderId = row.id /\ out.filled = row.filled /\ out.state = d[1]
      /\ out.fulfillment = Evidence!Fulfillment(row)
  BY DEF Evidence!ExecutionOutcome, d
<1> HIDE DEF out
<1>8. ASSUME resized = {}, intent.known, intent.size # Garbled
      PROVE  /\ out.state = "filled" <=> out.fulfillment = "full"
             /\ out.state = "partial" <=> out.fulfillment = "partial"
             /\ out.fulfillment = "full" <=> eorder.filled = intent.size
  BY <1>1, <1>4, <1>5, <1>6, <1>7, <1>8
<1> QED
  BY <1>4, <1>7, <1>8 DEF out

(* A receipt is given for an order that has ended, on evidence of it. *)
LEMMA ReceiptGiven ==
    ASSUME Evidence!ConstantsOK, OrderOK, IntentOK, RecordsOK, Evidence!TypeOK, copy # Nothing,
           NEW acct \in Evidence!Accounts,
           NEW given, given = Evidence!GetOperationExecutionReceipt(copy, acct), given # Nothing
    PROVE  \E row :
              /\ row.id = Evidence!Order /\ row.status = eorder.status /\ row.filled = eorder.filled
              /\ row.size = IF intent.known THEN intent.size ELSE Garbled
              /\ eorder.status # "OPEN" /\ Evidence!executionDisposition(row)[1] # "unknown"
              /\ given = Evidence!executionReceipt(row, acct)
              /\ intent.known => acct = "own"
<1> DEFINE told == Evidence!operationExecution(copy, acct)
           found == Evidence!GetOperationOrder(copy, acct)
           update == IF found = Nothing THEN Nothing ELSE Evidence!executionUpdate(found, acct)
<1>1. /\ ~Evidence!OtherAccount(acct)
      /\ \/ told # Nothing /\ given = Evidence!executionReceipt(told, acct)
         \/ update # Nothing /\ given = Evidence!executionReceipt(update, acct)
  BY Zenon DEF Evidence!GetOperationExecutionReceipt
<1>2. intent.known => acct = "own"
  BY <1>1, Zenon DEF Evidence!OtherAccount
<1>3. ASSUME NEW s, s \in Statuses, Evidence!isTerminalOrderStatus(s) PROVE s # "OPEN"
  BY <1>3 DEF Evidence!isTerminalOrderStatus, Evidence!normalizeExecutionStatus, Statuses
<1>4. ASSUME NEW id, NEW s, NEW n, NEW m, n \in Nat \cup {Garbled}
      PROVE  LET row == Evidence!Intended(s, n, id, m) IN
             /\ row.id = id /\ row.status = s /\ row.filled = n
             /\ row.size = IF intent.known THEN intent.size ELSE Garbled
             /\ Evidence!executionDisposition(row)[1] # "unknown" => n # Garbled
  BY <1>4 DEF Evidence!Intended, Evidence!executionDisposition
<1>5. CASE told # Nothing /\ given = Evidence!executionReceipt(told, acct)
  <2> DEFINE o == copy.outcome
             row == Evidence!Intended(o.status, o.filled, o.orderId, o.filled)
  <2>1. /\ o # Nothing /\ o.orderId # "" /\ Evidence!isTerminalOrderStatus(o.status)
        /\ Evidence!executionDisposition(row)[1] # "unknown" /\ told = row
    BY <1>5, Zenon DEF Evidence!operationExecution
  <2>2. Witnesses(o, eorder) /\ o.orderId = Evidence!Order
    BY <2>1 DEF RecordsOK, ReadAs
  <2>3. o.status # "OPEN" /\ o.filled \in Nat \cup {Garbled}
    BY <1>3, <2>1, <2>2 DEF Witnesses
  <2>4. /\ row.id = Evidence!Order /\ row.status = o.status /\ row.filled = o.filled
        /\ row.size = IF intent.known THEN intent.size ELSE Garbled
        /\ o.filled # Garbled
    <3>1. /\ row.id = o.orderId /\ row.status = o.status /\ row.filled = o.filled
          /\ row.size = IF intent.known THEN intent.size ELSE Garbled
          /\ Evidence!executionDisposition(row)[1] # "unknown" => o.filled # Garbled
      BY <1>4, <2>3
    <3> HIDE DEF row
    <3> QED
      BY <2>1, <2>2, <3>1
  <2>5. row.status = eorder.status /\ row.filled = eorder.filled /\ eorder.status # "OPEN"
    BY <2>2, <2>3, <2>4 DEF Witnesses
  <2> HIDE DEF row, told
  <2> QED
    BY <1>2, <1>5, <2>1, <2>4, <2>5
<1>6. CASE update # Nothing /\ given = Evidence!executionReceipt(update, acct)
  <2> DEFINE row == Evidence!Intended(found.status, found.filled, found.id, found.size)
  <2>1. /\ found # Nothing /\ update = Evidence!executionUpdate(found, acct)
    BY <1>6, Zenon
  <2>2. /\ Evidence!isTerminalOrderStatus(found.status) /\ update = row
        /\ Evidence!executionDisposition(row)[1] # "unknown"
    BY <1>6, <2>1, Zenon DEF Evidence!executionUpdate
  <2>3. found = history /\ history # Nothing /\ found.id = Evidence!Order
    <3>1. copy.outcome = Nothing \/ copy.outcome.orderId \in {"", Evidence!Order}
      BY DEF RecordsOK, ReadAs
    <3>2. Evidence!Recorded(copy) \in {"", Evidence!Order}
      BY <3>1 DEF Evidence!Recorded
    <3>3. /\ found = Evidence!GetOrder(copy, acct)
          /\ Evidence!Recorded(copy) # "" => found.id = Evidence!Recorded(copy)
      BY <2>1, Zenon DEF Evidence!GetOperationOrder
    <3>4. /\ found = history /\ history # Nothing
          /\ Evidence!Recorded(copy) = "" => history.id = Evidence!Order
      BY <2>1, <3>3, Zenon DEF Evidence!GetOrder
    <3> HIDE DEF found
    <3> QED
      BY <3>2, <3>3, <3>4
  <2>4. Witnesses(history, eorder)
    BY <2>3 DEF RecordsOK, Evidence!Order
  <2>5. history.status # "OPEN" /\ history.filled \in Nat \cup {Garbled}
    BY <1>3, <2>2, <2>3, <2>4, Zenon DEF Witnesses
  <2>6. /\ row.id = Evidence!Order /\ row.status = history.status /\ row.filled = history.filled
        /\ row.size = IF intent.known THEN intent.size ELSE Garbled
        /\ history.filled # Garbled
    BY <1>4, <2>2, <2>3, <2>5
  <2>7. row.status = eorder.status /\ row.filled = eorder.filled /\ eorder.status # "OPEN"
    BY <2>4, <2>5, <2>6 DEF Witnesses
  <2> HIDE DEF row, update, found
  <2> QED
    BY <1>2, <1>6, <2>2, <2>6, <2>7
<1> QED
  BY <1>1, <1>5, <1>6

(* An order that has ended is left as it is, so what is a record of it, and *)
(* what was answered about it, stays true.                                 *)
LEMMA RecordsStay ==
    ASSUME Evidence!ConstantsOK, EvidenceInv, eorder' \in [status : Statuses, filled : Nat, size : Nat],
           eorder.status # "OPEN" => eorder' = eorder
    PROVE  /\ \A r : Witnesses(r, eorder) => Witnesses(r, eorder')
           /\ \A o : ReadAs(o, eorder) => ReadAs(o, eorder')
<1>1. \A r : Witnesses(r, eorder) => Witnesses(r, eorder')
  BY DEF EvidenceInv, OrderOK, Statuses, Witnesses
<1> QED
  BY <1>1 DEF ReadAs

LEMMA AnswersStay ==
    ASSUME EvidenceInv, UNCHANGED <<intent, receipt, edetail, ehandle>>, resized \subseteq resized',
           eorder.status # "OPEN" => eorder' = eorder
    PROVE  /\ Evidence!ReceiptIsTrue' /\ Evidence!VerdictsAgree'
           /\ Evidence!NoForeignAnswer' /\ Evidence!DetailMatches'
<1> USE DEF EvidenceInv, Evidence!EvidenceSound
<1>1. ASSUME receipt # Nothing PROVE eorder' = eorder
  BY <1>1 DEF Evidence!ReceiptIsTrue
<1>2. Evidence!ReceiptIsTrue'
  BY <1>1 DEF Evidence!ReceiptIsTrue
<1>3. Evidence!VerdictsAgree'
  BY <1>1 DEF Evidence!VerdictsAgree
<1>4. Evidence!NoForeignAnswer'
  BY DEF Evidence!NoForeignAnswer
<1>5. Evidence!DetailMatches'
  BY <1>1 DEF Evidence!DetailMatches, RecordsOK
<1> QED
  BY <1>2, <1>3, <1>4, <1>5

(* A step of the venue, or an order of its owner: the records are left. *)
LEMMA OrderMoves ==
    ASSUME Evidence!ConstantsOK, EvidenceInv, OrderOK', Evidence!TypeOK',
           UNCHANGED <<intent, eop, history, copy, receipt, edetail, ehandle>>, resized \subseteq resized',
           eorder.status # "OPEN" => eorder' = eorder
    PROVE  EvidenceInv'
<1>1. IntentOK'
  BY DEF EvidenceInv, IntentOK
<1>2. RecordsOK'
  <2>1. eorder' \in [status : Statuses, filled : Nat, size : Nat]
    BY DEF OrderOK
  <2> QED
    BY <2>1, RecordsStay DEF EvidenceInv, RecordsOK
<1> QED
  BY <1>1, <1>2, AnswersStay DEF EvidenceInv, Evidence!EvidenceSound

(* The records are written or read while the order stays. *)
LEMMA RecordsMove ==
    ASSUME Evidence!ConstantsOK, EvidenceInv, RecordsOK', Evidence!TypeOK',
           UNCHANGED <<intent, eorder, resized, receipt, edetail, ehandle>>
    PROVE  EvidenceInv'
<1>1. OrderOK' /\ IntentOK'
  BY DEF EvidenceInv, OrderOK, IntentOK, Evidence!Immediate
<1> QED
  BY <1>1, AnswersStay DEF EvidenceInv, Evidence!EvidenceSound

LEMMA VenueActs ==
    ASSUME Evidence!ConstantsOK, EvidenceInv,
           Evidence!VenueFills \/ Evidence!VenueEnds \/ Evidence!Cancel
              \/ (\E size \in 1..MaxSize : Evidence!Resize(size))
    PROVE  EvidenceInv'
<1> USE DEF Evidence!venue, Evidence!given
<1>1. OrderOK /\ Evidence!TypeOK /\ MaxSize \in Nat
  BY DEF EvidenceInv, Evidence!EvidenceSound, Evidence!ConstantsOK
<1>2. CASE Evidence!VenueFills
  <2>1. OrderOK' /\ Evidence!TypeOK'
    BY <1>1, <1>2 DEF Evidence!VenueFills, OrderOK, Evidence!TypeOK, Evidence!Immediate
  <2> QED
    BY <1>2, <2>1, OrderMoves DEF Evidence!VenueFills
<1>3. CASE Evidence!VenueEnds
  <2>1. OrderOK' /\ Evidence!TypeOK'
    BY <1>1, <1>3 DEF Evidence!VenueEnds, OrderOK, Statuses, Evidence!TypeOK, Evidence!Immediate
  <2> QED
    BY <1>3, <2>1, OrderMoves DEF Evidence!VenueEnds
<1>4. CASE Evidence!Cancel
  <2>1. OrderOK' /\ Evidence!TypeOK'
    BY <1>1, <1>4 DEF Evidence!Cancel, OrderOK, Statuses, Evidence!TypeOK, Evidence!Immediate
  <2> QED
    BY <1>4, <2>1, OrderMoves DEF Evidence!Cancel
<1>5. ASSUME NEW size \in 1..MaxSize, Evidence!Resize(size) PROVE EvidenceInv'
  <2>1. OrderOK' /\ Evidence!TypeOK'
    BY <1>1, <1>5 DEF Evidence!Resize, OrderOK, Statuses, Evidence!TypeOK, Evidence!Immediate
  <2> QED
    BY <1>5, <2>1, OrderMoves DEF Evidence!Resize
<1> QED
  BY <1>2, <1>3, <1>4, <1>5

LEMMA RecordsWritten ==
    ASSUME Evidence!ConstantsOK, EvidenceInv,
           Evidence!VenueWrites \/ Evidence!VenueConfuses \/ Evidence!PlatformWrites
              \/ Evidence!ReadOperation
    PROVE  EvidenceInv'
<1> USE DEF Evidence!venue, Evidence!given
<1>1. OrderOK /\ Evidence!TypeOK /\ RecordsOK
  BY DEF EvidenceInv, Evidence!EvidenceSound
<1>2. CASE Evidence!VenueWrites
  <2>1. PICK size \in {eorder.size, eorder.filled}, filled \in {eorder.filled, Garbled} :
           history' = [id |-> Evidence!Order, status |-> eorder.status, filled |-> filled,
                       size |-> size]
    BY <1>2 DEF Evidence!VenueWrites
  <2>2. history'.id = Evidence!Order /\ Witnesses(history', eorder)
    BY <1>1, <2>1 DEF Witnesses, OrderOK
  <2>3. RecordsOK' /\ Evidence!TypeOK'
    BY <1>1, <1>2, <2>2 DEF Evidence!VenueWrites, RecordsOK, Evidence!TypeOK
  <2> QED
    BY <1>2, <2>3, RecordsMove DEF Evidence!VenueWrites
<1>3. CASE Evidence!VenueConfuses
  <2>1. RecordsOK' /\ Evidence!TypeOK'
    BY <1>1, <1>3 DEF Evidence!VenueConfuses, RecordsOK, Evidence!TypeOK
  <2> QED
    BY <1>3, <2>1, RecordsMove DEF Evidence!VenueConfuses
<1>4. CASE Evidence!PlatformWrites
  <2>1. PICK id \in {"", Evidence!Order}, filled \in {eorder.filled, Garbled} :
           eop' = [state |-> "completed",
                  outcome |-> [orderId |-> id, status |-> eorder.status, filled |-> filled]]
    BY <1>4 DEF Evidence!PlatformWrites
  <2>2. ReadAs(eop', eorder)
    BY <1>1, <2>1 DEF ReadAs, Witnesses, OrderOK
  <2>3. RecordsOK' /\ Evidence!TypeOK'
    BY <1>1, <1>4, <2>1, <2>2 DEF Evidence!PlatformWrites, RecordsOK, Evidence!TypeOK
  <2> QED
    BY <1>4, <2>3, RecordsMove DEF Evidence!PlatformWrites
<1>5. CASE Evidence!ReadOperation
  <2>1. RecordsOK' /\ Evidence!TypeOK'
    BY <1>1, <1>5 DEF Evidence!ReadOperation, RecordsOK, Evidence!TypeOK
  <2> QED
    BY <1>5, <2>1, RecordsMove DEF Evidence!ReadOperation
<1> QED
  BY <1>2, <1>3, <1>4, <1>5

LEMMA PlatformGivesUp ==
    ASSUME Evidence!ConstantsOK, EvidenceInv, Evidence!PlatformFails
    PROVE  EvidenceInv'
<1> USE DEF Evidence!PlatformFails, Evidence!venue, Evidence!given
<1>1. OrderOK /\ Evidence!TypeOK /\ MaxSize \in Nat /\ RecordsOK
  BY DEF EvidenceInv, Evidence!EvidenceSound, Evidence!ConstantsOK
<1>2. OrderOK' /\ Evidence!TypeOK' /\ IntentOK'
  <2>1. eorder' = [eorder EXCEPT !.status = "REJECTED"] /\ eop' = [eop EXCEPT !.state = "failed"]
    OBVIOUS
  <2>2. OrderOK'
    BY <1>1, <2>1 DEF OrderOK, Statuses, Evidence!TypeOK, Evidence!Immediate
  <2>3. Evidence!TypeOK'
    BY <1>1, <2>1 DEF OrderOK, Evidence!TypeOK, RecordsOK, ReadAs
  <2>4. IntentOK'
    BY DEF EvidenceInv, IntentOK
  <2> QED
    BY <2>2, <2>3, <2>4
<1>3. /\ \A r : Witnesses(r, eorder) => Witnesses(r, eorder')
      /\ \A o : ReadAs(o, eorder) => ReadAs(o, eorder')
  BY <1>2, RecordsStay DEF OrderOK
<1>4. ReadAs(eop', eorder)
  BY <1>1 DEF RecordsOK, ReadAs
<1>5. RecordsOK'
  BY <1>1, <1>3, <1>4 DEF RecordsOK
<1> QED
  BY <1>2, <1>5, AnswersStay DEF EvidenceInv, Evidence!EvidenceSound

LEMMA ReceiptAsked ==
    ASSUME Evidence!ConstantsOK, EvidenceInv, NEW acct \in Evidence!Accounts,
           Evidence!AskReceipt(acct)
    PROVE  EvidenceInv'
<1> USE DEF Evidence!AskReceipt, Evidence!venue, Evidence!given
<1>1. OrderOK /\ IntentOK /\ Evidence!TypeOK /\ RecordsOK
  BY DEF EvidenceInv, Evidence!EvidenceSound
<1>2. PICK row :
         /\ row.id = Evidence!Order /\ row.status = eorder.status /\ row.filled = eorder.filled
         /\ row.size = IF intent.known THEN intent.size ELSE Garbled
         /\ eorder.status # "OPEN" /\ Evidence!executionDisposition(row)[1] # "unknown"
         /\ receipt' = Evidence!executionReceipt(row, acct)
         /\ intent.known => acct = "own"
  BY <1>1, ReceiptGiven
<1>3. receipt'.outcome = Evidence!ExecutionOutcome(row) /\ receipt'.objectId = acct
  BY <1>2 DEF Evidence!executionReceipt
<1> DEFINE out == Evidence!ExecutionOutcome(row)
<1>4. /\ out.orderId = Evidence!Order /\ out.filled = eorder.filled
      /\ out.state \in {"filled", "partial", "no_fill", "rejected"}
      /\ out.state \in {"no_fill", "rejected"} <=> eorder.filled = 0
      /\ (resized = {} /\ intent.known /\ intent.size # Garbled) =>
            /\ out.state = "filled" <=> out.fulfillment = "full"
            /\ out.state = "partial" <=> out.fulfillment = "partial"
            /\ out.fulfillment = "full" <=> eorder.filled = intent.size
  BY <1>1, <1>2, OutcomeIsTrue
<1> HIDE DEF out
<1>5. OrderOK' /\ IntentOK' /\ Evidence!TypeOK'
  BY <1>1 DEF OrderOK, IntentOK, Evidence!TypeOK, Evidence!Immediate
<1>6. RecordsOK'
  BY <1>1 DEF RecordsOK
<1>7. Evidence!ReceiptIsTrue' /\ Evidence!VerdictsAgree'
  BY <1>2, <1>3, <1>4 DEF out, Evidence!ReceiptIsTrue, Evidence!VerdictsAgree
<1>8. Evidence!NoForeignAnswer'
  BY <1>2, <1>3 DEF EvidenceInv, Evidence!EvidenceSound, Evidence!NoForeignAnswer
<1>9. Evidence!DetailMatches'
  BY <1>1 DEF RecordsOK, Evidence!DetailMatches
<1> QED
  BY <1>5, <1>6, <1>7, <1>8, <1>9 DEF EvidenceInv, Evidence!EvidenceSound

LEMMA OrderAttached ==
    ASSUME Evidence!ConstantsOK, EvidenceInv, NEW acct \in Evidence!Accounts,
           Evidence!OrderHandleFor(acct)
    PROVE  EvidenceInv'
<1> USE DEF Evidence!OrderHandleFor, Evidence!venue, Evidence!given, EvidenceInv, Evidence!EvidenceSound
<1>1. OrderOK' /\ IntentOK' /\ Evidence!TypeOK' /\ RecordsOK'
  BY DEF OrderOK, IntentOK, Evidence!TypeOK, RecordsOK, Evidence!Immediate
<1>2. Evidence!ReceiptIsTrue' /\ Evidence!VerdictsAgree' /\ Evidence!DetailMatches'
  BY DEF Evidence!ReceiptIsTrue, Evidence!VerdictsAgree, Evidence!DetailMatches
<1>3. Evidence!NoForeignAnswer'
  BY DEF Evidence!NoForeignAnswer, Evidence!OtherAccount
<1> QED
  BY <1>1, <1>2, <1>3

LEMMA DetailsGiven ==
    ASSUME Evidence!ConstantsOK, EvidenceInv, Evidence!Filled
    PROVE  EvidenceInv'
<1> USE DEF Evidence!Filled, Evidence!venue, Evidence!given, EvidenceInv, Evidence!EvidenceSound
<1>1. OrderOK' /\ IntentOK' /\ Evidence!TypeOK' /\ RecordsOK'
  BY DEF OrderOK, IntentOK, Evidence!TypeOK, RecordsOK, Evidence!Immediate
<1>2. Evidence!ReceiptIsTrue' /\ Evidence!VerdictsAgree' /\ Evidence!NoForeignAnswer'
  BY DEF Evidence!ReceiptIsTrue, Evidence!VerdictsAgree, Evidence!NoForeignAnswer
<1>3. history.id = Evidence!Order
  BY DEF Evidence!ReceiptIsTrue
<1>4. Witnesses(history, eorder)
  BY <1>3 DEF RecordsOK, Evidence!Order
<1>5. history.status # "OPEN"
  BY DEF Evidence!isTerminalOrderStatus, Evidence!normalizeExecutionStatus
<1>6. Evidence!DetailMatches'
  BY <1>4, <1>5 DEF Witnesses, Evidence!DetailMatches, Evidence!ReceiptIsTrue
<1> QED
  BY <1>1, <1>2, <1>6

LEMMA EvidenceKept ==
    ASSUME Evidence!ConstantsOK, EvidenceInv, [Evidence!Next]_(Evidence!vars)
    PROVE  EvidenceInv'
<1>1. CASE UNCHANGED Evidence!vars
  <2> USE <1>1 DEF Evidence!vars, Evidence!venue, Evidence!given
  <2>1. RecordsOK' /\ Evidence!TypeOK'
    BY DEF EvidenceInv, RecordsOK, Evidence!EvidenceSound, Evidence!TypeOK
  <2> QED
    BY <2>1, RecordsMove
<1> QED
  BY <1>1, VenueActs, RecordsWritten, PlatformGivesUp, ReceiptAsked, OrderAttached, DetailsGiven
     DEF Evidence!Next

(* A receipt is of an order that has ended, of the size it executed, and   *)
(* its verdicts agree; its details are its own fills; nobody is answered   *)
(* for another's order: for any size, kinds of order and timing of the     *)
(* records.                                                                *)
THEOREM EvidenceIsSound == AlgorithmsSpec => []EvidenceSound
<1> DEFINE Inv == topic = "evidence" => EvidenceInv
<1> Evidence!ConstantsOK
  BY ComputationsOK
<1>1. Evidence!Init => EvidenceInv
  BY EvidenceInitInv
<1>2. EvidenceInv /\ [Evidence!Next]_(Evidence!vars) => EvidenceInv'
  BY EvidenceKept
<1>3. EvidenceInv => Evidence!EvidenceSound
  BY DEF EvidenceInv
<1>4. AlgorithmsInit => Inv
  BY <1>1 DEF AlgorithmsInit
<1>5. Inv /\ [AlgorithmsNext]_algorithmVars => Inv'
  <2> SUFFICES ASSUME Inv, [AlgorithmsNext]_algorithmVars, topic' = "evidence"
               PROVE  EvidenceInv'
    OBVIOUS
  <2>1. topic = "evidence" /\ [Evidence!Next]_(Evidence!vars)
    BY DEF AlgorithmsNext, algorithmVars, MoneyNext, EvidenceNext, BookNext, CacheNext, CandlesNext,
      LadderNext, RevalueNext,
      evidenceVars, Evidence!vars, Evidence!venue, Evidence!given
  <2> QED
    BY <1>2, <2>1
<1>6. Inv => EvidenceSound
  BY <1>3 DEF EvidenceSound
<1> QED
  BY <1>4, <1>5, <1>6, PTL DEF AlgorithmsSpec
=============================================================================
