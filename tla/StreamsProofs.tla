---------------------------- MODULE StreamsProofs ----------------------------
(***************************************************************************)
(* Proofs about the streams of MCStreams, for any bounds and scopes: an    *)
(* exchange observation is not restored once withdrawn, nor an older one   *)
(* put over a newer; no cursor outruns the fills; rows that are not called *)
(* stale are watched. Each stream has an inductive invariant of its own,   *)
(* which the steps of the others leave alone.                              *)
(***************************************************************************)
EXTENDS MCStreams, TLAPS

-----------------------------------------------------------------------------
(* ExchangeStream.                                                         *)

(* A read that is served has a state. One of the present epoch was served  *)
(* after the last withdrawal, because a withdrawal ends its epoch.         *)
Current ==
    \A g \in Exchange!Readers :
       /\ reader[g].epoch <= epoch
       /\ reader[g].pc = "served" =>
             reader[g].v # 0 /\ (reader[g].epoch = epoch => reader[g].voids = voids)
       /\ reader[g].pc \in {"start", "gate", "leave"} => g = "refetch"

(* The gate is taken while its goroutine is at work. A Refresh that finds  *)
(* it past its start is queued, and only a closed stream gives up.         *)
Gated ==
    /\ active <=> reader["refetch"].pc # "idle"
    /\ owed /\ reader["refetch"].pc # "start" => queued
    /\ reader["refetch"].pc = "leave" => closed /\ ~owed

ExchangeInv ==
    /\ Exchange!TypeOK /\ Current /\ Gated
    /\ Exchange!NotRestored /\ Exchange!KeepsTrying /\ Exchange!RefreshReads


LEMMA ExchangeChangeStep ==
    ASSUME ConstantsOK, ExchangeInv, Exchange!Change
    PROVE  ExchangeInv'
<1> USE DEF ExchangeInv, ConstantsOK, Exchange!Readers, Exchange!Steps
<1>1. Exchange!TypeOK'
  BY DEF Exchange!Change, Exchange!held, Exchange!gate, Exchange!timers,
    Exchange!TypeOK
<1>2. Current'
  BY DEF Exchange!Change, Exchange!held, Exchange!gate, Exchange!timers,
    Exchange!TypeOK, Current
<1>3. Gated'
  BY DEF Exchange!Change, Exchange!held, Exchange!gate, Exchange!timers,
    Exchange!TypeOK, Gated
<1>4. Exchange!NotRestored' /\ Exchange!KeepsTrying' /\ Exchange!RefreshReads'
  BY DEF Exchange!Change, Exchange!held, Exchange!gate, Exchange!timers,
    Exchange!TypeOK, Current, Gated, Exchange!NotRestored,
    Exchange!KeepsTrying, Exchange!RefreshReads
<1> QED
  BY <1>1, <1>2, <1>3, <1>4

LEMMA ExchangeOnExchangeNotificationStep ==
    ASSUME ConstantsOK, ExchangeInv, NEW o \in Exchange!Pushes, Exchange!OnExchangeNotification(o)
    PROVE  ExchangeInv'
<1> USE DEF ExchangeInv, ConstantsOK, Exchange!Readers, Exchange!Steps
<1>0. /\ o \in [pc : Exchange!Steps, epoch : Nat, v : 0..MaxBook, voids : Nat]
      /\ o.pc \in {"unavailable", "ask", "served"} /\ (o.pc = "served" => o.v # 0)
  <2>1. CASE o = [Exchange!Idle EXCEPT !.pc = "unavailable"]
    BY <2>1 DEF Exchange!Idle
  <2>2. CASE o = [Exchange!Idle EXCEPT !.pc = "ask"]
    BY <2>2 DEF Exchange!Idle
  <2>3. ASSUME NEW v \in 1..book, o = [Exchange!Idle EXCEPT !.pc = "served", !.v = v]
        PROVE  /\ o \in [pc : Exchange!Steps, epoch : Nat, v : 0..MaxBook, voids : Nat]
               /\ o.pc \in {"unavailable", "ask", "served"} /\ (o.pc = "served" => o.v # 0)
    <3>1. o = [pc |-> "served", epoch |-> 0, v |-> v, voids |-> 0]
      BY <2>3 DEF Exchange!Idle
    <3>2. v \in 0..MaxBook /\ v # 0
      BY DEF Exchange!TypeOK
    <3> QED
      BY <3>1, <3>2
  <2> QED
    BY <2>1, <2>2, <2>3 DEF Exchange!Pushes
<1>1. Exchange!TypeOK'
  <2>1. /\ closed' \in BOOLEAN /\ recovery' \in BOOLEAN /\ active' \in BOOLEAN
        /\ queued' \in BOOLEAN /\ owed' \in BOOLEAN /\ skipFirstAuth' \in BOOLEAN
    BY Zenon DEF Exchange!OnExchangeNotification, Exchange!held,
      Exchange!gate, Exchange!timers, Exchange!TypeOK
  <2>2. /\ book' \in 1..MaxBook /\ value' \in 0..MaxBook /\ epoch' \in Nat
        /\ state' \in {"loading", "connected", "reconnecting"}
        /\ (state' = "connected") = (value' # 0)
        /\ expiry' \in Nat /\ from' \in Nat /\ voids' \in Nat
        /\ pushes' \in 0..MaxPushes /\ faults' \in 0..ExchangeFaults
    BY <1>0, SMT DEF Exchange!OnExchangeNotification, Exchange!held,
      Exchange!gate, Exchange!timers, Exchange!TypeOK, Current
  <2>3. reader' \in [Exchange!Readers -> [pc : Exchange!Steps, epoch : Nat, v : 0..MaxBook,
                                         voids : Nat]]
    <3>1. [o EXCEPT !.epoch = epoch + 1, !.voids = voids]
             \in [pc : Exchange!Steps, epoch : Nat, v : 0..MaxBook, voids : Nat]
      <4> DEFINE R == [pc : Exchange!Steps, epoch : Nat, v : 0..MaxBook, voids : Nat]
                 r == [o EXCEPT !.epoch = epoch + 1]
      <4>1. epoch + 1 \in Nat /\ voids \in Nat
        BY DEF Exchange!TypeOK
      <4>2. r \in R
        BY <1>0, <4>1
      <4> HIDE DEF r
      <4>3. [r EXCEPT !.voids = voids] \in R
        BY <4>1, <4>2
      <4> QED
        BY <4>3 DEF r
    <3> QED
      BY <3>1 DEF Exchange!OnExchangeNotification, Exchange!TypeOK
  <2> QED
    BY <2>1, <2>2, <2>3 DEF Exchange!TypeOK
<1>2. Current'
  BY <1>0 DEF Exchange!OnExchangeNotification, Exchange!held, Exchange!gate,
    Exchange!timers, Exchange!TypeOK, Current
<1>3. Gated'
  BY <1>0 DEF Exchange!OnExchangeNotification, Exchange!held, Exchange!gate,
    Exchange!timers, Exchange!TypeOK, Gated
<1>4. Exchange!NotRestored' /\ Exchange!KeepsTrying' /\ Exchange!RefreshReads'
  BY <1>0 DEF Exchange!OnExchangeNotification, Exchange!held, Exchange!gate,
    Exchange!timers, Exchange!TypeOK, Current, Gated, Exchange!NotRestored,
    Exchange!KeepsTrying, Exchange!RefreshReads
<1> QED
  BY <1>1, <1>2, <1>3, <1>4

LEMMA ExchangeUnavailableStep ==
    ASSUME ConstantsOK, ExchangeInv, Exchange!Unavailable
    PROVE  ExchangeInv'
<1> USE DEF ExchangeInv, ConstantsOK, Exchange!Readers, Exchange!Steps
<1>1. Exchange!TypeOK'
  <2>1. /\ closed' \in BOOLEAN /\ recovery' \in BOOLEAN /\ active' \in BOOLEAN
        /\ queued' \in BOOLEAN /\ owed' \in BOOLEAN /\ skipFirstAuth' \in BOOLEAN
    BY Zenon DEF Exchange!Unavailable, Exchange!InvalidateExchangeObservation,
      Exchange!InEpoch, Exchange!ScheduleRecovery, Exchange!Idle,
      Exchange!held, Exchange!gate, Exchange!timers, Exchange!TypeOK
  <2>2. /\ book' \in 1..MaxBook /\ value' \in 0..MaxBook /\ epoch' \in Nat
        /\ state' \in {"loading", "connected", "reconnecting"}
        /\ (state' = "connected") = (value' # 0)
        /\ expiry' \in Nat /\ from' \in Nat /\ voids' \in Nat
        /\ pushes' \in 0..MaxPushes /\ faults' \in 0..ExchangeFaults
    BY SMT DEF Exchange!Unavailable, Exchange!InvalidateExchangeObservation,
      Exchange!InEpoch, Exchange!ScheduleRecovery, Exchange!Idle,
      Exchange!held, Exchange!gate, Exchange!timers, Exchange!TypeOK,
      Current
  <2>3. reader' \in [Exchange!Readers -> [pc : Exchange!Steps, epoch : Nat, v : 0..MaxBook,
                                         voids : Nat]]
  BY SMT DEF Exchange!Unavailable, Exchange!InvalidateExchangeObservation,
      Exchange!InEpoch, Exchange!ScheduleRecovery, Exchange!Idle,
      Exchange!held, Exchange!gate, Exchange!timers, Exchange!TypeOK
  <2> QED
    BY <2>1, <2>2, <2>3 DEF Exchange!TypeOK
<1>2. Current'
  BY DEF Exchange!Unavailable, Exchange!InvalidateExchangeObservation,
    Exchange!InEpoch, Exchange!ScheduleRecovery, Exchange!Idle,
    Exchange!held, Exchange!gate, Exchange!timers, Exchange!TypeOK, Current
<1>3. Gated'
  BY DEF Exchange!Unavailable, Exchange!InvalidateExchangeObservation,
    Exchange!InEpoch, Exchange!ScheduleRecovery, Exchange!Idle,
    Exchange!held, Exchange!gate, Exchange!timers, Exchange!TypeOK, Gated
<1>4. Exchange!NotRestored' /\ Exchange!KeepsTrying' /\ Exchange!RefreshReads'
  BY DEF Exchange!Unavailable, Exchange!InvalidateExchangeObservation,
    Exchange!InEpoch, Exchange!ScheduleRecovery, Exchange!Idle,
    Exchange!held, Exchange!gate, Exchange!timers, Exchange!TypeOK, Current,
    Gated, Exchange!NotRestored, Exchange!KeepsTrying, Exchange!RefreshReads
<1> QED
  BY <1>1, <1>2, <1>3, <1>4

LEMMA ExchangeFetchStep ==
    ASSUME ConstantsOK, ExchangeInv, NEW g \in Exchange!Readers, Exchange!Fetch(g)
    PROVE  ExchangeInv'
<1> USE DEF ExchangeInv, ConstantsOK, Exchange!Readers, Exchange!Steps
<1>1. Exchange!TypeOK'
  BY DEF Exchange!Fetch, Exchange!held, Exchange!gate, Exchange!timers,
    Exchange!TypeOK
<1>2. Current'
  BY DEF Exchange!Fetch, Exchange!held, Exchange!gate, Exchange!timers,
    Exchange!TypeOK, Current
<1>3. Gated'
  BY DEF Exchange!Fetch, Exchange!held, Exchange!gate, Exchange!timers,
    Exchange!TypeOK, Gated
<1>4. Exchange!NotRestored' /\ Exchange!KeepsTrying' /\ Exchange!RefreshReads'
  BY DEF Exchange!Fetch, Exchange!held, Exchange!gate, Exchange!timers,
    Exchange!TypeOK, Current, Gated, Exchange!NotRestored,
    Exchange!KeepsTrying, Exchange!RefreshReads
<1> QED
  BY <1>1, <1>2, <1>3, <1>4

LEMMA ExchangeFetchFailsStep ==
    ASSUME ConstantsOK, ExchangeInv, NEW g \in Exchange!Readers, Exchange!FetchFails(g)
    PROVE  ExchangeInv'
<1> USE DEF ExchangeInv, ConstantsOK, Exchange!Readers, Exchange!Steps
<1>1. Exchange!TypeOK'
  BY DEF Exchange!FetchFails, Exchange!Fault, Exchange!After, Exchange!Idle,
    Exchange!held, Exchange!gate, Exchange!timers, Exchange!TypeOK
<1>2. Current'
  BY DEF Exchange!FetchFails, Exchange!Fault, Exchange!After, Exchange!Idle,
    Exchange!held, Exchange!gate, Exchange!timers, Exchange!TypeOK, Current
<1>3. Gated'
  BY DEF Exchange!FetchFails, Exchange!Fault, Exchange!After, Exchange!Idle,
    Exchange!held, Exchange!gate, Exchange!timers, Exchange!TypeOK, Gated
<1>4. Exchange!NotRestored' /\ Exchange!KeepsTrying' /\ Exchange!RefreshReads'
  BY DEF Exchange!FetchFails, Exchange!Fault, Exchange!After, Exchange!Idle,
    Exchange!held, Exchange!gate, Exchange!timers, Exchange!TypeOK, Current,
    Gated, Exchange!NotRestored, Exchange!KeepsTrying, Exchange!RefreshReads
<1> QED
  BY <1>1, <1>2, <1>3, <1>4

LEMMA ExchangeObserveStep ==
    ASSUME ConstantsOK, ExchangeInv, NEW g \in Exchange!Readers,
           NEW life \in {"unbounded", "until", "past"}, Exchange!Observe(g, life)
    PROVE  ExchangeInv'
<1> USE DEF ExchangeInv, ConstantsOK, Exchange!Readers, Exchange!Steps
<1>1. Exchange!TypeOK'
  <2>1. /\ closed' \in BOOLEAN /\ recovery' \in BOOLEAN /\ active' \in BOOLEAN
        /\ queued' \in BOOLEAN /\ owed' \in BOOLEAN /\ skipFirstAuth' \in BOOLEAN
    BY Zenon DEF Exchange!Observe, Exchange!Fault, Exchange!After,
      Exchange!Idle, Exchange!EmitExchangeObservation, Exchange!InEpoch,
      Exchange!ObservedBefore, Exchange!held, Exchange!gate,
      Exchange!timers, Exchange!TypeOK
  <2>2. /\ book' \in 1..MaxBook /\ value' \in 0..MaxBook /\ epoch' \in Nat
        /\ state' \in {"loading", "connected", "reconnecting"}
        /\ (state' = "connected") = (value' # 0)
        /\ expiry' \in Nat /\ from' \in Nat /\ voids' \in Nat
        /\ pushes' \in 0..MaxPushes /\ faults' \in 0..ExchangeFaults
    BY SMT DEF Exchange!Observe, Exchange!Fault, Exchange!After,
      Exchange!Idle, Exchange!EmitExchangeObservation, Exchange!InEpoch,
      Exchange!ObservedBefore, Exchange!held, Exchange!gate,
      Exchange!timers, Exchange!TypeOK, Current
  <2>3. reader' \in [Exchange!Readers -> [pc : Exchange!Steps, epoch : Nat, v : 0..MaxBook,
                                         voids : Nat]]
  BY SMT DEF Exchange!Observe, Exchange!Fault, Exchange!After,
      Exchange!Idle, Exchange!EmitExchangeObservation, Exchange!InEpoch,
      Exchange!ObservedBefore, Exchange!held, Exchange!gate,
      Exchange!timers, Exchange!TypeOK
  <2> QED
    BY <2>1, <2>2, <2>3 DEF Exchange!TypeOK
<1>2. Current'
  BY DEF Exchange!Observe, Exchange!Fault, Exchange!After, Exchange!Idle,
    Exchange!EmitExchangeObservation, Exchange!InEpoch,
    Exchange!ObservedBefore, Exchange!held, Exchange!gate, Exchange!timers,
    Exchange!TypeOK, Current
<1>3. Gated'
  BY DEF Exchange!Observe, Exchange!Fault, Exchange!After, Exchange!Idle,
    Exchange!EmitExchangeObservation, Exchange!InEpoch,
    Exchange!ObservedBefore, Exchange!held, Exchange!gate, Exchange!timers,
    Exchange!TypeOK, Gated
<1>4. Exchange!NotRestored' /\ Exchange!KeepsTrying' /\ Exchange!RefreshReads'
  BY DEF Exchange!Observe, Exchange!Fault, Exchange!After, Exchange!Idle,
    Exchange!EmitExchangeObservation, Exchange!InEpoch,
    Exchange!ObservedBefore, Exchange!held, Exchange!gate, Exchange!timers,
    Exchange!TypeOK, Current, Gated, Exchange!NotRestored,
    Exchange!KeepsTrying, Exchange!RefreshReads
<1> QED
  BY <1>1, <1>2, <1>3, <1>4

LEMMA ExchangeRefreshStep ==
    ASSUME ConstantsOK, ExchangeInv, Exchange!Refresh
    PROVE  ExchangeInv'
<1> USE DEF ExchangeInv, ConstantsOK, Exchange!Readers, Exchange!Steps
<1>1. Exchange!TypeOK'
  <2>1. /\ closed' \in BOOLEAN /\ recovery' \in BOOLEAN /\ active' \in BOOLEAN
        /\ queued' \in BOOLEAN /\ owed' \in BOOLEAN /\ skipFirstAuth' \in BOOLEAN
    BY Zenon DEF Exchange!Refresh, Exchange!Fault, Exchange!StartRefetch,
      Exchange!QueueRefetch, Exchange!held, Exchange!gate, Exchange!timers,
      Exchange!TypeOK
  <2>2. /\ book' \in 1..MaxBook /\ value' \in 0..MaxBook /\ epoch' \in Nat
        /\ state' \in {"loading", "connected", "reconnecting"}
        /\ (state' = "connected") = (value' # 0)
        /\ expiry' \in Nat /\ from' \in Nat /\ voids' \in Nat
        /\ pushes' \in 0..MaxPushes /\ faults' \in 0..ExchangeFaults
    BY SMT DEF Exchange!Refresh, Exchange!Fault, Exchange!StartRefetch,
      Exchange!QueueRefetch, Exchange!held, Exchange!gate, Exchange!timers,
      Exchange!TypeOK, Current
  <2>3. reader' \in [Exchange!Readers -> [pc : Exchange!Steps, epoch : Nat, v : 0..MaxBook,
                                         voids : Nat]]
  BY SMT DEF Exchange!Refresh, Exchange!Fault, Exchange!StartRefetch,
      Exchange!QueueRefetch, Exchange!held, Exchange!gate, Exchange!timers,
      Exchange!TypeOK
  <2> QED
    BY <2>1, <2>2, <2>3 DEF Exchange!TypeOK
<1>2. Current'
  BY DEF Exchange!Refresh, Exchange!Fault, Exchange!StartRefetch,
    Exchange!QueueRefetch, Exchange!held, Exchange!gate, Exchange!timers,
    Exchange!TypeOK, Current
<1>3. Gated'
  BY DEF Exchange!Refresh, Exchange!Fault, Exchange!StartRefetch,
    Exchange!QueueRefetch, Exchange!held, Exchange!gate, Exchange!timers,
    Exchange!TypeOK, Gated
<1>4. Exchange!NotRestored' /\ Exchange!KeepsTrying' /\ Exchange!RefreshReads'
  BY DEF Exchange!Refresh, Exchange!Fault, Exchange!StartRefetch,
    Exchange!QueueRefetch, Exchange!held, Exchange!gate, Exchange!timers,
    Exchange!TypeOK, Current, Gated, Exchange!NotRestored,
    Exchange!KeepsTrying, Exchange!RefreshReads
<1> QED
  BY <1>1, <1>2, <1>3, <1>4

LEMMA ExchangeAuthenticatedStep ==
    ASSUME ConstantsOK, ExchangeInv, Exchange!Authenticated
    PROVE  ExchangeInv'
<1> USE DEF ExchangeInv, ConstantsOK, Exchange!Readers, Exchange!Steps
<1>1. Exchange!TypeOK'
  <2>1. /\ closed' \in BOOLEAN /\ recovery' \in BOOLEAN /\ active' \in BOOLEAN
        /\ queued' \in BOOLEAN /\ owed' \in BOOLEAN /\ skipFirstAuth' \in BOOLEAN
    BY Zenon DEF Exchange!Authenticated, Exchange!Fault,
      Exchange!StartRefetch, Exchange!QueueRefetch, Exchange!held,
      Exchange!gate, Exchange!timers, Exchange!TypeOK
  <2>2. /\ book' \in 1..MaxBook /\ value' \in 0..MaxBook /\ epoch' \in Nat
        /\ state' \in {"loading", "connected", "reconnecting"}
        /\ (state' = "connected") = (value' # 0)
        /\ expiry' \in Nat /\ from' \in Nat /\ voids' \in Nat
        /\ pushes' \in 0..MaxPushes /\ faults' \in 0..ExchangeFaults
    BY SMT DEF Exchange!Authenticated, Exchange!Fault, Exchange!StartRefetch,
      Exchange!QueueRefetch, Exchange!held, Exchange!gate, Exchange!timers,
      Exchange!TypeOK, Current
  <2>3. reader' \in [Exchange!Readers -> [pc : Exchange!Steps, epoch : Nat, v : 0..MaxBook,
                                         voids : Nat]]
  BY SMT DEF Exchange!Authenticated, Exchange!Fault, Exchange!StartRefetch,
      Exchange!QueueRefetch, Exchange!held, Exchange!gate, Exchange!timers,
      Exchange!TypeOK
  <2> QED
    BY <2>1, <2>2, <2>3 DEF Exchange!TypeOK
<1>2. Current'
  BY DEF Exchange!Authenticated, Exchange!Fault, Exchange!StartRefetch,
    Exchange!QueueRefetch, Exchange!held, Exchange!gate, Exchange!timers,
    Exchange!TypeOK, Current
<1>3. Gated'
  BY DEF Exchange!Authenticated, Exchange!Fault, Exchange!StartRefetch,
    Exchange!QueueRefetch, Exchange!held, Exchange!gate, Exchange!timers,
    Exchange!TypeOK, Gated
<1>4. Exchange!NotRestored' /\ Exchange!KeepsTrying' /\ Exchange!RefreshReads'
  BY DEF Exchange!Authenticated, Exchange!Fault, Exchange!StartRefetch,
    Exchange!QueueRefetch, Exchange!held, Exchange!gate, Exchange!timers,
    Exchange!TypeOK, Current, Gated, Exchange!NotRestored,
    Exchange!KeepsTrying, Exchange!RefreshReads
<1> QED
  BY <1>1, <1>2, <1>3, <1>4

LEMMA ExchangeRefetchStartsStep ==
    ASSUME ConstantsOK, ExchangeInv, Exchange!RefetchStarts
    PROVE  ExchangeInv'
<1> USE DEF ExchangeInv, ConstantsOK, Exchange!Readers, Exchange!Steps
<1>1. Exchange!TypeOK'
  <2>1. /\ closed' \in BOOLEAN /\ recovery' \in BOOLEAN /\ active' \in BOOLEAN
        /\ queued' \in BOOLEAN /\ owed' \in BOOLEAN /\ skipFirstAuth' \in BOOLEAN
    BY Zenon DEF Exchange!RefetchStarts, Exchange!Idle, Exchange!held,
      Exchange!gate, Exchange!timers, Exchange!TypeOK
  <2>2. /\ book' \in 1..MaxBook /\ value' \in 0..MaxBook /\ epoch' \in Nat
        /\ state' \in {"loading", "connected", "reconnecting"}
        /\ (state' = "connected") = (value' # 0)
        /\ expiry' \in Nat /\ from' \in Nat /\ voids' \in Nat
        /\ pushes' \in 0..MaxPushes /\ faults' \in 0..ExchangeFaults
    BY SMT DEF Exchange!RefetchStarts, Exchange!Idle, Exchange!held,
      Exchange!gate, Exchange!timers, Exchange!TypeOK, Current
  <2>3. reader' \in [Exchange!Readers -> [pc : Exchange!Steps, epoch : Nat, v : 0..MaxBook,
                                         voids : Nat]]
    <3>1. CASE closed
      BY <3>1 DEF Exchange!RefetchStarts, Exchange!Idle, Exchange!TypeOK
    <3>2. CASE ~closed
      <4> DEFINE R == [pc : Exchange!Steps, epoch : Nat, v : 0..MaxBook, voids : Nat]
                 r == [Exchange!Idle EXCEPT !.pc = "ask"]
      <4>1. epoch \in Nat /\ reader \in [Exchange!Readers -> R]
        BY DEF Exchange!TypeOK
      <4>2. r \in R
        BY DEF Exchange!Idle
      <4> HIDE DEF r
      <4>3. [r EXCEPT !.epoch = epoch] \in R
        BY <4>1, <4>2
      <4>4. reader' = [reader EXCEPT !["refetch"] = [r EXCEPT !.epoch = epoch]]
        BY <3>2 DEF Exchange!RefetchStarts, r
      <4> QED
        BY <4>1, <4>3, <4>4
    <3> QED
      BY <3>1, <3>2
  <2> QED
    BY <2>1, <2>2, <2>3 DEF Exchange!TypeOK
<1>2. Current'
  BY DEF Exchange!RefetchStarts, Exchange!Idle, Exchange!held,
    Exchange!gate, Exchange!timers, Exchange!TypeOK, Current
<1>3. Gated'
  BY DEF Exchange!RefetchStarts, Exchange!Idle, Exchange!held,
    Exchange!gate, Exchange!timers, Exchange!TypeOK, Gated
<1>4. Exchange!NotRestored' /\ Exchange!KeepsTrying' /\ Exchange!RefreshReads'
  BY DEF Exchange!RefetchStarts, Exchange!Idle, Exchange!held,
    Exchange!gate, Exchange!timers, Exchange!TypeOK, Current, Gated,
    Exchange!NotRestored, Exchange!KeepsTrying, Exchange!RefreshReads
<1> QED
  BY <1>1, <1>2, <1>3, <1>4

LEMMA ExchangeRefetchEndsStep ==
    ASSUME ConstantsOK, ExchangeInv, Exchange!RefetchEnds
    PROVE  ExchangeInv'
<1> USE DEF ExchangeInv, ConstantsOK, Exchange!Readers, Exchange!Steps
<1>1. Exchange!TypeOK'
  BY DEF Exchange!RefetchEnds, Exchange!Idle, Exchange!held, Exchange!gate,
    Exchange!timers, Exchange!TypeOK
<1>2. Current'
  BY DEF Exchange!RefetchEnds, Exchange!Idle, Exchange!held, Exchange!gate,
    Exchange!timers, Exchange!TypeOK, Current
<1>3. Gated'
  BY DEF Exchange!RefetchEnds, Exchange!Idle, Exchange!held, Exchange!gate,
    Exchange!timers, Exchange!TypeOK, Gated
<1>4. Exchange!NotRestored' /\ Exchange!KeepsTrying' /\ Exchange!RefreshReads'
  BY DEF Exchange!RefetchEnds, Exchange!Idle, Exchange!held, Exchange!gate,
    Exchange!timers, Exchange!TypeOK, Current, Gated, Exchange!NotRestored,
    Exchange!KeepsTrying, Exchange!RefreshReads
<1> QED
  BY <1>1, <1>2, <1>3, <1>4

LEMMA ExchangeExpireStep ==
    ASSUME ConstantsOK, ExchangeInv, Exchange!Expire
    PROVE  ExchangeInv'
<1> USE DEF ExchangeInv, ConstantsOK, Exchange!Readers, Exchange!Steps
<1>1. Exchange!TypeOK'
  <2>1. /\ closed' \in BOOLEAN /\ recovery' \in BOOLEAN /\ active' \in BOOLEAN
        /\ queued' \in BOOLEAN /\ owed' \in BOOLEAN /\ skipFirstAuth' \in BOOLEAN
    BY Zenon DEF Exchange!Expire, Exchange!Fault,
      Exchange!InvalidateExchangeObservation, Exchange!InEpoch,
      Exchange!ScheduleRecovery, Exchange!held, Exchange!gate,
      Exchange!timers, Exchange!TypeOK
  <2>2. /\ book' \in 1..MaxBook /\ value' \in 0..MaxBook /\ epoch' \in Nat
        /\ state' \in {"loading", "connected", "reconnecting"}
        /\ (state' = "connected") = (value' # 0)
        /\ expiry' \in Nat /\ from' \in Nat /\ voids' \in Nat
        /\ pushes' \in 0..MaxPushes /\ faults' \in 0..ExchangeFaults
    BY SMT DEF Exchange!Expire, Exchange!Fault,
      Exchange!InvalidateExchangeObservation, Exchange!InEpoch,
      Exchange!ScheduleRecovery, Exchange!held, Exchange!gate,
      Exchange!timers, Exchange!TypeOK, Current
  <2>3. reader' \in [Exchange!Readers -> [pc : Exchange!Steps, epoch : Nat, v : 0..MaxBook,
                                         voids : Nat]]
  BY SMT DEF Exchange!Expire, Exchange!Fault,
      Exchange!InvalidateExchangeObservation, Exchange!InEpoch,
      Exchange!ScheduleRecovery, Exchange!held, Exchange!gate,
      Exchange!timers, Exchange!TypeOK
  <2> QED
    BY <2>1, <2>2, <2>3 DEF Exchange!TypeOK
<1>2. Current'
  BY DEF Exchange!Expire, Exchange!Fault,
    Exchange!InvalidateExchangeObservation, Exchange!InEpoch,
    Exchange!ScheduleRecovery, Exchange!held, Exchange!gate,
    Exchange!timers, Exchange!TypeOK, Current
<1>3. Gated'
  BY DEF Exchange!Expire, Exchange!Fault,
    Exchange!InvalidateExchangeObservation, Exchange!InEpoch,
    Exchange!ScheduleRecovery, Exchange!held, Exchange!gate,
    Exchange!timers, Exchange!TypeOK, Gated
<1>4. Exchange!NotRestored' /\ Exchange!KeepsTrying' /\ Exchange!RefreshReads'
  BY DEF Exchange!Expire, Exchange!Fault,
    Exchange!InvalidateExchangeObservation, Exchange!InEpoch,
    Exchange!ScheduleRecovery, Exchange!held, Exchange!gate,
    Exchange!timers, Exchange!TypeOK, Current, Gated, Exchange!NotRestored,
    Exchange!KeepsTrying, Exchange!RefreshReads
<1> QED
  BY <1>1, <1>2, <1>3, <1>4

LEMMA ExchangeRecoveryFiresStep ==
    ASSUME ConstantsOK, ExchangeInv, Exchange!RecoveryFires
    PROVE  ExchangeInv'
<1> USE DEF ExchangeInv, ConstantsOK, Exchange!Readers, Exchange!Steps
<1>1. Exchange!TypeOK'
  <2>1. /\ closed' \in BOOLEAN /\ recovery' \in BOOLEAN /\ active' \in BOOLEAN
        /\ queued' \in BOOLEAN /\ owed' \in BOOLEAN /\ skipFirstAuth' \in BOOLEAN
    BY Zenon DEF Exchange!RecoveryFires, Exchange!StartRefetch,
      Exchange!QueueRefetch, Exchange!held, Exchange!gate, Exchange!timers,
      Exchange!TypeOK
  <2>2. /\ book' \in 1..MaxBook /\ value' \in 0..MaxBook /\ epoch' \in Nat
        /\ state' \in {"loading", "connected", "reconnecting"}
        /\ (state' = "connected") = (value' # 0)
        /\ expiry' \in Nat /\ from' \in Nat /\ voids' \in Nat
        /\ pushes' \in 0..MaxPushes /\ faults' \in 0..ExchangeFaults
    BY SMT DEF Exchange!RecoveryFires, Exchange!StartRefetch,
      Exchange!QueueRefetch, Exchange!held, Exchange!gate, Exchange!timers,
      Exchange!TypeOK, Current
  <2>3. reader' \in [Exchange!Readers -> [pc : Exchange!Steps, epoch : Nat, v : 0..MaxBook,
                                         voids : Nat]]
  BY SMT DEF Exchange!RecoveryFires, Exchange!StartRefetch,
      Exchange!QueueRefetch, Exchange!held, Exchange!gate, Exchange!timers,
      Exchange!TypeOK
  <2> QED
    BY <2>1, <2>2, <2>3 DEF Exchange!TypeOK
<1>2. Current'
  BY DEF Exchange!RecoveryFires, Exchange!StartRefetch,
    Exchange!QueueRefetch, Exchange!held, Exchange!gate, Exchange!timers,
    Exchange!TypeOK, Current
<1>3. Gated'
  BY DEF Exchange!RecoveryFires, Exchange!StartRefetch,
    Exchange!QueueRefetch, Exchange!held, Exchange!gate, Exchange!timers,
    Exchange!TypeOK, Gated
<1>4. Exchange!NotRestored' /\ Exchange!KeepsTrying' /\ Exchange!RefreshReads'
  BY DEF Exchange!RecoveryFires, Exchange!StartRefetch,
    Exchange!QueueRefetch, Exchange!held, Exchange!gate, Exchange!timers,
    Exchange!TypeOK, Current, Gated, Exchange!NotRestored,
    Exchange!KeepsTrying, Exchange!RefreshReads
<1> QED
  BY <1>1, <1>2, <1>3, <1>4

LEMMA ExchangeCloseStep ==
    ASSUME ConstantsOK, ExchangeInv, Exchange!Close
    PROVE  ExchangeInv'
<1> USE DEF ExchangeInv, ConstantsOK, Exchange!Readers, Exchange!Steps
<1>1. Exchange!TypeOK'
  BY DEF Exchange!Close, Exchange!held, Exchange!gate, Exchange!timers,
    Exchange!TypeOK
<1>2. Current'
  BY DEF Exchange!Close, Exchange!held, Exchange!gate, Exchange!timers,
    Exchange!TypeOK, Current
<1>3. Gated'
  BY DEF Exchange!Close, Exchange!held, Exchange!gate, Exchange!timers,
    Exchange!TypeOK, Gated
<1>4. Exchange!NotRestored' /\ Exchange!KeepsTrying' /\ Exchange!RefreshReads'
  BY DEF Exchange!Close, Exchange!held, Exchange!gate, Exchange!timers,
    Exchange!TypeOK, Current, Gated, Exchange!NotRestored,
    Exchange!KeepsTrying, Exchange!RefreshReads
<1> QED
  BY <1>1, <1>2, <1>3, <1>4

LEMMA ExchangeInitInv == ConstantsOK /\ Exchange!Init => ExchangeInv
<1> SUFFICES ASSUME ConstantsOK, Exchange!Init PROVE ExchangeInv
  OBVIOUS
<1> USE DEF ConstantsOK, Exchange!Readers, Exchange!Steps
<1>1. [Exchange!Idle EXCEPT !.pc = "ask", !.epoch = 1]
        \in [pc : {"ask"}, epoch : {1}, v : {0}, voids : {0}]
  <2> DEFINE r == [Exchange!Idle EXCEPT !.pc = "ask"]
  <2>1. r \in [pc : {"ask"}, epoch : {0}, v : {0}, voids : {0}]
    BY DEF Exchange!Idle
  <2> HIDE DEF r
  <2>2. [r EXCEPT !.epoch = 1] \in [pc : {"ask"}, epoch : {1}, v : {0}, voids : {0}]
    BY <2>1
  <2> QED
    BY <2>2 DEF r
<1>2. \A g \in Exchange!Readers :
        /\ reader[g] \in [pc : Exchange!Steps, epoch : Nat, v : 0..MaxBook, voids : Nat]
        /\ reader[g].epoch <= 1 /\ reader[g].pc \in {"idle", "ask"}
        /\ g = "refetch" => reader[g].pc = "idle"
  BY <1>1 DEF Exchange!Init, Exchange!Idle
<1>3. Exchange!TypeOK
  <2>1. /\ closed \in BOOLEAN /\ recovery \in BOOLEAN /\ active \in BOOLEAN
        /\ queued \in BOOLEAN /\ owed \in BOOLEAN /\ skipFirstAuth \in BOOLEAN
    BY Zenon DEF Exchange!Init
  <2>2. reader \in [Exchange!Readers
                     -> [pc : Exchange!Steps, epoch : Nat, v : 0..MaxBook, voids : Nat]]
    BY <1>2 DEF Exchange!Init
  <2> QED
    BY <2>1, <2>2 DEF Exchange!Init, Exchange!TypeOK
<1>4. Current /\ Gated
  BY <1>2 DEF Exchange!Init, Current, Gated
<1> QED
  BY <1>3, <1>4 DEF Exchange!Init, ExchangeInv, Exchange!NotRestored, Exchange!KeepsTrying,
    Exchange!RefreshReads

LEMMA ExchangeKept ==
    ASSUME ConstantsOK, ExchangeInv, [Exchange!Next]_(Exchange!vars)
    PROVE  ExchangeInv'
<1>1. CASE UNCHANGED Exchange!vars
  BY <1>1 DEF Exchange!vars, Exchange!held, Exchange!gate, Exchange!timers, ExchangeInv,
    Exchange!TypeOK, Current, Gated, Exchange!NotRestored, Exchange!KeepsTrying,
    Exchange!RefreshReads
<1> QED
  BY <1>1, ExchangeChangeStep, ExchangeOnExchangeNotificationStep, ExchangeUnavailableStep,
     ExchangeFetchStep, ExchangeFetchFailsStep, ExchangeObserveStep, ExchangeRefreshStep,
     ExchangeAuthenticatedStep, ExchangeRefetchStartsStep, ExchangeRefetchEndsStep,
     ExchangeExpireStep, ExchangeRecoveryFiresStep, ExchangeCloseStep DEF Exchange!Next

(* A state is replaced by none, or by one that is not older: EmitExchange- *)
(* Observation is the only step that puts one there.                       *)
LEMMA ExchangeOrdered ==
    ASSUME ConstantsOK, ExchangeInv, [Exchange!Next]_(Exchange!vars)
    PROVE  Exchange!NotOlder
<1> USE DEF Exchange!NotOlder
<1>1. value \in Nat /\ \A g \in Exchange!Readers : reader[g].v \in Nat
  BY DEF ExchangeInv, Exchange!TypeOK, ConstantsOK
<1>2. ASSUME NEW g \in Exchange!Readers, NEW life \in {"unbounded", "until", "past"},
             Exchange!Observe(g, life)
      PROVE  Exchange!NotOlder
  BY <1>1, <1>2 DEF Exchange!Observe, Exchange!EmitExchangeObservation,
    Exchange!ObservedBefore, Exchange!held
<1>3. CASE Exchange!Unavailable \/ Exchange!Expire
  BY <1>1, <1>3 DEF Exchange!Unavailable, Exchange!Expire,
    Exchange!InvalidateExchangeObservation, Exchange!held
<1>4. CASE UNCHANGED value
  BY <1>1, <1>4
<1> QED
  BY <1>2, <1>3, <1>4 DEF Exchange!Next, Exchange!vars, Exchange!held, Exchange!Change,
    Exchange!OnExchangeNotification, Exchange!Fetch, Exchange!FetchFails, Exchange!Refresh,
    Exchange!Authenticated, Exchange!RefetchStarts, Exchange!RefetchEnds,
    Exchange!RecoveryFires, Exchange!Close

(* The steps of the other streams. *)
LEMMA ExchangeQuiet ==
    stream' = "exchange" /\ [Next]_vars => stream = "exchange" /\ [Exchange!Next]_(Exchange!vars)
BY DEF Next, vars, FillsNext, ExchangeNext, ProjectionNext, exchangeOnly, Exchange!vars,
  Exchange!held, Exchange!gate, Exchange!timers

LEMMA ExchangeInductive == Spec => [](stream = "exchange" => ExchangeInv)
<1> DEFINE Inv == stream = "exchange" => ExchangeInv
<1>1. Init => Inv
  BY ConstantsOK, ExchangeInitInv DEF Init
<1>2. Inv /\ [Next]_vars => Inv'
  BY ConstantsOK, ExchangeQuiet, ExchangeKept
<1> QED
  BY <1>1, <1>2, PTL DEF Spec

(* emitExchangeObservation and invalidateExchangeObservation, for any      *)
(* pushes, reads, expiries and calls of Refresh: a read that was served    *)
(* before a withdrawal does not undo it, a stream that lost its            *)
(* observation has its recovery timer armed, and no call of Refresh is     *)
(* forgotten by the gate.                                                  *)
THEOREM ObservationsAreKept == Spec => []ObservationKept
<1>1. (stream = "exchange" => ExchangeInv) => ObservationKept
  BY DEF ExchangeInv, ObservationKept
<1> QED
  BY <1>1, ExchangeInductive, PTL

(* The same of the order of observations: whatever resolves late, and in   *)
(* whatever order, the stream never goes back to an older ledger.          *)
THEOREM NeverOlder == Spec => Monotonic
<1>1. (stream = "exchange" => ExchangeInv) /\ [Next]_vars
        => [stream = "exchange" => Exchange!NotOlder]_vars
  <2> SUFFICES ASSUME stream = "exchange" => ExchangeInv, [Next]_vars, stream = "exchange"
               PROVE  Exchange!NotOlder \/ UNCHANGED vars
    OBVIOUS
  <2>1. CASE UNCHANGED vars
    BY <2>1
  <2>2. CASE ~UNCHANGED vars
    <3>1. stream' = "exchange"
      BY <2>2 DEF Next, FillsNext, ExchangeNext, ProjectionNext
    <3> QED
      BY <3>1, ConstantsOK, ExchangeQuiet, ExchangeOrdered
  <2> QED
    BY <2>1, <2>2
<1> QED
  BY <1>1, ExchangeInductive, PTL DEF Spec, Monotonic

-----------------------------------------------------------------------------
(* RealmFills.                                                             *)

(* The fills that are with the consumer, or set apart.                     *)
Had == (got \cup Fills!OnTheWay \cup seam \cup cut) \cap Fills!Fills

HadTo(c) == \A f \in Fills!Fills : floor < f /\ f <= c => f \in Had

(* f is still to come on the socket, or the next event after it shows that *)
(* it is not.                                                              *)
Foretold(f) ==
    \/ \E i \in 1..Len(wire) :
          /\ wire[i].fill = f \/ (wire[i].gap /\ f <= wire[i].fill)
          /\ \A j \in 1..(i - 1) : wire[j].fill < f
    \/ lossy /\ \A j \in 1..Len(wire) : wire[j].fill < f

(* What was committed after h is not forgotten. A socket that is lost is   *)
(* followed by an authentication, which queues a replay.                   *)
NotedFrom(h) ==
    up => \A f \in Fills!Fills : floor < f /\ h < f /\ f <= log => f \in Had \/ Foretold(f)

(* Where the replay loop and the consumer's callbacks are.                 *)
Placed ==
    /\ started => open
    /\ started <=> rpc # "off"
    /\ replaying <=> rpc \in {"list", "page", "end"}
    /\ \A g \in {"live", "replay"} : emitting[g].fill = 0 => emitting[g] = Fills!Nothing
    /\ registered \/ wire # <<>> => up
    /\ floor <= log /\ \A i \in 1..Len(wire) : wire[i].fill <= log

(* No position is past a fill the consumer has not had.                    *)
Backed ==
    /\ HadTo(persisted) /\ HadTo(cursor) /\ HadTo(local) /\ HadTo(at)
    /\ \A g \in {"live", "replay"} : HadTo(emitting[g].cursor)
    /\ \A i \in 1..Len(seen) : seen[i] \in Had

(* Unless a replay is queued: what the last one did not list is noted.     *)
CaughtUp ==
    started /\ ~replayQueued =>
        /\ ~replaying => NotedFrom(0)
        /\ rpc = "end" => NotedFrom(local)
        /\ rpc = "page" /\ to - local < PageLimit => NotedFrom(to)

FillsInv == Fills!TypeOK /\ Placed /\ Backed /\ CaughtUp

-----------------------------------------------------------------------------
(* HadTo and NotedFrom after a step, of a position before it.              *)
HadNext(c) == \A f \in Fills!Fills : floor' < f /\ f <= c => f \in Had'

NotedNext(h) ==
    up' => \A f \in Fills!Fills :
              floor' < f /\ h < f /\ f <= log' => f \in Had' \/ Foretold(f)'

(* What holds of a position goes on holding while no fill is forgotten.    *)
LEMMA FillsHadKept ==
    ASSUME ConstantsOK, Fills!TypeOK, Fills!TypeOK', Had \subseteq Had', floor <= floor'
    PROVE  \A c \in Fills!Cursors : HadTo(c) => HadNext(c)
<1>1. floor \in Nat /\ floor' \in Nat /\ \A f \in Fills!Fills : f \in Nat
  BY DEF Fills!TypeOK, Fills!Fills, Fills!Cursors, ConstantsOK
<1>2. \A f \in Fills!Fills : floor' < f => floor < f
  BY <1>1
<1> QED
  BY <1>2 DEF HadTo, HadNext

LEMMA FillsEvents ==
    ASSUME ConstantsOK, Fills!TypeOK
    PROVE  /\ Len(wire) \in Nat
           /\ \A i \in 1..Len(wire) :
                 /\ wire[i] \in [fill : Fills!Fills, stamped : BOOLEAN, gap : BOOLEAN]
                 /\ wire[i].fill \in Nat
           /\ Len(seen) \in Nat /\ \A i \in 1..Len(seen) : seen[i] \in Fills!Fills
<1>1. Len(wire) \in Nat /\ Len(seen) \in Nat /\ \A i \in 1..Len(seen) : seen[i] \in Fills!Fills
  BY DEF Fills!TypeOK
<1>2. \A i \in 1..Len(wire) :
         wire[i] \in [fill : Fills!Fills, stamped : BOOLEAN, gap : BOOLEAN]
  <2> DEFINE Event == [fill : Fills!Fills, stamped : BOOLEAN, gap : BOOLEAN]
  <2>1. wire \in Seq(Event)
    BY DEF Fills!TypeOK
  <2> HIDE DEF Event
  <2>2. \A i \in 1..Len(wire) : wire[i] \in Event
    BY <2>1
  <2> QED
    BY <2>2 DEF Event
<1>3. \A f \in Fills!Fills : f \in Nat
  BY DEF Fills!Fills, ConstantsOK
<1> QED
  BY <1>1, <1>2, <1>3

LEMMA FillsNotedKept ==
    ASSUME ConstantsOK, Fills!TypeOK, Fills!TypeOK', Had \subseteq Had', floor <= floor',
           UNCHANGED <<wire, lossy, up, log>>
    PROVE  \A h \in Fills!Cursors : NotedFrom(h) => NotedNext(h)
<1>1. floor \in Nat /\ floor' \in Nat /\ \A f \in Fills!Fills : f \in Nat
  BY DEF Fills!TypeOK, Fills!Fills, Fills!Cursors, ConstantsOK
<1>2. \A f \in Fills!Fills : floor' < f => floor < f
  BY <1>1
<1>3. \A f \in Fills!Fills : Foretold(f) => Foretold(f)'
  BY DEF Foretold
<1> QED
  BY <1>2, <1>3 DEF NotedFrom, NotedNext

LEMMA FillsCommitLostStep ==
    ASSUME ConstantsOK, FillsInv, Fills!CommitLost
    PROVE  FillsInv'
<1> USE DEF FillsInv, ConstantsOK, Fills!Fills, Fills!Cursors, Fills!Nothing
<1>1. Fills!TypeOK'
  <2>1. /\ up' \in BOOLEAN /\ registered' \in BOOLEAN /\ lossy' \in BOOLEAN /\ open' \in BOOLEAN
        /\ started' \in BOOLEAN /\ replaying' \in BOOLEAN /\ replayQueued' \in BOOLEAN
        /\ replayCh' \in BOOLEAN
    BY Zenon DEF Fills!CommitLost, Fills!Fault, Fills!server, Fills!stream,
      Fills!loop, Fills!consumer, Fills!ghosts, Fills!TypeOK
  <2> QED
    BY <2>1, SMT DEF Fills!CommitLost, Fills!Fault, Fills!server,
      Fills!stream, Fills!loop, Fills!consumer, Fills!ghosts, Fills!TypeOK
<1>2. Placed'
  <2>1. log \in Nat /\ log' = log + 1 /\ floor \in Nat
    BY DEF Fills!CommitLost, Fills!TypeOK
  <2>2. UNCHANGED <<up, registered, wire, open, started, rpc, replaying, emitting, floor>>
    BY DEF Fills!CommitLost, Fills!stream, Fills!loop, Fills!consumer
  <2>3. floor <= log' /\ \A i \in 1..Len(wire) : wire[i].fill <= log'
    BY <2>1, FillsEvents DEF Placed
  <2> QED
    BY <2>2, <2>3 DEF Placed
<1>3. Had \subseteq Had' /\ floor <= floor'
  BY DEF Fills!CommitLost, Fills!Fault, Fills!server, Fills!stream,
    Fills!loop, Fills!consumer, Fills!ghosts, Fills!TypeOK, Had,
    Fills!OnTheWay
<1>4. Backed'
  <2>1. \A c \in Fills!Cursors : HadTo(c) => HadNext(c)
    BY <1>1, <1>3, FillsHadKept
  <2>2. /\ HadNext(persisted') /\ HadNext(cursor') /\ HadNext(local') /\ HadNext(at')
        /\ \A g \in {"live", "replay"} : HadNext(emitting'[g].cursor)
        /\ \A i \in 1..Len(seen') : seen'[i] \in Had'
    BY <1>3, <2>1 DEF Fills!CommitLost, Fills!Fault, Fills!server,
      Fills!stream, Fills!loop, Fills!consumer, Fills!ghosts, Fills!TypeOK,
      Backed
  <2> QED
    BY <2>2 DEF Backed, HadTo, HadNext
<1>5. CaughtUp'
  <2>1. log \in Nat /\ log' = log + 1
    BY DEF Fills!CommitLost, Fills!TypeOK
  <2>2. ASSUME NEW f \in Fills!Fills, f = log + 1 PROVE Foretold(f)'
    BY <2>1, <2>2, FillsEvents DEF Fills!CommitLost, Foretold, Placed
  <2>3. \A f \in Fills!Fills : Foretold(f) => Foretold(f)'
    BY DEF Fills!CommitLost, Foretold
  <2>4. \A h \in Fills!Cursors : NotedFrom(h) => NotedNext(h)
    <3>1. floor' = floor /\ up' = up /\ \A f \in Fills!Fills : f \in Nat
      BY DEF Fills!CommitLost, Fills!consumer
    <3>2. \A f \in Fills!Fills : f <= log' => f <= log \/ f = log + 1
      BY <2>1, <3>1
    <3>3. ASSUME NEW h \in Fills!Cursors, NotedFrom(h), up', NEW f \in Fills!Fills, floor' < f,
                 h < f, f <= log'
          PROVE  f \in Had' \/ Foretold(f)'
      BY <1>3, <2>2, <2>3, <3>1, <3>2, <3>3 DEF NotedFrom
    <3> QED
      BY <3>3 DEF NotedNext
  <2>5. started' /\ ~replayQueued' =>
          /\ ~replaying' => NotedNext(0)
          /\ rpc' = "end" => NotedNext(local')
          /\ rpc' = "page" /\ to' - local' < PageLimit => NotedNext(to')
    BY <2>4 DEF Fills!CommitLost, Fills!stream, Fills!loop, Fills!TypeOK, CaughtUp
  <2> QED
    BY <2>5 DEF CaughtUp, NotedFrom, NotedNext
<1> QED
  BY <1>1, <1>2, <1>4, <1>5

LEMMA FillsRegisterStep ==
    ASSUME ConstantsOK, FillsInv, Fills!Register
    PROVE  FillsInv'
<1> USE DEF FillsInv, ConstantsOK, Fills!Fills, Fills!Cursors, Fills!Nothing
<1>1. Fills!TypeOK'
  <2>1. /\ up' \in BOOLEAN /\ registered' \in BOOLEAN /\ lossy' \in BOOLEAN /\ open' \in BOOLEAN
        /\ started' \in BOOLEAN /\ replaying' \in BOOLEAN /\ replayQueued' \in BOOLEAN
        /\ replayCh' \in BOOLEAN
    BY Zenon DEF Fills!Register, Fills!server, Fills!stream, Fills!loop,
      Fills!consumer, Fills!ghosts, Fills!TypeOK
  <2> QED
    BY <2>1, SMT DEF Fills!Register, Fills!server, Fills!stream, Fills!loop,
      Fills!consumer, Fills!ghosts, Fills!TypeOK
<1>2. Placed'
  BY DEF Fills!Register, Fills!server, Fills!stream, Fills!loop,
    Fills!consumer, Fills!ghosts, Fills!TypeOK, Placed
<1>3. Had \subseteq Had' /\ floor <= floor'
  BY DEF Fills!Register, Fills!server, Fills!stream, Fills!loop,
    Fills!consumer, Fills!ghosts, Fills!TypeOK, Had, Fills!OnTheWay
<1>4. Backed'
  <2>1. \A c \in Fills!Cursors : HadTo(c) => HadNext(c)
    BY <1>1, <1>3, FillsHadKept
  <2>2. /\ HadNext(persisted') /\ HadNext(cursor') /\ HadNext(local') /\ HadNext(at')
        /\ \A g \in {"live", "replay"} : HadNext(emitting'[g].cursor)
        /\ \A i \in 1..Len(seen') : seen'[i] \in Had'
    BY <1>3, <2>1 DEF Fills!Register, Fills!server, Fills!stream, Fills!loop,
      Fills!consumer, Fills!ghosts, Fills!TypeOK, Backed
  <2> QED
    BY <2>2 DEF Backed, HadTo, HadNext
<1>5. CaughtUp'
  <2>1. \A h \in Fills!Cursors : NotedFrom(h) => NotedNext(h)
    BY <1>1, <1>3, FillsNotedKept DEF Fills!Register, Fills!server,
      Fills!stream, Fills!loop, Fills!consumer, Fills!ghosts
  <2>2. started' /\ ~replayQueued' =>
          /\ ~replaying' => NotedNext(0)
          /\ rpc' = "end" => NotedNext(local')
          /\ rpc' = "page" /\ to' - local' < PageLimit => NotedNext(to')
    <3>1. UNCHANGED <<started, replayQueued, replaying, rpc, local, to>>
      BY DEF Fills!Register, Fills!stream, Fills!loop
    <3>2. local \in Fills!Cursors /\ to \in Fills!Cursors /\ 0 \in Fills!Cursors
      BY DEF Fills!TypeOK
    <3> QED
      BY <2>1, <3>1, <3>2 DEF CaughtUp
  <2> QED
    BY <2>2 DEF CaughtUp, NotedFrom, NotedNext
<1> QED
  BY <1>1, <1>2, <1>4, <1>5

LEMMA FillsDropStep ==
    ASSUME ConstantsOK, FillsInv, Fills!Drop
    PROVE  FillsInv'
<1> USE DEF FillsInv, ConstantsOK, Fills!Fills, Fills!Cursors, Fills!Nothing
<1>1. Fills!TypeOK'
  <2>1. /\ up' \in BOOLEAN /\ registered' \in BOOLEAN /\ lossy' \in BOOLEAN /\ open' \in BOOLEAN
        /\ started' \in BOOLEAN /\ replaying' \in BOOLEAN /\ replayQueued' \in BOOLEAN
        /\ replayCh' \in BOOLEAN
    BY Zenon DEF Fills!Drop, Fills!Fault, Fills!server, Fills!stream,
      Fills!loop, Fills!consumer, Fills!ghosts, Fills!TypeOK
  <2> QED
    BY <2>1, SMT DEF Fills!Drop, Fills!Fault, Fills!server, Fills!stream,
      Fills!loop, Fills!consumer, Fills!ghosts, Fills!TypeOK
<1>2. Placed'
  BY DEF Fills!Drop, Fills!Fault, Fills!server, Fills!stream, Fills!loop,
    Fills!consumer, Fills!ghosts, Fills!TypeOK, Placed
<1>3. Had \subseteq Had' /\ floor <= floor'
  BY DEF Fills!Drop, Fills!Fault, Fills!server, Fills!stream, Fills!loop,
    Fills!consumer, Fills!ghosts, Fills!TypeOK, Had, Fills!OnTheWay
<1>4. Backed'
  <2>1. \A c \in Fills!Cursors : HadTo(c) => HadNext(c)
    BY <1>1, <1>3, FillsHadKept
  <2>2. /\ HadNext(persisted') /\ HadNext(cursor') /\ HadNext(local') /\ HadNext(at')
        /\ \A g \in {"live", "replay"} : HadNext(emitting'[g].cursor)
        /\ \A i \in 1..Len(seen') : seen'[i] \in Had'
    BY <1>3, <2>1 DEF Fills!Drop, Fills!Fault, Fills!server, Fills!stream,
      Fills!loop, Fills!consumer, Fills!ghosts, Fills!TypeOK, Backed
  <2> QED
    BY <2>2 DEF Backed, HadTo, HadNext
<1>5. CaughtUp'
  BY DEF Fills!Drop, Fills!Fault, Fills!server, Fills!stream, Fills!loop,
    Fills!consumer, Fills!ghosts, Placed, CaughtUp, NotedFrom
<1> QED
  BY <1>1, <1>2, <1>4, <1>5

LEMMA FillsAuthenticateStep ==
    ASSUME ConstantsOK, FillsInv, Fills!Authenticate
    PROVE  FillsInv'
<1> USE DEF FillsInv, ConstantsOK, Fills!Fills, Fills!Cursors, Fills!Nothing
<1>1. Fills!TypeOK'
  <2>1. /\ up' \in BOOLEAN /\ registered' \in BOOLEAN /\ lossy' \in BOOLEAN /\ open' \in BOOLEAN
        /\ started' \in BOOLEAN /\ replaying' \in BOOLEAN /\ replayQueued' \in BOOLEAN
        /\ replayCh' \in BOOLEAN
    BY Zenon DEF Fills!Authenticate, Fills!server, Fills!stream, Fills!loop,
      Fills!consumer, Fills!ghosts, Fills!TypeOK
  <2> QED
    BY <2>1, SMT DEF Fills!Authenticate, Fills!server, Fills!stream,
      Fills!loop, Fills!consumer, Fills!ghosts, Fills!TypeOK
<1>2. Placed'
  BY DEF Fills!Authenticate, Fills!server, Fills!stream, Fills!loop,
    Fills!consumer, Fills!ghosts, Fills!TypeOK, Placed
<1>3. Had \subseteq Had' /\ floor <= floor'
  BY DEF Fills!Authenticate, Fills!server, Fills!stream, Fills!loop,
    Fills!consumer, Fills!ghosts, Fills!TypeOK, Had, Fills!OnTheWay
<1>4. Backed'
  <2>1. \A c \in Fills!Cursors : HadTo(c) => HadNext(c)
    BY <1>1, <1>3, FillsHadKept
  <2>2. /\ HadNext(persisted') /\ HadNext(cursor') /\ HadNext(local') /\ HadNext(at')
        /\ \A g \in {"live", "replay"} : HadNext(emitting'[g].cursor)
        /\ \A i \in 1..Len(seen') : seen'[i] \in Had'
    BY <1>3, <2>1 DEF Fills!Authenticate, Fills!server, Fills!stream,
      Fills!loop, Fills!consumer, Fills!ghosts, Fills!TypeOK, Backed
  <2> QED
    BY <2>2 DEF Backed, HadTo, HadNext
<1>5. CaughtUp'
  BY DEF Fills!Authenticate, Fills!server, Fills!stream, Fills!loop,
    Fills!consumer, Fills!ghosts, Placed, CaughtUp, NotedFrom
<1> QED
  BY <1>1, <1>2, <1>4, <1>5

LEMMA FillsWatchRealmFillsStep ==
    ASSUME ConstantsOK, FillsInv, Fills!WatchRealmFills
    PROVE  FillsInv'
<1> USE DEF FillsInv, ConstantsOK, Fills!Fills, Fills!Cursors, Fills!Nothing
<1>1. Fills!TypeOK'
  <2>1. /\ up' \in BOOLEAN /\ registered' \in BOOLEAN /\ lossy' \in BOOLEAN /\ open' \in BOOLEAN
        /\ started' \in BOOLEAN /\ replaying' \in BOOLEAN /\ replayQueued' \in BOOLEAN
        /\ replayCh' \in BOOLEAN
    BY Zenon DEF Fills!WatchRealmFills, Fills!server, Fills!stream,
      Fills!loop, Fills!consumer, Fills!ghosts, Fills!TypeOK
  <2> QED
    BY <2>1, SMTT(30) DEF Fills!WatchRealmFills, Fills!server, Fills!stream,
      Fills!loop, Fills!consumer, Fills!ghosts, Fills!TypeOK
<1>2. Placed'
  BY DEF Fills!WatchRealmFills, Fills!server, Fills!stream, Fills!loop,
    Fills!consumer, Fills!ghosts, Fills!TypeOK, Placed
<1>3. Had \subseteq Had' /\ floor <= floor'
  BY DEF Fills!WatchRealmFills, Fills!consumer, Fills!ghosts, Fills!TypeOK,
    Placed, Had, Fills!OnTheWay
<1>4. Backed'
  <2>1. \A c \in Fills!Cursors : HadTo(c) => HadNext(c)
    BY <1>1, <1>3, FillsHadKept
  <2>2. /\ HadNext(persisted') /\ HadNext(cursor') /\ HadNext(local') /\ HadNext(at')
        /\ \A g \in {"live", "replay"} : HadNext(emitting'[g].cursor)
        /\ \A i \in 1..Len(seen') : seen'[i] \in Had'
    <3>1. CASE cursor' = persisted /\ UNCHANGED <<persisted, floor>>
      BY <1>3, <2>1, <3>1 DEF Fills!WatchRealmFills, Fills!loop, Fills!TypeOK, Backed
    <3>2. CASE cursor' = log /\ persisted' = log /\ floor' = log
      <4>1. HadNext(log)
        BY <3>2 DEF Fills!TypeOK, HadNext
      <4> QED
        BY <1>3, <2>1, <3>2, <4>1 DEF Fills!WatchRealmFills, Fills!loop, Fills!TypeOK, Backed
    <3> QED
      BY <3>1, <3>2 DEF Fills!WatchRealmFills
  <2> QED
    BY <2>2 DEF Backed, HadTo, HadNext
<1>5. CaughtUp'
  BY DEF Fills!WatchRealmFills, Fills!stream, Fills!loop, Placed, CaughtUp
<1> QED
  BY <1>1, <1>2, <1>4, <1>5

LEMMA FillsStartStep ==
    ASSUME ConstantsOK, FillsInv, Fills!Start
    PROVE  FillsInv'
<1> USE DEF FillsInv, ConstantsOK, Fills!Fills, Fills!Cursors, Fills!Nothing
<1>1. Fills!TypeOK'
  <2>1. /\ up' \in BOOLEAN /\ registered' \in BOOLEAN /\ lossy' \in BOOLEAN /\ open' \in BOOLEAN
        /\ started' \in BOOLEAN /\ replaying' \in BOOLEAN /\ replayQueued' \in BOOLEAN
        /\ replayCh' \in BOOLEAN
    BY Zenon DEF Fills!Start, Fills!server, Fills!stream, Fills!loop,
      Fills!consumer, Fills!ghosts, Fills!TypeOK
  <2> QED
    BY <2>1, SMT DEF Fills!Start, Fills!server, Fills!stream, Fills!loop,
      Fills!consumer, Fills!ghosts, Fills!TypeOK
<1>2. Placed'
  BY DEF Fills!Start, Fills!server, Fills!stream, Fills!loop, Fills!consumer,
    Fills!ghosts, Fills!TypeOK, Placed
<1>3. Had \subseteq Had' /\ floor <= floor'
  BY DEF Fills!Start, Fills!server, Fills!stream, Fills!loop, Fills!consumer,
    Fills!ghosts, Fills!TypeOK, Had, Fills!OnTheWay
<1>4. Backed'
  <2>1. \A c \in Fills!Cursors : HadTo(c) => HadNext(c)
    BY <1>1, <1>3, FillsHadKept
  <2>2. /\ HadNext(persisted') /\ HadNext(cursor') /\ HadNext(local') /\ HadNext(at')
        /\ \A g \in {"live", "replay"} : HadNext(emitting'[g].cursor)
        /\ \A i \in 1..Len(seen') : seen'[i] \in Had'
    BY <1>3, <2>1 DEF Fills!Start, Fills!server, Fills!stream, Fills!loop,
      Fills!consumer, Fills!ghosts, Fills!TypeOK, Backed
  <2> QED
    BY <2>2 DEF Backed, HadTo, HadNext
<1>5. CaughtUp'
  BY DEF Fills!Start, CaughtUp
<1> QED
  BY <1>1, <1>2, <1>4, <1>5

LEMMA FillsCrashStep ==
    ASSUME ConstantsOK, FillsInv, Fills!Crash
    PROVE  FillsInv'
<1> USE DEF FillsInv, ConstantsOK, Fills!Fills, Fills!Cursors, Fills!Nothing
<1>0. {emitting["live"].fill, emitting["replay"].fill} \ {0} \subseteq 1..MaxFills
  <2>1. emitting["live"].fill \in 0..MaxFills /\ emitting["replay"].fill \in 0..MaxFills
    BY DEF Fills!TypeOK
  <2> QED
    BY <2>1
<1>1. Fills!TypeOK'
  <2>1. /\ up' \in BOOLEAN /\ registered' \in BOOLEAN /\ lossy' \in BOOLEAN /\ open' \in BOOLEAN
        /\ started' \in BOOLEAN /\ replaying' \in BOOLEAN /\ replayQueued' \in BOOLEAN
        /\ replayCh' \in BOOLEAN
    BY Zenon DEF Fills!Crash, Fills!Fault, Fills!server, Fills!stream,
      Fills!loop, Fills!consumer, Fills!ghosts, Fills!TypeOK
  <2>2. wire' \in Seq([fill : Fills!Fills, stamped : BOOLEAN, gap : BOOLEAN])
    BY DEF Fills!Crash, Fills!Fault, Fills!server, Fills!stream, Fills!loop,
      Fills!consumer, Fills!ghosts, Fills!TypeOK
  <2>3. /\ log' \in Fills!Cursors /\ cursor' \in Fills!Cursors
        /\ state' \in {"loading", "connected", "reconnecting"}
        /\ rpc' \in {"off", "idle", "list", "page", "end"}
        /\ local' \in Fills!Cursors /\ at' \in Fills!Cursors /\ to' \in Fills!Cursors
        /\ persisted' \in Fills!Cursors /\ floor' \in Fills!Cursors
        /\ faults' \in 0..FillFaults
    BY <1>0, SMT DEF Fills!Crash, Fills!Fault, Fills!server, Fills!stream,
      Fills!loop, Fills!consumer, Fills!ghosts, Fills!TypeOK
  <2>4. emitting' \in [{"live", "replay"} -> [fill : Fills!Cursors, cursor : Fills!Cursors]]
    BY DEF Fills!Crash, Fills!Fault, Fills!server, Fills!stream, Fills!loop,
      Fills!consumer, Fills!ghosts, Fills!TypeOK
  <2>5. seen' \in Seq(Fills!Fills) /\ Len(seen') <= Window
    BY DEF Fills!Crash, Fills!Fault, Fills!server, Fills!stream, Fills!loop,
      Fills!consumer, Fills!ghosts, Fills!TypeOK
  <2>6. got' \in SUBSET Fills!Fills /\ seam' \in SUBSET Fills!Fills /\ cut' \in SUBSET Fills!Fills
    BY <1>0 DEF Fills!Crash, Fills!Fault, Fills!server, Fills!stream,
      Fills!loop, Fills!consumer, Fills!ghosts, Fills!TypeOK
  <2> QED
    BY <2>1, <2>2, <2>3, <2>4, <2>5, <2>6 DEF Fills!TypeOK
<1>2. Placed'
  BY <1>0 DEF Fills!Crash, Fills!Fault, Fills!server, Fills!stream,
    Fills!loop, Fills!consumer, Fills!ghosts, Fills!TypeOK, Placed
<1>3. Had \subseteq Had' /\ floor <= floor'
  BY DEF Fills!Crash, Fills!Fault, Fills!server, Fills!stream, Fills!loop,
    Fills!consumer, Fills!ghosts, Fills!TypeOK, Had, Fills!OnTheWay
<1>4. Backed'
  <2>1. \A c \in Fills!Cursors : HadTo(c) => HadNext(c)
    BY <1>1, <1>3, FillsHadKept
  <2>2. /\ HadNext(persisted') /\ HadNext(cursor') /\ HadNext(local') /\ HadNext(at')
        /\ \A g \in {"live", "replay"} : HadNext(emitting'[g].cursor)
        /\ \A i \in 1..Len(seen') : seen'[i] \in Had'
    <3>1. HadNext(0) /\ Len(seen') = 0
      BY DEF Fills!Crash, Fills!TypeOK, HadNext
    <3>2. persisted' = persisted /\ cursor' = 0 /\ local' = 0 /\ at' = 0
          /\ \A g \in {"live", "replay"} : emitting'[g].cursor = 0
      BY DEF Fills!Crash, Fills!consumer
    <3> QED
      BY <2>1, <3>1, <3>2, SMTT(30) DEF Fills!TypeOK, Backed
  <2> QED
    BY <2>2 DEF Backed, HadTo, HadNext
<1>5. CaughtUp'
  BY DEF Fills!Crash, CaughtUp
<1> QED
  BY <1>1, <1>2, <1>4, <1>5

LEMMA FillsEmitStep ==
    ASSUME ConstantsOK, FillsInv, NEW g \in {"live", "replay"}, Fills!Emit(g)
    PROVE  FillsInv'
<1> USE DEF FillsInv, ConstantsOK, Fills!Fills, Fills!Cursors, Fills!Nothing
<1>0. emitting[g].fill \in 1..MaxFills /\ emitting[g].cursor \in 0..MaxFills
  BY DEF Fills!Emit, Fills!TypeOK, Placed
<1>1. Fills!TypeOK'
  <2>1. /\ up' \in BOOLEAN /\ registered' \in BOOLEAN /\ lossy' \in BOOLEAN /\ open' \in BOOLEAN
        /\ started' \in BOOLEAN /\ replaying' \in BOOLEAN /\ replayQueued' \in BOOLEAN
        /\ replayCh' \in BOOLEAN
    BY Zenon DEF Fills!Emit, Fills!server, Fills!stream, Fills!loop,
      Fills!consumer, Fills!ghosts, Fills!TypeOK
  <2>2. wire' \in Seq([fill : Fills!Fills, stamped : BOOLEAN, gap : BOOLEAN])
    BY DEF Fills!Emit, Fills!server, Fills!stream, Fills!loop, Fills!consumer,
      Fills!ghosts, Fills!TypeOK
  <2>3. /\ log' \in Fills!Cursors /\ cursor' \in Fills!Cursors
        /\ state' \in {"loading", "connected", "reconnecting"}
        /\ rpc' \in {"off", "idle", "list", "page", "end"}
        /\ local' \in Fills!Cursors /\ at' \in Fills!Cursors /\ to' \in Fills!Cursors
        /\ persisted' \in Fills!Cursors /\ floor' \in Fills!Cursors
        /\ faults' \in 0..FillFaults
    BY <1>0, SMT DEF Fills!Emit, Fills!server, Fills!stream, Fills!loop,
      Fills!consumer, Fills!ghosts, Fills!TypeOK
  <2>4. emitting' \in [{"live", "replay"} -> [fill : Fills!Cursors, cursor : Fills!Cursors]]
    BY DEF Fills!Emit, Fills!server, Fills!stream, Fills!loop, Fills!consumer,
      Fills!ghosts, Fills!TypeOK
  <2>5. seen' \in Seq(Fills!Fills) /\ Len(seen') <= Window
    BY DEF Fills!Emit, Fills!server, Fills!stream, Fills!loop, Fills!consumer,
      Fills!ghosts, Fills!TypeOK
  <2>6. got' \in SUBSET Fills!Fills /\ seam' \in SUBSET Fills!Fills /\ cut' \in SUBSET Fills!Fills
    BY <1>0 DEF Fills!Emit, Fills!server, Fills!stream, Fills!loop,
      Fills!consumer, Fills!ghosts, Fills!TypeOK
  <2> QED
    BY <2>1, <2>2, <2>3, <2>4, <2>5, <2>6 DEF Fills!TypeOK
<1>2. Placed'
  BY <1>0 DEF Fills!Emit, Fills!server, Fills!stream, Fills!loop,
    Fills!consumer, Fills!ghosts, Fills!TypeOK, Placed
<1>3. Had \subseteq Had' /\ floor <= floor'
  BY DEF Fills!Emit, Fills!server, Fills!stream, Fills!loop, Fills!consumer,
    Fills!ghosts, Fills!TypeOK, Had, Fills!OnTheWay
<1>4. Backed'
  <2>1. \A c \in Fills!Cursors : HadTo(c) => HadNext(c)
    BY <1>1, <1>3, FillsHadKept
  <2>2. /\ HadNext(persisted') /\ HadNext(cursor') /\ HadNext(local') /\ HadNext(at')
        /\ \A h \in {"live", "replay"} : HadNext(emitting'[h].cursor)
        /\ \A i \in 1..Len(seen') : seen'[i] \in Had'
    <3>1. /\ persisted' = emitting[g].cursor /\ UNCHANGED <<cursor, local, at, seen>>
          /\ \A h \in {"live", "replay"} :
                emitting'[h].cursor = 0 \/ emitting'[h].cursor = emitting[h].cursor
      BY DEF Fills!Emit, Fills!stream, Fills!loop, Fills!TypeOK
    <3>2. HadNext(0)
      BY <1>1 DEF Fills!TypeOK, HadNext
    <3>3. \A h \in {"live", "replay"} : HadNext(emitting[h].cursor)
      BY <2>1 DEF Fills!TypeOK, Backed
    <3> QED
      BY <1>3, <2>1, <3>1, <3>2, <3>3 DEF Fills!TypeOK, Backed
  <2> QED
    BY <2>2 DEF Backed, HadTo, HadNext
<1>5. CaughtUp'
  <2>1. \A h \in Fills!Cursors : NotedFrom(h) => NotedNext(h)
    BY <1>1, <1>3, FillsNotedKept DEF Fills!Emit, Fills!server, Fills!stream,
      Fills!loop, Fills!consumer, Fills!ghosts
  <2>2. started' /\ ~replayQueued' =>
          /\ ~replaying' => NotedNext(0)
          /\ rpc' = "end" => NotedNext(local')
          /\ rpc' = "page" /\ to' - local' < PageLimit => NotedNext(to')
    BY <2>1 DEF Fills!Emit, Fills!server, Fills!stream, Fills!loop,
      Fills!consumer, Fills!ghosts, Fills!TypeOK, Placed, CaughtUp
  <2> QED
    BY <2>2 DEF CaughtUp, NotedFrom, NotedNext
<1> QED
  BY <1>1, <1>2, <1>4, <1>5

LEMMA FillsBeginReplayStep ==
    ASSUME ConstantsOK, FillsInv, Fills!BeginReplay
    PROVE  FillsInv'
<1> USE DEF FillsInv, ConstantsOK, Fills!Fills, Fills!Cursors, Fills!Nothing
<1>1. Fills!TypeOK'
  <2>1. /\ up' \in BOOLEAN /\ registered' \in BOOLEAN /\ lossy' \in BOOLEAN /\ open' \in BOOLEAN
        /\ started' \in BOOLEAN /\ replaying' \in BOOLEAN /\ replayQueued' \in BOOLEAN
        /\ replayCh' \in BOOLEAN
    BY Zenon DEF Fills!BeginReplay, Fills!server, Fills!stream, Fills!loop,
      Fills!consumer, Fills!ghosts, Fills!TypeOK
  <2> QED
    BY <2>1, SMT DEF Fills!BeginReplay, Fills!server, Fills!stream,
      Fills!loop, Fills!consumer, Fills!ghosts, Fills!TypeOK
<1>2. Placed'
  BY DEF Fills!BeginReplay, Fills!server, Fills!stream, Fills!loop,
    Fills!consumer, Fills!ghosts, Fills!TypeOK, Placed
<1>3. Had \subseteq Had' /\ floor <= floor'
  BY DEF Fills!BeginReplay, Fills!server, Fills!stream, Fills!loop,
    Fills!consumer, Fills!ghosts, Fills!TypeOK, Had, Fills!OnTheWay
<1>4. Backed'
  <2>1. \A c \in Fills!Cursors : HadTo(c) => HadNext(c)
    BY <1>1, <1>3, FillsHadKept
  <2>2. /\ HadNext(persisted') /\ HadNext(cursor') /\ HadNext(local') /\ HadNext(at')
        /\ \A g \in {"live", "replay"} : HadNext(emitting'[g].cursor)
        /\ \A i \in 1..Len(seen') : seen'[i] \in Had'
    BY <1>3, <2>1 DEF Fills!BeginReplay, Fills!server, Fills!stream,
      Fills!loop, Fills!consumer, Fills!ghosts, Fills!TypeOK, Backed
  <2> QED
    BY <2>2 DEF Backed, HadTo, HadNext
<1>5. CaughtUp'
  <2>1. \A h \in Fills!Cursors : NotedFrom(h) => NotedNext(h)
    BY <1>1, <1>3, FillsNotedKept DEF Fills!BeginReplay, Fills!server,
      Fills!stream, Fills!loop, Fills!consumer, Fills!ghosts
  <2>2. started' /\ ~replayQueued' =>
          /\ ~replaying' => NotedNext(0)
          /\ rpc' = "end" => NotedNext(local')
          /\ rpc' = "page" /\ to' - local' < PageLimit => NotedNext(to')
    BY <2>1 DEF Fills!BeginReplay, Fills!server, Fills!stream, Fills!loop,
      Fills!consumer, Fills!ghosts, Fills!TypeOK, Placed, CaughtUp
  <2> QED
    BY <2>2 DEF CaughtUp, NotedFrom, NotedNext
<1> QED
  BY <1>1, <1>2, <1>4, <1>5

LEMMA FillsListRealmFillsStep ==
    ASSUME ConstantsOK, FillsInv, Fills!ListRealmFills
    PROVE  FillsInv'
<1> USE DEF FillsInv, ConstantsOK, Fills!Fills, Fills!Cursors, Fills!Nothing
<1>1. Fills!TypeOK'
  <2>1. /\ up' \in BOOLEAN /\ registered' \in BOOLEAN /\ lossy' \in BOOLEAN /\ open' \in BOOLEAN
        /\ started' \in BOOLEAN /\ replaying' \in BOOLEAN /\ replayQueued' \in BOOLEAN
        /\ replayCh' \in BOOLEAN
    BY Zenon DEF Fills!ListRealmFills, Fills!server, Fills!stream, Fills!loop,
      Fills!consumer, Fills!ghosts, Fills!TypeOK
  <2> QED
    BY <2>1, SMT DEF Fills!ListRealmFills, Fills!server, Fills!stream,
      Fills!loop, Fills!consumer, Fills!ghosts, Fills!TypeOK
<1>2. Placed'
  BY DEF Fills!ListRealmFills, Fills!server, Fills!stream, Fills!loop,
    Fills!consumer, Fills!ghosts, Fills!TypeOK, Placed
<1>3. Had \subseteq Had' /\ floor <= floor'
  BY DEF Fills!ListRealmFills, Fills!server, Fills!stream, Fills!loop,
    Fills!consumer, Fills!ghosts, Fills!TypeOK, Had, Fills!OnTheWay
<1>4. Backed'
  <2>1. \A c \in Fills!Cursors : HadTo(c) => HadNext(c)
    BY <1>1, <1>3, FillsHadKept
  <2>2. /\ HadNext(persisted') /\ HadNext(cursor') /\ HadNext(local') /\ HadNext(at')
        /\ \A g \in {"live", "replay"} : HadNext(emitting'[g].cursor)
        /\ \A i \in 1..Len(seen') : seen'[i] \in Had'
    BY <1>3, <2>1 DEF Fills!ListRealmFills, Fills!server, Fills!stream,
      Fills!loop, Fills!consumer, Fills!ghosts, Fills!TypeOK, Backed
  <2> QED
    BY <2>2 DEF Backed, HadTo, HadNext
<1>5. CaughtUp'
  <2>1. \A h \in Fills!Cursors : NotedFrom(h) => NotedNext(h)
    BY <1>1, <1>3, FillsNotedKept DEF Fills!ListRealmFills, Fills!server,
      Fills!stream, Fills!loop, Fills!consumer, Fills!ghosts
  <2>2. started' /\ ~replayQueued' =>
          /\ ~replaying' => NotedNext(0)
          /\ rpc' = "end" => NotedNext(local')
          /\ rpc' = "page" /\ to' - local' < PageLimit => NotedNext(to')
    <3>1. NotedNext(log)
      BY DEF Fills!ListRealmFills, Fills!server, Fills!TypeOK, NotedNext
    <3>2. to' - local' < PageLimit => to' = log
      BY DEF Fills!ListRealmFills, Fills!TypeOK
    <3> QED
      BY <2>1, <3>1, <3>2 DEF Fills!ListRealmFills, Fills!stream, Placed, CaughtUp
  <2> QED
    BY <2>2 DEF CaughtUp, NotedFrom, NotedNext
<1> QED
  BY <1>1, <1>2, <1>4, <1>5

LEMMA FillsListFailsStep ==
    ASSUME ConstantsOK, FillsInv, Fills!ListFails
    PROVE  FillsInv'
<1> USE DEF FillsInv, ConstantsOK, Fills!Fills, Fills!Cursors, Fills!Nothing
<1>1. Fills!TypeOK'
  <2>1. /\ up' \in BOOLEAN /\ registered' \in BOOLEAN /\ lossy' \in BOOLEAN /\ open' \in BOOLEAN
        /\ started' \in BOOLEAN /\ replaying' \in BOOLEAN /\ replayQueued' \in BOOLEAN
        /\ replayCh' \in BOOLEAN
    BY Zenon DEF Fills!ListFails, Fills!Fault, Fills!server, Fills!stream,
      Fills!loop, Fills!consumer, Fills!ghosts, Fills!TypeOK
  <2> QED
    BY <2>1, SMT DEF Fills!ListFails, Fills!Fault, Fills!server, Fills!stream,
      Fills!loop, Fills!consumer, Fills!ghosts, Fills!TypeOK
<1>2. Placed'
  BY DEF Fills!ListFails, Fills!Fault, Fills!server, Fills!stream, Fills!loop,
    Fills!consumer, Fills!ghosts, Fills!TypeOK, Placed
<1>3. Had \subseteq Had' /\ floor <= floor'
  BY DEF Fills!ListFails, Fills!Fault, Fills!server, Fills!stream, Fills!loop,
    Fills!consumer, Fills!ghosts, Fills!TypeOK, Had, Fills!OnTheWay
<1>4. Backed'
  <2>1. \A c \in Fills!Cursors : HadTo(c) => HadNext(c)
    BY <1>1, <1>3, FillsHadKept
  <2>2. /\ HadNext(persisted') /\ HadNext(cursor') /\ HadNext(local') /\ HadNext(at')
        /\ \A g \in {"live", "replay"} : HadNext(emitting'[g].cursor)
        /\ \A i \in 1..Len(seen') : seen'[i] \in Had'
    BY <1>3, <2>1 DEF Fills!ListFails, Fills!Fault, Fills!server,
      Fills!stream, Fills!loop, Fills!consumer, Fills!ghosts, Fills!TypeOK,
      Backed
  <2> QED
    BY <2>2 DEF Backed, HadTo, HadNext
<1>5. CaughtUp'
  <2>1. \A h \in Fills!Cursors : NotedFrom(h) => NotedNext(h)
    BY <1>1, <1>3, FillsNotedKept DEF Fills!ListFails, Fills!Fault,
      Fills!server, Fills!stream, Fills!loop, Fills!consumer, Fills!ghosts
  <2>2. started' /\ ~replayQueued' =>
          /\ ~replaying' => NotedNext(0)
          /\ rpc' = "end" => NotedNext(local')
          /\ rpc' = "page" /\ to' - local' < PageLimit => NotedNext(to')
    BY <2>1 DEF Fills!ListFails, Fills!Fault, Fills!server, Fills!stream,
      Fills!loop, Fills!consumer, Fills!ghosts, Fills!TypeOK, Placed, CaughtUp
  <2> QED
    BY <2>2 DEF CaughtUp, NotedFrom, NotedNext
<1> QED
  BY <1>1, <1>2, <1>4, <1>5

LEMMA FillsPageDoneStep ==
    ASSUME ConstantsOK, FillsInv, Fills!PageDone
    PROVE  FillsInv'
<1> USE DEF FillsInv, ConstantsOK, Fills!Fills, Fills!Cursors, Fills!Nothing
<1>1. Fills!TypeOK'
  <2>1. /\ up' \in BOOLEAN /\ registered' \in BOOLEAN /\ lossy' \in BOOLEAN /\ open' \in BOOLEAN
        /\ started' \in BOOLEAN /\ replaying' \in BOOLEAN /\ replayQueued' \in BOOLEAN
        /\ replayCh' \in BOOLEAN
    BY Zenon DEF Fills!PageDone, Fills!AtHead, Fills!server, Fills!stream,
      Fills!loop, Fills!consumer, Fills!ghosts, Fills!TypeOK
  <2> QED
    BY <2>1, SMT DEF Fills!PageDone, Fills!AtHead, Fills!server, Fills!stream,
      Fills!loop, Fills!consumer, Fills!ghosts, Fills!TypeOK
<1>2. Placed'
  BY DEF Fills!PageDone, Fills!AtHead, Fills!server, Fills!stream, Fills!loop,
    Fills!consumer, Fills!ghosts, Fills!TypeOK, Placed
<1>3. Had \subseteq Had' /\ floor <= floor'
  BY DEF Fills!PageDone, Fills!AtHead, Fills!server, Fills!stream, Fills!loop,
    Fills!consumer, Fills!ghosts, Fills!TypeOK, Had, Fills!OnTheWay
<1>4. Backed'
  <2>1. \A c \in Fills!Cursors : HadTo(c) => HadNext(c)
    BY <1>1, <1>3, FillsHadKept
  <2>2. /\ HadNext(persisted') /\ HadNext(cursor') /\ HadNext(local') /\ HadNext(at')
        /\ \A g \in {"live", "replay"} : HadNext(emitting'[g].cursor)
        /\ \A i \in 1..Len(seen') : seen'[i] \in Had'
    BY <1>3, <2>1 DEF Fills!PageDone, Fills!AtHead, Fills!server,
      Fills!stream, Fills!loop, Fills!consumer, Fills!ghosts, Fills!TypeOK,
      Backed
  <2> QED
    BY <2>2 DEF Backed, HadTo, HadNext
<1>5. CaughtUp'
  <2>1. \A h \in Fills!Cursors : NotedFrom(h) => NotedNext(h)
    BY <1>1, <1>3, FillsNotedKept DEF Fills!PageDone, Fills!AtHead,
      Fills!server, Fills!stream, Fills!loop, Fills!consumer, Fills!ghosts
  <2>2. started' /\ ~replayQueued' =>
          /\ ~replaying' => NotedNext(0)
          /\ rpc' = "end" => NotedNext(local')
          /\ rpc' = "page" /\ to' - local' < PageLimit => NotedNext(to')
    BY <2>1 DEF Fills!PageDone, Fills!AtHead, Fills!server, Fills!stream,
      Fills!loop, Fills!consumer, Fills!ghosts, Fills!TypeOK, Placed, CaughtUp
  <2> QED
    BY <2>2 DEF CaughtUp, NotedFrom, NotedNext
<1> QED
  BY <1>1, <1>2, <1>4, <1>5

LEMMA FillsEndReplayStep ==
    ASSUME ConstantsOK, FillsInv, Fills!EndReplay
    PROVE  FillsInv'
<1> USE DEF FillsInv, ConstantsOK, Fills!Fills, Fills!Cursors, Fills!Nothing
<1>1. Fills!TypeOK'
  <2>1. /\ up' \in BOOLEAN /\ registered' \in BOOLEAN /\ lossy' \in BOOLEAN /\ open' \in BOOLEAN
        /\ started' \in BOOLEAN /\ replaying' \in BOOLEAN /\ replayQueued' \in BOOLEAN
        /\ replayCh' \in BOOLEAN
    BY Zenon DEF Fills!EndReplay, Fills!server, Fills!stream, Fills!loop,
      Fills!consumer, Fills!ghosts, Fills!TypeOK
  <2> QED
    BY <2>1, SMT DEF Fills!EndReplay, Fills!server, Fills!stream, Fills!loop,
      Fills!consumer, Fills!ghosts, Fills!TypeOK
<1>2. Placed'
  BY DEF Fills!EndReplay, Fills!server, Fills!stream, Fills!loop,
    Fills!consumer, Fills!ghosts, Fills!TypeOK, Placed
<1>3. Had \subseteq Had' /\ floor <= floor'
  BY DEF Fills!EndReplay, Fills!server, Fills!stream, Fills!loop,
    Fills!consumer, Fills!ghosts, Fills!TypeOK, Had, Fills!OnTheWay
<1>4. Backed'
  <2>1. \A c \in Fills!Cursors : HadTo(c) => HadNext(c)
    BY <1>1, <1>3, FillsHadKept
  <2>2. /\ HadNext(persisted') /\ HadNext(cursor') /\ HadNext(local') /\ HadNext(at')
        /\ \A g \in {"live", "replay"} : HadNext(emitting'[g].cursor)
        /\ \A i \in 1..Len(seen') : seen'[i] \in Had'
    BY <1>3, <2>1 DEF Fills!EndReplay, Fills!server, Fills!stream, Fills!loop,
      Fills!consumer, Fills!ghosts, Fills!TypeOK, Backed
  <2> QED
    BY <2>2 DEF Backed, HadTo, HadNext
<1>5. CaughtUp'
  <2>1. \A h \in Fills!Cursors : NotedFrom(h) => NotedNext(h)
    BY <1>1, <1>3, FillsNotedKept DEF Fills!EndReplay, Fills!server,
      Fills!stream, Fills!loop, Fills!consumer, Fills!ghosts
  <2>2. started' /\ ~replayQueued' =>
          /\ ~replaying' => NotedNext(0)
          /\ rpc' = "end" => NotedNext(local')
          /\ rpc' = "page" /\ to' - local' < PageLimit => NotedNext(to')
    <3>1. NotedFrom(local) => NotedNext(0)
      BY <2>1, <1>4 DEF Fills!EndReplay, Fills!server, Fills!consumer, Fills!TypeOK, Backed,
        HadTo, NotedNext
    <3> QED
      BY <2>1, <3>1 DEF Fills!EndReplay, Placed, CaughtUp
  <2> QED
    BY <2>2 DEF CaughtUp, NotedFrom, NotedNext
<1> QED
  BY <1>1, <1>2, <1>4, <1>5

LEMMA FillsCommitStep ==
    ASSUME ConstantsOK, FillsInv, NEW stamped \in BOOLEAN, Fills!Commit(stamped)
    PROVE  FillsInv'
<1> USE DEF FillsInv, ConstantsOK, Fills!Fills, Fills!Cursors, Fills!Nothing
<1>0. /\ log \in Nat /\ log' = log + 1 /\ floor' = floor /\ up' = up
      /\ Len(wire) \in Nat /\ \A i \in 1..Len(wire) : wire[i].fill \in Nat
  BY FillsEvents DEF Fills!Commit, Fills!consumer, Fills!TypeOK
<1>9. ASSUME registered
      PROVE  /\ Len(wire') = Len(wire) + 1
             /\ \A i \in 1..Len(wire) : wire'[i] = wire[i]
             /\ wire'[Len(wire) + 1].fill = log + 1
             /\ lossy => wire'[Len(wire) + 1].gap
  <2> DEFINE Event == [fill : Fills!Fills, stamped : BOOLEAN, gap : BOOLEAN]
             e == [fill |-> log + 1, stamped |-> stamped, gap |-> lossy]
  <2>1. wire \in Seq(Event) /\ wire' = Append(wire, e)
    BY <1>9 DEF Fills!Commit, Fills!TypeOK
  <2>2. e.fill = log + 1 /\ (lossy => e.gap)
    OBVIOUS
  <2> HIDE DEF Event, e
  <2> QED
    BY <2>1, <2>2
<1>1. Fills!TypeOK'
  <2>1. /\ up' \in BOOLEAN /\ registered' \in BOOLEAN /\ lossy' \in BOOLEAN /\ open' \in BOOLEAN
        /\ started' \in BOOLEAN /\ replaying' \in BOOLEAN /\ replayQueued' \in BOOLEAN
        /\ replayCh' \in BOOLEAN
    BY Zenon DEF Fills!Commit, Fills!server, Fills!stream, Fills!loop,
      Fills!consumer, Fills!ghosts, Fills!TypeOK
  <2>2. wire' \in Seq([fill : Fills!Fills, stamped : BOOLEAN, gap : BOOLEAN])
    <3>1. CASE registered
      <4> DEFINE Event == [fill : Fills!Fills, stamped : BOOLEAN, gap : BOOLEAN]
                 e == [fill |-> log + 1, stamped |-> stamped, gap |-> lossy]
      <4>1. e \in Event
        BY DEF Fills!Commit, Fills!TypeOK
      <4>2. wire \in Seq(Event) /\ wire' = Append(wire, e)
        BY <3>1 DEF Fills!Commit, Fills!TypeOK
      <4> HIDE DEF Event, e
      <4> QED
        BY <4>1, <4>2 DEF Event
    <3>2. CASE ~registered
      BY <3>2 DEF Fills!Commit, Fills!TypeOK
    <3> QED
      BY <3>1, <3>2
  <2>3. /\ log' \in Fills!Cursors /\ cursor' \in Fills!Cursors
        /\ state' \in {"loading", "connected", "reconnecting"}
        /\ rpc' \in {"off", "idle", "list", "page", "end"}
        /\ local' \in Fills!Cursors /\ at' \in Fills!Cursors /\ to' \in Fills!Cursors
        /\ persisted' \in Fills!Cursors /\ floor' \in Fills!Cursors
        /\ faults' \in 0..FillFaults
    BY SMT DEF Fills!Commit, Fills!server, Fills!stream, Fills!loop,
      Fills!consumer, Fills!ghosts, Fills!TypeOK
  <2>4. emitting' \in [{"live", "replay"} -> [fill : Fills!Cursors, cursor : Fills!Cursors]]
    BY DEF Fills!Commit, Fills!server, Fills!stream, Fills!loop,
      Fills!consumer, Fills!ghosts, Fills!TypeOK
  <2>5. seen' \in Seq(Fills!Fills) /\ Len(seen') <= Window
    BY DEF Fills!Commit, Fills!server, Fills!stream, Fills!loop,
      Fills!consumer, Fills!ghosts, Fills!TypeOK
  <2>6. got' \in SUBSET Fills!Fills /\ seam' \in SUBSET Fills!Fills /\ cut' \in SUBSET Fills!Fills
    BY DEF Fills!Commit, Fills!server, Fills!stream, Fills!loop,
      Fills!consumer, Fills!ghosts, Fills!TypeOK
  <2> QED
    BY <2>1, <2>2, <2>3, <2>4, <2>5, <2>6 DEF Fills!TypeOK
<1>2. Placed'
  <2>1. floor' <= log' /\ \A i \in 1..Len(wire') : wire'[i].fill <= log'
    <3>1. CASE registered
      <4>1. \A i \in 1..Len(wire') : i \in 1..Len(wire) \/ i = Len(wire) + 1
        BY <1>0, <1>9, <3>1
      <4>2. ASSUME NEW i \in 1..Len(wire) PROVE wire'[i].fill <= log'
        BY <1>0, <1>9, <3>1 DEF Placed
      <4>3. wire'[Len(wire) + 1].fill <= log'
        BY <1>0, <1>9, <3>1
      <4>4. floor' <= log'
        BY <1>0 DEF Placed, Fills!TypeOK
      <4> QED
        BY <4>1, <4>2, <4>3, <4>4
    <3>2. CASE ~registered
      BY <1>0, <3>2, SMTT(30) DEF Fills!Commit, Placed, Fills!TypeOK
    <3> QED
      BY <3>1, <3>2
  <2> QED
    BY <2>1 DEF Fills!Commit, Fills!stream, Fills!loop, Placed
<1>3. Had \subseteq Had' /\ floor <= floor'
  BY DEF Fills!Commit, Fills!server, Fills!stream, Fills!loop, Fills!consumer,
    Fills!ghosts, Fills!TypeOK, Had, Fills!OnTheWay
<1>4. Backed'
  <2>1. \A c \in Fills!Cursors : HadTo(c) => HadNext(c)
    BY <1>1, <1>3, FillsHadKept
  <2>2. /\ HadNext(persisted') /\ HadNext(cursor') /\ HadNext(local') /\ HadNext(at')
        /\ \A g \in {"live", "replay"} : HadNext(emitting'[g].cursor)
        /\ \A i \in 1..Len(seen') : seen'[i] \in Had'
    BY <1>3, <2>1 DEF Fills!Commit, Fills!server, Fills!stream, Fills!loop,
      Fills!consumer, Fills!ghosts, Fills!TypeOK, Backed
  <2> QED
    BY <2>2 DEF Backed, HadTo, HadNext
<1>5. CaughtUp'
  <2>1. ASSUME NEW f \in Fills!Fills, f = log + 1, started, up PROVE f \in Had' \/ Foretold(f)'
    <3>1. CASE registered
      <4> DEFINE n == Len(wire) + 1
      <4>1. n \in 1..Len(wire') /\ wire'[n].fill = f
        BY <1>0, <1>9, <2>1, <3>1
      <4>2. \A j \in 1..(n - 1) : wire[j].fill < f /\ wire'[j] = wire[j]
        BY <1>0, <1>9, <2>1, <3>1 DEF Placed
      <4> HIDE DEF n
      <4> QED
        BY <4>1, <4>2 DEF Foretold
    <3>2. CASE ~registered
      BY <2>1, <3>2 DEF Fills!Commit, Placed, Had
    <3> QED
      BY <3>1, <3>2
  <2>2. ASSUME NEW f \in Fills!Fills, f <= log, Foretold(f) PROVE Foretold(f)'
    <3>1. CASE ~registered
      BY <2>2, <3>1 DEF Fills!Commit, Foretold
    <3>2. CASE registered /\ lossy /\ \A j \in 1..Len(wire) : wire[j].fill < f
      <4> DEFINE n == Len(wire) + 1
      <4>1. n \in 1..Len(wire') /\ wire'[n].gap /\ f <= wire'[n].fill
        BY <1>0, <1>9, <2>2, <3>2
      <4>2. \A j \in 1..(n - 1) : wire'[j].fill < f
        BY <1>0, <1>9, <3>2
      <4> HIDE DEF n
      <4> QED
        BY <4>1, <4>2 DEF Foretold
    <3>3. ASSUME registered, NEW i \in 1..Len(wire),
                 wire[i].fill = f \/ (wire[i].gap /\ f <= wire[i].fill),
                 \A j \in 1..(i - 1) : wire[j].fill < f
          PROVE  Foretold(f)'
      <4>1. i \in 1..Len(wire') /\ wire'[i] = wire[i]
            /\ \A j \in 1..(i - 1) : wire'[j] = wire[j]
        BY <1>0, <1>9, <3>3
      <4> QED
        BY <3>3, <4>1 DEF Foretold
    <3> QED
      BY <2>2, <3>1, <3>2, <3>3 DEF Foretold
  <2>3. \A f \in Fills!Fills : f \in Nat /\ (f <= log' => f <= log \/ f = log + 1)
    BY <1>0
  <2>4. ASSUME started, NEW h \in Fills!Cursors, NotedFrom(h), up', NEW f \in Fills!Fills,
               floor' < f, h < f, f <= log'
        PROVE  f \in Had' \/ Foretold(f)'
    BY <1>0, <1>3, <2>1, <2>2, <2>3, <2>4 DEF NotedFrom
  <2>5. started => \A h \in Fills!Cursors : NotedFrom(h) => NotedNext(h)
    BY <2>4 DEF NotedNext
  <2>6. started' /\ ~replayQueued' =>
          /\ ~replaying' => NotedNext(0)
          /\ rpc' = "end" => NotedNext(local')
          /\ rpc' = "page" /\ to' - local' < PageLimit => NotedNext(to')
    BY <2>5 DEF Fills!Commit, Fills!stream, Fills!loop, Fills!TypeOK, CaughtUp
  <2> QED
    BY <2>6 DEF CaughtUp, NotedFrom, NotedNext
<1> QED
  BY <1>1, <1>2, <1>4, <1>5

(* deliver, of a fill that is the next one where it moves the cursor.      *)
LEMMA FillsDeliver ==
    ASSUME ConstantsOK, Fills!TypeOK, Placed, Backed,
           NEW g \in {"live", "replay"}, NEW f \in Fills!Fills, NEW stamped \in BOOLEAN,
           emitting[g] = Fills!Nothing, Fills!Deliver(g, f, stamped),
           stamped /\ Fills!Moves(g = "replay") => HadTo(f - 1),
           UNCHANGED <<got, seam, cut, floor>>
    PROVE  /\ cursor' \in Fills!Cursors
           /\ emitting' \in [{"live", "replay"} -> [fill : Fills!Cursors, cursor : Fills!Cursors]]
           /\ \A h \in {"live", "replay"} : emitting'[h].fill = 0 => emitting'[h] = Fills!Nothing
           /\ seen' \in Seq(Fills!Fills) /\ Len(seen') <= Window
           /\ Had \subseteq Had' /\ f \in Had'
           /\ HadNext(cursor') /\ \A h \in {"live", "replay"} : HadNext(emitting'[h].cursor)
           /\ \A i \in 1..Len(seen') : seen'[i] \in Had'
<1> USE DEF ConstantsOK, Fills!Fills, Fills!Cursors, Fills!Nothing
<1>1. cursor' \in Fills!Cursors
  BY DEF Fills!Deliver, Fills!TypeOK
<1> DEFINE e == [fill |-> f, cursor |-> cursor']
<1>2. emitting' = IF Fills!Seen(f) THEN emitting ELSE [emitting EXCEPT ![g] = e]
  BY DEF Fills!Deliver
<1>3. e \in [fill : Fills!Cursors, cursor : Fills!Cursors] /\ e.fill = f /\ e.cursor = cursor'
      /\ f # 0
  BY <1>1
<1> HIDE DEF e
<1>4. emitting' \in [{"live", "replay"} -> [fill : Fills!Cursors, cursor : Fills!Cursors]]
  BY <1>2, <1>3 DEF Fills!TypeOK
<1>5. \A h \in {"live", "replay"} :
         emitting'[h] = emitting[h] \/ (emitting'[h] = e /\ h = g /\ ~Fills!Seen(f))
  BY <1>2, <1>3 DEF Fills!TypeOK
<1>6. \A h \in {"live", "replay"} : emitting'[h].fill = 0 => emitting'[h] = Fills!Nothing
  BY <1>3, <1>5 DEF Placed
<1>7. Had \subseteq Had' /\ f \in Had'
  <2>1. emitting[g].fill = 0 /\ \A h \in {"live", "replay"} :
           h # g => emitting'[h].fill = emitting[h].fill
    BY <1>5
  <2>2. Had \subseteq Had'
    <3>1. \A x \in Fills!Fills : x \in Fills!OnTheWay => x \in Fills!OnTheWay'
      BY <2>1 DEF Fills!OnTheWay
    <3> QED
      BY <3>1 DEF Had
  <2>3. f \in Had'
    <3>1. CASE Fills!Seen(f)
      BY <2>2, <3>1 DEF Fills!Seen, Backed
    <3>2. CASE ~Fills!Seen(f)
      BY <1>2, <1>3, <3>2 DEF Fills!TypeOK, Fills!OnTheWay, Had
    <3> QED
      BY <3>1, <3>2
  <2> QED
    BY <2>2, <2>3
<1>8. /\ seen' \in Seq(Fills!Fills) /\ Len(seen') <= Window
      /\ \A i \in 1..Len(seen') : seen'[i] = f \/ \E j \in 1..Len(seen) : seen'[i] = seen[j]
  <2>1. CASE Fills!Seen(f)
    BY <2>1 DEF Fills!Deliver, Fills!TypeOK
  <2>2. CASE ~Fills!Seen(f)
    <3> DEFINE s == Append(seen, f)
    <3>1. /\ s \in Seq(Fills!Fills) /\ Len(s) = Len(seen) + 1
          /\ \A i \in 1..Len(s) : s[i] = f \/ \E j \in 1..Len(seen) : s[i] = seen[j]
      <4>1. seen \in Seq(Fills!Fills) /\ Len(seen) \in Nat
        BY DEF Fills!TypeOK
      <4>2. /\ Len(s) = Len(seen) + 1 /\ s[Len(seen) + 1] = f
            /\ \A i \in 1..Len(seen) : s[i] = seen[i]
        BY <4>1
      <4>3. \A i \in 1..(Len(seen) + 1) : i \in 1..Len(seen) \/ i = Len(seen) + 1
        BY <4>1
      <4>4. s \in Seq(Fills!Fills)
        BY <4>1
      <4> HIDE DEF s
      <4> QED
        BY <4>2, <4>3, <4>4
    <3>2. seen' = IF Len(s) > Window THEN Tail(s) ELSE s
      BY <2>2 DEF Fills!Deliver, Fills!Remembered
    <3>3. Len(seen) <= Window /\ Len(seen) \in Nat
      BY DEF Fills!TypeOK
    <3> HIDE DEF s
    <3>4. CASE Len(s) > Window
      <4>1. /\ seen' \in Seq(Fills!Fills) /\ Len(seen') = Len(seen)
            /\ \A i \in 1..Len(seen') : i + 1 \in 1..Len(s) /\ seen'[i] = s[i + 1]
        BY <3>1, <3>2, <3>3, <3>4
      <4>2. ASSUME NEW i \in 1..Len(seen')
            PROVE  seen'[i] = f \/ \E j \in 1..Len(seen) : seen'[i] = seen[j]
        <5>1. i + 1 \in 1..Len(s) /\ seen'[i] = s[i + 1]
          BY <4>1
        <5> QED
          BY <3>1, <5>1
      <4> QED
        BY <3>3, <4>1, <4>2
    <3>5. CASE ~(Len(s) > Window)
      BY <3>1, <3>2, <3>3, <3>5
    <3> QED
      BY <3>4, <3>5
  <2> QED
    BY <2>1, <2>2
<1>9. HadNext(cursor') /\ \A c \in Fills!Cursors : HadTo(c) => HadNext(c)
  <2>1. \A c \in Fills!Cursors : HadTo(c) => HadNext(c)
    BY <1>7 DEF HadTo, HadNext
  <2>2. CASE cursor' = cursor
    BY <2>1, <2>2 DEF Backed, Fills!TypeOK
  <2>3. CASE cursor' = f /\ HadTo(f - 1)
    <3>1. f - 1 \in Fills!Cursors /\ \A x \in Fills!Fills : x <= f => x <= f - 1 \/ x = f
      OBVIOUS
    <3>2. HadNext(f - 1)
      BY <2>1, <2>3, <3>1
    <3>3. HadNext(f)
      BY <1>7, <3>1, <3>2 DEF HadNext
    <3> QED
      BY <2>1, <2>3, <3>3
  <2> QED
    BY <2>1, <2>2, <2>3 DEF Fills!Deliver
<1>10. \A h \in {"live", "replay"} : HadNext(emitting'[h].cursor)
  <2>1. \A h \in {"live", "replay"} :
           emitting[h].cursor \in Fills!Cursors /\ HadTo(emitting[h].cursor)
    BY DEF Backed, Fills!TypeOK
  <2> QED
    BY <1>3, <1>5, <1>9, <2>1
<1>11. \A i \in 1..Len(seen') : seen'[i] \in Had'
  BY <1>7, <1>8 DEF Backed
<1> QED
  BY <1>1, <1>4, <1>6, <1>7, <1>8, <1>9, <1>10, <1>11

LEMMA FillsDeliverRowStep == ASSUME ConstantsOK, FillsInv, Fills!DeliverRow PROVE FillsInv'
<1> USE DEF FillsInv, ConstantsOK
<1>1. /\ emitting["replay"] = Fills!Nothing /\ Fills!Deliver("replay", at + 1, TRUE)
      /\ at' = at + 1 /\ at + 1 \in Fills!Fills /\ at \in Fills!Cursors /\ rpc = "page"
      /\ UNCHANGED <<Fills!server, open, started, replaying, replayQueued, replayCh, state, rpc,
                     local, to, Fills!consumer, Fills!ghosts>>
  <2>1. at \in 0..MaxFills /\ to \in 0..MaxFills /\ at < to
    BY DEF Fills!DeliverRow, Fills!TypeOK, Fills!Cursors
  <2>2. at + 1 \in Fills!Fills /\ at \in Fills!Cursors
    BY <2>1 DEF Fills!Fills, Fills!Cursors
  <2> QED
    BY <2>2 DEF Fills!DeliverRow
<1>2. cursor' = at + 1
  BY <1>1 DEF Fills!Deliver, Fills!Moves
<1>3. HadTo((at + 1) - 1)
  BY <1>1 DEF Backed, Fills!Cursors
<1>4. /\ cursor' \in Fills!Cursors
      /\ emitting' \in [{"live", "replay"} -> [fill : Fills!Cursors, cursor : Fills!Cursors]]
      /\ \A h \in {"live", "replay"} : emitting'[h].fill = 0 => emitting'[h] = Fills!Nothing
      /\ seen' \in Seq(Fills!Fills) /\ Len(seen') <= Window
      /\ Had \subseteq Had' /\ at + 1 \in Had'
      /\ HadNext(cursor') /\ \A h \in {"live", "replay"} : HadNext(emitting'[h].cursor)
      /\ \A i \in 1..Len(seen') : seen'[i] \in Had'
  <2> DEFINE f == at + 1
  <2>1. f \in Fills!Fills /\ Fills!Deliver("replay", f, TRUE) /\ HadTo(f - 1)
    BY <1>1, <1>3
  <2>2. UNCHANGED <<got, seam, cut, floor>>
    BY <1>1 DEF Fills!consumer, Fills!ghosts
  <2> HIDE DEF f
  <2>3. /\ cursor' \in Fills!Cursors
        /\ emitting' \in [{"live", "replay"} -> [fill : Fills!Cursors, cursor : Fills!Cursors]]
        /\ \A h \in {"live", "replay"} : emitting'[h].fill = 0 => emitting'[h] = Fills!Nothing
        /\ seen' \in Seq(Fills!Fills) /\ Len(seen') <= Window
        /\ Had \subseteq Had' /\ f \in Had'
        /\ HadNext(cursor') /\ \A h \in {"live", "replay"} : HadNext(emitting'[h].cursor)
        /\ \A i \in 1..Len(seen') : seen'[i] \in Had'
    BY <1>1, <2>1, <2>2, FillsDeliver
  <2> QED
    BY <2>3 DEF f
<1>5. Fills!TypeOK'
  BY <1>1, <1>4, SMTT(30) DEF Fills!server, Fills!consumer, Fills!ghosts, Fills!TypeOK, Fills!Cursors,
    Fills!Fills
<1>6. Placed'
  BY <1>1, <1>4 DEF Fills!server, Fills!consumer, Fills!TypeOK, Placed
<1>7. floor' = floor /\ \A c \in Fills!Cursors : HadTo(c) => HadNext(c)
  <2>1. floor' = floor /\ floor <= floor'
    BY <1>1 DEF Fills!consumer, Fills!TypeOK, Fills!Cursors
  <2> QED
    BY <1>4, <1>5, <2>1, FillsHadKept
<1>8. Backed'
  <2>1. /\ HadNext(persisted') /\ HadNext(cursor') /\ HadNext(local') /\ HadNext(at')
        /\ \A g \in {"live", "replay"} : HadNext(emitting'[g].cursor)
        /\ \A i \in 1..Len(seen') : seen'[i] \in Had'
    BY <1>1, <1>2, <1>4, <1>7 DEF Fills!consumer, Fills!TypeOK, Backed
  <2> QED
    BY <2>1 DEF Backed, HadTo, HadNext
<1>9. CaughtUp'
  <2>0. floor <= floor' /\ UNCHANGED <<wire, lossy, up, log>>
    <3>1. floor \in Nat
      BY <1>1 DEF Fills!TypeOK, Fills!Cursors
    <3>2. UNCHANGED <<wire, lossy, up, log>>
      BY <1>1 DEF Fills!server
    <3> QED
      BY <1>7, <3>1, <3>2
  <2>1. \A h \in Fills!Cursors : NotedFrom(h) => NotedNext(h)
    BY <1>1, <1>4, <1>5, <2>0, FillsNotedKept
  <2>2. started' /\ ~replayQueued' =>
          /\ ~replaying' => NotedNext(0)
          /\ rpc' = "end" => NotedNext(local')
          /\ rpc' = "page" /\ to' - local' < PageLimit => NotedNext(to')
    BY <1>1, <2>1 DEF Fills!TypeOK, CaughtUp, Placed
  <2> QED
    BY <2>2 DEF CaughtUp, NotedFrom, NotedNext
<1> QED
  BY <1>5, <1>6, <1>8, <1>9

(* The next event of a socket nothing was lost on is the next fill.        *)
LEMMA FillsOnLiveFillStep == ASSUME ConstantsOK, FillsInv, Fills!OnLiveFill PROVE FillsInv'
<1> USE DEF FillsInv, ConstantsOK
<1> DEFINE e == wire[1]
           Event == [fill : Fills!Fills, stamped : BOOLEAN, gap : BOOLEAN]
<1>1. /\ wire # <<>> /\ emitting["live"] = Fills!Nothing
      /\ wire' = Tail(wire)
      /\ replayQueued' = (replayQueued \/ (open /\ e.gap))
      /\ replayCh' = (replayCh \/ (open /\ e.gap))
      /\ IF started THEN Fills!Deliver("live", e.fill, e.stamped)
         ELSE UNCHANGED <<seen, cursor, emitting>>
      /\ UNCHANGED <<log, up, registered, lossy, open, started, replaying, state, Fills!loop,
                     Fills!consumer, Fills!ghosts>>
  <2>1. Head(wire) = e
    BY DEF Fills!OnLiveFill, Fills!TypeOK
  <2> HIDE DEF e
  <2> QED
    BY <2>1 DEF Fills!OnLiveFill, Fills!Noticed
<1>2. /\ wire \in Seq(Event) /\ 1 \in 1..Len(wire) /\ Len(wire) \in Nat
      /\ wire' \in Seq(Event) /\ Len(wire') = Len(wire) - 1
      /\ \A i \in 1..Len(wire') : i + 1 \in 1..Len(wire) /\ wire'[i] = wire[i + 1]
  <2>1. wire \in Seq(Event)
    BY DEF Fills!TypeOK
  <2> HIDE DEF Event
  <2> QED
    BY <1>1, <2>1
<1>3. e \in Event /\ e.fill \in Fills!Fills /\ e.fill \in Nat /\ e.fill <= log
  BY <1>2, FillsEvents DEF Placed
<1> HIDE DEF e, Event
<1>4. \A f \in Fills!Fills : f \in Nat
  BY DEF Fills!Fills
<1>5. ASSUME NEW f \in Fills!Fills, Foretold(f), ~e.gap
      PROVE  e.fill <= f /\ (f = e.fill \/ Foretold(f)')
  <2>1. CASE lossy /\ \A j \in 1..Len(wire) : wire[j].fill < f
    <3>1. \A j \in 1..Len(wire') : wire'[j].fill < f
      BY <1>2, <2>1
    <3> QED
      BY <1>1, <1>2, <1>3, <1>4, <2>1, <3>1 DEF Foretold, e
  <2>2. ASSUME NEW i \in 1..Len(wire), wire[i].fill = f \/ (wire[i].gap /\ f <= wire[i].fill),
               \A j \in 1..(i - 1) : wire[j].fill < f
        PROVE  e.fill <= f /\ (f = e.fill \/ Foretold(f)')
    <3>1. CASE i = 1
      BY <1>3, <1>4, <1>5, <2>2, <3>1 DEF e
    <3>2. CASE i # 1
      <4> DEFINE k == i - 1
      <4>0. k \in 1..Len(wire') /\ k + 1 = i
        BY <1>2, <3>2
      <4>1. k \in 1..Len(wire') /\ wire'[k] = wire[i] /\ 1 \in 1..k
            /\ \A j \in 1..k : wire[j].fill < f
        BY <1>2, <2>2, <4>0
      <4> HIDE DEF k
      <4>2. \A j \in 1..(k - 1) : j + 1 \in 1..k /\ wire'[j] = wire[j + 1]
        BY <1>2, <4>1, SMTT(30)
      <4>3. \A j \in 1..(k - 1) : wire'[j].fill < f
        BY <4>1, <4>2
      <4>4. wire'[k].fill = f \/ (wire'[k].gap /\ f <= wire'[k].fill)
        BY <2>2, <4>1
      <4>5. wire[1].fill < f
        BY <4>1
      <4>6. Foretold(f)'
        BY <4>1, <4>3, <4>4 DEF Foretold
      <4> QED
        BY <1>3, <1>4, <4>5, <4>6 DEF e
    <3> QED
      BY <3>1, <3>2
  <2> QED
    BY <1>5, <2>1, <2>2 DEF Foretold
<1>6. started /\ ~replayQueued' => ~replayQueued /\ ~e.gap /\ open
  BY <1>1 DEF Placed
<1>7. up /\ UNCHANGED <<floor, got, seam, cut>>
  BY <1>1 DEF Placed, Fills!consumer, Fills!ghosts
<1>8. e.stamped /\ started /\ Fills!Moves(FALSE) => HadTo(e.fill - 1)
  <2> SUFFICES ASSUME started, Fills!Moves(FALSE), NEW f \in Fills!Fills, floor < f,
                      f <= e.fill - 1
               PROVE  f \in Had
    BY DEF HadTo
  <2>1. ~replaying /\ ~replayQueued /\ ~e.gap
    BY <1>6 DEF Fills!Moves
  <2>2. 0 < f /\ f < e.fill /\ f <= log
    BY <1>3, <1>4 DEF Fills!Fills, Fills!TypeOK, Fills!Cursors
  <2>3. f \in Had \/ Foretold(f)
    BY <1>7, <2>1, <2>2 DEF CaughtUp, NotedFrom
  <2> QED
    BY <1>3, <1>4, <1>5, <2>1, <2>2, <2>3
<1>9. /\ cursor' \in Fills!Cursors
      /\ emitting' \in [{"live", "replay"} -> [fill : Fills!Cursors, cursor : Fills!Cursors]]
      /\ \A h \in {"live", "replay"} : emitting'[h].fill = 0 => emitting'[h] = Fills!Nothing
      /\ seen' \in Seq(Fills!Fills) /\ Len(seen') <= Window
      /\ Had \subseteq Had' /\ (started => e.fill \in Had')
      /\ HadNext(cursor') /\ \A h \in {"live", "replay"} : HadNext(emitting'[h].cursor)
      /\ \A i \in 1..Len(seen') : seen'[i] \in Had'
  <2>1. CASE started
    <3>1. Fills!Deliver("live", e.fill, e.stamped) /\ e.stamped \in BOOLEAN
          /\ Fills!Moves("live" = "replay") = Fills!Moves(FALSE)
      BY <1>1, <1>3, <2>1 DEF Event, Fills!Moves
    <3> QED
      BY <1>1, <1>3, <1>7, <1>8, <2>1, <3>1, FillsDeliver
  <2>2. CASE ~started
    <3>1. UNCHANGED <<seen, cursor, emitting>> /\ Had' = Had
      BY <1>1, <1>7, <2>2 DEF Had, Fills!OnTheWay
    <3> QED
      BY <1>7, <2>2, <3>1 DEF Fills!TypeOK, Placed, Backed, HadTo, HadNext
  <2> QED
    BY <2>1, <2>2
<1>10. Fills!TypeOK'
  <2>1. replayQueued' \in BOOLEAN /\ replayCh' \in BOOLEAN
    BY Zenon, <1>1
  <2> QED
    BY <1>1, <1>2, <1>9, <2>1 DEF Fills!loop, Fills!consumer, Fills!ghosts, Fills!TypeOK, Event
<1>11. Placed'
  <2>1. \A i \in 1..Len(wire') : wire'[i].fill <= log
    BY <1>2 DEF Placed
  <2> QED
    BY <1>1, <1>7, <1>9, <2>1 DEF Fills!loop, Fills!TypeOK, Placed
<1>12. \A c \in Fills!Cursors : HadTo(c) => HadNext(c)
  <2>1. floor <= floor'
    BY <1>7 DEF Fills!TypeOK, Fills!Cursors
  <2> QED
    BY <1>9, <1>10, <2>1, FillsHadKept
<1>13. Backed'
  <2>1. /\ HadNext(persisted') /\ HadNext(cursor') /\ HadNext(local') /\ HadNext(at')
        /\ \A g \in {"live", "replay"} : HadNext(emitting'[g].cursor)
        /\ \A i \in 1..Len(seen') : seen'[i] \in Had'
    BY <1>1, <1>9, <1>12 DEF Fills!loop, Fills!consumer, Fills!TypeOK, Backed
  <2> QED
    BY <2>1 DEF Backed, HadTo, HadNext
<1>14. CaughtUp'
  <2>1. ASSUME started, ~e.gap, NEW h \in Fills!Cursors, NotedFrom(h), NEW f \in Fills!Fills,
               floor' < f, h < f, f <= log'
        PROVE  f \in Had' \/ Foretold(f)'
    BY <1>1, <1>5, <1>7, <1>9, <2>1 DEF NotedFrom
  <2>2. started /\ ~e.gap => \A h \in Fills!Cursors : NotedFrom(h) => NotedNext(h)
    BY <2>1 DEF NotedNext
  <2>3. started' /\ ~replayQueued' =>
          /\ ~replaying' => NotedNext(0)
          /\ rpc' = "end" => NotedNext(local')
          /\ rpc' = "page" /\ to' - local' < PageLimit => NotedNext(to')
    BY <1>1, <1>6, <2>2 DEF Fills!loop, Fills!TypeOK, Fills!Cursors, CaughtUp
  <2> QED
    BY <2>3 DEF CaughtUp, NotedFrom, NotedNext
<1> QED
  BY <1>10, <1>11, <1>13, <1>14

LEMMA FillsInitInv == ConstantsOK /\ Fills!Init => FillsInv
<1> SUFFICES ASSUME ConstantsOK, Fills!Init PROVE FillsInv
  OBVIOUS
<1> USE DEF ConstantsOK, Fills!Init, Fills!Closed, Fills!Nothing, Fills!Fills, Fills!Cursors
<1>1. Fills!TypeOK
  <2>1. /\ up \in BOOLEAN /\ registered \in BOOLEAN /\ lossy \in BOOLEAN /\ open \in BOOLEAN
        /\ started \in BOOLEAN /\ replaying \in BOOLEAN /\ replayQueued \in BOOLEAN
        /\ replayCh \in BOOLEAN
    BY Zenon
  <2>2. /\ wire \in Seq([fill : Fills!Fills, stamped : BOOLEAN, gap : BOOLEAN])
        /\ seen \in Seq(Fills!Fills) /\ Len(seen) <= Window
    OBVIOUS
  <2>3. emitting \in [{"live", "replay"} -> [fill : Fills!Cursors, cursor : Fills!Cursors]]
    OBVIOUS
  <2>4. /\ log \in Fills!Cursors /\ cursor \in Fills!Cursors /\ local \in Fills!Cursors
        /\ at \in Fills!Cursors /\ to \in Fills!Cursors /\ persisted \in Fills!Cursors
        /\ floor \in Fills!Cursors /\ faults \in 0..FillFaults
    OBVIOUS
  <2>5. /\ got \in SUBSET Fills!Fills /\ seam \in SUBSET Fills!Fills
        /\ cut \in SUBSET Fills!Fills
    OBVIOUS
  <2> QED
    BY <2>1, <2>2, <2>3, <2>4, <2>5 DEF Fills!TypeOK
<1>2. Placed /\ CaughtUp
  BY DEF Placed, CaughtUp
<1>3. Backed
  BY DEF Backed, HadTo
<1> QED
  BY <1>1, <1>2, <1>3 DEF FillsInv

LEMMA FillsStepsKept ==
    ASSUME ConstantsOK, FillsInv, [Fills!Next]_(Fills!vars)
    PROVE  FillsInv'
<1>1. CASE UNCHANGED Fills!vars
  BY <1>1 DEF Fills!vars, Fills!server, Fills!stream, Fills!loop, Fills!consumer, Fills!ghosts,
    FillsInv, Fills!TypeOK, Placed, Backed, CaughtUp, Had, HadTo, NotedFrom, Foretold,
    Fills!OnTheWay
<1> QED
  BY <1>1, FillsCommitStep, FillsCommitLostStep, FillsRegisterStep, FillsDropStep,
     FillsAuthenticateStep, FillsWatchRealmFillsStep, FillsStartStep, FillsCrashStep,
     FillsOnLiveFillStep, FillsEmitStep, FillsBeginReplayStep, FillsListRealmFillsStep,
     FillsListFailsStep, FillsDeliverRowStep, FillsPageDoneStep, FillsEndReplayStep
     DEF Fills!Next

(* deliver and runReplay, for any length of the log, pages, window, losses *)
(* and crashes: whatever interleaving of live and replayed fills, no       *)
(* cursor the consumer is handed is past a fill it has not got and is not  *)
(* about to get, except a fill committed before the server took up the     *)
(* subscription (seam) and one whose callback the end of the process cut   *)
(* off after the cursor had moved (cut). The run fills_skip shows that the *)
(* latter is lost.                                                         *)
THEOREM FillsAreKept == Spec => []FillsKept
<1> DEFINE Inv == stream = "fills" => FillsInv
<1>1. Init => Inv
  BY ConstantsOK, FillsInitInv DEF Init
<1>2. Inv /\ [Next]_vars => Inv'
  <2> SUFFICES ASSUME Inv, [Next]_vars, stream' = "fills" PROVE FillsInv'
    OBVIOUS
  <2>1. stream = "fills" /\ [Fills!Next]_(Fills!vars)
    BY DEF Next, vars, FillsNext, ExchangeNext, ProjectionNext, fillsOnly, Fills!vars,
      Fills!server, Fills!stream, Fills!loop, Fills!consumer, Fills!ghosts
  <2> QED
    BY <2>1, ConstantsOK, FillsStepsKept
<1>3. Inv => FillsKept
  <2> SUFFICES ASSUME FillsInv PROVE Fills!TypeOK /\ Fills!NoSkip
    BY DEF FillsKept
  <2>1. HadTo(persisted)
    BY DEF FillsInv, Backed
  <2> QED
    BY <2>1 DEF FillsInv, HadTo, Had, Fills!NoSkip, Fills!Skipped
<1> QED
  BY <1>1, <1>2, <1>3, PTL DEF Spec

-----------------------------------------------------------------------------
(* ProjectionStream.                                                       *)

(* Where the three goroutines are. setScope and resync's reread exclude    *)
(* each other under scopeMu.                                               *)
AtWork ==
    /\ recreating <=> rpc # "idle"
    /\ redo => recreating
    /\ resyncing <=> ypc # "idle"
    /\ upc # "idle" => ypc \notin {"ask", "reply", "markets"}

(* Ids only grow: a watch that recreate is making is newer than the one    *)
(* that is held, and that one than any setScope or resync began with.      *)
Numbered ==
    /\ watchID <= used
    /\ ureply.id <= watchID /\ yreply.id <= watchID
    /\ rpc \in {"reply", "store"} => watchID < rreply.id /\ rreply.id <= used
    /\ rpc = "ask" => rreply.id = 0
    /\ \A w \in watches : w.id <= used

(* An aggregation has one scope, which its rows are taken to be, and       *)
(* neither setScope nor resync.                                            *)
Bare ==
    /\ rpc = "store" => kind = "aggregation"
    /\ kind = "aggregation" =>
          /\ upc = "idle" /\ ypc = "idle" /\ gaps = 0 /\ missing = {} /\ rows = paths
          /\ rpc \in {"ask", "reply", "store"} => rreply.rows = paths

(* The rows are those of the present scope, or a setScope that can still   *)
(* put them in place is under way. A watch that was replaced is gone.      *)
InScope ==
    ~stopped =>
        /\ rows = paths \/ behind \/ (upc \in {"ask", "reply"} /\ ureply.id = watchID)
        /\ upc = "reply" => ureply.rows = paths
        /\ ypc \in {"ask", "reply"} => yreply.rows = paths
        /\ ypc = "ask" /\ yreply.id # watchID => \A w \in watches : w.id # yreply.id

(* A live watch has the scope of the reply on its way, or of the rows.     *)
Fed ==
    ~stopped =>
        \A w \in watches :
           /\ w.id = watchID /\ upc = "reply" /\ ureply.id = watchID => w.scope = ureply.rows
           /\ w.id = watchID /\ ypc = "reply" /\ yreply.id = watchID => w.scope = yreply.rows
           /\ /\ w.id = watchID
              /\ ~(upc = "reply" /\ ureply.id = watchID) /\ ~(ypc = "reply" /\ yreply.id = watchID)
              => w.scope = rows \/ behind
           /\ rpc \in {"reply", "store"} /\ w.id = rreply.id => w.scope = rreply.rows

(* A snapshot lacks a frame whose gap was not passed over.                 *)
Owing(answer) == answer \in missing /\ answer \notin skipped

(* A resync or a recreate is about to come, or recreate has yet to read.   *)
Ahead ==
    \/ gaps > 0 \/ ~up \/ triggers > 0 \/ redo
    \/ rpc \in {"read", "ask", "backoff"}
    \/ rpc = "reply" /\ "create" \notin missing

(* What a snapshot owes is going to be read again.                         *)
MadeGood ==
    ~stopped =>
        /\ rpc = "reply" /\ Owing("create") => gaps > 0 \/ redo
        /\ upc = "reply" /\ ureply.id = watchID /\ Owing("scope") =>
              Ahead \/ ypc \in {"lock", "failed"}
        /\ ypc = "reply" /\ yreply.id = watchID /\ Owing("reread") => Ahead \/ resyncAgain
        /\ Owing("rows") =>
              \/ Ahead
              \/ ypc \in {"lock", "ask", "failed"}
              \/ ypc \in {"reply", "markets"} /\ resyncAgain
              \/ ypc = "reply" /\ yreply.id = watchID /\ "reread" \notin missing

(* Whose each watch is, and which markets are held.                        *)
Owned ==
    /\ \A w \in watches :
          \/ w.id \in orphans
          \/ w.id = watchID /\ ~stopped
          \/ w.id = rreply.id /\ rpc \in {"reply", "store"}
    /\ stopped \/ kind = "aggregation" => interest = {}
    /\ ~stopped /\ kind = "projection" =>
          interest = {rows} \/ rpc = "markets" \/ upc = "markets" \/ ypc = "markets"

WatchedAs(id) == \E w \in watches : w.id = id /\ w.conn = conn

(* While no trigger is left to be taken or honoured, the watch is there,   *)
(* or recreate is at work on a new one.                                    *)
Live ==
    up /\ ~stopped /\ triggers = 0 /\ (kind = "projection" \/ faults = 0) =>
        /\ rpc = "idle" => WatchedAs(watchID)
        /\ rpc \in {"markets", "ended"} /\ ~redo => WatchedAs(watchID)
        /\ rpc \in {"reply", "store"} /\ ~redo => WatchedAs(rreply.id)

ProjectionInv ==
    /\ Projection!TypeOK /\ AtWork /\ Numbered /\ Bare /\ InScope /\ Fed /\ Owned /\ Live
    /\ MadeGood

-----------------------------------------------------------------------------
LEMMA ProjectionGapStep ==
    ASSUME ConstantsOK, ProjectionInv, Projection!Gap
    PROVE  ProjectionInv'
<1> USE DEF ProjectionInv, ConstantsOK, Projection!Ids, Projection!Reply, Projection!NoReply,
  Projection!Answers
<1>1. Projection!TypeOK'
  <2>1. /\ up' \in BOOLEAN /\ stopped' \in BOOLEAN /\ recreating' \in BOOLEAN
        /\ redo' \in BOOLEAN /\ resyncing' \in BOOLEAN /\ resyncAgain' \in BOOLEAN
        /\ renderCh' \in BOOLEAN /\ renderConnect' \in BOOLEAN /\ mine' \in BOOLEAN
        /\ behind' \in BOOLEAN
    BY Zenon DEF Projection!Gap, Projection!Fault, Projection!Snapshots,
      Projection!net, Projection!server, Projection!held, Projection!count,
      Projection!shown, Projection!life, Projection!TypeOK
  <2> QED
    BY <2>1, SMT DEF Projection!Gap, Projection!Fault, Projection!Snapshots,
      Projection!net, Projection!server, Projection!held, Projection!count,
      Projection!shown, Projection!life, Projection!TypeOK
<1>2. AtWork'
  BY DEF Projection!Gap, Projection!Fault, Projection!Snapshots,
    Projection!net, Projection!server, Projection!held, Projection!count,
    Projection!shown, Projection!life, Projection!TypeOK, AtWork
<1>3. Numbered'
  BY DEF Projection!Gap, Projection!Fault, Projection!Snapshots,
    Projection!net, Projection!server, Projection!held, Projection!count,
    Projection!shown, Projection!life, Projection!TypeOK, AtWork, Numbered
<1>4. Bare'
  BY DEF Projection!Gap, Projection!Fault, Projection!Snapshots,
    Projection!net, Projection!server, Projection!held, Projection!count,
    Projection!shown, Projection!life, Projection!TypeOK, Bare
<1>5. InScope'
  BY DEF Projection!Gap, Projection!Fault, Projection!Snapshots,
    Projection!net, Projection!server, Projection!held, Projection!count,
    Projection!shown, Projection!life, Projection!TypeOK, AtWork, Numbered,
    Bare, InScope
<1>6. Fed'
  BY DEF Projection!Gap, Projection!Fault, Projection!Snapshots,
    Projection!net, Projection!server, Projection!held, Projection!count,
    Projection!shown, Projection!life, Projection!TypeOK, AtWork, Numbered,
    Bare, InScope, Fed
<1>7. Owned'
  BY DEF Projection!Gap, Projection!Fault, Projection!Snapshots,
    Projection!net, Projection!server, Projection!held, Projection!count,
    Projection!shown, Projection!life, Projection!TypeOK, AtWork, Numbered,
    Owned
<1>8. Live'
  BY DEF Projection!Gap, Projection!Fault, Projection!Snapshots,
    Projection!net, Projection!server, Projection!held, Projection!count,
    Projection!shown, Projection!life, Projection!TypeOK, AtWork, Numbered,
    Live, WatchedAs
<1>9. MadeGood'
  BY DEF Projection!Gap, Projection!Fault, Projection!Snapshots,
    Projection!net, Projection!server, Projection!held, Projection!count,
    Projection!shown, Projection!life, Projection!TypeOK, AtWork, Numbered,
    Bare, InScope, MadeGood, Owing, Ahead
<1> QED
  BY <1>1, <1>2, <1>3, <1>4, <1>5, <1>6, <1>7, <1>8, <1>9

LEMMA ProjectionDisconnectedStep ==
    ASSUME ConstantsOK, ProjectionInv, Projection!Disconnected
    PROVE  ProjectionInv'
<1> USE DEF ProjectionInv, ConstantsOK, Projection!Ids, Projection!Reply, Projection!NoReply,
  Projection!Answers
<1>1. Projection!TypeOK'
  <2>1. /\ up' \in BOOLEAN /\ stopped' \in BOOLEAN /\ recreating' \in BOOLEAN
        /\ redo' \in BOOLEAN /\ resyncing' \in BOOLEAN /\ resyncAgain' \in BOOLEAN
        /\ renderCh' \in BOOLEAN /\ renderConnect' \in BOOLEAN /\ mine' \in BOOLEAN
        /\ behind' \in BOOLEAN
    BY Zenon DEF Projection!Disconnected, Projection!net, Projection!server,
      Projection!held, Projection!count, Projection!shown, Projection!life,
      Projection!TypeOK
  <2> QED
    BY <2>1, SMT DEF Projection!Disconnected, Projection!net,
      Projection!server, Projection!held, Projection!count, Projection!shown,
      Projection!life, Projection!TypeOK
<1>2. AtWork'
  BY DEF Projection!Disconnected, Projection!net, Projection!server,
    Projection!held, Projection!count, Projection!shown, Projection!life,
    Projection!TypeOK, AtWork
<1>3. Numbered'
  BY DEF Projection!Disconnected, Projection!net, Projection!server,
    Projection!held, Projection!count, Projection!shown, Projection!life,
    Projection!TypeOK, AtWork, Numbered
<1>4. Bare'
  BY DEF Projection!Disconnected, Projection!net, Projection!server,
    Projection!held, Projection!count, Projection!shown, Projection!life,
    Projection!TypeOK, Bare
<1>5. InScope'
  BY DEF Projection!Disconnected, Projection!net, Projection!server,
    Projection!held, Projection!count, Projection!shown, Projection!life,
    Projection!TypeOK, AtWork, Numbered, Bare, InScope
<1>6. Fed'
  BY DEF Projection!Disconnected, Projection!net, Projection!server,
    Projection!held, Projection!count, Projection!shown, Projection!life,
    Projection!TypeOK, AtWork, Numbered, Bare, InScope, Fed
<1>7. Owned'
  BY DEF Projection!Disconnected, Projection!net, Projection!server,
    Projection!held, Projection!count, Projection!shown, Projection!life,
    Projection!TypeOK, AtWork, Numbered, Owned
<1>8. Live'
  BY DEF Projection!Disconnected, Projection!net, Projection!server,
    Projection!held, Projection!count, Projection!shown, Projection!life,
    Projection!TypeOK, AtWork, Numbered, Live, WatchedAs
<1>9. MadeGood'
  BY DEF Projection!Disconnected, Projection!net, Projection!server,
    Projection!held, Projection!count, Projection!shown, Projection!life,
    Projection!TypeOK, AtWork, Numbered, Bare, InScope, MadeGood, Owing, Ahead
<1> QED
  BY <1>1, <1>2, <1>3, <1>4, <1>5, <1>6, <1>7, <1>8, <1>9

LEMMA ProjectionNewConnectionStep ==
    ASSUME ConstantsOK, ProjectionInv, Projection!NewConnection
    PROVE  ProjectionInv'
<1> USE DEF ProjectionInv, ConstantsOK, Projection!Ids, Projection!Reply, Projection!NoReply,
  Projection!Answers
<1>1. Projection!TypeOK'
  <2>1. /\ up' \in BOOLEAN /\ stopped' \in BOOLEAN /\ recreating' \in BOOLEAN
        /\ redo' \in BOOLEAN /\ resyncing' \in BOOLEAN /\ resyncAgain' \in BOOLEAN
        /\ renderCh' \in BOOLEAN /\ renderConnect' \in BOOLEAN /\ mine' \in BOOLEAN
        /\ behind' \in BOOLEAN
    BY Zenon DEF Projection!NewConnection, Projection!net, Projection!server,
      Projection!held, Projection!count, Projection!shown, Projection!life,
      Projection!TypeOK
  <2> QED
    BY <2>1, SMT DEF Projection!NewConnection, Projection!net,
      Projection!server, Projection!held, Projection!count, Projection!shown,
      Projection!life, Projection!TypeOK
<1>2. AtWork'
  BY DEF Projection!NewConnection, Projection!net, Projection!server,
    Projection!held, Projection!count, Projection!shown, Projection!life,
    Projection!TypeOK, AtWork
<1>3. Numbered'
  BY DEF Projection!NewConnection, Projection!net, Projection!server,
    Projection!held, Projection!count, Projection!shown, Projection!life,
    Projection!TypeOK, AtWork, Numbered
<1>4. Bare'
  BY DEF Projection!NewConnection, Projection!net, Projection!server,
    Projection!held, Projection!count, Projection!shown, Projection!life,
    Projection!TypeOK, Bare
<1>5. InScope'
  BY DEF Projection!NewConnection, Projection!net, Projection!server,
    Projection!held, Projection!count, Projection!shown, Projection!life,
    Projection!TypeOK, AtWork, Numbered, Bare, InScope
<1>6. Fed'
  BY DEF Projection!NewConnection, Projection!net, Projection!server,
    Projection!held, Projection!count, Projection!shown, Projection!life,
    Projection!TypeOK, AtWork, Numbered, Bare, InScope, Fed
<1>7. Owned'
  BY DEF Projection!NewConnection, Projection!net, Projection!server,
    Projection!held, Projection!count, Projection!shown, Projection!life,
    Projection!TypeOK, AtWork, Numbered, Owned
<1>8. Live'
  BY DEF Projection!NewConnection, Projection!net, Projection!server,
    Projection!held, Projection!count, Projection!shown, Projection!life,
    Projection!TypeOK, AtWork, Numbered, Live, WatchedAs
<1>9. MadeGood'
  BY DEF Projection!NewConnection, Projection!net, Projection!server,
    Projection!held, Projection!count, Projection!shown, Projection!life,
    Projection!TypeOK, AtWork, Numbered, Bare, InScope, MadeGood, Owing, Ahead
<1> QED
  BY <1>1, <1>2, <1>3, <1>4, <1>5, <1>6, <1>7, <1>8, <1>9

LEMMA ProjectionOnFrameStep ==
    ASSUME ConstantsOK, ProjectionInv, Projection!OnFrame
    PROVE  ProjectionInv'
<1> USE DEF ProjectionInv, ConstantsOK, Projection!Ids, Projection!Reply, Projection!NoReply,
  Projection!Answers
<1>1. Projection!TypeOK'
  <2>1. /\ up' \in BOOLEAN /\ stopped' \in BOOLEAN /\ recreating' \in BOOLEAN
        /\ redo' \in BOOLEAN /\ resyncing' \in BOOLEAN /\ resyncAgain' \in BOOLEAN
        /\ renderCh' \in BOOLEAN /\ renderConnect' \in BOOLEAN /\ mine' \in BOOLEAN
        /\ behind' \in BOOLEAN
    BY Zenon DEF Projection!OnFrame, Projection!RequestRender, Projection!net,
      Projection!server, Projection!held, Projection!count, Projection!shown,
      Projection!life, Projection!TypeOK
  <2> QED
    BY <2>1, SMT DEF Projection!OnFrame, Projection!RequestRender,
      Projection!net, Projection!server, Projection!held, Projection!count,
      Projection!shown, Projection!life, Projection!TypeOK
<1>2. AtWork'
  BY DEF Projection!OnFrame, Projection!RequestRender, Projection!net,
    Projection!server, Projection!held, Projection!count, Projection!shown,
    Projection!life, Projection!TypeOK, AtWork
<1>3. Numbered'
  BY DEF Projection!OnFrame, Projection!RequestRender, Projection!net,
    Projection!server, Projection!held, Projection!count, Projection!shown,
    Projection!life, Projection!TypeOK, AtWork, Numbered
<1>4. Bare'
  BY DEF Projection!OnFrame, Projection!RequestRender, Projection!net,
    Projection!server, Projection!held, Projection!count, Projection!shown,
    Projection!life, Projection!TypeOK, Bare
<1>5. InScope'
  BY DEF Projection!OnFrame, Projection!RequestRender, Projection!net,
    Projection!server, Projection!held, Projection!count, Projection!shown,
    Projection!life, Projection!TypeOK, AtWork, Numbered, Bare, InScope
<1>6. Fed'
  BY DEF Projection!OnFrame, Projection!RequestRender, Projection!net,
    Projection!server, Projection!held, Projection!count, Projection!shown,
    Projection!life, Projection!TypeOK, AtWork, Numbered, Bare, InScope, Fed
<1>7. Owned'
  BY DEF Projection!OnFrame, Projection!RequestRender, Projection!net,
    Projection!server, Projection!held, Projection!count, Projection!shown,
    Projection!life, Projection!TypeOK, AtWork, Numbered, Owned
<1>8. Live'
  BY DEF Projection!OnFrame, Projection!RequestRender, Projection!net,
    Projection!server, Projection!held, Projection!count, Projection!shown,
    Projection!life, Projection!TypeOK, AtWork, Numbered, Live, WatchedAs
<1>9. MadeGood'
  BY DEF Projection!OnFrame, Projection!RequestRender, Projection!net,
    Projection!server, Projection!held, Projection!count, Projection!shown,
    Projection!life, Projection!TypeOK, AtWork, Numbered, Bare, InScope,
    MadeGood, Owing, Ahead
<1> QED
  BY <1>1, <1>2, <1>3, <1>4, <1>5, <1>6, <1>7, <1>8, <1>9

LEMMA ProjectionOnMidsStep ==
    ASSUME ConstantsOK, ProjectionInv, Projection!OnMids
    PROVE  ProjectionInv'
<1> USE DEF ProjectionInv, ConstantsOK, Projection!Ids, Projection!Reply, Projection!NoReply,
  Projection!Answers
<1>1. Projection!TypeOK'
  <2>1. /\ up' \in BOOLEAN /\ stopped' \in BOOLEAN /\ recreating' \in BOOLEAN
        /\ redo' \in BOOLEAN /\ resyncing' \in BOOLEAN /\ resyncAgain' \in BOOLEAN
        /\ renderCh' \in BOOLEAN /\ renderConnect' \in BOOLEAN /\ mine' \in BOOLEAN
        /\ behind' \in BOOLEAN
    BY Zenon DEF Projection!OnMids, Projection!RequestRender, Projection!net,
      Projection!server, Projection!held, Projection!count, Projection!shown,
      Projection!life, Projection!TypeOK
  <2> QED
    BY <2>1, SMT DEF Projection!OnMids, Projection!RequestRender,
      Projection!net, Projection!server, Projection!held, Projection!count,
      Projection!shown, Projection!life, Projection!TypeOK
<1>2. AtWork'
  BY DEF Projection!OnMids, Projection!RequestRender, Projection!net,
    Projection!server, Projection!held, Projection!count, Projection!shown,
    Projection!life, Projection!TypeOK, AtWork
<1>3. Numbered'
  BY DEF Projection!OnMids, Projection!RequestRender, Projection!net,
    Projection!server, Projection!held, Projection!count, Projection!shown,
    Projection!life, Projection!TypeOK, AtWork, Numbered
<1>4. Bare'
  BY DEF Projection!OnMids, Projection!RequestRender, Projection!net,
    Projection!server, Projection!held, Projection!count, Projection!shown,
    Projection!life, Projection!TypeOK, Bare
<1>5. InScope'
  BY DEF Projection!OnMids, Projection!RequestRender, Projection!net,
    Projection!server, Projection!held, Projection!count, Projection!shown,
    Projection!life, Projection!TypeOK, AtWork, Numbered, Bare, InScope
<1>6. Fed'
  BY DEF Projection!OnMids, Projection!RequestRender, Projection!net,
    Projection!server, Projection!held, Projection!count, Projection!shown,
    Projection!life, Projection!TypeOK, AtWork, Numbered, Bare, InScope, Fed
<1>7. Owned'
  BY DEF Projection!OnMids, Projection!RequestRender, Projection!net,
    Projection!server, Projection!held, Projection!count, Projection!shown,
    Projection!life, Projection!TypeOK, AtWork, Numbered, Owned
<1>8. Live'
  BY DEF Projection!OnMids, Projection!RequestRender, Projection!net,
    Projection!server, Projection!held, Projection!count, Projection!shown,
    Projection!life, Projection!TypeOK, AtWork, Numbered, Live, WatchedAs
<1>9. MadeGood'
  BY DEF Projection!OnMids, Projection!RequestRender, Projection!net,
    Projection!server, Projection!held, Projection!count, Projection!shown,
    Projection!life, Projection!TypeOK, AtWork, Numbered, Bare, InScope,
    MadeGood, Owing, Ahead
<1> QED
  BY <1>1, <1>2, <1>3, <1>4, <1>5, <1>6, <1>7, <1>8, <1>9

LEMMA ProjectionRenderStep ==
    ASSUME ConstantsOK, ProjectionInv, Projection!Render
    PROVE  ProjectionInv'
<1> USE DEF ProjectionInv, ConstantsOK, Projection!Ids, Projection!Reply, Projection!NoReply,
  Projection!Answers
<1>1. Projection!TypeOK'
  <2>1. /\ up' \in BOOLEAN /\ stopped' \in BOOLEAN /\ recreating' \in BOOLEAN
        /\ redo' \in BOOLEAN /\ resyncing' \in BOOLEAN /\ resyncAgain' \in BOOLEAN
        /\ renderCh' \in BOOLEAN /\ renderConnect' \in BOOLEAN /\ mine' \in BOOLEAN
        /\ behind' \in BOOLEAN
    BY Zenon DEF Projection!Render, Projection!Connects, Projection!net,
      Projection!server, Projection!held, Projection!count, Projection!shown,
      Projection!life, Projection!TypeOK
  <2> QED
    BY <2>1, SMT DEF Projection!Render, Projection!Connects, Projection!net,
      Projection!server, Projection!held, Projection!count, Projection!shown,
      Projection!life, Projection!TypeOK
<1>2. AtWork'
  BY DEF Projection!Render, Projection!Connects, Projection!net,
    Projection!server, Projection!held, Projection!count, Projection!shown,
    Projection!life, Projection!TypeOK, AtWork
<1>3. Numbered'
  BY DEF Projection!Render, Projection!Connects, Projection!net,
    Projection!server, Projection!held, Projection!count, Projection!shown,
    Projection!life, Projection!TypeOK, AtWork, Numbered
<1>4. Bare'
  BY DEF Projection!Render, Projection!Connects, Projection!net,
    Projection!server, Projection!held, Projection!count, Projection!shown,
    Projection!life, Projection!TypeOK, Bare
<1>5. InScope'
  BY DEF Projection!Render, Projection!Connects, Projection!net,
    Projection!server, Projection!held, Projection!count, Projection!shown,
    Projection!life, Projection!TypeOK, AtWork, Numbered, Bare, InScope
<1>6. Fed'
  BY DEF Projection!Render, Projection!Connects, Projection!net,
    Projection!server, Projection!held, Projection!count, Projection!shown,
    Projection!life, Projection!TypeOK, AtWork, Numbered, Bare, InScope, Fed
<1>7. Owned'
  BY DEF Projection!Render, Projection!Connects, Projection!net,
    Projection!server, Projection!held, Projection!count, Projection!shown,
    Projection!life, Projection!TypeOK, AtWork, Numbered, Owned
<1>8. Live'
  BY DEF Projection!Render, Projection!Connects, Projection!net,
    Projection!server, Projection!held, Projection!count, Projection!shown,
    Projection!life, Projection!TypeOK, AtWork, Numbered, Live, WatchedAs
<1>9. MadeGood'
  BY DEF Projection!Render, Projection!Connects, Projection!net,
    Projection!server, Projection!held, Projection!count, Projection!shown,
    Projection!life, Projection!TypeOK, AtWork, Numbered, Bare, InScope,
    MadeGood, Owing, Ahead
<1> QED
  BY <1>1, <1>2, <1>3, <1>4, <1>5, <1>6, <1>7, <1>8, <1>9

LEMMA ProjectionRecreateStep ==
    ASSUME ConstantsOK, ProjectionInv, Projection!Recreate
    PROVE  ProjectionInv'
<1> USE DEF ProjectionInv, ConstantsOK, Projection!Ids, Projection!Reply, Projection!NoReply,
  Projection!Answers
<1>1. Projection!TypeOK'
  <2>1. /\ up' \in BOOLEAN /\ stopped' \in BOOLEAN /\ recreating' \in BOOLEAN
        /\ redo' \in BOOLEAN /\ resyncing' \in BOOLEAN /\ resyncAgain' \in BOOLEAN
        /\ renderCh' \in BOOLEAN /\ renderConnect' \in BOOLEAN /\ mine' \in BOOLEAN
        /\ behind' \in BOOLEAN
    BY Zenon DEF Projection!Recreate, Projection!StartRecreate,
      Projection!Again, Projection!net, Projection!server, Projection!held,
      Projection!count, Projection!shown, Projection!life, Projection!TypeOK
  <2> QED
    BY <2>1, SMT DEF Projection!Recreate, Projection!StartRecreate,
      Projection!Again, Projection!net, Projection!server, Projection!held,
      Projection!count, Projection!shown, Projection!life, Projection!TypeOK
<1>2. AtWork'
  BY DEF Projection!Recreate, Projection!StartRecreate, Projection!Again,
    Projection!net, Projection!server, Projection!held, Projection!count,
    Projection!shown, Projection!life, Projection!TypeOK, AtWork
<1>3. Numbered'
  BY DEF Projection!Recreate, Projection!StartRecreate, Projection!Again,
    Projection!net, Projection!server, Projection!held, Projection!count,
    Projection!shown, Projection!life, Projection!TypeOK, AtWork, Numbered
<1>4. Bare'
  BY DEF Projection!Recreate, Projection!StartRecreate, Projection!Again,
    Projection!net, Projection!server, Projection!held, Projection!count,
    Projection!shown, Projection!life, Projection!TypeOK, Bare
<1>5. InScope'
  BY DEF Projection!Recreate, Projection!StartRecreate, Projection!Again,
    Projection!net, Projection!server, Projection!held, Projection!count,
    Projection!shown, Projection!life, Projection!TypeOK, AtWork, Numbered,
    Bare, InScope
<1>6. Fed'
  BY DEF Projection!Recreate, Projection!StartRecreate, Projection!Again,
    Projection!net, Projection!server, Projection!held, Projection!count,
    Projection!shown, Projection!life, Projection!TypeOK, AtWork, Numbered,
    Bare, InScope, Fed
<1>7. Owned'
  BY DEF Projection!Recreate, Projection!StartRecreate, Projection!Again,
    Projection!net, Projection!server, Projection!held, Projection!count,
    Projection!shown, Projection!life, Projection!TypeOK, AtWork, Numbered,
    Owned
<1>8. Live'
  BY DEF Projection!Recreate, Projection!StartRecreate, Projection!Again,
    Projection!net, Projection!server, Projection!held, Projection!count,
    Projection!shown, Projection!life, Projection!TypeOK, AtWork, Numbered,
    Live, WatchedAs
<1>9. MadeGood'
  BY DEF Projection!Recreate, Projection!StartRecreate, Projection!Again,
    Projection!net, Projection!server, Projection!held, Projection!count,
    Projection!shown, Projection!life, Projection!TypeOK, AtWork, Numbered,
    Bare, InScope, MadeGood, Owing, Ahead
<1> QED
  BY <1>1, <1>2, <1>3, <1>4, <1>5, <1>6, <1>7, <1>8, <1>9

LEMMA ProjectionReadScopeStep ==
    ASSUME ConstantsOK, ProjectionInv, Projection!ReadScope
    PROVE  ProjectionInv'
<1> USE DEF ProjectionInv, ConstantsOK, Projection!Ids, Projection!Reply, Projection!NoReply,
  Projection!Answers
<1>1. Projection!TypeOK'
  <2>1. /\ up' \in BOOLEAN /\ stopped' \in BOOLEAN /\ recreating' \in BOOLEAN
        /\ redo' \in BOOLEAN /\ resyncing' \in BOOLEAN /\ resyncAgain' \in BOOLEAN
        /\ renderCh' \in BOOLEAN /\ renderConnect' \in BOOLEAN /\ mine' \in BOOLEAN
        /\ behind' \in BOOLEAN
    BY Zenon DEF Projection!ReadScope, Projection!net, Projection!server,
      Projection!held, Projection!count, Projection!shown, Projection!life,
      Projection!TypeOK
  <2> QED
    BY <2>1, SMT DEF Projection!ReadScope, Projection!net, Projection!server,
      Projection!held, Projection!count, Projection!shown, Projection!life,
      Projection!TypeOK
<1>2. AtWork'
  BY DEF Projection!ReadScope, Projection!net, Projection!server,
    Projection!held, Projection!count, Projection!shown, Projection!life,
    Projection!TypeOK, AtWork
<1>3. Numbered'
  BY DEF Projection!ReadScope, Projection!net, Projection!server,
    Projection!held, Projection!count, Projection!shown, Projection!life,
    Projection!TypeOK, AtWork, Numbered
<1>4. Bare'
  BY DEF Projection!ReadScope, Projection!net, Projection!server,
    Projection!held, Projection!count, Projection!shown, Projection!life,
    Projection!TypeOK, Bare
<1>5. InScope'
  BY DEF Projection!ReadScope, Projection!net, Projection!server,
    Projection!held, Projection!count, Projection!shown, Projection!life,
    Projection!TypeOK, AtWork, Numbered, Bare, InScope
<1>6. Fed'
  BY DEF Projection!ReadScope, Projection!net, Projection!server,
    Projection!held, Projection!count, Projection!shown, Projection!life,
    Projection!TypeOK, AtWork, Numbered, Bare, InScope, Fed
<1>7. Owned'
  BY DEF Projection!ReadScope, Projection!net, Projection!server,
    Projection!held, Projection!count, Projection!shown, Projection!life,
    Projection!TypeOK, AtWork, Numbered, Owned
<1>8. Live'
  BY DEF Projection!ReadScope, Projection!net, Projection!server,
    Projection!held, Projection!count, Projection!shown, Projection!life,
    Projection!TypeOK, AtWork, Numbered, Live, WatchedAs
<1>9. MadeGood'
  BY DEF Projection!ReadScope, Projection!net, Projection!server,
    Projection!held, Projection!count, Projection!shown, Projection!life,
    Projection!TypeOK, AtWork, Numbered, Bare, InScope, MadeGood, Owing, Ahead
<1> QED
  BY <1>1, <1>2, <1>3, <1>4, <1>5, <1>6, <1>7, <1>8, <1>9

LEMMA ProjectionCreateWatchStep ==
    ASSUME ConstantsOK, ProjectionInv, Projection!CreateWatch
    PROVE  ProjectionInv'
<1> USE DEF ProjectionInv, ConstantsOK, Projection!Ids, Projection!Reply, Projection!NoReply,
  Projection!Answers
<1>1. Projection!TypeOK'
  <2>1. /\ up' \in BOOLEAN /\ stopped' \in BOOLEAN /\ recreating' \in BOOLEAN
        /\ redo' \in BOOLEAN /\ resyncing' \in BOOLEAN /\ resyncAgain' \in BOOLEAN
        /\ renderCh' \in BOOLEAN /\ renderConnect' \in BOOLEAN /\ mine' \in BOOLEAN
        /\ behind' \in BOOLEAN
    BY Zenon DEF Projection!CreateWatch, Projection!Snapshot, Projection!net,
      Projection!server, Projection!held, Projection!count, Projection!shown,
      Projection!life, Projection!TypeOK
  <2> QED
    BY <2>1, SMT DEF Projection!CreateWatch, Projection!Snapshot,
      Projection!net, Projection!server, Projection!held, Projection!count,
      Projection!shown, Projection!life, Projection!TypeOK
<1>2. AtWork'
  BY DEF Projection!CreateWatch, Projection!Snapshot, Projection!net,
    Projection!server, Projection!held, Projection!count, Projection!shown,
    Projection!life, Projection!TypeOK, AtWork
<1>3. Numbered'
  BY DEF Projection!CreateWatch, Projection!Snapshot, Projection!net,
    Projection!server, Projection!held, Projection!count, Projection!shown,
    Projection!life, Projection!TypeOK, AtWork, Numbered
<1>4. Bare'
  BY DEF Projection!CreateWatch, Projection!Snapshot, Projection!net,
    Projection!server, Projection!held, Projection!count, Projection!shown,
    Projection!life, Projection!TypeOK, Bare
<1>5. InScope'
  BY DEF Projection!CreateWatch, Projection!Snapshot, Projection!net,
    Projection!server, Projection!held, Projection!count, Projection!shown,
    Projection!life, Projection!TypeOK, AtWork, Numbered, Bare, InScope
<1>6. Fed'
  BY DEF Projection!CreateWatch, Projection!Snapshot, Projection!net,
    Projection!server, Projection!held, Projection!count, Projection!shown,
    Projection!life, Projection!TypeOK, AtWork, Numbered, Bare, InScope, Fed
<1>7. Owned'
  BY DEF Projection!CreateWatch, Projection!Snapshot, Projection!net,
    Projection!server, Projection!held, Projection!count, Projection!shown,
    Projection!life, Projection!TypeOK, AtWork, Numbered, Owned
<1>8. Live'
  <2>1. \E w \in watches' : w.id = rreply'.id /\ w.conn = conn'
    <3> DEFINE v == [id |-> used + 1, conn |-> conn, scope |-> rreply.rows]
    <3>1. v \in watches' /\ v.id = used + 1 /\ v.conn = conn'
      BY DEF Projection!CreateWatch, Projection!net
    <3>2. rreply'.id = used + 1
      BY DEF Projection!CreateWatch, Projection!TypeOK
    <3> QED
      BY <3>1, <3>2
  <2>2. rpc' = "reply"
    BY DEF Projection!CreateWatch
  <2> QED
    BY <2>1, <2>2 DEF Live, WatchedAs
<1>9. MadeGood'
  BY DEF Projection!CreateWatch, Projection!Snapshot, Projection!net,
    Projection!server, Projection!held, Projection!count, Projection!shown,
    Projection!life, Projection!TypeOK, AtWork, Numbered, Bare, InScope,
    MadeGood, Owing, Ahead
<1> QED
  BY <1>1, <1>2, <1>3, <1>4, <1>5, <1>6, <1>7, <1>8, <1>9

LEMMA ProjectionCreateFailsStep ==
    ASSUME ConstantsOK, ProjectionInv, Projection!CreateFails
    PROVE  ProjectionInv'
<1> USE DEF ProjectionInv, ConstantsOK, Projection!Ids, Projection!Reply, Projection!NoReply,
  Projection!Answers
<1>0. /\ rreply.id \in 0..MaxWatches /\ {rreply.id} \ {0} \subseteq 1..MaxWatches
  BY DEF Projection!TypeOK
<1>1. Projection!TypeOK'
  <2>1. /\ up' \in BOOLEAN /\ stopped' \in BOOLEAN /\ recreating' \in BOOLEAN
        /\ redo' \in BOOLEAN /\ resyncing' \in BOOLEAN /\ resyncAgain' \in BOOLEAN
        /\ renderCh' \in BOOLEAN /\ renderConnect' \in BOOLEAN /\ mine' \in BOOLEAN
        /\ behind' \in BOOLEAN
    BY <1>0, Zenon DEF Projection!CreateFails, Projection!AttemptFails,
      Projection!Fault, Projection!Destroy, Projection!net, Projection!server,
      Projection!held, Projection!count, Projection!shown, Projection!life,
      Projection!TypeOK
  <2>2. /\ kind' \in {"projection", "aggregation"} /\ conn' \in 1..MaxConns
        /\ used' \in 0..MaxWatches /\ triggers' \in Nat /\ gaps' \in Nat
        /\ watchID' \in Projection!Ids /\ paths' \in Scopes /\ rows' \in Scopes
        /\ state' \in {"connected", "reconnecting"}
        /\ rpc' \in {"idle", "read", "ask", "reply", "store", "markets", "ended", "backoff"}
        /\ upc' \in {"idle", "ask", "reply", "markets"}
        /\ ypc' \in {"idle", "lock", "ask", "reply", "markets", "failed", "join", "ended"}
        /\ calls' \in 0..MaxScopes /\ faults' \in 0..ProjectionFaults
    BY <1>0, SMT DEF Projection!CreateFails, Projection!AttemptFails,
      Projection!Fault, Projection!Destroy, Projection!net, Projection!server,
      Projection!held, Projection!count, Projection!shown, Projection!life,
      Projection!TypeOK
  <2>3. watches' \in SUBSET [id : Projection!Ids, conn : 1..MaxConns, scope : Scopes]
    BY <1>0 DEF Projection!CreateFails, Projection!AttemptFails,
      Projection!Fault, Projection!Destroy, Projection!net, Projection!server,
      Projection!held, Projection!count, Projection!shown, Projection!life,
      Projection!TypeOK
  <2>4. /\ orphans' \in SUBSET Projection!Ids
        /\ markets' \in SUBSET Scopes /\ interest' \in SUBSET Scopes
        /\ missing' \in SUBSET Projection!Answers /\ skipped' \in SUBSET Projection!Answers
    <3>1. orphans' = orphans \cup ({rreply.id} \ {0}) \/ orphans' = orphans
      BY DEF Projection!CreateFails, Projection!AttemptFails
    <3>2. orphans' \in SUBSET Projection!Ids
      BY <1>0, <3>1 DEF Projection!TypeOK
    <3>3. UNCHANGED <<markets, interest, missing, skipped>>
      BY DEF Projection!CreateFails, Projection!AttemptFails, Projection!count, Projection!shown
    <3> QED
      BY <3>2, <3>3 DEF Projection!TypeOK
  <2>5. /\ rreply' \in Projection!Reply /\ ureply' \in Projection!Reply
        /\ yreply' \in Projection!Reply
    BY <1>0, SMT DEF Projection!CreateFails, Projection!AttemptFails,
      Projection!Fault, Projection!Destroy, Projection!net, Projection!server,
      Projection!held, Projection!count, Projection!shown, Projection!life,
      Projection!TypeOK
  <2> QED
    BY <2>1, <2>2, <2>3, <2>4, <2>5 DEF Projection!TypeOK
<1>2. AtWork'
  BY <1>0 DEF Projection!CreateFails, Projection!AttemptFails,
    Projection!Fault, Projection!Destroy, Projection!net, Projection!server,
    Projection!held, Projection!count, Projection!shown, Projection!life,
    Projection!TypeOK, AtWork
<1>3. Numbered'
  BY <1>0 DEF Projection!CreateFails, Projection!AttemptFails,
    Projection!Fault, Projection!Destroy, Projection!net, Projection!server,
    Projection!held, Projection!count, Projection!shown, Projection!life,
    Projection!TypeOK, AtWork, Numbered
<1>4. Bare'
  BY <1>0 DEF Projection!CreateFails, Projection!AttemptFails,
    Projection!Fault, Projection!Destroy, Projection!net, Projection!server,
    Projection!held, Projection!count, Projection!shown, Projection!life,
    Projection!TypeOK, Bare
<1>5. InScope'
  BY <1>0 DEF Projection!CreateFails, Projection!AttemptFails,
    Projection!Fault, Projection!Destroy, Projection!net, Projection!server,
    Projection!held, Projection!count, Projection!shown, Projection!life,
    Projection!TypeOK, AtWork, Numbered, Bare, InScope
<1>6. Fed'
  BY <1>0 DEF Projection!CreateFails, Projection!AttemptFails,
    Projection!Fault, Projection!Destroy, Projection!net, Projection!server,
    Projection!held, Projection!count, Projection!shown, Projection!life,
    Projection!TypeOK, AtWork, Numbered, Bare, InScope, Fed
<1>7. Owned'
  BY <1>0 DEF Projection!CreateFails, Projection!AttemptFails,
    Projection!Fault, Projection!Destroy, Projection!net, Projection!server,
    Projection!held, Projection!count, Projection!shown, Projection!life,
    Projection!TypeOK, AtWork, Numbered, Owned
<1>8. Live'
  BY <1>0 DEF Projection!CreateFails, Projection!AttemptFails,
    Projection!Fault, Projection!Destroy, Projection!net, Projection!server,
    Projection!held, Projection!count, Projection!shown, Projection!life,
    Projection!TypeOK, AtWork, Numbered, Live, WatchedAs
<1>9. MadeGood'
  BY <1>0 DEF Projection!CreateFails, Projection!AttemptFails,
    Projection!Fault, Projection!Destroy, Projection!net, Projection!server,
    Projection!held, Projection!count, Projection!shown, Projection!life,
    Projection!TypeOK, AtWork, Numbered, Bare, InScope, MadeGood, Owing, Ahead
<1> QED
  BY <1>1, <1>2, <1>3, <1>4, <1>5, <1>6, <1>7, <1>8, <1>9

LEMMA ProjectionCreateGivenUpStep ==
    ASSUME ConstantsOK, ProjectionInv, Projection!CreateGivenUp
    PROVE  ProjectionInv'
<1> USE DEF ProjectionInv, ConstantsOK, Projection!Ids, Projection!Reply, Projection!NoReply,
  Projection!Answers
<1>0. /\ rreply.id \in 0..MaxWatches /\ {rreply.id} \ {0} \subseteq 1..MaxWatches
  BY DEF Projection!TypeOK
<1>1. Projection!TypeOK'
  <2>1. /\ up' \in BOOLEAN /\ stopped' \in BOOLEAN /\ recreating' \in BOOLEAN
        /\ redo' \in BOOLEAN /\ resyncing' \in BOOLEAN /\ resyncAgain' \in BOOLEAN
        /\ renderCh' \in BOOLEAN /\ renderConnect' \in BOOLEAN /\ mine' \in BOOLEAN
        /\ behind' \in BOOLEAN
    BY <1>0, Zenon DEF Projection!CreateGivenUp, Projection!AttemptFails,
      Projection!Fault, Projection!Destroy, Projection!net, Projection!server,
      Projection!held, Projection!count, Projection!shown, Projection!life,
      Projection!TypeOK
  <2>2. /\ kind' \in {"projection", "aggregation"} /\ conn' \in 1..MaxConns
        /\ used' \in 0..MaxWatches /\ triggers' \in Nat /\ gaps' \in Nat
        /\ watchID' \in Projection!Ids /\ paths' \in Scopes /\ rows' \in Scopes
        /\ state' \in {"connected", "reconnecting"}
        /\ rpc' \in {"idle", "read", "ask", "reply", "store", "markets", "ended", "backoff"}
        /\ upc' \in {"idle", "ask", "reply", "markets"}
        /\ ypc' \in {"idle", "lock", "ask", "reply", "markets", "failed", "join", "ended"}
        /\ calls' \in 0..MaxScopes /\ faults' \in 0..ProjectionFaults
    BY <1>0, SMT DEF Projection!CreateGivenUp, Projection!AttemptFails,
      Projection!Fault, Projection!Destroy, Projection!net, Projection!server,
      Projection!held, Projection!count, Projection!shown, Projection!life,
      Projection!TypeOK
  <2>3. watches' \in SUBSET [id : Projection!Ids, conn : 1..MaxConns, scope : Scopes]
    BY <1>0 DEF Projection!CreateGivenUp, Projection!AttemptFails,
      Projection!Fault, Projection!Destroy, Projection!net, Projection!server,
      Projection!held, Projection!count, Projection!shown, Projection!life,
      Projection!TypeOK
  <2>4. /\ orphans' \in SUBSET Projection!Ids
        /\ markets' \in SUBSET Scopes /\ interest' \in SUBSET Scopes
        /\ missing' \in SUBSET Projection!Answers /\ skipped' \in SUBSET Projection!Answers
    <3>1. orphans' = orphans \cup ({rreply.id} \ {0}) \/ orphans' = orphans
      BY DEF Projection!CreateGivenUp, Projection!AttemptFails
    <3>2. orphans' \in SUBSET Projection!Ids
      BY <1>0, <3>1 DEF Projection!TypeOK
    <3>3. UNCHANGED <<markets, interest, missing, skipped>>
      BY DEF Projection!CreateGivenUp, Projection!AttemptFails, Projection!count, Projection!shown
    <3> QED
      BY <3>2, <3>3 DEF Projection!TypeOK
  <2>5. /\ rreply' \in Projection!Reply /\ ureply' \in Projection!Reply
        /\ yreply' \in Projection!Reply
    BY <1>0, SMT DEF Projection!CreateGivenUp, Projection!AttemptFails,
      Projection!Fault, Projection!Destroy, Projection!net, Projection!server,
      Projection!held, Projection!count, Projection!shown, Projection!life,
      Projection!TypeOK
  <2> QED
    BY <2>1, <2>2, <2>3, <2>4, <2>5 DEF Projection!TypeOK
<1>2. AtWork'
  BY <1>0 DEF Projection!CreateGivenUp, Projection!AttemptFails,
    Projection!Fault, Projection!Destroy, Projection!net, Projection!server,
    Projection!held, Projection!count, Projection!shown, Projection!life,
    Projection!TypeOK, AtWork
<1>3. Numbered'
  BY <1>0 DEF Projection!CreateGivenUp, Projection!AttemptFails,
    Projection!Fault, Projection!Destroy, Projection!net, Projection!server,
    Projection!held, Projection!count, Projection!shown, Projection!life,
    Projection!TypeOK, AtWork, Numbered
<1>4. Bare'
  BY <1>0 DEF Projection!CreateGivenUp, Projection!AttemptFails,
    Projection!Fault, Projection!Destroy, Projection!net, Projection!server,
    Projection!held, Projection!count, Projection!shown, Projection!life,
    Projection!TypeOK, Bare
<1>5. InScope'
  BY <1>0 DEF Projection!CreateGivenUp, Projection!AttemptFails,
    Projection!Fault, Projection!Destroy, Projection!net, Projection!server,
    Projection!held, Projection!count, Projection!shown, Projection!life,
    Projection!TypeOK, AtWork, Numbered, Bare, InScope
<1>6. Fed'
  BY <1>0 DEF Projection!CreateGivenUp, Projection!AttemptFails,
    Projection!Fault, Projection!Destroy, Projection!net, Projection!server,
    Projection!held, Projection!count, Projection!shown, Projection!life,
    Projection!TypeOK, AtWork, Numbered, Bare, InScope, Fed
<1>7. Owned'
  BY <1>0 DEF Projection!CreateGivenUp, Projection!AttemptFails,
    Projection!Fault, Projection!Destroy, Projection!net, Projection!server,
    Projection!held, Projection!count, Projection!shown, Projection!life,
    Projection!TypeOK, AtWork, Numbered, Owned
<1>8. Live'
  BY <1>0 DEF Projection!CreateGivenUp, Projection!AttemptFails,
    Projection!Fault, Projection!Destroy, Projection!net, Projection!server,
    Projection!held, Projection!count, Projection!shown, Projection!life,
    Projection!TypeOK, AtWork, Numbered, Live, WatchedAs
<1>9. MadeGood'
  BY <1>0 DEF Projection!CreateGivenUp, Projection!AttemptFails,
    Projection!Fault, Projection!Destroy, Projection!net, Projection!server,
    Projection!held, Projection!count, Projection!shown, Projection!life,
    Projection!TypeOK, AtWork, Numbered, Bare, InScope, MadeGood, Owing, Ahead
<1> QED
  BY <1>1, <1>2, <1>3, <1>4, <1>5, <1>6, <1>7, <1>8, <1>9

LEMMA ProjectionBackoffStep ==
    ASSUME ConstantsOK, ProjectionInv, Projection!Backoff
    PROVE  ProjectionInv'
<1> USE DEF ProjectionInv, ConstantsOK, Projection!Ids, Projection!Reply, Projection!NoReply,
  Projection!Answers
<1>1. Projection!TypeOK'
  <2>1. /\ up' \in BOOLEAN /\ stopped' \in BOOLEAN /\ recreating' \in BOOLEAN
        /\ redo' \in BOOLEAN /\ resyncing' \in BOOLEAN /\ resyncAgain' \in BOOLEAN
        /\ renderCh' \in BOOLEAN /\ renderConnect' \in BOOLEAN /\ mine' \in BOOLEAN
        /\ behind' \in BOOLEAN
    BY Zenon DEF Projection!Backoff, Projection!net, Projection!server,
      Projection!held, Projection!count, Projection!shown, Projection!life,
      Projection!TypeOK
  <2> QED
    BY <2>1, SMT DEF Projection!Backoff, Projection!net, Projection!server,
      Projection!held, Projection!count, Projection!shown, Projection!life,
      Projection!TypeOK
<1>2. AtWork'
  BY DEF Projection!Backoff, Projection!net, Projection!server,
    Projection!held, Projection!count, Projection!shown, Projection!life,
    Projection!TypeOK, AtWork
<1>3. Numbered'
  BY DEF Projection!Backoff, Projection!net, Projection!server,
    Projection!held, Projection!count, Projection!shown, Projection!life,
    Projection!TypeOK, AtWork, Numbered
<1>4. Bare'
  BY DEF Projection!Backoff, Projection!net, Projection!server,
    Projection!held, Projection!count, Projection!shown, Projection!life,
    Projection!TypeOK, Bare
<1>5. InScope'
  BY DEF Projection!Backoff, Projection!net, Projection!server,
    Projection!held, Projection!count, Projection!shown, Projection!life,
    Projection!TypeOK, AtWork, Numbered, Bare, InScope
<1>6. Fed'
  BY DEF Projection!Backoff, Projection!net, Projection!server,
    Projection!held, Projection!count, Projection!shown, Projection!life,
    Projection!TypeOK, AtWork, Numbered, Bare, InScope, Fed
<1>7. Owned'
  BY DEF Projection!Backoff, Projection!net, Projection!server,
    Projection!held, Projection!count, Projection!shown, Projection!life,
    Projection!TypeOK, AtWork, Numbered, Owned
<1>8. Live'
  BY DEF Projection!Backoff, Projection!net, Projection!server,
    Projection!held, Projection!count, Projection!shown, Projection!life,
    Projection!TypeOK, AtWork, Numbered, Live, WatchedAs
<1>9. MadeGood'
  BY DEF Projection!Backoff, Projection!net, Projection!server,
    Projection!held, Projection!count, Projection!shown, Projection!life,
    Projection!TypeOK, AtWork, Numbered, Bare, InScope, MadeGood, Owing, Ahead
<1> QED
  BY <1>1, <1>2, <1>3, <1>4, <1>5, <1>6, <1>7, <1>8, <1>9

LEMMA ProjectionRecreatedStep ==
    ASSUME ConstantsOK, ProjectionInv, Projection!Recreated
    PROVE  ProjectionInv'
<1> USE DEF ProjectionInv, ConstantsOK, Projection!Ids, Projection!Reply, Projection!NoReply,
  Projection!Answers
<1>0. rreply.id \in 1..MaxWatches
  BY DEF Projection!Recreated, Projection!TypeOK, Numbered
<1>1. Projection!TypeOK'
  <2>1. /\ up' \in BOOLEAN /\ stopped' \in BOOLEAN /\ recreating' \in BOOLEAN
        /\ redo' \in BOOLEAN /\ resyncing' \in BOOLEAN /\ resyncAgain' \in BOOLEAN
        /\ renderCh' \in BOOLEAN /\ renderConnect' \in BOOLEAN /\ mine' \in BOOLEAN
        /\ behind' \in BOOLEAN
    BY <1>0, Zenon DEF Projection!Recreated, Projection!Destroy,
      Projection!Shown, Projection!net, Projection!server, Projection!held,
      Projection!count, Projection!shown, Projection!life, Projection!TypeOK
  <2>2. /\ kind' \in {"projection", "aggregation"} /\ conn' \in 1..MaxConns
        /\ used' \in 0..MaxWatches /\ triggers' \in Nat /\ gaps' \in Nat
        /\ watchID' \in Projection!Ids /\ paths' \in Scopes /\ rows' \in Scopes
        /\ state' \in {"connected", "reconnecting"}
        /\ rpc' \in {"idle", "read", "ask", "reply", "store", "markets", "ended", "backoff"}
        /\ upc' \in {"idle", "ask", "reply", "markets"}
        /\ ypc' \in {"idle", "lock", "ask", "reply", "markets", "failed", "join", "ended"}
        /\ calls' \in 0..MaxScopes /\ faults' \in 0..ProjectionFaults
    BY <1>0, SMT DEF Projection!Recreated, Projection!Destroy,
      Projection!Shown, Projection!net, Projection!server, Projection!held,
      Projection!count, Projection!shown, Projection!life, Projection!TypeOK
  <2>3. watches' \in SUBSET [id : Projection!Ids, conn : 1..MaxConns, scope : Scopes]
    BY <1>0 DEF Projection!Recreated, Projection!Destroy, Projection!Shown,
      Projection!net, Projection!server, Projection!held, Projection!count,
      Projection!shown, Projection!life, Projection!TypeOK
  <2>4. /\ orphans' \in SUBSET Projection!Ids
        /\ markets' \in SUBSET Scopes /\ interest' \in SUBSET Scopes
        /\ missing' \in SUBSET Projection!Answers /\ skipped' \in SUBSET Projection!Answers
    <3>1. UNCHANGED <<orphans, markets, interest>>
      BY DEF Projection!Recreated, Projection!server
    <3>2. missing' \subseteq missing \cup {"rows"} /\ skipped' \subseteq skipped \cup {"rows"}
      BY DEF Projection!Recreated, Projection!Shown, Projection!count, Projection!shown
    <3> QED
      BY <3>1, <3>2 DEF Projection!TypeOK
  <2>5. /\ rreply' \in Projection!Reply /\ ureply' \in Projection!Reply
        /\ yreply' \in Projection!Reply
    BY <1>0, SMT DEF Projection!Recreated, Projection!Destroy,
      Projection!Shown, Projection!net, Projection!server, Projection!held,
      Projection!count, Projection!shown, Projection!life, Projection!TypeOK
  <2> QED
    BY <2>1, <2>2, <2>3, <2>4, <2>5 DEF Projection!TypeOK
<1>2. AtWork'
  BY <1>0 DEF Projection!Recreated, Projection!Destroy, Projection!Shown,
    Projection!net, Projection!server, Projection!held, Projection!count,
    Projection!shown, Projection!life, Projection!TypeOK, AtWork
<1>3. Numbered'
  BY <1>0 DEF Projection!Recreated, Projection!Destroy, Projection!Shown,
    Projection!net, Projection!server, Projection!held, Projection!count,
    Projection!shown, Projection!life, Projection!TypeOK, AtWork, Numbered
<1>4. Bare'
  BY <1>0 DEF Projection!Recreated, Projection!Destroy, Projection!Shown,
    Projection!net, Projection!server, Projection!held, Projection!count,
    Projection!shown, Projection!life, Projection!TypeOK, Bare
<1>5. InScope'
  BY <1>0 DEF Projection!Recreated, Projection!Destroy, Projection!Shown,
    Projection!net, Projection!server, Projection!held, Projection!count,
    Projection!shown, Projection!life, Projection!TypeOK, AtWork, Numbered,
    Bare, InScope
<1>6. Fed'
  BY <1>0 DEF Projection!Recreated, Projection!Destroy, Projection!Shown,
    Projection!net, Projection!server, Projection!held, Projection!count,
    Projection!shown, Projection!life, Projection!TypeOK, AtWork, Numbered,
    Bare, InScope, Fed
<1>7. Owned'
  BY <1>0 DEF Projection!Recreated, Projection!Destroy, Projection!Shown,
    Projection!net, Projection!server, Projection!held, Projection!count,
    Projection!shown, Projection!life, Projection!TypeOK, AtWork, Numbered,
    Owned
<1>8. Live'
  BY <1>0 DEF Projection!Recreated, Projection!Destroy, Projection!Shown,
    Projection!net, Projection!server, Projection!held, Projection!count,
    Projection!shown, Projection!life, Projection!TypeOK, AtWork, Numbered,
    Live, WatchedAs
<1>9. MadeGood'
  BY <1>0 DEF Projection!Recreated, Projection!Destroy, Projection!Shown,
    Projection!net, Projection!server, Projection!held, Projection!count,
    Projection!shown, Projection!life, Projection!TypeOK, AtWork, Numbered,
    Bare, InScope, MadeGood, Owing, Ahead
<1> QED
  BY <1>1, <1>2, <1>3, <1>4, <1>5, <1>6, <1>7, <1>8, <1>9

LEMMA ProjectionLookClosedStep ==
    ASSUME ConstantsOK, ProjectionInv, Projection!LookClosed
    PROVE  ProjectionInv'
<1> USE DEF ProjectionInv, ConstantsOK, Projection!Ids, Projection!Reply, Projection!NoReply,
  Projection!Answers
<1>0. rreply.id \in 1..MaxWatches
  BY DEF Projection!LookClosed, Projection!TypeOK, Numbered
<1>1. Projection!TypeOK'
  <2>1. /\ up' \in BOOLEAN /\ stopped' \in BOOLEAN /\ recreating' \in BOOLEAN
        /\ redo' \in BOOLEAN /\ resyncing' \in BOOLEAN /\ resyncAgain' \in BOOLEAN
        /\ renderCh' \in BOOLEAN /\ renderConnect' \in BOOLEAN /\ mine' \in BOOLEAN
        /\ behind' \in BOOLEAN
    BY <1>0, Zenon DEF Projection!LookClosed, Projection!net,
      Projection!server, Projection!held, Projection!count, Projection!shown,
      Projection!life, Projection!TypeOK
  <2>2. /\ kind' \in {"projection", "aggregation"} /\ conn' \in 1..MaxConns
        /\ used' \in 0..MaxWatches /\ triggers' \in Nat /\ gaps' \in Nat
        /\ watchID' \in Projection!Ids /\ paths' \in Scopes /\ rows' \in Scopes
        /\ state' \in {"connected", "reconnecting"}
        /\ rpc' \in {"idle", "read", "ask", "reply", "store", "markets", "ended", "backoff"}
        /\ upc' \in {"idle", "ask", "reply", "markets"}
        /\ ypc' \in {"idle", "lock", "ask", "reply", "markets", "failed", "join", "ended"}
        /\ calls' \in 0..MaxScopes /\ faults' \in 0..ProjectionFaults
    BY <1>0, SMT DEF Projection!LookClosed, Projection!net, Projection!server,
      Projection!held, Projection!count, Projection!shown, Projection!life,
      Projection!TypeOK
  <2>3. watches' \in SUBSET [id : Projection!Ids, conn : 1..MaxConns, scope : Scopes]
    BY <1>0 DEF Projection!LookClosed, Projection!net, Projection!server,
      Projection!held, Projection!count, Projection!shown, Projection!life,
      Projection!TypeOK
  <2>4. /\ orphans' \in SUBSET Projection!Ids
        /\ markets' \in SUBSET Scopes /\ interest' \in SUBSET Scopes
        /\ missing' \in SUBSET Projection!Answers /\ skipped' \in SUBSET Projection!Answers
    <3>1. orphans' = orphans \cup {rreply.id} \/ orphans' = orphans
      BY DEF Projection!LookClosed
    <3>2. orphans' \in SUBSET Projection!Ids
      BY <1>0, <3>1 DEF Projection!TypeOK
    <3>3. UNCHANGED <<markets, interest, missing, skipped>>
      BY DEF Projection!LookClosed, Projection!count, Projection!shown
    <3> QED
      BY <3>2, <3>3 DEF Projection!TypeOK
  <2>5. /\ rreply' \in Projection!Reply /\ ureply' \in Projection!Reply
        /\ yreply' \in Projection!Reply
    BY <1>0, SMT DEF Projection!LookClosed, Projection!net, Projection!server,
      Projection!held, Projection!count, Projection!shown, Projection!life,
      Projection!TypeOK
  <2> QED
    BY <2>1, <2>2, <2>3, <2>4, <2>5 DEF Projection!TypeOK
<1>2. AtWork'
  BY <1>0 DEF Projection!LookClosed, Projection!net, Projection!server,
    Projection!held, Projection!count, Projection!shown, Projection!life,
    Projection!TypeOK, AtWork
<1>3. Numbered'
  BY <1>0 DEF Projection!LookClosed, Projection!net, Projection!server,
    Projection!held, Projection!count, Projection!shown, Projection!life,
    Projection!TypeOK, AtWork, Numbered
<1>4. Bare'
  BY <1>0 DEF Projection!LookClosed, Projection!net, Projection!server,
    Projection!held, Projection!count, Projection!shown, Projection!life,
    Projection!TypeOK, Bare
<1>5. InScope'
  BY <1>0 DEF Projection!LookClosed, Projection!net, Projection!server,
    Projection!held, Projection!count, Projection!shown, Projection!life,
    Projection!TypeOK, AtWork, Numbered, Bare, InScope
<1>6. Fed'
  BY <1>0 DEF Projection!LookClosed, Projection!net, Projection!server,
    Projection!held, Projection!count, Projection!shown, Projection!life,
    Projection!TypeOK, AtWork, Numbered, Bare, InScope, Fed
<1>7. Owned'
  BY <1>0 DEF Projection!LookClosed, Projection!net, Projection!server,
    Projection!held, Projection!count, Projection!shown, Projection!life,
    Projection!TypeOK, AtWork, Numbered, Owned
<1>8. Live'
  BY <1>0 DEF Projection!LookClosed, Projection!net, Projection!server,
    Projection!held, Projection!count, Projection!shown, Projection!life,
    Projection!TypeOK, AtWork, Numbered, Live, WatchedAs
<1>9. MadeGood'
  BY <1>0 DEF Projection!LookClosed, Projection!net, Projection!server,
    Projection!held, Projection!count, Projection!shown, Projection!life,
    Projection!TypeOK, AtWork, Numbered, Bare, InScope, MadeGood, Owing, Ahead
<1> QED
  BY <1>1, <1>2, <1>3, <1>4, <1>5, <1>6, <1>7, <1>8, <1>9

LEMMA ProjectionStoreIdStep ==
    ASSUME ConstantsOK, ProjectionInv, Projection!StoreId
    PROVE  ProjectionInv'
<1> USE DEF ProjectionInv, ConstantsOK, Projection!Ids, Projection!Reply, Projection!NoReply,
  Projection!Answers
<1>0. rreply.id \in 1..MaxWatches
  BY DEF Projection!StoreId, Projection!TypeOK, Numbered
<1>1. Projection!TypeOK'
  <2>1. /\ up' \in BOOLEAN /\ stopped' \in BOOLEAN /\ recreating' \in BOOLEAN
        /\ redo' \in BOOLEAN /\ resyncing' \in BOOLEAN /\ resyncAgain' \in BOOLEAN
        /\ renderCh' \in BOOLEAN /\ renderConnect' \in BOOLEAN /\ mine' \in BOOLEAN
        /\ behind' \in BOOLEAN
    BY <1>0, Zenon DEF Projection!StoreId, Projection!Destroy, Projection!net,
      Projection!server, Projection!held, Projection!count, Projection!shown,
      Projection!life, Projection!TypeOK
  <2>2. /\ kind' \in {"projection", "aggregation"} /\ conn' \in 1..MaxConns
        /\ used' \in 0..MaxWatches /\ triggers' \in Nat /\ gaps' \in Nat
        /\ watchID' \in Projection!Ids /\ paths' \in Scopes /\ rows' \in Scopes
        /\ state' \in {"connected", "reconnecting"}
        /\ rpc' \in {"idle", "read", "ask", "reply", "store", "markets", "ended", "backoff"}
        /\ upc' \in {"idle", "ask", "reply", "markets"}
        /\ ypc' \in {"idle", "lock", "ask", "reply", "markets", "failed", "join", "ended"}
        /\ calls' \in 0..MaxScopes /\ faults' \in 0..ProjectionFaults
    BY <1>0, SMT DEF Projection!StoreId, Projection!Destroy, Projection!net,
      Projection!server, Projection!held, Projection!count, Projection!shown,
      Projection!life, Projection!TypeOK
  <2>3. watches' \in SUBSET [id : Projection!Ids, conn : 1..MaxConns, scope : Scopes]
    BY <1>0 DEF Projection!StoreId, Projection!Destroy, Projection!net,
      Projection!server, Projection!held, Projection!count, Projection!shown,
      Projection!life, Projection!TypeOK
  <2>4. /\ orphans' \in SUBSET Projection!Ids
        /\ markets' \in SUBSET Scopes /\ interest' \in SUBSET Scopes
        /\ missing' \in SUBSET Projection!Answers /\ skipped' \in SUBSET Projection!Answers
    <3>1. orphans' = orphans \cup {rreply.id} \/ orphans' = orphans
      BY DEF Projection!StoreId
    <3>2. orphans' \in SUBSET Projection!Ids
      BY <1>0, <3>1 DEF Projection!TypeOK
    <3>3. UNCHANGED <<markets, interest, missing, skipped>>
      BY DEF Projection!StoreId, Projection!count, Projection!shown
    <3> QED
      BY <3>2, <3>3 DEF Projection!TypeOK
  <2>5. /\ rreply' \in Projection!Reply /\ ureply' \in Projection!Reply
        /\ yreply' \in Projection!Reply
    BY <1>0, SMT DEF Projection!StoreId, Projection!Destroy, Projection!net,
      Projection!server, Projection!held, Projection!count, Projection!shown,
      Projection!life, Projection!TypeOK
  <2> QED
    BY <2>1, <2>2, <2>3, <2>4, <2>5 DEF Projection!TypeOK
<1>2. AtWork'
  BY <1>0 DEF Projection!StoreId, Projection!Destroy, Projection!net,
    Projection!server, Projection!held, Projection!count, Projection!shown,
    Projection!life, Projection!TypeOK, AtWork
<1>3. Numbered'
  BY <1>0 DEF Projection!StoreId, Projection!Destroy, Projection!net,
    Projection!server, Projection!held, Projection!count, Projection!shown,
    Projection!life, Projection!TypeOK, AtWork, Numbered
<1>4. Bare'
  BY <1>0 DEF Projection!StoreId, Projection!Destroy, Projection!net,
    Projection!server, Projection!held, Projection!count, Projection!shown,
    Projection!life, Projection!TypeOK, Bare
<1>5. InScope'
  BY <1>0 DEF Projection!StoreId, Projection!Destroy, Projection!net,
    Projection!server, Projection!held, Projection!count, Projection!shown,
    Projection!life, Projection!TypeOK, AtWork, Numbered, Bare, InScope
<1>6. Fed'
  BY <1>0 DEF Projection!StoreId, Projection!Destroy, Projection!net,
    Projection!server, Projection!held, Projection!count, Projection!shown,
    Projection!life, Projection!TypeOK, AtWork, Numbered, Bare, InScope, Fed
<1>7. Owned'
  BY <1>0 DEF Projection!StoreId, Projection!Destroy, Projection!net,
    Projection!server, Projection!held, Projection!count, Projection!shown,
    Projection!life, Projection!TypeOK, AtWork, Numbered, Owned
<1>8. Live'
  BY <1>0 DEF Projection!StoreId, Projection!Destroy, Projection!net,
    Projection!server, Projection!held, Projection!count, Projection!shown,
    Projection!life, Projection!TypeOK, AtWork, Numbered, Live, WatchedAs
<1>9. MadeGood'
  BY <1>0 DEF Projection!StoreId, Projection!Destroy, Projection!net,
    Projection!server, Projection!held, Projection!count, Projection!shown,
    Projection!life, Projection!TypeOK, AtWork, Numbered, Bare, InScope,
    MadeGood, Owing, Ahead
<1> QED
  BY <1>1, <1>2, <1>3, <1>4, <1>5, <1>6, <1>7, <1>8, <1>9

LEMMA ProjectionRecreatedMarketsStep ==
    ASSUME ConstantsOK, ProjectionInv, Projection!RecreatedMarkets
    PROVE  ProjectionInv'
<1> USE DEF ProjectionInv, ConstantsOK, Projection!Ids, Projection!Reply, Projection!NoReply,
  Projection!Answers
<1>1. Projection!TypeOK'
  <2>1. /\ up' \in BOOLEAN /\ stopped' \in BOOLEAN /\ recreating' \in BOOLEAN
        /\ redo' \in BOOLEAN /\ resyncing' \in BOOLEAN /\ resyncAgain' \in BOOLEAN
        /\ renderCh' \in BOOLEAN /\ renderConnect' \in BOOLEAN /\ mine' \in BOOLEAN
        /\ behind' \in BOOLEAN
    BY Zenon DEF Projection!RecreatedMarkets, Projection!SyncMarkets,
      Projection!Wanted, Projection!net, Projection!server, Projection!held,
      Projection!count, Projection!shown, Projection!life, Projection!TypeOK
  <2> QED
    BY <2>1, SMT DEF Projection!RecreatedMarkets, Projection!SyncMarkets,
      Projection!Wanted, Projection!net, Projection!server, Projection!held,
      Projection!count, Projection!shown, Projection!life, Projection!TypeOK
<1>2. AtWork'
  BY DEF Projection!RecreatedMarkets, Projection!SyncMarkets,
    Projection!Wanted, Projection!net, Projection!server, Projection!held,
    Projection!count, Projection!shown, Projection!life, Projection!TypeOK,
    AtWork
<1>3. Numbered'
  BY DEF Projection!RecreatedMarkets, Projection!SyncMarkets,
    Projection!Wanted, Projection!net, Projection!server, Projection!held,
    Projection!count, Projection!shown, Projection!life, Projection!TypeOK,
    AtWork, Numbered
<1>4. Bare'
  BY DEF Projection!RecreatedMarkets, Projection!SyncMarkets,
    Projection!Wanted, Projection!net, Projection!server, Projection!held,
    Projection!count, Projection!shown, Projection!life, Projection!TypeOK,
    Bare
<1>5. InScope'
  BY DEF Projection!RecreatedMarkets, Projection!SyncMarkets,
    Projection!Wanted, Projection!net, Projection!server, Projection!held,
    Projection!count, Projection!shown, Projection!life, Projection!TypeOK,
    AtWork, Numbered, Bare, InScope
<1>6. Fed'
  BY DEF Projection!RecreatedMarkets, Projection!SyncMarkets,
    Projection!Wanted, Projection!net, Projection!server, Projection!held,
    Projection!count, Projection!shown, Projection!life, Projection!TypeOK,
    AtWork, Numbered, Bare, InScope, Fed
<1>7. Owned'
  BY DEF Projection!RecreatedMarkets, Projection!SyncMarkets,
    Projection!Wanted, Projection!net, Projection!server, Projection!held,
    Projection!count, Projection!shown, Projection!life, Projection!TypeOK,
    AtWork, Numbered, Owned
<1>8. Live'
  BY DEF Projection!RecreatedMarkets, Projection!SyncMarkets,
    Projection!Wanted, Projection!net, Projection!server, Projection!held,
    Projection!count, Projection!shown, Projection!life, Projection!TypeOK,
    AtWork, Numbered, Live, WatchedAs
<1>9. MadeGood'
  BY DEF Projection!RecreatedMarkets, Projection!SyncMarkets,
    Projection!Wanted, Projection!net, Projection!server, Projection!held,
    Projection!count, Projection!shown, Projection!life, Projection!TypeOK,
    AtWork, Numbered, Bare, InScope, MadeGood, Owing, Ahead
<1> QED
  BY <1>1, <1>2, <1>3, <1>4, <1>5, <1>6, <1>7, <1>8, <1>9

LEMMA ProjectionRecreateStoppedStep ==
    ASSUME ConstantsOK, ProjectionInv, Projection!RecreateStopped
    PROVE  ProjectionInv'
<1> USE DEF ProjectionInv, ConstantsOK, Projection!Ids, Projection!Reply, Projection!NoReply,
  Projection!Answers
<1>1. Projection!TypeOK'
  <2>1. /\ up' \in BOOLEAN /\ stopped' \in BOOLEAN /\ recreating' \in BOOLEAN
        /\ redo' \in BOOLEAN /\ resyncing' \in BOOLEAN /\ resyncAgain' \in BOOLEAN
        /\ renderCh' \in BOOLEAN /\ renderConnect' \in BOOLEAN /\ mine' \in BOOLEAN
        /\ behind' \in BOOLEAN
    BY Zenon DEF Projection!RecreateStopped, Projection!net,
      Projection!server, Projection!held, Projection!count, Projection!shown,
      Projection!life, Projection!TypeOK
  <2> QED
    BY <2>1, SMT DEF Projection!RecreateStopped, Projection!net,
      Projection!server, Projection!held, Projection!count, Projection!shown,
      Projection!life, Projection!TypeOK
<1>2. AtWork'
  BY DEF Projection!RecreateStopped, Projection!net, Projection!server,
    Projection!held, Projection!count, Projection!shown, Projection!life,
    Projection!TypeOK, AtWork
<1>3. Numbered'
  BY DEF Projection!RecreateStopped, Projection!net, Projection!server,
    Projection!held, Projection!count, Projection!shown, Projection!life,
    Projection!TypeOK, AtWork, Numbered
<1>4. Bare'
  BY DEF Projection!RecreateStopped, Projection!net, Projection!server,
    Projection!held, Projection!count, Projection!shown, Projection!life,
    Projection!TypeOK, Bare
<1>5. InScope'
  BY DEF Projection!RecreateStopped, Projection!net, Projection!server,
    Projection!held, Projection!count, Projection!shown, Projection!life,
    Projection!TypeOK, AtWork, Numbered, Bare, InScope
<1>6. Fed'
  BY DEF Projection!RecreateStopped, Projection!net, Projection!server,
    Projection!held, Projection!count, Projection!shown, Projection!life,
    Projection!TypeOK, AtWork, Numbered, Bare, InScope, Fed
<1>7. Owned'
  BY DEF Projection!RecreateStopped, Projection!net, Projection!server,
    Projection!held, Projection!count, Projection!shown, Projection!life,
    Projection!TypeOK, AtWork, Numbered, Owned
<1>8. Live'
  BY DEF Projection!RecreateStopped, Projection!net, Projection!server,
    Projection!held, Projection!count, Projection!shown, Projection!life,
    Projection!TypeOK, AtWork, Numbered, Live, WatchedAs
<1>9. MadeGood'
  BY DEF Projection!RecreateStopped, Projection!net, Projection!server,
    Projection!held, Projection!count, Projection!shown, Projection!life,
    Projection!TypeOK, AtWork, Numbered, Bare, InScope, MadeGood, Owing, Ahead
<1> QED
  BY <1>1, <1>2, <1>3, <1>4, <1>5, <1>6, <1>7, <1>8, <1>9

LEMMA ProjectionEndRecreateStep ==
    ASSUME ConstantsOK, ProjectionInv, Projection!EndRecreate
    PROVE  ProjectionInv'
<1> USE DEF ProjectionInv, ConstantsOK, Projection!Ids, Projection!Reply, Projection!NoReply,
  Projection!Answers
<1>1. Projection!TypeOK'
  <2>1. /\ up' \in BOOLEAN /\ stopped' \in BOOLEAN /\ recreating' \in BOOLEAN
        /\ redo' \in BOOLEAN /\ resyncing' \in BOOLEAN /\ resyncAgain' \in BOOLEAN
        /\ renderCh' \in BOOLEAN /\ renderConnect' \in BOOLEAN /\ mine' \in BOOLEAN
        /\ behind' \in BOOLEAN
    BY Zenon DEF Projection!EndRecreate, Projection!RequestRender,
      Projection!net, Projection!server, Projection!held, Projection!count,
      Projection!shown, Projection!life, Projection!TypeOK
  <2> QED
    BY <2>1, SMT DEF Projection!EndRecreate, Projection!RequestRender,
      Projection!net, Projection!server, Projection!held, Projection!count,
      Projection!shown, Projection!life, Projection!TypeOK
<1>2. AtWork'
  BY DEF Projection!EndRecreate, Projection!RequestRender, Projection!net,
    Projection!server, Projection!held, Projection!count, Projection!shown,
    Projection!life, Projection!TypeOK, AtWork
<1>3. Numbered'
  BY DEF Projection!EndRecreate, Projection!RequestRender, Projection!net,
    Projection!server, Projection!held, Projection!count, Projection!shown,
    Projection!life, Projection!TypeOK, AtWork, Numbered
<1>4. Bare'
  BY DEF Projection!EndRecreate, Projection!RequestRender, Projection!net,
    Projection!server, Projection!held, Projection!count, Projection!shown,
    Projection!life, Projection!TypeOK, Bare
<1>5. InScope'
  BY DEF Projection!EndRecreate, Projection!RequestRender, Projection!net,
    Projection!server, Projection!held, Projection!count, Projection!shown,
    Projection!life, Projection!TypeOK, AtWork, Numbered, Bare, InScope
<1>6. Fed'
  BY DEF Projection!EndRecreate, Projection!RequestRender, Projection!net,
    Projection!server, Projection!held, Projection!count, Projection!shown,
    Projection!life, Projection!TypeOK, AtWork, Numbered, Bare, InScope, Fed
<1>7. Owned'
  BY DEF Projection!EndRecreate, Projection!RequestRender, Projection!net,
    Projection!server, Projection!held, Projection!count, Projection!shown,
    Projection!life, Projection!TypeOK, AtWork, Numbered, Owned
<1>8. Live'
  BY DEF Projection!EndRecreate, Projection!RequestRender, Projection!net,
    Projection!server, Projection!held, Projection!count, Projection!shown,
    Projection!life, Projection!TypeOK, AtWork, Numbered, Live, WatchedAs
<1>9. MadeGood'
  BY DEF Projection!EndRecreate, Projection!RequestRender, Projection!net,
    Projection!server, Projection!held, Projection!count, Projection!shown,
    Projection!life, Projection!TypeOK, AtWork, Numbered, Bare, InScope,
    MadeGood, Owing, Ahead
<1> QED
  BY <1>1, <1>2, <1>3, <1>4, <1>5, <1>6, <1>7, <1>8, <1>9

LEMMA ProjectionSetScopeStep ==
    ASSUME ConstantsOK, ProjectionInv, NEW scope \in Scopes, Projection!SetScope(scope)
    PROVE  ProjectionInv'
<1> USE DEF ProjectionInv, ConstantsOK, Projection!Ids, Projection!Reply, Projection!NoReply,
  Projection!Answers
<1>1. Projection!TypeOK'
  <2>1. /\ up' \in BOOLEAN /\ stopped' \in BOOLEAN /\ recreating' \in BOOLEAN
        /\ redo' \in BOOLEAN /\ resyncing' \in BOOLEAN /\ resyncAgain' \in BOOLEAN
        /\ renderCh' \in BOOLEAN /\ renderConnect' \in BOOLEAN /\ mine' \in BOOLEAN
        /\ behind' \in BOOLEAN
    BY Zenon DEF Projection!SetScope, Projection!ScopeFree, Projection!net,
      Projection!server, Projection!held, Projection!count, Projection!shown,
      Projection!life, Projection!TypeOK
  <2> QED
    BY <2>1, SMT DEF Projection!SetScope, Projection!ScopeFree,
      Projection!net, Projection!server, Projection!held, Projection!count,
      Projection!shown, Projection!life, Projection!TypeOK
<1>2. AtWork'
  BY DEF Projection!SetScope, Projection!ScopeFree, Projection!net,
    Projection!server, Projection!held, Projection!count, Projection!shown,
    Projection!life, Projection!TypeOK, AtWork
<1>3. Numbered'
  BY DEF Projection!SetScope, Projection!ScopeFree, Projection!net,
    Projection!server, Projection!held, Projection!count, Projection!shown,
    Projection!life, Projection!TypeOK, AtWork, Numbered
<1>4. Bare'
  BY DEF Projection!SetScope, Projection!ScopeFree, Projection!net,
    Projection!server, Projection!held, Projection!count, Projection!shown,
    Projection!life, Projection!TypeOK, Bare
<1>5. InScope'
  BY DEF Projection!SetScope, Projection!ScopeFree, Projection!net,
    Projection!server, Projection!held, Projection!count, Projection!shown,
    Projection!life, Projection!TypeOK, AtWork, Numbered, Bare, InScope
<1>6. Fed'
  BY DEF Projection!SetScope, Projection!ScopeFree, Projection!net,
    Projection!server, Projection!held, Projection!count, Projection!shown,
    Projection!life, Projection!TypeOK, AtWork, Numbered, Bare, InScope, Fed
<1>7. Owned'
  BY DEF Projection!SetScope, Projection!ScopeFree, Projection!net,
    Projection!server, Projection!held, Projection!count, Projection!shown,
    Projection!life, Projection!TypeOK, AtWork, Numbered, Owned
<1>8. Live'
  BY DEF Projection!SetScope, Projection!ScopeFree, Projection!net,
    Projection!server, Projection!held, Projection!count, Projection!shown,
    Projection!life, Projection!TypeOK, AtWork, Numbered, Live, WatchedAs
<1>9. MadeGood'
  BY DEF Projection!SetScope, Projection!ScopeFree, Projection!net,
    Projection!server, Projection!held, Projection!count, Projection!shown,
    Projection!life, Projection!TypeOK, AtWork, Numbered, Bare, InScope,
    MadeGood, Owing, Ahead
<1> QED
  BY <1>1, <1>2, <1>3, <1>4, <1>5, <1>6, <1>7, <1>8, <1>9

LEMMA ProjectionSetScopeServedStep ==
    ASSUME ConstantsOK, ProjectionInv, Projection!SetScopeServed
    PROVE  ProjectionInv'
<1> USE DEF ProjectionInv, ConstantsOK, Projection!Ids, Projection!Reply, Projection!NoReply,
  Projection!Answers
<1>1. Projection!TypeOK'
  <2>1. /\ up' \in BOOLEAN /\ stopped' \in BOOLEAN /\ recreating' \in BOOLEAN
        /\ redo' \in BOOLEAN /\ resyncing' \in BOOLEAN /\ resyncAgain' \in BOOLEAN
        /\ renderCh' \in BOOLEAN /\ renderConnect' \in BOOLEAN /\ mine' \in BOOLEAN
        /\ behind' \in BOOLEAN
    BY Zenon DEF Projection!SetScopeServed, Projection!Update,
      Projection!Snapshot, Projection!net, Projection!server, Projection!held,
      Projection!count, Projection!shown, Projection!life, Projection!TypeOK
  <2> QED
    BY <2>1, SMT DEF Projection!SetScopeServed, Projection!Update,
      Projection!Snapshot, Projection!net, Projection!server, Projection!held,
      Projection!count, Projection!shown, Projection!life, Projection!TypeOK
<1>2. AtWork'
  BY DEF Projection!SetScopeServed, Projection!Update, Projection!Snapshot,
    Projection!net, Projection!server, Projection!held, Projection!count,
    Projection!shown, Projection!life, Projection!TypeOK, AtWork
<1>3. Numbered'
  BY DEF Projection!SetScopeServed, Projection!Update, Projection!Snapshot,
    Projection!net, Projection!server, Projection!held, Projection!count,
    Projection!shown, Projection!life, Projection!TypeOK, AtWork, Numbered
<1>4. Bare'
  BY DEF Projection!SetScopeServed, Projection!Update, Projection!Snapshot,
    Projection!net, Projection!server, Projection!held, Projection!count,
    Projection!shown, Projection!life, Projection!TypeOK, Bare
<1>5. InScope'
  BY DEF Projection!SetScopeServed, Projection!Update, Projection!Snapshot,
    Projection!net, Projection!server, Projection!held, Projection!count,
    Projection!shown, Projection!life, Projection!TypeOK, AtWork, Numbered,
    Bare, InScope
<1>6. Fed'
  BY DEF Projection!SetScopeServed, Projection!Update, Projection!Snapshot,
    Projection!net, Projection!server, Projection!held, Projection!count,
    Projection!shown, Projection!life, Projection!TypeOK, AtWork, Numbered,
    Bare, InScope, Fed
<1>7. Owned'
  BY DEF Projection!SetScopeServed, Projection!Update, Projection!Snapshot,
    Projection!net, Projection!server, Projection!held, Projection!count,
    Projection!shown, Projection!life, Projection!TypeOK, AtWork, Numbered,
    Owned
<1>8. Live'
  <2>1. ASSUME NEW w \in watches PROVE \E v \in watches' : v.id = w.id /\ v.conn = w.conn
    <3> DEFINE v == IF w.id = ureply.id THEN [w EXCEPT !.scope = paths] ELSE w
    <3>1. v \in watches' /\ w \in [id : 1..MaxWatches, conn : 1..MaxConns, scope : Scopes]
      BY DEF Projection!SetScopeServed, Projection!Update, Projection!TypeOK
    <3>2. v.id = w.id /\ v.conn = w.conn
      BY <3>1
    <3> QED
      BY <3>1, <3>2
  <2>2. conn' = conn /\ \A id : WatchedAs(id) => WatchedAs(id)'
    BY <2>1 DEF Projection!SetScopeServed, Projection!net, WatchedAs
  <2>3. UNCHANGED <<kind, up, stopped, triggers, faults, rpc, redo, watchID, rreply>>
    BY DEF Projection!SetScopeServed, Projection!net, Projection!held, Projection!count
  <2>4. /\ WatchedAs(watchID) => \E w \in watches' : w.id = watchID' /\ w.conn = conn'
        /\ WatchedAs(rreply.id) => \E w \in watches' : w.id = rreply'.id /\ w.conn = conn'
    BY <2>1, <2>2, <2>3 DEF WatchedAs
  <2> QED
    BY <2>3, <2>4 DEF Live, WatchedAs
<1>9. MadeGood'
  BY DEF Projection!SetScopeServed, Projection!Update, Projection!Snapshot,
    Projection!net, Projection!server, Projection!held, Projection!count,
    Projection!shown, Projection!life, Projection!TypeOK, AtWork, Numbered,
    Bare, InScope, MadeGood, Owing, Ahead
<1> QED
  BY <1>1, <1>2, <1>3, <1>4, <1>5, <1>6, <1>7, <1>8, <1>9

LEMMA ProjectionSetScopeFailsStep ==
    ASSUME ConstantsOK, ProjectionInv, Projection!SetScopeFails
    PROVE  ProjectionInv'
<1> USE DEF ProjectionInv, ConstantsOK, Projection!Ids, Projection!Reply, Projection!NoReply,
  Projection!Answers
<1>1. Projection!TypeOK'
  <2>1. /\ up' \in BOOLEAN /\ stopped' \in BOOLEAN /\ recreating' \in BOOLEAN
        /\ redo' \in BOOLEAN /\ resyncing' \in BOOLEAN /\ resyncAgain' \in BOOLEAN
        /\ renderCh' \in BOOLEAN /\ renderConnect' \in BOOLEAN /\ mine' \in BOOLEAN
        /\ behind' \in BOOLEAN
    BY Zenon DEF Projection!SetScopeFails, Projection!Fault, Projection!net,
      Projection!server, Projection!held, Projection!count, Projection!shown,
      Projection!life, Projection!TypeOK
  <2> QED
    BY <2>1, SMT DEF Projection!SetScopeFails, Projection!Fault,
      Projection!net, Projection!server, Projection!held, Projection!count,
      Projection!shown, Projection!life, Projection!TypeOK
<1>2. AtWork'
  BY DEF Projection!SetScopeFails, Projection!Fault, Projection!net,
    Projection!server, Projection!held, Projection!count, Projection!shown,
    Projection!life, Projection!TypeOK, AtWork
<1>3. Numbered'
  BY DEF Projection!SetScopeFails, Projection!Fault, Projection!net,
    Projection!server, Projection!held, Projection!count, Projection!shown,
    Projection!life, Projection!TypeOK, AtWork, Numbered
<1>4. Bare'
  BY DEF Projection!SetScopeFails, Projection!Fault, Projection!net,
    Projection!server, Projection!held, Projection!count, Projection!shown,
    Projection!life, Projection!TypeOK, Bare
<1>5. InScope'
  BY DEF Projection!SetScopeFails, Projection!Fault, Projection!net,
    Projection!server, Projection!held, Projection!count, Projection!shown,
    Projection!life, Projection!TypeOK, AtWork, Numbered, Bare, InScope
<1>6. Fed'
  BY DEF Projection!SetScopeFails, Projection!Fault, Projection!net,
    Projection!server, Projection!held, Projection!count, Projection!shown,
    Projection!life, Projection!TypeOK, AtWork, Numbered, Bare, InScope, Fed
<1>7. Owned'
  BY DEF Projection!SetScopeFails, Projection!Fault, Projection!net,
    Projection!server, Projection!held, Projection!count, Projection!shown,
    Projection!life, Projection!TypeOK, AtWork, Numbered, Owned
<1>8. Live'
  BY DEF Projection!SetScopeFails, Projection!Fault, Projection!net,
    Projection!server, Projection!held, Projection!count, Projection!shown,
    Projection!life, Projection!TypeOK, AtWork, Numbered, Live, WatchedAs
<1>9. MadeGood'
  BY DEF Projection!SetScopeFails, Projection!Fault, Projection!net,
    Projection!server, Projection!held, Projection!count, Projection!shown,
    Projection!life, Projection!TypeOK, AtWork, Numbered, Bare, InScope,
    MadeGood, Owing, Ahead
<1> QED
  BY <1>1, <1>2, <1>3, <1>4, <1>5, <1>6, <1>7, <1>8, <1>9

LEMMA ProjectionSetScopeReplyStep ==
    ASSUME ConstantsOK, ProjectionInv, Projection!SetScopeReply
    PROVE  ProjectionInv'
<1> USE DEF ProjectionInv, ConstantsOK, Projection!Ids, Projection!Reply, Projection!NoReply,
  Projection!Answers
<1>1. Projection!TypeOK'
  <2>1. /\ up' \in BOOLEAN /\ stopped' \in BOOLEAN /\ recreating' \in BOOLEAN
        /\ redo' \in BOOLEAN /\ resyncing' \in BOOLEAN /\ resyncAgain' \in BOOLEAN
        /\ renderCh' \in BOOLEAN /\ renderConnect' \in BOOLEAN /\ mine' \in BOOLEAN
        /\ behind' \in BOOLEAN
    BY Zenon DEF Projection!SetScopeReply, Projection!ReplaceRows,
      Projection!Shown, Projection!RequestRender, Projection!net,
      Projection!server, Projection!held, Projection!count, Projection!shown,
      Projection!life, Projection!TypeOK
  <2>2. /\ kind' \in {"projection", "aggregation"} /\ conn' \in 1..MaxConns
        /\ used' \in 0..MaxWatches /\ triggers' \in Nat /\ gaps' \in Nat
        /\ watchID' \in Projection!Ids /\ paths' \in Scopes /\ rows' \in Scopes
        /\ state' \in {"connected", "reconnecting"}
        /\ rpc' \in {"idle", "read", "ask", "reply", "store", "markets", "ended", "backoff"}
        /\ upc' \in {"idle", "ask", "reply", "markets"}
        /\ ypc' \in {"idle", "lock", "ask", "reply", "markets", "failed", "join", "ended"}
        /\ calls' \in 0..MaxScopes /\ faults' \in 0..ProjectionFaults
    BY SMT DEF Projection!SetScopeReply, Projection!ReplaceRows,
      Projection!Shown, Projection!RequestRender, Projection!net,
      Projection!server, Projection!held, Projection!count, Projection!shown,
      Projection!life, Projection!TypeOK
  <2>3. watches' \in SUBSET [id : Projection!Ids, conn : 1..MaxConns, scope : Scopes]
    BY DEF Projection!SetScopeReply, Projection!ReplaceRows, Projection!Shown,
      Projection!RequestRender, Projection!net, Projection!server,
      Projection!held, Projection!count, Projection!shown, Projection!life,
      Projection!TypeOK
  <2>4. /\ orphans' \in SUBSET Projection!Ids
        /\ markets' \in SUBSET Scopes /\ interest' \in SUBSET Scopes
        /\ missing' \in SUBSET Projection!Answers /\ skipped' \in SUBSET Projection!Answers
    <3>1. UNCHANGED <<orphans, markets, interest>>
      BY DEF Projection!SetScopeReply, Projection!server
    <3>2. missing' \subseteq missing \cup {"rows"} /\ skipped' \subseteq skipped \cup {"rows"}
      BY DEF Projection!SetScopeReply, Projection!ReplaceRows, Projection!Shown,
        Projection!count, Projection!shown
    <3> QED
      BY <3>1, <3>2 DEF Projection!TypeOK
  <2>5. /\ rreply' \in Projection!Reply /\ ureply' \in Projection!Reply
        /\ yreply' \in Projection!Reply
    BY SMT DEF Projection!SetScopeReply, Projection!ReplaceRows,
      Projection!Shown, Projection!RequestRender, Projection!net,
      Projection!server, Projection!held, Projection!count, Projection!shown,
      Projection!life, Projection!TypeOK
  <2> QED
    BY <2>1, <2>2, <2>3, <2>4, <2>5 DEF Projection!TypeOK
<1>2. AtWork'
  BY DEF Projection!SetScopeReply, Projection!ReplaceRows, Projection!Shown,
    Projection!RequestRender, Projection!net, Projection!server,
    Projection!held, Projection!count, Projection!shown, Projection!life,
    Projection!TypeOK, AtWork
<1>3. Numbered'
  BY DEF Projection!SetScopeReply, Projection!ReplaceRows, Projection!Shown,
    Projection!RequestRender, Projection!net, Projection!server,
    Projection!held, Projection!count, Projection!shown, Projection!life,
    Projection!TypeOK, AtWork, Numbered
<1>4. Bare'
  BY DEF Projection!SetScopeReply, Projection!ReplaceRows, Projection!Shown,
    Projection!RequestRender, Projection!net, Projection!server,
    Projection!held, Projection!count, Projection!shown, Projection!life,
    Projection!TypeOK, Bare
<1>5. InScope'
  BY DEF Projection!SetScopeReply, Projection!ReplaceRows, Projection!Shown,
    Projection!RequestRender, Projection!net, Projection!server,
    Projection!held, Projection!count, Projection!shown, Projection!life,
    Projection!TypeOK, AtWork, Numbered, Bare, InScope
<1>6. Fed'
  BY DEF Projection!SetScopeReply, Projection!ReplaceRows, Projection!Shown,
    Projection!RequestRender, Projection!net, Projection!server,
    Projection!held, Projection!count, Projection!shown, Projection!life,
    Projection!TypeOK, AtWork, Numbered, Bare, InScope, Fed
<1>7. Owned'
  BY DEF Projection!SetScopeReply, Projection!ReplaceRows, Projection!Shown,
    Projection!RequestRender, Projection!net, Projection!server,
    Projection!held, Projection!count, Projection!shown, Projection!life,
    Projection!TypeOK, AtWork, Numbered, Owned
<1>8. Live'
  BY DEF Projection!SetScopeReply, Projection!ReplaceRows, Projection!Shown,
    Projection!RequestRender, Projection!net, Projection!server,
    Projection!held, Projection!count, Projection!shown, Projection!life,
    Projection!TypeOK, AtWork, Numbered, Live, WatchedAs
<1>9. MadeGood'
  BY DEF Projection!SetScopeReply, Projection!ReplaceRows, Projection!Shown,
    Projection!RequestRender, Projection!net, Projection!server,
    Projection!held, Projection!count, Projection!shown, Projection!life,
    Projection!TypeOK, AtWork, Numbered, Bare, InScope, MadeGood, Owing, Ahead
<1> QED
  BY <1>1, <1>2, <1>3, <1>4, <1>5, <1>6, <1>7, <1>8, <1>9

LEMMA ProjectionSetScopeMarketsStep ==
    ASSUME ConstantsOK, ProjectionInv, Projection!SetScopeMarkets
    PROVE  ProjectionInv'
<1> USE DEF ProjectionInv, ConstantsOK, Projection!Ids, Projection!Reply, Projection!NoReply,
  Projection!Answers
<1>1. Projection!TypeOK'
  <2>1. /\ up' \in BOOLEAN /\ stopped' \in BOOLEAN /\ recreating' \in BOOLEAN
        /\ redo' \in BOOLEAN /\ resyncing' \in BOOLEAN /\ resyncAgain' \in BOOLEAN
        /\ renderCh' \in BOOLEAN /\ renderConnect' \in BOOLEAN /\ mine' \in BOOLEAN
        /\ behind' \in BOOLEAN
    BY Zenon DEF Projection!SetScopeMarkets, Projection!SyncMarkets,
      Projection!Wanted, Projection!net, Projection!server, Projection!held,
      Projection!count, Projection!shown, Projection!life, Projection!TypeOK
  <2> QED
    BY <2>1, SMT DEF Projection!SetScopeMarkets, Projection!SyncMarkets,
      Projection!Wanted, Projection!net, Projection!server, Projection!held,
      Projection!count, Projection!shown, Projection!life, Projection!TypeOK
<1>2. AtWork'
  BY DEF Projection!SetScopeMarkets, Projection!SyncMarkets,
    Projection!Wanted, Projection!net, Projection!server, Projection!held,
    Projection!count, Projection!shown, Projection!life, Projection!TypeOK,
    AtWork
<1>3. Numbered'
  BY DEF Projection!SetScopeMarkets, Projection!SyncMarkets,
    Projection!Wanted, Projection!net, Projection!server, Projection!held,
    Projection!count, Projection!shown, Projection!life, Projection!TypeOK,
    AtWork, Numbered
<1>4. Bare'
  BY DEF Projection!SetScopeMarkets, Projection!SyncMarkets,
    Projection!Wanted, Projection!net, Projection!server, Projection!held,
    Projection!count, Projection!shown, Projection!life, Projection!TypeOK,
    Bare
<1>5. InScope'
  BY DEF Projection!SetScopeMarkets, Projection!SyncMarkets,
    Projection!Wanted, Projection!net, Projection!server, Projection!held,
    Projection!count, Projection!shown, Projection!life, Projection!TypeOK,
    AtWork, Numbered, Bare, InScope
<1>6. Fed'
  BY DEF Projection!SetScopeMarkets, Projection!SyncMarkets,
    Projection!Wanted, Projection!net, Projection!server, Projection!held,
    Projection!count, Projection!shown, Projection!life, Projection!TypeOK,
    AtWork, Numbered, Bare, InScope, Fed
<1>7. Owned'
  BY DEF Projection!SetScopeMarkets, Projection!SyncMarkets,
    Projection!Wanted, Projection!net, Projection!server, Projection!held,
    Projection!count, Projection!shown, Projection!life, Projection!TypeOK,
    AtWork, Numbered, Owned
<1>8. Live'
  BY DEF Projection!SetScopeMarkets, Projection!SyncMarkets,
    Projection!Wanted, Projection!net, Projection!server, Projection!held,
    Projection!count, Projection!shown, Projection!life, Projection!TypeOK,
    AtWork, Numbered, Live, WatchedAs
<1>9. MadeGood'
  BY DEF Projection!SetScopeMarkets, Projection!SyncMarkets,
    Projection!Wanted, Projection!net, Projection!server, Projection!held,
    Projection!count, Projection!shown, Projection!life, Projection!TypeOK,
    AtWork, Numbered, Bare, InScope, MadeGood, Owing, Ahead
<1> QED
  BY <1>1, <1>2, <1>3, <1>4, <1>5, <1>6, <1>7, <1>8, <1>9

LEMMA ProjectionResyncStep ==
    ASSUME ConstantsOK, ProjectionInv, Projection!Resync
    PROVE  ProjectionInv'
<1> USE DEF ProjectionInv, ConstantsOK, Projection!Ids, Projection!Reply, Projection!NoReply,
  Projection!Answers
<1>1. Projection!TypeOK'
  <2>1. /\ up' \in BOOLEAN /\ stopped' \in BOOLEAN /\ recreating' \in BOOLEAN
        /\ redo' \in BOOLEAN /\ resyncing' \in BOOLEAN /\ resyncAgain' \in BOOLEAN
        /\ renderCh' \in BOOLEAN /\ renderConnect' \in BOOLEAN /\ mine' \in BOOLEAN
        /\ behind' \in BOOLEAN
    BY Zenon DEF Projection!Resync, Projection!NoReadAhead, Projection!net,
      Projection!server, Projection!held, Projection!count, Projection!shown,
      Projection!life, Projection!TypeOK
  <2> QED
    BY <2>1, SMT DEF Projection!Resync, Projection!NoReadAhead,
      Projection!net, Projection!server, Projection!held, Projection!count,
      Projection!shown, Projection!life, Projection!TypeOK
<1>2. AtWork'
  BY DEF Projection!Resync, Projection!NoReadAhead, Projection!net,
    Projection!server, Projection!held, Projection!count, Projection!shown,
    Projection!life, Projection!TypeOK, AtWork
<1>3. Numbered'
  BY DEF Projection!Resync, Projection!NoReadAhead, Projection!net,
    Projection!server, Projection!held, Projection!count, Projection!shown,
    Projection!life, Projection!TypeOK, AtWork, Numbered
<1>4. Bare'
  BY DEF Projection!Resync, Projection!NoReadAhead, Projection!net,
    Projection!server, Projection!held, Projection!count, Projection!shown,
    Projection!life, Projection!TypeOK, Bare
<1>5. InScope'
  BY DEF Projection!Resync, Projection!NoReadAhead, Projection!net,
    Projection!server, Projection!held, Projection!count, Projection!shown,
    Projection!life, Projection!TypeOK, AtWork, Numbered, Bare, InScope
<1>6. Fed'
  BY DEF Projection!Resync, Projection!NoReadAhead, Projection!net,
    Projection!server, Projection!held, Projection!count, Projection!shown,
    Projection!life, Projection!TypeOK, AtWork, Numbered, Bare, InScope, Fed
<1>7. Owned'
  BY DEF Projection!Resync, Projection!NoReadAhead, Projection!net,
    Projection!server, Projection!held, Projection!count, Projection!shown,
    Projection!life, Projection!TypeOK, AtWork, Numbered, Owned
<1>8. Live'
  BY DEF Projection!Resync, Projection!NoReadAhead, Projection!net,
    Projection!server, Projection!held, Projection!count, Projection!shown,
    Projection!life, Projection!TypeOK, AtWork, Numbered, Live, WatchedAs
<1>9. MadeGood'
  BY DEF Projection!Resync, Projection!NoReadAhead, Projection!net,
    Projection!server, Projection!held, Projection!count, Projection!shown,
    Projection!life, Projection!TypeOK, AtWork, Numbered, Bare, InScope,
    MadeGood, Owing, Ahead
<1> QED
  BY <1>1, <1>2, <1>3, <1>4, <1>5, <1>6, <1>7, <1>8, <1>9

LEMMA ProjectionRereadStep ==
    ASSUME ConstantsOK, ProjectionInv, Projection!Reread
    PROVE  ProjectionInv'
<1> USE DEF ProjectionInv, ConstantsOK, Projection!Ids, Projection!Reply, Projection!NoReply,
  Projection!Answers
<1>1. Projection!TypeOK'
  <2>1. /\ up' \in BOOLEAN /\ stopped' \in BOOLEAN /\ recreating' \in BOOLEAN
        /\ redo' \in BOOLEAN /\ resyncing' \in BOOLEAN /\ resyncAgain' \in BOOLEAN
        /\ renderCh' \in BOOLEAN /\ renderConnect' \in BOOLEAN /\ mine' \in BOOLEAN
        /\ behind' \in BOOLEAN
    BY Zenon DEF Projection!Reread, Projection!ScopeFree, Projection!net,
      Projection!server, Projection!held, Projection!count, Projection!shown,
      Projection!life, Projection!TypeOK
  <2> QED
    BY <2>1, SMT DEF Projection!Reread, Projection!ScopeFree, Projection!net,
      Projection!server, Projection!held, Projection!count, Projection!shown,
      Projection!life, Projection!TypeOK
<1>2. AtWork'
  BY DEF Projection!Reread, Projection!ScopeFree, Projection!net,
    Projection!server, Projection!held, Projection!count, Projection!shown,
    Projection!life, Projection!TypeOK, AtWork
<1>3. Numbered'
  BY DEF Projection!Reread, Projection!ScopeFree, Projection!net,
    Projection!server, Projection!held, Projection!count, Projection!shown,
    Projection!life, Projection!TypeOK, AtWork, Numbered
<1>4. Bare'
  BY DEF Projection!Reread, Projection!ScopeFree, Projection!net,
    Projection!server, Projection!held, Projection!count, Projection!shown,
    Projection!life, Projection!TypeOK, Bare
<1>5. InScope'
  BY DEF Projection!Reread, Projection!ScopeFree, Projection!net,
    Projection!server, Projection!held, Projection!count, Projection!shown,
    Projection!life, Projection!TypeOK, AtWork, Numbered, Bare, InScope
<1>6. Fed'
  BY DEF Projection!Reread, Projection!ScopeFree, Projection!net,
    Projection!server, Projection!held, Projection!count, Projection!shown,
    Projection!life, Projection!TypeOK, AtWork, Numbered, Bare, InScope, Fed
<1>7. Owned'
  BY DEF Projection!Reread, Projection!ScopeFree, Projection!net,
    Projection!server, Projection!held, Projection!count, Projection!shown,
    Projection!life, Projection!TypeOK, AtWork, Numbered, Owned
<1>8. Live'
  BY DEF Projection!Reread, Projection!ScopeFree, Projection!net,
    Projection!server, Projection!held, Projection!count, Projection!shown,
    Projection!life, Projection!TypeOK, AtWork, Numbered, Live, WatchedAs
<1>9. MadeGood'
  BY DEF Projection!Reread, Projection!ScopeFree, Projection!net,
    Projection!server, Projection!held, Projection!count, Projection!shown,
    Projection!life, Projection!TypeOK, AtWork, Numbered, Bare, InScope,
    MadeGood, Owing, Ahead
<1> QED
  BY <1>1, <1>2, <1>3, <1>4, <1>5, <1>6, <1>7, <1>8, <1>9

LEMMA ProjectionRereadServedStep ==
    ASSUME ConstantsOK, ProjectionInv, Projection!RereadServed
    PROVE  ProjectionInv'
<1> USE DEF ProjectionInv, ConstantsOK, Projection!Ids, Projection!Reply, Projection!NoReply,
  Projection!Answers
<1>1. Projection!TypeOK'
  <2>1. /\ up' \in BOOLEAN /\ stopped' \in BOOLEAN /\ recreating' \in BOOLEAN
        /\ redo' \in BOOLEAN /\ resyncing' \in BOOLEAN /\ resyncAgain' \in BOOLEAN
        /\ renderCh' \in BOOLEAN /\ renderConnect' \in BOOLEAN /\ mine' \in BOOLEAN
        /\ behind' \in BOOLEAN
    BY Zenon DEF Projection!RereadServed, Projection!Update,
      Projection!Snapshot, Projection!net, Projection!server, Projection!held,
      Projection!count, Projection!shown, Projection!life, Projection!TypeOK
  <2> QED
    BY <2>1, SMT DEF Projection!RereadServed, Projection!Update,
      Projection!Snapshot, Projection!net, Projection!server, Projection!held,
      Projection!count, Projection!shown, Projection!life, Projection!TypeOK
<1>2. AtWork'
  BY DEF Projection!RereadServed, Projection!Update, Projection!Snapshot,
    Projection!net, Projection!server, Projection!held, Projection!count,
    Projection!shown, Projection!life, Projection!TypeOK, AtWork
<1>3. Numbered'
  BY DEF Projection!RereadServed, Projection!Update, Projection!Snapshot,
    Projection!net, Projection!server, Projection!held, Projection!count,
    Projection!shown, Projection!life, Projection!TypeOK, AtWork, Numbered
<1>4. Bare'
  BY DEF Projection!RereadServed, Projection!Update, Projection!Snapshot,
    Projection!net, Projection!server, Projection!held, Projection!count,
    Projection!shown, Projection!life, Projection!TypeOK, Bare
<1>5. InScope'
  BY DEF Projection!RereadServed, Projection!Update, Projection!Snapshot,
    Projection!net, Projection!server, Projection!held, Projection!count,
    Projection!shown, Projection!life, Projection!TypeOK, AtWork, Numbered,
    Bare, InScope
<1>6. Fed'
  BY DEF Projection!RereadServed, Projection!Update, Projection!Snapshot,
    Projection!net, Projection!server, Projection!held, Projection!count,
    Projection!shown, Projection!life, Projection!TypeOK, AtWork, Numbered,
    Bare, InScope, Fed
<1>7. Owned'
  BY DEF Projection!RereadServed, Projection!Update, Projection!Snapshot,
    Projection!net, Projection!server, Projection!held, Projection!count,
    Projection!shown, Projection!life, Projection!TypeOK, AtWork, Numbered,
    Owned
<1>8. Live'
  <2>1. ASSUME NEW w \in watches PROVE \E v \in watches' : v.id = w.id /\ v.conn = w.conn
    <3> DEFINE v == IF w.id = yreply.id THEN [w EXCEPT !.scope = yreply.rows] ELSE w
    <3>1. v \in watches' /\ w \in [id : 1..MaxWatches, conn : 1..MaxConns, scope : Scopes]
      BY DEF Projection!RereadServed, Projection!Update, Projection!TypeOK
    <3>2. v.id = w.id /\ v.conn = w.conn
      BY <3>1
    <3> QED
      BY <3>1, <3>2
  <2>2. conn' = conn /\ \A id : WatchedAs(id) => WatchedAs(id)'
    BY <2>1 DEF Projection!RereadServed, Projection!net, WatchedAs
  <2>3. UNCHANGED <<kind, up, stopped, triggers, faults, rpc, redo, watchID, rreply>>
    BY DEF Projection!RereadServed, Projection!net, Projection!held, Projection!count
  <2>4. /\ WatchedAs(watchID) => \E w \in watches' : w.id = watchID' /\ w.conn = conn'
        /\ WatchedAs(rreply.id) => \E w \in watches' : w.id = rreply'.id /\ w.conn = conn'
    BY <2>1, <2>2, <2>3 DEF WatchedAs
  <2> QED
    BY <2>3, <2>4 DEF Live, WatchedAs
<1>9. MadeGood'
  BY DEF Projection!RereadServed, Projection!Update, Projection!Snapshot,
    Projection!net, Projection!server, Projection!held, Projection!count,
    Projection!shown, Projection!life, Projection!TypeOK, AtWork, Numbered,
    Bare, InScope, MadeGood, Owing, Ahead
<1> QED
  BY <1>1, <1>2, <1>3, <1>4, <1>5, <1>6, <1>7, <1>8, <1>9

LEMMA ProjectionRereadFailsStep ==
    ASSUME ConstantsOK, ProjectionInv, Projection!RereadFails
    PROVE  ProjectionInv'
<1> USE DEF ProjectionInv, ConstantsOK, Projection!Ids, Projection!Reply, Projection!NoReply,
  Projection!Answers
<1>1. Projection!TypeOK'
  <2>1. /\ up' \in BOOLEAN /\ stopped' \in BOOLEAN /\ recreating' \in BOOLEAN
        /\ redo' \in BOOLEAN /\ resyncing' \in BOOLEAN /\ resyncAgain' \in BOOLEAN
        /\ renderCh' \in BOOLEAN /\ renderConnect' \in BOOLEAN /\ mine' \in BOOLEAN
        /\ behind' \in BOOLEAN
    BY Zenon DEF Projection!RereadFails, Projection!Fault, Projection!net,
      Projection!server, Projection!held, Projection!count, Projection!shown,
      Projection!life, Projection!TypeOK
  <2>2. /\ kind' \in {"projection", "aggregation"} /\ conn' \in 1..MaxConns
        /\ used' \in 0..MaxWatches /\ triggers' \in Nat /\ gaps' \in Nat
        /\ watchID' \in Projection!Ids /\ paths' \in Scopes /\ rows' \in Scopes
        /\ state' \in {"connected", "reconnecting"}
        /\ rpc' \in {"idle", "read", "ask", "reply", "store", "markets", "ended", "backoff"}
        /\ upc' \in {"idle", "ask", "reply", "markets"}
        /\ ypc' \in {"idle", "lock", "ask", "reply", "markets", "failed", "join", "ended"}
        /\ calls' \in 0..MaxScopes /\ faults' \in 0..ProjectionFaults
    BY SMT DEF Projection!RereadFails, Projection!Fault, Projection!net,
      Projection!server, Projection!held, Projection!count, Projection!shown,
      Projection!life, Projection!TypeOK
  <2>3. watches' \in SUBSET [id : Projection!Ids, conn : 1..MaxConns, scope : Scopes]
    BY DEF Projection!RereadFails, Projection!Fault, Projection!net,
      Projection!server, Projection!held, Projection!count, Projection!shown,
      Projection!life, Projection!TypeOK
  <2>4. /\ orphans' \in SUBSET Projection!Ids
        /\ markets' \in SUBSET Scopes /\ interest' \in SUBSET Scopes
        /\ missing' \in SUBSET Projection!Answers /\ skipped' \in SUBSET Projection!Answers
    <3>1. UNCHANGED <<orphans, markets, interest>>
      BY DEF Projection!RereadFails, Projection!server
    <3>2. missing' \subseteq missing \cup {"rows"} /\ skipped' \subseteq skipped \cup {"rows"}
      BY DEF Projection!RereadFails, Projection!count, Projection!shown
    <3> QED
      BY <3>1, <3>2 DEF Projection!TypeOK
  <2>5. /\ rreply' \in Projection!Reply /\ ureply' \in Projection!Reply
        /\ yreply' \in Projection!Reply
    BY SMT DEF Projection!RereadFails, Projection!Fault, Projection!net,
      Projection!server, Projection!held, Projection!count, Projection!shown,
      Projection!life, Projection!TypeOK
  <2> QED
    BY <2>1, <2>2, <2>3, <2>4, <2>5 DEF Projection!TypeOK
<1>2. AtWork'
  BY DEF Projection!RereadFails, Projection!Fault, Projection!net,
    Projection!server, Projection!held, Projection!count, Projection!shown,
    Projection!life, Projection!TypeOK, AtWork
<1>3. Numbered'
  BY DEF Projection!RereadFails, Projection!Fault, Projection!net,
    Projection!server, Projection!held, Projection!count, Projection!shown,
    Projection!life, Projection!TypeOK, AtWork, Numbered
<1>4. Bare'
  BY DEF Projection!RereadFails, Projection!Fault, Projection!net,
    Projection!server, Projection!held, Projection!count, Projection!shown,
    Projection!life, Projection!TypeOK, Bare
<1>5. InScope'
  BY DEF Projection!RereadFails, Projection!Fault, Projection!net,
    Projection!server, Projection!held, Projection!count, Projection!shown,
    Projection!life, Projection!TypeOK, AtWork, Numbered, Bare, InScope
<1>6. Fed'
  BY DEF Projection!RereadFails, Projection!Fault, Projection!net,
    Projection!server, Projection!held, Projection!count, Projection!shown,
    Projection!life, Projection!TypeOK, AtWork, Numbered, Bare, InScope, Fed
<1>7. Owned'
  BY DEF Projection!RereadFails, Projection!Fault, Projection!net,
    Projection!server, Projection!held, Projection!count, Projection!shown,
    Projection!life, Projection!TypeOK, AtWork, Numbered, Owned
<1>8. Live'
  BY DEF Projection!RereadFails, Projection!Fault, Projection!net,
    Projection!server, Projection!held, Projection!count, Projection!shown,
    Projection!life, Projection!TypeOK, AtWork, Numbered, Live, WatchedAs
<1>9. MadeGood'
  BY DEF Projection!RereadFails, Projection!Fault, Projection!net,
    Projection!server, Projection!held, Projection!count, Projection!shown,
    Projection!life, Projection!TypeOK, AtWork, Numbered, Bare, InScope,
    MadeGood, Owing, Ahead
<1> QED
  BY <1>1, <1>2, <1>3, <1>4, <1>5, <1>6, <1>7, <1>8, <1>9

LEMMA ProjectionRereadReplyStep ==
    ASSUME ConstantsOK, ProjectionInv, Projection!RereadReply
    PROVE  ProjectionInv'
<1> USE DEF ProjectionInv, ConstantsOK, Projection!Ids, Projection!Reply, Projection!NoReply,
  Projection!Answers
<1>1. Projection!TypeOK'
  <2>1. /\ up' \in BOOLEAN /\ stopped' \in BOOLEAN /\ recreating' \in BOOLEAN
        /\ redo' \in BOOLEAN /\ resyncing' \in BOOLEAN /\ resyncAgain' \in BOOLEAN
        /\ renderCh' \in BOOLEAN /\ renderConnect' \in BOOLEAN /\ mine' \in BOOLEAN
        /\ behind' \in BOOLEAN
    BY Zenon DEF Projection!RereadReply, Projection!ReplaceRows,
      Projection!Shown, Projection!RequestRender, Projection!net,
      Projection!server, Projection!held, Projection!count, Projection!shown,
      Projection!life, Projection!TypeOK
  <2>2. /\ kind' \in {"projection", "aggregation"} /\ conn' \in 1..MaxConns
        /\ used' \in 0..MaxWatches /\ triggers' \in Nat /\ gaps' \in Nat
        /\ watchID' \in Projection!Ids /\ paths' \in Scopes /\ rows' \in Scopes
        /\ state' \in {"connected", "reconnecting"}
        /\ rpc' \in {"idle", "read", "ask", "reply", "store", "markets", "ended", "backoff"}
        /\ upc' \in {"idle", "ask", "reply", "markets"}
        /\ ypc' \in {"idle", "lock", "ask", "reply", "markets", "failed", "join", "ended"}
        /\ calls' \in 0..MaxScopes /\ faults' \in 0..ProjectionFaults
    BY SMT DEF Projection!RereadReply, Projection!ReplaceRows,
      Projection!Shown, Projection!RequestRender, Projection!net,
      Projection!server, Projection!held, Projection!count, Projection!shown,
      Projection!life, Projection!TypeOK
  <2>3. watches' \in SUBSET [id : Projection!Ids, conn : 1..MaxConns, scope : Scopes]
    BY DEF Projection!RereadReply, Projection!ReplaceRows, Projection!Shown,
      Projection!RequestRender, Projection!net, Projection!server,
      Projection!held, Projection!count, Projection!shown, Projection!life,
      Projection!TypeOK
  <2>4. /\ orphans' \in SUBSET Projection!Ids
        /\ markets' \in SUBSET Scopes /\ interest' \in SUBSET Scopes
        /\ missing' \in SUBSET Projection!Answers /\ skipped' \in SUBSET Projection!Answers
    <3>1. UNCHANGED <<orphans, markets, interest>>
      BY DEF Projection!RereadReply, Projection!server
    <3>2. missing' \subseteq missing \cup {"rows"} /\ skipped' \subseteq skipped \cup {"rows"}
      BY DEF Projection!RereadReply, Projection!ReplaceRows, Projection!Shown,
        Projection!count, Projection!shown
    <3> QED
      BY <3>1, <3>2 DEF Projection!TypeOK
  <2>5. /\ rreply' \in Projection!Reply /\ ureply' \in Projection!Reply
        /\ yreply' \in Projection!Reply
    BY SMT DEF Projection!RereadReply, Projection!ReplaceRows,
      Projection!Shown, Projection!RequestRender, Projection!net,
      Projection!server, Projection!held, Projection!count, Projection!shown,
      Projection!life, Projection!TypeOK
  <2> QED
    BY <2>1, <2>2, <2>3, <2>4, <2>5 DEF Projection!TypeOK
<1>2. AtWork'
  BY DEF Projection!RereadReply, Projection!ReplaceRows, Projection!Shown,
    Projection!RequestRender, Projection!net, Projection!server,
    Projection!held, Projection!count, Projection!shown, Projection!life,
    Projection!TypeOK, AtWork
<1>3. Numbered'
  BY DEF Projection!RereadReply, Projection!ReplaceRows, Projection!Shown,
    Projection!RequestRender, Projection!net, Projection!server,
    Projection!held, Projection!count, Projection!shown, Projection!life,
    Projection!TypeOK, AtWork, Numbered
<1>4. Bare'
  BY DEF Projection!RereadReply, Projection!ReplaceRows, Projection!Shown,
    Projection!RequestRender, Projection!net, Projection!server,
    Projection!held, Projection!count, Projection!shown, Projection!life,
    Projection!TypeOK, Bare
<1>5. InScope'
  BY DEF Projection!RereadReply, Projection!ReplaceRows, Projection!Shown,
    Projection!RequestRender, Projection!net, Projection!server,
    Projection!held, Projection!count, Projection!shown, Projection!life,
    Projection!TypeOK, AtWork, Numbered, Bare, InScope
<1>6. Fed'
  BY DEF Projection!RereadReply, Projection!ReplaceRows, Projection!Shown,
    Projection!RequestRender, Projection!net, Projection!server,
    Projection!held, Projection!count, Projection!shown, Projection!life,
    Projection!TypeOK, AtWork, Numbered, Bare, InScope, Fed
<1>7. Owned'
  BY DEF Projection!RereadReply, Projection!ReplaceRows, Projection!Shown,
    Projection!RequestRender, Projection!net, Projection!server,
    Projection!held, Projection!count, Projection!shown, Projection!life,
    Projection!TypeOK, AtWork, Numbered, Owned
<1>8. Live'
  BY DEF Projection!RereadReply, Projection!ReplaceRows, Projection!Shown,
    Projection!RequestRender, Projection!net, Projection!server,
    Projection!held, Projection!count, Projection!shown, Projection!life,
    Projection!TypeOK, AtWork, Numbered, Live, WatchedAs
<1>9. MadeGood'
  BY DEF Projection!RereadReply, Projection!ReplaceRows, Projection!Shown,
    Projection!RequestRender, Projection!net, Projection!server,
    Projection!held, Projection!count, Projection!shown, Projection!life,
    Projection!TypeOK, AtWork, Numbered, Bare, InScope, MadeGood, Owing, Ahead
<1> QED
  BY <1>1, <1>2, <1>3, <1>4, <1>5, <1>6, <1>7, <1>8, <1>9

LEMMA ProjectionRereadMarketsStep ==
    ASSUME ConstantsOK, ProjectionInv, Projection!RereadMarkets
    PROVE  ProjectionInv'
<1> USE DEF ProjectionInv, ConstantsOK, Projection!Ids, Projection!Reply, Projection!NoReply,
  Projection!Answers
<1>1. Projection!TypeOK'
  <2>1. /\ up' \in BOOLEAN /\ stopped' \in BOOLEAN /\ recreating' \in BOOLEAN
        /\ redo' \in BOOLEAN /\ resyncing' \in BOOLEAN /\ resyncAgain' \in BOOLEAN
        /\ renderCh' \in BOOLEAN /\ renderConnect' \in BOOLEAN /\ mine' \in BOOLEAN
        /\ behind' \in BOOLEAN
    BY Zenon DEF Projection!RereadMarkets, Projection!SyncMarkets,
      Projection!Wanted, Projection!net, Projection!server, Projection!held,
      Projection!count, Projection!shown, Projection!life, Projection!TypeOK
  <2> QED
    BY <2>1, SMT DEF Projection!RereadMarkets, Projection!SyncMarkets,
      Projection!Wanted, Projection!net, Projection!server, Projection!held,
      Projection!count, Projection!shown, Projection!life, Projection!TypeOK
<1>2. AtWork'
  BY DEF Projection!RereadMarkets, Projection!SyncMarkets, Projection!Wanted,
    Projection!net, Projection!server, Projection!held, Projection!count,
    Projection!shown, Projection!life, Projection!TypeOK, AtWork
<1>3. Numbered'
  BY DEF Projection!RereadMarkets, Projection!SyncMarkets, Projection!Wanted,
    Projection!net, Projection!server, Projection!held, Projection!count,
    Projection!shown, Projection!life, Projection!TypeOK, AtWork, Numbered
<1>4. Bare'
  BY DEF Projection!RereadMarkets, Projection!SyncMarkets, Projection!Wanted,
    Projection!net, Projection!server, Projection!held, Projection!count,
    Projection!shown, Projection!life, Projection!TypeOK, Bare
<1>5. InScope'
  BY DEF Projection!RereadMarkets, Projection!SyncMarkets, Projection!Wanted,
    Projection!net, Projection!server, Projection!held, Projection!count,
    Projection!shown, Projection!life, Projection!TypeOK, AtWork, Numbered,
    Bare, InScope
<1>6. Fed'
  BY DEF Projection!RereadMarkets, Projection!SyncMarkets, Projection!Wanted,
    Projection!net, Projection!server, Projection!held, Projection!count,
    Projection!shown, Projection!life, Projection!TypeOK, AtWork, Numbered,
    Bare, InScope, Fed
<1>7. Owned'
  BY DEF Projection!RereadMarkets, Projection!SyncMarkets, Projection!Wanted,
    Projection!net, Projection!server, Projection!held, Projection!count,
    Projection!shown, Projection!life, Projection!TypeOK, AtWork, Numbered,
    Owned
<1>8. Live'
  BY DEF Projection!RereadMarkets, Projection!SyncMarkets, Projection!Wanted,
    Projection!net, Projection!server, Projection!held, Projection!count,
    Projection!shown, Projection!life, Projection!TypeOK, AtWork, Numbered,
    Live, WatchedAs
<1>9. MadeGood'
  BY DEF Projection!RereadMarkets, Projection!SyncMarkets, Projection!Wanted,
    Projection!net, Projection!server, Projection!held, Projection!count,
    Projection!shown, Projection!life, Projection!TypeOK, AtWork, Numbered,
    Bare, InScope, MadeGood, Owing, Ahead
<1> QED
  BY <1>1, <1>2, <1>3, <1>4, <1>5, <1>6, <1>7, <1>8, <1>9

LEMMA ProjectionResyncRecreatesStep ==
    ASSUME ConstantsOK, ProjectionInv, Projection!ResyncRecreates
    PROVE  ProjectionInv'
<1> USE DEF ProjectionInv, ConstantsOK, Projection!Ids, Projection!Reply, Projection!NoReply,
  Projection!Answers
<1>1. Projection!TypeOK'
  <2>1. /\ up' \in BOOLEAN /\ stopped' \in BOOLEAN /\ recreating' \in BOOLEAN
        /\ redo' \in BOOLEAN /\ resyncing' \in BOOLEAN /\ resyncAgain' \in BOOLEAN
        /\ renderCh' \in BOOLEAN /\ renderConnect' \in BOOLEAN /\ mine' \in BOOLEAN
        /\ behind' \in BOOLEAN
    BY Zenon DEF Projection!ResyncRecreates, Projection!StartRecreate,
      Projection!Again, Projection!net, Projection!server, Projection!held,
      Projection!count, Projection!shown, Projection!life, Projection!TypeOK
  <2> QED
    BY <2>1, SMT DEF Projection!ResyncRecreates, Projection!StartRecreate,
      Projection!Again, Projection!net, Projection!server, Projection!held,
      Projection!count, Projection!shown, Projection!life, Projection!TypeOK
<1>2. AtWork'
  BY DEF Projection!ResyncRecreates, Projection!StartRecreate,
    Projection!Again, Projection!net, Projection!server, Projection!held,
    Projection!count, Projection!shown, Projection!life, Projection!TypeOK,
    AtWork
<1>3. Numbered'
  BY DEF Projection!ResyncRecreates, Projection!StartRecreate,
    Projection!Again, Projection!net, Projection!server, Projection!held,
    Projection!count, Projection!shown, Projection!life, Projection!TypeOK,
    AtWork, Numbered
<1>4. Bare'
  BY DEF Projection!ResyncRecreates, Projection!StartRecreate,
    Projection!Again, Projection!net, Projection!server, Projection!held,
    Projection!count, Projection!shown, Projection!life, Projection!TypeOK,
    Bare
<1>5. InScope'
  BY DEF Projection!ResyncRecreates, Projection!StartRecreate,
    Projection!Again, Projection!net, Projection!server, Projection!held,
    Projection!count, Projection!shown, Projection!life, Projection!TypeOK,
    AtWork, Numbered, Bare, InScope
<1>6. Fed'
  BY DEF Projection!ResyncRecreates, Projection!StartRecreate,
    Projection!Again, Projection!net, Projection!server, Projection!held,
    Projection!count, Projection!shown, Projection!life, Projection!TypeOK,
    AtWork, Numbered, Bare, InScope, Fed
<1>7. Owned'
  BY DEF Projection!ResyncRecreates, Projection!StartRecreate,
    Projection!Again, Projection!net, Projection!server, Projection!held,
    Projection!count, Projection!shown, Projection!life, Projection!TypeOK,
    AtWork, Numbered, Owned
<1>8. Live'
  BY DEF Projection!ResyncRecreates, Projection!StartRecreate,
    Projection!Again, Projection!net, Projection!server, Projection!held,
    Projection!count, Projection!shown, Projection!life, Projection!TypeOK,
    AtWork, Numbered, Live, WatchedAs
<1>9. MadeGood'
  BY DEF Projection!ResyncRecreates, Projection!StartRecreate,
    Projection!Again, Projection!net, Projection!server, Projection!held,
    Projection!count, Projection!shown, Projection!life, Projection!TypeOK,
    AtWork, Numbered, Bare, InScope, MadeGood, Owing, Ahead
<1> QED
  BY <1>1, <1>2, <1>3, <1>4, <1>5, <1>6, <1>7, <1>8, <1>9

LEMMA ProjectionEndResyncStep ==
    ASSUME ConstantsOK, ProjectionInv, Projection!EndResync
    PROVE  ProjectionInv'
<1> USE DEF ProjectionInv, ConstantsOK, Projection!Ids, Projection!Reply, Projection!NoReply,
  Projection!Answers
<1>1. Projection!TypeOK'
  <2>1. /\ up' \in BOOLEAN /\ stopped' \in BOOLEAN /\ recreating' \in BOOLEAN
        /\ redo' \in BOOLEAN /\ resyncing' \in BOOLEAN /\ resyncAgain' \in BOOLEAN
        /\ renderCh' \in BOOLEAN /\ renderConnect' \in BOOLEAN /\ mine' \in BOOLEAN
        /\ behind' \in BOOLEAN
    BY Zenon DEF Projection!EndResync, Projection!net, Projection!server,
      Projection!held, Projection!count, Projection!shown, Projection!life,
      Projection!TypeOK
  <2> QED
    BY <2>1, SMT DEF Projection!EndResync, Projection!net, Projection!server,
      Projection!held, Projection!count, Projection!shown, Projection!life,
      Projection!TypeOK
<1>2. AtWork'
  BY DEF Projection!EndResync, Projection!net, Projection!server,
    Projection!held, Projection!count, Projection!shown, Projection!life,
    Projection!TypeOK, AtWork
<1>3. Numbered'
  BY DEF Projection!EndResync, Projection!net, Projection!server,
    Projection!held, Projection!count, Projection!shown, Projection!life,
    Projection!TypeOK, AtWork, Numbered
<1>4. Bare'
  BY DEF Projection!EndResync, Projection!net, Projection!server,
    Projection!held, Projection!count, Projection!shown, Projection!life,
    Projection!TypeOK, Bare
<1>5. InScope'
  BY DEF Projection!EndResync, Projection!net, Projection!server,
    Projection!held, Projection!count, Projection!shown, Projection!life,
    Projection!TypeOK, AtWork, Numbered, Bare, InScope
<1>6. Fed'
  BY DEF Projection!EndResync, Projection!net, Projection!server,
    Projection!held, Projection!count, Projection!shown, Projection!life,
    Projection!TypeOK, AtWork, Numbered, Bare, InScope, Fed
<1>7. Owned'
  BY DEF Projection!EndResync, Projection!net, Projection!server,
    Projection!held, Projection!count, Projection!shown, Projection!life,
    Projection!TypeOK, AtWork, Numbered, Owned
<1>8. Live'
  BY DEF Projection!EndResync, Projection!net, Projection!server,
    Projection!held, Projection!count, Projection!shown, Projection!life,
    Projection!TypeOK, AtWork, Numbered, Live, WatchedAs
<1>9. MadeGood'
  BY DEF Projection!EndResync, Projection!net, Projection!server,
    Projection!held, Projection!count, Projection!shown, Projection!life,
    Projection!TypeOK, AtWork, Numbered, Bare, InScope, MadeGood, Owing, Ahead
<1> QED
  BY <1>1, <1>2, <1>3, <1>4, <1>5, <1>6, <1>7, <1>8, <1>9

LEMMA ProjectionShutdownStep ==
    ASSUME ConstantsOK, ProjectionInv, Projection!Shutdown
    PROVE  ProjectionInv'
<1> USE DEF ProjectionInv, ConstantsOK, Projection!Ids, Projection!Reply, Projection!NoReply,
  Projection!Answers
<1>1. Projection!TypeOK'
  <2>1. /\ up' \in BOOLEAN /\ stopped' \in BOOLEAN /\ recreating' \in BOOLEAN
        /\ redo' \in BOOLEAN /\ resyncing' \in BOOLEAN /\ resyncAgain' \in BOOLEAN
        /\ renderCh' \in BOOLEAN /\ renderConnect' \in BOOLEAN /\ mine' \in BOOLEAN
        /\ behind' \in BOOLEAN
    BY Zenon DEF Projection!Shutdown, Projection!Destroy, Projection!net,
      Projection!server, Projection!held, Projection!count, Projection!shown,
      Projection!life, Projection!TypeOK
  <2> QED
    BY <2>1, SMT DEF Projection!Shutdown, Projection!Destroy, Projection!net,
      Projection!server, Projection!held, Projection!count, Projection!shown,
      Projection!life, Projection!TypeOK
<1>2. AtWork'
  BY DEF Projection!Shutdown, Projection!Destroy, Projection!net,
    Projection!server, Projection!held, Projection!count, Projection!shown,
    Projection!life, Projection!TypeOK, AtWork
<1>3. Numbered'
  BY DEF Projection!Shutdown, Projection!Destroy, Projection!net,
    Projection!server, Projection!held, Projection!count, Projection!shown,
    Projection!life, Projection!TypeOK, AtWork, Numbered
<1>4. Bare'
  BY DEF Projection!Shutdown, Projection!Destroy, Projection!net,
    Projection!server, Projection!held, Projection!count, Projection!shown,
    Projection!life, Projection!TypeOK, Bare
<1>5. InScope'
  BY DEF Projection!Shutdown, Projection!Destroy, Projection!net,
    Projection!server, Projection!held, Projection!count, Projection!shown,
    Projection!life, Projection!TypeOK, AtWork, Numbered, Bare, InScope
<1>6. Fed'
  BY DEF Projection!Shutdown, Projection!Destroy, Projection!net,
    Projection!server, Projection!held, Projection!count, Projection!shown,
    Projection!life, Projection!TypeOK, AtWork, Numbered, Bare, InScope, Fed
<1>7. Owned'
  BY DEF Projection!Shutdown, Projection!Destroy, Projection!net,
    Projection!server, Projection!held, Projection!count, Projection!shown,
    Projection!life, Projection!TypeOK, AtWork, Numbered, Owned
<1>8. Live'
  BY DEF Projection!Shutdown, Projection!Destroy, Projection!net,
    Projection!server, Projection!held, Projection!count, Projection!shown,
    Projection!life, Projection!TypeOK, AtWork, Numbered, Live, WatchedAs
<1>9. MadeGood'
  BY DEF Projection!Shutdown, Projection!Destroy, Projection!net,
    Projection!server, Projection!held, Projection!count, Projection!shown,
    Projection!life, Projection!TypeOK, AtWork, Numbered, Bare, InScope,
    MadeGood, Owing, Ahead
<1> QED
  BY <1>1, <1>2, <1>3, <1>4, <1>5, <1>6, <1>7, <1>8, <1>9


LEMMA ProjectionInitInv == ConstantsOK /\ Projection!Init => ProjectionInv
<1> SUFFICES ASSUME ConstantsOK, Projection!Init PROVE ProjectionInv
  OBVIOUS
<1> USE DEF ConstantsOK, Projection!Init, Projection!NoReply, Projection!Ids, Projection!Reply,
  Projection!Answers
<1>1. Projection!TypeOK
  <2>1. /\ up \in BOOLEAN /\ stopped \in BOOLEAN /\ recreating \in BOOLEAN
        /\ redo \in BOOLEAN /\ resyncing \in BOOLEAN /\ resyncAgain \in BOOLEAN
        /\ renderCh \in BOOLEAN /\ renderConnect \in BOOLEAN /\ mine \in BOOLEAN
        /\ behind \in BOOLEAN
    BY Zenon
  <2>2. watches \in SUBSET [id : Projection!Ids, conn : 1..MaxConns, scope : Scopes]
    OBVIOUS
  <2>3. /\ rreply \in Projection!Reply /\ ureply \in Projection!Reply
        /\ yreply \in Projection!Reply
    OBVIOUS
  <2>4. markets \in SUBSET Scopes /\ interest \in SUBSET Scopes
    OBVIOUS
  <2> QED
    BY <2>1, <2>2, <2>3, <2>4 DEF Projection!TypeOK
<1>2. AtWork /\ Numbered /\ Bare /\ InScope /\ Fed /\ Owned /\ MadeGood
  BY DEF AtWork, Numbered, Bare, InScope, Fed, Owned, MadeGood, Owing
<1>3. WatchedAs(watchID)
  BY DEF WatchedAs
<1> QED
  BY <1>1, <1>2, <1>3 DEF Live, ProjectionInv

LEMMA ProjectionStepsKept ==
    ASSUME ConstantsOK, ProjectionInv, [Projection!Next]_(Projection!vars)
    PROVE  ProjectionInv'
<1>1. CASE UNCHANGED Projection!vars
  BY <1>1 DEF Projection!vars, Projection!net, Projection!server, Projection!held,
    Projection!count, Projection!shown, Projection!life, ProjectionInv, Projection!TypeOK, AtWork,
    Numbered, Bare, InScope, Fed, Owned, Live, WatchedAs, MadeGood, Owing, Ahead
<1> QED
  BY <1>1, ProjectionGapStep, ProjectionDisconnectedStep,
     ProjectionNewConnectionStep, ProjectionOnFrameStep,
     ProjectionOnMidsStep, ProjectionRenderStep, ProjectionRecreateStep,
     ProjectionReadScopeStep, ProjectionCreateWatchStep,
     ProjectionCreateFailsStep, ProjectionCreateGivenUpStep,
     ProjectionBackoffStep, ProjectionRecreatedStep,
     ProjectionLookClosedStep, ProjectionStoreIdStep,
     ProjectionRecreatedMarketsStep, ProjectionRecreateStoppedStep,
     ProjectionEndRecreateStep, ProjectionSetScopeStep,
     ProjectionSetScopeServedStep, ProjectionSetScopeFailsStep,
     ProjectionSetScopeReplyStep, ProjectionSetScopeMarketsStep,
     ProjectionResyncStep, ProjectionRereadStep,
     ProjectionRereadServedStep, ProjectionRereadFailsStep,
     ProjectionRereadReplyStep, ProjectionRereadMarketsStep,
     ProjectionResyncRecreatesStep, ProjectionEndResyncStep,
     ProjectionShutdownStep
     DEF Projection!Next

(* recreate, resync, setScope and Close, for any scopes, connections,      *)
(* watches, gaps and failed requests: rows that are not called stale are   *)
(* kept by a live watch, which has the scope they show unless setScope     *)
(* failed or recreate overtook it; what a gap lost is read again unless    *)
(* the gap came too late for a read under way; and a stream at rest has    *)
(* no other watch than orphans, and the markets of its rows.               *)
THEOREM ProjectionsAreKept == Spec => []ProjectionKept
<1> DEFINE Inv == stream = "projection" => ProjectionInv
<1>1. Init => Inv
  BY ConstantsOK, ProjectionInitInv DEF Init
<1>2. Inv /\ [Next]_vars => Inv'
  <2> SUFFICES ASSUME Inv, [Next]_vars, stream' = "projection" PROVE ProjectionInv'
    OBVIOUS
  <2>1. stream = "projection" /\ [Projection!Next]_(Projection!vars)
    BY DEF Next, vars, FillsNext, ExchangeNext, ProjectionNext, projectionOnly, Projection!vars,
      Projection!net, Projection!server, Projection!held, Projection!count, Projection!shown,
      Projection!life
  <2> QED
    BY <2>1, ConstantsOK, ProjectionStepsKept
<1>3. Inv => ProjectionKept
  <2> SUFFICES ASSUME ProjectionInv
               PROVE  Projection!TypeOK /\ Projection!StaleOrWatched /\ Projection!FedAsShown
                      /\ Projection!LaterScopeWins /\ Projection!GapsMadeGood
                      /\ Projection!NothingExtra
    BY DEF ProjectionKept
  <2> USE DEF ProjectionInv
  <2>1. Projection!StaleOrWatched
    BY DEF AtWork, Live, WatchedAs, Projection!TypeOK, Projection!StaleOrWatched,
      Projection!IsStale, Projection!Watched
  <2>2. Projection!FedAsShown
    BY DEF Fed, Projection!FedAsShown
  <2>3. Projection!NothingExtra
    BY DEF Owned, Projection!TypeOK, Projection!NothingExtra, Projection!AtRest
  <2>4. Projection!LaterScopeWins
    BY DEF InScope, Projection!LaterScopeWins, Projection!AtRest
  <2>5. Projection!GapsMadeGood
    BY DEF MadeGood, Owing, Ahead, AtWork, Projection!TypeOK, Projection!GapsMadeGood,
      Projection!AtRest
  <2> QED
    BY <2>1, <2>2, <2>3, <2>4, <2>5
<1> QED
  BY <1>1, <1>2, <1>3, PTL DEF Spec
=============================================================================
