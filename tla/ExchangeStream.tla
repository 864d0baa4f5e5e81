--------------------------- MODULE ExchangeStream ---------------------------
(***************************************************************************)
(* WatchExchangeState (streams.go): the state of one exchange account,     *)
(* from pushes, from REST reads and from timers that race each other. A    *)
(* read belongs to the observation epoch it began in and is dropped when   *)
(* the epoch has moved on; a state observed before the one that is held is *)
(* dropped, too. An observation the server withdraws, or that outlives its *)
(* validUntil, is cleared, and a recovery timer reads until one is back.   *)
(*                                                                         *)
(* Three goroutines read: the constructor, the delivery goroutine (for a   *)
(* push without a state) and the one Refresh starts, behind a gate that    *)
(* queues one more read while one is under way. A state is the version of  *)
(* the account's ledger it was read at; a push may carry an older one.     *)
(* from, voids and owed are for the properties; no action reads them.      *)
(***************************************************************************)
EXTENDS Naturals

CONSTANTS
    MaxBook,    \* bound: versions of the ledger
    MaxPushes,  \* bound: pushes that arrive
    MaxFaults   \* bound: failed reads, expiries, calls of Refresh

Readers == {"constructor", "delivery", "refetch"}

VARIABLES
    book,       \* the ledger's version on the server
    value,      \* s.value, 0 when there is none
    state,      \* the stream's WatchState
    closed,
    epoch,      \* observationEpoch
    reader,     \* each goroutine: [pc, epoch, v, voids]
    expiry,     \* the epoch expiryTimer is armed for, 0 for none
    recovery,   \* recoveryTimer is armed
    active, queued,  \* refetchActive, refetchQueued
    skipFirstAuth,
    pushes, faults,
    from,       \* how many observations had been voided when value was read
    voids,      \* how many have been
    owed        \* Refresh was called and no read has begun since

held == <<value, state, from>>
gate == <<active, queued, owed>>
timers == <<expiry, recovery>>
vars == <<book, held, closed, epoch, reader, timers, gate, skipFirstAuth, pushes, faults, voids>>

Idle == [pc |-> "idle", epoch |-> 0, v |-> 0, voids |-> 0]
Steps == {"idle", "start", "ask", "served", "unavailable", "gate", "leave"}

(* One type invariant for the module. *)
TypeOK ==
    /\ book \in 1..MaxBook /\ value \in 0..MaxBook
    /\ state \in {"loading", "connected", "reconnecting"}
    /\ (state = "connected") = (value # 0)
    /\ closed \in BOOLEAN /\ epoch \in Nat
    /\ reader \in [Readers -> [pc : Steps, epoch : Nat, v : 0..MaxBook, voids : Nat]]
    /\ expiry \in Nat /\ recovery \in BOOLEAN
    /\ active \in BOOLEAN /\ queued \in BOOLEAN /\ owed \in BOOLEAN
    /\ skipFirstAuth \in BOOLEAN
    /\ pushes \in 0..MaxPushes /\ faults \in 0..MaxFaults
    /\ from \in Nat /\ voids \in Nat

(* The constructor has registered its listeners and is about to read. *)
Init ==
    /\ book = 1 /\ value = 0 /\ state = "loading" /\ closed = FALSE
    /\ epoch = 1
    /\ reader = [g \in Readers |->
                   IF g = "constructor" THEN [Idle EXCEPT !.pc = "ask", !.epoch = 1] ELSE Idle]
    /\ expiry = 0 /\ recovery = FALSE
    /\ active = FALSE /\ queued = FALSE /\ owed = FALSE
    /\ skipFirstAuth \in BOOLEAN
    /\ pushes = 0 /\ faults = 0 /\ from = 0 /\ voids = 0

Fault == faults < MaxFaults /\ faults' = faults + 1

Change ==
    /\ book < MaxBook
    /\ book' = book + 1
    /\ UNCHANGED <<held, closed, epoch, reader, timers, gate, skipFirstAuth, pushes, faults, voids>>

-----------------------------------------------------------------------------
(* Applying and clearing an observation.                                   *)

(* Mutant of InEpoch: a read is applied whatever came meanwhile. *)
MutInEpoch(e) == TRUE

InEpoch(e) == epoch = e

(* Mutant of ObservedBefore: what resolves later is taken for newer. *)
MutObservedBefore(v) == FALSE

(* The state read at v is older than the one that is held. *)
ObservedBefore(v) == value # 0 /\ v < value

(* Mutant of ScheduleRecovery: the stream waits for the next push. *)
MutScheduleRecovery == UNCHANGED recovery

(* scheduleRecoveryLocked, whatever its backoff. *)
ScheduleRecovery == recovery' = TRUE

(* emitExchangeObservation. A state without a validUntil stays, one with a *)
(* deadline expires, and one past it expires at once and is not emitted.   *)
EmitExchangeObservation(o, life) ==
    IF ~InEpoch(o.epoch) \/ ObservedBefore(o.v)
    THEN UNCHANGED <<held, epoch, timers>>
    ELSE /\ epoch' = epoch + 1
         /\ expiry' = IF life = "unbounded" THEN 0 ELSE epoch + 1
         /\ IF life = "past"
            THEN UNCHANGED <<held, recovery>>
            ELSE /\ recovery' = FALSE
                 /\ IF closed THEN UNCHANGED held
                    ELSE value' = o.v /\ state' = "connected" /\ from' = o.voids

(* invalidateExchangeObservation. *)
InvalidateExchangeObservation(e) ==
    IF ~InEpoch(e)
    THEN UNCHANGED <<held, epoch, timers, voids>>
    ELSE /\ epoch' = epoch + 1
         /\ expiry' = 0
         /\ IF closed THEN UNCHANGED <<held, recovery, voids>>
            ELSE /\ value' = 0 /\ state' = "reconnecting" /\ from' = 0
                 /\ ScheduleRecovery
                 /\ voids' = voids + 1

-----------------------------------------------------------------------------
(* The goroutines that read.                                               *)

(* A push arrives: with a state, with none, or to withdraw it. *)
OnExchangeNotification(o) ==
    /\ ~closed /\ pushes < MaxPushes
    /\ reader["delivery"].pc = "idle"
    /\ pushes' = pushes + 1
    /\ epoch' = epoch + 1
    /\ reader' = [reader EXCEPT !["delivery"] = [o EXCEPT !.epoch = epoch + 1, !.voids = voids]]
    /\ UNCHANGED <<book, held, closed, timers, gate, skipFirstAuth, faults, voids>>

Unavailable ==
    /\ reader["delivery"].pc = "unavailable"
    /\ InvalidateExchangeObservation(reader["delivery"].epoch)
    /\ reader' = [reader EXCEPT !["delivery"] = Idle]
    /\ UNCHANGED <<book, closed, gate, skipFirstAuth, pushes, faults>>

(* The server serves a read. *)
Fetch(g) ==
    /\ reader[g].pc = "ask"
    /\ reader' = [reader EXCEPT ![g].pc = "served", ![g].v = book, ![g].voids = voids]
    /\ UNCHANGED <<book, held, closed, epoch, timers, gate, skipFirstAuth, pushes, faults, voids>>

After(g) == IF g = "refetch" THEN [Idle EXCEPT !.pc = "gate"] ELSE Idle

FetchFails(g) ==
    /\ reader[g].pc = "ask" /\ Fault
    /\ reader' = [reader EXCEPT ![g] = After(g)]
    /\ UNCHANGED <<book, held, closed, epoch, timers, gate, skipFirstAuth, pushes, voids>>

(* The answer, or the push's own state, is applied. *)
Observe(g, life) ==
    /\ reader[g].pc = "served"
    /\ IF life = "past" THEN Fault ELSE UNCHANGED faults
    /\ EmitExchangeObservation(reader[g], life)
    /\ reader' = [reader EXCEPT ![g] = After(g)]
    /\ UNCHANGED <<book, closed, gate, skipFirstAuth, pushes, voids>>

-----------------------------------------------------------------------------
(* Refresh and its gate.                                                   *)

(* Mutant of QueueRefetch: the read under way is taken to serve the call. *)
MutQueueRefetch == UNCHANGED queued

QueueRefetch == queued' = TRUE

StartRefetch ==
    /\ owed' = TRUE
    /\ IF active
       THEN QueueRefetch /\ UNCHANGED <<active, reader>>
       ELSE /\ active' = TRUE /\ queued' = FALSE
            /\ reader' = [reader EXCEPT !["refetch"].pc = "start"]

(* A gap, an account change learned out of band, or the application. *)
Refresh ==
    /\ ~closed /\ Fault
    /\ StartRefetch
    /\ UNCHANGED <<book, held, closed, epoch, timers, skipFirstAuth, pushes, voids>>

(* OnAuthenticated: the first one may be the initial connect. *)
Authenticated ==
    /\ ~closed /\ Fault
    /\ skipFirstAuth' = FALSE
    /\ IF skipFirstAuth THEN UNCHANGED <<active, queued, owed, reader>> ELSE StartRefetch
    /\ UNCHANGED <<book, held, closed, epoch, timers, pushes, voids>>

RefetchStarts ==
    /\ reader["refetch"].pc = "start"
    /\ reader' = [reader EXCEPT !["refetch"] =
                    IF closed THEN [Idle EXCEPT !.pc = "leave"]
                    ELSE [Idle EXCEPT !.pc = "ask", !.epoch = epoch]]
    /\ owed' = FALSE
    /\ UNCHANGED <<book, held, closed, epoch, timers, active, queued, skipFirstAuth, pushes, faults,
                   voids>>

RefetchEnds ==
    /\ reader["refetch"].pc \in {"gate", "leave"}
    /\ queued' = (queued /\ reader["refetch"].pc = "leave")
    /\ active' = (queued /\ reader["refetch"].pc = "gate")
    /\ reader' = [reader EXCEPT !["refetch"] =
                    IF active' THEN [Idle EXCEPT !.pc = "start"] ELSE Idle]
    /\ UNCHANGED <<book, held, closed, epoch, timers, owed, skipFirstAuth, pushes, faults, voids>>

-----------------------------------------------------------------------------
(* Timers and Close.                                                       *)

Expire ==
    /\ expiry # 0 /\ Fault
    /\ InvalidateExchangeObservation(expiry)
    /\ UNCHANGED <<book, closed, reader, gate, skipFirstAuth, pushes>>

(* The recovery timer: Refresh, and armed again while the stream is empty. *)
RecoveryFires ==
    /\ recovery
    /\ recovery' = (value = 0 /\ ~closed)
    /\ IF recovery' THEN StartRefetch ELSE UNCHANGED <<active, queued, owed, reader>>
    /\ UNCHANGED <<book, held, closed, epoch, expiry, skipFirstAuth, pushes, faults, voids>>

(* Close stops the timers; what is under way finds the stream closed. *)
Close ==
    /\ ~closed /\ reader["constructor"].pc = "idle"
    /\ closed' = TRUE
    /\ expiry' = 0 /\ recovery' = FALSE
    /\ UNCHANGED <<book, held, epoch, reader, gate, skipFirstAuth, pushes, faults, voids>>

Pushes == {[Idle EXCEPT !.pc = "unavailable"], [Idle EXCEPT !.pc = "ask"]}
          \cup {[Idle EXCEPT !.pc = "served", !.v = v] : v \in 1..book}

Next ==
    \/ Change
    \/ \E o \in Pushes : OnExchangeNotification(o)
    \/ Unavailable
    \/ \E g \in Readers : \/ Fetch(g) \/ FetchFails(g)
                          \/ \E life \in {"unbounded", "until", "past"} : Observe(g, life)
    \/ Refresh \/ Authenticated \/ RefetchStarts \/ RefetchEnds
    \/ Expire \/ RecoveryFires \/ Close

(* A step of the goroutine Refresh started, with a state that is valid. *)
RefetchStep ==
    RefetchStarts \/ RefetchEnds \/ Fetch("refetch") \/ Observe("refetch", "unbounded")

-----------------------------------------------------------------------------
(* Positions and balances are monotonic while a state is held: no read or  *)
(* push that resolves late brings an older ledger back, whatever order     *)
(* they resolve in (observation_order.go).                                 *)
NotOlder == value # 0 /\ value' # 0 => value' >= value

(* An observation that was withdrawn or expired is not restored by a read  *)
(* that was served before: what the stream shows was read after the last   *)
(* withdrawal it applied.                                                  *)
NotRestored == value # 0 => from = voids

(* A stream that lost its observation keeps trying: the recovery timer is  *)
(* armed (scheduleRecoveryLocked).                                         *)
KeepsTrying == state = "reconnecting" /\ ~closed => recovery

(* A Refresh is followed by a read that begins after it, also when it is   *)
(* called while one is in flight: the gate does not forget it.             *)
RefreshReads == owed => active
=============================================================================
