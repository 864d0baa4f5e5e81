-------------------------- MODULE OrderAccounting --------------------------
(***************************************************************************)
(* What follows an order's execution (operation.go): Accounted, which      *)
(* reads the order until every executed quantity is on the ledger, and     *)
(* OnFill, which hands each recorded fill of the order to a callback.      *)
(*                                                                         *)
(* The order executed the fills of Own, fill f for a size of f. The ledger *)
(* records them one by one and tells of each with a fill.recorded event,   *)
(* which may be lost; 0 is a fill of another order of the account. A       *)
(* handle's onFillEvent is two subscriptions, the socket's and its         *)
(* orderStream's, so a handler gets every event twice.                     *)
(***************************************************************************)
EXTENDS Naturals, Sequences, FiniteSets

CONSTANTS
    MaxFills,   \* bound: fills of the order
    MaxFaults   \* bound: lost events, failed reads

VARIABLES
    own,        \* the fills the order executed
    carries,    \* the order read has fillsComplete
    recorded,   \* on the ledger
    captured,   \* fill events the orderStream holds for late observers
    wire, lossy, foreign,
    trigger, apc, identified, detail, rows, sum,
    opc, queued, batch, owake, seen, called, off,
    faults

ledger == <<own, carries, recorded>>
socket == <<captured, wire, lossy, foreign>>
accounted == <<trigger, apc, identified, detail, rows, sum>>
observer == <<opc, queued, batch, owake, seen, called, off>>
vars == <<ledger, socket, accounted, observer, faults>>

Fills == 0..MaxFills

(* One type invariant for the module. *)
TypeOK ==
    /\ own \in SUBSET (Fills \ {0}) /\ carries \in BOOLEAN /\ recorded \in SUBSET own
    /\ captured \in Seq(Fills) /\ wire \in Seq(Fills) /\ lossy \in BOOLEAN /\ foreign \in BOOLEAN
    /\ trigger \in BOOLEAN /\ identified \in BOOLEAN
    /\ apc \in {"idle", "receipt", "select", "read", "list", "check", "done"}
    /\ detail \in {"none", "complete", "incomplete", "uncounted"}
    /\ rows \in SUBSET own /\ sum \in Nat
    /\ opc \in {"none", "resolve", "select", "scan", "gone"}
    /\ queued \in Seq(Fills) /\ batch \in Seq(Fills) /\ owake \in BOOLEAN
    /\ seen \in SUBSET Fills /\ called \in [Fills -> Nat] /\ off \in BOOLEAN
    /\ faults \in 0..MaxFaults

(* The handle's user calls Accounted, or OnFill; they share nothing.       *)
Init ==
    /\ own \in {{}, Fills \ {0}} /\ carries \in BOOLEAN /\ recorded = {}
    /\ captured = <<>> /\ wire = <<>> /\ lossy = FALSE /\ foreign = FALSE
    /\ trigger = FALSE /\ identified = FALSE /\ detail = "none"
    /\ rows = {} /\ sum = 0
    /\ queued = <<>> /\ batch = <<>> /\ owake = FALSE /\ seen = {}
    /\ called = [f \in Fills |-> 0]
    /\ \/ apc = "receipt" /\ opc = "gone" /\ off = TRUE
       \/ apc = "idle" /\ opc = "none" /\ off = FALSE
    /\ faults = 0

Fault == faults < MaxFaults /\ faults' = faults + 1

-----------------------------------------------------------------------------
(* The ledger and the socket.                                              *)

Record(f) ==
    /\ f \in own \ recorded
    /\ recorded' = recorded \cup {f}
    /\ \/ wire' = Append(wire, f) /\ UNCHANGED <<lossy, faults>>
       \/ Fault /\ lossy' = TRUE /\ UNCHANGED wire
    /\ UNCHANGED <<own, carries, captured, foreign, accounted, observer>>

RecordForeign ==
    /\ ~foreign
    /\ foreign' = TRUE /\ wire' = Append(wire, 0)
    /\ UNCHANGED <<ledger, captured, lossy, accounted, observer, faults>>

(* Accounted's handlers are attached until it returns. *)
Attached == apc \notin {"idle", "done"}

(* recordedFillMatches, and any fill of the account before the receipt. *)
Looks(f) == f \in own \/ ~identified

(* A fill.recorded event: once for the stream's replay, and to either      *)
(* subscription of each handler.                                           *)
FillEvent ==
    /\ wire # <<>>
    /\ LET f == Head(wire)
       IN  /\ trigger' = (trigger \/ (Attached /\ Looks(f)))
           /\ captured' = Append(captured, f)
           /\ IF opc # "none" /\ ~off
              THEN queued' = queued \o <<f, f>> /\ owake' = TRUE
              ELSE UNCHANGED <<queued, owake>>
    /\ wire' = Tail(wire)
    /\ UNCHANGED <<ledger, lossy, foreign, apc, identified, detail, rows, sum, opc, batch, seen,
                   called, off, faults>>

(* A gap is noticed, or the connection authenticates again. *)
Gap ==
    /\ lossy
    /\ lossy' = FALSE /\ trigger' = (trigger \/ Attached)
    /\ UNCHANGED <<ledger, captured, wire, foreign, apc, identified, detail, rows, sum, observer,
                   faults>>

-----------------------------------------------------------------------------
(* Accounted.                                                              *)

(* The execution receipt gives the order's identity. *)
Receipt ==
    /\ apc = "receipt"
    /\ apc' = "select" /\ identified' = TRUE /\ trigger' = TRUE
    /\ UNCHANGED <<ledger, socket, detail, rows, sum, observer, faults>>

Triggered ==
    /\ apc = "select" /\ trigger
    /\ trigger' = FALSE /\ apc' = "read"
    /\ UNCHANGED <<ledger, socket, identified, detail, rows, sum, observer, faults>>

(* Mutant of TimerFires: only pushes trigger a read. *)
MutTimerFires == Triggered

(* The backoff timer covers a push that was lost and not noticed. *)
TimerFires ==
    /\ apc = "select"
    /\ apc' = "read"
    /\ UNCHANGED <<ledger, socket, trigger, identified, detail, rows, sum, observer, faults>>

(* getOrder; a failed read waits for the next trigger. *)
ReadOrder ==
    /\ apc = "read"
    /\ \/ /\ detail' = IF ~carries THEN "uncounted"
                       ELSE IF recorded = own THEN "complete" ELSE "incomplete"
          /\ apc' = "list"
          /\ UNCHANGED faults
       \/ Fault /\ apc' = "select" /\ UNCHANGED detail
    /\ UNCHANGED <<ledger, socket, trigger, identified, rows, sum, observer>>

(* Mutant of Counted: every row of the order counts. *)
MutCounted(f) == TRUE

(* A row without an operation id is not the platform's record. *)
Counted(f) == f \in recorded

(* A fill f of size f is f units: the sum of sizes, without a recursion.   *)
Units(S) == {u \in S \X (1..MaxFills) : u[2] <= u[1]}
Sizes(S) == Cardinality(Units(S))

(* listFills, for a venue whose order read has no fillsComplete and whose  *)
(* order executed something. The rows hold fills the ledger has not        *)
(* recorded, too.                                                          *)
ListFills ==
    /\ apc = "list" /\ detail = "uncounted" /\ own # {}
    /\ \/ /\ rows' = {f \in own : Counted(f)} /\ sum' = Sizes(rows')
          /\ apc' = "check"
          /\ UNCHANGED faults
       \/ Fault /\ apc' = "select" /\ UNCHANGED <<rows, sum>>
    /\ UNCHANGED <<ledger, socket, trigger, identified, detail, observer>>

(* recordedSizesCover; nothing executed is covered by nothing. *)
IsAccounted ==
    \/ detail = "complete"
    \/ detail = "uncounted" /\ own = {}
    \/ detail = "uncounted" /\ rows # {} /\ sum = Sizes(own)

Check ==
    /\ apc = "check" \/ (apc = "list" /\ (detail # "uncounted" \/ own = {}))
    /\ apc' = IF IsAccounted THEN "done" ELSE "select"
    /\ detail' = "none" /\ rows' = {} /\ sum' = 0
    /\ UNCHANGED <<ledger, socket, trigger, identified, observer, faults>>

-----------------------------------------------------------------------------
(* OnFill.                                                                 *)

(* Mutant of OnFill: events captured earlier are queued without a wake-up. *)
MutOnFill ==
    /\ opc = "none"
    /\ opc' = "resolve"
    /\ queued' = captured
    /\ UNCHANGED <<ledger, socket, accounted, batch, owake, seen, called, off, faults>>

(* The subscription, with the events the stream captured so far. *)
OnFill ==
    /\ opc = "none"
    /\ opc' = "resolve"
    /\ queued' = captured /\ owake' = (captured # <<>>)
    /\ UNCHANGED <<ledger, socket, accounted, batch, seen, called, off, faults>>

(* resolveOrderID and resolveCloid; without them nothing is called. *)
Resolved ==
    /\ opc = "resolve"
    /\ \/ opc' = "select" /\ UNCHANGED <<off, faults>>
       \/ Fault /\ opc' = "gone" /\ off' = TRUE
    /\ UNCHANGED <<ledger, socket, accounted, queued, batch, owake, seen, called>>

TakeBatch ==
    /\ opc = "select" /\ owake /\ ~off
    /\ owake' = FALSE /\ batch' = queued /\ queued' = <<>>
    /\ opc' = "scan"
    /\ UNCHANGED <<ledger, socket, accounted, seen, called, off, faults>>

(* Mutant of Fresh: the handle's two subscriptions are taken for two fills. *)
MutFresh(f) == TRUE

Fresh(f) == f \notin seen

(* fillMatches: the fill has the order's id or its client id. *)
Matches(f) == f \in own

Callback ==
    /\ opc = "scan" /\ batch # <<>> /\ ~off
    /\ LET f == Head(batch)
       IN  IF Matches(f) /\ Fresh(f)
           THEN seen' = seen \cup {f} /\ called' = [called EXCEPT ![f] = @ + 1]
           ELSE UNCHANGED <<seen, called>>
    /\ batch' = Tail(batch)
    /\ UNCHANGED <<ledger, socket, accounted, opc, queued, owake, off, faults>>

Scanned ==
    /\ opc = "scan" /\ batch = <<>> /\ ~off
    /\ opc' = "select"
    /\ UNCHANGED <<ledger, socket, accounted, queued, batch, owake, seen, called, off, faults>>

(* The function OnFill returned is called, or its context ends. *)
StopFills ==
    /\ opc \in {"resolve", "select", "scan"} /\ ~off
    /\ off' = TRUE /\ opc' = "gone"
    /\ UNCHANGED <<ledger, socket, accounted, queued, batch, owake, seen, called, faults>>

Next ==
    \/ \E f \in Fills : Record(f)
    \/ RecordForeign \/ FillEvent \/ Gap
    \/ Receipt \/ Triggered \/ TimerFires \/ ReadOrder \/ ListFills \/ Check
    \/ OnFill \/ Resolved \/ TakeBatch \/ Callback \/ Scanned \/ StopFills

(* A step of Accounted, and of OnFill's goroutine. *)
AccountedStep == Receipt \/ Triggered \/ TimerFires \/ ReadOrder \/ ListFills \/ Check
ObserverStep == Resolved \/ TakeBatch \/ Callback \/ Scanned

-----------------------------------------------------------------------------
(* "Accounted returns once every executed quantity is recorded": it never  *)
(* returns on rows the ledger has not recorded, on a part of the order, or *)
(* on another order's fills.                                               *)
AccountedIsRecorded == apc = "done" => recorded = own

(* Every fill of the order is handed over at most once, though its event   *)
(* arrives through two subscriptions and again from the replay.            *)
CalledOnce == \A f \in Fills : called[f] <= IF f \in own THEN 1 ELSE 0

(* A fill whose event reached the observer. *)
Queued(f) == \E i \in 1..Len(queued) : queued[i] = f
=============================================================================
