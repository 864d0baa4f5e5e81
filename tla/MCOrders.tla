------------------------------ MODULE MCOrders ------------------------------
(***************************************************************************)
(* An order: a behaviour is of its execution, or of what follows it. The   *)
(* variables of the other are Off.                                         *)
(***************************************************************************)
EXTENDS Naturals, Sequences

CONSTANTS Off, MaxNoise, ExecutionFaults, MaxReads, Cap, EarlyCap, MaxFills, AccountingFaults

ASSUME ConstantsOK ==
    /\ MaxNoise \in Nat /\ ExecutionFaults \in Nat
    /\ MaxReads \in Nat \ {0} /\ Cap \in Nat /\ EarlyCap \in Nat
    /\ MaxFills \in Nat /\ AccountingFaults \in Nat

VARIABLES
    phase,                    \* which of the two the behaviour is of
    faults, wire, lossy, batch,
    op, order, names, up, registered, noise, sub, known, spc, ready, started, held, replay,
    listening, stopped, release, dispatch, pc, events, wake, recovery, resolved, verdict, rpc,
    attempt, answer, result, retry, due, unacked,
    own, carries, recorded, captured, foreign, trigger, apc, identified, detail, rows, sum, opc,
    queued, owake, seen, called, off

Execution == INSTANCE OrderExecution WITH MaxFaults <- ExecutionFaults
Accounting == INSTANCE OrderAccounting WITH MaxFaults <- AccountingFaults

executionOnly == <<op, order, names, up, registered, noise, sub, known, spc, ready, started, held,
                   replay, listening, stopped, release, dispatch, pc, events, wake, recovery,
                   resolved, verdict, rpc, attempt, answer, result, retry, due, unacked>>
accountingOnly == <<own, carries, recorded, captured, foreign, trigger, apc, identified, detail,
                    rows, sum, opc, queued, owake, seen, called, off>>
vars == <<phase, faults, wire, lossy, batch, executionOnly, accountingOnly>>

NoExecution ==
    /\ op = Off /\ order = Off /\ names = Off /\ up = Off /\ registered = Off /\ noise = Off
    /\ sub = Off /\ known = Off /\ spc = Off /\ ready = Off /\ started = Off /\ held = Off
    /\ replay = Off /\ listening = Off /\ stopped = Off /\ release = Off /\ dispatch = Off
    /\ pc = Off /\ events = Off /\ wake = Off /\ recovery = Off /\ resolved = Off
    /\ verdict = Off /\ rpc = Off /\ attempt = Off /\ answer = Off /\ result = Off
    /\ retry = Off /\ due = Off /\ unacked = Off

NoAccounting ==
    /\ own = Off /\ carries = Off /\ recorded = Off /\ captured = Off /\ foreign = Off
    /\ trigger = Off /\ apc = Off /\ identified = Off /\ detail = Off /\ rows = Off
    /\ sum = Off /\ opc = Off /\ queued = Off /\ owake = Off /\ seen = Off /\ called = Off
    /\ off = Off

Init ==
    \/ phase = "execution" /\ Execution!Init /\ NoAccounting
    \/ phase = "accounting" /\ Accounting!Init /\ NoExecution

ExecutionStep(A) == phase = "execution" /\ A /\ UNCHANGED <<phase, accountingOnly>>
AccountingStep(A) == phase = "accounting" /\ A /\ UNCHANGED <<phase, executionOnly>>

Next == ExecutionStep(Execution!Next) \/ AccountingStep(Accounting!Next)

Spec ==
    /\ Init /\ [][Next]_vars
    /\ WF_vars(ExecutionStep(Execution!Register)) /\ WF_vars(ExecutionStep(Execution!Gap))
    /\ WF_vars(ExecutionStep(Execution!Authenticated))
    /\ WF_vars(ExecutionStep(Execution!ReleaseTypes))
    /\ WF_vars(ExecutionStep(Execution!Ensure \/ Execution!Confirm))
    /\ WF_vars(ExecutionStep(Execution!Receive \/ Execution!Dispatch))
    /\ WF_vars(ExecutionStep(Execution!WaitStep)) /\ WF_vars(ExecutionStep(Execution!ReadStep))
    /\ WF_vars(AccountingStep(Accounting!AccountedStep))
    /\ WF_vars(AccountingStep(Accounting!ObserverStep))

-----------------------------------------------------------------------------
(* ExecutionReceipt and its orderStream: a receipt is proof of execution   *)
(* and a failure of failure; the wait gets every captured event once, and  *)
(* no evidence without a wake-up; the stream ends with its order, observed *)
(* or not, and keeps no subscription.                                      *)
ReceiptSound ==
    phase = "execution" =>
        /\ Execution!TypeOK
        /\ Execution!VerdictIsTrue
        /\ Execution!HeardOnce
        /\ Execution!Woke
        /\ Execution!NothingHeld
        /\ Execution!EndsUnobserved

(* Accounted returns only on what the ledger recorded, and OnFill hands a  *)
(* fill over at most once although it hears of it twice.                   *)
AccountingSound ==
    phase = "accounting" =>
        /\ Accounting!TypeOK
        /\ Accounting!AccountedIsRecorded
        /\ Accounting!CalledOnce

(* OrderExecution: an order that ended has its receipt in the end, from a  *)
(* push or a read, while the stream has its subscription and the wait has  *)
(* reads left for what it missed; a first read on the acknowledgement of a *)
(* connection since lost is set apart.                                     *)
ReceiptComes ==
    (phase = "execution" /\ pc = "select" /\ order = "done")
        ~> (phase = "execution" /\ (pc = "returned" \/ attempt = MaxReads \/ Execution!Deaf \/ unacked))

(* OrderAccounting: an order on the ledger is accounted in the end, though *)
(* every push of it was lost.                                              *)
AccountedEnds ==
    (phase = "accounting" /\ recorded = own /\ apc # "idle") ~> (phase = "accounting" /\ apc = "done")

(* OrderAccounting: a fill queued for OnFill is handed over, or OnFill is  *)
(* stopped.                                                                *)
FillsHandedOver ==
    \A f \in 1..MaxFills :
       (phase = "accounting" /\ f \in own /\ Accounting!Queued(f))
           ~> (phase = "accounting" /\ (called[f] > 0 \/ off))

(* Nobody waits for an order for ever: the receipt, the accounting and the *)
(* queued fills come, by push or by a read of their own.                   *)
OrderEnds == ReceiptComes /\ AccountedEnds /\ FillsHandedOver
=============================================================================
