--------------------------- MODULE ExecutionEvidence ---------------------------
(***************************************************************************)
(* What a reader may conclude about an order from its records              *)
(* (operation.go, order_execution.go, execution_receipt.go,                *)
(* order_attach.go). The venue executes the order; the platform writes the *)
(* outcome of its operation, and the venue's history of it, from what it   *)
(* saw at some earlier time. A reader copies the operation, later asks for *)
(* a receipt, for the order's details or for a handle, on its account or   *)
(* by mistake on another, and the answer must be true of the order.        *)
(*                                                                         *)
(* A size is a number of units or Bad, a text that is not an exact         *)
(* decimal. The venue, the platform's records and GetOrder are external.   *)
(***************************************************************************)
EXTENDS Naturals

CONSTANTS
    MaxSize,      \* bound: the largest order
    Kinds,        \* the kinds of order: "market", "gll", "ioc", "limit", "trigger"
    Bad, Nothing

Accounts == {"own", "other"}
Order == "order"      \* the order's id; the operation's id is another

VARIABLES
    intent,     \* the recorded input, if it is known: its size and the kind of order
    order,      \* the order at the venue: [status, filled, size]
    op,         \* the operation: [state, outcome]
    history,    \* the venue's history row that GetOrder returns, or Nothing
    resized,    \* the sizes whose resize path has been used
    copy,       \* the operation as a reader has read it, or Nothing
    receipt,    \* the receipt it was given, or Nothing
    detail,     \* the details Filled returned, or Nothing
    handle      \* the handle OrderHandleFor returned, or Nothing

venue == <<order, history>>
given == <<receipt, detail, handle>>
vars == <<intent, venue, op, resized, copy, given>>

-----------------------------------------------------------------------------
normalizeExecutionStatus(s) ==
    CASE s \in {"CANCELED", "EXPIRED"} -> "CANCELLED"
      [] s = "REJECTED" -> "FAILED"
      [] OTHER -> s

(* The mutant takes a working order for one that has ended. *)
MutisTerminalOrderStatus(s) == normalizeExecutionStatus(s) # ""

isTerminalOrderStatus(s) == normalizeExecutionStatus(s) \in {"FILLED", "CANCELLED", "FAILED"}

(* What is known of an order: its execution state, and what became of the  *)
(* rest of it.                                                             *)
executionDisposition(o) ==
    LET st == normalizeExecutionStatus(o.status)
        short == o.size # Bad /\ o.size > 0 /\ o.filled < o.size
        rest == IF o.tif = "IOC" THEN "cancelled" ELSE "unknown" IN
    IF o.filled = Bad THEN <<"unknown", "unknown">>
    ELSE IF st = "FILLED" /\ short /\ o.filled > 0 THEN <<"partial", rest>>
    ELSE IF st = "FILLED" /\ short /\ rest = "cancelled" THEN <<"no_fill", rest>>
    ELSE IF st = "FILLED" /\ ~short /\ o.filled > 0 THEN <<"filled", "filled">>
    ELSE IF st = "FILLED" THEN <<"unknown", "unknown">>
    ELSE IF st \in {"CANCELLED", "FAILED"} /\ o.filled > 0 THEN <<"partial", "cancelled">>
    ELSE IF st = "CANCELLED" THEN <<"no_fill", "cancelled">>
    ELSE IF st = "FAILED" THEN <<"rejected", "cancelled">>
    ELSE <<"pending", "working">>

(* How much of the request was fulfilled, known only if both sizes are and *)
(* no more was executed than requested.                                    *)
Fulfillment(o) ==
    IF o.size = Bad \/ o.filled = Bad THEN "unknown"
    ELSE IF o.filled > o.size THEN "unknown"
    ELSE IF o.filled = 0 THEN "none"
    ELSE IF o.filled < o.size THEN "partial"
    ELSE "full"

ExecutionOutcome(o) ==
    [orderId |-> o.id, filled |-> o.filled, fulfillment |-> Fulfillment(o),
     state |-> executionDisposition(o)[1], rest |-> executionDisposition(o)[2]]

executionReceipt(evidence, acct) == [outcome |-> ExecutionOutcome(evidence), objectId |-> acct]

(* The mutant takes the request from the venue's row. *)
MutIntended(status, filled, id, size) ==
    [id |-> id, status |-> status, filled |-> filled, size |-> size, tif |-> "GTC"]

(* An observation joined to the original intent: the size is the one the   *)
(* operation recorded, never the venue's, and a prepared GLL order is      *)
(* immediate whatever its input says.                                      *)
Intended(status, filled, id, size) ==
    [id |-> id, status |-> status, filled |-> filled,
     size |-> IF intent.known THEN intent.size ELSE Bad,
     tif |-> IF intent.known /\ intent.kind \in {"ioc", "gll"} THEN "IOC" ELSE "GTC"]

(* The mutant leaves the account out. *)
MutOtherAccount(acct) == FALSE

OtherAccount(acct) == intent.known /\ acct # "own"

(* An operation's own outcome as evidence: only of a completed operation,  *)
(* of this account, with the order's id, a terminal status and an exact    *)
(* size. Nothing otherwise.                                                *)
operationExecution(o, acct) ==
    LET out == o.outcome
        row == Intended(out.status, out.filled, out.orderId, out.filled) IN
    IF o.state # "completed" \/ out = Nothing THEN Nothing
    ELSE IF out.orderId = "" \/ OtherAccount(acct) THEN Nothing
    ELSE IF ~isTerminalOrderStatus(out.status) THEN Nothing
    ELSE IF executionDisposition(row)[1] = "unknown" THEN Nothing
    ELSE row

executionUpdate(row, acct) ==
    LET joined == Intended(row.status, row.filled, row.id, row.size) IN
    IF OtherAccount(acct) \/ ~isTerminalOrderStatus(row.status)
            \/ executionDisposition(joined)[1] = "unknown"
    THEN Nothing ELSE joined

Recorded(o) == IF o.outcome = Nothing THEN "" ELSE o.outcome.orderId

(* GetOrder finds the order by its id or by its operation's, on its own    *)
(* account alone. Asked for by id, the venue may answer with another one.  *)
GetOrder(o, acct) ==
    IF acct # "own" \/ history = Nothing THEN Nothing
    ELSE IF Recorded(o) = "" /\ history.id # Order THEN Nothing
    ELSE history

(* The order of an operation. If the operation knows the order's id, no    *)
(* other order is evidence.                                                *)
GetOperationOrder(o, acct) ==
    LET found == GetOrder(o, acct) IN
    IF found # Nothing /\ Recorded(o) # "" /\ found.id # Recorded(o) THEN Nothing ELSE found

(* A receipt: from the operation if it has one, else from the order.       *)
GetOperationExecutionReceipt(o, acct) ==
    LET recorded == operationExecution(o, acct)
        found == GetOperationOrder(o, acct)
        update == IF found = Nothing THEN Nothing ELSE executionUpdate(found, acct) IN
    IF OtherAccount(acct) THEN Nothing
    ELSE IF o.state \in {"failed", "expired"} THEN Nothing
    ELSE IF recorded # Nothing THEN executionReceipt(recorded, acct)
    ELSE IF update # Nothing THEN executionReceipt(update, acct)
    ELSE Nothing

-----------------------------------------------------------------------------
(* The venue and the platform. *)

VenueFills ==
    /\ order.status = "OPEN" /\ order.filled < order.size
    /\ order' = [order EXCEPT !.filled = @ + 1]
    /\ UNCHANGED <<intent, history, op, resized, copy, given>>

Immediate == intent.kind \in {"ioc", "gll", "market"}

(* A full order is FILLED; one that is immediate may be FILLED with less,  *)
(* and any order may be cancelled, expire or be rejected.                  *)
VenueEnds ==
    /\ order.status = "OPEN"
    /\ \E s \in {"FILLED", "CANCELED", "EXPIRED", "REJECTED"} :
          /\ s = "FILLED" => (order.filled = order.size \/ Immediate)
          /\ order.filled = order.size => s = "FILLED"
          /\ s = "REJECTED" => order.filled = 0
          /\ order' = [order EXCEPT !.status = s]
    /\ UNCHANGED <<intent, history, op, resized, copy, given>>

(* The venue's history row, until it has been read: its size may be what   *)
(* was executed.                                                           *)
VenueWrites ==
    /\ detail = Nothing
    /\ \E size \in {order.size, order.filled}, filled \in {order.filled, Bad} :
          history' = [id |-> Order, status |-> order.status, filled |-> filled, size |-> size]
    /\ UNCHANGED <<intent, order, op, resized, copy, given>>

VenueConfuses ==
    /\ detail = Nothing
    /\ history' = [id |-> "another", status |-> "FILLED", filled |-> MaxSize, size |-> MaxSize]
    /\ UNCHANGED <<intent, order, op, resized, copy, given>>

(* The operation completes when the order is placed, and its outcome is    *)
(* written again as the order executes, with or without the order's id.    *)
PlatformWrites ==
    /\ op.state \in {"pending", "completed"}
    /\ \E id \in {"", Order}, filled \in {order.filled, Bad} :
          /\ op.outcome # Nothing => id = op.outcome.orderId \/ id = Order
          /\ op' = [state |-> "completed",
                    outcome |-> [orderId |-> id, status |-> order.status, filled |-> filled]]
    /\ UNCHANGED <<intent, venue, resized, copy, given>>

PlatformFails ==
    /\ op.state = "pending" /\ order.status = "OPEN" /\ order.filled = 0
    /\ op' = [op EXCEPT !.state = "failed"]
    /\ order' = [order EXCEPT !.status = "REJECTED"]
    /\ UNCHANGED <<intent, history, resized, copy, given>>

-----------------------------------------------------------------------------
(* The reader. *)

ReadOperation ==
    /\ receipt = Nothing
    /\ copy' = op
    /\ UNCHANGED <<intent, venue, op, resized, given>>

AskReceipt(acct) ==
    /\ copy # Nothing /\ receipt = Nothing
    /\ receipt' = GetOperationExecutionReceipt(copy, acct)
    /\ receipt' # Nothing
    /\ copy' = Nothing
    /\ UNCHANGED <<intent, venue, op, resized, detail, handle>>

(* The mutant takes the row as it is. *)
MutFilled ==
    /\ receipt # Nothing /\ detail = Nothing /\ history # Nothing
    /\ detail' = history
    /\ UNCHANGED <<intent, venue, op, resized, copy, receipt, handle>>

(* The details of an executed order: they must be of the same order,       *)
(* terminal, and of the size the receipt says.                             *)
Filled ==
    /\ receipt # Nothing /\ detail = Nothing /\ history # Nothing
    /\ history.id = receipt.outcome.orderId
    /\ isTerminalOrderStatus(history.status) /\ history.filled = receipt.outcome.filled
    /\ detail' = history
    /\ UNCHANGED <<intent, venue, op, resized, copy, receipt, handle>>

recordedImmediateIntent ==
    ~intent.known \/ intent.kind \in {"market", "gll", "ioc"}

(* The operation is read again; its id may be of an operation that is no   *)
(* order, which is refused like another account's.                         *)
OrderHandleFor(acct) ==
    /\ handle = Nothing /\ ~OtherAccount(acct)
    /\ handle' = [acct |-> acct, immediate |-> recordedImmediateIntent]
    /\ UNCHANGED <<intent, venue, op, resized, copy, receipt, detail>>

(* A resize is an operation of its own, whose path is made of the new      *)
(* size: asked for again it is the first one.                              *)
Resize(size) ==
    /\ handle # Nothing /\ handle.acct = "own"
    /\ resized' = resized \cup {size}
    /\ order' = IF size \in resized \/ order.status # "OPEN" \/ size <= order.filled
                THEN order ELSE [order EXCEPT !.size = size]
    /\ UNCHANGED <<intent, history, op, copy, given>>

(* Cancel resolves the order and cancels what is left of it. *)
Cancel ==
    /\ handle # Nothing /\ handle.acct = "own"
    /\ order.status = "OPEN" /\ order.filled < order.size
    /\ order' = [order EXCEPT !.status = "CANCELED"]
    /\ UNCHANGED <<intent, history, op, resized, copy, given>>

Init ==
    /\ intent \in {i \in [known : BOOLEAN, size : {MaxSize, Bad}, kind : Kinds] :
                     ~i.known => i.size = Bad}
    /\ order = [status |-> "OPEN", filled |-> 0, size |-> MaxSize]
    /\ op = [state |-> "pending", outcome |-> Nothing]
    /\ history = Nothing /\ resized = {} /\ copy = Nothing
    /\ receipt = Nothing /\ detail = Nothing /\ handle = Nothing

Next ==
    \/ VenueFills \/ VenueEnds \/ VenueWrites \/ VenueConfuses
    \/ PlatformWrites \/ PlatformFails
    \/ ReadOperation
    \/ \E acct \in Accounts : AskReceipt(acct) \/ OrderHandleFor(acct)
    \/ Filled
    \/ \E size \in 1..MaxSize : Resize(size)
    \/ Cancel

Spec == Init /\ [][Next]_vars

-----------------------------------------------------------------------------
(* Bad is a text that is no exact decimal. *)
ConstantsOK == MaxSize \in Nat \ {0} /\ Bad \notin Nat

TypeOK ==
    /\ order.filled \in 0..order.size /\ order.size \in 1..MaxSize
    /\ op.state \in {"pending", "completed", "failed"}
    /\ resized \subseteq 1..MaxSize

(* GetOperationExecutionReceipt, executionDisposition: whatever records it *)
(* is made of, and whenever they were written, a receipt is of an order    *)
(* that has ended, of this order, with the size it really executed; it     *)
(* says filled only of an order that left nothing open and no fill only of *)
(* one that has none.                                                      *)
ReceiptIsTrue ==
    receipt # Nothing =>
        LET out == receipt.outcome IN
        /\ order.status # "OPEN"
        /\ out.orderId = Order
        /\ out.filled = order.filled
        /\ out.state \in {"filled", "partial", "no_fill", "rejected"}
        /\ out.state \in {"no_fill", "rejected"} <=> order.filled = 0

(* executionDisposition, Fulfillment: the two verdicts of a receipt agree, *)
(* and the request it compares with is the original one although the       *)
(* venue's row may say another. (A resize makes them differ.)              *)
VerdictsAgree ==
    (receipt # Nothing /\ resized = {} /\ intent.known /\ intent.size # Bad) =>
        LET out == receipt.outcome IN
        /\ out.state = "filled" <=> out.fulfillment = "full"
        /\ out.state = "partial" <=> out.fulfillment = "partial"
        /\ out.fulfillment = "full" <=> order.filled = intent.size

(* readOrderOperation, operationExecution: what another account asks for   *)
(* is never answered if the operation recorded whose it is.                *)
NoForeignAnswer ==
    intent.known =>
        /\ handle # Nothing => handle.acct = "own"
        /\ receipt # Nothing => receipt.objectId = "own"

(* Filled gives details only of the executed order, of all it executed.    *)
DetailMatches ==
    detail # Nothing =>
        /\ detail.id = receipt.outcome.orderId
        /\ detail.filled = order.filled /\ detail.status = order.status

(* The receipt, the details and the handle of an order, together. *)
EvidenceSound == TypeOK /\ ReceiptIsTrue /\ VerdictsAgree /\ NoForeignAnswer /\ DetailMatches
=============================================================================
