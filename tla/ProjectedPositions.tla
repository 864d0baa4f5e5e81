-------------------------- MODULE ProjectedPositions --------------------------
(***************************************************************************)
(* The book a reader shows between an execution and its accounting         *)
(* (accounting_pending.go). The venue executes orders fill by fill, the    *)
(* ledger folds the fills into its positions later and one at a time, and  *)
(* every observation names what is missing from it: the reader adds that   *)
(* to the ledger's rows.                                                   *)
(*                                                                         *)
(* A quantity is signed, long positive. A price is a fraction <<n, d>>, or *)
(* Unknown. The venue and the ledger are external: a fill is of one unit,  *)
(* at a price of its own.                                                  *)
(***************************************************************************)
EXTENDS Integers, Sequences, Functions

CONSTANTS
    Markets,
    Plans,        \* the sequences of executions, each [market, sign, paid, priced]: what
                  \* its first fills cost together, and whether the venue tells a price
    Starts,       \* the quantities a market may start with
    StartPrice,   \* the entry price of what is held at the start
    Unknown

VARIABLES
    plan,       \* the executions, in the order the observation lists them
    start,      \* the quantity of each market at first
    executed,   \* fills of each execution at the venue
    accounted,  \* fills of each execution in the ledger
    ledger,     \* the ledger's row of each market: [qty, entry]
    malformed   \* executions whose entries do not parse

vars == <<plan, start, executed, accounted, ledger, malformed>>

Executions == DOMAIN plan
Size(e) == Len(plan[e].paid)
Paid(e, n) == IF n = 0 THEN 0 ELSE plan[e].paid[n]
Abs(n) == IF n < 0 THEN -n ELSE n
Sign(n) == IF n > 0 THEN 1 ELSE IF n < 0 THEN -1 ELSE 0
SamePrice(p, q) ==
    IF p = Unknown \/ q = Unknown THEN p = q ELSE p[1] * q[2] = q[1] * p[2]

-----------------------------------------------------------------------------
(* The mutant blends a reversal too. *)
MutblendedEntry(held, entry, delta, price) ==
    IF held = 0 \/ entry = Unknown \/ price = Unknown THEN price
    ELSE <<Abs(held) * entry[1] * price[2] + Abs(delta) * price[1] * entry[2],
           (Abs(held) + Abs(delta)) * entry[2] * price[2]>>

(* The entry price after a change: the execution's for a position it opens *)
(* or reverses, the old one for a reduction, the blend by quantity for an  *)
(* increase, unknown if what it needs is.                                  *)
blendedEntry(held, entry, delta, price) ==
    LET next == held + delta IN
    IF held = 0 \/ next = 0 \/ Sign(held) # Sign(next) THEN price
    ELSE IF Sign(delta) # Sign(held) THEN entry
    ELSE IF entry = Unknown \/ price = Unknown THEN Unknown
    ELSE <<Abs(held) * entry[1] * price[2] + Abs(delta) * price[1] * entry[2],
                    (Abs(held) + Abs(delta)) * entry[2] * price[2]>>

Applied(row, delta, price) ==
    [qty |-> row.qty + delta, entry |-> blendedEntry(row.qty, row.entry, delta, price)]

(* An entry's AveragePrice: the venue's aggregate over what it executed.   *)
AveragePrice(e) == IF plan[e].priced THEN <<Paid(e, executed[e]), executed[e]>> ELSE Unknown

(* What the observation says is missing: the executions whose fills the    *)
(* ledger has not all folded.                                              *)
AccountingPending == {e \in Executions : executed[e] > accounted[e]}

AccountingSettled == AccountingPending = {}

(* The mutant adds all that was executed. *)
MutSignedUnaccounted(e) == plan[e].sign * executed[e]

SignedUnaccounted(e) == plan[e].sign * (executed[e] - accounted[e])

PendingOn(m) == {e \in AccountingPending : plan[e].market = m}

(* The ledger's row of a market with some entries applied, in the order    *)
(* they are listed.                                                        *)
composeProjectedPosition(m, entries) ==
    LET row[n \in 0..Len(plan)] ==
            IF n = 0 THEN ledger[m]
            ELSE IF n \in entries THEN Applied(row[n - 1], SignedUnaccounted(n), AveragePrice(n))
            ELSE row[n - 1]
    IN row[Len(plan)]

(* The mutant leaves out the entries that do not parse. *)
MutProjectedPosition(m) == composeProjectedPosition(m, PendingOn(m) \ malformed)

(* A market's row: the ledger's if nothing is pending or an entry does not *)
(* parse, else the composed one.                                           *)
ProjectedPosition(m) ==
    IF PendingOn(m) \cap malformed # {} THEN ledger[m]
    ELSE composeProjectedPosition(m, PendingOn(m))

-----------------------------------------------------------------------------
VenueFills(e) ==
    /\ executed[e] < Size(e)
    /\ executed' = [executed EXCEPT ![e] = @ + 1]
    /\ UNCHANGED <<plan, start, accounted, ledger, malformed>>

(* A row after one more fill: a fill opens a position at its price, blends  *)
(* into one it increases, and leaves the price of one it reduces alone.    *)
Folded(row, sign, price) ==
    [qty |-> row.qty + sign,
     entry |-> IF row.qty = 0 THEN <<price, 1>>
               ELSE IF row.qty + sign = 0 \/ row.entry = Unknown THEN Unknown
               ELSE IF Sign(row.qty) # sign THEN row.entry
               ELSE <<Abs(row.qty) * row.entry[1] + price * row.entry[2],
                      (Abs(row.qty) + 1) * row.entry[2]>>]

(* The ledger folds the next fill of an execution, at that fill's price.   *)
FillPrice(e, n) == Paid(e, n) - Paid(e, n - 1)
LedgerFolds(e) ==
    /\ accounted[e] < executed[e]
    /\ accounted' = [accounted EXCEPT ![e] = @ + 1]
    /\ ledger' = [ledger EXCEPT ![plan[e].market] =
                      Folded(@, plan[e].sign, FillPrice(e, accounted[e] + 1))]
    /\ UNCHANGED <<plan, start, executed, malformed>>

Init ==
    /\ plan \in Plans /\ start \in [Markets -> Starts]
    /\ executed = [e \in DOMAIN plan |-> 0] /\ accounted = [e \in DOMAIN plan |-> 0]
    /\ ledger = [m \in Markets |->
                    [qty |-> start[m], entry |-> IF start[m] = 0 THEN Unknown ELSE StartPrice]]
    /\ malformed \in {{}} \cup {{e} : e \in DOMAIN plan}

Next == \E e \in Executions : VenueFills(e) \/ LedgerFolds(e)

Spec == Init /\ [][Next]_vars

-----------------------------------------------------------------------------
Price == (Int \X Int) \cup {Unknown}

ConstantsOK ==
    /\ Unknown \notin Int \X Int
    /\ Plans \subseteq Seq([market : Markets, sign : {1, -1}, paid : Seq(Int), priced : BOOLEAN])
    /\ Starts \subseteq Int /\ StartPrice \in Price

TypeOK ==
    /\ plan \in Plans /\ malformed \subseteq Executions
    /\ start \in [Markets -> Starts] /\ ledger \in [Markets -> [qty : Int, entry : Price]]
    /\ executed \in [Executions -> Nat] /\ accounted \in [Executions -> Nat]
    /\ \A e \in Executions : accounted[e] <= executed[e] /\ executed[e] <= Size(e)

(* ProjectedPositions yields the same book on the frame of the execution,  *)
(* on the frame of every fill and on the settled one: what was held plus   *)
(* what the venue has executed, whatever the ledger has folded of it.      *)
SameBook ==
    \A m \in Markets :
        LET here == {e \in Executions : plan[e].market = m} IN
        (here \cap malformed = {}) =>
            ProjectedPosition(m).qty =
                start[m] + SumFunction([e \in here |-> plan[e].sign * executed[e]])

(* An entry that does not parse neither invents nor erases: its market     *)
(* shows what the ledger has, and the other markets are not touched.       *)
MalformedKeepsLedger ==
    \A m \in Markets :
        (\E e \in malformed : plan[e].market = m /\ accounted[e] < executed[e]) =>
            ProjectedPosition(m) = ledger[m]

(* A market's row as the ledger will have it, each fill at its own price.  *)
Settled(m, e) ==
    LET row[n \in 0..(executed[e] - accounted[e])] ==
            IF n = 0 THEN ledger[m]
            ELSE Folded(row[n - 1], plan[e].sign, FillPrice(e, accounted[e] + n))
    IN row[executed[e] - accounted[e]]

(* The fills of an execution were all at one price.                        *)
OnePrice(e) == \A n \in 1..executed[e] : Paid(e, n) = n * Paid(e, 1)

(* blendedEntry: the price a reader shows while one execution is pending   *)
(* is the one the ledger settles at, if the execution only reduces the     *)
(* position, if its fills were at one price, or if the ledger has folded   *)
(* none of it and the position is opened or increased. Elsewhere, in an    *)
(* increase partly folded or a reversal at differing prices, the venue's   *)
(* aggregate is over other fills than the ledger has yet to fold, and the  *)
(* price shown is another one; with no aggregate there is none.            *)
EntryAsSettled ==
    \A e \in Executions \ malformed :
        LET m == plan[e].market
            held == plan[e].sign * ledger[m].qty
            reduces == held + (executed[e] - accounted[e]) < 0
            shown == ProjectedPosition(m) IN
        (PendingOn(m) = {e} /\ shown.qty # 0) =>
            /\ (reduces \/ (plan[e].priced /\ (OnePrice(e) \/ (accounted[e] = 0 /\ held >= 0)))) =>
                  SamePrice(shown.entry, Settled(m, e).entry)
            /\ ~(reduces \/ plan[e].priced) => shown.entry = Unknown

(* Whatever the ledger has folded, a reader shows the book, and the price  *)
(* it will settle at where EntryAsSettled says that it does.               *)
BookSound == TypeOK /\ SameBook /\ EntryAsSettled /\ MalformedKeepsLedger
=============================================================================
