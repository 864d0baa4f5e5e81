------------------------------ MODULE Revaluation ------------------------------
(***************************************************************************)
(* Figures re-marked at new mid prices between two deliveries of the       *)
(* server (revalue.go): a projected row, an exchange state, an aggregation *)
(* and a valued object. The server prices what it can; mid prices reach    *)
(* the client market by market. It re-marks the projected row it holds,    *)
(* always the row as delivered, and the other figures as it shows them.    *)
(* Amounts are integers; the code's exact decimals do not round and its    *)
(* float64 sums are taken as exact.                                        *)
(***************************************************************************)
EXTENDS Integers, FiniteSets, Functions

CONSTANTS
    Markets,
    Books,        \* the positions: [market -> [side, size, entry]]
    Prices,       \* the mid prices there are
    Cash,         \* what an equity has besides its positions
    Spot,         \* the amount of every market's asset that is held
    Extra,        \* what the server adds to the P&L of a position, as unsettled funding
    MaxTicks,     \* bound: changes of a price
    Nothing

VARIABLES
    book,
    mids,       \* the mid prices at the venue
    held,       \* those the client has heard of, or Nothing
    row,        \* the row delivered last: [mode, mark, pnl, equity, complete], or Nothing
    shown,      \* the row as it is shown
    first,      \* the other figures as delivered: [exchange, agg, object]
    state,      \* as they are shown, and the mids they were last re-marked at
    ticks

vars == <<book, mids, held, row, shown, first, state, ticks>>

Abs(n) == IF n < 0 THEN -n ELSE n
OrZero(x) == IF x = Nothing THEN 0 ELSE x

-----------------------------------------------------------------------------
(* A size is signed by its side, or by itself if it has none. *)
Signed(p) ==
    CASE p.side = "short" -> -Abs(p.size)
      [] p.side = "long" -> Abs(p.size)
      [] OTHER -> p.size

(* The mutant measures the change from the entry price. *)
MutremarkProjectedPosition(p, mid, mark, pnl) ==
    [pnl |-> Signed(p) * (mid - p.entry), shift |-> Signed(p) * (mid - p.entry)]

(* The P&L of a position at a mid price and its change from the delivered  *)
(* row: the delivered one shifted by the move of the mark, or anew from    *)
(* the entry price if the row has no mark.                                 *)
remarkProjectedPosition(p, mid, mark, pnl) ==
    IF mark # Nothing /\ pnl # Nothing
    THEN [pnl |-> pnl + Signed(p) * (mid - mark), shift |-> Signed(p) * (mid - mark)]
    ELSE [pnl |-> Signed(p) * (mid - p.entry),
          shift |-> Signed(p) * (mid - p.entry) - OrZero(pnl)]

(* The mutant takes a row for complete when any position could be marked. *)
MutAllMarked(r) == \E m \in Markets : held[m] # Nothing

AllMarked(r) == \A m \in Markets : held[m] # Nothing \/ r.mark[m] # Nothing

(* A row re-marked: every figure shifts by the change of the positions'    *)
(* P&L. Rows the server prices, and positions without a mid, stay.         *)
RevalueProjectedValuation(r) ==
    LET New(m) == remarkProjectedPosition(book[m], held[m], r.mark[m], r.pnl[m])
        moved == {m \in Markets : held[m] # Nothing} IN
    IF r.mode = "server" \/ moved = {} THEN r
    ELSE [r EXCEPT !.mark = [m \in Markets |-> IF m \in moved THEN held[m] ELSE @[m]],
                   !.pnl = [m \in Markets |-> IF m \in moved THEN New(m).pnl ELSE @[m]],
                   !.equity = @ + SumFunction([m \in moved |-> New(m).shift]),
                   !.complete = @ \/ AllMarked(r)]

Total(values) == SumFunction([k \in DOMAIN values |-> OrZero(values[k])])

(* The P&L of an exchange state's position, whose size has no sign. *)
Unrealized(p, mid) == IF p.side = "long" THEN (mid - p.entry) * p.size ELSE (p.entry - mid) * p.size

(* The mutant leaves out the positions it has no mid for. *)
MutRevalueExchangeState(pnl) ==
    LET new == [m \in Markets |-> IF held[m] = Nothing THEN pnl[m] ELSE Unrealized(book[m], held[m])] IN
    [pnl |-> new,
     total |-> SumFunctionOnSet(new, {m \in Markets : held[m] # Nothing})]

(* The positions of an exchange state from their entry prices, and their   *)
(* total; a position without a mid counts as it is.                        *)
RevalueExchangeState(pnl) ==
    LET new == [m \in Markets |->
                   IF held[m] = Nothing THEN pnl[m] ELSE Unrealized(book[m], held[m])] IN
    [pnl |-> new, total |-> Total(new)]

(* The entries of an aggregation: spot ones are priced, the others stay. *)
RevalueAggregation(values) ==
    LET new == [k \in DOMAIN values |->
                   IF k \notin Markets \/ held[k] = Nothing THEN values[k] ELSE Spot * held[k]] IN
    [values |-> new, total |-> Total(new)]

(* A valued object: its balances priced, and its positions at the notional *)
(* value they have.                                                        *)
RevalueObject(balances, positions) ==
    LET b == [m \in Markets |-> IF held[m] = Nothing THEN balances[m] ELSE Spot * held[m]]
        p == [m \in Markets |-> IF held[m] = Nothing THEN positions[m] ELSE book[m].size * held[m]] IN
    [balances |-> b, positions |-> p, total |-> Total(b) + Total(p)]

Revalued(s) ==
    [exchange |-> RevalueExchangeState(s.exchange.pnl), agg |-> RevalueAggregation(s.agg.values),
     object |-> RevalueObject(s.object.balances, s.object.positions), at |-> held]

-----------------------------------------------------------------------------
(* The server delivers a row: some positions marked, some with a P&L and   *)
(* no mark, some with neither.                                             *)
Deliver ==
    /\ row = Nothing
    /\ \E how \in [Markets -> {"marked", "pnl", "none"}], mode \in {"client", "server"} :
          LET pnl == [m \in Markets |-> IF how[m] = "none" THEN Nothing
                                        ELSE Signed(book[m]) * (mids[m] - book[m].entry) + Extra] IN
          row' = [mode |-> mode,
                  mark |-> [m \in Markets |-> IF how[m] = "marked" THEN mids[m] ELSE Nothing],
                  pnl |-> pnl,
                  equity |-> Cash + Total(pnl),
                  complete |-> \A m \in Markets : how[m] = "marked"]
    /\ LET spot == [m \in Markets |-> Spot * mids[m]]
           notional == [m \in Markets |-> IF row'.pnl[m] = Nothing THEN Nothing
                                          ELSE book[m].size * mids[m]]
           entries == [k \in Markets \cup {"perp"} |-> IF k = "perp" THEN Cash ELSE spot[k]] IN
       first' = [exchange |-> [pnl |-> row'.pnl, total |-> Total(row'.pnl)],
                 agg |-> [values |-> entries, total |-> Total(entries)],
                 object |-> [balances |-> spot, positions |-> notional,
                             total |-> Total(spot) + Total(notional)],
                 at |-> [m \in Markets |-> Nothing]]
    /\ shown' = row' /\ state' = first'
    /\ UNCHANGED <<book, mids, held, ticks>>

MoveMid(m, p) ==
    /\ ticks < MaxTicks /\ p # mids[m]
    /\ ticks' = ticks + 1
    /\ mids' = [mids EXCEPT ![m] = p]
    /\ UNCHANGED <<book, held, row, shown, first, state>>

(* A mid price reaches the client. *)
Hear(m) ==
    /\ row # Nothing /\ held[m] # mids[m]
    /\ held' = [held EXCEPT ![m] = mids[m]]
    /\ UNCHANGED <<book, mids, row, shown, first, state, ticks>>

Remark ==
    /\ row # Nothing
    /\ shown' = RevalueProjectedValuation(row)
    /\ state' = Revalued(state)
    /\ <<shown', state'>> # <<shown, state>>
    /\ UNCHANGED <<book, mids, held, row, first, ticks>>

Init ==
    /\ book \in Books /\ mids \in [Markets -> Prices]
    /\ held = [m \in Markets |-> Nothing]
    /\ row = Nothing /\ shown = Nothing /\ first = Nothing /\ state = Nothing /\ ticks = 0

Next ==
    \/ Deliver
    \/ \E m \in Markets : Hear(m) \/ \E p \in Prices : MoveMid(m, p)
    \/ Remark

Spec == Init /\ [][Next]_vars

-----------------------------------------------------------------------------
ConstantsOK ==
    /\ IsFiniteSet(Markets) /\ "perp" \notin Markets
    /\ Books \subseteq [Markets -> [side : {"long", "short", ""}, size : Int, entry : Int]]
    /\ Prices \subseteq Int /\ Cash \in Int /\ Spot \in Int /\ Extra \in Int
    /\ MaxTicks \in Nat /\ Nothing \notin Int

TypeOK ==
    /\ mids \in [Markets -> Prices] /\ held \in [Markets -> Prices \cup {Nothing}]
    /\ ticks \in 0..MaxTicks

(* What a position is worth at the mark it is shown with: what the server  *)
(* adds is kept where its mark was.                                        *)
Worth(m) ==
    IF shown.mark[m] = Nothing THEN OrZero(row.pnl[m])
    ELSE Signed(book[m]) * (shown.mark[m] - book[m].entry)
            + (IF row.mark[m] # Nothing THEN Extra ELSE 0)

(* RevalueProjectedValuation: a row re-marked at any subset of the mids    *)
(* has the equity the server would give it at those marks, and a row the   *)
(* server prices is never changed.                                         *)
EquityAtMarks ==
    shown # Nothing =>
        /\ shown.equity = Cash + SumFunction([m \in Markets |-> Worth(m)])
        /\ row.mode = "server" => shown = row

(* MidsComplete is given back only when every position has a mark. *)
CompleteIsMarked ==
    (shown # Nothing /\ shown.complete) => \A m \in Markets : shown.mark[m] # Nothing

(* RevalueExchangeState, RevalueAggregation, RevalueObject: however often  *)
(* figures are re-marked, and whichever mids came when, their totals are   *)
(* those of what was delivered, priced once at the last mids, what has no  *)
(* mid included.                                                           *)
TotalsAtMids ==
    state # Nothing =>
        LET Known == {m \in Markets : state.at[m] # Nothing}
            Missing(values) == SumFunction([m \in Markets \ Known |-> OrZero(values[m])]) IN
        /\ state.exchange.total = Missing(first.exchange.pnl)
              + SumFunction([m \in Known |-> Unrealized(book[m], state.at[m])])
        /\ state.agg.total = Cash + Missing(first.agg.values)
              + SumFunction([m \in Known |-> Spot * state.at[m]])
        /\ state.object.total = Missing(first.object.balances) + Missing(first.object.positions)
              + SumFunction([m \in Known |-> (Spot + book[m].size) * state.at[m]])

(* However often figures are re-marked, an account's equity is its book at *)
(* the last prices, a complete valuation has a price for every position,   *)
(* and totals are those of what was delivered, priced once.                *)
RevaluedSound == TypeOK /\ EquityAtMarks /\ CompleteIsMarked /\ TotalsAtMids
=============================================================================
