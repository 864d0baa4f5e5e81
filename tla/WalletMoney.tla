------------------------------ MODULE WalletMoney ------------------------------
(***************************************************************************)
(* The money figures of a wallet (money_figure.go). A product holds one    *)
(* wallet snapshot, the operations the server has accepted and no snapshot *)
(* lists yet (predictions) and the last venue frame of its account, and    *)
(* composes from them what it shows: Cash, the account and the total, each *)
(* with the legs of the operations that move money into or out of it.      *)
(*                                                                         *)
(* An amount is the set of the operations whose money is in it: it tells   *)
(* apart what the properties ask, which figure counts whose money. The     *)
(* journal, the venue and the network between them and the product are     *)
(* external. Snapshots and venue frames arrive in any order.               *)
(***************************************************************************)
EXTENDS Naturals, FiniteSets

CONSTANTS
    Scenarios,    \* [route, shape, frames]: the way of each operation, from an endpoint to
                  \* another, how the account is listed: "whole", "unobserved" (no
                  \* figure), "untimed" (a figure of no time) or "held", and a bound
                  \* on the snapshots and venue frames that are sent
    MaxFills,     \* bound: fills of the venue
    Nothing

VARIABLES
    route,      \* the operations that move money and the route of each
    shape,      \* how snapshots list the account
    stage,      \* where the journal has each operation
    settled,    \* operations the venue has executed, ahead of the journal
    fills,      \* what the venue moved by itself
    clock,      \* journal position, which also serves as the time
    left,       \* snapshots and venue frames that may still be sent
    wire,       \* those that have not arrived
    preds,      \* operations the product has submitted: ComposeWalletMoneyOptions.Predictions
    frame,      \* the last venue frame: ComposeWalletMoneyOptions.Revaluations
    money       \* the composed WalletMoney, or Nothing

journal == <<route, shape, stage, settled, fills, clock>>
product == <<preds, frame, money>>
vars == <<journal, left, wire, product>>

Ops == DOMAIN route
From(o) == route[o][1]
To(o) == route[o][2]
Figures == {"cash", "acct", "total"}

-----------------------------------------------------------------------------
(* What a snapshot says. *)

Framed(s) == {o \in Ops : s.stage[o] \notin {"none", "accepted"}}

(* A send out of Cash is in cash.operations, not among the operations; a   *)
(* deposit into Cash is pendingInMicro once it is on the chain.            *)
OwnSend(o) == route[o] = <<"cash", "external">>

PendingIn(s, o) == route[o] = <<"external", "cash">> /\ s.stage[o] = "in_transit"

Moving(s) ==
    {o \in Ops : /\ s.stage[o] \in {"reserved", "in_transit", "expected"}
                 /\ ~OwnSend(o) /\ ~PendingIn(s, o)}

(* The operations whose money a place holds: those that have not left it,  *)
(* and those that have reached it.                                         *)
HeldAt(s, e) ==
    {o \in Ops : \/ From(o) = e /\ s.stage[o] \notin {"in_transit", "done"}
                 \/ To(o) = e /\ s.stage[o] = "done"}

(* The other end of a leg. Only "cash" is this wallet's Cash and only      *)
(* "acct" an account the snapshot lists; another wallet's Cash is outside, *)
(* an account the snapshot does not list is unknown.                       *)
moneyCounterparty(e) ==
    CASE e = "cash" -> "cash"
      [] e = "acct" -> "account"
      [] e \in {"othercash", "external"} -> "external"
      [] OTHER -> "unknown"

CrossesWallet(e) == moneyCounterparty(e) = "external"

Listed(e) == moneyCounterparty(e) \in {"cash", "account"}

Leg(o, dir, st, pred) == [op |-> o, dir |-> dir, stage |-> st, predicted |-> pred]

Departing(o, st, pred) == Leg(o, "outgoing", st, pred)

Arriving(o, st, pred) == Leg(o, "incoming", st, pred)

(* The legs of one operation at the total: money that crosses the wallet. *)
AtTotal(o, st, pred) ==
    {l \in {Departing(o, st, pred)} : CrossesWallet(To(o)) /\ ~CrossesWallet(From(o))}
        \cup {l \in {Arriving(o, st, pred)} : CrossesWallet(From(o)) /\ ~CrossesWallet(To(o))}

(* The mutant shows money in transit at both ends. *)
MutmoneyLegsByEnd(s, f) ==
    UNION {LET st == s.stage[o] IN
           IF f = "total" THEN AtTotal(o, st, FALSE)
           ELSE {l \in {Departing(o, st, FALSE)} : From(o) = f /\ st # "expected"}
                    \cup {l \in {Arriving(o, st, FALSE)} : To(o) = f}
           : o \in Moving(s)}

(* Reserved money is shown at both ends, money in transit at its           *)
(* destination if that is listed and else at its source, expected money at *)
(* its destination.                                                        *)
moneyLegsByEnd(s, f) ==
    UNION {LET st == s.stage[o] IN
           IF f = "total" THEN AtTotal(o, st, FALSE)
           ELSE {l \in {Departing(o, st, FALSE)} :
                    From(o) = f /\ (st = "reserved" \/ (st = "in_transit" /\ ~Listed(To(o))))}
                    \cup {l \in {Arriving(o, st, FALSE)} : To(o) = f}
           : o \in Moving(s)}

(* Cash's own money in flight, shown at Cash and at the total. *)
moneyCashOwnLegs(s) ==
    {Departing(o, s.stage[o], FALSE) :
        o \in {x \in Ops : OwnSend(x) /\ s.stage[x] \in {"reserved", "in_transit"}}}
    \cup {Arriving(o, "in_transit", FALSE) : o \in {x \in Ops : PendingIn(s, x)}}

moneyPredictedLegs(o, f) ==
    IF f = "total" THEN AtTotal(o, "reserved", TRUE)
    ELSE {l \in {Departing(o, "reserved", TRUE)} : From(o) = f}
            \cup {l \in {Arriving(o, "reserved", TRUE)} : To(o) = f}

(* The mutant drops a prediction only while its operation is moving. *)
MutUnframed(s, accepted) == accepted \ Moving(s)

(* The predictions whose operation the snapshot does not list. *)
Unframed(s, accepted) == accepted \ Framed(s)

(* The captions count every leg but the expected ones. *)
InMotion(legs) == {l \in legs : l.stage # "expected"}

(* The mutant uses a venue frame older than the figure. *)
StaleRevalue(s, arriving, venue) ==
    IF venue = Nothing \/ s.shape = "held" \/ InMotion(arriving) # {} THEN Nothing
    ELSE venue.equity

(* A venue frame is shown as it is, unless the account is held, money is   *)
(* on its way to it, or the frame is older than the account's figure.      *)
moneyRevalue(s, arriving, venue) ==
    IF venue = Nothing \/ s.shape = "held" THEN Nothing
    ELSE IF InMotion(arriving) # {} THEN Nothing
    ELSE IF s.shape = "unobserved" THEN Nothing
    ELSE IF s.shape = "untimed" THEN venue.equity
    ELSE IF venue.at < s.seq THEN Nothing
    ELSE venue.equity

(* The total is Cash, the accounts and what is in transit between them. *)
moneyComposedTotal(s) ==
    [ops |-> HeldAt(s, "cash") \cup HeldAt(s, "acct")
                \cup {o \in Moving(s) : s.stage[o] = "in_transit"},
     fills |-> s.fills]

Settled(s, f) ==
    CASE f = "cash" -> [ops |-> HeldAt(s, "cash"), fills |-> 0]
      [] f = "acct" -> IF s.shape = "unobserved" THEN Nothing
                       ELSE [ops |-> HeldAt(s, "acct"), fills |-> s.fills]
      [] OTHER -> moneyComposedTotal(s)

-----------------------------------------------------------------------------
(* Why a figure last moved. *)

moneyTouches(o, f) ==
    \E e \in {From(o), To(o)} : IF f = "total" THEN CrossesWallet(e) ELSE e = f

SameLeg(l, k) == l.op = k.op /\ l.dir = k.dir

(* The mutant takes every operation of the figure for one that moved. *)
MutHits(s, f, legs, before) ==
    <<{l.op : l \in legs}, {}, {o \in Framed(s) : moneyTouches(o, f)}, {}>>

(* The operations that touched a figure, in the order they are looked for: *)
(* a leg that is new or has changed its stage, a leg that is gone, an      *)
(* operation of the journal, one of Cash.                                  *)
Hits(s, f, legs, before) ==
    LET old == before.legs[f] IN
    <<{l.op : l \in {x \in legs : ~\E k \in old : SameLeg(x, k) /\ k.stage = x.stage}},
      {l.op : l \in {x \in old : ~\E k \in legs : SameLeg(x, k)}},
      {o \in Framed(s) : /\ ~OwnSend(o) /\ moneyTouches(o, f)
                         /\ before.snap.stage[o] # s.stage[o]},
      {o \in Framed(s) : /\ OwnSend(o) /\ f \in {"cash", "total"}
                         /\ before.snap.stage[o] # s.stage[o]}>>

(* The mutant looks at the legs alone. *)
MutmoneyOperationThatMoved(s, f, legs, before) ==
    LET hits == Hits(s, f, legs, before) IN
    IF hits[1] # {} THEN hits[1] ELSE hits[2]

(* The operations a change may name: those of the first kind that has any. *)
moneyOperationThatMoved(s, f, legs, before) ==
    LET hits == Hits(s, f, legs, before)
        some == {i \in 1..4 : hits[i] # {}} IN
    IF some = {} THEN {}
    ELSE hits[CHOOSE i \in some : \A j \in some : i <= j]

NoChange == [cause |-> "none", ops |-> {}]

(* The cause of a change: an operation that moved, or else the venue if    *)
(* the account's figure comes from it and differs, or else none.           *)
moneyChange(s, f, legs, before) ==
    LET moved == moneyOperationThatMoved(s, f, legs, before) IN
    IF before.snap.seq >= s.seq THEN NoChange
    ELSE IF moved # {} THEN [cause |-> "operation", ops |-> moved]
    ELSE IF /\ f = "acct" /\ Settled(s, f) # Nothing /\ before.settled[f] # Nothing
            /\ before.settled[f] # Settled(s, f)
         THEN [cause |-> "venue", ops |-> {}]
    ELSE NoChange

FramedLegs(s, f) ==
    moneyLegsByEnd(s, f) \cup (IF f = "acct" THEN {} ELSE moneyCashOwnLegs(s))

(* The account is revalued before the predicted legs are added. *)
ComposeWalletMoney(s, before, accepted, venue) ==
    LET legs == [f \in Figures |->
                    FramedLegs(s, f)
                        \cup UNION {moneyPredictedLegs(o, f) : o \in Unframed(s, accepted)}]
    IN [snap |-> s,
        settled |-> [f \in Figures |-> Settled(s, f)],
        legs |-> legs,
        revalued |-> moneyRevalue(s, {l \in FramedLegs(s, "acct") : l.dir = "incoming"}, venue),
        from |-> IF before = Nothing THEN Nothing ELSE before.snap,
        change |-> [f \in Figures |->
                       IF before = Nothing THEN NoChange ELSE moneyChange(s, f, legs[f], before)]]

-----------------------------------------------------------------------------
(* The journal and the venue. *)

Snapshot(w) ==
    [kind |-> "snapshot", wallet |-> w, seq |-> clock, fills |-> fills, shape |-> shape,
     stage |-> IF w = "own" THEN stage ELSE [o \in Ops |-> "none"]]

(* The venue's own figure: it runs ahead of the journal. *)
VenueFrame ==
    [kind |-> "venue", at |-> clock,
     equity |-> [ops |-> {o \in Ops : \/ From(o) = "acct" /\ o \notin settled
                                      \/ To(o) = "acct" /\ o \in settled},
                 fills |-> fills]]

Steps == {<<"accepted", "reserved">>, <<"none", "expected">>, <<"expected", "in_transit">>,
          <<"reserved", "in_transit">>, <<"in_transit", "done">>,
          <<"reserved", "failed">>, <<"in_transit", "failed">>}

(* Money from outside is expected and never accepted, reserved or failed.  *)
(* The journal books what the venue has executed.                          *)
JournalMoves(o) ==
    /\ \E st \in Steps :
          /\ stage[o] = st[1]
          /\ From(o) = "external" => st[1] # "accepted" /\ st[2] \notin {"reserved", "failed"}
          /\ From(o) # "external" => st[2] # "expected"
          /\ From(o) = "acct" /\ st[2] = "in_transit" => o \in settled
          /\ To(o) = "acct" /\ st[2] = "done" => o \in settled
          /\ st[2] = "failed" => o \notin settled
          /\ stage' = [stage EXCEPT ![o] = st[2]]
    /\ clock' = clock + 1
    /\ UNCHANGED <<route, shape, settled, fills, left, wire, product>>

VenueSettles(o) ==
    /\ o \notin settled
    /\ \/ From(o) = "acct" /\ stage[o] = "reserved"
       \/ To(o) = "acct" /\ stage[o] = "in_transit"
    /\ settled' = settled \cup {o} /\ clock' = clock + 1
    /\ UNCHANGED <<route, shape, stage, fills, left, wire, product>>

VenueFills ==
    /\ fills < MaxFills
    /\ fills' = fills + 1 /\ clock' = clock + 1
    /\ UNCHANGED <<route, shape, stage, settled, left, wire, product>>

Send ==
    /\ left > 0
    /\ left' = left - 1
    /\ \E m \in {Snapshot("own"), Snapshot("foreign"), VenueFrame} : wire' = wire \cup {m}
    /\ UNCHANGED <<journal, product>>

-----------------------------------------------------------------------------
(* The product. *)

Again(accepted, venue) ==
    IF money = Nothing THEN Nothing
    ELSE ComposeWalletMoney(money.snap, money, accepted, venue)

(* A product submits an operation, holds a prediction of it and composes   *)
(* what it shows anew.                                                     *)
Submit(o) ==
    /\ stage[o] = "none" /\ From(o) # "external"
    /\ stage' = [stage EXCEPT ![o] = "accepted"] /\ clock' = clock + 1
    /\ preds' = IF OwnSend(o) THEN preds ELSE preds \cup {o}
    /\ money' = Again(preds', frame)
    /\ UNCHANGED <<route, shape, settled, fills, left, wire, frame>>

(* The mutant compares the journal positions alone. *)
MutWalletSnapshotSupersedes(next) == money = Nothing \/ next.seq >= money.snap.seq

(* A snapshot supersedes another of the same wallet that is not newer. *)
WalletSnapshotSupersedes(next) ==
    \/ money = Nothing
    \/ /\ next.wallet = money.snap.wallet
       /\ next.seq >= money.snap.seq

TakeSnapshot(m) ==
    /\ m.kind = "snapshot"
    /\ wire' = wire \ {m}
    /\ money' = IF WalletSnapshotSupersedes(m) THEN ComposeWalletMoney(m, money, preds, frame)
              ELSE money
    /\ UNCHANGED <<journal, left, preds, frame>>

(* A venue frame is kept, and what is shown composed anew. *)
TakeFrame(m) ==
    /\ m.kind = "venue"
    /\ wire' = wire \ {m}
    /\ frame' = m
    /\ money' = Again(preds, m)
    /\ UNCHANGED <<journal, left, preds>>

Init ==
    /\ \E sc \in Scenarios : route = sc.route /\ shape = sc.shape /\ left = sc.frames
    /\ stage = [o \in Ops |-> "none"] /\ settled = {} /\ fills = 0 /\ clock = 0
    /\ wire = {}
    /\ preds = {} /\ frame = Nothing /\ money = Nothing

Next ==
    \/ \E o \in Ops : JournalMoves(o) \/ VenueSettles(o) \/ Submit(o)
    \/ VenueFills
    \/ Send
    \/ \E m \in wire : TakeSnapshot(m) \/ TakeFrame(m)

Spec == Init /\ [][Next]_vars

-----------------------------------------------------------------------------
(* An operation moves money from one endpoint to another. *)
ConstantsOK ==
    /\ MaxFills \in Nat
    /\ \A sc \in Scenarios :
          /\ sc.frames \in Nat
          /\ \A o \in DOMAIN sc.route :
                LET r == sc.route[o] IN r = <<r[1], r[2]>> /\ r[1] # r[2]

TypeOK ==
    /\ stage \in [Ops -> {"none", "accepted", "expected", "reserved", "in_transit", "done",
                          "failed"}]
    /\ settled \subseteq Ops /\ preds \subseteq Ops
    /\ fills \in 0..MaxFills /\ left \in Nat /\ clock \in Nat

(* ComposeWalletMoney lists an operation at most once in each direction of *)
(* a figure, and not when the snapshot says it has ended: a prediction is  *)
(* dropped by the first snapshot that lists its operation, whatever it     *)
(* missed in between.                                                      *)
LegOnce ==
    money # Nothing =>
        \A f \in Figures : \A l \in money.legs[f] :
            /\ money.snap.stage[l.op] \notin {"done", "failed"}
            /\ \A k \in money.legs[f] : SameLeg(l, k) => l = k

ShownAccount == IF money.revalued # Nothing THEN money.revalued ELSE money.settled["acct"]

LegsInTransit(o) ==
    {m \in {"cash", "acct"} \X (money.legs["cash"] \cup money.legs["acct"]) :
        m[2] \in money.legs[m[1]] /\ m[2].op = o /\ m[2].stage = "in_transit"}

(* The places that count an operation's money: Cash's figure, the account's *)
(* as it is shown, a leg in transit at one of them.                        *)
Counts(o) ==
    (IF o \in money.settled["cash"].ops THEN 1 ELSE 0)
        + (IF ShownAccount # Nothing /\ o \in ShownAccount.ops THEN 1 ELSE 0)
        + Cardinality(LegsInTransit(o))

(* moneyLegsByEnd, moneyRevalue: the money of an operation the snapshot    *)
(* lists is never counted twice, although the venue frame may be newer or  *)
(* older than the snapshot; without one it is counted exactly once if both *)
(* ends are listed. (A figure of no known time takes any frame.)           *)
CountedOnce ==
    (money # Nothing /\ money.snap.shape # "untimed") =>
        \A o \in Framed(money.snap) :
            /\ Counts(o) <= 1
            /\ (money.revalued = Nothing /\ money.settled["acct"] # Nothing
                /\ Listed(From(o)) /\ Listed(To(o))) => Counts(o) = 1

(* moneyRevalue: what is shown for the account never goes back behind what *)
(* the snapshot settled, if the snapshot says when it did.                 *)
NotOutdated ==
    (money # Nothing /\ money.revalued # Nothing /\ money.snap.shape = "whole") =>
        /\ money.revalued.fills >= money.snap.fills
        /\ \A o \in HeldAt(money.snap, "acct") : To(o) = "acct" => o \in money.revalued.ops

(* moneyChange blames the venue only for what no operation did: no         *)
(* operation of the account has moved between the two snapshots, and the   *)
(* venue's own figure has.                                                 *)
VenueBlamedRightly ==
    (money # Nothing /\ money.change["acct"].cause = "venue") =>
        /\ money.from.fills # money.snap.fills
        /\ \A o \in Ops : moneyTouches(o, "acct") =>
              (o \in Framed(money.from) \cup Framed(money.snap) =>
                  money.from.stage[o] = money.snap.stage[o])

(* moneyOperationThatMoved names an operation only if the journal moved it *)
(* between the two snapshots: that a prediction of it gave way to its leg, *)
(* or a venue frame came, is no change.                                    *)
OperationBlamedRightly ==
    money # Nothing =>
        \A f \in Figures : \A o \in money.change[f].ops :
            money.from.stage[o] # money.snap.stage[o]

(* WalletSnapshotSupersedes: what is shown stays of one wallet and never   *)
(* goes back to an older snapshot.                                         *)
FramesAdvance ==
    (money # Nothing /\ money.from # Nothing) =>
        /\ money.from.wallet = money.snap.wallet
        /\ money.from.seq <= money.snap.seq

(* ComposeWalletMoney: an operation has one leg in each direction of a     *)
(* figure, its money is in the total once, a revaluation takes no figure   *)
(* back in time, what is shown never goes back to an older snapshot, and a *)
(* change is put down to the operation or the venue that made it.          *)
MoneySound ==
    /\ TypeOK
    /\ LegOnce
    /\ CountedOnce
    /\ NotOutdated
    /\ FramesAdvance
    /\ VenueBlamedRightly
    /\ OperationBlamedRightly
=============================================================================
