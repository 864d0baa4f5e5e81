------------------------------ MODULE Algorithms ------------------------------
(***************************************************************************)
(* The computations of the SDK, each over what feeds it: a behaviour is of *)
(* a wallet's money, of the evidence of an order, of a projected book, of  *)
(* the history cache, of candles from the CDN, of the chart ladder, or of  *)
(* a revaluation. The variables of the others are Idle. No name is one   *)
(* of MCCustody, MCOrders, HttpClient or OperationWait: each computation   *)
(* is proved beside the part of the SDK it belongs to.                     *)
(***************************************************************************)
EXTENDS Integers, Sequences, FiniteSets

CONSTANTS
    Topics,                     \* the computations that are considered
    Idle, Nothing, Garbled, Unknown, Meta,
    Scenarios, MoneyFills,      \* wallet money
    MaxSize, Kinds,             \* evidence of an order
    Markets,                    \* projected book and revaluation
    Plans, Starts, StartPrice,  \* projected book
    Readers, CacheKeys, MaxEntries, TTL, MaxTime, MaxCalls,  \* history cache
    MonthStarts, MaxDay, MaxDaily, Weekday,  \* candles
    Spans, Budgets, Froms,      \* chart ladder
    Books, Prices, Cash, Spot, Extra, MaxTicks  \* revaluation

VARIABLES
    topic,  \* what the behaviour is of
    route, shape, stage, settled, fills, clock, left, mwire, preds, frame, money,
    intent, eorder, eop, history, resized, copy, receipt, edetail, ehandle,
    plan, start, bexecuted, accounted, bledger, malformed,
    items, metaCache, ctime, version, calls, cpc, want, fetched, began, alone, recency, answered,
    req, results, candles,
    ask, rung,
    book, mids, rheld, rrow, rshown, delivered, state, ticks

Money == INSTANCE WalletMoney WITH MaxFills <- MoneyFills, wire <- mwire
Evidence == INSTANCE ExecutionEvidence
                WITH Bad <- Garbled, order <- eorder, op <- eop, detail <- edetail,
                     handle <- ehandle
Projected == INSTANCE ProjectedPositions WITH executed <- bexecuted, ledger <- bledger
Cache == INSTANCE HistoryCache
             WITH Callers <- Readers, Keys <- CacheKeys, now <- ctime, pc <- cpc,
                  got <- fetched, answer <- answered
Candles == INSTANCE CandleChunks WITH out <- candles
Ladder == INSTANCE ChartLadder
Revalue == INSTANCE Revaluation
               WITH held <- rheld, row <- rrow, shown <- rshown, first <- delivered

ASSUME ComputationsOK ==
    /\ Money!ConstantsOK /\ Evidence!ConstantsOK /\ Projected!ConstantsOK /\ Cache!ConstantsOK
    /\ Candles!ConstantsOK /\ Ladder!ConstantsOK /\ Revalue!ConstantsOK

-----------------------------------------------------------------------------
moneyVars == <<route, shape, stage, settled, fills, clock, left, mwire, preds, frame, money>>
evidenceVars == <<intent, eorder, eop, history, resized, copy, receipt, edetail, ehandle>>
bookVars == <<plan, start, bexecuted, accounted, bledger, malformed>>
cacheVars == <<items, metaCache, ctime, version, calls, cpc,
               want, fetched, began, alone, recency, answered>>
candleVars == <<req, results, candles>>
ladderVars == <<ask, rung>>
revalueVars == <<book, mids, rheld, rrow, rshown, delivered, state, ticks>>
algorithmVars ==
    <<topic, moneyVars, evidenceVars, bookVars, cacheVars, candleVars, ladderVars, revalueVars>>

NoMoney ==
    /\ route = Idle /\ shape = Idle /\ stage = Idle /\ settled = Idle /\ fills = Idle
    /\ clock = Idle /\ left = Idle /\ mwire = Idle /\ preds = Idle /\ frame = Idle /\ money = Idle
NoEvidence ==
    /\ intent = Idle /\ eorder = Idle /\ eop = Idle /\ history = Idle /\ resized = Idle
    /\ copy = Idle /\ receipt = Idle /\ edetail = Idle /\ ehandle = Idle
NoBook ==
    /\ plan = Idle /\ start = Idle /\ bexecuted = Idle /\ accounted = Idle /\ bledger = Idle
    /\ malformed = Idle
NoCache ==
    /\ items = Idle /\ metaCache = Idle /\ ctime = Idle /\ version = Idle /\ calls = Idle
    /\ cpc = Idle /\ want = Idle /\ fetched = Idle /\ began = Idle /\ alone = Idle
    /\ recency = Idle /\ answered = Idle
NoCandles == req = Idle /\ results = Idle /\ candles = Idle
NoLadder == ask = Idle /\ rung = Idle
NoRevalue ==
    /\ book = Idle /\ mids = Idle /\ rheld = Idle /\ rrow = Idle /\ rshown = Idle
    /\ delivered = Idle /\ state = Idle /\ ticks = Idle

AlgorithmsInit ==
    /\ topic \in Topics
    /\ IF topic = "money" THEN Money!Init ELSE NoMoney
    /\ IF topic = "evidence" THEN Evidence!Init ELSE NoEvidence
    /\ IF topic = "book" THEN Projected!Init ELSE NoBook
    /\ IF topic = "cache" THEN Cache!Init ELSE NoCache
    /\ IF topic = "candles" THEN Candles!Init ELSE NoCandles
    /\ IF topic = "ladder" THEN Ladder!Init ELSE NoLadder
    /\ IF topic = "revalue" THEN Revalue!Init ELSE NoRevalue

MoneyNext ==
    /\ topic = "money" /\ Money!Next
    /\ UNCHANGED <<topic, evidenceVars, bookVars, cacheVars, candleVars, ladderVars, revalueVars>>
EvidenceNext ==
    /\ topic = "evidence" /\ Evidence!Next
    /\ UNCHANGED <<topic, moneyVars, bookVars, cacheVars, candleVars, ladderVars, revalueVars>>
BookNext ==
    /\ topic = "book" /\ Projected!Next
    /\ UNCHANGED <<topic, moneyVars, evidenceVars, cacheVars, candleVars, ladderVars, revalueVars>>
CacheNext ==
    /\ topic = "cache" /\ Cache!Next
    /\ UNCHANGED <<topic, moneyVars, evidenceVars, bookVars, candleVars, ladderVars, revalueVars>>
CandlesNext ==
    /\ topic = "candles" /\ Candles!Next
    /\ UNCHANGED <<topic, moneyVars, evidenceVars, bookVars, cacheVars, ladderVars, revalueVars>>
LadderNext ==
    /\ topic = "ladder" /\ Ladder!Next
    /\ UNCHANGED <<topic, moneyVars, evidenceVars, bookVars, cacheVars, candleVars, revalueVars>>
RevalueNext ==
    /\ topic = "revalue" /\ Revalue!Next
    /\ UNCHANGED <<topic, moneyVars, evidenceVars, bookVars, cacheVars, candleVars, ladderVars>>

AlgorithmsNext ==
    \/ MoneyNext
    \/ EvidenceNext
    \/ BookNext
    \/ CacheNext
    \/ CandlesNext
    \/ LadderNext
    \/ RevalueNext

AlgorithmsSpec == AlgorithmsInit /\ [][AlgorithmsNext]_algorithmVars

-----------------------------------------------------------------------------
(* ComposeWalletMoney: an operation has one leg in each direction of a     *)
(* figure, its money is in the total once, a revaluation takes no figure   *)
(* back in time, what is shown never goes back to an older snapshot, and a *)
(* change is put down to the operation or the venue that made it.          *)
MoneySound == topic = "money" => Money!MoneySound

(* The receipt, the details and the handle of an order: a receipt says     *)
(* what became of the order, its detail is its own order's fills, the ways *)
(* to ask agree, and nothing is answered for another account.              *)
EvidenceSound == topic = "evidence" => Evidence!EvidenceSound

(* ProjectedPositions: on every frame between an execution and its         *)
(* accounting the projection is the book the ledger will have, entry price *)
(* included, and an order that cannot be read changes nothing.             *)
BookSound == topic = "book" => Projected!BookSound

(* The history cache and the market metadata: what was used last is what a *)
(* full cache keeps, an answer of the cache is no older than its lifetime, *)
(* and RefreshMarketMeta, alone, returns what the server has.              *)
CacheSound == topic = "cache" => Cache!CacheSound

(* The candles of a range: its chunks cover it without overlapping, and    *)
(* the candles returned are those of the range.                            *)
CandlesSound == topic = "candles" => Candles!CandlesSound

(* What a chart is drawn at: the rung picked fits and is retained, its     *)
(* boundaries are the multiples of its bucket, and a promoted chart keeps  *)
(* its points.                                                             *)
LadderSound == topic = "ladder" => Ladder!LadderSound

(* What a chart shows: its candles are those of the range, and the rung    *)
(* and the boundaries it is drawn at are right.                            *)
ChartSound == CandlesSound /\ LadderSound

(* However often figures are re-marked, an account's equity is its book at *)
(* the last prices, a complete valuation has a price for every position,   *)
(* and totals are those of what was delivered, priced once.                *)
RevaluedSound == topic = "revalue" => Revalue!RevaluedSound
=============================================================================
