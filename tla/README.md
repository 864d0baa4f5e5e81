# Arca Go SDK: a TLA+ model

The repository is a client SDK: one flat Go package that wraps a REST API and a
WebSocket in an `Arca` object that many goroutines of an application share. What
can go wrong in it is concurrency: shared fields behind mutexes that are released
around every network call, timers that fire late, two sockets alive during a
rotation, several requests sharing one credential. The modules here model that
part, and what the SDK computes from the messages that reach it; a module models a
component down to the critical section, one action per critical section, network
call or timer.

## 1. Inventory

| Component | State | Operations | Hard behaviour | What makes it correct |
|---|---|---|---|---|
| Connection lifecycle (`websocket.go` 160-385, 600-624, 729-1110) | `conn status shouldConnect connecting gen handoffState rotationTimer`, timers, goroutines | `EnsureConnected Reconnect Disconnect connectLoop dialAndServe RotateConnection warmAndServe promoteHandoff abortHandoffIf scheduleRotation` | superseded goroutines, late timers, promotion racing failure | one owner per generation, no leaked socket, recovery, rotation never interrupts |
| Event-type subscriptions (`websocket.go` 1821-1925) | `eventTypeSubs authList` | `subscribeEvents unsubscribeEvents sendWhenConnected resubscribe confirmEventTypes` | counts change under the lock, messages go out later | what an owner holds is registered |
| Market data (`websocket.go` 1447-1652) | `midsCoins midsAll tradeRefs candleRefs oiRefs` | acquire, release, sync | whole lists written out of order | the server streams what is held |
| Delivery (`websocket.go` 360-385, 460-598, 921-1017, 1210-1276) | `lastDeliverySeq`, listeners | read loops, `handleMessage checkGap emitGap dispatch` | two sockets, one cursor; losses the sequence does not show | every loss is followed by a refetch, no false gap |
| Requests over the socket (`websocket.go` 1288-1317, 1682-1990) | `pending`, chart and attached watches | `registerPending resolvePending projectionRequest createAggregationWatch ...` | timeout against answer, connection replaced under a request | answered or refused once; nothing left behind |
| Path watches (`websocket.go` 1321-1410, `streams.go`) | `pathRefs latestPathSnapshotRequests` | `watchPath requestPathSnapshot unwatchPath`, opening and closing of streams | the reference is taken on a goroutine of its own, messages go out after the count | what is held is watched, and counts balance |
| HTTP client (`client.go`, `arca.go` 194-333) | `credential stepUpInFlight refreshDone refreshResult refreshTimer` | `executeWithAuthRetry requestWithRetry runStepUpRetry refreshTokenFromProvider UpdateToken Dispose` | single flight, credential overwritten by a restore, retries of mutations | a mutation is carried out once; the freshest token wins |
| Operation handles (`operation.go`, `operations.go`, `arca.go` 394-560) | handle's channels and result, operation caches | `Submitted Wait settle`, `waitForOperation` | event before the wait, lost events, poll against event | settles once, with the terminal state |
| Watch streams (`streams.go`) | `value updates closed ready`, listeners | `publish setState Ready Close` | close against publish, overflow, two publishers | no send on a closed channel, the newest update is kept |
| Realm fills, exchange state, projections (`streams.go`, `observation_order.go`) | cursor and seen window; epoch, observation, timers; watch, scope, rows | replay and live delivery; pushes, reads, recovery; `recreate resync setScope` | a read that ends after a newer push, a crash between cursor and consumer, a watch lost with its connection | no fill skipped, no older state over a newer, a projection not called stale is watched |
| Order streams, receipts (`order_stream.go`, `operation.go`, `execution_receipt.go`, `order_execution.go`, `order_attach.go`) | replay buffer, early events, reads left, evidence | `Execution Accounted OnFill`, receipts and details | the order's id comes late, events before the wait, lost events | the verdict is the order's, each fill is handed over once, the types are given up |
| History cache (`cache.go`, `marketdata.go`) | LRU map with expiry, market metadata | `get set clear`, the calls that fetch on a miss, `RefreshMarketMeta` | overlapping calls without a lock | the recently used is kept, nothing is served past its time |
| Cosign, venue hops (`cosign.go`, `venue_hop.go`) | the proposal, nonces | propose, verify, sign, submit | a retry beside the call it repeats, a lost reply | what is signed is what was shown, and is not signed twice |
| Funding moves (`funding_v9.go`) | request keys at the server | create, retire, resolve | a request delivered after it was given up | the money moves once and the caller is told the truth |
| Feeds (`funding_v9.go`, `cash_v9_stream.go`, `address_observation.go`) | the last cursor | read, accept, reconnect | frames cut in the middle, a cursor the server no longer has | no change is passed over |
| Money figure (`money_figure.go`) | snapshot, predictions, venue frame | compose legs, revalue, blame | snapshots and frames in any order | no money counted twice or shown outdated |
| Pure algorithms (`ladder.go`, `candlecdn.go`, `revalue.go`, `accounting_pending.go`) | none | computations | boundaries, truncation, missing data | agree with a reference |
| REST wrappers and types | none | one request each | none | not modelled |

The components meet in four places: every stream and watch is a client of the
WebSocket manager (`send`, `On...`, `OnAuthenticated`, `OnRotated`, `OnGap`);
authentication of a socket takes its token from the HTTP side's single-flight
refresh, and a 403 there calls `Reconnect`; `m.pending`, filled by requests,
delays a promotion; and an order's receipt is built from the operation handle and
the order's stream.

## 2. Modules

| Module | Models | TLC module | Proofs |
|---|---|---|---|
| `WebSocketManager` | connection lifecycle and rotation | `MCWebSocketManager` | `WebSocketManagerProofs` |
| `SocketRequests` | `m.pending` and the callers that wait on it | `MCSocketRequests` | `SocketRequestsProofs` |
| `EventSubscriptions` | event types: counting, sending, re-issuing | `MCSubscriptions` | `SubscriptionsProofs` |
| `MarketSubscriptions` | mids, trades, candles, open interest | `MCSubscriptions` | `SubscriptionsProofs` |
| `EventDelivery` | sequence numbers, gaps, the swap of sockets | `MCSubscriptions` | `SubscriptionsProofs` |
| `PathWatches` | the streams on one path | `MCSubscriptions` | `SubscriptionsProofs` |
| `WatchStreamBase` | the base of every watch stream | `MCSubscriptions` | `SubscriptionsProofs` |
| `HttpClient` | credential, refresh, retries, step-up | `MCHttpClient` | `HttpClientProofs` |
| `Settlement` | what an operation handle promises (abstract) | `MCOperationWait` | `OperationWaitProofs` |
| `OperationWait` | `OperationHandle.Wait`, `waitForOperation`; implements `Settlement` | `MCOperationWait` | `OperationWaitProofs` |
| `RealmFills`, `ExchangeStream`, `ProjectionStream` | the watch streams that recover what they lose | `MCStreams` | `StreamsProofs` |
| `OrderExecution`, `OrderAccounting` | an order's stream, receipt, accounting and fill callbacks | `MCOrders` | `OrdersProofs` |
| `ReplayFeeds`, `MoveRequest`, `VenueHop` | the custody feeds, a funding move, a co-signed hop | `MCCustody` | `CustodyProofs` |
| `Algorithms` | the seven computations below, one at a time | `MCAlgorithms` | with each |
| `WalletMoney`, `CandleChunks`, `ChartLadder` | what the SDK computes of money and charts | `MCAlgorithms` | `CustodyProofs` |
| `ExecutionEvidence` | what a receipt is made from | `MCAlgorithms` | `OrdersProofs` |
| `ProjectedPositions`, `Revaluation` | the book before it is accounted, figures at the mids | `MCAlgorithms` | `OperationWaitProofs` |
| `HistoryCache` | the caches in front of the HTTP client | `MCAlgorithms` | `HttpClientProofs` |

`Algorithms` puts the seven computations together; `MCAlgorithms` gives its constants
values. An MC module with several components, and `Algorithms`, has one variable `part`
(`topic` in `Algorithms`): a behaviour is one
component's, the variables of the others are `Off` (`Idle`). The components share the run,
not the state. Where a component needs another, it has it in the reduced form its
header states: `OrderExecution` has `OperationWait`'s `h.Wait`, every stream has the
socket.

How state and actions correspond to the code:

* **WebSocketManager.** Variables carry the names of the manager's fields. `pc` and
  the other per-goroutine functions are the locals of `connectLoop`,
  `dialAndServe` and `warmAndServe`. One action is one critical section of `m.mu`,
  or one network call between two of them. A socket is a member of a set; `open` is
  the set of live ones. The timers (handoff timeout, promote retry, rotation) are
  armed, fired and running as separate steps, because `time.Timer.Stop` does not
  stop a function that has begun. `MaxGen`, `MaxFaults` and the like bound
  a behaviour; they are guards of the environment's actions.
* **EventSubscriptions**, **MarketSubscriptions.** A call is split where the code
  leaves `m.mu`: the count changes, `send` reads the connection, `writeJSON`
  writes. The goroutine that serves the connection writes `resubscribe`'s snapshot
  the same way. The server's registrations of a connection are part of the state,
  so that the properties can relate them to the owners.
* **EventDelivery.** The server numbers and loses events. A goroutine reads a
  message, finds its socket current under the lock, and handles it in a later step,
  as the code does. Consumers are reduced to what they do on `OnGap` and
  `OnAuthenticated`: fetch everything published so far.
* **SocketRequests.** A caller is a goroutine with a program counter that stops at
  every critical section of `m.mu` and of the barrier's own `sendMu`; a barrier is a
  call of `requestPathSnapshot` or `confirmEventTypes`, and `kind` says which of the
  other three requests a caller makes. Whoever sends (the caller, or the goroutine
  that runs the deferred callback) goes through `lock`, `send`, `write`. A context
  ends while its caller waits; one that ended earlier is not told apart. Writing to
  a socket and the connection's lifecycle are reduced to what a request can see; a
  whole rotation is one step, and the waits of `promoteHandoff` for pending requests
  may be over.
* **PathWatches**, **WatchStreamBase.** A stream's goroutine, its `Close` and the
  goroutine of the connection are actors of their own; in the base, a publisher
  merges, publishes and notifies in three steps, under the mutex the code takes for
  each.
* **OperationWait.** A caller of the handle, its recovery worker and the socket are
  actors; `revision`, `completed` and `requests` are the code's own variables. A read
  is served in one step and answered in a later one, so that the operation may
  settle, and its event be lost, in between. Its `Promise` maps a caller's verdict at
  its end to `Settlement`'s.
* **RealmFills**, **ExchangeStream**, **ProjectionStream.** One action per critical
  section of the stream's mutex; a read and its answer are two steps; timers fire
  whenever they are armed. A fill is its position in the log, a state the version of
  the ledger, a row the scope it was read for.
* **OrderExecution**, **OrderAccounting.** The order stream's `Ensure` and its
  acknowledgement, the replay buffer, the early events, the wait's goroutine and its
  reader are actors. An event says only what the wait tells apart. Fill `f` is of size
  `f`, and the code's sum of sizes is the number of units of the fills summed.
* **ReplayFeeds**, **MoveRequest**, **VenueHop.** The frames of a feed, the replies to
  a request and the fields of a proposal may be lost, late, cut or wrong; the client
  does with each what the code's checks say. The caller of a move follows the
  protocol the comment of `ResolveFundingV9Move` gives.
* **The algorithms.** The operators are the code's functions. What calls them with
  what (snapshots, frames, records, ranges, prices) is an external action that
  produces inputs in any order the server may, so the properties speak of what the
  caller sees over time, and a reference definition says what it should see.
* **HttpClient.** A request is a goroutine with a program counter; tokens are
  numbered in the order they were minted, and the step-up token of request `r` is
  called `r`. The server carries a request out or not, and its answer may be lost
  afterwards.

## 3. Runs

Passing runs:

| Run | Bounds | Shows |
|---|---|---|
| `ws_safety` | 3 goroutines, 3 sockets, 2 faults of any kind, user calls, rotation, 1 request pending | the generation fence, no leaked socket, bounded handoffs, superseded goroutines change nothing, a live socket is replaced only by promotion after its barrier |
| `ws_live` | 2 goroutines, 3 sockets, 2 faults, 1 request pending that puts promotions off, fair goroutines and timers | a wanted connection comes back, unless the promote timer put a socket in place whose reader had already seen it fail; a handoff ends |
| `subscriptions` | events: 2 owners, 1 type, 3 connections, 2 rotations; mids: 2 owners, 2 coins and "all", 2 connections; candles: 2 owners, 2 coins, 2 intervals, 1 connection, at most 3 keys held (`MaxHeld`); delivery: 4 events, 3 connections, 2 losses, 1 rotation; paths: 2 streams, 2 connections; base: a channel of 2, 4 updates | what is held is registered while calls do not overlap; a mark lost to another owner's release apart, the feeds that are held stream, and no key whose coin or interval nobody holds; without a rotation no silent loss, false gap or double dispatch, and with rotations but no losses nothing missed in silence but what the retired socket held unread; path counts balance; the base keeps the newest update and never sends on a closed channel |
| `requests` | 1 barrier, 1 request of any other kind, 2 connections, 1 replacement (`Reconnect`, rotation or `Disconnect`), any loss | no lost wake-up and no late send of a barrier, nothing left behind, only answers count as answers |
| `http` | a mutation and a read that the server may want stepped up or not, the timer, one `UpdateToken`, `Dispose`, 2 tokens, 1 fault, 1 expiry, fair goroutines, server, provider | one execution per mutation, honest auth errors, a step-up token outlives its retry only if two such retries overlapped, every request is answered |
| `operations` | 1 caller through 2 failures, or 2 callers with none | the handle implements `Settlement`; no settlement falls between read and stream unless the socket is replaced between a confirmation and the load of the revision after it; nothing is left of a wait that is over; every wait ends |
| `streams` | fills: 2 fills, 1 fault, pages of 1, a window of 1; exchange: 3 versions, 1 push, 2 faults; projection: 2 scopes, 2 connections, 4 watches, 1 change of scope, 2 faults | no cursor is kept past a fill not seen, those of a seam and of a cut apart, and all fills arrive; a state never goes back and comes back; a projection not called stale has a live watch of what it shows, that is the last scope set, what a gap lost is read again (both with the exceptions under "Streams" below), nothing is left but orphans, and it is watched again |
| `orders` | 2 fills, 1 foreign event, 1 fault for each part, 3 reads, buffers of 1 and 2 | the receipt is true and the order's own, events reach the wait once, `Accounted` ends exactly when all is recorded, fills reach the callback once |
| `custody` | 2 wallets, 3 changes, 2 faults; 2 keys, 2 sends; 2 callers of a hop, 2 nonces, 2 lost replies | no change is passed over; money moves once, the caller is told the truth and its key settles; what is signed is what was shown, once, and is accepted |
| `algorithms` | seven parts; money: every route with 2 frames, the move to the account with 3, 1 fill; evidence: sizes up to 2, three kinds of order; cache: 2 callers, 3 keys, 2 entries, 4 calls; candles: 9 days, 5 months; ladder: 5 budgets; revaluation: 3 ticks | no money counted twice or blamed on the wrong side, verdicts true and in agreement, the projected book has the settled quantity, and its price where the venue's average allows it, nothing is served past its time, ranges are tiled exactly, boundaries exact, figures equal their value at the mids |

The bounds let every interaction the code distinguishes happen at least once with
one more actor or event than it needs: three goroutines are an old owner, a
warming one and one started by a `Reconnect`; two connections are one before and
one after a reconnect; one retry already separates "may be retried" from "may not";
two versions of a state are an old and a new one, a third is the push that comes in
between. Two coins at two intervals are the least whose product has a pair nobody holds,
and a second fault of a projection is a gap after, or during, the recovery from a first.
Buffers are as small as lets them overflow.
In `ws_live` a new goroutine or socket is the least one that nothing refers to any more
(`InOrderSpec`): which of them it is makes no difference, and TLC cannot use symmetry for
liveness.
`CoveredApart` reads the history variable `overlap` of `EventSubscriptions`: it is
set when two calls, or a call and the re-issue of a new socket, are under way at the
same time. `MarketSubscriptions` has one too, which says whether the last call had
the manager to itself: every call sends the whole list, so the next one heals an
overlap.

More history variables say what a property excepts; no action reads them. `wiped`
(`MarketSubscriptions`) has the keys whose mark a release took off under another owner.
`seam` and `cut` (`RealmFills`) have the fills of the two seams described below. `crossed`
(`OperationWait`) has the callers whose socket was replaced between a confirmation and
the load of the revision. `missing` and `skipped` (`ProjectionStream`) say which rows
lack a frame that is known to be lost, and for which of them nothing was going to read
again; `behind` that the rows are not those of the present scope because `setScope` failed
or `recreate` overtook it.

Runs that end in a violation record a statement of the source that the code does
not keep, each with its finding in `PROJECT.json`:

| Run | What happens |
|---|---|
| `market_uncounted` | candle and open-interest streams are marked, not counted: the first to close ends the other's feed |
| `fills_skip` | `deliver` moves the shared cursor before the fill is emitted; a live fill carries that cursor, and a consumer that persists it and stops has skipped the other |

### How the properties are stated

A run checks a component with one invariant per question. Where a component has
several, their conjunction has a name (`LifecycleSound`, `MoneySound`,
`PathsSound`, ...), in the component's module or, where several components share an
MC module, there, and its comment lists the parts; the parts, each with its own
statement and the code it is about, are in the component's module. The first part
is the component's `TypeOK`. `PROJECT.json` has at least one mutant for each part
that could be wrong alone, so a part that says nothing would show.

### Other deviations

The properties are worded so that they hold beside the following behaviours of the
code. Most are in the models' state spaces; some, like the ones marked so, lie in what
the models leave out and were met while reading.

*Connection and requests*

* A frame found current before `Disconnect` is handled after it, so
  `onAuthenticated` sets `StatusConnected` on a manager that is disconnected
  (`websocket.go` 373-384).
* A rotation started from a connection whose auth write failed promotes while the
  status says connecting, which nothing corrects later (349, 731).
* "reconnects forever" (93-94) has one exception. The warm socket's pong comes, the
  promotion is put off by a pending request, the socket drops. Its reader finds the read
  failed and itself not promoted (880-886); the promote timer then installs the dead
  socket, with a new generation and `m.connecting` set (976-1008); the reader closes the
  socket and returns 0 (888-898), which ends its goroutine, and the loop that was serving
  leaves because its generation is over. The connection is wanted, no goroutine is left
  to notice, and `EnsureConnected` does nothing while `m.connecting` stays true: it lasts
  until `Reconnect`, `Disconnect` or, when a lifetime is configured, the next rotation.
  `DeadPromoted` is this state; `AttendedOrDead` and `Recovers` except it, and `ws_live`
  reaches it.
* An `unsubscribe_events` decided before another owner subscribed may be written
  after it (1859); a release during `resubscribe` may be written before the
  snapshot that still has the type (666); `resubscribe`'s snapshot of a market
  list, or an older call's list, may be written after a newer list, and replaces it
  (669); a subscription taken between the warm socket's snapshot and its promotion goes
  to the old socket only (938). The history variables `overlap` exclude these.
* `syncCandles` and `syncOI` send the coins and the intervals of what is marked, each
  once, and the server streams their product (1546-1559, 1600-1613): with BTC at 1m and
  ETH at 5m held, BTC at 5m and ETH at 1m stream as well. `NothingExtra` of
  `MarketSubscriptions` therefore bounds candles and open interest by the product
  (`Pairs`), and mids and trades by what is held.
* After a promotion the new socket's goroutine may notice that its socket is lost while the
  retired one is still inside `onAuthenticated`. `EventSubscriptions` has one goroutine, which
  finishes the callbacks first (`ReadFails`); the other order is left out.
* A message the old goroutine found current is handled after the promotion: its
  number becomes the new connection's cursor, which makes or hides a gap, and its
  event may be dispatched again from the new socket (383, 1253). So may events
  that were unread on the new socket at the swap. What the retired socket held unread
  is lost without a gap (1004-1007).
* `sendWhenConnected` looks at the status and registers its callback in two critical
  sections (1413-1421): when the connection authenticates in between, the message
  waits for the next authentication and the caller for its timeout. And it cannot
  take the message back: a projection request that timed out before the
  authentication still creates its watch, and a stream closed before it still has its
  path watched. The barriers avoid both; `BarrierAsked` and `NoLateSend` are about
  them.
* A promotion, `Reconnect` and `Disconnect` leave `m.pending` alone: a request sent on
  the replaced connection is neither answered nor refused, and its caller waits for
  its timeout, although the comment at 972 says that retiring a connection rejects
  what awaits a reply on it. `BarrierAsked` excepts these through `stranded`.
* `createChartHistoryWatch` takes a closed channel, and an error, for success (1947);
  `createAggregationWatch` an error reply (1760-1771). Both leave their entry in
  `m.pending` when they give up (1758, 1773, 1942, 1949), which every later promotion
  waits for.
* `m.midsExch` is one field for all owners: the last acquire's exchange is sent with
  everyone's coins (1449).

*HTTP*

* A step-up token is the credential of every request sent while its retry is
  under way, and the restore afterwards overwrites a token refreshed, or given to
  `UpdateToken`, in the meantime (`client.go` 271-273). `AuthErrorHonest` therefore
  speaks of behaviours before the first step-up retry.
* `stepUpInFlight` is tested in one critical section (242-244) and set in another
  (254-256). A request challenged in between is stepped up as well; one challenged later
  is refused. Of two step-up retries that overlap, the second saves the first one's
  token for the original and restores it at its end, after which the one-time token is
  the client's credential until the next refresh, where the comment at 20-24 says that it
  is never persisted. `StepUpRestored` excepts this through `Overlapped`.
* A refresh under way at `Dispose` arms the timer again when it ends (`arca.go` 327);
  who waits for a refresh inherits the error of its leader's cancelled context (286).

*Operations and orders*

* `waitForOperation` loads `revision` after `confirmEventTypes` returned (`arca.go` 500,
  504). A socket that is replaced in between calls `recover` before the load, so the round
  counts it as covered, and nothing asks for another: the acknowledgement was the old
  socket's. "Once the subscription is acknowledged every later operation event reaches
  this socket, so the read below covers the window the stream could not" (495-497;
  "Anything published afterwards reaches this socket", `websocket.go` 1863-1867) is not
  true of the new one. The read finds the operation pending, `ackErr == nil` ends the
  round, the operation settles before the new socket has the types, and the wait ends
  only at its deadline. `NoMissedSettlement` and `WaitEnds` except this through
  `Miscounted`, and the run reaches it.
* A `Wait` that fails beside one that succeeded takes the result out of the handle's
  cache again. After three failed rounds of reads the wait is left to the stream and
  its deadline.
* `WaitForQuiescence` registers `OnAuthenticated` only after `confirmEventTypes`, and
  nothing for a rotation (outside the model).
* The order stream's acknowledgement channel is closed once, so the first read may
  trust the acknowledgement of a connection that is gone. The buffer of early events
  may drop the order's own terminal update. After three reads a further gap is left to
  the deadline. A fill with neither `FillID` nor `ID` is skipped by `OnFill`. A receipt
  that fails leaves its order stream open until the context ends.
* An order resized up and cancelled at its original size has execution state partial
  and fulfilment state full. An operation with no recorded input is answered for any
  account once its outcome is terminal. `Resize` derives its idempotency path from the
  new size: resizing back to an earlier size does nothing.

*Streams*

* `RealmFills`: a replay may end before the subscription is registered; nothing reacts
  to a rotation; the update channel drops its oldest on overflow while the cursor
  moves on.
* `ExchangeStream`: a failing initial read arms no recovery; a late older push bumps
  the epoch and discards a fresher read; `Close` from an `OnUpdate` callback deadlocks
  on `observationMu`.
* Projections: "a later SetPaths always wins" (`streams.go` 1540-1541) is not so beside
  `recreate`, which does not take `scopeMu` and puts the rows of the scope it read earlier
  in place of the new ones; `LaterScopeWins` excepts it through `behind`. A gap that
  comes after the last look of `resync` (1990) and before `resyncing` is cleared (2001)
  sets a flag that nobody reads any more; one that comes when `recreate` is past its
  read, or has ended and its rows are not rendered yet, is passed over too.
  `GapsMadeGood` excepts these through `skipped`; the comment at 1597 says what they cost:
  "a lost one leaves a row wrong until that account changes again". Frames of a new watch
  that arrive before `watchID` is set are dropped, and those applied between a snapshot
  and `replaceRows` are overwritten (the data of rows is not modelled); a render pending
  at a disconnect sets the state back to connected.
* `AggregationWatchStream` looks at `IsClosed` (463) and stores the id of its new watch
  (466-468) in separate steps, and what `Close` meets before either stays on the server
  until the connection ends: `Close` has destroyed the previous watch. `NothingExtra` of
  `ProjectionStream` excepts it as an orphan.
* The reads that seed `WatchObject` and `WatchTwap` may overwrite newer pushes, and
  `WatchObjects` misses its children's seeds. A path watch taken by the stream's
  goroutine after `Close` leaks its reference (319); `PathsSound` excepts it. An
  overflowing channel drops resync markers too. Two publishers that cross between merge
  and publish may leave the older map as the value (`crossed`).

*Custody and computations*

* `RunAddressObservationStream` resets its backoff whenever it has a cursor and gives up
  on any status but 200, where the account stream retries 502 to 504.
* `moneyRevalue` runs before predicted legs are appended, so a venue frame may count
  money a prediction still shows arriving; an account figure without a time takes any
  venue frame.
* `blendedEntry` has the venue's average price over all fills of an execution
  (`accounting_pending.go` 40-41), while the ledger folds them one at a time. When the fills'
  prices differ, an increase that is folded in part, or a reversal, shows a price the
  ledger will not settle at. `EntryAsSettled` claims the settled price for reductions,
  executions at one price, and openings and increases not yet folded.
* The history cache has no single flight: an older response may overwrite a newer one,
  and `ClearHistoryCache` beside a fetch restores the old value. `GetCandles`' key leaves
  out `skipBackfill`. `RefreshMarketMeta` beside an earlier load returns its older data.
* The API fallback of a candle range includes the candle at its end, the CDN does not.
  `AlignDown` truncates towards zero, so boundaries before 1970 are wrong.
* `RevalueExchangeState` and `RevalueObject` read the side, `remarkProjectedPosition` the
  sign of the size; one values a position at its notional, the other at its P&L.

Deadlock is not checked where the bounds, or `Disconnect` and `Dispose`, really
end a behaviour.

### Fairness

`ws_live` assumes weak fairness of every goroutine's next step and of every armed
timer: the Go scheduler runs each runnable goroutine, and every network call of
the code has a deadline (15 s dial, 10 s write, the stale-read threshold). A
network that fails for ever defeats recovery, so faults are bounded. `http`
assumes weak fairness of each request's steps, and that the server and the
provider answer: `http.Client` has a 60 s timeout; the provider is the
application's.

`operations`, `streams`, `orders` and `custody` assume the same of their goroutines and
armed timers, that a read under way is answered or fails, that an event sent on a
connection that stays arrives, and that the connect loop, which `ws_live` checks, gets
through. Nothing is assumed about an event after its connection is gone: it may be
lost. Faults are bounded, as they are for the connection. `KeySettles` needs one strong
fairness, that of the caller's retirement of a move it has no answer for: the
lost-reply protocol in the comment of `ResolveFundingV9Move` has the caller retire a key
that is still absent when its quote has expired, which here means that a caller who may
also resolve or send again does not put it off for ever.

### Assumptions about what is outside

* The server processes the messages of one connection in order and answers a ping
  after what was sent before it; it forgets a connection's registrations with it.
* It numbers what it sends on a connection without a break, except for losses. A
  hole in front of a connection's first message cannot be seen by `checkGap`
  (`last > 0`) and is left to the server.
* A full subscription list replaces the one before.
* A refreshed token belongs to the right identity, and it outlives the refreshes
  under way when it was minted.
* An HTTP step-up token is good once, for the request it was approved for.

## 4. Proofs

Each theorem below is proved for every value of the constants; a run checks the same
formula on a small instance. Almost none of the invariants is inductive alone: the
strengthenings, which TLC checked before they were proved, are the argument, and are
what this section lists. Each proof has a lemma per action, or one per
conjunct, and the theorem puts them together. Where components share an MC module, the
inductive invariant of one is that of the behaviours with its `part`, and the steps of
the others leave it alone.

`WebSocketManagerProofs` proves, for any sets of goroutines and sockets and any
bounds, `LifecycleSound` (`TypeOK`, `UniqueOwner`, `SlotHeld`, `DisconnectSticks`,
`NoLeakedSocket`, `AttendedOrDead`, `HandoffBounded`), `RotationArmed` and the action
properties `SupersededInert` and `SeamlessSwap`. `IndInv` adds

* `Fence`: no goroutine has a generation from the future, and who holds the current
  one holds the slot; it is what makes a test of `m.gen` conclusive;
* `DistinctSockets`: no two goroutines have the same socket, so that closing one's
  own never closes another's;
* `Shape`: what each position of a goroutine says of its locals and, for the owner
  and the current handoff, of `m.conn`;
* `Armed`, for `RotationArmed`: while any goroutine serves consumers, or may after a
  refused handoff, a rotation is due.

`SocketRequestsProofs` proves, for any number of requests and connections,
`RequestsSound` (`TypeOK`, `NoLateSend`, `NothingLeft`, `OkIsAnswered`), `BarrierAsked`
and the action property `SignalledOnce`. The inductive invariant says that an entry of
`m.pending` has an unsignalled channel (`Unsignalled`), that whoever is sending a
barrier's message holds its `sendMu` (`SendsLocked`), and that a caller in the middle of
a send has not moved on (`CallerSends`), so that the end of a send brings no caller back
(`TakenBack`). `BarrierAsked` rests on `Unlost`: between the look at the status and the
server there is no moment at which a barrier's message is neither deferred, nor being
sent to the connection that serves, nor asked.

`SubscriptionsProofs` has the five parts of `MCSubscriptions`:

* `BaseSound`, for any publishers, keys, buffer and number of updates. `Locked` says
  that `s.mu` is held, on an open stream, from the value to the end of the send, and
  that the second attempt finds room; `Announces` that somebody is on the way to close
  `readyCh` once there is a value; `Merged` that the one publisher between merge and
  publish has every update.
* `PathsSound`, for any streams and connections without rotation, a stream closed before
  its goroutine took the watch apart. `Balanced` counts the streams that
  hold the path; `WatchComes` and `UnwatchComes` say that the server has what the count
  says or a message that will tell it is under way on the present connection;
  `NotCrossed` that, unless calls overlapped, no message of the other kind is.
* `MarketSound`, for any coins, intervals, owners and connections, while the last call
  overlapped nothing. `NoneStale`, `NothingElse` and `ListComes` say that every list on its
  way is the present one, and that a served connection has it or will. For candles and
  open interest, which the code marks and does not count, a mark stands for the holders
  of a key until one of them releases it (`Accounted`, `wiped`): an owner whose mark
  another took off is excepted, which `market_uncounted` shows to be necessary, and what
  streams is the product of the coins and the intervals held.
* `EventsCovered`, for any types, owners, connections and rotations, while calls overlap
  neither each other nor a handoff. `Covering` says
  that what is wanted is registered on the connection, in the re-issue about to be
  written, or in a caller's message under way to it; `Warming` the same of a warm
  socket during a handoff nobody called in.
* `DeliverySound`, for any events, losses and connections: what is said of losses, gaps and
  order, until the first rotation; what is missed in silence, through any rotations of a
  server that loses nothing, what a retired socket held unread apart. `Numbered` and
  `InOrder` describe a connection's queue: the numbers rise from the cursor, and
  the events with them. `MissedCounted` and `MarkersCounted` hold the gaps that
  were reported and the ones still to be found in the queue against what was lost;
  `NoneSilent` says that consumers have every event, or are about to, or a gap or a marker is
  about to be noticed; `NoneAstray` the same through rotations, when nothing was lost.

`HttpClientProofs` proves `MutationOnce`, `AuthErrorHonest` and `ClientSound` for any
requests and bounds. For the first, a mutation that was carried out is past the wire
(`transient`, `restore`, `clear`, `done`), from where only a read returns. For the
second, a token that a refresh is handing out has not expired, and until the first
step-up retry whoever writes the credential was just handed one, so a request sent again
after a refresh finds a credential as good as its own token (`Honest`, with `Placed` for
which call of `requestWithRetry` each position belongs to). For the third, `StepInv`
says that a saved original that is itself a step-up token belongs to a retry that
overlapped another.

`OperationWaitProofs` proves, for any callers and bounds, `WaitSound` (`TypeOK`,
`NothingLeft`, `CacheIsSettlement`, `NoMissedSettlement`), and that the handle
implements `Settlement`: `Spec => Settled`, where `Settled` is the abstract
specification with the refinement mapping `Promise`. The inductive invariant adds
`Agreement` (whatever says that the operation has ended, a reply on its way, an event, a
caller's channel, a cached result, says it as the server has it) and `Workers` (a
recovery worker belongs to a wait and alone holds its interest in the event types). For
`NoMissedSettlement`, `Watched` follows the worker's three counters: a recovery no round
covers has asked for one (`Remembered`), a round that was acknowledged and counts no later
recovery has the types registered on the socket there is (`Registered`), and an
operation that settled after that round's read has its event on the way (`EventDue`);
the last two unless the socket was replaced between the acknowledgement and the load
of the revision (`crossed`).
The mapping shows a caller's verdict once its call is over (`Told`); `RefineStep` says
that every step is then a step of `Settlement` or a stutter. The server's record of the
operation is monotone, and that is the fact everything else rests on.

`StreamsProofs` has the three streams of `MCStreams`:

* `ObservationKept` and the action property `Monotonic`. `Current` says that a read of
  the present epoch was served after the last withdrawal, because a withdrawal ends its
  epoch; `Gated` that a `Refresh` that finds a refetch past its start is queued.
* `FillsKept`, for any log, pages, window, losses and crashes. It excepts the fills
  committed before the server took the subscription up (`seam`) and those whose callback
  the end of the process cut off after the cursor had moved (`cut`); `fills_skip` shows
  that the latter are lost. `Backed` says that no
  position the stream or the consumer has is past a fill the consumer has not had, those
  of the seam and of a cut apart; `CaughtUp` that, unless a replay is queued, what the
  last one did not list is had, or the socket will bring it or show that it was lost
  (`Foretold`).
* `ProjectionKept`, for any scopes, connections, watches, gaps and failures. `Numbered`
  says that ids of watches only grow, so that the comparison of ids tells a late reply;
  `Fed` and `Owned` whose each live watch is and which rows it feeds; `Live` that the
  watch is there once no trigger is left, or `recreate` is at work on a new one. `InScope`
  says that rows, and replies under way, are of the present scope or their step will
  put it right; `MadeGood` that rows which lack a lost frame have a `resync` or a
  `recreate` ahead of them that will read again (`Ahead`), or were passed over.

`OrdersProofs` has the two parts of `MCOrders`:

* `ReceiptSound`, for any events, faults, reads and buffers. `Told` says that every
  event and answer on its way, in a buffer or in hand is true by now (outcomes are never
  taken back); `WakesFor` that kept evidence of the end which the reader has not scanned
  has its wake-up; `Taken` and `StopsFor` follow the event types from `Ensure` to the
  release that an end, or its capture, brings about.
* `AccountingSound`, for any fills. `ReadsTheLedger` says that the rows summed are the
  ledger's; lemma `SizesCover` that equal sums of a part and of the whole leave
  nothing out, since every size is positive. `CalledWhenSeen` ties a callback to the
  moment its fill enters the set of the seen.

`CustodyProofs` has the three parts of `MCCustody`:

* `MoveSound`, for any keys, sends and garbled replies. `RepliesTrue` says that a reply
  the client would believe is true of the key the caller is on, at whatever time it is
  read; `InTurn` that the keys before it are retired and those after it were never sent.
  So when the caller moves on, the fence is already up, and a create still on its way
  finds it.
* `HopSound`, for any callers, nonces and lost replies. `InOrder` says that a signature
  is made in one place and that a caller whose plain transfer made the hop is through;
  `ServersOwn` that, until something is lost, a caller has the server's own proposal.
* `FeedSound`, for any wallets, changes, disconnections and restarts. `NothingMissing`
  is the heart of it: what a position or a batch presupposes is with the consumer or in
  the frames before it, and what the server counts as sent is with the consumer or in
  some frame; `SnapshotsInOrder` says that no snapshot on its way is older than what is
  shown. Every position the client keeps is then one up to which the consumer has
  everything (`UpTo`).

The seven computations of `Algorithms` share no state and no invariant. Each is proved
beside the part of the SDK it belongs to, at the end of a module above, as an invariant of
`AlgorithmsSpec`; the names of `Algorithms` are distinct from theirs for this. Its constants
are free: the scenarios, plans, calendars and books that `MCAlgorithms` lists are the run's
bounds, not the theorems'.

* `MoneyIsSound` (`CustodyProofs`), for any routes and any number of frames and fills.
  `InUseTrue` says that every snapshot and venue frame in use was once the state of the
  journal, `Composed` that what is shown was composed from what the product holds now;
  money is then counted once because the legs of one operation have one end each.
* `CandlesAreExact`, for any calendar and range. `Walked` follows `chunksForRange`: the
  chunks so far cover the range up to where the last ends, each begins where the one
  before ended. `ChunksTile` is the result; `AnswerOK` says what is held of each chunk,
  from the CDN or the API, and the merge of such answers is the range's candles.
* `LaddersAreExact`, for any ranges that start in 1970 or later and any budget. It needs no
  invariant but the type: a case for each of the seven buckets, whose arithmetic is that
  of multiples. With the candles it makes `ChartsAreExact`.
* `EvidenceIsSound` (`OrdersProofs`), for any sizes and histories. `Witnesses` says that a
  record of the order has a size it had, and an outcome only once that was the outcome;
  `ReadAs` the same of an operation that was read. A verdict is then true whenever it is
  given.
* `CacheIsSound` (`HttpClientProofs`), for any callers, keys, size and lifetime. `ListsOK`
  says that the entries held are the ones used last, in that order (`Agreeing`), and
  `CallOK` that what a call is about to answer is no older than the call.
* `RevaluedIsSound` (`OperationWaitProofs`), for any markets, positions and prices. `RowOK`
  describes what is delivered, `RowShown` a row re-marked any number of times, `StateIs`
  the other figures as what was delivered, re-marked once: re-marking again forgets what
  the last one did.
* `BookIsSound`, for any executions, markets and prices. `BookInv` says that the ledger's
  quantity is what was held and what it has folded; `RowsSum` that composing adds the
  entries up. For the price, claimed under the conditions of `EntryAsSettled`,
  `SettledIs` says what a number of fills of one execution, taken one by one, make of a
  price (three cases: towards zero, onto or through it, away from it; the last is an
  identity of fractions), and `PriceAsSettled`
  that taking them at once, at their average, makes the same of it where the conditions
  hold.

The sums of the last two are over finite sets that the constants leave open. The library's
induction theorems take an operator as a parameter and cannot be instantiated here. A
recursive function is therefore shown to exist (`SumsExist`, `RowsExist`), and where a proof
is by induction (`Upto`, `SumsExist`, the chunks of a range) it takes the least number at
which the claim fails (`LeastNatural`, from `WFMin`), and finds a smaller one.

Constants are assumed only to be what their comments say. `ConstantsOK` is an
assumption of the component's module or of the MC module it shares, and for the
computations, through `ComputationsOK`, of `Algorithms`; TLC evaluates it in every run.

Model-checked only: the liveness properties (`Recovers`, `HandoffEnds`,
`Answered`, `WaitEnds`, `StreamsRecover`, `OrderEnds`, `FeedServes`, `KeySettles`). They
need fairness, which is out of the prover's reach. Every invariant of a passing run, and
every action property, has a theorem.

## 5. What is left

1. Aggregation, chart and attached watches after their creation: re-created at a
   reconnect and at a rotation. Only their requests are modelled (`SocketRequests`).
2. `WaitForQuiescence`, and brackets with one leg failing.

Not modelled:

* REST wrappers and wire types: one request each, no state.
* Recovery keys (`recovery.go`): cryptographic derivation, out of TLC's reach.
* `orderbreakdown.go`, `money.go`, `ComputeChartRange`: arithmetic on decimal strings and
  wall-clock dates, where the values and the formatting are the whole of it.
* The validation of fields before a request, the wording of errors, JSON decoding.
