--------------------------- MODULE MCSubscriptions ---------------------------
(***************************************************************************)
(* What the manager keeps registered and delivers, for TLC: a behaviour is *)
(* of the event types, of mids (a counted feed), of candles (one that      *)
(* marks), of the delivery of events, of the streams on a path, or of the  *)
(* base of a stream. The variables of the others are Off.                  *)
(***************************************************************************)
EXTENDS Naturals, Sequences, FiniteSets, TLC

CONSTANTS
    Parts,                      \* the parts that are checked
    Off, None, Reader, All,
    Owners, Coins, Intervals,
    Types, EventConns, EventRotations,
    MarketConns, CandleConns, MaxHeld,
    MaxEvents, DeliveryConns, DeliveryRotations, MaxLosses,
    PathConns,
    Buffer, MaxUpdates

ASSUME ConstantsOK ==
    /\ Parts \subseteq {"events", "mids", "candles", "delivery", "paths", "base"}
    /\ EventConns \in Nat /\ MarketConns \in Nat /\ CandleConns \in Nat /\ DeliveryConns \in Nat /\ PathConns \in Nat
    /\ EventRotations \in Nat /\ DeliveryRotations \in Nat
    /\ MaxEvents \in Nat /\ MaxLosses \in Nat
    /\ Buffer \in Nat \ {0} /\ MaxUpdates \in Nat
    /\ None \notin Nat /\ None \notin Owners
    /\ Reader \notin Owners
    /\ \A o \in Owners : Reader # <<"watch", o>> /\ Reader # <<"close", o>>
    /\ IsFiniteSet(Owners)

VARIABLES
    part,   \* what the behaviour is of
    conn, used, refs, opc, target, connected, rpc, alive, server, overlap, owned, wiped, deferred, due,
    warm, rotations, msg, rconn, snap, wpc, wsnap, list, published, sub, next, sent, resync,
    inbox, lastDeliverySeq, hold, ready, seen, dispatched, twice, missed, markers, holes,
    overflows, unread, life, taken, early, prices, updates, feed, upc, out, mu, value, hasValue,
    state, ch, closed, readyCh, waiter, got, panicked, crossed

(* Candles of the coins at the intervals. *)
Candles == Coins \X Intervals

(* Mids of a coin, or of all. *)
MidsKeys == Coins \cup {All}

Events == INSTANCE EventSubscriptions WITH MaxConns <- EventConns, MaxRotations <- EventRotations

Market(keys, counted, conns) ==
    INSTANCE MarketSubscriptions WITH MaxConns <- conns, Keys <- keys, Counted <- counted
Delivery == INSTANCE EventDelivery
                WITH MaxConns <- DeliveryConns, MaxRotations <- DeliveryRotations
Paths == INSTANCE PathWatches WITH MaxConns <- PathConns, Streams <- Owners
Base == INSTANCE WatchStreamBase WITH Publishers <- Owners, Nobody <- None

link == <<conn, used>>
calls == <<refs, opc, target, connected, rpc, alive, server, overlap>>
owners == <<owned>>
later == <<deferred, due>>
handoff == <<warm, rotations>>
eventsOnly == <<msg, rconn, snap, wpc, wsnap>>
marketOnly == <<list, wiped>>
deliveryOnly == <<published, sub, next, sent, resync, inbox, lastDeliverySeq, hold, ready, seen,
                  dispatched, twice, missed, markers, holes, overflows, unread>>
pathsOnly == <<life, taken, early>>
baseOnly == <<prices, updates, feed, upc, out, mu, value, hasValue, state, ch, closed, readyCh,
              waiter, got, panicked, crossed>>
vars == <<part, link, calls, owners, later, handoff, eventsOnly, marketOnly, deliveryOnly,
          pathsOnly, baseOnly>>

NoLink == conn = Off /\ used = Off
NoCalls ==
    /\ refs = Off /\ opc = Off /\ target = Off /\ connected = Off /\ rpc = Off /\ alive = Off
    /\ server = Off /\ overlap = Off
NoOwners == owned = Off
NoLater == deferred = Off /\ due = Off
NoHandoff == warm = Off /\ rotations = Off
NoEventsOnly == msg = Off /\ rconn = Off /\ snap = Off /\ wpc = Off /\ wsnap = Off
NoMarketOnly == list = Off /\ wiped = Off
NoDeliveryOnly ==
    /\ published = Off /\ sub = Off /\ next = Off /\ sent = Off /\ resync = Off
    /\ inbox = Off /\ lastDeliverySeq = Off /\ hold = Off /\ ready = Off /\ seen = Off
    /\ dispatched = Off /\ twice = Off /\ missed = Off /\ markers = Off /\ holes = Off
    /\ overflows = Off /\ unread = Off
NoPathsOnly == life = Off /\ taken = Off /\ early = Off
NoBaseOnly ==
    /\ prices = Off /\ updates = Off /\ feed = Off /\ upc = Off /\ out = Off /\ mu = Off
    /\ value = Off /\ hasValue = Off /\ state = Off /\ ch = Off /\ closed = Off
    /\ readyCh = Off /\ waiter = Off /\ got = Off /\ panicked = Off /\ crossed = Off

Init ==
    /\ part \in Parts
    /\ \/ /\ part = "events" /\ Events!Init
          /\ NoMarketOnly /\ NoDeliveryOnly /\ NoPathsOnly /\ NoBaseOnly
       \/ /\ \/ part = "mids" /\ Market(MidsKeys, TRUE, MarketConns)!Init
             \/ part = "candles" /\ Market(Candles, FALSE, CandleConns)!Init
          /\ NoLater /\ NoHandoff /\ NoEventsOnly /\ NoDeliveryOnly /\ NoPathsOnly /\ NoBaseOnly
       \/ /\ part = "delivery" /\ Delivery!Init
          /\ NoCalls /\ NoOwners /\ NoLater /\ NoEventsOnly /\ NoMarketOnly /\ NoPathsOnly
          /\ NoBaseOnly
       \/ /\ part = "paths" /\ Paths!Init
          /\ NoOwners /\ NoHandoff /\ NoEventsOnly /\ NoMarketOnly /\ NoDeliveryOnly
          /\ NoBaseOnly
       \/ /\ part = "base" /\ Base!Init
          /\ NoLink /\ NoCalls /\ NoOwners /\ NoLater /\ NoHandoff /\ NoEventsOnly
          /\ NoMarketOnly /\ NoDeliveryOnly /\ NoPathsOnly

EventsNext ==
    /\ part = "events" /\ Events!Next
    /\ UNCHANGED <<part, marketOnly, deliveryOnly, pathsOnly, baseOnly>>
MidsNext ==
    /\ part = "mids" /\ Market(MidsKeys, TRUE, MarketConns)!Next
    /\ UNCHANGED <<part, later, handoff, eventsOnly, deliveryOnly, pathsOnly, baseOnly>>
CandlesNext ==
    /\ part = "candles" /\ Market(Candles, FALSE, CandleConns)!Next
    /\ UNCHANGED <<part, later, handoff, eventsOnly, deliveryOnly, pathsOnly, baseOnly>>
DeliveryNext ==
    /\ part = "delivery" /\ Delivery!Next
    /\ UNCHANGED <<part, calls, owners, later, eventsOnly, marketOnly, pathsOnly, baseOnly>>
PathsNext ==
    /\ part = "paths" /\ Paths!Next
    /\ UNCHANGED <<part, owners, handoff, eventsOnly, marketOnly, deliveryOnly, baseOnly>>
BaseNext ==
    /\ part = "base" /\ Base!Next
    /\ UNCHANGED <<part, link, calls, owners, later, handoff, eventsOnly, marketOnly,
                   deliveryOnly, pathsOnly>>

Next ==
    \/ EventsNext
    \/ MidsNext
    \/ CandlesNext
    \/ DeliveryNext
    \/ PathsNext
    \/ BaseNext

Spec == Init /\ [][Next]_vars

(* Owners, coins and intervals are interchangeable. *)
Symmetry ==
    {p @@ q @@ r : p \in Permutations(Owners), q \in Permutations(Coins),
                   r \in Permutations(Intervals)}

-----------------------------------------------------------------------------
(* subscribeEvents and resubscribe: what a caller holds is registered once *)
(* every message is out, through reconnects and rotations, unless calls    *)
(* overlapped each other or a handoff.                                     *)
EventsCovered == part = "events" => Events!TypeOK /\ Events!CoveredApart

(* MarketSubscriptions: what an owner acquired is streamed. *)
Streamed ==
    /\ part = "mids" => Market(MidsKeys, TRUE, MarketConns)!Streamed
    /\ part = "candles" => Market(Candles, FALSE, CandleConns)!Streamed

(* acquire and release of mids, trades, candles and open interest: the     *)
(* mids and trades an owner holds are streamed, and the candles and open   *)
(* interest unless another owner's release took the mark off. No mids and  *)
(* trades that everybody released are, and candles and open interest only  *)
(* of a coin and an interval that somebody holds.                          *)
MarketSound ==
    /\ part = "mids" =>
          /\ Market(MidsKeys, TRUE, MarketConns)!TypeOK
          /\ Market(MidsKeys, TRUE, MarketConns)!Streamed
          /\ Market(MidsKeys, TRUE, MarketConns)!NothingExtra
    /\ part = "candles" =>
          /\ Market(Candles, FALSE, CandleConns)!TypeOK
          /\ Market(Candles, FALSE, CandleConns)!StreamedUnlessWiped
          /\ Market(Candles, FALSE, CandleConns)!NothingExtra

(* checkGap sees every loss of a stream that is not rotated, and none that *)
(* did not happen; a rotation loses at most what the retired socket held   *)
(* unread, if the server loses nothing.                                    *)
DeliverySound ==
    part = "delivery" =>
        /\ Delivery!TypeOK
        /\ Delivery!LossConfined
        /\ Delivery!OneStream

(* watchPath and unwatchPath: pathRefs counts the streams that hold the    *)
(* path; the path of an open stream is watched, that of no stream is not,  *)
(* unless messages crossed or a stream was closed before its watch.        *)
PathsSound ==
    part = "paths" =>
        /\ Paths!TypeOK
        /\ Paths!Watched
        /\ Paths!Unwatched
        /\ Paths!Balanced

(* publish, Ready and Close: an overflowing channel keeps the newest       *)
(* value, a merged map has every update, publish never meets the channel   *)
(* Close has closed, and Ready returns with the first value.               *)
BaseSound == part = "base" => Base!BaseSound
=============================================================================
