------------------------- MODULE SubscriptionsProofs -------------------------
(***************************************************************************)
(* Proofs about the parts of MCSubscriptions, for any callers, keys,       *)
(* types, connections, rotations and losses: what a caller holds is        *)
(* registered and nothing else is, through reconnects and rotations; every *)
(* loss of events is noticed; a stream's channel keeps its newest value.   *)
(* Each part has an inductive invariant of its own, which the other parts' *)
(* steps leave alone.                                                      *)
(***************************************************************************)
EXTENDS MCSubscriptions, FiniteSetTheorems, TLAPS

-----------------------------------------------------------------------------
(* WatchStreamBase: publish, Ready and Close.                              *)

(* s.mu is held from the value to the end of the send, on a stream that is *)
(* open, by the goroutine whose value it is; the second attempt finds room.*)
Locked ==
    /\ \A p \in Owners :
          /\ upc[p] \in {"try", "evict", "resend"} <=> mu = p
          /\ mu = p => value = out[p]
          /\ upc[p] = "resend" => Len(ch) < Buffer
    /\ mu # None => hasValue /\ ~closed

(* Whoever sets the first value closes readyCh, and nobody before. *)
Announces ==
    /\ readyCh \/ waiter = "ready" => hasValue
    /\ \A p \in Owners : upc[p] = "notify" => hasValue
    /\ hasValue => readyCh \/ \E p \in Owners : upc[p] \in {"try", "evict", "resend", "notify"}

(* The map has every update; until two goroutines cross, one of them has   *)
(* it to publish or it is the value.                                       *)
Merged ==
    /\ prices = feed
    /\ ~crossed =>
          \A p, q \in Owners : upc[p] = "publish" /\ upc[q] = "publish" => p = q
    /\ ~crossed =>
          \A p \in Owners : upc[p] = "publish" => out[p] = prices
    /\ ~crossed /\ ~closed /\ (\A p \in Owners : upc[p] # "publish") => value = prices

BaseInv == Base!TypeOK /\ Locked /\ Announces /\ Merged /\ Base!NewestKept /\ Base!NoSendOnClosed

-----------------------------------------------------------------------------
LEMMA BaseInitInv == ConstantsOK /\ Base!Init => BaseInv
<1> SUFFICES ASSUME ConstantsOK, Base!Init PROVE BaseInv
  OBVIOUS
<1>1. Base!Empty \in Base!Maps
  BY DEF Base!Empty, Base!Maps, ConstantsOK
<1>2. Base!TypeOK
  <2>1. ch \in Seq(Base!Maps) /\ Len(ch) <= Buffer
    BY DEF Base!Init, ConstantsOK
  <2>2. /\ hasValue \in BOOLEAN /\ closed \in BOOLEAN /\ readyCh \in BOOLEAN
        /\ panicked \in BOOLEAN /\ crossed \in BOOLEAN
    BY Zenon DEF Base!Init
  <2>3. /\ upc \in [Owners -> {"idle", "publish", "try", "evict", "resend", "notify"}]
        /\ out \in [Owners -> Base!Maps] /\ updates \in 0..MaxUpdates
    BY <1>1 DEF Base!Init, ConstantsOK
  <2> QED
    BY <1>1, <2>1, <2>2, <2>3 DEF Base!Init, Base!TypeOK
<1>3. Locked /\ Announces /\ Merged /\ Base!NewestKept /\ Base!NoSendOnClosed
  BY DEF ConstantsOK, Base!Init, Locked, Announces, Merged, Base!NewestKept, Base!NoSendOnClosed
<1> QED
  BY <1>2, <1>3 DEF BaseInv

(* merge. *)
LEMMA BaseMergeStep ==
    ASSUME ConstantsOK, BaseInv, NEW p \in Owners, NEW c \in Coins, Base!Merge(p, c)
    PROVE  BaseInv'
<1> USE DEF BaseInv
<1>1. prices' \in Base!Maps /\ prices' = feed' /\ updates' \in 0..MaxUpdates
  BY DEF Base!Merge, Base!MergedWith, Base!TypeOK, Base!Maps, Merged, ConstantsOK
<1>2. Base!TypeOK'
  BY <1>1 DEF Base!Merge, Base!Move, Base!TypeOK
<1>3. Locked' /\ Announces' /\ Base!NewestKept' /\ Base!NoSendOnClosed'
  BY DEF Base!Merge, Base!Move, Base!TypeOK, Locked, Announces, Base!NewestKept,
    Base!NoSendOnClosed
<1>4. Merged'
  BY <1>1 DEF Base!Merge, Base!Move, Base!TypeOK, Merged
<1> QED
  BY <1>2, <1>3, <1>4

(* publish, up to the send. *)
LEMMA BasePublishStep ==
    ASSUME ConstantsOK, BaseInv, NEW p \in Owners, Base!Publish(p)
    PROVE  BaseInv'
<1> USE DEF BaseInv
<1>1. Base!TypeOK'
  <2>1. hasValue' \in BOOLEAN /\ UNCHANGED <<closed, readyCh, panicked, crossed>>
    BY Zenon DEF Base!Publish, Base!TypeOK
  <2>2. /\ value' \in Base!Maps /\ mu' \in Owners \cup {None}
        /\ state' \in {"loading", "connected", "reconnecting"}
        /\ upc' \in [Owners -> {"idle", "publish", "try", "evict", "resend", "notify"}]
    BY DEF Base!Publish, Base!Move, Base!TypeOK
  <2> QED
    BY <2>1, <2>2 DEF Base!Publish, Base!TypeOK
<1>2. Locked' /\ Announces'
  BY DEF Base!Publish, Base!Move, Base!TypeOK, Locked, Announces, Base!Delivers, ConstantsOK
<1>3. Base!NewestKept' /\ Base!NoSendOnClosed'
  BY DEF Base!Publish, Base!Move, Base!TypeOK, Base!NewestKept, Base!NoSendOnClosed, ConstantsOK
<1>4. Merged'
  BY DEF Base!Publish, Base!Move, Base!TypeOK, Merged, Base!Delivers
<1> QED
  BY <1>1, <1>2, <1>3, <1>4

(* The send, at the first attempt or at the second. *)
LEMMA BaseSentStep ==
    ASSUME ConstantsOK, BaseInv, NEW p \in Owners, upc[p] \in {"try", "resend"},
           Len(ch) < Buffer, Base!Sent(p),
           UNCHANGED <<prices, updates, feed, out, value, hasValue, state, closed, readyCh,
                       waiter, got, crossed>>
    PROVE  BaseInv'
<1> USE DEF BaseInv
<1>1. ch' \in Seq(Base!Maps) /\ Len(ch') = Len(ch) + 1 /\ ch'[Len(ch')] = out[p]
  BY DEF Base!Sent, Base!TypeOK
<1>2. Base!TypeOK'
  BY <1>1 DEF Base!Sent, Base!Move, Base!TypeOK, ConstantsOK
<1>3. mu = p /\ value = out[p] /\ hasValue
  BY DEF Locked, ConstantsOK
<1>4. Locked' /\ Announces'
  BY <1>3 DEF Base!Sent, Base!Move, Base!TypeOK, Locked, Announces, ConstantsOK
<1>5. Base!NewestKept' /\ Base!NoSendOnClosed'
  BY <1>1, <1>3 DEF Base!Sent, Base!TypeOK, Base!NewestKept, Base!NoSendOnClosed
<1>6. Merged'
  BY DEF Base!Sent, Base!Move, Base!TypeOK, Merged
<1> QED
  BY <1>2, <1>4, <1>5, <1>6

LEMMA BaseTrySendStep ==
    ASSUME ConstantsOK, BaseInv, NEW p \in Owners, Base!TrySend(p)
    PROVE  BaseInv'
<1> USE DEF BaseInv
<1>1. mu = p /\ ~closed
  BY DEF Base!TrySend, Locked, ConstantsOK
<1>2. CASE Len(ch) < Buffer /\ Base!Sent(p)
  BY <1>1, <1>2, BaseSentStep DEF Base!TrySend
<1>3. CASE Len(ch) = Buffer /\ Base!Move(p, "evict") /\ UNCHANGED <<ch, mu, panicked>>
  BY <1>1, <1>3 DEF Base!TrySend, Base!Move, Base!TypeOK, Locked, Announces, Merged,
    Base!NewestKept, Base!NoSendOnClosed
<1> QED
  BY <1>1, <1>2, <1>3 DEF Base!TrySend

LEMMA BaseEvictStep ==
    ASSUME ConstantsOK, BaseInv, NEW p \in Owners, Base!Evict(p)
    PROVE  BaseInv'
<1> USE DEF BaseInv
<1>1. mu = p /\ ~closed
  BY DEF Base!Evict, Locked, ConstantsOK
<1>2. ch' \in Seq(Base!Maps) /\ Len(ch') < Buffer
  BY DEF Base!Evict, Base!Kept, Base!TypeOK, ConstantsOK
<1>3. Base!TypeOK'
  BY <1>2 DEF Base!Evict, Base!Move, Base!TypeOK, ConstantsOK
<1>4. Locked' /\ Announces'
  BY <1>1, <1>2 DEF Base!Evict, Base!Move, Base!TypeOK, Locked, Announces
<1>5. Base!NewestKept' /\ Base!NoSendOnClosed' /\ Merged'
  BY <1>1 DEF Base!Evict, Base!Move, Base!TypeOK, Base!NewestKept, Base!NoSendOnClosed, Merged,
    ConstantsOK
<1> QED
  BY <1>3, <1>4, <1>5

LEMMA BaseResendStep ==
    ASSUME ConstantsOK, BaseInv, NEW p \in Owners, Base!Resend(p)
    PROVE  BaseInv'
<1>1. Len(ch) < Buffer /\ Len(ch) \in Nat
  BY DEF Base!Resend, BaseInv, Locked, Base!TypeOK
<1> QED
  BY <1>1, BaseSentStep DEF Base!Resend, ConstantsOK

LEMMA BaseNotifyStep ==
    ASSUME ConstantsOK, BaseInv, NEW p \in Owners, Base!Notify(p)
    PROVE  BaseInv'
<1> USE DEF BaseInv
<1>1. Base!Empty \in Base!Maps
  BY DEF Base!Empty, Base!Maps, ConstantsOK
<1>2. Base!TypeOK'
  BY <1>1 DEF Base!Notify, Base!Move, Base!Announced, Base!TypeOK
<1>3. Locked'
  BY DEF Base!Notify, Base!Move, Base!TypeOK, Locked
<1>4. Announces'
  BY DEF Base!Notify, Base!Move, Base!Announced, Base!TypeOK, Announces
<1>5. Base!NewestKept' /\ Base!NoSendOnClosed' /\ Merged'
  BY DEF Base!Notify, Base!Move, Base!TypeOK, Base!NewestKept, Base!NoSendOnClosed, Merged
<1> QED
  BY <1>2, <1>3, <1>4, <1>5

(* The consumer takes the oldest value. *)
LEMMA BaseReceiveStep == ASSUME ConstantsOK, BaseInv, Base!Receive PROVE BaseInv'
<1> USE DEF BaseInv
<1>1. /\ ch' \in Seq(Base!Maps) /\ Len(ch') = Len(ch) - 1 /\ got' \in Base!Maps
      /\ \A i \in 1..Len(ch') : ch'[i] = ch[i + 1]
      /\ got' = ch[1] /\ Len(ch) \in Nat \ {0}
  BY DEF Base!Receive, Base!TypeOK
<1>2. Base!TypeOK'
  BY <1>1 DEF Base!Receive, Base!TypeOK, ConstantsOK
<1>3. Locked' /\ Announces'
  BY <1>1 DEF Base!Receive, Base!TypeOK, Locked, Announces, ConstantsOK
<1>4. Base!NewestKept'
  <2>1. CASE Len(ch) = 1
    <3>1. ch' = <<>> /\ ch # <<>>
      BY <1>1, <2>1
    <3> QED
      BY <1>1, <2>1, <3>1 DEF Base!Receive, Base!NewestKept
  <2>2. CASE Len(ch) > 1
    <3>1. ch' # <<>> /\ ch # <<>> /\ ch'[Len(ch')] = ch[Len(ch)]
      BY <1>1, <2>2
    <3> QED
      BY <3>1 DEF Base!Receive, Base!NewestKept
  <2> QED
    BY <1>1, <2>1, <2>2
<1>5. Base!NoSendOnClosed' /\ Merged'
  BY DEF Base!Receive, Base!NoSendOnClosed, Merged
<1> QED
  BY <1>2, <1>3, <1>4, <1>5

(* Ready, setState and Close. *)
LEMMA BaseOwnerStep ==
    ASSUME ConstantsOK, BaseInv,
           Base!Ready \/ Base!ReadyReturns \/ Base!SetState \/ Base!CloseStream
    PROVE  BaseInv'
<1> USE DEF BaseInv
<1>1. CASE Base!Ready
  BY <1>1 DEF Base!Ready, Base!TypeOK, Locked, Announces, Merged, Base!NewestKept,
    Base!NoSendOnClosed
<1>2. CASE Base!ReadyReturns
  BY <1>2 DEF Base!ReadyReturns, Base!TypeOK, Locked, Announces, Merged, Base!NewestKept,
    Base!NoSendOnClosed
<1>3. CASE Base!SetState
  BY <1>3 DEF Base!SetState, Base!TypeOK, Locked, Announces, Merged, Base!NewestKept,
    Base!NoSendOnClosed
<1>4. CASE Base!CloseStream
  BY <1>4 DEF Base!CloseStream, Base!TypeOK, Locked, Announces, Merged, Base!NewestKept,
    Base!NoSendOnClosed
<1> QED
  BY <1>1, <1>2, <1>3, <1>4

LEMMA BaseKept ==
    ASSUME ConstantsOK, BaseInv, [Base!Next]_(Base!vars)
    PROVE  BaseInv'
<1>1. CASE \E p \in Owners : Base!PublisherStep(p)
  BY <1>1, BaseMergeStep, BasePublishStep, BaseTrySendStep, BaseEvictStep, BaseResendStep,
     BaseNotifyStep DEF Base!PublisherStep
<1>2. CASE UNCHANGED Base!vars
  BY <1>2 DEF Base!vars, BaseInv, Base!TypeOK, Locked, Announces, Merged, Base!NewestKept,
    Base!NoSendOnClosed
<1> QED
  BY <1>1, <1>2, BaseReceiveStep, BaseOwnerStep DEF Base!Next

(* publish, Ready and Close, for any delivering goroutines, keys, buffer   *)
(* and updates: wherever the consumer's receives fall between the attempts *)
(* to send, who drains the channel ends with the stream's value; no        *)
(* goroutine sends on the channel Close has closed; the value has every    *)
(* update; Ready returns only for a value, and leaves nobody waiting.      *)
THEOREM BaseIsSound == Spec => []BaseSound
<1> DEFINE Inv == part = "base" => BaseInv
<1>1. Init => Inv
  BY ConstantsOK, BaseInitInv DEF Init
<1>2. Inv /\ [Next]_vars => Inv'
  <2> SUFFICES ASSUME Inv, [Next]_vars, part' = "base" PROVE BaseInv'
    OBVIOUS
  <2>1. part = "base" /\ [Base!Next]_(Base!vars)
    BY DEF Next, vars, EventsNext, MidsNext, CandlesNext, DeliveryNext, PathsNext, BaseNext,
      baseOnly, Base!vars
  <2> QED
    BY <2>1, ConstantsOK, BaseKept
<1>3. Inv => BaseSound
  BY DEF BaseInv, Announces, Merged, BaseSound, Base!BaseSound, Base!NothingUnmerged,
    Base!ReadyTells
<1> QED
  BY <1>1, <1>2, <1>3, PTL DEF Spec

-----------------------------------------------------------------------------
(* PathWatches: watchPath and unwatchPath.                                 *)

(* A stream takes its reference once, after it was opened; if it was       *)
(* closed before that, early says so.                                      *)
Started ==
    \A s \in Owners :
        /\ life[s] = "new" => opc[Paths!Watcher(s)] = "idle" /\ s \notin taken
        /\ opc[Paths!Watcher(s)] = "take" => s \notin taken
        /\ life[s] = "closed" /\ opc[Paths!Watcher(s)] = "take" => early

(* The connection that is served is the one that is installed, and is      *)
(* authenticated; a message to be written has a connection that was made.  *)
PathLink ==
    /\ rpc \in {"auth", "snapshot", "callbacks", "serve"} => conn \in 1..used
    /\ rpc \in {"snapshot", "callbacks", "serve"} => connected
    /\ rpc \in {"down", "auth"} => ~connected
    /\ rpc = "end" => conn = None
    /\ server \subseteq 1..used
    /\ \A p \in Paths!Senders : opc[p] = "write" => target[p] \in 1..used
    /\ used <= PathConns

(* Nobody has told the server about a connection that is not authenticated.*)
Unspoken ==
    rpc = "auth" =>
        conn \notin server /\ \A p \in Paths!Senders : opc[p] = "write" => target[p] # conn

(* p has yet to reach the server on the present connection. *)
Underway(p) == opc[p] \in {"ask", "look", "send"} \/ (opc[p] = "write" /\ target[p] = conn)

Watchers == Paths!Goroutines \cup {Reader}

(* A held path is watched, or a watch is on its way. *)
WatchComes ==
    rpc \in {"callbacks", "serve"} /\ ~overlap /\ conn \in alive /\ refs > 0 =>
        conn \in server \/ \E p \in Watchers : Underway(p)

(* A released one is not watched, or an unwatch is on its way. *)
UnwatchComes ==
    rpc \in {"snapshot", "callbacks", "serve"} /\ ~overlap /\ refs = 0 =>
        conn \notin server \/ \E p \in Paths!Closers : Underway(p)

(* Unless they crossed, no unwatch is on its way for a path that is held,  *)
(* and no watch for one that is not.                                       *)
NotCrossed ==
    ~overlap =>
        /\ refs > 0 => ~Paths!UnwatchDue
        /\ refs = 0 => deferred = {} /\ ~Paths!Sending(Watchers)

PathInv ==
    /\ Paths!TypeOK /\ Started /\ PathLink /\ Unspoken
    /\ WatchComes /\ UnwatchComes /\ NotCrossed /\ Paths!Balanced

LEMMA PathSenders ==
    ASSUME ConstantsOK
    PROVE  /\ \A s \in Owners : /\ Paths!Watcher(s) \in Paths!Goroutines
                               /\ Paths!Closer(s) \in Paths!Closers
           /\ \A s, t \in Owners : Paths!Watcher(s) = Paths!Watcher(t) => s = t
           /\ \A p \in Paths!Goroutines :
                 /\ p \notin Paths!Closers /\ p # Reader
                 /\ \E s \in Owners : p = Paths!Watcher(s)
           /\ \A p \in Paths!Closers : p # Reader
           /\ Paths!Senders = Paths!Goroutines \cup Paths!Closers \cup {Reader}
BY DEF ConstantsOK, Paths!Watcher, Paths!Closer, Paths!Goroutines, Paths!Closers, Paths!Senders

(* The cardinality of the module is that of FiniteSets. *)
LEMMA PathCardinality == \A S : Paths!Cardinality(S) = Cardinality(S)
BY DEF Paths!Cardinality, Cardinality

(* Watch. *)
LEMMA PathWatchStep ==
    ASSUME ConstantsOK, PathInv, NEW s \in Owners, Paths!Watch(s)
    PROVE  PathInv'
<1> USE PathSenders DEF PathInv
<1>1. Paths!TypeOK'
  <2>1. early' \in BOOLEAN /\ overlap' \in BOOLEAN /\ connected' \in BOOLEAN
    BY Zenon DEF Paths!Watch, Paths!Watcher, Paths!Move, Paths!senders, Paths!link, Paths!TypeOK
  <2> QED
    BY <2>1 DEF Paths!Watch, Paths!Watcher, Paths!Move, Paths!senders, Paths!link, Paths!TypeOK,
      Paths!ConnIds, ConstantsOK
<1>2. Started'
  BY DEF Paths!Watch, Paths!Watcher, Paths!Move, Paths!senders, Paths!link, Paths!TypeOK, Started
<1>3. PathLink'
  BY DEF Paths!Watch, Paths!Watcher, Paths!Move, Paths!senders, Paths!link, Paths!TypeOK,
    PathLink, Paths!ConnIds, ConstantsOK
<1>4. Unspoken'
  BY DEF Paths!Watch, Paths!Watcher, Paths!Move, Paths!senders, Paths!link, Paths!TypeOK,
    PathLink, Unspoken, ConstantsOK
<1>5. WatchComes'
  <2>1. \A p \in Watchers : Underway(p) => Underway(p)'
    BY DEF Paths!Watch, Paths!Watcher, Paths!Move, Paths!TypeOK, Paths!senders, Paths!link,
      Underway, Watchers, Started
  <2> QED
    BY <2>1 DEF Paths!Watch, Paths!link, WatchComes
<1>6. UnwatchComes'
  BY DEF Paths!Watch, Paths!Watcher, Paths!Move, Paths!senders, Paths!link, Paths!TypeOK,
    PathLink, UnwatchComes, Underway, ConstantsOK, Unspoken, NotCrossed, Watchers, Paths!Sending,
    Paths!UnwatchDue
<1>7. NotCrossed'
  BY DEF Paths!Watch, Paths!Watcher, Paths!Move, Paths!senders, Paths!link, Paths!TypeOK,
    NotCrossed, Watchers, Paths!Sending, Paths!UnwatchDue, Paths!WatchDue
<1>8. Paths!Balanced'
  BY DEF Paths!Watch, Paths!Watcher, Paths!Move, Paths!senders, Paths!link, Paths!TypeOK, Started,
    Paths!Balanced, Paths!Holders
<1> QED
  BY <1>1, <1>2, <1>3, <1>4, <1>5, <1>6, <1>7, <1>8

(* watchPath takes the reference. *)
LEMMA PathWatchPathStep ==
    ASSUME ConstantsOK, PathInv, NEW s \in Owners, Paths!WatchPath(s)
    PROVE  PathInv'
<1> USE PathSenders DEF PathInv
<1>1. Paths!TypeOK'
  <2>1. early' \in BOOLEAN /\ overlap' \in BOOLEAN /\ connected' \in BOOLEAN
    BY Zenon DEF Paths!WatchPath, Paths!Watcher, Paths!Move, Paths!senders, Paths!link,
      Paths!TypeOK
  <2> QED
    BY <2>1 DEF Paths!WatchPath, Paths!Watcher, Paths!Move, Paths!senders, Paths!link,
      Paths!TypeOK, Paths!ConnIds, ConstantsOK
<1>2. Started'
  BY DEF Paths!WatchPath, Paths!Watcher, Paths!Move, Paths!senders, Paths!link, Paths!TypeOK,
    Started
<1>3. PathLink'
  BY DEF Paths!WatchPath, Paths!Watcher, Paths!Move, Paths!senders, Paths!link, Paths!TypeOK,
    PathLink, Paths!ConnIds, ConstantsOK
<1>4. Unspoken'
  BY DEF Paths!WatchPath, Paths!Watcher, Paths!Move, Paths!senders, Paths!link, Paths!TypeOK,
    PathLink, Unspoken, ConstantsOK
<1>5. WatchComes'
  BY DEF Paths!WatchPath, Paths!Watcher, Paths!Move, Paths!senders, Paths!link, Paths!TypeOK,
    PathLink, WatchComes, Watchers, Underway, ConstantsOK, Unspoken, NotCrossed, Paths!Sending,
    Paths!UnwatchDue
<1>6. UnwatchComes'
  BY DEF Paths!WatchPath, Paths!Watcher, Paths!Move, Paths!senders, Paths!link, Paths!TypeOK,
    PathLink, UnwatchComes, Underway, ConstantsOK, Unspoken, NotCrossed, Watchers, Paths!Sending,
    Paths!UnwatchDue
<1>7. NotCrossed'
  <2>1. \A p \in Paths!Closers : opc'[p] = opc[p]
    BY DEF Paths!WatchPath, Paths!Move, Paths!TypeOK
  <2>2. refs' > 0
    BY DEF Paths!WatchPath, Paths!TypeOK
  <2>3. ~overlap' => ~Paths!UnwatchDue
    BY Zenon DEF Paths!WatchPath
  <2>4. ~overlap' => ~Paths!UnwatchDue'
    BY <2>1, <2>3 DEF Paths!UnwatchDue, Paths!Sending
  <2> QED
    BY <2>2, <2>4 DEF NotCrossed, Paths!TypeOK
<1>8. Paths!Balanced'
  <2> SUFFICES ASSUME ~early PROVE refs' = Cardinality(Paths!Holders')
    BY PathCardinality DEF Paths!WatchPath, Paths!Balanced
  <2>1. s \notin Paths!Holders /\ Paths!Holders' = Paths!Holders \cup {s}
    BY DEF Paths!WatchPath, Paths!TypeOK, Started, Paths!Holders
  <2>2. IsFiniteSet(Paths!Holders)
    BY FS_Subset, ConstantsOK DEF Paths!Holders, ConstantsOK, Paths!TypeOK
  <2>3. refs = Cardinality(Paths!Holders)
    BY PathCardinality DEF Paths!Balanced
  <2> QED
    BY <2>1, <2>2, <2>3, FS_AddElement DEF Paths!WatchPath
<1> QED
  BY <1>1, <1>2, <1>3, <1>4, <1>5, <1>6, <1>7, <1>8

(* requestPathSnapshot. *)
LEMMA PathRequestPathSnapshotStep ==
    ASSUME ConstantsOK, PathInv, NEW s \in Owners, Paths!RequestPathSnapshot(s)
    PROVE  PathInv'
<1> USE PathSenders DEF PathInv
<1>1. Paths!TypeOK'
  <2>1. early' \in BOOLEAN /\ overlap' \in BOOLEAN /\ connected' \in BOOLEAN
    BY Zenon DEF Paths!RequestPathSnapshot, Paths!Watcher, Paths!Move, Paths!senders, Paths!link,
      Paths!TypeOK
  <2> QED
    BY <2>1 DEF Paths!RequestPathSnapshot, Paths!Watcher, Paths!Move, Paths!senders, Paths!link,
      Paths!TypeOK, Paths!ConnIds, ConstantsOK
<1>2. Started'
  BY DEF Paths!RequestPathSnapshot, Paths!Watcher, Paths!Move, Paths!senders, Paths!link,
    Paths!TypeOK, Started
<1>3. PathLink'
  BY DEF Paths!RequestPathSnapshot, Paths!Watcher, Paths!Move, Paths!senders, Paths!link,
    Paths!TypeOK, PathLink, Paths!ConnIds, ConstantsOK
<1>4. Unspoken'
  BY DEF Paths!RequestPathSnapshot, Paths!Watcher, Paths!Move, Paths!senders, Paths!link,
    Paths!TypeOK, PathLink, Unspoken, ConstantsOK
<1>5. WatchComes'
  BY DEF Paths!RequestPathSnapshot, Paths!Watcher, Paths!Move, Paths!senders, Paths!link,
    Paths!TypeOK, PathLink, WatchComes, Watchers, Underway, ConstantsOK, Unspoken, NotCrossed,
    Paths!Sending, Paths!UnwatchDue
<1>6. UnwatchComes'
  BY DEF Paths!RequestPathSnapshot, Paths!Watcher, Paths!Move, Paths!senders, Paths!link,
    Paths!TypeOK, PathLink, UnwatchComes, Underway, ConstantsOK, Unspoken, NotCrossed, Watchers,
    Paths!Sending, Paths!UnwatchDue
<1>7. NotCrossed'
  BY DEF Paths!RequestPathSnapshot, Paths!Watcher, Paths!Move, Paths!senders, Paths!link,
    Paths!TypeOK, NotCrossed, Watchers, Paths!Sending, Paths!UnwatchDue, Paths!WatchDue
<1>8. Paths!Balanced'
  BY DEF Paths!RequestPathSnapshot, Paths!Watcher, Paths!Move, Paths!senders, Paths!link,
    Paths!TypeOK, Started, Paths!Balanced, Paths!Holders
<1> QED
  BY <1>1, <1>2, <1>3, <1>4, <1>5, <1>6, <1>7, <1>8

(* requestPathSnapshot looks at the status. *)
LEMMA PathLookAtStatusStep ==
    ASSUME ConstantsOK, PathInv, NEW s \in Owners, Paths!LookAtStatus(s)
    PROVE  PathInv'
<1> USE PathSenders DEF PathInv
<1>1. Paths!TypeOK'
  <2>1. early' \in BOOLEAN /\ overlap' \in BOOLEAN /\ connected' \in BOOLEAN
    BY Zenon DEF Paths!LookAtStatus, Paths!Watcher, Paths!Move, Paths!senders, Paths!link,
      Paths!TypeOK
  <2> QED
    BY <2>1 DEF Paths!LookAtStatus, Paths!Watcher, Paths!Move, Paths!senders, Paths!link,
      Paths!TypeOK, Paths!ConnIds, ConstantsOK
<1>2. Started'
  BY ZenonT(30) DEF Paths!LookAtStatus, Paths!Watcher, Paths!Move, Paths!senders, Paths!link, Paths!TypeOK,
    Started
<1>3. PathLink'
  BY DEF Paths!LookAtStatus, Paths!Watcher, Paths!Move, Paths!senders, Paths!link, Paths!TypeOK,
    PathLink, Paths!ConnIds, ConstantsOK
<1>4. Unspoken'
  BY DEF Paths!LookAtStatus, Paths!Watcher, Paths!Move, Paths!senders, Paths!link, Paths!TypeOK,
    PathLink, Unspoken, ConstantsOK
<1>5. WatchComes'
  BY DEF Paths!LookAtStatus, Paths!Watcher, Paths!Move, Paths!senders, Paths!link, Paths!TypeOK,
    PathLink, WatchComes, Watchers, Underway, ConstantsOK, Unspoken, NotCrossed, Paths!Sending,
    Paths!UnwatchDue
<1>6. UnwatchComes'
  BY DEF Paths!LookAtStatus, Paths!Watcher, Paths!Move, Paths!senders, Paths!link, Paths!TypeOK,
    PathLink, UnwatchComes, Underway, ConstantsOK, Unspoken, NotCrossed, Watchers, Paths!Sending,
    Paths!UnwatchDue
<1>7. NotCrossed'
  BY DEF Paths!LookAtStatus, Paths!Watcher, Paths!Move, Paths!senders, Paths!link, Paths!TypeOK,
    NotCrossed, Watchers, Paths!Sending, Paths!UnwatchDue, Paths!WatchDue
<1>8. Paths!Balanced'
  BY DEF Paths!LookAtStatus, Paths!Watcher, Paths!Move, Paths!senders, Paths!link, Paths!TypeOK,
    Started, Paths!Balanced, Paths!Holders
<1> QED
  BY <1>1, <1>2, <1>3, <1>4, <1>5, <1>6, <1>7, <1>8

(* watchPath returns. *)
LEMMA PathWatchPathReturnsStep ==
    ASSUME ConstantsOK, PathInv, NEW s \in Owners, Paths!WatchPathReturns(s)
    PROVE  PathInv'
<1> USE PathSenders DEF PathInv
<1>1. Paths!TypeOK'
  <2>1. early' \in BOOLEAN /\ overlap' \in BOOLEAN /\ connected' \in BOOLEAN
    BY Zenon DEF Paths!WatchPathReturns, Paths!Watcher, Paths!Move, Paths!senders, Paths!link,
      Paths!TypeOK
  <2> QED
    BY <2>1 DEF Paths!WatchPathReturns, Paths!Watcher, Paths!Move, Paths!senders, Paths!link,
      Paths!TypeOK, Paths!ConnIds, ConstantsOK
<1>2. Started'
  BY DEF Paths!WatchPathReturns, Paths!Watcher, Paths!Move, Paths!senders, Paths!link,
    Paths!TypeOK, Started
<1>3. PathLink'
  BY DEF Paths!WatchPathReturns, Paths!Watcher, Paths!Move, Paths!senders, Paths!link,
    Paths!TypeOK, PathLink, Paths!ConnIds, ConstantsOK
<1>4. Unspoken'
  BY DEF Paths!WatchPathReturns, Paths!Watcher, Paths!Move, Paths!senders, Paths!link,
    Paths!TypeOK, PathLink, Unspoken, ConstantsOK
<1>5. WatchComes'
  BY DEF Paths!WatchPathReturns, Paths!Watcher, Paths!Move, Paths!senders, Paths!link,
    Paths!TypeOK, PathLink, WatchComes, Watchers, Underway, ConstantsOK, Unspoken, NotCrossed,
    Paths!Sending, Paths!UnwatchDue
<1>6. UnwatchComes'
  BY DEF Paths!WatchPathReturns, Paths!Watcher, Paths!Move, Paths!senders, Paths!link,
    Paths!TypeOK, PathLink, UnwatchComes, Underway, ConstantsOK, Unspoken, NotCrossed, Watchers,
    Paths!Sending, Paths!UnwatchDue
<1>7. NotCrossed'
  BY DEF Paths!WatchPathReturns, Paths!Watcher, Paths!Move, Paths!senders, Paths!link,
    Paths!TypeOK, NotCrossed, Watchers, Paths!Sending, Paths!UnwatchDue, Paths!WatchDue
<1>8. Paths!Balanced'
  BY DEF Paths!WatchPathReturns, Paths!Watcher, Paths!Move, Paths!senders, Paths!link,
    Paths!TypeOK, Started, Paths!Balanced, Paths!Holders
<1> QED
  BY <1>1, <1>2, <1>3, <1>4, <1>5, <1>6, <1>7, <1>8

(* Close and unwatchPath. *)
LEMMA PathCloseStep ==
    ASSUME ConstantsOK, PathInv, NEW s \in Owners, Paths!Close(s)
    PROVE  PathInv'
<1> USE PathSenders DEF PathInv
<1>1. Paths!TypeOK'
  <2>1. early' \in BOOLEAN /\ overlap' \in BOOLEAN /\ connected' \in BOOLEAN
    BY Zenon DEF Paths!Close, Paths!Closer, Paths!Move, Paths!Released, Paths!LastOwner,
      Paths!senders, Paths!link, Paths!TypeOK
  <2> QED
    BY <2>1 DEF Paths!Close, Paths!Closer, Paths!Move, Paths!Released, Paths!LastOwner,
      Paths!senders, Paths!link, Paths!TypeOK, Paths!ConnIds, ConstantsOK
<1>2. Started'
  <2>1. \A t \in Owners : Paths!Watcher(t) # Paths!Closer(s) /\ Paths!Watcher(t) \in Paths!Senders
    OBVIOUS
  <2>2. \A t \in Owners : opc'[Paths!Watcher(t)] = opc[Paths!Watcher(t)]
    BY <2>1 DEF Paths!Close, Paths!Move, Paths!TypeOK
  <2> QED
    BY <2>2 DEF Paths!Close, Paths!TypeOK, Started
<1>3. PathLink'
  BY DEF Paths!Close, Paths!Closer, Paths!Move, Paths!Released, Paths!LastOwner, Paths!senders,
    Paths!link, Paths!TypeOK, PathLink, Paths!ConnIds, ConstantsOK
<1>4. Unspoken'
  BY DEF Paths!Close, Paths!Closer, Paths!Move, Paths!Released, Paths!LastOwner, Paths!senders,
    Paths!link, Paths!TypeOK, PathLink, Unspoken, ConstantsOK
<1>5. WatchComes'
  BY DEF Paths!Close, Paths!Closer, Paths!Move, Paths!Released, Paths!LastOwner, Paths!senders,
    Paths!link, Paths!TypeOK, PathLink, WatchComes, Watchers, Underway, ConstantsOK, Unspoken,
    NotCrossed, Paths!Sending, Paths!UnwatchDue
<1>6. UnwatchComes'
  BY DEF Paths!Close, Paths!Closer, Paths!Move, Paths!Released, Paths!LastOwner, Paths!senders,
    Paths!link, Paths!TypeOK, PathLink, UnwatchComes, Underway, ConstantsOK, Unspoken, NotCrossed,
    Watchers, Paths!Sending, Paths!UnwatchDue
<1>7. NotCrossed'
  <2>1. CASE refs <= 1
    <3>1. refs' = 0 /\ deferred' = deferred
      BY <2>1 DEF Paths!Close, Paths!Released, Paths!LastOwner
    <3>2. ~overlap' => ~Paths!WatchDue
      BY <2>1, Zenon DEF Paths!Close, Paths!LastOwner
    <3>3. \A p \in Watchers : opc'[p] = opc[p]
      BY <2>1 DEF Paths!Close, Paths!Move, Paths!LastOwner, Paths!TypeOK, Watchers
    <3>4. Watchers \subseteq Paths!Senders \ Paths!Closers
      BY DEF Watchers
    <3>5. ~overlap' => deferred = {} /\ ~Paths!Sending(Watchers)'
      BY <3>2, <3>3, <3>4 DEF Paths!WatchDue, Paths!Sending
    <3> QED
      BY <3>1, <3>5 DEF NotCrossed
  <2>2. CASE ~(refs <= 1)
    BY <2>2 DEF Paths!Close, Paths!Released, Paths!LastOwner, Paths!TypeOK, NotCrossed,
      Paths!UnwatchDue, Paths!Sending
  <2> QED
    BY <2>1, <2>2
<1>8. Paths!Balanced'
  <2> SUFFICES ASSUME ~early' PROVE refs' = Cardinality(Paths!Holders')
    BY PathCardinality DEF Paths!Balanced
  <2>1. s \in Paths!Holders /\ Paths!Holders' = Paths!Holders \ {s} /\ ~early
    BY DEF Paths!Close, Paths!TypeOK, Paths!Holders
  <2>2. IsFiniteSet(Paths!Holders)
    BY FS_Subset, ConstantsOK DEF Paths!Holders, ConstantsOK, Paths!TypeOK
  <2>3. /\ refs = Cardinality(Paths!Holders)
        /\ Cardinality(Paths!Holders') = Cardinality(Paths!Holders) - 1
    BY <2>1, <2>2, FS_RemoveElement, PathCardinality DEF Paths!Balanced
  <2>4. Cardinality(Paths!Holders') \in Nat
    BY <2>1, <2>2, FS_RemoveElement, FS_CardinalityType
  <2> QED
    BY <2>3, <2>4 DEF Paths!Close, Paths!Released, Paths!TypeOK
<1> QED
  BY <1>1, <1>2, <1>3, <1>4, <1>5, <1>6, <1>7, <1>8

(* send picks the connection. *)
LEMMA PathSendStep ==
    ASSUME ConstantsOK, PathInv, NEW q \in Paths!Senders, Paths!Send(q)
    PROVE  PathInv'
<1> USE PathSenders DEF PathInv
<1>1. Paths!TypeOK'
  <2>1. early' \in BOOLEAN /\ overlap' \in BOOLEAN /\ connected' \in BOOLEAN
    BY Zenon DEF Paths!Send, Paths!Move, Paths!After, Paths!senders, Paths!link, Paths!TypeOK
  <2> QED
    BY <2>1 DEF Paths!Send, Paths!Move, Paths!After, Paths!senders, Paths!link, Paths!TypeOK,
      Paths!ConnIds, ConstantsOK
<1>2. Started'
  BY DEF Paths!Send, Paths!Move, Paths!After, Paths!senders, Paths!link, Paths!TypeOK, Started
<1>3. PathLink'
  BY DEF Paths!Send, Paths!Move, Paths!After, Paths!senders, Paths!link, Paths!TypeOK, PathLink,
    Paths!ConnIds, ConstantsOK
<1>4. Unspoken'
  BY DEF Paths!Send, Paths!Move, Paths!After, Paths!senders, Paths!link, Paths!TypeOK, PathLink,
    Unspoken, ConstantsOK
<1>5. WatchComes'
  BY DEF Paths!Send, Paths!Move, Paths!After, Paths!senders, Paths!link, Paths!TypeOK, PathLink,
    WatchComes, Watchers, Underway, ConstantsOK, Unspoken, NotCrossed, Paths!Sending,
    Paths!UnwatchDue
<1>6. UnwatchComes'
  BY DEF Paths!Send, Paths!Move, Paths!After, Paths!senders, Paths!link, Paths!TypeOK, PathLink,
    UnwatchComes, Underway, ConstantsOK, Unspoken, NotCrossed, Watchers, Paths!Sending,
    Paths!UnwatchDue
<1>7. NotCrossed'
  BY DEF Paths!Send, Paths!Move, Paths!After, Paths!senders, Paths!link, Paths!TypeOK, NotCrossed,
    Watchers, Paths!Sending, Paths!UnwatchDue, Paths!WatchDue
<1>8. Paths!Balanced'
  BY DEF Paths!Send, Paths!Move, Paths!After, Paths!senders, Paths!link, Paths!TypeOK, Started,
    Paths!Balanced, Paths!Holders
<1> QED
  BY <1>1, <1>2, <1>3, <1>4, <1>5, <1>6, <1>7, <1>8

(* The message is written. *)
LEMMA PathWriteStep ==
    ASSUME ConstantsOK, PathInv, NEW q \in Paths!Senders, Paths!Write(q)
    PROVE  PathInv'
<1> USE PathSenders DEF PathInv
<1>1. Paths!TypeOK'
  <2>1. early' \in BOOLEAN /\ overlap' \in BOOLEAN /\ connected' \in BOOLEAN
    BY Zenon DEF Paths!Write, Paths!Move, Paths!After, Paths!senders, Paths!link, Paths!TypeOK
  <2> QED
    BY <2>1 DEF Paths!Write, Paths!Move, Paths!After, Paths!senders, Paths!link, Paths!TypeOK,
      Paths!ConnIds, ConstantsOK
<1>2. Started'
  BY DEF Paths!Write, Paths!Move, Paths!After, Paths!senders, Paths!link, Paths!TypeOK, Started
<1>3. PathLink'
  <2>1. target[q] \in 1..used
    BY DEF PathLink, Paths!Write
  <2>2. server' \subseteq 1..used
    BY <2>1 DEF Paths!Write, PathLink
  <2>3. \A p \in Paths!Senders : opc'[p] = "write" => target'[p] \in 1..used
    BY DEF Paths!Write, Paths!Move, Paths!After, Paths!TypeOK, PathLink
  <2> QED
    BY <2>2, <2>3 DEF Paths!Write, Paths!link, PathLink
<1>4. Unspoken'
  BY DEF Paths!Write, Paths!Move, Paths!After, Paths!senders, Paths!link, Paths!TypeOK, PathLink,
    Unspoken, ConstantsOK
<1>5. WatchComes'
  BY DEF Paths!Write, Paths!Move, Paths!After, Paths!senders, Paths!link, Paths!TypeOK, PathLink,
    WatchComes, Watchers, Underway, ConstantsOK, Unspoken, NotCrossed, Paths!Sending,
    Paths!UnwatchDue
<1>6. UnwatchComes'
  BY DEF Paths!Write, Paths!Move, Paths!After, Paths!senders, Paths!link, Paths!TypeOK, PathLink,
    UnwatchComes, Underway, ConstantsOK, Unspoken, NotCrossed, Watchers, Paths!Sending,
    Paths!UnwatchDue
<1>7. NotCrossed'
  BY DEF Paths!Write, Paths!Move, Paths!After, Paths!senders, Paths!link, Paths!TypeOK,
    NotCrossed, Watchers, Paths!Sending, Paths!UnwatchDue, Paths!WatchDue
<1>8. Paths!Balanced'
  BY DEF Paths!Write, Paths!Move, Paths!After, Paths!senders, Paths!link, Paths!TypeOK, Started,
    Paths!Balanced, Paths!Holders
<1> QED
  BY <1>1, <1>2, <1>3, <1>4, <1>5, <1>6, <1>7, <1>8

(* A new connection. *)
LEMMA PathConnectStep ==
    ASSUME ConstantsOK, PathInv, Paths!Connect
    PROVE  PathInv'
<1> USE PathSenders DEF PathInv
<1>1. Paths!TypeOK'
  <2>1. early' \in BOOLEAN /\ overlap' \in BOOLEAN /\ connected' \in BOOLEAN
    BY Zenon DEF Paths!Connect, Paths!senders, Paths!link, Paths!TypeOK
  <2> QED
    BY <2>1 DEF Paths!Connect, Paths!senders, Paths!link, Paths!TypeOK, Paths!ConnIds, ConstantsOK
<1>2. Started'
  BY DEF Paths!Connect, Paths!senders, Paths!link, Paths!TypeOK, Started
<1>3. PathLink'
  BY DEF Paths!Connect, Paths!senders, Paths!link, Paths!TypeOK, PathLink, Paths!ConnIds,
    ConstantsOK
<1>4. Unspoken'
  BY DEF Paths!Connect, Paths!senders, Paths!link, Paths!TypeOK, PathLink, Unspoken, ConstantsOK
<1>5. WatchComes'
  BY DEF Paths!Connect, Paths!senders, Paths!link, Paths!TypeOK, PathLink, WatchComes, Watchers,
    Underway, ConstantsOK, Unspoken, NotCrossed, Paths!Sending, Paths!UnwatchDue
<1>6. UnwatchComes'
  BY DEF Paths!Connect, Paths!senders, Paths!link, Paths!TypeOK, PathLink, UnwatchComes, Underway,
    ConstantsOK, Unspoken, NotCrossed, Watchers, Paths!Sending, Paths!UnwatchDue
<1>7. NotCrossed'
  BY DEF Paths!Connect, Paths!senders, Paths!link, Paths!TypeOK, NotCrossed, Watchers,
    Paths!Sending, Paths!UnwatchDue, Paths!WatchDue
<1>8. Paths!Balanced'
  BY DEF Paths!Connect, Paths!senders, Paths!link, Paths!TypeOK, Started, Paths!Balanced,
    Paths!Holders
<1> QED
  BY <1>1, <1>2, <1>3, <1>4, <1>5, <1>6, <1>7, <1>8

(* onAuthenticated. *)
LEMMA PathOnAuthenticatedStep ==
    ASSUME ConstantsOK, PathInv, Paths!OnAuthenticated
    PROVE  PathInv'
<1> USE PathSenders DEF PathInv
<1>1. Paths!TypeOK'
  <2>1. early' \in BOOLEAN /\ overlap' \in BOOLEAN /\ connected' \in BOOLEAN
    BY Zenon DEF Paths!OnAuthenticated, Paths!senders, Paths!link, Paths!TypeOK
  <2> QED
    BY <2>1 DEF Paths!OnAuthenticated, Paths!senders, Paths!link, Paths!TypeOK, Paths!ConnIds,
      ConstantsOK
<1>2. Started'
  BY DEF Paths!OnAuthenticated, Paths!senders, Paths!link, Paths!TypeOK, Started
<1>3. PathLink'
  BY DEF Paths!OnAuthenticated, Paths!senders, Paths!link, Paths!TypeOK, PathLink, Paths!ConnIds,
    ConstantsOK
<1>4. Unspoken'
  BY DEF Paths!OnAuthenticated, Paths!senders, Paths!link, Paths!TypeOK, PathLink, Unspoken,
    ConstantsOK
<1>5. WatchComes'
  BY DEF Paths!OnAuthenticated, Paths!senders, Paths!link, Paths!TypeOK, PathLink, WatchComes,
    Watchers, Underway, ConstantsOK, Unspoken, NotCrossed, Paths!Sending, Paths!UnwatchDue
<1>6. UnwatchComes'
  BY DEF Paths!OnAuthenticated, Paths!senders, Paths!link, Paths!TypeOK, PathLink, UnwatchComes,
    Underway, ConstantsOK, Unspoken, NotCrossed, Watchers, Paths!Sending, Paths!UnwatchDue
<1>7. NotCrossed'
  BY DEF Paths!OnAuthenticated, Paths!senders, Paths!link, Paths!TypeOK, NotCrossed, Watchers,
    Paths!Sending, Paths!UnwatchDue, Paths!WatchDue
<1>8. Paths!Balanced'
  BY DEF Paths!OnAuthenticated, Paths!senders, Paths!link, Paths!TypeOK, Started, Paths!Balanced,
    Paths!Holders
<1> QED
  BY <1>1, <1>2, <1>3, <1>4, <1>5, <1>6, <1>7, <1>8

(* resubscribe. *)
LEMMA PathResubscribeStep ==
    ASSUME ConstantsOK, PathInv, Paths!Resubscribe
    PROVE  PathInv'
<1> USE PathSenders DEF PathInv
<1>1. Paths!TypeOK'
  <2>1. early' \in BOOLEAN /\ overlap' \in BOOLEAN /\ connected' \in BOOLEAN
    BY Zenon DEF Paths!Resubscribe, Paths!Move, Paths!Wanted, Paths!senders, Paths!link,
      Paths!TypeOK
  <2> QED
    BY <2>1 DEF Paths!Resubscribe, Paths!Move, Paths!Wanted, Paths!senders, Paths!link,
      Paths!TypeOK, Paths!ConnIds, ConstantsOK
<1>2. Started'
  BY DEF Paths!Resubscribe, Paths!Move, Paths!Wanted, Paths!senders, Paths!link, Paths!TypeOK,
    Started
<1>3. PathLink'
  BY DEF Paths!Resubscribe, Paths!Move, Paths!Wanted, Paths!senders, Paths!link, Paths!TypeOK,
    PathLink, Paths!ConnIds, ConstantsOK
<1>4. Unspoken'
  BY DEF Paths!Resubscribe, Paths!Move, Paths!Wanted, Paths!senders, Paths!link, Paths!TypeOK,
    PathLink, Unspoken, ConstantsOK
<1>5. WatchComes'
  BY DEF Paths!Resubscribe, Paths!Move, Paths!Wanted, Paths!senders, Paths!link, Paths!TypeOK,
    PathLink, WatchComes, Watchers, Underway, ConstantsOK, Unspoken, NotCrossed, Paths!Sending,
    Paths!UnwatchDue
<1>6. UnwatchComes'
  BY DEF Paths!Resubscribe, Paths!Move, Paths!Wanted, Paths!senders, Paths!link, Paths!TypeOK,
    PathLink, UnwatchComes, Underway, ConstantsOK, Unspoken, NotCrossed, Watchers, Paths!Sending,
    Paths!UnwatchDue
<1>7. NotCrossed'
  BY DEF Paths!Resubscribe, Paths!Move, Paths!Wanted, Paths!senders, Paths!link, Paths!TypeOK,
    NotCrossed, Watchers, Paths!Sending, Paths!UnwatchDue, Paths!WatchDue
<1>8. Paths!Balanced'
  BY DEF Paths!Resubscribe, Paths!Move, Paths!Wanted, Paths!senders, Paths!link, Paths!TypeOK,
    Started, Paths!Balanced, Paths!Holders
<1> QED
  BY <1>1, <1>2, <1>3, <1>4, <1>5, <1>6, <1>7, <1>8

(* A deferred sendWatch. *)
LEMMA PathRunCallbackStep ==
    ASSUME ConstantsOK, PathInv, NEW s \in Owners, Paths!RunCallback(s)
    PROVE  PathInv'
<1> USE PathSenders DEF PathInv
<1>1. Paths!TypeOK'
  <2>1. early' \in BOOLEAN /\ overlap' \in BOOLEAN /\ connected' \in BOOLEAN
    BY Zenon DEF Paths!RunCallback, Paths!Move, Paths!senders, Paths!link, Paths!TypeOK
  <2> QED
    BY <2>1 DEF Paths!RunCallback, Paths!Move, Paths!senders, Paths!link, Paths!TypeOK,
      Paths!ConnIds, ConstantsOK
<1>2. Started'
  BY DEF Paths!RunCallback, Paths!Move, Paths!senders, Paths!link, Paths!TypeOK, Started
<1>3. PathLink'
  BY DEF Paths!RunCallback, Paths!Move, Paths!senders, Paths!link, Paths!TypeOK, PathLink,
    Paths!ConnIds, ConstantsOK
<1>4. Unspoken'
  BY DEF Paths!RunCallback, Paths!Move, Paths!senders, Paths!link, Paths!TypeOK, PathLink,
    Unspoken, ConstantsOK
<1>5. WatchComes'
  BY DEF Paths!RunCallback, Paths!Move, Paths!senders, Paths!link, Paths!TypeOK, PathLink,
    WatchComes, Watchers, Underway, ConstantsOK, Unspoken, NotCrossed, Paths!Sending,
    Paths!UnwatchDue
<1>6. UnwatchComes'
  BY DEF Paths!RunCallback, Paths!Move, Paths!senders, Paths!link, Paths!TypeOK, PathLink,
    UnwatchComes, Underway, ConstantsOK, Unspoken, NotCrossed, Watchers, Paths!Sending,
    Paths!UnwatchDue
<1>7. NotCrossed'
  BY DEF Paths!RunCallback, Paths!Move, Paths!senders, Paths!link, Paths!TypeOK, NotCrossed,
    Watchers, Paths!Sending, Paths!UnwatchDue, Paths!WatchDue
<1>8. Paths!Balanced'
  BY DEF Paths!RunCallback, Paths!Move, Paths!senders, Paths!link, Paths!TypeOK, Started,
    Paths!Balanced, Paths!Holders
<1> QED
  BY <1>1, <1>2, <1>3, <1>4, <1>5, <1>6, <1>7, <1>8

(* The callbacks have run. *)
LEMMA PathCallbacksDoneStep ==
    ASSUME ConstantsOK, PathInv, Paths!CallbacksDone
    PROVE  PathInv'
<1> USE PathSenders DEF PathInv
<1>1. Paths!TypeOK'
  <2>1. early' \in BOOLEAN /\ overlap' \in BOOLEAN /\ connected' \in BOOLEAN
    BY Zenon DEF Paths!CallbacksDone, Paths!senders, Paths!link, Paths!TypeOK
  <2> QED
    BY <2>1 DEF Paths!CallbacksDone, Paths!senders, Paths!link, Paths!TypeOK, Paths!ConnIds,
      ConstantsOK
<1>2. Started'
  BY DEF Paths!CallbacksDone, Paths!senders, Paths!link, Paths!TypeOK, Started
<1>3. PathLink'
  BY DEF Paths!CallbacksDone, Paths!senders, Paths!link, Paths!TypeOK, PathLink, Paths!ConnIds,
    ConstantsOK
<1>4. Unspoken'
  BY DEF Paths!CallbacksDone, Paths!senders, Paths!link, Paths!TypeOK, PathLink, Unspoken,
    ConstantsOK
<1>5. WatchComes'
  BY DEF Paths!CallbacksDone, Paths!senders, Paths!link, Paths!TypeOK, PathLink, WatchComes,
    Watchers, Underway, ConstantsOK, Unspoken, NotCrossed, Paths!Sending, Paths!UnwatchDue
<1>6. UnwatchComes'
  BY DEF Paths!CallbacksDone, Paths!senders, Paths!link, Paths!TypeOK, PathLink, UnwatchComes,
    Underway, ConstantsOK, Unspoken, NotCrossed, Watchers, Paths!Sending, Paths!UnwatchDue
<1>7. NotCrossed'
  BY DEF Paths!CallbacksDone, Paths!senders, Paths!link, Paths!TypeOK, NotCrossed, Watchers,
    Paths!Sending, Paths!UnwatchDue, Paths!WatchDue
<1>8. Paths!Balanced'
  BY DEF Paths!CallbacksDone, Paths!senders, Paths!link, Paths!TypeOK, Started, Paths!Balanced,
    Paths!Holders
<1> QED
  BY <1>1, <1>2, <1>3, <1>4, <1>5, <1>6, <1>7, <1>8

(* A socket dies. *)
LEMMA PathDropStep ==
    ASSUME ConstantsOK, PathInv, NEW c \in Paths!ConnIds, Paths!Drop(c)
    PROVE  PathInv'
<1> USE PathSenders DEF PathInv
<1>1. Paths!TypeOK'
  <2>1. early' \in BOOLEAN /\ overlap' \in BOOLEAN /\ connected' \in BOOLEAN
    BY Zenon DEF Paths!Drop, Paths!senders, Paths!link, Paths!TypeOK
  <2> QED
    BY <2>1 DEF Paths!Drop, Paths!senders, Paths!link, Paths!TypeOK, Paths!ConnIds, ConstantsOK
<1>2. Started'
  BY DEF Paths!Drop, Paths!senders, Paths!link, Paths!TypeOK, Started
<1>3. PathLink'
  BY DEF Paths!Drop, Paths!senders, Paths!link, Paths!TypeOK, PathLink, Paths!ConnIds, ConstantsOK
<1>4. Unspoken'
  BY DEF Paths!Drop, Paths!senders, Paths!link, Paths!TypeOK, PathLink, Unspoken, ConstantsOK
<1>5. WatchComes'
  BY DEF Paths!Drop, Paths!senders, Paths!link, Paths!TypeOK, PathLink, WatchComes, Watchers,
    Underway, ConstantsOK, Unspoken, NotCrossed, Paths!Sending, Paths!UnwatchDue
<1>6. UnwatchComes'
  BY DEF Paths!Drop, Paths!senders, Paths!link, Paths!TypeOK, PathLink, UnwatchComes, Underway,
    ConstantsOK, Unspoken, NotCrossed, Watchers, Paths!Sending, Paths!UnwatchDue
<1>7. NotCrossed'
  BY DEF Paths!Drop, Paths!senders, Paths!link, Paths!TypeOK, NotCrossed, Watchers, Paths!Sending,
    Paths!UnwatchDue, Paths!WatchDue
<1>8. Paths!Balanced'
  BY DEF Paths!Drop, Paths!senders, Paths!link, Paths!TypeOK, Started, Paths!Balanced,
    Paths!Holders
<1> QED
  BY <1>1, <1>2, <1>3, <1>4, <1>5, <1>6, <1>7, <1>8

(* The read fails. *)
LEMMA PathReadFailsStep ==
    ASSUME ConstantsOK, PathInv, Paths!ReadFails
    PROVE  PathInv'
<1> USE PathSenders DEF PathInv
<1>1. Paths!TypeOK'
  <2>1. early' \in BOOLEAN /\ overlap' \in BOOLEAN /\ connected' \in BOOLEAN
    BY Zenon DEF Paths!ReadFails, Paths!senders, Paths!link, Paths!TypeOK
  <2> QED
    BY <2>1 DEF Paths!ReadFails, Paths!senders, Paths!link, Paths!TypeOK, Paths!ConnIds,
      ConstantsOK
<1>2. Started'
  BY DEF Paths!ReadFails, Paths!senders, Paths!link, Paths!TypeOK, Started
<1>3. PathLink'
  BY DEF Paths!ReadFails, Paths!senders, Paths!link, Paths!TypeOK, PathLink, Paths!ConnIds,
    ConstantsOK
<1>4. Unspoken'
  BY DEF Paths!ReadFails, Paths!senders, Paths!link, Paths!TypeOK, PathLink, Unspoken, ConstantsOK
<1>5. WatchComes'
  BY DEF Paths!ReadFails, Paths!senders, Paths!link, Paths!TypeOK, PathLink, WatchComes, Watchers,
    Underway, ConstantsOK, Unspoken, NotCrossed, Paths!Sending, Paths!UnwatchDue
<1>6. UnwatchComes'
  BY DEF Paths!ReadFails, Paths!senders, Paths!link, Paths!TypeOK, PathLink, UnwatchComes,
    Underway, ConstantsOK, Unspoken, NotCrossed, Watchers, Paths!Sending, Paths!UnwatchDue
<1>7. NotCrossed'
  BY DEF Paths!ReadFails, Paths!senders, Paths!link, Paths!TypeOK, NotCrossed, Watchers,
    Paths!Sending, Paths!UnwatchDue, Paths!WatchDue
<1>8. Paths!Balanced'
  BY DEF Paths!ReadFails, Paths!senders, Paths!link, Paths!TypeOK, Started, Paths!Balanced,
    Paths!Holders
<1> QED
  BY <1>1, <1>2, <1>3, <1>4, <1>5, <1>6, <1>7, <1>8

(* The attempt ends. *)
LEMMA PathEndAttemptStep ==
    ASSUME ConstantsOK, PathInv, Paths!EndAttempt
    PROVE  PathInv'
<1> USE PathSenders DEF PathInv
<1>1. Paths!TypeOK'
  <2>1. early' \in BOOLEAN /\ overlap' \in BOOLEAN /\ connected' \in BOOLEAN
    BY Zenon DEF Paths!EndAttempt, Paths!senders, Paths!link, Paths!TypeOK
  <2> QED
    BY <2>1 DEF Paths!EndAttempt, Paths!senders, Paths!link, Paths!TypeOK, Paths!ConnIds,
      ConstantsOK
<1>2. Started'
  BY DEF Paths!EndAttempt, Paths!senders, Paths!link, Paths!TypeOK, Started
<1>3. PathLink'
  BY DEF Paths!EndAttempt, Paths!senders, Paths!link, Paths!TypeOK, PathLink, Paths!ConnIds,
    ConstantsOK
<1>4. Unspoken'
  BY DEF Paths!EndAttempt, Paths!senders, Paths!link, Paths!TypeOK, PathLink, Unspoken,
    ConstantsOK
<1>5. WatchComes'
  BY DEF Paths!EndAttempt, Paths!senders, Paths!link, Paths!TypeOK, PathLink, WatchComes,
    Watchers, Underway, ConstantsOK, Unspoken, NotCrossed, Paths!Sending, Paths!UnwatchDue
<1>6. UnwatchComes'
  BY DEF Paths!EndAttempt, Paths!senders, Paths!link, Paths!TypeOK, PathLink, UnwatchComes,
    Underway, ConstantsOK, Unspoken, NotCrossed, Watchers, Paths!Sending, Paths!UnwatchDue
<1>7. NotCrossed'
  BY DEF Paths!EndAttempt, Paths!senders, Paths!link, Paths!TypeOK, NotCrossed, Watchers,
    Paths!Sending, Paths!UnwatchDue, Paths!WatchDue
<1>8. Paths!Balanced'
  BY DEF Paths!EndAttempt, Paths!senders, Paths!link, Paths!TypeOK, Started, Paths!Balanced,
    Paths!Holders
<1> QED
  BY <1>1, <1>2, <1>3, <1>4, <1>5, <1>6, <1>7, <1>8

(* All of them. *)
LEMMA PathKept ==
    ASSUME ConstantsOK, PathInv, [Paths!Next]_(Paths!vars)
    PROVE  PathInv'
<1>1. CASE \E s \in Owners : Paths!StreamStep(s)
  BY <1>1, PathWatchStep, PathWatchPathStep, PathRequestPathSnapshotStep, PathLookAtStatusStep,
     PathWatchPathReturnsStep, PathCloseStep DEF Paths!StreamStep
<1>2. CASE \E p \in Paths!Senders : Paths!Send(p) \/ Paths!Write(p)
  BY <1>2, PathSendStep, PathWriteStep
<1>3. CASE Paths!ConnStep
  BY <1>3, PathConnectStep, PathOnAuthenticatedStep, PathResubscribeStep, PathRunCallbackStep,
     PathCallbacksDoneStep, PathDropStep, PathReadFailsStep, PathEndAttemptStep
     DEF Paths!ConnStep
<1>4. CASE UNCHANGED Paths!vars
  <2>1. /\ Paths!TypeOK' /\ Started' /\ PathLink' /\ Unspoken'
    BY <1>4 DEF PathInv, Paths!vars, Paths!senders, Paths!link, Paths!TypeOK, Started, PathLink,
      Unspoken
  <2>2. WatchComes' /\ UnwatchComes' /\ NotCrossed'
    BY <1>4 DEF PathInv, Paths!vars, Paths!senders, Paths!link, WatchComes, UnwatchComes,
      Underway,
      NotCrossed, Paths!UnwatchDue, Paths!Sending
  <2>3. Paths!Balanced'
    BY <1>4 DEF PathInv, Paths!vars, Paths!senders, Paths!link, Paths!Balanced, Paths!Holders
  <2> QED
    BY <2>1, <2>2, <2>3 DEF PathInv
<1> QED
  BY <1>1, <1>2, <1>3, <1>4 DEF Paths!Next

LEMMA PathInitInv == ConstantsOK /\ Paths!Init => PathInv
<1> SUFFICES ASSUME ConstantsOK, Paths!Init PROVE PathInv
  OBVIOUS
<1> USE DEF Paths!Init
<1>1. early \in BOOLEAN /\ overlap \in BOOLEAN /\ connected \in BOOLEAN
  BY Zenon
<1>2. Paths!TypeOK
  BY <1>1 DEF Paths!TypeOK, ConstantsOK
<1>3. Started /\ PathLink /\ Unspoken /\ WatchComes /\ UnwatchComes
  BY PathSenders DEF Started, PathLink, Unspoken, WatchComes, UnwatchComes, ConstantsOK
<1>4. NotCrossed
  BY PathSenders DEF NotCrossed, Watchers, Paths!Sending, Paths!UnwatchDue
<1>5. Paths!Balanced
  <2>1. Paths!Holders = {}
    BY DEF Paths!Holders
  <2> QED
    BY <2>1, FS_EmptySet, PathCardinality DEF Paths!Balanced
<1> QED
  BY <1>2, <1>3, <1>4, <1>5 DEF PathInv

(* Whenever nothing is on its way. *)
LEMMA PathQuiet ==
    ASSUME ConstantsOK, PathInv
    PROVE  Paths!Watched /\ Paths!Unwatched
<1> SUFFICES ASSUME Paths!Quiet
             PROVE  /\ Paths!Holders # {} => conn \in server
                    /\ Paths!Holders = {} => conn \notin server
  BY Zenon DEF Paths!Watched, Paths!Unwatched
<1>1. conn \in alive /\ rpc = "serve" /\ ~overlap /\ ~early
  BY DEF Paths!Quiet
<1>2. \A p \in Watchers \cup Paths!Closers : ~Underway(p)
  BY PathSenders DEF Paths!Quiet, Paths!Sending, Underway, Watchers
<1>3. refs = Cardinality(Paths!Holders) /\ IsFiniteSet(Paths!Holders) /\ refs \in Nat
  BY <1>1, FS_Subset, PathCardinality
  DEF PathInv, Paths!TypeOK, Paths!Balanced, Paths!Holders, ConstantsOK
<1>4. Paths!Holders = {} <=> refs = 0
  BY <1>3, FS_EmptySet
<1> QED
  BY <1>1, <1>2, <1>3, <1>4 DEF PathInv, WatchComes, UnwatchComes

(* watchPath and unwatchPath, for any number of streams on the path and of *)
(* connections, without rotation: unless a stream was closed before its    *)
(* goroutine took the reference, pathRefs counts the streams that hold the *)
(* path; and once every message is out, if no "watch" and "unwatch" were   *)
(* on their way together either, the server watches it exactly while one   *)
(* does.                                                                   *)
THEOREM PathsAreSound == Spec => []PathsSound
<1> DEFINE Inv == part = "paths" => PathInv
<1>1. Init => Inv
  BY ConstantsOK, PathInitInv DEF Init
<1>2. Inv /\ [Next]_vars => Inv'
  <2> SUFFICES ASSUME Inv, [Next]_vars, part' = "paths" PROVE PathInv'
    OBVIOUS
  <2>1. part = "paths" /\ [Paths!Next]_(Paths!vars)
    BY DEF Next, vars, EventsNext, MidsNext, CandlesNext, DeliveryNext, PathsNext, BaseNext,
      link, calls, later, pathsOnly, Paths!vars, Paths!senders, Paths!link
  <2> QED
    BY <2>1, ConstantsOK, PathKept
<1>3. Inv => PathsSound
  BY ConstantsOK, PathQuiet DEF PathInv, PathsSound
<1> QED
  BY <1>1, <1>2, <1>3, PTL DEF Spec

-----------------------------------------------------------------------------
(* MarketSubscriptions: acquire and release.                               *)

(* A market-data feed, with any keys, owners and connections, that counts  *)
(* its owners or marks what they hold.                                     *)
FeedOK(keys, counted, conns) ==
    /\ counted \in BOOLEAN
    /\ IsFiniteSet(Owners) /\ Reader \notin Owners
    /\ conns \in Nat /\ None \notin Nat

(* What a sync sends is of the feed's keys. *)
LEMMA MarketDesired ==
    ASSUME NEW keys, NEW counted, NEW conns, FeedOK(keys, counted, conns)
    PROVE  Market(keys, counted, conns)!Desired \in SUBSET keys
BY DEF FeedOK, Market!Desired, Market!Held, Market!Pairs

(* The cardinality of the module is that of FiniteSets. *)
LEMMA MarketCardinality ==
    ASSUME NEW keys, NEW counted, NEW conns, NEW S
    PROVE  Market(keys, counted, conns)!Cardinality(S) = Cardinality(S)
BY DEF Market!Cardinality, Cardinality

(* acquireMids, acquireTrades, acquireCandles, acquireOI. *)
LEMMA MarketAcquireStep ==
    ASSUME NEW keys, NEW counted, NEW conns, FeedOK(keys, counted, conns),
           Market(keys, counted, conns)!MarketInv,
           NEW o \in Owners, NEW ks \in SUBSET keys,
           Market(keys, counted, conns)!Acquire(o, ks)
    PROVE  Market(keys, counted, conns)!MarketInv'
<1> USE DEF Market!MarketInv, Market!Senders, FeedOK
<1>1. Market(keys, counted, conns)!TypeOK'
  BY DEF Market!Acquire, Market!BeginCall, Market!Move, Market!Incremented, Market!Marked,
    Market!Busy, Market!calls, Market!link, Market!TypeOK, Market!ConnIds
<1>2. Market(keys, counted, conns)!Linked'
  BY DEF Market!Acquire, Market!BeginCall, Market!Move, Market!Incremented, Market!Marked,
    Market!Busy, Market!calls, Market!link, Market!TypeOK, Market!Linked, Market!ConnIds
<1>3. Market(keys, counted, conns)!Unspoken'
  BY DEF Market!Acquire, Market!BeginCall, Market!Move, Market!Incremented, Market!Marked,
    Market!Busy, Market!calls, Market!link, Market!TypeOK, Market!Linked, Market!Unspoken,
    Market!ConnIds
<1>4. Market(keys, counted, conns)!NoneStale'
  BY DEF Market!Acquire, Market!BeginCall, Market!Move, Market!Incremented, Market!Marked,
    Market!Busy, Market!calls, Market!link, Market!TypeOK, Market!NoneStale, Market!Desired,
    Market!Held, Market!Pairs
<1>5. Market(keys, counted, conns)!NothingElse'
  BY DEF Market!Acquire, Market!BeginCall, Market!Move, Market!Incremented, Market!Marked,
    Market!Busy, Market!calls, Market!link, Market!TypeOK, Market!Linked, Market!Unspoken,
    Market!NoneStale, Market!NothingElse, Market!ConnIds, Market!Desired, Market!Held,
    Market!Pairs
<1>6. Market(keys, counted, conns)!ListComes'
  BY DEF Market!Acquire, Market!BeginCall, Market!Move, Market!Incremented, Market!Marked,
    Market!Busy, Market!calls, Market!link, Market!TypeOK, Market!Linked, Market!NoneStale,
    Market!NothingElse, Market!ListComes, Market!Underway, Market!ConnIds, Market!Desired,
    Market!Held, Market!Pairs
<1>7. Market(keys, counted, conns)!Accounted'
  <2>0. counted => wiped' = {}
    BY DEF Market!Accounted, Market!Acquire
  <2> SUFFICES ASSUME NEW k \in keys
               PROVE  IF counted THEN refs'[k] = Cardinality(Market(keys, counted, conns)!HoldersOf(k)')
                      ELSE refs'[k] > 0 <=> /\ Market(keys, counted, conns)!HoldersOf(k)' # {}
                                            /\ k \notin wiped'
    BY <2>0, MarketCardinality DEF Market!Accounted
  <2>1. CASE k \notin ks
    <3>1. /\ refs'[k] = refs[k] /\ (k \in wiped' <=> k \in wiped)
          /\ Market(keys, counted, conns)!HoldersOf(k)' =
                  Market(keys, counted, conns)!HoldersOf(k)
      BY <2>1 DEF Market!Acquire, Market!Incremented, Market!Marked, Market!TypeOK,
        Market!HoldersOf
    <3> QED
      BY <3>1, MarketCardinality DEF Market!Accounted
  <2>2. CASE k \in ks
    <3>1. /\ o \notin Market(keys, counted, conns)!HoldersOf(k)
          /\ Market(keys, counted, conns)!HoldersOf(k)' =
                  Market(keys, counted, conns)!HoldersOf(k) \cup {o}
      BY <2>2 DEF Market!Acquire, Market!TypeOK, Market!HoldersOf
    <3>2. IsFiniteSet(Market(keys, counted, conns)!HoldersOf(k))
      BY FS_Subset DEF Market!HoldersOf
    <3>3. CASE counted
      <4>1. /\ refs'[k] = refs[k] + 1
            /\ refs[k] = Cardinality(Market(keys, counted, conns)!HoldersOf(k))
        BY <2>2, <3>3, MarketCardinality DEF Market!Acquire, Market!Incremented, Market!Accounted
      <4>2. Cardinality(Market(keys, counted, conns)!HoldersOf(k)') =
                Cardinality(Market(keys, counted, conns)!HoldersOf(k)) + 1
        BY <3>1, <3>2, FS_AddElement
      <4>3. refs'[k] = Cardinality(Market(keys, counted, conns)!HoldersOf(k)')
        BY <4>1, <4>2
      <4> QED
        BY <3>3, <4>3
    <3>4. CASE ~counted
      <4>1. refs'[k] = 1 /\ k \notin wiped'
        BY <2>2, <3>4 DEF Market!Acquire, Market!Marked
      <4> QED
        BY <3>1, <3>4, <4>1
    <3> QED
      BY <3>3, <3>4
  <2> QED
    BY <2>1, <2>2
<1> QED
  BY <1>1, <1>2, <1>3, <1>4, <1>5, <1>6, <1>7

(* releaseMids, releaseTrades, releaseCandles, releaseOI. *)
LEMMA MarketReleaseStep ==
    ASSUME NEW keys, NEW counted, NEW conns, FeedOK(keys, counted, conns),
           Market(keys, counted, conns)!MarketInv,
           NEW o \in Owners, NEW ks \in SUBSET keys,
           Market(keys, counted, conns)!Release(o, ks)
    PROVE  Market(keys, counted, conns)!MarketInv'
<1> USE DEF Market!MarketInv, Market!Senders, FeedOK
<1>1. Market(keys, counted, conns)!TypeOK'
  BY DEF Market!Release, Market!BeginCall, Market!Move, Market!Decremented, Market!Unmarked,
    Market!Busy, Market!calls, Market!link, Market!TypeOK, Market!ConnIds
<1>2. Market(keys, counted, conns)!Linked'
  BY DEF Market!Release, Market!BeginCall, Market!Move, Market!Decremented, Market!Unmarked,
    Market!Busy, Market!calls, Market!link, Market!TypeOK, Market!Linked, Market!ConnIds
<1>3. Market(keys, counted, conns)!Unspoken'
  BY DEF Market!Release, Market!BeginCall, Market!Move, Market!Decremented, Market!Unmarked,
    Market!Busy, Market!calls, Market!link, Market!TypeOK, Market!Linked, Market!Unspoken,
    Market!ConnIds
<1>4. Market(keys, counted, conns)!NoneStale'
  BY DEF Market!Release, Market!BeginCall, Market!Move, Market!Decremented, Market!Unmarked,
    Market!Busy, Market!calls, Market!link, Market!TypeOK, Market!NoneStale, Market!Desired,
    Market!Held, Market!Pairs
<1>5. Market(keys, counted, conns)!NothingElse'
  BY DEF Market!Release, Market!BeginCall, Market!Move, Market!Decremented, Market!Unmarked,
    Market!Busy, Market!calls, Market!link, Market!TypeOK, Market!Linked, Market!Unspoken,
    Market!NoneStale, Market!NothingElse, Market!ConnIds, Market!Desired, Market!Held,
    Market!Pairs
<1>6. Market(keys, counted, conns)!ListComes'
  BY DEF Market!Release, Market!BeginCall, Market!Move, Market!Decremented, Market!Unmarked,
    Market!Busy, Market!calls, Market!link, Market!TypeOK, Market!Linked, Market!NoneStale,
    Market!NothingElse, Market!ListComes, Market!Underway, Market!ConnIds, Market!Desired,
    Market!Held, Market!Pairs
<1>7. Market(keys, counted, conns)!Accounted'
  <2>0. counted => wiped' = {}
    BY DEF Market!Accounted, Market!Release
  <2> SUFFICES ASSUME NEW k \in keys
               PROVE  IF counted THEN refs'[k] = Cardinality(Market(keys, counted, conns)!HoldersOf(k)')
                      ELSE refs'[k] > 0 <=> /\ Market(keys, counted, conns)!HoldersOf(k)' # {}
                                            /\ k \notin wiped'
    BY <2>0, MarketCardinality DEF Market!Accounted
  <2>1. CASE k \notin ks
    <3>1. /\ refs'[k] = refs[k] /\ (k \in wiped' <=> k \in wiped)
          /\ Market(keys, counted, conns)!HoldersOf(k)' =
                  Market(keys, counted, conns)!HoldersOf(k)
      BY <2>1 DEF Market!Release, Market!Decremented, Market!Unmarked, Market!TypeOK,
        Market!HoldersOf
    <3> QED
      BY <3>1, MarketCardinality DEF Market!Accounted
  <2>2. CASE k \in ks
    <3>1. /\ o \in Market(keys, counted, conns)!HoldersOf(k)
          /\ Market(keys, counted, conns)!HoldersOf(k)' =
                  Market(keys, counted, conns)!HoldersOf(k) \ {o}
      BY <2>2 DEF Market!Release, Market!TypeOK, Market!HoldersOf
    <3>2. IsFiniteSet(Market(keys, counted, conns)!HoldersOf(k))
      BY FS_Subset DEF Market!HoldersOf
    <3>3. CASE counted
      <4>1. refs[k] = Cardinality(Market(keys, counted, conns)!HoldersOf(k))
        BY <3>3, MarketCardinality DEF Market!Accounted
      <4>2. /\ Cardinality(Market(keys, counted, conns)!HoldersOf(k)') =
                Cardinality(Market(keys, counted, conns)!HoldersOf(k)) - 1
            /\ Cardinality(Market(keys, counted, conns)!HoldersOf(k)') \in Nat
        BY <3>1, <3>2, FS_RemoveElement, FS_CardinalityType
      <4>3. refs'[k] = IF refs[k] <= 1 THEN 0 ELSE refs[k] - 1
        BY <2>2, <3>3 DEF Market!Release, Market!Decremented
      <4>4. refs[k] \in Nat
        BY DEF Market!TypeOK
      <4>5. refs'[k] = Cardinality(Market(keys, counted, conns)!HoldersOf(k)')
        BY <4>1, <4>2, <4>3, <4>4
      <4> QED
        BY <3>3, <4>5
    <3>4. CASE ~counted
      <4>1. refs'[k] = 0
        BY <2>2, <3>4 DEF Market!Release, Market!Unmarked
      <4>2. Market(keys, counted, conns)!HoldersOf(k)' = {} \/ k \in wiped'
        <5> SUFFICES ASSUME NEW h \in Market(keys, counted, conns)!HoldersOf(k)'
                     PROVE  k \in wiped'
          OBVIOUS
        <5>1. h \in Owners \ {o} /\ k \in owned[h]
          BY <3>1 DEF Market!HoldersOf
        <5> QED
          BY <2>2, <3>4, <5>1 DEF Market!Release
      <4> QED
        BY <3>4, <4>1, <4>2
    <3> QED
      BY <3>3, <3>4
  <2> QED
    BY <2>1, <2>2
<1> QED
  BY <1>1, <1>2, <1>3, <1>4, <1>5, <1>6, <1>7

(* syncMids, syncTrades, syncCandles, syncOI. *)
LEMMA MarketSyncStep ==
    ASSUME NEW keys, NEW counted, NEW conns, FeedOK(keys, counted, conns),
           Market(keys, counted, conns)!MarketInv,
           NEW o \in Owners,
           Market(keys, counted, conns)!Sync(o)
    PROVE  Market(keys, counted, conns)!MarketInv'
<1> USE DEF Market!MarketInv, Market!Senders, FeedOK
<1>1. /\ Market(keys, counted, conns)!Desired' = Market(keys, counted, conns)!Desired
      /\ refs' = refs /\ owned' = owned /\ wiped' = wiped
  BY DEF Market!Sync, Market!calls, Market!Desired, Market!Held, Market!Pairs
<1>2. Market(keys, counted, conns)!Desired \in SUBSET keys
  BY MarketDesired
<1>3. Market(keys, counted, conns)!TypeOK'
  BY <1>1, <1>2 DEF Market!Sync, Market!Move, Market!calls, Market!link, Market!TypeOK,
    Market!ConnIds
<1>4. Market(keys, counted, conns)!Linked'
  BY <1>1, <1>2 DEF Market!Sync, Market!Move, Market!calls, Market!link, Market!TypeOK,
    Market!Linked, Market!ConnIds
<1>5. Market(keys, counted, conns)!Unspoken'
  BY <1>1, <1>2 DEF Market!Sync, Market!Move, Market!calls, Market!link, Market!TypeOK,
    Market!Linked, Market!Unspoken, Market!ConnIds
<1>6. Market(keys, counted, conns)!NoneStale'
  BY <1>1, <1>2 DEF Market!Sync, Market!Move, Market!calls, Market!link, Market!TypeOK,
    Market!NoneStale
<1>7. Market(keys, counted, conns)!NothingElse'
  BY <1>1, <1>2 DEF Market!Sync, Market!Move, Market!calls, Market!link, Market!TypeOK,
    Market!Linked, Market!Unspoken, Market!NoneStale, Market!NothingElse, Market!ConnIds
<1>8. Market(keys, counted, conns)!ListComes'
  BY <1>1, <1>2 DEF Market!Sync, Market!Move, Market!calls, Market!link, Market!TypeOK,
    Market!Linked, Market!NoneStale, Market!NothingElse, Market!ListComes, Market!Underway,
    Market!ConnIds
<1>9. Market(keys, counted, conns)!Accounted'
  BY <1>1 DEF Market!Accounted, Market!HoldersOf
<1> QED
  BY <1>3, <1>4, <1>5, <1>6, <1>7, <1>8, <1>9

(* send picks the connection. *)
LEMMA MarketSendStep ==
    ASSUME NEW keys, NEW counted, NEW conns, FeedOK(keys, counted, conns),
           Market(keys, counted, conns)!MarketInv,
           NEW o \in Owners,
           Market(keys, counted, conns)!Send(o)
    PROVE  Market(keys, counted, conns)!MarketInv'
<1> USE DEF Market!MarketInv, Market!Senders, FeedOK
<1>1. /\ Market(keys, counted, conns)!Desired' = Market(keys, counted, conns)!Desired
      /\ refs' = refs /\ owned' = owned /\ wiped' = wiped
  BY DEF Market!Send, Market!calls, Market!Desired, Market!Held, Market!Pairs
<1>2. Market(keys, counted, conns)!Desired \in SUBSET keys
  BY MarketDesired
<1>3. Market(keys, counted, conns)!TypeOK'
  <2>1. CASE conn # None /\ connected
    BY <1>1, <2>1 DEF Market!Send, Market!Move, Market!link, Market!TypeOK
  <2>2. CASE ~(conn # None /\ connected)
    BY <1>1, <2>2 DEF Market!Send, Market!Return, Market!Move, Market!link, Market!TypeOK
  <2> QED
    BY <2>1, <2>2
<1>4. Market(keys, counted, conns)!Linked'
  BY <1>1, <1>2 DEF Market!Send, Market!Return, Market!Move, Market!calls, Market!link,
    Market!TypeOK, Market!Linked, Market!ConnIds
<1>5. Market(keys, counted, conns)!Unspoken'
  BY <1>1, <1>2 DEF Market!Send, Market!Return, Market!Move, Market!calls, Market!link,
    Market!TypeOK, Market!Linked, Market!Unspoken, Market!ConnIds
<1>6. Market(keys, counted, conns)!NoneStale'
  BY <1>1, <1>2 DEF Market!Send, Market!Return, Market!Move, Market!calls, Market!link,
    Market!TypeOK, Market!NoneStale
<1>7. Market(keys, counted, conns)!NothingElse'
  BY <1>1, <1>2 DEF Market!Send, Market!Return, Market!Move, Market!calls, Market!link,
    Market!TypeOK, Market!Linked, Market!Unspoken, Market!NoneStale, Market!NothingElse,
    Market!ConnIds
<1>8. Market(keys, counted, conns)!ListComes'
  BY <1>1, <1>2 DEF Market!Send, Market!Return, Market!Move, Market!calls, Market!link,
    Market!TypeOK, Market!Linked, Market!NoneStale, Market!NothingElse, Market!ListComes,
    Market!Underway, Market!ConnIds
<1>9. Market(keys, counted, conns)!Accounted'
  BY <1>1 DEF Market!Accounted, Market!HoldersOf
<1> QED
  BY <1>3, <1>4, <1>5, <1>6, <1>7, <1>8, <1>9

(* The list is written. *)
LEMMA MarketWriteStep ==
    ASSUME NEW keys, NEW counted, NEW conns, FeedOK(keys, counted, conns),
           Market(keys, counted, conns)!MarketInv,
           NEW w \in Market(keys, counted, conns)!Senders,
           Market(keys, counted, conns)!Write(w)
    PROVE  Market(keys, counted, conns)!MarketInv'
<1> USE DEF Market!MarketInv, Market!Senders, FeedOK
<1>1. /\ Market(keys, counted, conns)!Desired' = Market(keys, counted, conns)!Desired
      /\ refs' = refs /\ owned' = owned /\ wiped' = wiped
  BY DEF Market!Write, Market!calls, Market!Desired, Market!Held, Market!Pairs
<1>2. Market(keys, counted, conns)!Desired \in SUBSET keys
  BY MarketDesired
<1>3. Market(keys, counted, conns)!TypeOK'
  BY <1>1, <1>2 DEF Market!Write, Market!Return, Market!Move, Market!calls, Market!link,
    Market!TypeOK, Market!ConnIds
<1>4. Market(keys, counted, conns)!Linked'
  BY <1>1, <1>2 DEF Market!Write, Market!Return, Market!Move, Market!calls, Market!link,
    Market!TypeOK, Market!Linked, Market!ConnIds
<1>5. Market(keys, counted, conns)!Unspoken'
  BY <1>1, <1>2 DEF Market!Write, Market!Return, Market!Move, Market!calls, Market!link,
    Market!TypeOK, Market!Linked, Market!Unspoken, Market!ConnIds
<1>6. Market(keys, counted, conns)!NoneStale'
  BY <1>1, <1>2 DEF Market!Write, Market!Return, Market!Move, Market!calls, Market!link,
    Market!TypeOK, Market!NoneStale
<1>7. Market(keys, counted, conns)!NothingElse'
  BY <1>1, <1>2 DEF Market!Write, Market!Return, Market!Move, Market!calls, Market!link,
    Market!TypeOK, Market!Linked, Market!Unspoken, Market!NoneStale, Market!NothingElse,
    Market!ConnIds
<1>8. Market(keys, counted, conns)!ListComes'
  BY <1>1, <1>2 DEF Market!Write, Market!Return, Market!Move, Market!calls, Market!link,
    Market!TypeOK, Market!Linked, Market!NoneStale, Market!NothingElse, Market!ListComes,
    Market!Underway, Market!ConnIds
<1>9. Market(keys, counted, conns)!Accounted'
  BY <1>1 DEF Market!Accounted, Market!HoldersOf
<1> QED
  BY <1>3, <1>4, <1>5, <1>6, <1>7, <1>8, <1>9

(* A new connection. *)
LEMMA MarketConnectStep ==
    ASSUME NEW keys, NEW counted, NEW conns, FeedOK(keys, counted, conns),
           Market(keys, counted, conns)!MarketInv,
           Market(keys, counted, conns)!Connect
    PROVE  Market(keys, counted, conns)!MarketInv'
<1> USE DEF Market!MarketInv, Market!Senders, FeedOK
<1>1. /\ Market(keys, counted, conns)!Desired' = Market(keys, counted, conns)!Desired
      /\ refs' = refs /\ owned' = owned /\ wiped' = wiped
  BY DEF Market!Connect, Market!calls, Market!Desired, Market!Held, Market!Pairs
<1>2. Market(keys, counted, conns)!Desired \in SUBSET keys
  BY MarketDesired
<1>3. Market(keys, counted, conns)!TypeOK'
  BY <1>1, <1>2 DEF Market!Connect, Market!Busy, Market!calls, Market!link, Market!TypeOK,
    Market!ConnIds
<1>4. Market(keys, counted, conns)!Linked'
  BY <1>1, <1>2 DEF Market!Connect, Market!Busy, Market!calls, Market!link, Market!TypeOK,
    Market!Linked, Market!ConnIds
<1>5. Market(keys, counted, conns)!Unspoken'
  BY <1>1, <1>2 DEF Market!Connect, Market!Busy, Market!calls, Market!link, Market!TypeOK,
    Market!Linked, Market!Unspoken, Market!ConnIds
<1>6. Market(keys, counted, conns)!NoneStale'
  BY <1>1, <1>2 DEF Market!Connect, Market!Busy, Market!calls, Market!link, Market!TypeOK,
    Market!NoneStale
<1>7. Market(keys, counted, conns)!NothingElse'
  BY <1>1, <1>2 DEF Market!Connect, Market!Busy, Market!calls, Market!link, Market!TypeOK,
    Market!Linked, Market!Unspoken, Market!NoneStale, Market!NothingElse, Market!ConnIds
<1>8. Market(keys, counted, conns)!ListComes'
  BY <1>1, <1>2 DEF Market!Connect, Market!Busy, Market!calls, Market!link, Market!TypeOK,
    Market!Linked, Market!NoneStale, Market!NothingElse, Market!ListComes, Market!Underway,
    Market!ConnIds
<1>9. Market(keys, counted, conns)!Accounted'
  BY <1>1 DEF Market!Accounted, Market!HoldersOf
<1> QED
  BY <1>3, <1>4, <1>5, <1>6, <1>7, <1>8, <1>9

(* onAuthenticated. *)
LEMMA MarketOnAuthenticatedStep ==
    ASSUME NEW keys, NEW counted, NEW conns, FeedOK(keys, counted, conns),
           Market(keys, counted, conns)!MarketInv,
           Market(keys, counted, conns)!OnAuthenticated
    PROVE  Market(keys, counted, conns)!MarketInv'
<1> USE DEF Market!MarketInv, Market!Senders, FeedOK
<1>1. /\ Market(keys, counted, conns)!Desired' = Market(keys, counted, conns)!Desired
      /\ refs' = refs /\ owned' = owned /\ wiped' = wiped
  BY DEF Market!OnAuthenticated, Market!calls, Market!Desired, Market!Held, Market!Pairs
<1>2. Market(keys, counted, conns)!Desired \in SUBSET keys
  BY MarketDesired
<1>3. Market(keys, counted, conns)!TypeOK'
  BY <1>1, <1>2 DEF Market!OnAuthenticated, Market!calls, Market!link, Market!TypeOK,
    Market!ConnIds
<1>4. Market(keys, counted, conns)!Linked'
  BY <1>1, <1>2 DEF Market!OnAuthenticated, Market!calls, Market!link, Market!TypeOK,
    Market!Linked, Market!ConnIds
<1>5. Market(keys, counted, conns)!Unspoken'
  BY <1>1, <1>2 DEF Market!OnAuthenticated, Market!calls, Market!link, Market!TypeOK,
    Market!Linked, Market!Unspoken, Market!ConnIds
<1>6. Market(keys, counted, conns)!NoneStale'
  BY <1>1, <1>2 DEF Market!OnAuthenticated, Market!calls, Market!link, Market!TypeOK,
    Market!NoneStale
<1>7. Market(keys, counted, conns)!NothingElse'
  BY <1>1, <1>2 DEF Market!OnAuthenticated, Market!calls, Market!link, Market!TypeOK,
    Market!Linked, Market!Unspoken, Market!NoneStale, Market!NothingElse, Market!ConnIds
<1>8. Market(keys, counted, conns)!ListComes'
  BY <1>1, <1>2 DEF Market!OnAuthenticated, Market!calls, Market!link, Market!TypeOK,
    Market!Linked, Market!NoneStale, Market!NothingElse, Market!ListComes, Market!Underway,
    Market!ConnIds
<1>9. Market(keys, counted, conns)!Accounted'
  BY <1>1 DEF Market!Accounted, Market!HoldersOf
<1> QED
  BY <1>3, <1>4, <1>5, <1>6, <1>7, <1>8, <1>9

(* resubscribe. *)
LEMMA MarketResubscribeStep ==
    ASSUME NEW keys, NEW counted, NEW conns, FeedOK(keys, counted, conns),
           Market(keys, counted, conns)!MarketInv,
           Market(keys, counted, conns)!Resubscribe
    PROVE  Market(keys, counted, conns)!MarketInv'
<1> USE DEF Market!MarketInv, Market!Senders, FeedOK
<1>1. /\ Market(keys, counted, conns)!Desired' = Market(keys, counted, conns)!Desired
      /\ refs' = refs /\ owned' = owned /\ wiped' = wiped
  BY DEF Market!Resubscribe, Market!calls, Market!Desired, Market!Held, Market!Pairs
<1>2. Market(keys, counted, conns)!Desired \in SUBSET keys
  BY MarketDesired
<1>3. Market(keys, counted, conns)!TypeOK'
  BY <1>1, <1>2 DEF Market!Resubscribe, Market!Reissued, Market!Move, Market!calls, Market!link,
    Market!TypeOK, Market!ConnIds
<1>4. Market(keys, counted, conns)!Linked'
  BY <1>1, <1>2 DEF Market!Resubscribe, Market!Reissued, Market!Move, Market!calls, Market!link,
    Market!TypeOK, Market!Linked, Market!ConnIds
<1>5. Market(keys, counted, conns)!Unspoken'
  BY <1>1, <1>2 DEF Market!Resubscribe, Market!Reissued, Market!Move, Market!calls, Market!link,
    Market!TypeOK, Market!Linked, Market!Unspoken, Market!ConnIds
<1>6. Market(keys, counted, conns)!NoneStale'
  BY <1>1, <1>2 DEF Market!Resubscribe, Market!Reissued, Market!Move, Market!calls, Market!link,
    Market!TypeOK, Market!NoneStale
<1>7. Market(keys, counted, conns)!NothingElse'
  BY <1>1, <1>2 DEF Market!Resubscribe, Market!Reissued, Market!Move, Market!calls, Market!link,
    Market!TypeOK, Market!Linked, Market!Unspoken, Market!NoneStale, Market!NothingElse,
    Market!ConnIds
<1>8. Market(keys, counted, conns)!ListComes'
  BY <1>1, <1>2 DEF Market!Resubscribe, Market!Reissued, Market!Move, Market!calls, Market!link,
    Market!TypeOK, Market!Linked, Market!NoneStale, Market!NothingElse, Market!ListComes,
    Market!Underway, Market!ConnIds
<1>9. Market(keys, counted, conns)!Accounted'
  BY <1>1 DEF Market!Accounted, Market!HoldersOf
<1> QED
  BY <1>3, <1>4, <1>5, <1>6, <1>7, <1>8, <1>9

(* A socket dies. *)
LEMMA MarketDropStep ==
    ASSUME NEW keys, NEW counted, NEW conns, FeedOK(keys, counted, conns),
           Market(keys, counted, conns)!MarketInv,
           NEW c \in Market(keys, counted, conns)!ConnIds,
           Market(keys, counted, conns)!Drop(c)
    PROVE  Market(keys, counted, conns)!MarketInv'
<1> USE DEF Market!MarketInv, Market!Senders, FeedOK
<1>1. /\ Market(keys, counted, conns)!Desired' = Market(keys, counted, conns)!Desired
      /\ refs' = refs /\ owned' = owned /\ wiped' = wiped
  BY DEF Market!Drop, Market!calls, Market!Desired, Market!Held, Market!Pairs
<1>2. Market(keys, counted, conns)!Desired \in SUBSET keys
  BY MarketDesired
<1>3. Market(keys, counted, conns)!TypeOK'
  BY <1>1, <1>2 DEF Market!Drop, Market!calls, Market!link, Market!TypeOK, Market!ConnIds
<1>4. Market(keys, counted, conns)!Linked'
  BY <1>1, <1>2 DEF Market!Drop, Market!calls, Market!link, Market!TypeOK, Market!Linked,
    Market!ConnIds
<1>5. Market(keys, counted, conns)!Unspoken'
  BY <1>1, <1>2 DEF Market!Drop, Market!calls, Market!link, Market!TypeOK, Market!Linked,
    Market!Unspoken, Market!ConnIds
<1>6. Market(keys, counted, conns)!NoneStale'
  BY <1>1, <1>2 DEF Market!Drop, Market!calls, Market!link, Market!TypeOK, Market!NoneStale
<1>7. Market(keys, counted, conns)!NothingElse'
  BY <1>1, <1>2 DEF Market!Drop, Market!calls, Market!link, Market!TypeOK, Market!Linked,
    Market!Unspoken, Market!NoneStale, Market!NothingElse, Market!ConnIds
<1>8. Market(keys, counted, conns)!ListComes'
  BY <1>1, <1>2 DEF Market!Drop, Market!calls, Market!link, Market!TypeOK, Market!Linked,
    Market!NoneStale, Market!NothingElse, Market!ListComes, Market!Underway, Market!ConnIds
<1>9. Market(keys, counted, conns)!Accounted'
  BY <1>1 DEF Market!Accounted, Market!HoldersOf
<1> QED
  BY <1>3, <1>4, <1>5, <1>6, <1>7, <1>8, <1>9

(* The read fails. *)
LEMMA MarketReadFailsStep ==
    ASSUME NEW keys, NEW counted, NEW conns, FeedOK(keys, counted, conns),
           Market(keys, counted, conns)!MarketInv,
           Market(keys, counted, conns)!ReadFails
    PROVE  Market(keys, counted, conns)!MarketInv'
<1> USE DEF Market!MarketInv, Market!Senders, FeedOK
<1>1. /\ Market(keys, counted, conns)!Desired' = Market(keys, counted, conns)!Desired
      /\ refs' = refs /\ owned' = owned /\ wiped' = wiped
  BY DEF Market!ReadFails, Market!calls, Market!Desired, Market!Held, Market!Pairs
<1>2. Market(keys, counted, conns)!Desired \in SUBSET keys
  BY MarketDesired
<1>3. Market(keys, counted, conns)!TypeOK'
  BY <1>1, <1>2 DEF Market!ReadFails, Market!calls, Market!link, Market!TypeOK, Market!ConnIds
<1>4. Market(keys, counted, conns)!Linked'
  BY <1>1, <1>2 DEF Market!ReadFails, Market!calls, Market!link, Market!TypeOK, Market!Linked,
    Market!ConnIds
<1>5. Market(keys, counted, conns)!Unspoken'
  BY <1>1, <1>2 DEF Market!ReadFails, Market!calls, Market!link, Market!TypeOK, Market!Linked,
    Market!Unspoken, Market!ConnIds
<1>6. Market(keys, counted, conns)!NoneStale'
  BY <1>1, <1>2 DEF Market!ReadFails, Market!calls, Market!link, Market!TypeOK, Market!NoneStale
<1>7. Market(keys, counted, conns)!NothingElse'
  BY <1>1, <1>2 DEF Market!ReadFails, Market!calls, Market!link, Market!TypeOK, Market!Linked,
    Market!Unspoken, Market!NoneStale, Market!NothingElse, Market!ConnIds
<1>8. Market(keys, counted, conns)!ListComes'
  BY <1>1, <1>2 DEF Market!ReadFails, Market!calls, Market!link, Market!TypeOK, Market!Linked,
    Market!NoneStale, Market!NothingElse, Market!ListComes, Market!Underway, Market!ConnIds
<1>9. Market(keys, counted, conns)!Accounted'
  BY <1>1 DEF Market!Accounted, Market!HoldersOf
<1> QED
  BY <1>3, <1>4, <1>5, <1>6, <1>7, <1>8, <1>9

(* The attempt ends. *)
LEMMA MarketEndAttemptStep ==
    ASSUME NEW keys, NEW counted, NEW conns, FeedOK(keys, counted, conns),
           Market(keys, counted, conns)!MarketInv,
           Market(keys, counted, conns)!EndAttempt
    PROVE  Market(keys, counted, conns)!MarketInv'
<1> USE DEF Market!MarketInv, Market!Senders, FeedOK
<1>1. /\ Market(keys, counted, conns)!Desired' = Market(keys, counted, conns)!Desired
      /\ refs' = refs /\ owned' = owned /\ wiped' = wiped
  BY DEF Market!EndAttempt, Market!calls, Market!Desired, Market!Held, Market!Pairs
<1>2. Market(keys, counted, conns)!Desired \in SUBSET keys
  BY MarketDesired
<1>3. Market(keys, counted, conns)!TypeOK'
  BY <1>1, <1>2 DEF Market!EndAttempt, Market!calls, Market!link, Market!TypeOK, Market!ConnIds
<1>4. Market(keys, counted, conns)!Linked'
  BY <1>1, <1>2 DEF Market!EndAttempt, Market!calls, Market!link, Market!TypeOK, Market!Linked,
    Market!ConnIds
<1>5. Market(keys, counted, conns)!Unspoken'
  BY <1>1, <1>2 DEF Market!EndAttempt, Market!calls, Market!link, Market!TypeOK, Market!Linked,
    Market!Unspoken, Market!ConnIds
<1>6. Market(keys, counted, conns)!NoneStale'
  BY <1>1, <1>2 DEF Market!EndAttempt, Market!calls, Market!link, Market!TypeOK, Market!NoneStale
<1>7. Market(keys, counted, conns)!NothingElse'
  BY <1>1, <1>2 DEF Market!EndAttempt, Market!calls, Market!link, Market!TypeOK, Market!Linked,
    Market!Unspoken, Market!NoneStale, Market!NothingElse, Market!ConnIds
<1>8. Market(keys, counted, conns)!ListComes'
  BY <1>1, <1>2 DEF Market!EndAttempt, Market!calls, Market!link, Market!TypeOK, Market!Linked,
    Market!NoneStale, Market!NothingElse, Market!ListComes, Market!Underway, Market!ConnIds
<1>9. Market(keys, counted, conns)!Accounted'
  BY <1>1 DEF Market!Accounted, Market!HoldersOf
<1> QED
  BY <1>3, <1>4, <1>5, <1>6, <1>7, <1>8, <1>9

(* All of them. *)
LEMMA MarketKept ==
    ASSUME NEW keys, NEW counted, NEW conns, FeedOK(keys, counted, conns),
           Market(keys, counted, conns)!MarketInv, [Market(keys, counted, conns)!Next]_(Market(keys, counted, conns)!vars)
    PROVE  Market(keys, counted, conns)!MarketInv'
<1>1. CASE \E o \in Owners : Market(keys, counted, conns)!OwnerStep(o)
  BY <1>1, MarketAcquireStep, MarketReleaseStep, MarketSyncStep, MarketSendStep
     DEF Market!OwnerStep
<1>2. CASE \E s \in Market(keys, counted, conns)!Senders : Market(keys, counted, conns)!Write(s)
  BY <1>2, MarketWriteStep
<1>3. CASE Market(keys, counted, conns)!ConnStep
  BY <1>3, MarketConnectStep, MarketOnAuthenticatedStep, MarketResubscribeStep, MarketDropStep,
     MarketReadFailsStep, MarketEndAttemptStep DEF Market!ConnStep
<1>4. CASE UNCHANGED Market(keys, counted, conns)!vars
  <2> USE <1>4 DEF Market!vars, Market!calls, Market!link, Market!MarketInv
  <2>1. /\ Market(keys, counted, conns)!Desired' = Market(keys, counted, conns)!Desired
        /\ \A k : Market(keys, counted, conns)!HoldersOf(k)' =
                  Market(keys, counted, conns)!HoldersOf(k)
    BY DEF Market!Desired, Market!Held, Market!Pairs, Market!HoldersOf
  <2>2. /\ Market(keys, counted, conns)!TypeOK' /\ Market(keys, counted, conns)!Linked'
        /\ Market(keys, counted, conns)!Unspoken'
    BY DEF Market!TypeOK, Market!Linked, Market!Unspoken
  <2>3. /\ Market(keys, counted, conns)!NoneStale'
        /\ Market(keys, counted, conns)!NothingElse'
        /\ Market(keys, counted, conns)!ListComes'
    BY <2>1 DEF Market!NoneStale, Market!NothingElse, Market!ListComes, Market!Underway
  <2>4. Market(keys, counted, conns)!Accounted'
    BY <2>1 DEF Market!Accounted
  <2> QED
    BY <2>2, <2>3, <2>4
<1> QED
  BY <1>1, <1>2, <1>3, <1>4 DEF Market!Next

LEMMA MarketInitInv ==
    ASSUME NEW keys, NEW counted, NEW conns, FeedOK(keys, counted, conns), Market(keys,
           counted, conns)!Init
    PROVE  Market(keys, counted, conns)!MarketInv
<1> USE DEF Market!Init, FeedOK
<1>1. overlap \in BOOLEAN /\ connected \in BOOLEAN
  BY Zenon
<1>2. Market(keys, counted, conns)!TypeOK
  BY <1>1 DEF Market!TypeOK, Market!Senders, Market!ConnIds
<1>3. /\ Market(keys, counted, conns)!Linked /\ Market(keys, counted, conns)!Unspoken
      /\ Market(keys, counted, conns)!NoneStale /\ Market(keys, counted, conns)!NothingElse
      /\ Market(keys, counted, conns)!ListComes
  BY DEF Market!Linked, Market!Unspoken, Market!NoneStale, Market!NothingElse, Market!ListComes,
    Market!Senders, Market!ConnIds
<1>4. Market(keys, counted, conns)!Accounted
  <2>1. \A k \in keys : refs[k] = 0 /\ Market(keys, counted, conns)!HoldersOf(k) = {}
    BY DEF Market!HoldersOf
  <2>2. \A k \in keys : refs[k] = Cardinality(Market(keys, counted, conns)!HoldersOf(k))
    BY <2>1, FS_EmptySet
  <2> QED
    BY <2>1, <2>2, MarketCardinality DEF Market!Accounted
<1> QED
  BY <1>2, <1>3, <1>4 DEF Market!MarketInv

(* Once every message is out, the server has the present list.             *)
LEMMA MarketQuiet ==
    ASSUME NEW keys, NEW counted, NEW conns, FeedOK(keys, counted, conns),
           Market(keys, counted, conns)!MarketInv, Market(keys, counted, conns)!Quiet
    PROVE  /\ server[conn] = Market(keys, counted, conns)!Desired
           /\ Market(keys, counted, conns)!Held \in SUBSET keys
           /\ \A o \in Owners : owned[o] \subseteq keys
           /\ \A k \in keys : k \in Market(keys, counted, conns)!Held <=>
                                 (\E o \in Owners : k \in owned[o]) /\ k \notin wiped
<1> USE DEF Market!MarketInv
<1>1. server[conn] = Market(keys, counted, conns)!Desired
  <2>1. \A s \in Market(keys, counted, conns)!Senders : ~Market(keys, counted, conns)!Underway(s)
    BY DEF Market!Quiet, Market!Busy, Market!Underway
  <2> QED
    BY <2>1 DEF Market!Quiet, Market!ListComes
<1>2. ASSUME NEW k \in keys
      PROVE  refs[k] > 0 <=> Market(keys, counted, conns)!HoldersOf(k) # {} /\ k \notin wiped
  <2>1. IsFiniteSet(Market(keys, counted, conns)!HoldersOf(k))
    BY FS_Subset DEF FeedOK, Market!HoldersOf
  <2>2. Cardinality(Market(keys, counted, conns)!HoldersOf(k)) > 0 <=> Market(keys, counted, conns)!HoldersOf(k) # {}
    BY <2>1, FS_EmptySet, FS_CardinalityType
  <2>3. CASE counted
    <3>1. refs[k] = Cardinality(Market(keys, counted, conns)!HoldersOf(k)) /\ wiped = {}
      BY <2>3, MarketCardinality DEF Market!Accounted
    <3> QED
      BY <2>2, <3>1
  <2>4. CASE ~counted
    BY <2>4 DEF Market!Accounted
  <2> QED
    BY <2>3, <2>4 DEF FeedOK
<1>3. Market(keys, counted, conns)!Held \in SUBSET keys /\ \A o \in Owners : owned[o] \subseteq keys
  BY DEF Market!Held, Market!TypeOK
<1> QED
  BY <1>1, <1>2, <1>3 DEF Market!Held, Market!HoldersOf

(* A feed that counts: that is what the owners hold. *)
LEMMA MarketCounts ==
    ASSUME NEW keys, NEW conns, FeedOK(keys, TRUE, conns), Market(keys, TRUE, conns)!MarketInv
    PROVE  Market(keys, TRUE, conns)!Streamed /\ Market(keys, TRUE, conns)!NothingExtra
<1> SUFFICES ASSUME Market(keys, TRUE, conns)!Quiet
             PROVE  /\ \A o \in Owners : \A k \in owned[o] : Market(keys, TRUE, conns)!Served(k, conn)
                    /\ server[conn] \subseteq UNION {owned[o] : o \in Owners}
  BY Zenon DEF Market!Streamed, Market!NothingExtra
<1> DEFINE held == Market(keys, TRUE, conns)!Held
<1>1. wiped = {}
  BY DEF Market!MarketInv, Market!Accounted
<1>2. server[conn] = IF All \in held THEN {All} ELSE held
  BY MarketQuiet DEF Market!Desired
<1>3. /\ held \in SUBSET keys /\ \A o \in Owners : owned[o] \subseteq keys
      /\ \A k \in keys : k \in held <=> \E o \in Owners : k \in owned[o]
  BY <1>1, MarketQuiet
<1> HIDE DEF held
<1>4. \A k \in server[conn] : k \in held
  BY <1>2
<1>5. \A k \in held : k \in server[conn] \/ All \in server[conn]
  BY <1>2
<1> QED
  BY <1>3, <1>4, <1>5 DEF Market!Served

(* A feed that marks: that is every pair of a coin and an interval that    *)
(* are held, those that lost their mark apart.                             *)
LEMMA MarketMarks ==
    ASSUME NEW keys, NEW conns, FeedOK(keys, FALSE, conns), Market(keys, FALSE, conns)!MarketInv,
           \A k \in keys : k = <<k[1], k[2]>>
    PROVE  /\ Market(keys, FALSE, conns)!StreamedUnlessWiped
           /\ Market(keys, FALSE, conns)!NothingExtra
<1> DEFINE all == UNION {owned[o] : o \in Owners}
<1> SUFFICES ASSUME Market(keys, FALSE, conns)!Quiet
             PROVE  /\ \A o \in Owners : \A k \in owned[o] \ wiped :
                          Market(keys, FALSE, conns)!Served(k, conn)
                    /\ server[conn] \subseteq Market(keys, FALSE, conns)!Pairs(all)
  BY Zenon DEF Market!StreamedUnlessWiped, Market!NothingExtra
<1> DEFINE held == Market(keys, FALSE, conns)!Held
<1>1. server[conn] = Market(keys, FALSE, conns)!Pairs(held)
  BY MarketQuiet DEF Market!Desired
<1>2. /\ held \in SUBSET keys /\ \A o \in Owners : owned[o] \subseteq keys
      /\ \A k \in keys : k \in held <=> (\E o \in Owners : k \in owned[o]) /\ k \notin wiped
  BY MarketQuiet
<1> HIDE DEF held
<1>3. held \subseteq Market(keys, FALSE, conns)!Pairs(held)
  BY <1>2 DEF Market!Pairs
<1>4. held \subseteq all
  BY <1>2
<1>5. Market(keys, FALSE, conns)!Pairs(held) \subseteq Market(keys, FALSE, conns)!Pairs(all)
  <2> HIDE DEF all
  <2> QED
    BY <1>4 DEF Market!Pairs
<1>6. \A o \in Owners : \A k \in owned[o] \ wiped : k \in held
  BY <1>2
<1> QED
  BY <1>1, <1>3, <1>5, <1>6 DEF Market!Served

(* acquire and release of mids, trades, candles and open interest, for any *)
(* owners, coins, intervals and connections without rotation: once every   *)
(* message is out, and the last call overlapped neither another call nor a *)
(* resubscribe, the server streams the mids and trades that owners hold    *)
(* and no others. Of candles and open interest it streams what owners      *)
(* hold, unless another owner's release took the mark off (market_uncounted *)
(* shows that it may), and beyond it at most pairs of a coin and an        *)
(* interval that are both held, if not together.                           *)
THEOREM MarketIsSound == Spec => []MarketSound
<1> DEFINE MidsInv == part = "mids" => Market(MidsKeys, TRUE, MarketConns)!MarketInv
           CandlesInv == part = "candles" => Market(Candles, FALSE, CandleConns)!MarketInv
<1>1. FeedOK(MidsKeys, TRUE, MarketConns) /\ FeedOK(Candles, FALSE, CandleConns)
  BY ConstantsOK DEF ConstantsOK, FeedOK
<1>2. Init => MidsInv /\ CandlesInv
  BY <1>1, MarketInitInv DEF Init
<1>3. MidsInv /\ [Next]_vars => MidsInv'
  <2> SUFFICES ASSUME MidsInv, [Next]_vars, part' = "mids"
               PROVE  Market(MidsKeys, TRUE, MarketConns)!MarketInv'
    OBVIOUS
  <2>1. /\ part = "mids"
        /\ [Market(MidsKeys, TRUE, MarketConns)!Next]_(Market(MidsKeys, TRUE, MarketConns)!vars)
    BY DEF Next, vars, EventsNext, MidsNext, CandlesNext, DeliveryNext, PathsNext, BaseNext,
      link, calls, owners, marketOnly, Market!vars, Market!calls, Market!link
  <2> QED
    BY <1>1, <2>1, MarketKept
<1>4. CandlesInv /\ [Next]_vars => CandlesInv'
  <2> SUFFICES ASSUME CandlesInv, [Next]_vars, part' = "candles"
               PROVE  Market(Candles, FALSE, CandleConns)!MarketInv'
    OBVIOUS
  <2>1. /\ part = "candles"
        /\ [Market(Candles, FALSE, CandleConns)!Next]_(Market(Candles, FALSE, CandleConns)!vars)
    BY DEF Next, vars, EventsNext, MidsNext, CandlesNext, DeliveryNext, PathsNext, BaseNext,
      link, calls, owners, marketOnly, Market!vars, Market!calls, Market!link
  <2> QED
    BY <1>1, <2>1, MarketKept
<1>5. MidsInv /\ CandlesInv => MarketSound
  <2>1. \A k \in Candles : k = <<k[1], k[2]>>
    BY DEF Candles
  <2>2. MidsInv /\ part = "mids" =>
          /\ Market(MidsKeys, TRUE, MarketConns)!Streamed
          /\ Market(MidsKeys, TRUE, MarketConns)!NothingExtra
    BY <1>1, MarketCounts
  <2>3. CandlesInv /\ part = "candles" =>
          /\ Market(Candles, FALSE, CandleConns)!StreamedUnlessWiped
          /\ Market(Candles, FALSE, CandleConns)!NothingExtra
    BY <1>1, <2>1, MarketMarks
  <2> QED
    BY <2>2, <2>3 DEF MarketSound, Market!MarketInv
<1> QED
  BY <1>2, <1>3, <1>4, <1>5, PTL DEF Spec

-----------------------------------------------------------------------------
(* EventSubscriptions: subscribeEvents and resubscribe.                    *)

(* The cardinality of the module is that of FiniteSets. *)
LEMMA EventsCardinality == \A S : Events!Cardinality(S) = Cardinality(S)
BY DEF Events!Cardinality, Cardinality

(* subscribeEvents. *)
LEMMA EventsSubscribeEventsStep ==
    ASSUME ConstantsOK, Events!EventsInv, NEW o \in Owners, NEW ts \in SUBSET Types,
           Events!SubscribeEvents(o, ts)
    PROVE  Events!EventsInv'
<1> USE DEF ConstantsOK, Events!EventsInv, Events!Senders
<1>1. Events!TypeOK'
  <2>1. refs' \in [Types -> Nat] /\ owned' \in [Owners -> SUBSET Types]
    BY DEF Events!SubscribeEvents, Events!Counted, Events!TypeOK
  <2>2. opc' \in [Events!Senders -> {"idle", "check", "defer", "send", "write"}]
    BY DEF Events!SubscribeEvents, Events!Announce, Events!Move, Events!TypeOK
  <2>3. msg' \in [Events!Senders -> [subscribe : BOOLEAN, types : SUBSET Types]]
    <3> DEFINE m == [subscribe |-> TRUE, types |-> Events!Added(ts)]
    <3>1. m \in [subscribe : BOOLEAN, types : SUBSET Types]
      BY DEF Events!Added
    <3>2. msg' = msg \/ msg' = [msg EXCEPT ![o] = m]
      BY Zenon DEF Events!SubscribeEvents, Events!Announce
    <3> HIDE DEF m
    <3> QED
      BY <3>1, <3>2 DEF Events!TypeOK
  <2>4. overlap' \in BOOLEAN
    BY Zenon DEF Events!SubscribeEvents, Events!BeginCall
  <2>5. UNCHANGED <<target, deferred, due, conn, connected, Events!auth, Events!rotation,
                    Events!net>>
    BY DEF Events!SubscribeEvents
  <2> QED
    BY <2>1, <2>2, <2>3, <2>4, <2>5 DEF Events!TypeOK, Events!auth, Events!rotation, Events!net
<1>2. Events!Linked'
  BY DEF Events!SubscribeEvents, Events!BeginCall, Events!Calling, Events!Counted,
    Events!Announce, Events!Move, Events!Added, Events!calls, Events!auth, Events!rotation,
    Events!net, Events!TypeOK, Events!Linked, Events!ConnIds
<1>3. Events!Messages'
  <2>1. /\ opc'[Reader] = opc[Reader] /\ msg'[Reader] = msg[Reader]
        /\ \A p \in Owners : p # o => opc'[p] = opc[p] /\ msg'[p] = msg[p]
    BY DEF Events!SubscribeEvents, Events!Announce, Events!Move, Events!TypeOK
  <2>2. opc'[o] # "idle" => msg'[o] = [subscribe |-> TRUE, types |-> Events!Added(ts)]
    BY DEF Events!SubscribeEvents, Events!BeginCall, Events!Announce, Events!Move, Events!TypeOK
  <2>3. ~overlap' => ~overlap /\ \A p \in Owners : opc[p] = "idle"
    BY Zenon DEF Events!SubscribeEvents, Events!BeginCall, Events!Calling
  <2> QED
    BY <2>1, <2>2, <2>3 DEF Events!Messages
<1>4. Events!Covering'
  BY DEF Events!SubscribeEvents, Events!BeginCall, Events!Calling, Events!Counted,
    Events!Announce, Events!Move, Events!Added, Events!calls, Events!auth, Events!rotation,
    Events!net, Events!TypeOK, Events!Linked, Events!Messages, Events!Covering, Events!Warming,
    Events!Comes, Events!ConnIds, Events!Wanted
<1>5. Events!Warming'
  BY DEF Events!SubscribeEvents, Events!BeginCall, Events!Calling, Events!Counted,
    Events!Announce, Events!Move, Events!Added, Events!calls, Events!auth, Events!rotation,
    Events!net, Events!TypeOK, Events!Linked, Events!Warming, Events!ConnIds, Events!Wanted
<1>6. Events!Accounted'
  <2> SUFFICES ASSUME NEW t \in Types
               PROVE  refs'[t] = Cardinality(Events!HoldersOf(t)')
    BY EventsCardinality DEF Events!Accounted
  <2>1. refs[t] = Cardinality(Events!HoldersOf(t)) /\ refs[t] \in Nat
    BY EventsCardinality DEF Events!Accounted, Events!TypeOK
  <2>2. IsFiniteSet(Events!HoldersOf(t))
    BY FS_Subset DEF Events!HoldersOf
  <2>3. CASE t \notin ts
    <3>1. Events!HoldersOf(t)' = Events!HoldersOf(t) /\ refs'[t] = refs[t]
      BY <2>3 DEF Events!SubscribeEvents, Events!Counted, Events!TypeOK, Events!HoldersOf
    <3> QED
      BY <2>1, <3>1
  <2>4. CASE t \in ts
    <3>1. o \notin Events!HoldersOf(t) /\ refs'[t] = refs[t] + 1
      BY <2>4 DEF Events!SubscribeEvents, Events!Counted, Events!TypeOK, Events!HoldersOf
    <3>2. Events!HoldersOf(t)' = Events!HoldersOf(t) \cup {o}
      BY <2>4 DEF Events!SubscribeEvents, Events!TypeOK, Events!HoldersOf
    <3>3. Cardinality(Events!HoldersOf(t)') = Cardinality(Events!HoldersOf(t)) + 1
      BY <2>2, <3>1, <3>2, FS_AddElement
    <3> QED
      BY <2>1, <3>1, <3>3
  <2> QED
    BY <2>3, <2>4
<1> QED
  BY <1>1, <1>2, <1>3, <1>4, <1>5, <1>6

(* unsubscribeEvents. *)
LEMMA EventsUnsubscribeEventsStep ==
    ASSUME ConstantsOK, Events!EventsInv, NEW o \in Owners, NEW ts \in SUBSET Types,
           Events!UnsubscribeEvents(o, ts)
    PROVE  Events!EventsInv'
<1> USE DEF ConstantsOK, Events!EventsInv, Events!Senders
<1>1. Events!TypeOK'
  <2>a. \A t \in ts : refs[t] >= 1
    <3> SUFFICES ASSUME NEW t \in ts PROVE refs[t] >= 1
      OBVIOUS
    <3>1. IsFiniteSet(Events!HoldersOf(t)) /\ Events!HoldersOf(t) # {}
      BY FS_Subset DEF Events!HoldersOf, Events!UnsubscribeEvents
    <3>2. Cardinality(Events!HoldersOf(t)) \in Nat /\ Cardinality(Events!HoldersOf(t)) # 0
      BY <3>1, FS_EmptySet, FS_CardinalityType
    <3> QED
      BY <3>2, EventsCardinality DEF Events!Accounted
  <2>1. refs' \in [Types -> Nat] /\ owned' \in [Owners -> SUBSET Types]
    BY <2>a DEF Events!UnsubscribeEvents, Events!TypeOK
  <2>2. opc' \in [Events!Senders -> {"idle", "check", "defer", "send", "write"}]
    BY DEF Events!UnsubscribeEvents, Events!Announce, Events!Move, Events!TypeOK
  <2>3. msg' \in [Events!Senders -> [subscribe : BOOLEAN, types : SUBSET Types]]
    <3> DEFINE m == [subscribe |-> FALSE, types |-> Events!Dropped(ts)]
    <3>1. m \in [subscribe : BOOLEAN, types : SUBSET Types]
      BY DEF Events!Dropped
    <3>2. msg' = msg \/ msg' = [msg EXCEPT ![o] = m]
      BY Zenon DEF Events!UnsubscribeEvents, Events!Announce
    <3> HIDE DEF m
    <3> QED
      BY <3>1, <3>2 DEF Events!TypeOK
  <2>4. overlap' \in BOOLEAN
    BY Zenon DEF Events!UnsubscribeEvents, Events!BeginCall
  <2>5. UNCHANGED <<target, deferred, due, conn, connected, Events!auth, Events!rotation,
                    Events!net>>
    BY DEF Events!UnsubscribeEvents
  <2> QED
    BY <2>1, <2>2, <2>3, <2>4, <2>5 DEF Events!TypeOK, Events!auth, Events!rotation, Events!net
<1>2. Events!Linked'
  BY DEF Events!UnsubscribeEvents, Events!BeginCall, Events!Calling, Events!Announce, Events!Move,
    Events!Dropped, Events!calls, Events!auth, Events!rotation, Events!net, Events!TypeOK,
    Events!Linked, Events!ConnIds
<1>3. Events!Messages'
  <2>1. /\ opc'[Reader] = opc[Reader] /\ msg'[Reader] = msg[Reader]
        /\ \A p \in Owners : p # o => opc'[p] = opc[p] /\ msg'[p] = msg[p]
    BY DEF Events!UnsubscribeEvents, Events!Announce, Events!Move, Events!TypeOK
  <2>2. opc'[o] # "idle" => msg'[o] = [subscribe |-> FALSE, types |-> Events!Dropped(ts)]
    BY DEF Events!UnsubscribeEvents, Events!BeginCall, Events!Announce, Events!Move, Events!TypeOK
  <2>3. ~overlap' => ~overlap /\ \A p \in Owners : opc[p] = "idle"
    BY Zenon DEF Events!UnsubscribeEvents, Events!BeginCall, Events!Calling
  <2>4. \A t \in Events!Dropped(ts) : refs'[t] = 0
    BY DEF Events!UnsubscribeEvents, Events!Dropped, Events!TypeOK
  <2> QED
    BY <2>1, <2>2, <2>3, <2>4 DEF Events!Messages
<1>4. Events!Covering'
  BY DEF Events!UnsubscribeEvents, Events!BeginCall, Events!Calling, Events!Announce, Events!Move,
    Events!Dropped, Events!calls, Events!auth, Events!rotation, Events!net, Events!TypeOK,
    Events!Linked, Events!Messages, Events!Covering, Events!Warming, Events!Comes, Events!ConnIds,
    Events!Wanted
<1>5. Events!Warming'
  BY DEF Events!UnsubscribeEvents, Events!BeginCall, Events!Calling, Events!Announce, Events!Move,
    Events!Dropped, Events!calls, Events!auth, Events!rotation, Events!net, Events!TypeOK,
    Events!Linked, Events!Warming, Events!ConnIds, Events!Wanted
<1>6. Events!Accounted'
  <2> SUFFICES ASSUME NEW t \in Types
               PROVE  refs'[t] = Cardinality(Events!HoldersOf(t)')
    BY EventsCardinality DEF Events!Accounted
  <2>1. refs[t] = Cardinality(Events!HoldersOf(t)) /\ refs[t] \in Nat
    BY EventsCardinality DEF Events!Accounted, Events!TypeOK
  <2>2. IsFiniteSet(Events!HoldersOf(t))
    BY FS_Subset DEF Events!HoldersOf
  <2>3. CASE t \notin ts
    <3>1. Events!HoldersOf(t)' = Events!HoldersOf(t) /\ refs'[t] = refs[t]
      BY <2>3 DEF Events!UnsubscribeEvents, Events!TypeOK, Events!HoldersOf
    <3> QED
      BY <2>1, <3>1
  <2>4. CASE t \in ts
    <3>1. o \in Events!HoldersOf(t) /\ refs'[t] = refs[t] - 1
      BY <2>4 DEF Events!UnsubscribeEvents, Events!TypeOK, Events!HoldersOf
    <3>2. Events!HoldersOf(t)' = Events!HoldersOf(t) \ {o}
      BY <2>4 DEF Events!UnsubscribeEvents, Events!TypeOK, Events!HoldersOf
    <3>3. Cardinality(Events!HoldersOf(t)') = Cardinality(Events!HoldersOf(t)) - 1
      BY <2>2, <3>1, <3>2, FS_RemoveElement, ZenonT(30)
    <3> QED
      BY <2>1, <3>1, <3>3
  <2> QED
    BY <2>3, <2>4
<1> QED
  BY <1>1, <1>2, <1>3, <1>4, <1>5, <1>6

(* sendWhenConnected looks at the status. *)
LEMMA EventsSendWhenConnectedStep ==
    ASSUME ConstantsOK, Events!EventsInv, NEW o \in Owners, Events!SendWhenConnected(o)
    PROVE  Events!EventsInv'
<1> USE DEF ConstantsOK, Events!EventsInv, Events!Senders
<1>1. refs' = refs /\ owned' = owned /\ Events!Wanted' = Events!Wanted
  BY DEF Events!SendWhenConnected, Events!calls, Events!Wanted
<1>2. Events!Wanted \subseteq Types
  BY DEF Events!Wanted
<1>3. Events!TypeOK'
  BY <1>1, <1>2 DEF Events!SendWhenConnected, Events!Move, Events!calls, Events!auth,
    Events!rotation, Events!net, Events!TypeOK, Events!ConnIds, Events!NoMsg
<1>4. Events!Linked'
  BY <1>1, <1>2 DEF Events!SendWhenConnected, Events!Move, Events!calls, Events!auth,
    Events!rotation, Events!net, Events!TypeOK, Events!Linked, Events!ConnIds
<1>5. Events!Messages'
  BY <1>1, <1>2 DEF Events!SendWhenConnected, Events!Move, Events!calls, Events!auth,
    Events!rotation, Events!net, Events!TypeOK, Events!Messages
<1>6. Events!Covering'
  BY <1>1, <1>2 DEF Events!SendWhenConnected, Events!Move, Events!calls, Events!auth,
    Events!rotation, Events!net, Events!TypeOK, Events!Linked, Events!Messages, Events!Covering,
    Events!Warming, Events!Comes, Events!Calling, Events!ConnIds
<1>7. Events!Warming'
  BY <1>1, <1>2 DEF Events!SendWhenConnected, Events!Move, Events!calls, Events!auth,
    Events!rotation, Events!net, Events!TypeOK, Events!Linked, Events!Warming, Events!Calling,
    Events!ConnIds
<1>8. Events!Accounted'
  BY <1>1 DEF Events!Accounted, Events!HoldersOf
<1> QED
  BY <1>3, <1>4, <1>5, <1>6, <1>7, <1>8

(* onAuthenticatedOnce. *)
LEMMA EventsDeferStep ==
    ASSUME ConstantsOK, Events!EventsInv, NEW o \in Owners, Events!Defer(o)
    PROVE  Events!EventsInv'
<1> USE DEF ConstantsOK, Events!EventsInv, Events!Senders
<1>1. refs' = refs /\ owned' = owned /\ Events!Wanted' = Events!Wanted
  BY DEF Events!Defer, Events!calls, Events!Wanted
<1>2. Events!Wanted \subseteq Types
  BY DEF Events!Wanted
<1>3. Events!TypeOK'
  BY <1>1, <1>2 DEF Events!Defer, Events!Return, Events!Move, Events!calls, Events!auth,
    Events!rotation, Events!net, Events!TypeOK, Events!ConnIds, Events!NoMsg
<1>4. Events!Linked'
  BY <1>1, <1>2 DEF Events!Defer, Events!Return, Events!Move, Events!calls, Events!auth,
    Events!rotation, Events!net, Events!TypeOK, Events!Linked, Events!ConnIds
<1>5. Events!Messages'
  BY <1>1, <1>2 DEF Events!Defer, Events!Return, Events!Move, Events!calls, Events!auth,
    Events!rotation, Events!net, Events!TypeOK, Events!Messages
<1>6. Events!Covering'
  BY <1>1, <1>2 DEF Events!Defer, Events!Return, Events!Move, Events!calls, Events!auth,
    Events!rotation, Events!net, Events!TypeOK, Events!Linked, Events!Messages, Events!Covering,
    Events!Warming, Events!Comes, Events!Calling, Events!ConnIds
<1>7. Events!Warming'
  BY <1>1, <1>2 DEF Events!Defer, Events!Return, Events!Move, Events!calls, Events!auth,
    Events!rotation, Events!net, Events!TypeOK, Events!Linked, Events!Warming, Events!Calling,
    Events!ConnIds
<1>8. Events!Accounted'
  BY <1>1 DEF Events!Accounted, Events!HoldersOf
<1> QED
  BY <1>3, <1>4, <1>5, <1>6, <1>7, <1>8

(* send picks the connection. *)
LEMMA EventsSendStep ==
    ASSUME ConstantsOK, Events!EventsInv, NEW s \in Events!Senders, Events!Send(s)
    PROVE  Events!EventsInv'
<1> USE DEF ConstantsOK, Events!EventsInv, Events!Senders
<1>1. refs' = refs /\ owned' = owned /\ Events!Wanted' = Events!Wanted
  BY DEF Events!Send, Events!calls, Events!Wanted
<1>2. Events!Wanted \subseteq Types
  BY DEF Events!Wanted
<1>3. Events!TypeOK'
  <2>1. CASE conn # None /\ connected
    BY <1>1, <2>1 DEF Events!Send, Events!Move, Events!auth, Events!rotation, Events!net,
      Events!TypeOK
  <2>2. CASE ~(conn # None /\ connected)
    <3>1. Events!NoMsg \in [subscribe : BOOLEAN, types : SUBSET Types]
      BY DEF Events!NoMsg
    <3> QED
      BY <1>1, <2>2, <3>1 DEF Events!Send, Events!Return, Events!Move, Events!auth,
        Events!rotation, Events!net, Events!TypeOK
  <2> QED
    BY <2>1, <2>2
<1>4. Events!Linked'
  BY <1>1, <1>2 DEF Events!Send, Events!Return, Events!Move, Events!calls, Events!auth,
    Events!rotation, Events!net, Events!TypeOK, Events!Linked, Events!ConnIds
<1>5. Events!Messages'
  BY <1>1, <1>2 DEF Events!Send, Events!Return, Events!Move, Events!calls, Events!auth,
    Events!rotation, Events!net, Events!TypeOK, Events!Messages
<1>6. Events!Covering'
  <2>1. CASE conn # None /\ connected
    <3>1. /\ target'[s] = conn /\ opc'[s] = "write" /\ opc[s] = "send" /\ msg' = msg
          /\ \A p \in Events!Senders : p # s => opc'[p] = opc[p] /\ target'[p] = target[p]
          /\ UNCHANGED <<conn, connected, Events!auth, Events!rotation, Events!net, overlap>>
      BY <2>1 DEF Events!Send, Events!Move, Events!TypeOK
    <3>2. \A o \in Owners, t \in Types : Events!Comes(o, t) => Events!Comes(o, t)'
      BY <3>1 DEF Events!Comes
    <3> QED
      BY <1>1, <1>2, <3>1, <3>2 DEF Events!Covering, Events!auth, Events!rotation, Events!net
  <2>2. CASE ~(conn # None /\ connected)
    <3>1. UNCHANGED <<conn, connected, alive>>
      BY DEF Events!Send, Events!rotation, Events!auth, Events!net
    <3>2. ~(connected /\ conn \in alive)
      BY <2>2 DEF Events!TypeOK, Events!ConnIds
    <3> QED
      BY <3>1, <3>2 DEF Events!Covering
  <2> QED
    BY <2>1, <2>2
<1>7. Events!Warming'
  BY <1>1, <1>2 DEF Events!Send, Events!Return, Events!Move, Events!calls, Events!auth,
    Events!rotation, Events!net, Events!TypeOK, Events!Linked, Events!Warming, Events!Calling,
    Events!ConnIds
<1>8. Events!Accounted'
  BY <1>1 DEF Events!Accounted, Events!HoldersOf
<1> QED
  BY <1>3, <1>4, <1>5, <1>6, <1>7, <1>8

(* The message is written. *)
LEMMA EventsWriteStep ==
    ASSUME ConstantsOK, Events!EventsInv, NEW s \in Events!Senders, Events!Write(s)
    PROVE  Events!EventsInv'
<1> USE DEF ConstantsOK, Events!EventsInv, Events!Senders
<1>1. refs' = refs /\ owned' = owned /\ Events!Wanted' = Events!Wanted
  BY DEF Events!Write, Events!calls, Events!Wanted
<1>2. Events!Wanted \subseteq Types
  BY DEF Events!Wanted
<1>3. Events!TypeOK'
  <2>1. server' \in [Events!ConnIds -> SUBSET Types] /\ UNCHANGED <<used, alive>>
    <3>1. msg[s].types \in SUBSET Types
      BY DEF Events!TypeOK
    <3> QED
      BY <3>1 DEF Events!Write, Events!Apply, Events!TypeOK
  <2>2. Events!NoMsg \in [subscribe : BOOLEAN, types : SUBSET Types]
    BY DEF Events!NoMsg
  <2>3. /\ opc' \in [Events!Senders -> {"idle", "check", "defer", "send", "write"}]
        /\ msg' \in [Events!Senders -> [subscribe : BOOLEAN, types : SUBSET Types]]
        /\ target' \in [Events!Senders -> Events!ConnIds \cup {None}]
    BY <2>2 DEF Events!Write, Events!Return, Events!Move, Events!TypeOK
  <2> QED
    BY <1>1, <2>1, <2>3 DEF Events!Write, Events!auth, Events!rotation, Events!TypeOK
<1>4. Events!Linked'
  BY <1>1, <1>2 DEF Events!Write, Events!Apply, Events!Return, Events!Move, Events!calls,
    Events!auth, Events!rotation, Events!net, Events!TypeOK, Events!Linked, Events!ConnIds
<1>5. Events!Messages'
  BY <1>1, <1>2 DEF Events!Write, Events!Apply, Events!Return, Events!Move, Events!calls,
    Events!auth, Events!rotation, Events!net, Events!TypeOK, Events!Messages
<1>6. Events!Covering'
  <2>1. ~overlap => \A t \in Events!Wanted : msg[s].subscribe \/ t \notin msg[s].types
    BY DEF Events!Write, Events!Messages, Events!Wanted, Events!TypeOK
  <2>2. \A o \in Owners, t \in Types : o # s /\ Events!Comes(o, t) => Events!Comes(o, t)'
    BY DEF Events!Write, Events!Return, Events!Move, Events!TypeOK, Events!Comes
  <2>3. \A t \in Types : s \in Owners /\ Events!Comes(s, t) /\ conn \in alive => t \in server'[conn]
    BY DEF Events!Write, Events!Apply, Events!TypeOK, Events!Comes
  <2>4. ~overlap => \A t \in Events!Wanted : t \in server[conn] => t \in server'[conn]
    BY <1>1, <2>1 DEF Events!Write, Events!Apply, Events!TypeOK
  <2> QED
    BY <1>1, <1>2, <2>2, <2>3, <2>4 DEF Events!Write, Events!Apply, Events!auth, Events!Covering
<1>7. Events!Warming'
  <2>1. ~overlap => \A t \in Events!Wanted : msg[s].subscribe \/ t \notin msg[s].types
    BY DEF Events!Write, Events!Messages, Events!Wanted, Events!TypeOK
  <2>2. ~overlap => \A t \in Events!Wanted : t \in server[warm] => t \in server'[warm]
    BY <1>1, <2>1 DEF Events!Write, Events!Apply, Events!TypeOK
  <2>3. Events!Calling = {} => Events!Calling' = {}
    BY DEF Events!Write, Events!Return, Events!Move, Events!TypeOK, Events!Calling
  <2> QED
    BY <1>1, <2>2, <2>3 DEF Events!Write, Events!Apply, Events!rotation, Events!Warming
<1>8. Events!Accounted'
  BY <1>1 DEF Events!Accounted, Events!HoldersOf
<1> QED
  BY <1>3, <1>4, <1>5, <1>6, <1>7, <1>8

(* A new connection. *)
LEMMA EventsConnectStep ==
    ASSUME ConstantsOK, Events!EventsInv, Events!Connect
    PROVE  Events!EventsInv'
<1> USE DEF ConstantsOK, Events!EventsInv, Events!Senders
<1>1. refs' = refs /\ owned' = owned /\ Events!Wanted' = Events!Wanted
  BY DEF Events!Connect, Events!calls, Events!Wanted
<1>2. Events!Wanted \subseteq Types
  BY DEF Events!Wanted
<1>3. Events!TypeOK'
  BY <1>1, <1>2 DEF Events!Connect, Events!Calling, Events!calls, Events!auth, Events!rotation,
    Events!net, Events!TypeOK, Events!ConnIds, Events!NoMsg
<1>4. Events!Linked'
  BY <1>1, <1>2 DEF Events!Connect, Events!Calling, Events!calls, Events!auth, Events!rotation,
    Events!net, Events!TypeOK, Events!Linked, Events!ConnIds
<1>5. Events!Messages'
  BY <1>1, <1>2 DEF Events!Connect, Events!Calling, Events!calls, Events!auth, Events!rotation,
    Events!net, Events!TypeOK, Events!Messages
<1>6. Events!Covering'
  BY <1>1, <1>2 DEF Events!Connect, Events!Calling, Events!calls, Events!auth, Events!rotation,
    Events!net, Events!TypeOK, Events!Linked, Events!Messages, Events!Covering, Events!Warming,
    Events!Comes, Events!ConnIds
<1>7. Events!Warming'
  BY <1>1, <1>2 DEF Events!Connect, Events!Calling, Events!calls, Events!auth, Events!rotation,
    Events!net, Events!TypeOK, Events!Linked, Events!Warming, Events!ConnIds
<1>8. Events!Accounted'
  BY <1>1 DEF Events!Accounted, Events!HoldersOf
<1> QED
  BY <1>3, <1>4, <1>5, <1>6, <1>7, <1>8

(* onAuthenticated. *)
LEMMA EventsOnAuthenticatedStep ==
    ASSUME ConstantsOK, Events!EventsInv, Events!OnAuthenticated
    PROVE  Events!EventsInv'
<1> USE DEF ConstantsOK, Events!EventsInv, Events!Senders
<1>1. refs' = refs /\ owned' = owned /\ Events!Wanted' = Events!Wanted
  BY DEF Events!OnAuthenticated, Events!calls, Events!Wanted
<1>2. Events!Wanted \subseteq Types
  BY DEF Events!Wanted
<1>3. Events!TypeOK'
  BY <1>1, <1>2 DEF Events!OnAuthenticated, Events!calls, Events!auth, Events!rotation,
    Events!net, Events!TypeOK, Events!ConnIds, Events!NoMsg
<1>4. Events!Linked'
  BY <1>1, <1>2 DEF Events!OnAuthenticated, Events!calls, Events!auth, Events!rotation,
    Events!net, Events!TypeOK, Events!Linked, Events!ConnIds
<1>5. Events!Messages'
  BY <1>1, <1>2 DEF Events!OnAuthenticated, Events!calls, Events!auth, Events!rotation,
    Events!net, Events!TypeOK, Events!Messages
<1>6. Events!Covering'
  BY <1>1, <1>2 DEF Events!OnAuthenticated, Events!calls, Events!auth, Events!rotation,
    Events!net, Events!TypeOK, Events!Linked, Events!Messages, Events!Covering, Events!Warming,
    Events!Comes, Events!Calling, Events!ConnIds
<1>7. Events!Warming'
  BY <1>1, <1>2 DEF Events!OnAuthenticated, Events!calls, Events!auth, Events!rotation,
    Events!net, Events!TypeOK, Events!Linked, Events!Warming, Events!Calling, Events!ConnIds
<1>8. Events!Accounted'
  BY <1>1 DEF Events!Accounted, Events!HoldersOf
<1> QED
  BY <1>3, <1>4, <1>5, <1>6, <1>7, <1>8

(* resubscribe reads what is wanted. *)
LEMMA EventsResubscribeStep ==
    ASSUME ConstantsOK, Events!EventsInv, Events!Resubscribe
    PROVE  Events!EventsInv'
<1> USE DEF ConstantsOK, Events!EventsInv, Events!Senders
<1>1. refs' = refs /\ owned' = owned /\ Events!Wanted' = Events!Wanted
  BY DEF Events!Resubscribe, Events!calls, Events!Wanted
<1>2. Events!Wanted \subseteq Types
  BY DEF Events!Wanted
<1>3. Events!TypeOK'
  BY <1>1, <1>2 DEF Events!Resubscribe, Events!calls, Events!auth, Events!rotation, Events!net,
    Events!TypeOK, Events!ConnIds, Events!NoMsg
<1>4. Events!Linked'
  BY <1>1, <1>2 DEF Events!Resubscribe, Events!calls, Events!auth, Events!rotation, Events!net,
    Events!TypeOK, Events!Linked, Events!ConnIds
<1>5. Events!Messages'
  BY <1>1, <1>2 DEF Events!Resubscribe, Events!calls, Events!auth, Events!rotation, Events!net,
    Events!TypeOK, Events!Messages
<1>6. Events!Covering'
  BY <1>1, <1>2 DEF Events!Resubscribe, Events!calls, Events!auth, Events!rotation, Events!net,
    Events!TypeOK, Events!Linked, Events!Messages, Events!Covering, Events!Warming, Events!Comes,
    Events!Calling, Events!ConnIds
<1>7. Events!Warming'
  BY <1>1, <1>2 DEF Events!Resubscribe, Events!calls, Events!auth, Events!rotation, Events!net,
    Events!TypeOK, Events!Linked, Events!Warming, Events!Calling, Events!ConnIds
<1>8. Events!Accounted'
  BY <1>1 DEF Events!Accounted, Events!HoldersOf
<1> QED
  BY <1>3, <1>4, <1>5, <1>6, <1>7, <1>8

(* resubscribe writes. *)
LEMMA EventsResubscribeWritesStep ==
    ASSUME ConstantsOK, Events!EventsInv, Events!ResubscribeWrites
    PROVE  Events!EventsInv'
<1> USE DEF ConstantsOK, Events!EventsInv, Events!Senders
<1>1. refs' = refs /\ owned' = owned /\ Events!Wanted' = Events!Wanted
  BY DEF Events!ResubscribeWrites, Events!calls, Events!Wanted
<1>2. Events!Wanted \subseteq Types
  BY DEF Events!Wanted
<1>3. Events!TypeOK'
  BY <1>1, <1>2 DEF Events!ResubscribeWrites, Events!Apply, Events!calls, Events!auth,
    Events!rotation, Events!net, Events!TypeOK, Events!ConnIds, Events!NoMsg
<1>4. Events!Linked'
  BY <1>1, <1>2 DEF Events!ResubscribeWrites, Events!Apply, Events!calls, Events!auth,
    Events!rotation, Events!net, Events!TypeOK, Events!Linked, Events!ConnIds
<1>5. Events!Messages'
  BY <1>1, <1>2 DEF Events!ResubscribeWrites, Events!Apply, Events!calls, Events!auth,
    Events!rotation, Events!net, Events!TypeOK, Events!Messages
<1>6. Events!Covering'
  BY <1>1, <1>2 DEF Events!ResubscribeWrites, Events!Apply, Events!calls, Events!auth,
    Events!rotation, Events!net, Events!TypeOK, Events!Linked, Events!Messages, Events!Covering,
    Events!Warming, Events!Comes, Events!Calling, Events!ConnIds
<1>7. Events!Warming'
  BY <1>1, <1>2 DEF Events!ResubscribeWrites, Events!Apply, Events!calls, Events!auth,
    Events!rotation, Events!net, Events!TypeOK, Events!Linked, Events!Warming, Events!Calling,
    Events!ConnIds
<1>8. Events!Accounted'
  BY <1>1 DEF Events!Accounted, Events!HoldersOf
<1> QED
  BY <1>3, <1>4, <1>5, <1>6, <1>7, <1>8

(* A deferred message. *)
LEMMA EventsRunCallbackStep ==
    ASSUME ConstantsOK, Events!EventsInv, NEW ts \in due, Events!RunCallback(ts)
    PROVE  Events!EventsInv'
<1> USE DEF ConstantsOK, Events!EventsInv, Events!Senders
<1>1. refs' = refs /\ owned' = owned /\ Events!Wanted' = Events!Wanted
  BY DEF Events!RunCallback, Events!calls, Events!Wanted
<1>2. Events!Wanted \subseteq Types
  BY DEF Events!Wanted
<1>3. Events!TypeOK'
  BY <1>1, <1>2 DEF Events!RunCallback, Events!Move, Events!calls, Events!auth, Events!rotation,
    Events!net, Events!TypeOK, Events!ConnIds, Events!NoMsg
<1>4. Events!Linked'
  BY <1>1, <1>2 DEF Events!RunCallback, Events!Move, Events!calls, Events!auth, Events!rotation,
    Events!net, Events!TypeOK, Events!Linked, Events!ConnIds
<1>5. Events!Messages'
  BY <1>1, <1>2 DEF Events!RunCallback, Events!Move, Events!calls, Events!auth, Events!rotation,
    Events!net, Events!TypeOK, Events!Messages
<1>6. Events!Covering'
  BY <1>1, <1>2 DEF Events!RunCallback, Events!Move, Events!calls, Events!auth, Events!rotation,
    Events!net, Events!TypeOK, Events!Linked, Events!Messages, Events!Covering, Events!Warming,
    Events!Comes, Events!Calling, Events!ConnIds
<1>7. Events!Warming'
  BY <1>1, <1>2 DEF Events!RunCallback, Events!Move, Events!calls, Events!auth, Events!rotation,
    Events!net, Events!TypeOK, Events!Linked, Events!Warming, Events!Calling, Events!ConnIds
<1>8. Events!Accounted'
  BY <1>1 DEF Events!Accounted, Events!HoldersOf
<1> QED
  BY <1>3, <1>4, <1>5, <1>6, <1>7, <1>8

(* The callbacks have run. *)
LEMMA EventsCallbacksDoneStep ==
    ASSUME ConstantsOK, Events!EventsInv, Events!CallbacksDone
    PROVE  Events!EventsInv'
<1> USE DEF ConstantsOK, Events!EventsInv, Events!Senders
<1>1. refs' = refs /\ owned' = owned /\ Events!Wanted' = Events!Wanted
  BY DEF Events!CallbacksDone, Events!calls, Events!Wanted
<1>2. Events!Wanted \subseteq Types
  BY DEF Events!Wanted
<1>3. Events!TypeOK'
  BY <1>1, <1>2 DEF Events!CallbacksDone, Events!calls, Events!auth, Events!rotation, Events!net,
    Events!TypeOK, Events!ConnIds, Events!NoMsg
<1>4. Events!Linked'
  BY <1>1, <1>2 DEF Events!CallbacksDone, Events!calls, Events!auth, Events!rotation, Events!net,
    Events!TypeOK, Events!Linked, Events!ConnIds
<1>5. Events!Messages'
  BY <1>1, <1>2 DEF Events!CallbacksDone, Events!calls, Events!auth, Events!rotation, Events!net,
    Events!TypeOK, Events!Messages
<1>6. Events!Covering'
  BY <1>1, <1>2 DEF Events!CallbacksDone, Events!calls, Events!auth, Events!rotation, Events!net,
    Events!TypeOK, Events!Linked, Events!Messages, Events!Covering, Events!Warming, Events!Comes,
    Events!Calling, Events!ConnIds
<1>7. Events!Warming'
  BY <1>1, <1>2 DEF Events!CallbacksDone, Events!calls, Events!auth, Events!rotation, Events!net,
    Events!TypeOK, Events!Linked, Events!Warming, Events!Calling, Events!ConnIds
<1>8. Events!Accounted'
  BY <1>1 DEF Events!Accounted, Events!HoldersOf
<1> QED
  BY <1>3, <1>4, <1>5, <1>6, <1>7, <1>8

(* The read fails. *)
LEMMA EventsReadFailsStep ==
    ASSUME ConstantsOK, Events!EventsInv, Events!ReadFails
    PROVE  Events!EventsInv'
<1> USE DEF ConstantsOK, Events!EventsInv, Events!Senders
<1>1. refs' = refs /\ owned' = owned /\ Events!Wanted' = Events!Wanted
  BY DEF Events!ReadFails, Events!calls, Events!Wanted
<1>2. Events!Wanted \subseteq Types
  BY DEF Events!Wanted
<1>3. Events!TypeOK'
  BY <1>1, <1>2 DEF Events!ReadFails, Events!calls, Events!auth, Events!rotation, Events!net,
    Events!TypeOK, Events!ConnIds, Events!NoMsg
<1>4. Events!Linked'
  BY <1>1, <1>2 DEF Events!ReadFails, Events!calls, Events!auth, Events!rotation, Events!net,
    Events!TypeOK, Events!Linked, Events!ConnIds
<1>5. Events!Messages'
  BY <1>1, <1>2 DEF Events!ReadFails, Events!calls, Events!auth, Events!rotation, Events!net,
    Events!TypeOK, Events!Messages
<1>6. Events!Covering'
  BY <1>1, <1>2 DEF Events!ReadFails, Events!calls, Events!auth, Events!rotation, Events!net,
    Events!TypeOK, Events!Linked, Events!Messages, Events!Covering, Events!Warming, Events!Comes,
    Events!Calling, Events!ConnIds
<1>7. Events!Warming'
  BY <1>1, <1>2 DEF Events!ReadFails, Events!calls, Events!auth, Events!rotation, Events!net,
    Events!TypeOK, Events!Linked, Events!Warming, Events!Calling, Events!ConnIds
<1>8. Events!Accounted'
  BY <1>1 DEF Events!Accounted, Events!HoldersOf
<1> QED
  BY <1>3, <1>4, <1>5, <1>6, <1>7, <1>8

(* endAttempt. *)
LEMMA EventsEndAttemptStep ==
    ASSUME ConstantsOK, Events!EventsInv, Events!EndAttempt
    PROVE  Events!EventsInv'
<1> USE DEF ConstantsOK, Events!EventsInv, Events!Senders
<1>1. refs' = refs /\ owned' = owned /\ Events!Wanted' = Events!Wanted
  BY DEF Events!EndAttempt, Events!calls, Events!Wanted
<1>2. Events!Wanted \subseteq Types
  BY DEF Events!Wanted
<1>3. Events!TypeOK'
  BY <1>1, <1>2 DEF Events!EndAttempt, Events!EndHandoff, Events!Forget, Events!calls,
    Events!auth, Events!rotation, Events!net, Events!TypeOK, Events!ConnIds, Events!NoMsg
<1>4. Events!Linked'
  BY <1>1, <1>2 DEF Events!EndAttempt, Events!EndHandoff, Events!Forget, Events!calls,
    Events!auth, Events!rotation, Events!net, Events!TypeOK, Events!Linked, Events!ConnIds
<1>5. Events!Messages'
  BY <1>1, <1>2 DEF Events!EndAttempt, Events!EndHandoff, Events!Forget, Events!calls,
    Events!auth, Events!rotation, Events!net, Events!TypeOK, Events!Messages
<1>6. Events!Covering'
  BY <1>1, <1>2 DEF Events!EndAttempt, Events!EndHandoff, Events!Forget, Events!calls,
    Events!auth, Events!rotation, Events!net, Events!TypeOK, Events!Linked, Events!Messages,
    Events!Covering, Events!Warming, Events!Comes, Events!Calling, Events!ConnIds
<1>7. Events!Warming'
  BY <1>1, <1>2 DEF Events!EndAttempt, Events!EndHandoff, Events!Forget, Events!calls,
    Events!auth, Events!rotation, Events!net, Events!TypeOK, Events!Linked, Events!Warming,
    Events!Calling, Events!ConnIds
<1>8. Events!Accounted'
  BY <1>1 DEF Events!Accounted, Events!HoldersOf
<1> QED
  BY <1>3, <1>4, <1>5, <1>6, <1>7, <1>8

(* RotateConnection. *)
LEMMA EventsRotateStep ==
    ASSUME ConstantsOK, Events!EventsInv, Events!Rotate
    PROVE  Events!EventsInv'
<1> USE DEF ConstantsOK, Events!EventsInv, Events!Senders
<1>1. refs' = refs /\ owned' = owned /\ Events!Wanted' = Events!Wanted
  BY DEF Events!Rotate, Events!calls, Events!Wanted
<1>2. Events!Wanted \subseteq Types
  BY DEF Events!Wanted
<1>3. Events!TypeOK'
  BY <1>1, <1>2 DEF Events!Rotate, Events!Calling, Events!calls, Events!auth, Events!rotation,
    Events!net, Events!TypeOK, Events!ConnIds, Events!NoMsg
<1>4. Events!Linked'
  BY <1>1, <1>2 DEF Events!Rotate, Events!Calling, Events!calls, Events!auth, Events!rotation,
    Events!net, Events!TypeOK, Events!Linked, Events!ConnIds
<1>5. Events!Messages'
  BY <1>1, <1>2 DEF Events!Rotate, Events!Calling, Events!calls, Events!auth, Events!rotation,
    Events!net, Events!TypeOK, Events!Messages
<1>6. Events!Covering'
  BY <1>1, <1>2 DEF Events!Rotate, Events!Calling, Events!calls, Events!auth, Events!rotation,
    Events!net, Events!TypeOK, Events!Linked, Events!Messages, Events!Covering, Events!Warming,
    Events!Comes, Events!ConnIds
<1>7. Events!Warming'
  BY <1>1, <1>2 DEF Events!Rotate, Events!Calling, Events!calls, Events!auth, Events!rotation,
    Events!net, Events!TypeOK, Events!Linked, Events!Warming, Events!ConnIds
<1>8. Events!Accounted'
  BY <1>1 DEF Events!Accounted, Events!HoldersOf
<1> QED
  BY <1>3, <1>4, <1>5, <1>6, <1>7, <1>8

(* resubscribe of the warm connection. *)
LEMMA EventsWarmResubscribeStep ==
    ASSUME ConstantsOK, Events!EventsInv, Events!WarmResubscribe
    PROVE  Events!EventsInv'
<1> USE DEF ConstantsOK, Events!EventsInv, Events!Senders
<1>1. refs' = refs /\ owned' = owned /\ Events!Wanted' = Events!Wanted
  BY DEF Events!WarmResubscribe, Events!calls, Events!Wanted
<1>2. Events!Wanted \subseteq Types
  BY DEF Events!Wanted
<1>3. Events!TypeOK'
  BY <1>1, <1>2 DEF Events!WarmResubscribe, Events!calls, Events!auth, Events!rotation,
    Events!net, Events!TypeOK, Events!ConnIds, Events!NoMsg
<1>4. Events!Linked'
  BY <1>1, <1>2 DEF Events!WarmResubscribe, Events!calls, Events!auth, Events!rotation,
    Events!net, Events!TypeOK, Events!Linked, Events!ConnIds
<1>5. Events!Messages'
  BY <1>1, <1>2 DEF Events!WarmResubscribe, Events!calls, Events!auth, Events!rotation,
    Events!net, Events!TypeOK, Events!Messages
<1>6. Events!Covering'
  BY <1>1, <1>2 DEF Events!WarmResubscribe, Events!calls, Events!auth, Events!rotation,
    Events!net, Events!TypeOK, Events!Linked, Events!Messages, Events!Covering, Events!Warming,
    Events!Comes, Events!Calling, Events!ConnIds
<1>7. Events!Warming'
  BY <1>1, <1>2 DEF Events!WarmResubscribe, Events!calls, Events!auth, Events!rotation,
    Events!net, Events!TypeOK, Events!Linked, Events!Warming, Events!Calling, Events!ConnIds
<1>8. Events!Accounted'
  BY <1>1 DEF Events!Accounted, Events!HoldersOf
<1> QED
  BY <1>3, <1>4, <1>5, <1>6, <1>7, <1>8

(* It writes. *)
LEMMA EventsWarmWritesStep ==
    ASSUME ConstantsOK, Events!EventsInv, Events!WarmWrites
    PROVE  Events!EventsInv'
<1> USE DEF ConstantsOK, Events!EventsInv, Events!Senders
<1>1. refs' = refs /\ owned' = owned /\ Events!Wanted' = Events!Wanted
  BY DEF Events!WarmWrites, Events!calls, Events!Wanted
<1>2. Events!Wanted \subseteq Types
  BY DEF Events!Wanted
<1>3. Events!TypeOK'
  BY <1>1, <1>2 DEF Events!WarmWrites, Events!Apply, Events!calls, Events!auth, Events!rotation,
    Events!net, Events!TypeOK, Events!ConnIds, Events!NoMsg
<1>4. Events!Linked'
  BY <1>1, <1>2 DEF Events!WarmWrites, Events!Apply, Events!calls, Events!auth, Events!rotation,
    Events!net, Events!TypeOK, Events!Linked, Events!ConnIds
<1>5. Events!Messages'
  BY <1>1, <1>2 DEF Events!WarmWrites, Events!Apply, Events!calls, Events!auth, Events!rotation,
    Events!net, Events!TypeOK, Events!Messages
<1>6. Events!Covering'
  BY <1>1, <1>2 DEF Events!WarmWrites, Events!Apply, Events!calls, Events!auth, Events!rotation,
    Events!net, Events!TypeOK, Events!Linked, Events!Messages, Events!Covering, Events!Warming,
    Events!Comes, Events!Calling, Events!ConnIds
<1>7. Events!Warming'
  BY <1>1, <1>2 DEF Events!WarmWrites, Events!Apply, Events!calls, Events!auth, Events!rotation,
    Events!net, Events!TypeOK, Events!Linked, Events!Warming, Events!Calling, Events!ConnIds
<1>8. Events!Accounted'
  BY <1>1 DEF Events!Accounted, Events!HoldersOf
<1> QED
  BY <1>3, <1>4, <1>5, <1>6, <1>7, <1>8

(* abortHandoffIf. *)
LEMMA EventsAbortHandoffStep ==
    ASSUME ConstantsOK, Events!EventsInv, Events!AbortHandoff
    PROVE  Events!EventsInv'
<1> USE DEF ConstantsOK, Events!EventsInv, Events!Senders
<1>1. refs' = refs /\ owned' = owned /\ Events!Wanted' = Events!Wanted
  BY DEF Events!AbortHandoff, Events!calls, Events!Wanted
<1>2. Events!Wanted \subseteq Types
  BY DEF Events!Wanted
<1>3. Events!TypeOK'
  BY <1>1, <1>2 DEF Events!AbortHandoff, Events!EndHandoff, Events!Forget, Events!calls,
    Events!auth, Events!rotation, Events!net, Events!TypeOK, Events!ConnIds, Events!NoMsg
<1>4. Events!Linked'
  BY <1>1, <1>2 DEF Events!AbortHandoff, Events!EndHandoff, Events!Forget, Events!calls,
    Events!auth, Events!rotation, Events!net, Events!TypeOK, Events!Linked, Events!ConnIds
<1>5. Events!Messages'
  BY <1>1, <1>2 DEF Events!AbortHandoff, Events!EndHandoff, Events!Forget, Events!calls,
    Events!auth, Events!rotation, Events!net, Events!TypeOK, Events!Messages
<1>6. Events!Covering'
  BY <1>1, <1>2 DEF Events!AbortHandoff, Events!EndHandoff, Events!Forget, Events!calls,
    Events!auth, Events!rotation, Events!net, Events!TypeOK, Events!Linked, Events!Messages,
    Events!Covering, Events!Warming, Events!Comes, Events!Calling, Events!ConnIds
<1>7. Events!Warming'
  BY <1>1, <1>2 DEF Events!AbortHandoff, Events!EndHandoff, Events!Forget, Events!calls,
    Events!auth, Events!rotation, Events!net, Events!TypeOK, Events!Linked, Events!Warming,
    Events!Calling, Events!ConnIds
<1>8. Events!Accounted'
  BY <1>1 DEF Events!Accounted, Events!HoldersOf
<1> QED
  BY <1>3, <1>4, <1>5, <1>6, <1>7, <1>8

(* promoteHandoff. *)
LEMMA EventsPromoteStep ==
    ASSUME ConstantsOK, Events!EventsInv, Events!Promote
    PROVE  Events!EventsInv'
<1> USE DEF ConstantsOK, Events!EventsInv, Events!Senders
<1>1. refs' = refs /\ owned' = owned /\ Events!Wanted' = Events!Wanted
  BY DEF Events!Promote, Events!calls, Events!Wanted
<1>2. Events!Wanted \subseteq Types
  BY DEF Events!Wanted
<1>3. Events!TypeOK'
  BY <1>1, <1>2 DEF Events!Promote, Events!Barrier, Events!EndHandoff, Events!Forget,
    Events!calls, Events!auth, Events!rotation, Events!net, Events!TypeOK, Events!ConnIds,
    Events!NoMsg
<1>4. Events!Linked'
  BY <1>1, <1>2 DEF Events!Promote, Events!Barrier, Events!EndHandoff, Events!Forget,
    Events!calls, Events!auth, Events!rotation, Events!net, Events!TypeOK, Events!Linked,
    Events!ConnIds
<1>5. Events!Messages'
  BY <1>1, <1>2 DEF Events!Promote, Events!Barrier, Events!EndHandoff, Events!Forget,
    Events!calls, Events!auth, Events!rotation, Events!net, Events!TypeOK, Events!Messages
<1>6. Events!Covering'
  BY <1>1, <1>2 DEF Events!Promote, Events!Barrier, Events!EndHandoff, Events!Forget,
    Events!calls, Events!auth, Events!rotation, Events!net, Events!TypeOK, Events!Linked,
    Events!Messages, Events!Covering, Events!Warming, Events!Comes, Events!Calling, Events!ConnIds
<1>7. Events!Warming'
  BY <1>1, <1>2 DEF Events!Promote, Events!Barrier, Events!EndHandoff, Events!Forget,
    Events!calls, Events!auth, Events!rotation, Events!net, Events!TypeOK, Events!Linked,
    Events!Warming, Events!Calling, Events!ConnIds
<1>8. Events!Accounted'
  BY <1>1 DEF Events!Accounted, Events!HoldersOf
<1> QED
  BY <1>3, <1>4, <1>5, <1>6, <1>7, <1>8

(* A socket dies. *)
LEMMA EventsDropStep ==
    ASSUME ConstantsOK, Events!EventsInv, NEW c \in Events!ConnIds, Events!Drop(c)
    PROVE  Events!EventsInv'
<1> USE DEF ConstantsOK, Events!EventsInv, Events!Senders
<1>1. refs' = refs /\ owned' = owned /\ Events!Wanted' = Events!Wanted
  BY DEF Events!Drop, Events!calls, Events!Wanted
<1>2. Events!Wanted \subseteq Types
  BY DEF Events!Wanted
<1>3. Events!TypeOK'
  BY <1>1, <1>2 DEF Events!Drop, Events!Forget, Events!calls, Events!auth, Events!rotation,
    Events!net, Events!TypeOK, Events!ConnIds, Events!NoMsg
<1>4. Events!Linked'
  BY <1>1, <1>2 DEF Events!Drop, Events!Forget, Events!calls, Events!auth, Events!rotation,
    Events!net, Events!TypeOK, Events!Linked, Events!ConnIds
<1>5. Events!Messages'
  BY <1>1, <1>2 DEF Events!Drop, Events!Forget, Events!calls, Events!auth, Events!rotation,
    Events!net, Events!TypeOK, Events!Messages
<1>6. Events!Covering'
  BY <1>1, <1>2 DEF Events!Drop, Events!Forget, Events!calls, Events!auth, Events!rotation,
    Events!net, Events!TypeOK, Events!Linked, Events!Messages, Events!Covering, Events!Warming,
    Events!Comes, Events!Calling, Events!ConnIds
<1>7. Events!Warming'
  BY <1>1, <1>2 DEF Events!Drop, Events!Forget, Events!calls, Events!auth, Events!rotation,
    Events!net, Events!TypeOK, Events!Linked, Events!Warming, Events!Calling, Events!ConnIds
<1>8. Events!Accounted'
  BY <1>1 DEF Events!Accounted, Events!HoldersOf
<1> QED
  BY <1>3, <1>4, <1>5, <1>6, <1>7, <1>8

(* All of them. *)
LEMMA EventsKept ==
    ASSUME ConstantsOK, Events!EventsInv, [Events!Next]_(Events!vars)
    PROVE  Events!EventsInv'
<1>1. CASE \E o \in Owners : Events!CallerStep(o)
  BY <1>1, EventsSubscribeEventsStep, EventsUnsubscribeEventsStep, EventsSendWhenConnectedStep,
     EventsDeferStep DEF Events!CallerStep
<1>2. CASE \E s \in Events!Senders : Events!SenderStep(s)
  BY <1>2, EventsSendStep, EventsWriteStep DEF Events!SenderStep
<1>3. CASE Events!ConnStep
  BY <1>3, EventsConnectStep, EventsOnAuthenticatedStep, EventsResubscribeStep,
     EventsResubscribeWritesStep, EventsRunCallbackStep, EventsCallbacksDoneStep,
     EventsReadFailsStep, EventsEndAttemptStep, EventsRotateStep, EventsWarmResubscribeStep,
     EventsWarmWritesStep, EventsAbortHandoffStep, EventsPromoteStep DEF Events!ConnStep
<1>4. CASE \E c \in Events!ConnIds : Events!Drop(c)
  BY <1>4, EventsDropStep
<1>5. CASE UNCHANGED Events!vars
  <2> USE <1>5 DEF Events!EventsInv, Events!vars, Events!calls, Events!auth, Events!rotation, Events!net
  <2>1. Events!TypeOK'
    BY DEF Events!TypeOK
  <2>2. Events!Linked' /\ Events!Messages' /\ Events!Warming'
    BY DEF Events!Linked, Events!Messages, Events!Warming, Events!Calling, Events!Wanted
  <2>3. Events!Covering'
    BY DEF Events!Covering, Events!Comes, Events!Wanted
  <2>4. Events!Accounted'
    BY DEF Events!Accounted, Events!HoldersOf
  <2> QED
    BY <2>1, <2>2, <2>3, <2>4
<1> QED
  BY <1>1, <1>2, <1>3, <1>4, <1>5 DEF Events!Next

LEMMA EventsInitInv == ConstantsOK /\ Events!Init => Events!EventsInv
<1> SUFFICES ASSUME ConstantsOK, Events!Init PROVE Events!EventsInv
  OBVIOUS
<1> USE DEF ConstantsOK, Events!Init
<1>1. overlap \in BOOLEAN /\ connected \in BOOLEAN
  BY Zenon
<1>2. Events!TypeOK
  <2>1. Events!NoMsg \in [subscribe : BOOLEAN, types : SUBSET Types]
    BY DEF Events!NoMsg
  <2> QED
    BY <1>1, <2>1 DEF Events!TypeOK, Events!Senders, Events!ConnIds
<1>3. Events!Linked /\ Events!Messages /\ Events!Covering /\ Events!Warming
  BY DEF Events!Linked, Events!Messages, Events!Covering, Events!Warming, Events!Senders
<1>4. Events!Accounted
  <2>1. \A t \in Types : refs[t] = 0 /\ Events!HoldersOf(t) = {}
    BY DEF Events!HoldersOf
  <2>2. \A t \in Types : refs[t] = Cardinality(Events!HoldersOf(t))
    BY <2>1, FS_EmptySet
  <2> QED
    BY <2>2, EventsCardinality DEF Events!Accounted
<1> QED
  BY <1>2, <1>3, <1>4 DEF Events!EventsInv

(* Once every message is out, nothing is about to be registered. *)
LEMMA EventsQuiet ==
    ASSUME ConstantsOK, Events!EventsInv
    PROVE  Events!CoveredApart
<1> USE DEF ConstantsOK, Events!EventsInv
<1> SUFFICES ASSUME ~overlap, Events!Quiet, NEW o \in Owners, NEW t \in owned[o]
             PROVE  t \in server[conn]
  BY DEF Events!CoveredApart, Events!Covered
<1>1. t \in Types /\ o \in Events!HoldersOf(t)
  BY DEF Events!TypeOK, Events!HoldersOf
<1>2. IsFiniteSet(Events!HoldersOf(t))
  BY FS_Subset DEF Events!HoldersOf
<1>3. Cardinality(Events!HoldersOf(t)) \in Nat /\ Cardinality(Events!HoldersOf(t)) # 0
  BY <1>1, <1>2, FS_EmptySet, FS_CardinalityType
<1>4. t \in Events!Wanted
  <2>1. refs[t] = Cardinality(Events!HoldersOf(t))
    BY <1>1, EventsCardinality DEF Events!Accounted
  <2> QED
    BY <1>1, <1>3, <2>1 DEF Events!Wanted
<1>5. connected /\ conn \in alive /\ rpc = "serve"
  BY DEF Events!Quiet, Events!Linked
<1>6. \A p \in Owners : ~Events!Comes(p, t)
  BY DEF Events!Quiet, Events!Senders, Events!Comes
<1> QED
  BY <1>4, <1>5, <1>6 DEF Events!Covering

(* subscribeEvents and resubscribe, for any callers, types, connections    *)
(* and rotations: as long as calls overlap neither each other nor a        *)
(* handoff on the connection, what a caller holds is registered, once      *)
(* every message is out, on the connection consumers are served from,      *)
(* whatever died, was deferred or was handed over in between.              *)
THEOREM EventsAreCovered == Spec => []EventsCovered
<1> DEFINE Inv == part = "events" => Events!EventsInv
<1>1. Init => Inv
  BY ConstantsOK, EventsInitInv DEF Init
<1>2. Inv /\ [Next]_vars => Inv'
  <2> SUFFICES ASSUME Inv, [Next]_vars, part' = "events" PROVE Events!EventsInv'
    OBVIOUS
  <2>1. part = "events" /\ [Events!Next]_(Events!vars)
    BY DEF Next, vars, EventsNext, MidsNext, CandlesNext, DeliveryNext, PathsNext, BaseNext,
      link, calls, owners, later, handoff, eventsOnly, Events!vars, Events!calls, Events!auth,
      Events!rotation, Events!net
  <2> QED
    BY <2>1, ConstantsOK, EventsKept
<1>3. Inv => EventsCovered
  BY ConstantsOK, EventsQuiet DEF EventsCovered, Events!EventsInv
<1> QED
  BY <1>1, <1>2, <1>3, PTL DEF Spec

-----------------------------------------------------------------------------
(* EventDelivery: checkGap and promoteHandoff.                             *)

(* The cardinality of the module is that of FiniteSets. *)
LEMMA DeliveryCardinality == \A S : Delivery!Cardinality(S) = Cardinality(S)
BY DEF Delivery!Cardinality, Cardinality

(* What a message is made of. *)
LEMMA DeliveryMessages ==
    ASSUME ConstantsOK
    PROVE  /\ \A m \in Delivery!Message :
                 /\ m.kind \in {"event", "resync", "pong"}
                 /\ m.ev \in 0..MaxEvents /\ m.seq \in Nat
           /\ Delivery!NoMessage \in Delivery!Message
           /\ Delivery!NoMessage.kind = "pong" /\ Delivery!NoMessage.ev = 0
           /\ \A kind, ev, seq : LET m == Delivery!Msg(kind, ev, seq)
                                 IN  m.kind = kind /\ m.ev = ev /\ m.seq = seq
           /\ \A kind \in {"event", "resync", "pong"}, ev \in 0..MaxEvents, seq \in Nat :
                 Delivery!Msg(kind, ev, seq) \in Delivery!Message
           /\ Delivery!Msg("pong", 0, 0) = Delivery!NoMessage
BY DEF ConstantsOK, Delivery!Message, Delivery!NoMessage, Delivery!Msg

(* r is q with m behind it; r is what is left of q behind its first.       *)
Extends(r, q, m) ==
    Len(r) = Len(q) + 1 /\ r[Len(q) + 1] = m /\ \A i \in 1..Len(q) : r[i] = q[i]
Shifts(r, q) == Len(q) = Len(r) + 1 /\ \A i \in 1..Len(r) : r[i] = q[i + 1]

LEMMA DeliveryAppended ==
    ASSUME NEW q \in Seq(Delivery!Message), NEW m \in Delivery!Message
    PROVE  Append(q, m) \in Seq(Delivery!Message) /\ Extends(Append(q, m), q, m)
BY DEF Extends

LEMMA DeliveryShifted ==
    ASSUME NEW q \in Seq(Delivery!Message), q # <<>>
    PROVE  /\ Tail(q) \in Seq(Delivery!Message) /\ Shifts(Tail(q), q)
           /\ Head(q) = q[1] /\ q[1] \in Delivery!Message /\ Len(q) > 0
BY DEF Shifts

(* What is in the sets of a queue's events and markers. *)
LEMMA QueueMembers ==
    ASSUME NEW q
    PROVE  /\ \A e : e \in Delivery!EventsOf(q) <=> e # 0 /\ \E i \in 1..Len(q) : e = q[i].ev
           /\ \A k : k \in Delivery!MarkersOf(q) <=>
                 \E i \in 1..Len(q) : k = q[i].seq /\ q[i].kind = "resync"
BY DEF Delivery!EventsOf, Delivery!MarkersOf

(* What a queue holds when a message is put behind it... *)
LEMMA QueueExtends ==
    ASSUME ConstantsOK, NEW q \in Seq(Delivery!Message), NEW r \in Seq(Delivery!Message),
           NEW m \in Delivery!Message, Extends(r, q, m)
    PROVE  /\ Delivery!EventsOf(r) = Delivery!EventsOf(q) \cup ({m.ev} \ {0})
           /\ Delivery!Distinct(q) /\ m.ev \notin Delivery!EventsOf(q) => Delivery!Distinct(r)
           /\ Delivery!MarkersOf(r) =
                 Delivery!MarkersOf(q) \cup (IF m.kind = "resync" THEN {m.seq} ELSE {})
           /\ \A p \in Nat : Delivery!AllProper(q, p) /\ Delivery!Proper(m, p) =>
                 Delivery!AllProper(r, p)
           /\ \A a, n \in Nat :
                 /\ Delivery!Numbered(q, a, n) /\ m.seq = n + 1 => Delivery!Numbered(r, a, n + 1)
                 /\ Delivery!LastOf(r, a) = m.seq
                 /\ Delivery!FromOne(q, n) /\ m.seq = n + 1 => Delivery!FromOne(r, n + 1)
<1> USE DEF Extends
<1>1. /\ Len(q) \in Nat /\ Len(r) = Len(q) + 1 /\ r[Len(r)] = m
      /\ \A i \in 1..Len(r) : i = Len(r) \/ i \in 1..Len(q)
      /\ \A i \in 1..Len(q) : i \in 1..Len(r) /\ i # Len(r) /\ r[i] = q[i]
  OBVIOUS
<1>2. \A x \in Delivery!Message : x.ev \in Nat /\ x.seq \in Nat
  BY DEF ConstantsOK, Delivery!Message
<1>3. Delivery!EventsOf(r) = Delivery!EventsOf(q) \cup ({m.ev} \ {0})
  BY <1>1 DEF Delivery!EventsOf
<1>4. ASSUME Delivery!Distinct(q), m.ev \notin Delivery!EventsOf(q) PROVE Delivery!Distinct(r)
  BY <1>1, <1>4 DEF Delivery!Distinct, Delivery!EventsOf
<1>5. Delivery!MarkersOf(r) =
          Delivery!MarkersOf(q) \cup (IF m.kind = "resync" THEN {m.seq} ELSE {})
  BY <1>1 DEF Delivery!MarkersOf
<1>6. ASSUME NEW p \in Nat, Delivery!AllProper(q, p), Delivery!Proper(m, p)
      PROVE  Delivery!AllProper(r, p)
  BY <1>1, <1>6 DEF Delivery!AllProper
<1>7. ASSUME NEW a \in Nat, NEW n \in Nat, Delivery!Numbered(q, a, n), m.seq = n + 1
      PROVE  Delivery!Numbered(r, a, n + 1)
  <2>1. \A i \in 1..Len(q) : q[i].seq \in Nat /\ r[i].seq = q[i].seq
    BY <1>1, <1>2
  <2>2. \A i \in 1..Len(q) : /\ q[i].seq >= a + i /\ n >= q[i].seq + (Len(q) - i)
                               /\ \A j \in 1..Len(q) : i <= j => q[j].seq >= q[i].seq + (j - i)
    BY <1>7 DEF Delivery!Numbered
  <2>3. n >= a + Len(q) /\ r[Len(r)].seq = n + 1
    BY <1>1, <1>7 DEF Delivery!Numbered
  <2>4. \A i \in 1..Len(r) : r[i].seq >= a + i /\ n + 1 >= r[i].seq + (Len(r) - i)
    <3> SUFFICES ASSUME NEW i \in 1..Len(r)
                 PROVE  r[i].seq >= a + i /\ n + 1 >= r[i].seq + (Len(r) - i)
      OBVIOUS
    <3>1. CASE i = Len(r)
      BY <3>1, <1>1, <2>3
    <3>2. CASE i \in 1..Len(q)
      <4>1. r[i].seq = q[i].seq /\ q[i].seq \in Nat /\ q[i].seq >= a + i
            /\ n >= q[i].seq + (Len(q) - i)
        BY <3>2, <2>1, <2>2
      <4> QED
        BY <3>2, <4>1, <1>1
    <3> QED
      BY <3>1, <3>2, <1>1
  <2>5. \A i, j \in 1..Len(r) : i <= j => r[j].seq >= r[i].seq + (j - i)
    <3> SUFFICES ASSUME NEW i \in 1..Len(r), NEW j \in 1..Len(r), i <= j
                 PROVE  r[j].seq >= r[i].seq + (j - i)
      OBVIOUS
    <3>1. CASE j = Len(r) /\ i = Len(r)
      BY <3>1, <1>1, <2>3
    <3>2. CASE j = Len(r) /\ i \in 1..Len(q)
      <4>1. r[i].seq = q[i].seq /\ q[i].seq \in Nat /\ n >= q[i].seq + (Len(q) - i)
        BY <3>2, <2>1, <2>2
      <4> QED
        BY <3>2, <4>1, <1>1, <2>3
    <3>3. CASE j \in 1..Len(q) /\ i \in 1..Len(q)
      BY <3>3, <1>1, <2>1, <2>2
    <3> QED
      BY <3>1, <3>2, <3>3, <1>1
  <2> QED
    BY <1>1, <2>3, <2>4, <2>5 DEF Delivery!Numbered
<1>8. ASSUME NEW a \in Nat PROVE Delivery!LastOf(r, a) = m.seq
  BY <1>1 DEF Delivery!LastOf
<1>9. ASSUME NEW n \in Nat, Delivery!FromOne(q, n), m.seq = n + 1 PROVE Delivery!FromOne(r, n + 1)
  <2>1. r # <<>>
    BY <1>1
  <2>2. CASE q = <<>>
    BY <1>1, <1>9, <2>1, <2>2 DEF Delivery!FromOne
  <2>3. CASE q # <<>>
    BY <1>1, <1>9, <2>1, <2>3 DEF Delivery!FromOne
  <2> QED
    BY <2>2, <2>3
<1> QED
  BY <1>3, <1>4, <1>5, <1>6, <1>7, <1>8, <1>9

(* ...when its first message is taken... *)
LEMMA QueueShifts ==
    ASSUME ConstantsOK, NEW q \in Seq(Delivery!Message), NEW r \in Seq(Delivery!Message),
           Shifts(r, q)
    PROVE  /\ Delivery!EventsOf(q) = Delivery!EventsOf(r) \cup ({q[1].ev} \ {0})
           /\ Delivery!Distinct(q) => Delivery!Distinct(r) /\ q[1].ev \notin Delivery!EventsOf(r)
           /\ Delivery!MarkersOf(q) =
                 Delivery!MarkersOf(r) \cup (IF q[1].kind = "resync" THEN {q[1].seq} ELSE {})
           /\ \A p \in Nat : Delivery!AllProper(q, p) =>
                 Delivery!AllProper(r, p) /\ Delivery!Proper(q[1], p)
           /\ \A a, n \in Nat :
                 /\ Delivery!Numbered(q, a, n) =>
                       Delivery!Numbered(r, q[1].seq, n) /\ q[1].seq > a
                 /\ Delivery!LastOf(r, q[1].seq) = Delivery!LastOf(q, a)
                 /\ Delivery!FromOne(q, n) => q[1].seq = 1
<1> USE DEF Shifts
<1>1. /\ Len(r) \in Nat /\ Len(q) = Len(r) + 1 /\ q # <<>>
      /\ 1 \in 1..Len(q) /\ q[1] \in Delivery!Message
      /\ \A i \in 1..Len(r) : i + 1 \in 1..Len(q) /\ i + 1 # 1 /\ r[i] = q[i + 1]
      /\ \A i \in 1..Len(q) : i # 1 => i - 1 \in 1..Len(r) /\ q[i] = r[i - 1]
  <2>1. Len(r) \in Nat /\ Len(q) = Len(r) + 1
    OBVIOUS
  <2>2. q # <<>> /\ 1 \in 1..Len(q) /\ q[1] \in Delivery!Message
    BY <2>1
  <2>3. \A i \in 1..Len(r) : i + 1 \in 1..Len(q) /\ i + 1 # 1 /\ r[i] = q[i + 1]
    BY <2>1
  <2>4. ASSUME NEW i \in 1..Len(q), i # 1 PROVE i - 1 \in 1..Len(r) /\ q[i] = r[i - 1]
    <3>1. i - 1 \in 1..Len(r) /\ (i - 1) + 1 = i
      BY <2>1, <2>4
    <3> QED
      BY <3>1, <2>3
  <2> QED
    BY <2>1, <2>2, <2>3, <2>4
<1>2. \A x \in Delivery!Message : x.ev \in Nat /\ x.seq \in Nat
  BY DEF ConstantsOK, Delivery!Message
<1> HIDE DEF Shifts
<1>3. Delivery!EventsOf(q) = Delivery!EventsOf(r) \cup ({q[1].ev} \ {0})
  <2>1. ASSUME NEW e, e \in Delivery!EventsOf(q)
        PROVE  e \in Delivery!EventsOf(r) \/ (e = q[1].ev /\ e # 0)
    <3>1. PICK i \in 1..Len(q) : e = q[i].ev /\ e # 0
      BY <2>1, QueueMembers
    <3>2. CASE i = 1
      BY <3>1, <3>2
    <3>3. CASE i # 1
      <4>1. i - 1 \in 1..Len(r) /\ q[i] = r[i - 1]
        BY <1>1, <3>3
      <4> QED
        BY <3>1, <4>1, QueueMembers
    <3> QED
      BY <3>2, <3>3
  <2>2. ASSUME NEW e, e \in Delivery!EventsOf(r) PROVE e \in Delivery!EventsOf(q)
    <3>1. PICK i \in 1..Len(r) : e = r[i].ev /\ e # 0
      BY <2>2, QueueMembers
    <3>2. i + 1 \in 1..Len(q) /\ r[i] = q[i + 1]
      BY <1>1
    <3> QED
      BY <3>1, <3>2, QueueMembers
  <2>3. ASSUME NEW e, e = q[1].ev /\ e # 0 PROVE e \in Delivery!EventsOf(q)
    BY <1>1, <2>3, QueueMembers
  <2> QED
    BY <2>1, <2>2, <2>3
<1>4. ASSUME Delivery!Distinct(q)
      PROVE  Delivery!Distinct(r) /\ q[1].ev \notin Delivery!EventsOf(r)
  <2>1. \A i, j \in 1..Len(r) : r[i].ev = r[j].ev /\ r[i].ev # 0 => i = j
    <3> SUFFICES ASSUME NEW i \in 1..Len(r), NEW j \in 1..Len(r),
                        r[i].ev = r[j].ev, r[i].ev # 0
                 PROVE  i = j
      OBVIOUS
    <3>1. /\ i + 1 \in 1..Len(q) /\ j + 1 \in 1..Len(q)
          /\ q[i + 1].ev = q[j + 1].ev /\ q[i + 1].ev # 0
      BY <1>1
    <3>2. i + 1 = j + 1
      BY <1>4, <3>1 DEF Delivery!Distinct
    <3> QED
      BY <3>2
  <2>2. ASSUME q[1].ev \in Delivery!EventsOf(r) PROVE FALSE
    <3>1. PICK i \in 1..Len(r) : q[1].ev = r[i].ev /\ q[1].ev # 0
      BY <2>2, QueueMembers
    <3>2. i + 1 \in 1..Len(q) /\ q[i + 1].ev = q[1].ev /\ i + 1 # 1
      BY <3>1, <1>1
    <3> QED
      BY <1>1, <1>4, <3>1, <3>2 DEF Delivery!Distinct
  <2> QED
    BY <2>1, <2>2 DEF Delivery!Distinct
<1>5. Delivery!MarkersOf(q) =
          Delivery!MarkersOf(r) \cup (IF q[1].kind = "resync" THEN {q[1].seq} ELSE {})
  <2>1. ASSUME NEW k, k \in Delivery!MarkersOf(q)
        PROVE  k \in Delivery!MarkersOf(r) \/ (k = q[1].seq /\ q[1].kind = "resync")
    <3>1. PICK i \in 1..Len(q) : k = q[i].seq /\ q[i].kind = "resync"
      BY <2>1, QueueMembers
    <3>2. CASE i = 1
      BY <3>1, <3>2
    <3>3. CASE i # 1
      <4>1. i - 1 \in 1..Len(r) /\ q[i] = r[i - 1]
        BY <1>1, <3>3
      <4> QED
        BY <3>1, <4>1, QueueMembers
    <3> QED
      BY <3>2, <3>3
  <2>2. ASSUME NEW k, k \in Delivery!MarkersOf(r) PROVE k \in Delivery!MarkersOf(q)
    <3>1. PICK i \in 1..Len(r) : k = r[i].seq /\ r[i].kind = "resync"
      BY <2>2, QueueMembers
    <3>2. i + 1 \in 1..Len(q) /\ r[i] = q[i + 1]
      BY <1>1
    <3> QED
      BY <3>1, <3>2, QueueMembers
  <2>3. ASSUME NEW k, k = q[1].seq /\ q[1].kind = "resync" PROVE k \in Delivery!MarkersOf(q)
    BY <1>1, <2>3, QueueMembers
  <2> QED
    BY <2>1, <2>2, <2>3
<1>6. ASSUME NEW p \in Nat, Delivery!AllProper(q, p)
      PROVE  Delivery!AllProper(r, p) /\ Delivery!Proper(q[1], p)
  BY <1>1, <1>6 DEF Delivery!AllProper
<1>7. ASSUME NEW a \in Nat, NEW n \in Nat, Delivery!Numbered(q, a, n)
      PROVE  Delivery!Numbered(r, q[1].seq, n) /\ q[1].seq > a
  <2>1. /\ q[1].seq \in Nat
        /\ \A i \in 1..Len(r) : r[i].seq \in Nat /\ r[i].seq = q[i + 1].seq
    BY <1>1, <1>2
  <2>2. \A i \in 1..Len(q) : /\ q[i].seq >= a + i /\ n >= q[i].seq + (Len(q) - i)
                               /\ \A j \in 1..Len(q) : i <= j => q[j].seq >= q[i].seq + (j - i)
    BY <1>7 DEF Delivery!Numbered
  <2>3. n >= q[1].seq + Len(r) /\ q[1].seq > a
    BY <1>1, <2>1, <2>2
  <2>4. \A i \in 1..Len(r) : r[i].seq >= q[1].seq + i /\ n >= r[i].seq + (Len(r) - i)
    <3> SUFFICES ASSUME NEW i \in 1..Len(r)
                 PROVE  r[i].seq >= q[1].seq + i /\ n >= r[i].seq + (Len(r) - i)
      OBVIOUS
    <3>1. /\ 1 <= i + 1 /\ i + 1 \in 1..Len(q) /\ q[i + 1].seq >= q[1].seq + ((i + 1) - 1)
          /\ n >= q[i + 1].seq + (Len(q) - (i + 1))
      BY <1>1, <2>2
    <3> QED
      BY <3>1, <1>1, <2>1
  <2>5. \A i, j \in 1..Len(r) : i <= j => r[j].seq >= r[i].seq + (j - i)
    <3> SUFFICES ASSUME NEW i \in 1..Len(r), NEW j \in 1..Len(r), i <= j
                 PROVE  r[j].seq >= r[i].seq + (j - i)
      OBVIOUS
    <3>1. /\ i + 1 \in 1..Len(q) /\ j + 1 \in 1..Len(q) /\ i + 1 <= j + 1
          /\ r[i].seq = q[i + 1].seq /\ r[j].seq = q[j + 1].seq /\ r[i].seq \in Nat
          /\ r[j].seq \in Nat
      BY <1>1, <2>1
    <3>2. q[j + 1].seq >= q[i + 1].seq + ((j + 1) - (i + 1))
      BY <3>1, <2>2
    <3> QED
      BY <3>1, <3>2
  <2> QED
    BY <2>3, <2>4, <2>5 DEF Delivery!Numbered
<1>8. ASSUME NEW a \in Nat PROVE Delivery!LastOf(r, q[1].seq) = Delivery!LastOf(q, a)
  BY <1>1 DEF Delivery!LastOf
<1>9. ASSUME NEW n \in Nat, Delivery!FromOne(q, n) PROVE q[1].seq = 1
  BY <1>1, <1>9 DEF Delivery!FromOne
<1> QED
  BY <1>3, <1>4, <1>5, <1>6, <1>7, <1>8, <1>9

(* ...when it is empty... *)
LEMMA QueueEmpty ==
    /\ Delivery!EventsOf(<<>>) = {} /\ Delivery!Distinct(<<>>) /\ Delivery!MarkersOf(<<>>) = {}
    /\ \A p : Delivery!AllProper(<<>>, p)
    /\ \A a \in Nat : Delivery!LastOf(<<>>, a) = a
    /\ Delivery!Numbered(<<>>, 0, 0) /\ Delivery!FromOne(<<>>, 0)
BY DEF Delivery!EventsOf, Delivery!Distinct, Delivery!MarkersOf, Delivery!AllProper,
  Delivery!LastOf, Delivery!Numbered, Delivery!FromOne

(* ...or when the server uses a number it does not send, or publishes.     *)
LEMMA QueueKept ==
    ASSUME ConstantsOK, NEW q \in Seq(Delivery!Message)
    PROVE  /\ \A p \in Nat : Delivery!AllProper(q, p) =>
                 /\ Delivery!AllProper(q, p + 1)
                 /\ \A e \in Delivery!EventsOf(q) : e \in 1..p
           /\ \A m \in Delivery!Message, p \in Nat : Delivery!Proper(m, p) => Delivery!Proper(m, p + 1)
           /\ \A a, n \in Nat : Delivery!Numbered(q, a, n) =>
                 /\ Delivery!Numbered(q, a, n + 1)
                 /\ n >= a + Len(q)
                 /\ \A k \in Delivery!MarkersOf(q) : k \in (a + 1)..n
           /\ \A a \in Nat : Delivery!LastOf(q, a) \in Nat
<1>1. \A x \in Delivery!Message : x.ev \in Nat /\ x.seq \in Nat /\ x.kind \in {"event", "resync", "pong"}
  BY DEF ConstantsOK, Delivery!Message
<1>2. \A i \in 1..Len(q) : q[i] \in Delivery!Message
  OBVIOUS
<1>3. \A m \in Delivery!Message, p \in Nat : Delivery!Proper(m, p) => Delivery!Proper(m, p + 1)
  BY DEF Delivery!Proper
<1>4. ASSUME NEW p \in Nat, Delivery!AllProper(q, p) PROVE Delivery!AllProper(q, p + 1)
  BY <1>2, <1>3, <1>4 DEF Delivery!AllProper
<1>5. ASSUME NEW p \in Nat, Delivery!AllProper(q, p), NEW e \in Delivery!EventsOf(q) PROVE e \in 1..p
  <2>1. Delivery!NoMessage.ev = 0
    BY DEF Delivery!NoMessage
  <2> QED
    <3>1. PICK i \in 1..Len(q) : e = q[i].ev /\ e # 0
      BY <1>5, QueueMembers
    <3> QED
      BY <1>1, <1>2, <1>5, <2>1, <3>1 DEF Delivery!AllProper, Delivery!Proper
<1>6. ASSUME NEW a \in Nat, NEW n \in Nat, Delivery!Numbered(q, a, n)
      PROVE  /\ Delivery!Numbered(q, a, n + 1)
             /\ n >= a + Len(q)
             /\ \A k \in Delivery!MarkersOf(q) : k \in (a + 1)..n
  <2>1. \A i \in 1..Len(q) : q[i].seq \in Nat
    BY <1>1, <1>2
  <2>2. n >= a + Len(q) /\ Len(q) \in Nat
    BY <1>6 DEF Delivery!Numbered
  <2>3. ASSUME NEW i \in 1..Len(q) PROVE q[i].seq \in (a + 1)..n /\ n + 1 >= q[i].seq + (Len(q) - i)
    <3>1. q[i].seq >= a + i /\ n >= q[i].seq + (Len(q) - i)
      BY <1>6 DEF Delivery!Numbered
    <3> QED
      BY <2>1, <2>2, <3>1
  <2>4. Delivery!Numbered(q, a, n + 1)
    <3>1. \A i \in 1..Len(q) : q[i].seq >= a + i
      BY <1>6 DEF Delivery!Numbered
    <3>2. \A i, j \in 1..Len(q) : i <= j => q[j].seq >= q[i].seq + (j - i)
      BY <1>6 DEF Delivery!Numbered
    <3>3. n + 1 >= a + Len(q)
      BY <2>2
    <3> QED
      BY <2>3, <3>1, <3>2, <3>3 DEF Delivery!Numbered
  <2> QED
    BY <2>2, <2>3, <2>4 DEF Delivery!MarkersOf
<1>7. ASSUME NEW a \in Nat PROVE Delivery!LastOf(q, a) \in Nat
  BY <1>1, <1>2 DEF Delivery!LastOf
<1> QED
  BY <1>3, <1>4, <1>5, <1>6, <1>7

(* One stream: what is known of its queue.                                 *)
LEMMA DeliveryOne ==
    ASSUME ConstantsOK, Delivery!DeliveryInv, Delivery!Single
    PROVE  /\ conn \in Delivery!ConnIds /\ sub = {conn} /\ resync \subseteq {conn}
           /\ inbox[conn] \in Seq(Delivery!Message) /\ hold[conn] \in Delivery!Message
           /\ next[conn] \in Nat /\ lastDeliverySeq \in Nat /\ Delivery!Ahead \in Nat
           /\ Delivery!Numbered(inbox[conn], Delivery!Ahead, next[conn])
           /\ next[conn] >= Delivery!Ahead + Len(inbox[conn])
           /\ hold[conn] # Delivery!NoMessage =>
                 Delivery!Ahead = hold[conn].seq /\ hold[conn].seq > lastDeliverySeq
           /\ hold[conn] = Delivery!NoMessage => Delivery!Ahead = lastDeliverySeq
           /\ Delivery!Unreported \in Nat
           /\ \A k \in Delivery!MarkersOf(inbox[conn]) : k \in (Delivery!Ahead + 1)..next[conn]
           /\ IsFiniteSet(Delivery!Markers) /\ Cardinality(Delivery!Markers) \in Nat
           /\ \A k \in Delivery!Markers : k \in Nat /\ k <= next[conn]
           /\ Delivery!Proper(hold[conn], published)
           /\ Delivery!AllProper(inbox[conn], published)
           /\ \A e \in Delivery!EventsOf(inbox[conn]) : e \in 1..published
<1> USE DEF ConstantsOK, Delivery!DeliveryInv
<1>1. /\ rotations = 0 /\ conn # None
      /\ conn \in Delivery!ConnIds /\ sub = {conn} /\ resync \subseteq {conn}
      /\ inbox[conn] \in Seq(Delivery!Message) /\ hold[conn] \in Delivery!Message
      /\ next[conn] \in Nat /\ lastDeliverySeq \in Nat /\ published \in Nat
  <2>1. rotations = 0 /\ conn # None
    BY DEF Delivery!Single
  <2>2. conn \in Delivery!ConnIds /\ conn \in sub /\ published \in Nat
    BY <2>1 DEF Delivery!TypeOK, Delivery!Linked
  <2>3. sub = {conn} /\ resync \subseteq {conn}
    BY <2>1, <2>2 DEF Delivery!Alone
  <2> QED
    BY <2>1, <2>2, <2>3 DEF Delivery!TypeOK
<1>2. hold[conn].seq \in Nat
  BY <1>1, DeliveryMessages
<1>3. /\ Delivery!Ahead \in Nat
      /\ Delivery!Numbered(inbox[conn], Delivery!Ahead, next[conn])
      /\ hold[conn] # Delivery!NoMessage =>
            Delivery!Ahead = hold[conn].seq /\ hold[conn].seq > lastDeliverySeq
      /\ hold[conn] = Delivery!NoMessage => Delivery!Ahead = lastDeliverySeq
  BY <1>1, <1>2 DEF Delivery!InOrder, Delivery!Ahead
<1>4. /\ next[conn] >= Delivery!Ahead + Len(inbox[conn])
      /\ \A k \in Delivery!MarkersOf(inbox[conn]) : k \in (Delivery!Ahead + 1)..next[conn]
  BY <1>1, <1>3, QueueKept
<1>5. Delivery!Unreported \in Nat
  <2> DEFINE l == Len(inbox[conn])
             n == next[conn]
             a == Delivery!Ahead
             h == hold[conn].seq
  <2>1. /\ l \in Nat /\ n \in Nat /\ a \in Nat /\ h \in Nat /\ lastDeliverySeq \in Nat
        /\ n >= a + l
        /\ hold[conn] # Delivery!NoMessage => h > lastDeliverySeq
    BY <1>1, <1>2, <1>3, <1>4
  <2>2. Delivery!Unreported =
            (IF hold[conn] = Delivery!NoMessage THEN 0 ELSE h - lastDeliverySeq - 1) + (n - a - l)
    BY DEF Delivery!Unreported
  <2> HIDE DEF l, n, a, h
  <2>3. n - a - l \in Nat
    BY <2>1
  <2>4. hold[conn] # Delivery!NoMessage => h - lastDeliverySeq - 1 \in Nat
    BY <2>1
  <2> QED
    BY <2>2, <2>3, <2>4
<1>6. \A k \in Delivery!Markers : k \in Nat /\ k <= next[conn]
  <2>1. hold[conn].kind = "resync" => hold[conn].seq <= next[conn]
    <3>1. Len(inbox[conn]) \in Nat
      BY <1>1
    <3> QED
      BY <1>1, <1>2, <1>3, <1>4, <3>1, DeliveryMessages
  <2> QED
    BY <1>1, <1>2, <1>3, <1>4, <2>1 DEF Delivery!Markers
<1>7. IsFiniteSet(Delivery!Markers) /\ Cardinality(Delivery!Markers) \in Nat
  <2>1. IsFiniteSet(0..next[conn])
    BY <1>1, FS_Interval
  <2>2. Delivery!Markers \subseteq 0..next[conn]
    BY <1>1, <1>6
  <2> QED
    BY <2>1, <2>2, FS_Subset, FS_CardinalityType
<1>8. Delivery!Proper(hold[conn], published) /\ Delivery!AllProper(inbox[conn], published)
  BY <1>1 DEF Delivery!WellFormed
<1>9. \A e \in Delivery!EventsOf(inbox[conn]) : e \in 1..published
  BY <1>1, <1>8, QueueKept
<1> QED
  BY <1>1, <1>3, <1>4, <1>5, <1>6, <1>7, <1>8, <1>9

(* Nothing is asked of a state that has rotated; of one that is not served *)
(* only that what was reported was lost, and nothing dispatched twice.     *)
LEMMA DeliveryElse ==
    ASSUME \/ rotations' # 0
           \/ conn' = None /\ missed' <= holes' /\ markers' <= overflows' /\ twice' = {}
    PROVE  /\ Delivery!InOrder' /\ Delivery!MissedCounted' /\ Delivery!MarkersCounted'
           /\ Delivery!NoneSilent' /\ Delivery!Once'
BY DEF Delivery!InOrder, Delivery!MissedCounted, Delivery!MarkersCounted, Delivery!NoneSilent,
  Delivery!Once, Delivery!Single

(* The server publishes. *)
LEMMA DeliveryPublishStep ==
    ASSUME ConstantsOK, Delivery!DeliveryInv, Delivery!Publish
    PROVE  Delivery!DeliveryInv'
<1> USE DEF ConstantsOK, Delivery!DeliveryInv
<1>1. \A k \in Delivery!ConnIds :
         /\ k \in sub => Extends(inbox'[k], inbox[k], Delivery!Msg("event", published + 1, next[k] + 1))
         /\ k \in sub => sent'[k] = next[k] + 1 /\ next'[k] = next[k] + 1
         /\ k \notin sub => inbox'[k] = inbox[k] /\ sent'[k] = sent[k]
         /\ k \notin sub => next'[k] = next[k]
  <2>1. \A k \in Delivery!ConnIds :
           /\ published + 1 \in 0..MaxEvents /\ next[k] + 1 \in Nat
           /\ inbox[k] \in Seq(Delivery!Message)
    BY DEF Delivery!Publish, Delivery!Broadcast, Delivery!TypeOK
  <2>2. \A k \in Delivery!ConnIds :
           Extends(Append(inbox[k], Delivery!Msg("event", published + 1, next[k] + 1)), inbox[k],
                   Delivery!Msg("event", published + 1, next[k] + 1))
    BY <2>1, DeliveryMessages, DeliveryAppended
  <2> QED
    BY <2>2 DEF Delivery!Publish, Delivery!Broadcast, Delivery!TypeOK
<1>2. /\ sub' = sub /\ resync' = resync /\ conn' = conn /\ lastDeliverySeq' = lastDeliverySeq
      /\ hold' = hold /\ warm' = warm /\ ready' = ready /\ used' = used
      /\ rotations' = rotations /\ seen' = seen /\ dispatched' = dispatched /\ twice' = twice
      /\ missed' = missed /\ markers' = markers /\ holes' = holes /\ overflows' = overflows
      /\ unread' = unread
      /\ published' = published + 1 /\ published < MaxEvents
  BY DEF Delivery!Publish, Delivery!Broadcast, Delivery!serverVars, Delivery!readVars,
    Delivery!rotVars, Delivery!lossVars, Delivery!outVars
<1>3. Delivery!TypeOK'
  <2>1. inbox' \in [Delivery!ConnIds -> Seq(Delivery!Message)]
    <3>1. published + 1 \in 0..MaxEvents
      BY <1>2 DEF Delivery!TypeOK
    <3>2. \A k \in Delivery!ConnIds :
             /\ inbox[k] \in Seq(Delivery!Message)
             /\ Delivery!Msg("event", published + 1, next[k] + 1) \in Delivery!Message
      BY <3>1, DeliveryMessages DEF Delivery!TypeOK
    <3>3. \A k \in Delivery!ConnIds :
             Append(inbox[k], Delivery!Msg("event", published + 1, next[k] + 1))
                 \in Seq(Delivery!Message)
      BY <3>2
    <3> QED
      BY <3>2, <3>3 DEF Delivery!Publish, Delivery!Broadcast
  <2>2. hold' \in [Delivery!ConnIds -> Delivery!Message]
    BY <1>2 DEF Delivery!TypeOK
  <2>3. /\ next' \in [Delivery!ConnIds -> Nat] /\ sent' \in [Delivery!ConnIds -> Nat]
    <3>1. next' \in [Delivery!ConnIds -> Nat]
      BY DEF Delivery!Publish, Delivery!TypeOK
    <3>2. sent' \in [Delivery!ConnIds -> Nat]
      BY DEF Delivery!Publish, Delivery!Broadcast, Delivery!TypeOK
    <3> QED
      BY <3>1, <3>2
  <2>4. /\ published' \in 0..MaxEvents /\ lastDeliverySeq' \in Nat /\ used' \in Nat
        /\ rotations' \in Nat
        /\ missed' \in Nat /\ markers' \in Nat /\ holes' \in Nat /\ overflows' \in Nat
    BY DeliveryMessages, <1>1, <1>2, DeliveryAppended, DeliveryShifted DEF Delivery!Publish,
      Delivery!Broadcast, Delivery!serverVars, Delivery!readVars, Delivery!rotVars,
      Delivery!lossVars, Delivery!outVars, Delivery!TypeOK
  <2>5. /\ sub' \in SUBSET Delivery!ConnIds /\ resync' \in SUBSET Delivery!ConnIds
        /\ conn' \in Delivery!ConnIds \cup {None} /\ warm' \in Delivery!ConnIds \cup {None}
    BY <1>2 DEF Delivery!TypeOK
  <2>6. /\ seen' \subseteq 1..published' /\ dispatched' \in SUBSET seen'
        /\ twice' \in SUBSET dispatched'
        /\ unread' \in SUBSET Delivery!Events
    <3>1. published \in Nat /\ seen \subseteq 1..published
      BY DEF Delivery!TypeOK, Delivery!Linked
    <3>2. 1..published \subseteq 1..published + 1
      BY <3>1
    <3> QED
      BY <1>2, <3>1, <3>2 DEF Delivery!TypeOK
  <2>7. ready' \in BOOLEAN
    BY <1>2, Zenon DEF Delivery!TypeOK
  <2>8. seen' \in SUBSET Delivery!Events
    BY <2>4, <2>6 DEF Delivery!Events
  <2> QED
    BY <2>1, <2>2, <2>3, <2>4, <2>5, <2>6, <2>7, <2>8, Zenon DEF Delivery!TypeOK
<1>4. Delivery!Linked'
  <2>1. published \in Nat /\ seen \subseteq 1..published + 1
    BY DEF Delivery!TypeOK, Delivery!Linked
  <2>2. \A k \in Delivery!ConnIds \ sub : inbox'[k] = inbox[k]
    BY <1>1
  <2>3. \A k \in Delivery!ConnIds : k > used =>
            k \notin sub /\ next'[k] = next[k] /\ sent'[k] = sent[k]
    <3>1. \A k \in Delivery!ConnIds : k > used => k \notin sub
      BY DEF Delivery!TypeOK, Delivery!Linked, Delivery!ConnIds
    <3> QED
      BY <1>1, <3>1
  <2>4. UNCHANGED <<conn, sub, warm, ready, used, seen>>
    BY <1>2
  <2>5. resync' \subseteq sub /\ published' = published + 1
    BY <1>2 DEF Delivery!Linked
  <2> QED
    BY <2>1, <2>2, <2>3, <2>4, <2>5 DEF Delivery!Linked
<1>5. Delivery!WellFormed'
  <2>1. published \in Nat /\ \A k \in Delivery!ConnIds : /\ inbox[k] \in Seq(Delivery!Message)
                                   /\ inbox'[k] \in Seq(Delivery!Message) /\ next[k] \in Nat
    BY <1>3 DEF Delivery!TypeOK
  <2>2. ASSUME NEW k \in Delivery!ConnIds PROVE Delivery!AllProper(inbox'[k], published + 1)
    <3>1. Delivery!AllProper(inbox[k], published + 1)
      BY <2>1, QueueKept DEF Delivery!WellFormed
    <3>2. CASE k \in sub
      <4> DEFINE m == Delivery!Msg("event", published + 1, next[k] + 1)
      <4>1. /\ m \in Delivery!Message /\ m.ev = published + 1 /\ m.seq = next[k] + 1
            /\ m.kind = "event"
        <5>1. published + 1 \in 0..MaxEvents
          BY <1>2, <2>1
        <5> QED
          BY <2>1, <5>1, DeliveryMessages
      <4>2. Delivery!Proper(m, published + 1)
        BY <2>1, <4>1 DEF Delivery!Proper
      <4>3. Extends(inbox'[k], inbox[k], m)
        BY <1>1, <3>2
      <4> HIDE DEF m
      <4> QED
        BY <2>1, <3>1, <4>1, <4>2, <4>3, QueueExtends
    <3>3. CASE k \notin sub
      BY <1>1, <3>1, <3>3
    <3> QED
      BY <3>2, <3>3
  <2>3. \A k \in Delivery!ConnIds : Delivery!Proper(hold[k], published + 1)
    BY <2>1, QueueKept DEF Delivery!TypeOK, Delivery!WellFormed
  <2> QED
    BY <1>2, <2>2, <2>3 DEF Delivery!WellFormed
<1>6. Delivery!NoneAstray'
  <2> SUFFICES ASSUME conn # None, holes + overflows = 0,
                      NEW e \in 1..published + 1
               PROVE  e \in seen \cup unread \cup {hold[c].ev : c \in Delivery!ConnIds}
                               \cup Delivery!EventsOf(inbox'[conn])
    BY <1>2 DEF Delivery!NoneAstray
  <2> DEFINE m == Delivery!Msg("event", published + 1, next[conn] + 1)
  <2>1. /\ conn \in Delivery!ConnIds /\ conn \in sub /\ published \in Nat
        /\ inbox[conn] \in Seq(Delivery!Message) /\ inbox'[conn] \in Seq(Delivery!Message)
    BY <1>3 DEF Delivery!TypeOK, Delivery!Linked
  <2>2. m \in Delivery!Message /\ m.ev = published + 1
    BY <1>2, <2>1, DeliveryMessages DEF Delivery!TypeOK
  <2>3. Extends(inbox'[conn], inbox[conn], m)
    BY <1>1, <2>1
  <2> HIDE DEF m
  <2>4. Delivery!EventsOf(inbox'[conn]) = Delivery!EventsOf(inbox[conn]) \cup {published + 1}
    BY <2>1, <2>2, <2>3, QueueExtends
  <2> QED
    BY <2>1, <2>4 DEF Delivery!NoneAstray
<1>7. Delivery!Alone'
  BY <1>1, <1>2 DEF Delivery!TypeOK, Delivery!Linked, Delivery!Alone, Delivery!ConnIds
<1>8. conn' \in Delivery!ConnIds \/ conn' = None
  BY <1>3 DEF Delivery!TypeOK
<1>9. /\ Delivery!InOrder' /\ Delivery!MissedCounted' /\ Delivery!MarkersCounted'
      /\ Delivery!NoneSilent' /\ Delivery!Once'
  <2>1. CASE rotations' = 0 /\ conn' # None
    <3> DEFINE q == inbox[conn]
               r == inbox'[conn]
               m == Delivery!Msg("event", published + 1, next[conn] + 1)
    <3>1. Delivery!Single /\ published \in Nat
      BY <1>2, <2>1 DEF Delivery!Single, Delivery!TypeOK
    <3>2. /\ conn \in sub /\ q \in Seq(Delivery!Message) /\ r \in Seq(Delivery!Message)
          /\ m \in Delivery!Message /\ m.kind = "event" /\ m.ev = published + 1
          /\ m.seq = next[conn] + 1 /\ Extends(r, q, m)
          /\ sent'[conn] = next[conn] + 1 /\ next'[conn] = next[conn] + 1
      <4>1. /\ conn \in Delivery!ConnIds /\ conn \in sub /\ q \in Seq(Delivery!Message)
            /\ next[conn] \in Nat
        BY <3>1, DeliveryOne
      <4>2. published + 1 \in 0..MaxEvents
        BY <1>2, <3>1
      <4>3. /\ m \in Delivery!Message /\ m.kind = "event" /\ m.ev = published + 1
            /\ m.seq = next[conn] + 1
        BY <4>1, <4>2, DeliveryMessages
      <4>4. r \in Seq(Delivery!Message)
        BY <1>2, <1>3, <4>1 DEF Delivery!TypeOK
      <4> QED
        BY <1>1, <4>1, <4>3, <4>4
    <3>3. Len(r) = Len(q) + 1 /\ Len(q) \in Nat
      BY <3>2 DEF Extends
    <3> HIDE DEF q, r, m
    <3>4. Delivery!Ahead' = Delivery!Ahead /\ Delivery!Unreported' = Delivery!Unreported
      <4>1. Delivery!Ahead' = Delivery!Ahead
        BY <1>2 DEF Delivery!Ahead
      <4>2. /\ Delivery!Ahead \in Nat /\ next[conn] \in Nat /\ next'[conn] = next[conn] + 1
            /\ Len(inbox'[conn]) = Len(inbox[conn]) + 1 /\ Len(inbox[conn]) \in Nat
        BY <3>1, <3>2, <3>3, DeliveryOne DEF q, r
      <4>3. next'[conn] - Delivery!Ahead - Len(inbox'[conn]) =
                next[conn] - Delivery!Ahead - Len(inbox[conn])
        <5> DEFINE n == next[conn]
                   n1 == next'[conn]
                   a == Delivery!Ahead
                   l == Len(inbox[conn])
                   l1 == Len(inbox'[conn])
        <5>1. n \in Nat /\ a \in Nat /\ l \in Nat /\ n1 = n + 1 /\ l1 = l + 1
          BY <4>2
        <5> HIDE DEF n, n1, a, l, l1
        <5>2. n1 - a - l1 = n - a - l
          BY <5>1
        <5> QED
          BY <5>2 DEF n, n1, a, l, l1
      <4> QED
        BY <1>2, <4>1, <4>3 DEF Delivery!Unreported
    <3>5. /\ Delivery!EventsOf(r) = Delivery!EventsOf(q) \cup {published + 1}
          /\ Delivery!MarkersOf(r) = Delivery!MarkersOf(q)
      <4>1. /\ Delivery!EventsOf(r) = Delivery!EventsOf(q) \cup ({m.ev} \ {0})
            /\ Delivery!MarkersOf(r) =
                  Delivery!MarkersOf(q) \cup (IF m.kind = "resync" THEN {m.seq} ELSE {})
        BY <3>2, QueueExtends
      <4> QED
        BY <3>1, <3>2, <4>1
    <3>6. Delivery!Markers' = Delivery!Markers
      BY <1>2, <3>5 DEF Delivery!Markers, q, r
    <3>7. Delivery!InOrder'
      <4>1. /\ Delivery!Numbered(r, Delivery!Ahead, next[conn] + 1)
            /\ Delivery!LastOf(r, Delivery!Ahead) = next[conn] + 1
            /\ Delivery!FromOne(q, next[conn]) => Delivery!FromOne(r, next[conn] + 1)
        <5>1. /\ Delivery!Ahead \in Nat /\ next[conn] \in Nat
              /\ Delivery!Numbered(q, Delivery!Ahead, next[conn])
          BY <3>1, DeliveryOne DEF q
        <5> QED
          BY <3>2, <5>1, QueueExtends
      <4> QED
        BY <1>2, <3>1, <3>2, <3>4, <4>1 DEF Delivery!InOrder, q, r
    <3>8. Delivery!MissedCounted'
      BY <1>2, <3>4 DEF Delivery!MissedCounted
    <3>9. Delivery!MarkersCounted'
      BY <1>2, <3>6 DEF Delivery!MarkersCounted
    <3>10. Delivery!NoneSilent'
      BY <1>2, <3>1, <3>4, <3>5, <3>6 DEF Delivery!NoneSilent, q, r
    <3>11. Delivery!Once'
      <4>1. published + 1 \notin Delivery!EventsOf(q) /\ Delivery!Distinct(q)
        BY <2>1, <3>1, <1>2, DeliveryOne DEF Delivery!Once, q
      <4>2. Delivery!Distinct(r)
        BY <3>1, <3>2, <4>1, QueueExtends
      <4>3. published + 1 \notin dispatched /\ published + 1 # hold[conn].ev
        <5>1. /\ hold[conn].kind \in {"event", "resync", "pong"} /\ hold[conn].ev \in 0..MaxEvents
              /\ Delivery!NoMessage.ev = 0 /\ Delivery!Proper(hold[conn], published)
          BY <3>1, DeliveryOne, DeliveryMessages
        <5>2. published + 1 # hold[conn].ev
          BY <3>1, <5>1 DEF Delivery!Proper
        <5>3. dispatched \subseteq 1..published
          BY DEF Delivery!TypeOK, Delivery!Linked
        <5> QED
          BY <3>1, <5>2, <5>3
      <4> QED
        BY <1>2, <3>5, <4>2, <4>3 DEF Delivery!Once, q, r
    <3> QED
      BY <3>7, <3>8, <3>9, <3>10, <3>11
  <2>2. CASE ~(rotations' = 0 /\ conn' # None)
    <3>1. rotations = 0 => missed <= holes /\ markers <= overflows /\ twice = {}
      BY DEF Delivery!MissedCounted, Delivery!MarkersCounted, Delivery!Once
    <3> QED
      BY <1>2, <2>2, <3>1, DeliveryElse
  <2> QED
    BY <2>1, <2>2
<1> QED
  BY <1>3, <1>4, <1>5, <1>6, <1>7, <1>9

(* It loses an event it has numbered. *)
LEMMA DeliveryPublishHoleStep ==
    ASSUME ConstantsOK, Delivery!DeliveryInv, NEW c \in Delivery!ConnIds, Delivery!PublishHole(c)
    PROVE  Delivery!DeliveryInv'
<1> USE DEF ConstantsOK, Delivery!DeliveryInv
<1>1. \A k \in Delivery!ConnIds :
         /\ k \in sub \ {c} => Extends(inbox'[k], inbox[k], Delivery!Msg("event", published + 1, next[k] + 1))
         /\ k \in sub \ {c} => sent'[k] = next[k] + 1 /\ next'[k] = next[k] + 1
         /\ k \notin sub \ {c} => inbox'[k] = inbox[k] /\ sent'[k] = sent[k]
         /\ k \notin sub => next'[k] = next[k]
         /\ k = c => next'[k] = next[k] + 1
  <2>1. \A k \in Delivery!ConnIds :
           /\ published + 1 \in 0..MaxEvents /\ next[k] + 1 \in Nat
           /\ inbox[k] \in Seq(Delivery!Message)
    BY DEF Delivery!PublishHole, Delivery!Broadcast, Delivery!TypeOK
  <2>2. \A k \in Delivery!ConnIds :
           Extends(Append(inbox[k], Delivery!Msg("event", published + 1, next[k] + 1)), inbox[k],
                   Delivery!Msg("event", published + 1, next[k] + 1))
    BY <2>1, DeliveryMessages, DeliveryAppended
  <2> QED
    BY <2>2 DEF Delivery!PublishHole, Delivery!Broadcast, Delivery!TypeOK
<1>2. /\ sub' = sub /\ resync' = resync /\ conn' = conn /\ lastDeliverySeq' = lastDeliverySeq
      /\ hold' = hold /\ warm' = warm /\ ready' = ready /\ used' = used
      /\ rotations' = rotations /\ seen' = seen /\ dispatched' = dispatched /\ twice' = twice
      /\ missed' = missed /\ markers' = markers /\ overflows' = overflows /\ unread' = unread
      /\ published' = published + 1 /\ published < MaxEvents
      /\ holes' = holes + 1 /\ c \in sub /\ sent[c] > 0
  BY DEF Delivery!PublishHole, Delivery!Broadcast, Delivery!serverVars, Delivery!readVars,
    Delivery!rotVars, Delivery!lossVars, Delivery!outVars
<1>3. Delivery!TypeOK'
  <2>1. inbox' \in [Delivery!ConnIds -> Seq(Delivery!Message)]
    <3>1. published + 1 \in 0..MaxEvents
      BY <1>2 DEF Delivery!TypeOK
    <3>2. \A k \in Delivery!ConnIds :
             /\ inbox[k] \in Seq(Delivery!Message)
             /\ Delivery!Msg("event", published + 1, next[k] + 1) \in Delivery!Message
      BY <3>1, DeliveryMessages DEF Delivery!TypeOK
    <3>3. \A k \in Delivery!ConnIds :
             Append(inbox[k], Delivery!Msg("event", published + 1, next[k] + 1))
                 \in Seq(Delivery!Message)
      BY <3>2
    <3> QED
      BY <3>2, <3>3 DEF Delivery!PublishHole, Delivery!Broadcast
  <2>2. hold' \in [Delivery!ConnIds -> Delivery!Message]
    BY <1>2 DEF Delivery!TypeOK
  <2>3. /\ next' \in [Delivery!ConnIds -> Nat] /\ sent' \in [Delivery!ConnIds -> Nat]
    <3>1. \A k \in Delivery!ConnIds : next[k] + 1 \in Nat /\ next[k] \in Nat /\ sent[k] \in Nat
      BY DEF Delivery!TypeOK
    <3>2. next' = [k \in Delivery!ConnIds |-> IF k \in sub THEN next[k] + 1 ELSE next[k]]
      BY DEF Delivery!PublishHole
    <3>3. sent' = [k \in Delivery!ConnIds |-> IF k \in sub \ {c} THEN next[k] + 1 ELSE sent[k]]
      BY DEF Delivery!PublishHole, Delivery!Broadcast
    <3> QED
      BY <3>1, <3>2, <3>3
  <2>4. /\ published' \in 0..MaxEvents /\ lastDeliverySeq' \in Nat /\ used' \in Nat
        /\ rotations' \in Nat
        /\ missed' \in Nat /\ markers' \in Nat /\ holes' \in Nat /\ overflows' \in Nat
    BY <1>2 DEF Delivery!TypeOK
  <2>5. /\ sub' \in SUBSET Delivery!ConnIds /\ resync' \in SUBSET Delivery!ConnIds
        /\ conn' \in Delivery!ConnIds \cup {None} /\ warm' \in Delivery!ConnIds \cup {None}
    BY <1>2 DEF Delivery!TypeOK
  <2>6. /\ seen' \subseteq 1..published' /\ dispatched' \in SUBSET seen'
        /\ twice' \in SUBSET dispatched'
        /\ unread' \in SUBSET Delivery!Events
    <3>1. published \in Nat /\ seen \subseteq 1..published
      BY DEF Delivery!TypeOK, Delivery!Linked
    <3>2. 1..published \subseteq 1..published + 1
      BY <3>1
    <3> QED
      BY <1>2, <3>1, <3>2 DEF Delivery!TypeOK
  <2>7. ready' \in BOOLEAN
    BY <1>2, Zenon DEF Delivery!TypeOK
  <2>8. seen' \in SUBSET Delivery!Events
    BY <2>4, <2>6 DEF Delivery!Events
  <2> QED
    BY <2>1, <2>2, <2>3, <2>4, <2>5, <2>6, <2>7, <2>8, Zenon DEF Delivery!TypeOK
<1>4. Delivery!Linked'
  <2>1. published \in Nat /\ seen \subseteq 1..published + 1
    BY DEF Delivery!TypeOK, Delivery!Linked
  <2>2. \A k \in Delivery!ConnIds \ sub : inbox'[k] = inbox[k]
    BY <1>1
  <2>3. \A k \in Delivery!ConnIds : k > used =>
            k \notin sub /\ next'[k] = next[k] /\ sent'[k] = sent[k]
    <3>1. \A k \in Delivery!ConnIds : k > used => k \notin sub
      BY DEF Delivery!TypeOK, Delivery!Linked, Delivery!ConnIds
    <3> QED
      BY <1>1, <3>1
  <2>4. UNCHANGED <<conn, sub, warm, ready, used, seen>>
    BY <1>2
  <2>5. resync' \subseteq sub /\ published' = published + 1
    BY <1>2 DEF Delivery!Linked
  <2> QED
    BY <2>1, <2>2, <2>3, <2>4, <2>5 DEF Delivery!Linked
<1>5. Delivery!WellFormed'
  <2>1. published \in Nat /\ \A k \in Delivery!ConnIds : /\ inbox[k] \in Seq(Delivery!Message)
                                   /\ inbox'[k] \in Seq(Delivery!Message) /\ next[k] \in Nat
    BY <1>3 DEF Delivery!TypeOK
  <2>2. ASSUME NEW k \in Delivery!ConnIds PROVE Delivery!AllProper(inbox'[k], published + 1)
    <3>1. Delivery!AllProper(inbox[k], published + 1)
      BY <2>1, QueueKept DEF Delivery!WellFormed
    <3>2. CASE k \in sub \ {c}
      <4> DEFINE m == Delivery!Msg("event", published + 1, next[k] + 1)
      <4>1. /\ m \in Delivery!Message /\ m.ev = published + 1 /\ m.seq = next[k] + 1
            /\ m.kind = "event"
        <5>1. published + 1 \in 0..MaxEvents
          BY <1>2, <2>1
        <5> QED
          BY <2>1, <5>1, DeliveryMessages
      <4>2. Delivery!Proper(m, published + 1)
        BY <2>1, <4>1 DEF Delivery!Proper
      <4>3. Extends(inbox'[k], inbox[k], m)
        BY <1>1, <3>2
      <4> HIDE DEF m
      <4> QED
        BY <2>1, <3>1, <4>1, <4>2, <4>3, QueueExtends
    <3>3. CASE k \notin sub \ {c}
      BY <1>1, <3>1, <3>3
    <3> QED
      BY <3>2, <3>3
  <2>3. \A k \in Delivery!ConnIds : Delivery!Proper(hold[k], published + 1)
    BY <2>1, QueueKept DEF Delivery!TypeOK, Delivery!WellFormed
  <2> QED
    BY <1>2, <2>2, <2>3 DEF Delivery!WellFormed
<1>6. Delivery!NoneAstray'
  BY <1>2 DEF Delivery!TypeOK, Delivery!NoneAstray
<1>7. Delivery!Alone'
  BY <1>1, <1>2 DEF Delivery!TypeOK, Delivery!Linked, Delivery!Alone, Delivery!ConnIds
<1>8. conn' \in Delivery!ConnIds \/ conn' = None
  BY <1>3 DEF Delivery!TypeOK
<1>9. /\ Delivery!InOrder' /\ Delivery!MissedCounted' /\ Delivery!MarkersCounted'
      /\ Delivery!NoneSilent' /\ Delivery!Once'
  <2>1. CASE rotations' = 0 /\ conn' # None
    <3> DEFINE q == inbox[conn]
    <3>1. Delivery!Single
      BY <1>2, <2>1 DEF Delivery!Single
    <3>2. /\ conn = c /\ q \in Seq(Delivery!Message) /\ Delivery!Ahead \in Nat
          /\ next[conn] \in Nat /\ Delivery!Unreported \in Nat
          /\ Delivery!Numbered(q, Delivery!Ahead, next[conn])
      BY <1>2, <3>1, DeliveryOne
    <3>3. inbox'[conn] = q /\ sent'[conn] = sent[conn] /\ next'[conn] = next[conn] + 1
      BY <1>1, <1>2, <3>2
    <3>4. Delivery!Ahead' = Delivery!Ahead
      BY <1>2 DEF Delivery!Ahead
    <3>5. Delivery!Unreported' = Delivery!Unreported + 1
      <4>1. Len(q) \in Nat
        BY <3>2
      <4>2. /\ next'[conn] - Delivery!Ahead - Len(q) = (next[conn] - Delivery!Ahead - Len(q)) + 1
            /\ next[conn] - Delivery!Ahead - Len(q) \in Int
        <5> DEFINE n == next[conn]
                   n1 == next'[conn]
                   a == Delivery!Ahead
                   l == Len(q)
        <5>1. n \in Nat /\ a \in Nat /\ l \in Nat /\ n1 = n + 1
          BY <3>2, <3>3, <4>1
        <5> HIDE DEF n, n1, a, l
        <5>2. n1 - a - l = (n - a - l) + 1 /\ n - a - l \in Int
          BY <5>1
        <5> QED
          BY <5>2 DEF n, n1, a, l
      <4>3. hold[conn].seq \in Nat /\ lastDeliverySeq \in Nat
        BY <3>1, DeliveryOne, DeliveryMessages
      <4> DEFINE room == next[conn] - Delivery!Ahead - Len(q)
                 owed == IF hold[conn] = Delivery!NoMessage THEN 0
                         ELSE hold[conn].seq - lastDeliverySeq - 1
      <4>4. owed \in Int /\ Delivery!Unreported = owed + room
        BY <4>3 DEF Delivery!Unreported
      <4>5. Delivery!Unreported' = owed + (room + 1)
        BY <1>2, <3>3, <3>4, <4>2 DEF Delivery!Unreported
      <4> HIDE DEF owed, room
      <4>6. room \in Int
        BY <4>2 DEF room
      <4> QED
        BY <4>4, <4>5, <4>6
    <3>6. Delivery!Markers' = Delivery!Markers
      BY <1>2, <3>3 DEF Delivery!Markers
    <3>7. Delivery!InOrder'
      <4>1. Delivery!Numbered(q, Delivery!Ahead, next[conn] + 1)
        BY <3>2, QueueKept
      <4>2. sent[conn] = Delivery!LastOf(q, Delivery!Ahead)
        BY <3>1 DEF Delivery!InOrder
      <4>3. ASSUME lastDeliverySeq = 0, hold[conn] = Delivery!NoMessage
            PROVE  Delivery!FromOne(q, next[conn] + 1)
        <5>1. q # <<>>
          BY <1>2, <3>1, <3>2, <4>2, <4>3, DeliveryOne DEF Delivery!LastOf
        <5> QED
          BY <3>1, <4>3, <5>1 DEF Delivery!InOrder, Delivery!FromOne
      <4> QED
        BY <1>2, <3>1, <3>3, <3>4, <4>1, <4>2, <4>3 DEF Delivery!InOrder
    <3>8. Delivery!MissedCounted'
      <4>1. missed \in Nat /\ holes \in Nat /\ rotations = 0 /\ conn # None
        BY <3>1 DEF Delivery!TypeOK, Delivery!Single
      <4> QED
        BY <1>2, <3>2, <3>5, <4>1 DEF Delivery!MissedCounted
    <3>9. Delivery!MarkersCounted'
      BY <1>2, <3>6 DEF Delivery!MarkersCounted
    <3>10. Delivery!NoneSilent'
      BY <3>2, <3>5 DEF Delivery!NoneSilent
    <3>11. Delivery!Once'
      BY <1>2, <3>3 DEF Delivery!Once
    <3> QED
      BY <3>7, <3>8, <3>9, <3>10, <3>11
  <2>2. CASE ~(rotations' = 0 /\ conn' # None)
    <3>1. rotations = 0 => missed <= holes /\ markers <= overflows /\ twice = {}
      BY DEF Delivery!MissedCounted, Delivery!MarkersCounted, Delivery!Once
    <3> QED
      BY <1>2, <2>2, <3>1, DeliveryElse DEF Delivery!TypeOK
  <2> QED
    BY <2>1, <2>2
<1> QED
  BY <1>3, <1>4, <1>5, <1>6, <1>7, <1>9

(* It loses one it has not. *)
LEMMA DeliveryPublishOverflowStep ==
    ASSUME ConstantsOK, Delivery!DeliveryInv, NEW c \in Delivery!ConnIds,
           Delivery!PublishOverflow(c)
    PROVE  Delivery!DeliveryInv'
<1> USE DEF ConstantsOK, Delivery!DeliveryInv
<1>1. \A k \in Delivery!ConnIds :
         /\ k \in sub \ {c} => Extends(inbox'[k], inbox[k], Delivery!Msg("event", published + 1, next[k] + 1))
         /\ k \in sub \ {c} => sent'[k] = next[k] + 1 /\ next'[k] = next[k] + 1
         /\ k \notin sub \ {c} => inbox'[k] = inbox[k] /\ sent'[k] = sent[k]
         /\ k \notin sub => next'[k] = next[k]
         /\ k = c => next'[k] = next[k]
  <2>1. \A k \in Delivery!ConnIds :
           /\ published + 1 \in 0..MaxEvents /\ next[k] + 1 \in Nat
           /\ inbox[k] \in Seq(Delivery!Message)
    BY DEF Delivery!PublishOverflow, Delivery!Broadcast, Delivery!TypeOK
  <2>2. \A k \in Delivery!ConnIds :
           Extends(Append(inbox[k], Delivery!Msg("event", published + 1, next[k] + 1)), inbox[k],
                   Delivery!Msg("event", published + 1, next[k] + 1))
    BY <2>1, DeliveryMessages, DeliveryAppended
  <2> QED
    BY <2>2 DEF Delivery!PublishOverflow, Delivery!Broadcast, Delivery!TypeOK
<1>2. /\ sub' = sub /\ conn' = conn /\ lastDeliverySeq' = lastDeliverySeq /\ hold' = hold
      /\ warm' = warm /\ ready' = ready /\ used' = used /\ rotations' = rotations
      /\ seen' = seen /\ dispatched' = dispatched /\ twice' = twice /\ missed' = missed
      /\ markers' = markers /\ holes' = holes /\ unread' = unread
      /\ published' = published + 1 /\ published < MaxEvents
      /\ overflows' = overflows + 1 /\ c \in sub /\ resync' = resync \cup {c}
  BY DEF Delivery!PublishOverflow, Delivery!Broadcast, Delivery!serverVars, Delivery!readVars,
    Delivery!rotVars, Delivery!lossVars, Delivery!outVars
<1>3. Delivery!TypeOK'
  <2>1. inbox' \in [Delivery!ConnIds -> Seq(Delivery!Message)]
    <3>1. published + 1 \in 0..MaxEvents
      BY <1>2 DEF Delivery!TypeOK
    <3>2. \A k \in Delivery!ConnIds :
             /\ inbox[k] \in Seq(Delivery!Message)
             /\ Delivery!Msg("event", published + 1, next[k] + 1) \in Delivery!Message
      BY <3>1, DeliveryMessages DEF Delivery!TypeOK
    <3>3. \A k \in Delivery!ConnIds :
             Append(inbox[k], Delivery!Msg("event", published + 1, next[k] + 1))
                 \in Seq(Delivery!Message)
      BY <3>2
    <3> QED
      BY <3>2, <3>3 DEF Delivery!PublishOverflow, Delivery!Broadcast
  <2>2. hold' \in [Delivery!ConnIds -> Delivery!Message]
    BY <1>2 DEF Delivery!TypeOK
  <2>3. /\ next' \in [Delivery!ConnIds -> Nat] /\ sent' \in [Delivery!ConnIds -> Nat]
    <3>1. next' \in [Delivery!ConnIds -> Nat]
      BY DEF Delivery!PublishOverflow, Delivery!TypeOK
    <3>2. sent' \in [Delivery!ConnIds -> Nat]
      BY DEF Delivery!PublishOverflow, Delivery!Broadcast, Delivery!TypeOK
    <3> QED
      BY <3>1, <3>2
  <2>4. /\ published' \in 0..MaxEvents /\ lastDeliverySeq' \in Nat /\ used' \in Nat
        /\ rotations' \in Nat
        /\ missed' \in Nat /\ markers' \in Nat /\ holes' \in Nat /\ overflows' \in Nat
    BY <1>2 DEF Delivery!TypeOK
  <2>5. /\ sub' \in SUBSET Delivery!ConnIds /\ resync' \in SUBSET Delivery!ConnIds
        /\ conn' \in Delivery!ConnIds \cup {None} /\ warm' \in Delivery!ConnIds \cup {None}
    BY <1>2 DEF Delivery!TypeOK
  <2>6. /\ seen' \subseteq 1..published' /\ dispatched' \in SUBSET seen'
        /\ twice' \in SUBSET dispatched'
        /\ unread' \in SUBSET Delivery!Events
    <3>1. published \in Nat /\ seen \subseteq 1..published
      BY DEF Delivery!TypeOK, Delivery!Linked
    <3>2. 1..published \subseteq 1..published + 1
      BY <3>1
    <3> QED
      BY <1>2, <3>1, <3>2 DEF Delivery!TypeOK
  <2>7. ready' \in BOOLEAN
    BY <1>2, Zenon DEF Delivery!TypeOK
  <2>8. seen' \in SUBSET Delivery!Events
    BY <2>4, <2>6 DEF Delivery!Events
  <2> QED
    BY <2>1, <2>2, <2>3, <2>4, <2>5, <2>6, <2>7, <2>8, Zenon DEF Delivery!TypeOK
<1>4. Delivery!Linked'
  <2>1. published \in Nat /\ seen \subseteq 1..published + 1
    BY DEF Delivery!TypeOK, Delivery!Linked
  <2>2. \A k \in Delivery!ConnIds \ sub : inbox'[k] = inbox[k]
    BY <1>1
  <2>3. \A k \in Delivery!ConnIds : k > used =>
            k \notin sub /\ next'[k] = next[k] /\ sent'[k] = sent[k]
    <3>1. \A k \in Delivery!ConnIds : k > used => k \notin sub
      BY DEF Delivery!TypeOK, Delivery!Linked, Delivery!ConnIds
    <3> QED
      BY <1>1, <3>1
  <2>4. UNCHANGED <<conn, sub, warm, ready, used, seen>>
    BY <1>2
  <2>5. resync' \subseteq sub /\ published' = published + 1
    BY <1>2 DEF Delivery!Linked
  <2> QED
    BY <2>1, <2>2, <2>3, <2>4, <2>5 DEF Delivery!Linked
<1>5. Delivery!WellFormed'
  <2>1. published \in Nat /\ \A k \in Delivery!ConnIds : /\ inbox[k] \in Seq(Delivery!Message)
                                   /\ inbox'[k] \in Seq(Delivery!Message) /\ next[k] \in Nat
    BY <1>3 DEF Delivery!TypeOK
  <2>2. ASSUME NEW k \in Delivery!ConnIds PROVE Delivery!AllProper(inbox'[k], published + 1)
    <3>1. Delivery!AllProper(inbox[k], published + 1)
      BY <2>1, QueueKept DEF Delivery!WellFormed
    <3>2. CASE k \in sub \ {c}
      <4> DEFINE m == Delivery!Msg("event", published + 1, next[k] + 1)
      <4>1. /\ m \in Delivery!Message /\ m.ev = published + 1 /\ m.seq = next[k] + 1
            /\ m.kind = "event"
        <5>1. published + 1 \in 0..MaxEvents
          BY <1>2, <2>1
        <5> QED
          BY <2>1, <5>1, DeliveryMessages
      <4>2. Delivery!Proper(m, published + 1)
        BY <2>1, <4>1 DEF Delivery!Proper
      <4>3. Extends(inbox'[k], inbox[k], m)
        BY <1>1, <3>2
      <4> HIDE DEF m
      <4> QED
        BY <2>1, <3>1, <4>1, <4>2, <4>3, QueueExtends
    <3>3. CASE k \notin sub \ {c}
      BY <1>1, <3>1, <3>3
    <3> QED
      BY <3>2, <3>3
  <2>3. \A k \in Delivery!ConnIds : Delivery!Proper(hold[k], published + 1)
    BY <2>1, QueueKept DEF Delivery!TypeOK, Delivery!WellFormed
  <2> QED
    BY <1>2, <2>2, <2>3 DEF Delivery!WellFormed
<1>6. Delivery!NoneAstray'
  BY <1>2 DEF Delivery!TypeOK, Delivery!NoneAstray
<1>7. Delivery!Alone'
  BY <1>1, <1>2 DEF Delivery!TypeOK, Delivery!Linked, Delivery!Alone, Delivery!ConnIds
<1>8. conn' \in Delivery!ConnIds \/ conn' = None
  BY <1>3 DEF Delivery!TypeOK
<1>9. /\ Delivery!InOrder' /\ Delivery!MissedCounted' /\ Delivery!MarkersCounted'
      /\ Delivery!NoneSilent' /\ Delivery!Once'
  <2>1. CASE rotations' = 0 /\ conn' # None
    <3>1. Delivery!Single
      BY <1>2, <2>1 DEF Delivery!Single
    <3>2. conn = c /\ Cardinality(Delivery!Markers) \in Nat
      BY <1>2, <3>1, DeliveryOne
    <3>3. inbox'[conn] = inbox[conn] /\ sent'[conn] = sent[conn] /\ next'[conn] = next[conn]
      BY <1>1, <1>2, <3>2
    <3>4. /\ Delivery!Ahead' = Delivery!Ahead /\ Delivery!Unreported' = Delivery!Unreported
          /\ Delivery!Markers' = Delivery!Markers
      BY <1>2, <3>3 DEF Delivery!Ahead, Delivery!Unreported, Delivery!Markers
    <3>5. Delivery!InOrder'
      BY <1>2, <3>1, <3>3, <3>4 DEF Delivery!InOrder
    <3>6. Delivery!MissedCounted'
      BY <1>2, <3>4 DEF Delivery!MissedCounted
    <3>7. Delivery!MarkersCounted'
      <4>1. markers \in Nat /\ overflows \in Nat /\ rotations = 0 /\ conn # None
        BY <3>1 DEF Delivery!TypeOK, Delivery!Single
      <4>2. Delivery!Cardinality(Delivery!Markers) \in Nat
        BY <3>2, DeliveryCardinality
      <4> QED
        BY <1>2, <3>2, <3>4, <4>1, <4>2 DEF Delivery!MarkersCounted
    <3>8. Delivery!NoneSilent'
      BY <1>2, <3>2 DEF Delivery!NoneSilent
    <3>9. Delivery!Once'
      BY <1>2, <3>3 DEF Delivery!Once
    <3> QED
      BY <3>5, <3>6, <3>7, <3>8, <3>9
  <2>2. CASE ~(rotations' = 0 /\ conn' # None)
    <3>1. rotations = 0 => missed <= holes /\ markers <= overflows /\ twice = {}
      BY DEF Delivery!MissedCounted, Delivery!MarkersCounted, Delivery!Once
    <3> QED
      BY <1>2, <2>2, <3>1, DeliveryElse DEF Delivery!TypeOK
  <2> QED
    BY <2>1, <2>2
<1> QED
  BY <1>3, <1>4, <1>5, <1>6, <1>7, <1>9

(* stream.resync. *)
LEMMA DeliverySendResyncStep ==
    ASSUME ConstantsOK, Delivery!DeliveryInv, NEW c \in Delivery!ConnIds, Delivery!SendResync(c)
    PROVE  Delivery!DeliveryInv'
<1> USE DEF ConstantsOK, Delivery!DeliveryInv
<1>1. /\ Extends(inbox'[c], inbox[c], Delivery!Msg("resync", 0, next[c] + 1))
      /\ next'[c] = next[c] + 1 /\ sent'[c] = next[c] + 1
      /\ \A k \in Delivery!ConnIds : k # c => inbox'[k] = inbox[k] /\ next'[k] = next[k] /\ sent'[k] = sent[k]
  <2>1. /\ 0 \in 0..MaxEvents /\ next[c] + 1 \in Nat /\ inbox[c] \in Seq(Delivery!Message)
    BY DEF Delivery!TypeOK
  <2>2. Extends(Append(inbox[c], Delivery!Msg("resync", 0, next[c] + 1)), inbox[c],
                Delivery!Msg("resync", 0, next[c] + 1))
    BY <2>1, DeliveryMessages, DeliveryAppended
  <2> QED
    BY <2>2 DEF Delivery!SendResync, Delivery!TypeOK
<1>2. /\ published' = published /\ sub' = sub /\ conn' = conn /\ lastDeliverySeq' = lastDeliverySeq
      /\ hold' = hold /\ warm' = warm /\ ready' = ready /\ used' = used
      /\ rotations' = rotations /\ seen' = seen /\ dispatched' = dispatched /\ twice' = twice
      /\ missed' = missed /\ markers' = markers /\ holes' = holes /\ overflows' = overflows
      /\ unread' = unread
      /\ c \in resync /\ resync' = resync \ {c}
  BY DEF Delivery!SendResync, Delivery!serverVars, Delivery!readVars, Delivery!rotVars,
    Delivery!lossVars, Delivery!outVars
<1>3. Delivery!TypeOK'
  <2>1. inbox' \in [Delivery!ConnIds -> Seq(Delivery!Message)]
    BY DeliveryMessages, <1>1, <1>2, DeliveryAppended, DeliveryShifted DEF Delivery!SendResync,
      Delivery!serverVars, Delivery!readVars, Delivery!rotVars, Delivery!lossVars,
      Delivery!outVars, Delivery!TypeOK
  <2>2. hold' \in [Delivery!ConnIds -> Delivery!Message]
    BY <1>2 DEF Delivery!TypeOK
  <2>3. /\ next' \in [Delivery!ConnIds -> Nat] /\ sent' \in [Delivery!ConnIds -> Nat]
    BY DeliveryMessages, <1>1, <1>2, DeliveryAppended, DeliveryShifted DEF Delivery!SendResync,
      Delivery!serverVars, Delivery!readVars, Delivery!rotVars, Delivery!lossVars,
      Delivery!outVars, Delivery!TypeOK
  <2>4. /\ published' \in 0..MaxEvents /\ lastDeliverySeq' \in Nat /\ used' \in Nat
        /\ rotations' \in Nat
        /\ missed' \in Nat /\ markers' \in Nat /\ holes' \in Nat /\ overflows' \in Nat
    BY <1>2 DEF Delivery!TypeOK
  <2>5. /\ sub' \in SUBSET Delivery!ConnIds /\ resync' \in SUBSET Delivery!ConnIds
        /\ conn' \in Delivery!ConnIds \cup {None} /\ warm' \in Delivery!ConnIds \cup {None}
    BY <1>2 DEF Delivery!TypeOK
  <2>6. /\ seen' \subseteq 1..published' /\ dispatched' \in SUBSET seen'
        /\ twice' \in SUBSET dispatched'
        /\ unread' \in SUBSET Delivery!Events
    BY <1>2 DEF Delivery!TypeOK, Delivery!Linked
  <2>7. ready' \in BOOLEAN
    BY <1>2, Zenon DEF Delivery!TypeOK
  <2>8. seen' \in SUBSET Delivery!Events
    BY <2>4, <2>6 DEF Delivery!Events
  <2> QED
    BY <2>1, <2>2, <2>3, <2>4, <2>5, <2>6, <2>7, <2>8, Zenon DEF Delivery!TypeOK
<1>4. Delivery!Linked'
  <2>1. c \in sub /\ c \in 1..used /\ used \in Nat
    BY <1>2 DEF Delivery!TypeOK, Delivery!Linked
  <2>2. \A k \in Delivery!ConnIds \ sub : inbox'[k] = inbox[k]
    BY <1>1, <2>1
  <2>3. \A k \in Delivery!ConnIds : k > used =>
            next'[k] = next[k] /\ sent'[k] = sent[k] /\ inbox'[k] = inbox[k]
    BY <1>1, <2>1
  <2>4. UNCHANGED <<conn, sub, warm, ready, used, seen, published>> /\ resync' \subseteq resync
    BY <1>2
  <2> QED
    BY <2>2, <2>3, <2>4 DEF Delivery!Linked
<1>5. Delivery!WellFormed'
  <2> DEFINE m == Delivery!Msg("resync", 0, next[c] + 1)
  <2>1. published \in Nat /\ \A k \in Delivery!ConnIds : /\ inbox[k] \in Seq(Delivery!Message)
                                   /\ inbox'[k] \in Seq(Delivery!Message) /\ next[k] \in Nat
    BY <1>3 DEF Delivery!TypeOK
  <2>2. m \in Delivery!Message /\ m.ev = 0 /\ m.seq = next[c] + 1 /\ m.kind = "resync"
    BY <2>1, DeliveryMessages
  <2>3. Delivery!Proper(m, published)
    BY <2>1, <2>2 DEF Delivery!Proper
  <2>4. Extends(inbox'[c], inbox[c], m) /\ Delivery!AllProper(inbox[c], published)
    BY <1>1 DEF Delivery!WellFormed
  <2> HIDE DEF m
  <2>5. Delivery!AllProper(inbox'[c], published)
    BY <2>1, <2>2, <2>3, <2>4, QueueExtends
  <2> QED
    BY <1>1, <1>2, <2>5 DEF Delivery!WellFormed
<1>6. Delivery!NoneAstray'
  <2> DEFINE m == Delivery!Msg("resync", 0, next[c] + 1)
  <2>1. ASSUME conn # None PROVE Delivery!EventsOf(inbox[conn]) \subseteq Delivery!EventsOf(inbox'[conn])
    <3>1. /\ inbox[conn] \in Seq(Delivery!Message) /\ inbox'[conn] \in Seq(Delivery!Message)
          /\ next[c] \in Nat /\ conn \in Delivery!ConnIds
      BY <1>3, <2>1 DEF Delivery!TypeOK
    <3>2. m \in Delivery!Message /\ Extends(inbox'[c], inbox[c], m)
      BY <1>1, <3>1, DeliveryMessages
    <3> HIDE DEF m
    <3> QED
      BY <1>1, <3>1, <3>2, QueueExtends
  <2> QED
    BY <1>2, <2>1 DEF Delivery!NoneAstray
<1>7. Delivery!Alone'
  BY <1>1, <1>2 DEF Delivery!TypeOK, Delivery!Linked, Delivery!Alone, Delivery!ConnIds
<1>8. conn' \in Delivery!ConnIds \/ conn' = None
  BY <1>3 DEF Delivery!TypeOK
<1>9. /\ Delivery!InOrder' /\ Delivery!MissedCounted' /\ Delivery!MarkersCounted'
      /\ Delivery!NoneSilent' /\ Delivery!Once'
  <2>1. CASE rotations' = 0 /\ conn' # None
    <3> DEFINE q == inbox[conn]
               r == inbox'[conn]
               m == Delivery!Msg("resync", 0, next[conn] + 1)
    <3>1. Delivery!Single
      BY <1>2, <2>1 DEF Delivery!Single
    <3>2. conn = c /\ conn \in Delivery!ConnIds /\ next[conn] \in Nat /\ q \in Seq(Delivery!Message)
      BY <1>2, <3>1, DeliveryOne
    <3>3. /\ r \in Seq(Delivery!Message)
          /\ m \in Delivery!Message /\ m.kind = "resync" /\ m.ev = 0 /\ m.seq = next[conn] + 1
      <4>1. r \in Seq(Delivery!Message)
        BY <1>2, <1>3, <3>2 DEF Delivery!TypeOK
      <4> QED
        BY <3>2, <4>1, DeliveryMessages
    <3>4. /\ Extends(r, q, m)
          /\ sent'[conn] = next[conn] + 1 /\ next'[conn] = next[conn] + 1
      BY <1>1, <3>2
    <3>5. Len(r) = Len(q) + 1 /\ Len(q) \in Nat
      BY <3>2, <3>4 DEF Extends
    <3> HIDE DEF q, r, m
    <3>6. Delivery!Ahead' = Delivery!Ahead /\ Delivery!Unreported' = Delivery!Unreported
      <4>1. Delivery!Ahead' = Delivery!Ahead
        BY <1>2 DEF Delivery!Ahead
      <4>2. /\ Delivery!Ahead \in Nat /\ next[conn] \in Nat /\ next'[conn] = next[conn] + 1
            /\ Len(inbox'[conn]) = Len(inbox[conn]) + 1 /\ Len(inbox[conn]) \in Nat
        BY <3>1, <3>2, <3>4, <3>5, DeliveryOne DEF q, r
      <4>3. next'[conn] - Delivery!Ahead - Len(inbox'[conn]) =
                next[conn] - Delivery!Ahead - Len(inbox[conn])
        <5> DEFINE n == next[conn]
                   n1 == next'[conn]
                   a == Delivery!Ahead
                   l == Len(inbox[conn])
                   l1 == Len(inbox'[conn])
        <5>1. n \in Nat /\ a \in Nat /\ l \in Nat /\ n1 = n + 1 /\ l1 = l + 1
          BY <4>2
        <5> HIDE DEF n, n1, a, l, l1
        <5>2. n1 - a - l1 = n - a - l
          BY <5>1
        <5> QED
          BY <5>2 DEF n, n1, a, l, l1
      <4> QED
        BY <1>2, <4>1, <4>3 DEF Delivery!Unreported
    <3>7. /\ Delivery!EventsOf(r) = Delivery!EventsOf(q)
          /\ Delivery!MarkersOf(r) = Delivery!MarkersOf(q) \cup {next[conn] + 1}
      <4>1. /\ Delivery!EventsOf(r) = Delivery!EventsOf(q) \cup ({m.ev} \ {0})
            /\ Delivery!MarkersOf(r) =
                  Delivery!MarkersOf(q) \cup (IF m.kind = "resync" THEN {m.seq} ELSE {})
        BY <3>2, <3>3, <3>4, QueueExtends
      <4> QED
        BY <3>3, <4>1
    <3>8. Delivery!Markers' = Delivery!Markers \cup {next[conn] + 1}
      BY <1>2, <3>7 DEF Delivery!Markers, q, r
    <3>9. Delivery!InOrder'
      <4>1. /\ Delivery!Numbered(r, Delivery!Ahead, next[conn] + 1)
            /\ Delivery!LastOf(r, Delivery!Ahead) = next[conn] + 1
            /\ Delivery!FromOne(q, next[conn]) => Delivery!FromOne(r, next[conn] + 1)
        <5>1. /\ Delivery!Ahead \in Nat /\ next[conn] \in Nat
              /\ Delivery!Numbered(q, Delivery!Ahead, next[conn])
          BY <3>1, DeliveryOne DEF q
        <5> QED
          BY <3>2, <3>3, <3>4, <5>1, QueueExtends
      <4> QED
        BY <1>2, <3>1, <3>4, <3>6, <4>1 DEF Delivery!InOrder, q, r
    <3>10. Delivery!MissedCounted'
      BY <1>2, <3>6 DEF Delivery!MissedCounted
    <3>11. Delivery!MarkersCounted'
      <4>1. /\ next[conn] + 1 \notin Delivery!Markers /\ IsFiniteSet(Delivery!Markers)
            /\ Cardinality(Delivery!Markers) \in Nat
        BY <3>1, <3>2, DeliveryOne
      <4>2. /\ Delivery!Cardinality(Delivery!Markers') = Delivery!Cardinality(Delivery!Markers) + 1
            /\ Delivery!Cardinality(Delivery!Markers) \in Nat
        BY <3>8, <4>1, FS_AddElement, DeliveryCardinality
      <4>3. /\ markers \in Nat /\ overflows \in Nat /\ rotations = 0 /\ conn # None
            /\ conn \in resync /\ conn \notin resync'
        BY <1>2, <3>1, <3>2 DEF Delivery!TypeOK, Delivery!Single
      <4> QED
        BY <1>2, <4>2, <4>3 DEF Delivery!MarkersCounted
    <3>12. Delivery!NoneSilent'
      BY <3>8 DEF Delivery!NoneSilent
    <3>13. Delivery!Once'
      <4>1. Delivery!Distinct(q) /\ m.ev \notin Delivery!EventsOf(q)
        BY <3>1, <3>3, DeliveryOne, QueueMembers DEF Delivery!Once, Delivery!Single, q
      <4>2. Delivery!Distinct(r)
        BY <3>2, <3>3, <3>4, <4>1, QueueExtends
      <4> QED
        BY <1>2, <3>7, <4>2 DEF Delivery!Once, q, r
    <3> QED
      BY <3>9, <3>10, <3>11, <3>12, <3>13
  <2>2. CASE ~(rotations' = 0 /\ conn' # None)
    <3>1. rotations = 0 => missed <= holes /\ markers <= overflows /\ twice = {}
      BY DEF Delivery!MissedCounted, Delivery!MarkersCounted, Delivery!Once
    <3> QED
      BY <1>2, <2>2, <3>1, DeliveryElse DEF Delivery!TypeOK
  <2> QED
    BY <2>1, <2>2
<1> QED
  BY <1>3, <1>4, <1>5, <1>6, <1>7, <1>9

(* onAuthenticated. *)
LEMMA DeliveryOnAuthenticatedStep ==
    ASSUME ConstantsOK, Delivery!DeliveryInv, Delivery!OnAuthenticated
    PROVE  Delivery!DeliveryInv'
<1> USE DEF ConstantsOK, Delivery!DeliveryInv
<1>1. conn = None /\ used < DeliveryConns /\ used' = used + 1 /\ conn' = used + 1
  BY DEF Delivery!OnAuthenticated
<1>2. /\ published' = published /\ next' = next /\ sent' = sent /\ resync' = resync
      /\ inbox' = inbox /\ hold' = hold /\ warm' = warm /\ ready' = ready
      /\ rotations' = rotations /\ dispatched' = dispatched /\ twice' = twice /\ missed' = missed
      /\ markers' = markers /\ holes' = holes /\ overflows' = overflows /\ unread' = unread
      /\ sub' = sub \cup {used + 1} /\ lastDeliverySeq' = 0 /\ seen' = 1..published
  BY DEF Delivery!OnAuthenticated, Delivery!Refetch, Delivery!serverVars, Delivery!readVars,
    Delivery!rotVars, Delivery!lossVars, Delivery!outVars
<1>3. Delivery!TypeOK'
  <2>1. inbox' \in [Delivery!ConnIds -> Seq(Delivery!Message)]
    BY <1>2 DEF Delivery!TypeOK
  <2>2. hold' \in [Delivery!ConnIds -> Delivery!Message]
    BY <1>2 DEF Delivery!TypeOK
  <2>3. /\ next' \in [Delivery!ConnIds -> Nat] /\ sent' \in [Delivery!ConnIds -> Nat]
    BY <1>2 DEF Delivery!TypeOK
  <2>4. /\ published' \in 0..MaxEvents /\ lastDeliverySeq' \in Nat /\ used' \in Nat
        /\ rotations' \in Nat
        /\ missed' \in Nat /\ markers' \in Nat /\ holes' \in Nat /\ overflows' \in Nat
    BY DeliveryMessages, <1>1, <1>2, DeliveryAppended, DeliveryShifted DEF
      Delivery!OnAuthenticated, Delivery!Refetch, Delivery!serverVars, Delivery!readVars,
      Delivery!rotVars, Delivery!lossVars, Delivery!outVars, Delivery!TypeOK
  <2>5. /\ sub' \in SUBSET Delivery!ConnIds /\ resync' \in SUBSET Delivery!ConnIds
        /\ conn' \in Delivery!ConnIds \cup {None} /\ warm' \in Delivery!ConnIds \cup {None}
    BY DeliveryMessages, <1>1, <1>2, DeliveryAppended, DeliveryShifted DEF
      Delivery!OnAuthenticated, Delivery!Refetch, Delivery!serverVars, Delivery!readVars,
      Delivery!rotVars, Delivery!lossVars, Delivery!outVars, Delivery!TypeOK, Delivery!Linked,
      Delivery!ConnIds
  <2>6. /\ seen' \subseteq 1..published' /\ dispatched' \in SUBSET seen'
        /\ twice' \in SUBSET dispatched'
        /\ unread' \in SUBSET Delivery!Events
    BY DeliveryMessages, <1>1, <1>2, DeliveryAppended, DeliveryShifted DEF
      Delivery!OnAuthenticated, Delivery!Refetch, Delivery!serverVars, Delivery!readVars,
      Delivery!rotVars, Delivery!lossVars, Delivery!outVars, Delivery!TypeOK, Delivery!Linked,
      Delivery!Events, Delivery!WellFormed, Delivery!Proper
  <2>7. ready' \in BOOLEAN
    BY <1>2, Zenon DEF Delivery!TypeOK
  <2>8. seen' \in SUBSET Delivery!Events
    BY <2>4, <2>6 DEF Delivery!Events
  <2> QED
    BY <2>1, <2>2, <2>3, <2>4, <2>5, <2>6, <2>7, <2>8, Zenon DEF Delivery!TypeOK
<1>4. Delivery!Linked'
  <2>1. warm = None /\ ready = FALSE /\ published' = published /\ seen' = 1..published
    BY <1>1, <1>2 DEF Delivery!TypeOK, Delivery!Linked
  <2>2. used \in Nat /\ used' = used + 1 /\ used + 1 <= DeliveryConns /\ conn' = used + 1
    BY <1>1 DEF Delivery!TypeOK
  <2>3. /\ sub' = sub \cup {used + 1} /\ sub \subseteq 1..used /\ resync' = resync
        /\ resync \subseteq sub
    BY <1>2 DEF Delivery!Linked
  <2>4. sub' \subseteq 1..used'
    BY <2>2, <2>3
  <2>5. UNCHANGED <<warm, ready, next, sent, inbox>>
    BY <1>2
  <2>6. \A c \in Delivery!ConnIds : c > used' => next[c] = 0 /\ sent[c] = 0 /\ inbox[c] = <<>>
    BY <2>2 DEF Delivery!Linked, Delivery!ConnIds
  <2>7. \A c \in Delivery!ConnIds \ sub' : \A i \in 1..Len(inbox[c]) : inbox[c][i].kind # "pong"
    BY <2>3 DEF Delivery!Linked
  <2> QED
    BY <2>1, <2>2, <2>3, <2>4, <2>5, <2>6, <2>7 DEF Delivery!Linked
<1>5. Delivery!WellFormed'
  BY <1>1, <1>2 DEF Delivery!TypeOK, Delivery!WellFormed
<1>6. Delivery!NoneAstray'
  BY <1>1, <1>2 DEF Delivery!TypeOK, Delivery!Linked, Delivery!NoneAstray
<1>7. Delivery!Alone'
  <2> SUFFICES ASSUME rotations = 0 PROVE Delivery!Alone'
    BY <1>2 DEF Delivery!Alone
  <2>1. /\ warm = None /\ sub = {} /\ resync = {}
        /\ \A c \in Delivery!ConnIds : inbox[c] = <<>> /\ hold[c] = Delivery!NoMessage
    <3>1. None \notin Delivery!ConnIds
      BY DEF Delivery!ConnIds
    <3>2. sub \subseteq Delivery!ConnIds /\ resync \subseteq Delivery!ConnIds
      BY DEF Delivery!TypeOK
    <3> QED
      BY <1>1, <3>1, <3>2 DEF Delivery!Alone
  <2> QED
    BY <1>1, <1>2, <2>1 DEF Delivery!Alone
<1>8. conn' \in Delivery!ConnIds \/ conn' = None
  BY <1>3 DEF Delivery!TypeOK
<1>9. /\ Delivery!InOrder' /\ Delivery!MissedCounted' /\ Delivery!MarkersCounted'
      /\ Delivery!NoneSilent' /\ Delivery!Once'
  <2>1. CASE rotations' = 0
    <3>1. /\ rotations = 0 /\ conn = None /\ conn' = used + 1 /\ conn' \in Delivery!ConnIds
      BY <1>1, <1>2, <1>8, <2>1 DEF Delivery!TypeOK
    <3>2. \A c \in Delivery!ConnIds : inbox[c] = <<>> /\ hold[c] = Delivery!NoMessage
      BY <3>1 DEF Delivery!Alone, Delivery!ConnIds
    <3>3. /\ inbox'[conn'] = <<>> /\ hold'[conn'] = Delivery!NoMessage
          /\ next'[conn'] = 0 /\ sent'[conn'] = 0 /\ lastDeliverySeq' = 0
      BY <1>2, <3>1, <3>2 DEF Delivery!TypeOK, Delivery!Linked
    <3>4. Delivery!Ahead' = 0 /\ Delivery!Unreported' = 0 /\ Delivery!Markers' = {}
      <4>1. Delivery!Ahead' = 0
        BY <3>3 DEF Delivery!Ahead
      <4>2. Len(<<>>) = 0
        OBVIOUS
      <4>3. Delivery!Markers' = {}
        BY <3>3, QueueEmpty, DeliveryMessages DEF Delivery!Markers
      <4> QED
        <5>1. Delivery!Unreported' = 0 + (0 - 0 - 0)
          BY <3>3, <4>1, <4>2 DEF Delivery!Unreported
        <5> QED
          BY <4>1, <4>3, <5>1
    <3>5. Delivery!InOrder'
      BY <3>3, <3>4, QueueEmpty DEF Delivery!InOrder
    <3>6. Delivery!MissedCounted'
      <4>1. missed \in Nat
        BY DEF Delivery!TypeOK
      <4> QED
        BY <1>2, <3>1, <3>4, <4>1 DEF Delivery!MissedCounted
    <3>7. Delivery!MarkersCounted'
      <4>1. markers \in Nat /\ markers <= overflows /\ conn' \notin resync'
        BY <1>2, <3>1 DEF Delivery!TypeOK, Delivery!MarkersCounted, Delivery!Alone
      <4>2. Delivery!Cardinality({}) = 0
        BY FS_EmptySet, DeliveryCardinality
      <4> QED
        BY <1>2, <3>4, <4>1, <4>2 DEF Delivery!MarkersCounted
    <3>8. Delivery!NoneSilent'
      BY <1>2 DEF Delivery!NoneSilent
    <3>9. Delivery!Once'
      <4>1. 0 \notin dispatched /\ twice = {}
        BY <3>1 DEF Delivery!TypeOK, Delivery!Events, Delivery!Once
      <4>2. hold'[conn'].ev = 0
        BY <3>3, DeliveryMessages
      <4> QED
        BY <1>2, <3>3, <4>1, <4>2, QueueEmpty DEF Delivery!Once
    <3> QED
      BY <3>5, <3>6, <3>7, <3>8, <3>9
  <2>2. CASE rotations' # 0
    BY <2>2, DeliveryElse
  <2> QED
    BY <2>1, <2>2
<1> QED
  BY <1>3, <1>4, <1>5, <1>6, <1>7, <1>9

(* A read returns. *)
LEMMA DeliveryReadStep ==
    ASSUME ConstantsOK, Delivery!DeliveryInv, NEW c \in Delivery!ConnIds, Delivery!Read(c)
    PROVE  Delivery!DeliveryInv'
<1> USE DEF ConstantsOK, Delivery!DeliveryInv
<1>1. /\ Shifts(inbox'[c], inbox[c]) /\ Len(inbox[c]) > 0 /\ hold'[c] = inbox[c][1]
      /\ \A k \in Delivery!ConnIds : k # c => inbox'[k] = inbox[k] /\ hold'[k] = hold[k]
  <2>1. inbox[c] \in Seq(Delivery!Message) /\ inbox[c] # <<>>
    BY DEF Delivery!Read, Delivery!TypeOK
  <2> QED
    BY <2>1, DeliveryShifted DEF Delivery!Read, Delivery!TypeOK
<1>2. /\ published' = published /\ sub' = sub /\ next' = next /\ sent' = sent
      /\ resync' = resync /\ conn' = conn /\ lastDeliverySeq' = lastDeliverySeq /\ warm' = warm
      /\ ready' = ready /\ used' = used /\ rotations' = rotations /\ seen' = seen
      /\ dispatched' = dispatched /\ twice' = twice /\ missed' = missed /\ markers' = markers
      /\ holes' = holes /\ overflows' = overflows /\ unread' = unread
      /\ c = conn /\ hold[c] = Delivery!NoMessage
  BY DEF Delivery!Read, Delivery!serverVars, Delivery!readVars, Delivery!rotVars,
    Delivery!lossVars, Delivery!outVars
<1>3. Delivery!TypeOK'
  <2>1. inbox' \in [Delivery!ConnIds -> Seq(Delivery!Message)]
    BY DeliveryMessages, <1>1, <1>2, DeliveryAppended, DeliveryShifted DEF Delivery!Read,
      Delivery!serverVars, Delivery!readVars, Delivery!rotVars, Delivery!lossVars,
      Delivery!outVars, Delivery!TypeOK
  <2>2. hold' \in [Delivery!ConnIds -> Delivery!Message]
    BY DeliveryMessages, <1>1, <1>2, DeliveryAppended, DeliveryShifted DEF Delivery!Read,
      Delivery!serverVars, Delivery!readVars, Delivery!rotVars, Delivery!lossVars,
      Delivery!outVars, Delivery!TypeOK
  <2>3. /\ next' \in [Delivery!ConnIds -> Nat] /\ sent' \in [Delivery!ConnIds -> Nat]
    BY <1>2 DEF Delivery!TypeOK
  <2>4. /\ published' \in 0..MaxEvents /\ lastDeliverySeq' \in Nat /\ used' \in Nat
        /\ rotations' \in Nat
        /\ missed' \in Nat /\ markers' \in Nat /\ holes' \in Nat /\ overflows' \in Nat
    BY <1>2 DEF Delivery!TypeOK
  <2>5. /\ sub' \in SUBSET Delivery!ConnIds /\ resync' \in SUBSET Delivery!ConnIds
        /\ conn' \in Delivery!ConnIds \cup {None} /\ warm' \in Delivery!ConnIds \cup {None}
    BY <1>2 DEF Delivery!TypeOK
  <2>6. /\ seen' \subseteq 1..published' /\ dispatched' \in SUBSET seen'
        /\ twice' \in SUBSET dispatched'
        /\ unread' \in SUBSET Delivery!Events
    BY <1>2 DEF Delivery!TypeOK, Delivery!Linked
  <2>7. ready' \in BOOLEAN
    BY <1>2, Zenon DEF Delivery!TypeOK
  <2>8. seen' \in SUBSET Delivery!Events
    BY <2>4, <2>6 DEF Delivery!Events
  <2> QED
    BY <2>1, <2>2, <2>3, <2>4, <2>5, <2>6, <2>7, <2>8, Zenon DEF Delivery!TypeOK
<1>4. Delivery!Linked'
  <2>1. c \in sub /\ c \in 1..used /\ used \in Nat
    BY <1>2 DEF Delivery!TypeOK, Delivery!Linked, Delivery!ConnIds
  <2>2. /\ \A k \in Delivery!ConnIds \ sub : inbox'[k] = inbox[k]
        /\ \A k \in Delivery!ConnIds : k > used => inbox'[k] = inbox[k]
    <3>1. \A k \in Delivery!ConnIds : k # c => inbox'[k] = inbox[k]
      BY <1>1
    <3>2. \A k \in Delivery!ConnIds : k > used => k # c
      BY <2>1
    <3> QED
      BY <2>1, <3>1, <3>2
  <2>3. UNCHANGED <<conn, sub, resync, next, sent, warm, ready, used, seen, published>>
    BY <1>2
  <2> QED
    BY <2>2, <2>3 DEF Delivery!Linked
<1>5. Delivery!WellFormed'
  <2>1. published \in Nat /\ \A k \in Delivery!ConnIds : /\ inbox[k] \in Seq(Delivery!Message)
                                                         /\ inbox'[k] \in Seq(Delivery!Message)
    BY <1>3 DEF Delivery!TypeOK
  <2>2. Delivery!AllProper(inbox[c], published)
    BY DEF Delivery!WellFormed
  <2>3. Delivery!AllProper(inbox'[c], published) /\ Delivery!Proper(hold'[c], published)
    BY <1>1, <2>1, <2>2, QueueShifts
  <2> QED
    BY <1>1, <1>2, <2>3 DEF Delivery!WellFormed
<1>6. Delivery!NoneAstray'
  <2> SUFFICES ASSUME holes + overflows = 0, NEW e \in 1..published
               PROVE  e \in seen \cup unread \cup {hold'[k].ev : k \in Delivery!ConnIds}
                               \cup Delivery!EventsOf(inbox'[conn])
    BY <1>2 DEF Delivery!NoneAstray
  <2>1. /\ inbox[c] \in Seq(Delivery!Message) /\ inbox'[c] \in Seq(Delivery!Message)
        /\ published \in Nat /\ conn # None
    BY <1>2, <1>3 DEF Delivery!TypeOK, Delivery!ConnIds
  <2>2. Delivery!EventsOf(inbox[c]) \subseteq Delivery!EventsOf(inbox'[c]) \cup {hold'[c].ev}
    BY <1>1, <2>1, QueueShifts
  <2>3. e # 0 /\ hold[c].ev = 0
    BY <1>2, <2>1, DeliveryMessages
  <2>4. \/ e \in seen \cup unread \cup Delivery!EventsOf(inbox[c])
        \/ \E k \in Delivery!ConnIds : e = hold[k].ev
    BY <1>2, <2>1 DEF Delivery!NoneAstray
  <2>5. \A k \in Delivery!ConnIds : k # c => hold'[k] = hold[k]
    BY <1>1, <1>2 DEF Delivery!TypeOK
  <2>6. c = conn /\ c \in Delivery!ConnIds
    BY <1>2
  <2>7. Delivery!EventsOf(inbox[c]) \subseteq
            Delivery!EventsOf(inbox'[conn]) \cup {hold'[k].ev : k \in Delivery!ConnIds}
    BY <2>2, <2>6
  <2>8. (\E k \in Delivery!ConnIds : e = hold[k].ev) => \E k \in Delivery!ConnIds : e = hold'[k].ev
    BY <2>3, <2>5
  <2> QED
    BY <2>4, <2>7, <2>8
<1>7. Delivery!Alone'
  BY <1>1, <1>2 DEF Delivery!TypeOK, Delivery!Linked, Delivery!Alone, Delivery!ConnIds
<1>8. conn' \in Delivery!ConnIds \/ conn' = None
  BY <1>3 DEF Delivery!TypeOK
<1>9. /\ Delivery!InOrder' /\ Delivery!MissedCounted' /\ Delivery!MarkersCounted'
      /\ Delivery!NoneSilent' /\ Delivery!Once'
  <2>1. CASE rotations' = 0
    <3> DEFINE q == inbox[c]
               r == inbox'[c]
    <3>1. Delivery!Single /\ conn = c /\ hold[c] = Delivery!NoMessage
      BY <1>2, <2>1 DEF Delivery!Single, Delivery!ConnIds
    <3>2. /\ q \in Seq(Delivery!Message) /\ r \in Seq(Delivery!Message) /\ Shifts(r, q)
          /\ Len(q) > 0 /\ hold'[c] = q[1]
      BY <1>1, <1>3 DEF Delivery!TypeOK
    <3>3. Len(q) = Len(r) + 1 /\ Len(r) \in Nat /\ q[1] \in Delivery!Message
      BY <3>2 DEF Shifts
    <3> HIDE DEF q, r
    <3>4. /\ Delivery!Ahead = lastDeliverySeq /\ lastDeliverySeq \in Nat /\ next[c] \in Nat
          /\ Delivery!Numbered(q, lastDeliverySeq, next[c])
      BY <3>1, DeliveryOne DEF q
    <3>5. /\ Delivery!Numbered(r, q[1].seq, next[c]) /\ q[1].seq > lastDeliverySeq
          /\ Delivery!LastOf(r, q[1].seq) = Delivery!LastOf(q, lastDeliverySeq)
          /\ Delivery!FromOne(q, next[c]) => q[1].seq = 1
      BY <3>2, <3>4, QueueShifts
    <3>6. hold'[c] # Delivery!NoMessage /\ q[1].seq \in Nat
      BY <3>2, <3>3, <3>4, <3>5, DeliveryMessages DEF Delivery!NoMessage
    <3>7. Delivery!Ahead' = q[1].seq
      BY <1>2, <3>1, <3>2, <3>6 DEF Delivery!Ahead
    <3>8. Delivery!Unreported' = Delivery!Unreported
      <4> DEFINE n == next[c]
                 k == q[1].seq
                 l == Len(r)
      <4>1. Delivery!Unreported = 0 + (n - lastDeliverySeq - (l + 1))
        BY <3>1, <3>3, <3>4 DEF Delivery!Unreported, q
      <4>2. Delivery!Unreported' = (k - lastDeliverySeq - 1) + (n - k - l)
        BY <1>2, <3>1, <3>2, <3>6, <3>7 DEF Delivery!Unreported, r
      <4>3. n \in Nat /\ k \in Nat /\ l \in Nat /\ lastDeliverySeq \in Nat
        BY <3>3, <3>4, <3>6
      <4> HIDE DEF n, k, l
      <4> QED
        BY <4>1, <4>2, <4>3
    <3>9. /\ Delivery!EventsOf(q) = Delivery!EventsOf(r) \cup ({q[1].ev} \ {0})
          /\ Delivery!MarkersOf(q) =
                Delivery!MarkersOf(r) \cup (IF q[1].kind = "resync" THEN {q[1].seq} ELSE {})
          /\ Delivery!Distinct(q) => Delivery!Distinct(r) /\ q[1].ev \notin Delivery!EventsOf(r)
      BY <3>2, QueueShifts
    <3>10. Delivery!Markers' = Delivery!Markers
      <4>1. Delivery!Markers = Delivery!MarkersOf(q)
        BY <3>1, DeliveryMessages DEF Delivery!Markers, q
      <4>2. Delivery!Markers' =
                Delivery!MarkersOf(r) \cup (IF q[1].kind = "resync" THEN {q[1].seq} ELSE {})
        BY <1>2, <3>1, <3>2 DEF Delivery!Markers, r
      <4> QED
        BY <3>9, <4>1, <4>2
    <3>11. Delivery!InOrder'
      <4>1. /\ sent[c] = Delivery!LastOf(q, lastDeliverySeq)
            /\ lastDeliverySeq = 0 => Delivery!FromOne(q, next[c])
        BY <3>1, <3>4 DEF Delivery!InOrder, q
      <4> QED
        BY <1>2, <3>1, <3>2, <3>5, <3>6, <3>7, <4>1 DEF Delivery!InOrder, r
    <3>12. Delivery!MissedCounted'
      BY <1>2, <3>8 DEF Delivery!MissedCounted
    <3>13. Delivery!MarkersCounted'
      BY <1>2, <3>10 DEF Delivery!MarkersCounted
    <3>14. Delivery!NoneSilent'
      <4>1. hold[c].ev = 0 /\ 0 \notin 1..published
        BY <3>1, DeliveryMessages DEF Delivery!TypeOK
      <4> QED
        BY <1>2, <3>1, <3>2, <3>8, <3>9, <3>10, <4>1 DEF Delivery!NoneSilent, q, r
    <3>15. Delivery!Once'
      <4>1. /\ twice = {} /\ Delivery!Distinct(q) /\ Delivery!EventsOf(q) \cap dispatched = {}
            /\ 0 \notin dispatched
        BY <3>1 DEF Delivery!Once, Delivery!Single, Delivery!TypeOK, Delivery!Events, q
      <4>2. q[1].ev \notin dispatched
        BY <3>9, <4>1
      <4> QED
        BY <1>2, <3>1, <3>2, <3>9, <4>1, <4>2 DEF Delivery!Once, q, r
    <3> QED
      BY <3>11, <3>12, <3>13, <3>14, <3>15
  <2>2. CASE rotations' # 0
    BY <2>2, DeliveryElse
  <2> QED
    BY <2>1, <2>2
<1> QED
  BY <1>3, <1>4, <1>5, <1>6, <1>7, <1>9

(* handleMessage of an event. *)
LEMMA DeliveryHandleEventStep ==
    ASSUME ConstantsOK, Delivery!DeliveryInv, NEW c \in Delivery!ConnIds, Delivery!HandleEvent(c)
    PROVE  Delivery!DeliveryInv'
<1> USE DEF ConstantsOK, Delivery!DeliveryInv
<1>1. /\ hold'[c] = Delivery!NoMessage /\ hold[c] # Delivery!NoMessage /\ hold[c].kind = "event"
      /\ \A k \in Delivery!ConnIds : k # c => hold'[k] = hold[k]
  BY DeliveryMessages DEF Delivery!HandleEvent, Delivery!TypeOK
<1>2. /\ published' = published /\ sub' = sub /\ next' = next /\ sent' = sent
      /\ resync' = resync /\ inbox' = inbox /\ conn' = conn /\ warm' = warm
      /\ ready' = ready /\ used' = used /\ rotations' = rotations /\ markers' = markers
      /\ holes' = holes /\ overflows' = overflows /\ unread' = unread
      /\ lastDeliverySeq' = hold[c].seq /\ dispatched' = dispatched \cup {hold[c].ev}
      /\ twice' = twice \cup ({hold[c].ev} \cap dispatched)
  BY DEF Delivery!HandleEvent, Delivery!serverVars, Delivery!readVars, Delivery!rotVars,
    Delivery!lossVars, Delivery!outVars
<1>3. Delivery!TypeOK'
  <2>1. inbox' \in [Delivery!ConnIds -> Seq(Delivery!Message)]
    BY <1>2 DEF Delivery!TypeOK
  <2>2. hold' \in [Delivery!ConnIds -> Delivery!Message]
    BY DeliveryMessages, <1>1, <1>2, DeliveryAppended, DeliveryShifted DEF Delivery!HandleEvent,
      Delivery!Report, Delivery!Gap, Delivery!serverVars, Delivery!readVars, Delivery!rotVars,
      Delivery!lossVars, Delivery!outVars, Delivery!TypeOK
  <2>3. /\ next' \in [Delivery!ConnIds -> Nat] /\ sent' \in [Delivery!ConnIds -> Nat]
    BY <1>2 DEF Delivery!TypeOK
  <2>4. /\ published' \in 0..MaxEvents /\ lastDeliverySeq' \in Nat /\ used' \in Nat
        /\ rotations' \in Nat
        /\ missed' \in Nat /\ markers' \in Nat /\ holes' \in Nat /\ overflows' \in Nat
    <3>1. hold[c].seq \in Nat /\ lastDeliverySeq \in Nat /\ missed \in Nat /\ markers \in Nat
      BY DeliveryMessages DEF Delivery!TypeOK
    <3>2. missed' \in Nat
      BY <3>1 DEF Delivery!HandleEvent, Delivery!Report, Delivery!Gap
    <3> QED
      BY <1>2, <3>1, <3>2 DEF Delivery!TypeOK
  <2>5. /\ sub' \in SUBSET Delivery!ConnIds /\ resync' \in SUBSET Delivery!ConnIds
        /\ conn' \in Delivery!ConnIds \cup {None} /\ warm' \in Delivery!ConnIds \cup {None}
    BY <1>2 DEF Delivery!TypeOK
  <2>6. /\ seen' \subseteq 1..published' /\ dispatched' \in SUBSET seen'
        /\ twice' \in SUBSET dispatched'
        /\ unread' \in SUBSET Delivery!Events
    <3>1. seen \subseteq 1..published
      BY DEF Delivery!Linked
    <3>2. hold[c].ev \in 1..published
      <4>1. Delivery!Proper(hold[c], published)
        BY DEF Delivery!WellFormed
      <4> QED
        BY <1>1, <4>1 DEF Delivery!Proper
    <3>3. seen' \subseteq 1..published /\ seen \cup {hold[c].ev} \subseteq seen'
      BY <3>1, <3>2 DEF Delivery!HandleEvent
    <3> QED
      BY <1>2, <3>3 DEF Delivery!TypeOK
  <2>7. ready' \in BOOLEAN
    BY <1>2, Zenon DEF Delivery!TypeOK
  <2>8. seen' \in SUBSET Delivery!Events
    BY <2>4, <2>6 DEF Delivery!Events
  <2> QED
    BY <2>1, <2>2, <2>3, <2>4, <2>5, <2>6, <2>7, <2>8, Zenon DEF Delivery!TypeOK
<1>4. Delivery!Linked'
  <2>1. seen' \subseteq 1..published
    <3>1. seen \subseteq 1..published
      BY DEF Delivery!Linked
    <3>2. hold[c].ev \in 1..published
      <4>1. Delivery!Proper(hold[c], published)
        BY DEF Delivery!WellFormed
      <4> QED
        BY <1>1, <4>1 DEF Delivery!Proper
    <3> QED
      BY <3>1, <3>2 DEF Delivery!HandleEvent
  <2>2. UNCHANGED <<conn, sub, resync, next, sent, inbox, warm, ready, used, published>>
    BY <1>2
  <2> QED
    BY <2>1, <2>2 DEF Delivery!Linked
<1>5. Delivery!WellFormed'
  <2>1. Delivery!Proper(hold'[c], published)
    BY <1>1, DeliveryMessages DEF Delivery!Proper
  <2> QED
    BY <1>1, <1>2, <2>1 DEF Delivery!WellFormed
<1>6. Delivery!NoneAstray'
  <2>1. \A e \in 1..published : (\E k \in Delivery!ConnIds : e = hold[k].ev) =>
            e \in seen' \/ \E k \in Delivery!ConnIds : e = hold'[k].ev
    BY <1>1 DEF Delivery!HandleEvent
  <2>2. seen \subseteq seen'
    BY DEF Delivery!HandleEvent, Delivery!Linked
  <2> QED
    BY <1>2, <2>1, <2>2 DEF Delivery!NoneAstray
<1>7. Delivery!Alone'
  BY <1>1, <1>2 DEF Delivery!TypeOK, Delivery!Linked, Delivery!Alone, Delivery!ConnIds
<1>8. conn' \in Delivery!ConnIds \/ conn' = None
  BY <1>3 DEF Delivery!TypeOK
<1>9. /\ Delivery!InOrder' /\ Delivery!MissedCounted' /\ Delivery!MarkersCounted'
      /\ Delivery!NoneSilent' /\ Delivery!Once'
  <2>1. CASE rotations' = 0
    <3>1. rotations = 0 /\ hold[c] # Delivery!NoMessage
      BY <1>1, <1>2, <2>1
    <3>2. Delivery!Single /\ conn = c
      BY <3>1 DEF Delivery!Single, Delivery!Alone, Delivery!ConnIds
    <3>3. /\ Delivery!Ahead = hold[c].seq /\ hold[c].seq \in Nat /\ lastDeliverySeq \in Nat
          /\ hold[c].seq > lastDeliverySeq /\ next[c] \in Nat /\ inbox[c] \in Seq(Delivery!Message)
      BY <3>1, <3>2, DeliveryOne, DeliveryMessages
    <3>4. Delivery!Ahead' = hold[c].seq
      BY <1>1, <1>2, <3>2 DEF Delivery!Ahead
    <3>5. lastDeliverySeq = 0 => hold[c].seq = 1
      BY <3>1, <3>2 DEF Delivery!InOrder
    <3> DEFINE owed == hold[c].seq - lastDeliverySeq - 1
               room == next[c] - hold[c].seq - Len(inbox[c])
    <3>6. owed \in Nat /\ room \in Int
      <4> DEFINE h == hold[c].seq
                 l == Len(inbox[c])
                 n == next[c]
      <4>1. l \in Nat /\ h \in Nat /\ n \in Nat /\ lastDeliverySeq \in Nat /\ h > lastDeliverySeq
        BY <3>3
      <4> HIDE DEF h, l, n
      <4>2. h - lastDeliverySeq - 1 \in Nat /\ n - h - l \in Int
        BY <4>1
      <4> QED
        BY <4>2 DEF h, l, n
    <3>7. missed' = missed + owed
      <4>1. missed \in Nat
        BY DEF Delivery!TypeOK
      <4> QED
        BY <3>3, <3>5, <4>1 DEF Delivery!HandleEvent, Delivery!Report, Delivery!Gap
    <3>8. Delivery!Unreported = owed + room
      BY <3>1, <3>2, <3>3 DEF Delivery!Unreported
    <3>9. Delivery!Unreported' = 0 + room
      BY <1>1, <1>2, <3>2, <3>4 DEF Delivery!Unreported
    <3> HIDE DEF room
    <3>10. Delivery!InOrder'
      BY <1>1, <1>2, <3>1, <3>2, <3>3, <3>4 DEF Delivery!InOrder
    <3>11. Delivery!MissedCounted'
      <4>1. missed \in Nat /\ holes \in Nat /\ missed + (owed + room) <= holes
        BY <3>2, <3>8 DEF Delivery!TypeOK, Delivery!MissedCounted, Delivery!Single
      <4>2. missed' + (0 + room) <= holes
        BY <3>6, <3>7, <4>1
      <4>3. room >= 0
        BY <3>2, <3>3, DeliveryOne DEF room
      <4> QED
        BY <1>2, <3>6, <3>7, <3>9, <4>1, <4>2, <4>3 DEF Delivery!MissedCounted
    <3>12. Delivery!Markers' = Delivery!Markers
      BY <1>1, <1>2, <3>2, DeliveryMessages DEF Delivery!Markers
    <3>13. Delivery!MarkersCounted'
      BY <1>2, <3>12 DEF Delivery!MarkersCounted
    <3>14. Delivery!NoneSilent'
      <4>1. CASE Delivery!Gap(hold[c].seq)
        <5>1. 1..published' \subseteq seen'
          BY <1>2, <4>1 DEF Delivery!HandleEvent
        <5> QED
          BY <5>1 DEF Delivery!NoneSilent
      <4>2. CASE ~Delivery!Gap(hold[c].seq)
        <5>1. owed = 0
          BY <3>3, <3>5, <4>2 DEF Delivery!Gap
        <5>2. Delivery!Unreported' = Delivery!Unreported
          BY <3>6, <3>8, <3>9, <5>1
        <5>3. seen' = seen \cup {hold[c].ev}
          BY <4>2 DEF Delivery!HandleEvent
        <5> QED
          BY <1>2, <3>2, <3>12, <5>2, <5>3 DEF Delivery!NoneSilent
      <4> QED
        BY <4>1, <4>2
    <3>15. Delivery!Once'
      <4>1. /\ twice = {} /\ Delivery!Distinct(inbox[c]) /\ hold[c].ev \notin dispatched
            /\ Delivery!EventsOf(inbox[c]) \cap (dispatched \cup {hold[c].ev}) = {}
        BY <3>2 DEF Delivery!Once, Delivery!Single
      <4>2. hold'[c].ev = 0
        BY <1>1, DeliveryMessages
      <4>3. hold[c].ev # 0 /\ 0 \notin dispatched
        <5>1. Delivery!Proper(hold[c], published) /\ published \in Nat
          BY DEF Delivery!WellFormed, Delivery!TypeOK
        <5> QED
          BY <1>1, <5>1 DEF Delivery!Proper, Delivery!TypeOK, Delivery!Events
      <4>4. 0 \notin Delivery!EventsOf(inbox[c])
        BY QueueMembers
      <4> QED
        BY <1>1, <1>2, <3>2, <4>1, <4>2, <4>3, <4>4 DEF Delivery!Once
    <3> QED
      BY <3>10, <3>11, <3>13, <3>14, <3>15
  <2>2. CASE rotations' # 0
    BY <2>2, DeliveryElse
  <2> QED
    BY <2>1, <2>2
<1> QED
  BY <1>3, <1>4, <1>5, <1>6, <1>7, <1>9

(* handleMessage of stream.resync. *)
LEMMA DeliveryHandleResyncStep ==
    ASSUME ConstantsOK, Delivery!DeliveryInv, NEW c \in Delivery!ConnIds, Delivery!HandleResync(c)
    PROVE  Delivery!DeliveryInv'
<1> USE DEF ConstantsOK, Delivery!DeliveryInv
<1>1. /\ hold'[c] = Delivery!NoMessage /\ hold[c] # Delivery!NoMessage /\ hold[c].kind = "resync"
      /\ \A k \in Delivery!ConnIds : k # c => hold'[k] = hold[k]
  BY DeliveryMessages DEF Delivery!HandleResync, Delivery!TypeOK
<1>2. /\ published' = published /\ sub' = sub /\ next' = next /\ sent' = sent
      /\ resync' = resync /\ inbox' = inbox /\ conn' = conn /\ warm' = warm
      /\ ready' = ready /\ used' = used /\ rotations' = rotations /\ dispatched' = dispatched
      /\ twice' = twice /\ holes' = holes /\ overflows' = overflows /\ unread' = unread
      /\ lastDeliverySeq' = hold[c].seq /\ seen' = 1..published /\ markers' = markers + 1
  BY DEF Delivery!HandleResync, Delivery!MarkerCursor, Delivery!Refetch, Delivery!serverVars,
    Delivery!readVars, Delivery!rotVars, Delivery!lossVars, Delivery!outVars
<1>3. Delivery!TypeOK'
  <2>1. inbox' \in [Delivery!ConnIds -> Seq(Delivery!Message)]
    BY <1>2 DEF Delivery!TypeOK
  <2>2. hold' \in [Delivery!ConnIds -> Delivery!Message]
    BY DeliveryMessages, <1>1, <1>2, DeliveryAppended, DeliveryShifted DEF Delivery!HandleResync,
      Delivery!Report, Delivery!Gap, Delivery!MarkerCursor, Delivery!Refetch, Delivery!serverVars,
      Delivery!readVars, Delivery!rotVars, Delivery!lossVars, Delivery!outVars, Delivery!TypeOK
  <2>3. /\ next' \in [Delivery!ConnIds -> Nat] /\ sent' \in [Delivery!ConnIds -> Nat]
    BY <1>2 DEF Delivery!TypeOK
  <2>4. /\ published' \in 0..MaxEvents /\ lastDeliverySeq' \in Nat /\ used' \in Nat
        /\ rotations' \in Nat
        /\ missed' \in Nat /\ markers' \in Nat /\ holes' \in Nat /\ overflows' \in Nat
    <3>1. hold[c].seq \in Nat /\ lastDeliverySeq \in Nat /\ missed \in Nat /\ markers \in Nat
      BY DeliveryMessages DEF Delivery!TypeOK
    <3>2. missed' \in Nat
      BY <3>1 DEF Delivery!HandleResync, Delivery!Report, Delivery!Gap
    <3> QED
      BY <1>2, <3>1, <3>2 DEF Delivery!TypeOK
  <2>5. /\ sub' \in SUBSET Delivery!ConnIds /\ resync' \in SUBSET Delivery!ConnIds
        /\ conn' \in Delivery!ConnIds \cup {None} /\ warm' \in Delivery!ConnIds \cup {None}
    BY <1>2 DEF Delivery!TypeOK
  <2>6. /\ seen' \subseteq 1..published' /\ dispatched' \in SUBSET seen'
        /\ twice' \in SUBSET dispatched'
        /\ unread' \in SUBSET Delivery!Events
    BY DeliveryMessages, <1>1, <1>2, DeliveryAppended, DeliveryShifted DEF Delivery!HandleResync,
      Delivery!Report, Delivery!Gap, Delivery!MarkerCursor, Delivery!Refetch, Delivery!serverVars,
      Delivery!readVars, Delivery!rotVars, Delivery!lossVars, Delivery!outVars, Delivery!TypeOK,
      Delivery!Linked, Delivery!Events, Delivery!WellFormed, Delivery!Proper
  <2>7. ready' \in BOOLEAN
    BY <1>2, Zenon DEF Delivery!TypeOK
  <2>8. seen' \in SUBSET Delivery!Events
    BY <2>4, <2>6 DEF Delivery!Events
  <2> QED
    BY <2>1, <2>2, <2>3, <2>4, <2>5, <2>6, <2>7, <2>8, Zenon DEF Delivery!TypeOK
<1>4. Delivery!Linked'
  <2>1. seen' \subseteq 1..published
    <3>1. seen \subseteq 1..published
      BY DEF Delivery!Linked
    <3> QED
      BY <1>2, <3>1
  <2>2. UNCHANGED <<conn, sub, resync, next, sent, inbox, warm, ready, used, published>>
    BY <1>2
  <2> QED
    BY <2>1, <2>2 DEF Delivery!Linked
<1>5. Delivery!WellFormed'
  <2>1. Delivery!Proper(hold'[c], published)
    BY <1>1, DeliveryMessages DEF Delivery!Proper
  <2> QED
    BY <1>1, <1>2, <2>1 DEF Delivery!WellFormed
<1>6. Delivery!NoneAstray'
  BY <1>2 DEF Delivery!NoneAstray
<1>7. Delivery!Alone'
  BY <1>1, <1>2 DEF Delivery!TypeOK, Delivery!Linked, Delivery!Alone, Delivery!ConnIds
<1>8. conn' \in Delivery!ConnIds \/ conn' = None
  BY <1>3 DEF Delivery!TypeOK
<1>9. /\ Delivery!InOrder' /\ Delivery!MissedCounted' /\ Delivery!MarkersCounted'
      /\ Delivery!NoneSilent' /\ Delivery!Once'
  <2>1. CASE rotations' = 0
    <3>1. rotations = 0 /\ hold[c] # Delivery!NoMessage
      BY <1>1, <1>2, <2>1
    <3>2. Delivery!Single /\ conn = c
      BY <3>1 DEF Delivery!Single, Delivery!Alone, Delivery!ConnIds
    <3>3. /\ Delivery!Ahead = hold[c].seq /\ hold[c].seq \in Nat /\ lastDeliverySeq \in Nat
          /\ hold[c].seq > lastDeliverySeq /\ next[c] \in Nat /\ inbox[c] \in Seq(Delivery!Message)
      BY <3>1, <3>2, DeliveryOne, DeliveryMessages
    <3>4. Delivery!Ahead' = hold[c].seq
      BY <1>1, <1>2, <3>2 DEF Delivery!Ahead
    <3>5. lastDeliverySeq = 0 => hold[c].seq = 1
      BY <3>1, <3>2 DEF Delivery!InOrder
    <3> DEFINE owed == hold[c].seq - lastDeliverySeq - 1
               room == next[c] - hold[c].seq - Len(inbox[c])
    <3>6. owed \in Nat /\ room \in Int
      <4> DEFINE h == hold[c].seq
                 l == Len(inbox[c])
                 n == next[c]
      <4>1. l \in Nat /\ h \in Nat /\ n \in Nat /\ lastDeliverySeq \in Nat /\ h > lastDeliverySeq
        BY <3>3
      <4> HIDE DEF h, l, n
      <4>2. h - lastDeliverySeq - 1 \in Nat /\ n - h - l \in Int
        BY <4>1
      <4> QED
        BY <4>2 DEF h, l, n
    <3>7. missed' = missed + owed
      <4>1. missed \in Nat
        BY DEF Delivery!TypeOK
      <4> QED
        BY <3>3, <3>5, <4>1 DEF Delivery!HandleResync, Delivery!Report, Delivery!Gap
    <3>8. Delivery!Unreported = owed + room
      BY <3>1, <3>2, <3>3 DEF Delivery!Unreported
    <3>9. Delivery!Unreported' = 0 + room
      BY <1>1, <1>2, <3>2, <3>4 DEF Delivery!Unreported
    <3> HIDE DEF room
    <3>10. Delivery!InOrder'
      BY <1>1, <1>2, <3>1, <3>2, <3>3, <3>4 DEF Delivery!InOrder
    <3>11. Delivery!MissedCounted'
      <4>1. missed \in Nat /\ holes \in Nat /\ missed + (owed + room) <= holes
        BY <3>2, <3>8 DEF Delivery!TypeOK, Delivery!MissedCounted, Delivery!Single
      <4>2. missed' + (0 + room) <= holes
        BY <3>6, <3>7, <4>1
      <4>3. room >= 0
        BY <3>2, <3>3, DeliveryOne DEF room
      <4> QED
        BY <1>2, <3>6, <3>7, <3>9, <4>1, <4>2, <4>3 DEF Delivery!MissedCounted
    <3>12. /\ Delivery!Markers = Delivery!Markers' \cup {hold[c].seq}
           /\ hold[c].seq \notin Delivery!Markers'
      <4>1. Delivery!Markers' = Delivery!MarkersOf(inbox[c])
        BY <1>1, <1>2, <3>2, DeliveryMessages DEF Delivery!Markers
      <4>2. Delivery!Markers = Delivery!MarkersOf(inbox[c]) \cup {hold[c].seq}
        BY <1>1, <3>2 DEF Delivery!Markers
      <4>3. \A k \in Delivery!MarkersOf(inbox[c]) : k \in (hold[c].seq + 1)..next[c]
        BY <3>2, <3>3, DeliveryOne
      <4> QED
        BY <3>3, <4>1, <4>2, <4>3
    <3>13. Delivery!MarkersCounted'
      <4>1. IsFiniteSet(Delivery!Markers')
        BY <3>2, <3>12, DeliveryOne, FS_Subset
      <4>2. /\ Cardinality(Delivery!Markers') \in Nat
            /\ Cardinality(Delivery!Markers) = Cardinality(Delivery!Markers') + 1
        BY <3>12, <4>1, FS_AddElement, FS_CardinalityType
      <4>3. /\ Delivery!Cardinality(Delivery!Markers') \in Nat
            /\ Delivery!Cardinality(Delivery!Markers) = Delivery!Cardinality(Delivery!Markers') + 1
        BY <4>2, DeliveryCardinality
      <4>4. /\ markers \in Nat /\ overflows \in Nat /\ markers' = markers + 1 /\ rotations = 0
            /\ conn # None
        BY <1>2, <3>2 DEF Delivery!TypeOK, Delivery!Single
      <4> QED
        BY <1>2, <4>3, <4>4 DEF Delivery!MarkersCounted
    <3>14. Delivery!NoneSilent'
      BY <1>2 DEF Delivery!NoneSilent
    <3>15. Delivery!Once'
      <4>1. /\ twice = {} /\ Delivery!Distinct(inbox[c])
            /\ Delivery!EventsOf(inbox[c]) \cap dispatched = {}
        BY <3>2 DEF Delivery!Once, Delivery!Single
      <4>2. hold'[c].ev = 0 /\ 0 \notin dispatched
        BY <1>1, DeliveryMessages DEF Delivery!TypeOK, Delivery!Events
      <4>3. 0 \notin Delivery!EventsOf(inbox[c])
        BY QueueMembers
      <4> QED
        BY <1>1, <1>2, <3>2, <4>1, <4>2, <4>3 DEF Delivery!Once
    <3> QED
      BY <3>10, <3>11, <3>13, <3>14, <3>15
  <2>2. CASE rotations' # 0
    BY <2>2, DeliveryElse
  <2> QED
    BY <2>1, <2>2
<1> QED
  BY <1>3, <1>4, <1>5, <1>6, <1>7, <1>9

(* The connection is lost. *)
LEMMA DeliveryLoseStep ==
    ASSUME ConstantsOK, Delivery!DeliveryInv, Delivery!Lose
    PROVE  Delivery!DeliveryInv'
<1> USE DEF ConstantsOK, Delivery!DeliveryInv
<1>1. \A k \in Delivery!ConnIds :
         /\ k \in {conn, warm} => inbox'[k] = <<>>
         /\ k \notin {conn, warm} => inbox'[k] = inbox[k]
  BY DEF Delivery!Lose, Delivery!Close, Delivery!TypeOK
<1>2. /\ published' = published /\ next' = next /\ sent' = sent
      /\ lastDeliverySeq' = lastDeliverySeq
      /\ hold' = hold /\ used' = used /\ rotations' = rotations /\ seen' = seen
      /\ dispatched' = dispatched /\ twice' = twice /\ missed' = missed /\ markers' = markers
      /\ holes' = holes /\ overflows' = overflows /\ unread' = unread
      /\ conn # None /\ conn' = None /\ hold[conn] = Delivery!NoMessage /\ warm' = None
      /\ ready' = FALSE
      /\ sub' = sub \ {conn, warm} /\ resync' = resync \ {conn, warm}
  BY DEF Delivery!Lose, Delivery!Close, Delivery!serverVars, Delivery!readVars, Delivery!rotVars,
    Delivery!lossVars, Delivery!outVars
<1>3. Delivery!TypeOK'
  <2>1. inbox' \in [Delivery!ConnIds -> Seq(Delivery!Message)]
    BY DeliveryMessages, <1>1, <1>2, DeliveryAppended, DeliveryShifted DEF Delivery!Lose,
      Delivery!Close, Delivery!serverVars, Delivery!readVars, Delivery!rotVars, Delivery!lossVars,
      Delivery!outVars, Delivery!TypeOK
  <2>2. hold' \in [Delivery!ConnIds -> Delivery!Message]
    BY <1>2 DEF Delivery!TypeOK
  <2>3. /\ next' \in [Delivery!ConnIds -> Nat] /\ sent' \in [Delivery!ConnIds -> Nat]
    BY <1>2 DEF Delivery!TypeOK
  <2>4. /\ published' \in 0..MaxEvents /\ lastDeliverySeq' \in Nat /\ used' \in Nat
        /\ rotations' \in Nat
        /\ missed' \in Nat /\ markers' \in Nat /\ holes' \in Nat /\ overflows' \in Nat
    BY <1>2 DEF Delivery!TypeOK
  <2>5. /\ sub' \in SUBSET Delivery!ConnIds /\ resync' \in SUBSET Delivery!ConnIds
        /\ conn' \in Delivery!ConnIds \cup {None} /\ warm' \in Delivery!ConnIds \cup {None}
    BY DeliveryMessages, <1>1, <1>2, DeliveryAppended, DeliveryShifted DEF Delivery!Lose,
      Delivery!Close, Delivery!serverVars, Delivery!readVars, Delivery!rotVars, Delivery!lossVars,
      Delivery!outVars, Delivery!TypeOK, Delivery!Linked, Delivery!ConnIds
  <2>6. /\ seen' \subseteq 1..published' /\ dispatched' \in SUBSET seen'
        /\ twice' \in SUBSET dispatched'
        /\ unread' \in SUBSET Delivery!Events
    BY <1>2 DEF Delivery!TypeOK, Delivery!Linked
  <2>7. ready' \in BOOLEAN
    BY Zenon DEF Delivery!Lose, Delivery!Close, Delivery!serverVars, Delivery!readVars,
      Delivery!rotVars, Delivery!lossVars, Delivery!outVars, Delivery!TypeOK
  <2>8. seen' \in SUBSET Delivery!Events
    BY <2>4, <2>6 DEF Delivery!Events
  <2> QED
    BY <2>1, <2>2, <2>3, <2>4, <2>5, <2>6, <2>7, <2>8, Zenon DEF Delivery!TypeOK
<1>4. Delivery!Linked'
  <2>1. sub' \subseteq 1..used /\ resync' \subseteq sub'
    BY <1>2 DEF Delivery!Linked
  <2>2. \A k \in Delivery!ConnIds \ sub' : \A i \in 1..Len(inbox'[k]) : inbox'[k][i].kind # "pong"
    <3> SUFFICES ASSUME NEW k \in Delivery!ConnIds \ sub', NEW i \in 1..Len(inbox'[k])
                 PROVE  inbox'[k][i].kind # "pong"
      OBVIOUS
    <3>1. CASE k \in {conn, warm}
      <4>1. Len(inbox'[k]) = 0
        BY <1>1, <3>1
      <4> QED
        BY <4>1
    <3>2. CASE k \notin {conn, warm}
      BY <1>1, <1>2, <3>2 DEF Delivery!Linked
    <3> QED
      BY <3>1, <3>2
  <2>3. \A k \in Delivery!ConnIds : k > used => inbox'[k] = <<>>
    <3>1. \A k \in Delivery!ConnIds : k > used => inbox[k] = <<>>
      BY DEF Delivery!Linked
    <3> QED
      BY <1>1, <3>1
  <2>4. /\ UNCHANGED <<used, next, sent, seen, published>>
        /\ conn' = None /\ warm' = None /\ ready' = FALSE
    BY <1>2
  <2> QED
    BY <2>1, <2>2, <2>3, <2>4 DEF Delivery!Linked
<1>5. Delivery!WellFormed'
  <2>1. \A k \in Delivery!ConnIds : Delivery!AllProper(inbox'[k], published)
    <3> SUFFICES ASSUME NEW k \in Delivery!ConnIds PROVE Delivery!AllProper(inbox'[k], published)
      OBVIOUS
    <3>1. Delivery!AllProper(inbox[k], published)
      BY DEF Delivery!WellFormed
    <3> QED
      BY <1>1, <3>1, QueueEmpty
  <2> QED
    BY <1>2, <2>1 DEF Delivery!WellFormed
<1>6. Delivery!NoneAstray'
  BY <1>1, <1>2 DEF Delivery!TypeOK, Delivery!Linked, Delivery!NoneAstray
<1>7. Delivery!Alone'
  <2> SUFFICES ASSUME rotations = 0 PROVE Delivery!Alone'
    BY <1>2 DEF Delivery!Alone
  <2>1. sub' = {} /\ resync' = {}
    BY <1>2 DEF Delivery!Alone
  <2>2. \A k \in Delivery!ConnIds : inbox'[k] = <<>> /\ hold[k] = Delivery!NoMessage
    <3> SUFFICES ASSUME NEW k \in Delivery!ConnIds
                 PROVE  inbox'[k] = <<>> /\ hold[k] = Delivery!NoMessage
      OBVIOUS
    <3>1. k # conn => inbox[k] = <<>> /\ hold[k] = Delivery!NoMessage
      BY DEF Delivery!Alone
    <3> QED
      BY <1>1, <1>2, <3>1
  <2> QED
    BY <1>2, <2>1, <2>2 DEF Delivery!Alone
<1>8. conn' \in Delivery!ConnIds \/ conn' = None
  BY <1>3 DEF Delivery!TypeOK
<1>9. /\ Delivery!InOrder' /\ Delivery!MissedCounted' /\ Delivery!MarkersCounted'
      /\ Delivery!NoneSilent' /\ Delivery!Once'
  <2>1. rotations = 0 => missed <= holes /\ markers <= overflows /\ twice = {}
    BY DEF Delivery!MissedCounted, Delivery!MarkersCounted, Delivery!Once
  <2> QED
    BY <1>2, <2>1, DeliveryElse
<1> QED
  BY <1>3, <1>4, <1>5, <1>6, <1>7, <1>9

(* RotateConnection. *)
LEMMA DeliveryRotateConnectionStep ==
    ASSUME ConstantsOK, Delivery!DeliveryInv, Delivery!RotateConnection
    PROVE  Delivery!DeliveryInv'
<1> USE DEF ConstantsOK, Delivery!DeliveryInv
<1>1. conn # None /\ warm = None /\ used < DeliveryConns /\ used' = used + 1
  BY DEF Delivery!RotateConnection
<1>2. /\ published' = published /\ sub' = sub /\ next' = next /\ sent' = sent
      /\ resync' = resync /\ inbox' = inbox /\ conn' = conn /\ lastDeliverySeq' = lastDeliverySeq
      /\ hold' = hold /\ ready' = ready /\ seen' = seen /\ dispatched' = dispatched
      /\ twice' = twice /\ missed' = missed /\ markers' = markers /\ holes' = holes
      /\ overflows' = overflows /\ unread' = unread
      /\ rotations' = rotations + 1 /\ warm' = used + 1
  BY DEF Delivery!RotateConnection, Delivery!serverVars, Delivery!readVars, Delivery!rotVars,
    Delivery!lossVars, Delivery!outVars
<1>3. Delivery!TypeOK'
  <2>1. inbox' \in [Delivery!ConnIds -> Seq(Delivery!Message)]
    BY <1>2 DEF Delivery!TypeOK
  <2>2. hold' \in [Delivery!ConnIds -> Delivery!Message]
    BY <1>2 DEF Delivery!TypeOK
  <2>3. /\ next' \in [Delivery!ConnIds -> Nat] /\ sent' \in [Delivery!ConnIds -> Nat]
    BY <1>2 DEF Delivery!TypeOK
  <2>4. /\ published' \in 0..MaxEvents /\ lastDeliverySeq' \in Nat /\ used' \in Nat
        /\ rotations' \in Nat
        /\ missed' \in Nat /\ markers' \in Nat /\ holes' \in Nat /\ overflows' \in Nat
    BY DeliveryMessages, <1>1, <1>2, DeliveryAppended, DeliveryShifted DEF
      Delivery!RotateConnection, Delivery!serverVars, Delivery!readVars, Delivery!rotVars,
      Delivery!lossVars, Delivery!outVars, Delivery!TypeOK
  <2>5. /\ sub' \in SUBSET Delivery!ConnIds /\ resync' \in SUBSET Delivery!ConnIds
        /\ conn' \in Delivery!ConnIds \cup {None} /\ warm' \in Delivery!ConnIds \cup {None}
    <3>1. used \in Nat /\ used + 1 <= DeliveryConns /\ warm' = used + 1
      BY <1>1, <1>2 DEF Delivery!TypeOK
    <3> QED
      BY <1>2, <3>1 DEF Delivery!TypeOK, Delivery!ConnIds
  <2>6. /\ seen' \subseteq 1..published' /\ dispatched' \in SUBSET seen'
        /\ twice' \in SUBSET dispatched'
        /\ unread' \in SUBSET Delivery!Events
    BY <1>2 DEF Delivery!TypeOK, Delivery!Linked
  <2>7. ready' \in BOOLEAN
    BY <1>2, Zenon DEF Delivery!TypeOK
  <2>8. seen' \in SUBSET Delivery!Events
    BY <2>4, <2>6 DEF Delivery!Events
  <2> QED
    BY <2>1, <2>2, <2>3, <2>4, <2>5, <2>6, <2>7, <2>8, Zenon DEF Delivery!TypeOK
<1>4. Delivery!Linked'
  <2>1. /\ used \in Nat /\ used' = used + 1 /\ used + 1 <= DeliveryConns /\ conn # None
        /\ warm = None /\ conn \in 1..used /\ warm' = used + 1 /\ ready = FALSE
    BY <1>1, <1>2 DEF Delivery!TypeOK, Delivery!Linked
  <2>2. 1..used \subseteq 1..used + 1 /\ warm' \in 1..used + 1 /\ warm' # conn
    BY <2>1
  <2>3. \A c \in Delivery!ConnIds : c > used + 1 => c > used
    BY <2>1 DEF Delivery!ConnIds
  <2>4. UNCHANGED <<conn, sub, resync, next, sent, inbox, ready, seen, published>>
    BY <1>2
  <2> QED
    BY <2>1, <2>2, <2>3, <2>4 DEF Delivery!Linked
<1>5. Delivery!WellFormed'
  BY <1>1, <1>2 DEF Delivery!TypeOK, Delivery!WellFormed
<1>6. Delivery!NoneAstray'
  BY <1>1, <1>2 DEF Delivery!TypeOK, Delivery!Linked, Delivery!NoneAstray
<1>7. rotations' # 0
  BY <1>1, <1>2 DEF Delivery!TypeOK, Delivery!Linked, Delivery!Alone
<1>8. Delivery!Alone'
  BY <1>7 DEF Delivery!Alone
<1>9. /\ Delivery!InOrder' /\ Delivery!MissedCounted' /\ Delivery!MarkersCounted'
      /\ Delivery!NoneSilent' /\ Delivery!Once'
  BY <1>7, DeliveryElse
<1> QED
  BY <1>3, <1>4, <1>5, <1>6, <1>8, <1>9

(* The server registers the warm connection. *)
LEMMA DeliveryRegisterStep ==
    ASSUME ConstantsOK, Delivery!DeliveryInv, Delivery!Register
    PROVE  Delivery!DeliveryInv'
<1> USE DEF ConstantsOK, Delivery!DeliveryInv
<1>1. warm # None /\ warm \notin sub /\ sub' = sub \cup {warm}
  BY DEF Delivery!Register
<1>2. /\ published' = published /\ next' = next /\ sent' = sent /\ resync' = resync
      /\ inbox' = inbox /\ conn' = conn /\ lastDeliverySeq' = lastDeliverySeq /\ hold' = hold
      /\ warm' = warm /\ ready' = ready /\ used' = used /\ rotations' = rotations
      /\ seen' = seen /\ dispatched' = dispatched /\ twice' = twice /\ missed' = missed
      /\ markers' = markers /\ holes' = holes /\ overflows' = overflows /\ unread' = unread
  BY DEF Delivery!Register, Delivery!serverVars, Delivery!readVars, Delivery!rotVars,
    Delivery!lossVars, Delivery!outVars
<1>3. Delivery!TypeOK'
  <2>1. inbox' \in [Delivery!ConnIds -> Seq(Delivery!Message)]
    BY <1>2 DEF Delivery!TypeOK
  <2>2. hold' \in [Delivery!ConnIds -> Delivery!Message]
    BY <1>2 DEF Delivery!TypeOK
  <2>3. /\ next' \in [Delivery!ConnIds -> Nat] /\ sent' \in [Delivery!ConnIds -> Nat]
    BY <1>2 DEF Delivery!TypeOK
  <2>4. /\ published' \in 0..MaxEvents /\ lastDeliverySeq' \in Nat /\ used' \in Nat
        /\ rotations' \in Nat
        /\ missed' \in Nat /\ markers' \in Nat /\ holes' \in Nat /\ overflows' \in Nat
    BY <1>2 DEF Delivery!TypeOK
  <2>5. /\ sub' \in SUBSET Delivery!ConnIds /\ resync' \in SUBSET Delivery!ConnIds
        /\ conn' \in Delivery!ConnIds \cup {None} /\ warm' \in Delivery!ConnIds \cup {None}
    BY <1>1, <1>2 DEF Delivery!TypeOK
  <2>6. /\ seen' \subseteq 1..published' /\ dispatched' \in SUBSET seen'
        /\ twice' \in SUBSET dispatched'
        /\ unread' \in SUBSET Delivery!Events
    BY <1>2 DEF Delivery!TypeOK, Delivery!Linked
  <2>7. ready' \in BOOLEAN
    BY <1>2, Zenon DEF Delivery!TypeOK
  <2>8. seen' \in SUBSET Delivery!Events
    BY <2>4, <2>6 DEF Delivery!Events
  <2> QED
    BY <2>1, <2>2, <2>3, <2>4, <2>5, <2>6, <2>7, <2>8, Zenon DEF Delivery!TypeOK
<1>4. Delivery!Linked'
  <2>1. UNCHANGED <<conn, warm, resync, next, sent, inbox, ready, used, seen, published>>
    BY <1>2
  <2> QED
    BY <1>1, <2>1 DEF Delivery!Linked
<1>5. Delivery!WellFormed'
  BY <1>1, <1>2 DEF Delivery!TypeOK, Delivery!WellFormed
<1>6. Delivery!NoneAstray'
  BY <1>2 DEF Delivery!NoneAstray
<1>7. rotations' # 0
  BY <1>1, <1>2 DEF Delivery!TypeOK, Delivery!Linked, Delivery!Alone
<1>8. Delivery!Alone'
  BY <1>7 DEF Delivery!Alone
<1>9. /\ Delivery!InOrder' /\ Delivery!MissedCounted' /\ Delivery!MarkersCounted'
      /\ Delivery!NoneSilent' /\ Delivery!Once'
  BY <1>7, DeliveryElse
<1> QED
  BY <1>3, <1>4, <1>5, <1>6, <1>8, <1>9

(* Its pong. *)
LEMMA DeliveryPongStep ==
    ASSUME ConstantsOK, Delivery!DeliveryInv, Delivery!Pong
    PROVE  Delivery!DeliveryInv'
<1> USE DEF ConstantsOK, Delivery!DeliveryInv
<1>1. /\ Extends(inbox'[warm], inbox[warm], Delivery!NoMessage)
      /\ \A k \in Delivery!ConnIds : k # warm => inbox'[k] = inbox[k]
  <2>1. warm \in Delivery!ConnIds /\ inbox[warm] \in Seq(Delivery!Message)
    BY DEF Delivery!Pong, Delivery!PongDue, Delivery!TypeOK
  <2>2. Extends(Append(inbox[warm], Delivery!NoMessage), inbox[warm], Delivery!NoMessage)
    BY <2>1, DeliveryMessages, DeliveryAppended
  <2>3. inbox' = [inbox EXCEPT ![warm] = Append(@, Delivery!NoMessage)]
    BY DeliveryMessages DEF Delivery!Pong
  <2> QED
    BY <2>1, <2>2, <2>3 DEF Delivery!TypeOK
<1>2. /\ published' = published /\ sub' = sub /\ next' = next /\ sent' = sent
      /\ resync' = resync /\ conn' = conn /\ lastDeliverySeq' = lastDeliverySeq /\ hold' = hold
      /\ warm' = warm /\ ready' = ready /\ used' = used /\ rotations' = rotations
      /\ seen' = seen /\ dispatched' = dispatched /\ twice' = twice /\ missed' = missed
      /\ markers' = markers /\ holes' = holes /\ overflows' = overflows /\ unread' = unread
      /\ warm \in sub
  BY DEF Delivery!Pong, Delivery!PongDue, Delivery!serverVars, Delivery!readVars,
    Delivery!rotVars, Delivery!lossVars, Delivery!outVars
<1>3. Delivery!TypeOK'
  <2>1. inbox' \in [Delivery!ConnIds -> Seq(Delivery!Message)]
    BY DeliveryMessages, <1>1, <1>2, DeliveryAppended, DeliveryShifted DEF Delivery!Pong,
      Delivery!PongDue, Delivery!serverVars, Delivery!readVars, Delivery!rotVars,
      Delivery!lossVars, Delivery!outVars, Delivery!TypeOK
  <2>2. hold' \in [Delivery!ConnIds -> Delivery!Message]
    BY <1>2 DEF Delivery!TypeOK
  <2>3. /\ next' \in [Delivery!ConnIds -> Nat] /\ sent' \in [Delivery!ConnIds -> Nat]
    BY <1>2 DEF Delivery!TypeOK
  <2>4. /\ published' \in 0..MaxEvents /\ lastDeliverySeq' \in Nat /\ used' \in Nat
        /\ rotations' \in Nat
        /\ missed' \in Nat /\ markers' \in Nat /\ holes' \in Nat /\ overflows' \in Nat
    BY <1>2 DEF Delivery!TypeOK
  <2>5. /\ sub' \in SUBSET Delivery!ConnIds /\ resync' \in SUBSET Delivery!ConnIds
        /\ conn' \in Delivery!ConnIds \cup {None} /\ warm' \in Delivery!ConnIds \cup {None}
    BY <1>2 DEF Delivery!TypeOK
  <2>6. /\ seen' \subseteq 1..published' /\ dispatched' \in SUBSET seen'
        /\ twice' \in SUBSET dispatched'
        /\ unread' \in SUBSET Delivery!Events
    BY <1>2 DEF Delivery!TypeOK, Delivery!Linked
  <2>7. ready' \in BOOLEAN
    BY <1>2, Zenon DEF Delivery!TypeOK
  <2>8. seen' \in SUBSET Delivery!Events
    BY <2>4, <2>6 DEF Delivery!Events
  <2> QED
    BY <2>1, <2>2, <2>3, <2>4, <2>5, <2>6, <2>7, <2>8, Zenon DEF Delivery!TypeOK
<1>4. Delivery!Linked'
  <2>1. warm \in 1..used /\ warm # conn /\ conn # None /\ used \in Nat
    BY <1>2 DEF Delivery!TypeOK, Delivery!Linked, Delivery!ConnIds
  <2>2. /\ \A k \in Delivery!ConnIds \ sub : inbox'[k] = inbox[k]
        /\ \A k \in Delivery!ConnIds : k > used => inbox'[k] = inbox[k]
    <3>1. \A k \in Delivery!ConnIds : k # warm => inbox'[k] = inbox[k]
      BY <1>1
    <3>2. \A k \in Delivery!ConnIds : k > used => k # warm
      BY <2>1
    <3> QED
      BY <1>2, <3>1, <3>2
  <2>3. UNCHANGED <<conn, sub, resync, next, sent, warm, ready, used, seen, published>>
    BY <1>2
  <2> QED
    BY <2>2, <2>3 DEF Delivery!Linked
<1>5. Delivery!WellFormed'
  <2>1. /\ warm \in Delivery!ConnIds /\ inbox[warm] \in Seq(Delivery!Message)
        /\ inbox'[warm] \in Seq(Delivery!Message) /\ published \in Nat
    BY <1>2, <1>3 DEF Delivery!TypeOK
  <2>2. Delivery!Proper(Delivery!NoMessage, published) /\ Delivery!AllProper(inbox[warm], published)
    BY <2>1, DeliveryMessages DEF Delivery!Proper, Delivery!WellFormed
  <2>3. Delivery!AllProper(inbox'[warm], published)
    BY <1>1, <2>1, <2>2, DeliveryMessages, QueueExtends
  <2> QED
    BY <1>1, <1>2, <2>3 DEF Delivery!WellFormed
<1>6. Delivery!NoneAstray'
  <2>1. conn # None => inbox'[conn] = inbox[conn]
    BY <1>1, <1>2 DEF Delivery!TypeOK, Delivery!Linked
  <2> QED
    BY <1>2, <2>1 DEF Delivery!NoneAstray
<1>7. rotations' # 0
  BY <1>1, <1>2 DEF Delivery!TypeOK, Delivery!Linked, Delivery!Alone
<1>8. Delivery!Alone'
  BY <1>7 DEF Delivery!Alone
<1>9. /\ Delivery!InOrder' /\ Delivery!MissedCounted' /\ Delivery!MarkersCounted'
      /\ Delivery!NoneSilent' /\ Delivery!Once'
  BY <1>7, DeliveryElse
<1> QED
  BY <1>3, <1>4, <1>5, <1>6, <1>8, <1>9

(* handleWarmMessage. *)
LEMMA DeliveryReadWarmStep ==
    ASSUME ConstantsOK, Delivery!DeliveryInv, Delivery!ReadWarm
    PROVE  Delivery!DeliveryInv'
<1> USE DEF ConstantsOK, Delivery!DeliveryInv
<1>1. /\ Shifts(inbox'[warm], inbox[warm]) /\ Len(inbox[warm]) > 0
      /\ \A k \in Delivery!ConnIds : k # warm => inbox'[k] = inbox[k]
  <2>1. warm \in Delivery!ConnIds /\ inbox[warm] \in Seq(Delivery!Message) /\ inbox[warm] # <<>>
    BY DEF Delivery!ReadWarm, Delivery!TypeOK
  <2> QED
    BY <2>1, DeliveryShifted DEF Delivery!ReadWarm, Delivery!TypeOK
<1>2. /\ published' = published /\ sub' = sub /\ next' = next /\ sent' = sent
      /\ resync' = resync /\ conn' = conn /\ lastDeliverySeq' = lastDeliverySeq /\ hold' = hold
      /\ warm' = warm /\ used' = used /\ rotations' = rotations /\ seen' = seen
      /\ dispatched' = dispatched /\ twice' = twice /\ missed' = missed /\ markers' = markers
      /\ holes' = holes /\ overflows' = overflows /\ unread' = unread
      /\ warm # None
  BY DEF Delivery!ReadWarm, Delivery!serverVars, Delivery!readVars, Delivery!rotVars,
    Delivery!lossVars, Delivery!outVars
<1>3. Delivery!TypeOK'
  <2>1. inbox' \in [Delivery!ConnIds -> Seq(Delivery!Message)]
    BY DeliveryMessages, <1>1, <1>2, DeliveryAppended, DeliveryShifted DEF Delivery!ReadWarm,
      Delivery!serverVars, Delivery!readVars, Delivery!rotVars, Delivery!lossVars,
      Delivery!outVars, Delivery!TypeOK
  <2>2. hold' \in [Delivery!ConnIds -> Delivery!Message]
    BY <1>2 DEF Delivery!TypeOK
  <2>3. /\ next' \in [Delivery!ConnIds -> Nat] /\ sent' \in [Delivery!ConnIds -> Nat]
    BY <1>2 DEF Delivery!TypeOK
  <2>4. /\ published' \in 0..MaxEvents /\ lastDeliverySeq' \in Nat /\ used' \in Nat
        /\ rotations' \in Nat
        /\ missed' \in Nat /\ markers' \in Nat /\ holes' \in Nat /\ overflows' \in Nat
    BY <1>2 DEF Delivery!TypeOK
  <2>5. /\ sub' \in SUBSET Delivery!ConnIds /\ resync' \in SUBSET Delivery!ConnIds
        /\ conn' \in Delivery!ConnIds \cup {None} /\ warm' \in Delivery!ConnIds \cup {None}
    BY <1>2 DEF Delivery!TypeOK
  <2>6. /\ seen' \subseteq 1..published' /\ dispatched' \in SUBSET seen'
        /\ twice' \in SUBSET dispatched'
        /\ unread' \in SUBSET Delivery!Events
    BY <1>2 DEF Delivery!TypeOK, Delivery!Linked
  <2>7. ready' \in BOOLEAN
    BY Zenon DEF Delivery!ReadWarm, Delivery!serverVars, Delivery!readVars, Delivery!rotVars,
      Delivery!lossVars, Delivery!outVars, Delivery!TypeOK
  <2>8. seen' \in SUBSET Delivery!Events
    BY <2>4, <2>6 DEF Delivery!Events
  <2> QED
    BY <2>1, <2>2, <2>3, <2>4, <2>5, <2>6, <2>7, <2>8, Zenon DEF Delivery!TypeOK
<1>4. Delivery!Linked'
  <2>1. warm \in 1..used /\ warm # conn /\ conn # None /\ used \in Nat
    BY <1>2 DEF Delivery!TypeOK, Delivery!Linked, Delivery!ConnIds
  <2>2. \A k \in Delivery!ConnIds : k > used => inbox'[k] = inbox[k]
    <3>1. \A k \in Delivery!ConnIds : k > used => k # warm
      BY <2>1
    <3> QED
      BY <1>1, <3>1
  <2>3. /\ inbox[warm] \in Seq(Delivery!Message) /\ inbox[warm] # <<>> /\ warm \in Delivery!ConnIds
    BY <1>2 DEF Delivery!ReadWarm, Delivery!TypeOK
  <2>4. Head(inbox[warm]) = inbox[warm][1] /\ 1 \in 1..Len(inbox[warm])
    BY <2>3
  <2>5. ready' => warm \in sub
    <3>1. warm \notin sub => Head(inbox[warm]).kind # "pong"
      BY <2>3, <2>4 DEF Delivery!Linked
    <3>2. ready' => ready \/ Head(inbox[warm]).kind = "pong"
      BY Zenon DEF Delivery!ReadWarm
    <3>3. ready => warm \in sub
      BY Zenon DEF Delivery!Linked
    <3> QED
      BY <3>1, <3>2, <3>3
  <2>6. \A k \in Delivery!ConnIds \ sub : \A i \in 1..Len(inbox'[k]) : inbox'[k][i].kind # "pong"
    <3> SUFFICES ASSUME NEW k \in Delivery!ConnIds \ sub, NEW i \in 1..Len(inbox'[k])
                 PROVE  inbox'[k][i].kind # "pong"
      OBVIOUS
    <3>1. \A j \in 1..Len(inbox[k]) : inbox[k][j].kind # "pong"
      BY DEF Delivery!Linked
    <3>2. CASE k = warm
      <4>1. inbox'[warm] \in Seq(Delivery!Message)
        BY <1>3, <2>3 DEF Delivery!TypeOK
      <4>2. i + 1 \in 1..Len(inbox[k]) /\ inbox'[k][i] = inbox[k][i + 1]
        BY <1>1, <2>3, <3>2, <4>1 DEF Shifts
      <4> QED
        BY <3>1, <4>2
    <3>3. CASE k # warm
      BY <1>1, <3>1, <3>3
    <3> QED
      BY <3>2, <3>3
  <2>7. UNCHANGED <<conn, sub, resync, next, sent, warm, used, seen, published>>
    BY <1>2
  <2> QED
    BY <2>1, <2>2, <2>5, <2>6, <2>7 DEF Delivery!Linked
<1>5. Delivery!WellFormed'
  <2>1. /\ warm \in Delivery!ConnIds /\ inbox[warm] \in Seq(Delivery!Message)
        /\ inbox'[warm] \in Seq(Delivery!Message) /\ published \in Nat
    BY <1>2, <1>3 DEF Delivery!TypeOK
  <2>2. Delivery!AllProper(inbox[warm], published)
    BY <2>1 DEF Delivery!WellFormed
  <2>3. Delivery!AllProper(inbox'[warm], published)
    BY <1>1, <2>1, <2>2, QueueShifts
  <2> QED
    BY <1>1, <1>2, <2>3 DEF Delivery!WellFormed
<1>6. Delivery!NoneAstray'
  <2>1. conn # None => inbox'[conn] = inbox[conn]
    BY <1>1, <1>2 DEF Delivery!TypeOK, Delivery!Linked
  <2> QED
    BY <1>2, <2>1 DEF Delivery!NoneAstray
<1>7. rotations' # 0
  BY <1>1, <1>2 DEF Delivery!TypeOK, Delivery!Linked, Delivery!Alone
<1>8. Delivery!Alone'
  BY <1>7 DEF Delivery!Alone
<1>9. /\ Delivery!InOrder' /\ Delivery!MissedCounted' /\ Delivery!MarkersCounted'
      /\ Delivery!NoneSilent' /\ Delivery!Once'
  BY <1>7, DeliveryElse
<1> QED
  BY <1>3, <1>4, <1>5, <1>6, <1>8, <1>9

(* promoteHandoff. *)
LEMMA DeliveryPromoteStep ==
    ASSUME ConstantsOK, Delivery!DeliveryInv, Delivery!Promote
    PROVE  Delivery!DeliveryInv'
<1> USE DEF ConstantsOK, Delivery!DeliveryInv
<1>1. \A k \in Delivery!ConnIds :
         /\ k = conn => inbox'[k] = <<>>
         /\ k # conn => inbox'[k] = inbox[k]
  BY DEF Delivery!Promote, Delivery!Close, Delivery!TypeOK
<1>2. /\ published' = published /\ next' = next /\ sent' = sent /\ hold' = hold
      /\ used' = used /\ rotations' = rotations /\ seen' = seen /\ dispatched' = dispatched
      /\ twice' = twice /\ missed' = missed /\ markers' = markers /\ holes' = holes
      /\ overflows' = overflows
      /\ ready /\ conn' = warm /\ warm' = None /\ ready' = FALSE
      /\ sub' = sub \ {conn} /\ resync' = resync \ {conn}
  BY DEF Delivery!Promote, Delivery!Close, Delivery!serverVars, Delivery!readVars,
    Delivery!rotVars, Delivery!lossVars, Delivery!outVars
<1>3. Delivery!TypeOK'
  <2>1. inbox' \in [Delivery!ConnIds -> Seq(Delivery!Message)]
    BY DeliveryMessages, <1>1, <1>2, DeliveryAppended, DeliveryShifted DEF Delivery!Promote,
      Delivery!Close, Delivery!serverVars, Delivery!readVars, Delivery!rotVars, Delivery!lossVars,
      Delivery!outVars, Delivery!TypeOK
  <2>2. hold' \in [Delivery!ConnIds -> Delivery!Message]
    BY <1>2 DEF Delivery!TypeOK
  <2>3. /\ next' \in [Delivery!ConnIds -> Nat] /\ sent' \in [Delivery!ConnIds -> Nat]
    BY <1>2 DEF Delivery!TypeOK
  <2>4. /\ published' \in 0..MaxEvents /\ lastDeliverySeq' \in Nat /\ used' \in Nat
        /\ rotations' \in Nat
        /\ missed' \in Nat /\ markers' \in Nat /\ holes' \in Nat /\ overflows' \in Nat
    BY DeliveryMessages, <1>1, <1>2, DeliveryAppended, DeliveryShifted DEF Delivery!Promote,
      Delivery!Close, Delivery!serverVars, Delivery!readVars, Delivery!rotVars, Delivery!lossVars,
      Delivery!outVars, Delivery!TypeOK
  <2>5. /\ sub' \in SUBSET Delivery!ConnIds /\ resync' \in SUBSET Delivery!ConnIds
        /\ conn' \in Delivery!ConnIds \cup {None} /\ warm' \in Delivery!ConnIds \cup {None}
    BY DeliveryMessages, <1>1, <1>2, DeliveryAppended, DeliveryShifted DEF Delivery!Promote,
      Delivery!Close, Delivery!serverVars, Delivery!readVars, Delivery!rotVars, Delivery!lossVars,
      Delivery!outVars, Delivery!TypeOK, Delivery!Linked, Delivery!ConnIds
  <2>6. /\ seen' \subseteq 1..published' /\ dispatched' \in SUBSET seen'
        /\ twice' \in SUBSET dispatched'
        /\ unread' \in SUBSET Delivery!Events
    <3>1. unread' \in SUBSET Delivery!Events
      <4>1. CASE conn \in Delivery!ConnIds
        <5>1. /\ inbox[conn] \in Seq(Delivery!Message) /\ published \in 0..MaxEvents
              /\ Delivery!AllProper(inbox[conn], published)
          BY <4>1 DEF Delivery!TypeOK, Delivery!WellFormed
        <5>2. \A e \in Delivery!EventsOf(inbox[conn]) : e \in 1..published
          BY <5>1, QueueKept
        <5> QED
          <6>1. unread' = unread \cup Delivery!EventsOf(inbox[conn])
            BY DEF Delivery!Promote
          <6>2. Delivery!EventsOf(inbox[conn]) \subseteq 1..MaxEvents
            BY <5>1, <5>2
          <6> QED
            BY <6>1, <6>2 DEF Delivery!TypeOK, Delivery!Events
      <4>2. conn \in Delivery!ConnIds
        BY <1>2 DEF Delivery!TypeOK, Delivery!Linked
      <4> QED
        BY <4>1, <4>2
    <3> QED
      BY <1>2, <3>1 DEF Delivery!TypeOK, Delivery!Linked
  <2>7. ready' \in BOOLEAN
    BY Zenon DEF Delivery!Promote, Delivery!Close, Delivery!serverVars, Delivery!readVars,
      Delivery!rotVars, Delivery!lossVars, Delivery!outVars, Delivery!TypeOK
  <2>8. seen' \in SUBSET Delivery!Events
    BY <2>4, <2>6 DEF Delivery!Events
  <2> QED
    BY <2>1, <2>2, <2>3, <2>4, <2>5, <2>6, <2>7, <2>8, Zenon DEF Delivery!TypeOK
<1>4. Delivery!Linked'
  <2>0. conn # None /\ warm \in sub /\ warm # conn /\ warm \in 1..used
    BY <1>2 DEF Delivery!Linked
  <2>1. sub' \subseteq 1..used /\ resync' \subseteq sub'
    BY <1>2 DEF Delivery!Linked
  <2>2. \A k \in Delivery!ConnIds \ sub' : \A i \in 1..Len(inbox'[k]) : inbox'[k][i].kind # "pong"
    <3> SUFFICES ASSUME NEW k \in Delivery!ConnIds \ sub', NEW i \in 1..Len(inbox'[k])
                 PROVE  inbox'[k][i].kind # "pong"
      OBVIOUS
    <3>1. CASE k \in {conn}
      <4>1. Len(inbox'[k]) = 0
        BY <1>1, <3>1
      <4> QED
        BY <4>1
    <3>2. CASE k \notin {conn}
      BY <1>1, <1>2, <3>2 DEF Delivery!Linked
    <3> QED
      BY <3>1, <3>2
  <2>3. \A k \in Delivery!ConnIds : k > used => inbox'[k] = <<>>
    <3>1. \A k \in Delivery!ConnIds : k > used => inbox[k] = <<>>
      BY DEF Delivery!Linked
    <3> QED
      BY <1>1, <3>1
  <2>4. /\ UNCHANGED <<used, next, sent, seen, published>>
        /\ conn' = warm /\ warm \in sub' /\ warm' = None /\ ready' = FALSE
    BY <1>2, <2>0
  <2> QED
    BY <2>0, <2>1, <2>2, <2>3, <2>4 DEF Delivery!Linked
<1>5. Delivery!WellFormed'
  <2>1. \A k \in Delivery!ConnIds : Delivery!AllProper(inbox'[k], published)
    <3> SUFFICES ASSUME NEW k \in Delivery!ConnIds PROVE Delivery!AllProper(inbox'[k], published)
      OBVIOUS
    <3>1. Delivery!AllProper(inbox[k], published)
      BY DEF Delivery!WellFormed
    <3> QED
      BY <1>1, <3>1, QueueEmpty
  <2> QED
    BY <1>2, <2>1 DEF Delivery!WellFormed
<1>6. Delivery!NoneAstray'
  <2> SUFFICES ASSUME holes + overflows = 0, NEW e \in 1..published
               PROVE  e \in seen \cup unread' \cup {hold[k].ev : k \in Delivery!ConnIds}
    BY <1>2 DEF Delivery!NoneAstray
  <2>1. conn # None
    BY <1>2 DEF Delivery!Linked
  <2>2. unread' = unread \cup Delivery!EventsOf(inbox[conn])
    BY DEF Delivery!Promote
  <2> QED
    BY <2>1, <2>2 DEF Delivery!NoneAstray
<1>7. rotations' # 0
  BY <1>1, <1>2 DEF Delivery!TypeOK, Delivery!Linked, Delivery!Alone
<1>8. Delivery!Alone'
  BY <1>7 DEF Delivery!Alone
<1>9. /\ Delivery!InOrder' /\ Delivery!MissedCounted' /\ Delivery!MarkersCounted'
      /\ Delivery!NoneSilent' /\ Delivery!Once'
  BY <1>7, DeliveryElse
<1> QED
  BY <1>3, <1>4, <1>5, <1>6, <1>8, <1>9

(* abortHandoffIf. *)
LEMMA DeliveryAbortHandoffStep ==
    ASSUME ConstantsOK, Delivery!DeliveryInv, Delivery!AbortHandoff
    PROVE  Delivery!DeliveryInv'
<1> USE DEF ConstantsOK, Delivery!DeliveryInv
<1>1. \A k \in Delivery!ConnIds :
         /\ k = warm => inbox'[k] = <<>>
         /\ k # warm => inbox'[k] = inbox[k]
  BY DEF Delivery!AbortHandoff, Delivery!Close, Delivery!TypeOK
<1>2. /\ published' = published /\ next' = next /\ sent' = sent /\ conn' = conn
      /\ lastDeliverySeq' = lastDeliverySeq /\ hold' = hold /\ used' = used
      /\ rotations' = rotations
      /\ seen' = seen /\ dispatched' = dispatched /\ twice' = twice /\ missed' = missed
      /\ markers' = markers /\ holes' = holes /\ overflows' = overflows /\ unread' = unread
      /\ warm # None /\ warm' = None /\ ready' = FALSE
      /\ sub' = sub \ {warm} /\ resync' = resync \ {warm}
  BY DEF Delivery!AbortHandoff, Delivery!Close, Delivery!serverVars, Delivery!readVars,
    Delivery!rotVars, Delivery!lossVars, Delivery!outVars
<1>3. Delivery!TypeOK'
  <2>1. inbox' \in [Delivery!ConnIds -> Seq(Delivery!Message)]
    BY DeliveryMessages, <1>1, <1>2, DeliveryAppended, DeliveryShifted DEF Delivery!AbortHandoff,
      Delivery!Close, Delivery!serverVars, Delivery!readVars, Delivery!rotVars, Delivery!lossVars,
      Delivery!outVars, Delivery!TypeOK
  <2>2. hold' \in [Delivery!ConnIds -> Delivery!Message]
    BY <1>2 DEF Delivery!TypeOK
  <2>3. /\ next' \in [Delivery!ConnIds -> Nat] /\ sent' \in [Delivery!ConnIds -> Nat]
    BY <1>2 DEF Delivery!TypeOK
  <2>4. /\ published' \in 0..MaxEvents /\ lastDeliverySeq' \in Nat /\ used' \in Nat
        /\ rotations' \in Nat
        /\ missed' \in Nat /\ markers' \in Nat /\ holes' \in Nat /\ overflows' \in Nat
    BY <1>2 DEF Delivery!TypeOK
  <2>5. /\ sub' \in SUBSET Delivery!ConnIds /\ resync' \in SUBSET Delivery!ConnIds
        /\ conn' \in Delivery!ConnIds \cup {None} /\ warm' \in Delivery!ConnIds \cup {None}
    BY DeliveryMessages, <1>1, <1>2, DeliveryAppended, DeliveryShifted DEF Delivery!AbortHandoff,
      Delivery!Close, Delivery!serverVars, Delivery!readVars, Delivery!rotVars, Delivery!lossVars,
      Delivery!outVars, Delivery!TypeOK, Delivery!Linked, Delivery!ConnIds
  <2>6. /\ seen' \subseteq 1..published' /\ dispatched' \in SUBSET seen'
        /\ twice' \in SUBSET dispatched'
        /\ unread' \in SUBSET Delivery!Events
    BY <1>2 DEF Delivery!TypeOK, Delivery!Linked
  <2>7. ready' \in BOOLEAN
    BY Zenon DEF Delivery!AbortHandoff, Delivery!Close, Delivery!serverVars, Delivery!readVars,
      Delivery!rotVars, Delivery!lossVars, Delivery!outVars, Delivery!TypeOK
  <2>8. seen' \in SUBSET Delivery!Events
    BY <2>4, <2>6 DEF Delivery!Events
  <2> QED
    BY <2>1, <2>2, <2>3, <2>4, <2>5, <2>6, <2>7, <2>8, Zenon DEF Delivery!TypeOK
<1>4. Delivery!Linked'
  <2>0. conn # None => conn \in sub' /\ conn \in 1..used
    BY <1>2 DEF Delivery!Linked
  <2>1. sub' \subseteq 1..used /\ resync' \subseteq sub'
    BY <1>2 DEF Delivery!Linked
  <2>2. \A k \in Delivery!ConnIds \ sub' : \A i \in 1..Len(inbox'[k]) : inbox'[k][i].kind # "pong"
    <3> SUFFICES ASSUME NEW k \in Delivery!ConnIds \ sub', NEW i \in 1..Len(inbox'[k])
                 PROVE  inbox'[k][i].kind # "pong"
      OBVIOUS
    <3>1. CASE k \in {warm}
      <4>1. Len(inbox'[k]) = 0
        BY <1>1, <3>1
      <4> QED
        BY <4>1
    <3>2. CASE k \notin {warm}
      BY <1>1, <1>2, <3>2 DEF Delivery!Linked
    <3> QED
      BY <3>1, <3>2
  <2>3. \A k \in Delivery!ConnIds : k > used => inbox'[k] = <<>>
    <3>1. \A k \in Delivery!ConnIds : k > used => inbox[k] = <<>>
      BY DEF Delivery!Linked
    <3> QED
      BY <1>1, <3>1
  <2>4. /\ UNCHANGED <<used, next, sent, seen, published>>
        /\ conn' = conn /\ warm' = None /\ ready' = FALSE
    BY <1>2
  <2> QED
    BY <2>0, <2>1, <2>2, <2>3, <2>4 DEF Delivery!Linked
<1>5. Delivery!WellFormed'
  <2>1. \A k \in Delivery!ConnIds : Delivery!AllProper(inbox'[k], published)
    <3> SUFFICES ASSUME NEW k \in Delivery!ConnIds PROVE Delivery!AllProper(inbox'[k], published)
      OBVIOUS
    <3>1. Delivery!AllProper(inbox[k], published)
      BY DEF Delivery!WellFormed
    <3> QED
      BY <1>1, <3>1, QueueEmpty
  <2> QED
    BY <1>2, <2>1 DEF Delivery!WellFormed
<1>6. Delivery!NoneAstray'
  <2>1. conn # None => inbox'[conn] = inbox[conn]
    BY <1>1, <1>2 DEF Delivery!TypeOK, Delivery!Linked
  <2> QED
    BY <1>2, <2>1 DEF Delivery!NoneAstray
<1>7. rotations' # 0
  BY <1>1, <1>2 DEF Delivery!TypeOK, Delivery!Linked, Delivery!Alone
<1>8. Delivery!Alone'
  BY <1>7 DEF Delivery!Alone
<1>9. /\ Delivery!InOrder' /\ Delivery!MissedCounted' /\ Delivery!MarkersCounted'
      /\ Delivery!NoneSilent' /\ Delivery!Once'
  BY <1>7, DeliveryElse
<1> QED
  BY <1>3, <1>4, <1>5, <1>6, <1>8, <1>9

(* All of them. *)
LEMMA DeliveryKept ==
    ASSUME ConstantsOK, Delivery!DeliveryInv, [Delivery!Next]_(Delivery!vars)
    PROVE  Delivery!DeliveryInv'
<1>1. CASE Delivery!ServerStep
  BY <1>1, DeliveryPublishStep, DeliveryPublishHoleStep, DeliveryPublishOverflowStep,
    DeliverySendResyncStep DEF Delivery!ServerStep
<1>2. CASE Delivery!ReadStep
  BY <1>2, DeliveryOnAuthenticatedStep, DeliveryLoseStep, DeliveryReadStep,
    DeliveryHandleEventStep, DeliveryHandleResyncStep DEF Delivery!ReadStep
<1>3. CASE Delivery!WarmStep
  BY <1>3, DeliveryRotateConnectionStep, DeliveryRegisterStep, DeliveryPongStep,
    DeliveryReadWarmStep, DeliveryPromoteStep, DeliveryAbortHandoffStep DEF Delivery!WarmStep
<1>4. CASE UNCHANGED Delivery!vars
  <2> USE <1>4 DEF Delivery!DeliveryInv, Delivery!vars, Delivery!serverVars, Delivery!readVars,
    Delivery!rotVars, Delivery!lossVars, Delivery!outVars
  <2>1. Delivery!TypeOK'
    BY Zenon DEF Delivery!TypeOK
  <2>2. Delivery!Linked' /\ Delivery!WellFormed' /\ Delivery!NoneAstray' /\ Delivery!Alone'
    BY DEF Delivery!Linked, Delivery!WellFormed, Delivery!NoneAstray, Delivery!Alone
  <2>3. /\ Delivery!Single' = Delivery!Single /\ Delivery!Ahead' = Delivery!Ahead
        /\ Delivery!Unreported' = Delivery!Unreported /\ Delivery!Markers' = Delivery!Markers
    BY DEF Delivery!Single, Delivery!Ahead, Delivery!Unreported, Delivery!Markers
  <2>4. Delivery!InOrder' /\ Delivery!MissedCounted' /\ Delivery!MarkersCounted'
    BY <2>3 DEF Delivery!InOrder, Delivery!MissedCounted, Delivery!MarkersCounted
  <2>5. Delivery!NoneSilent' /\ Delivery!Once'
    BY <2>3 DEF Delivery!NoneSilent, Delivery!Once
  <2> QED
    BY <2>1, <2>2, <2>4, <2>5
<1> QED
  BY <1>1, <1>2, <1>3, <1>4 DEF Delivery!Next

LEMMA DeliveryInit ==
    ASSUME ConstantsOK, Delivery!Init
    PROVE  Delivery!DeliveryInv
<1> USE DEF Delivery!Init
<1>1. Delivery!TypeOK
  <2>1. ready \in BOOLEAN
    BY Zenon
  <2>2. inbox \in [Delivery!ConnIds -> Seq(Delivery!Message)]
    OBVIOUS
  <2>3. hold \in [Delivery!ConnIds -> Delivery!Message]
    BY DeliveryMessages
  <2>4. /\ next \in [Delivery!ConnIds -> Nat] /\ sent \in [Delivery!ConnIds -> Nat]
        /\ published \in 0..MaxEvents
    BY DEF ConstantsOK
  <2> QED
    BY <2>1, <2>2, <2>3, <2>4 DEF Delivery!TypeOK
<1>2. Delivery!Linked
  <2>1. \A c \in Delivery!ConnIds : Len(inbox[c]) = 0
    OBVIOUS
  <2> QED
    BY <2>1 DEF ConstantsOK, Delivery!Linked
<1>3. Delivery!WellFormed
  BY QueueEmpty, DeliveryMessages DEF Delivery!WellFormed, Delivery!Proper
<1>4. Delivery!NoneAstray /\ Delivery!Alone
  BY DEF Delivery!NoneAstray, Delivery!Alone
<1>5. /\ Delivery!InOrder /\ Delivery!MissedCounted /\ Delivery!MarkersCounted
      /\ Delivery!NoneSilent /\ Delivery!Once
  BY DEF Delivery!InOrder, Delivery!MissedCounted, Delivery!MarkersCounted,
    Delivery!NoneSilent, Delivery!Once, Delivery!Single
<1> QED
  BY <1>1, <1>2, <1>3, <1>4, <1>5 DEF Delivery!DeliveryInv

(* What it says once everything sent has been handled. *)
LEMMA DeliveryConsequences ==
    ASSUME ConstantsOK, Delivery!DeliveryInv
    PROVE  Delivery!TypeOK /\ Delivery!LossConfined /\ Delivery!OneStream
<1> USE DEF Delivery!DeliveryInv
<1>1. ASSUME Delivery!Quiet
      PROVE  /\ conn # None /\ conn \in Delivery!ConnIds /\ conn \notin resync
             /\ inbox[conn] = <<>> /\ sent[conn] = next[conn]
             /\ \A c \in Delivery!ConnIds : hold[c] = Delivery!NoMessage /\ hold[c].ev = 0
             /\ Delivery!EventsOf(inbox[conn]) = {} /\ published \in Nat
  BY <1>1, DeliveryMessages, QueueEmpty DEF Delivery!Quiet, Delivery!TypeOK, ConstantsOK
<1>2. Delivery!LossConfined
  <2> SUFFICES ASSUME Delivery!Quiet, holes + overflows = 0, NEW e \in 1..published, e \notin seen
               PROVE  e \in unread
    BY DEF Delivery!LossConfined
  <2> QED
    BY <1>1 DEF Delivery!NoneAstray
<1>3. ASSUME rotations = 0 PROVE Delivery!NoSilentLoss
  <2> SUFFICES ASSUME Delivery!Quiet PROVE seen = 1..published
    BY DEF Delivery!NoSilentLoss
  <2>1. Delivery!Single
    BY <1>1, <1>3 DEF Delivery!Single
  <2>2. /\ Delivery!Ahead = lastDeliverySeq /\ lastDeliverySeq \in Nat /\ next[conn] \in Nat
        /\ sent[conn] = Delivery!LastOf(inbox[conn], Delivery!Ahead)
    BY <1>1, <2>1, DeliveryOne DEF Delivery!InOrder
  <2>3. next[conn] = lastDeliverySeq
    BY <1>1, <2>2, QueueEmpty
  <2>4. Delivery!Unreported = 0
    <3>1. Len(<<>>) = 0
      OBVIOUS
    <3>2. Delivery!Unreported = 0 + (next[conn] - lastDeliverySeq - 0)
      BY <1>1, <2>2, <3>1 DEF Delivery!Unreported
    <3> QED
      BY <2>2, <2>3, <3>2
  <2>5. Delivery!Markers = {}
    BY <1>1, DeliveryMessages, QueueEmpty DEF Delivery!Markers
  <2>6. 1..published \subseteq seen \cup {0}
    BY <1>1, <2>1, <2>4, <2>5 DEF Delivery!NoneSilent
  <2>7. 1..published \subseteq seen
    BY <1>1, <2>6
  <2> QED
    BY <2>7 DEF Delivery!Linked
<1>4. Delivery!OneStream
  BY <1>3 DEF Delivery!OneStream, Delivery!MissedCounted, Delivery!MarkersCounted, Delivery!Once
<1> QED
  BY <1>2, <1>4

(* For any events, losses and connections: until the first rotation,       *)
(* checkGap sees every loss and none that did not happen, and no event is  *)
(* dispatched twice. For any rotations of a server that loses nothing, all *)
(* that consumers miss in silence is what retired sockets held unread.     *)
THEOREM DeliveryIsSound == Spec => []DeliverySound
<1> DEFINE I == part = "delivery" => Delivery!DeliveryInv
<1>1. Init => I
  BY ConstantsOK, DeliveryInit DEF Init
<1>2. I /\ [Next]_vars => I'
  <2> SUFFICES ASSUME I, [Next]_vars, part' = "delivery" PROVE Delivery!DeliveryInv'
    OBVIOUS
  <2>1. CASE DeliveryNext
    BY <2>1, ConstantsOK, DeliveryKept DEF DeliveryNext
  <2>2. CASE UNCHANGED vars
    <3>1. part = "delivery" /\ UNCHANGED Delivery!vars
      BY <2>2 DEF vars, link, handoff, deliveryOnly, Delivery!vars, Delivery!serverVars,
        Delivery!readVars, Delivery!rotVars, Delivery!lossVars, Delivery!outVars
    <3> QED
      BY <3>1, ConstantsOK, DeliveryKept
  <2>3. CASE EventsNext \/ MidsNext \/ CandlesNext \/ PathsNext \/ BaseNext
    BY <2>3 DEF EventsNext, MidsNext, CandlesNext, PathsNext, BaseNext
  <2> QED
    BY <2>1, <2>2, <2>3 DEF Next
<1>3. I => DeliverySound
  BY ConstantsOK, DeliveryConsequences DEF DeliverySound
<1> QED
  BY <1>1, <1>2, <1>3, PTL DEF Spec

=============================================================================
