----------------------------- MODULE HistoryCache -----------------------------
(***************************************************************************)
(* The client's caches and the calls that read through them: the history   *)
(* cache (cache.go) of GetCandles, GetOIHistory, GetFundingHistory,        *)
(* GetEquityHistory and GetPnlHistory, which forgets the least recently    *)
(* used entry and what is older than its lifetime, and the market metadata *)
(* (marketdata.go), kept until it is refreshed. A call looks, fetches      *)
(* without a lock and stores: calls overlap.                               *)
(*                                                                         *)
(* A value is the server's version at the time it answered. The server and *)
(* the clock are external.                                                 *)
(***************************************************************************)
EXTENDS Naturals, Sequences, SequencesExt

CONSTANTS
    Callers,
    Keys,         \* what buildCacheKey makes of a request
    MaxEntries, TTL,     \* CacheConfig, a TTL of 0 keeps for ever
    MaxTime,      \* bound: ticks of the clock
    MaxCalls,     \* bound: calls
    Meta,         \* the metadata, which is no key of the history cache
    Nothing

VARIABLES
    items,      \* the list, most recently used first: [key, value, expiresAt]
    metaCache,  \* the metadata that is held, or Nothing
    now, version,
    calls,      \* calls made
    pc, want, got, began,   \* of each caller: where it is, what it wants, the
                            \* server's answer, and the version when it called
    alone,      \* history: no other call has been under way while it was
    recency,    \* history: the [key] in the order of their last use
    answer      \* history: what the last call to end returned, whence, how long before it was
                \* stored, and Since

cache == <<items, metaCache>>
local == <<pc, want, got, began, alone>>
vars == <<cache, now, version, calls, local, recency, answer>>

Has(seq, k) == \E i \in DOMAIN seq : seq[i].key = k
Place(seq, k) == CHOOSE i \in DOMAIN seq : seq[i].key = k
Entry(seq, k) == seq[Place(seq, k)]
Without(seq, k) == IF Has(seq, k) THEN RemoveAt(seq, Place(seq, k)) ELSE seq
Use(k) == <<[key |-> k]>> \o Without(recency, k)

Expired(e) == TTL > 0 /\ now > e.expiresAt

-----------------------------------------------------------------------------
(* The mutant does not move what it finds to the front. *)
Mutget(k) ==
    IF ~Has(items, k) THEN <<Nothing, items>>
    ELSE IF Expired(Entry(items, k)) THEN <<Nothing, Without(items, k)>>
    ELSE <<Entry(items, k).value, items>>

(* The mutant never expires. *)
Keepget(k) ==
    IF Has(items, k)
    THEN <<Entry(items, k).value, <<Entry(items, k)>> \o Without(items, k)>>
    ELSE <<Nothing, items>>

(* The value of a key, if it is there and has not expired, and the list    *)
(* afterwards: what is found moves to the front, what has expired goes.    *)
get(k) ==
    IF ~Has(items, k) THEN <<Nothing, items>>
    ELSE IF Expired(Entry(items, k)) THEN <<Nothing, Without(items, k)>>
    ELSE <<Entry(items, k).value, <<Entry(items, k)>> \o Without(items, k)>>

(* The list with a key in front, without what is then too much. *)
set(k, v) ==
    LET full == <<[key |-> k, value |-> v, expiresAt |-> now + TTL]>> \o Without(items, k) IN
    SubSeq(full, 1, IF Len(full) > MaxEntries THEN MaxEntries ELSE Len(full))

Begin(c, k, at) ==
    /\ pc[c] = "idle" /\ calls < MaxCalls
    /\ calls' = calls + 1
    /\ want' = [want EXCEPT ![c] = k]
    /\ began' = [began EXCEPT ![c] = version[k]]
    /\ alone' = [d \in Callers |->
                    IF d = c THEN \A x \in Callers \ {c} : pc[x] = "idle" ELSE pc[d] = "idle"]
    /\ pc' = [pc EXCEPT ![c] = at]
    /\ UNCHANGED <<now, version, got>>

(* A call that is answered at once. *)
Hit(c) ==
    /\ pc[c] = "idle" /\ calls < MaxCalls
    /\ calls' = calls + 1
    /\ alone' = [d \in Callers |-> pc[d] = "idle"]
    /\ UNCHANGED <<now, version, pc, want, got, began>>

(* A call ends, and its locals with it. *)
End(c) ==
    /\ pc' = [pc EXCEPT ![c] = "idle"]
    /\ want' = [want EXCEPT ![c] = Nothing] /\ got' = [got EXCEPT ![c] = Nothing]
    /\ began' = [began EXCEPT ![c] = 0] /\ alone' = [alone EXCEPT ![c] = TRUE]

(* The version of the metadata that a call of it started with, if no other *)
(* call was under way.                                                     *)
Since(c) == IF want[c] = Meta /\ alone[c] THEN began[c] ELSE 0

Answer(v, how, age, since) ==
    answer' = [value |-> v, how |-> how, age |-> age, since |-> since]

Age(k) == now + TTL - Entry(items, k).expiresAt

(* A call looks into the cache, and is answered from it or fetches. *)
Look(c, k) ==
    LET found == get(k) IN
    /\ items' = found[2]
    /\ recency' = IF found[1] # Nothing THEN Use(k) ELSE IF Has(items, k) THEN Without(recency, k) ELSE recency
    /\ IF found[1] # Nothing
       THEN Hit(c) /\ Answer(found[1], "cached", Age(k), 0)
       ELSE Begin(c, k, "fetching") /\ UNCHANGED answer
    /\ UNCHANGED metaCache

(* ensureMetaLoaded, and RefreshMarketMeta which drops what is held first. *)
LookMeta(c) ==
    /\ IF metaCache # Nothing
       THEN Hit(c) /\ Answer(metaCache, "held", 0, 0)
       ELSE Begin(c, Meta, "fetching") /\ UNCHANGED answer
    /\ UNCHANGED <<cache, recency>>

(* The mutant keeps what is held. *)
MutRefreshMarketMeta(c) == Begin(c, Meta, "refreshed") /\ UNCHANGED <<cache, recency, answer>>

RefreshMarketMeta(c) ==
    /\ Begin(c, Meta, "refreshed")
    /\ metaCache' = Nothing
    /\ UNCHANGED <<items, recency, answer>>

(* The second half of a refresh: what another call has stored meanwhile is *)
(* taken for the new metadata.                                             *)
Reload(c) ==
    /\ pc[c] = "refreshed"
    /\ IF metaCache # Nothing
       THEN End(c) /\ Answer(metaCache, "refresh", 0, Since(c))
       ELSE pc' = [pc EXCEPT ![c] = "fetching"] /\ UNCHANGED <<want, got, began, alone, answer>>
    /\ UNCHANGED <<cache, now, version, calls, recency>>

(* The server answers, or the request fails and so does the call. *)
Fetch(c) ==
    /\ pc[c] = "fetching"
    /\ \/ /\ pc' = [pc EXCEPT ![c] = "storing"] /\ got' = [got EXCEPT ![c] = version[want[c]]]
          /\ UNCHANGED <<want, began, alone, answer>>
       \/ End(c) /\ answer' = Nothing
    /\ UNCHANGED <<cache, now, version, calls, recency>>

Store(c) ==
    /\ pc[c] = "storing"
    /\ End(c)
    /\ IF want[c] = Meta
       THEN metaCache' = got[c] /\ UNCHANGED <<items, recency>>
       ELSE /\ items' = set(want[c], got[c])
            /\ recency' = Use(want[c])
            /\ UNCHANGED metaCache
    /\ Answer(got[c], "fetched", 0, Since(c))
    /\ UNCHANGED <<now, version, calls>>

(* An empty history of open interest or funding is not stored. *)
StoreNothing(c) ==
    /\ pc[c] = "storing" /\ want[c] # Meta
    /\ End(c)
    /\ Answer(got[c], "fetched", 0, Since(c))
    /\ UNCHANGED <<cache, now, version, calls, recency>>

(* ClearHistoryCache *)
Clear ==
    /\ items # <<>>
    /\ items' = <<>> /\ recency' = <<>>
    /\ UNCHANGED <<metaCache, now, version, calls, local, answer>>

Tick ==
    /\ now < MaxTime
    /\ now' = now + 1
    /\ UNCHANGED <<cache, version, calls, local, recency, answer>>

(* Of the server's data only the metadata changes: no property is about    *)
(* the versions of the others.                                             *)
ServerChanges ==
    /\ version[Meta] = 0
    /\ version' = [version EXCEPT ![Meta] = 1]
    /\ UNCHANGED <<cache, now, calls, local, recency, answer>>

Init ==
    /\ items = <<>> /\ metaCache = Nothing /\ now = 0 /\ calls = 0
    /\ version = [k \in Keys \cup {Meta} |-> 0]
    /\ pc = [c \in Callers |-> "idle"] /\ want = [c \in Callers |-> Nothing]
    /\ got = [c \in Callers |-> Nothing] /\ began = [c \in Callers |-> 0]
    /\ alone = [c \in Callers |-> TRUE]
    /\ recency = <<>> /\ answer = Nothing

Next ==
    \/ \E c \in Callers :
          \/ \E k \in Keys : Look(c, k)
          \/ LookMeta(c) \/ RefreshMarketMeta(c) \/ Reload(c)
          \/ Fetch(c) \/ Store(c) \/ StoreNothing(c)
    \/ Clear
    \/ Tick
    \/ ServerChanges

Spec == Init /\ [][Next]_vars

-----------------------------------------------------------------------------
(* newHistoryCache: a cache has room; it answers what the server answered. *)
ConstantsOK ==
    /\ MaxEntries \in Nat \ {0} /\ TTL \in Nat
    /\ Meta \notin Keys
    /\ Nothing \notin Nat

TypeOK ==
    /\ \A i \in DOMAIN items : items[i].key \in Keys /\ items[i].expiresAt \in Nat
    /\ metaCache \in {Nothing, 0, 1}
    /\ pc \in [Callers -> {"idle", "refreshed", "fetching", "storing"}]

(* set, get: the list holds a key once and at most MaxEntries of them, the most   *)
(* recently used first, and whatever was used after something it holds:    *)
(* nothing is evicted before what was used less recently, however calls    *)
(* that fetch, find, expire and clear follow each other.                   *)
RecentKept ==
    /\ Len(items) <= MaxEntries
    /\ Len(items) <= Len(recency)
    /\ \A i \in DOMAIN items : items[i].key = recency[i].key

(* get, set: no call is answered from the cache with what was stored       *)
(* longer than its lifetime ago, however often it was used since.          *)
NotPastItsTime ==
    (answer # Nothing /\ answer.how = "cached" /\ TTL > 0) => answer.age <= TTL

(* RefreshMarketMeta forces a new fetch: a refresh that no other call      *)
(* overlaps leaves metadata at least as new as when it was called.         *)
RefreshedAnew ==
    (answer # Nothing /\ answer.how \in {"refresh", "fetched"}) => answer.value >= answer.since

(* The history cache and the market metadata: what was used last is what a *)
(* full cache keeps, an answer of the cache is no older than its lifetime, *)
(* and RefreshMarketMeta, alone, returns what the server has.              *)
CacheSound ==
    /\ TypeOK
    /\ RecentKept
    /\ NotPastItsTime
    /\ RefreshedAnew
=============================================================================
