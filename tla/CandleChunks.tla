----------------------------- MODULE CandleChunks -----------------------------
(***************************************************************************)
(* Candles of a range from a CDN of finished chunks (candlecdn.go): the    *)
(* range is cut into days, weeks or months, one goroutine fetches each     *)
(* from the CDN or, if it is not finished or not there, from the API, and  *)
(* the answers are put together.                                           *)
(*                                                                         *)
(* Time is counted in days, with one candle a day; the calendar's months   *)
(* are the constant MonthStarts. The CDN and the API are external.         *)
(***************************************************************************)
EXTENDS Integers, Sequences, FiniteSets, FiniteSetsExt

CONSTANTS
    MonthStarts,  \* the first days of the months, more than the range has
    MaxDay,       \* bound: the last day
    MaxDaily,     \* bound: the length of a range that is cut into days
    Weekday,      \* the weekday of day 0, Sunday is 0
    Nothing

VARIABLES
    req,        \* the request: [interval, start, end, now]
    results,    \* the answer of each chunk's goroutine, or Nothing
    out         \* the candles returned, or Nothing

vars == <<req, results, out>>

-----------------------------------------------------------------------------
dailyChunk(d) == [start |-> d, end |-> d + 1]

(* A week begins on Monday. *)
weeklyChunk(d) ==
    LET offset == (((Weekday + d) % 7) + 6) % 7 IN [start |-> d - offset, end |-> d - offset + 7]

monthlyChunk(d) ==
    [start |-> Max({m \in MonthStarts : m <= d}), end |-> Min({m \in MonthStarts : m > d})]

(* chunkGranularity: minutes by day, hours by week, days by month. *)
chunkForTime(interval, d) ==
    CASE interval \in {"1m", "15m"} -> dailyChunk(d)
      [] interval \in {"1h", "4h"} -> weeklyChunk(d)
      [] OTHER -> monthlyChunk(d)

(* The mutant steps by the length of the first chunk. *)
MutchunksForRange(interval, s, e) ==
    LET first == chunkForTime(interval, s) IN
    {chunkForTime(interval, d) :
        d \in {x \in s..(e - 1) : (x - first.start) % (first.end - first.start) = 0} \cup {s}}

(* The chunks of a range: the chunk of its start, and then always the one  *)
(* that begins where the last has ended.                                   *)
chunksForRange(interval, s, e) ==
    LET Chunk[n \in 1..(e - s)] ==
            IF n = 1 THEN chunkForTime(interval, s)
            ELSE IF Chunk[n - 1].end < e THEN chunkForTime(interval, Chunk[n - 1].end)
            ELSE Chunk[n - 1]
    IN IF s >= e THEN {} ELSE {Chunk[n] : n \in 1..(e - s)}

Chunks == DOMAIN results

Exists(d) == d <= req.now

(* The mutant asks for the whole chunk. *)
MutclampFallback(c) == {d \in c.start..(c.end - 1) : Exists(d)}

(* What the API has of a chunk and of the range; both ends are included. *)
clampFallback(c) ==
    {d \in Max({c.start, req.start})..Min({c.end - 1, req.end}) : Exists(d)}

(* What a chunk of the CDN has of the range. *)
fetchCDNChunk(c) == {d \in c.start..(c.end - 1) : d >= req.start /\ d < req.end}

(* The goroutine of one chunk: the API for what is not finished, else the  *)
(* CDN, and the API if that has nothing. The API may fail.                 *)
FetchChunk(c) ==
    /\ out = Nothing /\ results[c] = Nothing
    /\ \/ req.now >= c.end /\ results' = [results EXCEPT ![c] = fetchCDNChunk(c)]
       \/ results' = [results EXCEPT ![c] = clampFallback(c)]
       \/ results' = [results EXCEPT ![c] = {-1}]
    /\ UNCHANGED <<req, out>>

(* All have answered: the error of any, or else their candles, once each.  *)
fetchCandlesFromCDN ==
    /\ out = Nothing /\ \A c \in Chunks : results[c] # Nothing
    /\ out' = IF \E c \in Chunks : results[c] = {-1} THEN {-1}
              ELSE UNION {results[c] : c \in Chunks}
    /\ UNCHANGED <<req, results>>

(* GetCandles: a request without an end is for what is finished. *)
Init ==
    /\ req \in [interval : {"1m", "1h", "1d"}, start : 0..MaxDay, end : 0..MaxDay, now : 0..MaxDay]
    /\ req.interval = "1m" => req.end <= req.start + MaxDaily
    /\ results = [c \in chunksForRange(req.interval, req.start, req.end) |-> Nothing]
    /\ out = Nothing

Next == (\E c \in Chunks : FetchChunk(c)) \/ fetchCandlesFromCDN

Spec == Init /\ [][Next]_vars

-----------------------------------------------------------------------------
ConstantsOK ==
    /\ MaxDay \in Nat /\ MaxDaily \in Nat /\ Weekday \in 0..6
    /\ MonthStarts \subseteq Int
    /\ \E m \in MonthStarts : m <= 0
    /\ \E m \in MonthStarts : m > MaxDay

TypeOK == out # Nothing => out \subseteq -1..MaxDay

(* chunksForRange: the chunks cover the range, and no two of them overlap. *)
Tiled ==
    /\ \A d \in req.start..(req.end - 1) : \E c \in Chunks : c.start <= d /\ d < c.end
    /\ \A c, b \in Chunks : c # b => c.end <= b.start \/ b.end <= c.start

(* fetchCandlesFromCDN: whatever mix of CDN and API answers, the candles   *)
(* are those of the range that exist, and at most the one at its end       *)
(* besides, which the API includes and the CDN does not; an error of one   *)
(* chunk is the error of all and never a hole in the range.                *)
RangeExact ==
    (out # Nothing /\ out # {-1}) =>
        /\ {d \in req.start..(req.end - 1) : Exists(d)} \subseteq out
        /\ out \subseteq {d \in req.start..req.end : Exists(d)}

(* The chunks of a range cover it without overlapping, and the candles     *)
(* returned are those of the range.                                        *)
CandlesSound == TypeOK /\ Tiled /\ RangeExact
=============================================================================
