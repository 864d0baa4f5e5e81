------------------------------ MODULE ChartLadder ------------------------------
(***************************************************************************)
(* The resolutions of a chart (ladder.go): the rung a range is drawn at,   *)
(* the bucket boundaries it is drawn from, and the coarser rung a chart is *)
(* promoted to. Time is counted in minutes. Quotients are Go's, which      *)
(* truncate towards zero.                                                  *)
(***************************************************************************)
EXTENDS Integers, Sequences, FiniteSets

CONSTANTS
    Spans,        \* the ranges asked for
    Budgets,      \* the points asked for
    Froms         \* the times a range may begin at

VARIABLES
    ask,        \* [from, span, points]
    rung        \* the index of the chart's rung, 0 before one is picked

vars == <<ask, rung>>

day == 24 * 60

AllResolutions == 1..7

BucketMs == <<1, 5, 15, 30, 60, 240, day>>

RetentionMs == <<7 * day, 30 * day, 45 * day, 60 * day, 90 * day, 180 * day, 3650 * day>>

MinChartPoints == 50
DefaultChartPoints == 1000

Buckets(span, r) == (span + BucketMs[r] - 1) \div BucketMs[r]

Clamped(points) ==
    IF points < MinChartPoints THEN MinChartPoints
    ELSE IF points > DefaultChartPoints THEN DefaultChartPoints ELSE points

(* The mutant rounds the number of buckets down. *)
MutPickResolution(span, points) ==
    LET fit == {r \in AllResolutions : span \div BucketMs[r] <= Clamped(points)} IN
    IF fit = {} THEN 7 ELSE CHOOSE r \in fit : \A x \in fit : r <= x

(* The first rung of the ladder on which the range fits the budget, or the *)
(* last.                                                                   *)
PickResolution(span, points) ==
    LET fit == {r \in AllResolutions : Buckets(span, r) <= Clamped(points)} IN
    IF fit = {} THEN 7 ELSE CHOOSE r \in fit : \A x \in fit : r <= x

AlignDown(ts, r) ==
    IF ts >= 0 THEN (ts \div BucketMs[r]) * BucketMs[r]
    ELSE -(((-ts) \div BucketMs[r]) * BucketMs[r])

(* The mutant always steps up. *)
MutAlignUp(ts, r) == AlignDown(ts, r) + BucketMs[r]

AlignUp(ts, r) ==
    IF AlignDown(ts, r) = ts THEN ts ELSE AlignDown(ts, r) + BucketMs[r]

(* The boundaries a loop from the first to the last of them visits. *)
Boundaries(from, to, r) ==
    IF to <= from THEN {}
    ELSE {AlignUp(from, r) + i * BucketMs[r] :
             i \in 0..((AlignDown(to, r) - AlignUp(from, r)) \div BucketMs[r])}

(* The mutant goes a rung down. *)
MutPromotionTarget(r) == IF r > 1 THEN r - 1 ELSE 0

PromotionTarget(r) == IF r < 7 THEN r + 1 ELSE 0

-----------------------------------------------------------------------------
Pick ==
    /\ rung = 0
    /\ rung' = PickResolution(ask.span, ask.points)
    /\ UNCHANGED ask

(* The range of a live chart grows until it does not fit its rung. *)
Promote ==
    /\ rung # 0 /\ PromotionTarget(rung) # 0
    /\ \E span \in {x \in Spans : x > ask.span} :
          /\ Buckets(span, rung) > Clamped(ask.points)
          /\ \A x \in Spans : ask.span < x /\ x < span => Buckets(x, rung) <= Clamped(ask.points)
          /\ ask' = [ask EXCEPT !.span = span]
    /\ rung' = PromotionTarget(rung)

Init ==
    /\ ask \in [from : Froms, span : Spans, points : Budgets]
    /\ rung = 0

Next == Pick \/ Promote

Spec == Init /\ [][Next]_vars

-----------------------------------------------------------------------------
(* Ranges begin after 1970 and do not end before they begin. *)
ConstantsOK == Spans \subseteq Nat /\ Froms \subseteq Nat /\ Budgets \subseteq Int

TypeOK == rung \in 0..7 /\ ask \in [from : Froms, span : Spans, points : Budgets]

To == ask.from + ask.span

(* PickResolution: a chart that was just picked fits its budget, however   *)
(* its range lies in the buckets, unless it is on the last rung; and the   *)
(* server still holds all of it at that rung.                              *)
FitsAndKept ==
    (rung = PickResolution(ask.span, ask.points)) =>
        /\ rung = 7 \/ Cardinality(Boundaries(ask.from, To, rung)) <= Clamped(ask.points) + 1
        /\ rung = 7 \/ Buckets(ask.span, rung) <= Clamped(ask.points)
        /\ ask.span <= RetentionMs[7] => ask.span <= RetentionMs[rung]

(* AlignUp, AlignDown, Boundaries: exactly the multiples of the bucket in  *)
(* the range, its ends included (compared for ranges of up to a week).     *)
BoundariesExact ==
    (rung # 0 /\ ask.span > 0 /\ ask.span <= 7 * day) =>
        Boundaries(ask.from, To, rung) =
            {t \in ask.from..To : t % BucketMs[rung] = 0}

(* PromotionTarget: the boundaries of the next rung are boundaries of this *)
(* one, so that a promoted chart keeps the points it has.                  *)
PromotedInPlace ==
    (rung # 0 /\ PromotionTarget(rung) # 0) =>
        Boundaries(ask.from, To, PromotionTarget(rung)) \subseteq Boundaries(ask.from, To, rung)

(* The rung picked fits and is retained, its boundaries are the multiples  *)
(* of its bucket, and a promoted chart keeps its points.                   *)
LadderSound == TypeOK /\ FitsAndKept /\ BoundariesExact /\ PromotedInPlace
=============================================================================
