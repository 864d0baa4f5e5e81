----------------------------- MODULE MCAlgorithms -----------------------------
(* A TLC instance of Algorithms. *)
EXTENDS Algorithms

CONSTANT Frames   \* the snapshots and venue frames of a wallet's scenario

ASSUME FramesOK == Frames \in Nat \ {0}

(* Money: one operation on each kind of route, an account listed in each   *)
(* way, and a deposit that crosses a withdrawal.                           *)
Routes == {<<"cash", "acct">>, <<"acct", "cash">>, <<"cash", "hidden">>, <<"acct", "othercash">>,
           <<"external", "acct">>, <<"cash", "external">>, <<"external", "cash">>}
Scenario(r, sh, n) == [route |-> r, shape |-> sh, frames |-> n]
MCScenarios ==
    {Scenario(<<r>>, "whole", Frames) : r \in Routes}
    \cup {Scenario(<<<<"cash", "acct">>>>, "whole", Frames + 1)}
    \cup {Scenario(<<<<"cash", "acct">>>>, sh, Frames) : sh \in {"held", "untimed", "unobserved"}}
    \cup {Scenario(<<<<"cash", "acct">>, <<"acct", "cash">>>>, "whole", Frames)}

(* Executions that add to, reduce, close and flip a position, in one       *)
(* market or two, their fills at one price or at several, with or without  *)
(* the venue's aggregate.                                                  *)
Execution(m, sign, paid, priced) ==
    [market |-> m, sign |-> sign, paid |-> paid, priced |-> priced]
MCPlans ==
    {<<Execution("m1", s, p, priced), Execution(m, t, <<3, 7>>, TRUE)>> :
        s \in {1, -1}, t \in {1, -1}, p \in {<<2>>, <<2, 4, 6>>, <<2, 5, 9>>},
        priced \in BOOLEAN, m \in {"m1", "m2"}}

(* A month of two days, one of three, one of five, one of eleven. *)
MCMonthStarts == {-3, 1, 4, 9, 20}

(* Ranges at, below and above what a rung holds, in minutes. *)
MCSpans == {0, 1, 49, 50, 51, 250, 251, 999, 1000, 1001, 4999, 5000, 5001, 15001, 30001, 60000,
          60001, 240000, 240001, 241440, 1440000, 1441440}

(* Positions with the side written out, or in the sign of the size. *)
Position(side, size) == [side |-> side, size |-> size, entry |-> 3]
MCBooks == {[m1 |-> Position("long", 2), m2 |-> Position("short", 1)],
          [m1 |-> Position("short", -2), m2 |-> Position("", -1)]}

MCStartPrice == <<5, 1>>
=============================================================================
