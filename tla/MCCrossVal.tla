----------------------------- MODULE MCCrossVal -----------------------------
(* Instances of CrossVal for TLC: a variable with one value that a callback *)
(* may widen, and one with two; many folds of one sample, some samples of   *)
(* two folds, more samples of one.                                          *)
EXTENDS CrossVal
MCStaticLo == <<1, 2>>
MCStaticHi == <<1, 3>>
MCChosen == <<{1, 2}, {2, 3}>>
Region(folds, snum, sub, lines, draws, judge) ==
    [K |-> folds, snum |-> snum, sub |-> sub, lines |-> lines, draws |-> draws, judge |-> judge]
MCCalls == {Region(3, 1, 1, 4, 2, FALSE), Region(2, 2, 2, 3, 1, TRUE),
            Region(1, 3, 2, 1, 1, TRUE), Region(1, 2, 1, 2, 2, TRUE)}
=============================================================================
