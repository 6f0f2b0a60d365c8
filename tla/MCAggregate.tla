---------------------------- MODULE MCAggregate ----------------------------
(* Instances of Aggregate for TLC: every strategy once, on the same data;  *)
(* two variables with the same strategy, on data of their own.             *)
EXTENDS Aggregate
Scores == [x \in 1..3 |-> IF x = 1 THEN 1 ELSE 2]
EachOnce == <<"A_AVG", "A_MJ_VOTE", "A_MAX", "A_MIN",
              "A_AVG_MEM", "A_MJ_VOTE_MEM", "A_MAX_MEM", "A_MIN_MEM">>
SameData == {[v \in DOMAIN EachOnce |-> x] : x \in 1..3}
Twice == <<"A_AVG_MEM", "A_AVG_MEM">>
OwnData == [DOMAIN Twice -> 1..2]
=============================================================================
