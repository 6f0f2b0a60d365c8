-------------------------- MODULE DpSyncRefinement --------------------------
(***************************************************************************)
(* dpSync keeps the promise of Barrier.  A slave waits as long as there is *)
(* a master that has not called the callback; from then on it is released, *)
(* though it gets out only when the master unlocks mutex 3.                *)
(***************************************************************************)
EXTENDS DpSync

BeforeCallback == {"becomeMaster", "masterRead", "masterLock", "masterCompare", "callback"}

Waiting ==
    In(AtCheckpoint1 \cup {"write"} \cup BeforeCallback) \cup
    (IF In(BeforeCallback) # {} THEN In({"slave"}) ELSE {})

PlaceOf(c) ==
    CASE pc[c] = "gone" -> "left"
      [] pc[c] = "failed" -> "lost"
      [] c \in Waiting -> "waiting"
      [] pc[c] \in {"unborn", "run", "leave"} -> "outside"
      [] OTHER -> "released"

Places == [c \in Child |-> PlaceOf(c)]
Splitted == {c \in Child : splits[c] > 0}

Promise == INSTANCE Barrier WITH
    Member <- Child,
    Rounds <- MaxRounds,
    place <- Places,
    calls <- round,
    asked <- fork,
    split <- Splitted

\* Every access to the counters, the mutexes and the files (DpLib.c:665-788) is
\* a step of the barrier or none: the callback is called once a round, when all
\* processes that have not left wait, none of them goes on before, and each one
\* asked to split does so on its way out, unless it has been split before.
ImplementsBarrier == Promise!BarrierSpec
=============================================================================
