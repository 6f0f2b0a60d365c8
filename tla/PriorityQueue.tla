--------------------------- MODULE PriorityQueue ---------------------------
(***************************************************************************)
(* What the scheduler expects of schPQ: a set of nodes of which schPopPQ   *)
(* takes one that no other outranks.                                       *)
(***************************************************************************)
EXTENDS SchedPrio

CONSTANT Node
VARIABLE queue

Push(n) ==
    /\ n \notin queue
    /\ queue' = queue \cup {n}

Pop(n) ==
    /\ n \in Heads(queue)
    /\ queue' = queue \ {n}

Next == \E n \in Node : Push(n) \/ Pop(n)

PQSpec == queue = {} /\ [][Next]_queue
=============================================================================
