----------------------------- MODULE SchedPrio -----------------------------
(* The order of the nodes of schPQ (Sched.c). *)
EXTENDS Integers

Event == {"sampling", "tuning"}

\* schPrioCmp(m, n) > 0
Outranks(m, n) ==
    /\ m.event = "sampling"
    /\ n.event = "sampling" => m.todo > n.todo

WrongHeads(q) == q

\* What schPQ[0] can be.
Heads(q) == {n \in q : \A m \in q : ~ Outranks(m, n)}
=============================================================================
