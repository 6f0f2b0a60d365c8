------------------------------ MODULE SlotPool ------------------------------
(***************************************************************************)
(* What the scheduler promises: a pool of MaxPool slots.  A process owns   *)
(* one slot while it is active.  Before it forks it is admitted, which     *)
(* reserves the slot of the child: a tuning child is admitted while fewer  *)
(* than TuningShare slots are taken, a sampling child while one is free.   *)
(* A process that is refused gives its own slot to the others until it is  *)
(* admitted.  There is no queue here and nobody is signalled: that is how  *)
(* Sched keeps the promise.                                                *)
(***************************************************************************)
EXTENDS Integers, FiniteSets

CONSTANTS Self, First, MaxPool, TuningShare

VARIABLES
    active,     \* the processes that own a slot
    suspended,  \* the processes that gave theirs away and want it back
    admitted    \* per class of child, the processes that own its slot, too

slots == <<active, suspended, admitted>>

Class == {"sampling", "tuning"}
Limit(k) == IF k = "sampling" THEN MaxPool ELSE TuningShare
Forking == admitted["sampling"] \cup admitted["tuning"]
Busy == Cardinality(active) + Cardinality(Forking)

SlotInit ==
    /\ active = {First}
    /\ suspended = {}
    /\ admitted = [k \in Class |-> {}]

Admit(p, k) ==
    /\ p \in active \ Forking
    /\ Busy < Limit(k)
    /\ admitted' = [admitted EXCEPT ![k] = @ \cup {p}]
    /\ UNCHANGED <<active, suspended>>

Suspend(p, k) ==
    /\ p \in active \ Forking
    /\ Busy >= Limit(k)
    /\ active' = active \ {p}
    /\ suspended' = suspended \cup {p}
    /\ UNCHANGED admitted

\* Back with the own slot and the slot of the child at once.
Resume(p, k) ==
    /\ p \in suspended
    /\ Busy + 1 < Limit(k)
    /\ active' = active \cup {p}
    /\ suspended' = suspended \ {p}
    /\ admitted' = [admitted EXCEPT ![k] = @ \cup {p}]

Beget(p, c, k) ==
    /\ p \in admitted[k]
    /\ c \in Self \ (active \cup suspended)
    /\ active' = active \cup {c}
    /\ admitted' = [admitted EXCEPT ![k] = @ \ {p}]
    /\ UNCHANGED suspended

Release(p) ==
    /\ p \in active \ Forking
    /\ active' = active \ {p}
    /\ UNCHANGED <<suspended, admitted>>

SlotNext ==
    \E p \in Self :
        \/ \E k \in Class :
              \/ Admit(p, k) \/ Suspend(p, k) \/ Resume(p, k)
              \/ \E c \in Self : Beget(p, c, k)
        \/ Release(p)

SlotSpec == SlotInit /\ [][SlotNext]_slots
=============================================================================
