-------------------------- MODULE SchedRefinement --------------------------
(***************************************************************************)
(* The scheduler keeps the promise of SlotPool: the processes that run,    *)
(* wait for children or are about to fork own a slot each, those between   *)
(* the refusal and the admission of schSched own none.                     *)
(***************************************************************************)
EXTENDS Sched

Suspended == In({"pausing", "paused", "woken", "rewait"})
Admitted == [k \in Event |-> {p \in Reserving : req[p].event = k}]

Pool == INSTANCE SlotPool WITH
    Self <- Proc,
    First <- Root,
    active <- Held,
    suspended <- Suspended,
    admitted <- Admitted

\* Every step of schSched, fork, wait and exit is a step of the slot pool or
\* none: a process is admitted only within the limit of its class, suspended
\* only when that limit is reached, and gets its own slot and its child's back
\* together (Sched.c:242-262).
ImplementsSlotPool == Pool!SlotSpec
=============================================================================
