------------------------------ MODULE Barrier ------------------------------
(***************************************************************************)
(* What dpSync promises the processes of a batch: each of them waits until *)
(* all that have not left wait, then a callback is called, once, which may *)
(* ask some of them to split; then they go on, those that were asked as    *)
(* two.  There are no counters, no master, no mutexes and no files here:   *)
(* that is how DpSync keeps the promise.                                   *)
(***************************************************************************)
EXTENDS Naturals

CONSTANTS Member, Rounds

VARIABLES
    place,    \* where each member is
    calls,    \* how often it has called the barrier
    asked,    \* the members a callback has asked to split
    split     \* those that have done it

barrier == <<place, calls, asked, split>>

Place == {"outside", "waiting", "released", "left", "lost"}

BarrierInit ==
    /\ place = [m \in Member |-> "outside"]
    /\ calls = [m \in Member |-> 0]
    /\ asked = {} /\ split = {}

Come(m) ==
    /\ place[m] = "outside" /\ calls[m] < Rounds
    /\ place' = [place EXCEPT ![m] = "waiting"]
    /\ calls' = [calls EXCEPT ![m] = @ + 1]
    /\ UNCHANGED <<asked, split>>

\* The callback.  A member that was lost is waited for in vain.
Open(chosen) ==
    /\ \E m \in Member : place[m] = "waiting"
    /\ \A m \in Member : place[m] \in {"waiting", "left"}
    /\ place' = [m \in Member |-> IF place[m] = "waiting" THEN "released" ELSE place[m]]
    /\ asked' = asked \cup (chosen \ split)
    /\ UNCHANGED <<calls, split>>

GoOn(m) ==
    /\ place[m] = "released"
    /\ place' = [place EXCEPT ![m] = "outside"]
    /\ split' = IF m \in asked THEN split \cup {m} ELSE split
    /\ UNCHANGED <<calls, asked>>

Withdraw(m, how) ==
    /\ place[m] = "outside"
    /\ place' = [place EXCEPT ![m] = how]
    /\ UNCHANGED <<calls, asked, split>>

BarrierNext ==
    \/ \E m \in Member : Come(m) \/ GoOn(m) \/ Withdraw(m, "left") \/ Withdraw(m, "lost")
    \/ \E chosen \in SUBSET Member : Open(chosen)

BarrierSpec == BarrierInit /\ [][BarrierNext]_barrier

-----------------------------------------------------------------------------
Present == {m \in Member : place[m] \in {"outside", "waiting", "released"}}

\* Nobody is a round ahead of a member that has not gone through the callback of
\* its own round (DpLib.c:769-783): a member that comes back early waits.
NoOvertaking ==
    \A m, n \in Present :
        calls[m] > calls[n] => /\ calls[m] = calls[n] + 1
                               /\ place[m] = "waiting" /\ place[n] # "waiting"
=============================================================================
