--------------------------- MODULE BarrierProofs ---------------------------
(***************************************************************************)
(* What a caller of the barrier can rely on, for any set of members, and   *)
(* so for any implementation of Barrier.                                   *)
(***************************************************************************)
EXTENDS Barrier, TLAPS

\* The members that have not withdrawn have been through the same number of
\* callbacks; those that wait have called once more.
Even ==
    \E n \in Nat :
        \A m \in Present : calls[m] = IF place[m] = "waiting" THEN n + 1 ELSE n

EvenInv ==
    /\ place \in [Member -> Place]
    /\ calls \in [Member -> Nat]
    /\ Even

LEMMA EvenStart == BarrierInit => EvenInv
BY DEF BarrierInit, EvenInv, Even, Present, Place

LEMMA EvenStep == EvenInv /\ [BarrierNext]_barrier => EvenInv'
<1> SUFFICES ASSUME EvenInv, [BarrierNext]_barrier PROVE EvenInv'
  OBVIOUS
<1> USE DEF EvenInv, Even, Present, Place
<1>1. PICK n \in Nat :
        \A m \in Present : calls[m] = IF place[m] = "waiting" THEN n + 1 ELSE n
  BY DEF EvenInv
<1>2. ASSUME NEW m \in Member, Come(m) PROVE EvenInv'
  BY <1>1, <1>2 DEF Come
<1>3. ASSUME NEW m \in Member, GoOn(m) PROVE EvenInv'
  BY <1>1, <1>3 DEF GoOn
<1>4. ASSUME NEW m \in Member, NEW how \in {"left", "lost"}, Withdraw(m, how) PROVE EvenInv'
  BY <1>1, <1>4 DEF Withdraw
<1>5. ASSUME NEW chosen \in SUBSET Member, Open(chosen) PROVE EvenInv'
  <2>1. \A m \in Present' : calls'[m] = n + 1 /\ place'[m] = "released"
    BY <1>1, <1>5 DEF Open
  <2>2. Even'
    BY <2>1
  <2> QED BY <1>5, <2>2 DEF Open
<1>6. CASE UNCHANGED barrier
  BY <1>6 DEF barrier
<1> QED BY <1>2, <1>3, <1>4, <1>5, <1>6 DEF BarrierNext

LEMMA EvenKept == BarrierSpec => []EvenInv
BY EvenStart, EvenStep, PTL DEF BarrierSpec

\* No member overtakes another one: who is a call ahead waits for those who have
\* not called (DpLib.c:769-783).
THEOREM NobodyOvertakes == BarrierSpec => []NoOvertaking
<1>1. ASSUME EvenInv PROVE NoOvertaking
  <2>1. PICK n \in Nat :
          \A m \in Present : calls[m] = IF place[m] = "waiting" THEN n + 1 ELSE n
    BY <1>1 DEF EvenInv, Even
  <2> QED BY <2>1 DEF NoOvertaking
<1> QED BY <1>1, EvenKept, PTL
=============================================================================
