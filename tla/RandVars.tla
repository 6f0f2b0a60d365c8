------------------------------ MODULE RandVars ------------------------------
(***************************************************************************)
(* The random variables of a sampling process and what narrows them: the   *)
(* static range that dpRSI, dpRSF and dpRSD are called with, and the       *)
(* dynamic one that the tuning process sets with the dpuSetParm functions. *)
(*                                                                         *)
(* A variable is its index; int, float and double differ in nothing the    *)
(* properties see.  "pins" is the dynamic range, a record of the tables    *)
(* rLoD and rHiD; a value of a table is a natural number, or Unset while   *)
(* there is none.  Sets of variables stand for the variable argument       *)
(* lists; the empty one is parmNum = 0, "the whole result".                *)
(*                                                                         *)
(* The tables are in shared memory and have no lock.  A dpuSetParm call    *)
(* stores the tID of a variable and then its value, one variable after the *)
(* other; "store" is the call in progress.  Memory is cleared when the     *)
(* region starts, so who reads a tID whose value is not there yet reads 0. *)
(* A value set earlier stays until the new one is stored, and a tID never  *)
(* goes back to 0: a read of an entry is one step.  The memcpy of a whole  *)
(* result may store in any order; the value before the tID shows nobody    *)
(* anything new.                                                           *)
(***************************************************************************)
EXTENDS Integers, Sequences

CONSTANTS
    VarNum,      \* the random variables of the program
    StaticLo,    \* rLoS and rHiS, one element for each variable
    StaticHi

Var == 1..VarNum
Unset == -1

ASSUME RangeAssumption ==
    /\ VarNum \in Nat \ {0}
    /\ StaticLo \in [Var -> Nat] /\ StaticHi \in [Var -> Nat]

Between(a, b) == IF b < a THEN b..a ELSE a..b

NoPins == [lo |-> [v \in Var |-> Unset], hi |-> [v \in Var |-> Unset]]

\* A dpuSetParm call: the end it sets, the variables that it has still to set,
\* their values, and the variable whose tID is stored and whose value is not.
Call(end, named, vals) == [end |-> end, left |-> named, vals |-> vals, at |-> Unset]
NoStore == Call("none", {}, <<>>)

\* dpuSetParmLo2Result and dpuSetParmHi2Result with the values of a result.
\* The upper one, given the whole result, copies it to rLoD as well.
Lo2Result(named, vals) == Call("lo", IF named = {} THEN DOMAIN vals ELSE named, vals)

WrongHi2Result(named, vals) == Call("lo", IF named = {} THEN DOMAIN vals ELSE named, vals)

Hi2Result(named, vals) ==
    IF named = {} THEN Call("lo", DOMAIN vals, vals) ELSE Call("hi", named, vals)

\* dpuSetParmLo and dpuSetParmHi with values the program chose.
SetLo(named, vals) == Call("lo", named, vals)
SetHi(named, vals) == Call("hi", named, vals)

WrongFilled(table, store) == [table EXCEPT ![store.at] = store.vals[1]]

\* The value of the variable the call is at.
Filled(table, store) == [table EXCEPT ![store.at] = store.vals[store.at]]
Stored(pins, store) ==
    IF store.end = "lo" THEN [pins EXCEPT !.lo = Filled(@, store)]
    ELSE [pins EXCEPT !.hi = Filled(@, store)]

\* What dpRSI reads for the lower end, and for the upper end.
TornLo(pins, store, v) == store.end = "lo" /\ store.at = v /\ pins.lo[v] = Unset
TornHi(pins, store, v) == store.end = "hi" /\ store.at = v /\ pins.hi[v] = Unset

Lo(pins, store, v) ==
    IF pins.lo[v] # Unset THEN pins.lo[v]
    ELSE IF TornLo(pins, store, v) THEN 0 ELSE StaticLo[v]
Hi(pins, store, v) ==
    IF pins.hi[v] # Unset THEN pins.hi[v]
    ELSE IF TornHi(pins, store, v) THEN 0 ELSE StaticHi[v]
=============================================================================
