----------------------------- MODULE Coroutines -----------------------------
(***************************************************************************)
(* What the coroutine pool promises the run loop: a bounded set of         *)
(* coroutines, of which the idle ones are reused before a new one is made  *)
(* and are given back to the system without ever touching one in use.      *)
(***************************************************************************)
EXTENDS Integers, FiniteSets

CONSTANTS Coroutine,            \* the addresses coroutines can live at
          limit_min,            \* a periodic shrink keeps this many
          limit_max             \* the pool never holds more

VARIABLES live,                 \* coroutines that are running or waiting
          free                  \* coroutines whose procedure has returned

vars == <<live, free>>

Count == Cardinality(live \cup free)

TypeOK == live \subseteq Coroutine /\ free \subseteq Coroutine

Init == live = {} /\ free = {}

\* Hand out a coroutine, an idle one if there is any.
Acquire(co) == /\ co \notin live
               /\ IF free = {} THEN Count < limit_max ELSE co \in free
               /\ live' = live \cup {co}
               /\ free' = free \ {co}

\* Its procedure returned.
Release(co) == /\ co \in live
               /\ live' = live \ {co}
               /\ free' = free \cup {co}

\* Give idle coroutines back, to stop ...
Drain(S) == /\ S \subseteq free
            /\ free' = free \ S
            /\ UNCHANGED live

\* ... or only down to the minimum.
Trim(S) == /\ Drain(S)
           /\ Count - Cardinality(S) >= limit_min

Next == \/ \E co \in Coroutine : Acquire(co) \/ Release(co)
        \/ \E S \in SUBSET free : Drain(S)

Spec == Init /\ [][Next]_vars
=============================================================================
