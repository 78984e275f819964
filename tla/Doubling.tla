------------------------------ MODULE Doubling ------------------------------
(***************************************************************************)
(* Capacities that double until something fits: the arrays of epollet.c    *)
(* and poll.c, and the buckets of structure/hashtable.c.                   *)
(***************************************************************************)
EXTENDS Integers

\* The numbers up to n that no odd number divides, but 1.
PowersOfTwo(n) == {p \in 1 .. n : \A d, q \in 1 .. p : p = d * q => d = 1 \/ d % 2 = 0}

\* The capacity doubled until index i fits.
Expanded(room, i) ==
    IF i < room THEN room
    ELSE CHOOSE c \in {room * p : p \in PowersOfTwo(2 * i)} : i < c /\ c \div 2 <= i
=============================================================================
