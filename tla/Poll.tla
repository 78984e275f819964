-------------------------------- MODULE Poll --------------------------------
(***************************************************************************)
(* What the poll objects of poll.h share: descriptors, and arrays that     *)
(* begin with room for a few of them.                                      *)
(***************************************************************************)
EXTENDS Doubling, Sequences

CONSTANTS MaxFd,                \* descriptors are 0 .. MaxFd - 1
          InitCap               \* the capacity an object is created with

ASSUME BoundAssumption == MaxFd \in Nat \ {0} /\ InitCap \in Nat \ {0}

Fd == 0 .. MaxFd - 1

Event == {"IN", "OUT", "ERR", "HUP"}
=============================================================================
