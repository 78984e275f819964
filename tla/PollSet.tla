------------------------------ MODULE PollSet ------------------------------
(***************************************************************************)
(* What a level-triggered poll object promises the framework (poll.h): a   *)
(* set of registrations, one per descriptor, and a wait that hands out     *)
(* events of registered descriptors, each at most once, to the pointer it  *)
(* was registered with.                                                    *)
(***************************************************************************)
EXTENDS Naturals, Sequences

CONSTANTS Fd,                   \* descriptors
          Ptr,                  \* what the caller wants back with an event
          MaxEvents             \* the length of evts[]

VARIABLES reg,                  \* registrations, a function on the registered
          evts                  \* what the last wait handed out

vars == <<reg, evts>>

Entry == [events : SUBSET {"IN", "OUT"}, ptr : Ptr]

Init == DOMAIN reg = {} /\ evts = <<>>

\* A second registration of a descriptor replaces the first.
Associate(fd, entry) ==
    /\ reg' = [g \in DOMAIN reg \cup {fd} |-> IF g = fd THEN entry ELSE reg[g]]
    /\ UNCHANGED evts

Dissociate(fd) ==
    /\ reg' = [g \in DOMAIN reg \ {fd} |-> reg[g]]
    /\ UNCHANGED evts

\* src[i] is the descriptor event i is about.
Wait == /\ \E n \in 0 .. MaxEvents : \E src \in [1 .. n -> DOMAIN reg] :
              /\ DOMAIN evts' = 1 .. n
              /\ \A i, j \in 1 .. n : src[i] = src[j] => i = j
              /\ \A i \in 1 .. n :
                    /\ evts'[i].ptr = reg[src[i]].ptr
                    /\ evts'[i].events # {}
                    /\ evts'[i].events \subseteq reg[src[i]].events \cup {"ERR", "HUP"}
        /\ UNCHANGED reg

Next == \/ Wait
        \/ \E fd \in Fd : \/ Dissociate(fd)
                         \/ \E entry \in Entry : Associate(fd, entry)

Spec == Init /\ [][Next]_vars
=============================================================================
