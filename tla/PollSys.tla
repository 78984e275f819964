------------------------------ MODULE PollSys ------------------------------
(***************************************************************************)
(* poll.c: the poll object over poll(2).  pfds is the array handed to the  *)
(* kernel, kept without holes; `slot`, ep->index in the code, maps a       *)
(* descriptor to its place in pfds and to the pointer to report.           *)
(*                                                                         *)
(* Only the slots below nfds are represented: reading one above would be   *)
(* an error.  A failed realloc leaves everything as it was, an associate   *)
(* with `fired` and unset do nothing: those calls are stutters.            *)
(***************************************************************************)
EXTENDS Poll

CONSTANTS PollPtr,              \* poll_data of routines and listeners
          PollEventSets,        \* combinations of events poll(2) reports
          MaxEvents             \* the length of evts[]

ASSUME ReportAssumption == PollEventSets \subseteq SUBSET Event /\ MaxEvents \in Nat

VARIABLES slot,                 \* ep->index
          pfds, nfds, pcap,     \* ep->pfds, ep->nfds, ep->cap
          evts                  \* the caller's array after a wait

poll_vars == <<slot, pfds, nfds, pcap, evts>>

PollFd == [fd : Fd, events : SUBSET {"IN", "OUT"}]

ef_poll_create == /\ slot = [fd \in Fd |-> [idx |-> -1, ptr |-> -1]]
                  /\ pfds = <<>>
                  /\ nfds = 0
                  /\ pcap = InitCap
                  /\ evts = <<>>

\* Mutant: the array is not grown for the first descriptor that does not fit.
PollExpandTooLate(fd) == IF fd <= pcap THEN pcap ELSE Expanded(pcap, fd)

ef_poll_expand(fd) == Expanded(pcap, fd)

ef_poll_associate(fd, events, ptr) ==
    LET new == slot[fd].idx < 0
        i   == IF new THEN nfds ELSE slot[fd].idx
    IN  /\ pcap' = ef_poll_expand(fd)
        /\ nfds' = IF new THEN nfds + 1 ELSE nfds
        /\ slot' = [slot EXCEPT ![fd] = [idx |-> i, ptr |-> ptr]]
        /\ pfds' = [j \in 0 .. nfds' - 1 |->
                      IF j = i THEN [fd |-> fd, events |-> events] ELSE pfds[j]]
        /\ UNCHANGED evts

\* Mutant: the moved entry's owner still points at the old slot.
DissociateStaleIndex(fd) ==
    LET i    == slot[fd].idx
        last == nfds - 1
    IN  /\ i >= 0
        /\ slot' = [slot EXCEPT ![fd].idx = -1]
        /\ pfds' = [j \in 0 .. last - 1 |-> IF j = i THEN pfds[last] ELSE pfds[j]]
        /\ nfds' = last
        /\ UNCHANGED <<pcap, evts>>

\* The last entry takes the place of the removed one.
ef_poll_dissociate(fd) ==
    LET i    == slot[fd].idx
        last == nfds - 1
        x    == [slot EXCEPT ![fd].idx = -1]
    IN  /\ i >= 0
        /\ slot' = IF i < last THEN [x EXCEPT ![pfds[last].fd].idx = i] ELSE x
        /\ pfds' = [j \in 0 .. last - 1 |-> IF j = i THEN pfds[last] ELSE pfds[j]]
        /\ nfds' = last
        /\ UNCHANGED <<pcap, evts>>

\* What poll(2) can write into the revents of each slot.
Revents == {r \in [0 .. nfds - 1 -> PollEventSets \cup {{}}] :
              \A i \in 0 .. nfds - 1 : r[i] \subseteq pfds[i].events \cup {"ERR", "HUP"}}

\* The slots the loop reports: those with events, in order, until evts is full.
Reported(revents, slots) ==
    /\ \A i \in DOMAIN slots : revents[slots[i]] # {}
    /\ \A i, j \in DOMAIN slots : i < j => slots[i] < slots[j]
    /\ \A k \in 0 .. nfds - 1 :
          revents[k] # {} => \/ \E i \in DOMAIN slots : slots[i] = k
                             \/ Len(slots) = MaxEvents /\ \A i \in DOMAIN slots : slots[i] < k

\* Mutant: the pointer is looked up by slot instead of by descriptor.
ReportBySlot(revents, slots) ==
    evts' = [i \in DOMAIN slots |-> [ptr    |-> slot[slots[i]].ptr,
                                     events |-> revents[slots[i]]]]

Report(revents, slots) ==
    evts' = [i \in DOMAIN slots |-> [ptr    |-> slot[pfds[slots[i]].fd].ptr,
                                     events |-> revents[slots[i]]]]

ef_poll_wait ==
    /\ \E revents \in Revents : \E n \in 0 .. MaxEvents :
          \E slots \in [1 .. n -> 0 .. nfds - 1] :
             Reported(revents, slots) /\ Report(revents, slots)
    /\ UNCHANGED <<slot, pfds, nfds, pcap>>

PollNext == \/ \E fd \in Fd, events \in {{"IN"}, {"OUT"}} : \E p \in PollPtr :
              ef_poll_associate(fd, events, p)
        \/ \E fd \in Fd : ef_poll_dissociate(fd)
        \/ ef_poll_wait

PollSpec == ef_poll_create /\ [][PollNext]_poll_vars
-----------------------------------------------------------------------------
(* Properties *)

\* What struct _ef_pollsys ranges over.
PollTypeOK == /\ slot \in [Fd -> [idx : Int, ptr : PollPtr \cup {-1}]]
          /\ nfds \in Nat
          /\ pfds \in [0 .. nfds - 1 -> PollFd]

\* Through every compaction a registered descriptor has exactly one slot, the
\* one slot names: no slot belongs to a descriptor that was closed.
IndexMatchesPfds ==
    /\ \A fd \in Fd : slot[fd].idx >= 0 => slot[fd].idx < nfds /\ pfds[slot[fd].idx].fd = fd
    /\ \A i \in 0 .. nfds - 1 : slot[pfds[i].fd].idx = i

\* The arrays of poll.c survive every removal that fills the hole with the
\* last slot: each descriptor's slot entry names its slot and back.
PollInv == PollTypeOK /\ IndexMatchesPfds

\* No operation touches memory beyond the arrays.
PollWithinCapacity == /\ pcap \in Nat
                  /\ nfds <= pcap
                  /\ \A fd \in Fd : slot[fd].idx >= 0 => fd < pcap

Registered == {fd \in Fd : slot[fd].idx >= 0}
Registrations == [fd \in Registered |-> [events |-> pfds[slot[fd].idx].events,
                                         ptr    |-> slot[fd].ptr]]

PS == INSTANCE PollSet WITH reg <- Registrations, Ptr <- PollPtr
\* The object implements the set of registrations the framework relies on:
\* a wait reports registered descriptors only, once each, to the pointer of
\* their latest registration.
ImplementsPollSet == PS!Spec
=============================================================================
