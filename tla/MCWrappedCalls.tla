--------------------------- MODULE MCWrappedCalls ---------------------------
(***************************************************************************)
(* Who calls the poll object: the framework, or, for epollet.c, whose      *)
(* items move most, any caller that its module allows.  The framework      *)
(* never has an item removed while it, the last filled one and the last    *)
(* one are three; any caller has, and its registrations may be refused.    *)
(***************************************************************************)
EXTENDS WrappedCalls

VARIABLE caller                 \* "framework" or "any"

MCInit == /\ CallsInit
          /\ caller \in {"framework", "any"}
          /\ caller = "any" => linked = "epollet"

\* One pointer, since no two callers are told apart.
AnyCaller == \/ \E fd \in Fd : CallOf(Listener, fd)
             \/ PollKernel
             \/ \E fd \in Fd, events \in EventSets : ApplyEvent(fd, events)

MCNext == /\ UNCHANGED caller
          /\ \/ caller = "framework" /\ CallsNext
             \/ /\ caller = "any" /\ AnyCaller
                /\ UNCHANGED <<linked, slot, pfds, nfds, pcap, assoc, kernel_vars,
                               routine_vars, loop_vars>>

MCSpec == MCInit /\ [][MCNext]_<<all_vars, caller>>
=============================================================================
