---------------------------- MODULE WrappedCalls ----------------------------
(***************************************************************************)
(* The wrapped calls of framework.c over a poll object and the kernel: the *)
(* composition in which a wake-up can get lost.  A routine tries a system  *)
(* call, is told EAGAIN, and yields; the run loop resumes it when the poll *)
(* object hands out an event; the object tells its state from the calls    *)
(* associate, unset and dissociate, and from what the kernel reports, once *)
(* for each change (epoll, edge-triggered), as long as it is so (poll), or *)
(* once for each association (event ports, port.c).                        *)
(*                                                                         *)
(* The kernel may change the state of a descriptor between any two steps.  *)
(* Of the run loop its events and its queue are kept; Framework models the *)
(* rest, over level-triggered epoll.  Descriptor 0 listens.  epoll_ctl     *)
(* does not refuse a descriptor, and descriptors do not run out.           *)
(***************************************************************************)
EXTENDS PollObjects, FiniteSetsExt

CONSTANTS Linked,               \* the poll objects: "epollet", "poll", "port"
          Routine,
          Listener,             \* poll_data of the listener
          MaxBacklog            \* bound: connections not yet accepted

ASSUME LinkedAssumption == Linked \subseteq {"epollet", "poll", "port"}
ASSUME BacklogAssumption == MaxBacklog \in Nat
ASSUME PtrAssumption == Routine \cup {Listener} \subseteq Ptr \cap PollPtr
ASSUME NameAssumption == Routine \cap {Listener, "free", "listener", "queued"} = {}

VARIABLES assoc,                \* port.c: the kernel's associations
          owner,                \* of each descriptor
          status,               \* what each descriptor is ready for
          edge,                 \* descriptors whose last change epoll has to report
          backlog,              \* connections to accept
          turn,                 \* the place of ef_run_loop
          at, call,             \* of each routine: its place, its wrapped call
          cur,                  \* the event of evts it handles next, `i` in the code
          about,                \* history: the descriptors evts is about
          robbed                \* history: reads whose data went away after it was reported

kernel_vars  == <<owner, status, edge, backlog>>
object_vars  == <<vars, slot, pfds, nfds, pcap, assoc>>
routine_vars == <<at, call, robbed>>
loop_vars    == <<turn, cur, evts, about>>
all_vars     == <<linked, object_vars, kernel_vars, routine_vars, loop_vars>>

NoCall == [op |-> "none", fd |-> 0]
Free   == {fd \in Fd : owner[fd] = "free"}
Active == \E r \in Routine : at[r] \in {"code", "try"}

\* The event a call waits for, and those that wake it.
Awaited(op) == IF op = "read" THEN {"IN"} ELSE {"OUT"}

CallsInit ==
    /\ linked \in Linked
    /\ ef_epoll_create /\ ef_poll_create /\ assoc = <<>>
    /\ owner = [fd \in Fd |-> IF fd = 0 THEN "listener" ELSE "free"]
    /\ status = [fd \in Fd |-> {}] /\ edge = {} /\ backlog = 0
    /\ turn = "listen" /\ cur = 1 /\ about = <<>>
    /\ at = [r \in Routine |-> "none"] /\ call = [r \in Routine |-> NoCall]
    /\ robbed = {}
-----------------------------------------------------------------------------
(* The poll object *)

\* port.c: port_associate replaces an association.
ef_port_associate(fd, events, ptr) ==
    assoc' = [g \in DOMAIN assoc \cup {fd} |->
                IF g = fd THEN [events |-> events, ptr |-> ptr] ELSE assoc[g]]

\* Dissociated when it fired; port_dissociate fails if there is none.
ef_port_dissociate(fd, fired) ==
    assoc' = IF fired THEN assoc ELSE [g \in DOMAIN assoc \ {fd} |-> assoc[g]]

Object(epollet, poll, port) ==
    \/ linked = "epollet" /\ epollet /\ UNCHANGED <<slot, pfds, nfds, pcap, assoc>>
    \/ linked = "poll" /\ poll /\ UNCHANGED <<vars, assoc>>
    \/ linked = "port" /\ port /\ UNCHANGED <<vars, slot, pfds, nfds, pcap>>

Nothing == UNCHANGED object_vars

associate(fd, events, ptr) ==
    Object(ef_epoll_associate(fd, events, ptr) /\ fd \in epset',
           ef_poll_associate(fd, events, ptr),
           ef_port_associate(fd, events, ptr))

\* The value associate has returned.
Returned1(fd) == linked = "epollet" /\ Ready(items'[index'[fd]])

unset(fd, events) ==
    IF linked = "epollet" THEN Object(ef_epoll_unset(fd, events), FALSE, FALSE) ELSE Nothing

dissociate(fd) ==
    Object(ef_epoll_dissociate(fd), ef_poll_dissociate(fd), ef_port_dissociate(fd, TRUE))

\* A descriptor that was never associated is closed all the same.
dissociate_onclose(fd) ==
    IF CASE linked = "epollet" -> index[fd] = -1
         [] linked = "poll"    -> slot[fd].idx < 0
         [] linked = "port"    -> FALSE
    THEN Nothing
    ELSE Object(ef_epoll_dissociate_onclose(fd), ef_poll_dissociate(fd),
                ef_port_dissociate(fd, FALSE))
-----------------------------------------------------------------------------
(* The kernel *)

\* fd is ready for `events`; epoll has a change to report.
Becomes(fd, events) == /\ status' = [status EXCEPT ![fd] = events]
                       /\ edge' = IF fd \in epset THEN edge \cup {fd} ELSE edge

Connection(fd) == owner[fd] \in Routine \cup {"queued"}

Quiet == turn # "collect" /\ UNCHANGED <<linked, object_vars, routine_vars, loop_vars>>

\* Data, also behind data not read yet; room for data, or a connection made.
DataArrives(fd) == /\ Connection(fd) /\ "HUP" \notin status[fd]
                   /\ Becomes(fd, status[fd] \cup {"IN"})
                   /\ Quiet /\ UNCHANGED <<owner, backlog>>

RoomArrives(fd) == /\ Connection(fd) /\ "OUT" \notin status[fd]
                   /\ Becomes(fd, status[fd] \cup {"OUT"})
                   /\ Quiet /\ UNCHANGED <<owner, backlog>>

HangsUp(fd) == /\ Connection(fd) /\ "HUP" \notin status[fd]
               /\ Becomes(fd, {"IN", "OUT", "HUP"})
               /\ Quiet /\ UNCHANGED <<owner, backlog>>

\* An event of fd is handed out for ptr, and not yet handled.
Handed(fd, ptr) == \E i \in cur .. Len(evts) : about[i] = fd /\ evts[i].ptr = ptr

\* Another process that holds the connection takes the data, or it is dropped.
DataVanishes(fd) == /\ turn # "collect"
                    /\ Connection(fd) /\ "IN" \in status[fd] /\ "HUP" \notin status[fd]
                    /\ status' = [status EXCEPT ![fd] = @ \ {"IN"}]
                    /\ robbed' = robbed \cup {r \in Routine :
                                      /\ call[r] = [op |-> "read", fd |-> fd]
                                      /\ (at[r] = "try" \/ Handed(fd, r))}
                    /\ UNCHANGED <<linked, object_vars, owner, edge, backlog, at, call, loop_vars>>

PeerConnects == /\ backlog < MaxBacklog /\ backlog < Cardinality(Free)
                /\ backlog' = backlog + 1
                /\ Becomes(0, {"IN"})
                /\ Quiet /\ UNCHANGED owner

Kernel == \/ PeerConnects
          \/ \E fd \in Fd : DataArrives(fd) \/ RoomArrives(fd) \/ HangsUp(fd) \/ DataVanishes(fd)

\* A descriptor epoll is told of is reported if it is ready.
Registers(fd, was) ==
    edge' = IF fd \in epset' \ epset /\ was # {} THEN edge \cup {fd} ELSE edge
-----------------------------------------------------------------------------
(* The run loop *)

ListenFirst == /\ turn = "listen"
               /\ associate(0, {"IN"}, Listener)
               /\ Registers(0, status[0])
               /\ turn' = "wait"
               /\ UNCHANGED <<linked, owner, status, backlog, routine_vars, cur, evts, about>>

HandOut(new, fds) == evts' = new /\ about' = fds /\ cur' = 1 /\ turn' = "events"

\* ef_epoll_wait: the kernel is asked only if nothing is filled.
AskKernel == /\ turn = "wait" /\ linked = "epollet"
             /\ PollKernel
             /\ todo' = {fd \in edge : status[fd] # {}} /\ todo' # {}
             /\ edge' = {}
             /\ turn' = "collect"
             /\ UNCHANGED <<linked, slot, pfds, nfds, pcap, assoc, owner, status, backlog,
                            routine_vars, cur, evts, about>>

Collect == /\ turn = "collect"
           /\ IF todo = {} THEN turn' = "wait" /\ Nothing
              ELSE /\ \E fd \in todo : ApplyEvent(fd, status[fd])
                   /\ UNCHANGED <<turn, slot, pfds, nfds, pcap, assoc>>
           /\ UNCHANGED <<linked, kernel_vars, routine_vars, cur, evts, about>>

Least(a, b) == IF a < b THEN a ELSE b

WaitEpollet == /\ turn = "wait" /\ linked = "epollet" /\ fill > 0
               /\ LET n == Least(fill, MaxEvents)
                  IN  HandOut([i \in 1 .. n |-> [ptr |-> items[i - 1].ptr,
                                 events |-> (items[i - 1].waiting \cup Always) \cap items[i - 1].fired]],
                              [i \in 1 .. n |-> items[i - 1].fd])
               /\ UNCHANGED <<linked, object_vars, kernel_vars, routine_vars>>

WaitPoll == /\ turn = "wait" /\ linked = "poll"
            /\ LET revents == [i \in 0 .. nfds - 1 |->
                                 status[pfds[i].fd] \cap (pfds[i].events \cup Always)]
               IN  \E n \in 1 .. MaxEvents : \E slots \in [1 .. n -> 0 .. nfds - 1] :
                      /\ Reported(revents, slots)
                      /\ Report(revents, slots)
                      /\ about' = [i \in 1 .. n |-> pfds[slots[i]].fd]
            /\ cur' = 1 /\ turn' = "events"
            /\ UNCHANGED <<linked, object_vars, kernel_vars, routine_vars>>

\* ef_port_wait: as many of those that are ready as evts holds; what is
\* reported is no longer associated.
WaitPort == /\ turn = "wait" /\ linked = "port"
            /\ LET revents == [fd \in DOMAIN assoc |-> status[fd] \cap (assoc[fd].events \cup Always)]
                   ready   == {fd \in DOMAIN assoc : revents[fd] # {}}
                   n       == Least(Cardinality(ready), MaxEvents)
               IN  \E fds \in [1 .. n -> ready] :
                      /\ n > 0 /\ \A i, j \in 1 .. n : i < j => fds[i] < fds[j]
                      /\ HandOut([i \in 1 .. n |-> [ptr    |-> assoc[fds[i]].ptr,
                                                   events |-> revents[fds[i]]]], fds)
                      /\ assoc' = [g \in DOMAIN assoc \ {fds[i] : i \in 1 .. n} |-> assoc[g]]
            /\ UNCHANGED <<linked, vars, slot, pfds, nfds, pcap, kernel_vars, routine_vars>>

\* The next event, once the routine resumed for the last one has yielded.
NextEvent == /\ turn = "events" /\ ~Active
             /\ cur <= Len(evts)
             /\ cur' = cur + 1
             /\ UNCHANGED <<evts, about>>

AcceptEvent == /\ NextEvent /\ evts[cur].ptr = Listener
               /\ turn' = "accept"
               /\ UNCHANGED <<linked, object_vars, kernel_vars, routine_vars>>

\* The connections are accepted until there is none.
Accept == /\ turn = "accept" /\ backlog > 0
          /\ LET fd == Min(Free)
             IN  /\ owner' = [owner EXCEPT ![fd] = "queued"]
                 /\ status' = [status EXCEPT ![fd] = {"OUT"},
                                             ![0] = IF backlog = 1 THEN {} ELSE @]
          /\ backlog' = backlog - 1
          /\ UNCHANGED <<linked, object_vars, edge, routine_vars, loop_vars>>

AcceptFails == /\ turn = "accept" /\ backlog = 0
               /\ unset(0, {"IN"})
               /\ turn' = "accepted"
               /\ UNCHANGED <<linked, kernel_vars, routine_vars, cur, evts, about>>

\* Mutant: an object that reports again and again needs no second association.
ListenOnce == /\ turn = "accepted"
              /\ turn' = "events"
              /\ UNCHANGED <<linked, object_vars, kernel_vars, routine_vars, cur, evts, about>>

ListenAgain == /\ turn = "accepted"
               /\ associate(0, {"IN"}, Listener)
               /\ turn' = "events"
               /\ UNCHANGED <<linked, kernel_vars, routine_vars, cur, evts, about>>

\* Mutant: a routine is started although the one before it has not yielded.
QueueEarly == /\ turn = "events" /\ cur > Len(evts)
              /\ \E fd \in Fd, r \in Routine :
                    /\ owner[fd] = "queued" /\ at[r] = "none"
                    /\ owner' = [owner EXCEPT ![fd] = r]
                    /\ at' = [at EXCEPT ![r] = "code"]
              /\ UNCHANGED <<linked, object_vars, status, edge, backlog, call, robbed, loop_vars>>

\* Connections in the queue are given a routine, while there is one.
QueueTurn == /\ turn = "events" /\ ~Active /\ cur > Len(evts)
             /\ \/ \E fd \in Fd, r \in Routine :
                      /\ owner[fd] = "queued" /\ at[r] = "none"
                      /\ owner' = [owner EXCEPT ![fd] = r]
                      /\ at' = [at EXCEPT ![r] = "code"]
                      /\ UNCHANGED loop_vars
                \/ /\ \A fd \in Fd, r \in Routine : ~(owner[fd] = "queued" /\ at[r] = "none")
                   /\ turn' = "wait"
                   /\ evts' = <<>> /\ about' = <<>> /\ cur' = 1
                   /\ UNCHANGED <<owner, at>>
             /\ UNCHANGED <<linked, object_vars, status, edge, backlog, call, robbed>>
-----------------------------------------------------------------------------
(* A routine: `turn` stays where the loop, or the queue, has resumed it *)

Place(r, p) == at' = [at EXCEPT ![r] = p]

\* ef_routine_read, recv, write, send as they begin.
Begin(r, op, fd) ==
    /\ at[r] = "code" /\ owner[fd] = r
    /\ associate(fd, Awaited(op), r)
    /\ Registers(fd, status[fd])
    /\ call' = [call EXCEPT ![r] = [op |-> op, fd |-> fd]]
    /\ Place(r, IF Returned1(fd) THEN "try" ELSE "parked")
    /\ UNCHANGED <<linked, owner, status, backlog, robbed, loop_vars>>

\* A new socket, and ef_routine_connect on it: in progress, it waits whatever
\* associate returns.
Connect(r) ==
    /\ at[r] = "code" /\ Cardinality(Free) > backlog
    /\ LET fd == Min(Free)
       IN  /\ owner' = [owner EXCEPT ![fd] = r]
           /\ associate(fd, {"OUT"}, r)
           /\ call' = [call EXCEPT ![r] = [op |-> "connect", fd |-> fd]]
    /\ Place(r, "parked")
    /\ UNCHANGED <<linked, status, edge, backlog, robbed, loop_vars>>

Returns(r) == Place(r, "code") /\ call' = [call EXCEPT ![r] = NoCall] /\ robbed' = robbed \ {r}

\* Mutant: the call returns and leaves its registration behind.
FinishRegistered(r) == Nothing /\ Returns(r)

\* The wrapped call returns.
Finish(r) == dissociate(call[r].fd) /\ Returns(r)

\* A routine that does not wait is not resumed: the coroutine has exited, or
\* what it is told is of no use to it.
Resume == /\ NextEvent /\ evts[cur].ptr # Listener
          /\ LET r == evts[cur].ptr
                 events == evts[cur].events
                 tries == CASE call[r].op = "read"  -> events \cap {"IN", "HUP"} # {}
                            [] call[r].op = "write" -> "HUP" \notin events /\ "OUT" \in events
                            [] OTHER -> FALSE
             IN  IF at[r] # "parked" THEN UNCHANGED <<object_vars, routine_vars>>
                 ELSE IF tries THEN Place(r, "try") /\ Nothing /\ UNCHANGED <<call, robbed>>
                 ELSE Finish(r)
          /\ UNCHANGED <<linked, turn, kernel_vars>>

\* The system call has its effect: it takes all there is, or leaves some.
Succeeds(r) ==
    LET fd == call[r].fd
    IN  /\ at[r] = "try"
        /\ status[fd] \cap (Awaited(call[r].op) \cup {"HUP"}) # {}
        /\ \/ UNCHANGED status
           \/ /\ "HUP" \notin status[fd]
              /\ status' = [status EXCEPT ![fd] = @ \ Awaited(call[r].op)]
        /\ Finish(r)
        /\ UNCHANGED <<linked, owner, edge, backlog, loop_vars>>

\* What a call that is told EAGAIN takes back.
Unsets(op) == IF op = "read" THEN {"IN", "HUP"} ELSE {"OUT"}

TryAgain(r) ==
    LET fd == call[r].fd
    IN  /\ at[r] = "try"
        /\ status[fd] \cap (Awaited(call[r].op) \cup {"HUP"}) = {}
        /\ unset(fd, Unsets(call[r].op))
        /\ Place(r, "parked")
        /\ UNCHANGED <<linked, kernel_vars, call, robbed, loop_vars>>

\* ef_routine_close, by the routine or by ef_proc at its end.
Close(r, fd) ==
    /\ at[r] = "code" /\ owner[fd] = r
    /\ dissociate_onclose(fd)
    /\ owner' = [owner EXCEPT ![fd] = "free"]
    /\ status' = [status EXCEPT ![fd] = {}]
    /\ edge' = edge \ {fd}
    /\ UNCHANGED <<linked, backlog, routine_vars, loop_vars>>

Return(r) == /\ at[r] = "code" /\ \A fd \in Fd : owner[fd] # r
             /\ Place(r, "none")
             /\ UNCHANGED <<linked, object_vars, kernel_vars, call, robbed, loop_vars>>

Loop == \/ ListenFirst \/ AskKernel \/ Collect \/ WaitEpollet \/ WaitPoll \/ WaitPort
        \/ AcceptEvent \/ Accept \/ AcceptFails \/ ListenAgain \/ QueueTurn \/ Resume

Run(r) == \/ \E fd \in Fd : Begin(r, "read", fd) \/ Begin(r, "write", fd) \/ Close(r, fd)
          \/ Connect(r) \/ Succeeds(r) \/ TryAgain(r) \/ Return(r)

CallsNext == Kernel \/ Loop \/ \E r \in Routine : Run(r)

CallsSpec == CallsInit /\ [][CallsNext]_all_vars

-----------------------------------------------------------------------------
(* Properties *)

CallsTypeOK ==
    /\ robbed \subseteq {r \in Routine : call[r].op = "read"}
    /\ turn \in {"listen", "wait", "collect", "events", "accept", "accepted"}
    /\ owner \in [Fd -> Routine \cup {"free", "listener", "queued"}]
    /\ status \in [Fd -> SUBSET {"IN", "OUT", "HUP"}]
    /\ edge \subseteq epset /\ backlog \in 0 .. MaxBacklog
    /\ Len(evts) = Len(about)
    /\ \A r, s \in Routine : at[r] \in {"code", "try"} /\ at[s] \in {"code", "try"} => r = s
    /\ \A r \in Routine : at[r] \in {"parked", "try"} <=> call[r] # NoCall

\* The object has the kernel on watch for `events`, on behalf of ptr.
Watched(fd, events, ptr) ==
    CASE linked = "epollet" -> /\ index[fd] >= 0 /\ fd \in epset
                               /\ events \subseteq items[index[fd]].waiting
                               /\ items[index[fd]].ptr = ptr
      [] linked = "poll" -> /\ slot[fd].idx >= 0 /\ slot[fd].ptr = ptr
                            /\ events \subseteq pfds[slot[fd].idx].events
      [] linked = "port" -> /\ fd \in DOMAIN assoc /\ assoc[fd].ptr = ptr
                            /\ events \subseteq assoc[fd].events

\* It is ready for one of `events` and that will be seen: the item is filled or
\* the change is still to be reported.
Seen(fd, events) ==
    linked = "epollet" /\ status[fd] \cap (events \cup Always) # {}
        => index[fd] < fill \/ fd \in edge \cup todo

\* The event the call of r needs is handed out already, or the object watches
\* for it on behalf of r, and if it has happened the object knows, or the kernel
\* has yet to say so.
WillWake(fd, events, ptr) == Handed(fd, ptr) \/ (Watched(fd, events, ptr) /\ Seen(fd, events))

\* "yield the coroutine waiting for the event to be ready so that the coroutine
\* will be resumed from the pool" (README.md:18): a routine that waits will be
\* told, whatever came between the call that was told EAGAIN, unset, and the
\* yield.  It does not hold of a read over port.c whose data went away after it was
\* reported and before the call, which is not associated again.  And none of the
\* listener's wake-ups is lost, while the loop is not inside of its event.
NoOtherLostWakeup ==
    /\ \A r \in Routine : at[r] = "parked" =>
          \/ WillWake(call[r].fd, Awaited(call[r].op), r)
          \/ linked = "port" /\ r \in robbed
    /\ turn \in {"wait", "collect", "events"} => WillWake(0, {"IN"}, Listener)

\* The routine of event i waits for it.
Own(i) == LET r == evts[i].ptr
          IN  /\ at[r] = "parked" /\ call[r].fd = about[i]
              /\ evts[i].events \cap (Awaited(call[r].op) \cup Always) # {}

\* "yield the coroutine waiting for the event to be ready" (README.md:18): a
\* routine is resumed only for the descriptor its call waits on, and with an event
\* of it; no event is left for a routine that does not wait.  Over epollet.c this
\* does not hold.
OwnEvents == turn = "events" => \A i \in cur .. Len(evts) : evts[i].ptr # Listener => Own(i)

\* Event i, or one before it in the batch, is a hangup for the same routine.
AfterHangup(i) == \E j \in 1 .. i : evts[j].ptr = evts[i].ptr /\ "HUP" \in evts[j].events

\* The same, but for a hangup over epollet.c and what follows it in its batch:
\* whatever the routines resumed for earlier events of the batch close, open or
\* wait for, an event goes to nobody but the call that waits for it.
NoOtherForeignEvent ==
    turn = "events" => \A i \in cur .. Len(evts) :
        evts[i].ptr # Listener => Own(i) \/ (linked = "epollet" /\ AfterHangup(i))

\* poll.c as its callers see it; the other objects fill the same evts.
CallsPollSet == INSTANCE PollSet WITH reg  <- Registrations,
                                      Ptr  <- PollPtr,
                                      evts <- IF linked = "poll" THEN evts ELSE <<>>
\* Under the wrapped calls poll.c implements the set of registrations the framework
\* relies on: a wait reports registered descriptors only, once each, to the pointer
\* of their latest registration.
CallsImplementPollSet == CallsPollSet!Spec
=============================================================================
