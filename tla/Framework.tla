----------------------------- MODULE Framework -----------------------------
(***************************************************************************)
(* framework.c over epoll.c: the run loop, the routines it starts for      *)
(* accepted connections and the wrapped calls in which a routine waits.    *)
(*                                                                         *)
(* Everything runs on one thread: a step is a piece of the loop or of the  *)
(* routine that has control, up to the point where control can change      *)
(* hands.  The kernel, the peers and the SIGTERM handler act in between.   *)
(* Readiness is the kernel's choice: epoll_wait reports any of the         *)
(* registered descriptors, with any of the events asked for plus ERR and   *)
(* HUP.  Coroutines are those of the abstract pool (module Coroutines).    *)
(***************************************************************************)
EXTENDS Integers, Sequences, FiniteSets

CONSTANTS Coroutine, limit_min, limit_max,
          count_per_shrink,     \* rt->count_per_shrink
          Listener,             \* listening sockets the program may add
          MaxFd,                \* RLIMIT_NOFILE: descriptors are 0 .. MaxFd - 1
          MaxBacklog,           \* the listen() backlog
          MaxEvents,            \* the length of evts[]
          EventSets,            \* combinations of events the kernel reports
          Faults,               \* the calls that may fail
          UserOps,              \* the wrapped calls procedures use
          MaxSockets,           \* sockets a procedure has open besides its connection
          UserMayCloseEarly,    \* a procedure may close its connection and go on
          None                  \* no coroutine, no listener

ASSUME PoolAssumption == /\ IsFiniteSet(Coroutine)
                         /\ limit_min \in Nat /\ limit_max \in Nat
ASSUME BoundAssumption == /\ MaxFd \in Nat /\ MaxBacklog \in Nat /\ MaxEvents \in Nat
                          /\ count_per_shrink \in Nat
ASSUME FaultAssumption ==
    Faults \subseteq {"associate", "epoll_wait", "mmap", "malloc", "fcntl"}
ASSUME EventAssumption == EventSets \subseteq SUBSET {"IN", "OUT", "ERR", "HUP"}
ASSUME UserAssumption == /\ UserOps \subseteq {"read", "write", "connect"}
                         /\ MaxSockets \in Nat
                         /\ UserMayCloseEarly \in BOOLEAN
ASSUME NameAssumption == /\ Coroutine \cap Listener = {}
                         /\ None \notin Coroutine \cup Listener
                         /\ {"closed", "queued", "leaked"} \cap (Coroutine \cup Listener) = {}

VARIABLES live, free,           \* rt->co_pool
          loop,                 \* where ef_run_loop is
          running,              \* the routine that has control
          evts,                 \* reported events not yet dispatched
          serving,              \* the listener whose queue started `running`
          stopping,             \* rt->stopping
          listen_list,          \* rt->listen_list
          lfd,                  \* li->poll_data.fd
          fd_list,              \* li->fd_list, the queued connections
          free_fd_list,         \* how many queue nodes rt->free_fd_list holds
          er,                   \* the routines
          fdt,                  \* the descriptor table: who owns each one
          interest,             \* the kernel's epoll set
          backlog               \* established connections not yet accepted

pool_vars   == <<live, free>>
loop_vars   == <<loop, running, evts, serving, stopping>>
listen_vars == <<listen_list, lfd, fd_list, free_fd_list>>
kernel_vars == <<fdt, interest, backlog>>
vars == <<pool_vars, loop_vars, listen_vars, er, kernel_vars>>

Pool == INSTANCE Coroutines

Fd == 0 .. MaxFd - 1
\* Owners of a descriptor besides listeners and routines.
Closed == "closed"
Queued == "queued"
Leaked == "leaked"

Idle == [at |-> "idle", conn |-> -1, op |-> "", fd |-> -1, ev |-> {}]

\* The descriptor open(), socket() and accept() return.
LowestFree(fd) == fdt[fd] = Closed /\ \A g \in 0 .. fd - 1 : fdt[g] # Closed

\* A reported event, a routine with its poll_data, an entry of the epoll set.
Reported == [ptr : Coroutine \cup Listener, events : EventSets]
Routine == [at : {"idle", "user", "wait", "woken"}, conn : Fd \cup {-1},
            op : {"", "read", "write", "connect"}, fd : Fd \cup {-1},
            ev : EventSets \cup {{}}]
Registration == [ptr : Coroutine \cup Listener \cup {None}, events : SUBSET {"IN", "OUT"}]

\* The descriptor table, lists and counters of the runtime keep their ranges:
\* above all, no queue node is taken from an empty free list (framework.c:87).
TypeOK ==
    /\ Pool!TypeOK
    /\ loop \in {"start", "wait", "dispatch", "accept", "queue", "running", "stop",
                 "shrink", "exited", "failed"}
    /\ running \in Coroutine \cup {None}
    /\ evts \in Seq(Reported)
    /\ serving \in Listener \cup {None}
    /\ stopping \in BOOLEAN
    /\ listen_list \in Seq(Listener)
    /\ lfd \in [Listener -> Fd \cup {-1}]
    /\ fd_list \in [Listener -> Seq(Fd)]
    /\ free_fd_list \in Nat
    /\ er \in [Coroutine -> Routine]
    /\ fdt \in [Fd -> Coroutine \cup Listener \cup {Closed, Queued, Leaked}]
    /\ interest \in [Fd -> Registration]
    /\ backlog \in [Listener -> 0 .. MaxBacklog]

Unregistered == [ptr |-> None, events |-> {}]

\* epoll.c: the associate of the run loop's first loop and of the wrapped
\* calls adds, dissociate deletes; the one after an accept (fired) and unset
\* do nothing.
ef_epoll_associate(fd, events, ptr) ==
    /\ interest[fd] = Unregistered
    /\ interest' = [interest EXCEPT ![fd] = [ptr |-> ptr, events |-> events]]

\* Mutant: the descriptor stays in the epoll set.
NoDissociate(fd) == fd \in Fd /\ UNCHANGED interest

ef_epoll_dissociate(fd) == interest' = [interest EXCEPT ![fd] = Unregistered]
-----------------------------------------------------------------------------
(* Set-up and the environment *)

Init == /\ Pool!Init
        /\ loop = "start" /\ running = None /\ evts = <<>> /\ serving = None
        /\ stopping = FALSE
        /\ listen_list = <<>>
        /\ lfd = [l \in Listener |-> -1]
        /\ fd_list = [l \in Listener |-> <<>>]
        /\ free_fd_list = 0
        /\ er = [co \in Coroutine |-> Idle]
        /\ fdt = [fd \in Fd |-> Closed]
        /\ interest = [fd \in Fd |-> Unregistered]
        /\ backlog = [l \in Listener |-> 0]

\* The program opens a listening socket and adds it, before the loop starts.
ef_add_listen(l) ==
    /\ loop = "start"
    /\ lfd[l] = -1
    /\ \E fd \in Fd : /\ LowestFree(fd)
                      /\ fdt' = [fdt EXCEPT ![fd] = l]
                      /\ lfd' = [lfd EXCEPT ![l] = fd]
    /\ listen_list' = <<l>> \o listen_list
    /\ UNCHANGED <<pool_vars, loop_vars, fd_list, free_fd_list, er, interest, backlog>>

\* A peer's connection is established in the kernel.
Arrive(l) == /\ lfd[l] # -1
             /\ backlog[l] < MaxBacklog
             /\ backlog' = [backlog EXCEPT ![l] = @ + 1]
             /\ UNCHANGED <<pool_vars, loop_vars, listen_vars, er, fdt, interest>>

\* SIGTERM, at any time.
signal_handler == /\ loop \notin {"exited", "failed"}
                  /\ ~stopping
                  /\ stopping' = TRUE
                  /\ UNCHANGED <<pool_vars, loop, running, evts, serving, listen_vars, er,
                                 kernel_vars>>
-----------------------------------------------------------------------------
(* ef_run_loop *)

\* Register every listener.  A failure makes ef_run_loop return.
StartLoop ==
    /\ loop = "start"
    /\ \/ /\ interest' = [fd \in Fd |-> IF fdt[fd] \in Listener
                                        THEN [ptr |-> fdt[fd], events |-> {"IN"}]
                                        ELSE Unregistered]
          /\ loop' = "wait"
       \/ /\ "associate" \in Faults /\ listen_list # <<>>
          /\ loop' = "failed"
          /\ UNCHANGED interest
    /\ UNCHANGED <<pool_vars, running, evts, serving, stopping, listen_vars, er, fdt, backlog>>

\* What the kernel can report of a registered descriptor.
Reportable(fd, e) ==
    /\ interest[fd].ptr # None
    /\ e # {} /\ e \subseteq interest[fd].events \cup {"ERR", "HUP"}
    /\ interest[fd].ptr \in Listener => e = {"IN"} /\ backlog[interest[fd].ptr] > 0
Ready == {r \in Fd \X EventSets : Reportable(r[1], r[2])}

\* Up to MaxEvents descriptors, each once, in any order; none on a timeout
\* or an interrupted call.
ef_epoll_wait(s) ==
    /\ loop = "wait"
    /\ \A i, j \in DOMAIN s : s[i][1] = s[j][1] => i = j
    /\ evts' = [i \in DOMAIN s |-> [ptr |-> interest[s[i][1]].ptr, events |-> s[i][2]]]
    /\ loop' = "dispatch"
    /\ UNCHANGED <<pool_vars, running, serving, stopping, listen_vars, er, kernel_vars>>

Wait == \E n \in 0 .. MaxEvents : \E s \in [1 .. n -> Ready] : ef_epoll_wait(s)

WaitFails == /\ loop = "wait" /\ "epoll_wait" \in Faults
             /\ loop' = "failed"
             /\ UNCHANGED <<pool_vars, running, evts, serving, stopping, listen_vars, er,
                            kernel_vars>>

\* The event at hand is a listener's: accept until accept fails.
Accepting(l) == loop = "accept" /\ Head(evts).ptr = l

BeginAccept == /\ loop = "dispatch" /\ evts # <<>> /\ Head(evts).ptr \in Listener
               /\ loop' = "accept"
               /\ UNCHANGED <<pool_vars, running, evts, serving, stopping, listen_vars, er,
                              kernel_vars>>

NextEvent == evts' = Tail(evts) /\ loop' = "dispatch"

\* Mutant: a node is taken off the free list without a look whether it has one.
QueueUnchecked(l, fd) == /\ fdt' = [fdt EXCEPT ![fd] = Queued]
                         /\ fd_list' = [fd_list EXCEPT ![l] = Append(@, fd)]
                         /\ free_fd_list' = free_fd_list - 1
                         /\ UNCHANGED <<loop, evts>>

\* ef_queue_fd, into a recycled node or a new one ...
ef_queue_fd(l, fd) ==
    /\ fdt' = [fdt EXCEPT ![fd] = Queued]
    /\ fd_list' = [fd_list EXCEPT ![l] = Append(@, fd)]
    /\ free_fd_list' = IF free_fd_list > 0 THEN free_fd_list - 1 ELSE 0
    /\ UNCHANGED <<loop, evts>>

\* ... which returns before it keeps or closes the descriptor when fcntl
\* fails, and closes it when there is no memory.  Either ends the accepting.
QueueFails(fd) == /\ \/ "fcntl" \in Faults /\ fdt' = [fdt EXCEPT ![fd] = Leaked]
                     \/ "malloc" \in Faults /\ free_fd_list = 0 /\ UNCHANGED fdt
                  /\ NextEvent
                  /\ UNCHANGED <<fd_list, free_fd_list>>

Accept(l) == /\ Accepting(l)
             /\ backlog[l] > 0
             /\ backlog' = [backlog EXCEPT ![l] = @ - 1]
             /\ \E fd \in Fd : LowestFree(fd) /\ (ef_queue_fd(l, fd) \/ QueueFails(fd))
             /\ UNCHANGED <<pool_vars, running, serving, stopping, listen_list, lfd, er, interest>>

\* EAGAIN, or EMFILE.
EndAccept(l) == /\ Accepting(l)
                /\ backlog[l] = 0 \/ \A fd \in Fd : fdt[fd] # Closed
                /\ NextEvent
                /\ UNCHANGED <<pool_vars, running, serving, stopping, listen_vars, er,
                               kernel_vars>>

\* The event is a routine's: resume it with the events.  ef_fiber_resume
\* refuses one that has exited.
ResumeRoutine ==
    /\ loop = "dispatch" /\ evts # <<>> /\ Head(evts).ptr \in Coroutine
    /\ evts' = Tail(evts)
    /\ LET co == Head(evts).ptr
       IN  IF co \in live
           THEN /\ running' = co /\ loop' = "running"
                /\ er' = [er EXCEPT ![co].at = "woken", ![co].ev = Head(evts).events]
           ELSE UNCHANGED <<running, loop, er>>
    /\ UNCHANGED <<pool_vars, serving, stopping, listen_vars, kernel_vars>>

\* Mutant: the queue is left alone once the loop is stopping.
EndDispatchEarly == /\ loop = "dispatch" /\ evts = <<>>
                    /\ loop' = IF stopping THEN "stop" ELSE "queue"
                    /\ UNCHANGED <<pool_vars, running, evts, serving, stopping, listen_vars, er,
                                   kernel_vars>>

EndDispatch == /\ loop = "dispatch" /\ evts = <<>>
               /\ loop' = "queue"
               /\ UNCHANGED <<pool_vars, running, evts, serving, stopping, listen_vars, er,
                              kernel_vars>>

\* The queue loop: listeners in list order, connections in arrival order.
HasQueued == \E i \in DOMAIN listen_list : fd_list[listen_list[i]] # <<>>
NextListener == listen_list[CHOOSE i \in DOMAIN listen_list :
                              /\ fd_list[listen_list[i]] # <<>>
                              /\ \A j \in 1 .. i - 1 : fd_list[listen_list[j]] = <<>>]

\* Start the next queued connection's procedure in a coroutine.  Its node
\* stays queued until control is back.
ef_routine_run(co) ==
    /\ loop = "queue" /\ HasQueued
    /\ Pool!Acquire(co)
    /\ LET fd == Head(fd_list[NextListener])
       IN  /\ er' = [er EXCEPT ![co] = [Idle EXCEPT !.at = "user", !.conn = fd]]
           /\ fdt' = [fdt EXCEPT ![fd] = co]
    /\ running' = co /\ serving' = NextListener /\ loop' = "running"
    /\ UNCHANGED <<evts, stopping, listen_vars, interest, backlog>>

\* Nothing is queued, or there is no coroutine to be had.
EndQueue == /\ loop = "queue"
            /\ HasQueued => free = {} /\ (Pool!Count >= limit_max \/ "mmap" \in Faults)
            /\ loop' = "stop"
            /\ UNCHANGED <<pool_vars, running, evts, serving, stopping, listen_vars, er,
                           kernel_vars>>

\* Mutant: the started connection's node is not taken off the queue.
BackKeepsNode ==
    /\ running' = None /\ serving' = None
    /\ loop' = IF serving = None THEN "dispatch" ELSE "queue"
    /\ UNCHANGED <<evts, stopping, listen_vars>>

\* Control comes back to the loop from the routine that had it.
BackToLoop ==
    /\ running' = None /\ serving' = None
    /\ IF serving = None
       THEN loop' = "dispatch" /\ UNCHANGED <<fd_list, free_fd_list>>
       ELSE /\ loop' = "queue"
            /\ fd_list' = [fd_list EXCEPT ![serving] = Tail(@)]
            /\ free_fd_list' = free_fd_list + 1
    /\ UNCHANGED <<evts, stopping, listen_list, lfd>>

\* Close the descriptors of `owners`.
CloseAll(owners) ==
    /\ fdt' = [fd \in Fd |-> IF fdt[fd] \in owners THEN Closed ELSE fdt[fd]]
    /\ interest' = [fd \in Fd |-> IF fdt[fd] \in owners THEN Unregistered ELSE interest[fd]]

\* The listeners with connections still queued, in the order they were in.
KeepQueued ==
    LET kept == {i \in DOMAIN listen_list : fd_list[listen_list[i]] # <<>>}
    IN  \E pos \in [1 .. Cardinality(kept) -> kept] :
           /\ \A i, j \in DOMAIN pos : i < j => pos[i] < pos[j]
           /\ listen_list' = [i \in DOMAIN pos |-> listen_list[pos[i]]]

\* Close the listeners, drop those with an empty queue and the spare nodes,
\* free every idle coroutine.
CloseListeners ==
    /\ lfd' = [l \in Listener |-> -1]
    /\ backlog' = [l \in Listener |-> 0]
    /\ KeepQueued
    /\ free_fd_list' = 0
    /\ Pool!Drain(free)
    /\ UNCHANGED <<running, evts, serving, stopping, fd_list, er>>

\* Mutants: queued connections are closed with the listeners; the loop ends
\* with the last listener; an empty pool is not recognised as unused.
StopDropsQueued == /\ loop = "stop" /\ stopping
                   /\ CloseAll(Listener \cup {Queued})
                   /\ CloseListeners
                   /\ loop' = IF live = {} THEN "exited" ELSE "shrink"
StopWithListeners == /\ loop = "stop" /\ stopping
                     /\ CloseAll(Listener)
                     /\ CloseListeners
                     /\ loop' = IF listen_list' = <<>> THEN "exited" ELSE "shrink"
StopNeedsIdle == /\ loop = "stop" /\ stopping
                 /\ CloseAll(Listener)
                 /\ CloseListeners
                 /\ loop' = IF live = {} /\ free # {} THEN "exited" ELSE "shrink"

\* Leave once no coroutine is in use.
StopSection == /\ loop = "stop" /\ stopping
               /\ CloseAll(Listener)
               /\ CloseListeners
               /\ loop' = IF live = {} THEN "exited" ELSE "shrink"

GoOn == /\ loop = "stop" /\ ~stopping
        /\ loop' = "shrink"
        /\ UNCHANGED <<pool_vars, running, evts, serving, stopping, listen_vars, er, kernel_vars>>

\* The periodic shrink: which of the idle coroutines are old enough is the
\* pool's business.
Shrink == /\ loop = "shrink"
          /\ IF free # {} /\ Pool!Count > limit_min
             THEN \E S \in SUBSET free : Cardinality(S) <= count_per_shrink /\ Pool!Trim(S)
             ELSE UNCHANGED pool_vars
          /\ loop' = "wait"
          /\ UNCHANGED <<running, evts, serving, stopping, listen_vars, er, kernel_vars>>
-----------------------------------------------------------------------------
(* Routines *)

InUser(co)  == running = co /\ er[co].at = "user"
InWoken(co) == running = co /\ er[co].at = "woken"

\* User code opens a socket.
Sockets(co) == {fd \in Fd : fdt[fd] = co /\ fd # er[co].conn}
socket(co) == /\ InUser(co)
              /\ Cardinality(Sockets(co)) < MaxSockets
              /\ \E fd \in Fd : LowestFree(fd) /\ fdt' = [fdt EXCEPT ![fd] = co]
              /\ UNCHANGED <<pool_vars, loop_vars, listen_vars, er, interest, backlog>>

Wanted(op) == IF op = "read" THEN {"IN"} ELSE {"OUT"}

\* ef_routine_read and recv ("read"), write and send ("write") and connect,
\* up to the first yield.  A failed associate or an immediate answer of
\* connect goes back to the user code with nothing changed.
WaitFor(co, fd, op) ==
    /\ InUser(co)
    /\ fdt[fd] = co
    /\ op = "connect" => fd # er[co].conn
    /\ ef_epoll_associate(fd, Wanted(op), co)
    /\ er' = [er EXCEPT ![co].at = "wait", ![co].op = op, ![co].fd = fd]
    /\ BackToLoop
    /\ UNCHANGED <<pool_vars, fdt, backlog>>

\* After the yield: these events make the call fail without trying.
Failing(op, ev) == IF op = "read" THEN "ERR" \in ev ELSE ev \cap {"ERR", "HUP"} # {}

\* Mutant: yield again without being registered.
AgainUnregistered(co) == /\ InWoken(co)
                         /\ er[co].op # "connect"
                         /\ ~Failing(er[co].op, er[co].ev)
                         /\ ef_epoll_dissociate(er[co].fd)
                         /\ er' = [er EXCEPT ![co].at = "wait", ![co].ev = {}]
                         /\ BackToLoop
                         /\ UNCHANGED <<pool_vars, fdt, backlog>>

\* The system call would still block: yield again, still registered.
Again(co) == /\ InWoken(co)
             /\ er[co].op # "connect"
             /\ ~Failing(er[co].op, er[co].ev)
             /\ er' = [er EXCEPT ![co].at = "wait", ![co].ev = {}]
             /\ BackToLoop
             /\ UNCHANGED <<pool_vars, kernel_vars>>

\* It is done, or it failed: dissociate and return to the user code.
Complete(co) == /\ InWoken(co)
                /\ ef_epoll_dissociate(er[co].fd)
                /\ er' = [er EXCEPT ![co] = [Idle EXCEPT !.at = "user", !.conn = er[co].conn]]
                /\ UNCHANGED <<pool_vars, loop_vars, listen_vars, fdt, backlog>>

\* dissociate, close.
CloseFd(fd) == /\ ef_epoll_dissociate(fd)
               /\ fdt' = [fdt EXCEPT ![fd] = Closed]

ef_routine_close(co, fd) ==
    /\ InUser(co)
    /\ fdt[fd] = co
    /\ fd = er[co].conn => UserMayCloseEarly
    /\ CloseFd(fd)
    /\ UNCHANGED <<pool_vars, loop_vars, listen_vars, er, backlog>>

\* The procedure, its sockets closed, returns and ef_proc closes the
\* connection's descriptor, closed before or not; the coroutine exits to the
\* pool.
ef_proc(co) == /\ InUser(co)
               /\ Sockets(co) = {}
               /\ CloseFd(er[co].conn)
               /\ Pool!Release(co)
               /\ er' = [er EXCEPT ![co] = Idle]
               /\ BackToLoop
               /\ UNCHANGED backlog
-----------------------------------------------------------------------------
Environment == signal_handler \/ \E l \in Listener : ef_add_listen(l) \/ Arrive(l)

LoopStep == \/ StartLoop \/ Wait \/ BeginAccept \/ ResumeRoutine \/ EndDispatch
            \/ EndQueue \/ StopSection \/ GoOn \/ Shrink
            \/ \E l \in Listener : Accept(l) \/ EndAccept(l)
            \/ \E co \in Coroutine : ef_routine_run(co)

RoutineStep(co) == \/ socket(co) \/ Again(co) \/ Complete(co) \/ ef_proc(co)
                   \/ \E fd \in Fd : ef_routine_close(co, fd)
                   \/ \E fd \in Fd, op \in UserOps : WaitFor(co, fd, op)

\* ef_run_loop has returned.
Returned == loop \in {"exited", "failed"} /\ UNCHANGED vars

Next == Environment \/ LoopStep \/ WaitFails \/ Returned
        \/ \E co \in Coroutine : RoutineStep(co)

Spec == Init /\ [][Next]_vars
\* The thread keeps running the loop and whichever routine has control; user
\* procedures end, closing what they opened; a call that waits is eventually
\* answered by the peer, with a report and a result; the kernel eventually
\* reports a listener that stays ready.
Reports(p) == \E n \in 1 .. MaxEvents : \E s \in [1 .. n -> Ready] :
                 ef_epoll_wait(s) /\ \E i \in 1 .. n : interest[s[i][1]].ptr = p
Fairness ==
    /\ WF_vars(LoopStep)
    /\ \A l \in Listener : SF_vars(Reports(l))
    /\ \A co \in Coroutine : /\ WF_vars(RoutineStep(co))
                             /\ SF_vars(Reports(co))
                             /\ SF_vars(Complete(co))
                             /\ SF_vars(ef_proc(co))
                             /\ SF_vars(\E fd \in Fd : ef_routine_close(co, fd))
FairSpec == Spec /\ Fairness
-----------------------------------------------------------------------------
(* Properties *)

\* A routine waits in a wrapped call exactly as long as the kernel watches
\* its descriptor for what it waits for and on its behalf: no wake-up can be
\* lost, and no descriptor stays registered for a routine that went on.
WaitRegistered ==
    \A fd \in Fd, co \in Coroutine :
        /\ interest[fd].ptr = co <=> er[co].at \in {"wait", "woken"} /\ er[co].fd = fd
        /\ interest[fd].ptr = co => interest[fd].events = Wanted(er[co].op)

\* The events still to be dispatched belong to open listeners and to routines
\* that are waiting, one event each: ef_coroutine_resume is only ever handed
\* a parked coroutine, whatever the events before it made other routines do.
EventsCurrent ==
    /\ \A i \in DOMAIN evts : IF evts[i].ptr \in Listener THEN lfd[evts[i].ptr] # -1
                                ELSE evts[i].ptr \in live /\ er[evts[i].ptr].at = "wait"
    /\ \A i, j \in DOMAIN evts : evts[i].ptr = evts[j].ptr => i = j

\* Every accepted connection is in one place: the queues hold each connection
\* that waits for a coroutine once, except that the connection whose routine
\* was just started is still at the head of its queue.
QueuedOnce ==
    LET InQueue(fd) == {q \in Listener \X (1 .. MaxFd) :
                          q[2] \in DOMAIN fd_list[q[1]] /\ fd_list[q[1]][q[2]] = fd}
    IN  /\ \A fd \in Fd : /\ Cardinality(InQueue(fd)) <= 1
                          /\ fdt[fd] = Queued => InQueue(fd) # {}
        /\ \A l \in Listener : \A i \in DOMAIN fd_list[l] :
              fdt[fd_list[l][i]] # Queued => serving = l /\ i = 1

\* "it may or may not closed by the user code" (framework.c:52): the close in
\* ef_proc ends the routine's own connection, or none.  A descriptor that a
\* routine owns is closed by that routine only, a queued one by nobody.
NoForeignClose ==
    [][\A fd \in Fd : fdt[fd] \in Coroutine \cup {Queued} /\ fdt'[fd] = Closed
                         => fdt[fd] = running]_vars

\* When the loop stops, every accepted connection has been served, every
\* descriptor it opened is closed, and the whole pool is unmapped.
CleanExit ==
    loop = "exited" => /\ \A l \in Listener : fd_list[l] = <<>>
                       /\ \A fd \in Fd : fdt[fd] \in {Closed, Leaked}
                       /\ live = {} /\ free = {} /\ listen_list = <<>>
                       /\ free_fd_list = 0

\* Once SIGTERM was handled the loop ends.
Stops == stopping ~> loop = "exited"

\* "choose a coroutine in the coroutine pool to start a fiber" (README.md:17):
\* every accepted connection gets its coroutine.
Served == \A fd \in Fd : fdt[fd] = Queued ~> fdt[fd] # Queued
=============================================================================
