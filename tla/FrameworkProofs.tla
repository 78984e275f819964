-------------------------- MODULE FrameworkProofs --------------------------
(***************************************************************************)
(* framework.c: what the run loop and the routines rely on of each other   *)
(* holds in every state, for any number of routines, listeners, descriptors*)
(* and events, if no procedure closes its connection before it returns.    *)
(***************************************************************************)
EXTENDS Framework, FiniteSetTheorems, SequenceTheorems, WellFoundedInduction, TLAPS

\* Who has control, and what that says of the loop and of the routines.
Control ==
    /\ loop = "running" <=> running # None
    /\ \A co \in Coroutine : /\ er[co].at \in {"user", "woken"} <=> running = co
                             /\ er[co].at # "idle" <=> co \in live
    /\ evts # <<>> => loop \in {"dispatch", "accept", "running"} /\ serving = None
    /\ loop = "accept" => evts # <<>> /\ Head(evts).ptr \in Listener
    /\ loop = "start" => live = {}
    /\ serving # None => running # None /\ fd_list[serving] # <<>>

\* Every registered descriptor belongs to the one it is registered for, and
\* what a routine works on belongs to the routine.
Owners ==
    /\ \A fd \in Fd : /\ fdt[fd] \in Coroutine => fdt[fd] \in live
                      /\ fdt[fd] \in Listener => lfd[fdt[fd]] = fd
                      /\ interest[fd].ptr \in Listener => fdt[fd] = interest[fd].ptr
    /\ \A co \in live : er[co].conn \in Fd /\ fdt[er[co].conn] = co
    /\ \A co \in Coroutine : er[co].at \in {"wait", "woken"} =>
          /\ er[co].fd \in Fd /\ fdt[er[co].fd] = co

\* QueuedOnce without counting: the queues hold no descriptor twice, all the
\* queued ones, and besides them only the connection being served.
Queues ==
    /\ \A l, k \in Listener : \A i \in DOMAIN fd_list[l], j \in DOMAIN fd_list[k] :
          fd_list[l][i] = fd_list[k][j] => l = k /\ i = j
    /\ \A fd \in Fd : fdt[fd] = Queued =>
          \E l \in Listener : \E i \in DOMAIN fd_list[l] : fd_list[l][i] = fd
    /\ \A l \in Listener : \A i \in DOMAIN fd_list[l] :
          fdt[fd_list[l][i]] # Queued <=> serving = l /\ i = 1

\* A listener that is open or has connections queued is in the list.
Listed ==
    \A l \in Listener : lfd[l] # -1 \/ fd_list[l] # <<>> =>
        \E i \in DOMAIN listen_list : listen_list[i] = l

\* The inductive invariant.
LoopInv == /\ TypeOK /\ Control /\ Owners /\ WaitRegistered /\ EventsCurrent
           /\ Queues /\ Listed

\* What is assumed of the procedures: none closes its connection and goes on.
NoEarlyClose == UserMayCloseEarly = FALSE

\* What the proofs use of sequences.
LEMMA SeqFacts ==
    ASSUME NEW S, NEW s \in Seq(S)
    PROVE  /\ Len(s) \in Nat /\ DOMAIN s = 1 .. Len(s)
           /\ s # <<>> <=> Len(s) > 0
           /\ \A i \in DOMAIN s : s[i] \in S
           /\ s # <<>> => /\ Head(s) = s[1] /\ Head(s) \in S /\ 1 \in DOMAIN s
                          /\ Tail(s) \in Seq(S) /\ Len(Tail(s)) = Len(s) - 1
                          /\ DOMAIN Tail(s) = 1 .. Len(s) - 1
                          /\ \A i \in 1 .. Len(s) - 1 : Tail(s)[i] = s[i + 1]
<1>1. Len(s) \in Nat /\ DOMAIN s = 1 .. Len(s) /\ \A i \in DOMAIN s : s[i] \in S
    BY LenProperties, ElementOfSeq
<1>2. s # <<>> <=> Len(s) > 0
    BY EmptySeq
<1>3. ASSUME s # <<>>
      PROVE  /\ Head(s) = s[1] /\ Head(s) \in S
             /\ Tail(s) \in Seq(S) /\ Len(Tail(s)) = Len(s) - 1
             /\ \A i \in 1 .. Len(s) - 1 : Tail(s)[i] = s[i + 1]
    BY <1>3, HeadTailProperties
<1>4. s # <<>> => DOMAIN Tail(s) = 1 .. Len(s) - 1
    BY <1>3, LenProperties
<1> QED
    BY <1>1, <1>2, <1>3, <1>4
-----------------------------------------------------------------------------
\* Before the program has added a listener nothing is queued or registered.
LEMMA InitInv == Init => LoopInv
<1> SUFFICES ASSUME Init PROVE LoopInv
    OBVIOUS
<1>1. TypeOK
  <2>1. Idle \in Routine /\ Unregistered \in Registration
    BY DEF Idle, Routine, Unregistered, Registration
  <2>2. er \in [Coroutine -> Routine] /\ interest \in [Fd -> Registration]
    BY <2>1 DEF Init
  <2>3. Pool!TypeOK /\ evts \in Seq(Reported) /\ listen_list \in Seq(Listener)
    BY DEF Init, Pool!Init, Pool!TypeOK
  <2>4. fd_list \in [Listener -> Seq(Fd)]
    BY DEF Init
  <2>5. /\ lfd \in [Listener -> Fd \cup {-1}] /\ backlog \in [Listener -> 0 .. MaxBacklog]
        /\ fdt \in [Fd -> Coroutine \cup Listener \cup {Closed, Queued, Leaked}]
    BY BoundAssumption DEF Init
  <2> QED BY <2>2, <2>3, <2>4, <2>5 DEF Init, TypeOK
<1>2. Control
    BY NameAssumption DEF Init, Pool!Init, Control, Idle
<1>3. Owners
    BY NameAssumption DEF Init, Pool!Init, Owners, Idle, Unregistered, Closed
<1>4. WaitRegistered
    BY NameAssumption DEF Init, WaitRegistered, Idle, Unregistered
<1>5. EventsCurrent
    BY DEF Init, EventsCurrent
<1>6. Queues
    BY NameAssumption DEF Init, Queues, Closed, Queued
<1>7. Listed
    BY DEF Init, Listed
<1> QED BY <1>1, <1>2, <1>3, <1>4, <1>5, <1>6, <1>7 DEF LoopInv
-----------------------------------------------------------------------------
\* A part of the invariant that speaks of unchanged variables only still holds.
LEMMA Stable ==
    ASSUME LoopInv
    PROVE  /\ UNCHANGED <<live, lfd, er, fdt, interest>> => Owners'
           /\ UNCHANGED <<er, interest>> => WaitRegistered'
           /\ UNCHANGED <<live, evts, lfd, er>> => EventsCurrent'
           /\ UNCHANGED <<serving, fd_list, fdt>> => Queues'
           /\ UNCHANGED <<listen_list, lfd, fd_list>> => Listed'
<1>1. UNCHANGED <<live, lfd, er, fdt, interest>> => Owners'
    BY DEF LoopInv, Owners
<1>2. UNCHANGED <<er, interest>> => WaitRegistered'
    BY DEF LoopInv, WaitRegistered
<1>3. UNCHANGED <<live, evts, lfd, er>> => EventsCurrent'
    BY DEF LoopInv, EventsCurrent
<1>4. UNCHANGED <<serving, fd_list, fdt>> => Queues'
    BY DEF LoopInv, Queues
<1>5. UNCHANGED <<listen_list, lfd, fd_list>> => Listed'
    BY DEF LoopInv, Listed
<1> QED
    BY <1>1, <1>2, <1>3, <1>4, <1>5

\* Steps that move the loop's place, or set `stopping`, and nothing else.
LEMMA MoveInv ==
    ASSUME LoopInv,
           \/ BeginAccept \/ EndDispatch \/ EndQueue \/ GoOn \/ WaitFails \/ signal_handler
    PROVE  LoopInv'
<1> USE DEF LoopInv, BeginAccept, EndDispatch, EndQueue, GoOn, WaitFails, signal_handler,
            pool_vars, listen_vars, kernel_vars
<1>1. TypeOK'
    BY DEF TypeOK, Pool!TypeOK
<1>2. Control'
    BY DEF Control
<1> QED
    BY <1>1, <1>2, Stable

\* A connection in the kernel's backlog concerns nobody yet.
LEMMA ArriveInv == ASSUME LoopInv, NEW l \in Listener, Arrive(l) PROVE LoopInv'
<1> USE DEF LoopInv, Arrive, pool_vars, loop_vars, listen_vars
<1>1. TypeOK'
    BY BoundAssumption DEF TypeOK, Pool!TypeOK
<1>2. Control'
    BY DEF Control
<1> QED
    BY <1>1, <1>2, Stable

\* A new listener takes a free descriptor and the head of the list.
LEMMA AddListenInv == ASSUME LoopInv, NEW l \in Listener, ef_add_listen(l) PROVE LoopInv'
<1> USE DEF ef_add_listen, pool_vars, loop_vars
<1>1. PICK fd \in Fd : /\ fdt[fd] = Closed
                       /\ fdt' = [fdt EXCEPT ![fd] = l]
                       /\ lfd' = [lfd EXCEPT ![l] = fd]
    BY DEF LowestFree
<1>2. /\ fdt \in [Fd -> Coroutine \cup Listener \cup {Closed, Queued, Leaked}]
      /\ lfd \in [Listener -> Fd \cup {-1}] /\ listen_list \in Seq(Listener) /\ lfd[l] = -1
    BY DEF LoopInv, TypeOK
<1>3. /\ listen_list' \in Seq(Listener)
      /\ DOMAIN listen_list' = 1 .. Len(listen_list) + 1
      /\ listen_list'[1] = l
      /\ \A i \in DOMAIN listen_list : listen_list'[i + 1] = listen_list[i]
    BY <1>2, SeqFacts
<1>4. TypeOK'
    BY <1>1, <1>2, <1>3 DEF LoopInv, TypeOK, Pool!TypeOK
<1>5. Control'
    BY DEF LoopInv, Control
<1>6. Owners'
  <2>1. \A g \in Fd : fdt[g] # l
    BY <1>2 DEF LoopInv, Owners, Fd
  <2>2. interest[fd].ptr \notin Listener /\ l \notin Coroutine
    BY <1>1, NameAssumption DEF LoopInv, Owners, Closed
  <2> QED
    BY <1>1, <1>2, <2>1, <2>2, NameAssumption
    DEF LoopInv, Owners, TypeOK, Pool!TypeOK, Closed
<1>7. EventsCurrent'
    BY <1>1, <1>2 DEF LoopInv, EventsCurrent, Control
<1>8. Queues'
    BY <1>1, <1>2, NameAssumption DEF LoopInv, Queues, Queued, Closed, TypeOK
<1>9. Listed'
  <2> SUFFICES ASSUME NEW k \in Listener, lfd'[k] # -1 \/ fd_list'[k] # <<>>
               PROVE  \E i \in DOMAIN listen_list' : listen_list'[i] = k
    BY DEF Listed
  <2>1. CASE k = l
    BY <1>2, <1>3, <2>1, SeqFacts
  <2>2. CASE k # l
    <3>1. PICK i \in DOMAIN listen_list : listen_list[i] = k
      BY <1>1, <1>2, <2>2 DEF LoopInv, Listed
    <3>2. i + 1 \in DOMAIN listen_list' /\ listen_list'[i + 1] = k
      BY <1>2, <1>3, <3>1, SeqFacts
    <3> QED
      BY <3>2
  <2> QED
    BY <2>1, <2>2
<1> QED
    BY <1>4, <1>5, <1>6, <1>7, <1>8, <1>9, Stable DEF LoopInv

\* The first loop registers the listeners, and nobody else.
LEMMA StartLoopInv == ASSUME LoopInv, StartLoop PROVE LoopInv'
<1> USE DEF StartLoop, pool_vars, listen_vars
<1>1. live = {} /\ (\A co \in Coroutine : er[co].at = "idle")
    BY DEF LoopInv, Control, TypeOK, Routine
<1>2. TypeOK'
    BY DEF LoopInv, TypeOK, Pool!TypeOK, Registration, Unregistered
<1>3. Control'
    BY DEF LoopInv, Control
<1>4. Owners'
    BY <1>1, NameAssumption DEF LoopInv, Owners, Unregistered
<1>5. WaitRegistered'
    BY <1>1, NameAssumption DEF LoopInv, WaitRegistered, Unregistered
<1> QED
    BY <1>2, <1>3, <1>4, <1>5, Stable DEF LoopInv

\* What epoll_wait reports is current: it comes from the epoll set.
LEMMA WaitInv == ASSUME LoopInv, Wait PROVE LoopInv'
<1>0. PICK n \in 0 .. MaxEvents : \E s \in [1 .. n -> Ready] : ef_epoll_wait(s)
    BY DEF Wait
<1>1. PICK s \in [1 .. n -> Ready] : ef_epoll_wait(s)
    BY <1>0
<1> USE DEF pool_vars, listen_vars, kernel_vars
<1>2. /\ loop = "wait" /\ loop' = "dispatch"
      /\ \A i, j \in 1 .. n : s[i][1] = s[j][1] => i = j
      /\ evts' = [i \in 1 .. n |-> [ptr |-> interest[s[i][1]].ptr, events |-> s[i][2]]]
      /\ UNCHANGED <<live, free, running, serving, stopping, listen_list, lfd, fd_list,
                     free_fd_list, er, fdt, interest, backlog>>
    BY <1>1 DEF ef_epoll_wait
<1>3. n \in Nat /\ DOMAIN evts' = 1 .. n
    BY <1>2, BoundAssumption
<1>4. \A i \in 1 .. n : /\ s[i] \in Fd \X EventSets
                        /\ interest[s[i][1]].ptr \in Coroutine \cup Listener
    BY DEF Ready, Reportable, LoopInv, TypeOK, Registration
<1>5. \A i \in 1 .. n : evts'[i] \in Reported
    BY <1>2, <1>4 DEF Reported
<1>6. TypeOK'
  <2>1. evts' \in Seq(Reported)
    BY <1>2, <1>3, <1>5
  <2> QED
    BY <1>2, <2>1 DEF LoopInv, TypeOK, Pool!TypeOK
<1>7. Control'
    BY <1>2 DEF LoopInv, Control
<1>8. EventsCurrent'
  <2>1. ASSUME NEW i \in 1 .. n
        PROVE  IF evts'[i].ptr \in Listener THEN lfd[evts'[i].ptr] # -1
               ELSE evts'[i].ptr \in live /\ er[evts'[i].ptr].at = "wait"
    <3> DEFINE fd == s[i][1]
               p == interest[fd].ptr
    <3>1. fd \in Fd /\ p \in Coroutine \cup Listener /\ evts'[i].ptr = p
      BY <1>2, <1>4
    <3>2. CASE p \in Listener
      BY <3>1, <3>2 DEF LoopInv, Owners, Fd
    <3>3. CASE p \in Coroutine
      <4>1. er[p].at \in {"wait", "woken"}
        BY <3>1, <3>3 DEF LoopInv, WaitRegistered
      <4>2. er[p].at # "woken" /\ p \in live
        BY <1>2, <3>3, <4>1, NameAssumption DEF LoopInv, Control
      <4> QED
        BY <3>1, <3>3, <4>1, <4>2, NameAssumption
    <3> QED
      BY <3>1, <3>2, <3>3
  <2>2. ASSUME NEW i \in 1 .. n, NEW j \in 1 .. n, evts'[i].ptr = evts'[j].ptr
        PROVE  i = j
    <3> DEFINE p == interest[s[i][1]].ptr
    <3>1. /\ s[i][1] \in Fd /\ s[j][1] \in Fd /\ p \in Coroutine \cup Listener
          /\ interest[s[j][1]].ptr = p
      BY <1>2, <1>4, <2>2
    <3>2. CASE p \in Listener
      BY <1>2, <3>1, <3>2 DEF LoopInv, Owners
    <3>3. CASE p \in Coroutine
      <4>1. s[i][1] = er[p].fd /\ s[j][1] = er[p].fd
        BY <3>1, <3>3 DEF LoopInv, WaitRegistered
      <4> QED
        BY <1>2, <4>1
    <3> QED
      BY <3>1, <3>2, <3>3
  <2> QED
    BY <1>2, <1>3, <2>1, <2>2 DEF EventsCurrent
<1> QED
    BY <1>2, <1>6, <1>7, <1>8, Stable DEF LoopInv

\* The periodic shrink takes idle coroutines only.
LEMMA ShrinkInv == ASSUME LoopInv, Shrink PROVE LoopInv'
<1> USE DEF Shrink, Pool!Trim, Pool!Drain, pool_vars, listen_vars, kernel_vars
<1>1. UNCHANGED live /\ free' \subseteq free
    OBVIOUS
<1>2. TypeOK'
    BY <1>1 DEF LoopInv, TypeOK, Pool!TypeOK
<1>3. Control'
    BY <1>1 DEF LoopInv, Control
<1> QED
    BY <1>1, <1>2, <1>3, Stable DEF LoopInv

\* Taking one event off leaves the others right: with no other change, and
\* when the routine it was for goes on.
LEMMA NextEventCurrent ==
    ASSUME LoopInv, evts # <<>>, evts' = Tail(evts), UNCHANGED <<live, lfd>>,
           \A co \in Coroutine : co # Head(evts).ptr => er'[co] = er[co]
    PROVE  /\ evts' \in Seq(Reported) /\ Head(evts) \in Reported
           /\ EventsCurrent'
<1>1. /\ evts \in Seq(Reported) /\ Head(evts) = evts[1] /\ Head(evts) \in Reported
      /\ 1 \in DOMAIN evts /\ evts' \in Seq(Reported) /\ Len(evts) \in Nat
      /\ DOMAIN evts = 1 .. Len(evts) /\ DOMAIN evts' = 1 .. Len(evts) - 1
      /\ \A i \in 1 .. Len(evts) - 1 : evts'[i] = evts[i + 1]
      /\ \A i \in DOMAIN evts : evts[i] \in Reported
    BY SeqFacts DEF LoopInv, TypeOK
<1>2. ASSUME NEW i \in DOMAIN evts'
      PROVE  /\ i + 1 \in DOMAIN evts /\ evts'[i] = evts[i + 1]
             /\ evts'[i].ptr # Head(evts).ptr
             /\ evts'[i].ptr \in Coroutine \cup Listener
    BY <1>1 DEF LoopInv, EventsCurrent, Reported
<1>3. ASSUME NEW i \in DOMAIN evts'
      PROVE  IF evts'[i].ptr \in Listener THEN lfd'[evts'[i].ptr] # -1
             ELSE evts'[i].ptr \in live' /\ er'[evts'[i].ptr].at = "wait"
    BY <1>2 DEF LoopInv, EventsCurrent
<1>4. ASSUME NEW i \in DOMAIN evts', NEW j \in DOMAIN evts', evts'[i].ptr = evts'[j].ptr
      PROVE  i = j
  <2>1. i + 1 = j + 1
    BY <1>2, <1>4 DEF LoopInv, EventsCurrent
  <2> QED
    BY <1>1, <2>1
<1> QED
    BY <1>1, <1>3, <1>4 DEF EventsCurrent

\* accept fails: the listener's event is done with.
LEMMA EndAcceptInv == ASSUME LoopInv, NEW l \in Listener, EndAccept(l) PROVE LoopInv'
<1> USE DEF EndAccept, Accepting, NextEvent, pool_vars, listen_vars, kernel_vars
<1>1. evts # <<>> /\ serving = None
    BY DEF LoopInv, Control
<1>2. evts' \in Seq(Reported) /\ EventsCurrent'
    BY <1>1, NextEventCurrent
<1>3. TypeOK'
    BY <1>2 DEF LoopInv, TypeOK, Pool!TypeOK
<1>4. Control'
    BY <1>1 DEF LoopInv, Control
<1> QED
    BY <1>2, <1>3, <1>4, Stable DEF LoopInv

\* The routine an event is for is parked and takes control.
LEMMA ResumeRoutineInv == ASSUME LoopInv, ResumeRoutine PROVE LoopInv'
<1> USE DEF ResumeRoutine, pool_vars, listen_vars, kernel_vars
<1> DEFINE co == Head(evts).ptr
<1>1. co \in live /\ er[co].at = "wait" /\ serving = None /\ running = None
    BY SeqFacts, NameAssumption DEF LoopInv, TypeOK, EventsCurrent, Control
<1>2. er' = [er EXCEPT ![co].at = "woken", ![co].ev = Head(evts).events]
    BY <1>1
<1>3. /\ er \in [Coroutine -> Routine] /\ co \in Coroutine
      /\ \A c \in Coroutine : c # co => er'[c] = er[c]
    BY <1>2 DEF LoopInv, TypeOK
<1>4. evts' \in Seq(Reported) /\ Head(evts) \in Reported /\ EventsCurrent'
    BY <1>3, NextEventCurrent
<1>5. /\ er' \in [Coroutine -> Routine] /\ er'[co].at = "woken"
      /\ er'[co].fd = er[co].fd /\ er'[co].conn = er[co].conn /\ er'[co].op = er[co].op
  <2> DEFINE r == [er[co] EXCEPT !.at = "woken", !.ev = Head(evts).events]
  <2>1. er[co] \in Routine /\ Head(evts).events \in EventSets
    BY <1>3, <1>4 DEF Reported
  <2>2. r \in Routine
    BY <2>1 DEF Routine
  <2>3. er' = [er EXCEPT ![co] = r]
    BY <1>2
  <2> QED
    BY <1>3, <2>1, <2>2, <2>3 DEF Routine
<1>6. TypeOK'
    BY <1>1, <1>4, <1>5 DEF LoopInv, TypeOK, Pool!TypeOK
<1>7. Control'
    BY <1>1, <1>3, <1>5, NameAssumption DEF LoopInv, Control
<1>8. Owners'
  <2>1. live \subseteq Coroutine
    BY DEF LoopInv, TypeOK, Pool!TypeOK
  <2>2. \A c \in Coroutine : /\ er'[c].conn = er[c].conn /\ er'[c].fd = er[c].fd
                             /\ c # co => er'[c].at = er[c].at
    BY <1>3, <1>5
  <2>3. \A c \in live : er'[c].conn \in Fd /\ fdt[er'[c].conn] = c
    BY <2>1, <2>2 DEF LoopInv, Owners
  <2>4. \A c \in Coroutine : er'[c].at \in {"wait", "woken"} =>
           er'[c].fd \in Fd /\ fdt[er'[c].fd] = c
    BY <1>1, <2>2 DEF LoopInv, Owners
  <2> QED
    BY <2>3, <2>4 DEF LoopInv, Owners
<1>9. WaitRegistered'
    BY <1>1, <1>3, <1>5 DEF LoopInv, WaitRegistered
<1> QED
    BY <1>4, <1>6, <1>7, <1>8, <1>9, Stable DEF LoopInv

\* The lowest free descriptor is nobody's, in no queue and not registered.
LEMMA FreeDescriptor ==
    ASSUME LoopInv, NEW fd \in Fd, LowestFree(fd)
    PROVE  /\ fdt[fd] = Closed /\ interest[fd].ptr = None
           /\ serving = None => \A l \in Listener : \A i \in DOMAIN fd_list[l] : fd_list[l][i] # fd
           /\ \A co \in live : er[co].conn # fd
           /\ \A co \in Coroutine : er[co].at \in {"wait", "woken"} => er[co].fd # fd
<1>1. fdt[fd] = Closed /\ Closed \notin Coroutine \cup Listener /\ Closed # Queued
    BY NameAssumption DEF LowestFree, Closed, Queued
<1>2. live \subseteq Coroutine /\ interest[fd].ptr \in Coroutine \cup Listener \cup {None}
    BY DEF LoopInv, TypeOK, Pool!TypeOK, Registration
<1>3. \A co \in live : er[co].conn # fd
    BY <1>1, <1>2 DEF LoopInv, Owners
<1>4. \A co \in Coroutine : er[co].at \in {"wait", "woken"} => er[co].fd # fd
    BY <1>1 DEF LoopInv, Owners
<1>5. interest[fd].ptr \notin Coroutine /\ interest[fd].ptr \notin Listener
    BY <1>1, <1>4 DEF LoopInv, Owners, WaitRegistered
<1>6. serving = None => \A l \in Listener : \A i \in DOMAIN fd_list[l] : fd_list[l][i] # fd
    BY <1>1, NameAssumption DEF LoopInv, Queues
<1> QED
    BY <1>1, <1>2, <1>3, <1>4, <1>5, <1>6

\* A free descriptor that is not handed to a routine or a listener.
LEMMA TakeOwners ==
    ASSUME LoopInv, NEW fd \in Fd, LowestFree(fd), NEW to \in {Closed, Queued, Leaked},
           fdt' = [fdt EXCEPT ![fd] = to], UNCHANGED <<live, lfd, er, interest>>
    PROVE  Owners' /\ fdt' \in [Fd -> Coroutine \cup Listener \cup {Closed, Queued, Leaked}]
<1>1. /\ fdt \in [Fd -> Coroutine \cup Listener \cup {Closed, Queued, Leaked}]
      /\ to \notin Coroutine \cup Listener
    BY NameAssumption DEF LoopInv, TypeOK, Closed, Queued, Leaked
<1>2. \A g \in Fd : g # fd => fdt'[g] = fdt[g]
    BY <1>1
<1>3. interest[fd].ptr \notin Listener
    BY FreeDescriptor, NameAssumption
<1> QED
    BY <1>1, <1>2, <1>3, FreeDescriptor DEF LoopInv, Owners

\* An accepted connection goes to the end of its queue, or is lost or closed.
LEMMA AcceptInv == ASSUME LoopInv, NEW l \in Listener, Accept(l) PROVE LoopInv'
<1> USE DEF Accept, Accepting, pool_vars, listen_vars
<1>1. PICK fd \in Fd : LowestFree(fd) /\ (ef_queue_fd(l, fd) \/ QueueFails(fd))
    OBVIOUS
<1>2. evts # <<>> /\ serving = None /\ running = None
    BY NameAssumption DEF LoopInv, Control
<1>3. /\ fdt \in [Fd -> Coroutine \cup Listener \cup {Closed, Queued, Leaked}]
      /\ fd_list \in [Listener -> Seq(Fd)] /\ free_fd_list \in Nat
      /\ backlog' \in [Listener -> 0 .. MaxBacklog]
    BY BoundAssumption DEF LoopInv, TypeOK
<1>4. CASE ef_queue_fd(l, fd)
  <2> USE <1>4 DEF ef_queue_fd
  <2>1. /\ fd_list' \in [Listener -> Seq(Fd)]
        /\ \A k \in Listener : k # l => fd_list'[k] = fd_list[k]
        /\ fd_list'[l] = Append(fd_list[l], fd)
    BY <1>3
  <2>2. /\ DOMAIN fd_list'[l] = 1 .. Len(fd_list[l]) + 1
        /\ DOMAIN fd_list[l] = 1 .. Len(fd_list[l]) /\ Len(fd_list[l]) \in Nat
        /\ \A i \in DOMAIN fd_list[l] : fd_list'[l][i] = fd_list[l][i]
        /\ fd_list'[l][Len(fd_list[l]) + 1] = fd
    BY <1>3, <2>1
  <2>3. /\ fdt' = [fdt EXCEPT ![fd] = Queued]
        /\ UNCHANGED <<live, lfd, er, interest, evts, loop, running, serving, stopping, listen_list>>
    OBVIOUS
  <2>4. Owners' /\ fdt' \in [Fd -> Coroutine \cup Listener \cup {Closed, Queued, Leaked}]
    BY <1>1, <2>3, TakeOwners
  <2>5. TypeOK'
    BY <1>3, <2>1, <2>3, <2>4 DEF LoopInv, TypeOK, Pool!TypeOK
  <2>6. Control'
    BY <1>2, <2>3 DEF LoopInv, Control
  <2>7. Queues'
    <3>0. ASSUME NEW k \in Listener, NEW i \in DOMAIN fd_list'[k]
          PROVE  \/ /\ i \in DOMAIN fd_list[k] /\ fd_list'[k][i] = fd_list[k][i]
                    /\ fd_list[k][i] # fd /\ fdt[fd_list[k][i]] = Queued
                 \/ k = l /\ i = Len(fd_list[l]) + 1 /\ fd_list'[k][i] = fd
      <4>1. CASE k # l
        BY <1>1, <1>2, <2>1, <4>1, FreeDescriptor, NameAssumption DEF LoopInv, Queues
      <4>2. CASE k = l /\ i \in DOMAIN fd_list[l]
        BY <1>1, <1>2, <2>2, <4>2, FreeDescriptor, NameAssumption DEF LoopInv, Queues
      <4>3. CASE k = l /\ i \notin DOMAIN fd_list[l]
        BY <2>2, <4>3
      <4> QED
        BY <4>1, <4>2, <4>3
    <3>1. ASSUME NEW k1 \in Listener, NEW k2 \in Listener,
                 NEW i \in DOMAIN fd_list'[k1], NEW j \in DOMAIN fd_list'[k2],
                 fd_list'[k1][i] = fd_list'[k2][j]
          PROVE  k1 = k2 /\ i = j
      BY <3>0, <3>1 DEF LoopInv, Queues
    <3>2. ASSUME NEW g \in Fd, fdt'[g] = Queued
          PROVE  \E k \in Listener : \E i \in DOMAIN fd_list'[k] : fd_list'[k][i] = g
      <4>1. CASE g = fd
        <5>1. Len(fd_list[l]) + 1 \in DOMAIN fd_list'[l]
          BY <2>2
        <5> QED
          BY <2>2, <4>1, <5>1
      <4>2. CASE g # fd
        <5>1. PICK k \in Listener : \E i \in DOMAIN fd_list[k] : fd_list[k][i] = g
          BY <1>3, <2>3, <3>2, <4>2 DEF LoopInv, Queues
        <5>2. PICK i \in DOMAIN fd_list[k] : fd_list[k][i] = g
          BY <5>1
        <5>3. i \in DOMAIN fd_list'[k] /\ fd_list'[k][i] = g
          BY <2>1, <2>2, <5>2
        <5> QED
          BY <5>3
      <4> QED
        BY <4>1, <4>2
    <3>3. ASSUME NEW k \in Listener, NEW i \in DOMAIN fd_list'[k]
          PROVE  fdt'[fd_list'[k][i]] = Queued
      BY <1>3, <2>3, <3>0
    <3> QED
      BY <1>2, <2>3, <3>1, <3>2, <3>3, NameAssumption DEF Queues
  <2>8. Listed'
    <3>1. lfd[l] # -1
      BY <1>2, SeqFacts DEF LoopInv, EventsCurrent, TypeOK
    <3> QED
      BY <2>1, <2>3, <3>1 DEF LoopInv, Listed
  <2> QED
    BY <2>3, <2>4, <2>5, <2>6, <2>7, <2>8, Stable DEF LoopInv
<1>5. CASE QueueFails(fd)
  <2> USE <1>5 DEF QueueFails, NextEvent
  <2>1. PICK to \in {Closed, Leaked} : fdt' = [fdt EXCEPT ![fd] = to]
    <3>1. fdt = [fdt EXCEPT ![fd] = Closed]
      BY <1>1, <1>3 DEF LowestFree
    <3> QED
      BY <3>1
  <2>2. UNCHANGED <<live, lfd, er, interest, running, serving, stopping, listen_list, fd_list, free_fd_list>>
    OBVIOUS
  <2>3. evts' \in Seq(Reported) /\ EventsCurrent'
    BY <1>2, NextEventCurrent
  <2>4. Owners' /\ fdt' \in [Fd -> Coroutine \cup Listener \cup {Closed, Queued, Leaked}]
    BY <1>1, <2>1, <2>2, TakeOwners
  <2>5. TypeOK'
    BY <1>3, <2>2, <2>3, <2>4 DEF LoopInv, TypeOK, Pool!TypeOK
  <2>6. Control'
    BY <1>2, <2>2 DEF LoopInv, Control
  <2>7. Queues'
    <3>1. /\ to # Queued /\ fdt[fd] # Queued
          /\ \A g \in Fd : fdt'[g] = Queued <=> fdt[g] = Queued
      BY <1>1, <1>3, <2>1 DEF LowestFree, Closed, Leaked, Queued
    <3>2. \A k \in Listener : \A i \in DOMAIN fd_list[k] : fd_list[k][i] \in Fd
      BY <1>3, SeqFacts
    <3> QED
      BY <2>2, <3>1, <3>2 DEF LoopInv, Queues
  <2> QED
    BY <2>2, <2>3, <2>4, <2>5, <2>6, <2>7, Stable DEF LoopInv
<1> QED
    BY <1>1, <1>4, <1>5
-----------------------------------------------------------------------------
\* An entry of the queues once control is back in the loop: it was one before,
\* and its connection still waits.
LEMMA BackEntry ==
    ASSUME LoopInv, BackToLoop, NEW k \in Listener, NEW i \in DOMAIN fd_list'[k]
    PROVE  LET j == IF serving = k THEN i + 1 ELSE i
           IN  /\ j \in DOMAIN fd_list[k] /\ fd_list'[k][i] = fd_list[k][j]
               /\ fd_list[k][j] \in Fd /\ fdt[fd_list[k][j]] = Queued
<1>1. fd_list[k] \in Seq(Fd) /\ fd_list \in [Listener -> Seq(Fd)] /\ k # None
    BY NameAssumption DEF LoopInv, TypeOK
<1>2. CASE serving = k
  <2>1. fd_list[k] # <<>> /\ fd_list'[k] = Tail(fd_list[k])
    BY <1>1, <1>2 DEF LoopInv, Control, BackToLoop
  <2>2. /\ i \in 1 .. Len(fd_list[k]) - 1 /\ Len(fd_list[k]) \in Nat
        /\ DOMAIN fd_list[k] = 1 .. Len(fd_list[k])
        /\ fd_list'[k][i] = fd_list[k][i + 1]
    BY <1>1, <2>1, SeqFacts
  <2>3. i + 1 \in DOMAIN fd_list[k] /\ i + 1 # 1
    BY <2>2
  <2> QED
    BY <1>1, <1>2, <2>2, <2>3, SeqFacts DEF LoopInv, Queues
<1>3. CASE serving # k
  <2>1. fd_list'[k] = fd_list[k]
    BY <1>1, <1>3 DEF BackToLoop
  <2> QED
    BY <1>1, <1>3, <2>1, SeqFacts DEF LoopInv, Queues
<1> QED
    BY <1>2, <1>3

\* Control comes back to the loop while no connection joins or leaves those
\* that are queued.
LEMMA BackInv ==
    ASSUME LoopInv, BackToLoop, \A g \in Fd : fdt'[g] = Queued <=> fdt[g] = Queued
    PROVE  /\ Queues' /\ Listed'
           /\ fd_list' \in [Listener -> Seq(Fd)] /\ free_fd_list' \in Nat
           /\ loop' \in {"dispatch", "queue"}
           /\ evts # <<>> => loop' = "dispatch"
<1>1. /\ fd_list \in [Listener -> Seq(Fd)] /\ free_fd_list \in Nat
      /\ serving \in Listener \cup {None} /\ None \notin Listener
    BY NameAssumption DEF LoopInv, TypeOK
<1>2. /\ loop' \in {"dispatch", "queue"}
      /\ evts # <<>> => loop' = "dispatch"
      /\ serving' = None /\ UNCHANGED <<listen_list, lfd>>
    BY DEF LoopInv, Control, BackToLoop
<1>3. fd_list' \in [Listener -> Seq(Fd)] /\ free_fd_list' \in Nat
  <2>1. CASE serving = None
    BY <1>1, <2>1 DEF BackToLoop
  <2>2. CASE serving # None
    <3>1. Tail(fd_list[serving]) \in Seq(Fd)
      BY <1>1, <2>2, SeqFacts DEF LoopInv, Control
    <3>2. /\ fd_list' = [fd_list EXCEPT ![serving] = Tail(fd_list[serving])]
          /\ free_fd_list' = free_fd_list + 1
      BY <2>2 DEF BackToLoop
    <3> QED
      BY <1>1, <2>2, <3>1, <3>2
  <2> QED
    BY <2>1, <2>2
<1>4. Queues'
  <2>1. ASSUME NEW k1 \in Listener, NEW k2 \in Listener,
               NEW i1 \in DOMAIN fd_list'[k1], NEW i2 \in DOMAIN fd_list'[k2],
               fd_list'[k1][i1] = fd_list'[k2][i2]
        PROVE  k1 = k2 /\ i1 = i2
    <3> DEFINE j1 == IF serving = k1 THEN i1 + 1 ELSE i1
               j2 == IF serving = k2 THEN i2 + 1 ELSE i2
    <3>1. j1 \in DOMAIN fd_list[k1] /\ fd_list'[k1][i1] = fd_list[k1][j1]
      BY BackEntry
    <3>2. j2 \in DOMAIN fd_list[k2] /\ fd_list'[k2][i2] = fd_list[k2][j2]
      BY BackEntry
    <3> HIDE DEF j1, j2
    <3>3. k1 = k2 /\ j1 = j2
      <4>1. fd_list[k1][j1] = fd_list[k2][j2]
        BY <2>1, <3>1, <3>2
      <4>2. \A l, k \in Listener : \A i \in DOMAIN fd_list[l], j \in DOMAIN fd_list[k] :
               fd_list[l][i] = fd_list[k][j] => l = k /\ i = j
        BY DEF LoopInv, Queues
      <4> QED
        BY <3>1, <3>2, <4>1, <4>2
    <3>4. i1 \in Int /\ i2 \in Int
      BY <1>3, SeqFacts
    <3> QED
      BY <3>3, <3>4 DEF j1, j2
  <2>2. ASSUME NEW g \in Fd, fdt'[g] = Queued
        PROVE  \E k \in Listener : \E i \in DOMAIN fd_list'[k] : fd_list'[k][i] = g
    <3>1. PICK k \in Listener : \E j \in DOMAIN fd_list[k] : fd_list[k][j] = g
      BY <2>2 DEF LoopInv, Queues
    <3>2. PICK j \in DOMAIN fd_list[k] : fd_list[k][j] = g
      BY <3>1
    <3>3. fdt[g] = Queued
      BY <2>2
    <3>4. CASE serving = k
      <4>1. j # 1 /\ fd_list'[k] = Tail(fd_list[k]) /\ fd_list[k] # <<>>
        BY <1>1, <3>2, <3>3, <3>4 DEF LoopInv, Queues, Control, BackToLoop
      <4>2. j - 1 \in DOMAIN fd_list'[k] /\ fd_list'[k][j - 1] = g
        BY <1>1, <3>2, <4>1, SeqFacts
      <4> QED
        BY <4>2
    <3>5. CASE serving # k
      BY <1>1, <3>2, <3>5 DEF BackToLoop
    <3> QED
      BY <3>4, <3>5
  <2>3. ASSUME NEW k \in Listener, NEW i \in DOMAIN fd_list'[k]
        PROVE  fdt'[fd_list'[k][i]] = Queued
    BY BackEntry
  <2> QED
    BY <1>1, <1>2, <2>1, <2>2, <2>3 DEF Queues
<1>5. Listed'
  <2>1. \A k \in Listener : fd_list'[k] # <<>> => fd_list[k] # <<>>
    BY <1>1 DEF LoopInv, Control, BackToLoop
  <2> QED
    BY <1>2, <2>1 DEF LoopInv, Listed
<1> QED
    BY <1>2, <1>3, <1>4, <1>5

\* A routine that yields again stays registered.
LEMMA AgainInv == ASSUME LoopInv, NEW co \in Coroutine, Again(co) PROVE LoopInv'
<1> USE DEF Again, InWoken, pool_vars, kernel_vars
<1>1. /\ Queues' /\ Listed'
      /\ fd_list' \in [Listener -> Seq(Fd)] /\ free_fd_list' \in Nat
      /\ loop' \in {"dispatch", "queue"}
      /\ evts # <<>> => loop' = "dispatch"
    BY BackInv
<1>2. /\ running = co /\ running' = None /\ serving' = None /\ co \in live
      /\ er[co].at = "woken" /\ er \in [Coroutine -> Routine] /\ live \subseteq Coroutine
      /\ UNCHANGED <<evts, stopping, listen_list, lfd>>
    BY DEF BackToLoop, LoopInv, Control, TypeOK, Pool!TypeOK
<1>3. /\ er' \in [Coroutine -> Routine] /\ er'[co].at = "wait"
      /\ \A c \in Coroutine : /\ c # co => er'[c] = er[c]
                              /\ er'[c].conn = er[c].conn /\ er'[c].fd = er[c].fd
                              /\ er'[c].op = er[c].op
  <2> DEFINE r == [er[co] EXCEPT !.at = "wait", !.ev = {}]
  <2>1. er' = [er EXCEPT ![co] = r] /\ r \in Routine
    BY <1>2 DEF Routine
  <2>2. /\ r.at = "wait" /\ r.conn = er[co].conn /\ r.fd = er[co].fd
        /\ r.op = er[co].op
    BY <1>2 DEF Routine
  <2> HIDE DEF r
  <2> QED
    BY <1>2, <2>1, <2>2
<1>4. TypeOK'
    BY <1>1, <1>2, <1>3 DEF LoopInv, TypeOK, Pool!TypeOK
<1>5. Control'
    BY <1>1, <1>2, <1>3, NameAssumption DEF LoopInv, Control
<1>6. Owners'
    BY <1>2, <1>3 DEF LoopInv, Owners
<1>7. WaitRegistered'
    BY <1>2, <1>3 DEF LoopInv, WaitRegistered
<1>8. EventsCurrent'
    BY <1>2, <1>3 DEF LoopInv, EventsCurrent, TypeOK, Reported
<1> QED
    BY <1>1, <1>4, <1>5, <1>6, <1>7, <1>8 DEF LoopInv

\* A descriptor of the routine that runs user code is not registered.
LEMMA UserDescriptor ==
    ASSUME LoopInv, NEW co \in Coroutine, InUser(co), NEW fd \in Fd, fdt[fd] = co
    PROVE  interest[fd].ptr = None
<1>1. interest[fd].ptr \in Coroutine \cup Listener \cup {None}
    BY DEF LoopInv, TypeOK, Registration
<1>2. interest[fd].ptr \notin Listener
    BY NameAssumption DEF LoopInv, Owners
<1>3. ASSUME NEW c \in Coroutine, interest[fd].ptr = c
      PROVE  FALSE
  <2>1. er[c].at \in {"wait", "woken"} /\ er[c].fd = fd
    BY <1>3 DEF LoopInv, WaitRegistered
  <2>2. c = co
    BY <2>1 DEF LoopInv, Owners
  <2> QED
    BY <2>1, <2>2 DEF InUser
<1> QED
    BY <1>1, <1>2, <1>3

\* A call that is done leaves no registration behind.
LEMMA CompleteInv == ASSUME LoopInv, NEW co \in Coroutine, Complete(co) PROVE LoopInv'
<1> USE DEF Complete, InWoken, pool_vars, loop_vars, listen_vars
<1> DEFINE fd == er[co].fd
<1>1. /\ running = co /\ er[co].at = "woken" /\ co \in live
      /\ er \in [Coroutine -> Routine] /\ live \subseteq Coroutine
      /\ fd \in Fd /\ fdt[fd] = co /\ interest \in [Fd -> Registration]
    BY DEF LoopInv, Control, Owners, TypeOK, Pool!TypeOK
<1>2. interest' = [interest EXCEPT ![fd] = Unregistered] /\ Unregistered \in Registration
    BY DEF ef_epoll_dissociate, Unregistered, Registration
<1>3. /\ er' \in [Coroutine -> Routine] /\ er'[co].at = "user" /\ er'[co].conn = er[co].conn
      /\ \A c \in Coroutine : c # co => er'[c] = er[c]
  <2> DEFINE r == [Idle EXCEPT !.at = "user", !.conn = er[co].conn]
  <2>1. r \in Routine /\ r.at = "user" /\ r.conn = er[co].conn
    BY <1>1 DEF Idle, Routine
  <2>2. er' = [er EXCEPT ![co] = r]
    OBVIOUS
  <2> HIDE DEF r
  <2> QED
    BY <1>1, <2>1, <2>2
<1>4. TypeOK'
    BY <1>1, <1>2, <1>3 DEF LoopInv, TypeOK, Pool!TypeOK
<1>5. Control'
    BY <1>1, <1>3 DEF LoopInv, Control
<1>6. Owners'
    BY <1>1, <1>2, <1>3, NameAssumption DEF LoopInv, Owners, Unregistered
<1>7. WaitRegistered'
  <2> SUFFICES ASSUME NEW g \in Fd, NEW c \in Coroutine
               PROVE  /\ interest'[g].ptr = c <=> er'[c].at \in {"wait", "woken"} /\ er'[c].fd = g
                      /\ interest'[g].ptr = c => interest'[g].events = Wanted(er'[c].op)
    BY DEF WaitRegistered
  <2>1. CASE g = fd
    <3>1. interest'[g].ptr = None
      BY <1>1, <1>2, <2>1 DEF Unregistered
    <3>2. ~(er'[c].at \in {"wait", "woken"} /\ er'[c].fd = g)
      BY <1>1, <1>3, <2>1 DEF LoopInv, Owners
    <3> QED
      BY <3>1, <3>2, NameAssumption
  <2>2. CASE g # fd
    <3>1. interest'[g] = interest[g]
      BY <1>1, <1>2, <2>2
    <3>2. CASE c = co
      BY <1>1, <1>3, <2>2, <3>1, <3>2 DEF LoopInv, WaitRegistered
    <3>3. CASE c # co
      BY <1>3, <3>1, <3>3 DEF LoopInv, WaitRegistered
    <3> QED
      BY <3>2, <3>3
  <2> QED
    BY <2>1, <2>2
<1>8. EventsCurrent'
    BY <1>1, <1>3 DEF LoopInv, EventsCurrent, TypeOK, Reported
<1> QED
    BY <1>4, <1>5, <1>6, <1>7, <1>8, Stable DEF LoopInv

\* A new socket of a routine was nobody's.
LEMMA SocketInv == ASSUME LoopInv, NEW co \in Coroutine, socket(co) PROVE LoopInv'
<1> USE DEF socket, InUser, pool_vars, loop_vars, listen_vars
<1>1. PICK fd \in Fd : LowestFree(fd) /\ fdt' = [fdt EXCEPT ![fd] = co]
    OBVIOUS
<1>2. /\ fdt \in [Fd -> Coroutine \cup Listener \cup {Closed, Queued, Leaked}]
      /\ co \in live /\ live \subseteq Coroutine
    BY DEF LoopInv, Control, TypeOK, Pool!TypeOK
<1>3. TypeOK'
    BY <1>1, <1>2 DEF LoopInv, TypeOK, Pool!TypeOK
<1>4. Control'
    BY DEF LoopInv, Control
<1>5. Owners'
    BY <1>1, <1>2, FreeDescriptor, NameAssumption DEF LoopInv, Owners
<1>6. Queues'
  <2>1. \A g \in Fd : fdt'[g] = Queued <=> fdt[g] = Queued
    BY <1>1, <1>2, NameAssumption DEF LowestFree, Closed, Queued
  <2>2. \A k \in Listener : \A i \in DOMAIN fd_list[k] : fd_list[k][i] \in Fd
    BY SeqFacts DEF LoopInv, TypeOK
  <2> QED
    BY <2>1, <2>2 DEF LoopInv, Queues
<1> QED
    BY <1>3, <1>4, <1>5, <1>6, Stable DEF LoopInv

\* Closing a descriptor of the routine that runs user code.
LEMMA CloseFacts ==
    ASSUME LoopInv, NEW co \in Coroutine, InUser(co), NEW fd \in Fd, fdt[fd] = co, CloseFd(fd)
    PROVE  /\ fdt' \in [Fd -> Coroutine \cup Listener \cup {Closed, Queued, Leaked}]
           /\ interest' \in [Fd -> Registration]
           /\ fdt'[fd] = Closed /\ interest'[fd].ptr = None
           /\ \A g \in Fd : g # fd => fdt'[g] = fdt[g] /\ interest'[g] = interest[g]
           /\ \A g \in Fd : interest'[g].ptr = interest[g].ptr
           /\ \A g \in Fd : interest[g].ptr # None => g # fd
           /\ \A g \in Fd : fdt'[g] = Queued <=> fdt[g] = Queued
<1>1. /\ fdt \in [Fd -> Coroutine \cup Listener \cup {Closed, Queued, Leaked}]
      /\ interest \in [Fd -> Registration]
      /\ interest[fd].ptr = None
    BY UserDescriptor DEF LoopInv, TypeOK
<1>2. /\ interest' = [interest EXCEPT ![fd] = Unregistered] /\ Unregistered \in Registration
      /\ fdt' = [fdt EXCEPT ![fd] = Closed] /\ Unregistered.ptr = None
    BY DEF CloseFd, ef_epoll_dissociate, Unregistered, Registration
<1> QED
    BY <1>1, <1>2, NameAssumption DEF Closed, Queued

\* A routine closes a socket of its own, which is not registered.
LEMMA RoutineCloseInv ==
    ASSUME LoopInv, NoEarlyClose, NEW co \in Coroutine, NEW fd \in Fd, ef_routine_close(co, fd)
    PROVE  LoopInv'
<1> USE DEF ef_routine_close, pool_vars, loop_vars, listen_vars
<1>1. fd # er[co].conn /\ InUser(co) /\ fdt[fd] = co
    BY DEF NoEarlyClose
<1>2. running = co /\ er[co].at = "user" /\ live \subseteq Coroutine
    BY DEF InUser, LoopInv, TypeOK, Pool!TypeOK
<1>3. /\ fdt' \in [Fd -> Coroutine \cup Listener \cup {Closed, Queued, Leaked}]
      /\ interest' \in [Fd -> Registration]
      /\ fdt'[fd] = Closed /\ interest'[fd].ptr = None
      /\ \A g \in Fd : g # fd => fdt'[g] = fdt[g] /\ interest'[g] = interest[g]
      /\ \A g \in Fd : interest'[g].ptr = interest[g].ptr
      /\ \A g \in Fd : interest[g].ptr # None => g # fd
      /\ \A g \in Fd : fdt'[g] = Queued <=> fdt[g] = Queued
    BY <1>1, CloseFacts
<1>4. TypeOK'
    BY <1>3 DEF LoopInv, TypeOK, Pool!TypeOK
<1>5. Control'
    BY DEF LoopInv, Control
<1>6. Owners'
    BY <1>1, <1>2, <1>3, NameAssumption DEF LoopInv, Owners, Closed
<1>7. WaitRegistered'
    BY <1>3, NameAssumption DEF LoopInv, WaitRegistered
<1>8. Queues'
  <2>1. \A k \in Listener : \A i \in DOMAIN fd_list[k] : fd_list[k][i] \in Fd
    BY SeqFacts DEF LoopInv, TypeOK
  <2> QED
    BY <1>3, <2>1 DEF LoopInv, Queues
<1> QED
    BY <1>4, <1>5, <1>6, <1>7, <1>8, Stable DEF LoopInv

\* A routine that starts to wait is registered before it yields.
LEMMA WaitForInv ==
    ASSUME LoopInv, NEW co \in Coroutine, NEW fd \in Fd, NEW op \in UserOps, WaitFor(co, fd, op)
    PROVE  LoopInv'
<1> USE DEF WaitFor, pool_vars
<1>1. /\ Queues' /\ Listed'
      /\ fd_list' \in [Listener -> Seq(Fd)] /\ free_fd_list' \in Nat
      /\ loop' \in {"dispatch", "queue"}
      /\ evts # <<>> => loop' = "dispatch"
    BY BackInv
<1>2. /\ running = co /\ running' = None /\ serving' = None /\ co \in live
      /\ er[co].at = "user" /\ er \in [Coroutine -> Routine] /\ live \subseteq Coroutine
      /\ UNCHANGED <<evts, stopping, listen_list, lfd>>
      /\ op \in {"read", "write", "connect"} /\ interest \in [Fd -> Registration]
    BY UserAssumption DEF InUser, BackToLoop, LoopInv, Control, TypeOK, Pool!TypeOK
<1>3. /\ er' \in [Coroutine -> Routine] /\ er'[co].at = "wait" /\ er'[co].fd = fd
      /\ er'[co].op = op /\ er'[co].conn = er[co].conn
      /\ \A c \in Coroutine : c # co => er'[c] = er[c]
  <2> DEFINE r == [er[co] EXCEPT !.at = "wait", !.op = op, !.fd = fd]
  <2>1. er[co] \in Routine
    BY <1>2
  <2>2. r \in Routine
    BY <1>2, <2>1 DEF Routine
  <2>3. r.at = "wait" /\ r.conn = er[co].conn /\ r.fd = fd /\ r.op = op
    BY <2>1 DEF Routine
  <2>4. er' = [er EXCEPT ![co] = r]
    BY <1>2
  <2> HIDE DEF r
  <2>5. er' \in [Coroutine -> Routine]
    BY <1>2, <2>2, <2>4
  <2>6. er'[co] = r
    BY <1>2, <2>4
  <2>7. \A c \in Coroutine : c # co => er'[c] = er[c]
    BY <1>2, <2>4
  <2> QED
    BY <2>3, <2>5, <2>6, <2>7
<1>4. /\ interest' \in [Fd -> Registration]
      /\ interest'[fd].ptr = co /\ interest'[fd].events = Wanted(op)
      /\ \A g \in Fd : g # fd => interest'[g] = interest[g]
  <2> DEFINE r == [ptr |-> co, events |-> Wanted(op)]
  <2>1. interest' = [interest EXCEPT ![fd] = r] /\ r \in Registration
    BY DEF ef_epoll_associate, Registration, Wanted
  <2> QED
    BY <1>2, <2>1
<1>5. TypeOK'
    BY <1>1, <1>2, <1>3, <1>4 DEF LoopInv, TypeOK, Pool!TypeOK
<1>6. Control'
    BY <1>1, <1>2, <1>3, NameAssumption DEF LoopInv, Control
<1>7. Owners'
    BY <1>2, <1>3, <1>4, NameAssumption DEF LoopInv, Owners
<1>8. WaitRegistered'
  <2> SUFFICES ASSUME NEW g \in Fd, NEW c \in Coroutine
               PROVE  /\ interest'[g].ptr = c <=> er'[c].at \in {"wait", "woken"} /\ er'[c].fd = g
                      /\ interest'[g].ptr = c => interest'[g].events = Wanted(er'[c].op)
    BY DEF WaitRegistered
  <2>1. CASE g = fd
    BY <1>3, <1>4, <2>1 DEF LoopInv, Owners
  <2>2. CASE g # fd /\ c # co
    BY <1>3, <1>4, <2>2 DEF LoopInv, WaitRegistered
  <2>3. CASE g # fd /\ c = co
    BY <1>2, <1>3, <1>4, <2>3 DEF LoopInv, WaitRegistered
  <2> QED
    BY <2>1, <2>2, <2>3
<1>9. EventsCurrent'
    BY <1>2, <1>3 DEF LoopInv, EventsCurrent, TypeOK, Reported
<1> QED
    BY <1>1, <1>5, <1>6, <1>7, <1>8, <1>9 DEF LoopInv

\* A procedure returns: its connection is closed and its coroutine idle.
LEMMA ProcInv == ASSUME LoopInv, NEW co \in Coroutine, ef_proc(co) PROVE LoopInv'
<1> USE DEF ef_proc
<1> DEFINE fd == er[co].conn
<1>1. /\ running = co /\ running' = None /\ serving' = None /\ co \in live
      /\ er[co].at = "user" /\ er \in [Coroutine -> Routine] /\ live \subseteq Coroutine
      /\ UNCHANGED <<evts, stopping, listen_list, lfd, backlog>>
      /\ live' = live \ {co} /\ free' = free \cup {co} /\ free \subseteq Coroutine
      /\ fd \in Fd /\ fdt[fd] = co
      /\ \A g \in Fd : g # fd => fdt[g] # co
    BY DEF InUser, BackToLoop, LoopInv, Control, Owners, TypeOK, Pool!TypeOK, Pool!Release, Sockets
<1>2. /\ fdt' \in [Fd -> Coroutine \cup Listener \cup {Closed, Queued, Leaked}]
      /\ interest' \in [Fd -> Registration]
      /\ fdt'[fd] = Closed /\ interest'[fd].ptr = None
      /\ \A g \in Fd : g # fd => fdt'[g] = fdt[g] /\ interest'[g] = interest[g]
      /\ \A g \in Fd : interest'[g].ptr = interest[g].ptr
      /\ \A g \in Fd : interest[g].ptr # None => g # fd
      /\ \A g \in Fd : fdt'[g] = Queued <=> fdt[g] = Queued
    BY <1>1, CloseFacts
<1>3. /\ Queues' /\ Listed'
      /\ fd_list' \in [Listener -> Seq(Fd)] /\ free_fd_list' \in Nat
      /\ loop' \in {"dispatch", "queue"}
      /\ evts # <<>> => loop' = "dispatch"
    BY <1>2, BackInv
<1>4. /\ er' \in [Coroutine -> Routine] /\ er'[co].at = "idle"
      /\ \A c \in Coroutine : c # co => er'[c] = er[c]
    BY <1>1 DEF Idle, Routine
<1>5. TypeOK'
    BY <1>1, <1>2, <1>3, <1>4 DEF LoopInv, TypeOK, Pool!TypeOK
<1>6. Control'
    BY <1>1, <1>3, <1>4, NameAssumption DEF LoopInv, Control
<1>7. Owners'
    BY <1>1, <1>2, <1>4, NameAssumption DEF LoopInv, Owners, Closed
<1>8. WaitRegistered'
    BY <1>1, <1>2, <1>4, NameAssumption DEF LoopInv, WaitRegistered
<1>9. EventsCurrent'
    BY <1>1, <1>4 DEF LoopInv, EventsCurrent, TypeOK, Reported
<1> QED
    BY <1>3, <1>5, <1>6, <1>7, <1>8, <1>9 DEF LoopInv
-----------------------------------------------------------------------------
\* The least-number principle.
LEMMA LeastNatural ==
    ASSUME NEW B \in SUBSET Nat, B # {}
    PROVE  \E n \in B : \A m \in B : n <= m
<1>1. PICK n \in B : \A m \in B : ~ (<<m, n>> \in OpToRel(<, Nat))
    BY WFMin, NatLessThanWellFounded
<1>2. ASSUME NEW m \in B PROVE n <= m
  <2>1. ~ (m < n)
    BY <1>1 DEF OpToRel
  <2> QED
    BY <2>1
<1> QED
    BY <1>2

\* The queue loop finds the first listener with a queued connection.
LEMMA NextListenerFacts ==
    ASSUME LoopInv, HasQueued
    PROVE  NextListener \in Listener /\ fd_list[NextListener] # <<>>
<1>1. listen_list \in Seq(Listener)
    BY DEF LoopInv, TypeOK
<1> DEFINE Busy == {i \in DOMAIN listen_list : fd_list[listen_list[i]] # <<>>}
<1>2. Busy # {} /\ Busy \in SUBSET Nat
    BY <1>1, SeqFacts DEF HasQueued
<1>3. PICK n \in Busy : \A m \in Busy : n <= m
    BY <1>2, LeastNatural
<1>4. n \in DOMAIN listen_list /\ fd_list[listen_list[n]] # <<>>
    OBVIOUS
<1>5. \A j \in 1 .. n - 1 : fd_list[listen_list[j]] = <<>>
    BY <1>1, <1>2, <1>3, SeqFacts
<1>6. \E i \in DOMAIN listen_list : /\ fd_list[listen_list[i]] # <<>>
                                    /\ \A j \in 1 .. i - 1 : fd_list[listen_list[j]] = <<>>
    BY <1>4, <1>5
<1>7. PICK i \in DOMAIN listen_list :
         NextListener = listen_list[i] /\ fd_list[listen_list[i]] # <<>>
    BY <1>6 DEF NextListener
<1> QED
    BY <1>1, <1>7, SeqFacts

\* A coroutine takes the oldest connection of the first busy queue.
LEMMA RunInv == ASSUME LoopInv, NEW co \in Coroutine, ef_routine_run(co) PROVE LoopInv'
<1> USE DEF ef_routine_run
<1> DEFINE l == NextListener
           fd == Head(fd_list[l])
           r == [Idle EXCEPT !.at = "user", !.conn = fd]
<1>1. l \in Listener /\ fd_list[l] # <<>>
    BY NextListenerFacts
<1> HIDE DEF l
<1>2. /\ loop = "queue" /\ evts = <<>> /\ running = None /\ serving = None /\ co \notin live
      /\ er \in [Coroutine -> Routine] /\ live \subseteq Coroutine /\ free \subseteq Coroutine
      /\ fdt \in [Fd -> Coroutine \cup Listener \cup {Closed, Queued, Leaked}]
      /\ fd_list \in [Listener -> Seq(Fd)] /\ er[co].at = "idle"
    BY DEF LoopInv, Control, TypeOK, Pool!TypeOK, Pool!Acquire
<1>3. /\ loop' = "running" /\ running' = co /\ serving' = l /\ live' = live \cup {co}
      /\ free' \subseteq free
      /\ er' = [er EXCEPT ![co] = r] /\ fdt' = [fdt EXCEPT ![fd] = co]
      /\ UNCHANGED <<evts, stopping, listen_list, lfd, fd_list, free_fd_list, interest, backlog>>
    BY DEF l, Pool!Acquire, listen_vars
<1>4. /\ fd \in Fd /\ 1 \in DOMAIN fd_list[l] /\ fd = fd_list[l][1] /\ fdt[fd] = Queued
      /\ Queued \notin Coroutine \cup Listener
    BY <1>1, <1>2, SeqFacts, NameAssumption DEF LoopInv, Queues, Queued
<1>5. r \in Routine /\ r.at = "user" /\ r.conn = fd
    BY <1>4 DEF Idle, Routine
<1> HIDE DEF fd, r, ef_routine_run
<1>6. /\ er' \in [Coroutine -> Routine] /\ er'[co].at = "user" /\ er'[co].conn = fd
      /\ \A c \in Coroutine : c # co => er'[c] = er[c]
    BY <1>2, <1>3, <1>5
<1>7. /\ fdt' \in [Fd -> Coroutine \cup Listener \cup {Closed, Queued, Leaked}]
      /\ fdt'[fd] = co /\ \A g \in Fd : g # fd => fdt'[g] = fdt[g]
    BY <1>2, <1>3, <1>4
<1>8. TypeOK'
    BY <1>1, <1>2, <1>3, <1>6, <1>7 DEF LoopInv, TypeOK, Pool!TypeOK
<1>9. Control'
    BY <1>1, <1>2, <1>3, <1>6, NameAssumption DEF LoopInv, Control
<1>10. Owners'
    BY <1>2, <1>3, <1>4, <1>6, <1>7, NameAssumption DEF LoopInv, Owners
<1>11. WaitRegistered'
    BY <1>2, <1>3, <1>6 DEF LoopInv, WaitRegistered
<1>12. EventsCurrent'
    BY <1>2, <1>3 DEF LoopInv, EventsCurrent
<1>13. Queues'
  <2>1. ASSUME NEW k \in Listener, NEW i \in DOMAIN fd_list[k]
        PROVE  /\ fd_list[k][i] \in Fd /\ fdt[fd_list[k][i]] = Queued
               /\ fd_list[k][i] = fd <=> k = l /\ i = 1
    BY <1>1, <1>2, <1>4, NameAssumption, SeqFacts DEF LoopInv, Queues
  <2>2. \A k \in Listener : \A i \in DOMAIN fd_list[k] :
           fdt'[fd_list[k][i]] # Queued <=> serving' = k /\ i = 1
    BY <1>3, <1>4, <1>7, <2>1
  <2>3. \A g \in Fd : fdt'[g] = Queued => fdt[g] = Queued
    BY <1>4, <1>7
  <2> QED
    BY <1>3, <2>2, <2>3 DEF LoopInv, Queues
<1> QED
    BY <1>3, <1>8, <1>9, <1>10, <1>11, <1>12, <1>13, Stable DEF LoopInv

\* Dropping the listeners with an empty queue keeps the others.
LEMMA KeepFacts ==
    ASSUME LoopInv, KeepQueued
    PROVE  /\ listen_list' \in Seq(Listener)
           /\ \A i \in DOMAIN listen_list' : fd_list[listen_list'[i]] # <<>>
           /\ \A i \in DOMAIN listen_list : fd_list[listen_list[i]] # <<>> =>
                 \E j \in DOMAIN listen_list' : listen_list'[j] = listen_list[i]
<1> DEFINE kept == {i \in DOMAIN listen_list : fd_list[listen_list[i]] # <<>>}
<1>1. /\ listen_list \in Seq(Listener) /\ DOMAIN listen_list = 1 .. Len(listen_list)
      /\ Len(listen_list) \in Nat
      /\ \A i \in DOMAIN listen_list : listen_list[i] \in Listener
    BY SeqFacts DEF LoopInv, TypeOK
<1>2. IsFiniteSet(kept) /\ Cardinality(kept) \in Nat
  <2>1. IsFiniteSet(1 .. Len(listen_list))
    BY <1>1, FS_Interval
  <2>2. kept \subseteq 1 .. Len(listen_list)
    BY <1>1
  <2> QED
    BY <2>1, <2>2, FS_Subset, FS_CardinalityType
<1> DEFINE n == Cardinality(kept)
<1>3. PICK pos \in [1 .. n -> kept] :
         /\ \A i, j \in DOMAIN pos : i < j => pos[i] < pos[j]
         /\ listen_list' = [i \in DOMAIN pos |-> listen_list[pos[i]]]
    BY DEF KeepQueued
<1>4. kept \subseteq Int
    BY <1>1
<1>5. /\ listen_list' = [i \in 1 .. n |-> listen_list[pos[i]]]
      /\ \A i \in 1 .. n : pos[i] \in kept
      /\ \A i, j \in 1 .. n : i < j => pos[i] < pos[j]
    BY <1>3
<1> HIDE DEF n
<1>6. \A i \in 1 .. n : listen_list[pos[i]] \in Listener /\ fd_list[listen_list[pos[i]]] # <<>>
    BY <1>1, <1>5
<1>7. listen_list' \in Seq(Listener) /\ DOMAIN listen_list' = 1 .. n
    BY <1>2, <1>5, <1>6 DEF n
<1>8. \A k \in kept : \E i \in 1 .. n : pos[i] = k
  <2>1. ASSUME NEW i \in 1 .. n, NEW j \in 1 .. n, pos[i] = pos[j]
        PROVE  i = j
    <3>1. pos[i] \in Int /\ pos[j] \in Int
      BY <1>4, <1>5
    <3>2. ~ (i < j) /\ ~ (j < i)
      BY <1>5, <2>1, <3>1
    <3> QED
      BY <1>2, <3>2 DEF n
  <2> HIDE DEF kept
  <2>2. pos \in Injection(1 .. n, kept)
    BY <1>3, <2>1 DEF Injection, IsInjective, n
  <2>3. IsFiniteSet(1 .. n) /\ Cardinality(1 .. n) = n
    BY <1>2, FS_Interval DEF n
  <2>4. pos \in Surjection(1 .. n, kept)
    BY <1>2, <2>2, <2>3, FS_Injection DEF n
  <2> QED
    BY <2>4 DEF Surjection
<1>9. ASSUME NEW i \in DOMAIN listen_list, fd_list[listen_list[i]] # <<>>
      PROVE  \E j \in DOMAIN listen_list' : listen_list'[j] = listen_list[i]
  <2>1. PICK j \in 1 .. n : pos[j] = i
    BY <1>8, <1>9
  <2> QED
    BY <1>5, <1>7, <2>1
<1> QED
    BY <1>5, <1>6, <1>7, <1>9

\* The section that closes the listeners.
LEMMA StopInv == ASSUME LoopInv, StopSection PROVE LoopInv'
<1> USE DEF StopSection
<1>1. /\ loop = "stop" /\ evts = <<>> /\ running = None /\ serving = None
      /\ loop' \in {"exited", "shrink"}
      /\ lfd' = [l \in Listener |-> -1] /\ backlog' = [l \in Listener |-> 0]
      /\ free_fd_list' = 0 /\ live' = live /\ free' = {}
      /\ UNCHANGED <<running, evts, serving, stopping, fd_list, er>>
    BY DEF LoopInv, Control, CloseListeners, Pool!Drain
<1>2. /\ listen_list' \in Seq(Listener)
      /\ \A i \in DOMAIN listen_list : fd_list[listen_list[i]] # <<>> =>
            \E j \in DOMAIN listen_list' : listen_list'[j] = listen_list[i]
    BY KeepFacts DEF CloseListeners
<1>3. /\ fdt \in [Fd -> Coroutine \cup Listener \cup {Closed, Queued, Leaked}]
      /\ interest \in [Fd -> Registration] /\ Unregistered \in Registration
      /\ Unregistered.ptr = None
    BY DEF LoopInv, TypeOK, Unregistered, Registration
<1>4. ASSUME NEW fd \in Fd
      PROVE  /\ fdt'[fd] = IF fdt[fd] \in Listener THEN Closed ELSE fdt[fd]
             /\ interest'[fd] = IF fdt[fd] \in Listener THEN Unregistered ELSE interest[fd]
    BY DEF CloseAll
<1>5. /\ fdt' \in [Fd -> Coroutine \cup Listener \cup {Closed, Queued, Leaked}]
      /\ interest' \in [Fd -> Registration]
    BY <1>3 DEF CloseAll
<1>6. TypeOK'
    BY <1>1, <1>2, <1>5, BoundAssumption DEF LoopInv, TypeOK, Pool!TypeOK
<1>7. Control'
    BY <1>1 DEF LoopInv, Control
<1>8. Owners'
  <2>1. live \subseteq Coroutine
    BY DEF LoopInv, TypeOK, Pool!TypeOK
  <2>2. \A fd \in Fd : /\ fdt'[fd] \in Coroutine => fdt'[fd] \in live
                       /\ fdt'[fd] \notin Listener
                       /\ interest'[fd].ptr \notin Listener
    BY <1>3, <1>4, NameAssumption DEF LoopInv, Owners, Closed
  <2>3. \A fd \in Fd, co \in Coroutine : fdt[fd] = co => fdt'[fd] = co
    BY <1>4, NameAssumption
  <2> QED
    BY <1>1, <2>1, <2>2, <2>3 DEF LoopInv, Owners
<1>9. WaitRegistered'
  <2>1. \A fd \in Fd, co \in Coroutine :
           interest'[fd].ptr = co <=> interest[fd].ptr = co
    BY <1>3, <1>4, NameAssumption DEF LoopInv, Owners, WaitRegistered
  <2>2. \A fd \in Fd, co \in Coroutine : interest'[fd].ptr = co => interest'[fd] = interest[fd]
    BY <1>3, <1>4, NameAssumption
  <2> QED
    BY <1>1, <2>1, <2>2 DEF LoopInv, WaitRegistered
<1>10. EventsCurrent'
    BY <1>1 DEF EventsCurrent
<1>11. Queues'
  <2>1. \A g \in Fd : fdt'[g] = Queued <=> fdt[g] = Queued
    BY <1>4, NameAssumption DEF Closed, Queued
  <2>2. \A k \in Listener : \A i \in DOMAIN fd_list[k] : fd_list[k][i] \in Fd
    BY SeqFacts DEF LoopInv, TypeOK
  <2> QED
    BY <1>1, <2>1, <2>2 DEF LoopInv, Queues
<1>12. Listed'
    BY <1>1, <1>2 DEF LoopInv, Listed
<1> QED
    BY <1>6, <1>7, <1>8, <1>9, <1>10, <1>11, <1>12 DEF LoopInv
-----------------------------------------------------------------------------
\* Every step of a program whose procedures leave the close to ef_proc keeps
\* the invariant.
LEMMA NextInv == ASSUME NoEarlyClose, LoopInv, [Next]_vars PROVE LoopInv'
<1>1. CASE UNCHANGED vars
    BY <1>1, Stable
    DEF LoopInv, TypeOK, Pool!TypeOK, Control, vars, pool_vars, loop_vars, listen_vars, kernel_vars
<1>2. ASSUME Environment PROVE LoopInv'
    BY <1>2, MoveInv, ArriveInv, AddListenInv DEF Environment
<1>3. ASSUME LoopStep PROVE LoopInv'
    BY <1>3, StartLoopInv, WaitInv, MoveInv, ResumeRoutineInv, StopInv, ShrinkInv, AcceptInv,
       EndAcceptInv, RunInv
    DEF LoopStep
<1>4. ASSUME NEW co \in Coroutine, RoutineStep(co) PROVE LoopInv'
    BY <1>4, SocketInv, AgainInv, CompleteInv, ProcInv, RoutineCloseInv, WaitForInv
    DEF RoutineStep
<1> QED
    BY <1>1, <1>2, <1>3, <1>4, MoveInv DEF Next, Returned

\* The invariant holds in every state.
LEMMA Invariance == ASSUME NoEarlyClose PROVE Spec => []LoopInv
<1>1. LoopInv /\ [Next]_vars => LoopInv'
    BY NextInv
<1> QED
    BY <1>1, InitInv, PTL DEF Spec
-----------------------------------------------------------------------------
\* A queue is no longer than the descriptor table.
LEMMA QueueLength ==
    ASSUME LoopInv, NEW l \in Listener, NEW i \in DOMAIN fd_list[l]
    PROVE  i \in 1 .. MaxFd
<1> DEFINE q == fd_list[l]
           n == Len(q)
<1>1. /\ q \in Seq(Fd) /\ n \in Nat /\ DOMAIN q = 1 .. n /\ \A k \in 1 .. n : q[k] \in Fd
      /\ MaxFd \in Nat
    BY SeqFacts, BoundAssumption DEF LoopInv, TypeOK
<1>2. \A j, k \in 1 .. n : q[j] = q[k] => j = k
    BY <1>1 DEF LoopInv, Queues
<1> HIDE DEF n
<1>3. q \in [1 .. n -> Fd]
    BY <1>1 DEF n
<1> HIDE DEF q
<1>4. /\ IsFiniteSet(1 .. n) /\ Cardinality(1 .. n) = n
      /\ IsFiniteSet(Fd) /\ Cardinality(Fd) = MaxFd
  <2>1. IsFiniteSet(1 .. n) /\ Cardinality(1 .. n) = IF 1 > n THEN 0 ELSE n - 1 + 1
    BY <1>1, FS_Interval
  <2>2. /\ IsFiniteSet(0 .. MaxFd - 1)
        /\ Cardinality(0 .. MaxFd - 1) = IF 0 > MaxFd - 1 THEN 0 ELSE MaxFd - 1 - 0 + 1
    BY <1>1, FS_Interval
  <2> QED
    BY <1>1, <2>1, <2>2 DEF Fd
<1>5. ~ (MaxFd < n)
  <2> SUFFICES ASSUME MaxFd < n PROVE FALSE
    OBVIOUS
  <2>1. \E j, k \in 1 .. n : j # k /\ q[j] = q[k]
    BY <1>3, <1>4, FS_PigeonHole
  <2> QED
    BY <1>2, <2>1
<1>6. i \in 1 .. n
    BY <1>1 DEF q
<1> QED
    BY <1>1, <1>5, <1>6

\* A set whose elements are all equal has at most one.
LEMMA AtMostOne ==
    ASSUME NEW S, \A x, y \in S : x = y
    PROVE  Cardinality(S) <= 1
<1>1. CASE S = {}
    BY <1>1, FS_EmptySet
<1>2. CASE S # {}
  <2>1. PICK x : S = {x}
    BY <1>2
  <2> QED
    BY <2>1, FS_Singleton
<1> QED
    BY <1>1, <1>2

\* The invariant says what counting the queues says.
LEMMA QueuesCount == LoopInv => QueuedOnce
<1> SUFFICES ASSUME LoopInv PROVE QueuedOnce
    OBVIOUS
<1> DEFINE InQueue(fd) == {q \in Listener \X (1 .. MaxFd) :
                             q[2] \in DOMAIN fd_list[q[1]] /\ fd_list[q[1]][q[2]] = fd}
<1>1. ASSUME NEW fd \in Fd PROVE Cardinality(InQueue(fd)) <= 1
  <2>1. ASSUME NEW x \in InQueue(fd), NEW y \in InQueue(fd) PROVE x = y
    <3>1. x[1] = y[1] /\ x[2] = y[2]
      BY DEF LoopInv, Queues
    <3> QED
      BY <3>1
  <2> HIDE DEF InQueue
  <2> QED
    BY <2>1, AtMostOne
<1>2. ASSUME NEW fd \in Fd, fdt[fd] = Queued PROVE InQueue(fd) # {}
  <2>1. PICK l \in Listener : \E i \in DOMAIN fd_list[l] : fd_list[l][i] = fd
    BY <1>2 DEF LoopInv, Queues
  <2>2. PICK i \in DOMAIN fd_list[l] : fd_list[l][i] = fd
    BY <2>1
  <2>3. i \in 1 .. MaxFd
    BY QueueLength
  <2>4. <<l, i>> \in InQueue(fd)
    BY <2>2, <2>3
  <2> QED
    BY <2>4
<1>3. \A l \in Listener : \A i \in DOMAIN fd_list[l] :
         fdt[fd_list[l][i]] # Queued => serving = l /\ i = 1
    BY DEF LoopInv, Queues
<1> HIDE DEF InQueue
<1>4. \A fd \in Fd : /\ Cardinality(InQueue(fd)) <= 1
                     /\ fdt[fd] = Queued => InQueue(fd) # {}
    BY <1>1, <1>2
<1> QED
    BY <1>3, <1>4 DEF QueuedOnce, InQueue

\* The lists, counters and tables of the runtime keep their ranges: above all
\* ef_queue_fd takes a recycled node only when there is one.
THEOREM TypeCorrect == ASSUME NoEarlyClose PROVE Spec => []TypeOK
<1>1. LoopInv => TypeOK
    BY DEF LoopInv
<1> QED
    BY <1>1, Invariance, PTL

\* No wake-up is lost: a routine waits in a wrapped call exactly as long as
\* the epoll set watches its descriptor for it.
THEOREM WaitsAreRegistered == ASSUME NoEarlyClose PROVE Spec => []WaitRegistered
<1>1. LoopInv => WaitRegistered
    BY DEF LoopInv
<1> QED
    BY <1>1, Invariance, PTL

\* Every event still to be dispatched is for an open listener or for a
\* coroutine that is parked: the loop resumes nothing else.
THEOREM EventsStayCurrent == ASSUME NoEarlyClose PROVE Spec => []EventsCurrent
<1>1. LoopInv => EventsCurrent
    BY DEF LoopInv
<1> QED
    BY <1>1, Invariance, PTL

\* Every accepted connection is in one queue, once, until its coroutine runs.
THEOREM ConnectionsQueuedOnce == ASSUME NoEarlyClose PROVE Spec => []QueuedOnce
<1> QED
    BY QueuesCount, Invariance, PTL

\* ef_proc and ef_routine_close end the running routine's own descriptors and
\* nobody else's.
THEOREM ClosesOnlyItsOwn == ASSUME NoEarlyClose PROVE Spec => NoForeignClose
<1> DEFINE Own == \A fd \in Fd : fdt[fd] \in Coroutine \cup {Queued} /\ fdt'[fd] = Closed
                                    => fdt[fd] = running
<1>1. ASSUME LoopInv, Next PROVE Own
  <2> SUFFICES ASSUME NEW fd \in Fd, fdt[fd] \in Coroutine \cup {Queued}, fdt'[fd] = Closed
               PROVE  fdt[fd] = running
    OBVIOUS
  <2>1. /\ fdt \in [Fd -> Coroutine \cup Listener \cup {Closed, Queued, Leaked}]
        /\ fdt[fd] # Closed /\ fdt[fd] \notin Listener /\ fdt' # fdt
    BY <1>1, NameAssumption DEF LoopInv, TypeOK, Closed, Queued
  <2>2. ASSUME Environment PROVE FALSE
    BY <2>1, <2>2, NameAssumption
    DEF Environment, signal_handler, ef_add_listen, Arrive, kernel_vars, Closed
  <2>3. ASSUME LoopStep PROVE FALSE
    <3>1. ASSUME NEW l \in Listener, Accept(l) PROVE FALSE
      BY <2>1, <3>1, NameAssumption
      DEF Accept, ef_queue_fd, QueueFails, Closed, Queued, Leaked
    <3>2. ASSUME NEW co \in Coroutine, ef_routine_run(co) PROVE FALSE
      BY <2>1, <3>2, NameAssumption DEF ef_routine_run, Closed
    <3>3. ASSUME StopSection PROVE FALSE
      BY <2>1, <3>3 DEF StopSection, CloseAll
    <3> QED
      BY <2>1, <2>3, <3>1, <3>2, <3>3
      DEF LoopStep, StartLoop, Wait, ef_epoll_wait, BeginAccept, ResumeRoutine, EndDispatch,
          EndQueue, GoOn, Shrink, EndAccept, kernel_vars
  <2>4. ASSUME NEW co \in Coroutine, RoutineStep(co) PROVE fdt[fd] = running
    <3>1. CASE ef_proc(co)
      <4>1. running = co /\ fdt[er[co].conn] = co /\ fdt' = [fdt EXCEPT ![er[co].conn] = Closed]
        BY <1>1, <3>1 DEF LoopInv, Control, Owners, ef_proc, CloseFd, InUser
      <4> QED
        BY <2>1, <4>1
    <3>2. ASSUME NEW g \in Fd, ef_routine_close(co, g) PROVE fdt[fd] = running
      BY <2>1, <3>2 DEF ef_routine_close, CloseFd, InUser
    <3>3. ASSUME socket(co) PROVE FALSE
      BY <2>1, <3>3, NameAssumption DEF socket, Closed
    <3> QED
      BY <2>1, <2>4, <3>1, <3>2, <3>3
      DEF RoutineStep, Again, Complete, WaitFor, kernel_vars
  <2>5. ASSUME WaitFails \/ Returned PROVE FALSE
    BY <2>1, <2>5 DEF WaitFails, Returned, vars, kernel_vars
  <2> QED
    BY <1>1, <2>2, <2>3, <2>4, <2>5 DEF Next
<1>2. LoopInv /\ [Next]_vars => [Own]_vars
    BY <1>1
<1> QED
    BY <1>2, Invariance, PTL DEF Spec, NoForeignClose
-----------------------------------------------------------------------------
\* What CleanExit assumes besides: the pool may hold a coroutine and mmap does
\* not fail.
PoolUsable == limit_max > 0 /\ "mmap" \notin Faults

\* With every coroutine back the stop section is reached with nothing queued.
StopReady == loop = "stop" /\ live = {} => ~HasQueued

\* With a coroutine to be had the queue loop ends on empty queues only.
LEMMA EndQueueReady ==
    ASSUME PoolUsable, LoopInv, EndQueue, live = {}
    PROVE  ~HasQueued
<1> SUFFICES ASSUME HasQueued PROVE FALSE
    OBVIOUS
<1>1. free = {} /\ Pool!Count >= limit_max
    BY DEF EndQueue, PoolUsable
<1> DEFINE all == live \cup free
<1>2. all = {}
    BY <1>1
<1>3. Pool!Count = 0
  <2>1. Pool!Count = Cardinality(all)
    BY DEF Pool!Count, Pool!Cardinality, Cardinality, Pool!IsFiniteSet, IsFiniteSet
  <2> HIDE DEF all
  <2> QED
    BY <1>2, <2>1, FS_EmptySet
<1> QED
    BY <1>1, <1>3, PoolAssumption DEF PoolUsable

\* Leaving the loop in the stop section leaves nothing behind.
LEMMA StopClean ==
    ASSUME LoopInv, StopReady, StopSection
    PROVE  CleanExit'
<1> SUFFICES ASSUME live = {}
             PROVE  /\ \A l \in Listener : fd_list'[l] = <<>>
                    /\ \A fd \in Fd : fdt'[fd] \in {Closed, Leaked}
                    /\ live' = {} /\ free' = {} /\ listen_list' = <<>>
                    /\ free_fd_list' = 0
    BY DEF CleanExit, StopSection
<1>1. /\ loop = "stop" /\ free_fd_list' = 0 /\ live' = {} /\ free' = {}
      /\ fd_list' = fd_list
    BY DEF StopSection, CloseListeners, Pool!Drain
<1>2. \A i \in DOMAIN listen_list : fd_list[listen_list[i]] = <<>>
    BY <1>1 DEF StopReady, HasQueued
<1>3. \A l \in Listener : fd_list[l] = <<>>
    BY <1>2 DEF LoopInv, Listed
<1>4. listen_list' = <<>>
  <2>1. /\ listen_list' \in Seq(Listener)
        /\ \A i \in DOMAIN listen_list' : fd_list[listen_list'[i]] # <<>>
    BY KeepFacts DEF StopSection, CloseListeners
  <2>2. \A i \in DOMAIN listen_list' : FALSE
    BY <1>3, <2>1, SeqFacts
  <2> QED
    BY <2>1, <2>2, SeqFacts
<1>5. ASSUME NEW fd \in Fd PROVE fdt'[fd] \in {Closed, Leaked}
  <2>1. fdt[fd] \in Coroutine \cup Listener \cup {Closed, Queued, Leaked}
    BY DEF LoopInv, TypeOK
  <2>2. fdt[fd] \notin Coroutine
    BY DEF LoopInv, Owners
  <2>3. fdt[fd] # Queued
    <3> SUFFICES ASSUME fdt[fd] = Queued PROVE FALSE
      OBVIOUS
    <3>1. PICK l \in Listener : \E i \in DOMAIN fd_list[l] : fd_list[l][i] = fd
      BY DEF LoopInv, Queues
    <3>2. fd_list[l] \in Seq(Fd) /\ fd_list[l] = <<>>
      BY <1>3 DEF LoopInv, TypeOK
    <3> QED
      BY <3>1, <3>2, SeqFacts
  <2> QED
    BY <2>1, <2>2, <2>3 DEF StopSection, CloseAll
<1> QED
    BY <1>1, <1>3, <1>4, <1>5

\* No step is taken after the loop has ended that would undo it, and the stop
\* section stays ready until it is run.
LEMMA ExitStep ==
    ASSUME PoolUsable, LoopInv, StopReady, CleanExit, [Next]_vars
    PROVE  StopReady' /\ CleanExit'
<1>1. CASE /\ UNCHANGED <<live, fd_list, listen_list>>
           /\ loop' = loop \/ loop' \notin {"stop", "exited"}
           /\ UNCHANGED <<fdt, free, free_fd_list>> \/ loop' # "exited"
    BY <1>1 DEF StopReady, CleanExit, HasQueued
<1>2. CASE loop' \notin {"stop", "exited"}
    BY <1>2 DEF StopReady, CleanExit
<1> USE DEF pool_vars, loop_vars, listen_vars, kernel_vars
<1>3. ASSUME Environment PROVE StopReady' /\ CleanExit'
    BY <1>1, <1>2, <1>3 DEF Environment, signal_handler, ef_add_listen, Arrive
<1>4. ASSUME EndQueue PROVE StopReady' /\ CleanExit'
    BY <1>4, EndQueueReady DEF EndQueue, StopReady, CleanExit, HasQueued
<1>5. ASSUME StopSection PROVE StopReady' /\ CleanExit'
    BY <1>5, StopClean DEF StopSection, StopReady
<1>6. ASSUME LoopStep, ~EndQueue, ~StopSection PROVE StopReady' /\ CleanExit'
  <2>1. ASSUME NEW l \in Listener, Accept(l) PROVE loop' \notin {"stop", "exited"}
    BY <2>1 DEF Accept, Accepting, ef_queue_fd, QueueFails, NextEvent
  <2> QED
    BY <1>1, <1>2, <1>6, <2>1
    DEF LoopStep, StartLoop, Wait, ef_epoll_wait, BeginAccept, ResumeRoutine, EndDispatch,
        GoOn, Shrink, EndAccept, NextEvent, Accepting, ef_routine_run
<1>7. ASSUME NEW co \in Coroutine, RoutineStep(co) PROVE StopReady' /\ CleanExit'
  <2>1. loop = "running"
    BY <1>7, NameAssumption
    DEF LoopInv, Control, RoutineStep, socket, Again, Complete, ef_proc, ef_routine_close,
        WaitFor, InUser, InWoken
  <2>2. loop' \notin {"stop", "exited"}
    BY <1>7, <2>1
    DEF RoutineStep, socket, Again, Complete, ef_proc, ef_routine_close, WaitFor, BackToLoop
  <2> QED
    BY <1>2, <2>2
<1>8. ASSUME WaitFails PROVE StopReady' /\ CleanExit'
    BY <1>2, <1>8 DEF WaitFails
<1>9. ASSUME UNCHANGED vars PROVE StopReady' /\ CleanExit'
    BY <1>1, <1>9 DEF vars
<1> QED
    BY <1>3, <1>4, <1>5, <1>6, <1>7, <1>8, <1>9 DEF Next, Returned

\* When ef_run_loop returns after SIGTERM every accepted connection has been
\* served, every descriptor but those lost to a failing fcntl is closed and
\* the pool is unmapped.
THEOREM ExitsClean ==
    ASSUME NoEarlyClose, PoolUsable
    PROVE  Spec => []CleanExit
<1>1. Init => StopReady /\ CleanExit
    BY DEF Init, StopReady, CleanExit
<1>2. LoopInv /\ StopReady /\ CleanExit /\ [Next]_vars => StopReady' /\ CleanExit'
    BY ExitStep
<1> QED
    BY <1>1, <1>2, Invariance, PTL DEF Spec
=============================================================================
