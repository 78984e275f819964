------------------------------ MODULE Epollet ------------------------------
(***************************************************************************)
(* epollet.c: the edge-triggered poll object.  The kernel reports an event *)
(* once, so the object remembers in `fired` what was reported and not yet  *)
(* taken back by unset, and keeps the items whose owner has something to   *)
(* do at the front of the array, below `fill`.                             *)
(*                                                                         *)
(* ef_epoll_wait is cut at its loop over the kernel's events: `todo` holds *)
(* the descriptors whose event is not yet applied, and no other operation  *)
(* runs before it is empty.  The array holds `used` items; the             *)
(* uninitialised slots above are not represented, so reading one would be  *)
(* an error.  The caller is the framework: it associates a descriptor that *)
(* waits for nothing or (a listener) again for the same events, takes      *)
(* events back with unset while it waits for them, and dissociates on      *)
(* close before it closes.                                                 *)
(***************************************************************************)
EXTENDS Poll, FiniteSets

CONSTANTS Ptr,                  \* poll_data of routines and listeners
          EventSets             \* combinations of events the kernel reports

ASSUME EventAssumption == EventSets \subseteq SUBSET Event

Always == {"ERR", "HUP"}

VARIABLES index,                \* ep->index
          items,                \* ep->items
          used, fill, cap,      \* ep->used, ep->fill, ep->cap
          todo,                 \* ep->events from the cursor of the wait loop on
          epset                 \* descriptors registered with the kernel

array_vars == <<index, items, used, fill, cap>>
vars == <<array_vars, todo, epset>>

Item == [fd : Fd, waiting : SUBSET {"IN", "OUT"}, fired : SUBSET Event, ptr : Ptr]

\* What struct _ef_epoll and the kernel's set range over.
TypeOK == /\ index \in [Fd -> Int]
          /\ used \in Nat
          /\ fill \in Nat
          /\ items \in [0 .. used - 1 -> Item]
          /\ todo \in SUBSET Fd
          /\ epset \in SUBSET Fd

ef_epoll_create == /\ index = [fd \in Fd |-> -1]
                   /\ items = <<>>
                   /\ used = 0 /\ fill = 0 /\ cap = InitCap
                   /\ todo = {}
                   /\ epset = {}

\* The owner of the item has something to do.
Ready(it) == (it.waiting \cup Always) \cap it.fired # {}

ef_epoll_expand(fd) == Expanded(cap, fd)

\* Exchange items i and j of array a, and what index says of their owners.
SwapItems(a, i, j) == [a EXCEPT ![i] = a[j], ![j] = a[i]]
SwapIndex(x, a, i, j) == [x EXCEPT ![a[j].fd] = i, ![a[i].fd] = j]

\* Item i is ready: move it to the end of the filled area unless it is there.
Fill(x, a, i) == IF i >= fill
                 THEN /\ items' = SwapItems(a, i, fill)
                      /\ index' = SwapIndex(x, a, i, fill)
                      /\ fill' = fill + 1
                 ELSE items' = a /\ index' = x /\ UNCHANGED fill

\* Take item i out of the filled area if it is there.
Unfill(x, a, i) == IF i < fill
                   THEN /\ items' = SwapItems(a, i, fill - 1)
                        /\ index' = SwapIndex(x, a, i, fill - 1)
                        /\ fill' = fill - 1
                   ELSE items' = a /\ index' = x /\ UNCHANGED fill

FillIfReady(x, a, i) == IF Ready(a[i]) THEN Fill(x, a, i)
                        ELSE items' = a /\ index' = x /\ UNCHANGED fill
-----------------------------------------------------------------------------
Idle == todo = {}

\* Returns 1 when the item is ready: the caller then does not wait.
Reassociate(fd, events, ptr) ==
    LET i == index[fd]
    IN  /\ i >= 0
        /\ items[i].waiting \in {{}, events}
        /\ FillIfReady(index, [items EXCEPT ![i].waiting = events, ![i].ptr = ptr], i)
        /\ UNCHANGED <<used, cap, epset>>

\* A new item counts as writable before the kernel said so.
NewItem(fd, events, ptr) == [fd |-> fd, waiting |-> events, fired |-> {"OUT"}, ptr |-> ptr]

\* When epoll_ctl refuses the descriptor the call fails and the item stays.
Associate(fd, events, ptr) ==
    /\ index[fd] = -1
    /\ cap' = ef_epoll_expand(fd)
    /\ used' = used + 1
    /\ LET x == [index EXCEPT ![fd] = used]
           a == [i \in 0 .. used |-> IF i = used THEN NewItem(fd, events, ptr) ELSE items[i]]
       IN  \/ /\ FillIfReady(x, a, used)
              /\ epset' = epset \cup {fd}
           \/ /\ index' = x /\ items' = a
              /\ UNCHANGED <<fill, epset>>

ef_epoll_associate(fd, events, ptr) ==
    /\ Idle
    /\ Reassociate(fd, events, ptr) \/ Associate(fd, events, ptr)
    /\ UNCHANGED todo

\* The owner has its answer: it waits for nothing.
ef_epoll_dissociate(fd) ==
    /\ Idle
    /\ index[fd] >= 0
    /\ Unfill(index, [items EXCEPT ![index[fd]].waiting = {}], index[fd])
    /\ UNCHANGED <<used, cap, todo, epset>>

\* Mutant: the index of the item that filled the hole is not updated.
RemoveStaleIndex(fd) ==
    LET i    == index[fd]
        hole == IF i < fill THEN fill - 1 ELSE i
        last == used - 1
        x    == [index EXCEPT ![fd] = -1]
    IN  /\ items' = [j \in 0 .. last - 1 |-> CASE j = hole -> items[last]
                                             [] j = i /\ j # hole -> items[hole]
                                             [] OTHER -> items[j]]
        /\ index' = IF hole # i THEN [x EXCEPT ![items[hole].fd] = i] ELSE x
        /\ fill' = IF i < fill THEN fill - 1 ELSE fill
        /\ used' = last

\* The last filled item takes the place of the removed one, the last used
\* item the place of that one.
TakeOut(fd) ==
    LET i    == index[fd]
        hole == IF i < fill THEN fill - 1 ELSE i
        last == used - 1
        x    == [index EXCEPT ![fd] = -1]
        x1   == IF hole # i THEN [x EXCEPT ![items[hole].fd] = i] ELSE x
    IN  /\ items' = [j \in 0 .. last - 1 |-> CASE j = hole -> items[last]
                                             [] j = i /\ j # hole -> items[hole]
                                             [] OTHER -> items[j]]
        /\ index' = IF hole < last THEN [x1 EXCEPT ![items[last].fd] = hole] ELSE x1
        /\ fill' = IF i < fill THEN fill - 1 ELSE fill
        /\ used' = last

\* ef_routine_close: dissociate with onclose; the kernel forgets the
\* descriptor, which may then be opened anew.
ef_epoll_dissociate_onclose(fd) ==
    /\ Idle
    /\ index[fd] >= 0
    /\ TakeOut(fd)
    /\ epset' = epset \ {fd}
    /\ UNCHANGED <<cap, todo>>

\* Mutant: the item stays in the filled area.
UnsetInPlace(fd, events) ==
    /\ Idle
    /\ index[fd] >= 0
    /\ items' = [items EXCEPT ![index[fd]].fired = @ \ events]
    /\ UNCHANGED <<index, fill, used, cap, todo, epset>>

\* The system call said EAGAIN: what was reported is used up.
ef_epoll_unset(fd, events) ==
    /\ Idle
    /\ index[fd] >= 0
    /\ LET i == index[fd]
           a == [items EXCEPT ![i].fired = @ \ events]
       IN  IF Ready(a[i]) THEN items' = a /\ UNCHANGED <<index, fill>>
           ELSE Unfill(index, a, i)
    /\ UNCHANGED <<used, cap, todo, epset>>

\* epoll_wait is called only while nothing is filled.  The kernel reports
\* some registered descriptors, at most cap of them, in any order.
PollKernel == /\ Idle
              /\ fill = 0
              /\ todo' \in SUBSET epset
              /\ Cardinality(todo') <= cap
              /\ UNCHANGED <<array_vars, epset>>

\* One turn of the loop over the reported events.
ApplyEvent(fd, events) ==
    /\ fd \in todo
    /\ FillIfReady(index, [items EXCEPT ![index[fd]].fired = @ \cup events], index[fd])
    /\ todo' = todo \ {fd}
    /\ UNCHANGED <<used, cap, epset>>
-----------------------------------------------------------------------------
(* The caller *)

\* ef_routine_read and recv take back IN and HUP, write and send OUT, a
\* listener IN.
CallOf(p, fd) ==
    \/ ef_epoll_dissociate(fd) \/ ef_epoll_dissociate_onclose(fd)
    \/ \E events \in {{"IN"}, {"OUT"}} : ef_epoll_associate(fd, events, p)
    \/ \E events \in {{"IN"}, {"OUT"}, {"IN", "HUP"}} :
          /\ index[fd] >= 0 => items[index[fd]].waiting \cap events # {}
          /\ ef_epoll_unset(fd, events)

Operation(fd) == \E p \in Ptr : CallOf(p, fd)

Next == \/ \E fd \in Fd : Operation(fd)
        \/ PollKernel
        \/ \E fd \in Fd, events \in EventSets : ApplyEvent(fd, events)

Spec == ef_epoll_create /\ [][Next]_vars
-----------------------------------------------------------------------------
(* Properties *)

\* index and items name each other: every registered descriptor has exactly
\* one item below `used`, at the slot index says, through every swap and
\* removal.
IndexMatchesItems ==
    /\ \A fd \in Fd : index[fd] >= 0 => index[fd] < used /\ items[index[fd]].fd = fd
    /\ \A i \in 0 .. used - 1 : index[items[i].fd] = i

\* fill never passes used, and neither passes the allocated capacity, so no
\* operation touches memory beyond the arrays.
WithinCapacity == cap \in Nat /\ fill <= used /\ used <= cap /\ \A fd \in Fd : index[fd] >= 0 => fd < cap

\* The filled area holds exactly the items to report: each filled item has an
\* event its owner asked for or an error, and an item that is waited for and
\* has such an event is filled, so the next ef_epoll_wait returns it without
\* asking the kernel, which would not report it again.  Items the kernel
\* refused are the exception: their call has failed.
FilledAreReady ==
    \A i \in 0 .. used - 1 :
        IF i < fill THEN Ready(items[i])
        ELSE items[i].waiting # {} /\ items[i].fd \in epset => ~Ready(items[i])

\* The kernel reports only descriptors that have an item, also while the
\* items before it move: the wait loop never indexes the array with -1.
ReportsKnown == epset \cup todo \subseteq {fd \in Fd : index[fd] >= 0}

\* The array survives every swap and removal.
ArrayInv == TypeOK /\ IndexMatchesItems /\ fill <= used /\ ReportsKnown
=============================================================================
