------------------------ MODULE WrappedCallsProofs -------------------------
(***************************************************************************)
(* The poll objects with arrays of their own: poll.c keeps slot and pfds   *)
(* in step, and implements PollSet.  The arrays of both objects are as     *)
(* long as what is stored in them: a capacity that is doubled until the    *)
(* descriptor fits is found, every registered descriptor is below it, and  *)
(* as no two slots are for the same descriptor the slots fit, too.         *)
(*                                                                         *)
(* Then, no wake-up is lost between the wrapped calls, the poll object and *)
(* the kernel, and none goes to another call, for any number of routines,  *)
(* descriptors and events, over each of the three objects; what port.c     *)
(* loses with data that went away, and hangups over epollet.c, are named   *)
(* in the properties.                                                      *)
(***************************************************************************)
EXTENDS WrappedCalls, RecursionProofs, FiniteSetTheorems
-----------------------------------------------------------------------------
(* epollet.c: index and items stay in step through every swap, growth and removal *)

\* x and the first n slots of a name each other.
Matches(x, a, n) ==
    /\ x \in [Fd -> Int]
    /\ a \in [0 .. n - 1 -> Item]
    /\ \A fd \in Fd : x[fd] >= 0 => x[fd] < n /\ a[x[fd]].fd = fd
    /\ \A i \in 0 .. n - 1 : x[a[i].fd] = i

\* The descriptors x has an item for.
Known(x) == {fd \in Fd : x[fd] >= 0}

\* The invariant with the arrays as parameters.
LEMMA ArrayFacts ==
    ArrayInv <=> /\ Matches(index, items, used) /\ used \in Nat /\ fill \in Nat
                 /\ fill <= used
                 /\ todo \in SUBSET Fd /\ epset \in SUBSET Fd
                 /\ epset \cup todo \subseteq Known(index)
    BY DEF ArrayInv, TypeOK, IndexMatchesItems, ReportsKnown, Matches, Known

\* An item is a record with a known descriptor.
LEMMA ItemFacts ==
    ASSUME NEW n \in Nat, NEW x, NEW a, Matches(x, a, n), NEW i \in 0 .. n - 1
    PROVE  a[i] \in Item /\ a[i].fd \in Fd /\ x[a[i].fd] = i
    BY DEF Matches, Item

\* Exchanging two items together with their index entries changes neither the
\* match nor the descriptors known nor the item of any.
LEMMA SwapMatches ==
    ASSUME NEW n \in Nat, NEW x, NEW a, Matches(x, a, n),
           NEW i \in 0 .. n - 1, NEW j \in 0 .. n - 1
    PROVE  /\ Matches(SwapIndex(x, a, i, j), SwapItems(a, i, j), n)
           /\ Known(SwapIndex(x, a, i, j)) = Known(x)
           /\ \A g \in Known(x) : SwapItems(a, i, j)[SwapIndex(x, a, i, j)[g]] = a[x[g]]
<1> DEFINE b == SwapItems(a, i, j)
           y == SwapIndex(x, a, i, j)
<1>1. /\ a[i] \in Item /\ a[i].fd \in Fd /\ x[a[i].fd] = i
      /\ a[j] \in Item /\ a[j].fd \in Fd /\ x[a[j].fd] = j
    BY ItemFacts
<1>2. /\ b \in [0 .. n - 1 -> Item]
      /\ b[i] = a[j] /\ b[j] = a[i]
      /\ \A k \in 0 .. n - 1 : k # i /\ k # j => b[k] = a[k]
    BY <1>1 DEF Matches, SwapItems
<1>3. /\ y \in [Fd -> Int]
      /\ y[a[i].fd] = j
      /\ i # j => y[a[j].fd] = i
      /\ \A fd \in Fd : fd # a[i].fd /\ fd # a[j].fd => y[fd] = x[fd]
    BY <1>1 DEF Matches, SwapIndex
<1> HIDE DEF b, y
<1>4. ASSUME NEW fd \in Fd
      PROVE  /\ y[fd] >= 0 => y[fd] < n /\ b[y[fd]].fd = fd
             /\ y[fd] >= 0 <=> x[fd] >= 0
  <2>1. CASE fd = a[i].fd
    BY <1>1, <1>2, <1>3, <2>1
  <2>2. CASE fd = a[j].fd /\ i # j
    BY <1>1, <1>2, <1>3, <2>2
  <2>3. CASE fd # a[i].fd /\ fd # a[j].fd
    <3>1. y[fd] = x[fd] /\ x[fd] \in Int
      BY <1>3, <2>3 DEF Matches
    <3>2. x[fd] >= 0 => x[fd] \in 0 .. n - 1 /\ a[x[fd]].fd = fd
      BY <3>1 DEF Matches
    <3>3. x[fd] >= 0 => b[x[fd]] = a[x[fd]]
      BY <1>2, <2>3, <3>2
    <3> QED
      BY <3>1, <3>2, <3>3
  <2> QED
    BY <2>1, <2>2, <2>3
<1>5. ASSUME NEW k \in 0 .. n - 1
      PROVE  y[b[k].fd] = k
  <2>1. CASE k = i
    BY <1>2, <1>3, <2>1
  <2>2. CASE k = j
    BY <1>2, <1>3, <2>2
  <2>3. CASE k # i /\ k # j
    BY <1>1, <1>2, <1>3, <2>3, ItemFacts
  <2> QED
    BY <2>1, <2>2, <2>3
<1>6. Matches(y, b, n)
    BY <1>2, <1>3, <1>4, <1>5 DEF Matches
<1>7. Known(y) = Known(x)
    BY <1>4 DEF Known
<1>8. ASSUME NEW g \in Known(x)
      PROVE  b[y[g]] = a[x[g]]
  <2>1. g \in Fd /\ x[g] \in 0 .. n - 1 /\ a[x[g]].fd = g
    BY DEF Known, Matches
  <2>2. CASE x[g] = i \/ x[g] = j
    BY <1>1, <1>2, <1>3, <2>1, <2>2
  <2>3. CASE x[g] # i /\ x[g] # j
    <3>1. g # a[i].fd /\ g # a[j].fd
      BY <1>1, <2>3
    <3> QED
      BY <1>2, <1>3, <2>1, <2>3, <3>1
  <2> QED
    BY <2>2, <2>3
<1> QED
    BY <1>6, <1>7, <1>8 DEF y, b

\* A change of an item that leaves its descriptor alone keeps the match.
LEMMA UpdateMatches ==
    ASSUME NEW n \in Nat, NEW x, NEW a, Matches(x, a, n), NEW i \in 0 .. n - 1,
           NEW it \in Item, it.fd = a[i].fd
    PROVE  Matches(x, [a EXCEPT ![i] = it], n)
    BY DEF Matches, Item

\* Filling an item keeps the match, what is known of each descriptor and fill
\* in range.
LEMMA FillMatches ==
    ASSUME NEW n \in Nat, NEW x, NEW a, Matches(x, a, n), NEW i \in 0 .. n - 1,
           fill \in Nat, fill <= n, Fill(x, a, i)
    PROVE  /\ Matches(index', items', n) /\ Known(index') = Known(x)
           /\ \A g \in Known(x) : items'[index'[g]] = a[x[g]]
           /\ fill' \in Nat /\ fill' <= n
<1>1. CASE i >= fill
  <2>1. fill \in 0 .. n - 1
    BY <1>1
  <2>2. /\ items' = SwapItems(a, i, fill) /\ index' = SwapIndex(x, a, i, fill)
        /\ fill' = fill + 1
    BY <1>1 DEF Fill
  <2> QED
    BY <2>1, <2>2, SwapMatches
<1>2. CASE ~(i >= fill)
    BY <1>2 DEF Fill
<1> QED
    BY <1>1, <1>2

\* So does taking an item out of the filled area ...
LEMMA UnfillMatches ==
    ASSUME NEW n \in Nat, NEW x, NEW a, Matches(x, a, n), NEW i \in 0 .. n - 1,
           fill \in Nat, fill <= n, Unfill(x, a, i)
    PROVE  /\ Matches(index', items', n) /\ Known(index') = Known(x)
           /\ \A g \in Known(x) : items'[index'[g]] = a[x[g]]
           /\ fill' \in Nat /\ fill' <= n
<1>1. CASE i < fill
  <2>1. fill - 1 \in 0 .. n - 1
    BY <1>1
  <2>2. /\ items' = SwapItems(a, i, fill - 1) /\ index' = SwapIndex(x, a, i, fill - 1)
        /\ fill' = fill - 1
    BY <1>1 DEF Unfill
  <2> QED
    BY <1>1, <2>1, <2>2, SwapMatches
<1>2. CASE ~(i < fill)
    BY <1>2 DEF Unfill
<1> QED
    BY <1>1, <1>2

\* ... and filling it on a condition.
LEMMA FillIfReadyMatches ==
    ASSUME NEW n \in Nat, NEW x, NEW a, Matches(x, a, n), NEW i \in 0 .. n - 1,
           fill \in Nat, fill <= n, FillIfReady(x, a, i)
    PROVE  /\ Matches(index', items', n) /\ Known(index') = Known(x)
           /\ \A g \in Known(x) : items'[index'[g]] = a[x[g]]
           /\ fill' \in Nat /\ fill' <= n
    BY FillMatches DEF FillIfReady

\* The item of a known descriptor.
LEMMA KnownItem ==
    ASSUME ArrayInv, NEW fd \in Fd, index[fd] >= 0
    PROVE  /\ index[fd] \in 0 .. used - 1 /\ items[index[fd]].fd = fd
           /\ items[index[fd]] \in Item /\ used \in Nat /\ Matches(index, items, used)
    BY ArrayFacts DEF Matches
-----------------------------------------------------------------------------
\* A new poll object has no item.
LEMMA CreateInv == ef_epoll_create => ArrayInv
    BY DEF ef_epoll_create, ArrayInv, TypeOK, IndexMatchesItems, ReportsKnown

\* A known descriptor keeps its item, with other events and pointer.
LEMMA ReassociateInv ==
    ASSUME ArrayInv, NEW fd \in Fd, NEW events \in {{"IN"}, {"OUT"}}, NEW p \in Ptr,
           Reassociate(fd, events, p), UNCHANGED todo
    PROVE  ArrayInv'
<1> DEFINE i == index[fd]
           it == [items[i] EXCEPT !.waiting = events, !.ptr = p]
<1>1. index[fd] >= 0
    BY DEF Reassociate
<1>2. it \in Item /\ it.fd = items[i].fd
    BY <1>1, KnownItem DEF Item
<1>3. [items EXCEPT ![i].waiting = events, ![i].ptr = p] = [items EXCEPT ![i] = it]
    BY <1>1, KnownItem DEF Matches, Item
<1>4. Matches(index, [items EXCEPT ![i] = it], used)
    BY <1>1, <1>2, KnownItem, UpdateMatches
<1>5. FillIfReady(index, [items EXCEPT ![i] = it], i) /\ UNCHANGED <<used, epset>>
    BY <1>3 DEF Reassociate
<1> HIDE DEF it
<1>6. /\ Matches(index', items', used) /\ Known(index') = Known(index)
      /\ fill' \in Nat /\ fill' <= used
    BY <1>1, <1>4, <1>5, KnownItem, FillIfReadyMatches, ArrayFacts
<1> QED
    BY <1>5, <1>6, ArrayFacts DEF ArrayInv, TypeOK, IndexMatchesItems, ReportsKnown, Matches, Known

\* What Associate makes of index and items: the new item goes behind the last.
AppendIndex(x, fd, n) == [x EXCEPT ![fd] = n]
AppendItems(a, it, n) == [i \in 0 .. n |-> IF i = n THEN it ELSE a[i]]

\* The new item of a descriptor keeps the match and makes it known.
LEMMA AppendMatches ==
    ASSUME NEW n \in Nat, NEW x, NEW a, Matches(x, a, n),
           NEW fd \in Fd, x[fd] = -1, NEW it \in Item, it.fd = fd
    PROVE  /\ Matches(AppendIndex(x, fd, n), AppendItems(a, it, n), n + 1)
           /\ Known(AppendIndex(x, fd, n)) = Known(x) \cup {fd}
<1> DEFINE y == AppendIndex(x, fd, n)
           b == AppendItems(a, it, n)
<1>1. y \in [Fd -> Int] /\ y[fd] = n /\ \A g \in Fd : g # fd => y[g] = x[g]
    BY DEF Matches, AppendIndex
<1>2. /\ b \in [0 .. n -> Item] /\ b[n] = it
      /\ \A i \in 0 .. n - 1 : b[i] = a[i]
    BY DEF Matches, AppendItems
<1> HIDE DEF y, b
<1>3. ASSUME NEW g \in Fd, y[g] >= 0
      PROVE  y[g] < n + 1 /\ b[y[g]].fd = g
  <2>1. CASE g = fd
    BY <1>1, <1>2, <2>1
  <2>2. CASE g # fd
    <3>1. y[g] = x[g] /\ x[g] \in 0 .. n - 1 /\ a[x[g]].fd = g
      BY <1>1, <1>3, <2>2 DEF Matches
    <3> QED
      BY <1>2, <3>1
  <2> QED
    BY <2>1, <2>2
<1>4. ASSUME NEW i \in 0 .. n
      PROVE  y[b[i].fd] = i
  <2>1. CASE i = n
    BY <1>1, <1>2, <2>1
  <2>2. CASE i # n
    <3>1. i \in 0 .. n - 1
      BY <2>2
    <3>2. a[i].fd \in Fd /\ x[a[i].fd] = i /\ b[i] = a[i]
      BY <1>2, <3>1, ItemFacts
    <3>3. a[i].fd # fd
      BY <3>1, <3>2
    <3> QED
      BY <1>1, <3>2, <3>3
  <2> QED
    BY <2>1, <2>2
<1>5. Matches(y, b, n + 1)
  <2>1. 0 .. (n + 1) - 1 = 0 .. n
    BY Z3
  <2> QED
    BY <1>1, <1>2, <1>3, <1>4, <2>1 DEF Matches
<1>6. Known(y) = Known(x) \cup {fd}
    BY <1>1 DEF Known
<1> QED
    BY <1>5, <1>6 DEF y, b

\* A new descriptor, accepted by the kernel or refused.
LEMMA AssociateInv ==
    ASSUME ArrayInv, NEW fd \in Fd, NEW events \in {{"IN"}, {"OUT"}}, NEW p \in Ptr,
           Associate(fd, events, p), UNCHANGED todo
    PROVE  ArrayInv' /\ Known(index') = Known(index) \cup {fd}
<1> DEFINE it == NewItem(fd, events, p)
           x == AppendIndex(index, fd, used)
           a == AppendItems(items, it, used)
<1>1. it \in Item /\ it.fd = fd
    BY DEF NewItem, Item, Event
<1>2. /\ Matches(index, items, used) /\ used \in Nat /\ fill \in Nat /\ fill <= used
      /\ todo \in SUBSET Fd /\ epset \in SUBSET Fd /\ epset \cup todo \subseteq Known(index)
    BY ArrayFacts
<1>3. index[fd] = -1 /\ used' = used + 1
    BY DEF Associate
<1>4. \/ FillIfReady(x, a, used) /\ epset' = epset \cup {fd}
      \/ index' = x /\ items' = a /\ fill' = fill /\ epset' = epset
    BY DEF Associate, AppendIndex, AppendItems
<1> HIDE DEF it
<1>5. Matches(x, a, used + 1) /\ Known(x) = Known(index) \cup {fd}
    BY <1>1, <1>2, <1>3, AppendMatches
<1> HIDE DEF x, a
<1>6. /\ Matches(index', items', used') /\ Known(index') = Known(index) \cup {fd}
      /\ fill' \in Nat /\ fill' <= used'
  <2>1. CASE FillIfReady(x, a, used)
    <3>1. used \in 0 .. (used + 1) - 1 /\ used + 1 \in Nat /\ fill <= used + 1
      BY <1>2
    <3> QED
      BY <1>2, <1>3, <1>5, <2>1, <3>1, FillIfReadyMatches
  <2>2. CASE index' = x /\ items' = a /\ fill' = fill
    BY <1>2, <1>3, <1>5, <2>2
  <2> QED
    BY <1>4, <2>1, <2>2
<1>7. epset' \in SUBSET Fd /\ epset' \subseteq epset \cup {fd}
    BY <1>2, <1>4
<1>8. used' \in Nat /\ todo' = todo
    BY <1>2, <1>3
<1> QED
    BY <1>2, <1>6, <1>7, <1>8
    DEF ArrayInv, TypeOK, IndexMatchesItems, ReportsKnown, Matches, Known

\* Whatever an operation does to one item of a known descriptor, the array is
\* right again when the items match and the same descriptors are known.
LEMMA SameKnownInv ==
    ASSUME ArrayInv, Matches(index', items', used), Known(index') = Known(index),
           fill' \in Nat, fill' <= used, used' = used,
           todo' \subseteq todo \cup epset, epset' = epset
    PROVE  ArrayInv'
    BY ArrayFacts DEF ArrayInv, TypeOK, IndexMatchesItems, ReportsKnown, Matches, Known

\* The owner waits for nothing any more.
LEMMA DissociateInv ==
    ASSUME ArrayInv, NEW fd \in Fd, ef_epoll_dissociate(fd)
    PROVE  ArrayInv'
<1> DEFINE i == index[fd]
           it == [items[i] EXCEPT !.waiting = {}]
<1>1. index[fd] >= 0
    BY DEF ef_epoll_dissociate
<1>2. it \in Item /\ it.fd = items[i].fd
    BY <1>1, KnownItem DEF Item
<1>3. [items EXCEPT ![i].waiting = {}] = [items EXCEPT ![i] = it]
    BY <1>1, KnownItem DEF Matches, Item
<1>4. Matches(index, [items EXCEPT ![i] = it], used)
    BY <1>1, <1>2, KnownItem, UpdateMatches
<1>5. Unfill(index, [items EXCEPT ![i] = it], i) /\ UNCHANGED <<used, epset, todo>>
    BY <1>3 DEF ef_epoll_dissociate
<1> HIDE DEF it
<1>6. /\ Matches(index', items', used) /\ Known(index') = Known(index)
      /\ fill' \in Nat /\ fill' <= used
    BY <1>1, <1>4, <1>5, KnownItem, UnfillMatches, ArrayFacts
<1> QED
    BY <1>5, <1>6, SameKnownInv

\* Reported events are taken back.
LEMMA UnsetInv ==
    ASSUME ArrayInv, NEW fd \in Fd, NEW events, ef_epoll_unset(fd, events)
    PROVE  ArrayInv'
<1> DEFINE i == index[fd]
           it == [items[i] EXCEPT !.fired = @ \ events]
           a == [items EXCEPT ![i] = it]
<1>1. index[fd] >= 0
    BY DEF ef_epoll_unset
<1>2. it \in Item /\ it.fd = items[i].fd
    BY <1>1, KnownItem DEF Item
<1>3. [items EXCEPT ![i].fired = @ \ events] = a
    BY <1>1, KnownItem DEF Matches, Item
<1>4. Matches(index, a, used)
    BY <1>1, <1>2, KnownItem, UpdateMatches
<1>5. /\ \/ items' = a /\ UNCHANGED <<index, fill>>
         \/ Unfill(index, a, i)
      /\ UNCHANGED <<used, epset, todo>>
    BY <1>3 DEF ef_epoll_unset
<1> HIDE DEF it
<1>6. /\ Matches(index', items', used) /\ Known(index') = Known(index)
      /\ fill' \in Nat /\ fill' <= used
  <2>1. CASE items' = a /\ UNCHANGED <<index, fill>>
    BY <1>4, <2>1, ArrayFacts
  <2>2. CASE Unfill(index, a, i)
    BY <1>1, <1>4, <2>2, KnownItem, UnfillMatches, ArrayFacts
  <2> QED
    BY <1>5, <2>1, <2>2
<1> QED
    BY <1>5, <1>6, SameKnownInv

\* The kernel reports descriptors that are registered, hence known.
LEMMA PollKernelInv ==
    ASSUME ArrayInv, PollKernel
    PROVE  ArrayInv'
    BY ArrayFacts, SameKnownInv DEF PollKernel, array_vars

\* One reported event reaches its item.
LEMMA ApplyEventInv ==
    ASSUME ArrayInv, NEW fd \in Fd, NEW events \in SUBSET Event, ApplyEvent(fd, events)
    PROVE  ArrayInv'
<1> DEFINE i == index[fd]
           it == [items[i] EXCEPT !.fired = @ \cup events]
<1>1. index[fd] >= 0
    BY ArrayFacts DEF ApplyEvent, Known
<1>2. it \in Item /\ it.fd = items[i].fd
    BY <1>1, KnownItem DEF Item
<1>3. [items EXCEPT ![i].fired = @ \cup events] = [items EXCEPT ![i] = it]
    BY <1>1, KnownItem DEF Matches, Item
<1>4. Matches(index, [items EXCEPT ![i] = it], used)
    BY <1>1, <1>2, KnownItem, UpdateMatches
<1>5. /\ FillIfReady(index, [items EXCEPT ![i] = it], i)
      /\ UNCHANGED <<used, epset>> /\ todo' \subseteq todo
    BY <1>3 DEF ApplyEvent
<1> HIDE DEF it
<1>6. /\ Matches(index', items', used) /\ Known(index') = Known(index)
      /\ fill' \in Nat /\ fill' <= used
    BY <1>1, <1>4, <1>5, KnownItem, FillIfReadyMatches, ArrayFacts
<1> QED
    BY <1>5, <1>6, SameKnownInv

\* The removed item's place goes to the last filled item, that one's place to
\* the last used item: what is left still matches.
LEMMA RemoveMatches ==
    ASSUME ArrayInv, NEW fd \in Fd, index[fd] >= 0, TakeOut(fd)
    PROVE  /\ used' \in Nat /\ Matches(index', items', used')
           /\ Known(index') = Known(index) \ {fd}
           /\ fill' \in Nat /\ fill' <= used'
<1> DEFINE i == index[fd]
           hole == IF i < fill THEN fill - 1 ELSE i
           last == used - 1
<1>1. /\ Matches(index, items, used) /\ used \in Nat /\ fill \in Nat /\ fill <= used
      /\ i \in 0 .. last /\ items[i].fd = fd
    BY ArrayFacts, KnownItem
<1>2. hole \in i .. last /\ last \in Nat /\ used' = last
    BY <1>1 DEF TakeOut
<1>3. fill' \in Nat /\ fill' <= used'
    BY <1>1 DEF TakeOut
<1>4. \A k \in 0 .. last : items[k] \in Item /\ items[k].fd \in Fd /\ index[items[k].fd] = k
    BY <1>1, ItemFacts
<1>5. /\ items' \in [0 .. last - 1 -> Item]
      /\ hole < last => items'[hole] = items[last]
      /\ hole # i => items'[i] = items[hole]
      /\ \A j \in 0 .. last - 1 : j # hole /\ j # i => items'[j] = items[j]
    BY <1>1, <1>2, <1>4 DEF TakeOut, Matches
<1>6. /\ index' \in [Fd -> Int]
      /\ index'[fd] = -1
      /\ hole # i => index'[items[hole].fd] = i
      /\ hole < last => index'[items[last].fd] = hole
      /\ \A g \in Fd : \/ g = fd
                       \/ hole # i /\ g = items[hole].fd
                       \/ hole < last /\ g = items[last].fd
                       \/ index'[g] = index[g]
  <2> DEFINE x == [index EXCEPT ![fd] = -1]
             x1 == IF hole # i THEN [x EXCEPT ![items[hole].fd] = i] ELSE x
  <2>1. index' = IF hole < last THEN [x1 EXCEPT ![items[last].fd] = hole] ELSE x1
    BY DEF TakeOut
  <2>2. /\ items[hole].fd \in Fd /\ index[items[hole].fd] = hole
        /\ items[last].fd \in Fd /\ index[items[last].fd] = last
        /\ index \in [Fd -> Int]
    BY <1>1, <1>2, <1>4 DEF Matches
  <2>3. /\ x1 \in [Fd -> Int] /\ x1[fd] = -1
        /\ hole # i => x1[items[hole].fd] = i
        /\ \A g \in Fd : g # fd => (hole # i /\ g = items[hole].fd) \/ x1[g] = index[g]
    BY <1>1, <1>2, <2>2
  <2> HIDE DEF x1, hole
  <2> QED
    BY <1>1, <1>2, <2>1, <2>2, <2>3
<1> HIDE DEF hole, i, last
<1>7. ASSUME NEW g \in Fd, index'[g] >= 0
      PROVE  index'[g] < last /\ items'[index'[g]].fd = g
  <2>1. CASE hole # i /\ g = items[hole].fd
    BY <1>1, <1>2, <1>5, <1>6, <2>1
  <2>2. CASE hole < last /\ g = items[last].fd
    BY <1>1, <1>2, <1>5, <1>6, <2>2
  <2>3. CASE index'[g] = index[g] /\ g # fd /\ ~(hole # i /\ g = items[hole].fd)
             /\ ~(hole < last /\ g = items[last].fd)
    <3>1. index[g] \in 0 .. last /\ items[index[g]].fd = g
      BY <1>1, <1>7, <2>3 DEF Matches, last
    <3>2. index[g] # i /\ index[g] # hole /\ index[g] # last
      BY <1>1, <1>2, <2>3, <3>1
    <3> QED
      BY <1>2, <1>5, <2>3, <3>1, <3>2
  <2> QED
    BY <1>6, <1>7, <2>1, <2>2, <2>3
<1>8. ASSUME NEW j \in 0 .. last - 1
      PROVE  index'[items'[j].fd] = j
  <2>1. CASE j = hole
    BY <1>2, <1>5, <1>6, <2>1
  <2>2. CASE j = i /\ j # hole
    BY <1>5, <1>6, <2>2
  <2>3. CASE j # i /\ j # hole
    <3>1. items'[j] = items[j] /\ items[j].fd \in Fd /\ index[items[j].fd] = j
      BY <1>2, <1>4, <1>5, <2>3
    <3>2. items[j].fd # fd /\ items[j].fd # items[hole].fd /\ items[j].fd # items[last].fd
      BY <1>1, <1>2, <1>4, <2>3, <3>1 DEF i
    <3> QED
      BY <1>6, <3>1, <3>2
  <2> QED
    BY <2>1, <2>2, <2>3
<1>9. Known(index') = Known(index) \ {fd}
  <2>1. ASSUME NEW g \in Fd, g # fd
        PROVE  index'[g] >= 0 <=> index[g] >= 0
    <3>1. hole >= 0 /\ last >= 0 /\ i >= 0 /\ index[items[hole].fd] = hole /\ index[items[last].fd] = last
      BY <1>1, <1>2, <1>4
    <3> QED
      BY <1>6, <2>1, <3>1
  <2> QED
    BY <1>6, <2>1 DEF Known
<1> QED
    BY <1>2, <1>3, <1>5, <1>6, <1>7, <1>8, <1>9 DEF Matches

\* A descriptor about to be closed: the kernel forgets it with the array.
LEMMA DissociateOncloseInv ==
    ASSUME ArrayInv, NEW fd \in Fd, ef_epoll_dissociate_onclose(fd)
    PROVE  ArrayInv'
<1>1. index[fd] >= 0 /\ TakeOut(fd) /\ epset' = epset \ {fd} /\ todo' = {}
    BY DEF ef_epoll_dissociate_onclose, Idle
<1>2. /\ used' \in Nat /\ Matches(index', items', used')
      /\ Known(index') = Known(index) \ {fd}
      /\ fill' \in Nat /\ fill' <= used'
    BY <1>1, RemoveMatches
<1> QED
    BY <1>1, <1>2, ArrayFacts
    DEF ArrayInv, TypeOK, IndexMatchesItems, ReportsKnown, Matches, Known
-----------------------------------------------------------------------------
\* Every step keeps the array right: ArrayInv is inductive as it stands.
LEMMA NextInv == ArrayInv /\ [Next]_vars => ArrayInv'
<1> SUFFICES ASSUME ArrayInv, [Next]_vars
             PROVE  ArrayInv'
    OBVIOUS
<1>1. CASE \E fd \in Fd : Operation(fd)
  <2>0. PICK fd \in Fd : Operation(fd)
    BY <1>1
  <2>1. CASE ef_epoll_dissociate(fd)
    BY <2>1, DissociateInv
  <2>2. CASE ef_epoll_dissociate_onclose(fd)
    BY <2>2, DissociateOncloseInv
  <2>3. ASSUME NEW events \in {{"IN"}, {"OUT"}}, NEW p \in Ptr, ef_epoll_associate(fd, events, p)
        PROVE  ArrayInv'
    BY <2>3, ReassociateInv, AssociateInv DEF ef_epoll_associate
  <2>4. ASSUME NEW events, ef_epoll_unset(fd, events)
        PROVE  ArrayInv'
    BY <2>4, UnsetInv
  <2> QED
    BY <2>0, <2>1, <2>2, <2>3, <2>4 DEF Operation, CallOf
<1>2. CASE PollKernel
    BY <1>2, PollKernelInv
<1>3. CASE \E fd \in Fd, events \in EventSets : ApplyEvent(fd, events)
    BY <1>3, ApplyEventInv, EventAssumption
<1>4. CASE UNCHANGED vars
    BY <1>4 DEF vars, array_vars, ArrayInv, TypeOK, IndexMatchesItems, ReportsKnown
<1> QED
    BY <1>1, <1>2, <1>3, <1>4 DEF Next

\* epollet.c: for any number of descriptors, initial capacity and combination
\* of events, index and items name each other through every fill, unfill,
\* growth and removal, and the kernel reports only descriptors with an item.
THEOREM ArraySafe == Spec => []ArrayInv
<1>1. ef_epoll_create => ArrayInv
    BY CreateInv
<1>2. ArrayInv /\ [Next]_vars => ArrayInv'
    BY NextInv
<1> QED
    BY <1>1, <1>2, PTL DEF Spec
-----------------------------------------------------------------------------
(* The filled area. *)

\* What FilledAreReady says of an item in the filled area or behind it.
Placed(it, filled, registered) ==
    IF filled THEN Ready(it)
    ELSE it.waiting # {} /\ it.fd \in registered => ~Ready(it)

\* FilledAreReady for the first n slots of a, except slot i.
PlacedBut(a, f, n, registered, i) ==
    \A k \in 0 .. n - 1 : k # i => Placed(a[k], k < f, registered)

\* No slot is excepted.
Area(a, f, n, registered) == \A k \in 0 .. n - 1 : Placed(a[k], k < f, registered)

\* An item whose events or whose owner's wish changed is moved to where it
\* belongs, if it was not filled without being ready.
LEMMA FillArea ==
    ASSUME NEW n \in Nat, NEW x, NEW a, Matches(x, a, n), NEW i \in 0 .. n - 1, NEW registered,
           fill \in Nat, fill <= n, PlacedBut(a, fill, n, registered, i),
           i < fill => Ready(a[i]), FillIfReady(x, a, i)
    PROVE  Area(items', fill', n, registered)
<1>1. CASE Ready(a[i]) /\ i >= fill
  <2>1. items' = SwapItems(a, i, fill) /\ fill' = fill + 1 /\ fill \in 0 .. n - 1
    BY <1>1 DEF FillIfReady, Fill
  <2>2. /\ items'[i] = a[fill] /\ items'[fill] = a[i]
        /\ \A k \in 0 .. n - 1 : k # i /\ k # fill => items'[k] = a[k]
    BY <2>1 DEF SwapItems, Matches
  <2> QED
    BY <1>1, <2>1, <2>2 DEF Area, PlacedBut, Placed
<1>2. CASE Ready(a[i]) /\ i < fill
    BY <1>2 DEF FillIfReady, Fill, Area, PlacedBut, Placed
<1>3. CASE ~ Ready(a[i])
    BY <1>3 DEF FillIfReady, Area, PlacedBut, Placed
<1> QED
    BY <1>1, <1>2, <1>3

\* An item that is not to be reported is moved out of the filled area.
LEMMA UnfillArea ==
    ASSUME NEW n \in Nat, NEW x, NEW a, Matches(x, a, n), NEW i \in 0 .. n - 1, NEW registered,
           fill \in Nat, fill <= n, PlacedBut(a, fill, n, registered, i),
           Placed(a[i], FALSE, registered), Unfill(x, a, i)
    PROVE  Area(items', fill', n, registered)
<1>1. CASE i < fill
  <2>1. items' = SwapItems(a, i, fill - 1) /\ fill' = fill - 1 /\ fill - 1 \in 0 .. n - 1
    BY <1>1 DEF Unfill
  <2>2. /\ items'[i] = a[fill - 1] /\ items'[fill - 1] = a[i]
        /\ \A k \in 0 .. n - 1 : k # i /\ k # fill - 1 => items'[k] = a[k]
    BY <2>1 DEF SwapItems, Matches
  <2> QED
    BY <1>1, <2>1, <2>2 DEF Area, PlacedBut, Placed
<1>2. CASE ~ (i < fill)
    BY <1>2 DEF Unfill, Area, PlacedBut, Placed
<1> QED
    BY <1>1, <1>2

\* The invariant in these terms.
LEMMA AreaFacts ==
    /\ FilledAreReady <=> Area(items, fill, used, epset)
    /\ FilledAreReady' <=> Area(items', fill', used', epset')
    BY DEF FilledAreReady, Area, Placed, Ready

\* A known descriptor is associated again, with another wish.
LEMMA ReassociateArea ==
    ASSUME ArrayInv, FilledAreReady, NEW fd \in Fd, NEW events \in {{"IN"}, {"OUT"}}, NEW p \in Ptr,
           Reassociate(fd, events, p)
    PROVE  FilledAreReady'
<1> DEFINE i == index[fd]
           it == [items[i] EXCEPT !.waiting = events, !.ptr = p]
           a == [items EXCEPT ![i] = it]
<1>1. index[fd] >= 0 /\ items[i].waiting \in {{}, events}
    BY DEF Reassociate
<1>2. /\ items[i] \in Item /\ it \in Item /\ it.fd = items[i].fd /\ it.waiting = events
      /\ it.fired = items[i].fired /\ i \in 0 .. used - 1 /\ Matches(index, items, used)
      /\ used \in Nat /\ fill \in Nat /\ fill <= used
    BY <1>1, KnownItem, ArrayFacts DEF Item
<1>3. [items EXCEPT ![i].waiting = events, ![i].ptr = p] = a
    BY <1>1, KnownItem DEF Matches, Item
<1>4. FillIfReady(index, a, i) /\ UNCHANGED <<used, epset>>
    BY <1>3 DEF Reassociate
<1>5. i < fill => Ready(it)
    BY <1>1, <1>2, AreaFacts DEF Area, Placed, Ready
<1> HIDE DEF it
<1>6. /\ Matches(index, a, used) /\ a[i] = it
      /\ \A k \in 0 .. used - 1 : k # i => a[k] = items[k]
    BY <1>2, UpdateMatches DEF Matches
<1> HIDE DEF a
<1>7. PlacedBut(a, fill, used, epset, i)
    BY <1>6, AreaFacts DEF Area, PlacedBut
<1> QED
    BY <1>2, <1>4, <1>5, <1>6, <1>7, FillArea, AreaFacts

\* A new descriptor: filled at once if its owner wants to write; an item the
\* kernel refused stays outside.
LEMMA AssociateArea ==
    ASSUME ArrayInv, FilledAreReady, NEW fd \in Fd, NEW events \in {{"IN"}, {"OUT"}}, NEW p \in Ptr,
           Associate(fd, events, p)
    PROVE  FilledAreReady'
<1> DEFINE it == NewItem(fd, events, p)
           x == AppendIndex(index, fd, used)
           a == AppendItems(items, it, used)
<1>1. it \in Item /\ it.fd = fd
    BY DEF NewItem, Item, Event
<1>2. /\ Matches(index, items, used) /\ used \in Nat /\ fill \in Nat /\ fill <= used
      /\ epset \subseteq Known(index)
    BY ArrayFacts
<1>3. index[fd] = -1 /\ used' = used + 1
    BY DEF Associate
<1>4. \/ FillIfReady(x, a, used) /\ epset' = epset \cup {fd}
      \/ items' = a /\ fill' = fill /\ epset' = epset
    BY DEF Associate, AppendIndex, AppendItems
<1> HIDE DEF it
<1>5. Matches(x, a, used + 1)
    BY <1>1, <1>2, <1>3, AppendMatches
<1>6. a[used] = it /\ \A k \in 0 .. used - 1 : a[k] = items[k]
    BY <1>2 DEF AppendItems
<1>7. fd \notin epset /\ \A k \in 0 .. used - 1 : items[k].fd # fd
    BY <1>2, <1>3, ItemFacts DEF Known
<1> HIDE DEF x, a
<1>8. PlacedBut(a, fill, used + 1, epset, used) /\ PlacedBut(a, fill, used + 1, epset \cup {fd}, used)
    BY <1>2, <1>6, <1>7, AreaFacts DEF PlacedBut, Area, Placed
<1>9. CASE FillIfReady(x, a, used) /\ epset' = epset \cup {fd}
  <2>1. used \in 0 .. (used + 1) - 1 /\ used + 1 \in Nat /\ fill <= used + 1 /\ ~ (used < fill)
    BY <1>2
  <2> QED
    BY <1>2, <1>3, <1>5, <1>8, <1>9, <2>1, FillArea, AreaFacts
<1>10. CASE items' = a /\ fill' = fill /\ epset' = epset
  <2>1. Placed(a[used], FALSE, epset)
    BY <1>1, <1>6, <1>7 DEF Placed
  <2>2. \A k \in 0 .. used - 1 : Placed(a[k], k < fill, epset)
    BY <1>2, <1>8 DEF PlacedBut
  <2>3. \A k \in 0 .. (used + 1) - 1 : Placed(a[k], k < fill, epset)
    BY <1>2, <2>1, <2>2 DEF Placed
  <2> QED
    BY <1>3, <1>10, <2>3, AreaFacts DEF Area
<1> QED
    BY <1>4, <1>9, <1>10

\* The owner waits no more: its item leaves the filled area.
LEMMA DissociateArea ==
    ASSUME ArrayInv, FilledAreReady, NEW fd \in Fd, ef_epoll_dissociate(fd)
    PROVE  FilledAreReady'
<1> DEFINE i == index[fd]
           it == [items[i] EXCEPT !.waiting = {}]
           a == [items EXCEPT ![i] = it]
<1>1. index[fd] >= 0
    BY DEF ef_epoll_dissociate
<1>2. /\ it \in Item /\ it.fd = items[i].fd /\ it.waiting = {}
      /\ i \in 0 .. used - 1 /\ Matches(index, items, used)
      /\ used \in Nat /\ fill \in Nat /\ fill <= used
    BY <1>1, KnownItem, ArrayFacts DEF Item
<1>3. [items EXCEPT ![i].waiting = {}] = a
    BY <1>1, KnownItem DEF Matches, Item
<1>4. Unfill(index, a, i) /\ UNCHANGED <<used, epset>>
    BY <1>3 DEF ef_epoll_dissociate
<1> HIDE DEF it
<1>5. /\ Matches(index, a, used) /\ a[i] = it
      /\ \A k \in 0 .. used - 1 : k # i => a[k] = items[k]
  <2>1. Matches(index, a, used)
    BY <1>2, UpdateMatches
  <2>2. items \in [0 .. used - 1 -> Item]
    BY <1>2 DEF Matches
  <2> QED
    BY <1>2, <2>1, <2>2
<1> HIDE DEF a
<1>6. PlacedBut(a, fill, used, epset, i) /\ Placed(a[i], FALSE, epset)
    BY <1>2, <1>5, AreaFacts DEF Area, PlacedBut, Placed
<1> QED
    BY <1>2, <1>4, <1>5, <1>6, UnfillArea, AreaFacts

\* Events are taken back: the item stays filled only if others are left.
LEMMA UnsetArea ==
    ASSUME ArrayInv, FilledAreReady, NEW fd \in Fd, NEW events, ef_epoll_unset(fd, events)
    PROVE  FilledAreReady'
<1> DEFINE i == index[fd]
           it == [items[i] EXCEPT !.fired = @ \ events]
           a == [items EXCEPT ![i] = it]
<1>1. index[fd] >= 0
    BY DEF ef_epoll_unset
<1>2. /\ it \in Item /\ it.fd = items[i].fd /\ it.waiting = items[i].waiting
      /\ it.fired = items[i].fired \ events
      /\ i \in 0 .. used - 1 /\ Matches(index, items, used)
      /\ used \in Nat /\ fill \in Nat /\ fill <= used
    BY <1>1, KnownItem, ArrayFacts DEF Item
<1>3. [items EXCEPT ![i].fired = @ \ events] = a
    BY <1>1, KnownItem DEF Matches, Item
<1>4. /\ IF Ready(a[i]) THEN items' = a /\ UNCHANGED <<index, fill>> ELSE Unfill(index, a, i)
      /\ UNCHANGED <<used, epset>>
    BY <1>3 DEF ef_epoll_unset
<1> HIDE DEF it
<1>5. /\ Matches(index, a, used) /\ a[i] = it
      /\ \A k \in 0 .. used - 1 : k # i => a[k] = items[k]
    BY <1>2, UpdateMatches DEF Matches
<1> HIDE DEF a
<1>6. PlacedBut(a, fill, used, epset, i)
    BY <1>5, AreaFacts DEF Area, PlacedBut
<1>7. CASE Ready(a[i])
  <2>1. Ready(items[i])
    BY <1>2, <1>5, <1>7 DEF Ready
  <2>2. Placed(a[i], i < fill, epset)
    BY <1>2, <1>5, <1>7, <2>1, AreaFacts DEF Area, Placed
  <2> QED
    BY <1>4, <1>6, <1>7, <2>2, AreaFacts DEF Area, PlacedBut
<1>8. CASE ~ Ready(a[i])
    BY <1>2, <1>4, <1>5, <1>6, <1>8, UnfillArea, AreaFacts DEF Placed
<1> QED
    BY <1>7, <1>8

\* A reported event reaches its item, which is filled if its owner asked.
LEMMA ApplyEventArea ==
    ASSUME ArrayInv, FilledAreReady, NEW fd \in Fd, NEW events \in SUBSET Event,
           ApplyEvent(fd, events)
    PROVE  FilledAreReady'
<1> DEFINE i == index[fd]
           it == [items[i] EXCEPT !.fired = @ \cup events]
           a == [items EXCEPT ![i] = it]
<1>1. index[fd] >= 0
    BY ArrayFacts DEF ApplyEvent, Known
<1>2. /\ it \in Item /\ it.fd = items[i].fd /\ it.waiting = items[i].waiting
      /\ it.fired = items[i].fired \cup events
      /\ i \in 0 .. used - 1 /\ Matches(index, items, used)
      /\ used \in Nat /\ fill \in Nat /\ fill <= used
    BY <1>1, KnownItem, ArrayFacts DEF Item
<1>3. [items EXCEPT ![i].fired = @ \cup events] = a
    BY <1>1, KnownItem DEF Matches, Item
<1>4. FillIfReady(index, a, i) /\ UNCHANGED <<used, epset>>
    BY <1>3 DEF ApplyEvent
<1> HIDE DEF it
<1>5. /\ Matches(index, a, used) /\ a[i] = it
      /\ \A k \in 0 .. used - 1 : k # i => a[k] = items[k]
    BY <1>2, UpdateMatches DEF Matches
<1> HIDE DEF a
<1>6. PlacedBut(a, fill, used, epset, i)
    BY <1>5, AreaFacts DEF Area, PlacedBut
<1>7. i < fill => Ready(a[i])
    BY <1>2, <1>5, AreaFacts DEF Area, Placed, Ready
<1> QED
    BY <1>2, <1>4, <1>5, <1>6, <1>7, FillArea, AreaFacts

\* A removal moves at most two items, neither across the border of the area.
LEMMA RemoveArea ==
    ASSUME ArrayInv, FilledAreReady, NEW fd \in Fd, ef_epoll_dissociate_onclose(fd)
    PROVE  FilledAreReady'
<1> DEFINE i == index[fd]
           hole == IF i < fill THEN fill - 1 ELSE i
           last == used - 1
<1>1. index[fd] >= 0 /\ TakeOut(fd) /\ epset' = epset \ {fd}
    BY DEF ef_epoll_dissociate_onclose
<1>2. /\ Matches(index, items, used) /\ used \in Nat /\ fill \in Nat /\ fill <= used
      /\ i \in 0 .. last
    BY <1>1, ArrayFacts, KnownItem
<1>3. hole \in i .. last /\ last \in Nat /\ used' = last
    BY <1>1, <1>2 DEF TakeOut
<1>4. fill' = IF i < fill THEN fill - 1 ELSE fill
    BY <1>1 DEF TakeOut
<1>5. /\ hole < last => items'[hole] = items[last]
      /\ hole # i => items'[i] = items[hole]
      /\ \A j \in 0 .. last - 1 : j # hole /\ j # i => items'[j] = items[j]
    BY <1>1, <1>2, <1>3 DEF TakeOut
<1>6. \A k \in 0 .. last : Placed(items[k], k < fill, epset')
    BY <1>1, <1>2, AreaFacts DEF Area, Placed
<1>7. ASSUME NEW j \in 0 .. last - 1
      PROVE  Placed(items'[j], j < fill', epset')
  <2>1. CASE j = hole
    <3>1. items'[j] = items[last] /\ ~ (j < fill') /\ (last < fill => hole = last)
      BY <1>2, <1>3, <1>4, <1>5, <2>1
    <3> QED
      BY <1>2, <1>3, <1>6, <2>1, <3>1
  <2>2. CASE j = i /\ j # hole
    <3>1. items'[j] = items[hole] /\ j < fill' /\ hole < fill
      BY <1>2, <1>3, <1>4, <1>5, <2>2
    <3> QED
      BY <1>2, <1>3, <1>6, <3>1
  <2>3. CASE j # i /\ j # hole
    <3>1. items'[j] = items[j] /\ (j < fill' <=> j < fill)
      BY <1>2, <1>3, <1>4, <1>5, <2>3
    <3> QED
      BY <1>2, <1>3, <1>6, <3>1
  <2> QED
    BY <2>1, <2>2, <2>3
<1> QED
    BY <1>3, <1>7, AreaFacts DEF Area

\* Every step keeps the filled area exact.
LEMMA NextArea == ArrayInv /\ FilledAreReady /\ [Next]_vars => FilledAreReady'
<1> SUFFICES ASSUME ArrayInv, FilledAreReady, [Next]_vars
             PROVE  FilledAreReady'
    OBVIOUS
<1>1. ASSUME NEW fd \in Fd, Operation(fd)
      PROVE  FilledAreReady'
  <2>1. ASSUME NEW events \in {{"IN"}, {"OUT"}}, NEW p \in Ptr, ef_epoll_associate(fd, events, p)
        PROVE  FilledAreReady'
    BY <2>1, ReassociateArea, AssociateArea DEF ef_epoll_associate
  <2>2. ASSUME NEW events, ef_epoll_unset(fd, events)
        PROVE  FilledAreReady'
    BY <2>2, UnsetArea
  <2> QED
    BY <1>1, <2>1, <2>2, DissociateArea, RemoveArea DEF Operation, CallOf
<1>2. CASE PollKernel
    BY <1>2 DEF PollKernel, array_vars, FilledAreReady, Ready
<1>3. CASE \E fd \in Fd, events \in EventSets : ApplyEvent(fd, events)
    BY <1>3, ApplyEventArea, EventAssumption
<1>4. CASE UNCHANGED vars
    BY <1>4 DEF vars, array_vars, FilledAreReady, Ready
<1> QED
    BY <1>1, <1>2, <1>3, <1>4 DEF Next

\* epollet.c: the filled area holds exactly the items to report, so an edge
\* that was reported once reaches its owner and nobody is woken for nothing.
THEOREM AreaExact == Spec => []FilledAreReady
<1>1. ef_epoll_create => FilledAreReady
    BY DEF ef_epoll_create, FilledAreReady
<1>2. ArrayInv /\ FilledAreReady /\ [Next]_vars => FilledAreReady'
    BY NextArea
<1> QED
    BY <1>1, <1>2, ArraySafe, PTL DEF Spec
-----------------------------------------------------------------------------
(* What an operation does, told by descriptor: the item of one changes, and
   that of no other, wherever in the array they are. *)

\* The item of fd becomes it.
ItemBecomes(fd, it) == /\ Known(index') = Known(index)
                    /\ items'[index'[fd]] = it
                    /\ \A g \in Known(index) \ {fd} : items'[index'[g]] = items[index[g]]

\* An update of one item, wherever it is moved afterwards.
LEMMA OneItem ==
    ASSUME ArrayInv, NEW fd \in Fd, index[fd] >= 0, NEW it \in Item, it.fd = items[index[fd]].fd,
           \/ items' = [items EXCEPT ![index[fd]] = it] /\ index' = index
           \/ FillIfReady(index, [items EXCEPT ![index[fd]] = it], index[fd])
           \/ Unfill(index, [items EXCEPT ![index[fd]] = it], index[fd])
    PROVE  ItemBecomes(fd, it)
<1> DEFINE a == [items EXCEPT ![index[fd]] = it]
           i == index[fd]
<1>1. /\ i \in 0 .. used - 1 /\ Matches(index, items, used) /\ used \in Nat
      /\ fill \in Nat /\ fill <= used
    BY KnownItem, ArrayFacts
<1>2. Matches(index, a, used)
    BY <1>1, UpdateMatches
<1>3. /\ Known(index') = Known(index)
      /\ \A g \in Known(index) : items'[index'[g]] = a[index[g]]
  <2>1. CASE items' = a /\ index' = index
    BY <2>1
  <2>2. CASE FillIfReady(index, a, i)
    <3> HIDE DEF i, a
    <3> QED
      BY <1>1, <1>2, <2>2, FillIfReadyMatches
  <2>3. CASE Unfill(index, a, i)
    <3> HIDE DEF i, a
    <3> QED
      BY <1>1, <1>2, <2>3, UnfillMatches
  <2> QED
    BY <2>1, <2>2, <2>3
<1>4. fd \in Known(index) /\ a[index[fd]] = it
    BY <1>1 DEF Known, Matches
<1>5. ASSUME NEW g \in Known(index) \ {fd}
      PROVE  a[index[g]] = items[index[g]]
    BY <1>1 DEF Known, Matches
<1> QED
    BY <1>3, <1>4, <1>5 DEF ItemBecomes

\* Associated again: another wish, another pointer.
LEMMA ReassociateItem ==
    ASSUME ArrayInv, NEW fd \in Fd, NEW events \in {{"IN"}, {"OUT"}}, NEW p \in Ptr,
           Reassociate(fd, events, p)
    PROVE  ItemBecomes(fd, [items[index[fd]] EXCEPT !.waiting = events, !.ptr = p])
<1> DEFINE i == index[fd]
           it == [items[i] EXCEPT !.waiting = events, !.ptr = p]
<1>1. index[fd] >= 0
    BY DEF Reassociate
<1>2. it \in Item /\ it.fd = items[i].fd
    BY <1>1, KnownItem DEF Item
<1>3. [items EXCEPT ![i].waiting = events, ![i].ptr = p] = [items EXCEPT ![i] = it]
    BY <1>1, KnownItem DEF Matches, Item
<1>4. FillIfReady(index, [items EXCEPT ![i] = it], i)
    BY <1>3 DEF Reassociate
<1> HIDE DEF it
<1>5. ItemBecomes(fd, it)
    BY <1>1, <1>2, <1>4, OneItem
<1> QED
    BY <1>5 DEF it

\* A new descriptor the kernel accepts.
LEMMA AssociateItem ==
    ASSUME ArrayInv, NEW fd \in Fd, NEW events \in {{"IN"}, {"OUT"}}, NEW p \in Ptr,
           Associate(fd, events, p), fd \in epset'
    PROVE  /\ index[fd] = -1 /\ epset' = epset \cup {fd}
           /\ Known(index') = Known(index) \cup {fd}
           /\ items'[index'[fd]] = NewItem(fd, events, p)
           /\ \A g \in Known(index) : items'[index'[g]] = items[index[g]]
<1> DEFINE it == NewItem(fd, events, p)
           x == AppendIndex(index, fd, used)
           a == AppendItems(items, it, used)
<1>1. it \in Item /\ it.fd = fd
    BY DEF NewItem, Item, Event
<1>2. /\ Matches(index, items, used) /\ used \in Nat /\ fill \in Nat /\ fill <= used
      /\ epset \subseteq Known(index)
    BY ArrayFacts
<1>3. index[fd] = -1 /\ used' = used + 1
    BY DEF Associate
<1>4. FillIfReady(x, a, used) /\ epset' = epset \cup {fd}
  <2>1. fd \notin epset
    BY <1>2, <1>3 DEF Known
  <2> QED
    BY <2>1 DEF Associate, AppendIndex, AppendItems
<1> HIDE DEF it
<1>5. Matches(x, a, used + 1) /\ Known(x) = Known(index) \cup {fd}
    BY <1>1, <1>2, <1>3, AppendMatches
<1>6. x[fd] = used /\ a[used] = it
    BY <1>2 DEF AppendIndex, AppendItems, Matches
<1>7. ASSUME NEW g \in Known(index)
      PROVE  g # fd /\ a[x[g]] = items[index[g]]
  <2>1. g \in Fd /\ g # fd /\ index[g] \in 0 .. used - 1
    BY <1>2, <1>3 DEF Known, Matches
  <2> QED
    BY <1>2, <2>1 DEF AppendIndex, AppendItems, Matches
<1> HIDE DEF x, a
<1>8. /\ Known(index') = Known(x) /\ \A g \in Known(x) : items'[index'[g]] = a[x[g]]
  <2>1. used \in 0 .. (used + 1) - 1 /\ used + 1 \in Nat /\ fill <= used + 1
    BY <1>2
  <2> QED
    BY <1>2, <1>4, <1>5, <2>1, FillIfReadyMatches
<1> QED
    BY <1>3, <1>4, <1>5, <1>6, <1>7, <1>8 DEF it

\* The owner waits for nothing.
LEMMA DissociateItem ==
    ASSUME ArrayInv, NEW fd \in Fd, ef_epoll_dissociate(fd)
    PROVE  index[fd] >= 0 /\ epset' = epset /\ ItemBecomes(fd, [items[index[fd]] EXCEPT !.waiting = {}])
<1> DEFINE i == index[fd]
           it == [items[i] EXCEPT !.waiting = {}]
<1>1. index[fd] >= 0
    BY DEF ef_epoll_dissociate
<1>2. it \in Item /\ it.fd = items[i].fd
    BY <1>1, KnownItem DEF Item
<1>3. [items EXCEPT ![i].waiting = {}] = [items EXCEPT ![i] = it]
    BY <1>1, KnownItem DEF Matches, Item
<1>4. Unfill(index, [items EXCEPT ![i] = it], i) /\ epset' = epset
    BY <1>3 DEF ef_epoll_dissociate
<1> HIDE DEF it
<1>5. ItemBecomes(fd, it)
    BY <1>1, <1>2, <1>4, OneItem
<1> QED
    BY <1>1, <1>4, <1>5 DEF it

\* Events are taken back.
LEMMA UnsetItem ==
    ASSUME ArrayInv, NEW fd \in Fd, NEW events, ef_epoll_unset(fd, events)
    PROVE  /\ index[fd] >= 0 /\ epset' = epset
           /\ ItemBecomes(fd, [items[index[fd]] EXCEPT !.fired = @ \ events])
<1> DEFINE i == index[fd]
           it == [items[i] EXCEPT !.fired = @ \ events]
<1>1. index[fd] >= 0
    BY DEF ef_epoll_unset
<1>2. it \in Item /\ it.fd = items[i].fd
    BY <1>1, KnownItem DEF Item
<1>3. [items EXCEPT ![i].fired = @ \ events] = [items EXCEPT ![i] = it]
    BY <1>1, KnownItem DEF Matches, Item
<1>4. /\ \/ items' = [items EXCEPT ![i] = it] /\ index' = index
         \/ Unfill(index, [items EXCEPT ![i] = it], i)
      /\ epset' = epset
    BY <1>3 DEF ef_epoll_unset
<1> HIDE DEF it
<1>5. ItemBecomes(fd, it)
    BY <1>1, <1>2, <1>4, OneItem
<1> QED
    BY <1>1, <1>4, <1>5 DEF it

\* A reported event reaches the item.
LEMMA ApplyEventItem ==
    ASSUME ArrayInv, NEW fd \in Fd, NEW events \in SUBSET Event, ApplyEvent(fd, events)
    PROVE  /\ index[fd] >= 0 /\ epset' = epset /\ todo' = todo \ {fd}
           /\ ItemBecomes(fd, [items[index[fd]] EXCEPT !.fired = @ \cup events])
<1> DEFINE i == index[fd]
           it == [items[i] EXCEPT !.fired = @ \cup events]
<1>1. index[fd] >= 0
    BY ArrayFacts DEF ApplyEvent, Known
<1>2. it \in Item /\ it.fd = items[i].fd
    BY <1>1, KnownItem DEF Item
<1>3. [items EXCEPT ![i].fired = @ \cup events] = [items EXCEPT ![i] = it]
    BY <1>1, KnownItem DEF Matches, Item
<1>4. FillIfReady(index, [items EXCEPT ![i] = it], i) /\ epset' = epset /\ todo' = todo \ {fd}
    BY <1>3 DEF ApplyEvent
<1> HIDE DEF it
<1>5. ItemBecomes(fd, it)
    BY <1>1, <1>2, <1>4, OneItem
<1> QED
    BY <1>1, <1>4, <1>5 DEF it

\* The descriptor is forgotten, the others keep their items.
LEMMA RemoveItem ==
    ASSUME ArrayInv, NEW fd \in Fd, ef_epoll_dissociate_onclose(fd)
    PROVE  /\ index[fd] >= 0 /\ epset' = epset \ {fd}
           /\ Known(index') = Known(index) \ {fd}
           /\ \A g \in Known(index) \ {fd} : items'[index'[g]] = items[index[g]]
<1> DEFINE i == index[fd]
           hole == IF i < fill THEN fill - 1 ELSE i
           last == used - 1
<1>1. index[fd] >= 0 /\ TakeOut(fd) /\ epset' = epset \ {fd}
    BY DEF ef_epoll_dissociate_onclose
<1>2. /\ Matches(index, items, used) /\ used \in Nat /\ fill \in Nat /\ fill <= used
      /\ i \in 0 .. last /\ items[i].fd = fd
    BY <1>1, ArrayFacts, KnownItem
<1>3. hole \in i .. last /\ last \in Nat
    BY <1>2
<1>4. Matches(index', items', last) /\ Known(index') = Known(index) \ {fd}
    BY <1>1, RemoveMatches DEF TakeOut
<1>5. /\ hole < last => items'[hole] = items[last]
      /\ hole # i => items'[i] = items[hole]
      /\ \A j \in 0 .. last - 1 : j # hole /\ j # i => items'[j] = items[j]
    BY <1>1, <1>2, <1>3 DEF TakeOut
<1> HIDE DEF hole, i, last
<1>6. ASSUME NEW g \in Known(index) \ {fd}
      PROVE  items'[index'[g]] = items[index[g]]
  <2>1. g \in Fd /\ index'[g] \in 0 .. last - 1 /\ items'[index'[g]].fd = g
    BY <1>3, <1>4 DEF Known, Matches
  <2>2. PICK k \in 0 .. last : items'[index'[g]] = items[k]
    BY <1>2, <1>3, <1>5, <2>1
  <2>3. k \in 0 .. used - 1 /\ items[k].fd = g
    BY <1>2, <2>1, <2>2 DEF last
  <2>4. index[g] = k
    BY <1>2, <2>3 DEF Matches
  <2> QED
    BY <2>2, <2>4
<1> QED
    BY <1>1, <1>4, <1>6
-----------------------------------------------------------------------------
(* poll.c *)

\* What the proofs use of the invariant.
LEMMA PollFacts ==
    ASSUME PollInv
    PROVE  /\ nfds \in Nat
           /\ slot \in [Fd -> [idx : Int, ptr : PollPtr \cup {-1}]]
           /\ pfds \in [0 .. nfds - 1 -> PollFd]
           /\ \A fd \in Fd : slot[fd].idx >= 0 =>
                 /\ slot[fd].idx \in 0 .. nfds - 1
                 /\ pfds[slot[fd].idx].fd = fd
           /\ \A i \in 0 .. nfds - 1 : pfds[i].fd \in Fd /\ slot[pfds[i].fd].idx = i
    BY DEF PollInv, PollTypeOK, IndexMatchesPfds, PollFd

\* A new poll object has no slot in use and no slot entry.
LEMMA PollCreateInv == ef_poll_create => PollInv
    BY DEF ef_poll_create, PollInv, PollTypeOK, IndexMatchesPfds, PollFd

\* A new descriptor gets the slot after the last, a known one keeps its own.
LEMMA PollAssociateInv ==
    ASSUME PollInv, NEW fd \in Fd, NEW events \in {{"IN"}, {"OUT"}}, NEW p \in PollPtr,
           ef_poll_associate(fd, events, p)
    PROVE  PollInv'
<1> DEFINE entry == [fd |-> fd, events |-> events]
<1>1. entry \in PollFd /\ entry.fd = fd
    BY DEF PollFd
<1> HIDE DEF entry
<1>2. CASE slot[fd].idx < 0
  <2>1. /\ nfds' = nfds + 1
        /\ slot' = [slot EXCEPT ![fd] = [idx |-> nfds, ptr |-> p]]
        /\ pfds' = [j \in 0 .. nfds |-> IF j = nfds THEN entry ELSE pfds[j]]
    BY <1>2, PollFacts DEF ef_poll_associate, entry
  <2>2. PollTypeOK'
    BY <1>1, <2>1, PollFacts DEF PollTypeOK
  <2>3. \A i \in 0 .. nfds - 1 : pfds'[i] = pfds[i] /\ pfds[i].fd # fd
    BY <1>2, <2>1, PollFacts
  <2>4. pfds'[nfds].fd = fd /\ slot'[fd].idx = nfds
    BY <1>1, <2>1, PollFacts
  <2>5. \A g \in Fd : g # fd => slot'[g] = slot[g]
    BY <2>1, PollFacts
  <2>6. IndexMatchesPfds'
    <3>1. ASSUME NEW g \in Fd, slot'[g].idx >= 0
          PROVE  slot'[g].idx < nfds' /\ pfds'[slot'[g].idx].fd = g
        BY <2>1, <2>3, <2>4, <2>5, <3>1, PollFacts
    <3>2. ASSUME NEW i \in 0 .. nfds
          PROVE  slot'[pfds'[i].fd].idx = i
        BY <2>3, <2>4, <2>5, PollFacts
    <3> QED
        BY <2>1, <3>1, <3>2, PollFacts DEF IndexMatchesPfds
  <2> QED
    BY <2>2, <2>6 DEF PollInv
<1>3. CASE ~(slot[fd].idx < 0)
  <2> DEFINE i == slot[fd].idx
  <2>1. i \in 0 .. nfds - 1 /\ pfds[i].fd = fd
    BY <1>3, PollFacts
  <2>2. /\ nfds' = nfds
        /\ slot' = [slot EXCEPT ![fd] = [idx |-> i, ptr |-> p]]
        /\ pfds' = [j \in 0 .. nfds - 1 |-> IF j = i THEN entry ELSE pfds[j]]
    BY <1>3, PollFacts DEF ef_poll_associate, entry
  <2>3. PollTypeOK'
    BY <1>1, <2>1, <2>2, PollFacts DEF PollTypeOK
  <2>4. \A j \in 0 .. nfds - 1 : pfds'[j].fd = pfds[j].fd
    BY <1>1, <2>1, <2>2
  <2>5. \A g \in Fd : slot'[g].idx = slot[g].idx
    BY <2>2, PollFacts
  <2>6. IndexMatchesPfds'
    BY <2>2, <2>4, <2>5, PollFacts DEF IndexMatchesPfds
  <2> QED
    BY <2>3, <2>6 DEF PollInv
<1> QED
    BY <1>2, <1>3

\* The last entry moves into the hole and its owner's slot follows it.
LEMMA PollDissociateInv ==
    ASSUME PollInv, NEW fd \in Fd, ef_poll_dissociate(fd)
    PROVE  PollInv'
<1> DEFINE i == slot[fd].idx
           last == nfds - 1
           x == [slot EXCEPT ![fd].idx = -1]
<1>1. /\ nfds' = last
      /\ slot' = IF i < last THEN [x EXCEPT ![pfds[last].fd].idx = i] ELSE x
      /\ pfds' = [j \in 0 .. last - 1 |-> IF j = i THEN pfds[last] ELSE pfds[j]]
      /\ i >= 0
    BY DEF ef_poll_dissociate
<1>2. i \in 0 .. last /\ last \in Nat /\ pfds[i].fd = fd
    BY <1>1, PollFacts
<1>3. x \in [Fd -> [idx : Int, ptr : PollPtr \cup {-1}]]
    BY PollFacts
<1>4. /\ x[fd].idx = -1
      /\ \A g \in Fd : g # fd => x[g] = slot[g]
    BY PollFacts
<1> HIDE DEF x
<1>5. \A j \in 0 .. last : j # i => pfds[j].fd # fd
    BY <1>2, PollFacts
<1>6. PollTypeOK'
  <2>1. \A g \in Fd : [x EXCEPT ![g].idx = i] \in [Fd -> [idx : Int, ptr : PollPtr \cup {-1}]]
    BY <1>2, <1>3
  <2>2. pfds[last].fd \in Fd
    BY <1>2, PollFacts
  <2>3. slot' \in [Fd -> [idx : Int, ptr : PollPtr \cup {-1}]]
    BY <1>1, <1>3, <2>1, <2>2
  <2>4. pfds' \in [0 .. last - 1 -> PollFd]
    BY <1>1, <1>2, PollFacts
  <2> QED
    BY <1>1, <1>2, <2>3, <2>4 DEF PollTypeOK
<1>7. CASE i < last
  <2> DEFINE moved == pfds[last].fd
  <2>1. moved \in Fd /\ moved # fd /\ slot[moved].idx = last
    BY <1>2, <1>5, <1>7, PollFacts
  <2>2. /\ slot'[moved].idx = i
        /\ slot'[fd].idx = -1
        /\ \A g \in Fd \ {fd, moved} : slot'[g] = slot[g]
    BY <1>1, <1>3, <1>4, <1>7, <2>1
  <2>3. /\ pfds'[i] = pfds[last]
        /\ \A j \in 0 .. last - 1 : j # i => pfds'[j] = pfds[j]
    BY <1>1, <1>2, <1>7
  <2> HIDE DEF moved
  <2>4. ASSUME NEW g \in Fd, slot'[g].idx >= 0
        PROVE  slot'[g].idx < last /\ pfds'[slot'[g].idx].fd = g
    <3>1. CASE g = moved
        BY <1>2, <1>7, <2>1, <2>2, <2>3, <3>1 DEF moved
    <3>2. CASE g \in Fd \ {fd, moved}
      <4>1. slot'[g].idx \in 0 .. last - 1 /\ slot'[g].idx # i
        BY <1>2, <2>1, <2>2, <2>4, <3>2, PollFacts DEF moved
      <4> QED
        BY <2>2, <2>3, <2>4, <3>2, <4>1, PollFacts
    <3> QED
        BY <2>2, <2>4, <3>1, <3>2
  <2>5. ASSUME NEW j \in 0 .. last - 1
        PROVE  slot'[pfds'[j].fd].idx = j
    <3>1. CASE j = i
        BY <2>2, <2>3, <3>1 DEF moved
    <3>2. CASE j # i
      <4>1. pfds[j].fd \in Fd \ {fd, moved} /\ slot[pfds[j].fd].idx = j
        BY <1>2, <1>5, <2>1, <3>2, PollFacts
      <4> QED
        BY <2>2, <2>3, <3>2, <4>1
    <3> QED
        BY <3>1, <3>2
  <2>6. IndexMatchesPfds'
    BY <1>1, <2>4, <2>5 DEF IndexMatchesPfds
  <2> QED
    BY <1>6, <2>6 DEF PollInv
<1>8. CASE i = last
  <2>1. slot' = x /\ \A j \in 0 .. last - 1 : pfds'[j] = pfds[j]
    BY <1>1, <1>2, <1>8
  <2>2. ASSUME NEW g \in Fd, slot'[g].idx >= 0
        PROVE  slot'[g].idx < last /\ pfds'[slot'[g].idx].fd = g
    BY <1>2, <1>4, <1>8, <2>1, <2>2, PollFacts
  <2>3. ASSUME NEW j \in 0 .. last - 1
        PROVE  slot'[pfds'[j].fd].idx = j
    BY <1>2, <1>4, <1>5, <1>8, <2>1, PollFacts
  <2>4. IndexMatchesPfds'
    BY <1>1, <2>2, <2>3 DEF IndexMatchesPfds
  <2> QED
    BY <1>6, <2>4 DEF PollInv
<1> QED
    BY <1>2, <1>7, <1>8

\* Every operation of the poll object preserves its invariant.
LEMMA PollStepInv == PollInv /\ [PollNext]_poll_vars => PollInv'
<1> SUFFICES ASSUME PollInv, [PollNext]_poll_vars PROVE PollInv'
    OBVIOUS
<1>1. ASSUME NEW fd \in Fd, NEW events \in {{"IN"}, {"OUT"}}, NEW p \in PollPtr,
             ef_poll_associate(fd, events, p)
      PROVE  PollInv'
    BY <1>1, PollAssociateInv
<1>2. ASSUME NEW fd \in Fd, ef_poll_dissociate(fd) PROVE PollInv'
    BY <1>2, PollDissociateInv
<1>3. CASE ef_poll_wait
    BY <1>3 DEF ef_poll_wait, PollInv, PollTypeOK, IndexMatchesPfds
<1>4. CASE UNCHANGED poll_vars
    BY <1>4 DEF poll_vars, PollInv, PollTypeOK, IndexMatchesPfds
<1> QED
    BY <1>1, <1>2, <1>3, <1>4 DEF PollNext

\* Whatever the descriptors and however they come and go, slot and pfds
\* agree: a registered descriptor has exactly one slot and a slot a
\* registered owner.
THEOREM PollSafe == PollSpec => []PollInv
<1>1. ef_poll_create => PollInv
    BY PollCreateInv
<1>2. PollInv /\ [PollNext]_poll_vars => PollInv'
    BY PollStepInv
<1> QED
    BY <1>1, <1>2, PTL DEF PollSpec

\* What changes for a registration only shows in its own slot and slot.
LEMMA AssociateRefines ==
    ASSUME PollInv, PollInv', NEW fd \in Fd, NEW events \in {{"IN"}, {"OUT"}}, NEW p \in PollPtr,
           ef_poll_associate(fd, events, p)
    PROVE  PS!Associate(fd, [events |-> events, ptr |-> p])
<1> DEFINE i == IF slot[fd].idx < 0 THEN nfds ELSE slot[fd].idx
           entry == [fd |-> fd, events |-> events]
<1>1. /\ slot' = [slot EXCEPT ![fd] = [idx |-> i, ptr |-> p]]
      /\ pfds' = [j \in 0 .. nfds' - 1 |-> IF j = i THEN entry ELSE pfds[j]]
      /\ nfds' = (IF slot[fd].idx < 0 THEN nfds + 1 ELSE nfds)
      /\ evts' = evts
    BY DEF ef_poll_associate
<1>2. i \in Nat /\ i < nfds' /\ nfds <= nfds' /\ nfds' \in Nat
    BY <1>1, PollFacts
<1>3. \A g \in Fd : g # fd /\ slot[g].idx >= 0 =>
         slot[g].idx \in 0 .. nfds' - 1 /\ slot[g].idx # i
    BY <1>1, <1>2, PollFacts
<1>4. slot'[fd].idx = i /\ slot'[fd].ptr = p /\ pfds'[i].events = events
    BY <1>1, <1>2, PollFacts
<1>5. \A g \in Fd : g # fd => slot'[g] = slot[g]
    BY <1>1, PollFacts
<1>6. \A g \in Fd : g # fd /\ slot[g].idx >= 0 => pfds'[slot[g].idx] = pfds[slot[g].idx]
    BY <1>1, <1>2, <1>3
<1> HIDE DEF i
<1>7. Registered' = Registered \cup {fd}
    BY <1>2, <1>4, <1>5 DEF Registered
<1>8. Registrations' = [g \in Registered \cup {fd} |->
                          IF g = fd THEN [events |-> events, ptr |-> p] ELSE Registrations[g]]
  <2>1. ASSUME NEW g \in Registered \cup {fd}
        PROVE  [events |-> pfds'[slot'[g].idx].events, ptr |-> slot'[g].ptr]
               = IF g = fd THEN [events |-> events, ptr |-> p] ELSE Registrations[g]
    BY <1>4, <1>5, <1>6 DEF Registered, Registrations
  <2> QED
    BY <1>7, <2>1 DEF Registrations
<1>9. DOMAIN Registrations = Registered
    BY DEF Registrations
<1> QED
    BY <1>1, <1>8, <1>9 DEF PS!Associate

\* The others keep their registrations although one of them changes slots.
LEMMA DissociateRefines ==
    ASSUME PollInv, NEW fd \in Fd, ef_poll_dissociate(fd)
    PROVE  PS!Dissociate(fd)
<1> DEFINE i == slot[fd].idx
           last == nfds - 1
           x == [slot EXCEPT ![fd].idx = -1]
<1>1. /\ slot' = IF i < last THEN [x EXCEPT ![pfds[last].fd].idx = i] ELSE x
      /\ pfds' = [j \in 0 .. last - 1 |-> IF j = i THEN pfds[last] ELSE pfds[j]]
      /\ i >= 0
      /\ evts' = evts
    BY DEF ef_poll_dissociate
<1>2. i \in 0 .. last /\ last \in Nat
    BY <1>1, PollFacts
<1>3. x \in [Fd -> [idx : Int, ptr : PollPtr \cup {-1}]] /\ pfds[last].fd \in Fd
    BY <1>2, PollFacts
<1>4. x[fd].idx = -1 /\ \A g \in Fd : g # fd => x[g] = slot[g]
    BY PollFacts
<1>5. \A j \in 0 .. last : j # i => pfds[j].fd # fd
    BY <1>2, PollFacts
<1> HIDE DEF x
<1>6. slot'[fd].idx = -1
  <2>1. CASE i < last
    BY <1>1, <1>2, <1>3, <1>4, <1>5, <2>1
  <2>2. CASE ~(i < last)
    BY <1>1, <1>4, <2>2
  <2> QED
    BY <2>1, <2>2
<1>7. ASSUME NEW g \in Fd, g # fd
      PROVE  /\ slot'[g].idx >= 0 <=> slot[g].idx >= 0
             /\ slot'[g].ptr = slot[g].ptr
             /\ slot[g].idx >= 0 => pfds'[slot'[g].idx] = pfds[slot[g].idx]
  <2>1. CASE i < last /\ g = pfds[last].fd
    <3>1. slot'[g].idx = i /\ slot'[g].ptr = x[g].ptr
        BY <1>1, <1>3, <2>1
    <3>2. slot[g].idx = last /\ x[g] = slot[g]
        BY <1>2, <1>4, <1>7, <2>1, PollFacts
    <3> QED
        BY <1>1, <1>2, <2>1, <3>1, <3>2
  <2>2. CASE ~(i < last /\ g = pfds[last].fd)
    <3>1. slot'[g] = slot[g]
        BY <1>1, <1>3, <1>4, <1>7, <2>2
    <3>2. slot[g].idx >= 0 => slot[g].idx \in 0 .. last - 1 /\ slot[g].idx # i
        BY <1>2, <1>7, <2>2, PollFacts
    <3> QED
        BY <1>1, <3>1, <3>2
  <2> QED
    BY <2>1, <2>2
<1>8. Registered' = Registered \ {fd}
    BY <1>6, <1>7 DEF Registered
<1>9. Registrations' = [g \in Registered \ {fd} |-> Registrations[g]]
  <2>1. ASSUME NEW g \in Registered \ {fd}
        PROVE  [events |-> pfds'[slot'[g].idx].events, ptr |-> slot'[g].ptr]
               = Registrations[g]
    BY <1>7 DEF Registered, Registrations
  <2> QED
    BY <1>8, <2>1 DEF Registrations
<1>10. DOMAIN Registrations = Registered
    BY DEF Registrations
<1> QED
    BY <1>1, <1>9, <1>10 DEF PS!Dissociate

\* The loop over revents visits slots, and different slots have different
\* owners.
LEMMA ReportRefines ==
    ASSUME PollInv, NEW revents, NEW n \in 0 .. MaxEvents, NEW slots \in [1 .. n -> 0 .. nfds - 1],
           \A k \in 0 .. nfds - 1 : revents[k] \subseteq pfds[k].events \cup {"ERR", "HUP"},
           Reported(revents, slots), Report(revents, slots), UNCHANGED <<slot, pfds, nfds>>
    PROVE  PS!Wait
<1> DEFINE src == [k \in 1 .. n |-> pfds[slots[k]].fd]
<1>2. n \in Nat
    OBVIOUS
<1>3. \A k \in 1 .. n : slots[k] \in 0 .. nfds - 1
    OBVIOUS
<1>4. \A k \in 1 .. n : /\ src[k] \in Registered
                        /\ slot[src[k]].idx = slots[k]
    BY <1>3, PollFacts DEF Registered
<1>5. DOMAIN Registrations = Registered
    BY DEF Registrations
<1>6. src \in [1 .. n -> DOMAIN Registrations]
    BY <1>4, <1>5
<1>7. evts' = [k \in 1 .. n |-> [ptr |-> slot[src[k]].ptr, events |-> revents[slots[k]]]]
    BY DEF Report
<1>8. \A j, k \in 1 .. n : src[j] = src[k] => j = k
  <2> SUFFICES ASSUME NEW j \in 1 .. n, NEW k \in 1 .. n, src[j] = src[k] PROVE j = k
    OBVIOUS
  <2>1. slots[j] = slots[k]
    BY <1>4
  <2>2. \A a, b \in 1 .. n : a < b => slots[a] < slots[b]
    BY DEF Reported
  <2>3. slots[j] \in Int /\ j \in Int /\ k \in Int
    BY <1>3, PollFacts
  <2> QED
    BY <2>1, <2>2, <2>3
<1>9. ASSUME NEW k \in 1 .. n
      PROVE  /\ evts'[k].ptr = Registrations[src[k]].ptr
             /\ evts'[k].events # {}
             /\ evts'[k].events \subseteq Registrations[src[k]].events \cup {"ERR", "HUP"}
  <2>1. /\ Registrations[src[k]].ptr = slot[src[k]].ptr
        /\ Registrations[src[k]].events = pfds[slots[k]].events
    BY <1>4 DEF Registrations
  <2>2. evts'[k].ptr = slot[src[k]].ptr /\ evts'[k].events = revents[slots[k]]
    BY <1>7
  <2>3. revents[slots[k]] # {}
    BY DEF Reported
  <2>4. revents[slots[k]] \subseteq pfds[slots[k]].events \cup {"ERR", "HUP"}
    BY <1>3
  <2> QED
    BY <2>1, <2>2, <2>3, <2>4
<1>10. Registrations' = Registrations
    BY DEF Registrations, Registered
<1>11. DOMAIN evts' = 1 .. n
    BY <1>7
<1> HIDE DEF src
<1> QED
    BY <1>6, <1>8, <1>9, <1>10, <1>11 DEF PS!Wait

LEMMA WaitRefines == ASSUME PollInv, ef_poll_wait PROVE PS!Wait
<1>1. PICK revents \in Revents, n \in 0 .. MaxEvents :
         \E slots \in [1 .. n -> 0 .. nfds - 1] :
            Reported(revents, slots) /\ Report(revents, slots)
    BY DEF ef_poll_wait
<1>2. PICK slots \in [1 .. n -> 0 .. nfds - 1] :
         Reported(revents, slots) /\ Report(revents, slots)
    BY <1>1
<1>3. \A k \in 0 .. nfds - 1 : revents[k] \subseteq pfds[k].events \cup {"ERR", "HUP"}
    BY <1>1 DEF Revents
<1> QED
    BY <1>1, <1>2, <1>3, ReportRefines DEF ef_poll_wait

\* poll.c implements the abstract set of registrations, for any number of
\* descriptors, events and pointers.
THEOREM PollRefines == PollSpec => ImplementsPollSet
<1>1. ef_poll_create => PS!Init
    BY DEF ef_poll_create, PS!Init, Registrations, Registered
<1>2. ASSUME PollInv, PollInv', [PollNext]_poll_vars
      PROVE  [PS!Next]_(PS!vars)
  <2>1. ASSUME NEW fd \in Fd, NEW events \in {{"IN"}, {"OUT"}}, NEW p \in PollPtr,
               ef_poll_associate(fd, events, p)
        PROVE  PS!Next
    <3>1. [events |-> events, ptr |-> p] \in PS!Entry
        BY DEF PS!Entry
    <3> QED
        BY <1>2, <2>1, <3>1, AssociateRefines DEF PS!Next
  <2>2. ASSUME NEW fd \in Fd, ef_poll_dissociate(fd) PROVE PS!Next
    BY <1>2, <2>2, DissociateRefines DEF PS!Next
  <2>3. CASE ef_poll_wait
    BY <1>2, <2>3, WaitRefines DEF PS!Next
  <2>4. CASE UNCHANGED poll_vars
    BY <2>4 DEF poll_vars, PS!vars, Registrations, Registered
  <2> QED
    BY <1>2, <2>1, <2>2, <2>3, <2>4 DEF PollNext
<1> QED
    BY <1>1, <1>2, PollSafe, PTL DEF PollSpec, ImplementsPollSet, PS!Spec
-----------------------------------------------------------------------------
(* Capacities *)

\* Slots of different descriptors below the capacity are at most as many.
LEMMA SlotsFit ==
    ASSUME NEW n \in Nat, NEW room \in Nat, NEW of \in [0 .. n - 1 -> 0 .. room - 1],
           \A i, j \in 0 .. n - 1 : of[i] = of[j] => i = j
    PROVE  n <= room
<1>1. /\ IsFiniteSet(0 .. n - 1)
      /\ Cardinality(0 .. n - 1) = IF 0 > n - 1 THEN 0 ELSE n - 1 - 0 + 1
    BY FS_Interval
<1>2. /\ IsFiniteSet(0 .. room - 1)
      /\ Cardinality(0 .. room - 1) = IF 0 > room - 1 THEN 0 ELSE room - 1 - 0 + 1
    BY FS_Interval
<1>3. Cardinality(0 .. n - 1) = n /\ Cardinality(0 .. room - 1) = room
    BY <1>1, <1>2
<1> SUFFICES ASSUME room < n PROVE FALSE
    OBVIOUS
<1> DEFINE S == 0 .. n - 1
           T == 0 .. room - 1
<1> HIDE DEF S, T
<1>4. of \in [S -> T] /\ IsFiniteSet(S) /\ IsFiniteSet(T) /\ Cardinality(T) < Cardinality(S)
    BY <1>1, <1>2, <1>3 DEF S, T
<1>5. \E i, j \in S : i # j /\ of[i] = of[j]
    BY <1>4, FS_PigeonHole
<1> QED
    BY <1>5 DEF S
-----------------------------------------------------------------------------
(* epollet.c *)

\* Every registered descriptor is below the capacity.
CapInv == cap \in Nat \ {0} /\ \A fd \in Known(index) : fd < cap

\* A step lets descriptors go, or makes room for the one it takes in.
LEMMA KnownGrows ==
    ASSUME ArrayInv, [Next]_vars
    PROVE  \/ Known(index') \subseteq Known(index) /\ cap' = cap
           \/ \E fd \in Fd : /\ Known(index') = Known(index) \cup {fd}
                             /\ cap' = Expanded(cap, fd)
<1> DEFINE Goal == \/ Known(index') \subseteq Known(index) /\ cap' = cap
                   \/ \E fd \in Fd : /\ Known(index') = Known(index) \cup {fd}
                                     /\ cap' = Expanded(cap, fd)
<1> HIDE DEF Goal
<1>1. ASSUME NEW fd \in Fd, Operation(fd)
      PROVE  Goal
  <2>1. ASSUME NEW events \in {{"IN"}, {"OUT"}}, NEW p \in Ptr, ef_epoll_associate(fd, events, p)
        PROVE  Goal
    <3>1. CASE Reassociate(fd, events, p)
      <4>1. ItemBecomes(fd, [items[index[fd]] EXCEPT !.waiting = events, !.ptr = p])
        BY <3>1, ReassociateItem
      <4>2. Known(index') = Known(index)
        BY <4>1 DEF ItemBecomes
      <4>3. cap' = cap
        BY <3>1 DEF Reassociate
      <4> QED
        BY <4>2, <4>3 DEF Goal
    <3>2. CASE Associate(fd, events, p)
      <4>1. Known(index') = Known(index) \cup {fd}
        BY <2>1, <3>2, AssociateInv DEF ef_epoll_associate
      <4>2. cap' = Expanded(cap, fd)
        BY <3>2 DEF Associate, ef_epoll_expand
      <4> QED
        BY <4>1, <4>2 DEF Goal
    <3> QED
        BY <2>1, <3>1, <3>2 DEF ef_epoll_associate
  <2>2. CASE ef_epoll_dissociate(fd)
    <3>1. ItemBecomes(fd, [items[index[fd]] EXCEPT !.waiting = {}])
        BY <2>2, DissociateItem
    <3>2. Known(index') = Known(index)
        BY <3>1 DEF ItemBecomes
    <3> QED
        BY <2>2, <3>2 DEF Goal, ef_epoll_dissociate
  <2>3. CASE ef_epoll_dissociate_onclose(fd)
    <3>1. Known(index') = Known(index) \ {fd}
        BY <2>3, RemoveItem
    <3> QED
        BY <2>3, <3>1 DEF Goal, ef_epoll_dissociate_onclose
  <2>4. ASSUME NEW events, ef_epoll_unset(fd, events)
        PROVE  Goal
    <3>1. ItemBecomes(fd, [items[index[fd]] EXCEPT !.fired = @ \ events])
        BY <2>4, UnsetItem
    <3>2. Known(index') = Known(index)
        BY <3>1 DEF ItemBecomes
    <3> QED
        BY <2>4, <3>2 DEF Goal, ef_epoll_unset
  <2> QED
    BY <1>1, <2>1, <2>2, <2>3, <2>4 DEF Operation, CallOf
<1>2. CASE PollKernel
    BY <1>2 DEF PollKernel, array_vars, Goal
<1>3. ASSUME NEW fd \in Fd, NEW events \in EventSets, ApplyEvent(fd, events)
      PROVE  Goal
  <2>1. ItemBecomes(fd, [items[index[fd]] EXCEPT !.fired = @ \cup events])
    BY <1>3, ApplyEventItem, EventAssumption
  <2>2. Known(index') = Known(index)
    BY <2>1 DEF ItemBecomes
  <2> QED
    BY <1>3, <2>2 DEF Goal, ApplyEvent
<1>4. CASE UNCHANGED vars
    BY <1>4 DEF vars, array_vars, Goal
<1> QED
    BY <1>1, <1>2, <1>3, <1>4 DEF Next, Goal

\* Growth keeps every registered descriptor below the capacity.
LEMMA CapStep ==
    ASSUME ArrayInv, CapInv, [Next]_vars
    PROVE  CapInv'
<1>1. CASE Known(index') \subseteq Known(index) /\ cap' = cap
    BY <1>1 DEF CapInv
<1>2. ASSUME NEW fd \in Fd, Known(index') = Known(index) \cup {fd}, cap' = Expanded(cap, fd)
      PROVE  CapInv'
  <2>1. cap \in Nat \ {0} /\ fd \in Nat /\ Known(index) \subseteq Int
    BY BoundAssumption DEF CapInv, Fd, Known
  <2>2. cap' \in Nat /\ fd < cap' /\ cap <= cap'
    BY <1>2, <2>1, ExpandedFits
  <2>3. \A g \in Known(index') : g < cap'
    BY <1>2, <2>1, <2>2 DEF CapInv
  <2> QED
    BY <2>1, <2>2, <2>3 DEF CapInv
<1> QED
    BY <1>1, <1>2, KnownGrows

\* The items fit because their descriptors differ and are below the capacity.
LEMMA CapFits == ArrayInv /\ CapInv => WithinCapacity
<1> SUFFICES ASSUME ArrayInv, CapInv PROVE WithinCapacity
    OBVIOUS
<1>1. /\ Matches(index, items, used) /\ used \in Nat /\ fill \in Nat /\ fill <= used
    BY ArrayFacts
<1>2. cap \in Nat /\ \A fd \in Fd : index[fd] >= 0 => fd < cap
    BY DEF CapInv, Known
<1> DEFINE of == [i \in 0 .. used - 1 |-> items[i].fd]
<1>3. ASSUME NEW i \in 0 .. used - 1
      PROVE  items[i].fd \in 0 .. cap - 1 /\ index[items[i].fd] = i
  <2>1. items[i].fd \in Fd /\ index[items[i].fd] = i
    BY <1>1, ItemFacts
  <2> QED
    BY <1>1, <1>2, <2>1, BoundAssumption DEF Fd
<1>4. of \in [0 .. used - 1 -> 0 .. cap - 1]
    BY <1>3
<1>5. \A i, j \in 0 .. used - 1 : of[i] = of[j] => i = j
    BY <1>3
<1> HIDE DEF of
<1>6. used <= cap
    BY <1>1, <1>2, <1>4, <1>5, SlotsFit
<1> QED
    BY <1>1, <1>2, <1>6 DEF WithinCapacity
-----------------------------------------------------------------------------
(* poll.c *)

\* Every registered descriptor is below the capacity.
PollCapInv == pcap \in Nat \ {0} /\ \A fd \in Registered : fd < pcap

\* Growth keeps every registered descriptor below the capacity.
LEMMA PollCapStep ==
    ASSUME PollInv, PollCapInv, [PollNext]_poll_vars
    PROVE  PollCapInv'
<1>1. ASSUME NEW fd \in Fd, NEW events \in {{"IN"}, {"OUT"}}, NEW p \in PollPtr,
             ef_poll_associate(fd, events, p)
      PROVE  PollCapInv'
  <2>1. pcap \in Nat \ {0} /\ fd \in Nat /\ Fd \subseteq Nat
    BY BoundAssumption DEF PollCapInv, Fd
  <2>2. pcap' \in Nat /\ fd < pcap' /\ pcap <= pcap'
    BY <1>1, <2>1, ExpandedFits DEF ef_poll_associate, ef_poll_expand
  <2>3. \A g \in Fd : g # fd => slot'[g] = slot[g]
    BY <1>1, PollFacts DEF ef_poll_associate
  <2>4. Registered' \subseteq Registered \cup {fd}
    BY <2>3 DEF Registered
  <2>5. Registered \subseteq Fd
    BY DEF Registered
  <2> QED
    BY <2>1, <2>2, <2>4, <2>5 DEF PollCapInv
<1>2. ASSUME NEW fd \in Fd, ef_poll_dissociate(fd)
      PROVE  PollCapInv'
  <2>1. PS!Dissociate(fd)
    BY <1>2, DissociateRefines
  <2>2. DOMAIN Registrations' = DOMAIN Registrations \ {fd}
    BY <2>1 DEF PS!Dissociate
  <2>3. Registered' \subseteq Registered
    BY <2>2 DEF Registrations
  <2>4. pcap' = pcap
    BY <1>2 DEF ef_poll_dissociate
  <2> QED
    BY <2>3, <2>4 DEF PollCapInv
<1>3. CASE ef_poll_wait
    BY <1>3 DEF ef_poll_wait, PollCapInv, Registered
<1>4. CASE UNCHANGED poll_vars
    BY <1>4 DEF poll_vars, PollCapInv, Registered
<1> QED
    BY <1>1, <1>2, <1>3, <1>4 DEF PollNext

\* The slots fit because their descriptors differ and are below the capacity.
LEMMA PollCapFits == PollInv /\ PollCapInv => PollWithinCapacity
<1> SUFFICES ASSUME PollInv, PollCapInv PROVE PollWithinCapacity
    OBVIOUS
<1>1. pcap \in Nat /\ \A fd \in Fd : slot[fd].idx >= 0 => fd < pcap
    BY DEF PollCapInv, Registered
<1> DEFINE of == [i \in 0 .. nfds - 1 |-> pfds[i].fd]
<1>2. ASSUME NEW i \in 0 .. nfds - 1
      PROVE  pfds[i].fd \in 0 .. pcap - 1 /\ slot[pfds[i].fd].idx = i
    BY <1>1, PollFacts, BoundAssumption DEF Fd
<1>3. of \in [0 .. nfds - 1 -> 0 .. pcap - 1]
    BY <1>2
<1>4. \A i, j \in 0 .. nfds - 1 : of[i] = of[j] => i = j
    BY <1>2
<1> HIDE DEF of
<1>5. nfds \in Nat
    BY PollFacts
<1>6. nfds <= pcap
    BY <1>1, <1>3, <1>4, <1>5, SlotsFit
<1> QED
    BY <1>1, <1>6 DEF PollWithinCapacity
-----------------------------------------------------------------------------
\* Whichever object the program is linked with, whatever the number of
\* descriptors and the capacity it begins with: the slots and the descriptors
\* that ef_epoll_expand and its sibling in poll.c make room for are within the
\* arrays, so no operation touches memory beyond them.
THEOREM ArraysNeverOverrun == ObjectsSpec => []ArraysFit
<1> DEFINE Inv == ArrayInv /\ CapInv /\ PollInv /\ PollCapInv
<1>1. ef_create_poll => Inv
  <2> SUFFICES ASSUME ef_create_poll PROVE Inv
    OBVIOUS
  <2>1. ArrayInv /\ PollInv
    BY CreateInv, PollCreateInv DEF ef_create_poll
  <2>2. CapInv
    BY BoundAssumption DEF ef_create_poll, ef_epoll_create, CapInv, Known
  <2>3. PollCapInv
    BY BoundAssumption DEF ef_create_poll, ef_poll_create, PollCapInv, Registered
  <2> QED
    BY <2>1, <2>2, <2>3
<1>2. Inv /\ [Step]_objects => Inv'
  <2> SUFFICES ASSUME Inv, [Step]_objects PROVE Inv'
    OBVIOUS
  <2>1. [Next]_vars /\ [PollNext]_poll_vars
    BY DEF Step, objects
  <2> QED
    BY <2>1, NextInv, CapStep, PollStepInv, PollCapStep
<1>3. Inv => ArraysFit
    BY CapFits, PollCapFits DEF ArraysFit
<1> HIDE DEF Inv
<1> QED
    BY <1>1, <1>2, <1>3, PTL DEF ObjectsSpec
-----------------------------------------------------------------------------
(* The wrapped calls *)

-----------------------------------------------------------------------------
(* The inductive invariant *)

\* The owner of fd is inside of a wrapped call on it.
Waiting(fd) == /\ owner[fd] \in Routine
               /\ call[owner[fd]].op # "none"
               /\ call[owner[fd]].fd = fd

\* What an object should watch for on fd, and for whom.
Wanted(fd) == IF fd = 0 THEN {"IN"}
              ELSE IF Waiting(fd) THEN Awaited(call[owner[fd]].op) ELSE {}
Holder(fd) == IF fd = 0 THEN Listener ELSE owner[fd]

\* Where the loop and the routines are; one of them runs.
Control ==
    /\ linked \in {"epollet", "poll", "port"}
    /\ turn \in {"listen", "wait", "collect", "events", "accept", "accepted"}
    /\ at \in [Routine -> {"none", "code", "try", "parked"}]
    /\ call \in [Routine -> [op : {"none", "read", "write", "connect"}, fd : Fd]]
    /\ \A r \in Routine : /\ at[r] \in {"parked", "try"} <=> call[r].op # "none"
                          /\ call[r].op = "none" => call[r] = NoCall
                          /\ at[r] = "try" => call[r].op # "connect"
                          /\ at[r] \in {"code", "try"} => turn = "events"
    /\ robbed \subseteq {r \in Routine : call[r].op = "read"}
    /\ \A r, s \in Routine : at[r] \in {"code", "try"} /\ at[s] \in {"code", "try"} => r = s
    /\ todo # {} => turn = "collect"

\* Who owns which descriptor, and what the kernel knows of it.
Owners ==
    /\ owner \in [Fd -> Routine \cup {"free", "listener", "queued"}]
    /\ \A fd \in Fd : owner[fd] = "listener" <=> fd = 0
    /\ \A r \in Routine : call[r].op # "none" => owner[call[r].fd] = r
    /\ status \in [Fd -> SUBSET {"IN", "OUT", "HUP"}]
    /\ \A fd \in Fd : owner[fd] = "free" => status[fd] = {}
    /\ backlog \in 0 .. MaxBacklog /\ backlog <= Cardinality(Free)
    /\ status[0] \subseteq {"IN"} /\ (backlog = 0 => status[0] = {})
    /\ edge \subseteq epset

\* The item of fd is for the routine that owns it and what that waits for;
\* what fd is ready for has fired, unless epoll has yet to report it.
ItemKept(fd) ==
    LET it == items[index[fd]]
    IN  /\ fd = 0 \/ owner[fd] \in Routine
        /\ it.ptr = Holder(fd) /\ it.waiting = Wanted(fd)
        /\ it.fired \subseteq {"IN", "OUT", "HUP"}
        /\ fd \in edge \cup todo \/ status[fd] \subseteq it.fired

\* epollet.c has an item for every descriptor that is waited for.
EpolletPart ==
    /\ ArrayInv /\ FilledAreReady
    /\ epset = Known(index)
    /\ \A fd \in Known(index) : ItemKept(fd)
    /\ linked = "epollet" => \A fd \in Fd : Waiting(fd) \/ (fd = 0 /\ turn # "listen")
                                               => fd \in Known(index)
    /\ linked # "epollet" => Known(index) = {}

Entry(fd) == [events |-> Wanted(fd), ptr |-> Holder(fd)]

\* poll.c has a registration for exactly these.
PollPart ==
    /\ PollInv
    /\ \A fd \in Registered : (fd = 0 \/ Waiting(fd)) /\ Registrations[fd] = Entry(fd)
    /\ linked = "poll" => \A fd \in Fd : Waiting(fd) \/ (fd = 0 /\ turn # "listen")
                                            => fd \in Registered
    /\ linked # "poll" => Registered = {}

\* Event i is a hangup epollet.c hands to a routine, or comes after one for the
\* same routine: who it finds there is anybody's guess.
Tainted(i) == linked = "epollet" /\ evts[i].ptr \in Routine /\ AfterHangup(i)

\* The other events of this round that are not handled yet.
Pending == {i \in cur .. Len(evts) : ~ Tainted(i)}

IsPending(fd) == \E i \in Pending : about[i] = fd

\* port.c has an association for them, or their event is handed out; a call
\* that is made again finds what was reported.  Or the data went away.
PortPart ==
    /\ DOMAIN assoc \subseteq Fd
    /\ \A fd \in DOMAIN assoc : /\ fd = 0 \/ (Waiting(fd) /\ at[owner[fd]] = "parked")
                                /\ assoc[fd] = Entry(fd)
                                /\ ~ IsPending(fd)
    /\ linked = "port" =>
          /\ \A fd \in Fd : \/ (Waiting(fd) /\ at[owner[fd]] = "parked")
                            \/ (fd = 0 /\ turn \in {"wait", "collect", "events"})
                            => fd \in DOMAIN assoc \/ IsPending(fd) \/ owner[fd] \in robbed
          /\ \A r \in Routine : at[r] = "try" =>
                status[call[r].fd] \cap (Awaited(call[r].op) \cup {"HUP"}) # {} \/ r \in robbed
    /\ linked # "port" => DOMAIN assoc = {}

\* Every pending event is for the one that waits on its descriptor.
EventKept(i) ==
    /\ evts[i].ptr = Holder(about[i])
    /\ about[i] = 0 \/ (Waiting(about[i]) /\ at[owner[about[i]]] = "parked")
    /\ evts[i].events \cap (Wanted(about[i]) \cup Always) # {}
    /\ linked = "port" =>
          /\ evts[i].events \subseteq Wanted(about[i]) \cup Always
          /\ evts[i].events \subseteq status[about[i]] \/ owner[about[i]] \in robbed
    /\ turn \in {"accept", "accepted"} => about[i] # 0

EventsPart ==
    /\ cur \in Nat /\ cur >= 1
    /\ Len(evts) \in Nat /\ Len(about) = Len(evts)
    /\ about \in [1 .. Len(evts) -> Fd]
    /\ turn \in {"listen", "wait", "collect"} => Len(evts) = 0 /\ cur = 1
    /\ \A i \in Pending : EventKept(i)
    /\ \A i, j \in Pending : about[i] = about[j] => i = j

\* The inductive invariant of the wrapped calls.
CallsInv == Control /\ Owners /\ EpolletPart /\ PollPart /\ PortPart /\ EventsPart
-----------------------------------------------------------------------------
(* What it implies *)

\* A call that waits has its registration, and the listener has one.
LEMMA WaitingKnown ==
    ASSUME Control, Owners, NEW r \in Routine, at[r] \in {"parked", "try"}
    PROVE  /\ call[r].fd \in Fd /\ call[r].fd # 0 /\ Waiting(call[r].fd)
           /\ Wanted(call[r].fd) = Awaited(call[r].op) /\ Holder(call[r].fd) = r
  BY NameAssumption DEF Control, Owners, Waiting, Wanted, Holder

\* An item whose owner waits is filled if fd is ready and epoll has said so.
LEMMA SeenFilled ==
    ASSUME EpolletPart, NEW fd \in Known(index), Wanted(fd) # {}
    PROVE  Seen(fd, Wanted(fd))
<1>1. /\ index[fd] \in 0 .. used - 1 /\ items[index[fd]].fd = fd /\ fd \in epset /\ fill \in Nat
    BY KnownItem, ArrayFacts DEF EpolletPart, Known
<1>2. ItemKept(fd)
    BY DEF EpolletPart
<1>3. index[fd] < fill \/ ~ Ready(items[index[fd]])
    BY <1>1, <1>2 DEF EpolletPart, FilledAreReady, ItemKept
<1> QED
    BY <1>2, <1>3 DEF Seen, ItemKept, Ready

\* The watching object has been asked for exactly what is waited for.
LEMMA KeptWatched ==
    ASSUME CallsInv, NEW fd \in Fd,
           \/ linked = "epollet" /\ fd \in Known(index)
           \/ linked = "poll" /\ fd \in Registered
           \/ linked = "port" /\ fd \in DOMAIN assoc
    PROVE  Watched(fd, Wanted(fd), Holder(fd))
<1>1. CASE linked = "epollet"
    BY <1>1 DEF Watched, CallsInv, EpolletPart, ItemKept, Known
<1>2. CASE linked = "poll"
    BY <1>2 DEF Watched, CallsInv, PollPart, Registrations, Registered, Entry
<1>3. CASE linked = "port"
    BY <1>3 DEF Watched, CallsInv, PortPart, Entry
<1> QED
    BY <1>1, <1>2, <1>3

\* No wake-up is lost but to data that went away: the registration, the item or
\* the event is where the invariant says.
LEMMA InvWakesUp == CallsInv => NoOtherLostWakeup
<1> SUFFICES ASSUME CallsInv PROVE NoOtherLostWakeup
    OBVIOUS
<1>0. linked \in {"epollet", "poll", "port"}
    BY DEF CallsInv, Control
<1>1. ASSUME NEW fd \in Fd, Wanted(fd) # {},
             \/ Waiting(fd) /\ at[owner[fd]] = "parked"
             \/ fd = 0 /\ turn \in {"wait", "collect", "events"}
      PROVE  WillWake(fd, Wanted(fd), Holder(fd)) \/ (linked = "port" /\ owner[fd] \in robbed)
  <2> USE DEF WillWake
  <2>1. CASE linked = "epollet"
    <3>1. fd \in Known(index)
      BY <1>1, <2>1 DEF CallsInv, EpolletPart
    <3> QED
      BY <1>1, <2>1, <3>1, SeenFilled, KeptWatched DEF CallsInv
  <2>2. CASE linked = "poll"
    <3>1. fd \in Registered
      BY <1>1, <2>2 DEF CallsInv, PollPart
    <3> QED
      BY <2>2, <3>1, KeptWatched DEF Seen
  <2>3. CASE linked = "port"
    <3>1. CASE fd \in DOMAIN assoc
      BY <2>3, <3>1, KeptWatched DEF Seen
    <3>2. CASE IsPending(fd)
      BY <3>2 DEF Handed, IsPending, Pending, CallsInv, EventsPart, EventKept
    <3> QED
      BY <1>1, <2>3, <3>1, <3>2 DEF CallsInv, PortPart
  <2> QED
    BY <1>0, <2>1, <2>2, <2>3
<1>2. ASSUME NEW r \in Routine, at[r] = "parked"
      PROVE  \/ WillWake(call[r].fd, Awaited(call[r].op), r)
             \/ linked = "port" /\ r \in robbed
  <2>1. /\ call[r].fd \in Fd /\ Waiting(call[r].fd) /\ owner[call[r].fd] = r
        /\ Wanted(call[r].fd) = Awaited(call[r].op) /\ Holder(call[r].fd) = r
    BY <1>2, WaitingKnown DEF CallsInv, Holder
  <2>2. Awaited(call[r].op) # {}
    BY DEF Awaited
  <2> QED
    BY <1>1, <1>2, <2>1, <2>2
<1>3. ASSUME turn \in {"wait", "collect", "events"}
      PROVE  WillWake(0, {"IN"}, Listener)
  <2>1. 0 \in Fd /\ Wanted(0) = {"IN"} /\ Holder(0) = Listener
    BY BoundAssumption DEF Fd, Wanted, Holder
  <2>2. owner[0] \notin robbed
    BY <2>1, NameAssumption DEF CallsInv, Control, Owners
  <2> QED
    BY <1>1, <1>3, <2>1, <2>2
<1> QED
    BY <1>2, <1>3 DEF NoOtherLostWakeup

\* A pending event is for the routine that waits on its descriptor.
LEMMA InvOwnEvents == CallsInv => NoOtherForeignEvent
<1> SUFFICES ASSUME CallsInv, turn = "events", NEW i \in cur .. Len(evts), evts[i].ptr # Listener,
                    ~ (linked = "epollet" /\ AfterHangup(i))
             PROVE  Own(i)
    BY DEF NoOtherForeignEvent
<1>1. EventKept(i)
    BY DEF CallsInv, EventsPart, Pending, Tainted
<1>2. about[i] # 0 /\ evts[i].ptr = owner[about[i]]
    BY <1>1 DEF EventKept, Holder
<1>3. Waiting(about[i]) /\ at[owner[about[i]]] = "parked"
    BY <1>1, <1>2 DEF EventKept
<1> QED
    BY <1>1, <1>2, <1>3 DEF EventKept, Waiting, Wanted, Own

\* The invariant holds what the type invariant says.
LEMMA InvTypeOK == CallsInv => CallsTypeOK
<1> SUFFICES ASSUME CallsInv PROVE CallsTypeOK
    OBVIOUS
<1>1. \A r \in Routine : at[r] \in {"parked", "try"} <=> call[r] # NoCall
    BY DEF CallsInv, Control, NoCall
<1> QED
    BY <1>1 DEF CallsTypeOK, CallsInv, Control, Owners, EventsPart
-----------------------------------------------------------------------------
\* Descriptors are bounded, the free ones too.
LEMMA FdFinite == IsFiniteSet(Fd)
    BY FS_Interval, BoundAssumption DEF Fd

\* The free descriptors can be counted.
LEMMA FreeFinite == IsFiniteSet(Free) /\ Cardinality(Free) \in Nat
<1>1. Free \subseteq Fd
    BY DEF Free
<1> QED
    BY <1>1, FdFinite, FS_Subset, FS_CardinalityType

\* Nothing is known, queued or waited for at the start.
LEMMA InitInv == CallsInit => CallsInv
<1> SUFFICES ASSUME CallsInit PROVE CallsInv
    OBVIOUS
<1> USE DEF CallsInit
<1>0. 0 \in Fd
    BY BoundAssumption DEF Fd
<1>1. Control
    BY <1>0, LinkedAssumption DEF Control, NoCall, ef_epoll_create
<1>2. Owners
    BY <1>0, FreeFinite, NameAssumption, BacklogAssumption DEF Owners, NoCall, ef_epoll_create
<1>3. ASSUME NEW fd \in Fd
      PROVE  ~ Waiting(fd)
    BY NameAssumption DEF Waiting, NoCall
<1>4. EpolletPart
  <2>1. ArrayInv
    BY CreateInv
  <2>2. FilledAreReady
    BY DEF ef_epoll_create, FilledAreReady
  <2>3. Known(index) = {} /\ epset = {}
    BY DEF ef_epoll_create, Known
  <2> QED
    BY <1>3, <2>1, <2>2, <2>3 DEF EpolletPart
<1>5. PollPart
  <2>1. PollInv
    BY PollCreateInv
  <2>2. Registered = {}
    BY DEF ef_poll_create, Registered
  <2> QED
    BY <1>3, <2>1, <2>2 DEF PollPart
<1>6. PortPart
    BY <1>3 DEF PortPart
<1>7. EventsPart
    BY DEF EventsPart, ef_poll_create, Pending
<1> QED
    BY <1>1, <1>2, <1>4, <1>5, <1>6, <1>7 DEF CallsInv
-----------------------------------------------------------------------------
(* What a step leaves alone.  A step touches one descriptor; for the others
   it is enough that those who wait on them go on waiting. *)

\* The owner of g waits, or not, as before.
Same(g) == /\ owner'[g] = owner[g]
           /\ Waiting(g)' <=> Waiting(g)
           /\ Waiting(g) => /\ call'[owner[g]] = call[owner[g]]
                            /\ at'[owner[g]] = at[owner[g]]
                            /\ owner[g] \in robbed => owner[g] \in robbed'

\* What an object should say of such a descriptor stays as it is.
LEMMA SameEntry ==
    ASSUME NEW g, Same(g)
    PROVE  /\ Wanted(g)' = Wanted(g) /\ Holder(g)' = Holder(g) /\ Entry(g)' = Entry(g)
           /\ owner'[g] = owner[g] /\ (Waiting(g)' <=> Waiting(g))
           /\ (Waiting(g) /\ at[owner[g]] = "parked")' <=> (Waiting(g) /\ at[owner[g]] = "parked")
           /\ Waiting(g) /\ owner[g] \in robbed => owner'[g] \in robbed'
<1>1. Wanted(g)' = Wanted(g) /\ Holder(g)' = Holder(g)
    BY DEF Same, Wanted, Holder
<1> QED
    BY <1>1 DEF Same, Entry

\* A routine that runs waits on nothing else.
LEMMA OthersSame ==
    ASSUME NEW r, NEW fd \in Fd,
           \A g \in Fd \ {fd} : owner'[g] = owner[g],
           \A q \in Routine \ {r} : at'[q] = at[q] /\ call'[q] = call[q],
           robbed \ {r} \subseteq robbed',
           call[r].op = "none" \/ call[r].fd = fd,
           call'[r].op = "none" \/ call'[r].fd = fd
    PROVE  \A g \in Fd \ {fd} : Same(g)
<1> SUFFICES ASSUME NEW g \in Fd \ {fd} PROVE Same(g)
    OBVIOUS
<1>1. CASE owner[g] = r
    BY <1>1 DEF Same, Waiting
<1>2. CASE owner[g] # r
    BY <1>2 DEF Same, Waiting
<1> QED
    BY <1>1, <1>2

\* Nothing waits differently when no routine moves.
LEMMA AllSame ==
    UNCHANGED <<owner, at, call>> /\ robbed \subseteq robbed' => \A g \in Fd : Same(g)
    BY DEF Same, Waiting

\* epollet.c: a call touched the item of fd only.
LEMMA EpolletFrame ==
    ASSUME CallsInv, linked' = linked, linked = "epollet",
           ArrayInv', FilledAreReady', epset' = Known(index'), NEW fd \in Fd,
           Known(index') \ {fd} = Known(index) \ {fd},
           \A g \in Known(index) \ {fd} :
              /\ items'[index'[g]] = items[index[g]]
              /\ \/ g \in edge'
                 \/ status'[g] \subseteq status[g] /\ (g \in edge \cup todo => g \in edge' \cup todo'),
           \A g \in Fd \ {fd} : Same(g),
           fd \in Known(index') => ItemKept(fd)',
           Waiting(fd)' \/ (fd = 0 /\ turn' # "listen") => fd \in Known(index'),
           fd = 0 \/ turn' = "listen" \/ turn # "listen"
    PROVE  EpolletPart'
<1>1. ASSUME NEW g \in Known(index'), g # fd
      PROVE  ItemKept(g)'
  <2>1. g \in Known(index) /\ g \in Fd /\ Same(g)
    BY <1>1 DEF Known
  <2>2. ItemKept(g)
    BY <2>1 DEF CallsInv, EpolletPart
  <2>3. Wanted(g)' = Wanted(g) /\ Holder(g)' = Holder(g) /\ owner'[g] = owner[g]
    BY <2>1, SameEntry
  <2>4. items'[index'[g]] = items[index[g]]
    BY <1>1, <2>1
  <2>5. g \in edge' \cup todo' \/ status'[g] \subseteq items[index[g]].fired
    BY <1>1, <2>1, <2>2 DEF ItemKept
  <2> QED
    BY <2>2, <2>3, <2>4, <2>5 DEF ItemKept
<1>2. ASSUME NEW g \in Fd, Waiting(g)' \/ (g = 0 /\ turn' # "listen")
      PROVE  g \in Known(index')
  <2>1. CASE g = fd
    BY <1>2, <2>1
  <2>2. CASE g # fd
    <3>1. Waiting(g) \/ (g = 0 /\ turn # "listen")
      BY <1>2, <2>2, SameEntry
    <3> QED
      BY <2>2, <3>1 DEF CallsInv, EpolletPart
  <2> QED
    BY <2>1, <2>2
<1> QED
    BY <1>1, <1>2 DEF EpolletPart

\* epollet.c is not the object in use.
LEMMA EpolletIdle ==
    ASSUME CallsInv, linked' = linked, linked # "epollet", UNCHANGED vars
    PROVE  EpolletPart'
<1>1. Known(index') = {} /\ epset' = Known(index')
    BY DEF vars, array_vars, CallsInv, EpolletPart
<1>2. ArrayInv'
    BY DEF vars, array_vars, CallsInv, EpolletPart, ArrayInv, TypeOK, IndexMatchesItems, ReportsKnown
<1>3. FilledAreReady'
    BY DEF vars, array_vars, CallsInv, EpolletPart, FilledAreReady, Ready
<1> QED
    BY <1>1, <1>2, <1>3 DEF EpolletPart

\* poll.c: a call touched the registration of fd only.
LEMMA PollFrame ==
    ASSUME CallsInv, linked' = linked, linked = "poll", PollInv', NEW fd \in Fd,
           Registered' \ {fd} = Registered \ {fd},
           \A g \in Registered \ {fd} : Registrations'[g] = Registrations[g],
           \A g \in Fd \ {fd} : Same(g),
           fd \in Registered' => (fd = 0 \/ Waiting(fd)') /\ Registrations'[fd] = Entry(fd)',
           Waiting(fd)' \/ (fd = 0 /\ turn' # "listen") => fd \in Registered',
           fd = 0 \/ turn' = "listen" \/ turn # "listen"
    PROVE  PollPart'
<1>1. ASSUME NEW g \in Registered', g # fd
      PROVE  (g = 0 \/ Waiting(g)') /\ Registrations'[g] = Entry(g)'
  <2>1. g \in Registered /\ g \in Fd
    BY <1>1 DEF Registered
  <2> QED
    BY <1>1, <2>1, SameEntry DEF CallsInv, PollPart
<1>2. ASSUME NEW g \in Fd, Waiting(g)' \/ (g = 0 /\ turn' # "listen")
      PROVE  g \in Registered'
  <2>1. CASE g = fd
    BY <1>2, <2>1
  <2>2. CASE g # fd
    <3>1. Waiting(g) \/ (g = 0 /\ turn # "listen")
      BY <1>2, <2>2, SameEntry
    <3> QED
      BY <2>2, <3>1 DEF CallsInv, PollPart
  <2> QED
    BY <2>1, <2>2
<1> QED
    BY <1>1, <1>2 DEF PollPart

\* poll.c is not the object in use.
LEMMA PollIdle ==
    ASSUME CallsInv, linked' = linked, linked # "poll", UNCHANGED <<slot, pfds, nfds, pcap>>
    PROVE  PollPart'
<1>1. Registered' = {}
    BY DEF Registered, CallsInv, PollPart
<1>2. PollInv'
    BY DEF CallsInv, PollPart, PollInv, PollTypeOK, IndexMatchesPfds
<1> QED
    BY <1>1, <1>2 DEF PollPart

\* port.c: a call touched the association of fd only.
LEMMA PortFrame ==
    ASSUME CallsInv, linked' = linked, linked = "port", NEW fd \in Fd,
           DOMAIN assoc' \ {fd} = DOMAIN assoc \ {fd},
           \A g \in DOMAIN assoc \ {fd} : assoc'[g] = assoc[g],
           \A g \in Fd \ {fd} : Same(g) /\ (IsPending(g)' <=> IsPending(g)),
           fd \in DOMAIN assoc' => /\ fd = 0 \/ (Waiting(fd) /\ at[owner[fd]] = "parked")'
                                   /\ assoc'[fd] = Entry(fd)'
                                   /\ ~ IsPending(fd)',
           \/ Waiting(fd)' /\ at'[owner'[fd]] = "parked"
           \/ fd = 0 /\ turn' \in {"wait", "collect", "events"}
           => fd \in DOMAIN assoc' \/ IsPending(fd)' \/ owner'[fd] \in robbed',
           fd = 0 \/ turn' \notin {"wait", "collect", "events"}
                  \/ turn \in {"wait", "collect", "events"},
           \A r \in Routine : at'[r] = "try" =>
              status'[call'[r].fd] \cap (Awaited(call'[r].op) \cup {"HUP"}) # {} \/ r \in robbed'
    PROVE  PortPart'
<1>1. ASSUME NEW g \in DOMAIN assoc', g # fd
      PROVE  /\ g \in Fd
             /\ g = 0 \/ (Waiting(g) /\ at[owner[g]] = "parked")'
             /\ assoc'[g] = Entry(g)'
             /\ ~ IsPending(g)'
  <2>1. g \in DOMAIN assoc /\ g \in Fd
    BY <1>1 DEF CallsInv, PortPart
  <2>2. Same(g) /\ (IsPending(g)' <=> IsPending(g)) /\ assoc'[g] = assoc[g]
    BY <1>1, <2>1
  <2> QED
    BY <2>1, <2>2, SameEntry DEF CallsInv, PortPart
<1>2. ASSUME NEW g \in Fd, \/ (Waiting(g) /\ at[owner[g]] = "parked")'
                           \/ g = 0 /\ turn' \in {"wait", "collect", "events"}
      PROVE  g \in DOMAIN assoc' \/ IsPending(g)' \/ owner'[g] \in robbed'
  <2>1. CASE g = fd
    BY <1>2, <2>1
  <2>2. CASE g # fd
    <3>1. \/ Waiting(g) /\ at[owner[g]] = "parked"
          \/ g = 0 /\ turn \in {"wait", "collect", "events"}
      BY <1>2, <2>2, SameEntry
    <3>2. g \in DOMAIN assoc \/ IsPending(g) \/ owner[g] \in robbed
      BY <3>1 DEF CallsInv, PortPart
    <3>3. g = 0 => owner[g] \notin robbed
      BY <1>2, NameAssumption DEF CallsInv, Control, Owners
    <3> QED
      BY <1>2, <2>2, <3>1, <3>2, <3>3, SameEntry
  <2> QED
    BY <2>1, <2>2
<1> QED
    BY <1>1, <1>2 DEF PortPart

\* port.c is not the object in use.
LEMMA PortIdle ==
    ASSUME CallsInv, linked' = linked, linked # "port", UNCHANGED assoc
    PROVE  PortPart'
    BY DEF CallsInv, PortPart

\* The events left are those that were left, or fewer.
LEMMA EventsFrame ==
    ASSUME CallsInv, linked' = linked, UNCHANGED <<evts, about>>,
           cur' = cur \/ cur' = cur + 1,
           turn' \notin {"listen", "wait", "collect"} \/ (turn' = turn /\ cur' = cur),
           \A i \in Pending' : /\ Same(about[i])
                               /\ linked = "port" => \/ status[about[i]] \subseteq status'[about[i]]
                                                    \/ evts[i].events \subseteq status'[about[i]]
                                                    \/ owner[about[i]] \in robbed'
                               /\ turn' \in {"accept", "accepted"} => about[i] # 0
    PROVE  EventsPart'
<1>1. cur' \in Nat /\ cur' >= 1 /\ Pending' \subseteq Pending
    BY DEF CallsInv, EventsPart, Pending, Tainted, AfterHangup
<1>2. ASSUME NEW i \in Pending'
      PROVE  EventKept(i)'
  <2>1. EventKept(i) /\ Same(about[i])
    BY <1>1, <1>2 DEF CallsInv, EventsPart
  <2> DEFINE g == about[i]
  <2>2. /\ Wanted(g)' = Wanted(g) /\ Holder(g)' = Holder(g)
        /\ (Waiting(g) /\ at[owner[g]] = "parked")' <=> (Waiting(g) /\ at[owner[g]] = "parked")
    BY <2>1, SameEntry
  <2>3. g \in Fd
    BY <1>1, <1>2 DEF CallsInv, EventsPart, Pending
  <2>4. owner[g] \in robbed => Waiting(g)
    <3>1. owner[g] \in robbed => owner[g] \in Routine
      BY DEF CallsInv, Control
    <3>2. owner[0] = "listener"
      BY BoundAssumption DEF CallsInv, Owners, Fd
    <3> QED
      BY <2>1, <3>1, <3>2, NameAssumption DEF EventKept
  <2>5. owner[g] \in robbed => owner'[g] \in robbed'
    BY <2>1, <2>4 DEF Same
  <2>6. linked' = "port" => /\ evts[i].events \subseteq Wanted(g) \cup Always
                           /\ \/ evts[i].events \subseteq status'[g]
                              \/ owner'[g] \in robbed'
    <3>1. owner'[g] = owner[g]
      BY <2>1 DEF Same
    <3> QED
      BY <1>2, <2>1, <2>5, <3>1 DEF EventKept
  <2> QED
    BY <1>2, <2>1, <2>2, <2>6 DEF EventKept
<1> QED
    BY <1>1, <1>2 DEF CallsInv, EventsPart

\* A routine that runs has no event left.
LEMMA RunningNotPending ==
    ASSUME CallsInv, NEW r \in Routine, at[r] # "parked", NEW i \in Pending
    PROVE  about[i] \in Fd /\ (about[i] # 0 => owner[about[i]] # r)
    BY DEF CallsInv, EventsPart, EventKept, Pending, Tainted, AfterHangup
-----------------------------------------------------------------------------
(* What the calls of poll.h do to the objects *)

\* The item of fd is for p and `events` now; a new one counts as writable.
ItemSet(fd, events, p) ==
    /\ ArrayInv' /\ FilledAreReady' /\ epset' = Known(index') /\ todo' = todo
    /\ Known(index') = Known(index) \cup {fd} /\ epset' = epset \cup {fd}
    /\ items'[index'[fd]].ptr = p /\ items'[index'[fd]].waiting = events
    /\ items'[index'[fd]].fired = IF fd \in Known(index) THEN items[index[fd]].fired
                                  ELSE {"OUT"}
    /\ \A g \in Known(index) \ {fd} : items'[index'[g]] = items[index[g]]
    /\ UNCHANGED <<slot, pfds, nfds, pcap, assoc>>

\* ef_epoll_associate sets the item of fd.
LEMMA AssociateEpollet ==
    ASSUME CallsInv, linked = "epollet", NEW fd \in Fd, NEW events \in {{"IN"}, {"OUT"}},
           NEW p \in Routine \cup {Listener}, associate(fd, events, p)
    PROVE  ItemSet(fd, events, p)
<1> USE DEF ItemSet
<1>0. p \in Ptr
    BY PtrAssumption
<1>1. /\ ef_epoll_associate(fd, events, p) /\ fd \in epset'
      /\ UNCHANGED <<slot, pfds, nfds, pcap, assoc>>
    BY DEF associate, Object
<1>2. ArrayInv /\ FilledAreReady /\ epset = Known(index)
    BY DEF CallsInv, EpolletPart
<1>3. todo' = todo
    BY <1>1 DEF ef_epoll_associate
<1>4. CASE Reassociate(fd, events, p)
  <2>1. ArrayInv' /\ FilledAreReady'
    BY <1>0, <1>2, <1>3, <1>4, ReassociateInv, ReassociateArea
  <2>2. index[fd] >= 0 /\ epset' = epset
    BY <1>4 DEF Reassociate
  <2>3. ItemBecomes(fd, [items[index[fd]] EXCEPT !.waiting = events, !.ptr = p])
    BY <1>0, <1>2, <1>4, ReassociateItem
  <2>4. items[index[fd]] \in Item /\ fd \in Known(index)
    BY <1>2, <2>2, KnownItem DEF Known
  <2> QED
    BY <1>1, <1>2, <1>3, <2>1, <2>2, <2>3, <2>4 DEF ItemBecomes, Item
<1>5. CASE Associate(fd, events, p)
  <2>1. ArrayInv' /\ FilledAreReady'
    BY <1>0, <1>2, <1>3, <1>5, AssociateInv, AssociateArea
  <2>2. /\ index[fd] = -1 /\ epset' = epset \cup {fd}
        /\ Known(index') = Known(index) \cup {fd}
        /\ items'[index'[fd]] = NewItem(fd, events, p)
        /\ \A g \in Known(index) : items'[index'[g]] = items[index[g]]
    BY <1>0, <1>1, <1>2, <1>5, AssociateItem
  <2>3. fd \notin Known(index)
    BY <2>2 DEF Known
  <2> QED
    BY <1>1, <1>2, <1>3, <2>1, <2>2, <2>3 DEF NewItem
<1> QED
    BY <1>1, <1>4, <1>5 DEF ef_epoll_associate

\* ef_poll_associate registers fd, replacing what was registered.
LEMMA AssociatePoll ==
    ASSUME CallsInv, linked = "poll", NEW fd \in Fd, NEW events \in {{"IN"}, {"OUT"}},
           NEW p \in Routine \cup {Listener}, associate(fd, events, p)
    PROVE  /\ PollInv' /\ Registered' = Registered \cup {fd}
           /\ Registrations'[fd] = [events |-> events, ptr |-> p]
           /\ \A g \in Registered \ {fd} : Registrations'[g] = Registrations[g]
           /\ UNCHANGED <<vars, assoc>>
<1>0. p \in PollPtr
    BY PtrAssumption
<1>1. ef_poll_associate(fd, events, p) /\ UNCHANGED <<vars, assoc>>
    BY DEF associate, Object
<1>2. PollInv /\ PollInv'
    BY <1>0, <1>1, PollAssociateInv DEF CallsInv, PollPart
<1>3. Registrations' = [g \in DOMAIN Registrations \cup {fd} |->
                          IF g = fd THEN [events |-> events, ptr |-> p] ELSE Registrations[g]]
  <2>1. PS!Associate(fd, [events |-> events, ptr |-> p])
    BY <1>0, <1>1, <1>2, AssociateRefines
  <2> QED
    BY <2>1 DEF PS!Associate
<1>4. DOMAIN Registrations = Registered /\ DOMAIN Registrations' = Registered'
    BY DEF Registrations
<1> QED
    BY <1>1, <1>2, <1>3, <1>4

\* ef_port_associate is port_associate.
LEMMA AssociatePort ==
    ASSUME linked = "port", NEW fd, NEW events, NEW p, associate(fd, events, p)
    PROVE  ef_port_associate(fd, events, p) /\ UNCHANGED <<vars, slot, pfds, nfds, pcap>>
    BY DEF associate, Object

\* ef_epoll_dissociate: the item of fd waits for nothing.
LEMMA DissociateEpollet ==
    ASSUME CallsInv, linked = "epollet", NEW fd \in Fd, dissociate(fd)
    PROVE  /\ ArrayInv' /\ FilledAreReady' /\ epset' = Known(index') /\ todo' = todo
           /\ Known(index') = Known(index) /\ epset' = epset /\ fd \in Known(index)
           /\ items'[index'[fd]].ptr = items[index[fd]].ptr /\ items'[index'[fd]].waiting = {}
           /\ items'[index'[fd]].fired = items[index[fd]].fired
           /\ \A g \in Known(index) \ {fd} : items'[index'[g]] = items[index[g]]
           /\ UNCHANGED <<slot, pfds, nfds, pcap, assoc>>
<1>1. ef_epoll_dissociate(fd) /\ UNCHANGED <<slot, pfds, nfds, pcap, assoc>>
    BY DEF dissociate, Object
<1>2. ArrayInv /\ FilledAreReady /\ epset = Known(index)
    BY DEF CallsInv, EpolletPart
<1>3. ArrayInv' /\ FilledAreReady' /\ todo' = todo
    BY <1>1, <1>2, DissociateInv, DissociateArea DEF ef_epoll_dissociate
<1>4. index[fd] >= 0 /\ epset' = epset /\ ItemBecomes(fd, [items[index[fd]] EXCEPT !.waiting = {}])
    BY <1>1, <1>2, DissociateItem
<1>5. items[index[fd]] \in Item /\ fd \in Known(index)
    BY <1>2, <1>4, KnownItem DEF Known
<1> QED
    BY <1>1, <1>2, <1>3, <1>4, <1>5 DEF ItemBecomes, Item

\* ef_poll_dissociate: fd is no longer registered.
LEMMA RemovePoll ==
    ASSUME CallsInv, linked = "poll", NEW fd \in Fd, ef_poll_dissociate(fd)
    PROVE  /\ PollInv' /\ Registered' = Registered \ {fd}
           /\ \A g \in Registered \ {fd} : Registrations'[g] = Registrations[g]
<1>2. PollInv /\ PollInv'
    BY PollDissociateInv DEF CallsInv, PollPart
<1>3. Registrations' = [g \in DOMAIN Registrations \ {fd} |-> Registrations[g]]
    BY <1>2, DissociateRefines DEF PS!Dissociate
<1>4. DOMAIN Registrations = Registered /\ DOMAIN Registrations' = Registered'
    BY DEF Registrations
<1> QED
    BY <1>2, <1>3, <1>4

\* ef_epoll_unset takes fired events of fd back.
LEMMA UnsetEpollet ==
    ASSUME CallsInv, linked = "epollet", NEW fd \in Fd, NEW events, unset(fd, events)
    PROVE  /\ ArrayInv' /\ FilledAreReady' /\ epset' = Known(index') /\ todo' = todo
           /\ Known(index') = Known(index) /\ epset' = epset /\ fd \in Known(index)
           /\ items'[index'[fd]].ptr = items[index[fd]].ptr
           /\ items'[index'[fd]].waiting = items[index[fd]].waiting
           /\ items'[index'[fd]].fired = items[index[fd]].fired \ events
           /\ \A g \in Known(index) \ {fd} : items'[index'[g]] = items[index[g]]
           /\ UNCHANGED <<slot, pfds, nfds, pcap, assoc>>
<1>1. ef_epoll_unset(fd, events) /\ UNCHANGED <<slot, pfds, nfds, pcap, assoc>>
    BY DEF unset, Object
<1>2. ArrayInv /\ FilledAreReady /\ epset = Known(index)
    BY DEF CallsInv, EpolletPart
<1>3. ArrayInv' /\ FilledAreReady' /\ todo' = todo
    BY <1>1, <1>2, UnsetInv, UnsetArea DEF ef_epoll_unset
<1>4. /\ index[fd] >= 0 /\ epset' = epset
      /\ ItemBecomes(fd, [items[index[fd]] EXCEPT !.fired = @ \ events])
    BY <1>1, <1>2, UnsetItem
<1>5. items[index[fd]] \in Item /\ fd \in Known(index)
    BY <1>2, <1>4, KnownItem DEF Known
<1> QED
    BY <1>1, <1>2, <1>3, <1>4, <1>5 DEF ItemBecomes, Item

\* ef_epoll_dissociate on close: fd has no item any more.
LEMMA RemoveEpollet ==
    ASSUME CallsInv, linked = "epollet", NEW fd \in Fd, ef_epoll_dissociate_onclose(fd)
    PROVE  /\ ArrayInv' /\ FilledAreReady' /\ epset' = Known(index') /\ todo' = todo
           /\ Known(index') = Known(index) \ {fd} /\ epset' = epset \ {fd}
           /\ \A g \in Known(index) \ {fd} : items'[index'[g]] = items[index[g]]
<1>2. ArrayInv /\ FilledAreReady /\ epset = Known(index)
    BY DEF CallsInv, EpolletPart
<1>3. ArrayInv' /\ FilledAreReady' /\ todo' = todo
    BY <1>2, DissociateOncloseInv, RemoveArea DEF ef_epoll_dissociate_onclose
<1>4. /\ epset' = epset \ {fd} /\ Known(index') = Known(index) \ {fd}
      /\ \A g \in Known(index) \ {fd} : items'[index'[g]] = items[index[g]]
    BY <1>2, RemoveItem
<1> QED
    BY <1>2, <1>3, <1>4
-----------------------------------------------------------------------------
(* The kernel *)

\* The data of g goes away, and if its routine was told, that is on record.
Robs(g) == /\ status[g] \ {"IN"} \subseteq status'[g] /\ g # 0
           /\ LET r == owner[g]
              IN  Waiting(g) /\ call[r].op = "read" /\ (at[r] = "try" \/ IsPending(g)) => r \in robbed'

\* Whatever becomes ready is reported by epoll; under port.c what is ready stays
\* so, or the routine is robbed.
LEMMA KernelStep ==
    ASSUME CallsInv, UNCHANGED <<linked, object_vars, at, call, loop_vars, owner>>,
           robbed \subseteq robbed', robbed' \subseteq {r \in Routine : call[r].op = "read"},
           status' \in [Fd -> SUBSET {"IN", "OUT", "HUP"}],
           \A g \in Fd : owner[g] = "free" => status'[g] = {},
           \A g \in Known(index) : g \in edge' \/ status'[g] \subseteq status[g],
           linked = "port" => \A g \in Fd : \/ status[g] \subseteq status'[g]
                                           \/ Robs(g),
           edge \subseteq edge', edge' \subseteq epset,
           backlog' \in 0 .. MaxBacklog, backlog' <= Cardinality(Free),
           status'[0] \subseteq {"IN"}, backlog' = 0 => status'[0] = {}
    PROVE  CallsInv'
<1> USE DEF object_vars, loop_vars, vars, array_vars
<1>1. Control'
    BY DEF CallsInv, Control
<1>2. Owners'
    BY DEF CallsInv, Owners, Free
<1>3. \A g \in Fd : Same(g)
    BY AllSame
<1>4. 0 \in Fd
    BY BoundAssumption DEF Fd
<1>5. EpolletPart'
  <2>1. CASE linked = "epollet"
    <3>1. ArrayInv' /\ FilledAreReady' /\ epset' = Known(index')
      BY DEF CallsInv, EpolletPart, ArrayInv, TypeOK, IndexMatchesItems, ReportsKnown,
             FilledAreReady, Ready
    <3>2. ASSUME 0 \in Known(index) PROVE ItemKept(0)'
      <4>1. ItemKept(0)
        BY <3>2 DEF CallsInv, EpolletPart
      <4>2. Wanted(0)' = Wanted(0) /\ Holder(0)' = Holder(0)
        BY <1>3, <1>4, SameEntry
      <4> QED
        BY <3>2, <4>1, <4>2 DEF ItemKept
    <3>3. Waiting(0)' \/ turn' # "listen" => 0 \in Known(index')
      BY <1>3, <1>4, <2>1 DEF Same, CallsInv, EpolletPart
    <3> QED
      BY <1>3, <1>4, <2>1, <3>1, <3>2, <3>3, EpolletFrame
  <2>2. CASE linked # "epollet"
    BY <2>2, EpolletIdle
  <2> QED
    BY <2>1, <2>2
<1>6. PollPart'
  <2>1. PollInv'
    BY DEF CallsInv, PollPart, PollInv, PollTypeOK, IndexMatchesPfds
  <2>2. Registered' = Registered /\ Registrations' = Registrations
    BY DEF Registered, Registrations
  <2>3. \A g \in Fd : Entry(g)' = Entry(g) /\ (Waiting(g)' <=> Waiting(g))
    BY <1>3, SameEntry
  <2>4. Registered \subseteq Fd
    BY DEF Registered
  <2> QED
    BY <2>1, <2>2, <2>3, <2>4 DEF CallsInv, PollPart
<1>7. PortPart'
  <2>1. \A g \in Fd : IsPending(g)' <=> IsPending(g)
    BY DEF IsPending, Pending, Tainted, AfterHangup
  <2>2. \A g \in Fd : /\ Entry(g)' = Entry(g) /\ (Waiting(g)' <=> Waiting(g))
                      /\ (Waiting(g) /\ at[owner[g]] = "parked")' <=> (Waiting(g) /\ at[owner[g]] = "parked")
    BY <1>3, SameEntry
  <2>3. DOMAIN assoc \subseteq Fd
    BY DEF CallsInv, PortPart
  <2>4. ASSUME linked = "port", NEW r \in Routine, at[r] = "try"
        PROVE  \/ status'[call[r].fd] \cap (Awaited(call[r].op) \cup {"HUP"}) # {}
               \/ r \in robbed'
    <3>1. /\ call[r].fd \in Fd /\ Waiting(call[r].fd) /\ owner[call[r].fd] = r
          /\ status[call[r].fd] \cap (Awaited(call[r].op) \cup {"HUP"}) # {} \/ r \in robbed
      BY <2>4, WaitingKnown DEF CallsInv, PortPart, Holder
    <3>2. status[call[r].fd] \subseteq status'[call[r].fd] \/ Robs(call[r].fd)
      BY <2>4, <3>1
    <3> QED
      BY <2>4, <3>1, <3>2 DEF Robs, Awaited
  <2>5. 0 \in Fd
    BY BoundAssumption DEF Fd
  <2> QED
    BY <2>1, <2>2, <2>3, <2>4, <2>5 DEF CallsInv, PortPart
<1>8. EventsPart'
  <2>1. \A i \in Pending : about[i] \in Fd /\ (turn \in {"accept", "accepted"} => about[i] # 0)
    BY DEF CallsInv, EventsPart, EventKept, Pending, Tainted, AfterHangup
  <2>2. Pending' = Pending
    BY DEF Pending, Tainted, AfterHangup
  <2>3. ASSUME NEW i \in Pending, linked = "port"
        PROVE  \/ status[about[i]] \subseteq status'[about[i]]
               \/ evts[i].events \subseteq status'[about[i]]
               \/ owner[about[i]] \in robbed'
    <3>1. PICK g \in Fd : g = about[i]
      BY <2>1
    <3>2. EventKept(i) /\ IsPending(g)
      BY <3>1 DEF CallsInv, EventsPart, IsPending
    <3>3. CASE Robs(g)
      <4>1. /\ Waiting(g) /\ evts[i].events \subseteq Wanted(g) \cup Always
            /\ Wanted(g) = Awaited(call[owner[g]].op)
            /\ evts[i].events \subseteq status[g] \/ owner[g] \in robbed
        BY <2>3, <3>1, <3>2, <3>3 DEF EventKept, Robs, Wanted
      <4>2. CASE call[owner[g]].op = "read"
        BY <3>1, <3>2, <3>3, <4>1, <4>2 DEF Robs
      <4>3. CASE call[owner[g]].op # "read"
        BY <3>1, <3>3, <4>1, <4>3 DEF Robs, Awaited, Always
      <4> QED
        BY <4>2, <4>3
    <3> QED
      BY <2>3, <3>1, <3>3
  <2> QED
    BY <1>3, <2>1, <2>2, <2>3, EventsFrame
<1> QED
    BY <1>1, <1>2, <1>5, <1>6, <1>7, <1>8 DEF CallsInv

\* Data, room, connections and hang-ups come at any time.
LEMMA KernelInv == ASSUME CallsInv, Kernel PROVE CallsInv'
<1>0. /\ owner \in [Fd -> Routine \cup {"free", "listener", "queued"}]
      /\ status \in [Fd -> SUBSET {"IN", "OUT", "HUP"}]
      /\ \A fd \in Fd : owner[fd] = "listener" <=> fd = 0
      /\ \A fd \in Fd : owner[fd] = "free" => status[fd] = {}
      /\ robbed \subseteq {r \in Routine : call[r].op = "read"}
      /\ backlog \in 0 .. MaxBacklog /\ backlog <= Cardinality(Free)
      /\ status[0] \subseteq {"IN"} /\ (backlog = 0 => status[0] = {})
      /\ edge \subseteq epset /\ epset \subseteq Fd /\ epset = Known(index)
      /\ 0 \in Fd
    BY BoundAssumption DEF CallsInv, Control, Owners, EpolletPart, Known, Fd
<1>1. ASSUME NEW fd \in Fd, NEW events \in SUBSET {"IN", "OUT", "HUP"}, Becomes(fd, events),
             Quiet, UNCHANGED <<owner, backlog>>, owner[fd] \notin {"free", "listener"},
             status[fd] \subseteq events
      PROVE  CallsInv'
    BY <1>0, <1>1, KernelStep DEF Becomes, Quiet, routine_vars
<1>2. ASSUME NEW fd \in Fd, DataArrives(fd) PROVE CallsInv'
  <2>1. status[fd] \cup {"IN"} \in SUBSET {"IN", "OUT", "HUP"}
    BY <1>0
  <2> QED
    BY <1>0, <1>1, <1>2, <2>1, NameAssumption DEF DataArrives, Connection
<1>3. ASSUME NEW fd \in Fd, RoomArrives(fd) PROVE CallsInv'
  <2>1. status[fd] \cup {"OUT"} \in SUBSET {"IN", "OUT", "HUP"}
    BY <1>0
  <2> QED
    BY <1>0, <1>1, <1>3, <2>1, NameAssumption DEF RoomArrives, Connection
<1>4. ASSUME NEW fd \in Fd, HangsUp(fd) PROVE CallsInv'
  <2>1. status[fd] \subseteq {"IN", "OUT", "HUP"}
    BY <1>0
  <2> QED
    BY <1>0, <1>1, <1>4, <2>1, NameAssumption DEF HangsUp, Connection
<1>5. ASSUME NEW fd \in Fd, DataVanishes(fd) PROVE CallsInv'
  <2>1. fd # 0 /\ owner[fd] \notin {"free", "listener"}
    BY <1>0, <1>5, NameAssumption DEF DataVanishes, Connection
  <2> DEFINE told == {r \in Routine : /\ call[r] = [op |-> "read", fd |-> fd]
                                      /\ (at[r] = "try" \/ Handed(fd, r))}
  <2>2. /\ status' = [status EXCEPT ![fd] = status[fd] \ {"IN"}] /\ robbed' = robbed \cup told
        /\ UNCHANGED <<linked, object_vars, at, call, loop_vars, owner, edge, backlog>>
    BY <1>5 DEF DataVanishes
  <2>3. told \subseteq {r \in Routine : call[r].op = "read"}
    OBVIOUS
  <2>4. linked = "port" => Robs(fd)
    <3> SUFFICES ASSUME linked = "port", Waiting(fd), call[owner[fd]].op = "read",
                        at[owner[fd]] = "try" \/ IsPending(fd)
                 PROVE  owner[fd] \in told
      BY <1>0, <2>1, <2>2 DEF Robs
    <3>1. owner[fd] \in Routine /\ call[owner[fd]] = [op |-> "read", fd |-> fd]
      BY DEF Waiting, CallsInv, Control
    <3>2. IsPending(fd) => Handed(fd, owner[fd])
      BY <2>1 DEF IsPending, Handed, Pending, CallsInv, EventsPart, EventKept, Holder
    <3> QED
      BY <3>1, <3>2
  <2> HIDE DEF told
  <2> QED
    BY <1>0, <2>1, <2>2, <2>3, <2>4, KernelStep
<1>6. CASE PeerConnects
  <2>1. /\ backlog' = backlog + 1 /\ backlog < MaxBacklog /\ backlog < Cardinality(Free)
        /\ Becomes(0, {"IN"}) /\ Quiet /\ UNCHANGED owner
    BY <1>6 DEF PeerConnects
  <2>2. backlog' \in 0 .. MaxBacklog /\ backlog' <= Cardinality(Free) /\ backlog' # 0
    BY <1>0, <2>1, FreeFinite, BacklogAssumption
  <2> QED
    BY <1>0, <2>1, <2>2, KernelStep DEF Becomes, Quiet, routine_vars
<1> QED
    BY <1>2, <1>3, <1>4, <1>5, <1>6 DEF Kernel
-----------------------------------------------------------------------------
(* What a call of poll.h leaves behind *)

\* After associate the object watches fd for its new holder.
LEMMA AfterAssociate ==
    ASSUME CallsInv, linked' = linked, NEW fd \in Fd, NEW events \in {{"IN"}, {"OUT"}},
           NEW p \in Routine \cup {Listener}, associate(fd, events, p),
           UNCHANGED <<status, cur, evts, about>>, robbed \subseteq robbed',
           \A g \in Fd \ {fd} : Same(g),
           Wanted(fd)' = events, Holder(fd)' = p,
           edge \subseteq edge',
           linked = "epollet" => fd \in Known(index) \/ status[fd] = {} \/ fd \in edge',
           IF fd = 0 THEN turn' # "listen" ELSE turn' = turn /\ (linked = "port" => at'[p] = "parked"),
           linked = "port" => \A r \in Routine : at'[r] = "try" => at[r] = "try" /\ call'[r] = call[r],
           ~ IsPending(fd)
    PROVE  EpolletPart' /\ PollPart' /\ PortPart' /\ todo' = todo /\ epset \subseteq epset'
<1>0. fd = 0 \/ Waiting(fd)'
    BY DEF Wanted
<1>5. /\ linked \in {"epollet", "poll", "port"}
       /\ \A g \in Fd : IsPending(g)' <=> IsPending(g)
    BY DEF CallsInv, Control, IsPending, Pending, Tainted, AfterHangup
<1>1. CASE linked = "epollet"
  <2>0. ItemSet(fd, events, p)
    BY <1>1, AssociateEpollet
  <2>1. /\ ArrayInv' /\ FilledAreReady' /\ epset' = Known(index') /\ todo' = todo
        /\ Known(index') = Known(index) \cup {fd}
        /\ items'[index'[fd]].ptr = p /\ items'[index'[fd]].waiting = events
        /\ items'[index'[fd]].fired = IF fd \in Known(index) THEN items[index[fd]].fired
                                      ELSE {"OUT"}
        /\ \A g \in Known(index) \ {fd} : items'[index'[g]] = items[index[g]]
        /\ UNCHANGED <<slot, pfds, nfds, pcap, assoc>>
    BY <2>0 DEF ItemSet
  <2>2. ItemKept(fd)'
    <3>1. items'[index'[fd]].fired \subseteq {"IN", "OUT", "HUP"}
      BY <2>1 DEF CallsInv, EpolletPart, ItemKept
    <3>2. fd \in edge' \cup todo' \/ status'[fd] \subseteq items'[index'[fd]].fired
      <4>1. CASE fd \in Known(index)
        <5>1. fd \in edge \cup todo \/ status[fd] \subseteq items[index[fd]].fired
          BY <4>1 DEF CallsInv, EpolletPart, ItemKept
        <5> QED
          BY <2>1, <4>1, <5>1
      <4>2. CASE fd \notin Known(index)
        BY <1>1, <2>1, <4>2
      <4> QED
        BY <4>1, <4>2
    <3>3. fd = 0 \/ owner'[fd] \in Routine
      BY <1>0 DEF Waiting
    <3> QED
      BY <2>1, <3>1, <3>2, <3>3 DEF ItemKept
  <2>3. \A g \in Known(index) \ {fd} : g \in edge \cup todo => g \in edge' \cup todo'
    BY <2>1
  <2>4. EpolletPart'
    BY <1>1, <2>1, <2>2, <2>3, EpolletFrame
  <2>5. PollPart' /\ PortPart'
    BY <1>1, <2>1, PollIdle, PortIdle
  <2> QED
    BY <2>1, <2>4, <2>5 DEF CallsInv, EpolletPart
<1>2. CASE linked = "poll"
  <2>1. /\ PollInv' /\ Registered' = Registered \cup {fd}
        /\ Registrations'[fd] = [events |-> events, ptr |-> p]
        /\ \A g \in Registered \ {fd} : Registrations'[g] = Registrations[g]
        /\ UNCHANGED <<vars, assoc>>
    BY <1>2, AssociatePoll
  <2>2. Entry(fd)' = [events |-> events, ptr |-> p]
    BY DEF Entry
  <2>3. PollPart'
    BY <1>0, <1>2, <2>1, <2>2, PollFrame
  <2>4. EpolletPart' /\ PortPart'
    BY <1>2, <2>1, EpolletIdle, PortIdle
  <2> QED
    BY <2>1, <2>3, <2>4 DEF vars
<1>3. CASE linked = "port"
  <2>0. ef_port_associate(fd, events, p) /\ UNCHANGED <<vars, slot, pfds, nfds, pcap>>
    BY <1>3, AssociatePort
  <2>1. /\ DOMAIN assoc' = DOMAIN assoc \cup {fd}
        /\ assoc'[fd] = [events |-> events, ptr |-> p]
        /\ \A g \in DOMAIN assoc \ {fd} : assoc'[g] = assoc[g]
        /\ UNCHANGED <<vars, slot, pfds, nfds, pcap>>
    BY <2>0 DEF ef_port_associate
  <2>2. Entry(fd)' = [events |-> events, ptr |-> p]
    BY DEF Entry
  <2>3. fd = 0 \/ (Waiting(fd) /\ at[owner[fd]] = "parked")'
    BY <1>0, <1>3 DEF Holder
  <2>4. \A r \in Routine : at'[r] = "try" =>
           status'[call'[r].fd] \cap (Awaited(call'[r].op) \cup {"HUP"}) # {} \/ r \in robbed'
    BY <1>3 DEF CallsInv, PortPart
  <2>5. ~ IsPending(fd)'
    BY <1>5
  <2>6. PortPart'
    BY <1>5, <1>3, <2>1, <2>2, <2>3, <2>4, <2>5, PortFrame
  <2>7. EpolletPart' /\ PollPart'
    BY <1>3, <2>1, EpolletIdle, PollIdle
  <2> QED
    BY <2>1, <2>6, <2>7 DEF vars
<1> QED
    BY <1>5, <1>1, <1>2, <1>3
-----------------------------------------------------------------------------
(* The steps that associate *)

\* What the steps below need to know of the listening descriptor.
LEMMA ListenerFacts ==
    ASSUME CallsInv
    PROVE  /\ 0 \in Fd /\ owner[0] = "listener" /\ ~ Waiting(0)
           /\ Wanted(0) = {"IN"} /\ Holder(0) = Listener
           /\ Wanted(0)' = {"IN"} /\ Holder(0)' = Listener
           /\ linked \in {"epollet", "poll", "port"} /\ epset = Known(index)
           /\ linked # "epollet" => Known(index) = {}
    BY BoundAssumption, NameAssumption
       DEF Fd, CallsInv, Control, Owners, EpolletPart, Waiting, Wanted, Holder

\* What becomes ready is reported, also if it was ready before.
LEMMA RegistersEdge ==
    ASSUME CallsInv, NEW fd \in Fd, NEW events \in {{"IN"}, {"OUT"}},
           NEW p \in Routine \cup {Listener}, associate(fd, events, p), Registers(fd, status[fd])
    PROVE  /\ edge \subseteq edge' /\ (epset \subseteq epset' => edge' \subseteq epset')
           /\ linked = "epollet" => fd \in Known(index) \/ status[fd] = {} \/ fd \in edge'
<1>1. edge \subseteq epset
    BY DEF CallsInv, Owners
<1>2. ASSUME linked = "epollet" PROVE fd \in epset' /\ epset = Known(index)
  <2>1. ItemSet(fd, events, p)
    BY <1>2, AssociateEpollet
  <2> QED
    BY <2>1 DEF ItemSet, CallsInv, EpolletPart
<1> QED
    BY <1>1, <1>2 DEF Registers

\* The listener is associated before the first wait.
LEMMA ListenFirstInv == ASSUME CallsInv, ListenFirst PROVE CallsInv'
<1>1. /\ associate(0, {"IN"}, Listener) /\ Registers(0, status[0]) /\ turn = "listen" /\ turn' = "wait"
      /\ UNCHANGED <<linked, owner, status, backlog, at, call, robbed, cur, evts, about>>
    BY DEF ListenFirst, routine_vars
<1>2. \A g \in Fd \ {0} : Same(g)
    BY <1>1, AllSame
<1>3. Len(evts) = 0 /\ cur = 1 /\ Pending' = {} /\ ~ IsPending(0) /\ cur' = 1 /\ Len(evts') = 0
    BY <1>1 DEF CallsInv, EventsPart, Pending, IsPending, Tainted, AfterHangup
<1>4. /\ edge \subseteq edge' /\ (epset \subseteq epset' => edge' \subseteq epset')
      /\ linked = "epollet" => 0 \in Known(index) \/ status[0] = {} \/ 0 \in edge'
    BY <1>1, ListenerFacts, RegistersEdge
<1>5. EpolletPart' /\ PollPart' /\ PortPart' /\ todo' = todo /\ epset \subseteq epset'
    BY <1>1, <1>2, <1>3, <1>4, ListenerFacts, AfterAssociate
<1>6. Control'
    BY <1>1, <1>5 DEF CallsInv, Control
<1>7. Owners'
    BY <1>1, <1>4, <1>5 DEF CallsInv, Owners, Free
<1>8. EventsPart'
    BY <1>1, <1>3 DEF CallsInv, EventsPart
<1> QED
    BY <1>5, <1>6, <1>7, <1>8 DEF CallsInv

\* After the accepts the listener is associated again.
LEMMA ListenAgainInv == ASSUME CallsInv, ListenAgain PROVE CallsInv'
<1>1. /\ associate(0, {"IN"}, Listener) /\ turn = "accepted" /\ turn' = "events"
      /\ UNCHANGED <<linked, owner, status, edge, backlog, at, call, robbed, cur, evts, about>>
    BY DEF ListenAgain, routine_vars, kernel_vars
<1>2. \A g \in Fd : Same(g)
    BY <1>1, AllSame
<1>3. ~ IsPending(0)
    BY <1>1 DEF CallsInv, EventsPart, EventKept, IsPending
<1>4. linked = "epollet" => 0 \in Known(index)
    BY <1>1, ListenerFacts DEF CallsInv, EpolletPart
<1>5. EpolletPart' /\ PollPart' /\ PortPart' /\ todo' = todo /\ epset \subseteq epset'
    BY <1>1, <1>2, <1>3, <1>4, ListenerFacts, AfterAssociate
<1>6. Control'
    BY <1>1, <1>5 DEF CallsInv, Control
<1>7. Owners'
    BY <1>1, <1>5 DEF CallsInv, Owners, Free
<1>8. EventsPart'
  <2>1. \A i \in Pending' : about[i] \in Fd
    BY <1>1 DEF CallsInv, EventsPart, Pending, Tainted, AfterHangup
  <2> QED
    BY <1>1, <1>2, <2>1, EventsFrame
<1> QED
    BY <1>5, <1>6, <1>7, <1>8 DEF CallsInv
\* A routine in its code waits on nothing, and is the only one that runs.
LEMMA CodeFacts ==
    ASSUME CallsInv, NEW r \in Routine, at[r] = "code"
    PROVE  /\ call[r].op = "none" /\ turn = "events"
           /\ \A q \in Routine \ {r} : at[q] \notin {"code", "try"}
           /\ \A fd \in Fd : owner[fd] = r => fd # 0 /\ ~ Waiting(fd) /\ ~ IsPending(fd)
           /\ \A q \in Routine : at[q] # "try"
<1>1. /\ call[r].op = "none" /\ turn = "events"
      /\ \A q \in Routine \ {r} : at[q] \notin {"code", "try"}
    BY DEF CallsInv, Control
<1>2. ASSUME NEW fd \in Fd, owner[fd] = r
      PROVE  fd # 0 /\ ~ Waiting(fd) /\ ~ IsPending(fd)
  <2>1. fd # 0 /\ ~ Waiting(fd)
    BY <1>1, <1>2, NameAssumption DEF CallsInv, Owners, Waiting
  <2> QED
    BY <1>2, <2>1, RunningNotPending DEF IsPending, Pending, Tainted, AfterHangup
<1> QED
    BY <1>1, <1>2

\* A wrapped call begins: its routine tries at once or is parked.
LEMMA BeginInv ==
    ASSUME CallsInv, NEW r \in Routine, NEW op \in {"read", "write"}, NEW fd \in Fd,
           Begin(r, op, fd)
    PROVE  CallsInv'
<1>1. /\ at[r] = "code" /\ owner[fd] = r
      /\ associate(fd, Awaited(op), r) /\ Registers(fd, status[fd])
      /\ call' = [call EXCEPT ![r] = [op |-> op, fd |-> fd]]
      /\ UNCHANGED <<linked, owner, status, backlog, robbed, turn, cur, evts, about>>
    BY DEF Begin, loop_vars
<1>2. PICK p \in {"try", "parked"} : at' = [at EXCEPT ![r] = p] /\ (linked # "epollet" => p = "parked")
    BY DEF Begin, Place, Returned1
<1>3. /\ call[r].op = "none" /\ turn = "events" /\ fd # 0 /\ ~ IsPending(fd)
      /\ \A q \in Routine \ {r} : at[q] \notin {"code", "try"}
      /\ \A q \in Routine : at[q] # "try"
    BY <1>1, CodeFacts
<1>4. /\ at \in [Routine -> {"none", "code", "try", "parked"}]
      /\ call \in [Routine -> [op : {"none", "read", "write", "connect"}, fd : Fd]]
    BY DEF CallsInv, Control
<1>5. /\ at'[r] = p /\ call'[r] = [op |-> op, fd |-> fd]
      /\ \A q \in Routine \ {r} : at'[q] = at[q] /\ call'[q] = call[q]
    BY <1>1, <1>2, <1>4
<1>6. \A g \in Fd \ {fd} : Same(g)
    BY <1>1, <1>3, <1>5, OthersSame
<1>7. Awaited(op) \in {{"IN"}, {"OUT"}}
    BY DEF Awaited
<1>8. Wanted(fd)' = Awaited(op) /\ Holder(fd)' = r
    BY <1>1, <1>3, <1>5 DEF Wanted, Holder, Waiting
<1>9. /\ edge \subseteq edge' /\ (epset \subseteq epset' => edge' \subseteq epset')
      /\ linked = "epollet" => fd \in Known(index) \/ status[fd] = {} \/ fd \in edge'
    BY <1>1, <1>7, RegistersEdge
<1>10. linked = "port" => /\ at'[r] = "parked"
                          /\ \A q \in Routine : at'[q] = "try" => at[q] = "try" /\ call'[q] = call[q]
    BY <1>2, <1>3, <1>5
<1>11. EpolletPart' /\ PollPart' /\ PortPart' /\ todo' = todo /\ epset \subseteq epset'
    BY <1>1, <1>3, <1>6, <1>7, <1>8, <1>9, <1>10, AfterAssociate
<1>12. Control'
  <2>1. at' \in [Routine -> {"none", "code", "try", "parked"}]
    BY <1>2, <1>4
  <2>2. call' \in [Routine -> [op : {"none", "read", "write", "connect"}, fd : Fd]]
    BY <1>1, <1>4
  <2> QED
    BY <1>1, <1>3, <1>5, <1>11, <2>1, <2>2 DEF CallsInv, Control
<1>13. Owners'
    BY <1>1, <1>5, <1>9, <1>11 DEF CallsInv, Owners, Free
<1>14. EventsPart'
  <2>1. Pending' = Pending /\ \A i \in Pending : about[i] \in Fd /\ about[i] # fd
    BY <1>1, <1>3 DEF CallsInv, EventsPart, Pending, IsPending, Tainted, AfterHangup
  <2> QED
    BY <1>1, <1>3, <1>6, <2>1, EventsFrame
<1> QED
    BY <1>11, <1>12, <1>13, <1>14 DEF CallsInv
-----------------------------------------------------------------------------
(* The steps that open or close a descriptor *)

\* The kernel opens the least descriptor that is free: one no routine waits
\* on, and no object knows.
LEMMA FreeDescriptor ==
    ASSUME CallsInv, Cardinality(Free) > 0
    PROVE  /\ Min(Free) \in Fd /\ owner[Min(Free)] = "free" /\ status[Min(Free)] = {}
           /\ Min(Free) # 0 /\ ~ Waiting(Min(Free)) /\ ~ IsPending(Min(Free))
           /\ Min(Free) \notin Known(index) /\ Min(Free) \notin Registered
           /\ Min(Free) \notin DOMAIN assoc
<1>1. Free # {} /\ Free \in SUBSET Nat
    BY FS_EmptySet, FreeFinite DEF Free, Fd
<1>2. PICK n \in Free : \A m \in Free : ~ (<<m, n>> \in OpToRel(<, Nat))
    BY <1>1, WFMin, NatLessThanWellFounded
<1>3. ASSUME NEW m \in Free PROVE n <= m
  <2>1. ~ (m < n)
    BY <1>1, <1>2 DEF OpToRel
  <2> QED
    BY <1>1, <2>1
<1>4. Min(Free) \in Free
    BY <1>3 DEF Min
<1> DEFINE fd == Min(Free)
<1>5. fd \in Fd /\ owner[fd] = "free"
    BY <1>4 DEF Free
<1> HIDE DEF fd
<1>6. fd # 0 /\ ~ Waiting(fd) /\ status[fd] = {}
    BY <1>5, NameAssumption DEF CallsInv, Owners, Waiting
<1>7. fd \notin Known(index)
    BY <1>5, <1>6, NameAssumption DEF CallsInv, EpolletPart, ItemKept
<1>8. fd \notin Registered
    BY <1>6 DEF CallsInv, PollPart
<1>9. fd \notin DOMAIN assoc /\ ~ IsPending(fd)
    BY <1>6 DEF CallsInv, PortPart, EventsPart, EventKept, IsPending
<1> QED
    BY <1>5, <1>6, <1>7, <1>8, <1>9 DEF fd

\* Without fd there is one free descriptor less.
LEMMA FreeTaken ==
    ASSUME CallsInv, NEW fd \in Fd, NEW o, o # "free", owner[fd] = "free",
           owner' = [owner EXCEPT ![fd] = o]
    PROVE  Cardinality(Free') = Cardinality(Free) - 1
<1>1. owner \in [Fd -> Routine \cup {"free", "listener", "queued"}]
    BY DEF CallsInv, Owners
<1>2. Free' = Free \ {fd} /\ fd \in Free
    BY <1>1 DEF Free
<1> QED
    BY <1>2, FreeFinite, FS_RemoveElement

\* A connect is parked whatever associate returned.
LEMMA ConnectInv ==
    ASSUME CallsInv, NEW r \in Routine, Connect(r)
    PROVE  CallsInv'
<1>0. Cardinality(Free) > 0
    BY FreeFinite DEF Connect, CallsInv, Owners
<1>20. PICK fd \in Fd : fd = Min(Free)
    BY <1>0, FreeDescriptor
<1>1. /\ at[r] = "code" /\ Cardinality(Free) > backlog
      /\ owner' = [owner EXCEPT ![fd] = r] /\ associate(fd, {"OUT"}, r)
      /\ call' = [call EXCEPT ![r] = [op |-> "connect", fd |-> fd]]
      /\ at' = [at EXCEPT ![r] = "parked"]
      /\ UNCHANGED <<linked, status, edge, backlog, robbed, turn, cur, evts, about>>
    BY <1>20 DEF Connect, loop_vars, Place
<1>2. /\ backlog \in Nat /\ backlog <= MaxBacklog /\ edge \subseteq epset
      /\ owner \in [Fd -> Routine \cup {"free", "listener", "queued"}]
      /\ at \in [Routine -> {"none", "code", "try", "parked"}]
      /\ call \in [Routine -> [op : {"none", "read", "write", "connect"}, fd : Fd]]
    BY DEF CallsInv, Owners, Control
<1>3. /\ fd \in Fd /\ owner[fd] = "free" /\ status[fd] = {} /\ fd # 0 /\ ~ IsPending(fd)
    BY <1>0, <1>20, FreeDescriptor
<1>4. /\ call[r].op = "none" /\ turn = "events"
      /\ \A q \in Routine \ {r} : at[q] \notin {"code", "try"}
      /\ \A q \in Routine : at[q] # "try"
    BY <1>1, CodeFacts
<1>5. /\ at'[r] = "parked" /\ call'[r] = [op |-> "connect", fd |-> fd] /\ owner'[fd] = r
      /\ \A q \in Routine \ {r} : at'[q] = at[q] /\ call'[q] = call[q]
      /\ \A g \in Fd \ {fd} : owner'[g] = owner[g]
    BY <1>1, <1>2, <1>3
<1>6. \A g \in Fd \ {fd} : Same(g)
  <2>1. robbed \ {r} \subseteq robbed'
    BY <1>1
  <2> QED
    BY <1>3, <1>4, <1>5, <2>1, OthersSame
<1>7. Wanted(fd)' = {"OUT"} /\ Holder(fd)' = r
    BY <1>3, <1>5 DEF Wanted, Holder, Waiting, Awaited
<1>8. \A q \in Routine : at'[q] # "try"
    BY <1>4, <1>5
<1>9. EpolletPart' /\ PollPart' /\ PortPart' /\ todo' = todo /\ epset \subseteq epset'
    BY <1>1, <1>3, <1>5, <1>6, <1>7, <1>8, AfterAssociate
<1>10. Control'
  <2>1. at' \in [Routine -> {"none", "code", "try", "parked"}]
    BY <1>1, <1>2
  <2>2. call' \in [Routine -> [op : {"none", "read", "write", "connect"}, fd : Fd]]
    BY <1>1, <1>2, <1>3
  <2> QED
    BY <1>1, <1>4, <1>5, <1>9, <2>1, <2>2 DEF CallsInv, Control
<1>11. Owners'
  <2>1. Cardinality(Free') = Cardinality(Free) - 1
    BY <1>1, <1>3, FreeTaken, NameAssumption
  <2>2. backlog <= Cardinality(Free')
    BY <1>1, <1>2, <2>1, FreeFinite
  <2>3. owner' \in [Fd -> Routine \cup {"free", "listener", "queued"}]
    BY <1>1, <1>2
  <2>4. \A q \in Routine : call'[q].op # "none" => owner'[call'[q].fd] = q
    <3> SUFFICES ASSUME NEW q \in Routine, call'[q].op # "none", q # r
                 PROVE  owner'[call'[q].fd] = q
      BY <1>5
    <3>1. owner[call[q].fd] = q /\ call[q].fd \in Fd
      BY <1>2, <1>5 DEF CallsInv, Owners
    <3> QED
      BY <1>3, <1>5, <3>1, NameAssumption
  <2> QED
    BY <1>1, <1>2, <1>3, <1>5, <1>9, <2>2, <2>3, <2>4, NameAssumption DEF CallsInv, Owners
<1>12. EventsPart'
  <2>1. Pending' = Pending /\ \A i \in Pending : about[i] \in Fd /\ about[i] # fd
    BY <1>1, <1>3 DEF CallsInv, EventsPart, Pending, IsPending, Tainted, AfterHangup
  <2> QED
    BY <1>1, <1>4, <1>6, <2>1, EventsFrame
<1> QED
    BY <1>9, <1>10, <1>11, <1>12 DEF CallsInv
\* The objects are left alone and those who wait on a descriptor go on
\* waiting; nobody waits on the others, before or after.
LEMMA ObjectsIdle ==
    ASSUME CallsInv, linked' = linked, UNCHANGED <<vars, slot, pfds, nfds, pcap>>,
           turn' = "listen" \/ turn # "listen",
           \A g \in Known(index) : status'[g] \subseteq status[g] /\ (g \in edge => g \in edge'),
           \A g \in Fd : \/ /\ Wanted(g)' = Wanted(g) /\ Holder(g)' = Holder(g)
                            /\ owner'[g] = owner[g] /\ (Waiting(g)' <=> Waiting(g))
                         \/ g # 0 /\ ~ Waiting(g) /\ ~ Waiting(g)' /\ g \notin Known(index)
    PROVE  EpolletPart' /\ PollPart'
<1>1. UNCHANGED <<index, items, used, fill, cap, todo, epset>>
    BY DEF vars, array_vars
<1>2. EpolletPart'
  <2>1. ArrayInv' /\ FilledAreReady' /\ epset' = Known(index') /\ Known(index') = Known(index)
    BY <1>1 DEF CallsInv, EpolletPart, ArrayInv, TypeOK, IndexMatchesItems, ReportsKnown,
                FilledAreReady, Ready, Known
  <2>2. ASSUME NEW g \in Known(index) PROVE ItemKept(g)'
    <3>1. ItemKept(g) /\ g \in Fd
      BY <2>2 DEF CallsInv, EpolletPart, Known
    <3>2. /\ Wanted(g)' = Wanted(g) /\ Holder(g)' = Holder(g) /\ owner'[g] = owner[g]
          /\ status'[g] \subseteq status[g] /\ (g \in edge => g \in edge')
      BY <2>2, <3>1
    <3> QED
      BY <1>1, <3>1, <3>2 DEF ItemKept
  <2>3. \A g \in Fd : Waiting(g)' \/ (g = 0 /\ turn' # "listen") => Waiting(g) \/ (g = 0 /\ turn # "listen")
    OBVIOUS
  <2> QED
    BY <2>1, <2>2, <2>3 DEF CallsInv, EpolletPart
<1>3. PollPart'
  <2>1. PollInv'
    BY DEF CallsInv, PollPart, PollInv, PollTypeOK, IndexMatchesPfds
  <2>2. Registered' = Registered /\ Registrations' = Registrations
    BY DEF Registered, Registrations
  <2>3. ASSUME NEW g \in Registered
        PROVE  (g = 0 \/ Waiting(g)') /\ Registrations[g] = Entry(g)'
    <3>1. g \in Fd /\ (g = 0 \/ Waiting(g)) /\ Registrations[g] = Entry(g)
      BY <2>3 DEF CallsInv, PollPart, Registered
    <3>2. Wanted(g)' = Wanted(g) /\ Holder(g)' = Holder(g) /\ (Waiting(g)' <=> Waiting(g))
      BY <3>1
    <3> QED
      BY <3>1, <3>2 DEF Entry
  <2>4. \A g \in Fd : Waiting(g)' \/ (g = 0 /\ turn' # "listen") => Waiting(g) \/ (g = 0 /\ turn # "listen")
    OBVIOUS
  <2> QED
    BY <2>1, <2>2, <2>3, <2>4 DEF CallsInv, PollPart
<1> QED
    BY <1>2, <1>3

\* An accepted connection is queued; it may have been the last.
LEMMA AcceptInv == ASSUME CallsInv, Accept PROVE CallsInv'
<1>0. /\ backlog \in Nat /\ backlog <= MaxBacklog /\ edge \subseteq epset
      /\ backlog <= Cardinality(Free)
      /\ owner \in [Fd -> Routine \cup {"free", "listener", "queued"}]
      /\ status \in [Fd -> SUBSET {"IN", "OUT", "HUP"}]
      /\ backlog > 0 /\ turn = "accept" /\ \A q \in Routine : at[q] # "try"
    BY DEF CallsInv, Owners, Control, Accept
<1>20. PICK fd \in Fd : fd = Min(Free)
    BY <1>0, FreeFinite, FreeDescriptor
<1>1. /\ owner' = [owner EXCEPT ![fd] = "queued"]
      /\ status' = [status EXCEPT ![fd] = {"OUT"}, ![0] = IF backlog = 1 THEN {} ELSE @]
      /\ backlog' = backlog - 1
      /\ UNCHANGED <<linked, vars, slot, pfds, nfds, pcap, assoc, edge, at, call, robbed,
                     turn, cur, evts, about>>
    BY <1>20 DEF Accept, object_vars, routine_vars, loop_vars
<1>2. /\ fd \in Fd /\ owner[fd] = "free" /\ status[fd] = {} /\ fd # 0 /\ ~ IsPending(fd)
      /\ ~ Waiting(fd) /\ fd \notin Known(index) /\ fd \notin Registered /\ fd \notin DOMAIN assoc
    BY <1>0, <1>20, FreeFinite, FreeDescriptor
<1>3. /\ owner'[fd] = "queued" /\ \A g \in Fd \ {fd} : owner'[g] = owner[g]
      /\ \A g \in Fd \ {fd} : status'[g] \subseteq status[g] /\ (g # 0 => status'[g] = status[g])
    BY <1>0, <1>1, <1>2, ListenerFacts
<1>4. \A g \in Fd \ {fd} : Same(g)
    BY <1>1, <1>3 DEF Same, Waiting
<1>5. ~ Waiting(fd)'
    BY <1>3, NameAssumption DEF Waiting
<1>6. Control'
    BY <1>1 DEF CallsInv, Control, vars
<1>7. Owners'
  <2>1. Cardinality(Free') = Cardinality(Free) - 1
    BY <1>1, <1>2, FreeTaken
  <2>2. backlog' \in 0 .. MaxBacklog /\ backlog' <= Cardinality(Free')
    BY <1>0, <1>1, <2>1, FreeFinite, BacklogAssumption
  <2>3. /\ owner' \in [Fd -> Routine \cup {"free", "listener", "queued"}]
        /\ status' \in [Fd -> SUBSET {"IN", "OUT", "HUP"}]
    BY <1>0, <1>1, ListenerFacts
  <2>4. \A q \in Routine : call'[q].op # "none" => owner'[call'[q].fd] = q
    <3> SUFFICES ASSUME NEW q \in Routine, call[q].op # "none"
                 PROVE  owner'[call[q].fd] = q
      BY <1>1
    <3>1. owner[call[q].fd] = q /\ call[q].fd \in Fd
      BY DEF CallsInv, Owners, Control
    <3> QED
      BY <1>2, <1>3, <3>1, NameAssumption
  <2>5. status'[0] \subseteq {"IN"} /\ (backlog' = 0 => status'[0] = {})
    BY <1>0, <1>1, <1>2, ListenerFacts DEF CallsInv, Owners
  <2>6. status'[fd] = {"OUT"}
    BY <1>0, <1>1, <1>2, ListenerFacts
  <2> QED
    BY <1>1, <1>2, <1>3, <2>2, <2>3, <2>4, <2>5, <2>6 DEF CallsInv, Owners, vars
<1>8. EpolletPart' /\ PollPart'
  <2>1. \A g \in Known(index) : g \in Fd \ {fd}
    BY <1>2 DEF Known
  <2> QED
    BY <1>0, <1>1, <1>2, <1>3, <1>4, <1>5, <2>1, SameEntry, ObjectsIdle
<1>9. \A g \in Fd : IsPending(g)' <=> IsPending(g)
    BY <1>1 DEF IsPending, Pending, Tainted, AfterHangup
<1>10. PortPart'
  <2>1. \A q \in Routine : at'[q] # "try"
    BY <1>0, <1>1
  <2> QED
    BY <1>0, <1>1, <1>2, <1>4, <1>5, <1>9, <2>1, PortFrame, PortIdle
<1>11. EventsPart'
  <2>1. Pending' = Pending /\ \A i \in Pending : about[i] \in Fd /\ about[i] # fd /\ about[i] # 0
    BY <1>0, <1>1, <1>2 DEF CallsInv, EventsPart, EventKept, Pending, IsPending, Tainted, AfterHangup
  <2> QED
    BY <1>0, <1>1, <1>3, <1>4, <2>1, EventsFrame
<1> QED
    BY <1>6, <1>7, <1>8, <1>10, <1>11 DEF CallsInv
\* A closed descriptor is forgotten by the object and by the kernel.
LEMMA CloseInv ==
    ASSUME CallsInv, NEW r \in Routine, NEW fd \in Fd, Close(r, fd)
    PROVE  CallsInv'
<1>1. /\ at[r] = "code" /\ owner[fd] = r /\ dissociate_onclose(fd)
      /\ owner' = [owner EXCEPT ![fd] = "free"]
      /\ status' = [status EXCEPT ![fd] = {}]
      /\ edge' = edge \ {fd}
      /\ UNCHANGED <<linked, backlog, at, call, robbed, turn, cur, evts, about>>
    BY DEF Close, routine_vars, loop_vars
<1>2. /\ turn = "events" /\ fd # 0 /\ ~ Waiting(fd) /\ ~ IsPending(fd)
      /\ \A q \in Routine : at'[q] # "try"
    BY <1>1, CodeFacts
<1>3. /\ owner \in [Fd -> Routine \cup {"free", "listener", "queued"}]
      /\ status \in [Fd -> SUBSET {"IN", "OUT", "HUP"}]
      /\ linked \in {"epollet", "poll", "port"} /\ epset = Known(index) /\ edge \subseteq epset
    BY DEF CallsInv, Owners, Control, EpolletPart
<1>4. /\ owner'[fd] = "free" /\ status'[fd] = {}
      /\ \A g \in Fd \ {fd} : owner'[g] = owner[g] /\ status'[g] = status[g]
    BY <1>1, <1>3
<1>5. \A g \in Fd \ {fd} : Same(g)
    BY <1>1, <1>4 DEF Same, Waiting
<1>6. ~ Waiting(fd)' /\ \A g \in Fd : IsPending(g)' <=> IsPending(g)
    BY <1>1, <1>4, NameAssumption DEF Waiting, IsPending, Pending, Tainted, AfterHangup
<1>7. EpolletPart' /\ PollPart' /\ PortPart' /\ todo' = todo /\ epset \ {fd} \subseteq epset'
  <2>1. CASE linked = "epollet"
    <3>1. CASE index[fd] = -1
      <4>1. UNCHANGED <<vars, slot, pfds, nfds, pcap, assoc>>
        BY <1>1, <2>1, <3>1 DEF dissociate_onclose, Nothing, object_vars
      <4>2. fd \notin Known(index) /\ \A g \in Known(index) : g \in Fd \ {fd}
        BY <3>1 DEF Known
      <4>3. EpolletPart' /\ PollPart'
        BY <1>1, <1>2, <1>4, <1>5, <1>6, <4>1, <4>2, SameEntry, ObjectsIdle
      <4> QED
        BY <1>1, <2>1, <4>1, <4>3, PortIdle DEF vars
    <3>2. CASE index[fd] # -1
      <4>1. ef_epoll_dissociate_onclose(fd) /\ UNCHANGED <<slot, pfds, nfds, pcap, assoc>>
        BY <1>1, <2>1, <3>2 DEF dissociate_onclose, Object
      <4>2. /\ ArrayInv' /\ FilledAreReady' /\ epset' = Known(index') /\ todo' = todo
            /\ Known(index') = Known(index) \ {fd} /\ epset' = epset \ {fd}
            /\ \A g \in Known(index) \ {fd} : items'[index'[g]] = items[index[g]]
        BY <2>1, <4>1, RemoveEpollet
      <4>3. \A g \in Known(index) \ {fd} :
               status'[g] \subseteq status[g] /\ (g \in edge \cup todo => g \in edge' \cup todo')
        BY <1>1, <1>4, <4>2 DEF Known
      <4>4. EpolletPart'
        BY <1>1, <1>2, <1>5, <1>6, <2>1, <4>2, <4>3, EpolletFrame
      <4> QED
        BY <1>1, <2>1, <4>1, <4>2, <4>4, PollIdle, PortIdle
    <3> QED
      BY <3>1, <3>2
  <2>2. CASE linked = "poll"
    <3>1. fd \notin Registered
      BY <1>2 DEF CallsInv, PollPart
    <3>2. slot[fd].idx < 0
      BY <3>1 DEF Registered, CallsInv, PollPart, PollInv, PollTypeOK
    <3>3. UNCHANGED <<vars, slot, pfds, nfds, pcap, assoc>>
      BY <1>1, <2>2, <3>2 DEF dissociate_onclose, Nothing, object_vars
    <3>4. Known(index) = {}
      BY <2>2 DEF CallsInv, EpolletPart
    <3>5. EpolletPart' /\ PollPart'
      BY <1>1, <1>2, <1>5, <1>6, <3>3, <3>4, SameEntry, ObjectsIdle
    <3> QED
      BY <1>1, <2>2, <3>3, <3>5, PortIdle DEF vars
  <2>3. CASE linked = "port"
    <3>1. ef_port_dissociate(fd, FALSE) /\ UNCHANGED <<vars, slot, pfds, nfds, pcap>>
      BY <1>1, <2>3 DEF dissociate_onclose, Object
    <3>2. assoc' = [g \in DOMAIN assoc \ {fd} |-> assoc[g]]
      BY <3>1 DEF ef_port_dissociate
    <3>3. PortPart'
      BY <1>1, <1>2, <1>5, <1>6, <2>3, <3>2, PortFrame
    <3> QED
      BY <1>1, <2>3, <3>1, <3>3, EpolletIdle, PollIdle DEF vars
  <2> QED
    BY <1>3, <2>1, <2>2, <2>3
<1>8. Control'
    BY <1>1, <1>7 DEF CallsInv, Control
<1>9. Owners'
  <2>1. IsFiniteSet(Free') /\ Cardinality(Free) <= Cardinality(Free')
    <3>1. Free \subseteq Free' /\ Free' \subseteq Free \cup {fd}
      BY <1>4 DEF Free
    <3>2. IsFiniteSet(Free \cup {fd})
      BY FreeFinite, FS_AddElement
    <3>3. IsFiniteSet(Free')
      BY <3>1, <3>2, FS_Subset
    <3> QED
      BY <3>1, <3>3, FS_Subset
  <2>2. backlog' \in 0 .. MaxBacklog /\ backlog' <= Cardinality(Free')
    BY <1>1, <2>1, FreeFinite, FS_CardinalityType, BacklogAssumption DEF CallsInv, Owners
  <2>3. \A q \in Routine : call'[q].op # "none" => owner'[call'[q].fd] = q
    <3> SUFFICES ASSUME NEW q \in Routine, call[q].op # "none"
                 PROVE  owner'[call[q].fd] = q
      BY <1>1
    <3>1. owner[call[q].fd] = q /\ call[q].fd \in Fd
      BY DEF CallsInv, Owners, Control
    <3> QED
      BY <1>1, <1>2, <1>4, <3>1 DEF Waiting
  <2>4. /\ owner' \in [Fd -> Routine \cup {"free", "listener", "queued"}]
        /\ status' \in [Fd -> SUBSET {"IN", "OUT", "HUP"}]
    BY <1>1, <1>3
  <2>5. edge' \subseteq epset'
    BY <1>1, <1>3, <1>7
  <2> QED
    BY <1>1, <1>2, <1>4, <2>2, <2>3, <2>4, <2>5 DEF CallsInv, Owners
<1>10. EventsPart'
  <2>1. Pending' = Pending /\ \A i \in Pending : about[i] \in Fd /\ about[i] # fd
    BY <1>1, <1>2 DEF CallsInv, EventsPart, Pending, IsPending, Tainted, AfterHangup
  <2>2. \A i \in Pending : status[about[i]] \subseteq status'[about[i]]
    BY <1>4, <2>1
  <2> QED
    BY <1>1, <1>2, <1>5, <2>1, <2>2, EventsFrame
<1> QED
    BY <1>7, <1>8, <1>9, <1>10 DEF CallsInv

\* A coroutine that owns nothing exits.
LEMMA ReturnInv ==
    ASSUME CallsInv, NEW r \in Routine, Return(r)
    PROVE  CallsInv'
<1>1. /\ at[r] = "code" /\ \A fd \in Fd : owner[fd] # r
      /\ at' = [at EXCEPT ![r] = "none"]
      /\ UNCHANGED <<linked, vars, slot, pfds, nfds, pcap, assoc, owner, status, edge, backlog,
                     call, robbed, turn, cur, evts, about>>
    BY DEF Return, Place, object_vars, kernel_vars, loop_vars
<1>2. at \in [Routine -> {"none", "code", "try", "parked"}]
    BY DEF CallsInv, Control
<1>3. /\ call[r].op = "none" /\ turn = "events" /\ \A q \in Routine : at[q] # "try"
    BY <1>1, CodeFacts
<1>4. at'[r] = "none" /\ \A q \in Routine \ {r} : at'[q] = at[q]
    BY <1>1, <1>2
<1>5. \A g \in Fd : Same(g)
    BY <1>1, <1>4 DEF Same, Waiting
<1>6. /\ \A g \in Fd : IsPending(g)' <=> IsPending(g)
      /\ \A q \in Routine : at'[q] # "try"
    BY <1>1, <1>3, <1>4 DEF IsPending, Pending, Tainted, AfterHangup
<1>7. Control'
  <2>1. at' \in [Routine -> {"none", "code", "try", "parked"}]
    BY <1>1, <1>2
  <2> QED
    BY <1>1, <1>3, <1>4, <2>1 DEF CallsInv, Control, vars
<1>8. Owners'
    BY <1>1 DEF CallsInv, Owners, Free, vars
<1>9. EpolletPart' /\ PollPart'
  <2>1. \A g \in Known(index) : status'[g] \subseteq status[g] /\ (g \in edge => g \in edge')
    BY <1>1
  <2> QED
    BY <1>1, <1>3, <1>5, <2>1, SameEntry, ObjectsIdle
<1>10. PortPart'
    BY <1>1, <1>3, <1>5, <1>6, ListenerFacts, SameEntry DEF CallsInv, PortPart
<1>11. EventsPart'
  <2>1. Pending' = Pending /\ \A i \in Pending : about[i] \in Fd
    BY <1>1 DEF CallsInv, EventsPart, Pending, Tainted, AfterHangup
  <2> QED
    BY <1>1, <1>3, <1>5, <2>1, EventsFrame
<1> QED
    BY <1>7, <1>8, <1>9, <1>10, <1>11 DEF CallsInv
-----------------------------------------------------------------------------
(* The steps of the loop that leave the object alone *)

\* A queued connection is nobody's business but the queue's.
LEMMA QueueTurnInv == ASSUME CallsInv, QueueTurn PROVE CallsInv'
<1>1. /\ turn = "events" /\ cur > Len(evts) /\ \A q \in Routine : at[q] \notin {"code", "try"}
      /\ UNCHANGED <<linked, vars, slot, pfds, nfds, pcap, assoc, status, edge, backlog, call, robbed>>
    BY DEF QueueTurn, Active, object_vars
<1>2. /\ owner \in [Fd -> Routine \cup {"free", "listener", "queued"}]
      /\ at \in [Routine -> {"none", "code", "try", "parked"}]
      /\ Len(evts) \in Nat /\ cur \in Nat /\ Pending = {}
    BY <1>1 DEF CallsInv, Owners, Control, EventsPart, Pending
<1>3. \A g \in Fd : ~ IsPending(g)
    BY <1>2 DEF IsPending
<1>4. \A g \in Known(index) : status'[g] \subseteq status[g] /\ (g \in edge => g \in edge')
    BY <1>1
<1>5. ASSUME NEW fd \in Fd, NEW r \in Routine, owner[fd] = "queued", at[r] = "none",
             owner' = [owner EXCEPT ![fd] = r], at' = [at EXCEPT ![r] = "code"],
             UNCHANGED <<turn, cur, evts, about>>
      PROVE  CallsInv'
  <2>1. /\ owner'[fd] = r /\ \A g \in Fd \ {fd} : owner'[g] = owner[g]
        /\ at'[r] = "code" /\ \A q \in Routine \ {r} : at'[q] = at[q]
    BY <1>2, <1>5
  <2>2. call[r].op = "none" /\ fd # 0 /\ ~ Waiting(fd)
    BY <1>5, NameAssumption DEF CallsInv, Control, Owners, Waiting
  <2>3. \A g \in Fd \ {fd} : Same(g)
    BY <1>1, <2>1, <2>2, OthersSame
  <2>4. ~ Waiting(fd)' /\ \A g \in Fd : IsPending(g)' <=> IsPending(g)
    BY <1>1, <1>5, <2>1, <2>2 DEF Waiting, IsPending, Pending, Tainted, AfterHangup
  <2>5. fd \notin Known(index) /\ fd \notin DOMAIN assoc
    BY <1>5, <2>2, NameAssumption DEF CallsInv, EpolletPart, ItemKept, PortPart
  <2>6. \A q \in Routine : at'[q] # "try"
    BY <1>1, <2>1
  <2>7. Control'
    <3>1. at' \in [Routine -> {"none", "code", "try", "parked"}]
      BY <1>2, <1>5
    <3> QED
      BY <1>1, <1>5, <2>1, <2>2, <3>1 DEF CallsInv, Control, vars
  <2>8. Owners'
    <3>1. owner' \in [Fd -> Routine \cup {"free", "listener", "queued"}]
      BY <1>2, <1>5
    <3>2. Free' = Free
      BY <1>5, <2>1, NameAssumption DEF Free
    <3>3. \A q \in Routine : call'[q].op # "none" => owner'[call'[q].fd] = q
      <4> SUFFICES ASSUME NEW q \in Routine, call[q].op # "none"
                   PROVE  owner'[call[q].fd] = q
        BY <1>1
      <4>1. owner[call[q].fd] = q /\ call[q].fd \in Fd
        BY DEF CallsInv, Owners, Control
      <4> QED
        BY <1>5, <2>1, <4>1, NameAssumption
    <3> QED
      BY <1>1, <1>5, <2>1, <2>2, <3>1, <3>2, <3>3, NameAssumption DEF CallsInv, Owners, vars
  <2>9. EpolletPart' /\ PollPart'
    BY <1>1, <1>4, <1>5, <2>2, <2>3, <2>4, <2>5, SameEntry, ObjectsIdle
  <2>10. PortPart'
    BY <1>1, <1>5, <2>2, <2>3, <2>4, <2>5, <2>6, PortFrame, PortIdle
  <2>11. EventsPart'
    <3>1. cur' = cur /\ evts' = evts
      BY <1>5
    <3>2. cur' .. Len(evts') = {}
      BY <1>1, <1>2, <3>1
    <3>3. Pending' = {}
      BY <3>2 DEF Pending
    <3> QED
      BY <1>1, <1>5, <3>3, EventsFrame
  <2> QED
    BY <2>7, <2>8, <2>9, <2>10, <2>11 DEF CallsInv
<1>6. ASSUME turn' = "wait", evts' = <<>>, about' = <<>>, cur' = 1, UNCHANGED <<owner, at>>
      PROVE  CallsInv'
  <2>1. \A g \in Fd : Same(g)
    BY <1>1, <1>6, AllSame
  <2>2. Pending' = {} /\ Len(evts') = 0 /\ Len(about') = 0
    BY <1>6 DEF Pending
  <2>3. \A g \in Fd : ~ IsPending(g)'
    BY <2>2 DEF IsPending
  <2>4. Control'
    BY <1>1, <1>6 DEF CallsInv, Control, vars
  <2>5. Owners'
    BY <1>1, <1>6 DEF CallsInv, Owners, Free, vars
  <2>6. EpolletPart' /\ PollPart'
    BY <1>1, <1>4, <2>1, SameEntry, ObjectsIdle
  <2>7. PortPart'
    BY <1>1, <1>3, <1>6, <2>1, <2>3, SameEntry DEF CallsInv, PortPart
  <2>8. EventsPart'
    BY <1>6, <2>2 DEF EventsPart
  <2> QED
    BY <2>4, <2>5, <2>6, <2>7, <2>8 DEF CallsInv
<1> QED
    BY <1>5, <1>6 DEF QueueTurn, loop_vars

\* The next event is still to be handled and is for whoever it says.
LEMMA NextEventFacts ==
    ASSUME CallsInv, NextEvent, linked' = linked, ~ Tainted(cur)
    PROVE  /\ turn = "events" /\ \A q \in Routine : at[q] \notin {"code", "try"}
           /\ cur \in Pending /\ cur' = cur + 1 /\ UNCHANGED <<evts, about>>
           /\ EventKept(cur) /\ about[cur] \in Fd
           /\ Pending' = Pending \ {cur} /\ IsPending(about[cur])
           /\ \A i \in Pending' : about[i] \in Fd /\ about[i] # about[cur]
           /\ \A g \in Fd : IsPending(g)' <=> IsPending(g) /\ g # about[cur]
           /\ about[cur] \notin DOMAIN assoc
<1>1. /\ turn = "events" /\ \A q \in Routine : at[q] \notin {"code", "try"}
      /\ cur <= Len(evts) /\ cur' = cur + 1 /\ UNCHANGED <<evts, about>>
    BY DEF NextEvent, Active
<1>2. /\ cur \in Nat /\ cur >= 1 /\ Len(evts) \in Nat /\ about \in [1 .. Len(evts) -> Fd]
      /\ \A i \in Pending : EventKept(i)
      /\ \A i, j \in Pending : about[i] = about[j] => i = j
    BY DEF CallsInv, EventsPart
<1>3. cur \in Pending /\ Pending' = Pending \ {cur} /\ Pending \subseteq 1 .. Len(evts)
  <2>1. \A i \in 1 .. Len(evts) : Tainted(i)' <=> Tainted(i)
    BY <1>1 DEF Tainted, AfterHangup
  <2> QED
    BY <1>1, <1>2, <2>1 DEF Pending
<1>4. /\ IsPending(about[cur])
      /\ \A g \in Fd : IsPending(g)' <=> IsPending(g) /\ g # about[cur]
    BY <1>1, <1>2, <1>3 DEF IsPending
<1>5. about[cur] \notin DOMAIN assoc
    BY <1>4 DEF CallsInv, PortPart
<1>6. \A i \in Pending' : about[i] \in Fd /\ about[i] # about[cur]
    BY <1>2, <1>3
<1> QED
    BY <1>1, <1>2, <1>3, <1>4, <1>5, <1>6

\* A hangup of epollet.c, or what follows it, may find its routine anywhere; the
\* events of other routines are not concerned.
LEMMA NextTaintedFacts ==
    ASSUME CallsInv, NextEvent, linked' = linked, Tainted(cur)
    PROVE  /\ turn = "events" /\ \A q \in Routine : at[q] \notin {"code", "try"}
           /\ cur' = cur + 1 /\ UNCHANGED <<evts, about>>
           /\ linked = "epollet" /\ evts[cur].ptr \in Routine /\ DOMAIN assoc = {}
           /\ \A g \in Fd : IsPending(g)' <=> IsPending(g)
           /\ \A i \in Pending' : about[i] \in Fd
           /\ \A i \in Pending' : about[i] # 0 => owner[about[i]] # evts[cur].ptr
<1>1. /\ turn = "events" /\ \A q \in Routine : at[q] \notin {"code", "try"}
      /\ cur <= Len(evts) /\ cur' = cur + 1 /\ UNCHANGED <<evts, about>>
    BY DEF NextEvent, Active
<1>2. /\ cur \in Nat /\ cur >= 1 /\ Len(evts) \in Nat /\ about \in [1 .. Len(evts) -> Fd]
      /\ \A i \in Pending : EventKept(i)
    BY DEF CallsInv, EventsPart
<1>3. linked = "epollet" /\ evts[cur].ptr \in Routine /\ DOMAIN assoc = {}
    BY DEF Tainted, CallsInv, PortPart
<1>4. Pending' = Pending /\ Pending \subseteq cur + 1 .. Len(evts)
  <2>1. \A i \in 1 .. Len(evts) : Tainted(i)' <=> Tainted(i)
    BY <1>1 DEF Tainted, AfterHangup
  <2> QED
    BY <1>1, <1>2, <2>1 DEF Pending
<1>5. ASSUME NEW i \in Pending, about[i] # 0
      PROVE  owner[about[i]] # evts[cur].ptr
  <2>1. evts[i].ptr = owner[about[i]]
    BY <1>2, <1>5 DEF EventKept, Holder
  <2>2. ~ Tainted(i) /\ cur < i
    BY <1>2, <1>4 DEF Pending
  <2>3. evts[i].ptr # evts[cur].ptr
    <3>1. PICK j \in 1 .. cur : evts[j].ptr = evts[cur].ptr /\ "HUP" \in evts[j].events
      BY DEF Tainted, AfterHangup
    <3>2. j \in 1 .. i
      BY <1>2, <1>4, <2>2
    <3> QED
      BY <1>3, <2>2, <3>1, <3>2 DEF Tainted, AfterHangup
  <2> QED
    BY <2>1, <2>3
<1>6. \A g \in Fd : IsPending(g)' <=> IsPending(g)
    BY <1>1, <1>4 DEF IsPending
<1>7. \A i \in Pending' : about[i] \in Fd
    BY <1>2, <1>4
<1> QED
    BY <1>1, <1>3, <1>4, <1>5, <1>6, <1>7

\* The listener's event begins the accepts.
LEMMA AcceptEventInv == ASSUME CallsInv, AcceptEvent PROVE CallsInv'
<1>1. /\ NextEvent /\ evts[cur].ptr = Listener /\ turn' = "accept"
      /\ UNCHANGED <<linked, vars, slot, pfds, nfds, pcap, assoc, owner, status, edge, backlog,
                     at, call, robbed>>
    BY DEF AcceptEvent, object_vars, kernel_vars, routine_vars
<1>2. /\ turn = "events" /\ \A q \in Routine : at[q] \notin {"code", "try"}
      /\ cur' = cur + 1 /\ UNCHANGED <<evts, about>>
      /\ EventKept(cur) /\ about[cur] \in Fd
      /\ \A i \in Pending' : about[i] \in Fd /\ about[i] # about[cur]
      /\ \A g \in Fd : IsPending(g)' <=> IsPending(g) /\ g # about[cur]
      /\ about[cur] \notin DOMAIN assoc
  <2>1. ~ Tainted(cur)
    BY <1>1, NameAssumption DEF Tainted
  <2> QED
    BY <1>1, <2>1, NextEventFacts
<1>3. about[cur] = 0
    BY <1>1, <1>2, NameAssumption DEF EventKept, Holder, Waiting
<1>4. \A g \in Fd : Same(g)
    BY <1>1, AllSame
<1>5. Control'
    BY <1>1, <1>2 DEF CallsInv, Control, vars
<1>6. Owners'
    BY <1>1 DEF CallsInv, Owners, Free, vars
<1>7. EpolletPart' /\ PollPart'
  <2>1. \A g \in Known(index) : status'[g] \subseteq status[g] /\ (g \in edge => g \in edge')
    BY <1>1
  <2> QED
    BY <1>1, <1>2, <1>4, <2>1, SameEntry, ObjectsIdle
<1>8. PortPart'
  <2>1. \A q \in Routine : at'[q] # "try"
    BY <1>1, <1>2
  <2>2. ~ Waiting(0)'
    BY <1>1, ListenerFacts DEF Waiting
  <2> QED
    BY <1>1, <1>2, <1>3, <1>4, <2>1, <2>2, ListenerFacts, PortFrame, PortIdle
<1>9. EventsPart'
    BY <1>1, <1>2, <1>3, <1>4, EventsFrame
<1> QED
    BY <1>5, <1>6, <1>7, <1>8, <1>9 DEF CallsInv
-----------------------------------------------------------------------------
(* The steps of a system call that is tried *)

\* What is taken back is not so at that moment: nothing is lost with it.
LEMMA AfterUnset ==
    ASSUME CallsInv, linked' = linked, NEW fd \in Fd, NEW events, unset(fd, events),
           status[fd] \cap events = {}, UNCHANGED <<owner, status, edge, call>>,
           turn # "listen", turn' # "listen", \A g \in Fd \ {fd} : Same(g)
    PROVE  EpolletPart' /\ PollPart' /\ todo' = todo /\ epset' = epset /\ assoc' = assoc
<1>1. \A g \in Fd : /\ Wanted(g)' = Wanted(g) /\ Holder(g)' = Holder(g)
                    /\ owner'[g] = owner[g] /\ (Waiting(g)' <=> Waiting(g))
    BY DEF Wanted, Holder, Waiting
<1>2. CASE linked = "epollet"
  <2>1. /\ ArrayInv' /\ FilledAreReady' /\ epset' = Known(index') /\ todo' = todo
        /\ Known(index') = Known(index) /\ epset' = epset /\ fd \in Known(index)
        /\ items'[index'[fd]].ptr = items[index[fd]].ptr
        /\ items'[index'[fd]].waiting = items[index[fd]].waiting
        /\ items'[index'[fd]].fired = items[index[fd]].fired \ events
        /\ \A g \in Known(index) \ {fd} : items'[index'[g]] = items[index[g]]
        /\ UNCHANGED <<slot, pfds, nfds, pcap, assoc>>
    BY <1>2, UnsetEpollet
  <2>2. ItemKept(fd)
    BY <2>1 DEF CallsInv, EpolletPart
  <2>3. ItemKept(fd)'
    BY <1>1, <2>1, <2>2 DEF ItemKept
  <2>4. EpolletPart'
    BY <1>2, <2>1, <2>3, EpolletFrame
  <2> QED
    BY <1>2, <2>1, <2>4, PollIdle
<1>3. CASE linked # "epollet"
  <2>1. UNCHANGED <<vars, slot, pfds, nfds, pcap, assoc>>
    BY <1>3 DEF unset, Nothing, object_vars
  <2>2. \A g \in Known(index) : status'[g] \subseteq status[g] /\ (g \in edge => g \in edge')
    OBVIOUS
  <2>3. EpolletPart' /\ PollPart'
    BY <1>1, <2>1, <2>2, ObjectsIdle
  <2> QED
    BY <2>1, <2>3 DEF vars
<1> QED
    BY <1>2, <1>3

\* accept says EAGAIN: the backlog is empty, and IN is taken back.
LEMMA AcceptFailsInv == ASSUME CallsInv, AcceptFails PROVE CallsInv'
<1>1. /\ turn = "accept" /\ backlog = 0 /\ unset(0, {"IN"}) /\ turn' = "accepted"
      /\ UNCHANGED <<linked, owner, status, edge, backlog, at, call, robbed, cur, evts, about>>
    BY DEF AcceptFails, kernel_vars, routine_vars
<1>2. status[0] = {}
    BY <1>1 DEF CallsInv, Owners
<1>3. \A g \in Fd : Same(g)
    BY <1>1, AllSame
<1>4. EpolletPart' /\ PollPart' /\ todo' = todo /\ epset' = epset /\ assoc' = assoc
    BY <1>1, <1>2, <1>3, ListenerFacts, AfterUnset
<1>5. Control'
    BY <1>1, <1>4 DEF CallsInv, Control
<1>6. Owners'
    BY <1>1, <1>4 DEF CallsInv, Owners, Free
<1>7. PortPart'
  <2>1. \A g \in Fd : IsPending(g)' <=> IsPending(g)
    BY <1>1 DEF IsPending, Pending, Tainted, AfterHangup
  <2> QED
    BY <1>1, <1>3, <1>4, <2>1, ListenerFacts, SameEntry DEF CallsInv, PortPart, Control
<1>8. EventsPart'
  <2>1. Pending' = Pending /\ \A i \in Pending : about[i] \in Fd /\ about[i] # 0
    BY <1>1 DEF CallsInv, EventsPart, EventKept, Pending, Tainted, AfterHangup
  <2> QED
    BY <1>1, <1>3, <2>1, EventsFrame
<1> QED
    BY <1>4, <1>5, <1>6, <1>7, <1>8 DEF CallsInv

\* A routine inside of a system call: the descriptor is its own.
LEMMA TryFacts ==
    ASSUME CallsInv, NEW r \in Routine, at[r] \in {"parked", "try"}
    PROVE  /\ call[r].fd \in Fd /\ call[r].fd # 0 /\ owner[call[r].fd] = r /\ Waiting(call[r].fd)
           /\ call[r].op # "none" /\ Holder(call[r].fd) = r
           /\ Wanted(call[r].fd) = Awaited(call[r].op)
           /\ at[r] = "try" => /\ call[r].op \in {"read", "write"} /\ turn = "events"
                               /\ \A q \in Routine \ {r} : at[q] \notin {"code", "try"}
                               /\ ~ IsPending(call[r].fd) /\ call[r].fd \notin DOMAIN assoc
<1>1. /\ call[r].fd \in Fd /\ call[r].fd # 0 /\ owner[call[r].fd] = r /\ Waiting(call[r].fd)
      /\ call[r].op # "none" /\ Holder(call[r].fd) = r
      /\ Wanted(call[r].fd) = Awaited(call[r].op)
    BY WaitingKnown, NameAssumption DEF CallsInv, Control, Owners
<1>2. ASSUME at[r] = "try"
      PROVE  /\ call[r].op \in {"read", "write"} /\ turn = "events"
             /\ \A q \in Routine \ {r} : at[q] \notin {"code", "try"}
             /\ ~ IsPending(call[r].fd) /\ call[r].fd \notin DOMAIN assoc
  <2>1. /\ call[r].op \in {"read", "write"} /\ turn = "events"
        /\ \A q \in Routine \ {r} : at[q] \notin {"code", "try"}
    BY <1>1, <1>2 DEF CallsInv, Control
  <2>2. ~ IsPending(call[r].fd)
    BY <1>1, <1>2, RunningNotPending DEF IsPending
  <2>3. call[r].fd \notin DOMAIN assoc
    BY <1>1, <1>2 DEF CallsInv, PortPart
  <2> QED
    BY <2>1, <2>2, <2>3
<1> QED
    BY <1>1, <1>2

\* The system call says EAGAIN and the routine yields.
LEMMA TryAgainInv ==
    ASSUME CallsInv, NEW r \in Routine, TryAgain(r)
    PROVE  CallsInv'
<1>0. PICK fd \in Fd : fd = call[r].fd
    BY TryFacts DEF TryAgain
<1>1. /\ at[r] = "try" /\ status[fd] \cap (Awaited(call[r].op) \cup {"HUP"}) = {}
      /\ unset(fd, Unsets(call[r].op)) /\ at' = [at EXCEPT ![r] = "parked"]
      /\ UNCHANGED <<linked, owner, status, edge, backlog, call, robbed, turn, cur, evts, about>>
    BY <1>0 DEF TryAgain, Place, kernel_vars, loop_vars
<1>2. /\ fd # 0 /\ owner[fd] = r /\ Waiting(fd) /\ ~ IsPending(fd)
      /\ call[r].op \in {"read", "write"} /\ turn = "events"
      /\ \A q \in Routine \ {r} : at[q] \notin {"code", "try"}
    BY <1>0, <1>1, TryFacts
<1>3. /\ at \in [Routine -> {"none", "code", "try", "parked"}]
      /\ linked \in {"epollet", "poll", "port"}
    BY DEF CallsInv, Control
<1>4. at'[r] = "parked" /\ \A q \in Routine \ {r} : at'[q] = at[q]
    BY <1>1, <1>3
<1>5. linked = "port" => r \in robbed
    BY <1>0, <1>1 DEF CallsInv, PortPart
<1>6. \A g \in Fd \ {fd} : Same(g)
    BY <1>0, <1>1, <1>4, OthersSame
<1>7. status[fd] \cap Unsets(call[r].op) = {}
    BY <1>1, <1>2 DEF Awaited, Unsets
<1>8. EpolletPart' /\ PollPart' /\ todo' = todo /\ epset' = epset /\ assoc' = assoc
    BY <1>1, <1>2, <1>6, <1>7, AfterUnset
<1>9. Control'
  <2>1. at' \in [Routine -> {"none", "code", "try", "parked"}]
    BY <1>1, <1>3
  <2> QED
    BY <1>1, <1>2, <1>4, <1>8, <2>1 DEF CallsInv, Control
<1>10. Owners'
    BY <1>1, <1>8 DEF CallsInv, Owners, Free
<1>11. PortPart'
  <2>1. fd \notin DOMAIN assoc
    BY <1>0, <1>1, TryFacts
  <2>2. /\ \A g \in Fd : IsPending(g)' <=> IsPending(g)
        /\ \A q \in Routine : at'[q] # "try"
    BY <1>1, <1>2, <1>4 DEF IsPending, Pending, Tainted, AfterHangup
  <2> QED
    BY <1>1, <1>2, <1>5, <1>6, <1>8, <2>1, <2>2, PortFrame, PortIdle
<1>12. EventsPart'
  <2>1. Pending' = Pending /\ \A i \in Pending : about[i] \in Fd /\ about[i] # fd
    BY <1>1, <1>2 DEF CallsInv, EventsPart, Pending, IsPending, Tainted, AfterHangup
  <2> QED
    BY <1>1, <1>2, <1>6, <2>1, EventsFrame
<1> QED
    BY <1>8, <1>9, <1>10, <1>11, <1>12 DEF CallsInv
\* The wrapped call returns, with its answer or because it is of no use to go
\* on: the object stops watching and the routine runs.
LEMMA FinishInv ==
    ASSUME CallsInv, NEW r \in Routine, at[r] \in {"parked", "try"}, Finish(r),
           NEW fd \in Fd, fd = call[r].fd, fd \notin DOMAIN assoc,
           turn = "events", \A q \in Routine \ {r} : at[q] \notin {"code", "try"},
           UNCHANGED <<linked, owner, edge, backlog, turn, evts, about>>,
           cur' = cur \/ cur' = cur + 1,
           status' \in [Fd -> SUBSET {"IN", "OUT", "HUP"}], status'[fd] \subseteq status[fd],
           \A g \in Fd \ {fd} : status'[g] = status[g],
           \A i \in Pending' : about[i] \in Fd /\ about[i] # fd,
           \A g \in Fd \ {fd} : IsPending(g)' <=> IsPending(g)
    PROVE  CallsInv'
<1>1. /\ dissociate(fd) /\ at' = [at EXCEPT ![r] = "code"] /\ call' = [call EXCEPT ![r] = NoCall]
      /\ robbed' = robbed \ {r}
    BY DEF Finish, Place, Returns
<1>2. /\ fd # 0 /\ owner[fd] = r /\ Waiting(fd) /\ call[r].op # "none"
      /\ Holder(fd) = r
    BY TryFacts
<1>3. /\ at \in [Routine -> {"none", "code", "try", "parked"}]
      /\ call \in [Routine -> [op : {"none", "read", "write", "connect"}, fd : Fd]]
      /\ linked \in {"epollet", "poll", "port"}
      /\ edge \subseteq epset
    BY DEF CallsInv, Control, Owners
<1>4. /\ at'[r] = "code" /\ call'[r] = NoCall /\ NoCall.op = "none"
      /\ \A q \in Routine \ {r} : at'[q] = at[q] /\ call'[q] = call[q]
    BY <1>1, <1>3 DEF NoCall
<1>5. \A g \in Fd \ {fd} : Same(g)
    BY <1>1, <1>4, OthersSame
<1>6. ~ Waiting(fd)' /\ Wanted(fd)' = {} /\ Holder(fd)' = r
    BY <1>2, <1>4 DEF Waiting, Wanted, Holder
<1>7. \A q \in Routine : at'[q] # "try"
    BY <1>4
<1>8. EpolletPart' /\ PollPart' /\ PortPart' /\ todo' = todo /\ epset' = epset
  <2>1. CASE linked = "epollet"
    <3>1. /\ ArrayInv' /\ FilledAreReady' /\ epset' = Known(index') /\ todo' = todo
          /\ Known(index') = Known(index) /\ epset' = epset /\ fd \in Known(index)
          /\ items'[index'[fd]].ptr = items[index[fd]].ptr /\ items'[index'[fd]].waiting = {}
          /\ items'[index'[fd]].fired = items[index[fd]].fired
          /\ \A g \in Known(index) \ {fd} : items'[index'[g]] = items[index[g]]
          /\ UNCHANGED <<slot, pfds, nfds, pcap, assoc>>
      BY <1>1, <2>1, DissociateEpollet
    <3>2. ItemKept(fd)
      BY <3>1 DEF CallsInv, EpolletPart
    <3>3. ItemKept(fd)'
      BY <1>2, <1>6, <3>1, <3>2 DEF ItemKept
    <3>4. \A g \in Known(index) \ {fd} :
             status'[g] \subseteq status[g] /\ (g \in edge \cup todo => g \in edge' \cup todo')
      BY <3>1 DEF Known
    <3>5. EpolletPart'
      BY <1>2, <1>5, <1>6, <2>1, <3>1, <3>3, <3>4, EpolletFrame
    <3> QED
      BY <2>1, <3>1, <3>5, PollIdle, PortIdle
  <2>2. CASE linked = "poll"
    <3>1. ef_poll_dissociate(fd) /\ UNCHANGED <<vars, assoc>>
      BY <1>1, <2>2 DEF dissociate, Object
    <3>2. /\ PollInv' /\ Registered' = Registered \ {fd}
          /\ \A g \in Registered \ {fd} : Registrations'[g] = Registrations[g]
      BY <2>2, <3>1, RemovePoll
    <3>3. PollPart'
      BY <1>2, <1>5, <1>6, <2>2, <3>2, PollFrame
    <3> QED
      BY <2>2, <3>1, <3>3, EpolletIdle, PortIdle DEF vars
  <2>3. CASE linked = "port"
    <3>1. assoc' = assoc /\ UNCHANGED <<vars, slot, pfds, nfds, pcap>>
      BY <1>1, <2>3 DEF dissociate, Object, ef_port_dissociate
    <3>2. PortPart'
      BY <1>2, <1>5, <1>6, <1>7, <2>3, <3>1, PortFrame
    <3> QED
      BY <2>3, <3>1, <3>2, EpolletIdle, PollIdle DEF vars
  <2> QED
    BY <1>3, <2>1, <2>2, <2>3
<1>9. Control'
  <2>1. at' \in [Routine -> {"none", "code", "try", "parked"}]
    BY <1>1, <1>3
  <2>2. call' \in [Routine -> [op : {"none", "read", "write", "connect"}, fd : Fd]]
    BY <1>1, <1>3, ListenerFacts DEF NoCall
  <2> QED
    BY <1>1, <1>4, <1>8, <2>1, <2>2 DEF CallsInv, Control
<1>10. Owners'
  <2>1. Free' = Free
    BY DEF Free
  <2>2. \A q \in Routine : call'[q].op # "none" => owner'[call'[q].fd] = q
    BY <1>4 DEF CallsInv, Owners
  <2>3. status'[0] = status[0]
    BY <1>2, ListenerFacts
  <2>4. \A g \in Fd : owner'[g] = "free" => status'[g] = {}
    BY DEF CallsInv, Owners
  <2> QED
    BY <1>3, <1>8, <2>1, <2>2, <2>3, <2>4 DEF CallsInv, Owners
<1>11. EventsPart'
  <2>1. \A i \in Pending' : /\ Same(about[i])
                            /\ linked = "port" => status[about[i]] \subseteq status'[about[i]]
    BY <1>5
  <2> QED
    BY <2>1, EventsFrame
<1> QED
    BY <1>8, <1>9, <1>10, <1>11 DEF CallsInv

\* The system call has its effect.
LEMMA SucceedsInv ==
    ASSUME CallsInv, NEW r \in Routine, Succeeds(r)
    PROVE  CallsInv'
<1>0. PICK fd \in Fd : fd = call[r].fd
    BY TryFacts DEF Succeeds
<1>1. /\ at[r] = "try" /\ Finish(r)
      /\ \/ UNCHANGED status
         \/ status' = [status EXCEPT ![fd] = @ \ Awaited(call[r].op)]
      /\ UNCHANGED <<linked, owner, edge, backlog, turn, cur, evts, about>>
    BY <1>0 DEF Succeeds, loop_vars
<1>2. /\ turn = "events" /\ \A q \in Routine \ {r} : at[q] \notin {"code", "try"}
      /\ ~ IsPending(fd) /\ fd \notin DOMAIN assoc
    BY <1>0, <1>1, TryFacts
<1>3. status \in [Fd -> SUBSET {"IN", "OUT", "HUP"}]
    BY DEF CallsInv, Owners
<1>4. /\ status' \in [Fd -> SUBSET {"IN", "OUT", "HUP"}] /\ status'[fd] \subseteq status[fd]
      /\ \A g \in Fd \ {fd} : status'[g] = status[g]
    BY <1>1, <1>3
<1>5. /\ Pending' = Pending /\ \A i \in Pending : about[i] \in Fd /\ about[i] # fd
      /\ \A g \in Fd : IsPending(g)' <=> IsPending(g)
    BY <1>1, <1>2 DEF CallsInv, EventsPart, Pending, IsPending, Tainted, AfterHangup
<1> QED
    BY <1>0, <1>1, <1>2, <1>4, <1>5, FinishInv

\* A routine told of its event tries the call.
LEMMA ResumedTries ==
    ASSUME CallsInv, NEW r \in Routine, at[r] = "parked", NEW fd \in Fd, fd = call[r].fd,
           call[r].op \in {"read", "write"}, at' = [at EXCEPT ![r] = "try"], cur' = cur + 1,
           UNCHANGED <<linked, vars, slot, pfds, nfds, pcap, assoc, owner, status, edge, backlog,
                       call, robbed, turn, evts, about>>,
           turn = "events", \A q \in Routine : at[q] \notin {"code", "try"},
           fd \notin DOMAIN assoc,
           \A i \in Pending' : about[i] \in Fd /\ about[i] # fd,
           \A g \in Fd \ {fd} : IsPending(g)' <=> IsPending(g),
           linked = "port" => \/ status[fd] \cap (Awaited(call[r].op) \cup {"HUP"}) # {}
                              \/ r \in robbed
    PROVE  CallsInv'
<1>1. fd # 0 /\ owner[fd] = r /\ Waiting(fd)
    BY TryFacts
<1>2. at \in [Routine -> {"none", "code", "try", "parked"}]
    BY DEF CallsInv, Control
<1>3. at'[r] = "try" /\ \A q \in Routine \ {r} : at'[q] = at[q]
    BY <1>2
<1>4. \A g \in Fd \ {fd} : Same(g)
    BY <1>3, OthersSame
<1>5. \A g \in Fd : /\ Wanted(g)' = Wanted(g) /\ Holder(g)' = Holder(g)
                    /\ owner'[g] = owner[g] /\ (Waiting(g)' <=> Waiting(g))
    BY DEF Wanted, Holder, Waiting
<1>6. Control'
  <2>1. at' \in [Routine -> {"none", "code", "try", "parked"}]
    BY <1>2
  <2> QED
    BY <1>3, <2>1 DEF CallsInv, Control, vars
<1>7. Owners'
    BY DEF CallsInv, Owners, Free, vars
<1>8. EpolletPart' /\ PollPart'
  <2>1. \A g \in Known(index) : status'[g] \subseteq status[g] /\ (g \in edge => g \in edge')
    OBVIOUS
  <2> QED
    BY <1>5, <2>1, ObjectsIdle
<1>9. PortPart'
  <2>1. CASE linked = "port"
    <3>1. \A q \in Routine : at'[q] = "try" =>
             status'[call'[q].fd] \cap (Awaited(call'[q].op) \cup {"HUP"}) # {} \/ q \in robbed'
      BY <1>3, <2>1
    <3>2. ~ (at'[owner'[fd]] = "parked")
      BY <1>1, <1>3
    <3> QED
      BY <1>1, <1>4, <2>1, <3>1, <3>2, PortFrame
  <2>2. CASE linked # "port"
    BY <2>2, PortIdle
  <2> QED
    BY <2>1, <2>2
<1>10. EventsPart'
    BY <1>4, EventsFrame
<1> QED
    BY <1>6, <1>7, <1>8, <1>9, <1>10 DEF CallsInv

\* What becomes of the routine the next event is for.
LEMMA ResumeCases ==
    ASSUME Resume, NEW r, r = evts[cur].ptr
    PROVE  \/ at[r] # "parked" /\ UNCHANGED <<object_vars, routine_vars>>
           \/ at[r] = "parked" /\ Finish(r)
           \/ /\ at[r] = "parked" /\ at' = [at EXCEPT ![r] = "try"]
              /\ UNCHANGED <<object_vars, call, robbed>>
              /\ \/ call[r].op = "read" /\ evts[cur].events \cap {"IN", "HUP"} # {}
                 \/ call[r].op = "write" /\ "OUT" \in evts[cur].events
    BY DEF Resume, Place, Nothing

\* The run loop resumes the routine an event is for.
LEMMA ResumeInv == ASSUME CallsInv, Resume PROVE CallsInv'
<1>0. /\ NextEvent /\ evts[cur].ptr # Listener
      /\ UNCHANGED <<linked, turn, owner, status, edge, backlog>>
    BY DEF Resume, kernel_vars
<1>1. status \in [Fd -> SUBSET {"IN", "OUT", "HUP"}]
    BY DEF CallsInv, Owners
<1>2. CASE ~ Tainted(cur)
  <2>1. /\ turn = "events" /\ \A q \in Routine : at[q] \notin {"code", "try"}
        /\ cur \in Pending /\ cur' = cur + 1 /\ UNCHANGED <<evts, about>>
        /\ EventKept(cur) /\ about[cur] \in Fd
        /\ \A i \in Pending' : about[i] \in Fd /\ about[i] # about[cur]
        /\ \A g \in Fd : IsPending(g)' <=> IsPending(g) /\ g # about[cur]
        /\ about[cur] \notin DOMAIN assoc
    BY <1>0, <1>2, NextEventFacts
  <2>2. PICK r \in Routine : r = evts[cur].ptr /\ at[r] = "parked" /\ about[cur] = call[r].fd
    BY <1>0, <2>1 DEF EventKept, Waiting, Holder
  <2>3. PICK fd \in Fd : fd = about[cur] /\ fd = call[r].fd
    BY <2>1, <2>2
  <2>4. CASE Finish(r)
    BY <1>0, <1>1, <2>1, <2>2, <2>3, <2>4, FinishInv
  <2>5. ASSUME at' = [at EXCEPT ![r] = "try"], UNCHANGED <<object_vars, call, robbed>>,
               \/ call[r].op = "read" /\ evts[cur].events \cap {"IN", "HUP"} # {}
               \/ call[r].op = "write" /\ "OUT" \in evts[cur].events
        PROVE  CallsInv'
    <3>1. fd # 0 /\ owner[fd] = r /\ Waiting(fd)
      BY <2>2, <2>3, TryFacts
    <3>2. linked = "port" => \/ status[fd] \cap (Awaited(call[r].op) \cup {"HUP"}) # {}
                             \/ r \in robbed
      BY <2>1, <2>3, <2>5, <3>1 DEF EventKept, Awaited
    <3> QED
      BY <1>0, <2>1, <2>2, <2>3, <2>5, <3>2, ResumedTries DEF object_vars
  <2> QED
    BY <2>2, <2>4, <2>5, ResumeCases
<1>3. CASE Tainted(cur)
  <2>1. /\ turn = "events" /\ \A q \in Routine : at[q] \notin {"code", "try"}
        /\ cur' = cur + 1 /\ UNCHANGED <<evts, about>>
        /\ linked = "epollet" /\ evts[cur].ptr \in Routine /\ DOMAIN assoc = {}
        /\ \A g \in Fd : IsPending(g)' <=> IsPending(g)
        /\ \A i \in Pending' : about[i] \in Fd
        /\ \A i \in Pending' : about[i] # 0 => owner[about[i]] # evts[cur].ptr
    BY <1>0, <1>3, NextTaintedFacts
  <2>2. PICK r \in Routine : r = evts[cur].ptr
    BY <2>1
  <2>3. CASE at[r] # "parked" /\ UNCHANGED <<object_vars, routine_vars>>
    <3>1. UNCHANGED <<vars, slot, pfds, nfds, pcap, assoc, at, call, robbed>>
      BY <2>3 DEF object_vars, routine_vars
    <3>2. \A g \in Fd : Same(g)
      BY <1>0, <3>1, AllSame
    <3>3. Control'
      BY <1>0, <2>1, <3>1 DEF CallsInv, Control, vars
    <3>4. Owners'
      BY <1>0, <3>1 DEF CallsInv, Owners, Free, vars
    <3>5. EpolletPart' /\ PollPart'
      <4>1. \A g \in Known(index) : status'[g] \subseteq status[g] /\ (g \in edge => g \in edge')
        BY <1>0
      <4> QED
        BY <1>0, <2>1, <3>1, <3>2, <4>1, SameEntry, ObjectsIdle
    <3>6. PortPart'
      BY <1>0, <2>1, <3>1, PortIdle
    <3>7. EventsPart'
      BY <1>0, <2>1, <3>2, EventsFrame
    <3> QED
      BY <3>3, <3>4, <3>5, <3>6, <3>7 DEF CallsInv
  <2>4. ASSUME at[r] = "parked"
        PROVE  /\ call[r].fd \in Fd /\ call[r].fd \notin DOMAIN assoc
               /\ \A i \in Pending' : about[i] \in Fd /\ about[i] # call[r].fd
    BY <2>1, <2>2, <2>4, TryFacts
  <2>5. CASE at[r] = "parked" /\ Finish(r)
    <3>1. PICK fd \in Fd : fd = call[r].fd
      BY <2>4, <2>5
    <3> QED
      BY <1>0, <1>1, <2>1, <2>2, <2>4, <2>5, <3>1, FinishInv
  <2>6. ASSUME at[r] = "parked", at' = [at EXCEPT ![r] = "try"], UNCHANGED <<object_vars, call, robbed>>,
               call[r].op \in {"read", "write"}
        PROVE  CallsInv'
    <3>1. PICK fd \in Fd : fd = call[r].fd
      BY <2>4, <2>6
    <3> QED
      BY <1>0, <2>1, <2>2, <2>4, <2>6, <3>1, ResumedTries DEF object_vars
  <2> QED
    BY <2>2, <2>3, <2>5, <2>6, ResumeCases
<1> QED
    BY <1>2, <1>3
-----------------------------------------------------------------------------
(* The kernel is asked *)

\* What has changed and is so is now in the list of reports.
LEMMA AskKernelInv == ASSUME CallsInv, AskKernel PROVE CallsInv'
<1>1. /\ turn = "wait" /\ linked = "epollet" /\ todo = {} /\ turn' = "collect"
      /\ todo' = {g \in edge : status[g] # {}} /\ edge' = {}
      /\ UNCHANGED <<linked, index, items, used, fill, cap, epset, slot, pfds, nfds, pcap, assoc,
                     owner, status, backlog, at, call, robbed, cur, evts, about>>
    BY DEF AskKernel, PollKernel, Idle, array_vars, routine_vars
<1>2. \A g \in Fd : Same(g)
    BY <1>1, AllSame
<1>3. Control'
    BY <1>1 DEF CallsInv, Control
<1>4. Owners'
    BY <1>1 DEF CallsInv, Owners, Free
<1>5. EpolletPart'
  <2>1. PollKernel /\ ArrayInv
    BY DEF AskKernel, CallsInv, EpolletPart
  <2>2. ArrayInv'
    BY <2>1, PollKernelInv
  <2>3. FilledAreReady' /\ epset' = Known(index') /\ Known(index') = Known(index)
    BY <1>1 DEF CallsInv, EpolletPart, FilledAreReady, Ready
  <2>4. ASSUME NEW g \in Known(index) PROVE ItemKept(g)'
    <3>1. ItemKept(g) /\ g \in Fd
      BY <2>4 DEF CallsInv, EpolletPart, Known
    <3>2. Wanted(g)' = Wanted(g) /\ Holder(g)' = Holder(g)
      BY <1>2, <3>1, SameEntry
    <3>3. g \in edge' \cup todo' \/ status[g] \subseteq items[index[g]].fired
      BY <1>1, <3>1 DEF ItemKept
    <3> QED
      BY <1>1, <3>1, <3>2, <3>3 DEF ItemKept
  <2>5. \A g \in Fd : Waiting(g)' <=> Waiting(g)
    BY <1>2, SameEntry
  <2> QED
    BY <1>1, <2>2, <2>3, <2>4, <2>5 DEF CallsInv, EpolletPart
<1>6. PollPart' /\ PortPart'
    BY <1>1, PollIdle, PortIdle
<1>7. EventsPart'
    BY <1>1 DEF CallsInv, EventsPart, Pending, Tainted, AfterHangup
<1> QED
    BY <1>3, <1>4, <1>5, <1>6, <1>7 DEF CallsInv

\* Each report reaches its item.
LEMMA CollectInv == ASSUME CallsInv, Collect PROVE CallsInv'
<1>1. /\ turn = "collect"
      /\ UNCHANGED <<linked, owner, status, edge, backlog, at, call, robbed, cur, evts, about>>
    BY DEF Collect, kernel_vars, routine_vars
<1>2. \A g \in Fd : Same(g)
    BY <1>1, AllSame
<1>3. Len(evts) = 0 /\ cur = 1 /\ Pending = {}
    BY <1>1 DEF CallsInv, EventsPart, Pending, Tainted, AfterHangup
<1>4. turn' \in {"wait", "collect"} /\ (todo' # {} => turn' = "collect")
    BY <1>1 DEF Collect, Nothing, object_vars, vars
<1>5. EventsPart'
    BY <1>1, <1>3, <1>4 DEF CallsInv, EventsPart, Pending, Tainted, AfterHangup
<1>6. Control'
    BY <1>1, <1>4 DEF CallsInv, Control
<1>7. \A g \in Fd : IsPending(g)' <=> IsPending(g)
    BY <1>1 DEF IsPending, Pending, Tainted, AfterHangup
<1>8. CASE todo = {}
  <2>1. UNCHANGED <<vars, slot, pfds, nfds, pcap, assoc>>
    BY <1>8 DEF Collect, Nothing, object_vars
  <2>2. Owners'
    BY <1>1, <2>1 DEF CallsInv, Owners, Free, vars
  <2>3. \A g \in Known(index) : status'[g] \subseteq status[g] /\ (g \in edge => g \in edge')
    BY <1>1
  <2>4. EpolletPart' /\ PollPart'
    BY <1>1, <1>2, <2>1, <2>3, SameEntry, ObjectsIdle
  <2>5. PortPart'
    BY <1>1, <1>2, <1>4, <1>7, <2>1, ListenerFacts, SameEntry DEF CallsInv, PortPart, Control
  <2> QED
    BY <1>5, <1>6, <2>2, <2>4, <2>5 DEF CallsInv
<1>9. CASE todo # {}
  <2>1. PICK fd \in todo : ApplyEvent(fd, status[fd])
    BY <1>9 DEF Collect
  <2>2. UNCHANGED <<slot, pfds, nfds, pcap, assoc>>
    BY <1>9 DEF Collect
  <2>3. /\ ArrayInv /\ FilledAreReady /\ epset = Known(index) /\ fd \in Known(index) /\ fd \in Fd
        /\ linked = "epollet" /\ turn' = turn
    BY <1>9, <2>1, ArrayFacts, ListenerFacts DEF CallsInv, EpolletPart, Known, Collect
  <2>4. status[fd] \subseteq {"IN", "OUT", "HUP"} /\ status[fd] \in SUBSET Event
    BY <2>3 DEF CallsInv, Owners, Event
  <2>5. ArrayInv' /\ FilledAreReady'
    BY <2>1, <2>3, <2>4, ApplyEventInv, ApplyEventArea
  <2>6. /\ index[fd] >= 0 /\ epset' = epset /\ todo' = todo \ {fd}
        /\ ItemBecomes(fd, [items[index[fd]] EXCEPT !.fired = @ \cup status[fd]])
    BY <2>1, <2>3, <2>4, ApplyEventItem
  <2>7. items[index[fd]] \in Item
    BY <2>3, <2>6, KnownItem
  <2>8. /\ Known(index') = Known(index)
        /\ items'[index'[fd]].ptr = items[index[fd]].ptr
        /\ items'[index'[fd]].waiting = items[index[fd]].waiting
        /\ items'[index'[fd]].fired = items[index[fd]].fired \cup status[fd]
        /\ \A g \in Known(index) \ {fd} : items'[index'[g]] = items[index[g]]
    BY <2>3, <2>6, <2>7 DEF ItemBecomes, Item
  <2>9. ItemKept(fd)'
    <3>1. ItemKept(fd)
      BY <2>3 DEF CallsInv, EpolletPart
    <3>2. Wanted(fd)' = Wanted(fd) /\ Holder(fd)' = Holder(fd)
      BY <1>2, <2>3, SameEntry
    <3> QED
      BY <1>1, <2>4, <2>8, <3>1, <3>2 DEF ItemKept
  <2>10. EpolletPart'
    <3>1. \A g \in Known(index) \ {fd} :
             status'[g] \subseteq status[g] /\ (g \in edge \cup todo => g \in edge' \cup todo')
      BY <1>1, <2>6
    <3>2. Waiting(fd)' \/ (fd = 0 /\ turn' # "listen") => fd \in Known(index')
      BY <2>3, <2>8
    <3> QED
      BY <1>1, <1>2, <2>3, <2>5, <2>6, <2>8, <2>9, <3>1, <3>2, EpolletFrame
  <2>11. Owners'
    BY <1>1, <2>6 DEF CallsInv, Owners, Free
  <2> QED
    BY <1>1, <1>5, <1>6, <2>2, <2>3, <2>10, <2>11, PollIdle, PortIdle DEF CallsInv
<1> QED
    BY <1>8, <1>9
-----------------------------------------------------------------------------
(* Events are handed out *)

\* Outside of the events nothing moves, and no system call is being tried.
LEMMA WaitFrame ==
    ASSUME CallsInv, turn = "wait", turn' = "events",
           UNCHANGED <<linked, vars, slot, pfds, nfds, pcap, owner, status, edge, backlog, at, call, robbed>>
    PROVE  /\ Control' /\ Owners' /\ EpolletPart' /\ PollPart'
           /\ \A g \in Fd : Same(g)
           /\ \A g \in Fd : Waiting(g) => at[owner[g]] = "parked"
           /\ \A q \in Routine : at[q] # "try" /\ at'[q] # "try"
<1>1. \A g \in Fd : Same(g)
    BY AllSame
<1>2. \A q \in Routine : at[q] # "try" /\ at'[q] # "try"
    BY DEF CallsInv, Control
<1>3. \A g \in Fd : Waiting(g) => at[owner[g]] = "parked"
    BY <1>2 DEF Waiting, CallsInv, Control
<1>4. Control'
    BY DEF CallsInv, Control, vars
<1>5. Owners'
    BY DEF CallsInv, Owners, Free, vars
<1>6. EpolletPart' /\ PollPart'
  <2>1. \A g \in Known(index) : status'[g] \subseteq status[g] /\ (g \in edge => g \in edge')
    OBVIOUS
  <2> QED
    BY <1>1, <2>1, SameEntry, ObjectsIdle
<1> QED
    BY <1>1, <1>2, <1>3, <1>4, <1>5, <1>6

\* Events each for the one who waits on its descriptor, and no descriptor twice.
LEMMA HandedOut ==
    ASSUME CallsInv, turn = "wait", turn' = "events", cur' = 1,
           UNCHANGED <<linked, owner, status, at, call, robbed>>,
           NEW n \in Nat, Len(evts') = n, Len(about') = n, about' \in [1 .. n -> Fd],
           \A i, j \in 1 .. n : about'[i] = about'[j] => i = j,
           \A i \in 1 .. n : ~ Tainted(i)' =>
              /\ evts'[i].ptr = Holder(about'[i])
              /\ about'[i] = 0 \/ Waiting(about'[i])
              /\ evts'[i].events \cap (Wanted(about'[i]) \cup Always) # {}
              /\ linked = "port" => /\ evts'[i].events \subseteq status[about'[i]]
                                    /\ evts'[i].events \subseteq Wanted(about'[i]) \cup Always
    PROVE  EventsPart'
<1>1. \A q \in Routine : at[q] # "try"
    BY DEF CallsInv, Control
<1>2. \A g \in Fd : Waiting(g) => at[owner[g]] = "parked"
    BY <1>1 DEF Waiting, CallsInv, Control
<1>3. Pending' = {i \in 1 .. n : ~ Tainted(i)'}
    BY DEF Pending
<1>4. ASSUME NEW i \in 1 .. n, ~ Tainted(i)' PROVE EventKept(i)'
  <2>1. PICK g \in Fd : g = about'[i]
    OBVIOUS
  <2>2. /\ evts'[i].ptr = Holder(g) /\ (g = 0 \/ Waiting(g))
        /\ evts'[i].events \cap (Wanted(g) \cup Always) # {}
        /\ linked = "port" => /\ evts'[i].events \subseteq status[g]
                              /\ evts'[i].events \subseteq Wanted(g) \cup Always
    BY <1>4, <2>1
  <2>3. /\ Holder(g)' = Holder(g) /\ Wanted(g)' = Wanted(g)
        /\ g = 0 \/ (Waiting(g)' /\ at'[owner'[g]] = "parked")
    BY <1>2, <2>2 DEF Holder, Wanted, Waiting
  <2> QED
    BY <2>1, <2>2, <2>3 DEF EventKept, Holder, Wanted, Waiting
<1> QED
    BY <1>3, <1>4 DEF EventsPart

\* ef_epoll_wait hands out the filled items.
LEMMA WaitEpolletInv == ASSUME CallsInv, WaitEpollet PROVE CallsInv'
<1> DEFINE n == Least(fill, MaxEvents)
<1>1. /\ turn = "wait" /\ linked = "epollet" /\ turn' = "events" /\ cur' = 1
      /\ evts' = [i \in 1 .. n |-> [ptr |-> items[i - 1].ptr,
                     events |-> (items[i - 1].waiting \cup Always) \cap items[i - 1].fired]]
      /\ about' = [i \in 1 .. n |-> items[i - 1].fd]
      /\ UNCHANGED <<linked, vars, slot, pfds, nfds, pcap, assoc, owner, status, edge, backlog,
                     at, call, robbed>>
    BY DEF WaitEpollet, HandOut, object_vars, kernel_vars, routine_vars
<1>2. /\ Matches(index, items, used) /\ used \in Nat /\ fill \in Nat /\ fill <= used
      /\ FilledAreReady
    BY ArrayFacts DEF CallsInv, EpolletPart
<1>3. n \in Nat /\ n <= fill
    BY <1>2, ReportAssumption DEF Least
<1> HIDE DEF n
<1>4. Len(evts') = n /\ Len(about') = n
    BY <1>1, <1>3
<1>5. ASSUME NEW i \in 1 .. n
      PROVE  /\ about'[i] \in Fd /\ index[about'[i]] = i - 1
             /\ ~ Tainted(i)' => /\ evts'[i].ptr = Holder(about'[i])
                                 /\ about'[i] = 0 \/ Waiting(about'[i])
                                 /\ evts'[i].events \cap (Wanted(about'[i]) \cup Always) # {}
  <2>1. PICK k \in 0 .. fill - 1 : k = i - 1
    BY <1>2, <1>3
  <2>2. k \in 0 .. used - 1 /\ Ready(items[k])
    BY <1>2 DEF FilledAreReady
  <2>3. PICK g \in Fd : g = items[k].fd /\ index[g] = k
    BY <1>2, <2>2, ItemFacts
  <2>4. ItemKept(g)
    BY <1>2, <2>3 DEF CallsInv, EpolletPart, Known
  <2>5. Wanted(g) # {} \/ (g # 0 /\ "HUP" \in items[k].fired)
    BY <2>2, <2>3, <2>4 DEF ItemKept, Ready, Always, Wanted
  <2>7. /\ about'[i] = g /\ evts'[i].ptr = items[k].ptr
        /\ evts'[i].events = (items[k].waiting \cup Always) \cap items[k].fired
    BY <1>1, <2>1, <2>3
  <2>8. evts'[i].events \cap (Wanted(g) \cup Always) # {} /\ evts'[i].ptr = Holder(g)
    BY <2>2, <2>3, <2>4, <2>7 DEF ItemKept, Ready
  <2>9. CASE Wanted(g) # {}
    BY <2>1, <2>3, <2>7, <2>8, <2>9 DEF Wanted
  <2>10. CASE g # 0 /\ "HUP" \in items[k].fired
    <3>1. evts'[i].ptr \in Routine /\ "HUP" \in evts'[i].events
      BY <2>4, <2>7, <2>8, <2>10 DEF ItemKept, Holder, Always
    <3>2. AfterHangup(i)'
      BY <1>3, <1>4, <3>1 DEF AfterHangup
    <3>3. linked' = "epollet"
      BY <1>1
    <3>4. Tainted(i)'
      BY <3>1, <3>2, <3>3 DEF Tainted
    <3> QED
      BY <2>1, <2>3, <2>7, <3>4
  <2> QED
    BY <2>5, <2>9, <2>10
<1>6. about' \in [1 .. n -> Fd] /\ \A i, j \in 1 .. n : about'[i] = about'[j] => i = j
  <2>1. about' \in [1 .. n -> Fd]
    BY <1>1, <1>5
  <2>2. ASSUME NEW i \in 1 .. n, NEW j \in 1 .. n, about'[i] = about'[j]
        PROVE  i = j
    <3>1. i - 1 = j - 1
      BY <1>5, <2>2
    <3> QED
      BY <1>3, <3>1
  <2> QED
    BY <2>1, <2>2
<1>7. EventsPart'
    BY <1>1, <1>3, <1>4, <1>5, <1>6, HandedOut
<1>8. Control' /\ Owners' /\ EpolletPart' /\ PollPart'
    BY <1>1, WaitFrame
<1>9. PortPart'
    BY <1>1, PortIdle
<1> QED
    BY <1>7, <1>8, <1>9 DEF CallsInv

\* ef_poll_wait hands out the slots with events.
LEMMA WaitPollInv == ASSUME CallsInv, WaitPoll PROVE CallsInv'
<1> DEFINE revents == [i \in 0 .. nfds - 1 |-> status[pfds[i].fd] \cap (pfds[i].events \cup Always)]
<1>1. /\ turn = "wait" /\ linked = "poll" /\ turn' = "events" /\ cur' = 1
      /\ UNCHANGED <<linked, vars, slot, pfds, nfds, pcap, assoc, owner, status, edge, backlog,
                     at, call, robbed>>
    BY DEF WaitPoll, object_vars, kernel_vars, routine_vars
<1>2. PICK n \in 1 .. MaxEvents : \E slots \in [1 .. n -> 0 .. nfds - 1] :
         /\ Reported(revents, slots) /\ Report(revents, slots)
         /\ about' = [i \in 1 .. n |-> pfds[slots[i]].fd]
    BY DEF WaitPoll
<1>3. PICK slots \in [1 .. n -> 0 .. nfds - 1] :
         /\ Reported(revents, slots) /\ Report(revents, slots)
         /\ about' = [i \in 1 .. n |-> pfds[slots[i]].fd]
    BY <1>2
<1>4. n \in Nat /\ nfds \in Nat /\ PollInv
    BY ReportAssumption DEF CallsInv, PollPart, PollInv, PollTypeOK
<1>5. /\ \A i \in 1 .. n : revents[slots[i]] # {}
      /\ \A i, j \in 1 .. n : i < j => slots[i] < slots[j]
      /\ evts' = [i \in 1 .. n |-> [ptr    |-> slot[pfds[slots[i]].fd].ptr,
                                    events |-> revents[slots[i]]]]
    BY <1>3 DEF Reported, Report
<1>6. Len(evts') = n /\ Len(about') = n
    BY <1>3, <1>4, <1>5
<1>7. ASSUME NEW i \in 1 .. n
      PROVE  /\ about'[i] \in Fd /\ slot[about'[i]].idx = slots[i]
             /\ evts'[i].ptr = Holder(about'[i])
             /\ about'[i] = 0 \/ Waiting(about'[i])
             /\ evts'[i].events \cap (Wanted(about'[i]) \cup Always) # {}
  <2>1. PICK k \in 0 .. nfds - 1 : k = slots[i]
    BY <1>3
  <2>2. PICK g \in Fd : g = pfds[k].fd /\ slot[g].idx = k
    BY <1>4 DEF PollInv, PollTypeOK, IndexMatchesPfds, PollFd
  <2>3. g \in Registered /\ Registrations[g] = [events |-> pfds[k].events, ptr |-> slot[g].ptr]
    BY <1>4, <2>2 DEF Registered, Registrations
  <2>4. (g = 0 \/ Waiting(g)) /\ pfds[k].events = Wanted(g) /\ slot[g].ptr = Holder(g)
    <3>1. (g = 0 \/ Waiting(g)) /\ Registrations[g] = Entry(g)
      BY <2>3 DEF CallsInv, PollPart
    <3> QED
      BY <2>3, <3>1 DEF Entry
  <2>5. about'[i] = g /\ evts'[i].ptr = slot[g].ptr /\ evts'[i].events = revents[k]
    BY <1>3, <1>5, <2>1, <2>2
  <2>6. revents[k] = status[g] \cap (Wanted(g) \cup Always) /\ revents[k] # {}
    BY <1>5, <2>1, <2>2, <2>4
  <2> HIDE DEF revents
  <2>7. evts'[i].events \cap (Wanted(g) \cup Always) # {}
    BY <2>5, <2>6
  <2> QED
    BY <2>1, <2>2, <2>4, <2>5, <2>7
<1> HIDE DEF revents
<1>8. about' \in [1 .. n -> Fd] /\ \A i, j \in 1 .. n : about'[i] = about'[j] => i = j
  <2>1. about' \in [1 .. n -> Fd]
    BY <1>3, <1>7
  <2>2. ASSUME NEW i \in 1 .. n, NEW j \in 1 .. n, about'[i] = about'[j]
        PROVE  i = j
    <3>1. slots[i] = slots[j]
      BY <1>7, <2>2
    <3>2. slots[i] \in 0 .. nfds - 1 /\ slots[j] \in 0 .. nfds - 1
      BY <1>3
    <3>3. ~ (i < j) /\ ~ (j < i)
      BY <1>4, <1>5, <3>1, <3>2
    <3> QED
      BY <1>4, <3>3
  <2> QED
    BY <2>1, <2>2
<1>9. EventsPart'
    BY <1>1, <1>4, <1>6, <1>7, <1>8, HandedOut
<1>10. Control' /\ Owners' /\ EpolletPart' /\ PollPart'
    BY <1>1, WaitFrame
<1>11. PortPart'
    BY <1>1, PortIdle
<1> QED
    BY <1>9, <1>10, <1>11 DEF CallsInv

\* A reported association is gone: its event stands for it.
LEMMA WaitPortInv == ASSUME CallsInv, WaitPort PROVE CallsInv'
<1> DEFINE revents == [fd \in DOMAIN assoc |-> status[fd] \cap (assoc[fd].events \cup Always)]
           ready   == {fd \in DOMAIN assoc : revents[fd] # {}}
<1>1. /\ turn = "wait" /\ linked = "port"
      /\ UNCHANGED <<linked, vars, slot, pfds, nfds, pcap, owner, status, edge, backlog, at, call, robbed>>
    BY DEF WaitPort, kernel_vars, routine_vars
<1> DEFINE Chosen(n, fds) ==
             /\ \A i, j \in 1 .. n : i < j => fds[i] < fds[j]
             /\ HandOut([i \in 1 .. n |-> [ptr |-> assoc[fds[i]].ptr, events |-> revents[fds[i]]]], fds)
             /\ assoc' = [g \in DOMAIN assoc \ {fds[i] : i \in 1 .. n} |-> assoc[g]]
<1>20. PICK n \in Nat : \E fds \in [1 .. n -> ready] : Chosen(n, fds)
  <2> DEFINE m == Least(Cardinality(ready), MaxEvents)
  <2>1. PICK fds \in [1 .. m -> ready] : Chosen(m, fds)
    BY DEF WaitPort
  <2>2. m \in Nat
    <3>1. ready \subseteq Fd
      BY DEF CallsInv, PortPart
    <3> HIDE DEF ready
    <3>2. IsFiniteSet(ready)
      BY <3>1, FdFinite, FS_Subset
    <3> QED
      BY <3>2, FS_CardinalityType, ReportAssumption DEF Least
  <2> HIDE DEF m, Chosen
  <2> QED
    BY <2>1, <2>2
<1>2. PICK fds \in [1 .. n -> ready] : Chosen(n, fds)
    BY <1>20
<1>3. /\ turn' = "events" /\ cur' = 1 /\ about' = fds
      /\ evts' = [i \in 1 .. n |-> [ptr |-> assoc[fds[i]].ptr, events |-> revents[fds[i]]]]
    BY <1>2 DEF HandOut
<1>4. Len(evts') = n /\ Len(about') = n
    BY <1>2, <1>3
<1>5. ASSUME NEW i \in 1 .. n
      PROVE  /\ about'[i] \in Fd /\ about'[i] \in DOMAIN assoc
             /\ evts'[i].ptr = Holder(about'[i])
             /\ about'[i] = 0 \/ Waiting(about'[i])
             /\ evts'[i].events \cap (Wanted(about'[i]) \cup Always) # {}
             /\ evts'[i].events \subseteq status[about'[i]]
             /\ evts'[i].events \subseteq Wanted(about'[i]) \cup Always
  <2>1. PICK g \in ready : g = fds[i]
    BY <1>2
  <2>2. g \in DOMAIN assoc /\ revents[g] # {} /\ revents[g] = status[g] \cap (assoc[g].events \cup Always)
    OBVIOUS
  <2> HIDE DEF revents
  <2>3. g \in Fd /\ (g = 0 \/ Waiting(g)) /\ assoc[g] = Entry(g)
    BY <2>2 DEF CallsInv, PortPart
  <2>4. assoc[g].events = Wanted(g) /\ assoc[g].ptr = Holder(g)
    BY <2>3 DEF Entry
  <2>5. about'[i] = g /\ evts'[i].ptr = assoc[g].ptr /\ evts'[i].events = revents[g]
    BY <1>3, <2>1
  <2>6. evts'[i].events \cap (Wanted(g) \cup Always) # {} /\ evts'[i].events \subseteq status[g]
        /\ evts'[i].events \subseteq Wanted(g) \cup Always
    BY <2>2, <2>4, <2>5
  <2> QED
    BY <2>2, <2>3, <2>4, <2>5, <2>6
<1>6. DOMAIN assoc' = DOMAIN assoc \ {about'[i] : i \in 1 .. n} /\ \A g \in DOMAIN assoc' : assoc'[g] = assoc[g]
    BY <1>2, <1>3
<1> HIDE DEF revents, ready
<1>7. about' \in [1 .. n -> Fd] /\ \A i, j \in 1 .. n : about'[i] = about'[j] => i = j
  <2>1. about' \in [1 .. n -> Fd]
    BY <1>2, <1>3, <1>5
  <2>2. ASSUME NEW i \in 1 .. n, NEW j \in 1 .. n, about'[i] = about'[j]
        PROVE  i = j
    <3>1. fds[i] = fds[j] /\ fds[i] \in Int
      BY <1>3, <1>5, <2>2 DEF Fd
    <3> QED
      BY <1>2, <3>1
  <2> QED
    BY <2>1, <2>2
<1>8. EventsPart'
    BY <1>1, <1>3, <1>4, <1>5, <1>7, HandedOut
<1>9. /\ Control' /\ Owners' /\ EpolletPart' /\ PollPart'
      /\ \A g \in Fd : Same(g)
      /\ \A q \in Routine : at[q] # "try" /\ at'[q] # "try"
    BY <1>1, <1>3, WaitFrame
<1>10. PortPart'
  <2>1. \A g \in Fd : IsPending(g)' <=> \E i \in 1 .. n : about'[i] = g
    BY <1>1, <1>3, <1>4 DEF IsPending, Pending, Tainted
  <2>2. ASSUME NEW g \in DOMAIN assoc'
        PROVE  /\ g \in Fd /\ ~ IsPending(g)'
               /\ g = 0 \/ (Waiting(g) /\ at[owner[g]] = "parked")'
               /\ assoc'[g] = Entry(g)'
    <3>1. /\ g \in DOMAIN assoc /\ assoc'[g] = assoc[g] /\ g \in Fd
          /\ ~ \E i \in 1 .. n : about'[i] = g
      BY <1>6 DEF CallsInv, PortPart
    <3> QED
      BY <1>9, <2>1, <3>1, SameEntry DEF CallsInv, PortPart
  <2>3. ASSUME NEW g \in Fd, \/ (Waiting(g) /\ at[owner[g]] = "parked")'
                             \/ g = 0
        PROVE  g \in DOMAIN assoc' \/ IsPending(g)' \/ owner'[g] \in robbed'
    <3>1. \A h \in Fd : ~ IsPending(h)
      BY <1>1 DEF CallsInv, EventsPart, IsPending, Pending
    <3>2. g \in DOMAIN assoc \/ owner[g] \in robbed
      BY <1>1, <1>9, <2>3, <3>1, SameEntry DEF CallsInv, PortPart
    <3> QED
      BY <1>1, <1>6, <2>1, <3>2
  <2> QED
    BY <1>1, <1>9, <2>2, <2>3 DEF PortPart
<1> QED
    BY <1>8, <1>9, <1>10 DEF CallsInv
-----------------------------------------------------------------------------
(* The theorems *)

\* A step that changes nothing.
LEMMA StutterInv == ASSUME CallsInv, UNCHANGED all_vars PROVE CallsInv'
<1>1. UNCHANGED <<linked, vars, slot, pfds, nfds, pcap, assoc, owner, status, edge, backlog,
                  at, call, robbed, turn, cur, evts, about>>
    BY DEF all_vars, object_vars, kernel_vars, routine_vars, loop_vars
<1>2. UNCHANGED <<linked, object_vars, at, call, loop_vars, owner>>
    BY <1>1 DEF object_vars, loop_vars
<1>3. /\ status' \in [Fd -> SUBSET {"IN", "OUT", "HUP"}]
      /\ \A g \in Fd : owner[g] = "free" => status'[g] = {}
      /\ robbed' \subseteq {r \in Routine : call[r].op = "read"}
      /\ edge' \subseteq epset /\ backlog' \in 0 .. MaxBacklog /\ backlog' <= Cardinality(Free)
      /\ status'[0] \subseteq {"IN"} /\ (backlog' = 0 => status'[0] = {})
    BY <1>1 DEF CallsInv, Owners, Control
<1> QED
    BY <1>1, <1>2, <1>3, KernelStep

\* One case for each step of the program and of the kernel.
LEMMA CallsNextInv == ASSUME CallsInv, [CallsNext]_all_vars PROVE CallsInv'
<1>1. CASE Kernel
    BY <1>1, KernelInv
<1>2. CASE Loop
    BY <1>2, ListenFirstInv, AskKernelInv, CollectInv, WaitEpolletInv, WaitPollInv, WaitPortInv,
       AcceptEventInv, AcceptInv, AcceptFailsInv, ListenAgainInv, QueueTurnInv, ResumeInv DEF Loop
<1>3. ASSUME NEW r \in Routine, Run(r) PROVE CallsInv'
  <2>1. ASSUME NEW fd \in Fd, Begin(r, "read", fd) \/ Begin(r, "write", fd) \/ Close(r, fd)
        PROVE  CallsInv'
    BY <2>1, BeginInv, CloseInv
  <2> QED
    BY <1>3, <2>1, ConnectInv, SucceedsInv, TryAgainInv, ReturnInv DEF Run
<1>4. CASE UNCHANGED all_vars
    BY <1>4, StutterInv
<1> QED
    BY <1>1, <1>2, <1>3, <1>4 DEF CallsNext

\* The invariant holds in every state the calls, the loop and the kernel reach.
THEOREM CallsSafe == CallsSpec => []CallsInv
<1>1. CallsInit => CallsInv
    BY InitInv
<1>2. CallsInv /\ [CallsNext]_all_vars => CallsInv'
    BY CallsNextInv
<1> QED
    BY <1>1, <1>2, PTL DEF CallsSpec

\* Over each of the three poll objects the descriptors, calls and events of
\* ef_run_loop and the wrapped calls stay of the kind the code expects, and at most
\* one coroutine runs.
THEOREM CallsTypeCorrect == CallsSpec => []CallsTypeOK
    BY CallsSafe, InvTypeOK, PTL

\* A wake-up is not lost between the call that is told EAGAIN, unset and the yield
\* (ef_routine_read and the other wrapped calls): what a parked routine waits for is
\* handed out, or the object watches for it on the routine's behalf and learns of
\* it; the same for the listener.  The one way to lose it is over port.c, where a
\* read is told of data that has gone when it comes to it (framework.c:426).
THEOREM WakeupsKept == CallsSpec => []NoOtherLostWakeup
    BY CallsSafe, InvWakesUp, PTL

\* ef_run_loop resumes a routine only for the descriptor its call waits on.  The one
\* way to get somebody else's event is over epollet.c, by a hangup for a routine
\* that may wait elsewhere (epollet.c:139, 279), or in the same batch behind one.
THEOREM ResumedForOwnEvents == CallsSpec => []NoOtherForeignEvent
    BY CallsSafe, InvOwnEvents, PTL
-----------------------------------------------------------------------------
(* poll.c under the wrapped calls *)

\* What a step does to poll.c and to the events handed out.
PollEffect ==
    /\ linked' = linked
    /\ linked # "poll" => UNCHANGED <<slot, pfds, nfds>>
    /\ linked = "poll" =>
          \/ \E fd \in Fd, events \in {{"IN"}, {"OUT"}} : \E p \in PollPtr :
                ef_poll_associate(fd, events, p)
          \/ \E fd \in Fd : ef_poll_dissociate(fd)
          \/ UNCHANGED <<slot, pfds, nfds>> /\ evts' \in {evts, <<>>}
          \/ WaitPoll

\* The calls of the poll object that change poll.c do it by the operation of the
\* same name.
LEMMA AssociateEffect ==
    ASSUME linked' = linked, NEW fd \in Fd, NEW events \in {{"IN"}, {"OUT"}},
           NEW p \in Routine \cup {Listener}, associate(fd, events, p)
    PROVE  PollEffect
<1>1. p \in PollPtr
    BY PtrAssumption
<1> QED
    BY <1>1 DEF associate, Object, PollEffect

LEMMA DissociateEffect ==
    ASSUME linked' = linked, evts' = evts, NEW fd \in Fd,
           dissociate(fd) \/ dissociate_onclose(fd)
    PROVE  PollEffect
    BY DEF dissociate, dissociate_onclose, Object, Nothing, object_vars, PollEffect

LEMMA IdleEffect ==
    ASSUME linked' = linked, UNCHANGED <<slot, pfds, nfds>>, evts' \in {evts, <<>>}
    PROVE  PollEffect
    BY DEF PollEffect

\* One case for each step; the steps that touch no poll object are alike.
LEMMA CallsEffect == ASSUME CallsInv, CallsNext PROVE PollEffect
<1>1. CASE Kernel
  <2>1. linked' = linked /\ UNCHANGED <<slot, pfds, nfds, evts>>
    BY <1>1 DEF Kernel, PeerConnects, DataArrives, RoomArrives, HangsUp, DataVanishes, Quiet,
                object_vars, loop_vars
  <2> QED
    BY <2>1, IdleEffect
<1>2. CASE ListenFirst \/ ListenAgain
    BY <1>2, BoundAssumption, AssociateEffect DEF ListenFirst, ListenAgain, Fd
<1>3. CASE AskKernel \/ Collect \/ AcceptEvent \/ Accept
  <2>1. linked' = linked /\ UNCHANGED <<slot, pfds, nfds, evts>>
    BY <1>3 DEF AskKernel, Collect, AcceptEvent, Accept, NextEvent, Nothing, object_vars, loop_vars
  <2> QED
    BY <2>1, IdleEffect
<1>4. CASE WaitEpollet \/ WaitPort \/ WaitPoll
    BY <1>4 DEF WaitEpollet, WaitPort, WaitPoll, object_vars, PollEffect
<1>5. CASE AcceptFails
  <2>1. linked' = linked /\ UNCHANGED <<slot, pfds, nfds, evts>>
    BY <1>5 DEF AcceptFails, unset, Object, Nothing, object_vars
  <2> QED
    BY <2>1, IdleEffect
<1>6. CASE QueueTurn
  <2>1. linked' = linked /\ UNCHANGED <<slot, pfds, nfds>> /\ evts' \in {evts, <<>>}
    BY <1>6 DEF QueueTurn, object_vars, loop_vars
  <2> QED
    BY <2>1, IdleEffect
<1>7. ASSUME NEW r \in Routine, Finish(r), linked' = linked, evts' = evts PROVE PollEffect
  <2>1. call[r].fd \in Fd
    BY DEF CallsInv, Control
  <2> QED
    BY <1>7, <2>1, DissociateEffect DEF Finish
<1>8. CASE Resume
  <2>1. linked' = linked /\ evts' = evts
    BY <1>8 DEF Resume, NextEvent
  <2> DEFINE r == evts[cur].ptr
  <2>2. CASE UNCHANGED object_vars
    BY <2>1, <2>2, IdleEffect DEF object_vars
  <2>3. CASE at[r] = "parked" /\ Finish(r)
    <3>1. NextEvent /\ r # Listener
      BY <1>8 DEF Resume
    <3>2. CASE ~ Tainted(cur)
      <4>1. EventKept(cur) /\ about[cur] \in Fd
        BY <2>1, <3>1, <3>2, NextEventFacts
      <4>2. PICK q \in Routine : q = r
        BY <3>1, <4>1 DEF EventKept, Waiting, Holder
      <4> QED
        BY <1>7, <2>1, <2>3, <4>2
    <3>3. CASE Tainted(cur)
      BY <1>7, <2>1, <2>3, <3>3 DEF Tainted
    <3> QED
      BY <3>2, <3>3
  <2> QED
    BY <1>8, <2>2, <2>3, ResumeCases
<1>9. ASSUME NEW r \in Routine, Run(r) PROVE PollEffect
  <2>1. ASSUME NEW fd \in Fd, NEW op \in {"read", "write"}, Begin(r, op, fd) PROVE PollEffect
    BY <2>1, AssociateEffect DEF Begin, Awaited
  <2>2. ASSUME NEW fd \in Fd, Close(r, fd) PROVE PollEffect
    BY <2>2, DissociateEffect DEF Close, loop_vars
  <2>3. CASE Connect(r)
    <3>1. Cardinality(Free) > 0
      BY <2>3, FreeFinite DEF Connect, CallsInv, Owners
    <3> QED
      BY <2>3, <3>1, FreeDescriptor, AssociateEffect DEF Connect
  <2>4. CASE Succeeds(r)
    BY <1>7, <2>4 DEF Succeeds, loop_vars
  <2>5. CASE TryAgain(r) \/ Return(r)
    <3>1. linked' = linked /\ UNCHANGED <<slot, pfds, nfds, evts>>
      BY <2>5 DEF TryAgain, Return, unset, Object, Nothing, object_vars, loop_vars
    <3> QED
      BY <3>1, IdleEffect
  <2> QED
    BY <1>9, <2>1, <2>2, <2>3, <2>4, <2>5 DEF Run
<1> QED
    BY <1>1, <1>2, <1>3, <1>4, <1>5, <1>6, <1>8, <1>9 DEF CallsNext, Loop

\* The wait of the loop is one of poll.c: what is reported is what was asked for.
LEMMA WaitPollRefines == ASSUME PollInv, WaitPoll PROVE PS!Wait
<1> DEFINE revents == [i \in 0 .. nfds - 1 |-> status[pfds[i].fd] \cap (pfds[i].events \cup Always)]
<1>1. PICK n \in 1 .. MaxEvents : \E slots \in [1 .. n -> 0 .. nfds - 1] :
         Reported(revents, slots) /\ Report(revents, slots)
    BY DEF WaitPoll
<1>2. PICK slots \in [1 .. n -> 0 .. nfds - 1] : Reported(revents, slots) /\ Report(revents, slots)
    BY <1>1
<1>3. n \in 0 .. MaxEvents
    BY ReportAssumption
<1>4. \A k \in 0 .. nfds - 1 : revents[k] \subseteq pfds[k].events \cup {"ERR", "HUP"}
    BY DEF Always
<1>5. UNCHANGED <<slot, pfds, nfds>>
    BY DEF WaitPoll, object_vars
<1> HIDE DEF revents
<1> QED
    BY <1>2, <1>3, <1>4, <1>5, ReportRefines

\* Under the wrapped calls, for any number of routines and descriptors and whatever
\* the kernel does, poll.c is the set of registrations that the framework takes it
\* for: an event goes to the pointer of the latest associate, and to one event each.
THEOREM CallsRefinePollSet == CallsSpec => CallsImplementPollSet
<1>1. CallsInit => CallsPollSet!Init
    BY DEF CallsInit, ef_poll_create, CallsPollSet!Init, Registrations, Registered
<1>2. ASSUME CallsInv, CallsInv', [CallsNext]_all_vars
      PROVE  [CallsPollSet!Next]_(CallsPollSet!vars)
  <2>1. PollInv /\ PollInv'
    BY <1>2 DEF CallsInv, PollPart
  <2>2. CASE linked' = linked /\ UNCHANGED <<slot, pfds, nfds>> /\ (linked = "poll" => evts' = evts)
    BY <2>2 DEF CallsPollSet!vars, Registrations, Registered
  <2>3. CASE UNCHANGED all_vars
    BY <2>2, <2>3 DEF all_vars, object_vars, loop_vars
  <2>4. CASE CallsNext /\ linked = "poll"
    <3>1. PollEffect /\ linked' = "poll" /\ linked = "poll"
      BY <1>2, <2>4, CallsEffect DEF PollEffect
    <3>2. ASSUME NEW fd \in Fd, NEW events \in {{"IN"}, {"OUT"}}, NEW p \in PollPtr,
                 ef_poll_associate(fd, events, p)
          PROVE  CallsPollSet!Next
      <4>1. PS!Associate(fd, [events |-> events, ptr |-> p])
        BY <2>1, <3>2, AssociateRefines
      <4>2. CallsPollSet!Associate(fd, [events |-> events, ptr |-> p])
        BY <3>1, <4>1 DEF PS!Associate, CallsPollSet!Associate
      <4>3. [events |-> events, ptr |-> p] \in CallsPollSet!Entry
        BY DEF CallsPollSet!Entry
      <4> QED
        BY <4>2, <4>3 DEF CallsPollSet!Next
    <3>3. ASSUME NEW fd \in Fd, ef_poll_dissociate(fd) PROVE CallsPollSet!Next
      <4>1. PS!Dissociate(fd)
        BY <2>1, <3>3, DissociateRefines
      <4> QED
        BY <3>1, <4>1 DEF PS!Dissociate, CallsPollSet!Dissociate, CallsPollSet!Next
    <3>4. ASSUME UNCHANGED <<slot, pfds, nfds>>, evts' = <<>> PROVE CallsPollSet!Next
      <4>1. Registrations' = Registrations
        BY <3>4 DEF Registrations, Registered
      <4>2. 0 \in 0 .. MaxEvents /\ 1 .. 0 = {} /\ <<>> \in [1 .. 0 -> DOMAIN Registrations]
        BY ReportAssumption
      <4> QED
        BY <3>1, <3>4, <4>1, <4>2 DEF CallsPollSet!Wait, CallsPollSet!Next
    <3>5. CASE WaitPoll
      <4>1. PS!Wait
        BY <2>1, <3>5, WaitPollRefines
      <4> QED
        BY <3>1, <4>1 DEF PS!Wait, CallsPollSet!Wait, CallsPollSet!Next
    <3> QED
      BY <2>2, <3>1, <3>2, <3>3, <3>4, <3>5 DEF PollEffect
  <2>5. CASE CallsNext /\ linked # "poll"
    BY <1>2, <2>2, <2>5, CallsEffect DEF PollEffect
  <2> QED
    BY <1>2, <2>3, <2>4, <2>5
<1> QED
    BY <1>1, <1>2, CallsSafe, PTL DEF CallsSpec, CallsImplementPollSet, CallsPollSet!Spec
=============================================================================
