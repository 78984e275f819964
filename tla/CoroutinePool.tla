--------------------------- MODULE CoroutinePool ---------------------------
(***************************************************************************)
(* coroutine.c: the pool of coroutines on top of the fiber layer.          *)
(*                                                                         *)
(* full_list is never traversed, so it is a set; free_list is a sequence,  *)
(* its head first: exited coroutines enter and leave at the head, shrink   *)
(* frees from the tail.  gettimeofday is `now`, in microseconds.  The run  *)
(* statistics (run_count) are left out: nothing reads them.                *)
(***************************************************************************)
EXTENDS Fiber, Integers, Sequences

CONSTANTS limit_min, limit_max, \* pool->limit_min, pool->limit_max
          IdleArgs,             \* idle_millisecs arguments of shrink
          CountArgs,            \* max_count arguments of shrink
          TickUsec,             \* the clock advances by one of these
          MaxNow                \* bound: the clock stops here

ASSUME LimitAssumption == limit_min \in Nat /\ limit_max \in Nat
ASSUME ArgAssumption == IdleArgs \subseteq Nat /\ CountArgs \subseteq Int
ASSUME ClockAssumption == TickUsec \subseteq Nat /\ MaxNow \in Nat

VARIABLES full_list, free_list, full_count, free_count,
          last_run_time,        \* co->last_run_time
          now                   \* the wall clock

pool_vars == <<full_list, free_list, full_count, free_count, last_run_time>>
vars == <<fiber_vars, pool_vars, now>>

ef_coroutine_pool_init == /\ ef_fiber_init_sched
                          /\ full_list = {}
                          /\ free_list = <<>>
                          /\ full_count = 0
                          /\ free_count = 0
                          /\ last_run_time = [co \in Fiber |-> 0]

\* Take the most recently used idle coroutine ...
Reuse(co) == /\ free_count > 0
             /\ co = Head(free_list)
             /\ free_count' = free_count - 1
             /\ free_list' = Tail(free_list)
             /\ ef_fiber_init(co)
             /\ UNCHANGED <<full_list, full_count, last_run_time>>

\* Mutant: one coroutine more than the limit.
GrowPastLimit(co) == /\ free_count <= 0
                     /\ full_count <= limit_max
                     /\ ef_fiber_create(co)
                     /\ full_count' = full_count + 1
                     /\ full_list' = full_list \cup {co}
                     /\ last_run_time' = [last_run_time EXCEPT ![co] = 0]
                     /\ UNCHANGED <<free_list, free_count>>

\* ... or map a new one, its memory zeroed, up to the limit.
Grow(co) == /\ free_count <= 0
            /\ full_count < limit_max
            /\ ef_fiber_create(co)
            /\ full_count' = full_count + 1
            /\ full_list' = full_list \cup {co}
            /\ last_run_time' = [last_run_time EXCEPT ![co] = 0]
            /\ UNCHANGED <<free_list, free_count>>

ef_coroutine_create(co) == (Reuse(co) \/ Grow(co)) /\ UNCHANGED now

\* ef_coroutine_resume up to the switch.  What follows the switch runs when
\* the coroutine gives control back: nothing if it yielded, the move to the
\* free list if it has exited.
ef_coroutine_resume(co) == /\ ef_fiber_resume(co)
                           /\ UNCHANGED <<pool_vars, now>>

Yield == ef_fiber_yield /\ UNCHANGED <<pool_vars, now>>

\* Mutants: the counter is not updated; the coroutine joins at the tail.
ExitUncounted == /\ ef_fiber_exit
                 /\ last_run_time' = [last_run_time EXCEPT ![current_fiber] = now]
                 /\ free_list' = <<current_fiber>> \o free_list
                 /\ UNCHANGED <<full_list, full_count, free_count, now>>
ExitAtTail == /\ ef_fiber_exit
              /\ last_run_time' = [last_run_time EXCEPT ![current_fiber] = now]
              /\ free_list' = Append(free_list, current_fiber)
              /\ free_count' = free_count + 1
              /\ UNCHANGED <<full_list, full_count, now>>

Exit == /\ ef_fiber_exit
        /\ last_run_time' = [last_run_time EXCEPT ![current_fiber] = now]
        /\ free_list' = <<current_fiber>> \o free_list
        /\ free_count' = free_count + 1
        /\ UNCHANGED <<full_list, full_count, now>>

Usec == 1000000

\* Mutants: the microseconds are ignored; equal times do not count.
IdleInSeconds(since, idle_millisecs) ==
    ((now \div Usec) - (since \div Usec)) * 1000 >= idle_millisecs
IdleStrictly(since, idle_millisecs) ==
    LET sec  == (now \div Usec) - (since \div Usec)
        usec == (now % Usec) - (since % Usec)
    IN  \/ sec * 1000 > idle_millisecs
        \/ sec * 1000 = idle_millisecs /\ usec > idle_millisecs % 1000

\* The comparison of the two timevals: seconds, then microseconds.
IdleExpired(since, idle_millisecs) ==
    LET sec  == (now \div Usec) - (since \div Usec)
        usec == (now % Usec) - (since % Usec)
    IN  \/ sec * 1000 > idle_millisecs
        \/ sec * 1000 = idle_millisecs /\ usec >= idle_millisecs % 1000

\* Mutant: limit_min is checked on entry only.
LimitByCount(max_count) == IF max_count < 0 THEN -max_count ELSE max_count

\* How many coroutines one call may free: a positive argument stops at
\* limit_min, a negative one is a plain count.
ShrinkLimit(max_count) ==
    LET beyond_min == full_count - limit_min
        m == IF max_count > beyond_min THEN beyond_min ELSE max_count
    IN  IF m < 0 THEN -m ELSE m

\* The last k entries of the free list are freed by a call.
Freeable(k, idle_millisecs, max_count) ==
    /\ k <= ShrinkLimit(max_count)
    /\ \A i \in Len(free_list) - k + 1 .. Len(free_list) :
          IdleExpired(last_run_time[free_list[i]], idle_millisecs)

ef_coroutine_pool_shrink(idle_millisecs, max_count) ==
    /\ free_count > 0
    /\ max_count > 0 => full_count > limit_min
    /\ \E k \in 0 .. Len(free_list) :
          /\ Freeable(k, idle_millisecs, max_count)
          /\ k < Len(free_list) => ~Freeable(k + 1, idle_millisecs, max_count)
          /\ LET n    == Len(free_list)
                 dead == {free_list[i] : i \in n - k + 1 .. n}
             IN  /\ free_list' = SubSeq(free_list, 1, n - k)
                 /\ full_list' = full_list \ dead
                 /\ ef_fiber_delete(dead)
          /\ free_count' = free_count - k
          /\ full_count' = full_count - k
    /\ UNCHANGED <<last_run_time, now>>

Clock == \E d \in TickUsec : /\ now + d <= MaxNow
                             /\ now' = now + d
                             /\ UNCHANGED <<fiber_vars, pool_vars>>

Init == ef_coroutine_pool_init /\ now = 0

\* As in Fiber, callers resume coroutines that are parked.
Next == \/ \E co \in Fiber : ef_coroutine_create(co)
        \/ \E co \in Fiber : Parked(co) /\ ef_coroutine_resume(co)
        \/ Yield
        \/ Exit
        \/ \E i \in IdleArgs, m \in CountArgs : ef_coroutine_pool_shrink(i, m)
        \/ Clock

Spec == Init /\ [][Next]_vars
-----------------------------------------------------------------------------
(* Properties *)

\* What the pool's lists, counters and times range over.
TypeOK == /\ FiberTypeOK
          /\ full_list \in SUBSET Fiber
          /\ free_list \in Seq(Fiber)
          /\ full_count \in Nat
          /\ free_count \in Nat
          /\ last_run_time \in [Fiber -> Nat]
          /\ now \in Nat

\* The two counters the pool decides by agree with its lists, and the pool
\* never outgrows limit_max.
Accounting == /\ full_count = Cardinality(full_list)
              /\ free_count = Len(free_list)
              /\ full_count <= limit_max

\* The free list holds every exited coroutine once and nothing else: one that
\* still runs or waits is never handed out a second time nor unmapped, and
\* none is lost.
FreeListSound ==
    /\ \A i, j \in DOMAIN free_list : free_list[i] = free_list[j] => i = j
    /\ \A i \in DOMAIN free_list : Exited(free_list[i])
    /\ \A co \in Fiber : Exited(co) => \E i \in DOMAIN free_list : free_list[i] = co
    /\ full_list = {co \in Fiber : status[co] # "unmapped"}

\* Together with the fiber layer's invariant this is inductive: the pool
\* keeps the discipline ef_fiber_init and ef_fiber_delete rely on.
PoolInv == TypeOK /\ FiberInv /\ Accounting /\ FreeListSound

\* The free list is ordered by the time its coroutines exited, the latest
\* first, so shrink may stop at the first entry that is too young.
FreeListByAge ==
    \A i, j \in DOMAIN free_list :
        i < j => last_run_time[free_list[i]] >= last_run_time[free_list[j]]

KeepsMinimum ==
    \A i \in IdleArgs, m \in CountArgs :
        m > 0 /\ ef_coroutine_pool_shrink(i, m) =>
            full_count' >= limit_min /\ full_count - full_count' <= m

\* A shrink with a positive max_count never takes the pool under limit_min,
\* and frees at most max_count coroutines.
ShrinkKeepsMinimum == [][KeepsMinimum]_vars

FreesOnlyIdle ==
    \A i \in IdleArgs, m \in CountArgs :
        ef_coroutine_pool_shrink(i, m) =>
            \A co \in full_list \ full_list' : now - last_run_time[co] >= i * 1000

\* "free(delete) at most max_count coroutines whose idle time exceed
\* idle_millisecs" (coroutine.h:126): no younger coroutine is freed.
ShrinkFreesOnlyIdle == [][FreesOnlyIdle]_vars

FreesAllIdle ==
    \A i \in IdleArgs, m \in CountArgs :
        ef_coroutine_pool_shrink(i, m) /\ full_count - full_count' < ShrinkLimit(m) =>
            \A co \in full_list' : Exited(co) => now - last_run_time[co] < i * 1000

\* A shrink that stopped short of its limit left no coroutine behind that was
\* idle long enough.
ShrinkFreesAllIdle == [][FreesAllIdle]_vars

InUse  == {co \in Fiber : status[co] = "inited"}
Unused == {co \in Fiber : status[co] = "exited"}

Pool == INSTANCE Coroutines WITH Coroutine <- Fiber, live <- InUse, free <- Unused
\* The pool implements the abstract pool the run loop is written against.
ImplementsCoroutines == Pool!Spec
=============================================================================
