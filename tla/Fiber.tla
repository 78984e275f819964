------------------------------- MODULE Fiber -------------------------------
(***************************************************************************)
(* fiber.c, fiber.h and amd64/fiber.s (i386/fiber.s does the same with     *)
(* 32-bit registers): the fiber control block and the stack switches.      *)
(*                                                                         *)
(* A stack pointer is abstracted to the frame it points at: the one        *)
(* ef_fiber_internal_init builds ("entry"), or the one                     *)
(* ef_fiber_internal_swap pushed when the fiber called ef_fiber_resume     *)
(* ("resume") or ef_fiber_yield ("yield").  While a fiber runs, and after  *)
(* it returned, its stack_ptr is stale ("running", "dead").                *)
(*                                                                         *)
(* ef_fiber_resume tests only the status word.  That its callers hand it   *)
(* a fiber that is parked, and delete or re-initialise only exited ones,   *)
(* is the discipline written in Next; CoroutinePool and Framework show     *)
(* that the pool and the run loop keep it.                                 *)
(***************************************************************************)
EXTENDS Naturals, FiniteSets

CONSTANTS Fiber,                \* addresses at which a fiber can be mapped
          Thread,               \* rt->thread_fiber
          Null                  \* the null pointer

ASSUME ThreadAssumption == Thread \notin Fiber /\ Null \notin Fiber \cup {Thread}
ASSUME FiberAssumption  == IsFiniteSet(Fiber)

AnyFiber == Fiber \cup {Thread}
Status   == {"unmapped", "inited", "exited"}
Frame    == {"none", "entry", "resume", "yield", "running", "dead"}

VARIABLES current_fiber,        \* rt->current_fiber
          parent,               \* fiber->parent
          status,               \* fiber->status
          stack_ptr             \* fiber->stack_ptr, as the frame it points at

fiber_vars == <<current_fiber, parent, status, stack_ptr>>

FiberTypeOK == /\ current_fiber \in AnyFiber
               /\ parent \in [Fiber -> AnyFiber \cup {Null}]
               /\ status \in [Fiber -> Status]
               /\ stack_ptr \in [AnyFiber -> Frame]

\* The scheduler starts on the thread's own stack; no fiber is mapped.
ef_fiber_init_sched ==
    /\ current_fiber = Thread
    /\ parent = [f \in Fiber |-> Null]
    /\ status = [f \in Fiber |-> "unmapped"]
    /\ stack_ptr = [f \in AnyFiber |-> IF f = Thread THEN "running" ELSE "none"]

\* The frame whose return address is the fiber procedure and whose caller
\* is _ef_fiber_exit.
ef_fiber_internal_init(f) == /\ status' = [status EXCEPT ![f] = "inited"]
                             /\ stack_ptr' = [stack_ptr EXCEPT ![f] = "entry"]

ef_fiber_init(f) == /\ ef_fiber_internal_init(f)
                    /\ UNCHANGED <<current_fiber, parent>>

\* Fresh pages are zero, so parent is null until the first resume.  A failed
\* mmap or mprotect leaves nothing behind: that call is a stutter.
ef_fiber_create(f) == /\ status[f] = "unmapped"
                      /\ parent' = [parent EXCEPT ![f] = Null]
                      /\ ef_fiber_internal_init(f)
                      /\ UNCHANGED current_fiber

\* munmap takes the control block with the stack.
ef_fiber_delete(D) ==
    /\ status' = [f \in Fiber |-> IF f \in D THEN "unmapped" ELSE status[f]]
    /\ stack_ptr' = [f \in AnyFiber |-> IF f \in D THEN "none" ELSE stack_ptr[f]]
    /\ UNCHANGED <<current_fiber, parent>>

\* Save the running fiber's registers as frame `saved`, continue on `to`.
ef_fiber_internal_swap(to, saved) ==
    /\ current_fiber' = to
    /\ stack_ptr' = [stack_ptr EXCEPT ![current_fiber] = saved, ![to] = "running"]

\* Mutant: parent is set by the first resume only.
ResumeStaleParent(to) ==
    /\ status[to] = "inited"
    /\ parent' = [parent EXCEPT ![to] = IF @ = Null THEN current_fiber ELSE @]
    /\ ef_fiber_internal_swap(to, "resume")
    /\ UNCHANGED status

\* An exited or uninitialised fiber is refused: that call is a stutter.
ef_fiber_resume(to) == /\ status[to] = "inited"
                       /\ parent' = [parent EXCEPT ![to] = current_fiber]
                       /\ ef_fiber_internal_swap(to, "resume")
                       /\ UNCHANGED status

\* Mutant: yield always goes back to the thread.
YieldToThread == /\ current_fiber # Thread
                 /\ ef_fiber_internal_swap(Thread, "yield")
                 /\ UNCHANGED <<parent, status>>

ef_fiber_yield == /\ current_fiber # Thread
                  /\ ef_fiber_internal_swap(parent[current_fiber], "yield")
                  /\ UNCHANGED <<parent, status>>

\* Mutant: the status word is not set on exit.
ExitKeepsStatus == /\ current_fiber # Thread
                   /\ ef_fiber_internal_swap(parent[current_fiber], "dead")
                   /\ UNCHANGED <<parent, status>>

\* The fiber procedure returns into _ef_fiber_exit, which saves no frame.
ef_fiber_exit == /\ current_fiber # Thread
                 /\ status' = [status EXCEPT ![current_fiber] = "exited"]
                 /\ ef_fiber_internal_swap(parent[current_fiber], "dead")
                 /\ UNCHANGED parent

\* What the callers may be handed.
Parked(f) == stack_ptr[f] \in {"entry", "yield"}
Exited(f) == status[f] = "exited"

FiberNext == \/ ef_fiber_yield
             \/ ef_fiber_exit
             \/ \E f \in Fiber : \/ ef_fiber_create(f)
                                 \/ Exited(f) /\ ef_fiber_init(f)
                                 \/ Exited(f) /\ ef_fiber_delete({f})
                                 \/ Parked(f) /\ ef_fiber_resume(f)

FiberSpec == ef_fiber_init_sched /\ [][FiberNext]_fiber_vars
-----------------------------------------------------------------------------
(* Properties *)

\* The fibers that were resumed and have neither yielded nor returned.
Active == {f \in Fiber : stack_ptr[f] \in {"running", "resume"}}

\* Exactly the current fiber runs: no saved stack pointer is in use twice,
\* and the thread is either running or inside its own resume.
SoleRunner == /\ \A f \in AnyFiber : stack_ptr[f] = "running" <=> f = current_fiber
              /\ stack_ptr[Thread] \in {"running", "resume"}

\* The status word agrees with the stack: a fiber ef_fiber_resume accepts has
\* a frame to continue from, or is already on the chain of resumers.
StatusMatchesStack ==
    \A f \in Fiber : /\ status[f] = "unmapped" <=> stack_ptr[f] = "none"
                     /\ status[f] = "exited"   <=> stack_ptr[f] = "dead"

\* Whenever a resumed fiber yields or returns, control lands in the very
\* ef_fiber_resume call that started it: its parent sits in a resume frame,
\* and no other resumed fiber would return into that same frame.
ReturnsToResumer ==
    \A f \in Active : /\ parent[f] \in AnyFiber
                      /\ stack_ptr[parent[f]] = "resume"
                      /\ \A g \in Active : parent[f] = parent[g] => f = g

\* The discipline of resume, yield and exit: one fiber runs, a status word
\* tells what the saved stack holds, and control returns to the resumer.
FiberInv == /\ FiberTypeOK
            /\ SoleRunner
            /\ StatusMatchesStack
            /\ ReturnsToResumer

\* The chain of resumers: the n-th ancestor of the running fiber.
Ancestor[n \in 0 .. Cardinality(Fiber)] ==
    IF n = 0 THEN current_fiber
    ELSE IF Ancestor[n - 1] = Thread THEN Thread ELSE parent[Ancestor[n - 1]]

\* Following parent pointers from the running fiber always reaches the
\* thread, through every resumed fiber: the chain never closes on itself.
ChainReachesThread ==
    /\ Ancestor[Cardinality(Fiber)] = Thread
    /\ Active = {Ancestor[n] : n \in 0 .. Cardinality(Fiber)} \ {Thread}

Depth == CHOOSE n \in 0 .. Cardinality(Fiber) :
            /\ Ancestor[n] = Thread
            /\ \A m \in 0 .. n - 1 : Ancestor[m] # Thread

CS == INSTANCE CallStack WITH
        stack    <- [i \in 1 .. Depth |-> Ancestor[Depth - i]],
        parked   <- {f \in Fiber : Parked(f)},
        finished <- {f \in Fiber : Exited(f)}
\* The fiber layer implements the call-stack discipline, the chain of parent
\* pointers read as the stack.
ImplementsCallStack == CS!Spec
=============================================================================
