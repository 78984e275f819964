---------------------------- MODULE FiberMemory ----------------------------
(***************************************************************************)
(* fiber.c: the stack area of a fiber.  ef_fiber_create reserves the area  *)
(* without access and maps its highest page; ef_fiber_sigsegv_handler      *)
(* grows the mapped part downwards when the running fiber touches a page   *)
(* that is not mapped, and aborts the process when it must not.            *)
(*                                                                         *)
(* Addresses are counted in pages from the bottom of an area.  The page    *)
(* size is a constant because ef_fiber_create rounds with it.              *)
(***************************************************************************)
EXTENDS Integers, FiniteSets

CONSTANTS Fiber,                \* the fibers, their areas are disjoint
          Thread,               \* rt->thread_fiber: its stack is the system's
          ef_page_size,         \* bytes
          stack_size            \* bytes asked for, pool->stack_size

ASSUME PageAssumption == ef_page_size \in Nat \ {0}
ASSUME SizeAssumption == stack_size \in Nat
ASSUME FiberAssumption == Thread \notin Fiber

\* The area in pages: at least one, rounded up.
StackPages == IF stack_size = 0 THEN 1
              ELSE (stack_size + ef_page_size - 1) \div ef_page_size
Top        == StackPages - 1

VARIABLES current_fiber,        \* whose stack the handler grows
          alive,                \* fibers whose area is reserved
          stack_lower,          \* fiber->stack_lower, the lowest mapped page
          mapped,               \* the kernel's view: pages that can be accessed
          aborted               \* SIGABRT was raised

vars == <<current_fiber, alive, stack_lower, mapped, aborted>>

\* What the boundaries and page sets of the stack areas range over.
TypeOK == /\ current_fiber \in Fiber \cup {Thread}
          /\ alive \in SUBSET Fiber
          /\ stack_lower \in [Fiber -> Int]
          /\ mapped \in [Fiber -> SUBSET (0 .. Top)]
          /\ aborted \in BOOLEAN

Init == /\ current_fiber = Thread
        /\ alive = {}
        /\ stack_lower = [f \in Fiber |-> 0]
        /\ mapped = [f \in Fiber |-> {}]
        /\ aborted = FALSE

\* Reserve the area, map the page that holds the control block.
ef_fiber_create(f) ==
    /\ ~aborted
    /\ f \notin alive
    /\ alive' = alive \cup {f}
    /\ mapped' = [mapped EXCEPT ![f] = {Top}]
    /\ stack_lower' = [stack_lower EXCEPT ![f] = Top]
    /\ UNCHANGED <<current_fiber, aborted>>

\* A fiber cannot delete itself.
ef_fiber_delete(f) ==
    /\ ~aborted
    /\ f \in alive \ {current_fiber}
    /\ alive' = alive \ {f}
    /\ mapped' = [mapped EXCEPT ![f] = {}]
    /\ UNCHANGED <<current_fiber, stack_lower, aborted>>

\* Resume, yield and exit, seen from here: another fiber runs.
Switch(f) == /\ ~aborted
             /\ f \in alive \cup {Thread}
             /\ current_fiber' = f
             /\ UNCHANGED <<alive, stack_lower, mapped, aborted>>

\* Mutant: the guard page counts as part of the stack.
ExpandableToEnd(f, p) == p >= 0 /\ p < stack_lower[f]

\* Page p is unmapped, above the guard page and below what is mapped: map
\* everything from p up.
Expandable(f, p) == p >= 1 /\ p < stack_lower[f]

\* Mutant: only the page that was touched is mapped.
ExpandOnePage(f, p) ==
    /\ Expandable(f, p)
    /\ mapped' = [mapped EXCEPT ![f] = @ \cup {p}]
    /\ stack_lower' = [stack_lower EXCEPT ![f] = p]

ef_fiber_expand_stack(f, p) ==
    /\ Expandable(f, p)
    /\ mapped' = [mapped EXCEPT ![f] = @ \cup (p .. stack_lower[f] - 1)]
    /\ stack_lower' = [stack_lower EXCEPT ![f] = p]

\* The running code touches page p of its own area, or an address outside of
\* it.  The control block of the thread has a null stack_area and a null
\* stack_lower, so a fault on the thread's stack never grows anything;
\* mprotect may fail, whatever the page.
ef_fiber_sigsegv_handler(p) ==
    /\ ~aborted
    /\ current_fiber \in alive => p \notin mapped[current_fiber]
    /\ \/ /\ current_fiber \in alive
          /\ ef_fiber_expand_stack(current_fiber, p)
          /\ UNCHANGED aborted
       \/ aborted' = TRUE /\ UNCHANGED <<stack_lower, mapped>>
    /\ UNCHANGED <<current_fiber, alive>>

Next == \/ \E f \in Fiber : ef_fiber_create(f) \/ ef_fiber_delete(f)
        \/ \E f \in Fiber \cup {Thread} : Switch(f)
        \/ \E p \in -1 .. StackPages : ef_fiber_sigsegv_handler(p)

Spec == Init /\ [][Next]_vars
-----------------------------------------------------------------------------
(* Properties *)

\* stack_lower is the kernel's own boundary: exactly the pages from it to the
\* top of the area are mapped, so the handler never leaves a hole under a
\* frame and never maps a page twice.
StackContiguous == \A f \in alive : mapped[f] = stack_lower[f] .. Top

\* "the last one page keep unmaped for guard" (fiber.c:135): running off the
\* end of a stack faults on an unmapped page instead of writing into the
\* neighbouring area.
GuardPage == \A f \in Fiber : 0 \notin mapped[f]

\* What makes both inductive: growth stops above the guard page, and an area
\* that is not reserved has no page.
MemoryInv == /\ TypeOK
             /\ StackContiguous
             /\ \A f \in alive : stack_lower[f] \in 1 .. Top
             /\ \A f \in Fiber \ alive : mapped[f] = {}
=============================================================================
