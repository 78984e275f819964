------------------------- MODULE FiberMemoryProofs -------------------------
(* Proofs about the stack areas, for any stack and page size. *)
EXTENDS FiberMemory, TLAPS

\* More than one page of stack makes the area at least two pages long.
LEMMA TwoPages == stack_size > ef_page_size => StackPages \in Nat /\ StackPages >= 2
<1> SUFFICES ASSUME stack_size > ef_page_size
             PROVE  StackPages \in Nat /\ StackPages >= 2
    OBVIOUS
<1> DEFINE n == stack_size + ef_page_size - 1
           q == n \div ef_page_size
<1>1. n \in Nat /\ n >= 2 * ef_page_size
    BY PageAssumption, SizeAssumption
<1>2. q \in Int /\ ef_page_size * q <= n /\ n < ef_page_size * q + ef_page_size
    BY <1>1, PageAssumption, SizeAssumption
<1>3. q >= 2
  <2>1. SUFFICES ASSUME q <= 1 PROVE FALSE
    BY <1>2
  <2>2. ef_page_size * q <= ef_page_size * 1
    BY <2>1, <1>2, PageAssumption
  <2> QED
    BY <2>2, <1>1, <1>2, PageAssumption
<1> QED
    BY <1>2, <1>3, PageAssumption, SizeAssumption DEF StackPages

\* Create, delete, switches and faults preserve the stack areas.
LEMMA MemoryStepInv ==
    ASSUME StackPages \in Nat, StackPages >= 2, MemoryInv, [Next]_vars
    PROVE  MemoryInv'
<1> USE FiberAssumption DEF MemoryInv, TypeOK, StackContiguous, Top
<1>1. ASSUME NEW f \in Fiber, ef_fiber_create(f)
      PROVE  MemoryInv'
  <2>1. mapped'[f] = {Top} /\ stack_lower'[f] = Top /\ {Top} = Top .. Top
    BY <1>1 DEF ef_fiber_create
  <2>2. \A g \in Fiber \ {f} : mapped'[g] = mapped[g] /\ stack_lower'[g] = stack_lower[g]
    BY <1>1 DEF ef_fiber_create
  <2>3. TypeOK'
    BY <1>1 DEF ef_fiber_create
  <2>4. StackContiguous'
    BY <2>1, <2>2, <1>1 DEF ef_fiber_create
  <2>5. \A g \in alive' : stack_lower'[g] \in 1 .. Top
    BY <2>1, <2>2, <1>1 DEF ef_fiber_create
  <2>6. \A g \in Fiber \ alive' : mapped'[g] = {}
    BY <2>2, <1>1 DEF ef_fiber_create
  <2> QED
    BY <2>3, <2>4, <2>5, <2>6, Zenon
<1>2. ASSUME NEW f \in Fiber, ef_fiber_delete(f)
      PROVE  MemoryInv'
    BY <1>2 DEF ef_fiber_delete
<1>3. ASSUME NEW f \in Fiber \cup {Thread}, Switch(f)
      PROVE  MemoryInv'
    BY <1>3 DEF Switch
<1>4. ASSUME NEW p \in -1 .. StackPages, ef_fiber_sigsegv_handler(p)
      PROVE  MemoryInv'
  <2>1. CASE current_fiber \in alive /\ ef_fiber_expand_stack(current_fiber, p) /\ UNCHANGED aborted
    <3> DEFINE c == current_fiber
    <3>1. /\ c \in Fiber /\ p \in 1 .. Top /\ p < stack_lower[c]
          /\ stack_lower[c] \in 1 .. Top
          /\ UNCHANGED <<current_fiber, alive, aborted>>
      BY <2>1, <1>4 DEF ef_fiber_sigsegv_handler, ef_fiber_expand_stack, Expandable
    <3>2. stack_lower' = [stack_lower EXCEPT ![c] = p]
      BY <2>1 DEF ef_fiber_expand_stack
    <3>3. mapped' = [mapped EXCEPT ![c] = mapped[c] \cup (p .. stack_lower[c] - 1)]
      BY <2>1 DEF ef_fiber_expand_stack
    <3>4. mapped[c] \cup (p .. stack_lower[c] - 1) = p .. Top
      BY <3>1, <2>1
    <3>5. mapped' = [mapped EXCEPT ![c] = p .. Top]
      BY <3>3, <3>4
    <3>6. p .. Top \in SUBSET (0 .. Top)
      BY <3>1
    <3> HIDE DEF c
    <3>7. mapped'[c] = p .. Top /\ stack_lower'[c] = p
      BY <3>1, <3>2, <3>5
    <3>8. \A g \in Fiber \ {c} : mapped'[g] = mapped[g] /\ stack_lower'[g] = stack_lower[g]
      BY <3>1, <3>2, <3>5
    <3>9. TypeOK'
      <4>1. mapped' \in [Fiber -> SUBSET (0 .. Top)]
        BY <3>1, <3>5, <3>6
      <4>2. stack_lower' \in [Fiber -> Int]
        BY <3>1, <3>2
      <4> QED
        BY <3>1, <4>1, <4>2, Zenon
    <3>10. StackContiguous'
      BY <3>1, <3>7, <3>8
    <3>11. \A g \in alive' : stack_lower'[g] \in 1 .. Top
      BY <3>1, <3>7, <3>8
    <3>12. \A g \in Fiber \ alive' : mapped'[g] = {}
      BY <3>1, <3>8, <2>1 DEF c
    <3> QED
      BY <3>9, <3>10, <3>11, <3>12, Zenon
  <2>2. CASE aborted' = TRUE /\ UNCHANGED <<stack_lower, mapped>>
    BY <2>2, <1>4 DEF ef_fiber_sigsegv_handler
  <2> QED
    BY <2>1, <2>2, <1>4 DEF ef_fiber_sigsegv_handler
<1>5. CASE UNCHANGED vars
    BY <1>5 DEF vars
<1> QED
    BY <1>1, <1>2, <1>3, <1>4, <1>5 DEF Next

\* Any pool whose stacks are larger than one page, whatever the fibers touch
\* and however mprotect fails: each stack is mapped without a gap from its top
\* down to stack_lower, above the guard page, and a deleted fiber has nothing.
THEOREM StacksContiguous ==
    ASSUME stack_size > ef_page_size
    PROVE  Spec => []MemoryInv
<1>1. StackPages \in Nat /\ StackPages >= 2
    BY TwoPages
<1>2. Init => MemoryInv
  <2> SUFFICES ASSUME Init PROVE MemoryInv
    OBVIOUS
  <2>1. TypeOK
    <3>1. mapped \in [Fiber -> SUBSET (0 .. Top)] /\ stack_lower \in [Fiber -> Int]
      BY DEF Init
    <3>2. aborted \in BOOLEAN /\ alive \in SUBSET Fiber /\ current_fiber \in Fiber \cup {Thread}
      BY DEF Init
    <3> QED
      BY <3>1, <3>2 DEF TypeOK
  <2> QED
    BY <2>1 DEF Init, MemoryInv, StackContiguous
<1>3. MemoryInv /\ [Next]_vars => MemoryInv'
    BY <1>1, MemoryStepInv
<1> QED
    BY <1>2, <1>3, PTL DEF Spec

\* The lowest page of every such stack stays unmapped: an overflow faults.
THEOREM GuardPageKept ==
    ASSUME stack_size > ef_page_size
    PROVE  Spec => []GuardPage
<1>1. StackPages \in Nat /\ StackPages >= 2
    BY TwoPages
<1>2. MemoryInv => GuardPage
    BY <1>1 DEF MemoryInv, TypeOK, StackContiguous, GuardPage, Top
<1>3. Spec => []MemoryInv
    BY StacksContiguous
<1> QED
    BY <1>2, <1>3, PTL
=============================================================================
