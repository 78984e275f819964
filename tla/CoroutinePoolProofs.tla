------------------------ MODULE CoroutinePoolProofs ------------------------
(* Proofs about the fiber layer, for any set of fibers, and about the        *)
(* coroutine pool on it, for any limits, arguments and clock.                *)
EXTENDS CoroutinePool, FiniteSetTheorems, SequenceTheorems, WellFoundedInduction, TLAPS
-----------------------------------------------------------------------------
(* The fiber layer *)

\* After ef_fiber_init_sched only the thread runs.
LEMMA FiberInitInv == ef_fiber_init_sched => FiberInv
BY ThreadAssumption DEF ef_fiber_init_sched, FiberInv, FiberTypeOK, SoleRunner,
     StatusMatchesStack, ReturnsToResumer, Active, AnyFiber, Status, Frame

\* A created fiber is ready at its entry, and nobody's resumer.
LEMMA CreateInv ==
    ASSUME FiberInv, NEW f \in Fiber, ef_fiber_create(f)
    PROVE  FiberInv'
BY ThreadAssumption DEF ef_fiber_create, ef_fiber_internal_init, FiberInv,
     FiberTypeOK, SoleRunner, StatusMatchesStack, ReturnsToResumer, Active,
     AnyFiber, Status, Frame

\* An exited fiber is made ready again (ef_fiber_init).
LEMMA InitInv ==
    ASSUME FiberInv, NEW f \in Fiber, Exited(f), ef_fiber_init(f)
    PROVE  FiberInv'
BY ThreadAssumption DEF ef_fiber_init, ef_fiber_internal_init, Exited, FiberInv,
     FiberTypeOK, SoleRunner, StatusMatchesStack, ReturnsToResumer, Active,
     AnyFiber, Status, Frame

\* Deleting a fiber that is not resumed leaves every chain alone.
LEMMA DeleteInv ==
    ASSUME FiberInv, NEW D \in SUBSET Fiber, \A f \in D : Exited(f), ef_fiber_delete(D)
    PROVE  FiberInv'
BY ThreadAssumption DEF ef_fiber_delete, Exited, FiberInv,
     FiberTypeOK, SoleRunner, StatusMatchesStack, ReturnsToResumer, Active,
     AnyFiber, Status, Frame

\* Resume saves the running fiber's frame and becomes the parent.
LEMMA ResumeInv ==
    ASSUME FiberInv, NEW f \in Fiber, Parked(f), ef_fiber_resume(f)
    PROVE  FiberInv'
BY ThreadAssumption DEF ef_fiber_resume, ef_fiber_internal_swap, Parked, FiberInv,
     FiberTypeOK, SoleRunner, StatusMatchesStack, ReturnsToResumer, Active,
     AnyFiber, Status, Frame

\* Yield returns into the frame of the resumer.
LEMMA YieldInv == ASSUME FiberInv, ef_fiber_yield PROVE FiberInv'
BY ThreadAssumption DEF ef_fiber_yield, ef_fiber_internal_swap, FiberInv,
     FiberTypeOK, SoleRunner, StatusMatchesStack, ReturnsToResumer, Active,
     AnyFiber, Status, Frame

\* A fiber's function returns: control goes to the resumer for good.
LEMMA ExitInv == ASSUME FiberInv, ef_fiber_exit PROVE FiberInv'
BY ThreadAssumption DEF ef_fiber_exit, ef_fiber_internal_swap, FiberInv,
     FiberTypeOK, SoleRunner, StatusMatchesStack, ReturnsToResumer, Active,
     AnyFiber, Status, Frame

\* Every step of the fiber layer preserves its invariant.
LEMMA FiberStepInv == FiberInv /\ [FiberNext]_fiber_vars => FiberInv'
<1> SUFFICES ASSUME FiberInv, [FiberNext]_fiber_vars
             PROVE  FiberInv'
    OBVIOUS
<1>1. CASE ef_fiber_yield
    BY <1>1, YieldInv
<1>2. CASE ef_fiber_exit
    BY <1>2, ExitInv
<1>3. ASSUME NEW f \in Fiber, ef_fiber_create(f)
      PROVE  FiberInv'
    BY <1>3, CreateInv
<1>4. ASSUME NEW f \in Fiber, Exited(f), ef_fiber_init(f)
      PROVE  FiberInv'
    BY <1>4, InitInv
<1>5. ASSUME NEW f \in Fiber, Exited(f), ef_fiber_delete({f})
      PROVE  FiberInv'
  <2>1. {f} \in SUBSET Fiber /\ \A g \in {f} : Exited(g)
    BY <1>5
  <2> QED
    BY <1>5, <2>1, DeleteInv
<1>6. ASSUME NEW f \in Fiber, Parked(f), ef_fiber_resume(f)
      PROVE  FiberInv'
    BY <1>6, ResumeInv
<1>7. CASE UNCHANGED fiber_vars
    BY <1>7 DEF fiber_vars, FiberInv, FiberTypeOK, SoleRunner, StatusMatchesStack,
                ReturnsToResumer, Active
<1> QED
    BY <1>1, <1>2, <1>3, <1>4, <1>5, <1>6, <1>7 DEF FiberNext

\* However many fibers resume one another, exactly one runs, the status word
\* ef_fiber_resume trusts agrees with the stack behind it, and every yield or
\* return swaps onto the stack of the ef_fiber_resume call that started it.
THEOREM FiberSafe == FiberSpec => []FiberInv
<1>1. ef_fiber_init_sched => FiberInv
    BY FiberInitInv
<1>2. FiberInv /\ [FiberNext]_fiber_vars => FiberInv'
    BY FiberStepInv
<1> QED
    BY <1>1, <1>2, PTL DEF FiberSpec
-----------------------------------------------------------------------------
(* The chain of resumers *)

\* st lists the n resumed fibers in the order in which they were resumed: the
\* last one runs, and the parent of each is the one before it.
IsChain(n, st) ==
    /\ \A i, j \in 1 .. n : st[i] = st[j] => i = j
    /\ Active = {st[i] : i \in 1 .. n}
    /\ current_fiber = IF n = 0 THEN Thread ELSE st[n]
    /\ \A i \in 1 .. n : parent[st[i]] = IF i = 1 THEN Thread ELSE st[i - 1]

\* The invariant: there is such a list.
Chain == \E n \in Nat : \E st \in [1 .. n -> Fiber] : IsChain(n, st)

\* A step of the fiber layer as its callers make it; several exited fibers may
\* be deleted at once.
FiberStep == \/ ef_fiber_yield
             \/ ef_fiber_exit
             \/ \E f \in Fiber : \/ ef_fiber_create(f)
                                 \/ Exited(f) /\ ef_fiber_init(f)
                                 \/ Parked(f) /\ ef_fiber_resume(f)
             \/ \E D \in SUBSET Fiber : (\A f \in D : Exited(f)) /\ ef_fiber_delete(D)

\* At first nothing was resumed.
LEMMA ChainInit == ef_fiber_init_sched => Chain
<1> SUFFICES ASSUME ef_fiber_init_sched PROVE Chain
    OBVIOUS
<1>1. Active = {} /\ current_fiber = Thread
    BY ThreadAssumption DEF ef_fiber_init_sched, Active, AnyFiber
<1>2. \E st : st \in [1 .. 0 -> Fiber]
  <2>1. [i \in 1 .. 0 |-> Thread] \in [1 .. 0 -> Fiber]
    OBVIOUS
  <2> QED
    BY <2>1
<1>3. PICK st \in [1 .. 0 -> Fiber] : TRUE
    BY <1>2
<1>4. IsChain(0, st)
    BY <1>1 DEF IsChain
<1> QED
    BY <1>4 DEF Chain

\* Creating, readying and deleting leave the chain as it is.
LEMMA ChainAside ==
    ASSUME FiberInv, NEW n \in Nat, NEW st \in [1 .. n -> Fiber], IsChain(n, st),
           \/ \E f \in Fiber : ef_fiber_create(f) \/ (Exited(f) /\ ef_fiber_init(f))
           \/ \E D \in SUBSET Fiber : (\A f \in D : Exited(f)) /\ ef_fiber_delete(D)
           \/ UNCHANGED fiber_vars
    PROVE  IsChain(n, st)'
<1>1. Active' = Active
    BY ThreadAssumption DEF ef_fiber_create, ef_fiber_init, ef_fiber_internal_init, ef_fiber_delete,
       Exited, fiber_vars, Active, FiberInv, FiberTypeOK, StatusMatchesStack, AnyFiber
<1>2. current_fiber' = current_fiber
    BY DEF ef_fiber_create, ef_fiber_init, ef_fiber_delete, fiber_vars
<1>3. \A f \in Active : parent'[f] = parent[f]
    BY DEF ef_fiber_create, ef_fiber_init, ef_fiber_internal_init, ef_fiber_delete,
       fiber_vars, Active, FiberInv, FiberTypeOK, StatusMatchesStack, AnyFiber
<1>4. \A i \in 1 .. n : st[i] \in Active
    BY DEF IsChain
<1> QED
    BY <1>1, <1>2, <1>3, <1>4 DEF IsChain

\* A resumed fiber is added at the end.
Pushed(n, st, f) == [i \in 1 .. n + 1 |-> IF i = n + 1 THEN f ELSE st[i]]

\* A resume appends the resumed fiber to the chain.
LEMMA ChainPush ==
    ASSUME FiberInv, NEW n \in Nat, NEW st \in [1 .. n -> Fiber], IsChain(n, st),
           NEW f \in Fiber, Parked(f), ef_fiber_resume(f)
    PROVE  Pushed(n, st, f) \in [1 .. n + 1 -> Fiber] /\ IsChain(n + 1, Pushed(n, st, f))'
<1> DEFINE new == Pushed(n, st, f)
<1>1. new \in [1 .. n + 1 -> Fiber]
    BY DEF Pushed
<1>2. /\ new[n + 1] = f /\ n + 1 \in 1 .. n + 1
      /\ \A i \in 1 .. n + 1 : i # n + 1 => i \in 1 .. n /\ new[i] = st[i]
      /\ \A i \in 1 .. n : i \in 1 .. n + 1 /\ new[i] = st[i] /\ i # n + 1
    BY DEF Pushed
<1> HIDE DEF new
<1>3. f \notin Active
    BY DEF Parked, Active
<1>4. Active' = Active \cup {f} /\ current_fiber' = f /\ parent' = [parent EXCEPT ![f] = current_fiber]
    BY ThreadAssumption DEF ef_fiber_resume, ef_fiber_internal_swap, Parked, Active, FiberInv,
       FiberTypeOK, SoleRunner, AnyFiber
<1>5. \A i \in 1 .. n : st[i] \in Active /\ st[i] # f
    BY <1>3 DEF IsChain
<1>6. \A i, j \in 1 .. n + 1 : new[i] = new[j] => i = j
    BY <1>2, <1>5 DEF IsChain
<1>7. Active' = {new[i] : i \in 1 .. n + 1}
    BY <1>2, <1>4 DEF IsChain
<1>8. current_fiber' = IF n + 1 = 0 THEN Thread ELSE new[n + 1]
    BY <1>2, <1>4
<1>9. ASSUME NEW i \in 1 .. n + 1 PROVE parent'[new[i]] = IF i = 1 THEN Thread ELSE new[i - 1]
  <2>1. parent \in [Fiber -> AnyFiber \cup {Null}]
    BY DEF FiberInv, FiberTypeOK
  <2>2. CASE i = n + 1
    <3>1. parent'[new[i]] = current_fiber
        BY <1>2, <1>4, <2>1, <2>2
    <3>2. n # 0 => i - 1 = n /\ i # 1 /\ new[n] = st[n]
        BY <1>2, <2>2
    <3> QED
        BY <2>2, <3>1, <3>2 DEF IsChain
  <2>3. CASE i # n + 1
    <3>1. i \in 1 .. n /\ new[i] = st[i] /\ parent'[new[i]] = parent[st[i]]
        BY <1>2, <1>4, <1>5, <2>1, <2>3
    <3>2. i # 1 => i - 1 \in 1 .. n /\ new[i - 1] = st[i - 1]
        BY <1>2, <3>1
    <3> QED
        BY <3>1, <3>2 DEF IsChain
  <2> QED
    BY <2>2, <2>3
<1> QED
    BY <1>1, <1>6, <1>7, <1>8, <1>9 DEF IsChain, new

\* The running fiber leaves at the end.
LEMMA ChainPop ==
    ASSUME FiberInv, NEW n \in Nat, NEW st \in [1 .. n -> Fiber], IsChain(n, st),
           ef_fiber_yield \/ ef_fiber_exit
    PROVE  /\ n > 0 /\ current_fiber = st[n]
           /\ [i \in 1 .. n - 1 |-> st[i]] \in [1 .. n - 1 -> Fiber]
           /\ IsChain(n - 1, [i \in 1 .. n - 1 |-> st[i]])'
<1> DEFINE new == [i \in 1 .. n - 1 |-> st[i]]
<1>1. n > 0 /\ current_fiber = st[n] /\ current_fiber \in Fiber
    BY DEF IsChain, ef_fiber_yield, ef_fiber_exit
<1>2. /\ new \in [1 .. n - 1 -> Fiber]
      /\ \A i \in 1 .. n - 1 : new[i] = st[i] /\ i \in 1 .. n /\ i # n
      /\ \A i \in 1 .. n : i # n => i \in 1 .. n - 1
    BY <1>1
<1> HIDE DEF new
<1>3. /\ parent' = parent
      /\ current_fiber' = parent[current_fiber]
      /\ stack_ptr'[current_fiber] \notin {"running", "resume"}
      /\ \A f \in Fiber : f # current_fiber =>
            (stack_ptr'[f] \in {"running", "resume"} <=> stack_ptr[f] \in {"running", "resume"})
  <2>1. current_fiber \in Active /\ parent[current_fiber] # current_fiber
    BY <1>1 DEF Active, FiberInv, SoleRunner, ReturnsToResumer, AnyFiber
  <2>2. parent[current_fiber] \in AnyFiber /\ stack_ptr[parent[current_fiber]] = "resume"
    BY <2>1 DEF FiberInv, ReturnsToResumer
  <2> QED
    BY <1>1, <2>1, <2>2 DEF ef_fiber_yield, ef_fiber_exit, ef_fiber_internal_swap, FiberInv, FiberTypeOK, AnyFiber
<1>4. Active' = Active \ {current_fiber}
    BY <1>3 DEF Active
<1>5. \A i \in 1 .. n - 1 : st[i] # st[n]
    BY <1>1, <1>2 DEF IsChain
<1>6. \A i, j \in 1 .. n - 1 : new[i] = new[j] => i = j
    BY <1>2 DEF IsChain
<1>7. Active' = {new[i] : i \in 1 .. n - 1}
    BY <1>1, <1>2, <1>4, <1>5 DEF IsChain
<1>8. current_fiber' = IF n - 1 = 0 THEN Thread ELSE new[n - 1]
  <2>1. parent[st[n]] = IF n = 1 THEN Thread ELSE st[n - 1]
    BY <1>1 DEF IsChain
  <2>2. n # 1 => new[n - 1] = st[n - 1]
    BY <1>1, <1>2
  <2> QED
    BY <1>1, <1>3, <2>1, <2>2
<1>9. \A i \in 1 .. n - 1 : parent'[new[i]] = IF i = 1 THEN Thread ELSE new[i - 1]
  <2>1. \A i \in 1 .. n - 1 : i # 1 => i - 1 \in 1 .. n - 1 /\ new[i - 1] = st[i - 1]
    BY <1>1, <1>2
  <2> QED
    BY <1>2, <1>3, <2>1 DEF IsChain
<1> QED
    BY <1>1, <1>2, <1>6, <1>7, <1>8, <1>9 DEF IsChain, new

\* Every step keeps a chain.
LEMMA ChainStep == FiberInv /\ Chain /\ [FiberStep]_fiber_vars => Chain'
<1> SUFFICES ASSUME FiberInv, Chain, [FiberStep]_fiber_vars PROVE Chain'
    OBVIOUS
<1>1. PICK n \in Nat : \E st \in [1 .. n -> Fiber] : IsChain(n, st)
    BY DEF Chain
<1>2. PICK st \in [1 .. n -> Fiber] : IsChain(n, st)
    BY <1>1
<1>3. ASSUME NEW f \in Fiber, Parked(f), ef_fiber_resume(f) PROVE Chain'
  <2>1. Pushed(n, st, f) \in [1 .. n + 1 -> Fiber] /\ IsChain(n + 1, Pushed(n, st, f))'
    BY <1>2, <1>3, ChainPush
  <2> QED
    BY <2>1 DEF Chain
<1>4. CASE ef_fiber_yield \/ ef_fiber_exit
  <2> DEFINE new == [i \in 1 .. n - 1 |-> st[i]]
  <2>1. n > 0 /\ new \in [1 .. n - 1 -> Fiber] /\ IsChain(n - 1, new)'
    BY <1>2, <1>4, ChainPop
  <2> HIDE DEF new
  <2>2. n - 1 \in Nat
    BY <2>1
  <2> QED
    BY <2>1, <2>2 DEF Chain
<1>5. CASE \/ \E f \in Fiber : ef_fiber_create(f) \/ (Exited(f) /\ ef_fiber_init(f))
           \/ \E D \in SUBSET Fiber : (\A f \in D : Exited(f)) /\ ef_fiber_delete(D)
           \/ UNCHANGED fiber_vars
  <2>1. IsChain(n, st)'
    BY <1>2, <1>5, ChainAside
  <2> QED
    BY <2>1 DEF Chain
<1> QED
  <2>1. CASE UNCHANGED fiber_vars
    BY <1>5, <2>1
  <2>2. CASE FiberStep
    BY <1>3, <1>4, <1>5, <2>2 DEF FiberStep
  <2> QED
    BY <2>1, <2>2

\* No more fibers are resumed than there are.
LEMMA ChainLength ==
    ASSUME NEW n \in Nat, NEW st \in [1 .. n -> Fiber], IsChain(n, st)
    PROVE  Cardinality(Fiber) \in Nat /\ n <= Cardinality(Fiber)
<1>1. st \in Injection(1 .. n, Fiber)
    BY DEF IsChain, Injection, IsInjective
<1>2. Cardinality(1 .. n) <= Cardinality(Fiber)
    BY <1>1, FiberAssumption, FS_Injection
<1>3. Cardinality(1 .. n) = n
    BY FS_Interval
<1> QED
    BY <1>2, <1>3, FiberAssumption, FS_CardinalityType

\* The list read from its end, the thread after it: what Ancestor computes.
ReadBack(n, st) == [k \in 0 .. Cardinality(Fiber) |-> IF k < n THEN st[n - k] ELSE Thread]

\* It satisfies the equation that defines Ancestor.
Climbs(anc) ==
    anc = [k \in 0 .. Cardinality(Fiber) |->
             IF k = 0 THEN current_fiber
             ELSE IF anc[k - 1] = Thread THEN Thread ELSE parent[anc[k - 1]]]

\* A chain read backwards climbs from the running fiber to the thread.
LEMMA ReadBackClimbs ==
    ASSUME NEW n \in Nat, NEW st \in [1 .. n -> Fiber], IsChain(n, st)
    PROVE  Climbs(ReadBack(n, st))
<1> DEFINE N == Cardinality(Fiber)
           F == ReadBack(n, st)
<1>1. N \in Nat /\ n <= N
    BY ChainLength
<1>2. /\ F = [k \in 0 .. N |-> F[k]]
      /\ \A k \in 0 .. N : F[k] = IF k < n THEN st[n - k] ELSE Thread
    BY DEF ReadBack
<1> HIDE DEF N, F
<1>3. \A i \in 1 .. n : st[i] \in Fiber /\ st[i] # Thread
    BY ThreadAssumption
<1>4. ASSUME NEW k \in 0 .. N
      PROVE  F[k] = IF k = 0 THEN current_fiber
                    ELSE IF F[k - 1] = Thread THEN Thread ELSE parent[F[k - 1]]
  <2>1. CASE k = 0
    BY <1>1, <1>2, <2>1 DEF IsChain
  <2>2. CASE k # 0 /\ k - 1 < n
    <3>1. k - 1 \in 0 .. N /\ n - (k - 1) \in 1 .. n /\ F[k - 1] = st[n - (k - 1)]
      BY <1>1, <1>2, <2>2
    <3>2. parent[st[n - (k - 1)]] = IF n - (k - 1) = 1 THEN Thread ELSE st[n - (k - 1) - 1]
      BY <3>1 DEF IsChain
    <3>3. F[k - 1] # Thread
      BY <1>3, <3>1
    <3>4. k = n <=> n - (k - 1) = 1
      BY <1>1, <2>2
    <3>5. n - (k - 1) - 1 = n - k /\ (k # n => k < n)
      BY <1>1, <2>2
    <3>6. k = n => F[k] = Thread
      BY <1>1, <1>2
    <3>7. k # n => F[k] = st[n - k]
      BY <1>1, <1>2, <3>5
    <3> QED
      BY <2>2, <3>1, <3>2, <3>3, <3>4, <3>5, <3>6, <3>7
  <2>3. CASE k # 0 /\ ~ (k - 1 < n)
    BY <1>1, <1>2, <2>3
  <2> QED
    BY <2>1, <2>2, <2>3
<1>5. F = [k \in 0 .. N |->
             IF k = 0 THEN current_fiber
             ELSE IF F[k - 1] = Thread THEN Thread ELSE parent[F[k - 1]]]
    BY <1>2, <1>4
<1> QED
    BY <1>5 DEF Climbs, N, F

\* Two functions that satisfy the equation agree: they do not differ at a
\* least argument.
LEMMA ClimbsUnique ==
    ASSUME NEW anc, Climbs(anc), NEW other, Climbs(other), Cardinality(Fiber) \in Nat
    PROVE  anc = other
<1> DEFINE N == Cardinality(Fiber)
           Differ == {k \in 0 .. N : anc[k] # other[k]}
<1>1. \A k \in 0 .. N : anc[k] = IF k = 0 THEN current_fiber
             ELSE IF anc[k - 1] = Thread THEN Thread ELSE parent[anc[k - 1]]
    BY DEF Climbs
<1>2. \A k \in 0 .. N : other[k] = IF k = 0 THEN current_fiber
             ELSE IF other[k - 1] = Thread THEN Thread ELSE parent[other[k - 1]]
    BY DEF Climbs
<1>3. anc = [k \in 0 .. N |-> anc[k]] /\ other = [k \in 0 .. N |-> other[k]]
    BY DEF Climbs
<1>4. Differ \subseteq Nat
    OBVIOUS
<1>5. ASSUME NEW k \in Differ PROVE \E l \in Differ : l < k
  <2>1. k # 0
    BY <1>1, <1>2
  <2>2. k - 1 \in 0 .. N /\ k - 1 < k
    BY <2>1
  <2>3. anc[k - 1] # other[k - 1]
    BY <1>1, <1>2, <2>1
  <2> QED
    BY <2>2, <2>3
<1> HIDE DEF Differ
<1>6. Differ = {}
  <2> SUFFICES ASSUME Differ # {} PROVE FALSE
    OBVIOUS
  <2>1. PICK k \in Differ : \A l \in Differ : ~ (<<l, k>> \in OpToRel(<, Nat))
    BY <1>4, WFMin, NatLessThanWellFounded
  <2> QED
    BY <1>4, <1>5, <2>1 DEF OpToRel
<1>7. \A k \in 0 .. N : anc[k] = other[k]
    BY <1>6 DEF Differ
<1> QED
    BY <1>3, <1>7

\* The ancestors of the running fiber are the list of resumed fibers, the last
\* first, and then the thread.
LEMMA AncestorIs ==
    ASSUME NEW n \in Nat, NEW st \in [1 .. n -> Fiber], IsChain(n, st)
    PROVE  Ancestor = ReadBack(n, st)
<1>1. Ancestor = CHOOSE anc : Climbs(anc)
    BY DEF Ancestor, Climbs
<1>2. Climbs(ReadBack(n, st))
    BY ReadBackClimbs
<1>3. Climbs(Ancestor)
    BY <1>1, <1>2
<1> QED
    BY <1>2, <1>3, ChainLength, ClimbsUnique

\* What Ancestor is at each argument.
LEMMA AncestorAt ==
    ASSUME NEW n \in Nat, NEW st \in [1 .. n -> Fiber], IsChain(n, st)
    PROVE  /\ Cardinality(Fiber) \in Nat /\ n <= Cardinality(Fiber)
           /\ \A k \in 0 .. Cardinality(Fiber) :
                 Ancestor[k] = IF k < n THEN st[n - k] ELSE Thread
BY AncestorIs, ChainLength DEF ReadBack

\* Where there is a list of resumed fibers, following the parents visits all
\* of them and ends at the thread.
LEMMA ChainReaches ==
    ASSUME NEW n \in Nat, NEW st \in [1 .. n -> Fiber], IsChain(n, st)
    PROVE  ChainReachesThread
<1> DEFINE N == Cardinality(Fiber)
<1>1. /\ N \in Nat /\ n <= N
      /\ \A k \in 0 .. N : Ancestor[k] = IF k < n THEN st[n - k] ELSE Thread
    BY AncestorAt
<1> HIDE DEF N
<1>2. \A i \in 1 .. n : st[i] \in Fiber /\ st[i] # Thread
    BY ThreadAssumption
<1>3. Ancestor[N] = Thread
    BY <1>1
<1>4. ASSUME NEW i \in 1 .. n PROVE n - i \in 0 .. N /\ Ancestor[n - i] = st[i]
  <2>1. n - i \in 0 .. N /\ n - i < n /\ n - (n - i) = i
    BY <1>1
  <2> QED
    BY <1>1, <2>1
<1>5. ASSUME NEW k \in 0 .. N, Ancestor[k] # Thread
      PROVE  \E i \in 1 .. n : Ancestor[k] = st[i]
  <2>1. k < n /\ n - k \in 1 .. n /\ Ancestor[k] = st[n - k]
    BY <1>1, <1>5
  <2> QED
    BY <2>1
<1>6. Active = {Ancestor[k] : k \in 0 .. N} \ {Thread}
  <2>1. Active = {st[i] : i \in 1 .. n}
    BY DEF IsChain
  <2> QED
    BY <1>2, <1>4, <1>5, <2>1
<1> QED
    BY <1>3, <1>6 DEF ChainReachesThread, N

\* Depth is the length of the list, and the list is the abstract stack.
LEMMA DepthIs ==
    ASSUME NEW n \in Nat, NEW st \in [1 .. n -> Fiber], IsChain(n, st)
    PROVE  Depth = n /\ [i \in 1 .. Depth |-> Ancestor[Depth - i]] = st
<1> DEFINE N == Cardinality(Fiber)
           Bottom(d) == /\ Ancestor[d] = Thread
                        /\ \A m \in 0 .. d - 1 : Ancestor[m] # Thread
<1>1. /\ N \in Nat /\ n <= N
      /\ \A k \in 0 .. N : Ancestor[k] = IF k < n THEN st[n - k] ELSE Thread
    BY AncestorAt
<1>2. Depth = CHOOSE d \in 0 .. N : Bottom(d)
    BY DEF Depth
<1>3. ASSUME NEW k \in 0 .. N, k < n PROVE Ancestor[k] # Thread
  <2>1. n - k \in 1 .. n
    BY <1>1, <1>3
  <2> QED
    BY <1>1, <1>3, <2>1, ThreadAssumption
<1>4. n \in 0 .. N /\ Ancestor[n] = Thread
    BY <1>1
<1>5. Bottom(n)
  <2>1. \A m \in 0 .. n - 1 : m \in 0 .. N /\ m < n
    BY <1>1
  <2> QED
    BY <1>3, <1>4, <2>1
<1>6. ASSUME NEW d \in 0 .. N, Bottom(d) PROVE d = n
  <2>1. ~ (d < n)
    BY <1>3, <1>6
  <2>2. n < d => n \in 0 .. d - 1
    BY <1>1
  <2>3. ~ (n < d)
    BY <1>4, <1>6, <2>2
  <2> QED
    BY <1>1, <2>1, <2>3
<1> HIDE DEF N, Bottom
<1>7. Depth = n
    BY <1>2, <1>4, <1>5, <1>6
<1>8. ASSUME NEW i \in 1 .. n PROVE Ancestor[n - i] = st[i]
  <2>1. n - i \in 0 .. N /\ n - i < n /\ n - (n - i) = i
    BY <1>1
  <2> QED
    BY <1>1, <2>1 DEF N
<1>9. st = [i \in 1 .. n |-> st[i]]
    OBVIOUS
<1> QED
    BY <1>7, <1>8, <1>9

\* A chain suffices for what the runs check.
LEMMA ChainSuffices == Chain => ChainReachesThread
BY ChainReaches DEF Chain
-----------------------------------------------------------------------------
(* The call stack *)

Stack    == [i \in 1 .. Depth |-> Ancestor[Depth - i]]
ParkedSet == {f \in Fiber : Parked(f)}
ExitedSet == {f \in Fiber : Exited(f)}

\* The mapping, for a reader of the steps below.
StackIs == \A n \in Nat : \A st \in [1 .. n -> Fiber] : IsChain(n, st) => Stack = st

\* The abstract stack is the chain ...
LEMMA StackNow == StackIs
BY DepthIs DEF StackIs, Stack

\* ... and so it is after a step.
LEMMA StackNext == StackIs'
BY StackNow, PTL

\* What is parked or has exited is not resumed.
LEMMA Apart ==
    ASSUME FiberInv, NEW f \in Fiber
    PROVE  /\ status[f] = "unmapped" => ~ Parked(f) /\ f \notin Active
           /\ Exited(f) => ~ Parked(f) /\ f \notin Active
           /\ Parked(f) => f \notin Active
BY DEF FiberInv, StatusMatchesStack, Parked, Exited, Active

\* A list of fibers is a sequence, what a resume adds to it is appended, and
\* what a yield or an exit takes away is its last element.
LEMMA PushIsAppend ==
    ASSUME NEW n \in Nat, NEW st \in [1 .. n -> Fiber], NEW f \in Fiber
    PROVE  Pushed(n, st, f) = Append(st, f)
<1>1. st \in Seq(Fiber) /\ Len(st) = n
    OBVIOUS
<1>2. /\ Append(st, f) \in Seq(Fiber) /\ Len(Append(st, f)) = n + 1
      /\ \A i \in 1 .. n : Append(st, f)[i] = st[i]
      /\ Append(st, f)[n + 1] = f
    BY <1>1
<1>3. /\ Pushed(n, st, f) \in [1 .. n + 1 -> Fiber]
      /\ \A i \in 1 .. n + 1 : Pushed(n, st, f)[i] = IF i = n + 1 THEN f ELSE st[i]
    BY DEF Pushed
<1>4. Append(st, f) \in [1 .. n + 1 -> Fiber]
    BY <1>2, LenProperties
<1> QED
    BY <1>2, <1>3, <1>4

\* Last and first part of a list that is not empty, place by place.
LEMMA PopIsFront ==
    ASSUME NEW n \in Nat, n > 0, NEW st \in [1 .. n -> Fiber]
    PROVE  /\ st # <<>> /\ CS!Last(st) = st[n]
           /\ CS!Front(st) = [i \in 1 .. n - 1 |-> st[i]]
<1>1. st \in Seq(Fiber) /\ Len(st) = n /\ st # <<>>
    OBVIOUS
<1>2. CS!Last(st) = st[n]
    BY <1>1 DEF CS!Last
<1>3. SubSeq(st, 1, n - 1) = [i \in 1 .. n - 1 |-> st[i]]
    BY <1>1
<1>4. CS!Front(st) = SubSeq(st, 1, n - 1)
    BY <1>1 DEF CS!Front
<1> QED
    BY <1>1, <1>2, <1>3, <1>4

\* A new system has an empty stack.
LEMMA CallStackInit == ef_fiber_init_sched => CS!Init
<1> SUFFICES ASSUME ef_fiber_init_sched PROVE CS!Init
    OBVIOUS
<1>1. FiberInv /\ Chain
    BY FiberInitInv, ChainInit
<1>2. PICK n \in Nat : \E st \in [1 .. n -> Fiber] : IsChain(n, st)
    BY <1>1 DEF Chain
<1>3. PICK st \in [1 .. n -> Fiber] : IsChain(n, st)
    BY <1>2
<1>4. Active = {}
    BY ThreadAssumption DEF ef_fiber_init_sched, Active, AnyFiber
<1>5. n = 0
  <2> SUFFICES ASSUME n # 0 PROVE FALSE
    OBVIOUS
  <2>1. 1 \in 1 .. n
    OBVIOUS
  <2>2. st[1] \in Active
    BY <1>3, <2>1 DEF IsChain
  <2> QED
    BY <1>4, <2>2
<1>6. Stack = <<>>
  <2>1. Stack = st
    BY <1>3, StackNow DEF StackIs
  <2>2. st \in Seq(Fiber) /\ Len(st) = 0
    BY <1>5
  <2> QED
    BY <2>1, <2>2
<1>7. ParkedSet = {} /\ ExitedSet = {}
    BY ThreadAssumption DEF ef_fiber_init_sched, ParkedSet, ExitedSet, Parked, Exited, AnyFiber
<1> QED
    BY <1>6, <1>7 DEF CS!Init, Stack, ParkedSet, ExitedSet

\* The four steps that leave the resumed fibers alone.
LEMMA AsideRefines ==
    ASSUME FiberInv, Chain,
           \/ \E f \in Fiber : ef_fiber_create(f) \/ (Exited(f) /\ ef_fiber_init(f))
           \/ \E D \in SUBSET Fiber : (\A f \in D : Exited(f)) /\ ef_fiber_delete(D)
           \/ UNCHANGED fiber_vars
    PROVE  [CS!Next]_(CS!vars)
<1>1. PICK n \in Nat : \E st \in [1 .. n -> Fiber] : IsChain(n, st)
    BY DEF Chain
<1>2. PICK st \in [1 .. n -> Fiber] : IsChain(n, st)
    BY <1>1
<1>3. IsChain(n, st)'
    BY <1>2, ChainAside
<1>4. Stack = st /\ Stack' = st
    BY <1>2, <1>3, StackNow, StackNext DEF StackIs
<1>5. CS!ToSet(Stack) = Active
    BY <1>2, <1>4 DEF CS!ToSet, IsChain
<1>6. stack_ptr \in [AnyFiber -> Frame] /\ status \in [Fiber -> Status]
    BY DEF FiberInv, FiberTypeOK
<1>7. ASSUME NEW f \in Fiber, ef_fiber_create(f) PROVE CS!New(f)
  <2>1. status[f] = "unmapped" /\ ~ Parked(f) /\ ~ Exited(f) /\ f \notin Active
    BY <1>7, Apart DEF ef_fiber_create, Exited
  <2>2. f \notin ParkedSet \cup ExitedSet \cup CS!ToSet(Stack)
    BY <1>5, <2>1 DEF ParkedSet, ExitedSet
  <2>3. ParkedSet' = ParkedSet \cup {f} /\ ExitedSet' = ExitedSet
    BY <1>6, <1>7, <2>1 DEF ef_fiber_create, ef_fiber_internal_init, ParkedSet, ExitedSet, Parked, Exited, AnyFiber
  <2> QED
    BY <1>4, <2>2, <2>3 DEF CS!New, Stack, ParkedSet, ExitedSet
<1>8. ASSUME NEW f \in Fiber, Exited(f), ef_fiber_init(f) PROVE CS!Reuse(f)
  <2>1. f \in ExitedSet /\ ParkedSet' = ParkedSet \cup {f} /\ ExitedSet' = ExitedSet \ {f}
    BY <1>6, <1>8 DEF ef_fiber_init, ef_fiber_internal_init, ParkedSet, ExitedSet, Parked, Exited, AnyFiber
  <2> QED
    BY <1>4, <2>1 DEF CS!Reuse, Stack, ParkedSet, ExitedSet
<1>9. ASSUME NEW D \in SUBSET Fiber, \A f \in D : Exited(f), ef_fiber_delete(D)
      PROVE  CS!Next
  <2>1. \A f \in D : ~ Parked(f)
    BY <1>9, Apart
  <2>2. D \in SUBSET ExitedSet /\ ParkedSet' = ParkedSet /\ ExitedSet' = ExitedSet \ D
    BY <1>6, <1>9, <2>1 DEF ef_fiber_delete, ParkedSet, ExitedSet, Parked, Exited, AnyFiber
  <2>3. CS!Free(D)
    BY <1>4, <2>2 DEF CS!Free, Stack, ParkedSet, ExitedSet
  <2> QED
    BY <2>2, <2>3 DEF CS!Next, ExitedSet
<1>10. ASSUME UNCHANGED fiber_vars PROVE UNCHANGED CS!vars
  <2>1. ParkedSet' = ParkedSet /\ ExitedSet' = ExitedSet
    BY <1>10 DEF fiber_vars, ParkedSet, ExitedSet, Parked, Exited
  <2> QED
    BY <1>4, <2>1 DEF CS!vars, Stack, ParkedSet, ExitedSet
<1> QED
    BY <1>7, <1>8, <1>9, <1>10 DEF CS!Next

\* Resuming a parked fiber calls it.
LEMMA ResumeRefines ==
    ASSUME FiberInv, Chain, NEW f \in Fiber, Parked(f), ef_fiber_resume(f)
    PROVE  CS!Call(f)
<1>1. PICK n \in Nat : \E st \in [1 .. n -> Fiber] : IsChain(n, st)
    BY DEF Chain
<1>2. PICK st \in [1 .. n -> Fiber] : IsChain(n, st)
    BY <1>1
<1>3. Pushed(n, st, f) \in [1 .. n + 1 -> Fiber] /\ IsChain(n + 1, Pushed(n, st, f))' /\ n + 1 \in Nat
    BY <1>2, ChainPush
<1>4. Stack = st /\ Stack' = Pushed(n, st, f)
    BY <1>2, <1>3, StackNow, StackNext DEF StackIs
<1>5. Stack' = Append(Stack, f)
    BY <1>4, PushIsAppend
<1>6. /\ stack_ptr \in [AnyFiber -> Frame] /\ status' = status
      /\ current_fiber \in AnyFiber /\ current_fiber # f
      /\ stack_ptr[current_fiber] = "running"
      /\ stack_ptr' = [stack_ptr EXCEPT ![current_fiber] = "resume", ![f] = "running"]
    BY DEF FiberInv, FiberTypeOK, SoleRunner, Parked, ef_fiber_resume, ef_fiber_internal_swap
<1>7. f \in ParkedSet /\ ParkedSet' = ParkedSet \ {f} /\ ExitedSet' = ExitedSet
    BY <1>6 DEF ParkedSet, ExitedSet, Parked, Exited, AnyFiber
<1> QED
    BY <1>5, <1>7 DEF CS!Call, Stack, ParkedSet, ExitedSet

\* Yielding and returning pop the running fiber.
LEMMA PopRefines ==
    ASSUME FiberInv, Chain, ef_fiber_yield \/ ef_fiber_exit
    PROVE  CS!Suspend \/ CS!Finish
<1>1. PICK n \in Nat : \E st \in [1 .. n -> Fiber] : IsChain(n, st)
    BY DEF Chain
<1>2. PICK st \in [1 .. n -> Fiber] : IsChain(n, st)
    BY <1>1
<1> DEFINE new == [i \in 1 .. n - 1 |-> st[i]]
<1>3. /\ n > 0 /\ current_fiber = st[n]
      /\ new \in [1 .. n - 1 -> Fiber] /\ IsChain(n - 1, new)'
    BY <1>2, ChainPop
<1>4. st # <<>> /\ CS!Last(st) = current_fiber /\ CS!Front(st) = new
    BY <1>3, PopIsFront
<1> HIDE DEF new
<1>5. Stack = st
    BY <1>2, StackNow DEF StackIs
<1>6. Stack' = new
  <2>1. n - 1 \in Nat
    BY <1>3
  <2> QED
    BY <1>3, <2>1, StackNext DEF StackIs
<1>7. /\ stack_ptr \in [AnyFiber -> Frame] /\ status \in [Fiber -> Status]
      /\ current_fiber \in Fiber /\ stack_ptr[current_fiber] = "running"
    BY <1>3 DEF FiberInv, FiberTypeOK, SoleRunner
<1>8. /\ parent[current_fiber] \in AnyFiber /\ parent[current_fiber] # current_fiber
      /\ stack_ptr[parent[current_fiber]] = "resume"
    BY <1>7 DEF FiberInv, ReturnsToResumer, Active
<1>9. CASE ef_fiber_yield
  <2>1. ParkedSet' = ParkedSet \cup {current_fiber} /\ ExitedSet' = ExitedSet
    BY <1>7, <1>8, <1>9 DEF ef_fiber_yield, ef_fiber_internal_swap, ParkedSet, ExitedSet, Parked, Exited, AnyFiber
  <2> QED
    BY <1>4, <1>5, <1>6, <2>1 DEF CS!Suspend, Stack, ParkedSet, ExitedSet
<1>10. CASE ef_fiber_exit
  <2>1. ParkedSet' = ParkedSet /\ ExitedSet' = ExitedSet \cup {current_fiber}
    BY <1>7, <1>8, <1>10 DEF ef_fiber_exit, ef_fiber_internal_swap, ParkedSet, ExitedSet, Parked, Exited, AnyFiber
  <2> QED
    BY <1>4, <1>5, <1>6, <2>1 DEF CS!Finish, Stack, ParkedSet, ExitedSet
<1> QED
    BY <1>9, <1>10

\* Every step of the fiber layer, as its callers make it, is a step of the
\* call stack or changes nothing it shows.
LEMMA CallStackStep == FiberInv /\ Chain /\ [FiberStep]_fiber_vars => [CS!Next]_(CS!vars)
<1> SUFFICES ASSUME FiberInv, Chain, [FiberStep]_fiber_vars PROVE [CS!Next]_(CS!vars)
    OBVIOUS
<1>1. CASE UNCHANGED fiber_vars
    BY <1>1, AsideRefines
<1>2. ASSUME NEW f \in Fiber, Parked(f), ef_fiber_resume(f) PROVE CS!Next
    BY <1>2, ResumeRefines DEF CS!Next
<1>3. CASE ef_fiber_yield \/ ef_fiber_exit
    BY <1>3, PopRefines DEF CS!Next
<1>4. CASE \/ \E f \in Fiber : ef_fiber_create(f) \/ (Exited(f) /\ ef_fiber_init(f))
           \/ \E D \in SUBSET Fiber : (\A f \in D : Exited(f)) /\ ef_fiber_delete(D)
    BY <1>4, AsideRefines
<1> QED
    BY <1>1, <1>2, <1>3, <1>4 DEF FiberStep

\* The fiber layer's own next-state relation deletes one fiber at a time.
LEMMA NextIsStep == [FiberNext]_fiber_vars => [FiberStep]_fiber_vars
<1>1. ASSUME NEW f \in Fiber, Exited(f), ef_fiber_delete({f}) PROVE FiberStep
  <2>1. {f} \in SUBSET Fiber /\ \A g \in {f} : Exited(g)
    BY <1>1
  <2> QED
    BY <1>1, <2>1 DEF FiberStep
<1> QED
    BY <1>1 DEF FiberNext, FiberStep

\* However fibers are resumed, yield and return, the resumed ones are a chain.
LEMMA ChainSafe == FiberSpec => [](FiberInv /\ Chain)
<1>1. ef_fiber_init_sched => FiberInv /\ Chain
    BY FiberInitInv, ChainInit
<1>2. FiberInv /\ Chain /\ [FiberNext]_fiber_vars => (FiberInv /\ Chain)'
    BY FiberStepInv, ChainStep, NextIsStep
<1> QED
    BY <1>1, <1>2, PTL DEF FiberSpec

\* However fibers resume, yield and return, the parent pointers lead from the
\* running fiber through every resumed one to the thread.
THEOREM FiberChain == FiberSpec => []ChainReachesThread
BY ChainSafe, ChainSuffices, PTL

\* The fiber layer implements the call stack for any set of fibers: what a
\* resume pushes is what the matching yield or return takes off again.
THEOREM FiberRefines == FiberSpec => ImplementsCallStack
<1>1. FiberInv /\ Chain /\ [FiberNext]_fiber_vars => [CS!Next]_(CS!vars)
    BY CallStackStep, NextIsStep
<1> QED
    BY <1>1, CallStackInit, ChainSafe, PTL DEF FiberSpec, ImplementsCallStack, CS!Spec
-----------------------------------------------------------------------------
(* The pool *)

\* The pool's invariant as facts about indices, the form the provers use.
LEMMA PoolFacts ==
    ASSUME PoolInv
    PROVE  /\ FiberInv /\ FiberTypeOK
           /\ free_list \in Seq(Fiber)
           /\ Len(free_list) \in Nat
           /\ DOMAIN free_list = 1 .. Len(free_list)
           /\ \A i \in 1 .. Len(free_list) : free_list[i] \in Fiber /\ status[free_list[i]] = "exited"
           /\ \A i, j \in 1 .. Len(free_list) : free_list[i] = free_list[j] => i = j
           /\ \A co \in Fiber : status[co] = "exited" =>
                 \E i \in 1 .. Len(free_list) : free_list[i] = co
           /\ full_list = {co \in Fiber : status[co] # "unmapped"}
           /\ IsFiniteSet(full_list)
           /\ free_count = Len(free_list)
           /\ full_count = Cardinality(full_list) /\ full_count <= limit_max
           /\ full_count \in Nat /\ free_count \in Nat
<1>1. /\ free_list \in Seq(Fiber) /\ FiberInv /\ FiberTypeOK /\ full_list \in SUBSET Fiber
      /\ full_count \in Nat /\ free_count \in Nat
    BY DEF PoolInv, TypeOK
<1>2. Len(free_list) \in Nat /\ DOMAIN free_list = 1 .. Len(free_list)
    BY <1>1, LenProperties
<1>3. \A i \in 1 .. Len(free_list) : free_list[i] \in Fiber
    BY <1>1, ElementOfSeq
<1>4. IsFiniteSet(full_list)
    BY <1>1, FiberAssumption, FS_Subset
<1> QED
    BY <1>1, <1>2, <1>3, <1>4 DEF PoolInv, Accounting, FreeListSound, Exited

\* The converse for the next state.
LEMMA PoolFactsSuffice ==
    ASSUME FiberInv', free_list' \in Seq(Fiber), last_run_time' \in [Fiber -> Nat], now' \in Nat,
           full_count' \in Nat,
           \A i \in 1 .. Len(free_list') : status'[free_list'[i]] = "exited",
           \A i, j \in 1 .. Len(free_list') : free_list'[i] = free_list'[j] => i = j,
           \A co \in Fiber : status'[co] = "exited" =>
               \E i \in 1 .. Len(free_list') : free_list'[i] = co,
           full_list' = {co \in Fiber : status'[co] # "unmapped"},
           free_count' = Len(free_list'),
           full_count' = Cardinality(full_list'), full_count' <= limit_max
    PROVE  PoolInv'
<1>1. Len(free_list') \in Nat /\ DOMAIN free_list' = 1 .. Len(free_list')
    BY LenProperties
<1>2. FreeListSound'
    BY <1>1 DEF FreeListSound, Exited
<1>3. Accounting'
    BY DEF Accounting
<1>4. TypeOK'
    BY <1>1 DEF TypeOK, FiberInv
<1> QED
    BY <1>2, <1>3, <1>4 DEF PoolInv

\* A new pool is empty.
LEMMA PoolInitInv == Init => PoolInv
<1> SUFFICES ASSUME Init PROVE PoolInv
    OBVIOUS
<1>1. FiberInv
    BY FiberInitInv DEF Init, ef_coroutine_pool_init
<1>2. /\ full_list = {} /\ free_list = <<>> /\ full_count = 0 /\ free_count = 0 /\ now = 0
      /\ last_run_time = [co \in Fiber |-> 0]
      /\ \A f \in Fiber : status[f] = "unmapped"
    BY DEF Init, ef_coroutine_pool_init, ef_fiber_init_sched
<1>3. TypeOK
    BY <1>1, <1>2 DEF TypeOK, FiberInv
<1>4. Accounting
    BY <1>2, FS_EmptySet, LimitAssumption DEF Accounting
<1>5. FreeListSound
    BY <1>2 DEF FreeListSound, Exited
<1> QED
    BY <1>1, <1>3, <1>4, <1>5 DEF PoolInv

\* ef_coroutine_create taking the head of the free list.
LEMMA ReuseInv ==
    ASSUME PoolInv, NEW co \in Fiber, Reuse(co), UNCHANGED now
    PROVE  PoolInv'
<1> DEFINE n == Len(free_list)
<1>1. n > 0 /\ free_list # <<>> /\ co = free_list[1] /\ status[co] = "exited"
    BY PoolFacts DEF Reuse
<1>2. FiberInv'
    BY <1>1, PoolFacts, InitInv DEF Reuse, Exited
<1>3. status' = [status EXCEPT ![co] = "inited"]
    BY DEF Reuse, ef_fiber_init, ef_fiber_internal_init
<1>4. /\ free_list' \in Seq(Fiber) /\ Len(free_list') = n - 1
      /\ \A i \in 1 .. n - 1 : free_list'[i] = free_list[i + 1]
    BY <1>1, PoolFacts, HeadTailProperties DEF Reuse
<1> HIDE DEF n
<1>5. n \in Nat
    BY PoolFacts DEF n
<1>6. \A i \in 1 .. n - 1 : i + 1 \in 1 .. n /\ i + 1 # 1
    BY <1>5
<1>7. status \in [Fiber -> Status]
    BY PoolFacts DEF FiberTypeOK
<1>8. \A i \in 1 .. n - 1 : status'[free_list'[i]] = "exited"
    BY <1>1, <1>3, <1>4, <1>5, <1>6, <1>7, PoolFacts DEF n
<1>9. ASSUME NEW i \in 1 .. n - 1, NEW j \in 1 .. n - 1, free_list'[i] = free_list'[j]
      PROVE  i = j
  <2>1. free_list[i + 1] = free_list[j + 1] /\ i + 1 \in 1 .. n /\ j + 1 \in 1 .. n
    BY <1>4, <1>6, <1>9
  <2>2. i + 1 = j + 1
    BY <2>1, PoolFacts DEF n
  <2> QED
    BY <2>2, <1>5
<1>10. ASSUME NEW f \in Fiber, status'[f] = "exited"
       PROVE  \E i \in 1 .. n - 1 : free_list'[i] = f
  <2>1. f # co /\ status[f] = "exited"
    BY <1>3, <1>7, <1>10
  <2>2. PICK i \in 1 .. n : free_list[i] = f
    BY <2>1, PoolFacts DEF n
  <2>3. i # 1 /\ i - 1 \in 1 .. n - 1 /\ free_list'[i - 1] = free_list[(i - 1) + 1]
    BY <2>1, <2>2, <1>1, <1>4, <1>5
  <2> QED
    BY <2>2, <2>3
<1>11. full_list' = {f \in Fiber : status'[f] # "unmapped"}
    BY <1>1, <1>3, <1>7, PoolFacts DEF Reuse
<1>12. UNCHANGED <<full_list, full_count, last_run_time>> /\ free_count' = free_count - 1
    BY DEF Reuse
<1>13. last_run_time \in [Fiber -> Nat] /\ now \in Nat
    BY DEF PoolInv, TypeOK
<1> QED
  <2>1. /\ full_count' \in Nat /\ full_count' = Cardinality(full_list') /\ full_count' <= limit_max
        /\ free_count' = Len(free_list')
    BY <1>4, <1>12, PoolFacts DEF n
  <2>2. last_run_time' \in [Fiber -> Nat] /\ now' \in Nat
    BY <1>12, <1>13
  <2> QED
    BY <1>2, <1>4, <1>8, <1>9, <1>10, <1>11, <2>1, <2>2, PoolFactsSuffice

\* ef_coroutine_create mapping a new fiber.
LEMMA GrowInv ==
    ASSUME PoolInv, NEW co \in Fiber, Grow(co), UNCHANGED now
    PROVE  PoolInv'
<1>1. /\ Len(free_list) = 0 /\ full_count < limit_max
      /\ status[co] = "unmapped" /\ co \notin full_list
    BY PoolFacts DEF Grow, ef_fiber_create
<1>2. FiberInv'
    BY PoolFacts, CreateInv DEF Grow
<1>3. status' = [status EXCEPT ![co] = "inited"] /\ status \in [Fiber -> Status]
    BY PoolFacts DEF Grow, ef_fiber_create, ef_fiber_internal_init, FiberTypeOK
<1>4. /\ full_count' = full_count + 1 /\ full_list' = full_list \cup {co}
      /\ UNCHANGED <<free_list, free_count>>
      /\ last_run_time' = [last_run_time EXCEPT ![co] = 0]
    BY DEF Grow
<1>5. full_count' = Cardinality(full_list')
  <2>1. IsFiniteSet(full_list) /\ full_count = Cardinality(full_list)
    BY PoolFacts
  <2>2. Cardinality(full_list \cup {co}) = Cardinality(full_list) + 1
    BY <2>1, <1>1, FS_AddElement
  <2> QED
    BY <2>1, <2>2, <1>4
<1>6. full_list' = {f \in Fiber : status'[f] # "unmapped"}
    BY <1>3, <1>4, PoolFacts
<1>7. \A f \in Fiber : status'[f] # "exited"
    BY <1>1, <1>3, PoolFacts
<1>8. last_run_time' \in [Fiber -> Nat] /\ now' \in Nat
    BY <1>4 DEF PoolInv, TypeOK
<1>9. full_count' \in Nat /\ full_count' <= limit_max
    BY <1>1, <1>4, PoolFacts, LimitAssumption
<1>10. free_list' \in Seq(Fiber) /\ Len(free_list') = 0 /\ free_count' = Len(free_list')
    BY <1>1, <1>4, PoolFacts
<1> QED
    BY <1>2, <1>5, <1>6, <1>7, <1>8, <1>9, <1>10, PoolFactsSuffice

\* A step that leaves the pool and every status word alone.
LEMMA QuietInv ==
    ASSUME PoolInv, FiberInv', UNCHANGED <<pool_vars, status>>, now' \in Nat
    PROVE  PoolInv'
BY DEF PoolInv, TypeOK, FiberInv, Accounting, FreeListSound, Exited, pool_vars

\* A coroutine that exits becomes the head of the free list.
LEMMA ExitPoolInv == ASSUME PoolInv, Exit PROVE PoolInv'
<1> DEFINE c == current_fiber
           n == Len(free_list)
<1>1. c \in Fiber /\ status[c] = "inited"
  <2>1. c \in Fiber /\ stack_ptr[c] = "running" /\ status[c] \in Status
    BY PoolFacts DEF Exit, ef_fiber_exit, FiberInv, FiberTypeOK, SoleRunner, AnyFiber
  <2> QED
    BY <2>1, PoolFacts DEF FiberInv, StatusMatchesStack, Status
<1>2. FiberInv'
    BY PoolFacts, ExitInv DEF Exit
<1>3. status' = [status EXCEPT ![c] = "exited"] /\ status \in [Fiber -> Status]
    BY PoolFacts DEF Exit, ef_fiber_exit, FiberTypeOK
<1>4. /\ free_list' \in Seq(Fiber) /\ Len(free_list') = n + 1
      /\ \A i \in 1 .. n + 1 : free_list'[i] = IF i = 1 THEN c ELSE free_list[i - 1]
  <2>1. <<c>> \in Seq(Fiber) /\ Len(<<c>>) = 1 /\ <<c>>[1] = c
    BY <1>1
  <2>2. free_list' = <<c>> \o free_list
    BY DEF Exit
  <2>3. /\ <<c>> \o free_list \in Seq(Fiber) /\ Len(<<c>> \o free_list) = 1 + n
        /\ \A i \in 1 .. 1 + n : (<<c>> \o free_list)[i]
                                   = IF i <= 1 THEN <<c>>[i] ELSE free_list[i - 1]
    BY <2>1, PoolFacts, ConcatProperties
  <2> QED
    BY <2>1, <2>2, <2>3, PoolFacts
<1>5. n \in Nat
    BY PoolFacts
<1>6. /\ full_count' = full_count /\ full_list' = full_list /\ free_count' = free_count + 1
      /\ last_run_time' = [last_run_time EXCEPT ![c] = now] /\ now' = now
    BY DEF Exit
<1> HIDE DEF c, n
<1>7. \A i \in 2 .. n + 1 : i - 1 \in 1 .. n /\ free_list'[i] = free_list[i - 1]
    BY <1>4, <1>5
<1>8. free_list'[1] = c
    BY <1>4, <1>5
<1>9. ASSUME NEW i \in 1 .. n + 1
      PROVE  status'[free_list'[i]] = "exited"
  <2>1. CASE i = 1
    BY <2>1, <1>1, <1>3, <1>8
  <2>2. CASE i # 1
    <3>1. i \in 2 .. n + 1
      BY <2>2, <1>5
    <3> QED
      BY <3>1, <1>1, <1>3, <1>7, PoolFacts DEF n
  <2> QED
    BY <2>1, <2>2
<1>10. ASSUME NEW i \in 1 .. n + 1, NEW j \in 1 .. n + 1, free_list'[i] = free_list'[j]
       PROVE  i = j
  <2>1. \A l \in 2 .. n + 1 : free_list'[l] # c
    BY <1>1, <1>7, PoolFacts DEF n
  <2>2. CASE i = 1 \/ j = 1
    BY <2>1, <2>2, <1>5, <1>8, <1>10
  <2>3. CASE i # 1 /\ j # 1
    <3>1. i \in 2 .. n + 1 /\ j \in 2 .. n + 1
      BY <2>3, <1>5
    <3>2. i - 1 = j - 1
      BY <3>1, <1>7, <1>10, PoolFacts DEF n
    <3> QED
      BY <3>1, <3>2, <1>5
  <2> QED
    BY <2>2, <2>3
<1>11. ASSUME NEW f \in Fiber, status'[f] = "exited"
       PROVE  \E i \in 1 .. n + 1 : free_list'[i] = f
  <2>1. CASE f = c
    BY <2>1, <1>5, <1>8
  <2>2. CASE f # c
    <3>1. PICK i \in 1 .. n : free_list[i] = f
      BY <2>2, <1>3, <1>11, PoolFacts DEF n
    <3>2. i + 1 \in 2 .. n + 1 /\ i + 1 \in 1 .. n + 1 /\ (i + 1) - 1 = i
      BY <1>5
    <3> QED
      BY <3>1, <3>2, <1>7
  <2> QED
    BY <2>1, <2>2
<1>12. full_list' = {f \in Fiber : status'[f] # "unmapped"}
    BY <1>1, <1>3, <1>6, PoolFacts
<1>13. last_run_time' \in [Fiber -> Nat] /\ now' \in Nat
    BY <1>1, <1>6 DEF PoolInv, TypeOK
<1>14. /\ full_count' \in Nat /\ full_count' = Cardinality(full_list') /\ full_count' <= limit_max
       /\ free_count' = Len(free_list')
    BY <1>4, <1>6, PoolFacts DEF n
<1> QED
    BY <1>2, <1>4, <1>9, <1>10, <1>11, <1>12, <1>13, <1>14, PoolFactsSuffice

\* The coroutines at distinct places of the list's tail are as many as the
\* places.
LEMMA TailCount ==
    ASSUME NEW s \in Seq(Fiber), NEW k \in 0 .. Len(s),
           \A i, j \in 1 .. Len(s) : s[i] = s[j] => i = j
    PROVE  LET dead == {s[i] : i \in Len(s) - k + 1 .. Len(s)}
           IN  IsFiniteSet(dead) /\ Cardinality(dead) = k
<1> DEFINE n == Len(s)
           D == n - k + 1 .. n
           dead == {s[i] : i \in D}
           f == [i \in D |-> s[i]]
<1>1. n \in Nat /\ k \in Nat /\ k <= n
    BY LenProperties
<1>2. IsFiniteSet(D) /\ Cardinality(D) = k
  <2>1. n - k + 1 \in Int /\ n \in Int
    BY <1>1
  <2>2. IsFiniteSet(D) /\ Cardinality(D) = IF n - k + 1 > n THEN 0 ELSE n - (n - k + 1) + 1
    BY <2>1, FS_Interval
  <2> QED
    BY <2>2, <1>1
<1>3. D \subseteq 1 .. n
    BY <1>1
<1>4. f \in Surjection(D, dead)
    BY DEF Surjection
<1>5. f \in Injection(D, dead)
  <2>1. \A i, j \in D : f[i] = f[j] => i = j
    BY <1>3
  <2> QED
    BY <2>1, <1>4 DEF Injection, Surjection, IsInjective
<1> QED
    BY <1>2, <1>4, <1>5, FS_Surjection

\* ef_coroutine_pool_shrink cutting the tail of the free list.
LEMMA ShrinkInv ==
    ASSUME PoolInv, NEW idle \in IdleArgs, NEW m \in CountArgs,
           ef_coroutine_pool_shrink(idle, m)
    PROVE  PoolInv'
<1> DEFINE n == Len(free_list)
<1>1. PICK k \in 0 .. n :
         LET dead == {free_list[i] : i \in n - k + 1 .. n}
         IN  /\ free_list' = SubSeq(free_list, 1, n - k)
             /\ full_list' = full_list \ dead
             /\ ef_fiber_delete(dead)
             /\ free_count' = free_count - k
             /\ full_count' = full_count - k
    BY DEF ef_coroutine_pool_shrink
<1> DEFINE dead == {free_list[i] : i \in n - k + 1 .. n}
<1>2. UNCHANGED <<last_run_time, now>>
    BY DEF ef_coroutine_pool_shrink
<1>3. n \in Nat /\ k \in Nat /\ k <= n /\ n - k \in Nat
    BY PoolFacts
<1>4. dead \in SUBSET Fiber /\ \A f \in dead : status[f] = "exited"
  <2>1. \A i \in n - k + 1 .. n : i \in 1 .. n
    BY <1>3
  <2> QED
    BY <2>1, PoolFacts
<1>5. FiberInv'
    BY <1>1, <1>4, PoolFacts, DeleteInv DEF Exited
<1>6. status' = [f \in Fiber |-> IF f \in dead THEN "unmapped" ELSE status[f]]
    BY <1>1 DEF ef_fiber_delete
<1>7. /\ free_list' \in Seq(Fiber) /\ Len(free_list') = n - k
      /\ \A i \in 1 .. n - k : free_list'[i] = free_list[i]
  <2>1. \A i \in 1 .. n - k : free_list[i] \in Fiber
    BY <1>3, PoolFacts
  <2>2. /\ SubSeq(free_list, 1, n - k) \in Seq(Fiber)
        /\ Len(SubSeq(free_list, 1, n - k)) = IF 1 <= n - k THEN n - k - 1 + 1 ELSE 0
        /\ \A i \in 1 .. n - k - 1 + 1 : SubSeq(free_list, 1, n - k)[i] = free_list[1 + i - 1]
    BY <2>1, <1>3, SubSeqProperties
  <2> QED
    BY <2>2, <1>1, <1>3
<1>8. IsFiniteSet(dead) /\ Cardinality(dead) = k
    BY PoolFacts, TailCount
<1>9. full_count' = Cardinality(full_list') /\ full_count' \in Nat /\ full_count' <= limit_max
  <2>1. /\ IsFiniteSet(full_list) /\ full_count = Cardinality(full_list)
        /\ full_count \in Nat /\ full_count <= limit_max
    BY PoolFacts
  <2>2. full_list \cap dead = dead
    BY <1>4, PoolFacts
  <2>3. /\ IsFiniteSet(full_list \ dead)
        /\ Cardinality(full_list \ dead) = Cardinality(full_list) - Cardinality(full_list \cap dead)
    BY <2>1, FS_Difference
  <2>4. Cardinality(full_list \ dead) \in Nat
    BY <2>3, FS_CardinalityType
  <2>5. full_list' = full_list \ dead /\ full_count' = full_count - k
    BY <1>1
  <2>6. Cardinality(full_list') = full_count - k
    BY <2>1, <2>2, <2>3, <2>5, <1>8
  <2> QED
    BY <2>1, <2>4, <2>5, <2>6, <1>3, LimitAssumption
<1>10. free_count' = Len(free_list')
    BY <1>1, <1>7, PoolFacts
<1> HIDE DEF n
<1>11. \A i \in 1 .. n - k : i \in 1 .. n /\ i \notin n - k + 1 .. n
    BY <1>3
<1>12. ASSUME NEW i \in 1 .. n - k
       PROVE  free_list[i] \notin dead
    BY <1>3, <1>11, PoolFacts DEF n
<1>13. \A i \in 1 .. n - k : status'[free_list'[i]] = "exited"
    BY <1>6, <1>7, <1>11, <1>12, PoolFacts DEF n
<1>14. \A i, j \in 1 .. n - k : free_list'[i] = free_list'[j] => i = j
    BY <1>7, <1>11, PoolFacts DEF n
<1>15. ASSUME NEW f \in Fiber, status'[f] = "exited"
       PROVE  \E i \in 1 .. n - k : free_list'[i] = f
  <2>1. f \notin dead /\ status[f] = "exited"
    BY <1>6, <1>15
  <2>2. PICK i \in 1 .. n : free_list[i] = f
    BY <2>1, PoolFacts DEF n
  <2>3. i \notin n - k + 1 .. n
    BY <2>1, <2>2
  <2>4. i \in 1 .. n - k
    BY <2>3, <1>3
  <2> QED
    BY <2>2, <2>4, <1>7
<1>16. full_list' = {f \in Fiber : status'[f] # "unmapped"}
    BY <1>1, <1>4, <1>6, PoolFacts DEF n
<1>17. last_run_time' \in [Fiber -> Nat] /\ now' \in Nat
    BY <1>2 DEF PoolInv, TypeOK
<1> QED
    BY <1>5, <1>7, <1>9, <1>10, <1>13, <1>14, <1>15, <1>16, <1>17, PoolFactsSuffice

\* Every operation of the pool preserves its invariant.
LEMMA PoolStepInv == PoolInv /\ [Next]_vars => PoolInv'
<1> SUFFICES ASSUME PoolInv, [Next]_vars PROVE PoolInv'
    OBVIOUS
<1>1. ASSUME NEW co \in Fiber, ef_coroutine_create(co)
      PROVE  PoolInv'
    BY <1>1, ReuseInv, GrowInv DEF ef_coroutine_create
<1>2. now \in Nat
    BY DEF PoolInv, TypeOK
<1>3. ASSUME NEW co \in Fiber, Parked(co), ef_coroutine_resume(co)
      PROVE  PoolInv'
  <2>1. FiberInv'
    BY <1>3, PoolFacts, ResumeInv DEF ef_coroutine_resume
  <2> QED
    BY <1>2, <1>3, <2>1, QuietInv DEF ef_coroutine_resume, ef_fiber_resume
<1>4. CASE Yield
  <2>1. FiberInv'
    BY <1>4, PoolFacts, YieldInv DEF Yield
  <2> QED
    BY <1>2, <1>4, <2>1, QuietInv DEF Yield, ef_fiber_yield
<1>5. CASE Exit
    BY <1>5, ExitPoolInv
<1>6. ASSUME NEW i \in IdleArgs, NEW m \in CountArgs, ef_coroutine_pool_shrink(i, m)
      PROVE  PoolInv'
    BY <1>6, ShrinkInv
<1>7. ASSUME UNCHANGED fiber_vars PROVE FiberInv'
    BY <1>7, PoolFacts DEF fiber_vars, FiberInv, FiberTypeOK, SoleRunner, StatusMatchesStack,
                           ReturnsToResumer, Active
<1>8. CASE Clock
  <2>1. UNCHANGED fiber_vars /\ UNCHANGED <<pool_vars, status>> /\ now' \in Nat
    BY <1>2, <1>8, ClockAssumption DEF Clock, fiber_vars
  <2> QED
    BY <2>1, <1>7, QuietInv
<1>9. CASE UNCHANGED vars
  <2>1. UNCHANGED fiber_vars /\ UNCHANGED <<pool_vars, status>> /\ now' \in Nat
    BY <1>2, <1>9 DEF vars, fiber_vars
  <2> QED
    BY <2>1, <1>7, QuietInv
<1> QED
    BY <1>1, <1>3, <1>4, <1>5, <1>6, <1>8, <1>9 DEF Next

\* Through every order of creating, nesting, yielding, exiting and shrinking,
\* the pool's counters and lists stay exact: no coroutine in use is handed
\* out again or unmapped, none is lost, and limit_max is never passed.
THEOREM PoolSafe == Spec => []PoolInv
<1>1. Init => PoolInv
    BY PoolInitInv
<1>2. PoolInv /\ [Next]_vars => PoolInv'
    BY PoolStepInv
<1> QED
    BY <1>1, <1>2, PTL DEF Spec

\* What a shrink does, whatever the arguments.
LEMMA ShrinkFacts ==
    ASSUME PoolInv, NEW idle \in IdleArgs, NEW m \in CountArgs,
           ef_coroutine_pool_shrink(idle, m)
    PROVE  \E k \in Nat, dead \in SUBSET Fiber :
              /\ k <= ShrinkLimit(m)
              /\ full_count' = full_count - k
              /\ full_list' = full_list \ dead
              /\ m > 0 => full_count > limit_min
              /\ ef_fiber_delete(dead)
              /\ \A co \in dead : status[co] = "exited" /\ IdleExpired(last_run_time[co], idle)
<1> DEFINE n == Len(free_list)
<1>1. PICK k \in 0 .. n :
         LET dead == {free_list[i] : i \in n - k + 1 .. n}
         IN  /\ Freeable(k, idle, m)
             /\ full_list' = full_list \ dead
             /\ ef_fiber_delete(dead)
             /\ full_count' = full_count - k
    BY DEF ef_coroutine_pool_shrink
<1> DEFINE dead == {free_list[i] : i \in n - k + 1 .. n}
<1>2. n \in Nat /\ k \in Nat /\ k <= n
    BY PoolFacts
<1>3. \A i \in n - k + 1 .. n : i \in 1 .. n
    BY <1>2
<1>4. dead \in SUBSET Fiber
    BY <1>3, PoolFacts
<1>5. \A co \in dead : status[co] = "exited" /\ IdleExpired(last_run_time[co], idle)
    BY <1>1, <1>3, PoolFacts DEF Freeable
<1>6. k <= ShrinkLimit(m)
    BY <1>1 DEF Freeable
<1>7. m > 0 => full_count > limit_min
    BY DEF ef_coroutine_pool_shrink
<1> HIDE DEF n
<1> WITNESS k \in Nat, dead \in SUBSET Fiber
<1> QED
    BY <1>1, <1>5, <1>6, <1>7 DEF n

\* A periodic shrink respects limit_min and its own max_count.
THEOREM ShrinkMinimum == Spec => ShrinkKeepsMinimum
<1>1. ASSUME PoolInv, NEW i \in IdleArgs, NEW m \in CountArgs, m > 0,
             ef_coroutine_pool_shrink(i, m)
      PROVE  full_count' >= limit_min /\ full_count - full_count' <= m
  <2>1. PICK k \in Nat : /\ k <= ShrinkLimit(m) /\ full_count' = full_count - k
                         /\ full_count > limit_min
    BY <1>1, ShrinkFacts
  <2>2. full_count \in Nat /\ m \in Int
    BY <1>1, PoolFacts, ArgAssumption
  <2> QED
    BY <2>1, <2>2, <1>1, LimitAssumption DEF ShrinkLimit
<1>2. PoolInv => KeepsMinimum
    BY <1>1 DEF KeepsMinimum
<1> QED
    BY <1>2, PoolSafe, PTL DEF Spec, ShrinkKeepsMinimum

\* For an idle time of whole seconds the comparison of the two timevals is
\* the comparison of the instants.
LEMMA IdleExact ==
    ASSUME NEW since \in Nat, NEW idle \in Nat, idle % 1000 = 0, now \in Nat
    PROVE  /\ IdleExpired(since, idle) => now - since >= idle * 1000
           /\ now - since >= idle * 1000 => IdleExpired(since, idle)
<1>1. PICK sec \in Int, usec \in Int : /\ sec = (now \div Usec) - (since \div Usec)
                                       /\ usec = (now % Usec) - (since % Usec)
    BY Z3 DEF Usec
<1>2. /\ IdleExpired(since, idle) => sec * 1000 > idle \/ (sec * 1000 = idle /\ usec >= 0)
      /\ sec * 1000 > idle \/ (sec * 1000 = idle /\ usec >= 0) => IdleExpired(since, idle)
    BY <1>1, SMT DEF IdleExpired, Usec
<1>3. now - since = 1000000 * sec + usec /\ usec > -1000000 /\ usec < 1000000
    BY <1>1, Z3 DEF Usec
<1>4. PICK j \in Nat : idle = 1000 * j
  <2>1. idle \div 1000 \in Nat /\ idle = 1000 * (idle \div 1000)
    BY Z3
  <2> QED
    BY <2>1
<1>5. CASE sec > j
  <2>1. sec * 1000 > idle /\ now - since >= idle * 1000
    BY <1>3, <1>4, <1>5, Z3
  <2> QED
    BY <2>1, <1>2
<1>6. CASE sec = j
  <2>1. sec * 1000 = idle /\ (now - since >= idle * 1000 <=> usec >= 0)
    BY <1>3, <1>4, <1>6, Z3
  <2> QED
    BY <2>1, <1>2
<1>7. CASE sec < j
  <2>1. sec * 1000 < idle /\ ~(now - since >= idle * 1000)
    BY <1>3, <1>4, <1>7, Z3
  <2> QED
    BY <2>1, <1>2
<1> QED
    BY <1>5, <1>6, <1>7

\* As long as the idle time is given in whole seconds, a shrink frees no
\* coroutine that was idle for less.
THEOREM ShrinkIdle ==
    ASSUME \A i \in IdleArgs : i % 1000 = 0
    PROVE  Spec => ShrinkFreesOnlyIdle
<1>1. ASSUME PoolInv, NEW i \in IdleArgs, NEW m \in CountArgs,
             ef_coroutine_pool_shrink(i, m), NEW co \in full_list \ full_list'
      PROVE  now - last_run_time[co] >= i * 1000
  <2>1. co \in Fiber /\ IdleExpired(last_run_time[co], i)
    BY <1>1, PoolFacts, ShrinkFacts
  <2>2. last_run_time[co] \in Nat /\ now \in Nat /\ i \in Nat
    BY <2>1, <1>1, ArgAssumption DEF PoolInv, TypeOK
  <2> QED
    BY <2>1, <2>2, IdleExact
<1>2. PoolInv => FreesOnlyIdle
    BY <1>1 DEF FreesOnlyIdle
<1> QED
    BY <1>2, PoolSafe, PTL DEF Spec, ShrinkFreesOnlyIdle

\* FreeListByAge with what makes it inductive: nobody ran in the future.
AgeInv == /\ \A co \in Fiber : last_run_time[co] <= now
          /\ FreeListByAge

\* Times and the order of the free list survive a step that moves neither.
LEMMA AgeStable ==
    ASSUME PoolInv, AgeInv, UNCHANGED <<free_list, last_run_time>>, now' \in Nat, now' >= now
    PROVE  AgeInv'
BY DEF AgeInv, FreeListByAge, PoolInv, TypeOK

\* Every operation keeps the free list ordered by age.
LEMMA AgeStep == ASSUME PoolInv, AgeInv, [Next]_vars PROVE AgeInv'
<1> DEFINE n == Len(free_list)
<1>1. /\ now \in Nat /\ last_run_time \in [Fiber -> Nat] /\ n \in Nat
      /\ \A co \in Fiber : last_run_time[co] <= now
      /\ \A i, j \in 1 .. n : i < j => last_run_time[free_list[i]] >= last_run_time[free_list[j]]
    BY PoolFacts DEF PoolInv, TypeOK, AgeInv, FreeListByAge
<1> USE DEF pool_vars
<1>2. ASSUME NEW co \in Fiber, ef_coroutine_create(co) PROVE AgeInv'
  <2>1. CASE Reuse(co)
    <3>1. n > 0 /\ free_list # <<>>
      BY <2>1, PoolFacts DEF Reuse
    <3>2. /\ free_list' \in Seq(Fiber) /\ Len(free_list') = n - 1
          /\ \A i \in 1 .. n - 1 : free_list'[i] = free_list[i + 1]
      BY <2>1, <3>1, PoolFacts, HeadTailProperties DEF Reuse
    <3>3. DOMAIN free_list' = 1 .. n - 1
      BY <3>2, LenProperties
    <3>4. last_run_time' = last_run_time /\ now' = now
      BY <1>2, <2>1 DEF Reuse, ef_coroutine_create
    <3> HIDE DEF n
    <3>5. ASSUME NEW i \in 1 .. n - 1, NEW j \in 1 .. n - 1, i < j
          PROVE  last_run_time[free_list'[i]] >= last_run_time[free_list'[j]]
      <4>1. i + 1 \in 1 .. n /\ j + 1 \in 1 .. n /\ i + 1 < j + 1
        BY <1>1, <3>5
      <4>2. last_run_time[free_list[i + 1]] >= last_run_time[free_list[j + 1]]
        BY <1>1, <4>1
      <4> QED
        BY <3>2, <4>2
    <3> QED
      BY <1>1, <3>3, <3>4, <3>5 DEF AgeInv, FreeListByAge
  <2>2. CASE Grow(co)
    <3>1. DOMAIN free_list' = {}
      BY <2>2, PoolFacts DEF Grow
    <3>2. last_run_time' = [last_run_time EXCEPT ![co] = 0] /\ now' = now
      BY <1>2, <2>2 DEF Grow, ef_coroutine_create
    <3>3. \A f \in Fiber : last_run_time'[f] <= now'
      BY <1>1, <3>2
    <3> QED
      BY <3>1, <3>3 DEF AgeInv, FreeListByAge
  <2> QED
    BY <1>2, <2>1, <2>2 DEF ef_coroutine_create
<1>3. CASE Exit
  <2> DEFINE c == current_fiber
  <2>1. c \in Fiber /\ status[c] # "exited"
    BY <1>3, PoolFacts
    DEF Exit, ef_fiber_exit, FiberInv, FiberTypeOK, SoleRunner, StatusMatchesStack, AnyFiber, Status
  <2>2. /\ last_run_time' = [last_run_time EXCEPT ![c] = now] /\ now' = now
        /\ free_list' = <<c>> \o free_list
    BY <1>3 DEF Exit
  <2> HIDE DEF c
  <2>3. /\ DOMAIN free_list' = 1 .. n + 1
        /\ \A i \in 1 .. n + 1 : free_list'[i] = IF i = 1 THEN c ELSE free_list[i - 1]
    <3>1. <<c>> \in Seq(Fiber) /\ Len(<<c>>) = 1 /\ <<c>>[1] = c
      BY <2>1
    <3>2. /\ <<c>> \o free_list \in Seq(Fiber) /\ Len(<<c>> \o free_list) = 1 + n
          /\ \A i \in 1 .. 1 + n : (<<c>> \o free_list)[i]
                                     = IF i <= 1 THEN <<c>>[i] ELSE free_list[i - 1]
      BY <3>1, PoolFacts, ConcatProperties
    <3> QED
      BY <1>1, <2>2, <3>1, <3>2, LenProperties
  <2> HIDE DEF n
  <2>4. \A i \in 1 .. n : free_list[i] \in Fiber /\ free_list[i] # c
    BY <2>1, PoolFacts DEF n
  <2>5. ASSUME NEW i \in 1 .. n + 1, NEW j \in 1 .. n + 1, i < j
        PROVE  last_run_time'[free_list'[i]] >= last_run_time'[free_list'[j]]
    <3>1. /\ j - 1 \in 1 .. n /\ free_list'[j] = free_list[j - 1]
          /\ last_run_time'[free_list'[j]] = last_run_time[free_list[j - 1]]
      BY <1>1, <2>1, <2>2, <2>3, <2>4, <2>5
    <3>2. CASE i = 1
      BY <1>1, <2>1, <2>2, <2>3, <2>4, <3>1, <3>2
    <3>3. CASE i # 1
      <4>1. i - 1 \in 1 .. n /\ i - 1 < j - 1
        BY <1>1, <2>5, <3>3
      <4>2. last_run_time'[free_list'[i]] = last_run_time[free_list[i - 1]]
        BY <1>1, <2>1, <2>2, <2>3, <2>4, <3>3, <4>1
      <4> QED
        BY <1>1, <3>1, <4>1, <4>2
    <3> QED
      BY <3>2, <3>3
  <2>6. \A f \in Fiber : last_run_time'[f] <= now'
    BY <1>1, <2>2
  <2> QED
    BY <2>3, <2>5, <2>6 DEF AgeInv, FreeListByAge
<1>4. ASSUME NEW idle \in IdleArgs, NEW m \in CountArgs, ef_coroutine_pool_shrink(idle, m)
      PROVE  AgeInv'
  <2>1. PICK k \in 0 .. n : free_list' = SubSeq(free_list, 1, n - k)
    BY <1>4 DEF ef_coroutine_pool_shrink
  <2>2. UNCHANGED <<last_run_time, now>> /\ k \in Nat /\ n - k \in Nat
    BY <1>1, <1>4 DEF ef_coroutine_pool_shrink
  <2>3. DOMAIN free_list' = 1 .. n - k /\ \A i \in 1 .. n - k : free_list'[i] = free_list[i]
    <3>1. \A i \in 1 .. n - k : free_list[i] \in Fiber
      BY <2>2, PoolFacts
    <3>2. /\ SubSeq(free_list, 1, n - k) \in Seq(Fiber)
          /\ Len(SubSeq(free_list, 1, n - k)) = IF 1 <= n - k THEN n - k - 1 + 1 ELSE 0
          /\ \A i \in 1 .. n - k - 1 + 1 : SubSeq(free_list, 1, n - k)[i] = free_list[1 + i - 1]
      BY <2>2, <3>1, SubSeqProperties
    <3> QED
      BY <2>1, <2>2, <3>2, LenProperties
  <2> HIDE DEF n
  <2>4. \A i \in 1 .. n - k : i \in 1 .. n
    BY <1>1, <2>2
  <2> QED
    BY <1>1, <2>2, <2>3, <2>4 DEF AgeInv, FreeListByAge
<1>5. ASSUME NEW co \in Fiber, ef_coroutine_resume(co) PROVE AgeInv'
    BY <1>1, <1>5, AgeStable DEF ef_coroutine_resume
<1>6. CASE Yield \/ UNCHANGED vars
    BY <1>1, <1>6, AgeStable DEF Yield, vars
<1>7. CASE Clock
    BY <1>1, <1>7, AgeStable, ClockAssumption DEF Clock
<1> QED
    BY <1>2, <1>3, <1>4, <1>5, <1>6, <1>7 DEF Next

\* The invariant with the order by age holds in every state.
LEMMA AgeSafe == Spec => [](PoolInv /\ AgeInv)
<1>1. Init => AgeInv
    BY DEF Init, ef_coroutine_pool_init, AgeInv, FreeListByAge
<1>2. PoolInv /\ AgeInv /\ [Next]_vars => AgeInv'
    BY AgeStep
<1> QED
    BY <1>1, <1>2, PoolSafe, PTL DEF Spec

\* The free list is in the order of exit, the latest first, whatever is
\* created, reused and freed in between, as long as the clock is not set back.
THEOREM FreeListOrdered == Spec => []FreeListByAge
<1>1. AgeInv => FreeListByAge
    BY DEF AgeInv
<1> QED
    BY <1>1, AgeSafe, PTL

\* What stopped a shrink that freed less than it might have.
LEMMA ShrinkStop ==
    ASSUME PoolInv, NEW idle \in IdleArgs, NEW m \in CountArgs,
           ef_coroutine_pool_shrink(idle, m), full_count - full_count' < ShrinkLimit(m)
    PROVE  \E p \in 0 .. Len(free_list) :
              /\ \A co \in full_list' : status[co] = "exited" =>
                    \E i \in 1 .. p : free_list[i] = co
              /\ p > 0 => ~ IdleExpired(last_run_time[free_list[p]], idle)
<1> DEFINE n == Len(free_list)
<1>1. PICK k \in 0 .. n :
         /\ Freeable(k, idle, m)
         /\ k < n => ~ Freeable(k + 1, idle, m)
         /\ full_list' = full_list \ {free_list[i] : i \in n - k + 1 .. n}
         /\ full_count' = full_count - k
    BY DEF ef_coroutine_pool_shrink
<1> DEFINE dead == {free_list[i] : i \in n - k + 1 .. n}
           p == n - k
<1>2. n \in Nat /\ k \in Nat /\ k <= n /\ p \in 0 .. n /\ full_count \in Nat
    BY PoolFacts
<1>3. k < ShrinkLimit(m) /\ ShrinkLimit(m) \in Int
    BY <1>1, <1>2, ArgAssumption, LimitAssumption DEF ShrinkLimit
<1>4. ASSUME NEW co \in full_list', status[co] = "exited"
      PROVE  \E i \in 1 .. p : free_list[i] = co
  <2>1. co \in Fiber /\ co \notin dead
    BY <1>1, PoolFacts
  <2>2. PICK i \in 1 .. n : free_list[i] = co
    BY <1>4, <2>1, PoolFacts
  <2>3. i \notin n - k + 1 .. n
    BY <2>1, <2>2
  <2> QED
    BY <1>2, <2>2, <2>3
<1>5. ASSUME p > 0 PROVE ~ IdleExpired(last_run_time[free_list[p]], idle)
  <2>1. k < n /\ k + 1 <= ShrinkLimit(m)
    BY <1>2, <1>3, <1>5
  <2>2. ~ Freeable(k + 1, idle, m) /\ Freeable(k, idle, m)
    BY <1>1, <2>1
  <2>3. PICK i \in n - (k + 1) + 1 .. n : ~ IdleExpired(last_run_time[free_list[i]], idle)
    BY <2>1, <2>2 DEF Freeable
  <2>4. i \notin n - k + 1 .. n
    BY <2>2, <2>3 DEF Freeable
  <2>5. i = p
    BY <1>2, <2>3, <2>4
  <2> QED
    BY <2>3, <2>5
<1> HIDE DEF n, dead
<1>6. p \in 0 .. Len(free_list)
    BY <1>2 DEF n
<1> QED
    BY <1>4, <1>5, <1>6

\* Stopping at the first entry that is too young misses no older one: a
\* shrink that could have freed more leaves no coroutine behind that was idle
\* long enough, if the idle time is whole seconds.
THEOREM ShrinkComplete ==
    ASSUME \A i \in IdleArgs : i % 1000 = 0
    PROVE  Spec => ShrinkFreesAllIdle
<1>1. ASSUME PoolInv, AgeInv, NEW idle \in IdleArgs, NEW m \in CountArgs,
             ef_coroutine_pool_shrink(idle, m), full_count - full_count' < ShrinkLimit(m),
             NEW co \in full_list', Exited(co)
      PROVE  now - last_run_time[co] < idle * 1000
  <2>1. PICK p \in 0 .. Len(free_list) :
           /\ \A f \in full_list' : status[f] = "exited" =>
                 \E i \in 1 .. p : free_list[i] = f
           /\ p > 0 => ~ IdleExpired(last_run_time[free_list[p]], idle)
    BY <1>1, ShrinkStop
  <2>2. PICK i \in 1 .. p : free_list[i] = co
    BY <1>1, <2>1 DEF Exited
  <2>3. /\ Len(free_list) \in Nat /\ p \in 1 .. Len(free_list) /\ i \in 1 .. Len(free_list)
        /\ i = p \/ i < p
        /\ free_list[p] \in Fiber /\ co \in Fiber
    BY <1>1, <2>2, PoolFacts
  <2>4. /\ last_run_time[free_list[p]] \in Nat /\ last_run_time[co] \in Nat /\ now \in Nat
        /\ idle \in Nat
    BY <1>1, <2>3, ArgAssumption DEF PoolInv, TypeOK
  <2>5. last_run_time[co] >= last_run_time[free_list[p]]
    BY <1>1, <2>2, <2>3, <2>4, PoolFacts DEF AgeInv, FreeListByAge
  <2>6. ~ (now - last_run_time[free_list[p]] >= idle * 1000)
    <3> DEFINE since == last_run_time[free_list[p]]
    <3>1. since \in Nat /\ idle % 1000 = 0 /\ ~ IdleExpired(since, idle)
      BY <2>1, <2>3, <2>4
    <3> HIDE DEF since
    <3>2. now - since >= idle * 1000 => IdleExpired(since, idle)
      BY <2>4, <3>1, IdleExact
    <3> QED
      BY <3>1, <3>2 DEF since
  <2> QED
    BY <2>4, <2>5, <2>6
<1>2. PoolInv /\ AgeInv => FreesAllIdle
    BY <1>1 DEF FreesAllIdle
<1> QED
    BY <1>2, AgeSafe, PTL DEF Spec, ShrinkFreesAllIdle

\* Every coroutine of the pool is in use or unused, and full_count counts them.
LEMMA PoolCount ==
    ASSUME PoolInv
    PROVE  /\ InUse \cup Unused = full_list
           /\ Pool!Count = full_count
           /\ free_count = 0 => Unused = {}
<1>1. \A co \in Fiber : status[co] \in {"unmapped", "inited", "exited"}
    BY PoolFacts DEF FiberTypeOK, Status
<1>2. InUse \cup Unused = full_list
    BY <1>1, PoolFacts DEF InUse, Unused
\* The instance has its own name for the same Cardinality.
<1>3. Pool!Count = full_count
    BY <1>2, PoolFacts, Zenon DEF Pool!Count, Pool!Cardinality, Cardinality
<1>4. ASSUME free_count = 0 PROVE Unused = {}
  <2>1. 1 .. Len(free_list) = {}
    BY <1>4, PoolFacts
  <2> QED
    BY <2>1, PoolFacts DEF Unused
<1> QED
    BY <1>2, <1>3, <1>4

\* A coroutine handed out is an unused one if there is any, otherwise a new one
\* within the limit.
LEMMA CreateRefines ==
    ASSUME PoolInv, NEW co \in Fiber, ef_coroutine_create(co)
    PROVE  Pool!Acquire(co)
<1>1. status \in [Fiber -> Status]
    BY PoolFacts DEF FiberTypeOK
<1>2. status' = [status EXCEPT ![co] = "inited"]
    BY DEF ef_coroutine_create, Reuse, Grow, ef_fiber_create, ef_fiber_init, ef_fiber_internal_init
<1>3. InUse' = InUse \cup {co} /\ Unused' = Unused \ {co}
    BY <1>1, <1>2 DEF InUse, Unused
<1>4. CASE Reuse(co)
  <2>1. free_list # <<>> /\ co = free_list[1] /\ 1 \in 1 .. Len(free_list)
    BY <1>4, PoolFacts DEF Reuse
  <2>2. co \in Unused /\ co \notin InUse
    BY <2>1, PoolFacts DEF InUse, Unused
  <2> QED
    BY <1>3, <2>2 DEF Pool!Acquire
<1>5. CASE Grow(co)
  <2>1. status[co] = "unmapped" /\ free_count = 0 /\ full_count < limit_max
    BY <1>5, PoolFacts DEF Grow, ef_fiber_create
  <2>2. co \notin InUse /\ Unused = {} /\ Pool!Count < limit_max
    BY <2>1, PoolCount DEF InUse
  <2> QED
    BY <1>3, <2>2 DEF Pool!Acquire
<1> QED
    BY <1>4, <1>5 DEF ef_coroutine_create

\* A coroutine that exits is released to the abstract pool.
LEMMA ExitRefines == ASSUME PoolInv, Exit PROVE Pool!Release(current_fiber)
<1>1. current_fiber \in Fiber /\ status \in [Fiber -> Status]
    BY PoolFacts DEF Exit, ef_fiber_exit, FiberTypeOK, AnyFiber
<1>2. status[current_fiber] = "inited"
    BY <1>1, PoolFacts DEF FiberInv, FiberTypeOK, SoleRunner, StatusMatchesStack, AnyFiber, Status
<1>3. status' = [status EXCEPT ![current_fiber] = "exited"]
    BY DEF Exit, ef_fiber_exit
<1> QED
    BY <1>1, <1>2, <1>3 DEF Pool!Release, InUse, Unused

\* What a shrink unmaps was unused.
LEMMA ShrinkRefines ==
    ASSUME PoolInv, NEW idle \in IdleArgs, NEW m \in CountArgs,
           ef_coroutine_pool_shrink(idle, m)
    PROVE  \E S \in SUBSET Unused : Pool!Drain(S)
<1>1. PICK dead \in SUBSET Fiber : /\ ef_fiber_delete(dead)
                                   /\ \A co \in dead : status[co] = "exited"
    BY ShrinkFacts
<1>2. dead \in SUBSET Unused
    BY <1>1 DEF Unused
<1>3. status' = [f \in Fiber |-> IF f \in dead THEN "unmapped" ELSE status[f]]
    BY <1>1 DEF ef_fiber_delete
<1>4. InUse' = InUse /\ Unused' = Unused \ dead
    BY <1>1, <1>3 DEF InUse, Unused
<1>5. Pool!Drain(dead)
    BY <1>2, <1>4 DEF Pool!Drain
<1> QED
    BY <1>2, <1>5

\* The pool implements the abstract pool for any limits, arguments and clock:
\* what the run loop is checked against is what coroutine.c does.
THEOREM PoolRefines == Spec => ImplementsCoroutines
<1>1. Init => Pool!Init
    BY DEF Init, ef_coroutine_pool_init, ef_fiber_init_sched, Pool!Init, InUse, Unused
<1>2. ASSUME PoolInv, [Next]_vars PROVE [Pool!Next]_(Pool!vars)
  <2>1. ASSUME NEW co \in Fiber, ef_coroutine_create(co) PROVE Pool!Next
    BY <1>2, <2>1, CreateRefines DEF Pool!Next
  <2>2. CASE Exit
    <3>1. current_fiber \in Fiber
        BY <1>2, <2>2, PoolFacts DEF Exit, ef_fiber_exit, FiberTypeOK, AnyFiber
    <3> QED
        BY <1>2, <2>2, <3>1, ExitRefines DEF Pool!Next
  <2>3. ASSUME NEW i \in IdleArgs, NEW m \in CountArgs, ef_coroutine_pool_shrink(i, m)
        PROVE  Pool!Next
    BY <1>2, <2>3, ShrinkRefines DEF Pool!Next
  <2>4. ASSUME status' = status PROVE UNCHANGED Pool!vars
    BY <2>4 DEF Pool!vars, InUse, Unused
  <2>5. ASSUME NEW co \in Fiber, ef_coroutine_resume(co) PROVE status' = status
    BY <2>5 DEF ef_coroutine_resume, ef_fiber_resume
  <2>6. ASSUME Yield \/ Clock \/ UNCHANGED vars PROVE status' = status
    BY <2>6 DEF Yield, ef_fiber_yield, Clock, vars, fiber_vars
  <2> QED
    BY <1>2, <2>1, <2>2, <2>3, <2>4, <2>5, <2>6 DEF Next
<1> QED
    BY <1>1, <1>2, PoolSafe, PTL DEF Spec, ImplementsCoroutines, Pool!Spec
-----------------------------------------------------------------------------
(* The chain of resumers under the pool *)

\* To the fiber layer every step of the pool is one of the steps its callers
\* may make: reuse and shrink touch exited fibers only.
LEMMA PoolStepIsFiberStep == PoolInv /\ [Next]_vars => [FiberStep]_fiber_vars
<1> SUFFICES ASSUME PoolInv, [Next]_vars PROVE [FiberStep]_fiber_vars
    OBVIOUS
<1>1. ASSUME NEW co \in Fiber, ef_coroutine_create(co) PROVE FiberStep
  <2>1. CASE Reuse(co)
    <3>1. Len(free_list) > 0 /\ 1 \in 1 .. Len(free_list) /\ co = free_list[1]
      BY <2>1, PoolFacts DEF Reuse
    <3>2. Exited(co)
      BY <3>1, PoolFacts DEF Exited
    <3> QED
      BY <2>1, <3>2 DEF Reuse, FiberStep
  <2>2. CASE Grow(co)
    BY <2>2 DEF Grow, FiberStep
  <2> QED
    BY <1>1, <2>1, <2>2 DEF ef_coroutine_create
<1>2. ASSUME NEW co \in Fiber, Parked(co), ef_coroutine_resume(co) PROVE FiberStep
    BY <1>2 DEF ef_coroutine_resume, FiberStep
<1>3. CASE Yield \/ Exit
    BY <1>3 DEF Yield, Exit, FiberStep
<1>4. ASSUME NEW idle \in IdleArgs, NEW m \in CountArgs, ef_coroutine_pool_shrink(idle, m)
      PROVE  FiberStep
  <2>1. PICK dead \in SUBSET Fiber : /\ ef_fiber_delete(dead)
                                     /\ \A co \in dead : status[co] = "exited"
    BY <1>4, ShrinkFacts
  <2> QED
    BY <2>1 DEF FiberStep, Exited
<1>5. CASE Clock \/ UNCHANGED vars
    BY <1>5 DEF Clock, vars
<1> QED
    BY <1>1, <1>2, <1>3, <1>4, <1>5 DEF Next

\* Under the pool, too, the resumed fibers are always a chain.
LEMMA PoolChainSafe == Spec => [](PoolInv /\ Chain)
<1>1. Init => Chain
    BY ChainInit DEF Init, ef_coroutine_pool_init
<1>2. PoolInv /\ Chain /\ [Next]_vars => Chain'
    BY PoolStepIsFiberStep, ChainStep DEF PoolInv
<1> QED
    BY <1>1, <1>2, PoolSafe, PTL DEF Spec

\* The parent pointers of the pool's coroutines never close on themselves:
\* from the running one they lead through every resumed one to the thread,
\* also after coroutines were reused and freed.
THEOREM PoolChain == Spec => []ChainReachesThread
BY PoolChainSafe, ChainSuffices, PTL

\* Coroutines that resume one another form a call stack, for any limits,
\* arguments and clock.
THEOREM PoolCallStack == Spec => ImplementsCallStack
<1>1. PoolInv /\ Chain /\ [Next]_vars => [CS!Next]_(CS!vars)
    BY PoolStepIsFiberStep, CallStackStep DEF PoolInv
<1>2. Init => CS!Init
    BY CallStackInit DEF Init, ef_coroutine_pool_init
<1> QED
    BY <1>1, <1>2, PoolChainSafe, PTL DEF Spec, ImplementsCallStack, CS!Spec
=============================================================================
