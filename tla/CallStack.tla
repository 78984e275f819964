----------------------------- MODULE CallStack -----------------------------
(***************************************************************************)
(* What the fiber layer promises its callers: fibers are asymmetric        *)
(* coroutines.  Control always sits on top of a stack of resumed fibers    *)
(* whose bottom is the thread; resuming pushes a fiber, yielding and       *)
(* returning pop the one on top and hand control to the fiber below it,    *)
(* which is the one that resumed it.                                       *)
(***************************************************************************)
EXTENDS Sequences, SequencesExt

CONSTANT Fiber                  \* the fibers that can exist besides the thread

VARIABLES stack,                \* the resumed fibers, the running one last
          parked,               \* fibers that may be resumed
          finished              \* fibers whose procedure has returned

vars == <<stack, parked, finished>>

Init == stack = <<>> /\ parked = {} /\ finished = {}

\* Allocate a fiber, ready to run its procedure.
New(f) == /\ f \notin parked \cup finished \cup ToSet(stack)
          /\ parked' = parked \cup {f}
          /\ UNCHANGED <<stack, finished>>

\* Give a finished fiber a new procedure.
Reuse(f) == /\ f \in finished
            /\ finished' = finished \ {f}
            /\ parked' = parked \cup {f}
            /\ UNCHANGED stack

\* Give finished fibers back to the system.
Free(F) == /\ finished' = finished \ F
           /\ UNCHANGED <<stack, parked>>

\* Run a parked fiber on top of the one that is running.
Call(f) == /\ f \in parked
           /\ parked' = parked \ {f}
           /\ stack' = Append(stack, f)
           /\ UNCHANGED finished

\* The running fiber hands control back to its resumer and can be resumed.
Suspend == /\ stack # <<>>
           /\ parked' = parked \cup {Last(stack)}
           /\ stack' = Front(stack)
           /\ UNCHANGED finished

\* The running fiber's procedure returns: control goes back to its resumer.
Finish == /\ stack # <<>>
          /\ finished' = finished \cup {Last(stack)}
          /\ stack' = Front(stack)
          /\ UNCHANGED parked

Next == \/ Suspend
        \/ Finish
        \/ \E f \in Fiber : New(f) \/ Reuse(f) \/ Call(f)
        \/ \E F \in SUBSET finished : Free(F)

Spec == Init /\ [][Next]_vars
=============================================================================
