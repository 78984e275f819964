-------------------------- MODULE MCCoroutinePool --------------------------
(* Constants of the pool's runs: a .cfg cannot write a negative number. *)
EXTENDS CoroutinePool, TLC

\* A periodic shrink of one or two, and the -full_count of a stopping loop.
MCCountArgs == {-3, 1, 2}

\* Coroutines differ only by their address.
FiberSymmetry == Permutations(Fiber)
=============================================================================
