-------------------------- MODULE MCLuaContextPool --------------------------
(* Model checking of LuaContextPool on small instances. *)
EXTENDS LuaContextPool, TLC

CONSTANTS t1, t2

TwoThreads == {t1, t2}

\* Threads do not differ.
Symmetry == Permutations(TwoThreads)
=============================================================================
