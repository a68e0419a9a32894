-------------------------- MODULE MCEngineLifecycle --------------------------
(***************************************************************************)
(* Instances of EngineLifecycle for TLC: two queries, and a reaction that  *)
(* subscribes to the first of them.                                        *)
(***************************************************************************)
EXTENDS EngineLifecycle, TLC

CONSTANTS q1, q2, r1

Symmetric == Permutations(Callers)

\* r1 watches q1 alone, so that q2 is registered and removed freely
WatchesFirst == [r \in Reactions |-> {q1}]

EveryOp == ComponentOps \cup EngineOps
=============================================================================
