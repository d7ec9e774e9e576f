----------------------- MODULE MCAllocationLifecycle -----------------------
(* Instances of AllocationLifecycle for TLC.                               *)
EXTENDS AllocationLifecycle, TLC

CONSTANTS m1, x, a1, a2

\* The allocations compete for one (member, model).
OneOwner == [a \in Allocs |-> m1]
OneModel == [a \in Allocs |-> x]

SessionSymmetry == Permutations(Reqs)
============================================================================
