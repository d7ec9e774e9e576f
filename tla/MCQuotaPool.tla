---------------------------- MODULE MCQuotaPool ----------------------------
(* Small instances of QuotaPool.                                           *)
EXTENDS QuotaPool, TLC

Symmetry == Permutations(Jobs)

\* concurrencyPolicy: Forbid keeps runs of the cron job apart.  The pool is
\* empty when one allocation is pinned and the other is not active; two pinned
\* or two inactive ones add nothing to that.
Usual ==
    /\ Cardinality({r \in Jobs : read[r].cron}) <= 1
    /\ Cardinality({a \in Allocs : pinned[a]}) <= 1
    /\ \E a \in Allocs : status[a] # "other"
============================================================================
