-------------------------- MODULE MCAppCredentials --------------------------
(* Instances of AppCredentials for TLC.                                    *)
EXTENDS AppCredentials, TLC

CONSTANTS m1, x, y, a1, a2, a3

\* Two allocations of one model and one of another, all of one member.
OneOwner == [a \in Allocs |-> m1]
OneHolder == [c \in Keys |-> m1]
TwoModels == [a \in Allocs |-> IF a = a3 THEN y ELSE x]

\* Bound: every allocation stays active (its status only matters to
\* rotate_token).
AllActive == \A a \in Allocs : alloc[a] # "blocked"

Symmetry ==
    Permutations(Reqs) \cup Permutations(Tokens)
        \cup Permutations(Keys) \cup Permutations({a1, a2})
============================================================================
