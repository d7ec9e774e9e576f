---------------------------- MODULE MCModelAccess ----------------------------
(* Instances of ModelAccess for TLC.                                        *)
EXTENDS ModelAccess, TLC

Interchangeable == Permutations(Rules) \cup Permutations(Reqs)

\* The rules and what a check reads have only a member's tags in common, so
\* either the rules are in use or the policy and the checks are.
Apart == \/ Present = {} /\ \A r \in Reqs : req[r] = Idle \/ Is(r, "check")
         \/ /\ policy = None /\ ~ active
            /\ \A r \in Reqs : ~ Is(r, "check")
==============================================================================
