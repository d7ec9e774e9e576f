--------------------------- MODULE MCOneTimeGrants ---------------------------
(* Instances of OneTimeGrants for TLC.                                      *)
EXTENDS OneTimeGrants, TLC

CONSTANTS d, o, i, m1

OneOfEach == [g \in Grants |-> CASE g = d -> "device" [] g = o -> "oauth" [] OTHER -> "invite"]
OneOwner == [a \in Allocs |-> m1]

Symmetry == Permutations(Reqs) \cup Permutations(Secrets) \cup Permutations(Codes)
                \cup Permutations(Allocs)
==============================================================================
