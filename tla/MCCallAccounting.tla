-------------------------- MODULE MCCallAccounting --------------------------
(* Small instances of CallAccounting. *)
EXTENDS CallAccounting, TLC

CONSTANTS c1, c2, p

Symmetry == Permutations(Calls)

\* A retry touches nothing but the call's own parameters, so a call with one to
\* reject is looked at while no other is being served.
RetriesAlone ==
    \A c \in Calls : req[c].params # {} => \A d \in Calls \ {c} : Free(d)
=============================================================================
