---------------------------- MODULE MCModelCatalog ----------------------------
(* Instances of ModelCatalog for TLC.                                       *)
EXTENDS ModelCatalog, TLC

Interchangeable == Permutations(Reqs) \cup Permutations(Vals)

Typable == {{}, {"responses"}}

\* The markers and the provenance have only the capabilities column in common:
\* either the markers are in use, beside one window, or litellm_sync is.
Copies == {req[r].seen : r \in {q \in Reqs : req[q] # Idle}} \cup ({row} \ {None})
Apart == \/ /\ \A c \in Copies : c.litellm_sync = None
            /\ \A c, d \in Copies : c.context_window = d.context_window
         \/ \A c \in Copies : c.capabilities.marks = {}
==============================================================================
