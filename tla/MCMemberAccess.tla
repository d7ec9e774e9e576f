--------------------------- MODULE MCMemberAccess ---------------------------
(* Instances of MemberAccess for TLC.                                       *)
EXTENDS MemberAccess, TLC

CONSTANTS m1, m2

OneLocal == [m \in Members |-> IF m = m1 THEN "local_password" ELSE "google_oidc"]

\* A rule and an entry of the whitelist at the same time admit nobody more than
\* either alone.
OneRoute == rules = {} \/ whitelist = {}
==============================================================================
