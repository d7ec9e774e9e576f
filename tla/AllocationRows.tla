--------------------------- MODULE AllocationRows ---------------------------
(***************************************************************************)
(* What the rest of the program may assume of the allocations table,       *)
(* whatever sessions write it: a row is inserted active for a member who   *)
(* exists, moves between active and blocked (paused, quarantined or        *)
(* revoked) as long as it is there, and goes together with its member and  *)
(* all of the member's rows.  A row that is gone never comes back, nor     *)
(* does a member.                                                          *)
(***************************************************************************)
CONSTANTS
    Members,    \* members.id
    Allocs,     \* allocations.id
    Owner       \* allocations.member_id

VARIABLES
    gone,       \* deleted members
    alloc       \* each row: none, active, blocked or deleted

vars == <<gone, alloc>>

InTable(a) == alloc[a] \in {"active", "blocked"}

Init ==
    /\ gone = {}
    /\ alloc = [a \in Allocs |-> "none"]

Insert(a) ==
    /\ alloc[a] = "none" /\ Owner[a] \notin gone
    /\ alloc' = [alloc EXCEPT ![a] = "active"]
    /\ UNCHANGED gone

\* The anomaly detector moves several rows in one transaction.
Move(S, s) ==
    /\ \A a \in S : InTable(a)
    /\ alloc' = [a \in Allocs |-> IF a \in S THEN s ELSE alloc[a]]
    /\ UNCHANGED gone

Remove(m) ==
    /\ m \notin gone
    /\ gone' = gone \cup {m}
    /\ alloc' = [a \in Allocs |-> IF Owner[a] = m /\ InTable(a) THEN "deleted" ELSE alloc[a]]

Next ==
    \/ \E a \in Allocs : Insert(a)
    \/ \E S \in SUBSET Allocs, s \in {"active", "blocked"} : Move(S, s)
    \/ \E m \in Members : Remove(m)

Spec == Init /\ [][Next]_vars
=============================================================================
