------------------------ MODULE AllocationLifecycle ------------------------
(***************************************************************************)
(* The life of an allocation (a member's grant of one model): creation by  *)
(* an administrator, self-service claims, pause / resume / unquarantine /  *)
(* revoke, the reclaim locks a revocation leaves behind, the anomaly       *)
(* detector, and the deletion of a member.                                 *)
(*                                                                         *)
(* Every handler runs in one database transaction at READ COMMITTED: it    *)
(* reads its rows, decides in Python, and writes the changed columns when  *)
(* the session commits.  A Begin action is the reads and the guard of a    *)
(* handler; a Commit action is its writes.  Other requests run in between. *)
(* A row UPDATEd by an uncommitted transaction blocks other writers        *)
(* (RowFree); an UPDATE that finds its row deleted, a duplicate key and a  *)
(* broken foreign key roll the whole transaction back (Abort).             *)
(***************************************************************************)
EXTENDS Naturals, FiniteSets

CONSTANTS
    Members,    \* members.id
    Models,     \* model_catalog.slug
    Allocs,     \* allocations.id, a pool of fresh ULIDs
    Owner,      \* allocations.member_id, never updated by the code
    ModelOf,    \* allocations.resource_model, never updated by the code
    Reqs,       \* concurrent database sessions
    Nobody      \* the acting member of a session that acts for none

ASSUME OwnerAssumption == Owner \in [Allocs -> Members]
ASSUME ModelOfAssumption == ModelOf \in [Allocs -> Models]
ASSUME NobodyAssumption == Nobody \notin Members

VARIABLES
    member,     \* members.status, or "deleted"
    status,     \* allocations.status; "none" before the INSERT
    origin,     \* allocations.origin
    revokedAt,  \* allocations.revoked_at IS NOT NULL
    service,    \* allocations.is_service_allocation
    locks,      \* rows of self_service_reclaim_locks: <<member, model>>
    open,       \* models with self_service_enabled
    enforcing,  \* AnomalyConfig.effective_enforcing
    txn,        \* the transaction each session has in flight
    released    \* history: allocations whose lock an admin removed at or
                \* after the moment their revocation read it

db == <<member, status, origin, revokedAt, service, locks, open, enforcing>>
vars == <<member, status, origin, revokedAt, service, locks, open, enforcing,
          txn, released>>

Live == {"active", "paused", "quarantined", "revoked"}
StatusOps == {"pause", "resume", "unquarantine"}
CreateOps == {"claim", "create"}
Ops == {"idle", "revoke", "locking", "scan", "delete"} \cup StatusOps \cup CreateOps

Key(a) == <<Owner[a], ModelOf[a]>>
Txn == [op : Ops, who : Members \cup {Nobody}, ids : SUBSET Allocs, saw : BOOLEAN]
Idle == [op |-> "idle", who |-> Nobody, ids |-> {}, saw |-> FALSE]

\* One type invariant: every table and every session holds rows of its type.
TypeOK ==
    /\ member \in [Members -> {"active", "disabled", "deleted"}]
    /\ status \in [Allocs -> Live \cup {"none", "deleted"}]
    /\ origin \in [Allocs -> {"admin", "self_service"}]
    /\ revokedAt \in [Allocs -> BOOLEAN]
    /\ service \in [Allocs -> BOOLEAN]
    /\ locks \subseteq Members \X Models
    /\ open \subseteq Models
    /\ enforcing \in BOOLEAN
    /\ txn \in [Reqs -> Txn]
    /\ released \subseteq Allocs

-----------------------------------------------------------------------------
(* Sessions and row locks.                                                 *)

\* Session r starts op on the rows ids, after its reads and its guard.
Start(r, op, who, ids) ==
    /\ txn[r] = Idle
    /\ txn' = [txn EXCEPT ![r] = [op |-> op, who |-> who, ids |-> ids, saw |-> FALSE]]

\* The session ends, by COMMIT or by ROLLBACK, and holds no lock any more.
Finish(r) == txn' = [txn EXCEPT ![r] = Idle]

\* No other session has an uncommitted UPDATE of row a.
RowFree(a, r) ==
    \A q \in Reqs \ {r} : ~ (txn[q].op = "locking" /\ a \in txn[q].ids)

\* A ULID no transaction has used yet.
Fresh(a) ==
    /\ status[a] = "none"
    /\ \A q \in Reqs : ~ (txn[q].op \in CreateOps /\ a \in txn[q].ids)

\* Mutant: a vanished row is written again, as an upsert would.
Stale_Upsert(r) == FALSE

\* A row the session means to write is gone (StaleDataError).
Stale(r) == \E a \in txn[r].ids : status[a] = "deleted"

-----------------------------------------------------------------------------
(* pause, resume and unquarantine: by an admin, by the member on an own    *)
(* allocation, or as one item of a bulk action.                            *)

FromStatus(op) == CASE op = "pause" -> "active"
                    [] op = "resume" -> "paused"
                    [] op = "unquarantine" -> "quarantined"

ToStatus(op) == IF op = "pause" THEN "paused" ELSE "active"


\* Mutant: the status is not looked at.
BeginStatusOp_AnyStatus(r, op, a) ==
    /\ status[a] \in Live
    /\ Start(r, op, Owner[a], {a})
    /\ UNCHANGED <<db, released>>

BeginStatusOp(r, op, a) ==
    /\ status[a] = FromStatus(op)
    /\ Start(r, op, Owner[a], {a})
    /\ UNCHANGED <<db, released>>

CommitStatusOp(r) ==
    /\ txn[r].op \in StatusOps
    /\ ~ Stale(r)
    /\ \A a \in txn[r].ids : RowFree(a, r)
    /\ status' = [a \in Allocs |-> IF a \in txn[r].ids THEN ToStatus(txn[r].op)
                                                       ELSE status[a]]
    /\ Finish(r)
    /\ UNCHANGED <<member, origin, revokedAt, service, locks, open, enforcing, released>>

-----------------------------------------------------------------------------
(* AllocationService.revoke: the status UPDATE is flushed (and holds the   *)
(* row) before _lock_reclaim looks for an existing lock.                   *)

BeginRevoke(r, a) ==
    /\ status[a] \in Live \ {"revoked"}
    /\ Start(r, "revoke", Owner[a], {a})
    /\ UNCHANGED <<db, released>>

\* _lock_reclaim finds the lock row already there.
FoundLocks(r) == \A a \in txn[r].ids : Key(a) \in locks

FlushRevoke(r) ==
    /\ txn[r].op = "revoke"
    /\ ~ Stale(r)
    /\ \A a \in txn[r].ids : RowFree(a, r)
    /\ txn' = [txn EXCEPT ![r] = [op |-> "locking", who |-> txn[r].who,
                                  ids |-> txn[r].ids, saw |-> FoundLocks(r)]]
    /\ UNCHANGED <<db, released>>

\* Mutant: only the revocation of an active allocation locks its model.
NewLocks_OnlyActive(r) ==
    {Key(a) : a \in {b \in txn[r].ids : /\ origin[b] = "self_service" /\ ~ txn[r].saw
                                       /\ status[b] = "active"}}

\* The locks session r is about to INSERT.
NewLocks(r) ==
    {Key(a) : a \in {b \in txn[r].ids : origin[b] = "self_service" /\ ~ txn[r].saw}}

CommitRevoke(r) ==
    /\ txn[r].op = "locking"
    /\ NewLocks(r) \cap locks = {}
    /\ status' = [a \in Allocs |-> IF a \in txn[r].ids THEN "revoked" ELSE status[a]]
    /\ revokedAt' = [a \in Allocs |-> a \in txn[r].ids \/ revokedAt[a]]
    /\ locks' = locks \cup NewLocks(r)
    /\ Finish(r)
    /\ UNCHANGED <<member, origin, service, open, enforcing, released>>

\* An administrator removes a reclaim lock: one DELETE statement.
Unlock(k) ==
    /\ locks' = locks \ {k}
    /\ released' = released \cup
         {a \in Allocs : /\ Key(a) = k
                         /\ \/ revokedAt[a]
                            \/ \E r \in Reqs : txn[r].op = "locking" /\ a \in txn[r].ids}
    /\ UNCHANGED <<member, status, origin, revokedAt, service, open, enforcing, txn>>

-----------------------------------------------------------------------------
(* New allocations: POST /allocations, bulk-allocate and the member's      *)
(* claim.  Visibility of the model to the member is decided elsewhere; a   *)
(* claim refused for it changes nothing.                                   *)

HasActiveSelfAlloc(k) ==
    \E b \in Allocs : Key(b) = k /\ origin[b] = "self_service" /\ status[b] = "active"

BeginClaim(r, a) ==
    /\ Fresh(a)
    /\ member[Owner[a]] = "active"
    /\ ModelOf[a] \in open
    /\ ~ HasActiveSelfAlloc(Key(a))
    /\ Key(a) \notin locks
    /\ Start(r, "claim", Owner[a], {a})
    /\ UNCHANGED <<db, released>>

\* POST /allocations asks only that the member exists.
BeginCreate(r, a) ==
    /\ Fresh(a)
    /\ member[Owner[a]] # "deleted"
    /\ Start(r, "create", Owner[a], {a})
    /\ UNCHANGED <<db, released>>

CommitCreate(r) ==
    /\ txn[r].op \in CreateOps
    /\ member[txn[r].who] # "deleted"            \* FOREIGN KEY member_id
    /\ status' = [a \in Allocs |-> IF a \in txn[r].ids THEN "active" ELSE status[a]]
    /\ origin' = [a \in Allocs |->
                    IF a \in txn[r].ids
                    THEN IF txn[r].op = "claim" THEN "self_service" ELSE "admin"
                    ELSE origin[a]]
    /\ Finish(r)
    /\ UNCHANGED <<member, revokedAt, service, locks, open, enforcing, released>>

-----------------------------------------------------------------------------
(* The anomaly detector: one scan reads the configuration and the active   *)
(* non-service allocations, flags any of them (its call counts are not     *)
(* modelled) and writes all of them in one transaction.                    *)

BeginScan(r, ids) ==
    /\ enforcing
    /\ ids # {}
    /\ \A a \in ids : status[a] = "active" /\ ~ service[a]
    /\ Start(r, "scan", Nobody, ids)
    /\ UNCHANGED <<db, released>>

CommitScan(r) ==
    /\ txn[r].op = "scan"
    /\ ~ Stale(r)
    /\ \A a \in txn[r].ids : RowFree(a, r)
    /\ status' = [a \in Allocs |-> IF a \in txn[r].ids THEN "quarantined" ELSE status[a]]
    /\ Finish(r)
    /\ UNCHANGED <<member, origin, revokedAt, service, locks, open, enforcing, released>>

-----------------------------------------------------------------------------
(* MemberService.delete: collects the member's allocations, then deletes   *)
(* them, the member, and by cascade its reclaim locks.                     *)

Rows(m) == {a \in Allocs : Owner[a] = m /\ status[a] \in Live}

BeginDelete(r, m) ==
    /\ member[m] # "deleted"
    /\ Start(r, "delete", m, Rows(m))
    /\ UNCHANGED <<db, released>>

\* Mutant: no foreign key, so a late allocation does not stop the deletion.
CommitDelete_NoForeignKey(r) ==
    /\ txn[r].op = "delete"
    /\ member[txn[r].who] # "deleted"
    /\ \A a \in txn[r].ids : RowFree(a, r)
    /\ member' = [member EXCEPT ![txn[r].who] = "deleted"]
    /\ status' = [a \in Allocs |-> IF a \in txn[r].ids THEN "deleted" ELSE status[a]]
    /\ locks' = {k \in locks : k[1] # txn[r].who}
    /\ Finish(r)
    /\ UNCHANGED <<origin, revokedAt, service, open, enforcing, released>>

\* FOREIGN KEY allocations.member_id ON DELETE RESTRICT: an allocation
\* inserted after the ids were collected makes the DELETE of the member fail.
CommitDelete(r) ==
    /\ txn[r].op = "delete"
    /\ member[txn[r].who] # "deleted"
    /\ \A a \in txn[r].ids : RowFree(a, r)
    /\ Rows(txn[r].who) \subseteq txn[r].ids
    /\ member' = [member EXCEPT ![txn[r].who] = "deleted"]
    /\ status' = [a \in Allocs |-> IF a \in txn[r].ids THEN "deleted" ELSE status[a]]
    /\ locks' = {k \in locks : k[1] # txn[r].who}
    /\ Finish(r)
    /\ UNCHANGED <<origin, revokedAt, service, open, enforcing, released>>

-----------------------------------------------------------------------------
(* Rollbacks: a vanished row, a duplicate reclaim lock, a broken foreign   *)
(* key.                                                                    *)

MustAbort(r) ==
    \/ txn[r].op \in StatusOps \cup {"revoke", "scan"} /\ Stale(r)
    \/ txn[r].op = "locking" /\ NewLocks(r) \cap locks # {}
    \/ txn[r].op \in CreateOps /\ member[txn[r].who] = "deleted"
    \/ txn[r].op = "delete" /\ \/ member[txn[r].who] = "deleted"
                               \/ ~ (Rows(txn[r].who) \subseteq txn[r].ids)

Abort(r) ==
    /\ MustAbort(r)
    /\ Finish(r)
    /\ UNCHANGED <<db, released>>

-----------------------------------------------------------------------------
(* Single-column writes that read nothing they depend on.                  *)

PatchService(a, b) ==
    /\ status[a] \in Live
    /\ service' = [service EXCEPT ![a] = b]
    /\ UNCHANGED <<member, status, origin, revokedAt, locks, open, enforcing, txn, released>>

PatchSelfService(m, on) ==
    /\ open' = IF on THEN open \cup {m} ELSE open \ {m}
    /\ UNCHANGED <<member, status, origin, revokedAt, service, locks, enforcing, txn, released>>

UpdateAnomalyConfig(on) ==
    /\ enforcing' = on
    /\ UNCHANGED <<member, status, origin, revokedAt, service, locks, open, txn, released>>

UpdateMember(m, s) ==
    /\ member[m] # "deleted"
    /\ member' = [member EXCEPT ![m] = s]
    /\ UNCHANGED <<status, origin, revokedAt, service, locks, open, enforcing, txn, released>>

-----------------------------------------------------------------------------
Init ==
    /\ member = [m \in Members |-> "active"]
    /\ status = [a \in Allocs |-> "none"]
    /\ origin = [a \in Allocs |-> "admin"]
    /\ revokedAt = [a \in Allocs |-> FALSE]
    /\ service = [a \in Allocs |-> FALSE]
    /\ locks = {}
    /\ open = {}
    /\ enforcing = TRUE
    /\ txn = [r \in Reqs |-> Idle]
    /\ released = {}

\* What a client or an administrator asks for.
Request(r) ==
    \/ \E a \in Allocs : \/ \E op \in StatusOps : BeginStatusOp(r, op, a)
                         \/ BeginRevoke(r, a)
                         \/ BeginClaim(r, a)
                         \/ BeginCreate(r, a)
    \/ \E ids \in SUBSET Allocs : BeginScan(r, ids)
    \/ \E m \in Members : BeginDelete(r, m)

\* What the database then does with the session.
Progress(r) ==
    \/ CommitStatusOp(r)
    \/ FlushRevoke(r)
    \/ CommitRevoke(r)
    \/ CommitCreate(r)
    \/ CommitScan(r)
    \/ CommitDelete(r)
    \/ Abort(r)

Settings ==
    \/ \E k \in Members \X Models : Unlock(k)
    \/ \E a \in Allocs, b \in BOOLEAN : PatchService(a, b)
    \/ \E m \in Models, on \in BOOLEAN : PatchSelfService(m, on)
    \/ \E on \in BOOLEAN : UpdateAnomalyConfig(on)
    \/ \E m \in Members, s \in {"active", "disabled"} : UpdateMember(m, s)

Next == (\E r \in Reqs : Request(r) \/ Progress(r)) \/ Settings

Spec == Init /\ [][Next]_vars

-----------------------------------------------------------------------------
(* Properties.                                                             *)

\* What a session in flight may rely on until it ends, whatever the others do:
\* the ids of a new allocation are nobody else's, a row it means to UPDATE was
\* inserted before, the row a revocation has flushed is neither deleted nor
\* (once it found a lock) without a lock that no administrator removed since.
SessionOK(r) ==
    LET t == txn[r] IN
        /\ t.op \in CreateOps \cup {"delete"} =>
              t.who \in Members /\ \A a \in t.ids : Owner[a] = t.who
        /\ t.op \in CreateOps => \A a \in t.ids : status[a] = "none"
        /\ t.op \in CreateOps =>
              \A q \in Reqs \ {r} : txn[q].op \in CreateOps => t.ids \cap txn[q].ids = {}
        /\ t.op \in StatusOps \cup {"revoke", "scan", "delete"} =>
              \A a \in t.ids : status[a] # "none"
        /\ t.op = "locking" => \A a \in t.ids : status[a] \in Live
        /\ t.op = "locking" /\ t.saw =>
              \A a \in t.ids : Key(a) \in locks \/ a \in released

\* Every session in flight: SessionOK, for the handlers' reads of rows other
\* sessions are about to write.
InFlightOK == \A r \in Reqs : SessionOK(r)

\* Revoking a self-service allocation locks its (member, model) against a new
\* claim until an administrator unlocks it: AllocationService.revoke with
\* _lock_reclaim, against concurrent revocations of other allocations of the
\* same key, unlocks, and rollbacks.
LockedUntilReleased ==
    \A a \in Allocs :
        status[a] \in Live /\ revokedAt[a] /\ origin[a] = "self_service"
            => Key(a) \in locks \/ a \in released

\* A deleted member leaves nothing behind that refers to it: no allocation and
\* no reclaim lock, whatever claims and revocations raced with the deletion
\* (MemberService.delete).
DeletedLeavesNothing ==
    \A m \in Members : member[m] = "deleted" =>
        /\ Rows(m) = {}
        /\ \A k \in locks : k[1] # m

\* A revoked allocation no session in flight is about to overwrite.
Settled(a) ==
    /\ status[a] = "revoked"
    /\ \A r \in Reqs : a \in txn[r].ids => txn[r].op \in {"revoke", "locking", "delete"}

\* Once no transaction that read the allocation before its revocation is still
\* in flight, a revoked allocation stays revoked until its member is deleted:
\* no handler accepts one as its starting point.
RevokedSettles ==
    [][\A a \in Allocs : Settled(a) => Settled(a)' \/ status'[a] = "deleted"]_vars

\* What the readers of a row tell apart: they serve an active allocation only.
Row(a) == IF status[a] \in Live \ {"active"} THEN "blocked" ELSE status[a]
Gone == {m \in Members : member[m] = "deleted"}

\* However its handlers overlap, the table is what keys, calls and relays take
\* it for: rows are inserted once, for members who exist, and leave with their
\* member, all at once and for good (AllocationService, MemberService.delete).
Table == INSTANCE AllocationRows WITH gone <- Gone, alloc <- [a \in Allocs |-> Row(a)]
RowsSpec == Table!Spec

\* specs/003-hardening/data-model.md:21, models/allocation.py:33: revoked is a
\* terminal status.
RevokedIsTerminal ==
    [][\A a \in Allocs : status[a] = "revoked" => status'[a] \in {"revoked", "deleted"}]_vars
============================================================================
