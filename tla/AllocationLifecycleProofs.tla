--------------------- MODULE AllocationLifecycleProofs ---------------------
(* Proofs about AllocationLifecycle, for any sets of members, models,      *)
(* allocations and sessions.                                               *)
EXTENDS AllocationLifecycle, TLAPS

\* An allocation that was never inserted was never revoked.
NeverRevokedBeforeInsert == \A a \in Allocs : status[a] = "none" => ~ revokedAt[a]

\* The inductive invariant.
IInv ==
    /\ TypeOK
    /\ NeverRevokedBeforeInsert
    /\ InFlightOK
    /\ LockedUntilReleased
    /\ DeletedLeavesNothing

USE DEF Live, StatusOps, CreateOps, Ops

\* Every step of every handler keeps the tables and the sessions well typed.
LEMMA TypeStep == TypeOK /\ [Next]_vars => TypeOK'
<1> SUFFICES ASSUME TypeOK, [Next]_vars PROVE TypeOK'
  OBVIOUS
<1> USE OwnerAssumption, ModelOfAssumption DEF TypeOK, Txn, Idle, db, Finish, Start, Key
<1>1. ASSUME NEW r \in Reqs, NEW a \in Allocs, NEW op \in StatusOps,
             BeginStatusOp(r, op, a)
      PROVE  TypeOK'
  BY <1>1 DEF BeginStatusOp
<1>2. ASSUME NEW r \in Reqs, NEW a \in Allocs, BeginRevoke(r, a) PROVE TypeOK'
  BY <1>2 DEF BeginRevoke
<1>3. ASSUME NEW r \in Reqs, NEW a \in Allocs, BeginClaim(r, a) PROVE TypeOK'
  BY <1>3 DEF BeginClaim
<1>4. ASSUME NEW r \in Reqs, NEW a \in Allocs, BeginCreate(r, a) PROVE TypeOK'
  BY <1>4 DEF BeginCreate
<1>5. ASSUME NEW r \in Reqs, NEW ids \in SUBSET Allocs, BeginScan(r, ids) PROVE TypeOK'
  BY <1>5 DEF BeginScan
<1>6. ASSUME NEW r \in Reqs, NEW m \in Members, BeginDelete(r, m) PROVE TypeOK'
  BY <1>6 DEF BeginDelete, Rows
<1>7. ASSUME NEW r \in Reqs, CommitStatusOp(r) PROVE TypeOK'
  BY <1>7 DEF CommitStatusOp, ToStatus
<1>8. ASSUME NEW r \in Reqs, FlushRevoke(r) PROVE TypeOK'
  <2>1. FoundLocks(r) \in BOOLEAN
    BY DEF FoundLocks
  <2> QED
    BY <1>8, <2>1 DEF FlushRevoke
<1>9. ASSUME NEW r \in Reqs, CommitRevoke(r) PROVE TypeOK'
  <2>1. NewLocks(r) \subseteq Members \X Models
    BY DEF NewLocks
  <2> QED
    BY <1>9, <2>1 DEF CommitRevoke
<1>10. ASSUME NEW r \in Reqs, CommitCreate(r) PROVE TypeOK'
  BY <1>10 DEF CommitCreate
<1>11. ASSUME NEW r \in Reqs, CommitScan(r) PROVE TypeOK'
  BY <1>11 DEF CommitScan
<1>12. ASSUME NEW r \in Reqs, CommitDelete(r) PROVE TypeOK'
  BY <1>12 DEF CommitDelete
<1>13. ASSUME NEW r \in Reqs, Abort(r) PROVE TypeOK'
  BY <1>13 DEF Abort
<1>14. ASSUME Settings PROVE TypeOK'
  BY <1>14 DEF Settings, Unlock, PatchService, PatchSelfService, UpdateAnomalyConfig,
               UpdateMember
<1>15. CASE UNCHANGED vars
  BY <1>15 DEF vars
<1> QED
  BY <1>1, <1>2, <1>3, <1>4, <1>5, <1>6, <1>7, <1>8, <1>9, <1>10, <1>11, <1>12,
     <1>13, <1>14, <1>15 DEF Next, Request, Progress

\* Type correctness of the allocation tables and of the sessions.
THEOREM TypeCorrect == Spec => []TypeOK
<1>1. Init => TypeOK
  BY DEF Init, TypeOK, Txn, Idle
<1> QED
  BY <1>1, TypeStep, PTL DEF Spec

-----------------------------------------------------------------------------
(* A handler's reads start a transaction and change no table.              *)

\* Starting a session: the rows it works on are as InFlightOK wants them.
LEMMA StartKeeps ==
    ASSUME IInv, NEW r \in Reqs, NEW op \in Ops \ {"locking"},
           NEW who \in Members \cup {Nobody}, NEW ids \in SUBSET Allocs,
           Start(r, op, who, ids), UNCHANGED <<db, released>>,
           op \in CreateOps \cup {"delete"} =>
               who \in Members /\ \A a \in ids : Owner[a] = who,
           op \in CreateOps => \A a \in ids : Fresh(a),
           op \in StatusOps \cup {"revoke", "scan", "delete"} => \A a \in ids : status[a] # "none"
    PROVE  NeverRevokedBeforeInsert' /\ InFlightOK' /\ LockedUntilReleased'
               /\ DeletedLeavesNothing'
<1> USE DEF db
<1>1. NeverRevokedBeforeInsert' /\ LockedUntilReleased' /\ DeletedLeavesNothing'
  BY DEF IInv, NeverRevokedBeforeInsert, LockedUntilReleased, DeletedLeavesNothing, Rows, Key
<1>2. InFlightOK'
  <2> SUFFICES ASSUME NEW q \in Reqs PROVE SessionOK(q)'
    BY DEF InFlightOK
  <2>1. /\ txn'[r] = [op |-> op, who |-> who, ids |-> ids, saw |-> FALSE]
        /\ \A p \in Reqs \ {r} : txn'[p] = txn[p]
    BY DEF IInv, TypeOK, Start
  <2>2. CASE q = r
    BY <2>1, <2>2 DEF IInv, InFlightOK, SessionOK, Fresh, Key
  <2>3. CASE q # r
    BY <2>1, <2>3 DEF IInv, InFlightOK, SessionOK, Fresh, Key
  <2> QED
    BY <2>2, <2>3
<1> QED
  BY <1>1, <1>2

-----------------------------------------------------------------------------
(* The writes.                                                             *)

\* When session r ends, the others can still rely on what they relied on if
\* its writes left their rows in the states they expect.
LEMMA FinishKeepsSessions ==
    ASSUME IInv, NEW r \in Reqs, Finish(r),
           \A q \in Reqs \ {r} : \A a \in txn[q].ids :
               /\ txn[q].op \in CreateOps => status'[a] = "none"
               /\ txn[q].op \in StatusOps \cup {"revoke", "scan", "delete"} => status'[a] # "none"
               /\ txn[q].op = "locking" => status'[a] \in Live
               /\ txn[q].op = "locking" /\ txn[q].saw =>
                      Key(a) \in locks' \/ a \in released'
    PROVE  InFlightOK'
<1> SUFFICES ASSUME NEW q \in Reqs PROVE SessionOK(q)'
  BY DEF InFlightOK
<1>1. txn'[r] = Idle /\ \A p \in Reqs \ {r} : txn'[p] = txn[p]
  BY DEF IInv, TypeOK, Finish
<1>2. CASE q = r
  BY <1>1, <1>2 DEF SessionOK, Idle
<1>3. CASE q # r
  <2>1. SessionOK(q)
    BY DEF IInv, InFlightOK
  <2>2. \A p \in Reqs \ {q} : txn'[p].op \in CreateOps => txn'[p] = txn[p]
    BY <1>1 DEF Idle
  <2> QED
    BY <1>1, <1>3, <2>1, <2>2 DEF SessionOK, Key
<1> QED
  BY <1>2, <1>3

\* A handler that UPDATEs rows it read earlier writes rows that still exist.
LEMMA UpdatedRowsExist ==
    ASSUME IInv, NEW r \in Reqs, txn[r].op \in StatusOps \cup {"scan"}, ~ Stale(r)
    PROVE  \A a \in txn[r].ids : a \in Allocs /\ status[a] \in Live
BY DEF IInv, TypeOK, Txn, InFlightOK, SessionOK, Stale

\* pause, resume, unquarantine and quarantine: a status UPDATE of live rows.
LEMMA StatusUpdateKeeps ==
    ASSUME IInv, NEW r \in Reqs, NEW s \in Live,
           \A a \in txn[r].ids : a \in Allocs /\ status[a] \in Live,
           status' = [a \in Allocs |-> IF a \in txn[r].ids THEN s ELSE status[a]],
           Finish(r),
           UNCHANGED <<member, origin, revokedAt, locks, released>>
    PROVE  NeverRevokedBeforeInsert' /\ InFlightOK' /\ LockedUntilReleased'
               /\ DeletedLeavesNothing'
<1>1. \A a \in Allocs : \/ status'[a] = status[a]
                        \/ status[a] \in Live /\ status'[a] \in Live
  <2> TAKE a \in Allocs
  <2>1. status'[a] = IF a \in txn[r].ids THEN s ELSE status[a]
    OBVIOUS
  <2> QED
    BY <2>1
<1>2. NeverRevokedBeforeInsert'
  BY <1>1 DEF IInv, NeverRevokedBeforeInsert
<1>3. InFlightOK'
  <2>1. ASSUME NEW q \in Reqs \ {r}, NEW a \in txn[q].ids
        PROVE  /\ txn[q].op \in CreateOps => status'[a] = "none"
               /\ txn[q].op \in StatusOps \cup {"revoke", "scan", "delete"} => status'[a] # "none"
               /\ txn[q].op = "locking" => status'[a] \in Live
               /\ txn[q].op = "locking" /\ txn[q].saw =>
                      Key(a) \in locks' \/ a \in released'
    <3>1. a \in Allocs /\ SessionOK(q)
      BY DEF IInv, TypeOK, Txn, InFlightOK
    <3> QED
      BY <3>1, <1>1 DEF SessionOK
  <2> QED
    BY <2>1, FinishKeepsSessions
<1>4. LockedUntilReleased'
  BY <1>1 DEF IInv, LockedUntilReleased, Key
<1>5. DeletedLeavesNothing'
  BY <1>1 DEF IInv, DeletedLeavesNothing, Rows
<1> QED
  BY <1>2, <1>3, <1>4, <1>5

\* Pause, resume and unquarantine write one status of a row that exists.
LEMMA CommitStatusOpKeeps ==
    ASSUME IInv, NEW r \in Reqs, CommitStatusOp(r)
    PROVE  NeverRevokedBeforeInsert' /\ InFlightOK' /\ LockedUntilReleased'
               /\ DeletedLeavesNothing'
<1>1. \A a \in txn[r].ids : a \in Allocs /\ status[a] \in Live
  BY UpdatedRowsExist DEF CommitStatusOp
<1>2. ToStatus(txn[r].op) \in Live
  BY DEF ToStatus
<1> QED
  BY <1>1, <1>2, StatusUpdateKeeps DEF CommitStatusOp

\* The scan quarantines rows that exist, and no session relies on their status.
LEMMA CommitScanKeeps ==
    ASSUME IInv, NEW r \in Reqs, CommitScan(r)
    PROVE  NeverRevokedBeforeInsert' /\ InFlightOK' /\ LockedUntilReleased'
               /\ DeletedLeavesNothing'
<1>1. \A a \in txn[r].ids : a \in Allocs /\ status[a] \in Live
  BY UpdatedRowsExist DEF CommitScan
<1> QED
  BY <1>1, StatusUpdateKeeps DEF CommitScan

\* A new allocation keeps the inductive invariant: its id is in no other
\* session's hands and its member still exists.
LEMMA CommitCreateKeeps ==
    ASSUME IInv, NEW r \in Reqs, CommitCreate(r)
    PROVE  NeverRevokedBeforeInsert' /\ InFlightOK' /\ LockedUntilReleased'
               /\ DeletedLeavesNothing'
<1> USE DEF CommitCreate
<1>1. \A a \in txn[r].ids : /\ a \in Allocs
                            /\ status[a] = "none" /\ ~ revokedAt[a]
                            /\ member[Owner[a]] # "deleted"
  BY DEF IInv, TypeOK, Txn, InFlightOK, SessionOK, NeverRevokedBeforeInsert
<1>2. \A a \in Allocs :
          status'[a] = (IF a \in txn[r].ids THEN "active" ELSE status[a])
  OBVIOUS
<1>3. \A a \in Allocs \ txn[r].ids : origin'[a] = origin[a]
  OBVIOUS
<1>4. NeverRevokedBeforeInsert'
  BY <1>2 DEF IInv, NeverRevokedBeforeInsert
<1>5. InFlightOK'
  <2>1. ASSUME NEW q \in Reqs \ {r}, NEW a \in txn[q].ids
        PROVE  /\ txn[q].op \in CreateOps => status'[a] = "none"
               /\ txn[q].op \in StatusOps \cup {"revoke", "scan", "delete"} => status'[a] # "none"
               /\ txn[q].op = "locking" => status'[a] \in Live
               /\ txn[q].op = "locking" /\ txn[q].saw =>
                      Key(a) \in locks' \/ a \in released'
    <3>1. a \in Allocs /\ SessionOK(q) /\ SessionOK(r)
      BY DEF IInv, TypeOK, Txn, InFlightOK
    <3>2. txn[q].op \in CreateOps => a \notin txn[r].ids
      BY <3>1 DEF SessionOK
    <3> QED
      BY <3>1, <3>2, <1>2 DEF SessionOK
  <2> QED
    BY <2>1, FinishKeepsSessions
<1>6. LockedUntilReleased'
  BY <1>1, <1>2, <1>3 DEF IInv, LockedUntilReleased, Key
<1>7. DeletedLeavesNothing'
  BY <1>1, <1>2 DEF IInv, DeletedLeavesNothing, Rows
<1> QED
  BY <1>4, <1>5, <1>6, <1>7

\* The flush of a revocation holds a row that exists; what it sees of the
\* reclaim lock is what the table says.
LEMMA FlushRevokeKeeps ==
    ASSUME IInv, NEW r \in Reqs, FlushRevoke(r)
    PROVE  NeverRevokedBeforeInsert' /\ InFlightOK' /\ LockedUntilReleased'
               /\ DeletedLeavesNothing'
<1> USE DEF FlushRevoke, db
<1>1. NeverRevokedBeforeInsert' /\ LockedUntilReleased' /\ DeletedLeavesNothing'
  BY DEF IInv, NeverRevokedBeforeInsert, LockedUntilReleased, DeletedLeavesNothing, Rows, Key
<1>2. InFlightOK'
  <2> SUFFICES ASSUME NEW q \in Reqs PROVE SessionOK(q)'
    BY DEF InFlightOK
  <2>1. /\ txn'[r] = [op |-> "locking", who |-> txn[r].who, ids |-> txn[r].ids,
                      saw |-> FoundLocks(r)]
        /\ \A p \in Reqs \ {r} : txn'[p] = txn[p]
    BY DEF IInv, TypeOK
  <2>2. SessionOK(q) /\ SessionOK(r)
    BY DEF IInv, InFlightOK
  <2>3. CASE q = r
    <3>1. \A a \in txn[r].ids : status[a] \in Live
      BY <2>2 DEF IInv, TypeOK, Txn, SessionOK, Stale
    <3>2. FoundLocks(r) => \A a \in txn[r].ids : Key(a) \in locks
      BY DEF FoundLocks
    <3> QED
      BY <2>1, <2>3, <3>1, <3>2 DEF SessionOK, Key
  <2>4. CASE q # r
    BY <2>1, <2>2, <2>4 DEF SessionOK, Key
  <2> QED
    BY <2>3, <2>4
<1> QED
  BY <1>1, <1>2

\* A committed revocation leaves the lock, or found one that only an
\* administrator can have removed since.
LEMMA CommitRevokeKeeps ==
    ASSUME IInv, NEW r \in Reqs, CommitRevoke(r)
    PROVE  NeverRevokedBeforeInsert' /\ InFlightOK' /\ LockedUntilReleased'
               /\ DeletedLeavesNothing'
<1> USE DEF CommitRevoke
<1>1. \A a \in txn[r].ids : a \in Allocs /\ status[a] \in Live
  BY DEF IInv, TypeOK, Txn, InFlightOK, SessionOK
<1>2. \A a \in Allocs :
          /\ status'[a] = (IF a \in txn[r].ids THEN "revoked" ELSE status[a])
          /\ revokedAt'[a] <=> (a \in txn[r].ids \/ revokedAt[a])
  OBVIOUS
<1>3. locks \subseteq locks' /\ \A k \in locks' : k \in locks \/ k \in NewLocks(r)
  OBVIOUS
<1>4. NeverRevokedBeforeInsert'
  BY <1>1, <1>2 DEF IInv, NeverRevokedBeforeInsert
<1>5. InFlightOK'
  <2>1. ASSUME NEW q \in Reqs \ {r}, NEW a \in txn[q].ids
        PROVE  /\ txn[q].op \in CreateOps => status'[a] = "none"
               /\ txn[q].op \in StatusOps \cup {"revoke", "scan", "delete"} => status'[a] # "none"
               /\ txn[q].op = "locking" => status'[a] \in Live
               /\ txn[q].op = "locking" /\ txn[q].saw =>
                      Key(a) \in locks' \/ a \in released'
    <3>1. a \in Allocs /\ SessionOK(q)
      BY DEF IInv, TypeOK, Txn, InFlightOK
    <3> QED
      BY <3>1, <1>1, <1>2, <1>3 DEF SessionOK
  <2> QED
    BY <2>1, FinishKeepsSessions
<1>6. LockedUntilReleased'
  <2> SUFFICES ASSUME NEW a \in Allocs, status'[a] \in Live, revokedAt'[a],
                      origin[a] = "self_service"
               PROVE  Key(a) \in locks' \/ a \in released
    BY DEF LockedUntilReleased, Key
  <2>1. CASE a \notin txn[r].ids
    BY <2>1, <1>2, <1>3 DEF IInv, LockedUntilReleased
  <2>2. CASE a \in txn[r].ids /\ ~ txn[r].saw
    BY <2>2 DEF NewLocks
  <2>3. CASE a \in txn[r].ids /\ txn[r].saw
    BY <2>3, <1>3 DEF IInv, InFlightOK, SessionOK
  <2> QED
    BY <2>1, <2>2, <2>3
<1>7. DeletedLeavesNothing'
  <2>1. \A a \in txn[r].ids : member[Owner[a]] # "deleted"
    BY <1>1, OwnerAssumption DEF IInv, DeletedLeavesNothing, Rows
  <2>2. \A k \in NewLocks(r) : member[k[1]] # "deleted"
    BY <2>1 DEF NewLocks, Key
  <2> QED
    BY <1>1, <1>2, <1>3, <2>1, <2>2 DEF IInv, DeletedLeavesNothing, Rows
<1> QED
  BY <1>4, <1>5, <1>6, <1>7

\* Deleting a member removes its locks together with every row they are about:
\* a revocation in flight holds its row and makes the deletion wait, and an
\* allocation inserted meanwhile makes it fail.
LEMMA CommitDeleteKeeps ==
    ASSUME IInv, NEW r \in Reqs, CommitDelete(r)
    PROVE  NeverRevokedBeforeInsert' /\ InFlightOK' /\ LockedUntilReleased'
               /\ DeletedLeavesNothing'
<1> USE DEF CommitDelete
<1> DEFINE m == txn[r].who
<1>1. m \in Members /\ \A a \in txn[r].ids : a \in Allocs /\ Owner[a] = m
  BY DEF IInv, TypeOK, Txn, InFlightOK, SessionOK
<1>2. \A a \in Allocs :
          status'[a] = (IF a \in txn[r].ids THEN "deleted" ELSE status[a])
  OBVIOUS
<1>3. \A a \in Allocs : status[a] \in Live /\ Owner[a] = m => a \in txn[r].ids
  BY DEF Rows
<1>4. \A n \in Members : member'[n] = (IF n = m THEN "deleted" ELSE member[n])
  BY <1>1 DEF IInv, TypeOK
<1>5. \A a \in Allocs : Owner[a] # m /\ Key(a) \in locks => Key(a) \in locks'
  BY DEF Key
<1>6. NeverRevokedBeforeInsert'
  BY <1>2 DEF IInv, NeverRevokedBeforeInsert
<1>7. InFlightOK'
  <2>1. ASSUME NEW q \in Reqs \ {r}, NEW a \in txn[q].ids
        PROVE  /\ txn[q].op \in CreateOps => status'[a] = "none"
               /\ txn[q].op \in StatusOps \cup {"revoke", "scan", "delete"} => status'[a] # "none"
               /\ txn[q].op = "locking" => status'[a] \in Live
               /\ txn[q].op = "locking" /\ txn[q].saw =>
                      Key(a) \in locks' \/ a \in released'
    <3>1. a \in Allocs /\ SessionOK(q)
      BY DEF IInv, TypeOK, Txn, InFlightOK
    <3>2. txn[q].op = "locking" => a \notin txn[r].ids
      BY DEF RowFree
    <3>3. txn[q].op = "locking" => Owner[a] # m
      BY <1>3, <3>1, <3>2 DEF SessionOK
    <3>4. txn[q].op \in CreateOps => a \notin txn[r].ids
      BY <3>1 DEF IInv, InFlightOK, SessionOK
    <3> QED
      BY <3>1, <3>2, <3>3, <3>4, <1>2, <1>5 DEF SessionOK
  <2> QED
    BY <2>1, FinishKeepsSessions
<1>8. LockedUntilReleased'
  BY <1>2, <1>3, <1>5 DEF IInv, LockedUntilReleased, Key
<1>9. DeletedLeavesNothing'
  BY <1>2, <1>3, <1>4 DEF IInv, DeletedLeavesNothing, Rows
<1> QED
  BY <1>6, <1>7, <1>8, <1>9

\* A rollback, and a setting, keep the inductive invariant.
LEMMA AbortKeeps ==
    ASSUME IInv, NEW r \in Reqs, Abort(r)
    PROVE  NeverRevokedBeforeInsert' /\ InFlightOK' /\ LockedUntilReleased'
               /\ DeletedLeavesNothing'
<1> USE DEF Abort, db
<1>1. NeverRevokedBeforeInsert' /\ LockedUntilReleased' /\ DeletedLeavesNothing'
  BY DEF IInv, NeverRevokedBeforeInsert, LockedUntilReleased, DeletedLeavesNothing, Rows, Key
<1>2. \A q \in Reqs : SessionOK(q)
  BY DEF IInv, InFlightOK
<1>3. InFlightOK'
  BY <1>2, FinishKeepsSessions DEF SessionOK
<1> QED
  BY <1>1, <1>3

\* An unlocked pair is remembered as released, so no revocation counts on it.
LEMMA UnlockKeeps ==
    ASSUME IInv, NEW k \in Members \X Models, Unlock(k)
    PROVE  NeverRevokedBeforeInsert' /\ InFlightOK' /\ LockedUntilReleased'
               /\ DeletedLeavesNothing'
<1> USE DEF Unlock
<1>1. \A a \in Allocs : Key(a) \in locks /\ Key(a) # k => Key(a) \in locks'
  OBVIOUS
<1>2. \A a \in released : a \in released'
  OBVIOUS
<1>3. NeverRevokedBeforeInsert'
  BY DEF IInv, NeverRevokedBeforeInsert
<1>4. InFlightOK'
  <2> SUFFICES ASSUME NEW q \in Reqs PROVE SessionOK(q)'
    BY DEF InFlightOK
  <2>1. SessionOK(q) /\ txn[q].ids \subseteq Allocs
    BY DEF IInv, InFlightOK, TypeOK, Txn
  <2>2. txn[q].op = "locking" /\ txn[q].saw =>
            \A a \in txn[q].ids : Key(a) \in locks' \/ a \in released'
    BY <2>1, <1>1, <1>2 DEF SessionOK
  <2> QED
    BY <2>1, <2>2 DEF SessionOK, Key
<1>5. LockedUntilReleased'
  BY <1>1, <1>2 DEF IInv, LockedUntilReleased, Key
<1>6. DeletedLeavesNothing'
  BY DEF IInv, DeletedLeavesNothing, Rows
<1> QED
  BY <1>3, <1>4, <1>5, <1>6

\* The administrators' settings touch nothing a session relies on, but locks.
LEMMA SettingsKeep ==
    ASSUME IInv, Settings
    PROVE  NeverRevokedBeforeInsert' /\ InFlightOK' /\ LockedUntilReleased'
               /\ DeletedLeavesNothing'
<1> DEFINE Kept == NeverRevokedBeforeInsert' /\ InFlightOK' /\ LockedUntilReleased'
                       /\ DeletedLeavesNothing'
<1> USE DEF IInv, NeverRevokedBeforeInsert, InFlightOK, SessionOK, LockedUntilReleased,
            DeletedLeavesNothing, Rows, Key
<1>1. ASSUME NEW a \in Allocs, NEW b \in BOOLEAN, PatchService(a, b) PROVE Kept
  BY <1>1 DEF PatchService
<1>2. ASSUME NEW m \in Models, NEW on \in BOOLEAN, PatchSelfService(m, on) PROVE Kept
  BY <1>2 DEF PatchSelfService
<1>3. ASSUME NEW on \in BOOLEAN, UpdateAnomalyConfig(on) PROVE Kept
  BY <1>3 DEF UpdateAnomalyConfig
<1>4. ASSUME NEW m \in Members, NEW s \in {"active", "disabled"}, UpdateMember(m, s)
      PROVE  Kept
  <2>1. \A n \in Members : member'[n] = "deleted" => member[n] = "deleted"
    BY <1>4 DEF UpdateMember, TypeOK
  <2> QED
    BY <1>4, <2>1 DEF UpdateMember
<1> QED
  BY <1>1, <1>2, <1>3, <1>4, UnlockKeeps DEF Settings

-----------------------------------------------------------------------------
\* Every step keeps the inductive invariant.
LEMMA InductiveStep == IInv /\ [Next]_vars => IInv'
<1> SUFFICES ASSUME IInv, [Next]_vars PROVE IInv'
  OBVIOUS
<1> DEFINE Kept == NeverRevokedBeforeInsert' /\ InFlightOK' /\ LockedUntilReleased'
                       /\ DeletedLeavesNothing'
<1>0. TypeOK'
  BY TypeStep DEF IInv
<1> SUFFICES Kept
  BY <1>0 DEF IInv
<1>1. ASSUME NEW r \in Reqs, NEW a \in Allocs, NEW op \in StatusOps,
             BeginStatusOp(r, op, a)
      PROVE  Kept
  <2>1. status[a] # "none"
    BY <1>1 DEF BeginStatusOp, FromStatus
  <2> QED
    BY <1>1, <2>1, StartKeeps, OwnerAssumption DEF BeginStatusOp
<1>2. ASSUME NEW r \in Reqs, NEW a \in Allocs, BeginRevoke(r, a) PROVE Kept
  BY <1>2, StartKeeps, OwnerAssumption DEF BeginRevoke
<1>3. ASSUME NEW r \in Reqs, NEW a \in Allocs, BeginClaim(r, a) PROVE Kept
  BY <1>3, StartKeeps, OwnerAssumption DEF BeginClaim
<1>4. ASSUME NEW r \in Reqs, NEW a \in Allocs, BeginCreate(r, a) PROVE Kept
  BY <1>4, StartKeeps, OwnerAssumption DEF BeginCreate
<1>5. ASSUME NEW r \in Reqs, NEW ids \in SUBSET Allocs, BeginScan(r, ids) PROVE Kept
  BY <1>5, StartKeeps DEF BeginScan
<1>6. ASSUME NEW r \in Reqs, NEW m \in Members, BeginDelete(r, m) PROVE Kept
  <2>1. Rows(m) \in SUBSET Allocs /\ \A a \in Rows(m) : Owner[a] = m /\ status[a] # "none"
    BY DEF Rows
  <2> QED
    BY <1>6, <2>1, StartKeeps DEF BeginDelete
<1>7. ASSUME NEW r \in Reqs, Progress(r) PROVE Kept
  BY <1>7, CommitStatusOpKeeps, FlushRevokeKeeps, CommitRevokeKeeps, CommitCreateKeeps,
     CommitScanKeeps, CommitDeleteKeeps, AbortKeeps DEF Progress
<1>8. CASE Settings
  BY <1>8, SettingsKeep
<1>9. CASE UNCHANGED vars
  BY <1>9 DEF vars, IInv, NeverRevokedBeforeInsert, InFlightOK, SessionOK,
              LockedUntilReleased, DeletedLeavesNothing, Rows, Key
<1> QED
  BY <1>1, <1>2, <1>3, <1>4, <1>5, <1>6, <1>7, <1>8, <1>9 DEF Next, Request

\* The invariant holds in every reachable state.
LEMMA Inductive == Spec => []IInv
<1>1. Init => IInv
  BY DEF Init, IInv, TypeOK, Txn, Idle, NeverRevokedBeforeInsert, InFlightOK, SessionOK,
         LockedUntilReleased, DeletedLeavesNothing, Rows
<1> QED
  BY <1>1, InductiveStep, PTL DEF Spec

\* However revocations, unlocks, claims, deletions and rollbacks interleave, a
\* revoked self-service allocation leaves its reclaim lock until an
\* administrator removes it (AllocationService.revoke, _lock_reclaim).
THEOREM RevocationLocks == Spec => []LockedUntilReleased
BY Inductive, PTL DEF IInv

\* Deleting a member never leaves an allocation or a reclaim lock behind
\* (MemberService.delete against concurrent claims and revocations).
THEOREM DeletionIsComplete == Spec => []DeletedLeavesNothing
BY Inductive, PTL DEF IInv

\* What a session in flight relies on is never invalidated by another.
THEOREM SessionsConsistent == Spec => []InFlightOK
BY Inductive, PTL DEF IInv

-----------------------------------------------------------------------------
\* One step from a settled revocation.
LEMMA SettledStep ==
    ASSUME TypeOK, Next, NEW a \in Allocs, Settled(a)
    PROVE  Settled(a)' \/ status'[a] = "deleted"
<1> USE DEF Settled, TypeOK, db
<1>1. ASSUME NEW r \in Reqs, NEW op \in {"revoke", "delete"}, NEW who, NEW ids,
             Start(r, op, who, ids), UNCHANGED status
      PROVE  Settled(a)'
  BY <1>1 DEF Start
<1>2. ASSUME NEW r \in Reqs, NEW op, NEW who, NEW ids, a \notin ids,
             Start(r, op, who, ids), UNCHANGED status
      PROVE  Settled(a)'
  BY <1>2 DEF Start
<1>3. ASSUME NEW r \in Reqs, Finish(r), status'[a] = "revoked" PROVE Settled(a)'
  BY <1>3 DEF Finish, Idle
<1>4. ASSUME NEW r \in Reqs, Request(r) PROVE Settled(a)'
  <2>1. ASSUME NEW b \in Allocs, NEW op \in StatusOps, BeginStatusOp(r, op, b)
        PROVE  Settled(a)'
    <3>1. a \notin {b}
      BY <2>1 DEF BeginStatusOp, FromStatus
    <3> QED
      BY <2>1, <3>1, <1>2 DEF BeginStatusOp
  <2>2. ASSUME NEW b \in Allocs, BeginRevoke(r, b) PROVE Settled(a)'
    BY <2>2, <1>1 DEF BeginRevoke
  <2>3. ASSUME NEW b \in Allocs, BeginClaim(r, b) \/ BeginCreate(r, b) PROVE Settled(a)'
    <3>1. a \notin {b}
      BY <2>3 DEF BeginClaim, BeginCreate, Fresh
    <3> QED
      BY <2>3, <3>1, <1>2 DEF BeginClaim, BeginCreate
  <2>4. ASSUME NEW ids \in SUBSET Allocs, BeginScan(r, ids) PROVE Settled(a)'
    BY <2>4, <1>2 DEF BeginScan
  <2>5. ASSUME NEW m \in Members, BeginDelete(r, m) PROVE Settled(a)'
    BY <2>5, <1>1 DEF BeginDelete
  <2> QED
    BY <1>4, <2>1, <2>2, <2>3, <2>4, <2>5 DEF Request
<1>5. ASSUME NEW r \in Reqs, Progress(r) PROVE Settled(a)' \/ status'[a] = "deleted"
  <2>1. CASE CommitStatusOp(r)
    BY <2>1, <1>3 DEF CommitStatusOp
  <2>2. CASE FlushRevoke(r)
    BY <2>2 DEF FlushRevoke
  <2>3. CASE CommitRevoke(r)
    BY <2>3, <1>3 DEF CommitRevoke
  <2>4. CASE CommitCreate(r)
    BY <2>4, <1>3 DEF CommitCreate
  <2>5. CASE CommitScan(r)
    BY <2>5, <1>3 DEF CommitScan
  <2>6. CASE CommitDelete(r)
    BY <2>6, <1>3 DEF CommitDelete
  <2>7. CASE Abort(r)
    BY <2>7, <1>3 DEF Abort
  <2> QED
    BY <1>5, <2>1, <2>2, <2>3, <2>4, <2>5, <2>6, <2>7 DEF Progress
<1>6. CASE Settings
  BY <1>6 DEF Settings, Unlock, PatchService, PatchSelfService, UpdateAnomalyConfig,
              UpdateMember
<1> QED
  BY <1>4, <1>5, <1>6 DEF Next

\* A revoked allocation that no overlapping transaction is about to overwrite
\* stays revoked (the guards of pause, resume, unquarantine and the detector).
THEOREM SettledStaysRevoked == Spec => RevokedSettles
<1>1. TypeOK /\ [Next]_vars =>
        [\A a \in Allocs : Settled(a) => Settled(a)' \/ status'[a] = "deleted"]_vars
  BY SettledStep
<1> QED
  BY <1>1, TypeCorrect, PTL DEF Spec, RevokedSettles

-----------------------------------------------------------------------------
(* The table the other components see (AllocationRows).                    *)

\* A transaction inserts one allocation.
OneNew == \A r \in Reqs : txn[r].op \in CreateOps => \E a \in Allocs : txn[r].ids = {a}

LEMMA OneNewStep == TypeOK /\ OneNew /\ [Next]_vars => OneNew'
<1> SUFFICES ASSUME TypeOK, OneNew, [Next]_vars PROVE OneNew'
  OBVIOUS
<1>1. ASSUME NEW r \in Reqs, NEW op, NEW who, NEW ids, Start(r, op, who, ids),
             op \in CreateOps => \E a \in Allocs : ids = {a}
      PROVE  OneNew'
  BY <1>1 DEF OneNew, Start, TypeOK
<1>2. ASSUME NEW r \in Reqs, Finish(r) PROVE OneNew'
  BY <1>2 DEF OneNew, Finish, Idle, TypeOK
<1>3. ASSUME NEW r \in Reqs, Request(r) PROVE OneNew'
  <2>1. ASSUME NEW a \in Allocs, NEW op \in StatusOps, BeginStatusOp(r, op, a) PROVE OneNew'
    BY <1>1, <2>1 DEF BeginStatusOp
  <2>2. ASSUME NEW a \in Allocs, BeginRevoke(r, a) PROVE OneNew'
    BY <1>1, <2>2 DEF BeginRevoke
  <2>3. ASSUME NEW a \in Allocs, BeginClaim(r, a) PROVE OneNew'
    BY <1>1, <2>3 DEF BeginClaim
  <2>4. ASSUME NEW a \in Allocs, BeginCreate(r, a) PROVE OneNew'
    BY <1>1, <2>4 DEF BeginCreate
  <2>5. ASSUME NEW ids \in SUBSET Allocs, BeginScan(r, ids) PROVE OneNew'
    BY <1>1, <2>5 DEF BeginScan
  <2>6. ASSUME NEW m \in Members, BeginDelete(r, m) PROVE OneNew'
    BY <1>1, <2>6 DEF BeginDelete
  <2> QED
    BY <1>3, <2>1, <2>2, <2>3, <2>4, <2>5, <2>6 DEF Request
<1>4. ASSUME NEW r \in Reqs, Progress(r) PROVE OneNew'
  <2>1. CASE FlushRevoke(r)
    BY <2>1 DEF FlushRevoke, OneNew, TypeOK
  <2>2. CASE ~ FlushRevoke(r)
    <3>1. Finish(r)
      BY <1>4, <2>2 DEF Progress, CommitStatusOp, CommitRevoke, CommitCreate, CommitScan,
                        CommitDelete, Abort
    <3> QED
      BY <1>2, <3>1
  <2> QED
    BY <2>1, <2>2
<1>5. ASSUME txn' = txn PROVE OneNew'
  BY <1>5 DEF OneNew
<1>6. CASE Settings
  BY <1>5, <1>6 DEF Settings, Unlock, PatchService, PatchSelfService, UpdateAnomalyConfig,
                    UpdateMember
<1>7. CASE UNCHANGED vars
  BY <1>5, <1>7 DEF vars
<1> QED
  BY <1>3, <1>4, <1>6, <1>7 DEF Next

\* The map from the statuses to the table.
RowOf == [a \in Allocs |-> Row(a)]

\* What the table shows of a step that leaves the statuses alone.
LEMMA TableUnseen ==
    ASSUME status' = status, Gone' = Gone
    PROVE  UNCHANGED Table!vars
BY DEF Table!vars, Row

\* Rows that are there, and move among the statuses of a row that is there.
LEMMA TableMove ==
    ASSUME TypeOK, NEW S \in SUBSET Allocs, \A a \in S : status[a] \in Live, NEW t \in Live,
           status' = [a \in Allocs |-> IF a \in S THEN t ELSE status[a]], member' = member
    PROVE  Table!Next
<1> DEFINE s == IF t = "active" THEN "active" ELSE "blocked"
<1>1. Gone' = Gone
  BY DEF Gone
<1>2. \A a \in Allocs : Row(a)' = IF a \in S THEN s ELSE Row(a)
  BY DEF Row
<1>3. \A a \in S : RowOf[a] \in {"active", "blocked"}
  BY DEF RowOf, Row
<1>4. RowOf' = [a \in Allocs |-> IF a \in S THEN s ELSE RowOf[a]]
  BY <1>2 DEF RowOf
<1>5. Table!Move(S, s)
  BY <1>1, <1>3, <1>4 DEF Table!Move, Table!InTable, RowOf
<1> QED
  BY <1>5 DEF Table!Next

\* One row, that was not there.
LEMMA TableInsert ==
    ASSUME TypeOK, NEW b \in Allocs, status[b] = "none", member[Owner[b]] # "deleted",
           status' = [a \in Allocs |-> IF a \in {b} THEN "active" ELSE status[a]],
           member' = member
    PROVE  Table!Next
<1>1. Gone' = Gone /\ Owner[b] \notin Gone
  BY DEF Gone
<1>2. \A a \in Allocs : Row(a)' = IF a = b THEN "active" ELSE Row(a)
  BY DEF Row
<1>3. RowOf[b] = "none" /\ RowOf' = [RowOf EXCEPT ![b] = "active"]
  BY <1>2 DEF RowOf, Row
<1>4. Table!Insert(b)
  BY <1>1, <1>3 DEF Table!Insert, RowOf
<1> QED
  BY <1>4 DEF Table!Next

\* All the rows of a member, with the member.
LEMMA TableRemove ==
    ASSUME TypeOK, NEW m \in Members, member[m] # "deleted",
           NEW S \in SUBSET Allocs, Rows(m) \subseteq S,
           \A a \in S : Owner[a] = m /\ status[a] # "none",
           member' = [member EXCEPT ![m] = "deleted"],
           status' = [a \in Allocs |-> IF a \in S THEN "deleted" ELSE status[a]]
    PROVE  Table!Next
<1>1. m \notin Gone /\ Gone' = Gone \cup {m}
  BY DEF Gone, TypeOK
<1>2. ASSUME NEW a \in Allocs
      PROVE  Row(a)' = IF Owner[a] = m /\ Row(a) \in {"active", "blocked"} THEN "deleted" ELSE Row(a)
  <2>1. CASE a \in S
    BY <2>1 DEF Row, TypeOK
  <2>2. CASE a \notin S
    BY <2>2 DEF Row, Rows, TypeOK
  <2> QED
    BY <2>1, <2>2
<1>3. RowOf' = [a \in Allocs |-> IF Owner[a] = m /\ RowOf[a] \in {"active", "blocked"}
                                 THEN "deleted" ELSE RowOf[a]]
  BY <1>2 DEF RowOf
<1>4. Table!Remove(m)
  BY <1>1, <1>3 DEF Table!Remove, Table!InTable, RowOf
<1> QED
  BY <1>4 DEF Table!Next

\* A commit is one step of the table, a read none.
LEMMA TableStep == IInv /\ OneNew /\ [Next]_vars => [Table!Next]_(Table!vars)
<1> SUFFICES ASSUME IInv, OneNew, [Next]_vars
             PROVE  Table!Next \/ UNCHANGED Table!vars
  OBVIOUS
<1> DEFINE Goal == Table!Next \/ UNCHANGED Table!vars
<1>t. TypeOK
  BY DEF IInv
<1>1. ASSUME status' = status, member' = member PROVE Goal
  BY <1>1, TableUnseen DEF Gone
<1>2. ASSUME NEW S \in SUBSET Allocs, \A a \in S : status[a] \in Live, NEW t \in Live,
             status' = [a \in Allocs |-> IF a \in S THEN t ELSE status[a]], member' = member
      PROVE  Goal
  BY <1>t, <1>2, TableMove
<1>3. ASSUME NEW r \in Reqs PROVE txn[r].ids \in SUBSET Allocs /\ SessionOK(r)
  BY DEF IInv, TypeOK, Txn, InFlightOK
<1>4. ASSUME NEW r \in Reqs, txn[r].op \in StatusOps \cup {"scan"}, ~ Stale(r)
      PROVE  \A a \in txn[r].ids : status[a] \in Live
  BY <1>4, UpdatedRowsExist
<1>5. ASSUME NEW r \in Reqs, CommitCreate(r) PROVE Table!Next
  <2>1. PICK b \in Allocs : txn[r].ids = {b}
    BY <1>5 DEF CommitCreate, OneNew
  <2>2. status[b] = "none" /\ Owner[b] = txn[r].who
    BY <1>3, <1>5, <2>1 DEF SessionOK, CommitCreate
  <2> QED
    BY <1>t, <1>5, <2>1, <2>2, TableInsert DEF CommitCreate
<1>6. ASSUME NEW r \in Reqs, CommitDelete(r) PROVE Table!Next
  <2>1. /\ txn[r].who \in Members
        /\ \A a \in txn[r].ids : Owner[a] = txn[r].who /\ status[a] # "none"
    BY <1>3, <1>6 DEF SessionOK, CommitDelete
  <2> QED
    BY <1>t, <1>3, <1>6, <2>1, TableRemove DEF CommitDelete
<1> HIDE DEF Goal
<1>7. ASSUME NEW r \in Reqs, Request(r) PROVE Goal
  BY <1>1, <1>7 DEF Request, BeginStatusOp, BeginRevoke, BeginClaim, BeginCreate, BeginScan,
                    BeginDelete, db
<1>8. ASSUME NEW r \in Reqs, Progress(r) PROVE Goal
  <2>1. CASE CommitStatusOp(r)
    <3>1. ToStatus(txn[r].op) \in Live
      BY DEF ToStatus
    <3> QED
      BY <1>2, <1>3, <1>4, <2>1, <3>1 DEF CommitStatusOp
  <2>2. CASE FlushRevoke(r)
    BY <1>1, <2>2 DEF FlushRevoke, db
  <2>3. CASE CommitRevoke(r)
    <3>1. \A a \in txn[r].ids : status[a] \in Live
      BY <1>3, <2>3 DEF CommitRevoke, SessionOK
    <3> QED
      BY <1>2, <1>3, <2>3, <3>1 DEF CommitRevoke
  <2>4. CASE CommitCreate(r)
    BY <1>5, <2>4 DEF Goal
  <2>5. CASE CommitScan(r)
    BY <1>2, <1>3, <1>4, <2>5 DEF CommitScan
  <2>6. CASE CommitDelete(r)
    BY <1>6, <2>6 DEF Goal
  <2>7. CASE Abort(r)
    BY <1>1, <2>7 DEF Abort, db
  <2> QED
    BY <1>8, <2>1, <2>2, <2>3, <2>4, <2>5, <2>6, <2>7 DEF Progress
<1>9. CASE Settings
  <2>1. \/ status' = status /\ member' = member
        \/ \E m \in Members, s \in {"active", "disabled"} : UpdateMember(m, s)
    BY <1>9 DEF Settings, Unlock, PatchService, PatchSelfService, UpdateAnomalyConfig
  <2>2. ASSUME NEW m \in Members, NEW s \in {"active", "disabled"}, UpdateMember(m, s) PROVE Goal
    <3>1. status' = status /\ Gone' = Gone
      BY <1>t, <2>2 DEF UpdateMember, Gone, TypeOK
    <3>2. UNCHANGED Table!vars
      BY <3>1, TableUnseen
    <3> QED
      BY <3>2 DEF Goal
  <2> QED
    BY <1>1, <2>1, <2>2 DEF Goal
<1>10. CASE UNCHANGED vars
  BY <1>1, <1>10 DEF vars, Goal
<1> QED
  BY <1>7, <1>8, <1>9, <1>10 DEF Next, Goal

\* Whatever claims, revocations, scans and deletions overlap, the table of
\* allocations is the one AllocationRows describes (AllocationService,
\* MemberService.delete): what its readers assume of it holds.
THEOREM ImplementsRows == Spec => RowsSpec
<1>1. Init => Table!Init /\ OneNew
  BY DEF Init, Table!Init, Row, Gone, OneNew, Idle
<1>2. IInv /\ OneNew /\ [Next]_vars => OneNew'
  BY OneNewStep DEF IInv
<1> QED
  BY <1>1, <1>2, Inductive, TableStep, PTL DEF Spec, RowsSpec, Table!Spec
============================================================================
