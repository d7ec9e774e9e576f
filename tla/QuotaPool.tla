------------------------------ MODULE QuotaPool ------------------------------
(***************************************************************************)
(* The adaptive quota pool: once a month a cron job, and an administrator  *)
(* whenever he likes, redistributes a total of tokens over the active      *)
(* allocations, by their use in the month before.  Service allocations and *)
(* those whose quota is locked (both: pinned) keep their quotas, which are *)
(* taken off the total first.  The model is of the rebalances of one       *)
(* period; those of another share nothing with them but the quotas they    *)
(* start from.                                                             *)
(*                                                                         *)
(* A rebalance is one transaction at READ COMMITTED: it reads the          *)
(* configuration, the reserved sum, and the pool with its use, one         *)
(* statement after the other; computes; updates the rows one by one, each  *)
(* if it is still active and not pinned; and inserts a log row, where a    *)
(* unique index tells a repeated cron run.  Other rebalances and the       *)
(* administrators' single-row updates run in between.                      *)
(***************************************************************************)
EXTENDS Integers, FiniteSets, Functions

CONSTANTS
    Allocs,     \* allocations.id, ordered as the strings are
    Jobs,       \* database sessions a rebalance may run in
    Quotas,     \* the values an administrator gives a quota
    Totals,     \* the values an administrator gives the pool total
    Floors,     \* the values an administrator gives the floor
    Unlimited,  \* quota_tokens_per_month IS NULL
    MaxUsage,   \* bound: the use of one allocation in the period
    MaxInt      \* the largest value of the log's integer columns

ASSUME AllocsAssumption == Allocs \subseteq Nat /\ IsFiniteSet(Allocs)
ASSUME QuotasAssumption == Quotas \subseteq Nat /\ Totals \subseteq Nat /\ Floors \subseteq Nat
ASSUME UnlimitedAssumption == Unlimited \notin Nat

VARIABLES
    total,      \* pool_config.total_tokens_per_month
    floor,      \* pool_config.floor_per_allocation
    status,     \* allocations.status: active, other, or no such row
    pinned,     \* is_service_allocation or quota_locked
    quota,      \* quota_tokens_per_month
    usage,      \* tokens of the successful calls of the period
    cronLog,    \* the period has a log row of a cron run
    op,         \* where each session's rebalance is
    read,       \* what it has read: trigger, configuration, reserved sum
    plan,       \* the quotas it has computed, for the pool it has read
    todo,       \* the rows it has yet to update
    held        \* the rows it has updated, locked until it ends

rows == <<status, pinned, quota>>
config == <<total, floor>>
job == <<op, read, plan, todo, held>>
vars == <<config, rows, usage, cronLog, job>>

NoPlan == [a \in {} |-> 0]
NoRead == [cron |-> FALSE, total |-> 0, floor |-> 0, reserved |-> 0]

\* The one type invariant.
TypeOK ==
    /\ total \in Nat /\ floor \in Nat
    /\ status \in [Allocs -> {"none", "active", "other"}]
    /\ pinned \in [Allocs -> BOOLEAN]
    /\ quota \in [Allocs -> Nat \cup {Unlimited}]
    /\ usage \in [Allocs -> Nat]
    /\ cronLog \in BOOLEAN
    /\ op \in [Jobs -> {"idle", "reserved", "pool", "writing"}]
    /\ read \in [Jobs -> [cron : BOOLEAN, total : Nat, floor : Nat, reserved : Nat]]
    /\ \A r \in Jobs : DOMAIN plan[r] \subseteq Allocs
    /\ todo \in [Jobs -> SUBSET Allocs] /\ held \in [Jobs -> SUBSET Allocs]

-----------------------------------------------------------------------------
(* The computation.                                                        *)

\* coalesce(quota_tokens_per_month, 0)
Tokens(q) == IF q = Unlimited THEN 0 ELSE q

\* The row that gets what the rounding left over: the most use, then the
\* greatest id.
Target(use, pool) ==
    CHOOSE a \in pool : \A b \in pool : use[b] < use[a] \/ (use[b] = use[a] /\ b <= a)

\* Mutant: the leftover of the rounding is forgotten.
compute_rebalance_NoLeftover(c, use, pool) ==
    LET distributable == c.total - c.reserved
        bonus == distributable - c.floor * Cardinality(pool)
        sum == SumFunctionOnSet(use, pool)
    IN  [a \in pool |-> IF sum = 0 THEN distributable \div Cardinality(pool)
                        ELSE c.floor + (bonus * use[a]) \div sum]

\* An even spread while nobody has any use; then the floor for everybody and
\* the rest in proportion to the use.
compute_rebalance(c, use, pool) ==
    LET distributable == c.total - c.reserved
        bonus == distributable - c.floor * Cardinality(pool)
        sum == SumFunctionOnSet(use, pool)
        share == [a \in pool |-> IF sum = 0 THEN distributable \div Cardinality(pool)
                                 ELSE c.floor + (bonus * use[a]) \div sum]
    IN  [share EXCEPT ![Target(use, pool)] = @ + distributable - SumFunctionOnSet(share, pool)]

-----------------------------------------------------------------------------
(* A rebalance (apply_rebalance).                                          *)

\* The pool: active, neither service nor locked.
Eligible(a) == status[a] = "active" /\ ~ pinned[a]
Pool == {a \in Allocs : Eligible(a)}
Active == {a \in Allocs : status[a] = "active"}

\* What the active allocations of a set take of the total.
TokensOf(q, S) == SumFunctionOnSet([a \in Allocs |-> Tokens(q[a])], S)

\* Mutant: the sum over no row is NULL.
Reserved_Null(q) == IF Active = Pool THEN Unlimited ELSE TokensOf(q, Active \ Pool)

\* Mutant: pinned allocations that are not active count as well.
Reserved_AnyStatus(q) == TokensOf(q, {a \in Allocs : pinned[a]})

Reserved(q) == TokensOf(q, Active \ Pool)

\* What is in memory and the row locks are gone.
End(r) ==
    /\ op' = [op EXCEPT ![r] = "idle"]
    /\ read' = [read EXCEPT ![r] = NoRead]
    /\ plan' = [plan EXCEPT ![r] = NoPlan]
    /\ todo' = [todo EXCEPT ![r] = {}]
    /\ held' = [held EXCEPT ![r] = {}]

\* Everything the transaction wrote is undone.
Rollback(r) == End(r) /\ UNCHANGED <<config, rows, usage, cronLog>>

\* The configuration; a total of 0 disables the pool.
Begin(r, cron) ==
    /\ op[r] = "idle" /\ total # 0
    /\ op' = [op EXCEPT ![r] = "reserved"]
    /\ read' = [read EXCEPT ![r] = [cron |-> cron, total |-> total, floor |-> floor,
                                    reserved |-> 0]]
    /\ UNCHANGED <<config, rows, usage, cronLog, plan, todo, held>>

\* The quotas of the active pinned allocations.
ReadReserved(r) ==
    /\ op[r] = "reserved"
    /\ op' = [op EXCEPT ![r] = "pool"]
    /\ read' = [read EXCEPT ![r] = [cron |-> @.cron, total |-> @.total, floor |-> @.floor,
                                    reserved |-> Reserved(quota)]]
    /\ UNCHANGED <<config, rows, usage, cronLog, plan, todo, held>>

\* Enough for everybody's floor.
Sufficient(r) ==
    Pool # {} /\ read[r].total - read[r].reserved >= read[r].floor * Cardinality(Pool)

\* The pool with its use, and the new quotas.
ReadPool(r) ==
    /\ op[r] = "pool" /\ Sufficient(r)
    /\ op' = [op EXCEPT ![r] = "writing"]
    /\ plan' = [plan EXCEPT ![r] = compute_rebalance(read[r], usage, Pool)]
    /\ todo' = [todo EXCEPT ![r] = Pool]
    /\ UNCHANGED <<config, rows, usage, cronLog, read, held>>

\* An empty pool, or one whose pinned quotas leave too little: the session
\* commits the audit event and nothing else.
Refuse(r) == op[r] = "pool" /\ ~ Sufficient(r) /\ Rollback(r)

\* No other rebalance has updated row a without having ended.
RowFree(a, r) == \A s \in Jobs \ {r} : a \notin held[s]

\* Mutant: the rows are updated in any order.
UpdateRow_AnyOrder(r) ==
    /\ op[r] = "writing"
    /\ \E a \in todo[r] :
          /\ RowFree(a, r)
          /\ todo' = [todo EXCEPT ![r] = @ \ {a}]
          /\ held' = [held EXCEPT ![r] = IF Eligible(a) THEN @ \cup {a} ELSE @]
    /\ UNCHANGED <<config, rows, usage, cronLog, op, read, plan>>

\* Mutant: UPDATE ... WHERE id = ..., and nothing more.
UpdateRow_ById(r) ==
    /\ op[r] = "writing"
    /\ \E a \in todo[r] :
          /\ \A b \in todo[r] : a <= b
          /\ RowFree(a, r)
          /\ todo' = [todo EXCEPT ![r] = @ \ {a}]
          /\ held' = [held EXCEPT ![r] = @ \cup {a}]
    /\ UNCHANGED <<config, rows, usage, cronLog, op, read, plan>>

\* The next row by id, unless it is not in the pool any more.
UpdateRow(r) ==
    /\ op[r] = "writing"
    /\ \E a \in todo[r] :
          /\ \A b \in todo[r] : a <= b
          /\ RowFree(a, r)
          /\ todo' = [todo EXCEPT ![r] = @ \ {a}]
          /\ held' = [held EXCEPT ![r] = IF Eligible(a) THEN @ \cup {a} ELSE @]
    /\ UNCHANGED <<config, rows, usage, cronLog, op, read, plan>>

\* The total fits the columns of the log row.
Fits(r) == read[r].total <= MaxInt

\* Mutant: there is no unique index.
Duplicate_Never(r) == FALSE

\* The partial unique index over the periods of cron runs.
Duplicate(r) == read[r].cron /\ cronLog

\* The log row is inserted and the transaction commits.
Commit(r) ==
    /\ op[r] = "writing" /\ todo[r] = {} /\ Fits(r) /\ ~ Duplicate(r)
    /\ quota' = [a \in Allocs |-> IF a \in held[r] THEN plan[r][a] ELSE quota[a]]
    /\ cronLog' = (cronLog \/ read[r].cron)
    /\ End(r)
    /\ UNCHANGED <<config, status, pinned, usage>>

\* The unique index refuses the log row.
Skip(r) ==
    /\ op[r] = "writing" /\ todo[r] = {} /\ Fits(r) /\ Duplicate(r)
    /\ Rollback(r)

\* The process dies or the database refuses a statement, the log row of a total
\* that does not fit among them.
Fail(r) == op[r] # "idle" /\ Rollback(r)

-----------------------------------------------------------------------------
(* Around it: administrators and calls.                                    *)

\* A single-row UPDATE waits for a rebalance that holds the row.
Unheld(a) == \A r \in Jobs : a \notin held[r]

Patch(a, q, p) ==
    /\ status[a] # "none" /\ Unheld(a)
    /\ quota' = [quota EXCEPT ![a] = q]
    /\ pinned' = [pinned EXCEPT ![a] = p]
    /\ UNCHANGED <<config, status, usage, cronLog, job>>

SetStatus(a, s) ==
    /\ status[a] # "none" /\ Unheld(a)
    /\ status' = [status EXCEPT ![a] = s]
    /\ UNCHANGED <<config, pinned, quota, usage, cronLog, job>>

Create(a, q) ==
    /\ status[a] = "none"
    /\ status' = [status EXCEPT ![a] = "active"]
    /\ quota' = [quota EXCEPT ![a] = q]
    /\ UNCHANGED <<config, pinned, usage, cronLog, job>>

\* The total must cover the floors of the pool as it is now.
UpdateConfig(t, f) ==
    /\ t >= f * Cardinality(Pool)
    /\ total' = t /\ floor' = f
    /\ UNCHANGED <<rows, usage, cronLog, job>>

\* A call that started in the period is recorded, before its end or late.
Accrue(a) ==
    /\ usage[a] < MaxUsage
    /\ usage' = [usage EXCEPT ![a] = @ + 1]
    /\ UNCHANGED <<config, rows, cronLog, job>>

-----------------------------------------------------------------------------
Init ==
    /\ total = 0 /\ floor \in Floors
    /\ status \in [Allocs -> {"none", "active"}]
    /\ pinned = [a \in Allocs |-> FALSE]
    /\ quota = [a \in Allocs |-> Unlimited]
    /\ usage = [a \in Allocs |-> 0]
    /\ cronLog = FALSE
    /\ op = [r \in Jobs |-> "idle"]
    /\ read = [r \in Jobs |-> NoRead]
    /\ plan = [r \in Jobs |-> NoPlan]
    /\ todo = [r \in Jobs |-> {}]
    /\ held = [r \in Jobs |-> {}]

Progress(r) ==
    \/ ReadReserved(r) \/ ReadPool(r) \/ Refuse(r) \/ UpdateRow(r)
    \/ Commit(r) \/ Skip(r)

Administer ==
    \/ \E a \in Allocs : \E q \in Quotas \cup {Unlimited, quota[a]}, p \in BOOLEAN : Patch(a, q, p)
    \/ \E a \in Allocs, s \in {"active", "other"} : SetStatus(a, s)
    \/ \E a \in Allocs, q \in Quotas \cup {Unlimited} : Create(a, q)
    \/ \E t \in Totals, f \in Floors : UpdateConfig(t, f)

Next ==
    \/ \E r \in Jobs : Progress(r) \/ Fail(r) \/ \E cron \in BOOLEAN : Begin(r, cron)
    \/ Administer
    \/ \E a \in Allocs : Accrue(a)

Spec == Init /\ [][Next]_vars

-----------------------------------------------------------------------------
(* Properties.                                                             *)

Ends(r) == op[r] = "writing" /\ op'[r] = "idle"

\* Whatever the statements of a rebalance read, the quotas it computes use up
\* the total exactly, leave nobody below the floor, and never give less to an
\* allocation that was used more (compute_rebalance).
SharesSound ==
    [][\A r \in Jobs : op[r] = "pool" /\ op'[r] = "writing" =>
          LET new == plan'[r]
          IN  /\ SumFunctionOnSet(new, DOMAIN new) + read[r].reserved = read[r].total
              /\ \A a \in DOMAIN new : new[a] >= read[r].floor
              /\ \A a, b \in DOMAIN new : usage[a] > usage[b] => new[a] >= new[b]]_vars

\* A rebalance that updated every row of the pool it read, and neither the pool
\* nor what is reserved is another by the time it commits, leaves quotas that
\* add up to its total over all active allocations, whatever else ran in
\* between (apply_rebalance).
ConservedWhenCurrent ==
    [][\A r \in Jobs :
          /\ Ends(r) /\ quota' # quota
          /\ held[r] = Pool /\ DOMAIN plan[r] = Pool
          /\ Reserved(quota) = read[r].reserved
          => TokensOf(quota', Active) = read[r].total]_vars

\* A rebalance never changes the quota of an allocation that is pinned or not
\* active by the time it commits, whatever it was when the pool was read.
PinnedUntouched ==
    [][\A r \in Jobs : Ends(r) =>
          \A a \in Allocs : ~ Eligible(a) => quota'[a] = quota[a]]_vars

\* Cron redistributes once in a period, however often the job is started, and
\* whatever it finds: the second time changes no quota.
OneCronRun ==
    [][\A r \in Jobs : Ends(r) /\ read[r].cron /\ cronLog
          => quota' = quota]_vars

\* The row a rebalance updates next is held by another one.
WaitsFor(r, s) ==
    /\ r # s /\ op[r] = "writing" /\ op[s] = "writing"
    /\ \E a \in todo[r] : (\A b \in todo[r] : a <= b) /\ a \in held[s]

\* Two rebalances never wait for each other's rows: every one updates its rows
\* in the order of their ids.
NoCircle == \A r, s \in Jobs : ~ (WaitsFor(r, s) /\ WaitsFor(s, r))
=============================================================================
