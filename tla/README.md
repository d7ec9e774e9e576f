# A verification project for AI API Manager

The repository is a gateway: members of an organisation call many AI providers
through one OpenAI-compatible API, with keys that are scoped to *allocations*
(a member's grant of one model, with monthly quotas), and every call is metered
and charged to its allocation. The back end is FastAPI with SQLAlchemy on
PostgreSQL (`src/src/ai_api`); several processes and coroutines share nothing
but the database. What can go wrong is mostly what happens *between* a read and
the write that relies on it, and this project is about that.

The modules here are TLA+ models translated from the source. TLC checks them on
small instances, and TLAPS proves the most important properties for every value
of the constants. `PROJECT.json` lists the components, the runs, the hazards
with their source lines, the theorems, and for every definition that models code
the lines it models.

## 1. Inventory

Paths are relative to `src/src/ai_api`.

| Component | State it keeps | Operations | What makes it hard |
| --- | --- | --- | --- |
| Allocation lifecycle (`services/allocations.py`, `self_service.py`, `anomaly.py`) | `allocations` (status, origin, revoked_at, service flag), `self_service_reclaim_locks`, `anomaly_config` | create, claim, pause, resume, unquarantine, revoke, unlock, the detector's scan, deletion of the member | every handler reads, decides in Python and writes at commit; nothing repeats the condition in the UPDATE |
| Application keys (`services/allocations.py`, `credentials.py`) | `credentials` (fingerprint, revoked_at), `credential_allocations` | issue, patch the scope, rotate, revoke; cascades from members and allocations | unique indexes and foreign keys decide races; scopes are changed row by row |
| Call path and metering (`proxy/preflight.py`, `router.py`, `responses.py`, `engine.py`, `services/quota.py`, `records.py`) | `call_records`; the sums over them; per-call memory | pre-flight checks, upstream call, retry without a rejected parameter, streaming, recording | quota check and record are far apart; streams outlive their request session; clients disconnect; months end |
| Quota pool (`services/quota_pool.py`, `cli/run_rebalance.py`) | `pool_config`, `rebalance_log`, the quotas | monthly and manual redistribution, configuration | several reads, many UPDATEs, one conservation law; a cron job that may run twice |
| Device and OAuth grants (`services/device_flow.py`, `oauth.py`, `auth/invitations.py`) | one row per grant, its single-use secret | authorize, approve, deny, poll, exchange, expire | single use is a read followed by a write |
| Realtime relay (`proxy/realtime.py`) | one connection in memory | two forwarding coroutines, revocation and cost watch, one record | which of several endings wins; several connections under one cap |
| Members and sessions (`services/members.py`, `api/admin_members.py`, `auth/`) | `members`, `sessions`, access rules and whitelist | register, sign in and out, disable, promote, demote, bulk actions, deletion | "the last administrator" is a count; disabling races with signing in |
| Sign-in throttling (`auth/ratelimit.py`) | `password_attempts` | count, record, lock by identifier and by source | counting and recording are apart; anybody can cause a lock |
| Provider credentials | encrypted keys, last_used_at | round robin, add, rotate, disable | bookkeeping in a transaction of its own |
| Notifications (`notifier_hook.py`, `notifier_email.py`, `notifications.py`) | settings, records, deduplication windows | fire-and-forget tasks, saving and testing the settings, burst detector, cleanup | tasks outlive or precede the transaction that caused them; a test talks to the mail server between its read and its write |
| Tags and access rules (`tag_rules.py`, `member_tags.py`, `model_access.py`) | ordered rules, tags of members, a model's policy | number and reorder rules, tag, restrict, decide on a call | order is a column without a constraint; a verdict is three reads |
| Catalog and prices (`api/admin_catalog.py`, `services/responses_support.py`, `litellm_registry.py`, `cli/load_models.py`) | a row per model with its markers and `litellm_sync`; price versions | create, edit, adopt from litellm, test, override, load | two of the handlers wait for another server between their read and their write, and lists and provenance are written as a whole |
| Stored responses | a row per stored response | insert, read, expire | little: one read or one write each |
| Upstream adapters, start-up, installers, web interface | none, or none that the server depends on | | |

How they interact: the call path reads the allocation and the key that the first
two components write, reads quotas that administrators and the quota pool write,
and writes the records the quota checks, the quota pool and the detector read.
Deleting a member removes its allocations and keys under all of them. The
components share no memory; every interaction is through the database, and all
transactions run at READ COMMITTED, PostgreSQL's default.

What makes each correct: the lifecycle must not resurrect what was revoked nor
lose a reclaim lock; a key must reach only its member's allocations, one per
model, and no dead token may come back; a call must be charged once, to the
right month, and quotas must bound what is charged; the pool must conserve its
total; a single-use secret must be used once; somebody must remain
administrator; who is disabled must be out; a lock must hold back whoever
failed, and end; a connection must be billed for all it carried; the
administrators must hear of an event once, by settings that were tested; rules
must have an order, and only who may see a model may call it, as long as the
catalogue lists it (who holds an allocation of a deleted model may go on calling
it); what an administrator decided about a model must outlast its tests and adoptions.

Several of these the code promises only as long as requests do not overlap. The
modules say so with *history variables* that record an overlap (`raced`,
`mixed`, `tangled`, `met`, `guarded`, `mingled`), and the property then names exactly the
schedules under which the promise is kept: it fails if anything but the overlap
breaks it.

## 2. How transactions are modelled

A handler is a transaction: a *Begin* action holds its reads, its early returns
and its guard; a *Commit* action holds all its writes; other sessions act in
between. This is READ COMMITTED as the code uses it: SQLAlchemy remembers what
it read, changes columns in memory and emits UPDATEs by primary key at flush,
without repeating the condition. Where the code flushes and then reads again
inside the transaction (`revoke` before `_lock_reclaim`, the record of a call
before its commit) the flush is an action of its own and holds the row. Row locks
taken by other flushes only delay the others until the commit, so the writes of
those handlers are placed at the commit.

A duplicate key, a broken foreign key and an UPDATE that finds no row
(`StaleDataError`) abort the whole transaction (`Abort`), as `get_db_session`
rolls back on any exception. Other database errors are aborts as well.

## 3. Modules

### AllocationLifecycle over AllocationRows (with MCAllocationLifecycle, AllocationLifecycleProofs)

State: the columns of `members`, `allocations` and the reclaim locks that the
handlers decide by, `open` (models with self-service on), `enforcing` (what
`AnomalyConfig.effective_enforcing` says), one transaction per session `txn`,
and the history variable `released`, the allocations whose lock an administrator
has removed.

| Actions | Code |
| --- | --- |
| `BeginStatusOp`, `CommitStatusOp` | `pause`, `resume`, `unquarantine`, from the admin API, from `/me`, or as one item of the bulk action (each item is its own transaction) |
| `BeginRevoke`, `FlushRevoke`, `CommitRevoke` | `revoke`: the UPDATE is flushed, then `_lock_reclaim` looks for a lock, then the commit inserts one |
| `BeginClaim`, `BeginCreate`, `CommitCreate` | `claim` with its eligibility checks, `create_allocation`, bulk allocation |
| `BeginScan`, `CommitScan` | `detect_and_quarantine`: the snapshot and the flagged rows. The cron job's `concurrencyPolicy: Forbid` keeps scans apart; the model does not rely on it |
| `BeginDelete`, `CommitDelete` | `MemberService.delete`: ids first, deletes afterwards; the foreign key of `allocations.member_id` refuses if something was added |
| `Unlock`, `PatchService`, `PatchSelfService`, `UpdateAnomalyConfig`, `UpdateMember` | the administrators' single-statement changes |

Left to a free choice: whether the detector flags an allocation (it flags at
least one in a scan that commits) and whether a member may see a model. Not
modelled: allocations made for a subject without a member, which create the
member in the same transaction.

`AllocationRows` is what the other components may assume of the allocations
table: `Insert`, `Move` (between active and blocked), `Remove` (a member and all
its rows, for good). The handlers implement it (`RowsSpec`, with `Row` and `Gone`
as the mapping); `AppCredentials` sees the same table, and the environment of
`CallAccounting` covers what happens to one row of it (section 5).

### AppCredentials (with MCAppCredentials, AppCredentialsProofs)

State: which allocations exist and are active, the keys with their token and the
rows of `credential_allocations`, the history `issued` of all tokens, one
transaction per session. Actions: `BeginIssue`/`CommitIssue`
(`create_member_credential`), `BeginPatch`/`CommitPatch` (`update_scope`),
`BeginRotate`, `BeginRotateAllocation`/`CommitRotate`, `BeginRevokeKey`/
`CommitRevokeKey`, `CreateAllocation` (an allocation with its default key),
`SetAllocationStatus`, `DeleteMember` (keys and scopes CASCADE, so it is one
step here; AllocationLifecycle has its two halves). `Conflict` is the unique
index on (credential, model) with the order in which the unit of work emits its
INSERTs and DELETEs; by that order a patch that swaps an allocation for another
of the same model passes every check of `update_scope` and is rolled back.

### CallAccounting over CallLedger (with MCCallAccounting, CallAccountingProofs)

`CallLedger` is the abstract promise: a request starts in a month and settles at
most once, charging at most `MaxUse` of each limited quantity to that month.
`CallAccounting` is the gateway for one allocation: `phase` is where each
handler's coroutine is between two awaits. Three kinds of calls share it:

* *plain*: `run_endpoint`, and chat and responses without streaming. The record
  is flushed by the handler on the request's session and committed by
  `get_db_session` (`Answer`, `Flush`, `Commit`).
* *chat* and *responses* streams: recorded in a session of their own as soon as
  usage is reported (`ReportUsage`, `Save`), or by the generator's last clause
  (`CloseStream`); every exception is swallowed (`SaveFails`), and `persisted`
  is set in either case (`saved`).

Refusals record as well (`Refuse`, and `RefuseUnknown` for those without an
allocation). `Fail` is a rollback, or a client that is gone before its stream's
generator starts. `SetQuota`, `SetStatus`, `Delete` and `Tick` (the calendar)
surround the calls. The limits are read with the allocation (`Authorize`), the
sums later (`CheckQuota`): both are actions.

Amounts are abstract: `use[c]` is what the call is billed of each limit, 0 where
the code stores NULL (unreported or unpriced), because the sums coalesce. An
allocation without quotas is never refused and has no bound to check, so the
model has quotas on all limits. Realtime connections are not in this module.

Two details met while reading, neither of them against a statement of the
documents: a chat stream that raises midway is recorded as a success without
usage while a responses stream is recorded as `upstream_error`; and a chat
stream is billed by its *first* usage chunk, although a comment in `router.py`
speaks of the final one.

### QuotaPool (with MCQuotaPool, LimitsProofs)

State: the configuration (`total`, `floor`), the allocations' `status`, `pinned`
(service or locked; nothing in the code sets `quota_locked`, operators do) and
`quota`, their `usage` by month, the periods with a log row of a cron run
(`cronLog`), and per session what a rebalance has read and computed (`read`,
`plan`), the rows it has yet to update (`todo`) and those it holds (`held`).

| Actions | Code |
| --- | --- |
| `Begin`, `ReadReserved`, `ReadPool`, `Refuse` | the statements of `apply_rebalance` up to the computation, and its refusals; `compute_rebalance` is the operator of that name |
| `UpdateRow` | one UPDATE of the loop, in the order of the ids, with its WHERE |
| `Commit`, `Skip`, `Fail` | the log row: inserted, or refused by the unique index; and every other error, a total that does not fit the log's columns among them |
| `Patch`, `SetStatus`, `Create`, `UpdateConfig` | single-row changes by administrators; they wait for a rebalance that holds the row |
| `Accrue` | calls recorded in the month the shares are computed from |

`held` rows get their planned quota at the commit, which is when others see it.
Shares are exact integer divisions: the code divides as floating point numbers,
which agrees below 2^53.

Three things met while reading. The sum of the quotas is checked in memory,
before the writes (`_assert_conservation`), so an allocation that is created,
paused or pinned between the statements of a rebalance leaves other quotas in
the database than `specs/006-quota-pool/spec.md` FR-008 promises;
`ConservedWhenCurrent` says when the two agree. `T_before` and `T_after` of the
log are 32-bit columns under a 64-bit total, so a total above 2147483647 makes
every rebalance fail at its log row (`Fits`). And on SQLite the unique index
covers manual runs as well, so the second manual rebalance of a month is taken
for a repeated cron run; the model has PostgreSQL's index.

### OneTimeGrants (with MCOneTimeGrants, OneTimeGrantsProofs)

One `row` per device authorization, OAuth authorization or invitation, all with
the same shape: a status, the member it belongs to, the scope chosen, the OAuth
code, the encrypted token that waits for delivery, the key minted. `secret` says
what each key (or the session of an invitation) was minted from, `handed` how
many responses carried it.

| Actions | Code |
| --- | --- |
| `Authorize`, `CreateConsent`, `Invite`, `UpdateConfig` | `DeviceFlowService.authorize`, `OAuthService.create_authorization` with the redirect allow-list, `invitations.create` |
| `BeginDeviceApprove`, `CommitDeviceApprove`, `BeginOAuthApprove`, `CommitOAuthApprove` | `approve`: the device request mints its key now, the consent only a code |
| `BeginDeny`/`CommitDeny`, `Lapse`, `BeginExpire`/`CommitExpire` | `deny`; the clock; the lazy expiry of a request that finds the row overdue |
| `BeginDeliver`/`CommitDeliver`, `BeginExchange`/`CommitExchange`, `BeginAccept`/`CommitAccept` | the poll that hands the token out and clears it, `exchange`, `consume` with the password and the session |
| `DeleteMember`, `Abort` | the member and its rows go; rollback |

No read takes a lock, so two requests on one grant can both find it unspent:
two polls both return the token, two exchanges of one code mint two keys, two
acceptances both set a password. `SerialExactlyOnce` gives the promise of
`device_flow.py:3` its true precondition, `raced` being the grants that met such
an overlap.

### RealtimeRelay (with MCRealtimeRelay, RealtimeRelayProofs)

One record `conn[c]` per connection: phase, the reason so far, what the client
was told, audio, rate, and the `seen` state of the watch. The steps are those
between two awaits: frames (`ClientFrame`), a forwarding task that ends
(`UpEnds`, `DownEnds`), the watch (`WatchWakes`, `StatusRead`, `CostRead`,
`ReadFails`), and the handler (`HangUp`, `Teardown`, `Bill`, `BillFails`).
Connections meet only in the allocation's status and in the month's cost, which
`SetStatus`, `SetCap` and `OtherCall` change at any time, so one connection with
that environment has every behaviour of many. A `session.update` in the middle of
a connection changes the rate at which *all* its audio is billed; the record is
about bytes for this reason. A handler that is cancelled from outside, or dies
with its process, writes no record, and is not modelled.

### MemberAccess (with MCMemberAccess, AdministrationProofs)

`member[m]` is the status, `admin` the administrators, `sess` the sign-in
sessions, `rules` and `whitelist` the access policy. A bulk change is a `job` of
one transaction per member over a snapshot of the active administrators that it
counts down.

| Actions | Code |
| --- | --- |
| `BeginPatch`, `CommitPatch`, `BeginDelete`, `CommitDelete` | `PATCH` and `DELETE` of a member, with the last-administrator guard where the code has it |
| `StartBulk`, `SkipItem`, `NothingToDo`, `BeginItem`, `CommitItem`, `BeginDeleteItem` | the three bulk handlers of `admin_members.py` |
| `BeginLogin`, `BeginCallback`, `BeginRegister`, `CommitSignIn`, `CommitRegister`, `AcceptInvitation`, `Logout`, `Lapse`, `RevokeSessions` | sign-in by password or Google, registration by Google, invitations, the end of sessions |
| `CreateMember`, `CreateLine`, `Provision`, `EditWhitelist`, `EditRules`, `EditPolicy` | single and bulk creation, the bootstrap command, the access rules |

A request that would change nothing is not begun, and the whitelist concerns
Google identifiers only. Two things met while reading. `PATCH` with
`status: disabled` has no last-administrator guard at all, although
`specs/039` (SC-005, `spec.md:121`) wants the console never to lose its last
administrator. And accepting an invitation opens a session without a look at the
member's status, so a disabled member may still get one that way.

### SignInThrottle (with MCSignInThrottle, LimitsProofs)

Ages instead of clock times: `Tick` makes every row older, those in flight
too, and rows older than the window or the lock are as good as gone. A sign-in
(`MarkIp`, `MarkEmail`, `Fail` and their commits) checks the source's lock and
failures, then the identifier's, then the password, and writes one row: a
failure or a lock marker. Successes write a row that counts nowhere and change no
count. `EditSources` admits or bars a source. An unknown identifier is
not told apart from a wrong password.

### Notifications (with MCNotifications, AdministrationProofs)

Events of one type. `Emit` flushes the audit row and spawns the task before the
request's commit (`EndAudit`), so a task may work on an event that is rolled
back: its record then breaks its foreign key and the task's transaction with it
(`Persisted`). A task skips, finds the password unreadable (`FailToRead`,
`MarkInvalid`), joins an open window under its row lock (`Join`, `Suppress`), or
sends and opens one (`Open`, `Finish`). `BeginSave`/`CommitSave` and `BeginTest`/
`CommitTest` are the settings; what a commit writes are the columns that differ
from what the request read (`Written`). The last flush of `notify` both inserts the
record and points the window at it; the mapped classes declare the foreign key
but no `relationship`, which leaves the order of the two statements to
SQLAlchemy's unit of work. With the window first, PostgreSQL refuses it and the
whole transaction is rolled back after the mail is out (`FinishFails`); the
repository's tests of the window run on SQLite, which does not check. The model
has both outcomes. `WindowEnds` stands for the clock,
`Restart` for a new process, perhaps with another key: the tasks in memory die
and their transactions roll back.

Left open: whether notifications are switched on and who receives them, so a
task may skip at any time. Not modelled: the burst detector, the cleanup after
thirty days, the history. Two facts worth knowing: a notification whose sending
*failed* suppresses those behind it just as a sent one, and those are then never
sent; and nothing repeats what a restart loses.

### ModelAccess (with MCModelAccess, AdministrationProofs)

Tag rules with their `order_index`, the members' tags, the policy of one model
(open or restricted, allowed and denied tags, or none when the model has no row)
and whether its provider has an active credential. `BeginCreate`/`CommitCreate`,
`BeginReorder`/`CommitReorder` and `BeginRegister`/`CommitRegister` are requests
in two steps; tags, policies, the model's row (`CreateModel`, `DeleteModel`; the
loader creates and patches as well) and the members (`DeleteMember`, with whose
row the tags go) change in one.

A check of a call (`BeginCheck`, `ReadMember`, `ReadProviders`, `ReadTags`), of a
page of the catalog (the same without `ReadMember`: the member was read with the
session) and of the list (`BeginCheck`, `ListTags`, `ListProviders`) read the
three parts in their own order; `Visible` is `evaluate_visibility`, what the
administrators are shown, and `access_policy_allows` what the call is decided
by. `run_preflight` checks only what it finds: without a row of the model, or of
the member, the call is let in with neither policy, credentials nor tags looked
at (`preflight.py:186`, `preflight.py:188`); `AdmittedWasVisible` excepts exactly
those calls (`Unchecked`), and fails if any other goes unchecked. What follows,
the choice of a credential to call with, can only refuse (`Leave`). The
credential's own life (rotation, round robin) and the in-memory names of unused
tags are not in this module.

### ModelCatalog (with MCModelCatalog, ModelCatalogProofs)

One row of `model_catalog` with the three columns that its handlers race for:
`capabilities` (the syncable list, the markers in it that say whether the
responses endpoint is available, and whether the markers stand where the handlers
put them), `context_window`, which stands for the other syncable fields, and
`litellm_sync` (the source of every field and the snapshot it was taken from).
The history `decided` is the override that should still stand, `mingled` whether
the row was written from an outdated copy, or by the loader over a row with
sources.

| Actions | Code |
| --- | --- |
| `Create`, `DeleteModel` | `admin_create_model` with `_build_litellm_sync`, `admin_delete_model` |
| `Begin`, then `Update` | `admin_update_model`: typed fields become manual |
| `Begin`, then `Apply` | `admin_litellm_apply`: the registry is fetched between the read and the write; `preserve_into` carries the markers over |
| `Begin`, then `Test` | `admin_test_responses`: the upstream is called in between; a passing test marks the model unless it is blocked |
| `Begin`, then `SetSupport` | `admin_set_responses_support` |
| `Begin`, then `Load` | `load_models` over a row that exists |
| `Abort` | an upstream that refuses, an unknown key, a row that is gone, a rollback |

`Commit` writes a column only if the handler's value differs from its copy, as
SQLAlchemy does: an override that equals its stale copy therefore writes
nothing, and does not decide. A borrowed source is a litellm source under
another key. `fresh` is whether the registry's entry differs from the raw copy
kept beside the sources, which makes `litellm_sync` differ as well. Prices, the
other columns and the checks of a payload's shape are left out.
## 4. Runs

| Run | Question | Instance | Size |
| --- | --- | --- | --- |
| Lifecycle | the allocation invariants, that revocation settles, refinement of AllocationRows | 2 sessions, 1 member, 1 model, 2 allocations | 2.0 M states |
| Scopes | are scopes owned and unambiguous, are revocation and rotation final? | 2 sessions, 3 keys, 3 tokens, 3 allocations of 2 models | 261 k |
| Accounting | overshoot, exactly one record, blocking, refinement of CallLedger | 2 calls, 2 months, 1 limit, quotas 1 and 2, 1 optional parameter | 1.2 M |
| Pool | do concurrent rebalances wait in a circle, touch pinned rows, compute sound shares, conserve the total, run once a period? | 2 rebalances, 2 allocations used or not, total 3 | 1.6 M |
| Grants | is a grant used once, does its key match its code, are its columns coherent, does spent stay spent? | 2 sessions, one grant of each kind, 2 keys, 2 codes, 2 allocations of 1 member | 938 k |
| Relay | do record, close code and reason agree and name no revocation that never was, is all audio billed, does a condemned connection end? | 1 connection, caps 1 and 3, rates 1 and 2, 4 bytes | 70 k |
| Members | does an administrator remain, is a disabled member out? | 2 members (local, Google), 1 session, the bootstrap token, a single request and a bulk change | 799 k |
| Throttle | how many failures pass, whom do locks hit, do they end? | 2 identifiers (one disabled), 2 sources, 2 sign-ins, thresholds 3 and 2, window 2, lock 3 | 170 k |
| Notices | one window at a time, counts, "verified" | 3 events, 2 requests | 1.2 M |
| Access | are rules ordered, was the admitted visible? | 3 rules, 2 requests, 1 member, 1 tag | 257 k |
| Catalog | does an override outlast tests, adoptions and edits, is the recorded source of a field true? | 2 requests, 2 values | 755 k |
| RevokedIsTerminal | *violated*: a racing pause or scan overwrites a revocation | as Lifecycle | - |

Why the bounds suffice: the hazards are races of a reader and a writer of the
same rows, and two sessions over two rows that compete for one key produce every
order of two transactions; a third row is there where two are not enough: a
scope that changes by more than one allocation, a rule created between two that
are being reordered, an event that joins a window while two tasks opened one.
Two months are needed for a call to be checked in another month than it is
charged to, and two calls for one to be admitted on a sum the other is about to
raise; the optional parameter makes the retry loop run. In the pool, two
allocations are enough for two rebalances to take rows in opposite orders and
for a remainder to go to either row. In the relay, cap and audio are such that
a connection passes the cap by itself, by others, or not at all. In the
throttle, a window shorter than the lock and thresholds above and at the number
of concurrent sign-ins show both an overshoot and a lock that outlives its
failures. The proofs remove the bounds for everything they cover.

Constraints: `Scopes` restricts allocations to active ones (`AllActive`),
because their status only matters to `rotate_token`. `Accounting` looks at a call
with a parameter to reject while no other is served (`RetriesAlone`): the retry
touches nothing but that call. `Pool` has at most one cron run at a time, as the
cron job's `concurrencyPolicy: Forbid` keeps them apart (repeated ones follow
each other), and not both allocations pinned or both inactive (`Usual`).
`Members` never has a rule and a whitelist entry at once (`OneRoute`): either
admits alone. `Access` keeps requests on
rules apart from checks (`Apart`): they have nothing in common but the member's
tags, which change freely in both. `Catalog` looks at the markers of a row
without sources and at the sources of one without markers (`Apart`): a marker is
no part of any source. The proofs do without any of these constraints. Several
runs go without deadlock check, and
say so in their configuration: keys, tokens, codes, sessions and events are
finite pools that a behaviour may use up. Symmetry is used for interchangeable
sessions and rows, never in a run with a liveness property.

The types of every module are proved for every instance (section 5), as are the
consistency of sessions and the uniqueness of tokens. The runs of
AllocationLifecycle, AppCredentials, CallAccounting, RealtimeRelay,
SignInThrottle, ModelAccess and ModelCatalog do not repeat `TypeOK`; the others check it.

Every property of a passing run has a mutant in its module (`Name_Variant`, with
a comment that says what the bug is): a dropped guard, a missing foreign key, a
record dated when it is written, rows updated in any order. With the mutant in
the place of the definition, TLC finds the property violated.

### Fairness

`Relay` assumes weak fairness of the watch's timer and of the handler's own
steps, which the event loop takes whatever the peers do, and strong fairness of
the two queries of the watch: a query may fail any number of times, but one that
is tried at every interval is answered some time. `Throttle` assumes that time
passes, and nothing else. Nothing is assumed of clients, upstreams,
administrators or the calendar in any run.

### Disagreements

The violated run is a disagreement between the code and its own documents,
quoted in `PROJECT.json`:

* `RevokedIsTerminal`: a revoked allocation can become active or paused again,
  because the UPDATE of pause, resume, unquarantine and quarantine does not
  repeat the condition its guard read. `RevokedSettles` shows how far it goes: once
  those transactions have ended, the revocation is final.

Others were met while modelling and need no model checker to be seen:

* Claiming counts *active* self-service allocations only (`self_service.py:112`),
  so claim, pause, claim, resume gives two active ones of one model, against
  `specs/015-self-service-allocation/spec.md:91`.
* `specs/004-usage-billing/plan.md:40` says that a quota is exceeded by one
  request; it is one per call in flight (`OvershootBounded`).
* The usage of a responses stream that its client cuts before the report is
  recorded as none (`responses.py:459`), against
  `specs/021-responses-api/spec.md:165`.
* Single use of device tokens, OAuth codes and invitations holds for requests
  that do not overlap (`SerialExactlyOnce`); the last administrator is kept under
  the same condition (`LastAdminKept`), and not at all against `PATCH` with
  `status: disabled`.
* `update_scope` counts the allocations that stay by its own read, so two
  patches that each remove one of the last two leave a live key without any,
  although `services/allocations.py:484` says that at least one remains.
* A test or an adoption that read a model before an administrator blocked its
  responses endpoint writes its old list back and lifts the block, although
  `admin_catalog.py:665` says that the block wins and `specs/035` (FR-006) that
  adoptions leave it alone; `DecisionStands` covers all other orders. And a
  passing test after a manual "available" replaces the source `manual` by
  `tested`, against the sense of FR-004 there.
* The loader rewrites values and markers without touching the sources, and an
  edit that overlaps an adoption can leave a manual value labelled litellm's,
  against `specs/033` FR-003 and FR-004 (`ProvenanceTrue` says when the labels
  are true).
* Deleting a model from the catalogue takes nothing from those who hold an
  allocation of it: their calls go on, without the policy that restricted them
  (`preflight.py:186`). `admin_catalog.py:291` lists those allocations so that an
  administrator "sees what will break if model is deleted".
* An adopted price is appended without its unit (`admin_catalog.py:559`), while
  a created model keeps it: adopting the price of a model billed by the page
  would make it billed by the token.


## 5. Proofs

All theorems but one are of the form `Spec => ...` (the exception,
`MeteredThroughEveryChange`, is about single steps), for any sets of members, models,
allocations, keys, tokens, grants and sessions. They rest on the named assumptions of
the modules only, all of them about constants and evaluated by TLC in the runs:

* owners, models, kinds and providers are functions of the ids;
* `MaxUse`, rates, windows, durations and thresholds are positive numbers, and a
  lock lasts longer than the window it guards; quotas are numbers; the ids of the
  allocations in the pool are ordered (numbers);
* `None` is none of the values it stands beside, and the bootstrap tokens are no
  members;
* `Calls` is finite and not empty, and finite are the requests, the allocations
  of the pool, identifiers and sources, members, events and rules, wherever the
  code counts them (an unbounded set of requests would have no count);
* rules number no more than orders within the bound `MaxOrder` of the model.

A module of proofs covers one component, or several that share a kind of
argument: `LimitsProofs` those about sums, `AdministrationProofs` those of the
administration. Such a module extends one component and takes the others as
instances. An assumption of an instance is no fact in the module that
instantiates it, so it is repeated there as a definition (`Configured` for
SignInThrottle, `Registry` for MemberAccess, `Catalogued` for ModelAccess), and
the theorems have the form `ASSUME Registry PROVE Spec => ...`: the same
condition, at another place.

* **AllocationLifecycleProofs.** The invariant is `IInv`: types,
  `NeverRevokedBeforeInsert` (a row that does not exist is not marked revoked),
  `InFlightOK`, `LockedUntilReleased`, `DeletedLeavesNothing`. `InFlightOK` is
  what makes it inductive: a commit happens long after the reads that justify
  it, so the invariant must say what a session in flight may still rely on: that
  its new ids are nobody else's, that the rows it will UPDATE exist, and that
  a revocation which found a lock still has it unless an administrator removed
  it. Theorems: `TypeCorrect`, `RevocationLocks`, `DeletionIsComplete`,
  `SessionsConsistent`, and the action property `SettledStaysRevoked`.
  `ImplementsRows` is the refinement of `AllocationRows`: each commit is one step
  of the table, each read a stutter. It rests on `IInv` (an inserted id was
  nobody's, a flushed row exists, a deletion holds all rows of its member) and on
  `OneNew`, that a transaction inserts one allocation.
* **AppCredentialsProofs.** `IInv` adds to the properties what sessions hold
  (`SessionsOK`) and that every token in the table or in flight has been issued
  (`TokensOK`), without which a fresh token could collide. Theorems:
  `TypeCorrect`, `ScopesAreOwned`, `ScopesAreUnambiguous`, `TokensAreUnique`,
  `RevokedKeysStayRevoked`, and for a dead token (issued, resolving to nothing,
  held by no transaction) `TokensStayDead`, that no step makes it anything else,
  not even a token in flight, and from it `TokensDieForGood`, that it never
  resolves again. `ScopesOverTheTable` proves that
  the allocations keys are scoped to form an `AllocationRows` too: the handlers
  see no more of the table than AllocationLifecycle does to it.
* **CallAccountingProofs.** `OvershootBounded` is not inductive: it must count
  what may still be added. `Pending(m)` is the set of calls that can still add
  to month m: those past the quota check, and in a past month those that have
  yet to be checked, against a later month. The inductive form is
  `used[m] + MaxUse * |Pending(m)| < cap + MaxUse * Slack(m)`, where `Slack` is
  N in the current month and 2N later: when a month ends, calls that were not
  yet checked become pending for it, at most N of them. `SaneCall` adds per
  call: its month is not in the future, its limits are not above the highest
  quota, it bills nothing before it has an amount, and its records are exactly
  those its phase says. Theorems: `TypeCorrect`, `QuotaHolds`,
  `RecordsAreExact`, `BlockingStopsBilling` and `ImplementsLedger`, the
  refinement of `CallLedger`. `MeteredThroughEveryChange` composes the two
  specifications: whatever `AllocationRows` lets happen to a row, while no
  flushed record refers to it, is a step of `Administer`. With `ImplementsRows`,
  no lifecycle does to an allocation what metering was not proved under. (A
  flushed record makes the DELETE of the row wait, on its foreign key; the
  lifecycle, which has no call records, does not know of it.)
* **OneTimeGrantsProofs.** None of the properties is inductive, since a commit
  overwrites a row with what was read long before. `IInv` has five parts.
  `TxnsFit` and `SecretsApart` say what a request in flight carries that nobody
  can take back: its row exists, the code it redeems was issued for the scope it
  mints, and no other request mints its secret. `RowsFit`, `RowCoherent`,
  `KeyMatchesCode`, `UnmintedUnhanded` and `HandedBounded` are about the tables;
  the last bounds a secret's deliveries together with those in flight, which
  makes the type of the counter provable. `RacesSeen`, `StillCurrent` and
  `SerialGrants` are about grants that no two requests were on at once: a single
  request commits to the row it read. `SealedSpent` is what is over for good.
  Theorems: `TypeCorrect`, `KeysMatchCodes`, `RowsCoherent`,
  `ExactlyOnceSerially`, `SpentForGood`.
* **LimitsProofs**, first part: sums. The library's folds are recursive
  functions chosen by `CHOOSE`, and the library's induction theorems take an
  operator as a parameter, which no prover here can instantiate; instead a
  claim about sums that fails is refuted by a least subset
  (`LeastSubset`, from the well-foundedness of strict inclusion), and taking one
  element away gives a smaller one. From this: a sum takes one element more or
  less (`SumUnfolds`, `AdderAdds`), sums of numbers are numbers, equal terms give
  equal sums, and smaller terms smaller ones.
* **LimitsProofs**, QuotaPool: `Inv` is about the row locks alone, whatever
  `compute_rebalance` returns: a rebalance holds rows only while it writes, the
  rows it holds are active and not pinned (every update that could change that
  waits), and they are smaller than those it has yet to update. `SharesFair` is
  `compute_rebalance`: floors, proportional shares and leftovers add up to what
  was not reserved. `Amounts` adds the types and that the plan of a rebalance
  that writes has exactly that sum. Theorems: `PinnedKept`, `NoDeadlock` (each of
  two rebalances that waited for each other would hold a smaller row than it
  waits for), `TypeCorrect`, `SharesAreSound`, `TotalConserved`, `CronRunsOnce`.
* **LimitsProofs**, SignInThrottle: `ThrottleTypes`, whose point is that no lock
  counts for longer than a lock lasts, however late its row is committed;
  `LocksDoNotSpread`, by `Blamed` (every failure and every lock, stored or about
  to be stored, is somebody's who failed before); `FailuresStayBounded`, by
  `Counted`: the failures in the window *plus those in flight* stay below the
  threshold plus the number of sign-ins that can be in flight. Only the sum is
  inductive: a failure that is checked and one that is committed leave it alone.
* **AdministrationProofs**, Notifications: `Met` (windows open or being opened
  belong to tasks that met), `RecordsFit` (a record belongs to a task that is done
  and to a committed event), `LocksFit` (a task that joins a window alone holds
  its lock and its count is still good), `CountsAgree`, and `Untangled` (a request
  alone in flight never makes settings verified that were not tested). Theorems:
  `NoticesTypeCorrect`, `WindowsExclude`, `CountsAlwaysAgree`,
  `VerifiedMeansTested`.
* **AdministrationProofs**, MemberAccess: every step begins a transaction, ends
  one, moves a bulk job on, or does neither (`Kinds`, `Calmly`). `JobsFit` ties a
  transaction of a job to its list; `Spare`, under `Protected`, is what the guard
  of a request in flight still guarantees, and for a bulk change that its
  snapshot is of active administrators and never runs empty; `Clean`, under
  `Unmixed`, that a disabling in flight has seen all sessions and nobody who signs
  in is disabled. Theorems: `PeopleTypeCorrect`, `LastAdminStays`,
  `DisabledSignedOut`.
* **AdministrationProofs**, ModelAccess: `Sound`, under `Ordered`, says what the
  numbering in flight will leave: a new rule above all others, a reordering
  without ties even if a rule is deleted meanwhile. `Unseen` says what a check has
  read so far: as long as the member was not visible and at most one of policy,
  credentials and tags moved, what it holds never adds up to a verdict in the
  member's favour, and it has a policy to be held to; `CheckRead` lists the reads
  a step can be. Theorems: `ModelsTypeCorrect`, `FirstMatchWins`,
  `AdmittedWereVisible`.

* **RealtimeRelayProofs.** A connection's state is changed by its own tasks
  only, so `Local(c)` is inductive for one connection at a time: tasks run
  between the start of the relay and its teardown; a verdict ends the watch, so
  nothing overwrites it; a client that was told something else than the verdict
  that stands was told no verdict. `OwnStep` reduces every step of a task to its
  connection, and `UnitsCover` is the arithmetic of started units. Theorems:
  `TypeCorrect`, `RecordsAgree`, `AudioBilled`.
* **ModelCatalogProofs.** `Handles` says what every handler has in common: it
  commits a row that agrees with its snapshot if its copy did, and honours the
  decision. `HandlesKeeps` shows that this is enough, for a current copy and an
  outdated one alike; each handler is then shown to be such a commit. Theorems:
  `TypeCorrect`, `OverrideOutlasts`, `SourcesTrue`.

Every invariant and every safety action property that a passing run checks is
proved. Model-checked only are the two liveness properties (`Relay` and
`Throttle`): fairness and ENABLED are out of the prover's reach. The violated run
is a counterexample and needs no proof.

## 6. Not modelled

See the `note` of each component in `PROJECT.json`. Of the catalog, price
versions are appended and read by date, and listings only read; stored responses
are single reads or writes without an interleaving of their own; usage reports
only read; upstream adapters have no state; installers, start-up and the web
interface keep no state the server depends on. The credentials of
providers enter as "there is an active one": which of several equal keys a call
takes is a matter of load. Of the notifications, the detector of upstream
failures, the cleanup and the history are left out. Cryptography and token
formats are libraries': a token is a value that nobody guesses.

## 7. Plan

1. Composition: the key tables as the environment of `Authorize`, and the
   members of AllocationRows as those of MemberAccess.
2. The burst detector of upstream failures and the cleanup of notifications.
