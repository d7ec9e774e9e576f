--------------------------- MODULE AppCredentials ---------------------------
(***************************************************************************)
(* Application keys (credentials): the token each holds, the allocations   *)
(* in its scope, and the handlers that issue, rotate, re-scope and revoke  *)
(* keys, each a READ COMMITTED transaction of a Begin (reads and checks)   *)
(* and a Commit (writes) as in AllocationLifecycle.  What an allocation's  *)
(* status is, beyond active or not, is AllocationLifecycle's business.     *)
(***************************************************************************)
EXTENDS Naturals, FiniteSets

CONSTANTS
    Members, Models, Allocs,
    Owner,      \* allocations.member_id, immutable
    ModelOf,    \* allocations.resource_model, immutable
    Keys,       \* credentials.id, a pool of fresh ULIDs
    Holder,     \* credentials.member_id, immutable
    Tokens,     \* the random tokens generate_token may return
    Reqs,       \* concurrent database sessions
    NoToken, NoKey

ASSUME OwnerAssumption == Owner \in [Allocs -> Members]
ASSUME ModelOfAssumption == ModelOf \in [Allocs -> Models]
ASSUME HolderAssumption == Holder \in [Keys -> Members]
ASSUME NoneAssumption == NoToken \notin Tokens /\ NoKey \notin Keys

VARIABLES
    gone,       \* deleted members
    alloc,      \* each allocation's row: absent, active, blocked or deleted
    key,        \* each credential's row: absent, live, revoked or deleted
    token,      \* credentials.token_fingerprint
    links,      \* rows of credential_allocations: <<key, allocation>>
    issued,     \* tokens generated so far
    txn         \* the transaction each session has in flight

db == <<gone, alloc, key, token, links>>
vars == <<gone, alloc, key, token, links, issued, txn>>

Ops == {"idle", "issue", "patch", "rotate", "revoke"}
Txn == [op : Ops, key : Keys \cup {NoKey}, add : SUBSET Allocs, drop : SUBSET Allocs,
        seen : SUBSET Allocs, tok : Tokens \cup {NoToken}]
Idle == [op |-> "idle", key |-> NoKey, add |-> {}, drop |-> {}, seen |-> {},
         tok |-> NoToken]

\* The one type invariant.
TypeOK ==
    /\ gone \subseteq Members
    /\ alloc \in [Allocs -> {"none", "active", "blocked", "deleted"}]
    /\ key \in [Keys -> {"none", "live", "revoked", "deleted"}]
    /\ token \in [Keys -> Tokens \cup {NoToken}]
    /\ links \subseteq Keys \X Allocs
    /\ issued \subseteq Tokens
    /\ txn \in [Reqs -> Txn]
    /\ \A r \in Reqs : txn[r].op # "idle" => txn[r].key \in Keys

-----------------------------------------------------------------------------
Scope(c) == {a \in Allocs : <<c, a>> \in links}
HasRow(a) == alloc[a] \in {"active", "blocked"}
KeyHasRow(c) == key[c] \in {"live", "revoked"}
ModelsOf(S) == {ModelOf[a] : a \in S}
Distinct(S) == \A a, b \in S : ModelOf[a] = ModelOf[b] => a = b

\* lookup_credential_by_token finds a key for token t.
Resolves(t) == \E c \in Keys : key[c] = "live" /\ token[c] = t

\* Mutant: a token no key holds now may be generated again.
FreshToken_NotInUse(t) == \A c \in Keys : token[c] # t

\* generate_token returns 32 random bytes: a token never seen before.
FreshToken(t) == t \notin issued

\* A ULID no row and no transaction has used yet.
FreshKey(c) == key[c] = "none" /\ \A q \in Reqs : ~ (txn[q].op = "issue" /\ txn[q].key = c)

Begin(r, t) == txn[r] = Idle /\ txn' = [txn EXCEPT ![r] = t]

Finish(r) == txn' = [txn EXCEPT ![r] = Idle]

\* _owned_allocations: they exist, belong to the member and differ in model.
Owned(m, S) == (\A a \in S : HasRow(a) /\ Owner[a] = m) /\ Distinct(S)

-----------------------------------------------------------------------------
\* AllocationService.create: an allocation with its default key, one INSERT
\* transaction that depends on nothing but the member.
CreateAllocation(a, c, t) ==
    /\ Owner[a] = Holder[c] /\ Owner[a] \notin gone
    /\ alloc[a] = "none" /\ FreshKey(c) /\ FreshToken(t)
    /\ alloc' = [alloc EXCEPT ![a] = "active"]
    /\ key' = [key EXCEPT ![c] = "live"]
    /\ token' = [token EXCEPT ![c] = t]
    /\ links' = links \cup {<<c, a>>}
    /\ issued' = issued \cup {t}
    /\ UNCHANGED <<gone, txn>>

\* create_member_credential (also behind add_credential, the device flow and
\* the OAuth exchange): paused and revoked allocations are accepted too.
BeginIssue(r, c, S, t) ==
    /\ FreshKey(c) /\ FreshToken(t)
    /\ S # {} /\ Owned(Holder[c], S)
    /\ Begin(r, [op |-> "issue", key |-> c, add |-> S, drop |-> {}, seen |-> {}, tok |-> t])
    /\ issued' = issued \cup {t}
    /\ UNCHANGED db

\* Mutant: credential_allocations has no foreign key to allocations.
CommitIssue_NoForeignKey(r) ==
    LET c == txn[r].key IN
    /\ txn[r].op = "issue"
    /\ key' = [key EXCEPT ![c] = "live"]
    /\ token' = [token EXCEPT ![c] = txn[r].tok]
    /\ links' = links \cup {<<c, a>> : a \in txn[r].add}
    /\ Finish(r)
    /\ UNCHANGED <<gone, alloc, issued>>

\* FOREIGN KEYs: the allocations, and with them their member, still exist.
CommitIssue(r) ==
    LET c == txn[r].key IN
    /\ txn[r].op = "issue"
    /\ \A a \in txn[r].add : HasRow(a)
    /\ key' = [key EXCEPT ![c] = "live"]
    /\ token' = [token EXCEPT ![c] = txn[r].tok]
    /\ links' = links \cup {<<c, a>> : a \in txn[r].add}
    /\ Finish(r)
    /\ UNCHANGED <<gone, alloc, issued>>

\* patch_credential_scope, for a live or a revoked key.
BeginPatch(r, c, add, remove) ==
    LET new == add \ Scope(c)
        kept == Scope(c) \ remove
    IN  /\ KeyHasRow(c)
        /\ Owned(Holder[c], new)
        /\ ModelsOf(new) \cap ModelsOf(kept) = {}
        /\ kept # {} \/ new # {}
        /\ Begin(r, [op |-> "patch", key |-> c, add |-> new,
                     drop |-> Scope(c) \cap remove, seen |-> Scope(c), tok |-> NoToken])
        /\ UNCHANGED <<db, issued>>

\* Mutant: no unique index over (credential_id, resource_model).
Conflict_NoIndex(r) == FALSE

\* UNIQUE(credential_id, resource_model) and the primary key.  The unit of work
\* INSERTs the new links before it DELETEs the removed ones, so a link the same
\* patch removes still conflicts: a patch that swaps an allocation for another
\* of its model is accepted and always rolled back.
Conflict(r) == ModelsOf(txn[r].add) \cap ModelsOf(Scope(txn[r].key)) # {}

CommitPatch(r) ==
    LET c == txn[r].key IN
    /\ txn[r].op = "patch"
    /\ KeyHasRow(c)
    /\ \A a \in txn[r].add : HasRow(a)
    /\ ~ Conflict(r)
    /\ links' = (links \cup {<<c, a>> : a \in txn[r].add})
                    \ {<<c, a>> : a \in txn[r].drop}
    /\ Finish(r)
    /\ UNCHANGED <<gone, alloc, key, token, issued>>

\* rotate_credential refuses a revoked key.
BeginRotate(r, c, t) ==
    /\ key[c] = "live"
    /\ FreshToken(t)
    /\ Begin(r, [op |-> "rotate", key |-> c, add |-> {}, drop |-> {}, seen |-> {}, tok |-> t])
    /\ issued' = issued \cup {t}
    /\ UNCHANGED db

\* rotate_token on an active allocation: rotates a live key of its scope, or
\* issues a default key when there is none.
BeginRotateAllocation(r, a, c, t) ==
    /\ alloc[a] = "active"
    /\ \/ a \in Scope(c) /\ BeginRotate(r, c, t)
       \/ /\ \A d \in Keys : a \in Scope(d) => key[d] # "live"
          /\ Holder[c] = Owner[a]
          /\ BeginIssue(r, c, {a}, t)

\* Mutant: the whole row is written back, revoked_at as it was read.
CommitRotate_WholeRow(r) ==
    /\ txn[r].op = "rotate"
    /\ KeyHasRow(txn[r].key)
    /\ key' = [key EXCEPT ![txn[r].key] = "live"]
    /\ token' = [token EXCEPT ![txn[r].key] = txn[r].tok]
    /\ Finish(r)
    /\ UNCHANGED <<gone, alloc, links, issued>>

\* Only the token columns are written: revoked_at keeps what it holds now.
CommitRotate(r) ==
    /\ txn[r].op = "rotate"
    /\ KeyHasRow(txn[r].key)
    /\ token' = [token EXCEPT ![txn[r].key] = txn[r].tok]
    /\ Finish(r)
    /\ UNCHANGED <<gone, alloc, key, links, issued>>

\* revoke_credential, by the member or an administrator.
BeginRevokeKey(r, c) ==
    /\ key[c] = "live"
    /\ Begin(r, [op |-> "revoke", key |-> c, add |-> {}, drop |-> {}, seen |-> {},
                 tok |-> NoToken])
    /\ UNCHANGED <<db, issued>>

CommitRevokeKey(r) ==
    /\ txn[r].op = "revoke"
    /\ KeyHasRow(txn[r].key)
    /\ key' = [key EXCEPT ![txn[r].key] = "revoked"]
    /\ Finish(r)
    /\ UNCHANGED <<gone, alloc, token, links, issued>>

\* Rollback: a foreign key, a duplicate link, or an UPDATE of a deleted row.
MustAbort(r) ==
    \/ txn[r].op \in {"issue", "patch"} /\ \E a \in txn[r].add : ~ HasRow(a)
    \/ txn[r].op \in {"patch", "rotate", "revoke"} /\ ~ KeyHasRow(txn[r].key)
    \/ txn[r].op = "patch" /\ Conflict(r)

Abort(r) ==
    /\ MustAbort(r)
    /\ Finish(r)
    /\ UNCHANGED <<db, issued>>

\* Any status change AllocationLifecycle makes.
SetAllocationStatus(a, s) ==
    /\ HasRow(a)
    /\ alloc' = [alloc EXCEPT ![a] = s]
    /\ UNCHANGED <<gone, key, token, links, issued, txn>>

\* MemberService.delete removes links, keys, allocations and the member; rows
\* inserted since it collected the ids go by ON DELETE CASCADE.
DeleteMember(m) ==
    /\ m \notin gone
    /\ gone' = gone \cup {m}
    /\ alloc' = [a \in Allocs |-> IF Owner[a] = m /\ HasRow(a) THEN "deleted" ELSE alloc[a]]
    /\ key' = [c \in Keys |-> IF Holder[c] = m /\ KeyHasRow(c) THEN "deleted" ELSE key[c]]
    /\ links' = {l \in links : Holder[l[1]] # m /\ Owner[l[2]] # m}
    /\ UNCHANGED <<token, issued, txn>>

-----------------------------------------------------------------------------
Init ==
    /\ gone = {}
    /\ alloc = [a \in Allocs |-> "none"]
    /\ key = [c \in Keys |-> "none"]
    /\ token = [c \in Keys |-> NoToken]
    /\ links = {}
    /\ issued = {}
    /\ txn = [r \in Reqs |-> Idle]

\* Adding what is in scope and removing what is not change nothing, so a patch
\* is enumerated without them.
Request(r) ==
    \E c \in Keys :
        \/ BeginRevokeKey(r, c)
        \/ \E add \in SUBSET (Allocs \ Scope(c)), remove \in SUBSET Scope(c) :
               BeginPatch(r, c, add, remove)
        \/ \E t \in Tokens : \/ BeginRotate(r, c, t)
                             \/ \E S \in SUBSET Allocs : BeginIssue(r, c, S, t)
                             \/ \E a \in Allocs : BeginRotateAllocation(r, a, c, t)

Progress(r) ==
    \/ CommitIssue(r)
    \/ CommitPatch(r)
    \/ CommitRotate(r)
    \/ CommitRevokeKey(r)
    \/ Abort(r)

Next ==
    \/ \E r \in Reqs : Request(r) \/ Progress(r)
    \/ \E a \in Allocs, c \in Keys, t \in Tokens : CreateAllocation(a, c, t)
    \/ \E a \in Allocs, s \in {"active", "blocked"} : SetAllocationStatus(a, s)
    \/ \E m \in Members : DeleteMember(m)

Spec == Init /\ [][Next]_vars

-----------------------------------------------------------------------------
(* Properties.                                                             *)

\* A key only ever reaches allocations of its own member, and only rows that
\* exist, through every race of scope patches and member deletions
\* (_owned_allocations, the foreign keys of credential_allocations).
ScopeOwned ==
    \A c \in Keys : \A a \in Scope(c) :
        KeyHasRow(c) /\ HasRow(a) /\ Owner[a] = Holder[c]

\* A request's model selects at most one allocation of the key's scope, so a
\* call is billed to one allocation (resolve_scope_allocation, UNIQUE
\* (credential_id, resource_model)).
ScopeModelsDistinct == \A c \in Keys : Distinct(Scope(c))

\* One token, one key: no two sessions install the same token and no key that
\* was deleted or revoked shares one with another (token_fingerprint UNIQUE).
TokenUnique ==
    \A c, d \in Keys : token[c] = token[d] /\ token[c] # NoToken => c = d

\* A token that was issued once, resolves no more and is not about to be
\* installed is dead, and stays dead: no issue, rotation or commit of an older
\* transaction generates it again, holds it or installs it, so what was rotated
\* out, revoked or deleted never authenticates a call again (rotate_credential,
\* revoke_credential).
InFlight(t) == \E r \in Reqs : txn[r].tok = t
Dead(t) == t \in issued /\ ~ Resolves(t) /\ ~ InFlight(t)
DeadTokensStayDead == [][\A t \in Tokens : Dead(t) => Dead(t)']_vars

\* A revoked key is never live again, though a rotation or a scope patch that
\* read it before the revocation may commit after it (revoke_credential).
RevokedKeyStaysRevoked ==
    [][\A c \in Keys : key[c] = "revoked" => key'[c] \in {"revoked", "deleted"}]_vars
============================================================================
