---------------------------- MODULE MemberAccess ----------------------------
(***************************************************************************)
(* Members, administrators and sign-in sessions.  Handlers are READ        *)
(* COMMITTED transactions: Begin reads, checks and fixes what will be      *)
(* written, Commit writes it.  A bulk change is a job of several such      *)
(* transactions over one snapshot of the active administrators.            *)
(***************************************************************************)
EXTENDS Naturals, FiniteSets

CONSTANTS
    Members,    \* login identifiers, each the member that has or may get it
    Provider,   \* "local_password" or "google_oidc"
    Sessions,   \* fresh session ids
    Reqs,       \* concurrent requests
    Bulks,      \* those of them that may be bulk changes
    Tokens,     \* callers with the bootstrap admin token
    None

ASSUME ProviderAssumption == Provider \in [Members -> {"local_password", "google_oidc"}]
\* A row of user_sessions.
Sess == [of : Members, status : {"active", "revoked"}, by : {"sign_in", "invitation"}]
ASSUME NoneAssumption == /\ None \notin Members \cup Sessions \cup Sess
                         /\ None \notin {"active", "disabled"} /\ None \notin BOOLEAN
                         /\ Tokens \cap Members = {}
ASSUME FiniteAssumption == IsFiniteSet(Members) /\ IsFiniteSet(Reqs)
ASSUME BulksAssumption == Bulks \subseteq Reqs

VARIABLES
    member,     \* each identifier's row: none, active or disabled
    admin,      \* members.is_admin
    sess,       \* each session's row
    rules,      \* identifiers an enabled auto_register_rule matches
    whitelist,  \* email_whitelist, of the identifiers whose sign-in reads it
    txn,        \* the transaction each request has in flight
    job,        \* the bulk change each request is in the middle of
    guarded,    \* history: an administrator exists and the guards alone decide
    mixed       \* history: members whose sign-in met a change of their status

db == <<member, admin, sess, rules, whitelist>>
vars == <<db, txn, job, guarded, mixed>>

Txn == [op : {"patch", "bulk", "delete", "sign_in", "register"}, m : Members,
        status : {"active", "disabled", None}, admin : BOOLEAN \cup {None},
        revokes : SUBSET Sessions, s : Sessions \cup {None}]
Job == [status : {"active", "disabled"}, todo : SUBSET Members, pool : SUBSET Members]
Idle == [op |-> "idle"]
NoJob == [status |-> "active", todo |-> {}, pool |-> {}]

\* The one type invariant; a session row belongs to a member row.
TypeOK ==
    /\ member \in [Members -> {"none", "active", "disabled"}]
    /\ admin \subseteq Members
    /\ sess \in [Sessions -> {None} \cup Sess]
    /\ rules \subseteq Members /\ whitelist \subseteq Members
    /\ txn \in [Reqs -> {Idle} \cup Txn]
    /\ job \in [Reqs -> Job]
    /\ guarded \in BOOLEAN /\ mixed \subseteq Members
    /\ \A s \in Sessions : sess[s] # None => member[sess[s].of] # "none"

-----------------------------------------------------------------------------
HasRow(m) == member[m] # "none"
ActiveAdmins == {m \in admin : member[m] = "active"}
SessionsOf(m) == {s \in Sessions : sess[s] # None /\ sess[s].of = m}
Live(m) == {s \in SessionsOf(m) : sess[s].status = "active"}
FreshSession(s) == sess[s] = None /\ \A r \in Reqs : txn[r] # Idle => txn[r].s # s
Revoked(S) == [s \in Sessions |-> IF s \in S /\ sess[s] # None
                                  THEN [sess[s] EXCEPT !.status = "revoked"] ELSE sess[s]]

\* require_admin, in a transaction of its own before the handler's.
Admits(a) == a \in Tokens \/ (a \in ActiveAdmins /\ Live(a) # {})

Begin(r, t) ==
    /\ txn[r] = Idle
    /\ txn' = [txn EXCEPT ![r] = t]
    /\ UNCHANGED db
Ends(r, op) ==
    /\ txn[r] # Idle /\ txn[r].op = op
    /\ txn' = [txn EXCEPT ![r] = Idle]
Change(op, m, status, adm) ==
    [op |-> op, m |-> m, status |-> IF status = member[m] THEN None ELSE status,
     admin |-> IF adm # None /\ adm = (m \in admin) THEN None ELSE adm,
     revokes |-> IF status = "disabled" /\ member[m] # "disabled" THEN Live(m) ELSE {},
     s |-> None]

Changes(op, m, status, adm) ==
    LET t == Change(op, m, status, adm) IN t.status # None \/ t.admin # None

-----------------------------------------------------------------------------
\* MemberService.create; the identifier is unique.
Create(m) ==
    /\ ~ HasRow(m)
    /\ member' = [member EXCEPT ![m] = "active"]

\* POST /members.
CreateMember(a, m) ==
    /\ Admits(a) /\ Create(m)
    /\ UNCHANGED <<admin, sess, rules, whitelist, txn, job>>

\* POST /members/bulk-create: each line in a transaction of its own.
CreateLine(a, m) ==
    /\ Admits(a) /\ Provider[m] = "local_password" /\ Create(m)
    /\ UNCHANGED <<admin, sess, rules, whitelist, txn, job>>

\* set_is_admin counts the active administrators after the status of the same
\* PATCH was flushed, the member itself among them.
DemoteAllowed(m, status) ==
    Cardinality(IF status = "disabled" THEN ActiveAdmins \ {m}
                ELSE IF status = "active" THEN ActiveAdmins \cup {m}
                ELSE ActiveAdmins) > 1

\* PATCH /members/{id}: the status and the flag, either may be left out.
\* Disabling has no guard of its own.
BeginPatch(r, a, m, status, adm) ==
    /\ r \notin Bulks /\ Admits(a) /\ HasRow(m)
    /\ adm = FALSE /\ m \in admin => DemoteAllowed(m, status)
    /\ Changes("patch", m, status, adm)
    /\ Begin(r, Change("patch", m, status, adm))
    /\ UNCHANGED job

\* POST /members/bulk-status: one snapshot for the whole job.
StartBulk(r, a, S, status) ==
    /\ r \in Bulks /\ txn[r] = Idle /\ job[r].todo = {} /\ Admits(a) /\ S # {}
    /\ job' = [job EXCEPT ![r] = [status |-> status, todo |-> S,
                                  pool |-> IF status = "disabled" THEN ActiveAdmins ELSE {}]]
    /\ UNCHANGED <<db, txn>>

LastOfPool(r, m) == m \in job[r].pool /\ Cardinality(job[r].pool) <= 1

\* An item that is refused, or whose member has gone, is reported and skipped.
SkipItem(r, m) ==
    /\ txn[r] = Idle /\ m \in job[r].todo
    /\ LastOfPool(r, m) \/ ~ HasRow(m)
    /\ job' = [job EXCEPT ![r].todo = @ \ {m}]
    /\ UNCHANGED <<db, txn>>

\* The member leaves the snapshot once it is disabled, by whomever.
Done(r, m) ==
    job' = [job EXCEPT ![r].todo = @ \ {m},
                       ![r].pool = IF job[r].status = "disabled" THEN @ \ {m} ELSE @]

\* An item that has the status already is reported as changed.
NothingToDo(r, m) ==
    /\ txn[r] = Idle /\ m \in job[r].todo /\ ~ LastOfPool(r, m) /\ HasRow(m)
    /\ ~ Changes("bulk", m, job[r].status, None)
    /\ Done(r, m)
    /\ UNCHANGED <<db, txn>>

BeginItem(r, m) ==
    /\ m \in job[r].todo /\ ~ LastOfPool(r, m) /\ HasRow(m)
    /\ Changes("bulk", m, job[r].status, None)
    /\ Begin(r, Change("bulk", m, job[r].status, None))
    /\ UNCHANGED job

\* MemberService.update and set_is_admin write the columns that were to change.
\* revoke_all_for_member revokes the sessions it saw.
Write(t) ==
    /\ HasRow(t.m)
    /\ member' = IF t.status = None THEN member ELSE [member EXCEPT ![t.m] = t.status]
    /\ admin' = IF t.admin = None THEN admin
                ELSE IF t.admin THEN admin \cup {t.m} ELSE admin \ {t.m}
    /\ sess' = Revoked(t.revokes)
    /\ UNCHANGED <<rules, whitelist>>

CommitPatch(r) ==
    /\ Ends(r, "patch")
    /\ Write(txn[r])
    /\ UNCHANGED job

\* Mutant: the snapshot does not shrink.
CommitItem_KeepsPool(r) ==
    /\ Ends(r, "bulk")
    /\ Write(txn[r])
    /\ job' = [job EXCEPT ![r].todo = @ \ {txn[r].m}]
\* The item's commit.
CommitItem(r) ==
    /\ Ends(r, "bulk")
    /\ Write(txn[r])
    /\ Done(r, txn[r].m)

\* MemberService.delete: never oneself, never the last active administrator.
Delete(r, a, m) ==
    /\ HasRow(m) /\ a # m
    /\ m \in ActiveAdmins => ActiveAdmins # {m}
    /\ Begin(r, [op |-> "delete", m |-> m, status |-> None, admin |-> None,
                 revokes |-> {}, s |-> None])
    /\ UNCHANGED job

\* DELETE /members/{id}.
BeginDelete(r, a, m) == r \notin Bulks /\ Admits(a) /\ Delete(r, a, m)

\* POST /members/bulk-delete: each id by the rules of a single deletion.
BeginDeleteItem(r, a, m) ==
    r \in Bulks /\ job[r].todo = {} /\ Admits(a) /\ Delete(r, a, m)

\* Mutant: the sessions of a deleted member stay.
CommitDelete_KeepsSessions(r) ==
    LET m == txn[r].m IN
    /\ Ends(r, "delete") /\ HasRow(m)
    /\ member' = [member EXCEPT ![m] = "none"]
    /\ admin' = admin \ {m}
    /\ UNCHANGED <<sess, rules, whitelist, job>>
CommitDelete(r) ==
    LET m == txn[r].m IN
    /\ Ends(r, "delete") /\ HasRow(m)
    /\ member' = [member EXCEPT ![m] = "none"]
    /\ admin' = admin \ {m}
    /\ sess' = [s \in Sessions |-> IF s \in SessionsOf(m) THEN None ELSE sess[s]]
    /\ UNCHANGED <<rules, whitelist, job>>

\* cli/create_admin: creates or promotes, and whitelists, in one transaction.
Provision(m) ==
    /\ member' = [member EXCEPT ![m] = IF HasRow(m) THEN @ ELSE "active"]
    /\ admin' = admin \cup {m}
    /\ whitelist' = IF Provider[m] = "google_oidc" THEN whitelist \cup {m} ELSE whitelist
    /\ UNCHANGED <<sess, rules, txn, job>>

-----------------------------------------------------------------------------
\* is_email_allowed: a rule always; else, while there is an administrator, an
\* active member; else the whitelist.
EmailAllowed(m) ==
    \/ m \in rules
    \/ IF ActiveAdmins # {} THEN member[m] = "active" ELSE m \in whitelist

\* Mutant: only the policy decides, not the member's own status.
Eligible_PolicyOnly(m) == HasRow(m) /\ (Provider[m] = "google_oidc" => EmailAllowed(m))
\* The member the sign-in found is active.
Eligible(m) == member[m] = "active" /\ (Provider[m] = "google_oidc" => EmailAllowed(m))

SignIn(op, m, s) == [op |-> op, m |-> m, status |-> None, admin |-> None,
                     revokes |-> {}, s |-> s]

\* POST /auth/local/login with the right password.
BeginLogin(r, m, s) ==
    /\ r \notin Bulks /\ Provider[m] = "local_password" /\ Eligible(m) /\ FreshSession(s)
    /\ Begin(r, SignIn("sign_in", m, s))
    /\ UNCHANGED job

\* GET /auth/oidc/callback of a known identifier.
BeginCallback(r, m, s) ==
    /\ r \notin Bulks /\ Provider[m] = "google_oidc" /\ Eligible(m) /\ FreshSession(s)
    /\ Begin(r, SignIn("sign_in", m, s))
    /\ UNCHANGED job

\* The OIDC callback of an identifier without a row registers it.
BeginRegister(r, m, s) ==
    /\ r \notin Bulks /\ FreshSession(s)
    /\ Provider[m] = "google_oidc" /\ ~ HasRow(m) /\ EmailAllowed(m)
    /\ Begin(r, SignIn("register", m, s))
    /\ UNCHANGED job

OpenSession(s, m, by) == sess' = [sess EXCEPT ![s] = [of |-> m, status |-> "active", by |-> by]]

CommitSignIn(r) ==
    /\ Ends(r, "sign_in") /\ HasRow(txn[r].m)
    /\ OpenSession(txn[r].s, txn[r].m, "sign_in")
    /\ UNCHANGED <<member, admin, rules, whitelist, job>>

\* The unique index on the identifier lets one registration through.
CommitRegister(r) ==
    /\ Ends(r, "register") /\ ~ HasRow(txn[r].m)
    /\ member' = [member EXCEPT ![txn[r].m] = "active"]
    /\ OpenSession(txn[r].s, txn[r].m, "sign_in")
    /\ UNCHANGED <<admin, rules, whitelist, job>>

\* invitation_accept opens a session without reading the member's status.
AcceptInvitation(m, s) ==
    /\ HasRow(m) /\ FreshSession(s)
    /\ OpenSession(s, m, "invitation")
    /\ UNCHANGED <<member, admin, rules, whitelist, txn, job>>

\* revoke_session.
Logout(s) ==
    /\ sess[s] # None /\ sess[s].status = "active"
    /\ sess' = Revoked({s})
    /\ UNCHANGED <<member, admin, rules, whitelist, txn, job>>

\* validate_session: an expired or idle session is as good as revoked, one
\* whose member is not active is revoked when it is next used.
Lapse(s) ==
    /\ sess[s] # None /\ sess[s].status = "active"
    /\ sess' = Revoked({s})
    /\ UNCHANGED <<member, admin, rules, whitelist, txn, job>>

\* DELETE /members/{id}/sessions.
RevokeSessions(a, m) ==
    /\ Admits(a) /\ Live(m) # {}
    /\ sess' = Revoked(Live(m))
    /\ UNCHANGED <<member, admin, rules, whitelist, txn, job>>

\* WhitelistService.add and remove.
EditWhitelist(m) ==
    /\ whitelist' \in {whitelist \cup {m}, whitelist \ {m}}
    /\ UNCHANGED rules
\* RuleService.create and delete.
EditRules(m) ==
    /\ rules' \in {rules \cup {m}, rules \ {m}}
    /\ UNCHANGED whitelist
\* The administrator's edits; the policy is asked for Google identifiers only.
EditPolicy(a, m) ==
    /\ Admits(a) /\ Provider[m] = "google_oidc"
    /\ EditWhitelist(m) \/ EditRules(m)
    /\ UNCHANGED <<member, admin, sess, txn, job>>

\* Any failure rolls back; a bulk job goes on with its next item.
Abort(r) ==
    /\ txn[r] # Idle
    /\ txn' = [txn EXCEPT ![r] = Idle]
    /\ job' = [job EXCEPT ![r].todo = @ \ {txn[r].m}]
    /\ UNCHANGED db

-----------------------------------------------------------------------------
InFlight(r, ops) == txn[r] # Idle /\ txn[r].op \in ops
\* Requests that may take an administrator away, by the guards' rules ...
Reducers == {r \in Reqs : \/ job[r].todo # {} /\ job[r].status = "disabled"
                          \/ InFlight(r, {"delete"})
                          \/ InFlight(r, {"patch"}) /\ txn[r].admin = FALSE}
\* ... and without any guard.
Unguarded == \E r \in Reqs : InFlight(r, {"patch"}) /\ txn[r].status = "disabled"

Guard == guarded' = IF Unguarded' \/ Cardinality(Reducers') > 1 THEN FALSE
                    ELSE guarded \/ (ActiveAdmins' # {} /\ Reducers' = {})

SigningIn(m) == \E r \in Reqs : InFlight(r, {"sign_in", "register"}) /\ txn[r].m = m
Changing(m) == \E r \in Reqs : InFlight(r, {"patch", "bulk"}) /\ txn[r].m = m

Mix == mixed' = {m \in Members :
            \/ SigningIn(m)' /\ Changing(m)'
            \/ m \in mixed /\ (SigningIn(m)' \/ Changing(m)' \/ Live(m)' # {})}

Init ==
    /\ member = [m \in Members |-> "none"]
    /\ admin = {} /\ rules = {} /\ whitelist = {}
    /\ sess = [s \in Sessions |-> None]
    /\ txn = [r \in Reqs |-> Idle]
    /\ job = [r \in Reqs |-> NoJob]
    /\ guarded = FALSE /\ mixed = {}

Step ==
    \/ \E m \in Members : Provision(m)
    \/ \E a \in Members \cup Tokens, m \in Members : CreateMember(a, m) \/ CreateLine(a, m)
                                          \/ EditPolicy(a, m) \/ RevokeSessions(a, m)
    \/ \E m \in Members, s \in Sessions : AcceptInvitation(m, s)
    \/ \E s \in Sessions : Logout(s) \/ Lapse(s)
    \/ \E r \in Reqs, a \in Members \cup Tokens, m \in Members :
          \/ \E status \in {"active", "disabled", None}, adm \in BOOLEAN \cup {None} :
                BeginPatch(r, a, m, status, adm)
          \/ BeginDelete(r, a, m) \/ BeginDeleteItem(r, a, m)
    \/ \E r \in Reqs, a \in Members \cup Tokens, S \in SUBSET Members,
          status \in {"active", "disabled"} : StartBulk(r, a, S, status)
    \/ \E r \in Reqs, m \in Members : SkipItem(r, m) \/ NothingToDo(r, m) \/ BeginItem(r, m)
    \/ \E r \in Reqs, m \in Members, s \in Sessions :
          BeginLogin(r, m, s) \/ BeginCallback(r, m, s) \/ BeginRegister(r, m, s)
    \/ \E r \in Reqs : \/ CommitPatch(r) \/ CommitItem(r) \/ CommitDelete(r)
                       \/ CommitSignIn(r) \/ CommitRegister(r) \/ Abort(r)

Next == Step /\ Guard /\ Mix

Spec == Init /\ [][Next]_vars

-----------------------------------------------------------------------------
\* "The console always has an administrator" (specs/039, SC-005): once one is
\* active and no request is taking one away, demotions, deletions and bulk
\* changes that come one after the other never remove the last, whatever is
\* created, promoted, enabled or signed in between.  Overlapping requests and
\* the unguarded PATCH that disables end this protection.
LastAdminKept == guarded => ActiveAdmins # {}

\* A disabled member has no live session from a sign-in, but for a sign-in
\* that overlapped the change: it read the member as active and commits a
\* session the disabling did not see (sessions.py:118).
DisabledHasNoSession ==
    \A m \in Members \ mixed : member[m] = "disabled" =>
        \A s \in Live(m) : sess[s].by = "invitation"
==============================================================================
