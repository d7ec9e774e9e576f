---------------------------- MODULE OneTimeGrants ----------------------------
(***************************************************************************)
(* The single-use grants: a device authorization that ends in a key handed *)
(* to a polling installer, an OAuth consent that ends in a code exchanged  *)
(* for a key, an invitation that ends in a password and a session.  Every  *)
(* handler is a READ COMMITTED transaction: Begin reads the row and        *)
(* decides, Commit writes the columns it set, whatever the row holds by    *)
(* then (no version column, no row lock on the read).                      *)
(***************************************************************************)
EXTENDS Naturals, FiniteSets

CONSTANTS
    Grants,     \* rows of the three tables
    Kind,       \* "device", "oauth" or "invite"
    Members, Allocs,
    Owner,      \* allocations.member_id
    Secrets,    \* fresh keys (and the sessions of invitations)
    Codes,      \* fresh OAuth codes
    Reqs,       \* concurrent database sessions
    None

ASSUME KindAssumption == Kind \in [Grants -> {"device", "oauth", "invite"}]
ASSUME OwnerAssumption == Owner \in [Allocs -> Members]
ASSUME ReqsAssumption == IsFiniteSet(Reqs)

\* What a secret was minted from and covers, what a code was issued for.
Minted == [grant : Grants, code : Codes \cup {None}, scope : SUBSET Allocs]
Issued == [grant : Grants, scope : SUBSET Allocs]
ASSUME NoneAssumption == None \notin Members \cup Secrets \cup Codes \cup Minted \cup Issued

VARIABLES
    row,        \* each grant's row
    secret,     \* what each minted secret was minted from and covers
    handed,     \* how many responses carried each secret's plaintext
    given,      \* history: the scope each code was issued for
    raced,      \* history: grants two transactions were in flight on at once
    sealed,     \* history: grants that were spent with no transaction in flight
    gone,       \* deleted members
    allowlist,  \* oauth_config: the client's redirect_uri has an allowed prefix
    txn

db == <<row, secret, handed, given, gone, allowlist>>
vars == <<db, raced, sealed, txn>>

Statuses == {"none", "pending", "approved", "consumed", "denied", "expired", "deleted"}
Row == [status : Statuses, due : BOOLEAN, member : Members \cup {None},
        scope : SUBSET Allocs, code : Codes \cup {None},
        token : Secrets \cup {None}, cred : Secrets \cup {None}]
Blank == [status |-> "none", due |-> FALSE, member |-> None, scope |-> {},
          code |-> None, token |-> None, cred |-> None]

Ops == {"approve", "deny", "expire", "deliver", "exchange", "accept"}
Txn == [op : Ops, grant : Grants, member : Members \cup {None}, scope : SUBSET Allocs,
        code : Codes \cup {None}, secret : Secrets \cup {None}]
Idle == [op |-> "idle"]

\* The one type invariant.
TypeOK ==
    /\ row \in [Grants -> Row]
    /\ secret \in [Secrets -> {None} \cup Minted]
    /\ handed \in [Secrets -> 0..Cardinality(Reqs)]
    /\ given \in [Codes -> {None} \cup Issued]
    /\ raced \subseteq Grants /\ sealed \subseteq Grants /\ gone \subseteq Members /\ allowlist \in BOOLEAN
    /\ txn \in [Reqs -> {Idle} \cup Txn]

-----------------------------------------------------------------------------
Is(g, kind) == Kind[g] = kind
InFlight(g) == {r \in Reqs : txn[r] # Idle /\ txn[r].grant = g}
Fresh(k) == secret[k] = None /\ \A r \in Reqs : txn[r] # Idle => txn[r].secret # k
\* The allocations of a member: its rows exist and carry its id.
Owns(m, S) == m \notin gone /\ \A a \in S : Owner[a] = m

\* Mutant: get_pending returns a request that is already expired or decided.
Pending_AnyStatus(g) == row[g].status \in {"pending", "denied"} /\ ~ row[g].due
\* get_pending.  The `expired` it writes is rolled back by the 404 of its
\* callers, so a read that finds the row overdue leaves it as it was.
Pending(g) == row[g].status = "pending" /\ ~ row[g].due

Begin(r, op, g, m, S, c, k) ==
    /\ txn[r] = Idle
    /\ txn' = [txn EXCEPT ![r] = [op |-> op, grant |-> g, member |-> m, scope |-> S,
                                  code |-> c, secret |-> k]]
    /\ raced' = IF InFlight(g) = {} THEN raced ELSE raced \cup {g}
    /\ UNCHANGED db

\* Mutant: the session goes idle and keeps the row it loaded.
Commits_KeepsLoaded(r, op) ==
    /\ txn[r] # Idle /\ txn[r].op = op
    /\ row[txn[r].grant].status # "deleted"
    /\ txn' = [txn EXCEPT ![r].op = "idle"]
    /\ UNCHANGED <<raced, gone, allowlist>>
\* The row is still there: an UPDATE of a deleted one raises StaleDataError.
Commits(r, op) ==
    /\ txn[r] # Idle /\ txn[r].op = op
    /\ row[txn[r].grant].status # "deleted"
    /\ txn' = [txn EXCEPT ![r] = Idle]
    /\ UNCHANGED <<raced, gone, allowlist>>

\* Credentials and sessions are inserted under a foreign key to the member.
Mint(r, S) ==
    /\ txn[r].member \notin gone
    /\ secret' = [secret EXCEPT ![txn[r].secret] =
                    [grant |-> txn[r].grant, code |-> txn[r].code, scope |-> S]]

-----------------------------------------------------------------------------
\* POST /device/authorize: no member yet.
Authorize(g) ==
    /\ row[g] = Blank /\ Is(g, "device")
    /\ row' = [row EXCEPT ![g].status = "pending"]
    /\ UNCHANGED <<secret, handed, given, raced, gone, allowlist, txn>>

\* invitations.issue, for a member created without a password.
Invite(g, m) ==
    /\ row[g] = Blank /\ Is(g, "invite") /\ m \notin gone
    /\ row' = [row EXCEPT ![g].status = "pending", ![g].member = m]
    /\ UNCHANGED <<secret, handed, given, raced, gone, allowlist, txn>>

\* validate_redirect_uri: only a consent asks, and an empty list refuses.
RedirectAllowed == allowlist

\* OAuthService.create_consent, for the member signed in.
NewConsent(m) == [Blank EXCEPT !.status = "pending", !.member = m]

CreateConsent(g, m) ==
    /\ row[g] = Blank /\ Is(g, "oauth") /\ m \notin gone
    /\ RedirectAllowed
    /\ row' = [row EXCEPT ![g] = NewConsent(m)]
    /\ UNCHANGED <<secret, handed, given, raced, gone, allowlist, txn>>

\* PUT /oauth/config; consents that already exist are not looked at again.
UpdateConfig ==
    /\ allowlist' = ~ allowlist
    /\ UNCHANGED <<row, secret, handed, given, raced, gone, txn>>

\* expires_at passes.
Lapse(g) ==
    /\ row[g].status \in {"pending", "approved"} /\ ~ row[g].due
    /\ row' = [row EXCEPT ![g].due = TRUE]
    /\ UNCHANGED <<secret, handed, given, raced, gone, allowlist, txn>>

\* Approving a device request: the key is minted in this transaction.
BeginDeviceApprove(r, g, m, S, k) ==
    /\ Is(g, "device") /\ Pending(g) /\ S # {} /\ Owns(m, S) /\ Fresh(k)
    /\ Begin(r, "approve", g, m, S, None, k)

\* Approving a consent only records the choice.
BeginOAuthApprove(r, g, S) ==
    /\ Is(g, "oauth") /\ Pending(g) /\ S # {} /\ Owns(row[g].member, S)
    /\ Begin(r, "approve", g, row[g].member, S, None, None)

\* Mutant: the approval writes the row and leaves credential_id for later.
CommitDeviceApprove_NoCredential(r) ==
    LET t == txn[r] IN
    /\ Commits(r, "approve") /\ Is(t.grant, "device")
    /\ Mint(r, t.scope)
    /\ row' = [row EXCEPT ![t.grant].status = "approved", ![t.grant].member = t.member,
                          ![t.grant].scope = t.scope, ![t.grant].token = t.secret]
    /\ UNCHANGED <<handed, given>>
CommitDeviceApprove(r) ==
    LET t == txn[r] IN
    /\ Commits(r, "approve") /\ Is(t.grant, "device")
    /\ Mint(r, t.scope)
    /\ row' = [row EXCEPT ![t.grant].status = "approved", ![t.grant].member = t.member,
                          ![t.grant].scope = t.scope, ![t.grant].token = t.secret,
                          ![t.grant].cred = t.secret]
    /\ UNCHANGED <<handed, given>>

\* The code is new and its own, shorter clock starts.
CommitOAuthApprove(r, c) ==
    LET t == txn[r] IN
    /\ Commits(r, "approve") /\ Is(t.grant, "oauth")
    /\ given[c] = None
    /\ given' = [given EXCEPT ![c] = [grant |-> t.grant, scope |-> t.scope]]
    /\ row' = [row EXCEPT ![t.grant].status = "approved", ![t.grant].scope = t.scope,
                          ![t.grant].code = c, ![t.grant].due = FALSE]
    /\ UNCHANGED <<secret, handed>>

BeginDeny(r, g) ==
    /\ Pending(g) /\ ~ Is(g, "invite")
    /\ Begin(r, "deny", g, None, {}, None, None)

CommitDeny(r) ==
    /\ Commits(r, "deny")
    /\ row' = [row EXCEPT ![txn[r].grant].status = "denied"]
    /\ UNCHANGED <<secret, handed, given>>

\* A poll of an overdue device request, an exchange of an overdue code: their
\* error responses are returned, not raised, and so committed.
BeginExpire(r, g) ==
    /\ row[g].due
    /\ \/ Is(g, "device") /\ row[g].status = "pending"
       \/ Is(g, "oauth") /\ row[g].status = "approved"
    /\ Begin(r, "expire", g, None, {}, None, None)

CommitExpire(r) ==
    /\ Commits(r, "expire")
    /\ row' = [row EXCEPT ![txn[r].grant].status = "expired"]
    /\ UNCHANGED <<secret, handed, given>>

\* DeviceFlowService.poll of an approved request whose token is still there;
\* its expiry is not looked at any more.
BeginDeliver(r, g) ==
    /\ Is(g, "device") /\ row[g].status = "approved" /\ row[g].token # None
    /\ Begin(r, "deliver", g, None, {}, None, row[g].token)

\* Mutant: the poll hands the token out and leaves it in the row.
CommitDeliver_KeepsToken(r) ==
    /\ Commits(r, "deliver")
    /\ handed[txn[r].secret] < Cardinality(Reqs)
    /\ handed' = [handed EXCEPT ![txn[r].secret] = @ + 1]
    /\ UNCHANGED <<row, secret, given>>
CommitDeliver(r) ==
    /\ Commits(r, "deliver")
    /\ row' = [row EXCEPT ![txn[r].grant].token = None]
    /\ handed' = [handed EXCEPT ![txn[r].secret] = @ + 1]
    /\ UNCHANGED <<secret, given>>

\* OAuthService.exchange of a code in time, by a caller with the redirect_uri
\* and the verifier of the consent.
BeginExchange(r, g, k) ==
    /\ Is(g, "oauth") /\ row[g].status = "approved" /\ ~ row[g].due
    /\ Owns(row[g].member, row[g].scope) /\ Fresh(k)
    /\ Begin(r, "exchange", g, row[g].member, row[g].scope, row[g].code, k)

\* Mutant: the scope is read again when the key is written.
CommitExchange_RowScope(r) ==
    LET t == txn[r] IN
    /\ Commits(r, "exchange")
    /\ Mint(r, row[t.grant].scope)
    /\ row' = [row EXCEPT ![t.grant].status = "consumed", ![t.grant].cred = t.secret]
    /\ handed' = [handed EXCEPT ![t.secret] = @ + 1]
    /\ UNCHANGED given
CommitExchange(r) ==
    LET t == txn[r] IN
    /\ Commits(r, "exchange")
    /\ Mint(r, t.scope)
    /\ row' = [row EXCEPT ![t.grant].status = "consumed", ![t.grant].cred = t.secret]
    /\ handed' = [handed EXCEPT ![t.secret] = @ + 1]
    /\ UNCHANGED given

\* invitations.consume: unused and in time; the member's status is not read.
BeginAccept(r, g, k) ==
    /\ Is(g, "invite") /\ row[g].status = "pending" /\ ~ row[g].due /\ Fresh(k)
    /\ Begin(r, "accept", g, row[g].member, {}, None, k)

\* invitation_accept: used_at, the password and a session in one transaction.
CommitAccept(r) ==
    LET t == txn[r] IN
    /\ Commits(r, "accept")
    /\ Mint(r, {})
    /\ row' = [row EXCEPT ![t.grant].status = "consumed", ![t.grant].cred = t.secret]
    /\ handed' = [handed EXCEPT ![t.secret] = @ + 1]
    /\ UNCHANGED given

\* The transaction fails (a violated foreign key, a deleted row, a lost
\* connection, a killed process): nothing of it is left.
Abort(r) ==
    /\ txn[r] # Idle
    /\ txn' = [txn EXCEPT ![r] = Idle]
    /\ UNCHANGED <<db, raced>>

\* MemberService.delete: ON DELETE CASCADE takes the grants bound to a member.
DeleteMember(m) ==
    /\ m \notin gone
    /\ gone' = gone \cup {m}
    /\ row' = [g \in Grants |-> IF row[g].member = m
                                THEN [Blank EXCEPT !.status = "deleted"] ELSE row[g]]
    /\ UNCHANGED <<secret, handed, given, raced, allowlist, txn>>

Step ==
    \/ \E g \in Grants, m \in Members : Authorize(g) \/ Invite(g, m) \/ CreateConsent(g, m)
    \/ UpdateConfig
    \/ \E g \in Grants : Lapse(g)
    \/ \E m \in Members : DeleteMember(m)
    \/ \E r \in Reqs, g \in Grants, S \in SUBSET Allocs :
          \/ \E m \in Members, k \in Secrets : BeginDeviceApprove(r, g, m, S, k)
          \/ BeginOAuthApprove(r, g, S)
    \/ \E r \in Reqs, g \in Grants : BeginDeny(r, g) \/ BeginExpire(r, g) \/ BeginDeliver(r, g)
    \/ \E r \in Reqs, g \in Grants, k \in Secrets : BeginExchange(r, g, k) \/ BeginAccept(r, g, k)
    \/ \E r \in Reqs, c \in Codes : CommitOAuthApprove(r, c)
    \/ \E r \in Reqs :
          \/ CommitDeviceApprove(r) \/ CommitDeny(r) \/ CommitExpire(r)
          \/ CommitDeliver(r) \/ CommitExchange(r) \/ CommitAccept(r) \/ Abort(r)

\* There is nothing left to do with the grant.
Spent(g) ==
    \/ row[g].status \in {"denied", "expired", "consumed", "deleted"}
    \/ row[g].status = "approved" /\ Is(g, "device") /\ row[g].token = None

Seal == sealed' = sealed \cup {g \in Grants : Spent(g)' /\ InFlight(g)' = {}}

Next == Step /\ Seal

Init ==
    /\ row = [g \in Grants |-> Blank]
    /\ secret = [k \in Secrets |-> None]
    /\ handed = [k \in Secrets |-> 0]
    /\ given = [c \in Codes |-> None]
    /\ raced = {} /\ sealed = {} /\ gone = {} /\ allowlist = TRUE
    /\ txn = [r \in Reqs |-> Idle]

Spec == Init /\ [][Next]_vars

-----------------------------------------------------------------------------
From(g) == {k \in Secrets : secret[k] # None /\ secret[k].grant = g}

\* "Exactly once" (device_flow.py:3) is true of grants that no two requests
\* worked on at the same time: such a grant mints at most one secret, hands
\* it out at most once, a denied or expired one never minted any, and an approved
\* device request still holds the token or has handed it out, never neither.
SerialExactlyOnce ==
    \A g \in Grants \ raced :
        /\ Cardinality(From(g)) <= 1
        /\ \A k \in From(g) : handed[k] <= 1
        /\ row[g].status \in {"denied", "expired"} => From(g) = {}
        /\ row[g].status = "approved" /\ Is(g, "device") =>
              \A k \in From(g) : row[g].token = k <=> handed[k] = 0

\* A key exchanged for a code covers the allocations the member chose when
\* that code was issued, though a second approval may have replaced both in
\* the row while the exchange was under way.
KeyMatchesCode ==
    \A k \in Secrets : secret[k] # None /\ secret[k].code # None =>
        given[secret[k].code] = [grant |-> secret[k].grant, scope |-> secret[k].scope]

\* However approvals, denials, polls and exchanges overwrite each other, the
\* columns of a row fit together: the token waiting in it is the one of the
\* key it names, minted for the scope it shows, and a consumed row names a key.
RowCoherent ==
    \A g \in Grants :
        /\ row[g].token # None =>
              /\ row[g].cred = row[g].token
              /\ secret[row[g].token] = [grant |-> g, code |-> None, scope |-> row[g].scope]
        /\ row[g].status = "consumed" => row[g].cred \in From(g)

\* Once a grant was spent with no request still working on it, nothing is
\* minted from it or handed out for it again and it never reopens: a later
\* approval, poll, exchange or acceptance finds it closed.
SpentStaysSpent ==
    [][\A g \in sealed :
          /\ Spent(g)'
          /\ From(g)' = From(g)
          /\ \A k \in From(g) : handed'[k] = handed[k]]_vars
==============================================================================
