------------------------ MODULE OneTimeGrantsProofs ------------------------
(***************************************************************************)
(* Proofs about OneTimeGrants, for any sets of grants, members, secrets,   *)
(* codes and concurrent sessions.                                          *)
(***************************************************************************)
EXTENDS OneTimeGrants, FiniteSetTheorems, TLAPS

\* TypeOK with no bound on how often a secret was handed out.
Typed ==
    /\ row \in [Grants -> Row]
    /\ secret \in [Secrets -> {None} \cup Minted]
    /\ handed \in [Secrets -> Nat]
    /\ given \in [Codes -> {None} \cup Issued]
    /\ raced \subseteq Grants /\ sealed \subseteq Grants /\ gone \subseteq Members /\ allowlist \in BOOLEAN
    /\ txn \in [Reqs -> {Idle} \cup Txn]

Active(r) == txn[r] # Idle
Mints(t) == t.op \in {"exchange", "accept"} \/ (t.op = "approve" /\ Is(t.grant, "device"))

\* What a transaction read, and no other can take back: the row exists, its
\* kind, the scope its code was issued for, the secret it is to hand out.
Fits(t) ==
    /\ row[t.grant].status # "none"
    /\ t.op = "approve" => ~ Is(t.grant, "invite")
    /\ t.op = "accept" => Is(t.grant, "invite")
    /\ t.op = "exchange" =>
          /\ Is(t.grant, "oauth") /\ t.code # None
          /\ given[t.code] = [grant |-> t.grant, scope |-> t.scope]
    /\ t.op # "exchange" => t.code = None
    /\ t.op = "deliver" =>
          /\ Is(t.grant, "device") /\ t.secret # None
          /\ secret[t.secret] # None /\ secret[t.secret].grant = t.grant
    /\ Mints(t) => t.secret # None /\ secret[t.secret] = None

TxnsFit == \A r \in Reqs : Active(r) => Fits(txn[r])

\* A secret about to be minted is carried by one transaction.
SecretsApart ==
    \A r, q \in Reqs : r # q /\ Active(r) /\ Active(q) /\ Mints(txn[r])
                        => txn[q].secret # txn[r].secret

\* A row's code was issued for the scope beside it, and its token waits to be
\* handed out for the first time.
RowsFit ==
    \A g \in Grants :
        /\ row[g].code # None => Is(g, "oauth") /\
              given[row[g].code] = [grant |-> g, scope |-> row[g].scope]
        /\ row[g].status = "approved" /\ Is(g, "oauth") => row[g].code # None
        /\ row[g].token # None => Is(g, "device") /\ handed[row[g].token] = 0

UnmintedUnhanded == \A k \in Secrets : secret[k] = None => handed[k] = 0

\* Every session that could still hand a secret out was there when the first did.
Delivering(k) == {r \in Reqs : Active(r) /\ txn[r].op = "deliver" /\ txn[r].secret = k}
HandedBounded == \A k \in Secrets : handed[k] + Cardinality(Delivering(k)) <= Cardinality(Reqs)

RacesSeen ==
    \A r, q \in Reqs : r # q /\ Active(r) /\ Active(q) /\ txn[r].grant = txn[q].grant
                        => txn[r].grant \in raced

\* The only transaction there was on a grant commits to the row it read, or
\* to none: what it decided on is still so.
Current(t) ==
    LET w == row[t.grant] IN
    \/ w.status = "deleted"
    \/ t.op \in {"approve", "deny", "accept"} /\ w.status = "pending"
    \/ t.op = "expire" /\ (w.status = "pending" \/ (w.status = "approved" /\ Is(t.grant, "oauth")))
    \/ t.op = "exchange" /\ w.status = "approved"
    \/ t.op = "deliver" /\ w.status = "approved" /\ w.token = t.secret

StillCurrent == \A r \in Reqs : Active(r) /\ txn[r].grant \notin raced => Current(txn[r])

\* What a grant nobody raced for has led to, by the status of its row.
Serial(g) ==
    /\ \A k, l \in From(g) : k = l
    /\ \A k \in From(g) : handed[k] <= 1
    /\ From(g) # {} => \/ row[g].status \in {"deleted", "consumed"}
                       \/ row[g].status = "approved" /\ Is(g, "device")
    /\ row[g].status = "approved" =>
          \A k \in From(g) : row[g].token = k <=> handed[k] = 0

SerialGrants == \A g \in Grants \ raced : Serial(g)

SealedSpent == \A g \in sealed : Spent(g) /\ InFlight(g) = {}

\* The inductive invariant: what transactions carry, what tables hold, what
\* holds of grants no two transactions raced for, what is over for good.
Held == TxnsFit /\ SecretsApart
Tables == RowsFit /\ RowCoherent /\ KeyMatchesCode /\ UnmintedUnhanded /\ HandedBounded
Unraced == RacesSeen /\ StillCurrent /\ SerialGrants
IInv == Typed /\ Held /\ Tables /\ Unraced /\ SealedSpent
-----------------------------------------------------------------------------
USE OwnerAssumption, NoneAssumption, KindAssumption

\* A session in flight holds a transaction on some row.
LEMMA ActiveTyped ==
    ASSUME Typed, NEW r \in Reqs, Active(r)
    PROVE  /\ txn[r] \in Txn /\ txn[r].grant \in Grants /\ row[txn[r].grant] \in Row
           /\ txn[r].op \in Ops /\ txn[r].member \in Members \cup {None}
           /\ txn[r].scope \in SUBSET Allocs /\ txn[r].code \in Codes \cup {None}
           /\ txn[r].secret \in Secrets \cup {None}
<1>1. txn[r] \in Txn
  BY DEF Typed, Active
<1>2. /\ txn[r].grant \in Grants /\ txn[r].op \in Ops /\ txn[r].member \in Members \cup {None}
      /\ txn[r].scope \in SUBSET Allocs /\ txn[r].code \in Codes \cup {None}
      /\ txn[r].secret \in Secrets \cup {None}
  BY <1>1 DEF Txn
<1> QED BY <1>1, <1>2 DEF Typed

\* A commit ends its session's transaction and nobody else's.
LEMMA CommitsEffect ==
    ASSUME Typed, NEW r \in Reqs, NEW op, Commits(r, op)
    PROVE  /\ Active(r) /\ txn[r].op = op /\ row[txn[r].grant].status # "deleted"
           /\ txn' \in [Reqs -> {Idle} \cup Txn]
           /\ txn'[r] = Idle /\ \A q \in Reqs \ {r} : txn'[q] = txn[q]
           /\ UNCHANGED <<raced, gone, allowlist>>
BY DEF Typed, Commits, Active

\* What is inserted for a transaction is the one secret it carries.
LEMMA MintEffect ==
    ASSUME Typed, NEW r \in Reqs, Active(r), NEW S \in SUBSET Allocs,
           txn[r].secret # None, Mint(r, S)
    PROVE  LET t == txn[r] IN
           /\ t.secret \in Secrets
           /\ secret' \in [Secrets -> {None} \cup Minted]
           /\ secret'[t.secret] = [grant |-> t.grant, code |-> t.code, scope |-> S]
           /\ \A k \in Secrets \ {t.secret} : secret'[k] = secret[k]
<1>1. /\ txn[r].secret \in Secrets /\ txn[r].grant \in Grants /\ txn[r].code \in Codes \cup {None}
  BY ActiveTyped
<1> QED BY <1>1 DEF Mint, Minted, Typed

\* Handing a secret out counts for that secret alone.
LEMMA HandEffect ==
    ASSUME Typed, NEW k \in Secrets, handed' = [handed EXCEPT ![k] = @ + 1]
    PROVE  /\ handed' \in [Secrets -> Nat] /\ handed'[k] = handed[k] + 1
           /\ \A l \in Secrets \ {k} : handed'[l] = handed[l]
BY DEF Typed

\* Approving a device request (approve).
LEMMA DeviceApproveEffect ==
    ASSUME Typed, TxnsFit, NEW r \in Reqs, CommitDeviceApprove(r)
    PROVE  LET t == txn[r]  g == txn[r].grant IN
           /\ Is(g, "device") /\ Mint(r, t.scope) /\ t.secret # None
           /\ row' \in [Grants -> Row] /\ \A h \in Grants \ {g} : row'[h] = row[h]
           /\ row'[g].status = "approved" /\ row'[g].code = row[g].code
           /\ row'[g].scope = t.scope /\ row'[g].token = t.secret /\ row'[g].cred = t.secret
           /\ UNCHANGED <<handed, given>>
<1> DEFINE t == txn[r]
           g == t.grant
           w == row[g]
           w2 == [w EXCEPT !.status = "approved", !.member = t.member, !.scope = t.scope,
                           !.token = t.secret, !.cred = t.secret]
<1>1. Active(r) /\ t.op = "approve" /\ Is(g, "device")
  BY CommitsEffect DEF CommitDeviceApprove
<1>2. g \in Grants /\ w \in Row /\ t.member \in Members \cup {None} /\ t.scope \in SUBSET Allocs
      /\ t.secret \in Secrets \cup {None}
  BY <1>1, ActiveTyped
<1>3. w2 \in Row /\ w2.status = "approved" /\ w2.scope = t.scope /\ w2.code = w.code
      /\ w2.token = t.secret /\ w2.cred = t.secret
  BY <1>2 DEF Row, Statuses
<1>4. row' = [row EXCEPT ![g] = w2]
  BY <1>2 DEF CommitDeviceApprove, Typed
<1>5. t.secret # None
  BY <1>1 DEF TxnsFit, Fits, Mints
<1>6. Mint(r, t.scope) /\ UNCHANGED <<handed, given>>
  BY DEF CommitDeviceApprove
<1> HIDE DEF w2
<1> QED BY <1>1, <1>2, <1>3, <1>4, <1>5, <1>6 DEF Typed

\* Approving a consent (approve_consent).
LEMMA OAuthApproveEffect ==
    ASSUME Typed, TxnsFit, NEW r \in Reqs, NEW c \in Codes, CommitOAuthApprove(r, c)
    PROVE  LET t == txn[r]  g == txn[r].grant IN
           /\ Is(g, "oauth")
           /\ row' \in [Grants -> Row] /\ \A h \in Grants \ {g} : row'[h] = row[h]
           /\ row'[g].status = "approved" /\ row'[g].code = c /\ row'[g].scope = t.scope
           /\ row'[g].token = row[g].token /\ row'[g].cred = row[g].cred
           /\ given[c] = None /\ given'[c] = [grant |-> g, scope |-> t.scope]
           /\ \A d \in Codes \ {c} : given'[d] = given[d]
           /\ given' \in [Codes -> {None} \cup Issued]
           /\ UNCHANGED <<secret, handed>>
<1> DEFINE t == txn[r]
           g == t.grant
           w == row[g]
           w2 == [w EXCEPT !.status = "approved", !.scope = t.scope, !.code = c, !.due = FALSE]
<1>1. Active(r) /\ Is(g, "oauth")
  BY CommitsEffect DEF CommitOAuthApprove
<1>2. g \in Grants /\ w \in Row /\ t.scope \in SUBSET Allocs
  BY <1>1, ActiveTyped
<1>3. w2 \in Row /\ w2.status = "approved" /\ w2.scope = t.scope /\ w2.code = c
      /\ w2.token = w.token /\ w2.cred = w.cred
  BY <1>2 DEF Row, Statuses
<1>4. row' = [row EXCEPT ![g] = w2]
  BY <1>2 DEF CommitOAuthApprove, Typed
<1>5. /\ given[c] = None /\ given' = [given EXCEPT ![c] = [grant |-> g, scope |-> t.scope]]
      /\ UNCHANGED <<secret, handed>>
  BY DEF CommitOAuthApprove
<1>6. /\ given'[c] = [grant |-> g, scope |-> t.scope]
      /\ \A d \in Codes \ {c} : given'[d] = given[d]
      /\ given' \in [Codes -> {None} \cup Issued]
  BY <1>2, <1>5 DEF Issued, Typed
<1> HIDE DEF w2
<1>7. row' \in [Grants -> Row] /\ row'[g] = w2 /\ \A h \in Grants \ {g} : row'[h] = row[h]
  BY <1>2, <1>3, <1>4 DEF Typed
<1> QED BY <1>1, <1>3, <1>5, <1>6, <1>7

\* A denial and an expiry write the status (deny, poll, exchange).
LEMMA CloseEffect ==
    ASSUME Typed, NEW r \in Reqs, CommitDeny(r) \/ CommitExpire(r)
    PROVE  LET g == txn[r].grant IN
           /\ row' \in [Grants -> Row] /\ \A h \in Grants \ {g} : row'[h] = row[h]
           /\ row'[g].status \in {"denied", "expired"} /\ row'[g].code = row[g].code
           /\ row'[g].scope = row[g].scope
           /\ row'[g].token = row[g].token /\ row'[g].cred = row[g].cred
           /\ UNCHANGED <<secret, handed, given>>
<1> DEFINE g == txn[r].grant
           w == row[g]
<1>1. Active(r)
  BY CommitsEffect DEF CommitDeny, CommitExpire
<1>2. g \in Grants /\ w \in Row
  BY <1>1, ActiveTyped
<1>3. ASSUME NEW s \in {"denied", "expired"}, row' = [row EXCEPT ![g].status = s]
      PROVE  row'[g] = [w EXCEPT !.status = s] /\ \A h \in Grants \ {g} : row'[h] = row[h]
  BY <1>2, <1>3 DEF Typed
<1>4. PICK s \in {"denied", "expired"} : row'[g] = [w EXCEPT !.status = s]
                                         /\ \A h \in Grants \ {g} : row'[h] = row[h]
  BY <1>3 DEF CommitDeny, CommitExpire
<1>5. row'[g] \in Row
  BY <1>2, <1>4 DEF Row, Statuses
<1>6. row' \in [Grants -> Row]
  BY <1>4, <1>5 DEF CommitDeny, CommitExpire, Typed
<1>7. /\ row'[g].status = s /\ row'[g].code = row[g].code /\ row'[g].scope = row[g].scope
      /\ row'[g].token = row[g].token /\ row'[g].cred = row[g].cred
  BY <1>2, <1>4 DEF Row
<1> QED BY <1>4, <1>6, <1>7 DEF CommitDeny, CommitExpire

\* A poll hands the token it read out and clears the column (poll).
LEMMA DeliverEffect ==
    ASSUME Typed, TxnsFit, NEW r \in Reqs, CommitDeliver(r)
    PROVE  LET t == txn[r]  g == txn[r].grant IN
           /\ t.secret \in Secrets
           /\ row' \in [Grants -> Row] /\ \A h \in Grants \ {g} : row'[h] = row[h]
           /\ row'[g].status = row[g].status /\ row'[g].code = row[g].code
           /\ row'[g].scope = row[g].scope
           /\ row'[g].token = None /\ row'[g].cred = row[g].cred
           /\ handed' = [handed EXCEPT ![t.secret] = @ + 1]
           /\ UNCHANGED <<secret, given>>
<1> DEFINE g == txn[r].grant
           w == row[g]
           w2 == [w EXCEPT !.token = None]
<1>1. Active(r) /\ txn[r].op = "deliver"
  BY CommitsEffect DEF CommitDeliver
<1>2. g \in Grants /\ w \in Row /\ txn[r].secret \in Secrets \cup {None}
  BY <1>1, ActiveTyped
<1>3. w2 \in Row /\ w2.status = w.status /\ w2.scope = w.scope /\ w2.code = w.code
      /\ w2.token = None /\ w2.cred = w.cred
  BY <1>2 DEF Row
<1>4. row' = [row EXCEPT ![g] = w2]
  BY <1>2 DEF CommitDeliver, Typed
<1>5. txn[r].secret # None
  BY <1>1 DEF TxnsFit, Fits
<1> HIDE DEF w2
<1> QED BY <1>2, <1>3, <1>4, <1>5 DEF CommitDeliver, Typed

\* An exchange and an acceptance consume the row and answer with the secret
\* they mint (exchange, invitation_accept).
LEMMA ConsumeEffect ==
    ASSUME Typed, TxnsFit, NEW r \in Reqs, CommitExchange(r) \/ CommitAccept(r)
    PROVE  LET t == txn[r]  g == txn[r].grant IN
           /\ t.secret \in Secrets /\ t.op \in {"exchange", "accept"}
           /\ t.op = "exchange" => Mint(r, t.scope)
           /\ t.op = "accept" => Mint(r, {})
           /\ row' \in [Grants -> Row] /\ \A h \in Grants \ {g} : row'[h] = row[h]
           /\ row'[g].status = "consumed" /\ row'[g].code = row[g].code
           /\ row'[g].scope = row[g].scope
           /\ row'[g].token = row[g].token /\ row'[g].cred = t.secret
           /\ handed' = [handed EXCEPT ![t.secret] = @ + 1]
           /\ UNCHANGED given
<1> DEFINE t == txn[r]
           g == t.grant
           w == row[g]
           w2 == [w EXCEPT !.status = "consumed", !.cred = t.secret]
<1>1. Active(r) /\ t.op \in {"exchange", "accept"}
  BY CommitsEffect DEF CommitExchange, CommitAccept
<1>2. g \in Grants /\ w \in Row /\ t.secret \in Secrets \cup {None}
  BY <1>1, ActiveTyped
<1>3. w2 \in Row /\ w2.status = "consumed" /\ w2.scope = w.scope /\ w2.code = w.code
      /\ w2.token = w.token /\ w2.cred = t.secret
  BY <1>2 DEF Row, Statuses
<1>4. row' = [row EXCEPT ![g] = w2]
  BY <1>2 DEF CommitExchange, CommitAccept, Typed
<1>5. t.secret # None
  BY <1>1 DEF TxnsFit, Fits, Mints
<1>6. /\ t.op = "exchange" => Mint(r, t.scope)
      /\ t.op = "accept" => Mint(r, {})
  BY DEF CommitExchange, CommitAccept, Commits
<1> HIDE DEF w2
<1> QED BY <1>1, <1>2, <1>3, <1>4, <1>5, <1>6 DEF CommitExchange, CommitAccept, Typed

\* Registrations, lapses and deletions: the rows that change with no
\* transaction of a session (authorize, issue, create_consent, delete).
RowStep ==
    \/ \E g \in Grants, m \in Members : Authorize(g) \/ Invite(g, m) \/ CreateConsent(g, m)
    \/ \E g \in Grants : Lapse(g)
    \/ \E m \in Members : DeleteMember(m)

\* A row is registered once, lapses while it is open, and is deleted whole.
LEMMA RowsEffect ==
    ASSUME Typed, RowStep
    PROVE  /\ row' \in [Grants -> Row] /\ gone' \subseteq Members
           /\ \A h \in Grants :
                 \/ row'[h] = row[h]
                 \/ row[h].status \in {"pending", "approved"} /\ row'[h] = [row[h] EXCEPT !.due = TRUE]
                 \/ row'[h] = [Blank EXCEPT !.status = "deleted"]
                 \/ /\ row[h] = Blank /\ row'[h].status = "pending"
                    /\ row'[h].code = None /\ row'[h].token = None /\ row'[h].scope = {}
           /\ UNCHANGED <<secret, handed, given, raced, allowlist, txn>>
<1>1. ASSUME NEW g \in Grants, NEW m \in Members, Authorize(g) \/ Invite(g, m) \/ CreateConsent(g, m)
      PROVE  /\ row' \in [Grants -> Row] /\ UNCHANGED gone
             /\ \A h \in Grants :
                   \/ row'[h] = row[h]
                   \/ /\ row[h] = Blank /\ row'[h].status = "pending"
                      /\ row'[h].code = None /\ row'[h].token = None /\ row'[h].scope = {}
             /\ UNCHANGED <<secret, handed, given, raced, allowlist, txn>>
  <2>1. PICK w : /\ row[g] = Blank /\ row' = [row EXCEPT ![g] = w]
                 /\ w = [Blank EXCEPT !.status = "pending"]
                    \/ w = [Blank EXCEPT !.status = "pending", !.member = m]
    BY <1>1 DEF Authorize, Invite, CreateConsent, NewConsent, Typed
  <2>2. w \in Row /\ w.status = "pending" /\ w.code = None /\ w.token = None /\ w.scope = {}
    BY <2>1 DEF Blank, Row, Statuses
  <2> QED BY <1>1, <2>1, <2>2 DEF Typed, Authorize, Invite, CreateConsent
<1>2. ASSUME NEW g \in Grants, Lapse(g)
      PROVE  /\ row' \in [Grants -> Row] /\ UNCHANGED gone
             /\ \A h \in Grants :
                   \/ row'[h] = row[h]
                   \/ row[h].status \in {"pending", "approved"} /\ row'[h] = [row[h] EXCEPT !.due = TRUE]
             /\ UNCHANGED <<secret, handed, given, raced, allowlist, txn>>
  <2>1. /\ row' = [row EXCEPT ![g] = [row[g] EXCEPT !.due = TRUE]]
        /\ row[g] \in Row /\ row[g].status \in {"pending", "approved"}
    BY <1>2 DEF Lapse, Typed
  <2>2. [row[g] EXCEPT !.due = TRUE] \in Row
    BY <2>1 DEF Row
  <2> QED BY <1>2, <2>1, <2>2 DEF Lapse, Typed
<1>3. ASSUME NEW m \in Members, DeleteMember(m)
      PROVE  /\ row' \in [Grants -> Row] /\ gone' \subseteq Members
             /\ \A h \in Grants : row'[h] = row[h] \/ row'[h] = [Blank EXCEPT !.status = "deleted"]
             /\ UNCHANGED <<secret, handed, given, raced, allowlist, txn>>
  <2>1. [Blank EXCEPT !.status = "deleted"] \in Row
    BY DEF Blank, Row, Statuses
  <2> QED BY <1>3, <2>1 DEF DeleteMember, Typed
<1>4. gone \subseteq Members
  BY DEF Typed
<1> QED
  <2>1. CASE \E g \in Grants, m \in Members : Authorize(g) \/ Invite(g, m) \/ CreateConsent(g, m)
    BY <1>1, <1>4, <2>1
  <2>2. CASE \E g \in Grants : Lapse(g)
    BY <1>2, <1>4, <2>2
  <2>3. CASE \E m \in Members : DeleteMember(m)
    BY <1>3, <2>3
  <2> QED BY <2>1, <2>2, <2>3 DEF RowStep

\* A handler's reads put one transaction in flight and change no table.
LEMMA BeginEffect ==
    ASSUME Typed, NEW r \in Reqs, NEW op \in Ops, NEW g \in Grants, NEW m \in Members \cup {None},
           NEW S \in SUBSET Allocs, NEW c \in Codes \cup {None}, NEW k \in Secrets \cup {None},
           Begin(r, op, g, m, S, c, k)
    PROVE  LET t == txn'[r] IN
           /\ txn[r] = Idle /\ t # Idle
           /\ t.op = op /\ t.grant = g /\ t.scope = S /\ t.code = c /\ t.secret = k
           /\ \A q \in Reqs \ {r} : txn'[q] = txn[q]
           /\ txn' \in [Reqs -> {Idle} \cup Txn]
           /\ raced' = IF InFlight(g) = {} THEN raced ELSE raced \cup {g}
           /\ UNCHANGED <<row, secret, handed, given, gone, allowlist>>
<1> DEFINE t == [op |-> op, grant |-> g, member |-> m, scope |-> S, code |-> c, secret |-> k]
<1>1. t \in Txn /\ t # Idle
  BY DEF Txn, Idle, Ops
<1>2. txn' = [txn EXCEPT ![r] = t]
  BY DEF Begin
<1> QED BY <1>1, <1>2 DEF Typed, Begin, db

\* Each handler that begins: what its checks have established of the
\* transaction it puts in flight.
LEMMA BeginChecked ==
    ASSUME Typed, RowsFit, RowCoherent, NEW r \in Reqs, NEW g \in Grants, NEW S \in SUBSET Allocs,
           \/ \E m \in Members, k \in Secrets : BeginDeviceApprove(r, g, m, S, k)
           \/ BeginOAuthApprove(r, g, S)
           \/ BeginDeny(r, g) \/ BeginExpire(r, g) \/ BeginDeliver(r, g)
           \/ \E k \in Secrets : BeginExchange(r, g, k) \/ BeginAccept(r, g, k)
    PROVE  \E op \in Ops, m \in Members \cup {None}, T \in SUBSET Allocs,
              c \in Codes \cup {None}, k \in Secrets \cup {None} :
              LET t == txn'[r] IN
              /\ Begin(r, op, g, m, T, c, k)
              /\ Fits(t) /\ Current(t) /\ ~ Spent(g)
              /\ Mints(t) => Fresh(k)
              /\ k # None => Mints(t) \/ t.op = "deliver"
              /\ t.op = "deliver" => handed[k] = 0
<1> USE DEF Ops
<1>1. row[g] \in Row /\ row[g].code \in Codes \cup {None} /\ row[g].member \in Members \cup {None}
      /\ row[g].scope \in SUBSET Allocs /\ row[g].token \in Secrets \cup {None}
  BY DEF Typed, Row
<1>2. ASSUME NEW m \in Members, NEW k \in Secrets, BeginDeviceApprove(r, g, m, S, k)
      PROVE  /\ Begin(r, "approve", g, m, S, None, k)
             /\ Fits(txn'[r]) /\ Current(txn'[r]) /\ ~ Spent(g)
             /\ Fresh(k) /\ Mints(txn'[r]) /\ txn'[r].op = "approve"
  <2>1. Begin(r, "approve", g, m, S, None, k) /\ k \in Secrets \cup {None}
    BY <1>2 DEF BeginDeviceApprove
  <2>2. LET t == txn'[r] IN t.op = "approve" /\ t.grant = g /\ t.code = None /\ t.secret = k
    BY <2>1 DEF Begin, Typed
  <2> QED BY <1>1, <1>2, <2>1, <2>2 DEF BeginDeviceApprove, Fits, Current, Spent, Fresh, Mints, Pending, Is
<1>3. ASSUME BeginOAuthApprove(r, g, S)
      PROVE  /\ Begin(r, "approve", g, row[g].member, S, None, None)
             /\ Fits(txn'[r]) /\ Current(txn'[r]) /\ ~ Spent(g)
             /\ ~ Mints(txn'[r]) /\ txn'[r].op = "approve"
  <2>1. Begin(r, "approve", g, row[g].member, S, None, None)
    BY <1>3 DEF BeginOAuthApprove
  <2>2. LET t == txn'[r] IN t.op = "approve" /\ t.grant = g /\ t.code = None /\ t.secret = None
    BY <2>1 DEF Begin, Typed
  <2> QED BY <1>1, <1>3, <2>1, <2>2 DEF BeginOAuthApprove, Fits, Current, Spent, Mints, Pending, Is
<1>4. ASSUME BeginDeny(r, g)
      PROVE  /\ Begin(r, "deny", g, None, {}, None, None)
             /\ Fits(txn'[r]) /\ Current(txn'[r]) /\ ~ Spent(g)
             /\ ~ Mints(txn'[r]) /\ txn'[r].op = "deny"
  <2>1. Begin(r, "deny", g, None, {}, None, None)
    BY <1>4 DEF BeginDeny
  <2>2. LET t == txn'[r] IN t.op = "deny" /\ t.grant = g /\ t.code = None /\ t.secret = None
    BY <2>1 DEF Begin, Typed
  <2> QED BY <1>4, <2>1, <2>2 DEF BeginDeny, Fits, Current, Spent, Mints, Pending, Is
<1>5. ASSUME BeginExpire(r, g)
      PROVE  /\ Begin(r, "expire", g, None, {}, None, None)
             /\ Fits(txn'[r]) /\ Current(txn'[r]) /\ ~ Spent(g)
             /\ ~ Mints(txn'[r]) /\ txn'[r].op = "expire"
  <2>1. Begin(r, "expire", g, None, {}, None, None)
    BY <1>5 DEF BeginExpire
  <2>2. LET t == txn'[r] IN t.op = "expire" /\ t.grant = g /\ t.code = None /\ t.secret = None
    BY <2>1 DEF Begin, Typed
  <2>3. \/ row[g].status = "pending"
        \/ row[g].status = "approved" /\ Is(g, "oauth")
    BY <1>5 DEF BeginExpire
  <2>4. Fits(txn'[r]) /\ ~ Mints(txn'[r])
    BY <2>2, <2>3 DEF Fits, Mints, Is
  <2>5. Current(txn'[r]) /\ ~ Spent(g)
    BY <2>2, <2>3 DEF Current, Spent, Is
  <2> QED BY <2>1, <2>2, <2>4, <2>5
<1>6. ASSUME BeginDeliver(r, g)
      PROVE  /\ Begin(r, "deliver", g, None, {}, None, row[g].token)
             /\ Fits(txn'[r]) /\ Current(txn'[r]) /\ ~ Spent(g)
             /\ ~ Mints(txn'[r]) /\ txn'[r].op = "deliver" /\ handed[row[g].token] = 0
  <2>1. Begin(r, "deliver", g, None, {}, None, row[g].token)
    BY <1>6 DEF BeginDeliver
  <2>2. /\ row[g].token # None /\ handed[row[g].token] = 0
        /\ secret[row[g].token] = [grant |-> g, code |-> None, scope |-> row[g].scope]
    BY <1>6 DEF BeginDeliver, RowsFit, RowCoherent
  <2>3. secret[row[g].token] # None /\ secret[row[g].token].grant = g
    BY <1>1, <2>2 DEF Minted
  <2>4. LET t == txn'[r] IN t.op = "deliver" /\ t.grant = g /\ t.code = None /\ t.secret = row[g].token
    BY <2>1 DEF Begin, Typed
  <2> QED BY <1>1, <1>6, <2>1, <2>2, <2>3, <2>4 DEF BeginDeliver, Fits, Current, Spent, Mints, Is
<1>7. ASSUME NEW k \in Secrets, BeginExchange(r, g, k)
      PROVE  /\ Begin(r, "exchange", g, row[g].member, row[g].scope, row[g].code, k)
             /\ Fits(txn'[r]) /\ Current(txn'[r]) /\ ~ Spent(g)
             /\ Fresh(k) /\ Mints(txn'[r]) /\ txn'[r].op = "exchange"
  <2>1. Begin(r, "exchange", g, row[g].member, row[g].scope, row[g].code, k) /\ k \in Secrets \cup {None}
    BY <1>7 DEF BeginExchange
  <2>2. row[g].code # None /\ given[row[g].code] = [grant |-> g, scope |-> row[g].scope]
    BY <1>7 DEF BeginExchange, RowsFit
  <2>3. LET t == txn'[r] IN /\ t.op = "exchange" /\ t.grant = g /\ t.scope = row[g].scope
                            /\ t.code = row[g].code /\ t.secret = k
    BY <2>1 DEF Begin, Typed
  <2> QED BY <1>1, <1>7, <2>1, <2>2, <2>3 DEF BeginExchange, Fits, Current, Spent, Fresh, Mints, Is
<1>8. ASSUME NEW k \in Secrets, BeginAccept(r, g, k)
      PROVE  /\ Begin(r, "accept", g, row[g].member, {}, None, k)
             /\ Fits(txn'[r]) /\ Current(txn'[r]) /\ ~ Spent(g)
             /\ Fresh(k) /\ Mints(txn'[r]) /\ txn'[r].op = "accept"
  <2>1. Begin(r, "accept", g, row[g].member, {}, None, k) /\ k \in Secrets \cup {None}
    BY <1>8 DEF BeginAccept
  <2>2. LET t == txn'[r] IN t.op = "accept" /\ t.grant = g /\ t.code = None /\ t.secret = k
    BY <2>1 DEF Begin, Typed
  <2>3. Is(g, "invite") /\ row[g].status = "pending" /\ Fresh(k)
    BY <1>8 DEF BeginAccept, Pending
  <2>4. k # None /\ secret[k] = None
    BY <1>1, <2>3 DEF Fresh
  <2>5. Fits(txn'[r]) /\ Mints(txn'[r])
    BY <2>2, <2>3, <2>4 DEF Fits, Mints, Is
  <2>6. Current(txn'[r]) /\ ~ Spent(g)
    BY <2>2, <2>3 DEF Current, Spent, Is
  <2> QED BY <2>1, <2>2, <2>3, <2>5, <2>6
<1> HIDE DEF Ops
<1>9. {"approve", "deny", "expire", "deliver", "exchange", "accept"} = Ops
  BY DEF Ops
<1> QED
  <2>1. CASE \E m \in Members, k \in Secrets : BeginDeviceApprove(r, g, m, S, k)
    BY <1>2, <1>9, <2>1
  <2>2. CASE BeginOAuthApprove(r, g, S)
    BY <1>1, <1>3, <1>9, <2>2
  <2>3. CASE BeginDeny(r, g)
    BY <1>4, <1>9, <2>3
  <2>4. CASE BeginExpire(r, g)
    BY <1>5, <1>9, <2>4
  <2>5. CASE BeginDeliver(r, g)
    <3>1. /\ "deliver" \in Ops /\ None \in Members \cup {None} /\ {} \in SUBSET Allocs
          /\ None \in Codes \cup {None} /\ row[g].token \in Secrets \cup {None}
      BY <1>1, <1>9
    <3> QED BY <1>6, <2>5, <3>1
  <2>6. CASE \E k \in Secrets : BeginExchange(r, g, k)
    BY <1>1, <1>7, <1>9, <2>6
  <2>7. CASE \E k \in Secrets : BeginAccept(r, g, k)
    BY <1>1, <1>8, <1>9, <2>7
  <2> QED BY <2>1, <2>2, <2>3, <2>4, <2>5, <2>6, <2>7

-----------------------------------------------------------------------------
\* The invariant, group by group.  What follows of a step is first said of any
\* step that ends transactions or leaves them, then of the ones that begin one.

\* The only secret a step mints is the one of the transaction it ends.
MintsOnly(r) ==
    /\ \A k \in Secrets : secret[k] # None => secret'[k] = secret[k]
    /\ \A k \in Secrets : secret'[k] # secret[k] =>
          /\ Active(r) /\ Mints(txn[r]) /\ txn[r].secret = k
          /\ txn'[r] = Idle

Ends(r) == txn'[r] = Idle /\ \A q \in Reqs \ {r} : txn'[q] = txn[q]

\* Rows are not unwritten, codes not reissued, secrets not unminted: the other
\* sessions' transactions stay what they were.
LEMMA HeldKept ==
    ASSUME Typed, Held, NEW r \in Reqs, Ends(r) \/ txn' = txn, MintsOnly(r),
           \A g \in Grants : row[g].status # "none" => row'[g].status # "none",
           \A c \in Codes : given[c] # None => given'[c] = given[c]
    PROVE  Held'
<1>1. \A q \in Reqs : Active(q)' => Active(q) /\ txn'[q] = txn[q]
  BY DEF Ends, Active
<1>2. TxnsFit'
  <2> SUFFICES ASSUME NEW q \in Reqs, Active(q)' PROVE Fits(txn[q])'
    BY <1>1 DEF TxnsFit
  <2> DEFINE t == txn[q]
  <2>1. Active(q) /\ txn'[q] = t /\ Fits(t)
    BY <1>1 DEF Held, TxnsFit
  <2>2. /\ t.grant \in Grants /\ t.scope \in SUBSET Allocs
        /\ t.code \in Codes \cup {None} /\ t.secret \in Secrets \cup {None}
    BY <2>1, ActiveTyped
  <2>3. row'[t.grant].status # "none"
    BY <2>1, <2>2 DEF Fits
  <2>4. t.op = "exchange" => given'[t.code] = [grant |-> t.grant, scope |-> t.scope]
    <3>1. [grant |-> t.grant, scope |-> t.scope] # None
      BY <2>2 DEF Issued
    <3> QED BY <2>1, <2>2, <3>1 DEF Fits
  <2>5. t.op = "deliver" => secret'[t.secret] = secret[t.secret]
    BY <2>1, <2>2 DEF Fits, MintsOnly
  <2>6. Mints(t) => secret'[t.secret] = None
    <3> SUFFICES ASSUME Mints(t), secret'[t.secret] # None PROVE FALSE
      OBVIOUS
    <3>1. t.secret \in Secrets /\ secret[t.secret] = None
      BY <2>1, <2>2 DEF Fits
    <3>2. Active(r) /\ Mints(txn[r]) /\ txn[r].secret = t.secret /\ txn'[r] = Idle
      BY <3>1 DEF MintsOnly
    <3>3. q # r
      BY <3>2 DEF Active
    <3> QED BY <2>1, <3>2, <3>3 DEF Held, SecretsApart
  <2>7. /\ t.op = "approve" => ~ Is(t.grant, "invite")
        /\ t.op = "accept" => Is(t.grant, "invite")
        /\ t.op = "exchange" => Is(t.grant, "oauth") /\ t.code # None
        /\ t.op # "exchange" => t.code = None
        /\ t.op = "deliver" => /\ Is(t.grant, "device") /\ t.secret # None
                               /\ secret[t.secret] # None /\ secret[t.secret].grant = t.grant
        /\ Mints(t) => t.secret # None
    BY <2>1 DEF Fits
  <2> QED BY <2>1, <2>3, <2>4, <2>5, <2>6, <2>7 DEF Fits, Mints, Is
<1>3. SecretsApart'
  BY <1>1 DEF Held, SecretsApart
<1> QED BY <1>2, <1>3 DEF Held

\* A handler that begins carries a secret of its own or one already minted.
LEMMA HeldBegun ==
    ASSUME Typed, Held, NEW r \in Reqs, NEW op \in Ops, NEW g \in Grants,
           NEW m \in Members \cup {None}, NEW S \in SUBSET Allocs,
           NEW c \in Codes \cup {None}, NEW k \in Secrets \cup {None},
           Begin(r, op, g, m, S, c, k), Fits(txn'[r]), Mints(txn'[r]) => Fresh(k),
           k # None => Mints(txn'[r]) \/ txn'[r].op = "deliver"
    PROVE  Held'
<1>1. /\ txn[r] = Idle /\ txn'[r].secret = k /\ txn'[r] # Idle
      /\ \A q \in Reqs \ {r} : txn'[q] = txn[q]
      /\ UNCHANGED <<row, secret, given>>
  BY BeginEffect
<1>2. TxnsFit'
  BY <1>1 DEF Held, TxnsFit, Fits, Mints, Is, Active
<1>3. SecretsApart'
  <2> SUFFICES ASSUME NEW p \in Reqs, NEW q \in Reqs, p # q, Active(p)', Active(q)', Mints(txn'[p])
               PROVE  txn'[q].secret # txn'[p].secret
    BY DEF SecretsApart, Mints
  <2>1. CASE p = r
    BY <1>1, <2>1 DEF Fresh, Active
  <2>2. CASE q = r
    <3>1. Fits(txn[p]) /\ txn'[p] = txn[p] /\ Active(p) /\ Mints(txn[p])
      BY <1>1, <2>2 DEF Held, TxnsFit, Active
    <3>2. txn[p].secret \in Secrets /\ secret[txn[p].secret] = None
      BY <3>1, ActiveTyped DEF Fits
    <3>3. ~ Mints(txn'[r]) /\ k = txn[p].secret => FALSE
      BY <1>1, <3>2 DEF Fits
    <3> QED BY <1>1, <2>2, <3>1, <3>2, <3>3 DEF Fresh, Active
  <2>3. CASE p # r /\ q # r
    BY <1>1, <2>3 DEF Held, SecretsApart, Active
  <2> QED BY <2>1, <2>2, <2>3
<1> QED BY <1>2, <1>3 DEF Held

\* A secret is on its way out through sessions there are.
LEMMA DeliveringFinite ==
    ASSUME NEW k \in Secrets
    PROVE  /\ IsFiniteSet(Delivering(k)) /\ Cardinality(Delivering(k)) \in Nat
           /\ Cardinality(Delivering(k)) <= Cardinality(Reqs) /\ Cardinality(Reqs) \in Nat
           /\ \A T \in SUBSET Delivering(k) : /\ IsFiniteSet(T) /\ Cardinality(T) \in Nat
                                              /\ Cardinality(T) <= Cardinality(Delivering(k))
<1>1. Delivering(k) \in SUBSET Reqs
  BY DEF Delivering
<1>2. IsFiniteSet(Delivering(k)) /\ Cardinality(Delivering(k)) <= Cardinality(Reqs)
  BY <1>1, ReqsAssumption, FS_Subset
<1>3. Cardinality(Delivering(k)) \in Nat /\ Cardinality(Reqs) \in Nat
  BY <1>2, ReqsAssumption, FS_CardinalityType
<1>4. ASSUME NEW T \in SUBSET Delivering(k)
      PROVE  /\ IsFiniteSet(T) /\ Cardinality(T) \in Nat
             /\ Cardinality(T) <= Cardinality(Delivering(k))
  <2>1. IsFiniteSet(T) /\ Cardinality(T) <= Cardinality(Delivering(k))
    BY <1>2, <1>4, FS_Subset
  <2> QED BY <2>1, FS_CardinalityType
<1> QED BY <1>2, <1>3, <1>4

\* A secret nobody begins to hand out, and that is not handed out once more,
\* stays within its bound.
LEMMA BoundKept ==
    ASSUME Typed, HandedBounded, NEW k \in Secrets, Delivering(k)' \subseteq Delivering(k),
           handed'[k] = handed[k]
    PROVE  (handed[k] + Cardinality(Delivering(k)) <= Cardinality(Reqs))'
<1> DEFINE D == Delivering(k)
           E == Delivering(k)'
<1>1. Cardinality(E) \in Nat /\ Cardinality(E) <= Cardinality(D) /\ Cardinality(D) \in Nat
      /\ Cardinality(Reqs) \in Nat
  BY DeliveringFinite
<1>2. handed[k] \in Nat /\ handed[k] + Cardinality(D) <= Cardinality(Reqs)
  BY DEF Typed, HandedBounded
<1> QED BY <1>1, <1>2

\* The first response a secret is in is one of the responses there can be.
LEMMA BoundFirst ==
    ASSUME NEW k \in Secrets, handed'[k] = 0
    PROVE  (handed[k] + Cardinality(Delivering(k)) <= Cardinality(Reqs))'
<1> DEFINE E == Delivering(k)'
<1>1. E \in SUBSET Reqs
  BY DEF Delivering
<1>2. Cardinality(E) <= Cardinality(Reqs) /\ IsFiniteSet(E)
  BY <1>1, ReqsAssumption, FS_Subset
<1>3. Cardinality(E) \in Nat /\ Cardinality(Reqs) \in Nat
  BY <1>2, ReqsAssumption, FS_CardinalityType
<1> QED BY <1>2, <1>3

\* Ending a transaction, or none, begins no delivery.
LEMMA BoundedKept ==
    ASSUME Typed, HandedBounded, NEW r \in Reqs, Ends(r) \/ txn' = txn, UNCHANGED handed
    PROVE  HandedBounded'
<1> SUFFICES ASSUME NEW k \in Secrets
             PROVE  (handed[k] + Cardinality(Delivering(k)) <= Cardinality(Reqs))'
  BY DEF HandedBounded
<1>1. Delivering(k)' \subseteq Delivering(k)
  BY DEF Delivering, Ends, Active
<1> QED BY <1>1, BoundKept

\* A row that is registered, lapses or is deleted names no more than before.
LEMMA RowsTables ==
    ASSUME Typed, Tables, RowStep
    PROVE  Tables'
<1>1. UNCHANGED <<secret, handed, given, txn>>
  BY RowsEffect
<1>2. ASSUME NEW h \in Grants
      PROVE  /\ row[h] \in Row /\ row'[h] \in Row
             /\ row'[h].code # None =>
                  row'[h].code = row[h].code /\ row'[h].scope = row[h].scope
             /\ row'[h].status = "approved" => row[h].status = "approved" /\ row'[h].code = row[h].code
             /\ row'[h].token # None => /\ row'[h].token = row[h].token /\ row'[h].scope = row[h].scope
                                        /\ row'[h].cred = row[h].cred
             /\ row'[h].status = "consumed" => row[h].status = "consumed" /\ row'[h].cred = row[h].cred
  <2>1. row[h] \in Row /\ row'[h] \in Row
    BY RowsEffect DEF Typed
  <2>2. \/ row'[h] = row[h]
        \/ row[h].status \in {"pending", "approved"} /\ row'[h] = [row[h] EXCEPT !.due = TRUE]
        \/ row'[h] = [Blank EXCEPT !.status = "deleted"]
        \/ /\ row[h] = Blank /\ row'[h].status = "pending"
           /\ row'[h].code = None /\ row'[h].token = None /\ row'[h].scope = {}
    BY RowsEffect
  <2> QED BY <2>1, <2>2 DEF Row, Blank
<1>3. RowsFit'
  <2> SUFFICES ASSUME NEW h \in Grants
               PROVE  /\ row'[h].code # None => Is(h, "oauth") /\
                           given[row'[h].code] = [grant |-> h, scope |-> row'[h].scope]
                      /\ row'[h].status = "approved" /\ Is(h, "oauth") => row'[h].code # None
                      /\ row'[h].token # None => Is(h, "device") /\ handed[row'[h].token] = 0
    BY <1>1 DEF RowsFit, Is
  <2>1. RowsFit
    BY DEF Tables
  <2> QED BY <1>2, <2>1 DEF RowsFit
<1>4. RowCoherent'
  <2> SUFFICES ASSUME NEW h \in Grants
               PROVE  /\ row'[h].token # None =>
                         /\ row'[h].cred = row'[h].token
                         /\ secret[row'[h].token] = [grant |-> h, code |-> None, scope |-> row'[h].scope]
                      /\ row'[h].status = "consumed" => row'[h].cred \in From(h)
    BY <1>1 DEF RowCoherent, From
  <2>1. RowCoherent
    BY DEF Tables
  <2> QED BY <1>2, <2>1 DEF RowCoherent
<1>5. HandedBounded' /\ KeyMatchesCode' /\ UnmintedUnhanded'
  <2>1. HandedBounded'
    <3> SUFFICES ASSUME NEW k \in Secrets
                 PROVE  (handed[k] + Cardinality(Delivering(k)) <= Cardinality(Reqs))'
      BY DEF HandedBounded
    <3>1. Delivering(k)' = Delivering(k)
      BY <1>1 DEF Delivering, Active
    <3> QED BY <1>1, <3>1, BoundKept DEF Tables
  <2> QED BY <1>1, <2>1 DEF Tables, KeyMatchesCode, UnmintedUnhanded
<1> QED BY <1>3, <1>4, <1>5 DEF Tables

\* Denials and expiries leave every column but the status.
LEMMA CloseTables ==
    ASSUME Typed, Tables, NEW r \in Reqs, CommitDeny(r) \/ CommitExpire(r)
    PROVE  Tables'
<1> DEFINE g == txn[r].grant
<1>1. /\ UNCHANGED <<secret, handed, given>> /\ Ends(r)
      /\ \A h \in Grants \ {g} : row'[h] = row[h]
      /\ row'[g].status \in {"denied", "expired"} /\ row'[g].code = row[g].code
      /\ row'[g].scope = row[g].scope
      /\ row'[g].token = row[g].token /\ row'[g].cred = row[g].cred
  BY CloseEffect, CommitsEffect DEF CommitDeny, CommitExpire, Ends
<1> HIDE DEF g
<1>2. RowsFit'
  BY <1>1 DEF Tables, RowsFit, Is
<1>3. RowCoherent'
  BY <1>1 DEF Tables, RowCoherent, From
<1>4. HandedBounded' /\ KeyMatchesCode' /\ UnmintedUnhanded'
  BY <1>1, BoundedKept DEF Tables, KeyMatchesCode, UnmintedUnhanded
<1> QED BY <1>2, <1>3, <1>4 DEF Tables

\* A transaction that ends with nothing written.
LEMMA AbortTables ==
    ASSUME Typed, Tables, NEW r \in Reqs, Ends(r), UNCHANGED <<row, secret, handed, given>>
    PROVE  Tables'
<1>1. HandedBounded'
  BY BoundedKept DEF Tables
<1> QED BY <1>1 DEF Tables, RowsFit, RowCoherent, KeyMatchesCode, UnmintedUnhanded, Is, From

\* A code is issued for the scope that is written beside it, once.
LEMMA OAuthApproveTables ==
    ASSUME Typed, TxnsFit, Tables, NEW r \in Reqs, NEW c \in Codes, CommitOAuthApprove(r, c)
    PROVE  Tables'
<1> DEFINE t == txn[r]
           g == t.grant
<1>1. /\ UNCHANGED <<secret, handed>> /\ Ends(r) /\ Is(g, "oauth")
      /\ \A h \in Grants \ {g} : row'[h] = row[h]
      /\ row'[g].status = "approved" /\ row'[g].code = c /\ row'[g].scope = t.scope
      /\ row'[g].token = row[g].token /\ row'[g].cred = row[g].cred
      /\ given[c] = None /\ given'[c] = [grant |-> g, scope |-> t.scope]
      /\ \A d \in Codes \ {c} : given'[d] = given[d]
  <2>1. Ends(r)
    BY CommitsEffect DEF CommitOAuthApprove, Ends
  <2> QED BY <2>1, OAuthApproveEffect
<1>2. g \in Grants /\ t.scope \in SUBSET Allocs
  BY ActiveTyped, CommitsEffect DEF CommitOAuthApprove
<1> HIDE DEF g, t
<1>3. c # None
  OBVIOUS
<1>4. \A d \in Codes : \A e \in Issued : given[d] = e => given'[d] = e
  <2>1. None \notin Issued /\ given[c] = None /\ \A d \in Codes \ {c} : given'[d] = given[d]
    BY <1>1
  <2> QED BY <2>1
<1>5. RowsFit'
  <2> SUFFICES ASSUME NEW h \in Grants
               PROVE  /\ row'[h].code # None => Is(h, "oauth") /\
                           given'[row'[h].code] = [grant |-> h, scope |-> row'[h].scope]
                      /\ row'[h].status = "approved" /\ Is(h, "oauth") => row'[h].code # None
                      /\ row'[h].token # None => Is(h, "device") /\ handed[row'[h].token] = 0
    BY <1>1 DEF RowsFit, Is
  <2>1. CASE h = g
    <3>1. row[g].token = None
      BY <1>1, <1>2 DEF Tables, RowsFit, Is
    <3> QED BY <1>1, <1>3, <2>1, <3>1
  <2>2. CASE h # g
    <3>1. row'[h] = row[h] /\ row[h] \in Row
      BY <1>1, <2>2 DEF Typed
    <3>2. row[h].scope \in SUBSET Allocs /\ row[h].code \in Codes \cup {None}
      BY <3>1 DEF Row
    <3>3. [grant |-> h, scope |-> row[h].scope] \in Issued
      BY <3>2 DEF Issued
    <3> QED BY <1>4, <3>1, <3>2, <3>3 DEF Tables, RowsFit
  <2> QED BY <2>1, <2>2
<1>6. RowCoherent'
  <2> SUFFICES ASSUME NEW h \in Grants
               PROVE  /\ row'[h].token # None =>
                         /\ row'[h].cred = row'[h].token
                         /\ secret[row'[h].token] = [grant |-> h, code |-> None, scope |-> row'[h].scope]
                      /\ row'[h].status = "consumed" => row'[h].cred \in From(h)
    BY <1>1 DEF RowCoherent, From
  <2>1. h = g => row'[h].token = None
    BY <1>1, <1>2 DEF Tables, RowsFit, Is
  <2> QED BY <1>1, <2>1 DEF Tables, RowCoherent
<1>7. KeyMatchesCode'
  <2> SUFFICES ASSUME NEW k \in Secrets, secret[k] # None, secret[k].code # None
               PROVE  given'[secret[k].code] = [grant |-> secret[k].grant, scope |-> secret[k].scope]
    BY <1>1 DEF KeyMatchesCode
  <2>1. /\ secret[k].code \in Codes
        /\ [grant |-> secret[k].grant, scope |-> secret[k].scope] \in Issued
    BY DEF Typed, Minted, Issued
  <2> QED BY <1>4, <2>1 DEF Tables, KeyMatchesCode
<1>8. HandedBounded' /\ UnmintedUnhanded'
  BY <1>1, BoundedKept DEF Tables, UnmintedUnhanded
<1> QED BY <1>5, <1>6, <1>7, <1>8 DEF Tables

\* A poll clears the one column that names the token it hands out.
LEMMA DeliverTables ==
    ASSUME Typed, TxnsFit, Tables, NEW r \in Reqs, CommitDeliver(r)
    PROVE  Tables'
<1> DEFINE t == txn[r]
           g == t.grant
<1>1. Ends(r) /\ Active(r) /\ t.op = "deliver"
  BY CommitsEffect DEF CommitDeliver, Ends
<1>2. /\ t.secret \in Secrets
      /\ \A h \in Grants \ {g} : row'[h] = row[h]
      /\ row'[g].status = row[g].status /\ row'[g].code = row[g].code
      /\ row'[g].scope = row[g].scope
      /\ row'[g].token = None /\ row'[g].cred = row[g].cred
      /\ UNCHANGED <<secret, given>>
  BY DeliverEffect
<1>3. /\ handed'[t.secret] = handed[t.secret] + 1
      /\ \A l \in Secrets \ {t.secret} : handed'[l] = handed[l]
  BY <1>2, DeliverEffect, HandEffect
<1>4. secret[t.secret] # None /\ secret[t.secret].grant = g
  BY <1>1 DEF TxnsFit, Fits
<1>5. g \in Grants
  BY <1>1, ActiveTyped
<1>6. RowsFit'
  <2> SUFFICES ASSUME NEW h \in Grants
               PROVE  /\ row'[h].code # None => Is(h, "oauth") /\
                           given[row'[h].code] = [grant |-> h, scope |-> row'[h].scope]
                      /\ row'[h].status = "approved" /\ Is(h, "oauth") => row'[h].code # None
                      /\ row'[h].token # None => Is(h, "device") /\ handed'[row'[h].token] = 0
    BY <1>2 DEF RowsFit, Is
  <2>1. CASE h = g
    BY <1>2, <2>1 DEF Tables, RowsFit
  <2>2. CASE h # g
    <3>1. row'[h] = row[h] /\ row[h].token \in Secrets \cup {None}
      BY <1>2, <2>2 DEF Typed, Row
    <3>2. row[h].token # None => row[h].token # t.secret
      <4> SUFFICES ASSUME row[h].token # None PROVE secret[row[h].token].grant = h
        BY <1>4, <2>2
      <4>1. secret[row[h].token] = [grant |-> h, code |-> None, scope |-> row[h].scope]
        BY DEF Tables, RowCoherent
      <4> QED BY <4>1
    <3> QED BY <1>3, <3>1, <3>2 DEF Tables, RowsFit
  <2> QED BY <2>1, <2>2
<1>7. RowCoherent'
  <2> SUFFICES ASSUME NEW h \in Grants
               PROVE  /\ row'[h].token # None =>
                         /\ row'[h].cred = row'[h].token
                         /\ secret[row'[h].token] = [grant |-> h, code |-> None, scope |-> row'[h].scope]
                      /\ row'[h].status = "consumed" => row'[h].cred \in From(h)
    BY <1>2 DEF RowCoherent, From
  <2> QED BY <1>2 DEF Tables, RowCoherent
<1>8. KeyMatchesCode' /\ UnmintedUnhanded'
  BY <1>2, <1>3, <1>4 DEF Tables, KeyMatchesCode, UnmintedUnhanded
<1>9. HandedBounded'
  <2> SUFFICES ASSUME NEW k \in Secrets
               PROVE  (handed[k] + Cardinality(Delivering(k)) <= Cardinality(Reqs))'
    BY DEF HandedBounded
  <2>1. Delivering(k)' \subseteq Delivering(k)
    BY <1>1 DEF Delivering, Ends, Active
  <2>2. CASE k = t.secret
    <3> DEFINE D == Delivering(k)
               E == Delivering(k)'
    <3>1. r \in D /\ r \notin E
      BY <1>1, <2>2 DEF Delivering, Ends, Active
    <3>2. E \in SUBSET (D \ {r}) /\ D \ {r} \in SUBSET D
      BY <2>1, <3>1
    <3>3. IsFiniteSet(D) /\ Cardinality(D) \in Nat /\ Cardinality(Reqs) \in Nat
      BY DeliveringFinite
    <3>4. IsFiniteSet(D \ {r}) /\ Cardinality(D \ {r}) = Cardinality(D) - 1
      BY <3>1, <3>3, FS_RemoveElement
    <3>5. Cardinality(E) <= Cardinality(D \ {r}) /\ IsFiniteSet(E)
      BY <3>2, <3>4, FS_Subset
    <3>6. Cardinality(E) \in Nat
      BY <3>5, FS_CardinalityType
    <3>7. handed[k] \in Nat /\ handed[k] + Cardinality(D) <= Cardinality(Reqs)
      BY DEF Typed, Tables, HandedBounded
    <3> QED BY <1>3, <2>2, <3>3, <3>4, <3>5, <3>6, <3>7
  <2>3. CASE k # t.secret
    BY <1>3, <2>1, <2>3, BoundKept DEF Tables
  <2> QED BY <2>2, <2>3
<1> QED BY <1>6, <1>7, <1>8, <1>9 DEF Tables

\* A minted secret was carried by its transaction, and is nobody else's.
LEMMA MintIsOnly ==
    ASSUME Typed, TxnsFit, NEW r \in Reqs, Active(r), Mints(txn[r]), Ends(r),
           NEW S \in SUBSET Allocs, Mint(r, S)
    PROVE  /\ MintsOnly(r) /\ txn[r].secret \in Secrets /\ secret[txn[r].secret] = None
           /\ secret'[txn[r].secret] = [grant |-> txn[r].grant, code |-> txn[r].code, scope |-> S]
           /\ secret'[txn[r].secret] \in Minted
           /\ \A k \in Secrets \ {txn[r].secret} : secret'[k] = secret[k]
<1>1. txn[r].secret # None /\ secret[txn[r].secret] = None
  BY DEF TxnsFit, Fits
<1>2. /\ txn[r].secret \in Secrets
      /\ secret'[txn[r].secret] = [grant |-> txn[r].grant, code |-> txn[r].code, scope |-> S]
      /\ \A k \in Secrets \ {txn[r].secret} : secret'[k] = secret[k]
  BY <1>1, MintEffect
<1>3. txn[r].grant \in Grants /\ txn[r].code \in Codes \cup {None}
  BY ActiveTyped
<1> QED BY <1>1, <1>2, <1>3 DEF MintsOnly, Ends, Minted

\* The key of a device request is minted for the scope written beside its token.
LEMMA DeviceApproveTables ==
    ASSUME Typed, TxnsFit, Tables, NEW r \in Reqs, CommitDeviceApprove(r)
    PROVE  Tables'
<1> DEFINE t == txn[r]
           g == t.grant
           k == t.secret
<1>1. Ends(r) /\ Active(r) /\ t.op = "approve"
  BY CommitsEffect DEF CommitDeviceApprove, Ends
<1>2. /\ Is(g, "device") /\ Mint(r, t.scope)
      /\ \A h \in Grants \ {g} : row'[h] = row[h]
      /\ row'[g].status = "approved" /\ row'[g].code = row[g].code
      /\ row'[g].scope = t.scope /\ row'[g].token = k /\ row'[g].cred = k
      /\ UNCHANGED <<handed, given>>
  BY DeviceApproveEffect
<1>3. g \in Grants /\ t.scope \in SUBSET Allocs /\ t.code = None
  BY <1>1, ActiveTyped DEF TxnsFit, Fits
<1>4. Mints(t)
  BY <1>1, <1>2 DEF Mints
<1>5. /\ MintsOnly(r) /\ k \in Secrets /\ secret[k] = None /\ secret'[k] \in Minted
      /\ secret'[k] = [grant |-> g, code |-> None, scope |-> t.scope]
  BY <1>1, <1>2, <1>3, <1>4, MintIsOnly
<1>6. \A l \in Secrets : secret[l] # None => secret'[l] = secret[l]
  BY <1>5 DEF MintsOnly
<1>7. RowsFit'
  <2> SUFFICES ASSUME NEW h \in Grants
               PROVE  /\ row'[h].code # None => Is(h, "oauth") /\
                           given[row'[h].code] = [grant |-> h, scope |-> row'[h].scope]
                      /\ row'[h].status = "approved" /\ Is(h, "oauth") => row'[h].code # None
                      /\ row'[h].token # None => Is(h, "device") /\ handed[row'[h].token] = 0
    BY <1>2 DEF RowsFit, Is
  <2>1. CASE h = g
    <3>1. handed[k] = 0 /\ ~ Is(g, "oauth")
      BY <1>2, <1>5 DEF Tables, UnmintedUnhanded, Is
    <3>2. row[g].code = None
      BY <1>2, <1>3 DEF Tables, RowsFit, Is
    <3> QED BY <1>2, <2>1, <3>1, <3>2
  <2>2. CASE h # g
    BY <1>2, <2>2 DEF Tables, RowsFit
  <2> QED BY <2>1, <2>2
<1>8. RowCoherent'
  <2> SUFFICES ASSUME NEW h \in Grants
               PROVE  /\ row'[h].token # None =>
                         /\ row'[h].cred = row'[h].token
                         /\ secret'[row'[h].token] = [grant |-> h, code |-> None, scope |-> row'[h].scope]
                      /\ row'[h].status = "consumed" => row'[h].cred \in From(h)'
    BY DEF RowCoherent
  <2>1. CASE h = g
    BY <1>2, <1>5, <2>1
  <2>2. CASE h # g
    <3>1. row'[h] = row[h] /\ row[h].token \in Secrets \cup {None}
      BY <1>2, <2>2 DEF Typed, Row
    <3>2. \A l \in From(h) : l \in From(h)'
      BY <1>6 DEF From
    <3>3. row[h].token # None => secret[row[h].token] # None
      <4>1. row[h].token # None => secret[row[h].token] = [grant |-> h, code |-> None, scope |-> row[h].scope]
        BY DEF Tables, RowCoherent
      <4>2. row[h].scope \in SUBSET Allocs
        BY DEF Typed, Row
      <4>3. [grant |-> h, code |-> None, scope |-> row[h].scope] # None
        BY <4>2 DEF Minted
      <4> QED BY <4>1, <4>3
    <3> QED BY <1>6, <3>1, <3>2, <3>3 DEF Tables, RowCoherent
  <2> QED BY <2>1, <2>2
<1>9. KeyMatchesCode'
  BY <1>2, <1>5 DEF Tables, KeyMatchesCode, MintsOnly
<1>10. UnmintedUnhanded' /\ HandedBounded'
  BY <1>1, <1>2, <1>6, BoundedKept DEF Tables, UnmintedUnhanded
<1> QED BY <1>7, <1>8, <1>9, <1>10 DEF Tables

\* A consumed row names the secret it was consumed for, minted for the scope
\* the transaction read beside the code.
LEMMA ConsumeTables ==
    ASSUME Typed, Held, Tables, NEW r \in Reqs, CommitExchange(r) \/ CommitAccept(r)
    PROVE  Tables'
<1> DEFINE t == txn[r]
           g == t.grant
           k == t.secret
<1>1. Ends(r) /\ Active(r) /\ TxnsFit
  BY CommitsEffect DEF CommitExchange, CommitAccept, Ends, Held
<1>2. /\ k \in Secrets /\ t.op \in {"exchange", "accept"}
      /\ \A h \in Grants \ {g} : row'[h] = row[h]
      /\ row'[g].status = "consumed" /\ row'[g].code = row[g].code
      /\ row'[g].scope = row[g].scope
      /\ row'[g].token = row[g].token /\ row'[g].cred = k
      /\ UNCHANGED given
  BY <1>1, ConsumeEffect
<1>3. /\ handed'[k] = handed[k] + 1
      /\ \A l \in Secrets \ {k} : handed'[l] = handed[l]
  BY <1>1, <1>2, ConsumeEffect, HandEffect
<1>4. /\ g \in Grants /\ t.scope \in SUBSET Allocs /\ t.code \in Codes \cup {None}
      /\ ~ Is(g, "device")
      /\ t.op = "exchange" => given[t.code] = [grant |-> g, scope |-> t.scope]
      /\ t.op = "accept" => t.code = None
  <2>1. Fits(t)
    BY <1>1 DEF TxnsFit
  <2>2. Is(g, "oauth") \/ Is(g, "invite")
    BY <1>2, <2>1 DEF Fits
  <2> QED BY <1>1, <1>2, <2>1, <2>2, ActiveTyped DEF Fits, Is
<1>5. PICK S \in SUBSET Allocs : Mint(r, S) /\ (t.op = "exchange" => S = t.scope)
  BY <1>1, <1>2, <1>4, ConsumeEffect
<1>6. /\ MintsOnly(r) /\ secret[k] = None /\ secret'[k] \in Minted
      /\ secret'[k] = [grant |-> g, code |-> t.code, scope |-> S]
  BY <1>1, <1>2, <1>5, MintIsOnly DEF Mints
<1>7. \A l \in Secrets : secret[l] # None => l # k /\ secret'[l] = secret[l]
  BY <1>6 DEF MintsOnly
<1>8. \A h \in Grants : row[h].token # None => row[h].token # k /\ secret[row[h].token] # None
  <2> SUFFICES ASSUME NEW h \in Grants, row[h].token # None
               PROVE  secret[row[h].token] # None
    BY <1>6
  <2>1. secret[row[h].token] = [grant |-> h, code |-> None, scope |-> row[h].scope]
    BY DEF Tables, RowCoherent
  <2>2. row[h].scope \in SUBSET Allocs
    BY DEF Typed, Row
  <2>3. [grant |-> h, code |-> None, scope |-> row[h].scope] # None
    BY <2>2 DEF Minted
  <2> QED BY <2>1, <2>3
<1>9. RowsFit'
  <2> SUFFICES ASSUME NEW h \in Grants
               PROVE  /\ row'[h].code # None => Is(h, "oauth") /\
                           given[row'[h].code] = [grant |-> h, scope |-> row'[h].scope]
                      /\ row'[h].status = "approved" /\ Is(h, "oauth") => row'[h].code # None
                      /\ row'[h].token # None => Is(h, "device") /\ handed'[row'[h].token] = 0
    BY <1>2 DEF RowsFit, Is
  <2>1. row[h].token \in Secrets \cup {None}
    BY DEF Typed, Row
  <2>2. row'[h].token = row[h].token /\ (row[h].token # None => handed'[row[h].token] = handed[row[h].token])
    BY <1>2, <1>3, <1>8, <2>1
  <2>3. /\ row'[h].code = row[h].code /\ row'[h].scope = row[h].scope
        /\ row'[h].status = "approved" => row[h].status = "approved"
    BY <1>2
  <2> QED BY <2>2, <2>3 DEF Tables, RowsFit
<1>10. RowCoherent'
  <2> SUFFICES ASSUME NEW h \in Grants
               PROVE  /\ row'[h].token # None =>
                         /\ row'[h].cred = row'[h].token
                         /\ secret'[row'[h].token] = [grant |-> h, code |-> None, scope |-> row'[h].scope]
                      /\ row'[h].status = "consumed" => row'[h].cred \in From(h)'
    BY DEF RowCoherent
  <2>1. CASE h = g
    <3>1. row[g].token = None
      BY <1>4 DEF Tables, RowsFit
    <3>2. k \in From(h)'
      <4>1. secret'[k] # None
        BY <1>6
      <4>2. secret'[k].grant = h
        BY <1>6, <2>1
      <4> QED BY <1>2, <4>1, <4>2 DEF From
    <3> QED BY <1>2, <2>1, <3>1, <3>2
  <2>2. CASE h # g
    <3>1. row'[h] = row[h] /\ row[h].token \in Secrets \cup {None}
      BY <1>2, <2>2 DEF Typed, Row
    <3>2. \A l \in From(h) : l \in From(h)'
      BY <1>7 DEF From
    <3> QED BY <1>7, <1>8, <3>1, <3>2 DEF Tables, RowCoherent
  <2> QED BY <2>1, <2>2
<1>11. KeyMatchesCode'
  <2> SUFFICES ASSUME NEW l \in Secrets, secret'[l] # None, secret'[l].code # None
               PROVE  given[secret'[l].code] = [grant |-> secret'[l].grant, scope |-> secret'[l].scope]
    BY <1>2 DEF KeyMatchesCode
  <2>1. CASE l = k
    BY <1>2, <1>4, <1>5, <1>6, <2>1
  <2>2. CASE l # k
    BY <1>6, <2>2 DEF Tables, KeyMatchesCode, MintsOnly
  <2> QED BY <2>1, <2>2
<1>12. UnmintedUnhanded'
  BY <1>3, <1>6, <1>7 DEF Tables, UnmintedUnhanded
<1>13. HandedBounded'
  <2> SUFFICES ASSUME NEW l \in Secrets
               PROVE  (handed[l] + Cardinality(Delivering(l)) <= Cardinality(Reqs))'
    BY DEF HandedBounded
  <2>1. Delivering(l)' \subseteq Delivering(l)
    BY <1>1 DEF Delivering, Ends, Active
  <2>2. CASE l = k
    <3>1. Delivering(l) = {}
      BY <1>1, <1>6, <2>2 DEF Delivering, TxnsFit, Fits
    <3>2. Delivering(l)' = {}
      BY <2>1, <3>1
    <3> HIDE DEF k
    <3>3. handed[l] = 0 /\ handed'[l] = 1 /\ Cardinality(Delivering(l)') = 0
      BY <1>2, <1>3, <1>6, <2>2, <3>2, FS_EmptySet DEF Tables, UnmintedUnhanded
    <3>4. {r} \in SUBSET Reqs /\ Cardinality({r}) = 1
      BY FS_Singleton
    <3>5. 1 <= Cardinality(Reqs) /\ Cardinality(Reqs) \in Nat
      BY <3>4, ReqsAssumption, FS_Subset, FS_CardinalityType
    <3> QED BY <3>3, <3>5
  <2>3. CASE l # k
    BY <1>3, <2>1, <2>3, BoundKept DEF Tables
  <2> QED BY <2>2, <2>3
<1> QED BY <1>9, <1>10, <1>11, <1>12, <1>13 DEF Tables

\* A transaction that begins writes nothing; a poll begins before the token it
\* read was handed out.
LEMMA BeginTables ==
    ASSUME Typed, Tables, NEW r \in Reqs, txn[r] = Idle,
           \A q \in Reqs \ {r} : txn'[q] = txn[q], UNCHANGED <<row, secret, handed, given>>,
           txn'[r].op = "deliver" => handed[txn'[r].secret] = 0
    PROVE  Tables'
<1>1. HandedBounded'
  <2> SUFFICES ASSUME NEW k \in Secrets
               PROVE  (handed[k] + Cardinality(Delivering(k)) <= Cardinality(Reqs))'
    BY DEF HandedBounded
  <2>1. CASE handed[k] = 0
    BY <2>1, BoundFirst
  <2>2. CASE handed[k] # 0
    <3>1. Delivering(k)' \subseteq Delivering(k)
      BY <2>2 DEF Delivering, Active
    <3> QED BY <3>1, BoundKept DEF Tables
  <2> QED BY <2>1, <2>2
<1> QED BY <1>1 DEF Tables, RowsFit, RowCoherent, KeyMatchesCode, UnmintedUnhanded, Is, From

-----------------------------------------------------------------------------
\* A commit on a grant nobody raced for was the only one under way there: the
\* transactions of other grants find their rows as they read them.
LEMMA UnracedKept ==
    ASSUME Typed, RacesSeen, StillCurrent, NEW r \in Reqs, Active(r), Ends(r), UNCHANGED raced,
           \A h \in Grants \ {txn[r].grant} : row'[h] = row[h]
    PROVE  RacesSeen' /\ StillCurrent'
<1>1. \A q \in Reqs : Active(q)' => q # r /\ Active(q) /\ txn'[q] = txn[q]
  BY DEF Ends, Active
<1>2. RacesSeen'
  BY <1>1 DEF RacesSeen
<1>3. ASSUME NEW q \in Reqs, Active(q)', txn'[q].grant \notin raced
      PROVE  Current(txn[q])'
  <2>1. q # r /\ Active(q) /\ txn'[q] = txn[q]
    BY <1>1, <1>3
  <2>2. txn[q].grant # txn[r].grant /\ txn[q].grant \in Grants
    BY <1>3, <2>1, ActiveTyped DEF RacesSeen
  <2>3. Current(txn[q]) /\ row'[txn[q].grant] = row[txn[q].grant]
    BY <1>3, <2>1, <2>2 DEF StillCurrent
  <2> QED BY <2>1, <2>3 DEF Current, Is
<1>4. StillCurrent'
  BY <1>3 DEF StillCurrent
<1> QED BY <1>2, <1>4

\* What other grants led to does not change with one grant's row.
LEMMA SerialElsewhere ==
    ASSUME Typed, NEW g \in Grants, NEW h \in Grants \ {g}, Serial(h), row'[h] = row[h],
           From(h)' = From(h), \A k \in From(h) : handed'[k] = handed[k]
    PROVE  Serial(h)'
BY DEF Serial, Is

\* A secret minted from one grant is not from another.
LEMMA FromElsewhere ==
    ASSUME NEW g \in Grants, NEW k \in Secrets, secret[k] = None, secret'[k].grant = g,
           \A l \in Secrets \ {k} : secret'[l] = secret[l], secret'[k] \in Minted
    PROVE  /\ \A h \in Grants \ {g} : From(h)' = From(h) /\ k \notin From(h)
           /\ From(g)' = From(g) \cup {k}
BY DEF From

\* Denials and expiries: nothing was minted, and nothing will be.
LEMMA CloseSerial ==
    ASSUME Typed, Unraced, NEW r \in Reqs, CommitDeny(r) \/ CommitExpire(r)
    PROVE  Unraced'
<1> DEFINE t == txn[r]
<1>g. PICK g : g = t.grant
  OBVIOUS
<1>1. /\ Ends(r) /\ Active(r) /\ t.op \in {"deny", "expire"} /\ row[g].status # "deleted" /\ UNCHANGED raced
  BY <1>g, CommitsEffect DEF CommitDeny, CommitExpire, Ends
<1>2. /\ UNCHANGED <<secret, handed>> /\ row'[g].status \in {"denied", "expired"}
      /\ \A h \in Grants \ {g} : row'[h] = row[h]
  BY <1>g, CloseEffect
<1>3. RacesSeen' /\ StillCurrent'
  BY <1>g, <1>1, <1>2, UnracedKept DEF Unraced
<1>4. g \in Grants
  BY <1>1, <1>g, ActiveTyped
<1>5. \A h \in Grants : From(h)' = From(h)
  BY <1>2 DEF From
<1>6. ASSUME g \notin raced PROVE Serial(g)'
  <2>1. Current(t) /\ Serial(g)
    BY <1>g, <1>1, <1>4, <1>6 DEF Unraced, StillCurrent, SerialGrants
  <2>2. row[g].status = "pending" \/ (row[g].status = "approved" /\ Is(g, "oauth"))
    BY <1>g, <1>1, <2>1 DEF Current
  <2>3. From(g) = {}
    BY <2>1, <2>2 DEF Serial, Is
  <2>4. From(g)' = {}
    BY <1>4, <1>5, <2>3
  <2> QED BY <1>2, <2>4 DEF Serial
<1>7. ASSUME NEW h \in Grants \ {g}, h \notin raced PROVE Serial(h)'
  BY <1>2, <1>4, <1>5, <1>7, SerialElsewhere DEF Unraced, SerialGrants
<1> QED BY <1>1, <1>3, <1>6, <1>7 DEF Unraced, SerialGrants

\* An approved consent: still nothing minted.
LEMMA OAuthApproveSerial ==
    ASSUME Typed, TxnsFit, Unraced, NEW r \in Reqs, NEW c \in Codes, CommitOAuthApprove(r, c)
    PROVE  Unraced'
<1> DEFINE t == txn[r]
<1>g. PICK g : g = t.grant
  OBVIOUS
<1>1. /\ Ends(r) /\ Active(r) /\ t.op = "approve" /\ row[g].status # "deleted" /\ UNCHANGED raced
  BY <1>g, CommitsEffect DEF CommitOAuthApprove, Ends
<1>2. /\ UNCHANGED <<secret, handed>> /\ Is(g, "oauth")
      /\ \A h \in Grants \ {g} : row'[h] = row[h]
  BY <1>g, OAuthApproveEffect
<1>3. RacesSeen' /\ StillCurrent'
  BY <1>g, <1>1, <1>2, UnracedKept DEF Unraced
<1>4. g \in Grants
  BY <1>1, <1>g, ActiveTyped
<1>5. \A h \in Grants : From(h)' = From(h)
  BY <1>2 DEF From
<1>6. ASSUME g \notin raced PROVE Serial(g)'
  <2>1. Current(t) /\ Serial(g)
    BY <1>g, <1>1, <1>4, <1>6 DEF Unraced, StillCurrent, SerialGrants
  <2>2. row[g].status = "pending"
    BY <1>g, <1>1, <2>1 DEF Current
  <2>3. From(g) = {}
    BY <2>1, <2>2 DEF Serial
  <2>4. From(g)' = {}
    BY <1>4, <1>5, <2>3
  <2> QED BY <1>2, <2>4 DEF Serial
<1>7. ASSUME NEW h \in Grants \ {g}, h \notin raced PROVE Serial(h)'
  BY <1>2, <1>4, <1>5, <1>7, SerialElsewhere DEF Unraced, SerialGrants
<1> QED BY <1>1, <1>3, <1>6, <1>7 DEF Unraced, SerialGrants

\* An approved device request: its one key waits to be handed out.
LEMMA DeviceApproveSerial ==
    ASSUME Typed, TxnsFit, UnmintedUnhanded, Unraced, NEW r \in Reqs, CommitDeviceApprove(r)
    PROVE  Unraced'
<1> DEFINE t == txn[r]
<1>g. PICK g : g = t.grant
  OBVIOUS
<1>k. PICK k : k = t.secret
  OBVIOUS
<1>1. /\ Ends(r) /\ Active(r) /\ t.op = "approve" /\ row[g].status # "deleted" /\ UNCHANGED raced
  BY <1>g, CommitsEffect DEF CommitDeviceApprove, Ends
<1>2. /\ UNCHANGED handed /\ Is(g, "device") /\ Mint(r, t.scope)
      /\ row'[g].status = "approved" /\ row'[g].token = k
      /\ \A h \in Grants \ {g} : row'[h] = row[h]
  BY <1>g, <1>k, DeviceApproveEffect
<1>3. RacesSeen' /\ StillCurrent'
  BY <1>g, <1>1, <1>2, UnracedKept DEF Unraced
<1>4. g \in Grants /\ t.scope \in SUBSET Allocs /\ Mints(t)
  BY <1>1, <1>2, <1>g, ActiveTyped DEF Mints
<1>5. /\ MintsOnly(r) /\ k \in Secrets /\ secret[k] = None /\ secret'[k] \in Minted /\ secret'[k].grant = g
  <2>1. /\ MintsOnly(r) /\ t.secret \in Secrets /\ secret[t.secret] = None
        /\ secret'[t.secret] = [grant |-> t.grant, code |-> t.code, scope |-> t.scope]
        /\ secret'[t.secret] \in Minted
    BY <1>1, <1>2, <1>4, MintIsOnly
  <2> QED BY <1>g, <1>k, <2>1
<1>6. /\ \A h \in Grants \ {g} : From(h)' = From(h)
      /\ From(g)' = From(g) \cup {k}
  BY <1>4, <1>5, FromElsewhere DEF MintsOnly
<1>7. ASSUME g \notin raced PROVE Serial(g)'
  <2>1. Current(t) /\ Serial(g)
    BY <1>g, <1>1, <1>4, <1>7 DEF Unraced, StillCurrent, SerialGrants
  <2>2. row[g].status = "pending"
    BY <1>g, <1>1, <2>1 DEF Current
  <2>3. From(g)' = {k}
    BY <1>6, <2>1, <2>2 DEF Serial
  <2>4. handed[k] = 0
    BY <1>5 DEF UnmintedUnhanded
  <2> QED BY <1>2, <2>3, <2>4 DEF Serial, Is
<1>8. ASSUME NEW h \in Grants \ {g}, h \notin raced PROVE Serial(h)'
  BY <1>2, <1>4, <1>6, <1>8, SerialElsewhere DEF Unraced, SerialGrants
<1> QED BY <1>1, <1>3, <1>7, <1>8 DEF Unraced, SerialGrants

\* A consumed grant: its one secret is in one response.
LEMMA ConsumeSerial ==
    ASSUME Typed, TxnsFit, UnmintedUnhanded, Unraced, NEW r \in Reqs,
           CommitExchange(r) \/ CommitAccept(r)
    PROVE  Unraced'
<1> DEFINE t == txn[r]
<1>g. PICK g : g = t.grant
  OBVIOUS
<1>k. PICK k : k = t.secret
  OBVIOUS
<1>1. /\ Ends(r) /\ Active(r) /\ row[g].status # "deleted" /\ UNCHANGED raced
  BY <1>g, CommitsEffect DEF CommitExchange, CommitAccept, Ends
<1>2. /\ t.op \in {"exchange", "accept"} /\ k \in Secrets
      /\ row'[g].status = "consumed"
      /\ \A h \in Grants \ {g} : row'[h] = row[h]
      /\ handed' = [handed EXCEPT ![k] = @ + 1]
  BY <1>g, <1>k, ConsumeEffect
<1>3. RacesSeen' /\ StillCurrent'
  BY <1>g, <1>1, <1>2, UnracedKept DEF Unraced
<1>4. g \in Grants /\ t.scope \in SUBSET Allocs /\ Mints(t)
  BY <1>1, <1>2, <1>g, ActiveTyped DEF Mints
<1>5. PICK S \in SUBSET Allocs : Mint(r, S)
  BY <1>2, <1>4, ConsumeEffect
<1>6. /\ MintsOnly(r) /\ secret[k] = None /\ secret'[k] \in Minted /\ secret'[k].grant = g
  <2>1. /\ MintsOnly(r) /\ secret[t.secret] = None
        /\ secret'[t.secret] = [grant |-> t.grant, code |-> t.code, scope |-> S]
        /\ secret'[t.secret] \in Minted
    BY <1>1, <1>4, <1>5, MintIsOnly
  <2> QED BY <1>g, <1>k, <2>1
<1>7. /\ \A h \in Grants \ {g} : From(h)' = From(h) /\ k \notin From(h)
      /\ From(g)' = From(g) \cup {k}
  BY <1>2, <1>4, <1>6, FromElsewhere DEF MintsOnly
<1>8. handed'[k] = 1 /\ \A l \in Secrets \ {k} : handed'[l] = handed[l]
  <2>1. handed[k] = 0
    BY <1>2, <1>6 DEF UnmintedUnhanded
  <2>2. handed'[k] = handed[k] + 1 /\ \A l \in Secrets \ {k} : handed'[l] = handed[l]
    BY <1>2, HandEffect
  <2> QED BY <2>1, <2>2
<1>9. ASSUME g \notin raced PROVE Serial(g)'
  <2>1. Current(t) /\ Serial(g) /\ Fits(t)
    BY <1>g, <1>1, <1>4, <1>9 DEF Unraced, StillCurrent, SerialGrants, TxnsFit
  <2>2. row[g].status = "pending" \/ (row[g].status = "approved" /\ ~ Is(g, "device"))
    BY <1>g, <1>1, <1>2, <2>1 DEF Current, Fits, Is
  <2>3. From(g)' = {k}
    BY <1>7, <2>1, <2>2 DEF Serial
  <2> QED BY <1>2, <1>8, <2>3 DEF Serial, Is
<1>10. ASSUME NEW h \in Grants \ {g}, h \notin raced PROVE Serial(h)'
  <2>1. \A l \in From(h) : handed'[l] = handed[l]
    BY <1>7, <1>8 DEF From
  <2> QED BY <1>2, <1>4, <1>7, <1>10, <2>1, SerialElsewhere DEF Unraced, SerialGrants
<1> QED BY <1>1, <1>3, <1>9, <1>10 DEF Unraced, SerialGrants

\* A key handed out by a poll: the one there is, for the first time.
LEMMA DeliverSerial ==
    ASSUME Typed, TxnsFit, RowsFit, Unraced, NEW r \in Reqs, CommitDeliver(r)
    PROVE  Unraced'
<1> DEFINE t == txn[r]
<1>g. PICK g : g = t.grant
  OBVIOUS
<1>k. PICK k : k = t.secret
  OBVIOUS
<1>1. /\ Ends(r) /\ Active(r) /\ t.op = "deliver" /\ row[g].status # "deleted" /\ UNCHANGED raced
  BY <1>g, CommitsEffect DEF CommitDeliver, Ends
<1>2. /\ k \in Secrets /\ row'[g].status = row[g].status /\ row'[g].token = None
      /\ \A h \in Grants \ {g} : row'[h] = row[h]
      /\ UNCHANGED secret
      /\ handed' = [handed EXCEPT ![k] = @ + 1]
  BY <1>g, <1>k, DeliverEffect
<1>3. RacesSeen' /\ StillCurrent'
  BY <1>g, <1>1, <1>2, UnracedKept DEF Unraced
<1>4. g \in Grants /\ secret[k] # None /\ secret[k].grant = g
  BY <1>1, <1>g, <1>k, ActiveTyped DEF TxnsFit, Fits
<1>5. \A h \in Grants : From(h)' = From(h)
  BY <1>2 DEF From
<1>6. handed'[k] = handed[k] + 1 /\ \A l \in Secrets \ {k} : handed'[l] = handed[l]
  BY <1>2, HandEffect
<1>7. ASSUME g \notin raced PROVE Serial(g)'
  <2>1. Current(t) /\ Serial(g)
    BY <1>g, <1>1, <1>4, <1>7 DEF Unraced, StillCurrent, SerialGrants
  <2>2. row[g].status = "approved" /\ row[g].token = k
    BY <1>g, <1>k, <1>1, <2>1 DEF Current
  <2>3. handed[k] = 0 /\ Is(g, "device")
    BY <1>2, <1>4, <2>2 DEF RowsFit
  <2>4. From(g)' = {k}
    BY <1>2, <1>4, <1>5, <2>1 DEF From, Serial
  <2>5. handed'[k] = 1
    BY <1>6, <2>3
  <2> QED BY <1>2, <2>2, <2>3, <2>4, <2>5 DEF Serial, Is
<1>8. ASSUME NEW h \in Grants \ {g}, h \notin raced PROVE Serial(h)'
  <2>1. \A l \in From(h) : handed'[l] = handed[l]
    BY <1>4, <1>6, <1>8 DEF From
  <2> QED BY <1>2, <1>4, <1>5, <1>8, <2>1, SerialElsewhere DEF Unraced, SerialGrants
<1> QED BY <1>1, <1>3, <1>7, <1>8 DEF Unraced, SerialGrants

\* Registering, lapsing and deleting change nothing of what was minted; a row
\* there was no grant in has led to nothing.
LEMMA RowsSerial ==
    ASSUME Typed, TxnsFit, Unraced, RowStep
    PROVE  Unraced'
<1>1. UNCHANGED <<secret, handed, raced, txn>>
  BY RowsEffect
<1>2. RacesSeen'
  BY <1>1 DEF Unraced, RacesSeen, Active
<1>3. ASSUME NEW h \in Grants
      PROVE  \/ row'[h].status = row[h].status /\ row'[h].token = row[h].token
             \/ row'[h].status = "deleted"
             \/ row[h].status = "none" /\ row'[h].status = "pending"
  <2>1. row[h] \in Row
    BY DEF Typed
  <2>2. \/ row'[h] = row[h]
        \/ row[h].status \in {"pending", "approved"} /\ row'[h] = [row[h] EXCEPT !.due = TRUE]
        \/ row'[h] = [Blank EXCEPT !.status = "deleted"]
        \/ /\ row[h] = Blank /\ row'[h].status = "pending"
           /\ row'[h].code = None /\ row'[h].token = None /\ row'[h].scope = {}
    BY RowsEffect
  <2> QED BY <2>1, <2>2 DEF Row, Blank
<1>4. StillCurrent'
  <2> SUFFICES ASSUME NEW q \in Reqs, Active(q), txn[q].grant \notin raced
               PROVE  Current(txn[q])'
    BY <1>1 DEF StillCurrent, Active
  <2>1. Current(txn[q]) /\ Fits(txn[q]) /\ txn[q].grant \in Grants
    BY ActiveTyped DEF Unraced, StillCurrent, TxnsFit
  <2>2. row[txn[q].grant].status # "none"
    BY <2>1 DEF Fits
  <2> QED BY <1>1, <1>3, <2>1, <2>2 DEF Current, Is
<1>5. ASSUME NEW h \in Grants, Serial(h) PROVE Serial(h)'
  <2>1. From(h)' = From(h)
    BY <1>1 DEF From
  <2>2. row[h].status = "none" => From(h) = {}
    BY <1>5 DEF Serial
  <2> QED BY <1>1, <1>3, <1>5, <2>1, <2>2 DEF Serial, Is
<1> QED BY <1>1, <1>2, <1>4, <1>5 DEF Unraced, SerialGrants

\* A transaction that ends with nothing written.
LEMMA AbortSerial ==
    ASSUME Typed, Unraced, NEW r \in Reqs, Active(r), Ends(r), UNCHANGED <<row, secret, handed, raced>>
    PROVE  Unraced'
<1>1. RacesSeen' /\ StillCurrent'
  BY UnracedKept DEF Unraced
<1> QED BY <1>1 DEF Unraced, SerialGrants, Serial, From, Is

\* A transaction that begins beside another is noticed; one that begins alone
\* is current.
LEMMA BeginSerial ==
    ASSUME Typed, Unraced, NEW r \in Reqs, NEW g \in Grants, txn[r] = Idle, txn'[r].grant = g,
           \A q \in Reqs \ {r} : txn'[q] = txn[q],
           raced' = IF InFlight(g) = {} THEN raced ELSE raced \cup {g},
           UNCHANGED <<row, secret, handed>>, Current(txn'[r])
    PROVE  Unraced'
<1>1. raced \subseteq raced' /\ (raced' \subseteq raced => InFlight(g) = {} \/ g \in raced)
  OBVIOUS
<1>2. RacesSeen'
  <2> SUFFICES ASSUME NEW p \in Reqs, NEW q \in Reqs, p # q, Active(p)', Active(q)',
                      txn'[p].grant = txn'[q].grant
               PROVE  txn'[p].grant \in raced'
    BY DEF RacesSeen
  <2>1. CASE p # r /\ q # r
    BY <1>1, <2>1 DEF Unraced, RacesSeen, Active
  <2>2. CASE p = r \/ q = r
    <3>1. InFlight(g) # {}
      BY <2>2 DEF InFlight, Active
    <3> QED BY <2>2, <3>1
  <2> QED BY <2>1, <2>2
<1>3. StillCurrent'
  <2> SUFFICES ASSUME NEW q \in Reqs, Active(q)', txn'[q].grant \notin raced'
               PROVE  Current(txn[q])'
    BY DEF StillCurrent
  <2>1. Current(txn'[q])
    <3>1. CASE q = r
      BY <3>1
    <3>2. CASE q # r
      <4>1. txn'[q] = txn[q] /\ Active(q) /\ txn[q].grant \notin raced
        BY <1>1, <3>2 DEF Active
      <4> QED BY <4>1 DEF Unraced, StillCurrent
    <3> QED BY <3>1, <3>2
  <2> QED BY <2>1 DEF Current, Is
<1>4. SerialGrants'
  BY <1>1 DEF Unraced, SerialGrants, Serial, From, Is
<1> QED BY <1>2, <1>3, <1>4 DEF Unraced

-----------------------------------------------------------------------------
\* A session's begin and its commit, as the handlers pair them.
BeginStep(r, g, S) ==
    \/ \E m \in Members, k \in Secrets : BeginDeviceApprove(r, g, m, S, k)
    \/ BeginOAuthApprove(r, g, S)
    \/ BeginDeny(r, g) \/ BeginExpire(r, g) \/ BeginDeliver(r, g)
    \/ \E k \in Secrets : BeginExchange(r, g, k) \/ BeginAccept(r, g, k)

CommitStep(r) ==
    \/ \E c \in Codes : CommitOAuthApprove(r, c)
    \/ CommitDeviceApprove(r) \/ CommitDeny(r) \/ CommitExpire(r)
    \/ CommitDeliver(r) \/ CommitExchange(r) \/ CommitAccept(r)

\* Every step is a registration, an edit of the settings, or of one session.
LEMMA StepCases ==
    ASSUME Step
    PROVE  \/ RowStep \/ UpdateConfig
           \/ \E r \in Reqs, g \in Grants, S \in SUBSET Allocs : BeginStep(r, g, S)
           \/ \E r \in Reqs : CommitStep(r) \/ Abort(r)
<1>1. \E S : S \in SUBSET Allocs
  BY {} \in SUBSET Allocs
<1> QED BY <1>1 DEF Step, RowStep, BeginStep, CommitStep

\* What holds of tables and sessions, but for the grants that are over.
Live == Typed /\ Held /\ Tables /\ Unraced

\* A handler that begins.
LEMMA BeginKeeps ==
    ASSUME Live, NEW r \in Reqs, NEW g \in Grants, NEW S \in SUBSET Allocs, BeginStep(r, g, S),
           sealed' \subseteq Grants
    PROVE  /\ Live' /\ ~ Spent(g) /\ UNCHANGED <<row, secret, handed>>
           /\ txn'[r].grant = g /\ \A q \in Reqs \ {r} : txn'[q] = txn[q]
<1>1. PICK op \in Ops, m \in Members \cup {None}, T \in SUBSET Allocs,
           c \in Codes \cup {None}, k \in Secrets \cup {None} :
              LET t == txn'[r] IN
              /\ Begin(r, op, g, m, T, c, k)
              /\ Fits(t) /\ Current(t) /\ ~ Spent(g)
              /\ Mints(t) => Fresh(k)
              /\ k # None => Mints(t) \/ t.op = "deliver"
              /\ t.op = "deliver" => handed[k] = 0
  BY BeginChecked DEF Live, Tables, BeginStep
<1>2. LET t == txn'[r] IN
      /\ txn[r] = Idle /\ t # Idle
      /\ t.op = op /\ t.grant = g /\ t.scope = T /\ t.code = c /\ t.secret = k
      /\ \A q \in Reqs \ {r} : txn'[q] = txn[q]
      /\ txn' \in [Reqs -> {Idle} \cup Txn]
      /\ raced' = IF InFlight(g) = {} THEN raced ELSE raced \cup {g}
      /\ UNCHANGED <<row, secret, handed, given, gone, allowlist>>
  BY <1>1, BeginEffect DEF Live
<1>3. Typed'
  BY <1>2 DEF Live, Typed
<1>4. Held'
  BY <1>1, HeldBegun DEF Live
<1>5. Tables'
  BY <1>1, <1>2, BeginTables DEF Live
<1>6. Unraced'
  BY <1>1, <1>2, BeginSerial DEF Live
<1> QED BY <1>1, <1>2, <1>3, <1>4, <1>5, <1>6 DEF Live

\* A row that is registered, lapses or goes.
LEMMA RowsKeep ==
    ASSUME Live, RowStep, sealed' \subseteq Grants
    PROVE  Live'
<1>1. Typed'
  BY RowsEffect DEF Live, Typed
<1>2. Held'
  <2> SUFFICES ASSUME NEW q \in Reqs, Active(q) PROVE Fits(txn[q])'
    BY RowsEffect DEF Live, Held, TxnsFit, SecretsApart, Active, Mints, Is
  <2>1. Fits(txn[q]) /\ txn[q].grant \in Grants /\ row[txn[q].grant] \in Row
    BY ActiveTyped DEF Live, Held, TxnsFit
  <2>2. row'[txn[q].grant].status # "none"
    <3>1. PICK h \in Grants : h = txn[q].grant
      BY <2>1
    <3>2. row[h] \in Row /\ row[h].status # "none"
      BY <2>1, <3>1 DEF Fits
    <3>3. \/ row'[h] = row[h]
          \/ row[h].status \in {"pending", "approved"} /\ row'[h] = [row[h] EXCEPT !.due = TRUE]
          \/ row'[h] = [Blank EXCEPT !.status = "deleted"]
          \/ /\ row[h] = Blank /\ row'[h].status = "pending"
             /\ row'[h].code = None /\ row'[h].token = None /\ row'[h].scope = {}
      BY RowsEffect DEF Live
    <3>4. row'[h].status # "none"
      BY <3>2, <3>3 DEF Row, Blank
    <3> QED BY <3>1, <3>4
  <2>3. UNCHANGED <<secret, given, txn>>
    BY RowsEffect DEF Live
  <2> QED BY <2>1, <2>2, <2>3 DEF Fits, Mints, Is
<1>3. Tables'
  BY RowsTables DEF Live
<1>4. Unraced'
  BY RowsSerial DEF Live, Held
<1> QED BY <1>1, <1>2, <1>3, <1>4 DEF Live

\* A step that concerns one grant leaves the others' rows and secrets.
Elsewhere(g) ==
    \A h \in Grants \ {g} : /\ row'[h] = row[h] /\ From(h)' = From(h)
                            /\ \A k \in From(h) : handed'[k] = handed[k]

\* A handler that commits.
LEMMA CommitKeeps ==
    ASSUME Live, NEW r \in Reqs, CommitStep(r), sealed' \subseteq Grants
    PROVE  Live' /\ Active(r) /\ Ends(r) /\ Elsewhere(txn[r].grant)
<1> USE DEF Live, Held
<1>1. /\ Active(r) /\ Ends(r) /\ row[txn[r].grant].status # "deleted"
      /\ txn' \in [Reqs -> {Idle} \cup Txn] /\ UNCHANGED <<raced, gone, allowlist>>
  BY CommitsEffect DEF CommitStep, CommitOAuthApprove, CommitDeviceApprove, CommitDeny, CommitExpire,
       CommitDeliver, CommitExchange, CommitAccept, Ends
<1>2. PICK t : t = txn[r]
  OBVIOUS
<1>3. /\ t.grant \in Grants /\ t.scope \in SUBSET Allocs
  BY <1>1, <1>2, ActiveTyped
<1>4. ASSUME UNCHANGED secret PROVE MintsOnly(r) /\ \A h \in Grants : From(h)' = From(h)
  BY <1>4 DEF MintsOnly, From
<1>5. CASE CommitDeny(r) \/ CommitExpire(r)
  <2>1. /\ row' \in [Grants -> Row] /\ \A h \in Grants \ {t.grant} : row'[h] = row[h]
        /\ row'[t.grant].status # "none" /\ UNCHANGED <<secret, handed, given>>
    BY <1>2, <1>5, CloseEffect
  <2>2. Typed'
    BY <1>1, <2>1 DEF Typed
  <2>3. Held'
    BY <1>1, <1>4, <2>1, HeldKept
  <2>4. Elsewhere(t.grant)
    BY <1>4, <2>1 DEF Elsewhere, From
  <2> QED BY <1>1, <1>2, <1>5, <2>2, <2>3, <2>4, CloseTables, CloseSerial
<1>6. CASE \E c \in Codes : CommitOAuthApprove(r, c)
  <2>1. PICK c \in Codes : CommitOAuthApprove(r, c)
    BY <1>6
  <2>2. /\ row' \in [Grants -> Row] /\ \A h \in Grants \ {t.grant} : row'[h] = row[h]
        /\ row'[t.grant].status # "none" /\ UNCHANGED <<secret, handed>>
        /\ given' \in [Codes -> {None} \cup Issued]
        /\ \A d \in Codes : given[d] # None => given'[d] = given[d]
    BY <1>2, <2>1, OAuthApproveEffect
  <2>3. Typed'
    BY <1>1, <2>2 DEF Typed
  <2>4. Held'
    BY <1>1, <1>4, <2>2, HeldKept
  <2>5. Tables'
    BY <2>1, OAuthApproveTables
  <2>6. Unraced'
    BY <2>1, OAuthApproveSerial
  <2>7. Elsewhere(t.grant)
    BY <1>4, <2>2 DEF Elsewhere, From
  <2> QED BY <1>1, <1>2, <2>3, <2>4, <2>5, <2>6, <2>7
<1>7. CASE CommitDeviceApprove(r)
  <2>1. /\ row' \in [Grants -> Row] /\ \A h \in Grants \ {t.grant} : row'[h] = row[h]
        /\ row'[t.grant].status # "none" /\ UNCHANGED <<handed, given>>
        /\ Mint(r, t.scope) /\ t.secret # None /\ Is(t.grant, "device")
    BY <1>2, <1>7, DeviceApproveEffect
  <2>2. secret' \in [Secrets -> {None} \cup Minted]
    BY <1>1, <1>2, <1>3, <2>1, MintEffect
  <2>3. Mints(txn[r])
    BY <1>2, <1>7, <2>1 DEF CommitDeviceApprove, Commits, Mints
  <2>4. MintsOnly(r)
    BY <1>1, <1>2, <1>3, <2>1, <2>3, MintIsOnly
  <2>5. Typed'
    BY <1>1, <2>1, <2>2 DEF Typed
  <2>6. Held'
    BY <1>1, <2>1, <2>4, HeldKept
  <2>7. /\ t.secret \in Secrets /\ secret[t.secret] = None /\ secret'[t.secret].grant = t.grant
        /\ secret'[t.secret] \in Minted /\ \A k \in Secrets \ {t.secret} : secret'[k] = secret[k]
    <3>1. /\ txn[r].secret \in Secrets /\ secret[txn[r].secret] = None
          /\ secret'[txn[r].secret] = [grant |-> txn[r].grant, code |-> txn[r].code, scope |-> t.scope]
          /\ secret'[txn[r].secret] \in Minted
          /\ \A k \in Secrets \ {txn[r].secret} : secret'[k] = secret[k]
      BY <1>1, <1>2, <1>3, <2>1, <2>3, MintIsOnly
    <3> QED BY <1>2, <3>1
  <2>8. \A h \in Grants \ {t.grant} : From(h)' = From(h)
    BY <1>3, <2>7, FromElsewhere
  <2>9. Elsewhere(t.grant)
    BY <2>1, <2>8 DEF Elsewhere, From
  <2> QED BY <1>1, <1>2, <1>7, <2>5, <2>6, <2>9, DeviceApproveTables, DeviceApproveSerial DEF Tables
<1>8. CASE CommitDeliver(r)
  <2>1. /\ row' \in [Grants -> Row] /\ \A h \in Grants \ {t.grant} : row'[h] = row[h]
        /\ row'[t.grant].status = row[t.grant].status /\ UNCHANGED <<secret, given>>
        /\ t.secret \in Secrets /\ handed' = [handed EXCEPT ![t.secret] = @ + 1]
    BY <1>2, <1>8, DeliverEffect
  <2>2. Typed'
    BY <1>1, <2>1, HandEffect DEF Typed
  <2>3. Held'
    BY <1>1, <1>4, <2>1, HeldKept
  <2>4. secret[t.secret].grant = t.grant
    BY <1>1, <1>2, <1>8 DEF TxnsFit, Fits, CommitDeliver, Commits
  <2>5. \A k \in Secrets \ {t.secret} : handed'[k] = handed[k]
    BY <2>1, HandEffect
  <2>6. Elsewhere(t.grant)
    BY <1>4, <2>1, <2>4, <2>5 DEF Elsewhere, From
  <2> QED BY <1>1, <1>2, <1>8, <2>2, <2>3, <2>6, DeliverTables, DeliverSerial DEF Tables
<1>9. CASE CommitExchange(r) \/ CommitAccept(r)
  <2>1. /\ row' \in [Grants -> Row] /\ \A h \in Grants \ {t.grant} : row'[h] = row[h]
        /\ row'[t.grant].status # "none" /\ UNCHANGED given
        /\ t.secret \in Secrets /\ handed' = [handed EXCEPT ![t.secret] = @ + 1]
        /\ t.op \in {"exchange", "accept"}
        /\ t.op = "exchange" => Mint(r, t.scope)
        /\ t.op = "accept" => Mint(r, {})
    BY <1>2, <1>9, ConsumeEffect
  <2>2. PICK S \in SUBSET Allocs : Mint(r, S)
    BY <1>3, <2>1
  <2>3. secret' \in [Secrets -> {None} \cup Minted]
    BY <1>1, <1>2, <2>1, <2>2, MintEffect
  <2>4. MintsOnly(r)
    BY <1>1, <1>2, <2>1, <2>2, MintIsOnly DEF Mints
  <2>5. Typed'
    BY <1>1, <2>1, <2>3, HandEffect DEF Typed
  <2>6. Held'
    BY <1>1, <2>1, <2>4, HeldKept
  <2>7. /\ secret[t.secret] = None /\ secret'[t.secret].grant = t.grant
        /\ secret'[t.secret] \in Minted /\ \A k \in Secrets \ {t.secret} : secret'[k] = secret[k]
    <3>1. /\ txn[r].secret \in Secrets /\ secret[txn[r].secret] = None
          /\ secret'[txn[r].secret] = [grant |-> txn[r].grant, code |-> txn[r].code, scope |-> S]
          /\ secret'[txn[r].secret] \in Minted
          /\ \A k \in Secrets \ {txn[r].secret} : secret'[k] = secret[k]
      BY <1>1, <1>2, <2>1, <2>2, MintIsOnly DEF Mints
    <3> QED BY <1>2, <3>1
  <2>8. \A h \in Grants \ {t.grant} : From(h)' = From(h) /\ t.secret \notin From(h)
    BY <1>3, <2>1, <2>7, FromElsewhere
  <2>9. \A k \in Secrets \ {t.secret} : handed'[k] = handed[k]
    BY <2>1, HandEffect
  <2>10. Elsewhere(t.grant)
    BY <2>1, <2>8, <2>9 DEF Elsewhere, From
  <2> QED BY <1>1, <1>2, <1>9, <2>5, <2>6, <2>10, ConsumeTables, ConsumeSerial DEF Tables
<1> QED BY <1>5, <1>6, <1>7, <1>8, <1>9 DEF CommitStep

\* A session that fails.
LEMMA AbortKeeps ==
    ASSUME Live, NEW r \in Reqs, Abort(r), sealed' \subseteq Grants
    PROVE  Live' /\ Active(r) /\ Ends(r) /\ UNCHANGED <<row, secret, handed>>
<1>1. /\ Active(r) /\ Ends(r) /\ txn' \in [Reqs -> {Idle} \cup Txn]
      /\ UNCHANGED <<row, secret, handed, given, raced, gone, allowlist>>
  BY DEF Live, Typed, Abort, Active, Ends, db
<1>2. Typed'
  BY <1>1 DEF Live, Typed
<1>3. Held'
  <2>1. MintsOnly(r)
    BY <1>1 DEF MintsOnly
  <2> QED BY <1>1, <2>1, HeldKept DEF Live
<1>4. Tables' /\ Unraced'
  BY <1>1, AbortTables, AbortSerial DEF Live
<1> QED BY <1>1, <1>2, <1>3, <1>4 DEF Live

\* A grant that is over and idle: nobody begins on it, nobody commits to it,
\* and what was minted from it is as it was.
Over(g) == Spent(g) /\ InFlight(g) = {}
Undisturbed(g) == Over(g)' /\ From(g)' = From(g) /\ \A k \in From(g) : handed'[k] = handed[k]

\* get_pending, poll, exchange and consume refuse a grant that is over, so no
\* step begins on it, writes to it or hands out what was minted from it.
LEMMA OverStays ==
    ASSUME Live, Step, sealed' \subseteq Grants, NEW g \in Grants, Over(g)
    PROVE  Undisturbed(g)
<1>1. CASE RowStep
  <2>1. UNCHANGED <<secret, handed, txn>>
    BY <1>1, RowsEffect DEF Live
  <2>2. \/ row'[g].status = row[g].status /\ row'[g].token = row[g].token
        \/ row'[g].status = "deleted"
    <3>1. \/ row'[g] = row[g]
          \/ row[g].status \in {"pending", "approved"} /\ row'[g] = [row[g] EXCEPT !.due = TRUE]
          \/ row'[g] = [Blank EXCEPT !.status = "deleted"]
          \/ row[g] = Blank
      BY <1>1, RowsEffect DEF Live
    <3>2. row[g] \in Row /\ row[g] # Blank
      BY DEF Live, Typed, Over, Spent, Blank
    <3> QED BY <3>1, <3>2 DEF Row, Blank
  <2> QED BY <2>1, <2>2 DEF Undisturbed, Over, Spent, InFlight, From, Is
<1>2. CASE UpdateConfig
  BY <1>2 DEF UpdateConfig, Undisturbed, Over, Spent, InFlight, From, Is
<1>3. ASSUME NEW r \in Reqs, NEW h \in Grants, NEW S \in SUBSET Allocs, BeginStep(r, h, S)
      PROVE  Undisturbed(g)
  <2>1. /\ ~ Spent(h) /\ UNCHANGED <<row, secret, handed>>
        /\ txn'[r].grant = h /\ \A q \in Reqs \ {r} : txn'[q] = txn[q]
    BY <1>3, BeginKeeps
  <2>2. h # g
    BY <2>1 DEF Over
  <2>3. InFlight(g)' = {}
    BY <2>1, <2>2 DEF Over, InFlight
  <2> QED BY <2>1, <2>3 DEF Undisturbed, Over, Spent, From, Is
<1>4. ASSUME NEW r \in Reqs, CommitStep(r) PROVE Undisturbed(g)
  <2>1. Active(r) /\ Ends(r) /\ Elsewhere(txn[r].grant)
    BY <1>4, CommitKeeps
  <2>2. txn[r].grant # g
    BY <2>1 DEF Over, InFlight, Active
  <2>3. row'[g] = row[g] /\ From(g)' = From(g) /\ \A k \in From(g) : handed'[k] = handed[k]
    BY <2>1, <2>2 DEF Elsewhere
  <2>4. InFlight(g)' = {}
    BY <2>1 DEF Over, InFlight, Ends
  <2> QED BY <2>3, <2>4 DEF Undisturbed, Over, Spent, Is
<1>5. ASSUME NEW r \in Reqs, Abort(r) PROVE Undisturbed(g)
  <2>1. Ends(r) /\ UNCHANGED <<row, secret, handed>>
    BY <1>5, AbortKeeps
  <2>2. InFlight(g)' = {}
    BY <2>1 DEF Over, InFlight, Ends
  <2> QED BY <2>1, <2>2 DEF Undisturbed, Over, Spent, From, Is
<1> QED BY <1>1, <1>2, <1>3, <1>4, <1>5, StepCases

-----------------------------------------------------------------------------
\* Every registration, edit, request and deletion keeps the inductive
\* invariant, and disturbs no grant that is over.
LEMMA InvStep ==
    ASSUME IInv, [Next]_vars
    PROVE  IInv' /\ \A g \in sealed : Undisturbed(g)
<1> USE DEF IInv
<1>1. CASE Next
  <2>1. Step /\ sealed' = sealed \cup {g \in Grants : Over(g)'}
    BY <1>1 DEF Next, Seal, Over
  <2>2. Live /\ sealed \subseteq Grants /\ sealed' \subseteq Grants
    BY <2>1 DEF Live, Typed
  <2>3. Live'
    <3>1. CASE UpdateConfig
      <4>1. allowlist' \in BOOLEAN /\ UNCHANGED <<row, secret, handed, given, raced, gone, txn>>
        BY <2>2, <3>1 DEF UpdateConfig, Live, Typed
      <4>2. Typed'
        BY <2>2, <4>1 DEF Live, Typed
      <4>3. Held' /\ Unraced'
        <5>1. Held'
          BY <2>2, <4>1 DEF Live, Held, TxnsFit, SecretsApart, Fits, Mints, Active, Is
        <5>2. RacesSeen' /\ StillCurrent'
          BY <2>2, <4>1 DEF Live, Unraced, RacesSeen, StillCurrent, Active, Current, Is
        <5>3. SerialGrants'
          BY <2>2, <4>1 DEF Live, Unraced, SerialGrants, Serial, From, Is
        <5> QED BY <5>1, <5>2, <5>3 DEF Unraced
      <4>4. Tables'
        BY <2>2, <4>1 DEF Live, Tables, RowsFit, RowCoherent, KeyMatchesCode, UnmintedUnhanded,
             HandedBounded, Delivering, Active, From, Is
      <4> QED BY <4>2, <4>3, <4>4 DEF Live
    <3> QED BY <2>1, <2>2, <3>1, StepCases, RowsKeep, BeginKeeps, CommitKeeps, AbortKeeps
  <2>4. ASSUME NEW g \in sealed PROVE Undisturbed(g)
    <3>1. g \in Grants /\ Over(g)
      BY <2>2 DEF SealedSpent, Over
    <3> QED BY <2>1, <2>2, <3>1, OverStays
  <2>5. SealedSpent'
    BY <2>1, <2>4 DEF SealedSpent, Undisturbed, Over
  <2> QED BY <2>3, <2>4, <2>5 DEF Live
<1>2. CASE UNCHANGED vars
  <2>1. UNCHANGED <<row, secret, handed, given, gone, allowlist, raced, sealed, txn>>
    BY <1>2 DEF vars, db
  <2>2. Typed' /\ Held' /\ Unraced'
    BY <2>1 DEF Typed, Held, TxnsFit, SecretsApart, Fits, Mints, Active, Is,
         Unraced, RacesSeen, StillCurrent, SerialGrants, Serial, Current, From
  <2>3. Tables'
    BY <2>1 DEF Tables, RowsFit, RowCoherent, KeyMatchesCode, UnmintedUnhanded,
         HandedBounded, Delivering, Active, From, Is
  <2>4. SealedSpent' /\ \A g \in sealed : Undisturbed(g)
    BY <2>1 DEF SealedSpent, Undisturbed, Over, Spent, InFlight, From, Is
  <2> QED BY <2>2, <2>3, <2>4
<1> QED BY <1>1, <1>2

\* Nothing registered, nothing minted, nobody signed in.
LEMMA InitInv == Init => IInv
<1> SUFFICES ASSUME Init PROVE IInv
  OBVIOUS
<1> USE DEF Init
<1>1. Typed
  BY DEF Typed, Row, Statuses, Blank
<1>2. /\ \A r \in Reqs : ~ Active(r)
      /\ \A g \in Grants : row[g] = Blank /\ From(g) = {}
      /\ \A k \in Secrets : secret[k] = None /\ handed[k] = 0 /\ Delivering(k) = {}
  BY DEF Active, From, Delivering
<1>3. Held /\ Unraced /\ SealedSpent
  <2>1. Held
    BY <1>2 DEF Held, TxnsFit, SecretsApart
  <2>2. RacesSeen /\ StillCurrent
    BY <1>2 DEF RacesSeen, StillCurrent
  <2>3. SerialGrants
    BY <1>2 DEF SerialGrants, Serial, Blank
  <2>4. SealedSpent
    BY DEF SealedSpent
  <2> QED BY <2>1, <2>2, <2>3, <2>4 DEF Unraced
<1>4. HandedBounded
  <2>1. Cardinality({}) = 0 /\ Cardinality(Reqs) \in Nat
    BY FS_EmptySet, FS_CardinalityType, ReqsAssumption
  <2>2. \A k \in Secrets : handed[k] + Cardinality(Delivering(k)) = 0
    BY <1>2, <2>1
  <2> QED BY <2>1, <2>2 DEF HandedBounded
<1>5. Tables
  BY <1>2, <1>4 DEF Tables, RowsFit, RowCoherent, KeyMatchesCode, UnmintedUnhanded, Blank
<1> QED BY <1>1, <1>3, <1>5 DEF IInv

\* The inductive invariant of the three flows.
THEOREM InvCorrect == Spec => []IInv
<1>1. IInv /\ [Next]_vars => IInv'
  BY InvStep
<1> QED BY <1>1, InitInv, PTL DEF Spec

\* The tables and the sessions stay well typed, whatever requests overlap; and
\* no token leaves in more responses than there are sessions (device_flow.py).
THEOREM TypeCorrect == Spec => []TypeOK
<1>1. IInv => TypeOK
  <2> SUFFICES ASSUME IInv PROVE TypeOK
    OBVIOUS
  <2>1. ASSUME NEW k \in Secrets PROVE handed[k] \in 0..Cardinality(Reqs)
    <3>1. handed[k] \in Nat /\ handed[k] + Cardinality(Delivering(k)) <= Cardinality(Reqs)
      BY DEF IInv, Typed, Tables, HandedBounded
    <3>2. Cardinality(Delivering(k)) \in Nat /\ Cardinality(Reqs) \in Nat
      BY DeliveringFinite
    <3> QED BY <3>1, <3>2
  <2> QED BY <2>1 DEF IInv, Typed, TypeOK
<1> QED BY <1>1, InvCorrect, PTL

\* exchange: a key covers what was chosen when its code was issued.
THEOREM KeysMatchCodes == Spec => []KeyMatchesCode
<1>1. IInv => KeyMatchesCode
  BY DEF IInv, Tables
<1> QED BY <1>1, InvCorrect, PTL

\* approve, poll, exchange: the columns they write fit together in any order.
THEOREM RowsCoherent == Spec => []RowCoherent
<1>1. IInv => RowCoherent
  BY DEF IInv, Tables
<1> QED BY <1>1, InvCorrect, PTL

\* device_flow.py:3, for grants no two requests overlapped on: exactly once.
THEOREM ExactlyOnceSerially == Spec => []SerialExactlyOnce
<1>1. ASSUME IInv, NEW g \in Grants \ raced
      PROVE  /\ Cardinality(From(g)) <= 1
             /\ \A k \in From(g) : handed[k] <= 1
             /\ row[g].status \in {"denied", "expired"} => From(g) = {}
             /\ row[g].status = "approved" /\ Is(g, "device") =>
                   \A k \in From(g) : row[g].token = k <=> handed[k] = 0
  <2>1. Serial(g)
    BY <1>1 DEF IInv, Unraced, SerialGrants
  <2>2. From(g) = {} \/ \E k : From(g) = {k}
    BY <2>1 DEF Serial
  <2>3. Cardinality(From(g)) <= 1
    <3>1. Cardinality({}) = 0 /\ \A k : Cardinality({k}) = 1
      BY FS_EmptySet, FS_Singleton
    <3>2. CASE From(g) = {}
      BY <3>1, <3>2
    <3>3. ASSUME NEW k, From(g) = {k} PROVE Cardinality(From(g)) <= 1
      <4>1. Cardinality({k}) = 1
        BY <3>1
      <4> QED BY <3>3, <4>1
    <3> QED BY <2>2, <3>2, <3>3
  <2> QED BY <2>1, <2>3 DEF Serial
<1>2. IInv => SerialExactlyOnce
  BY <1>1 DEF SerialExactlyOnce
<1> QED BY <1>2, InvCorrect, PTL

\* get_pending, poll, exchange, consume: what is over stays over.
THEOREM SpentForGood == Spec => SpentStaysSpent
<1>1. IInv /\ [Next]_vars =>
        [\A g \in sealed : /\ Spent(g)'
                           /\ From(g)' = From(g)
                           /\ \A k \in From(g) : handed'[k] = handed[k]]_vars
  BY InvStep DEF Undisturbed, Over
<1> QED BY <1>1, InvCorrect, PTL DEF Spec, SpentStaysSpent
==============================================================================
