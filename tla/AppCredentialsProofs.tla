------------------------ MODULE AppCredentialsProofs ------------------------
(* Proofs about AppCredentials, for any sets of members, allocations, keys,*)
(* tokens and sessions.                                                    *)
EXTENDS AppCredentials, TLAPS

USE DEF Ops

\* What the checks of a session established and no other session can undo.
SessionOK(r) ==
    LET t == txn[r] IN
        /\ t.op \in {"issue", "patch"} =>
              (\A a \in t.add : Owner[a] = Holder[t.key]) /\ Distinct(t.add)
        /\ t.op = "issue" => key[t.key] = "none" /\ token[t.key] = NoToken
        /\ t.op = "issue" =>
              \A q \in Reqs \ {r} : txn[q].op = "issue" => txn[q].key # t.key
        /\ t.op \in {"issue", "rotate"} => t.tok \in Tokens
        /\ t.tok # NoToken =>
              /\ t.tok \in issued
              /\ \A c \in Keys : token[c] # t.tok
              /\ \A q \in Reqs \ {r} : txn[q].tok # t.tok

SessionsOK == \A r \in Reqs : SessionOK(r)

\* A key holds a token that was generated, and none before its row exists.
TokensOK ==
    \A c \in Keys : /\ token[c] # NoToken => token[c] \in issued
                    /\ key[c] = "none" => token[c] = NoToken

\* The inductive invariant.
IInv ==
    /\ TypeOK
    /\ SessionsOK
    /\ TokensOK
    /\ ScopeOwned
    /\ ScopeModelsDistinct
    /\ TokenUnique

-----------------------------------------------------------------------------
\* Every handler keeps the tables well typed.
LEMMA TypeStep == TypeOK /\ [Next]_vars => TypeOK'
<1> SUFFICES ASSUME TypeOK, [Next]_vars PROVE TypeOK'
  OBVIOUS
<1> USE OwnerAssumption, HolderAssumption DEF TypeOK, Txn, Idle, db, Finish, Begin
<1>1. ASSUME NEW r \in Reqs, NEW c \in Keys, NEW t \in Tokens, BeginRotate(r, c, t)
      PROVE  TypeOK'
  BY <1>1 DEF BeginRotate
<1>2. ASSUME NEW r \in Reqs, NEW c \in Keys, NEW S \in SUBSET Allocs, NEW t \in Tokens,
             BeginIssue(r, c, S, t)
      PROVE  TypeOK'
  BY <1>2 DEF BeginIssue
<1>3. ASSUME NEW r \in Reqs, NEW a \in Allocs, NEW c \in Keys, NEW t \in Tokens,
             BeginRotateAllocation(r, a, c, t)
      PROVE  TypeOK'
  BY <1>1, <1>2, <1>3 DEF BeginRotateAllocation
<1>4. ASSUME NEW r \in Reqs, NEW c \in Keys, NEW add \in SUBSET (Allocs \ Scope(c)),
             NEW remove \in SUBSET Scope(c), BeginPatch(r, c, add, remove)
      PROVE  TypeOK'
  BY <1>4 DEF BeginPatch, Scope
<1>5. ASSUME NEW r \in Reqs, NEW c \in Keys, BeginRevokeKey(r, c) PROVE TypeOK'
  BY <1>5 DEF BeginRevokeKey
<1>6. ASSUME NEW r \in Reqs, Progress(r) PROVE TypeOK'
  <2>1. CASE CommitIssue(r)
    <3>1. {<<txn[r].key, a>> : a \in txn[r].add} \subseteq Keys \X Allocs
      BY <2>1 DEF CommitIssue
    <3> QED
      BY <2>1, <3>1 DEF CommitIssue
  <2>2. CASE CommitPatch(r)
    <3>1. {<<txn[r].key, a>> : a \in txn[r].add} \subseteq Keys \X Allocs
      BY <2>2 DEF CommitPatch
    <3> QED
      BY <2>2, <3>1 DEF CommitPatch
  <2>3. CASE CommitRotate(r)
    BY <2>3 DEF CommitRotate
  <2>4. CASE CommitRevokeKey(r)
    BY <2>4 DEF CommitRevokeKey
  <2>5. CASE Abort(r)
    BY <2>5 DEF Abort
  <2> QED
    BY <1>6, <2>1, <2>2, <2>3, <2>4, <2>5 DEF Progress
<1>7. ASSUME NEW a \in Allocs, NEW c \in Keys, NEW t \in Tokens, CreateAllocation(a, c, t)
      PROVE  TypeOK'
  BY <1>7 DEF CreateAllocation
<1>8. ASSUME NEW a \in Allocs, NEW s \in {"active", "blocked"}, SetAllocationStatus(a, s)
      PROVE  TypeOK'
  BY <1>8 DEF SetAllocationStatus
<1>9. ASSUME NEW m \in Members, DeleteMember(m) PROVE TypeOK'
  BY <1>9 DEF DeleteMember
<1>10. CASE UNCHANGED vars
  BY <1>10 DEF vars
<1>11. ASSUME NEW r \in Reqs, Request(r) PROVE TypeOK'
  <2> HIDE DEF TypeOK
  <2> QED
    BY <1>1, <1>2, <1>3, <1>4, <1>5, <1>11 DEF Request
<1> HIDE DEF TypeOK
<1> QED
  BY <1>6, <1>7, <1>8, <1>9, <1>10, <1>11 DEF Next

\* Type correctness of the credential tables and of the sessions.
THEOREM TypeCorrect == Spec => []TypeOK
<1>1. Init => TypeOK
  BY DEF Init, TypeOK, Txn, Idle
<1> QED
  BY <1>1, TypeStep, PTL DEF Spec

-----------------------------------------------------------------------------
\* A request's reads: the transaction it starts is as SessionOK wants it.
LEMMA BeginKeeps ==
    ASSUME IInv, NEW r \in Reqs, NEW t \in Txn, Begin(r, t), UNCHANGED db,
           issued' = issued \/ issued' = issued \cup {t.tok},
           t.op \in {"issue", "patch"} =>
               (\A a \in t.add : Owner[a] = Holder[t.key]) /\ Distinct(t.add),
           t.op = "issue" => FreshKey(t.key) /\ t.key \in Keys,
           t.op \in {"issue", "rotate"} => t.tok \in Tokens,
           t.tok # NoToken => FreshToken(t.tok) /\ t.tok \in issued'
    PROVE  SessionsOK' /\ TokensOK' /\ ScopeOwned' /\ ScopeModelsDistinct' /\ TokenUnique'
<1> USE DEF db
<1>1. /\ txn'[r] = t
      /\ \A p \in Reqs \ {r} : txn'[p] = txn[p]
      /\ txn[r] = Idle
  BY DEF IInv, TypeOK, Begin
<1>2. SessionsOK'
  <2> SUFFICES ASSUME NEW q \in Reqs PROVE SessionOK(q)'
    BY DEF SessionsOK
  <2>1. \A p \in Reqs : SessionOK(p)
    BY DEF IInv, SessionsOK
  <2>2. \A c \in Keys : token[c] # NoToken => token[c] \in issued
    BY DEF IInv, TokensOK
  <2>3. t.op = "issue" => key[t.key] = "none" /\ token[t.key] = NoToken
    BY DEF FreshKey, IInv, TokensOK
  <2>4. t.tok # NoToken => \A p \in Reqs : txn[p].tok # t.tok
    BY <2>1 DEF SessionOK, FreshToken
  <2>5. CASE q = r
    BY <1>1, <2>2, <2>3, <2>4, <2>5 DEF SessionOK, FreshKey, FreshToken, Distinct
  <2>6. CASE q # r
    BY <1>1, <2>1, <2>4, <2>6 DEF SessionOK, FreshKey, Distinct
  <2> QED
    BY <2>5, <2>6
<1>3. TokensOK' /\ TokenUnique'
  BY DEF IInv, TokensOK, TokenUnique
<1>4. ScopeOwned' /\ ScopeModelsDistinct'
  BY DEF IInv, ScopeOwned, ScopeModelsDistinct, Scope, Distinct, KeyHasRow, HasRow
<1> QED
  BY <1>2, <1>3, <1>4

\* A Begin writes no row: it only has to establish what its session relies on.
LEMMA RequestKeeps ==
    ASSUME IInv, NEW r \in Reqs, Request(r)
    PROVE  SessionsOK' /\ TokensOK' /\ ScopeOwned' /\ ScopeModelsDistinct' /\ TokenUnique'
<1> DEFINE Kept == SessionsOK' /\ TokensOK' /\ ScopeOwned' /\ ScopeModelsDistinct'
                       /\ TokenUnique'
<1>1. ASSUME NEW c \in Keys, BeginRevokeKey(r, c) PROVE Kept
  <2> DEFINE t == [op |-> "revoke", key |-> c, add |-> {}, drop |-> {}, seen |-> {},
                   tok |-> NoToken]
  <2>1. t \in Txn
    BY DEF Txn
  <2> QED
    BY <1>1, <2>1, BeginKeeps DEF BeginRevokeKey
<1>2. ASSUME NEW c \in Keys, NEW add \in SUBSET (Allocs \ Scope(c)),
             NEW remove \in SUBSET Scope(c), BeginPatch(r, c, add, remove)
      PROVE  Kept
  <2> DEFINE new == add \ Scope(c)
             t == [op |-> "patch", key |-> c, add |-> new, drop |-> Scope(c) \cap remove,
                   seen |-> Scope(c), tok |-> NoToken]
  <2>1. t \in Txn
    BY DEF Txn, Scope
  <2>2. Begin(r, t) /\ Owned(Holder[c], new) /\ UNCHANGED <<db, issued>>
    BY <1>2 DEF BeginPatch
  <2>3. (\A a \in t.add : Owner[a] = Holder[t.key]) /\ Distinct(t.add)
    BY <2>2 DEF Owned
  <2>4. t.op = "patch" /\ t.tok = NoToken
    OBVIOUS
  <2> HIDE DEF t
  <2> QED
    BY <2>1, <2>2, <2>3, <2>4, BeginKeeps
<1>3. ASSUME NEW c \in Keys, NEW t \in Tokens, BeginRotate(r, c, t) PROVE Kept
  <2> DEFINE u == [op |-> "rotate", key |-> c, add |-> {}, drop |-> {}, seen |-> {},
                   tok |-> t]
  <2>1. u \in Txn
    BY DEF Txn
  <2> QED
    BY <1>3, <2>1, BeginKeeps DEF BeginRotate
<1>4. ASSUME NEW c \in Keys, NEW S \in SUBSET Allocs, NEW t \in Tokens,
             BeginIssue(r, c, S, t)
      PROVE  Kept
  <2> DEFINE u == [op |-> "issue", key |-> c, add |-> S, drop |-> {}, seen |-> {},
                   tok |-> t]
  <2>1. u \in Txn
    BY DEF Txn
  <2>2. (\A a \in S : Owner[a] = Holder[c]) /\ Distinct(S)
    BY <1>4 DEF BeginIssue, Owned
  <2> QED
    BY <1>4, <2>1, <2>2, BeginKeeps DEF BeginIssue
<1>5. ASSUME NEW a \in Allocs, NEW c \in Keys, NEW t \in Tokens,
             BeginRotateAllocation(r, a, c, t)
      PROVE  Kept
  BY <1>3, <1>4, <1>5 DEF BeginRotateAllocation
<1> HIDE DEF Kept
<1>6. Kept
  BY <1>1, <1>2, <1>3, <1>4, <1>5 DEF Request
<1> QED
  BY <1>6 DEF Kept

-----------------------------------------------------------------------------
\* A session not touched by a step stays as SessionOK wants it.
LEMMA SessionsFrame ==
    ASSUME IInv,
           \A q \in Reqs : txn'[q] = txn[q] \/ txn'[q] = Idle,
           issued \subseteq issued',
           \A q \in Reqs : txn'[q] # Idle /\ txn[q].op = "issue" =>
               key'[txn[q].key] = "none" /\ token'[txn[q].key] = NoToken,
           \A q \in Reqs : txn'[q] # Idle /\ txn[q].tok # NoToken =>
               \A c \in Keys : token'[c] # txn[q].tok
    PROVE  SessionsOK'
<1> SUFFICES ASSUME NEW q \in Reqs PROVE SessionOK(q)'
  BY DEF SessionsOK
<1>1. SessionOK(q)
  BY DEF IInv, SessionsOK
<1>2. Idle.op = "idle" /\ Idle.tok = NoToken
  BY DEF Idle
<1>3. CASE txn'[q] = Idle
  BY <1>2, <1>3 DEF SessionOK
<1>4. CASE txn'[q] = txn[q] /\ txn'[q] # Idle
  BY <1>1, <1>2, <1>4 DEF SessionOK, Distinct
<1> QED
  BY <1>3, <1>4

\* The scope a commit leaves: a distinct set of rows of the key's member.
LEMMA LinksKeep ==
    ASSUME IInv, NEW c \in Keys, NEW add \in SUBSET Allocs,
           \A d \in Keys, a \in Allocs :
               <<d, a>> \in links' => <<d, a>> \in links \/ (d = c /\ a \in add),
           \A d \in Keys : KeyHasRow(d) => KeyHasRow(d)',
           \A a \in Allocs : HasRow(a) => HasRow(a)',
           KeyHasRow(c)',
           \A a \in add : HasRow(a)' /\ Owner[a] = Holder[c],
           Distinct(Scope(c) \cup add)
    PROVE  ScopeOwned' /\ ScopeModelsDistinct'
<1>1. \A d \in Keys : \A a \in Allocs :
          a \in Scope(d)' => a \in Scope(d) \/ (d = c /\ a \in add)
  BY DEF Scope
<1>2. \A d \in Keys : Scope(d)' \subseteq Allocs
  BY DEF Scope
<1>3. ScopeOwned'
  BY <1>1, <1>2 DEF IInv, ScopeOwned
<1>4. ScopeModelsDistinct'
  BY <1>1, <1>2 DEF IInv, ScopeModelsDistinct, Distinct
<1> QED
  BY <1>3, <1>4

\* Installing a token that no key holds.
LEMMA TokenInstalled ==
    ASSUME IInv, NEW c \in Keys, NEW t \in Tokens, t \in issued',
           token' = [token EXCEPT ![c] = t], issued \subseteq issued',
           \A d \in Keys : token[d] # t,
           key'[c] # "none",
           \A d \in Keys : key'[d] = "none" => key[d] = "none"
    PROVE  TokensOK' /\ TokenUnique'
<1>1. token'[c] = t /\ \A d \in Keys \ {c} : token'[d] = token[d]
  BY DEF IInv, TypeOK
<1> QED
  BY <1>1 DEF IInv, TokensOK, TokenUnique

\* The new key has a fresh id and token, and a scope of its owner's rows.
LEMMA CommitIssueKeeps ==
    ASSUME IInv, NEW r \in Reqs, CommitIssue(r)
    PROVE  SessionsOK' /\ TokensOK' /\ ScopeOwned' /\ ScopeModelsDistinct' /\ TokenUnique'
<1>1. SessionOK(r) /\ txn[r].op = "issue"
  BY DEF IInv, SessionsOK, CommitIssue
<1>a. PICK c \in Keys, t \in Tokens, add \in SUBSET Allocs :
          txn[r].key = c /\ txn[r].tok = t /\ txn[r].add = add
  BY <1>1 DEF IInv, TypeOK, Txn, SessionOK
<1>2. t # NoToken /\ t \in issued
  BY <1>1, <1>a, NoneAssumption DEF SessionOK
<1>3. /\ key[c] = "none" /\ token[c] = NoToken
      /\ \A d \in Keys : token[d] # t
      /\ \A q \in Reqs \ {r} : txn[q].op = "issue" => txn[q].key # c
      /\ \A q \in Reqs \ {r} : txn[q].tok # t
  BY <1>1, <1>a, <1>2 DEF SessionOK
<1>4. /\ key'[c] = "live" /\ \A d \in Keys \ {c} : key'[d] = key[d]
      /\ token'[c] = t /\ \A d \in Keys \ {c} : token'[d] = token[d]
      /\ txn'[r] = Idle /\ \A q \in Reqs \ {r} : txn'[q] = txn[q]
  BY <1>a DEF IInv, TypeOK, CommitIssue, Finish
<1>5. \A q \in Reqs : SessionOK(q) /\ (txn[q].op = "issue" => txn[q].key \in Keys)
  BY DEF IInv, SessionsOK, TypeOK
<1>6. SessionsOK'
  <2>1. \A q \in Reqs : txn'[q] # Idle /\ txn[q].op = "issue" =>
            key'[txn[q].key] = "none" /\ token'[txn[q].key] = NoToken
    BY <1>3, <1>4, <1>5 DEF SessionOK
  <2>2. \A q \in Reqs : txn'[q] # Idle /\ txn[q].tok # NoToken =>
            \A d \in Keys : token'[d] # txn[q].tok
    BY <1>3, <1>4, <1>5 DEF SessionOK
  <2> QED
    BY <1>4, <2>1, <2>2, SessionsFrame DEF CommitIssue
<1>7. TokensOK' /\ TokenUnique'
  <2>1. token' = [token EXCEPT ![c] = t] /\ issued \subseteq issued' /\ t \in issued'
    BY <1>a, <1>2 DEF CommitIssue
  <2>2. key'[c] # "none" /\ \A d \in Keys : key'[d] = "none" => key[d] = "none"
    BY <1>4
  <2> QED
    BY <1>3, <2>1, <2>2, TokenInstalled
<1>8. ScopeOwned' /\ ScopeModelsDistinct'
  <2>1. Scope(c) = {}
    BY <1>2, <1>3 DEF IInv, ScopeOwned, KeyHasRow, Scope
  <2>2. Distinct(Scope(c) \cup add)
    BY <1>1, <1>a, <2>1 DEF SessionOK
  <2>3. \A d \in Keys, a \in Allocs :
            <<d, a>> \in links' => <<d, a>> \in links \/ (d = c /\ a \in add)
    BY <1>a DEF CommitIssue
  <2>4. \A a \in add : HasRow(a)' /\ Owner[a] = Holder[c]
    BY <1>1, <1>a DEF SessionOK, CommitIssue, HasRow
  <2>5. KeyHasRow(c)' /\ \A d \in Keys : KeyHasRow(d) => KeyHasRow(d)'
    BY <1>3, <1>4 DEF KeyHasRow
  <2>6. \A a \in Allocs : HasRow(a) => HasRow(a)'
    BY DEF HasRow, CommitIssue
  <2> QED
    BY <1>a, <2>2, <2>3, <2>4, <2>5, <2>6, LinksKeep
<1> QED
  BY <1>6, <1>7, <1>8

\* A scope patch adds links the unique index accepts and removes links.
LEMMA CommitPatchKeeps ==
    ASSUME IInv, NEW r \in Reqs, CommitPatch(r)
    PROVE  SessionsOK' /\ TokensOK' /\ ScopeOwned' /\ ScopeModelsDistinct' /\ TokenUnique'
<1>1. SessionOK(r) /\ txn[r].op = "patch"
  BY DEF IInv, SessionsOK, CommitPatch
<1>2. PICK c \in Keys, add \in SUBSET Allocs : txn[r].key = c /\ txn[r].add = add
  BY <1>1 DEF IInv, TypeOK, Txn
<1>3. UNCHANGED <<gone, alloc, key, token, issued>>
  BY DEF CommitPatch
<1>4. \A q \in Reqs : txn'[q] = txn[q] \/ txn'[q] = Idle
  BY DEF IInv, TypeOK, CommitPatch, Finish
<1>5. SessionsOK'
  <2>1. \A q \in Reqs : SessionOK(q) /\ (txn[q].op = "issue" => txn[q].key \in Keys)
    BY DEF IInv, SessionsOK, TypeOK
  <2>2. \A q \in Reqs : txn'[q] # Idle /\ txn[q].op = "issue" =>
            key'[txn[q].key] = "none" /\ token'[txn[q].key] = NoToken
    BY <1>3, <2>1 DEF SessionOK
  <2>3. \A q \in Reqs : txn'[q] # Idle /\ txn[q].tok # NoToken =>
            \A d \in Keys : token'[d] # txn[q].tok
    BY <1>3, <2>1 DEF SessionOK
  <2> QED
    BY <1>3, <1>4, <2>2, <2>3, SessionsFrame
<1>6. TokensOK' /\ TokenUnique'
  BY <1>3 DEF IInv, TokensOK, TokenUnique
<1>7. ScopeOwned' /\ ScopeModelsDistinct'
  <2>1. Distinct(Scope(c) \cup add)
    <3>1. \A a \in Scope(c), b \in add : ModelOf[a] # ModelOf[b]
      BY <1>2 DEF CommitPatch, Conflict, ModelsOf
    <3>2. Distinct(Scope(c)) /\ Distinct(add)
      BY <1>1, <1>2 DEF IInv, ScopeModelsDistinct, SessionOK
    <3> QED
      BY <3>1, <3>2 DEF Distinct
  <2>2. \A d \in Keys, a \in Allocs :
            <<d, a>> \in links' => <<d, a>> \in links \/ (d = c /\ a \in add)
    BY <1>2 DEF CommitPatch
  <2>3. \A a \in add : HasRow(a)' /\ Owner[a] = Holder[c]
    BY <1>1, <1>2 DEF SessionOK, CommitPatch, HasRow
  <2>4. KeyHasRow(c)' /\ \A d \in Keys : KeyHasRow(d) => KeyHasRow(d)'
    BY <1>2, <1>3 DEF KeyHasRow, CommitPatch
  <2>5. \A a \in Allocs : HasRow(a) => HasRow(a)'
    BY <1>3 DEF HasRow
  <2> QED
    BY <1>2, <2>1, <2>2, <2>3, <2>4, <2>5, LinksKeep
<1> QED
  BY <1>5, <1>6, <1>7

\* A rotation installs a token no key holds; it leaves the scope alone.
LEMMA CommitRotateKeeps ==
    ASSUME IInv, NEW r \in Reqs, CommitRotate(r)
    PROVE  SessionsOK' /\ TokensOK' /\ ScopeOwned' /\ ScopeModelsDistinct' /\ TokenUnique'
<1>1. SessionOK(r) /\ txn[r].op = "rotate"
  BY DEF IInv, SessionsOK, CommitRotate
<1>2. PICK c \in Keys, t \in Tokens : txn[r].key = c /\ txn[r].tok = t
  BY <1>1 DEF IInv, TypeOK, Txn, SessionOK
<1>3. t # NoToken /\ t \in issued
  BY <1>1, <1>2, NoneAssumption DEF SessionOK
<1>4. /\ \A d \in Keys : token[d] # t
      /\ \A q \in Reqs \ {r} : txn[q].tok # t
  BY <1>1, <1>2, <1>3 DEF SessionOK
<1>5. /\ token'[c] = t /\ \A d \in Keys \ {c} : token'[d] = token[d]
      /\ txn'[r] = Idle /\ \A q \in Reqs \ {r} : txn'[q] = txn[q]
      /\ UNCHANGED <<gone, alloc, key, links, issued>>
      /\ KeyHasRow(c)
  BY <1>2 DEF IInv, TypeOK, CommitRotate, Finish
<1>6. SessionsOK'
  <2>1. \A q \in Reqs : SessionOK(q) /\ (txn[q].op = "issue" => txn[q].key \in Keys)
    BY DEF IInv, SessionsOK, TypeOK
  <2>2. \A q \in Reqs : txn'[q] # Idle /\ txn[q].op = "issue" =>
            key'[txn[q].key] = "none" /\ token'[txn[q].key] = NoToken
    BY <1>5, <2>1 DEF SessionOK, KeyHasRow
  <2>3. \A q \in Reqs : txn'[q] # Idle /\ txn[q].tok # NoToken =>
            \A d \in Keys : token'[d] # txn[q].tok
    BY <1>4, <1>5, <2>1 DEF SessionOK
  <2> QED
    BY <1>5, <2>2, <2>3, SessionsFrame
<1>7. TokensOK' /\ TokenUnique'
  <2>1. token' = [token EXCEPT ![c] = t]
    BY <1>2 DEF CommitRotate
  <2>2. key'[c] # "none" /\ t \in issued' /\ issued \subseteq issued'
    BY <1>3, <1>5 DEF KeyHasRow
  <2> QED
    BY <1>4, <1>5, <2>1, <2>2, TokenInstalled
<1>8. ScopeOwned' /\ ScopeModelsDistinct'
  BY <1>5 DEF IInv, ScopeOwned, ScopeModelsDistinct, Scope, Distinct, KeyHasRow, HasRow
<1> QED
  BY <1>6, <1>7, <1>8

\* A revocation and a rollback install nothing.
LEMMA CommitRevokeKeyKeeps ==
    ASSUME IInv, NEW r \in Reqs, CommitRevokeKey(r) \/ Abort(r)
    PROVE  SessionsOK' /\ TokensOK' /\ ScopeOwned' /\ ScopeModelsDistinct' /\ TokenUnique'
<1>1. UNCHANGED <<gone, alloc, token, links, issued>>
  BY DEF CommitRevokeKey, Abort, db
<1>2. \A q \in Reqs : txn'[q] = txn[q] \/ txn'[q] = Idle
  BY DEF IInv, TypeOK, CommitRevokeKey, Abort, Finish
<1>3. \A c \in Keys : /\ key'[c] = key[c] \/ (KeyHasRow(c) /\ key'[c] = "revoked")
                      /\ KeyHasRow(c) => KeyHasRow(c)'
  BY DEF IInv, TypeOK, CommitRevokeKey, Abort, db, KeyHasRow
<1>4. SessionsOK'
  <2>1. \A q \in Reqs : SessionOK(q) /\ (txn[q].op = "issue" => txn[q].key \in Keys)
    BY DEF IInv, SessionsOK, TypeOK
  <2>2. \A q \in Reqs : txn'[q] # Idle /\ txn[q].op = "issue" =>
            key'[txn[q].key] = "none" /\ token'[txn[q].key] = NoToken
    BY <1>1, <1>3, <2>1 DEF SessionOK, KeyHasRow
  <2>3. \A q \in Reqs : txn'[q] # Idle /\ txn[q].tok # NoToken =>
            \A d \in Keys : token'[d] # txn[q].tok
    BY <1>1, <2>1 DEF SessionOK
  <2> QED
    BY <1>1, <1>2, <2>2, <2>3, SessionsFrame
<1>5. TokensOK' /\ TokenUnique'
  BY <1>1, <1>3 DEF IInv, TokensOK, TokenUnique
<1>6. ScopeOwned' /\ ScopeModelsDistinct'
  BY <1>1, <1>3 DEF IInv, ScopeOwned, ScopeModelsDistinct, Scope, Distinct, HasRow
<1> QED
  BY <1>4, <1>5, <1>6

\* An allocation and its default key appear together, with a fresh token.
LEMMA CreateAllocationKeeps ==
    ASSUME IInv, NEW b \in Allocs, NEW c \in Keys, NEW t \in Tokens,
           CreateAllocation(b, c, t)
    PROVE  SessionsOK' /\ TokensOK' /\ ScopeOwned' /\ ScopeModelsDistinct' /\ TokenUnique'
<1>1. key[c] = "none" /\ \A q \in Reqs : txn[q].op = "issue" => txn[q].key # c
  BY DEF CreateAllocation, FreshKey
<1>2. \A q \in Reqs : SessionOK(q) /\ (txn[q].op = "issue" => txn[q].key \in Keys)
  BY DEF IInv, SessionsOK, TypeOK
<1>3. /\ \A d \in Keys : token[d] # t
      /\ \A q \in Reqs : txn[q].tok # t
  <2>1. t \notin issued /\ t # NoToken
    BY NoneAssumption DEF CreateAllocation, FreshToken
  <2> QED
    BY <1>2, <2>1 DEF IInv, TokensOK, SessionOK
<1>4. /\ key'[c] = "live" /\ \A d \in Keys \ {c} : key'[d] = key[d]
      /\ token'[c] = t /\ \A d \in Keys \ {c} : token'[d] = token[d]
      /\ alloc'[b] = "active" /\ \A a \in Allocs \ {b} : alloc'[a] = alloc[a]
      /\ txn' = txn /\ issued \subseteq issued' /\ t \in issued'
  BY DEF IInv, TypeOK, CreateAllocation
<1>5. SessionsOK'
  <2>1. \A q \in Reqs : txn'[q] # Idle /\ txn[q].op = "issue" =>
            key'[txn[q].key] = "none" /\ token'[txn[q].key] = NoToken
    BY <1>1, <1>2, <1>4 DEF SessionOK
  <2>2. \A q \in Reqs : txn'[q] # Idle /\ txn[q].tok # NoToken =>
            \A d \in Keys : token'[d] # txn[q].tok
    BY <1>2, <1>3, <1>4 DEF SessionOK
  <2> QED
    BY <1>4, <2>1, <2>2, SessionsFrame
<1>6. TokensOK' /\ TokenUnique'
  <2>1. token' = [token EXCEPT ![c] = t]
    BY DEF CreateAllocation
  <2>2. key'[c] # "none" /\ \A d \in Keys : key'[d] = "none" => key[d] = "none"
    BY <1>4
  <2> QED
    BY <1>3, <1>4, <2>1, <2>2, TokenInstalled
<1>7. ScopeOwned' /\ ScopeModelsDistinct'
  <2>1. Scope(c) = {}
    BY <1>1 DEF IInv, ScopeOwned, KeyHasRow, Scope
  <2>2. Distinct(Scope(c) \cup {b})
    BY <2>1 DEF Distinct
  <2>3. \A d \in Keys, a \in Allocs :
            <<d, a>> \in links' => <<d, a>> \in links \/ (d = c /\ a \in {b})
    BY DEF CreateAllocation
  <2>4. \A a \in {b} : HasRow(a)' /\ Owner[a] = Holder[c]
    BY <1>4 DEF HasRow, CreateAllocation
  <2>5. KeyHasRow(c)' /\ \A d \in Keys : KeyHasRow(d) => KeyHasRow(d)'
    BY <1>1, <1>4 DEF KeyHasRow
  <2>6. \A a \in Allocs : HasRow(a) => HasRow(a)'
    BY <1>4 DEF HasRow
  <2> QED
    BY <2>2, <2>3, <2>4, <2>5, <2>6, LinksKeep, {b} \in SUBSET Allocs
<1> QED
  BY <1>5, <1>6, <1>7

\* A status change and the deletion of a member start and end no session.
LEMMA RowsKeep ==
    ASSUME IInv,
           \/ \E a \in Allocs, s \in {"active", "blocked"} : SetAllocationStatus(a, s)
           \/ \E m \in Members : DeleteMember(m)
           \/ UNCHANGED vars
    PROVE  SessionsOK' /\ TokensOK' /\ ScopeOwned' /\ ScopeModelsDistinct' /\ TokenUnique'
<1>1. token' = token /\ issued' = issued /\ txn' = txn
  BY DEF SetAllocationStatus, DeleteMember, vars
<1>2. \A c \in Keys : key'[c] = key[c] \/ (KeyHasRow(c) /\ key'[c] = "deleted")
  BY DEF SetAllocationStatus, DeleteMember, vars
<1>3. SessionsOK'
  <2>1. \A q \in Reqs : SessionOK(q) /\ (txn[q].op = "issue" => txn[q].key \in Keys)
    BY DEF IInv, SessionsOK, TypeOK
  <2>2. \A q \in Reqs : txn'[q] # Idle /\ txn[q].op = "issue" =>
            key'[txn[q].key] = "none" /\ token'[txn[q].key] = NoToken
    BY <1>1, <1>2, <2>1 DEF SessionOK, KeyHasRow
  <2>3. \A q \in Reqs : txn'[q] # Idle /\ txn[q].tok # NoToken =>
            \A d \in Keys : token'[d] # txn[q].tok
    BY <1>1, <2>1 DEF SessionOK
  <2> QED
    BY <1>1, <2>2, <2>3, SessionsFrame
<1>4. TokensOK' /\ TokenUnique'
  BY <1>1, <1>2 DEF IInv, TokensOK, TokenUnique
<1>5. ASSUME NEW b \in Allocs, NEW s \in {"active", "blocked"}, SetAllocationStatus(b, s)
      PROVE  ScopeOwned' /\ ScopeModelsDistinct'
  <2>1. links' = links /\ key' = key /\ \A a \in Allocs : HasRow(a) => HasRow(a)'
    BY <1>5 DEF IInv, TypeOK, SetAllocationStatus, HasRow
  <2> QED
    BY <2>1 DEF IInv, ScopeOwned, ScopeModelsDistinct, Scope, Distinct, KeyHasRow
<1>6. ASSUME NEW m \in Members, DeleteMember(m)
      PROVE  ScopeOwned' /\ ScopeModelsDistinct'
  <2>1. \A c \in Keys, a \in Allocs :
            <<c, a>> \in links' => <<c, a>> \in links /\ Holder[c] # m /\ Owner[a] # m
    BY <1>6 DEF DeleteMember
  <2>2. \A c \in Keys : Holder[c] # m => key'[c] = key[c]
    BY <1>6 DEF DeleteMember
  <2>3. \A a \in Allocs : Owner[a] # m => alloc'[a] = alloc[a]
    BY <1>6 DEF DeleteMember
  <2> QED
    BY <2>1, <2>2, <2>3
    DEF IInv, ScopeOwned, ScopeModelsDistinct, Scope, Distinct, KeyHasRow, HasRow
<1>7. ASSUME UNCHANGED vars PROVE ScopeOwned' /\ ScopeModelsDistinct'
  BY <1>7 DEF IInv, ScopeOwned, ScopeModelsDistinct, Scope, Distinct, KeyHasRow, HasRow, vars
<1>8. ScopeOwned' /\ ScopeModelsDistinct'
  BY <1>5, <1>6, <1>7
<1> QED
  BY <1>3, <1>4, <1>8

-----------------------------------------------------------------------------
\* Every step keeps the inductive invariant.
LEMMA InductiveStep == IInv /\ [Next]_vars => IInv'
<1> SUFFICES ASSUME IInv, [Next]_vars PROVE IInv'
  OBVIOUS
<1> DEFINE Kept == SessionsOK' /\ TokensOK' /\ ScopeOwned' /\ ScopeModelsDistinct'
                       /\ TokenUnique'
<1>1. TypeOK'
  BY TypeStep DEF IInv
<1>2. ASSUME NEW r \in Reqs, Request(r) PROVE Kept
  BY <1>2, RequestKeeps
<1>3. ASSUME NEW r \in Reqs, CommitIssue(r) PROVE Kept
  BY <1>3, CommitIssueKeeps
<1>4. ASSUME NEW r \in Reqs, CommitPatch(r) PROVE Kept
  BY <1>4, CommitPatchKeeps
<1>5. ASSUME NEW r \in Reqs, CommitRotate(r) PROVE Kept
  BY <1>5, CommitRotateKeeps
<1>6. ASSUME NEW r \in Reqs, CommitRevokeKey(r) \/ Abort(r) PROVE Kept
  BY <1>6, CommitRevokeKeyKeeps
<1>7. ASSUME NEW a \in Allocs, NEW c \in Keys, NEW t \in Tokens, CreateAllocation(a, c, t)
      PROVE  Kept
  BY <1>7, CreateAllocationKeeps
<1>8. ASSUME \/ \E a \in Allocs, s \in {"active", "blocked"} : SetAllocationStatus(a, s)
             \/ \E m \in Members : DeleteMember(m)
             \/ UNCHANGED vars
      PROVE  Kept
  BY <1>8, RowsKeep
<1> HIDE DEF Kept
<1>9. Kept
  BY <1>2, <1>3, <1>4, <1>5, <1>6, <1>7, <1>8 DEF Next, Progress
<1> QED
  BY <1>1, <1>9 DEF IInv, Kept

\* The empty database satisfies the inductive invariant.
LEMMA Inductive == Spec => []IInv
<1>1. Init => IInv
  BY DEF Init, IInv, TypeOK, Txn, Idle, SessionsOK, SessionOK, TokensOK, ScopeOwned,
         ScopeModelsDistinct, TokenUnique, Scope, Distinct
<1> QED
  BY <1>1, InductiveStep, PTL DEF Spec

\* Whatever patches, issues and deletions interleave, a key reaches only
\* existing allocations of its own member (patch_credential_scope and the
\* foreign keys of credential_allocations).
THEOREM ScopesAreOwned == Spec => []ScopeOwned
<1>1. IInv => ScopeOwned
  BY DEF IInv
<1> QED
  BY <1>1, Inductive, PTL

\* A model selects at most one allocation of a key's scope, though two patches
\* of one key may both have passed the check in Python
\* (resolve_scope_allocation relies on it).
THEOREM ScopesAreUnambiguous == Spec => []ScopeModelsDistinct
<1>1. IInv => ScopeModelsDistinct
  BY DEF IInv
<1> QED
  BY <1>1, Inductive, PTL

\* No two keys ever share a token fingerprint, the premise of
\* lookup_credential_by_token's scalar_one_or_none.
THEOREM TokensAreUnique == Spec => []TokenUnique
<1>1. IInv => TokenUnique
  BY DEF IInv
<1> QED
  BY <1>1, Inductive, PTL

-----------------------------------------------------------------------------
\* A handler's reads change no table.
LEMMA RequestReads ==
    ASSUME NEW r \in Reqs, Request(r)
    PROVE  UNCHANGED <<gone, alloc, key, token>>
<1>1. \A c \in Keys : BeginRevokeKey(r, c) => UNCHANGED <<gone, alloc, key, token>>
  BY DEF BeginRevokeKey, db
<1>2. \A c \in Keys : \A add, remove \in SUBSET Allocs :
          BeginPatch(r, c, add, remove) => UNCHANGED <<gone, alloc, key, token>>
  BY DEF BeginPatch, db
<1>3. \A c \in Keys, t \in Tokens : BeginRotate(r, c, t) => UNCHANGED <<gone, alloc, key, token>>
  BY DEF BeginRotate, db
<1>4. \A c \in Keys, t \in Tokens : \A S \in SUBSET Allocs :
          BeginIssue(r, c, S, t) => UNCHANGED <<gone, alloc, key, token>>
  BY DEF BeginIssue, db
<1>5. \A c \in Keys, t \in Tokens : \A a \in Allocs :
          BeginRotateAllocation(r, a, c, t) => UNCHANGED <<gone, alloc, key, token>>
  <2>1. ASSUME NEW c \in Keys, NEW t \in Tokens, NEW a \in Allocs, BeginRotateAllocation(r, a, c, t)
        PROVE  BeginRotate(r, c, t) \/ BeginIssue(r, c, {a}, t)
    BY <2>1 DEF BeginRotateAllocation
  <2>2. \A a \in Allocs : {a} \in SUBSET Allocs
    OBVIOUS
  <2> QED
    BY <1>3, <1>4, <2>1, <2>2
<1>6. PICK c \in Keys :
          \/ BeginRevokeKey(r, c)
          \/ \E add \in SUBSET (Allocs \ Scope(c)), remove \in SUBSET Scope(c) :
                 BeginPatch(r, c, add, remove)
          \/ \E t \in Tokens : \/ BeginRotate(r, c, t)
                               \/ \E S \in SUBSET Allocs : BeginIssue(r, c, S, t)
                               \/ \E a \in Allocs : BeginRotateAllocation(r, a, c, t)
  BY DEF Request
<1>7. Scope(c) \subseteq Allocs
  BY DEF Scope
<1> QED
  BY <1>1, <1>2, <1>3, <1>4, <1>5, <1>6, <1>7

\* One step never brings a revoked key back: a key is only inserted where none
\* was, and a rotation leaves revoked_at alone.
LEMMA RevokedStep ==
    ASSUME IInv, [Next]_vars, NEW c \in Keys, key[c] = "revoked"
    PROVE  key'[c] \in {"revoked", "deleted"}
<1> USE DEF IInv, TypeOK, db
<1>1. ASSUME NEW r \in Reqs, CommitIssue(r) PROVE key'[c] = key[c]
  <2>1. txn[r].key # c
    BY <1>1 DEF CommitIssue, SessionsOK, SessionOK
  <2> QED
    BY <1>1, <2>1 DEF CommitIssue
<1>2. ASSUME NEW r \in Reqs, Request(r) PROVE key'[c] = key[c]
  BY <1>2, RequestReads
<1>3. ASSUME NEW r \in Reqs, CommitPatch(r) \/ CommitRotate(r) \/ Abort(r)
      PROVE  key'[c] = key[c]
  BY <1>3 DEF CommitPatch, CommitRotate, Abort
<1>4. ASSUME NEW r \in Reqs, CommitRevokeKey(r) PROVE key'[c] = "revoked"
  BY <1>4 DEF CommitRevokeKey
<1>5. ASSUME NEW a \in Allocs, NEW d \in Keys, NEW t \in Tokens, CreateAllocation(a, d, t)
      PROVE  key'[c] = key[c]
  BY <1>5 DEF CreateAllocation, FreshKey
<1>6. ASSUME NEW a \in Allocs, NEW s \in {"active", "blocked"}, SetAllocationStatus(a, s)
      PROVE  key'[c] = key[c]
  BY <1>6 DEF SetAllocationStatus
<1>7. ASSUME NEW m \in Members, DeleteMember(m) PROVE key'[c] \in {"revoked", "deleted"}
  BY <1>7 DEF DeleteMember
<1>8. CASE UNCHANGED vars
  BY <1>8 DEF vars
<1> HIDE DEF IInv, TypeOK, db
<1> QED
  BY <1>1, <1>2, <1>3, <1>4, <1>5, <1>6, <1>7, <1>8 DEF Next, Progress

\* A revoked key stays revoked through every race of rotations and patches
\* (rotate_credential reads revoked_at before it writes the token).
THEOREM RevokedKeysStayRevoked == Spec => RevokedKeyStaysRevoked
<1>1. IInv /\ [Next]_vars =>
          [\A c \in Keys : key[c] = "revoked" => key'[c] \in {"revoked", "deleted"}]_vars
  BY RevokedStep
<1> QED
  BY <1>1, Inductive, PTL DEF Spec, RevokedKeyStaysRevoked

\* The token of one more transaction is one it has generated, or none.
LEMMA BeginTakes ==
    ASSUME TypeOK, NEW r \in Reqs, NEW t \in Txn, Begin(r, t),
           t.tok \in {NoToken} \cup (Tokens \ issued)
    PROVE  \A q \in Reqs : txn'[q].tok \in {txn[q].tok, NoToken} \cup (Tokens \ issued)
<1>1. txn' = [txn EXCEPT ![r] = t] /\ txn \in [Reqs -> Txn]
  BY DEF Begin, TypeOK
<1> QED
  BY <1>1

\* What a handler holds after its reads: a token it had, none, or a new one.
LEMMA RequestTakes ==
    ASSUME TypeOK, NEW r \in Reqs, Request(r)
    PROVE  /\ issued \subseteq issued'
           /\ \A q \in Reqs : txn'[q].tok \in {txn[q].tok, NoToken} \cup (Tokens \ issued)
<1> DEFINE Taken == /\ issued \subseteq issued'
                    /\ \A q \in Reqs : txn'[q].tok \in {txn[q].tok, NoToken} \cup (Tokens \ issued)
<1>1. ASSUME NEW c \in Keys, BeginRevokeKey(r, c) PROVE Taken
  <2> DEFINE t == [op |-> "revoke", key |-> c, add |-> {}, drop |-> {}, seen |-> {},
                   tok |-> NoToken]
  <2>1. t \in Txn /\ t.tok = NoToken /\ Begin(r, t) /\ issued' = issued
    BY <1>1 DEF BeginRevokeKey, Txn, Ops
  <2> QED
    BY <2>1, BeginTakes
<1>2. ASSUME NEW c \in Keys, NEW add \in SUBSET Allocs, NEW remove \in SUBSET Allocs,
             BeginPatch(r, c, add, remove)
      PROVE  Taken
  <2> DEFINE t == [op |-> "patch", key |-> c, add |-> add \ Scope(c),
                   drop |-> Scope(c) \cap remove, seen |-> Scope(c), tok |-> NoToken]
  <2>1. t \in Txn /\ t.tok = NoToken
    BY DEF Txn, Ops, Scope
  <2>2. Begin(r, t) /\ issued' = issued
    BY <1>2 DEF BeginPatch
  <2> QED
    BY <2>1, <2>2, BeginTakes
<1>3. ASSUME NEW c \in Keys, NEW u \in Tokens, BeginRotate(r, c, u) PROVE Taken
  <2> DEFINE t == [op |-> "rotate", key |-> c, add |-> {}, drop |-> {}, seen |-> {}, tok |-> u]
  <2>1. t \in Txn /\ t.tok = u /\ u \in Tokens \ issued
    BY <1>3 DEF BeginRotate, FreshToken, Txn, Ops
  <2>2. Begin(r, t) /\ issued' = issued \cup {u}
    BY <1>3 DEF BeginRotate
  <2> QED
    BY <2>1, <2>2, BeginTakes
<1>4. ASSUME NEW c \in Keys, NEW u \in Tokens, NEW S \in SUBSET Allocs, BeginIssue(r, c, S, u)
      PROVE  Taken
  <2> DEFINE t == [op |-> "issue", key |-> c, add |-> S, drop |-> {}, seen |-> {}, tok |-> u]
  <2>1. t \in Txn /\ t.tok = u /\ u \in Tokens \ issued
    BY <1>4 DEF BeginIssue, FreshToken, Txn, Ops
  <2>2. Begin(r, t) /\ issued' = issued \cup {u}
    BY <1>4 DEF BeginIssue
  <2> QED
    BY <2>1, <2>2, BeginTakes
<1>5. ASSUME NEW c \in Keys, NEW u \in Tokens, NEW a \in Allocs, BeginRotateAllocation(r, a, c, u)
      PROVE  Taken
  <2>1. BeginRotate(r, c, u) \/ BeginIssue(r, c, {a}, u)
    BY <1>5 DEF BeginRotateAllocation
  <2>2. {a} \in SUBSET Allocs
    OBVIOUS
  <2> QED
    BY <1>3, <1>4, <2>1, <2>2
<1>6. PICK c \in Keys :
          \/ BeginRevokeKey(r, c)
          \/ \E add \in SUBSET (Allocs \ Scope(c)), remove \in SUBSET Scope(c) :
                 BeginPatch(r, c, add, remove)
          \/ \E u \in Tokens : \/ BeginRotate(r, c, u)
                               \/ \E S \in SUBSET Allocs : BeginIssue(r, c, S, u)
                               \/ \E a \in Allocs : BeginRotateAllocation(r, a, c, u)
  BY DEF Request
<1>7. Scope(c) \subseteq Allocs
  BY DEF Scope
<1> HIDE DEF Taken
<1>8. Taken
  BY <1>1, <1>2, <1>3, <1>4, <1>5, <1>6, <1>7
<1> QED
  BY <1>8 DEF Taken

\* The same of any step: nobody comes to hold a token that was issued before and
\* that nobody held.
LEMMA StepTakes ==
    ASSUME TypeOK, [Next]_vars
    PROVE  /\ issued \subseteq issued'
           /\ \A q \in Reqs : txn'[q].tok \in {txn[q].tok, NoToken} \cup (Tokens \ issued)
<1>1. ASSUME NEW r \in Reqs, Progress(r)
      PROVE  issued' = issued /\ Finish(r)
  BY <1>1 DEF Progress, CommitIssue, CommitPatch, CommitRotate, CommitRevokeKey, Abort, db
<1>2. ASSUME NEW r \in Reqs, Finish(r)
      PROVE  \A q \in Reqs : txn'[q].tok \in {txn[q].tok, NoToken}
  <2>1. txn' = [txn EXCEPT ![r] = Idle] /\ txn \in [Reqs -> Txn] /\ Idle.tok = NoToken
    BY <1>2 DEF Finish, TypeOK, Idle
  <2> QED
    BY <2>1
<1>3. ASSUME NEW a \in Allocs, NEW c \in Keys, NEW u \in Tokens, CreateAllocation(a, c, u)
      PROVE  issued \subseteq issued' /\ txn' = txn
  BY <1>3 DEF CreateAllocation
<1>4. ASSUME NEW a \in Allocs, NEW s \in {"active", "blocked"}, SetAllocationStatus(a, s)
      PROVE  issued' = issued /\ txn' = txn
  BY <1>4 DEF SetAllocationStatus
<1>5. ASSUME NEW m \in Members, DeleteMember(m)
      PROVE  issued' = issued /\ txn' = txn
  BY <1>5 DEF DeleteMember
<1>6. CASE UNCHANGED vars
  BY <1>6 DEF vars
<1>7. CASE Next
  <2>1. CASE \E r \in Reqs : Request(r)
    BY <2>1, RequestTakes
  <2>2. CASE \E r \in Reqs : Progress(r)
    BY <1>1, <1>2, <2>2
  <2>3. CASE \E a \in Allocs, c \in Keys, u \in Tokens : CreateAllocation(a, c, u)
    BY <1>3, <2>3
  <2>4. CASE \E a \in Allocs, s \in {"active", "blocked"} : SetAllocationStatus(a, s)
    BY <1>4, <2>4
  <2>5. CASE \E m \in Members : DeleteMember(m)
    BY <1>5, <2>5
  <2> QED
    BY <1>7, <2>1, <2>2, <2>3, <2>4, <2>5 DEF Next
<1> QED
  BY <1>6, <1>7

\* One step installs only a token some session held, or a token never seen.
LEMMA DeadUnresolved ==
    ASSUME IInv, [Next]_vars, NEW t \in issued, ~ Resolves(t), ~ InFlight(t)
    PROVE  ~ Resolves(t)'
<1> SUFFICES ASSUME NEW c \in Keys, key'[c] = "live", token'[c] = t PROVE FALSE
  BY DEF Resolves
<1>a. ~ (key[c] = "live" /\ token[c] = t) /\ \A r \in Reqs : txn[r].tok # t
  BY DEF Resolves, InFlight
<1>b. TypeOK
  BY DEF IInv
<1> USE DEF db
<1>1. ASSUME NEW r \in Reqs, CommitIssue(r) PROVE FALSE
  <2>1. txn[r].key \in Keys
    BY <1>1, <1>b DEF TypeOK, CommitIssue
  <2> QED
    BY <1>1, <1>a, <1>b, <2>1 DEF CommitIssue, TypeOK
<1>2. ASSUME NEW r \in Reqs, Request(r) PROVE FALSE
  BY <1>2, <1>a, RequestReads
<1>3. ASSUME NEW r \in Reqs, CommitPatch(r) \/ Abort(r) PROVE FALSE
  BY <1>3, <1>a DEF CommitPatch, Abort
<1>4. ASSUME NEW r \in Reqs, CommitRotate(r) PROVE FALSE
  BY <1>4, <1>a, <1>b DEF CommitRotate, TypeOK
<1>5. ASSUME NEW r \in Reqs, CommitRevokeKey(r) PROVE FALSE
  BY <1>5, <1>a, <1>b DEF CommitRevokeKey, TypeOK
<1>6. ASSUME NEW b \in Allocs, NEW d \in Keys, NEW u \in Tokens, CreateAllocation(b, d, u)
      PROVE  FALSE
  BY <1>6, <1>a, <1>b DEF CreateAllocation, FreshToken, TypeOK
<1>7. ASSUME NEW b \in Allocs, NEW s \in {"active", "blocked"}, SetAllocationStatus(b, s)
      PROVE  FALSE
  BY <1>7, <1>a DEF SetAllocationStatus
<1>8. ASSUME NEW m \in Members, DeleteMember(m) PROVE FALSE
  BY <1>8, <1>a DEF DeleteMember
<1>9. CASE UNCHANGED vars
  BY <1>9, <1>a DEF vars
<1> QED
  BY <1>1, <1>2, <1>3, <1>4, <1>5, <1>6, <1>7, <1>8, <1>9 DEF Next, Progress

\* A dead token is neither taken up nor installed: it is dead after any step.
LEMMA DeadStep ==
    ASSUME IInv, [Next]_vars, NEW t \in Tokens, Dead(t)
    PROVE  Dead(t)'
<1>1. t \in issued /\ ~ Resolves(t) /\ ~ InFlight(t)
  BY DEF Dead
<1>2. t \in issued' /\ ~ InFlight(t)'
  BY <1>1, StepTakes, NoneAssumption DEF IInv, InFlight
<1>3. ~ Resolves(t)'
  BY <1>1, DeadUnresolved
<1> QED
  BY <1>2, <1>3 DEF Dead

\* No step revives a dead token: what is rotated out, or belongs to a revoked or
\* deleted key, is held by no transaction from then on and resolved by no key
\* (rotate_credential, revoke_credential).
THEOREM TokensStayDead == Spec => DeadTokensStayDead
<1>1. IInv /\ [Next]_vars => [\A t \in Tokens : Dead(t) => Dead(t)']_vars
  BY DeadStep
<1> QED
  BY <1>1, Inductive, PTL DEF Spec, DeadTokensStayDead

\* So a dead token authenticates no call for the rest of the behaviour, whatever
\* is issued, rotated, patched or revoked (lookup_credential_by_token).
THEOREM TokensDieForGood == ASSUME NEW t \in Tokens PROVE Spec => [](Dead(t) => []~ Resolves(t))
<1>1. IInv /\ Dead(t) /\ [Next]_vars => Dead(t)'
  BY DeadStep
<1>2. Dead(t) => ~ Resolves(t)
  BY DEF Dead
<1> QED
  BY <1>1, <1>2, Inductive, PTL DEF Spec

-----------------------------------------------------------------------------
(* The table of allocations keys are scoped to (AllocationRows).           *)

Table == INSTANCE AllocationRows

\* Every handler leaves the table alone, or changes it the way it changes.
LEMMA TableStep == TypeOK /\ [Next]_vars => [Table!Next]_(Table!vars)
<1> SUFFICES ASSUME TypeOK, [Next]_vars
             PROVE  Table!Next \/ UNCHANGED <<gone, alloc>>
  BY DEF Table!vars
<1>1. ASSUME NEW r \in Reqs, Request(r) PROVE UNCHANGED <<gone, alloc>>
  BY <1>1, RequestReads
<1>2. ASSUME NEW r \in Reqs, Progress(r) PROVE UNCHANGED <<gone, alloc>>
  BY <1>2 DEF Progress, CommitIssue, CommitPatch, CommitRotate, CommitRevokeKey, Abort, db
<1>3. ASSUME NEW a \in Allocs, NEW c \in Keys, NEW t \in Tokens, CreateAllocation(a, c, t)
      PROVE  Table!Next
  <2>1. Table!Insert(a)
    BY <1>3 DEF CreateAllocation, Table!Insert
  <2> QED
    BY <2>1 DEF Table!Next
<1>4. ASSUME NEW a \in Allocs, NEW s \in {"active", "blocked"}, SetAllocationStatus(a, s)
      PROVE  Table!Next
  <2>1. alloc' = [b \in Allocs |-> IF b \in {a} THEN s ELSE alloc[b]]
    BY <1>4 DEF SetAllocationStatus, TypeOK
  <2>2. Table!Move({a}, s)
    BY <1>4, <2>1 DEF SetAllocationStatus, HasRow, Table!Move, Table!InTable
  <2>3. {a} \in SUBSET Allocs
    OBVIOUS
  <2> QED
    BY <2>2, <2>3 DEF Table!Next
<1>5. ASSUME NEW m \in Members, DeleteMember(m) PROVE Table!Next
  <2>1. Table!Remove(m)
    BY <1>5 DEF DeleteMember, HasRow, Table!Remove, Table!InTable
  <2> QED
    BY <2>1 DEF Table!Next
<1>6. CASE UNCHANGED vars
  BY <1>6 DEF vars
<1> QED
  BY <1>1, <1>2, <1>3, <1>4, <1>5, <1>6 DEF Next

\* The allocations keys are scoped to are those of AllocationLifecycle: no
\* handler of credentials assumes more of their table, or does more to it.
THEOREM ScopesOverTheTable == Spec => Table!Spec
<1>1. Init => Table!Init
  BY DEF Init, Table!Init
<1> QED
  BY <1>1, TableStep, TypeCorrect, PTL DEF Spec, Table!Spec
=============================================================================
