--------------------------- MODULE SignInThrottle ---------------------------
(***************************************************************************)
(* Password sign-ins are counted per identifier and per source, and enough *)
(* failures within a window lock the identifier or the source for a while. *)
(* A sign-in checks in one READ COMMITTED transaction and writes one row:  *)
(* rows of others are seen once committed, and carry the time they were    *)
(* made at, so they age in flight too.                                     *)
(***************************************************************************)
EXTENDS Integers, FiniteSets, Functions

CONSTANTS
    Emails,         \* login identifiers
    Ips,            \* request sources
    Disabled,       \* identifiers whose member is disabled
    Reqs,           \* concurrent sign-ins
    Threshold,      \* THRESHOLD, failures per identifier
    IpThreshold,    \* perip_lockout_threshold
    Window,         \* WINDOW, in ticks
    Lock            \* LOCK_DURATION, in ticks

ASSUME FiniteAssumption == IsFiniteSet(Emails) /\ IsFiniteSet(Ips) /\ IsFiniteSet(Reqs)
ASSUME DisabledAssumption == Disabled \subseteq Emails
ASSUME ThresholdAssumption == Threshold \in Nat \ {0} /\ IpThreshold \in Nat \ {0}
ASSUME WindowAssumption == Window \in Nat \ {0} /\ Lock \in Nat /\ Lock > Window

VARIABLES
    fails,      \* counted failures of an identifier from a source, by age
    emailLock,  \* ticks each identifier's newest lock row still counts
    ipLock,     \* the same of each source
    allowed,    \* sources the enabled restrictions match; none: no restriction
    txn,        \* the row each sign-in is about to commit
    blamed      \* history: identifiers and sources with a recorded failure

vars == <<fails, emailLock, ipLock, allowed, txn, blamed>>

Idle == [row |-> "none"]
Row == [row : {"fail", "email_lock", "ip_lock"}, e : Emails, i : Ips, age : 0..Lock]

\* The one type invariant; a lock row older than the lock counts no more.
TypeOK ==
    /\ fails \in [Emails \X Ips -> [0..Window - 1 -> Nat]]
    /\ emailLock \in [Emails -> 0..Lock] /\ ipLock \in [Ips -> 0..Lock]
    /\ allowed \subseteq Ips
    /\ txn \in [Reqs -> {Idle} \cup Row]
    /\ blamed \subseteq Emails \cup Ips

-----------------------------------------------------------------------------
Ages == 0..Window - 1
EmailFails(e) == SumFunction([x \in Ips \X Ages |-> fails[<<e, x[1]>>][x[2]]])
IpFails(i) == SumFunction([x \in Emails \X Ages |-> fails[<<x[1], i>>][x[2]]])

\* is_source_allowed: any restriction excludes whatever no restriction matches.
SourceAllowed(i) == allowed = {} \/ i \in allowed

\* Mutant: one failure more.
IpFull_OffByOne(i) == IpFails(i) > IpThreshold
IpFull(i) == IpFails(i) >= IpThreshold
EmailFull(e) == EmailFails(e) >= Threshold

\* local_login asks about the source before the identifier.
IpPasses(i) == SourceAllowed(i) /\ ipLock[i] = 0 /\ ~ IpFull(i)
Passes(e, i) == IpPasses(i) /\ emailLock[e] = 0 /\ ~ EmailFull(e)

Begin(r, row, e, i) ==
    /\ txn[r] = Idle
    /\ txn' = [txn EXCEPT ![r] = [row |-> row, e |-> e, i |-> i, age |-> 0]]
    /\ UNCHANGED <<fails, emailLock, ipLock, allowed, blamed>>

\* is_ip_locked writes a marker, so that later checks stop at it.
MarkIp(r, e, i) ==
    /\ SourceAllowed(i) /\ ipLock[i] = 0 /\ IpFull(i)
    /\ Begin(r, "ip_lock", e, i)

\* Mutant: a sign-in that meets a lock renews it.
MarkEmail_Renews(r, e, i) ==
    /\ IpPasses(i) /\ (EmailFull(e) \/ emailLock[e] > 0)
    /\ Begin(r, "email_lock", e, i)
\* is_locked.
MarkEmail(r, e, i) ==
    /\ IpPasses(i) /\ emailLock[e] = 0 /\ EmailFull(e)
    /\ Begin(r, "email_lock", e, i)

\* An unknown identifier, a wrong password, or a member without a password.  A
\* disabled member's row, like a success, counts nowhere and is left out.
Fail(r, e, i) ==
    /\ Passes(e, i) /\ e \notin Disabled
    /\ Begin(r, "fail", e, i)

\* A row that counts for n ticks once made is seen for what is left of them;
\* of two rows the newer one decides.
Left(n, t) == IF t.age < n THEN n - t.age ELSE 0
Newest(a, b) == IF a > b THEN a ELSE b

Commits(r, row) ==
    /\ txn[r] # Idle /\ txn[r].row = row
    /\ txn' = [txn EXCEPT ![r] = Idle]
    /\ UNCHANGED allowed

CommitFail(r) ==
    LET t == txn[r] IN
    /\ Commits(r, "fail")
    /\ fails' = IF t.age \in Ages THEN [fails EXCEPT ![<<t.e, t.i>>][t.age] = @ + 1]
                                  ELSE fails
    /\ blamed' = blamed \cup {t.e, t.i}
    /\ UNCHANGED <<emailLock, ipLock>>

\* Mutant: the identifier's lock row carries the source too.
CommitEmailLock_WithSource(r) ==
    LET t == txn[r] IN
    /\ Commits(r, "email_lock")
    /\ emailLock' = [emailLock EXCEPT ![t.e] = Newest(@, Left(Lock, t))]
    /\ ipLock' = [ipLock EXCEPT ![t.i] = Newest(@, Left(Lock, t))]
    /\ UNCHANGED <<fails, blamed>>
CommitEmailLock(r) ==
    LET t == txn[r] IN
    /\ Commits(r, "email_lock")
    /\ emailLock' = [emailLock EXCEPT ![t.e] = Newest(@, Left(Lock, t))]
    /\ UNCHANGED <<fails, ipLock, blamed>>

CommitIpLock(r) ==
    LET t == txn[r] IN
    /\ Commits(r, "ip_lock")
    /\ ipLock' = [ipLock EXCEPT ![t.i] = Newest(@, Left(Lock, t))]
    /\ UNCHANGED <<fails, emailLock, blamed>>

\* A failing request rolls its row back.
Abort(r) ==
    /\ txn[r] # Idle
    /\ txn' = [txn EXCEPT ![r] = Idle]
    /\ UNCHANGED <<fails, emailLock, ipLock, allowed, blamed>>

\* SourceRestrictionService.create and delete.
EditSources(i) ==
    /\ allowed' \in {allowed \cup {i}, allowed \ {i}}
    /\ UNCHANGED <<fails, emailLock, ipLock, txn, blamed>>

Down(n) == IF n = 0 THEN 0 ELSE n - 1
Tick ==
    /\ fails' = [p \in Emails \X Ips |->
                    [a \in Ages |-> IF a = 0 THEN 0 ELSE fails[p][a - 1]]]
    /\ emailLock' = [e \in Emails |-> Down(emailLock[e])]
    /\ ipLock' = [i \in Ips |-> Down(ipLock[i])]
    /\ txn' = [r \in Reqs |-> IF txn[r] = Idle \/ txn[r].age = Lock THEN txn[r]
                              ELSE [txn[r] EXCEPT !.age = @ + 1]]
    /\ UNCHANGED <<allowed, blamed>>

-----------------------------------------------------------------------------
Init ==
    /\ fails = [p \in Emails \X Ips |-> [a \in Ages |-> 0]]
    /\ emailLock = [e \in Emails |-> 0] /\ ipLock = [i \in Ips |-> 0]
    /\ allowed = {}
    /\ txn = [r \in Reqs |-> Idle]
    /\ blamed = {}

Next ==
    \/ \E r \in Reqs, e \in Emails, i \in Ips :
          MarkIp(r, e, i) \/ MarkEmail(r, e, i) \/ Fail(r, e, i)
    \/ \E r \in Reqs : \/ CommitFail(r) \/ CommitEmailLock(r) \/ CommitIpLock(r)
                       \/ Abort(r)
    \/ \E i \in Ips : EditSources(i)
    \/ Tick

Spec == Init /\ [][Next]_vars

\* Time passes; nothing else need happen.
FairSpec == Spec /\ WF_vars(Tick)

-----------------------------------------------------------------------------
\* Counting first and recording later lets overlapping sign-ins through on one
\* count (ratelimit.py:114), but no more than one each: within a window, an
\* identifier or a source fails at most one short of its threshold, plus once
\* for every sign-in that can be in flight.
FailuresBounded ==
    /\ \A e \in Emails : EmailFails(e) <= Threshold - 1 + Cardinality(Reqs)
    /\ \A i \in Ips : IpFails(i) <= IpThreshold - 1 + Cardinality(Reqs)

\* Locks do not spread: an identifier or a source no failure was recorded of
\* is not locked, whatever others do with the one or from the other.
InnocentUnlocked ==
    /\ \A e \in Emails \ blamed : emailLock[e] = 0
    /\ \A i \in Ips \ blamed : ipLock[i] = 0

\* No lock is for ever: refused attempts neither count nor renew it, so trying
\* on does not keep anybody out, not even with sign-ins that overlap the lock.
LockEnds ==
    /\ \A e \in Emails : []<>(emailLock[e] = 0)
    /\ \A i \in Ips : []<>(ipLock[i] = 0)
==============================================================================
