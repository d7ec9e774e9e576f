--------------------------- MODULE CallAccounting ---------------------------
(***************************************************************************)
(* One allocation's calls through the gateway, from the pre-flight checks  *)
(* to the call record: non-streaming endpoints ("plain"), streamed chat    *)
(* completions ("chat") and streamed responses ("responses").              *)
(*                                                                         *)
(* Quotas are checked against the month's sums before the upstream is      *)
(* called, and the sums grow only when the record of the call commits,     *)
(* afterwards.  Plain calls and refusals record on the session of the      *)
(* request, flushed by the handler and committed when the response has     *)
(* been sent; streams record in a session of their own, as soon as the     *)
(* upstream reports the usage or, failing that, when the stream ends.      *)
(***************************************************************************)
EXTENDS Naturals, FiniteSets

CONSTANTS
    Calls,      \* requests the gateway serves at the same time
    Limits,     \* the limited quantities: tokens and cost
    MaxUse,     \* the most of a quantity one call consumes
    Quotas,     \* the values an administrator gives the monthly quotas
    Params,     \* optional chat parameters an upstream may reject
    MaxMonth    \* bound: the last calendar month

ASSUME CallsAssumption == IsFiniteSet(Calls) /\ Calls # {}
ASSUME MaxUseAssumption == MaxUse \in Nat \ {0}
ASSUME QuotasAssumption == Quotas \subseteq Nat
ASSUME MonthAssumption == MaxMonth \in Nat

VARIABLES
    now,        \* the current calendar month (UTC)
    status,     \* the allocation: active, blocked (paused, quarantined or
                \* revoked) or deleted
    quota,      \* its monthly limits
    cap,        \* history: the highest limits there have been
    used,       \* used[l][m]: sum of l over the successful records of month m
    phase,      \* where the handler of each call is
    req,        \* kind, month of started_at, parameters still sent
    limit,      \* the limits, as the handler read them with the allocation
    use,        \* what the record about to be written bills
    saved,      \* streams whose generator has set persisted
    gone,       \* streams whose client disconnected
    failed,     \* calls that lost their record to an error
    rows        \* records the call has committed

allocation == <<now, status, quota, cap>>
vars == <<now, status, quota, cap, used, phase, req, limit, use, saved, gone, failed, rows>>

Kinds == {"plain", "chat", "responses"}
Phases == {"idle", "arrived", "authorized", "admitted", "retrying", "flushing",
           "anonymous", "flushed", "streaming", "saving", "closing", "done"}
Amount == [Limits -> 0..MaxUse]

\* Unreported or unpriced amounts are NULL, and coalesced to 0 in the sums.
Nothing == [l \in Limits |-> 0]
NoReq == [kind |-> "plain", month |-> 0, params |-> {}]

\* The one type invariant.
TypeOK ==
    /\ now \in 0..MaxMonth
    /\ status \in {"active", "blocked", "deleted"}
    /\ quota \in [Limits -> Nat] /\ cap \in [Limits -> Nat]
    /\ used \in [Limits -> [0..MaxMonth -> Nat]]
    /\ phase \in [Calls -> Phases]
    /\ req \in [Calls -> [kind : Kinds, month : 0..MaxMonth, params : SUBSET Params]]
    /\ limit \in [Calls -> [Limits -> Nat]]
    /\ use \in [Calls -> Amount]
    /\ saved \subseteq Calls /\ gone \subseteq Calls /\ failed \subseteq Calls
    /\ rows \in [Calls -> Nat]

Free(c) == phase[c] \in {"idle", "done"}
Goto(c, p) == phase' = [phase EXCEPT ![c] = p]

\* The call ends; what it held in memory is gone.
Finish(c) ==
    /\ Goto(c, "done")
    /\ req' = [req EXCEPT ![c] = NoReq]
    /\ limit' = [limit EXCEPT ![c] = Nothing]
    /\ use' = [use EXCEPT ![c] = Nothing]
    /\ saved' = saved \ {c}

\* Mutant: the record is dated when it is written.
Record_Now(c) ==
    /\ rows' = [rows EXCEPT ![c] = @ + 1]
    /\ used' = [l \in Limits |-> [m \in 0..MaxMonth |->
                   IF m = now THEN used[l][m] + use[c][l] ELSE used[l][m]]]

\* The record of call c, billing use[c] to the month the call started in.
Record(c) ==
    /\ rows' = [rows EXCEPT ![c] = @ + 1]
    /\ used' = [l \in Limits |-> [m \in 0..MaxMonth |->
                   IF m = req[c].month THEN used[l][m] + use[c][l] ELSE used[l][m]]]

-----------------------------------------------------------------------------
(* Pre-flight (run_preflight).                                             *)

\* started_at is taken; the allocation is not looked at yet.
Arrive(c, kind, params) ==
    /\ Free(c)
    /\ Goto(c, "arrived")
    /\ req' = [req EXCEPT ![c] = [kind |-> kind, month |-> now, params |-> params]]
    /\ rows' = [rows EXCEPT ![c] = 0]
    /\ gone' = gone \ {c}
    /\ failed' = failed \ {c}
    /\ UNCHANGED <<allocation, used, limit, use, saved>>

\* Mutant: the status is not looked at.
Authorize_AnyStatus(c) ==
    /\ phase[c] = "arrived"
    /\ Goto(c, "authorized")
    /\ limit' = [limit EXCEPT ![c] = quota]
    /\ UNCHANGED <<allocation, used, req, use, saved, gone, failed, rows>>

\* The credential resolves to the allocation, which is read with its limits.
Authorize(c) ==
    /\ phase[c] = "arrived"
    /\ status = "active"
    /\ Goto(c, "authorized")
    /\ limit' = [limit EXCEPT ![c] = quota]
    /\ UNCHANGED <<allocation, used, req, use, saved, gone, failed, rows>>

\* Mutant: a call is let through until the sum has passed the limit.
CheckQuota_UpToLimit(c) ==
    /\ phase[c] = "authorized"
    /\ \A l \in Limits : used[l][now] <= limit[c][l]
    /\ Goto(c, "admitted")
    /\ UNCHANGED <<allocation, used, req, limit, use, saved, gone, failed, rows>>

\* Both monthly sums are below the limits: on to the upstream.
CheckQuota(c) ==
    /\ phase[c] = "authorized"
    /\ \A l \in Limits : used[l][now] < limit[c][l]
    /\ Goto(c, "admitted")
    /\ UNCHANGED <<allocation, used, req, limit, use, saved, gone, failed, rows>>

\* A refusal that names the allocation: it is not active, the model is outside
\* the key's scope, a quota is used up, the member has no access, there is no
\* provider credential, or the upstream answers with an error.
Refuse(c) ==
    /\ \/ phase[c] = "arrived" /\ status # "deleted"
       \/ phase[c] = "authorized" /\ \E l \in Limits : used[l][now] >= limit[c][l]
       \/ phase[c] = "admitted"
    /\ Goto(c, "flushing")
    /\ UNCHANGED <<allocation, used, req, limit, use, saved, gone, failed, rows>>

\* A refusal recorded for nobody: malformed request or unknown credential.
RefuseUnknown(c) ==
    /\ phase[c] = "arrived"
    /\ Goto(c, "anonymous")
    /\ UNCHANGED <<allocation, used, req, limit, use, saved, gone, failed, rows>>

-----------------------------------------------------------------------------
(* The upstream call.                                                      *)

\* The upstream rejects a parameter the client sent; the handler drops that
\* one and tries again.
RejectParam(c) ==
    /\ phase[c] = "admitted"
    /\ req[c].params # {}
    /\ Goto(c, "retrying")
    /\ UNCHANGED <<allocation, used, req, limit, use, saved, gone, failed, rows>>

Retry(c) ==
    /\ phase[c] = "retrying"
    /\ Goto(c, "admitted")
    /\ \E p \in req[c].params :
           req' = [req EXCEPT ![c] = [kind |-> req[c].kind, month |-> req[c].month,
                                      params |-> req[c].params \ {p}]]
    /\ UNCHANGED <<allocation, used, limit, use, saved, gone, failed, rows>>

\* A plain call returns, with the amount it is billed; nothing of an amount
\* that is not reported or has no price.
Answer(c, u) ==
    /\ phase[c] = "admitted" /\ req[c].kind = "plain"
    /\ Goto(c, "flushing")
    /\ use' = [use EXCEPT ![c] = u]
    /\ UNCHANGED <<allocation, used, req, limit, saved, gone, failed, rows>>

OpenStream(c) ==
    /\ phase[c] = "admitted" /\ req[c].kind # "plain"
    /\ Goto(c, "streaming")
    /\ UNCHANGED <<allocation, used, req, limit, use, saved, gone, failed, rows>>

-----------------------------------------------------------------------------
(* Records on the request's session.                                       *)

\* The INSERT is flushed, and with it the foreign key to the allocation held.
Flush(c) ==
    /\ phase[c] = "flushing" /\ status # "deleted"
    /\ Goto(c, "flushed")
    /\ UNCHANGED <<allocation, used, req, limit, use, saved, gone, failed, rows>>

\* The response has been sent and get_db_session commits.
Commit(c) ==
    /\ phase[c] \in {"flushed", "anonymous"}
    /\ Record(c)
    /\ Finish(c)
    /\ UNCHANGED <<allocation, gone, failed>>

\* A database error, the broken foreign key of a deleted allocation, an
\* unexpected exception, or a client gone before its stream's generator starts:
\* the session rolls back and the call has no record.
Fail(c) ==
    /\ phase[c] \in {"arrived", "authorized", "admitted", "flushing", "flushed", "anonymous"}
    /\ Finish(c)
    /\ failed' = failed \cup {c}
    /\ UNCHANGED <<allocation, used, gone, rows>>

-----------------------------------------------------------------------------
(* Streams (event_gen).                                                    *)

\* The first usage chunk, or response.completed with usage u or without.  A
\* response.failed event takes the same path with nothing to bill.
ReportUsage(c, u) ==
    /\ phase[c] = "streaming" /\ c \notin saved
    /\ Goto(c, "saving")
    /\ use' = [use EXCEPT ![c] = u]
    /\ UNCHANGED <<allocation, used, req, limit, saved, gone, failed, rows>>

\* Mutant: the fallback of the generator does not ask whether it has recorded.
CloseStream_Unconditional(c) ==
    /\ phase[c] = "streaming"
    /\ Goto(c, "closing")
    /\ use' = [use EXCEPT ![c] = Nothing]
    /\ UNCHANGED <<allocation, used, req, limit, saved, gone, failed, rows>>

\* Mutant: no fallback, so a stream without a usage report has no record.
CloseStream_NoFallback(c) ==
    /\ phase[c] = "streaming"
    /\ Finish(c)
    /\ UNCHANGED <<allocation, used, gone, failed, rows>>

\* The stream ends, raises or is cancelled: the generator's last clause records
\* a stream that has not been recorded, with no usage.
CloseStream(c) ==
    /\ phase[c] = "streaming"
    /\ \/ /\ c \in saved
          /\ Finish(c)
       \/ /\ c \notin saved
          /\ Goto(c, "closing")
          /\ use' = [use EXCEPT ![c] = Nothing]
          /\ UNCHANGED <<req, limit, saved>>
    /\ UNCHANGED <<allocation, used, gone, failed, rows>>

\* The generator goes on after a record: it sets persisted, whatever came of
\* the record, or ends.
AfterSave(c) ==
    \/ /\ phase[c] = "saving"
       /\ Goto(c, "streaming")
       /\ saved' = saved \cup {c}
       /\ use' = [use EXCEPT ![c] = Nothing]
       /\ UNCHANGED <<req, limit>>
    \/ /\ phase[c] = "closing"
       /\ Finish(c)

\* _record_fresh and _record_failed_stream commit in a session of their own.
Save(c) ==
    /\ phase[c] \in {"saving", "closing"}
    /\ status # "deleted"
    /\ Record(c)
    /\ AfterSave(c)
    /\ UNCHANGED <<allocation, gone, failed>>

\* They swallow every exception: a database error, the broken foreign key, the
\* cancellation of a stream whose client is gone.
SaveFails(c) ==
    /\ phase[c] \in {"saving", "closing"}
    /\ AfterSave(c)
    /\ failed' = failed \cup {c}
    /\ UNCHANGED <<allocation, used, gone, rows>>

Disconnect(c) ==
    /\ phase[c] \in {"streaming", "saving"}
    /\ gone' = gone \cup {c}
    /\ UNCHANGED <<allocation, used, phase, req, limit, use, saved, failed, rows>>

-----------------------------------------------------------------------------
(* Around the calls: the calendar and the administrators.                  *)

calls == <<used, phase, req, limit, use, saved, gone, failed, rows>>

Tick ==
    /\ now < MaxMonth
    /\ now' = now + 1
    /\ UNCHANGED <<status, quota, cap, calls>>

SetQuota(q) ==
    /\ status # "deleted"
    /\ quota' = q
    /\ cap' = [l \in Limits |-> IF q[l] > cap[l] THEN q[l] ELSE cap[l]]
    /\ UNCHANGED <<now, status, calls>>

SetStatus(s) ==
    /\ status # "deleted"
    /\ status' = s
    /\ UNCHANGED <<now, quota, cap, calls>>

\* The DELETE waits for a flushed record that refers to the row.
Delete ==
    /\ status # "deleted"
    /\ \A c \in Calls : phase[c] # "flushed"
    /\ status' = "deleted"
    /\ UNCHANGED <<now, quota, cap, calls>>

-----------------------------------------------------------------------------
Init ==
    /\ now = 0
    /\ status = "active"
    /\ quota \in [Limits -> Quotas] /\ cap = quota
    /\ used = [l \in Limits |-> [m \in 0..MaxMonth |-> 0]]
    /\ phase = [c \in Calls |-> "idle"]
    /\ req = [c \in Calls |-> NoReq]
    /\ limit = [c \in Calls |-> Nothing]
    /\ use = [c \in Calls |-> Nothing]
    /\ saved = {} /\ gone = {} /\ failed = {}
    /\ rows = [c \in Calls |-> 0]

\* What the handler does next once its awaits return, the upstream's answers
\* among them.
Handle(c) ==
    \/ Authorize(c) \/ CheckQuota(c) \/ Refuse(c) \/ RefuseUnknown(c)
    \/ RejectParam(c) \/ Retry(c) \/ OpenStream(c)
    \/ Flush(c) \/ Commit(c) \/ Fail(c)
    \/ CloseStream(c) \/ Save(c) \/ SaveFails(c)
    \/ \E u \in Amount : Answer(c, u) \/ ReportUsage(c, u)

\* Only chat handlers retry: the responses handler sends what it was given.
Request(c) ==
    \/ \E kind \in Kinds \ {"responses"}, params \in SUBSET Params : Arrive(c, kind, params)
    \/ Arrive(c, "responses", {})
    \/ Disconnect(c)

Administer ==
    \/ \E q \in [Limits -> Quotas] : SetQuota(q)
    \/ \E s \in {"active", "blocked"} : SetStatus(s)
    \/ Delete

Next == (\E c \in Calls : Request(c) \/ Handle(c)) \/ Administer \/ Tick

Spec == Init /\ [][Next]_vars

-----------------------------------------------------------------------------
(* Properties.                                                             *)

\* What a call may still add to the sums: it is past the quota check and its
\* record is not committed.
Owes(c) ==
    \/ phase[c] \in {"admitted", "retrying"}
    \/ phase[c] = "streaming" /\ c \notin saved
    \/ phase[c] \in {"flushing", "flushed", "saving", "closing", "anonymous"}
          /\ use[c] # Nothing

N == Cardinality(Calls)

\* Quotas are optimistic but not unbounded: concurrent calls that all saw the
\* sum below the limit push it past the limit by less than the use of one call
\* for each request served at the same time; and, as a call is charged to the
\* month in which it started but checked against the month in which it is
\* checked, a past month by no more than twice that.
OvershootBounded ==
    \A l \in Limits, m \in 0..now :
        used[l][m] < cap[l] + MaxUse * (IF m = now THEN N ELSE 2 * N)

\* Every call, refused or served, streamed or not, leaves exactly one record,
\* unless an error the database or the cancellation raised has taken it.
ExactlyOneRecord ==
    \A c \in Calls :
        /\ rows[c] <= 1
        /\ phase[c] = "done" /\ c \notin failed => rows[c] = 1

\* Nothing of a blocked or deleted allocation is in flight any more.
Quiet == status # "active" /\ \A c \in Calls : ~ Owes(c) /\ phase[c] # "authorized"

\* Blocking takes effect on the next request: once the calls authorized before
\* have ended, nothing is billed until the allocation is active again.
BlockedStopsBilling == [][Quiet => used' = used /\ (Quiet' \/ status' = "active")]_vars

\* The records implement the abstract ledger: a call is charged once, to the
\* month in which it started.
Unsettled(c) == ~ Free(c) /\ c \notin saved
Due == [c \in Calls |-> IF Unsettled(c) THEN req[c].month ELSE MaxMonth + 1]
Ledger == INSTANCE CallLedger WITH due <- Due
LedgerSpec == Ledger!Spec
=============================================================================
