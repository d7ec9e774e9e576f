---------------------------- MODULE Notifications ----------------------------
(***************************************************************************)
(* Mail to the administrators about audit events of one type.  Recording   *)
(* an event spawns a task that reads the settings, opens or joins a window *)
(* and sends, all in one transaction of its own.  The settings are saved   *)
(* and tested by requests that read the row first and update it later.     *)
(* Transactions are READ COMMITTED; an UPDATE writes the columns that      *)
(* differ from what was read.  Whether notifications are switched on, and  *)
(* who receives them, is left open: a task may skip at any time.           *)
(***************************************************************************)
EXTENDS Naturals, FiniteSets

CONSTANTS
    Events,     \* audit events of a type that notifies
    Reqs,       \* concurrent requests on the settings
    None

VARIABLES
    config,     \* notification_config, one row or none
    audit,      \* each event's row in auth_audit_log
    task,       \* each event's notifier task
    record,     \* each event's notification_record
    bucket,     \* the window each event opened, if it did
    req,        \* the request each session has in flight
    met,        \* history: events that sent while another one did
    raced       \* history: requests on the settings overlapped

vars == <<config, audit, task, record, bucket, req, met, raced>>

Statuses == {"pending_test", "verified", "credentials_invalid"}
\* tested is history: a test succeeded on the connection and password as they are.
Config == [readable : BOOLEAN, status : Statuses, tested : BOOLEAN]
Outcomes == {"sent", "send_failed", "suppressed", "skipped"}
Bucket == [open : BOOLEAN, count : Nat]
Task == [at : {"none", "spawned", "sending", "joining", "unreadable", "done"},
         of : Events \cup {None}, count : Nat]
\* status is the column the request will write, if it differs from what it read.
Req == [op : {"save"}, fresh : BOOLEAN, change : {"none", "connection", "password"},
        status : {"pending_test", None}]
       \cup [op : {"test"}, passed : BOOLEAN, status : Statuses \cup {None}]
Idle == [op |-> "idle"]
Resting(at) == [at |-> at, of |-> None, count |-> 0]

\* None is no event, and none of the values and records above.
ASSUME NoneAssumption == /\ None \notin Events \cup Statuses \cup Outcomes
                         /\ None \notin Config /\ None \notin Bucket
ASSUME FiniteAssumption == IsFiniteSet(Events) /\ IsFiniteSet(Reqs)

Suppressed(e) == {f \in Events : record[f] = "suppressed" /\ task[f].of = e}

\* The one type invariant.
TypeOK ==
    /\ config \in Config \cup {None}
    /\ audit \in [Events -> {"none", "flushed", "committed", "rolled_back"}]
    /\ task \in [Events -> Task]
    /\ record \in [Events -> Outcomes \cup {None}]
    /\ bucket \in [Events -> Bucket \cup {None}]
    /\ req \in [Reqs -> Req \cup {Idle}]
    /\ met \subseteq Events /\ raced \in BOOLEAN

-----------------------------------------------------------------------------
(* Audit events.                                                           *)

\* audit.record flushes the row and fires the hook, before any commit.
Emit(e) ==
    /\ audit[e] = "none"
    /\ audit' = [audit EXCEPT ![e] = "flushed"]
    /\ task' = [task EXCEPT ![e] = Resting("spawned")]
    /\ UNCHANGED <<config, record, bucket, req>>

EndAudit(e) ==
    /\ audit[e] = "flushed"
    /\ audit' \in {[audit EXCEPT ![e] = "committed"], [audit EXCEPT ![e] = "rolled_back"]}
    /\ UNCHANGED <<config, task, record, bucket, req>>

-----------------------------------------------------------------------------
(* The notifier task (_safe_notify, EmailNotifier.notify).                 *)

At(e, at) == task[e].at = at

\* The record refers to the audit row, which must have been committed.
Persisted(e) == audit[e] = "committed"

\* The record goes with the commit; without it the whole transaction does.
Ends(e, outcome) ==
    /\ record' = IF Persisted(e) THEN [record EXCEPT ![e] = outcome] ELSE record
    /\ task' = [task EXCEPT ![e].at = "done"]

Ready == config # None /\ config.status # "credentials_invalid"

\* No settings, switched off, credentials known to be bad, or nobody to write to.
Skip(e) ==
    /\ At(e, "spawned")
    /\ Ends(e, "skipped")
    /\ UNCHANGED <<config, audit, bucket, req>>

\* The password cannot be decrypted ...
FailToRead(e) ==
    /\ At(e, "spawned") /\ Ready /\ ~ config.readable
    /\ task' = [task EXCEPT ![e] = Resting("unreadable")]
    /\ UNCHANGED <<config, audit, record, bucket, req>>

\* ... so the settings are marked and the event is skipped.  Settings deleted
\* meanwhile fail the flush.
MarkInvalid(e) ==
    /\ At(e, "unreadable")
    /\ \/ /\ config # None /\ Ends(e, "skipped")
          /\ config' = IF Persisted(e) THEN [config EXCEPT !.status = "credentials_invalid"]
                       ELSE config
       \/ /\ config = None
          /\ task' = [task EXCEPT ![e].at = "done"]
          /\ UNCHANGED <<config, record>>
    /\ UNCHANGED <<audit, bucket, req>>

Opened(e) == bucket[e] # None /\ bucket[e].open

\* Mutant: a window whose mail failed does not count.
Windows_SentOnly == {e \in Events : Opened(e) /\ record[e] = "sent"}
Windows == {e \in Events : Opened(e)}

\* Mutant: the row is read without FOR UPDATE.
Locked_Never(f) == FALSE
Locked(f) == \E g \in Events : At(g, "joining") /\ task[g].of = f

\* SELECT ... FOR UPDATE of an open window waits for its lock.
Join(e) ==
    /\ At(e, "spawned") /\ Ready /\ config.readable
    /\ \E f \in Windows :
          /\ ~ Locked(f)
          /\ task' = [task EXCEPT ![e] = [at |-> "joining", of |-> f, count |-> bucket[f].count]]
    /\ UNCHANGED <<config, audit, record, bucket, req>>

\* The count that was read, plus one, goes with the suppressed event's record.
Suppress(e) ==
    /\ At(e, "joining")
    /\ Ends(e, "suppressed")
    /\ bucket' = IF Persisted(e) THEN [bucket EXCEPT ![task[e].of].count = task[e].count + 1]
                 ELSE bucket
    /\ UNCHANGED <<config, audit, req>>

\* No open window to lock: a new one, unseen until the commit, and the mail.
Open(e) ==
    /\ At(e, "spawned") /\ Ready /\ config.readable /\ Windows = {}
    /\ task' = [task EXCEPT ![e] = Resting("sending")]
    /\ UNCHANGED <<config, audit, record, bucket, req>>

\* The server took the mail for one recipient at least, or it did not; the
\* window and its primary record are committed together either way.
Finish(e) ==
    /\ At(e, "sending")
    /\ \E outcome \in {"sent", "send_failed"} : Ends(e, outcome)
    /\ bucket' = IF Persisted(e) THEN [bucket EXCEPT ![e] = [open |-> TRUE, count |-> 1]]
                 ELSE bucket
    /\ UNCHANGED <<config, audit, req>>

\* The flush writes the window's reference to its primary record and inserts that
\* record; in which order is up to the library, and the reference first, the whole
\* transaction fails: the mail is out, and nothing is on record.
FinishFails(e) ==
    /\ At(e, "sending")
    /\ task' = [task EXCEPT ![e].at = "done"]
    /\ UNCHANGED <<config, audit, record, bucket, req>>

\* Five minutes later.
WindowEnds(e) ==
    /\ Opened(e)
    /\ bucket' = [bucket EXCEPT ![e].open = FALSE]
    /\ UNCHANGED <<config, audit, task, record, req>>

-----------------------------------------------------------------------------
(* The settings.                                                           *)

\* Mutant: only another host, port or account is a change.
Changed_HostOnly(change) == change = "connection"
\* A password typed again is encrypted to other bytes, so it is a change.
Changed(change) == change # "none"

Assigns(status) == IF status = config.status THEN None ELSE status
\* Mutant: the column is written whatever was read.
Written_Always(new, old) == new
Written(new, old) == IF new = None THEN old ELSE new

\* PUT /config reads the row; a blank password keeps the stored one, and the
\* first time there must be one.
BeginSave(r, change) ==
    /\ req[r] = Idle
    /\ config = None => change = "password"
    /\ req' = [req EXCEPT ![r] = [op |-> "save", fresh |-> config = None, change |-> change,
                 status |-> IF config = None THEN "pending_test"
                            ELSE IF Changed(change) THEN Assigns("pending_test") ELSE None]]
    /\ UNCHANGED <<config, audit, task, record, bucket>>

\* No test in flight says anything of settings that have changed.
Outdated(requests) ==
    [q \in Reqs |-> IF requests[q].op = "test" THEN [requests[q] EXCEPT !.passed = FALSE]
                    ELSE requests[q]]

\* The columns that differ from what was read; a row that is gone, or there
\* already, fails the request.
CommitSave(r) ==
    LET change == req[r].change
        after == [req EXCEPT ![r] = Idle]
    IN  /\ req[r].op = "save"
        /\ req[r].fresh = (config = None)
        /\ config' = IF req[r].fresh
                     THEN [readable |-> TRUE, status |-> "pending_test", tested |-> FALSE]
                     ELSE [readable |-> change = "password" \/ config.readable,
                           status |-> Written(req[r].status, config.status),
                           tested |-> change = "none" /\ config.tested]
        /\ req' = IF change = "none" THEN after ELSE Outdated(after)
        /\ UNCHANGED <<audit, task, record, bucket>>

DeleteConfig ==
    /\ config # None
    /\ config' = None
    /\ req' = Outdated(req)
    /\ UNCHANGED <<audit, task, record, bucket>>

\* POST /test-send reads the row and talks to the server: delivered, refused
\* for its credentials, or failed otherwise.  The status is written later.
BeginTest(r) ==
    /\ req[r] = Idle /\ config # None
    /\ \E status \in {"verified", "credentials_invalid", config.status} :
          /\ ~ config.readable => status = "credentials_invalid"
          /\ \E passed \in {status = "verified", FALSE} :
                /\ status # config.status => passed = (status = "verified")
                /\ req' = [req EXCEPT ![r] = [op |-> "test", passed |-> passed,
                                              status |-> Assigns(status)]]
    /\ UNCHANGED <<config, audit, task, record, bucket>>

CommitTest(r) ==
    /\ req[r].op = "test" /\ config # None
    /\ config' = [config EXCEPT !.status = Written(req[r].status, @),
                                !.tested = @ \/ req[r].passed]
    /\ req' = [req EXCEPT ![r] = Idle]
    /\ UNCHANGED <<audit, task, record, bucket>>

Abort(r) ==
    /\ req[r] # Idle
    /\ req' = [req EXCEPT ![r] = Idle]
    /\ UNCHANGED <<config, audit, task, record, bucket>>

-----------------------------------------------------------------------------
\* The process dies: tasks and requests are gone, what they wrote is undone.
\* The encryption key may be another when it is back.
Restart ==
    /\ task' = [e \in Events |-> IF At(e, "none") THEN task[e] ELSE [task[e] EXCEPT !.at = "done"]]
    /\ audit' = [e \in Events |-> IF audit[e] = "flushed" THEN "rolled_back" ELSE audit[e]]
    /\ req' = [r \in Reqs |-> Idle]
    /\ config' \in IF config = None THEN {None} ELSE {config, [config EXCEPT !.readable = FALSE]}
    /\ UNCHANGED <<record, bucket>>

Init ==
    /\ config = None
    /\ audit = [e \in Events |-> "none"]
    /\ task = [e \in Events |-> Resting("none")]
    /\ record = [e \in Events |-> None]
    /\ bucket = [e \in Events |-> None]
    /\ req = [r \in Reqs |-> Idle]
    /\ met = {} /\ raced = FALSE

Notify(e) == \/ Skip(e) \/ FailToRead(e) \/ MarkInvalid(e) \/ Join(e)
             \/ Suppress(e) \/ Open(e) \/ Finish(e) \/ FinishFails(e)

Step ==
    \/ \E e \in Events : Emit(e) \/ EndAudit(e) \/ Notify(e) \/ WindowEnds(e)
    \/ \E r \in Reqs, change \in {"none", "connection", "password"} : BeginSave(r, change)
    \/ \E r \in Reqs : CommitSave(r) \/ BeginTest(r) \/ CommitTest(r) \/ Abort(r)
    \/ DeleteConfig
    \/ Restart

Sending == {e \in Events : At(e, "sending")}
Meet == met' = IF Cardinality(Sending') > 1 THEN met \cup Sending' ELSE met

Busy == {r \in Reqs : req[r] # Idle}
\* Overlapping requests leave their mark until the status is not "verified".
Race == raced' = \/ Cardinality(Busy') > 1
                 \/ raced /\ (Busy' = {} => config' # None /\ config'.status = "verified")

Next == Step /\ Meet /\ Race

Spec == Init /\ [][Next]_vars

-----------------------------------------------------------------------------
\* At most one open window, so one mail in five minutes, but for tasks that were
\* sending at the same time: before the first commits there is no row to lock
\* (notifier_email.py:361).
OneWindowAtATime ==
    \A e, f \in Events : Opened(e) /\ Opened(f) /\ e # f => {e, f} \subseteq met

\* A window counts the event that opened it, whose attempt to send is on record,
\* and every event suppressed behind it, whoever joins at the same time, rolls
\* back or dies (notifier_email.py:374).
CountsAgree ==
    \A e \in Events :
        /\ bucket[e] # None => bucket[e].count = 1 + Cardinality(Suppressed(e))
        /\ Suppressed(e) # {} => record[e] \in {"sent", "send_failed"}

\* "verified" says a test succeeded on the connection as it is saved, unless
\* requests overlapped: each writes only the columns it changed
\* (notifier_email.py:556, notifications.py:159).
VerifiedWasTested ==
    config # None /\ config.status = "verified" /\ ~ raced => config.tested
==============================================================================
