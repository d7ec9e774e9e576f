------------------------ MODULE AdministrationProofs ------------------------
(***************************************************************************)
(* What the modules of the administration promise, for any number of       *)
(* events, members, sessions, rules, tags and requests: one notification   *)
(* window at a time and true counts, an administrator who remains, nobody  *)
(* signed in who is disabled, ordered rules, and no call admitted that was *)
(* never visible.                                                          *)
(*                                                                         *)
(* Notifications is extended.  MemberAccess and ModelAccess are instances  *)
(* with the same requests and the same None, under names of their own for  *)
(* what they declare alike; the assumptions of an instance are no facts    *)
(* here, so Registry and Catalogued repeat them and are the hypotheses of  *)
(* the theorems about it.                                                  *)
(***************************************************************************)
EXTENDS Notifications, FiniteSetTheorems, TLAPS

CONSTANTS Members, Provider, Sessions, Bulks, Tokens, Tags, Rules, MaxOrder
VARIABLES member, admin, sess, rules, whitelist, txn, job, guarded, mixed,
          ranking, tags, policy, active, call, tangled, watch

\* Members and sessions; tags and access to a model, whose rules are ranking and
\* whose requests call.
People == INSTANCE MemberAccess
Models == INSTANCE ModelAccess WITH rules <- ranking, req <- call

-----------------------------------------------------------------------------
(* Notifications.                                                          *)

\* At most one window is open or being opened, but for tasks that met.
Opening(e) == Opened(e) \/ At(e, "sending")
Met == \A e, f \in Events : Opening(e) /\ Opening(f) /\ e # f => {e, f} \subseteq met

\* A record is left by a task that is done, for a committed event; a window
\* belongs to an event that sent; a suppressed event to a window.
RecordsFit ==
    \A e \in Events :
        /\ record[e] # None => At(e, "done") /\ audit[e] = "committed"
        /\ bucket[e] # None => record[e] \in {"sent", "send_failed"}
        /\ record[e] = "suppressed" => task[e].of \in Events /\ bucket[task[e].of] # None

\* A task that joins a window alone holds its lock, and its count is still good.
LocksFit ==
    \A e \in Events : At(e, "joining") =>
        /\ task[e].of \in Events /\ bucket[task[e].of] # None
        /\ task[e].count = bucket[task[e].of].count
        /\ \A f \in Events : At(f, "joining") /\ task[f].of = task[e].of => e = f

\* What is saved or under way on the settings.
LEMMA SettingsTyped ==
    ASSUME TypeOK, Step
    PROVE  config' \in Config \cup {None} /\ req' \in [Reqs -> Req \cup {Idle}]
<1> USE DEF TypeOK
<1>1. ASSUME NEW e \in Events, Emit(e) \/ EndAudit(e) \/ Skip(e) \/ FailToRead(e) \/ Join(e)
                               \/ Suppress(e) \/ Open(e) \/ Finish(e) \/ FinishFails(e) \/ WindowEnds(e)
      PROVE  UNCHANGED <<config, req>>
  BY <1>1 DEF Emit, EndAudit, Skip, FailToRead, Join, Suppress, Open, Finish,
     FinishFails, WindowEnds
<1>2. ASSUME NEW e \in Events, MarkInvalid(e)
      PROVE  config' \in Config \cup {None} /\ req' = req
  <2>1. req' = req /\ (config' = config \/ (config # None /\
             config' = [config EXCEPT !.status = "credentials_invalid"]))
    BY <1>2 DEF MarkInvalid
  <2> QED BY <2>1 DEF Config, Statuses
<1>3. ASSUME NEW r \in Reqs, NEW change \in {"none", "connection", "password"},
             BeginSave(r, change)
      PROVE  config' = config /\ req' \in [Reqs -> Req \cup {Idle}]
  <2> DEFINE t == [op |-> "save", fresh |-> config = None, change |-> change,
                   status |-> IF config = None THEN "pending_test"
                              ELSE IF Changed(change) THEN Assigns("pending_test") ELSE None]
  <2>1. t \in Req
    BY DEF Req, Assigns, Changed
  <2>2. config' = config /\ req' = [req EXCEPT ![r] = t]
    BY <1>3 DEF BeginSave
  <2> HIDE DEF t
  <2> QED BY <2>1, <2>2
<1>4. ASSUME NEW requests \in [Reqs -> Req \cup {Idle}]
      PROVE  Outdated(requests) \in [Reqs -> Req \cup {Idle}]
  <2>1. ASSUME NEW q \in Reqs, requests[q].op = "test"
        PROVE  [requests[q] EXCEPT !.passed = FALSE] \in Req
    <3>1. requests[q] \in [op : {"test"}, passed : BOOLEAN, status : Statuses \cup {None}]
      BY <2>1 DEF Req, Idle
    <3> QED BY <3>1 DEF Req
  <2> QED BY <2>1 DEF Outdated
<1>5. ASSUME NEW r \in Reqs, CommitSave(r)
      PROVE  config' \in Config \cup {None} /\ req' \in [Reqs -> Req \cup {Idle}]
  <2>1. req[r] \in Req /\ req[r].op = "save"
    BY <1>5 DEF CommitSave, Idle
  <2>2. /\ req[r].change \in {"none", "connection", "password"} /\ req[r].fresh \in BOOLEAN
        /\ req[r].status \in {"pending_test", None}
    BY <2>1 DEF Req
  <2>3. req' = [req EXCEPT ![r] = Idle] \/ req' = Outdated([req EXCEPT ![r] = Idle])
    BY <1>5 DEF CommitSave
  <2>4. config' \in Config
    <3>1. CASE req[r].fresh
      BY <1>5, <3>1 DEF CommitSave, Config, Statuses
    <3>2. CASE ~ req[r].fresh
      <4>1. config \in Config /\ config.status \in Statuses /\ config.tested \in BOOLEAN
            /\ config.readable \in BOOLEAN
        BY <1>5, <3>2 DEF CommitSave, Config
      <4>2. Written(req[r].status, config.status) \in Statuses
        BY <2>2, <4>1 DEF Written, Statuses
      <4>3. config' = [readable |-> req[r].change = "password" \/ config.readable,
                       status |-> Written(req[r].status, config.status),
                       tested |-> req[r].change = "none" /\ config.tested]
        BY <1>5, <3>2 DEF CommitSave
      <4> QED BY <4>1, <4>2, <4>3 DEF Config
    <3> QED BY <3>1, <3>2
  <2> QED BY <1>4, <2>3, <2>4
<1>6. ASSUME NEW r \in Reqs, BeginTest(r)
      PROVE  config' = config /\ req' \in [Reqs -> Req \cup {Idle}]
  <2>1. config \in Config /\ config.status \in Statuses
    BY <1>6 DEF BeginTest, Config
  <2>2. PICK status \in {"verified", "credentials_invalid", config.status}, passed \in BOOLEAN :
          req' = [req EXCEPT ![r] = [op |-> "test", passed |-> passed, status |-> Assigns(status)]]
    BY <1>6 DEF BeginTest
  <2>3. [op |-> "test", passed |-> passed, status |-> Assigns(status)] \in Req
    BY <2>1 DEF Req, Assigns, Statuses
  <2> QED BY <1>6, <2>2, <2>3 DEF BeginTest
<1>7. ASSUME NEW r \in Reqs, CommitTest(r)
      PROVE  config' \in Config /\ req' \in [Reqs -> Req \cup {Idle}]
  <2>1. req[r] \in Req /\ req[r].op = "test" /\ config \in Config
    BY <1>7 DEF CommitTest, Idle
  <2>2. req[r].passed \in BOOLEAN /\ req[r].status \in Statuses \cup {None}
    BY <2>1 DEF Req
  <2>3. config.status \in Statuses /\ config.tested \in BOOLEAN
    BY <2>1 DEF Config
  <2>4. Written(req[r].status, config.status) \in Statuses
    BY <2>2, <2>3 DEF Written
  <2>5. config' = [config EXCEPT !.status = Written(req[r].status, config.status),
                                 !.tested = config.tested \/ req[r].passed]
    BY <1>7, <2>1 DEF CommitTest, Config
  <2>6. config' \in Config
    BY <2>1, <2>2, <2>3, <2>4, <2>5 DEF Config
  <2> QED BY <1>7, <2>6 DEF CommitTest
<1>8. ASSUME NEW r \in Reqs, Abort(r)
      PROVE  config' = config /\ req' \in [Reqs -> Req \cup {Idle}]
  BY <1>8 DEF Abort
<1>9. CASE DeleteConfig
  BY <1>4, <1>9 DEF DeleteConfig
<1>10. CASE Restart
  <2>1. config' = None \/ config' = config \/ (config # None /\ config' = [config EXCEPT !.readable = FALSE])
    BY <1>10 DEF Restart
  <2> QED BY <1>10, <2>1 DEF Restart, Config
<1> QED BY <1>1, <1>2, <1>3, <1>5, <1>6, <1>7, <1>8, <1>9, <1>10 DEF Step, Notify

\* The audit log, the tasks, their records and the windows.
LEMMA MailTyped ==
    ASSUME TypeOK, LocksFit, Step
    PROVE  /\ audit' \in [Events -> {"none", "flushed", "committed", "rolled_back"}]
           /\ task' \in [Events -> Task]
           /\ record' \in [Events -> Outcomes \cup {None}]
           /\ bucket' \in [Events -> Bucket \cup {None}]
<1> USE DEF TypeOK
<1>1. ASSUME NEW e \in Events, NEW outcome \in Outcomes, Ends(e, outcome)
      PROVE  task' \in [Events -> Task] /\ record' \in [Events -> Outcomes \cup {None}]
  <2>1. [task[e] EXCEPT !.at = "done"] \in Task
    BY DEF Task
  <2> QED BY <1>1, <2>1 DEF Ends
<1>2. ASSUME NEW e \in Events, Emit(e) \/ FailToRead(e) \/ Open(e)
      PROVE  task' \in [Events -> Task] /\ UNCHANGED <<record, bucket>>
             /\ audit' \in [Events -> {"none", "flushed", "committed", "rolled_back"}]
  <2>1. Resting("spawned") \in Task /\ Resting("unreadable") \in Task /\ Resting("sending") \in Task
    BY DEF Resting, Task
  <2>2. PICK at \in {"spawned", "unreadable", "sending"} : task' = [task EXCEPT ![e] = Resting(at)]
    BY <1>2 DEF Emit, FailToRead, Open
  <2> QED BY <1>2, <2>1, <2>2 DEF Emit, FailToRead, Open
<1>3. ASSUME NEW e \in Events, EndAudit(e)
      PROVE  UNCHANGED <<task, record, bucket>>
             /\ audit' \in [Events -> {"none", "flushed", "committed", "rolled_back"}]
  BY <1>3 DEF EndAudit
<1>4. ASSUME NEW e \in Events, Skip(e)
      PROVE  /\ task' \in [Events -> Task] /\ record' \in [Events -> Outcomes \cup {None}]
             /\ UNCHANGED <<audit, bucket>>
  BY <1>1, <1>4 DEF Skip, Outcomes
<1>5. ASSUME NEW e \in Events, MarkInvalid(e)
      PROVE  /\ task' \in [Events -> Task] /\ record' \in [Events -> Outcomes \cup {None}]
             /\ UNCHANGED <<audit, bucket>>
  <2>1. CASE Ends(e, "skipped")
    BY <1>1, <1>5, <2>1 DEF MarkInvalid, Outcomes
  <2>2. CASE task' = [task EXCEPT ![e].at = "done"] /\ UNCHANGED record
    <3>1. [task[e] EXCEPT !.at = "done"] \in Task
      BY DEF Task
    <3> QED BY <1>5, <2>2, <3>1 DEF MarkInvalid
  <2> QED BY <1>5, <2>1, <2>2 DEF MarkInvalid
<1>6. ASSUME NEW e \in Events, Join(e)
      PROVE  task' \in [Events -> Task] /\ UNCHANGED <<audit, record, bucket>>
  <2>1. PICK f \in Windows : task' = [task EXCEPT ![e] = [at |-> "joining", of |-> f, count |-> bucket[f].count]]
    BY <1>6 DEF Join
  <2>2. f \in Events /\ bucket[f] \in Bucket
    BY DEF Windows, Opened
  <2>3. [at |-> "joining", of |-> f, count |-> bucket[f].count] \in Task
    BY <2>2 DEF Task, Bucket
  <2> QED BY <1>6, <2>1, <2>3 DEF Join
<1>7. ASSUME NEW e \in Events, Suppress(e)
      PROVE  /\ task' \in [Events -> Task] /\ record' \in [Events -> Outcomes \cup {None}]
             /\ audit' = audit /\ bucket' \in [Events -> Bucket \cup {None}]
  <2>1. task[e].count + 1 \in Nat
    BY DEF Task
  <2>2. task[e].of \in Events /\ bucket[task[e].of] \in Bucket
    BY <1>7 DEF LocksFit, Suppress
  <2>4. [bucket[task[e].of] EXCEPT !.count = task[e].count + 1] \in Bucket
    BY <2>1, <2>2 DEF Bucket
  <2>3. bucket' = bucket \/ bucket' = [bucket EXCEPT ![task[e].of].count = task[e].count + 1]
    BY <1>7 DEF Suppress
  <2> QED BY <1>1, <1>7, <2>2, <2>3, <2>4 DEF Suppress, Outcomes
<1>8. ASSUME NEW e \in Events, Finish(e)
      PROVE  /\ task' \in [Events -> Task] /\ record' \in [Events -> Outcomes \cup {None}]
             /\ audit' = audit /\ bucket' \in [Events -> Bucket \cup {None}]
  <2>1. [open |-> TRUE, count |-> 1] \in Bucket
    BY DEF Bucket
  <2> QED BY <1>1, <1>8, <2>1 DEF Finish, Outcomes
<1>9. ASSUME NEW e \in Events, WindowEnds(e)
      PROVE  bucket' \in [Events -> Bucket \cup {None}] /\ UNCHANGED <<audit, task, record>>
  <2>1. [bucket[e] EXCEPT !.open = FALSE] \in Bucket
    BY <1>9 DEF WindowEnds, Opened, Bucket
  <2> QED BY <1>9, <2>1 DEF WindowEnds
<1>10. CASE Restart
  <2>1. ASSUME NEW e \in Events PROVE [task[e] EXCEPT !.at = "done"] \in Task
    BY DEF Task
  <2> QED BY <1>10, <2>1 DEF Restart
<1>11. ASSUME NEW r \in Reqs,
              \/ \E change \in {"none", "connection", "password"} : BeginSave(r, change)
              \/ CommitSave(r) \/ BeginTest(r) \/ CommitTest(r) \/ Abort(r)
       PROVE  UNCHANGED <<audit, task, record, bucket>>
  BY <1>11 DEF BeginSave, CommitSave, BeginTest, CommitTest, Abort
<1>12. CASE DeleteConfig
  BY <1>12 DEF DeleteConfig
<1>13. ASSUME NEW e \in Events, FinishFails(e)
       PROVE  task' \in [Events -> Task] /\ UNCHANGED <<audit, record, bucket>>
  <2>1. [task[e] EXCEPT !.at = "done"] \in Task
    BY DEF Task
  <2> QED BY <1>13, <2>1 DEF FinishFails
<1> QED BY <1>2, <1>3, <1>4, <1>5, <1>6, <1>7, <1>8, <1>9, <1>10, <1>11, <1>12, <1>13 DEF Step, Notify

\* A step keeps the types.
LEMMA NoticesTyped == TypeOK /\ LocksFit /\ [Next]_vars => TypeOK'
<1> SUFFICES ASSUME TypeOK, LocksFit, [Next]_vars PROVE TypeOK'
  OBVIOUS
<1>1. CASE Next
  <2>1. Step /\ Meet /\ Race
    BY <1>1 DEF Next
  <2>2. met' \subseteq Events
    BY <2>1 DEF Meet, Sending, TypeOK
  <2>3. raced' \in BOOLEAN
    BY <2>1 DEF Race, TypeOK
  <2> QED BY <2>1, <2>2, <2>3, SettingsTyped, MailTyped DEF TypeOK
<1>2. CASE UNCHANGED vars
  BY <1>2 DEF vars, TypeOK
<1> QED BY <1>1, <1>2

\* Two elements are more than one.
LEMMA TwoOf ==
    ASSUME NEW S, IsFiniteSet(S), NEW x \in S, NEW y \in S, x # y
    PROVE  Cardinality(S) > 1
<1>1. Cardinality(S \ {x}) = Cardinality(S) - 1 /\ IsFiniteSet(S \ {x})
  BY FS_RemoveElement
<1>2. Cardinality(S \ {x}) # 0
  BY <1>1, FS_EmptySet, y \in S \ {x}
<1>3. Cardinality(S) \in Nat /\ Cardinality(S \ {x}) \in Nat
  BY <1>1, FS_CardinalityType
<1> QED BY <1>1, <1>2, <1>3

\* Who opens a window found none open, and meets whoever is sending.
LEMMA OpensAlone ==
    ASSUME TypeOK, LocksFit, Step, NEW e \in Events, Opening(e)', ~ Opening(e)
    PROVE  /\ bucket' = bucket /\ \A f \in Events : ~ Opened(f)
           /\ At(e, "sending")'
<1> USE DEF TypeOK, Opening, Opened, At
<1>1. ASSUME NEW g \in Events, \/ Emit(g) \/ EndAudit(g) \/ Skip(g) \/ FailToRead(g)
                               \/ MarkInvalid(g) \/ Join(g) \/ WindowEnds(g)
      PROVE  FALSE
  <2>1. Resting("spawned").at # "sending" /\ Resting("unreadable").at # "sending"
    BY DEF Resting
  <2>2. CASE Emit(g)
    BY <2>1, <2>2 DEF Emit
  <2>3. CASE EndAudit(g)
    BY <2>3 DEF EndAudit
  <2>4. CASE Skip(g)
    BY <2>4 DEF Skip, Ends
  <2>5. CASE FailToRead(g)
    BY <2>1, <2>5 DEF FailToRead
  <2>6. CASE MarkInvalid(g)
    <3>1. bucket' = bucket /\ task' = [task EXCEPT ![g].at = "done"]
      BY <2>6 DEF MarkInvalid, Ends
    <3> QED BY <3>1
  <2>7. CASE Join(g)
    <3>1. bucket' = bucket
          /\ \E w : task' = [task EXCEPT ![g] = w] /\ w.at = "joining"
      BY <2>7 DEF Join
    <3> QED BY <3>1
  <2>8. CASE WindowEnds(g)
    <3>1. task' = task /\ bucket' = [bucket EXCEPT ![g].open = FALSE] /\ bucket[g] \in Bucket
      BY <2>8 DEF WindowEnds
    <3>2. [bucket[g] EXCEPT !.open = FALSE].open = FALSE
      BY <3>1 DEF Bucket
    <3> QED BY <3>1, <3>2
  <2> QED BY <1>1, <2>2, <2>3, <2>4, <2>5, <2>6, <2>7, <2>8
<1>2. ASSUME NEW g \in Events, Open(g)
      PROVE  bucket' = bucket /\ (\A f \in Events : ~ Opened(f)) /\ At(e, "sending")'
  BY <1>2 DEF Open, Windows, Resting
<1>3. ASSUME NEW g \in Events, Finish(g) \/ FinishFails(g)
      PROVE  FALSE
  <2>1. /\ task' = [task EXCEPT ![g].at = "done"] /\ task[g].at = "sending"
        /\ bucket' = bucket \/ bucket' = [bucket EXCEPT ![g] = [open |-> TRUE, count |-> 1]]
    BY <1>3 DEF Finish, FinishFails, Ends
  <2> QED BY <2>1
<1>4. ASSUME NEW r \in Reqs,
             \/ \E change \in {"none", "connection", "password"} : BeginSave(r, change)
             \/ CommitSave(r) \/ BeginTest(r) \/ CommitTest(r) \/ Abort(r)
      PROVE  FALSE
  BY <1>4 DEF BeginSave, CommitSave, BeginTest, CommitTest, Abort
<1>5. CASE DeleteConfig
  BY <1>5 DEF DeleteConfig
<1>6. CASE Restart
  BY <1>6 DEF Restart
<1>7. ASSUME NEW g \in Events, Suppress(g)
      PROVE  FALSE
  <2>1. task' = [task EXCEPT ![g].at = "done"]
    BY <1>7 DEF Suppress, Ends
  <2>2. \/ bucket' = bucket
        \/ bucket' = [bucket EXCEPT ![task[g].of].count = task[g].count + 1]
    BY <1>7 DEF Suppress
  <2>3. ASSUME bucket'[e] # None, bucket'[e].open PROVE bucket[e] # None /\ bucket[e].open
    <3>1. task[g].of \in Events /\ bucket[task[g].of] # None /\ bucket[task[g].of] \in Bucket
      BY <1>7 DEF Suppress, LocksFit
    <3> DEFINE w == [bucket[task[g].of] EXCEPT !.count = task[g].count + 1]
    <3>2. w.open = bucket[task[g].of].open
      BY <3>1 DEF Bucket
    <3>3. bucket' = bucket \/ bucket' = [bucket EXCEPT ![task[g].of] = w]
      BY <2>2
    <3> HIDE DEF w
    <3> QED BY <2>3, <3>1, <3>2, <3>3
  <2> QED BY <2>1, <2>3
<1> QED BY <1>1, <1>2, <1>3, <1>4, <1>5, <1>6, <1>7 DEF Step, Notify

\* Windows that are open or being opened at once belong to tasks that met.
LEMMA MetKept == TypeOK /\ LocksFit /\ Met /\ [Next]_vars => Met'
<1> SUFFICES ASSUME TypeOK, LocksFit, Met, [Next]_vars PROVE Met'
  OBVIOUS
<1>1. CASE Next
  <2> SUFFICES ASSUME NEW e \in Events, NEW f \in Events, Opening(e)', Opening(f)', e # f
               PROVE  {e, f} \subseteq met'
    BY DEF Met
  <2>1. Step /\ Meet
    BY <1>1 DEF Next
  <2>2. met \subseteq met'
    BY <2>1 DEF Meet
  <2>3. CASE Opening(e) /\ Opening(f)
    BY <2>2, <2>3 DEF Met
  <2>4. CASE ~ (Opening(e) /\ Opening(f))
    <3>1. bucket' = bucket /\ \A g \in Events : ~ Opened(g)
      BY <2>1, <2>4, OpensAlone
    <3>2. At(e, "sending")' /\ At(f, "sending")'
      BY <3>1 DEF Opening, Opened
    <3>3. e \in Sending' /\ f \in Sending'
      BY <3>2 DEF Sending
    <3>4. IsFiniteSet(Sending')
      BY FiniteAssumption, FS_Subset DEF Sending
    <3>5. Cardinality(Sending') > 1
      BY <3>3, <3>4, TwoOf
    <3> QED BY <2>1, <3>3, <3>5 DEF Meet
  <2> QED BY <2>3, <2>4
<1>2. CASE UNCHANGED vars
  BY <1>2 DEF vars, Met, Opening, Opened, At
<1> QED BY <1>1, <1>2

\* A task that ends leaves its record, and nothing of another task.
LEMMA EndsEffect ==
    ASSUME TypeOK, RecordsFit, NEW e \in Events, NEW outcome \in Outcomes,
           Ends(e, outcome), ~ At(e, "done")
    PROVE  /\ record[e] = None /\ bucket[e] = None
           /\ record'[e] = IF Persisted(e) THEN outcome ELSE None
           /\ task'[e].at = "done" /\ task'[e].of = task[e].of
           /\ \A f \in Events : f # e => record'[f] = record[f] /\ task'[f] = task[f]
<1>1. record[e] = None /\ bucket[e] = None
  BY NoneAssumption DEF RecordsFit, Outcomes
<1>2. task[e] \in Task /\ task \in [Events -> Task] /\ record \in [Events -> Outcomes \cup {None}]
  BY DEF TypeOK
<1>3. [task[e] EXCEPT !.at = "done"].at = "done" /\ [task[e] EXCEPT !.at = "done"].of = task[e].of
  BY <1>2 DEF Task
<1> QED BY <1>1, <1>2, <1>3 DEF Ends

\* The counts still agree when no window and no suppressed event is touched.
LEMMA CountsKept ==
    ASSUME RecordsFit', CountsAgree,
           \A f \in Events : record'[f] = "suppressed" <=> record[f] = "suppressed",
           \A f \in Events : record[f] = "suppressed" => task'[f].of = task[f].of,
           \A f \in Events : bucket'[f] # None =>
                bucket[f] # None /\ bucket'[f].count = bucket[f].count
    PROVE  CountsAgree'
<1> SUFFICES ASSUME NEW e \in Events
             PROVE  /\ bucket'[e] # None => bucket'[e].count = 1 + Cardinality(Suppressed(e)')
                    /\ Suppressed(e)' # {} => record'[e] \in {"sent", "send_failed"}
  BY DEF CountsAgree
<1>1. Suppressed(e)' = Suppressed(e)
  BY DEF Suppressed
<1>2. Suppressed(e)' # {} => record'[e] \in {"sent", "send_failed"}
  BY DEF Suppressed, RecordsFit
<1> QED BY <1>1, <1>2 DEF CountsAgree

\* What the records, the locks and the counts say together.
Files == RecordsFit /\ LocksFit /\ CountsAgree

\* A task goes on, or an event is settled: no record and no window is written.
LEMMA FilesMove ==
    ASSUME TypeOK, Files, NEW e \in Events,
           Emit(e) \/ EndAudit(e) \/ FailToRead(e) \/ Open(e)
    PROVE  Files'
<1>1. record' = record /\ bucket' = bucket
  BY DEF Emit, EndAudit, FailToRead, Open
<1>2. /\ \A f \in Events : f # e => task'[f] = task[f] /\ audit'[f] = audit[f]
      /\ ~ At(e, "joining")' \/ task'[e] = task[e]
      /\ record[e] # None => task'[e] = task[e] /\ audit'[e] = audit[e]
  <2>1. Resting("spawned").at # "joining" /\ Resting("unreadable").at # "joining"
        /\ Resting("sending").at # "joining"
    BY DEF Resting
  <2>2. CASE Emit(e)
    BY <2>1, <2>2 DEF Emit, TypeOK, Files, RecordsFit, At
  <2>3. CASE EndAudit(e)
    BY <2>3 DEF EndAudit, TypeOK, Files, RecordsFit
  <2>4. CASE FailToRead(e)
    BY <2>1, <2>4 DEF FailToRead, TypeOK, Files, RecordsFit, At
  <2>5. CASE Open(e)
    BY <2>1, <2>5 DEF Open, TypeOK, Files, RecordsFit, At
  <2> QED BY <2>2, <2>3, <2>4, <2>5
<1>3. RecordsFit'
  BY <1>1, <1>2, NoneAssumption DEF Files, RecordsFit, At, Outcomes
<1>4. LocksFit'
  BY <1>1, <1>2 DEF Files, LocksFit, At
<1>5. CountsAgree'
  BY <1>1, <1>2, <1>3, CountsKept, NoneAssumption DEF Files, Outcomes
<1> QED BY <1>3, <1>4, <1>5 DEF Files

\* A task that ends with no window to write.
LEMMA FilesSkip ==
    ASSUME TypeOK, Files, NEW e \in Events, Skip(e) \/ MarkInvalid(e) \/ FinishFails(e)
    PROVE  Files'
<1>1. bucket' = bucket /\ audit' = audit /\ ~ At(e, "done") /\ ~ At(e, "joining")
  BY DEF Skip, MarkInvalid, FinishFails, At
<1>2. record[e] = None /\ bucket[e] = None
  BY <1>1, NoneAssumption DEF Files, RecordsFit, Outcomes
<1>3. /\ (record'[e] = "skipped" /\ audit[e] = "committed") \/ record'[e] = None
      /\ task'[e].at = "done"
      /\ \A f \in Events : f # e => record'[f] = record[f] /\ task'[f] = task[f]
  <2>1. CASE Ends(e, "skipped")
    <3>1. "skipped" \in Outcomes
      BY DEF Outcomes
    <3> QED BY <1>1, <2>1, <3>1, EndsEffect DEF Files, Persisted
  <2>2. CASE task' = [task EXCEPT ![e].at = "done"] /\ record' = record
    BY <1>2, <2>2 DEF TypeOK, Task
  <2> QED BY <2>1, <2>2 DEF Skip, MarkInvalid, FinishFails
<1>4. RecordsFit'
  BY <1>1, <1>2, <1>3, NoneAssumption DEF Files, RecordsFit, At, Outcomes
<1>5. LocksFit'
  BY <1>1, <1>3 DEF Files, LocksFit, At
<1>6. CountsAgree'
  <2>1. "suppressed" # None
    BY NoneAssumption DEF Outcomes
  <2> QED BY <1>1, <1>2, <1>3, <1>4, <2>1, CountsKept DEF Files
<1> QED BY <1>4, <1>5, <1>6 DEF Files

\* Joining takes the lock and reads the count it protects.
LEMMA FilesJoin ==
    ASSUME TypeOK, Files, NEW e \in Events, Join(e)
    PROVE  Files'
<1>1. PICK f \in Windows : /\ ~ Locked(f)
                           /\ task' = [task EXCEPT ![e] = [at |-> "joining", of |-> f, count |-> bucket[f].count]]
  BY DEF Join
<1>2. UNCHANGED <<audit, record, bucket>> /\ At(e, "spawned")
  BY DEF Join
<1>3. f \in Events /\ bucket[f] # None
  BY <1>1 DEF Windows, Opened
<1>4. record[e] = None
  BY <1>2 DEF Files, RecordsFit, At
<1>5. /\ task'[e].at = "joining" /\ task'[e].of = f /\ task'[e].count = bucket[f].count
      /\ \A g \in Events : g # e => task'[g] = task[g]
  BY <1>1 DEF TypeOK
<1>6. RecordsFit'
  BY <1>2, <1>4, <1>5, NoneAssumption DEF Files, RecordsFit, At, Outcomes
<1>7. LocksFit'
  BY <1>1, <1>2, <1>3, <1>5 DEF Files, LocksFit, Locked, At
<1>8. CountsAgree'
  <2>1. "suppressed" # None
    BY NoneAssumption DEF Outcomes
  <2> QED BY <1>2, <1>4, <1>5, <1>6, <2>1, CountsKept DEF Files
<1> QED BY <1>6, <1>7, <1>8 DEF Files

\* A window's end leaves its count.
LEMMA FilesEnd ==
    ASSUME TypeOK, Files, NEW e \in Events, WindowEnds(e)
    PROVE  Files'
<1>1. UNCHANGED <<audit, task, record>> /\ bucket[e] # None /\ bucket' = [bucket EXCEPT ![e].open = FALSE]
  BY DEF WindowEnds, Opened
<1>2. [bucket[e] EXCEPT !.open = FALSE].count = bucket[e].count
      /\ [bucket[e] EXCEPT !.open = FALSE] \in Bucket
  BY <1>1 DEF TypeOK, Bucket
<1>3. \A f \in Events : /\ bucket'[f] # None <=> bucket[f] # None
                        /\ bucket[f] # None => bucket'[f].count = bucket[f].count
  BY <1>1, <1>2, NoneAssumption DEF TypeOK
<1>4. RecordsFit'
  BY <1>1, <1>3 DEF Files, RecordsFit, At
<1>5. LocksFit'
  BY <1>1, <1>3 DEF Files, LocksFit, At
<1>6. CountsAgree'
  BY <1>1, <1>3, <1>4, CountsKept DEF Files
<1> QED BY <1>4, <1>5, <1>6 DEF Files

\* Nobody joins after a restart, and what is recorded is done.
LEMMA FilesRestart ==
    ASSUME TypeOK, Files, Restart
    PROVE  Files'
<1>1. record' = record /\ bucket' = bucket
      /\ task' = [e \in Events |-> IF At(e, "none") THEN task[e] ELSE [task[e] EXCEPT !.at = "done"]]
      /\ audit' = [e \in Events |-> IF audit[e] = "flushed" THEN "rolled_back" ELSE audit[e]]
  BY DEF Restart
<1>2. ASSUME NEW e \in Events
      PROVE  /\ task'[e].of = task[e].of /\ ~ At(e, "joining")'
             /\ At(e, "done") => At(e, "done")'
             /\ audit[e] = "committed" => audit'[e] = "committed"
  <2>1. task[e] \in Task
    BY DEF TypeOK
  <2>2. /\ [task[e] EXCEPT !.at = "done"].of = task[e].of
        /\ [task[e] EXCEPT !.at = "done"].at = "done"
    BY <2>1 DEF Task
  <2> QED BY <1>1, <2>1, <2>2 DEF At
<1>3. RecordsFit'
  BY <1>1, <1>2 DEF Files, RecordsFit
<1>4. LocksFit'
  BY <1>2 DEF LocksFit
<1>5. CountsAgree'
  BY <1>1, <1>2, <1>3, CountsKept DEF Files
<1> QED BY <1>3, <1>4, <1>5 DEF Files

\* One suppressed event more, and the count with it.
LEMMA FilesSuppress ==
    ASSUME TypeOK, Files, NEW e \in Events, Suppress(e)
    PROVE  Files'
<1>0. PICK f \in Events : f = task[e].of
  BY DEF Suppress, Files, LocksFit
<1>1. /\ At(e, "joining") /\ Ends(e, "suppressed") /\ audit' = audit
      /\ bucket' = IF Persisted(e) THEN [bucket EXCEPT ![f].count = task[e].count + 1] ELSE bucket
  BY <1>0 DEF Suppress
<1>2. /\ f \in Events /\ bucket[f] # None /\ bucket[f] \in Bucket /\ task[e].count = bucket[f].count
      /\ \A g \in Events : At(g, "joining") /\ task[g].of = f => e = g
  BY <1>0, <1>1 DEF Files, LocksFit, TypeOK
<1>3. /\ record[e] = None /\ bucket[e] = None
      /\ record'[e] = IF Persisted(e) THEN "suppressed" ELSE None
      /\ task'[e].at = "done" /\ task'[e].of = f
      /\ \A g \in Events : g # e => record'[g] = record[g] /\ task'[g] = task[g]
  <2>1. "suppressed" \in Outcomes /\ ~ At(e, "done")
    BY <1>1 DEF Outcomes, At
  <2> QED BY <1>0, <1>1, <2>1, EndsEffect DEF Files
<1>4. /\ \A g \in Events : g # f => bucket'[g] = bucket[g]
      /\ bucket'[f] # None
      /\ bucket'[f].count = IF Persisted(e) THEN bucket[f].count + 1 ELSE bucket[f].count
  <2> DEFINE w == [bucket[f] EXCEPT !.count = task[e].count + 1]
  <2>1. w \in Bucket /\ w.count = bucket[f].count + 1
    BY <1>2 DEF Bucket
  <2>2. bucket' = IF Persisted(e) THEN [bucket EXCEPT ![f] = w] ELSE bucket
    BY <1>1
  <2> HIDE DEF w
  <2> QED BY <1>2, <2>1, <2>2, NoneAssumption DEF TypeOK
<1>5. RecordsFit'
  <2> SUFFICES ASSUME NEW g \in Events
               PROVE  /\ record'[g] # None => At(g, "done")' /\ audit'[g] = "committed"
                      /\ bucket'[g] # None => record'[g] \in {"sent", "send_failed"}
                      /\ record'[g] = "suppressed" => task'[g].of \in Events /\ bucket'[task'[g].of] # None
    BY DEF RecordsFit
  <2>1. CASE g = e
    BY <1>1, <1>2, <1>3, <1>4, <2>1, NoneAssumption DEF Persisted, At, Outcomes
  <2>2. CASE g # e
    BY <1>1, <1>2, <1>3, <1>4, <2>2 DEF Files, RecordsFit, At
  <2> QED BY <2>1, <2>2
<1>6. LocksFit'
  <2> SUFFICES ASSUME NEW g \in Events, At(g, "joining")'
               PROVE  /\ task'[g].of \in Events /\ bucket'[task'[g].of] # None
                      /\ task'[g].count = bucket'[task'[g].of].count
                      /\ \A h \in Events : At(h, "joining")' /\ task'[h].of = task'[g].of => g = h
    BY DEF LocksFit
  <2>1. g # e /\ task'[g] = task[g] /\ At(g, "joining")
    BY <1>3 DEF At
  <2>2. task[g].of # f
    BY <1>2, <2>1
  <2>3. \A h \in Events : At(h, "joining")' => h # e /\ task'[h] = task[h] /\ At(h, "joining")
    BY <1>3 DEF At
  <2> QED BY <1>4, <2>1, <2>2, <2>3 DEF Files, LocksFit
<1>7. CASE ~ Persisted(e)
  <2>1. "suppressed" # None
    BY NoneAssumption DEF Outcomes
  <2>2. CountsAgree'
    BY <1>2, <1>3, <1>4, <1>5, <1>7, <2>1, CountsKept DEF Files
  <2> QED BY <1>5, <1>6, <2>2 DEF Files
<1>8. CASE Persisted(e)
  <2> SUFFICES ASSUME NEW g \in Events
               PROVE  /\ bucket'[g] # None => bucket'[g].count = 1 + Cardinality(Suppressed(g)')
                      /\ Suppressed(g)' # {} => record'[g] \in {"sent", "send_failed"}
    BY <1>5, <1>6 DEF Files, CountsAgree
  <2>1. Suppressed(g)' # {} => record'[g] \in {"sent", "send_failed"}
    BY <1>5 DEF Suppressed, RecordsFit
  <2>2. ASSUME g = f PROVE bucket'[g].count = 1 + Cardinality(Suppressed(g)')
    <3>1. Suppressed(f)' = Suppressed(f) \cup {e} /\ e \notin Suppressed(f)
      BY <1>0, <1>3, <1>8, NoneAssumption DEF Suppressed, Outcomes
    <3>2. IsFiniteSet(Suppressed(f))
      BY FiniteAssumption, FS_Subset DEF Suppressed
    <3>3. Cardinality(Suppressed(f) \cup {e}) = Cardinality(Suppressed(f)) + 1
          /\ Cardinality(Suppressed(f)) \in Nat
      BY <3>1, <3>2, FS_AddElement, FS_CardinalityType
    <3>4. bucket[f].count = 1 + Cardinality(Suppressed(f))
      BY <1>2 DEF Files, CountsAgree
    <3> QED BY <1>4, <1>8, <2>2, <3>1, <3>3, <3>4
  <2>3. ASSUME g # f PROVE bucket'[g] # None => bucket'[g].count = 1 + Cardinality(Suppressed(g)')
    <3>1. Suppressed(g)' = Suppressed(g)
      BY <1>0, <1>3, <2>3, NoneAssumption DEF Suppressed, Outcomes
    <3> QED BY <1>4, <2>3, <3>1 DEF Files, CountsAgree
  <2> QED BY <2>1, <2>2, <2>3
<1> QED BY <1>7, <1>8

\* A window starts with the event that opened it, and nobody behind it.
LEMMA FilesFinish ==
    ASSUME TypeOK, Files, NEW e \in Events, Finish(e)
    PROVE  Files'
<1>1. PICK outcome \in {"sent", "send_failed"} : Ends(e, outcome)
  BY DEF Finish
<1>2. /\ At(e, "sending") /\ audit' = audit
      /\ bucket' = IF Persisted(e) THEN [bucket EXCEPT ![e] = [open |-> TRUE, count |-> 1]] ELSE bucket
  BY DEF Finish
<1>3. /\ record[e] = None /\ bucket[e] = None
      /\ record'[e] = IF Persisted(e) THEN outcome ELSE None
      /\ task'[e].at = "done" /\ task'[e].of = task[e].of
      /\ \A g \in Events : g # e => record'[g] = record[g] /\ task'[g] = task[g]
  <2>1. outcome \in Outcomes /\ ~ At(e, "done")
    BY <1>2 DEF Outcomes, At
  <2> QED BY <1>1, <2>1, EndsEffect DEF Files
<1>4. /\ \A g \in Events : g # e => bucket'[g] = bucket[g]
      /\ Persisted(e) => bucket'[e].count = 1
      /\ ~ Persisted(e) => bucket'[e] = None
  BY <1>2, <1>3 DEF TypeOK
<1>5. \A g \in Events : record[g] = "suppressed" => g # e /\ task[g].of # e
  BY <1>3, NoneAssumption DEF Files, RecordsFit, Outcomes
<1>6. RecordsFit'
  <2> SUFFICES ASSUME NEW g \in Events
               PROVE  /\ record'[g] # None => At(g, "done")' /\ audit'[g] = "committed"
                      /\ bucket'[g] # None => record'[g] \in {"sent", "send_failed"}
                      /\ record'[g] = "suppressed" => task'[g].of \in Events /\ bucket'[task'[g].of] # None
    BY DEF RecordsFit
  <2>1. CASE g = e
    <3>1. record'[e] # "suppressed"
      BY <1>3, NoneAssumption DEF Outcomes
    <3> QED BY <1>2, <1>3, <1>4, <2>1, <3>1 DEF Persisted, At
  <2>2. CASE g # e
    BY <1>2, <1>3, <1>4, <1>5, <2>2 DEF Files, RecordsFit, At
  <2> QED BY <2>1, <2>2
<1>7. LocksFit'
  <2> SUFFICES ASSUME NEW g \in Events, At(g, "joining")'
               PROVE  /\ task'[g].of \in Events /\ bucket'[task'[g].of] # None
                      /\ task'[g].count = bucket'[task'[g].of].count
                      /\ \A h \in Events : At(h, "joining")' /\ task'[h].of = task'[g].of => g = h
    BY DEF LocksFit
  <2>1. \A h \in Events : At(h, "joining")' => h # e /\ task'[h] = task[h] /\ At(h, "joining")
    BY <1>3 DEF At
  <2>2. task[g].of # e
    BY <1>3, <2>1 DEF Files, LocksFit
  <2> QED BY <1>4, <2>1, <2>2 DEF Files, LocksFit
<1>8. CountsAgree'
  <2> SUFFICES ASSUME NEW g \in Events
               PROVE  /\ bucket'[g] # None => bucket'[g].count = 1 + Cardinality(Suppressed(g)')
                      /\ Suppressed(g)' # {} => record'[g] \in {"sent", "send_failed"}
    BY DEF CountsAgree
  <2>1. Suppressed(g)' # {} => record'[g] \in {"sent", "send_failed"}
    BY <1>6 DEF Suppressed, RecordsFit
  <2>2. record'[e] # "suppressed"
    BY <1>3, NoneAssumption DEF Outcomes
  <2>3. Suppressed(g)' = Suppressed(g)
    BY <1>3, <1>5, <2>2 DEF Suppressed
  <2>4. ASSUME g = e PROVE bucket'[g] # None => bucket'[g].count = 1 + Cardinality(Suppressed(g)')
    <3>1. Suppressed(e) = {}
      BY <1>5 DEF Suppressed
    <3> QED BY <1>4, <2>3, <2>4, <3>1, FS_EmptySet
  <2>5. ASSUME g # e PROVE bucket'[g] # None => bucket'[g].count = 1 + Cardinality(Suppressed(g)')
    BY <1>4, <2>3, <2>5 DEF Files, CountsAgree
  <2> QED BY <2>1, <2>4, <2>5
<1> QED BY <1>6, <1>7, <1>8 DEF Files

\* A step keeps the records, the locks and the counts.
LEMMA FilesKept == TypeOK /\ Files /\ [Next]_vars => Files'
<1> SUFFICES ASSUME TypeOK, Files, [Next]_vars PROVE Files'
  OBVIOUS
<1>1. ASSUME UNCHANGED <<audit, task, record, bucket>>
      PROVE  Files'
  <2>1. RecordsFit' /\ LocksFit'
    BY <1>1 DEF Files, RecordsFit, LocksFit, At
  <2>2. CountsAgree'
    BY <1>1, <2>1, CountsKept DEF Files
  <2> QED BY <2>1, <2>2 DEF Files
<1>2. ASSUME NEW r \in Reqs,
             \/ \E change \in {"none", "connection", "password"} : BeginSave(r, change)
             \/ CommitSave(r) \/ BeginTest(r) \/ CommitTest(r) \/ Abort(r)
      PROVE  UNCHANGED <<audit, task, record, bucket>>
  BY <1>2 DEF BeginSave, CommitSave, BeginTest, CommitTest, Abort
<1>3. DeleteConfig \/ UNCHANGED vars => UNCHANGED <<audit, task, record, bucket>>
  BY DEF DeleteConfig, vars
<1> QED
  BY <1>1, <1>2, <1>3, FilesMove, FilesSkip, FilesJoin, FilesSuppress, FilesFinish, FilesEnd,
     FilesRestart DEF Next, Step, Notify

\* A request alone in flight never makes settings verified that were not tested:
\* what it assigns follows from what it read.
Harmless(r) ==
    /\ req[r].op = "save" /\ ~ req[r].fresh =>
          /\ req[r].change = "none" => req[r].status = None
          /\ req[r].change # "none" => Written(req[r].status, config.status) # "verified"
    /\ req[r].op = "test" /\ req[r].status = "verified" => req[r].passed
Untangled ==
    ~ raced => /\ \A r, q \in Busy : r = q
               /\ VerifiedWasTested
               /\ config # None => \A r \in Reqs : Harmless(r)

\* Without an overlap, at most one request is in flight.
LEMMA AloneNow ==
    ASSUME Race, ~ raced'
    PROVE  /\ \A r, q \in Reqs : req'[r] # Idle /\ req'[q] # Idle => r = q
           /\ raced => /\ \A r \in Reqs : req'[r] = Idle
                       /\ config' = None \/ config'.status # "verified"
<1>1. ~ (Cardinality(Busy') > 1)
  BY DEF Race
<1>2. IsFiniteSet(Busy')
  BY FiniteAssumption, FS_Subset DEF Busy
<1>3. ASSUME NEW r \in Reqs, NEW q \in Reqs, req'[r] # Idle, req'[q] # Idle, r # q
      PROVE  FALSE
  <2>1. r \in Busy' /\ q \in Busy'
    BY <1>3 DEF Busy
  <2> QED BY <1>1, <1>2, <1>3, <2>1, TwoOf
<1>4. raced => Busy' = {} /\ (config' = None \/ config'.status # "verified")
  BY DEF Race
<1>5. Busy' = {} => \A r \in Reqs : req'[r] = Idle
  BY DEF Busy
<1> QED BY <1>3, <1>4, <1>5

\* A step that commits nothing on the settings, or commits a request that was
\* alone.
LEMMA SettingsStep ==
    ASSUME TypeOK, Step, ~ raced', ~ raced, Untangled,
           \A r, q \in Reqs : req'[r] # Idle /\ req'[q] # Idle => r = q
    PROVE  /\ config' # None /\ config'.status = "verified" => config'.tested
           /\ config' # None => \A r \in Reqs : Harmless(r)'
<1> USE DEF TypeOK
<1>0. ASSUME NEW r \in Reqs, req'[r] = Idle PROVE Harmless(r)'
  BY <1>0 DEF Harmless, Idle
<1>a. /\ \A r, q \in Reqs : req[r] # Idle /\ req[q] # Idle => r = q
      /\ config # None /\ config.status = "verified" => config.tested
      /\ config # None => \A r \in Reqs : Harmless(r)
  BY DEF Untangled, VerifiedWasTested, Busy
<1>1. ASSUME UNCHANGED <<config, req>>
      PROVE  /\ config' # None /\ config'.status = "verified" => config'.tested
             /\ config' # None => \A r \in Reqs : Harmless(r)'
  BY <1>1, <1>a DEF Harmless
<1>2. ASSUME NEW e \in Events, Emit(e) \/ EndAudit(e) \/ Skip(e) \/ FailToRead(e) \/ Join(e)
                               \/ Suppress(e) \/ Open(e) \/ Finish(e) \/ FinishFails(e) \/ WindowEnds(e)
      PROVE  UNCHANGED <<config, req>>
  BY <1>2 DEF Emit, EndAudit, Skip, FailToRead, Join, Suppress, Open, Finish,
     FinishFails, WindowEnds
<1>3. ASSUME NEW e \in Events, MarkInvalid(e), config' # config
      PROVE  /\ config'.status # "verified" /\ \A r \in Reqs : Harmless(r)'
  <2>1. /\ req' = req /\ config # None /\ config' = [config EXCEPT !.status = "credentials_invalid"]
    BY <1>3 DEF MarkInvalid
  <2>2. config'.status = "credentials_invalid"
    BY <2>1 DEF Config
  <2>3. ASSUME NEW r \in Reqs, req[r].op = "save" PROVE req[r].status \in {"pending_test", None}
    BY <2>3 DEF Req, Idle
  <2>4. ASSUME NEW r \in Reqs, req[r].op = "save"
        PROVE  Written(req[r].status, "credentials_invalid") # "verified"
    BY <2>3, <2>4 DEF Written
  <2> QED BY <1>a, <2>1, <2>2, <2>4 DEF Harmless
<1>4. ASSUME NEW r \in Reqs, NEW change \in {"none", "connection", "password"},
             BeginSave(r, change),
             config # None
      PROVE  config' = config /\ \A q \in Reqs : Harmless(q)'
  <2> DEFINE st == IF Changed(change) THEN Assigns("pending_test") ELSE None
             t == [op |-> "save", fresh |-> FALSE, change |-> change, status |-> st]
  <2>1. config' = config /\ req' = [req EXCEPT ![r] = t]
    <3>1. (config = None) = FALSE
      BY <1>4
    <3> QED BY <1>4, <3>1 DEF BeginSave
  <2>2. config.status \in Statuses /\ None # "pending_test"
    BY <1>4, NoneAssumption DEF Config, Statuses
  <2>3. /\ change = "none" => st = None
        /\ change # "none" => Written(st, config.status) # "verified"
    BY <2>2 DEF Changed, Assigns, Written
  <2>4. Harmless(r)'
    <3> HIDE DEF st
    <3>1. req'[r] = t
      BY <2>1
    <3> QED BY <2>1, <2>3, <3>1 DEF Harmless
  <2>5. \A q \in Reqs : q # r => Harmless(q)'
    BY <1>a, <1>4, <2>1 DEF Harmless
  <2> QED BY <2>1, <2>4, <2>5
<1>5. ASSUME NEW r \in Reqs, CommitSave(r) \/ CommitTest(r) \/ Abort(r)
      PROVE  \A q \in Reqs : req'[q] = Idle
  <2>1. req[r] # Idle
    BY <1>5 DEF CommitSave, CommitTest, Abort, Idle
  <2>2. \A q \in Reqs : [req EXCEPT ![r] = Idle][q] = Idle
    BY <1>a, <2>1
  <2>3. req' = [req EXCEPT ![r] = Idle] \/ req' = Outdated([req EXCEPT ![r] = Idle])
    BY <1>5 DEF CommitSave, CommitTest, Abort
  <2> QED BY <2>2, <2>3 DEF Outdated, Idle
<1>6. ASSUME NEW r \in Reqs, CommitSave(r), config'.status = "verified"
      PROVE  config'.tested
  <2>1. ~ req[r].fresh /\ config # None
    BY <1>6 DEF CommitSave
  <2>2. config' = [readable |-> req[r].change = "password" \/ config.readable,
                   status |-> Written(req[r].status, config.status),
                   tested |-> req[r].change = "none" /\ config.tested]
    BY <1>6, <2>1 DEF CommitSave
  <2>3. Harmless(r) /\ req[r].op = "save"
    BY <1>a, <1>6, <2>1 DEF CommitSave
  <2>4. req[r].change = "none" /\ req[r].status = None
    BY <1>6, <2>1, <2>2, <2>3 DEF Harmless
  <2>5. config.status = "verified"
    BY <1>6, <2>2, <2>4 DEF Written
  <2> QED BY <1>a, <2>1, <2>2, <2>4, <2>5
<1>7. ASSUME NEW r \in Reqs, BeginTest(r)
      PROVE  config' = config /\ \A q \in Reqs : Harmless(q)'
  <2>1. PICK status \in {"verified", "credentials_invalid", config.status}, passed \in BOOLEAN :
          /\ status # config.status => passed = (status = "verified")
          /\ req' = [req EXCEPT ![r] = [op |-> "test", passed |-> passed, status |-> Assigns(status)]]
    BY <1>7 DEF BeginTest
  <2>2. config' = config /\ config # None
    BY <1>7 DEF BeginTest
  <2>3. Harmless(r)'
    <3>1. req'[r] = [op |-> "test", passed |-> passed, status |-> Assigns(status)]
      BY <2>1
    <3>2. Assigns(status) = "verified" => passed
      BY <2>1, NoneAssumption DEF Assigns, Statuses
    <3> QED BY <3>1, <3>2 DEF Harmless
  <2>4. \A q \in Reqs : q # r => Harmless(q)'
    BY <1>a, <2>1, <2>2 DEF Harmless
  <2> QED BY <2>2, <2>3, <2>4
<1>8. ASSUME NEW r \in Reqs, CommitTest(r), config'.status = "verified"
      PROVE  config'.tested
  <2>1. config # None /\ req[r] \in Req /\ req[r].op = "test" /\ config \in Config
    BY <1>8 DEF CommitTest, Idle
  <2>2. /\ config'.status = Written(req[r].status, config.status)
        /\ config'.tested = (config.tested \/ req[r].passed)
    BY <1>8, <2>1 DEF CommitTest, Config
  <2>3. Harmless(r)
    BY <1>a, <2>1
  <2>4. req[r].status = "verified" => req[r].passed
    BY <2>1, <2>3 DEF Harmless
  <2>5. config.status = "verified" => config.tested
    BY <1>a, <2>1
  <2> QED BY <1>8, <2>2, <2>4, <2>5 DEF Written
<1>9. ASSUME Restart, config' # None
      PROVE  /\ config' # None /\ config'.status = "verified" => config'.tested
             /\ config' # None => \A r \in Reqs : Harmless(r)'
  <2>1. \A r \in Reqs : req'[r] = Idle
    BY <1>9 DEF Restart
  <2>2. config # None /\ (config' = config \/ config' = [config EXCEPT !.readable = FALSE])
    BY <1>9 DEF Restart
  <2>3. config'.status = config.status /\ config'.tested = config.tested
    BY <2>2 DEF Config
  <2> QED BY <1>0, <1>a, <2>1, <2>2, <2>3
<1>10. ASSUME NEW r \in Reqs, Abort(r) PROVE config' = config
  BY <1>10 DEF Abort
<1>11. DeleteConfig => config' = None
  BY DEF DeleteConfig
<1>12. ASSUME NEW e \in Events, MarkInvalid(e) PROVE req' = req
  BY <1>12 DEF MarkInvalid
<1>13. ASSUME NEW r \in Reqs, NEW change \in {"none", "connection", "password"},
              BeginSave(r, change)
       PROVE  config' = config
  BY <1>13 DEF BeginSave
<1> QED
  <2>1. ASSUME NEW e \in Events, MarkInvalid(e)
        PROVE  /\ config' # None /\ config'.status = "verified" => config'.tested
               /\ config' # None => \A r \in Reqs : Harmless(r)'
    BY <1>1, <1>3, <1>12, <2>1
  <2>2. ASSUME NEW r \in Reqs, CommitSave(r) \/ CommitTest(r) \/ Abort(r)
        PROVE  /\ config' # None /\ config'.status = "verified" => config'.tested
               /\ config' # None => \A q \in Reqs : Harmless(q)'
    <3>1. \A q \in Reqs : Harmless(q)'
      BY <1>0, <1>5, <2>2
    <3> QED BY <1>a, <1>6, <1>8, <1>10, <2>2, <3>1
  <2>3. ASSUME NEW r \in Reqs, NEW change \in {"none", "connection", "password"},
               BeginSave(r, change)
        PROVE  /\ config' # None /\ config'.status = "verified" => config'.tested
               /\ config' # None => \A q \in Reqs : Harmless(q)'
    BY <1>a, <1>4, <1>13, <2>3
  <2>4. ASSUME NEW r \in Reqs, BeginTest(r)
        PROVE  /\ config' # None /\ config'.status = "verified" => config'.tested
               /\ config' # None => \A q \in Reqs : Harmless(q)'
    BY <1>a, <1>7, <2>4
  <2>5. CASE DeleteConfig
    BY <1>11, <2>5
  <2>6. CASE Restart
    BY <1>9, <2>6
  <2> HIDE DEF TypeOK
  <2> QED BY <1>1, <1>2, <2>1, <2>2, <2>3, <2>4, <2>5, <2>6 DEF Step, Notify

\* A step keeps the settings untangled.
LEMMA UntangledKept == TypeOK /\ Untangled /\ [Next]_vars => Untangled'
<1> SUFFICES ASSUME TypeOK, Untangled, [Next]_vars, ~ raced'
             PROVE  /\ \A r, q \in Busy' : r = q
                    /\ VerifiedWasTested'
                    /\ config' # None => \A r \in Reqs : Harmless(r)'
  BY DEF Untangled
<1>1. CASE Next
  <2>1. Step /\ Race
    BY <1>1 DEF Next
  <2>2. /\ \A r, q \in Reqs : req'[r] # Idle /\ req'[q] # Idle => r = q
        /\ raced => /\ \A r \in Reqs : req'[r] = Idle
                    /\ config' = None \/ config'.status # "verified"
    BY <2>1, AloneNow
  <2>3. \A r, q \in Busy' : r = q
    BY <2>2 DEF Busy
  <2>4. CASE raced
    <3>1. ASSUME NEW r \in Reqs PROVE Harmless(r)'
      BY <2>2, <2>4 DEF Harmless, Idle
    <3> QED BY <2>2, <2>3, <2>4, <3>1 DEF VerifiedWasTested
  <2>5. CASE ~ raced
    BY <2>1, <2>2, <2>3, <2>5, SettingsStep DEF VerifiedWasTested
  <2> QED BY <2>4, <2>5
<1>2. CASE UNCHANGED vars
  <2>1. raced' = raced /\ config' = config /\ req' = req
    BY <1>2 DEF vars
  <2> QED BY <2>1 DEF Untangled, VerifiedWasTested, Harmless, Busy
<1> QED BY <1>1, <1>2

\* The inductive invariant of the notifications.
NoticesInv == TypeOK /\ Met /\ Files /\ Untangled

\* It holds at first.
LEMMA NoticesInit == Init => NoticesInv
<1> SUFFICES ASSUME Init PROVE NoticesInv
  OBVIOUS
<1>1. TypeOK
  <2>1. Resting("none") \in Task /\ None \in Outcomes \cup {None}
    BY DEF Resting, Task
  <2> QED BY <2>1 DEF Init, TypeOK
<1>2. \A e \in Events : /\ task[e].at = "none" /\ record[e] = None /\ bucket[e] = None
  BY DEF Init, Resting
<1>3. Met /\ RecordsFit /\ LocksFit
  BY <1>2, NoneAssumption DEF Met, Opening, Opened, RecordsFit, LocksFit, At, Outcomes
<1>4. CountsAgree
  BY <1>2, NoneAssumption DEF CountsAgree, Suppressed, Outcomes
<1>5. Untangled
  BY DEF Init, Untangled, Busy, VerifiedWasTested
<1> QED BY <1>1, <1>3, <1>4, <1>5 DEF NoticesInv, Files

\* It holds always.
THEOREM NoticesSound == Spec => []NoticesInv
<1>1. NoticesInv /\ [Next]_vars => NoticesInv'
  BY NoticesTyped, MetKept, FilesKept, UntangledKept DEF NoticesInv, Files
<1> QED BY <1>1, NoticesInit, PTL DEF Spec

\* Every row, task and request has the type the columns and handlers give it.
THEOREM NoticesTypeCorrect == Spec => []TypeOK
<1>1. NoticesInv => TypeOK
  BY DEF NoticesInv
<1> QED BY <1>1, NoticesSound, PTL

\* At most one window is open at a time, and so one mail in five minutes, but
\* for tasks that were sending at the same time (notifier_email.py:361).
THEOREM WindowsExclude == Spec => []OneWindowAtATime
<1>1. NoticesInv => OneWindowAtATime
  BY DEF NoticesInv, Met, Opening, OneWindowAtATime
<1> QED BY <1>1, NoticesSound, PTL

\* A window counts exactly the event that opened it and those suppressed behind
\* it, however joins, rollbacks and restarts interleave (notifier_email.py:374).
THEOREM CountsAlwaysAgree == Spec => []CountsAgree
<1>1. NoticesInv => CountsAgree
  BY DEF NoticesInv, Files
<1> QED BY <1>1, NoticesSound, PTL

\* Settings are called verified only when a test succeeded on them as they are,
\* while requests do not overlap (notifier_email.py:556).
THEOREM VerifiedMeansTested == Spec => []VerifiedWasTested
<1>1. NoticesInv => VerifiedWasTested
  BY DEF NoticesInv, Untangled, VerifiedWasTested
<1> QED BY <1>1, NoticesSound, PTL

-----------------------------------------------------------------------------
(* Members and sessions.                                                   *)

\* The assumptions of MemberAccess that the proofs need.
Registry ==
    /\ None \notin Members \cup Sessions \cup People!Sess
    /\ None \notin {"active", "disabled"} /\ None \notin BOOLEAN
    /\ IsFiniteSet(Members) /\ IsFiniteSet(Reqs)

\* The tables and the requests, without the history.
Tables ==
    /\ member \in [Members -> {"none", "active", "disabled"}]
    /\ admin \subseteq Members
    /\ sess \in [Sessions -> {None} \cup People!Sess]
    /\ rules \subseteq Members /\ whitelist \subseteq Members
    /\ txn \in [Reqs -> {People!Idle} \cup People!Txn]
    /\ job \in [Reqs -> People!Job]
    /\ \A s \in Sessions : sess[s] # None => member[sess[s].of] # "none"

\* A request in flight holds a transaction.
LEMMA TxnHeld ==
    ASSUME Registry, Tables, NEW r \in Reqs, txn[r] # People!Idle
    PROVE  txn[r] \in People!Txn /\ txn[r].m \in Members /\ txn[r].revokes \subseteq Sessions
BY DEF Tables, People!Txn

\* A flag that is to be taken away.
No(flag) == flag = FALSE

\* What update, set_is_admin and revoke_all_for_member are about to write.
LEMMA ChangeTyped ==
    ASSUME Registry, Tables, NEW op \in {"patch", "bulk"}, NEW m \in Members,
           NEW status \in {"active", "disabled", None}, NEW adm \in BOOLEAN \cup {None},
           NEW t, t = People!Change(op, m, status, adm)
    PROVE  /\ t \in People!Txn /\ t.op = op /\ t.m = m /\ t.s = None
           /\ t.status = IF status = member[m] THEN None ELSE status
           /\ No(t.admin) => No(adm) /\ m \in admin
           /\ adm = None => t.admin = None
           /\ t.status = "disabled" => t.revokes = People!Live(m)
<1> DEFINE st == IF status = member[m] THEN None ELSE status
           ad == IF adm # None /\ adm = (m \in admin) THEN None ELSE adm
           re == IF status = "disabled" /\ member[m] # "disabled" THEN People!Live(m) ELSE {}
           w == [op |-> op, m |-> m, status |-> st, admin |-> ad, revokes |-> re, s |-> None]
<1>1. t = w
  BY DEF People!Change
<1>2. st \in {"active", "disabled", None} /\ ad \in BOOLEAN \cup {None} /\ re \in SUBSET Sessions
  BY DEF People!Live, People!SessionsOf
<1>5. ad = FALSE => adm = FALSE /\ m \in admin
  <2>1. None # FALSE
    BY DEF Registry
  <2>2. CASE adm # None /\ adm = (m \in admin)
    BY <2>1, <2>2
  <2>3. CASE ~ (adm # None /\ adm = (m \in admin))
    <3>1. ASSUME adm = FALSE, m \notin admin PROVE FALSE
      <4>1. (m \in admin) = FALSE
        BY <3>1
      <4> QED BY <2>1, <2>3, <3>1, <4>1
    <3> QED BY <2>3, <3>1
  <2> QED BY <2>2, <2>3
<1>6. adm = None => ad = None
  OBVIOUS
<1> HIDE DEF st, ad, re
<1>3. w \in People!Txn
  BY <1>2 DEF People!Txn
<1>4. /\ w.op = op /\ w.m = m /\ w.s = None
      /\ w.status = st /\ w.admin = ad /\ w.revokes = re
  OBVIOUS
<1>7. No(w.admin) => No(adm) /\ m \in admin
  BY <1>4, <1>5 DEF No
<1>8. adm = None => w.admin = None
  BY <1>4, <1>6
<1>9. w.status = IF status = member[m] THEN None ELSE status
  BY <1>4 DEF st
<1>10. w.status = "disabled" => w.revokes = People!Live(m)
  <2>1. None # "disabled"
    BY DEF Registry
  <2> SUFFICES ASSUME st = "disabled" PROVE re = People!Live(m)
    BY <1>4
  <2>2. status = "disabled" /\ member[m] # "disabled"
    BY <2>1 DEF st
  <2> QED BY <2>2 DEF re
<1> HIDE DEF w
<1> QED BY <1>1, <1>3, <1>4, <1>7, <1>8, <1>9, <1>10

\* A session row is revoked, keeps its member and how it was opened.
LEMMA RevokedKeeps ==
    ASSUME Registry, Tables, NEW S, NEW s \in Sessions
    PROVE  /\ People!Revoked(S)[s] \in {None} \cup People!Sess
           /\ People!Revoked(S)[s] # None <=> sess[s] # None
           /\ sess[s] # None => /\ People!Revoked(S)[s].of = sess[s].of /\ People!Revoked(S)[s].by = sess[s].by
                                /\ s \in S => People!Revoked(S)[s].status = "revoked"
                                /\ s \notin S => People!Revoked(S)[s].status = sess[s].status
<1>1. People!Revoked(S)[s] = IF s \in S /\ sess[s] # None THEN [sess[s] EXCEPT !.status = "revoked"] ELSE sess[s]
  BY DEF People!Revoked
<1>2. ASSUME sess[s] # None
      PROVE  LET w == [sess[s] EXCEPT !.status = "revoked"]
             IN  w \in People!Sess /\ w.of = sess[s].of /\ w.by = sess[s].by /\ w.status = "revoked" /\ w # None
  <2>1. sess[s] \in People!Sess
    BY <1>2 DEF Tables
  <2> DEFINE w == [sess[s] EXCEPT !.status = "revoked"]
  <2>2. w \in People!Sess /\ w.of = sess[s].of /\ w.by = sess[s].by /\ w.status = "revoked"
    BY <2>1 DEF People!Sess
  <2> HIDE DEF w
  <2>3. w # None
    BY <2>2 DEF Registry
  <2> QED BY <2>2, <2>3 DEF w
<1>3. sess[s] \in {None} \cup People!Sess
  BY DEF Tables
<1> QED BY <1>1, <1>2, <1>3

\* A request begins a transaction t.
Begun(r, t) ==
    /\ txn[r] = People!Idle /\ txn' = [txn EXCEPT ![r] = t]
    /\ UNCHANGED <<member, admin, sess, rules, whitelist, job>>

\* What was checked before t: who is taken away is not the last, sessions are
\* revoked that were live, a bulk item is one of its job, who signs in is not
\* disabled.
Checked(r, t) ==
    /\ t \in People!Txn
    /\ t.op = "delete" \/ (t.op = "patch" /\ t.admin = FALSE) =>
          People!ActiveAdmins = {} \/ People!ActiveAdmins \ {t.m} # {}
    /\ t.op \in {"patch", "bulk"} /\ t.status = "disabled" => t.revokes = People!Live(t.m)
    /\ t.op = "bulk" => /\ t.m \in job[r].todo /\ t.status = job[r].status /\ t.admin = None
                        /\ t.m \notin job[r].pool \/ job[r].pool \ {t.m} # {}
    /\ t.op # "bulk" => r \notin Bulks \/ job[r].todo = {}
    /\ t.op \in {"sign_in", "register"} => member[t.m] # "disabled"

\* Of more than one there is another.
LEMMA OneMore ==
    ASSUME NEW S, IsFiniteSet(S), Cardinality(S) > 1, NEW x
    PROVE  S \ {x} # {}
<1>1. Cardinality(S \ {x}) = IF x \in S THEN Cardinality(S) - 1 ELSE Cardinality(S)
  BY FS_RemoveElement
<1>2. Cardinality(S) \in Nat /\ Cardinality({}) = 0
  BY FS_CardinalityType, FS_EmptySet
<1> QED BY <1>1, <1>2

\* Cardinality is the same in the instances.
LEMMA SameSize ==
    ASSUME NEW S
    PROVE  People!Cardinality(S) = Cardinality(S) /\ Models!Cardinality(S) = Cardinality(S)
BY DEF People!Cardinality, Models!Cardinality, Cardinality, People!IsFiniteSet,
   Models!IsFiniteSet, IsFiniteSet

\* The active administrators are finitely many.
LEMMA FewAdmins ==
    ASSUME Registry, Tables
    PROVE  IsFiniteSet(People!ActiveAdmins) /\ People!ActiveAdmins \subseteq Members
<1>1. People!ActiveAdmins \in SUBSET Members
  BY DEF People!ActiveAdmins, Tables
<1> QED BY <1>1, FS_Subset DEF Registry

\* set_is_admin: a demotion leaves another active administrator.
LEMMA PatchChecked ==
    ASSUME Registry, Tables, NEW r \in Reqs, NEW a, NEW m \in Members,
           NEW status \in {"active", "disabled", None}, NEW adm \in BOOLEAN \cup {None},
           People!BeginPatch(r, a, m, status, adm)
    PROVE  \E t : Begun(r, t) /\ Checked(r, t)
<1> DEFINE t == People!Change("patch", m, status, adm)
<1>1. /\ r \notin Bulks /\ People!Begin(r, t) /\ UNCHANGED job
      /\ adm = FALSE /\ m \in admin => People!DemoteAllowed(m, status)
  BY DEF People!BeginPatch
<1>2. Begun(r, t)
  BY <1>1 DEF People!Begin, Begun, People!db
<1>0. t = People!Change("patch", m, status, adm)
  OBVIOUS
<1> HIDE DEF t
<1>3. /\ t \in People!Txn /\ t.op = "patch" /\ t.m = m
      /\ t.status = IF status = member[m] THEN None ELSE status
      /\ No(t.admin) => No(adm) /\ m \in admin
      /\ t.status = "disabled" => t.revokes = People!Live(m)
  BY <1>0, ChangeTyped
<1>4. ASSUME t.admin = FALSE
      PROVE  People!ActiveAdmins \ {m} # {}
  <2>1. adm = FALSE /\ m \in admin
    BY <1>3, <1>4 DEF No
  <2> DEFINE C == IF status = "disabled" THEN People!ActiveAdmins \ {m}
                  ELSE IF status = "active" THEN People!ActiveAdmins \cup {m} ELSE People!ActiveAdmins
  <2>2. Cardinality(C) > 1
    BY <1>1, <2>1, SameSize DEF People!DemoteAllowed
  <2>3. IsFiniteSet(C)
    BY FewAdmins, FS_RemoveElement, FS_AddElement
  <2>4. C \ {m} # {}
    <3> HIDE DEF C
    <3> QED BY <2>2, <2>3, OneMore
  <2> QED BY <2>4
<1>5. Checked(r, t)
  BY <1>1, <1>3, <1>4 DEF Checked
<1> QED BY <1>2, <1>5

\* bulk_status: an item is of its job, and is not the last of the snapshot.
LEMMA ItemChecked ==
    ASSUME Registry, Tables, NEW r \in Reqs, NEW m \in Members, People!BeginItem(r, m)
    PROVE  \E t : Begun(r, t) /\ Checked(r, t)
<1> DEFINE t == People!Change("bulk", m, job[r].status, None)
<1>1. /\ m \in job[r].todo /\ ~ People!LastOfPool(r, m) /\ People!Begin(r, t) /\ UNCHANGED job
      /\ People!Changes("bulk", m, job[r].status, None)
  BY DEF People!BeginItem
<1>2. Begun(r, t)
  BY <1>1 DEF People!Begin, Begun, People!db
<1>3. job[r].status \in {"active", "disabled"} /\ job[r].pool \in SUBSET Members
  BY DEF Tables, People!Job
<1>5. t.status # None \/ t.admin # None
  BY <1>1 DEF People!Changes
<1>0. t = People!Change("bulk", m, job[r].status, None)
  OBVIOUS
<1> HIDE DEF t
<1>4. /\ t \in People!Txn /\ t.op = "bulk" /\ t.m = m
      /\ t.status = IF job[r].status = member[m] THEN None ELSE job[r].status
      /\ t.admin = None
      /\ t.status = "disabled" => t.revokes = People!Live(m)
  BY <1>0, <1>3, ChangeTyped
<1>6. m \notin job[r].pool \/ job[r].pool \ {m} # {}
  <2>1. m \notin job[r].pool \/ ~ (Cardinality(job[r].pool) <= 1)
    BY <1>1, SameSize DEF People!LastOfPool
  <2>2. IsFiniteSet(job[r].pool)
    BY <1>3, FS_Subset DEF Registry
  <2>3. Cardinality(job[r].pool) \in Nat
    BY <2>2, FS_CardinalityType
  <2> QED BY <2>1, <2>2, <2>3, OneMore
<1>7. t.status = job[r].status /\ (t.status = "disabled" => t.revokes = People!Live(m))
  BY <1>4, <1>5 DEF Registry
<1>8. Checked(r, t)
  BY <1>1, <1>4, <1>6, <1>7 DEF Checked
<1> QED BY <1>2, <1>8

\* delete: never the last active administrator.
LEMMA DeleteChecked ==
    ASSUME Registry, Tables, NEW r \in Reqs, NEW a, NEW m \in Members,
           People!BeginDelete(r, a, m) \/ People!BeginDeleteItem(r, a, m)
    PROVE  \E t : Begun(r, t) /\ Checked(r, t)
<1> DEFINE t == [op |-> "delete", m |-> m, status |-> None, admin |-> None,
                 revokes |-> {}, s |-> None]
<1>1. /\ r \notin Bulks \/ job[r].todo = {}
      /\ m \in People!ActiveAdmins => People!ActiveAdmins # {m}
      /\ People!Begin(r, t) /\ UNCHANGED job
  BY DEF People!BeginDelete, People!BeginDeleteItem, People!Delete
<1>2. Begun(r, t)
  BY <1>1 DEF People!Begin, Begun, People!db
<1>3. t \in People!Txn /\ t.op = "delete" /\ t.m = m
  BY DEF People!Txn
<1> HIDE DEF t
<1>4. People!ActiveAdmins = {} \/ People!ActiveAdmins \ {m} # {}
  BY <1>1
<1>5. Checked(r, t)
  BY <1>1, <1>3, <1>4 DEF Checked
<1> QED BY <1>2, <1>5

\* local_login and the callback: who signs in is active, or registers.
LEMMA SignInChecked ==
    ASSUME Registry, Tables, NEW r \in Reqs, NEW m \in Members, NEW s \in Sessions,
           People!BeginLogin(r, m, s) \/ People!BeginCallback(r, m, s) \/ People!BeginRegister(r, m, s)
    PROVE  \E t : Begun(r, t) /\ Checked(r, t)
<1>1. PICK op \in {"sign_in", "register"} :
         /\ r \notin Bulks /\ member[m] # "disabled"
         /\ People!Begin(r, People!SignIn(op, m, s)) /\ UNCHANGED job
  BY DEF People!BeginLogin, People!BeginCallback, People!BeginRegister, People!Eligible,
     People!HasRow
<1> DEFINE t == People!SignIn(op, m, s)
<1>2. Begun(r, t)
  BY <1>1 DEF People!Begin, Begun, People!db
<1>3. t \in People!Txn /\ t.op = op /\ t.m = m
  BY DEF People!Txn, People!SignIn
<1> HIDE DEF t
<1>4. Checked(r, t)
  BY <1>1, <1>3 DEF Checked
<1> QED BY <1>2, <1>4

\* The live sessions a sign-in opened for m.
SignedIn(m) == {s \in People!Live(m) : sess[s].by = "sign_in"}

\* Who it is about: a session of SignedIn is a live row of m.
LEMMA SignedInIs ==
    ASSUME NEW m, NEW s
    PROVE  s \in SignedIn(m) <=> /\ s \in Sessions /\ sess[s] # None /\ sess[s].of = m
                                 /\ sess[s].status = "active" /\ sess[s].by = "sign_in"
BY DEF SignedIn, People!Live, People!SessionsOf

\* Revoking some sessions: those are no longer live, the others are as they were.
LEMMA RevokedSigned ==
    ASSUME Registry, Tables, NEW S, sess' = People!Revoked(S)
    PROVE  /\ sess' \in [Sessions -> {None} \cup People!Sess]
           /\ \A s \in Sessions : sess'[s] # None => sess[s] # None /\ sess'[s].of = sess[s].of
           /\ \A m : \A s \in SignedIn(m)' : s \in SignedIn(m) /\ s \notin S
<1>1. \A s \in Sessions : /\ sess'[s] \in {None} \cup People!Sess
                          /\ sess'[s] # None <=> sess[s] # None
                          /\ sess[s] # None =>
                                /\ sess'[s].of = sess[s].of /\ sess'[s].by = sess[s].by
                                /\ s \in S => sess'[s].status = "revoked"
                                /\ s \notin S => sess'[s].status = sess[s].status
  BY RevokedKeeps
<1>2. sess' = [s \in Sessions |-> sess'[s]]
  BY DEF People!Revoked
<1>3. sess' \in [Sessions -> {None} \cup People!Sess]
  BY <1>1, <1>2
<1>4. ASSUME NEW m, NEW s \in SignedIn(m)'
      PROVE  s \in SignedIn(m) /\ s \notin S
  <2>1. /\ s \in Sessions /\ sess'[s] # None /\ sess'[s].of = m
        /\ sess'[s].status = "active" /\ sess'[s].by = "sign_in"
    BY <1>4 DEF SignedIn, People!Live, People!SessionsOf
  <2>2. sess[s] # None /\ sess[s].of = m /\ sess[s].by = "sign_in"
    BY <1>1, <2>1
  <2>3. s \notin S /\ sess[s].status = "active"
    BY <1>1, <2>1, <2>2
  <2> QED BY <2>1, <2>2, <2>3, SignedInIs
<1>5. \A m : \A s \in SignedIn(m)' : s \in SignedIn(m) /\ s \notin S
  BY <1>4
<1> QED BY <1>1, <1>3, <1>5

\* A step that takes no request further: rows appear as active, administrators
\* are added, sessions of a sign-in end.
Calmly ==
    /\ txn' = txn /\ job' = job
    /\ \A m \in Members : member'[m] = member[m] \/ (member[m] = "none" /\ member'[m] = "active")
    /\ admin \subseteq admin'
    /\ \A m \in Members : \A s \in SignedIn(m)' : s \in SignedIn(m)

\* create, bulk_create, create_admin.
LEMMA CreatesCalmly ==
    ASSUME Registry, Tables, NEW a, NEW m \in Members,
           People!Provision(m) \/ People!CreateMember(a, m) \/ People!CreateLine(a, m)
    PROVE  Tables' /\ Calmly
<1>1. /\ sess' = sess /\ rules' = rules /\ txn' = txn /\ job' = job
      /\ whitelist' \subseteq whitelist \cup {m}
      /\ admin' = admin \/ admin' = admin \cup {m}
      /\ (member' = [member EXCEPT ![m] = "active"] /\ member[m] = "none") \/ member' = member
  BY DEF People!Provision, People!CreateMember, People!CreateLine, People!Create, People!HasRow,
     Tables
<1>2. SignedIn(m)' = SignedIn(m)
  BY <1>1 DEF SignedIn, People!Live, People!SessionsOf
<1>3. Calmly
  BY <1>1 DEF Calmly, Tables, SignedIn, People!Live, People!SessionsOf
<1>4. \A s \in Sessions : sess[s] # None => sess[s].of \in Members
  BY DEF Tables, People!Sess
<1>5. Tables'
  BY <1>1, <1>4 DEF Tables
<1> QED BY <1>3, <1>5

\* The policy; sessions that end; an invitation.
LEMMA OthersCalmly ==
    ASSUME Registry, Tables, NEW a, NEW m \in Members, NEW s \in Sessions,
           People!EditPolicy(a, m) \/ People!RevokeSessions(a, m) \/ People!Logout(s) \/ People!Lapse(s) \/ People!AcceptInvitation(m, s)
    PROVE  Tables' /\ Calmly
<1>1. CASE People!EditPolicy(a, m)
  <2>1. /\ UNCHANGED <<member, admin, sess, txn, job>>
        /\ rules' \subseteq rules \cup {m} /\ whitelist' \subseteq whitelist \cup {m}
    BY <1>1 DEF People!EditPolicy, People!EditWhitelist, People!EditRules
  <2>2. Tables'
    BY <2>1 DEF Tables
  <2>3. Calmly
    BY <2>1 DEF Calmly, SignedIn, People!Live, People!SessionsOf
  <2> QED BY <2>2, <2>3
<1>2. CASE People!RevokeSessions(a, m) \/ People!Logout(s) \/ People!Lapse(s)
  <2>1. /\ UNCHANGED <<member, admin, rules, whitelist, txn, job>>
        /\ \E S : sess' = People!Revoked(S)
    BY <1>2 DEF People!RevokeSessions, People!Logout, People!Lapse
  <2>2. /\ sess' \in [Sessions -> {None} \cup People!Sess]
        /\ \A z \in Sessions : sess'[z] # None => sess[z] # None /\ sess'[z].of = sess[z].of
        /\ \A q : \A z \in SignedIn(q)' : z \in SignedIn(q)
    BY <2>1, RevokedSigned
  <2>3. Tables'
    BY <2>1, <2>2 DEF Tables
  <2>4. Calmly
    BY <2>1, <2>2 DEF Calmly
  <2> QED BY <2>3, <2>4
<1>3. CASE People!AcceptInvitation(m, s)
  <2> DEFINE w == [of |-> m, status |-> "active", by |-> "invitation"]
  <2>1. /\ UNCHANGED <<member, admin, rules, whitelist, txn, job>> /\ member[m] # "none"
        /\ sess' = [sess EXCEPT ![s] = w]
    BY <1>3 DEF People!AcceptInvitation, People!OpenSession, People!HasRow
  <2>2. w \in People!Sess /\ w.of = m /\ w.by = "invitation"
    BY DEF People!Sess
  <2> HIDE DEF w
  <2>3. Tables'
    BY <2>1, <2>2 DEF Tables
  <2>4. ASSUME NEW q, NEW z \in SignedIn(q)' PROVE z \in SignedIn(q)
    <3>1. z \in Sessions /\ z # s
      BY <2>1, <2>2, <2>4 DEF Tables, SignedIn, People!Live, People!SessionsOf
    <3> QED BY <2>1, <2>4, <3>1 DEF Tables, SignedIn, People!Live, People!SessionsOf
  <2>5. Calmly
    BY <2>1, <2>4 DEF Calmly
  <2> QED BY <2>3, <2>5
<1> QED BY <1>1, <1>2, <1>3

\* The transaction of r ends, and job' is what the step says.
Ended(r) == txn[r] # People!Idle /\ txn' = [txn EXCEPT ![r] = People!Idle]

\* What update, set_is_admin and revoke_all_for_member write: the row of one
\* member, and the sessions that were seen.
LEMMA WriteEffect ==
    ASSUME Registry, Tables, NEW t \in People!Txn, People!Write(t)
    PROVE  /\ member' \in [Members -> {"none", "active", "disabled"}]
           /\ \A m \in Members : m # t.m => member'[m] = member[m]
           /\ t.status = None => member'[t.m] = member[t.m]
           /\ t.status # None => member'[t.m] = t.status
           /\ admin' \subseteq Members /\ admin \ {t.m} \subseteq admin'
           /\ ~ No(t.admin) => admin \subseteq admin'
           /\ UNCHANGED <<rules, whitelist>>
           /\ sess' \in [Sessions -> {None} \cup People!Sess]
           /\ \A s \in Sessions : sess'[s] # None => member'[sess'[s].of] # "none"
           /\ \A m \in Members : \A s \in SignedIn(m)' : s \in SignedIn(m) /\ s \notin t.revokes
<1>1. /\ t.m \in Members /\ t.status \in {"active", "disabled", None} /\ t.admin \in BOOLEAN \cup {None}
      /\ member[t.m] # "none"
      /\ member' = IF t.status = None THEN member ELSE [member EXCEPT ![t.m] = t.status]
      /\ admin' = IF t.admin = None THEN admin ELSE IF t.admin THEN admin \cup {t.m} ELSE admin \ {t.m}
      /\ sess' = People!Revoked(t.revokes) /\ UNCHANGED <<rules, whitelist>>
  BY DEF People!Write, People!HasRow, People!Txn
<1>2. /\ member' \in [Members -> {"none", "active", "disabled"}]
      /\ \A m \in Members : m # t.m => member'[m] = member[m]
      /\ t.status = None => member'[t.m] = member[t.m]
      /\ t.status # None => member'[t.m] = t.status
      /\ \A m \in Members : member[m] # "none" => member'[m] # "none"
  <2>1. CASE t.status = None
    BY <1>1, <2>1 DEF Tables
  <2>2. CASE t.status # None
    BY <1>1, <2>2 DEF Tables
  <2> QED BY <2>1, <2>2
<1>3. admin' \subseteq Members /\ admin \ {t.m} \subseteq admin' /\ (~ No(t.admin) => admin \subseteq admin')
  <2>1. CASE t.admin = None
    BY <1>1, <2>1 DEF Tables
  <2>2. CASE t.admin \in BOOLEAN
    <3>1. t.admin # None
      BY <2>2 DEF Registry
    <3>2. CASE t.admin
      BY <1>1, <3>1, <3>2 DEF Tables
    <3>3. CASE ~ t.admin
      <4>1. t.admin = FALSE
        BY <2>2, <3>3
      <4>2. admin' = admin \ {t.m}
        BY <1>1, <3>1, <3>3
      <4>3. No(t.admin)
        BY <4>1 DEF No
      <4> QED BY <4>2, <4>3 DEF Tables
    <3> QED BY <3>2, <3>3
  <2> QED BY <1>1, <2>1, <2>2
<1>4. /\ sess' \in [Sessions -> {None} \cup People!Sess]
      /\ \A s \in Sessions : sess'[s] # None => sess[s] # None /\ sess'[s].of = sess[s].of
      /\ \A m : \A s \in SignedIn(m)' : s \in SignedIn(m) /\ s \notin t.revokes
  BY <1>1, RevokedSigned
<1>5. \A s \in Sessions : sess[s] # None => sess[s].of \in Members /\ member[sess[s].of] # "none"
  BY DEF Tables, People!Sess
<1>6. \A s \in Sessions : sess'[s] # None => member'[sess'[s].of] # "none"
  BY <1>2, <1>4, <1>5
<1> QED BY <1>1, <1>2, <1>3, <1>4, <1>6

\* A job whose list has lost an item.
Shrunk(r) ==
    /\ job'[r].status = job[r].status /\ job'[r].todo \subseteq job[r].todo
    /\ \A q \in Reqs : q # r => job'[q] = job[q]

\* Done: the item goes from the list, and from the snapshot of a disabling.
LEMMA DoneEffect ==
    ASSUME Registry, Tables, NEW r \in Reqs, NEW m \in Members, People!Done(r, m)
    PROVE  /\ job' \in [Reqs -> People!Job] /\ Shrunk(r)
           /\ job[r].status = "disabled" => job'[r].pool = job[r].pool \ {m}
           /\ job[r].status # "disabled" => job'[r].pool = job[r].pool
<1> DEFINE pool == IF job[r].status = "disabled" THEN job[r].pool \ {m} ELSE job[r].pool
           w == [job[r] EXCEPT !.todo = job[r].todo \ {m}, !.pool = pool]
<1>1. job[r] \in People!Job /\ job \in [Reqs -> People!Job]
  BY DEF Tables
<1>2. job' = [job EXCEPT ![r] = w]
  BY <1>1 DEF People!Done, People!Job
<1>3. /\ w \in People!Job /\ w.status = job[r].status /\ w.todo = job[r].todo \ {m} /\ w.pool = pool
  BY <1>1 DEF People!Job
<1>4. /\ job[r].status = "disabled" => pool = job[r].pool \ {m}
      /\ job[r].status # "disabled" => pool = job[r].pool
  OBVIOUS
<1> HIDE DEF w, pool
<1> QED BY <1>1, <1>2, <1>3, <1>4 DEF Shrunk

\* A change between the items of a job.
Bookkeeping(r) ==
    /\ txn[r] = People!Idle /\ txn' = txn /\ UNCHANGED <<member, admin, sess, rules, whitelist>>

\* bulk_status takes its snapshot.
LEMMA StartEffect ==
    ASSUME Registry, Tables, NEW r \in Reqs, NEW a, NEW S \in SUBSET Members,
           NEW status \in {"active", "disabled"}, People!StartBulk(r, a, S, status)
    PROVE  /\ Bookkeeping(r) /\ r \in Bulks /\ job' \in [Reqs -> People!Job]
           /\ \A q \in Reqs : q # r => job'[q] = job[q]
           /\ job'[r].status = "disabled" => job'[r].pool = People!ActiveAdmins
<1> DEFINE w == [status |-> status, todo |-> S, pool |-> IF status = "disabled" THEN People!ActiveAdmins ELSE {}]
<1>1. /\ Bookkeeping(r) /\ r \in Bulks /\ job' = [job EXCEPT ![r] = w]
  BY DEF People!StartBulk, Bookkeeping, People!db
<1>2. People!ActiveAdmins \in SUBSET Members
  BY FewAdmins
<1>3. w \in People!Job /\ w.status = status /\ (status = "disabled" => w.pool = People!ActiveAdmins)
  BY <1>2 DEF People!Job
<1> HIDE DEF w
<1> QED BY <1>1, <1>3 DEF Tables

\* An item is skipped, or has the status already: no active administrator leaves
\* the snapshot.
LEMMA SkipEffect ==
    ASSUME Registry, Tables, NEW r \in Reqs, NEW m \in Members,
           People!SkipItem(r, m) \/ People!NothingToDo(r, m)
    PROVE  /\ Bookkeeping(r) /\ job' \in [Reqs -> People!Job] /\ Shrunk(r)
           /\ job[r].pool \cap People!ActiveAdmins \subseteq job'[r].pool /\ job'[r].pool \subseteq job[r].pool
<1>1. CASE People!SkipItem(r, m)
  <2>1. Bookkeeping(r) /\ job' = [job EXCEPT ![r].todo = job[r].todo \ {m}] /\ job[r] \in People!Job
    BY <1>1 DEF People!SkipItem, Bookkeeping, People!db, Tables
  <2>2. LET w == [job[r] EXCEPT !.todo = job[r].todo \ {m}]
        IN  w \in People!Job /\ w.status = job[r].status /\ w.todo \subseteq job[r].todo /\ w.pool = job[r].pool
    BY <2>1 DEF People!Job
  <2> QED BY <2>1, <2>2 DEF Tables, Shrunk
<1>2. CASE People!NothingToDo(r, m)
  <2>1. Bookkeeping(r) /\ People!Done(r, m) /\ ~ People!Changes("bulk", m, job[r].status, None)
    BY <1>2 DEF People!NothingToDo, Bookkeeping, People!db
  <2>2. job[r].status \in {"active", "disabled"}
    BY DEF Tables, People!Job
  <2>3. job[r].status = "disabled" => m \notin People!ActiveAdmins
    <3> DEFINE t == People!Change("bulk", m, job[r].status, None)
    <3>1. t.status = None
      BY <2>1 DEF People!Changes
    <3>0. t = People!Change("bulk", m, job[r].status, None)
      OBVIOUS
    <3> HIDE DEF t
    <3>2. t.status = IF job[r].status = member[m] THEN None ELSE job[r].status
      BY <2>2, <3>0, ChangeTyped
    <3>3. job[r].status = member[m]
      BY <2>2, <3>1, <3>2 DEF Registry
    <3> QED BY <3>3 DEF People!ActiveAdmins
  <2> QED BY <2>1, <2>3, DoneEffect
<1> QED BY <1>1, <1>2

\* A rollback: a bulk job goes on without the item.
LEMMA AbortEffect ==
    ASSUME Registry, Tables, NEW r \in Reqs, People!Abort(r)
    PROVE  /\ Ended(r) /\ UNCHANGED <<member, admin, sess, rules, whitelist>>
           /\ job' \in [Reqs -> People!Job] /\ Shrunk(r) /\ job'[r].pool = job[r].pool
<1>1. /\ Ended(r) /\ UNCHANGED <<member, admin, sess, rules, whitelist>> /\ job[r] \in People!Job
      /\ job' = [job EXCEPT ![r].todo = job[r].todo \ {txn[r].m}]
  BY DEF People!Abort, Ended, People!db, Tables
<1>2. LET w == [job[r] EXCEPT !.todo = job[r].todo \ {txn[r].m}]
      IN  w \in People!Job /\ w.status = job[r].status /\ w.todo \subseteq job[r].todo /\ w.pool = job[r].pool
  BY <1>1 DEF People!Job
<1> QED BY <1>1, <1>2 DEF Tables, Shrunk

\* A transaction that ends leaves the others in flight.
LEMMA EndedTyped ==
    ASSUME Registry, Tables, NEW r \in Reqs, Ended(r)
    PROVE  /\ txn' \in [Reqs -> {People!Idle} \cup People!Txn] /\ txn'[r] = People!Idle /\ txn[r] \in People!Txn
           /\ \A q \in Reqs : q # r => txn'[q] = txn[q]
BY DEF Ended, Tables

\* delete: the row, the flag and the sessions of one member are gone.
LEMMA DeleteEffect ==
    ASSUME Registry, Tables, NEW r \in Reqs, People!CommitDelete(r)
    PROVE  /\ Ended(r) /\ txn[r].op = "delete" /\ job' = job /\ Tables'
           /\ member'[txn[r].m] = "none" /\ admin \ {txn[r].m} \subseteq admin'
           /\ \A q \in Members : q # txn[r].m => member'[q] = member[q]
           /\ \A q \in Members : \A s \in SignedIn(q)' : s \in SignedIn(q) /\ q # txn[r].m
<1>1. PICK m \in Members :
        /\ m = txn[r].m /\ Ended(r) /\ txn[r].op = "delete"
        /\ member' = [member EXCEPT ![m] = "none"] /\ admin' = admin \ {m}
        /\ sess' = [s \in Sessions |-> IF s \in People!SessionsOf(m) THEN None ELSE sess[s]]
        /\ UNCHANGED <<rules, whitelist, job>>
  BY TxnHeld DEF People!CommitDelete, People!Ends, Ended
<1>2. \A s \in Sessions : sess'[s] # None => sess'[s] = sess[s] /\ sess[s].of # m
  BY <1>1 DEF People!SessionsOf
<1>3. ASSUME NEW q \in Members, NEW s \in SignedIn(q)'
      PROVE  s \in SignedIn(q) /\ q # m
  <2>1. s \in Sessions /\ sess'[s] # None /\ sess'[s].of = q /\ sess'[s].status = "active"
        /\ sess'[s].by = "sign_in"
    BY <1>3 DEF SignedIn, People!Live, People!SessionsOf
  <2> QED BY <1>2, <2>1, SignedInIs
<1>4. txn' \in [Reqs -> {People!Idle} \cup People!Txn]
  BY <1>1, EndedTyped
<1>5. \A s \in Sessions : sess[s] # None => sess[s].of \in Members
  BY DEF Tables, People!Sess
<1>6. sess' \in [Sessions -> {None} \cup People!Sess]
  BY <1>1, <1>2 DEF Tables
<1>7. Tables'
  BY <1>1, <1>2, <1>4, <1>5, <1>6 DEF Tables
<1> QED BY <1>1, <1>3, <1>7 DEF Tables

\* A session of m, and the row if there was none.
LEMMA OpenEffect ==
    ASSUME Registry, Tables, NEW r \in Reqs, People!CommitSignIn(r) \/ People!CommitRegister(r)
    PROVE  /\ Ended(r) /\ txn[r].op \in {"sign_in", "register"} /\ job' = job /\ Tables'
           /\ admin' = admin
           /\ member'[txn[r].m] = member[txn[r].m] \/ member'[txn[r].m] = "active"
           /\ \A q \in Members : q # txn[r].m => member'[q] = member[q]
           /\ \A q \in Members : q # txn[r].m => \A s \in SignedIn(q)' : s \in SignedIn(q)
<1> DEFINE t == txn[r]
<1>1. /\ Ended(r) /\ txn[r].op \in {"sign_in", "register"}
      /\ People!OpenSession(txn[r].s, txn[r].m, "sign_in")
      /\ (member' = member /\ member[txn[r].m] # "none")
         \/ member' = [member EXCEPT ![txn[r].m] = "active"]
      /\ UNCHANGED <<admin, rules, whitelist, job>>
  BY DEF People!CommitSignIn, People!CommitRegister, People!Ends, Ended, People!HasRow
<1>2. txn[r].m \in Members
  BY <1>1, TxnHeld DEF Ended
<1>3. PICK m \in Members : m = txn[r].m
  BY <1>2
<1>0. PICK x : x = txn[r].s
  OBVIOUS
<1> DEFINE w == [of |-> m, status |-> "active", by |-> "sign_in"]
<1>4. sess' = [sess EXCEPT ![x] = w]
  BY <1>0, <1>1, <1>3 DEF People!OpenSession
<1>5. w \in People!Sess /\ w.of = m
  BY DEF People!Sess
<1> HIDE DEF w
<1>6. /\ member' \in [Members -> {"none", "active", "disabled"}]
      /\ member'[m] # "none" /\ (member'[m] = member[m] \/ member'[m] = "active")
      /\ \A q \in Members : q # m => member'[q] = member[q]
  BY <1>1, <1>3 DEF Tables
<1>7. \A s \in Sessions : sess'[s] = sess[s] \/ sess'[s] = w
  BY <1>4 DEF Tables
<1>8. txn' \in [Reqs -> {People!Idle} \cup People!Txn]
  BY <1>1, EndedTyped
<1>9. \A s \in Sessions : sess[s] # None => sess[s].of \in Members /\ member[sess[s].of] # "none"
  BY DEF Tables, People!Sess
<1>10. \A s \in Sessions : sess'[s] # None => member'[sess'[s].of] # "none"
  BY <1>5, <1>6, <1>7, <1>9
<1>11. sess' \in [Sessions -> {None} \cup People!Sess]
  BY <1>4, <1>5 DEF Tables
<1>12. Tables'
  BY <1>1, <1>6, <1>8, <1>10, <1>11 DEF Tables
<1>13. ASSUME NEW q \in Members, q # m, NEW s \in SignedIn(q)'
       PROVE  s \in SignedIn(q)
  <2>1. s \in Sessions /\ sess'[s] # None /\ sess'[s].of = q /\ sess'[s].status = "active"
        /\ sess'[s].by = "sign_in"
    BY <1>13 DEF SignedIn, People!Live, People!SessionsOf
  <2> QED BY <1>5, <1>7, <1>13, <2>1, SignedInIs
<1> QED BY <1>1, <1>3, <1>6, <1>12, <1>13

\* A PATCH or an item of a job is written.
LEMMA UpdateEffect ==
    ASSUME Registry, Tables, NEW r \in Reqs, People!CommitPatch(r) \/ People!CommitItem(r)
    PROVE  /\ Ended(r) /\ Tables' /\ People!Write(txn[r])
           /\ \/ txn[r].op = "patch" /\ job' = job
              \/ /\ txn[r].op = "bulk" /\ Shrunk(r)
                 /\ job[r].status = "disabled" => job'[r].pool = job[r].pool \ {txn[r].m}
                 /\ job[r].status # "disabled" => job'[r].pool = job[r].pool
<1>1. Ended(r) /\ People!Write(txn[r]) /\ txn[r] \in People!Txn
  BY EndedTyped DEF People!CommitPatch, People!CommitItem, People!Ends, Ended
<1>2. /\ job' \in [Reqs -> People!Job]
      /\ \/ txn[r].op = "patch" /\ job' = job
         \/ /\ txn[r].op = "bulk" /\ Shrunk(r)
            /\ job[r].status = "disabled" => job'[r].pool = job[r].pool \ {txn[r].m}
            /\ job[r].status # "disabled" => job'[r].pool = job[r].pool
  <2>1. CASE People!CommitPatch(r)
    BY <2>1 DEF People!CommitPatch, People!Ends, Tables
  <2>2. CASE People!CommitItem(r)
    <3>1. txn[r].op = "bulk" /\ txn[r].m \in Members /\ People!Done(r, txn[r].m)
      BY <1>1, <2>2, TxnHeld DEF People!CommitItem, People!Ends, Ended
    <3> QED BY <3>1, DoneEffect
  <2> QED BY <2>1, <2>2
<1>3. txn' \in [Reqs -> {People!Idle} \cup People!Txn]
  BY <1>1, EndedTyped
<1>4. Tables'
  <2>1. /\ member' \in [Members -> {"none", "active", "disabled"}]
        /\ admin' \subseteq Members
        /\ UNCHANGED <<rules, whitelist>>
        /\ sess' \in [Sessions -> {None} \cup People!Sess]
        /\ \A s \in Sessions : sess'[s] # None => member'[sess'[s].of] # "none"
    BY <1>1, WriteEffect
  <2> QED BY <1>2, <1>3, <2>1 DEF Tables
<1> QED BY <1>1, <1>2, <1>4

\* A transaction begins, a job is at hand, or one rolls back: the tables stay.
LEMMA OthersTyped ==
    ASSUME Registry, Tables, NEW r \in Reqs,
           \/ \E t : Begun(r, t) /\ Checked(r, t)
           \/ Bookkeeping(r) /\ job' \in [Reqs -> People!Job]
           \/ /\ Ended(r) /\ UNCHANGED <<member, admin, sess, rules, whitelist>>
              /\ job' \in [Reqs -> People!Job]
    PROVE  Tables'
<1>1. UNCHANGED <<member, admin, sess, rules, whitelist>> /\ job' \in [Reqs -> People!Job]
  BY DEF Begun, Bookkeeping, Tables
<1>2. txn' \in [Reqs -> {People!Idle} \cup People!Txn]
  BY EndedTyped DEF Begun, Checked, Bookkeeping, Tables
<1> QED BY <1>1, <1>2 DEF Tables

\* The kinds of a step, by what it does to the requests.
Kinds(r) ==
    \/ \E t : Begun(r, t) /\ Checked(r, t)
    \/ \E a : \E S \in SUBSET Members, status \in {"active", "disabled"} : People!StartBulk(r, a, S, status)
    \/ \E m \in Members : People!SkipItem(r, m) \/ People!NothingToDo(r, m)
    \/ People!CommitPatch(r) \/ People!CommitItem(r)
    \/ People!CommitDelete(r)
    \/ People!CommitSignIn(r) \/ People!CommitRegister(r)
    \/ People!Abort(r)
LEMMA StepKinds ==
    ASSUME Registry, Tables, People!Step
    PROVE  Tables' /\ (Calmly \/ \E r \in Reqs : Kinds(r))
<1>1. CASE \E m \in Members : People!Provision(m)
  BY <1>1, CreatesCalmly
<1>2. CASE \E a \in Members \cup Tokens, m \in Members : People!CreateMember(a, m) \/ People!CreateLine(a, m)
  BY <1>2, CreatesCalmly
<1>3. ASSUME NEW a \in Members \cup Tokens, NEW m \in Members,
             People!EditPolicy(a, m) \/ People!RevokeSessions(a, m)
      PROVE  Tables' /\ Calmly
  <2>1. CASE People!EditPolicy(a, m)
    <3>1. /\ UNCHANGED <<member, admin, sess, txn, job>>
          /\ rules' \subseteq rules \cup {m} /\ whitelist' \subseteq whitelist \cup {m}
      BY <2>1 DEF People!EditPolicy, People!EditWhitelist, People!EditRules
    <3> QED BY <3>1 DEF Tables, Calmly, SignedIn, People!Live, People!SessionsOf
  <2>2. CASE People!RevokeSessions(a, m)
    <3>1. PICK s \in Sessions : TRUE
      BY <2>2 DEF People!RevokeSessions, People!Live, People!SessionsOf
    <3> QED BY <2>2, <3>1, OthersCalmly
  <2> QED BY <1>3, <2>1, <2>2
<1>4. CASE \E m \in Members, s \in Sessions : People!AcceptInvitation(m, s)
  BY <1>4, OthersCalmly
<1>5. ASSUME NEW s \in Sessions, People!Logout(s) \/ People!Lapse(s)
      PROVE  Tables' /\ Calmly
  <2>1. PICK m \in Members : TRUE
    BY <1>5 DEF People!Logout, People!Lapse, Tables, People!Sess
  <2> QED BY <1>5, <2>1, OthersCalmly
<1>6. ASSUME NEW r \in Reqs, Kinds(r)
      PROVE  Tables'
  <2>1. ASSUME NEW a, NEW S \in SUBSET Members, NEW status \in {"active", "disabled"},
               People!StartBulk(r, a, S, status)
        PROVE  Bookkeeping(r) /\ job' \in [Reqs -> People!Job]
    BY <2>1, StartEffect
  <2>2. ASSUME NEW m \in Members, People!SkipItem(r, m) \/ People!NothingToDo(r, m)
        PROVE  Bookkeeping(r) /\ job' \in [Reqs -> People!Job]
    BY <2>2, SkipEffect
  <2>3. People!Abort(r) => /\ Ended(r) /\ UNCHANGED <<member, admin, sess, rules, whitelist>>
                    /\ job' \in [Reqs -> People!Job]
    BY AbortEffect
  <2> QED BY <1>6, <2>1, <2>2, <2>3, OthersTyped, UpdateEffect, DeleteEffect, OpenEffect DEF Kinds
<1>7. ASSUME NEW r \in Reqs, NEW m \in Members,
             \/ \E a \in Members \cup Tokens :
                   \/ \E status \in {"active", "disabled", None}, adm \in BOOLEAN \cup {None} :
                         People!BeginPatch(r, a, m, status, adm)
                   \/ People!BeginDelete(r, a, m) \/ People!BeginDeleteItem(r, a, m)
             \/ People!BeginItem(r, m)
             \/ \E s \in Sessions : People!BeginLogin(r, m, s) \/ People!BeginCallback(r, m, s) \/ People!BeginRegister(r, m, s)
      PROVE  \E t : Begun(r, t) /\ Checked(r, t)
  BY <1>7, PatchChecked, DeleteChecked, ItemChecked, SignInChecked
<1>8. ASSUME NEW r \in Reqs, NEW a, NEW S \in SUBSET Members,
             NEW status \in {"active", "disabled"},
             People!StartBulk(r, a, S, status)
      PROVE  Kinds(r)
  BY <1>8 DEF Kinds
<1>9. ASSUME NEW r \in Reqs, \/ \E t : Begun(r, t) /\ Checked(r, t)
                             \/ \E m \in Members : People!SkipItem(r, m) \/ People!NothingToDo(r, m)
                             \/ People!CommitPatch(r) \/ People!CommitItem(r) \/ People!CommitDelete(r)
                             \/ People!CommitSignIn(r) \/ People!CommitRegister(r) \/ People!Abort(r)
      PROVE  Kinds(r)
  BY <1>9 DEF Kinds
<1> QED BY <1>1, <1>2, <1>3, <1>4, <1>5, <1>6, <1>7, <1>8, <1>9 DEF People!Step

\* A request has a job or a transaction, and the transaction of a job is its item.
JobFits(r) ==
    /\ r \notin Bulks => job[r].todo = {}
    /\ txn[r] # People!Idle /\ txn[r].op # "bulk" => job[r].todo = {}
    /\ txn[r] # People!Idle /\ txn[r].op = "bulk" =>
          /\ txn[r].m \in job[r].todo
          /\ txn[r].status = job[r].status /\ txn[r].admin = None
JobsFit == \A r \in Reqs : JobFits(r)

\* Whatever a step does to the requests, jobs and transactions still fit.
LEMMA JobsFitKept ==
    ASSUME Registry, Tables, JobsFit, Calmly \/ \E r \in Reqs : Kinds(r)
    PROVE  JobsFit'
<1>1. CASE Calmly
  BY <1>1 DEF Calmly, JobsFit, JobFits
<1>2. ASSUME NEW r \in Reqs, Kinds(r)
      PROVE  JobsFit'
  <2>1. ASSUME NEW t, Begun(r, t), Checked(r, t)
        PROVE  JobsFit'
    <3>1. txn'[r] = t /\ job' = job /\ \A q \in Reqs : q # r => txn'[q] = txn[q]
      BY <2>1 DEF Begun, Tables
    <3>2. JobFits(r)'
      BY <2>1, <3>1 DEF Checked, JobsFit, JobFits
    <3> QED BY <3>1, <3>2 DEF JobsFit, JobFits
  <2>2. ASSUME txn'[r] = People!Idle, job'[r].todo \subseteq job[r].todo \/ r \in Bulks,
               \A q \in Reqs : q # r => txn'[q] = txn[q] /\ job'[q] = job[q]
        PROVE  JobsFit'
    <3>1. JobFits(r)'
      BY <2>2 DEF JobsFit, JobFits
    <3> QED BY <2>2, <3>1 DEF JobsFit, JobFits
  <2>3. ASSUME NEW a, NEW S \in SUBSET Members, NEW status \in {"active", "disabled"},
               People!StartBulk(r, a, S, status)
        PROVE  JobsFit'
    BY <2>2, <2>3, StartEffect DEF Bookkeeping
  <2>4. ASSUME NEW m \in Members, People!SkipItem(r, m) \/ People!NothingToDo(r, m)
        PROVE  JobsFit'
    BY <2>2, <2>4, SkipEffect DEF Bookkeeping, Shrunk
  <2>5. ASSUME People!CommitPatch(r) \/ People!CommitItem(r)
        PROVE  JobsFit'
    <3>1. Ended(r) /\ (job' = job \/ Shrunk(r))
      BY <2>5, UpdateEffect
    <3> QED BY <2>2, <3>1, EndedTyped DEF Shrunk
  <2>6. ASSUME People!CommitDelete(r) \/ People!CommitSignIn(r) \/ People!CommitRegister(r)
        PROVE  JobsFit'
    <3>1. Ended(r) /\ job' = job
      BY <2>6, DeleteEffect, OpenEffect
    <3> QED BY <2>2, <3>1, EndedTyped
  <2>7. ASSUME People!Abort(r)
        PROVE  JobsFit'
    <3>1. Ended(r) /\ Shrunk(r)
      BY <2>7, AbortEffect
    <3> QED BY <2>2, <3>1, EndedTyped DEF Shrunk
  <2> QED BY <1>2, <2>1, <2>3, <2>4, <2>5, <2>6, <2>7 DEF Kinds
<1> QED BY <1>1, <1>2

\* The guards of a request leave an administrator: another than the one it takes
\* away; or, for the rest of a job, one of its snapshot.
Spare(r) ==
    /\ People!InFlight(r, {"delete"}) \/ (People!InFlight(r, {"patch"}) /\ txn[r].admin = FALSE) =>
          People!ActiveAdmins \ {txn[r].m} # {}
    /\ job[r].todo # {} /\ job[r].status = "disabled" =>
          /\ job[r].pool \subseteq People!ActiveAdmins /\ job[r].pool # {}
          /\ People!InFlight(r, {"bulk"}) => job[r].pool \ {txn[r].m} # {}
Protected ==
    guarded => /\ People!ActiveAdmins # {} /\ ~ People!Unguarded
               /\ \A r, q \in People!Reducers : r = q
               /\ \A r \in Reqs : Spare(r)

\* A request that takes nobody away has nothing to spare.
LEMMA SpareIdle ==
    ASSUME NEW r \in Reqs, r \notin People!Reducers
    PROVE  Spare(r)
BY DEF Spare, People!Reducers

\* While the guards decide, they decide about one request at a time.
LEMMA GuardAlone ==
    ASSUME Registry, People!Guard, guarded'
    PROVE  /\ ~ People!Unguarded'
           /\ \A r, q \in People!Reducers' : r = q
           /\ guarded \/ (People!ActiveAdmins' # {} /\ People!Reducers' = {})
<1>1. /\ ~ People!Unguarded' /\ ~ (People!Cardinality(People!Reducers') > 1)
      /\ guarded \/ (People!ActiveAdmins' # {} /\ People!Reducers' = {})
  BY DEF People!Guard
<1>2. ~ (Cardinality(People!Reducers') > 1)
  BY <1>1, SameSize
<1>3. IsFiniteSet(People!Reducers')
  BY FS_Subset DEF Registry, People!Reducers
<1>4. ASSUME NEW r \in People!Reducers', NEW q \in People!Reducers', r # q PROVE FALSE
  BY <1>2, <1>3, <1>4, TwoOf
<1> QED BY <1>1, <1>4

\* What a request spared is still there when no administrator has gone.
LEMMA SpareKept ==
    ASSUME NEW r \in Reqs, Spare(r), People!ActiveAdmins \subseteq People!ActiveAdmins',
           txn'[r] = txn[r] \/ txn'[r] = People!Idle,
           job'[r].status = job[r].status, job'[r].todo \subseteq job[r].todo, job'[r].pool = job[r].pool
    PROVE  Spare(r)'
<1>1. CASE txn'[r] = txn[r]
  BY <1>1 DEF Spare, People!InFlight
<1>2. CASE txn'[r] = People!Idle
  BY <1>2 DEF Spare, People!InFlight
<1> QED BY <1>1, <1>2

\* The administrators that are active: one kept its row and its flag.
LEMMA StillAdmin ==
    ASSUME Registry, Tables, NEW m \in Members, m \in People!ActiveAdmins, m \in admin',
           member'[m] = "active"
    PROVE  m \in People!ActiveAdmins'
BY DEF People!ActiveAdmins

\* A commit that takes nobody away, by the guards' or any other rules.
LEMMA UpdateKeeps ==
    ASSUME Registry, Tables, NEW t \in People!Txn, People!Write(t)
    PROVE  /\ People!ActiveAdmins \ {t.m} \subseteq People!ActiveAdmins'
           /\ t.status # "disabled" /\ ~ No(t.admin) => People!ActiveAdmins \subseteq People!ActiveAdmins'
<1>1. /\ \A m \in Members : m # t.m => member'[m] = member[m]
      /\ t.status = None => member'[t.m] = member[t.m]
      /\ t.status # None => member'[t.m] = t.status
      /\ admin \ {t.m} \subseteq admin' /\ (~ No(t.admin) => admin \subseteq admin')
  BY WriteEffect
<1>2. t.m \in Members /\ t.status \in {"active", "disabled", None}
  BY DEF People!Txn
<1>3. \A m \in People!ActiveAdmins : m \in Members /\ m \in admin /\ member[m] = "active"
  BY DEF People!ActiveAdmins, Tables
<1>4. ASSUME NEW m \in People!ActiveAdmins, m # t.m PROVE m \in People!ActiveAdmins'
  BY <1>1, <1>3, <1>4, StillAdmin
<1>5. ASSUME NEW m \in People!ActiveAdmins, t.status # "disabled", ~ No(t.admin) PROVE m \in People!ActiveAdmins'
  <2>1. member'[m] = "active" /\ m \in admin'
    BY <1>1, <1>2, <1>3, <1>5
  <2> QED BY <1>3, <2>1, StillAdmin
<1> QED BY <1>4, <1>5

\* The only request that takes an administrator away: the others spare everyone.
LEMMA OthersSpare ==
    ASSUME Protected, guarded, NEW r \in People!Reducers,
           \A q \in Reqs : q # r => txn'[q] = txn[q] /\ job'[q] = job[q]
    PROVE  \A q \in Reqs : q # r => Spare(q)'
<1> SUFFICES ASSUME NEW q \in Reqs, q # r PROVE Spare(q)'
  OBVIOUS
<1>1. q \notin People!Reducers /\ txn'[q] = txn[q] /\ job'[q] = job[q]
  BY DEF Protected
<1> QED BY <1>1 DEF People!Reducers, Spare, People!InFlight

\* Another step than a commit: the administrators stay, and so does what is spared.
LEMMA SparesBefore ==
    ASSUME Registry, Tables, JobsFit, Protected, guarded, NEW r \in Reqs,
           \/ \E t : Begun(r, t) /\ Checked(r, t)
           \/ \E a : \E S \in SUBSET Members, status \in {"active", "disabled"} : People!StartBulk(r, a, S, status)
           \/ \E m \in Members : People!SkipItem(r, m) \/ People!NothingToDo(r, m)
           \/ People!Abort(r)
    PROVE  People!ActiveAdmins' # {} /\ \A q \in Reqs : Spare(q)'
<1>0. People!ActiveAdmins # {} /\ \A q \in Reqs : Spare(q)
  BY DEF Protected
<1>1. UNCHANGED <<member, admin>> /\ \A q \in Reqs : q # r => txn'[q] = txn[q] /\ job'[q] = job[q]
  <2>1. ASSUME NEW a, NEW S \in SUBSET Members, NEW status \in {"active", "disabled"},
               People!StartBulk(r, a, S, status)
        PROVE  UNCHANGED <<member, admin, txn>> /\ \A q \in Reqs : q # r => job'[q] = job[q]
    BY <2>1, StartEffect DEF Bookkeeping
  <2>2. ASSUME NEW m \in Members, People!SkipItem(r, m) \/ People!NothingToDo(r, m)
        PROVE  UNCHANGED <<member, admin, txn>> /\ \A q \in Reqs : q # r => job'[q] = job[q]
    BY <2>2, SkipEffect DEF Bookkeeping, Shrunk
  <2>3. People!Abort(r) => /\ UNCHANGED <<member, admin>>
                    /\ \A q \in Reqs : q # r => txn'[q] = txn[q] /\ job'[q] = job[q]
    BY AbortEffect, EndedTyped DEF Shrunk
  <2>4. ASSUME NEW t, Begun(r, t)
        PROVE  UNCHANGED <<member, admin>> /\ \A q \in Reqs : q # r => txn'[q] = txn[q] /\ job'[q] = job[q]
    BY <2>4 DEF Begun, Tables
  <2> QED BY <2>1, <2>2, <2>3, <2>4
<1>2. People!ActiveAdmins' = People!ActiveAdmins
  BY <1>1 DEF People!ActiveAdmins
<1>3. \A q \in Reqs : q # r => Spare(q)'
  BY <1>0, <1>1, <1>2, SpareKept
<1>4. ASSUME NEW t, Begun(r, t), Checked(r, t)
      PROVE  Spare(r)'
  <2>1. txn'[r] = t /\ job' = job
    BY <1>4 DEF Begun, Tables
  <2>2. t.op = "delete" \/ (t.op = "patch" /\ t.admin = FALSE) => People!ActiveAdmins \ {t.m} # {}
    BY <1>0, <1>4 DEF Checked
  <2>3. job[r].todo # {} /\ job[r].status = "disabled" => job[r].pool \subseteq People!ActiveAdmins /\ job[r].pool # {}
    BY <1>0 DEF Spare
  <2>4. t.op = "bulk" => job[r].todo # {} /\ (t.m \notin job[r].pool \/ job[r].pool \ {t.m} # {})
    BY <1>4 DEF Checked
  <2>5. t.op = "bulk" /\ job[r].status = "disabled" => job[r].pool \ {t.m} # {}
    BY <2>3, <2>4
  <2> QED BY <1>2, <2>1, <2>2, <2>3, <2>5 DEF Spare, People!InFlight
<1>5. ASSUME NEW a, NEW S \in SUBSET Members, NEW status \in {"active", "disabled"},
             People!StartBulk(r, a, S, status)
      PROVE  Spare(r)'
  <2>1. txn'[r] = People!Idle /\ (job'[r].status = "disabled" => job'[r].pool = People!ActiveAdmins)
    BY <1>5, StartEffect DEF Bookkeeping
  <2> QED BY <1>0, <1>2, <2>1 DEF Spare, People!InFlight
<1>6. ASSUME NEW m \in Members, People!SkipItem(r, m) \/ People!NothingToDo(r, m)
      PROVE  Spare(r)'
  <2>1. /\ txn'[r] = People!Idle /\ job'[r].status = job[r].status /\ job'[r].todo \subseteq job[r].todo
        /\ job[r].pool \cap People!ActiveAdmins \subseteq job'[r].pool /\ job'[r].pool \subseteq job[r].pool
    BY <1>6, SkipEffect DEF Bookkeeping, Shrunk
  <2>2. job'[r].todo # {} /\ job'[r].status = "disabled" => job'[r].pool = job[r].pool
    BY <1>0, <2>1 DEF Spare
  <2>3. job'[r].todo # {} /\ job'[r].status = "disabled" =>
            job[r].pool \subseteq People!ActiveAdmins /\ job[r].pool # {}
    BY <1>0, <2>1 DEF Spare
  <2> QED BY <1>2, <2>1, <2>2, <2>3 DEF Spare, People!InFlight
<1>7. ASSUME People!Abort(r) PROVE Spare(r)'
  <2>1. Ended(r) /\ Shrunk(r) /\ job'[r].pool = job[r].pool
    BY <1>7, AbortEffect
  <2>2. txn'[r] = People!Idle
    BY <2>1, EndedTyped
  <2> QED BY <1>0, <1>2, <2>1, <2>2, SpareKept DEF Shrunk
<1>8. Spare(r)'
  BY <1>4, <1>5, <1>6, <1>7
<1> QED BY <1>0, <1>2, <1>3, <1>8

\* A commit takes away whom the guards have spared another for.
LEMMA SparesCommit ==
    ASSUME Registry, Tables, JobsFit, Protected, guarded, NEW r \in Reqs,
           \/ People!CommitPatch(r) \/ People!CommitItem(r) \/ People!CommitDelete(r)
           \/ People!CommitSignIn(r) \/ People!CommitRegister(r)
    PROVE  People!ActiveAdmins' # {} /\ \A q \in Reqs : Spare(q)'
<1>0. People!ActiveAdmins # {} /\ ~ People!Unguarded /\ \A q \in Reqs : Spare(q)
  BY DEF Protected
<1>1. Ended(r) /\ (job' = job \/ Shrunk(r))
  BY UpdateEffect, DeleteEffect, OpenEffect
<1>2. /\ txn[r] # People!Idle /\ txn[r] \in People!Txn /\ txn'[r] = People!Idle /\ job'[r].todo \subseteq job[r].todo
      /\ job'[r].status = job[r].status
      /\ \A q \in Reqs : q # r => txn'[q] = txn[q] /\ job'[q] = job[q]
  BY <1>1, EndedTyped DEF Shrunk, Ended
\* Nobody is taken away.
<1>3. ASSUME People!ActiveAdmins \subseteq People!ActiveAdmins',
             job'[r].todo = {} \/ job'[r].status # "disabled" \/ job' = job
      PROVE  People!ActiveAdmins' # {} /\ \A q \in Reqs : Spare(q)'
  <2>1. \A q \in Reqs : q # r => Spare(q)'
    BY <1>0, <1>2, <1>3, SpareKept
  <2>2. Spare(r)'
    <3>1. CASE job' = job
      BY <1>0, <1>2, <1>3, <3>1, SpareKept
    <3>2. CASE job'[r].todo = {} \/ job'[r].status # "disabled"
      BY <1>2, <3>2 DEF Spare, People!InFlight
    <3> QED BY <1>3, <3>1, <3>2
  <2> QED BY <1>0, <1>3, <2>1, <2>2
\* A demotion or a deletion.
<1>4. ASSUME r \in People!Reducers, txn[r].op # "bulk", job' = job,
             People!ActiveAdmins \ {txn[r].m} # {}, People!ActiveAdmins \ {txn[r].m} \subseteq People!ActiveAdmins'
      PROVE  People!ActiveAdmins' # {} /\ \A q \in Reqs : Spare(q)'
  <2>1. \A q \in Reqs : q # r => Spare(q)'
    BY <1>2, <1>4, OthersSpare
  <2>2. job'[r].todo = {}
    BY <1>2, <1>4 DEF JobsFit, JobFits
  <2>3. Spare(r)'
    BY <1>2, <2>2 DEF Spare, People!InFlight
  <2> QED BY <1>4, <2>1, <2>3
<1>5. CASE People!CommitPatch(r)
  <2>1. People!Write(txn[r]) /\ txn[r].op = "patch" /\ job' = job
    BY <1>5, UpdateEffect DEF People!CommitPatch, People!Ends
  <2>2. txn[r].status # "disabled"
    BY <1>0, <1>2, <2>1 DEF People!Unguarded, People!InFlight
  <2>3. CASE ~ No(txn[r].admin)
    BY <1>2, <1>3, <2>1, <2>2, <2>3, UpdateKeeps
  <2>4. CASE No(txn[r].admin)
    <3>1. r \in People!Reducers /\ People!ActiveAdmins \ {txn[r].m} # {}
      BY <1>0, <1>2, <2>1, <2>4 DEF No, People!Reducers, Spare, People!InFlight
    <3> QED BY <1>2, <1>4, <2>1, <3>1, UpdateKeeps
  <2> QED BY <2>3, <2>4
<1>6. CASE People!CommitDelete(r)
  <2>1. /\ txn[r].op = "delete" /\ job' = job /\ admin \ {txn[r].m} \subseteq admin'
        /\ \A q \in Members : q # txn[r].m => member'[q] = member[q]
    BY <1>6, DeleteEffect
  <2>2. r \in People!Reducers /\ People!ActiveAdmins \ {txn[r].m} # {}
    BY <1>0, <1>2, <2>1 DEF People!Reducers, Spare, People!InFlight
  <2>3. People!ActiveAdmins \ {txn[r].m} \subseteq People!ActiveAdmins'
    BY <2>1 DEF People!ActiveAdmins, Tables
  <2> QED BY <1>4, <2>1, <2>2, <2>3
<1>7. CASE People!CommitSignIn(r) \/ People!CommitRegister(r)
  <2>1. /\ job' = job /\ admin' = admin
        /\ member'[txn[r].m] = member[txn[r].m] \/ member'[txn[r].m] = "active"
        /\ \A q \in Members : q # txn[r].m => member'[q] = member[q]
    BY <1>7, OpenEffect
  <2>2. People!ActiveAdmins \subseteq People!ActiveAdmins'
    BY <2>1 DEF People!ActiveAdmins, Tables
  <2> QED BY <1>3, <2>1, <2>2
<1>8. CASE People!CommitItem(r)
  <2>1. /\ People!Write(txn[r]) /\ txn[r].op = "bulk"
        /\ job[r].status = "disabled" => job'[r].pool = job[r].pool \ {txn[r].m}
    BY <1>8, UpdateEffect DEF People!CommitItem, People!Ends
  <2>2. txn[r].status = job[r].status /\ txn[r].admin = None /\ job[r].todo # {}
    BY <1>2, <2>1 DEF JobsFit, JobFits
  <2>3. ~ No(txn[r].admin)
    BY <2>2 DEF No, Registry
  <2>4. CASE job[r].status # "disabled"
    <3>1. People!ActiveAdmins \subseteq People!ActiveAdmins'
      BY <1>2, <2>1, <2>2, <2>3, <2>4, UpdateKeeps
    <3> QED BY <1>2, <1>3, <2>4, <3>1
  <2>5. CASE job[r].status = "disabled"
    <3>1. r \in People!Reducers
      BY <2>2, <2>5 DEF People!Reducers
    <3>2. job[r].pool \subseteq People!ActiveAdmins /\ job[r].pool \ {txn[r].m} # {}
      BY <1>0, <1>2, <2>1, <2>2, <2>5 DEF Spare, People!InFlight
    <3>3. People!ActiveAdmins \ {txn[r].m} \subseteq People!ActiveAdmins' /\ People!ActiveAdmins' # {}
      BY <1>2, <2>1, <3>2, UpdateKeeps
    <3>4. \A q \in Reqs : q # r => Spare(q)'
      BY <1>2, <3>1, OthersSpare
    <3>5. Spare(r)'
      BY <1>2, <2>1, <3>2, <3>3 DEF Spare, People!InFlight
    <3> QED BY <3>3, <3>4, <3>5
  <2> QED BY <2>4, <2>5
<1> QED BY <1>5, <1>6, <1>7, <1>8

\* While the guards decide, a step leaves an administrator.
LEMMA ProtectedKept ==
    ASSUME Registry, Tables, JobsFit, Protected, People!Guard,
           Calmly \/ \E r \in Reqs : Kinds(r)
    PROVE  Protected'
<1> SUFFICES ASSUME guarded'
             PROVE  People!ActiveAdmins' # {} /\ \A r \in Reqs : Spare(r)'
  BY GuardAlone DEF Protected
<1>1. CASE People!ActiveAdmins' # {} /\ People!Reducers' = {}
  <2>1. ASSUME NEW r \in Reqs PROVE Spare(r)'
    <3>1. r \notin People!Reducers'
      BY <1>1
    <3> QED BY <3>1 DEF Spare, People!Reducers, People!InFlight
  <2> QED BY <1>1, <2>1
<1>2. CASE guarded
  <2>1. ASSUME Calmly PROVE People!ActiveAdmins' # {} /\ \A r \in Reqs : Spare(r)'
    <3>1. People!ActiveAdmins \subseteq People!ActiveAdmins' /\ txn' = txn /\ job' = job
      BY <2>1 DEF Calmly, People!ActiveAdmins, Tables
    <3>2. People!ActiveAdmins # {} /\ \A r \in Reqs : Spare(r)
      BY <1>2 DEF Protected
    <3> QED BY <3>1, <3>2, SpareKept
  <2>2. ASSUME NEW r \in Reqs, Kinds(r) PROVE People!ActiveAdmins' # {} /\ \A q \in Reqs : Spare(q)'
    BY <1>2, <2>2, SparesBefore, SparesCommit DEF Kinds
  <2> QED BY <2>1, <2>2
<1> QED BY <1>1, <1>2, GuardAlone

\* While no sign-in meets a change of m's status: who signs in is not disabled,
\* a disabling has seen every session, and leaves none.
Clean(m) ==
    /\ ~ (People!SigningIn(m) /\ People!Changing(m))
    /\ People!SigningIn(m) => member[m] # "disabled"
    /\ \A r \in Reqs : People!InFlight(r, {"patch", "bulk"}) /\ txn[r].m = m /\ txn[r].status = "disabled" =>
            SignedIn(m) \subseteq txn[r].revokes
    /\ member[m] = "disabled" => SignedIn(m) = {}
Unmixed == \A m \in Members \ mixed : Clean(m)

\* A step that begins nothing about m, disables nobody and opens no session.
LEMMA CleanKept ==
    ASSUME Registry, Tables, NEW m \in Members, Clean(m),
           \A r \in Reqs : txn'[r] = txn[r] \/ txn'[r] = People!Idle,
           member'[m] = "disabled" => member[m] = "disabled" \/ (SignedIn(m)' = {} /\ ~ People!SigningIn(m)'),
           \A s \in SignedIn(m)' : s \in SignedIn(m)
    PROVE  Clean(m)'
<1>1. People!SigningIn(m)' => People!SigningIn(m)
  BY DEF People!SigningIn, People!InFlight
<1>2. People!Changing(m)' => People!Changing(m)
  BY DEF People!Changing, People!InFlight
<1>3. ASSUME NEW r \in Reqs, People!InFlight(r, {"patch", "bulk"})', txn'[r].m = m,
             txn'[r].status = "disabled"
      PROVE  SignedIn(m)' \subseteq txn'[r].revokes
  <2>1. txn'[r] = txn[r] /\ People!InFlight(r, {"patch", "bulk"})
    BY <1>3 DEF People!InFlight
  <2> QED BY <1>3, <2>1 DEF Clean
<1>4. member'[m] = "disabled" => SignedIn(m)' = {}
  BY DEF Clean
<1>5. People!SigningIn(m)' => member'[m] # "disabled"
  BY <1>1 DEF Clean
<1> QED BY <1>1, <1>2, <1>3, <1>4, <1>5 DEF Clean

\* A transaction that begins has read the member and seen its sessions.
LEMMA CleanBegun ==
    ASSUME Registry, Tables, NEW m \in Members, Clean(m),
           ~ (People!SigningIn(m)' /\ People!Changing(m)'),
           NEW r \in Reqs, NEW t, Begun(r, t), Checked(r, t)
    PROVE  Clean(m)'
<1>1. /\ txn'[r] = t /\ \A q \in Reqs : q # r => txn'[q] = txn[q]
      /\ member' = member /\ sess' = sess /\ SignedIn(m)' = SignedIn(m)
  BY DEF Begun, Tables, SignedIn, People!Live, People!SessionsOf
<1>2. People!SigningIn(m)' => member'[m] # "disabled"
  <2> SUFFICES ASSUME NEW q \in Reqs, People!InFlight(q, {"sign_in", "register"})',
                      txn'[q].m = m
               PROVE  member[m] # "disabled"
    BY <1>1 DEF People!SigningIn
  <2>1. CASE q = r
    BY <1>1, <2>1 DEF Checked, People!InFlight
  <2>2. CASE q # r
    BY <1>1, <2>2 DEF Clean, People!SigningIn, People!InFlight
  <2> QED BY <2>1, <2>2
<1>3. ASSUME NEW q \in Reqs, People!InFlight(q, {"patch", "bulk"})', txn'[q].m = m,
             txn'[q].status = "disabled"
      PROVE  SignedIn(m)' \subseteq txn'[q].revokes
  <2>1. CASE q = r
    <3>1. t.op \in {"patch", "bulk"} /\ t.m = m /\ t.status = "disabled"
      BY <1>1, <1>3, <2>1 DEF People!InFlight
    <3>2. t.revokes = People!Live(m)
      BY <3>1 DEF Checked
    <3>3. txn'[q].revokes = People!Live(m)
      BY <1>1, <2>1, <3>2
    <3> QED BY <1>1, <3>3 DEF SignedIn
  <2>2. CASE q # r
    BY <1>1, <1>3, <2>2 DEF Clean, People!InFlight
  <2> QED BY <2>1, <2>2
<1>4. member'[m] = "disabled" => SignedIn(m)' = {}
  BY <1>1 DEF Clean
<1> QED BY <1>2, <1>3, <1>4 DEF Clean

\* Who signs in is not disabled, and no change is under way that might miss the
\* session.
LEMMA CleanOpened ==
    ASSUME Registry, Tables, NEW m \in Members, Clean(m), NEW r \in Reqs,
           People!CommitSignIn(r) \/ People!CommitRegister(r)
    PROVE  Clean(m)'
<1>1. /\ Ended(r) /\ txn[r].op \in {"sign_in", "register"}
      /\ member'[txn[r].m] = member[txn[r].m] \/ member'[txn[r].m] = "active"
      /\ \A q \in Members : q # txn[r].m => member'[q] = member[q]
      /\ \A q \in Members : q # txn[r].m => \A s \in SignedIn(q)' : s \in SignedIn(q)
  BY OpenEffect
<1>2. /\ txn'[r] = People!Idle /\ txn[r] # People!Idle
      /\ \A q \in Reqs : q # r => txn'[q] = txn[q]
  BY <1>1, EndedTyped DEF Ended
<1>3. CASE m # txn[r].m
  BY <1>1, <1>2, <1>3, CleanKept
<1>4. CASE m = txn[r].m
  <2>1. People!SigningIn(m)
    BY <1>1, <1>2, <1>4 DEF People!SigningIn, People!InFlight
  <2>2. ~ People!Changing(m) /\ member[m] # "disabled"
    BY <2>1 DEF Clean
  <2>3. ~ People!Changing(m)'
    BY <1>2, <2>2 DEF People!Changing, People!InFlight
  <2>4. member'[m] # "disabled"
    BY <1>1, <1>4, <2>2
  <2>5. \A q \in Reqs : ~ (People!InFlight(q, {"patch", "bulk"})' /\ txn'[q].m = m)
    BY <2>3 DEF People!Changing
  <2> QED BY <2>3, <2>4, <2>5 DEF Clean
<1> QED BY <1>3, <1>4

\* A change of m revokes the sessions it saw, which are all there are.
LEMMA CleanUpdated ==
    ASSUME Registry, Tables, NEW m \in Members, Clean(m), NEW r \in Reqs,
           People!CommitPatch(r) \/ People!CommitItem(r)
    PROVE  Clean(m)'
<1>1. Ended(r) /\ People!Write(txn[r]) /\ txn[r].op \in {"patch", "bulk"}
  BY UpdateEffect
<1>2. /\ txn'[r] = People!Idle /\ txn[r] # People!Idle /\ txn[r] \in People!Txn
      /\ \A q \in Reqs : q # r => txn'[q] = txn[q]
  BY <1>1, EndedTyped DEF Ended
<1>3. /\ \A q \in Members : q # txn[r].m => member'[q] = member[q]
      /\ txn[r].status = None => member'[txn[r].m] = member[txn[r].m]
      /\ txn[r].status # None => member'[txn[r].m] = txn[r].status
      /\ \A s \in SignedIn(m)' : s \in SignedIn(m) /\ s \notin txn[r].revokes
  BY <1>1, <1>2, WriteEffect
<1>4. CASE member'[m] = "disabled" => member[m] = "disabled"
  BY <1>2, <1>3, <1>4, CleanKept
<1>5. CASE member'[m] = "disabled" /\ member[m] # "disabled"
  <2>1. m = txn[r].m /\ txn[r].status = "disabled"
    BY <1>3, <1>5
  <2>2. People!InFlight(r, {"patch", "bulk"})
    BY <1>1, <1>2 DEF People!InFlight
  <2>3. SignedIn(m) \subseteq txn[r].revokes /\ People!Changing(m)
    BY <2>1, <2>2 DEF Clean, People!Changing
  <2>4. SignedIn(m)' = {}
    BY <1>3, <2>3
  <2>5. ~ People!SigningIn(m)
    BY <2>3 DEF Clean
  <2>6. ~ People!SigningIn(m)'
    BY <1>2, <2>5 DEF People!SigningIn, People!InFlight
  <2> QED BY <1>2, <1>3, <2>4, <2>6, CleanKept
<1> QED BY <1>4, <1>5

\* Whatever a step does, a member that is not mixed stays clean.
LEMMA UnmixedKept ==
    ASSUME Registry, Tables, Unmixed, People!Mix, Calmly \/ \E r \in Reqs : Kinds(r)
    PROVE  Unmixed'
<1> SUFFICES ASSUME NEW m \in Members, m \notin mixed' PROVE Clean(m)'
  BY DEF Unmixed
<1>1. /\ ~ (People!SigningIn(m)' /\ People!Changing(m)')
      /\ m \in mixed => ~ People!SigningIn(m)' /\ ~ People!Changing(m)' /\ People!Live(m)' = {}
  BY DEF People!Mix
<1>2. CASE m \in mixed
  <2>1. ~ People!SigningIn(m)' /\ ~ People!Changing(m)' /\ SignedIn(m)' = {}
    BY <1>1, <1>2 DEF SignedIn
  <2> QED BY <2>1 DEF Clean, People!Changing
<1>3. CASE m \notin mixed
  <2>0. Clean(m)
    BY <1>3 DEF Unmixed
  <2>1. ASSUME Calmly PROVE Clean(m)'
    BY <2>0, <2>1, CleanKept DEF Calmly
  <2>2. ASSUME NEW r \in Reqs, Kinds(r) PROVE Clean(m)'
    <3>1. ASSUME NEW t, Begun(r, t), Checked(r, t) PROVE Clean(m)'
      BY <1>1, <2>0, <3>1, CleanBegun
    <3>2. ASSUME Bookkeeping(r) PROVE Clean(m)'
      <4>1. member' = member /\ txn' = txn /\ SignedIn(m)' = SignedIn(m)
        BY <3>2 DEF Bookkeeping, SignedIn, People!Live, People!SessionsOf
      <4> QED BY <2>0, <4>1, CleanKept
    <3>3. ASSUME People!Abort(r) PROVE Clean(m)'
      <4>1. Ended(r) /\ UNCHANGED <<member, sess>>
        BY <3>3, AbortEffect
      <4>2. SignedIn(m)' = SignedIn(m)
        BY <4>1 DEF SignedIn, People!Live, People!SessionsOf
      <4>3. \A q \in Reqs : txn'[q] = txn[q] \/ txn'[q] = People!Idle
        BY <4>1, EndedTyped
      <4> QED BY <2>0, <4>1, <4>2, <4>3, CleanKept
    <3>4. ASSUME People!CommitDelete(r) PROVE Clean(m)'
      <4>1. /\ Ended(r) /\ member'[txn[r].m] = "none"
            /\ \A q \in Members : q # txn[r].m => member'[q] = member[q]
            /\ \A s \in SignedIn(m)' : s \in SignedIn(m)
        BY <3>4, DeleteEffect
      <4>2. \A q \in Reqs : txn'[q] = txn[q] \/ txn'[q] = People!Idle
        BY <4>1, EndedTyped
      <4>3. member'[m] = "disabled" => member[m] = "disabled"
        BY <4>1
      <4> QED BY <2>0, <4>1, <4>2, <4>3, CleanKept
    <3>5. ASSUME NEW a, NEW S \in SUBSET Members, NEW status \in {"active", "disabled"},
                 People!StartBulk(r, a, S, status)
          PROVE  Bookkeeping(r)
      BY <3>5, StartEffect
    <3>6. ASSUME NEW q \in Members, People!SkipItem(r, q) \/ People!NothingToDo(r, q)
          PROVE  Bookkeeping(r)
      BY <3>6, SkipEffect
    <3>7. ASSUME People!CommitPatch(r) \/ People!CommitItem(r) PROVE Clean(m)'
      BY <2>0, <3>7, CleanUpdated
    <3>8. ASSUME People!CommitSignIn(r) \/ People!CommitRegister(r) PROVE Clean(m)'
      BY <2>0, <3>8, CleanOpened
    <3> QED BY <2>2, <3>1, <3>2, <3>3, <3>4, <3>5, <3>6, <3>7, <3>8 DEF Kinds
  <2> QED BY <2>1, <2>2
<1> QED BY <1>2, <1>3

\* The inductive invariant of the members.
PeopleInv == People!TypeOK /\ JobsFit /\ Protected /\ Unmixed

\* It holds at first.
LEMMA PeopleInit ==
    ASSUME Registry
    PROVE  People!Init => PeopleInv
<1> SUFFICES ASSUME People!Init PROVE PeopleInv
  OBVIOUS
<1>1. People!TypeOK
  <2>1. People!NoJob \in People!Job
    BY DEF People!NoJob, People!Job
  <2> QED BY <2>1 DEF People!Init, People!TypeOK
<1>2. /\ \A r \in Reqs : txn[r] = People!Idle /\ job[r].todo = {}
      /\ \A m \in Members : member[m] = "none"
      /\ ~ guarded
  BY DEF People!Init, People!NoJob
<1>3. JobsFit /\ Protected
  BY <1>2 DEF JobsFit, JobFits, Protected
<1>4. ASSUME NEW m \in Members PROVE Clean(m)
  BY <1>2 DEF Clean, People!SigningIn, People!Changing, People!InFlight
<1> QED BY <1>1, <1>3, <1>4 DEF PeopleInv, Unmixed

\* A step keeps it.
LEMMA PeopleStep ==
    ASSUME Registry
    PROVE  PeopleInv /\ [People!Next]_People!vars => PeopleInv'
<1> SUFFICES ASSUME PeopleInv, [People!Next]_People!vars PROVE PeopleInv'
  OBVIOUS
<1>1. Tables /\ JobsFit /\ Protected /\ Unmixed /\ People!TypeOK
  BY DEF PeopleInv, People!TypeOK, Tables
<1>2. CASE People!Next
  <2>1. People!Step /\ People!Guard /\ People!Mix
    BY <1>2 DEF People!Next
  <2>2. Tables' /\ (Calmly \/ \E r \in Reqs : Kinds(r))
    BY <1>1, <2>1, StepKinds
  <2>3. guarded' \in BOOLEAN /\ mixed' \subseteq Members
    <3>1. guarded' \in BOOLEAN
      BY <1>1, <2>1 DEF People!Guard, People!TypeOK
    <3>2. mixed' \subseteq Members
      BY <2>1 DEF People!Mix
    <3> QED BY <3>1, <3>2
  <2>4. People!TypeOK'
    BY <2>2, <2>3 DEF People!TypeOK, Tables
  <2>5. JobsFit' /\ Protected' /\ Unmixed'
    BY <1>1, <2>1, <2>2, JobsFitKept, ProtectedKept, UnmixedKept
  <2> QED BY <2>4, <2>5 DEF PeopleInv
<1>3. CASE UNCHANGED People!vars
  <2>1. UNCHANGED <<member, admin, sess, rules, whitelist, txn, job, guarded, mixed>>
    BY <1>3 DEF People!vars, People!db
  <2>2. People!TypeOK'
    BY <1>1, <2>1 DEF People!TypeOK
  <2>3. JobsFit'
    BY <1>1, <2>1 DEF JobsFit, JobFits
  <2>4. Protected'
    BY <1>1, <2>1 DEF Protected, Spare, People!Reducers, People!Unguarded, People!InFlight,
       People!ActiveAdmins
  <2>5. Unmixed'
    <3>1. ASSUME NEW m \in Members, Clean(m) PROVE Clean(m)'
      <4>1. SignedIn(m)' = SignedIn(m)
        BY <2>1 DEF SignedIn, People!Live, People!SessionsOf
      <4> QED BY <1>1, <2>1, <3>1, <4>1, CleanKept
    <3> QED BY <1>1, <2>1, <3>1 DEF Unmixed
  <2> QED BY <2>2, <2>3, <2>4, <2>5 DEF PeopleInv
<1> QED BY <1>2, <1>3

\* It holds always.
THEOREM PeopleSound ==
    ASSUME Registry
    PROVE  People!Spec => []PeopleInv
<1>1. PeopleInv /\ [People!Next]_People!vars => PeopleInv'
  BY PeopleStep
<1> QED BY <1>1, PeopleInit, PTL DEF People!Spec

\* Every row, transaction and job has its type, and a session row a member row.
THEOREM PeopleTypeCorrect ==
    ASSUME Registry
    PROVE  People!Spec => []People!TypeOK
<1>1. PeopleInv => People!TypeOK
  BY DEF PeopleInv
<1> QED BY <1>1, PeopleSound, PTL

\* Once an administrator is active and the guards alone decide, demotions,
\* deletions and bulk changes never remove the last one (specs/039, SC-005).
THEOREM LastAdminStays ==
    ASSUME Registry
    PROVE  People!Spec => []People!LastAdminKept
<1>1. PeopleInv => People!LastAdminKept
  BY DEF PeopleInv, Protected, People!LastAdminKept
<1> QED BY <1>1, PeopleSound, PTL

\* A disabled member has no live session from a sign-in, unless one overlapped
\* the change (sessions.py:118).
THEOREM DisabledSignedOut ==
    ASSUME Registry
    PROVE  People!Spec => []People!DisabledHasNoSession
<1>1. PeopleInv => People!DisabledHasNoSession
  <2> SUFFICES ASSUME PeopleInv, NEW m \in Members \ mixed, member[m] = "disabled",
                      NEW s \in People!Live(m)
               PROVE  sess[s].by = "invitation"
    BY DEF People!DisabledHasNoSession
  <2>1. s \notin SignedIn(m)
    BY DEF PeopleInv, Unmixed, Clean
  <2>2. s \in Sessions /\ sess[s] \in People!Sess
    BY DEF People!Live, People!SessionsOf, PeopleInv, People!TypeOK
  <2> QED BY <2>1, <2>2 DEF SignedIn, People!Sess
<1> QED BY <1>1, PeopleSound, PTL

-----------------------------------------------------------------------------
(* Tags and access to a model.                                             *)

\* The assumptions of ModelAccess.
Catalogued ==
    /\ None \notin Tags /\ None \notin Models!Rule /\ None \notin 0 .. MaxOrder
    /\ None \notin Models!Policy
    /\ IsFiniteSet(Rules) /\ IsFiniteSet(Reqs)
    /\ MaxOrder \in Nat /\ Cardinality(Rules) <= MaxOrder + 1

\* In a finite set of sets there is one that has no other within it.
LEMMA Innermost ==
    ASSUME NEW S, IsFiniteSet(S), NEW B, B \subseteq SUBSET S, B # {}
    PROVE  \E T \in B : \A U \in B : ~ (U \subseteq T /\ U # T)
<1>1. IsWellFoundedOn(StrictSubsetOrdering(S), FiniteSubsetsOf(S))
  BY FS_StrictSubsetOrderingWellFounded
<1>2. B \subseteq FiniteSubsetsOf(S)
  BY FS_FiniteSubsetsOfFinite
<1>3. PICK T \in B : \A U \in B : ~ (<<U, T>> \in StrictSubsetOrdering(S))
  <2> HIDE DEF FiniteSubsetsOf, StrictSubsetOrdering
  <2> QED BY <1>1, <1>2, WFMin
<1>4. ASSUME NEW U \in B, U \subseteq T, U # T
      PROVE  <<U, T>> \in StrictSubsetOrdering(S)
  <2>1. U \in SUBSET S /\ T \in SUBSET S
    OBVIOUS
  <2> QED BY <1>4, <2>1 DEF StrictSubsetOrdering
<1>5. \A U \in B : ~ (U \subseteq T /\ U # T)
  BY <1>3, <1>4
<1> QED BY <1>5

\* Of the rules there are, one comes last.
LEMMA LastRule ==
    ASSUME Catalogued, ranking \in [Rules -> Models!Rule \cup {None}], Models!Present # {}
    PROVE  \E x \in Models!Present : \A y \in Models!Present : ranking[y].order <= ranking[x].order
<1> DEFINE Above(x) == {y \in Models!Present : ranking[y].order > ranking[x].order}
           B == {Above(x) : x \in Models!Present}
<1>1. \A x \in Models!Present : ranking[x].order \in Nat
  BY DEF Models!Present, Models!Rule, Catalogued
<1>2. IsFiniteSet(Models!Present)
  BY FS_Subset DEF Models!Present, Catalogued
<1>3. PICK T \in B : \A U \in B : ~ (U \subseteq T /\ U # T)
  <2>1. B \subseteq SUBSET Models!Present
    OBVIOUS
  <2>2. B # {}
    <3>1. PICK z \in Models!Present : TRUE
      OBVIOUS
    <3>2. Above(z) \in B
      OBVIOUS
    <3> QED BY <3>2
  <2> HIDE DEF B
  <2> QED BY <1>2, <2>1, <2>2, Innermost
<1>4. PICK x \in Models!Present : T = Above(x)
  OBVIOUS
<1>5. ASSUME NEW y \in Models!Present, ~ (ranking[y].order <= ranking[x].order)
      PROVE  FALSE
  <2>1. ranking[y].order > ranking[x].order
    BY <1>1, <1>5
  <2>2. Above(y) \subseteq Above(x)
    BY <1>1, <2>1
  <2>3. y \in Above(x) /\ y \notin Above(y)
    BY <1>1, <2>1
  <2>4. Above(y) \in B
    OBVIOUS
  <2> QED BY <1>3, <1>4, <2>2, <2>3, <2>4
<1> QED BY <1>5

\* next_order_index: above every rule there is.
LEMMA NextAbove ==
    ASSUME Catalogued, ranking \in [Rules -> Models!Rule \cup {None}]
    PROVE  Models!NextOrder \in Nat /\ \A x \in Models!Present : ranking[x].order < Models!NextOrder
<1>1. \A x \in Models!Present : ranking[x].order \in Nat
  BY DEF Models!Present, Models!Rule, Catalogued
<1>2. CASE Models!Present = {}
  BY <1>2 DEF Models!NextOrder
<1>3. CASE Models!Present # {}
  <2> DEFINE Top(n) == \A x \in Models!Present : ranking[x].order <= n
             N == {ranking[x].order : x \in Models!Present}
             c == CHOOSE n \in N : Top(n)
  <2>1. \E n \in N : Top(n)
    BY <1>3, LastRule
  <2>2. c \in N /\ Top(c)
    <3> HIDE DEF Top, N
    <3> QED BY <2>1
  <2>3. Models!NextOrder = 1 + c
    BY <1>3 DEF Models!NextOrder
  <2>4. c \in Nat /\ \A x \in Models!Present : ranking[x].order <= c
    BY <1>1, <2>2
  <2> HIDE DEF c
  <2> QED BY <1>1, <2>3, <2>4
<1> QED BY <1>2, <1>3

\* reorder: every rule its own index, within the bound.
LEMMA IndexFits ==
    ASSUME Catalogued,
           NEW index \in Models!Bijection(Models!Present, 0 .. Models!Cardinality(Models!Present) - 1)
    PROVE  /\ \A x \in Models!Present : index[x] \in 0 .. MaxOrder
           /\ \A x, y \in Models!Present : index[x] = index[y] => x = y
<1>1. Models!Present \subseteq Rules /\ IsFiniteSet(Rules) /\ IsFiniteSet(Models!Present)
  BY FS_Subset DEF Models!Present, Catalogued
<1>2. Cardinality(Models!Present) <= Cardinality(Rules) /\ Cardinality(Models!Present) \in Nat /\ Cardinality(Rules) \in Nat
  BY <1>1, FS_Subset, FS_CardinalityType
<1>3. Cardinality(Models!Present) - 1 <= MaxOrder /\ MaxOrder \in Nat
  BY <1>2 DEF Catalogued
<1>4. index \in [Models!Present -> 0 .. Cardinality(Models!Present) - 1]
      /\ \A x, y \in Models!Present : index[x] = index[y] => x = y
  BY SameSize DEF Models!Bijection, Models!Injection, Models!IsInjective
<1> QED BY <1>2, <1>3, <1>4

\* What the requests on the rules leave in the tables and in flight.
LEMMA RulesTyped ==
    ASSUME Catalogued, Models!TypeOK, Models!RuleStep
    PROVE  /\ ranking' \in [Rules -> Models!Rule \cup {None}]
           /\ tags' \in [Members -> (SUBSET Tags) \cup {None}]
           /\ call' \in [Reqs -> Models!Req \cup {Models!Idle}] /\ UNCHANGED <<policy, active>>
<1> USE DEF Models!TypeOK
<1>1. ASSUME NEW r \in Reqs, Models!BeginCreate(r)
      PROVE  UNCHANGED <<ranking, tags, policy, active>> /\ call' \in [Reqs -> Models!Req \cup {Models!Idle}]
  <2>1. Models!NextOrder \in 0 .. MaxOrder
    BY <1>1, NextAbove DEF Models!BeginCreate, Catalogued
  <2>2. [op |-> "create", next |-> Models!NextOrder] \in Models!Req
    BY <2>1 DEF Models!Req
  <2> QED BY <1>1, <2>2 DEF Models!BeginCreate
<1>2. ASSUME NEW r \in Reqs, Models!BeginReorder(r)
      PROVE  UNCHANGED <<ranking, tags, policy, active>> /\ call' \in [Reqs -> Models!Req \cup {Models!Idle}]
  <2>1. PICK index \in Models!Bijection(Models!Present, 0 .. Models!Cardinality(Models!Present) - 1) :
          call' = [call EXCEPT ![r] = [op |-> "reorder", order |->
                      [x \in Rules |-> IF x \in Models!Present /\ index[x] # ranking[x].order
                                       THEN index[x] ELSE None]]]
    BY <1>2 DEF Models!BeginReorder
  <2> DEFINE order == [x \in Rules |-> IF x \in Models!Present /\ index[x] # ranking[x].order
                                       THEN index[x] ELSE None]
  <2>2. order \in [Rules -> 0 .. MaxOrder \cup {None}]
    BY IndexFits
  <2>3. [op |-> "reorder", order |-> order] \in Models!Req
    <3> HIDE DEF order
    <3> QED BY <2>2 DEF Models!Req
  <2> QED BY <1>2, <2>1, <2>3 DEF Models!BeginReorder
<1>3. ASSUME NEW r \in Reqs, NEW x \in Rules, NEW covers \in SUBSET Members, NEW tag \in Tags,
             Models!CommitCreate(r, x, covers, tag)
      PROVE  /\ ranking' \in [Rules -> Models!Rule \cup {None}]
             /\ UNCHANGED <<tags, policy, active>> /\ call' \in [Reqs -> Models!Req \cup {Models!Idle}]
  <2>1. call[r].next \in 0 .. MaxOrder
    BY <1>3 DEF Models!CommitCreate, Models!Is, Models!Req, Models!Idle
  <2>2. [order |-> call[r].next, covers |-> covers, tag |-> tag] \in Models!Rule
    BY <2>1 DEF Models!Rule
  <2> QED BY <1>3, <2>2 DEF Models!CommitCreate, Models!Ends
<1>4. ASSUME NEW r \in Reqs, Models!CommitReorder(r)
      PROVE  /\ ranking' \in [Rules -> Models!Rule \cup {None}]
             /\ UNCHANGED <<tags, policy, active>> /\ call' \in [Reqs -> Models!Req \cup {Models!Idle}]
  <2>1. call[r].order \in [Rules -> 0 .. MaxOrder \cup {None}]
    BY <1>4 DEF Models!CommitReorder, Models!Is, Models!Req, Models!Idle
  <2>2. ASSUME NEW x \in Rules, call[r].order[x] # None
        PROVE  [ranking[x] EXCEPT !.order = call[r].order[x]] \in Models!Rule
    <3>1. ranking[x] \in Models!Rule /\ call[r].order[x] \in 0 .. MaxOrder
      BY <1>4, <2>1, <2>2 DEF Models!CommitReorder, Models!Present
    <3> QED BY <3>1 DEF Models!Rule
  <2>3. ranking' = [x \in Rules |-> IF call[r].order[x] = None THEN ranking[x]
                                    ELSE [ranking[x] EXCEPT !.order = call[r].order[x]]]
    BY <1>4 DEF Models!CommitReorder
  <2>4. ranking' \in [Rules -> Models!Rule \cup {None}]
    BY <2>2, <2>3
  <2> QED BY <1>4, <2>4 DEF Models!CommitReorder, Models!Ends
<1>5. ASSUME NEW r \in Reqs, Models!CommitRegister(r)
      PROVE  /\ tags' \in [Members -> (SUBSET Tags) \cup {None}]
             /\ UNCHANGED <<ranking, policy, active>> /\ call' \in [Reqs -> Models!Req \cup {Models!Idle}]
  <2>1. call[r].tag \in Tags \cup {None}
    BY <1>5 DEF Models!CommitRegister, Models!Is, Models!Req, Models!Idle
  <2> QED BY <1>5, <2>1 DEF Models!CommitRegister, Models!Ends
<1>6. ASSUME NEW r \in Reqs, NEW m \in Members, Models!BeginRegister(r, m)
      PROVE  UNCHANGED <<ranking, tags, policy, active>> /\ call' \in [Reqs -> Models!Req \cup {Models!Idle}]
  <2>1. PICK tag \in IF Models!First(m) = {} THEN {None} ELSE {ranking[x].tag : x \in Models!First(m)} :
          call' = [call EXCEPT ![r] = [op |-> "register", member |-> m, tag |-> tag]]
    BY <1>6 DEF Models!BeginRegister
  <2>2. \A x \in Models!First(m) : ranking[x] \in Models!Rule /\ ranking[x].tag \in Tags
    BY DEF Models!First, Models!Present, Models!Rule
  <2>3. tag \in Tags \cup {None}
    BY <2>1, <2>2
  <2>4. [op |-> "register", member |-> m, tag |-> tag] \in Models!Req
    BY <2>3 DEF Models!Req
  <2> QED BY <1>6, <2>1, <2>4 DEF Models!BeginRegister
<1>7. ASSUME NEW x \in Rules, NEW covers \in SUBSET Members, NEW tag \in Tags,
             Models!UpdateRule(x, covers, tag)
      PROVE  ranking' \in [Rules -> Models!Rule \cup {None}] /\ UNCHANGED <<tags, policy, active, call>>
  <2>1. [ranking[x] EXCEPT !.covers = covers, !.tag = tag] \in Models!Rule
    BY <1>7 DEF Models!UpdateRule, Models!Present, Models!Rule
  <2>2. ranking' = [ranking EXCEPT ![x] = [ranking[x] EXCEPT !.covers = covers, !.tag = tag]]
    BY <1>7 DEF Models!UpdateRule
  <2> QED BY <1>7, <2>1, <2>2 DEF Models!UpdateRule
<1>8. ASSUME NEW x \in Rules, Models!DeleteRule(x)
      PROVE  ranking' \in [Rules -> Models!Rule \cup {None}] /\ UNCHANGED <<tags, policy, active, call>>
  BY <1>8 DEF Models!DeleteRule
<1> QED BY <1>1, <1>2, <1>3, <1>4, <1>5, <1>6, <1>7, <1>8 DEF Models!RuleStep

\* What the others leave: tags, the policy, the credentials, the checks.
LEMMA AccessTyped ==
    ASSUME Catalogued, Models!TypeOK,
           Models!TagStep \/ Models!AccessStep \/ \E r \in Reqs : Models!Leave(r)
    PROVE  /\ ranking' = ranking /\ policy' \in Models!Policy \cup {None} /\ active' \in BOOLEAN
           /\ tags' \in [Members -> (SUBSET Tags) \cup {None}]
           /\ call' \in [Reqs -> Models!Req \cup {Models!Idle}]
<1> USE DEF Models!TypeOK
<1>1. ASSUME NEW m \in Members, NEW new \in SUBSET Tags, NEW old \in SUBSET Tags,
             Models!AddTags(m, new) \/ Models!RemoveTags(m, new) \/ Models!BulkTags(m, new, old)
      PROVE  tags' \in [Members -> (SUBSET Tags) \cup {None}] /\ UNCHANGED <<ranking, policy, active, call>>
  <2>1. tags[m] \in SUBSET Tags
    BY <1>1 DEF Models!AddTags, Models!RemoveTags, Models!BulkTags, Models!Registered
  <2>2. PICK now \in SUBSET Tags : tags' = [tags EXCEPT ![m] = now]
    <3>1. (tags[m] \cup new) \in SUBSET Tags /\ (tags[m] \ new) \in SUBSET Tags
          /\ ((tags[m] \cup new) \ old) \in SUBSET Tags
      BY <2>1
    <3>2. Models!AddTags(m, new) => tags' = [tags EXCEPT ![m] = tags[m] \cup new]
      BY DEF Models!AddTags
    <3>3. Models!RemoveTags(m, new) => tags' = [tags EXCEPT ![m] = tags[m] \ new]
      BY DEF Models!RemoveTags
    <3>4. Models!BulkTags(m, new, old) => tags' = [tags EXCEPT ![m] = (tags[m] \cup new) \ old]
      BY DEF Models!BulkTags
    <3> QED BY <1>1, <3>1, <3>2, <3>3, <3>4
  <2> QED BY <1>1, <2>2 DEF Models!AddTags, Models!RemoveTags, Models!BulkTags
<1>2. ASSUME NEW tag \in Tags, NEW members \in SUBSET Members, Models!BulkApply(tag, members)
      PROVE  tags' \in [Members -> (SUBSET Tags) \cup {None}] /\ UNCHANGED <<ranking, policy, active, call>>
  <2>1. ASSUME NEW m \in Models!Registered PROVE (tags[m] \cup {tag}) \in SUBSET Tags
    BY DEF Models!Registered
  <2> QED BY <1>2, <2>1 DEF Models!BulkApply
<1>3. ASSUME NEW tag \in Tags, Models!DeleteTag(tag)
      PROVE  tags' \in [Members -> (SUBSET Tags) \cup {None}] /\ UNCHANGED <<ranking, policy, active, call>>
  <2>1. ASSUME NEW m \in Models!Registered PROVE (tags[m] \ {tag}) \in SUBSET Tags
    BY DEF Models!Registered
  <2> QED BY <1>3, <2>1 DEF Models!DeleteTag
<1>4. CASE Models!CreateModel \/ Models!DeleteModel \/ Models!PatchModelAccess
  BY <1>4 DEF Models!CreateModel, Models!DeleteModel, Models!PatchModelAccess
<1>5. CASE Models!CreateCredential \/ Models!DisableCredential
  BY <1>5 DEF Models!CreateCredential, Models!DisableCredential
<1>6. ASSUME NEW r \in Reqs, NEW m \in Members, Models!BeginCheck(r, m)
      PROVE  UNCHANGED <<ranking, tags, policy, active>> /\ call' \in [Reqs -> Models!Req \cup {Models!Idle}]
  <2> DEFINE at == IF policy = None THEN "admitted" ELSE "model"
  <2>1. at \in {"model", "admitted"}
    OBVIOUS
  <2>2. call' = [call EXCEPT ![r] = [op |-> "check", member |-> m, policy |-> policy, has |-> None,
                                     at |-> at]]
    BY <1>6 DEF Models!BeginCheck
  <2> HIDE DEF at
  <2>3. [op |-> "check", member |-> m, policy |-> policy, has |-> None, at |-> at] \in Models!Req
    BY <2>1 DEF Models!Req
  <2> QED BY <1>6, <2>2, <2>3 DEF Models!BeginCheck
<1>7. ASSUME NEW r \in Reqs,
             \/ Models!ReadMember(r) \/ Models!ReadProviders(r) \/ Models!ReadTags(r)
             \/ Models!ListTags(r) \/ Models!ListProviders(r)
      PROVE  UNCHANGED <<ranking, tags, policy, active>> /\ call' \in [Reqs -> Models!Req \cup {Models!Idle}]
  <2> DEFINE Check == [op : {"check"}, member : Members, policy : Models!Policy \cup {None},
                       has : (SUBSET Tags) \cup {None},
                       at : {"model", "member", "provider", "tags", "admitted"}]
             t == call[r]
  <2>1. t \in Check
    BY <1>7 DEF Models!ReadMember, Models!ReadProviders, Models!ReadTags, Models!ListTags, Models!ListProviders,
       Models!Is, Models!Req, Models!Idle
  <2>2. \A at \in {"member", "provider", "admitted"} : [t EXCEPT !.at = at] \in Check
    BY <2>1
  <2>3. [t EXCEPT !.at = "tags", !.has = Models!TagsOf(t.member)] \in Check
    <3>1. Models!TagsOf(t.member) \in SUBSET Tags
      BY <2>1 DEF Models!TagsOf, Models!Registered
    <3> HIDE DEF t
    <3> QED BY <2>1, <3>1
  <2>4. [t EXCEPT !.at = "admitted", !.policy = None] \in Check
    <3> HIDE DEF t
    <3> QED BY <2>1
  <2>5. \E w \in Check \cup {Models!Idle} : call' = [call EXCEPT ![r] = w]
    <3> HIDE DEF Check
    <3>1. CASE Models!ReadProviders(r)
      BY <2>2, <3>1 DEF Models!ReadProviders
    <3>2. CASE Models!ReadTags(r)
      BY <2>2, <3>2 DEF Models!ReadTags
    <3>3. CASE Models!ListTags(r)
      BY <2>3, <3>3 DEF Models!ListTags
    <3>4. CASE Models!ListProviders(r)
      BY <2>2, <3>4 DEF Models!ListProviders
    <3>5. CASE Models!ReadMember(r)
      BY <2>2, <2>4, <3>5 DEF Models!ReadMember
    <3> QED BY <1>7, <3>1, <3>2, <3>3, <3>4, <3>5
  <2>6. Check \subseteq Models!Req
    BY DEF Models!Req
  <2> HIDE DEF Check
  <2> QED BY <1>7, <2>5, <2>6 DEF Models!ReadMember, Models!ReadProviders, Models!ReadTags, Models!ListTags, Models!ListProviders
<1>8. ASSUME NEW r \in Reqs, Models!Leave(r)
      PROVE  UNCHANGED <<ranking, tags, policy, active>> /\ call' \in [Reqs -> Models!Req \cup {Models!Idle}]
  BY <1>8 DEF Models!Leave, Models!Ends
<1>9. ASSUME NEW m \in Members, Models!DeleteMember(m)
      PROVE  tags' \in [Members -> (SUBSET Tags) \cup {None}] /\ UNCHANGED <<ranking, policy, active, call>>
  BY <1>9 DEF Models!DeleteMember
<1> QED BY <1>1, <1>2, <1>3, <1>4, <1>5, <1>6, <1>7, <1>8, <1>9 DEF Models!TagStep, Models!AccessStep

\* The order a rule will have when the request of r is committed.
After(r, x) == IF call[r].order[x] = None THEN ranking[x].order ELSE call[r].order[x]

\* A request that numbers the rules will leave them with an order of their own.
Sound(r) ==
    /\ Models!Is(r, "create") => \A x \in Models!Present : ranking[x].order < call[r].next
    /\ Models!Is(r, "reorder") => \A x, y \in Models!Present : x # y => After(r, x) # After(r, y)
Ordered ==
    ~ tangled => /\ Models!Distinct
                 /\ \A r, q \in Models!Numbering : r = q
                 /\ \A r \in Reqs : Sound(r)

\* A step that numbers no rule: rules go or keep their order.
Unnumbered(S) ==
    /\ \A x \in Models!Present' : x \in Models!Present /\ ranking'[x].order = ranking[x].order
    /\ \A q \in S : Models!Is(q, "create")' \/ Models!Is(q, "reorder")' => call'[q] = call[q]

\* Such a step keeps what is sound.
LEMMA UnnumberedKeeps ==
    ASSUME NEW S \in SUBSET Reqs, Unnumbered(S), Models!Distinct, \A q \in S : Sound(q)
    PROVE  Models!Distinct' /\ \A q \in S : Sound(q)'
<1>1. Models!Distinct'
  BY DEF Unnumbered, Models!Distinct
<1>2. ASSUME NEW q \in S PROVE Sound(q)'
  <2>1. CASE Models!Is(q, "create")' \/ Models!Is(q, "reorder")'
    <3>1. call'[q] = call[q] /\ (Models!Is(q, "create")' <=> Models!Is(q, "create")) /\ (Models!Is(q, "reorder")' <=> Models!Is(q, "reorder"))
      BY <2>1 DEF Unnumbered, Models!Is
    <3>2. \A x \in Models!Present' : x \in Models!Present /\ After(q, x)' = After(q, x)
      BY <3>1 DEF Unnumbered, After
    <3> QED BY <3>1, <3>2 DEF Sound, Unnumbered
  <2>2. CASE ~ (Models!Is(q, "create")' \/ Models!Is(q, "reorder")')
    BY <2>2 DEF Sound
  <2> QED BY <2>1, <2>2
<1> QED BY <1>1, <1>2

\* Which steps number no rule.
LEMMA OthersUnnumbered ==
    ASSUME Catalogued, Models!TypeOK,
           \/ Models!TagStep \/ Models!AccessStep
           \/ \E r \in Reqs : Models!Leave(r) \/ Models!CommitRegister(r)
           \/ \E r \in Reqs, m \in Members : Models!BeginRegister(r, m)
           \/ \E x \in Rules, covers \in SUBSET Members, tag \in Tags : Models!UpdateRule(x, covers, tag)
           \/ \E x \in Rules : Models!DeleteRule(x)
    PROVE  Unnumbered(Reqs)
<1> USE DEF Models!TypeOK
<1>1. ASSUME ranking' = ranking,
             \A q \in Reqs : Models!Is(q, "create")' \/ Models!Is(q, "reorder")' => call'[q] = call[q]
      PROVE  Unnumbered(Reqs)
  BY <1>1 DEF Unnumbered, Models!Present
<1>2. ASSUME NEW r \in Reqs, NEW w,
             call' = [call EXCEPT ![r] = w], w.op \notin {"create", "reorder"}
      PROVE  \A q \in Reqs : Models!Is(q, "create")' \/ Models!Is(q, "reorder")' => call'[q] = call[q]
  BY <1>2 DEF Models!Is
<1>3. CASE Models!TagStep
  BY <1>1, <1>3 DEF Models!TagStep, Models!AddTags, Models!RemoveTags, Models!BulkTags,
     Models!DeleteTag, Models!BulkApply, Models!DeleteMember
<1>4. CASE \/ Models!CreateModel \/ Models!DeleteModel \/ Models!PatchModelAccess
           \/ Models!CreateCredential \/ Models!DisableCredential
  BY <1>1, <1>4 DEF Models!CreateModel, Models!DeleteModel, Models!PatchModelAccess,
     Models!CreateCredential, Models!DisableCredential
<1>5. ASSUME NEW r \in Reqs, NEW m \in Members, Models!BeginCheck(r, m)
      PROVE  Unnumbered(Reqs)
  <2> DEFINE w == [op |-> "check", member |-> m, policy |-> policy, has |-> None,
                   at |-> IF policy = None THEN "admitted" ELSE "model"]
  <2>1. call' = [call EXCEPT ![r] = w] /\ ranking' = ranking /\ w.op \notin {"create", "reorder"}
    BY <1>5 DEF Models!BeginCheck
  <2> HIDE DEF w
  <2> QED BY <1>1, <1>2, <2>1
<1>6. ASSUME NEW r \in Reqs,
             \/ Models!ReadMember(r) \/ Models!ReadProviders(r) \/ Models!ReadTags(r)
             \/ Models!ListTags(r) \/ Models!ListProviders(r)
      PROVE  Unnumbered(Reqs)
  <2>1. call[r].op = "check" /\ call[r] \in Models!Req
    BY <1>6 DEF Models!ReadMember, Models!ReadProviders, Models!ReadTags, Models!ListTags, Models!ListProviders,
       Models!Is, Models!Idle
  <2>2. call'[r].op \notin {"create", "reorder"} /\ ranking' = ranking
        /\ \A q \in Reqs : q # r => call'[q] = call[q]
    <3>0. /\ Models!Idle.op \notin {"create", "reorder"}
          /\ \A at : [call[r] EXCEPT !.at = at].op = "check"
          /\ [call[r] EXCEPT !.at = "admitted", !.policy = None].op = "check"
          /\ \A has : [call[r] EXCEPT !.at = "tags", !.has = has].op = "check"
      BY <2>1 DEF Models!Idle, Models!Req
    <3>1. CASE Models!ReadProviders(r)
      BY <3>0, <3>1 DEF Models!ReadProviders
    <3>2. CASE Models!ReadTags(r)
      BY <3>0, <3>2 DEF Models!ReadTags
    <3>3. CASE Models!ListTags(r)
      BY <3>0, <3>3 DEF Models!ListTags
    <3>4. CASE Models!ListProviders(r)
      BY <3>0, <3>4 DEF Models!ListProviders
    <3>5. CASE Models!ReadMember(r)
      BY <3>0, <3>5 DEF Models!ReadMember
    <3> QED BY <1>6, <3>1, <3>2, <3>3, <3>4, <3>5
  <2> QED BY <1>1, <2>2 DEF Models!Is
<1>7. ASSUME NEW r \in Reqs, Models!Leave(r) \/ Models!CommitRegister(r)
      PROVE  Unnumbered(Reqs)
  <2>1. call' = [call EXCEPT ![r] = Models!Idle] /\ ranking' = ranking
    BY <1>7 DEF Models!Leave, Models!CommitRegister, Models!Ends
  <2>2. Models!Idle.op \notin {"create", "reorder"}
    BY DEF Models!Idle
  <2> QED BY <1>1, <1>2, <2>1, <2>2
<1>8. ASSUME NEW r \in Reqs, NEW m \in Members, Models!BeginRegister(r, m)
      PROVE  Unnumbered(Reqs)
  <2>1. PICK tag : call' = [call EXCEPT ![r] = [op |-> "register", member |-> m, tag |-> tag]]
    BY <1>8 DEF Models!BeginRegister
  <2>2. [op |-> "register", member |-> m, tag |-> tag].op \notin {"create", "reorder"}
    OBVIOUS
  <2>3. ranking' = ranking
    BY <1>8 DEF Models!BeginRegister
  <2> QED BY <1>1, <1>2, <2>1, <2>2, <2>3
<1>9. ASSUME NEW x \in Rules, NEW covers \in SUBSET Members, NEW tag \in Tags,
             Models!UpdateRule(x, covers, tag)
      PROVE  Unnumbered(Reqs)
  <2>1. /\ ranking' = [ranking EXCEPT ![x] = [ranking[x] EXCEPT !.covers = covers, !.tag = tag]]
        /\ call' = call /\ x \in Models!Present /\ ranking[x] \in Models!Rule
    BY <1>9 DEF Models!UpdateRule, Models!Present
  <2>2. [ranking[x] EXCEPT !.covers = covers, !.tag = tag].order = ranking[x].order
    BY <2>1 DEF Models!Rule
  <2> QED BY <2>1, <2>2 DEF Unnumbered, Models!Present
<1>10. ASSUME NEW x \in Rules, Models!DeleteRule(x)
       PROVE  Unnumbered(Reqs)
  BY <1>10 DEF Models!DeleteRule, Unnumbered, Models!Present
<1> HIDE DEF Models!TypeOK
<1> QED BY <1>3, <1>4, <1>5, <1>6, <1>7, <1>8, <1>9, <1>10 DEF Models!AccessStep

\* create and reorder: numbers for the rules there are.
LEMMA NumberingBegins ==
    ASSUME Catalogued, Models!TypeOK, Models!Distinct, \A q \in Reqs : Sound(q), NEW r \in Reqs,
           Models!BeginCreate(r) \/ Models!BeginReorder(r)
    PROVE  Models!Distinct' /\ \A q \in Reqs : Sound(q)'
<1>1. ranking' = ranking /\ \A q \in Reqs : q # r => call'[q] = call[q]
  BY DEF Models!BeginCreate, Models!BeginReorder, Models!TypeOK
<1>2. Unnumbered(Reqs \ {r})
  BY <1>1 DEF Unnumbered, Models!Present
<1>3. Models!Distinct' /\ \A q \in Reqs \ {r} : Sound(q)'
  BY <1>2, UnnumberedKeeps
<1>4. CASE Models!BeginCreate(r)
  <2>1. call'[r] = [op |-> "create", next |-> Models!NextOrder]
    BY <1>4 DEF Models!BeginCreate, Models!TypeOK
  <2>2. Models!Present' = Models!Present
    BY <1>1 DEF Models!Present
  <2>3. \A x \in Models!Present : ranking[x].order < Models!NextOrder
    BY NextAbove DEF Models!TypeOK
  <2>4. Sound(r)'
    BY <1>1, <2>1, <2>2, <2>3 DEF Sound, Models!Is
  <2> QED BY <1>3, <2>4
<1>5. CASE Models!BeginReorder(r)
  <2>1. PICK index \in Models!Bijection(Models!Present, 0 .. Models!Cardinality(Models!Present) - 1) :
          call' = [call EXCEPT ![r] = [op |-> "reorder", order |->
                      [x \in Rules |-> IF x \in Models!Present /\ index[x] # ranking[x].order
                                       THEN index[x] ELSE None]]]
    BY <1>5 DEF Models!BeginReorder
  <2>2. /\ call'[r].op = "reorder"
        /\ \A x \in Models!Present : call'[r].order[x] = IF index[x] # ranking[x].order THEN index[x] ELSE None
    BY <2>1 DEF Models!TypeOK, Models!Present
  <2>3. Models!Present' = Models!Present
    BY <1>1 DEF Models!Present
  <2>4. \A x \in Models!Present : index[x] # None
    BY IndexFits DEF Catalogued
  <2>5. \A x \in Models!Present : After(r, x)' = index[x]
    BY <1>1, <2>2, <2>4 DEF After
  <2>6. Sound(r)'
    BY <2>2, <2>3, <2>5, IndexFits DEF Sound, Models!Is
  <2> QED BY <1>3, <2>6
<1> QED BY <1>3, <1>4, <1>5

\* The commit of the only request that numbers the rules.
LEMMA NumberingEnds ==
    ASSUME Catalogued, Models!TypeOK, Models!Distinct, \A q \in Reqs : Sound(q),
           \A p, q \in Models!Numbering : p = q, NEW r \in Reqs,
           \/ Models!CommitReorder(r)
           \/ \E x \in Rules, covers \in SUBSET Members, tag \in Tags : Models!CommitCreate(r, x, covers, tag)
    PROVE  Models!Distinct' /\ \A q \in Reqs : Sound(q)'
<1>1. /\ call' = [call EXCEPT ![r] = Models!Idle] /\ r \in Models!Numbering
  BY DEF Models!CommitReorder, Models!CommitCreate, Models!Ends, Models!Numbering
<1>2. ASSUME NEW q \in Reqs PROVE Sound(q)'
  <2>1. ~ Models!Is(q, "create")' /\ ~ Models!Is(q, "reorder")'
    <3>1. CASE q = r
      BY <1>1, <3>1 DEF Models!Is, Models!Idle, Models!TypeOK
    <3>2. CASE q # r
      BY <1>1, <3>2 DEF Models!Is, Models!Numbering, Models!TypeOK
    <3> QED BY <3>1, <3>2
  <2> QED BY <2>1 DEF Sound
<1>3. CASE Models!CommitReorder(r)
  <2>1. /\ ranking' = [x \in Rules |-> IF call[r].order[x] = None THEN ranking[x]
                                       ELSE [ranking[x] EXCEPT !.order = call[r].order[x]]]
        /\ \A x \in Rules : call[r].order[x] # None => x \in Models!Present
        /\ Models!Is(r, "reorder")
    BY <1>3 DEF Models!CommitReorder
  <2>2. \A x \in Rules : ranking[x] # None => ranking[x] \in Models!Rule
    BY DEF Models!TypeOK
  <2>3. ASSUME NEW x \in Models!Present' PROVE x \in Models!Present /\ ranking'[x].order = After(r, x)
    <3>1. CASE call[r].order[x] = None
      BY <2>1, <3>1 DEF Models!Present, After
    <3>2. CASE call[r].order[x] # None
      <4>1. x \in Models!Present /\ ranking[x] \in Models!Rule
        BY <2>1, <2>2, <3>2 DEF Models!Present
      <4>2. ranking'[x] = [ranking[x] EXCEPT !.order = call[r].order[x]]
        BY <2>1, <3>2 DEF Models!Present
      <4> QED BY <3>2, <4>1, <4>2 DEF After, Models!Rule
    <3> QED BY <3>1, <3>2
  <2>4. \A x, y \in Models!Present : x # y => After(r, x) # After(r, y)
    BY <2>1 DEF Sound
  <2>5. Models!Distinct'
    BY <2>3, <2>4 DEF Models!Distinct
  <2> QED BY <1>2, <2>5
<1>4. ASSUME NEW x \in Rules, NEW covers \in SUBSET Members, NEW tag \in Tags,
             Models!CommitCreate(r, x, covers, tag)
      PROVE  Models!Distinct'
  <2>1. /\ ranking' = [ranking EXCEPT ![x] = [order |-> call[r].next, covers |-> covers, tag |-> tag]]
        /\ Models!Is(r, "create")
    BY <1>4 DEF Models!CommitCreate
  <2>2. /\ ranking'[x].order = call[r].next
        /\ \A y \in Models!Present' : y # x => y \in Models!Present /\ ranking'[y] = ranking[y]
    BY <2>1 DEF Models!TypeOK, Models!Present
  <2>3. \A y \in Models!Present : ranking[y].order < call[r].next
    BY <2>1 DEF Sound
  <2>4. (\A y \in Models!Present : ranking[y].order \in Nat) /\ call[r].next \in Nat
    BY <2>1 DEF Models!TypeOK, Models!Present, Models!Rule, Catalogued, Models!Is, Models!Req,
       Models!Idle
  <2>5. ASSUME NEW y \in Models!Present', NEW z \in Models!Present', y # z PROVE ranking'[y].order # ranking'[z].order
    <3>1. CASE y = x
      BY <2>2, <2>3, <2>4, <2>5, <3>1
    <3>2. CASE z = x
      BY <2>2, <2>3, <2>4, <2>5, <3>2
    <3>3. CASE y # x /\ z # x
      BY <2>2, <2>5, <3>3 DEF Models!Distinct
    <3> QED BY <3>1, <3>2, <3>3
  <2> QED BY <2>5 DEF Models!Distinct
<1> QED BY <1>2, <1>3, <1>4

\* Without an overlap, one request numbers the rules, and soundly.
LEMMA OrderedKept ==
    ASSUME Catalogued, Models!TypeOK, Ordered,
           Models!RuleStep \/ Models!TagStep \/ Models!AccessStep \/ \E r \in Reqs : Models!Leave(r), Models!Tangle
    PROVE  Ordered'
<1> SUFFICES ASSUME ~ tangled'
             PROVE  /\ Models!Distinct'
                    /\ \A r, q \in Models!Numbering' : r = q
                    /\ \A r \in Reqs : Sound(r)'
  BY DEF Ordered
<1>1. ~ (Models!Cardinality(Models!Numbering') > 1) /\ (tangled => Models!Numbering' = {} /\ Models!Distinct')
  BY DEF Models!Tangle
<1>2. \A r, q \in Models!Numbering' : r = q
  <2>1. ~ (Cardinality(Models!Numbering') > 1)
    BY <1>1, SameSize
  <2>2. IsFiniteSet(Models!Numbering')
    BY FS_Subset DEF Catalogued, Models!Numbering
  <2>3. ASSUME NEW r \in Models!Numbering', NEW q \in Models!Numbering', r # q PROVE FALSE
    BY <2>1, <2>2, <2>3, TwoOf
  <2> QED BY <2>3
<1>3. CASE tangled
  <2>1. ASSUME NEW r \in Reqs PROVE Sound(r)'
    BY <1>1, <1>3 DEF Models!Numbering, Sound
  <2> QED BY <1>1, <1>2, <1>3, <2>1
<1>4. CASE ~ tangled
  <2>0. Models!Distinct /\ (\A r \in Reqs : Sound(r)) /\ \A r, q \in Models!Numbering : r = q
    BY <1>4 DEF Ordered
  <2>1. ASSUME Unnumbered(Reqs) PROVE Models!Distinct' /\ \A r \in Reqs : Sound(r)'
    BY <2>0, <2>1, UnnumberedKeeps
  <2>2. CASE Models!TagStep \/ Models!AccessStep \/ \E r \in Reqs : Models!Leave(r)
    BY <1>2, <2>1, <2>2, OthersUnnumbered
  <2>3. CASE Models!RuleStep
    BY <1>2, <2>0, <2>1, <2>3, OthersUnnumbered, NumberingBegins,
       NumberingEnds DEF Models!RuleStep
  <2> QED BY <2>2, <2>3
<1> QED BY <1>3, <1>4

\* The verdict on the policy that a check has read and its member's tags as they are.
Allows(r) == Models!access_policy_allows(call[r].policy, Models!TagsOf(call[r].member))

\* A check that is not settled has seen nobody allowed in: what it read so far
\* does not add up to a verdict in the member's favour.
Unseen(r) ==
    /\ ~ Models!Is(r, "check") => watch[r] = {}
    /\ Models!Is(r, "check") /\ ~ Models!Settled(r) =>
          /\ call[r].at # "admitted"
          /\ \A a, b \in watch[r] : a = b
          /\ ~ Models!Visible(call[r].member)
          /\ "policy" \notin watch[r] => policy = call[r].policy
          /\ call[r].policy # None
          /\ call[r].at \in {"model", "member"} => ~ (active /\ Allows(r))
          /\ call[r].at = "provider" => ~ Allows(r) /\ ("provider" \notin watch[r] => active)
          /\ call[r].at = "tags" =>
                /\ ~ (active /\ Models!access_policy_allows(call[r].policy, call[r].has))
                /\ "tags" \notin watch[r] => call[r].has = Models!TagsOf(call[r].member)
Watched == \A r \in Reqs : Unseen(r)

\* Who is visible: model and provider are there, and the policy allows the tags.
LEMMA VisibleMeans ==
    ASSUME NEW m
    PROVE  Models!Visible(m) <=> /\ policy # None /\ active
                                 /\ Models!access_policy_allows(policy, Models!TagsOf(m))
BY DEF Models!Visible, Models!access_policy_allows

\* The parts a check reads are finitely many.
LEMMA FewParts == IsFiniteSet({"policy", "provider", "tags", "settled"})
<1>1. IsFiniteSet({}) /\ IsFiniteSet({} \cup {"policy"}) /\ IsFiniteSet({} \cup {"policy"} \cup {"provider"})
  BY FS_EmptySet, FS_AddElement
<1>2. IsFiniteSet({} \cup {"policy"} \cup {"provider"} \cup {"tags"})
  BY <1>1, FS_AddElement
<1>3. IsFiniteSet({} \cup {"policy"} \cup {"provider"} \cup {"tags"} \cup {"settled"})
  BY <1>2, FS_AddElement
<1>4. {} \cup {"policy"} \cup {"provider"} \cup {"tags"} \cup {"settled"} = {"policy", "provider", "tags", "settled"}
  OBVIOUS
<1> QED BY <1>3, <1>4

\* What a check has lived through after a step, if it is still not settled: one
\* part at most has moved, and the member is not visible.
LEMMA WatchEffect ==
    ASSUME Catalogued, Models!TypeOK, Models!Watch, NEW r \in Reqs, NEW m \in Members,
           Models!Checks(r, m)',
           ~ Models!Settled(r)', ~ (Models!Admitted(r) /\ Models!Admitted(r)')
    PROVE  /\ ~ Models!Settled(r)
           /\ ~ Models!Visible(m)' /\ ~ Models!Unchecked(r, m)' /\ \A a, b \in watch'[r] : a = b
           /\ watch[r] \subseteq watch'[r]
           /\ Models!Is(r, "check") =>
                 /\ policy' # policy => "policy" \in watch'[r]
                 /\ active' # active => "provider" \in watch'[r]
                 /\ tags'[m] # tags[m] => "tags" \in watch'[r]
           /\ ~ Models!Is(r, "check") => watch'[r] = watch[r]
<1>2. watch'[r] = IF Models!Settled(r) \/ (Models!Admitted(r) /\ Models!Admitted(r)') THEN watch[r]
                  ELSE UNION {Models!Lived(r, n) : n \in {n \in Members : Models!Checks(r, n)'}}
  BY DEF Models!Watch, Models!Checks
<1>3. ~ Models!Settled(r)
  BY <1>2 DEF Models!Settled
<1>5. {n \in Members : Models!Checks(r, n)'} = {m}
  BY DEF Models!Checks
<1>6. watch'[r] = Models!Lived(r, m)
  BY <1>2, <1>3, <1>5
<1> DEFINE moved == watch[r] \cup (IF Models!Is(r, "check") THEN Models!Changed(m) ELSE {})
<1>7. watch'[r] = IF Models!Visible(m)' \/ Models!Cardinality(moved) > 1 \/ Models!Unchecked(r, m)'
                  THEN {"settled"} ELSE moved
  BY <1>6 DEF Models!Lived
<1>8. ~ Models!Visible(m)' /\ ~ Models!Unchecked(r, m)' /\ ~ (Models!Cardinality(moved) > 1) /\ watch'[r] = moved
  <2> HIDE DEF moved
  <2> QED BY <1>7 DEF Models!Settled
<1>9. \A a, b \in moved : a = b
  <2>1. ~ (Cardinality(moved) > 1)
    BY <1>8, SameSize
  <2>2. moved \subseteq {"policy", "provider", "tags", "settled"}
    BY DEF Models!TypeOK, Models!Changed
  <2>3. IsFiniteSet(moved)
    BY <2>2, FewParts, FS_Subset
  <2>4. ASSUME NEW a \in moved, NEW b \in moved, a # b PROVE FALSE
    <3> HIDE DEF moved
    <3> QED BY <2>1, <2>3, <2>4, TwoOf
  <2> QED BY <2>4
<1>10. Models!Is(r, "check") =>
          /\ policy' # policy => "policy" \in moved
          /\ active' # active => "provider" \in moved
          /\ tags'[m] # tags[m] => "tags" \in moved
  BY DEF Models!Changed
<1>11. watch[r] \subseteq moved /\ (~ Models!Is(r, "check") => moved = watch[r])
  OBVIOUS
<1> HIDE DEF moved
<1> QED BY <1>3, <1>8, <1>9, <1>10, <1>11

\* One of the reads of a check, and what it finds; it changes nothing that is read.
CheckRead(r) ==
    /\ UNCHANGED <<policy, active, tags>>
    /\ \/ /\ call[r] = Models!Idle /\ call'[r].policy = policy
          /\ call'[r].at = IF policy = None THEN "admitted" ELSE "model"
       \/ /\ Models!Is(r, "check") /\ call'[r].member = call[r].member
          /\ \/ /\ call[r].at = "model" /\ call'[r].at = "admitted" /\ call'[r].policy = None
                /\ tags[call[r].member] = None
             \/ /\ call'[r].policy = call[r].policy
                /\ \/ call[r].at = "model" /\ call'[r].at = "member"
                   \/ call[r].at \in {"model", "member"} /\ call'[r].at = "provider" /\ active
                   \/ call[r].at = "provider" /\ call'[r].at = "admitted" /\ Allows(r)
                   \/ /\ call[r].at = "model" /\ call'[r].at = "tags"
                      /\ call'[r].has = Models!TagsOf(call[r].member)
                   \/ /\ call[r].at = "tags" /\ call'[r].at = "admitted" /\ active
                      /\ Models!access_policy_allows(call[r].policy, call[r].has)

\* A step leaves a check alone, or is one of its reads.
LEMMA CheckSteps ==
    ASSUME Models!TypeOK,
           Models!RuleStep \/ Models!TagStep \/ Models!AccessStep \/ \E r \in Reqs : Models!Leave(r),
           NEW r \in Reqs, Models!Is(r, "check")', call'[r] # call[r]
    PROVE  CheckRead(r)
<1>0. call \in [Reqs -> Models!Req \cup {Models!Idle}] /\ Models!Idle.op = "idle"
  BY DEF Models!TypeOK, Models!Idle
<1>1. ASSUME NEW q \in Reqs, Models!BeginCreate(q) \/ Models!BeginReorder(q) PROVE CheckRead(r)
  BY <1>0, <1>1 DEF Models!BeginCreate, Models!BeginReorder, Models!Is
<1>2. ASSUME NEW q \in Reqs, Models!CommitReorder(q) \/ Models!CommitRegister(q) \/ Models!Leave(q) PROVE CheckRead(r)
  BY <1>0, <1>2 DEF Models!CommitReorder, Models!CommitRegister, Models!Leave, Models!Ends,
     Models!Is
<1>3. ASSUME NEW q \in Reqs, NEW x \in Rules, NEW covers \in SUBSET Members, NEW tag \in Tags,
             Models!CommitCreate(q, x, covers, tag)
      PROVE  CheckRead(r)
  BY <1>0, <1>3 DEF Models!CommitCreate, Models!Ends, Models!Is
<1>4. ASSUME NEW q \in Reqs, NEW n \in Members, Models!BeginRegister(q, n) PROVE CheckRead(r)
  BY <1>0, <1>4 DEF Models!BeginRegister, Models!Is
<1>5. CASE \/ \E x \in Rules, covers \in SUBSET Members, tag \in Tags : Models!UpdateRule(x, covers, tag)
           \/ \E x \in Rules : Models!DeleteRule(x)
  BY <1>5 DEF Models!UpdateRule, Models!DeleteRule
<1>6. CASE Models!TagStep
  BY <1>6 DEF Models!TagStep, Models!AddTags, Models!RemoveTags, Models!BulkTags,
     Models!BulkApply, Models!DeleteTag, Models!DeleteMember
<1>7. CASE \/ Models!CreateModel \/ Models!DeleteModel \/ Models!PatchModelAccess
           \/ Models!CreateCredential \/ Models!DisableCredential
  BY <1>7 DEF Models!CreateModel, Models!DeleteModel, Models!PatchModelAccess,
     Models!CreateCredential, Models!DisableCredential
<1>8. ASSUME NEW q \in Reqs, NEW n \in Members, Models!BeginCheck(q, n) PROVE CheckRead(r)
  <2>1. q = r
    BY <1>8 DEF Models!BeginCheck, Models!TypeOK
  <2> QED BY <1>0, <1>8, <2>1 DEF Models!BeginCheck, CheckRead
<1>9. ASSUME NEW q \in Reqs,
             \/ Models!ReadMember(q) \/ Models!ReadProviders(q) \/ Models!ReadTags(q)
             \/ Models!ListTags(q) \/ Models!ListProviders(q)
      PROVE  CheckRead(r)
  <2>1. q = r /\ Models!Is(r, "check") /\ call[r] \in Models!Req
    BY <1>0, <1>9 DEF Models!ReadMember, Models!ReadProviders, Models!ReadTags, Models!ListTags,
       Models!ListProviders, Models!Is, Models!Idle
  <2>2. call[r] \in [op : {"check"}, member : Members, policy : Models!Policy \cup {None},
                     has : (SUBSET Tags) \cup {None},
                     at : {"model", "member", "provider", "tags", "admitted"}]
    BY <2>1 DEF Models!Req, Models!Is
  <2>3. CASE Models!ReadProviders(r)
    BY <1>0, <2>1, <2>2, <2>3 DEF Models!ReadProviders, Models!Is, CheckRead
  <2>4. CASE Models!ReadTags(r)
    BY <1>0, <2>1, <2>2, <2>4 DEF Models!ReadTags, Models!Is, CheckRead, Allows
  <2>5. CASE Models!ListTags(r)
    BY <1>0, <2>1, <2>2, <2>5 DEF Models!ListTags, Models!Is, CheckRead
  <2>6. CASE Models!ListProviders(r)
    BY <1>0, <2>1, <2>2, <2>6 DEF Models!ListProviders, Models!Is, CheckRead
  <2>7. CASE Models!ReadMember(r)
    <3>1. call' = [call EXCEPT ![r] = IF call[r].member \in Models!Registered
                                      THEN [call[r] EXCEPT !.at = "member"]
                                      ELSE [call[r] EXCEPT !.at = "admitted", !.policy = None]]
          /\ call[r].at = "model" /\ UNCHANGED <<policy, active, tags>>
      BY <2>7 DEF Models!ReadMember
    <3>2. CASE call[r].member \in Models!Registered
      BY <1>0, <2>1, <2>2, <3>1, <3>2 DEF CheckRead
    <3>3. CASE call[r].member \notin Models!Registered
      BY <1>0, <2>1, <2>2, <3>1, <3>3 DEF CheckRead, Models!Registered
    <3> QED BY <3>2, <3>3
  <2> QED BY <1>9, <2>1, <2>3, <2>4, <2>5, <2>6, <2>7
<1> QED BY <1>1, <1>2, <1>3, <1>4, <1>5, <1>6, <1>7, <1>8, <1>9 DEF Models!RuleStep, Models!AccessStep

\* A check stays settled as long as it lasts.
LEMMA SettledStays ==
    ASSUME Models!Watch, NEW r \in Reqs, Models!Is(r, "check")', Models!Settled(r)
    PROVE  Models!Settled(r)'
BY DEF Models!Watch, Models!Settled

\* No read lets a member in whom the watch has not settled.
LEMMA UnseenKept ==
    ASSUME Catalogued, Models!TypeOK, Watched, Models!Watch,
           call' \in [Reqs -> Models!Req \cup {Models!Idle}],
           Models!RuleStep \/ Models!TagStep \/ Models!AccessStep \/ (\E r \in Reqs : Models!Leave(r)), NEW r \in Reqs
    PROVE  Unseen(r)'
<1>1. CASE ~ Models!Is(r, "check")'
  BY <1>1 DEF Models!Watch, Unseen
<1>2. CASE Models!Is(r, "check")' /\ Models!Settled(r)'
  BY <1>2 DEF Unseen
<1>3. CASE Models!Is(r, "check")' /\ ~ Models!Settled(r)'
  <2>1. PICK m \in Members : call'[r].member = m
    BY <1>3 DEF Models!Is, Models!Req, Models!Idle
  <2>2. ~ Models!Settled(r) /\ Unseen(r)
    BY <1>3, SettledStays DEF Watched
  <2>3. ~ Models!Admitted(r)
    BY <2>2 DEF Unseen, Models!Admitted
  <2>4. Models!Checks(r, m)'
    BY <1>3, <2>1 DEF Models!Checks
  <2>5. /\ ~ Models!Visible(m)' /\ ~ Models!Unchecked(r, m)' /\ \A a, b \in watch'[r] : a = b
        /\ watch[r] \subseteq watch'[r]
        /\ Models!Is(r, "check") =>
              /\ policy' # policy => "policy" \in watch'[r]
              /\ active' # active => "provider" \in watch'[r]
              /\ tags'[m] # tags[m] => "tags" \in watch'[r]
        /\ ~ Models!Is(r, "check") => watch'[r] = watch[r]
    BY <1>3, <2>3, <2>4, WatchEffect
  <2>6. policy' # None => ~ (active' /\ Models!access_policy_allows(policy', Models!TagsOf(m)'))
    BY <2>5 DEF Models!Visible, Models!access_policy_allows
  <2>tags. tags'[m] = tags[m] => Models!TagsOf(m)' = Models!TagsOf(m)
    BY DEF Models!TagsOf, Models!Registered
  <2> DEFINE Goal ==
          /\ call'[r].at # "admitted" /\ call'[r].policy # None
          /\ "policy" \notin watch'[r] => policy' = call'[r].policy
          /\ call'[r].at \in {"model", "member"} =>
                ~ (active' /\ Models!access_policy_allows(call'[r].policy, Models!TagsOf(m)'))
          /\ call'[r].at = "provider" =>
                /\ ~ Models!access_policy_allows(call'[r].policy, Models!TagsOf(m)')
                /\ "provider" \notin watch'[r] => active'
          /\ call'[r].at = "tags" =>
                /\ ~ (active' /\ Models!access_policy_allows(call'[r].policy, call'[r].has))
                /\ "tags" \notin watch'[r] => call'[r].has = Models!TagsOf(m)'
  <2>7. ASSUME call'[r] = call[r] PROVE Goal
    <3>1. Models!Is(r, "check") /\ call[r].member = m
      BY <1>3, <2>1, <2>7 DEF Models!Is
    <3>2. /\ call[r].at # "admitted" /\ call[r].policy # None
          /\ "policy" \notin watch[r] => policy = call[r].policy
          /\ call[r].at \in {"model", "member"} =>
                ~ (active /\ Models!access_policy_allows(call[r].policy, Models!TagsOf(m)))
          /\ call[r].at = "provider" =>
                /\ ~ Models!access_policy_allows(call[r].policy, Models!TagsOf(m))
                /\ "provider" \notin watch[r] => active
          /\ call[r].at = "tags" =>
                /\ ~ (active /\ Models!access_policy_allows(call[r].policy, call[r].has))
                /\ "tags" \notin watch[r] => call[r].has = Models!TagsOf(m)
      BY <2>2, <3>1 DEF Unseen, Allows
    <3>3. /\ "policy" \notin watch'[r] => policy' = policy /\ policy = call[r].policy
          /\ "provider" \notin watch'[r] => active' = active /\ "provider" \notin watch[r]
          /\ "tags" \notin watch'[r] => Models!TagsOf(m)' = Models!TagsOf(m) /\ "tags" \notin watch[r]
      BY <2>5, <2>tags, <3>1, <3>2
    <3>4. call[r].at \in {"model", "member"} =>
             ~ (active' /\ Models!access_policy_allows(call[r].policy, Models!TagsOf(m)'))
      <4>1. CASE "policy" \in watch'[r]
        BY <2>5, <3>2, <3>3, <4>1
      <4>2. CASE "policy" \notin watch'[r]
        BY <2>6, <3>2, <3>3, <4>2
      <4> QED BY <4>1, <4>2
    <3>5. call[r].at = "provider" => ~ Models!access_policy_allows(call[r].policy, Models!TagsOf(m)')
      <4>1. CASE "tags" \in watch'[r]
        BY <2>5, <2>6, <3>2, <3>3, <4>1
      <4>2. CASE "tags" \notin watch'[r]
        BY <3>2, <3>3, <4>2
      <4> QED BY <4>1, <4>2
    <3>6. call[r].at = "tags" => ~ (active' /\ Models!access_policy_allows(call[r].policy, call[r].has))
      <4>1. CASE "provider" \in watch'[r]
        BY <2>5, <2>6, <3>2, <3>3, <4>1
      <4>2. CASE "provider" \notin watch'[r]
        BY <3>2, <3>3, <4>2
      <4> QED BY <4>1, <4>2
    <3> QED BY <2>7, <3>2, <3>3, <3>4, <3>5, <3>6
  <2>8. ASSUME call'[r] # call[r] PROVE Goal
    <3>1. CheckRead(r)
      BY <1>3, <2>8, CheckSteps
    <3>same. /\ policy' = policy /\ active' = active /\ tags' = tags
          /\ Models!TagsOf(m)' = Models!TagsOf(m)
      BY <2>tags, <3>1 DEF CheckRead
    <3>held. ASSUME call'[r].at = "admitted", call'[r].policy = None,
                    policy' = None \/ tags'[m] = None
             PROVE  FALSE
      <4>1. Models!Admitted(r)'
        BY <1>3, <3>held DEF Models!Admitted
      <4>2. Models!Unchecked(r, m)'
        BY <3>held, <4>1 DEF Models!Unchecked
      <4> QED BY <2>5, <4>2
    <3>2. ASSUME call[r] = Models!Idle PROVE Goal
      <4>1. ~ Models!Is(r, "check")
        BY <3>2 DEF Models!Is, Models!Idle
      <4>2. call'[r].policy = policy /\ call'[r].at = IF policy = None THEN "admitted" ELSE "model"
        BY <3>1, <4>1 DEF CheckRead
      <4>3. policy # None /\ call'[r].at = "model"
        BY <3>same, <3>held, <4>2
      <4> QED BY <2>6, <3>same, <4>2, <4>3
    <3>3. ASSUME Models!Is(r, "check") PROVE Goal
      <4>1. /\ call[r].at # "admitted" /\ call[r].policy # None
            /\ "policy" \notin watch[r] => policy = call[r].policy
            /\ call[r].at \in {"model", "member"} => ~ (active /\ Allows(r))
            /\ call[r].at = "provider" => ~ Allows(r)
            /\ call[r].at = "tags" => ~ (active /\ Models!access_policy_allows(call[r].policy, call[r].has))
        BY <2>2, <3>3 DEF Unseen
      <4>2. call[r] # Models!Idle /\ call[r].member = m
        BY <2>1, <3>1, <3>3 DEF CheckRead, Models!Is, Models!Idle
      <4>3. /\ call'[r].policy = call[r].policy
            /\ \/ call[r].at = "model" /\ call'[r].at = "member"
               \/ call[r].at \in {"model", "member"} /\ call'[r].at = "provider" /\ active
               \/ call[r].at = "model" /\ call'[r].at = "tags" /\ call'[r].has = Models!TagsOf(m)
        BY <3>1, <3>same, <3>held, <4>1, <4>2 DEF CheckRead
      <4>4. Allows(r) <=> Models!access_policy_allows(call'[r].policy, Models!TagsOf(m)')
        BY <3>same, <4>2, <4>3 DEF Allows
      <4>5. "policy" \notin watch'[r] => policy' = call'[r].policy
        BY <2>5, <3>same, <4>1, <4>3
      <4> QED BY <3>same, <4>1, <4>3, <4>4, <4>5
    <3> QED BY <3>1, <3>2, <3>3 DEF CheckRead
  <2>9. Goal
    BY <2>7, <2>8
  <2>10. Unseen(r)' <=> (Models!Is(r, "check")' => ~ Models!Visible(m)' /\ (\A a, b \in watch'[r] : a = b) /\ Goal)
    BY <1>3, <2>1 DEF Unseen, Allows
  <2> HIDE DEF Goal
  <2> QED BY <2>5, <2>9, <2>10
<1> QED BY <1>1, <1>2, <1>3

\* The inductive invariant of the access to a model.
ModelsInv == Models!TypeOK /\ Ordered /\ Watched

\* It holds at the start: there is no rule and no request.
LEMMA ModelsInit == ASSUME Catalogued PROVE Models!Init => ModelsInv
<1> SUFFICES ASSUME Models!Init PROVE ModelsInv
  OBVIOUS
<1> USE DEF Models!Init
<1>1. Models!TypeOK
  BY DEF Models!TypeOK, Models!Policy
<1>2. \A r \in Reqs : call[r] = Models!Idle /\ watch[r] = {} /\ Models!Idle.op = "idle"
  BY DEF Models!Idle
<1>3. Models!Present = {} /\ Models!Numbering = {}
  BY <1>2 DEF Models!Present, Models!Numbering, Models!Is
<1>4. Ordered
  BY <1>2, <1>3 DEF Ordered, Models!Distinct, Sound, Models!Is
<1>5. Watched
  BY <1>2 DEF Watched, Unseen, Models!Is
<1> QED BY <1>1, <1>4, <1>5 DEF ModelsInv

\* Every step keeps it.
LEMMA ModelsStep == ASSUME Catalogued PROVE ModelsInv /\ [Models!Next]_Models!vars => ModelsInv'
<1> SUFFICES ASSUME ModelsInv, [Models!Next]_Models!vars PROVE ModelsInv'
  OBVIOUS
<1>0. Models!TypeOK /\ Ordered /\ Watched
  BY DEF ModelsInv
<1>1. CASE UNCHANGED Models!vars
  <2>1. Models!TypeOK'
    BY <1>0, <1>1 DEF Models!TypeOK, Models!vars
  <2>2. Ordered'
    BY <1>0, <1>1 DEF Ordered, Models!Distinct, Models!Present, Models!Numbering, Sound, After,
       Models!Is, Models!vars
  <2>3. Watched'
    BY <1>0, <1>1 DEF Watched, Unseen, Models!Is, Models!Settled, Models!Visible, Models!TagsOf,
       Models!Registered, Allows, Models!access_policy_allows, Models!vars
  <2> QED BY <2>1, <2>2, <2>3 DEF ModelsInv
<1>2. CASE Models!Next
  <2>1. Models!Tangle /\ Models!Watch /\ (Models!RuleStep \/ Models!TagStep \/ Models!AccessStep \/ \E r \in Reqs : Models!Leave(r))
    BY <1>2 DEF Models!Next
  <2>2. /\ ranking' \in [Rules -> Models!Rule \cup {None}]
        /\ tags' \in [Members -> (SUBSET Tags) \cup {None}]
        /\ policy' \in Models!Policy \cup {None} /\ active' \in BOOLEAN
        /\ call' \in [Reqs -> Models!Req \cup {Models!Idle}]
    <3>1. CASE Models!RuleStep
      BY <1>0, <3>1, RulesTyped DEF Models!TypeOK
    <3>2. CASE ~ Models!RuleStep
      BY <1>0, <2>1, <3>2, AccessTyped DEF Models!TypeOK
    <3> QED BY <3>1, <3>2
  <2>3. watch' \in [Reqs -> SUBSET {"policy", "provider", "tags", "settled"}]
    <3>1. watch \in [Reqs -> SUBSET {"policy", "provider", "tags", "settled"}]
      BY <1>0 DEF Models!TypeOK
    <3>2. ASSUME NEW r \in Reqs, NEW m \in Members
          PROVE  Models!Lived(r, m) \subseteq {"policy", "provider", "tags", "settled"}
      <4>1. (watch[r] \cup IF Models!Is(r, "check") THEN Models!Changed(m) ELSE {})
            \subseteq {"policy", "provider", "tags", "settled"}
        BY <3>1 DEF Models!Changed
      <4> QED BY <4>1 DEF Models!Lived
    <3>3. ASSUME NEW r \in Reqs
          PROVE  UNION {Models!Lived(r, m) : m \in {n \in Members : Models!Checks(r, n)'}}
                 \subseteq {"policy", "provider", "tags", "settled"}
      BY <3>2
    <3> QED BY <2>1, <3>1, <3>3 DEF Models!Watch
  <2>4. tangled' \in BOOLEAN
    BY <2>1 DEF Models!Tangle
  <2>5. Models!TypeOK'
    BY <2>2, <2>3, <2>4 DEF Models!TypeOK
  <2>6. Ordered'
    BY <1>0, <2>1, OrderedKept
  <2>7. Watched'
    <3>1. \A r \in Reqs : Unseen(r)'
      BY <1>0, <2>1, <2>2, UnseenKept
    <3> QED BY <3>1 DEF Watched
  <2> QED BY <2>5, <2>6, <2>7 DEF ModelsInv
<1> QED BY <1>1, <1>2

\* Whatever the rules, the members and the requests, the invariant holds
\* (tag_rules.py, model_access.py).
THEOREM ModelsSound == ASSUME Catalogued PROVE Models!Spec => []ModelsInv
<1>1. Models!Init => ModelsInv
  BY ModelsInit
<1>2. ModelsInv /\ [Models!Next]_Models!vars => ModelsInv'
  BY ModelsStep
<1> QED BY <1>1, <1>2, PTL DEF Models!Spec

\* The tables and the requests keep their shape: an order stays within the bound
\* (tag_rules.py:147).
THEOREM ModelsTypeCorrect == ASSUME Catalogued PROVE Models!Spec => []Models!TypeOK
<1>1. ModelsInv => Models!TypeOK
  BY DEF ModelsInv
<1> QED BY <1>1, ModelsSound, PTL

\* First match wins, unless requests that number the rules overlapped: the order
\* of every two rules differs (tag_rules.py:147, tag_rules.py:199).
THEOREM FirstMatchWins == ASSUME Catalogued PROVE Models!Spec => []Models!RulesOrdered
<1>1. ModelsInv => Models!RulesOrdered
  BY DEF ModelsInv, Ordered, Models!RulesOrdered
<1> QED BY <1>1, ModelsSound, PTL

\* Who is let in was visible at some moment of the check, unless two of its reads
\* moved (model_access.py:131), or the row of the model or of the member was gone
\* and nothing was checked (preflight.py:186).
THEOREM AdmittedWereVisible == ASSUME Catalogued PROVE Models!Spec => []Models!AdmittedWasVisible
<1>1. ModelsInv => Models!AdmittedWasVisible
  BY DEF ModelsInv, Watched, Unseen, Models!AdmittedWasVisible, Models!Admitted
<1> QED BY <1>1, ModelsSound, PTL
=============================================================================
