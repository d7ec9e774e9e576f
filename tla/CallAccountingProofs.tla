------------------------ MODULE CallAccountingProofs ------------------------
(***************************************************************************)
(* Proofs about CallAccounting, for any number of concurrent calls, any    *)
(* set of limits and any quotas.                                           *)
(***************************************************************************)
EXTENDS CallAccounting, FiniteSetTheorems, TLAPS

\* What holds of one call in every state: which month it belongs to, how
\* fresh its limits can be, when it bills something, and what it has recorded.
SaneCall(c) ==
    /\ req[c].month <= now
    /\ \A l \in Limits : limit[c][l] <= cap[l]
    /\ phase[c] \in {"idle", "done", "arrived", "authorized", "admitted", "retrying",
                     "streaming", "closing"} => use[c] = Nothing
    /\ c \in saved => phase[c] = "streaming"
    /\ rows[c] <= 1
    /\ ~ Free(c) /\ c \notin saved => rows[c] = 0
    /\ c \in saved \/ phase[c] = "done" => c \in failed \/ rows[c] = 1

Sane ==
    /\ \A l \in Limits : quota[l] <= cap[l]
    /\ \A l \in Limits, m \in 0..MaxMonth : m > now => used[l][m] = 0
    /\ \A c \in Calls : SaneCall(c)

\* The calls that can still add to month m: those past the quota check and, in
\* a past month, those that will be checked against a later one.
Early(c) == phase[c] \in {"arrived", "authorized"}
Pending(m) == {c \in Calls : req[c].month = m /\ (Owes(c) \/ (m < now /\ Early(c)))}

\* The inductive form of OvershootBounded: what may still be added counts too.
Slack(m) == IF m = now THEN N ELSE 2 * N
Bounded ==
    \A l \in Limits, m \in 0..now :
        used[l][m] + MaxUse * Cardinality(Pending(m)) < cap[l] + MaxUse * Slack(m)

IInv == TypeOK /\ Sane /\ Bounded

-----------------------------------------------------------------------------
\* Multiplication by the largest use is monotonic.
LEMMA Times ==
    ASSUME NEW i \in Nat, NEW j \in Nat, i <= j
    PROVE  MaxUse * i \in Nat /\ MaxUse * j \in Nat /\ MaxUse * i <= MaxUse * j
<1>1. MaxUse \in Nat
  BY MaxUseAssumption
<1>2. PICK d \in Nat : j = i + d
  BY SMT
<1>3. MaxUse * j = MaxUse * i + MaxUse * d
  BY <1>1, <1>2, SMT
<1>4. MaxUse * d \in Nat
  BY <1>1, SMT
<1> QED
  BY <1>1, <1>3, <1>4, SMT

\* One call more or less is worth MaxUse.
LEMMA TimesNext ==
    ASSUME NEW i \in Nat
    PROVE  MaxUse * (i + 1) = MaxUse * i + MaxUse
BY MaxUseAssumption, SMT

\* N counts the calls and is positive.
LEMMA CallsCount == N \in Nat /\ N >= 1
BY CallsAssumption, FS_CardinalityType, FS_EmptySet, SMT DEF N

\* Every set of calls is finite and has at most N elements.
LEMMA CallSets ==
    ASSUME NEW S, S \subseteq Calls
    PROVE  IsFiniteSet(S) /\ Cardinality(S) \in Nat /\ Cardinality(S) <= N
BY CallsAssumption, FS_Subset, FS_CardinalityType DEF N

\* No amount is the amount of nothing.
LEMMA NothingType == Nothing \in Amount /\ Nothing \in [Limits -> Nat] /\ \A l \in Limits : Nothing[l] = 0
BY MaxUseAssumption DEF Nothing, Amount

-----------------------------------------------------------------------------
\* The initial states satisfy the inductive invariant.
LEMMA InitInv == Init => IInv
<1> SUFFICES ASSUME Init PROVE IInv
  OBVIOUS
<1> USE DEF Init
<1>1. TypeOK
  <2>1. quota \in [Limits -> Nat] /\ cap \in [Limits -> Nat]
    BY QuotasAssumption
  <2>2. now \in 0..MaxMonth /\ 0 \in 0..MaxMonth
    BY MonthAssumption
  <2>3. used \in [Limits -> [0..MaxMonth -> Nat]]
    OBVIOUS
  <2>4. /\ phase \in [Calls -> Phases]
        /\ req \in [Calls -> [kind : Kinds, month : 0..MaxMonth, params : SUBSET Params]]
        /\ rows \in [Calls -> Nat]
    BY <2>2 DEF NoReq, Kinds, Phases
  <2>5. limit \in [Calls -> [Limits -> Nat]] /\ use \in [Calls -> Amount]
    BY NothingType
  <2> QED
    BY <2>1, <2>2, <2>3, <2>4, <2>5 DEF TypeOK
<1>2. Sane
  BY <1>1, NothingType, MonthAssumption DEF Sane, SaneCall, TypeOK, NoReq, Free
<1>3. Bounded
  <2> SUFFICES ASSUME NEW l \in Limits, NEW m \in 0..now
               PROVE  used[l][m] + MaxUse * Cardinality(Pending(m)) < cap[l] + MaxUse * Slack(m)
    BY DEF Bounded
  <2>1. Pending(m) = {}
    BY DEF Pending, Owes
  <2>2. m = 0 /\ used[l][m] = 0 /\ Slack(m) = N
    BY MonthAssumption DEF Slack
  <2>3. MaxUse * 0 = 0 /\ MaxUse * 1 = MaxUse /\ MaxUse >= 1 /\ MaxUse \in Nat
    BY MaxUseAssumption, SMT
  <2>4. MaxUse * 1 <= MaxUse * N /\ MaxUse * N \in Nat
    BY Times, CallsCount
  <2>5. cap[l] \in Nat
    BY <1>1 DEF TypeOK
  <2> QED
    BY <2>1, <2>2, <2>3, <2>4, <2>5, FS_EmptySet, SMT
<1> QED
  BY <1>1, <1>2, <1>3 DEF IInv

-----------------------------------------------------------------------------
(* Types and Sane: one step for each action.                               *)

\* Every action keeps the types.
LEMMA NextTypes == TypeOK /\ [Next]_vars => TypeOK'
<1> SUFFICES ASSUME TypeOK, [Next]_vars PROVE TypeOK'
  OBVIOUS
<1> USE NothingType DEF TypeOK, allocation, Goto, Phases
<1>1. ASSUME NEW c \in Calls, NEW kind \in Kinds, NEW params \in SUBSET Params,
             Arrive(c, kind, params)
      PROVE TypeOK'
  BY <1>1 DEF Arrive
<1>2. ASSUME NEW c \in Calls, Authorize(c) PROVE TypeOK'
  BY <1>2 DEF Authorize
<1>3. ASSUME NEW c \in Calls, CheckQuota(c) PROVE TypeOK'
  BY <1>3 DEF CheckQuota
<1>4. ASSUME NEW c \in Calls, Refuse(c) PROVE TypeOK'
  BY <1>4 DEF Refuse
<1>5. ASSUME NEW c \in Calls, RefuseUnknown(c) PROVE TypeOK'
  BY <1>5 DEF RefuseUnknown
<1>6. ASSUME NEW c \in Calls, RejectParam(c) PROVE TypeOK'
  BY <1>6 DEF RejectParam
<1>7. ASSUME NEW c \in Calls, Retry(c) PROVE TypeOK'
  BY <1>7 DEF Retry
<1>8. ASSUME NEW c \in Calls, NEW u \in Amount, Answer(c, u) PROVE TypeOK'
  BY <1>8 DEF Answer
<1>9. ASSUME NEW c \in Calls, OpenStream(c) PROVE TypeOK'
  BY <1>9 DEF OpenStream
<1>10. ASSUME NEW c \in Calls, Flush(c) PROVE TypeOK'
  BY <1>10 DEF Flush
<1>11. ASSUME NEW c \in Calls, Record(c)
       PROVE  used' \in [Limits -> [0..MaxMonth -> Nat]] /\ rows' \in [Calls -> Nat]
  <2>1. \A l \in Limits : use[c][l] \in Nat
    BY MaxUseAssumption DEF Amount
  <2>2. ASSUME NEW l \in Limits, NEW m \in 0..MaxMonth
        PROVE  used[l][m] \in Nat /\ used[l][m] + use[c][l] \in Nat
    <3>1. used[l][m] \in Nat
      OBVIOUS
    <3>2. use[c][l] \in Nat
      BY <2>1
    <3> QED
      BY <3>1, <3>2, SMT
  <2>3. used' \in [Limits -> [0..MaxMonth -> Nat]]
    BY <1>11, <2>2 DEF Record
  <2>4. rows' \in [Calls -> Nat]
    BY <1>11 DEF Record
  <2> QED
    BY <2>3, <2>4
<1>12. ASSUME NEW c \in Calls, Finish(c)
       PROVE  /\ phase' \in [Calls -> Phases]
              /\ req' \in [Calls -> [kind : Kinds, month : 0..MaxMonth, params : SUBSET Params]]
              /\ limit' \in [Calls -> [Limits -> Nat]]
              /\ use' \in [Calls -> Amount]
              /\ saved' \subseteq Calls
  BY <1>12, MonthAssumption DEF Finish, NoReq, Kinds
<1>13. ASSUME NEW c \in Calls, Commit(c) PROVE TypeOK'
  BY <1>13, <1>11, <1>12 DEF Commit
<1>14. ASSUME NEW c \in Calls, Fail(c) PROVE TypeOK'
  BY <1>14, <1>12 DEF Fail
<1>15. ASSUME NEW c \in Calls, NEW u \in Amount, ReportUsage(c, u) PROVE TypeOK'
  BY <1>15 DEF ReportUsage
<1>16. ASSUME NEW c \in Calls, CloseStream(c) PROVE TypeOK'
  <2>1. CASE c \in saved
    BY <1>16, <2>1, <1>12 DEF CloseStream
  <2>2. CASE c \notin saved
    <3>1. /\ phase' = [phase EXCEPT ![c] = "closing"] /\ use' = [use EXCEPT ![c] = Nothing]
          /\ UNCHANGED <<allocation, used, req, limit, saved, gone, failed, rows>>
      BY <1>16, <2>2 DEF CloseStream
    <3> QED
      BY <3>1
  <2> QED
    BY <2>1, <2>2
<1>17. ASSUME NEW c \in Calls, AfterSave(c)
       PROVE  /\ phase' \in [Calls -> Phases]
              /\ req' \in [Calls -> [kind : Kinds, month : 0..MaxMonth, params : SUBSET Params]]
              /\ limit' \in [Calls -> [Limits -> Nat]]
              /\ use' \in [Calls -> Amount]
              /\ saved' \subseteq Calls
  <2>1. CASE phase[c] = "saving"
    <3>1. /\ phase' = [phase EXCEPT ![c] = "streaming"] /\ use' = [use EXCEPT ![c] = Nothing]
          /\ saved' = saved \cup {c} /\ req' = req /\ limit' = limit
      BY <1>17, <2>1 DEF AfterSave
    <3>2. phase' \in [Calls -> Phases] /\ saved' \subseteq Calls
      BY <3>1
    <3>3. use' \in [Calls -> Amount]
      BY <3>1
    <3> QED
      BY <3>1, <3>2, <3>3
  <2>2. CASE phase[c] # "saving"
    BY <1>17, <2>2, <1>12 DEF AfterSave
  <2> QED
    BY <2>1, <2>2
<1>18. ASSUME NEW c \in Calls, Save(c) PROVE TypeOK'
  BY <1>18, <1>11, <1>17 DEF Save
<1>19. ASSUME NEW c \in Calls, SaveFails(c) PROVE TypeOK'
  BY <1>19, <1>17 DEF SaveFails
<1>20. ASSUME NEW c \in Calls, Disconnect(c) PROVE TypeOK'
  BY <1>20 DEF Disconnect
<1>21. ASSUME Tick PROVE TypeOK'
  BY <1>21, MonthAssumption DEF Tick, calls
<1>22. ASSUME NEW q \in [Limits -> Quotas], SetQuota(q) PROVE TypeOK'
  BY <1>22, QuotasAssumption DEF SetQuota, calls
<1>23. ASSUME NEW s \in {"active", "blocked"}, SetStatus(s) PROVE TypeOK'
  BY <1>23 DEF SetStatus, calls
<1>24. ASSUME Delete PROVE TypeOK'
  BY <1>24 DEF Delete, calls
<1>25. CASE UNCHANGED vars
  BY <1>25 DEF vars
<1> HIDE DEF TypeOK, allocation, Goto, Phases
<1>26. CASE Next
  BY <1>26, <1>1, <1>2, <1>3, <1>4, <1>5, <1>6, <1>7, <1>8, <1>9, <1>10, <1>13, <1>14, <1>15,
     <1>16, <1>18, <1>19, <1>20, <1>21, <1>22, <1>23, <1>24
     DEF Next, Request, Handle, Administer, Kinds
<1> QED
  BY <1>25, <1>26

-----------------------------------------------------------------------------
\* Every action keeps what is sane about the calls.
LEMMA NextSane == TypeOK /\ Sane /\ [Next]_vars => Sane'
<1> SUFFICES ASSUME TypeOK, Sane, [Next]_vars PROVE Sane'
  OBVIOUS
<1>t. TypeOK'
  BY NextTypes
<1> DEFINE SameLimits == /\ \A l \in Limits : quota'[l] <= cap'[l]
                         /\ \A l \in Limits : cap[l] <= cap'[l]
                         /\ now <= now'
<1> DEFINE Future == \A l \in Limits, m \in 0..MaxMonth : m > now' => used'[l][m] = 0
<1>0. /\ \A c \in Calls : SaneCall(c)
      /\ \A l \in Limits : quota[l] <= cap[l]
      /\ \A l \in Limits, m \in 0..MaxMonth : m > now => used[l][m] = 0
      /\ now \in Nat /\ \A l \in Limits : cap[l] \in Nat /\ quota[l] \in Nat
  BY MonthAssumption DEF Sane, TypeOK
<1>1. ASSUME UNCHANGED allocation, UNCHANGED used PROVE SameLimits /\ Future
  BY <1>0, <1>1 DEF allocation
\* One call moves, the others keep what they have.
<1>2. ASSUME NEW c \in Calls, UNCHANGED allocation, Future, SaneCall(c)',
             \A d \in Calls \ {c} : SaneCall(d) => SaneCall(d)'
      PROVE  Sane'
  BY <1>0, <1>2 DEF Sane, allocation
<1> USE DEF Free
<1>3. ASSUME NEW c \in Calls, NEW kind \in Kinds, NEW params \in SUBSET Params, Arrive(c, kind, params) PROVE Sane'
  <2>1. UNCHANGED allocation /\ Future
    BY <1>3, <1>1 DEF Arrive
  <2>2. SaneCall(c)'
    BY <1>3, <1>0 DEF SaneCall, Goto, allocation, TypeOK, Arrive
  <2>3. \A d \in Calls \ {c} : SaneCall(d) => SaneCall(d)'
    BY <1>3 DEF SaneCall, Goto, allocation, TypeOK, Arrive
  <2> QED
    BY <2>1, <2>2, <2>3, <1>2
<1>4. ASSUME NEW c \in Calls, Authorize(c) PROVE Sane'
  <2>1. UNCHANGED allocation /\ Future
    BY <1>4, <1>1 DEF Authorize
  <2>2. SaneCall(c)'
    BY <1>4, <1>0 DEF SaneCall, Goto, allocation, TypeOK, Authorize
  <2>3. \A d \in Calls \ {c} : SaneCall(d) => SaneCall(d)'
    BY <1>4 DEF SaneCall, Goto, allocation, TypeOK, Authorize
  <2> QED
    BY <2>1, <2>2, <2>3, <1>2
<1>5. ASSUME NEW c \in Calls, CheckQuota(c) PROVE Sane'
  <2>1. UNCHANGED allocation /\ Future
    BY <1>5, <1>1 DEF CheckQuota
  <2>2. SaneCall(c)'
    BY <1>5, <1>0 DEF SaneCall, Goto, allocation, TypeOK, CheckQuota
  <2>3. \A d \in Calls \ {c} : SaneCall(d) => SaneCall(d)'
    BY <1>5 DEF SaneCall, Goto, allocation, TypeOK, CheckQuota
  <2> QED
    BY <2>1, <2>2, <2>3, <1>2
<1>6. ASSUME NEW c \in Calls, Refuse(c) PROVE Sane'
  <2>1. UNCHANGED allocation /\ Future
    BY <1>6, <1>1 DEF Refuse
  <2>2. SaneCall(c)'
    BY <1>6, <1>0 DEF SaneCall, Goto, allocation, TypeOK, Refuse
  <2>3. \A d \in Calls \ {c} : SaneCall(d) => SaneCall(d)'
    BY <1>6 DEF SaneCall, Goto, allocation, TypeOK, Refuse
  <2> QED
    BY <2>1, <2>2, <2>3, <1>2
<1>7. ASSUME NEW c \in Calls, RefuseUnknown(c) PROVE Sane'
  <2>1. UNCHANGED allocation /\ Future
    BY <1>7, <1>1 DEF RefuseUnknown
  <2>2. SaneCall(c)'
    BY <1>7, <1>0 DEF SaneCall, Goto, allocation, TypeOK, RefuseUnknown
  <2>3. \A d \in Calls \ {c} : SaneCall(d) => SaneCall(d)'
    BY <1>7 DEF SaneCall, Goto, allocation, TypeOK, RefuseUnknown
  <2> QED
    BY <2>1, <2>2, <2>3, <1>2
<1>8. ASSUME NEW c \in Calls, RejectParam(c) PROVE Sane'
  <2>1. UNCHANGED allocation /\ Future
    BY <1>8, <1>1 DEF RejectParam
  <2>2. SaneCall(c)'
    BY <1>8, <1>0 DEF SaneCall, Goto, allocation, TypeOK, RejectParam
  <2>3. \A d \in Calls \ {c} : SaneCall(d) => SaneCall(d)'
    BY <1>8 DEF SaneCall, Goto, allocation, TypeOK, RejectParam
  <2> QED
    BY <2>1, <2>2, <2>3, <1>2
<1>9. ASSUME NEW c \in Calls, Retry(c) PROVE Sane'
  <2>1. UNCHANGED allocation /\ Future
    BY <1>9, <1>1 DEF Retry
  <2>0. /\ phase[c] = "retrying" /\ phase'[c] = "admitted"
        /\ req'[c].month = req[c].month
        /\ UNCHANGED <<allocation, used, limit, use, saved, gone, failed, rows>>
    BY <1>9 DEF Retry, Goto, TypeOK
  <2>2. SaneCall(c)'
    BY <2>0, <1>0 DEF SaneCall, allocation
  <2>3. \A d \in Calls \ {c} : SaneCall(d) => SaneCall(d)'
    BY <1>9 DEF SaneCall, Goto, allocation, TypeOK, Retry
  <2> QED
    BY <2>1, <2>2, <2>3, <1>2
<1>10. ASSUME NEW c \in Calls, OpenStream(c) PROVE Sane'
  <2>1. UNCHANGED allocation /\ Future
    BY <1>10, <1>1 DEF OpenStream
  <2>2. SaneCall(c)'
    BY <1>10, <1>0 DEF SaneCall, Goto, allocation, TypeOK, OpenStream
  <2>3. \A d \in Calls \ {c} : SaneCall(d) => SaneCall(d)'
    BY <1>10 DEF SaneCall, Goto, allocation, TypeOK, OpenStream
  <2> QED
    BY <2>1, <2>2, <2>3, <1>2
<1>11. ASSUME NEW c \in Calls, Flush(c) PROVE Sane'
  <2>1. UNCHANGED allocation /\ Future
    BY <1>11, <1>1 DEF Flush
  <2>2. SaneCall(c)'
    BY <1>11, <1>0 DEF SaneCall, Goto, allocation, TypeOK, Flush
  <2>3. \A d \in Calls \ {c} : SaneCall(d) => SaneCall(d)'
    BY <1>11 DEF SaneCall, Goto, allocation, TypeOK, Flush
  <2> QED
    BY <2>1, <2>2, <2>3, <1>2
<1>12. ASSUME NEW c \in Calls, NEW u \in Amount, Answer(c, u) PROVE Sane'
  <2>1. UNCHANGED allocation /\ Future
    BY <1>12, <1>1 DEF Answer
  <2>2. SaneCall(c)'
    BY <1>12, <1>0 DEF SaneCall, Goto, allocation, TypeOK, Answer
  <2>3. \A d \in Calls \ {c} : SaneCall(d) => SaneCall(d)'
    BY <1>12 DEF SaneCall, Goto, allocation, TypeOK, Answer
  <2> QED
    BY <2>1, <2>2, <2>3, <1>2
<1>13. ASSUME NEW c \in Calls, NEW u \in Amount, ReportUsage(c, u) PROVE Sane'
  <2>1. UNCHANGED allocation /\ Future
    BY <1>13, <1>1 DEF ReportUsage
  <2>2. SaneCall(c)'
    BY <1>13, <1>0 DEF SaneCall, Goto, allocation, TypeOK, ReportUsage
  <2>3. \A d \in Calls \ {c} : SaneCall(d) => SaneCall(d)'
    BY <1>13 DEF SaneCall, Goto, allocation, TypeOK, ReportUsage
  <2> QED
    BY <2>1, <2>2, <2>3, <1>2
<1>14. ASSUME NEW c \in Calls, Fail(c) PROVE Sane'
  <2>1. UNCHANGED allocation /\ Future
    BY <1>14, <1>1 DEF Fail, Finish, NoReq
  <2>2. SaneCall(c)'
    BY <1>14, <1>0, NothingType DEF SaneCall, Goto, allocation, TypeOK, Fail, Finish, NoReq
  <2>3. \A d \in Calls \ {c} : SaneCall(d) => SaneCall(d)'
    BY <1>14 DEF SaneCall, Goto, allocation, TypeOK, Fail, Finish, NoReq
  <2> QED
    BY <2>1, <2>2, <2>3, <1>2
<1>15. ASSUME NEW c \in Calls, CloseStream(c) PROVE Sane'
  <2>1. UNCHANGED allocation /\ Future
    BY <1>15, <1>1 DEF CloseStream, Finish, NoReq
  <2>2. SaneCall(c)'
    BY <1>15, <1>0, NothingType DEF SaneCall, Goto, allocation, TypeOK, CloseStream, Finish, NoReq
  <2>3. \A d \in Calls \ {c} : SaneCall(d) => SaneCall(d)'
    BY <1>15 DEF SaneCall, Goto, allocation, TypeOK, CloseStream, Finish, NoReq
  <2> QED
    BY <2>1, <2>2, <2>3, <1>2
<1>16. ASSUME NEW c \in Calls, SaveFails(c) PROVE Sane'
  <2>1. UNCHANGED allocation /\ Future
    BY <1>16, <1>1 DEF SaveFails, AfterSave, Finish, NoReq
  <2>2. SaneCall(c)'
    BY <1>16, <1>0, NothingType DEF SaneCall, Goto, allocation, TypeOK, SaveFails, AfterSave, Finish, NoReq
  <2>3. \A d \in Calls \ {c} : SaneCall(d) => SaneCall(d)'
    BY <1>16 DEF SaneCall, Goto, allocation, TypeOK, SaveFails, AfterSave, Finish, NoReq
  <2> QED
    BY <2>1, <2>2, <2>3, <1>2
<1>17. ASSUME NEW c \in Calls, Disconnect(c) PROVE Sane'
  <2>1. UNCHANGED allocation /\ Future
    BY <1>17, <1>1 DEF Disconnect
  <2>2. SaneCall(c)'
    BY <1>17, <1>0 DEF SaneCall, Goto, allocation, TypeOK, Disconnect
  <2>3. \A d \in Calls \ {c} : SaneCall(d) => SaneCall(d)'
    BY <1>17 DEF SaneCall, Goto, allocation, TypeOK, Disconnect
  <2> QED
    BY <2>1, <2>2, <2>3, <1>2
<1>18. ASSUME NEW c \in Calls, Record(c), UNCHANGED allocation PROVE Future
  BY <1>18, <1>0 DEF Record, SaneCall, allocation, TypeOK
<1>19. ASSUME NEW c \in Calls, Commit(c) PROVE Sane'
  <2>1. UNCHANGED allocation /\ Future
    BY <1>19, <1>18 DEF Commit
  <2>0. /\ phase[c] \in {"flushed", "anonymous"} /\ phase'[c] = "done"
        /\ req'[c].month = 0 /\ use'[c] = Nothing /\ limit'[c] = Nothing
        /\ c \notin saved' /\ rows'[c] = rows[c] + 1
    BY <1>19 DEF Commit, Record, Finish, NoReq, Goto, TypeOK
  <2>2. SaneCall(c)'
    BY <2>0, <2>1, <1>0, NothingType DEF SaneCall, allocation
  <2>3. \A d \in Calls \ {c} : SaneCall(d) => SaneCall(d)'
    BY <1>19 DEF SaneCall, Goto, allocation, TypeOK, Commit, Record, Finish, NoReq
  <2> QED
    BY <2>1, <2>2, <2>3, <1>2
<1>20. ASSUME NEW c \in Calls, Save(c) PROVE Sane'
  <2>1. UNCHANGED allocation /\ Future
    BY <1>20, <1>18 DEF Save
  <2>0. rows'[c] = rows[c] + 1 /\ UNCHANGED <<allocation, failed>>
    BY <1>20 DEF Save, Record, TypeOK
  <2>4. ASSUME phase[c] = "saving" PROVE SaneCall(c)'
    <3>1. /\ phase'[c] = "streaming" /\ c \in saved' /\ use'[c] = Nothing
          /\ UNCHANGED <<req, limit>>
      BY <1>20, <2>4 DEF Save, AfterSave, Goto, TypeOK
    <3> QED
      BY <3>1, <2>0, <2>4, <1>0 DEF SaneCall, allocation
  <2>5. ASSUME phase[c] = "closing" PROVE SaneCall(c)'
    <3>1. /\ phase'[c] = "done" /\ c \notin saved' /\ use'[c] = Nothing
          /\ req'[c].month = 0 /\ limit'[c] = Nothing
      BY <1>20, <2>5 DEF Save, AfterSave, Finish, NoReq, Goto, TypeOK
    <3> QED
      BY <3>1, <2>0, <2>5, <1>0, NothingType DEF SaneCall, allocation
  <2>2. SaneCall(c)'
    BY <1>20, <2>4, <2>5 DEF Save
  <2>3. \A d \in Calls \ {c} : SaneCall(d) => SaneCall(d)'
    BY <1>20 DEF SaneCall, Goto, allocation, TypeOK, Save, Record, AfterSave, Finish, NoReq
  <2> QED
    BY <2>1, <2>2, <2>3, <1>2
<1>21. ASSUME Tick PROVE Sane'
  <2>1. SameLimits /\ Future
    BY <1>21, <1>0 DEF Tick, calls, TypeOK
  <2>2. \A c \in Calls : SaneCall(c)'
    BY <1>21, <1>0, <2>1 DEF Tick, calls, SaneCall, TypeOK
  <2> QED
    BY <2>1, <2>2 DEF Sane
<1>22. ASSUME NEW q \in [Limits -> Quotas], SetQuota(q) PROVE Sane'
  <2>0. ASSUME NEW l \in Limits
        PROVE  q[l] \in Nat /\ quota'[l] <= cap'[l] /\ cap[l] <= cap'[l] /\ cap'[l] \in Nat
    <3>1. q[l] \in Nat
      BY QuotasAssumption
    <3>2. quota'[l] = q[l] /\ cap'[l] = IF q[l] > cap[l] THEN q[l] ELSE cap[l]
      BY <1>22 DEF SetQuota
    <3> QED
      BY <3>1, <3>2, <1>0
  <2>1. SameLimits /\ Future
    BY <1>22, <1>0, <2>0 DEF SetQuota, calls
  <2>2. ASSUME NEW c \in Calls PROVE SaneCall(c)'
    <3>1. \A l \in Limits : limit[c][l] \in Nat /\ limit[c][l] <= cap[l]
      BY <1>0 DEF SaneCall, TypeOK
    <3>2. \A l \in Limits : limit[c][l] <= cap'[l]
      BY <3>1, <2>0, <1>0
    <3>3. UNCHANGED <<now, phase, req, limit, use, saved, failed, rows>>
      BY <1>22 DEF SetQuota, calls
    <3> QED
      BY <3>2, <3>3, <1>0 DEF SaneCall
  <2> QED
    BY <2>1, <2>2 DEF Sane
<1>23. ASSUME NEW s \in {"active", "blocked"}, SetStatus(s) PROVE Sane'
  <2>1. SameLimits /\ Future
    BY <1>23, <1>0 DEF SetStatus, calls, TypeOK
  <2>2. \A c \in Calls : SaneCall(c)'
    BY <1>23, <1>0, <2>1 DEF SetStatus, calls, SaneCall, TypeOK
  <2> QED
    BY <2>1, <2>2 DEF Sane
<1>24. ASSUME Delete PROVE Sane'
  <2>1. SameLimits /\ Future
    BY <1>24, <1>0 DEF Delete, calls, TypeOK
  <2>2. \A c \in Calls : SaneCall(c)'
    BY <1>24, <1>0, <2>1 DEF Delete, calls, SaneCall, TypeOK
  <2> QED
    BY <2>1, <2>2 DEF Sane
<1>25. CASE UNCHANGED vars
  BY <1>25, <1>0 DEF vars, Sane, SaneCall
<1> HIDE DEF Free
<1>26. CASE Next
  BY <1>26, <1>3, <1>4, <1>5, <1>6, <1>7, <1>8, <1>9, <1>10, <1>11, <1>12, <1>13, <1>14,
     <1>15, <1>16, <1>17, <1>19, <1>20, <1>21, <1>22, <1>23, <1>24
     DEF Next, Request, Handle, Administer, Kinds
<1> QED
  BY <1>25, <1>26

-----------------------------------------------------------------------------
(* The bound.                                                              *)

\* A call that owes its record is pending in the month it started in.
LEMMA OwesPends ==
    ASSUME NEW m, NEW c \in Calls, Owes(c), req[c].month = m
    PROVE  c \in Pending(m)
BY DEF Pending

\* The pending calls of a month can be counted.
LEMMA PendingCount ==
    ASSUME NEW m
    PROVE  /\ IsFiniteSet(Pending(m)) /\ Cardinality(Pending(m)) \in Nat
           /\ Cardinality(Pending(m)) <= N
<1>1. Pending(m) \subseteq Calls
  BY DEF Pending
<1> QED
  BY <1>1, CallSets

\* The same in the next state.
LEMMA PendingCountNext ==
    ASSUME NEW m
    PROVE  /\ IsFiniteSet(Pending(m)') /\ Cardinality(Pending(m)') \in Nat
           /\ Cardinality(Pending(m)') <= N
<1>1. Pending(m)' \subseteq Calls
  BY DEF Pending
<1> QED
  BY <1>1, CallSets

\* Types of the numbers the bound compares.
LEMMA BoundTypes ==
    ASSUME TypeOK, NEW l \in Limits, NEW m \in 0..now
    PROVE  /\ m \in 0..MaxMonth /\ used[l][m] \in Nat /\ cap[l] \in Nat
           /\ MaxUse * Cardinality(Pending(m)) \in Nat /\ MaxUse * Slack(m) \in Nat
<1>1. m \in 0..MaxMonth /\ cap[l] \in Nat
  BY MonthAssumption DEF TypeOK
<1>2. used[l] \in [0..MaxMonth -> Nat]
  BY DEF TypeOK
<1>3. Slack(m) \in Nat
  BY CallsCount DEF Slack
<1>4. used[l][m] \in Nat
  BY <1>1, <1>2
<1>5. MaxUse * Cardinality(Pending(m)) \in Nat /\ MaxUse * Slack(m) \in Nat
  BY <1>3, Times, PendingCount
<1> QED
  BY <1>1, <1>4, <1>5

\* A step that bills nothing and makes no call pending keeps the bound.
LEMMA ShrinkKeeps ==
    ASSUME TypeOK, TypeOK', Bounded, now' = now, used' = used,
           \A l \in Limits : cap[l] <= cap'[l],
           \A m \in 0..now, d \in Calls : d \in Pending(m)' => d \in Pending(m)
    PROVE  Bounded'
<1> SUFFICES ASSUME NEW l \in Limits, NEW m \in 0..now
             PROVE  used[l][m] + MaxUse * Cardinality(Pending(m)') < cap'[l] + MaxUse * Slack(m)
  BY DEF Bounded, Slack
<1>1. used[l][m] + MaxUse * Cardinality(Pending(m)) < cap[l] + MaxUse * Slack(m)
  BY DEF Bounded
<1>2. Pending(m)' \subseteq Pending(m)
  BY DEF Pending
<1>3. Cardinality(Pending(m)') <= Cardinality(Pending(m))
  BY <1>2, PendingCount, FS_Subset
<1>4. /\ MaxUse * Cardinality(Pending(m)') \in Nat
      /\ MaxUse * Cardinality(Pending(m)') <= MaxUse * Cardinality(Pending(m))
  BY <1>3, PendingCount, PendingCountNext, Times
<1>5. cap[l] <= cap'[l] /\ cap'[l] \in Nat
  BY DEF TypeOK
<1> QED
  BY <1>1, <1>4, <1>5, BoundTypes, SMT

\* A step that records a call takes it out of the pending calls.
LEMMA RecordKeeps ==
    ASSUME TypeOK, TypeOK', Sane, Bounded, NEW c \in Calls,
           UNCHANGED allocation, Record(c), use[c] # Nothing => Owes(c),
           \A m \in 0..now, d \in Calls : d \in Pending(m)' => d \in Pending(m) /\ d # c
    PROVE  Bounded'
<1> SUFFICES ASSUME NEW l \in Limits, NEW m \in 0..now
             PROVE  used'[l][m] + MaxUse * Cardinality(Pending(m)') < cap[l] + MaxUse * Slack(m)
  BY DEF Bounded, Slack, allocation
<1>1. used[l][m] + MaxUse * Cardinality(Pending(m)) < cap[l] + MaxUse * Slack(m)
  BY DEF Bounded
<1>2. Pending(m)' \subseteq Pending(m) /\ c \notin Pending(m)'
  BY DEF Pending
<1>3. Cardinality(Pending(m)') <= Cardinality(Pending(m))
  BY <1>2, PendingCount, FS_Subset
<1>4. /\ MaxUse * Cardinality(Pending(m)') \in Nat
      /\ MaxUse * Cardinality(Pending(m)') <= MaxUse * Cardinality(Pending(m))
  BY <1>3, PendingCount, PendingCountNext, Times
<1>5. use[c][l] \in Nat /\ use[c][l] <= MaxUse /\ MaxUse \in Nat
  <2>1. use[c] \in [Limits -> 0..MaxUse]
    BY DEF TypeOK, Amount
  <2> QED
    BY <2>1, MaxUseAssumption
<1>6. used'[l][m] = IF m = req[c].month THEN used[l][m] + use[c][l] ELSE used[l][m]
  BY BoundTypes DEF Record
<1>7. CASE m # req[c].month \/ use[c] = Nothing
  <2>1. used'[l][m] = used[l][m]
    BY <1>6, <1>7, BoundTypes, NothingType
  <2> QED
    BY <2>1, <1>1, <1>4, BoundTypes, SMT
<1>8. CASE m = req[c].month /\ use[c] # Nothing
  <2>1. c \in Pending(m)
    <3>1. Owes(c) /\ req[c].month = m
      BY <1>8
    <3> QED
      BY <3>1, OwesPends
  <2>2. /\ IsFiniteSet(Pending(m) \ {c})
        /\ Cardinality(Pending(m) \ {c}) = Cardinality(Pending(m)) - 1
    BY <2>1, PendingCount, FS_RemoveElement
  <2>3. Cardinality(Pending(m)') <= Cardinality(Pending(m)) - 1
    <3>1. Pending(m)' \subseteq Pending(m) \ {c}
      BY <1>2
    <3> QED
      BY <3>1, <2>2, FS_Subset
  <2>4. Cardinality(Pending(m)') + 1 \in Nat /\ Cardinality(Pending(m)') + 1 <= Cardinality(Pending(m))
    BY <2>3, PendingCount, PendingCountNext
  <2>5. MaxUse * (Cardinality(Pending(m)') + 1) <= MaxUse * Cardinality(Pending(m))
    BY <2>4, PendingCount, Times
  <2>6. MaxUse * (Cardinality(Pending(m)') + 1) = MaxUse * Cardinality(Pending(m)') + MaxUse
    BY PendingCountNext, TimesNext
  <2>7. used'[l][m] = used[l][m] + use[c][l]
    BY <1>6, <1>8
  <2> QED
    BY <2>5, <2>6, <2>7, <1>1, <1>4, <1>5, BoundTypes, SMT
<1> QED
  BY <1>7, <1>8

\* Letting a call through keeps the bound: the sum is below the limit, and
\* however many calls are pending, there are only N of them.
LEMMA CheckQuotaKeeps ==
    ASSUME TypeOK, TypeOK', Sane, Bounded, NEW c \in Calls, CheckQuota(c)
    PROVE  Bounded'
<1> SUFFICES ASSUME NEW l \in Limits, NEW m \in 0..now
             PROVE  used[l][m] + MaxUse * Cardinality(Pending(m)') < cap[l] + MaxUse * Slack(m)
  BY DEF Bounded, Slack, CheckQuota, allocation
<1>1. CASE m = now
  <2>1. used[l][now] < limit[c][l] /\ limit[c][l] <= cap[l]
    BY DEF CheckQuota, Sane, SaneCall
  <2>2. limit[c][l] \in Nat
    BY DEF TypeOK
  <2>3. MaxUse * Cardinality(Pending(m)') \in Nat /\ MaxUse * Cardinality(Pending(m)') <= MaxUse * N
    BY PendingCountNext, CallsCount, Times
  <2>4. Slack(m) = N
    BY <1>1 DEF Slack
  <2>5. used[l][now] < cap[l]
    BY <2>1, <2>2, <1>1, BoundTypes
  <2> QED
    BY <1>1, <2>3, <2>4, <2>5, BoundTypes, SMT
<1>2. CASE m # now
  <2>1. used[l][m] + MaxUse * Cardinality(Pending(m)) < cap[l] + MaxUse * Slack(m)
    BY DEF Bounded
  <2>2. \A d \in Calls : d \in Pending(m)' => d \in Pending(m)
    BY <1>2 DEF CheckQuota, Pending, Owes, Early, Goto, TypeOK, allocation
  <2>3. Pending(m)' \subseteq Pending(m)
    BY <2>2 DEF Pending
  <2>4. Cardinality(Pending(m)') <= Cardinality(Pending(m))
    BY <2>3, PendingCount, FS_Subset
  <2>5. /\ MaxUse * Cardinality(Pending(m)') \in Nat
        /\ MaxUse * Cardinality(Pending(m)') <= MaxUse * Cardinality(Pending(m))
    BY <2>4, PendingCount, PendingCountNext, Times
  <2> QED
    BY <2>1, <2>5, BoundTypes, SMT
<1> QED
  BY <1>1, <1>2

\* At the end of a month the calls of that month still to be checked join the
\* pending ones, and there are at most N of them too.
LEMMA TickKeeps ==
    ASSUME TypeOK, TypeOK', Sane, Bounded, Tick
    PROVE  Bounded'
<1> SUFFICES ASSUME NEW l \in Limits, NEW m \in 0..now'
             PROVE  used[l][m] + MaxUse * Cardinality(Pending(m)') < cap[l] + MaxUse * Slack(m)'
  BY DEF Bounded, Tick, calls
<1>0. /\ now \in Nat /\ now' = now + 1 /\ now' \in 0..MaxMonth /\ m \in 0..MaxMonth
      /\ cap[l] \in Nat /\ N \in Nat /\ N >= 1
  BY MonthAssumption, CallsCount DEF Tick, TypeOK
<1>1. CASE m = now'
  <2>1. used[l][m] = 0
    BY <1>0, <1>1 DEF Sane
  <2>2. Pending(m)' = {}
    BY <1>0, <1>1 DEF Pending, Sane, SaneCall, Tick, calls, TypeOK
  <2>3. MaxUse * 0 = 0 /\ MaxUse * 1 = MaxUse /\ MaxUse >= 1 /\ MaxUse \in Nat
    BY MaxUseAssumption, SMT
  <2>4. MaxUse * 1 <= MaxUse * N /\ MaxUse * N \in Nat
    BY <1>0, Times
  <2>5. Slack(m)' = N
    BY <1>1 DEF Slack, N
  <2> QED
    BY <2>1, <2>2, <2>3, <2>4, <2>5, <1>0, FS_EmptySet, SMT
<1>2. CASE m = now
  <2>1. used[l][m] + MaxUse * Cardinality(Pending(m)) < cap[l] + MaxUse * N
    BY <1>2, <1>0 DEF Bounded, Slack
  <2>2. MaxUse * Cardinality(Pending(m)') \in Nat /\ MaxUse * Cardinality(Pending(m)') <= MaxUse * N
    BY PendingCountNext, CallsCount, Times
  <2>3. Slack(m)' = 2 * N
    BY <1>2, <1>0 DEF Slack, N
  <2>4. MaxUse * (2 * N) = MaxUse * N + MaxUse * N
    BY <1>0, MaxUseAssumption, SMT
  <2>5. used[l][m] \in Nat /\ MaxUse * Cardinality(Pending(m)) \in Nat
    BY <1>2, <1>0, BoundTypes
  <2>6. MaxUse * N \in Nat
    BY <1>0, MaxUseAssumption, SMT
  <2> QED
    BY <2>1, <2>2, <2>3, <2>4, <2>5, <2>6, <1>0, SMT
<1>3. CASE m < now
  <2>1. m \in 0..now
    BY <1>0, <1>3
  <2>2. used[l][m] + MaxUse * Cardinality(Pending(m)) < cap[l] + MaxUse * Slack(m)
    BY <2>1 DEF Bounded
  <2>3. Pending(m)' = Pending(m)
    BY <1>0, <1>3 DEF Pending, Owes, Early, Tick, calls
  <2>4. Slack(m)' = Slack(m)
    BY <1>0, <1>3 DEF Slack, N
  <2> QED
    BY <2>2, <2>3, <2>4
<1> QED
  BY <1>0, <1>1, <1>2, <1>3

\* Every action keeps the bound.
LEMMA NextBounded == IInv /\ TypeOK' /\ [Next]_vars => Bounded'
<1> SUFFICES ASSUME TypeOK, Sane, Bounded, TypeOK', [Next]_vars PROVE Bounded'
  BY DEF IInv
\* A call moves without billing anything or becoming pending.
<1>1. ASSUME NEW c \in Calls, UNCHANGED <<allocation, used>>,
             \A d \in Calls \ {c} : (Owes(d)' => Owes(d)) /\ (Early(d)' => Early(d)) /\ req'[d] = req[d],
             \A m \in 0..now : c \in Pending(m)' => c \in Pending(m)
      PROVE  Bounded'
  <2>1. now' = now /\ cap' = cap /\ used' = used
    BY <1>1 DEF allocation
  <2>2. \A m \in 0..now, d \in Calls \ {c} : d \in Pending(m)' => d \in Pending(m)
    BY <1>1, <2>1 DEF Pending
  <2>3. \A l \in Limits : cap[l] <= cap'[l]
    BY <2>1 DEF TypeOK
  <2> QED
    BY <1>1, <2>1, <2>2, <2>3, ShrinkKeeps
<1> USE DEF Goto
<1>2. ASSUME NEW c \in Calls, NEW kind \in Kinds, NEW params \in SUBSET Params, Arrive(c, kind, params) PROVE Bounded'
  <2>1. UNCHANGED <<allocation, used>>
    BY <1>2 DEF Arrive, Free
  <2>2. \A d \in Calls \ {c} : (Owes(d)' => Owes(d)) /\ (Early(d)' => Early(d)) /\ req'[d] = req[d]
    BY <1>2 DEF Owes, Early, TypeOK, Arrive, Free
  <2>3. \A m \in 0..now : c \in Pending(m)' => c \in Pending(m)
    BY <1>2 DEF Pending, Owes, Early, allocation, TypeOK, Sane, SaneCall, Arrive, Free
  <2> QED
    BY <2>1, <2>2, <2>3, <1>1
<1>3. ASSUME NEW c \in Calls, Authorize(c) PROVE Bounded'
  <2>1. UNCHANGED <<allocation, used>>
    BY <1>3 DEF Authorize
  <2>2. \A d \in Calls \ {c} : (Owes(d)' => Owes(d)) /\ (Early(d)' => Early(d)) /\ req'[d] = req[d]
    BY <1>3 DEF Owes, Early, TypeOK, Authorize
  <2>3. \A m \in 0..now : c \in Pending(m)' => c \in Pending(m)
    BY <1>3 DEF Pending, Owes, Early, allocation, TypeOK, Sane, SaneCall, Authorize
  <2> QED
    BY <2>1, <2>2, <2>3, <1>1
<1>4. ASSUME NEW c \in Calls, Refuse(c) PROVE Bounded'
  <2>1. UNCHANGED <<allocation, used>>
    BY <1>4 DEF Refuse
  <2>2. \A d \in Calls \ {c} : (Owes(d)' => Owes(d)) /\ (Early(d)' => Early(d)) /\ req'[d] = req[d]
    BY <1>4 DEF Owes, Early, TypeOK, Refuse
  <2>3. \A m \in 0..now : c \in Pending(m)' => c \in Pending(m)
    BY <1>4 DEF Pending, Owes, Early, allocation, TypeOK, Sane, SaneCall, Refuse
  <2> QED
    BY <2>1, <2>2, <2>3, <1>1
<1>5. ASSUME NEW c \in Calls, RefuseUnknown(c) PROVE Bounded'
  <2>1. UNCHANGED <<allocation, used>>
    BY <1>5 DEF RefuseUnknown
  <2>2. \A d \in Calls \ {c} : (Owes(d)' => Owes(d)) /\ (Early(d)' => Early(d)) /\ req'[d] = req[d]
    BY <1>5 DEF Owes, Early, TypeOK, RefuseUnknown
  <2>3. \A m \in 0..now : c \in Pending(m)' => c \in Pending(m)
    BY <1>5 DEF Pending, Owes, Early, allocation, TypeOK, Sane, SaneCall, RefuseUnknown
  <2> QED
    BY <2>1, <2>2, <2>3, <1>1
<1>6. ASSUME NEW c \in Calls, RejectParam(c) PROVE Bounded'
  <2>1. UNCHANGED <<allocation, used>>
    BY <1>6 DEF RejectParam
  <2>2. \A d \in Calls \ {c} : (Owes(d)' => Owes(d)) /\ (Early(d)' => Early(d)) /\ req'[d] = req[d]
    BY <1>6 DEF Owes, Early, TypeOK, RejectParam
  <2>3. \A m \in 0..now : c \in Pending(m)' => c \in Pending(m)
    BY <1>6 DEF Pending, Owes, Early, allocation, TypeOK, Sane, SaneCall, RejectParam
  <2> QED
    BY <2>1, <2>2, <2>3, <1>1
<1>7. ASSUME NEW c \in Calls, OpenStream(c) PROVE Bounded'
  <2>1. UNCHANGED <<allocation, used>>
    BY <1>7 DEF OpenStream
  <2>2. \A d \in Calls \ {c} : (Owes(d)' => Owes(d)) /\ (Early(d)' => Early(d)) /\ req'[d] = req[d]
    BY <1>7 DEF Owes, Early, TypeOK, OpenStream
  <2>3. \A m \in 0..now : c \in Pending(m)' => c \in Pending(m)
    BY <1>7 DEF Pending, Owes, Early, allocation, TypeOK, Sane, SaneCall, OpenStream
  <2> QED
    BY <2>1, <2>2, <2>3, <1>1
<1>8. ASSUME NEW c \in Calls, Flush(c) PROVE Bounded'
  <2>1. UNCHANGED <<allocation, used>>
    BY <1>8 DEF Flush
  <2>2. \A d \in Calls \ {c} : (Owes(d)' => Owes(d)) /\ (Early(d)' => Early(d)) /\ req'[d] = req[d]
    BY <1>8 DEF Owes, Early, TypeOK, Flush
  <2>3. \A m \in 0..now : c \in Pending(m)' => c \in Pending(m)
    BY <1>8 DEF Pending, Owes, Early, allocation, TypeOK, Sane, SaneCall, Flush
  <2> QED
    BY <2>1, <2>2, <2>3, <1>1
<1>9. ASSUME NEW c \in Calls, NEW u \in Amount, Answer(c, u) PROVE Bounded'
  <2>1. UNCHANGED <<allocation, used>>
    BY <1>9 DEF Answer
  <2>2. \A d \in Calls \ {c} : (Owes(d)' => Owes(d)) /\ (Early(d)' => Early(d)) /\ req'[d] = req[d]
    BY <1>9 DEF Owes, Early, TypeOK, Answer
  <2>3. \A m \in 0..now : c \in Pending(m)' => c \in Pending(m)
    BY <1>9 DEF Pending, Owes, Early, allocation, TypeOK, Sane, SaneCall, Answer
  <2> QED
    BY <2>1, <2>2, <2>3, <1>1
<1>10. ASSUME NEW c \in Calls, NEW u \in Amount, ReportUsage(c, u) PROVE Bounded'
  <2>1. UNCHANGED <<allocation, used>>
    BY <1>10 DEF ReportUsage
  <2>2. \A d \in Calls \ {c} : (Owes(d)' => Owes(d)) /\ (Early(d)' => Early(d)) /\ req'[d] = req[d]
    BY <1>10 DEF Owes, Early, TypeOK, ReportUsage
  <2>3. \A m \in 0..now : c \in Pending(m)' => c \in Pending(m)
    BY <1>10 DEF Pending, Owes, Early, allocation, TypeOK, Sane, SaneCall, ReportUsage
  <2> QED
    BY <2>1, <2>2, <2>3, <1>1
<1>11. ASSUME NEW c \in Calls, Fail(c) PROVE Bounded'
  <2>1. UNCHANGED <<allocation, used>>
    BY <1>11 DEF Fail, Finish, NoReq
  <2>2. \A d \in Calls \ {c} : (Owes(d)' => Owes(d)) /\ (Early(d)' => Early(d)) /\ req'[d] = req[d]
    BY <1>11 DEF Owes, Early, TypeOK, Fail, Finish, NoReq
  <2>3. \A m \in 0..now : c \in Pending(m)' => c \in Pending(m)
    BY <1>11 DEF Pending, Owes, Early, allocation, TypeOK, Sane, SaneCall, Fail, Finish, NoReq
  <2> QED
    BY <2>1, <2>2, <2>3, <1>1
<1>12. ASSUME NEW c \in Calls, CloseStream(c) PROVE Bounded'
  <2>1. UNCHANGED <<allocation, used>>
    BY <1>12 DEF CloseStream, Finish, NoReq
  <2>2. \A d \in Calls \ {c} : (Owes(d)' => Owes(d)) /\ (Early(d)' => Early(d)) /\ req'[d] = req[d]
    BY <1>12 DEF Owes, Early, TypeOK, CloseStream, Finish, NoReq
  <2>3. \A m \in 0..now : c \in Pending(m)' => c \in Pending(m)
    BY <1>12 DEF Pending, Owes, Early, allocation, TypeOK, Sane, SaneCall, CloseStream, Finish, NoReq
  <2> QED
    BY <2>1, <2>2, <2>3, <1>1
<1>13. ASSUME NEW c \in Calls, SaveFails(c) PROVE Bounded'
  <2>1. UNCHANGED <<allocation, used>>
    BY <1>13 DEF SaveFails, AfterSave, Finish, NoReq
  <2>2. \A d \in Calls \ {c} : (Owes(d)' => Owes(d)) /\ (Early(d)' => Early(d)) /\ req'[d] = req[d]
    BY <1>13 DEF Owes, Early, TypeOK, SaveFails, AfterSave, Finish, NoReq
  <2>3. \A m \in 0..now : c \in Pending(m)' => c \in Pending(m)
    <3>1. CASE phase[c] = "saving"
      <4>1. phase'[c] = "streaming" /\ c \in saved'
        BY <1>13, <3>1 DEF SaveFails, AfterSave, TypeOK
      <4> QED
        BY <1>13, <4>1 DEF Pending, Owes, Early, SaveFails, allocation
    <3>2. CASE phase[c] = "closing"
      <4>1. phase'[c] = "done"
        BY <1>13, <3>2 DEF SaveFails, AfterSave, Finish, TypeOK
      <4> QED
        BY <1>13, <4>1 DEF Pending, Owes, Early, SaveFails, allocation
    <3> QED
      BY <1>13, <3>1, <3>2 DEF SaveFails
  <2> QED
    BY <2>1, <2>2, <2>3, <1>1
<1>14. ASSUME NEW c \in Calls, Disconnect(c) PROVE Bounded'
  <2>1. UNCHANGED <<allocation, used>>
    BY <1>14 DEF Disconnect
  <2>2. \A d \in Calls \ {c} : (Owes(d)' => Owes(d)) /\ (Early(d)' => Early(d)) /\ req'[d] = req[d]
    BY <1>14 DEF Owes, Early, TypeOK, Disconnect
  <2>3. \A m \in 0..now : c \in Pending(m)' => c \in Pending(m)
    BY <1>14 DEF Pending, Owes, Early, allocation, TypeOK, Sane, SaneCall, Disconnect
  <2> QED
    BY <2>1, <2>2, <2>3, <1>1
<1>15. ASSUME NEW c \in Calls, Retry(c) PROVE Bounded'
  <2>1. /\ UNCHANGED <<allocation, used, use, saved>>
        /\ phase[c] = "retrying" /\ phase' = [phase EXCEPT ![c] = "admitted"]
        /\ req'[c].month = req[c].month /\ \A d \in Calls \ {c} : req'[d] = req[d]
    BY <1>15 DEF Retry, TypeOK
  <2>2. \A d \in Calls \ {c} : (Owes(d)' => Owes(d)) /\ (Early(d)' => Early(d)) /\ req'[d] = req[d]
    BY <2>1 DEF Owes, Early, TypeOK
  <2>3. \A m \in 0..now : c \in Pending(m)' => c \in Pending(m)
    BY <2>1 DEF Pending, Owes, Early, allocation, TypeOK
  <2> QED
    BY <2>1, <2>2, <2>3, <1>1
<1>16. ASSUME NEW c \in Calls, CheckQuota(c) PROVE Bounded'
  BY <1>16, CheckQuotaKeeps
<1>17. ASSUME NEW c \in Calls, Commit(c) PROVE Bounded'
  <2>1. UNCHANGED allocation /\ Record(c)
    BY <1>17 DEF Commit
  <2>2. use[c] # Nothing => Owes(c)
    BY <1>17 DEF Commit, Owes
  <2>3. ~ Owes(c)' /\ ~ Early(c)'
    BY <1>17 DEF Owes, Early, TypeOK, Commit, Finish, NoReq
  <2>4. \A d \in Calls \ {c} : (Owes(d)' => Owes(d)) /\ (Early(d)' => Early(d)) /\ req'[d] = req[d]
    BY <1>17 DEF Owes, Early, TypeOK, Commit, Finish, NoReq
  <2>5. \A m \in 0..now, d \in Calls : d \in Pending(m)' => d \in Pending(m) /\ d # c
    BY <2>1, <2>3, <2>4 DEF Pending, allocation
  <2> QED
    BY <2>1, <2>2, <2>5, RecordKeeps
<1>18. ASSUME NEW c \in Calls, Save(c) PROVE Bounded'
  <2>1. UNCHANGED allocation /\ Record(c)
    BY <1>18 DEF Save
  <2>2. use[c] # Nothing => Owes(c)
    BY <1>18 DEF Save, Owes
  <2>3. ~ Owes(c)' /\ ~ Early(c)'
    BY <1>18 DEF Owes, Early, TypeOK, Save, AfterSave, Finish, NoReq
  <2>4. \A d \in Calls \ {c} : (Owes(d)' => Owes(d)) /\ (Early(d)' => Early(d)) /\ req'[d] = req[d]
    BY <1>18 DEF Owes, Early, TypeOK, Save, AfterSave, Finish, NoReq
  <2>5. \A m \in 0..now, d \in Calls : d \in Pending(m)' => d \in Pending(m) /\ d # c
    BY <2>1, <2>3, <2>4 DEF Pending, allocation
  <2> QED
    BY <2>1, <2>2, <2>5, RecordKeeps
<1>19. ASSUME Tick PROVE Bounded'
  BY <1>19, TickKeeps
<1>20. ASSUME NEW q \in [Limits -> Quotas], SetQuota(q) PROVE Bounded'
  <2>1. now' = now /\ used' = used /\ UNCHANGED calls
    BY <1>20 DEF SetQuota, calls
  <2>2. \A l \in Limits : cap[l] <= cap'[l]
    <3>1. ASSUME NEW l \in Limits PROVE cap[l] <= cap'[l]
      <4>1. q[l] \in Nat /\ cap[l] \in Nat
        BY QuotasAssumption DEF TypeOK
      <4>2. cap'[l] = IF q[l] > cap[l] THEN q[l] ELSE cap[l]
        BY <1>20 DEF SetQuota
      <4> QED
        BY <4>1, <4>2
    <3> QED
      BY <3>1
  <2>3. \A m \in 0..now, d \in Calls : d \in Pending(m)' => d \in Pending(m)
    BY <2>1 DEF Pending, Owes, Early, calls
  <2> QED
    BY <2>1, <2>2, <2>3, ShrinkKeeps
<1>21. ASSUME NEW s \in {"active", "blocked"}, SetStatus(s) PROVE Bounded'
  <2>1. now' = now /\ used' = used /\ UNCHANGED calls
    BY <1>21 DEF SetStatus, calls
  <2>2. \A l \in Limits : cap[l] <= cap'[l]
    BY <1>21 DEF SetStatus, TypeOK
  <2>3. \A m \in 0..now, d \in Calls : d \in Pending(m)' => d \in Pending(m)
    BY <2>1 DEF Pending, Owes, Early, calls
  <2> QED
    BY <2>1, <2>2, <2>3, ShrinkKeeps
<1>22. ASSUME Delete PROVE Bounded'
  <2>1. now' = now /\ used' = used /\ UNCHANGED calls
    BY <1>22 DEF Delete, calls
  <2>2. \A l \in Limits : cap[l] <= cap'[l]
    BY <1>22 DEF Delete, TypeOK
  <2>3. \A m \in 0..now, d \in Calls : d \in Pending(m)' => d \in Pending(m)
    BY <2>1 DEF Pending, Owes, Early, calls
  <2> QED
    BY <2>1, <2>2, <2>3, ShrinkKeeps
<1>23. CASE UNCHANGED vars
  BY <1>23 DEF vars, Bounded, Pending, Owes, Early, Slack
<1> HIDE DEF Goto
<1>24. CASE Next
  BY <1>24, <1>2, <1>3, <1>4, <1>5, <1>6, <1>7, <1>8, <1>9, <1>10, <1>11, <1>12, <1>13,
     <1>14, <1>15, <1>16, <1>17, <1>18, <1>19, <1>20, <1>21, <1>22
     DEF Next, Request, Handle, Administer, Kinds
<1> QED
  BY <1>23, <1>24

\* The inductive invariant holds in every reachable state.
LEMMA Inductive == Spec => []IInv
<1>1. Init => IInv
  BY InitInv
<1>2. IInv /\ [Next]_vars => IInv'
  BY NextTypes, NextSane, NextBounded DEF IInv
<1> QED
  BY <1>1, <1>2, PTL DEF Spec

-----------------------------------------------------------------------------
(* Theorems.                                                               *)

\* Every handler keeps the sums, the allocation and the calls well typed.
THEOREM TypeCorrect == Spec => []TypeOK
<1>1. IInv => TypeOK
  BY DEF IInv
<1> QED
  BY <1>1, Inductive, PTL

\* run_preflight: concurrent calls cannot push a quota further than MaxUse for
\* each of them, twice that once the month is over.
THEOREM QuotaHolds == Spec => []OvershootBounded
<1>1. IInv => OvershootBounded
  <2> SUFFICES ASSUME IInv, NEW l \in Limits, NEW m \in 0..now
               PROVE  used[l][m] < cap[l] + MaxUse * (IF m = now THEN N ELSE 2 * N)
    BY DEF OvershootBounded
  <2>1. used[l][m] + MaxUse * Cardinality(Pending(m)) < cap[l] + MaxUse * Slack(m)
    BY DEF IInv, Bounded
  <2>2. used[l][m] < cap[l] + MaxUse * Slack(m)
    BY <2>1, BoundTypes DEF IInv
  <2> QED
    BY <2>2 DEF Slack
<1> QED
  BY <1>1, Inductive, PTL

\* Every path through a handler records its call once, or fails.
THEOREM RecordsAreExact == Spec => []ExactlyOneRecord
<1>1. IInv => ExactlyOneRecord
  BY DEF IInv, Sane, SaneCall, ExactlyOneRecord
<1> QED
  BY <1>1, Inductive, PTL

-----------------------------------------------------------------------------
(* Blocking an allocation.                                                 *)

\* A record that bills nothing leaves the sums as they are.
LEMMA RecordNothing ==
    ASSUME TypeOK, NEW c \in Calls, Record(c), use[c] = Nothing
    PROVE  used' = used
<1>1. ASSUME NEW l \in Limits, NEW m \in 0..MaxMonth
      PROVE  used[l][m] + use[c][l] = used[l][m]
  <2>1. used[l] \in [0..MaxMonth -> Nat]
    BY DEF TypeOK
  <2>2. used[l][m] \in Nat /\ use[c][l] = 0
    BY <2>1, NothingType
  <2> QED
    BY <2>2
<1>2. used' = [l \in Limits |-> [m \in 0..MaxMonth |-> used[l][m]]]
  BY <1>1 DEF Record
<1>3. \A l \in Limits : used[l] = [m \in 0..MaxMonth |-> used[l][m]]
  BY DEF TypeOK
<1>4. used = [l \in Limits |-> used[l]]
  BY DEF TypeOK
<1> QED
  BY <1>2, <1>3, <1>4

\* A step in a quiet state bills nothing and stays quiet or lifts the block.
LEMMA QuietStep ==
    TypeOK /\ Sane /\ [Next]_vars /\ Quiet => used' = used /\ (Quiet' \/ status' = "active")
<1> SUFFICES ASSUME TypeOK, Sane, [Next]_vars, Quiet
             PROVE  used' = used /\ (Quiet' \/ status' = "active")
  OBVIOUS
<1> DEFINE Goal == used' = used /\ (Quiet' \/ status' = "active")
\* It is enough that the call that moves does not owe anything afterwards.
<1>1. ASSUME NEW c \in Calls, UNCHANGED <<used, status>>, ~ Owes(c)', phase'[c] # "authorized",
             \A d \in Calls \ {c} : phase'[d] = phase[d] /\ use'[d] = use[d],
             \A d \in Calls \ {c} : d \in saved' <=> d \in saved
      PROVE  Goal
  <2>1. \A d \in Calls : ~ Owes(d) /\ phase[d] # "authorized"
    BY DEF Quiet
  <2>2. \A d \in Calls \ {c} : Owes(d)' => Owes(d)
    BY <1>1 DEF Owes
  <2>3. \A d \in Calls : ~ Owes(d)' /\ phase'[d] # "authorized"
    BY <1>1, <2>1, <2>2
  <2>4. status' = status /\ used' = used
    BY <1>1
  <2> QED
    BY <2>3, <2>4 DEF Quiet
<1> USE DEF Quiet, Owes, Goto, TypeOK, allocation
<1> HIDE DEF Goal
<1>2. ASSUME NEW c \in Calls, NEW kind \in Kinds, NEW params \in SUBSET Params, Arrive(c, kind, params) PROVE Goal
  BY <1>2, <1>1 DEF Arrive, Free, Sane, SaneCall
<1>3. ASSUME NEW c \in Calls, Authorize(c) PROVE Goal
  BY <1>3 DEF Authorize
<1>4. ASSUME NEW c \in Calls, CheckQuota(c) PROVE Goal
  BY <1>4 DEF CheckQuota
<1>5. ASSUME NEW c \in Calls, Refuse(c) PROVE Goal
  BY <1>5, <1>1 DEF Refuse, Sane, SaneCall
<1>6. ASSUME NEW c \in Calls, RefuseUnknown(c) PROVE Goal
  BY <1>6, <1>1 DEF RefuseUnknown, Sane, SaneCall
<1>7. ASSUME NEW c \in Calls, RejectParam(c) PROVE Goal
  BY <1>7 DEF RejectParam
<1>8. ASSUME NEW c \in Calls, Retry(c) PROVE Goal
  BY <1>8 DEF Retry
<1>9. ASSUME NEW c \in Calls, OpenStream(c) PROVE Goal
  BY <1>9 DEF OpenStream
<1>10. ASSUME NEW c \in Calls, Flush(c) PROVE Goal
  BY <1>10, <1>1 DEF Flush
<1>11. ASSUME NEW c \in Calls, NEW u \in Amount, Answer(c, u) PROVE Goal
  BY <1>11 DEF Answer
<1>12. ASSUME NEW c \in Calls, NEW u \in Amount, ReportUsage(c, u) PROVE Goal
  BY <1>12 DEF ReportUsage
<1>13. ASSUME NEW c \in Calls, Fail(c) PROVE Goal
  BY <1>13, <1>1 DEF Fail, Finish, NoReq
<1>14. ASSUME NEW c \in Calls, CloseStream(c) PROVE Goal
  BY <1>14, <1>1 DEF CloseStream, Finish, NoReq
<1>15. ASSUME NEW c \in Calls, SaveFails(c) PROVE Goal
  BY <1>15, <1>1 DEF SaveFails, AfterSave, Finish, NoReq
<1>16. ASSUME NEW c \in Calls, Disconnect(c) PROVE Goal
  BY <1>16, <1>1 DEF Disconnect
<1>17. ASSUME NEW c \in Calls, Commit(c) PROVE Goal
  <2>1. used' = used
    BY <1>17, RecordNothing DEF Commit
  <2> QED
    BY <1>17, <2>1, <1>1 DEF Commit, Finish, NoReq
<1>18. ASSUME NEW c \in Calls, Save(c) PROVE Goal
  <2>1. used' = used
    BY <1>18, RecordNothing DEF Save
  <2> QED
    BY <1>18, <2>1, <1>1 DEF Save, AfterSave, Finish, NoReq
<1>19. ASSUME Tick PROVE Goal
  BY <1>19 DEF Tick, calls, Goal
<1>20. ASSUME NEW q \in [Limits -> Quotas], SetQuota(q) PROVE Goal
  BY <1>20 DEF SetQuota, calls, Goal
<1>21. ASSUME NEW s \in {"active", "blocked"}, SetStatus(s) PROVE Goal
  BY <1>21 DEF SetStatus, calls, Goal
<1>22. ASSUME Delete PROVE Goal
  BY <1>22 DEF Delete, calls, Goal
<1>23. CASE UNCHANGED vars
  BY <1>23 DEF vars, Goal
<1> HIDE DEF Quiet, Owes, Goto, TypeOK, allocation
<1>24. CASE Next
  BY <1>24, <1>2, <1>3, <1>4, <1>5, <1>6, <1>7, <1>8, <1>9, <1>10, <1>11, <1>12, <1>13,
     <1>14, <1>15, <1>16, <1>17, <1>18, <1>19, <1>20, <1>21, <1>22
     DEF Next, Request, Handle, Administer, Kinds, Goal
<1> QED
  BY <1>23, <1>24 DEF Goal

\* run_preflight's status check: once the calls authorized before have ended,
\* a blocked or deleted allocation is billed nothing.
THEOREM BlockingStopsBilling == Spec => BlockedStopsBilling
<1>1. IInv /\ [Next]_vars => [Quiet => used' = used /\ (Quiet' \/ status' = "active")]_vars
  BY QuietStep DEF IInv
<1> QED
  BY <1>1, Inductive, PTL DEF Spec, BlockedStopsBilling

-----------------------------------------------------------------------------
(* The records implement the ledger.                                       *)

\* The sums once u is added in month i.
Raised(i, u) ==
    [l \in Limits |-> [m \in 0..MaxMonth |->
        IF m = i THEN used[l][m] + u[l] ELSE used[l][m]]]

\* Billing nothing to any month leaves the sums as they are.
LEMMA AddNothing ==
    ASSUME TypeOK, NEW i
    PROVE  used = Raised(i, Nothing)
<1>1. ASSUME NEW l \in Limits, NEW m \in 0..MaxMonth
      PROVE  used[l][m] + Nothing[l] = used[l][m]
  <2>1. used[l] \in [0..MaxMonth -> Nat]
    BY DEF TypeOK
  <2>2. used[l][m] \in Nat /\ Nothing[l] = 0
    BY <2>1, NothingType
  <2> QED
    BY <2>2
<1>2. \A l \in Limits : used[l] = [m \in 0..MaxMonth |-> used[l][m]]
  BY DEF TypeOK
<1>3. used = [l \in Limits |-> used[l]]
  BY DEF TypeOK
<1> QED
  BY <1>1, <1>2, <1>3 DEF Raised

\* A handler that moves neither into nor out of the ledger is not seen there.
LEMMA Unseen ==
    ASSUME NEW c \in Calls, UNCHANGED <<now, used>>, Unsettled(c)' = Unsettled(c),
           Unsettled(c) => req'[c].month = req[c].month,
           \A d \in Calls \ {c} : Unsettled(d)' = Unsettled(d) /\ req'[d] = req[d]
    PROVE  UNCHANGED Ledger!vars
<1>1. \A d \in Calls : Due'[d] = Due[d]
  BY DEF Due
<1>2. Due' = Due
  BY <1>1 DEF Due
<1> QED
  BY <1>2 DEF Ledger!vars

\* A call that ends, or whose stream has its record, is settled.
LEMMA Settles ==
    ASSUME TypeOK, NEW c \in Calls, Unsettled(c), ~ Unsettled(c)', now' = now, NEW u \in Amount,
           used' = Raised(req[c].month, u),
           \A d \in Calls \ {c} : Unsettled(d)' = Unsettled(d) /\ req'[d] = req[d]
    PROVE  Ledger!Settle(c, u)
<1>1. Due[c] = req[c].month /\ req[c].month \in 0..MaxMonth /\ req[c].month # MaxMonth + 1
  BY MonthAssumption DEF Due, TypeOK
<1>2. Due' = [Due EXCEPT ![c] = MaxMonth + 1]
  BY DEF Due
<1> QED
  BY <1>1, <1>2 DEF Ledger!Settle, Ledger!Settled, Raised

\* Every step of the gateway is a step of the ledger or is not seen there.
LEMMA LedgerStep ==
    TypeOK /\ Sane /\ [Next]_vars => [Ledger!Next]_(Ledger!vars)
<1> SUFFICES ASSUME TypeOK, Sane, [Next]_vars
             PROVE  [Ledger!Next]_(Ledger!vars)
  OBVIOUS
<1> DEFINE Goal == Ledger!Next \/ UNCHANGED Ledger!vars
<1>0. \A c \in Calls : c \in saved => phase[c] = "streaming"
  BY DEF Sane, SaneCall
<1>1. ASSUME NEW c \in Calls, NEW u \in Amount, Ledger!Settle(c, u) PROVE Goal
  BY <1>1 DEF Ledger!Next, Amount
<1> HIDE DEF Goal
<1>2. ASSUME NEW c \in Calls, NEW kind \in Kinds, NEW params \in SUBSET Params, Arrive(c, kind, params) PROVE Goal
  <2>1. /\ UNCHANGED <<now, used>> /\ ~ Unsettled(c)
        /\ Unsettled(c)' /\ req'[c].month = now
        /\ \A d \in Calls \ {c} : Unsettled(d)' = Unsettled(d) /\ req'[d] = req[d]
    BY <1>2, <1>0 DEF Arrive, Goto, Free, Unsettled, allocation, TypeOK
  <2>2. Due[c] = MaxMonth + 1 /\ Due' = [Due EXCEPT ![c] = now]
    BY <2>1 DEF Due
  <2>3. Ledger!Start(c)
    BY <2>1, <2>2 DEF Ledger!Start, Ledger!Settled
  <2> QED
    BY <2>3 DEF Ledger!Next, Goal
<1>3. ASSUME NEW c \in Calls, Authorize(c) PROVE Goal
  <2>1. /\ UNCHANGED <<now, used>> /\ Unsettled(c)' = Unsettled(c)
        /\ Unsettled(c) => req'[c].month = req[c].month
        /\ \A d \in Calls \ {c} : Unsettled(d)' = Unsettled(d) /\ req'[d] = req[d]
    BY <1>3, <1>0 DEF Authorize, Goto, Free, Unsettled, allocation, TypeOK
  <2> QED
    BY <2>1, Unseen DEF Goal
<1>4. ASSUME NEW c \in Calls, CheckQuota(c) PROVE Goal
  <2>1. /\ UNCHANGED <<now, used>> /\ Unsettled(c)' = Unsettled(c)
        /\ Unsettled(c) => req'[c].month = req[c].month
        /\ \A d \in Calls \ {c} : Unsettled(d)' = Unsettled(d) /\ req'[d] = req[d]
    BY <1>4, <1>0 DEF CheckQuota, Goto, Free, Unsettled, allocation, TypeOK
  <2> QED
    BY <2>1, Unseen DEF Goal
<1>5. ASSUME NEW c \in Calls, Refuse(c) PROVE Goal
  <2>1. /\ UNCHANGED <<now, used>> /\ Unsettled(c)' = Unsettled(c)
        /\ Unsettled(c) => req'[c].month = req[c].month
        /\ \A d \in Calls \ {c} : Unsettled(d)' = Unsettled(d) /\ req'[d] = req[d]
    BY <1>5, <1>0 DEF Refuse, Goto, Free, Unsettled, allocation, TypeOK
  <2> QED
    BY <2>1, Unseen DEF Goal
<1>6. ASSUME NEW c \in Calls, RefuseUnknown(c) PROVE Goal
  <2>1. /\ UNCHANGED <<now, used>> /\ Unsettled(c)' = Unsettled(c)
        /\ Unsettled(c) => req'[c].month = req[c].month
        /\ \A d \in Calls \ {c} : Unsettled(d)' = Unsettled(d) /\ req'[d] = req[d]
    BY <1>6, <1>0 DEF RefuseUnknown, Goto, Free, Unsettled, allocation, TypeOK
  <2> QED
    BY <2>1, Unseen DEF Goal
<1>7. ASSUME NEW c \in Calls, RejectParam(c) PROVE Goal
  <2>1. /\ UNCHANGED <<now, used>> /\ Unsettled(c)' = Unsettled(c)
        /\ Unsettled(c) => req'[c].month = req[c].month
        /\ \A d \in Calls \ {c} : Unsettled(d)' = Unsettled(d) /\ req'[d] = req[d]
    BY <1>7, <1>0 DEF RejectParam, Goto, Free, Unsettled, allocation, TypeOK
  <2> QED
    BY <2>1, Unseen DEF Goal
<1>8. ASSUME NEW c \in Calls, Retry(c) PROVE Goal
  <2>1. /\ UNCHANGED <<now, used>> /\ Unsettled(c)' = Unsettled(c)
        /\ Unsettled(c) => req'[c].month = req[c].month
        /\ \A d \in Calls \ {c} : Unsettled(d)' = Unsettled(d) /\ req'[d] = req[d]
    BY <1>8, <1>0 DEF Retry, Goto, Free, Unsettled, allocation, TypeOK
  <2> QED
    BY <2>1, Unseen DEF Goal
<1>9. ASSUME NEW c \in Calls, OpenStream(c) PROVE Goal
  <2>1. /\ UNCHANGED <<now, used>> /\ Unsettled(c)' = Unsettled(c)
        /\ Unsettled(c) => req'[c].month = req[c].month
        /\ \A d \in Calls \ {c} : Unsettled(d)' = Unsettled(d) /\ req'[d] = req[d]
    BY <1>9, <1>0 DEF OpenStream, Goto, Free, Unsettled, allocation, TypeOK
  <2> QED
    BY <2>1, Unseen DEF Goal
<1>10. ASSUME NEW c \in Calls, Flush(c) PROVE Goal
  <2>1. /\ UNCHANGED <<now, used>> /\ Unsettled(c)' = Unsettled(c)
        /\ Unsettled(c) => req'[c].month = req[c].month
        /\ \A d \in Calls \ {c} : Unsettled(d)' = Unsettled(d) /\ req'[d] = req[d]
    BY <1>10, <1>0 DEF Flush, Goto, Free, Unsettled, allocation, TypeOK
  <2> QED
    BY <2>1, Unseen DEF Goal
<1>11. ASSUME NEW c \in Calls, Disconnect(c) PROVE Goal
  <2>1. /\ UNCHANGED <<now, used>> /\ Unsettled(c)' = Unsettled(c)
        /\ Unsettled(c) => req'[c].month = req[c].month
        /\ \A d \in Calls \ {c} : Unsettled(d)' = Unsettled(d) /\ req'[d] = req[d]
    BY <1>11, <1>0 DEF Disconnect, Goto, Free, Unsettled, allocation, TypeOK
  <2> QED
    BY <2>1, Unseen DEF Goal
<1>12. ASSUME NEW c \in Calls, NEW u \in Amount, Answer(c, u) PROVE Goal
  <2>1. /\ UNCHANGED <<now, used>> /\ Unsettled(c)' = Unsettled(c)
        /\ Unsettled(c) => req'[c].month = req[c].month
        /\ \A d \in Calls \ {c} : Unsettled(d)' = Unsettled(d) /\ req'[d] = req[d]
    BY <1>12, <1>0 DEF Answer, Goto, Free, Unsettled, allocation, TypeOK
  <2> QED
    BY <2>1, Unseen DEF Goal
<1>13. ASSUME NEW c \in Calls, NEW u \in Amount, ReportUsage(c, u) PROVE Goal
  <2>1. /\ UNCHANGED <<now, used>> /\ Unsettled(c)' = Unsettled(c)
        /\ Unsettled(c) => req'[c].month = req[c].month
        /\ \A d \in Calls \ {c} : Unsettled(d)' = Unsettled(d) /\ req'[d] = req[d]
    BY <1>13, <1>0 DEF ReportUsage, Goto, Free, Unsettled, allocation, TypeOK
  <2> QED
    BY <2>1, Unseen DEF Goal
<1>14. ASSUME NEW c \in Calls, Commit(c) PROVE Goal
  <2>1. /\ now' = now /\ Unsettled(c) /\ ~ Unsettled(c)'
        /\ \A d \in Calls \ {c} : Unsettled(d)' = Unsettled(d) /\ req'[d] = req[d]
    BY <1>14, <1>0 DEF Commit, Finish, Goto, Free, Unsettled, allocation, TypeOK
  <2>2. used' = Raised(req[c].month, use[c])
    BY <1>14 DEF Commit, Record, Raised
  <2>3. use[c] \in Amount
    BY NothingType DEF TypeOK
  <2> QED
    BY <2>1, <2>2, <2>3, Settles, <1>1
<1>15. ASSUME NEW c \in Calls, Save(c) PROVE Goal
  <2>1. /\ now' = now /\ Unsettled(c) /\ ~ Unsettled(c)'
        /\ \A d \in Calls \ {c} : Unsettled(d)' = Unsettled(d) /\ req'[d] = req[d]
    BY <1>15, <1>0 DEF Save, AfterSave, Finish, Goto, Free, Unsettled, allocation, TypeOK
  <2>2. used' = Raised(req[c].month, use[c])
    BY <1>15 DEF Save, Record, Raised
  <2>3. use[c] \in Amount
    BY NothingType DEF TypeOK
  <2> QED
    BY <2>1, <2>2, <2>3, Settles, <1>1
<1>16. ASSUME NEW c \in Calls, Fail(c) PROVE Goal
  <2>1. /\ now' = now /\ Unsettled(c) /\ ~ Unsettled(c)'
        /\ \A d \in Calls \ {c} : Unsettled(d)' = Unsettled(d) /\ req'[d] = req[d]
    BY <1>16, <1>0 DEF Fail, Finish, Goto, Free, Unsettled, allocation, TypeOK
  <2>2. used' = Raised(req[c].month, Nothing)
    <3>1. used' = used
      BY <1>16 DEF Fail
    <3> QED
      BY <3>1, AddNothing
  <2>3. Nothing \in Amount
    BY NothingType DEF TypeOK
  <2> QED
    BY <2>1, <2>2, <2>3, Settles, <1>1
<1>17. ASSUME NEW c \in Calls, SaveFails(c) PROVE Goal
  <2>1. /\ now' = now /\ Unsettled(c) /\ ~ Unsettled(c)'
        /\ \A d \in Calls \ {c} : Unsettled(d)' = Unsettled(d) /\ req'[d] = req[d]
    BY <1>17, <1>0 DEF SaveFails, AfterSave, Finish, Goto, Free, Unsettled, allocation, TypeOK
  <2>2. used' = Raised(req[c].month, Nothing)
    <3>1. used' = used
      BY <1>17 DEF SaveFails
    <3> QED
      BY <3>1, AddNothing
  <2>3. Nothing \in Amount
    BY NothingType DEF TypeOK
  <2> QED
    BY <2>1, <2>2, <2>3, Settles, <1>1
<1>18. ASSUME NEW c \in Calls, CloseStream(c) PROVE Goal
  <2>1. /\ UNCHANGED <<now, used>> /\ Unsettled(c)' = Unsettled(c)
        /\ Unsettled(c) => req'[c].month = req[c].month
        /\ \A d \in Calls \ {c} : Unsettled(d)' = Unsettled(d) /\ req'[d] = req[d]
    BY <1>18, <1>0 DEF CloseStream, Finish, Goto, Free, Unsettled, allocation, TypeOK
  <2> QED
    BY <2>1, Unseen DEF Goal
<1>19. ASSUME Tick PROVE Goal
  <2>1. Due' = Due
    BY <1>19 DEF Tick, calls, Due, Unsettled, Free
  <2> QED
    BY <1>19, <2>1 DEF Tick, calls, Ledger!Tick, Ledger!Next, Goal
<1>20. ASSUME UNCHANGED <<now, calls>> PROVE Goal
  <2>1. Due' = Due
    BY <1>20 DEF calls, Due, Unsettled, Free
  <2> QED
    BY <1>20, <2>1 DEF calls, Ledger!vars, Goal
<1>21. ASSUME Administer PROVE Goal
  <2>1. UNCHANGED <<now, calls>>
    BY <1>21 DEF Administer, SetQuota, SetStatus, Delete, calls
  <2> QED
    BY <2>1, <1>20
<1>22. ASSUME UNCHANGED vars PROVE Goal
  <2>1. UNCHANGED <<now, calls>>
    BY <1>22 DEF vars, calls
  <2> QED
    BY <2>1, <1>20
<1>23. ASSUME Next PROVE Goal
  BY <1>23, <1>2, <1>3, <1>4, <1>5, <1>6, <1>7, <1>8, <1>9, <1>10, <1>11, <1>12, <1>13, <1>14, <1>15, <1>16, <1>17, <1>18, <1>19, <1>20, <1>21
     DEF Next, Request, Handle, Kinds
<1> QED
  BY <1>22, <1>23 DEF Goal

\* Every behaviour of the handlers is a behaviour of the abstract ledger: no
\* path charges a call twice, or to a month other than the one it started in.
THEOREM ImplementsLedger == Spec => LedgerSpec
<1>1. Init => Ledger!Init
  BY DEF Init, Ledger!Init, Ledger!Settled, Due, Unsettled, Free
<1>2. IInv /\ [Next]_vars => [Ledger!Next]_(Ledger!vars)
  BY LedgerStep DEF IInv
<1> QED
  BY <1>1, <1>2, Inductive, PTL DEF Spec, LedgerSpec, Ledger!Spec

-----------------------------------------------------------------------------
(* The allocation that is metered, as the one row of a table.              *)

Table == INSTANCE AllocationRows
           WITH Members <- {0}, Allocs <- {0}, Owner <- [a \in {0} |-> 0],
                gone <- IF status = "deleted" THEN {0} ELSE {},
                alloc <- [a \in {0} |-> status]

\* Whatever can become of a row while no flushed record refers to it, an
\* administrator may do at that point of the calls (the loaders of preflight.py
\* and responses.py hold no lock on it): metering is right for every lifecycle.
THEOREM MeteredThroughEveryChange ==
    ASSUME TypeOK, Table!Next, UNCHANGED <<now, quota, cap, calls>>,
           \A c \in Calls : phase[c] # "flushed"
    PROVE  Administer \/ UNCHANGED vars
<1> DEFINE row == [a \in {0} |-> status]
           lost == IF status = "deleted" THEN {0} ELSE {}
<1>1. status \in {"active", "blocked", "deleted"}
  BY DEF TypeOK
<1>2. ASSUME Table!Insert(0) PROVE FALSE
  BY <1>1, <1>2 DEF Table!Insert
<1>3. ASSUME NEW S \in SUBSET {0}, NEW s \in {"active", "blocked"}, Table!Move(S, s)
      PROVE  Administer \/ UNCHANGED vars
  <2>1. row' = [a \in {0} |-> IF a \in S THEN s ELSE row[a]] /\ \A a \in S : row[a] # "deleted"
    BY <1>3 DEF Table!Move, Table!InTable
  <2>2. row'[0] = status' /\ row[0] = status
    OBVIOUS
  <2>3. CASE 0 \in S
    <3>1. status' = s /\ status # "deleted"
      BY <2>1, <2>2, <2>3
    <3> QED
      BY <3>1 DEF Administer, SetStatus
  <2>4. CASE 0 \notin S
    <3>1. status' = status
      BY <2>1, <2>2, <2>4
    <3> QED
      BY <3>1 DEF vars, calls
  <2> QED
    BY <2>3, <2>4
<1>4. ASSUME Table!Remove(0) PROVE Administer \/ UNCHANGED vars
  <2>1. /\ 0 \notin lost /\ lost' = lost \cup {0}
    BY <1>4 DEF Table!Remove
  <2>2. status # "deleted" /\ status' = "deleted"
    BY <2>1
  <2> QED
    BY <2>2 DEF Administer, Delete
<1> QED
  BY <1>2, <1>3, <1>4 DEF Table!Next
=============================================================================
