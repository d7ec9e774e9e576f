---------------------------- MODULE RealtimeRelay ----------------------------
(***************************************************************************)
(* The realtime relay: connections of one allocation, each with two        *)
(* forwarding tasks, a watch that re-reads the allocation and the month's  *)
(* cost, and a handler that hangs up, cancels the tasks and bills the      *)
(* audio in one record.  Tasks of a connection share its session object    *)
(* and interleave at every await.                                          *)
(***************************************************************************)
EXTENDS Naturals, FiniteSets

CONSTANTS
    Conns,
    Caps,       \* monthly cost caps an administrator may set
    Rates,      \* bytes of audio per billed unit, as session.update sets it
    MaxAudio,   \* bound: bytes of audio a connection sends
    MaxSpent,   \* bound: cost recorded by other calls
    None

ASSUME CapsAssumption == Caps \subseteq Nat /\ None \notin Caps
ASSUME RatesAssumption == Rates \subseteq Nat \ {0} /\ Rates # {}
ASSUME BoundsAssumption == MaxAudio \in Nat /\ MaxSpent \in Nat

VARIABLES
    active,     \* the allocation's status is active
    cap,        \* quota_cost_usd_per_month
    spent,      \* what other successful calls of the month cost
    conn,       \* each connection's RealtimeSession and tasks
    record,     \* the CallRecord of each connection
    shut        \* history: connections during which the allocation was not active

vars == <<active, cap, spent, conn, record, shut>>

Verdicts == {"revoked", "cost_exceeded"}
Reasons == {"normal", "client_abort", "upstream_error"} \cup Verdicts
Phases == {"new", "opening", "relay", "closing", "billing", "done"}
Conn == [phase : Phases, reason : Reasons, stop : BOOLEAN,
         up : BOOLEAN, down : BOOLEAN,                        \* forwarding tasks running
         watch : {"off", "wait", "status", "cost"},
         audio : 0..MaxAudio, rate : Rates, cap : Caps \cup {None},
         told : Reasons, outcome : {"success", "upstream_error"}]

\* The one type invariant; who stops the relay has said why.
TypeOK ==
    /\ active \in BOOLEAN /\ cap \in Caps \cup {None} /\ spent \in Nat
    /\ conn \in [Conns -> Conn]
    /\ record \in [Conns -> {None} \cup [outcome : {"success", "upstream_error"},
                                           note : Verdicts \cup {"none"}, quantity : Nat]]
    /\ shut \subseteq Conns
    /\ \A c \in Conns : conn[c].stop => conn[c].reason # "normal"

-----------------------------------------------------------------------------
\* pcm_bytes_to_seconds, pcm_bytes_to_minutes: a started unit is billed, over
\* the geometry the last session.update gave.
Units(bytes, rate) == (bytes + rate - 1) \div rate

\* session_running_cost, one unit of cost for a unit of audio.
Running(c) == Units(conn[c].audio, conn[c].rate)


Over(c) == conn[c].cap # None /\ spent + Running(c) >= conn[c].cap

Set(c, rec) == conn' = [conn EXCEPT ![c] = rec]
At(c, phase) == conn[c].phase = phase

\* A task that ends names its reason unless another one was first, and stops
\* the relay.
Ended(s, why) ==
    [s EXCEPT !.reason = IF @ = "normal" THEN why ELSE @, !.stop = TRUE]

-----------------------------------------------------------------------------
\* handle_realtime up to the upstream connection: a preflight over the state of
\* this moment, which also fixes the cap the watch will compare with.
Accept(c) ==
    /\ At(c, "new") /\ active /\ (cap # None => spent < cap)
    /\ Set(c, [conn[c] EXCEPT !.phase = "opening", !.cap = cap])
    /\ UNCHANGED <<active, cap, spent, record, shut>>

\* The upstream is connected and took the first frame: run_relay starts.
StartRelay(c) ==
    /\ At(c, "opening")
    /\ Set(c, [conn[c] EXCEPT !.phase = "relay", !.up = TRUE, !.down = TRUE, !.watch = "wait"])
    /\ UNCHANGED <<active, cap, spent, record, shut>>

\* The upstream refuses the connection or the first frame: straight to the bill.
OpenFails(c) ==
    /\ At(c, "opening")
    /\ Set(c, [conn[c] EXCEPT !.phase = "billing", !.reason = "upstream_error",
                              !.told = "upstream_error", !.outcome = "upstream_error"])
    /\ UNCHANGED <<active, cap, spent, record, shut>>

\* _meter_client_event, on the frame _client_to_upstream has just received.
ClientFrame(c, bytes, rate) ==
    /\ conn[c].up /\ conn[c].audio + bytes <= MaxAudio
    /\ bytes = 0 \/ rate = conn[c].rate
    /\ Set(c, [conn[c] EXCEPT !.audio = @ + bytes, !.rate = rate])
    /\ UNCHANGED <<active, cap, spent, record, shut>>

\* receive_text or upstream.send raises.
UpEnds(c, why) ==
    /\ conn[c].up
    /\ Set(c, [Ended(conn[c], why) EXCEPT !.up = FALSE])
    /\ UNCHANGED <<active, cap, spent, record, shut>>

\* upstream.recv or client.send_text raises.
DownEnds(c, why) ==
    /\ conn[c].down
    /\ Set(c, [Ended(conn[c], why) EXCEPT !.down = FALSE])
    /\ UNCHANGED <<active, cap, spent, record, shut>>

\* The watch wakes: the relay has stopped, or the interval is over.
WatchWakes(c) ==
    /\ conn[c].watch = "wait"
    /\ Set(c, [conn[c] EXCEPT !.watch = IF conn[c].stop THEN "off" ELSE "status"])
    /\ UNCHANGED <<active, cap, spent, record, shut>>

\* The verdict is written whatever reason stands there.
Verdict(c, why) ==
    Set(c, [conn[c] EXCEPT !.reason = why, !.stop = TRUE, !.watch = "off"])
Continue(c) ==
    Set(c, [conn[c] EXCEPT !.watch = IF conn[c].stop THEN "off" ELSE "wait"])

\* _allocation_is_active answers.
StatusRead(c) ==
    /\ conn[c].watch = "status"
    /\ IF active THEN Set(c, [conn[c] EXCEPT !.watch = "cost"]) ELSE Verdict(c, "revoked")
    /\ UNCHANGED <<active, cap, spent, record, shut>>

\* _allocation_over_cost answers.
CostRead(c) ==
    /\ conn[c].watch = "cost"
    /\ IF Over(c) THEN Verdict(c, "cost_exceeded") ELSE Continue(c)
    /\ UNCHANGED <<active, cap, spent, record, shut>>

\* Mutant: the watch ends with the first error.
ReadFails_Ends(c) ==
    /\ conn[c].watch \in {"status", "cost"}
    /\ Set(c, [conn[c] EXCEPT !.watch = "off"])
    /\ UNCHANGED <<active, cap, spent, record, shut>>
\* A query fails: an unreadable status counts as active, an unreadable cost as
\* below the cap.
ReadFails(c) ==
    /\ \/ conn[c].watch = "status" /\ Set(c, [conn[c] EXCEPT !.watch = "cost"])
       \/ conn[c].watch = "cost" /\ Continue(c)
    /\ UNCHANGED <<active, cap, spent, record, shut>>

\* run_relay wakes up, closes both ends and tells the client the reason of
\* this moment; the tasks are still there.
HangUp(c) ==
    /\ At(c, "relay") /\ conn[c].stop
    /\ Set(c, [conn[c] EXCEPT !.phase = "closing", !.told = conn[c].reason])
    /\ UNCHANGED <<active, cap, spent, record, shut>>

\* _outcome_for_close
Outcome(reason) == IF reason = "upstream_error" THEN "upstream_error" ELSE "success"

\* Mutant: only the forwarding tasks are cancelled.
Teardown_WatchLeft(c) ==
    /\ At(c, "closing")
    /\ Set(c, [conn[c] EXCEPT !.phase = "billing", !.up = FALSE, !.down = FALSE,
                              !.outcome = Outcome(conn[c].reason)])
    /\ UNCHANGED <<active, cap, spent, record, shut>>
\* Mutant: the task that reads from the client is not cancelled.
Teardown_ReaderLeft(c) ==
    /\ At(c, "closing")
    /\ Set(c, [conn[c] EXCEPT !.phase = "billing", !.down = FALSE, !.watch = "off",
                              !.outcome = Outcome(conn[c].reason)])
    /\ UNCHANGED <<active, cap, spent, record, shut>>
\* Cancel and gather the tasks; _bill_session then begins with the outcome.
Teardown(c) ==
    /\ At(c, "closing")
    /\ Set(c, [conn[c] EXCEPT !.phase = "billing", !.up = FALSE, !.down = FALSE,
                              !.watch = "off", !.outcome = Outcome(conn[c].reason)])
    /\ UNCHANGED <<active, cap, spent, record, shut>>

\* The rest of _bill_session: the message is chosen after the price was read.
Bill(c) ==
    LET s == conn[c] IN
    /\ At(c, "billing")
    /\ record' = [record EXCEPT ![c] =
          [outcome |-> s.outcome, note |-> IF s.reason \in Verdicts THEN s.reason ELSE "none",
           quantity |-> Running(c)]]
    /\ spent' = IF s.outcome = "success" THEN spent + Running(c) ELSE spent
    /\ Set(c, [s EXCEPT !.phase = "done"])
    /\ UNCHANGED <<active, cap, shut>>

\* The record cannot be written: logged and swallowed.
BillFails(c) ==
    /\ At(c, "billing")
    /\ Set(c, [conn[c] EXCEPT !.phase = "done"])
    /\ UNCHANGED <<active, cap, spent, record, shut>>

-----------------------------------------------------------------------------
\* Pauses, revocations, quarantines and their undoing.
SetStatus(on) ==
    /\ active # on
    /\ active' = on
    /\ shut' = IF on THEN shut ELSE shut \cup {c \in Conns : conn[c].phase \notin {"new", "done"}}
    /\ UNCHANGED <<cap, spent, conn, record>>

\* patch_allocation; an open connection keeps the cap it started with.
SetCap(x) ==
    /\ cap # x
    /\ cap' = x
    /\ UNCHANGED <<active, spent, conn, record, shut>>

\* Another call of the allocation is recorded.
OtherCall ==
    /\ spent < MaxSpent
    /\ spent' = spent + 1
    /\ UNCHANGED <<active, cap, conn, record, shut>>

Fresh == [phase |-> "new", reason |-> "normal", stop |-> FALSE, up |-> FALSE, down |-> FALSE,
          watch |-> "off", audio |-> 0, rate |-> CHOOSE r \in Rates : TRUE, cap |-> None,
          told |-> "normal", outcome |-> "success"]

Init ==
    /\ active = TRUE /\ cap \in Caps \cup {None} /\ spent = 0
    /\ conn = [c \in Conns |-> Fresh]
    /\ record = [c \in Conns |-> None]
    /\ shut = {}

Next ==
    \/ \E on \in BOOLEAN : SetStatus(on)
    \/ \E x \in Caps \cup {None} : SetCap(x)
    \/ OtherCall
    \/ \E c \in Conns :
          \/ Accept(c) \/ StartRelay(c) \/ OpenFails(c)
          \/ \E bytes \in 0..MaxAudio, rate \in Rates : ClientFrame(c, bytes, rate)
          \/ \E why \in {"client_abort", "upstream_error"} : UpEnds(c, why) \/ DownEnds(c, why)
          \/ WatchWakes(c) \/ StatusRead(c) \/ CostRead(c) \/ ReadFails(c)
          \/ HangUp(c) \/ Teardown(c) \/ Bill(c) \/ BillFails(c)

Spec == Init /\ [][Next]_vars

\* Timers fire, a query that is retried at every interval succeeds some time,
\* and the handler's own steps are taken.  Clients, upstreams and
\* administrators need never do anything.
Fairness ==
    \A c \in Conns :
        /\ WF_vars(WatchWakes(c)) /\ SF_vars(StatusRead(c)) /\ SF_vars(CostRead(c))
        /\ WF_vars(HangUp(c)) /\ WF_vars(Teardown(c)) /\ WF_vars(Bill(c) \/ BillFails(c))

FairSpec == Spec /\ Fairness

-----------------------------------------------------------------------------
\* The watch may overwrite the reason of a connection that has already ended
\* (realtime.py:308), and the close code and the two columns of the record
\* read that reason at three different moments.  They still agree: a client
\* told of a verdict finds that verdict in the record, a record that carries
\* a verdict is a success, and one without shows the outcome of what was told;
\* and a record names a revocation only if the allocation was inactive for a time
\* of the connection: neither failing queries nor late overwrites invent one.
ReasonsAgree ==
    \A c \in Conns : record[c] # None =>
        /\ conn[c].told \in Verdicts => record[c].note = conn[c].told
        /\ IF record[c].note = "none" THEN record[c].outcome = Outcome(conn[c].told)
           ELSE record[c].outcome = "success"
        /\ record[c].note = "revoked" => c \in shut

\* "Billing on disconnect never loses usage" (realtime.py:196): on every
\* path the record holds all the audio the connection ever metered, whichever
\* task was still reading while the other ones ended.
AllAudioBilled ==
    \A c \in Conns : record[c] # None =>
        /\ record[c].quantity * conn[c].rate >= conn[c].audio
        /\ (record[c].quantity = 0) <=> (conn[c].audio = 0)

\* A connection whose allocation stays inactive, or whose own audio and the
\* month's records stay at the cap, is closed and accounted for, though the
\* watch skips every check whose query fails.
CondemnedEnds ==
    \A c \in Conns :
        /\ []([](~ active) => (At(c, "relay") => <>At(c, "done")))
        /\ []([]Over(c) => (At(c, "relay") => <>At(c, "done")))
==============================================================================
