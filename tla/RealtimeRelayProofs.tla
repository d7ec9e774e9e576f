------------------------- MODULE RealtimeRelayProofs -------------------------
(***************************************************************************)
(* The relay's records for any number of connections, any caps and rates   *)
(* and any amount of audio.  A connection's state is changed by its own    *)
(* tasks only, so what is inductive is said of one connection: where its   *)
(* tasks may still run, when its reason can change, and what it was told.  *)
(***************************************************************************)
EXTENDS RealtimeRelay, TLAPS

\* Tasks run between the start of the relay and its teardown; a verdict ends
\* the watch, so nobody overwrites it; who was told something else than the
\* verdict that stands was told no verdict.
Local(c) ==
    LET s == conn[c] IN
    /\ s.watch # "off" \/ s.up \/ s.down => s.phase \in {"relay", "closing"}
    /\ s.phase \in {"new", "opening"} => s.reason = "normal" /\ ~ s.stop
    /\ s.phase = "closing" => s.stop
    /\ s.reason \in Verdicts => s.watch = "off"
    /\ s.phase \in {"closing", "billing", "done"} =>
          s.told = s.reason \/ (s.told \notin Verdicts /\ s.reason \in Verdicts)
    /\ s.phase \in {"billing", "done"} => s.outcome = Outcome(s.reason)
    /\ s.reason = "revoked" => c \in shut
    /\ ~ active /\ s.phase \notin {"new", "done"} => c \in shut
    /\ record[c] # None =>
          /\ s.phase = "done"
          /\ record[c].note = IF s.reason \in Verdicts THEN s.reason ELSE "none"
          /\ record[c].outcome = s.outcome
          /\ record[c].quantity = Units(s.audio, s.rate)

Inv == TypeOK /\ \A c \in Conns : Local(c)

-----------------------------------------------------------------------------
\* A step of connection c that writes no record: the others are as they were.
LEMMA OwnStep ==
    ASSUME Inv, NEW c \in Conns, NEW s \in Conn, Set(c, s), s.stop => s.reason # "normal",
           UNCHANGED <<active, cap, spent, record, shut>>, Local(c)'
    PROVE  Inv'
<1>1. conn' = [conn EXCEPT ![c] = s] /\ conn \in [Conns -> Conn]
  BY DEF Set, Inv, TypeOK
<1>2. TypeOK'
  BY <1>1 DEF Inv, TypeOK
<1>3. ASSUME NEW d \in Conns, d # c
      PROVE  Local(d)'
  <2>1. conn'[d] = conn[d]
    BY <1>1, <1>3
  <2> QED BY <2>1 DEF Inv, Local
<1> QED BY <1>2, <1>3 DEF Inv

\* The pre-flight lets a connection in while the allocation is active.
LEMMA AcceptKeeps ==
    ASSUME Inv, NEW c \in Conns, Accept(c)
    PROVE  Inv'
<1> DEFINE s == [conn[c] EXCEPT !.phase = "opening", !.cap = cap]
<1>1. conn[c] \in Conn /\ cap \in Caps \cup {None} /\ Local(c)
      /\ (conn[c].stop => conn[c].reason # "normal")
  BY DEF Inv, TypeOK
<1>2. Set(c, s) /\ UNCHANGED <<active, cap, spent, record, shut>> /\ active /\ conn[c].phase = "new"
  BY DEF Accept, At
<1>3. s \in Conn
  BY <1>1, <1>2 DEF Conn, Phases, Reasons, Verdicts
<1>4. s.stop => s.reason # "normal"
  BY <1>1, <1>2 DEF Conn, Local, Verdicts
<1>5. conn'[c] = s
  BY <1>2 DEF Set, Inv, TypeOK
<1>6. Local(c)'
  BY <1>1, <1>2, <1>5 DEF Local, Conn, Phases, Reasons, Verdicts, Outcome
<1> HIDE DEF s
<1> QED BY <1>2, <1>3, <1>4, <1>6, OwnStep

\* The three tasks start.
LEMMA StartKeeps ==
    ASSUME Inv, NEW c \in Conns, StartRelay(c)
    PROVE  Inv'
<1> DEFINE s == [conn[c] EXCEPT !.phase = "relay", !.up = TRUE, !.down = TRUE, !.watch = "wait"]
<1>1. conn[c] \in Conn /\ cap \in Caps \cup {None} /\ Local(c)
      /\ (conn[c].stop => conn[c].reason # "normal")
  BY DEF Inv, TypeOK
<1>2. Set(c, s) /\ UNCHANGED <<active, cap, spent, record, shut>> /\ conn[c].phase = "opening"
  BY DEF StartRelay, At
<1>3. s \in Conn
  BY <1>1, <1>2 DEF Conn, Phases, Reasons, Verdicts
<1>4. s.stop => s.reason # "normal"
  BY <1>1, <1>2 DEF Conn, Local, Verdicts
<1>5. conn'[c] = s
  BY <1>2 DEF Set, Inv, TypeOK
<1>6. Local(c)'
  BY <1>1, <1>2, <1>5 DEF Local, Conn, Phases, Reasons, Verdicts, Outcome
<1> HIDE DEF s
<1> QED BY <1>2, <1>3, <1>4, <1>6, OwnStep

\* A connection the upstream refuses has no tasks.
LEMMA OpenFailsKeeps ==
    ASSUME Inv, NEW c \in Conns, OpenFails(c)
    PROVE  Inv'
<1> DEFINE s == [conn[c] EXCEPT !.phase = "billing", !.reason = "upstream_error",
                              !.told = "upstream_error", !.outcome = "upstream_error"]
<1>1. conn[c] \in Conn /\ cap \in Caps \cup {None} /\ Local(c)
      /\ (conn[c].stop => conn[c].reason # "normal")
  BY DEF Inv, TypeOK
<1>2. Set(c, s) /\ UNCHANGED <<active, cap, spent, record, shut>> /\ conn[c].phase = "opening"
  BY DEF OpenFails, At
<1>3. s \in Conn
  BY <1>1, <1>2 DEF Conn, Phases, Reasons, Verdicts
<1>4. s.stop => s.reason # "normal"
  BY <1>1, <1>2 DEF Conn, Local, Verdicts
<1>5. conn'[c] = s
  BY <1>2 DEF Set, Inv, TypeOK
<1>6. Local(c)'
  BY <1>1, <1>2, <1>5 DEF Local, Conn, Phases, Reasons, Verdicts, Outcome
<1> HIDE DEF s
<1> QED BY <1>2, <1>3, <1>4, <1>6, OwnStep

\* A frame only adds audio.
LEMMA FrameKeeps ==
    ASSUME Inv, NEW c \in Conns, NEW bytes \in 0..MaxAudio, NEW rate \in Rates,
           ClientFrame(c, bytes, rate)
    PROVE  Inv'
<1> DEFINE s == [conn[c] EXCEPT !.audio = conn[c].audio + bytes, !.rate = rate]
<1>1. conn[c] \in Conn /\ cap \in Caps \cup {None} /\ Local(c)
      /\ (conn[c].stop => conn[c].reason # "normal")
  BY DEF Inv, TypeOK
<1>2. Set(c, s) /\ UNCHANGED <<active, cap, spent, record, shut>> /\ conn[c].up
  BY DEF ClientFrame
<1>3. s \in Conn
  <2>1. conn[c].audio \in 0..MaxAudio /\ conn[c].audio + bytes <= MaxAudio
    BY <1>1 DEF ClientFrame, Conn
  <2>2. conn[c].audio + bytes \in 0..MaxAudio
    BY <2>1, BoundsAssumption
  <2> QED BY <1>1, <2>2 DEF Conn
<1>4. s.stop => s.reason # "normal"
  BY <1>1, <1>2 DEF Conn, Local, Verdicts
<1>5. conn'[c] = s
  BY <1>2 DEF Set, Inv, TypeOK
<1>6. Local(c)'
  BY <1>1, <1>2, <1>5 DEF Local, Conn, Phases, Reasons, Verdicts, Outcome
<1> HIDE DEF s
<1> QED BY <1>2, <1>3, <1>4, <1>6, OwnStep

\* A task that ends stops the relay and leaves the first reason.
LEMMA EndedParts ==
    ASSUME NEW s \in Conn, NEW why \in {"client_abort", "upstream_error"}
    PROVE  LET e == Ended(s, why) IN
           /\ e \in Conn /\ e.stop
           /\ e.reason = IF s.reason = "normal" THEN why ELSE s.reason
           /\ e.phase = s.phase /\ e.watch = s.watch /\ e.up = s.up /\ e.down = s.down
           /\ e.told = s.told /\ e.outcome = s.outcome /\ e.audio = s.audio /\ e.rate = s.rate
BY DEF Conn, Ended, Reasons

\* The task that reads from the client ends.
LEMMA UpEndsKeeps ==
    ASSUME Inv, NEW c \in Conns, NEW why \in {"client_abort", "upstream_error"}, UpEnds(c, why)
    PROVE  Inv'
<1> DEFINE e == Ended(conn[c], why)
           s == [e EXCEPT !.up = FALSE]
<1>1. conn[c] \in Conn /\ Local(c) /\ (conn[c].stop => conn[c].reason # "normal")
  BY DEF Inv, TypeOK
<1>2. Set(c, s) /\ UNCHANGED <<active, cap, spent, record, shut>> /\ conn[c].up
  BY DEF UpEnds
<1>3. /\ e \in Conn /\ e.stop
      /\ e.reason = IF conn[c].reason = "normal" THEN why ELSE conn[c].reason
      /\ e.phase = conn[c].phase /\ e.watch = conn[c].watch
      /\ e.up = conn[c].up /\ e.down = conn[c].down /\ e.told = conn[c].told
      /\ e.outcome = conn[c].outcome /\ e.audio = conn[c].audio /\ e.rate = conn[c].rate
  BY <1>1, EndedParts
<1> HIDE DEF e
<1>4. /\ s \in Conn /\ s.stop /\ s.reason = e.reason /\ s.reason # "normal"
      /\ s.phase = e.phase /\ s.watch = e.watch /\ s.told = e.told
      /\ s.outcome = e.outcome /\ (s.up => e.up) /\ (s.down => e.down)
  BY <1>3 DEF Conn
<1> HIDE DEF s
<1>5. conn'[c] = s
  BY <1>2 DEF Set, Inv, TypeOK
<1>6. conn[c].phase \in {"relay", "closing"} /\ record[c] = None
  BY <1>1, <1>2 DEF Local
<1>7. Local(c)'
  BY <1>1, <1>2, <1>3, <1>4, <1>5, <1>6 DEF Local, Verdicts
<1> QED BY <1>2, <1>4, <1>7, OwnStep

\* The task that reads from the upstream ends.
LEMMA DownEndsKeeps ==
    ASSUME Inv, NEW c \in Conns, NEW why \in {"client_abort", "upstream_error"}, DownEnds(c, why)
    PROVE  Inv'
<1> DEFINE e == Ended(conn[c], why)
           s == [e EXCEPT !.down = FALSE]
<1>1. conn[c] \in Conn /\ Local(c) /\ (conn[c].stop => conn[c].reason # "normal")
  BY DEF Inv, TypeOK
<1>2. Set(c, s) /\ UNCHANGED <<active, cap, spent, record, shut>> /\ conn[c].down
  BY DEF DownEnds
<1>3. /\ e \in Conn /\ e.stop
      /\ e.reason = IF conn[c].reason = "normal" THEN why ELSE conn[c].reason
      /\ e.phase = conn[c].phase /\ e.watch = conn[c].watch
      /\ e.up = conn[c].up /\ e.down = conn[c].down /\ e.told = conn[c].told
      /\ e.outcome = conn[c].outcome /\ e.audio = conn[c].audio /\ e.rate = conn[c].rate
  BY <1>1, EndedParts
<1> HIDE DEF e
<1>4. /\ s \in Conn /\ s.stop /\ s.reason = e.reason /\ s.reason # "normal"
      /\ s.phase = e.phase /\ s.watch = e.watch /\ s.told = e.told
      /\ s.outcome = e.outcome /\ (s.up => e.up) /\ (s.down => e.down)
  BY <1>3 DEF Conn
<1> HIDE DEF s
<1>5. conn'[c] = s
  BY <1>2 DEF Set, Inv, TypeOK
<1>6. conn[c].phase \in {"relay", "closing"} /\ record[c] = None
  BY <1>1, <1>2 DEF Local
<1>7. Local(c)'
  BY <1>1, <1>2, <1>3, <1>4, <1>5, <1>6 DEF Local, Verdicts
<1> QED BY <1>2, <1>4, <1>7, OwnStep

\* The watch goes on to another of its states, or stops.
LEMMA WatchStep ==
    ASSUME Inv, NEW c \in Conns, NEW w \in {"off", "wait", "status", "cost"},
           conn[c].watch # "off", Set(c, [conn[c] EXCEPT !.watch = w]),
           UNCHANGED <<active, cap, spent, record, shut>>
    PROVE  Inv'
<1> DEFINE s == [conn[c] EXCEPT !.watch = w]
<1>1. conn[c] \in Conn /\ Local(c) /\ (conn[c].stop => conn[c].reason # "normal")
  BY DEF Inv, TypeOK
<1>2. s \in Conn /\ (s.stop => s.reason # "normal")
  BY <1>1 DEF Conn
<1>3. conn'[c] = s
  BY DEF Set, Inv, TypeOK
<1>4. Local(c)'
  BY <1>1, <1>3 DEF Local, Conn, Verdicts
<1>5. Set(c, s) /\ UNCHANGED <<active, cap, spent, record, shut>>
  OBVIOUS
<1> HIDE DEF s
<1> QED BY <1>2, <1>4, <1>5, OwnStep

\* A verdict is the last thing the watch says.
LEMMA VerdictStep ==
    ASSUME Inv, NEW c \in Conns, NEW why \in Verdicts, conn[c].watch # "off", Verdict(c, why),
           why = "revoked" => ~ active, UNCHANGED <<active, cap, spent, record, shut>>
    PROVE  Inv'
<1> DEFINE s == [conn[c] EXCEPT !.reason = why, !.stop = TRUE, !.watch = "off"]
<1>1. conn[c] \in Conn /\ Local(c) /\ (conn[c].stop => conn[c].reason # "normal")
  BY DEF Inv, TypeOK
<1>2. s \in Conn /\ (s.stop => s.reason # "normal")
  BY <1>1 DEF Conn, Verdicts, Reasons
<1>3. conn'[c] = s
  BY DEF Set, Verdict, Inv, TypeOK
<1>4. conn[c].phase \in {"relay", "closing"} /\ conn[c].reason \notin Verdicts
      /\ (why = "revoked" => c \in shut)
  BY <1>1 DEF Local
<1>5. Local(c)'
  BY <1>1, <1>3, <1>4 DEF Local, Conn, Verdicts
<1>6. Set(c, s)
  BY DEF Verdict
<1> HIDE DEF s
<1> QED BY <1>2, <1>5, <1>6, OwnStep

\* Every step of the watch that re-reads the status and the cost (_watch_revocation):
\* it waits, goes on, skips a failed query, or gives its verdict and ends.
LEMMA WatchKeeps ==
    ASSUME Inv, NEW c \in Conns, WatchWakes(c) \/ StatusRead(c) \/ CostRead(c) \/ ReadFails(c)
    PROVE  Inv'
<1>1. CASE WatchWakes(c)
  <2>1. CASE conn[c].stop
    BY <1>1, <2>1, WatchStep DEF WatchWakes
  <2>2. CASE ~ conn[c].stop
    BY <1>1, <2>2, WatchStep DEF WatchWakes
  <2> QED BY <2>1, <2>2
<1>2. CASE StatusRead(c)
  <2>1. CASE active
    BY <1>2, <2>1, WatchStep DEF StatusRead
  <2>2. CASE ~ active
    BY <1>2, <2>2, VerdictStep DEF StatusRead, Verdicts
  <2> QED BY <2>1, <2>2
<1>3. CASE CostRead(c)
  <2>1. CASE Over(c)
    BY <1>3, <2>1, VerdictStep DEF CostRead, Verdicts
  <2>2. CASE ~ Over(c)
    BY <1>3, <2>2, WatchStep DEF CostRead, Continue
  <2> QED BY <2>1, <2>2
<1>4. CASE ReadFails(c)
  <2>1. conn[c].watch # "off" /\ UNCHANGED <<active, cap, spent, record, shut>>
    BY <1>4 DEF ReadFails
  <2>2. CASE Set(c, [conn[c] EXCEPT !.watch = "cost"])
    BY <2>1, <2>2, WatchStep
  <2>3. CASE Continue(c)
    BY <2>1, <2>3, WatchStep DEF Continue
  <2> QED BY <1>4, <2>2, <2>3 DEF ReadFails
<1> QED BY <1>1, <1>2, <1>3, <1>4

\* The client is told the reason of this moment.
LEMMA HangUpKeeps ==
    ASSUME Inv, NEW c \in Conns, HangUp(c)
    PROVE  Inv'
<1> DEFINE s == [conn[c] EXCEPT !.phase = "closing", !.told = conn[c].reason]
<1>1. conn[c] \in Conn /\ Local(c) /\ (conn[c].stop => conn[c].reason # "normal")
  BY DEF Inv, TypeOK
<1>2. /\ Set(c, s) /\ UNCHANGED <<active, cap, spent, record, shut>>
      /\ conn[c].phase = "relay" /\ conn[c].stop
  BY DEF HangUp, At
<1>3. s \in Conn /\ (s.stop => s.reason # "normal")
  BY <1>1 DEF Conn, Phases
<1>4. conn'[c] = s
  BY <1>2 DEF Set, Inv, TypeOK
<1>5. Local(c)'
  BY <1>1, <1>2, <1>4 DEF Local, Conn, Verdicts
<1> HIDE DEF s
<1> QED BY <1>2, <1>3, <1>5, OwnStep

\* No task is left to change the reason the outcome is taken from.
LEMMA TeardownKeeps ==
    ASSUME Inv, NEW c \in Conns, Teardown(c)
    PROVE  Inv'
<1> DEFINE s == [conn[c] EXCEPT !.phase = "billing", !.up = FALSE, !.down = FALSE,
                                !.watch = "off", !.outcome = Outcome(conn[c].reason)]
<1>1. conn[c] \in Conn /\ Local(c) /\ (conn[c].stop => conn[c].reason # "normal")
  BY DEF Inv, TypeOK
<1>2. /\ Set(c, s) /\ UNCHANGED <<active, cap, spent, record, shut>>
      /\ conn[c].phase = "closing"
  BY DEF Teardown, At
<1>3. s \in Conn /\ (s.stop => s.reason # "normal")
  BY <1>1 DEF Conn, Phases, Outcome
<1>4. conn'[c] = s
  BY <1>2 DEF Set, Inv, TypeOK
<1>5. Local(c)'
  BY <1>1, <1>2, <1>4 DEF Local, Conn, Verdicts
<1> HIDE DEF s
<1> QED BY <1>2, <1>3, <1>5, OwnStep

\* The end of a connection, with or without a record.
LEMMA DoneParts ==
    ASSUME Inv, NEW c \in Conns, At(c, "billing")
    PROVE  LET s == [conn[c] EXCEPT !.phase = "done"] IN
           /\ s \in Conn /\ s.phase = "done" /\ (s.stop => s.reason # "normal")
           /\ s.watch = "off" /\ ~ s.up /\ ~ s.down /\ record[c] = None
           /\ s.reason = conn[c].reason /\ s.told = conn[c].told /\ s.outcome = conn[c].outcome
           /\ s.audio = conn[c].audio /\ s.rate = conn[c].rate
           /\ s.outcome = Outcome(s.reason)
           /\ s.told = s.reason \/ (s.told \notin Verdicts /\ s.reason \in Verdicts)
           /\ s.reason = "revoked" => c \in shut
<1>1. conn[c] \in Conn /\ Local(c) /\ (conn[c].stop => conn[c].reason # "normal")
  BY DEF Inv, TypeOK
<1> QED BY <1>1 DEF Local, Conn, Phases, At

\* A connection whose record cannot be written ends without one.
LEMMA BillFailsKeeps ==
    ASSUME Inv, NEW c \in Conns, BillFails(c)
    PROVE  Inv'
<1> DEFINE s == [conn[c] EXCEPT !.phase = "done"]
<1>1. Set(c, s) /\ UNCHANGED <<active, cap, spent, record, shut>> /\ At(c, "billing")
  BY DEF BillFails
<1>2. conn'[c] = s
  BY <1>1 DEF Set, Inv, TypeOK
<1>3. /\ s \in Conn /\ s.phase = "done" /\ (s.stop => s.reason # "normal")
      /\ s.watch = "off" /\ ~ s.up /\ ~ s.down /\ record[c] = None
      /\ s.outcome = Outcome(s.reason)
      /\ s.told = s.reason \/ (s.told \notin Verdicts /\ s.reason \in Verdicts)
      /\ s.reason = "revoked" => c \in shut
  BY <1>1, DoneParts
<1> HIDE DEF s
<1>4. Local(c)'
  BY <1>1, <1>2, <1>3 DEF Local
<1> QED BY <1>1, <1>3, <1>4, OwnStep

\* The units billed cover the audio, and there are none only without audio.
LEMMA UnitsCover ==
    ASSUME NEW b \in Nat, NEW r \in Nat \ {0}
    PROVE  /\ Units(b, r) \in Nat /\ Units(b, r) * r >= b
           /\ Units(b, r) = 0 <=> b = 0
<1> DEFINE n == b + r - 1
           q == n \div r
<1>1. n \in Nat /\ r > 0
  OBVIOUS
<1>2. q \in Nat /\ q * r <= n /\ n < (q + 1) * r
  BY <1>1, SMTT(30)
<1>3. (q + 1) * r = q * r + r
  BY <1>2
<1>4. q * r >= b
  BY <1>2, <1>3
<1>5. q = 0 <=> b = 0
  <2>1. ASSUME q = 0 PROVE b = 0
    BY <1>4, <2>1
  <2>2. ASSUME b = 0 PROVE q = 0
    <3>1. q * r < r
      BY <1>2, <2>2
    <3> QED BY <1>2, <3>1
  <2> QED BY <2>1, <2>2
<1> QED BY <1>2, <1>4, <1>5 DEF Units

\* The record is made of the connection as it is, and nothing changes it after.
LEMMA BillKeeps ==
    ASSUME Inv, NEW c \in Conns, Bill(c)
    PROVE  Inv'
<1> DEFINE s == [conn[c] EXCEPT !.phase = "done"]
           rec == [outcome |-> conn[c].outcome,
                   note |-> IF conn[c].reason \in Verdicts THEN conn[c].reason ELSE "none",
                   quantity |-> Running(c)]
<1>1. /\ Set(c, s) /\ UNCHANGED <<active, cap, shut>> /\ At(c, "billing")
      /\ record' = [record EXCEPT ![c] = rec]
      /\ spent' = IF conn[c].outcome = "success" THEN spent + Running(c) ELSE spent
  BY DEF Bill
<1>2. conn' = [conn EXCEPT ![c] = s] /\ conn[c] \in Conn
  BY <1>1 DEF Set, Inv, TypeOK
<1>3. /\ s \in Conn /\ s.phase = "done" /\ (s.stop => s.reason # "normal")
      /\ s.watch = "off" /\ ~ s.up /\ ~ s.down
      /\ s.reason = conn[c].reason /\ s.outcome = conn[c].outcome
      /\ s.audio = conn[c].audio /\ s.rate = conn[c].rate
      /\ s.outcome = Outcome(s.reason)
      /\ s.told = s.reason \/ (s.told \notin Verdicts /\ s.reason \in Verdicts)
      /\ s.reason = "revoked" => c \in shut
  BY <1>1, DoneParts
<1>4. Running(c) \in Nat
  <2>1. conn[c].audio \in Nat /\ conn[c].rate \in Nat \ {0}
    BY <1>2, BoundsAssumption, RatesAssumption DEF Conn
  <2> QED BY <2>1, UnitsCover DEF Running
<1>5. rec \in [outcome : {"success", "upstream_error"}, note : Verdicts \cup {"none"}, quantity : Nat]
  BY <1>2, <1>4 DEF Conn
<1> HIDE DEF s
<1>6. TypeOK'
  <2>1. conn' \in [Conns -> Conn] /\ (\A d \in Conns : conn'[d].stop => conn'[d].reason # "normal")
    BY <1>2, <1>3 DEF Inv, TypeOK
  <2>2. spent' \in Nat
    BY <1>1, <1>4 DEF Inv, TypeOK
  <2> HIDE DEF rec
  <2> QED BY <1>1, <1>5, <2>1, <2>2 DEF Inv, TypeOK
<1>7. ASSUME NEW d \in Conns, d # c
      PROVE  Local(d)'
  <2>1. conn'[d] = conn[d] /\ record'[d] = record[d]
    BY <1>1, <1>2, <1>7 DEF Inv, TypeOK
  <2> QED BY <1>1, <2>1 DEF Inv, Local
<1>8. Local(c)'
  <2>1. conn'[c] = s /\ record'[c] = rec
    BY <1>1, <1>2 DEF Inv, TypeOK
  <2>2. /\ record'[c].note = IF s.reason \in Verdicts THEN s.reason ELSE "none"
        /\ record'[c].outcome = s.outcome /\ record'[c].quantity = Units(s.audio, s.rate)
    <3>1. rec.outcome = s.outcome
      BY <1>3
    <3>2. rec.note = IF s.reason \in Verdicts THEN s.reason ELSE "none"
      BY <1>3
    <3>3. rec.quantity = Units(s.audio, s.rate)
      <4>1. rec.quantity = Units(conn[c].audio, conn[c].rate)
        BY DEF Running
      <4> QED BY <1>3, <4>1
    <3> HIDE DEF rec
    <3> QED BY <2>1, <3>1, <3>2, <3>3
  <2> HIDE DEF rec
  <2> QED BY <1>1, <1>3, <2>1, <2>2 DEF Local
<1> QED BY <1>6, <1>7, <1>8 DEF Inv

-----------------------------------------------------------------------------
(* The surroundings, and the theorems.                                     *)

\* Every connection that lives through an inactive moment is remembered.
LEMMA SurroundingsKeep ==
    ASSUME Inv, \/ \E on \in BOOLEAN : SetStatus(on)
                \/ \E x \in Caps \cup {None} : SetCap(x)
                \/ OtherCall
                \/ UNCHANGED vars
    PROVE  Inv'
<1>1. UNCHANGED <<conn, record>>
  BY DEF SetStatus, SetCap, OtherCall, vars
<1>2. TypeOK'
  BY <1>1 DEF SetStatus, SetCap, OtherCall, vars, Inv, TypeOK
<1>3. shut \subseteq shut'
  BY DEF SetStatus, SetCap, OtherCall, vars
<1>4. ASSUME NEW c \in Conns, ~ active', conn[c].phase \notin {"new", "done"}
      PROVE  c \in shut'
  BY <1>3, <1>4 DEF SetStatus, SetCap, OtherCall, vars, Inv, Local
<1>5. ASSUME NEW c \in Conns
      PROVE  Local(c)'
  BY <1>1, <1>3, <1>4, <1>5 DEF Inv, Local
<1> QED BY <1>2, <1>5 DEF Inv

\* Before any connection.
LEMMA InitInv == Init => Inv
<1> SUFFICES ASSUME Init PROVE Inv
  OBVIOUS
<1>1. Fresh \in Conn
  BY CapsAssumption, RatesAssumption, BoundsAssumption DEF Fresh, Conn, Phases, Reasons
<1>2. TypeOK
  BY <1>1 DEF Init, TypeOK, Fresh
<1>3. ASSUME NEW c \in Conns PROVE Local(c)
  BY DEF Init, Local, Fresh, Verdicts
<1> QED BY <1>2, <1>3 DEF Inv

\* Every step of every task of the relay keeps the invariant.
LEMMA StepInv == Inv /\ [Next]_vars => Inv'
<1> SUFFICES ASSUME Inv, [Next]_vars PROVE Inv'
  OBVIOUS
<1>1. ASSUME NEW c \in Conns,
             \/ Accept(c) \/ StartRelay(c) \/ OpenFails(c)
             \/ \E bytes \in 0..MaxAudio, rate \in Rates : ClientFrame(c, bytes, rate)
             \/ \E why \in {"client_abort", "upstream_error"} : UpEnds(c, why) \/ DownEnds(c, why)
             \/ WatchWakes(c) \/ StatusRead(c) \/ CostRead(c) \/ ReadFails(c)
             \/ HangUp(c) \/ Teardown(c) \/ Bill(c) \/ BillFails(c)
      PROVE  Inv'
  BY <1>1, AcceptKeeps, StartKeeps, OpenFailsKeeps, FrameKeeps, UpEndsKeeps, DownEndsKeeps,
     WatchKeeps, HangUpKeeps, TeardownKeeps, BillKeeps, BillFailsKeeps
<1> QED BY <1>1, SurroundingsKeep DEF Next

\* The inductive invariant of the relay.
THEOREM InvHolds == Spec => []Inv
BY InitInv, StepInv, PTL DEF Spec

\* Every connection, record and counter of the relay keeps its type, and whoever
\* stopped a relay has said why.
THEOREM TypeCorrect == Spec => []TypeOK
<1>1. Inv => TypeOK BY DEF Inv
<1> QED BY <1>1, InvHolds, PTL

\* The close code a client got, the message and the outcome of its record agree
\* (run_relay, _bill_session), for any number of overlapping tasks.
THEOREM RecordsAgree == Spec => []ReasonsAgree
<1>1. Inv => ReasonsAgree
  BY DEF Inv, Local, ReasonsAgree, Outcome, Verdicts
<1> QED BY <1>1, InvHolds, PTL

\* Every record holds all the audio its connection metered (_bill_session), for
\* any amount of audio and any geometry.
THEOREM AudioBilled == Spec => []AllAudioBilled
<1>1. ASSUME Inv, NEW c \in Conns, record[c] # None
      PROVE  /\ record[c].quantity * conn[c].rate >= conn[c].audio
             /\ (record[c].quantity = 0) <=> (conn[c].audio = 0)
  <2>1. conn[c].audio \in Nat /\ conn[c].rate \in Nat \ {0}
    <3>1. conn[c] \in Conn
      BY <1>1 DEF Inv, TypeOK
    <3>2. conn[c].audio \in 0..MaxAudio /\ conn[c].rate \in Rates
      BY <3>1 DEF Conn
    <3>3. conn[c].audio \in Nat
      BY <3>2, BoundsAssumption
    <3>4. conn[c].rate \in Nat \ {0}
      BY <3>2, RatesAssumption
    <3> QED BY <3>3, <3>4
  <2>2. record[c].quantity = Units(conn[c].audio, conn[c].rate)
    BY <1>1 DEF Inv, Local
  <2> QED BY <2>1, <2>2, UnitsCover
<1>2. Inv => AllAudioBilled
  BY <1>1 DEF AllAudioBilled
<1> QED BY <1>2, InvHolds, PTL
==============================================================================
