----------------------------- MODULE ModelCatalog -----------------------------
(***************************************************************************)
(* One row of the model catalogue and the requests that rewrite it: the    *)
(* administrator's edits, the adoption of litellm's registry, the test and *)
(* the manual override of the responses endpoint, and the YAML loader.     *)
(* Most read the row, work on the copy (two of them wait for another       *)
(* server meanwhile) and at their end UPDATE the columns that differ from  *)
(* what they read.  A change that depends on no earlier read is one step.  *)
(* Of the syncable fields capabilities and context_window stand for all.   *)
(***************************************************************************)
EXTENDS FiniteSets

CONSTANTS
    Reqs,       \* concurrent sessions
    Vals,       \* values of a field, the markers of capabilities left aside
    Lists,      \* markers in a capabilities list that an administrator types
    None

Markers == {"responses", "responses:blocked", "responses:tested", "responses:manual"}
Fields == {"capabilities", "context_window"}

ASSUME ListsAssumption == Lists \subseteq SUBSET Markers
ASSUME NoneAssumption == None \notin {"available", "unavailable", "unknown"}

VARIABLES
    row,        \* the model's row, None while there is none
    req,        \* the request each session has in flight
    decided,    \* history: the override that should still stand
    mingled     \* history: the row has been written from an outdated copy, or by the loader

vars == <<row, req, decided, mingled>>

\* A list of capabilities: the markers, the rest, and whether the markers are
\* where the handlers put them (a typed list may have them anywhere).
Capabilities == [listed : Vals, marks : SUBSET Markers, ordered : BOOLEAN]
\* litellm_sync: a borrowed field is a litellm one under another key.
Sync == [field_sources : [Fields -> {"litellm", "manual"}], snapshot : [Fields -> Vals]]
Row == [capabilities : Capabilities, context_window : Vals, litellm_sync : Sync \cup {None}]

Idle == [op |-> "idle"]
Copying == [op : {"update", "apply", "test", "support", "load"}, seen : Row]

\* The one type invariant.
TypeOK ==
    /\ row \in Row \cup {None}
    /\ req \in [Reqs -> Copying \cup {Idle}]
    /\ decided \in {"available", "unavailable", None}
    /\ mingled \in BOOLEAN

-----------------------------------------------------------------------------
(* The markers.                                                            *)

\* get_support
Support(caps) == IF "responses:blocked" \in caps.marks THEN "unavailable"
                 ELSE IF "responses" \in caps.marks THEN "available" ELSE "unknown"

Marked(listed, marks) == [listed |-> listed, marks |-> marks, ordered |-> TRUE]
mark_tested_ok(caps) == Marked(caps.listed, {"responses", "responses:tested"})
mark_manual_on(caps) == Marked(caps.listed, {"responses", "responses:manual"})
mark_manual_off(caps) == Marked(caps.listed, {"responses:blocked", "responses:manual"})

preserve_into(listed, old) == Marked(listed, old.marks)

\* The value of a syncable field, as the registry knows it.
Value(r, f) == IF f = "capabilities" THEN r.capabilities.listed ELSE r.context_window

-----------------------------------------------------------------------------
Is(r, op) == req[r].op = op
Ends(r) == req' = [req EXCEPT ![r] = Idle]

\* The UPDATE of one column: only if the handler changed it.
Column(now, seen, new) == IF new = seen THEN now ELSE new

\* A handler reads the row; without one it answers 404.
Begin(r, op) ==
    /\ req[r] = Idle /\ row # None
    /\ req' = [req EXCEPT ![r] = [op |-> op, seen |-> row]]
    /\ UNCHANGED <<row, decided, mingled>>

\* The handler that made new of its copy commits; the row it updates may have
\* been deleted and created again.  Whether the override still stands: not if
\* the list was copied before it was decided.
Commit(r, new, resync, loads) ==
    LET seen == req[r].seen IN
    /\ row # None
    /\ row' = [capabilities |-> Column(row.capabilities, seen.capabilities, new.capabilities),
               context_window |-> Column(row.context_window, seen.context_window, new.context_window),
               litellm_sync |-> IF resync THEN new.litellm_sync
                                ELSE Column(row.litellm_sync, seen.litellm_sync, new.litellm_sync)]
    /\ mingled' = (mingled \/ row # seen \/ loads)
    /\ Ends(r)

\* An edit or a registry value replaces the list: the decision is off if the
\* list was typed, or copied from a row that has another one by now.
Keeps(r, new) ==
    \/ new.capabilities = req[r].seen.capabilities
    \/ row.capabilities = req[r].seen.capabilities

\* The row is gone: the UPDATE matches none, and the request fails; a handler
\* also ends without writing on an upstream error, an unknown key, a rollback.
Abort(r) ==
    /\ req[r] # Idle
    /\ Ends(r)
    /\ UNCHANGED <<row, decided, mingled>>

-----------------------------------------------------------------------------
\* _build_litellm_sync over the registry's metadata.
Derived(caps, window, meta) ==
    [field_sources |->
        [f \in Fields |-> IF \/ f = "capabilities" /\ caps = Marked(meta[f], {})
                             \/ f = "context_window" /\ window = meta[f]
                          THEN "litellm" ELSE "manual"],
     snapshot |-> meta]

\* A slug that exists is refused, by the handler or by the primary key.
Create(caps, window, sync) ==
    /\ row = None
    /\ row' = [capabilities |-> caps, context_window |-> window, litellm_sync |-> sync]
    /\ decided' = None /\ mingled' = FALSE
    /\ UNCHANGED req

DeleteModel ==
    /\ row # None
    /\ row' = None /\ decided' = None
    /\ UNCHANGED <<req, mingled>>

\* Mutant: the sources are left alone.
Typed_KeepSource(sync, fields) == sync
\* A typed field becomes a manual one.
Typed(sync, fields) ==
    IF sync = None THEN None
    ELSE [sync EXCEPT !.field_sources =
            [f \in Fields |-> IF f \in fields THEN "manual" ELSE sync.field_sources[f]]]

\* admin_update_model, with the fields the payload has.
Update(r, fields, caps, window) ==
    LET seen == req[r].seen
        new == [capabilities |-> IF "capabilities" \in fields THEN caps ELSE seen.capabilities,
                context_window |-> IF "context_window" \in fields THEN window
                                   ELSE seen.context_window,
                litellm_sync |-> Typed(seen.litellm_sync, fields)]
    IN  /\ Is(r, "update")
        /\ Commit(r, new, FALSE, FALSE)
        /\ decided' = IF "capabilities" \in fields THEN None ELSE decided

Adopted(sync, fields, latest) ==
    IF sync = None THEN None
    ELSE [field_sources |-> [f \in Fields |-> IF f \in fields THEN "litellm"
                                               ELSE sync.field_sources[f]],
          snapshot |-> [f \in Fields |-> IF f \in fields THEN latest[f] ELSE sync.snapshot[f]]]

\* admin_litellm_apply, after fetch_latest: the chosen fields take the values of
\* the entry; fresh is whether the entry differs from the raw copy kept with the
\* sources.
Apply(r, fields, latest, fresh) ==
    LET seen == req[r].seen
        new == [capabilities |-> IF "capabilities" \in fields
                                 THEN preserve_into(latest["capabilities"], seen.capabilities)
                                 ELSE seen.capabilities,
                context_window |-> IF "context_window" \in fields THEN latest["context_window"]
                                   ELSE seen.context_window,
                litellm_sync |-> Adopted(seen.litellm_sync, fields, latest)]
    IN  /\ Is(r, "apply")
        /\ Commit(r, new, fresh /\ seen.litellm_sync # None, FALSE)
        /\ decided' = IF Keeps(r, new) THEN decided ELSE None

\* Mutant: a passing test always marks the model.
Tested_Always(caps) == mark_tested_ok(caps)
\* The manual block wins.
Tested(caps) == IF Support(caps) = "unavailable" THEN caps ELSE mark_tested_ok(caps)

\* admin_test_responses, after the upstream has answered.
Test(r) ==
    LET new == [req[r].seen EXCEPT !.capabilities = Tested(@)] IN
    /\ Is(r, "test")
    /\ Commit(r, new, FALSE, FALSE)
    /\ decided' = IF Keeps(r, new) THEN decided ELSE None

\* admin_set_responses_support
SetSupport(r, available) ==
    LET seen == req[r].seen
        caps == IF available THEN mark_manual_on(seen.capabilities)
                ELSE mark_manual_off(seen.capabilities)
    IN  /\ Is(r, "support")
        /\ Commit(r, [seen EXCEPT !.capabilities = caps], FALSE, FALSE)
        /\ decided' = IF caps = seen.capabilities /\ row.capabilities # caps THEN None
                      ELSE Support(caps)

\* load_models over an existing row: the sources are not looked at.
Load(r, caps, window) ==
    LET new == [req[r].seen EXCEPT !.capabilities = caps, !.context_window = window] IN
    /\ Is(r, "load")
    /\ Commit(r, new, FALSE, row.litellm_sync # None)
    /\ decided' = None

-----------------------------------------------------------------------------
\* Without markers there is nothing to be out of place.
TypedLists == {caps \in Capabilities : caps.marks \in Lists /\ (caps.marks = {} => caps.ordered)}

Init == row = None /\ req = [r \in Reqs |-> Idle] /\ decided = None /\ mingled = FALSE

Lifetime ==
    \/ \E window \in Vals, caps \in TypedLists :
          \/ Create(caps, window, None)
          \/ \E meta \in [Fields -> Vals] : Create(caps, window, Derived(caps, window, meta))
    \/ DeleteModel

Rewrite(r) ==
    \/ \E window \in Vals, caps \in TypedLists :
          \/ \E fields \in SUBSET Fields \ {{}} : Update(r, fields, caps, window)
          \/ Load(r, caps, window)
    \/ \E fields \in SUBSET Fields \ {{}}, latest \in [Fields -> Vals], fresh \in BOOLEAN :
          Apply(r, fields, latest, fresh)
    \/ Test(r)
    \/ \E available \in BOOLEAN : SetSupport(r, available)

Next ==
    \/ Lifetime
    \/ \E r \in Reqs : \/ \E op \in {"update", "apply", "test", "support", "load"} : Begin(r, op)
                       \/ Rewrite(r) \/ Abort(r)

Spec == Init /\ [][Next]_vars

-----------------------------------------------------------------------------
(* Properties.                                                             *)

\* What an administrator decided about the responses endpoint stands: neither a
\* passing test, nor an adoption of the registry, nor an edit of other fields
\* changes it, in any order, except one that copied the capabilities before they
\* were what they are now.
DecisionStands == decided # None => Support(row.capabilities) = decided

\* A field whose source is litellm has the value of the snapshot, so an adoption
\* that spares the manual fields loses nothing an administrator typed, unless
\* requests overlapped or the loader rewrote the row.
ProvenanceTrue ==
    row # None /\ ~ mingled => (row.litellm_sync # None =>
        \A f \in Fields : row.litellm_sync.field_sources[f] = "litellm"
                          => Value(row, f) = row.litellm_sync.snapshot[f])
==============================================================================
