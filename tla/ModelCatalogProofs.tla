-------------------------- MODULE ModelCatalogProofs --------------------------
(***************************************************************************)
(* What the handlers of the catalogue keep for any number of sessions, any *)
(* values and any typed lists.  Both invariants are inductive with the     *)
(* types: a commit from an up-to-date copy makes the row what the handler  *)
(* computed, and one from an outdated copy is either noted (provenance) or *)
(* did not touch the list that was decided about.                          *)
(***************************************************************************)
EXTENDS ModelCatalog, TLAPS

\* A row whose litellm fields have the values of the snapshot.
Agrees(s) ==
    s.litellm_sync # None =>
        \A f \in Fields : s.litellm_sync.field_sources[f] = "litellm"
                          => Value(s, f) = s.litellm_sync.snapshot[f]

\* What a handler does to the decision: it is off, or this commit makes it, or
\* new has the state that was decided if the copy had it.
Honours(r, new) ==
    \/ decided' = None
    \/ decided' = Support(row'.capabilities)
    \/ /\ decided' = decided /\ Keeps(r, new)
       /\ Support(req[r].seen.capabilities) = decided => Support(new.capabilities) = decided

\* A handler commits new, which is a row and agrees with its snapshot if the
\* copy does (the loader's need not: it is noted).
Handles(r, new) ==
    \E resync, loads \in BOOLEAN :
       /\ Commit(r, new, resync, loads) /\ Honours(r, new)
       /\ Agrees(req[r].seen) => Agrees(new) \/ loads

Inv == TypeOK /\ DecisionStands /\ ProvenanceTrue

-----------------------------------------------------------------------------
(* The parts of a row.                                                     *)

\* A row is made of its three columns (ModelCatalog).
LEMMA RowParts ==
    ASSUME NEW s \in Row
    PROVE  /\ s.capabilities \in Capabilities /\ s.context_window \in Vals
           /\ s.litellm_sync \in Sync \cup {None}
           /\ s = [capabilities |-> s.capabilities, context_window |-> s.context_window,
                   litellm_sync |-> s.litellm_sync]
BY DEF Row

\* Three well-typed columns make a row: what Commit and Create write.
LEMMA RowMade ==
    ASSUME NEW c \in Capabilities, NEW w \in Vals, NEW y \in Sync \cup {None}
    PROVE  [capabilities |-> c, context_window |-> w, litellm_sync |-> y] \in Row
BY DEF Row

\* A session at work has a copy of a row.
LEMMA CopyIsRow ==
    ASSUME TypeOK, NEW r \in Reqs, req[r] # Idle
    PROVE  req[r].seen \in Row
BY DEF TypeOK, Copying

\* What a handler can make of the markers is a list of capabilities again.
LEMMA MarkersTyped ==
    ASSUME NEW c \in Capabilities
    PROVE  /\ mark_tested_ok(c) \in Capabilities
           /\ mark_manual_on(c) \in Capabilities
           /\ mark_manual_off(c) \in Capabilities
           /\ Tested(c) \in Capabilities
           /\ \A v \in Vals : preserve_into(v, c) \in Capabilities
BY DEF Capabilities, Markers, mark_tested_ok, mark_manual_on, mark_manual_off, Tested,
       preserve_into, Marked

\* Typing and adopting keep the shape of litellm_sync.
LEMMA SyncTyped ==
    ASSUME NEW y \in Sync \cup {None}, NEW fields \in SUBSET Fields
    PROVE  /\ Typed(y, fields) \in Sync \cup {None}
           /\ \A latest \in [Fields -> Vals] : Adopted(y, fields, latest) \in Sync \cup {None}
BY DEF Sync, Typed, Adopted

\* What the UPDATE leaves: a row, and the computed one if the copy was current.
LEMMA CommitWrites ==
    ASSUME TypeOK, NEW r \in Reqs, req[r] # Idle, NEW new \in Row,
           NEW resync \in BOOLEAN, NEW loads \in BOOLEAN, Commit(r, new, resync, loads)
    PROVE  /\ row \in Row /\ row' \in Row
           /\ req' = [req EXCEPT ![r] = Idle]
           /\ req' \in [Reqs -> Copying \cup {Idle}]
           /\ mingled' \in BOOLEAN
           /\ ~ mingled' => /\ ~ mingled /\ ~ loads /\ row = req[r].seen
                            /\ row' = new
           /\ row'.capabilities = Column(row.capabilities, req[r].seen.capabilities,
                                         new.capabilities)
<1>1. row \in Row /\ req[r].seen \in Row
  BY CopyIsRow DEF Commit, TypeOK
<1>2. row' \in Row
  BY <1>1, RowParts, RowMade DEF Commit, Column
<1>3. req' = [req EXCEPT ![r] = Idle] /\ req' \in [Reqs -> Copying \cup {Idle}]
  BY DEF Commit, Ends, TypeOK
<1>4. mingled' \in BOOLEAN
  BY DEF Commit, TypeOK
<1>5. ASSUME ~ mingled'
      PROVE  ~ mingled /\ ~ loads /\ row = req[r].seen /\ row' = new
  <2>1. ~ mingled /\ ~ loads /\ row = req[r].seen
    BY <1>5 DEF Commit
  <2>2. row' = [capabilities |-> new.capabilities, context_window |-> new.context_window,
                litellm_sync |-> new.litellm_sync]
    BY <2>1 DEF Commit, Column
  <2> QED BY <2>1, <2>2, RowParts
<1>6. row'.capabilities = Column(row.capabilities, req[r].seen.capabilities, new.capabilities)
  BY DEF Commit
<1> QED BY <1>1, <1>2, <1>3, <1>4, <1>5, <1>6

\* Whatever such a handler does, the invariants survive.
LEMMA HandlesKeeps ==
    ASSUME Inv, NEW r \in Reqs, req[r] # Idle, NEW new \in Row, Handles(r, new),
           decided' \in {"available", "unavailable", None}
    PROVE  Inv'
<1>1. PICK resync \in BOOLEAN, loads \in BOOLEAN :
        /\ Commit(r, new, resync, loads) /\ Honours(r, new)
        /\ Agrees(req[r].seen) => Agrees(new) \/ loads
  BY DEF Handles
<1>2. TypeOK /\ DecisionStands /\ ProvenanceTrue
  BY DEF Inv
<1>3. /\ row \in Row /\ row' \in Row
      /\ req' = [req EXCEPT ![r] = Idle]
      /\ req' \in [Reqs -> Copying \cup {Idle}]
      /\ mingled' \in BOOLEAN
      /\ ~ mingled' => /\ ~ mingled /\ ~ loads /\ row = req[r].seen
                       /\ row' = new
      /\ row'.capabilities = Column(row.capabilities, req[r].seen.capabilities,
                                    new.capabilities)
  BY <1>1, <1>2, CommitWrites
<1>4. TypeOK'
  BY <1>3 DEF TypeOK
<1>5. DecisionStands'
  <2>1. CASE decided' = None \/ decided' = Support(row'.capabilities)
    BY <2>1 DEF DecisionStands, Support
  <2>2. CASE /\ decided' = decided /\ Keeps(r, new)
             /\ Support(req[r].seen.capabilities) = decided => Support(new.capabilities) = decided
    <3>1. CASE decided = None
      BY <2>2, <3>1 DEF DecisionStands
    <3>2. CASE decided # None
      <4>1. Support(row.capabilities) = decided
        BY <1>2, <3>2 DEF DecisionStands
      <4>2. CASE new.capabilities = req[r].seen.capabilities
        BY <1>3, <2>2, <4>1, <4>2 DEF Column, DecisionStands, Support
      <4>3. CASE row.capabilities = req[r].seen.capabilities
        BY <1>3, <2>2, <4>1, <4>3 DEF Column, DecisionStands, Support
      <4> QED BY <2>2, <4>2, <4>3 DEF Keeps
    <3> QED BY <3>1, <3>2
  <2> QED BY <1>1, <2>1, <2>2 DEF Honours
<1>6. ProvenanceTrue'
  <2>1. ASSUME ~ mingled'
        PROVE  Agrees(row')
    <3>1. row # None
      BY <1>1 DEF Commit
    <3>2. Agrees(req[r].seen)
      BY <1>2, <1>3, <2>1, <3>1 DEF ProvenanceTrue, Agrees
    <3> QED BY <1>1, <1>3, <2>1, <3>2
  <2> QED BY <2>1 DEF ProvenanceTrue, Agrees, Value
<1> QED BY <1>4, <1>5, <1>6 DEF Inv

-----------------------------------------------------------------------------
(* The handlers, one by one.                                               *)

\* A request at work has a copy, and its capabilities are a list.
LEMMA Seen ==
    ASSUME Inv, NEW r \in Reqs, NEW op \in {"update", "apply", "test", "support", "load"}, Is(r, op)
    PROVE  /\ req[r] # Idle /\ req[r].seen \in Row
           /\ req[r].seen.capabilities \in Capabilities /\ req[r].seen.context_window \in Vals
           /\ req[r].seen.litellm_sync \in Sync \cup {None}
<1>1. req[r] # Idle
  BY DEF Is, Idle
<1> QED BY <1>1, CopyIsRow, RowParts DEF Inv

\* An edit: a field that is typed is a manual one from then on.
LEMMA UpdateKeeps ==
    ASSUME Inv, NEW r \in Reqs, NEW fields \in SUBSET Fields, NEW caps \in Capabilities,
           NEW window \in Vals, Update(r, fields, caps, window)
    PROVE  Inv'
<1> DEFINE seen == req[r].seen
           new == [capabilities |-> IF "capabilities" \in fields THEN caps ELSE seen.capabilities,
                   context_window |-> IF "context_window" \in fields THEN window
                                      ELSE seen.context_window,
                   litellm_sync |-> Typed(seen.litellm_sync, fields)]
<1>1. Is(r, "update") /\ Commit(r, new, FALSE, FALSE)
      /\ decided' = IF "capabilities" \in fields THEN None ELSE decided
  BY DEF Update
<1>2. /\ req[r] # Idle /\ seen \in Row
      /\ seen.capabilities \in Capabilities /\ seen.context_window \in Vals
      /\ seen.litellm_sync \in Sync \cup {None}
  BY <1>1, Seen
<1>3. Typed(seen.litellm_sync, fields) \in Sync \cup {None}
  BY <1>2, SyncTyped
<1>4. new \in Row
  BY <1>2, <1>3, RowMade
<1>5. Agrees(seen) => Agrees(new)
  <2>1. ASSUME Agrees(seen), new.litellm_sync # None, NEW f \in Fields,
               new.litellm_sync.field_sources[f] = "litellm"
        PROVE  Value(new, f) = new.litellm_sync.snapshot[f]
    <3>1. /\ seen.litellm_sync # None
          /\ new.litellm_sync = [seen.litellm_sync EXCEPT !.field_sources =
                [g \in Fields |-> IF g \in fields THEN "manual"
                                 ELSE seen.litellm_sync.field_sources[g]]]
      BY <2>1 DEF Typed
    <3>2. seen.litellm_sync \in Sync
      BY <1>2, <3>1
    <3>3. /\ f \notin fields /\ seen.litellm_sync.field_sources[f] = "litellm"
          /\ new.litellm_sync.snapshot = seen.litellm_sync.snapshot
      BY <2>1, <3>1, <3>2 DEF Sync
    <3>4. Value(new, f) = Value(seen, f)
      BY <3>3 DEF Value, Fields
    <3> QED BY <2>1, <3>1, <3>3, <3>4 DEF Agrees
  <2> QED BY <2>1 DEF Agrees
<1>6. Honours(r, new)
  BY <1>1 DEF Honours, Keeps
<1>7. decided' \in {"available", "unavailable", None}
  BY <1>1 DEF Inv, TypeOK
<1> HIDE DEF new
<1>8. Handles(r, new)
  BY <1>1, <1>5, <1>6 DEF Handles
<1> QED BY <1>2, <1>4, <1>7, <1>8, HandlesKeeps

\* An adoption: the markers are carried over, and an adopted field has the value
\* its snapshot gets.
LEMMA ApplyKeeps ==
    ASSUME Inv, NEW r \in Reqs, NEW fields \in SUBSET Fields, NEW latest \in [Fields -> Vals],
           NEW fresh \in BOOLEAN, Apply(r, fields, latest, fresh)
    PROVE  Inv'
<1> DEFINE seen == req[r].seen
           new == [capabilities |-> IF "capabilities" \in fields
                                    THEN preserve_into(latest["capabilities"], seen.capabilities)
                                    ELSE seen.capabilities,
                   context_window |-> IF "context_window" \in fields THEN latest["context_window"]
                                      ELSE seen.context_window,
                   litellm_sync |-> Adopted(seen.litellm_sync, fields, latest)]
<1>1. /\ Is(r, "apply") /\ Commit(r, new, fresh /\ seen.litellm_sync # None, FALSE)
      /\ decided' = IF Keeps(r, new) THEN decided ELSE None
  BY DEF Apply
<1>2. /\ req[r] # Idle /\ seen \in Row
      /\ seen.capabilities \in Capabilities /\ seen.context_window \in Vals
      /\ seen.litellm_sync \in Sync \cup {None}
  BY <1>1, Seen
<1>3. new \in Row
  <2>1. preserve_into(latest["capabilities"], seen.capabilities) \in Capabilities
    BY <1>2, MarkersTyped DEF Fields
  <2>2. new.capabilities \in Capabilities /\ new.context_window \in Vals
    BY <1>2, <2>1 DEF Fields
  <2>3. Adopted(seen.litellm_sync, fields, latest) \in Sync \cup {None}
    BY <1>2, SyncTyped
  <2> QED BY <2>2, <2>3, RowMade
<1>4. Agrees(seen) => Agrees(new)
  <2>1. ASSUME Agrees(seen), new.litellm_sync # None, NEW f \in Fields,
               new.litellm_sync.field_sources[f] = "litellm"
        PROVE  Value(new, f) = new.litellm_sync.snapshot[f]
    <3>1. /\ seen.litellm_sync # None
          /\ \A g \in Fields :
                /\ new.litellm_sync.field_sources[g] =
                      IF g \in fields THEN "litellm" ELSE seen.litellm_sync.field_sources[g]
                /\ new.litellm_sync.snapshot[g] =
                      IF g \in fields THEN latest[g] ELSE seen.litellm_sync.snapshot[g]
      BY <2>1 DEF Adopted
    <3>2. CASE f \in fields
      <4>1. Value(new, f) = latest[f]
        BY <3>2 DEF Value, Fields, preserve_into, Marked
      <4> QED BY <3>1, <3>2, <4>1
    <3>3. CASE f \notin fields
      <4>1. Value(new, f) = Value(seen, f)
        BY <3>3 DEF Value, Fields
      <4> QED BY <2>1, <3>1, <3>3, <4>1 DEF Agrees
    <3> QED BY <3>2, <3>3
  <2> QED BY <2>1 DEF Agrees
<1>5. Honours(r, new)
  <2>1. Support(new.capabilities) = Support(seen.capabilities)
    BY DEF Support, preserve_into, Marked
  <2> QED BY <1>1, <2>1 DEF Honours
<1>6. decided' \in {"available", "unavailable", None}
  BY <1>1 DEF Inv, TypeOK
<1> HIDE DEF new
<1>7. Handles(r, new)
  BY <1>1, <1>4, <1>5 DEF Handles
<1> QED BY <1>2, <1>3, <1>6, <1>7, HandlesKeeps

\* Only the markers of the list change, so the row agrees with its snapshot as
\* the copy did.
LEMMA MarkersAgree ==
    ASSUME NEW s \in Row, NEW caps \in Capabilities, caps.listed = s.capabilities.listed
    PROVE  /\ [s EXCEPT !.capabilities = caps] \in Row
           /\ [s EXCEPT !.capabilities = caps].capabilities = caps
           /\ Agrees(s) => Agrees([s EXCEPT !.capabilities = caps])
BY DEF Row, Agrees, Value, Fields

\* A passing test of a model that is blocked changes nothing, and one of a model
\* that is available leaves it available.
LEMMA TestKeeps ==
    ASSUME Inv, NEW r \in Reqs, Test(r)
    PROVE  Inv'
<1> DEFINE seen == req[r].seen
           new == [seen EXCEPT !.capabilities = Tested(seen.capabilities)]
<1>1. /\ Is(r, "test") /\ Commit(r, new, FALSE, FALSE)
      /\ decided' = IF Keeps(r, new) THEN decided ELSE None
  BY DEF Test
<1>2. req[r] # Idle /\ seen \in Row /\ seen.capabilities \in Capabilities
  BY <1>1, Seen
<1>3. /\ Tested(seen.capabilities) \in Capabilities
      /\ Tested(seen.capabilities).listed = seen.capabilities.listed
  BY <1>2, MarkersTyped DEF Tested, mark_tested_ok, Marked, Capabilities
<1>4. new \in Row /\ new.capabilities = Tested(seen.capabilities) /\ (Agrees(seen) => Agrees(new))
  BY <1>2, <1>3, MarkersAgree
<1>5. Honours(r, new)
  <2>1. ASSUME Support(seen.capabilities) \in {"available", "unavailable"}
        PROVE  Support(Tested(seen.capabilities)) = Support(seen.capabilities)
    BY <1>2, <2>1 DEF Support, Tested, mark_tested_ok, Marked, Capabilities
  <2>2. decided \in {"available", "unavailable", None}
    BY DEF Inv, TypeOK
  <2> HIDE DEF new
  <2> QED BY <1>1, <1>4, <2>1, <2>2 DEF Honours
<1>6. decided' \in {"available", "unavailable", None}
  BY <1>1 DEF Inv, TypeOK
<1> HIDE DEF new
<1>7. Handles(r, new)
  BY <1>1, <1>4, <1>5 DEF Handles
<1> QED BY <1>2, <1>4, <1>6, <1>7, HandlesKeeps

\* An override decides, unless its copy already had what it writes and the row
\* has something else by now.
LEMMA SetSupportKeeps ==
    ASSUME Inv, NEW r \in Reqs, NEW available \in BOOLEAN, SetSupport(r, available)
    PROVE  Inv'
<1> DEFINE seen == req[r].seen
           caps == IF available THEN mark_manual_on(seen.capabilities)
                   ELSE mark_manual_off(seen.capabilities)
           new == [seen EXCEPT !.capabilities = caps]
<1>1. /\ Is(r, "support") /\ Commit(r, new, FALSE, FALSE)
      /\ decided' = IF caps = seen.capabilities /\ row.capabilities # caps THEN None
                    ELSE Support(caps)
  BY DEF SetSupport
<1>2. req[r] # Idle /\ seen \in Row /\ seen.capabilities \in Capabilities
  BY <1>1, Seen
<1>3. caps \in Capabilities /\ caps.listed = seen.capabilities.listed
  BY <1>2, MarkersTyped DEF mark_manual_on, mark_manual_off, Marked, Capabilities
<1>4. new \in Row /\ new.capabilities = caps /\ (Agrees(seen) => Agrees(new))
  BY <1>2, <1>3, MarkersAgree
<1>5. Support(caps) \in {"available", "unavailable"}
  BY <1>2 DEF Support, mark_manual_on, mark_manual_off, Marked, Capabilities
<1> HIDE DEF new, caps
<1>6. Honours(r, new)
  <2>1. row'.capabilities = Column(row.capabilities, seen.capabilities, caps)
    BY <1>1, <1>4 DEF Commit
  <2>2. ASSUME ~ (caps = seen.capabilities /\ row.capabilities # caps)
        PROVE  row'.capabilities = caps
    BY <2>1, <2>2 DEF Column
  <2> QED BY <1>1, <2>2 DEF Honours
<1>7. decided' \in {"available", "unavailable", None}
  BY <1>1, <1>5
<1>8. Handles(r, new)
  BY <1>1, <1>4, <1>6 DEF Handles
<1> QED BY <1>2, <1>4, <1>7, <1>8, HandlesKeeps

\* The loader decides nothing, and is noted where it may contradict the sources.
LEMMA LoadKeeps ==
    ASSUME Inv, NEW r \in Reqs, NEW caps \in Capabilities, NEW window \in Vals,
           Load(r, caps, window)
    PROVE  Inv'
<1> DEFINE seen == req[r].seen
           new == [seen EXCEPT !.capabilities = caps, !.context_window = window]
<1>1. /\ Is(r, "load") /\ Commit(r, new, FALSE, row.litellm_sync # None)
      /\ decided' = None
  BY DEF Load
<1>2. req[r] # Idle /\ seen \in Row
  BY <1>1, Seen
<1>3. new \in Row
  BY <1>2 DEF Row
<1>4. Honours(r, new) /\ decided' \in {"available", "unavailable", None}
  BY <1>1 DEF Honours
<1>5. CASE row.litellm_sync # None
  <2>1. Commit(r, new, FALSE, TRUE)
    BY <1>1, <1>5
  <2> HIDE DEF new
  <2>2. Handles(r, new)
    BY <2>1, <1>4 DEF Handles
  <2> QED BY <1>2, <1>3, <1>4, <2>2, HandlesKeeps
<1>6. CASE row.litellm_sync = None
  <2>1. CASE seen.litellm_sync = None
    <3>1. new.litellm_sync = None
      BY <2>1, <1>2 DEF Row
    <3>2. Agrees(new)
      BY <3>1 DEF Agrees
    <3>3. Commit(r, new, FALSE, FALSE)
      BY <1>1, <1>6
    <3> HIDE DEF new
    <3>4. Handles(r, new)
      BY <3>2, <3>3, <1>4 DEF Handles
    <3> QED BY <1>2, <1>3, <1>4, <3>4, HandlesKeeps
  <2>2. CASE seen.litellm_sync # None
    <3>1. row # seen
      BY <2>2, <1>6
    <3>2. Commit(r, new, FALSE, TRUE)
      BY <3>1, <1>1, <1>6 DEF Commit
    <3> HIDE DEF new
    <3>3. Handles(r, new)
      BY <3>2, <1>4 DEF Handles
    <3> QED BY <1>2, <1>3, <1>4, <3>3, HandlesKeeps
  <2> QED BY <2>1, <2>2
<1> QED BY <1>5, <1>6

-----------------------------------------------------------------------------
(* The other steps and the theorems.                                       *)

\* Reading the row or giving up changes neither the row nor the histories.
LEMMA ReadKeeps ==
    ASSUME Inv, NEW r \in Reqs,
           Abort(r) \/ \E op \in {"update", "apply", "test", "support", "load"} : Begin(r, op)
    PROVE  Inv'
<1>1. UNCHANGED <<row, decided, mingled>>
  BY DEF Abort, Begin
<1>2. req' \in [Reqs -> Copying \cup {Idle}]
  <2>1. CASE Abort(r)
    BY <2>1 DEF Abort, Ends, Inv, TypeOK
  <2>2. ASSUME NEW op \in {"update", "apply", "test", "support", "load"}, Begin(r, op)
        PROVE  req' \in [Reqs -> Copying \cup {Idle}]
    <3>1. row \in Row
      BY <2>2 DEF Begin, Inv, TypeOK
    <3>2. [op |-> op, seen |-> row] \in Copying
      BY <3>1 DEF Copying
    <3> QED BY <2>2, <3>2 DEF Begin, Inv, TypeOK
  <2> QED BY <2>1, <2>2
<1> QED BY <1>1, <1>2 DEF Inv, TypeOK, DecisionStands, ProvenanceTrue

\* A created row agrees with the metadata it was derived from.
LEMMA CreateKeeps ==
    ASSUME Inv, NEW caps \in Capabilities, NEW window \in Vals, NEW sync,
           sync = None \/ \E meta \in [Fields -> Vals] : sync = Derived(caps, window, meta),
           Create(caps, window, sync)
    PROVE  Inv'
<1>1. sync \in Sync \cup {None}
  BY DEF Derived, Sync
<1>2. row' \in Row
  BY <1>1, RowMade DEF Create
<1>3. TypeOK'
  BY <1>2 DEF Create, Inv, TypeOK
<1>4. Agrees(row')
  <2>1. ASSUME NEW meta \in [Fields -> Vals], sync = Derived(caps, window, meta),
               NEW f \in Fields, sync.field_sources[f] = "litellm"
        PROVE  Value(row', f) = sync.snapshot[f]
    BY <2>1 DEF Derived, Marked, Value, Create, Fields
  <2> QED BY <2>1 DEF Agrees, Create
<1>5. ProvenanceTrue'
  BY <1>4 DEF ProvenanceTrue, Agrees, Value
<1> QED BY <1>3, <1>5 DEF Inv, DecisionStands, Create

\* admin_delete_model takes the decision with the row.
LEMMA DeleteKeeps ==
    ASSUME Inv, DeleteModel
    PROVE  Inv'
BY DEF Inv, DeleteModel, TypeOK, DecisionStands, ProvenanceTrue

\* Without a row nothing is decided and nothing is claimed.
LEMMA InitInv == Init => Inv
BY DEF Init, Inv, TypeOK, DecisionStands, ProvenanceTrue

\* Every request of the catalogue, in any interleaving, keeps the invariant.
LEMMA StepInv == Inv /\ [Next]_vars => Inv'
<1> SUFFICES ASSUME Inv, [Next]_vars PROVE Inv'
  OBVIOUS
<1>1. CASE Lifetime
  <2>1. CASE DeleteModel
    BY <2>1, DeleteKeeps
  <2>2. ASSUME NEW window \in Vals, NEW caps \in TypedLists,
               \/ Create(caps, window, None)
               \/ \E meta \in [Fields -> Vals] :
                     Create(caps, window, Derived(caps, window, meta))
        PROVE  Inv'
    BY <2>2, CreateKeeps DEF TypedLists
  <2> QED BY <1>1, <2>1, <2>2 DEF Lifetime
<1>2. ASSUME NEW r \in Reqs, Rewrite(r)
      PROVE  Inv'
  <2>1. ASSUME NEW window \in Vals, NEW caps \in TypedLists,
               \/ \E fields \in SUBSET Fields \ {{}} : Update(r, fields, caps, window)
               \/ Load(r, caps, window)
        PROVE  Inv'
    BY <2>1, UpdateKeeps, LoadKeeps DEF TypedLists
  <2>2. ASSUME NEW fields \in SUBSET Fields \ {{}}, NEW latest \in [Fields -> Vals],
               NEW fresh \in BOOLEAN, Apply(r, fields, latest, fresh)
        PROVE  Inv'
    BY <2>2, ApplyKeeps
  <2>3. CASE Test(r)
    BY <2>3, TestKeeps
  <2>4. ASSUME NEW available \in BOOLEAN, SetSupport(r, available)
        PROVE  Inv'
    BY <2>4, SetSupportKeeps
  <2> QED BY <1>2, <2>1, <2>2, <2>3, <2>4 DEF Rewrite
<1>3. ASSUME NEW r \in Reqs,
             Abort(r) \/ \E op \in {"update", "apply", "test", "support", "load"} : Begin(r, op)
      PROVE  Inv'
  BY <1>3, ReadKeeps
<1>4. CASE UNCHANGED vars
  BY <1>4 DEF vars, Inv, TypeOK, DecisionStands, ProvenanceTrue
<1> QED BY <1>1, <1>2, <1>3, <1>4 DEF Next

\* The handlers keep the row, the copies and the history well typed, and both
\* promises hold in every reachable state.
THEOREM InvHolds == Spec => []Inv
BY InitInv, StepInv, PTL DEF Spec

\* Every handler of the catalogue leaves a well-formed row.
THEOREM TypeCorrect == Spec => []TypeOK
<1>1. Inv => TypeOK BY DEF Inv
<1> QED BY <1>1, InvHolds, PTL

\* An override of the responses endpoint outlasts tests, adoptions and edits of
\* other fields that did not copy the list before it was decided.
THEOREM OverrideOutlasts == Spec => []DecisionStands
<1>1. Inv => DecisionStands BY DEF Inv
<1> QED BY <1>1, InvHolds, PTL

\* Unless requests mingled, what the row says about the source of a field is true.
THEOREM SourcesTrue == Spec => []ProvenanceTrue
<1>1. Inv => ProvenanceTrue BY DEF Inv
<1> QED BY <1>1, InvHolds, PTL
==============================================================================
