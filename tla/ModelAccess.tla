----------------------------- MODULE ModelAccess -----------------------------
(***************************************************************************)
(* Who may call a model.  Ordered rules tag members when they register;    *)
(* tags are added and removed; a model's policy opens it, restricts it to  *)
(* tags and denies it to tags.  A call looks at the policy, the provider's *)
(* credentials and the member's tags in three statements of a READ         *)
(* COMMITTED transaction, while all of them change.  A call that finds no  *)
(* row of the model, or of the member, is not looked at any further: it is *)
(* let in unchecked.                                                       *)
(* One model and its provider.  A change that reads and writes what no     *)
(* other request can have changed in between is one step.                  *)
(***************************************************************************)
EXTENDS Naturals, FiniteSets, Functions

CONSTANTS
    Members, Tags, Rules,
    Reqs,       \* concurrent sessions
    MaxOrder,   \* bound: order_index
    None

\* A rule covers the members its matcher matches; a disabled one covers nobody.
Rule == [order : 0 .. MaxOrder, covers : SUBSET Members, tag : Tags]
Policy == [default : {"open", "restricted"}, allowed : SUBSET Tags, denied : SUBSET Tags]
ASSUME NoneAssumption == /\ None \notin Tags /\ None \notin Rule /\ None \notin 0 .. MaxOrder
                         /\ None \notin Policy
\* A reordering of all the rules there can be stays within the bound.
ASSUME OrderAssumption == /\ IsFiniteSet(Rules) /\ IsFiniteSet(Reqs)
                          /\ MaxOrder \in Nat /\ Cardinality(Rules) <= MaxOrder + 1

VARIABLES
    rules,      \* tag_rules
    tags,       \* member_tags of each member, None when it has no row
    policy,     \* the access columns of the model's row, None when it has no row
    active,     \* the provider has an active credential
    req,        \* the request each session has in flight
    tangled,    \* history: requests that number the rules overlapped
    watch       \* history: what each check lived through

vars == <<rules, tags, policy, active, req, tangled, watch>>

\* The policy of a check is the one it is held to: None, when there was none.
Req == [op : {"create"}, next : 0 .. MaxOrder]
       \cup [op : {"reorder"}, order : [Rules -> 0 .. MaxOrder \cup {None}]]
       \cup [op : {"register"}, member : Members, tag : Tags \cup {None}]
       \cup [op : {"check"}, member : Members, policy : Policy \cup {None},
             has : (SUBSET Tags) \cup {None},
             at : {"model", "member", "provider", "tags", "admitted"}]
Idle == [op |-> "idle"]

\* The one type invariant.
TypeOK ==
    /\ rules \in [Rules -> Rule \cup {None}]
    /\ tags \in [Members -> (SUBSET Tags) \cup {None}]
    /\ policy \in Policy \cup {None} /\ active \in BOOLEAN
    /\ req \in [Reqs -> Req \cup {Idle}]
    /\ tangled \in BOOLEAN
    /\ watch \in [Reqs -> SUBSET {"policy", "provider", "tags", "settled"}]

Is(r, op) == req[r].op = op
Checks(r, m) == Is(r, "check") /\ req[r].member = m
Registered == {m \in Members : tags[m] # None}
\* The rows that a read finds: a deletion takes them with the member.
TagsOf(m) == IF m \in Registered THEN tags[m] ELSE {}
Ends(r) == req' = [req EXCEPT ![r] = Idle]

-----------------------------------------------------------------------------
(* The rules.                                                              *)

Present == {x \in Rules : rules[x] # None}

\* Mutant: the number of rules.
NextOrder_Count == Cardinality(Present)
\* One more than the highest.
NextOrder == IF Present = {} THEN 0
             ELSE 1 + CHOOSE n \in {rules[x].order : x \in Present} :
                          \A x \in Present : rules[x].order <= n

BeginCreate(r) ==
    /\ req[r] = Idle /\ NextOrder <= MaxOrder
    /\ req' = [req EXCEPT ![r] = [op |-> "create", next |-> NextOrder]]
    /\ UNCHANGED <<rules, tags, policy, active>>

\* The new rule has an id that no request has seen.
CommitCreate(r, x, covers, tag) ==
    /\ Is(r, "create") /\ rules[x] = None
    /\ \A q \in Reqs : Is(q, "reorder") => req[q].order[x] = None
    /\ rules' = [rules EXCEPT ![x] = [order |-> req[r].next, covers |-> covers, tag |-> tag]]
    /\ Ends(r)
    /\ UNCHANGED <<tags, policy, active>>

\* PATCH writes the matcher, the tag and the switch, never the order.
UpdateRule(x, covers, tag) ==
    /\ x \in Present
    /\ rules' = [rules EXCEPT ![x].covers = covers, ![x].tag = tag]
    /\ UNCHANGED <<tags, policy, active, req>>

DeleteRule(x) ==
    /\ x \in Present
    /\ rules' = [rules EXCEPT ![x] = None]
    /\ UNCHANGED <<tags, policy, active, req>>

\* All present ids in a new order; a rule whose index stays is not written.
BeginReorder(r) ==
    /\ req[r] = Idle
    /\ \E index \in Bijection(Present, 0 .. Cardinality(Present) - 1) :
          req' = [req EXCEPT ![r] = [op |-> "reorder", order |->
                    [x \in Rules |-> IF x \in Present /\ index[x] # rules[x].order
                                     THEN index[x] ELSE None]]]
    /\ UNCHANGED <<rules, tags, policy, active>>

\* Updating a rule that is gone fails the request.
CommitReorder(r) ==
    LET order == req[r].order IN
    /\ Is(r, "reorder")
    /\ \A x \in Rules : order[x] # None => x \in Present
    /\ rules' = [x \in Rules |-> IF order[x] = None THEN rules[x]
                                 ELSE [rules[x] EXCEPT !.order = order[x]]]
    /\ Ends(r)
    /\ UNCHANGED <<tags, policy, active>>

\* evaluate: the first of the rules that match, or any of those that tie.
First(m) == {x \in Present : /\ m \in rules[x].covers
                             /\ \A y \in Present : m \in rules[y].covers
                                                   => rules[x].order <= rules[y].order}

\* A registration reads the rules and is committed later.
BeginRegister(r, m) ==
    /\ req[r] = Idle /\ m \notin Registered
    /\ \E tag \in IF First(m) = {} THEN {None} ELSE {rules[x].tag : x \in First(m)} :
          req' = [req EXCEPT ![r] = [op |-> "register", member |-> m, tag |-> tag]]
    /\ UNCHANGED <<rules, tags, policy, active>>

\* The identifier is unique: another registration may have been faster.  The new
\* member has an id that no check has seen.
CommitRegister(r) ==
    /\ Is(r, "register") /\ req[r].member \notin Registered
    /\ \A q \in Reqs : ~ Checks(q, req[r].member)
    /\ tags' = [tags EXCEPT ![req[r].member] = {req[r].tag} \ {None}]
    /\ Ends(r)
    /\ UNCHANGED <<rules, policy, active>>

-----------------------------------------------------------------------------
(* Tags.                                                                   *)

AddTags(m, new) ==
    /\ m \in Registered
    /\ tags' = [tags EXCEPT ![m] = @ \cup new]
    /\ UNCHANGED <<rules, policy, active, req>>

RemoveTags(m, old) ==
    /\ m \in Registered
    /\ tags' = [tags EXCEPT ![m] = @ \ old]
    /\ UNCHANGED <<rules, policy, active, req>>

\* One member of a bulk request: first all that it adds, then all it removes.
BulkTags(m, new, old) ==
    /\ m \in Registered
    /\ tags' = [tags EXCEPT ![m] = (@ \cup new) \ old]
    /\ UNCHANGED <<rules, policy, active, req>>

BulkApply(tag, members) ==
    /\ tags' = [m \in Members |-> IF m \in members \cap Registered THEN tags[m] \cup {tag}
                                  ELSE tags[m]]
    /\ UNCHANGED <<rules, policy, active, req>>

DeleteTag(tag) ==
    /\ tags' = [m \in Members |-> IF m \in Registered THEN tags[m] \ {tag} ELSE tags[m]]
    /\ UNCHANGED <<rules, policy, active, req>>

DeleteMember(m) ==
    /\ m \in Registered
    /\ tags' = [tags EXCEPT ![m] = None]
    /\ UNCHANGED <<rules, policy, active, req>>

-----------------------------------------------------------------------------
(* The model and its provider.                                             *)

CreateModel ==
    /\ policy = None /\ policy' \in Policy
    /\ UNCHANGED <<rules, tags, active, req>>

\* The allocations of the model stay as they are.
DeleteModel ==
    /\ policy # None /\ policy' = None
    /\ UNCHANGED <<rules, tags, active, req>>

\* Any of the columns may be given; those that are not stay.
PatchModelAccess ==
    /\ policy # None /\ policy' \in Policy
    /\ UNCHANGED <<rules, tags, active, req>>

CreateCredential ==
    /\ ~ active /\ active' = TRUE
    /\ UNCHANGED <<rules, tags, policy, req>>

\* The last active one: there is no way back but another credential.
DisableCredential ==
    /\ active /\ active' = FALSE
    /\ UNCHANGED <<rules, tags, policy, req>>

\* What administrators and the self-service pages are shown (evaluate_visibility).
Visible(m) ==
    /\ policy # None /\ active
    /\ policy.denied \cap TagsOf(m) = {}
    /\ policy.default = "open" \/ policy.allowed \cap TagsOf(m) # {}

\* Mutant: an allowed tag is enough.
access_policy_allows_AnyAllowed(p, has) ==
    p.allowed \cap has # {} \/ (p.denied \cap has = {} /\ p.default = "open")
access_policy_allows(p, has) ==
    /\ p.denied \cap has = {}
    /\ p.default = "open" \/ p.allowed \cap has # {}

\* A call, or a page of the catalog, reads the model's row: without one a page is
\* not found, and a call on an allocation of the model is let in ...
BeginCheck(r, m) ==
    /\ req[r] = Idle /\ m \in Registered
    /\ req' = [req EXCEPT ![r] = [op |-> "check", member |-> m, policy |-> policy, has |-> None,
                                  at |-> IF policy = None THEN "admitted" ELSE "model"]]
    /\ UNCHANGED <<rules, tags, policy, active>>

\* ... a call reads the member's row, and without one is let in as well ...
ReadMember(r) ==
    /\ Is(r, "check") /\ req[r].at = "model"
    /\ req' = [req EXCEPT ![r] = IF @.member \in Registered THEN [@ EXCEPT !.at = "member"]
                                 ELSE [@ EXCEPT !.at = "admitted", !.policy = None]]
    /\ UNCHANGED <<rules, tags, policy, active>>

\* ... then asks for the providers with active credentials; a page, whose member
\* was read when it signed in, does so at once ...
ReadProviders(r) ==
    /\ Is(r, "check") /\ req[r].at \in {"model", "member"}
    /\ req' = [req EXCEPT ![r] = IF active THEN [@ EXCEPT !.at = "provider"] ELSE Idle]
    /\ UNCHANGED <<rules, tags, policy, active>>

\* ... and for the member's tags.
ReadTags(r) ==
    /\ Is(r, "check") /\ req[r].at = "provider"
    /\ req' = [req EXCEPT ![r] = IF access_policy_allows(@.policy, TagsOf(@.member))
                                 THEN [@ EXCEPT !.at = "admitted"] ELSE Idle]
    /\ UNCHANGED <<rules, tags, policy, active>>

\* The list of models, and a claim, ask for the tags first and the providers last.
ListTags(r) ==
    /\ Is(r, "check") /\ req[r].at = "model"
    /\ req' = [req EXCEPT ![r] = [@ EXCEPT !.at = "tags", !.has = TagsOf(req[r].member)]]
    /\ UNCHANGED <<rules, tags, policy, active>>

ListProviders(r) ==
    /\ Is(r, "check") /\ req[r].at = "tags"
    /\ req' = [req EXCEPT ![r] = IF active /\ access_policy_allows(@.policy, @.has)
                                 THEN [@ EXCEPT !.at = "admitted"] ELSE Idle]
    /\ UNCHANGED <<rules, tags, policy, active>>

\* The end of an admitted call, and a request that fails.
Leave(r) ==
    /\ req[r] # Idle
    /\ Ends(r)
    /\ UNCHANGED <<rules, tags, policy, active>>

-----------------------------------------------------------------------------
Init ==
    /\ rules = [x \in Rules |-> None]
    /\ tags = [m \in Members |-> None]
    /\ policy = None
    /\ active = FALSE
    /\ req = [r \in Reqs |-> Idle]
    /\ tangled = FALSE
    /\ watch = [r \in Reqs |-> {}]

RuleStep ==
    \/ \E r \in Reqs : BeginCreate(r) \/ BeginReorder(r) \/ CommitReorder(r) \/ CommitRegister(r)
    \/ \E r \in Reqs, m \in Members : BeginRegister(r, m)
    \/ \E x \in Rules, covers \in SUBSET Members, tag \in Tags :
          UpdateRule(x, covers, tag) \/ \E r \in Reqs : CommitCreate(r, x, covers, tag)
    \/ \E x \in Rules : DeleteRule(x)

TagStep ==
    \/ \E m \in Members, new \in SUBSET Tags :
          AddTags(m, new) \/ RemoveTags(m, new) \/ \E old \in SUBSET Tags : BulkTags(m, new, old)
    \/ \E m \in Members : DeleteMember(m)
    \/ \E tag \in Tags : DeleteTag(tag) \/ \E members \in SUBSET Members : BulkApply(tag, members)

AccessStep ==
    \/ CreateModel \/ DeleteModel \/ PatchModelAccess \/ CreateCredential \/ DisableCredential
    \/ \E r \in Reqs, m \in Members : BeginCheck(r, m)
    \/ \E r \in Reqs : ReadMember(r) \/ ReadProviders(r) \/ ReadTags(r) \/ ListTags(r) \/ ListProviders(r)

Distinct == \A x, y \in Present : x # y => rules[x].order # rules[y].order
Numbering == {r \in Reqs : Is(r, "create") \/ Is(r, "reorder")}
\* Overlapping requests leave their mark until the order is sound again.
Tangle == tangled' = \/ Cardinality(Numbering') > 1
                     \/ tangled /\ ~ (Numbering' = {} /\ Distinct')

Changed(m) == {part \in {"policy", "provider", "tags"} :
                 \/ part = "policy" /\ policy' # policy
                 \/ part = "provider" /\ active' # active
                 \/ part = "tags" /\ tags'[m] # tags[m]}
Settled(r) == "settled" \in watch[r]
Admitted(r) == Is(r, "check") /\ req[r].at = "admitted"
\* Let in for want of a row: there is no policy, or nobody, to check.
Unchecked(r, m) == Admitted(r) /\ req[r].policy = None /\ (policy = None \/ tags[m] = None)
\* A check is settled once the member was visible, two of its reads moved, or it
\* was let in unchecked.
Lived(r, m) ==
    LET moved == watch[r] \cup IF Is(r, "check") THEN Changed(m) ELSE {}
    IN  IF Visible(m)' \/ Cardinality(moved) > 1 \/ Unchecked(r, m)' THEN {"settled"} ELSE moved
Watch == watch' =
    [r \in Reqs |-> IF ~ Is(r, "check")' THEN {}
                    ELSE IF Settled(r) \/ (Admitted(r) /\ Admitted(r)') THEN watch[r]
                    ELSE UNION {Lived(r, m) : m \in {n \in Members : Checks(r, n)'}}]

Next == /\ RuleStep \/ TagStep \/ AccessStep \/ \E r \in Reqs : Leave(r)
        /\ Tangle
        /\ Watch

Spec == Init /\ [][Next]_vars

-----------------------------------------------------------------------------
\* "First match wins" is well defined: rules have an order of their own, unless
\* requests that number them overlapped; nothing in the table forbids a tie
\* (tag_rules.py:147, tag_rules.py:199).
RulesOrdered == tangled \/ Distinct

\* An admitted member was allowed in at some moment of the check, by the verdict
\* the administrators are shown, unless two of policy, credentials and tags
\* changed between its three reads (model_access.py:131), or the row of the model
\* or of the member was gone when the call asked for it, and nothing was checked
\* (preflight.py:186, preflight.py:188).
AdmittedWasVisible ==
    \A r \in Reqs : Admitted(r) => Settled(r)
==============================================================================
