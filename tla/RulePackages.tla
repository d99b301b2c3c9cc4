---------------------------- MODULE RulePackages ----------------------------
(***************************************************************************)
(* Rules that come in packages: imported from an upload, from what a       *)
(* catalog or a provider lists, tested, switched and deleted one by one or *)
(* package by package.  A request reads the rules once and then writes     *)
(* them one statement at a time, in no transaction.                        *)
(***************************************************************************)
EXTENDS RuleCatalogs

CONSTANTS
    Contents,   \* what a package file may hold: its version and its rules
    RuleIds,    \* numbers the table of rules gives
    None        \* no rule

VARIABLES
    rules,      \* number |-> rule
    next,       \* the next number
    installed,  \* the package the last import left alone completed
    mixed       \* requests wrote rules while another was writing them

packageVars == <<rules, next, installed, mixed>>

\* What a row of the table of rules may hold.
StoredRule ==
    [package : {c.package : c \in Contents}, version : {c.version : c \in Contents},
     name : UNION {DOMAIN c.rules : c \in Contents},
     sum : UNION {{c.rules[i].sum : i \in DOMAIN c.rules} : c \in Contents},
     enabled : BOOLEAN, applied : BOOLEAN, provider : BOOLEAN, tested : BOOLEAN]

ASSUME ContentAssumption ==
    /\ \A c \in Contents : /\ DOMAIN c.rules \subseteq Nat \ {0}
                           /\ \A i \in DOMAIN c.rules : c.rules[i].enabled \in BOOLEAN
    /\ \A list \in Catalogs : \A p \in list : p.inline => p.content \in Contents
    /\ None \notin StoredRule

Smallest(S) == CHOOSE x \in S : \A y \in S : x <= y
RuleIn == {id \in RuleIds : rules[id] # None}
Origin(rule) == <<rule.package, rule.name>>

\* Parse: rule i of a package, without the marks an update adds.
Packaged(c, i) ==
    [package |-> c.package, name |-> i, version |-> c.version, sum |-> c.rules[i].sum,
     enabled |-> c.rules[i].enabled, applied |-> FALSE, provider |-> FALSE, tested |-> FALSE]

\* rulesByOrigin: of several rules of one origin, the last listed.
InstalledOf(c, i) ==
    LET same == {id \in RuleIn : Origin(rules[id]) = <<c.package, i>>}
    IN IF same = {} THEN 0 ELSE CHOOSE x \in same : \A y \in same : x >= y
AddedBy(c) == {i \in DOMAIN c.rules : InstalledOf(c, i) = 0}
\* Slips: only newer rules are written; all of them are.
ChangedBy_Newer(c) ==
    {i \in DOMAIN c.rules \ AddedBy(c) : rules[InstalledOf(c, i)].version < c.version}
ChangedBy_All(c) == DOMAIN c.rules \ AddedBy(c)
ChangedBy(c) ==
    {i \in DOMAIN c.rules \ AddedBy(c) :
        LET rule == rules[InstalledOf(c, i)]
        IN rule.sum # c.rules[i].sum \/ rule.version # c.version}

Writing == {r \in Requests : requests[r] # Idle /\ requests[r].feed = "rules"}
Begin(r, request) ==
    /\ requests[r] = Idle /\ spent < MaxOperations /\ spent' = spent + 1
    /\ requests' = [requests EXCEPT ![r] = request]
    /\ mixed' = (mixed \/ Writing # {})
    /\ UNCHANGED <<rules, next, installed>>
-----------------------------------------------------------------------------
(***************************************************************************)
(* Importing                                                               *)
(***************************************************************************)
\* PreviewWithTrustKeys: what the import is to create and to update.
Import(r, c, marks) ==
    Begin(r, [op |-> "import", feed |-> "rules", content |-> c, creates |-> AddedBy(c),
              updates |-> {[name |-> i, id |-> InstalledOf(c, i)] : i \in ChangedBy(c)},
              done |-> {}, marks |-> marks, left |-> {}])

ImportRulePackage(r) == \E c \in Contents : Import(r, c, <<>>)

\* A listed package holds its file or says where to read it, now or then.
CatalogPackageData(p) == IF p.inline THEN {p.content}
                         ELSE {c \in Contents : c.package = p.content.package}
ApplyRulePackageUpdate(r) ==
    \E p \in listed["catalog"] : \E c \in CatalogPackageData(p) : Import(r, c, <<"applied">>)
ImportRuleProviderPackage(r) ==
    \E p \in listed["provider"] : \E c \in CatalogPackageData(p) :
        Import(r, c, <<"applied", "provider">>)

Importing(r) == requests[r] # Idle /\ requests[r].op = "import"
\* An import that wrote all it was to write.
Complete(q) == q.creates = {} /\ q.updates = {} /\ q.marks = <<>>
\* The next mark goes over the rules in the order they were written.
Advance(r, q) ==
    LET turn == IF q.creates = {} /\ q.updates = {} /\ q.left = {} /\ q.marks # <<>>
                THEN [q EXCEPT !.left = q.done] ELSE q
        over == Complete(q) \/ (turn.left = {} /\ turn.creates = {} /\ turn.updates = {})
    IN /\ requests' = [requests EXCEPT ![r] = IF over THEN Idle ELSE turn]
       /\ installed' = IF over /\ ~mixed THEN q.content ELSE None

\* Slip: the number is given again.
CreateStep_SameNumber(r) ==
    LET q == requests[r]  i == Smallest(q.creates) IN
    /\ Importing(r) /\ q.creates # {} /\ next \in RuleIds
    /\ rules' = [rules EXCEPT ![next] = Packaged(q.content, i)]
    /\ Advance(r, [q EXCEPT !.creates = @ \ {i}, !.done = @ \cup {[name |-> i, id |-> next]}])
    /\ UNCHANGED <<next, mixed>>
CreateStep(r) ==
    LET q == requests[r]  i == Smallest(q.creates) IN
    /\ Importing(r) /\ q.creates # {} /\ next \in RuleIds
    /\ rules' = [rules EXCEPT ![next] = Packaged(q.content, i)] /\ next' = next + 1
    /\ Advance(r, [q EXCEPT !.creates = @ \ {i}, !.done = @ \cup {[name |-> i, id |-> next]}])
    /\ UNCHANGED mixed

UpdateStep(r) ==
    LET q == requests[r]
        u == CHOOSE x \in q.updates : \A y \in q.updates : x.name <= y.name IN
    /\ Importing(r) /\ q.creates = {} /\ q.updates # {}
    /\ IF rules[u.id] = None
       THEN End(r) /\ UNCHANGED <<rules, installed>>
       ELSE /\ rules' = [rules EXCEPT ![u.id] = Packaged(q.content, u.name)]
            /\ Advance(r, [q EXCEPT !.updates = @ \ {u}, !.done = @ \cup {u}])
    /\ UNCHANGED <<next, mixed>>

\* Each mark writes the rule as it was imported, without the marks before it.
Marked(rule, mark) == IF mark = "applied" THEN [rule EXCEPT !.applied = TRUE]
                      ELSE [rule EXCEPT !.provider = TRUE]
MarkStep(r) ==
    LET q == requests[r]
        d == CHOOSE x \in q.left : \A y \in q.left : x.id <= y.id
        left == q.left \ {d} IN
    /\ Importing(r) /\ q.creates = {} /\ q.updates = {} /\ q.left # {}
    /\ rules' = IF rules[d.id] = None THEN rules
                ELSE [rules EXCEPT ![d.id] = Marked(Packaged(q.content, d.name), Head(q.marks))]
    /\ Advance(r, [q EXCEPT !.left = left, !.marks = IF left = {} THEN Tail(@) ELSE @])
    /\ UNCHANGED <<next, mixed>>

\* Nothing to write: the package is installed already.
NothingToImport(r) ==
    /\ Importing(r) /\ requests[r].creates = {} /\ requests[r].updates = {}
    /\ requests[r].left = {}
    /\ Advance(r, [requests[r] EXCEPT !.marks = <<>>])
    /\ UNCHANGED <<rules, next, mixed>>

\* The store fails at one of the rules: those before it stay.
ImportFails(r) ==
    /\ Importing(r) /\ backend = "postgres"
    /\ requests[r].creates # {} \/ requests[r].updates # {}
    /\ End(r) /\ UNCHANGED packageVars
-----------------------------------------------------------------------------
(***************************************************************************)
(* Rules one by one                                                        *)
(***************************************************************************)
Alone(id) == Once /\ rules[id] # None /\ mixed' = (mixed \/ Writing # {})

\* PUT /rules/{id}: the body has no provider, so the rule loses it.
UpdateRule(id, on) ==
    /\ Alone(id)
    /\ rules' = [rules EXCEPT ![id] = [@ EXCEPT !.enabled = on, !.provider = FALSE]]
    /\ UNCHANGED <<next, installed>>
DeleteRule(id) ==
    /\ Alone(id)
    /\ rules' = [rules EXCEPT ![id] = None]
    /\ installed' = None /\ UNCHANGED next

\* POST /rules/test reads the rule and writes it back with the outcome.
TestRule(r, id) ==
    /\ rules[id] # None
    /\ Begin(r, [op |-> "test", feed |-> "rules", id |-> id, rule |-> rules[id]])
EndTest(r) ==
    /\ requests[r].op = "test"
    /\ LET q == requests[r] IN
       rules' = IF rules[q.id] = None THEN rules
                ELSE [rules EXCEPT ![q.id] = [q.rule EXCEPT !.tested = TRUE]]
    /\ End(r) /\ UNCHANGED <<next, installed, mixed>>

DeleteRulePackage(r, package) ==
    Begin(r, [op |-> "delete", feed |-> "rules",
              todo |-> {id \in RuleIn : rules[id].package = package}])
\* The first rule somebody else has deleted ends the deletion.
DeleteStep(r) ==
    /\ requests[r].op = "delete"
    /\ LET todo == requests[r].todo  id == Smallest(todo) IN
       IF todo = {} \/ (todo # {} /\ rules[id] = None)
       THEN End(r) /\ UNCHANGED <<rules, installed>>
       ELSE /\ rules' = [rules EXCEPT ![id] = None] /\ installed' = None
            /\ requests' = [requests EXCEPT ![r].todo = @ \ {id}]
    /\ UNCHANGED <<next, mixed>>
=============================================================================
