--------------------------- MODULE ProtectionRules ---------------------------
(***************************************************************************)
(* The rules of the protection modules, kept in the table protection_rules *)
(* and, from earlier versions, in a table per module.  The APIs of the     *)
(* modules edit the first and fall back to the second; a backfill copies   *)
(* the second into the first; a release and the console read both and tell *)
(* a copy from its row by the reference it keeps.                          *)
(***************************************************************************)
EXTENDS ProtectionRequests, Sequences, FiniteSets

CONSTANTS
    Backends,     \* stores to check: "memory", "postgres"
    Installations,     \* what earlier versions left in the tables, the request bodies of
                       \* the modules and of the older rate limits, operations spent
    RowIds, RuleIds,   \* the numbers the tables give
    FirstFreeRow, \* the first number no rate limit has yet
    MaxOperations      \* bound: edits, backfills, releases and failures

VARIABLES
    backend,
    clients,      \* module |-> the bodies of its create and update requests
    rules,        \* protection_rules: number |-> rule
    rows,         \* table |-> number |-> row
    request,      \* an update or delete between its two statements
    job,          \* the backfill
    release,      \* the generation of a release
    published,    \* the configuration of the last generation, and the rules it had to give out
    steady,       \* rules to give out and not edited since the generation began
    next,         \* the next number of a rule and of a rate limit
    spent         \* operations so far

vars == <<backend, clients, rules, rows, request, job, release, published, steady, next, spent>>

\* The older tables, in the order they are read.
Tables == <<"rate_limits", "upload_protection_rules", "bot_protection_rules",
            "dynamic_protection_rules", "rules">>
TableSet == {Tables[i] : i \in 1 .. Len(Tables)}
\* A release renders managed attack rules with the applications instead.
Listing == <<"rate_limits", "upload_protection_rules", "bot_protection_rules",
             "dynamic_protection_rules">>
ReleasedTables == {Listing[i] : i \in 1 .. Len(Listing)}
TableOf == [m \in {"cc-protection", "upload-protection", "bot-protection", "dynamic-protection"} |->
              CASE m = "cc-protection" -> "rate_limits"
                [] m = "upload-protection" -> "upload_protection_rules"
                [] m = "bot-protection" -> "bot_protection_rules"
                [] m = "dynamic-protection" -> "dynamic_protection_rules"]

ASSUME ProtectionAssumption ==
    /\ Backends \subseteq {"memory", "postgres"}
    /\ RowIds \subseteq RuleIds /\ RuleIds \subseteq Nat \ {0}
    /\ MaxOperations \in Nat /\ FirstFreeRow \in Nat \ {0}
    /\ \A i \in Installations :
          /\ DOMAIN i.rows = TableSet /\ \A t \in TableSet : DOMAIN i.rows[t] \subseteq RowIds
          /\ \A id \in DOMAIN i.rows["rate_limits"] : id < FirstFreeRow
          /\ DOMAIN i.bodies \subseteq DOMAIN TableOf \cup {"access-control", "rate-limits"}
          /\ i.spent \in 0 .. MaxOperations

Spend == spent < MaxOperations /\ spent' = spent + 1
-----------------------------------------------------------------------------
(***************************************************************************)
(* What the release and the console make of the tables                     *)
(***************************************************************************)
Refs(ruleSet) == {ruleSet[id].ref : id \in DOMAIN ruleSet} \ {NoRef}

\* A rule without what only says where it came from.
Essence(rule) == [rule EXCEPT !.source = "", !.status = "", !.ref = NoRef]
FromRule(ruleSet, id) ==
    [as |-> IF ruleSet[id].ref = NoRef THEN LegacyRef("protection_rules", id) ELSE ruleSet[id].ref,
     stored |-> LegacyRef("protection_rules", id), rule |-> Essence(ruleSet[id])]
FromRow(lists, t, id) ==
    [as |-> LegacyRef(t, id), stored |-> LegacyRef(t, id),
     rule |-> Essence(FromLegacy(t, id, lists[t][id]))]

\* GenerateExtended: the enabled rules, then the enabled rows no rule refers to.
GeneratedRules(ruleSet, lists) ==
    {FromRule(ruleSet, id) : id \in {i \in DOMAIN ruleSet : ruleSet[i].enabled}} \cup
    UNION {{FromRow(lists, t, id) : id \in {i \in DOMAIN lists[t] :
                lists[t][i].enabled /\ LegacyRef(t, i) \notin Refs(ruleSet)}}
           : t \in ReleasedTables}
\* The field rate_limits: every enabled row, copied or not.
GeneratedLimits(lists) ==
    LET limits == lists["rate_limits"]
    IN {FromRow(lists, "rate_limits", id) : id \in {i \in DOMAIN limits : limits[i].enabled}}
Generated(ruleSet, lists) ==
    [rules |-> GeneratedRules(ruleSet, lists), limits |-> GeneratedLimits(lists)]

\* The Gateway: the rate limits stand in when there is no rule of their module.
EnforcedBy(config) ==
    config.rules \cup {e \in config.limits : \A r \in config.rules : r.rule.module # e.rule.module}

RulesInForce == GeneratedRules(rules, rows)
InForce == EnforcedBy(Generated(rules, rows))

\* The list of a module: its rules, then the rows none of its rules refers to.
Listed(module) ==
    LET own == [id \in {i \in DOMAIN rules : rules[i].module = module} |-> rules[id]]
        t == TableOf[module]
    IN {FromRule(own, id) : id \in DOMAIN own} \cup
       {FromRow(rows, t, id) : id \in {i \in DOMAIN rows[t] : LegacyRef(t, i) \notin Refs(own)}}

(***************************************************************************)
(* The migration health report                                             *)
(***************************************************************************)
Candidates == UNION {{<<t, id>> : id \in DOMAIN rows[t]} : t \in ReleasedTables}
CopiesOf(ref) == {id \in DOMAIN rules : rules[id].ref = ref}
Missing == {ref \in Candidates : CopiesOf(ref) = {}}
Duplicated == {ref \in Candidates : Cardinality(CopiesOf(ref)) > 1}
\* Slip: the switch is not compared.
Conflicts_Off == {ref \in Candidates : \E id \in CopiesOf(ref) :
    [Essence(rules[id]) EXCEPT !.name = "", !.enabled = TRUE] #
    [Essence(Legacy(ref[1], rows[ref[1]][ref[2]])) EXCEPT !.name = "", !.enabled = TRUE]}
Conflicts == {ref \in Candidates : \E id \in CopiesOf(ref) :
    [Essence(rules[id]) EXCEPT !.name = ""] #
    [Essence(Legacy(ref[1], rows[ref[1]][ref[2]])) EXCEPT !.name = ""]}
Orphaned == Refs(rules) \ Candidates
Healthy == Missing \cup Duplicated \cup Conflicts \cup Orphaned = {}
-----------------------------------------------------------------------------
(***************************************************************************)
(* The module APIs                                                         *)
(***************************************************************************)
\* The mutex of the memory store keeps everyone out of a backfill.
Unlocked == backend = "memory" => job.step = "idle"

Idle == [step |-> "idle"]
\* An edit beside a backfill is remembered with it.
Disturb == job' = IF job = Idle THEN job ELSE [job EXCEPT !.undisturbed = FALSE]
Put(table, id, value) == [i \in DOMAIN table \cup {id} |-> IF i = id THEN value ELSE table[i]]
Without(table, id) == [i \in DOMAIN table \ {id} |-> table[i]]
Stored(req) == Normalize(ToProtectionRule(req))
Requested(module) == {NormalizeRequest(module, raw) : raw \in clients[module]}

\* Slip: the number is given again.
CreateProtectionRule_SameNumber(module) ==
    /\ Unlocked /\ next.rule \in RuleIds /\ Spend
    /\ \E req \in Requested(module) :
          /\ Accepts(module, req) /\ Validate(Stored(req))
          /\ rules' = Put(rules, next.rule, Stored(req))
    /\ Disturb /\ UNCHANGED <<next, rows, request>>
CreateProtectionRule(module) ==
    /\ Unlocked /\ next.rule \in RuleIds /\ Spend
    /\ \E req \in Requested(module) :
          /\ Accepts(module, req) /\ Validate(Stored(req))
          /\ rules' = Put(rules, next.rule, Stored(req))
    /\ next' = [next EXCEPT !.rule = @ + 1]
    /\ Disturb /\ UNCHANGED <<rows, request>>

\* Slip: the column legacy_ref stays as it is.
UpdateProtectionRule_KeepRef(module, id) ==
    /\ Unlocked /\ request = Idle /\ Spend
    /\ id \in DOMAIN rules
    /\ \E req \in Requested(module) :
          /\ Accepts(module, req) /\ Validate(Stored(req))
          /\ rules' = Put(rules, id, [Stored(req) EXCEPT !.ref = rules[id].ref])
    /\ Disturb /\ UNCHANGED <<next, rows, request>>
\* First statement of an update: the rule of that number, whatever its module.
UpdateProtectionRule(module, id) ==
    /\ Unlocked /\ request = Idle /\ Spend
    /\ \E req \in Requested(module) :
          /\ Accepts(module, req) /\ Validate(Stored(req))
          /\ IF id \in DOMAIN rules
             THEN rules' = Put(rules, id, Stored(req)) /\ UNCHANGED request
             ELSE /\ module \in DOMAIN TableOf
                  /\ request' = [step |-> "update", table |-> TableOf[module], id |-> id,
                                 rule |-> Stored(req)]
                  /\ UNCHANGED rules
    /\ Disturb /\ UNCHANGED <<next, rows>>

DeleteProtectionRule(module, id) ==
    /\ Unlocked /\ request = Idle /\ Spend
    /\ IF id \in DOMAIN rules
       THEN rules' = Without(rules, id) /\ UNCHANGED request
       ELSE /\ module \in DOMAIN TableOf
            /\ request' = [step |-> "delete", table |-> TableOf[module], id |-> id]
            /\ UNCHANGED rules
    /\ Disturb /\ UNCHANGED <<next, rows>>

\* Second statement, when there was no such rule: the row of that number.
UpdateRow ==
    /\ Unlocked /\ request.step = "update"
    /\ rows' = IF request.id \in DOMAIN rows[request.table]
               THEN [rows EXCEPT ![request.table] =
                       Put(@, request.id, ToLegacy(request.table, request.rule))]
               ELSE rows
    /\ request' = Idle
    /\ Disturb /\ UNCHANGED <<next, rules, spent>>

DeleteRow ==
    /\ Unlocked /\ request.step = "delete"
    /\ rows' = [rows EXCEPT ![request.table] = Without(@, request.id)]
    /\ request' = Idle
    /\ Disturb /\ UNCHANGED <<next, rules, spent>>

(***************************************************************************)
(* The older API of the rate limits, and the edits of attack rules         *)
(***************************************************************************)
CreateRateLimit ==
    /\ Unlocked /\ next.row \in RowIds /\ Spend
    /\ \E raw \in clients["rate-limits"] :
          /\ AcceptsRateLimit(NormalizeRateLimit(raw))
          /\ rows' = [rows EXCEPT !["rate_limits"] = Put(@, next.row, NormalizeRateLimit(raw))]
    /\ next' = [next EXCEPT !.row = @ + 1]
    /\ Disturb /\ UNCHANGED <<rules, request>>

UpdateRateLimit(id) ==
    /\ Unlocked /\ id \in DOMAIN rows["rate_limits"] /\ Spend
    /\ \E raw \in clients["rate-limits"] :
          /\ AcceptsRateLimit(NormalizeRateLimit(raw))
          /\ rows' = [rows EXCEPT !["rate_limits"] = Put(@, id, NormalizeRateLimit(raw))]
    /\ Disturb /\ UNCHANGED <<next, rules, request>>

DeleteRateLimit(id) ==
    /\ Unlocked /\ id \in DOMAIN rows["rate_limits"] /\ Spend
    /\ rows' = [rows EXCEPT !["rate_limits"] = Without(@, id)]
    /\ Disturb /\ UNCHANGED <<next, rules, request>>

ToggleAttackRule(id) ==
    /\ Unlocked /\ id \in DOMAIN rows["rules"] /\ Spend
    /\ rows' = [rows EXCEPT !["rules"][id].enabled = ~@]
    /\ Disturb /\ UNCHANGED <<next, rules, request>>
-----------------------------------------------------------------------------
(***************************************************************************)
(* The backfill                                                            *)
(***************************************************************************)
StartBackfill ==
    /\ job = Idle /\ Spend
    /\ job' = [step |-> "read", read |-> 0, todo |-> [i \in 1 .. Len(Tables) |-> {}],
               undisturbed |-> request = Idle]
    /\ UNCHANGED <<next, rules, rows, request>>

\* Reads one table; the candidates are kept per table, in its order.
ReadTable ==
    /\ job.step = "read" /\ job.read < Len(Tables)
    /\ LET t == Tables[job.read + 1] IN
       job' = [job EXCEPT !.read = @ + 1,
                 !.todo[job.read + 1] = {[table |-> t, id |-> id, row |-> rows[t][id]]
                                         : id \in DOMAIN rows[t]}]
    /\ UNCHANGED <<next, rules, rows, request, spent>>

\* Slip: a copy starts switched on.
Copy_On(c) == [Normalize(FromLegacy(c.table, c.id, c.row)) EXCEPT !.source = "legacy",
                                                   !.status = "migrated", !.enabled = TRUE]
Copy(c) == [Normalize(FromLegacy(c.table, c.id, c.row)) EXCEPT !.source = "legacy",
                                                               !.status = "migrated"]
\* Whose turn it is: a table after the other, in order of number on postgres.
Turn(i) ==
    {c \in job.todo[i] : /\ \A j \in 1 .. i - 1 : job.todo[j] = {}
                         /\ backend = "postgres" => \A d \in job.todo[i] : c.id <= d.id}

\* Slip: nothing happens on a conflict of legacy_ref.
InsertCopy_Again ==
    /\ job.step = "read" /\ job.read = Len(Tables) /\ next.rule \in RuleIds
    /\ \E i \in 1 .. Len(Tables) : \E c \in Turn(i) :
          /\ Validate(Copy(c))
          /\ job' = [job EXCEPT !.todo[i] = @ \ {c}]
          /\ rules' = Put(rules, next.rule, Copy(c))
    /\ next' = [next EXCEPT !.rule = @ + 1]
    /\ UNCHANGED <<rows, request, spent>>
InsertCopy ==
    /\ job.step = "read" /\ job.read = Len(Tables) /\ next.rule \in RuleIds
    /\ \E i \in 1 .. Len(Tables) : \E c \in Turn(i) :
          /\ Validate(Copy(c))
          /\ job' = [job EXCEPT !.todo[i] = @ \ {c}]
          /\ IF LegacyRef(c.table, c.id) \in Refs(rules)
             THEN UNCHANGED <<rules, next>>
             ELSE /\ rules' = Put(rules, next.rule, Copy(c))
                  /\ next' = [next EXCEPT !.rule = @ + 1]
    /\ UNCHANGED <<rows, request, spent>>

\* Slip: a table without rows ends the job.
EndBackfill_FirstTable ==
    /\ job.step = "read" /\ job.read = Len(Tables)
    /\ \E i \in 1 .. Len(Tables) : job.todo[i] = {}
    /\ job' = Idle
    /\ UNCHANGED <<next, rules, rows, request, spent>>
\* The last row is done, or a row that Validate refuses ends the job.
EndBackfill ==
    /\ job.step = "read" /\ job.read = Len(Tables)
    /\ \/ \A i \in 1 .. Len(Tables) : job.todo[i] = {}
       \/ \E i \in 1 .. Len(Tables) : \E c \in Turn(i) : ~Validate(Copy(c))
    /\ job' = Idle
    /\ UNCHANGED <<next, rules, rows, request, spent>>

\* On postgres a statement fails or the process stops; what is inserted stays.
BackfillFails ==
    /\ backend = "postgres" /\ job # Idle /\ Spend
    /\ job' = Idle
    /\ UNCHANGED <<next, rules, rows, request>>

BackfillStep == ReadTable \/ InsertCopy \/ EndBackfill
-----------------------------------------------------------------------------
(***************************************************************************)
(* The generation of a release                                             *)
(***************************************************************************)
Publishable ==
    /\ \A t \in TableSet : \A id \in DOMAIN rows[t] : PublishableRow(t, rows[t][id])
    /\ \A id \in DOMAIN rules : rules[id].enabled => Validate(rules[id])

StartRelease ==
    /\ Unlocked /\ release = Idle /\ Publishable /\ Spend
    /\ release' = [step |-> "read", read |-> 0,
                   lists |-> [t \in ReleasedTables \cup {"protection_rules"} |-> <<>>]]
    /\ UNCHANGED published

\* Slip: protection_rules first.
ReadOrder_RulesFirst == <<"protection_rules">> \o Listing
\* The older tables one after the other and protection_rules last.
ReadOrder == Append(Listing, "protection_rules")

\* Reads the next list; with the last one it makes the configuration.
ReadList ==
    /\ Unlocked /\ release.step = "read"
    /\ LET t == ReadOrder[release.read + 1]
           lists == [release.lists EXCEPT ![t] = IF t = "protection_rules" THEN rules ELSE rows[t]]
       IN IF release.read + 1 < Len(ReadOrder)
          THEN /\ release' = [release EXCEPT !.read = @ + 1, !.lists = lists]
               /\ UNCHANGED published
          ELSE /\ release' = Idle
               /\ published' = [config |-> Generated(lists["protection_rules"], lists),
                                steady |-> steady]
    /\ UNCHANGED spent

ReleaseStep == StartRelease \/ ReadList
-----------------------------------------------------------------------------
Init ==
    /\ backend \in Backends
    /\ rules = <<>>
    /\ \E i \in Installations : rows = i.rows /\ clients = i.bodies /\ spent = i.spent
    /\ next = [rule |-> 1, row |-> FirstFreeRow]
    /\ request = Idle /\ job = Idle /\ release = Idle
    /\ published = [config |-> [rules |-> {}, limits |-> {}], steady |-> {}] /\ steady = {}

Modules == DOMAIN clients \ {"rate-limits"}
StoreStep ==
    \/ \E m \in Modules : CreateProtectionRule(m)
    \/ \E m \in Modules, id \in RuleIds :
          UpdateProtectionRule(m, id) \/ DeleteProtectionRule(m, id)
    \/ UpdateRow \/ DeleteRow
    \/ CreateRateLimit
    \/ \E id \in RowIds : UpdateRateLimit(id) \/ DeleteRateLimit(id) \/ ToggleAttackRule(id)
    \/ StartBackfill \/ BackfillStep \/ BackfillFails

\* Rules a release would give out since the generation began, whose row was not rewritten.
Rewritten(ref) ==
    /\ ref[1] \in TableSet /\ ref[2] \in DOMAIN rows'[ref[1]]
    /\ ref[2] \notin DOMAIN rows[ref[1]] \/ rows'[ref[1]][ref[2]] # rows[ref[1]][ref[2]]
Watch ==
    steady' = IF release' = Idle THEN {}
              ELSE IF release = Idle THEN {[as |-> e.as, rule |-> e.rule] : e \in RulesInForce}
              ELSE {s \in steady : /\ ~Rewritten(s.as)
                                   /\ \E e \in RulesInForce' : e.as = s.as /\ e.rule = s.rule}

Next ==
    /\ \/ StoreStep /\ UNCHANGED <<release, published>>
       \/ ReleaseStep /\ UNCHANGED <<rules, rows, next, request, job>>
    /\ Watch /\ UNCHANGED <<backend, clients>>

Spec == Init /\ [][Next]_vars
-----------------------------------------------------------------------------
\* Every variable holds a value the code can give it; numbers are given once.
TypeOK ==
    /\ backend \in Backends /\ spent \in 0 .. MaxOperations
    /\ DOMAIN rules \subseteq RuleIds
    /\ \A id \in DOMAIN rules :
          rules[id].module \in DOMAIN TableOf \cup {"access-control", "attack-protection"}
    /\ DOMAIN rows = TableSet /\ \A t \in TableSet : DOMAIN rows[t] \subseteq RowIds
    /\ \A id \in DOMAIN rules : id < next.rule
    /\ \A id \in DOMAIN rows["rate_limits"] : id < next.row
    /\ request.step \in {"idle", "update", "delete"}
    /\ job.step \in {"idle", "read"} /\ release.step \in {"idle", "read"}

(***************************************************************************)
(* Running the backfill again, after a failure or beside edits, never      *)
(* gives a row a second copy (ON CONFLICT (legacy_ref) DO NOTHING).        *)
(***************************************************************************)
LegacyRefsUnique ==
    \A i, j \in DOMAIN rules : i # j /\ rules[i].ref # NoRef => rules[i].ref # rules[j].ref

(***************************************************************************)
(* A rule to give out all along the generation of a release is enforced    *)
(* by it exactly once, be it as its row or as its copy, and not a second   *)
(* time as a rate limit: a backfill running beside, and the removal of     *)
(* rows already copied, neither drop nor double it (GenerateExtended reads *)
(* the older tables before protection_rules).                              *)
(***************************************************************************)
ReleasesServeSteadyRulesOnce ==
    \A s \in published.steady :
        LET served == {e \in EnforcedBy(published.config) : e.as = s.as} IN
        Cardinality(served) = 1 /\ \A e \in served : e.rule = s.rule

(***************************************************************************)
(* What the list of a module shows as enabled is enforced by the next      *)
(* release.  What is enforced and not shown is a rate limit that stands in *)
(* although its copy is off, and the health report names it as a conflict: *)
(* the console looks for copies among the rules of the module only, the    *)
(* release among all of them, the field rate_limits among none.            *)
(***************************************************************************)
HiddenLimitsAreReported ==
    \A m \in Modules \cap DOMAIN TableOf :
        LET shown == {e \in Listed(m) : e.rule.enabled}
            enforced == {e \in InForce : e.rule.module = m}
        IN shown \subseteq enforced /\ \A e \in enforced \ shown : e.as \in Conflicts

(***************************************************************************)
(* When the health report has no issue, the older tables and their copies  *)
(* say the same: a release without the one or without the other puts the   *)
(* same rules in force (buildProtectionRuleMigrationHealth).               *)
(***************************************************************************)
Served(entries) == {[as |-> e.as, rule |-> [e.rule EXCEPT !.name = ""]] : e \in entries}
WithoutCopies == [id \in {i \in DOMAIN rules : rules[i].ref = NoRef} |-> rules[id]]
NoRows == [t \in ReleasedTables |-> <<>>]
HealthyMeansEitherSideSuffices ==
    Healthy => /\ Served(EnforcedBy(Generated(rules, NoRows))) = Served(InForce)
               /\ Served(EnforcedBy(Generated(WithoutCopies, rows))) = Served(InForce)

(***************************************************************************)
(* Inserting the copy of a row that is as it was read leaves what is in    *)
(* force as it is: a backfill that stops anywhere changes no protection.   *)
(***************************************************************************)
InForceAs(entries) == {[as |-> e.as, rule |-> e.rule] : e \in {x \in entries : x.as[1] # "rules"}}
FreshCopies == \A i \in DOMAIN job.todo : \A c \in job.todo[i] :
    c.id \in DOMAIN rows[c.table] /\ rows[c.table][c.id] = c.row
BackfillChangesNoProtection ==
    [][BackfillStep /\ FreshCopies => InForceAs(InForce)' = InForceAs(InForce)]_vars

(***************************************************************************)
(* A backfill no edit disturbed that reaches its end leaves every row with *)
(* a copy, whatever earlier ones that stopped half-way left behind.        *)
(***************************************************************************)
Copyable == \A t \in TableSet : \A id \in DOMAIN rows[t] :
    Validate(Copy([table |-> t, id |-> id, row |-> rows[t][id]]))
Covered == \A t \in TableSet : \A id \in DOMAIN rows[t] : LegacyRef(t, id) \in Refs(rules)
BackfillIsComplete == [][EndBackfill /\ job.undisturbed /\ Copyable => Covered]_vars

(***************************************************************************)
(* An edit the API accepts leaves a state that can be published: every     *)
(* enabled row passes the checks of a release.                             *)
(***************************************************************************)
AcceptedEditsCanBePublished == Publishable
=============================================================================
