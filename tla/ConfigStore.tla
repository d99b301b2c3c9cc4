---------------------------- MODULE ConfigStore ----------------------------
(***************************************************************************)
(* Applications, certificates, rules and policies in the store: the rows   *)
(* of each kind and the references between them.                           *)
(*                                                                         *)
(* The in-memory store does each operation under its mutex.  The database  *)
(* store checks references in statements of their own.  It saves a policy  *)
(* in a transaction and relies on row locks, on the foreign keys of the    *)
(* binding tables and on their cascades, which take a lock after another.  *)
(* No table is locked and listeners have no foreign key to certificates.   *)
(***************************************************************************)
EXTENDS Naturals, FiniteSets

CONSTANTS
  Requests,      \* goroutines that serve the configuration API
  Backends,      \* the stores STORE_BACKEND may select
  OldSites,      \* ids in the table sites, which the API no longer edits
  MaxApplications, MaxCertificates, MaxRules, MaxPolicies,   \* ids of each kind
  MaxRequests, MaxFaults

Limit == [applications |-> MaxApplications, certificates |-> MaxCertificates,
          rules |-> MaxRules, policies |-> MaxPolicies]
Kinds == DOMAIN Limit
Ids(kind) == 1..Limit[kind]
New == 0       \* the id of a row to create
Sites == Ids("applications") \cup OldSites

ASSUME ConfigStoreAssumption ==
  /\ Backends \subseteq {"memory", "postgres"}
  /\ MaxApplications \in Nat /\ MaxCertificates \in Nat /\ MaxRules \in Nat /\ MaxPolicies \in Nat
  /\ MaxRequests \in Nat /\ MaxFaults \in Nat
  /\ OldSites \subseteq Nat \ {0}

VARIABLES
  backend,   \* the store behind the Store interface, for good
  rows,      \* ids of each kind
  next,      \* next id of each kind
  uses,      \* application_listeners: <<application, certificate>>, enabled and https
  bound,     \* policy_sites and policy_rules: <<policy, table, id>>
  chosen,    \* history: what the last save of a policy asked for
  req,       \* what each request has done
  raced,     \* history: certificates deleted beside a save that names them
  started, faults

tables == <<rows, next, uses, bound, chosen>>
aside == <<backend, raced>>
vars == <<tables, req, started, faults, aside>>

Idle == [op |-> "none", phase |-> "idle", id |-> 0, certs |-> {}, apps |-> {}, rules |-> {},
         todo |-> {}, old |-> {}]

Init ==
  /\ backend \in Backends
  /\ raced = {}
  /\ rows = [k \in Kinds |-> {}]
  /\ next = [k \in Kinds |-> 1]
  /\ uses = {} /\ bound = {}
  /\ chosen = [i \in Ids("policies") |-> [apps |-> {}, rules |-> {}]]
  /\ req = [p \in Requests |-> Idle]
  /\ started = 0
  /\ faults = MaxFaults

Exists(kind, i) == i \in rows[kind]

\* The row that an operation saves: an existing one, or the next to create.
Saved(kind, i) == IF i = New THEN next[kind] ELSE i
MaySave(kind, i) == Saved(kind, i) \in Ids(kind) /\ (i = New \/ Exists(kind, i))

\* Slip: the next id is the number of rows.
Save_Count(kind, i) ==
  /\ rows' = [rows EXCEPT ![kind] = @ \cup {i}]
  /\ next' = [next EXCEPT ![kind] = Cardinality(rows[kind] \cup {i}) + 1]
Save(kind, i) ==
  /\ rows' = [rows EXCEPT ![kind] = @ \cup {i}]
  /\ next' = [next EXCEPT ![kind] = IF i = @ THEN @ + 1 ELSE @]

Remove(kind, i) == rows' = [rows EXCEPT ![kind] = @ \ {i}] /\ UNCHANGED next

\* What a policy may name: validateApplicationRefs takes an application or an old site.
Known(apps, rules) == apps \subseteq rows["applications"] \cup OldSites
                      /\ rules \subseteq rows["rules"]

BindingsOf(i) == {b \in bound : b[1] = i}
SitesOf(i) == {s \in Sites : <<i, "sites", s>> \in bound}
RulesOf(i) == {r \in Ids("rules") : <<i, "rules", r>> \in bound}
Chosen(i, apps, rules) == ({i} \X {"sites"} \X apps) \cup ({i} \X {"rules"} \X rules)
\* application_ids and rule_ids of a policy: neither may be empty.
Choices(ids) == SUBSET ids \ {{}}
\* Slip: the search answers at the first application.
InUse_First(c) == \E i \in rows["applications"] : /\ <<i, c>> \in uses
                                                 /\ \A j \in rows["applications"] : i <= j
\* A listener counts if it is enabled, whatever its protocol.
InUse(c) == \E i \in rows["applications"] : <<i, c>> \in uses

(***************************************************************************)
(* What the operations do to the tables.                                   *)
(***************************************************************************)
PutApplication(i, certs) ==
  /\ Save("applications", i)
  /\ uses' = {u \in uses : u[1] # i} \cup {<<i, c>> : c \in certs}
  /\ UNCHANGED <<bound, chosen>>

DropApplication(i) ==
  /\ Remove("applications", i)
  /\ uses' = {u \in uses : u[1] # i}
  /\ UNCHANGED <<bound, chosen>>

DropCertificate(c) == Remove("certificates", c) /\ UNCHANGED <<uses, bound, chosen>>

PutPolicy(i, apps, rules, old) ==
  /\ Save("policies", i)
  /\ bound' = (bound \ old) \cup Chosen(i, apps, rules)
  /\ chosen' = [chosen EXCEPT ![i] = [apps |-> apps, rules |-> rules]]
  /\ UNCHANGED uses

DropPolicy(i) ==
  /\ Remove("policies", i)
  /\ bound' = bound \ BindingsOf(i)
  /\ UNCHANGED <<uses, chosen>>

\* Slip: the key of policy_rules without its cascade.
DropRule_Keep(r) == Remove("rules", r) /\ UNCHANGED <<uses, bound, chosen>>
\* policy_rules has ON DELETE CASCADE; the map of policies has not.
DropRule(r) ==
  /\ Remove("rules", r)
  /\ bound' = IF backend = "memory" THEN bound
              ELSE {b \in bound : ~(b[2] = "rules" /\ b[3] = r)}
  /\ UNCHANGED <<uses, chosen>>

(***************************************************************************)
(* Operations of one step on both stores.                                  *)
(***************************************************************************)
Start == started < MaxRequests /\ started' = started + 1

Create(kind) ==
  /\ Start
  /\ kind \in {"certificates", "rules"}
  /\ next[kind] \in Ids(kind)
  /\ Save(kind, next[kind])
  /\ UNCHANGED <<uses, bound, chosen, req, faults, aside>>

DeleteApplication(i) ==
  /\ Start
  /\ Exists("applications", i)
  /\ DropApplication(i)
  /\ UNCHANGED <<req, faults, aside>>

(***************************************************************************)
(* The in-memory store.                                                    *)
(***************************************************************************)
InMemory ==
  /\ backend = "memory"
  /\ Start
  /\ \/ \E i \in Ids("applications") \cup {New}, certs \in SUBSET rows["certificates"] :
          MaySave("applications", i) /\ PutApplication(Saved("applications", i), certs)
     \/ \E c \in rows["certificates"] : ~InUse(c) /\ DropCertificate(c)
     \/ \E i \in Ids("policies") \cup {New}, apps \in Choices(Sites),
           rules \in Choices(rows["rules"]) :
          /\ MaySave("policies", i) /\ Known(apps, rules)
          /\ PutPolicy(Saved("policies", i), apps, rules, BindingsOf(i))
     \/ \E i \in rows["policies"] : DropPolicy(i)
     \/ \E r \in rows["rules"] : DropRule(r)
  /\ UNCHANGED <<req, faults, aside>>

(***************************************************************************)
(* The database: requests of several statements.                           *)
(***************************************************************************)
Races(r, a, d, c) == /\ r[a].op = "saveApplication" /\ c \in r[a].certs
                     /\ r[d].op = "deleteCertificate" /\ r[d].id = c

Begin(p, record) ==
  /\ backend = "postgres"
  /\ Start
  /\ req[p].phase = "idle"
  /\ req' = [req EXCEPT ![p] = record]
  /\ raced' = raced \cup {c \in Ids("certificates") :
                            \E a, d \in Requests : Races(req', a, d, c)}
  /\ UNCHANGED <<tables, faults, backend>>

At(p, op, phase) == req[p].op = op /\ req[p].phase = phase

Quiet == UNCHANGED <<tables, started, faults, aside>>

(***************************************************************************)
(* CreateApplication, UpdateApplication: a query for the certificate of    *)
(* each enabled https listener, then the transaction.                      *)
(***************************************************************************)
BeginSaveApplication(p, i, certs) ==
  /\ MaySave("applications", i)
  /\ Begin(p, [Idle EXCEPT !.op = "saveApplication", !.phase = "check", !.id = i,
                           !.certs = certs, !.todo = certs])

CheckCertificate(p, c) ==
  /\ At(p, "saveApplication", "check")
  /\ c \in req[p].todo
  /\ req' = [req EXCEPT ![p] = IF Exists("certificates", c)
                               THEN [req[p] EXCEPT !.todo = @ \ {c}] ELSE Idle]
  /\ Quiet

WriteApplication(p) ==
  /\ At(p, "saveApplication", "check")
  /\ req[p].todo = {}
  /\ req' = [req EXCEPT ![p] = Idle]
  /\ IF MaySave("applications", req[p].id)
     THEN PutApplication(Saved("applications", req[p].id), req[p].certs)
     ELSE UNCHANGED tables
  /\ UNCHANGED <<started, faults, aside>>

(***************************************************************************)
(* DeleteCertificate: count the listeners that use it, then delete it.     *)
(***************************************************************************)
BeginDeleteCertificate(p, c) ==
  /\ Exists("certificates", c)
  /\ Begin(p, [Idle EXCEPT !.op = "deleteCertificate", !.phase = "count", !.id = c])

CountListeners(p) ==
  /\ At(p, "deleteCertificate", "count")
  /\ req' = [req EXCEPT ![p] = IF InUse(req[p].id) THEN Idle ELSE [@ EXCEPT !.phase = "delete"]]
  /\ Quiet

DeleteCertificate(p) ==
  /\ At(p, "deleteCertificate", "delete")
  /\ req' = [req EXCEPT ![p] = Idle]
  /\ DropCertificate(req[p].id)
  /\ UNCHANGED <<started, faults, aside>>

(***************************************************************************)
(* CreatePolicy, UpdatePolicy: check the references, write the policy's    *)
(* row, delete its bindings, insert the new ones, commit.  From its write  *)
(* on the row of the policy is locked, from their deletion on its old      *)
(* bindings are, and each inserted binding shares a lock of its rule.      *)
(***************************************************************************)
Writing == {"unbind", "bindSites", "bindRules"}
Rebinding == Writing \ {"unbind"}

\* Slip: the policy's row is written after its old bindings are deleted.
LocksPolicy_Late(q, i) == /\ req[q].id = i
                          /\ \/ req[q].op = "savePolicy" /\ req[q].phase = "bindRules"
                             \/ req[q].op = "deletePolicy" /\ req[q].phase = "cascade"
LocksPolicy(q, i) == /\ req[q].id = i
                     /\ \/ req[q].op = "savePolicy" /\ req[q].phase \in Writing
                        \/ req[q].op = "deletePolicy" /\ req[q].phase = "cascade"
LocksBinding(q, r) == /\ req[q].op = "savePolicy" /\ req[q].phase \in Rebinding
                      /\ <<req[q].id, "rules", r>> \in req[q].old
SharesRule(q, r) == /\ At(q, "savePolicy", "bindRules")
                    /\ r \in req[q].rules \ req[q].todo
LocksRule(q, r) == At(q, "deleteRule", "cascade") /\ req[q].id = r
\* Slip: the rules are locked for update before they are bound.
RefusesBinding_Update(q, r) == LocksRule(q, r) \/ SharesRule(q, r)
\* The INSERT of a binding waits for the deletion of its rule, and for nothing else.
RefusesBinding(q, r) == LocksRule(q, r)

Others(p) == Requests \ {p}

BeginSavePolicy(p, i, apps, rules) ==
  /\ MaySave("policies", i)
  /\ Begin(p, [Idle EXCEPT !.op = "savePolicy", !.phase = "check", !.id = i,
                           !.apps = apps, !.rules = rules])

CheckReferences(p) ==
  /\ At(p, "savePolicy", "check")
  /\ req' = [req EXCEPT ![p] = IF Known(req[p].apps, req[p].rules)
                               THEN [@ EXCEPT !.phase = "row"] ELSE Idle]
  /\ Quiet

\* A sequence gives its value away even if the transaction fails.
WritePolicyRow(p) ==
  /\ At(p, "savePolicy", "row")
  /\ \A q \in Others(p) : ~LocksPolicy(q, req[p].id)
  /\ IF MaySave("policies", req[p].id)
     THEN req' = [req EXCEPT ![p].phase = "unbind", ![p].id = Saved("policies", @)]
     ELSE req' = [req EXCEPT ![p] = Idle]
  /\ next' = [next EXCEPT !["policies"] =
                IF req[p].id = New /\ @ \in Ids("policies") THEN @ + 1 ELSE @]
  /\ UNCHANGED <<rows, uses, bound, chosen, started, faults, aside>>

Unbind(p) ==
  /\ At(p, "savePolicy", "unbind")
  /\ req' = [req EXCEPT ![p].phase = "bindSites", ![p].old = BindingsOf(req[p].id)]
  /\ Quiet

\* policy_sites refers to sites, and to nothing else.
BindSites(p) ==
  /\ At(p, "savePolicy", "bindSites")
  /\ req' = [req EXCEPT ![p] = IF req[p].apps \subseteq OldSites
                               THEN [req[p] EXCEPT !.phase = "bindRules", !.todo = req[p].rules]
                               ELSE [req[p] EXCEPT !.phase = "constraint"]]
  /\ Quiet

BindRule(p, r) ==
  /\ At(p, "savePolicy", "bindRules")
  /\ r \in req[p].todo
  /\ \A q \in Others(p) : ~RefusesBinding(q, r)
  /\ req' = [req EXCEPT ![p] = IF Exists("rules", r) THEN [req[p] EXCEPT !.todo = @ \ {r}]
                               ELSE [@ EXCEPT !.phase = "constraint"]]
  /\ Quiet

CommitPolicy(p) ==
  /\ At(p, "savePolicy", "bindRules")
  /\ req[p].todo = {}
  /\ req' = [req EXCEPT ![p] = Idle]
  /\ PutPolicy(req[p].id, req[p].apps, req[p].rules, req[p].old)
  /\ UNCHANGED <<started, faults, aside>>

\* The answer to a request that a foreign key has refused; its transaction is rolled back.
AnswerConstraint(p) ==
  /\ At(p, "savePolicy", "constraint")
  /\ req' = [req EXCEPT ![p] = Idle]
  /\ Quiet

(***************************************************************************)
(* DeletePolicy, DeleteRule: the row, then the cascade over its bindings.  *)
(***************************************************************************)
BeginDelete(p, op, kind, i) ==
  /\ Exists(kind, i)
  /\ Begin(p, [Idle EXCEPT !.op = op, !.phase = "row", !.id = i])

LockRow(p, op, kind) ==
  /\ At(p, op, "row")
  /\ req' = [req EXCEPT ![p] = IF Exists(kind, req[p].id) THEN [@ EXCEPT !.phase = "cascade"]
                               ELSE Idle]
  /\ Quiet

LockPolicy(p) == /\ \A q \in Others(p) : ~LocksPolicy(q, req[p].id)
                 /\ LockRow(p, "deletePolicy", "policies")

LockRule(p) == /\ \A q \in Others(p) : ~SharesRule(q, req[p].id) /\ ~LocksRule(q, req[p].id)
               /\ LockRow(p, "deleteRule", "rules")

DeletePolicy(p) ==
  /\ At(p, "deletePolicy", "cascade")
  /\ req' = [req EXCEPT ![p] = Idle]
  /\ DropPolicy(req[p].id)
  /\ UNCHANGED <<started, faults, aside>>

DeleteRule(p) ==
  /\ At(p, "deleteRule", "cascade")
  /\ \A q \in Others(p) : ~LocksBinding(q, req[p].id)
  /\ req' = [req EXCEPT ![p] = Idle]
  /\ DropRule(req[p].id)
  /\ UNCHANGED <<started, faults, aside>>

(***************************************************************************)
(* Waiting.  When requests wait for each other in a circle the database    *)
(* aborts one of them.                                                     *)
(***************************************************************************)
WaitsFor(p, q) ==
  LET i == req[p].id IN
  /\ q # p
  /\ \/ At(p, "savePolicy", "row") /\ LocksPolicy(q, i)
     \/ At(p, "savePolicy", "bindRules") /\ \E r \in req[p].todo : RefusesBinding(q, r)
     \/ At(p, "deletePolicy", "row") /\ LocksPolicy(q, i)
     \/ At(p, "deleteRule", "row") /\ (SharesRule(q, i) \/ LocksRule(q, i))
     \/ At(p, "deleteRule", "cascade") /\ LocksBinding(q, i)

WaitForEachOther(circle) == circle # {} /\ \A q \in circle : \E w \in circle : WaitsFor(q, w)
Deadlocked == {p \in Requests : \E circle \in SUBSET Requests :
                                  p \in circle /\ WaitForEachOther(circle)}

AbortDeadlocked(p) ==
  /\ p \in Deadlocked
  /\ req' = [req EXCEPT ![p] = Idle]
  /\ Quiet

(***************************************************************************)
(* Failures.                                                               *)
(***************************************************************************)
Fault == faults > 0 /\ faults' = faults - 1

RequestFails(p) ==
  /\ Fault
  /\ req[p].phase # "idle"
  /\ req' = [req EXCEPT ![p] = Idle]
  /\ UNCHANGED <<tables, started, aside>>

Restart ==
  /\ Fault
  /\ req' = [p \in Requests |-> Idle]
  /\ IF backend = "memory"
     THEN /\ rows' = [k \in Kinds |-> {}] /\ next' = [k \in Kinds |-> 1]
          /\ uses' = {} /\ bound' = {}
          /\ chosen' = [i \in Ids("policies") |-> [apps |-> {}, rules |-> {}]]
     ELSE UNCHANGED tables
  /\ UNCHANGED <<started, aside>>

SaveApplication(p) == (\E c \in req[p].todo : CheckCertificate(p, c)) \/ WriteApplication(p)
RemoveCertificate(p) == CountListeners(p) \/ DeleteCertificate(p)
SavePolicy(p) == \/ CheckReferences(p) \/ WritePolicyRow(p) \/ Unbind(p) \/ BindSites(p)
                 \/ \E r \in req[p].todo : BindRule(p, r)
                 \/ CommitPolicy(p) \/ AnswerConstraint(p)
RemovePolicy(p) == LockPolicy(p) \/ DeletePolicy(p)
RemoveRule(p) == LockRule(p) \/ DeleteRule(p)

Serve(p) == SaveApplication(p) \/ RemoveCertificate(p) \/ SavePolicy(p) \/ RemovePolicy(p)
            \/ RemoveRule(p)

Accept(p) ==
  \/ \E i \in Ids("applications") \cup {New}, certs \in SUBSET Ids("certificates") :
       BeginSaveApplication(p, i, certs)
  \/ \E c \in Ids("certificates") : BeginDeleteCertificate(p, c)
  \/ \E i \in Ids("policies") \cup {New}, apps \in Choices(Sites), rules \in Choices(Ids("rules")) :
       BeginSavePolicy(p, i, apps, rules)
  \/ \E i \in Ids("policies") : BeginDelete(p, "deletePolicy", "policies", i)
  \/ \E r \in Ids("rules") : BeginDelete(p, "deleteRule", "rules", r)

Next ==
  \/ \E kind \in Kinds : Create(kind)
  \/ \E i \in Ids("applications") : DeleteApplication(i)
  \/ InMemory
  \/ \E p \in Requests : Accept(p) \/ Serve(p) \/ AbortDeadlocked(p) \/ RequestFails(p)
  \/ Restart

Spec == Init /\ [][Next]_vars

(***************************************************************************)
(* Properties.                                                             *)
(***************************************************************************)
Bindings == (Ids("policies") \X {"sites"} \X Sites)
            \cup (Ids("policies") \X {"rules"} \X Ids("rules"))

Request == [op : {"none", "saveApplication", "deleteCertificate", "savePolicy", "deletePolicy",
                  "deleteRule"},
            phase : {"idle", "check", "count", "delete", "row", "cascade", "constraint"}
                    \cup Writing,
            id : Nat, certs : SUBSET Ids("certificates"), apps : SUBSET Sites,
            rules : SUBSET Ids("rules"), todo : SUBSET Nat, old : SUBSET Bindings]

\* Every variable has its type, and an id given away is never given again.
TypeOK ==
  /\ backend \in Backends /\ raced \subseteq Ids("certificates")
  /\ rows \in [Kinds -> SUBSET Nat] /\ next \in [Kinds -> Nat]
  /\ \A k \in Kinds : rows[k] \subseteq Ids(k) /\ \A i \in rows[k] : i < next[k]
  /\ uses \subseteq Ids("applications") \X Ids("certificates")
  /\ bound \subseteq Bindings
  /\ chosen \in [Ids("policies") -> [apps : SUBSET Sites, rules : SUBSET Ids("rules")]]
  /\ req \in [Requests -> Request]
  /\ started \in 0..MaxRequests /\ faults \in 0..MaxFaults

\* The certificate of an enabled https listener is in the store: neither the order of
\* saves and deletions nor what fails between their checks and their writes takes it away.
\* It holds for requests one by one.
CertificatesOfListenersExist ==
  uses \subseteq rows["applications"] \X rows["certificates"]

\* On either store only a deletion that overlapped a save of the same certificate can take
\* it from a listener, whatever else runs beside or fails between them.
OnlyOverlapsLoseCertificates ==
  uses \subseteq rows["applications"] \X (rows["certificates"] \cup raced)

EndsExist ==
  \A b \in bound : /\ Exists("policies", b[1])
                  /\ IF b[2] = "rules" THEN Exists("rules", b[3]) ELSE b[3] \in OldSites

\* On the database both ends of a binding exist, whatever saves of the policy and deletions
\* of its rules run beside each other.
BindingsExist == backend = "postgres" => EndsExist

BoundAsSaved ==
  \A i \in rows["policies"] : /\ SitesOf(i) = chosen[i].apps
                             /\ RulesOf(i) = chosen[i].rules \cap rows["rules"]

\* On the database two saves of a policy are never mixed or half done: its bindings are those
\* that its last committed save asked for, less the rules deleted since.
BindingsAreTheLastSave == backend = "postgres" => BoundAsSaved

\* The database refuses a policy only if one of the applications or rules that it names
\* does not exist: the ids of applications are what application_ids holds.
ApplicationsAreBindable ==
  \A p \in Requests : At(p, "savePolicy", "constraint") =>
    ~(req[p].apps \subseteq rows["applications"] /\ req[p].rules \subseteq rows["rules"])

\* On the database requests wait for each other in a circle only over a rule that is being
\* deleted: a deletion among them is at its cascade, and one of the saves is binding rules
\* anew for a policy that is still bound to that rule.  Saves of policies by themselves,
\* whatever rules they name in whatever order, saves of new policies beside deletions of
\* rules, and deletions of policies never end in a deadlock.
DeadlocksAreOverDeletedRules ==
  backend = "postgres" =>
    \A circle \in SUBSET Requests : WaitForEachOther(circle) =>
      \E d, s \in circle : /\ At(d, "deleteRule", "cascade")
                           /\ At(s, "savePolicy", "bindRules")
                           /\ <<req[s].id, "rules", req[d].id>> \in bound
=============================================================================
