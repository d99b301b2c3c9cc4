------------------------- MODULE ConfigStoreProofs -------------------------
(***************************************************************************)
(* Theorems about ConfigStore.                                             *)
(***************************************************************************)
EXTENDS ConfigStore, TLAPS

(***************************************************************************)
(* Types.  The row that a save has written is one of the table's ids.      *)
(***************************************************************************)
TablesOK ==
  /\ rows \in [Kinds -> SUBSET Nat] /\ next \in [Kinds -> Nat]
  /\ \A k \in Kinds : rows[k] \subseteq Ids(k) /\ \A i \in rows[k] : i < next[k]
  /\ uses \subseteq Ids("applications") \X Ids("certificates")
  /\ bound \subseteq Bindings
  /\ chosen \in [Ids("policies") -> [apps : SUBSET Sites, rules : SUBSET Ids("rules")]]

RequestsOK == req \in [Requests -> Request]
CountersOK == /\ started \in 0..MaxRequests /\ faults \in 0..MaxFaults
              /\ backend \in Backends /\ raced \subseteq Ids("certificates")

SavingPolicy(p) == req[p].op = "savePolicy" /\ req[p].phase \in Writing

WrittenRows == \A p \in Requests : SavingPolicy(p) =>
                 req[p].id \in Ids("policies") /\ req[p].id < next["policies"]

TypeInv == TablesOK /\ RequestsOK /\ CountersOK /\ WrittenRows

LEMMA KindsAre ==
  /\ Kinds = {"applications", "certificates", "rules", "policies"}
  /\ \A k \in Kinds : Limit[k] \in Nat /\ Ids(k) \subseteq Nat \ {0}
  /\ Sites \subseteq Nat \ {0}
BY ConfigStoreAssumption DEF Kinds, Limit, Ids, Sites

LEMMA TypesAreTypeOK == TypeOK <=> TablesOK /\ RequestsOK /\ CountersOK
BY DEF TypeOK, TablesOK, RequestsOK, CountersOK

LEMMA IdleIsRequest == Idle \in Request
BY DEF Idle, Request

(***************************************************************************)
(* What changes the tables keeps their types.                              *)
(***************************************************************************)
LEMMA SavedId ==
  ASSUME TablesOK, NEW kind \in Kinds, NEW i, MaySave(kind, i)
  PROVE  Saved(kind, i) \in Ids(kind) /\ Saved(kind, i) \in Nat /\ Saved(kind, i) <= next[kind]
BY KindsAre DEF TablesOK, MaySave, Saved, Exists, New

LEMMA SaveType ==
  ASSUME TablesOK, NEW kind \in Kinds, NEW i \in Ids(kind), i <= next[kind], Save(kind, i)
  PROVE  /\ rows' \in [Kinds -> SUBSET Nat] /\ next' \in [Kinds -> Nat]
         /\ \A k \in Kinds : rows'[k] \subseteq Ids(k) /\ \A j \in rows'[k] : j < next'[k]
         /\ \A k \in Kinds : next[k] <= next'[k]
         /\ rows' = [rows EXCEPT ![kind] = @ \cup {i}]
<1>1. i \in Nat
  BY KindsAre
<1>2. rows' \in [Kinds -> SUBSET Nat] /\ next' \in [Kinds -> Nat]
  BY <1>1 DEF Save, TablesOK
<1>3. \A k \in Kinds : next[k] <= next'[k] /\ i < next'[kind]
  <2>1. next' = [next EXCEPT ![kind] = IF i = next[kind] THEN next[kind] + 1 ELSE next[kind]]
    BY DEF Save
  <2>2. next \in [Kinds -> Nat]
    BY DEF TablesOK
  <2>3. next[kind] \in Nat /\ next'[kind] = IF i = next[kind] THEN next[kind] + 1 ELSE next[kind]
    BY <2>1, <2>2
  <2>4. i < next'[kind] /\ next[kind] <= next'[kind]
    BY <1>1, <2>3
  <2>5. \A k \in Kinds : next[k] \in Nat /\ (k # kind => next'[k] = next[k])
    BY <2>1, <2>2
  <2> QED BY <2>4, <2>5
<1>4. ASSUME NEW k \in Kinds
      PROVE  rows'[k] \subseteq Ids(k) /\ \A j \in rows'[k] : j < next'[k]
  <2>1. rows'[k] \subseteq rows[k] \cup (IF k = kind THEN {i} ELSE {})
    BY DEF Save, TablesOK
  <2>2. \A j \in rows[k] : j \in Nat /\ j < next[k] /\ next[k] <= next'[k]
    BY <1>3 DEF TablesOK
  <2>3. next'[k] \in Nat /\ next[k] \in Nat
    BY <1>2 DEF TablesOK
  <2>4. \A j \in rows[k] : j \in Ids(k) /\ j < next'[k]
    BY <2>2, <2>3 DEF TablesOK
  <2>5. k = kind => i \in Ids(k) /\ i < next'[k]
    BY <1>3
  <2> QED BY <2>1, <2>4, <2>5
<1> QED BY <1>2, <1>3, <1>4 DEF Save

LEMMA RemoveType ==
  ASSUME TablesOK, NEW kind \in Kinds, NEW i, Remove(kind, i)
  PROVE  /\ rows' \in [Kinds -> SUBSET Nat] /\ next' \in [Kinds -> Nat]
         /\ \A k \in Kinds : rows'[k] \subseteq Ids(k) /\ \A j \in rows'[k] : j < next'[k]
         /\ \A k \in Kinds : rows'[k] \subseteq rows[k] /\ (k # kind => rows'[k] = rows[k])
         /\ next' = next
BY DEF TablesOK, Remove

LEMMA PutApplicationType ==
  ASSUME TablesOK, NEW i \in Ids("applications"), i <= next["applications"],
         NEW certs \in SUBSET Ids("certificates"), PutApplication(i, certs)
  PROVE  TablesOK' /\ \A k \in Kinds : next[k] <= next'[k]
<1>1. "applications" \in Kinds /\ Save("applications", i)
  BY KindsAre DEF PutApplication
<1>2. uses' \subseteq Ids("applications") \X Ids("certificates")
  BY DEF PutApplication, TablesOK
<1> QED BY <1>1, <1>2, SaveType DEF PutApplication, TablesOK

LEMMA PutPolicyType ==
  ASSUME TablesOK, NEW i \in Ids("policies"), i <= next["policies"],
         NEW apps \in SUBSET Sites, NEW rules \in SUBSET Ids("rules"), NEW old,
         PutPolicy(i, apps, rules, old)
  PROVE  TablesOK' /\ \A k \in Kinds : next[k] <= next'[k]
<1>1. "policies" \in Kinds /\ Save("policies", i)
  BY KindsAre DEF PutPolicy
<1>2. bound' \subseteq Bindings
  <2>1. Chosen(i, apps, rules) \subseteq Bindings
    BY DEF Chosen, Bindings
  <2> QED BY <2>1 DEF PutPolicy, TablesOK
<1>3. chosen' \in [Ids("policies") -> [apps : SUBSET Sites, rules : SUBSET Ids("rules")]]
  BY DEF PutPolicy, TablesOK
<1> QED BY <1>1, <1>2, <1>3, SaveType DEF PutPolicy, TablesOK

LEMMA DropType ==
  ASSUME TablesOK, NEW i,
         DropApplication(i) \/ DropCertificate(i) \/ DropPolicy(i) \/ DropRule(i)
  PROVE  TablesOK' /\ next' = next
<1>1. {"applications", "certificates", "rules", "policies"} \subseteq Kinds
  BY KindsAre
<1>2. /\ uses' \subseteq uses /\ bound' \subseteq bound /\ chosen' = chosen
  BY DEF DropApplication, DropCertificate, DropPolicy, DropRule
<1>3. \E kind \in Kinds : Remove(kind, i)
  BY <1>1 DEF DropApplication, DropCertificate, DropPolicy, DropRule
<1> QED BY <1>2, <1>3, RemoveType DEF TablesOK

(***************************************************************************)
(* Most steps of a request leave the tables alone and lock nothing.        *)
(***************************************************************************)
Becomes(p, r) == req' = [req EXCEPT ![p] = r]
Locking == Writing \cup {"cascade"}
Aside(p) == UNCHANGED tables /\ \E r \in Request : Becomes(p, r) /\ r.phase \notin Locking

LEMMA RequestStep ==
  ASSUME TypeInv, NEW p \in Requests, NEW r \in Request, Becomes(p, r), TablesOK',
         \A k \in Kinds : next[k] <= next'[k],
         r.op = "savePolicy" /\ r.phase \in Writing =>
           r.id \in Ids("policies") /\ r.id < next'["policies"]
  PROVE  RequestsOK' /\ WrittenRows'
<1>1. RequestsOK'
  BY DEF TypeInv, RequestsOK, Becomes
<1>2. ASSUME NEW q \in Requests, SavingPolicy(q)'
      PROVE  req'[q].id \in Ids("policies") /\ req'[q].id < next'["policies"]
  <2>1. CASE q = p
    BY <1>2, <2>1 DEF TypeInv, RequestsOK, Becomes, SavingPolicy
  <2>2. CASE q # p
    <3>1. req'[q] = req[q] /\ SavingPolicy(q)
      BY <1>2, <2>2 DEF TypeInv, RequestsOK, Becomes, SavingPolicy
    <3>2. req[q].id \in Ids("policies") /\ req[q].id < next["policies"]
      BY <3>1 DEF TypeInv, WrittenRows
    <3>3. /\ "policies" \in Kinds /\ next["policies"] \in Nat /\ next'["policies"] \in Nat
          /\ req[q].id \in Nat
      BY <3>2, KindsAre DEF TypeInv, TablesOK
    <3> QED BY <3>1, <3>2, <3>3
  <2> QED BY <2>1, <2>2
<1> QED BY <1>1, <1>2 DEF WrittenRows

LEMMA AsideKeepsTypes ==
  ASSUME TypeInv, NEW p \in Requests, Aside(p)
  PROVE  TablesOK' /\ RequestsOK' /\ WrittenRows'
<1>1. PICK r \in Request : Becomes(p, r) /\ r.phase \notin Locking
  BY DEF Aside
<1>2. TablesOK' /\ next' = next
  BY DEF Aside, tables, TypeInv, TablesOK
<1>3. \A k \in Kinds : next[k] <= next'[k]
  BY <1>2 DEF TypeInv, TablesOK
<1> QED BY <1>1, <1>2, <1>3, RequestStep DEF Locking

LEMMA BeginIsAside ==
  ASSUME NEW p \in Requests, NEW r \in Request, r.phase \notin Locking, Begin(p, r)
  PROVE  Aside(p)
BY DEF Begin, Aside, Becomes

LEMMA AcceptIsAside ==
  ASSUME TypeInv, NEW p \in Requests, Accept(p)
  PROVE  Aside(p)
<1>0. \A kind \in Kinds : \A i : MaySave(kind, i) => i \in Nat
  BY KindsAre DEF MaySave, Exists, New, TypeInv, TablesOK
<1>1. ASSUME NEW i \in Ids("applications") \cup {New}, NEW certs \in SUBSET Ids("certificates"),
             BeginSaveApplication(p, i, certs)
      PROVE  Aside(p)
  <2>1. i \in Nat /\ certs \in SUBSET Nat
    BY KindsAre DEF New
  <2> DEFINE r == [Idle EXCEPT !.op = "saveApplication", !.phase = "check", !.id = i,
                               !.certs = certs, !.todo = certs]
  <2>2. r \in Request /\ r.phase \notin Locking
    BY <2>1 DEF Idle, Request, Locking, Writing
  <2> QED BY <1>1, <2>2, BeginIsAside DEF BeginSaveApplication
<1>2. ASSUME NEW c \in Ids("certificates"), BeginDeleteCertificate(p, c)
      PROVE  Aside(p)
  <2> DEFINE r == [Idle EXCEPT !.op = "deleteCertificate", !.phase = "count", !.id = c]
  <2>1. r \in Request /\ r.phase \notin Locking
    BY KindsAre DEF Idle, Request, Locking, Writing
  <2> QED BY <1>2, <2>1, BeginIsAside DEF BeginDeleteCertificate
<1>3. ASSUME NEW i \in Ids("policies") \cup {New}, NEW apps \in Choices(Sites),
             NEW rules \in Choices(Ids("rules")), BeginSavePolicy(p, i, apps, rules)
      PROVE  Aside(p)
  <2>1. /\ i \in Nat /\ rules \in SUBSET Nat
        /\ apps \in SUBSET Sites /\ rules \in SUBSET Ids("rules")
    BY KindsAre DEF New, Choices
  <2> DEFINE r == [Idle EXCEPT !.op = "savePolicy", !.phase = "check", !.id = i,
                               !.apps = apps, !.rules = rules]
  <2>2. r \in Request /\ r.phase \notin Locking
    BY <2>1 DEF Idle, Request, Locking, Writing
  <2> QED BY <1>3, <2>2, BeginIsAside DEF BeginSavePolicy
<1>4. ASSUME NEW op \in {"deletePolicy", "deleteRule"}, NEW kind \in Kinds, NEW i \in Ids(kind),
             BeginDelete(p, op, kind, i)
      PROVE  Aside(p)
  <2> DEFINE r == [Idle EXCEPT !.op = op, !.phase = "row", !.id = i]
  <2>1. i \in Nat
    BY KindsAre
  <2>2. r \in Request /\ r.phase \notin Locking
    BY <2>1 DEF Idle, Request, Locking, Writing
  <2> QED BY <1>4, <2>2, BeginIsAside DEF BeginDelete
<1> QED BY <1>1, <1>2, <1>3, <1>4, KindsAre DEF Accept

LEMMA IdleIsAside ==
  ASSUME NEW p \in Requests, UNCHANGED tables, req' = [req EXCEPT ![p] = Idle]
  PROVE  Aside(p)
BY IdleIsRequest DEF Aside, Becomes, Idle, Locking, Writing

LEMMA QuietStepsAreAside ==
  ASSUME TypeInv, NEW p \in Requests,
         \/ \E c \in req[p].todo : CheckCertificate(p, c)
         \/ CountListeners(p) \/ CheckReferences(p) \/ AnswerConstraint(p)
         \/ AbortDeadlocked(p) \/ RequestFails(p)
  PROVE  Aside(p)
<1>0. req[p] \in Request
  BY DEF TypeInv, RequestsOK
<1>1. ASSUME NEW c \in req[p].todo, CheckCertificate(p, c), Exists("certificates", c)
      PROVE  Aside(p)
  <2> DEFINE r == [req[p] EXCEPT !.todo = @ \ {c}]
  <2>1. r \in Request /\ r.phase = "check"
    BY <1>0, <1>1 DEF Request, CheckCertificate, At
  <2>2. Becomes(p, r) /\ UNCHANGED tables
    BY <1>1 DEF CheckCertificate, Becomes, Quiet
  <2> QED BY <2>1, <2>2 DEF Aside, Locking, Writing
<1>2. ASSUME NEW c \in req[p].todo, CheckCertificate(p, c), ~Exists("certificates", c)
      PROVE  Aside(p)
  BY <1>2, IdleIsAside DEF CheckCertificate, Quiet
<1>3. CASE CountListeners(p) /\ InUse(req[p].id)
  BY <1>3, IdleIsAside DEF CountListeners, Quiet
<1>4. CASE CountListeners(p) /\ ~InUse(req[p].id)
  <2>1. Becomes(p, [req[p] EXCEPT !.phase = "delete"]) /\ UNCHANGED tables
    BY <1>4 DEF CountListeners, Quiet, Becomes
  <2>2. [req[p] EXCEPT !.phase = "delete"] \in Request
    BY <1>0 DEF Request
  <2>3. [req[p] EXCEPT !.phase = "delete"].phase = "delete"
    BY <1>0 DEF Request
  <2> QED BY <2>1, <2>2, <2>3 DEF Aside, Locking, Writing
<1>5. CASE CheckReferences(p) /\ Known(req[p].apps, req[p].rules)
  <2>1. Becomes(p, [req[p] EXCEPT !.phase = "row"]) /\ UNCHANGED tables
    BY <1>5 DEF CheckReferences, Quiet, Becomes
  <2>2. [req[p] EXCEPT !.phase = "row"] \in Request
    BY <1>0 DEF Request
  <2>3. [req[p] EXCEPT !.phase = "row"].phase = "row"
    BY <1>0 DEF Request
  <2> QED BY <2>1, <2>2, <2>3 DEF Aside, Locking, Writing
<1>6. CASE CheckReferences(p) /\ ~Known(req[p].apps, req[p].rules)
  BY <1>6, IdleIsAside DEF CheckReferences, Quiet
<1>7. CASE AnswerConstraint(p)
  BY <1>7, IdleIsAside DEF AnswerConstraint, Quiet
<1>8. CASE AbortDeadlocked(p)
  BY <1>8, IdleIsAside DEF AbortDeadlocked, Quiet
<1>9. CASE RequestFails(p)
  BY <1>9, IdleIsAside DEF RequestFails, tables
<1> QED BY <1>1, <1>2, <1>3, <1>4, <1>5, <1>6, <1>7, <1>8, <1>9

(***************************************************************************)
(* The step of each action that writes tables or takes locks, in terms of  *)
(* the record that its request becomes.                                    *)
(***************************************************************************)
LEMMA LockingSteps ==
  ASSUME TypeInv, NEW p \in Requests
  PROVE  /\ Unbind(p) => \E r \in Request :
              /\ Becomes(p, r) /\ UNCHANGED tables /\ SavingPolicy(p)
              /\ r.op = "savePolicy" /\ r.phase = "bindSites" /\ r.id = req[p].id
         /\ BindSites(p) => \E r \in Request :
              /\ Becomes(p, r) /\ UNCHANGED tables /\ SavingPolicy(p)
              /\ r.op = "savePolicy" /\ r.phase \in {"bindRules", "constraint"} /\ r.id = req[p].id
         /\ \A k \in req[p].todo : BindRule(p, k) => \E r \in Request :
              /\ Becomes(p, r) /\ UNCHANGED tables /\ SavingPolicy(p)
              /\ r.op = "savePolicy" /\ r.phase \in {"bindRules", "constraint"} /\ r.id = req[p].id
         /\ \A op, kind : LockRow(p, op, kind) => \E r \in Request :
              /\ Becomes(p, r) /\ UNCHANGED tables
              /\ r = Idle \/ (r.op = op /\ r.phase = "cascade" /\ r.id = req[p].id)
<1>0. req[p] \in Request
  BY DEF TypeInv, RequestsOK
<1>1. ASSUME Unbind(p)
      PROVE  \E r \in Request :
              /\ Becomes(p, r) /\ UNCHANGED tables /\ SavingPolicy(p)
              /\ r.op = "savePolicy" /\ r.phase = "bindSites" /\ r.id = req[p].id
  <2> DEFINE r == [req[p] EXCEPT !.phase = "bindSites", !.old = BindingsOf(req[p].id)]
  <2>1. BindingsOf(req[p].id) \subseteq Bindings
    BY DEF BindingsOf, TypeInv, TablesOK
  <2>2. /\ r \in Request /\ r.op = req[p].op /\ r.phase = "bindSites" /\ r.id = req[p].id
    BY <1>0, <2>1 DEF Request, Writing
  <2>3. Becomes(p, r)
    BY <1>1 DEF Unbind, Becomes
  <2> QED BY <1>1, <2>2, <2>3 DEF Unbind, At, Quiet, SavingPolicy, Writing
<1>2. ASSUME BindSites(p)
      PROVE  \E r \in Request :
              /\ Becomes(p, r) /\ UNCHANGED tables /\ SavingPolicy(p)
              /\ r.op = "savePolicy" /\ r.phase \in {"bindRules", "constraint"} /\ r.id = req[p].id
  <2> DEFINE r == IF req[p].apps \subseteq OldSites
                  THEN [req[p] EXCEPT !.phase = "bindRules", !.todo = req[p].rules]
                  ELSE [req[p] EXCEPT !.phase = "constraint"]
  <2>1. req[p].rules \in SUBSET Nat
    BY <1>0, KindsAre DEF Request
  <2>2. r \in Request /\ r.op = req[p].op /\ r.phase \in {"bindRules", "constraint"} /\ r.id = req[p].id
    BY <1>0, <2>1 DEF Request, Writing
  <2>3. Becomes(p, r)
    BY <1>2 DEF BindSites, Becomes
  <2> QED BY <1>2, <2>1, <2>2, <2>3 DEF BindSites, At, Quiet, SavingPolicy, Writing
<1>3. ASSUME NEW k \in req[p].todo, BindRule(p, k)
      PROVE  \E r \in Request :
              /\ Becomes(p, r) /\ UNCHANGED tables /\ SavingPolicy(p)
              /\ r.op = "savePolicy" /\ r.phase \in {"bindRules", "constraint"} /\ r.id = req[p].id
  <2> DEFINE r == IF Exists("rules", k) THEN [req[p] EXCEPT !.todo = @ \ {k}]
                  ELSE [req[p] EXCEPT !.phase = "constraint"]
  <2>1. req[p].op = "savePolicy" /\ req[p].phase = "bindRules"
    BY <1>3 DEF BindRule, At
  <2>2. r \in Request /\ r.op = req[p].op /\ r.phase \in {"bindRules", "constraint"} /\ r.id = req[p].id
    BY <1>0, <2>1 DEF Request, Writing
  <2>3. Becomes(p, r)
    BY <1>3 DEF BindRule, Becomes
  <2> QED BY <1>3, <2>1, <2>2, <2>3 DEF BindRule, Quiet, SavingPolicy, Writing
<1>4. ASSUME NEW op, NEW kind, LockRow(p, op, kind)
      PROVE  \E r \in Request :
              /\ Becomes(p, r) /\ UNCHANGED tables
              /\ r = Idle \/ (r.op = op /\ r.phase = "cascade" /\ r.id = req[p].id)
  <2> DEFINE r == IF Exists(kind, req[p].id) THEN [req[p] EXCEPT !.phase = "cascade"] ELSE Idle
  <2>1. r \in Request /\ (r = Idle \/ (r.op = req[p].op /\ r.phase = "cascade" /\ r.id = req[p].id))
    BY <1>0, IdleIsRequest DEF Request
  <2> QED BY <1>4, <2>1 DEF LockRow, At, Becomes, Quiet
<1> QED BY <1>1, <1>2, <1>3, <1>4

LEMMA QuietTables ==
  ASSUME TypeInv, UNCHANGED tables
  PROVE  TablesOK' /\ next' = next /\ \A k \in Kinds : next[k] <= next'[k]
BY DEF tables, TypeInv, TablesOK

LEMMA InMemoryTables ==
  ASSUME TypeInv, InMemory
  PROVE  TablesOK' /\ \A k \in Kinds : next[k] <= next'[k]
<1>0. TablesOK /\ {"applications", "certificates", "rules", "policies"} \subseteq Kinds
      /\ next \in [Kinds -> Nat]
  BY KindsAre DEF TypeInv, TablesOK
<1>1. ASSUME NEW i \in Ids("applications") \cup {New}, NEW certs \in SUBSET rows["certificates"],
             MaySave("applications", i), PutApplication(Saved("applications", i), certs)
      PROVE  TablesOK' /\ \A k \in Kinds : next[k] <= next'[k]
  <2>1. certs \in SUBSET Ids("certificates")
    BY <1>0 DEF TablesOK
  <2> QED BY <1>0, <1>1, <2>1, SavedId, PutApplicationType
<1>2. ASSUME NEW i, DropApplication(i) \/ DropCertificate(i) \/ DropPolicy(i) \/ DropRule(i)
      PROVE  TablesOK' /\ \A k \in Kinds : next[k] <= next'[k]
  BY <1>0, <1>2, DropType
<1>3. ASSUME NEW i \in Ids("policies") \cup {New}, NEW apps \in Choices(Sites),
             NEW rules \in Choices(rows["rules"]), MaySave("policies", i),
             PutPolicy(Saved("policies", i), apps, rules, BindingsOf(i))
      PROVE  TablesOK' /\ \A k \in Kinds : next[k] <= next'[k]
  <2>1. apps \in SUBSET Sites /\ rules \in SUBSET Ids("rules")
    BY <1>0 DEF TablesOK, Choices
  <2> QED BY <1>0, <1>3, <2>1, SavedId, PutPolicyType
<1> QED BY <1>1, <1>2, <1>3 DEF InMemory

LEMMA SamePolicyRequests ==
  ASSUME TypeInv, TablesOK', req' = req, \A k \in Kinds : next[k] <= next'[k]
  PROVE  RequestsOK' /\ WrittenRows'
<1>1. \A p \in Requests : SavingPolicy(p)' <=> SavingPolicy(p)
  BY DEF SavingPolicy
<1>2. "policies" \in Kinds /\ next["policies"] \in Nat /\ next'["policies"] \in Nat
  BY KindsAre DEF TypeInv, TablesOK
<1>3. Ids("policies") \subseteq Nat
  BY KindsAre
<1> QED BY <1>1, <1>2, <1>3 DEF TypeInv, RequestsOK, WrittenRows

LEMMA TypeInvInit == Init => TypeInv
<1> SUFFICES ASSUME Init PROVE TypeInv
  OBVIOUS
<1>1. TablesOK
  BY KindsAre DEF Init, TablesOK
<1>2. RequestsOK /\ CountersOK
  BY IdleIsRequest, ConfigStoreAssumption DEF Init, RequestsOK, CountersOK
<1>3. WrittenRows
  BY DEF Init, WrittenRows, SavingPolicy, Idle
<1> QED BY <1>1, <1>2, <1>3 DEF TypeInv

\* A request that is served leaves the choice of the store and the overlaps alone.
LEMMA ServingIsAside ==
  ASSUME NEW p \in Requests, Serve(p) \/ AbortDeadlocked(p) \/ RequestFails(p)
  PROVE  backend' = backend /\ raced' = raced
BY DEF Serve, SaveApplication, CheckCertificate, WriteApplication, RemoveCertificate,
   CountListeners, DeleteCertificate, SavePolicy, CheckReferences, WritePolicyRow, Unbind,
   BindSites, BindRule, CommitPolicy, AnswerConstraint, RemovePolicy, LockPolicy, LockRow,
   DeletePolicy, RemoveRule, LockRule, DeleteRule, AbortDeadlocked, RequestFails, Quiet, aside

LEMMA AcceptedOnTheDatabase ==
  ASSUME NEW p \in Requests, Accept(p)
  PROVE  /\ backend = "postgres" /\ backend' = backend
         /\ raced' \subseteq raced \cup Ids("certificates")
BY DEF Accept, BeginSaveApplication, BeginDeleteCertificate, BeginSavePolicy, BeginDelete, Begin

LEMMA OtherStepsAreAside ==
  ASSUME \/ InMemory \/ Restart \/ UNCHANGED vars
         \/ \E kind \in Kinds : Create(kind)
         \/ \E i \in Ids("applications") : DeleteApplication(i)
  PROVE  backend' = backend /\ raced' = raced
BY DEF InMemory, Restart, Create, DeleteApplication, aside, vars

LEMMA StoreStays == [Next]_vars => backend' = backend
BY ServingIsAside, AcceptedOnTheDatabase, OtherStepsAreAside DEF Next

LEMMA RacesAreOfCertificates ==
  [Next]_vars => raced' = raced \/ raced' \subseteq raced \cup Ids("certificates")
BY ServingIsAside, AcceptedOnTheDatabase, OtherStepsAreAside DEF Next

LEMMA CountersStep == TypeInv /\ [Next]_vars => CountersOK'
<1> SUFFICES ASSUME TypeInv, [Next]_vars PROVE CountersOK'
  OBVIOUS
<1>0. backend' = backend /\ (raced' = raced \/ raced' \subseteq raced \cup Ids("certificates"))
  BY StoreStays, RacesAreOfCertificates
<1>1. CountersOK /\ MaxRequests \in Nat /\ MaxFaults \in Nat
  BY ConfigStoreAssumption DEF TypeInv
<1>2. /\ started' = started \/ (started < MaxRequests /\ started' = started + 1)
      /\ faults' = faults \/ (faults > 0 /\ faults' = faults - 1)
  <2>1. ASSUME NEW p \in Requests, Serve(p) \/ AbortDeadlocked(p)
        PROVE  started' = started /\ faults' = faults
    BY <2>1 DEF Serve, SaveApplication, CheckCertificate, WriteApplication, RemoveCertificate,
       CountListeners, DeleteCertificate, SavePolicy, CheckReferences, WritePolicyRow, Unbind,
       BindSites, BindRule, CommitPolicy, AnswerConstraint, RemovePolicy, LockPolicy, LockRow,
       DeletePolicy, RemoveRule, LockRule, DeleteRule, AbortDeadlocked, Quiet
  <2>2. ASSUME NEW p \in Requests, Accept(p)
        PROVE  faults' = faults /\ Start
    BY <2>2 DEF Accept, BeginSaveApplication, BeginDeleteCertificate, BeginSavePolicy,
       BeginDelete, Begin
  <2>3. ASSUME NEW p \in Requests, RequestFails(p)
        PROVE  started' = started /\ Fault
    BY <2>3 DEF RequestFails
  <2>4. CASE Restart
    BY <2>4 DEF Restart, Fault
  <2>5. CASE InMemory \/ (\E kind \in Kinds : Create(kind))
             \/ (\E i \in Ids("applications") : DeleteApplication(i))
    BY <2>5 DEF InMemory, Create, DeleteApplication, Start
  <2>6. CASE UNCHANGED vars
    BY <2>6 DEF vars
  <2> QED BY <2>1, <2>2, <2>3, <2>4, <2>5, <2>6 DEF Next, Start, Fault
<1> QED BY <1>0, <1>1, <1>2 DEF CountersOK

LEMMA SaveStepsTypes ==
  ASSUME TypeInv, NEW p \in Requests, SavePolicy(p)
  PROVE  TablesOK' /\ RequestsOK' /\ WrittenRows'
<1>0. /\ req[p] \in Request /\ TablesOK /\ Idle \in Request
      /\ "policies" \in Kinds /\ next \in [Kinds -> Nat]
  BY IdleIsRequest, KindsAre DEF TypeInv, RequestsOK, TablesOK
<1>1. CASE CheckReferences(p) \/ AnswerConstraint(p)
  BY <1>1, QuietStepsAreAside, AsideKeepsTypes
<1>2. CASE WritePolicyRow(p)
  <2> DEFINE i == Saved("policies", req[p].id)
             r == IF MaySave("policies", req[p].id)
                  THEN [req[p] EXCEPT !.phase = "unbind", !.id = i] ELSE Idle
  <2>1. TablesOK' /\ (\A k \in Kinds : next[k] <= next'[k]) /\ next' \in [Kinds -> Nat]
    BY <1>0, <1>2 DEF WritePolicyRow, TablesOK
  <2>2. /\ r \in Request
        /\ r.op = "savePolicy" /\ r.phase \in Writing => MaySave("policies", req[p].id) /\ r.id = i
    BY <1>0, <1>2, SavedId, IdleIsRequest DEF WritePolicyRow, At, Request, Writing, Idle
  <2>3. Becomes(p, r)
    BY <1>2 DEF WritePolicyRow, Becomes
  <2>4. MaySave("policies", req[p].id) => i \in Ids("policies") /\ i < next'["policies"]
    <3> SUFFICES ASSUME MaySave("policies", req[p].id)
                 PROVE  i \in Ids("policies") /\ i < next'["policies"]
      OBVIOUS
    <3>1. i \in Ids("policies") /\ i \in Nat /\ next["policies"] \in Nat
      BY <1>0, SavedId
    <3>2. CASE req[p].id = New
      <4>1. i = next["policies"]
        BY <3>2 DEF Saved
      <4>2. next'["policies"] = next["policies"] + 1
        BY <1>0, <1>2, <3>1, <3>2, <4>1 DEF WritePolicyRow
      <4> QED BY <3>1, <4>1, <4>2
    <3>3. CASE req[p].id # New
      <4>1. i = req[p].id /\ i \in rows["policies"]
        BY <3>3 DEF Saved, MaySave, Exists
      <4>2. next' = next
        BY <1>0, <1>2, <3>3 DEF WritePolicyRow
      <4> QED BY <1>0, <3>1, <4>1, <4>2 DEF TablesOK
    <3> QED BY <3>2, <3>3
  <2> QED BY <2>1, <2>2, <2>3, <2>4, RequestStep
<1>3. CASE Unbind(p) \/ BindSites(p) \/ \E k \in req[p].todo : BindRule(p, k)
  <2>1. PICK r \in Request : /\ Becomes(p, r) /\ UNCHANGED tables /\ SavingPolicy(p)
                             /\ r.id = req[p].id
    BY <1>3, LockingSteps
  <2>2. r.id \in Ids("policies") /\ r.id < next["policies"]
    BY <2>1 DEF TypeInv, WrittenRows
  <2> QED BY <2>1, <2>2, QuietTables, RequestStep
<1>4. CASE CommitPolicy(p)
  <2>1. SavingPolicy(p)
    BY <1>4 DEF CommitPolicy, At, SavingPolicy, Writing
  <2>2. req[p].id \in Ids("policies") /\ req[p].id <= next["policies"]
    <3>1. req[p].id \in Ids("policies") /\ req[p].id < next["policies"]
      BY <2>1 DEF TypeInv, WrittenRows
    <3>2. req[p].id \in Nat /\ next["policies"] \in Nat
      BY <1>0, <3>1, KindsAre
    <3> QED BY <3>1, <3>2
  <2>3. req[p].apps \in SUBSET Sites /\ req[p].rules \in SUBSET Ids("rules")
    BY <1>0 DEF Request
  <2>4. PutPolicy(req[p].id, req[p].apps, req[p].rules, req[p].old) /\ Becomes(p, Idle)
    BY <1>4 DEF CommitPolicy, Becomes
  <2>5. TablesOK' /\ \A k \in Kinds : next[k] <= next'[k]
    BY <1>0, <2>2, <2>3, <2>4, PutPolicyType
  <2>6. Idle.phase \notin Writing
    BY DEF Idle, Writing
  <2> QED BY <2>4, <2>5, <2>6, IdleIsRequest, RequestStep
<1> QED BY <1>1, <1>2, <1>3, <1>4 DEF SavePolicy

LEMMA TypeInvStep == TypeInv /\ [Next]_vars => TypeInv'
<1> SUFFICES ASSUME TypeInv, [Next]_vars PROVE TypeInv'
  OBVIOUS
<1> DEFINE Rest == TablesOK' /\ RequestsOK' /\ WrittenRows'
<1>0. /\ TablesOK /\ next \in [Kinds -> Nat] /\ Idle \in Request /\ Idle.phase \notin Locking
      /\ {"applications", "certificates", "rules", "policies"} \subseteq Kinds
      /\ \A k \in Kinds : next[k] <= next[k]
  BY IdleIsRequest, KindsAre DEF TypeInv, TablesOK, Idle, Locking, Writing
<1>1. ASSUME NEW p \in Requests, Accept(p) \/ AbortDeadlocked(p) \/ RequestFails(p)
      PROVE  Rest
  BY <1>1, AcceptIsAside, QuietStepsAreAside, AsideKeepsTypes
<1>2. ASSUME NEW p \in Requests, SavePolicy(p)
      PROVE  Rest
  BY <1>2, SaveStepsTypes
<1>3. ASSUME NEW p \in Requests, SaveApplication(p)
      PROVE  Rest
  <2>1. CASE \E c \in req[p].todo : CheckCertificate(p, c)
    BY <2>1, QuietStepsAreAside, AsideKeepsTypes
  <2>2. CASE WriteApplication(p) /\ MaySave("applications", req[p].id)
    <3>1. PutApplication(Saved("applications", req[p].id), req[p].certs) /\ Becomes(p, Idle)
      BY <2>2 DEF WriteApplication, Becomes
    <3>2. req[p].certs \in SUBSET Ids("certificates")
      BY DEF TypeInv, RequestsOK, Request
    <3>3. TablesOK' /\ \A k \in Kinds : next[k] <= next'[k]
      BY <1>0, <2>2, <3>1, <3>2, SavedId, PutApplicationType
    <3> QED BY <1>0, <3>1, <3>3, RequestStep DEF Locking
  <2>3. CASE WriteApplication(p) /\ ~MaySave("applications", req[p].id)
    BY <2>3, IdleIsAside, AsideKeepsTypes DEF WriteApplication
  <2> QED BY <1>3, <2>1, <2>2, <2>3 DEF SaveApplication
<1>4. ASSUME NEW p \in Requests, NEW i, Becomes(p, Idle),
             DropApplication(i) \/ DropCertificate(i) \/ DropPolicy(i) \/ DropRule(i)
      PROVE  Rest
  <2>1. TablesOK' /\ next' = next
    BY <1>0, <1>4, DropType
  <2> QED BY <1>0, <1>4, <2>1, RequestStep DEF Locking
<1>5. ASSUME NEW p \in Requests, NEW op \in {"deletePolicy", "deleteRule"}, NEW kind,
             LockRow(p, op, kind)
      PROVE  Rest
  <2>1. PICK r \in Request : /\ Becomes(p, r) /\ UNCHANGED tables
                             /\ r = Idle \/ (r.op = op /\ r.phase = "cascade")
    BY <1>5, LockingSteps
  <2>2. ~(r.op = "savePolicy" /\ r.phase \in Writing)
    BY <1>0, <2>1 DEF Locking
  <2> QED BY <2>1, <2>2, QuietTables, RequestStep
<1>6. ASSUME NEW p \in Requests, Serve(p)
      PROVE  Rest
  <2>1. CASE RemoveCertificate(p)
    <3>1. CASE CountListeners(p)
      BY <3>1, QuietStepsAreAside, AsideKeepsTypes
    <3>2. CASE DeleteCertificate(p)
      BY <3>2, <1>4 DEF DeleteCertificate, Becomes
    <3> QED BY <2>1, <3>1, <3>2 DEF RemoveCertificate
  <2>2. CASE RemovePolicy(p)
    BY <2>2, <1>4, <1>5 DEF RemovePolicy, LockPolicy, DeletePolicy, Becomes
  <2>3. CASE RemoveRule(p)
    BY <2>3, <1>4, <1>5 DEF RemoveRule, LockRule, DeleteRule, Becomes
  <2> QED BY <1>6, <1>2, <1>3, <2>1, <2>2, <2>3 DEF Serve
<1>7. ASSUME NEW kind \in Kinds, Create(kind)
      PROVE  Rest
  <2>1. Save(kind, next[kind]) /\ UNCHANGED <<uses, bound, chosen, req>> /\ next[kind] \in Ids(kind)
    BY <1>7 DEF Create
  <2>2. TablesOK' /\ \A k \in Kinds : next[k] <= next'[k]
    BY <1>0, <2>1, SaveType DEF TablesOK
  <2> QED BY <2>1, <2>2, SamePolicyRequests
<1>8. ASSUME NEW i \in Ids("applications"), DeleteApplication(i)
      PROVE  Rest
  <2>1. DropApplication(i) /\ req' = req
    BY <1>8 DEF DeleteApplication
  <2>2. TablesOK' /\ next' = next
    BY <1>0, <2>1, DropType
  <2> QED BY <1>0, <2>1, <2>2, SamePolicyRequests
<1>9. ASSUME InMemory PROVE Rest
  BY <1>9, InMemoryTables, SamePolicyRequests DEF InMemory
<1>10. ASSUME Restart PROVE Rest
  <2>1. req' = [p \in Requests |-> Idle]
    BY <1>10 DEF Restart
  <2>2. RequestsOK' /\ WrittenRows'
    BY <1>0, <2>1 DEF RequestsOK, WrittenRows, SavingPolicy, Locking
  <2>3. CASE backend = "memory"
    <3>1. TablesOK'
      BY <1>10, <2>3, KindsAre DEF Restart, TablesOK
    <3> QED BY <2>2, <3>1
  <2>4. CASE backend # "memory"
    BY <1>10, <2>2, <2>4, QuietTables DEF Restart
  <2> QED BY <2>3, <2>4
<1>11. ASSUME UNCHANGED vars PROVE Rest
  BY <1>0, <1>11, QuietTables, SamePolicyRequests DEF vars
<1> QED BY <1>1, <1>6, <1>7, <1>8, <1>9, <1>10, <1>11, CountersStep DEF Next, TypeInv

\* Every variable of the store and of its requests keeps its type, and ids are not reused.
THEOREM TypeCorrect == Spec => []TypeOK
<1>1. TypeInv => TypeOK
  BY TypesAreTypeOK DEF TypeInv
<1> QED BY <1>1, TypeInvInit, TypeInvStep, PTL DEF Spec

(***************************************************************************)
(* The database.  The bindings stay in order because of the locks: one     *)
(* request holds a policy's row, an inserted binding keeps its rule from   *)
(* being deleted, and the bindings that a save replaces are all that its   *)
(* policy has until it commits.                                            *)
(***************************************************************************)
Exclusive == \A p, q \in Requests : \A i \in Nat : LocksPolicy(p, i) /\ LocksPolicy(q, i) => p = q

LockedRows == \A p \in Requests : \A i \in Nat : LocksPolicy(p, i) => i < next["policies"]

RulesHeld == \A p \in Requests : \A r \in Ids("rules") : SharesRule(p, r) =>
               Exists("rules", r) /\ \A q \in Requests : ~LocksRule(q, r)

SitesChecked == \A p \in Requests :
                  At(p, "savePolicy", "bindRules") => req[p].apps \subseteq OldSites

Rebinds(p) == req[p].op = "savePolicy" /\ req[p].phase \in Rebinding
OldBindings == \A p \in Requests : Rebinds(p) => req[p].old = BindingsOf(req[p].id)

KnownRules == \A i \in Ids("policies") : \A r \in chosen[i].rules : r < next["rules"]

Locks == Exclusive /\ LockedRows /\ RulesHeld /\ SitesChecked /\ OldBindings
DbInv == EndsExist /\ BoundAsSaved /\ KnownRules /\ Locks

\* The tables that policies and their bindings are in.
policyTables == <<rows["policies"], rows["rules"], next["policies"], next["rules"], bound, chosen>>

LEMMA TablesFacts ==
  ASSUME TypeInv
  PROVE  /\ rows \in [Kinds -> SUBSET Nat] /\ next \in [Kinds -> Nat]
         /\ {"applications", "certificates", "rules", "policies"} \subseteq Kinds
         /\ bound \subseteq Bindings
         /\ \A k \in Kinds : Ids(k) \subseteq Nat /\ rows[k] \subseteq Ids(k)
         /\ \A p \in Requests : req[p] \in Request /\ req[p].id \in Nat
         /\ chosen \in [Ids("policies") -> [apps : SUBSET Sites, rules : SUBSET Ids("rules")]]
BY KindsAre DEF TypeInv, TablesOK, RequestsOK, Request

(***************************************************************************)
(* Steps elsewhere: requests only let go of locks.                         *)
(***************************************************************************)
LetsGo(q) == req'[q] = req[q] \/ req'[q].phase \notin Locking

LEMMA ElsewhereKeepsDbInv ==
  ASSUME TypeInv, DbInv, policyTables' = policyTables, \A q \in Requests : LetsGo(q)
  PROVE  DbInv'
<1>1. /\ rows'["policies"] = rows["policies"] /\ rows'["rules"] = rows["rules"]
      /\ next'["policies"] = next["policies"] /\ next'["rules"] = next["rules"]
      /\ bound' = bound /\ chosen' = chosen
  BY DEF policyTables
<1>2. EndsExist' /\ BoundAsSaved' /\ KnownRules'
  BY <1>1 DEF DbInv, EndsExist, BoundAsSaved, KnownRules, SitesOf, RulesOf, Exists
<1>3. ASSUME NEW q \in Requests
      PROVE  /\ \A i \in Nat : LocksPolicy(q, i)' => LocksPolicy(q, i)
             /\ \A r \in Ids("rules") : SharesRule(q, r)' => SharesRule(q, r)
             /\ \A r \in Ids("rules") : LocksRule(q, r)' => LocksRule(q, r)
             /\ At(q, "savePolicy", "bindRules")' =>
                  At(q, "savePolicy", "bindRules") /\ req'[q] = req[q]
             /\ Rebinds(q)' => Rebinds(q) /\ req'[q] = req[q]
  BY DEF LetsGo, LocksPolicy, SharesRule, LocksRule, At, Rebinds, Locking, Writing, Rebinding
<1>4. Exclusive' /\ LockedRows'
  BY <1>1, <1>3 DEF DbInv, Locks, Exclusive, LockedRows
<1>5. RulesHeld'
  BY <1>1, <1>3 DEF DbInv, Locks, RulesHeld, Exists
<1>6. SitesChecked'
  BY <1>3 DEF DbInv, Locks, SitesChecked
<1>7. OldBindings'
  BY <1>1, <1>3 DEF DbInv, Locks, OldBindings, BindingsOf
<1> QED BY <1>2, <1>4, <1>5, <1>6, <1>7 DEF DbInv, Locks

LEMMA AsideKeepsDbInv ==
  ASSUME TypeInv, DbInv, NEW p \in Requests, Aside(p)
  PROVE  DbInv'
<1>1. policyTables' = policyTables
  BY DEF Aside, tables, policyTables
<1>2. \A q \in Requests : LetsGo(q)
  BY DEF Aside, Becomes, LetsGo, TypeInv, RequestsOK
<1> QED BY <1>1, <1>2, ElsewhereKeepsDbInv

(***************************************************************************)
(* A request that takes a lock, and the tables stay as they are.           *)
(***************************************************************************)
LEMMA SameTablesKeepBindings ==
  ASSUME DbInv, UNCHANGED <<rows, bound, chosen>>, next'["rules"] = next["rules"]
  PROVE  EndsExist' /\ BoundAsSaved' /\ KnownRules'
BY DEF DbInv, EndsExist, BoundAsSaved, KnownRules, SitesOf, RulesOf, Exists

LEMMA LockStep ==
  ASSUME TypeInv, DbInv, NEW p \in Requests, NEW r \in Request, Becomes(p, r),
         UNCHANGED <<rows, bound, chosen>>, next'["rules"] = next["rules"],
         next'["policies"] \in Nat, next["policies"] <= next'["policies"],
         \A i \in Nat : LocksPolicy(p, i)' =>
           i < next'["policies"] /\ \A q \in Others(p) : ~LocksPolicy(q, i),
         \A k \in Ids("rules") : SharesRule(p, k)' =>
           Exists("rules", k) /\ \A q \in Others(p) : ~LocksRule(q, k),
         \A k \in Ids("rules") : LocksRule(p, k)' => \A q \in Others(p) : ~SharesRule(q, k),
         At(p, "savePolicy", "bindRules")' => r.apps \subseteq OldSites,
         Rebinds(p)' => r.old = BindingsOf(r.id)
  PROVE  DbInv'
<1>1. req'[p] = r /\ \A q \in Others(p) : q \in Requests /\ q # p /\ req'[q] = req[q]
  BY DEF Becomes, Others, TypeInv, RequestsOK
<1>2. \A q \in Others(p) :
        /\ \A i \in Nat : LocksPolicy(q, i)' <=> LocksPolicy(q, i)
        /\ \A k \in Ids("rules") : SharesRule(q, k)' <=> SharesRule(q, k)
        /\ \A k \in Ids("rules") : LocksRule(q, k)' <=> LocksRule(q, k)
        /\ At(q, "savePolicy", "bindRules")' <=> At(q, "savePolicy", "bindRules")
        /\ Rebinds(q)' <=> Rebinds(q)
  BY <1>1 DEF LocksPolicy, SharesRule, LocksRule, At, Rebinds
<1>3. \A q \in Requests : q = p \/ q \in Others(p)
  BY DEF Others
<1>4. Exclusive'
  BY <1>2, <1>3 DEF DbInv, Locks, Exclusive, Others
<1>5. LockedRows'
  <2>1. next["policies"] \in Nat
    BY TablesFacts
  <2> QED BY <1>2, <1>3, <2>1 DEF DbInv, Locks, LockedRows, Others
<1>6. RulesHeld'
  <2>1. \A k \in Ids("rules") : ~(SharesRule(p, k)' /\ LocksRule(p, k)')
    BY DEF SharesRule, LocksRule, At
  <2>2. \A k \in Ids("rules") : Exists("rules", k)' <=> Exists("rules", k)
    BY DEF Exists
  <2>3. ASSUME NEW k \in Ids("rules"), SharesRule(p, k)'
        PROVE  Exists("rules", k)' /\ \A q \in Requests : ~LocksRule(q, k)'
    BY <1>2, <1>3, <2>1, <2>2, <2>3
  <2>4. ASSUME NEW u \in Others(p), NEW k \in Ids("rules"), SharesRule(u, k)'
        PROVE  Exists("rules", k)' /\ \A q \in Requests : ~LocksRule(q, k)'
    <3>1. SharesRule(u, k) /\ u \in Requests
      BY <1>1, <1>2, <2>4
    <3>2. Exists("rules", k) /\ \A q \in Requests : ~LocksRule(q, k)
      BY <3>1 DEF DbInv, Locks, RulesHeld
    <3> QED BY <1>2, <1>3, <2>2, <3>1, <3>2
  <2> QED BY <1>3, <2>3, <2>4 DEF RulesHeld
<1>7. SitesChecked'
  BY <1>1, <1>2, <1>3 DEF DbInv, Locks, SitesChecked, Others
<1>8. OldBindings'
  <2>1. \A i \in Nat : BindingsOf(i)' = BindingsOf(i)
    BY DEF BindingsOf
  <2>2. r.id \in Nat /\ \A q \in Requests : req[q].id \in Nat
    BY TablesFacts DEF Request
  <2> QED BY <1>1, <1>2, <1>3, <2>1, <2>2 DEF DbInv, Locks, OldBindings, Others, BindingsOf
<1> QED BY <1>4, <1>5, <1>6, <1>7, <1>8, SameTablesKeepBindings DEF Locks, DbInv

LEMMA LocksOfTheRequest ==
  ASSUME NEW p \in Requests, NEW r, Becomes(p, r), TypeInv
  PROVE  /\ req'[p] = r
         /\ \A i : LocksPolicy(p, i)' <=>
              r.id = i /\ ((r.op = "savePolicy" /\ r.phase \in Writing)
                          \/ (r.op = "deletePolicy" /\ r.phase = "cascade"))
         /\ \A k : SharesRule(p, k)' <=> /\ r.op = "savePolicy" /\ r.phase = "bindRules"
                                         /\ k \in r.rules \ r.todo
         /\ \A k : LocksRule(p, k)' <=> r.op = "deleteRule" /\ r.phase = "cascade" /\ r.id = k
         /\ At(p, "savePolicy", "bindRules")' <=> r.op = "savePolicy" /\ r.phase = "bindRules"
         /\ Rebinds(p)' <=> r.op = "savePolicy" /\ r.phase \in Rebinding
<1>1. req'[p] = r
  BY DEF Becomes, TypeInv, RequestsOK
<1>2. \A i : LocksPolicy(p, i)' <=>
              r.id = i /\ ((r.op = "savePolicy" /\ r.phase \in Writing)
                          \/ (r.op = "deletePolicy" /\ r.phase = "cascade"))
  BY <1>1 DEF LocksPolicy
<1>3. At(p, "savePolicy", "bindRules")' <=> r.op = "savePolicy" /\ r.phase = "bindRules"
  BY <1>1 DEF At
<1>4. \A k : SharesRule(p, k)' <=> /\ r.op = "savePolicy" /\ r.phase = "bindRules"
                                  /\ k \in r.rules \ r.todo
  BY <1>1, <1>3 DEF SharesRule
<1>5. \A k : LocksRule(p, k)' <=> r.op = "deleteRule" /\ r.phase = "cascade" /\ r.id = k
  BY <1>1 DEF LocksRule, At
<1>6. Rebinds(p)' <=> r.op = "savePolicy" /\ r.phase \in Rebinding
  BY <1>1 DEF Rebinds
<1> QED BY <1>1, <1>2, <1>3, <1>4, <1>5, <1>6

LEMMA WritePolicyRowKeepsDbInv ==
  ASSUME TypeInv, DbInv, NEW p \in Requests, WritePolicyRow(p)
  PROVE  DbInv'
<1> DEFINE i == Saved("policies", req[p].id)
           r == IF MaySave("policies", req[p].id)
                THEN [req[p] EXCEPT !.phase = "unbind", !.id = i] ELSE Idle
<1>0. /\ req[p] \in Request /\ TablesOK /\ "policies" \in Kinds /\ "rules" \in Kinds
      /\ next \in [Kinds -> Nat] /\ req[p].op = "savePolicy"
  BY KindsAre DEF TypeInv, RequestsOK, TablesOK, WritePolicyRow, At
<1>1. Becomes(p, r) /\ UNCHANGED <<rows, bound, chosen>>
  BY DEF WritePolicyRow, Becomes
<1>2. /\ next'["policies"] \in Nat /\ next["policies"] <= next'["policies"]
      /\ next'["rules"] = next["rules"]
  BY <1>0 DEF WritePolicyRow
<1>3. r \in Request
  BY <1>0, SavedId, IdleIsRequest DEF Request, Writing
<1>4. CASE ~MaySave("policies", req[p].id)
  <2>1. r = Idle /\ Idle.op = "none"
    BY <1>4 DEF Idle
  <2> QED BY <1>1, <1>2, <1>3, <2>1, LockStep, LocksOfTheRequest
<1>5. CASE MaySave("policies", req[p].id)
  <2>1. r.op = "savePolicy" /\ r.phase = "unbind" /\ r.id = i
    BY <1>0, <1>5 DEF Request
  <2>2. i \in Ids("policies") /\ i \in Nat /\ next["policies"] \in Nat
    BY <1>0, <1>5, SavedId
  <2>3. i < next'["policies"] /\ \A q \in Others(p) : ~LocksPolicy(q, i)
    <3>1. CASE req[p].id = New
      <4>1. i = next["policies"]
        BY <3>1 DEF Saved
      <4>2. next'["policies"] = next["policies"] + 1
        BY <1>0, <2>2, <3>1, <4>1 DEF WritePolicyRow
      <4>3. \A q \in Requests : LocksPolicy(q, i) => i < next["policies"]
        BY <2>2 DEF DbInv, Locks, LockedRows
      <4> QED BY <2>2, <4>1, <4>2, <4>3 DEF Others
    <3>2. CASE req[p].id # New
      <4>1. i = req[p].id /\ i \in rows["policies"]
        BY <1>5, <3>2 DEF Saved, MaySave, Exists
      <4>2. i < next["policies"]
        BY <1>0, <4>1 DEF TablesOK
      <4> QED BY <1>2, <2>2, <4>1, <4>2 DEF WritePolicyRow
    <3> QED BY <3>1, <3>2
  <2>4. r.phase \in Writing /\ r.phase # "cascade" /\ r.phase # "bindRules" /\ r.phase \notin Rebinding
    BY <2>1 DEF Writing, Rebinding
  <2> HIDE DEF i, r
  <2> QED BY <1>1, <1>2, <1>3, <2>1, <2>2, <2>3, <2>4, LockStep, LocksOfTheRequest
<1> QED BY <1>4, <1>5

LEMMA UnbindKeepsDbInv ==
  ASSUME TypeInv, DbInv, NEW p \in Requests, Unbind(p)
  PROVE  DbInv'
<1> DEFINE r == [req[p] EXCEPT !.phase = "bindSites", !.old = BindingsOf(req[p].id)]
<1>0. /\ req[p] \in Request /\ req[p].op = "savePolicy" /\ req[p].phase = "unbind"
      /\ BindingsOf(req[p].id) \subseteq Bindings /\ next["policies"] \in Nat
  BY TablesFacts DEF Unbind, At, BindingsOf
<1>1. Becomes(p, r) /\ UNCHANGED <<rows, next, bound, chosen>>
  BY DEF Unbind, Becomes, Quiet, tables
<1>2. /\ r \in Request /\ r.op = "savePolicy" /\ r.phase = "bindSites" /\ r.id = req[p].id
      /\ r.old = BindingsOf(r.id) /\ r.id \in Nat
  BY <1>0 DEF Request, Writing
<1>3. LocksPolicy(p, r.id)
  BY <1>0, <1>2 DEF LocksPolicy, Writing
<1>4. r.id < next["policies"] /\ \A q \in Others(p) : ~LocksPolicy(q, r.id)
  BY <1>2, <1>3 DEF DbInv, Locks, Exclusive, LockedRows, Others
<1> HIDE DEF r
<1> QED BY <1>0, <1>1, <1>2, <1>4, LockStep, LocksOfTheRequest

LEMMA BindSitesKeepsDbInv ==
  ASSUME TypeInv, DbInv, NEW p \in Requests, BindSites(p)
  PROVE  DbInv'
<1> DEFINE r == IF req[p].apps \subseteq OldSites
                THEN [req[p] EXCEPT !.phase = "bindRules", !.todo = req[p].rules]
                ELSE [req[p] EXCEPT !.phase = "constraint"]
<1>0. /\ req[p] \in Request /\ req[p].op = "savePolicy" /\ req[p].phase = "bindSites"
      /\ next["policies"] \in Nat
  BY TablesFacts DEF BindSites, At
<1>1. Becomes(p, r) /\ UNCHANGED <<rows, next, bound, chosen>>
  BY DEF BindSites, Becomes, Quiet, tables
<1>2. req[p].rules \in SUBSET Nat
  BY <1>0, KindsAre DEF Request
<1>3. /\ r \in Request /\ r.op = "savePolicy" /\ r.id = req[p].id /\ r.id \in Nat
      /\ r.phase \in {"bindRules", "constraint"} /\ r.old = req[p].old
      /\ r.phase = "bindRules" => r.apps \subseteq OldSites /\ r.todo = r.rules
  BY <1>0, <1>2 DEF Request, Writing
<1>4. LocksPolicy(p, r.id) /\ Rebinds(p)
  BY <1>0, <1>3 DEF LocksPolicy, Rebinds, Writing, Rebinding
<1>5. r.id < next["policies"] /\ \A q \in Others(p) : ~LocksPolicy(q, r.id)
  BY <1>3, <1>4 DEF DbInv, Locks, Exclusive, LockedRows, Others
<1>6. r.old = BindingsOf(r.id)
  BY <1>3, <1>4 DEF DbInv, Locks, OldBindings
<1> HIDE DEF r
<1> QED BY <1>0, <1>1, <1>3, <1>5, <1>6, LockStep, LocksOfTheRequest

LEMMA BindRuleKeepsDbInv ==
  ASSUME TypeInv, DbInv, NEW p \in Requests, NEW k \in req[p].todo, BindRule(p, k)
  PROVE  DbInv'
<1> DEFINE r == IF Exists("rules", k) THEN [req[p] EXCEPT !.todo = @ \ {k}]
                ELSE [req[p] EXCEPT !.phase = "constraint"]
<1>0. /\ req[p] \in Request /\ req[p].op = "savePolicy" /\ req[p].phase = "bindRules"
      /\ next["policies"] \in Nat
  BY TablesFacts DEF BindRule, At
<1>1. Becomes(p, r) /\ UNCHANGED <<rows, next, bound, chosen>>
  BY DEF BindRule, Becomes, Quiet, tables
<1>2. /\ r \in Request /\ r.op = "savePolicy" /\ r.id = req[p].id /\ r.id \in Nat
      /\ r.phase \in {"bindRules", "constraint"} /\ r.old = req[p].old
      /\ r.apps = req[p].apps /\ r.rules = req[p].rules
      /\ r.phase = "bindRules" => r.todo = req[p].todo \ {k} /\ Exists("rules", k)
  BY <1>0 DEF Request, Writing
<1>3. LocksPolicy(p, r.id) /\ Rebinds(p) /\ At(p, "savePolicy", "bindRules")
  BY <1>0, <1>2 DEF LocksPolicy, Rebinds, Writing, Rebinding, At
<1>4. r.id < next["policies"] /\ \A q \in Others(p) : ~LocksPolicy(q, r.id)
  BY <1>2, <1>3 DEF DbInv, Locks, Exclusive, LockedRows, Others
<1>5. r.old = BindingsOf(r.id) /\ r.apps \subseteq OldSites
  BY <1>2, <1>3 DEF DbInv, Locks, OldBindings, SitesChecked
<1>6. ASSUME NEW j \in Ids("rules"), SharesRule(p, j)'
      PROVE  Exists("rules", j) /\ \A q \in Others(p) : ~LocksRule(q, j)
  <2> HIDE DEF r
  <2>1. r.phase = "bindRules" /\ j \in r.rules \ r.todo
    BY <1>1, <1>6, LocksOfTheRequest
  <2>2. CASE j = k
    BY <1>2, <2>1, <2>2 DEF BindRule, RefusesBinding
  <2>3. CASE j # k
    <3>1. SharesRule(p, j)
      BY <1>2, <1>3, <2>1, <2>3 DEF SharesRule
    <3> QED BY <3>1 DEF DbInv, Locks, RulesHeld, Others
  <2> QED BY <2>2, <2>3
<1> HIDE DEF r
<1> QED BY <1>0, <1>1, <1>2, <1>4, <1>5, <1>6, LockStep, LocksOfTheRequest

LEMMA LockRowKeepsDbInv ==
  ASSUME TypeInv, DbInv, NEW p \in Requests, LockPolicy(p) \/ LockRule(p)
  PROVE  DbInv'
<1>0. /\ req[p].id \in Nat /\ next["policies"] \in Nat /\ TablesOK
      /\ "policies" \in Kinds /\ next \in [Kinds -> Nat]
  BY TablesFacts DEF TypeInv
<1>1. CASE LockPolicy(p)
  <2> DEFINE r == IF Exists("policies", req[p].id) THEN [req[p] EXCEPT !.phase = "cascade"] ELSE Idle
  <2>1. req[p] \in Request /\ req[p].op = "deletePolicy"
    BY <1>1, TablesFacts DEF LockPolicy, LockRow, At
  <2>2. Becomes(p, r) /\ UNCHANGED <<rows, next, bound, chosen>>
    BY <1>1 DEF LockPolicy, LockRow, Becomes, Quiet, tables
  <2>3. CASE Exists("policies", req[p].id)
    <3>1. r \in Request /\ r.op = "deletePolicy" /\ r.phase = "cascade" /\ r.id = req[p].id
      BY <2>1, <2>3 DEF Request
    <3>2. r.id < next["policies"]
      BY <1>0, <2>3, <3>1 DEF Exists, TablesOK
    <3>3. \A q \in Others(p) : ~LocksPolicy(q, r.id)
      BY <1>1, <3>1 DEF LockPolicy
    <3> HIDE DEF r
    <3> QED BY <1>0, <2>2, <3>1, <3>2, <3>3, LockStep, LocksOfTheRequest
  <2>4. CASE ~Exists("policies", req[p].id)
    BY <1>1, <2>2, <2>4, IdleIsAside, AsideKeepsDbInv DEF LockPolicy, LockRow, Quiet, Becomes
  <2> QED BY <2>3, <2>4
<1>2. CASE LockRule(p)
  <2> DEFINE r == IF Exists("rules", req[p].id) THEN [req[p] EXCEPT !.phase = "cascade"] ELSE Idle
  <2>1. req[p] \in Request /\ req[p].op = "deleteRule"
    BY <1>2, TablesFacts DEF LockRule, LockRow, At
  <2>2. Becomes(p, r) /\ UNCHANGED <<rows, next, bound, chosen>>
    BY <1>2 DEF LockRule, LockRow, Becomes, Quiet, tables
  <2>3. CASE Exists("rules", req[p].id)
    <3>1. r \in Request /\ r.op = "deleteRule" /\ r.phase = "cascade" /\ r.id = req[p].id
      BY <2>1, <2>3 DEF Request
    <3>2. \A q \in Others(p) : ~SharesRule(q, r.id)
      BY <1>2, <3>1 DEF LockRule
    <3> HIDE DEF r
    <3> QED BY <1>0, <2>2, <3>1, <3>2, LockStep, LocksOfTheRequest
  <2>4. CASE ~Exists("rules", req[p].id)
    BY <1>2, <2>2, <2>4, IdleIsAside, AsideKeepsDbInv DEF LockRule, LockRow, Quiet, Becomes
  <2> QED BY <2>3, <2>4
<1> QED BY <1>1, <1>2

(***************************************************************************)
(* Steps that write the tables of policies.  The request that commits lets *)
(* go of its locks, so the others' hold as before.                         *)
(***************************************************************************)
LEMMA LocksAfterCommit ==
  ASSUME TypeInv, DbInv, \A q \in Requests : LetsGo(q),
         next'["policies"] \in Nat, next["policies"] <= next'["policies"],
         \A q \in Requests : \A k \in Ids("rules") : SharesRule(q, k)' => Exists("rules", k)',
         \A q \in Requests : Rebinds(q)' => BindingsOf(req[q].id)' = BindingsOf(req[q].id)
  PROVE  Locks'
<1>1. ASSUME NEW q \in Requests
      PROVE  /\ \A i \in Nat : LocksPolicy(q, i)' => LocksPolicy(q, i)
             /\ \A r \in Ids("rules") : SharesRule(q, r)' => SharesRule(q, r)
             /\ \A r \in Ids("rules") : LocksRule(q, r)' => LocksRule(q, r)
             /\ At(q, "savePolicy", "bindRules")' =>
                  At(q, "savePolicy", "bindRules") /\ req'[q] = req[q]
             /\ Rebinds(q)' => Rebinds(q) /\ req'[q] = req[q]
  BY DEF LetsGo, LocksPolicy, SharesRule, LocksRule, At, Rebinds, Locking, Writing, Rebinding
<1>2. Exclusive'
  BY <1>1 DEF DbInv, Locks, Exclusive
<1>3. LockedRows'
  <2>1. next["policies"] \in Nat
    BY TablesFacts
  <2> QED BY <1>1, <2>1 DEF DbInv, Locks, LockedRows
<1>4. RulesHeld'
  BY <1>1 DEF DbInv, Locks, RulesHeld
<1>5. SitesChecked'
  BY <1>1 DEF DbInv, Locks, SitesChecked
<1>6. OldBindings'
  BY <1>1 DEF DbInv, Locks, OldBindings, BindingsOf
<1> QED BY <1>2, <1>3, <1>4, <1>5, <1>6 DEF Locks

LEMMA BindingFields ==
  \A b \in Bindings : /\ b = <<b[1], b[2], b[3]>> /\ b[1] \in Ids("policies")
                      /\ \/ b[2] = "sites" /\ b[3] \in Sites
                         \/ b[2] = "rules" /\ b[3] \in Ids("rules")
BY DEF Bindings

LEMMA ChosenFields ==
  ASSUME NEW i, NEW apps, NEW rules
  PROVE  /\ \A b \in Chosen(i, apps, rules) :
              /\ b[1] = i
              /\ (b[2] = "sites" /\ b[3] \in apps) \/ (b[2] = "rules" /\ b[3] \in rules)
         /\ \A s : <<i, "sites", s>> \in Chosen(i, apps, rules) <=> s \in apps
         /\ \A r : <<i, "rules", r>> \in Chosen(i, apps, rules) <=> r \in rules
BY DEF Chosen

LEMMA CommitKeepsDbInv ==
  ASSUME TypeInv, DbInv, NEW p \in Requests, CommitPolicy(p)
  PROVE  DbInv'
<1> PICK i, apps, rules : i = req[p].id /\ apps = req[p].apps /\ rules = req[p].rules
  OBVIOUS
<1>0. /\ req[p] \in Request /\ next \in [Kinds -> Nat] /\ rows \in [Kinds -> SUBSET Nat]
      /\ {"applications", "certificates", "rules", "policies"} \subseteq Kinds
      /\ bound \subseteq Bindings /\ i \in Nat
      /\ chosen \in [Ids("policies") -> [apps : SUBSET Sites, rules : SUBSET Ids("rules")]]
  BY TablesFacts
<1>1. /\ At(p, "savePolicy", "bindRules") /\ Rebinds(p) /\ SavingPolicy(p) /\ LocksPolicy(p, i)
      /\ req' = [req EXCEPT ![p] = Idle]
  BY DEF CommitPolicy, At, Rebinds, Rebinding, Writing, SavingPolicy, LocksPolicy
<1>2. i \in Ids("policies") /\ apps \subseteq Sites /\ rules \subseteq Ids("rules")
  BY <1>0, <1>1 DEF TypeInv, WrittenRows, Request
<1>3. apps \subseteq OldSites /\ req[p].old = BindingsOf(i)
  BY <1>1 DEF DbInv, Locks, SitesChecked, OldBindings
<1>4. rules \subseteq rows["rules"]
  <2>1. \A r \in rules : SharesRule(p, r)
    BY <1>1 DEF CommitPolicy, SharesRule
  <2> QED BY <1>2, <2>1 DEF DbInv, Locks, RulesHeld, Exists
<1>5. /\ rows' = [rows EXCEPT !["policies"] = @ \cup {i}]
      /\ next' = [next EXCEPT !["policies"] = IF i = @ THEN @ + 1 ELSE @]
      /\ bound' = (bound \ BindingsOf(i)) \cup Chosen(i, apps, rules)
      /\ chosen' = [chosen EXCEPT ![i] = [apps |-> apps, rules |-> rules]]
  BY <1>3 DEF CommitPolicy, PutPolicy, Save
<1>6. /\ rows'["policies"] = rows["policies"] \cup {i} /\ rows'["rules"] = rows["rules"]
      /\ next'["rules"] = next["rules"] /\ next["policies"] \in Nat
      /\ next'["policies"] \in Nat /\ next["policies"] <= next'["policies"]
      /\ chosen'[i] = [apps |-> apps, rules |-> rules]
      /\ \A j \in Ids("policies") : j # i => chosen'[j] = chosen[j]
  BY <1>0, <1>2, <1>5
<1>7. /\ \A b \in bound' : (b \in bound /\ b[1] # i) \/ b \in Chosen(i, apps, rules)
      /\ \A b \in bound : b[1] # i => b \in bound'
      /\ Chosen(i, apps, rules) \subseteq bound'
  BY <1>5 DEF BindingsOf
<1>8. EndsExist'
  <2>1. ASSUME NEW b \in bound', b \in bound
        PROVE  /\ Exists("policies", b[1])'
               /\ IF b[2] = "rules" THEN Exists("rules", b[3])' ELSE b[3] \in OldSites
    BY <1>6, <2>1 DEF DbInv, EndsExist, Exists
  <2>2. ASSUME NEW b \in bound', b \in Chosen(i, apps, rules)
        PROVE  /\ Exists("policies", b[1])'
               /\ IF b[2] = "rules" THEN Exists("rules", b[3])' ELSE b[3] \in OldSites
    BY <1>3, <1>4, <1>6, <2>2, ChosenFields DEF Exists
  <2> QED BY <1>7, <2>1, <2>2 DEF EndsExist
<1>9. BoundAsSaved'
  <2>1. SitesOf(i)' = apps /\ RulesOf(i)' = rules
    <3>1. \A t, x : <<i, t, x>> \in bound' <=> <<i, t, x>> \in Chosen(i, apps, rules)
      BY <1>7
    <3> QED BY <1>2, <3>1, ChosenFields DEF SitesOf, RulesOf
  <2>2. \A j \in Ids("policies") : j # i => SitesOf(j)' = SitesOf(j) /\ RulesOf(j)' = RulesOf(j)
    <3>1. ASSUME NEW j \in Ids("policies"), j # i, NEW t, NEW x
          PROVE  <<j, t, x>> \in bound' <=> <<j, t, x>> \in bound
      BY <1>7, <3>1, ChosenFields
    <3> QED BY <3>1 DEF SitesOf, RulesOf
  <2>3. \A j \in rows["policies"] : j \in Ids("policies")
    BY TablesFacts
  <2>4. ASSUME NEW j \in rows'["policies"]
        PROVE  SitesOf(j)' = chosen'[j].apps /\ RulesOf(j)' = chosen'[j].rules \cap rows'["rules"]
    <3>1. CASE j = i
      BY <1>4, <1>6, <2>1, <3>1
    <3>2. CASE j # i
      <4>1. j \in rows["policies"] /\ j \in Ids("policies")
        BY <1>6, <2>3, <3>2
      <4>2. SitesOf(j) = chosen[j].apps /\ RulesOf(j) = chosen[j].rules \cap rows["rules"]
        BY <4>1 DEF DbInv, BoundAsSaved
      <4> QED BY <1>6, <2>2, <3>2, <4>1, <4>2
    <3> QED BY <3>1, <3>2
  <2> QED BY <2>4 DEF BoundAsSaved
<1>10. KnownRules'
  <2>1. \A r \in rules : r < next["rules"]
    BY <1>0, <1>4 DEF TypeInv, TablesOK
  <2> QED BY <1>6, <2>1 DEF DbInv, KnownRules
<1>11. Locks'
  <2>1. \A q \in Requests : LetsGo(q) /\ (q = p => ~Rebinds(q)' /\ \A k : ~SharesRule(q, k)')
    BY <1>0, <1>1 DEF LetsGo, TypeInv, RequestsOK, Idle, Locking, Writing, Rebinds, SharesRule, At
  <2>2. ASSUME NEW q \in Requests, NEW k \in Ids("rules"), SharesRule(q, k)'
        PROVE  Exists("rules", k)'
    <3>1. SharesRule(q, k)
      BY <2>1, <2>2 DEF LetsGo, SharesRule, At, Locking, Writing
    <3> QED BY <1>6, <3>1 DEF DbInv, Locks, RulesHeld, Exists
  <2>3. ASSUME NEW q \in Requests, Rebinds(q)'
        PROVE  BindingsOf(req[q].id)' = BindingsOf(req[q].id)
    <3>1. q # p /\ req'[q] = req[q] /\ LocksPolicy(q, req[q].id) /\ req[q].id \in Nat
      BY <2>1, <2>3, TablesFacts DEF LetsGo, Rebinds, Rebinding, Locking, Writing, LocksPolicy
    <3>2. req[q].id # i
      BY <1>0, <1>1, <3>1 DEF DbInv, Locks, Exclusive
    <3>3. \A b : b \in bound' /\ b[1] = req[q].id <=> b \in bound /\ b[1] = req[q].id
      BY <1>7, <3>2, ChosenFields
    <3> QED BY <3>1, <3>3 DEF BindingsOf
  <2> QED BY <1>6, <2>1, <2>2, <2>3, LocksAfterCommit
<1> QED BY <1>8, <1>9, <1>10, <1>11 DEF DbInv

LEMMA DeletePolicyKeepsDbInv ==
  ASSUME TypeInv, DbInv, NEW p \in Requests, DeletePolicy(p)
  PROVE  DbInv'
<1> PICK i : i = req[p].id
  OBVIOUS
<1>0. /\ req[p] \in Request /\ next \in [Kinds -> Nat] /\ rows \in [Kinds -> SUBSET Nat]
      /\ {"applications", "certificates", "rules", "policies"} \subseteq Kinds /\ i \in Nat
  BY TablesFacts
<1>1. LocksPolicy(p, i) /\ req' = [req EXCEPT ![p] = Idle]
  BY DEF DeletePolicy, At, LocksPolicy
<1>2. /\ rows'["policies"] = rows["policies"] \ {i} /\ rows'["rules"] = rows["rules"]
      /\ next' = next /\ chosen' = chosen
      /\ bound' = {b \in bound : b[1] # i}
  BY <1>0 DEF DeletePolicy, DropPolicy, Remove, BindingsOf
<1>3. EndsExist'
  BY <1>2 DEF DbInv, EndsExist, Exists
<1>4. BoundAsSaved'
  <2>1. ASSUME NEW j \in rows'["policies"]
        PROVE  SitesOf(j)' = SitesOf(j) /\ RulesOf(j)' = RulesOf(j) /\ j \in rows["policies"]
    BY <1>2 DEF SitesOf, RulesOf
  <2> QED BY <1>2, <2>1 DEF DbInv, BoundAsSaved
<1>5. KnownRules'
  BY <1>2 DEF DbInv, KnownRules
<1>6. Locks'
  <2>1. \A q \in Requests : LetsGo(q) /\ (q = p => ~Rebinds(q)' /\ \A k : ~SharesRule(q, k)')
    BY <1>0, <1>1 DEF LetsGo, TypeInv, RequestsOK, Idle, Locking, Writing, Rebinds, SharesRule, At
  <2>2. ASSUME NEW q \in Requests, NEW k \in Ids("rules"), SharesRule(q, k)'
        PROVE  Exists("rules", k)'
    <3>1. SharesRule(q, k)
      BY <2>1, <2>2 DEF LetsGo, SharesRule, At, Locking, Writing
    <3> QED BY <1>2, <3>1 DEF DbInv, Locks, RulesHeld, Exists
  <2>3. ASSUME NEW q \in Requests, Rebinds(q)'
        PROVE  BindingsOf(req[q].id)' = BindingsOf(req[q].id)
    <3>1. q # p /\ req'[q] = req[q] /\ LocksPolicy(q, req[q].id) /\ req[q].id \in Nat
      BY <2>1, <2>3, TablesFacts DEF LetsGo, Rebinds, Rebinding, Locking, Writing, LocksPolicy
    <3>2. req[q].id # i
      BY <1>0, <1>1, <3>1 DEF DbInv, Locks, Exclusive
    <3> QED BY <1>2, <3>1, <3>2 DEF BindingsOf
  <2> QED BY <1>0, <1>2, <2>1, <2>2, <2>3, LocksAfterCommit
<1> QED BY <1>3, <1>4, <1>5, <1>6 DEF DbInv

LEMMA DeleteRuleKeepsDbInv ==
  ASSUME TypeInv, DbInv, backend = "postgres", NEW p \in Requests, DeleteRule(p)
  PROVE  DbInv'
<1> PICK r : r = req[p].id
  OBVIOUS
<1>0. /\ req[p] \in Request /\ next \in [Kinds -> Nat] /\ rows \in [Kinds -> SUBSET Nat]
      /\ {"applications", "certificates", "rules", "policies"} \subseteq Kinds
      /\ bound \subseteq Bindings
  BY TablesFacts
<1>1. LocksRule(p, r) /\ req' = [req EXCEPT ![p] = Idle]
  BY DEF DeleteRule, LocksRule, At
<1>2. /\ rows'["policies"] = rows["policies"] /\ rows'["rules"] = rows["rules"] \ {r}
      /\ next' = next /\ chosen' = chosen
      /\ bound' = {b \in bound : ~(b[2] = "rules" /\ b[3] = r)}
  BY <1>0 DEF DeleteRule, DropRule, Remove
<1>3. EndsExist'
  BY <1>2 DEF DbInv, EndsExist, Exists
<1>4. BoundAsSaved'
  <2>1. ASSUME NEW j
        PROVE  SitesOf(j)' = SitesOf(j) /\ RulesOf(j)' = RulesOf(j) \ {r}
    BY <1>2 DEF SitesOf, RulesOf
  <2> QED BY <1>2, <2>1 DEF DbInv, BoundAsSaved
<1>5. KnownRules'
  BY <1>2 DEF DbInv, KnownRules
<1>6. Locks'
  <2>1. \A q \in Requests : LetsGo(q) /\ (q = p => ~Rebinds(q)' /\ \A k : ~SharesRule(q, k)')
    BY <1>0, <1>1 DEF LetsGo, TypeInv, RequestsOK, Idle, Locking, Writing, Rebinds, SharesRule, At
  <2>2. ASSUME NEW q \in Requests, NEW k \in Ids("rules"), SharesRule(q, k)'
        PROVE  Exists("rules", k)'
    <3>1. SharesRule(q, k)
      BY <2>1, <2>2 DEF LetsGo, SharesRule, At, Locking, Writing
    <3>2. Exists("rules", k) /\ k # r
      BY <1>1, <3>1 DEF DbInv, Locks, RulesHeld
    <3> QED BY <1>2, <3>2 DEF Exists
  <2>3. ASSUME NEW q \in Requests, Rebinds(q)'
        PROVE  BindingsOf(req[q].id)' = BindingsOf(req[q].id)
    <3>1. q \in Others(p) /\ req'[q] = req[q] /\ Rebinds(q)
      BY <2>1, <2>3 DEF LetsGo, Rebinds, Rebinding, Locking, Writing, Others
    <3>2. req[q].old = BindingsOf(req[q].id)
      BY <3>1 DEF DbInv, Locks, OldBindings
    <3>3. <<req[q].id, "rules", r>> \notin bound
      <4>1. <<req[q].id, "rules", r>> \notin req[q].old
        BY <3>1 DEF DeleteRule, LocksBinding, Rebinds
      <4> QED BY <3>2, <4>1 DEF BindingsOf
    <3>4. \A b \in bound : b[1] = req[q].id => ~(b[2] = "rules" /\ b[3] = r)
      BY <1>0, <3>3, BindingFields
    <3> QED BY <1>2, <3>1, <3>4 DEF BindingsOf
  <2> QED BY <1>0, <1>2, <2>1, <2>2, <2>3, LocksAfterCommit
<1> QED BY <1>3, <1>4, <1>5, <1>6 DEF DbInv

LEMMA CreateKeepsDbInv ==
  ASSUME TypeInv, DbInv, NEW kind \in Kinds, Create(kind)
  PROVE  DbInv'
<1>0. /\ next \in [Kinds -> Nat] /\ rows \in [Kinds -> SUBSET Nat]
      /\ {"applications", "certificates", "rules", "policies"} \subseteq Kinds
      /\ \A i \in rows["policies"] : i \in Ids("policies")
  BY TablesFacts
<1>1. Save(kind, next[kind]) /\ UNCHANGED <<bound, chosen, req>>
  BY DEF Create
<1>2. CASE kind = "certificates"
  <2>1. policyTables' = policyTables
    BY <1>0, <1>1, <1>2 DEF Save, policyTables
  <2> QED BY <1>1, <2>1, ElsewhereKeepsDbInv DEF LetsGo
<1>3. CASE kind = "rules"
  <2>1. /\ rows'["policies"] = rows["policies"] /\ next'["policies"] = next["policies"]
        /\ rows'["rules"] = rows["rules"] \cup {next["rules"]}
        /\ next'["rules"] = next["rules"] + 1 /\ next["rules"] \in Nat /\ next["policies"] \in Nat
    BY <1>0, <1>1, <1>3 DEF Save
  <2>2. EndsExist'
    BY <1>1, <2>1 DEF DbInv, EndsExist, Exists
  <2>3. BoundAsSaved'
    <3>1. \A i \in rows["policies"] : next["rules"] \notin chosen[i].rules
      BY <1>0, <2>1 DEF DbInv, KnownRules
    <3> QED BY <1>1, <2>1, <3>1 DEF DbInv, BoundAsSaved, SitesOf, RulesOf
  <2>4. KnownRules'
    <3>1. \A i \in Ids("policies") : \A r \in chosen[i].rules : r \in Nat
      BY KindsAre DEF TypeInv, TablesOK
    <3> QED BY <1>1, <2>1, <3>1 DEF DbInv, KnownRules
  <2>5. Locks'
    <3>1. \A q \in Requests : LetsGo(q)
      BY <1>1 DEF LetsGo
    <3>2. ASSUME NEW q \in Requests, NEW k \in Ids("rules"), SharesRule(q, k)'
          PROVE  Exists("rules", k)'
      BY <1>1, <2>1, <3>2 DEF SharesRule, At, DbInv, Locks, RulesHeld, Exists
    <3>3. \A q \in Requests : BindingsOf(req[q].id)' = BindingsOf(req[q].id)
      BY <1>1 DEF BindingsOf
    <3> QED BY <2>1, <3>1, <3>2, <3>3, LocksAfterCommit
  <2> QED BY <2>2, <2>3, <2>4, <2>5 DEF DbInv
<1> QED BY <1>2, <1>3 DEF Create

LEMMA DbInvInit == Init => DbInv
<1> SUFFICES ASSUME Init PROVE DbInv
  OBVIOUS
<1>1. EndsExist /\ BoundAsSaved /\ KnownRules
  BY KindsAre DEF Init, EndsExist, BoundAsSaved, KnownRules
<1>2. \A p \in Requests : req[p].op = "none"
  BY DEF Init, Idle
<1> QED BY <1>1, <1>2 DEF DbInv, Locks, Exclusive, LockedRows, RulesHeld, SitesChecked,
       OldBindings, Rebinds, LocksPolicy, SharesRule, At

LEMMA DbInvStep ==
  ASSUME TypeInv, DbInv, backend = "postgres", [Next]_vars
  PROVE  DbInv'
<1>0. /\ rows \in [Kinds -> SUBSET Nat] /\ next \in [Kinds -> Nat]
      /\ {"applications", "certificates", "rules", "policies"} \subseteq Kinds
  BY TablesFacts
<1>1. ASSUME NEW p \in Requests,
             \/ Accept(p) \/ AbortDeadlocked(p) \/ RequestFails(p) \/ CountListeners(p)
             \/ CheckReferences(p) \/ AnswerConstraint(p)
             \/ \E c \in req[p].todo : CheckCertificate(p, c)
      PROVE  DbInv'
  BY <1>1, AcceptIsAside, QuietStepsAreAside, AsideKeepsDbInv
<1>2. ASSUME NEW p \in Requests, WriteApplication(p) \/ DeleteCertificate(p)
      PROVE  DbInv'
  <2>1. req' = [req EXCEPT ![p] = Idle]
    BY <1>2 DEF WriteApplication, DeleteCertificate
  <2>2. policyTables' = policyTables
    BY <1>0, <1>2 DEF WriteApplication, DeleteCertificate, PutApplication, DropCertificate,
       Save, Remove, tables, policyTables
  <2>3. \A q \in Requests : LetsGo(q)
    BY <2>1 DEF LetsGo, TypeInv, RequestsOK, Idle, Locking, Writing
  <2> QED BY <2>2, <2>3, ElsewhereKeepsDbInv
<1>3. ASSUME NEW p \in Requests, Serve(p)
      PROVE  DbInv'
  BY <1>1, <1>2, <1>3, WritePolicyRowKeepsDbInv, UnbindKeepsDbInv, BindSitesKeepsDbInv,
     BindRuleKeepsDbInv, CommitKeepsDbInv, LockRowKeepsDbInv, DeletePolicyKeepsDbInv,
     DeleteRuleKeepsDbInv
     DEF Serve, SaveApplication, RemoveCertificate, SavePolicy, RemovePolicy, RemoveRule
<1>4. ASSUME NEW i \in Ids("applications"), DeleteApplication(i)
      PROVE  DbInv'
  <2>1. policyTables' = policyTables /\ req' = req
    BY <1>0, <1>4 DEF DeleteApplication, DropApplication, Remove, policyTables
  <2> QED BY <2>1, ElsewhereKeepsDbInv DEF LetsGo
<1>5. CASE Restart
  <2>1. policyTables' = policyTables
    BY <1>5 DEF Restart, tables, policyTables
  <2>2. \A q \in Requests : LetsGo(q)
    BY <1>5 DEF Restart, LetsGo, Idle, Locking, Writing
  <2> QED BY <2>1, <2>2, ElsewhereKeepsDbInv
<1>6. CASE UNCHANGED vars
  BY <1>6, ElsewhereKeepsDbInv DEF vars, tables, policyTables, LetsGo
<1>7. ~InMemory
  BY DEF InMemory
<1> QED BY <1>1, <1>3, <1>4, <1>5, <1>6, <1>7, CreateKeepsDbInv DEF Next

DatabaseInv == backend = "postgres" => DbInv

LEMMA DatabaseInvInit == Init => TypeInv /\ DatabaseInv
BY TypeInvInit, DbInvInit DEF DatabaseInv

LEMMA DatabaseInvStep == TypeInv /\ DatabaseInv /\ [Next]_vars => (TypeInv /\ DatabaseInv)'
BY TypeInvStep, DbInvStep, StoreStays DEF DatabaseInv

\* On the database the two ends of every binding exist.
THEOREM BindingsHaveEnds == Spec => []BindingsExist
<1>1. TypeInv /\ DatabaseInv => BindingsExist
  BY DEF DatabaseInv, DbInv, BindingsExist
<1> QED BY <1>1, DatabaseInvInit, DatabaseInvStep, PTL DEF Spec

\* On the database a policy's bindings are those of its last save, less the deleted rules.
THEOREM SavesAreNotMixed == Spec => []BindingsAreTheLastSave
<1>1. TypeInv /\ DatabaseInv => BindingsAreTheLastSave
  BY DEF DatabaseInv, DbInv, BindingsAreTheLastSave
<1> QED BY <1>1, DatabaseInvInit, DatabaseInvStep, PTL DEF Spec

\* A request that waits for a deletion at its cascade is a save that binds rules, one that
\* waits for a policy waits for another save or a deletion of the policy.
LEMMA WhoWaits ==
  ASSUME NEW p \in Requests, NEW q \in Requests, WaitsFor(p, q)
  PROVE  /\ At(p, "deletePolicy", "cascade") => FALSE
         /\ Rebinds(p) => At(p, "savePolicy", "bindRules") /\ At(q, "deleteRule", "cascade")
         /\ At(p, "savePolicy", "unbind") => FALSE
         /\ At(p, "deleteRule", "cascade") => LocksBinding(q, req[p].id)
         /\ \/ At(p, "deleteRule", "cascade")
            \/ At(q, "deleteRule", "cascade")
            \/ At(q, "savePolicy", "unbind") \/ Rebinds(q) \/ At(q, "deletePolicy", "cascade")
BY DEF WaitsFor, At, Rebinds, Rebinding, Writing, LocksPolicy, LocksRule, SharesRule,
       RefusesBinding

\* On the database a circle of waiting requests has a deletion of a rule at its cascade and a
\* save that binds rules anew for a policy still bound to it.
THEOREM DeadlocksNeedADeletedRule == Spec => []DeadlocksAreOverDeletedRules
<1>1. TypeInv /\ DatabaseInv => DeadlocksAreOverDeletedRules
  <2> SUFFICES ASSUME TypeInv, DbInv, NEW circle \in SUBSET Requests, WaitForEachOther(circle)
               PROVE  \E d, s \in circle : /\ At(d, "deleteRule", "cascade")
                                           /\ At(s, "savePolicy", "bindRules")
                                           /\ <<req[s].id, "rules", req[d].id>> \in bound
    BY DEF DatabaseInv, DeadlocksAreOverDeletedRules
  <2>1. \A p \in circle : p \in Requests /\ \E q \in circle : q \in Requests /\ WaitsFor(p, q)
    BY DEF WaitForEachOther
  <2>2. \E d \in circle : At(d, "deleteRule", "cascade")
    <3>1. PICK p \in circle : TRUE
      BY DEF WaitForEachOther
    <3>2. PICK q \in circle : WaitsFor(p, q)
      BY <2>1
    <3>3. PICK w \in circle : WaitsFor(q, w)
      BY <2>1
    <3> QED BY <2>1, <3>2, <3>3, WhoWaits
  <2>3. PICK d \in circle : At(d, "deleteRule", "cascade")
    BY <2>2
  <2>4. PICK s \in circle : WaitsFor(d, s)
    BY <2>1
  <2>5. LocksBinding(s, req[d].id)
    BY <2>1, <2>3, <2>4, WhoWaits
  <2>6. Rebinds(s) /\ <<req[s].id, "rules", req[d].id>> \in req[s].old
    BY <2>5 DEF LocksBinding, Rebinds
  <2>7. At(s, "savePolicy", "bindRules")
    BY <2>1, <2>6, WhoWaits
  <2>8. <<req[s].id, "rules", req[d].id>> \in bound
    BY <2>1, <2>6 DEF DbInv, Locks, OldBindings, BindingsOf
  <2> QED BY <2>3, <2>7, <2>8
<1> QED BY <1>1, DatabaseInvInit, DatabaseInvStep, PTL DEF Spec

(***************************************************************************)
(* Certificates.  A save has found the certificates that it has checked,   *)
(* and a deletion has counted no listener, unless the two have overlapped: *)
(* an overlap is noted when the later of the two requests begins.          *)
(***************************************************************************)
RacesNoted == \A a, d \in Requests : \A c \in Ids("certificates") :
                Races(req, a, d, c) => c \in raced

Checked(p) == At(p, "saveApplication", "check") =>
                req[p].certs \ req[p].todo \subseteq rows["certificates"] \cup raced
Counted(p) == At(p, "deleteCertificate", "delete") => req[p].id \in raced \/ ~InUse(req[p].id)

OverlapInv ==
  /\ OnlyOverlapsLoseCertificates
  /\ RacesNoted
  /\ \A p \in Requests : Checked(p) /\ Counted(p)

\* Requests of several statements are the database's.
AtomicInMemory == backend = "memory" => \A p \in Requests : req[p].phase = "idle"

\* No listener is new and no certificate is gone.
KeepsListeners ==
  /\ uses' \subseteq uses
  /\ \A u \in uses' : u[1] \in rows'["applications"]
  /\ rows'["applications"] \subseteq rows["applications"]
  /\ rows["certificates"] \subseteq rows'["certificates"]

LEMMA KeptListeners ==
  ASSUME OnlyOverlapsLoseCertificates, KeepsListeners, raced \subseteq raced'
  PROVE  /\ OnlyOverlapsLoseCertificates'
         /\ \A c : InUse(c)' => InUse(c)
BY DEF OnlyOverlapsLoseCertificates, KeepsListeners, InUse

LEMMA OtherTablesKeepListeners ==
  ASSUME TypeInv, OnlyOverlapsLoseCertificates, NEW i, NEW apps, NEW rules, NEW old,
         \/ PutPolicy(i, apps, rules, old) \/ DropPolicy(i) \/ DropRule(i)
         \/ DropApplication(i) \/ UNCHANGED tables
         \/ UNCHANGED <<uses, rows>>
         \/ \E kind \in {"certificates", "rules"} : Save(kind, i) /\ uses' = uses
  PROVE  KeepsListeners
<1>1. \A u \in uses : u[1] \in rows["applications"]
  BY DEF OnlyOverlapsLoseCertificates
<1>2. CASE DropApplication(i)
  <2>1. /\ rows'["certificates"] = rows["certificates"]
        /\ rows'["applications"] = rows["applications"] \ {i}
        /\ uses' = {u \in uses : u[1] # i}
    BY <1>2, TablesFacts DEF DropApplication, Remove
  <2> QED BY <1>1, <2>1 DEF KeepsListeners
<1>3. CASE \E kind \in {"certificates", "rules"} : Save(kind, i) /\ uses' = uses
  BY <1>1, <1>3, TablesFacts DEF Save, KeepsListeners
<1>4. CASE PutPolicy(i, apps, rules, old) \/ DropPolicy(i) \/ DropRule(i)
  BY <1>1, <1>4, TablesFacts DEF PutPolicy, DropPolicy, DropRule, Save, Remove, KeepsListeners
<1>5. CASE UNCHANGED tables \/ UNCHANGED <<uses, rows>>
  BY <1>1, <1>5 DEF tables, KeepsListeners
<1> QED BY <1>2, <1>3, <1>4, <1>5

\* A listener saved with certificates that are there, or that a deletion races for.
LEMMA PutApplicationKeepsOverlaps ==
  ASSUME TypeInv, OnlyOverlapsLoseCertificates, NEW i, NEW certs, raced' = raced,
         certs \subseteq rows["certificates"] \cup raced, PutApplication(i, certs)
  PROVE  /\ OnlyOverlapsLoseCertificates' /\ rows'["certificates"] = rows["certificates"]
         /\ \A c : InUse(c)' => InUse(c) \/ c \in certs
<1>1. /\ rows'["certificates"] = rows["certificates"]
      /\ rows'["applications"] = rows["applications"] \cup {i}
  BY TablesFacts DEF PutApplication, Save
<1>2. uses' = {u \in uses : u[1] # i} \cup {<<i, c>> : c \in certs}
  BY DEF PutApplication
<1>3. OnlyOverlapsLoseCertificates'
  BY <1>1, <1>2 DEF OnlyOverlapsLoseCertificates
<1>4. ASSUME NEW c, InUse(c)', c \notin certs
      PROVE  InUse(c)
  <2>1. PICK j \in rows'["applications"] : <<j, c>> \in uses'
    BY <1>4 DEF InUse
  <2>2. <<j, c>> \in uses
    BY <1>2, <1>4, <2>1
  <2> QED BY <2>2 DEF InUse, OnlyOverlapsLoseCertificates
<1> QED BY <1>1, <1>3, <1>4

LEMMA DropCertificateKeepsOverlaps ==
  ASSUME TypeInv, OnlyOverlapsLoseCertificates, NEW c, c \in raced \/ ~InUse(c),
         DropCertificate(c), raced' = raced
  PROVE  /\ OnlyOverlapsLoseCertificates' /\ rows'["certificates"] = rows["certificates"] \ {c}
         /\ \A d : InUse(d)' => InUse(d)
<1>1. /\ rows'["certificates"] = rows["certificates"] \ {c}
      /\ rows'["applications"] = rows["applications"] /\ uses' = uses
  BY TablesFacts DEF DropCertificate, Remove
<1> QED BY <1>1 DEF OnlyOverlapsLoseCertificates, InUse

(***************************************************************************)
(* What a step of a request has to keep.                                   *)
(***************************************************************************)
AboutCertificates == {"saveApplication", "deleteCertificate"}
Continues(p, r) == r.op \in AboutCertificates =>
                     r.op = req[p].op /\ r.id = req[p].id /\ r.certs = req[p].certs
Ready(r) == /\ r.op = "saveApplication" /\ r.phase = "check" =>
                 r.certs \ r.todo \subseteq rows'["certificates"] \cup raced'
            /\ r.op = "deleteCertificate" /\ r.phase = "delete" =>
                 r.id \in raced' \/ ~InUse(r.id)'

LEMMA RacesStayNoted ==
  ASSUME TypeInv, RacesNoted, NEW p \in Requests, NEW r \in Request, Becomes(p, r),
         Continues(p, r), raced' = raced
  PROVE  RacesNoted'
<1> SUFFICES ASSUME NEW a \in Requests, NEW d \in Requests, NEW c \in Ids("certificates"),
                    Races(req', a, d, c)
             PROVE  c \in raced
  BY DEF RacesNoted, Races
<1>1. \A q \in Requests : req'[q] = IF q = p THEN r ELSE req[q]
  BY DEF Becomes, TypeInv, RequestsOK
<1>2. \A q \in Requests : req'[q].op \in AboutCertificates =>
        req'[q].op = req[q].op /\ req'[q].id = req[q].id /\ req'[q].certs = req[q].certs
  BY <1>1 DEF Continues
<1>3. Races(req, a, d, c)
  BY <1>2 DEF Races, AboutCertificates
<1> QED BY <1>3 DEF RacesNoted

LEMMA OverlapStep ==
  ASSUME TypeInv, NEW p \in Requests, NEW r \in Request, Becomes(p, r), Ready(r), RacesNoted',
         OnlyOverlapsLoseCertificates', \A q \in Others(p) : Checked(q)' /\ Counted(q)'
  PROVE  OverlapInv'
<1>1. req'[p] = r
  BY DEF Becomes, TypeInv, RequestsOK
<1>2. Checked(p)' /\ Counted(p)'
  BY <1>1 DEF Checked, Counted, At, Ready, InUse
<1> QED BY <1>2 DEF OverlapInv, Others

LEMMA OthersStayReady ==
  ASSUME TypeInv, OverlapInv, NEW p \in Requests, NEW r \in Request, Becomes(p, r),
         NEW q \in Others(p), raced \subseteq raced',
         At(q, "saveApplication", "check") =>
           req[q].certs \cap rows["certificates"] \subseteq rows'["certificates"] \cup raced',
         At(q, "deleteCertificate", "delete") =>
           \A c : InUse(c)' => InUse(c) \/ c # req[q].id \/ c \in raced
  PROVE  Checked(q)' /\ Counted(q)'
<1>1. q \in Requests /\ req'[q] = req[q] /\ Checked(q) /\ Counted(q)
  BY DEF Others, Becomes, TypeInv, RequestsOK, OverlapInv
<1>2. Checked(q)'
  BY <1>1 DEF Checked, At
<1>3. Counted(q)'
  BY <1>1 DEF Counted, At, InUse
<1> QED BY <1>2, <1>3

\* A step that leaves the listeners and their certificates where they are.
LEMMA ListenersKeptStep ==
  ASSUME TypeInv, OverlapInv, NEW p \in Requests, NEW r \in Request, Becomes(p, r),
         KeepsListeners, Ready(r), Continues(p, r), raced' = raced
  PROVE  OverlapInv'
<1>1. OnlyOverlapsLoseCertificates' /\ \A c : InUse(c)' => InUse(c)
  BY KeptListeners DEF OverlapInv
<1>2. RacesNoted'
  BY RacesStayNoted DEF OverlapInv
<1>3. \A q \in Others(p) : Checked(q)' /\ Counted(q)'
  BY <1>1, OthersStayReady DEF KeepsListeners
<1> QED BY <1>1, <1>2, <1>3, OverlapStep

\* The same of a request that is not, or no longer, about certificates.
LEMMA OtherRequestStep ==
  ASSUME TypeInv, OverlapInv, NEW p \in Requests, NEW r \in Request, Becomes(p, r),
         KeepsListeners, r.op \notin AboutCertificates, raced' = raced
  PROVE  OverlapInv'
BY ListenersKeptStep DEF Ready, Continues, AboutCertificates

LEMMA BeginKeepsOverlapInv ==
  ASSUME TypeInv, OverlapInv, NEW p \in Requests, NEW r \in Request, Begin(p, r),
         r.phase \in {"check", "count", "row"}, r.certs = r.todo
  PROVE  OverlapInv'
<1>1. Becomes(p, r) /\ UNCHANGED tables /\ raced \subseteq raced'
      /\ raced' = raced \cup {c \in Ids("certificates") :
                                \E a, d \in Requests : Races(req', a, d, c)}
  BY DEF Begin, Becomes
<1>2. KeepsListeners
  BY <1>1, OtherTablesKeepListeners DEF OverlapInv
<1>3. OnlyOverlapsLoseCertificates' /\ \A c : InUse(c)' => InUse(c)
  BY <1>1, <1>2, KeptListeners DEF OverlapInv
<1>4. RacesNoted'
  BY <1>1 DEF RacesNoted, Races
<1>5. Ready(r)
  BY DEF Ready
<1>6. \A q \in Others(p) : Checked(q)' /\ Counted(q)'
  BY <1>1, <1>2, <1>3, OthersStayReady DEF KeepsListeners
<1> QED BY <1>1, <1>3, <1>4, <1>5, <1>6, OverlapStep

LEMMA AcceptKeepsOverlapInv ==
  ASSUME TypeInv, OverlapInv, NEW p \in Requests, Accept(p)
  PROVE  OverlapInv'
<1>1. ASSUME NEW i \in Ids("applications") \cup {New}, NEW certs \in SUBSET Ids("certificates"),
             BeginSaveApplication(p, i, certs)
      PROVE  OverlapInv'
  <2> DEFINE r == [Idle EXCEPT !.op = "saveApplication", !.phase = "check", !.id = i,
                               !.certs = certs, !.todo = certs]
  <2>1. i \in Nat /\ certs \in SUBSET Nat
    BY KindsAre DEF New
  <2>2. r \in Request /\ r.phase = "check" /\ r.certs = r.todo
    BY <2>1 DEF Idle, Request, Writing
  <2>3. Begin(p, r)
    BY <1>1 DEF BeginSaveApplication
  <2> HIDE DEF r
  <2> QED BY <2>2, <2>3, BeginKeepsOverlapInv
<1>2. ASSUME NEW c \in Ids("certificates"), BeginDeleteCertificate(p, c)
      PROVE  OverlapInv'
  <2> DEFINE r == [Idle EXCEPT !.op = "deleteCertificate", !.phase = "count", !.id = c]
  <2>1. r \in Request /\ r.phase = "count" /\ r.certs = r.todo
    BY KindsAre DEF Idle, Request, Writing
  <2>2. Begin(p, r)
    BY <1>2 DEF BeginDeleteCertificate
  <2> HIDE DEF r
  <2> QED BY <2>1, <2>2, BeginKeepsOverlapInv
<1>3. ASSUME NEW i \in Ids("policies") \cup {New}, NEW apps \in Choices(Sites),
             NEW rules \in Choices(Ids("rules")), BeginSavePolicy(p, i, apps, rules)
      PROVE  OverlapInv'
  <2> DEFINE r == [Idle EXCEPT !.op = "savePolicy", !.phase = "check", !.id = i,
                               !.apps = apps, !.rules = rules]
  <2>1. i \in Nat /\ apps \in SUBSET Sites /\ rules \in SUBSET Ids("rules")
    BY KindsAre DEF New, Choices
  <2>2. r \in Request /\ r.phase = "check" /\ r.certs = r.todo
    BY <2>1 DEF Idle, Request, Writing
  <2>3. Begin(p, r)
    BY <1>3 DEF BeginSavePolicy
  <2> HIDE DEF r
  <2> QED BY <2>2, <2>3, BeginKeepsOverlapInv
<1>4. ASSUME NEW op \in {"deletePolicy", "deleteRule"}, NEW kind \in Kinds, NEW i \in Ids(kind),
             BeginDelete(p, op, kind, i)
      PROVE  OverlapInv'
  <2> DEFINE r == [Idle EXCEPT !.op = op, !.phase = "row", !.id = i]
  <2>1. i \in Nat
    BY KindsAre
  <2>2. r \in Request /\ r.phase = "row" /\ r.certs = r.todo
    BY <2>1 DEF Idle, Request, Writing
  <2>3. Begin(p, r)
    BY <1>4 DEF BeginDelete
  <2> HIDE DEF r
  <2> QED BY <2>2, <2>3, BeginKeepsOverlapInv
<1> QED BY <1>1, <1>2, <1>3, <1>4, KindsAre DEF Accept

LEMMA SaveApplicationKeepsOverlapInv ==
  ASSUME TypeInv, OverlapInv, NEW p \in Requests, SaveApplication(p)
  PROVE  OverlapInv'
<1>0. /\ req[p] \in Request /\ Idle \in Request /\ Idle.op \notin AboutCertificates
      /\ Checked(p) /\ OnlyOverlapsLoseCertificates /\ raced' = raced
  BY TablesFacts, IdleIsRequest, ServingIsAside DEF OverlapInv, Idle, AboutCertificates, Serve
<1>1. ASSUME NEW c \in req[p].todo, CheckCertificate(p, c)
      PROVE  OverlapInv'
  <2>1. UNCHANGED tables /\ KeepsListeners
    BY <1>0, <1>1, OtherTablesKeepListeners DEF CheckCertificate, Quiet
  <2>2. CASE Exists("certificates", c)
    <3> DEFINE r == [req[p] EXCEPT !.todo = @ \ {c}]
    <3>1. /\ r \in Request /\ r.op = "saveApplication" /\ r.certs = req[p].certs
          /\ r.todo = req[p].todo \ {c} /\ Continues(p, r)
      BY <1>0, <1>1 DEF Request, CheckCertificate, At, Continues
    <3>2. Becomes(p, r)
      BY <1>1, <2>2 DEF CheckCertificate, Becomes
    <3>3. r.certs \ r.todo \subseteq rows'["certificates"] \cup raced'
      <4>1. req[p].certs \ req[p].todo \subseteq rows["certificates"] \cup raced
        BY <1>0, <1>1 DEF Checked, CheckCertificate
      <4> HIDE DEF r
      <4> QED BY <1>0, <2>1, <2>2, <3>1, <4>1 DEF Exists, tables
    <3> HIDE DEF r
    <3>4. Ready(r)
      BY <3>1, <3>3 DEF Ready
    <3> QED BY <1>0, <2>1, <3>1, <3>2, <3>4, ListenersKeptStep
  <2>3. CASE ~Exists("certificates", c)
    BY <1>0, <1>1, <2>1, <2>3, OtherRequestStep DEF CheckCertificate, Becomes
  <2> QED BY <2>2, <2>3
<1>2. CASE WriteApplication(p)
  <2>1. Becomes(p, Idle) /\ At(p, "saveApplication", "check")
        /\ req[p].certs \subseteq rows["certificates"] \cup raced
    BY <1>0, <1>2 DEF WriteApplication, Checked, Becomes
  <2>2. CASE UNCHANGED tables
    BY <1>0, <2>1, <2>2, OtherTablesKeepListeners, OtherRequestStep
  <2>3. CASE PutApplication(Saved("applications", req[p].id), req[p].certs)
    <3>1. /\ OnlyOverlapsLoseCertificates' /\ rows'["certificates"] = rows["certificates"]
          /\ \A c : InUse(c)' => InUse(c) \/ c \in req[p].certs
      BY <1>0, <2>1, <2>3, PutApplicationKeepsOverlaps
    <3>2. Continues(p, Idle) /\ Ready(Idle)
      BY <1>0 DEF Continues, Ready, AboutCertificates
    <3>3. ASSUME NEW q \in Others(p), At(q, "deleteCertificate", "delete"),
                 req[q].id \in req[p].certs
          PROVE  req[q].id \in raced
      <4>1. Races(req, p, q, req[q].id)
        BY <2>1, <3>3 DEF Races, At
      <4>2. q \in Requests /\ req[q].id \in Ids("certificates")
        BY <1>0, <3>3 DEF Others, Request
      <4> QED BY <4>1, <4>2 DEF OverlapInv, RacesNoted
    <3>4. \A q \in Others(p) : Checked(q)' /\ Counted(q)'
      BY <1>0, <2>1, <3>1, <3>3, OthersStayReady
    <3>5. RacesNoted'
      BY <1>0, <2>1, <3>2, RacesStayNoted DEF OverlapInv
    <3> QED BY <1>0, <2>1, <3>1, <3>2, <3>4, <3>5, OverlapStep
  <2> QED BY <1>2, <2>2, <2>3 DEF WriteApplication
<1> QED BY <1>1, <1>2 DEF SaveApplication

LEMMA RemoveCertificateKeepsOverlapInv ==
  ASSUME TypeInv, OverlapInv, NEW p \in Requests, RemoveCertificate(p)
  PROVE  OverlapInv'
<1>0. /\ req[p] \in Request /\ Idle \in Request /\ Idle.op \notin AboutCertificates
      /\ Counted(p) /\ OnlyOverlapsLoseCertificates /\ raced' = raced
  BY TablesFacts, IdleIsRequest, ServingIsAside DEF OverlapInv, Idle, AboutCertificates, Serve
<1>1. CASE CountListeners(p)
  <2>1. UNCHANGED tables /\ KeepsListeners
    BY <1>0, <1>1, OtherTablesKeepListeners DEF CountListeners, Quiet
  <2>2. CASE InUse(req[p].id)
    BY <1>0, <1>1, <2>1, <2>2, OtherRequestStep DEF CountListeners, Becomes
  <2>3. CASE ~InUse(req[p].id)
    <3> PICK r : r = [req[p] EXCEPT !.phase = "delete"]
      OBVIOUS
    <3>1. r \in Request /\ r.op = "deleteCertificate" /\ r.id = req[p].id /\ Continues(p, r)
      BY <1>0, <1>1 DEF Request, CountListeners, At, Continues
    <3>2. Becomes(p, r)
      BY <1>1, <2>3 DEF CountListeners, Becomes
    <3>3. Ready(r)
      BY <2>1, <2>3, <3>1 DEF Ready, InUse, tables
    <3> QED BY <1>0, <2>1, <3>1, <3>2, <3>3, ListenersKeptStep
  <2> QED BY <2>2, <2>3
<1>2. CASE DeleteCertificate(p)
  <2> DEFINE c == req[p].id
  <2>1. /\ Becomes(p, Idle) /\ At(p, "deleteCertificate", "delete") /\ DropCertificate(c)
        /\ c \in raced \/ ~InUse(c)
    BY <1>0, <1>2 DEF DeleteCertificate, Counted, Becomes
  <2>2. /\ OnlyOverlapsLoseCertificates' /\ rows'["certificates"] = rows["certificates"] \ {c}
        /\ \A d : InUse(d)' => InUse(d)
    BY <1>0, <2>1, DropCertificateKeepsOverlaps
  <2>3. Continues(p, Idle) /\ Ready(Idle)
    BY <1>0 DEF Continues, Ready, AboutCertificates
  <2>4. ASSUME NEW q \in Others(p), At(q, "saveApplication", "check")
        PROVE  req[q].certs \cap rows["certificates"] \subseteq rows'["certificates"] \cup raced'
    <3>1. ASSUME c \in req[q].certs
          PROVE  c \in raced
      <4>1. Races(req, q, p, c)
        BY <2>1, <2>4, <3>1 DEF Races, At
      <4>2. q \in Requests /\ c \in Ids("certificates")
        BY <2>4, <3>1, TablesFacts DEF Others, Request
      <4> QED BY <4>1, <4>2 DEF OverlapInv, RacesNoted
    <3> QED BY <1>0, <2>2, <3>1
  <2>5. \A q \in Others(p) : Checked(q)' /\ Counted(q)'
    BY <1>0, <2>1, <2>2, <2>4, OthersStayReady
  <2>6. RacesNoted'
    BY <1>0, <2>1, <2>3, RacesStayNoted DEF OverlapInv
  <2> QED BY <1>0, <2>1, <2>2, <2>3, <2>5, <2>6, OverlapStep
<1> QED BY <1>1, <1>2 DEF RemoveCertificate

LEMMA ServeKeepsOverlapInv ==
  ASSUME TypeInv, OverlapInv, NEW p \in Requests,
         \/ SavePolicy(p) \/ RemovePolicy(p) \/ RemoveRule(p)
         \/ AbortDeadlocked(p) \/ RequestFails(p)
  PROVE  OverlapInv'
<1>0. /\ req[p] \in Request /\ Idle \in Request /\ Idle.op = "none"
      /\ OnlyOverlapsLoseCertificates /\ raced' = raced
      /\ UNCHANGED tables \/ UNCHANGED <<uses, rows>> => KeepsListeners
  BY TablesFacts, IdleIsRequest, ServingIsAside, OtherTablesKeepListeners
     DEF OverlapInv, Idle, Serve
<1>1. ASSUME NEW r \in Request, Becomes(p, r), KeepsListeners,
             r.op \in {"none", "savePolicy", "deletePolicy", "deleteRule"}
      PROVE  OverlapInv'
  BY <1>0, <1>1, OtherRequestStep DEF AboutCertificates
<1>2. CASE CheckReferences(p)
  <2> DEFINE r == IF Known(req[p].apps, req[p].rules) THEN [req[p] EXCEPT !.phase = "row"] ELSE Idle
  <2>1. r \in Request /\ r.op \in {"none", "savePolicy"}
    BY <1>0, <1>2 DEF Request, CheckReferences, At
  <2>2. Becomes(p, r) /\ UNCHANGED tables
    BY <1>2 DEF CheckReferences, Becomes, Quiet
  <2> HIDE DEF r
  <2> QED BY <1>0, <1>1, <2>1, <2>2
<1>3. CASE WritePolicyRow(p)
  <2> DEFINE i == Saved("policies", req[p].id)
             r == IF MaySave("policies", req[p].id)
                  THEN [req[p] EXCEPT !.phase = "unbind", !.id = i] ELSE Idle
  <2>1. MaySave("policies", req[p].id) => i \in Nat
    BY SavedId, TablesFacts DEF TypeInv
  <2>2. r \in Request /\ r.op \in {"none", "savePolicy"}
    BY <1>0, <1>3, <2>1 DEF Request, WritePolicyRow, At, Writing
  <2>3. Becomes(p, r) /\ UNCHANGED <<uses, rows>>
    BY <1>3 DEF WritePolicyRow, Becomes
  <2> HIDE DEF r
  <2> QED BY <1>0, <1>1, <2>2, <2>3
<1>4. CASE Unbind(p) \/ BindSites(p) \/ \E k \in req[p].todo : BindRule(p, k)
  <2>1. PICK r \in Request : Becomes(p, r) /\ UNCHANGED tables /\ r.op = "savePolicy"
    BY <1>4, LockingSteps
  <2> QED BY <1>0, <1>1, <2>1
<1>5. CASE CommitPolicy(p) \/ DeletePolicy(p) \/ DeleteRule(p)
  <2>1. Becomes(p, Idle)
    BY <1>5 DEF CommitPolicy, DeletePolicy, DeleteRule, Becomes
  <2>2. KeepsListeners
    BY <1>0, <1>5, OtherTablesKeepListeners DEF CommitPolicy, DeletePolicy, DeleteRule
  <2> QED BY <1>0, <1>1, <2>1, <2>2
<1>6. CASE AnswerConstraint(p) \/ AbortDeadlocked(p) \/ RequestFails(p)
  BY <1>0, <1>1, <1>6 DEF AnswerConstraint, AbortDeadlocked, RequestFails, Becomes, Quiet
<1>7. CASE LockPolicy(p) \/ LockRule(p)
  <2>1. PICK op \in {"deletePolicy", "deleteRule"}, kind \in Kinds : LockRow(p, op, kind)
    BY <1>7, KindsAre DEF LockPolicy, LockRule
  <2>2. PICK r \in Request : /\ Becomes(p, r) /\ UNCHANGED tables
                             /\ r = Idle \/ (r.op = op /\ r.phase = "cascade")
    BY <2>1, LockingSteps
  <2> QED BY <1>0, <1>1, <2>1, <2>2
<1> QED BY <1>2, <1>3, <1>4, <1>5, <1>6, <1>7 DEF SavePolicy, RemovePolicy, RemoveRule

LEMMA NothingToServe ==
  ASSUME NEW p \in Requests, req[p].phase = "idle"
  PROVE  ~Serve(p) /\ ~AbortDeadlocked(p) /\ ~RequestFails(p)
BY DEF Serve, SaveApplication, CheckCertificate, WriteApplication, RemoveCertificate,
   CountListeners, DeleteCertificate, SavePolicy, CheckReferences, WritePolicyRow, Unbind,
   BindSites, BindRule, CommitPolicy, AnswerConstraint, RemovePolicy, LockPolicy, LockRow,
   DeletePolicy, RemoveRule, LockRule, DeleteRule, At, AbortDeadlocked, Deadlocked,
   WaitForEachOther, WaitsFor, RequestFails

LEMMA AtomicInMemoryStep == AtomicInMemory /\ [Next]_vars => AtomicInMemory'
<1> SUFFICES ASSUME AtomicInMemory, [Next]_vars, backend = "memory"
             PROVE  \A p \in Requests : req'[p].phase = "idle"
  BY StoreStays DEF AtomicInMemory
<1>1. \A p \in Requests : req[p].phase = "idle"
  BY DEF AtomicInMemory
<1>2. \A p \in Requests : ~Accept(p) /\ ~Serve(p) /\ ~AbortDeadlocked(p) /\ ~RequestFails(p)
  BY <1>1, NothingToServe, AcceptedOnTheDatabase
<1>3. CASE Restart
  BY <1>3 DEF Restart, Idle
<1>4. CASE InMemory \/ (\E kind \in Kinds : Create(kind))
           \/ (\E i \in Ids("applications") : DeleteApplication(i)) \/ UNCHANGED vars
  BY <1>1, <1>4 DEF InMemory, Create, DeleteApplication, vars
<1> QED BY <1>2, <1>3, <1>4 DEF Next

\* The requests that overlap are counted where they begin, so whatever else happens in
\* one step, with the requests as they are, only has to keep the listeners.
LEMMA SameRequestsKeepOverlapInv ==
  ASSUME OverlapInv, KeepsListeners, req' = req, raced' = raced
  PROVE  OverlapInv'
<1>1. OnlyOverlapsLoseCertificates' /\ \A c : InUse(c)' => InUse(c)
  BY KeptListeners DEF OverlapInv
<1>2. RacesNoted'
  BY DEF OverlapInv, RacesNoted, Races
<1>3. \A p \in Requests : Checked(p)' /\ Counted(p)'
  BY <1>1 DEF OverlapInv, Checked, Counted, At, KeepsListeners
<1> QED BY <1>1, <1>2, <1>3 DEF OverlapInv

LEMMA IdleKeepsOverlapInv ==
  ASSUME OnlyOverlapsLoseCertificates', raced' = raced, \A p \in Requests : req'[p].phase = "idle",
         RacesNoted'
  PROVE  OverlapInv'
BY DEF OverlapInv, Checked, Counted, At

LEMMA InMemoryKeepsOverlapInv ==
  ASSUME TypeInv, OverlapInv, AtomicInMemory, InMemory
  PROVE  OverlapInv'
<1>0. /\ req' = req /\ raced' = raced /\ OnlyOverlapsLoseCertificates
      /\ \A p \in Requests : req'[p].phase = "idle"
  BY OtherStepsAreAside DEF InMemory, AtomicInMemory, OverlapInv
<1>1. RacesNoted'
  BY <1>0 DEF OverlapInv, RacesNoted, Races
<1>2. ASSUME NEW i, NEW certs \in SUBSET rows["certificates"], PutApplication(i, certs)
      PROVE  OnlyOverlapsLoseCertificates'
  BY <1>0, <1>2, PutApplicationKeepsOverlaps
<1>3. ASSUME NEW c, ~InUse(c), DropCertificate(c)
      PROVE  OnlyOverlapsLoseCertificates'
  BY <1>0, <1>3, DropCertificateKeepsOverlaps
<1>4. ASSUME NEW i, NEW apps, NEW rules, NEW old,
             PutPolicy(i, apps, rules, old) \/ DropPolicy(i) \/ DropRule(i)
      PROVE  OnlyOverlapsLoseCertificates'
  BY <1>0, <1>4, OtherTablesKeepListeners, KeptListeners
<1>5. OnlyOverlapsLoseCertificates'
  BY <1>2, <1>3, <1>4 DEF InMemory
<1> QED BY <1>0, <1>1, <1>5, IdleKeepsOverlapInv

LEMMA OverlapInvStep ==
  ASSUME TypeInv, OverlapInv, AtomicInMemory, [Next]_vars
  PROVE  OverlapInv'
<1>0. OnlyOverlapsLoseCertificates
  BY DEF OverlapInv
<1>1. ASSUME NEW p \in Requests, Accept(p) \/ Serve(p) \/ AbortDeadlocked(p) \/ RequestFails(p)
      PROVE  OverlapInv'
  BY <1>1, AcceptKeepsOverlapInv, SaveApplicationKeepsOverlapInv, RemoveCertificateKeepsOverlapInv,
     ServeKeepsOverlapInv DEF Serve
<1>2. ASSUME NEW kind \in Kinds, Create(kind)
      PROVE  OverlapInv'
  <2>1. KeepsListeners /\ req' = req /\ raced' = raced
    BY <1>0, <1>2, OtherTablesKeepListeners, OtherStepsAreAside DEF Create
  <2> QED BY <2>1, SameRequestsKeepOverlapInv
<1>3. ASSUME NEW i \in Ids("applications"), DeleteApplication(i)
      PROVE  OverlapInv'
  <2>1. KeepsListeners /\ req' = req /\ raced' = raced
    BY <1>0, <1>3, OtherTablesKeepListeners, OtherStepsAreAside DEF DeleteApplication
  <2> QED BY <2>1, SameRequestsKeepOverlapInv
<1>4. CASE InMemory
  BY <1>4, InMemoryKeepsOverlapInv
<1>5. CASE Restart
  <2>1. raced' = raced
    BY <1>5, OtherStepsAreAside
  <2>2. OnlyOverlapsLoseCertificates'
    <3>1. CASE backend = "memory"
      BY <1>5, <3>1 DEF Restart, OnlyOverlapsLoseCertificates
    <3>2. CASE backend # "memory"
      BY <1>0, <1>5, <2>1, <3>2, OtherTablesKeepListeners, KeptListeners DEF Restart
    <3> QED BY <3>1, <3>2
  <2>3. (\A p \in Requests : req'[p].phase = "idle") /\ RacesNoted'
    BY <1>5 DEF Restart, Idle, RacesNoted, Races
  <2> QED BY <2>1, <2>2, <2>3, IdleKeepsOverlapInv
<1>6. CASE UNCHANGED vars
  <2>1. KeepsListeners /\ req' = req /\ raced' = raced
    BY <1>0, <1>6, OtherTablesKeepListeners DEF vars, aside
  <2> QED BY <2>1, SameRequestsKeepOverlapInv
<1> QED BY <1>1, <1>2, <1>3, <1>4, <1>5, <1>6 DEF Next

LEMMA OverlapInvInit == Init => OverlapInv /\ AtomicInMemory
BY DEF Init, OverlapInv, AtomicInMemory, OnlyOverlapsLoseCertificates, RacesNoted, Races, Checked,
   Counted, At, Idle

\* On either store, and however many requests overlap, the certificate of an enabled https
\* listener is gone only if its deletion overlapped a save of an application that names it.
THEOREM OverlapsAreTheOnlyLoss == Spec => []OnlyOverlapsLoseCertificates
<1>1. Init => TypeInv /\ OverlapInv /\ AtomicInMemory
  BY TypeInvInit, OverlapInvInit
<1>2. TypeInv /\ OverlapInv /\ AtomicInMemory /\ [Next]_vars
        => (TypeInv /\ OverlapInv /\ AtomicInMemory)'
  BY TypeInvStep, OverlapInvStep, AtomicInMemoryStep
<1>3. OverlapInv => OnlyOverlapsLoseCertificates
  BY DEF OverlapInv
<1> QED BY <1>1, <1>2, <1>3, PTL DEF Spec

(***************************************************************************)
(* Where nothing overlaps: in memory, and on the database with one request *)
(* at a time of those that take several statements.                        *)
(***************************************************************************)
OneByOne == Backends = {"memory"} \/ \A p, q \in Requests : p = q

LEMMA NothingOverlaps ==
  ASSUME TypeInv, OneByOne, raced = {}, [Next]_vars
  PROVE  raced' = {}
<1>1. ASSUME NEW p \in Requests, Accept(p)
      PROVE  raced' = {}
  <2>1. \A a, d \in Requests : a = d
    BY <1>1, AcceptedOnTheDatabase DEF OneByOne, TypeInv, CountersOK
  <2>2. \A a, d \in Requests : \A c : ~Races(req', a, d, c)
    BY <2>1 DEF Races
  <2> QED BY <1>1, <2>2 DEF Accept, BeginSaveApplication, BeginDeleteCertificate,
          BeginSavePolicy, BeginDelete, Begin
<1> QED BY <1>1, ServingIsAside, OtherStepsAreAside DEF Next

\* With the in-memory store alone, and on the database while no two requests overlap, no
\* enabled https listener loses its certificate.
THEOREM ListenersKeepCertificates == OneByOne => (Spec => []CertificatesOfListenersExist)
<1> SUFFICES ASSUME OneByOne PROVE Spec => []CertificatesOfListenersExist
  OBVIOUS
<1>1. Init => TypeInv /\ OverlapInv /\ AtomicInMemory /\ raced = {}
  BY TypeInvInit, OverlapInvInit DEF Init
<1>2. TypeInv /\ OverlapInv /\ AtomicInMemory /\ raced = {} /\ [Next]_vars
        => (TypeInv /\ OverlapInv /\ AtomicInMemory /\ raced = {})'
  BY TypeInvStep, OverlapInvStep, AtomicInMemoryStep, NothingOverlaps
<1>3. OverlapInv /\ raced = {} => CertificatesOfListenersExist
  BY DEF OverlapInv, OnlyOverlapsLoseCertificates, CertificatesOfListenersExist
<1> QED BY <1>1, <1>2, <1>3, PTL DEF Spec
=============================================================================
