------------------------- MODULE RuleCommunityProofs -------------------------
(***************************************************************************)
(* What the rule community guarantees for any configurations, lists of     *)
(* packages, requests in flight and numbers of rules.                      *)
(***************************************************************************)
EXTENDS RuleCommunity, FiniteSetTheorems, WellFoundedInduction, TLAPS

-----------------------------------------------------------------------------
(***************************************************************************)
(* Types: of the feeds' rows, and of what each request has read.           *)
(***************************************************************************)
Statuses == {"never-synced", "synced", "failed", "disabled", "authorized"}
Healths == {"never-synced", "healthy", "failed", "disabled", "unauthorized", "stale", "authorized"}
Decisions == {"approved", "dismissed", "failed"}
Reviews == Decisions \cup {"queued"}
Lists == {"catalog", "provider"}

FeedRow ==
  {f \in [life : {"live", "deleted"}, source : {c.source : c \in Configurations},
          enabled : BOOLEAN, limit : 1 .. 10, status : Statuses, health : Healths,
          error : BOOLEAN, attempts : Nat, retry : BOOLEAN, exhausted : BOOLEAN] :
     Config(f) \in Configurations}

\* What a request read of a feed: the operations that read one.
Reading ==
  [op : {"edit", "sync"}, feed : {"catalog"}, item : FeedRow]
    \cup [op : {"validate", "sync", "retry"}, feed : {"provider"}, item : FeedRow]
    \cup [op : {"refresh"}, feed : {"account"}, item : FeedRow]
Deciding == [op : Decisions, feed : {"queue"}, item : Nat]
\* A rule of package c and the number it is installed under.
Row(c) == [name : DOMAIN c.rules, id : Nat]
ImportOf(c) ==
  [op : {"import"}, feed : {"rules"}, content : {c}, creates : SUBSET DOMAIN c.rules,
   updates : SUBSET Row(c), done : SUBSET Row(c), left : SUBSET Row(c),
   marks : Seq({"applied", "provider"})]
ImportRequest == UNION {ImportOf(c) : c \in Contents}
TestRequest == [op : {"test"}, feed : {"rules"}, id : RuleIds, rule : StoredRule]
DeleteRequest == [op : {"delete"}, feed : {"rules"}, todo : SUBSET RuleIds]
Request == {Idle} \cup Reading \cup Deciding \cup ImportRequest \cup TestRequest \cup DeleteRequest

\* A marked import is at one of its marks.
AtMark(q) == q \in ImportRequest /\ q.left # {} => q.marks # <<>>

FeedTypes ==
  /\ feed \in [Feeds -> FeedRow] /\ \A k \in Feeds : feed[k].attempts <= spent
  /\ listed \in [Lists -> Catalogs \cup {{}}]
  /\ queue \in Seq(Reviews)
  /\ wanted \in [Feeds -> Configurations]
  /\ failures \in Nat
  /\ raced = [k \in Feeds |-> raced[k]]

RequestTypes ==
  /\ requests \in [Requests -> Request]
  /\ \A r \in Requests : AtMark(requests[r])
  /\ \A r \in Requests : requests[r] \in Reading =>
        requests[r].item.life = "live" /\ requests[r].item.attempts < spent

PackageTypes ==
  /\ rules \in [RuleIds -> StoredRule \cup {None}]
  /\ next \in Nat \ {0} /\ RuleIn \subseteq 1 .. next - 1
  /\ mixed \in BOOLEAN /\ installed \in Contents \cup {None}

\* Every failure counted is that of a request which has ended.
Begun == {r \in Requests : requests[r] # Idle}
FailuresSpent ==
  /\ IsFiniteSet(Begun)
  /\ failures + Cardinality(Begun) <= spent

TypeInv ==
  /\ backend \in Backends /\ spent \in Nat /\ spent <= MaxOperations
  /\ FeedTypes /\ RequestTypes /\ PackageTypes /\ FailuresSpent

LEMMA ConfigurationsHaveFields ==
  ASSUME NEW c \in Configurations
  PROVE  Config(c) = c /\ c.enabled \in BOOLEAN /\ c.limit \in 1 .. 10
BY CatalogAssumption

LEMMA FreshRow ==
  ASSUME NEW c \in Configurations
  PROVE  Fresh(c) \in FeedRow /\ Fresh(c).attempts = 0 /\ Config(Fresh(c)) = c
<1> USE ConfigurationsHaveFields DEF Config
<1>1. Config(Fresh(c)) = c
  BY DEF Fresh
<1> QED BY <1>1 DEF Fresh, FeedRow, Statuses, Healths

\* A row written from another keeps a configuration; so does its state's.
LEMMA RowWritten ==
  ASSUME NEW f \in FeedRow, NEW g \in FeedRow
  PROVE  /\ WithConfig(f, g) \in FeedRow /\ WithConfig(f, g).attempts = f.attempts
         /\ Config(WithConfig(f, g)) = Config(g)
         /\ UpdatedProvider(f, g) \in FeedRow /\ UpdatedProvider(f, g).attempts = f.attempts
         /\ Config(UpdatedProvider(f, g)) = Config(g)
         /\ UpdatedProvider(f, g).retry = f.retry /\ UpdatedProvider(f, g).exhausted = f.exhausted
<1>1. WithConfig(f, g) \in FeedRow
  BY DEF WithConfig, FeedRow, Config
<1>2. UpdatedProvider(f, g) \in FeedRow
  BY DEF UpdatedProvider, FeedRow, Config
<1> QED BY <1>1, <1>2 DEF WithConfig, UpdatedProvider, FeedRow, Config

LEMMA RowSwitched ==
  ASSUME NEW f \in FeedRow, NEW c \in Configurations
  PROVE  /\ WithConfig(f, c) \in FeedRow /\ WithConfig(f, c).attempts = f.attempts
         /\ Config(WithConfig(f, c)) = c /\ WithConfig(f, c).life = f.life
<1> USE ConfigurationsHaveFields DEF Config
<1> QED BY DEF WithConfig, FeedRow

\* What a request makes of the row it read: the configuration and the life
\* stay, and mostly the attempts do.
SameConfig(f, g) == f \in FeedRow /\ Config(f) = Config(g) /\ f.life = g.life

SameAttempts(f, g) ==
  f.attempts = g.attempts /\ f.retry = g.retry /\ f.exhausted = g.exhausted

LEMMA RowsWorked ==
  ASSUME NEW f \in FeedRow
  PROVE  /\ SameConfig(Failed(f), f) /\ SameAttempts(Failed(f), f)
         /\ SameConfig(Disabled(f), f) /\ SameAttempts(Disabled(f), f)
         /\ SameConfig([Disabled(f) EXCEPT !.health = "disabled", !.error = TRUE], f)
         /\ SameAttempts([Disabled(f) EXCEPT !.health = "disabled", !.error = TRUE], f)
         /\ SameConfig([f EXCEPT !.status = "synced", !.error = FALSE], f)
         /\ SameAttempts([f EXCEPT !.status = "synced", !.error = FALSE], f)
         /\ SameConfig(ProviderSynced(f), f) /\ ProviderSynced(f).attempts = 0
         /\ ~ProviderSynced(f).retry /\ ~ProviderSynced(f).exhausted
         /\ SameConfig(RefreshedAccount(f), f) /\ SameAttempts(RefreshedAccount(f), f)
         /\ SameConfig(ValidateProviderCredentials(f), f)
<1> USE DEF SameConfig, SameAttempts, FeedRow, Config, Statuses, Healths
<1>1. SameConfig(Failed(f), f) /\ SameAttempts(Failed(f), f)
  BY DEF Failed
<1>2. SameConfig(Disabled(f), f) /\ SameAttempts(Disabled(f), f)
  BY DEF Disabled
<1>3. /\ SameConfig([Disabled(f) EXCEPT !.health = "disabled", !.error = TRUE], f)
      /\ SameAttempts([Disabled(f) EXCEPT !.health = "disabled", !.error = TRUE], f)
  BY DEF Disabled
<1>4. /\ SameConfig([f EXCEPT !.status = "synced", !.error = FALSE], f)
      /\ SameAttempts([f EXCEPT !.status = "synced", !.error = FALSE], f)
  OBVIOUS
<1>5. /\ SameConfig(ProviderSynced(f), f) /\ ProviderSynced(f).attempts = 0
      /\ ~ProviderSynced(f).retry /\ ~ProviderSynced(f).exhausted
  BY DEF ProviderSynced
<1>6. SameConfig(RefreshedAccount(f), f) /\ SameAttempts(RefreshedAccount(f), f)
  BY DEF RefreshedAccount, Failed, Disabled
<1>7. SameConfig(ValidateProviderCredentials(f), f)
  BY DEF ValidateProviderCredentials, Failed, Disabled
<1> QED BY <1>1, <1>2, <1>3, <1>4, <1>5, <1>6, <1>7

LEMMA RowFailed ==
  ASSUME NEW f \in FeedRow, NEW unauthorized \in BOOLEAN, NEW manual \in BOOLEAN
  PROVE  LET g == ProviderSyncFailure(f, unauthorized, manual) IN
         /\ SameConfig(g, f) /\ g.attempts > 0 /\ g.attempts <= f.attempts + 1
         /\ g.attempts <= f.attempts \/ manual \/ f.attempts = 0
         /\ g.retry \/ g.exhausted
<1> DEFINE n == IF manual THEN f.attempts + 1 ELSE IF f.attempts = 0 THEN 1 ELSE f.attempts
<1>1. n \in Nat /\ n > 0 /\ n <= f.attempts + 1 /\ (n <= f.attempts \/ manual \/ f.attempts = 0)
  BY DEF FeedRow
<1>2. f.limit \in 1 .. 10 /\ f.exhausted \in BOOLEAN
  BY DEF FeedRow
<1> DEFINE g == [Failed(f) EXCEPT !.health = IF unauthorized THEN "unauthorized" ELSE "failed",
                                  !.attempts = n, !.retry = ~(n >= f.limit),
                                  !.exhausted = n >= f.limit \/ f.exhausted]
<1>3. ProviderSyncFailure(f, unauthorized, manual) = g
  BY DEF ProviderSyncFailure
<1> HIDE DEF n
<1>4. g \in FeedRow
  BY <1>1, <1>2 DEF FeedRow, Config, Failed, Statuses, Healths
<1>5. /\ Config(g) = Config(f) /\ g.life = f.life /\ g.attempts = n
      /\ g.retry \/ g.exhausted
  BY <1>1, <1>2 DEF FeedRow, Config, Failed
<1> QED BY <1>1, <1>3, <1>4, <1>5 DEF SameConfig

-----------------------------------------------------------------------------
(***************************************************************************)
(* Edits.  A request that will write back what it read of a feed read what *)
(* the administrator last saved, unless another wrote the feed since.      *)
(***************************************************************************)
EditsInv ==
  \A k \in Feeds : raced[k] \cap WritesBack(k) = {} =>
    /\ Config(feed[k]) = wanted[k]
    /\ \A r \in Of(k) : requests[r].op \in WritesBack(k) => Config(requests[r].item) = wanted[k]

-----------------------------------------------------------------------------
(***************************************************************************)
(* Retries.  What a request left alone read of the provider's attempts is  *)
(* what the provider still holds.                                          *)
(***************************************************************************)
Counted(p, n) ==
  /\ p.attempts <= n
  /\ p.attempts > 0 <=> p.retry \/ p.exhausted
  /\ backend = "memory" /\ n > 0 => p.attempts > 0

RetriesInv ==
  Live("provider") /\ raced["provider"] = {} =>
    /\ Counted(feed["provider"], failures)
    /\ \A r \in Of("provider") : SameAttempts(requests[r].item, feed["provider"])

-----------------------------------------------------------------------------
(***************************************************************************)
(* Imports.  While requests that write rules come one at a time, no two    *)
(* rules have one origin, and what an import read of them is still so but  *)
(* for what it has written itself.                                         *)
(***************************************************************************)
From(c, i, id) == id \in RuleIn /\ Origin(rules[id]) = <<c.package, i>>
\* Rule i of the package is installed under number id.
Installed(c, i, id) ==
  From(c, i, id) /\ rules[id].version = c.version /\ rules[id].sum = c.rules[i].sum

OneWriter == \A r, s \in Writing : r = s
OneRulePerOrigin == \A x, y \in RuleIn : Origin(rules[x]) = Origin(rules[y]) => x = y

ImportSound(q) ==
  LET c == q.content IN
  /\ \A i \in q.creates : i \in DOMAIN c.rules /\ \A id \in RuleIds : ~From(c, i, id)
  /\ \A u \in q.updates :
        /\ u.name \in DOMAIN c.rules /\ From(c, u.name, u.id)
        /\ ~Installed(c, u.name, u.id)
  /\ \A d \in q.done :
        /\ d.name \in DOMAIN c.rules /\ Installed(c, d.name, d.id)
        /\ rules[d.id].enabled = c.rules[d.name].enabled
  /\ q.left \subseteq q.done
  /\ \A i \in DOMAIN c.rules :
        \/ i \in q.creates \/ \E u \in q.updates : u.name = i
        \/ \E id \in RuleIds : Installed(c, i, id)

WriterSound(q) ==
  /\ q.op = "import" => ImportSound(q)
  /\ q.op = "test" => rules[q.id] = q.rule

AloneInv ==
  ~mixed => /\ OneWriter /\ OneRulePerOrigin
            /\ \A r \in Writing : WriterSound(requests[r])

\* The package a last import completed is installed, each rule of it once.
InstalledOnce(c) ==
  \A i \in DOMAIN c.rules :
    \E id \in RuleIds : Installed(c, i, id) /\ \A x \in RuleIds : From(c, i, x) => x = id
\* A test that read a rule before will write it back as the same one.
SameRule(a, b) == Origin(a) = Origin(b) /\ a.version = b.version /\ a.sum = b.sum
InstalledInv ==
  installed # None =>
    /\ InstalledOnce(installed)
    /\ \A r \in Requests :
          requests[r].op = "test" /\ rules[requests[r].id] # None
            => SameRule(rules[requests[r].id], requests[r].rule)

-----------------------------------------------------------------------------
(***************************************************************************)
(* The least and the greatest of a set of numbers, and the element of a    *)
(* set that comes first in the order of one of its fields.                 *)
(***************************************************************************)
LEMMA LeastExists ==
  ASSUME NEW S \in SUBSET Nat, S # {}
  PROVE  \E x \in S : \A y \in S : x <= y
<1> DEFINE R == {ss \in Nat \X Nat : ss[1] < ss[2]}
<1>1. IsWellFoundedOn(R, Nat)
  BY NatLessThanWellFounded, Zenon DEF OpToRel
<1>2. \A x, y \in Nat : y < x => <<y, x>> \in R
  OBVIOUS
<1> HIDE DEF R
<1>3. PICK x \in S : \A y \in S : <<y, x>> \notin R
  BY <1>1, WFMin
<1>4. \A y \in S : ~(y < x) /\ y \in Nat /\ x \in Nat
  BY <1>2, <1>3
<1>5. \A y \in S : x <= y
  BY <1>4
<1> QED BY <1>5

LEMMA SmallestIsLeast ==
  ASSUME NEW S \in SUBSET Nat, S # {}
  PROVE  Smallest(S) \in S
BY LeastExists DEF Smallest

LEMMA GreatestExists ==
  ASSUME NEW S \in SUBSET Nat, S # {}, NEW n \in Nat, \A x \in S : x <= n
  PROVE  \E x \in S : \A y \in S : x >= y
<1> DEFINE T == {n - x : x \in S}
<1>1. T \in SUBSET Nat /\ T # {}
  <2>1. \A x \in S : n - x \in Nat
    OBVIOUS
  <2> QED BY <2>1
<1>2. PICK t \in T : \A u \in T : t <= u
  BY <1>1, LeastExists
<1>3. PICK x \in S : t = n - x
  BY <1>2
<1>4. \A y \in S : n - x <= n - y
  BY <1>2, <1>3
<1> QED BY <1>4

LEMMA FirstByName ==
  ASSUME NEW c \in Contents, NEW T \in SUBSET Row(c), T # {}
  PROVE  (CHOOSE x \in T : \A y \in T : x.name <= y.name) \in T
<1> DEFINE S == {x.name : x \in T}
<1>1. S \in SUBSET Nat /\ S # {}
  BY ContentAssumption DEF Row
<1>2. PICK s \in S : \A t \in S : s <= t
  BY <1>1, LeastExists
<1>3. PICK x \in T : x.name = s
  BY <1>2
<1>4. \A y \in T : x.name <= y.name
  BY <1>2, <1>3
<1> QED BY <1>4

LEMMA FirstById ==
  ASSUME NEW c \in Contents, NEW T \in SUBSET Row(c), T # {}
  PROVE  (CHOOSE x \in T : \A y \in T : x.id <= y.id) \in T
<1> DEFINE S == {x.id : x \in T}
<1>1. S \in SUBSET Nat /\ S # {}
  BY DEF Row
<1>2. PICK s \in S : \A t \in S : s <= t
  BY <1>1, LeastExists
<1>3. PICK x \in T : x.id = s
  BY <1>2
<1>4. \A y \in T : x.id <= y.id
  BY <1>2, <1>3
<1> QED BY <1>4

-----------------------------------------------------------------------------
(***************************************************************************)
(* The rules of a package.                                                 *)
(***************************************************************************)
LEMMA PackagedType ==
  ASSUME NEW c \in Contents, NEW i \in DOMAIN c.rules
  PROVE  Packaged(c, i) \in StoredRule
BY ContentAssumption DEF Packaged, StoredRule

LEMMA MarkedType ==
  ASSUME NEW rule \in StoredRule, NEW mark
  PROVE  /\ Marked(rule, mark) \in StoredRule /\ SameRule(Marked(rule, mark), rule)
         /\ Marked(rule, mark).enabled = rule.enabled
BY DEF Marked, StoredRule, SameRule, Origin

LEMMA StoredRules ==
  ASSUME PackageTypes
  PROVE  /\ \A id \in RuleIn : rules[id] \in StoredRule /\ id \in RuleIds /\ id \in 1 .. next - 1
         /\ \A id \in RuleIds : rules[id] # None => id \in RuleIn
BY DEF PackageTypes, RuleIn

\* rulesByOrigin finds a rule of the origin, if there is one.
LEMMA InstalledOfType ==
  ASSUME PackageTypes, NEW c, NEW i
  PROVE  /\ InstalledOf(c, i) \in Nat
         /\ InstalledOf(c, i) = 0 => \A id \in RuleIds : ~From(c, i, id)
         /\ InstalledOf(c, i) # 0 => From(c, i, InstalledOf(c, i))
<1> DEFINE same == {id \in RuleIn : Origin(rules[id]) = <<c.package, i>>}
<1>1. same \in SUBSET Nat /\ \A x \in same : x <= next - 1 /\ x > 0
  <2>1. \A x \in same : x \in 1 .. next - 1
    BY StoredRules
  <2>2. next \in Nat
    BY DEF PackageTypes
  <2> HIDE DEF same
  <2> QED BY <2>1, <2>2
<1>2. next - 1 \in Nat
  BY DEF PackageTypes
<1>3. CASE same = {}
  <2>1. InstalledOf(c, i) = 0
    BY <1>3 DEF InstalledOf
  <2> QED BY <1>3, <2>1 DEF From
<1>4. CASE same # {}
  <2>1. \E x \in same : \A y \in same : x >= y
    BY <1>1, <1>2, <1>4, GreatestExists
  <2>2. InstalledOf(c, i) = CHOOSE x \in same : \A y \in same : x >= y
    BY <1>4 DEF InstalledOf
  <2>3. InstalledOf(c, i) \in same
    BY <2>1, <2>2
  <2> HIDE DEF same
  <2>5. \A x \in same : x \in Nat /\ x > 0
    BY <1>1
  <2>4. InstalledOf(c, i) \in Nat /\ InstalledOf(c, i) # 0
    BY <2>3, <2>5
  <2> USE DEF same
  <2> QED BY <2>3, <2>4 DEF From
<1> QED BY <1>3, <1>4

-----------------------------------------------------------------------------
(***************************************************************************)
(* Every step keeps the types.                                             *)
(***************************************************************************)
Operations(k) == CASE k = "catalog" -> {"edit", "sync"}
                   [] k = "provider" -> {"validate", "sync", "retry"}
                   [] k = "account" -> {"refresh"}

\* What a request is doing tells what it holds.
LEMMA ReadingHolds ==
  ASSUME NEW q \in Reading
  PROVE  /\ q.feed \in Feeds /\ q.op \in Operations(q.feed) /\ q.item \in FeedRow
         /\ q.op \in {"edit", "sync", "validate", "retry", "refresh"}
<1>1. CASE q \in [op : {"edit", "sync"}, feed : {"catalog"}, item : FeedRow]
  <2>1. q.op \in {"edit", "sync"} /\ q.feed = "catalog" /\ q.item \in FeedRow
    BY <1>1
  <2> QED BY <2>1 DEF Operations, Feeds
<1>2. CASE q \in [op : {"validate", "sync", "retry"}, feed : {"provider"}, item : FeedRow]
  <2>1. q.op \in {"validate", "sync", "retry"} /\ q.feed = "provider" /\ q.item \in FeedRow
    BY <1>2
  <2> QED BY <2>1 DEF Operations, Feeds
<1>3. CASE q \in [op : {"refresh"}, feed : {"account"}, item : FeedRow]
  <2>1. q.op = "refresh" /\ q.feed = "account" /\ q.item \in FeedRow
    BY <1>3
  <2> QED BY <2>1 DEF Operations, Feeds
<1> QED BY <1>1, <1>2, <1>3 DEF Reading

LEMMA OthersHold ==
  /\ Idle.op = "idle"
  /\ \A q \in Deciding : q.op \in Decisions /\ q.feed = "queue" /\ q.item \in Nat
  /\ \A q \in ImportRequest : q.op = "import" /\ q.feed = "rules"
  /\ \A q \in TestRequest :
        q.op = "test" /\ q.feed = "rules" /\ q.id \in RuleIds /\ q.rule \in StoredRule
  /\ \A q \in DeleteRequest : q.op = "delete" /\ q.feed = "rules" /\ q.todo \in SUBSET RuleIds
<1>1. \A q \in ImportRequest : q.op = "import" /\ q.feed = "rules"
  BY DEF ImportRequest, ImportOf
<1> QED BY <1>1 DEF Idle, Deciding, TestRequest, DeleteRequest

LEMMA RequestOps ==
  ASSUME NEW q \in Request
  PROVE  /\ q = Idle <=> q.op = "idle"
         /\ q \in Reading <=> q.op \in {"edit", "sync", "validate", "retry", "refresh"}
         /\ q \in Deciding <=> q.op \in Decisions
         /\ q \in ImportRequest <=> q.op = "import"
         /\ q \in TestRequest <=> q.op = "test"
         /\ q \in DeleteRequest <=> q.op = "delete"
         /\ q # Idle /\ q.feed \in Feeds => q \in Reading
         /\ q # Idle /\ q.feed = "rules" => q.op \in {"import", "test", "delete"}
<1> USE ReadingHolds, OthersHold
<1>1. CASE q = Idle
  BY <1>1 DEF Decisions
<1>2. CASE q \in Reading
  BY <1>2 DEF Decisions, Feeds
<1>3. CASE q \in Deciding
  BY <1>3 DEF Decisions, Feeds
<1>4. CASE q \in ImportRequest
  BY <1>4 DEF Decisions, Feeds
<1>5. CASE q \in TestRequest
  BY <1>5 DEF Decisions, Feeds
<1>6. CASE q \in DeleteRequest
  BY <1>6 DEF Decisions, Feeds
<1> QED BY <1>1, <1>2, <1>3, <1>4, <1>5, <1>6 DEF Request

LEMMA ImportHolds ==
  ASSUME NEW q \in ImportRequest
  PROVE  /\ q.content \in Contents /\ q \in ImportOf(q.content)
         /\ q.creates \in SUBSET DOMAIN q.content.rules /\ q.creates \in SUBSET Nat
         /\ q.updates \in SUBSET Row(q.content) /\ q.done \in SUBSET Row(q.content)
         /\ q.left \in SUBSET Row(q.content)
<1>1. PICK c \in Contents : q \in ImportOf(c)
  BY DEF ImportRequest
<1>2. q.content = c /\ q.creates \in SUBSET DOMAIN c.rules
  BY <1>1 DEF ImportOf
<1>3. q.updates \in SUBSET Row(c) /\ q.done \in SUBSET Row(c) /\ q.left \in SUBSET Row(c)
  BY <1>1 DEF ImportOf
<1>4. DOMAIN c.rules \in SUBSET Nat
  BY ContentAssumption
<1> QED BY <1>1, <1>2, <1>3, <1>4

LEMMA BegunChanges ==
  ASSUME requests \in [Requests -> Request], IsFiniteSet(Begun), NEW r \in Requests, NEW q,
         requests' = [requests EXCEPT ![r] = q]
  PROVE  /\ IsFiniteSet(Begun') /\ Cardinality(Begun) \in Nat /\ Cardinality(Begun') \in Nat
         /\ q # Idle => Cardinality(Begun') =
                          Cardinality(Begun) + IF requests[r] = Idle THEN 1 ELSE 0
         /\ q = Idle => Cardinality(Begun') =
                          Cardinality(Begun) - IF requests[r] = Idle THEN 0 ELSE 1
<1>1. CASE q # Idle
  <2>1. Begun' = Begun \cup {r}
    BY <1>1 DEF Begun
  <2>2. r \in Begun <=> requests[r] # Idle
    BY DEF Begun
  <2> QED BY <1>1, <2>1, <2>2, FS_AddElement, FS_CardinalityType
<1>2. CASE q = Idle
  <2>1. Begun' = Begun \ {r}
    BY <1>2 DEF Begun
  <2>2. r \in Begun <=> requests[r] # Idle
    BY DEF Begun
  <2> QED BY <1>2, <2>1, <2>2, FS_RemoveElement, FS_CardinalityType
<1> QED BY <1>1, <1>2

\* The types of the requests after one of them begins, goes on or ends.
LEMMA RequestChanges ==
  ASSUME TypeInv, NEW r \in Requests, NEW q \in Request, AtMark(q),
         spent' \in Nat, spent <= spent',
         q \in Reading => q.item.life = "live" /\ q.item.attempts < spent',
         requests' = [requests EXCEPT ![r] = q]
  PROVE  RequestTypes'
<1>1. requests' \in [Requests -> Request]
  BY DEF TypeInv, RequestTypes
<1>2. ASSUME NEW s \in Requests PROVE AtMark(requests'[s])
  BY DEF TypeInv, RequestTypes
<1>3. ASSUME NEW s \in Requests, requests'[s] \in Reading
      PROVE  requests'[s].item.life = "live" /\ requests'[s].item.attempts < spent'
  <2>1. CASE s = r
    BY <2>1, <1>3 DEF TypeInv, RequestTypes
  <2>2. CASE s # r
    <3>1. requests[s] \in Reading /\ requests'[s] = requests[s]
      BY <2>2, <1>3 DEF TypeInv, RequestTypes
    <3>2. requests[s].item.life = "live" /\ requests[s].item.attempts < spent
      BY <3>1 DEF TypeInv, RequestTypes
    <3>3. requests[s].item.attempts \in Nat
      BY <3>1 DEF Reading, FeedRow
    <3> QED BY <3>1, <3>2, <3>3 DEF TypeInv
  <2> QED BY <2>1, <2>2
<1> QED BY <1>1, <1>2, <1>3 DEF RequestTypes

LEMMA IdleRequest == Idle \in Request /\ AtMark(Idle) /\ Idle \notin Reading
<1>1. Idle \in Request
  BY DEF Request
<1>2. Idle \notin ImportRequest /\ Idle \notin Reading
  BY <1>1, RequestOps, OthersHold
<1> QED BY <1>1, <1>2 DEF AtMark

LEMMA OthersAreNoImports ==
  ASSUME NEW q \in Reading \cup Deciding \cup TestRequest \cup DeleteRequest
  PROVE  AtMark(q)
<1>1. q \in Request
  BY DEF Request
<1>2. q.op # "import"
  BY ReadingHolds, OthersHold DEF Decisions
<1> QED BY <1>1, <1>2, RequestOps DEF AtMark

\* A write of a row, or of none because the feed is gone.
LEMMA WriteTypes ==
  ASSUME TypeInv, NEW k \in Feeds, NEW f \in FeedRow, NEW r, Write(k, f, r),
         spent' \in Nat, spent <= spent', f.attempts <= spent'
  PROVE  /\ feed' \in [Feeds -> FeedRow] /\ \A j \in Feeds : feed'[j].attempts <= spent'
         /\ raced' = [j \in Feeds |-> raced'[j]]
<1> DEFINE g == IF feed[k].life = "live" THEN [f EXCEPT !.life = "live"] ELSE feed[k]
<1>1. feed \in [Feeds -> FeedRow] /\ \A j \in Feeds : feed[j].attempts <= spent /\ feed[j].attempts \in Nat
  <2>1. feed \in [Feeds -> FeedRow] /\ \A j \in Feeds : feed[j].attempts <= spent
    BY DEF TypeInv, FeedTypes
  <2> QED BY <2>1 DEF FeedRow
<1>2. g \in FeedRow /\ g.attempts <= spent'
  <2>1. [f EXCEPT !.life = "live"] \in FeedRow /\ [f EXCEPT !.life = "live"].attempts = f.attempts
    BY DEF FeedRow, Config
  <2> QED BY <1>1, <2>1 DEF TypeInv
<1>3. feed' = [feed EXCEPT ![k] = g]
  BY DEF Write
<1>4. raced' = [raced EXCEPT ![k] = @ \cup {requests[q].op : q \in Of(k) \ {r}}]
  BY DEF Write, Overtake
<1>5. raced = [j \in Feeds |-> raced[j]]
  BY DEF TypeInv, FeedTypes
<1>6. raced' = [j \in Feeds |-> raced'[j]]
  BY <1>4, <1>5
<1> HIDE DEF g
<1>7. \A j \in Feeds : feed'[j].attempts <= spent'
  BY <1>1, <1>2, <1>3 DEF TypeInv
<1>8. feed' \in [Feeds -> FeedRow]
  BY <1>1, <1>2, <1>3
<1> QED BY <1>6, <1>7, <1>8

\* A request that begins to read a feed, or a recommendation.
LEMMA StartTypes ==
  ASSUME TypeInv, backend' = backend, UNCHANGED packageVars, NEW r \in Requests,
         NEW k, NEW op, NEW item, Start(r, k, op, item),
         [op |-> op, feed |-> k, item |-> item] \in Reading \cup Deciding,
         [op |-> op, feed |-> k, item |-> item] \in Reading
           => item.life = "live" /\ item.attempts <= spent /\ item.attempts \in Nat
  PROVE  TypeInv'
<1> DEFINE q == [op |-> op, feed |-> k, item |-> item]
<1>1. /\ requests' = [requests EXCEPT ![r] = q] /\ requests[r] = Idle
      /\ spent < MaxOperations /\ spent' = spent + 1 /\ UNCHANGED catalogVars
  BY DEF Start
<1>2. spent \in Nat /\ spent <= MaxOperations /\ backend \in Backends /\ MaxOperations \in Nat
  BY CatalogAssumption DEF TypeInv
<1>3. spent' \in Nat /\ spent <= spent' /\ spent' <= MaxOperations
  BY <1>1, <1>2
<1>4. q \in Request /\ AtMark(q)
  BY OthersAreNoImports DEF Request
<1>5. q \in Reading => q.item.life = "live" /\ q.item.attempts < spent'
  BY <1>1, <1>2
<1>6. q # Idle
  <2>1. q.op \in {"edit", "sync", "validate", "retry", "refresh"} \cup Decisions
    BY ReadingHolds, OthersHold
  <2> QED BY <2>1, OthersHold DEF Decisions
<1> HIDE DEF q
<1>7. RequestTypes'
  BY <1>1, <1>3, <1>4, <1>5, RequestChanges
<1>8. FailuresSpent'
  <2>1. requests \in [Requests -> Request] /\ IsFiniteSet(Begun)
    BY DEF TypeInv, RequestTypes, FailuresSpent
  <2>2. /\ IsFiniteSet(Begun') /\ Cardinality(Begun) \in Nat
        /\ Cardinality(Begun') = Cardinality(Begun) + 1
    BY <1>1, <1>6, <2>1, BegunChanges
  <2>3. failures \in Nat /\ failures + Cardinality(Begun) <= spent
    BY DEF TypeInv, FeedTypes, FailuresSpent
  <2>4. failures' = failures
    BY <1>1 DEF catalogVars
  <2> QED BY <1>1, <1>2, <2>2, <2>3, <2>4 DEF FailuresSpent
<1>9. FeedTypes'
  <2>1. \A j \in Feeds : feed[j].attempts <= spent /\ feed[j].attempts \in Nat
    <3>1. feed \in [Feeds -> FeedRow] /\ \A j \in Feeds : feed[j].attempts <= spent
      BY DEF TypeInv, FeedTypes
    <3> QED BY <3>1 DEF FeedRow
  <2>2. \A j \in Feeds : feed[j].attempts <= spent'
    BY <1>2, <1>3, <2>1
  <2> QED BY <1>1, <2>2 DEF TypeInv, FeedTypes, catalogVars
<1>10. PackageTypes'
  BY DEF TypeInv, PackageTypes, packageVars, RuleIn
<1> QED BY <1>2, <1>3, <1>7, <1>8, <1>9, <1>10 DEF TypeInv

\* A request that ends with what it read, having written a feed or not.
LEMMA EndTypes ==
  ASSUME TypeInv, backend' = backend, spent' = spent, UNCHANGED packageVars,
         NEW r \in Requests, requests[r] # Idle, End(r),
         feed' \in [Feeds -> FeedRow], \A k \in Feeds : feed'[k].attempts <= spent',
         raced' = [k \in Feeds |-> raced'[k]], listed' \in [Lists -> Catalogs \cup {{}}],
         queue' \in Seq(Reviews), wanted' \in [Feeds -> Configurations],
         failures' \in Nat, failures' <= failures + 1
  PROVE  TypeInv'
<1>1. requests' = [requests EXCEPT ![r] = Idle]
  BY DEF End
<1>2. spent \in Nat /\ spent <= MaxOperations /\ backend \in Backends
  BY DEF TypeInv
<1>3. RequestTypes'
  <2>1. spent' \in Nat /\ spent <= spent'
    BY <1>2
  <2> QED BY <1>1, <2>1, IdleRequest, RequestChanges
<1>4. FailuresSpent'
  <2>1. requests \in [Requests -> Request] /\ IsFiniteSet(Begun)
    BY DEF TypeInv, RequestTypes, FailuresSpent
  <2>2. /\ IsFiniteSet(Begun') /\ Cardinality(Begun) \in Nat
        /\ Cardinality(Begun') = Cardinality(Begun) - 1
    BY <1>1, <2>1, BegunChanges
  <2>3. failures \in Nat /\ failures + Cardinality(Begun) <= spent
    BY DEF TypeInv, FeedTypes, FailuresSpent
  <2>4. failures' + Cardinality(Begun') <= spent'
    BY <1>2, <2>2, <2>3
  <2> QED BY <2>2, <2>4 DEF FailuresSpent
<1>5. PackageTypes'
  BY DEF TypeInv, PackageTypes, packageVars, RuleIn
<1> QED BY <1>2, <1>3, <1>4, <1>5 DEF TypeInv, FeedTypes

\* An edit or a deletion made in one step.
LEMMA OnceTypes ==
  ASSUME TypeInv, backend' = backend, UNCHANGED packageVars, Once, failures' = failures,
         feed' \in [Feeds -> FeedRow], \A k \in Feeds : feed'[k].attempts <= spent',
         raced' = [k \in Feeds |-> raced'[k]], listed' \in [Lists -> Catalogs \cup {{}}],
         queue' = queue, wanted' \in [Feeds -> Configurations]
  PROVE  TypeInv'
<1>1. /\ spent \in Nat /\ spent <= MaxOperations /\ backend \in Backends /\ MaxOperations \in Nat
      /\ spent < MaxOperations /\ spent' = spent + 1 /\ requests' = requests
  BY CatalogAssumption DEF TypeInv, Once
<1>2. RequestTypes'
  <2>1. ASSUME NEW r \in Requests, requests[r] \in Reading
        PROVE  requests[r].item.attempts \in Nat
    BY <2>1, ReadingHolds DEF FeedRow
  <2>2. \A r \in Requests : requests[r] \in Reading
           => requests[r].item.life = "live" /\ requests[r].item.attempts < spent'
    BY <1>1, <2>1 DEF TypeInv, RequestTypes
  <2> QED BY <1>1, <2>2 DEF TypeInv, RequestTypes
<1>3. FailuresSpent'
  <2>1. IsFiniteSet(Begun) /\ Begun' = Begun
    BY <1>1 DEF TypeInv, FailuresSpent, Begun
  <2>2. Cardinality(Begun) \in Nat
    BY <2>1, FS_CardinalityType
  <2>3. failures \in Nat /\ failures + Cardinality(Begun) <= spent
    BY DEF TypeInv, FeedTypes, FailuresSpent
  <2> QED BY <1>1, <2>1, <2>2, <2>3 DEF FailuresSpent
<1>4. PackageTypes'
  BY DEF TypeInv, PackageTypes, packageVars, RuleIn
<1> QED BY <1>1, <1>2, <1>3, <1>4 DEF TypeInv, FeedTypes

\* What a live feed holds may begin a request that works on it.
LEMMA ReadingTypes ==
  ASSUME TypeInv, backend' = backend, UNCHANGED packageVars, NEW r \in Requests, NEW k \in Feeds,
         Live(k), NEW op \in Operations(k), NEW f \in FeedRow, f.life = feed[k].life,
         f.attempts = feed[k].attempts, Start(r, k, op, f)
  PROVE  TypeInv'
<1>1. [op |-> op, feed |-> k, item |-> f] \in Reading
  BY DEF Operations, Reading, Feeds
<1>2. f.life = "live"
  BY DEF Live
<1>3. f.attempts <= spent /\ f.attempts \in Nat
  BY DEF TypeInv, FeedTypes, FeedRow
<1> QED BY <1>1, <1>2, <1>3, StartTypes

LEMMA FeedTypeFacts ==
  ASSUME TypeInv
  PROVE  /\ \A k \in Feeds : feed[k] \in FeedRow /\ feed[k].attempts <= spent
         /\ feed \in [Feeds -> FeedRow] /\ raced = [k \in Feeds |-> raced[k]]
         /\ listed \in [Lists -> Catalogs \cup {{}}] /\ queue \in Seq(Reviews)
         /\ wanted \in [Feeds -> Configurations]
         /\ spent \in Nat /\ failures \in Nat /\ failures <= failures + 1
         /\ \A r \in Requests : requests[r] \in Request
         /\ \A r \in Requests : requests[r] \in Reading => requests[r].item.attempts < spent
<1>1. /\ feed \in [Feeds -> FeedRow] /\ raced = [k \in Feeds |-> raced[k]]
      /\ listed \in [Lists -> Catalogs \cup {{}}] /\ queue \in Seq(Reviews)
      /\ wanted \in [Feeds -> Configurations] /\ failures \in Nat /\ spent \in Nat
      /\ \A k \in Feeds : feed[k].attempts <= spent
  BY DEF TypeInv, FeedTypes
<1>2. failures <= failures + 1
  BY <1>1
<1> QED BY <1>1, <1>2 DEF TypeInv, RequestTypes

LEMMA CatalogTypes ==
  ASSUME TypeInv, backend' = backend, UNCHANGED packageVars, NEW r \in Requests
  PROVE  /\ \A c \in Configurations : UpdateRuleCatalog(r, c) => TypeInv'
         /\ EndCatalogUpdate(r) => TypeInv'
         /\ SyncRuleCatalog(r) => TypeInv'
         /\ EndCatalogSync(r) => TypeInv'
<1> DEFINE item == requests[r].item
<1>0. "catalog" \in Feeds /\ "catalog" \in Lists /\ {"edit", "sync"} = Operations("catalog")
  BY DEF Feeds, Lists, Operations
<1>a. feed["catalog"] \in FeedRow /\ feed["catalog"].attempts <= spent /\ spent \in Nat
  BY <1>0, FeedTypeFacts
<1>1. ASSUME NEW c \in Configurations, UpdateRuleCatalog(r, c) PROVE TypeInv'
  <2>1. /\ WithConfig(feed["catalog"], c) \in FeedRow
        /\ WithConfig(feed["catalog"], c).attempts = feed["catalog"].attempts
        /\ WithConfig(feed["catalog"], c).life = feed["catalog"].life
    BY <1>a, RowSwitched
  <2> QED BY <1>0, <1>1, <2>1, ReadingTypes DEF UpdateRuleCatalog
<1>2. CASE EndCatalogUpdate(r)
  <2>1. requests[r] \in Reading /\ requests[r] # Idle
    BY <1>2, FeedTypeFacts, RequestOps DEF EndCatalogUpdate
  <2>2. item \in FeedRow /\ item.attempts <= spent
    <3>1. item \in FeedRow /\ item.attempts < spent
      BY <2>1, ReadingHolds, FeedTypeFacts
    <3> QED BY <3>1, <1>a DEF FeedRow
  <2>3. spent' = spent /\ Write("catalog", item, r)
    BY <1>2 DEF EndCatalogUpdate
  <2>4. spent' \in Nat /\ spent <= spent' /\ item.attempts <= spent'
    BY <2>2, <2>3, <1>a
  <2>5. /\ feed' \in [Feeds -> FeedRow] /\ \A j \in Feeds : feed'[j].attempts <= spent'
        /\ raced' = [j \in Feeds |-> raced'[j]]
    BY <1>0, <2>2, <2>3, <2>4, WriteTypes
  <2>6. Config(item) \in Configurations
    BY <2>2 DEF FeedRow
  <2>7. wanted' \in [Feeds -> Configurations]
    BY <1>2, <2>6, FeedTypeFacts DEF EndCatalogUpdate
  <2> QED BY <1>2, <2>1, <2>3, <2>5, <2>7, FeedTypeFacts, EndTypes DEF EndCatalogUpdate
<1>3. CASE SyncRuleCatalog(r)
  BY <1>0, <1>3, <1>a, ReadingTypes DEF SyncRuleCatalog
<1>4. CASE EndCatalogSync(r)
  <2>1. requests[r] \in Reading /\ requests[r] # Idle
    BY <1>4, FeedTypeFacts, RequestOps DEF EndCatalogSync
  <2>2. item \in FeedRow /\ item.attempts <= spent
    <3>1. item \in FeedRow /\ item.attempts < spent
      BY <2>1, ReadingHolds, FeedTypeFacts
    <3> QED BY <3>1, <1>a DEF FeedRow
  <2>3. spent' = spent /\ queue' = queue /\ wanted' = wanted /\ failures' = failures /\ End(r)
    BY <1>4 DEF EndCatalogSync
  <2>4. ASSUME NEW f \in FeedRow, f.attempts <= spent, Write("catalog", f, r)
        PROVE  /\ feed' \in [Feeds -> FeedRow] /\ \A j \in Feeds : feed'[j].attempts <= spent'
               /\ raced' = [j \in Feeds |-> raced'[j]]
    BY <1>0, <1>a, <2>3, <2>4, WriteTypes
  <2>5. /\ feed' \in [Feeds -> FeedRow] /\ \A j \in Feeds : feed'[j].attempts <= spent'
        /\ raced' = [j \in Feeds |-> raced'[j]]
        /\ listed' \in [Lists -> Catalogs \cup {{}}]
    <3>1. CASE ~item.enabled /\ Write("catalog", Disabled(item), r) /\ UNCHANGED listed
      <4>1. Disabled(item) \in FeedRow /\ Disabled(item).attempts <= spent
        BY <2>2, RowsWorked DEF SameConfig, SameAttempts
      <4> QED BY <3>1, <4>1, <2>4, FeedTypeFacts
    <3>2. CASE Write("catalog", Failed(item), r) /\ UNCHANGED listed
      <4>1. Failed(item) \in FeedRow /\ Failed(item).attempts <= spent
        BY <2>2, RowsWorked DEF SameConfig, SameAttempts
      <4> QED BY <3>2, <4>1, <2>4, FeedTypeFacts
    <3>3. ASSUME NEW list \in Catalogs, ReplaceRuleCatalogPackages(r, list)
          PROVE  /\ feed' \in [Feeds -> FeedRow] /\ \A j \in Feeds : feed'[j].attempts <= spent'
                 /\ raced' = [j \in Feeds |-> raced'[j]]
                 /\ listed' \in [Lists -> Catalogs \cup {{}}]
      <4> DEFINE f == [feed["catalog"] EXCEPT !.status = "synced", !.error = FALSE]
      <4>1. f \in FeedRow /\ f.attempts <= spent
        BY <1>a, RowsWorked DEF SameConfig, SameAttempts
      <4>2. listed' \in [Lists -> Catalogs \cup {{}}]
        BY <3>3, FeedTypeFacts DEF ReplaceRuleCatalogPackages
      <4>3. Write("catalog", f, r)
        BY <3>3 DEF ReplaceRuleCatalogPackages
      <4> HIDE DEF f
      <4> QED BY <4>1, <4>2, <4>3, <2>4
    <3>4. CASE UNCHANGED <<feed, listed, raced>>
      BY <3>4, <2>3, FeedTypeFacts
    <3> QED BY <1>4, <3>1, <3>2, <3>3, <3>4 DEF EndCatalogSync
  <2> QED BY <2>1, <2>3, <2>5, FeedTypeFacts, EndTypes
<1> QED BY <1>1, <1>2, <1>3, <1>4

\* What a request of the provider writes, in memory and in PostgreSQL.
LEMMA SyncStateTypes ==
  ASSUME TypeInv, spent' = spent, NEW r \in Requests, NEW f \in FeedRow, f.attempts <= spent,
         UpdateRuleProviderSyncState(f, r)
  PROVE  /\ feed' \in [Feeds -> FeedRow] /\ \A j \in Feeds : feed'[j].attempts <= spent'
         /\ raced' = [j \in Feeds |-> raced'[j]]
<1> DEFINE g == IF backend = "memory" THEN f ELSE WithConfig(f, feed["provider"])
<1>0. "provider" \in Feeds
  BY DEF Feeds
<1>1. g \in FeedRow /\ g.attempts <= spent
  BY <1>0, FeedTypeFacts, RowWritten
<1>2. Write("provider", g, r)
  BY DEF UpdateRuleProviderSyncState
<1>3. spent' \in Nat /\ spent <= spent' /\ g.attempts <= spent'
  BY <1>1, FeedTypeFacts
<1> HIDE DEF g
<1> QED BY <1>0, <1>1, <1>2, <1>3, WriteTypes

LEMMA ProviderTypes ==
  ASSUME TypeInv, backend' = backend, UNCHANGED packageVars
  PROVE  /\ \A c \in Configurations : UpdateRuleProvider(c) => TypeInv'
         /\ \A r \in Requests :
              /\ ValidateRuleProvider(r) \/ SyncRuleProvider(r) \/ RetryRuleProvider(r) => TypeInv'
              /\ EndProviderValidation(r) => TypeInv'
              /\ EndProviderSync(r) => TypeInv'
<1>0. "provider" \in Feeds /\ "provider" \in Lists
      /\ {"validate", "sync", "retry"} = Operations("provider")
  BY DEF Feeds, Lists, Operations
<1>a. feed["provider"] \in FeedRow /\ feed["provider"].attempts <= spent /\ spent \in Nat
      /\ feed["provider"].attempts \in Nat
  BY <1>0, FeedTypeFacts DEF FeedRow
<1>1. ASSUME NEW c \in Configurations, UpdateRuleProvider(c) PROVE TypeInv'
  <2> DEFINE f == UpdatedProvider(feed["provider"], Fresh(c))
  <2>1. f \in FeedRow /\ f.attempts = feed["provider"].attempts
    BY <1>a, FreshRow, RowWritten
  <2>2. Once /\ Write("provider", f, "none") /\ UNCHANGED <<listed, queue, failures>>
        /\ wanted' = [wanted EXCEPT !["provider"] = c]
    BY <1>1 DEF UpdateRuleProvider
  <2>3. spent' \in Nat /\ spent <= spent' /\ f.attempts <= spent'
    BY <1>a, <2>1, <2>2 DEF Once
  <2> HIDE DEF f
  <2>4. /\ feed' \in [Feeds -> FeedRow] /\ \A j \in Feeds : feed'[j].attempts <= spent'
        /\ raced' = [j \in Feeds |-> raced'[j]]
    BY <1>0, <2>1, <2>2, <2>3, WriteTypes
  <2>5. wanted' \in [Feeds -> Configurations]
    BY <2>2, FeedTypeFacts
  <2> QED BY <2>2, <2>4, <2>5, FeedTypeFacts, OnceTypes
<1>2. ASSUME NEW r \in Requests, ValidateRuleProvider(r) \/ SyncRuleProvider(r) \/ RetryRuleProvider(r)
      PROVE  TypeInv'
  BY <1>0, <1>2, <1>a, ReadingTypes DEF ValidateRuleProvider, SyncRuleProvider, RetryRuleProvider
<1>b. ASSUME NEW r \in Requests, requests[r] \in Reading
      PROVE  requests[r].item \in FeedRow /\ requests[r].item.attempts + 1 <= spent
  <2>1. requests[r].item \in FeedRow /\ requests[r].item.attempts < spent
    BY <1>b, ReadingHolds, FeedTypeFacts
  <2>2. requests[r].item.attempts \in Nat
    BY <2>1 DEF FeedRow
  <2> QED BY <1>a, <2>1, <2>2
<1>3. ASSUME NEW r \in Requests, EndProviderValidation(r) PROVE TypeInv'
  <2> DEFINE f == UpdatedProvider(feed["provider"], ValidateProviderCredentials(requests[r].item))
  <2>1. requests[r] \in Reading /\ requests[r] # Idle
    BY <1>3, FeedTypeFacts, RequestOps DEF EndProviderValidation
  <2>2. requests[r].item \in FeedRow
    BY <1>b, <2>1
  <2>3. ValidateProviderCredentials(requests[r].item) \in FeedRow
    BY <2>2, RowsWorked DEF SameConfig
  <2>4. f \in FeedRow /\ f.attempts = feed["provider"].attempts
    BY <1>a, <2>3, RowWritten
  <2>5. /\ Write("provider", f, r) /\ End(r) /\ UNCHANGED <<listed, queue, wanted, failures, spent>>
    BY <1>3 DEF EndProviderValidation
  <2>6. spent' \in Nat /\ spent <= spent' /\ f.attempts <= spent'
    BY <1>a, <2>4, <2>5
  <2> HIDE DEF f
  <2>7. /\ feed' \in [Feeds -> FeedRow] /\ \A j \in Feeds : feed'[j].attempts <= spent'
        /\ raced' = [j \in Feeds |-> raced'[j]]
    BY <1>0, <2>4, <2>5, <2>6, WriteTypes
  <2> QED BY <2>1, <2>5, <2>7, FeedTypeFacts, EndTypes
<1>4. ASSUME NEW r \in Requests, EndProviderSync(r) PROVE TypeInv'
  <2> DEFINE item == requests[r].item
  <2>1. requests[r] \in Reading /\ requests[r] # Idle
    BY <1>4, FeedTypeFacts, RequestOps DEF EndProviderSync
  <2>2. item \in FeedRow /\ item.attempts + 1 <= spent /\ item.attempts <= spent /\ item.attempts \in Nat
    <3>1. item \in FeedRow /\ item.attempts + 1 <= spent
      BY <1>b, <2>1
    <3> QED BY <1>a, <3>1 DEF FeedRow
  <2>3. spent' = spent /\ queue' = queue /\ wanted' = wanted /\ End(r)
    BY <1>4 DEF EndProviderSync
  <2>4. /\ feed' \in [Feeds -> FeedRow] /\ \A j \in Feeds : feed'[j].attempts <= spent'
        /\ raced' = [j \in Feeds |-> raced'[j]]
        /\ failures' \in Nat /\ failures' <= failures + 1
        /\ listed' \in [Lists -> Catalogs \cup {{}}]
    <3> DEFINE off == [Disabled(item) EXCEPT !.health = "disabled", !.error = TRUE]
    <3>1. CASE UpdateRuleProviderSyncState(off, r) /\ UNCHANGED <<listed, failures>>
      <4>1. off \in FeedRow /\ off.attempts <= spent
        BY <2>2, RowsWorked DEF SameConfig, SameAttempts
      <4> HIDE DEF off
      <4> QED BY <3>1, <4>1, <2>3, SyncStateTypes, FeedTypeFacts
    <3>2. ASSUME NEW unauthorized \in BOOLEAN, NEW manual \in BOOLEAN,
                 UpdateRuleProviderSyncState(ProviderSyncFailure(item, unauthorized, manual), r),
                 failures' = failures + 1, UNCHANGED listed
          PROVE  /\ feed' \in [Feeds -> FeedRow] /\ \A j \in Feeds : feed'[j].attempts <= spent'
                 /\ raced' = [j \in Feeds |-> raced'[j]]
                 /\ failures' \in Nat /\ failures' <= failures + 1
                 /\ listed' \in [Lists -> Catalogs \cup {{}}]
      <4> DEFINE f == ProviderSyncFailure(item, unauthorized, manual)
      <4>1. f \in FeedRow /\ f.attempts <= item.attempts + 1
        BY <2>2, RowFailed DEF SameConfig
      <4>2. f.attempts <= spent
        BY <1>a, <2>2, <4>1 DEF FeedRow
      <4>3. UpdateRuleProviderSyncState(f, r)
        BY <3>2
      <4> HIDE DEF f
      <4>4. failures' \in Nat /\ failures' <= failures + 1
        BY <3>2, FeedTypeFacts
      <4> QED BY <3>2, <4>1, <4>2, <4>3, <4>4, <2>3, SyncStateTypes, FeedTypeFacts
    <3>3. ASSUME NEW list \in Catalogs, UpdateRuleProviderSyncState(ProviderSynced(item), r),
                 listed' = IF Live("provider") THEN [listed EXCEPT !["provider"] = list] ELSE listed,
                 failures' = 0
          PROVE  /\ feed' \in [Feeds -> FeedRow] /\ \A j \in Feeds : feed'[j].attempts <= spent'
                 /\ raced' = [j \in Feeds |-> raced'[j]]
                 /\ failures' \in Nat /\ failures' <= failures + 1
                 /\ listed' \in [Lists -> Catalogs \cup {{}}]
      <4> DEFINE f == ProviderSynced(item)
      <4>1. f \in FeedRow /\ f.attempts = 0
        BY <2>2, RowsWorked DEF SameConfig
      <4>2. f.attempts <= spent
        BY <1>a, <4>1
      <4>3. UpdateRuleProviderSyncState(f, r)
        BY <3>3
      <4> HIDE DEF f
      <4>4. failures' \in Nat /\ failures' <= failures + 1
        BY <3>3, FeedTypeFacts
      <4>5. listed' \in [Lists -> Catalogs \cup {{}}]
        BY <3>3, FeedTypeFacts
      <4> QED BY <4>1, <4>2, <4>3, <4>4, <4>5, <2>3, SyncStateTypes
    <3>4. CASE /\ UNCHANGED <<feed, listed, raced>>
               /\ failures' = IF item.enabled THEN failures + 1 ELSE failures
      BY <3>4, <2>3, FeedTypeFacts
    <3>5. (item.source \in Denied) \in BOOLEAN /\ (requests[r].op = "retry") \in BOOLEAN
      OBVIOUS
    <3> HIDE DEF off
    <3> QED BY <1>4, <3>1, <3>2, <3>3, <3>4, <3>5 DEF EndProviderSync, off
  <2> QED BY <2>1, <2>3, <2>4, FeedTypeFacts, EndTypes
<1> QED BY <1>1, <1>2, <1>3, <1>4

LEMMA AccountTypes ==
  ASSUME TypeInv, backend' = backend, UNCHANGED packageVars
  PROVE  /\ \A c \in Configurations : UpdateRuleAccountSource(c) => TypeInv'
         /\ \A r \in Requests :
              /\ RefreshRuleAccountSource(r) => TypeInv'
              /\ EndAccountRefresh(r) => TypeInv'
              /\ \A i \in DOMAIN queue, d \in Decisions : DecideRuleReviewQueueItem(r, i, d) => TypeInv'
              /\ EndDecision(r) => TypeInv'
         /\ \A k \in Feeds : DeleteFeed(k) => TypeInv'
<1>0. "account" \in Feeds /\ {"refresh"} = Operations("account")
  BY DEF Feeds, Operations
<1>a. feed["account"] \in FeedRow /\ feed["account"].attempts <= spent /\ spent \in Nat
  BY <1>0, FeedTypeFacts
<1>1. ASSUME NEW c \in Configurations, UpdateRuleAccountSource(c) PROVE TypeInv'
  <2> DEFINE f == [Fresh(c) EXCEPT !.error = IF backend = "memory" THEN feed["account"].error ELSE @]
  <2>1. f \in FeedRow /\ f.attempts = 0
    <3>1. Fresh(c) \in FeedRow /\ Fresh(c).attempts = 0
      BY FreshRow
    <3> QED BY <1>a, <3>1 DEF FeedRow, Config
  <2>2. Once /\ Write("account", f, "none") /\ UNCHANGED <<listed, queue, failures>>
        /\ wanted' = [wanted EXCEPT !["account"] = c]
    BY <1>1 DEF UpdateRuleAccountSource
  <2>3. spent' \in Nat /\ spent <= spent' /\ f.attempts <= spent'
    BY <1>a, <2>1, <2>2 DEF Once
  <2> HIDE DEF f
  <2>4. /\ feed' \in [Feeds -> FeedRow] /\ \A j \in Feeds : feed'[j].attempts <= spent'
        /\ raced' = [j \in Feeds |-> raced'[j]]
    BY <1>0, <2>1, <2>2, <2>3, WriteTypes
  <2>5. wanted' \in [Feeds -> Configurations]
    BY <2>2, FeedTypeFacts
  <2> QED BY <2>2, <2>4, <2>5, FeedTypeFacts, OnceTypes
<1>2. ASSUME NEW r \in Requests, RefreshRuleAccountSource(r) PROVE TypeInv'
  BY <1>0, <1>2, <1>a, ReadingTypes DEF RefreshRuleAccountSource
<1>3. ASSUME NEW r \in Requests, EndAccountRefresh(r) PROVE TypeInv'
  <2> DEFINE item == RefreshedAccount(requests[r].item)
             f == IF backend = "memory" THEN item ELSE WithConfig(item, feed["account"])
  <2>1. requests[r] \in Reading /\ requests[r] # Idle
    BY <1>3, FeedTypeFacts, RequestOps DEF EndAccountRefresh
  <2>2. requests[r].item \in FeedRow /\ requests[r].item.attempts <= spent
    <3>1. requests[r].item \in FeedRow /\ requests[r].item.attempts < spent
      BY <2>1, ReadingHolds, FeedTypeFacts
    <3> QED BY <3>1, <1>a DEF FeedRow
  <2>3. item \in FeedRow /\ item.attempts = requests[r].item.attempts
    BY <2>2, RowsWorked DEF SameConfig, SameAttempts
  <2>4. /\ Write("account", f, r) /\ End(r) /\ UNCHANGED <<listed, wanted, failures, spent>>
        /\ queue' = queue \/ queue' = Append(queue, "queued")
    BY <1>3 DEF EndAccountRefresh
  <2> HIDE DEF item
  <2>5. f \in FeedRow /\ f.attempts <= spent
    BY <1>a, <2>2, <2>3, RowWritten
  <2> HIDE DEF f
  <2>6. spent' \in Nat /\ spent <= spent' /\ f.attempts <= spent'
    BY <1>a, <2>4, <2>5
  <2>7. /\ feed' \in [Feeds -> FeedRow] /\ \A j \in Feeds : feed'[j].attempts <= spent'
        /\ raced' = [j \in Feeds |-> raced'[j]]
    BY <1>0, <2>4, <2>5, <2>6, WriteTypes
  <2>8. queue' \in Seq(Reviews)
    <3>1. "queued" \in Reviews
      BY DEF Reviews
    <3>2. queue \in Seq(Reviews)
      BY FeedTypeFacts
    <3>3. Append(queue, "queued") \in Seq(Reviews)
      BY <3>1, <3>2
    <3> QED BY <2>4, <3>2, <3>3
  <2> QED BY <2>1, <2>4, <2>7, <2>8, FeedTypeFacts, EndTypes
<1>4. ASSUME NEW r \in Requests, NEW i \in DOMAIN queue, NEW d \in Decisions,
             DecideRuleReviewQueueItem(r, i, d)
      PROVE  TypeInv'
  <2> DEFINE q == [op |-> d, feed |-> "queue", item |-> i]
  <2>1. i \in Nat
    BY FeedTypeFacts
  <2>2. q \in Deciding
    BY <2>1 DEF Deciding
  <2>3. q \notin Reading
    <3>1. q.feed = "queue"
      OBVIOUS
    <3> HIDE DEF q
    <3> QED BY <3>1, ReadingHolds DEF Feeds
  <2> QED BY <1>4, <2>2, <2>3, StartTypes DEF DecideRuleReviewQueueItem
<1>5. ASSUME NEW r \in Requests, EndDecision(r) PROVE TypeInv'
  <2>1. requests[r] # Idle /\ requests[r].op \in Decisions
    BY <1>5, OthersHold DEF EndDecision, Decisions
  <2>2. UNCHANGED <<feed, listed, wanted, failures, raced, spent>> /\ End(r)
        /\ queue' = [queue EXCEPT ![requests[r].item] = requests[r].op]
    BY <1>5 DEF EndDecision
  <2>3. queue' \in Seq(Reviews)
    <3>1. requests[r].op \in Reviews
      BY <2>1 DEF Reviews
    <3>2. queue \in Seq(Reviews)
      BY FeedTypeFacts
    <3>3. Len(queue) \in Nat /\ queue \in [1 .. Len(queue) -> Reviews]
      BY <3>2
    <3>4. queue' \in [1 .. Len(queue) -> Reviews]
      BY <2>2, <3>1, <3>3
    <3> QED BY <3>3, <3>4
  <2>4. \A j \in Feeds : feed'[j].attempts <= spent'
    BY <2>2, FeedTypeFacts
  <2> QED BY <2>1, <2>2, <2>3, <2>4, FeedTypeFacts, EndTypes
<1>6. ASSUME NEW k \in Feeds, DeleteFeed(k) PROVE TypeInv'
  <2>1. /\ Once /\ feed' = [feed EXCEPT ![k].life = "deleted"]
        /\ listed' = [f \in DOMAIN listed |-> IF f = k THEN {} ELSE listed[f]]
        /\ UNCHANGED <<queue, wanted, failures, raced>>
    BY <1>6 DEF DeleteFeed
  <2>2. \A j \in Feeds : feed[j] \in FeedRow /\ feed[j].attempts <= spent /\ feed[j].attempts \in Nat
    BY FeedTypeFacts DEF FeedRow
  <2>3. spent' = spent + 1
    BY <2>1 DEF Once
  <2>4. [feed[k] EXCEPT !.life = "deleted"] \in FeedRow
        /\ [feed[k] EXCEPT !.life = "deleted"].attempts = feed[k].attempts
    BY <2>2 DEF FeedRow, Config
  <2>5. feed' = [feed EXCEPT ![k] = [feed[k] EXCEPT !.life = "deleted"]]
    BY <2>1
  <2>6. feed' \in [Feeds -> FeedRow]
    BY <2>4, <2>5, FeedTypeFacts
  <2>7. \A j \in Feeds : feed'[j].attempts <= spent'
    <3>1. \A j \in Feeds : feed'[j].attempts = feed[j].attempts
      BY <2>4, <2>5, FeedTypeFacts
    <3> QED BY <1>a, <2>2, <2>3, <3>1
  <2>8. listed' \in [Lists -> Catalogs \cup {{}}]
    BY <2>1, FeedTypeFacts
  <2> QED BY <2>1, <2>6, <2>7, <2>8, FeedTypeFacts, OnceTypes
<1> QED BY <1>1, <1>2, <1>3, <1>4, <1>5, <1>6

LEMMA FeedStepTypes ==
  ASSUME TypeInv, backend' = backend, UNCHANGED packageVars, FeedStep
  PROVE  TypeInv'
BY CatalogTypes, ProviderTypes, AccountTypes DEF FeedStep, Decisions

\* A rule is written under a number it has, or under the next one.
LEMMA RuleWritten ==
  ASSUME PackageTypes, NEW id, NEW x \in StoredRule \cup {None},
         rules' = [rules EXCEPT ![id] = x],
         \/ next' = next /\ (id \in RuleIds => rules[id] # None)
         \/ next' = next + 1 /\ id = next
  PROVE  /\ rules' \in [RuleIds -> StoredRule \cup {None}]
         /\ next' \in Nat \ {0} /\ RuleIn' \subseteq 1 .. next' - 1
<1>1. /\ rules \in [RuleIds -> StoredRule \cup {None}]
      /\ next \in Nat \ {0} /\ RuleIn \subseteq 1 .. next - 1
  BY DEF PackageTypes
<1>2. rules' \in [RuleIds -> StoredRule \cup {None}]
  BY <1>1
<1>3. RuleIn' \subseteq RuleIn \cup {id}
  BY <1>1 DEF RuleIn
<1>4. CASE next' = next /\ (id \in RuleIds => rules[id] # None)
  <2>1. RuleIn' \subseteq RuleIn
    BY <1>1, <1>4 DEF RuleIn
  <2> QED BY <1>1, <1>2, <1>4, <2>1
<1>5. CASE next' = next + 1 /\ id = next
  <2>1. next' \in Nat \ {0} /\ next' - 1 = next /\ next \in 1 .. next
    BY <1>1, <1>5
  <2>2. 1 .. next - 1 \subseteq 1 .. next
    BY <1>1
  <2> QED BY <1>1, <1>2, <1>3, <1>5, <2>1, <2>2
<1> QED BY <1>4, <1>5

\* Requests for rules leave the feeds as they are.
LEMMA FeedsKept ==
  ASSUME TypeInv, UNCHANGED catalogVars, spent' \in Nat, spent <= spent'
  PROVE  FeedTypes'
<1>1. \A j \in Feeds : feed[j].attempts <= spent /\ feed[j].attempts \in Nat
  BY FeedTypeFacts DEF FeedRow
<1>2. \A j \in Feeds : feed[j].attempts <= spent'
  BY <1>1 DEF TypeInv
<1> QED BY <1>2 DEF TypeInv, FeedTypes, catalogVars

\* No request that reads a feed begins or changes; some may end.
ReadingsStay ==
  \A r \in Requests : requests'[r] \in {requests[r], Idle} \/ requests'[r] \notin Reading

LEMMA OneChanges ==
  ASSUME TypeInv, NEW r \in Requests, NEW q, q \notin Reading, requests' = [requests EXCEPT ![r] = q]
  PROVE  ReadingsStay
BY DEF TypeInv, RequestTypes, ReadingsStay

LEMMA BeginTypes ==
  ASSUME TypeInv, backend' = backend, UNCHANGED catalogVars, NEW r \in Requests,
         NEW q \in ImportRequest \cup TestRequest \cup DeleteRequest, AtMark(q), Begin(r, q)
  PROVE  TypeInv' /\ ReadingsStay
<1>1. /\ requests[r] = Idle /\ spent < MaxOperations /\ spent' = spent + 1
      /\ requests' = [requests EXCEPT ![r] = q] /\ UNCHANGED <<rules, next, installed>>
      /\ mixed' = (mixed \/ Writing # {})
  BY DEF Begin
<1>2. spent \in Nat /\ MaxOperations \in Nat /\ backend \in Backends
  BY CatalogAssumption DEF TypeInv
<1>3. spent' \in Nat /\ spent <= spent' /\ spent' <= MaxOperations
  BY <1>1, <1>2
<1>4. q \in Request /\ q # Idle /\ q \notin Reading
  <2>1. q \in Request /\ q.op \in {"import", "test", "delete"}
    BY OthersHold DEF Request
  <2> QED BY <2>1, RequestOps
<1>5. RequestTypes'
  BY <1>1, <1>3, <1>4, RequestChanges
<1>6. FailuresSpent'
  <2>1. requests \in [Requests -> Request] /\ IsFiniteSet(Begun)
    BY DEF TypeInv, RequestTypes, FailuresSpent
  <2>2. /\ IsFiniteSet(Begun') /\ Cardinality(Begun) \in Nat
        /\ Cardinality(Begun') = Cardinality(Begun) + 1
    BY <1>1, <1>4, <2>1, BegunChanges
  <2>3. failures \in Nat /\ failures + Cardinality(Begun) <= spent
    BY DEF TypeInv, FeedTypes, FailuresSpent
  <2>4. failures' = failures
    BY DEF catalogVars
  <2> QED BY <1>1, <1>2, <2>2, <2>3, <2>4 DEF FailuresSpent
<1>7. PackageTypes'
  BY <1>1 DEF TypeInv, PackageTypes, RuleIn
<1>8. ReadingsStay
  BY <1>1, <1>4, OneChanges
<1> QED BY <1>2, <1>3, <1>5, <1>6, <1>7, <1>8, FeedsKept DEF TypeInv

\* A request for rules goes on, or ends.
LEMMA WriterTypes ==
  ASSUME TypeInv, backend' = backend, spent' = spent, UNCHANGED catalogVars, NEW r \in Requests,
         NEW q \in Request, AtMark(q), q \notin Reading, requests[r] # Idle,
         requests' = [requests EXCEPT ![r] = q],
         rules' \in [RuleIds -> StoredRule \cup {None}],
         next' \in Nat \ {0}, RuleIn' \subseteq 1 .. next' - 1,
         mixed' \in BOOLEAN, installed' \in Contents \cup {None}
  PROVE  TypeInv' /\ ReadingsStay
<1>1. spent \in Nat /\ spent <= MaxOperations /\ backend \in Backends
  BY DEF TypeInv
<1>2. spent' \in Nat /\ spent <= spent'
  BY <1>1
<1>3. RequestTypes'
  BY <1>2, RequestChanges
<1>4. FailuresSpent'
  <2>1. requests \in [Requests -> Request] /\ IsFiniteSet(Begun)
    BY DEF TypeInv, RequestTypes, FailuresSpent
  <2>2. /\ IsFiniteSet(Begun') /\ Cardinality(Begun) \in Nat /\ Cardinality(Begun') \in Nat
        /\ \/ Cardinality(Begun') = Cardinality(Begun)
           \/ Cardinality(Begun') = Cardinality(Begun) - 1
    <3>1. CASE q = Idle
      BY <2>1, <3>1, BegunChanges
    <3>2. CASE q # Idle
      <4>1. /\ IsFiniteSet(Begun') /\ Cardinality(Begun) \in Nat
            /\ Cardinality(Begun') = Cardinality(Begun) + 0
        BY <2>1, <3>2, BegunChanges
      <4> QED BY <4>1
    <3> QED BY <3>1, <3>2
  <2>3. failures \in Nat /\ failures + Cardinality(Begun) <= spent
    BY DEF TypeInv, FeedTypes, FailuresSpent
  <2>4. failures' = failures
    BY DEF catalogVars
  <2> QED BY <1>1, <2>2, <2>3, <2>4 DEF FailuresSpent
<1>5. PackageTypes'
  BY DEF PackageTypes
<1>6. ReadingsStay
  BY OneChanges
<1> QED BY <1>1, <1>2, <1>3, <1>4, <1>5, <1>6, FeedsKept DEF TypeInv

\* An import that has made progress goes on to its next mark, or ends.
LEMMA AdvanceTypes ==
  ASSUME NEW r \in Requests, NEW q \in ImportRequest, AtMark(q), Advance(r, q)
  PROVE  /\ \E s \in Request : s \notin Reading /\ AtMark(s) /\ requests' = [requests EXCEPT ![r] = s]
         /\ installed' \in Contents \cup {None}
<1> DEFINE turn == IF q.creates = {} /\ q.updates = {} /\ q.left = {} /\ q.marks # <<>>
                   THEN [q EXCEPT !.left = q.done] ELSE q
           over == Complete(q) \/ (turn.left = {} /\ turn.creates = {} /\ turn.updates = {})
<1>1. /\ requests' = [requests EXCEPT ![r] = IF over THEN Idle ELSE turn]
      /\ installed' = IF over /\ ~mixed THEN q.content ELSE None
  BY DEF Advance
<1>2. q \in ImportOf(q.content) /\ q.content \in Contents
  BY ImportHolds
<1>3. turn \in ImportOf(q.content)
  BY <1>2 DEF ImportOf
<1>4. turn \in ImportRequest /\ turn \in Request
  BY <1>2, <1>3 DEF ImportRequest, Request
<1>5. turn.left # {} => turn.marks # <<>>
  BY <1>2 DEF AtMark, ImportOf
<1> HIDE DEF turn, over
<1>6. AtMark(turn) /\ turn \notin Reading
  BY <1>4, <1>5, RequestOps, OthersHold DEF AtMark
<1> QED BY <1>1, <1>2, <1>4, <1>6, IdleRequest

LEMMA ImportTypes ==
  ASSUME TypeInv, NEW c \in Contents, NEW marks \in Seq({"applied", "provider"})
  PROVE  LET q == [op |-> "import", feed |-> "rules", content |-> c, creates |-> AddedBy(c),
                   updates |-> {[name |-> i, id |-> InstalledOf(c, i)] : i \in ChangedBy(c)},
                   done |-> {}, marks |-> marks, left |-> {}]
         IN q \in ImportRequest /\ AtMark(q)
<1> DEFINE updates == {[name |-> i, id |-> InstalledOf(c, i)] : i \in ChangedBy(c)}
           q == [op |-> "import", feed |-> "rules", content |-> c, creates |-> AddedBy(c),
                 updates |-> updates, done |-> {}, marks |-> marks, left |-> {}]
<1>1. PackageTypes
  BY DEF TypeInv
<1>2. \A i : InstalledOf(c, i) \in Nat
  BY <1>1, InstalledOfType
<1>3. updates \in SUBSET Row(c)
  <2>1. \A i \in ChangedBy(c) : i \in DOMAIN c.rules
    BY DEF ChangedBy
  <2> QED BY <1>2, <2>1 DEF Row
<1>4. AddedBy(c) \in SUBSET DOMAIN c.rules
  BY DEF AddedBy
<1> HIDE DEF updates
<1>5. q \in ImportOf(c)
  BY <1>3, <1>4 DEF ImportOf
<1>6. q.left = {}
  OBVIOUS
<1>7. q \in ImportRequest /\ AtMark(q)
  BY <1>5, <1>6 DEF ImportRequest, AtMark
<1> QED BY <1>7 DEF updates

LEMMA CreateTypes ==
  ASSUME TypeInv, backend' = backend, spent' = spent, UNCHANGED catalogVars, NEW r \in Requests,
         CreateStep(r)
  PROVE  TypeInv' /\ ReadingsStay
<1> DEFINE q == requests[r]
           i == Smallest(q.creates)
           s == [q EXCEPT !.creates = @ \ {i}, !.done = @ \cup {[name |-> i, id |-> next]}]
<1>1. /\ requests[r] # Idle /\ q.op = "import" /\ q.creates # {} /\ next \in RuleIds
      /\ rules' = [rules EXCEPT ![next] = Packaged(q.content, i)] /\ next' = next + 1
      /\ Advance(r, s) /\ mixed' = mixed
  BY DEF CreateStep, Importing
<1>2. q \in ImportRequest /\ AtMark(q) /\ PackageTypes /\ next \in Nat
  BY <1>1, RequestOps DEF TypeInv, RequestTypes, PackageTypes
<1>3. q.content \in Contents /\ q \in ImportOf(q.content) /\ i \in DOMAIN q.content.rules
  BY <1>1, <1>2, ImportHolds, SmallestIsLeast
<1> HIDE DEF i
<1>4. s \in ImportOf(q.content) /\ s.left = q.left /\ s.marks = q.marks
  <2>1. [name |-> i, id |-> next] \in Row(q.content)
    BY <1>2, <1>3 DEF Row
  <2> QED BY <1>3, <2>1 DEF ImportOf
<1>5. s \in ImportRequest /\ AtMark(s)
  BY <1>2, <1>3, <1>4 DEF ImportRequest, AtMark
<1>6. /\ \E x \in Request : x \notin Reading /\ AtMark(x) /\ requests' = [requests EXCEPT ![r] = x]
      /\ installed' \in Contents \cup {None}
  BY <1>1, <1>5, AdvanceTypes
<1>7. Packaged(q.content, i) \in StoredRule
  BY <1>3, PackagedType
<1> HIDE DEF q, s
<1>8. /\ rules' \in [RuleIds -> StoredRule \cup {None}]
      /\ next' \in Nat \ {0} /\ RuleIn' \subseteq 1 .. next' - 1
  BY <1>1, <1>2, <1>7, RuleWritten
<1>9. mixed' \in BOOLEAN
  BY <1>1, <1>2 DEF PackageTypes
<1> QED BY <1>1, <1>6, <1>8, <1>9, WriterTypes

LEMMA UpdateTypes ==
  ASSUME TypeInv, backend' = backend, spent' = spent, UNCHANGED catalogVars, NEW r \in Requests,
         UpdateStep(r)
  PROVE  TypeInv' /\ ReadingsStay
<1> DEFINE q == requests[r]
           u == CHOOSE x \in q.updates : \A y \in q.updates : x.name <= y.name
           s == [q EXCEPT !.updates = @ \ {u}, !.done = @ \cup {u}]
<1>1. /\ requests[r] # Idle /\ q.op = "import" /\ q.updates # {} /\ UNCHANGED <<next, mixed>>
      /\ IF rules[u.id] = None
         THEN End(r) /\ UNCHANGED <<rules, installed>>
         ELSE /\ rules' = [rules EXCEPT ![u.id] = Packaged(q.content, u.name)]
              /\ Advance(r, s)
  BY DEF UpdateStep, Importing
<1>2. q \in ImportRequest /\ AtMark(q) /\ PackageTypes
  BY <1>1, RequestOps DEF TypeInv, RequestTypes
<1>3. q.content \in Contents /\ q \in ImportOf(q.content) /\ u \in Row(q.content) /\ u \in q.updates
  BY <1>1, <1>2, ImportHolds, FirstByName
<1> HIDE DEF u
<1>4. mixed' \in BOOLEAN
  BY <1>1, <1>2 DEF PackageTypes
<1>5. CASE rules[u.id] = None
  <2>1. requests' = [requests EXCEPT ![r] = Idle] /\ UNCHANGED <<rules, next, installed>>
    BY <1>1, <1>5 DEF End
  <2>2. /\ rules' \in [RuleIds -> StoredRule \cup {None}]
        /\ next' \in Nat \ {0} /\ RuleIn' \subseteq 1 .. next' - 1
        /\ installed' \in Contents \cup {None}
    BY <1>2, <2>1 DEF PackageTypes, RuleIn
  <2> QED BY <1>1, <1>4, <2>1, <2>2, IdleRequest, WriterTypes
<1>6. CASE rules[u.id] # None
  <2>1. s \in ImportOf(q.content) /\ s.left = q.left /\ s.marks = q.marks
    BY <1>2, <1>3 DEF ImportOf
  <2>2. s \in ImportRequest /\ AtMark(s)
    BY <1>2, <1>3, <2>1 DEF ImportRequest, AtMark
  <2>3. /\ \E x \in Request : x \notin Reading /\ AtMark(x) /\ requests' = [requests EXCEPT ![r] = x]
        /\ installed' \in Contents \cup {None}
    BY <1>1, <1>6, <2>2, AdvanceTypes
  <2>4. Packaged(q.content, u.name) \in StoredRule
    BY <1>3, PackagedType DEF Row
  <2>5. rules' = [rules EXCEPT ![u.id] = Packaged(q.content, u.name)] /\ next' = next
    BY <1>1, <1>6
  <2> HIDE DEF q, s
  <2>6. /\ rules' \in [RuleIds -> StoredRule \cup {None}]
        /\ next' \in Nat \ {0} /\ RuleIn' \subseteq 1 .. next' - 1
    BY <1>2, <1>6, <2>4, <2>5, RuleWritten
  <2> QED BY <1>1, <1>4, <2>3, <2>6, WriterTypes
<1> QED BY <1>5, <1>6

LEMMA MarkTypes ==
  ASSUME TypeInv, backend' = backend, spent' = spent, UNCHANGED catalogVars, NEW r \in Requests,
         MarkStep(r)
  PROVE  TypeInv' /\ ReadingsStay
<1> DEFINE q == requests[r]
           d == CHOOSE x \in q.left : \A y \in q.left : x.id <= y.id
           left == q.left \ {d}
           s == [q EXCEPT !.left = left, !.marks = IF left = {} THEN Tail(@) ELSE @]
           x == Marked(Packaged(q.content, d.name), Head(q.marks))
<1>1. /\ requests[r] # Idle /\ q.op = "import" /\ q.left # {} /\ UNCHANGED <<next, mixed>>
      /\ rules' = IF rules[d.id] = None THEN rules ELSE [rules EXCEPT ![d.id] = x]
      /\ Advance(r, s)
  BY DEF MarkStep, Importing
<1>2. q \in ImportRequest /\ AtMark(q) /\ PackageTypes
  BY <1>1, RequestOps DEF TypeInv, RequestTypes
<1>3. q.content \in Contents /\ q \in ImportOf(q.content) /\ d \in Row(q.content) /\ d \in q.left
  BY <1>1, <1>2, ImportHolds, FirstById
<1>4. q.marks \in Seq({"applied", "provider"}) /\ q.marks # <<>>
  BY <1>1, <1>2, <1>3 DEF AtMark, ImportOf
<1>5. Tail(q.marks) \in Seq({"applied", "provider"})
  BY <1>4
<1>6. x \in StoredRule
  BY <1>3, PackagedType, MarkedType DEF Row
<1> HIDE DEF d, x
<1>7. s \in ImportOf(q.content) /\ (s.left # {} => s.marks # <<>>)
  BY <1>3, <1>4, <1>5 DEF ImportOf
<1>8. s \in ImportRequest /\ AtMark(s)
  BY <1>3, <1>7 DEF ImportRequest, AtMark
<1>9. /\ \E y \in Request : y \notin Reading /\ AtMark(y) /\ requests' = [requests EXCEPT ![r] = y]
      /\ installed' \in Contents \cup {None}
  BY <1>1, <1>8, AdvanceTypes
<1> HIDE DEF q, s
<1>10. /\ rules' \in [RuleIds -> StoredRule \cup {None}]
       /\ next' \in Nat \ {0} /\ RuleIn' \subseteq 1 .. next' - 1
  <2>1. CASE rules[d.id] = None
    BY <1>1, <1>2, <2>1 DEF PackageTypes, RuleIn
  <2>2. CASE rules[d.id] # None
    BY <1>1, <1>2, <1>6, <2>2, RuleWritten
  <2> QED BY <2>1, <2>2
<1>11. mixed' \in BOOLEAN
  BY <1>1, <1>2 DEF PackageTypes
<1> QED BY <1>1, <1>9, <1>10, <1>11, WriterTypes

\* The steps of a request that leave the numbers, and the count of them, alone.
LEMMA OtherStepTypes ==
  ASSUME TypeInv, backend' = backend, spent' = spent, UNCHANGED catalogVars, NEW r \in Requests
  PROVE  /\ NothingToImport(r) => TypeInv' /\ ReadingsStay
         /\ ImportFails(r) => TypeInv' /\ ReadingsStay
         /\ DeleteStep(r) => TypeInv' /\ ReadingsStay
         /\ EndTest(r) => TypeInv' /\ ReadingsStay
<1> USE DEF End
<1>a. requests[r] \in Request /\ AtMark(requests[r]) /\ PackageTypes
  BY DEF TypeInv, RequestTypes
<1>b. /\ rules \in [RuleIds -> StoredRule \cup {None}] /\ next \in Nat \ {0}
      /\ RuleIn \subseteq 1 .. next - 1 /\ mixed \in BOOLEAN /\ installed \in Contents \cup {None}
  BY <1>a DEF PackageTypes
<1>1. CASE NothingToImport(r)
  <2> DEFINE s == [requests[r] EXCEPT !.marks = <<>>]
  <2>1. /\ requests[r] # Idle /\ requests[r].op = "import" /\ requests[r].left = {}
        /\ Advance(r, s) /\ UNCHANGED <<rules, next, mixed>>
    BY <1>1 DEF NothingToImport, Importing
  <2>2. PICK c \in Contents : requests[r] \in ImportOf(c)
    BY <1>a, <2>1, RequestOps DEF ImportRequest
  <2>3. s \in ImportOf(c) /\ s.left = {}
    <3>1. <<>> \in Seq({"applied", "provider"})
      OBVIOUS
    <3> QED BY <2>1, <2>2, <3>1 DEF ImportOf
  <2>4. s \in ImportRequest /\ AtMark(s)
    BY <2>3 DEF ImportRequest, AtMark
  <2> HIDE DEF s
  <2>5. /\ \E y \in Request : y \notin Reading /\ AtMark(y) /\ requests' = [requests EXCEPT ![r] = y]
        /\ installed' \in Contents \cup {None}
    BY <2>1, <2>4, AdvanceTypes
  <2>6. RuleIn' = RuleIn
    BY <2>1 DEF RuleIn
  <2> QED BY <1>b, <2>1, <2>5, <2>6, WriterTypes
<1>2. CASE ImportFails(r)
  <2>1. requests[r] # Idle /\ requests' = [requests EXCEPT ![r] = Idle]
        /\ UNCHANGED <<rules, next, installed, mixed>>
    BY <1>2 DEF ImportFails, Importing, packageVars
  <2>2. RuleIn' = RuleIn
    BY <2>1 DEF RuleIn
  <2> QED BY <1>b, <2>1, <2>2, IdleRequest, WriterTypes
<1>3. CASE DeleteStep(r)
  <2> DEFINE todo == requests[r].todo
             id == Smallest(todo)
             s == [requests[r] EXCEPT !.todo = @ \ {id}]
  <2>1. requests[r].op = "delete" /\ UNCHANGED <<next, mixed>>
    BY <1>3 DEF DeleteStep
  <2>2. requests[r] # Idle /\ requests[r] \in DeleteRequest
    BY <1>a, <2>1, RequestOps
  <2>3. CASE requests' = [requests EXCEPT ![r] = Idle] /\ UNCHANGED <<rules, installed>>
    <3>1. RuleIn' = RuleIn
      BY <2>3 DEF RuleIn
    <3> QED BY <1>b, <2>1, <2>2, <2>3, <3>1, IdleRequest, WriterTypes
  <2>4. CASE /\ rules' = [rules EXCEPT ![id] = None] /\ installed' = None
             /\ requests' = [requests EXCEPT ![r] = s]
    <3>1. s \in DeleteRequest
      BY <2>2 DEF DeleteRequest
    <3>2. s \in Request /\ s \notin Reading /\ AtMark(s)
      <4>1. s \in Request /\ s.op = "delete"
        BY <3>1, OthersHold DEF Request
      <4> QED BY <3>1, <4>1, RequestOps, OthersAreNoImports
    <3>3. rules' \in [RuleIds -> StoredRule \cup {None}] /\ RuleIn' \subseteq RuleIn
      BY <1>b, <2>4 DEF RuleIn
    <3> HIDE DEF s
    <3>4. /\ next' \in Nat \ {0} /\ RuleIn' \subseteq 1 .. next' - 1 /\ mixed' \in BOOLEAN
          /\ installed' \in Contents \cup {None}
      BY <1>b, <2>1, <2>4, <3>3
    <3> QED BY <2>2, <2>4, <3>2, <3>3, <3>4, WriterTypes
  <2> HIDE DEF s
  <2> QED BY <1>3, <2>3, <2>4 DEF DeleteStep, s
<1>4. CASE EndTest(r)
  <2>1. /\ requests[r].op = "test" /\ UNCHANGED <<next, installed, mixed>>
        /\ requests' = [requests EXCEPT ![r] = Idle]
        /\ rules' = IF rules[requests[r].id] = None THEN rules
                    ELSE [rules EXCEPT ![requests[r].id] = [requests[r].rule EXCEPT !.tested = TRUE]]
    BY <1>4 DEF EndTest
  <2>2. requests[r] # Idle /\ requests[r].rule \in StoredRule
    BY <1>a, <2>1, RequestOps, OthersHold
  <2>3. [requests[r].rule EXCEPT !.tested = TRUE] \in StoredRule
    BY <2>2 DEF StoredRule
  <2>4. /\ rules' \in [RuleIds -> StoredRule \cup {None}]
        /\ next' \in Nat \ {0} /\ RuleIn' \subseteq 1 .. next' - 1
    <3>1. CASE rules[requests[r].id] = None
      BY <1>b, <2>1, <3>1 DEF RuleIn
    <3>2. CASE rules[requests[r].id] # None
      BY <1>a, <2>1, <2>3, <3>2, RuleWritten
    <3> QED BY <3>1, <3>2
  <2> QED BY <1>b, <2>1, <2>2, <2>4, IdleRequest, WriterTypes
<1> QED BY <1>1, <1>2, <1>3, <1>4

LEMMA PackageStepTypes ==
  ASSUME TypeInv, backend' = backend, UNCHANGED catalogVars, PackageStep
  PROVE  TypeInv' /\ ReadingsStay
<1>a. <<>> \in Seq({"applied", "provider"}) /\ <<"applied">> \in Seq({"applied", "provider"})
      /\ <<"applied", "provider">> \in Seq({"applied", "provider"})
  OBVIOUS
<1>b. PackageTypes /\ listed \in [Lists -> Catalogs \cup {{}}]
  BY FeedTypeFacts DEF TypeInv
<1>c. ASSUME NEW k \in Lists, NEW p \in listed[k], NEW c \in CatalogPackageData(p)
      PROVE  c \in Contents
  <2>1. listed[k] \in Catalogs
    BY <1>b
  <2> QED BY <2>1, ContentAssumption DEF CatalogPackageData
<1>1. ASSUME NEW r \in Requests, NEW c \in Contents, NEW marks \in Seq({"applied", "provider"}),
             Import(r, c, marks)
      PROVE  TypeInv' /\ ReadingsStay
  <2> DEFINE q == [op |-> "import", feed |-> "rules", content |-> c, creates |-> AddedBy(c),
                   updates |-> {[name |-> i, id |-> InstalledOf(c, i)] : i \in ChangedBy(c)},
                   done |-> {}, marks |-> marks, left |-> {}]
  <2>1. q \in ImportRequest /\ AtMark(q)
    BY ImportTypes
  <2>2. Begin(r, q)
    BY <1>1 DEF Import
  <2> HIDE DEF q
  <2> QED BY <2>1, <2>2, BeginTypes
<1>2. ASSUME NEW r \in Requests, ImportRulePackage(r) PROVE TypeInv' /\ ReadingsStay
  BY <1>a, <1>1, <1>2 DEF ImportRulePackage
<1>3. ASSUME NEW r \in Requests, ApplyRulePackageUpdate(r) PROVE TypeInv' /\ ReadingsStay
  <2>1. PICK p \in listed["catalog"] : \E c \in CatalogPackageData(p) : Import(r, c, <<"applied">>)
    BY <1>3 DEF ApplyRulePackageUpdate
  <2>2. PICK c \in CatalogPackageData(p) : Import(r, c, <<"applied">>)
    BY <2>1
  <2>3. c \in Contents
    BY <1>c DEF Lists
  <2> QED BY <1>a, <1>1, <2>2, <2>3
<1>4. ASSUME NEW r \in Requests, ImportRuleProviderPackage(r) PROVE TypeInv' /\ ReadingsStay
  <2>1. PICK p \in listed["provider"] :
           \E c \in CatalogPackageData(p) : Import(r, c, <<"applied", "provider">>)
    BY <1>4 DEF ImportRuleProviderPackage
  <2>2. PICK c \in CatalogPackageData(p) : Import(r, c, <<"applied", "provider">>)
    BY <2>1
  <2>3. c \in Contents
    BY <1>c DEF Lists
  <2> QED BY <1>a, <1>1, <2>2, <2>3
<1>5. ASSUME NEW r \in Requests, NEW id \in RuleIds, TestRule(r, id) PROVE TypeInv' /\ ReadingsStay
  <2> DEFINE q == [op |-> "test", feed |-> "rules", id |-> id, rule |-> rules[id]]
  <2>1. q \in TestRequest /\ Begin(r, q)
    BY <1>5, <1>b DEF TestRule, TestRequest, PackageTypes
  <2> HIDE DEF q
  <2> QED BY <2>1, BeginTypes, OthersAreNoImports
<1>6. ASSUME NEW r \in Requests, NEW package, DeleteRulePackage(r, package) PROVE TypeInv' /\ ReadingsStay
  <2> DEFINE q == [op |-> "delete", feed |-> "rules",
                   todo |-> {id \in RuleIn : rules[id].package = package}]
  <2>1. q \in DeleteRequest /\ Begin(r, q)
    BY <1>6 DEF DeleteRulePackage, DeleteRequest, RuleIn
  <2> HIDE DEF q
  <2> QED BY <2>1, BeginTypes, OthersAreNoImports
<1>7. ASSUME NEW r \in Requests, UNCHANGED spent,
             \/ CreateStep(r) \/ UpdateStep(r) \/ MarkStep(r)
             \/ NothingToImport(r) \/ ImportFails(r) \/ DeleteStep(r) \/ EndTest(r)
      PROVE  TypeInv' /\ ReadingsStay
  BY <1>7, CreateTypes, UpdateTypes, MarkTypes, OtherStepTypes
<1>8. ASSUME NEW id \in RuleIds, DeleteRule(id) \/ \E on \in BOOLEAN : UpdateRule(id, on)
      PROVE  TypeInv' /\ ReadingsStay
  <2>1. /\ Once /\ rules[id] # None /\ next' = next /\ mixed' = (mixed \/ Writing # {})
        /\ installed' \in {installed, None}
        /\ \E x \in StoredRule \cup {None} : rules' = [rules EXCEPT ![id] = x]
    <3>1. CASE DeleteRule(id)
      BY <3>1 DEF DeleteRule, Alone
    <3>2. ASSUME NEW on \in BOOLEAN, UpdateRule(id, on) 
          PROVE  /\ Once /\ rules[id] # None /\ next' = next /\ mixed' = (mixed \/ Writing # {})
                 /\ installed' \in {installed, None}
                 /\ \E x \in StoredRule \cup {None} : rules' = [rules EXCEPT ![id] = x]
      <4>1. rules[id] \in StoredRule
        BY <1>b, <3>2 DEF PackageTypes, UpdateRule, Alone
      <4>2. [rules[id] EXCEPT !.enabled = on, !.provider = FALSE] \in StoredRule
        BY <4>1 DEF StoredRule
      <4> QED BY <3>2, <4>2 DEF UpdateRule, Alone
    <3> QED BY <1>8, <3>1, <3>2
  <2>2. PICK x \in StoredRule \cup {None} : rules' = [rules EXCEPT ![id] = x]
    BY <2>1
  <2>3. /\ rules' \in [RuleIds -> StoredRule \cup {None}]
        /\ next' \in Nat \ {0} /\ RuleIn' \subseteq 1 .. next' - 1
    BY <1>b, <2>1, <2>2, RuleWritten
  <2>4. PackageTypes'
    BY <1>b, <2>1, <2>3 DEF PackageTypes
  <2>5. /\ spent \in Nat /\ MaxOperations \in Nat /\ backend \in Backends
        /\ spent < MaxOperations /\ spent' = spent + 1 /\ requests' = requests
    BY <2>1, CatalogAssumption DEF TypeInv, Once
  <2>6. spent' \in Nat /\ spent <= spent' /\ spent' <= MaxOperations
    BY <2>5
  <2>7. RequestTypes'
    <3>1. ASSUME NEW r \in Requests, requests[r] \in Reading
          PROVE  requests[r].item.life = "live" /\ requests[r].item.attempts < spent'
      <4>1. requests[r].item.life = "live" /\ requests[r].item.attempts < spent
            /\ requests[r].item.attempts \in Nat
        BY <3>1, ReadingHolds DEF TypeInv, RequestTypes, FeedRow
      <4> QED BY <2>5, <4>1
    <3> QED BY <2>5, <3>1 DEF TypeInv, RequestTypes
  <2>8. FailuresSpent'
    <3>1. IsFiniteSet(Begun) /\ Begun' = Begun /\ Cardinality(Begun) \in Nat
      BY <2>5, FS_CardinalityType DEF TypeInv, FailuresSpent, Begun
    <3>2. failures \in Nat /\ failures + Cardinality(Begun) <= spent
      BY DEF TypeInv, FeedTypes, FailuresSpent
    <3>3. failures' = failures
      BY DEF catalogVars
    <3> QED BY <2>5, <3>1, <3>2, <3>3 DEF FailuresSpent
  <2>9. ReadingsStay
    BY <2>5 DEF ReadingsStay
  <2> QED BY <2>4, <2>5, <2>6, <2>7, <2>8, <2>9, FeedsKept DEF TypeInv
<1> QED BY <1>2, <1>3, <1>4, <1>5, <1>6, <1>7, <1>8 DEF PackageStep

LEMMA RestartTypes ==
  ASSUME TypeInv, backend' = backend, Restart
  PROVE  TypeInv'
<1>1. /\ requests' = [r \in Requests |-> Idle] /\ UNCHANGED catalogVars /\ UNCHANGED packageVars
      /\ spent < MaxOperations /\ spent' = spent + 1
      /\ spent \in Nat /\ MaxOperations \in Nat /\ backend \in Backends
  BY CatalogAssumption DEF TypeInv, Restart
<1>2. spent' \in Nat /\ spent <= spent' /\ spent' <= MaxOperations
  BY <1>1
<1>3. RequestTypes'
  BY <1>1, IdleRequest DEF RequestTypes
<1>4. FailuresSpent'
  <2>1. Begun' = {} /\ failures' = failures
    BY <1>1 DEF Begun, catalogVars
  <2>2. failures \in Nat /\ failures + Cardinality(Begun) <= spent
        /\ Cardinality(Begun) \in Nat
    BY FS_CardinalityType DEF TypeInv, FeedTypes, FailuresSpent
  <2>3. failures + 0 <= spent'
    BY <1>1, <2>2
  <2> QED BY <2>1, <2>3, FS_EmptySet DEF FailuresSpent
<1>5. PackageTypes'
  BY <1>1 DEF TypeInv, PackageTypes, packageVars, RuleIn
<1> QED BY <1>1, <1>2, <1>3, <1>4, <1>5, FeedsKept DEF TypeInv

LEMMA TypeInit == Init => TypeInv
<1> SUFFICES ASSUME Init PROVE TypeInv
  OBVIOUS
<1>0. MaxOperations \in Nat /\ spent = 0 /\ requests = [r \in Requests |-> Idle] /\ backend \in Backends
  BY CatalogAssumption DEF Init
<1>1. FeedTypes
  <2>1. PICK c \in Configurations : /\ wanted = [k \in Feeds |-> c]
                                    /\ feed = [k \in Feeds |-> Fresh(c)]
    BY DEF Init
  <2>2. feed \in [Feeds -> FeedRow] /\ \A k \in Feeds : feed[k].attempts <= 0
    BY <2>1, FreshRow
  <2>3. queue \in Seq(Reviews)
    BY DEF Init
  <2> QED BY <1>0, <2>1, <2>2, <2>3 DEF Init, FeedTypes, Lists
<1>2. RequestTypes
  BY <1>0, IdleRequest DEF RequestTypes
<1>3. PackageTypes
  <2>1. rules = [id \in RuleIds |-> None] /\ next = 1 /\ installed = None /\ mixed = FALSE
    BY DEF Init
  <2>2. RuleIn = {} /\ rules \in [RuleIds -> StoredRule \cup {None}]
    BY <2>1 DEF RuleIn
  <2>3. next \in Nat \ {0} /\ installed \in Contents \cup {None}
    BY <2>1
  <2>4. mixed \in BOOLEAN
    BY <2>1, Zenon
  <2> QED BY <2>2, <2>3, <2>4 DEF PackageTypes
<1>4. FailuresSpent
  <2>1. Begun = {} /\ failures = 0
    BY <1>0 DEF Begun, Init
  <2> QED BY <1>0, <2>1, FS_EmptySet DEF FailuresSpent
<1> QED BY <1>0, <1>1, <1>2, <1>3, <1>4 DEF TypeInv

LEMMA TypeStep == TypeInv /\ [Next]_vars => TypeInv'
<1> SUFFICES ASSUME TypeInv, [Next]_vars PROVE TypeInv'
  OBVIOUS
<1>1. CASE UNCHANGED vars
  BY <1>1 DEF vars, TypeInv, FeedTypes, RequestTypes, PackageTypes, FailuresSpent, Begun, RuleIn
<1>2. CASE Next
  <2>1. CASE FeedStep /\ UNCHANGED packageVars
    BY <1>2, <2>1, FeedStepTypes DEF Next
  <2>2. CASE PackageStep /\ UNCHANGED catalogVars
    BY <1>2, <2>2, PackageStepTypes DEF Next
  <2>3. CASE Restart
    BY <1>2, <2>3, RestartTypes DEF Next
  <2> QED BY <1>2, <2>1, <2>2, <2>3 DEF Next
<1> QED BY <1>1, <1>2

LEMMA TypeOKHolds == TypeInv => TypeOK
<1> SUFFICES ASSUME TypeInv PROVE TypeOK
  OBVIOUS
<1>1. /\ backend \in Backends /\ spent \in 0 .. MaxOperations
      /\ spent \in Nat /\ MaxOperations \in Nat /\ spent <= MaxOperations
  BY CatalogAssumption DEF TypeInv
<1>2. ASSUME NEW k \in Feeds
      PROVE  /\ feed[k].life \in {"live", "deleted"} /\ Config(feed[k]) \in Configurations
             /\ feed[k].status \in {"never-synced", "synced", "failed", "disabled", "authorized"}
             /\ feed[k].attempts \in 0 .. MaxOperations
  <2>1. feed[k] \in FeedRow /\ feed[k].attempts <= spent
    BY FeedTypeFacts
  <2>2. feed[k].attempts \in Nat
    BY <2>1 DEF FeedRow
  <2>3. feed[k].attempts \in 0 .. MaxOperations
    BY <1>1, <2>1, <2>2
  <2> QED BY <2>1, <2>3 DEF FeedRow, Statuses
<1>3. \A k \in DOMAIN listed : listed[k] \in Catalogs \cup {{}}
  BY FeedTypeFacts
<1>4. failures \in 0 .. MaxOperations
  <2>1. failures \in Nat /\ failures + Cardinality(Begun) <= spent /\ Cardinality(Begun) \in Nat
    BY FS_CardinalityType DEF TypeInv, FeedTypes, FailuresSpent
  <2> QED BY <1>1, <2>1
<1> QED BY <1>1, <1>2, <1>3, <1>4 DEF TypeOK, TypeInv, PackageTypes

\* Every variable holds a value the code can give it: a feed's row keeps a
\* configuration an administrator saved, its attempts and failures never
\* outnumber the requests begun, and no number of a rule is given twice.
THEOREM TypeCorrect == Spec => []TypeOK
<1>1. Init => TypeInv
  BY TypeInit
<1>2. TypeInv /\ [Next]_vars => TypeInv'
  BY TypeStep
<1>3. TypeInv => TypeOK
  BY TypeOKHolds
<1> QED BY <1>1, <1>2, <1>3, PTL DEF Spec

LEMMA Typed == Spec => []TypeInv
BY TypeInit, TypeStep, PTL DEF Spec

-----------------------------------------------------------------------------
(***************************************************************************)
(* Only two steps change a list: a sync that succeeds, and a deletion.     *)
(***************************************************************************)
\* Request r ends, a sync of feed k that read it enabled.
EndsSync(r, k) ==
  /\ requests[r] # Idle /\ requests[r].feed = k
  /\ requests[r].op \in {"sync", "retry"} /\ requests[r].item.enabled
  /\ requests'[r] = Idle
ListsMind ==
  \A k \in DOMAIN listed : listed'[k] # listed[k] =>
    IF feed'[k].life = "deleted" THEN listed'[k] = {}
    ELSE /\ feed'[k].status = "synced" /\ ~feed'[k].error
         /\ \E r \in Requests : EndsSync(r, k)

LEMMA CatalogSyncMinds ==
  ASSUME TypeInv, NEW r \in Requests, EndCatalogSync(r)
  PROVE  ListsMind
<1>1. SUFFICES ASSUME NEW k \in DOMAIN listed, listed'[k] # listed[k]
               PROVE  /\ feed'[k].life # "deleted"
                      /\ feed'[k].status = "synced" /\ ~feed'[k].error
                      /\ EndsSync(r, k)
  BY DEF ListsMind
<1>2. listed' # listed
  BY <1>1
<1>3. PICK list \in Catalogs : ReplaceRuleCatalogPackages(r, list) /\ requests[r].item.enabled
  BY <1>2 DEF EndCatalogSync
<1>a. EndsSync(r, "catalog")
  <2>1. requests[r] \in Reading /\ requests[r] # Idle /\ requests[r].feed = "catalog"
        /\ requests[r].op = "sync" /\ End(r)
    BY FeedTypeFacts, RequestOps DEF EndCatalogSync
  <2> QED BY <1>3, <2>1 DEF EndsSync, End, TypeInv, RequestTypes
<1> DEFINE f == [feed["catalog"] EXCEPT !.status = "synced", !.error = FALSE]
<1>4. Live("catalog") /\ k = "catalog" /\ Write("catalog", f, r)
  BY <1>1, <1>3 DEF ReplaceRuleCatalogPackages
<1>5. "catalog" \in Feeds /\ feed["catalog"] \in FeedRow /\ feed \in [Feeds -> FeedRow]
  BY FeedTypeFacts DEF Feeds
<1>6. feed'["catalog"] = [f EXCEPT !.life = "live"]
  BY <1>4, <1>5 DEF Write, Live
<1> QED BY <1>4, <1>5, <1>6, <1>a DEF FeedRow

LEMMA ProviderSyncMinds ==
  ASSUME TypeInv, NEW r \in Requests, EndProviderSync(r)
  PROVE  ListsMind
<1>1. SUFFICES ASSUME NEW k \in DOMAIN listed, listed'[k] # listed[k]
               PROVE  /\ feed'[k].life # "deleted"
                      /\ feed'[k].status = "synced" /\ ~feed'[k].error
                      /\ EndsSync(r, k)
  BY DEF ListsMind
<1> DEFINE item == requests[r].item
           f == ProviderSynced(item)
           g == IF backend = "memory" THEN f ELSE WithConfig(f, feed["provider"])
<1>2. listed' # listed
  BY <1>1
<1>3. PICK list \in Catalogs :
        /\ UpdateRuleProviderSyncState(f, r) /\ item.enabled
        /\ listed' = IF Live("provider") THEN [listed EXCEPT !["provider"] = list] ELSE listed
  BY <1>2 DEF EndProviderSync
<1>a. EndsSync(r, "provider")
  <2>1. requests[r] \in Reading /\ requests[r] # Idle /\ requests[r].feed = "provider"
        /\ requests[r].op \in {"sync", "retry"} /\ End(r)
    BY FeedTypeFacts, RequestOps DEF EndProviderSync
  <2> QED BY <1>3, <2>1 DEF EndsSync, End, TypeInv, RequestTypes
<1>4. Live("provider") /\ k = "provider" /\ Write("provider", g, r)
  BY <1>1, <1>3 DEF UpdateRuleProviderSyncState
<1>5. "provider" \in Feeds /\ feed["provider"] \in FeedRow /\ feed \in [Feeds -> FeedRow]
  BY FeedTypeFacts DEF Feeds
<1>6. requests[r] \in Reading
  BY FeedTypeFacts, RequestOps DEF EndProviderSync
<1>7. f \in FeedRow /\ f.status = "synced" /\ ~f.error
  <2>1. item \in FeedRow
    BY <1>6, ReadingHolds
  <2>2. f \in FeedRow
    BY <2>1, RowsWorked DEF SameConfig
  <2> QED BY <2>1, <2>2 DEF ProviderSynced, FeedRow
<1> HIDE DEF f
<1>8. g \in FeedRow /\ g.status = "synced" /\ ~g.error
  <2>1. WithConfig(f, feed["provider"]) \in FeedRow
    BY <1>5, <1>7, RowWritten
  <2> QED BY <1>7, <2>1 DEF WithConfig, FeedRow
<1> HIDE DEF g
<1>9. feed'["provider"] = [g EXCEPT !.life = "live"]
  BY <1>4, <1>5 DEF Write, Live
<1> QED BY <1>4, <1>8, <1>9, <1>a DEF FeedRow

LEMMA DeletionMinds ==
  ASSUME TypeInv, NEW k \in Feeds, DeleteFeed(k)
  PROVE  ListsMind
<1>1. feed[k] \in FeedRow /\ feed \in [Feeds -> FeedRow]
  BY FeedTypeFacts
<1>2. feed'[k].life = "deleted"
  BY <1>1 DEF DeleteFeed, FeedRow
<1> QED BY <1>2 DEF DeleteFeed, ListsMind

LEMMA ListStep == TypeInv /\ [Next]_vars => [ListsMind]_vars
<1> SUFFICES ASSUME TypeInv, Next PROVE ListsMind
  BY DEF vars
<1>1. CASE listed' = listed
  BY <1>1 DEF ListsMind
<1>2. ASSUME FeedStep, listed' # listed PROVE ListsMind
  <2>1. \/ \E r \in Requests : EndCatalogSync(r) \/ EndProviderSync(r)
        \/ \E k \in Feeds : DeleteFeed(k)
    <3> USE DEF Start, catalogVars
    <3>1. ASSUME NEW r \in Requests PROVE
          /\ \A c \in Configurations : UpdateRuleCatalog(r, c) => listed' = listed
          /\ EndCatalogUpdate(r) \/ SyncRuleCatalog(r) => listed' = listed
      BY DEF UpdateRuleCatalog, EndCatalogUpdate, SyncRuleCatalog
    <3>2. ASSUME NEW r \in Requests PROVE
          /\ ValidateRuleProvider(r) \/ EndProviderValidation(r) => listed' = listed
          /\ SyncRuleProvider(r) \/ RetryRuleProvider(r) => listed' = listed
          /\ RefreshRuleAccountSource(r) \/ EndAccountRefresh(r) \/ EndDecision(r) => listed' = listed
      BY DEF ValidateRuleProvider, EndProviderValidation, SyncRuleProvider, RetryRuleProvider,
             RefreshRuleAccountSource, EndAccountRefresh, EndDecision
    <3>3. ASSUME NEW r \in Requests, NEW i, NEW d, DecideRuleReviewQueueItem(r, i, d)
          PROVE  listed' = listed
      BY <3>3 DEF DecideRuleReviewQueueItem
    <3>4. ASSUME NEW c \in Configurations, UpdateRuleProvider(c) \/ UpdateRuleAccountSource(c)
          PROVE  listed' = listed
      BY <3>4 DEF UpdateRuleProvider, UpdateRuleAccountSource
    <3> QED BY <1>2, <3>1, <3>2, <3>3, <3>4 DEF FeedStep
  <2> QED BY <2>1, CatalogSyncMinds, ProviderSyncMinds, DeletionMinds
<1>3. CASE UNCHANGED catalogVars
  BY <1>1, <1>3 DEF catalogVars
<1>4. CASE Restart
  BY <1>1, <1>4 DEF Restart, catalogVars
<1> QED BY <1>1, <1>2, <1>3, <1>4 DEF Next

\* The packages listed of a feed change only with its deletion, and then to
\* none, or at the end of a sync that read the feed enabled, by the write that
\* calls it a success.
THEOREM ListsChangeBySync == Spec => OnlySyncsChangeTheLists
<1>1. TypeInv /\ [Next]_vars => [ListsMind]_vars
  BY ListStep
<1>2. Spec => [][ListsMind]_vars
  BY <1>1, Typed, PTL DEF Spec
<1> QED BY <1>2 DEF OnlySyncsChangeTheLists, ListsMind, EndsSync

-----------------------------------------------------------------------------
(***************************************************************************)
(* Edits survive.  A write of a feed makes a race of every other request   *)
(* that holds an older reading of it.                                      *)
(***************************************************************************)
LEMMA OfReads ==
  ASSUME TypeInv, NEW k \in Feeds, NEW r \in Of(k)
  PROVE  /\ r \in Requests /\ requests[r] \in Reading /\ requests[r].feed = k
         /\ requests[r].op \in Operations(k) /\ requests[r].item \in FeedRow
<1>1. r \in Requests /\ requests[r] # Idle /\ requests[r].feed = k
  BY DEF Of
<1>2. requests[r] \in Reading
  BY <1>1, FeedTypeFacts, RequestOps
<1> QED BY <1>1, <1>2, ReadingHolds

\* Readings that stay are of the same feed as before.
LEMMA StayingReads ==
  ASSUME TypeInv, TypeInv', ReadingsStay, NEW k \in Feeds, NEW s \in Of(k)'
  PROVE  s \in Of(k) /\ requests'[s] = requests[s]
<1>1. s \in Requests /\ requests'[s] # Idle /\ requests'[s].feed = k
  BY DEF Of
<1>2. requests'[s] \in Request
  BY <1>1 DEF TypeInv, RequestTypes
<1>3. requests'[s] \in Reading
  BY <1>1, <1>2, RequestOps
<1>4. requests'[s] = requests[s]
  BY <1>1, <1>3 DEF ReadingsStay
<1> QED BY <1>1, <1>4 DEF Of

\* Requests come and go, and no feed is written.
LEMMA EditsKept ==
  ASSUME TypeInv, EditsInv, backend' = backend, wanted' = wanted, raced' = raced,
         \A k \in Feeds : Config(feed'[k]) = Config(feed[k]),
         \A k \in Feeds : \A s \in Of(k)' :
            \/ s \in Of(k) /\ requests'[s] = requests[s]
            \/ requests'[s].op \in WritesBack(k) => Config(requests'[s].item) = Config(feed[k])
  PROVE  EditsInv'
<1>1. SUFFICES ASSUME NEW k \in Feeds, raced'[k] \cap WritesBack(k)' = {}
               PROVE  /\ Config(feed'[k]) = wanted'[k]
                      /\ \A s \in Of(k)' : requests'[s].op \in WritesBack(k)'
                            => Config(requests'[s].item) = wanted'[k]
  BY DEF EditsInv
<1>2. WritesBack(k)' = WritesBack(k)
  BY DEF WritesBack
<1>3. /\ Config(feed[k]) = wanted[k]
      /\ \A s \in Of(k) : requests[s].op \in WritesBack(k) => Config(requests[s].item) = wanted[k]
  BY <1>1, <1>2 DEF EditsInv
<1> QED BY <1>2, <1>3

\* A feed is written, by a request that ends or by an edit made at once.
LEMMA EditsWritten ==
  ASSUME TypeInv, EditsInv, backend' = backend, NEW k \in Feeds, NEW f \in FeedRow, NEW r,
         Write(k, f, r),
         \/ r \in Requests /\ End(r)
         \/ r \notin Requests /\ requests' = requests,
         NEW w, wanted' = [wanted EXCEPT ![k] = w],
         ~Live(k) => w = wanted[k],
         Live(k) /\ raced[k] \cap WritesBack(k) = {} => Config(f) = w
  PROVE  EditsInv'
<1>1. SUFFICES ASSUME NEW j \in Feeds, raced'[j] \cap WritesBack(j)' = {}
               PROVE  /\ Config(feed'[j]) = wanted'[j]
                      /\ \A s \in Of(j)' : requests'[s].op \in WritesBack(j)'
                            => Config(requests'[s].item) = wanted'[j]
  BY DEF EditsInv
<1> DEFINE g == IF feed[k].life = "live" THEN [f EXCEPT !.life = "live"] ELSE feed[k]
<1>2. /\ WritesBack(j)' = WritesBack(j) /\ feed' = [feed EXCEPT ![k] = g]
      /\ raced' = [raced EXCEPT ![k] = @ \cup {requests[q].op : q \in Of(k) \ {r}}]
  BY DEF WritesBack, Write, Overtake
<1>3. feed \in [Feeds -> FeedRow] /\ raced = [l \in Feeds |-> raced[l]]
      /\ wanted \in [Feeds -> Configurations]
  BY FeedTypeFacts
<1>4. \A s \in Of(j)' : s \in Of(j) \ {r} /\ requests'[s] = requests[s]
  BY DEF Of, End, TypeInv, RequestTypes
<1>5. raced[j] \subseteq raced'[j]
  BY <1>2, <1>3
<1>6. /\ Config(feed[j]) = wanted[j]
      /\ \A s \in Of(j) : requests[s].op \in WritesBack(j) => Config(requests[s].item) = wanted[j]
      /\ raced[j] \cap WritesBack(j) = {}
  BY <1>1, <1>2, <1>5 DEF EditsInv
<1>7. CASE j # k
  BY <1>2, <1>3, <1>4, <1>6, <1>7
<1>8. CASE j = k
  <2>1. feed'[k] = g /\ wanted'[k] = w
    BY <1>2, <1>3
  <2>2. Config(g) = w
    <3>1. Config([f EXCEPT !.life = "live"]) = Config(f)
      BY DEF Config, FeedRow
    <3> QED BY <1>6, <1>8, <3>1 DEF Live
  <2>3. ASSUME NEW s \in Of(j)' PROVE requests'[s].op \notin WritesBack(j)
    <3>1. requests[s].op \in raced'[k]
      BY <1>2, <1>3, <1>4, <1>8
    <3> QED BY <1>1, <1>2, <1>4, <1>8, <3>1
  <2> QED BY <1>2, <1>8, <2>1, <2>2, <2>3
<1> QED BY <1>7, <1>8

LEMMA StartEdits ==
  ASSUME TypeInv, EditsInv, backend' = backend, NEW r \in Requests, NEW k, NEW op, NEW item,
         Start(r, k, op, item),
         \A j \in Feeds : (j = k /\ op \in WritesBack(j)) => Config(item) = Config(feed[j])
  PROVE  EditsInv'
<1>1. /\ UNCHANGED <<feed, wanted, raced>>
      /\ requests' = [requests EXCEPT ![r] = [op |-> op, feed |-> k, item |-> item]]
  BY DEF Start, catalogVars
<1>2. requests'[r] = [op |-> op, feed |-> k, item |-> item]
      /\ \A s \in Requests : s # r => requests'[s] = requests[s]
  BY <1>1 DEF TypeInv, RequestTypes
<1>3. ASSUME NEW j \in Feeds, NEW s \in Of(j)'
      PROVE  \/ s \in Of(j) /\ requests'[s] = requests[s]
             \/ requests'[s].op \in WritesBack(j) => Config(requests'[s].item) = Config(feed[j])
  <2>1. s \in Requests /\ requests'[s] # Idle /\ requests'[s].feed = j
    BY DEF Of
  <2>2. CASE s = r
    BY <1>2, <2>1, <2>2
  <2>3. CASE s # r
    BY <1>2, <2>1, <2>3 DEF Of
  <2> QED BY <2>2, <2>3
<1> QED BY <1>1, <1>3, EditsKept

LEMMA EndEdits ==
  ASSUME TypeInv, EditsInv, backend' = backend, NEW r \in Requests, End(r),
         UNCHANGED <<feed, wanted, raced>>
  PROVE  EditsInv'
<1>1. \A k \in Feeds : \A s \in Of(k)' : s \in Of(k) /\ requests'[s] = requests[s]
  BY DEF Of, End, TypeInv, RequestTypes
<1> QED BY <1>1, EditsKept

LEMMA CatalogEdits ==
  ASSUME TypeInv, EditsInv, backend' = backend, NEW r \in Requests
  PROVE  /\ \A c \in Configurations : UpdateRuleCatalog(r, c) => EditsInv'
         /\ EndCatalogUpdate(r) => EditsInv'
         /\ SyncRuleCatalog(r) => EditsInv'
         /\ EndCatalogSync(r) => EditsInv'
<1> DEFINE item == requests[r].item
<1>0. "catalog" \in Feeds /\ feed["catalog"] \in FeedRow /\ WritesBack("catalog") = {"sync"}
      /\ wanted \in [Feeds -> Configurations]
  BY FeedTypeFacts DEF Feeds, WritesBack
<1>1. ASSUME NEW c \in Configurations, UpdateRuleCatalog(r, c) PROVE EditsInv'
  BY <1>0, <1>1, StartEdits DEF UpdateRuleCatalog
<1>2. CASE EndCatalogUpdate(r)
  <2>1. requests[r] \in Reading
    BY <1>2, FeedTypeFacts, RequestOps DEF EndCatalogUpdate
  <2>2. item \in FeedRow
    BY <2>1, ReadingHolds
  <2> DEFINE w == IF Live("catalog") THEN Config(item) ELSE wanted["catalog"]
  <2>3. Write("catalog", item, r) /\ End(r) /\ wanted' = [wanted EXCEPT !["catalog"] = w]
    BY <1>0, <1>2 DEF EndCatalogUpdate
  <2> QED BY <1>0, <2>2, <2>3, EditsWritten
<1>3. CASE SyncRuleCatalog(r)
  BY <1>3, StartEdits DEF SyncRuleCatalog
<1>4. CASE EndCatalogSync(r)
  <2>1. requests[r] \in Reading /\ requests[r].op = "sync" /\ requests[r].feed = "catalog"
    BY <1>4, FeedTypeFacts, RequestOps DEF EndCatalogSync
  <2>2. item \in FeedRow /\ r \in Of("catalog")
    BY <2>1, FeedTypeFacts, ReadingHolds, RequestOps DEF Of
  <2>3. wanted' = [wanted EXCEPT !["catalog"] = wanted["catalog"]] /\ End(r) /\ wanted' = wanted
    BY <1>0, <1>4 DEF EndCatalogSync
  <2>4. raced["catalog"] \cap WritesBack("catalog") = {}
           => Config(item) = wanted["catalog"] /\ Config(feed["catalog"]) = wanted["catalog"]
    BY <1>0, <2>1, <2>2 DEF EditsInv
  <2>5. ASSUME NEW f \in FeedRow, Write("catalog", f, r),
               Config(f) = Config(item) \/ Config(f) = Config(feed["catalog"])
        PROVE  EditsInv'
    BY <1>0, <2>3, <2>4, <2>5, EditsWritten
  <2>6. CASE Write("catalog", Disabled(item), r)
    BY <2>2, <2>5, <2>6, RowsWorked DEF SameConfig
  <2>7. CASE Write("catalog", Failed(item), r)
    BY <2>2, <2>5, <2>7, RowsWorked DEF SameConfig
  <2>8. ASSUME NEW list, ReplaceRuleCatalogPackages(r, list) PROVE EditsInv'
    <3> DEFINE f == [feed["catalog"] EXCEPT !.status = "synced", !.error = FALSE]
    <3>1. SameConfig(f, feed["catalog"])
      BY <1>0, RowsWorked
    <3>2. Write("catalog", f, r)
      BY <2>8 DEF ReplaceRuleCatalogPackages
    <3> HIDE DEF f
    <3> QED BY <2>5, <3>1, <3>2 DEF SameConfig
  <2>9. CASE UNCHANGED <<feed, listed, raced>>
    BY <2>3, <2>9, EndEdits
  <2> QED BY <1>4, <2>6, <2>7, <2>8, <2>9 DEF EndCatalogSync
<1> QED BY <1>1, <1>2, <1>3, <1>4

LEMMA ProviderEdits ==
  ASSUME TypeInv, EditsInv, backend' = backend
  PROVE  /\ \A c \in Configurations : UpdateRuleProvider(c) => EditsInv'
         /\ \A r \in Requests :
              /\ ValidateRuleProvider(r) \/ SyncRuleProvider(r) \/ RetryRuleProvider(r) => EditsInv'
              /\ EndProviderValidation(r) => EditsInv'
              /\ EndProviderSync(r) => EditsInv'
<1>0. "provider" \in Feeds /\ feed["provider"] \in FeedRow /\ wanted \in [Feeds -> Configurations]
      /\ "none" \notin Requests
      /\ WritesBack("provider") = {"validate"} \cup IF backend = "memory" THEN {"sync", "retry"} ELSE {}
  BY CatalogAssumption, FeedTypeFacts DEF Feeds, WritesBack
<1>1. ASSUME NEW c \in Configurations, UpdateRuleProvider(c) PROVE EditsInv'
  <2> DEFINE f == UpdatedProvider(feed["provider"], Fresh(c))
  <2>1. f \in FeedRow /\ Config(f) = c
    BY <1>0, FreshRow, RowWritten
  <2>2. /\ Write("provider", f, "none") /\ requests' = requests /\ Live("provider")
        /\ wanted' = [wanted EXCEPT !["provider"] = c]
    BY <1>1 DEF UpdateRuleProvider, Once
  <2> HIDE DEF f
  <2> QED BY <1>0, <2>1, <2>2, EditsWritten
<1>2. ASSUME NEW r \in Requests, ValidateRuleProvider(r) \/ SyncRuleProvider(r) \/ RetryRuleProvider(r)
      PROVE  EditsInv'
  BY <1>2, StartEdits DEF ValidateRuleProvider, SyncRuleProvider, RetryRuleProvider
<1>3. ASSUME NEW r \in Requests, End(r), wanted' = wanted, requests[r].feed = "provider",
             requests[r] \in Reading,
             NEW f \in FeedRow, Write("provider", f, r),
             \/ Config(f) = Config(feed["provider"])
             \/ Config(f) = Config(requests[r].item) /\ requests[r].op \in WritesBack("provider")
      PROVE  EditsInv'
  <2>1. r \in Of("provider")
    BY <1>3, FeedTypeFacts, RequestOps, ReadingHolds, OthersHold DEF Of
  <2>2. wanted' = [wanted EXCEPT !["provider"] = wanted["provider"]]
    BY <1>0, <1>3
  <2>3. raced["provider"] \cap WritesBack("provider") = {} => Config(f) = wanted["provider"]
    BY <1>0, <1>3, <2>1 DEF EditsInv
  <2> QED BY <1>0, <1>3, <2>2, <2>3, EditsWritten
<1>4. ASSUME NEW r \in Requests, EndProviderValidation(r) PROVE EditsInv'
  <2> DEFINE item == ValidateProviderCredentials(requests[r].item)
             f == UpdatedProvider(feed["provider"], item)
  <2>1. requests[r] \in Reading /\ requests[r].op = "validate"
    BY <1>4, FeedTypeFacts, RequestOps DEF EndProviderValidation
  <2>2. requests[r].item \in FeedRow /\ requests[r].feed = "provider"
    BY <2>1, ReadingHolds DEF Operations, Feeds
  <2>3. SameConfig(item, requests[r].item)
    BY <2>2, RowsWorked
  <2>4. f \in FeedRow /\ Config(f) = Config(requests[r].item)
    BY <1>0, <2>3, RowWritten DEF SameConfig
  <2>5. Write("provider", f, r) /\ End(r) /\ wanted' = wanted
    BY <1>4 DEF EndProviderValidation
  <2> HIDE DEF f
  <2> QED BY <1>0, <1>3, <2>1, <2>2, <2>4, <2>5
<1>5. ASSUME NEW r \in Requests, EndProviderSync(r) PROVE EditsInv'
  <2> DEFINE item == requests[r].item
  <2>1. /\ requests[r] \in Reading /\ requests[r].op \in {"sync", "retry"}
        /\ requests[r].feed = "provider" /\ End(r) /\ wanted' = wanted
    BY <1>5, FeedTypeFacts, RequestOps DEF EndProviderSync
  <2>2. item \in FeedRow
    BY <2>1, ReadingHolds
  <2>3. ASSUME NEW f, SameConfig(f, item), UpdateRuleProviderSyncState(f, r) PROVE EditsInv'
    <3>1. f \in FeedRow /\ Config(f) = Config(item)
      BY <2>2, <2>3 DEF SameConfig
    <3>2. CASE backend = "memory"
      <4>1. Write("provider", f, r)
        BY <2>3, <3>2 DEF UpdateRuleProviderSyncState
      <4> QED BY <1>0, <1>3, <2>1, <3>1, <3>2, <4>1
    <3>3. CASE backend # "memory"
      <4> DEFINE g == WithConfig(f, feed["provider"])
      <4>1. g \in FeedRow /\ Config(g) = Config(feed["provider"])
        BY <1>0, <3>1, RowWritten
      <4>2. Write("provider", g, r)
        BY <2>3, <3>3 DEF UpdateRuleProviderSyncState
      <4> HIDE DEF g
      <4> QED BY <1>3, <2>1, <4>1, <4>2
    <3> QED BY <3>2, <3>3
  <2>4. SameConfig([Disabled(item) EXCEPT !.health = "disabled", !.error = TRUE], item)
    BY <2>2, RowsWorked
  <2>5. SameConfig(ProviderSynced(item), item)
    BY <2>2, RowsWorked
  <2>6. \A unauthorized, manual \in BOOLEAN :
          SameConfig(ProviderSyncFailure(item, unauthorized, manual), item)
    BY <2>2, RowFailed
  <2>7. (item.source \in Denied) \in BOOLEAN /\ (requests[r].op = "retry") \in BOOLEAN
    OBVIOUS
  <2>8. CASE UNCHANGED <<feed, listed, raced>>
    BY <2>1, <2>8, EndEdits
  <2> HIDE DEF item
  <2>9. \/ UpdateRuleProviderSyncState([Disabled(item) EXCEPT !.health = "disabled", !.error = TRUE], r)
        \/ \E unauthorized, manual \in BOOLEAN :
              UpdateRuleProviderSyncState(ProviderSyncFailure(item, unauthorized, manual), r)
        \/ UpdateRuleProviderSyncState(ProviderSynced(item), r)
        \/ UNCHANGED <<feed, listed, raced>>
    BY <1>5, <2>7 DEF EndProviderSync, item
  <2> QED BY <2>3, <2>4, <2>5, <2>6, <2>8, <2>9
<1> QED BY <1>1, <1>2, <1>4, <1>5

LEMMA AccountEdits ==
  ASSUME TypeInv, EditsInv, backend' = backend
  PROVE  /\ \A c \in Configurations : UpdateRuleAccountSource(c) => EditsInv'
         /\ \A r \in Requests :
              /\ RefreshRuleAccountSource(r) => EditsInv'
              /\ EndAccountRefresh(r) => EditsInv'
              /\ \A i, d : DecideRuleReviewQueueItem(r, i, d) => EditsInv'
              /\ EndDecision(r) => EditsInv'
         /\ \A k \in Feeds : DeleteFeed(k) => EditsInv'
<1>0. "account" \in Feeds /\ feed["account"] \in FeedRow /\ wanted \in [Feeds -> Configurations]
      /\ "none" \notin Requests
      /\ WritesBack("account") = IF backend = "memory" THEN {"refresh"} ELSE {}
  BY CatalogAssumption, FeedTypeFacts DEF Feeds, WritesBack
<1>1. ASSUME NEW c \in Configurations, UpdateRuleAccountSource(c) PROVE EditsInv'
  <2> DEFINE f == [Fresh(c) EXCEPT !.error = IF backend = "memory" THEN feed["account"].error ELSE @]
  <2>1. f \in FeedRow /\ Config(f) = c
    <3>1. Fresh(c) \in FeedRow /\ Config(Fresh(c)) = c
      BY FreshRow
    <3> QED BY <1>0, <3>1 DEF FeedRow, Config
  <2>2. /\ Write("account", f, "none") /\ requests' = requests /\ Live("account")
        /\ wanted' = [wanted EXCEPT !["account"] = c]
    BY <1>1 DEF UpdateRuleAccountSource, Once
  <2> HIDE DEF f
  <2> QED BY <1>0, <2>1, <2>2, EditsWritten
<1>2. ASSUME NEW r \in Requests, RefreshRuleAccountSource(r) PROVE EditsInv'
  BY <1>2, StartEdits DEF RefreshRuleAccountSource
<1>3. ASSUME NEW r \in Requests, EndAccountRefresh(r) PROVE EditsInv'
  <2> DEFINE item == RefreshedAccount(requests[r].item)
             f == IF backend = "memory" THEN item ELSE WithConfig(item, feed["account"])
  <2>1. requests[r] \in Reading /\ requests[r].op = "refresh"
    BY <1>3, FeedTypeFacts, RequestOps DEF EndAccountRefresh
  <2>2. requests[r].item \in FeedRow /\ requests[r].feed = "account" /\ r \in Of("account")
    <3>1. requests[r].item \in FeedRow /\ requests[r].feed = "account"
      BY <2>1, ReadingHolds DEF Operations, Feeds
    <3> QED BY <2>1, <3>1, OthersHold DEF Of
  <2>3. item \in FeedRow /\ Config(item) = Config(requests[r].item)
    BY <2>2, RowsWorked DEF SameConfig
  <2>4. Write("account", f, r) /\ End(r) /\ wanted' = [wanted EXCEPT !["account"] = wanted["account"]]
    BY <1>0, <1>3 DEF EndAccountRefresh
  <2> HIDE DEF item
  <2>5. f \in FeedRow
        /\ Config(f) = IF backend = "memory" THEN Config(requests[r].item) ELSE Config(feed["account"])
    BY <1>0, <2>3, RowWritten
  <2> HIDE DEF f
  <2>6. raced["account"] \cap WritesBack("account") = {} => Config(f) = wanted["account"]
    BY <1>0, <2>1, <2>2, <2>5 DEF EditsInv
  <2> QED BY <1>0, <2>4, <2>5, <2>6, EditsWritten
<1>4. ASSUME NEW r \in Requests, NEW i, NEW d, DecideRuleReviewQueueItem(r, i, d) PROVE EditsInv'
  <2>1. "queue" \notin Feeds
    BY DEF Feeds
  <2> QED BY <1>4, <2>1, StartEdits DEF DecideRuleReviewQueueItem
<1>5. ASSUME NEW r \in Requests, EndDecision(r) PROVE EditsInv'
  BY <1>5, EndEdits DEF EndDecision
<1>6. ASSUME NEW k \in Feeds, DeleteFeed(k) PROVE EditsInv'
  <2>1. /\ UNCHANGED <<requests, wanted, raced>> /\ feed' = [feed EXCEPT ![k].life = "deleted"]
    BY <1>6 DEF DeleteFeed, Once
  <2>2. \A j \in Feeds : Config(feed'[j]) = Config(feed[j])
    BY <2>1, FeedTypeFacts DEF Config, FeedRow
  <2>3. \A j \in Feeds : Of(j)' = Of(j)
    BY <2>1 DEF Of
  <2> QED BY <2>1, <2>2, <2>3, EditsKept
<1> QED BY <1>1, <1>2, <1>3, <1>4, <1>5, <1>6

LEMMA EditsStep == TypeInv /\ TypeInv' /\ EditsInv /\ [Next]_vars => EditsInv'
<1> SUFFICES ASSUME TypeInv, TypeInv', EditsInv, [Next]_vars PROVE EditsInv'
  OBVIOUS
<1>1. CASE UNCHANGED vars
  BY <1>1 DEF vars, EditsInv, WritesBack, Of
<1>2. CASE UNCHANGED backend /\ FeedStep
  BY <1>2, CatalogEdits, ProviderEdits, AccountEdits DEF FeedStep
<1>3. CASE UNCHANGED backend /\ UNCHANGED catalogVars /\ ReadingsStay
  <2>1. UNCHANGED <<feed, wanted, raced>>
    BY <1>3 DEF catalogVars
  <2>2. \A k \in Feeds : \A s \in Of(k)' : s \in Of(k) /\ requests'[s] = requests[s]
    BY <1>3, StayingReads
  <2> QED BY <1>3, <2>1, <2>2, EditsKept
<1>4. CASE UNCHANGED backend /\ PackageStep /\ UNCHANGED catalogVars
  BY <1>3, <1>4, PackageStepTypes
<1>5. CASE UNCHANGED backend /\ Restart
  BY <1>3, <1>5 DEF Restart, ReadingsStay
<1> QED BY <1>1, <1>2, <1>4, <1>5 DEF Next

LEMMA EditsInit == Init => EditsInv
<1> SUFFICES ASSUME Init PROVE EditsInv
  OBVIOUS
<1>1. PICK c \in Configurations : wanted = [k \in Feeds |-> c] /\ feed = [k \in Feeds |-> Fresh(c)]
  BY DEF Init
<1>2. \A k \in Feeds : Of(k) = {}
  BY DEF Init, Of
<1> QED BY <1>1, <1>2, FreshRow DEF EditsInv

\* The configuration of a feed is the one last acknowledged, unless a request
\* that writes back what it read has seen another write the feed: an edit is
\* undone in no other way, however many requests there are.
THEOREM SyncsUndoNoEdit == Spec => []EditsSurviveSyncs
<1>1. Init => EditsInv
  BY EditsInit
<1>2. TypeInv /\ TypeInv' /\ EditsInv /\ [Next]_vars => EditsInv'
  BY EditsStep
<1>3. EditsInv => EditsSurviveSyncs
  BY DEF EditsInv, EditsSurviveSyncs
<1> QED BY <1>1, <1>2, <1>3, Typed, PTL DEF Spec

-----------------------------------------------------------------------------
(***************************************************************************)
(* Retries count failures.                                                 *)
(***************************************************************************)
\* Requests come and go, and the provider is not written.
LEMMA RetriesKept ==
  ASSUME RetriesInv, backend' = backend, raced'["provider"] = raced["provider"],
         failures' = failures,
         Live("provider")' => feed'["provider"] = feed["provider"],
         \A s \in Of("provider")' :
            \/ s \in Of("provider") /\ requests'[s] = requests[s]
            \/ SameAttempts(requests'[s].item, feed["provider"])
  PROVE  RetriesInv'
<1>1. SUFFICES ASSUME Live("provider")', raced'["provider"] = {}
               PROVE  /\ Counted(feed'["provider"], failures')
                      /\ \A s \in Of("provider")' : SameAttempts(requests'[s].item, feed'["provider"])
  BY DEF RetriesInv, Counted
<1>2. feed'["provider"] = feed["provider"]
  BY <1>1
<1>3. Live("provider") /\ raced["provider"] = {}
  BY <1>1, <1>2 DEF Live
<1>4. /\ Counted(feed["provider"], failures)
      /\ \A s \in Of("provider") : SameAttempts(requests[s].item, feed["provider"])
  BY <1>3 DEF RetriesInv
<1> QED BY <1>2, <1>4 DEF Counted

\* The provider is written: another request under way would make it a race.
LEMMA RetriesWritten ==
  ASSUME TypeInv, RetriesInv, backend' = backend, NEW f \in FeedRow, NEW r, Write("provider", f, r),
         \/ r \in Requests /\ End(r)
         \/ r \notin Requests /\ requests' = requests,
         Live("provider") /\ raced["provider"] = {} => Counted(f, failures')
  PROVE  RetriesInv'
<1>0. "provider" \in Feeds /\ feed \in [Feeds -> FeedRow] /\ raced = [k \in Feeds |-> raced[k]]
  BY FeedTypeFacts DEF Feeds
<1> DEFINE g == IF feed["provider"].life = "live" THEN [f EXCEPT !.life = "live"] ELSE feed["provider"]
<1>1. SUFFICES ASSUME Live("provider")', raced'["provider"] = {}
               PROVE  /\ Counted(feed'["provider"], failures')
                      /\ \A s \in Of("provider")' : SameAttempts(requests'[s].item, feed'["provider"])
  BY DEF RetriesInv, Counted
<1>2. /\ feed'["provider"] = g
      /\ raced'["provider"] = raced["provider"] \cup {requests[q].op : q \in Of("provider") \ {r}}
  BY <1>0 DEF Write, Overtake
<1>3. raced["provider"] = {} /\ Of("provider") \ {r} = {}
  BY <1>1, <1>2
<1>4. Of("provider")' = {}
  BY <1>3 DEF Of, End, TypeInv, RequestTypes
<1>5. feed["provider"].life = "live"
  BY <1>1, <1>2 DEF Live
<1>6. g.attempts = f.attempts /\ g.retry = f.retry /\ g.exhausted = f.exhausted
  BY <1>5 DEF FeedRow
<1>7. Counted(f, failures')
  BY <1>3, <1>5 DEF Live
<1>8. Counted(g, failures')
  BY <1>6, <1>7 DEF Counted
<1> QED BY <1>2, <1>4, <1>8 DEF Counted

LEMMA StartRetries ==
  ASSUME TypeInv, RetriesInv, backend' = backend, NEW r \in Requests, NEW k, NEW op, NEW item, Start(r, k, op, item),
         k = "provider" => SameAttempts(item, feed["provider"])
  PROVE  RetriesInv'
<1>1. /\ UNCHANGED <<feed, failures, raced>>
      /\ requests' = [requests EXCEPT ![r] = [op |-> op, feed |-> k, item |-> item]]
  BY DEF Start, catalogVars
<1>2. requests'[r] = [op |-> op, feed |-> k, item |-> item]
      /\ \A s \in Requests : s # r => requests'[s] = requests[s]
  BY <1>1 DEF TypeInv, RequestTypes
<1>3. ASSUME NEW s \in Of("provider")'
      PROVE  \/ s \in Of("provider") /\ requests'[s] = requests[s]
             \/ SameAttempts(requests'[s].item, feed["provider"])
  <2>1. s \in Requests /\ requests'[s] # Idle /\ requests'[s].feed = "provider"
    BY DEF Of
  <2>2. CASE s = r
    BY <1>2, <2>1, <2>2
  <2>3. CASE s # r
    BY <1>2, <2>1, <2>3 DEF Of
  <2> QED BY <2>2, <2>3
<1> QED BY <1>1, <1>3, RetriesKept

\* A request that ends having written another feed, or none.
LEMMA OtherRetries ==
  ASSUME TypeInv, RetriesInv, backend' = backend, NEW r \in Requests, End(r),
         feed'["provider"] = feed["provider"], raced'["provider"] = raced["provider"],
         failures' = failures
  PROVE  RetriesInv'
<1>1. \A s \in Of("provider")' : s \in Of("provider") /\ requests'[s] = requests[s]
  BY DEF Of, End, TypeInv, RequestTypes
<1> QED BY <1>1, RetriesKept

LEMMA OtherWrite ==
  ASSUME TypeInv, NEW k \in {"catalog", "account"}, NEW f, NEW r, Write(k, f, r)
  PROVE  feed'["provider"] = feed["provider"] /\ raced'["provider"] = raced["provider"]
<1>1. k # "provider" /\ "provider" \in Feeds /\ feed \in [Feeds -> FeedRow]
      /\ raced = [j \in Feeds |-> raced[j]]
  BY FeedTypeFacts DEF Feeds
<1> QED BY <1>1 DEF Write, Overtake

LEMMA CatalogRetries ==
  ASSUME TypeInv, RetriesInv, backend' = backend, NEW r \in Requests
  PROVE  /\ \A c \in Configurations : UpdateRuleCatalog(r, c) => RetriesInv'
         /\ EndCatalogUpdate(r) => RetriesInv'
         /\ SyncRuleCatalog(r) => RetriesInv'
         /\ EndCatalogSync(r) => RetriesInv'
<1>1. ASSUME NEW c \in Configurations, UpdateRuleCatalog(r, c) PROVE RetriesInv'
  BY <1>1, StartRetries DEF UpdateRuleCatalog
<1>2. CASE EndCatalogUpdate(r)
  <2>1. Write("catalog", requests[r].item, r) /\ End(r) /\ failures' = failures
    BY <1>2 DEF EndCatalogUpdate
  <2> QED BY <2>1, OtherWrite, OtherRetries
<1>3. CASE SyncRuleCatalog(r)
  BY <1>3, StartRetries DEF SyncRuleCatalog
<1>4. CASE EndCatalogSync(r)
  <2>1. End(r) /\ (\E f : Write("catalog", f, r) \/ UNCHANGED <<feed, raced>>)
        /\ failures' = failures
    BY <1>4 DEF EndCatalogSync, ReplaceRuleCatalogPackages
  <2>2. feed'["provider"] = feed["provider"] /\ raced'["provider"] = raced["provider"]
    BY <2>1, OtherWrite
  <2> QED BY <2>1, <2>2, OtherRetries
<1> QED BY <1>1, <1>2, <1>3, <1>4

LEMMA AccountRetries ==
  ASSUME TypeInv, RetriesInv, backend' = backend
  PROVE  /\ \A c \in Configurations : UpdateRuleAccountSource(c) => RetriesInv'
         /\ \A r \in Requests :
              /\ RefreshRuleAccountSource(r) => RetriesInv'
              /\ EndAccountRefresh(r) => RetriesInv'
              /\ \A i, d : DecideRuleReviewQueueItem(r, i, d) => RetriesInv'
              /\ EndDecision(r) => RetriesInv'
         /\ \A k \in Feeds : DeleteFeed(k) => RetriesInv'
<1>1. ASSUME NEW c \in Configurations, UpdateRuleAccountSource(c) PROVE RetriesInv'
  <2>1. PICK f : Write("account", f, "none")
    BY <1>1 DEF UpdateRuleAccountSource
  <2>2. Of("provider")' = Of("provider") /\ requests' = requests /\ failures' = failures
    BY <1>1 DEF UpdateRuleAccountSource, Once, Of
  <2>3. feed'["provider"] = feed["provider"] /\ raced'["provider"] = raced["provider"]
    BY <2>1, OtherWrite
  <2> QED BY <2>2, <2>3, RetriesKept
<1>2. ASSUME NEW r \in Requests, RefreshRuleAccountSource(r) PROVE RetriesInv'
  BY <1>2, StartRetries DEF RefreshRuleAccountSource
<1>3. ASSUME NEW r \in Requests, EndAccountRefresh(r) PROVE RetriesInv'
  <2>1. PICK f : Write("account", f, r)
    BY <1>3 DEF EndAccountRefresh
  <2>2. End(r) /\ failures' = failures
    BY <1>3 DEF EndAccountRefresh
  <2> QED BY <2>1, <2>2, OtherWrite, OtherRetries
<1>4. ASSUME NEW r \in Requests, NEW i, NEW d, DecideRuleReviewQueueItem(r, i, d) PROVE RetriesInv'
  BY <1>4, StartRetries DEF DecideRuleReviewQueueItem
<1>5. ASSUME NEW r \in Requests, EndDecision(r) PROVE RetriesInv'
  BY <1>5, OtherRetries DEF EndDecision
<1>6. ASSUME NEW k \in Feeds, DeleteFeed(k) PROVE RetriesInv'
  <2>1. /\ UNCHANGED <<requests, failures, raced>> /\ feed' = [feed EXCEPT ![k].life = "deleted"]
    BY <1>6 DEF DeleteFeed, Once
  <2>2. "provider" \in Feeds /\ feed \in [Feeds -> FeedRow] /\ feed[k] \in FeedRow
    BY FeedTypeFacts DEF Feeds
  <2>3. k # "provider" => feed'["provider"] = feed["provider"]
    BY <2>1, <2>2
  <2>4. k = "provider" => feed'["provider"].life = "deleted"
    BY <2>1, <2>2 DEF FeedRow
  <2>5. Live("provider")' => feed'["provider"] = feed["provider"]
    BY <2>3, <2>4 DEF Live
  <2>6. Of("provider")' = Of("provider")
    BY <2>1 DEF Of
  <2> QED BY <2>1, <2>5, <2>6, RetriesKept
<1> QED BY <1>1, <1>2, <1>3, <1>4, <1>5, <1>6

LEMMA CountedSame ==
  ASSUME NEW f, NEW g, NEW n, SameAttempts(f, g), Counted(g, n)
  PROVE  Counted(f, n)
BY DEF SameAttempts, Counted

\* What a sync or a retry writes: the attempts of what it made of its reading.
LEMMA SyncStateRetries ==
  ASSUME TypeInv, RetriesInv, backend' = backend, NEW r \in Requests, End(r), NEW f \in FeedRow,
         UpdateRuleProviderSyncState(f, r),
         Live("provider") /\ raced["provider"] = {} => Counted(f, failures')
  PROVE  RetriesInv'
<1> DEFINE g == IF backend = "memory" THEN f ELSE WithConfig(f, feed["provider"])
<1>1. feed["provider"] \in FeedRow
  BY FeedTypeFacts DEF Feeds
<1>2. g \in FeedRow /\ SameAttempts(g, f)
  <2>1. WithConfig(f, feed["provider"]) \in FeedRow
    BY <1>1, RowWritten
  <2> QED BY <2>1 DEF SameAttempts, WithConfig, FeedRow
<1>3. Write("provider", g, r)
  BY DEF UpdateRuleProviderSyncState
<1> HIDE DEF g
<1> QED BY <1>2, <1>3, CountedSame, RetriesWritten

LEMMA ProviderRetries ==
  ASSUME TypeInv, RetriesInv, backend' = backend
  PROVE  /\ \A c \in Configurations : UpdateRuleProvider(c) => RetriesInv'
         /\ \A r \in Requests :
              /\ ValidateRuleProvider(r) \/ SyncRuleProvider(r) \/ RetryRuleProvider(r) => RetriesInv'
              /\ EndProviderValidation(r) => RetriesInv'
              /\ EndProviderSync(r) => RetriesInv'
<1>0. "provider" \in Feeds /\ feed["provider"] \in FeedRow /\ "none" \notin Requests
      /\ failures \in Nat
  BY CatalogAssumption, FeedTypeFacts DEF Feeds
<1>a. ASSUME Live("provider"), raced["provider"] = {}
      PROVE  Counted(feed["provider"], failures)
  BY <1>a DEF RetriesInv
<1>1. ASSUME NEW c \in Configurations, UpdateRuleProvider(c) PROVE RetriesInv'
  <2> DEFINE f == UpdatedProvider(feed["provider"], Fresh(c))
  <2>1. f \in FeedRow /\ SameAttempts(f, feed["provider"])
    BY <1>0, FreshRow, RowWritten DEF SameAttempts
  <2>2. Write("provider", f, "none") /\ requests' = requests /\ failures' = failures
    BY <1>1 DEF UpdateRuleProvider, Once
  <2> HIDE DEF f
  <2> QED BY <1>0, <1>a, <2>1, <2>2, CountedSame, RetriesWritten
<1>2. ASSUME NEW r \in Requests, ValidateRuleProvider(r) \/ SyncRuleProvider(r) \/ RetryRuleProvider(r)
      PROVE  RetriesInv'
  <2>1. SameAttempts(feed["provider"], feed["provider"])
    BY DEF SameAttempts
  <2> QED BY <1>2, <2>1, StartRetries DEF ValidateRuleProvider, SyncRuleProvider, RetryRuleProvider
<1>3. ASSUME NEW r \in Requests, EndProviderValidation(r) PROVE RetriesInv'
  <2> DEFINE item == ValidateProviderCredentials(requests[r].item)
             f == UpdatedProvider(feed["provider"], item)
  <2>1. requests[r].item \in FeedRow
    BY <1>3, FeedTypeFacts, RequestOps, ReadingHolds DEF EndProviderValidation
  <2>2. item \in FeedRow
    BY <2>1, RowsWorked DEF SameConfig
  <2>3. f \in FeedRow /\ SameAttempts(f, feed["provider"])
    BY <1>0, <2>2, RowWritten DEF SameAttempts
  <2>4. Write("provider", f, r) /\ End(r) /\ failures' = failures
    BY <1>3 DEF EndProviderValidation
  <2> HIDE DEF f
  <2> QED BY <1>0, <1>a, <2>3, <2>4, CountedSame, RetriesWritten
<1>4. ASSUME NEW r \in Requests, EndProviderSync(r) PROVE RetriesInv'
  <2> DEFINE item == requests[r].item
             n == failures
  <2>1. requests[r] \in Reading /\ requests[r].feed = "provider" /\ requests[r].op \in {"sync", "retry"}
    BY <1>4, FeedTypeFacts, RequestOps DEF EndProviderSync
  <2>2. item \in FeedRow /\ r \in Of("provider")
    BY <2>1, ReadingHolds, OthersHold DEF Of
  <2>3. End(r)
    BY <1>4 DEF EndProviderSync
  <2>4. Live("provider") /\ raced["provider"] = {}
           => Counted(feed["provider"], n) /\ SameAttempts(item, feed["provider"])
    BY <2>2 DEF RetriesInv
  <2>5. Live("provider") /\ raced["provider"] = {} => Counted(item, n)
    BY <2>4, CountedSame
  <2> DEFINE off == [Disabled(item) EXCEPT !.health = "disabled", !.error = TRUE]
  <2>6. CASE UpdateRuleProviderSyncState(off, r) /\ failures' = failures
    <3>1. off \in FeedRow /\ SameAttempts(off, item)
      BY <2>2, RowsWorked DEF SameConfig
    <3> HIDE DEF off
    <3> QED BY <2>3, <2>5, <2>6, <3>1, CountedSame, SyncStateRetries
  <2>7. ASSUME NEW unauthorized \in BOOLEAN, NEW manual \in BOOLEAN,
               UpdateRuleProviderSyncState(ProviderSyncFailure(item, unauthorized, manual), r),
               failures' = failures + 1
        PROVE  RetriesInv'
    <3> DEFINE f == ProviderSyncFailure(item, unauthorized, manual)
    <3>1. /\ f \in FeedRow /\ f.attempts > 0 /\ f.attempts <= item.attempts + 1
          /\ f.retry \/ f.exhausted
      BY <2>2, RowFailed DEF SameConfig
    <3>2. UpdateRuleProviderSyncState(f, r)
      BY <2>7
    <3> HIDE DEF f
    <3>3. failures' = n + 1
      BY <1>0, <2>7
    <3>4. ASSUME Counted(item, n) PROVE Counted(f, n + 1)
      <4>1. item.attempts \in Nat /\ f.attempts \in Nat /\ item.attempts <= n
        BY <2>2, <3>1, <3>4 DEF FeedRow, Counted
      <4>2. f.attempts <= n + 1 /\ n + 1 > 0
        BY <1>0, <3>1, <4>1
      <4> QED BY <3>1, <4>2 DEF Counted
    <3> QED BY <2>3, <2>5, <3>1, <3>2, <3>3, <3>4, SyncStateRetries
  <2>8. ASSUME UpdateRuleProviderSyncState(ProviderSynced(item), r),
               failures' = 0
        PROVE  RetriesInv'
    <3> DEFINE f == ProviderSynced(item)
    <3>1. f \in FeedRow /\ f.attempts = 0 /\ ~f.retry /\ ~f.exhausted
      BY <2>2, RowsWorked DEF SameConfig
    <3>2. UpdateRuleProviderSyncState(f, r)
      BY <2>8
    <3> HIDE DEF f
    <3>3. failures' = 0
      BY <1>0, <2>8
    <3>4. Counted(f, 0)
      BY <3>1 DEF Counted
    <3> QED BY <2>3, <3>1, <3>2, <3>3, <3>4, SyncStateRetries
  <2>9. CASE /\ backend = "postgres" /\ UNCHANGED <<feed, listed, raced>>
             /\ failures' = IF item.enabled THEN failures + 1 ELSE failures
    <3>1. CASE failures' = failures
      BY <2>3, <2>9, <3>1, OtherRetries
    <3>2. CASE failures' = failures + 1
      <4>1. feed["provider"].attempts \in Nat
        BY <1>0 DEF FeedRow
      <4>2. Counted(feed["provider"], failures) => Counted(feed["provider"], failures + 1)
        BY <1>0, <2>9, <4>1 DEF Counted
      <4>3. \A s \in Of("provider")' : s \in Of("provider") /\ requests'[s] = requests[s]
        BY <2>3 DEF Of, End, TypeInv, RequestTypes
      <4> QED BY <2>9, <3>2, <4>2, <4>3 DEF RetriesInv, Counted, Live
    <3> QED BY <2>9, <3>1, <3>2
  <2>10. (item.source \in Denied) \in BOOLEAN /\ (requests[r].op = "retry") \in BOOLEAN
    OBVIOUS
  <2> QED BY <1>4, <2>6, <2>7, <2>8, <2>9, <2>10 DEF EndProviderSync
<1> QED BY <1>1, <1>2, <1>3, <1>4

LEMMA RetriesStep == TypeInv /\ TypeInv' /\ RetriesInv /\ [Next]_vars => RetriesInv'
<1> SUFFICES ASSUME TypeInv, TypeInv', RetriesInv, [Next]_vars PROVE RetriesInv'
  OBVIOUS
<1>0. backend' = backend
  BY DEF Next, vars
<1>1. CASE UNCHANGED vars
  BY <1>1 DEF vars, RetriesInv, Counted, Live, Of
<1>2. CASE FeedStep
  BY <1>0, <1>2, CatalogRetries, ProviderRetries, AccountRetries DEF FeedStep
<1>3. CASE UNCHANGED catalogVars /\ ReadingsStay
  <2>1. UNCHANGED <<feed, failures, raced>>
    BY <1>3 DEF catalogVars
  <2>2. \A s \in Of("provider")' : s \in Of("provider") /\ requests'[s] = requests[s]
    BY <1>3, StayingReads DEF Feeds
  <2> QED BY <1>0, <2>1, <2>2, RetriesKept
<1>4. CASE UNCHANGED backend /\ PackageStep /\ UNCHANGED catalogVars
  BY <1>3, <1>4, PackageStepTypes
<1>5. CASE Restart
  BY <1>3, <1>5 DEF Restart, ReadingsStay
<1> QED BY <1>1, <1>2, <1>4, <1>5 DEF Next

LEMMA RetriesInit == Init => RetriesInv
<1> SUFFICES ASSUME Init PROVE RetriesInv
  OBVIOUS
<1>1. PICK c \in Configurations : feed = [k \in Feeds |-> Fresh(c)]
  BY DEF Init
<1>2. Of("provider") = {} /\ failures = 0 /\ feed["provider"] = Fresh(c)
  BY <1>1 DEF Init, Of, Feeds
<1> QED BY <1>2 DEF RetriesInv, Counted, Fresh

\* The attempts of a provider left to one request at a time are failed syncs:
\* no more than failed since the last that brought its list; and a retry is
\* due, or the retries are at their end, exactly while it has some.
THEOREM AttemptsCountFailures == Spec => []AttemptsAreFailures
<1>1. Init => RetriesInv
  BY RetriesInit
<1>2. TypeInv /\ TypeInv' /\ RetriesInv /\ [Next]_vars => RetriesInv'
  BY RetriesStep
<1>3. RetriesInv => AttemptsAreFailures
  BY DEF RetriesInv, Counted, AttemptsAreFailures
<1> QED BY <1>1, <1>2, <1>3, Typed, PTL DEF Spec

-----------------------------------------------------------------------------
(***************************************************************************)
(* Imports left alone.                                                     *)
(***************************************************************************)
\* The rules of one package, once more, after a step: what it means for the
\* request that a step leaves.
LEMMA SoundAfter ==
  ASSUME NEW r, NEW q, requests'[r] = q, q.op = "import" => ImportSound(q)',
         q.op = "test" => rules'[q.id] = q.rule
  PROVE  WriterSound(requests[r])'
BY DEF WriterSound, ImportSound, From, Installed

\* A rule is written again, with the origin it had.
LEMMA Rewritten ==
  ASSUME PackageTypes, NEW id \in RuleIn, NEW x \in StoredRule,
         rules' = [rules EXCEPT ![id] = x], Origin(x) = Origin(rules[id])
  PROVE  /\ RuleIn' = RuleIn /\ rules'[id] = x
         /\ \A y \in RuleIds : y # id => rules'[y] = rules[y]
         /\ \A c, i, y : From(c, i, y)' <=> From(c, i, y)
         /\ OneRulePerOrigin => OneRulePerOrigin'
<1>1. rules \in [RuleIds -> StoredRule \cup {None}] /\ id \in RuleIds
  BY DEF PackageTypes, RuleIn
<1>2. x # None
  BY ContentAssumption
<1>3. rules'[id] = x /\ \A y \in RuleIds : y # id => rules'[y] = rules[y]
  BY <1>1
<1>4. RuleIn' = RuleIn
  BY <1>1, <1>2, <1>3 DEF RuleIn
<1>5. \A y \in RuleIn : Origin(rules'[y]) = Origin(rules[y])
  BY <1>3 DEF RuleIn
<1>6. \A c, i, y : From(c, i, y)' <=> From(c, i, y)
  BY <1>4, <1>5 DEF From
<1>7. OneRulePerOrigin => OneRulePerOrigin'
  BY <1>4, <1>5 DEF OneRulePerOrigin
<1> QED BY <1>3, <1>4, <1>6, <1>7

\* A rule is written under a number no rule has.
LEMMA Added ==
  ASSUME PackageTypes, next \in RuleIds, NEW x \in StoredRule, rules' = [rules EXCEPT ![next] = x]
  PROVE  /\ next \notin RuleIn /\ RuleIn' = RuleIn \cup {next} /\ rules'[next] = x
         /\ \A y \in RuleIn : rules'[y] = rules[y] /\ y # next
<1>1. /\ rules \in [RuleIds -> StoredRule \cup {None}] /\ next \in Nat \ {0}
      /\ RuleIn \subseteq 1 .. next - 1
  BY DEF PackageTypes
<1>2. x # None
  BY ContentAssumption
<1>3. next \notin RuleIn
  BY <1>1
<1>4. rules'[next] = x /\ \A y \in RuleIds : y # next => rules'[y] = rules[y]
  BY <1>1
<1>5. RuleIn' = RuleIn \cup {next}
  BY <1>1, <1>2, <1>4 DEF RuleIn
<1>6. \A y \in RuleIn : rules'[y] = rules[y] /\ y # next
  BY <1>3, <1>4 DEF RuleIn
<1> QED BY <1>3, <1>4, <1>5, <1>6

\* Other requests, and other steps, leave the rules and their writers alone.
LEMMA WritersKept ==
  ASSUME AloneInv, rules' = rules, mixed' = mixed,
         \A s \in Writing' : s \in Writing /\ requests'[s] = requests[s]
  PROVE  AloneInv'
<1>1. SUFFICES ASSUME ~mixed
               PROVE  /\ OneWriter' /\ OneRulePerOrigin'
                      /\ \A s \in Writing' : WriterSound(requests[s])'
  BY DEF AloneInv
<1>2. OneWriter'
  BY <1>1 DEF AloneInv, OneWriter
<1>3. OneRulePerOrigin'
  BY <1>1 DEF AloneInv, OneRulePerOrigin, RuleIn
<1>4. ASSUME NEW s \in Writing' PROVE WriterSound(requests[s])'
  <2>1. PICK q : q = requests[s]
    OBVIOUS
  <2>2. WriterSound(q)
    BY <1>1, <1>4, <2>1 DEF AloneInv
  <2>3. q.op = "import" => ImportSound(q)'
    BY <2>2 DEF WriterSound, ImportSound, From, Installed, RuleIn
  <2>4. q.op = "test" => rules'[q.id] = q.rule
    BY <2>2 DEF WriterSound
  <2> QED BY <1>4, <2>1, <2>3, <2>4, SoundAfter
<1> QED BY <1>2, <1>3, <1>4

\* The one writer takes a step, or ends.
LEMMA WriterGoesOn ==
  ASSUME AloneInv, NEW r \in Writing, NEW q, requests' = [requests EXCEPT ![r] = q],
         mixed' = mixed, TypeInv,
         ~mixed => OneRulePerOrigin',
         ~mixed /\ q.op = "import" => ImportSound(q)',
         ~mixed /\ q.op = "test" => rules'[q.id] = q.rule
  PROVE  AloneInv'
<1>1. SUFFICES ASSUME ~mixed
               PROVE  OneWriter' /\ \A s \in Writing' : WriterSound(requests[s])'
  BY DEF AloneInv
<1>2. Writing' \subseteq {r} /\ requests'[r] = q
  <2>1. \A s \in Writing : s = r
    BY <1>1 DEF AloneInv, OneWriter
  <2> QED BY <2>1 DEF Writing, TypeInv, RequestTypes
<1>3. WriterSound(requests[r])'
  BY <1>1, <1>2, SoundAfter
<1> QED BY <1>2, <1>3 DEF OneWriter

\* The import that a package's rules have been read for is sound at its start.
LEMMA ImportBegins ==
  ASSUME PackageTypes, NEW c \in Contents, NEW q,
         q.content = c, q.creates = AddedBy(c), q.done = {}, q.left = {},
         q.updates = {[name |-> i, id |-> InstalledOf(c, i)] : i \in ChangedBy(c)}
  PROVE  ImportSound(q)
<1>1. ASSUME NEW i \in q.creates
      PROVE  i \in DOMAIN c.rules /\ \A id \in RuleIds : ~From(c, i, id)
  BY <1>1, InstalledOfType DEF AddedBy
<1>2. ASSUME NEW i \in DOMAIN c.rules, i \notin AddedBy(c)
      PROVE  /\ From(c, i, InstalledOf(c, i))
             /\ i \in ChangedBy(c) <=> ~Installed(c, i, InstalledOf(c, i))
  <2>1. From(c, i, InstalledOf(c, i))
    BY <1>2, InstalledOfType DEF AddedBy
  <2> QED BY <1>2, <2>1 DEF ChangedBy, Installed
<1>3. ASSUME NEW u \in q.updates
      PROVE  /\ u.name \in DOMAIN c.rules /\ From(c, u.name, u.id) /\ ~Installed(c, u.name, u.id)
  <2>1. PICK i \in ChangedBy(c) : u = [name |-> i, id |-> InstalledOf(c, i)]
    OBVIOUS
  <2>2. i \in DOMAIN c.rules /\ i \notin AddedBy(c)
    BY DEF ChangedBy
  <2> QED BY <1>2, <2>1, <2>2
<1>4. ASSUME NEW i \in DOMAIN c.rules, i \notin q.creates, \A u \in q.updates : u.name # i
      PROVE  \E id \in RuleIds : Installed(c, i, id)
  <2>1. i \notin ChangedBy(c)
    <3>1. \A j \in ChangedBy(c) : [name |-> j, id |-> InstalledOf(c, j)] \in q.updates
      OBVIOUS
    <3> QED BY <1>4, <3>1
  <2>2. Installed(c, i, InstalledOf(c, i))
    BY <1>2, <1>4, <2>1
  <2> QED BY <2>2 DEF Installed, From, RuleIn
<1> QED BY <1>1, <1>3, <1>4 DEF ImportSound

LEMMA WritingOps ==
  ASSUME TypeInv, NEW r \in Requests
  PROVE  /\ r \in Writing <=> requests[r].op \in {"import", "test", "delete"}
         /\ requests[r].op = "import" =>
              /\ requests[r] \in ImportRequest /\ requests[r].content \in Contents
              /\ requests[r] \in ImportOf(requests[r].content)
         /\ requests[r].op = "test" => requests[r] \in TestRequest
<1>1. requests[r] \in Request
  BY FeedTypeFacts
<1>2. requests[r].op \in {"import", "test", "delete"} => r \in Writing
  BY <1>1, RequestOps, OthersHold DEF Writing
<1>3. r \in Writing => requests[r].op \in {"import", "test", "delete"}
  BY <1>1, RequestOps DEF Writing
<1>4. requests[r].op = "import" => requests[r] \in ImportRequest
  BY <1>1, RequestOps
<1> QED BY <1>1, <1>2, <1>3, <1>4, RequestOps, ImportHolds

\* What the end of an import means: its package is installed, each rule once.
LEMMA SoundImportInstalls ==
  ASSUME NEW q, ImportSound(q)', q.creates = {}, q.updates = {}, OneRulePerOrigin'
  PROVE  InstalledOnce(q.content)'
<1>1. PICK c : c = q.content
  OBVIOUS
<1>2. ASSUME NEW i \in DOMAIN c.rules
      PROVE  \E id \in RuleIds :
               Installed(c, i, id)' /\ \A x \in RuleIds : From(c, i, x)' => x = id
  <2>1. PICK id \in RuleIds : Installed(c, i, id)'
    BY <1>1 DEF ImportSound
  <2> QED BY <2>1 DEF Installed, From, OneRulePerOrigin
<1> QED BY <1>1, <1>2 DEF InstalledOnce

\* The end of an import, or its next mark: what is still to write stays sound,
\* and what it installed is installed.
LEMMA AdvanceSound ==
  ASSUME TypeInv, AloneInv, NEW r \in Writing, NEW s \in ImportRequest, Advance(r, s), mixed' = mixed,
         ~mixed => ImportSound(s)' /\ OneRulePerOrigin'
  PROVE  /\ AloneInv'
         /\ installed' # None => ~mixed /\ InstalledOnce(installed)'
         /\ requests'[r].op # "test"
<1>a. s \in ImportOf(s.content) /\ s.op = "import"
  BY ImportHolds, OthersHold
<1>b. PICK turn :
        /\ turn = IF s.creates = {} /\ s.updates = {} /\ s.left = {} /\ s.marks # <<>>
                  THEN [s EXCEPT !.left = s.done] ELSE s
  OBVIOUS
<1> DEFINE over == Complete(s) \/ (turn.left = {} /\ turn.creates = {} /\ turn.updates = {})
<1>1. /\ requests' = [requests EXCEPT ![r] = IF over THEN Idle ELSE turn]
      /\ installed' = IF over /\ ~mixed THEN s.content ELSE None
  BY <1>b DEF Advance
<1>2. /\ turn.op = "import" /\ turn.content = s.content /\ turn.creates = s.creates
      /\ turn.updates = s.updates /\ turn.done = s.done /\ turn.left \in {s.left, s.done}
  BY <1>a, <1>b DEF ImportOf
<1>3. over => s.creates = {} /\ s.updates = {}
  BY <1>2 DEF Complete
<1>4. ASSUME ~mixed PROVE ImportSound(turn)'
  BY <1>2, <1>4 DEF ImportSound
<1> HIDE DEF over
<1>5. PICK q : q = IF over THEN Idle ELSE turn
  OBVIOUS
<1>6. q.op \in {"idle", "import"} /\ (q.op = "import" => q = turn)
  BY <1>2, <1>5, OthersHold
<1>7. AloneInv'
  BY <1>1, <1>4, <1>5, <1>6, WriterGoesOn
<1>8. requests'[r].op # "test"
  <2>1. requests'[r] = q
    BY <1>1, <1>5 DEF Writing, TypeInv, RequestTypes
  <2> QED BY <1>6, <2>1
<1>9. ASSUME installed' # None PROVE ~mixed /\ InstalledOnce(installed)'
  <2>1. over /\ ~mixed /\ installed' = s.content
    BY <1>1, <1>9
  <2>2. InstalledOnce(s.content)'
    BY <1>3, <2>1, SoundImportInstalls
  <2>3. PICK c : c = s.content
    OBVIOUS
  <2>4. InstalledOnce(c)'
    BY <2>2, <2>3
  <2> QED BY <2>1, <2>3, <2>4 DEF InstalledOnce, Installed, From
<1> QED BY <1>7, <1>8, <1>9

LEMMA AdvanceKeepsBoth ==
  ASSUME TypeInv, AloneInv, NEW r \in Writing, NEW s \in ImportRequest, Advance(r, s), mixed' = mixed,
         ~mixed => ImportSound(s)' /\ OneRulePerOrigin'
  PROVE  AloneInv' /\ InstalledInv'
<1>1. /\ AloneInv' /\ requests'[r].op # "test"
      /\ installed' # None => ~mixed /\ InstalledOnce(installed)'
  BY AdvanceSound
<1>2. ASSUME NEW p \in Requests, p # r PROVE requests'[p] = requests[p]
  BY <1>2 DEF Advance, TypeInv, RequestTypes
<1>3. ASSUME installed' # None, NEW p \in Requests, requests'[p].op = "test" PROVE FALSE
  <2>1. p # r /\ requests[p].op = "test"
    BY <1>1, <1>2, <1>3
  <2>2. p \in Writing
    BY <2>1, WritingOps
  <2> QED BY <1>1, <1>3, <2>1, <2>2 DEF AloneInv, OneWriter
<1> QED BY <1>1, <1>3 DEF InstalledInv

LEMMA CreateSound ==
  ASSUME TypeInv, AloneInv, NEW r \in Requests, CreateStep(r)
  PROVE  AloneInv' /\ InstalledInv'
<1>1. requests[r].op = "import" /\ r \in Writing /\ requests[r] \in ImportRequest /\ PackageTypes
  BY WritingOps DEF CreateStep, Importing, TypeInv
<1>2. PICK q \in ImportRequest : q = requests[r]
  BY <1>1
<1>3. PICK c \in Contents : c = q.content /\ q \in ImportOf(c)
  BY <1>2, ImportHolds
<1>4. q.creates # {}
  BY <1>2 DEF CreateStep
<1>5. PICK i \in q.creates : i = Smallest(q.creates)
  BY <1>2, <1>4, ImportHolds, SmallestIsLeast
<1>6. PICK n : n = next
  OBVIOUS
<1>7. PICK s : s = [q EXCEPT !.creates = @ \ {i}, !.done = @ \cup {[name |-> i, id |-> n]}]
  OBVIOUS
<1>8. /\ next \in RuleIds /\ rules' = [rules EXCEPT ![next] = Packaged(c, i)]
      /\ Advance(r, s) /\ mixed' = mixed
  BY <1>2, <1>3, <1>5, <1>6, <1>7 DEF CreateStep
<1>9. /\ s.content = c /\ s.creates = q.creates \ {i} /\ s.updates = q.updates /\ s.left = q.left
      /\ s.done = q.done \cup {[name |-> i, id |-> n]}
  BY <1>3, <1>7 DEF ImportOf
<1>10. s \in ImportRequest
  <2>1. n \in Nat /\ i \in DOMAIN c.rules
    BY <1>1, <1>3, <1>5, <1>6 DEF PackageTypes, ImportOf
  <2>2. [name |-> i, id |-> n] \in Row(c)
    BY <2>1 DEF Row
  <2>3. s \in ImportOf(c)
    BY <1>3, <1>7, <2>2 DEF ImportOf
  <2> QED BY <2>3 DEF ImportRequest
<1>11. i \in DOMAIN c.rules
  BY <1>3, <1>5 DEF ImportOf
<1>12. PICK x \in StoredRule : x = Packaged(c, i)
  BY <1>11, PackagedType
<1>13. /\ n \notin RuleIn /\ RuleIn' = RuleIn \cup {n} /\ rules'[n] = x
       /\ \A y \in RuleIn : rules'[y] = rules[y] /\ y # n
  BY <1>1, <1>6, <1>8, <1>12, Added
<1>14. /\ Origin(x) = <<c.package, i>> /\ x.version = c.version /\ x.sum = c.rules[i].sum
       /\ x.enabled = c.rules[i].enabled
  BY <1>12 DEF Packaged, Origin
<1>15. ASSUME ~mixed PROVE ImportSound(s)' /\ OneRulePerOrigin'
  <2>1. ImportSound(q) /\ OneRulePerOrigin
    BY <1>1, <1>2, <1>15 DEF AloneInv, WriterSound
  <2>2. \A j, y : From(c, j, y)' <=> From(c, j, y) \/ (y = n /\ j = i)
    BY <1>13, <1>14 DEF From
  <2>3. \A j, y : Installed(c, j, y) => Installed(c, j, y)'
    BY <1>13, <2>2 DEF Installed, From
  <2>4. Installed(c, i, n)' /\ rules'[n].enabled = c.rules[i].enabled
    BY <1>13, <1>14, <2>2 DEF Installed
  <2>5. \A id \in RuleIds : ~From(c, i, id)
    BY <1>3, <1>5, <2>1 DEF ImportSound
  <2>6. OneRulePerOrigin'
    <3>1. \A y \in RuleIn : Origin(rules[y]) # <<c.package, i>>
      BY <2>5 DEF From, RuleIn
    <3> QED BY <1>13, <1>14, <2>1, <3>1 DEF OneRulePerOrigin
  <2>7. ASSUME NEW j \in s.creates
        PROVE  j \in DOMAIN c.rules /\ \A id \in RuleIds : ~From(c, j, id)'
    BY <1>3, <1>9, <2>1, <2>2 DEF ImportSound
  <2>8. ASSUME NEW u \in s.updates
        PROVE  u.name \in DOMAIN c.rules /\ From(c, u.name, u.id)' /\ ~Installed(c, u.name, u.id)'
    <3>1. u.name \in DOMAIN c.rules /\ From(c, u.name, u.id) /\ ~Installed(c, u.name, u.id)
      BY <1>3, <1>9, <2>1 DEF ImportSound
    <3> QED BY <1>13, <2>2, <3>1 DEF Installed, From
  <2>9. ASSUME NEW d \in s.done
        PROVE  /\ d.name \in DOMAIN c.rules /\ Installed(c, d.name, d.id)'
               /\ rules'[d.id].enabled = c.rules[d.name].enabled
    <3>1. CASE d = [name |-> i, id |-> n]
      BY <1>11, <2>4, <3>1
    <3>2. CASE d \in q.done
      <4>1. /\ d.name \in DOMAIN c.rules /\ Installed(c, d.name, d.id)
            /\ rules[d.id].enabled = c.rules[d.name].enabled
        BY <1>3, <2>1, <3>2 DEF ImportSound
      <4> QED BY <1>13, <2>3, <4>1 DEF Installed, From
    <3> QED BY <1>9, <3>1, <3>2
  <2>10. s.left \subseteq s.done
    BY <1>9, <2>1 DEF ImportSound
  <2>11. ASSUME NEW j \in DOMAIN c.rules
         PROVE  \/ j \in s.creates \/ \E u \in s.updates : u.name = j
                \/ \E id \in RuleIds : Installed(c, j, id)'
    <3>1. CASE j = i
      BY <1>6, <1>8, <2>4, <3>1
    <3>2. CASE j # i
      BY <1>3, <1>9, <2>1, <2>3, <3>2 DEF ImportSound
    <3> QED BY <3>1, <3>2
  <2>12. ImportSound(s)'
    BY <1>9, <2>7, <2>8, <2>9, <2>10, <2>11 DEF ImportSound
  <2> QED BY <2>6, <2>12
<1> QED BY <1>1, <1>8, <1>10, <1>15, AdvanceKeepsBoth

LEMMA UpdateSound ==
  ASSUME TypeInv, AloneInv, NEW r \in Requests, UpdateStep(r),
         rules[(CHOOSE x \in requests[r].updates : \A y \in requests[r].updates : x.name <= y.name).id] # None
  PROVE  AloneInv' /\ InstalledInv'
<1>1. requests[r].op = "import" /\ r \in Writing /\ requests[r] \in ImportRequest /\ PackageTypes
  BY WritingOps DEF UpdateStep, Importing, TypeInv
<1>2. PICK q \in ImportRequest : q = requests[r]
  BY <1>1
<1>3. PICK c \in Contents : c = q.content /\ q \in ImportOf(c)
  BY <1>2, ImportHolds
<1>4. q.updates # {} /\ q.updates \in SUBSET Row(c)
  BY <1>2, <1>3 DEF UpdateStep, ImportOf
<1>5. PICK u \in q.updates : u = CHOOSE x \in q.updates : \A y \in q.updates : x.name <= y.name
  BY <1>4, FirstByName
<1>6. PICK s : s = [q EXCEPT !.updates = @ \ {u}, !.done = @ \cup {u}]
  OBVIOUS
<1>7. /\ rules[u.id] # None /\ rules' = [rules EXCEPT ![u.id] = Packaged(c, u.name)]
      /\ Advance(r, s) /\ mixed' = mixed
  BY <1>2, <1>3, <1>5, <1>6 DEF UpdateStep
<1>8. /\ s.content = c /\ s.creates = q.creates /\ s.updates = q.updates \ {u} /\ s.left = q.left
      /\ s.done = q.done \cup {u}
  BY <1>3, <1>6 DEF ImportOf
<1>9. u \in Row(c) /\ u.name \in DOMAIN c.rules /\ q.creates = {}
  BY <1>2, <1>4, <1>5 DEF Row, UpdateStep
<1>10. s \in ImportRequest
  <2>1. s \in ImportOf(c)
    BY <1>3, <1>6, <1>9 DEF ImportOf
  <2> QED BY <2>1 DEF ImportRequest
<1>11. PICK x \in StoredRule : x = Packaged(c, u.name)
  BY <1>9, PackagedType
<1>12. /\ Origin(x) = <<c.package, u.name>> /\ x.version = c.version /\ x.sum = c.rules[u.name].sum
       /\ x.enabled = c.rules[u.name].enabled
  BY <1>11 DEF Packaged, Origin
<1>13. ASSUME ~mixed PROVE ImportSound(s)' /\ OneRulePerOrigin'
  <2>1. ImportSound(q) /\ OneRulePerOrigin
    BY <1>1, <1>2, <1>13 DEF AloneInv, WriterSound
  <2>2. From(c, u.name, u.id) /\ ~Installed(c, u.name, u.id)
    BY <1>3, <2>1 DEF ImportSound
  <2>3. u.id \in RuleIn /\ Origin(x) = Origin(rules[u.id])
    BY <1>12, <2>2 DEF From
  <2>4. /\ rules'[u.id] = x /\ \A y \in RuleIds : y # u.id => rules'[y] = rules[y]
        /\ \A j, y : From(c, j, y)' <=> From(c, j, y)
        /\ OneRulePerOrigin'
    BY <1>1, <1>7, <1>11, <2>1, <2>3, Rewritten
  <2>5. \A j : From(c, j, u.id) => j = u.name
    BY <2>2 DEF From
  <2>6. \A j, y : From(c, j, y) => y \in RuleIds
    BY DEF From, RuleIn
  <2>7. ASSUME NEW j, NEW y, y # u.id PROVE Installed(c, j, y)' <=> Installed(c, j, y)
    BY <2>4, <2>6, <2>7 DEF Installed
  <2>8. Installed(c, u.name, u.id)' /\ rules'[u.id].enabled = c.rules[u.name].enabled
    BY <1>12, <2>2, <2>4 DEF Installed
  <2>9. \A j, y : Installed(c, j, y) => Installed(c, j, y)' /\ rules'[y] = rules[y]
    <3>1. ASSUME NEW j, NEW y, Installed(c, j, y) PROVE y # u.id /\ y \in RuleIds
      BY <2>2, <2>5, <2>6, <3>1 DEF Installed
    <3> QED BY <2>4, <2>7, <3>1
  <2>10. ASSUME NEW v \in s.updates
         PROVE  v.name \in DOMAIN c.rules /\ From(c, v.name, v.id)' /\ ~Installed(c, v.name, v.id)'
    <3>1. v \in q.updates /\ v # u /\ v \in Row(c)
      BY <1>4, <1>8
    <3>2. v.name \in DOMAIN c.rules /\ From(c, v.name, v.id) /\ ~Installed(c, v.name, v.id)
      BY <1>3, <2>1, <3>1 DEF ImportSound
    <3>3. v.id # u.id
      <4>1. v = [name |-> v.name, id |-> v.id] /\ u = [name |-> u.name, id |-> u.id]
        BY <1>9, <3>1 DEF Row
      <4> QED BY <2>5, <3>1, <3>2, <4>1
    <3> QED BY <2>4, <2>7, <3>2, <3>3
  <2>11. ASSUME NEW d \in s.done
         PROVE  /\ d.name \in DOMAIN c.rules /\ Installed(c, d.name, d.id)'
                /\ rules'[d.id].enabled = c.rules[d.name].enabled
    <3>1. CASE d = u
      BY <1>9, <2>8, <3>1
    <3>2. CASE d \in q.done
      <4>1. /\ d.name \in DOMAIN c.rules /\ Installed(c, d.name, d.id)
            /\ rules[d.id].enabled = c.rules[d.name].enabled
        BY <1>3, <2>1, <3>2 DEF ImportSound
      <4> QED BY <2>9, <4>1
    <3> QED BY <1>8, <3>1, <3>2
  <2>12. s.left \subseteq s.done
    BY <1>8, <2>1 DEF ImportSound
  <2>13. ASSUME NEW j \in DOMAIN c.rules
         PROVE  \/ j \in s.creates \/ \E v \in s.updates : v.name = j
                \/ \E id \in RuleIds : Installed(c, j, id)'
    <3>1. CASE j = u.name
      BY <2>3, <2>6, <2>8, <2>2, <3>1
    <3>2. CASE j # u.name
      BY <1>3, <1>8, <2>1, <2>9, <3>2 DEF ImportSound
    <3> QED BY <3>1, <3>2
  <2>14. ImportSound(s)'
    BY <1>8, <1>9, <2>10, <2>11, <2>12, <2>13 DEF ImportSound
  <2> QED BY <2>4, <2>14
<1> QED BY <1>1, <1>7, <1>10, <1>13, AdvanceKeepsBoth

LEMMA MarkSound ==
  ASSUME TypeInv, AloneInv, NEW r \in Requests, MarkStep(r)
  PROVE  AloneInv' /\ InstalledInv'
<1>1. requests[r].op = "import" /\ r \in Writing /\ requests[r] \in ImportRequest /\ PackageTypes
  BY WritingOps DEF MarkStep, Importing, TypeInv
<1>2. PICK q \in ImportRequest : q = requests[r]
  BY <1>1
<1>3. PICK c \in Contents : c = q.content /\ q \in ImportOf(c)
  BY <1>2, ImportHolds
<1>4. q.left # {} /\ q.left \in SUBSET Row(c) /\ q.creates = {} /\ q.updates = {}
  BY <1>2, <1>3 DEF MarkStep, ImportOf
<1>5. PICK d \in q.left : d = CHOOSE x \in q.left : \A y \in q.left : x.id <= y.id
  BY <1>4, FirstById
<1>6. PICK left : left = q.left \ {d}
  OBVIOUS
<1>7. PICK s : s = [q EXCEPT !.left = left, !.marks = IF left = {} THEN Tail(@) ELSE @]
  OBVIOUS
<1>8. PICK x : x = Marked(Packaged(c, d.name), Head(q.marks))
  OBVIOUS
<1>9. /\ rules' = IF rules[d.id] = None THEN rules ELSE [rules EXCEPT ![d.id] = x]
      /\ Advance(r, s) /\ mixed' = mixed
  BY <1>2, <1>3, <1>5, <1>6, <1>7, <1>8 DEF MarkStep
<1>10. d.name \in DOMAIN c.rules
  BY <1>4, <1>5 DEF Row
<1>11. /\ x \in StoredRule /\ Origin(x) = <<c.package, d.name>> /\ x.version = c.version
       /\ x.sum = c.rules[d.name].sum /\ x.enabled = c.rules[d.name].enabled
  <2>1. Packaged(c, d.name) \in StoredRule
    BY <1>10, PackagedType
  <2>2. x \in StoredRule /\ SameRule(x, Packaged(c, d.name)) /\ x.enabled = Packaged(c, d.name).enabled
    BY <1>8, <2>1, MarkedType
  <2> QED BY <2>2 DEF SameRule, Packaged, Origin
<1>12. /\ s.content = c /\ s.creates = {} /\ s.updates = {} /\ s.left = q.left \ {d}
       /\ s.done = q.done
  BY <1>3, <1>4, <1>6, <1>7 DEF ImportOf
<1>13. s \in ImportRequest
  <2>1. AtMark(q)
    BY <1>2 DEF TypeInv, RequestTypes
  <2>2. q.marks \in Seq({"applied", "provider"}) /\ q.marks # <<>>
    BY <1>2, <1>3, <1>4, <2>1 DEF AtMark, ImportOf
  <2>3. Tail(q.marks) \in Seq({"applied", "provider"})
    BY <2>2
  <2>4. s \in ImportOf(c)
    BY <1>3, <1>4, <1>6, <1>7, <2>2, <2>3 DEF ImportOf
  <2> QED BY <2>4 DEF ImportRequest
<1>14. ASSUME ~mixed PROVE ImportSound(s)' /\ OneRulePerOrigin'
  <2>1. ImportSound(q) /\ OneRulePerOrigin
    BY <1>1, <1>2, <1>14 DEF AloneInv, WriterSound
  <2>2. d \in q.done /\ Installed(c, d.name, d.id)
    BY <1>3, <1>5, <2>1 DEF ImportSound
  <2>3. d.id \in RuleIn /\ d.id \in RuleIds /\ Origin(x) = Origin(rules[d.id]) /\ rules[d.id] # None
    BY <1>11, <2>2 DEF Installed, From, RuleIn
  <2>4. rules' = [rules EXCEPT ![d.id] = x]
    BY <1>9, <2>3
  <2>5. /\ rules'[d.id] = x /\ \A y \in RuleIds : y # d.id => rules'[y] = rules[y]
        /\ \A j, y : From(c, j, y)' <=> From(c, j, y)
        /\ OneRulePerOrigin'
    BY <1>1, <1>11, <2>1, <2>3, <2>4, Rewritten
  <2>6. \A j : From(c, j, d.id) => j = d.name
    BY <2>2 DEF Installed, From
  <2>7. ASSUME NEW j, NEW y, Installed(c, j, y)
        PROVE  /\ Installed(c, j, y)'
               /\ rules[y].enabled = c.rules[j].enabled => rules'[y].enabled = c.rules[j].enabled
    <3>1. y \in RuleIds /\ From(c, j, y)
      BY <2>7 DEF Installed, From, RuleIn
    <3>2. CASE y = d.id
      BY <1>11, <2>5, <2>6, <3>1, <3>2 DEF Installed
    <3>3. CASE y # d.id
      BY <2>5, <2>7, <3>1, <3>3 DEF Installed
    <3> QED BY <3>2, <3>3
  <2>8. ASSUME NEW v \in s.done
        PROVE  /\ v.name \in DOMAIN c.rules /\ Installed(c, v.name, v.id)'
               /\ rules'[v.id].enabled = c.rules[v.name].enabled
    <3>1. /\ v.name \in DOMAIN c.rules /\ Installed(c, v.name, v.id)
          /\ rules[v.id].enabled = c.rules[v.name].enabled
      BY <1>3, <1>12, <2>1 DEF ImportSound
    <3> QED BY <2>7, <3>1
  <2>9. s.left \subseteq s.done
    BY <1>12, <2>1 DEF ImportSound
  <2>10. ASSUME NEW j \in DOMAIN c.rules PROVE \E id \in RuleIds : Installed(c, j, id)'
    BY <1>3, <1>4, <2>1, <2>7 DEF ImportSound
  <2>11. ImportSound(s)'
    BY <1>12, <2>8, <2>9, <2>10 DEF ImportSound
  <2> QED BY <2>5, <2>11
<1> QED BY <1>1, <1>9, <1>13, <1>14, AdvanceKeepsBoth

LEMMA NothingSound ==
  ASSUME TypeInv, AloneInv, NEW r \in Requests, NothingToImport(r)
  PROVE  AloneInv' /\ InstalledInv'
<1>1. requests[r].op = "import" /\ r \in Writing /\ requests[r] \in ImportRequest
  BY WritingOps DEF NothingToImport, Importing
<1>2. PICK q \in ImportRequest : q = requests[r]
  BY <1>1
<1>3. PICK c \in Contents : c = q.content /\ q \in ImportOf(c)
  BY <1>2, ImportHolds
<1>4. PICK s : s = [q EXCEPT !.marks = <<>>]
  OBVIOUS
<1>5. Advance(r, s) /\ rules' = rules /\ mixed' = mixed
  BY <1>2, <1>4 DEF NothingToImport
<1>6. s.content = c /\ s.creates = q.creates /\ s.updates = q.updates /\ s.left = q.left
      /\ s.done = q.done
  BY <1>3, <1>4 DEF ImportOf
<1>7. s \in ImportRequest
  <2>1. <<>> \in Seq({"applied", "provider"})
    OBVIOUS
  <2>2. s \in ImportOf(c)
    BY <1>3, <1>4, <2>1 DEF ImportOf
  <2> QED BY <2>2 DEF ImportRequest
<1>8. ASSUME ~mixed PROVE ImportSound(s)' /\ OneRulePerOrigin'
  <2>1. ImportSound(q) /\ OneRulePerOrigin
    BY <1>1, <1>2, <1>8 DEF AloneInv, WriterSound
  <2>2. ImportSound(s)
    BY <1>3, <1>6, <2>1 DEF ImportSound
  <2> QED BY <1>5, <2>1, <2>2 DEF ImportSound, OneRulePerOrigin, Installed, From, RuleIn
<1> QED BY <1>1, <1>5, <1>7, <1>8, AdvanceKeepsBoth

\* The rules an import installed stay installed while none changes its origin,
\* its version or its checksum, and no test read another of them.
LEMMA InstalledKept ==
  ASSUME TypeInv, InstalledInv, installed' = installed, RuleIn' = RuleIn,
         \A id \in RuleIn : SameRule(rules'[id], rules[id]),
         \A s \in Requests : \/ requests'[s] = requests[s]
                             \/ requests'[s].op # "test"
                             \/ requests'[s].id \in RuleIn
                                /\ SameRule(rules[requests'[s].id], requests'[s].rule)
  PROVE  InstalledInv'
<1>1. SUFFICES ASSUME installed # None
               PROVE  /\ InstalledOnce(installed)'
                      /\ \A s \in Requests :
                            requests'[s].op = "test" /\ rules'[requests'[s].id] # None
                              => SameRule(rules'[requests'[s].id], requests'[s].rule)
  BY DEF InstalledInv
<1>2. PICK c : c = installed
  OBVIOUS
<1>3. \A j, y : From(c, j, y)' <=> From(c, j, y)
  BY DEF From, SameRule
<1>4. \A j, y : Installed(c, j, y) => Installed(c, j, y)'
  BY <1>3 DEF Installed, From, SameRule
<1>5. InstalledOnce(c)'
  BY <1>1, <1>2, <1>3, <1>4 DEF InstalledInv, InstalledOnce
<1>6. InstalledOnce(installed)'
  BY <1>2, <1>5 DEF InstalledOnce, Installed, From
<1>7. ASSUME NEW s \in Requests, requests'[s].op = "test", rules'[requests'[s].id] # None
      PROVE  SameRule(rules'[requests'[s].id], requests'[s].rule)
  <2>1. PICK q : q = requests'[s]
    OBVIOUS
  <2>2. q.id \in RuleIn /\ SameRule(rules[q.id], q.rule)
    <3>1. CASE requests'[s] = requests[s]
      <4>1. q.id \in RuleIds
        BY <1>7, <2>1, <3>1, WritingOps, OthersHold
      <4>2. q.id \in RuleIn
        BY <1>7, <2>1, <4>1 DEF RuleIn
      <4>3. rules[q.id] # None
        BY <4>2 DEF RuleIn
      <4> QED BY <1>1, <1>7, <2>1, <3>1, <4>2, <4>3 DEF InstalledInv
    <3>2. CASE requests'[s] # requests[s]
      BY <1>7, <2>1, <3>2
    <3> QED BY <3>1, <3>2
  <2>3. SameRule(rules'[q.id], rules[q.id])
    BY <2>2
  <2> QED BY <2>1, <2>2, <2>3 DEF SameRule
<1> QED BY <1>6, <1>7

\* Requests that write no rules come and go, or one that writes them ends.
OthersCome ==
  \A s \in Requests : \/ requests'[s] = requests[s]
                      \/ requests'[s] = Idle
                      \/ requests'[s].feed # "rules" /\ requests'[s].op # "test"

LEMMA RulesKept ==
  ASSUME TypeInv, AloneInv, InstalledInv, rules' = rules, installed' = installed, mixed' = mixed,
         OthersCome
  PROVE  AloneInv' /\ InstalledInv'
<1>1. \A s \in Writing' : s \in Writing /\ requests'[s] = requests[s]
  BY DEF Writing, OthersCome
<1>2. AloneInv'
  BY <1>1, WritersKept
<1>3. RuleIn' = RuleIn /\ \A id \in RuleIn : SameRule(rules'[id], rules[id])
  BY DEF RuleIn, SameRule
<1>4. \A s \in Requests : requests'[s] = requests[s] \/ requests'[s].op # "test"
  BY OthersHold DEF OthersCome
<1>5. InstalledInv'
  BY <1>3, <1>4, InstalledKept
<1> QED BY <1>2, <1>5

LEMMA StartedOrEnded ==
  ASSUME TypeInv, NEW r \in Requests, NEW q, requests' = [requests EXCEPT ![r] = q],
         q = Idle \/ (q.feed # "rules" /\ q.op # "test")
  PROVE  OthersCome
BY DEF TypeInv, RequestTypes, OthersCome

LEMMA FeedRequests ==
  ASSUME TypeInv, FeedStep
  PROVE  OthersCome
<1>1. ASSUME NEW r \in Requests, NEW k \in Feeds \cup {"queue"}, NEW op, op # "test", NEW item,
             Start(r, k, op, item)
      PROVE  OthersCome
  <2>1. PICK q : q = [op |-> op, feed |-> k, item |-> item]
    OBVIOUS
  <2>2. q.feed # "rules" /\ q.op # "test"
    BY <1>1, <2>1 DEF Feeds
  <2>3. requests' = [requests EXCEPT ![r] = q]
    BY <1>1, <2>1 DEF Start
  <2> QED BY <2>2, <2>3, StartedOrEnded
<1>2. ASSUME NEW r \in Requests, End(r) PROVE OthersCome
  BY <1>2, StartedOrEnded DEF End
<1>3. ASSUME requests' = requests PROVE OthersCome
  BY <1>3 DEF OthersCome
<1>4. ASSUME NEW r \in Requests, NEW c \in Configurations, UpdateRuleCatalog(r, c) PROVE OthersCome
  BY <1>1, <1>4 DEF UpdateRuleCatalog, Feeds
<1>5. ASSUME NEW c \in Configurations, UpdateRuleProvider(c) \/ UpdateRuleAccountSource(c)
      PROVE  OthersCome
  BY <1>3, <1>5 DEF UpdateRuleProvider, UpdateRuleAccountSource, Once
<1>6. ASSUME NEW r \in Requests,
             \/ EndCatalogUpdate(r) \/ EndCatalogSync(r) \/ EndProviderValidation(r)
             \/ EndProviderSync(r) \/ EndAccountRefresh(r) \/ EndDecision(r)
      PROVE  OthersCome
  BY <1>2, <1>6 DEF EndCatalogUpdate, EndCatalogSync, EndProviderValidation, EndProviderSync,
                    EndAccountRefresh, EndDecision
<1>7. ASSUME NEW r \in Requests,
             \/ SyncRuleCatalog(r) \/ ValidateRuleProvider(r) \/ SyncRuleProvider(r)
             \/ RetryRuleProvider(r) \/ RefreshRuleAccountSource(r)
      PROVE  OthersCome
  <2>1. {"catalog", "provider", "account"} \subseteq Feeds
    BY DEF Feeds
  <2> QED BY <1>1, <1>7, <2>1 DEF SyncRuleCatalog, ValidateRuleProvider, SyncRuleProvider,
                    RetryRuleProvider, RefreshRuleAccountSource
<1>8. ASSUME NEW r \in Requests, NEW i, NEW d \in {"approved", "dismissed", "failed"},
             DecideRuleReviewQueueItem(r, i, d)
      PROVE  OthersCome
  BY <1>1, <1>8 DEF DecideRuleReviewQueueItem
<1>9. ASSUME NEW k \in Feeds, DeleteFeed(k) PROVE OthersCome
  BY <1>3, <1>9 DEF DeleteFeed, Once
<1> QED BY <1>4, <1>5, <1>6, <1>7, <1>8, <1>9 DEF FeedStep

\* A request that will write rules begins.
LEMMA BeginBoth ==
  ASSUME TypeInv, AloneInv, InstalledInv, NEW r \in Requests, NEW q, Begin(r, q),
         q.op = "import" => ImportSound(q),
         q.op = "test" => q.id \in RuleIn /\ rules[q.id] = q.rule
  PROVE  AloneInv' /\ InstalledInv'
<1>1. /\ requests' = [requests EXCEPT ![r] = q] /\ UNCHANGED <<rules, next, installed>>
      /\ mixed' = (mixed \/ Writing # {})
  BY DEF Begin
<1>2. requests'[r] = q /\ \A s \in Requests : s # r => requests'[s] = requests[s]
  BY <1>1 DEF TypeInv, RequestTypes
<1>3. RuleIn' = RuleIn
  BY <1>1 DEF RuleIn
<1>4. ASSUME ~mixed'
      PROVE  /\ OneWriter' /\ OneRulePerOrigin'
             /\ \A s \in Writing' : WriterSound(requests[s])'
  <2>1. ~mixed /\ Writing = {}
    BY <1>1, <1>4
  <2>2. \A s \in Writing' : s = r
    BY <1>2, <2>1 DEF Writing
  <2>3. OneRulePerOrigin'
    BY <1>1, <1>3, <2>1 DEF AloneInv, OneRulePerOrigin
  <2>4. q.op = "import" => ImportSound(q)'
    BY <1>1, <1>3 DEF ImportSound, Installed, From
  <2>5. WriterSound(requests[r])'
    BY <1>1, <1>2, <2>4, SoundAfter
  <2> QED BY <2>2, <2>3, <2>5 DEF OneWriter
<1>5. AloneInv'
  BY <1>4 DEF AloneInv
<1>6. \A id \in RuleIn : SameRule(rules'[id], rules[id])
  BY <1>1 DEF SameRule
<1>7. q.op = "test" => q.id \in RuleIn /\ SameRule(rules[q.id], q.rule)
  BY DEF SameRule
<1>8. InstalledInv'
  BY <1>1, <1>2, <1>3, <1>6, <1>7, InstalledKept
<1> QED BY <1>5, <1>8

LEMMA ImportBoth ==
  ASSUME TypeInv, AloneInv, InstalledInv, NEW r \in Requests, NEW c \in Contents, NEW marks,
         Import(r, c, marks)
  PROVE  AloneInv' /\ InstalledInv'
<1>1. PICK q : q = [op |-> "import", feed |-> "rules", content |-> c, creates |-> AddedBy(c),
                    updates |-> {[name |-> i, id |-> InstalledOf(c, i)] : i \in ChangedBy(c)},
                    done |-> {}, marks |-> marks, left |-> {}]
  OBVIOUS
<1>2. Begin(r, q) /\ PackageTypes
  BY <1>1 DEF Import, TypeInv
<1>3. /\ q.content = c /\ q.creates = AddedBy(c) /\ q.done = {} /\ q.left = {} /\ q.op = "import"
      /\ q.updates = {[name |-> i, id |-> InstalledOf(c, i)] : i \in ChangedBy(c)}
  BY <1>1
<1>4. ImportSound(q)
  BY <1>2, <1>3, ImportBegins
<1> QED BY <1>2, <1>3, <1>4, BeginBoth

\* Rules written or deleted one by one, and package by package.
LEMMA TestBoth ==
  ASSUME TypeInv, AloneInv, InstalledInv, NEW r \in Requests, EndTest(r)
  PROVE  AloneInv' /\ InstalledInv'
<1>1. requests[r].op = "test" /\ r \in Writing /\ requests[r] \in TestRequest /\ PackageTypes
  BY WritingOps DEF EndTest, TypeInv
<1>2. PICK q : q = requests[r]
  OBVIOUS
<1>3. q.op = "test" /\ q.id \in RuleIds /\ q.rule \in StoredRule
  BY <1>1, <1>2, OthersHold
<1>4. PICK x : x = [q.rule EXCEPT !.tested = TRUE]
  OBVIOUS
<1>5. x \in StoredRule /\ SameRule(x, q.rule)
  BY <1>3, <1>4 DEF StoredRule, SameRule, Origin
<1>6. /\ rules' = IF rules[q.id] = None THEN rules ELSE [rules EXCEPT ![q.id] = x]
      /\ requests' = [requests EXCEPT ![r] = Idle] /\ installed' = installed /\ mixed' = mixed
  BY <1>2, <1>4 DEF EndTest, End
<1>7. OthersCome
  BY <1>6, StartedOrEnded
<1>8. CASE rules[q.id] = None
  BY <1>6, <1>7, <1>8, RulesKept
<1>9. CASE rules[q.id] # None
  <2>1. rules' = [rules EXCEPT ![q.id] = x] /\ q.id \in RuleIn
    BY <1>3, <1>6, <1>9 DEF RuleIn
  <2>2. ASSUME ~mixed PROVE OneRulePerOrigin'
    <3>1. rules[q.id] = q.rule /\ OneRulePerOrigin
      BY <1>1, <1>2, <1>3, <2>2 DEF AloneInv, WriterSound
    <3>2. Origin(x) = Origin(rules[q.id])
      BY <1>5, <3>1 DEF SameRule
    <3> QED BY <1>1, <1>5, <2>1, <3>1, <3>2, Rewritten
  <2>3. Idle.op # "import" /\ Idle.op # "test"
    BY OthersHold
  <2>4. AloneInv'
    BY <1>1, <1>6, <2>2, <2>3, WriterGoesOn
  <2>5. CASE installed = None
    BY <1>6, <2>4, <2>5 DEF InstalledInv
  <2>6. CASE installed # None
    <3>1. SameRule(rules[q.id], q.rule)
      BY <1>2, <1>3, <1>9, <2>6 DEF InstalledInv, Writing
    <3>2. SameRule(x, rules[q.id]) /\ Origin(x) = Origin(rules[q.id])
      BY <1>5, <3>1 DEF SameRule
    <3>3. RuleIn' = RuleIn /\ rules'[q.id] = x /\ \A y \in RuleIds : y # q.id => rules'[y] = rules[y]
      BY <1>1, <1>5, <2>1, <3>2, Rewritten
    <3>4. \A id \in RuleIn : SameRule(rules'[id], rules[id])
      BY <3>2, <3>3 DEF SameRule, RuleIn
    <3>5. \A s \in Requests : requests'[s] = requests[s] \/ requests'[s].op # "test"
      BY <1>6, <2>3 DEF TypeInv, RequestTypes
    <3>6. InstalledInv'
      BY <1>6, <3>3, <3>4, <3>5, InstalledKept
    <3> QED BY <2>4, <3>6
  <2> QED BY <2>5, <2>6
<1> QED BY <1>8, <1>9

\* A rule that is deleted takes its origin with it.
LEMMA Removed ==
  ASSUME PackageTypes, NEW id, rules' = [rules EXCEPT ![id] = None], OneRulePerOrigin
  PROVE  OneRulePerOrigin'
<1>1. \A y \in RuleIn' : y \in RuleIn /\ rules'[y] = rules[y]
  BY DEF PackageTypes, RuleIn
<1> QED BY <1>1 DEF OneRulePerOrigin

LEMMA DeleteBoth ==
  ASSUME TypeInv, AloneInv, InstalledInv, NEW r \in Requests, DeleteStep(r)
  PROVE  AloneInv' /\ InstalledInv'
<1>1. requests[r].op = "delete" /\ r \in Writing /\ PackageTypes /\ mixed' = mixed
  BY WritingOps DEF DeleteStep, TypeInv
<1>2. PICK id : id = Smallest(requests[r].todo)
  OBVIOUS
<1>3. CASE End(r) /\ UNCHANGED <<rules, installed>>
  <2>1. OthersCome
    BY <1>3, StartedOrEnded DEF End
  <2> QED BY <1>1, <1>3, <2>1, RulesKept
<1>4. CASE /\ rules' = [rules EXCEPT ![id] = None] /\ installed' = None
           /\ requests' = [requests EXCEPT ![r].todo = @ \ {id}]
  <2>1. PICK q : q = [requests[r] EXCEPT !.todo = @ \ {id}]
    OBVIOUS
  <2>2. requests[r] \in DeleteRequest
    BY <1>1, FeedTypeFacts, RequestOps
  <2>3. q.op = "delete"
    BY <2>1, <2>2 DEF DeleteRequest
  <2>4. requests' = [requests EXCEPT ![r] = q]
    BY <1>4, <2>1
  <2>5. ~mixed => OneRulePerOrigin'
    BY <1>1, <1>4, Removed DEF AloneInv
  <2>6. AloneInv'
    BY <1>1, <2>3, <2>4, <2>5, WriterGoesOn
  <2> QED BY <1>4, <2>6 DEF InstalledInv
<1> QED BY <1>2, <1>3, <1>4 DEF DeleteStep

LEMMA OneRuleBoth ==
  ASSUME TypeInv, AloneInv, InstalledInv, NEW id \in RuleIds
  PROVE  /\ DeleteRule(id) => AloneInv' /\ InstalledInv'
         /\ \A on \in BOOLEAN : UpdateRule(id, on) => AloneInv' /\ InstalledInv'
<1>1. ASSUME requests' = requests, mixed' = (mixed \/ Writing # {}),
             OneRulePerOrigin => OneRulePerOrigin'
      PROVE  AloneInv'
  <2>1. Writing' = Writing
    BY <1>1 DEF Writing
  <2> QED BY <1>1, <2>1 DEF AloneInv, OneWriter
<1>2. PackageTypes
  BY DEF TypeInv
<1>3. CASE DeleteRule(id)
  <2>1. /\ requests' = requests /\ mixed' = (mixed \/ Writing # {}) /\ installed' = None
        /\ rules' = [rules EXCEPT ![id] = None]
    BY <1>3 DEF DeleteRule, Alone, Once
  <2>2. OneRulePerOrigin => OneRulePerOrigin'
    BY <1>2, <2>1, Removed
  <2> QED BY <1>1, <2>1, <2>2 DEF InstalledInv
<1>4. ASSUME NEW on \in BOOLEAN, UpdateRule(id, on) PROVE AloneInv' /\ InstalledInv'
  <2>1. PICK x : x = [rules[id] EXCEPT !.enabled = on, !.provider = FALSE]
    OBVIOUS
  <2>2. /\ requests' = requests /\ mixed' = (mixed \/ Writing # {}) /\ installed' = installed
        /\ rules' = [rules EXCEPT ![id] = x] /\ rules[id] # None
    BY <1>4, <2>1 DEF UpdateRule, Alone, Once
  <2>3. id \in RuleIn /\ rules[id] \in StoredRule
    BY <1>2, <2>2, StoredRules
  <2>4. x \in StoredRule /\ SameRule(x, rules[id]) /\ Origin(x) = Origin(rules[id])
    BY <2>1, <2>3 DEF StoredRule, SameRule, Origin
  <2>5. /\ RuleIn' = RuleIn /\ rules'[id] = x /\ \A y \in RuleIds : y # id => rules'[y] = rules[y]
        /\ OneRulePerOrigin => OneRulePerOrigin'
    BY <1>2, <2>2, <2>3, <2>4, Rewritten
  <2>6. \A y \in RuleIn : SameRule(rules'[y], rules[y])
    BY <2>4, <2>5 DEF SameRule, RuleIn
  <2>7. InstalledInv'
    BY <2>2, <2>5, <2>6, InstalledKept
  <2> QED BY <1>1, <2>2, <2>5, <2>7
<1> QED BY <1>3, <1>4

LEMMA ImportStepsBoth ==
  ASSUME TypeInv, AloneInv, InstalledInv, NEW r \in Requests
  PROVE  /\ UpdateStep(r) => AloneInv' /\ InstalledInv'
         /\ ImportFails(r) => AloneInv' /\ InstalledInv'
<1>1. CASE UpdateStep(r)
  <2>1. PICK u : u = CHOOSE x \in requests[r].updates : \A y \in requests[r].updates : x.name <= y.name
    OBVIOUS
  <2>2. CASE rules[u.id] # None
    BY <1>1, <2>1, <2>2, UpdateSound
  <2>3. CASE rules[u.id] = None
    <3>1. End(r) /\ UNCHANGED <<rules, installed>> /\ mixed' = mixed
      BY <1>1, <2>1, <2>3 DEF UpdateStep
    <3>2. OthersCome
      BY <3>1, StartedOrEnded DEF End
    <3> QED BY <3>1, <3>2, RulesKept
  <2> QED BY <2>2, <2>3
<1>2. CASE ImportFails(r)
  <2>1. End(r) /\ UNCHANGED <<rules, installed, mixed>>
    BY <1>2 DEF ImportFails, packageVars
  <2>2. OthersCome
    BY <2>1, StartedOrEnded DEF End
  <2> QED BY <2>1, <2>2, RulesKept
<1> QED BY <1>1, <1>2

LEMMA PackageBoth ==
  ASSUME TypeInv, AloneInv, InstalledInv, PackageStep
  PROVE  AloneInv' /\ InstalledInv'
<1>1. ASSUME NEW r \in Requests, ImportRulePackage(r) PROVE AloneInv' /\ InstalledInv'
  BY <1>1, ImportBoth DEF ImportRulePackage
<1>2. ASSUME NEW k \in Lists, NEW p \in listed[k], NEW c \in CatalogPackageData(p)
      PROVE  c \in Contents
  <2>1. listed[k] \in Catalogs
    BY FeedTypeFacts
  <2> QED BY <2>1, ContentAssumption DEF CatalogPackageData
<1>3. ASSUME NEW r \in Requests, ApplyRulePackageUpdate(r) PROVE AloneInv' /\ InstalledInv'
  BY <1>2, <1>3, ImportBoth DEF ApplyRulePackageUpdate, Lists
<1>4. ASSUME NEW r \in Requests, ImportRuleProviderPackage(r) PROVE AloneInv' /\ InstalledInv'
  BY <1>2, <1>4, ImportBoth DEF ImportRuleProviderPackage, Lists
<1>5. ASSUME NEW r \in Requests, NEW id \in RuleIds, TestRule(r, id)
      PROVE  AloneInv' /\ InstalledInv'
  <2>1. PICK q : q = [op |-> "test", feed |-> "rules", id |-> id, rule |-> rules[id]]
    OBVIOUS
  <2>2. Begin(r, q) /\ id \in RuleIn
    BY <1>5, <2>1 DEF TestRule, RuleIn
  <2>3. q.op = "test" /\ q.id = id /\ q.rule = rules[id]
    BY <2>1
  <2> QED BY <2>2, <2>3, BeginBoth
<1>6. ASSUME NEW r \in Requests, NEW package, DeleteRulePackage(r, package)
      PROVE  AloneInv' /\ InstalledInv'
  <2>1. PICK q : q = [op |-> "delete", feed |-> "rules",
                      todo |-> {id \in RuleIn : rules[id].package = package}]
    OBVIOUS
  <2>2. Begin(r, q) /\ q.op = "delete"
    BY <1>6, <2>1 DEF DeleteRulePackage
  <2> QED BY <2>2, BeginBoth
<1>7. ASSUME NEW r \in Requests,
             \/ CreateStep(r) \/ UpdateStep(r) \/ MarkStep(r)
             \/ NothingToImport(r) \/ ImportFails(r) \/ DeleteStep(r) \/ EndTest(r)
      PROVE  AloneInv' /\ InstalledInv'
  BY <1>7, CreateSound, MarkSound, NothingSound, ImportStepsBoth, DeleteBoth, TestBoth
<1> QED BY <1>1, <1>3, <1>4, <1>5, <1>6, <1>7, OneRuleBoth DEF PackageStep

LEMMA BothStep == TypeInv /\ AloneInv /\ InstalledInv /\ [Next]_vars => AloneInv' /\ InstalledInv'
<1> SUFFICES ASSUME TypeInv, AloneInv, InstalledInv, [Next]_vars PROVE AloneInv' /\ InstalledInv'
  OBVIOUS
<1>1. CASE UNCHANGED packageVars /\ OthersCome
  BY <1>1, RulesKept DEF packageVars
<1>2. CASE UNCHANGED vars
  BY <1>1, <1>2 DEF vars, packageVars, OthersCome
<1>3. CASE FeedStep /\ UNCHANGED packageVars
  BY <1>1, <1>3, FeedRequests
<1>4. CASE PackageStep
  BY <1>4, PackageBoth
<1>5. CASE Restart
  <2>1. \A s \in Requests : requests'[s] = Idle
    BY <1>5 DEF Restart
  <2> QED BY <1>1, <1>5, <2>1 DEF Restart, OthersCome
<1> QED BY <1>2, <1>3, <1>4, <1>5 DEF Next

LEMMA BothInit == Init => AloneInv /\ InstalledInv
<1> SUFFICES ASSUME Init PROVE AloneInv /\ InstalledInv
  OBVIOUS
<1>1. Writing = {} /\ RuleIn = {} /\ installed = None
  BY DEF Init, Writing, RuleIn
<1> QED BY <1>1 DEF AloneInv, OneWriter, OneRulePerOrigin, InstalledInv

LEMMA BothHold == Spec => [](AloneInv /\ InstalledInv)
<1>1. Init => AloneInv /\ InstalledInv
  BY BothInit
<1>2. TypeInv /\ AloneInv /\ InstalledInv /\ [Next]_vars => AloneInv' /\ InstalledInv'
  BY BothStep
<1> QED BY <1>1, <1>2, Typed, PTL DEF Spec

\* While requests that write rules come one at a time, an import that ended
\* has left each rule of its package under one number, at the version and the
\* checksum of the file: a first import, an update, or the repetition of one
\* that failed or was cut off half way.
THEOREM ImportsInstall == Spec => []ImportsInstallTheirPackage
<1>1. TypeInv /\ InstalledInv => ImportsInstallTheirPackage
  <2> SUFFICES ASSUME TypeInv, InstalledInv, installed # None, NEW i \in DOMAIN installed.rules
               PROVE  LET same == {id \in RuleIn : Origin(rules[id]) = <<installed.package, i>>} IN
                      /\ Cardinality(same) = 1
                      /\ \A id \in same : /\ rules[id].version = installed.version
                                          /\ rules[id].sum = installed.rules[i].sum
    BY DEF ImportsInstallTheirPackage
  <2> DEFINE same == {id \in RuleIn : Origin(rules[id]) = <<installed.package, i>>}
  <2>1. PICK id \in RuleIds :
           /\ Installed(installed, i, id) /\ \A x \in RuleIds : From(installed, i, x) => x = id
    BY DEF InstalledInv, InstalledOnce
  <2>2. same = {id}
    BY <2>1 DEF Installed, From, RuleIn
  <2>3. Cardinality(same) = 1
    BY <2>2, FS_Singleton
  <2> QED BY <2>1, <2>2, <2>3 DEF Installed
<1> QED BY <1>1, Typed, BothHold, PTL

-----------------------------------------------------------------------------
(***************************************************************************)
(* Switches.  A request left alone writes over a rule's switch only with   *)
(* another version or another checksum.                                    *)
(***************************************************************************)
SwitchesMind ==
  \A id \in RuleIds :
    (/\ rules[id] # None /\ rules'[id] # None /\ ~mixed
     /\ rules'[id].enabled # rules[id].enabled /\ requests' # requests)
    => rules'[id].sum # rules[id].sum \/ rules'[id].version # rules[id].version

\* What an import left alone writes over the switch of.
LEMMA ImportSwitches ==
  ASSUME TypeInv, AloneInv, NEW r \in Requests
  PROVE  /\ CreateStep(r) => SwitchesMind
         /\ UpdateStep(r) => SwitchesMind
         /\ MarkStep(r) => SwitchesMind
<1>1. rules \in [RuleIds -> StoredRule \cup {None}] /\ PackageTypes
  BY DEF TypeInv, PackageTypes
<1>2. CASE CreateStep(r)
  <2>1. PICK x : rules' = [rules EXCEPT ![next] = x]
    BY <1>2 DEF CreateStep
  <2>2. next \notin RuleIn
    BY <1>1 DEF PackageTypes
  <2>3. \A id \in RuleIds : rules[id] # None => rules'[id] = rules[id]
    BY <1>1, <2>1, <2>2 DEF RuleIn
  <2> QED BY <2>3 DEF SwitchesMind
<1>3. CASE UpdateStep(r)
  <2>1. requests[r].op = "import" /\ r \in Writing /\ requests[r] \in ImportRequest
    BY <1>3, WritingOps DEF UpdateStep, Importing
  <2>2. PICK q \in ImportRequest : q = requests[r]
    BY <2>1
  <2>3. PICK c \in Contents : c = q.content /\ q \in ImportOf(c)
    BY <2>2, ImportHolds
  <2>4. q.updates # {} /\ q.updates \in SUBSET Row(c)
    BY <1>3, <2>2, <2>3 DEF UpdateStep, ImportOf
  <2>5. PICK u \in q.updates : u = CHOOSE x \in q.updates : \A y \in q.updates : x.name <= y.name
    BY <2>4, FirstByName
  <2>6. rules' = rules \/ rules' = [rules EXCEPT ![u.id] = Packaged(c, u.name)]
    BY <1>3, <2>2, <2>3, <2>5 DEF UpdateStep
  <2>7. \A id \in RuleIds : id # u.id => rules'[id] = rules[id]
    BY <1>1, <2>6
  <2>8. ASSUME u.id \in RuleIds, rules' # rules, ~mixed
        PROVE  rules'[u.id].sum # rules[u.id].sum \/ rules'[u.id].version # rules[u.id].version
    <3>1. From(c, u.name, u.id) /\ ~Installed(c, u.name, u.id)
      BY <2>1, <2>2, <2>3, <2>8 DEF AloneInv, WriterSound, ImportSound
    <3>2. rules'[u.id] = Packaged(c, u.name)
      BY <1>1, <2>6, <2>8
    <3> QED BY <3>1, <3>2 DEF Installed, Packaged
  <2> QED BY <2>6, <2>7, <2>8 DEF SwitchesMind
<1>4. CASE MarkStep(r)
  <2>1. requests[r].op = "import" /\ r \in Writing /\ requests[r] \in ImportRequest
    BY <1>4, WritingOps DEF MarkStep, Importing
  <2>2. PICK q \in ImportRequest : q = requests[r]
    BY <2>1
  <2>3. PICK c \in Contents : c = q.content /\ q \in ImportOf(c)
    BY <2>2, ImportHolds
  <2>4. q.left # {} /\ q.left \in SUBSET Row(c)
    BY <1>4, <2>2, <2>3 DEF MarkStep, ImportOf
  <2>5. PICK d \in q.left : d = CHOOSE x \in q.left : \A y \in q.left : x.id <= y.id
    BY <2>4, FirstById
  <2>6. PICK x : x = Marked(Packaged(c, d.name), Head(q.marks))
    OBVIOUS
  <2>7. rules' = rules \/ rules' = [rules EXCEPT ![d.id] = x]
    BY <1>4, <2>2, <2>3, <2>5, <2>6 DEF MarkStep
  <2>8. d.name \in DOMAIN c.rules
    BY <2>4, <2>5 DEF Row
  <2>9. x.enabled = c.rules[d.name].enabled
    <3>1. Packaged(c, d.name) \in StoredRule
      BY <2>8, PackagedType
    <3>2. x.enabled = Packaged(c, d.name).enabled
      BY <2>6, <3>1, MarkedType
    <3> QED BY <3>2 DEF Packaged
  <2>10. ASSUME ~mixed PROVE rules[d.id].enabled = x.enabled
    <3>1. ImportSound(q)
      BY <2>1, <2>2, <2>10 DEF AloneInv, WriterSound
    <3> QED BY <2>3, <2>5, <2>9, <3>1 DEF ImportSound
  <2> QED BY <1>1, <2>7, <2>10 DEF SwitchesMind
<1> QED BY <1>2, <1>3, <1>4

LEMMA OtherSwitches ==
  ASSUME TypeInv, AloneInv, NEW r \in Requests
  PROVE  /\ DeleteStep(r) => SwitchesMind
         /\ EndTest(r) => SwitchesMind
<1>1. rules \in [RuleIds -> StoredRule \cup {None}]
  BY DEF TypeInv, PackageTypes
<1>2. CASE DeleteStep(r)
  <2>1. rules' = rules \/ \E id : rules' = [rules EXCEPT ![id] = None]
    BY <1>2 DEF DeleteStep
  <2>2. \A id \in RuleIds : rules'[id] \in {rules[id], None}
    BY <1>1, <2>1
  <2> QED BY <2>2 DEF SwitchesMind
<1>3. CASE EndTest(r)
  <2>1. requests[r].op = "test" /\ r \in Writing /\ requests[r] \in TestRequest
    BY <1>3, WritingOps DEF EndTest
  <2>2. PICK q : q = requests[r]
    OBVIOUS
  <2>3. q.op = "test" /\ q.rule \in StoredRule
    BY <2>1, <2>2, OthersHold
  <2>4. PICK x : x = [q.rule EXCEPT !.tested = TRUE]
    OBVIOUS
  <2>5. x.enabled = q.rule.enabled
    BY <2>3, <2>4 DEF StoredRule
  <2>6. rules' = rules \/ rules' = [rules EXCEPT ![q.id] = x]
    BY <1>3, <2>2, <2>4 DEF EndTest
  <2>7. ~mixed => rules[q.id] = q.rule
    BY <2>1, <2>2, <2>3 DEF AloneInv, WriterSound
  <2> QED BY <1>1, <2>5, <2>6, <2>7 DEF SwitchesMind
<1> QED BY <1>2, <1>3

LEMMA SwitchStep == TypeInv /\ AloneInv /\ [Next]_vars => [SwitchesMind]_vars
<1> SUFFICES ASSUME TypeInv, AloneInv, Next PROVE SwitchesMind
  BY DEF vars
<1>1. CASE rules' = rules \/ requests' = requests
  BY <1>1 DEF SwitchesMind
<1>2. CASE UNCHANGED packageVars
  BY <1>1, <1>2 DEF packageVars
<1>3. CASE PackageStep
  <2>1. ASSUME NEW r \in Requests, NEW q, Begin(r, q) PROVE rules' = rules
    BY <2>1 DEF Begin
  <2>2. ASSUME NEW r \in Requests,
               \/ ImportRulePackage(r) \/ ApplyRulePackageUpdate(r) \/ ImportRuleProviderPackage(r)
               \/ \E id \in RuleIds : TestRule(r, id)
               \/ \E c \in Contents : DeleteRulePackage(r, c.package)
        PROVE  rules' = rules
    BY <2>1, <2>2 DEF ImportRulePackage, ApplyRulePackageUpdate, ImportRuleProviderPackage,
                      Import, TestRule, DeleteRulePackage
  <2>3. ASSUME NEW r \in Requests, NothingToImport(r) \/ ImportFails(r) PROVE rules' = rules
    BY <2>3 DEF NothingToImport, ImportFails, packageVars
  <2>4. ASSUME NEW id \in RuleIds, DeleteRule(id) \/ \E on \in BOOLEAN : UpdateRule(id, on)
        PROVE  requests' = requests
    BY <2>4 DEF DeleteRule, UpdateRule, Alone, Once
  <2> QED BY <1>1, <1>3, <2>2, <2>3, <2>4, ImportSwitches, OtherSwitches DEF PackageStep
<1> QED BY <1>2, <1>3 DEF Next, Restart

\* While requests that write rules come one at a time, a rule keeps the switch
\* the administrator gave it: an import turns it only with a new version or a
\* new checksum, and a test, a mark or a deletion never does.
THEOREM SwitchesStay == Spec => LocalSwitchesStay
<1>1. TypeInv /\ AloneInv /\ [Next]_vars => [SwitchesMind]_vars
  BY SwitchStep
<1>2. Spec => [][SwitchesMind]_vars
  BY <1>1, Typed, BothHold, PTL DEF Spec
<1> QED BY <1>2 DEF LocalSwitchesStay, SwitchesMind

=============================================================================
