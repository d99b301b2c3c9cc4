---------------------------- MODULE RuleCommunity ----------------------------
(***************************************************************************)
(* The rule community: what catalogs, providers and accounts are read from *)
(* elsewhere, and the rules that are installed from what they list.        *)
(***************************************************************************)
EXTENDS RulePackages

vars == <<backend, feed, listed, queue, requests, spent, wanted, failures, raced,
          rules, next, installed, mixed>>

\* Each feed has just been created, and no rule has been imported.
Init ==
    /\ backend \in Backends
    /\ \E c \in Configurations :
          /\ wanted = [k \in Feeds |-> c]
          /\ feed = [k \in Feeds |-> Fresh(c)]
    /\ listed = [k \in {"catalog", "provider"} |-> {}] /\ queue = <<>>
    /\ requests = [r \in Requests |-> Idle] /\ spent = 0
    /\ failures = 0 /\ raced = [k \in Feeds |-> {}]
    /\ rules = [id \in RuleIds |-> None] /\ next = 1
    /\ installed = None /\ mixed = FALSE

FeedStep ==
    \/ \E r \in Requests, c \in Configurations : UpdateRuleCatalog(r, c)
    \/ \E c \in Configurations : UpdateRuleProvider(c) \/ UpdateRuleAccountSource(c)
    \/ \E r \in Requests :
          \/ EndCatalogUpdate(r) \/ SyncRuleCatalog(r) \/ EndCatalogSync(r)
          \/ ValidateRuleProvider(r) \/ EndProviderValidation(r)
          \/ SyncRuleProvider(r) \/ RetryRuleProvider(r) \/ EndProviderSync(r)
          \/ RefreshRuleAccountSource(r) \/ EndAccountRefresh(r) \/ EndDecision(r)
          \/ \E i \in DOMAIN queue, d \in {"approved", "dismissed", "failed"} :
                DecideRuleReviewQueueItem(r, i, d)
    \/ \E k \in Feeds : DeleteFeed(k)

PackageStep ==
    \/ \E r \in Requests :
          \/ ImportRulePackage(r) \/ ApplyRulePackageUpdate(r) \/ ImportRuleProviderPackage(r)
          \/ \E id \in RuleIds : TestRule(r, id)
          \/ \E c \in Contents : DeleteRulePackage(r, c.package)
    \/ \E r \in Requests : UNCHANGED spent /\ (\/ CreateStep(r) \/ UpdateStep(r) \/ MarkStep(r)
                                               \/ NothingToImport(r) \/ ImportFails(r)
                                               \/ DeleteStep(r) \/ EndTest(r))
    \/ \E id \in RuleIds : DeleteRule(id) \/ \E on \in BOOLEAN : UpdateRule(id, on)

\* The process stops: what its requests had still to write is never written.
Restart ==
    /\ backend = "postgres" /\ spent < MaxOperations /\ spent' = spent + 1
    /\ requests' = [r \in Requests |-> Idle] /\ requests' # requests
    /\ UNCHANGED <<catalogVars, packageVars>>

Next ==
    /\ UNCHANGED backend
    /\ \/ FeedStep /\ UNCHANGED packageVars
       \/ PackageStep /\ UNCHANGED catalogVars
       \/ Restart
Spec == Init /\ [][Next]_vars
-----------------------------------------------------------------------------
\* Every variable holds a value the code can give it.
TypeOK ==
    /\ backend \in Backends /\ spent \in 0 .. MaxOperations /\ failures \in 0 .. MaxOperations
    /\ \A k \in Feeds :
          /\ feed[k].life \in {"live", "deleted"} /\ Config(feed[k]) \in Configurations
          /\ feed[k].status \in {"never-synced", "synced", "failed", "disabled", "authorized"}
          /\ feed[k].attempts \in 0 .. MaxOperations
    /\ \A k \in DOMAIN listed : listed[k] \in Catalogs \cup {{}}
    /\ next \in Nat \ {0} /\ rules \in [RuleIds -> StoredRule \cup {None}]
    /\ RuleIn \subseteq 1 .. next - 1
    /\ mixed \in BOOLEAN /\ installed \in Contents \cup {None}

\* Requests that write back the configuration they read.
WritesBack(k) ==
    CASE k = "catalog" -> {"sync"}
      [] k = "provider" -> {"validate"} \cup IF backend = "memory" THEN {"sync", "retry"} ELSE {}
      [] k = "account" -> IF backend = "memory" THEN {"refresh"} ELSE {}
\* The configuration of a feed is what the administrator last saved: a sync,
\* a retry or a refresh undoes no edit, unless it writes back the row it read
\* and an edit came between.  In PostgreSQL the syncs of providers and the
\* refreshes of accounts write their own columns, and undo none at all.
EditsSurviveSyncs ==
    \A k \in Feeds : raced[k] \cap WritesBack(k) = {} => Config(feed[k]) = wanted[k]

\* The attempts of a provider left to one request at a time are syncs that
\* failed since the last that brought its list: a success leaves none behind,
\* and an edit, a validation or a disabled sync makes none.  Exactly while it
\* has attempts, a retry is due or the retries are at their end.  In memory,
\* where no write is lost, every failure leaves it an attempt; in PostgreSQL
\* the time limit of a sync, or the database, may take the record of a failure.
AttemptsAreFailures ==
    Live("provider") /\ raced["provider"] = {} =>
        LET p == feed["provider"] IN
        /\ p.attempts <= failures
        /\ p.attempts > 0 <=> p.retry \/ p.exhausted
        /\ backend = "memory" /\ failures > 0 => p.attempts > 0

\* The packages listed of a feed change only when it is deleted, and then to
\* none, or as a sync of that feed ends that read it enabled, by the write
\* that calls it synced: a sync that fails, is cut off or finds its source
\* disabled, an edit or a validation keeps the list.  Which of two syncs that
\* overlap ends last is left open: its list stays.
OnlySyncsChangeTheLists ==
    [][\A k \in DOMAIN listed : listed'[k] # listed[k] =>
         IF feed'[k].life = "deleted" THEN listed'[k] = {}
         ELSE /\ feed'[k].status = "synced" /\ ~feed'[k].error
              /\ \E r \in Requests :
                    /\ requests[r] # Idle /\ requests[r].feed = k
                    /\ requests[r].op \in {"sync", "retry"} /\ requests[r].item.enabled
                    /\ requests'[r] = Idle]_vars

\* An import that ends leaves the rules of its package installed, each once
\* and at the version and checksum of the file, whether it was the first, an
\* update, or the repetition of one that failed or was cut off half way; only
\* imports that overlap may give a rule two rows.
ImportsInstallTheirPackage ==
    installed # None =>
        \A i \in DOMAIN installed.rules :
            LET same == {id \in RuleIn : Origin(rules[id]) = <<installed.package, i>>} IN
            /\ Cardinality(same) = 1
            /\ \A id \in same : /\ rules[id].version = installed.version
                                /\ rules[id].sum = installed.rules[i].sum

\* What the administrator switched stays so while requests come one at a
\* time: an import or a test turns a rule on or off only with a new version.
LocalSwitchesStay ==
    [][\A id \in RuleIds :
         (/\ rules[id] # None /\ rules'[id] # None /\ ~mixed
          /\ rules'[id].enabled # rules[id].enabled /\ requests' # requests)
         => rules'[id].sum # rules[id].sum \/ rules'[id].version # rules[id].version]_vars
=============================================================================
