---------------------------- MODULE RuleCatalogs ----------------------------
(***************************************************************************)
(* What the rule community reads from elsewhere: a catalog source, a       *)
(* provider and an account source, each a row the administrator edits and  *)
(* a sync or a refresh reads, works on, and writes back; the packages a    *)
(* catalog and a provider list, and the recommendations an account queues. *)
(***************************************************************************)
EXTENDS Integers, Sequences, FiniteSets

CONSTANTS
    Backends,       \* stores to check: "memory", "postgres"
    Requests,       \* requests in flight at a time
    Configurations, \* what a feed may be set to: source, enabled, limit of attempts
    Denied,         \* sources whose name tells their owner is refused
    Catalogs,       \* lists of packages a source may serve
    MaxOperations   \* bound: requests begun

VARIABLES
    backend,
    feed,       \* the catalog source, the provider and the account source
    listed,     \* the packages stored of the catalog and of the provider
    queue,      \* the recommendations queued, the oldest first
    requests,   \* what each request read and has still to write
    spent,
    wanted,     \* the configuration last acknowledged
    failures,   \* syncs of the provider that brought no list since the last that did
    raced       \* requests that saw another write their feed

catalogVars == <<feed, listed, queue, wanted, failures, raced>>

Feeds == {"catalog", "provider", "account"}
Idle == [op |-> "idle"]
Config(f) == [source |-> f.source, enabled |-> f.enabled, limit |-> f.limit]
\* "none" names the writer of an edit made in one step, no request in flight.
ASSUME CatalogAssumption ==
    /\ Backends \subseteq {"memory", "postgres"}
    /\ \A c \in Configurations : Config(c) = c /\ c.enabled \in BOOLEAN /\ c.limit \in 1 .. 10
    /\ MaxOperations \in Nat
    /\ "none" \notin Requests

\* A row as its request makes it: no state of its own.
Fresh(c) ==
    [life |-> "live", source |-> c.source, enabled |-> c.enabled, limit |-> c.limit,
     status |-> "never-synced", health |-> "never-synced", error |-> FALSE,
     attempts |-> 0, retry |-> FALSE, exhausted |-> FALSE]
WithConfig(f, g) == [f EXCEPT !.source = g.source, !.enabled = g.enabled, !.limit = g.limit]

Of(k) == {r \in Requests : requests[r] # Idle /\ requests[r].feed = k}
\* The requests that hold an older reading of feed k than the one written now.
Overtake(k, r) == raced' = [raced EXCEPT ![k] = @ \cup {requests[q].op : q \in Of(k) \ {r}}]

Start(r, k, op, item) ==
    /\ requests[r] = Idle /\ spent < MaxOperations /\ spent' = spent + 1
    /\ requests' = [requests EXCEPT ![r] = [op |-> op, feed |-> k, item |-> item]]
    /\ UNCHANGED catalogVars
End(r) == requests' = [requests EXCEPT ![r] = Idle]
Write(k, f, r) ==
    /\ feed' = [feed EXCEPT ![k] = IF @.life = "live" THEN [f EXCEPT !.life = "live"] ELSE @]
    /\ Overtake(k, r)
Once == spent < MaxOperations /\ spent' = spent + 1 /\ UNCHANGED requests

Live(k) == feed[k].life = "live"
Failed(f) == [f EXCEPT !.status = "failed", !.error = TRUE]
Disabled(f) == [f EXCEPT !.status = "disabled"]
-----------------------------------------------------------------------------
(***************************************************************************)
(* The catalog source                                                      *)
(***************************************************************************)
\* PUT /catalogs/{id}: the state of the row read first goes back with the edit.
UpdateRuleCatalog(r, c) ==
    Live("catalog") /\ Start(r, "catalog", "edit", WithConfig(feed["catalog"], c))
EndCatalogUpdate(r) ==
    /\ requests[r].op = "edit"
    /\ Write("catalog", requests[r].item, r)
    /\ wanted' = IF Live("catalog") THEN [wanted EXCEPT !["catalog"] = Config(requests[r].item)]
                 ELSE wanted
    /\ End(r) /\ UNCHANGED <<listed, queue, failures, spent>>

SyncRuleCatalog(r) == Live("catalog") /\ Start(r, "catalog", "sync", feed["catalog"])

\* Slip: the list of a source deleted meanwhile is stored.
ReplaceRuleCatalogPackages_Unchecked(r, list) ==
    /\ Write("catalog", [feed["catalog"] EXCEPT !.status = "synced", !.error = FALSE], r)
    /\ listed' = [listed EXCEPT !["catalog"] = list]
\* Store.ReplaceRuleCatalogPackages: the list and the outcome, not the edited columns.
ReplaceRuleCatalogPackages(r, list) ==
    /\ Write("catalog", [feed["catalog"] EXCEPT !.status = "synced", !.error = FALSE], r)
    /\ listed' = IF Live("catalog") THEN [listed EXCEPT !["catalog"] = list] ELSE listed

\* A sync that fails, or finds its source disabled, writes all of the row it
\* read; when that write fails its error is dropped, and when the time limit
\* runs out before the transaction there is none.
EndCatalogSync(r) ==
    /\ requests[r].op = "sync" /\ requests[r].feed = "catalog"
    /\ LET item == requests[r].item IN
       \/ ~item.enabled /\ Write("catalog", Disabled(item), r) /\ UNCHANGED listed
       \/ item.enabled /\ Write("catalog", Failed(item), r) /\ UNCHANGED listed
       \/ item.enabled /\ \E list \in Catalogs : ReplaceRuleCatalogPackages(r, list)
       \/ backend = "postgres" /\ UNCHANGED <<feed, listed, raced>>
    /\ End(r) /\ UNCHANGED <<queue, wanted, failures, spent>>
-----------------------------------------------------------------------------
(***************************************************************************)
(* The provider                                                            *)
(***************************************************************************)
\* Store.UpdateRuleProviderAdapter: what it takes from the request, what it keeps.
UpdatedProvider(old, item) ==
    [item EXCEPT !.attempts = old.attempts, !.retry = old.retry, !.exhausted = old.exhausted,
                 !.error = IF backend = "memory" THEN old.error ELSE @]

\* The request carries no state: the health and the status start again.
UpdateRuleProvider(c) ==
    /\ Live("provider") /\ Once
    /\ Write("provider", UpdatedProvider(feed["provider"], Fresh(c)), "none")
    /\ wanted' = [wanted EXCEPT !["provider"] = c]
    /\ UNCHANGED <<listed, queue, failures>>

ValidateProviderCredentials(item) ==
    IF ~item.enabled THEN [Disabled(item) EXCEPT !.health = "disabled", !.error = TRUE]
    ELSE IF item.source \in Denied THEN [Failed(item) EXCEPT !.health = "unauthorized"]
    ELSE [item EXCEPT !.health = "healthy", !.error = FALSE]
ValidateRuleProvider(r) == Live("provider") /\ Start(r, "provider", "validate", feed["provider"])
EndProviderValidation(r) ==
    /\ requests[r].op = "validate"
    /\ Write("provider", UpdatedProvider(feed["provider"],
                                         ValidateProviderCredentials(requests[r].item)), r)
    /\ End(r) /\ UNCHANGED <<listed, queue, wanted, failures, spent>>

SyncRuleProvider(r) == Live("provider") /\ Start(r, "provider", "sync", feed["provider"])
RetryRuleProvider(r) == Live("provider") /\ Start(r, "provider", "retry", feed["provider"])

ProviderSyncFailure(item, unauthorized, manual) ==
    LET attempts == IF manual THEN item.attempts + 1
                    ELSE IF item.attempts = 0 THEN 1 ELSE item.attempts
        over == attempts >= item.limit
    IN [Failed(item) EXCEPT !.health = IF unauthorized THEN "unauthorized" ELSE "failed",
                            !.attempts = attempts, !.retry = ~over,
                            !.exhausted = over \/ item.exhausted]
\* Slip: the attempts go on counting.
ProviderSynced_Attempts(item) ==
    [item EXCEPT !.health = "healthy", !.status = "synced", !.error = FALSE]
ProviderSynced(item) ==
    [item EXCEPT !.health = "healthy", !.status = "synced", !.error = FALSE,
                 !.attempts = 0, !.retry = FALSE, !.exhausted = FALSE]

\* Slip: every column is written.
UpdateRuleProviderSyncState_AllColumns(item, r) == Write("provider", item, r)
\* In memory the sync state is all of the row that was read; in PostgreSQL its own columns.
UpdateRuleProviderSyncState(item, r) ==
    Write("provider", IF backend = "memory" THEN item ELSE WithConfig(item, feed["provider"]), r)

\* The outcomes of a sync: its source is disabled, it failed, it brought a
\* list, or nothing was written: the write of the state failed, its error
\* dropped, or the time limit ran out before the transaction.  One that wrote
\* its list and was answered with an error has brought it.
EndProviderSync(r) ==
    /\ requests[r].op \in {"sync", "retry"} /\ requests[r].feed = "provider"
    /\ LET item == requests[r].item IN
       \/ /\ ~item.enabled
          /\ UpdateRuleProviderSyncState([Disabled(item) EXCEPT !.health = "disabled", !.error = TRUE], r)
          /\ UNCHANGED <<listed, failures>>
       \/ /\ item.enabled
          /\ \E unauthorized \in {FALSE, item.source \in Denied} :
                UpdateRuleProviderSyncState(
                    ProviderSyncFailure(item, unauthorized, requests[r].op = "retry"), r)
          /\ failures' = failures + 1 /\ UNCHANGED listed
       \/ /\ item.enabled /\ item.source \notin Denied
          /\ UpdateRuleProviderSyncState(ProviderSynced(item), r)
          /\ \E list \in Catalogs :
                listed' = IF Live("provider") THEN [listed EXCEPT !["provider"] = list] ELSE listed
          /\ failures' = 0
       \/ /\ backend = "postgres" /\ UNCHANGED <<feed, listed, raced>>
          /\ failures' = IF item.enabled THEN failures + 1 ELSE failures
    /\ End(r) /\ UNCHANGED <<queue, wanted, spent>>
-----------------------------------------------------------------------------
(***************************************************************************)
(* The account source and its recommendations                              *)
(***************************************************************************)
\* Store.UpdateRuleCommunityAccountSource keeps the outcome of the last refresh.
UpdateRuleAccountSource(c) ==
    /\ Live("account") /\ Once
    /\ Write("account", [Fresh(c) EXCEPT !.error = IF backend = "memory" THEN feed["account"].error
                                                   ELSE @], "none")
    /\ wanted' = [wanted EXCEPT !["account"] = c]
    /\ UNCHANGED <<listed, queue, failures>>

\* The outcome is read off the address; "health" stands for the subscription.
RefreshedAccount(item) ==
    IF ~item.enabled THEN [Disabled(item) EXCEPT !.health = "stale", !.error = FALSE]
    ELSE IF item.source \in Denied THEN [Failed(item) EXCEPT !.health = "unauthorized"]
    ELSE [item EXCEPT !.status = "authorized", !.health = "authorized", !.error = FALSE]
RefreshRuleAccountSource(r) == Live("account") /\ Start(r, "account", "refresh", feed["account"])

\* Store.RefreshRuleCommunityAccountSource: the state and the recommendations at once.
EndAccountRefresh(r) ==
    /\ requests[r].op = "refresh"
    /\ LET item == RefreshedAccount(requests[r].item) IN
       /\ Write("account", IF backend = "memory" THEN item ELSE WithConfig(item, feed["account"]), r)
       /\ queue' = IF Live("account") /\ item.status = "authorized"
                   THEN Append(queue, "queued") ELSE queue
    /\ End(r) /\ UNCHANGED <<listed, wanted, failures, spent>>

\* PUT /review-queue/{id} reads the recommendation and writes it back decided.
DecideRuleReviewQueueItem(r, i, decision) ==
    i \in DOMAIN queue /\ Start(r, "queue", decision, i)
EndDecision(r) ==
    /\ requests[r].op \in {"approved", "dismissed", "failed"}
    /\ queue' = [queue EXCEPT ![requests[r].item] = requests[r].op]
    /\ End(r) /\ UNCHANGED <<feed, listed, wanted, failures, raced, spent>>
-----------------------------------------------------------------------------
\* DELETE of a row: its packages go with it, its recommendations stay.
DeleteFeed(k) ==
    /\ Live(k) /\ Once
    /\ feed' = [feed EXCEPT ![k].life = "deleted"]
    /\ listed' = [f \in DOMAIN listed |-> IF f = k THEN {} ELSE listed[f]]
    /\ UNCHANGED <<queue, wanted, failures, raced>>
=============================================================================
