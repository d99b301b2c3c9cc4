# LiteWaf API: a TLA+ verification project

LiteWaf API is the control plane of a web application firewall. Operators edit
applications, certificates, rules and an nginx draft over HTTP; a *release*
turns the content of the store into a directory of files that the Gateway
(OpenResty, a repository of its own) loads. The Gateway reports events back and
polls a few feeds.

- [1 Inventory](#1-inventory)
- [2 Modules](#2-modules)
- [3 What the runs check](#3-what-the-runs-check)
- [4 What is proved](#4-what-is-proved)
- [5 Disagreements found](#5-disagreements-found)
- [6 Not modelled](#6-not-modelled)
- [7 Plan](#7-plan)

## 1 Inventory

The program is one process. `net/http` (or the go-zero scaffold) runs one
goroutine per request; a handler calls the `Store` interface a number of times
and nothing serialises two handlers against each other. `MemoryStore` takes one
mutex per call and starts empty; `PostgresStore` issues one statement, or one
transaction, per call at READ COMMITTED, with the request's context, which is
cancelled when the client leaves.

| component | state | operations | hard behaviour | what makes it correct |
|---|---|---|---|---|
| Release pipeline (`publish/config.go`, `handlers.go`) | the runtime directory: `gateway.json`, listeners, snippets, certificates, `nginx.conf` | release, rollback, preview | ~10 separate reads of a changing store, two reviews, one file at a time, an external reload, a record at the end; crashes and lost databases between any two | a reload sees what is published; the history names what was published; what is published was validated |
| Nginx draft (`nginx_config.go`, `model/nginx_config.go`) | draft text, validation status | save, validate | validate reads the draft twice and saves it | a verdict belongs to its text |
| Publish records (`memory.go`, `postgres.go`) | list of records | next version, create, find by version | version is a count taken long before it is used | versions are unique and never reused |
| Applications, certificates, policies, rules | rows and bindings | create, update, delete | existence checks and writes in separate statements, foreign keys on other tables, an application read in five statements | references lead to existing rows; what is stored validates; a reader sees one version of an application |
| Readiness and rendering (`publish/config.go`) | none: functions over the store's content | readiness, validate, generate, render listeners, applications from a recorded configuration | each stage of a release reads the store again; many hosts, ports and protocols overlap | what the first check accepts, later readings of the same applications pass; every accepted host is served once; a rollback renders what was rendered |
| Protection rules, legacy migration (`protectionrules.go`, the module handlers) | `protection_rules`, and a table per module from earlier versions | CRUD that falls back from one to the other, backfill, merge at release, health report | one rule in two generations of tables, updates of two statements, a backfill of many | each rule reaches the Gateway once, in its latest form; console and release agree |
| Dynamic bans (`observability_postgres.go`, `memory.go`) | bans, clears with a revision | ban event, clear, list, feed of clears | events late or repeated, revisions that commit out of order, a polling reader | every clear reaches the gateway |
| Rule packages (`rulepkg/package.go`) | rules with a package origin | import, update, test, switch, remove | rule by rule, no transaction, rules read once at the start | an import that ends leaves its package installed once; local switches survive |
| Catalogs, providers, accounts (`rulepkg/provider.go`, `community*.go`) | a row per source, the packages listed, a review queue | edit, sync, retry, validate, refresh, delete | seconds on the network between the read of a row and its write | an edit is not undone by a sync; the last good list survives a failure; attempts count failures |
| IP access lists (`ipaccess.go`) | entries | create, update, delete, index | masks and lengths at their limits, several entries for one address | the index answers as the list does |
| Authentication | token, role table | login, require | stateless | a role reaches only its routes |
| Observability | logs, aggregates | ingest, list, report | none of a protocol | - |
| GeoIP, startup, HTTP plumbing, scripts | none after startup | - | - | - |

Interactions: handlers call the store and the `publish` package; `publish`
reads the store again by itself; the only shared state outside the store is the
runtime directory, written by releases and rollbacks and read by the Gateway
when a reload command succeeds and, for `gateway.json`, by its own polling.
The list of hazards, each at its line, is in `PROJECT.json`.

## 2 Modules

| module | models |
|---|---|
| `Release` | release, rollback, draft validation, edits, failures and restarts |
| `Publication` | the abstract service that `Release` implements |
| `MCRelease` | values for TLC; one cfg per question |
| `ReleaseProofs`, `ReleaseReviewProofs` | theorems about `Release`, checked by TLAPS; the second has those about reviews, snapshots and reloads |
| `BanFeed` | ban events, manual unbans, the feed of clears and the Gateway's poll |
| `ClearFeed` | the abstract feed that `BanFeed` implements |
| `MCBanFeed` | values for TLC |
| `BanFeedProofs` | theorems about `BanFeed`, checked by TLAPS |
| `ConfigStore` | applications, certificates, policies and rules in both stores, with the references between them |
| `MCConfigStore` | values for TLC |
| `ConfigStoreProofs` | theorems about `ConfigStore`, checked by TLAPS |
| `ProtectionConversion`, `ProtectionRequests` | the forms of a protection rule and the conversions and checks between them; what the API of each module makes of a request |
| `ProtectionRules` | the two generations of tables under edits, backfills and releases |
| `MCProtectionRules` | installations and requests for TLC |
| `ProtectionProofs` | theorems about `ProtectionRules`, checked by TLAPS |
| `RuleCatalogs` | catalog source, provider and account source with their syncs |
| `RulePackages` | packages and the rules that come with them |
| `RuleCommunity` | composes the two: what is imported is what they list |
| `MCRuleCommunity` | values for TLC |
| `RuleCommunityProofs` | theorems about `RuleCommunity`, checked by TLAPS |
| `Lists` | sorted and filtered lists, in a form the prover can expand |
| `ApplicationModel`, `AccessIndex` | applications as values: normalisation, validation, readiness, rendering; the IP access list and its index |
| `Applications` | applications, sites, certificates and access entries under edits, and a release that reads them |
| `MCApplications` | stores and request bodies for TLC |
| `AccessIndexProofs`, `ApplicationsProofs` | theorems about `AccessIndex` and `Applications`, checked by TLAPS |

`Release`, `BanFeed`, `ConfigStore`, `ProtectionRules`, `RuleCommunity` and
`Applications` each hold the store they run on in a variable `backend`, chosen
at startup from the constant `Backends`: one run checks both. `X_Word` next to
a definition `X` is a *slip*: `X` with one plausible mistake. Nothing uses it;
it says which mistake a property is there to catch (`PROJECT.json`, `mutants`).

### Release

One handler (`p \in Handlers`) is one goroutine. `pc[p]` is the place in the
code it has reached and `loc[p]` its local variables. Each action is the code
between two points where another goroutine can get in:

| code | phases of `pc` |
|---|---|
| `createRelease`: version, readiness | `StartRelease`, `readiness`, `readinessCerts` |
| `BuildAdvancedNginxReview` (also `validateNginxConfigDraft`) | `review`, `reviewDraft`, `reviewCerts` |
| `GenerateExtended` with `Validate` | `validate`, `validateCerts`, `generate` |
| `WriteAtomic(gateway.json)` | `writeConfig`, `rollbackConfig` |
| `WriteRuntimeArtifactsWithAdvancedNginx` | `artifacts`, `artifactsDraft`, `artifactsCerts` |
| the restore branches of `rollbackRelease` | `restore` |
| `WriteRuntimeArtifactSnapshot`, one file per step | `writeFiles` |
| `runGatewayReload` | `reload` |
| `CreatePublishRecord` | `record` |
| the end of `validateNginxConfigDraft` | `reread`, `saveDraft` |

`apps`, `certs`, `draft`, `draftStatus` and `records` are the store;
`gatewayJson` and `files` the runtime directory; `loaded` what the Gateway
loaded last. `RequestFails` is every early return with an error of the outside
world (database away, client gone, disk full), `Crash` a restart, after which a
memory store is empty and a database is not. `vetted`, `everLive` and
`disturbed` are history variables: no guard reads them.

Abstractions, each chosen so that no property can tell the difference:

- The applications are one value of `AppConfigs`. Of a value the pipeline only
  needs to know which certificates its enabled https listeners use (`Uses`) and
  whether the readiness rules object to it (`Conflicting`; `Applications` has
  the rules). Legacy sites, used when there are no applications, are
  values too.
- A text is a model value; `Hooked` are those that keep the LiteWaf hooks.
- `body-size.conf` has one content per process and is left out. A file and its
  mode are written in one step. Certificates are written in any order, because
  the code ranges over a map.
- An edit of the store is one step. That is what the memory store does; the
  separate checks and statements of the database are in `ConfigStore`, and the
  statements that read an application in `Applications`.
- A failing reload command leaves the Gateway with what it had loaded. The
  command cannot succeed on a directory OpenResty rejects (`Loadable`); a
  rejected directory or any other reason may make it fail.
- Versions: `ruleset-0007` is `<<7>>`, a rollback of it at second 3
  `<<7, 3>>`. The clock moves only when something reads it.

`Service == INSTANCE Publication` maps `gatewayJson` to the active
configuration and the configurations of `records` to the history.

### BanFeed

`bans` is the table (or map) of bans, keyed by target (application and client
IP) and listener (port and scheme); `clears` the rows of the feed; `revision`
what `nextDynamicBanRevision` or the database sequence gives next. `cursor` and
`read` belong to the Gateway: the `since_revision` of its next poll, and what
it has been told to release.

| code | action |
|---|---|
| `MemoryStore.CreateWAFEvent` with `projectDynamicBanEventLocked` | `CreateWAFEvent`, in one step |
| `PostgresStore.CreateWAFEvent`: the INSERT, then `projectDynamicBanEvent` | `CreateWAFEvent`, then `ProjectDynamicBanEvent` or `LoseProjection` |
| `MemoryStore.ClearDynamicBan` | `ClearInMemory` |
| `PostgresStore.ClearDynamicBan` | `BeginClear` (nextval), `UpdateBans`, `InsertClears`, `Commit`; `AbortClear` for every failure in between |
| `ListDynamicBanClears` and the Gateway's worker | `Poll` |
| restart of the process | `Restart` |

The rows a transaction writes are kept in `tx[p]` and appear in the tables with
`Commit`; a statement that needs a row another transaction has updated waits
(`Locked`). Rows of one revision come in no particular order, because the
query orders by revision alone, so a page is any set of `PageSize` rows with
none of a smaller revision left out. The loop over the memory store's map meets
the bans of a target in any order and keeps `status` between them
(`MetBeforeActive`). An expired ban is an active one whose time has passed.
Event times are not ahead of the clock. The Gateway polls without a filter and
takes the last row's revision as its next `since_revision`; this is external,
modelled from the API documentation (`doc/API文档.md`, "网关使用摄取令牌读取增量清理
feed").

`Feed == INSTANCE ClearFeed` maps `published` to the clears without their
listeners and `delivered` to what the Gateway has read.

### ConfigStore

`rows` holds the ids of each kind, `next` the next id, `uses` the certificate of
each enabled https listener of an application, `bound` the bindings of policies
(`policy_sites` and `policy_rules`, the fields `SiteIDs` and `RuleIDs` in
memory). `req[p]` is a request under way: its arguments, the statement it has
reached (`phase`), what is left of a loop (`todo`) and the bindings it has
deleted (`old`). `chosen` is a history variable: what the last save of a policy
asked for; so is `raced`: the certificates whose deletion ran beside a save
that names them.

| code | action |
|---|---|
| every operation of `MemoryStore`, under its mutex | `InMemory`, `Create`, `DeleteApplication` |
| `CreateCertificate`, `CreateRule`, `DeleteApplication` (one statement or one transaction without checks) | `Create`, `DeleteApplication` |
| `CreateApplication`, `UpdateApplication` of the database | `BeginSaveApplication`, `CheckCertificate` per listener, `WriteApplication` |
| `DeleteCertificate` | `BeginDeleteCertificate`, `CountListeners`, `DeleteCertificate` |
| `CreatePolicy`, `UpdatePolicy` | `BeginSavePolicy`, `CheckReferences`, `WritePolicyRow`, `Unbind`, `BindSites`, `BindRule` per rule, `CommitPolicy`; `AnswerConstraint` when a foreign key refuses |
| `DeletePolicy` | `BeginDelete`, `LockPolicy`, `DeletePolicy` (the cascade) |
| `DeleteRule` | `BeginDelete`, `LockRule`, `DeleteRule` (the cascade) |
| an error of the connection, a client that leaves | `RequestFails` |
| restart of the process | `Restart` |

A statement of PostgreSQL that needs a row another transaction has locked waits:
`LocksPolicy` (the row of a policy, from its UPDATE on), `LocksBinding` (the
binding rows that a save has deleted), `SharesRule` (the key-share lock that a
foreign key takes on the rule of an inserted binding) and `LocksRule`. A save
that inserts a binding waits for the deletion of the rule, the deletion waits
for the save that has deleted the old binding: `Deadlocked` finds such circles
and `AbortDeadlocked` is the database giving one of them up. These rules are the
database's (external); which statement comes when, and so which circles there
can be, is the code's.

Abstractions:

- Of an application only the certificates of its enabled https listeners are
  kept (`Applications` has the rest), of a rule, a certificate and a policy only the id and the bindings.
  Updates of a rule or a certificate change no reference and are left out.
- A transaction shows its writes at the commit (READ COMMITTED); the locks
  stand for what other transactions notice before that.
- `CheckReferences` checks all ids in one step. What can change between two of
  the queries is met again by the foreign keys, statement by statement.
- `OldSites` are the rows of the table `sites`, which no route edits any more.
  `policy_sites` refers to that table only, while the ids of a policy are those
  of applications.

### ProtectionRules

`rules` is `protection_rules`, `rows` the older tables (rate limits, upload,
bot, dynamic and managed attack rules). A rule that copies a row keeps its
reference in `ref`. `ProtectionConversion` has a rule in each of its forms
(`FromRateLimit`, `ToRateLimit`, ...), `Normalize` and `Validate`, and what a
release asks of an older row; `ProtectionRequests` the defaults and checks of
each module's API. Both are pure operators: texts are the values the code tells
apart, and `Tidied` says what trimming and case folding make of an untidy one.

| code | action |
|---|---|
| create of a module | `CreateProtectionRule` |
| update and delete of a module: `protection_rules` first, the module's older table if there was no such row | `UpdateProtectionRule`, `DeleteProtectionRule`, then `UpdateRow`, `DeleteRow` |
| the `/rate-limits` API; the switch of a managed attack rule | `CreateRateLimit`, `UpdateRateLimit`, `DeleteRateLimit`; `ToggleAttackRule` |
| `BackfillProtectionRules`: a read of each table, an INSERT per row | `StartBackfill`, `ReadTable`, `InsertCopy`, `EndBackfill`, `BackfillFails` |
| `Validate` and the reads and the merge of `GenerateExtended` | `StartRelease`, `ReadList` |
| the list of a module with the older rows, the health report | the operators `Listed`, `Healthy` |
| the Gateway, which falls back to the field `rate_limits` when no rule of that module is released (external, from the guide to CC protection) | the operator `EnforcedBy` |

In memory the backfill holds the mutex (`Unlocked`). `steady` is a history
variable: the released rules (`RulesInForce`) since the generation of a release
began and not rewritten since. It follows the part `protection_rules` of what is
released: the fallback stands or falls with a whole module, and a reading torn by
an edit can take it away for one generation. `clients` holds the requests a behaviour may see. Edits of the
attack rules are one switch; the API of the older tables other than the rate
limits has no route.

### RuleCatalogs, RulePackages and RuleCommunity

There is one catalog source, one provider and one account source (`feed`), each
with the packages it lists (`listed`), and the queue of recommendations. A sync,
a retry, a validation and a refresh read their row (`requests[r].item`), spend
time on the network, and write: in PostgreSQL the columns of a sync
(`WithConfig`) or, for the catalog and the validation, the row; in memory the
row they read. In PostgreSQL the write itself may be lost, to the time limit of
the sync or to the database, and the code drops that error or answers it: the
request then ends with nothing written. `wanted` (the configuration last saved),
`failures` (the provider's syncs that brought no list since the last that did,
whether or not that was recorded) and `raced` (requests that somebody overtook)
are history variables.

| code | action |
|---|---|
| PUT of a source | `UpdateRuleCatalog`, `EndCatalogUpdate`; `UpdateRuleProvider`; `UpdateRuleAccountSource` |
| sync and retry | `SyncRuleCatalog`, `EndCatalogSync`; `SyncRuleProvider`, `RetryRuleProvider`, `EndProviderSync` |
| validate, refresh | `ValidateRuleProvider`, `EndProviderValidation`; `RefreshRuleAccountSource`, `EndAccountRefresh` |
| a decision about a recommendation | `DecideRuleReviewQueueItem`, `EndDecision` |
| DELETE | `DeleteFeed` |
| import of a package, of a listed one, of a provider's | `ImportRulePackage`, `ApplyRulePackageUpdate`, `ImportRuleProviderPackage`: the preview, which reads the rules; then `CreateStep`, `UpdateStep`, `MarkStep` per rule, `ImportFails` |
| test of a stored rule, removal of a package | `TestRule`, `EndTest`; `DeleteRulePackage`, `DeleteStep` |
| PUT and DELETE of a rule | `UpdateRule`, `DeleteRule` |
| restart | `Restart` |

What a catalog serves and whether the network answers is a choice. A package is
the checksums and switches of its rules under one version. `mixed` records that
requests wrote rules while another was writing them, `installed` the package of
the last import that ended without.

### Applications

`applications`, `sites`, `entries` and `certificates` are tables; `release` is a
release under way with the list it has read so far. `ApplicationModel` holds
the functions: `NormalizeApplication`, `ValidateApplication`,
`ReadinessErrors`, `ListenerConfig` (the server blocks),
`GatewayApplications` and `ApplicationsFromConfig`; `AccessIndex` those of the
access list.

| code | action |
|---|---|
| create and update of an application | `SaveApplication`; in PostgreSQL the checks there and the transaction in `CommitApplication` |
| the other edits | `DeleteApplication`, `CreateCertificate`, `DeleteCertificate`, `CommitCertificateDeletion`, `SaveSite`, `DeleteSite`, `SaveEntry`, `DeleteEntry` |
| `ListApplications`: the rows, then hosts, listeners, upstreams and routes of each; the sites if there is none | `ReadRows`, `ReadPart`, `ReadSites` |
| the readiness check of `createRelease`, `BuildAdvancedNginxReview` with the gates after it, `Validate`, `GenerateExtended` with the write of `gateway.json`, the listeners of the artifacts | `Readiness`, `Review`, `Validate`, `Generate`, `WriteArtifacts`, each after a reading of its own |
| an error of the database while it reads | `ReadFails` |

Each of these steps may also end the release for a reason outside this module
(`Fails`): advanced nginx text that is unconfirmed or refused, policies, rules
and protection rules that `Validate` refuses, a full disk. `Release` has the
nginx text, `ProtectionRules` the protection rules. After `Generate` the new
`gateway.json` stays beside the servers of before. A release reads the
applications seven times: the first reading only fills a summary of the record
and is left out, and so is the second of `Validate`, which looks for the
applications of policies.

A host is a name and a spelling (`ApplicationModel` lists them), an address
`Width` bits, a text one of `Text`. The code sorts with `sort.Slice` and filters
with loops; `Lists` has both by what they give (`InOrder`: the element with k
elements up to itself is number k), because the prover has no definitions of
`SortSeq` and `SelectSeq` of the library. `release.quiet` records that no edit overlapped the release,
`release.whole` that none overlapped the reading of an application.

## 3 What the runs check

Deadlock checking is off in all runs, because requests, edits and faults are
bounded and a server with nothing left to do is idle. A run checks both stores
unless the table says otherwise.

| run | bounds | states | question |
|---|---|---|---|
| `release` | 1 handler; 2 requests, 2 edits, 1 fault; histories with a record from before snapshots, or none | 355,000 | does every reload see all that its request publishes, after failures and restarts? can each recorded snapshot be restored on its own? is `Publication` implemented? |
| `release_races` | database, 2 handlers; 2 requests, 2 edits | 919,000 | consistency and confirmation of a release that no edit overtook; hooks, fresh versions, only validated advanced files whatever happens |
| `release_rollback` | database; 3 requests, 2 edits | - | violated: see 5 |
| `bans` | 1 unban at a time; 2 targets, 2 listeners, 2 events, 2 unbans, 1 second, a page of 1 row; 1 fault on the database | 95,000 | does the cursor pass over no clear, is every committed unban read? does every cleared ban have its row? do revisions grow? is `ClearFeed` implemented? |
| `bans_race` | database, 2 unbans at a time | - | violated: see 5 |
| `store` | 2 requests at a time, 5 in all; 2 applications, 1 certificate, 2 rules, 2 policies, 1 old site, 1 fault | 121,000 | is a certificate lost only where its deletion overlapped a save that names it? do bindings lead to rows, is a policy what its last save asked for? do requests wait for each other only over a rule that is being deleted? |
| `store_race` | database, 2 requests at a time, 3 in all | - | violated: see 5 |
| `store_bindable` | database, no old site | - | violated: see 5 |
| `protection` | 4 operations (edits, backfills, releases, failures) on rate limits, 3 on each of five other installations | 287,000 | is a steady rule in a release once? does the console show what is enforced, and the health report name the limits it hides? does a backfill change no protection, and finish? what does a clean health report mean? |
| `protection_publishable` | 2 operations, one bot rule | - | violated: see 5 |
| `community` | 2 requests at a time, 4 operations; two versions of a package, three configurations | 1,099,000 | which edits survive a sync, what changes a list, what attempts count, what an import leaves |
| `applications` | 2 edits, 1 release; 3 stores; 64 lists of two access entries, addresses of 3 bits | 238,000 | does every released route reach an upstream? do the applications of a quiet release pass all checks after the first, is every host served once? does a rollback render the same? does the index answer as the list? |

Why the bounds are enough:

- `release`, `release_races`: two handlers are enough for every race between a
  release, a rollback and a validation, because handlers share only the store
  and the directory and each property is about one handler or pairs of records.
  A draft edit and an application edit separate any two of the reads; one fault
  at each step followed by a second request shows what the next publication
  makes of the debris. With the old record, two requests (a rollback of it and a
  release) let the version count meet a rollback's record. Three values of the
  applications (none, with an https listener, conflicting), one certificate with
  two key pairs, and drafts with nothing, a snippet, a full override with and
  without the hooks are what the guards tell apart.
- `bans`: two unbans are what it takes to order them, two listeners to split the
  rows of one over two pages, two events to re-activate a ban or to add one
  during an unban. One of the listeners is that of events without a port, whose
  rows look like those of a clear that found no ban.
- `store`: two applications separate "in use by another" from "in use by none",
  two rules and two policies a lock of one row from a lock of all. Five requests
  create rows and leave two of them to run against each other.
- `protection`: an edit, a backfill that fails, a second one and an edit or a
  release use up the four operations; the tables hold one older row each, so
  that five copies and creations fit. Every conversion and every module's API
  is in one of the installations.
- `community`: an edit, two syncs that overlap and one more operation on one
  feed, or a first import, an update cut off half way and its repetition. Feeds
  do not share rows, and packages only meet in the table of rules.
- `applications`: hosts are spelt in the five ways the code knows, ports and
  protocols overlap between the bodies; two edits fit between any two reads of
  a release. The access lists are taken in twos: precedence is between two
  entries of a kind, a scope and an address; three bits hold the lengths 0, full
  and two in between.

Fairness. `ClearsAreRead` assumes that the database answers the
statements of an unban and that the Gateway's timer fires again and again
(`LITEWAF_DYNAMIC_BAN_CLEAR_INTERVAL`); a failed statement aborts the unban, and
then nothing was recorded. Starting requests, editing and failing are not fair.
The other modules have no liveness property. That a release ends depends on two
external commands that the code gives no time limit, and to assume that they
return would be to assume the answer; that requests in a deadlock end is the
database's doing. What the code decides, which requests can get into one, is the
invariant `DeadlocksAreOverDeletedRules`.

*Quiet* properties: the code promises nothing for a release whose reads an
edit overtook. `disturbed` and `quiet` record that, so that
`QuietReleaseIsReviewed` and the quiet properties of
`Applications` say what holds without such an edit, also with other requests in
flight. `raced`, `mixed` and `job.undisturbed` do the same for
`OnlyOverlapsLoseCertificates`, for the feeds, the imports and the backfill. For
the certificates the violation run shows what happens with an overlap.

## 4 What is proved

`ReleaseProofs` holds, for any number of handlers, applications, certificates,
requests, edits and failures, and for either store:

- `TypeCorrect`: `Spec => []TypeOK`.
- `FreshVersions`: `Spec => []VersionIsFresh`. Freshness is not inductive. The
  invariant behind it (`VersionInv`) says that the number of a record is at
  most its position in the list, and that the number a handler carries is at
  most one more than the length of the list, whichever request it serves;
  appending keeps both, and the next number is past all of them. `ControlInv`
  adds what a handler's place implies for its local variables.
- `DatabaseVersionsUnique`: on the database no two records share a version, by
  the UNIQUE constraint and with histories that satisfied it. The in-memory
  store has no such check, and concurrent releases there can share a version.
- `OnlyVettedAdvancedFiles`: `Spec => []AdvancedFilesWereVetted`. The invariant
  (`VettedInv`) follows a snapshot through the three places it can be: carried
  by a handler, recorded, and on disk file by file.
- `Implementation`: `Spec => ImplementsPublication`, the refinement. The
  invariant (`LiveInv`) says that what a handler is about to record has been
  active, and what it is about to activate is fresh or recorded.

`ReleaseReviewProofs` goes on, for the same constants:

- `OverridesKeepHooks`: `Spec => []OverrideKeepsHooks`, by the same way of a
  snapshot as `OnlyVettedAdvancedFiles`: whatever nginx accepted keeps the hooks
  (`HookedInv`), because the check for them comes before the command.
- `RecordsCanBeRestored` (`RecordedSnapshotsAreSelfContained`). The invariant
  (`RestorableInv`) says that a handler carries, and a record keeps, no snapshot
  or one with a listeners file and the key pairs that file names, each path
  once. The pair comes from the certificates read after the applications: a
  certificate deleted in between ends the request.
- `QuietReleasesAreReviewed` (`QuietReleaseIsReviewed`). The invariant
  (`QuietInv`) says, phase by phase, that what a handler no edit has overtaken
  has read so far is what the store still holds, as long as it is going to read
  it again, and that what it has built agrees.
- `ReloadsSeeThePublication` (`ReloadSeesThePublication`) with the hypothesis
  `OneHandler`: while the handler writes, each file of its snapshot is on disk
  or still to be written (`DirectoryInv`). The property is an inclusion: files
  that earlier publications left are not excluded, and `release_rollback` shows
  that they are there. Two handlers write the same directory
  and do break it.

Assumptions of both: `ReleaseAssumption` (the constants have their kinds; initial
histories hold unique versions numbered by this program and records from before
snapshots were kept) and `DistinctValues` (texts, key pairs and `Absent` are
different values). TLC evaluates both in every run.

`BanFeedProofs` holds, for any number of targets, listeners, events, unbans and
any page size:

- `TypeCorrect` and `FeedHasTheBans` (`ClearedBansAreInTheFeed`) for both
  stores and any number of concurrent unbans. The invariant behind the second
  (`RowsInv`) says that a transaction about to commit has a row for each ban
  it updated.
- `Delivery`, `OneTargetPerRevision`, `RevisionsGrow` and `Implementation`
  under `SerialClears`: a memory store that is not restarted, or a database
  with one unban at a time. Delivery is not inductive: a row that becomes
  visible must be ahead of a cursor that has moved since its revision was
  taken. `FeedInv` says so: all that is recorded and read lies before the
  revision of the unban under way (`AllBefore`), and rows of one revision
  release one target. The run `bans_race` shows that the condition is needed.

The only assumption is `BanFeedAssumption`.

`ConfigStoreProofs` holds, for any number of rows, requests and failures:

- `TypeCorrect`, for both stores. The type invariant of the module is made
  inductive by `WrittenRows`: a policy that a request is writing has an id that
  was given away.
- `BindingsHaveEnds` (`BindingsExist`) and `SavesAreNotMixed`
  (`BindingsAreTheLastSave`) for the database, with any number of requests at a
  time. The invariant (`DbInv`) adds what the locks give: no two requests hold
  one policy (`Exclusive`), a locked policy has an id that was given away
  (`LockedRows`), the rules a save
  has bound are still there when it commits (`RulesHeld`), its sites are old
  sites (`SitesChecked`), and the bindings it deleted are still all that the
  policy has (`OldBindings`), because the cascade of a deleted rule waits for them.
- `DeadlocksNeedADeletedRule` (`DeadlocksAreOverDeletedRules`) for the database.
  Whoever a request waits for either waits for nobody, or waits for the deletion
  of a rule that is at its cascade, or is that deletion (`WhoWaits`); a circle
  therefore holds one, and that one waits for a save that has deleted a binding of
  the rule. The deleted binding is still the committed one (`OldBindings`).
- `ListenersKeepCertificates` (`CertificatesOfListenersExist`) under `OneByOne`:
  the memory store, or one request at a time. The invariant (`CertInv`) says that
  what a request has checked still holds when it writes. `store_race` shows
  that the condition is needed.
- `OverlapsAreTheOnlyLoss` (`OnlyOverlapsLoseCertificates`) without it. The
  invariant (`OverlapInv`) says that a save that has checked a certificate and a
  deletion that has counted its listeners can both be under way only if the
  certificate is in `raced`; otherwise what either has checked still holds.

The only assumption is `ConfigStoreAssumption`.

The theorems hold whichever store `backend` holds. `BindingsHaveEnds` and
`SavesAreNotMixed` have the condition `backend = "postgres"` inside the
property: in memory a deleted rule stays in the policies that bind it.

`ProtectionProofs` holds, for any rows an earlier version left, any requests
and any number of rules, rows and operations:

- `TypeCorrect` and `RowsAreCopiedOnce` (`LegacyRefsUnique`). A stored rule has
  every column, and one that refers to a row is of the module of the row's table
  (`RuleInv`); a copy is inserted only when no rule refers to its row, with a
  number no rule has.
- `SteadyRulesAreServed` (`ReleasesServeSteadyRulesOnce`). The invariant
  (`SteadyInv`) says that a rule in force since the generation began and not
  rewritten is in force now, and that a list read already has its row as it is
  now. Because `protection_rules` is read last, a rule that became a copy
  meanwhile is found in the last list, and one whose row was read before the
  copy was made is told by its reference.
- `HiddenLimitsAreKnown` (`HiddenLimitsAreReported`), from the part of the
  invariant that ties a reference to a module: looking for copies among the
  rules of the module is then the same as looking among all. What the Gateway
  falls back to and the console hides is an enabled rate limit whose copy is
  off, and that is a conflict of the health report.
- `HealthyStoresAgree` (`HealthyMeansEitherSideSuffices`): a report without
  issues gives each enabled row one rule that says the same, switch included,
  and each reference a row.
- `BackfillCompletes` (`BackfillIsComplete`). While no edit disturbs it, every
  row a backfill has read has a copy or is still to be copied (`JobKnows`), and
  at the end nothing is to be copied.
- `BackfillsProtectTheSame` (`BackfillChangesNoProtection`): the copy of a row
  is, but for where it says it came from, what a release makes of the row. This
  rests on lemmas about the conversions: `Normalize` changes nothing it has
  normalised (`NormalIsTidy`, `TidyIsNormal`), and what each older table gives is
  normal (`LegacyRule`).

Assumptions: `ProtectionAssumption` (the numbers are positive, the rows of an
installation have them, limits get numbers no row has yet, requests are of the
modules there are), `TidiedAssumption` (trimming and folding twice is trimming
and folding once) and `PathAssumption` (the empty path is not rooted, `/` is, and
is a glob). TLC has checked the inductive invariant `IInv` on the constants of
the run `protection`.

`RuleCommunityProofs` holds, for any catalogs, packages, configurations and
numbers of requests and rules, on either store:

- `TypeCorrect`. The invariant (`TypeInv`) has the form of the request of each
  kind, and that failures and attempts never outnumber the requests begun.
- `ListsChangeBySync` (`OnlySyncsChangeTheLists`), an action property.
- `SyncsUndoNoEdit` (`EditsSurviveSyncs`). The invariant (`EditsInv`) says that
  the row a request has read has the configuration the source still has, or
  somebody wrote the source since and the request is in `raced`.
- `AttemptsCountFailures` (`AttemptsAreFailures`), from the same statement about
  attempts (`RetriesInv`). That a failure leaves an attempt holds in memory only:
  on the database its record can be lost.
- `ImportsInstall` (`ImportsInstallTheirPackage`). While one request at a time
  writes rules, no two rules have the same origin, and each rule of the package
  is installed or among those the import is still to write (`AloneInv`); what
  ended stays installed until another request writes rules (`InstalledInv`).
- `SwitchesStay` (`LocalSwitchesStay`), an action property that needs that an
  import still knows the rules it previewed.

Assumptions: `CatalogAssumption` (a configuration is what an edit can save, the
limit of the retries is between 1 and 10, the word for no request is no request)
and `ContentAssumption` (a package's rules are numbered and on or off; a package
listed with its content has one of the contents; the mark of a free number is no
rule).

`AccessIndexProofs` and `ApplicationsProofs` hold, for any request bodies, stores
before, number of rows, edits and releases, any width of address and either
store:

- `LookupIsScan`: for any list in the order of the store, the index built from
  it answers each address as a scan of the list does. Two networks of one length
  that hold an address are the same masked network (`HoldsMasked`,
  `DivisionIsUnique`), so that the index, which keeps the first entry of a
  network, keeps the one that counts; the lengths are tried from the longest
  (`IndexedLengths`). `IndexDecidesLikeTheList` (`AccessIndexAgreesWithList`)
  carries it to every reachable state.
- `ApplicationsTyped` and `StoredStayValid` (`StoredApplicationsValidate`).
  Normalising is idempotent (`NormalApplication`, from a lemma about each of its
  parts), a request past its checks carries an application that would be stored
  (`RequestsInv`), and a certificate that is dropped in memory is in no enabled
  listener. On the database the property is about any certificates; that one in
  use can be lost there is the run `store_race`.
- `RoutesReachUpstreams` (`ReleasedRoutesReachUpstreams`). The invariant
  (`WholeReading`) says that a reading no edit was amid has, part by part, what
  is stored (`ReadUpTo`): the routes of an application are then those that were
  validated with its upstreams. It does not say that the list is what the
  checks have seen.
- `EveryHostOnce` (`QuietReleasesServeEveryHost`) and `LaterChecksPass`
  (`QuietApplicationsPassLaterChecks`). The invariant
  (`QuietRelease`) says that each list a quiet release has read is what is stored
  (`Current`), and that what its first check found is so still. A list with no
  error serves every host (`EveryHostServed`), has its certificates
  (`CertificatesThere`) and has no error with all ports mapped
  (`ReadyForAllPorts`); the last two keep the applications of a quiet release
  from being refused with `gateway.json` already written.
- `RollbackServesTheSame` (`RollbackRendersTheSame`), from a lemma about every
  list of applications (`RenderedAgain`).

The inductive invariant is `IInv`, the conjunction of these parts; TLC has checked
it on the constants of the run `applications`. Assumptions: `WidthAssumption`
(`Width` is a natural number), `TextAssumption` (the texts that the code compares with
or fills in are texts), `ApplicationsAssumption` (numbers are positive, bodies have
their types) and `StoresAssumption` (what is there at the start is what the API may
have stored: finitely many rows, normalised and valid). None of them bounds anything.

Only model-checked: `ClearsAreRead` (liveness under fairness is beyond the
prover). The disagreements of section 5 are shown by
runs.

## 5 Disagreements found

- `release_rollback`: restoring a snapshot removes nothing. After release 1 (no
  override), release 2 (full override) and a rollback to 1, `nginx.conf` of
  release 2 is still there and OpenResty reads it.
- `bans_race`: an unban takes its revision with `nextval` when its transaction
  begins and shows its row when it commits. If a later unban commits first and
  the Gateway reads it, `revision > since_revision` never yields the earlier
  row: the operator saw `cleared`, the Gateway keeps the ban until it expires.
  The documentation says every unban generates a revision for the Gateway to
  consume.
- `store_race`: saving an application checks the certificates of its listeners
  in statements before its transaction, and deleting a certificate counts the
  listeners in a statement before its DELETE. Neither takes a lock and
  `application_listeners.certificate_id` has no foreign key, so the two can
  pass each other: a listener is left with a certificate that does not exist.
- `store_bindable`: the check takes the ids of a policy from `applications`, the
  foreign key of `policy_sites` refers to `sites`. The database refuses a policy
  for an application with no old site of the same id.
- `protection_publishable`: the guide to bot protection and the API
  documentation offer `js-challenge` and `captcha`, and the API accepts both.
  A rule that is still in `bot_protection_rules` is updated there, and a release
  accepts only `js-challenge` from that table: the accepted edit makes every
  later release fail. The same rule in `protection_rules` is released.

What the models show of the code besides, where no document says otherwise but
for the two quoted:

- Releases. A draft saved between the review that was confirmed and the second
  read that builds the files is published without a confirmation, if it
  validates; `QuietReleaseIsReviewed` says what holds without such an edit. The
  validation of a draft reads it twice: with a save in between, the verdict is
  stored with the text of the save, or the save is undone. No release relies on
  that verdict (`AdvancedFilesWereVetted`). The nginx check and the reload have
  no time limit.
- Applications. Creating the first application takes all sites out of the next
  release. A site is accepted with a host (with a port) or a scheme that the
  application made of it is refused for, and so is an application whose
  listeners are all off: every release is refused until it is edited. http and
  https on one port of one host are no conflict. Only the first check of a
  release, and the preview, look at the ports a bridged deployment maps: an
  application saved between it and the `Validate` inside `GenerateExtended` is
  published on a port that nothing maps, where `doc/架构说明.md:60` has such a
  listener stopped. `QuietApplicationsPassLaterChecks` says that it takes such an
  edit. `ApplicationsFromConfigJSON` drops the
  routes, which no server block shows. A certificate that is missing when the
  artifacts are built leaves the new `gateway.json` in place, and so does nginx
  text that is refused only then.
- Protection rules. A module's PUT and DELETE act on the row of
  `protection_rules` with that id, whatever its module. Updating a migrated rule
  clears its `legacy_ref`, so its older row is in force again beside it;
  deleting it brings the older row back. A copy that is off hides a row that is
  switched on later from the console and from `protection_rules`; of a rate limit
  the Gateway still enforces it through `rate_limits` when no other CC rule is on
  (`HiddenLimitsAreReported`). `/rate-limits` accepts values the backfill refuses.
  A backfill beside an edit inserts the old content. Migrated attack rules are
  reported as orphans. Nothing in the program calls the backfill.
- Rule community. A failing or disabled catalog sync writes back the whole row
  it read, and in memory so does every sync; a late sync with an older list
  replaces a newer one. A failed sync that is no retry counts one attempt at
  most; exhaustion stays when the limit is raised; the time of the next retry is
  not enforced. The time limit of a provider's sync covers the transaction that
  stores its outcome: when it runs out there, or when the write of a failure is
  lost, whose error the code drops, the request is answered with an error and the
  provider keeps no trace of it, where `doc/社区规则包与规则市场说明.md:111` has every
  timeout recorded (`AttemptsAreFailures` counts such failures). Two imports at a time can create a rule twice. The stamp an
  update sets after it wrote a rule overwrites what came between; PUT on a rule
  drops its provider. Every refresh of an account queues its recommendation again.

## 6 Not modelled

See the notes of `components` in `PROJECT.json`; hazards without a property have
a note there too. In short:

- Observability: rows appended and aggregate queries over them. No protocol,
  and what a query computes is SQL.
- Authentication and authorisation: a stateless token and a table of roles.
  What could be said of them restates the table.
- Trust keys, feedback, suggestions and contributions of the rule community:
  rows that nothing else reads back; a push records "delivered" and no more.
- Signatures, the compatibility and the syntax of rules in a package, what the
  expression of a rule matches, the warnings about domains and expiry of
  certificates: they decide one answer each and change no state.
- Preview handlers read what a release reads and change nothing.
- GeoIP (a reader of a binary format), startup, HTTP plumbing, the go-zero
  scaffold and the deployment scripts.

## 7 Plan

The modules of the plan are written, but for one of tokens and roles (see 6), and
every safety and action property of the passing runs is proved. What
could come next, with what it needs:

1. Rows of policies in `gateway.json`: `Generate` without `Rules` and `Policy` of an
   application. The bindings are in `ConfigStore`; composing the two would say
   which policies a release can meet half written.
2. A deletion of an application beside the entries, policies and rules scoped to
   it, on both stores (the hazard at `postgres.go:235` has no property for this
   reason).
3. The warnings of the readiness rules, if the console comes to rely on them.
