----------------------------- MODULE Applications -----------------------------
(***************************************************************************)
(* Applications, the sites they replaced, certificates and the IP access   *)
(* list under their APIs, and what a release makes of them.  It reads the  *)
(* applications seven times: for a summary in its record, for the          *)
(* readiness check, for the review of the nginx files, twice to validate,  *)
(* for the Gateway configuration and for the nginx servers.  The first     *)
(* decides nothing and is left out; the second reading of the validation   *)
(* is for the policies, which are not modelled here, so that what they and *)
(* the other tables refuse is left to choice.  The database store reads an *)
(* application in five statements; edits go on in between.                 *)
(***************************************************************************)
EXTENDS ApplicationModel, AccessIndex

CONSTANTS
    Backends,                \* stores to check: "memory", "postgres"
    InitialStores,           \* stores to start from
    ApplicationBodies, SiteBodies, EntryBodies,      \* request bodies
    ApplicationIds, SiteIds, EntryIds, CertificateIds,
    ListenerMode, PortRange, \* GATEWAY_LISTENER_MODE, GATEWAY_BRIDGE_PORT_RANGE
    None,                    \* no row, no request
    MaxEdits, MaxReleases    \* bounds

ASSUME ApplicationsAssumption ==
    /\ Backends \subseteq {"memory", "postgres"}
    /\ \A ids \in {ApplicationIds, SiteIds, EntryIds, CertificateIds} : ids \subseteq Nat \ {0}
    /\ ApplicationBodies \subseteq Application /\ SiteBodies \subseteq SiteRow
    /\ EntryBodies \subseteq RawEntry
    /\ MaxEdits \in Nat /\ MaxReleases \in Nat

IdsIn(table) == {id \in DOMAIN table : table[id] # None}
Table(ids, Row) == {table \in [ids -> Row \cup {None}] : IsFiniteSet(IdsIn(table))}
\* What the API may have stored before.
ASSUME StoresAssumption ==
    \A s \in InitialStores :
        /\ s.applications \in Table(ApplicationIds, Application)
        /\ s.sites \in Table(SiteIds, SiteRow) /\ s.entries \in Table(EntryIds, IPAccessListEntry)
        /\ s.certificates \subseteq CertificateIds
        /\ \A id \in IdsIn(s.applications) :
              /\ NormalizeApplication(s.applications[id]) = s.applications[id]
              /\ ValidateApplication(s.applications[id], s.certificates)

Steps == {"readiness", "review", "validate", "generate", "artifacts"}
ReleaseRow ==
    [step : Steps, quiet : BOOLEAN, list : Seq(NumberedApplication), read : Int, whole : BOOLEAN]

VARIABLES
    backend,
    applications, sites, entries,   \* number |-> row
    certificates,                   \* numbers
    next,                           \* the next number of each
    saving, deleting,               \* requests past their checks, on postgres
    release,                        \* a release under way
    gateway, nginx,                 \* what is written: gateway.json, applications.conf
    spent                           \* edits and releases so far

store == <<applications, sites, entries, certificates, next>>
vars == <<backend, store, saving, deleting, release, gateway, nginx, spent>>

Spend(what, bound) == spent[what] < bound /\ spent' = [spent EXCEPT ![what] = @ + 1]
-----------------------------------------------------------------------------
(***************************************************************************)
(* Lists, in the order the store gives them                                *)
(***************************************************************************)
ApplicationWithId(app, id) ==
    [id |-> id, mode |-> app.mode, enabled |-> app.enabled, hosts |-> app.hosts,
     listeners |-> app.listeners, upstreams |-> app.upstreams, routes |-> app.routes,
     proxy |-> app.proxy]
ListApplications ==
    Each(LAMBDA id : ApplicationWithId(applications[id], id), Ascending(IdsIn(applications)))
ListSites == Each(LAMBDA id : ApplicationOfSite(sites[id], id), Ascending(IdsIn(sites)))
EntryWithId(e, id) ==
    [id |-> id, kind |-> e.kind, target |-> e.target, site |-> e.site, enabled |-> e.enabled,
     priority |-> e.priority, length |-> e.length, network |-> e.network]
\* Slip: by number, like the other lists.
ListEntries_ById == Each(LAMBDA id : EntryWithId(entries[id], id), Ascending(IdsIn(entries)))
ListEntries ==
    Each(LAMBDA id : EntryWithId(entries[id], id),
         InOrder(IdsIn(entries), LAMBDA i, j :
            \/ entries[i].priority < entries[j].priority
            \/ entries[i].priority = entries[j].priority /\ i < j))

\* The applications that enabled entries are scoped to.
Scopes == {entries[id].site : id \in {i \in IdsIn(entries) : entries[i].enabled}}
-----------------------------------------------------------------------------
(***************************************************************************)
(* Applications and certificates                                           *)
(***************************************************************************)
\* Steps of a reading of the applications.
Rows == -2
Fallback == -1
Parts == <<"hosts", "listeners", "upstreams", "routes">>
Read(r) == r.read = Len(Parts) * Len(r.list)

\* A release under way notices an edit, and one amid a reading of applications.
Disturb ==
    release' = IF release = None THEN None
               ELSE [release EXCEPT !.quiet = FALSE, !.whole = @ /\ (release.read < 0 \/ Read(release))]
UnchangedByEdits == UNCHANGED <<backend, gateway, nginx>>

Put(id, app) ==
    /\ applications' = [applications EXCEPT ![id] = app]
    /\ next' = [next EXCEPT !.application = IF id = @ THEN @ + 1 ELSE @]
    /\ Disturb /\ UNCHANGED <<sites, entries, certificates>> /\ UnchangedByEdits

\* In memory the store checks once more under its lock; on postgres the
\* checks precede the transaction.
SaveApplication(id) ==
    /\ id \in IdsIn(applications) \cup ({next.application} \cap ApplicationIds)
    /\ Spend("edits", MaxEdits)
    /\ \E body \in ApplicationBodies :
          LET app == NormalizeApplication(body) IN
          /\ ValidateApplication(app, certificates)
          /\ IF backend = "memory" THEN Put(id, app) /\ UNCHANGED <<saving, deleting>>
             ELSE /\ saving = None /\ saving' = [id |-> id, app |-> app]
                  /\ UNCHANGED <<store, deleting, release>> /\ UnchangedByEdits

\* The transaction; an update of a row that is gone is given up.
CommitApplication ==
    /\ saving # None /\ saving' = None
    /\ IF saving.id \in IdsIn(applications) \cup {next.application} THEN Put(saving.id, saving.app)
       ELSE UNCHANGED <<store, release>> /\ UnchangedByEdits
    /\ UNCHANGED <<deleting, spent>>

DeleteApplication(id) ==
    /\ id \in IdsIn(applications) /\ Spend("edits", MaxEdits)
    /\ applications' = [applications EXCEPT ![id] = None]
    /\ Disturb /\ UNCHANGED <<sites, entries, certificates, next, saving, deleting>> /\ UnchangedByEdits

CreateCertificate ==
    /\ next.certificate \in CertificateIds /\ Spend("edits", MaxEdits)
    /\ certificates' = certificates \cup {next.certificate}
    /\ next' = [next EXCEPT !.certificate = @ + 1]
    /\ Disturb /\ UNCHANGED <<applications, sites, entries, saving, deleting>> /\ UnchangedByEdits

\* Slip: only the applications that are on.
CertificateInUse_On(c) ==
    \E id \in IdsIn(applications) : /\ applications[id].enabled
        /\ \E l \in Enabled(applications[id].listeners) : l.certificate = c
\* Listeners of applications that are off count too.
CertificateInUse(c) ==
    \E id \in IdsIn(applications) : \E l \in Enabled(applications[id].listeners) : l.certificate = c

Drop(c) ==
    /\ certificates' = certificates \ {c}
    /\ Disturb /\ UNCHANGED <<applications, sites, entries, next>> /\ UnchangedByEdits

DeleteCertificate(c) ==
    /\ c \in certificates /\ ~CertificateInUse(c) /\ Spend("edits", MaxEdits)
    /\ IF backend = "memory" THEN Drop(c) /\ UNCHANGED <<saving, deleting>>
       ELSE /\ deleting = None /\ deleting' = c
            /\ UNCHANGED <<store, saving, release>> /\ UnchangedByEdits

CommitCertificateDeletion ==
    /\ deleting # None /\ deleting' = None
    /\ Drop(deleting) /\ UNCHANGED <<saving, spent>>

(***************************************************************************)
(* Sites and the IP access list                                            *)
(***************************************************************************)
EditSites(id, row) ==
    /\ sites' = [sites EXCEPT ![id] = row]
    /\ next' = [next EXCEPT !.site = IF id = @ THEN @ + 1 ELSE @]
    /\ Spend("edits", MaxEdits) /\ Disturb
    /\ UNCHANGED <<applications, entries, certificates, saving, deleting>> /\ UnchangedByEdits

SaveSite(id) ==
    /\ id \in IdsIn(sites) \cup ({next.site} \cap SiteIds)
    /\ \E body \in SiteBodies :
          LET site == NormalizeSite(body) IN ValidateSite(site) /\ EditSites(id, site)
DeleteSite(id) == id \in IdsIn(sites) /\ EditSites(id, None)

EditEntries(id, row) ==
    /\ entries' = [entries EXCEPT ![id] = row]
    /\ next' = [next EXCEPT !.entry = IF id = @ THEN @ + 1 ELSE @]
    /\ Spend("edits", MaxEdits) /\ Disturb
    /\ UNCHANGED <<applications, sites, certificates, saving, deleting>> /\ UnchangedByEdits

SaveEntry(id) ==
    /\ id \in IdsIn(entries) \cup ({next.entry} \cap EntryIds)
    /\ \E body \in EntryBodies : AcceptsEntry(body) /\ EditEntries(id, NormalizeEntry(body))
DeleteEntry(id) == id \in IdsIn(entries) /\ EditEntries(id, None)
-----------------------------------------------------------------------------
(***************************************************************************)
(* A release                                                               *)
(***************************************************************************)
\* A step of a release starts by reading the applications anew.
StepTo(step, quiet) == [step |-> step, quiet |-> quiet, list |-> <<>>, read |-> Rows, whole |-> TRUE]
ReleaseStep(next_release) == release' = next_release /\ UNCHANGED <<backend, store, saving, deleting>>
StartRelease ==
    /\ release = None /\ Spend("releases", MaxReleases)
    /\ ReleaseStep(StepTo("readiness", TRUE))
    /\ UNCHANGED <<gateway, nginx>>

Childless(app) == [app EXCEPT !.hosts = <<>>, !.listeners = <<>>, !.upstreams = <<>>, !.routes = <<>>]

\* ListApplications: all at once in memory, else the rows first.
ReadRows ==
    /\ release.read = Rows
    /\ ReleaseStep(
         IF IdsIn(applications) = {} THEN [release EXCEPT !.read = Fallback]
         ELSE IF backend = "memory"
              THEN [release EXCEPT !.list = ListApplications,
                                   !.read = Len(Parts) * Len(ListApplications)]
              ELSE [release EXCEPT !.list = Each(Childless, ListApplications), !.read = 0])

ReadSites ==
    /\ release.read = Fallback
    /\ ReleaseStep([release EXCEPT !.list = ListSites, !.read = Len(Parts) * Len(ListSites)])

\* loadApplicationChildren: a statement for each table of parts.
ReadPart ==
    /\ release.read >= 0 /\ ~Read(release)
    /\ LET i == (release.read \div Len(Parts)) + 1
           part == Parts[(release.read % Len(Parts)) + 1]
           id == release.list[i].id
       IN ReleaseStep([release EXCEPT !.read = @ + 1,
            !.list[i][part] = IF id \in IdsIn(applications) THEN applications[id][part] ELSE <<>>])

\* A statement of a reading fails.
ReadFails == backend = "postgres" /\ ~(release.read >= 0 /\ Read(release)) /\ ReleaseStep(None)

ReadStep ==
    /\ release # None
    /\ ReadRows \/ ReadSites \/ ReadPart \/ ReadFails
    /\ UNCHANGED <<gateway, nginx, spent>>

Reads(step) == release # None /\ release.step = step /\ release.read >= 0 /\ Read(release)
Proceed(step) == StepTo(step, release.quiet)

\* What else may end a release at a step, and leaves all files as they are.
Fails(step) == Reads(step) /\ ReleaseStep(None) /\ UNCHANGED <<gateway, nginx, spent>>

\* ValidateApplicationReadiness, with the ports of the deployment at first.
Check(step, ports, following) ==
    /\ Reads(step)
    /\ ReleaseStep(IF ReadinessErrors(release.list, certificates, Scopes, ports) = {}
                   THEN Proceed(following) ELSE None)
    /\ UNCHANGED <<gateway, nginx, spent>>

Readiness ==
    \/ Check("readiness", MappedPorts(ListenerMode, PortRange), "review")
    \/ backend = "postgres" /\ Fails("readiness")

\* BuildAdvancedNginxReview refuses a certificate that is gone; advanced text
\* may be unconfirmed or refused by nginx.
Review ==
    \/ /\ Reads("review") /\ UsedCertificates(release.list) \subseteq certificates
       /\ ReleaseStep(Proceed("validate")) /\ UNCHANGED <<gateway, nginx, spent>>
    \/ Fails("review")

\* Then the policies and what they name, the rules, the access list, the rate
\* limits and the protection rules are checked, and may be refused.
Validate == Check("validate", AllPorts, "generate") \/ Fails("validate")

\* The rest of GenerateExtended; gateway.json is written, or cannot be.
Generate ==
    \/ /\ Reads("generate")
       /\ gateway' = [applications |-> GatewayApplications(release.list),
                      index |-> BuildIPAccessIndex(ListEntries),
                      listed |-> Range(ListEntries), whole |-> release.whole]
       /\ ReleaseStep(Proceed("artifacts")) /\ UNCHANGED <<nginx, spent>>
    \/ Fails("generate")

\* A certificate that is gone, advanced text that nginx refuses now, or a disk
\* that is full ends the release with the servers of before beside gateway.json.
WriteArtifacts ==
    \/ /\ Reads("artifacts") /\ UsedCertificates(release.list) \subseteq certificates
       /\ nginx' = [servers |-> ListenerConfig(release.list), config |-> gateway.applications,
                    quiet |-> release.quiet]
       /\ ReleaseStep(None) /\ UNCHANGED <<gateway, spent>>
    \/ Fails("artifacts")
-----------------------------------------------------------------------------
Init ==
    /\ backend \in Backends
    /\ \E s \in InitialStores :
          /\ applications = s.applications /\ sites = s.sites /\ entries = s.entries
          /\ certificates = s.certificates /\ next = s.next
          /\ spent = [edits |-> s.edits, releases |-> 0]
    /\ saving = None /\ deleting = None /\ release = None
    /\ gateway = [applications |-> <<>>, index |-> BuildIPAccessIndex(<<>>), listed |-> {},
                  whole |-> TRUE]
    /\ nginx = [servers |-> <<>>, config |-> <<>>, quiet |-> FALSE]

Next ==
    \/ \E id \in ApplicationIds : SaveApplication(id) \/ DeleteApplication(id)
    \/ CommitApplication \/ CommitCertificateDeletion \/ CreateCertificate
    \/ \E c \in CertificateIds : DeleteCertificate(c)
    \/ \E id \in SiteIds : SaveSite(id) \/ DeleteSite(id)
    \/ \E id \in EntryIds : SaveEntry(id) \/ DeleteEntry(id)
    \/ StartRelease \/ ReadStep \/ Readiness \/ Review \/ Validate \/ Generate \/ WriteArtifacts

Spec == Init /\ [][Next]_vars
-----------------------------------------------------------------------------
(***************************************************************************)
(* What is stored would be accepted again as it is: normalising it changes *)
(* nothing and ValidateApplication accepts it, whatever was edited since.  *)
(* On postgres a certificate may be deleted beside a save that names it,   *)
(* so that certificates are left out there.                                *)
(***************************************************************************)
StoredApplicationsValidate ==
    \A id \in IdsIn(applications) :
        /\ NormalizeApplication(applications[id]) = applications[id]
        /\ ValidateApplication(applications[id],
              IF backend = "memory" THEN certificates ELSE CertificateIds)

(***************************************************************************)
(* Each enabled route of gateway.json names an enabled upstream of its     *)
(* application and the routes are in strict order of priority, also when   *)
(* the applications changed between the checks and the generation; only    *)
(* a save in the middle of the reading itself can tear them apart.         *)
(***************************************************************************)
ReleasedRoutesReachUpstreams ==
    gateway.whole =>
        \A app \in Range(gateway.applications) :
            /\ \A r \in Enabled(app.routes) : \E u \in Enabled(app.upstreams) : u.name = r.upstream
            /\ \A i, j \in DOMAIN app.routes : i < j => app.routes[i].priority < app.routes[j].priority

(***************************************************************************)
(* A release that no edit overlapped gives each host of each application   *)
(* in gateway.json at least one nginx server, and none twice on a port of  *)
(* a protocol, the applications made from sites included.                  *)
(***************************************************************************)
QuietReleasesServeEveryHost ==
    LET all == Servers(nginx.servers) IN
    nginx.quiet =>
        /\ \A app \in Range(nginx.config) : \A h \in Range(app.hosts) :
              \E s \in all : h \in Range(s.names)
        /\ \A a, b \in DOMAIN nginx.servers :
           \A i \in DOMAIN nginx.servers[a], j \in DOMAIN nginx.servers[b] :
              LET s == nginx.servers[a][i] t == nginx.servers[b][j] IN
              <<a, i>> # <<b, j>> /\ s.port = t.port /\ s.ssl = t.ssl
                 => Range(s.names) \cap Range(t.names) = {}

(***************************************************************************)
(* Rolling back to a record without artifacts renders the servers from its *)
(* configuration (ApplicationsFromConfigJSON): they are the servers that   *)
(* the release rendered from the applications.                             *)
(***************************************************************************)
RollbackRendersTheSame ==
    nginx.quiet => ListenerConfig(ApplicationsFromConfig(nginx.config)) = nginx.servers

(***************************************************************************)
(* Whatever the entries overlap, the index in gateway.json answers for     *)
(* each address, kind and scope what the list says: an exact entry, else   *)
(* the longest prefix, and of equals the first by priority and number.     *)
(***************************************************************************)
AccessIndexAgreesWithList ==
    \A kind \in {"allow", "block"}, address \in Addresses,
       scope \in {0} \cup {e.site : e \in gateway.listed} :
        Lookup(gateway.index, kind, scope, address) = Scan(gateway.listed, kind, scope, address)

(***************************************************************************)
(* The applications of a release that no edit overlaps are refused at the  *)
(* first check or not at all: whatever they overlap, what each later step  *)
(* reads of them passes every check of theirs, that of the ports which the *)
(* deployment maps and which only the first check makes included, and the  *)
(* servers rendered from it need no certificate that it did not look at.   *)
(* A later step may still refuse other tables, or fail.                    *)
(***************************************************************************)
QuietApplicationsPassLaterChecks ==
    release # None /\ release.quiet /\ release.step # "readiness"
        /\ release.read >= 0 /\ Read(release) =>
            /\ \A ports \in {AllPorts, MappedPorts(ListenerMode, PortRange)} :
                  ReadinessErrors(release.list, certificates, Scopes, ports) = {}
            /\ UsedCertificates(release.list) \subseteq certificates
=============================================================================
