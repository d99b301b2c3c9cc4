------------------------------ MODULE Release ------------------------------
(***************************************************************************)
(* The release pipeline of the control plane: POST /releases, rollback of  *)
(* a recorded release, saving and validating the nginx draft, and the      *)
(* edits of applications and certificates that run beside them.            *)
(*                                                                         *)
(* A request is served by a goroutine that reads the store several times,  *)
(* one statement or one lock at a time, and writes the runtime directory   *)
(* file by file; no lock spans two of these steps.  Each action is one     *)
(* such step, so the requests interleave exactly where the code lets them. *)
(*                                                                         *)
(* An operator Name_What is Name with a slip; Next does not use it.  It    *)
(* shows that the properties notice the slip.                              *)
(***************************************************************************)
EXTENDS Naturals, Sequences, FiniteSets

CONSTANTS
  Handlers,             \* goroutines that serve requests
  Backends,             \* the stores STORE_BACKEND may select
  AppConfigs,           \* what ListApplications may return, one value each
  NoApps,               \* ... the value of an empty store
  Uses,                 \* certificates of its enabled https listeners
  Conflicting,          \* values with a blocking issue of their own
  Certs, Pems,          \* certificate ids, key pairs uploaded under them
  Contents,             \* texts of snippets and of full nginx.conf overrides
  Hooked,               \* texts that keep every LiteWaf invariant
  Drafts,               \* the drafts operators save
  ValidationCommand,    \* is LITEWAF_NGINX_VALIDATE_COMMAND set
  ReloadCommand,        \* is a gateway reload command set
  InitialHistories,     \* publish records found at startup
  MaxRequests, MaxEdits, MaxFaults,
  Absent                \* no file, no row, no text

Points == {"http", "server", "location"}
Text == Contents \cup {Absent}
Draft == [mode : {"snippets", "full"}, snippets : [Points -> Text], full : Text]
NoSnippets == [pt \in Points |-> Absent]
EmptyDraft == [mode |-> "snippets", snippets |-> NoSnippets, full |-> Absent]

Statuses == {"unchecked", "passed", "failed", "unavailable"}
ReloadStatuses == {"not-configured", "reloaded", "failed"}

(***************************************************************************)
(* Files of the runtime directory next to gateway.json.  A snapshot is the *)
(* list of files one publication writes, in the order it writes them.      *)
(* body-size.conf has the same content in every snapshot of a process and  *)
(* is left out.                                                            *)
(***************************************************************************)
Listeners == <<"conf", "listeners">>
NginxConf == <<"conf", "nginx">>
Snippet(pt) == <<"snippet", pt>>
Crt(c) == <<"crt", c>>
Key(c) == <<"key", c>>
NginxPaths == {Listeners, NginxConf} \cup {Snippet(pt) : pt \in Points}
Paths == NginxPaths \cup {Crt(c) : c \in Certs} \cup {Key(c) : c \in Certs}

ListenerText == [apps : AppConfigs, snippets : [Points -> Text]]
FileContent == ListenerText \cup Contents \cup Pems
File == [path : Paths, content : FileContent]
Snapshots == Seq(File)
FilesOf(snap) == {snap[i] : i \in DOMAIN snap}

\* "ruleset-%04d" is <<n>>; each "-rollback-<unix seconds>" appends a time.
Versions == Seq(Nat)
Config == [version : Versions, apps : AppConfigs]
Record == [version : Versions, config : Config, artifacts : Snapshots,
           reload : ReloadStatuses]

ASSUME ReleaseAssumption ==
  /\ Backends \subseteq {"memory", "postgres"}
  /\ NoApps \in AppConfigs
  /\ Uses \in [AppConfigs -> SUBSET Certs]
  /\ Uses[NoApps] = {}
  /\ Conflicting \subseteq AppConfigs
  /\ IsFiniteSet(Certs)
  /\ Hooked \subseteq Contents
  /\ Drafts \subseteq Draft
  /\ ValidationCommand \in BOOLEAN
  /\ ReloadCommand \in BOOLEAN
  /\ InitialHistories \subseteq Seq(Record)
  /\ \A h \in InitialHistories : \A i \in DOMAIN h :
       /\ h[i].version # <<>> /\ h[i].version[1] <= i   \* numbered by this program
       /\ h[i].artifacts = <<>>            \* from before snapshots were kept
       /\ \A j \in DOMAIN h : h[i].version = h[j].version => i = j
  /\ MaxRequests \in Nat /\ MaxEdits \in Nat /\ MaxFaults \in Nat

\* The texts and key pairs are values apart from each other and from Absent.
ASSUME DistinctValues ==
  /\ Absent \notin Contents \cup Pems \cup Certs \cup Config
  /\ Contents \cap Pems = {}
  /\ ListenerText \cap (Contents \cup Pems \cup {Absent}) = {}

VARIABLES
  backend,                                    \* behind the Store interface, for good
  apps, certs, draft, draftStatus, records,   \* the store
  gatewayJson, files, loaded,                 \* the runtime directory, Gateway
  pc, loc,                                    \* the handlers
  now,                                        \* wall clock, in seconds
  left,                                       \* requests, edits, faults to come
  vetted, everLive, disturbed                 \* history: see below

store == <<apps, certs, draft, draftStatus>>
directory == <<gatewayJson, files>>
vars == <<backend, store, records, directory, loaded, pc, loc, now, left, vetted,
          everLive, disturbed>>

(***************************************************************************)
(* History variables, for the properties only: the snapshots nginx         *)
(* accepted, the configurations gateway.json has held, and the requests    *)
(* whose reads were overtaken by a change of the store.                    *)
(***************************************************************************)
Blank == [op |-> "none", confirm |-> FALSE, version |-> <<>>, apps |-> NoApps,
          draft |-> EmptyDraft, verdict |-> "unchecked",
          config |-> [version |-> <<>>, apps |-> NoApps], snap |-> <<>>,
          todo |-> <<>>, reload |-> "not-configured"]

ReadPhases == {"readiness", "readinessCerts", "review", "reviewDraft",
               "reviewCerts", "validate", "validateCerts", "generate",
               "writeConfig", "artifacts", "artifactsDraft", "artifactsCerts",
               "reread", "saveDraft"}
Phases == ReadPhases \cup {"idle", "rollbackConfig", "restore", "writeFiles", "reload", "record"}

Reading == {p \in Handlers : pc[p] \in ReadPhases}

Spend(what) == /\ left[what] > 0
               /\ left' = [left EXCEPT ![what] = @ - 1]

\* Handler p goes on to phase ph with the local state l.
Goto(p, ph, l) == /\ pc' = [pc EXCEPT ![p] = ph]
                  /\ loc' = [loc EXCEPT ![p] = l]

\* The handler answers its client and returns.
Finish(p) == /\ Goto(p, "idle", Blank)
             /\ disturbed' = disturbed \ {p}

(***************************************************************************)
(* What the handlers compute.                                              *)
(***************************************************************************)
HasAdvancedChanges(d) ==
  \/ d.mode = "full" /\ d.full # Absent
  \/ \E pt \in Points : d.snippets[pt] # Absent

FullOverride(d) == d.mode = "full" /\ d.full # Absent

SnippetsByPoint(d) == IF d.mode = "snippets" THEN d.snippets ELSE NoSnippets

MissingCertificate(a, cs) == \E c \in Uses[a] : cs[c] = Absent

Ready(a, cs) == a \notin Conflicting /\ ~MissingCertificate(a, cs)

\* Advanced changes go on only with the operator's confirmation and a passed
\* validation; just before the files are written only the validation counts.
ReviewBlocks_Unconfirmed(l, verdict) ==
  HasAdvancedChanges(l.draft) /\ verdict # "passed"

ReviewBlocks(l, verdict) ==
  HasAdvancedChanges(l.draft) /\ (~l.confirm \/ verdict # "passed")

ArtifactsBlock_Reviewed(l, verdict) == FALSE

ArtifactsBlock(l, verdict) == HasAdvancedChanges(l.draft) /\ verdict # "passed"

\* What validating the staged configuration may answer: an override without
\* the LiteWaf hooks fails before the command runs.
Verdicts_Unhooked(d) ==
  IF ~HasAdvancedChanges(d) THEN {"unchecked"} ELSE {"passed", "failed"}

Verdicts(d) ==
  IF ~HasAdvancedChanges(d) THEN {"unchecked"}
  ELSE IF FullOverride(d) /\ d.full \notin Hooked THEN {"failed"}
  ELSE IF ~ValidationCommand THEN {"unavailable"}
  ELSE {"passed", "failed", "unavailable"}

\* The certificate files follow the iteration order of a Go map.
CertificateOrders(S) ==
  {o \in [1..Cardinality(S) -> S] : \A c \in S : \E i \in DOMAIN o : o[i] = c}

CertificateFiles_OnePath(o, cs) ==
  [i \in 1..(2 * Len(o)) |->
     LET c == o[(i + 1) \div 2] IN [path |-> Crt(c), content |-> cs[c]]]

CertificateFiles(o, cs) ==
  [i \in 1..(2 * Len(o)) |->
     LET c == o[(i + 1) \div 2]
     IN  [path |-> IF i % 2 = 1 THEN Crt(c) ELSE Key(c), content |-> cs[c]]]

SnippetFile(d, pt) ==
  IF SnippetsByPoint(d)[pt] = Absent THEN <<>>
  ELSE <<[path |-> Snippet(pt), content |-> SnippetsByPoint(d)[pt]]>>

NginxFile(d) ==
  IF FullOverride(d) THEN <<[path |-> NginxConf, content |-> d.full]>> ELSE <<>>

ListenerFile(a, d) ==
  [path |-> Listeners, content |-> [apps |-> a, snippets |-> SnippetsByPoint(d)]]

BuildSnapshots(a, cs, d) ==
  {<<ListenerFile(a, d)>> \o SnippetFile(d, "http") \o SnippetFile(d, "server")
     \o SnippetFile(d, "location") \o CertificateFiles(o, cs) \o NginxFile(d) :
     o \in CertificateOrders(Uses[a])}

NextPublishVersion_Stuck == <<IF records = <<>> THEN 1 ELSE Len(records)>>

NextPublishVersion == <<Len(records) + 1>>

(***************************************************************************)
(* Initial states: an empty memory store, or a database with a history, in *)
(* front of a runtime directory that has not been written yet.             *)
(***************************************************************************)
Init ==
  /\ backend \in Backends
  /\ apps = NoApps
  /\ certs = [c \in Certs |-> Absent]
  /\ draft = EmptyDraft
  /\ draftStatus = "unchecked"
  /\ records \in IF backend = "memory" THEN {<<>>} ELSE InitialHistories
  /\ gatewayJson = Absent
  /\ files = [f \in Paths |-> Absent]
  /\ loaded = Absent
  /\ pc = [p \in Handlers |-> "idle"]
  /\ loc = [p \in Handlers |-> Blank]
  /\ now = 0
  /\ left = [requests |-> MaxRequests, edits |-> MaxEdits, faults |-> MaxFaults]
  /\ vetted = {}
  /\ everLive = {records[i].config : i \in DOMAIN records}
  /\ disturbed = {}

(***************************************************************************)
(* Edits of the store by other requests, each one atomic step.             *)
(***************************************************************************)
Edit == /\ Spend("edits")
        /\ disturbed' = disturbed \cup Reading
        /\ UNCHANGED <<backend, records, directory, loaded, pc, loc, now, vetted, everLive>>

\* Creating, updating or deleting applications; the certificates that enabled
\* listeners name must exist.
SaveApplications(a) ==
  /\ ~MissingCertificate(a, certs)
  /\ apps' = a
  /\ UNCHANGED <<certs, draft, draftStatus>>
  /\ Edit

SaveCertificate(c, pem) ==
  /\ certs' = [certs EXCEPT ![c] = pem]
  /\ UNCHANGED <<apps, draft, draftStatus>>
  /\ Edit

DeleteCertificate(c) ==
  /\ certs[c] # Absent
  /\ c \notin Uses[apps]
  /\ certs' = [certs EXCEPT ![c] = Absent]
  /\ UNCHANGED <<apps, draft, draftStatus>>
  /\ Edit

\* PUT /nginx-config keeps the validation status the client sends.
ClientStatuses == {"unchecked", "passed"}
UpdateNginxConfigDraft_NoStatus(d, status) ==
  /\ draft' = d
  /\ draftStatus' = ""
  /\ UNCHANGED <<apps, certs>>
  /\ Edit

UpdateNginxConfigDraft(d, status) ==
  /\ draft' = d
  /\ draftStatus' = status
  /\ UNCHANGED <<apps, certs>>
  /\ Edit

(***************************************************************************)
(* Requests.  A release takes its version from a count of the records.     *)
(***************************************************************************)
StartRequest(p, ph, l) ==
  /\ pc[p] = "idle"
  /\ Spend("requests")
  /\ Goto(p, ph, l)
  /\ UNCHANGED <<backend, store, records, directory, loaded, now, vetted, everLive,
                 disturbed>>

StartRelease(p) ==
  \E confirm \in BOOLEAN :
    StartRequest(p, "readiness", [Blank EXCEPT !.op = "release",
                                               !.confirm = confirm,
                                               !.version = NextPublishVersion])

StartValidation(p) ==
  StartRequest(p, "review", [Blank EXCEPT !.op = "validate"])

\* GetPublishRecordByVersion: with duplicate versions, any of them.
StartRollback(p) ==
  \E i \in DOMAIN records :
    StartRequest(p, "rollbackConfig", [Blank EXCEPT !.op = "rollback",
                                         !.version = records[i].version,
                                         !.config = records[i].config,
                                         !.snap = records[i].artifacts])

\* A step of handler p that changes nothing but its own local state.
Local(p, from, to, l) ==
  /\ pc[p] = from
  /\ Goto(p, to, l)
  /\ UNCHANGED <<backend, store, records, directory, loaded, now, left, vetted, everLive,
                 disturbed>>

\* The request is refused: an error response, nothing else.
Refuse(p, from) ==
  /\ pc[p] = from
  /\ Finish(p)
  /\ UNCHANGED <<backend, store, records, directory, loaded, now, left, vetted, everLive>>

ReadApplications(p, from, to) == Local(p, from, to, [loc[p] EXCEPT !.apps = apps])
ReadDraft(p, from, to) == Local(p, from, to, [loc[p] EXCEPT !.draft = draft])

\* ValidateApplicationReadiness: the applications, then the certificates.
CheckReadiness(p, from, to) ==
  IF Ready(loc[p].apps, certs) THEN Local(p, from, to, loc[p]) ELSE Refuse(p, from)

ReadinessApplications(p) == ReadApplications(p, "readiness", "readinessCerts")
ReadinessVerdict(p) == CheckReadiness(p, "readinessCerts", "review")

\* nginx accepted the staged snapshot.
Vet(verdict, snap) ==
  vetted' = IF verdict = "passed" THEN vetted \cup {snap} ELSE vetted

ReviewApplications(p) == ReadApplications(p, "review", "reviewDraft")
ReviewDraft(p) == ReadDraft(p, "reviewDraft", "reviewCerts")

\* The end of BuildAdvancedNginxReview, and what the two handlers do with it.
ReviewVerdict(p) ==
  LET l == loc[p] IN
  IF MissingCertificate(l.apps, certs) THEN Refuse(p, "reviewCerts")
  ELSE
    /\ pc[p] = "reviewCerts"
    /\ UNCHANGED <<backend, store, records, directory, loaded, now, left, everLive>>
    /\ \E verdict \in Verdicts(l.draft),
          snap \in BuildSnapshots(l.apps, certs, l.draft) :
         /\ Vet(verdict, snap)
         /\ \/ /\ l.op = "release"
               /\ ~ReviewBlocks(l, verdict)
               /\ Goto(p, "validate", l)
               /\ UNCHANGED disturbed
            \/ /\ l.op = "release"
               /\ ReviewBlocks(l, verdict)
               /\ Finish(p)
            \/ /\ l.op = "validate"
               /\ Goto(p, "reread", [l EXCEPT !.verdict = verdict])
               /\ UNCHANGED disturbed

\* POST /nginx-config/validate reads the draft again and saves what it read
\* with the verdict of the review.
RereadDraft(p) == ReadDraft(p, "reread", "saveDraft")

SaveValidatedDraft(p) ==
  /\ pc[p] = "saveDraft"
  /\ draft' = loc[p].draft
  /\ draftStatus' = loc[p].verdict
  /\ Goto(p, "idle", Blank)
  /\ disturbed' = (disturbed \cup Reading) \ {p}
  /\ UNCHANGED <<backend, apps, certs, records, directory, loaded, now, left, vetted,
                 everLive>>

(***************************************************************************)
(* GenerateExtended validates, reads every list once more and renders      *)
(* gateway.json; WriteAtomic renames it into place.                        *)
(***************************************************************************)
ValidateApplications(p) == ReadApplications(p, "validate", "validateCerts")
ValidateVerdict(p) == CheckReadiness(p, "validateCerts", "generate")

Generate(p) ==
  Local(p, "generate", "writeConfig",
        [loc[p] EXCEPT !.config = [version |-> loc[p].version, apps |-> apps]])

WriteConfig(p, from, to) ==
  /\ pc[p] = from
  /\ gatewayJson' = loc[p].config
  /\ everLive' = everLive \cup {loc[p].config}
  /\ Goto(p, to, loc[p])
  /\ UNCHANGED <<backend, store, records, files, loaded, now, left, vetted, disturbed>>

WriteGeneratedConfig(p) == WriteConfig(p, "writeConfig", "artifacts")
WriteRecordedConfig(p) == WriteConfig(p, "rollbackConfig", "restore")

(***************************************************************************)
(* WriteRuntimeArtifactsWithAdvancedNginx reads applications, draft and    *)
(* certificates again, reviews them again, and writes what it reviewed.    *)
(***************************************************************************)
ArtifactsApplications(p) == ReadApplications(p, "artifacts", "artifactsDraft")
ArtifactsDraft(p) == ReadDraft(p, "artifactsDraft", "artifactsCerts")

ArtifactsVerdict(p) ==
  LET l == loc[p] IN
  IF MissingCertificate(l.apps, certs) THEN Refuse(p, "artifactsCerts")
  ELSE
    /\ pc[p] = "artifactsCerts"
    /\ UNCHANGED <<backend, store, records, directory, loaded, now, left, everLive>>
    /\ \E verdict \in Verdicts(l.draft),
          snap \in BuildSnapshots(l.apps, certs, l.draft) :
         /\ Vet(verdict, snap)
         /\ IF ArtifactsBlock(l, verdict)
            THEN Finish(p)
            ELSE /\ Goto(p, "writeFiles", [l EXCEPT !.snap = snap, !.todo = snap])
                 /\ UNCHANGED disturbed

RestoreArtifacts_Rebuilds(p) ==
  \E snap \in BuildSnapshots(loc[p].config.apps, certs, EmptyDraft) :
    Local(p, "restore", "writeFiles", [loc[p] EXCEPT !.todo = snap])

\* A rollback writes the recorded snapshot, or, for a record from before
\* snapshots were kept, rebuilds one from the store's certificates.
RestoreArtifacts(p) ==
  LET l == loc[p] IN
  /\ pc[p] = "restore"
  /\ IF l.snap # <<>>
     THEN Local(p, "restore", "writeFiles", [l EXCEPT !.todo = l.snap])
     ELSE IF MissingCertificate(l.config.apps, certs)
     THEN Refuse(p, "restore")
     ELSE \E snap \in BuildSnapshots(l.config.apps, certs, EmptyDraft) :
            Local(p, "restore", "writeFiles", [l EXCEPT !.todo = snap])

Remaining(todo) == Tail(todo)

\* One round of WriteRuntimeArtifactSnapshot.
WriteFile(p) ==
  LET l == loc[p] IN
  /\ pc[p] = "writeFiles"
  /\ l.todo # <<>>
  /\ files' = [files EXCEPT ![Head(l.todo).path] = Head(l.todo).content]
  /\ Goto(p, IF Len(l.todo) = 1 THEN "reload" ELSE "writeFiles",
          [l EXCEPT !.todo = Remaining(l.todo)])
  /\ UNCHANGED <<backend, store, records, gatewayJson, loaded, now, left, vetted, everLive,
                 disturbed>>

\* OpenResty accepts the listeners when each certificate they name has both
\* halves of one key pair on disk.
Loadable ==
  /\ files[Listeners] # Absent
  /\ \A c \in Uses[files[Listeners].apps] :
       files[Crt(c)] # Absent /\ files[Crt(c)] = files[Key(c)]

\* runGatewayReload: a failing command is noted in the record, no more.
ReloadGateway(p) ==
  /\ pc[p] = "reload"
  /\ \E status \in ReloadStatuses :
       /\ (status = "not-configured") = ~ReloadCommand
       /\ status = "reloaded" => Loadable
       /\ loaded' = IF status = "reloaded" THEN files[Listeners] ELSE loaded
       /\ Goto(p, "record", [loc[p] EXCEPT !.reload = status])
  /\ UNCHANGED <<backend, store, records, directory, now, left, vetted, everLive, disturbed>>

(***************************************************************************)
(* CreatePublishRecord.  Only the database declares the version UNIQUE.  A *)
(* rollback is named after the current second.                             *)
(***************************************************************************)
Taken(v) == \E i \in DOMAIN records : records[i].version = v
Accepts(v) == backend = "postgres" => ~Taken(v)

RecordVersion(l, t) == IF l.op = "rollback" THEN Append(l.version, t) ELSE l.version

Extended_NewestFirst(r) == <<r>> \o records

Extended(r) == Append(records, r)

CreateRecord(p) ==
  LET l == loc[p] IN
  /\ pc[p] = "record"
  /\ now' \in IF l.op = "rollback" THEN {now, now + 1} ELSE {now}
  /\ LET v == RecordVersion(l, now') IN
     records' = IF Accepts(v)
                THEN Extended([version |-> v, config |-> l.config,
                               artifacts |-> l.snap, reload |-> l.reload])
                ELSE records
  /\ Finish(p)
  /\ UNCHANGED <<backend, store, directory, loaded, left, vetted, everLive>>

(***************************************************************************)
(* Failures.  A statement fails when the database is away or the client    *)
(* has gone (its context is cancelled); a write fails when the disk does.  *)
(***************************************************************************)
WritePhases == {"writeConfig", "rollbackConfig", "writeFiles"}
StorePhases == Phases \ (WritePhases \cup {"idle", "reload"})

RequestFails(p) ==
  /\ pc[p] \in WritePhases \cup IF backend = "postgres" THEN StorePhases ELSE {}
  /\ Spend("faults")
  /\ Finish(p)
  /\ UNCHANGED <<backend, store, records, directory, loaded, now, vetted, everLive>>

\* The process dies and starts again; a memory store starts empty.
Crash ==
  /\ Spend("faults")
  /\ pc' = [p \in Handlers |-> "idle"]
  /\ loc' = [p \in Handlers |-> Blank]
  /\ disturbed' = {}
  /\ IF backend = "memory"
     THEN /\ apps' = NoApps
          /\ certs' = [c \in Certs |-> Absent]
          /\ draft' = EmptyDraft
          /\ draftStatus' = "unchecked"
          /\ records' = <<>>
     ELSE UNCHANGED <<store, records>>
  /\ UNCHANGED <<backend, directory, loaded, now, vetted, everLive>>

Release(p) ==
  \/ ReadinessApplications(p) \/ ReadinessVerdict(p)
  \/ ReviewApplications(p) \/ ReviewDraft(p) \/ ReviewVerdict(p)
  \/ ValidateApplications(p) \/ ValidateVerdict(p) \/ Generate(p)
  \/ WriteGeneratedConfig(p)
  \/ ArtifactsApplications(p) \/ ArtifactsDraft(p) \/ ArtifactsVerdict(p)
  \/ WriteRecordedConfig(p) \/ RestoreArtifacts(p)
  \/ WriteFile(p) \/ ReloadGateway(p) \/ CreateRecord(p)
  \/ RereadDraft(p) \/ SaveValidatedDraft(p)

Environment ==
  \/ \E a \in AppConfigs : SaveApplications(a)
  \/ \E c \in Certs, pem \in Pems : SaveCertificate(c, pem)
  \/ \E c \in Certs : DeleteCertificate(c)
  \/ \E d \in Drafts, status \in ClientStatuses : UpdateNginxConfigDraft(d, status)
  \/ Crash

Request(p) == StartRelease(p) \/ StartRollback(p) \/ StartValidation(p)

Next == Environment \/ \E p \in Handlers : Request(p) \/ Release(p) \/ RequestFails(p)

Spec == Init /\ [][Next]_vars

-----------------------------------------------------------------------------
(***************************************************************************)
(* Properties.                                                             *)
(***************************************************************************)

LocalState ==
  [op : {"none", "release", "rollback", "validate"}, confirm : BOOLEAN,
   version : Versions, apps : AppConfigs, draft : Draft,
   verdict : Statuses, config : Config, snap : Snapshots, todo : Snapshots,
   reload : ReloadStatuses]

\* Every variable holds a value of its kind.
TypeOK ==
  /\ backend \in Backends
  /\ apps \in AppConfigs
  /\ certs \in [Certs -> Pems \cup {Absent}]
  /\ draft \in Draft
  /\ draftStatus \in Statuses
  /\ records \in Seq(Record)
  /\ gatewayJson \in Config \cup {Absent}
  /\ files \in [Paths -> FileContent \cup {Absent}]
  /\ loaded \in FileContent \cup {Absent}
  /\ pc \in [Handlers -> Phases]
  /\ loc \in [Handlers -> LocalState]
  /\ now \in Nat
  /\ left \in [{"requests", "edits", "faults"} -> Nat]
  /\ vetted \subseteq Snapshots
  /\ everLive \subseteq Config
  /\ disturbed \subseteq Handlers

\* NextPublishVersion never hands out a version that a record already has,
\* although it only counts records and rollbacks count too: no retired or
\* crashed request can make it repeat itself once the record exists.
VersionIsFresh == \A i \in DOMAIN records : records[i].version # NextPublishVersion

\* No two publish records carry the same version, so that the version in a
\* rollback request names one record (schema.go: version TEXT NOT NULL UNIQUE).
VersionsUnique ==
  \A i, j \in DOMAIN records : records[i].version = records[j].version => i = j

IsAdvanced(file) ==
  \/ file.path = NginxConf
  \/ \E pt \in Points : file.path = Snippet(pt)
  \/ file.path = Listeners /\ file.content.snippets # NoSnippets

\* Whatever an operator wrote by hand into the nginx configuration is in the
\* runtime directory only as part of a snapshot that the validation command
\* accepted, however releases, rollbacks, draft edits and crashes interleave.
AdvancedFilesWereVetted ==
  \A f \in Paths :
    LET file == [path |-> f, content |-> files[f]] IN
    files[f] # Absent /\ IsAdvanced(file) => \E s \in vetted : file \in FilesOf(s)

\* A full override on disk keeps the health check, the Lua hooks and the
\* listener include.
OverrideKeepsHooks == files[NginxConf] \in Hooked \cup {Absent}

\* Handler p publishes a release, and no application, certificate or draft
\* changed between its first and its last read.
QuietlyPublishing(p) == /\ loc[p].op = "release"
                        /\ pc[p] \in {"writeFiles", "reload", "record"}
                        /\ p \notin disturbed

AppsOf(snap) == snap[1].content.apps

\* A release that no edit overtook puts the same applications in gateway.json
\* and in the nginx listeners, they pass the readiness checks, and advanced
\* nginx changes are among its files only if the request confirmed them.
QuietReleaseIsReviewed ==
  \A p \in Handlers : QuietlyPublishing(p) =>
    /\ AppsOf(loc[p].snap) = loc[p].config.apps
    /\ loc[p].config.apps \notin Conflicting
    /\ (\E file \in FilesOf(loc[p].snap) : IsAdvanced(file)) => loc[p].confirm

SelfContained(snap) ==
  \A c \in Uses[AppsOf(snap)] : \E pem \in Pems :
    /\ [path |-> Crt(c), content |-> pem] \in FilesOf(snap)
    /\ [path |-> Key(c), content |-> pem] \in FilesOf(snap)

\* A recorded snapshot holds a matching key pair for every certificate its
\* listeners name: it can be restored whatever has become of the store.
RecordedSnapshotsAreSelfContained ==
  \A i \in DOMAIN records :
    records[i].artifacts # <<>> => SelfContained(records[i].artifacts)

\* With one request at a time, the gateway is asked to reload a directory that it
\* can load and that holds every file of the snapshot this request publishes,
\* beside its gateway.json, in spite of edits, failed writes and crashes before;
\* a rollback of a record without a snapshot has put the listeners of the
\* record's applications there; and what nginx loads is what the record calls
\* reloaded.  Files of earlier publications that this one does not write may be
\* there too: RollbackRestoresNginx is about them.
ReloadSeesThePublication ==
  \A p \in Handlers :
    LET l == loc[p] IN
    /\ pc[p] \in {"reload", "record"} =>
         /\ gatewayJson = l.config
         /\ \A file \in FilesOf(l.snap) : files[file.path] = file.content
         /\ l.snap = <<>> => files[Listeners].apps = l.config.apps
         /\ Loadable
    /\ pc[p] = "record" /\ l.reload = "reloaded" => loaded = files[Listeners]

\* doc: after a rollback the gateway loads the configuration of the old
\* version, so no nginx file of a later one is left beside it.
RollbackRestoresNginx ==
  \A p \in Handlers :
    /\ loc[p].op = "rollback" /\ loc[p].snap # <<>>
    /\ pc[p] \in {"reload", "record"}
    => \A f \in NginxPaths :
         files[f] # Absent => [path |-> f, content |-> files[f]] \in FilesOf(loc[p].snap)

(***************************************************************************)
(* The pipeline implements the abstract publication service.               *)
(***************************************************************************)
Service == INSTANCE Publication WITH
  Configs <- Config,
  volatile <- backend = "memory",
  Histories <- {[i \in DOMAIN h |-> h[i].config] : h \in InitialHistories \cup {<<>>}},
  active <- gatewayJson,
  history <- [i \in DOMAIN records |-> records[i].config],
  live <- everLive

\* gateway.json only ever changes to a whole configuration, new or recorded, and
\* the history only grows, by configurations that have been live.
ImplementsPublication == Service!Spec
=============================================================================
