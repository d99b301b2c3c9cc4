------------------------ MODULE ReleaseReviewProofs ------------------------
(***************************************************************************)
(* What reviews, snapshots and reloads of the release pipeline guarantee:  *)
(* what nginx accepted keeps the hooks, what a record keeps can be         *)
(* restored, what no edit overtook is what was reviewed, and what the      *)
(* gateway reloads is what the request publishes.                          *)
(***************************************************************************)
EXTENDS ReleaseProofs

(***************************************************************************)
(* Overrides.  Whatever nginx accepted keeps the hooks: the check for them *)
(* comes before the command.                                               *)
(***************************************************************************)
Hooks(file) == file.path = NginxConf => file.content \in Hooked
HookedInv == \A s \in vetted : \A file \in FilesOf(s) : Hooks(file)

\* Only an override is written to nginx.conf.
LEMMA OverridesOfSnapshot ==
  ASSUME NEW a \in AppConfigs, NEW cs \in [Certs -> Pems \cup {Absent}],
         NEW d \in Draft, ~MissingCertificate(a, cs),
         NEW snap \in BuildSnapshots(a, cs, d), FullOverride(d) => d.full \in Hooked
  PROVE  \A file \in FilesOf(snap) : Hooks(file)
<1>1. Hooks(ListenerFile(a, d))
  BY DEF Hooks, ListenerFile, Listeners, NginxConf
<1>2. \A file \in SnippetFiles(d) \cup KeyPairs(Uses[a], cs) : Hooks(file)
  BY DEF Hooks, SnippetFiles, KeyPairs, Snippet, Crt, Key, NginxConf
<1>3. \A file \in Overrides(d) : Hooks(file)
  BY DEF Hooks, Overrides
<1> QED BY <1>1, <1>2, <1>3, FilesOfSnapshot

LEMMA PassedOverride ==
  ASSUME NEW d, "passed" \in Verdicts(d), FullOverride(d)
  PROVE  d.full \in Hooked
BY DEF Verdicts

LEMMA VetKeepsHooks ==
  ASSUME TypeOK, HookedInv, NEW p \in Handlers, ~MissingCertificate(loc[p].apps, certs),
         NEW verdict \in Verdicts(loc[p].draft),
         NEW snap \in BuildSnapshots(loc[p].apps, certs, loc[p].draft), Vet(verdict, snap)
  PROVE  HookedInv'
<1>1. /\ loc[p].apps \in AppConfigs /\ loc[p].draft \in Draft
      /\ certs \in [Certs -> Pems \cup {Absent}]
  BY ReadType DEF TypeOK, LocalState
<1>2. ASSUME verdict = "passed"
      PROVE  \A file \in FilesOf(snap) : Hooks(file)
  BY <1>1, <1>2, PassedOverride, OverridesOfSnapshot
<1> QED BY <1>2 DEF HookedInv, Vet

LEMMA HookedStep == TypeOK /\ HookedInv /\ [Next]_vars => HookedInv'
<1> SUFFICES ASSUME TypeOK, HookedInv, [Next]_vars PROVE HookedInv'
  OBVIOUS
<1>1. CASE vetted' = vetted
  BY <1>1 DEF HookedInv
<1>2. ASSUME NEW p \in Handlers, ReviewVerdict(p) \/ ArtifactsVerdict(p)
      PROVE  HookedInv'
  <2>1. CASE MissingCertificate(loc[p].apps, certs)
    BY <1>1, <1>2, <2>1 DEF ReviewVerdict, ArtifactsVerdict, Refuse
  <2>2. CASE ~MissingCertificate(loc[p].apps, certs)
    BY <1>2, <2>2, VetKeepsHooks DEF ReviewVerdict, ArtifactsVerdict
  <2> QED BY <2>1, <2>2
<1>3. ASSUME NEW p \in Handlers,
             \/ Request(p) \/ RequestFails(p)
             \/ Release(p) /\ ~ReviewVerdict(p) /\ ~ArtifactsVerdict(p)
      PROVE  vetted' = vetted
  BY <1>3 DEF Request, StartRelease, StartRollback, StartValidation, StartRequest, RequestFails,
     Release, ReadinessApplications, ReadinessVerdict, ReviewApplications, ReviewDraft,
     ValidateApplications, ValidateVerdict, Generate, WriteGeneratedConfig, ArtifactsApplications,
     ArtifactsDraft, WriteRecordedConfig, RestoreArtifacts, WriteFile, ReloadGateway, CreateRecord,
     RereadDraft, SaveValidatedDraft, ReadApplications, ReadDraft, CheckReadiness, WriteConfig,
     Local, Refuse
<1>4. CASE Environment
  BY <1>1, <1>4 DEF Environment, SaveApplications, SaveCertificate, DeleteCertificate,
     UpdateNginxConfigDraft, Edit, Crash
<1>5. CASE UNCHANGED vars
  BY <1>1, <1>5 DEF vars
<1> QED BY <1>1, <1>2, <1>3, <1>4, <1>5 DEF Next

\* Whatever drafts are saved, validated, released and rolled back beside each other, a full
\* override on disk keeps the health check, the Lua hooks and the listener include.
THEOREM OverridesKeepHooks == Spec => []OverrideKeepsHooks
<1>1. Init => HookedInv
  BY DEF Init, HookedInv
<1>2. TypeOK /\ HookedInv /\ AdvancedFilesWereVetted => OverrideKeepsHooks
  <2> SUFFICES ASSUME HookedInv, AdvancedFilesWereVetted, files[NginxConf] # Absent
               PROVE  files[NginxConf] \in Hooked
    BY DEF OverrideKeepsHooks
  <2> DEFINE file == [path |-> NginxConf, content |-> files[NginxConf]]
  <2>1. NginxConf \in Paths /\ IsAdvanced(file)
    BY DEF Paths, NginxPaths, IsAdvanced
  <2>2. PICK s \in vetted : file \in FilesOf(s)
    BY <2>1 DEF AdvancedFilesWereVetted
  <2> QED BY <2>2 DEF HookedInv, Hooks
<1> QED BY <1>1, <1>2, HookedStep, TypeCorrect, OnlyVettedAdvancedFiles, PTL DEF Spec

(***************************************************************************)
(* Snapshots that can be restored: a handler carries, and a record keeps,  *)
(* none or one that was built from the store.                              *)
(***************************************************************************)
OneFilePerPath(snap) == \A f, g \in FilesOf(snap) : f.path = g.path => f = g
Restorable(snap) == /\ snap # <<>> /\ snap[1] \in FilesOf(snap) /\ snap[1].path = Listeners
                    /\ snap[1].content \in ListenerText
                    /\ SelfContained(snap)
                    /\ OneFilePerPath(snap)
RestorableOrNone(snap) == snap # <<>> => Restorable(snap)

RestorableInv ==
  /\ \A p \in Handlers : RestorableOrNone(loc[p].snap)
  /\ \A i \in DOMAIN records : RestorableOrNone(records[i].artifacts)

LEMMA BuiltIsRestorable ==
  ASSUME NEW a \in AppConfigs, NEW cs \in [Certs -> Pems \cup {Absent}],
         NEW d \in Draft, ~MissingCertificate(a, cs), NEW snap \in BuildSnapshots(a, cs, d)
  PROVE  Restorable(snap) /\ AppsOf(snap) = a
<1> DEFINE first == ListenerFile(a, d)
           pairs == KeyPairs(Uses[a], cs)
<1>1. /\ snap \in Snapshots /\ snap # <<>> /\ snap[1] = first /\ first \in FilesOf(snap)
      /\ FilesOf(snap) = {first} \cup SnippetFiles(d) \cup pairs \cup Overrides(d)
  BY FilesOfSnapshot
<1>2. SnippetsByPoint(d) \in [Points -> Text]
  BY DEF SnippetsByPoint, Draft, NoSnippets, Text
<1>3. first.path = Listeners /\ first.content \in ListenerText /\ first.content.apps = a
  BY <1>2 DEF ListenerFile, ListenerText
<1>4. SelfContained(snap)
  <2> SUFFICES ASSUME NEW c \in Uses[a]
               PROVE  /\ cs[c] \in Pems
                      /\ [path |-> Crt(c), content |-> cs[c]] \in FilesOf(snap)
                      /\ [path |-> Key(c), content |-> cs[c]] \in FilesOf(snap)
    BY <1>1, <1>3 DEF SelfContained, AppsOf
  <2>1. c \in Certs /\ cs[c] \in Pems
    BY ReleaseAssumption DEF MissingCertificate
  <2> QED BY <1>1, <2>1 DEF KeyPairs
<1>5. OneFilePerPath(snap)
  <2>1. \A f \in SnippetFiles(d) : \A g \in SnippetFiles(d) : f.path = g.path => f = g
    BY DEF SnippetFiles, Snippet
  <2>2. \A f, g \in pairs : f.path = g.path => f = g
    BY DEF KeyPairs, Crt, Key
  <2>3. \A f, g \in Overrides(d) : f.path = g.path => f = g
    BY DEF Overrides
  <2>4. /\ \A f \in SnippetFiles(d) : \E pt : f.path = Snippet(pt)
        /\ \A f \in pairs : \E c : f.path = Crt(c) \/ f.path = Key(c)
        /\ \A f \in Overrides(d) : f.path = NginxConf
    BY DEF SnippetFiles, KeyPairs, Overrides
  <2>5. \A x, y : /\ Listeners # NginxConf /\ Snippet(x) # Listeners /\ Snippet(x) # NginxConf
                  /\ Crt(x) \notin {Listeners, NginxConf, Snippet(y)}
                  /\ Key(x) \notin {Listeners, NginxConf, Snippet(y)}
    BY DEF Listeners, NginxConf, Snippet, Crt, Key
  <2> HIDE DEF first, pairs
  <2> QED BY <1>1, <1>3, <2>1, <2>2, <2>3, <2>4, <2>5 DEF OneFilePerPath
<1> QED BY <1>1, <1>3, <1>4, <1>5 DEF Restorable, AppsOf

\* What a handler builds, for a release or for a record without a snapshot.
LEMMA BuiltByHandler ==
  ASSUME TypeOK, NEW p \in Handlers, NEW snap
  PROVE  /\ ~MissingCertificate(loc[p].apps, certs)
              /\ snap \in BuildSnapshots(loc[p].apps, certs, loc[p].draft)
            => Restorable(snap) /\ AppsOf(snap) = loc[p].apps
         /\ ~MissingCertificate(loc[p].config.apps, certs)
              /\ snap \in BuildSnapshots(loc[p].config.apps, certs, EmptyDraft)
            => Restorable(snap) /\ AppsOf(snap) = loc[p].config.apps
<1>1. /\ loc[p].apps \in AppConfigs /\ loc[p].draft \in Draft /\ loc[p].config.apps \in AppConfigs
      /\ certs \in [Certs -> Pems \cup {Absent}] /\ EmptyDraft \in Draft
  BY ReadType, BlankType DEF TypeOK, LocalState, Config
<1> QED BY <1>1, BuiltIsRestorable

LEMMA NothingToRestore == RestorableOrNone(<<>>) /\ RestorableOrNone(Blank.snap)
BY DEF RestorableOrNone, Blank

LEMMA RestorableMove ==
  ASSUME TypeOK, RestorableInv, NEW p \in Handlers, NEW ph, NEW l, Goto(p, ph, l),
         RestorableOrNone(l.snap), records' = records
  PROVE  RestorableInv'
<1>1. ASSUME NEW q \in Handlers PROVE RestorableOrNone(loc'[q].snap)
  BY GotoValues DEF RestorableInv
<1> QED BY <1>1 DEF RestorableInv

LEMMA HandlerRestorableStep ==
  ASSUME TypeOK, RestorableInv, NEW p \in Handlers, Request(p) \/ Release(p) \/ RequestFails(p)
  PROVE  RestorableInv'
<1> DEFINE l == loc[p]
<1>0. l \in LocalState /\ records \in Seq(Record) /\ RestorableOrNone(l.snap)
  BY ReadType DEF TypeOK, RestorableInv
<1>1. ASSUME NEW ph, NEW m, Goto(p, ph, m), RestorableOrNone(m.snap), records' = records
      PROVE  RestorableInv'
  BY <1>1, RestorableMove
<1>2. ASSUME Finish(p), records' = records
      PROVE  RestorableInv'
  BY <1>1, <1>2, NothingToRestore DEF Finish
<1>3. CASE StartRelease(p) \/ StartValidation(p)
  <2>1. records' = records /\ \E ph, m : Goto(p, ph, m) /\ m.snap = <<>>
    <3>1. CASE StartRelease(p)
      <4>1. PICK b, v : Goto(p, "readiness", [Blank EXCEPT !.op = "release",
                                               !.confirm = b, !.version = v])
        BY <3>1 DEF StartRelease, StartRequest
      <4>2. [Blank EXCEPT !.op = "release", !.confirm = b, !.version = v].snap = <<>>
        BY DEF Blank
      <4> QED BY <3>1, <4>1, <4>2 DEF StartRelease, StartRequest
    <3>2. CASE StartValidation(p)
      <4>1. [Blank EXCEPT !.op = "validate"].snap = <<>>
        BY DEF Blank
      <4> QED BY <3>2, <4>1 DEF StartValidation, StartRequest
    <3> QED BY <1>3, <3>1, <3>2
  <2> QED BY <1>1, <2>1, NothingToRestore
<1>4. CASE StartRollback(p)
  <2>1. PICK i, m :
          /\ i \in DOMAIN records
          /\ Goto(p, "rollbackConfig", m) /\ records' = records
          /\ \E v, c : m = [Blank EXCEPT !.op = "rollback", !.version = v, !.config = c,
                                         !.snap = records[i].artifacts]
    BY <1>4 DEF StartRollback, StartRequest
  <2>2. m.snap = records[i].artifacts
    BY <2>1 DEF Blank
  <2> QED BY <1>1, <2>1, <2>2 DEF RestorableInv
<1>5. CASE \/ ReadinessApplications(p) \/ ReviewApplications(p) \/ ValidateApplications(p)
           \/ ArtifactsApplications(p) \/ ReviewDraft(p) \/ ArtifactsDraft(p) \/ RereadDraft(p)
  <2>1. /\ records' = records
        /\ \E ph : Goto(p, ph, [l EXCEPT !.apps = apps]) \/ Goto(p, ph, [l EXCEPT !.draft = draft])
    BY <1>5 DEF ReadinessApplications, ReviewApplications, ValidateApplications,
                ArtifactsApplications, ReviewDraft, ArtifactsDraft, RereadDraft,
                ReadApplications, ReadDraft, Local
  <2>2. [l EXCEPT !.apps = apps].snap = l.snap /\ [l EXCEPT !.draft = draft].snap = l.snap
    BY <1>0 DEF LocalState
  <2> QED BY <1>0, <1>1, <2>1, <2>2
<1>6. CASE ReadinessVerdict(p) \/ ValidateVerdict(p)
  <2>1. records' = records /\ (Finish(p) \/ \E ph : Goto(p, ph, l))
    BY <1>6 DEF ReadinessVerdict, ValidateVerdict, CheckReadiness, Local, Refuse
  <2> QED BY <1>0, <1>1, <1>2, <2>1
<1>7. CASE ReviewVerdict(p)
  <2>1. /\ records' = records
        /\ \/ Finish(p)
           \/ Goto(p, "validate", l)
           \/ \E v : Goto(p, "reread", [l EXCEPT !.verdict = v])
    BY <1>7 DEF ReviewVerdict, Refuse
  <2>2. \A v : [l EXCEPT !.verdict = v].snap = l.snap
    BY <1>0 DEF LocalState
  <2> QED BY <1>0, <1>1, <1>2, <2>1, <2>2
<1>8. CASE Generate(p) \/ ReloadGateway(p)
  <2>1. /\ records' = records
        /\ \E ph, x : Goto(p, ph, [l EXCEPT !.config = x]) \/ Goto(p, ph, [l EXCEPT !.reload = x])
    BY <1>8 DEF Generate, Local, ReloadGateway
  <2>2. \A x : [l EXCEPT !.config = x].snap = l.snap /\ [l EXCEPT !.reload = x].snap = l.snap
    BY <1>0 DEF LocalState
  <2> QED BY <1>0, <1>1, <2>1, <2>2
<1>9. CASE WriteGeneratedConfig(p) \/ WriteRecordedConfig(p)
  BY <1>0, <1>1, <1>9 DEF WriteGeneratedConfig, WriteRecordedConfig, WriteConfig
<1>10. CASE ArtifactsVerdict(p)
  <2>1. /\ records' = records
        /\ \/ Finish(p)
           \/ \E snap \in BuildSnapshots(l.apps, certs, l.draft) :
                /\ ~MissingCertificate(l.apps, certs)
                /\ Goto(p, "writeFiles", [l EXCEPT !.snap = snap, !.todo = snap])
    BY <1>10 DEF ArtifactsVerdict, Refuse
  <2>2. \A snap : [l EXCEPT !.snap = snap, !.todo = snap].snap = snap
    BY <1>0 DEF LocalState
  <2> QED BY <1>1, <1>2, <2>1, <2>2, BuiltByHandler DEF RestorableOrNone
<1>11. CASE RestoreArtifacts(p) \/ WriteFile(p)
  <2>1. /\ records' = records
        /\ Finish(p) \/ \E ph, t : Goto(p, ph, [l EXCEPT !.todo = t])
    BY <1>11 DEF RestoreArtifacts, WriteFile, Local, Refuse
  <2>2. \A t : [l EXCEPT !.todo = t].snap = l.snap
    BY <1>0 DEF LocalState
  <2> QED BY <1>0, <1>1, <1>2, <2>1, <2>2
<1>12. CASE CreateRecord(p)
  <2>1. /\ Finish(p)
        /\ records' = records \/ \E r : records' = Append(records, r) /\ r.artifacts = l.snap
    BY <1>12 DEF CreateRecord, Extended
  <2>2. ASSUME NEW r, records' = Append(records, r), r.artifacts = l.snap
        PROVE  RestorableInv'
    <3>1. \A i \in DOMAIN records' :
            records'[i] = r \/ (i \in DOMAIN records /\ records'[i] = records[i])
      BY <1>0, <2>2
    <3>2. ASSUME NEW q \in Handlers PROVE RestorableOrNone(loc'[q].snap)
      BY <2>1, FinishValues, NothingToRestore DEF RestorableInv
    <3> QED BY <1>0, <2>2, <3>1, <3>2 DEF RestorableInv
  <2> QED BY <1>2, <2>1, <2>2
<1>13. CASE SaveValidatedDraft(p) \/ RequestFails(p)
  BY <1>1, <1>2, <1>13, NothingToRestore DEF SaveValidatedDraft, RequestFails
<1> QED BY <1>3, <1>4, <1>5, <1>6, <1>7, <1>8, <1>9, <1>10, <1>11, <1>12, <1>13
    DEF Request, Release

LEMMA RestorableStep == TypeOK /\ RestorableInv /\ [Next]_vars => RestorableInv'
<1> SUFFICES ASSUME TypeOK, RestorableInv, [Next]_vars PROVE RestorableInv'
  OBVIOUS
<1>1. CASE Environment
  BY <1>1, EnvironmentLeavesRequests, NothingToRestore DEF RestorableInv
<1>2. CASE UNCHANGED vars
  BY <1>2 DEF vars, RestorableInv
<1> QED BY <1>1, <1>2, HandlerRestorableStep DEF Next

LEMMA RestorableInit == Init => RestorableInv
<1> SUFFICES ASSUME Init PROVE RestorableInv
  OBVIOUS
<1>1. records = <<>> \/ records \in InitialHistories
  BY DEF Init
<1>2. \A i \in DOMAIN records : records[i].artifacts = <<>>
  BY <1>1, ReleaseAssumption
<1> QED BY <1>2, NothingToRestore DEF Init, RestorableInv

\* A recorded snapshot has the key pair of every certificate its listeners name, whatever
\* certificates were replaced or deleted while it was built, and whatever happens later.
THEOREM RecordsCanBeRestored == Spec => []RecordedSnapshotsAreSelfContained
<1>1. RestorableInv => RecordedSnapshotsAreSelfContained
  BY DEF RestorableInv, RestorableOrNone, Restorable, RecordedSnapshotsAreSelfContained
<1> QED BY <1>1, TypeInit, TypeStep, RestorableInit, RestorableStep, PTL DEF Spec
(***************************************************************************)
(* Requests that no edit overtook.  What a handler has read is what the    *)
(* store still holds, as long as it is going to read again.                *)
(***************************************************************************)
Generated == {"writeConfig", "artifacts", "artifactsDraft", "artifactsCerts"}
Reviewed == {"validate", "validateCerts", "generate"} \cup Generated
Publishing == {"writeFiles", "reload", "record"}

ReviewedSnap(l) == /\ AppsOf(l.snap) = l.config.apps
                   /\ l.config.apps \notin Conflicting
                   /\ (\E file \in FilesOf(l.snap) : IsAdvanced(file)) => l.confirm

QuietAt(ph, l, a, d) ==
  /\ ph \in {"reviewCerts", "artifactsCerts"} => l.draft = d
  /\ ph \in {"validateCerts", "generate", "artifactsDraft", "artifactsCerts"} => l.apps = a
  /\ ph = "generate" => a \notin Conflicting
  /\ ph \in {"rollbackConfig", "restore"} => l.op = "rollback"
  /\ l.op = "release" =>
       /\ ph \in Reviewed /\ HasAdvancedChanges(d) => l.confirm
       /\ ph \in Generated => l.config.apps = a /\ a \notin Conflicting
       /\ ph \in Publishing => ReviewedSnap(l)

QuietInv == \A p \in Handlers : p \notin disturbed => QuietAt(pc[p], loc[p], apps, draft)

\* A handler that reads no more does not mind an edit.
LEMMA QuietElsewhere ==
  ASSUME NEW ph, ph \notin ReadPhases, NEW l, NEW a, NEW b, NEW d, NEW e, QuietAt(ph, l, a, d)
  PROVE  QuietAt(ph, l, b, e)
BY DEF QuietAt, ReadPhases, Generated, Reviewed, Publishing

LEMMA QuietIdle == \A l, a, d : l.op \in {"none", "validate"} => QuietAt("idle", l, a, d)
BY DEF QuietAt, Generated, Reviewed, Publishing

LEMMA BlankIsQuiet == \A a, d : QuietAt("idle", Blank, a, d)
BY QuietIdle DEF Blank

LEMMA QuietMove ==
  ASSUME TypeOK, QuietInv, NEW p \in Handlers, NEW ph, NEW l, Goto(p, ph, l),
         apps' = apps, draft' = draft, disturbed \subseteq disturbed' \cup {p},
         p \notin disturbed' => QuietAt(ph, l, apps, draft)
  PROVE  QuietInv'
<1> SUFFICES ASSUME NEW q \in Handlers, q \notin disturbed'
             PROVE  QuietAt(pc'[q], loc'[q], apps, draft)
  BY DEF QuietInv, QuietAt
<1>1. CASE q = p
  BY <1>1, GotoValues
<1>2. CASE q # p
  BY <1>2, GotoValues DEF QuietInv
<1> QED BY <1>1, <1>2

\* An edit disturbs whoever reads.
LEMMA QuietEdit ==
  ASSUME TypeOK, QuietInv, NEW p,
         disturbed' = disturbed \cup Reading \/ disturbed' = (disturbed \cup Reading) \ {p},
         \A q \in Handlers \ {p} : pc'[q] = pc[q] /\ loc'[q] = loc[q],
         p \in Handlers => \/ pc'[p] = pc[p] /\ loc'[p] = loc[p] /\ disturbed' = disturbed \cup Reading
                           \/ pc'[p] = "idle" /\ loc'[p] = Blank
  PROVE  QuietInv'
<1> SUFFICES ASSUME NEW q \in Handlers, q \notin disturbed'
             PROVE  QuietAt(pc'[q], loc'[q], apps', draft')
  BY DEF QuietInv, QuietAt
<1>1. CASE pc'[q] = "idle" /\ loc'[q] = Blank
  BY <1>1, BlankIsQuiet
<1>2. CASE pc'[q] = pc[q] /\ loc'[q] = loc[q] /\ q \notin disturbed \cup Reading
  <2>1. pc[q] \notin ReadPhases /\ QuietAt(pc[q], loc[q], apps, draft)
    BY <1>2 DEF Reading, QuietInv
  <2> QED BY <1>2, <2>1, QuietElsewhere
<1> QED BY <1>1, <1>2

LEMMA HandlerQuietStep ==
  ASSUME TypeOK, QuietInv, NEW p \in Handlers, Request(p) \/ Release(p) \/ RequestFails(p)
  PROVE  QuietInv'
<1> DEFINE l == loc[p]
<1>0. /\ l \in LocalState
      /\ p \notin disturbed => QuietAt(pc[p], l, apps, draft)
  BY ReadType DEF TypeOK, QuietInv
<1>1. ASSUME NEW ph, NEW m, Goto(p, ph, m), apps' = apps, draft' = draft, disturbed' = disturbed,
             p \notin disturbed => QuietAt(ph, m, apps, draft)
      PROVE  QuietInv'
  BY <1>1, QuietMove
<1>2. ASSUME Finish(p), apps' = apps, draft' = draft
      PROVE  QuietInv'
  <2>1. disturbed \subseteq disturbed' \cup {p}
    BY <1>2 DEF Finish
  <2> QED BY <1>2, <2>1, QuietMove, BlankIsQuiet DEF Finish
<1>3. CASE StartRelease(p) \/ StartValidation(p) \/ StartRollback(p)
  <2>1. apps' = apps /\ draft' = draft /\ disturbed' = disturbed
    BY <1>3 DEF StartRelease, StartValidation, StartRollback, StartRequest, store
  <2>2. \/ \E m : Goto(p, "readiness", m)
        \/ \E m : Goto(p, "review", m)
        \/ \E v, c, s : Goto(p, "rollbackConfig", [Blank EXCEPT !.op = "rollback",
                               !.version = v, !.config = c, !.snap = s])
    BY <1>3 DEF StartRelease, StartValidation, StartRollback, StartRequest
  <2>3. \A m : QuietAt("readiness", m, apps, draft) /\ QuietAt("review", m, apps, draft)
    BY DEF QuietAt, Reviewed, Generated, Publishing
  <2>4. ASSUME NEW v, NEW c, NEW s
        PROVE  QuietAt("rollbackConfig", [Blank EXCEPT !.op = "rollback", !.version = v,
                                            !.config = c, !.snap = s], apps, draft)
    <3> DEFINE m == [Blank EXCEPT !.op = "rollback", !.version = v, !.config = c, !.snap = s]
    <3>1. m.op = "rollback"
      BY DEF Blank
    <3> HIDE DEF m
    <3> QED BY <3>1 DEF QuietAt, Reviewed, Generated, Publishing
  <2> QED BY <1>1, <2>1, <2>2, <2>3, <2>4
<1>4. ASSUME NEW from, NEW to, ReadApplications(p, from, to),
             <<from, to>> \in {<<"readiness", "readinessCerts">>, <<"review", "reviewDraft">>,
                               <<"validate", "validateCerts">>, <<"artifacts", "artifactsDraft">>}
      PROVE  QuietInv'
  <2> PICK m : m = [l EXCEPT !.apps = apps]
    OBVIOUS
  <2>1. /\ pc[p] = from /\ Goto(p, to, m) /\ apps' = apps /\ draft' = draft
        /\ disturbed' = disturbed
    BY <1>4 DEF ReadApplications, Local, store
  <2>2. /\ m.apps = apps /\ m.op = l.op /\ m.confirm = l.confirm /\ m.config = l.config
    BY <1>0 DEF LocalState
  <2>3. p \notin disturbed => QuietAt(to, m, apps, draft)
    BY <1>0, <1>4, <2>1, <2>2 DEF QuietAt, Reviewed, Generated, Publishing
  <2> QED BY <1>1, <2>1, <2>3
<1>5. ASSUME NEW from, NEW to, ReadDraft(p, from, to),
             <<from, to>> \in {<<"reviewDraft", "reviewCerts">>, <<"reread", "saveDraft">>,
                               <<"artifactsDraft", "artifactsCerts">>}
      PROVE  QuietInv'
  <2> PICK m : m = [l EXCEPT !.draft = draft]
    OBVIOUS
  <2>1. /\ pc[p] = from /\ Goto(p, to, m) /\ apps' = apps /\ draft' = draft
        /\ disturbed' = disturbed
    BY <1>5 DEF ReadDraft, Local, store
  <2>2. /\ m.draft = draft /\ m.apps = l.apps /\ m.op = l.op
        /\ m.confirm = l.confirm /\ m.config = l.config
    BY <1>0 DEF LocalState
  <2>3. p \notin disturbed => QuietAt(to, m, apps, draft)
    BY <1>0, <1>5, <2>1, <2>2 DEF QuietAt, Reviewed, Generated, Publishing
  <2> QED BY <1>1, <2>1, <2>3
<1>6. CASE ReadinessVerdict(p) \/ ValidateVerdict(p)
  <2>1. apps' = apps /\ draft' = draft
    BY <1>6 DEF ReadinessVerdict, ValidateVerdict, CheckReadiness, Local, Refuse, store
  <2>2. CASE Finish(p)
    BY <1>2, <2>1, <2>2
  <2>3. CASE pc[p] = "readinessCerts" /\ Goto(p, "review", l) /\ disturbed' = disturbed
    <3>1. QuietAt("review", l, apps, draft)
      BY DEF QuietAt, Reviewed, Generated, Publishing
    <3> QED BY <1>1, <2>1, <2>3, <3>1
  <2>4. CASE /\ pc[p] = "validateCerts" /\ Goto(p, "generate", l) /\ disturbed' = disturbed
             /\ Ready(l.apps, certs)
    <3>1. p \notin disturbed => QuietAt("generate", l, apps, draft)
      BY <1>0, <2>4 DEF QuietAt, Ready, Reviewed, Generated, Publishing
    <3> QED BY <1>1, <2>1, <2>4, <3>1
  <2> QED BY <1>6, <2>2, <2>3, <2>4
          DEF ReadinessVerdict, ValidateVerdict, CheckReadiness, Local, Refuse
<1>7. CASE ReviewVerdict(p)
  <2>1. apps' = apps /\ draft' = draft /\ pc[p] = "reviewCerts"
    BY <1>7 DEF ReviewVerdict, Refuse, store
  <2>2. \/ Finish(p)
        \/ \E v : /\ l.op = "release" /\ ~ReviewBlocks(l, v)
                  /\ Goto(p, "validate", l) /\ disturbed' = disturbed
        \/ \E v : /\ Goto(p, "reread", [l EXCEPT !.verdict = v])
                  /\ disturbed' = disturbed /\ l.op = "validate"
    BY <1>7 DEF ReviewVerdict, Refuse
  <2>3. ASSUME NEW v, l.op = "release", ~ReviewBlocks(l, v), Goto(p, "validate", l),
               disturbed' = disturbed
        PROVE  QuietInv'
    <3>1. p \notin disturbed => QuietAt("validate", l, apps, draft)
      BY <1>0, <2>1, <2>3 DEF QuietAt, ReviewBlocks, Reviewed, Generated, Publishing
    <3> QED BY <1>1, <2>1, <2>3, <3>1
  <2>4. ASSUME NEW v, Goto(p, "reread", [l EXCEPT !.verdict = v]),
               disturbed' = disturbed
        PROVE  QuietInv'
    <3> PICK m : m = [l EXCEPT !.verdict = v]
      OBVIOUS
    <3>1. p \notin disturbed => QuietAt("reread", m, apps, draft)
      BY <1>0, <2>1 DEF QuietAt, Reviewed, Generated, Publishing
    <3> QED BY <1>1, <2>1, <2>4, <3>1
  <2> QED BY <1>2, <2>1, <2>2, <2>3, <2>4
<1>8. CASE Generate(p)
  <2> PICK m : m = [l EXCEPT !.config = [version |-> l.version, apps |-> apps]]
    OBVIOUS
  <2>1. /\ pc[p] = "generate" /\ Goto(p, "writeConfig", m) /\ apps' = apps /\ draft' = draft
        /\ disturbed' = disturbed
    BY <1>8 DEF Generate, Local, store
  <2>2. m.config.apps = apps /\ m.op = l.op /\ m.confirm = l.confirm
    BY <1>0 DEF LocalState
  <2>3. p \notin disturbed => QuietAt("writeConfig", m, apps, draft)
    BY <1>0, <2>1, <2>2 DEF QuietAt, Reviewed, Generated, Publishing
  <2> QED BY <1>1, <2>1, <2>3
<1>9. CASE WriteGeneratedConfig(p) \/ WriteRecordedConfig(p)
  <2>1. apps' = apps /\ draft' = draft /\ disturbed' = disturbed
    BY <1>9 DEF WriteGeneratedConfig, WriteRecordedConfig, WriteConfig, store
  <2>2. \/ pc[p] = "writeConfig" /\ Goto(p, "artifacts", l)
        \/ pc[p] = "rollbackConfig" /\ Goto(p, "restore", l)
    BY <1>9 DEF WriteGeneratedConfig, WriteRecordedConfig, WriteConfig
  <2>3. CASE pc[p] = "writeConfig" /\ Goto(p, "artifacts", l)
    <3>1. p \notin disturbed => QuietAt("artifacts", l, apps, draft)
      BY <1>0, <2>3 DEF QuietAt, Reviewed, Generated, Publishing
    <3> QED BY <1>1, <2>1, <2>3, <3>1
  <2>4. CASE pc[p] = "rollbackConfig" /\ Goto(p, "restore", l)
    <3>1. p \notin disturbed => QuietAt("restore", l, apps, draft)
      BY <1>0, <2>4 DEF QuietAt, Reviewed, Generated, Publishing
    <3> QED BY <1>1, <2>1, <2>4, <3>1
  <2> QED BY <2>2, <2>3, <2>4
<1>10. CASE ArtifactsVerdict(p)
  <2>1. /\ apps' = apps /\ draft' = draft /\ pc[p] = "artifactsCerts"
        /\ \/ Finish(p)
           \/ \E snap \in BuildSnapshots(l.apps, certs, l.draft) :
                /\ ~MissingCertificate(l.apps, certs) /\ disturbed' = disturbed
                /\ Goto(p, "writeFiles", [l EXCEPT !.snap = snap, !.todo = snap])
    BY <1>10 DEF ArtifactsVerdict, Refuse, store
  <2>2. ASSUME NEW snap \in BuildSnapshots(l.apps, certs, l.draft), disturbed' = disturbed,
               ~MissingCertificate(l.apps, certs),
               Goto(p, "writeFiles", [l EXCEPT !.snap = snap, !.todo = snap])
        PROVE  QuietInv'
    <3> PICK m : m = [l EXCEPT !.snap = snap, !.todo = snap]
      OBVIOUS
    <3>1. m.snap = snap /\ m.config = l.config /\ m.op = l.op /\ m.confirm = l.confirm
      BY <1>0 DEF LocalState
    <3>2. AppsOf(snap) = l.apps
      BY <2>2, BuiltByHandler
    <3>3. \A f \in FilesOf(snap) : IsAdvanced(f) => HasAdvancedChanges(l.draft)
      BY <2>2, ReviewedSnapshot
    <3>4. p \notin disturbed /\ l.op = "release" => ReviewedSnap(m)
      BY <1>0, <2>1, <3>1, <3>2, <3>3 DEF QuietAt, Reviewed, Generated, ReviewedSnap
    <3>5. p \notin disturbed => QuietAt("writeFiles", m, apps, draft)
      BY <3>1, <3>4 DEF QuietAt, Reviewed, Generated, Publishing
    <3> QED BY <1>1, <2>1, <2>2, <3>5
  <2> QED BY <1>2, <2>1, <2>2
<1>11. CASE RestoreArtifacts(p)
  <2>1. /\ apps' = apps /\ draft' = draft /\ pc[p] = "restore"
        /\ \/ Finish(p)
           \/ disturbed' = disturbed /\ \E t : Goto(p, "writeFiles", [l EXCEPT !.todo = t])
    BY <1>11 DEF RestoreArtifacts, Local, Refuse, store
  <2>2. ASSUME disturbed' = disturbed, NEW t, Goto(p, "writeFiles", [l EXCEPT !.todo = t])
        PROVE  QuietInv'
    <3> PICK m : m = [l EXCEPT !.todo = t]
      OBVIOUS
    <3>1. m.op = l.op
      BY <1>0 DEF LocalState
    <3>2. p \notin disturbed => QuietAt("writeFiles", m, apps, draft)
      BY <1>0, <2>1, <3>1 DEF QuietAt, Reviewed, Generated, Publishing
    <3> QED BY <1>1, <2>1, <2>2, <3>2
  <2> QED BY <1>2, <2>1, <2>2
<1>12. CASE WriteFile(p) \/ ReloadGateway(p)
  <2>1. /\ apps' = apps /\ draft' = draft /\ disturbed' = disturbed
        /\ pc[p] \in Publishing
    BY <1>12 DEF WriteFile, ReloadGateway, store, Publishing
  <2>4. PICK ph \in Publishing :
          \E x : Goto(p, ph, [l EXCEPT !.todo = x]) \/ Goto(p, ph, [l EXCEPT !.reload = x])
    BY <1>12 DEF WriteFile, ReloadGateway, Publishing
  <2>2. PICK x :
          Goto(p, ph, [l EXCEPT !.todo = x]) \/ Goto(p, ph, [l EXCEPT !.reload = x])
    BY <2>4
  <2>3. ASSUME NEW m, m = [l EXCEPT !.todo = x] \/ m = [l EXCEPT !.reload = x]
        PROVE  p \notin disturbed => QuietAt(ph, m, apps, draft)
    <3>1. m.op = l.op /\ m.snap = l.snap /\ m.config = l.config /\ m.confirm = l.confirm
      BY <1>0, <2>3 DEF LocalState
    <3>2. ReviewedSnap(l) => ReviewedSnap(m)
      BY <3>1 DEF ReviewedSnap
    <3> QED BY <1>0, <2>1, <3>1, <3>2 DEF QuietAt, Reviewed, Generated, Publishing
  <2> QED BY <1>1, <2>1, <2>2, <2>3
<1>13. CASE CreateRecord(p) \/ RequestFails(p)
  BY <1>2, <1>13 DEF CreateRecord, RequestFails, store
<1>14. CASE SaveValidatedDraft(p)
  <2>1. /\ Goto(p, "idle", Blank)
        /\ disturbed' = (disturbed \cup Reading) \ {p}
    BY <1>14 DEF SaveValidatedDraft
  <2> QED BY <2>1, GotoValues, QuietEdit
<1> QED BY <1>3, <1>4, <1>5, <1>6, <1>7, <1>8, <1>9, <1>10, <1>11, <1>12, <1>13, <1>14
    DEF Request, Release, ReadinessApplications, ReviewApplications, ValidateApplications,
        ArtifactsApplications, ReviewDraft, ArtifactsDraft, RereadDraft

LEMMA QuietStep == TypeOK /\ QuietInv /\ [Next]_vars => QuietInv'
<1> SUFFICES ASSUME TypeOK, QuietInv, [Next]_vars PROVE QuietInv'
  OBVIOUS
<1>1. CASE Environment
  <2>1. CASE Crash
    BY <2>1, BlankIsQuiet DEF Crash, QuietInv
  <2>2. CASE Edit
    <3>1. pc' = pc /\ loc' = loc /\ disturbed' = disturbed \cup Reading
      BY <2>2 DEF Edit
    <3> PICK none : none \notin Handlers
      BY NoSetContainsEverything
    <3> QED BY <3>1, QuietEdit
  <2> QED BY <1>1, <2>1, <2>2 DEF Environment, SaveApplications, SaveCertificate,
                                  DeleteCertificate, UpdateNginxConfigDraft
<1>2. CASE UNCHANGED vars
  BY <1>2 DEF vars, store, QuietInv
<1> QED BY <1>1, <1>2, HandlerQuietStep DEF Next

LEMMA QuietInit == Init => QuietInv
BY BlankIsQuiet DEF Init, QuietInv

\* A release that no edit overtook publishes what was reviewed: gateway.json and the
\* listeners are of the same applications, these pass the readiness rules, and advanced
\* changes are among the files only if the operator confirmed them.
THEOREM QuietReleasesAreReviewed == Spec => []QuietReleaseIsReviewed
<1>1. QuietInv => QuietReleaseIsReviewed
  BY DEF QuietInv, QuietAt, QuietReleaseIsReviewed, QuietlyPublishing, Publishing, ReviewedSnap
<1> QED BY <1>1, TypeInit, TypeStep, QuietInit, QuietStep, PTL DEF Spec

(***************************************************************************)
(* One request at a time.  While it writes, each file of its snapshot is   *)
(* still to be written or on disk; a rollback of an old record writes one  *)
(* that it has built and does not keep.                                    *)
(***************************************************************************)
OneHandler == \A p, q \in Handlers : p = q

Written(snap, todo) ==
  \A file \in FilesOf(snap) : file \in FilesOf(todo) \/ files[file.path] = file.content
Writes(snap, l) == /\ Restorable(snap)
                   /\ l.snap # <<>> => l.snap = snap
                   /\ l.snap = <<>> => AppsOf(snap) = l.config.apps
                   /\ Written(snap, l.todo)
                   /\ FilesOf(l.todo) \subseteq FilesOf(snap)
HasConfig == {"artifacts", "artifactsDraft", "artifactsCerts", "restore"} \cup Publishing
DirectoryAt(ph, l) ==
  /\ ph \in HasConfig => gatewayJson = l.config
  /\ ph \in Publishing => \E snap \in Snapshots : Writes(snap, l)
  /\ ph \in {"reload", "record"} => l.todo = <<>>
  /\ ph = "record" /\ l.reload = "reloaded" => loaded = files[Listeners]
DirectoryInv == \A p \in Handlers : DirectoryAt(pc[p], loc[p])

LEMMA DirectoryMove ==
  ASSUME OneHandler, TypeOK, NEW p \in Handlers, NEW ph, NEW l, Goto(p, ph, l), DirectoryAt(ph, l)'
  PROVE  DirectoryInv'
BY GotoValues DEF DirectoryInv, OneHandler, DirectoryAt, Writes, Written

LEMMA DirectoryStays ==
  ASSUME UNCHANGED <<directory, loaded>>, NEW ph, NEW l, DirectoryAt(ph, l)
  PROVE  DirectoryAt(ph, l)'
BY DEF DirectoryAt, Writes, Written, directory

\* The phases before the first write say nothing of the directory.
LEMMA OutOfDirectory ==
  ASSUME NEW ph, ph \notin HasConfig, NEW l
  PROVE  DirectoryAt(ph, l) /\ DirectoryAt(ph, l)'
BY DEF DirectoryAt, HasConfig, Publishing

\* A handler begins to write a snapshot as a whole.
LEMMA BeginsToWrite ==
  ASSUME NEW snap \in Snapshots, Restorable(snap), NEW l, l.todo = snap,
         l.snap # <<>> => l.snap = snap, l.snap = <<>> => AppsOf(snap) = l.config.apps,
         gatewayJson' = l.config
  PROVE  DirectoryAt("writeFiles", l)'
BY DEF DirectoryAt, Writes, Written, HasConfig, Publishing

\* Each file that is written leaves those before it as they are.
LEMMA OneMoreWritten ==
  ASSUME TypeOK, NEW l \in LocalState, NEW snap \in Snapshots, Writes(snap, l), l.todo # <<>>,
         files' = [files EXCEPT ![Head(l.todo).path] = Head(l.todo).content]
  PROVE  Writes(snap, [l EXCEPT !.todo = Tail(l.todo)])'
<1> DEFINE h == Head(l.todo)
<1> PICK m : m = [l EXCEPT !.todo = Tail(l.todo)]
  OBVIOUS
<1>1. l.todo \in Seq(File) /\ m.todo = Tail(l.todo) /\ m.snap = l.snap /\ m.config = l.config
  BY DEF LocalState, Snapshots
<1>2. h \in File /\ FilesOf(l.todo) = {h} \cup FilesOf(m.todo)
  <2>1. /\ h \in File /\ h = l.todo[1] /\ Len(l.todo) \in Nat \ {0}
        /\ DOMAIN l.todo = 1..Len(l.todo) /\ DOMAIN m.todo = 1..(Len(l.todo) - 1)
        /\ \A i \in 1..(Len(l.todo) - 1) : m.todo[i] = l.todo[i + 1]
    BY <1>1, HeadTailProperties, LenProperties, EmptySeq
  <2>2. ASSUME NEW i \in DOMAIN l.todo, i # 1
        PROVE  i - 1 \in DOMAIN m.todo /\ m.todo[i - 1] = l.todo[i]
    BY <2>1, <2>2
  <2>3. ASSUME NEW i \in DOMAIN l.todo
        PROVE  l.todo[i] \in {h} \cup FilesOf(m.todo)
    BY <2>1, <2>2 DEF FilesOf
  <2>4. ASSUME NEW i \in DOMAIN m.todo
        PROVE  m.todo[i] \in FilesOf(l.todo)
    <3>1. i + 1 \in DOMAIN l.todo /\ m.todo[i] = l.todo[i + 1]
      BY <2>1, <2>4
    <3> QED BY <3>1 DEF FilesOf
  <2>5. h \in FilesOf(l.todo)
    BY <2>1 DEF FilesOf
  <2>6. FilesOf(l.todo) \subseteq {h} \cup FilesOf(m.todo)
    BY <2>3 DEF FilesOf
  <2>7. FilesOf(m.todo) \subseteq FilesOf(l.todo)
    BY <2>4 DEF FilesOf
  <2> HIDE DEF h
  <2> QED BY <2>1, <2>5, <2>6, <2>7
<1>3. Written(snap, m.todo)'
  <2> SUFFICES ASSUME NEW file \in FilesOf(snap), file \notin FilesOf(m.todo)
               PROVE  files'[file.path] = file.content
    BY DEF Written
  <2>1. h \in FilesOf(snap) /\ h.path \in Paths
    BY <1>2 DEF Writes, File
  <2>2. CASE file.path = h.path
    <3>1. file = h
      BY <2>1, <2>2 DEF Writes, Restorable, OneFilePerPath
    <3> QED BY <2>1, <3>1 DEF TypeOK
  <2>3. CASE file.path # h.path
    <3>1. files[file.path] = file.content
      BY <1>2, <2>3 DEF Writes, Written
    <3>2. file.path \in Paths
      <4>1. file \in File
        BY LenProperties, ElementOfSeq DEF FilesOf, Snapshots
      <4> QED BY <4>1 DEF File
    <3> QED BY <2>3, <3>1, <3>2 DEF TypeOK
  <2> QED BY <2>2, <2>3
<1>4. FilesOf(m.todo) \subseteq FilesOf(snap)
  BY <1>2 DEF Writes
<1> QED BY <1>1, <1>3, <1>4 DEF Writes

LEMMA HandlerDirectoryStep ==
  ASSUME OneHandler, TypeOK, RestorableInv, DirectoryInv, NEW p \in Handlers,
         Request(p) \/ Release(p) \/ RequestFails(p)
  PROVE  DirectoryInv'
<1> DEFINE l == loc[p]
<1>0. l \in LocalState /\ DirectoryAt(pc[p], l) /\ RestorableOrNone(l.snap) /\ l.snap \in Snapshots
  BY ReadType DEF DirectoryInv, RestorableInv, LocalState
<1>1. ASSUME NEW ph, NEW m, Goto(p, ph, m), ph \notin HasConfig
      PROVE  DirectoryInv'
  BY <1>1, DirectoryMove, OutOfDirectory
<1>2. ASSUME Finish(p)
      PROVE  DirectoryInv'
  BY <1>1, <1>2 DEF Finish, HasConfig, Publishing
<1>3. CASE StartRelease(p) \/ StartValidation(p) \/ StartRollback(p)
  <2>1. \E m : Goto(p, "readiness", m) \/ Goto(p, "review", m) \/ Goto(p, "rollbackConfig", m)
    BY <1>3 DEF StartRelease, StartValidation, StartRollback, StartRequest
  <2> QED BY <1>1, <2>1 DEF HasConfig, Publishing
<1>4. CASE \/ ReadinessApplications(p) \/ ReviewApplications(p) \/ ValidateApplications(p)
           \/ ReviewDraft(p) \/ RereadDraft(p) \/ ReadinessVerdict(p) \/ ValidateVerdict(p)
           \/ ReviewVerdict(p) \/ Generate(p) \/ SaveValidatedDraft(p)
  <2>1. \/ Finish(p)
        \/ \E ph \in {"readinessCerts", "reviewDraft", "validateCerts", "reviewCerts", "saveDraft",
                      "review", "generate", "validate", "reread", "writeConfig", "idle"} :
             \E m : Goto(p, ph, m)
    BY <1>4 DEF ReadinessApplications, ReviewApplications, ValidateApplications, ReviewDraft,
       RereadDraft, ReadinessVerdict, ValidateVerdict, ReviewVerdict, Generate,
       SaveValidatedDraft, ReadApplications, ReadDraft, CheckReadiness, Local, Refuse
  <2> QED BY <1>1, <1>2, <2>1 DEF HasConfig, Publishing
<1>5. CASE WriteGeneratedConfig(p) \/ WriteRecordedConfig(p)
  <2>1. PICK ph, m :
          ph \in {"artifacts", "restore"} /\ Goto(p, ph, m) /\ gatewayJson' = m.config
    BY <1>5 DEF WriteGeneratedConfig, WriteRecordedConfig, WriteConfig
  <2>2. DirectoryAt(ph, m)'
    BY <2>1 DEF DirectoryAt, HasConfig, Publishing
  <2> QED BY <2>1, <2>2, DirectoryMove
<1>6. CASE ArtifactsApplications(p) \/ ArtifactsDraft(p)
  <2>1. PICK ph, m :
          /\ ph \in {"artifactsDraft", "artifactsCerts"}
          /\ Goto(p, ph, m) /\ gatewayJson' = gatewayJson /\ pc[p] \in {"artifacts", "artifactsDraft"}
          /\ m = [l EXCEPT !.apps = apps] \/ m = [l EXCEPT !.draft = draft]
    BY <1>6 DEF ArtifactsApplications, ArtifactsDraft, ReadApplications, ReadDraft, Local, directory
  <2>2. m.config = l.config
    BY <1>0, <2>1 DEF LocalState
  <2>3. DirectoryAt(ph, m)'
    BY <1>0, <2>1, <2>2 DEF DirectoryAt, HasConfig, Publishing
  <2> QED BY <2>1, <2>3, DirectoryMove
<1>7. CASE ArtifactsVerdict(p)
  <2>1. \/ Finish(p)
        \/ \E snap \in BuildSnapshots(l.apps, certs, l.draft) :
             /\ pc[p] = "artifactsCerts" /\ gatewayJson' = gatewayJson
             /\ ~MissingCertificate(l.apps, certs)
             /\ Goto(p, "writeFiles", [l EXCEPT !.snap = snap, !.todo = snap])
    BY <1>7 DEF ArtifactsVerdict, Refuse, directory
  <2>2. ASSUME NEW snap \in BuildSnapshots(l.apps, certs, l.draft), pc[p] = "artifactsCerts",
               gatewayJson' = gatewayJson, ~MissingCertificate(l.apps, certs),
               Goto(p, "writeFiles", [l EXCEPT !.snap = snap, !.todo = snap])
        PROVE  DirectoryInv'
    <3> PICK m : m = [l EXCEPT !.snap = snap, !.todo = snap]
      OBVIOUS
    <3>1. m.snap = snap /\ m.todo = snap /\ m.config = l.config
      BY <1>0 DEF LocalState
    <3>2. Restorable(snap) /\ snap \in Snapshots
      BY <2>2, BuiltByHandler, ReviewedSnapshot
    <3>3. gatewayJson' = m.config /\ m.snap # <<>>
      BY <1>0, <2>2, <3>1, <3>2 DEF DirectoryAt, HasConfig, Restorable
    <3>4. DirectoryAt("writeFiles", m)'
      BY <3>1, <3>2, <3>3, BeginsToWrite
    <3> QED BY <2>2, <3>4, DirectoryMove
  <2> QED BY <1>2, <2>1, <2>2
<1>8. CASE RestoreArtifacts(p)
  <2>1. \/ Finish(p)
        \/ \E snap :
             /\ pc[p] = "restore" /\ gatewayJson' = gatewayJson
             /\ \/ l.snap # <<>> /\ snap = l.snap
                \/ /\ l.snap = <<>> /\ ~MissingCertificate(l.config.apps, certs)
                   /\ snap \in BuildSnapshots(l.config.apps, certs, EmptyDraft)
             /\ Goto(p, "writeFiles", [l EXCEPT !.todo = snap])
    BY <1>8 DEF RestoreArtifacts, Local, Refuse, directory
  <2>2. ASSUME NEW snap, pc[p] = "restore", gatewayJson' = gatewayJson,
               \/ l.snap # <<>> /\ snap = l.snap
               \/ /\ l.snap = <<>> /\ ~MissingCertificate(l.config.apps, certs)
                  /\ snap \in BuildSnapshots(l.config.apps, certs, EmptyDraft),
               Goto(p, "writeFiles", [l EXCEPT !.todo = snap])
        PROVE  DirectoryInv'
    <3> PICK m : m = [l EXCEPT !.todo = snap]
      OBVIOUS
    <3>1. m.snap = l.snap /\ m.todo = snap /\ m.config = l.config
      BY <1>0 DEF LocalState
    <3>2. Restorable(snap) /\ snap \in Snapshots
      BY <1>0, <2>2, BuiltByHandler, RebuiltSnapshot DEF RestorableOrNone
    <3>3. /\ gatewayJson' = m.config
          /\ m.snap # <<>> => m.snap = snap
          /\ m.snap = <<>> => AppsOf(snap) = m.config.apps
      BY <1>0, <2>2, <3>1, BuiltByHandler DEF DirectoryAt, HasConfig
    <3>4. DirectoryAt("writeFiles", m)'
      BY <3>1, <3>2, <3>3, BeginsToWrite
    <3> QED BY <2>2, <3>4, DirectoryMove
  <2> QED BY <1>2, <2>1, <2>2
<1>9. CASE WriteFile(p)
  <2> PICK m, ph : /\ m = [l EXCEPT !.todo = Tail(l.todo)]
                   /\ ph = IF Len(l.todo) = 1 THEN "reload" ELSE "writeFiles"
    OBVIOUS
  <2>1. /\ pc[p] = "writeFiles" /\ l.todo # <<>> /\ gatewayJson' = gatewayJson
        /\ files' = [files EXCEPT ![Head(l.todo).path] = Head(l.todo).content]
        /\ Goto(p, ph, m)
    BY <1>9 DEF WriteFile, Remaining
  <2>2. m.todo = Tail(l.todo) /\ m.config = l.config
    BY <1>0 DEF LocalState
  <2>3. ph = "reload" => m.todo = <<>>
    <3>1. l.todo \in Seq(File)
      BY <1>0 DEF LocalState, Snapshots
    <3>2. Tail(l.todo) \in Seq(File) /\ Len(Tail(l.todo)) = Len(l.todo) - 1
      BY <2>1, <3>1, HeadTailProperties
    <3>3. Len(l.todo) = 1 => Len(Tail(l.todo)) = 0
      BY <3>2
    <3> QED BY <2>2, <3>2, <3>3, EmptySeq
  <2>4. PICK snap \in Snapshots : Writes(snap, l)
    BY <1>0, <2>1 DEF DirectoryAt, Publishing
  <2>5. Writes(snap, m)'
    BY <1>0, <2>1, <2>4, OneMoreWritten
  <2>6. DirectoryAt(ph, m)'
    BY <1>0, <2>1, <2>2, <2>3, <2>5 DEF DirectoryAt, HasConfig, Publishing
  <2> QED BY <2>1, <2>6, DirectoryMove
<1>10. CASE ReloadGateway(p)
  <2>1. PICK status :
          /\ pc[p] = "reload" /\ Goto(p, "record", [l EXCEPT !.reload = status])
          /\ loaded' = IF status = "reloaded" THEN files[Listeners] ELSE loaded
          /\ UNCHANGED <<gatewayJson, files>>
    BY <1>10 DEF ReloadGateway, directory
  <2> PICK m : m = [l EXCEPT !.reload = status]
    OBVIOUS
  <2>2. m.snap = l.snap /\ m.todo = l.todo /\ m.config = l.config /\ m.reload = status
    BY <1>0 DEF LocalState
  <2>3. PICK snap \in Snapshots : Writes(snap, l)
    BY <1>0, <2>1 DEF DirectoryAt, Publishing
  <2>4. Writes(snap, m)'
    BY <2>1, <2>2, <2>3 DEF Writes, Written
  <2>5. gatewayJson' = m.config /\ m.todo = <<>>
    BY <1>0, <2>1, <2>2 DEF DirectoryAt, HasConfig, Publishing
  <2>6. DirectoryAt("record", m)'
    BY <2>1, <2>2, <2>4, <2>5 DEF DirectoryAt
  <2> QED BY <2>1, <2>6, DirectoryMove
<1>11. CASE CreateRecord(p) \/ RequestFails(p)
  BY <1>2, <1>11 DEF CreateRecord, RequestFails
<1> QED BY <1>3, <1>4, <1>5, <1>6, <1>7, <1>8, <1>9, <1>10, <1>11 DEF Request, Release

LEMMA DirectoryStep ==
  ASSUME OneHandler, TypeOK, RestorableInv, DirectoryInv, [Next]_vars
  PROVE  DirectoryInv'
<1>1. CASE Environment
  <2>1. UNCHANGED <<directory, loaded>>
    BY <1>1 DEF Environment, SaveApplications, SaveCertificate, DeleteCertificate,
                UpdateNginxConfigDraft, Edit, Crash
  <2>2. ASSUME NEW p \in Handlers, NEW ph, NEW l, pc'[p] = ph, loc'[p] = l
        PROVE  DirectoryAt(ph, l)'
    <3>1. CASE ph = "idle"
      BY <3>1, OutOfDirectory DEF HasConfig, Publishing
    <3>2. CASE pc[p] = ph /\ loc[p] = l
      <4>1. DirectoryAt(ph, l)
        BY <3>2 DEF DirectoryInv
      <4> QED BY <2>1, <4>1, DirectoryStays
    <3> QED BY <1>1, <2>2, <3>1, <3>2, EnvironmentLeavesRequests
  <2> QED BY <2>2 DEF DirectoryInv, DirectoryAt, Writes, Written
<1>2. CASE UNCHANGED vars
  BY <1>2 DEF vars, directory, DirectoryInv, DirectoryAt, Writes, Written
<1> QED BY <1>1, <1>2, HandlerDirectoryStep DEF Next

\* With one handler, the gateway is asked to reload a directory that it can load and that
\* holds every file the request publishes (others may be there from before), after whatever
\* edits, failures and crashes; and what it has loaded is what the record is going to call
\* reloaded.
THEOREM ReloadsSeeThePublication == OneHandler => (Spec => []ReloadSeesThePublication)
<1> SUFFICES ASSUME OneHandler PROVE Spec => []ReloadSeesThePublication
  OBVIOUS
<1>1. Init => DirectoryInv
  BY DEF Init, DirectoryInv, DirectoryAt, HasConfig, Publishing
<1>2. TypeOK /\ DirectoryInv => ReloadSeesThePublication
  <2> SUFFICES ASSUME TypeOK, DirectoryInv, NEW p \in Handlers, pc[p] \in {"reload", "record"}
               PROVE  LET l == loc[p] IN
                      /\ gatewayJson = l.config
                      /\ \A file \in FilesOf(l.snap) : files[file.path] = file.content
                      /\ l.snap = <<>> => files[Listeners].apps = l.config.apps
                      /\ Loadable
                      /\ pc[p] = "record" /\ l.reload = "reloaded" => loaded = files[Listeners]
    BY DEF ReloadSeesThePublication
  <2> DEFINE l == loc[p]
  <2>1. /\ gatewayJson = l.config /\ l.todo = <<>>
        /\ pc[p] = "record" /\ l.reload = "reloaded" => loaded = files[Listeners]
    BY DEF DirectoryInv, DirectoryAt, HasConfig, Publishing
  <2>2. PICK snap \in Snapshots : Writes(snap, l)
    BY DEF DirectoryInv, DirectoryAt, Publishing
  <2>3. \A file \in FilesOf(snap) : files[file.path] = file.content
    BY <2>1, <2>2 DEF Writes, Written, FilesOf
  <2>4. \A file \in FilesOf(l.snap) : files[file.path] = file.content
    BY <2>2, <2>3 DEF Writes, FilesOf
  <2>5. files[Listeners] # Absent /\ files[Listeners].apps = AppsOf(snap)
    <3>1. files[Listeners] = snap[1].content /\ snap[1].content \in ListenerText
      BY <2>2, <2>3 DEF Writes, Restorable
    <3> QED BY <3>1, DistinctValues DEF AppsOf
  <2>6. Loadable
    <3>3. ASSUME NEW c \in Uses[AppsOf(snap)]
          PROVE  files[Crt(c)] # Absent /\ files[Crt(c)] = files[Key(c)]
      <4>1. PICK pem \in Pems : /\ [path |-> Crt(c), content |-> pem] \in FilesOf(snap)
                                /\ [path |-> Key(c), content |-> pem] \in FilesOf(snap)
        BY <2>2 DEF Writes, Restorable, SelfContained
      <4>2. files[Crt(c)] = pem /\ files[Key(c)] = pem
        BY <2>3, <4>1
      <4> QED BY <4>2, DistinctValues
    <3> QED BY <2>5, <3>3 DEF Loadable
  <2>7. l.snap = <<>> => files[Listeners].apps = l.config.apps
    BY <2>2, <2>5 DEF Writes
  <2> QED BY <2>1, <2>4, <2>6, <2>7
<1>3. TypeOK /\ RestorableInv /\ DirectoryInv /\ [Next]_vars => DirectoryInv'
  BY DirectoryStep
<1> QED BY <1>1, <1>2, <1>3, TypeInit, TypeStep, RestorableInit, RestorableStep, PTL DEF Spec
=============================================================================
