--------------------------- MODULE ReleaseProofs ---------------------------
(***************************************************************************)
(* What the release pipeline guarantees for any number of handlers,        *)
(* applications, certificates, drafts and faults.                          *)
(***************************************************************************)
EXTENDS Release, FiniteSetTheorems, SequenceTheorems, TLAPS

-----------------------------------------------------------------------------
(***************************************************************************)
(* Snapshots.                                                              *)
(***************************************************************************)

\* The files of a concatenation are those of its parts, those of the first part first.
LEMMA FilesOfConcat ==
  ASSUME NEW S, NEW s \in Seq(S), NEW t \in Seq(S)
  PROVE  /\ s \o t \in Seq(S)
         /\ FilesOf(s \o t) = FilesOf(s) \cup FilesOf(t)
         /\ s # <<>> => s \o t # <<>> /\ (s \o t)[1] = s[1]
<1>1. /\ s \o t \in Seq(S) /\ DOMAIN (s \o t) = 1..(Len(s) + Len(t))
      /\ Len(s) \in Nat /\ Len(t) \in Nat /\ DOMAIN s = 1..Len(s) /\ DOMAIN t = 1..Len(t)
      /\ \A i \in 1..(Len(s) + Len(t)) :
           (s \o t)[i] = IF i <= Len(s) THEN s[i] ELSE t[i - Len(s)]
  BY ConcatProperties, LenProperties
<1>2. ASSUME NEW i \in DOMAIN (s \o t)
      PROVE  (s \o t)[i] \in FilesOf(s) \cup FilesOf(t)
  <2>1. CASE i <= Len(s)
    BY <1>1, <1>2, <2>1 DEF FilesOf
  <2>2. CASE ~(i <= Len(s))
    <3>1. i - Len(s) \in DOMAIN t /\ (s \o t)[i] = t[i - Len(s)]
      BY <1>1, <1>2, <2>2
    <3> QED BY <3>1 DEF FilesOf
  <2> QED BY <2>1, <2>2
<1>3. ASSUME NEW i \in DOMAIN s
      PROVE  s[i] \in FilesOf(s \o t)
  <2>1. i \in DOMAIN (s \o t) /\ (s \o t)[i] = s[i]
    BY <1>1, <1>3
  <2> QED BY <2>1 DEF FilesOf
<1>4. ASSUME NEW i \in DOMAIN t
      PROVE  t[i] \in FilesOf(s \o t)
  <2>1. i + Len(s) \in DOMAIN (s \o t) /\ (s \o t)[i + Len(s)] = t[i]
    BY <1>1, <1>4
  <2> QED BY <2>1 DEF FilesOf
<1>5. ASSUME s # <<>>
      PROVE  s \o t # <<>> /\ (s \o t)[1] = s[1]
  <2>1. Len(s) > 0
    BY <1>5, EmptySeq
  <2> QED BY <1>1, <1>5, <2>1, ConcatEqualIffEmpty
<1> QED BY <1>1, <1>2, <1>3, <1>4, <1>5 DEF FilesOf

KeyPairs(S, cs) == {[path |-> Crt(c), content |-> cs[c]] : c \in S}
                   \cup {[path |-> Key(c), content |-> cs[c]] : c \in S}
SnippetFiles(d) == {[path |-> Snippet(pt), content |-> SnippetsByPoint(d)[pt]] :
                      pt \in {q \in Points : SnippetsByPoint(d)[q] # Absent}}
Overrides(d) == IF FullOverride(d) THEN {[path |-> NginxConf, content |-> d.full]} ELSE {}

\* The certificate files come as a sequence: both halves of each key pair.
LEMMA CertificateFilesAre ==
  ASSUME NEW S \in SUBSET Certs, NEW cs \in [Certs -> Pems \cup {Absent}],
         \A c \in S : cs[c] # Absent,
         NEW o \in CertificateOrders(S)
  PROVE  /\ CertificateFiles(o, cs) \in Seq(File)
         /\ FilesOf(CertificateFiles(o, cs)) = KeyPairs(S, cs)
<1> DEFINE n == Cardinality(S)
           N == 2 * n
           F == CertificateFiles(o, cs)
           Crts == {[path |-> Crt(c), content |-> cs[c]] : c \in S}
           Keys == {[path |-> Key(c), content |-> cs[c]] : c \in S}
<1>1. n \in Nat
  BY FS_Subset, FS_CardinalityType, ReleaseAssumption
<1>2. o \in [1..n -> S] /\ Len(o) = n
  <2>1. o \in [1..n -> S]  BY DEF CertificateOrders
  <2>2. o \in Seq(S)  BY <1>1, <2>1
  <2> QED BY <1>1, <2>1, <2>2, LenProperties
<1>3. F = [i \in 1..N |-> LET c == o[(i + 1) \div 2]
                          IN  [path |-> IF i % 2 = 1 THEN Crt(c) ELSE Key(c), content |-> cs[c]]]
  BY <1>2 DEF CertificateFiles
<1> HIDE DEF F
<1>4. ASSUME NEW i \in 1..N
      PROVE  F[i] \in File /\ F[i] \in Crts \cup Keys
  <2> DEFINE c == o[(i + 1) \div 2]
  <2>1. (i + 1) \div 2 \in 1..n
    BY <1>1
  <2>2. c \in S /\ c \in Certs /\ cs[c] \in Pems
    BY <1>2, <2>1
  <2>3. F[i] = [path |-> IF i % 2 = 1 THEN Crt(c) ELSE Key(c), content |-> cs[c]]
    BY <1>3
  <2>4. F[i] \in Crts \cup Keys
    BY <2>2, <2>3
  <2>5. F[i].path \in {Crt(c), Key(c)} /\ F[i].content \in Pems
    BY <2>2, <2>3
  <2>6. F[i] \in File
    BY <2>2, <2>3, <2>5 DEF File, Paths, FileContent
  <2> QED BY <2>4, <2>6
<1>5. ASSUME NEW c \in S
      PROVE  \E i, j \in 1..N : /\ F[i] = [path |-> Crt(c), content |-> cs[c]]
                                /\ F[j] = [path |-> Key(c), content |-> cs[c]]
  <2>1. PICK k \in 1..n : o[k] = c
    BY <1>2 DEF CertificateOrders
  <2>2. /\ 2 * k - 1 \in 1..N /\ (2 * k - 1) % 2 = 1 /\ ((2 * k - 1) + 1) \div 2 = k
        /\ 2 * k \in 1..N /\ (2 * k) % 2 = 0 /\ (2 * k + 1) \div 2 = k
    BY <1>1, <2>1
  <2>3. F[2 * k - 1] = [path |-> Crt(c), content |-> cs[c]]
    BY <1>3, <2>1, <2>2
  <2>4. F[2 * k] = [path |-> Key(c), content |-> cs[c]]
    BY <1>3, <2>1, <2>2
  <2> QED BY <2>2, <2>3, <2>4
<1>6. N \in Nat /\ F = [i \in 1..N |-> F[i]] /\ DOMAIN F = 1..N
  BY <1>1, <1>3
<1>7. F \in Seq(File)
  BY <1>4, <1>6
<1>8. FilesOf(F) = Crts \cup Keys
  <2>1. FilesOf(F) = {F[i] : i \in 1..N}
    BY <1>6 DEF FilesOf
  <2>2. FilesOf(F) \subseteq Crts \cup Keys
    BY <1>4, <2>1
  <2>3. ASSUME NEW c \in S
        PROVE  /\ [path |-> Crt(c), content |-> cs[c]] \in FilesOf(F)
               /\ [path |-> Key(c), content |-> cs[c]] \in FilesOf(F)
    BY <1>5, <2>1
  <2> QED BY <2>2, <2>3
<1> QED BY <1>7, <1>8 DEF KeyPairs, F

\* A snapshot starts with the listeners and holds nothing but what the draft and the
\* certificates that the listeners name put in it.
LEMMA FilesOfSnapshot ==
  ASSUME NEW a \in AppConfigs, NEW cs \in [Certs -> Pems \cup {Absent}],
         NEW d \in Draft, ~MissingCertificate(a, cs),
         NEW snap \in BuildSnapshots(a, cs, d)
  PROVE  /\ snap \in Snapshots /\ snap # <<>> /\ snap[1] = ListenerFile(a, d)
         /\ FilesOf(snap) = {ListenerFile(a, d)} \cup SnippetFiles(d)
                              \cup KeyPairs(Uses[a], cs) \cup Overrides(d)
<1> DEFINE L == <<ListenerFile(a, d)>>
           P(pt) == SnippetFile(d, pt)
           N == NginxFile(d)
<1> PICK o \in CertificateOrders(Uses[a]) :
      snap = L \o P("http") \o P("server") \o P("location")
               \o CertificateFiles(o, cs) \o N
  BY DEF BuildSnapshots
<1> DEFINE C == CertificateFiles(o, cs)
<1>1. L \in Seq(File) /\ L # <<>> /\ L[1] = ListenerFile(a, d) /\ FilesOf(L) = {ListenerFile(a, d)}
  <2> DEFINE file == ListenerFile(a, d)
  <2>1. SnippetsByPoint(d) \in [Points -> Text]
    BY DEF SnippetsByPoint, Draft, NoSnippets, Text
  <2>2. file \in File
    BY <2>1 DEF ListenerFile, File, FileContent, ListenerText, Paths, NginxPaths
  <2>3. L = <<file>> /\ L # <<>> /\ L[1] = file /\ FilesOf(L) = {file}
    BY DEF FilesOf
  <2> HIDE DEF L, file
  <2> QED BY <2>2, <2>3 DEF file
<1> DEFINE One(pt) == {[path |-> Snippet(q), content |-> SnippetsByPoint(d)[q]] :
                         q \in {x \in {pt} : SnippetsByPoint(d)[x] # Absent}}
<1>2. ASSUME NEW pt \in Points
      PROVE  P(pt) \in Seq(File) /\ FilesOf(P(pt)) = One(pt)
  <2>1. CASE SnippetsByPoint(d)[pt] = Absent
    BY <2>1 DEF SnippetFile, FilesOf
  <2>2. CASE SnippetsByPoint(d)[pt] # Absent
    <3> DEFINE file == [path |-> Snippet(pt), content |-> SnippetsByPoint(d)[pt]]
    <3>1. SnippetsByPoint(d)[pt] \in Contents
      BY <2>2 DEF SnippetsByPoint, NoSnippets, Draft, Text
    <3>2. Snippet(pt) \in Paths
      BY DEF Paths, NginxPaths
    <3>3. file \in File
      BY <3>1, <3>2 DEF File, FileContent
    <3>4. P(pt) = <<file>> /\ One(pt) = {file}
      BY <2>2 DEF SnippetFile
    <3> HIDE DEF file, P, One
    <3> QED BY <3>3, <3>4 DEF FilesOf
  <2> QED BY <2>1, <2>2
<1>3. C \in Seq(File) /\ FilesOf(C) = KeyPairs(Uses[a], cs)
  <2>1. Uses[a] \in SUBSET Certs
    BY ReleaseAssumption
  <2>2. \A c \in Uses[a] : cs[c] # Absent
    BY DEF MissingCertificate
  <2> QED BY <2>1, <2>2, CertificateFilesAre
<1>4. N \in Seq(File) /\ FilesOf(N) = Overrides(d)
  <2>1. CASE ~FullOverride(d)
    BY <2>1 DEF NginxFile, FilesOf, Overrides
  <2>2. CASE FullOverride(d)
    <3> DEFINE file == [path |-> NginxConf, content |-> d.full]
    <3>1. d.full \in Contents
      BY <2>2 DEF FullOverride, Draft, Text
    <3>2. file \in File
      BY <3>1 DEF File, FileContent, Paths, NginxPaths
    <3>3. N = <<file>> /\ Overrides(d) = {file}
      BY <2>2 DEF NginxFile, Overrides
    <3> HIDE DEF file, N
    <3> QED BY <3>2, <3>3 DEF FilesOf
  <2> QED BY <2>1, <2>2
<1>5. /\ P("http") \in Seq(File) /\ FilesOf(P("http")) = One("http")
      /\ P("server") \in Seq(File) /\ FilesOf(P("server")) = One("server")
      /\ P("location") \in Seq(File) /\ FilesOf(P("location")) = One("location")
  BY <1>2 DEF Points
<1>6. One("http") \cup One("server") \cup One("location") = SnippetFiles(d)
  BY DEF SnippetFiles, Points
<1> DEFINE Begins(s) == s \in Seq(File) /\ s # <<>> /\ s[1] = ListenerFile(a, d)
<1>7. ASSUME NEW s, NEW t, Begins(s), t \in Seq(File)
      PROVE  Begins(s \o t) /\ FilesOf(s \o t) = FilesOf(s) \cup FilesOf(t)
  BY <1>7, FilesOfConcat
<1>8. Begins(L)
  BY <1>1
<1> HIDE DEF L, P, C, N, Begins, One
<1>9. /\ Begins(L \o P("http") \o P("server") \o P("location"))
      /\ FilesOf(L \o P("http") \o P("server") \o P("location"))
           = FilesOf(L) \cup One("http") \cup One("server") \cup One("location")
  BY <1>5, <1>7, <1>8
<1>10. Begins(snap) /\ FilesOf(snap) = FilesOf(L) \cup One("http") \cup One("server")
                         \cup One("location") \cup FilesOf(C) \cup FilesOf(N)
  BY <1>3, <1>4, <1>7, <1>9 DEF C
<1>11. FilesOf(snap) = {ListenerFile(a, d)} \cup SnippetFiles(d)
                         \cup KeyPairs(Uses[a], cs) \cup Overrides(d)
  BY <1>1, <1>3, <1>4, <1>6, <1>10
<1> QED BY <1>10, <1>11 DEF Begins, Snapshots

\* Only a draft with advanced changes puts advanced files in a snapshot.
LEMMA SnapshotType ==
  ASSUME NEW a \in AppConfigs, NEW cs \in [Certs -> Pems \cup {Absent}],
         NEW d \in Draft, ~MissingCertificate(a, cs),
         NEW snap \in BuildSnapshots(a, cs, d)
  PROVE  /\ snap \in Snapshots
         /\ snap # <<>>
         /\ \A f \in FilesOf(snap) : IsAdvanced(f) => HasAdvancedChanges(d)
<1>1. IsAdvanced(ListenerFile(a, d)) => HasAdvancedChanges(d)
  <2>1. IsAdvanced(ListenerFile(a, d)) => SnippetsByPoint(d) # NoSnippets
    BY DEF IsAdvanced, ListenerFile, Listeners, NginxConf, Snippet
  <2>2. SnippetsByPoint(d) \in [Points -> Text]
    BY DEF SnippetsByPoint, Draft, NoSnippets, Text
  <2>3. SnippetsByPoint(d) # NoSnippets => HasAdvancedChanges(d)
    BY <2>2 DEF SnippetsByPoint, NoSnippets, HasAdvancedChanges
  <2> QED BY <2>1, <2>3
<1>2. SnippetFiles(d) # {} => HasAdvancedChanges(d)
  BY DEF SnippetFiles, SnippetsByPoint, NoSnippets, HasAdvancedChanges
<1>3. \A f \in KeyPairs(Uses[a], cs) : ~IsAdvanced(f)
  BY DEF KeyPairs, IsAdvanced, Crt, Key, NginxConf, Snippet, Listeners
<1>4. Overrides(d) # {} => HasAdvancedChanges(d)
  BY DEF Overrides, FullOverride, HasAdvancedChanges
<1>5. \A f \in FilesOf(snap) : IsAdvanced(f) => HasAdvancedChanges(d)
  BY <1>1, <1>2, <1>3, <1>4, FilesOfSnapshot
<1> QED BY <1>5, FilesOfSnapshot

-----------------------------------------------------------------------------
(***************************************************************************)
(* Type correctness.                                                       *)
(***************************************************************************)

\* An idle handler's local state is well formed.
LEMMA BlankType == Blank \in LocalState /\ EmptyDraft \in Draft
<1>1. EmptyDraft \in Draft
  BY DEF EmptyDraft, Draft, NoSnippets, Text
<1>2. <<>> \in Versions /\ <<>> \in Snapshots
  BY DEF Versions, Snapshots
<1> QED
  BY <1>1, <1>2, ReleaseAssumption
     DEF Blank, LocalState, Config, Statuses, ReloadStatuses

\* A handler that goes on keeps the control state of all handlers well formed.
LEMMA GotoType ==
  ASSUME TypeOK, NEW p \in Handlers, NEW ph \in Phases, NEW l \in LocalState,
         Goto(p, ph, l)
  PROVE  pc' \in [Handlers -> Phases] /\ loc' \in [Handlers -> LocalState]
BY DEF TypeOK, Goto

LEMMA FinishType ==
  ASSUME TypeOK, NEW p \in Handlers, Finish(p)
  PROVE  /\ pc' \in [Handlers -> Phases] /\ loc' \in [Handlers -> LocalState]
         /\ disturbed' \subseteq Handlers
<1>1. "idle" \in Phases  BY DEF Phases
<1> QED BY <1>1, BlankType, GotoType DEF Finish, TypeOK

LEMMA LocalType ==
  ASSUME TypeOK, NEW p \in Handlers, NEW from, NEW to \in Phases,
         NEW l \in LocalState, Local(p, from, to, l)
  PROVE  TypeOK'
<1>1. pc' \in [Handlers -> Phases] /\ loc' \in [Handlers -> LocalState]
  BY GotoType DEF Local
<1> QED BY <1>1 DEF TypeOK, Local, store, directory

LEMMA RefuseType ==
  ASSUME TypeOK, NEW p \in Handlers, NEW from, Refuse(p, from)
  PROVE  TypeOK'
<1>1. /\ pc' \in [Handlers -> Phases] /\ loc' \in [Handlers -> LocalState]
      /\ disturbed' \subseteq Handlers
  BY FinishType DEF Refuse
<1> QED BY <1>1 DEF TypeOK, Refuse, store, directory

LEMMA SpendType ==
  ASSUME TypeOK, NEW what \in {"requests", "edits", "faults"}, Spend(what)
  PROVE  left' \in [{"requests", "edits", "faults"} -> Nat]
BY DEF TypeOK, Spend

LEMMA StartRequestType ==
  ASSUME TypeOK, NEW p \in Handlers, NEW ph \in Phases, NEW l \in LocalState,
         StartRequest(p, ph, l)
  PROVE  TypeOK'
<1>1. pc' \in [Handlers -> Phases] /\ loc' \in [Handlers -> LocalState]
  BY GotoType DEF StartRequest
<1>2. left' \in [{"requests", "edits", "faults"} -> Nat]
  BY SpendType DEF StartRequest
<1> QED BY <1>1, <1>2 DEF TypeOK, StartRequest, store, directory

LEMMA EditType ==
  ASSUME TypeOK, Edit
  PROVE  /\ left' \in [{"requests", "edits", "faults"} -> Nat]
         /\ disturbed' \subseteq Handlers
BY SpendType DEF TypeOK, Edit, Reading

\* Reading one list into the local state.
LEMMA ReadType ==
  ASSUME TypeOK, NEW p \in Handlers
  PROVE  /\ loc[p] \in LocalState
         /\ [loc[p] EXCEPT !.apps = apps] \in LocalState
         /\ [loc[p] EXCEPT !.draft = draft] \in LocalState
BY DEF TypeOK, LocalState

\* What a review accepts is a snapshot.
LEMMA ReviewedSnapshot ==
  ASSUME TypeOK, NEW p \in Handlers,
         ~MissingCertificate(loc[p].apps, certs),
         NEW snap \in BuildSnapshots(loc[p].apps, certs, loc[p].draft)
  PROVE  /\ snap \in Snapshots /\ snap # <<>>
         /\ \A f \in FilesOf(snap) : IsAdvanced(f) => HasAdvancedChanges(loc[p].draft)
<1>1. /\ loc[p].apps \in AppConfigs /\ loc[p].draft \in Draft
      /\ certs \in [Certs -> Pems \cup {Absent}]
  BY ReadType DEF TypeOK, LocalState
<1> QED BY <1>1, SnapshotType

\* What a rollback rebuilds for an old record is a snapshot without advanced files.
LEMMA RebuiltSnapshot ==
  ASSUME TypeOK, NEW p \in Handlers,
         ~MissingCertificate(loc[p].config.apps, certs),
         NEW snap \in BuildSnapshots(loc[p].config.apps, certs, EmptyDraft)
  PROVE  /\ snap \in Snapshots /\ snap # <<>>
         /\ \A f \in FilesOf(snap) : ~IsAdvanced(f)
<1>1. /\ loc[p].config.apps \in AppConfigs
      /\ certs \in [Certs -> Pems \cup {Absent}]
  BY ReadType DEF TypeOK, LocalState, Config
<1>2. ~HasAdvancedChanges(EmptyDraft)
  BY DEF HasAdvancedChanges, EmptyDraft, NoSnippets
<1> QED BY <1>1, <1>2, BlankType, SnapshotType

LEMMA VerdictType == \A d : Verdicts(d) \subseteq Statuses
BY DEF Verdicts, Statuses

\* One step of one handler.
LEMMA HandlerTypeStep ==
  ASSUME TypeOK, NEW p \in Handlers, Request(p) \/ Release(p) \/ RequestFails(p)
  PROVE  TypeOK'
<1> DEFINE l == loc[p]
<1>0. /\ l \in LocalState /\ records \in Seq(Record)
      /\ [l EXCEPT !.apps = apps] \in LocalState
      /\ [l EXCEPT !.draft = draft] \in LocalState
      /\ Blank \in LocalState
  BY ReadType, BlankType DEF TypeOK
<1>p. /\ {"readiness", "readinessCerts", "review", "reviewDraft", "reviewCerts",
          "validate", "validateCerts", "generate", "writeConfig", "artifacts",
          "artifactsDraft", "artifactsCerts", "reread", "saveDraft", "idle",
          "rollbackConfig", "restore", "writeFiles", "reload", "record"} = Phases
  BY DEF Phases, ReadPhases
<1>1. CASE StartRelease(p)
  <2>1. NextPublishVersion \in Versions
    BY <1>0 DEF NextPublishVersion, Versions
  <2>2. \A b \in BOOLEAN : [Blank EXCEPT !.op = "release", !.confirm = b,
                                 !.version = NextPublishVersion] \in LocalState
    BY <1>0, <2>1 DEF LocalState
  <2> QED BY <1>1, <1>p, <2>2, StartRequestType DEF StartRelease
<1>2. CASE StartValidation(p)
  <2>1. [Blank EXCEPT !.op = "validate"] \in LocalState
    BY <1>0 DEF LocalState
  <2> QED BY <1>2, <1>p, <2>1, StartRequestType DEF StartValidation
<1>3. CASE StartRollback(p)
  <2>1. PICK i \in DOMAIN records :
          StartRequest(p, "rollbackConfig", [Blank EXCEPT !.op = "rollback",
                             !.version = records[i].version,
                             !.config = records[i].config,
                             !.snap = records[i].artifacts])
    BY <1>3 DEF StartRollback
  <2>2. records[i] \in Record
    BY <1>0
  <2>3. [Blank EXCEPT !.op = "rollback", !.version = records[i].version,
                      !.config = records[i].config,
                      !.snap = records[i].artifacts] \in LocalState
    BY <1>0, <2>2 DEF LocalState, Record
  <2> QED BY <1>p, <2>1, <2>3, StartRequestType
<1>4. CASE \/ ReadinessApplications(p) \/ ReviewApplications(p) \/ ReviewDraft(p)
           \/ ValidateApplications(p) \/ ArtifactsApplications(p)
           \/ ArtifactsDraft(p) \/ RereadDraft(p)
  BY <1>4, <1>0, <1>p, LocalType
     DEF ReadinessApplications, ReviewApplications, ReviewDraft, RereadDraft,
         ValidateApplications, ArtifactsApplications, ArtifactsDraft,
         ReadApplications, ReadDraft
<1>5. CASE ReadinessVerdict(p) \/ ValidateVerdict(p)
  BY <1>5, <1>0, <1>p, LocalType, RefuseType
     DEF ReadinessVerdict, ValidateVerdict, CheckReadiness
<1>6. CASE ReviewVerdict(p)
  <2>1. CASE MissingCertificate(l.apps, certs)
    BY <1>6, <2>1, RefuseType DEF ReviewVerdict
  <2>2. CASE ~MissingCertificate(l.apps, certs)
    <3>1. PICK verdict \in Verdicts(l.draft),
               snap \in BuildSnapshots(l.apps, certs, l.draft) :
            /\ Vet(verdict, snap)
            /\ \/ Goto(p, "validate", l) /\ UNCHANGED disturbed
               \/ Finish(p)
               \/ /\ Goto(p, "reread", [l EXCEPT !.verdict = verdict])
                  /\ UNCHANGED disturbed
      BY <1>6, <2>2 DEF ReviewVerdict
    <3>2. vetted' \subseteq Snapshots
      BY <2>2, <3>1, ReviewedSnapshot DEF Vet, TypeOK
    <3>3. [l EXCEPT !.verdict = verdict] \in LocalState
      BY <1>0, VerdictType DEF LocalState
    <3>4. /\ pc' \in [Handlers -> Phases] /\ loc' \in [Handlers -> LocalState]
          /\ disturbed' \subseteq Handlers
      BY <1>0, <1>p, <3>1, <3>3, GotoType, FinishType DEF TypeOK
    <3>5. UNCHANGED <<backend, store, records, directory, loaded, now, left, everLive>>
      BY <1>6, <2>2 DEF ReviewVerdict
    <3> QED BY <3>2, <3>4, <3>5 DEF TypeOK, store, directory
  <2> QED BY <2>1, <2>2
<1>7. CASE Generate(p)
  <2>1. [l EXCEPT !.config = [version |-> l.version, apps |-> apps]] \in LocalState
    BY <1>0 DEF LocalState, Config, TypeOK
  <2> QED BY <1>7, <1>p, <2>1, LocalType DEF Generate
<1>8. CASE WriteGeneratedConfig(p) \/ WriteRecordedConfig(p)
  <2>1. PICK from, to \in Phases : WriteConfig(p, from, to)
    BY <1>8, <1>p DEF WriteGeneratedConfig, WriteRecordedConfig
  <2>2. pc' \in [Handlers -> Phases] /\ loc' \in [Handlers -> LocalState]
    BY <1>0, <2>1, GotoType DEF WriteConfig
  <2>3. l.config \in Config
    BY <1>0 DEF LocalState
  <2> QED BY <2>1, <2>2, <2>3 DEF TypeOK, WriteConfig, store
<1>9. CASE ArtifactsVerdict(p)
  <2>1. CASE MissingCertificate(l.apps, certs)
    BY <1>9, <2>1, RefuseType DEF ArtifactsVerdict
  <2>2. CASE ~MissingCertificate(l.apps, certs)
    <3>1. PICK verdict \in Verdicts(l.draft),
               snap \in BuildSnapshots(l.apps, certs, l.draft) :
            /\ Vet(verdict, snap)
            /\ \/ Finish(p)
               \/ /\ Goto(p, "writeFiles", [l EXCEPT !.snap = snap, !.todo = snap])
                  /\ UNCHANGED disturbed
      BY <1>9, <2>2 DEF ArtifactsVerdict
    <3>2. snap \in Snapshots
      BY <2>2, ReviewedSnapshot
    <3>3. vetted' \subseteq Snapshots
      BY <3>1, <3>2 DEF Vet, TypeOK
    <3>4. [l EXCEPT !.snap = snap, !.todo = snap] \in LocalState
      BY <1>0, <3>2 DEF LocalState
    <3>5. /\ pc' \in [Handlers -> Phases] /\ loc' \in [Handlers -> LocalState]
          /\ disturbed' \subseteq Handlers
      BY <1>p, <3>1, <3>4, GotoType, FinishType DEF TypeOK
    <3>6. UNCHANGED <<backend, store, records, directory, loaded, now, left, everLive>>
      BY <1>9, <2>2 DEF ArtifactsVerdict
    <3> QED BY <3>3, <3>5, <3>6 DEF TypeOK, store, directory
  <2> QED BY <2>1, <2>2
<1>10. CASE RestoreArtifacts(p)
  <2>1. CASE l.snap # <<>>
    <3>1. [l EXCEPT !.todo = l.snap] \in LocalState
      BY <1>0 DEF LocalState
    <3> QED BY <1>10, <1>p, <2>1, <3>1, LocalType DEF RestoreArtifacts
  <2>2. CASE l.snap = <<>> /\ MissingCertificate(l.config.apps, certs)
    BY <1>10, <2>2, RefuseType DEF RestoreArtifacts
  <2>3. CASE l.snap = <<>> /\ ~MissingCertificate(l.config.apps, certs)
    <3>1. PICK snap \in BuildSnapshots(l.config.apps, certs, EmptyDraft) :
            Local(p, "restore", "writeFiles", [l EXCEPT !.todo = snap])
      BY <1>10, <2>3 DEF RestoreArtifacts
    <3>2. snap \in Snapshots
      BY <2>3, RebuiltSnapshot
    <3>3. [l EXCEPT !.todo = snap] \in LocalState
      BY <1>0, <3>2 DEF LocalState
    <3> QED BY <1>p, <3>1, <3>3, LocalType
  <2> QED BY <2>1, <2>2, <2>3
<1>11. CASE WriteFile(p)
  <2>1. l.todo \in Seq(File) /\ l.todo # <<>>
    BY <1>0, <1>11 DEF LocalState, WriteFile, Snapshots
  <2>2. Head(l.todo) \in File /\ Tail(l.todo) \in Snapshots
    BY <2>1, HeadTailProperties DEF Snapshots
  <2>3. files' \in [Paths -> FileContent \cup {Absent}]
    BY <1>11, <2>2 DEF WriteFile, TypeOK, File
  <2>4. [l EXCEPT !.todo = Remaining(l.todo)] \in LocalState
    BY <1>0, <2>2 DEF LocalState, Remaining
  <2>5. pc' \in [Handlers -> Phases] /\ loc' \in [Handlers -> LocalState]
    BY <1>11, <1>p, <2>4, GotoType DEF WriteFile
  <2> QED BY <1>11, <2>3, <2>5 DEF TypeOK, WriteFile, store
<1>12. CASE ReloadGateway(p)
  <2>1. PICK status \in ReloadStatuses :
          /\ status = "reloaded" => Loadable
          /\ loaded' = IF status = "reloaded" THEN files[Listeners] ELSE loaded
          /\ Goto(p, "record", [l EXCEPT !.reload = status])
    BY <1>12 DEF ReloadGateway
  <2>2. [l EXCEPT !.reload = status] \in LocalState
    BY <1>0 DEF LocalState
  <2>3. pc' \in [Handlers -> Phases] /\ loc' \in [Handlers -> LocalState]
    BY <1>p, <2>1, <2>2, GotoType
  <2>4. loaded' \in FileContent \cup {Absent}
    BY <2>1 DEF TypeOK, Loadable, Paths, NginxPaths
  <2> QED BY <1>12, <2>3, <2>4 DEF TypeOK, ReloadGateway, store, directory
<1>13. CASE CreateRecord(p)
  <2> DEFINE v == RecordVersion(l, now')
             r == [version |-> v, config |-> l.config, artifacts |-> l.snap,
                   reload |-> l.reload]
  <2>1. now' \in Nat
    BY <1>13 DEF CreateRecord, TypeOK
  <2>2. v \in Versions
    BY <1>0, <2>1 DEF RecordVersion, Versions, LocalState
  <2>3. r \in Record
    BY <1>0, <2>2 DEF Record, LocalState
  <2>4. records' = Append(records, r) \/ records' = records
    BY <1>13 DEF CreateRecord, Extended
  <2>5. records' \in Seq(Record)
    BY <1>0, <2>3, <2>4
  <2>6. /\ pc' \in [Handlers -> Phases] /\ loc' \in [Handlers -> LocalState]
        /\ disturbed' \subseteq Handlers
    BY <1>13, FinishType DEF CreateRecord
  <2> QED BY <1>13, <2>1, <2>5, <2>6 DEF TypeOK, CreateRecord, store, directory
<1>14. CASE SaveValidatedDraft(p)
  <2>1. pc' \in [Handlers -> Phases] /\ loc' \in [Handlers -> LocalState]
    BY <1>0, <1>14, <1>p, GotoType DEF SaveValidatedDraft
  <2>2. draft' \in Draft /\ draftStatus' \in Statuses
    BY <1>0, <1>14 DEF SaveValidatedDraft, LocalState
  <2>3. disturbed' \subseteq Handlers
    BY <1>14 DEF SaveValidatedDraft, Reading, TypeOK
  <2> QED BY <1>14, <2>1, <2>2, <2>3 DEF TypeOK, SaveValidatedDraft, directory
<1>15. CASE RequestFails(p)
  <2>1. /\ pc' \in [Handlers -> Phases] /\ loc' \in [Handlers -> LocalState]
        /\ disturbed' \subseteq Handlers
    BY <1>15, FinishType DEF RequestFails
  <2>2. left' \in [{"requests", "edits", "faults"} -> Nat]
    BY <1>15, SpendType DEF RequestFails
  <2> QED BY <1>15, <2>1, <2>2 DEF TypeOK, RequestFails, store, directory
<1> QED BY <1>1, <1>2, <1>3, <1>4, <1>5, <1>6, <1>7, <1>8, <1>9, <1>10, <1>11,
           <1>12, <1>13, <1>14, <1>15 DEF Request, Release

LEMMA EnvironmentTypeStep ==
  ASSUME TypeOK, Environment
  PROVE  TypeOK'
<1>1. CASE \E a \in AppConfigs : SaveApplications(a)
  BY <1>1, EditType DEF TypeOK, SaveApplications, Edit, directory
<1>2. CASE \E c \in Certs, pem \in Pems : SaveCertificate(c, pem)
  BY <1>2, EditType DEF TypeOK, SaveCertificate, Edit, directory
<1>3. CASE \E c \in Certs : DeleteCertificate(c)
  BY <1>3, EditType DEF TypeOK, DeleteCertificate, Edit, directory
<1>4. CASE \E d \in Drafts, status \in ClientStatuses : UpdateNginxConfigDraft(d, status)
  <2>1. draft' \in Draft /\ draftStatus' \in Statuses
    BY <1>4, ReleaseAssumption DEF UpdateNginxConfigDraft, ClientStatuses, Statuses
  <2> QED BY <1>4, <2>1, EditType DEF TypeOK, UpdateNginxConfigDraft, Edit, directory
<1>5. CASE Crash
  <2>1. pc' \in [Handlers -> Phases] /\ loc' \in [Handlers -> LocalState]
    BY <1>5, BlankType DEF Crash, Phases
  <2>2. left' \in [{"requests", "edits", "faults"} -> Nat]
    BY <1>5, SpendType DEF Crash
  <2>3. /\ apps' \in AppConfigs /\ certs' \in [Certs -> Pems \cup {Absent}]
        /\ draft' \in Draft /\ draftStatus' \in Statuses /\ records' \in Seq(Record)
    <3>1. CASE backend = "memory"
      <4>1. apps' = NoApps /\ certs' = [c \in Certs |-> Absent] /\ records' = <<>>
            /\ draft' = EmptyDraft /\ draftStatus' = "unchecked"
        BY <1>5, <3>1 DEF Crash
      <4>2. records' \in Seq(Record)
        BY <4>1
      <4> QED BY <4>1, <4>2, BlankType, ReleaseAssumption DEF Statuses
    <3>2. CASE backend # "memory"
      BY <1>5, <3>2 DEF Crash, TypeOK, store
    <3> QED BY <3>1, <3>2
  <2> QED BY <1>5, <2>1, <2>2, <2>3 DEF TypeOK, Crash, directory
<1> QED BY <1>1, <1>2, <1>3, <1>4, <1>5 DEF Environment

\* The store that STORE_BACKEND selects is behind the interface for good.
LEMMA StoreStays == [Next]_vars => backend' = backend
<1>1. CASE Environment
  BY <1>1 DEF Environment, SaveApplications, SaveCertificate, DeleteCertificate,
     UpdateNginxConfigDraft, Edit, Crash
<1>2. ASSUME NEW p \in Handlers, Request(p) \/ RequestFails(p)
      PROVE  backend' = backend
  BY <1>2 DEF Request, StartRelease, StartRollback, StartValidation, StartRequest, RequestFails
<1>3. ASSUME NEW p \in Handlers, Release(p)
      PROVE  backend' = backend
  <2>1. CASE \/ ReadinessApplications(p) \/ ReviewApplications(p) \/ ReviewDraft(p)
             \/ ValidateApplications(p) \/ ArtifactsApplications(p) \/ ArtifactsDraft(p)
             \/ RereadDraft(p) \/ Generate(p)
    BY <2>1 DEF ReadinessApplications, ReviewApplications, ReviewDraft, ValidateApplications,
       ArtifactsApplications, ArtifactsDraft, RereadDraft, Generate, ReadApplications,
       ReadDraft, Local
  <2>2. CASE ReadinessVerdict(p) \/ ValidateVerdict(p)
    BY <2>2 DEF ReadinessVerdict, ValidateVerdict, CheckReadiness, Local, Refuse
  <2>3. CASE ReviewVerdict(p) \/ ArtifactsVerdict(p)
    BY <2>3 DEF ReviewVerdict, ArtifactsVerdict, Refuse
  <2>4. CASE \/ WriteGeneratedConfig(p) \/ WriteRecordedConfig(p) \/ RestoreArtifacts(p)
             \/ WriteFile(p) \/ ReloadGateway(p) \/ CreateRecord(p) \/ SaveValidatedDraft(p)
    BY <2>4 DEF WriteGeneratedConfig, WriteRecordedConfig, WriteConfig, RestoreArtifacts,
       WriteFile, ReloadGateway, CreateRecord, SaveValidatedDraft, Local, Refuse
  <2> QED BY <1>3, <2>1, <2>2, <2>3, <2>4 DEF Release
<1>4. CASE UNCHANGED vars
  BY <1>4 DEF vars
<1> QED BY <1>1, <1>2, <1>3, <1>4 DEF Next

LEMMA TypeInit == Init => TypeOK
<1> SUFFICES ASSUME Init PROVE TypeOK
  OBVIOUS
<1>1. records \in Seq(Record)
  <2>1. records = <<>> \/ records \in InitialHistories
    BY DEF Init
  <2>2. <<>> \in Seq(Record) /\ InitialHistories \subseteq Seq(Record)
    BY ReleaseAssumption
  <2> QED BY <2>1, <2>2
<1>2. everLive \subseteq Config
  <2>1. \A i \in DOMAIN records : records[i].config \in Config
    <3>1. \A i \in DOMAIN records : records[i] \in Record
      BY <1>1
    <3> QED BY <3>1 DEF Record
  <2>2. everLive = {records[i].config : i \in DOMAIN records}
    BY DEF Init
  <2> QED BY <2>1, <2>2
<1>3. pc \in [Handlers -> Phases] /\ loc \in [Handlers -> LocalState]
  BY BlankType DEF Init, Phases
<1>4. left \in [{"requests", "edits", "faults"} -> Nat]
  BY ReleaseAssumption DEF Init
<1> QED BY <1>1, <1>2, <1>3, <1>4, BlankType, ReleaseAssumption
        DEF Init, TypeOK, Statuses

LEMMA TypeStep == TypeOK /\ [Next]_vars => TypeOK'
<1> SUFFICES ASSUME TypeOK, [Next]_vars PROVE TypeOK'
  OBVIOUS
<1>1. CASE Environment
  BY <1>1, EnvironmentTypeStep
<1>2. CASE \E p \in Handlers : Request(p) \/ Release(p) \/ RequestFails(p)
  BY <1>2, HandlerTypeStep
<1>3. CASE UNCHANGED vars
  BY <1>3 DEF TypeOK, vars, store, directory
<1> QED BY <1>1, <1>2, <1>3 DEF Next

\* Every reachable state is well formed; in particular no review, rollback or
\* write ever produces a file outside the runtime directory's layout.
THEOREM TypeCorrect == Spec => []TypeOK
<1> QED BY TypeInit, TypeStep, PTL DEF Spec

-----------------------------------------------------------------------------
(***************************************************************************)
(* Versions.  NextPublishVersion counts records instead of remembering the *)
(* numbers it gave; what makes that work is that record i has a number of  *)
(* at most i, rollbacks included, which in turn needs a bound on the       *)
(* version every running request carries.                                  *)
(***************************************************************************)
NumberedRecords ==
  \A i \in DOMAIN records :
    records[i].version # <<>> /\ records[i].version[1] <= i

NumberedRequest(p) ==
  /\ loc[p].op = "release" => \E n \in 1..(Len(records) + 1) : loc[p].version = <<n>>
  /\ loc[p].op = "rollback" => /\ loc[p].version # <<>>
                               /\ loc[p].version[1] <= Len(records)

VersionInv == NumberedRecords /\ \A p \in Handlers : NumberedRequest(p)

\* Handler p goes on, the others stay where they are.
LEMMA GotoValues ==
  ASSUME TypeOK, NEW p \in Handlers, NEW ph, NEW l, Goto(p, ph, l)
  PROVE  /\ pc'[p] = ph /\ loc'[p] = l
         /\ \A q \in Handlers : q # p => pc'[q] = pc[q] /\ loc'[q] = loc[q]
BY DEF TypeOK, Goto

LEMMA FinishValues ==
  ASSUME TypeOK, NEW p \in Handlers, Finish(p)
  PROVE  /\ pc'[p] = "idle" /\ loc'[p] = Blank
         /\ \A q \in Handlers : q # p => pc'[q] = pc[q] /\ loc'[q] = loc[q]
BY GotoValues DEF Finish

\* Handler q keeps its request and the version it carries, or has none.
SameRequest(q) ==
  \/ loc'[q] = Blank
  \/ loc'[q].op = loc[q].op /\ loc'[q].version = loc[q].version

LEMMA VersionKept ==
  ASSUME VersionInv, records' = records, \A q \in Handlers : SameRequest(q)
  PROVE  VersionInv'
<1>1. NumberedRecords'
  BY DEF VersionInv, NumberedRecords
<1>2. ASSUME NEW q \in Handlers PROVE NumberedRequest(q)'
  BY DEF VersionInv, NumberedRequest, SameRequest, Blank
<1> QED BY <1>1, <1>2 DEF VersionInv

\* Between its first step and its record a request keeps its version.
LEMMA MiddleStepsKeepVersions ==
  ASSUME TypeOK, NEW p \in Handlers, Release(p) \/ RequestFails(p), ~CreateRecord(p)
  PROVE  records' = records /\ \A q \in Handlers : SameRequest(q)
<1> DEFINE l == loc[p]
<1>0. l \in LocalState
  BY ReadType
<1>1. ASSUME NEW ph, NEW m, Goto(p, ph, m), m.op = l.op, m.version = l.version
      PROVE  \A q \in Handlers : SameRequest(q)
  BY <1>1, GotoValues DEF SameRequest
<1>2. ASSUME Finish(p)
      PROVE  \A q \in Handlers : SameRequest(q)
  BY <1>2, FinishValues DEF SameRequest
<1>3. CASE \/ ReadinessApplications(p) \/ ReviewApplications(p)
           \/ ValidateApplications(p) \/ ArtifactsApplications(p)
  <2>1. PICK ph : Goto(p, ph, [l EXCEPT !.apps = apps])
    BY <1>3 DEF ReadinessApplications, ReviewApplications, ValidateApplications,
                ArtifactsApplications, ReadApplications, Local
  <2>2. records' = records
    BY <1>3 DEF ReadinessApplications, ReviewApplications, ValidateApplications,
                ArtifactsApplications, ReadApplications, Local
  <2> QED BY <1>0, <1>1, <2>1, <2>2 DEF LocalState
<1>4. CASE ReviewDraft(p) \/ ArtifactsDraft(p) \/ RereadDraft(p)
  <2>1. PICK ph : Goto(p, ph, [l EXCEPT !.draft = draft]) /\ records' = records
    BY <1>4 DEF ReviewDraft, ArtifactsDraft, RereadDraft, ReadDraft, Local
  <2> QED BY <1>0, <1>1, <2>1 DEF LocalState
<1>5. CASE ReadinessVerdict(p) \/ ValidateVerdict(p)
  BY <1>5, <1>1, <1>2 DEF ReadinessVerdict, ValidateVerdict, CheckReadiness,
                          Local, Refuse
<1>6. CASE ReviewVerdict(p)
  <2>1. \/ Finish(p)
        \/ \E ph : Goto(p, ph, l)
        \/ \E ph, verdict : Goto(p, ph, [l EXCEPT !.verdict = verdict])
    BY <1>6 DEF ReviewVerdict, Refuse
  <2>2. records' = records
    BY <1>6 DEF ReviewVerdict, Refuse
  <2> QED BY <1>0, <1>1, <1>2, <2>1, <2>2 DEF LocalState
<1>7. CASE Generate(p)
  BY <1>0, <1>1, <1>7 DEF Generate, Local, LocalState
<1>8. CASE WriteGeneratedConfig(p) \/ WriteRecordedConfig(p)
  BY <1>1, <1>8 DEF WriteGeneratedConfig, WriteRecordedConfig, WriteConfig
<1>9. CASE ArtifactsVerdict(p)
  <2>1. \/ Finish(p)
        \/ \E snap : Goto(p, "writeFiles", [l EXCEPT !.snap = snap, !.todo = snap])
    BY <1>9 DEF ArtifactsVerdict, Refuse
  <2>2. records' = records
    BY <1>9 DEF ArtifactsVerdict, Refuse
  <2> QED BY <1>0, <1>1, <1>2, <2>1, <2>2 DEF LocalState
<1>10. CASE RestoreArtifacts(p)
  <2>1. \/ Finish(p)
        \/ \E snap : Goto(p, "writeFiles", [l EXCEPT !.todo = snap])
    BY <1>10 DEF RestoreArtifacts, Local, Refuse
  <2>2. records' = records
    BY <1>10 DEF RestoreArtifacts, Local, Refuse
  <2> QED BY <1>0, <1>1, <1>2, <2>1, <2>2 DEF LocalState
<1>11. CASE WriteFile(p)
  <2>1. \E ph : Goto(p, ph, [l EXCEPT !.todo = Remaining(l.todo)])
    BY <1>11 DEF WriteFile
  <2> QED BY <1>0, <1>1, <1>11, <2>1 DEF LocalState, WriteFile
<1>12. CASE ReloadGateway(p)
  <2>1. \E status : Goto(p, "record", [l EXCEPT !.reload = status])
    BY <1>12 DEF ReloadGateway
  <2> QED BY <1>0, <1>1, <1>12, <2>1 DEF LocalState, ReloadGateway
<1>13. CASE SaveValidatedDraft(p)
  BY <1>13, GotoValues DEF SaveValidatedDraft, SameRequest
<1>14. CASE RequestFails(p)
  BY <1>2, <1>14 DEF RequestFails
<1> QED BY <1>3, <1>4, <1>5, <1>6, <1>7, <1>8, <1>9, <1>10, <1>11, <1>12, <1>13,
           <1>14 DEF Release

LEMMA StartKeepsVersions ==
  ASSUME TypeOK, VersionInv, NEW p \in Handlers, Request(p)
  PROVE  VersionInv'
<1>0. records \in Seq(Record) /\ Len(records) \in Nat
  BY DEF TypeOK
<1>1. records' = records
  BY DEF Request, StartRelease, StartRollback, StartValidation, StartRequest
<1>2. NumberedRecords'
  BY <1>1 DEF VersionInv, NumberedRecords
<1>3. ASSUME NEW ph, NEW l, Goto(p, ph, l),
             l.op = "release" => \E n \in 1..(Len(records) + 1) : l.version = <<n>>,
             l.op = "rollback" => l.version # <<>> /\ l.version[1] <= Len(records)
      PROVE  \A q \in Handlers : NumberedRequest(q)'
  <2> TAKE q \in Handlers
  <2>1. CASE q = p
    BY <1>1, <1>3, <2>1, GotoValues DEF NumberedRequest
  <2>2. CASE q # p
    BY <1>1, <1>3, <2>2, GotoValues DEF NumberedRequest, VersionInv
  <2> QED BY <2>1, <2>2
<1>4. CASE StartRelease(p)
  <2>1. PICK b \in BOOLEAN :
          Goto(p, "readiness", [Blank EXCEPT !.op = "release", !.confirm = b,
                                             !.version = NextPublishVersion])
    BY <1>4 DEF StartRelease, StartRequest
  <2> DEFINE l == [Blank EXCEPT !.op = "release", !.confirm = b,
                                !.version = NextPublishVersion]
  <2>2. l.op = "release" /\ l.version = <<Len(records) + 1>>
    BY DEF Blank, NextPublishVersion
  <2>3. Len(records) + 1 \in 1..(Len(records) + 1)
    BY <1>0
  <2> QED BY <1>2, <1>3, <2>1, <2>2, <2>3 DEF VersionInv
<1>5. CASE StartValidation(p)
  <2>1. Goto(p, "review", [Blank EXCEPT !.op = "validate"])
    BY <1>5 DEF StartValidation, StartRequest
  <2>2. [Blank EXCEPT !.op = "validate"].op = "validate"
    BY DEF Blank
  <2> QED BY <1>2, <1>3, <2>1, <2>2 DEF VersionInv
<1>6. CASE StartRollback(p)
  <2>1. PICK i \in DOMAIN records :
          Goto(p, "rollbackConfig", [Blank EXCEPT !.op = "rollback",
                                       !.version = records[i].version,
                                       !.config = records[i].config,
                                       !.snap = records[i].artifacts])
    BY <1>6 DEF StartRollback, StartRequest
  <2> DEFINE l == [Blank EXCEPT !.op = "rollback", !.version = records[i].version,
                                !.config = records[i].config,
                                !.snap = records[i].artifacts]
  <2>2. l.op = "rollback" /\ l.version = records[i].version
    BY DEF Blank
  <2>3. records[i].version # <<>> /\ records[i].version[1] <= i
    BY DEF VersionInv, NumberedRecords
  <2>4. records[i].version[1] \in Nat /\ i \in Nat /\ i <= Len(records)
    <3>1. records[i] \in Record /\ i \in 1..Len(records)
      BY <1>0
    <3>2. records[i].version \in Seq(Nat)
      BY <3>1 DEF Record, Versions
    <3> QED BY <2>3, <3>1, <3>2
  <2>5. l.version # <<>> /\ l.version[1] <= Len(records)
    BY <1>0, <2>2, <2>3, <2>4
  <2> QED BY <1>2, <1>3, <2>1, <2>2, <2>5 DEF VersionInv
<1> QED BY <1>4, <1>5, <1>6 DEF Request

\* The new record gets a number of at most its position.
LEMMA CreateRecordKeepsVersions ==
  ASSUME TypeOK, VersionInv, NEW p \in Handlers, CreateRecord(p),
         loc[p].op \in {"release", "rollback"}
  PROVE  VersionInv'
<1> DEFINE l == loc[p]
           v == RecordVersion(l, now')
           r == [version |-> v, config |-> l.config, artifacts |-> l.snap,
                 reload |-> l.reload]
           n == Len(records)
<1>0. /\ l \in LocalState /\ records \in Seq(Record) /\ n \in Nat
      /\ l.version \in Seq(Nat) /\ now' \in Nat
  <2>1. l \in LocalState
    BY ReadType
  <2>2. now' \in Nat
    BY DEF CreateRecord, TypeOK
  <2> QED BY <2>1, <2>2 DEF LocalState, Versions, TypeOK
<1>1. v # <<>> /\ v[1] <= n + 1
  <2>1. CASE l.op = "release"
    <3>1. PICK k \in 1..(n + 1) : l.version = <<k>>
      BY <2>1 DEF VersionInv, NumberedRequest
    <3> QED BY <2>1, <3>1 DEF RecordVersion
  <2>2. CASE l.op = "rollback"
    <3>1. l.version # <<>> /\ l.version[1] <= n
      BY <2>2 DEF VersionInv, NumberedRequest
    <3>2. v = Append(l.version, now')
      BY <2>2 DEF RecordVersion
    <3>3. v # <<>> /\ v[1] = l.version[1] /\ l.version[1] \in Nat
      BY <1>0, <3>1, <3>2
    <3> QED BY <1>0, <3>1, <3>3
  <2> QED BY <2>1, <2>2
<1>2. records' = Append(records, r) \/ records' = records
  BY DEF CreateRecord, Extended
<1>3. CASE records' = records
  BY <1>3, VersionKept, FinishValues DEF CreateRecord, SameRequest
<1>4. CASE records' = Append(records, r)
  <2>1. /\ Len(records') = n + 1 /\ DOMAIN records' = 1..(n + 1)
        /\ \A i \in 1..n : records'[i] = records[i]
        /\ records'[n + 1] = r
    BY <1>0, <1>4, AppendProperties
  <2>2. ASSUME NEW i \in DOMAIN records'
        PROVE  records'[i].version # <<>> /\ records'[i].version[1] <= i
    <3>1. CASE i = n + 1
      BY <1>1, <2>1, <3>1
    <3>2. CASE i \in 1..n
      BY <1>0, <2>1, <3>2 DEF VersionInv, NumberedRecords
    <3> QED BY <1>0, <2>1, <2>2, <3>1, <3>2
  <2>3. ASSUME NEW q \in Handlers
        PROVE  NumberedRequest(q)'
    <3>1. CASE q = p
      BY <3>1, FinishValues DEF CreateRecord, NumberedRequest, Blank
    <3>2. CASE q # p
      <4>1. loc'[q] = loc[q] /\ loc[q] \in LocalState
        BY <3>2, FinishValues, ReadType DEF CreateRecord
      <4>2. loc[q].op = "release" =>
              \E k \in 1..(Len(records') + 1) : loc[q].version = <<k>>
        BY <1>0, <2>1 DEF VersionInv, NumberedRequest
      <4>3. loc[q].op = "rollback" =>
              loc[q].version # <<>> /\ loc[q].version[1] <= Len(records')
        <5>1. loc[q].version \in Seq(Nat)
          BY <4>1 DEF LocalState, Versions
        <5>2. ASSUME loc[q].op = "rollback"
              PROVE  loc[q].version # <<>> /\ loc[q].version[1] <= n
          BY <5>2 DEF VersionInv, NumberedRequest
        <5>3. ASSUME loc[q].version # <<>> PROVE loc[q].version[1] \in Nat
          BY <5>1, <5>3
        <5> QED BY <1>0, <2>1, <5>2, <5>3
      <4> QED BY <4>1, <4>2, <4>3 DEF NumberedRequest
    <3> QED BY <3>1, <3>2
  <2> QED BY <2>2, <2>3 DEF VersionInv, NumberedRecords
<1> QED BY <1>2, <1>3, <1>4

\* Only releases and rollbacks come to the phases that publish; a validation
\* ends with the draft.
PublishPhases == Phases \ {"idle", "review", "reviewDraft", "reviewCerts", "reread",
                           "saveDraft"}
ControlInv ==
  \A p \in Handlers : pc[p] \in PublishPhases => loc[p].op \in {"release", "rollback"}

LEMMA ControlMove ==
  ASSUME TypeOK, ControlInv, NEW p \in Handlers, NEW ph, NEW l, Goto(p, ph, l),
         ph \in PublishPhases => l.op \in {"release", "rollback"}
  PROVE  ControlInv'
<1> SUFFICES ASSUME NEW q \in Handlers, pc'[q] \in PublishPhases
             PROVE  loc'[q].op \in {"release", "rollback"}
  BY DEF ControlInv
<1>1. CASE q = p
  BY <1>1, GotoValues
<1>2. CASE q # p
  BY <1>2, GotoValues DEF ControlInv
<1> QED BY <1>1, <1>2

LEMMA ControlStep ==
  ASSUME TypeOK, ControlInv, NEW p \in Handlers,
         Request(p) \/ Release(p) \/ RequestFails(p)
  PROVE  ControlInv'
<1> DEFINE l == loc[p]
<1>0. l \in LocalState /\ pc[p] \in Phases
  BY ReadType DEF TypeOK
<1>1. CASE Finish(p)
  BY <1>1, ControlMove DEF Finish, PublishPhases
<1>2. ASSUME NEW ph, NEW m, Goto(p, ph, m), m.op = l.op,
             pc[p] \in PublishPhases \/ ph \notin PublishPhases
      PROVE  ControlInv'
  BY <1>2, ControlMove DEF ControlInv
<1>3. CASE Request(p)
  <2>1. CASE StartRelease(p)
    <3>1. PICK b, v : Goto(p, "readiness", [Blank EXCEPT !.op = "release",
                                               !.confirm = b, !.version = v])
      BY <2>1 DEF StartRelease, StartRequest
    <3> QED BY <3>1, ControlMove DEF Blank
  <2>2. CASE StartValidation(p)
    BY <2>2, ControlMove DEF StartValidation, StartRequest, PublishPhases
  <2>3. CASE StartRollback(p)
    <3>1. PICK v, c, s : Goto(p, "rollbackConfig", [Blank EXCEPT !.op = "rollback",
                               !.version = v, !.config = c, !.snap = s])
      BY <2>3 DEF StartRollback, StartRequest
    <3> QED BY <3>1, ControlMove DEF Blank
  <2> QED BY <1>3, <2>1, <2>2, <2>3 DEF Request
<1>4. CASE ReadinessApplications(p) \/ ValidateApplications(p) \/ ArtifactsApplications(p)
  <2>1. PICK ph : Goto(p, ph, [l EXCEPT !.apps = apps])
    BY <1>4 DEF ReadinessApplications, ValidateApplications, ArtifactsApplications,
                ReadApplications, Local
  <2>2. pc[p] \in {"readiness", "validate", "artifacts"}
    BY <1>4 DEF ReadinessApplications, ValidateApplications, ArtifactsApplications,
                ReadApplications, Local
  <2> QED BY <1>0, <1>2, <2>1, <2>2 DEF LocalState, PublishPhases
<1>5. CASE ReviewApplications(p)
  BY <1>0, <1>2, <1>5 DEF ReviewApplications, ReadApplications, Local, LocalState,
                          PublishPhases
<1>6. CASE ReviewDraft(p) \/ RereadDraft(p)
  <2>1. PICK ph \in {"reviewCerts", "saveDraft"} : Goto(p, ph, [l EXCEPT !.draft = draft])
    BY <1>6 DEF ReviewDraft, RereadDraft, ReadDraft, Local
  <2> QED BY <1>0, <1>2, <2>1 DEF LocalState, PublishPhases
<1>7. CASE ArtifactsDraft(p)
  BY <1>0, <1>2, <1>7 DEF ArtifactsDraft, ReadDraft, Local, LocalState, PublishPhases
<1>8. CASE ReadinessVerdict(p) \/ ValidateVerdict(p)
  BY <1>0, <1>1, <1>2, <1>8 DEF ReadinessVerdict, ValidateVerdict, CheckReadiness,
                                Local, Refuse, PublishPhases
<1>9. CASE ReviewVerdict(p)
  <2>1. \/ Finish(p)
        \/ l.op = "release" /\ Goto(p, "validate", l)
        \/ \E verdict : Goto(p, "reread", [l EXCEPT !.verdict = verdict])
    BY <1>9 DEF ReviewVerdict, Refuse
  <2>2. CASE l.op = "release" /\ Goto(p, "validate", l)
    BY <2>2, ControlMove
  <2>3. CASE \E verdict : Goto(p, "reread", [l EXCEPT !.verdict = verdict])
    BY <2>3, ControlMove DEF PublishPhases
  <2> QED BY <1>1, <2>1, <2>2, <2>3
<1>10. CASE Generate(p)
  BY <1>0, <1>2, <1>10 DEF Generate, Local, LocalState, PublishPhases
<1>11. CASE WriteGeneratedConfig(p) \/ WriteRecordedConfig(p)
  BY <1>0, <1>2, <1>11 DEF WriteGeneratedConfig, WriteRecordedConfig, WriteConfig,
                           PublishPhases
<1>12. CASE ArtifactsVerdict(p)
  <2>1. /\ pc[p] = "artifactsCerts"
        /\ \/ Finish(p)
           \/ \E snap : Goto(p, "writeFiles", [l EXCEPT !.snap = snap, !.todo = snap])
    BY <1>12 DEF ArtifactsVerdict, Refuse
  <2> QED BY <1>0, <1>1, <1>2, <2>1 DEF LocalState, PublishPhases
<1>13. CASE RestoreArtifacts(p)
  <2>1. /\ pc[p] = "restore"
        /\ \/ Finish(p)
           \/ \E snap : Goto(p, "writeFiles", [l EXCEPT !.todo = snap])
    BY <1>13 DEF RestoreArtifacts, Local, Refuse
  <2> QED BY <1>0, <1>1, <1>2, <2>1 DEF LocalState, PublishPhases
<1>14. CASE WriteFile(p)
  <2>1. /\ pc[p] = "writeFiles"
        /\ \E ph : Goto(p, ph, [l EXCEPT !.todo = Remaining(l.todo)])
    BY <1>14 DEF WriteFile
  <2> QED BY <1>0, <1>2, <2>1 DEF LocalState, PublishPhases
<1>15. CASE ReloadGateway(p)
  <2>1. /\ pc[p] = "reload"
        /\ \E status : Goto(p, "record", [l EXCEPT !.reload = status])
    BY <1>15 DEF ReloadGateway
  <2> QED BY <1>0, <1>2, <2>1 DEF LocalState, PublishPhases
<1>16. CASE CreateRecord(p) \/ RequestFails(p)
  BY <1>1, <1>16 DEF CreateRecord, RequestFails
<1>17. CASE SaveValidatedDraft(p)
  BY <1>17, ControlMove DEF SaveValidatedDraft, PublishPhases
<1> QED BY <1>3, <1>4, <1>5, <1>6, <1>7, <1>8, <1>9, <1>10, <1>11, <1>12, <1>13,
           <1>14, <1>15, <1>16, <1>17 DEF Release

\* Edits and crashes: the history stays or is lost with every request.
LEMMA EnvironmentLeavesRequests ==
  ASSUME TypeOK, Environment
  PROVE  /\ records' = records \/ records' = <<>>
         /\ \/ pc' = pc /\ loc' = loc /\ records' = records
            \/ \A p \in Handlers : pc'[p] = "idle" /\ loc'[p] = Blank
<1>1. CASE Crash
  BY <1>1 DEF Crash
<1>2. CASE Edit
  BY <1>2 DEF Edit
<1> QED BY <1>1, <1>2 DEF Environment, SaveApplications, SaveCertificate,
                          DeleteCertificate, UpdateNginxConfigDraft

SafeVersions == TypeOK /\ ControlInv /\ VersionInv

LEMMA VersionInit == Init => SafeVersions
<1> SUFFICES ASSUME Init PROVE SafeVersions
  OBVIOUS
<1>1. TypeOK
  BY TypeInit
<1>2. ControlInv
  BY DEF Init, ControlInv, PublishPhases
<1>3. NumberedRecords
  <2>1. records = <<>> \/ records \in InitialHistories
    BY DEF Init
  <2>2. CASE records = <<>>
    BY <2>2 DEF NumberedRecords
  <2>3. CASE records \in InitialHistories
    BY <2>3, ReleaseAssumption DEF NumberedRecords
  <2> QED BY <2>1, <2>2, <2>3
<1>4. \A p \in Handlers : NumberedRequest(p)
  BY DEF Init, NumberedRequest, Blank
<1> QED BY <1>1, <1>2, <1>3, <1>4 DEF SafeVersions, VersionInv

LEMMA VersionStep == SafeVersions /\ [Next]_vars => SafeVersions'
<1> SUFFICES ASSUME SafeVersions, [Next]_vars PROVE SafeVersions'
  OBVIOUS
<1>0. TypeOK /\ ControlInv /\ VersionInv /\ TypeOK'
  BY TypeStep DEF SafeVersions
<1>1. CASE Environment
  <2>1. ControlInv'
    BY <1>0, <1>1, EnvironmentLeavesRequests DEF ControlInv, PublishPhases
  <2>2. NumberedRecords'
    BY <1>0, <1>1, EnvironmentLeavesRequests DEF VersionInv, NumberedRecords
  <2>3. \A p \in Handlers : NumberedRequest(p)'
    BY <1>0, <1>1, EnvironmentLeavesRequests DEF VersionInv, NumberedRequest, Blank
  <2> QED BY <1>0, <2>1, <2>2, <2>3 DEF SafeVersions, VersionInv
<1>2. ASSUME NEW p \in Handlers, Request(p) \/ Release(p) \/ RequestFails(p)
      PROVE  SafeVersions'
  <2>1. ControlInv'
    BY <1>0, <1>2, ControlStep
  <2>2. CASE Request(p)
    BY <1>0, <2>1, <2>2, StartKeepsVersions DEF SafeVersions
  <2>3. CASE CreateRecord(p)
    <3>1. loc[p].op \in {"release", "rollback"}
      BY <1>0, <2>3 DEF CreateRecord, ControlInv, PublishPhases, Phases
    <3> QED BY <1>0, <2>1, <2>3, <3>1, CreateRecordKeepsVersions DEF SafeVersions
  <2>4. CASE (Release(p) \/ RequestFails(p)) /\ ~CreateRecord(p)
    BY <1>0, <2>1, <2>4, MiddleStepsKeepVersions, VersionKept DEF SafeVersions
  <2> QED BY <1>2, <2>2, <2>3, <2>4
<1>3. CASE UNCHANGED vars
  <2>1. UNCHANGED <<pc, loc, records>>
    BY <1>3 DEF vars
  <2> QED BY <1>0, <2>1 DEF SafeVersions, ControlInv, VersionInv, NumberedRecords,
                            NumberedRequest
<1> QED BY <1>1, <1>2, <1>3 DEF Next

\* Whatever was released, rolled back, interrupted or lost in a crash before, the
\* count behind NextPublishVersion gives a version that no record has.
THEOREM FreshVersions == Spec => []VersionIsFresh
<1>1. SafeVersions => VersionIsFresh
  <2> SUFFICES ASSUME SafeVersions, NEW i \in DOMAIN records,
                      records[i].version = NextPublishVersion
               PROVE  FALSE
    BY DEF VersionIsFresh
  <2>1. records \in Seq(Record)
    BY DEF SafeVersions, TypeOK
  <2>2. i \in Nat /\ i <= Len(records) /\ Len(records) \in Nat
    BY <2>1
  <2>3. records[i].version[1] = Len(records) + 1
    BY DEF NextPublishVersion
  <2>4. records[i].version[1] <= i
    BY DEF SafeVersions, VersionInv, NumberedRecords
  <2> QED BY <2>2, <2>3, <2>4
<1> QED BY <1>1, VersionInit, VersionStep, PTL DEF Spec

\* With the UNIQUE column of the database a version names one record.
Unique == backend = "postgres" => VersionsUnique

LEMMA UniqueStep == TypeOK /\ Unique /\ [Next]_vars => Unique'
<1> SUFFICES ASSUME TypeOK, Unique, [Next]_vars, backend = "postgres"
             PROVE  VersionsUnique'
  BY StoreStays DEF Unique
<1>1. CASE records' = records
  BY <1>1 DEF Unique, VersionsUnique
<1>2. CASE records' = <<>>
  BY <1>2 DEF VersionsUnique
<1>3. ASSUME NEW p \in Handlers, CreateRecord(p), records' # records
      PROVE  VersionsUnique'
  <2>0. records \in Seq(Record) /\ Len(records) \in Nat
    BY DEF TypeOK
  <2>1. PICK r : /\ records' = Append(records, r)
                 /\ \A i \in DOMAIN records : records[i].version # r.version
    <3> DEFINE v == RecordVersion(loc[p], now')
               r == [version |-> v, config |-> loc[p].config,
                     artifacts |-> loc[p].snap, reload |-> loc[p].reload]
    <3>1. records' = IF Accepts(v) THEN Append(records, r) ELSE records
      BY <1>3 DEF CreateRecord, Extended
    <3>2. ~Taken(v)
      BY <1>3, <3>1 DEF Accepts
    <3> QED BY <1>3, <3>1, <3>2 DEF Taken
  <2>2. /\ DOMAIN records' = 1..(Len(records) + 1)
        /\ \A i \in 1..Len(records) : records'[i] = records[i]
        /\ records'[Len(records) + 1] = r
        /\ DOMAIN records = 1..Len(records)
    BY <2>0, <2>1
  <2> SUFFICES ASSUME NEW i \in 1..(Len(records) + 1), NEW j \in 1..(Len(records) + 1),
                      records'[i].version = records'[j].version
               PROVE  i = j
    BY <2>2 DEF VersionsUnique
  <2>3. CASE i \in 1..Len(records) /\ j \in 1..Len(records)
    BY <2>2, <2>3 DEF Unique, VersionsUnique
  <2>4. CASE i = Len(records) + 1 /\ j \in 1..Len(records)
    BY <2>1, <2>2, <2>4
  <2>5. CASE j = Len(records) + 1 /\ i \in 1..Len(records)
    BY <2>1, <2>2, <2>5
  <2> QED BY <2>0, <2>3, <2>4, <2>5
<1>4. \/ records' = records \/ records' = <<>>
      \/ \E p \in Handlers : CreateRecord(p) /\ records' # records
  <2>1. CASE Environment
    BY <2>1, EnvironmentLeavesRequests
  <2>2. ASSUME NEW p \in Handlers, Request(p) \/ Release(p) \/ RequestFails(p)
        PROVE  records' = records \/ CreateRecord(p)
    <3>1. CASE Request(p)
      BY <3>1 DEF Request, StartRelease, StartRollback, StartValidation, StartRequest
    <3> QED BY <2>2, <3>1, MiddleStepsKeepVersions
  <2>3. CASE UNCHANGED vars
    BY <2>3 DEF vars
  <2> QED BY <2>1, <2>2, <2>3 DEF Next
<1> QED BY <1>1, <1>2, <1>3, <1>4

THEOREM DatabaseVersionsUnique == Spec => [](backend = "postgres" => VersionsUnique)
<1>1. Init => Unique
  <2> SUFFICES ASSUME Init, backend = "postgres" PROVE VersionsUnique
    BY DEF Unique
  <2>1. records \in InitialHistories
    BY DEF Init
  <2> QED BY <2>1, ReleaseAssumption DEF VersionsUnique
<1>2. Unique <=> (backend = "postgres" => VersionsUnique)
  BY DEF Unique
<1> QED BY <1>1, <1>2, TypeInit, TypeStep, UniqueStep, PTL DEF Spec

-----------------------------------------------------------------------------
(***************************************************************************)
(* Advanced nginx changes.  The files on disk come from snapshots that     *)
(* handlers carry or that records keep, so the invariant follows them      *)
(* there: whatever advanced file is on disk, in a request or in a record   *)
(* was part of a snapshot nginx accepted.                                  *)
(***************************************************************************)
Vetted(file, accepted) == \E s \in accepted : file \in FilesOf(s)
AllVetted(snap, accepted) ==
  \A file \in FilesOf(snap) : IsAdvanced(file) => Vetted(file, accepted)

CarriedFilesWereVetted ==
  \A p \in Handlers : AllVetted(loc[p].snap, vetted) /\ AllVetted(loc[p].todo, vetted)
RecordedFilesWereVetted ==
  \A i \in DOMAIN records : AllVetted(records[i].artifacts, vetted)

VettedInv == AdvancedFilesWereVetted /\ CarriedFilesWereVetted /\ RecordedFilesWereVetted

LEMMA NothingToVet ==
  \A V : AllVetted(<<>>, V) /\ AllVetted(Blank.snap, V) /\ AllVetted(Blank.todo, V)
BY DEF AllVetted, FilesOf, Blank

\* What was accepted stays accepted.
LEMMA VettedStays ==
  ASSUME vetted \subseteq vetted', NEW snap, AllVetted(snap, vetted)
  PROVE  AllVetted(snap, vetted')
BY DEF AllVetted, Vetted

\* The invariant survives a step that changes neither files nor records and gives
\* handlers only snapshots they had, that records have or that are vetted.
LEMMA VettedMove ==
  ASSUME VettedInv, vetted \subseteq vetted', files' = files,
         records' = records \/ records' = <<>>,
         \A q \in Handlers : /\ AllVetted(loc'[q].snap, vetted')
                             /\ AllVetted(loc'[q].todo, vetted')
  PROVE  VettedInv'
<1>1. AdvancedFilesWereVetted'
  BY DEF VettedInv, AdvancedFilesWereVetted
<1>2. CarriedFilesWereVetted'
  BY DEF CarriedFilesWereVetted
<1>3. RecordedFilesWereVetted'
  BY VettedStays DEF VettedInv, RecordedFilesWereVetted
<1> QED BY <1>1, <1>2, <1>3 DEF VettedInv

LEMMA VettedGoto ==
  ASSUME TypeOK, VettedInv, vetted \subseteq vetted',
         NEW p \in Handlers, NEW ph, NEW l, Goto(p, ph, l),
         AllVetted(l.snap, vetted'), AllVetted(l.todo, vetted')
  PROVE  \A q \in Handlers : /\ AllVetted(loc'[q].snap, vetted')
                             /\ AllVetted(loc'[q].todo, vetted')
<1> TAKE q \in Handlers
<1>1. CASE q = p
  BY <1>1, GotoValues
<1>2. CASE q # p
  BY <1>2, GotoValues, VettedStays DEF VettedInv, CarriedFilesWereVetted
<1> QED BY <1>1, <1>2

LEMMA VetGrows == ASSUME NEW verdict, NEW snap, Vet(verdict, snap)
                  PROVE  /\ vetted \subseteq vetted'
                         /\ verdict = "passed" => snap \in vetted'
BY DEF Vet

LEMMA HandlerVettedStep ==
  ASSUME TypeOK, VettedInv, NEW p \in Handlers,
         Request(p) \/ Release(p) \/ RequestFails(p)
  PROVE  VettedInv'
<1> DEFINE l == loc[p]
<1>0. /\ l \in LocalState /\ records \in Seq(Record)
      /\ AllVetted(l.snap, vetted) /\ AllVetted(l.todo, vetted)
  BY ReadType DEF TypeOK, VettedInv, CarriedFilesWereVetted
<1>1. ASSUME NEW ph, NEW m, Goto(p, ph, m), vetted \subseteq vetted',
             files' = files, records' = records,
             AllVetted(m.snap, vetted) \/ AllVetted(m.snap, vetted'),
             AllVetted(m.todo, vetted) \/ AllVetted(m.todo, vetted')
      PROVE  VettedInv'
  BY <1>1, VettedGoto, VettedMove, VettedStays
<1>2. ASSUME Finish(p), vetted \subseteq vetted', files' = files, records' = records
      PROVE  VettedInv'
  BY <1>1, <1>2, NothingToVet DEF Finish
<1>3. CASE Request(p)
  <2>1. CASE StartRelease(p)
    <3>1. /\ \E b, v : Goto(p, "readiness", [Blank EXCEPT !.op = "release",
                                               !.confirm = b, !.version = v])
          /\ UNCHANGED <<vetted, files, records>>
      BY <2>1 DEF StartRelease, StartRequest, directory
    <3> QED BY <1>1, <3>1, NothingToVet DEF Blank
  <2>2. CASE StartValidation(p)
    <3>1. /\ Goto(p, "review", [Blank EXCEPT !.op = "validate"])
          /\ UNCHANGED <<vetted, files, records>>
      BY <2>2 DEF StartValidation, StartRequest, directory
    <3> QED BY <1>1, <3>1, NothingToVet DEF Blank
  <2>3. CASE StartRollback(p)
    <3>1. PICK i \in DOMAIN records : \E v, c :
            /\ Goto(p, "rollbackConfig", [Blank EXCEPT !.op = "rollback",
                       !.version = v, !.config = c, !.snap = records[i].artifacts])
            /\ UNCHANGED <<vetted, files, records>>
      BY <2>3 DEF StartRollback, StartRequest, directory
    <3>2. AllVetted(records[i].artifacts, vetted)
      BY DEF VettedInv, RecordedFilesWereVetted
    <3> QED BY <1>1, <3>1, <3>2, NothingToVet DEF Blank
  <2> QED BY <1>3, <2>1, <2>2, <2>3 DEF Request
<1>4. CASE \/ ReadinessApplications(p) \/ ReviewApplications(p)
           \/ ValidateApplications(p) \/ ArtifactsApplications(p)
  <2>1. \E ph : Goto(p, ph, [l EXCEPT !.apps = apps])
    BY <1>4 DEF ReadinessApplications, ReviewApplications, ValidateApplications,
                ArtifactsApplications, ReadApplications, Local
  <2>2. UNCHANGED <<vetted, files, records>>
    BY <1>4 DEF ReadinessApplications, ReviewApplications, ValidateApplications,
                ArtifactsApplications, ReadApplications, Local, directory
  <2> QED BY <1>0, <1>1, <2>1, <2>2 DEF LocalState
<1>5. CASE ReviewDraft(p) \/ ArtifactsDraft(p) \/ RereadDraft(p)
  <2>1. /\ \E ph : Goto(p, ph, [l EXCEPT !.draft = draft])
        /\ UNCHANGED <<vetted, files, records>>
    BY <1>5 DEF ReviewDraft, ArtifactsDraft, RereadDraft, ReadDraft, Local, directory
  <2> QED BY <1>0, <1>1, <2>1 DEF LocalState
<1>6. CASE ReadinessVerdict(p) \/ ValidateVerdict(p)
  <2>1. /\ Finish(p) \/ \E ph : Goto(p, ph, l)
        /\ UNCHANGED <<vetted, files, records>>
    BY <1>6 DEF ReadinessVerdict, ValidateVerdict, CheckReadiness, Local, Refuse,
                directory
  <2> QED BY <1>0, <1>1, <1>2, <2>1
<1>7. CASE ReviewVerdict(p)
  <2>1. /\ \/ Finish(p)
           \/ Goto(p, "validate", l)
           \/ \E v : Goto(p, "reread", [l EXCEPT !.verdict = v])
        /\ vetted \subseteq vetted' /\ files' = files /\ records' = records
    BY <1>7, VetGrows DEF ReviewVerdict, Refuse, directory
  <2> QED BY <1>0, <1>1, <1>2, <2>1 DEF LocalState
<1>8. CASE Generate(p)
  <2>1. /\ \E c : Goto(p, "writeConfig", [l EXCEPT !.config = c])
        /\ UNCHANGED <<vetted, files, records>>
    BY <1>8 DEF Generate, Local, directory
  <2> QED BY <1>0, <1>1, <2>1 DEF LocalState
<1>9. CASE WriteGeneratedConfig(p) \/ WriteRecordedConfig(p)
  BY <1>0, <1>1, <1>9 DEF WriteGeneratedConfig, WriteRecordedConfig, WriteConfig
<1>10. CASE ArtifactsVerdict(p)
  <2>1. files' = files /\ records' = records
    BY <1>10 DEF ArtifactsVerdict, Refuse, directory
  <2>2. CASE MissingCertificate(l.apps, certs)
    BY <1>2, <1>10, <2>1, <2>2 DEF ArtifactsVerdict, Refuse
  <2>3. CASE ~MissingCertificate(l.apps, certs)
    <3>1. PICK verdict \in Verdicts(l.draft),
               snap \in BuildSnapshots(l.apps, certs, l.draft) :
            /\ Vet(verdict, snap)
            /\ IF ArtifactsBlock(l, verdict) THEN Finish(p)
               ELSE Goto(p, "writeFiles", [l EXCEPT !.snap = snap, !.todo = snap])
      BY <1>10, <2>3 DEF ArtifactsVerdict
    <3>2. CASE ArtifactsBlock(l, verdict)
      BY <1>2, <2>1, <3>1, <3>2, VetGrows
    <3>3. CASE ~ArtifactsBlock(l, verdict)
      <4>1. HasAdvancedChanges(l.draft) => snap \in vetted'
        BY <3>1, <3>3, VetGrows DEF ArtifactsBlock
      <4>2. AllVetted(snap, vetted')
        BY <2>3, <4>1, ReviewedSnapshot DEF AllVetted, Vetted
      <4>3. [l EXCEPT !.snap = snap, !.todo = snap].snap = snap
            /\ [l EXCEPT !.snap = snap, !.todo = snap].todo = snap
        BY <1>0 DEF LocalState
      <4> QED BY <1>1, <2>1, <3>1, <3>3, <4>2, <4>3, VetGrows
    <3> QED BY <3>2, <3>3
  <2> QED BY <2>2, <2>3
<1>11. CASE RestoreArtifacts(p)
  <2>1. UNCHANGED <<vetted, files, records>>
    BY <1>11 DEF RestoreArtifacts, Local, Refuse, directory
  <2>2. CASE Finish(p)
    BY <1>2, <2>1, <2>2
  <2>3. ASSUME NEW snap, AllVetted(snap, vetted),
               Goto(p, "writeFiles", [l EXCEPT !.todo = snap])
        PROVE  VettedInv'
    BY <1>0, <1>1, <2>1, <2>3 DEF LocalState
  <2>4. CASE l.snap # <<>>
    BY <1>0, <1>11, <2>3, <2>4 DEF RestoreArtifacts, Local
  <2>5. CASE l.snap = <<>> /\ ~MissingCertificate(l.config.apps, certs)
    <3>1. PICK snap \in BuildSnapshots(l.config.apps, certs, EmptyDraft) :
            Goto(p, "writeFiles", [l EXCEPT !.todo = snap])
      BY <1>11, <2>5 DEF RestoreArtifacts, Local
    <3>2. AllVetted(snap, vetted)
      BY <2>5, RebuiltSnapshot DEF AllVetted
    <3> QED BY <2>3, <3>1, <3>2
  <2>6. CASE l.snap = <<>> /\ MissingCertificate(l.config.apps, certs)
    BY <1>11, <2>2, <2>6 DEF RestoreArtifacts, Refuse
  <2> QED BY <2>4, <2>5, <2>6
<1>12. CASE WriteFile(p)
  <2>1. l.todo \in Seq(File) /\ l.todo # <<>>
    BY <1>0, <1>12 DEF LocalState, WriteFile, Snapshots
  <2> DEFINE h == Head(l.todo)
  <2>2. /\ h \in File /\ h \in FilesOf(l.todo)
        /\ Tail(l.todo) \in Seq(File)
        /\ \A f \in FilesOf(Tail(l.todo)) : f \in FilesOf(l.todo)
    BY <2>1, HeadTailProperties DEF FilesOf
  <2>3. AllVetted(Tail(l.todo), vetted)
    BY <1>0, <2>2 DEF AllVetted
  <2>4. /\ UNCHANGED <<vetted, records>>
        /\ files' = [files EXCEPT ![h.path] = h.content]
        /\ \E ph : Goto(p, ph, [l EXCEPT !.todo = Tail(l.todo)])
    BY <1>12 DEF WriteFile, Remaining
  <2>5. AdvancedFilesWereVetted'
    <3> SUFFICES ASSUME NEW f \in Paths, files'[f] # Absent,
                        IsAdvanced([path |-> f, content |-> files'[f]])
                 PROVE  Vetted([path |-> f, content |-> files'[f]], vetted)
      BY <2>4 DEF AdvancedFilesWereVetted, Vetted
    <3>1. CASE f = h.path
      <4>1. h = [path |-> f, content |-> files'[f]]
        BY <2>2, <2>4, <3>1 DEF File, TypeOK
      <4> QED BY <1>0, <2>2, <4>1 DEF AllVetted
    <3>2. CASE f # h.path
      <4>1. files'[f] = files[f]
        BY <2>4, <3>2 DEF TypeOK
      <4> QED BY <4>1 DEF VettedInv, AdvancedFilesWereVetted, Vetted
    <3> QED BY <3>1, <3>2
  <2>6. CarriedFilesWereVetted'
    <3>1. [l EXCEPT !.todo = Tail(l.todo)].snap = l.snap
          /\ [l EXCEPT !.todo = Tail(l.todo)].todo = Tail(l.todo)
      BY <1>0 DEF LocalState
    <3>2. AllVetted(l.snap, vetted') /\ AllVetted(Tail(l.todo), vetted') /\ vetted \subseteq vetted'
      <4>1. vetted \subseteq vetted'
        BY <2>4
      <4> QED BY <1>0, <2>3, <4>1, VettedStays
    <3> QED BY <2>4, <3>1, <3>2, VettedGoto DEF CarriedFilesWereVetted
  <2>7. RecordedFilesWereVetted'
    BY <2>4 DEF VettedInv, RecordedFilesWereVetted, AllVetted, Vetted
  <2> QED BY <2>5, <2>6, <2>7 DEF VettedInv
<1>13. CASE ReloadGateway(p)
  <2>1. /\ \E status : Goto(p, "record", [l EXCEPT !.reload = status])
        /\ UNCHANGED <<vetted, files, records>>
    BY <1>13 DEF ReloadGateway, directory
  <2> QED BY <1>0, <1>1, <2>1 DEF LocalState
<1>14. CASE CreateRecord(p)
  <2>1. /\ UNCHANGED <<vetted, files>> /\ Finish(p)
        /\ \/ records' = records
           \/ \E r : records' = Append(records, r) /\ r.artifacts = l.snap
    BY <1>14 DEF CreateRecord, Extended, directory
  <2>2. CASE records' = records
    BY <1>2, <2>1, <2>2
  <2>3. ASSUME NEW r, records' = Append(records, r), r.artifacts = l.snap
        PROVE  VettedInv'
    <3>1. AdvancedFilesWereVetted'
      BY <2>1 DEF VettedInv, AdvancedFilesWereVetted
    <3>2. CarriedFilesWereVetted'
      <4>1. vetted \subseteq vetted'
        BY <2>1
      <4> QED BY <2>1, <4>1, VettedGoto, VettedStays, NothingToVet
              DEF Finish, CarriedFilesWereVetted
    <3>3. \A i \in DOMAIN records' : records'[i] = r \/ (i \in DOMAIN records /\ records'[i] = records[i])
      BY <1>0, <2>3
    <3>4. RecordedFilesWereVetted'
      BY <1>0, <2>1, <2>3, <3>3 DEF VettedInv, RecordedFilesWereVetted, AllVetted, Vetted
    <3> QED BY <3>1, <3>2, <3>4 DEF VettedInv
  <2> QED BY <2>1, <2>2, <2>3
<1>15. CASE SaveValidatedDraft(p)
  <2>1. Goto(p, "idle", Blank) /\ UNCHANGED <<vetted, files, records>>
    BY <1>15 DEF SaveValidatedDraft, directory
  <2> QED BY <1>1, <2>1, NothingToVet
<1>16. CASE RequestFails(p)
  BY <1>2, <1>16 DEF RequestFails, directory
<1> QED BY <1>3, <1>4, <1>5, <1>6, <1>7, <1>8, <1>9, <1>10, <1>11, <1>12, <1>13,
           <1>14, <1>15, <1>16 DEF Release

LEMMA VettedStep == TypeOK /\ VettedInv /\ [Next]_vars => VettedInv'
<1> SUFFICES ASSUME TypeOK, VettedInv, [Next]_vars PROVE VettedInv'
  OBVIOUS
<1>1. CASE Environment
  <2>1. vetted' = vetted /\ files' = files
    <3>1. CASE Edit
      BY <3>1 DEF Edit, directory
    <3>2. CASE Crash
      BY <3>2 DEF Crash, directory
    <3> QED BY <1>1, <3>1, <3>2 DEF Environment, SaveApplications, SaveCertificate,
                                    DeleteCertificate, UpdateNginxConfigDraft
  <2>2. vetted \subseteq vetted'
    BY <2>1
  <2>3. ASSUME NEW q \in Handlers
        PROVE  AllVetted(loc'[q].snap, vetted') /\ AllVetted(loc'[q].todo, vetted')
    BY <1>1, <2>2, EnvironmentLeavesRequests, VettedStays, NothingToVet
       DEF VettedInv, CarriedFilesWereVetted
  <2> QED BY <1>1, <2>1, <2>2, <2>3, EnvironmentLeavesRequests, VettedMove
<1>2. CASE \E p \in Handlers : Request(p) \/ Release(p) \/ RequestFails(p)
  BY <1>2, HandlerVettedStep
<1>3. CASE UNCHANGED vars
  <2>1. UNCHANGED <<files, loc, records, vetted>>
    BY <1>3 DEF vars, directory
  <2> QED BY <2>1 DEF VettedInv, AdvancedFilesWereVetted, CarriedFilesWereVetted,
                      RecordedFilesWereVetted, AllVetted, Vetted
<1> QED BY <1>1, <1>2, <1>3 DEF Next

\* No hand-written nginx text reaches the runtime directory, by release or by
\* rollback, unless the validation command accepted a snapshot that holds it.
THEOREM OnlyVettedAdvancedFiles == Spec => []AdvancedFilesWereVetted
<1>1. Init => VettedInv
  <2> SUFFICES ASSUME Init PROVE VettedInv
    OBVIOUS
  <2>1. AdvancedFilesWereVetted
    BY DEF Init, AdvancedFilesWereVetted
  <2>2. CarriedFilesWereVetted
    BY NothingToVet DEF Init, CarriedFilesWereVetted
  <2>3. \A i \in DOMAIN records : records[i].artifacts = <<>>
    <3>1. records = <<>> \/ records \in InitialHistories
      BY DEF Init
    <3> QED BY <3>1, ReleaseAssumption
  <2>4. RecordedFilesWereVetted
    BY <2>3, NothingToVet DEF RecordedFilesWereVetted
  <2> QED BY <2>1, <2>2, <2>4 DEF VettedInv
<1>2. VettedInv => AdvancedFilesWereVetted
  BY DEF VettedInv
<1> QED BY <1>1, <1>2, TypeInit, TypeStep, VettedStep, PTL DEF Spec

-----------------------------------------------------------------------------
(***************************************************************************)
(* The pipeline implements the publication service.  A configuration is    *)
(* fresh or recorded when a handler is about to write it, and live from    *)
(* then on until its record exists.                                        *)
(***************************************************************************)
ReleasePhases == {"validate", "validateCerts", "generate"}
LivePhases == {"artifacts", "artifactsDraft", "artifactsCerts", "restore", "writeFiles",
               "reload", "record"}

LiveAt(ph, l, live, recs) ==
  /\ ph \in ReleasePhases => l.op = "release"
  /\ ph = "writeConfig" => \E n \in 1..(Len(recs) + 1) : l.config.version = <<n>>
  /\ ph = "rollbackConfig" => \E i \in DOMAIN recs : l.config = recs[i].config
  /\ ph \in LivePhases => l.config \in live

LiveInv == /\ \A i \in DOMAIN records : records[i].config \in everLive
           /\ \A p \in Handlers : LiveAt(pc[p], loc[p], everLive, records)

\* A handler that goes on to where it may be; the history stays.
LEMMA LiveMove ==
  ASSUME TypeOK, LiveInv, records' = records, everLive \subseteq everLive',
         NEW p \in Handlers, NEW ph, NEW l, Goto(p, ph, l),
         LiveAt(ph, l, everLive', records)
  PROVE  LiveInv'
<1>1. ASSUME NEW q \in Handlers
      PROVE  LiveAt(pc'[q], loc'[q], everLive', records')
  <2>1. CASE q = p
    BY <2>1, GotoValues
  <2>2. CASE q # p
    BY <2>2, GotoValues DEF LiveInv, LiveAt
  <2> QED BY <2>1, <2>2
<1> QED BY <1>1 DEF LiveInv

LEMMA IdleIsLive == \A l, live, recs : LiveAt("idle", l, live, recs)
BY DEF LiveAt, ReleasePhases, LivePhases

AbstractVars == <<gatewayJson, records, everLive>>

\* The steps that do not show in the publication service.
LEMMA HiddenStep ==
  ASSUME TypeOK, VersionInv, LiveInv, NEW p \in Handlers,
         Request(p) \/ Release(p) \/ RequestFails(p),
         ~CreateRecord(p), ~WriteGeneratedConfig(p), ~WriteRecordedConfig(p)
  PROVE  LiveInv' /\ UNCHANGED AbstractVars
<1> DEFINE l == loc[p]
<1>0. l \in LocalState /\ LiveAt(pc[p], l, everLive, records)
  BY ReadType DEF LiveInv
<1>1. ASSUME NEW ph, NEW m, Goto(p, ph, m), UNCHANGED AbstractVars,
             LiveAt(ph, m, everLive, records)
      PROVE  LiveInv' /\ UNCHANGED AbstractVars
  BY <1>1, LiveMove DEF AbstractVars
<1>2. ASSUME Finish(p), UNCHANGED AbstractVars
      PROVE  LiveInv' /\ UNCHANGED AbstractVars
  BY <1>1, <1>2, IdleIsLive DEF Finish
<1>a. ASSUME NEW ph \in LivePhases, NEW m, pc[p] \in LivePhases, Goto(p, ph, m),
             m.config = l.config, UNCHANGED AbstractVars
      PROVE  LiveInv' /\ UNCHANGED AbstractVars
  <2>1. LiveAt(ph, m, everLive, records)
    BY <1>0, <1>a DEF LiveAt, ReleasePhases, LivePhases
  <2> QED BY <1>1, <1>a, <2>1
<1>b. /\ "artifacts" \in LivePhases /\ "artifactsDraft" \in LivePhases
      /\ "artifactsCerts" \in LivePhases /\ "restore" \in LivePhases
      /\ "writeFiles" \in LivePhases /\ "reload" \in LivePhases
      /\ "record" \in LivePhases
  BY DEF LivePhases
<1>3. CASE StartRelease(p) \/ StartValidation(p)
  <2>1. PICK ph \in {"readiness", "review"} : \E m : Goto(p, ph, m)
    BY <1>3 DEF StartRelease, StartValidation, StartRequest
  <2>2. UNCHANGED AbstractVars
    BY <1>3 DEF StartRelease, StartValidation, StartRequest, AbstractVars, directory
  <2> QED BY <1>1, <2>1, <2>2 DEF LiveAt, ReleasePhases, LivePhases
<1>4. CASE StartRollback(p)
  <2>1. PICK i \in DOMAIN records : \E v, s :
          /\ Goto(p, "rollbackConfig", [Blank EXCEPT !.op = "rollback", !.version = v,
                                          !.config = records[i].config, !.snap = s])
          /\ UNCHANGED AbstractVars
    BY <1>4 DEF StartRollback, StartRequest, AbstractVars, directory
  <2>2. \A v, s : LiveAt("rollbackConfig",
                          [Blank EXCEPT !.op = "rollback", !.version = v,
                                        !.config = records[i].config, !.snap = s],
                          everLive, records)
    BY DEF LiveAt, ReleasePhases, LivePhases, Blank
  <2> QED BY <1>1, <2>1, <2>2
<1>5. CASE \/ ReadinessApplications(p) \/ ReviewApplications(p) \/ ReviewDraft(p)
           \/ RereadDraft(p)
  <2>1. PICK ph \in {"readinessCerts", "reviewDraft", "reviewCerts", "saveDraft"} :
          \E m : Goto(p, ph, m)
    BY <1>5 DEF ReadinessApplications, ReviewApplications, ReviewDraft, RereadDraft,
                ReadApplications, ReadDraft, Local
  <2>2. UNCHANGED AbstractVars
    BY <1>5 DEF ReadinessApplications, ReviewApplications, ReviewDraft, RereadDraft,
                ReadApplications, ReadDraft, Local, AbstractVars, directory
  <2> QED BY <1>1, <2>1, <2>2 DEF LiveAt, ReleasePhases, LivePhases
<1>6. CASE ValidateApplications(p) \/ ArtifactsApplications(p)
  <2>1. \/ /\ pc[p] = "validate"
           /\ Goto(p, "validateCerts", [l EXCEPT !.apps = apps])
        \/ /\ pc[p] = "artifacts"
           /\ Goto(p, "artifactsDraft", [l EXCEPT !.apps = apps])
    BY <1>6 DEF ValidateApplications, ArtifactsApplications, ReadApplications, Local
  <2>2. UNCHANGED AbstractVars
    BY <1>6 DEF ValidateApplications, ArtifactsApplications, ReadApplications, Local,
                AbstractVars, directory
  <2>3. /\ [l EXCEPT !.apps = apps].op = l.op
        /\ [l EXCEPT !.apps = apps].config = l.config
    BY <1>0 DEF LocalState
  <2>4. CASE pc[p] = "validate"
    <3>1. LiveAt("validateCerts", [l EXCEPT !.apps = apps], everLive, records)
      BY <1>0, <2>3, <2>4 DEF LiveAt, ReleasePhases, LivePhases
    <3> QED BY <1>1, <2>1, <2>2, <2>4, <3>1
  <2>5. CASE pc[p] = "artifacts"
    BY <1>a, <1>b, <2>1, <2>2, <2>3, <2>5
  <2> QED BY <2>1, <2>4, <2>5
<1>7. CASE ArtifactsDraft(p)
  <2>1. /\ pc[p] = "artifactsDraft"
        /\ Goto(p, "artifactsCerts", [l EXCEPT !.draft = draft])
        /\ UNCHANGED AbstractVars
    BY <1>7 DEF ArtifactsDraft, ReadDraft, Local, AbstractVars, directory
  <2>2. [l EXCEPT !.draft = draft].config = l.config
    BY <1>0 DEF LocalState
  <2> QED BY <1>a, <1>b, <2>1, <2>2
<1>8. CASE ReadinessVerdict(p) \/ ValidateVerdict(p)
  <2>1. \/ Finish(p)
        \/ Goto(p, "review", l)
        \/ pc[p] = "validateCerts" /\ Goto(p, "generate", l)
    BY <1>8 DEF ReadinessVerdict, ValidateVerdict, CheckReadiness, Local, Refuse
  <2>2. UNCHANGED AbstractVars
    BY <1>8 DEF ReadinessVerdict, ValidateVerdict, CheckReadiness, Local, Refuse,
                AbstractVars, directory
  <2> QED BY <1>0, <1>1, <1>2, <2>1, <2>2 DEF LiveAt, ReleasePhases, LivePhases
<1>9. CASE ReviewVerdict(p)
  <2>1. \/ Finish(p)
        \/ l.op = "release" /\ Goto(p, "validate", l)
        \/ \E m : Goto(p, "reread", m)
    BY <1>9 DEF ReviewVerdict, Refuse
  <2>2. UNCHANGED AbstractVars
    BY <1>9 DEF ReviewVerdict, Refuse, AbstractVars, directory
  <2> QED BY <1>1, <1>2, <2>1, <2>2 DEF LiveAt, ReleasePhases, LivePhases
<1>10. CASE Generate(p)
  <2>1. /\ pc[p] = "generate"
        /\ Goto(p, "writeConfig", [l EXCEPT !.config = [version |-> l.version,
                                                        apps |-> apps]])
        /\ UNCHANGED AbstractVars
    BY <1>10 DEF Generate, Local, AbstractVars, directory
  <2>2. l.op = "release"
    BY <1>0, <2>1 DEF LiveAt, ReleasePhases
  <2>3. \E n \in 1..(Len(records) + 1) : l.version = <<n>>
    BY <2>2 DEF VersionInv, NumberedRequest
  <2>4. [l EXCEPT !.config = [version |-> l.version, apps |-> apps]].config.version
          = l.version
    BY <1>0 DEF LocalState
  <2>5. LiveAt("writeConfig", [l EXCEPT !.config = [version |-> l.version,
                                                    apps |-> apps]], everLive, records)
    BY <2>3, <2>4 DEF LiveAt, ReleasePhases, LivePhases
  <2> QED BY <1>1, <2>1, <2>5
<1>11. CASE ArtifactsVerdict(p)
  <2>1. /\ pc[p] = "artifactsCerts"
        /\ \/ Finish(p)
           \/ \E snap : Goto(p, "writeFiles", [l EXCEPT !.snap = snap, !.todo = snap])
    BY <1>11 DEF ArtifactsVerdict, Refuse
  <2>2. UNCHANGED AbstractVars
    BY <1>11 DEF ArtifactsVerdict, Refuse, AbstractVars, directory
  <2>3. \A snap : [l EXCEPT !.snap = snap, !.todo = snap].config = l.config
    BY <1>0 DEF LocalState
  <2> QED BY <1>2, <1>a, <1>b, <2>1, <2>2, <2>3
<1>12. CASE RestoreArtifacts(p)
  <2>1. /\ pc[p] = "restore"
        /\ \/ Finish(p)
           \/ \E snap : Goto(p, "writeFiles", [l EXCEPT !.todo = snap])
        /\ UNCHANGED AbstractVars
    BY <1>12 DEF RestoreArtifacts, Local, Refuse, AbstractVars, directory
  <2>2. \A snap : [l EXCEPT !.todo = snap].config = l.config
    BY <1>0 DEF LocalState
  <2> QED BY <1>2, <1>a, <1>b, <2>1, <2>2
<1>13. CASE WriteFile(p)
  <2>1. /\ pc[p] = "writeFiles"
        /\ \E ph \in {"writeFiles", "reload"} :
             Goto(p, ph, [l EXCEPT !.todo = Remaining(l.todo)])
        /\ UNCHANGED AbstractVars
    BY <1>13 DEF WriteFile, AbstractVars
  <2>2. [l EXCEPT !.todo = Remaining(l.todo)].config = l.config
    BY <1>0 DEF LocalState
  <2> QED BY <1>a, <1>b, <2>1, <2>2
<1>14. CASE ReloadGateway(p)
  <2>1. /\ pc[p] = "reload"
        /\ \E status : Goto(p, "record", [l EXCEPT !.reload = status])
    BY <1>14 DEF ReloadGateway
  <2>2. UNCHANGED AbstractVars
    BY <1>14 DEF ReloadGateway, AbstractVars, directory
  <2>3. \A status : [l EXCEPT !.reload = status].config = l.config
    BY <1>0 DEF LocalState
  <2> QED BY <1>a, <1>b, <2>1, <2>2, <2>3
<1>15. CASE SaveValidatedDraft(p)
  BY <1>1, <1>15, IdleIsLive DEF SaveValidatedDraft, AbstractVars, directory
<1>16. CASE RequestFails(p)
  BY <1>2, <1>16 DEF RequestFails, AbstractVars, directory
<1> QED BY <1>3, <1>4, <1>5, <1>6, <1>7, <1>8, <1>9, <1>10, <1>11, <1>12, <1>13,
           <1>14, <1>15, <1>16 DEF Request, Release

\* The configurations of the records, as the service's history.
History == [i \in DOMAIN records |-> records[i].config]

\* Writing gateway.json activates a fresh or a recorded configuration.
LEMMA WriteConfigStep ==
  ASSUME TypeOK, LiveInv, NEW p \in Handlers,
         WriteGeneratedConfig(p) \/ WriteRecordedConfig(p), backend' = backend
  PROVE  LiveInv' /\ Service!Activate
<1> DEFINE l == loc[p]
<1>0. /\ l \in LocalState /\ records \in Seq(Record)
      /\ LiveAt(pc[p], l, everLive, records)
  BY ReadType DEF LiveInv, TypeOK
<1>1. /\ gatewayJson' = l.config /\ everLive' = everLive \cup {l.config}
      /\ records' = records
      /\ \E ph \in {"artifacts", "restore"} : Goto(p, ph, l)
      /\ pc[p] \in {"writeConfig", "rollbackConfig"}
  BY DEF WriteGeneratedConfig, WriteRecordedConfig, WriteConfig
<1>2. LiveInv'
  <2>1. \A ph \in {"artifacts", "restore"} : LiveAt(ph, l, everLive', records)
    BY <1>1 DEF LiveAt, ReleasePhases
  <2>2. everLive \subseteq everLive'
    BY <1>1
  <2> QED BY <1>1, <2>1, <2>2, LiveMove
<1>3. Len(History) = Len(records) /\ DOMAIN History = DOMAIN records
  BY <1>0 DEF History
<1>4. l.config \in Config
  BY <1>0 DEF LocalState
<1>5. \/ \E n \in 1..(Len(History) + 1) : l.config.version = <<n>>
      \/ \E i \in DOMAIN History : l.config = History[i]
  <2>1. CASE pc[p] = "writeConfig"
    BY <1>0, <1>3, <2>1 DEF LiveAt
  <2>2. CASE pc[p] = "rollbackConfig"
    BY <1>0, <1>3, <2>2 DEF LiveAt, History
  <2> QED BY <1>1, <2>1, <2>2
<1>6. History' = History
  BY <1>1 DEF History
<1> QED BY <1>1, <1>2, <1>4, <1>5, <1>6
        DEF Service!Activate, Service!Fresh, Service!Recorded, History

\* A record remembers the configuration its request made live.
LEMMA CreateRecordStep ==
  ASSUME TypeOK, LiveInv, NEW p \in Handlers, CreateRecord(p), backend' = backend
  PROVE  LiveInv' /\ (Service!Remember \/ UNCHANGED Service!vars)
<1> DEFINE l == loc[p]
<1>0. records \in Seq(Record) /\ l.config \in everLive
  BY DEF CreateRecord, LiveInv, LiveAt, LivePhases, TypeOK
<1>1. /\ UNCHANGED <<gatewayJson, everLive>> /\ Finish(p)
      /\ \/ records' = records
         \/ \E r : records' = Append(records, r) /\ r.config = l.config
  BY DEF CreateRecord, Extended, directory
<1>2. CASE records' = records
  <2>1. LiveInv'
    BY <1>1, <1>2, LiveMove, IdleIsLive DEF Finish
  <2>2. History' = History
    BY <1>2 DEF History
  <2> QED BY <1>1, <2>1, <2>2 DEF Service!vars, History
<1>3. ASSUME NEW r, records' = Append(records, r), r.config = l.config
      PROVE  LiveInv' /\ Service!Remember
  <2>1. /\ DOMAIN records' = 1..(Len(records) + 1) /\ Len(records) \in Nat
        /\ DOMAIN records = 1..Len(records)
        /\ \A i \in 1..Len(records) : records'[i] = records[i]
        /\ records'[Len(records) + 1] = r
        /\ Len(records') = Len(records) + 1
    BY <1>0, <1>3
  <2>2. \A i \in DOMAIN records' : records'[i].config \in everLive'
    <3>1. ASSUME NEW i \in 1..Len(records) PROVE records'[i].config \in everLive
      BY <2>1 DEF LiveInv
    <3>2. records'[Len(records) + 1].config \in everLive
      BY <1>0, <1>3, <2>1
    <3>3. everLive' = everLive
      BY <1>1
    <3>4. \A i \in DOMAIN records' : i \in 1..Len(records) \/ i = Len(records) + 1
      BY <2>1
    <3> QED BY <3>1, <3>2, <3>3, <3>4
  <2>3. ASSUME NEW q \in Handlers
        PROVE  LiveAt(pc'[q], loc'[q], everLive', records')
    <3>1. CASE q = p
      BY <1>1, <3>1, FinishValues, IdleIsLive
    <3>2. CASE q # p
      <4>1. pc'[q] = pc[q] /\ loc'[q] = loc[q] /\ everLive' = everLive
        BY <1>1, <3>2, FinishValues
      <4>2. LiveAt(pc[q], loc[q], everLive, records)
        BY DEF LiveInv
      <4>3. pc[q] = "writeConfig" =>
              \E n \in 1..(Len(records') + 1) : loc[q].config.version = <<n>>
        BY <2>1, <4>2 DEF LiveAt
      <4>4. pc[q] = "rollbackConfig" =>
              \E i \in DOMAIN records' : loc[q].config = records'[i].config
        BY <2>1, <4>2 DEF LiveAt
      <4> QED BY <4>1, <4>2, <4>3, <4>4 DEF LiveAt
    <3> QED BY <3>1, <3>2
  <2>4. History \in Seq(Config) /\ Len(History) = Len(records)
    <3>1. \A i \in DOMAIN records : records[i].config \in Config
      <4>1. \A i \in DOMAIN records : records[i] \in Record
        BY <1>0
      <4> QED BY <4>1 DEF Record
    <3> QED BY <2>1, <3>1 DEF History
  <2>5. History' = Append(History, l.config)
    <3>1. DOMAIN (History') = 1..(Len(records) + 1)
      BY <2>1 DEF History
    <3>2. \A i \in 1..Len(records) : History'[i] = History[i]
      BY <2>1 DEF History
    <3>3. History'[Len(records) + 1] = l.config
      BY <1>3, <2>1 DEF History
    <3>4. /\ DOMAIN Append(History, l.config) = 1..(Len(records) + 1)
          /\ \A i \in 1..Len(records) : Append(History, l.config)[i] = History[i]
          /\ Append(History, l.config)[Len(records) + 1] = l.config
      BY <2>4
    <3>5. History' = [i \in 1..(Len(records) + 1) |-> History'[i]]
      BY <3>1 DEF History
    <3>6. Append(History, l.config)
            = [i \in 1..(Len(records) + 1) |-> Append(History, l.config)[i]]
      BY <2>4, <3>4
    <3>7. \A i \in 1..(Len(records) + 1) : History'[i] = Append(History, l.config)[i]
      BY <2>1, <3>2, <3>3, <3>4
    <3> QED BY <3>5, <3>6, <3>7
  <2> QED BY <1>0, <1>1, <2>2, <2>3, <2>5 DEF LiveInv, Service!Remember, History
<1> QED BY <1>1, <1>2, <1>3

LEMMA PublicationStep ==
  SafeVersions /\ LiveInv /\ [Next]_vars => LiveInv' /\ [Service!Next]_(Service!vars)
<1> SUFFICES ASSUME SafeVersions, LiveInv, [Next]_vars
             PROVE  LiveInv' /\ [Service!Next]_(Service!vars)
  OBVIOUS
<1>0. TypeOK /\ VersionInv
  BY DEF SafeVersions
<1>b. backend' = backend
  BY StoreStays
<1>1. ASSUME UNCHANGED AbstractVars
      PROVE  UNCHANGED Service!vars
  BY <1>b, <1>1 DEF AbstractVars, Service!vars
<1>2. CASE Environment
  <2>1. UNCHANGED <<gatewayJson, everLive>>
    <3>1. CASE Edit
      BY <3>1 DEF Edit, directory
    <3>2. CASE Crash
      BY <3>2 DEF Crash, directory
    <3> QED BY <1>2, <3>1, <3>2 DEF Environment, SaveApplications, SaveCertificate,
                                    DeleteCertificate, UpdateNginxConfigDraft
  <2>2. LiveInv'
    BY <1>0, <1>2, <2>1, EnvironmentLeavesRequests, IdleIsLive DEF LiveInv
  <2>3. CASE records' = records
    BY <1>1, <2>1, <2>2, <2>3 DEF AbstractVars
  <2>4. CASE records' # records
    <3>1. records' = <<>> /\ backend = "memory"
      <4>1. CASE Crash
        BY <2>4, <4>1 DEF Crash
      <4>2. CASE Edit
        BY <2>4, <4>2 DEF Edit
      <4> QED BY <1>2, <4>1, <4>2 DEF Environment, SaveApplications, SaveCertificate,
                                      DeleteCertificate, UpdateNginxConfigDraft
    <3>2. History' = <<>>
      BY <3>1 DEF History
    <3>3. Service!Forget
      BY <1>b, <2>1, <3>1, <3>2 DEF Service!Forget, History
    <3> QED BY <2>2, <3>3 DEF Service!Next
  <2> QED BY <2>3, <2>4
<1>3. ASSUME NEW p \in Handlers, Request(p) \/ Release(p) \/ RequestFails(p)
      PROVE  LiveInv' /\ [Service!Next]_(Service!vars)
  <2>1. CASE WriteGeneratedConfig(p) \/ WriteRecordedConfig(p)
    BY <1>0, <1>b, <2>1, WriteConfigStep DEF Service!Next
  <2>2. CASE CreateRecord(p)
    BY <1>0, <1>b, <2>2, CreateRecordStep DEF Service!Next
  <2>3. CASE ~(\/ WriteGeneratedConfig(p) \/ WriteRecordedConfig(p) \/ CreateRecord(p))
    BY <1>0, <1>1, <1>3, <2>3, HiddenStep
  <2> QED BY <2>1, <2>2, <2>3
<1>4. CASE UNCHANGED vars
  <2>1. UNCHANGED <<gatewayJson, records, everLive, pc, loc>>
    BY <1>4 DEF vars, directory
  <2> QED BY <1>1, <2>1 DEF AbstractVars, LiveInv
<1> QED BY <1>2, <1>3, <1>4 DEF Next

\* Seen from outside, a release or a rollback is one atomic change of the active
\* configuration and at most one entry of the history, which lists only
\* configurations that have been active: no interleaving of requests, edits,
\* failed writes or crashes shows anything else.
THEOREM Implementation == Spec => ImplementsPublication
<1>1. Init => LiveInv /\ Service!Init
  <2> SUFFICES ASSUME Init PROVE LiveInv /\ Service!Init
    OBVIOUS
  <2>1. LiveInv
    BY IdleIsLive DEF Init, LiveInv
  <2>2. records \in InitialHistories \cup {<<>>}
    BY DEF Init
  <2>3. History \in {[i \in DOMAIN h |-> h[i].config] : h \in InitialHistories \cup {<<>>}}
    BY <2>2 DEF History
  <2>4. everLive = {History[i] : i \in DOMAIN History}
    BY DEF Init, History
  <2> QED BY <2>1, <2>3, <2>4 DEF Init, Service!Init, Service!Recorded, History
<1> QED BY <1>1, VersionInit, VersionStep, PublicationStep, PTL
        DEF Spec, ImplementsPublication, Service!Spec
=============================================================================
