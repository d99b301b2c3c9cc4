--------------------------- MODULE ProtectionProofs ---------------------------
(***************************************************************************)
(* What the two generations of protection rules guarantee for any rows an  *)
(* earlier version left, any requests and any numbers of rules.            *)
(***************************************************************************)
EXTENDS ProtectionRules, FiniteSetTheorems, SequenceTheorems, TLAPS

-----------------------------------------------------------------------------
(***************************************************************************)
(* The tables and their modules.                                           *)
(***************************************************************************)
OlderTables == {"rate_limits", "upload_protection_rules", "bot_protection_rules",
                "dynamic_protection_rules"}
ModuleOf(t) == CASE t = "rate_limits" -> "cc-protection"
                 [] t = "upload_protection_rules" -> "upload-protection"
                 [] t = "bot_protection_rules" -> "bot-protection"
                 [] t = "dynamic_protection_rules" -> "dynamic-protection"
                 [] t = "rules" -> "attack-protection"

LEMMA TableNames ==
  /\ Len(Tables) = 5 /\ \A i \in 1 .. 5 : Tables[i] \in TableSet
  /\ \A i, j \in 1 .. 5 : Tables[i] = Tables[j] => i = j
  /\ \A t \in TableSet : \E i \in 1 .. 5 : t = Tables[i]
  /\ TableSet = OlderTables \cup {"rules"} /\ ReleasedTables = OlderTables
<1>1. Len(Tables) = 5 /\ Len(Listing) = 4
  BY DEF Tables, Listing
<1>2. /\ Tables[1] = "rate_limits" /\ Tables[2] = "upload_protection_rules"
      /\ Tables[3] = "bot_protection_rules" /\ Tables[4] = "dynamic_protection_rules"
      /\ Tables[5] = "rules"
  BY DEF Tables
<1>3. /\ Listing[1] = "rate_limits" /\ Listing[2] = "upload_protection_rules"
      /\ Listing[3] = "bot_protection_rules" /\ Listing[4] = "dynamic_protection_rules"
  BY DEF Listing
<1>4. \A i : i \in 1 .. 5 <=> i \in {1, 2, 3, 4, 5}
  OBVIOUS
<1>5. \A i : i \in 1 .. 4 <=> i \in {1, 2, 3, 4}
  OBVIOUS
<1>6. TableSet = OlderTables \cup {"rules"}
  BY <1>1, <1>2, <1>4 DEF TableSet, OlderTables
<1>7. ReleasedTables = OlderTables
  BY <1>1, <1>3, <1>5 DEF ReleasedTables, OlderTables
<1>8. \A i, j \in 1 .. 5 : Tables[i] = Tables[j] => i = j
  BY <1>2, <1>4
<1>9. \A t \in TableSet : \E i \in 1 .. 5 : t = Tables[i]
  BY <1>1 DEF TableSet
<1>10. \A i \in 1 .. 5 : Tables[i] \in TableSet
  BY <1>1 DEF TableSet
<1> QED BY <1>1, <1>6, <1>7, <1>8, <1>9, <1>10

LEMMA ReadOrderIs ==
  /\ Len(ReadOrder) = 5 /\ ReadOrder[5] = "protection_rules"
  /\ \A i \in 1 .. 4 : ReadOrder[i] \in OlderTables
  /\ \A i, j \in 1 .. 5 : ReadOrder[i] = ReadOrder[j] => i = j
  /\ \A t \in OlderTables : \E i \in 1 .. 4 : t = ReadOrder[i]
<1> DEFINE lists == OlderTables \cup {"protection_rules"}
           last == "protection_rules"
<1>1. Listing \in Seq(lists)
  BY DEF Listing, OlderTables
<1>2. last \in lists
  OBVIOUS
<1>5. Len(Listing) = 4
  BY DEF Listing
<1>6. /\ Listing[1] = "rate_limits" /\ Listing[2] = "upload_protection_rules"
      /\ Listing[3] = "bot_protection_rules" /\ Listing[4] = "dynamic_protection_rules"
  BY DEF Listing
<1>7. Len(ReadOrder) = 5 /\ ReadOrder[5] = last /\ \A i \in 1 .. 4 : ReadOrder[i] = Listing[i]
  <2> HIDE DEF lists, last
  <2>1. /\ Len(Append(Listing, last)) = Len(Listing) + 1
        /\ \A i \in 1 .. Len(Listing) : Append(Listing, last)[i] = Listing[i]
        /\ Append(Listing, last)[Len(Listing) + 1] = last
    BY <1>1, <1>2, AppendProperties
  <2>2. ReadOrder = Append(Listing, last)
    BY DEF ReadOrder, last
  <2>3. Len(Listing) + 1 = 5
    BY <1>5
  <2> QED BY <1>5, <2>1, <2>2, <2>3, Zenon
<1>3. \A i : i \in 1 .. 5 <=> i \in {1, 2, 3, 4, 5}
  OBVIOUS
<1>4. \A i : i \in 1 .. 4 <=> i \in {1, 2, 3, 4}
  OBVIOUS
<1>8. /\ ReadOrder[1] = "rate_limits" /\ ReadOrder[2] = "upload_protection_rules"
      /\ ReadOrder[3] = "bot_protection_rules" /\ ReadOrder[4] = "dynamic_protection_rules"
      /\ ReadOrder[5] = "protection_rules" /\ Len(ReadOrder) = 5
  BY <1>4, <1>6, <1>7
<1> QED BY <1>3, <1>4, <1>8 DEF OlderTables

LEMMA TableOfModule ==
  /\ DOMAIN TableOf = {"cc-protection", "upload-protection", "bot-protection", "dynamic-protection"}
  /\ \A m \in DOMAIN TableOf : TableOf[m] \in OlderTables /\ ModuleOf(TableOf[m]) = m
  /\ \A t \in OlderTables : ModuleOf(t) \in DOMAIN TableOf /\ TableOf[ModuleOf(t)] = t
  /\ ModuleOf("rules") = "attack-protection"
BY DEF TableOf, OlderTables, ModuleOf

LEMMA LegacyRefs ==
  /\ \A t, id : LegacyRef(t, id) # NoRef
  /\ \A t, id : LegacyRef(t, id)[1] = t /\ LegacyRef(t, id)[2] = id
  /\ \A t, id, u, n : LegacyRef(t, id) = LegacyRef(u, n) => t = u /\ id = n
BY DEF LegacyRef, NoRef

-----------------------------------------------------------------------------
(***************************************************************************)
(* The conversions.  Every rule has the same columns; what a row becomes   *)
(* is normal already, so that copying it changes nothing a release reads.  *)
(***************************************************************************)
Columns == {"name", "module", "category", "site", "enabled", "priority", "match", "detail",
            "action", "source", "status", "ref"}
IsRule(r) == r = [f \in Columns |-> r[f]]

LEMMA TidyTwice ==
  /\ \A text : Tidy(Tidy(text)) = Tidy(text)
  /\ \A S : MethodSet(MethodSet(S)) = MethodSet(S)
  /\ \A p : Priority(Priority(p)) = Priority(p)
<1>1. \A text : Tidy(Tidy(text)) = Tidy(text)
  BY TidiedAssumption DEF Tidy
<1>2. ASSUME NEW S PROVE MethodSet(MethodSet(S)) = MethodSet(S)
  BY <1>1, Zenon DEF MethodSet
<1>3. ASSUME NEW p PROVE Priority(Priority(p)) = Priority(p)
  <2>1. ~(100 <= 0)
    OBVIOUS
  <2>2. CASE p <= 0
    BY <2>1, <2>2, Zenon DEF Priority
  <2>3. CASE ~(p <= 0)
    BY <2>3, Zenon DEF Priority
  <2> QED BY <2>2, <2>3
<1> QED BY <1>1, <1>2, <1>3

LEMMA TidyMatchTwice ==
  ASSUME NEW m
  PROVE  TidyMatch(TidyMatch(m)) = TidyMatch(m)
BY TidyTwice, SMTT(20) DEF TidyMatch

LEMMA TidyTextsTwice ==
  ASSUME NEW d, NEW fields
  PROVE  TidyTexts(TidyTexts(d, fields), fields) = TidyTexts(d, fields)
BY TidyTwice, SMTT(20) DEF TidyTexts

LEMMA TidyDetailTwice ==
  ASSUME NEW module, NEW d
  PROVE  TidyDetail(module, TidyDetail(module, d)) = TidyDetail(module, d)
<1>1. CASE module = "cc-protection"
  <2>1. \A e : TidyDetail(module, e) = TidyTexts(e, {"counter", "sessionSource", "sessionName", "device"})
    BY <1>1 DEF TidyDetail
  <2> QED BY <2>1, TidyTextsTwice
<1>2. CASE module = "upload-protection"
  <2>1. \A e : TidyDetail(module, e) = [e EXCEPT !.extensions = MethodSet(e.extensions)]
    BY <1>2 DEF TidyDetail
  <2>2. PICK u : u = MethodSet(d.extensions)
    OBVIOUS
  <2>3. PICK v : v = [d EXCEPT !.extensions = u]
    OBVIOUS
  <2>4. PICK w : w = MethodSet(v.extensions)
    OBVIOUS
  <2>5. [v EXCEPT !.extensions = w] = v
    <3>1. v = [f \in DOMAIN d |-> v[f]]
      BY <2>3, SMTT(20)
    <3>2. CASE "extensions" \in DOMAIN d
      <4>1. v.extensions = u /\ MethodSet(u) = u
        BY <2>2, <2>3, <3>2, TidyTwice, SMTT(20)
      <4>2. w = v.extensions
        BY <2>4, <4>1, Zenon
      <4>3. PICK e : e = [v EXCEPT !.extensions = v.extensions]
        OBVIOUS
      <4>4. e = v
        BY <3>1, <4>3, SMTT(20)
      <4> QED BY <4>2, <4>3, <4>4, Zenon
    <3>3. CASE "extensions" \notin DOMAIN d
      BY <2>3, <3>3, Zenon
    <3> QED BY <3>2, <3>3
  <2>6. TidyDetail(module, d) = v
    BY <2>1, <2>2, <2>3, Zenon
  <2>7. TidyDetail(module, v) = v
    BY <2>1, <2>4, <2>5, Zenon
  <2> QED BY <2>6, <2>7, Zenon
<1>3. CASE module = "bot-protection"
  <2>1. \A e : TidyDetail(module, e) = TidyTexts(e, {"mode", "failure", "notice"})
    BY <1>3 DEF TidyDetail
  <2> QED BY <2>1, TidyTextsTwice
<1>4. CASE module = "dynamic-protection"
  <2>1. \A e : TidyDetail(module, e) = TidyTexts(e, {"mode", "placement", "failure", "marker", "overflow"})
    BY <1>4 DEF TidyDetail
  <2> QED BY <2>1, TidyTextsTwice
<1>5. CASE module \notin {"cc-protection", "upload-protection", "bot-protection", "dynamic-protection"}
  <2>1. \A e : TidyDetail(module, e) = e
    BY <1>5 DEF TidyDetail
  <2> QED BY <2>1
<1> QED BY <1>1, <1>2, <1>3, <1>4, <1>5

\* A column of a rule is set, to what it held or to another value.
LEMMA SetColumn ==
  ASSUME NEW r, NEW f, NEW x, IsRule(r)
  PROVE  /\ IsRule([r EXCEPT ![f] = x]) /\ ((f \in Columns /\ x = r[f]) => [r EXCEPT ![f] = x] = r)
         /\ (f \in Columns => [r EXCEPT ![f] = x][f] = x)
         /\ \A g \in Columns \ {f} : [r EXCEPT ![f] = x][g] = r[g]
BY SMTT(20) DEF IsRule

LEMMA NormalizeIs ==
  ASSUME NEW r, IsRule(r), NEW n, n = Normalize(r)
  PROVE  /\ IsRule(n) /\ n.name = Tidy(r.name) /\ n.match = TidyMatch(r.match)
         /\ n.action = Tidy(r.action) /\ n.detail = TidyDetail(r.module, r.detail)
         /\ n.priority = Priority(r.priority)
         /\ n.source = OrElse(r.source, "", "protection_rules")
         /\ n.status = OrElse(r.status, "", "native")
         /\ n.module = r.module /\ n.category = r.category /\ n.site = r.site
         /\ n.enabled = r.enabled /\ n.ref = r.ref
<1>1. PICK a, b, c, d, e : /\ a = Tidy(r.name) /\ b = TidyMatch(r.match) /\ c = Tidy(r.action)
                           /\ d = TidyDetail(r.module, r.detail) /\ e = Priority(r.priority)
  OBVIOUS
<1>2. PICK g, h : g = OrElse(r.source, "", "protection_rules") /\ h = OrElse(r.status, "", "native")
  OBVIOUS
<1>3. PICK m : m = [r EXCEPT !.name = a, !.match = b, !.action = c, !.detail = d,
                             !.priority = e, !.source = g, !.status = h]
  OBVIOUS
<1>16. n = m
  BY <1>1, <1>2, <1>3, Zenon DEF Normalize
<1> HIDE <1>1, <1>2
<1>4. /\ m.name = a /\ m.match = b /\ m.action = c /\ m.detail = d
      /\ m.priority = e /\ m.source = g /\ m.status = h /\ m.module = r.module
      /\ m.category = r.category /\ m.site = r.site /\ m.enabled = r.enabled /\ m.ref = r.ref
  <2>1. m.name = a /\ m.match = b /\ m.action = c /\ m.detail = d
    BY <1>3, SMTT(20) DEF IsRule, Columns
  <2>2. m.priority = e /\ m.source = g /\ m.status = h
    BY <1>3, SMTT(20) DEF IsRule, Columns
  <2>3. /\ m.module = r.module /\ m.category = r.category /\ m.site = r.site
        /\ m.enabled = r.enabled /\ m.ref = r.ref
    BY <1>3, SMTT(20) DEF IsRule, Columns
  <2> QED BY <2>1, <2>2, <2>3
<1>5. PICK r1 : r1 = [r EXCEPT !.name = a]
  OBVIOUS
<1>6. PICK r2 : r2 = [r1 EXCEPT !.match = b]
  OBVIOUS
<1>7. PICK r3 : r3 = [r2 EXCEPT !.action = c]
  OBVIOUS
<1>8. PICK r4 : r4 = [r3 EXCEPT !.detail = d]
  OBVIOUS
<1>9. PICK r5 : r5 = [r4 EXCEPT !.priority = e]
  OBVIOUS
<1>10. PICK r6 : r6 = [r5 EXCEPT !.source = g]
  OBVIOUS
<1>11. PICK r7 : r7 = [r6 EXCEPT !.status = h]
  OBVIOUS
<1>12. m = r7
  BY <1>3, <1>5, <1>6, <1>7, <1>8, <1>9, <1>10, <1>11, Zenon
<1> HIDE <1>3
<1>13. IsRule(r1) /\ (IsRule(r1) => IsRule(r2)) /\ (IsRule(r2) => IsRule(r3))
  BY <1>5, <1>6, <1>7, SetColumn
<1>14. (IsRule(r3) => IsRule(r4)) /\ (IsRule(r4) => IsRule(r5)) /\ (IsRule(r5) => IsRule(r6))
  BY <1>8, <1>9, <1>10, SetColumn
<1>15. IsRule(r6) => IsRule(r7)
  BY <1>11, SetColumn
<1> QED BY <1>1, <1>2, <1>4, <1>12, <1>16, <1>13, <1>14, <1>15, Zenon

\* A rule that Normalize leaves as it is: rules whose columns are tidy.
IsTidy(n) ==
  /\ IsRule(n) /\ Tidy(n.name) = n.name /\ TidyMatch(n.match) = n.match
  /\ Tidy(n.action) = n.action /\ TidyDetail(n.module, n.detail) = n.detail
  /\ Priority(n.priority) = n.priority
  /\ OrElse(n.source, "", "protection_rules") = n.source
  /\ OrElse(n.status, "", "native") = n.status

LEMMA TidyIsNormal ==
  ASSUME NEW n, IsTidy(n)
  PROVE  Normalize(n) = n
<1>1. Normalize(n) = [n EXCEPT !.name = n.name, !.match = n.match, !.action = n.action,
                               !.detail = n.detail, !.priority = n.priority,
                               !.source = n.source, !.status = n.status]
  BY Zenon DEF Normalize, IsTidy
<1>2. IsRule(n)
  BY Zenon DEF IsTidy
<1>3. /\ [n EXCEPT !.name = n.name] = n /\ [n EXCEPT !.match = n.match] = n
      /\ [n EXCEPT !.action = n.action] = n /\ [n EXCEPT !.detail = n.detail] = n
      /\ [n EXCEPT !.priority = n.priority] = n /\ [n EXCEPT !.source = n.source] = n
      /\ [n EXCEPT !.status = n.status] = n
  BY <1>2, SetColumn DEF Columns
<1> QED BY <1>1, <1>3, Zenon

LEMMA NormalIsTidy ==
  ASSUME NEW r, IsRule(r), NEW n, n = Normalize(r)
  PROVE  IsTidy(n)
<1>1. /\ IsRule(n) /\ n.name = Tidy(r.name) /\ n.match = TidyMatch(r.match)
      /\ n.action = Tidy(r.action) /\ n.detail = TidyDetail(r.module, r.detail)
      /\ n.priority = Priority(r.priority)
      /\ n.source = OrElse(r.source, "", "protection_rules")
      /\ n.status = OrElse(r.status, "", "native")
      /\ n.module = r.module
  BY NormalizeIs
<1>2. OrElse(n.source, "", "protection_rules") = n.source /\ OrElse(n.status, "", "native") = n.status
  BY <1>1, Zenon DEF OrElse
<1>3. /\ n.name = Tidy(r.name) /\ n.match = TidyMatch(r.match) /\ n.action = Tidy(r.action)
      /\ n.detail = TidyDetail(n.module, r.detail) /\ n.priority = Priority(r.priority)
  BY <1>1, Zenon
<1>4. Tidy(n.name) = n.name /\ Tidy(n.action) = n.action /\ Priority(n.priority) = n.priority
  BY <1>3, TidyTwice
<1>5. TidyMatch(n.match) = n.match
  BY <1>3, TidyMatchTwice
<1>6. TidyDetail(n.module, n.detail) = n.detail
  BY <1>3, TidyDetailTwice
<1> QED BY <1>1, <1>2, <1>4, <1>5, <1>6, Zenon DEF IsTidy

\* What a row of an older table becomes.
LEMMA MigratedRule ==
  ASSUME NEW module, NEW category, NEW row, NEW site, NEW priority, NEW match, NEW detail,
         NEW action, NEW n,
         n = Normalize(Migrated(module, category, row, site, priority, match, detail, action))
  PROVE  IsTidy(n) /\ n.module = module /\ n.enabled = row.enabled /\ n.ref = NoRef
<1>1. PICK r : r = Migrated(module, category, row, site, priority, match, detail, action)
  OBVIOUS
<1>2. IsRule(r) /\ r.module = module /\ r.enabled = row.enabled /\ r.ref = NoRef
  BY <1>1 DEF Migrated, IsRule, Columns
<1> HIDE <1>1
<1>3. n = Normalize(r)
  BY <1>1, Zenon
<1>4. IsTidy(n)
  BY <1>2, <1>3, NormalIsTidy
<1>5. n.module = r.module /\ n.enabled = r.enabled /\ n.ref = r.ref
  BY <1>2, <1>3, NormalizeIs
<1> QED BY <1>2, <1>4, <1>5, Zenon

LEMMA LegacyRule ==
  ASSUME NEW t \in TableSet, NEW row, NEW n, n = Legacy(t, row)
  PROVE  IsTidy(n) /\ n.module = ModuleOf(t) /\ n.enabled = row.enabled /\ n.ref = NoRef
<1>1. CASE t = "rate_limits"
  <2>1. ModuleOf(t) = "cc-protection"
    BY <1>1 DEF ModuleOf
  <2>4. n = FromRateLimit(row)
    BY <1>1 DEF Legacy
  <2>2. \E match, detail, action :
           n = Normalize(Migrated("cc-protection", "rate-limit", row, row.site, 100,
                                  match, detail, action))
    <3>1. PICK match : match = [NoMatch EXCEPT !.path = RatePath(row).path,
                                               !.pathMatch = RatePath(row).pathMatch,
                                               !.methods = row.methods]
      OBVIOUS
    <3>2. PICK detail :
             detail = [counter |-> CASE row.scope = "uri" -> "client_ip_path"
                                     [] row.scope = "site" -> "global" [] OTHER -> "client_ip",
                       sessionSource |-> "", sessionName |-> "", device |-> "",
                       threshold |-> row.threshold, window |-> row.window, ban |-> row.ban]
      OBVIOUS
    <3>3. PICK action : action = OrElse(row.ccAction, "", OrElse(row.action, "", "rate-limit"))
      OBVIOUS
    <3>4. n = Normalize(Migrated("cc-protection", "rate-limit", row, row.site, 100, match, detail,
                                 action))
      BY <2>4, <3>1, <3>2, <3>3, Zenon DEF FromRateLimit
    <3> QED BY <3>4, Zenon
  <2>3. IsTidy(n) /\ n.module = "cc-protection" /\ n.enabled = row.enabled /\ n.ref = NoRef
    BY <2>2, MigratedRule
  <2> QED BY <2>1, <2>3
<1>2. CASE t = "upload_protection_rules"
  <2>1. n = FromUpload(row) /\ ModuleOf(t) = "upload-protection"
    BY <1>2 DEF Legacy, ModuleOf
  <2>2. \E match, detail, action :
           n = Normalize(Migrated("upload-protection", "upload", row, row.site, row.priority,
                                  match, detail, action))
    BY <2>1, Zenon DEF FromUpload
  <2>3. IsTidy(n) /\ n.module = "upload-protection" /\ n.enabled = row.enabled /\ n.ref = NoRef
    BY <2>2, MigratedRule
  <2> QED BY <2>1, <2>3
<1>3. CASE t = "bot_protection_rules"
  <2>1. n = FromBot(row) /\ ModuleOf(t) = "bot-protection"
    BY <1>3 DEF Legacy, ModuleOf
  <2>2. \E match, detail, action :
           n = Normalize(Migrated("bot-protection", "challenge", row, row.site, row.priority,
                                  match, detail, action))
    BY <2>1, Zenon DEF FromBot
  <2>3. IsTidy(n) /\ n.module = "bot-protection" /\ n.enabled = row.enabled /\ n.ref = NoRef
    BY <2>2, MigratedRule
  <2> QED BY <2>1, <2>3
<1>4. CASE t = "dynamic_protection_rules"
  <2>1. n = FromDynamic(row) /\ ModuleOf(t) = "dynamic-protection"
    BY <1>4 DEF Legacy, ModuleOf
  <2>2. \E category, match, detail, action :
           n = Normalize(Migrated("dynamic-protection", category, row, row.site, row.priority,
                                  match, detail, action))
    BY <2>1, Zenon DEF FromDynamic
  <2>3. IsTidy(n) /\ n.module = "dynamic-protection" /\ n.enabled = row.enabled /\ n.ref = NoRef
    BY <2>2, MigratedRule
  <2> QED BY <2>1, <2>3
<1>5. CASE t = "rules"
  <2>1. n = FromAttackRule(row) /\ ModuleOf(t) = "attack-protection"
    BY <1>5 DEF Legacy, ModuleOf
  <2>2. \E match, detail, action :
           n = Normalize(Migrated("attack-protection", "managed", row, 0, row.priority,
                                  match, detail, action))
    BY <2>1, Zenon DEF FromAttackRule
  <2>3. IsTidy(n) /\ n.module = "attack-protection" /\ n.enabled = row.enabled /\ n.ref = NoRef
    BY <2>2, MigratedRule
  <2> QED BY <2>1, <2>3
<1> QED BY <1>1, <1>2, <1>3, <1>4, <1>5, TableNames DEF OlderTables

LEMMA RowRule ==
  ASSUME NEW t \in TableSet, NEW id, NEW row, NEW r, r = FromLegacy(t, id, row)
  PROVE  /\ IsTidy(r) /\ r.module = ModuleOf(t) /\ r.enabled = row.enabled
         /\ r.ref = LegacyRef(t, id)
<1>1. PICK n : n = Legacy(t, row)
  OBVIOUS
<1>2. IsTidy(n) /\ n.module = ModuleOf(t) /\ n.enabled = row.enabled
  BY <1>1, LegacyRule
<1>3. r = [n EXCEPT !.ref = LegacyRef(t, id)]
  BY <1>1, Zenon DEF FromLegacy
<1>4. IsRule(n)
  BY <1>2 DEF IsTidy
<1>5. /\ IsRule(r) /\ r.ref = LegacyRef(t, id) /\ \A g \in Columns \ {"ref"} : r[g] = n[g]
  <2>1. PICK x : x = LegacyRef(t, id)
    OBVIOUS
  <2>2. r = [n EXCEPT !.ref = x]
    BY <1>3, <2>1, Zenon
  <2>3. "ref" \in Columns
    BY DEF Columns
  <2>4. /\ IsRule(r) /\ r.ref = x /\ \A g \in Columns \ {"ref"} : r[g] = n[g]
    <3>1. IsRule(r)
      BY <1>4, <2>2, SetColumn
    <3> QED BY <1>4, <2>2, <2>3, <3>1, SMTT(20) DEF IsRule
  <2> QED BY <2>1, <2>4, Zenon
<1>6. /\ r.name = n.name /\ r.module = n.module /\ r.match = n.match /\ r.action = n.action
      /\ r.detail = n.detail /\ r.priority = n.priority /\ r.source = n.source
      /\ r.status = n.status /\ r.enabled = n.enabled
  BY <1>5 DEF Columns
<1>7. IsTidy(r)
  BY <1>2, <1>5, <1>6, Zenon DEF IsTidy
<1> QED BY <1>2, <1>5, <1>6, <1>7

LEMMA SameRule ==
  ASSUME NEW q, NEW r, IsRule(q), IsRule(r), \A g \in Columns : q[g] = r[g]
  PROVE  q = r
BY SMTT(20) DEF IsRule

LEMMA EssenceIs ==
  ASSUME NEW r, IsRule(r), NEW e, e = Essence(r)
  PROVE  /\ IsRule(e) /\ e.source = "" /\ e.status = "" /\ e.ref = NoRef
         /\ \A g \in Columns \ {"source", "status", "ref"} : e[g] = r[g]
         /\ e.module = r.module /\ e.enabled = r.enabled
<1>1. PICK none : none = ""
  OBVIOUS
<1>2. PICK r1 : r1 = [r EXCEPT !.source = none]
  OBVIOUS
<1>3. PICK r2 : r2 = [r1 EXCEPT !.status = none]
  OBVIOUS
<1>4. PICK r3 : r3 = [r2 EXCEPT !.ref = NoRef]
  OBVIOUS
<1>5. e = r3
  BY <1>1, <1>2, <1>3, <1>4, Zenon DEF Essence
<1> HIDE <1>1
<1>6. /\ "source" \in Columns /\ "status" \in Columns /\ "ref" \in Columns /\ "module" \in Columns
      /\ "enabled" \in Columns
  BY DEF Columns
<1>7. IsRule(r1) /\ r1.source = none /\ \A g \in Columns \ {"source"} : r1[g] = r[g]
  <2>1. IsRule(r1)
    BY <1>2, SetColumn
  <2> QED BY <1>2, <1>6, <2>1, SMTT(20) DEF IsRule
<1>8. IsRule(r2) /\ r2.status = none /\ \A g \in Columns \ {"status"} : r2[g] = r1[g]
  <2>1. IsRule(r2)
    BY <1>3, <1>7, SetColumn
  <2> QED BY <1>3, <1>6, <1>7, <2>1, SMTT(20) DEF IsRule
<1>9. IsRule(r3) /\ r3.ref = NoRef /\ \A g \in Columns \ {"ref"} : r3[g] = r2[g]
  <2>1. IsRule(r3)
    BY <1>4, <1>8, SetColumn
  <2> QED BY <1>4, <1>6, <1>8, <2>1, SMTT(20) DEF IsRule
<1>10. r3.source = none /\ r3.status = none
  BY <1>6, <1>7, <1>8, <1>9
<1>11. \A g \in Columns \ {"source", "status", "ref"} : r3[g] = r[g]
  BY <1>7, <1>8, <1>9
<1>12. r3.module = r.module /\ r3.enabled = r.enabled
  BY <1>6, <1>11
<1> QED BY <1>1, <1>5, <1>9, <1>10, <1>11, <1>12, Zenon

\* Essence does not see where a rule came from.
LEMMA EssenceForgets ==
  ASSUME NEW q, NEW r, IsRule(q), IsRule(r),
         \A g \in Columns \ {"source", "status", "ref"} : q[g] = r[g]
  PROVE  Essence(q) = Essence(r)
<1>1. PICK none : none = ""
  OBVIOUS
<1>2. PICK a : a = Essence(q)
  OBVIOUS
<1>3. PICK b : b = Essence(r)
  OBVIOUS
<1>4. /\ IsRule(a) /\ a.source = none /\ a.status = none /\ a.ref = NoRef
      /\ \A g \in Columns \ {"source", "status", "ref"} : a[g] = q[g]
  BY <1>1, <1>2, EssenceIs, Zenon
<1>5. /\ IsRule(b) /\ b.source = none /\ b.status = none /\ b.ref = NoRef
      /\ \A g \in Columns \ {"source", "status", "ref"} : b[g] = r[g]
  BY <1>1, <1>3, EssenceIs, Zenon
<1> HIDE <1>1, <1>2, <1>3
<1>6. \A g \in Columns : a[g] = b[g]
  BY <1>4, <1>5, SMTT(20)
<1>7. a = b
  BY <1>4, <1>5, <1>6, SameRule
<1> QED BY <1>2, <1>3, <1>7, Zenon

\* A copy is the row it was made from, but for where it says it came from.
LEMMA CopyOfRow ==
  ASSUME NEW t \in TableSet, NEW id, NEW row, NEW c, c.table = t, c.id = id, c.row = row,
         NEW k, k = Copy(c)
  PROVE  /\ IsRule(k) /\ k.module = ModuleOf(t) /\ k.enabled = row.enabled
         /\ k.ref = LegacyRef(t, id)
         /\ Essence(k) = Essence(FromLegacy(t, id, row))
<1>1. PICK r : r = FromLegacy(t, id, row)
  OBVIOUS
<1>2. IsTidy(r) /\ r.module = ModuleOf(t) /\ r.enabled = row.enabled /\ r.ref = LegacyRef(t, id)
  BY <1>1, RowRule
<1>3. Normalize(r) = r /\ IsRule(r)
  BY <1>2, TidyIsNormal DEF IsTidy
<1>4. k = [r EXCEPT !.source = "legacy", !.status = "migrated"]
  BY <1>1, <1>3, Zenon DEF Copy
<1>6. PICK r1 : r1 = [r EXCEPT !.source = "legacy"]
  OBVIOUS
<1>8. PICK r2 : r2 = [r1 EXCEPT !.status = "migrated"]
  OBVIOUS
<1>9. k = r2
  BY <1>4, <1>6, <1>8, Zenon
<1>10. /\ "source" \in Columns /\ "status" \in Columns /\ "ref" \in Columns
       /\ "module" \in Columns /\ "enabled" \in Columns
  BY DEF Columns
<1>11. IsRule(r1) /\ \A g \in Columns \ {"source"} : r1[g] = r[g]
  <2>1. IsRule(r1)
    BY <1>3, <1>6, SetColumn
  <2> QED BY <1>3, <1>6, <1>10, <2>1, SMTT(20) DEF IsRule
<1>12. IsRule(r2) /\ \A g \in Columns \ {"status"} : r2[g] = r1[g]
  <2>1. IsRule(r2)
    BY <1>8, <1>11, SetColumn
  <2> QED BY <1>8, <1>10, <1>11, <2>1, SMTT(20) DEF IsRule
<1>13. r2.module = r.module /\ r2.enabled = r.enabled /\ r2.ref = r.ref
  BY <1>10, <1>11, <1>12
<1>14. \A g \in Columns \ {"source", "status", "ref"} : r2[g] = r[g]
  BY <1>11, <1>12
<1>5. Essence(r2) = Essence(r)
  BY <1>3, <1>12, <1>14, EssenceForgets
<1> QED BY <1>1, <1>2, <1>5, <1>9, <1>12, <1>13, Zenon

LEMMA StoredRules ==
  ASSUME NEW req, NEW s, s = Stored(req)
  PROVE  IsRule(s) /\ s.module = req.module /\ s.ref = NoRef
<1>1. PICK r : r = ToProtectionRule(req)
  OBVIOUS
<1>2. PICK none : none = ""
  OBVIOUS
<1>3. r = [name |-> req.name, module |-> req.module, category |-> req.category,
           site |-> req.site, enabled |-> req.enabled, priority |-> Priority(req.priority),
           match |-> req.match, detail |-> req.detail, action |-> req.action,
           source |-> "protection_rules", status |-> none, ref |-> NoRef]
  BY <1>1, <1>2, Zenon DEF ToProtectionRule
<1> HIDE <1>1, <1>2
<1>4. IsRule(r) /\ r.module = req.module /\ r.ref = NoRef
  BY <1>3 DEF IsRule, Columns
<1>5. s = Normalize(r)
  BY <1>1, Zenon DEF Stored
<1>6. IsRule(s) /\ s.module = r.module /\ s.ref = r.ref
  BY <1>4, <1>5, NormalizeIs
<1> QED BY <1>4, <1>6, Zenon

-----------------------------------------------------------------------------
(***************************************************************************)
(* Tables and what is in force.                                            *)
(***************************************************************************)
LEMMA PutIs ==
  ASSUME NEW T, NEW i, NEW v, NEW p, p = Put(T, i, v)
  PROVE  DOMAIN p = DOMAIN T \cup {i} /\ p[i] = v /\ \A j \in DOMAIN T \ {i} : p[j] = T[j]
BY DEF Put

LEMMA WithoutIs ==
  ASSUME NEW T, NEW i, NEW p, p = Without(T, i)
  PROVE  DOMAIN p = DOMAIN T \ {i} /\ \A j \in DOMAIN p : p[j] = T[j]
BY DEF Without

\* The columns of a stored rule that say what it is a copy of.
RuleFits(r) ==
  /\ IsRule(r)
  /\ r.module \in DOMAIN TableOf \cup {"access-control", "attack-protection"}
  /\ \/ r.ref = NoRef
     \/ \E t \in TableSet : \E n : r.ref = LegacyRef(t, n) /\ r.module = ModuleOf(t)
Fits(R) == \A id \in DOMAIN R : RuleFits(R[id])
Unique(R) == \A i, j \in DOMAIN R : i # j /\ R[i].ref # NoRef => R[i].ref # R[j].ref

LEMMA RefsOf ==
  ASSUME NEW R, NEW ref
  PROVE  ref \in Refs(R) <=> ref # NoRef /\ \E id \in DOMAIN R : R[id].ref = ref
BY Zenon DEF Refs

LEMMA InGenerated ==
  ASSUME NEW R, NEW L, NEW e
  PROVE  e \in GeneratedRules(R, L) <=>
           \/ \E id \in DOMAIN R : R[id].enabled /\ e = FromRule(R, id)
           \/ \E t \in ReleasedTables : \E id \in DOMAIN L[t] :
                /\ L[t][id].enabled /\ LegacyRef(t, id) \notin Refs(R)
                /\ e = FromRow(L, t, id)
<1> DEFINE Own == {FromRule(R, id) : id \in {i \in DOMAIN R : R[i].enabled}}
           Of(t) == {FromRow(L, t, id) : id \in {i \in DOMAIN L[t] :
                        L[t][i].enabled /\ LegacyRef(t, i) \notin Refs(R)}}
<1>1. GeneratedRules(R, L) = Own \cup UNION {Of(t) : t \in ReleasedTables}
  BY Zenon DEF GeneratedRules
<1>2. e \in Own <=> \E id \in DOMAIN R : R[id].enabled /\ e = FromRule(R, id)
  BY Zenon
<1>3. ASSUME NEW t
      PROVE  e \in Of(t) <=> \E id \in DOMAIN L[t] :
                /\ L[t][id].enabled /\ LegacyRef(t, id) \notin Refs(R)
                /\ e = FromRow(L, t, id)
  BY Zenon
<1> HIDE DEF Own, Of
<1>4. e \in UNION {Of(t) : t \in ReleasedTables}
        <=> \E t \in ReleasedTables : e \in Of(t)
  BY Zenon
<1> QED BY <1>1, <1>2, <1>3, <1>4, Zenon

\* An entry of a release: what it is known as and what it says.
LEMMA RuleEntry ==
  ASSUME NEW R, NEW id \in DOMAIN R, RuleFits(R[id]), NEW e, e = FromRule(R, id)
  PROVE  /\ e.as = IF R[id].ref = NoRef THEN LegacyRef("protection_rules", id) ELSE R[id].ref
         /\ e.stored = LegacyRef("protection_rules", id) /\ e.rule = Essence(R[id])
         /\ e.rule.module = R[id].module /\ e.rule.enabled = R[id].enabled
<1>1. PICK as : as = IF R[id].ref = NoRef THEN LegacyRef("protection_rules", id) ELSE R[id].ref
  OBVIOUS
<1>2. e = [as |-> as, stored |-> LegacyRef("protection_rules", id), rule |-> Essence(R[id])]
  BY <1>1, Zenon DEF FromRule
<1>3. Essence(R[id]).module = R[id].module /\ Essence(R[id]).enabled = R[id].enabled
  BY EssenceIs DEF RuleFits
<1> HIDE <1>1
<1>4. /\ e.as = as /\ e.stored = LegacyRef("protection_rules", id) /\ e.rule = Essence(R[id])
  BY <1>2
<1> QED BY <1>1, <1>3, <1>4, Zenon

LEMMA RowEntry ==
  ASSUME NEW L, NEW t \in TableSet, NEW id, NEW e, e = FromRow(L, t, id)
  PROVE  /\ e.as = LegacyRef(t, id) /\ e.stored = LegacyRef(t, id)
         /\ e.rule = Essence(FromLegacy(t, id, L[t][id]))
         /\ e.rule.module = ModuleOf(t) /\ e.rule.enabled = L[t][id].enabled
<1>1. PICK r : r = FromLegacy(t, id, L[t][id])
  OBVIOUS
<1>2. IsRule(r) /\ r.module = ModuleOf(t) /\ r.enabled = L[t][id].enabled
  <2>1. PICK row : row = L[t][id]
    OBVIOUS
  <2>2. r = FromLegacy(t, id, row)
    BY <1>1, <2>1
  <2>3. IsTidy(r) /\ r.module = ModuleOf(t) /\ r.enabled = row.enabled
    BY <2>2, RowRule
  <2> QED BY <2>1, <2>3 DEF IsTidy
<1>3. Essence(r).module = r.module /\ Essence(r).enabled = r.enabled
  BY <1>2, EssenceIs
<1>4. e = [as |-> LegacyRef(t, id), stored |-> LegacyRef(t, id), rule |-> Essence(r)]
  BY <1>1, Zenon DEF FromRow
<1>5. e.as = LegacyRef(t, id) /\ e.stored = LegacyRef(t, id) /\ e.rule = Essence(r)
  BY <1>4
<1> QED BY <1>1, <1>2, <1>3, <1>5, Zenon

LEMMA RowName ==
  \A L, id : \A t \in TableSet : FromRow(L, t, id).as = LegacyRef(t, id)
BY DEF FromRow

\* A name stands for one stored rule, or for the row no rule refers to.
LEMMA RuleAlone ==
  ASSUME NEW R, Fits(R), Unique(R), NEW L, NEW e, NEW f, NEW id \in DOMAIN R, e = FromRule(R, id),
         f \in GeneratedRules(R, L), f.as = e.as
  PROVE  f = e
<1>1. e.as = IF R[id].ref = NoRef THEN LegacyRef("protection_rules", id) ELSE R[id].ref
  BY RuleEntry DEF Fits
<1>2. ASSUME NEW n \in DOMAIN R, f = FromRule(R, n)
      PROVE  f = e
  <2>1. f.as = IF R[n].ref = NoRef THEN LegacyRef("protection_rules", n) ELSE R[n].ref
    BY <1>2, RuleEntry DEF Fits
  <2>2. /\ R[id].ref = NoRef \/ \E t \in TableSet : \E m : R[id].ref = LegacyRef(t, m)
        /\ R[n].ref = NoRef \/ \E t \in TableSet : \E m : R[n].ref = LegacyRef(t, m)
    BY <1>2 DEF Fits, RuleFits
  <2>3. "protection_rules" \notin TableSet
    BY TableNames DEF OlderTables
  <2>4. n = id
    <3>1. CASE R[id].ref = NoRef
      BY <1>1, <2>1, <2>2, <2>3, <3>1, LegacyRefs
    <3>2. CASE R[id].ref # NoRef
      <4>1. R[n].ref # NoRef
        BY <1>1, <2>1, <2>2, <2>3, <3>2, LegacyRefs
      <4> QED BY <1>1, <1>2, <2>1, <3>2, <4>1 DEF Unique
    <3> QED BY <3>1, <3>2
  <2> QED BY <1>2, <2>4
<1>3. ASSUME NEW t \in ReleasedTables, NEW n \in DOMAIN L[t],
             LegacyRef(t, n) \notin Refs(R), f = FromRow(L, t, n)
      PROVE  FALSE
  <2>1. t \in TableSet /\ t # "protection_rules"
    BY TableNames DEF OlderTables
  <2>2. f.as = LegacyRef(t, n)
    BY <1>3, <2>1, RowEntry
  <2>3. R[id].ref = LegacyRef(t, n)
    BY <1>1, <2>1, <2>2, LegacyRefs
  <2> QED BY <1>3, <2>3, RefsOf, LegacyRefs
<1> QED BY <1>2, <1>3, InGenerated

LEMMA RowAlone ==
  ASSUME NEW R, Fits(R), NEW L, NEW e, NEW f, NEW t \in ReleasedTables, NEW id, e = FromRow(L, t, id),
         LegacyRef(t, id) \notin Refs(R), f \in GeneratedRules(R, L), f.as = e.as
  PROVE  f = e
<1>1. t \in TableSet /\ t # "protection_rules"
  BY TableNames DEF OlderTables
<1>2. e.as = LegacyRef(t, id)
  BY <1>1, RowName, Zenon
<1>3. ASSUME NEW n \in DOMAIN R, f = FromRule(R, n)
      PROVE  FALSE
  <2>1. f.as = IF R[n].ref = NoRef THEN LegacyRef("protection_rules", n) ELSE R[n].ref
    BY <1>3, RuleEntry DEF Fits
  <2>2. R[n].ref = LegacyRef(t, id)
    BY <1>1, <1>2, <2>1, LegacyRefs
  <2> QED BY <2>2, RefsOf, LegacyRefs
<1>4. ASSUME NEW u \in ReleasedTables, NEW n \in DOMAIN L[u], f = FromRow(L, u, n)
      PROVE  f = e
  <2>1. u \in TableSet
    BY TableNames
  <2>2. f.as = LegacyRef(u, n)
    BY <1>4, <2>1, RowEntry
  <2>3. u = t /\ n = id
    BY <1>2, <2>2, LegacyRefs
  <2> QED BY <1>4, <2>3
<1> QED BY <1>3, <1>4, InGenerated

\* An entry under the name of a row is of the module of the row's table.
LEMMA EntryModule ==
  ASSUME NEW R, Fits(R), NEW L, NEW e \in GeneratedRules(R, L), NEW t \in TableSet, e.as[1] = t
  PROVE  e.rule.module = ModuleOf(t)
<1>1. "protection_rules" \notin TableSet
  BY TableNames DEF OlderTables
<1>2. ASSUME NEW id \in DOMAIN R, e = FromRule(R, id)
      PROVE  e.rule.module = ModuleOf(t)
  <2>1. /\ e.as = IF R[id].ref = NoRef THEN LegacyRef("protection_rules", id) ELSE R[id].ref
        /\ e.rule.module = R[id].module
    BY <1>2, RuleEntry DEF Fits
  <2>2. R[id].ref # NoRef /\ e.as = R[id].ref
    BY <1>1, <2>1, LegacyRefs
  <2>3. PICK u \in TableSet : \E n : R[id].ref = LegacyRef(u, n) /\ R[id].module = ModuleOf(u)
    BY <2>2 DEF Fits, RuleFits
  <2>4. u = t
    BY <2>2, <2>3, LegacyRefs
  <2> QED BY <2>1, <2>3, <2>4
<1>3. ASSUME NEW u \in ReleasedTables, NEW id \in DOMAIN L[u], e = FromRow(L, u, id)
      PROVE  e.rule.module = ModuleOf(t)
  <2>1. u \in TableSet
    BY TableNames
  <2>2. e.as = LegacyRef(u, id) /\ e.rule.module = ModuleOf(u)
    BY <1>3, <2>1, RowEntry
  <2> QED BY <2>2, LegacyRefs
<1> QED BY <1>2, <1>3, InGenerated

\* What the Gateway enforces: the rules, and the rate limits that stand in.
LEMMA Parts ==
  ASSUME NEW R, NEW L
  PROVE  Generated(R, L).rules = GeneratedRules(R, L) /\ Generated(R, L).limits = GeneratedLimits(L)
<1>1. PICK a : a = GeneratedRules(R, L)
  OBVIOUS
<1>2. PICK b : b = GeneratedLimits(L)
  OBVIOUS
<1>3. Generated(R, L) = [rules |-> a, limits |-> b]
  BY <1>1, <1>2, Zenon DEF Generated
<1> QED BY <1>1, <1>2, <1>3

LEMMA InEnforced ==
  ASSUME NEW R, NEW L, NEW e
  PROVE  e \in EnforcedBy(Generated(R, L)) <=>
           \/ e \in GeneratedRules(R, L)
           \/ /\ e \in GeneratedLimits(L)
              /\ \A r \in GeneratedRules(R, L) : r.rule.module # e.rule.module
<1>1. Generated(R, L).rules = GeneratedRules(R, L) /\ Generated(R, L).limits = GeneratedLimits(L)
  BY Parts
<1>2. e \in EnforcedBy(Generated(R, L)) <=>
           \/ e \in Generated(R, L).rules
           \/ /\ e \in Generated(R, L).limits
              /\ \A r \in Generated(R, L).rules : r.rule.module # e.rule.module
  BY Zenon DEF EnforcedBy
<1> QED BY <1>1, <1>2, Zenon

LEMMA LimitEntry ==
  ASSUME NEW L, NEW e \in GeneratedLimits(L)
  PROVE  \E id \in DOMAIN L["rate_limits"] :
            /\ L["rate_limits"][id].enabled /\ e = FromRow(L, "rate_limits", id)
            /\ e.as = LegacyRef("rate_limits", id) /\ e.rule.module = "cc-protection"
            /\ e.rule = Essence(FromLegacy("rate_limits", id, L["rate_limits"][id]))
<1>1. PICK id \in DOMAIN L["rate_limits"] :
         L["rate_limits"][id].enabled /\ e = FromRow(L, "rate_limits", id)
  BY Zenon DEF GeneratedLimits
<1>2. "rate_limits" \in TableSet /\ ModuleOf("rate_limits") = "cc-protection"
  BY TableNames DEF OlderTables, ModuleOf
<1>3. /\ e.as = LegacyRef("rate_limits", id) /\ e.rule.module = "cc-protection"
      /\ e.rule = Essence(FromLegacy("rate_limits", id, L["rate_limits"][id]))
  BY <1>1, <1>2, RowEntry
<1> QED BY <1>1, <1>3

\* No rate limit stands in where every one of them has a rule of its module.
LEMMA NoneStandsIn ==
  ASSUME NEW R, NEW L,
         \A e \in GeneratedLimits(L) : \E r \in GeneratedRules(R, L) : r.rule.module = e.rule.module
  PROVE  EnforcedBy(Generated(R, L)) = GeneratedRules(R, L)
<1>1. \A e : e \in EnforcedBy(Generated(R, L)) <=> e \in GeneratedRules(R, L)
  BY InEnforced
<1> QED BY <1>1, Zenon

-----------------------------------------------------------------------------
(***************************************************************************)
(* The invariant.  Every stored rule has its columns and at most one rule  *)
(* refers to a row; the candidates of a backfill are of the tables it has  *)
(* read and, while no edit disturbs it, every row it has read has a copy   *)
(* or is still to be copied; a rule that stays in force during a release   *)
(* was read as it is now.                                                  *)
(***************************************************************************)
RowInv ==
  /\ DOMAIN rows = TableSet /\ \A t \in TableSet : DOMAIN rows[t] \subseteq RowIds
  /\ \A id \in DOMAIN rows["rate_limits"] : id < next.row
RuleInv ==
  /\ DOMAIN rules \subseteq RuleIds /\ \A id \in DOMAIN rules : id < next.rule
  /\ Fits(rules) /\ Unique(rules)
NextInv == next \in [rule : Nat, row : Nat]
RequestInv ==
  /\ request.step \in {"idle", "update", "delete"}
  /\ request.step # "idle" => request.table \in TableSet
ClientInv ==
  /\ backend \in Backends /\ spent \in 0 .. MaxOperations
  /\ DOMAIN clients \subseteq DOMAIN TableOf \cup {"access-control", "rate-limits"}

IsJob(j) == j = [f \in {"step", "read", "todo", "undisturbed"} |-> j[f]] /\ j.step = "read"
JobFits(j) ==
  /\ IsJob(j)
  /\ j.read \in 0 .. 5 /\ DOMAIN j.todo = 1 .. 5
  /\ \A i \in 1 .. 5 : \A c \in j.todo[i] : i <= j.read /\ c.table = Tables[i]
Candidate(t, id, W) == [table |-> t, id |-> id, row |-> W[t][id]]
JobKnows(j, R, W) ==
  j.undisturbed => \A i \in 1 .. j.read :
     /\ \A c \in j.todo[i] : c.id \in DOMAIN W[Tables[i]] /\ c = Candidate(Tables[i], c.id, W)
     /\ \A id \in DOMAIN W[Tables[i]] :
           LegacyRef(Tables[i], id) \in Refs(R) \/ Candidate(Tables[i], id, W) \in j.todo[i]
JobInv == job = Idle \/ (JobFits(job) /\ JobKnows(job, rules, rows))

StoreInv == RowInv /\ RuleInv /\ NextInv /\ RequestInv /\ ClientInv /\ JobInv

-----------------------------------------------------------------------------
(***************************************************************************)
(* What a step of the store does to the rules, to the rows and to the      *)
(* backfill.                                                               *)
(***************************************************************************)
LEMMA AcceptedModule ==
  ASSUME NEW m \in DOMAIN TableOf \cup {"access-control"}, NEW req, Accepts(m, req)
  PROVE  req.module = m
<1>1. CASE m = "cc-protection"
  <2>1. AcceptsCC(req)
    BY <1>1 DEF Accepts
  <2> QED BY <1>1, <2>1, Zenon DEF AcceptsCC, Common
<1>2. CASE m = "upload-protection"
  <2>1. AcceptsUpload(req)
    BY <1>2 DEF Accepts
  <2> QED BY <1>2, <2>1, Zenon DEF AcceptsUpload, Common
<1>3. CASE m = "bot-protection"
  <2>1. AcceptsBot(req)
    BY <1>3 DEF Accepts
  <2> QED BY <1>3, <2>1, Zenon DEF AcceptsBot, Common
<1>4. CASE m = "dynamic-protection"
  <2>1. AcceptsDynamic(req)
    BY <1>4 DEF Accepts
  <2> QED BY <1>4, <2>1, Zenon DEF AcceptsDynamic, Common
<1>5. CASE m = "access-control"
  <2>1. AcceptsAccess(req)
    BY <1>5 DEF Accepts
  <2> QED BY <1>5, <2>1, Zenon DEF AcceptsAccess, Common
<1> QED BY <1>1, <1>2, <1>3, <1>4, <1>5, TableOfModule

LEMMA AcceptedRule ==
  ASSUME NEW m \in DOMAIN TableOf \cup {"access-control"}, NEW req, Accepts(m, req),
         NEW v, v = Stored(req)
  PROVE  RuleFits(v) /\ v.ref = NoRef
<1>1. req.module = m
  BY AcceptedModule
<1>2. IsRule(v) /\ v.module = req.module /\ v.ref = NoRef
  BY StoredRules
<1> QED BY <1>1, <1>2 DEF RuleFits

Insert(id, v) ==
  /\ RuleFits(v) /\ (v.ref = NoRef \/ v.ref \notin Refs(rules))
  /\ rules' = Put(rules, id, v)
  /\ \/ id \in DOMAIN rules /\ next' = next
     \/ id = next.rule /\ id \in RuleIds /\ next' = [next EXCEPT !.rule = @ + 1]
RuleStep ==
  \/ rules' = rules /\ next'.rule = next.rule
  \/ \E id, v : Insert(id, v)
  \/ \E id : rules' = Without(rules, id) /\ next' = next
Rewrite(t, w) ==
  /\ rows' = [rows EXCEPT ![t] = w] /\ DOMAIN w \subseteq RowIds
  /\ \A id \in DOMAIN w : id \in DOMAIN rows[t] \/ id < next'.row
  /\ next'.row >= next.row
RowStep ==
  \/ rows' = rows /\ next'.row = next.row
  \/ \E t \in TableSet : \E w : Rewrite(t, w)

LEMMA NextChanges ==
  ASSUME NextInv
  PROVE  /\ next' = next => NextInv' /\ next'.rule = next.rule /\ next'.row = next.row
         /\ next' = [next EXCEPT !.rule = @ + 1] =>
              NextInv' /\ next'.rule = next.rule + 1 /\ next'.row = next.row
         /\ next' = [next EXCEPT !.row = @ + 1] =>
              NextInv' /\ next'.rule = next.rule /\ next'.row = next.row + 1
         /\ next.rule \in Nat /\ next.row \in Nat
BY DEF NextInv

LEMMA RuleStepKeeps ==
  ASSUME RuleInv, NextInv, RuleStep, NextInv'
  PROVE  RuleInv'
<1>1. /\ DOMAIN rules \subseteq RuleIds /\ \A id \in DOMAIN rules : id < next.rule
      /\ Fits(rules) /\ Unique(rules)
  BY DEF RuleInv
<1>2. RuleIds \subseteq Nat
  BY ProtectionAssumption
<1>3. CASE rules' = rules /\ next'.rule = next.rule
  BY <1>1, <1>3 DEF RuleInv
<1>4. ASSUME NEW id, NEW v, Insert(id, v)
      PROVE  RuleInv'
  <2>1. PICK p : p = Put(rules, id, v)
    OBVIOUS
  <2>2. DOMAIN p = DOMAIN rules \cup {id} /\ p[id] = v /\ \A j \in DOMAIN rules \ {id} : p[j] = rules[j]
    BY <2>1 DEF Put
  <2>3. rules' = p /\ RuleFits(v) /\ (v.ref = NoRef \/ v.ref \notin Refs(rules))
    BY <1>4, <2>1 DEF Insert
  <2>4. next.rule \in Nat
    BY NextChanges
  <2>5. \A i \in DOMAIN p : i \in RuleIds /\ i < next'.rule
    <3>1. CASE id \in DOMAIN rules /\ next' = next
      BY <1>1, <2>2, <3>1
    <3>2. CASE id = next.rule /\ id \in RuleIds /\ next' = [next EXCEPT !.rule = @ + 1]
      <4>1. next'.rule = next.rule + 1
        BY <3>2, NextChanges
      <4>2. \A i \in DOMAIN rules : i < next.rule + 1
        <5> SUFFICES ASSUME NEW i \in DOMAIN rules
                     PROVE  i < next.rule + 1
          OBVIOUS
        <5>1. i \in Nat /\ i < next.rule
          BY <1>1, <1>2
        <5> QED BY <2>4, <5>1
      <4> QED BY <1>1, <2>2, <2>4, <3>2, <4>1, <4>2
    <3> QED BY <1>4, <3>1, <3>2 DEF Insert
  <2>6. Fits(p)
    BY <1>1, <2>2, <2>3 DEF Fits
  <2>7. Unique(p)
    <3>1. ASSUME NEW i \in DOMAIN rules, rules[i].ref # NoRef, v.ref # NoRef
          PROVE  rules[i].ref # v.ref
      BY <2>3, <3>1, RefsOf
    <3> QED BY <1>1, <2>2, <3>1 DEF Unique
  <2> QED BY <2>3, <2>5, <2>6, <2>7 DEF RuleInv
<1>5. ASSUME NEW id, rules' = Without(rules, id), next' = next
      PROVE  RuleInv'
  <2>1. PICK p : p = Without(rules, id)
    OBVIOUS
  <2>2. DOMAIN p = DOMAIN rules \ {id} /\ \A j \in DOMAIN p : p[j] = rules[j]
    BY <2>1 DEF Without
  <2>3. rules' = p
    BY <1>5, <2>1
  <2>4. Fits(p) /\ Unique(p)
    BY <1>1, <2>2 DEF Fits, Unique
  <2> QED BY <1>1, <1>5, <2>2, <2>3, <2>4 DEF RuleInv
<1> QED BY <1>3, <1>4, <1>5 DEF RuleStep

LEMMA RowStepKeeps ==
  ASSUME RowInv, NextInv, RowStep, NextInv'
  PROVE  RowInv'
<1>1. /\ DOMAIN rows = TableSet /\ \A t \in TableSet : DOMAIN rows[t] \subseteq RowIds
      /\ \A id \in DOMAIN rows["rate_limits"] : id < next.row
  BY DEF RowInv
<1>2. next.row \in Nat /\ next'.row \in Nat /\ RowIds \subseteq Nat /\ "rate_limits" \in TableSet
  BY ProtectionAssumption, TableNames DEF NextInv, OlderTables
<1>3. CASE rows' = rows /\ next'.row = next.row
  BY <1>1, <1>3 DEF RowInv
<1>4. ASSUME NEW t \in TableSet, NEW w, Rewrite(t, w)
      PROVE  RowInv'
  <2>1. PICK q : q = [rows EXCEPT ![t] = w]
    OBVIOUS
  <2>2. DOMAIN q = TableSet /\ q[t] = w /\ \A u \in TableSet \ {t} : q[u] = rows[u]
    BY <1>1, <2>1
  <2>3. /\ rows' = q /\ DOMAIN w \subseteq RowIds /\ next'.row >= next.row
        /\ \A id \in DOMAIN w : id \in DOMAIN rows[t] \/ id < next'.row
    BY <1>4, <2>1 DEF Rewrite
  <2>4. \A u \in TableSet : DOMAIN q[u] \subseteq RowIds
    BY <1>1, <2>2, <2>3
  <2>5. ASSUME NEW id \in DOMAIN q["rate_limits"]
        PROVE  id < next'.row
    <3>1. id \in Nat
      BY <1>2, <2>4
    <3>2. id \in DOMAIN rows["rate_limits"] \/ id < next'.row
      BY <1>2, <2>2, <2>3
    <3> QED BY <1>1, <1>2, <2>3, <3>1, <3>2
  <2> QED BY <2>2, <2>3, <2>4, <2>5 DEF RowInv
<1> QED BY <1>3, <1>4 DEF RowStep

LEMMA SpendIs ==
  ASSUME ClientInv, Spend
  PROVE  spent' \in 0 .. MaxOperations
BY ProtectionAssumption DEF ClientInv, Spend

\* What every step of the store but those of the backfill has to show.
EditStep == RuleStep /\ RowStep /\ NextInv' /\ RequestInv' /\ spent' \in 0 .. MaxOperations

LEMMA ModuleNames ==
  ASSUME ClientInv
  PROVE  Modules \subseteq DOMAIN TableOf \cup {"access-control"}
BY DEF ClientInv, Modules

LEMMA CreateProtectionRuleMoves ==
  ASSUME StoreInv, NEW m \in Modules, CreateProtectionRule(m)
  PROVE  EditStep /\ Disturb
<1>1. PICK req \in Requested(m) : Accepts(m, req) /\ rules' = Put(rules, next.rule, Stored(req))
  BY DEF CreateProtectionRule
<1>2. PICK v : v = Stored(req)
  OBVIOUS
<1>3. RuleFits(v) /\ v.ref = NoRef
  BY <1>1, <1>2, AcceptedRule, ModuleNames DEF StoreInv
<1>4. /\ next.rule \in RuleIds /\ Spend /\ next' = [next EXCEPT !.rule = @ + 1] /\ Disturb
      /\ rows' = rows /\ request' = request
  BY DEF CreateProtectionRule
<1>5. Insert(next.rule, v)
  BY <1>1, <1>2, <1>3, <1>4 DEF Insert
<1>6. NextInv' /\ next'.row = next.row
  BY <1>4, NextChanges DEF StoreInv
<1>7. RequestInv'
  BY <1>4 DEF StoreInv, RequestInv
<1> QED BY <1>4, <1>5, <1>6, <1>7, SpendIs DEF EditStep, RuleStep, RowStep, StoreInv

LEMMA UpdateProtectionRuleMoves ==
  ASSUME StoreInv, NEW m \in Modules, NEW id, UpdateProtectionRule(m, id)
  PROVE  EditStep /\ Disturb
<1>1. PICK req \in Requested(m) :
         /\ Accepts(m, req)
         /\ IF id \in DOMAIN rules
            THEN rules' = Put(rules, id, Stored(req)) /\ UNCHANGED request
            ELSE /\ m \in DOMAIN TableOf
                 /\ request' = [step |-> "update", table |-> TableOf[m], id |-> id,
                                rule |-> Stored(req)]
                 /\ UNCHANGED rules
  BY DEF UpdateProtectionRule
<1>2. PICK v : v = Stored(req)
  OBVIOUS
<1>3. RuleFits(v) /\ v.ref = NoRef
  BY <1>1, <1>2, AcceptedRule, ModuleNames DEF StoreInv
<1>4. Spend /\ next' = next /\ Disturb /\ rows' = rows
  BY DEF UpdateProtectionRule
<1>5. NextInv' /\ next'.row = next.row /\ next'.rule = next.rule
  BY <1>4, NextChanges DEF StoreInv
<1>6. RuleStep /\ RequestInv'
  <2>1. CASE id \in DOMAIN rules
    <3>1. rules' = Put(rules, id, v) /\ request' = request
      BY <1>1, <1>2, <2>1
    <3>2. Insert(id, v)
      BY <1>3, <1>4, <2>1, <3>1 DEF Insert
    <3> QED BY <3>1, <3>2 DEF RuleStep, StoreInv, RequestInv
  <2>2. CASE id \notin DOMAIN rules
    <3>1. /\ m \in DOMAIN TableOf /\ rules' = rules
          /\ request' = [step |-> "update", table |-> TableOf[m], id |-> id, rule |-> v]
      BY <1>1, <1>2, <2>2
    <3>2. request'.step = "update" /\ request'.table = TableOf[m]
      BY <3>1
    <3> QED BY <1>5, <3>1, <3>2, TableOfModule, TableNames DEF RuleStep, RequestInv
  <2> QED BY <2>1, <2>2
<1> QED BY <1>4, <1>5, <1>6, SpendIs DEF EditStep, RowStep, StoreInv

LEMMA DeleteProtectionRuleMoves ==
  ASSUME StoreInv, NEW m \in Modules, NEW id, DeleteProtectionRule(m, id)
  PROVE  EditStep /\ Disturb
<1>1. Spend /\ next' = next /\ Disturb /\ rows' = rows
  BY DEF DeleteProtectionRule
<1>2. NextInv' /\ next'.row = next.row /\ next'.rule = next.rule
  BY <1>1, NextChanges DEF StoreInv
<1>3. RuleStep /\ RequestInv'
  <2>1. CASE id \in DOMAIN rules
    <3>1. rules' = Without(rules, id) /\ request' = request
      BY <2>1 DEF DeleteProtectionRule
    <3> QED BY <1>1, <3>1 DEF RuleStep, StoreInv, RequestInv
  <2>2. CASE id \notin DOMAIN rules
    <3>1. /\ m \in DOMAIN TableOf /\ rules' = rules
          /\ request' = [step |-> "delete", table |-> TableOf[m], id |-> id]
      BY <2>2 DEF DeleteProtectionRule
    <3>2. request'.step = "delete" /\ request'.table = TableOf[m]
      BY <3>1
    <3> QED BY <1>2, <3>1, <3>2, TableOfModule, TableNames DEF RuleStep, RequestInv
  <2> QED BY <2>1, <2>2
<1> QED BY <1>1, <1>2, <1>3, SpendIs DEF EditStep, RowStep, StoreInv

LEMMA UpdateRowMoves ==
  ASSUME StoreInv, UpdateRow
  PROVE  EditStep /\ Disturb
<1>1. /\ request.step = "update" /\ request' = Idle /\ Disturb
      /\ next' = next /\ rules' = rules /\ spent' = spent
  BY DEF UpdateRow
<1>2. NextInv' /\ next'.row = next.row /\ next'.rule = next.rule /\ next.row \in Nat
  BY <1>1, NextChanges DEF StoreInv
<1>3. PICK t : t = request.table
  OBVIOUS
<1>4. t \in TableSet
  BY <1>1, <1>3 DEF StoreInv, RequestInv
<1>5. RowStep
  <2>1. CASE request.id \in DOMAIN rows[t]
    <3>1. PICK w : w = Put(rows[t], request.id, ToLegacy(t, request.rule))
      OBVIOUS
    <3>2. rows' = [rows EXCEPT ![t] = w]
      BY <1>3, <2>1, <3>1 DEF UpdateRow
    <3>3. DOMAIN w = DOMAIN rows[t]
      BY <2>1, <3>1 DEF Put
    <3>4. DOMAIN w \subseteq RowIds
      BY <1>4, <3>3 DEF StoreInv, RowInv
    <3>5. next'.row >= next.row
      BY <1>2
    <3>6. Rewrite(t, w)
      BY <3>2, <3>3, <3>4, <3>5 DEF Rewrite
    <3> QED BY <1>4, <3>6 DEF RowStep
  <2>2. CASE request.id \notin DOMAIN rows[t]
    BY <1>2, <1>3, <2>2 DEF UpdateRow, RowStep
  <2> QED BY <2>1, <2>2
<1>6. request'.step = "idle"
  BY <1>1 DEF Idle
<1> QED BY <1>1, <1>2, <1>5, <1>6 DEF EditStep, RuleStep, RequestInv, StoreInv, ClientInv

LEMMA DeleteRowMoves ==
  ASSUME StoreInv, DeleteRow
  PROVE  EditStep /\ Disturb
<1>1. /\ request.step = "delete" /\ request' = Idle /\ Disturb
      /\ next' = next /\ rules' = rules /\ spent' = spent
      /\ rows' = [rows EXCEPT ![request.table] = Without(rows[request.table], request.id)]
  BY DEF DeleteRow
<1>2. NextInv' /\ next'.row = next.row /\ next'.rule = next.rule /\ next.row \in Nat
  BY <1>1, NextChanges DEF StoreInv
<1>3. PICK t : t = request.table
  OBVIOUS
<1>4. t \in TableSet
  BY <1>1, <1>3 DEF StoreInv, RequestInv
<1>5. PICK w : w = Without(rows[t], request.id)
  OBVIOUS
<1>6. rows' = [rows EXCEPT ![t] = w]
  BY <1>1, <1>3, <1>5
<1>7. DOMAIN w \subseteq DOMAIN rows[t]
  BY <1>5 DEF Without
<1>8. DOMAIN w \subseteq RowIds
  BY <1>4, <1>7 DEF StoreInv, RowInv
<1>9. next'.row >= next.row
  BY <1>2
<1>10. Rewrite(t, w)
  BY <1>6, <1>7, <1>8, <1>9 DEF Rewrite
<1>11. request'.step = "idle"
  BY <1>1 DEF Idle
<1> QED BY <1>1, <1>2, <1>4, <1>10, <1>11 DEF EditStep, RuleStep, RowStep, RequestInv, StoreInv, ClientInv

LEMMA RateLimitTable ==
  ASSUME RowInv
  PROVE  /\ "rate_limits" \in TableSet /\ "rules" \in TableSet
         /\ DOMAIN rows["rate_limits"] \subseteq RowIds
         /\ DOMAIN rows["rules"] \subseteq RowIds
BY TableNames DEF RowInv, OlderTables

LEMMA CreateRateLimitMoves ==
  ASSUME StoreInv, CreateRateLimit
  PROVE  EditStep /\ Disturb
<1>1. /\ next.row \in RowIds /\ Spend /\ next' = [next EXCEPT !.row = @ + 1] /\ Disturb
      /\ rules' = rules /\ request' = request
  BY DEF CreateRateLimit
<1>2. NextInv' /\ next'.row = next.row + 1 /\ next'.rule = next.rule /\ next.row \in Nat
  BY <1>1, NextChanges DEF StoreInv
<1>3. PICK raw : rows' = [rows EXCEPT !["rate_limits"] =
                            Put(rows["rate_limits"], next.row, NormalizeRateLimit(raw))]
  BY DEF CreateRateLimit
<1>4. PICK w : w = Put(rows["rate_limits"], next.row, NormalizeRateLimit(raw))
  OBVIOUS
<1>5. rows' = [rows EXCEPT !["rate_limits"] = w]
  BY <1>3, <1>4
<1>6. DOMAIN w = DOMAIN rows["rate_limits"] \cup {next.row}
  BY <1>4 DEF Put
<1>7. DOMAIN w \subseteq RowIds
  BY <1>1, <1>6, RateLimitTable DEF StoreInv
<1>8. next'.row >= next.row /\ next.row < next'.row
  BY <1>2
<1>9. Rewrite("rate_limits", w)
  BY <1>5, <1>6, <1>7, <1>8 DEF Rewrite
<1>10. RowStep
  BY <1>9, RateLimitTable DEF RowStep, StoreInv
<1> QED BY <1>1, <1>2, <1>10, SpendIs DEF EditStep, RuleStep, RequestInv, StoreInv

LEMMA UpdateRateLimitMoves ==
  ASSUME StoreInv, NEW id, UpdateRateLimit(id)
  PROVE  EditStep /\ Disturb
<1>1. /\ id \in DOMAIN rows["rate_limits"] /\ Spend /\ Disturb
      /\ next' = next /\ rules' = rules /\ request' = request
  BY DEF UpdateRateLimit
<1>2. NextInv' /\ next'.row = next.row /\ next'.rule = next.rule /\ next.row \in Nat
  BY <1>1, NextChanges DEF StoreInv
<1>3. PICK raw : rows' = [rows EXCEPT !["rate_limits"] =
                            Put(rows["rate_limits"], id, NormalizeRateLimit(raw))]
  BY DEF UpdateRateLimit
<1>4. PICK w : w = Put(rows["rate_limits"], id, NormalizeRateLimit(raw))
  OBVIOUS
<1>5. rows' = [rows EXCEPT !["rate_limits"] = w]
  BY <1>3, <1>4
<1>6. DOMAIN w = DOMAIN rows["rate_limits"]
  BY <1>1, <1>4 DEF Put
<1>7. DOMAIN w \subseteq RowIds
  BY <1>6, RateLimitTable DEF StoreInv
<1>8. next'.row >= next.row
  BY <1>2
<1>9. Rewrite("rate_limits", w)
  BY <1>5, <1>6, <1>7, <1>8 DEF Rewrite
<1>10. RowStep
  BY <1>9, RateLimitTable DEF RowStep, StoreInv
<1> QED BY <1>1, <1>2, <1>10, SpendIs DEF EditStep, RuleStep, RequestInv, StoreInv

LEMMA DeleteRateLimitMoves ==
  ASSUME StoreInv, NEW id, DeleteRateLimit(id)
  PROVE  EditStep /\ Disturb
<1>1. /\ Spend /\ Disturb /\ next' = next /\ rules' = rules /\ request' = request
      /\ rows' = [rows EXCEPT !["rate_limits"] = Without(rows["rate_limits"], id)]
  BY DEF DeleteRateLimit
<1>2. NextInv' /\ next'.row = next.row /\ next'.rule = next.rule /\ next.row \in Nat
  BY <1>1, NextChanges DEF StoreInv
<1>4. PICK w : w = Without(rows["rate_limits"], id)
  OBVIOUS
<1>5. rows' = [rows EXCEPT !["rate_limits"] = w]
  BY <1>1, <1>4
<1>6. DOMAIN w \subseteq DOMAIN rows["rate_limits"]
  BY <1>4 DEF Without
<1>7. DOMAIN w \subseteq RowIds
  BY <1>6, RateLimitTable DEF StoreInv
<1>8. next'.row >= next.row
  BY <1>2
<1>9. Rewrite("rate_limits", w)
  BY <1>5, <1>6, <1>7, <1>8 DEF Rewrite
<1>10. RowStep
  BY <1>9, RateLimitTable DEF RowStep, StoreInv
<1> QED BY <1>1, <1>2, <1>10, SpendIs DEF EditStep, RuleStep, RequestInv, StoreInv

LEMMA ToggleAttackRuleMoves ==
  ASSUME StoreInv, NEW id, ToggleAttackRule(id)
  PROVE  EditStep /\ Disturb
<1>1. /\ Spend /\ Disturb /\ next' = next /\ rules' = rules /\ request' = request
      /\ rows' = [rows EXCEPT !["rules"][id].enabled = ~@]
  BY DEF ToggleAttackRule
<1>2. NextInv' /\ next'.row = next.row /\ next'.rule = next.rule /\ next.row \in Nat
  BY <1>1, NextChanges DEF StoreInv
<1>3. PICK x : x = [rows["rules"][id] EXCEPT !.enabled = ~@]
  OBVIOUS
<1>4. PICK w : w = [rows["rules"] EXCEPT ![id] = x]
  OBVIOUS
<1>5. rows' = [rows EXCEPT !["rules"] = w]
  BY <1>1, <1>3, <1>4, Zenon
<1>6. DOMAIN w = DOMAIN rows["rules"]
  BY <1>4
<1>7. DOMAIN w \subseteq RowIds
  BY <1>6, RateLimitTable DEF StoreInv
<1>8. next'.row >= next.row
  BY <1>2
<1>9. Rewrite("rules", w)
  BY <1>5, <1>6, <1>7, <1>8 DEF Rewrite
<1>10. RowStep
  BY <1>9, RateLimitTable DEF RowStep, StoreInv
<1> QED BY <1>1, <1>2, <1>10, SpendIs DEF EditStep, RuleStep, RequestInv, StoreInv

-----------------------------------------------------------------------------
(***************************************************************************)
(* The backfill.                                                           *)
(***************************************************************************)
LEMMA DisturbKeeps ==
  ASSUME JobInv, Disturb
  PROVE  JobInv'
<1>1. CASE job = Idle
  BY <1>1 DEF Disturb, JobInv
<1>2. CASE job # Idle
  <2>1. JobFits(job)
    BY <1>2 DEF JobInv
  <2>2. PICK j : j = [job EXCEPT !.undisturbed = FALSE]
    OBVIOUS
  <2>3. IsJob(job)
    BY <2>1 DEF JobFits
  <2>4. IsJob(j) /\ j.read = job.read /\ j.todo = job.todo /\ j.undisturbed = FALSE
    BY <2>2, <2>3 DEF IsJob
  <2>5. JobFits(j)
    BY <2>1, <2>4 DEF JobFits
  <2>6. job' = j
    BY <1>2, <2>2 DEF Disturb
  <2>7. JobKnows(j, rules', rows')
    BY <2>4 DEF JobKnows
  <2> QED BY <2>5, <2>6, <2>7 DEF JobInv
<1> QED BY <1>1, <1>2

LEMMA IdleJob ==
  Idle.step = "idle" /\ \A j : JobFits(j) => j.step = "read" /\ j # Idle
<1>1. Idle.step = "idle"
  BY DEF Idle
<1>2. ASSUME NEW j, JobFits(j) PROVE j.step = "read"
  BY <1>2 DEF JobFits, IsJob
<1> QED BY <1>1, <1>2

LEMMA StartBackfillMoves ==
  ASSUME StoreInv, StartBackfill
  PROVE  EditStep /\ JobInv'
<1>1. /\ Spend /\ next' = next /\ rules' = rules /\ rows' = rows /\ request' = request
      /\ job' = [step |-> "read", read |-> 0, todo |-> [i \in 1 .. Len(Tables) |-> {}],
                 undisturbed |-> request = Idle]
  BY DEF StartBackfill
<1>2. NextInv' /\ next'.row = next.row /\ next'.rule = next.rule
  BY <1>1, NextChanges DEF StoreInv
<1>3. EditStep
  BY <1>1, <1>2, SpendIs DEF EditStep, RuleStep, RowStep, RequestInv, StoreInv
<1>4. PICK u : u = (request = Idle)
  OBVIOUS
<1>5. PICK j : j = [step |-> "read", read |-> 0, todo |-> [i \in 1 .. 5 |-> {}], undisturbed |-> u]
  OBVIOUS
<1>6. job' = j
  BY <1>1, <1>4, <1>5, TableNames
<1>7. j.read = 0 /\ j.todo = [i \in 1 .. 5 |-> {}] /\ j.undisturbed = u
  BY <1>5
<1>10. IsJob(j)
  BY <1>5 DEF IsJob
<1>8. JobFits(j)
  BY <1>7, <1>10 DEF JobFits
<1>9. JobKnows(j, rules', rows')
  BY <1>7 DEF JobKnows
<1> QED BY <1>3, <1>6, <1>8, <1>9 DEF JobInv

LEMMA ReadTableMoves ==
  ASSUME StoreInv, ReadTable
  PROVE  EditStep /\ JobInv'
<1>1. /\ job.step = "read" /\ job.read < 5
      /\ next' = next /\ rules' = rules /\ rows' = rows /\ request' = request /\ spent' = spent
  BY TableNames DEF ReadTable
<1>2. NextInv' /\ next'.row = next.row /\ next'.rule = next.rule
  BY <1>1, NextChanges DEF StoreInv
<1>3. EditStep
  BY <1>1, <1>2 DEF EditStep, RuleStep, RowStep, RequestInv, StoreInv, ClientInv
<1>4. JobFits(job) /\ JobKnows(job, rules, rows)
  BY <1>1, IdleJob DEF StoreInv, JobInv
<1>5. PICK k : k = job.read + 1
  OBVIOUS
<1>6. k \in 1 .. 5 /\ job.read \in 0 .. 5 /\ \A i : i \in 1 .. k <=> i \in 1 .. job.read \/ i = k
  BY <1>1, <1>4, <1>5 DEF JobFits
<1>7. PICK t : t = Tables[k]
  OBVIOUS
<1>8. PICK S : S = {Candidate(t, id, rows) : id \in DOMAIN rows[t]}
  OBVIOUS
<1>9. job' = [job EXCEPT !.read = k, !.todo[k] = S]
  BY <1>5, <1>7, <1>8, Zenon DEF ReadTable, Candidate
<1>10. PICK todo : todo = [job.todo EXCEPT ![k] = S]
  OBVIOUS
<1>11. PICK j : j = [job EXCEPT !.read = k, !.todo = todo]
  OBVIOUS
<1>12. job' = j
  BY <1>4, <1>9, <1>10, <1>11 DEF JobFits, IsJob
<1> HIDE <1>9
<1>13. IsJob(job)
  BY <1>4 DEF JobFits
<1>14. IsJob(j) /\ j.read = k /\ j.todo = todo /\ j.undisturbed = job.undisturbed
  BY <1>11, <1>13 DEF IsJob
<1>15. DOMAIN todo = 1 .. 5 /\ todo[k] = S /\ \A i \in 1 .. 5 : i # k => todo[i] = job.todo[i]
  BY <1>4, <1>6, <1>10 DEF JobFits
<1>16. \A c \in S : c.table = t /\ c.id \in DOMAIN rows[t] /\ c = Candidate(t, c.id, rows)
  BY <1>8 DEF Candidate
<1>17. \A id \in DOMAIN rows[t] : Candidate(t, id, rows) \in S
  BY <1>8
<1>18. \A i \in 1 .. 5 : \A c \in todo[i] : i <= k /\ c.table = Tables[i]
  <2> SUFFICES ASSUME NEW i \in 1 .. 5, NEW c \in todo[i]
               PROVE  i <= k /\ c.table = Tables[i]
    OBVIOUS
  <2>1. CASE i = k
    BY <1>6, <1>7, <1>15, <1>16, <2>1
  <2>2. CASE i # k
    <3>1. c \in job.todo[i] /\ i <= job.read /\ c.table = Tables[i]
      BY <1>4, <1>15, <2>2 DEF JobFits
    <3> QED BY <1>4, <1>5, <1>6, <3>1 DEF JobFits
  <2> QED BY <2>1, <2>2
<1>19. JobFits(j)
  BY <1>6, <1>14, <1>15, <1>18 DEF JobFits
<1>20. JobKnows(j, rules, rows)
  <2> SUFFICES ASSUME job.undisturbed, NEW i \in 1 .. k
               PROVE  /\ \A c \in todo[i] : /\ c.id \in DOMAIN rows[Tables[i]]
                                            /\ c = Candidate(Tables[i], c.id, rows)
                      /\ \A id \in DOMAIN rows[Tables[i]] :
                            \/ LegacyRef(Tables[i], id) \in Refs(rules)
                            \/ Candidate(Tables[i], id, rows) \in todo[i]
    BY <1>14 DEF JobKnows
  <2>1. CASE i = k
    BY <1>7, <1>15, <1>16, <1>17, <2>1
  <2>2. CASE i # k
    <3>1. i \in 1 .. job.read /\ i \in 1 .. 5
      BY <1>6, <2>2
    <3>2. todo[i] = job.todo[i]
      BY <1>15, <2>2, <3>1
    <3> QED BY <1>4, <3>1, <3>2 DEF JobKnows
  <2> QED BY <2>1, <2>2
<1> QED BY <1>1, <1>3, <1>12, <1>19, <1>20 DEF JobInv

\* What the insertion of a copy does: the row it copies, and the new rule.
Inserts(i, t, c) ==
  /\ i \in 1 .. 5 /\ t = Tables[i] /\ t \in TableSet /\ c \in job.todo[i] /\ c.table = t
  /\ job' = [job EXCEPT !.todo[i] = @ \ {c}]
  /\ \/ LegacyRef(t, c.id) \in Refs(rules) /\ rules' = rules /\ next' = next
     \/ /\ LegacyRef(t, c.id) \notin Refs(rules) /\ next.rule \in RuleIds
        /\ rules' = Put(rules, next.rule, Copy(c)) /\ next' = [next EXCEPT !.rule = @ + 1]

LEMMA InsertCopyIs ==
  ASSUME StoreInv, InsertCopy
  PROVE  /\ job # Idle /\ JobFits(job) /\ JobKnows(job, rules, rows)
         /\ rows' = rows /\ request' = request /\ spent' = spent
         /\ \E i, t, c : Inserts(i, t, c)
<1>1. /\ job.step = "read" /\ rows' = rows /\ request' = request /\ spent' = spent
      /\ next.rule \in RuleIds
  BY DEF InsertCopy
<1>2. job # Idle /\ JobFits(job) /\ JobKnows(job, rules, rows)
  BY <1>1, IdleJob DEF StoreInv, JobInv
<1>3. PICK i \in 1 .. 5 : \E c \in Turn(i) :
          /\ job' = [job EXCEPT !.todo[i] = @ \ {c}]
          /\ IF LegacyRef(c.table, c.id) \in Refs(rules)
             THEN UNCHANGED <<rules, next>>
             ELSE /\ rules' = Put(rules, next.rule, Copy(c))
                  /\ next' = [next EXCEPT !.rule = @ + 1]
  BY TableNames DEF InsertCopy
<1>4. PICK c \in Turn(i) :
          /\ job' = [job EXCEPT !.todo[i] = @ \ {c}]
          /\ IF LegacyRef(c.table, c.id) \in Refs(rules)
             THEN UNCHANGED <<rules, next>>
             ELSE /\ rules' = Put(rules, next.rule, Copy(c))
                  /\ next' = [next EXCEPT !.rule = @ + 1]
  BY <1>3
<1>5. c \in job.todo[i]
  BY DEF Turn
<1>6. PICK t : t = Tables[i]
  OBVIOUS
<1>7. t \in TableSet /\ c.table = t
  BY <1>2, <1>5, <1>6, TableNames DEF JobFits
<1>8. Inserts(i, t, c)
  BY <1>1, <1>4, <1>5, <1>6, <1>7 DEF Inserts
<1> QED BY <1>1, <1>2, <1>8

LEMMA CopyFits ==
  ASSUME NEW t \in TableSet, NEW c, c.table = t, NEW k, k = Copy(c)
  PROVE  RuleFits(k) /\ k.ref = LegacyRef(t, c.id) /\ k.enabled = c.row.enabled
         /\ Essence(k) = Essence(FromLegacy(t, c.id, c.row))
<1>1. PICK id, row : id = c.id /\ row = c.row
  OBVIOUS
<1>2. /\ IsRule(k) /\ k.module = ModuleOf(t) /\ k.enabled = row.enabled
      /\ k.ref = LegacyRef(t, id) /\ Essence(k) = Essence(FromLegacy(t, id, row))
  BY <1>1, CopyOfRow
<1>3. ModuleOf(t) \in DOMAIN TableOf \cup {"access-control", "attack-protection"}
  BY TableOfModule, TableNames
<1> QED BY <1>1, <1>2, <1>3 DEF RuleFits

\* Refs(rules) after an insertion.
LEMMA PutRefs ==
  ASSUME NEW R, NEW id, id \notin DOMAIN R, NEW v, v.ref # NoRef, NEW p, p = Put(R, id, v)
  PROVE  Refs(p) = Refs(R) \cup {v.ref}
<1>1. DOMAIN p = DOMAIN R \cup {id} /\ p[id] = v /\ \A j \in DOMAIN R \ {id} : p[j] = R[j]
  BY DEF Put
<1>2. ASSUME NEW ref PROVE ref \in Refs(p) <=> ref \in Refs(R) \cup {v.ref}
  <2>1. ref \in Refs(p) <=> ref # NoRef /\ \E n \in DOMAIN p : p[n].ref = ref
    BY RefsOf
  <2>2. ref \in Refs(R) <=> ref # NoRef /\ \E n \in DOMAIN R : R[n].ref = ref
    BY RefsOf
  <2> QED BY <1>1, <2>1, <2>2
<1> QED BY <1>2

LEMMA FreeNumber ==
  ASSUME RuleInv, NextInv
  PROVE  next.rule \notin DOMAIN rules
BY ProtectionAssumption DEF RuleInv, NextInv

LEMMA InsertCopyMoves ==
  ASSUME StoreInv, InsertCopy
  PROVE  EditStep /\ JobInv'
<1>1. PICK i, t, c : Inserts(i, t, c)
  BY InsertCopyIs
<1>2. /\ JobFits(job) /\ JobKnows(job, rules, rows)
      /\ rows' = rows /\ request' = request /\ spent' = spent
  BY InsertCopyIs
<1>3. /\ i \in 1 .. 5 /\ t = Tables[i] /\ t \in TableSet /\ c \in job.todo[i] /\ c.table = t
      /\ job' = [job EXCEPT !.todo[i] = job.todo[i] \ {c}]
  BY <1>1 DEF Inserts
<1>4. PICK k : k = Copy(c)
  OBVIOUS
<1>5. RuleFits(k) /\ k.ref = LegacyRef(t, c.id) /\ k.ref # NoRef
  BY <1>3, <1>4, CopyFits, LegacyRefs
<1>6. /\ RuleStep /\ NextInv' /\ next'.row = next.row
      /\ Refs(rules) \subseteq Refs(rules') /\ LegacyRef(t, c.id) \in Refs(rules')
  <2>1. CASE LegacyRef(t, c.id) \in Refs(rules)
    <3>1. rules' = rules /\ next' = next
      BY <1>1, <2>1 DEF Inserts
    <3> QED BY <2>1, <3>1, NextChanges DEF RuleStep, StoreInv
  <2>2. CASE LegacyRef(t, c.id) \notin Refs(rules)
    <3>1. /\ next.rule \in RuleIds /\ rules' = Put(rules, next.rule, k)
          /\ next' = [next EXCEPT !.rule = @ + 1]
      BY <1>1, <1>4, <2>2 DEF Inserts
    <3>2. Insert(next.rule, k)
      BY <1>5, <2>2, <3>1 DEF Insert
    <3>3. PICK p : p = Put(rules, next.rule, k)
      OBVIOUS
    <3>4. Refs(p) = Refs(rules) \cup {k.ref}
      BY <1>5, <3>3, FreeNumber, PutRefs DEF StoreInv
    <3> QED BY <1>5, <3>1, <3>2, <3>3, <3>4, NextChanges DEF RuleStep, StoreInv
  <2> QED BY <2>1, <2>2
<1>7. EditStep
  BY <1>2, <1>6 DEF EditStep, RowStep, RequestInv, StoreInv, ClientInv
<1>8. PICK todo : todo = [job.todo EXCEPT ![i] = job.todo[i] \ {c}]
  OBVIOUS
<1>9. PICK j : j = [job EXCEPT !.todo = todo]
  OBVIOUS
<1>10. IsJob(job)
  BY <1>2 DEF JobFits
<1>11. job' = j
  BY <1>3, <1>8, <1>9, <1>10 DEF IsJob
<1>12. IsJob(j) /\ j.read = job.read /\ j.todo = todo /\ j.undisturbed = job.undisturbed
  BY <1>9, <1>10 DEF IsJob
<1>13. /\ DOMAIN todo = 1 .. 5 /\ todo[i] = job.todo[i] \ {c}
       /\ \A n \in 1 .. 5 : n # i => todo[n] = job.todo[n]
  BY <1>2, <1>3, <1>8 DEF JobFits
<1>14. \A n \in 1 .. 5 : todo[n] \subseteq job.todo[n]
  BY <1>13
<1>15. JobFits(j)
  BY <1>2, <1>12, <1>13, <1>14 DEF JobFits
<1>16. JobKnows(j, rules', rows)
  <2>1. PICK R : R = rules'
    OBVIOUS
  <2>2. Refs(rules) \subseteq Refs(R) /\ LegacyRef(t, c.id) \in Refs(R)
    BY <1>6, <2>1
  <2> SUFFICES ASSUME job.undisturbed, NEW n \in 1 .. job.read
               PROVE  /\ \A d \in todo[n] : /\ d.id \in DOMAIN rows[Tables[n]]
                                            /\ d = Candidate(Tables[n], d.id, rows)
                      /\ \A id \in DOMAIN rows[Tables[n]] :
                            \/ LegacyRef(Tables[n], id) \in Refs(R)
                            \/ Candidate(Tables[n], id, rows) \in todo[n]
    BY <1>12, <2>1 DEF JobKnows
  <2>3. n \in 1 .. 5
    BY <1>2 DEF JobFits
  <2>4. /\ \A d \in job.todo[n] : /\ d.id \in DOMAIN rows[Tables[n]]
                                  /\ d = Candidate(Tables[n], d.id, rows)
        /\ \A id \in DOMAIN rows[Tables[n]] :
              \/ LegacyRef(Tables[n], id) \in Refs(rules)
              \/ Candidate(Tables[n], id, rows) \in job.todo[n]
    BY <1>2 DEF JobKnows
  <2>5. ASSUME NEW id \in DOMAIN rows[Tables[n]], LegacyRef(Tables[n], id) \notin Refs(R)
        PROVE  Candidate(Tables[n], id, rows) \in todo[n]
    <3>1. Candidate(Tables[n], id, rows) \in job.todo[n]
      BY <2>2, <2>4, <2>5
    <3>2. CASE n = i
      <4>1. Candidate(t, id, rows).id = id
        BY DEF Candidate
      <4>2. Candidate(t, id, rows) # c
        BY <1>3, <2>2, <2>5, <3>2, <4>1
      <4> QED BY <1>3, <1>13, <3>1, <3>2, <4>2
    <3>3. CASE n # i
      BY <1>13, <2>3, <3>1, <3>3
    <3> QED BY <3>2, <3>3
  <2> QED BY <1>14, <2>3, <2>4, <2>5
<1> QED BY <1>2, <1>7, <1>11, <1>15, <1>16 DEF JobInv

LEMMA EndBackfillMoves ==
  ASSUME StoreInv, EndBackfill \/ BackfillFails
  PROVE  EditStep /\ JobInv'
<1>1. /\ job' = Idle /\ next' = next /\ rules' = rules /\ rows' = rows /\ request' = request
      /\ spent' \in 0 .. MaxOperations
  <2>1. CASE EndBackfill
    BY <2>1 DEF EndBackfill, StoreInv, ClientInv
  <2>2. CASE BackfillFails
    BY <2>2, SpendIs DEF BackfillFails, StoreInv
  <2> QED BY <2>1, <2>2
<1>2. NextInv' /\ next'.row = next.row /\ next'.rule = next.rule
  BY <1>1, NextChanges DEF StoreInv
<1> QED BY <1>1, <1>2 DEF EditStep, RuleStep, RowStep, RequestInv, StoreInv, JobInv

LEMMA StoreStepMoves ==
  ASSUME StoreInv, StoreStep
  PROVE  EditStep /\ JobInv'
<1>1. ASSUME EditStep /\ Disturb PROVE EditStep /\ JobInv'
  BY <1>1, DisturbKeeps DEF StoreInv
<1>2. ASSUME NEW m \in Modules, CreateProtectionRule(m) PROVE EditStep /\ JobInv'
  BY <1>1, <1>2, CreateProtectionRuleMoves
<1>3. ASSUME NEW m \in Modules, NEW id, UpdateProtectionRule(m, id) PROVE EditStep /\ JobInv'
  BY <1>1, <1>3, UpdateProtectionRuleMoves
<1>4. ASSUME NEW m \in Modules, NEW id, DeleteProtectionRule(m, id) PROVE EditStep /\ JobInv'
  BY <1>1, <1>4, DeleteProtectionRuleMoves
<1>5. ASSUME UpdateRow PROVE EditStep /\ JobInv'
  BY <1>1, <1>5, UpdateRowMoves
<1>6. ASSUME DeleteRow PROVE EditStep /\ JobInv'
  BY <1>1, <1>6, DeleteRowMoves
<1>7. ASSUME CreateRateLimit PROVE EditStep /\ JobInv'
  BY <1>1, <1>7, CreateRateLimitMoves
<1>8. ASSUME NEW id, UpdateRateLimit(id) PROVE EditStep /\ JobInv'
  BY <1>1, <1>8, UpdateRateLimitMoves
<1>9. ASSUME NEW id, DeleteRateLimit(id) PROVE EditStep /\ JobInv'
  BY <1>1, <1>9, DeleteRateLimitMoves
<1>10. ASSUME NEW id, ToggleAttackRule(id) PROVE EditStep /\ JobInv'
  BY <1>1, <1>10, ToggleAttackRuleMoves
<1>11. ASSUME StartBackfill PROVE EditStep /\ JobInv'
  BY <1>11, StartBackfillMoves
<1>12. ASSUME ReadTable PROVE EditStep /\ JobInv'
  BY <1>12, ReadTableMoves
<1>13. ASSUME InsertCopy PROVE EditStep /\ JobInv'
  BY <1>13, InsertCopyMoves
<1>14. ASSUME EndBackfill \/ BackfillFails PROVE EditStep /\ JobInv'
  BY <1>14, EndBackfillMoves
<1> QED
  BY <1>2, <1>3, <1>4, <1>5, <1>6, <1>7, <1>8, <1>9, <1>10, <1>11, <1>12, <1>13, <1>14
  DEF StoreStep, BackfillStep

-----------------------------------------------------------------------------
(***************************************************************************)
(* The generation of a release.                                            *)
(***************************************************************************)
IsRelease(l) == l = [f \in {"step", "read", "lists"} |-> l[f]] /\ l.step = "read"
ReleaseInv ==
  \/ release = Idle
  \/ /\ IsRelease(release) /\ release.read \in 0 .. 4
     /\ DOMAIN release.lists = OlderTables \cup {"protection_rules"}

\* Where a list that was read has the row of a rule still in force, it has
\* it as it is now.
ReadAsItIs(s, lists, j, W) ==
  s.as[1] = ReadOrder[j] /\ s.as[2] \in DOMAIN W[ReadOrder[j]]
    => /\ s.as[2] \in DOMAIN lists[ReadOrder[j]]
       /\ lists[ReadOrder[j]][s.as[2]] = W[ReadOrder[j]][s.as[2]]
SteadyInv ==
  /\ release = Idle => steady = {}
  /\ \A s \in steady : \E e \in RulesInForce : e.as = s.as /\ e.rule = s.rule
  /\ release # Idle => \A s \in steady : \A j \in 1 .. release.read :
                          j \in 1 .. 4 => ReadAsItIs(s, release.lists, j, rows)

IInv == StoreInv /\ ReleaseInv /\ SteadyInv /\ ReleasesServeSteadyRulesOnce

LEMMA IdleRelease ==
  /\ Idle.step = "idle" /\ Idle # [step |-> "read", read |-> 0,
                                   lists |-> [t \in ReleasedTables \cup {"protection_rules"} |-> <<>>]]
  /\ \A l : IsRelease(l) => l.step = "read" /\ l # Idle
<1>1. Idle.step = "idle"
  BY DEF Idle
<1>2. ASSUME NEW l, IsRelease(l) PROVE l.step = "read"
  BY <1>2 DEF IsRelease
<1>3. PICK lists : lists = [t \in ReleasedTables \cup {"protection_rules"} |-> <<>>]
  OBVIOUS
<1>4. [step |-> "read", read |-> 0, lists |-> lists].step = "read"
  OBVIOUS
<1> QED BY <1>1, <1>2, <1>3, <1>4

LEMMA StartReleaseKeeps ==
  ASSUME SteadyInv, StartRelease, rules' = rules, rows' = rows, Watch
  PROVE  ReleaseInv' /\ SteadyInv' /\ published' = published
<1>1. PICK lists : lists = [t \in ReleasedTables \cup {"protection_rules"} |-> <<>>]
  OBVIOUS
<1>2. PICK l : l = [step |-> "read", read |-> 0, lists |-> lists]
  OBVIOUS
<1>3. release = Idle /\ release' = l /\ published' = published
  BY <1>1, <1>2 DEF StartRelease
<1>4. IsRelease(l) /\ l.read = 0 /\ l.lists = lists
  BY <1>2 DEF IsRelease
<1>5. DOMAIN lists = OlderTables \cup {"protection_rules"}
  BY <1>1, TableNames
<1>6. release' # Idle
  BY <1>3, <1>4, IdleRelease
<1>7. steady' = {[as |-> e.as, rule |-> e.rule] : e \in RulesInForce}
  BY <1>3, <1>6 DEF Watch
<1>8. RulesInForce' = RulesInForce
  BY DEF RulesInForce
<1>9. \A s \in steady' : \E e \in RulesInForce' : e.as = s.as /\ e.rule = s.rule
  BY <1>7, <1>8
<1>10. ReleaseInv'
  BY <1>3, <1>4, <1>5 DEF ReleaseInv
<1>11. SteadyInv'
  BY <1>3, <1>4, <1>6, <1>9 DEF SteadyInv
<1> QED BY <1>3, <1>10, <1>11

\* A step of the store leaves steady the rules whose rows it does not rewrite.
LEMMA StoreStepSteady ==
  ASSUME SteadyInv, ReleaseInv, RowInv, RowInv', release' = release, published' = published, Watch
  PROVE  ReleaseInv' /\ SteadyInv'
<1>1. ReleaseInv'
  BY DEF ReleaseInv
<1>2. CASE release = Idle
  <2>1. steady' = {}
    BY <1>2 DEF Watch
  <2> QED BY <1>1, <1>2, <2>1 DEF SteadyInv
<1>3. CASE release # Idle
  <2>1. steady' = {s \in steady : /\ ~Rewritten(s.as)
                                  /\ \E e \in RulesInForce' : e.as = s.as /\ e.rule = s.rule}
    BY <1>3 DEF Watch
  <2>2. ASSUME NEW s \in steady', NEW j \in 1 .. release.read, j \in 1 .. 4
        PROVE  ReadAsItIs(s, release.lists, j, rows')
    <3>1. s \in steady /\ ~Rewritten(s.as)
      BY <2>1
    <3>2. ReadAsItIs(s, release.lists, j, rows)
      BY <1>3, <2>2, <3>1 DEF SteadyInv
    <3>3. PICK t : t = ReadOrder[j]
      OBVIOUS
    <3>4. t \in TableSet
      BY <2>2, <3>3, ReadOrderIs, TableNames
    <3>5. PICK as : as = s.as
      OBVIOUS
    <3> SUFFICES ASSUME as[1] = t, as[2] \in DOMAIN rows'[t]
                 PROVE  /\ as[2] \in DOMAIN release.lists[t]
                        /\ release.lists[t][as[2]] = rows'[t][as[2]]
      BY <3>3, <3>5 DEF ReadAsItIs
    <3>6. as[2] \in DOMAIN rows[t] /\ rows'[t][as[2]] = rows[t][as[2]]
      BY <3>1, <3>4, <3>5 DEF Rewritten
    <3> QED BY <3>2, <3>3, <3>5, <3>6 DEF ReadAsItIs
  <2>3. \A s \in steady' : \E e \in RulesInForce' : e.as = s.as /\ e.rule = s.rule
    BY <2>1
  <2>4. release' # Idle
    BY <1>3
  <2> QED BY <1>1, <2>2, <2>3, <2>4 DEF SteadyInv
<1> QED BY <1>2, <1>3

LEMMA SameRow ==
  ASSUME NEW L, NEW W, NEW t, NEW id, L[t][id] = W[t][id]
  PROVE  FromRow(L, t, id) = FromRow(W, t, id)
BY Zenon DEF FromRow

\* What is in force now is in the configuration made from what was read.
OwnRowAsRead(e, W, L) == \A t \in ReleasedTables : \A id \in DOMAIN W[t] :
  e.as = LegacyRef(t, id) => id \in DOMAIN L[t] /\ L[t][id] = W[t][id]

LEMMA ServedOnce ==
  ASSUME NEW R, Fits(R), Unique(R), NEW W, NEW L,
         NEW e \in GeneratedRules(R, W), OwnRowAsRead(e, W, L)
  PROVE  \E f \in GeneratedRules(R, L) :
            f.as = e.as /\ f.rule = e.rule /\ \A g \in GeneratedRules(R, L) : g.as = e.as => g = f
<1>1. ASSUME NEW id \in DOMAIN R, R[id].enabled, e = FromRule(R, id)
      PROVE  e \in GeneratedRules(R, L) /\ \A g \in GeneratedRules(R, L) : g.as = e.as => g = e
  BY <1>1, InGenerated, RuleAlone
<1>2. ASSUME NEW t \in ReleasedTables, NEW id \in DOMAIN W[t], W[t][id].enabled,
             LegacyRef(t, id) \notin Refs(R), e = FromRow(W, t, id)
      PROVE  e \in GeneratedRules(R, L) /\ \A g \in GeneratedRules(R, L) : g.as = e.as => g = e
  <2>1. e.as = LegacyRef(t, id)
    BY <1>2, RowName, TableNames
  <2>2. id \in DOMAIN L[t] /\ L[t][id] = W[t][id]
    BY <2>1 DEF OwnRowAsRead
  <2>3. e = FromRow(L, t, id)
    BY <1>2, <2>2, SameRow
  <2>4. e \in GeneratedRules(R, L)
    BY <1>2, <2>2, <2>3, InGenerated
  <2>5. \A g \in GeneratedRules(R, L) : g.as = e.as => g = e
    BY <1>2, <2>3, RowAlone
  <2> QED BY <2>4, <2>5
<1>3. \/ \E id \in DOMAIN R : R[id].enabled /\ e = FromRule(R, id)
      \/ \E t \in ReleasedTables : \E id \in DOMAIN W[t] :
            /\ W[t][id].enabled /\ LegacyRef(t, id) \notin Refs(R)
            /\ e = FromRow(W, t, id)
  BY InGenerated
<1>4. e \in GeneratedRules(R, L) /\ \A g \in GeneratedRules(R, L) : g.as = e.as => g = e
  BY <1>1, <1>2, <1>3
<1> QED BY <1>4

\* It is enforced, and not a second time as a rate limit that stands in.
LEMMA EnforcedOnce ==
  ASSUME NEW R, Fits(R), Unique(R), NEW W, NEW L,
         NEW e \in GeneratedRules(R, W), OwnRowAsRead(e, W, L),
         NEW P, P = EnforcedBy(Generated(R, L))
  PROVE  \E f \in P : f.as = e.as /\ f.rule = e.rule /\ \A g \in P : g.as = e.as => g = f
<1>1. PICK f \in GeneratedRules(R, L) : /\ f.as = e.as /\ f.rule = e.rule
                                        /\ \A g \in GeneratedRules(R, L) : g.as = e.as => g = f
  BY ServedOnce
<1>2. ASSUME NEW g \in GeneratedLimits(L), g.as = e.as,
             \A r \in GeneratedRules(R, L) : r.rule.module # g.rule.module
      PROVE  FALSE
  <2>1. PICK id : g.as = LegacyRef("rate_limits", id) /\ g.rule.module = "cc-protection"
    BY LimitEntry
  <2>2. f.as[1] = "rate_limits"
    BY <1>1, <1>2, <2>1, LegacyRefs
  <2>3. "rate_limits" \in TableSet /\ ModuleOf("rate_limits") = "cc-protection"
    BY TableNames DEF OlderTables, ModuleOf
  <2>4. f.rule.module = "cc-protection"
    BY <2>2, <2>3, EntryModule
  <2> QED BY <1>2, <2>1, <2>4
<1>3. f \in P /\ \A g \in P : g.as = e.as => g = f
  BY <1>1, <1>2, InEnforced
<1> QED BY <1>1, <1>3

LEMMA ReadListKeeps ==
  ASSUME StoreInv, ReleaseInv, SteadyInv, ReleasesServeSteadyRulesOnce,
         ReadList, rules' = rules, rows' = rows, Watch
  PROVE  ReleaseInv' /\ SteadyInv' /\ ReleasesServeSteadyRulesOnce'
<1>1. release.step = "read"
  BY DEF ReadList
<1>2. release # Idle /\ IsRelease(release)
  BY <1>1, IdleRelease DEF ReleaseInv
<1>3. release.read \in 0 .. 4 /\ DOMAIN release.lists = OlderTables \cup {"protection_rules"}
  BY <1>2 DEF ReleaseInv
<1>4. PICK k : k = release.read + 1
  OBVIOUS
<1>5. k \in 1 .. 5 /\ \A i : i \in 1 .. k <=> i \in 1 .. release.read \/ i = k
  BY <1>3, <1>4
<1>6. PICK t : t = ReadOrder[k]
  OBVIOUS
<1>7. PICK list : list = IF t = "protection_rules" THEN rules ELSE rows[t]
  OBVIOUS
<1>8. PICK lists : lists = [release.lists EXCEPT ![t] = list]
  OBVIOUS
<1>9. IF k < 5
      THEN release' = [release EXCEPT !.read = k, !.lists = lists] /\ published' = published
      ELSE /\ release' = Idle
           /\ published' = [config |-> Generated(lists["protection_rules"], lists),
                            steady |-> steady]
  BY <1>4, <1>6, <1>7, <1>8, ReadOrderIs DEF ReadList
<1>10. t \in OlderTables \cup {"protection_rules"} /\ "protection_rules" \notin OlderTables
  <2>1. k \in 1 .. 4 \/ k = 5
    BY <1>5
  <2> QED BY <1>6, <2>1, ReadOrderIs DEF OlderTables
<1>11. /\ DOMAIN lists = OlderTables \cup {"protection_rules"} /\ lists[t] = list
       /\ \A u \in OlderTables \cup {"protection_rules"} : u # t => lists[u] = release.lists[u]
  BY <1>3, <1>8, <1>10
<1>12. RulesInForce' = RulesInForce
  BY DEF RulesInForce
\* A row read earlier, or with this list, is as it is now.
<1>13. ASSUME NEW s \in steady, NEW j \in 1 .. k, j \in 1 .. 4
       PROVE  ReadAsItIs(s, lists, j, rows)
  <2>1. ReadOrder[j] \in OlderTables /\ ReadOrder[j] # "protection_rules"
    BY <1>10, <1>13, ReadOrderIs
  <2>2. CASE j = k
    BY <1>6, <1>7, <1>11, <2>1, <2>2 DEF ReadAsItIs
  <2>3. CASE j # k
    <3>1. j \in 1 .. release.read
      BY <1>5, <2>3
    <3>2. ReadOrder[j] # t
      BY <1>5, <1>6, <1>13, <2>3, ReadOrderIs
    <3>3. ReadAsItIs(s, release.lists, j, rows)
      BY <1>2, <1>13, <3>1 DEF SteadyInv
    <3>4. lists[ReadOrder[j]] = release.lists[ReadOrder[j]]
      BY <1>11, <2>1, <3>2
    <3> QED BY <3>3, <3>4 DEF ReadAsItIs
  <2> QED BY <2>2, <2>3
<1>14. CASE k < 5
  <2>1. PICK l : l = [release EXCEPT !.read = k, !.lists = lists]
    OBVIOUS
  <2>2. release' = l /\ published' = published
    BY <1>9, <1>14, <2>1
  <2>3. IsRelease(l) /\ l.read = k /\ l.lists = lists
    BY <1>2, <2>1 DEF IsRelease
  <2>4. k \in 0 .. 4
    BY <1>5, <1>14
  <2>5. ReleaseInv'
    BY <1>11, <2>2, <2>3, <2>4 DEF ReleaseInv
  <2>6. release' # Idle
    BY <2>2, <2>3, IdleRelease
  <2>7. steady' \subseteq steady
    BY <1>2, <2>6 DEF Watch
  <2>8. \A s \in steady' : \E e \in RulesInForce' : e.as = s.as /\ e.rule = s.rule
    BY <1>12, <2>7 DEF SteadyInv
  <2>9. \A s \in steady' : \A j \in 1 .. release'.read :
           j \in 1 .. 4 => ReadAsItIs(s, release'.lists, j, rows')
    BY <1>13, <2>2, <2>3, <2>7
  <2>10. SteadyInv'
    BY <2>6, <2>8, <2>9 DEF SteadyInv
  <2>11. ReleasesServeSteadyRulesOnce'
    BY <2>2 DEF ReleasesServeSteadyRulesOnce
  <2> QED BY <2>5, <2>10, <2>11
<1>15. CASE k = 5
  <2>1. /\ release' = Idle
        /\ published' = [config |-> Generated(lists["protection_rules"], lists), steady |-> steady]
    BY <1>9, <1>15
  <2>2. steady' = {}
    BY <2>1 DEF Watch
  <2>3. ReleaseInv' /\ SteadyInv'
    BY <2>1, <2>2 DEF ReleaseInv, SteadyInv
  <2>4. t = "protection_rules"
    BY <1>6, <1>15, ReadOrderIs
  <2>5. lists["protection_rules"] = rules
    BY <1>7, <1>11, <2>4
  <2>6. PICK C : C = Generated(rules, lists)
    OBVIOUS
  <2>7. published' = [config |-> C, steady |-> steady]
    BY <2>1, <2>5, <2>6
  <2>11. PICK P : P = EnforcedBy(C)
    OBVIOUS
  <2>12. published'.config = C /\ published'.steady = steady
    BY <2>7
  <2>8. EnforcedBy(published'.config) = P /\ published'.steady = steady
    BY <2>11, <2>12
  <2>9. ASSUME NEW s \in steady
        PROVE  LET served == {e \in P : e.as = s.as} IN
               Cardinality(served) = 1 /\ \A e \in served : e.rule = s.rule
    <3>1. PICK e \in RulesInForce : e.as = s.as /\ e.rule = s.rule
      BY DEF SteadyInv
    <3>2. e \in GeneratedRules(rules, rows)
      BY DEF RulesInForce
    <3>3. ASSUME NEW u \in ReleasedTables, NEW id \in DOMAIN rows[u], e.as = LegacyRef(u, id)
          PROVE  id \in DOMAIN lists[u] /\ lists[u][id] = rows[u][id]
      <4>1. PICK j \in 1 .. 4 : u = ReadOrder[j]
        BY ReadOrderIs, TableNames
      <4>2. ReadAsItIs(s, lists, j, rows)
        BY <1>13, <1>15
      <4>3. s.as[1] = u /\ s.as[2] = id
        BY <3>1, <3>3, LegacyRefs
      <4> QED BY <4>1, <4>2, <4>3 DEF ReadAsItIs
    <3>4. OwnRowAsRead(e, rows, lists)
      BY <3>3 DEF OwnRowAsRead
    <3>5. Fits(rules) /\ Unique(rules)
      BY DEF StoreInv, RuleInv
    <3>6. \E f \in P : f.as = e.as /\ f.rule = e.rule /\ \A g \in P : g.as = e.as => g = f
      <4>1. P = EnforcedBy(Generated(rules, lists))
        BY <2>6, <2>11, Zenon
      <4> QED BY <3>2, <3>4, <3>5, <4>1, EnforcedOnce
    <3>7. PICK f \in P : f.as = s.as /\ f.rule = s.rule /\ \A g \in P : g.as = s.as => g = f
      BY <3>1, <3>6
    <3>8. {g \in P : g.as = s.as} = {f}
      BY <3>7
    <3>9. Cardinality({f}) = 1
      BY FS_Singleton
    <3> QED BY <3>7, <3>8, <3>9
  <2>10. ReleasesServeSteadyRulesOnce'
    BY <2>8, <2>9 DEF ReleasesServeSteadyRulesOnce
  <2> QED BY <2>3, <2>10
<1> QED BY <1>5, <1>14, <1>15

-----------------------------------------------------------------------------
(***************************************************************************)
(* The invariant holds at the start and every step keeps it.               *)
(***************************************************************************)
LEMMA InitHolds ==
  ASSUME Init
  PROVE  IInv
<1>1. PICK i \in Installations : rows = i.rows /\ clients = i.bodies /\ spent = i.spent
  BY DEF Init
<1>2. /\ backend \in Backends /\ rules = <<>> /\ next = [rule |-> 1, row |-> FirstFreeRow]
      /\ request = Idle /\ job = Idle /\ release = Idle
      /\ published = [config |-> [rules |-> {}, limits |-> {}], steady |-> {}] /\ steady = {}
  BY DEF Init
<1>3. /\ DOMAIN i.rows = TableSet /\ \A t \in TableSet : DOMAIN i.rows[t] \subseteq RowIds
      /\ \A id \in DOMAIN i.rows["rate_limits"] : id < FirstFreeRow
      /\ DOMAIN i.bodies \subseteq DOMAIN TableOf \cup {"access-control", "rate-limits"}
      /\ i.spent \in 0 .. MaxOperations
      /\ FirstFreeRow \in Nat
  BY ProtectionAssumption
<1>4. DOMAIN rules = {}
  BY <1>2
<1>5. next \in [rule : Nat, row : Nat] /\ next.row = FirstFreeRow
  BY <1>2, <1>3
<1>6. RowInv
  BY <1>1, <1>3, <1>5 DEF RowInv
<1>7. RuleInv
  BY <1>4 DEF RuleInv, Fits, Unique
<1>8. RequestInv
  BY <1>2, IdleJob DEF RequestInv
<1>9. ClientInv
  BY <1>1, <1>2, <1>3 DEF ClientInv
<1>10. StoreInv
  BY <1>2, <1>5, <1>6, <1>7, <1>8, <1>9 DEF StoreInv, NextInv, JobInv
<1>11. ReleasesServeSteadyRulesOnce
  <2>1. published.steady = {}
    BY <1>2
  <2> QED BY <2>1 DEF ReleasesServeSteadyRulesOnce
<1> QED BY <1>2, <1>10, <1>11 DEF IInv, ReleaseInv, SteadyInv

LEMMA StepHolds ==
  ASSUME IInv, [Next]_vars
  PROVE  IInv'
<1>1. StoreInv /\ ReleaseInv /\ SteadyInv /\ ReleasesServeSteadyRulesOnce
  BY DEF IInv
<1>2. CASE StoreStep /\ UNCHANGED <<release, published>> /\ Watch /\ UNCHANGED <<backend, clients>>
  <2>1. EditStep /\ JobInv'
    BY <1>1, <1>2, StoreStepMoves
  <2>2. RuleStep /\ RowStep /\ NextInv' /\ RequestInv' /\ spent' \in 0 .. MaxOperations
    BY <2>1 DEF EditStep
  <2>3. RuleInv' /\ RowInv'
    BY <1>1, <2>2, RuleStepKeeps, RowStepKeeps DEF StoreInv
  <2>4. ClientInv'
    BY <1>1, <1>2, <2>2 DEF StoreInv, ClientInv
  <2>5. StoreInv'
    BY <2>1, <2>2, <2>3, <2>4 DEF StoreInv
  <2>6. ReleaseInv' /\ SteadyInv'
    BY <1>1, <1>2, <2>3, StoreStepSteady DEF StoreInv
  <2>7. ReleasesServeSteadyRulesOnce'
    BY <1>1, <1>2 DEF ReleasesServeSteadyRulesOnce
  <2> QED BY <2>5, <2>6, <2>7 DEF IInv
<1>3. CASE ReleaseStep /\ UNCHANGED <<rules, rows, next, request, job>> /\ Watch
           /\ UNCHANGED <<backend, clients>>
  <2>1. spent' \in 0 .. MaxOperations
    <3>1. CASE StartRelease
      BY <1>1, <3>1, SpendIs DEF StartRelease, StoreInv
    <3>2. CASE ReadList
      BY <1>1, <3>2 DEF ReadList, StoreInv, ClientInv
    <3> QED BY <1>3, <3>1, <3>2 DEF ReleaseStep
  <2>2. RowInv' /\ RuleInv' /\ NextInv' /\ RequestInv'
    BY <1>1, <1>3 DEF StoreInv, RowInv, RuleInv, NextInv, RequestInv
  <2>3. JobInv' /\ ClientInv'
    BY <1>1, <1>3, <2>1 DEF StoreInv, JobInv, ClientInv
  <2>4. StoreInv'
    BY <2>2, <2>3 DEF StoreInv
  <2>5. ReleaseInv' /\ SteadyInv' /\ ReleasesServeSteadyRulesOnce'
    <3>1. CASE StartRelease
      <4>1. ReleaseInv' /\ SteadyInv' /\ published' = published
        BY <1>1, <1>3, <3>1, StartReleaseKeeps
      <4> QED BY <1>1, <4>1 DEF ReleasesServeSteadyRulesOnce
    <3>2. CASE ReadList
      BY <1>1, <1>3, <3>2, ReadListKeeps
    <3> QED BY <1>3, <3>1, <3>2 DEF ReleaseStep
  <2> QED BY <2>4, <2>5 DEF IInv
<1>4. CASE UNCHANGED vars
  <2>1. RowInv' /\ RuleInv' /\ NextInv' /\ RequestInv' /\ ClientInv' /\ JobInv'
    BY <1>1, <1>4
    DEF vars, StoreInv, RowInv, RuleInv, NextInv, RequestInv, ClientInv, JobInv
  <2>2. RulesInForce' = RulesInForce
    BY <1>4 DEF vars, RulesInForce
  <2>3. ReleaseInv' /\ SteadyInv' /\ ReleasesServeSteadyRulesOnce'
    BY <1>1, <1>4, <2>2 DEF vars, ReleaseInv, SteadyInv, ReleasesServeSteadyRulesOnce
  <2> QED BY <2>1, <2>3 DEF IInv, StoreInv
<1> QED BY <1>2, <1>3, <1>4 DEF Next

THEOREM IInvHolds == Spec => []IInv
<1>1. Init => IInv
  BY InitHolds
<1>2. IInv /\ [Next]_vars => IInv'
  BY StepHolds
<1> QED BY <1>1, <1>2, PTL DEF Spec

-----------------------------------------------------------------------------
(***************************************************************************)
(* The theorems.                                                           *)
(***************************************************************************)

\* Every variable holds a value the code can give it: the modules of the
\* rules, the numbers of rules and rows, each given once, what is left of a
\* request, and the steps of the backfill and of the release.
THEOREM TypeCorrect == Spec => []TypeOK
<1>1. ASSUME IInv PROVE TypeOK
  <2>1. RowInv /\ RuleInv /\ NextInv /\ RequestInv /\ ClientInv /\ JobInv /\ ReleaseInv
    BY <1>1 DEF IInv, StoreInv
  <2>2. job.step \in {"idle", "read"}
    BY <2>1, IdleJob DEF JobInv
  <2>3. release.step \in {"idle", "read"}
    BY <2>1, IdleRelease DEF ReleaseInv
  <2>4. \A id \in DOMAIN rules :
           rules[id].module \in DOMAIN TableOf \cup {"access-control", "attack-protection"}
    BY <2>1 DEF RuleInv, Fits, RuleFits
  <2> QED BY <2>1, <2>2, <2>3, <2>4 DEF TypeOK, RowInv, RuleInv, RequestInv, ClientInv
<1> QED BY <1>1, IInvHolds, PTL

\* However often the backfill runs, fails and runs again, and whatever edits
\* run beside it, a row has at most one copy.
THEOREM RowsAreCopiedOnce == Spec => []LegacyRefsUnique
<1>1. ASSUME IInv PROVE LegacyRefsUnique
  BY <1>1 DEF IInv, StoreInv, RuleInv, Unique, LegacyRefsUnique
<1> QED BY <1>1, IInvHolds, PTL

\* A rule in force all along the generation of a release is in it exactly
\* once, as it is, be it as its row, as its copy or as a rule of its own.
THEOREM SteadyRulesAreServed == Spec => []ReleasesServeSteadyRulesOnce
<1>1. ASSUME IInv PROVE ReleasesServeSteadyRulesOnce
  BY <1>1 DEF IInv
<1> QED BY <1>1, IInvHolds, PTL

\* The list of a module shows as enabled the rules a release would give out: a
\* rule that refers to a row is of the module of the row's table.
LEMMA ModuleShowsInForce ==
  ASSUME Fits(rules), DOMAIN rows = TableSet, NEW m \in DOMAIN TableOf
  PROVE  {e \in Listed(m) : e.rule.enabled} = {e \in RulesInForce : e.rule.module = m}
<1>1. PICK own : own = [id \in {i \in DOMAIN rules : rules[i].module = m} |-> rules[id]]
  OBVIOUS
<1>2. PICK t : t = TableOf[m]
  OBVIOUS
<1>3. t \in TableSet /\ t \in ReleasedTables /\ ModuleOf(t) = m
  BY <1>2, TableOfModule, TableNames
<1>4. \A e : e \in Listed(m) <=>
         \/ \E id \in DOMAIN own : e = FromRule(own, id)
         \/ \E id \in DOMAIN rows[t] : LegacyRef(t, id) \notin Refs(own) /\ e = FromRow(rows, t, id)
  <2>1. Listed(m) = {FromRule(own, id) : id \in DOMAIN own} \cup
                    {FromRow(rows, t, id) : id \in {i \in DOMAIN rows[t] : LegacyRef(t, i) \notin Refs(own)}}
    BY <1>1, <1>2, Zenon DEF Listed
  <2> QED BY <2>1, Zenon
<1>5. \A id : id \in DOMAIN own <=> id \in DOMAIN rules /\ rules[id].module = m
  BY <1>1
<1>6. \A id \in DOMAIN own : own[id] = rules[id]
  BY <1>1
<1>7. \A id \in DOMAIN own : FromRule(own, id) = FromRule(rules, id)
  BY <1>6, Zenon DEF FromRule
<1>8. \A id : LegacyRef(t, id) \in Refs(own) <=> LegacyRef(t, id) \in Refs(rules)
  <2> SUFFICES ASSUME NEW id
               PROVE  LegacyRef(t, id) \in Refs(own) <=> LegacyRef(t, id) \in Refs(rules)
    OBVIOUS
  <2>1. ASSUME LegacyRef(t, id) \in Refs(own) PROVE LegacyRef(t, id) \in Refs(rules)
    <3>1. PICK n \in DOMAIN own : own[n].ref = LegacyRef(t, id)
      BY <2>1, RefsOf
    <3> QED BY <1>5, <1>6, <3>1, RefsOf, LegacyRefs
  <2>2. ASSUME LegacyRef(t, id) \in Refs(rules) PROVE LegacyRef(t, id) \in Refs(own)
    <3>1. PICK n \in DOMAIN rules : rules[n].ref = LegacyRef(t, id)
      BY <2>2, RefsOf
    <3>2. PICK u, k : /\ u \in TableSet /\ rules[n].ref = LegacyRef(u, k)
                        /\ rules[n].module = ModuleOf(u)
      BY <3>1, LegacyRefs DEF Fits, RuleFits
    <3>3. u = t
      BY <3>1, <3>2, LegacyRefs
    <3>4. n \in DOMAIN own /\ own[n].ref = LegacyRef(t, id)
      BY <1>3, <1>5, <1>6, <3>1, <3>2, <3>3
    <3> QED BY <3>4, RefsOf, LegacyRefs
  <2> QED BY <2>1, <2>2
<1>9. \A e : e \in RulesInForce <=>
         \/ \E id \in DOMAIN rules : rules[id].enabled /\ e = FromRule(rules, id)
         \/ \E u \in ReleasedTables : \E id \in DOMAIN rows[u] :
               /\ rows[u][id].enabled /\ LegacyRef(u, id) \notin Refs(rules)
               /\ e = FromRow(rows, u, id)
  BY InGenerated DEF RulesInForce
<1>10. \A id \in DOMAIN rules : /\ FromRule(rules, id).rule.module = rules[id].module
                                /\ FromRule(rules, id).rule.enabled = rules[id].enabled
  <2> SUFFICES ASSUME NEW id \in DOMAIN rules
               PROVE  /\ FromRule(rules, id).rule.module = rules[id].module
                      /\ FromRule(rules, id).rule.enabled = rules[id].enabled
    OBVIOUS
  <2>1. PICK e : e = FromRule(rules, id)
    OBVIOUS
  <2>2. e.rule.module = rules[id].module /\ e.rule.enabled = rules[id].enabled
    BY <2>1, RuleEntry DEF Fits
  <2> QED BY <2>1, <2>2, Zenon
<1>11. \A u \in TableSet : \A id : /\ FromRow(rows, u, id).rule.module = ModuleOf(u)
                                   /\ FromRow(rows, u, id).rule.enabled = rows[u][id].enabled
  <2> SUFFICES ASSUME NEW u \in TableSet, NEW id
               PROVE  /\ FromRow(rows, u, id).rule.module = ModuleOf(u)
                      /\ FromRow(rows, u, id).rule.enabled = rows[u][id].enabled
    OBVIOUS
  <2>1. PICK e : e = FromRow(rows, u, id)
    OBVIOUS
  <2>2. e.rule.module = ModuleOf(u) /\ e.rule.enabled = rows[u][id].enabled
    BY <2>1, RowEntry
  <2> QED BY <2>1, <2>2, Zenon
<1>12. ASSUME NEW e \in Listed(m), e.rule.enabled
       PROVE  e \in RulesInForce /\ e.rule.module = m
  <2>1. CASE \E id \in DOMAIN own : e = FromRule(own, id)
    <3>1. PICK id \in DOMAIN own : e = FromRule(own, id)
      BY <2>1
    <3>2. id \in DOMAIN rules /\ rules[id].module = m /\ e = FromRule(rules, id)
      BY <1>5, <1>7, <3>1
    <3> QED BY <1>9, <1>10, <1>12, <3>2, Zenon
  <2>2. CASE \E id \in DOMAIN rows[t] : LegacyRef(t, id) \notin Refs(own) /\ e = FromRow(rows, t, id)
    <3>1. PICK id \in DOMAIN rows[t] : LegacyRef(t, id) \notin Refs(own) /\ e = FromRow(rows, t, id)
      BY <2>2
    <3>2. rows[t][id].enabled /\ LegacyRef(t, id) \notin Refs(rules) /\ e.rule.module = m
      BY <1>3, <1>8, <1>11, <1>12, <3>1, Zenon
    <3>3. t \in ReleasedTables
      BY <1>3
    <3> QED BY <1>9, <3>1, <3>2, <3>3, Zenon
  <2> QED BY <1>4, <2>1, <2>2
<1>13. ASSUME NEW e \in RulesInForce, e.rule.module = m
       PROVE  e \in Listed(m) /\ e.rule.enabled
  <2>1. CASE \E id \in DOMAIN rules : rules[id].enabled /\ e = FromRule(rules, id)
    <3>1. PICK id \in DOMAIN rules : rules[id].enabled /\ e = FromRule(rules, id)
      BY <2>1
    <3>2. rules[id].module = m
      BY <1>10, <1>13, <3>1
    <3>3. id \in DOMAIN own /\ e = FromRule(own, id)
      BY <1>5, <1>7, <3>1, <3>2
    <3> QED BY <1>4, <1>10, <3>1, <3>3, Zenon
  <2>2. CASE \E u \in ReleasedTables : \E id \in DOMAIN rows[u] :
                /\ rows[u][id].enabled /\ LegacyRef(u, id) \notin Refs(rules)
                /\ e = FromRow(rows, u, id)
    <3>5. PICK u \in ReleasedTables : \E id \in DOMAIN rows[u] :
                /\ rows[u][id].enabled /\ LegacyRef(u, id) \notin Refs(rules)
                /\ e = FromRow(rows, u, id)
      BY <2>2, Zenon
    <3>1. PICK id \in DOMAIN rows[u] :
                /\ rows[u][id].enabled /\ LegacyRef(u, id) \notin Refs(rules)
                /\ e = FromRow(rows, u, id)
      BY <3>5, Zenon
    <3>2. u \in OlderTables /\ u \in TableSet
      BY TableNames
    <3>3. ModuleOf(u) = m
      BY <1>11, <1>13, <3>1, <3>2
    <3>4. u = t
      BY <1>2, <3>2, <3>3, TableOfModule
    <3> QED BY <1>4, <1>8, <1>11, <3>1, <3>2, <3>4, Zenon
  <2> QED BY <1>9, <2>1, <2>2
<1> QED BY <1>12, <1>13, Zenon

\* A backfill that no edit disturbed has a copy of every row, or still has
\* the row to copy; at its end nothing is left to copy.
THEOREM BackfillCompletes == Spec => BackfillIsComplete
<1>1. ASSUME IInv, EndBackfill, job.undisturbed, Copyable
      PROVE  Covered
  <2>1. job.step = "read" /\ job.read = 5
    BY <1>1, TableNames DEF EndBackfill
  <2>2. JobFits(job) /\ JobKnows(job, rules, rows)
    BY <1>1, <2>1, IdleJob DEF IInv, StoreInv, JobInv
  <2>3. ASSUME NEW i \in 1 .. 5, NEW c \in Turn(i), ~Validate(Copy(c))
        PROVE  FALSE
    <3>1. c \in job.todo[i]
      BY DEF Turn
    <3>2. c.id \in DOMAIN rows[Tables[i]] /\ c = Candidate(Tables[i], c.id, rows)
      BY <1>1, <2>1, <2>2, <3>1 DEF JobKnows
    <3>3. Tables[i] \in TableSet
      BY TableNames
    <3>4. Validate(Copy(Candidate(Tables[i], c.id, rows)))
      BY <1>1, <3>2, <3>3, Zenon DEF Copyable, Candidate
    <3> QED BY <2>3, <3>2, <3>4, Zenon
  <2>4. \A i \in 1 .. 5 : job.todo[i] = {}
    BY <1>1, <2>3, TableNames DEF EndBackfill
  <2>5. ASSUME NEW t \in TableSet, NEW id \in DOMAIN rows[t]
        PROVE  LegacyRef(t, id) \in Refs(rules)
    <3>1. PICK i \in 1 .. 5 : t = Tables[i]
      BY TableNames
    <3> QED BY <1>1, <2>1, <2>2, <2>4, <3>1 DEF JobKnows
  <2> QED BY <2>5 DEF Covered
<1>2. IInv /\ [Next]_vars => [EndBackfill /\ job.undisturbed /\ Copyable => Covered]_vars
  BY <1>1
<1> QED BY <1>2, IInvHolds, PTL DEF Spec, BackfillIsComplete

-----------------------------------------------------------------------------
(***************************************************************************)
(* Inserting the copy of a row that is as it was read.                     *)
(***************************************************************************)
LEMMA InForceAsHas ==
  ASSUME NEW S, NEW x
  PROVE  x \in InForceAs(S) <=> \E e \in S : e.as[1] # "rules" /\ x = [as |-> e.as, rule |-> e.rule]
BY Zenon DEF InForceAs

\* The entries of the rules and rows of a store without the copy and with it.
LEMMA CopyChangesNothing ==
  ASSUME NEW R, Fits(R), NEW W, DOMAIN W = TableSet, NEW t \in TableSet, NEW n, n \in DOMAIN W[t],
         LegacyRef(t, n) \notin Refs(R), NEW k, RuleFits(k), k.ref = LegacyRef(t, n),
         k.enabled = W[t][n].enabled, Essence(k) = Essence(FromLegacy(t, n, W[t][n])),
         NEW id, id \notin DOMAIN R, NEW p, p = Put(R, id, k)
  PROVE  InForceAs(GeneratedRules(p, W)) = InForceAs(GeneratedRules(R, W))
<1>1. DOMAIN p = DOMAIN R \cup {id} /\ p[id] = k /\ \A j \in DOMAIN R : p[j] = R[j]
  BY DEF Put
<1>2. Refs(p) = Refs(R) \cup {LegacyRef(t, n)}
  BY PutRefs, LegacyRefs
<1>3. Fits(p)
  BY <1>1 DEF Fits
<1>4. \A j \in DOMAIN R : FromRule(p, j) = FromRule(R, j)
  BY <1>1, Zenon DEF FromRule
<1>5. PICK a : a = FromRule(p, id)
  OBVIOUS
<1>6. PICK b : b = FromRow(W, t, n)
  OBVIOUS
<1>7. a.as = LegacyRef(t, n) /\ a.rule = Essence(k)
  <2>1. id \in DOMAIN p /\ RuleFits(p[id])
    BY <1>1
  <2>2. a.as = IF p[id].ref = NoRef THEN LegacyRef("protection_rules", id) ELSE p[id].ref
    BY <1>5, <2>1, RuleEntry
  <2>3. a.rule = Essence(p[id])
    BY <1>5, <2>1, RuleEntry
  <2> QED BY <1>1, <2>2, <2>3, LegacyRefs
<1>8. b.as = LegacyRef(t, n) /\ b.rule = Essence(FromLegacy(t, n, W[t][n]))
  BY <1>6, RowEntry
<1>9. b.as = a.as /\ b.rule = a.rule
  BY <1>7, <1>8
<1>10. ASSUME NEW x \in InForceAs(GeneratedRules(p, W))
       PROVE  x \in InForceAs(GeneratedRules(R, W))
  <2>1. PICK e \in GeneratedRules(p, W) : e.as[1] # "rules" /\ x = [as |-> e.as, rule |-> e.rule]
    BY <1>10, InForceAsHas
  <2>2. CASE \E j \in DOMAIN p : p[j].enabled /\ e = FromRule(p, j)
    <3>1. PICK j \in DOMAIN p : p[j].enabled /\ e = FromRule(p, j)
      BY <2>2
    <3>2. CASE j = id
      <4>1. e = a /\ k.enabled
        BY <1>1, <1>5, <3>1, <3>2
      <4>2. t # "rules"
        BY <1>7, <2>1, <4>1, LegacyRefs
      <4>3. t \in ReleasedTables
        BY <4>2, TableNames
      <4>4. W[t][n].enabled
        BY <4>1, Zenon
      <4>5. b \in GeneratedRules(R, W)
        BY <1>6, <4>3, <4>4, InGenerated, Zenon
      <4>6. x = [as |-> b.as, rule |-> b.rule] /\ b.as[1] # "rules"
        BY <1>9, <2>1, <4>1
      <4> QED BY <4>5, <4>6, InForceAsHas
    <3>3. CASE j # id
      <4>1. j \in DOMAIN R /\ R[j].enabled /\ e = FromRule(R, j)
        BY <1>1, <1>4, <3>1, <3>3
      <4>2. e \in GeneratedRules(R, W)
        BY <4>1, InGenerated
      <4> QED BY <2>1, <4>2, InForceAsHas
    <3> QED BY <3>2, <3>3
  <2>3. CASE \E u \in ReleasedTables : \E j \in DOMAIN W[u] :
               W[u][j].enabled /\ LegacyRef(u, j) \notin Refs(p) /\ e = FromRow(W, u, j)
    <3>1. e \in GeneratedRules(R, W)
      BY <1>2, <2>3, InGenerated
    <3> QED BY <2>1, <3>1, InForceAsHas
  <2> QED BY <2>2, <2>3, InGenerated
<1>11. ASSUME NEW x \in InForceAs(GeneratedRules(R, W))
       PROVE  x \in InForceAs(GeneratedRules(p, W))
  <2>1. PICK e \in GeneratedRules(R, W) : e.as[1] # "rules" /\ x = [as |-> e.as, rule |-> e.rule]
    BY <1>11, InForceAsHas
  <2>2. CASE \E j \in DOMAIN R : R[j].enabled /\ e = FromRule(R, j)
    <3>1. PICK j \in DOMAIN R : R[j].enabled /\ e = FromRule(R, j)
      BY <2>2
    <3>2. j \in DOMAIN p /\ p[j].enabled /\ e = FromRule(p, j)
      BY <1>1, <1>4, <3>1
    <3>3. e \in GeneratedRules(p, W)
      BY <3>2, InGenerated
    <3> QED BY <2>1, <3>3, InForceAsHas
  <2>3. CASE \E u \in ReleasedTables : \E j \in DOMAIN W[u] :
               W[u][j].enabled /\ LegacyRef(u, j) \notin Refs(R) /\ e = FromRow(W, u, j)
    <3>5. PICK u \in ReleasedTables : \E j \in DOMAIN W[u] :
               W[u][j].enabled /\ LegacyRef(u, j) \notin Refs(R) /\ e = FromRow(W, u, j)
      BY <2>3, Zenon
    <3>1. PICK j \in DOMAIN W[u] :
               W[u][j].enabled /\ LegacyRef(u, j) \notin Refs(R) /\ e = FromRow(W, u, j)
      BY <3>5, Zenon
    <3>2. CASE u = t /\ j = n
      <4>1. e = b /\ W[t][n].enabled
        BY <1>6, <3>1, <3>2, Zenon
      <4>2. k.enabled
        BY <4>1, Zenon
      <4>3. a \in GeneratedRules(p, W)
        BY <1>1, <1>5, <4>2, InGenerated, Zenon
      <4>4. x = [as |-> a.as, rule |-> a.rule] /\ a.as[1] # "rules"
        BY <1>9, <2>1, <4>1
      <4> QED BY <4>3, <4>4, InForceAsHas
    <3>3. CASE ~(u = t /\ j = n)
      <4>1. LegacyRef(u, j) \notin Refs(p)
        BY <1>2, <3>1, <3>3, LegacyRefs
      <4>2. e \in GeneratedRules(p, W)
        BY <3>1, <4>1, InGenerated, Zenon
      <4> QED BY <2>1, <4>2, InForceAsHas
    <3> QED BY <3>2, <3>3
  <2> QED BY <2>2, <2>3, InGenerated
<1> QED BY <1>10, <1>11, Zenon

\* Rate limits stand in for the one exactly when they do for the other.
LEMMA SameStandIns ==
  ASSUME NEW A, Fits(A), NEW B, Fits(B), NEW W,
         InForceAs(GeneratedRules(A, W)) = InForceAs(GeneratedRules(B, W)),
         NEW x \in InForceAs(EnforcedBy(Generated(A, W)))
  PROVE  x \in InForceAs(EnforcedBy(Generated(B, W)))
<1>1. PICK e \in EnforcedBy(Generated(A, W)) : e.as[1] # "rules" /\ x = [as |-> e.as, rule |-> e.rule]
  BY InForceAsHas
<1>2. CASE e \in GeneratedRules(A, W)
  <2>1. x \in InForceAs(GeneratedRules(B, W))
    BY <1>1, <1>2, InForceAsHas
  <2>2. PICK f \in GeneratedRules(B, W) : f.as[1] # "rules" /\ x = [as |-> f.as, rule |-> f.rule]
    BY <2>1, InForceAsHas
  <2>3. f \in EnforcedBy(Generated(B, W))
    BY InEnforced
  <2> QED BY <2>2, <2>3, InForceAsHas
<1>3. CASE e \in GeneratedLimits(W) /\ \A r \in GeneratedRules(A, W) : r.rule.module # e.rule.module
  <2>1. e.rule.module = "cc-protection"
    BY <1>3, LimitEntry
  <2>2. ASSUME NEW r \in GeneratedRules(B, W), r.rule.module = "cc-protection"
        PROVE  FALSE
    <3>1. r.as[1] # "rules"
      BY <2>2, EntryModule, TableNames, TableOfModule
    <3>2. PICK y : y = [as |-> r.as, rule |-> r.rule]
      OBVIOUS
    <3>3. y \in InForceAs(GeneratedRules(A, W))
      BY <3>1, <3>2, InForceAsHas
    <3>4. PICK q \in GeneratedRules(A, W) : y = [as |-> q.as, rule |-> q.rule]
      BY <3>3, InForceAsHas
    <3>5. q.rule = r.rule
      BY <3>2, <3>4
    <3> QED BY <1>3, <2>1, <2>2, <3>5
  <2>3. e \in EnforcedBy(Generated(B, W))
    BY <1>3, <2>1, <2>2, InEnforced
  <2> QED BY <1>1, <2>3, InForceAsHas
<1> QED BY <1>1, <1>2, <1>3, InEnforced

LEMMA SameEnforced ==
  ASSUME NEW A, Fits(A), NEW B, Fits(B), NEW W,
         InForceAs(GeneratedRules(A, W)) = InForceAs(GeneratedRules(B, W))
  PROVE  InForceAs(EnforcedBy(Generated(A, W))) = InForceAs(EnforcedBy(Generated(B, W)))
<1>1. \A x \in InForceAs(EnforcedBy(Generated(A, W))) : x \in InForceAs(EnforcedBy(Generated(B, W)))
  BY SameStandIns
<1>2. \A x \in InForceAs(EnforcedBy(Generated(B, W))) : x \in InForceAs(EnforcedBy(Generated(A, W)))
  BY SameStandIns
<1> QED BY <1>1, <1>2, Zenon

\* A step of the backfill whose rows are as it read them leaves what is in
\* force as it is: the copy says what the row said and takes its place.
THEOREM BackfillsProtectTheSame == Spec => BackfillChangesNoProtection
<1>1. ASSUME IInv, BackfillStep, FreshCopies
      PROVE  InForceAs(InForce)' = InForceAs(InForce)
  <2>1. PICK R : R = rules'
    OBVIOUS
  <2>2. rows' = rows
    BY <1>1 DEF BackfillStep, ReadTable, InsertCopy, EndBackfill
  <2>3. InForceAs(InForce)' = InForceAs(EnforcedBy(Generated(R, rows)))
    BY <2>1, <2>2 DEF InForce, InForceAs
  <2>4. CASE rules' = rules
    BY <2>1, <2>3, <2>4 DEF InForce
  <2>5. CASE InsertCopy
    <3>1. StoreInv
      BY <1>1 DEF IInv
    <3>2. PICK i, t, c : Inserts(i, t, c)
      BY <2>5, <3>1, InsertCopyIs
    <3>3. i \in 1 .. 5 /\ t \in TableSet /\ c \in job.todo[i] /\ c.table = t
      BY <3>2 DEF Inserts
    <3>4. JobFits(job)
      BY <2>5, <3>1, InsertCopyIs
    <3>5. c.id \in DOMAIN rows[t] /\ rows[t][c.id] = c.row
      <4>1. i \in DOMAIN job.todo
        BY <3>3, <3>4 DEF JobFits
      <4> QED BY <1>1, <3>3, <4>1 DEF FreshCopies
    <3>6. CASE LegacyRef(t, c.id) \in Refs(rules)
      BY <2>4, <3>2, <3>6 DEF Inserts
    <3>7. CASE LegacyRef(t, c.id) \notin Refs(rules)
      <4>1. PICK k : k = Copy(c)
        OBVIOUS
      <4>2. R = Put(rules, next.rule, k)
        BY <2>1, <3>2, <3>7, <4>1 DEF Inserts
      <4>3. PICK n : n = c.id
        OBVIOUS
      <4>4. /\ RuleFits(k) /\ k.ref = LegacyRef(t, n) /\ k.enabled = rows[t][n].enabled
            /\ Essence(k) = Essence(FromLegacy(t, n, rows[t][n]))
        <5>1. /\ RuleFits(k) /\ k.ref = LegacyRef(t, c.id) /\ k.enabled = c.row.enabled
              /\ Essence(k) = Essence(FromLegacy(t, c.id, c.row))
          BY <3>3, <4>1, CopyFits
        <5> QED BY <3>5, <4>3, <5>1, Zenon
      <4>5. /\ Fits(rules) /\ DOMAIN rows = TableSet /\ next.rule \notin DOMAIN rules
        BY <3>1, FreeNumber DEF StoreInv, RuleInv, RowInv
      <4>6. n \in DOMAIN rows[t] /\ LegacyRef(t, n) \notin Refs(rules)
        BY <3>5, <3>7, <4>3
      <4>8. InForceAs(GeneratedRules(R, rows)) = InForceAs(GeneratedRules(rules, rows))
        BY <3>3, <4>2, <4>4, <4>5, <4>6, CopyChangesNothing
      <4>7. Fits(R)
        BY <4>2, <4>4, <4>5 DEF Fits, Put
      <4>9. InForceAs(EnforcedBy(Generated(R, rows))) = InForceAs(EnforcedBy(Generated(rules, rows)))
        BY <4>5, <4>7, <4>8, SameEnforced
      <4> QED BY <2>3, <4>9 DEF InForce
    <3> QED BY <3>6, <3>7
  <2>6. CASE ReadTable \/ EndBackfill
    BY <2>4, <2>6 DEF ReadTable, EndBackfill
  <2> QED BY <1>1, <2>5, <2>6 DEF BackfillStep
<1>2. IInv /\ [Next]_vars
        => [BackfillStep /\ FreshCopies => InForceAs(InForce)' = InForceAs(InForce)]_vars
  BY <1>1
<1> QED BY <1>2, IInvHolds, PTL DEF Spec, BackfillChangesNoProtection

-----------------------------------------------------------------------------
(***************************************************************************)
(* What the health report tells.                                           *)
(***************************************************************************)
Nameless(rule) == [rule EXCEPT !.name = ""]
AsServed(e) == [as |-> e.as, rule |-> Nameless(e.rule)]

LEMMA InServed ==
  ASSUME NEW E, NEW x
  PROVE  x \in Served(E) <=> \E e \in E : x = AsServed(e)
BY Zenon DEF Served, AsServed, Nameless

LEMMA SameServed ==
  ASSUME NEW e, NEW f, e.as = f.as, Nameless(e.rule) = Nameless(f.rule)
  PROVE  AsServed(e) = AsServed(f)
BY Zenon DEF AsServed

LEMMA NamelessKeeps ==
  ASSUME NEW r, IsRule(r), NEW s, IsRule(s), Nameless(r) = Nameless(s)
  PROVE  r.enabled = s.enabled
<1>1. PICK none : none = ""
  OBVIOUS
<1>2. PICK a : a = [r EXCEPT !.name = none]
  OBVIOUS
<1>3. PICK b : b = [s EXCEPT !.name = none]
  OBVIOUS
<1>4. a = b
  BY <1>1, <1>2, <1>3, Zenon DEF Nameless
<1> HIDE <1>1
<1>5. "enabled" \in Columns \ {"name"}
  BY DEF Columns
<1>6. a.enabled = r.enabled
  BY <1>2, <1>5, SetColumn
<1>7. b.enabled = s.enabled
  BY <1>3, <1>5, SetColumn
<1> QED BY <1>4, <1>6, <1>7

\* A row and its reference say the same rule.
LEMMA LegacyEssence ==
  ASSUME NEW t \in TableSet, NEW id, NEW row
  PROVE  /\ Essence(FromLegacy(t, id, row)) = Essence(Legacy(t, row))
         /\ IsRule(Essence(Legacy(t, row))) /\ Essence(Legacy(t, row)).enabled = row.enabled
<1>1. PICK n : n = Legacy(t, row)
  OBVIOUS
<1>2. PICK r : r = FromLegacy(t, id, row)
  OBVIOUS
<1>3. IsRule(n) /\ n.enabled = row.enabled
  <2>1. IsTidy(n) /\ n.enabled = row.enabled
    BY <1>1, LegacyRule
  <2> QED BY <2>1, Zenon DEF IsTidy
<1>4. PICK x : x = LegacyRef(t, id)
  OBVIOUS
<1>5. r = [n EXCEPT !.ref = x]
  BY <1>1, <1>2, <1>4, Zenon DEF FromLegacy
<1>6. IsRule(r) /\ \A g \in Columns \ {"ref"} : r[g] = n[g]
  <2>1. IsRule(r)
    BY <1>3, <1>5, SetColumn
  <2>2. "ref" \in Columns
    BY DEF Columns
  <2> QED BY <1>3, <1>5, <2>1, <2>2, SMTT(20) DEF IsRule
<1>7. Essence(r) = Essence(n)
  BY <1>3, <1>6, EssenceForgets
<1>8. PICK e : e = Essence(n)
  OBVIOUS
<1>9. IsRule(e) /\ e.enabled = n.enabled
  BY <1>3, <1>8, EssenceIs
<1> QED BY <1>1, <1>2, <1>3, <1>7, <1>8, <1>9, Zenon

\* In a healthy store a rule that refers to a row says what the row says, and
\* a row has a rule that refers to it.
LEMMA HealthyCopy ==
  ASSUME Fits(rules), Healthy, NEW id \in DOMAIN rules, rules[id].ref # NoRef
  PROVE  \E t \in ReleasedTables : \E n \in DOMAIN rows[t] :
            /\ rules[id].ref = LegacyRef(t, n) /\ rules[id].enabled = rows[t][n].enabled
            /\ Nameless(Essence(rules[id])) = Nameless(Essence(FromLegacy(t, n, rows[t][n])))
<1>1. Orphaned = {} /\ Conflicts = {}
  BY Zenon DEF Healthy
<1>2. PICK ref : ref = rules[id].ref
  OBVIOUS
<1>3. ref \in Refs(rules)
  BY <1>2, RefsOf
<1>4. ref \in Candidates
  BY <1>1, <1>3, Zenon DEF Orphaned
<1>5. PICK t \in ReleasedTables : ref \in {<<t, n>> : n \in DOMAIN rows[t]}
  BY <1>4, Zenon DEF Candidates
<1>6. PICK n \in DOMAIN rows[t] : ref = <<t, n>>
  BY <1>5, Zenon
<1>7. ref = LegacyRef(t, n) /\ ref[1] = t /\ ref[2] = n
  BY <1>6 DEF LegacyRef
<1>8. id \in CopiesOf(ref)
  BY <1>2 DEF CopiesOf
<1>9. Nameless(Essence(rules[id])) = Nameless(Essence(Legacy(ref[1], rows[ref[1]][ref[2]])))
  BY <1>1, <1>4, <1>8, Zenon DEF Conflicts, Nameless
<1>10. t \in TableSet
  BY TableNames
<1>11. PICK row : row = rows[t][n]
  OBVIOUS
<1>12. Nameless(Essence(rules[id])) = Nameless(Essence(Legacy(t, row)))
  BY <1>7, <1>9, <1>11, Zenon
<1>13. /\ Essence(FromLegacy(t, n, row)) = Essence(Legacy(t, row))
       /\ IsRule(Essence(Legacy(t, row))) /\ Essence(Legacy(t, row)).enabled = row.enabled
  BY <1>10, LegacyEssence
<1>14. PICK q : q = rules[id]
  OBVIOUS
<1>15. IsRule(q)
  BY <1>14 DEF Fits, RuleFits
<1>16. PICK e : e = Essence(q)
  OBVIOUS
<1>17. IsRule(e) /\ e.enabled = q.enabled
  BY <1>15, <1>16, EssenceIs
<1>18. PICK f : f = Essence(Legacy(t, row))
  OBVIOUS
<1>19. IsRule(f) /\ f.enabled = row.enabled
  BY <1>13, <1>18, Zenon
<1>20. Nameless(e) = Nameless(f)
  BY <1>12, <1>14, <1>16, <1>18, Zenon
<1>21. e.enabled = f.enabled
  BY <1>17, <1>19, <1>20, NamelessKeeps
<1>22. rules[id].enabled = rows[t][n].enabled
  BY <1>11, <1>14, <1>17, <1>19, <1>21
<1>23. Nameless(Essence(rules[id])) = Nameless(Essence(FromLegacy(t, n, rows[t][n])))
  BY <1>11, <1>12, <1>13, Zenon
<1> QED BY <1>2, <1>7, <1>22, <1>23, Zenon

LEMMA HealthyRow ==
  ASSUME Healthy, NEW t \in ReleasedTables, NEW n \in DOMAIN rows[t]
  PROVE  \E id \in DOMAIN rules : rules[id].ref = LegacyRef(t, n)
<1>1. Missing = {}
  BY Zenon DEF Healthy
<1>2. LegacyRef(t, n) \in {LegacyRef(t, id) : id \in DOMAIN rows[t]}
  BY Zenon
<1>3. LegacyRef(t, n) \in Candidates
  BY <1>2, Zenon DEF Candidates, LegacyRef
<1>4. CopiesOf(LegacyRef(t, n)) # {}
  BY <1>1, <1>3, Zenon DEF Missing
<1> QED BY <1>4, Zenon DEF CopiesOf

\* The rules alone.
LEMMA HealthyRules ==
  ASSUME Healthy
  PROVE  GeneratedRules(rules, NoRows) = RulesInForce
<1>1. PICK L : L = NoRows
  OBVIOUS
<1>2. \A t \in ReleasedTables : DOMAIN L[t] = {}
  BY <1>1 DEF NoRows
<1>3. ASSUME NEW t \in ReleasedTables, NEW n \in DOMAIN rows[t]
      PROVE  LegacyRef(t, n) \in Refs(rules)
  BY <1>3, HealthyRow, RefsOf, LegacyRefs
<1>4. ASSUME NEW e
      PROVE  e \in GeneratedRules(rules, L) <=> \E id \in DOMAIN rules :
                rules[id].enabled /\ e = FromRule(rules, id)
  BY <1>2, InGenerated
<1>5. ASSUME NEW e
      PROVE  e \in GeneratedRules(rules, rows) <=> \E id \in DOMAIN rules :
                rules[id].enabled /\ e = FromRule(rules, id)
  BY <1>3, InGenerated
<1>6. GeneratedRules(rules, L) = GeneratedRules(rules, rows)
  BY <1>4, <1>5, Zenon
<1> QED BY <1>1, <1>6, Zenon DEF RulesInForce

\* The rows and the rules that refer to none: an entry of a release and an
\* entry of the other one say the same.
LEMMA NativeEntries ==
  ASSUME NEW id \in DOMAIN rules, rules[id].ref = NoRef
  PROVE  id \in DOMAIN WithoutCopies /\ WithoutCopies[id] = rules[id]
         /\ FromRule(WithoutCopies, id) = FromRule(rules, id)
<1>1. id \in DOMAIN WithoutCopies /\ WithoutCopies[id] = rules[id]
  BY DEF WithoutCopies
<1> QED BY <1>1, Zenon DEF FromRule

LEMMA OnlyNatives ==
  /\ \A id \in DOMAIN WithoutCopies : id \in DOMAIN rules /\ rules[id].ref = NoRef
                                      /\ WithoutCopies[id] = rules[id]
  /\ \A ref : ref \notin Refs(WithoutCopies)
<1>1. \A id \in DOMAIN WithoutCopies : id \in DOMAIN rules /\ rules[id].ref = NoRef
                                       /\ WithoutCopies[id] = rules[id]
  BY DEF WithoutCopies
<1> QED BY <1>1, RefsOf

\* No rate limit stands in: an enabled row has an enabled copy.
LEMMA HealthyLimits ==
  ASSUME Fits(rules), DOMAIN rows = TableSet, Healthy
  PROVE  /\ EnforcedBy(Generated(rules, NoRows)) = GeneratedRules(rules, NoRows)
         /\ EnforcedBy(Generated(WithoutCopies, rows)) = GeneratedRules(WithoutCopies, rows)
         /\ InForce = RulesInForce
<1>1. "rate_limits" \in ReleasedTables /\ "rate_limits" \in TableSet
      /\ ModuleOf("rate_limits") = "cc-protection"
  BY TableNames DEF OlderTables, ModuleOf
<1>2. EnforcedBy(Generated(rules, NoRows)) = GeneratedRules(rules, NoRows)
  <2>1. DOMAIN NoRows["rate_limits"] = {}
    BY <1>1 DEF NoRows
  <2>2. \A e : e \notin GeneratedLimits(NoRows)
    BY <2>1, LimitEntry
  <2> QED BY <2>2, NoneStandsIn
<1>3. EnforcedBy(Generated(WithoutCopies, rows)) = GeneratedRules(WithoutCopies, rows)
  <2>1. ASSUME NEW e \in GeneratedLimits(rows)
        PROVE  e \in GeneratedRules(WithoutCopies, rows)
    <3>1. PICK id \in DOMAIN rows["rate_limits"] :
             rows["rate_limits"][id].enabled /\ e = FromRow(rows, "rate_limits", id)
      BY LimitEntry
    <3>2. LegacyRef("rate_limits", id) \notin Refs(WithoutCopies)
      BY OnlyNatives
    <3> QED BY <1>1, <3>1, <3>2, InGenerated, Zenon
  <2> QED BY <2>1, NoneStandsIn
<1>4. EnforcedBy(Generated(rules, rows)) = GeneratedRules(rules, rows)
  <2>1. ASSUME NEW e \in GeneratedLimits(rows)
        PROVE  \E r \in GeneratedRules(rules, rows) : r.rule.module = e.rule.module
    <3>1. PICK id \in DOMAIN rows["rate_limits"] :
             rows["rate_limits"][id].enabled /\ e.rule.module = "cc-protection"
      BY LimitEntry
    <3>2. PICK n \in DOMAIN rules : rules[n].ref = LegacyRef("rate_limits", id)
      BY <1>1, HealthyRow
    <3>3. rules[n].enabled
      <4>1. PICK t \in ReleasedTables : \E k \in DOMAIN rows[t] :
              /\ rules[n].ref = LegacyRef(t, k) /\ rules[n].enabled = rows[t][k].enabled
        BY <3>2, HealthyCopy, LegacyRefs
      <4>2. PICK k \in DOMAIN rows[t] :
              rules[n].ref = LegacyRef(t, k) /\ rules[n].enabled = rows[t][k].enabled
        BY <4>1
      <4>3. t = "rate_limits" /\ k = id
        BY <3>2, <4>2, LegacyRefs
      <4> QED BY <3>1, <4>2, <4>3
    <3>4. PICK r : r = FromRule(rules, n)
      OBVIOUS
    <3>5. r \in GeneratedRules(rules, rows)
      BY <3>3, <3>4, InGenerated
    <3>6. r.as = LegacyRef("rate_limits", id)
      BY <3>2, <3>4, RuleEntry, LegacyRefs DEF Fits
    <3>7. r.rule.module = "cc-protection"
      BY <1>1, <3>5, <3>6, EntryModule, LegacyRefs
    <3> QED BY <3>1, <3>5, <3>7
  <2> QED BY <2>1, NoneStandsIn
<1> QED BY <1>2, <1>3, <1>4, Zenon DEF InForce, RulesInForce

\* The entry of a row and the entry of its copy.
LEMMA CopyEntry ==
  ASSUME Fits(rules), NEW id \in DOMAIN rules, NEW t \in ReleasedTables, NEW n \in DOMAIN rows[t],
         rules[id].ref = LegacyRef(t, n),
         Nameless(Essence(rules[id])) = Nameless(Essence(FromLegacy(t, n, rows[t][n])))
  PROVE  AsServed(FromRule(rules, id)) = AsServed(FromRow(rows, t, n))
<1> SUFFICES ASSUME NEW e, e = FromRule(rules, id), NEW f, f = FromRow(rows, t, n)
             PROVE  AsServed(e) = AsServed(f)
  BY Zenon
<1>1. t \in TableSet
  BY TableNames
<1>2. RuleFits(rules[id])
  BY DEF Fits
<1>3. e.as = LegacyRef(t, n) /\ e.rule = Essence(rules[id])
  BY <1>2, RuleEntry, LegacyRefs
<1>4. f.as = LegacyRef(t, n) /\ f.rule = Essence(FromLegacy(t, n, rows[t][n]))
  BY <1>1, RowEntry
<1>5. e.as = f.as /\ Nameless(e.rule) = Nameless(f.rule)
  BY <1>3, <1>4, Zenon
<1> QED BY <1>5, SameServed

LEMMA HealthyRows ==
  ASSUME Fits(rules), DOMAIN rows = TableSet, Healthy
  PROVE  Served(GeneratedRules(WithoutCopies, rows)) = Served(RulesInForce)
<1>1. ReleasedTables \subseteq DOMAIN rows
  BY TableNames
<1>2. ASSUME NEW e \in GeneratedRules(WithoutCopies, rows)
      PROVE  \E f \in RulesInForce : AsServed(e) = AsServed(f)
  <2>1. CASE \E id \in DOMAIN WithoutCopies :
                WithoutCopies[id].enabled /\ e = FromRule(WithoutCopies, id)
    <3>1. PICK id \in DOMAIN WithoutCopies :
                WithoutCopies[id].enabled /\ e = FromRule(WithoutCopies, id)
      BY <2>1
    <3>2. id \in DOMAIN rules /\ rules[id].ref = NoRef /\ rules[id].enabled
      BY <3>1, OnlyNatives
    <3>3. e = FromRule(rules, id)
      BY <3>1, <3>2, NativeEntries
    <3>4. e \in RulesInForce
      BY <3>2, <3>3, InGenerated DEF RulesInForce
    <3> QED BY <3>4
  <2>2. CASE \E t \in ReleasedTables : \E n \in DOMAIN rows[t] :
                rows[t][n].enabled /\ e = FromRow(rows, t, n)
    <3>1. PICK t \in ReleasedTables : \E n \in DOMAIN rows[t] :
                rows[t][n].enabled /\ e = FromRow(rows, t, n)
      BY <2>2
    <3>2. PICK n \in DOMAIN rows[t] : rows[t][n].enabled /\ e = FromRow(rows, t, n)
      BY <3>1
    <3>3. PICK id \in DOMAIN rules : rules[id].ref = LegacyRef(t, n)
      BY HealthyRow
    <3>4. PICK u \in ReleasedTables : \E k \in DOMAIN rows[u] :
            /\ rules[id].ref = LegacyRef(u, k) /\ rules[id].enabled = rows[u][k].enabled
            /\ Nameless(Essence(rules[id])) = Nameless(Essence(FromLegacy(u, k, rows[u][k])))
      BY <3>3, HealthyCopy, LegacyRefs
    <3>5. PICK k \in DOMAIN rows[u] :
            /\ rules[id].ref = LegacyRef(u, k) /\ rules[id].enabled = rows[u][k].enabled
            /\ Nameless(Essence(rules[id])) = Nameless(Essence(FromLegacy(u, k, rows[u][k])))
      BY <3>4, Zenon
    <3>6. u = t /\ k = n
      <4>1. LegacyRef(u, k) = LegacyRef(t, n)
        BY <3>3, <3>5, Zenon
      <4> QED BY <4>1, LegacyRefs
    <3>7. PICK f : f = FromRule(rules, id)
      OBVIOUS
    <3>8. rules[id].enabled
      BY <3>2, <3>5, <3>6
    <3>9. f \in RulesInForce
      BY <3>7, <3>8, InGenerated DEF RulesInForce
    <3>10. AsServed(f) = AsServed(e)
      <4>1. Nameless(Essence(rules[id])) = Nameless(Essence(FromLegacy(t, n, rows[t][n])))
        BY <3>5, <3>6, Zenon
      <4>2. AsServed(FromRule(rules, id)) = AsServed(FromRow(rows, t, n))
        BY <3>3, <4>1, CopyEntry
      <4> QED BY <3>2, <3>7, <4>2, Zenon
    <3> QED BY <3>9, <3>10, Zenon
  <2> QED BY <2>1, <2>2, InGenerated
<1>3. ASSUME NEW e \in RulesInForce
      PROVE  \E f \in GeneratedRules(WithoutCopies, rows) : AsServed(e) = AsServed(f)
  <2>1. CASE \E id \in DOMAIN rules : rules[id].enabled /\ e = FromRule(rules, id)
    <3>1. PICK id \in DOMAIN rules : rules[id].enabled /\ e = FromRule(rules, id)
      BY <2>1
    <3>2. CASE rules[id].ref = NoRef
      <4>1. /\ id \in DOMAIN WithoutCopies /\ WithoutCopies[id].enabled
            /\ e = FromRule(WithoutCopies, id)
        BY <3>1, <3>2, NativeEntries
      <4> QED BY <4>1, InGenerated
    <3>3. CASE rules[id].ref # NoRef
      <4>1. PICK u \in ReleasedTables : \E k \in DOMAIN rows[u] :
              /\ rules[id].ref = LegacyRef(u, k) /\ rules[id].enabled = rows[u][k].enabled
              /\ Nameless(Essence(rules[id])) = Nameless(Essence(FromLegacy(u, k, rows[u][k])))
        BY <3>3, HealthyCopy
      <4>2. PICK k \in DOMAIN rows[u] :
              /\ rules[id].ref = LegacyRef(u, k) /\ rules[id].enabled = rows[u][k].enabled
              /\ Nameless(Essence(rules[id])) = Nameless(Essence(FromLegacy(u, k, rows[u][k])))
        BY <4>1, Zenon
      <4>3. PICK f : f = FromRow(rows, u, k)
        OBVIOUS
      <4>4. u \in ReleasedTables /\ rows[u][k].enabled
        BY <1>1, <3>1, <4>2
      <4>5. LegacyRef(u, k) \notin Refs(WithoutCopies)
        BY OnlyNatives
      <4>6. f \in GeneratedRules(WithoutCopies, rows)
        BY <4>3, <4>4, <4>5, InGenerated
      <4>7. AsServed(e) = AsServed(f)
        <5>1. AsServed(FromRule(rules, id)) = AsServed(FromRow(rows, u, k))
          BY <4>2, CopyEntry
        <5> QED BY <3>1, <4>3, <5>1, Zenon
      <4> QED BY <4>6, <4>7, Zenon
    <3> QED BY <3>2, <3>3
  <2>2. CASE \E t \in ReleasedTables : \E n \in DOMAIN rows[t] :
                /\ rows[t][n].enabled /\ LegacyRef(t, n) \notin Refs(rules)
                /\ e = FromRow(rows, t, n)
    BY <2>2, HealthyRow, RefsOf, LegacyRefs
  <2> QED BY <2>1, <2>2, InGenerated DEF RulesInForce
<1>4. ASSUME NEW x
      PROVE  x \in Served(GeneratedRules(WithoutCopies, rows)) <=> x \in Served(RulesInForce)
  <2>1. ASSUME x \in Served(GeneratedRules(WithoutCopies, rows)) PROVE x \in Served(RulesInForce)
    <3>1. PICK e \in GeneratedRules(WithoutCopies, rows) : x = AsServed(e)
      BY <2>1, InServed
    <3>2. PICK f \in RulesInForce : AsServed(e) = AsServed(f)
      BY <1>2
    <3> QED BY <3>1, <3>2, InServed
  <2>2. ASSUME x \in Served(RulesInForce) PROVE x \in Served(GeneratedRules(WithoutCopies, rows))
    <3>1. PICK e \in RulesInForce : x = AsServed(e)
      BY <2>2, InServed
    <3>2. PICK f \in GeneratedRules(WithoutCopies, rows) : AsServed(e) = AsServed(f)
      BY <1>3
    <3> QED BY <3>1, <3>2, InServed
  <2> QED BY <2>1, <2>2
<1> QED BY <1>4, Zenon

\* When the report has no issue, a release of the rules alone and a release of
\* the rows with the rules that are no copies serve what a release serves.
THEOREM HealthyStoresAgree == Spec => []HealthyMeansEitherSideSuffices
<1>1. ASSUME IInv PROVE HealthyMeansEitherSideSuffices
  <2>1. Fits(rules) /\ DOMAIN rows = TableSet
    BY <1>1 DEF IInv, StoreInv, RuleInv, RowInv
  <2>2. ASSUME Healthy
        PROVE  /\ Served(EnforcedBy(Generated(rules, NoRows))) = Served(InForce)
               /\ Served(EnforcedBy(Generated(WithoutCopies, rows))) = Served(InForce)
    <3>1. /\ EnforcedBy(Generated(rules, NoRows)) = GeneratedRules(rules, NoRows)
          /\ EnforcedBy(Generated(WithoutCopies, rows)) = GeneratedRules(WithoutCopies, rows)
          /\ InForce = RulesInForce
      BY <2>1, <2>2, HealthyLimits
    <3>2. /\ GeneratedRules(rules, NoRows) = RulesInForce
          /\ Served(GeneratedRules(WithoutCopies, rows)) = Served(RulesInForce)
      BY <2>1, <2>2, HealthyRules, HealthyRows
    <3> QED BY <3>1, <3>2, Zenon
  <2> QED BY <2>2, Zenon DEF HealthyMeansEitherSideSuffices
<1> QED BY <1>1, IInvHolds, PTL

\* What a module shows as enabled is enforced; what is enforced and not shown
\* is a rate limit whose copy is off, since a copy in force would keep it from
\* standing in, and the report compares the switches of the two.
THEOREM HiddenLimitsAreKnown == Spec => []HiddenLimitsAreReported
<1>1. ASSUME IInv PROVE HiddenLimitsAreReported
  <2>1. Fits(rules) /\ DOMAIN rows = TableSet
    BY <1>1 DEF IInv, StoreInv, RuleInv, RowInv
  <2>2. "rate_limits" \in ReleasedTables /\ "rate_limits" \in TableSet
        /\ ModuleOf("rate_limits") = "cc-protection"
    BY TableNames DEF OlderTables, ModuleOf
  <2>3. ASSUME NEW e \in InForce, e \notin RulesInForce
        PROVE  e.as \in Conflicts
    <3>1. /\ e \in GeneratedLimits(rows)
          /\ \A r \in GeneratedRules(rules, rows) : r.rule.module # e.rule.module
      BY <2>3, InEnforced DEF InForce, RulesInForce
    <3>2. PICK id \in DOMAIN rows["rate_limits"] :
             /\ rows["rate_limits"][id].enabled /\ e = FromRow(rows, "rate_limits", id)
             /\ e.as = LegacyRef("rate_limits", id) /\ e.rule.module = "cc-protection"
      BY <3>1, LimitEntry
    <3>3. LegacyRef("rate_limits", id) \in Refs(rules)
      BY <2>2, <2>3, <3>2, InGenerated, Zenon DEF RulesInForce
    <3>4. PICK n \in DOMAIN rules : rules[n].ref = LegacyRef("rate_limits", id)
      BY <3>3, RefsOf
    <3>5. ~rules[n].enabled
      <4> SUFFICES ASSUME rules[n].enabled PROVE FALSE
        OBVIOUS
      <4>1. PICK r : r = FromRule(rules, n)
        OBVIOUS
      <4>2. r \in GeneratedRules(rules, rows)
        BY <4>1, InGenerated
      <4>3. r.as = LegacyRef("rate_limits", id)
        BY <2>1, <3>4, <4>1, RuleEntry, LegacyRefs DEF Fits
      <4>4. r.rule.module = "cc-protection"
        BY <2>1, <2>2, <4>2, <4>3, EntryModule, LegacyRefs
      <4> QED BY <3>1, <3>2, <4>2, <4>4
    <3>6. PICK row : row = rows["rate_limits"][id]
      OBVIOUS
    <3>7. PICK a : a = Essence(rules[n])
      OBVIOUS
    <3>8. PICK b : b = Essence(Legacy("rate_limits", row))
      OBVIOUS
    <3>9. IsRule(a) /\ a.enabled = rules[n].enabled
      BY <2>1, <3>7, EssenceIs DEF Fits, RuleFits
    <3>10. IsRule(b) /\ b.enabled = row.enabled
      BY <2>2, <3>8, LegacyEssence
    <3>11. Nameless(a) # Nameless(b)
      BY <3>2, <3>5, <3>6, <3>9, <3>10, NamelessKeeps
    <3>12. PICK ref : ref = LegacyRef("rate_limits", id)
      OBVIOUS
    <3>13. ref[1] = "rate_limits" /\ ref[2] = id
      BY <3>12, LegacyRefs
    <3>14. n \in CopiesOf(ref)
      BY <3>4, <3>12 DEF CopiesOf
    <3>15. ref \in Candidates
      <4>1. ref \in {<<"rate_limits", k>> : k \in DOMAIN rows["rate_limits"]}
        BY <3>12, Zenon DEF LegacyRef
      <4> QED BY <2>2, <4>1, Zenon DEF Candidates
    <3>16. Nameless(Essence(rules[n])) # Nameless(Essence(Legacy(ref[1], rows[ref[1]][ref[2]])))
      BY <3>6, <3>7, <3>8, <3>11, <3>13, Zenon
    <3>17. ref \in Conflicts
      BY <3>14, <3>15, <3>16, Zenon DEF Conflicts, Nameless
    <3> QED BY <3>2, <3>12, <3>17
  <2>4. RulesInForce \subseteq InForce
    BY InEnforced DEF InForce, RulesInForce
  <2>5. ASSUME NEW m \in DOMAIN TableOf
        PROVE  LET shown == {e \in Listed(m) : e.rule.enabled}
                   enforced == {e \in InForce : e.rule.module = m}
               IN shown \subseteq enforced /\ \A e \in enforced \ shown : e.as \in Conflicts
    <3>1. {e \in Listed(m) : e.rule.enabled} = {e \in RulesInForce : e.rule.module = m}
      BY <2>1, ModuleShowsInForce
    <3>2. {e \in RulesInForce : e.rule.module = m} \subseteq {e \in InForce : e.rule.module = m}
      BY <2>4, Zenon
    <3>3. \A e \in {f \in InForce : f.rule.module = m} \ {f \in RulesInForce : f.rule.module = m} :
             e.as \in Conflicts
      BY <2>3, Zenon
    <3> QED BY <3>1, <3>2, <3>3, Zenon
  <2> QED BY <2>5, Zenon DEF HiddenLimitsAreReported
<1> QED BY <1>1, IInvHolds, PTL
=============================================================================
