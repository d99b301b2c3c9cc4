------------------------ MODULE ProtectionConversion ------------------------
(***************************************************************************)
(* The forms a protection rule takes and the conversions between them: the *)
(* request of a module's API, the row of the table protection_rules, and   *)
(* the row of the older table of the module (rate limits, upload, bot and  *)
(* dynamic protection, managed attack rules).  Texts are the values the    *)
(* code tells apart; Tidied gives what trimming and case folding make of   *)
(* the texts that are not written as the code writes them.                 *)
(***************************************************************************)
EXTENDS Integers

CONSTANTS
    Tidied,     \* untidy text |-> the text left by TrimSpace, ToLower, ToUpper
    Relative,   \* paths that do not start with "/"
    BadGlobs,   \* rooted paths that are no legal glob
    BadAddresses,   \* what net.ParseIP and net.ParseCIDR refuse
    BadNames    \* session names, extensions and notices that are too long or ill-formed

ASSUME TidiedAssumption ==
    \A t \in DOMAIN Tidied : Tidied[t] \notin DOMAIN Tidied
ASSUME PathAssumption == "" \in Relative /\ "/" \notin Relative \cup BadGlobs
-----------------------------------------------------------------------------
Tidy(text) == IF text \in DOMAIN Tidied THEN Tidied[text] ELSE text
OrElse(value, none, default) == IF value = none THEN default ELSE value
Priority(p) == IF p <= 0 THEN 100 ELSE p
MethodSet(methods) == {Tidy(m) : m \in methods} \ {""}
Methods == {"GET", "POST", "PUT", "PATCH", "DELETE", "HEAD", "OPTIONS"}
MaxTTL == 86400

NoMatch == [path |-> "", pathMatch |-> "", methods |-> {}, target |-> "",
            value |-> "", operator |-> "", header |-> "", host |-> ""]

\* The row and the older row a rule is identified with.
LegacyRef(table, id) == <<table, id>>
NoRef == <<>>

ValidPathMatch(match) ==
    /\ match.path \notin Relative
    /\ match.pathMatch \in {"exact", "prefix", "glob"}
    /\ match.pathMatch = "glob" => match.path \notin BadGlobs

(***************************************************************************)
(* The row of protection_rules                                             *)
(***************************************************************************)
\* A record whose texts are tidied.
TidyTexts(d, fields) == [f \in DOMAIN d |-> IF f \in fields THEN Tidy(d[f]) ELSE d[f]]

TidyMatch(match) ==
    [f \in DOMAIN match |-> IF f = "methods" THEN MethodSet(match[f]) ELSE Tidy(match[f])]

\* The part of a rule only its module has: limit, upload, challenge, dynamic.
TidyDetail(module, d) ==
    CASE module = "cc-protection" ->
            TidyTexts(d, {"counter", "sessionSource", "sessionName", "device"})
      [] module = "upload-protection" -> [d EXCEPT !.extensions = MethodSet(@)]
      [] module = "bot-protection" -> TidyTexts(d, {"mode", "failure", "notice"})
      [] module = "dynamic-protection" ->
            TidyTexts(d, {"mode", "placement", "failure", "marker", "overflow"})
      [] OTHER -> d

Normalize(rule) ==
    [rule EXCEPT !.name = Tidy(@), !.match = TidyMatch(@), !.action = Tidy(@),
                 !.detail = TidyDetail(rule.module, @), !.priority = Priority(@),
                 !.source = OrElse(@, "", "protection_rules"),
                 !.status = OrElse(@, "", "native")]

ValidCC(rule) ==
    LET d == rule.detail IN
    /\ rule.category = "rate-limit"
    /\ ValidPathMatch(rule.match)
    /\ d.counter \in {"client_ip", "client_ip_path", "global", "not_found_frequency",
                      "attack_frequency", "session", "device"}
    /\ IF d.counter = "session"
       THEN d.sessionSource \in {"", "cookie", "header"} /\ d.sessionName \notin BadNames \cup {""}
       ELSE d.sessionSource = "" /\ d.sessionName = ""
    /\ d.device \in IF d.counter = "device" THEN {"", "coarse"} ELSE {""}
    /\ d.threshold > 0 /\ d.window > 0 /\ d.ban >= 0
    /\ rule.action \in {"log-only", "block", "rate-limit", "ban"}

ValidAccess(rule) ==
    LET m == rule.match IN
    /\ rule.category = "access-control"
    /\ rule.action \in {"allow", "log-only", "block"}
    /\ \/ m.target \in {"ip", "cidr"} /\ m.value \notin BadAddresses
       \/ m.target = "path" /\ ValidPathMatch(m)
       \/ /\ m.target = "header" /\ m.header # "" /\ m.value # ""
          /\ m.operator \in {"exact", "contains"}
       \/ m.target = "host" /\ m.host # "" /\ m.operator \in {"exact", "suffix"}

ValidUpload(rule) ==
    /\ rule.category = "upload"
    /\ ValidPathMatch(rule.match)
    /\ rule.detail.extensions # {} \/ rule.detail.maxBytes > 0
    /\ rule.detail.extensions \cap (BadNames \cup {""}) = {}
    /\ rule.detail.maxBytes >= 0
    /\ rule.action \in {"log-only", "block"}

ValidBot(rule) ==
    LET d == rule.detail IN
    /\ rule.category = "challenge"
    /\ ValidPathMatch(rule.match)
    /\ d.mode \in {"js-challenge", "captcha"}
    /\ d.ttl \in 1 .. MaxTTL
    /\ d.behavior => d.score \in 1 .. 100
    /\ d.notice \notin BadNames
    /\ d.failure \in {"log-only", "block"}
    /\ rule.action \in {"", d.failure}

ValidDynamic(rule) ==
    LET d == rule.detail IN
    /\ rule.category \in {"dynamic-token", "page-mutation", "waiting-room"}
    /\ ValidPathMatch(rule.match)
    /\ rule.category = "dynamic-token" =>
          /\ d.ttl \in 1 .. MaxTTL
          /\ d.placement \in {"cookie", "header", "query"}
          /\ d.failure \in {"log-only", "block"}
    /\ rule.category = "page-mutation" =>
          d.marker \in {"head-end", "body-end"} /\ d.bytes \in 1 .. 1048576
    /\ rule.category = "waiting-room" =>
          /\ d.capacity \in 1 .. 100000
          /\ d.admission \in 1 .. MaxTTL /\ d.retry \in 1 .. MaxTTL
          /\ d.overflow \in {"waiting-room", "block", "log-only"}

ValidAttack(rule) ==
    rule.category = "managed" /\ rule.action \in {"log-only", "block"}

\* What CreateProtectionRule, UpdateProtectionRule and the backfill accept.
Validate(raw) ==
    LET rule == Normalize(raw) IN
    /\ rule.name # ""
    /\ rule.module # "attack-protection" => rule.match.methods \subseteq Methods
    /\ CASE rule.module = "cc-protection" -> ValidCC(rule)
         [] rule.module = "access-control" -> ValidAccess(rule)
         [] rule.module = "upload-protection" -> ValidUpload(rule)
         [] rule.module = "bot-protection" -> ValidBot(rule)
         [] rule.module = "dynamic-protection" -> ValidDynamic(rule)
         [] rule.module = "attack-protection" -> ValidAttack(rule)
         [] OTHER -> FALSE
-----------------------------------------------------------------------------
(***************************************************************************)
(* From and to the older tables                                            *)
(***************************************************************************)
Migrated(module, category, row, site, priority, match, detail, action) ==
    [name |-> row.name, module |-> module, category |-> category, site |-> site,
     enabled |-> row.enabled, priority |-> priority, match |-> match, detail |-> detail,
     action |-> action, source |-> "legacy", status |-> "legacy-only", ref |-> NoRef]

RatePath(row) ==
    IF row.match # "" THEN [path |-> row.match, pathMatch |-> OrElse(row.pathMatch, "", "exact")]
    ELSE [path |-> "/", pathMatch |-> IF row.scope \in {"site", "ip"}
                                      THEN OrElse(row.pathMatch, "", "prefix") ELSE "prefix"]

FromRateLimit(row) ==
    Normalize(Migrated("cc-protection", "rate-limit", row, row.site, 100,
        [NoMatch EXCEPT !.path = RatePath(row).path, !.pathMatch = RatePath(row).pathMatch,
                        !.methods = row.methods],
        [counter |-> CASE row.scope = "uri" -> "client_ip_path"
                       [] row.scope = "site" -> "global" [] OTHER -> "client_ip",
         sessionSource |-> "", sessionName |-> "", device |-> "",
         threshold |-> row.threshold, window |-> row.window, ban |-> row.ban],
        OrElse(row.ccAction, "", OrElse(row.action, "", "rate-limit"))))

ToRateLimit(raw) ==
    LET rule == Normalize(raw) IN
    [name |-> rule.name, site |-> rule.site, enabled |-> rule.enabled,
     scope |-> CASE rule.detail.counter = "client_ip_path" -> "uri"
                 [] rule.detail.counter = "global" -> "site" [] OTHER -> "ip",
     match |-> IF rule.match.path = "/" THEN "" ELSE rule.match.path,
     pathMatch |-> rule.match.pathMatch, methods |-> rule.match.methods,
     threshold |-> rule.detail.threshold, window |-> rule.detail.window,
     ban |-> rule.detail.ban, violations |-> 0, violationWindow |-> 0,
     action |-> IF rule.action = "log-only" THEN "log-only" ELSE "block",
     ccAction |-> rule.action]

RowMatch(row, target) ==
    [NoMatch EXCEPT !.path = OrElse(row.path, "", "/"), !.methods = row.methods,
                    !.pathMatch = OrElse(row.pathMatch, "", "prefix"), !.target = target]
ToRow(rule, own) ==
    [name |-> rule.name, site |-> rule.site, enabled |-> rule.enabled,
     priority |-> Priority(rule.priority), path |-> rule.match.path,
     pathMatch |-> rule.match.pathMatch, methods |-> rule.match.methods, own |-> own]

FromUpload(row) ==
    Normalize(Migrated("upload-protection", "upload", row, row.site, row.priority,
        RowMatch(row, "upload"),
        [extensions |-> row.own.extensions, maxBytes |-> row.own.maxBytes], row.own.action))
ToUpload(raw) ==
    LET rule == Normalize(raw) IN
    ToRow(rule, [extensions |-> rule.detail.extensions, maxBytes |-> rule.detail.maxBytes,
                 action |-> rule.action])

FromBot(row) ==
    LET failure == OrElse(row.own.failure, "", "block") IN
    Normalize(Migrated("bot-protection", "challenge", row, row.site, row.priority,
        RowMatch(row, "path"),
        [mode |-> OrElse(row.own.mode, "", "js-challenge"),
         ttl |-> OrElse(row.own.ttl, 0, 300), failure |-> failure,
         behavior |-> FALSE, score |-> 0, notice |-> ""], failure))
ToBot(raw) ==
    LET rule == Normalize(raw) IN
    ToRow(rule, [mode |-> rule.detail.mode, ttl |-> rule.detail.ttl,
                 failure |-> rule.detail.failure])

DynamicConfig(own) ==
    [mode |-> OrElse(own.category, "", "dynamic-token"), ttl |-> OrElse(own.ttl, 0, 300),
     placement |-> OrElse(own.placement, "", "cookie"),
     failure |-> OrElse(own.failure, "", "block"),
     marker |-> OrElse(own.marker, "", "body-end"), bytes |-> OrElse(own.bytes, 0, 262144),
     capacity |-> OrElse(own.capacity, 0, 100), admission |-> OrElse(own.admission, 0, 300),
     retry |-> OrElse(own.retry, 0, 5), overflow |-> OrElse(own.overflow, "", "waiting-room")]
FromDynamic(row) ==
    LET config == DynamicConfig(row.own) IN
    Normalize(Migrated("dynamic-protection", config.mode, row, row.site, row.priority,
        RowMatch(row, "path"), config,
        CASE config.mode = "waiting-room" -> config.overflow
          [] config.mode = "page-mutation" -> "log-only" [] OTHER -> config.failure))
ToDynamic(raw) ==
    LET rule == Normalize(raw) IN
    ToRow(rule, [category |-> OrElse(rule.category, "", rule.detail.mode),
        ttl |-> rule.detail.ttl, placement |-> rule.detail.placement,
        failure |-> rule.detail.failure, marker |-> rule.detail.marker,
        bytes |-> rule.detail.bytes, capacity |-> rule.detail.capacity,
        admission |-> rule.detail.admission, retry |-> rule.detail.retry,
        overflow |-> rule.detail.overflow])

FromAttackRule(row) ==
    Normalize(Migrated("attack-protection", "managed", row, 0, row.priority,
        [NoMatch EXCEPT !.target = row.target, !.value = row.expression],
        [none |-> TRUE], row.action))

Legacy(table, row) ==
    CASE table = "rate_limits" -> FromRateLimit(row)
      [] table = "upload_protection_rules" -> FromUpload(row)
      [] table = "bot_protection_rules" -> FromBot(row)
      [] table = "dynamic_protection_rules" -> FromDynamic(row)
      [] table = "rules" -> FromAttackRule(row)
FromLegacy(table, id, row) == [Legacy(table, row) EXCEPT !.ref = LegacyRef(table, id)]
ToLegacy(table, rule) ==
    CASE table = "rate_limits" -> ToRateLimit(rule)
      [] table = "upload_protection_rules" -> ToUpload(rule)
      [] table = "bot_protection_rules" -> ToBot(rule)
      [] table = "dynamic_protection_rules" -> ToDynamic(rule)
-----------------------------------------------------------------------------
(***************************************************************************)
(* What a release asks of the enabled rows of the older tables             *)
(***************************************************************************)
PublishedPath(row) ==
    ValidPathMatch([path |-> row.path, pathMatch |-> OrElse(row.pathMatch, "", "prefix")])

PublishableRateLimit(row) ==
    /\ row.threshold > 0 /\ row.window > 0 /\ row.action # "" /\ row.scope # ""
    /\ row.violations > 0 => row.violationWindow > 0 /\ row.ban > 0

PublishableUpload(row) ==
    /\ row.name # "" /\ PublishedPath(row) /\ row.methods \subseteq Methods
    /\ row.own.extensions # {} \/ row.own.maxBytes > 0
    /\ row.own.extensions \cap (BadNames \cup {""}) = {}
    /\ row.own.maxBytes >= 0 /\ row.own.action \in {"block", "log-only"}
    /\ row.priority >= 0

PublishableBot(row) ==
    /\ row.name # "" /\ PublishedPath(row) /\ row.methods \subseteq Methods
    /\ row.own.mode = "js-challenge" /\ row.own.ttl \in 1 .. MaxTTL
    /\ row.own.failure \in {"block", "log-only"} /\ row.priority >= 0

PublishableDynamic(row) ==
    LET d == row.own IN
    /\ row.name # "" /\ PublishedPath(row) /\ row.methods \subseteq Methods
    /\ d.category \in {"dynamic-token", "page-mutation", "waiting-room"}
    /\ row.priority >= 0
    /\ CASE d.category = "dynamic-token" ->
              /\ d.ttl \in 1 .. MaxTTL /\ d.placement \in {"cookie", "header", "query"}
              /\ d.failure \in {"block", "log-only"}
         [] d.category = "page-mutation" ->
              d.marker \in {"head-end", "body-end"} /\ d.bytes \in 1 .. 1048576
         [] OTHER ->
              /\ d.capacity \in 1 .. 100000
              /\ d.admission \in 1 .. MaxTTL /\ d.retry \in 1 .. MaxTTL
              /\ d.overflow \in {"waiting-room", "block", "log-only"}

PublishableAttackRule(row) ==
    row.action \in {"log-only", "block"} /\ row.priority > 0

PublishableRow(table, row) ==
    row.enabled =>
      CASE table = "rate_limits" -> PublishableRateLimit(row)
        [] table = "upload_protection_rules" -> PublishableUpload(row)
        [] table = "bot_protection_rules" -> PublishableBot(row)
        [] table = "dynamic_protection_rules" -> PublishableDynamic(row)
        [] table = "rules" -> PublishableAttackRule(row)
=============================================================================
