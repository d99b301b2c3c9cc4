------------------------- MODULE ProtectionRequests -------------------------
(***************************************************************************)
(* What the API of each protection module makes of the body of a create or *)
(* an update: it fills what the body leaves out, refuses what the module   *)
(* does not know and turns the rest into a native rule.                    *)
(***************************************************************************)
EXTENDS ProtectionConversion

\* The defaults all modules share: their own name, category and action.
WithDefaults(raw, module, category, action) ==
    [raw EXCEPT !.name = Tidy(@), !.module = OrElse(Tidy(@), "", module),
                !.category = OrElse(Tidy(@), "", category), !.match = TidyMatch(@),
                !.action = OrElse(Tidy(@), "", action)]
WithPath(raw, path, pathMatch) ==
    [raw EXCEPT !.match.path = OrElse(@, "", path), !.match.pathMatch = OrElse(@, "", pathMatch)]

NormalizeCC(raw) ==
    LET req == WithPath(WithDefaults(raw, "cc-protection", "rate-limit", "rate-limit"), "", "exact")
        d == [TidyDetail("cc-protection", req.detail) EXCEPT !.counter = OrElse(@, "", "client_ip")]
    IN [req EXCEPT !.detail =
          [d EXCEPT !.sessionSource = IF d.counter = "session" THEN OrElse(@, "", "cookie") ELSE @,
                    !.device = IF d.counter = "device" THEN OrElse(@, "", "coarse") ELSE @]]

NormalizeUpload(raw) ==
    LET req == WithPath(WithDefaults(raw, "upload-protection", "upload", "block"), "/", "prefix")
    IN [req EXCEPT !.detail = TidyDetail("upload-protection", @)]

NormalizeBot(raw) ==
    LET d == TidyDetail("bot-protection", raw.detail)
        filled == [d EXCEPT !.mode = OrElse(@, "", "js-challenge"),
                            !.failure = OrElse(@, "", "block")]
    IN WithPath(WithDefaults([raw EXCEPT !.detail = filled], "bot-protection", "challenge",
                             filled.failure), "/", "prefix")

NormalizeDynamic(raw) ==
    LET d == TidyDetail("dynamic-protection", raw.detail)
        category == OrElse(Tidy(raw.category), "", "dynamic-token")
        filled == [d EXCEPT !.mode = OrElse(@, "", category), !.placement = OrElse(@, "", "cookie"),
                            !.failure = OrElse(@, "", "block"), !.marker = OrElse(@, "", "body-end"),
                            !.overflow = OrElse(@, "", "waiting-room")]
    IN WithPath(WithDefaults([raw EXCEPT !.detail = filled], "dynamic-protection", category,
            IF category = "waiting-room" THEN filled.overflow ELSE filled.failure), "/", "prefix")

InferTarget(match) ==
    CASE match.path # "" -> "path" [] match.header # "" -> "header"
      [] match.host # "" -> "host" [] OTHER -> ""
NormalizeAccess(raw) ==
    LET req == WithDefaults(raw, "access-control", "access-control", "block")
        m == [req.match EXCEPT !.target = OrElse(@, "", InferTarget(req.match)),
                               !.operator = OrElse(@, "", "exact")]
    IN [req EXCEPT !.match = [m EXCEPT !.pathMatch = OrElse(@, "", m.operator)]]

NormalizeRequest(module, raw) ==
    CASE module = "cc-protection" -> NormalizeCC(raw)
      [] module = "upload-protection" -> NormalizeUpload(raw)
      [] module = "bot-protection" -> NormalizeBot(raw)
      [] module = "dynamic-protection" -> NormalizeDynamic(raw)
      [] module = "access-control" -> NormalizeAccess(raw)
-----------------------------------------------------------------------------
\* What every module asks: a name, its own module, known methods.
Common(req, module, category) ==
    /\ req.name # "" /\ req.module = module /\ req.category \in category
    /\ req.match.methods \subseteq Methods

AcceptsCC(req) ==
    LET d == req.detail IN
    /\ Common(req, "cc-protection", {"rate-limit"})
    /\ ValidPathMatch(req.match)
    /\ d.counter \in {"client_ip", "client_ip_path", "global", "not_found_frequency",
                      "attack_frequency", "session", "device"}
    /\ IF d.counter = "session"
       THEN d.sessionSource \in {"cookie", "header"} /\ d.sessionName \notin BadNames \cup {""}
       ELSE d.sessionSource = "" /\ d.sessionName = ""
    /\ d.device = IF d.counter = "device" THEN "coarse" ELSE ""
    /\ d.threshold > 0 /\ d.window > 0 /\ d.ban >= 0
    /\ req.action \in {"log-only", "block", "rate-limit", "ban"}

AcceptsUpload(req) ==
    /\ Common(req, "upload-protection", {"upload"})
    /\ req.priority >= 0
    /\ ValidPathMatch(req.match)
    /\ req.detail.extensions # {} \/ req.detail.maxBytes > 0
    /\ req.detail.extensions \cap BadNames = {}
    /\ req.detail.maxBytes >= 0
    /\ req.action \in {"log-only", "block"}

AcceptsBot(req) ==
    LET d == req.detail IN
    /\ Common(req, "bot-protection", {"challenge"})
    /\ req.priority >= 0
    /\ ValidPathMatch(req.match)
    /\ d.mode \in {"js-challenge", "captcha"} /\ d.ttl \in 1 .. MaxTTL
    /\ d.behavior => d.score \in 1 .. 100
    /\ d.notice \notin BadNames
    /\ d.failure \in {"log-only", "block"} /\ req.action \in {"", d.failure}

AcceptsToken(req) ==
    /\ req.detail.ttl \in 1 .. MaxTTL
    /\ req.detail.placement \in {"cookie", "header", "query"}
    /\ req.detail.failure \in {"log-only", "block"} /\ req.action \in {"", req.detail.failure}
AcceptsMutation(req) ==
    /\ req.detail.marker \in {"head-end", "body-end"} /\ req.detail.bytes \in 1 .. 1048576
    /\ req.action \in {"log-only", "allow"}
AcceptsWaitingRoom(req) ==
    /\ req.detail.capacity \in 1 .. 100000
    /\ req.detail.admission \in 1 .. MaxTTL /\ req.detail.retry \in 1 .. MaxTTL
    /\ req.detail.overflow \in {"waiting-room", "block", "log-only"}
    /\ req.action \in {"", req.detail.overflow}
AcceptsDynamic(req) ==
    /\ Common(req, "dynamic-protection", {"dynamic-token", "page-mutation", "waiting-room"})
    /\ req.priority >= 0
    /\ ValidPathMatch(req.match)
    /\ req.detail.mode \in {"", req.category}
    /\ CASE req.category = "dynamic-token" -> AcceptsToken(req)
         [] req.category = "page-mutation" -> AcceptsMutation(req)
         [] OTHER -> AcceptsWaitingRoom(req)

AcceptsAccess(req) ==
    LET m == req.match IN
    /\ Common(req, "access-control", {"access-control"})
    /\ req.priority >= 0
    /\ req.action \in {"allow", "log-only", "block"}
    /\ \/ m.target = "path" /\ ValidPathMatch(m)
       \/ /\ m.target = "header" /\ m.header # "" /\ m.value # ""
          /\ m.operator \in {"exact", "contains"}
       \/ m.target = "host" /\ m.host # "" /\ m.operator \in {"exact", "suffix"}

Accepts(module, req) ==
    CASE module = "cc-protection" -> AcceptsCC(req)
      [] module = "upload-protection" -> AcceptsUpload(req)
      [] module = "bot-protection" -> AcceptsBot(req)
      [] module = "dynamic-protection" -> AcceptsDynamic(req)
      [] module = "access-control" -> AcceptsAccess(req)

\* The rule a body becomes; the status and the reference stay empty.
ToProtectionRule(req) ==
    [name |-> req.name, module |-> req.module, category |-> req.category, site |-> req.site,
     enabled |-> req.enabled, priority |-> Priority(req.priority), match |-> req.match,
     detail |-> req.detail, action |-> req.action, source |-> "protection_rules",
     status |-> "", ref |-> NoRef]
-----------------------------------------------------------------------------
(***************************************************************************)
(* The older API of the rate limits                                        *)
(***************************************************************************)
NormalizeRateLimit(raw) ==
    LET item == [raw EXCEPT !.name = Tidy(@), !.scope = Tidy(@), !.match = Tidy(@),
                            !.pathMatch = OrElse(Tidy(@), "", "exact"),
                            !.methods = MethodSet(@), !.action = OrElse(Tidy(@), "", "block")]
        times == IF raw.violations = 0 /\ raw.ban > 0 THEN 3 ELSE raw.violations
    IN [item EXCEPT !.ccAction = OrElse(Tidy(@), "", item.action), !.violations = times,
                    !.violationWindow = IF @ = 0 /\ times > 0 THEN raw.window ELSE @]

AcceptsRateLimit(item) ==
    /\ item.name # "" /\ item.scope \in {"ip", "uri", "site"}
    /\ item.threshold > 0 /\ item.window > 0 /\ item.ban >= 0
    /\ item.violations >= 0 /\ item.violationWindow >= 0
    /\ item.violations > 0 => item.violationWindow > 0 /\ item.ban > 0
    /\ item.violationWindow > 0 => item.violations > 0
    /\ item.action \in {"block", "log-only"}
=============================================================================
