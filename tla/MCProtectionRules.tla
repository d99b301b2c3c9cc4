--------------------------- MODULE MCProtectionRules ---------------------------
(***************************************************************************)
(* Installations for checking ProtectionRules: rate limits with managed    *)
(* attack rules or without, upload and bot rules, dynamic rules of the     *)
(* three categories; each with requests for its modules.                   *)
(***************************************************************************)
EXTENDS ProtectionRules, TLC

Untidy == [t \in {" ", "post"} |-> IF t = " " THEN "" ELSE "POST"]
RateLimit(path, enabled) ==
    [name |-> "limit", site |-> 0, enabled |-> enabled, scope |-> "ip", match |-> path,
     pathMatch |-> "exact", methods |-> {}, threshold |-> 5, window |-> 60, ban |-> 0,
     violations |-> 0, violationWindow |-> 0, action |-> "block", ccAction |-> "block"]
Row(name, enabled, own) ==
    [name |-> name, site |-> 0, enabled |-> enabled, priority |-> 100, path |-> "/",
     pathMatch |-> "prefix", methods |-> {}, own |-> own]
Upload(extensions) ==
    Row("upload", TRUE, [extensions |-> extensions, maxBytes |-> 0, action |-> "block"])
Bot(enabled) == Row("bot", enabled, [mode |-> "js-challenge", ttl |-> 300, failure |-> "block"])
Dynamic(category) ==
    Row(category, TRUE, [category |-> category, ttl |-> 300, placement |-> "header",
        failure |-> "log-only", marker |-> "head-end", bytes |-> 9, capacity |-> 9,
        admission |-> 9, retry |-> 9, overflow |-> "block"])
Attack ==
    [name |-> "sqli", enabled |-> TRUE, priority |-> 10, target |-> "args",
     expression |-> "union", action |-> "block"]

Body(detail) ==
    [name |-> "new", module |-> "", category |-> "", site |-> 0, enabled |-> TRUE, priority |-> 0,
     match |-> [NoMatch EXCEPT !.path = "/b", !.methods = {"post"}], detail |-> detail, action |-> ""]
CCBody(counter) ==
    Body([counter |-> counter, sessionSource |-> "", sessionName |-> IF counter = "session" THEN "sid" ELSE "",
          device |-> "", threshold |-> 9, window |-> 60, ban |-> 0])
UploadBody == Body([extensions |-> {}, maxBytes |-> 1])
BotBody(mode) == Body([mode |-> mode, ttl |-> 300, failure |-> "", notice |-> "",
                       behavior |-> FALSE, score |-> 0])
DynamicBody(category) ==
    [Body([mode |-> "", ttl |-> 300, placement |-> "", failure |-> "", marker |-> "", bytes |-> 1,
           capacity |-> 1, admission |-> 1, retry |-> 1, overflow |-> ""])
     EXCEPT !.category = category, !.action = IF category = "page-mutation" THEN "log-only" ELSE ""]
AccessBody == [Body([none |-> TRUE]) EXCEPT !.match.path = "", !.match.host = "h"]
RateBodies == {RateLimit("/a", FALSE), RateLimit("/a", TRUE), RateLimit("x", TRUE)}

\* The older rows have the number 1; the fewer operations are left, the more
\* of them have been spent before.
Installation(found, bodies, spentBefore) ==
    [rows |-> [t \in TableSet |-> IF t \in DOMAIN found THEN 1 :> found[t] ELSE <<>>],
     bodies |-> bodies @@ ("rate-limits" :> {}), spent |-> spentBefore]

Limits == "rate_limits" :> RateLimit("/a", TRUE)
LimitBodies == "cc-protection" :> {CCBody("")} @@ "access-control" :> {AccessBody}
               @@ "rate-limits" :> RateBodies
SomeInstallations ==
    {Installation(Limits, LimitBodies, 0), Installation(Limits @@ "rules" :> Attack, LimitBodies, 1),
     Installation("upload_protection_rules" :> Upload({"exe"}) @@ "bot_protection_rules" :> Bot(FALSE),
                  "upload-protection" :> {UploadBody} @@ "bot-protection" :> {BotBody("")}
                  @@ "cc-protection" :> {CCBody("session")}, 1)}
    \cup {Installation("dynamic_protection_rules" :> Dynamic(c),
             "dynamic-protection" :> {DynamicBody(c)} @@ "cc-protection" :> {CCBody("device")}, 1)
          : c \in {"dynamic-token", "page-mutation", "waiting-room"}}
BotInstallation ==
    {Installation("bot_protection_rules" :> Bot(TRUE),
                  "bot-protection" :> {BotBody(""), BotBody("captcha")}, 0)}
=============================================================================
