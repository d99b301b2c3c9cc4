--------------------------- MODULE ApplicationModel ---------------------------
(***************************************************************************)
(* Applications and sites as values: what a request is made into, what is  *)
(* refused, what the readiness check says of a list of applications, the   *)
(* applications of the Gateway configuration and the nginx servers that    *)
(* are rendered from them.                                                 *)
(*                                                                         *)
(* A host is a name and the way it is spelt: plain, in capitals, with a    *)
(* final dot, with a port, or as a URL; a proxy header is well-formed,     *)
(* ill-formed or blank.  Names, weights and descriptions are left out, and *)
(* the three timeouts and two bufferings of a proxy configuration, which   *)
(* are treated alike, are one of each.                                     *)
(***************************************************************************)
EXTENDS Lists

CONSTANT Text      \* what the texts of a request may be

ASSUME TextAssumption ==
    {"", "plain", "monitor", "/", "prefix", "primary", "http", "on", "off", "unset"} \subseteq Text

Distinct(Key(_), s) == IsInjective(Each(Key, s))
OrDefault(text, default) == IF text = "" THEN default ELSE text

(***************************************************************************)
(* Rows and requests                                                       *)
(***************************************************************************)
HostName == [name : Text, spelt : Text]
ApplicationProxyConfig ==
    [headers : Seq(Text), timeout : Text, buffering : Text, websocket : BOOLEAN,
     preserveHost : Text]
ApplicationHost == [host : HostName, primary : BOOLEAN]
ApplicationListener == [port : Int, protocol : Text, certificate : Int, enabled : BOOLEAN]
ApplicationUpstream == [name : Text, scheme : Text, enabled : BOOLEAN]
ApplicationRoute ==
    [path : Text, match : Text, upstream : Text, priority : Int, enabled : BOOLEAN,
     proxy : ApplicationProxyConfig]
Application ==
    [mode : Text, enabled : BOOLEAN, hosts : Seq(ApplicationHost),
     listeners : Seq(ApplicationListener), upstreams : Seq(ApplicationUpstream),
     routes : Seq(ApplicationRoute), proxy : ApplicationProxyConfig]
\* As listed, with its number.
NumberedApplication ==
    [id : Nat, mode : Text, enabled : BOOLEAN, hosts : Seq(ApplicationHost),
     listeners : Seq(ApplicationListener), upstreams : Seq(ApplicationUpstream),
     routes : Seq(ApplicationRoute), proxy : ApplicationProxyConfig]
SiteRow == [host : HostName, scheme : Text, mode : Text, enabled : BOOLEAN]
-----------------------------------------------------------------------------
(***************************************************************************)
(* Proxy configurations; a nil one renders like one with nothing set.      *)
(***************************************************************************)
NoProxy == [headers |-> <<>>, timeout |-> "", buffering |-> "", websocket |-> FALSE,
            preserveHost |-> "unset"]

OnOff(text) ==
    CASE text \in {"on", "true", "1", "yes"} -> "on"
      [] text \in {"off", "false", "0", "no"} -> "off"
      [] text = "default" -> ""
      [] OTHER -> text

NormalizeProxy(proxy) ==
    [proxy EXCEPT !.headers = Kept(@, LAMBDA h : h # "blank"), !.buffering = OnOff(@)]

ValidTimeouts == {"", "30s", "500ms"}
ValidProxy(proxy) ==
    /\ "ill-formed" \notin Range(proxy.headers)
    /\ proxy.timeout \in ValidTimeouts
    /\ proxy.buffering \in {"", "on", "off"}

Directives(proxy) ==
    [host |-> IF proxy.preserveHost = "no" THEN "$proxy_host" ELSE "$host",
     upgrade |-> proxy.websocket, timeout |-> proxy.timeout,
     buffering |-> proxy.buffering, headers |-> proxy.headers]
-----------------------------------------------------------------------------
(***************************************************************************)
(* Normalisation and validation of an application                          *)
(***************************************************************************)
NormalizeHost(host) ==
    IF host.spelt \in {"dotted", "capitals"} THEN [host EXCEPT !.spelt = "plain"] ELSE host
ValidHost(host) == host.spelt = "plain"

\* Route number i of an application with these upstreams.
NormalizeRoute(route, i, upstreams) ==
    [route EXCEPT !.path = OrDefault(@, "/"), !.match = OrDefault(@, "prefix"),
                  !.upstream = IF @ = "" /\ Len(upstreams) = 1 THEN upstreams[1].name ELSE @,
                  !.priority = IF @ <= 0 THEN i ELSE @,
                  !.proxy = NormalizeProxy(@)]

NormalizeApplication(app) ==
    LET upstreams == Each(LAMBDA u : [u EXCEPT !.name =
                            IF Len(app.upstreams) = 1 THEN OrDefault(@, "primary") ELSE @],
                          app.upstreams)
    IN [app EXCEPT !.mode = OrDefault(@, "monitor"),
                   !.hosts = Each(LAMBDA h : [h EXCEPT !.host = NormalizeHost(@)], @),
                   !.upstreams = upstreams,
                   !.routes = [i \in DOMAIN @ |-> NormalizeRoute(@[i], i, upstreams)],
                   !.proxy = NormalizeProxy(@)]

Enabled(list) == {x \in Range(list) : x.enabled}

BadGlobs == {"/a**"}
ValidPath(match, path) ==
    /\ path # "relative" /\ match \in {"exact", "prefix", "glob"}
    /\ match = "glob" => path \notin BadGlobs

ValidRoute(route, upstreams) ==
    /\ route.priority > 0 /\ ValidPath(route.match, route.path)
    /\ \E u \in Range(upstreams) : u.name = route.upstream /\ (route.enabled => u.enabled)
    /\ ValidProxy(route.proxy)

ValidRoutes(routes, upstreams) ==
    /\ Distinct(LAMBDA r : r.priority, routes)
    /\ \A r \in Range(routes) : ValidRoute(r, upstreams)

ValidHosts(hosts) ==
    /\ hosts # <<>> /\ \A h \in Range(hosts) : ValidHost(h.host)
    /\ Distinct(LAMBDA h : h.host, hosts)
    /\ Cardinality({i \in DOMAIN hosts : hosts[i].primary}) <= 1

NoCertificate == 0
AllPorts == 1 .. 65535
ValidListeners(listeners, certificates) ==
    /\ listeners # <<>> /\ Distinct(LAMBDA l : <<l.port, l.protocol>>, listeners)
    /\ \A l \in Range(listeners) :
          /\ l.port \in AllPorts /\ l.protocol \in {"http", "https"}
          /\ l.enabled /\ l.protocol = "https" => l.certificate \in certificates

ValidUpstreams(upstreams) ==
    /\ Enabled(upstreams) # {} /\ Distinct(LAMBDA u : u.name, upstreams)
    /\ \A u \in Range(upstreams) : u.name # "" /\ u.scheme \in {"http", "https"}

ValidateApplication(app, certificates) ==
    /\ app.mode \in {"monitor", "protect", "off"}
    /\ ValidHosts(app.hosts) /\ ValidListeners(app.listeners, certificates)
    /\ ValidUpstreams(app.upstreams) /\ ValidProxy(app.proxy)
    /\ ValidRoutes(app.routes, app.upstreams)

(***************************************************************************)
(* Sites, and the applications they stand for                              *)
(***************************************************************************)
NormalizeSite(site) ==
    [site EXCEPT !.mode = OrDefault(@, "monitor"),
                 !.host = IF @.spelt = "capitals" THEN [@ EXCEPT !.spelt = "plain"] ELSE @]

\* A host with a port passes here, and any scheme.
ValidateSite(site) ==
    /\ site.host.spelt # "url" /\ site.scheme # ""
    /\ site.mode \in {"monitor", "protect", "off"}

ApplicationOfSite(site, id) ==
    NormalizeApplication(
      [id |-> id, mode |-> site.mode, enabled |-> site.enabled,
       hosts |-> <<[host |-> site.host, primary |-> TRUE]>>,
       listeners |-> <<[port |-> 80, protocol |-> "http", certificate |-> NoCertificate,
                        enabled |-> TRUE]>>,
       upstreams |-> <<[name |-> "primary", scheme |-> site.scheme, enabled |-> TRUE]>>,
       routes |-> <<>>, proxy |-> NoProxy])
-----------------------------------------------------------------------------
(***************************************************************************)
(* Readiness of a list of applications, given the certificates there      *)
(* are, the applications that enabled rows are scoped to and the ports     *)
(* the deployment maps.                                                    *)
(***************************************************************************)
\* GATEWAY_BRIDGE_PORT_RANGE: ill-formed ranges are skipped.
PortRanges(ranges) == {r \in ranges : r[1] > 0 /\ r[2] <= 65535 /\ r[1] <= r[2]}
MappedPorts(mode, ranges) ==
    IF mode = "bridge-range" THEN UNION {r[1] .. r[2] : r \in PortRanges(ranges)} ELSE AllPorts

Issue(category, app) == [category |-> category, application |-> app.id]
\* Slip: only the first host is compared.
Keys_First(app) == {<<app.hosts[1].host, l.port, l.protocol>> : l \in Enabled(app.listeners)}
Keys(app) == {<<h.host, l.port, l.protocol>> : h \in Range(app.hosts), l \in Enabled(app.listeners)}

RouteIssues(app) ==
    IF \A i \in DOMAIN app.routes :
          /\ ValidRoute(app.routes[i], app.upstreams)
          /\ \A j \in 1 .. i - 1 : app.routes[i].priority # app.routes[j].priority
    THEN {} ELSE {Issue("invalid-route", app)}

\* Only an application that is valid by itself takes its listeners.
ListenerIssues(apps, i, certificates, ports) ==
    LET valid == {j \in DOMAIN apps : /\ apps[j].enabled
                                      /\ ValidateApplication(apps[j], certificates)}
    IN IF i \notin valid THEN {Issue("application-validation", apps[i])}
       ELSE (IF \E j \in valid : j < i /\ Keys(apps[j]) \cap Keys(apps[i]) # {}
             THEN {Issue("listener-port-conflict", apps[i])} ELSE {}) \cup
            (IF {l.port : l \in Enabled(apps[i].listeners)} \subseteq ports
             THEN {} ELSE {Issue("deployment-mode-port", apps[i])})

ApplicationIssues(apps, i, certificates, ports) ==
    (IF Enabled(apps[i].listeners) = {} THEN {Issue("no-enabled-listener", apps[i])} ELSE {}) \cup
    (IF Enabled(apps[i].upstreams) = {} THEN {Issue("no-enabled-upstream", apps[i])} ELSE {}) \cup
    RouteIssues(apps[i]) \cup ListenerIssues(apps, i, certificates, ports)

\* A row scoped to an application that no longer exists is no issue.
DisabledReferenceIssues(apps, scopes) ==
    {Issue("disabled-application-reference", app) :
        app \in {a \in Range(apps) : ~a.enabled /\ a.id \in scopes}}

ReadinessErrors(apps, certificates, scopes, ports) ==
    DisabledReferenceIssues(apps, scopes) \cup
    UNION {ApplicationIssues(apps, i, certificates, ports) : i \in {j \in DOMAIN apps : apps[j].enabled}}
-----------------------------------------------------------------------------
(***************************************************************************)
(* The Gateway configuration, and back                                     *)
(***************************************************************************)
\* Slip: in the order of the request.
ByPriority_Stored(routes) == routes
\* Stored routes have a priority of their own.
ByPriority(routes) ==
    Each(LAMBDA i : routes[i],
         InOrder(DOMAIN routes, LAMBDA i, j :
            \/ routes[i].priority < routes[j].priority
            \/ routes[i].priority = routes[j].priority /\ i < j))

GatewayApplication(app) ==
    [id |-> app.id, mode |-> app.mode, enabled |-> app.enabled,
     hosts |-> Each(LAMBDA h : h.host, app.hosts), listeners |-> app.listeners,
     upstreams |-> app.upstreams, routes |-> ByPriority(app.routes), proxy |-> app.proxy]

GatewayApplications(apps) ==
    Each(GatewayApplication, Kept(apps, LAMBDA app : app.enabled))

\* Slip: the proxy configuration is not read back either.
ApplicationsFromConfig_NoProxy(config) ==
    Each(LAMBDA app : [app EXCEPT !.hosts = [i \in DOMAIN @ |-> [host |-> @[i], primary |-> i = 1]],
                                  !.routes = <<>>, !.proxy = NoProxy], config)
\* Routes are not read back: the servers do not need them.
ApplicationsFromConfig(config) ==
    Each(LAMBDA app : [app EXCEPT !.hosts = [i \in DOMAIN @ |-> [host |-> @[i], primary |-> i = 1]],
                                  !.routes = <<>>], config)
-----------------------------------------------------------------------------
(***************************************************************************)
(* The nginx servers                                                       *)
(***************************************************************************)
ListenerServer(app, listener) ==
    [port |-> listener.port, ssl |-> listener.protocol = "https",
     certificate |-> IF listener.protocol = "https" THEN listener.certificate ELSE NoCertificate,
     names |-> Each(LAMBDA h : h.host, app.hosts), proxy |-> Directives(app.proxy)]

\* One server for each enabled listener, application after application.
ListenerConfig(apps) ==
    LET Served(app) == [on |-> Kept(app.listeners, LAMBDA l : l.enabled), app |-> app]
        ready == Each(Served, Kept(apps, LAMBDA app : app.enabled))
    IN Each(LAMBDA s : Each(LAMBDA l : ListenerServer(s.app, l), s.on), ready)

Servers(config) == UNION {Range(config[i]) : i \in DOMAIN config}
\* Slip: listeners that are off count too.
UsedCertificates_Off(apps) ==
    UNION {{l.certificate : l \in Range(a.listeners)} : a \in Enabled(apps)} \ {NoCertificate}
UsedCertificates(apps) ==
    {s.certificate : s \in {x \in Servers(ListenerConfig(apps)) : x.ssl}}
=============================================================================
