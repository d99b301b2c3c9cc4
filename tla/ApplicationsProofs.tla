-------------------------- MODULE ApplicationsProofs --------------------------
(***************************************************************************)
(* What the applications, their releases and the access list guarantee for *)
(* any bodies, stores before, numbers of rows, edits and releases.         *)
(***************************************************************************)
EXTENDS Applications, AccessIndexProofs

-----------------------------------------------------------------------------
(***************************************************************************)
(* Types                                                                   *)
(***************************************************************************)
TypeInv ==
  /\ backend \in Backends
  /\ applications \in Table(ApplicationIds, Application) /\ sites \in Table(SiteIds, SiteRow)
  /\ entries \in Table(EntryIds, IPAccessListEntry) /\ certificates \in SUBSET CertificateIds
  /\ release \in ReleaseRow \cup {None}
  /\ release # None => release.read \in Rows .. Len(Parts) * Len(release.list)

(***************************************************************************)
(* Requests past their checks: their application would be stored, and in   *)
(* memory there are none, so that a certificate in use is never dropped.   *)
(***************************************************************************)
Sound(app, known) == NormalizeApplication(app) = app /\ ValidateApplication(app, known)
RequestsInv ==
  /\ saving # None => /\ backend # "memory" /\ saving \in [id : ApplicationIds, app : Application]
                      /\ Sound(saving.app, CertificateIds)
  /\ deleting # None => backend # "memory"

(***************************************************************************)
(* A reading that no edit was amid: each part that was read is still the   *)
(* one that is stored.  A release that no edit overlapped lists what is    *)
(* stored, and what it found at its first check is so still.               *)
(***************************************************************************)
Current == IF IdsIn(applications) = {} THEN ListSites ELSE ListApplications
Partial(app, n) ==
    [id |-> app.id, mode |-> app.mode, enabled |-> app.enabled,
     hosts |-> IF n >= 1 THEN app.hosts ELSE <<>>,
     listeners |-> IF n >= 2 THEN app.listeners ELSE <<>>,
     upstreams |-> IF n >= 3 THEN app.upstreams ELSE <<>>,
     routes |-> IF n >= 4 THEN app.routes ELSE <<>>, proxy |-> app.proxy]
ReadUpTo(n) ==
    [i \in DOMAIN ListApplications |-> Partial(ListApplications[i], n - 4 * (i - 1))]

Amid == release.read >= 0 /\ ~Read(release)
Listed == release.read >= 0 /\ Read(release)
Ready(list) == ReadinessErrors(list, certificates, Scopes, MappedPorts(ListenerMode, PortRange)) = {}

WholeReading ==
  release # None /\ release.whole =>
    /\ Amid => IdsIn(applications) # {} /\ release.list = ReadUpTo(release.read)
    /\ Listed => \A app \in Range(release.list) : ValidRoutes(app.routes, app.upstreams)
QuietRelease ==
  release # None /\ release.quiet =>
    /\ release.whole
    /\ release.read = Fallback => IdsIn(applications) = {}
    /\ Listed => release.list = Current
    /\ release.step # "readiness" => Ready(Current)
    /\ release.step = "artifacts" => gateway.applications = GatewayApplications(Current)

IInv ==
  /\ TypeInv /\ StoredApplicationsValidate /\ RequestsInv
  /\ WholeReading /\ QuietRelease
  /\ ReleasedRoutesReachUpstreams /\ AccessIndexAgreesWithList
  /\ QuietReleasesServeEveryHost /\ RollbackRendersTheSame

-----------------------------------------------------------------------------
(***************************************************************************)
(* Normalisation: what is normalised stays as it is                        *)
(***************************************************************************)
LEMMA Defaulted ==
  ASSUME NEW t \in Text, NEW d \in Text
  PROVE  OrDefault(t, d) \in Text /\ OrDefault(OrDefault(t, d), d) = OrDefault(t, d)
BY Zenon DEF OrDefault

LEMMA OnOffAgain ==
  ASSUME NEW t \in Text
  PROVE  OnOff(t) \in Text /\ OnOff(OnOff(t)) = OnOff(t)
<1>1. t \in {"on", "true", "1", "yes"} => OnOff(t) = "on"
  BY DEF OnOff
<1>2. t \in {"off", "false", "0", "no"} => OnOff(t) = "off"
  BY DEF OnOff
<1>3. t = "default" => OnOff(t) = ""
  BY DEF OnOff
<1>4. t \notin {"on", "true", "1", "yes", "off", "false", "0", "no", "default"} => OnOff(t) = t
  BY DEF OnOff
<1>5. OnOff("on") = "on" /\ OnOff("off") = "off"
  BY DEF OnOff
<1>6. OnOff("") = ""
  BY DEF OnOff
<1>7. "on" \in Text /\ "off" \in Text /\ "" \in Text
  BY TextAssumption
<1>8. CASE t \notin {"on", "true", "1", "yes", "off", "false", "0", "no", "default"}
  BY <1>4, <1>8
<1>9. CASE t \in {"on", "true", "1", "yes"}
  BY <1>1, <1>5, <1>7, <1>9, Zenon
<1>10. CASE t \in {"off", "false", "0", "no"}
  BY <1>2, <1>5, <1>7, <1>10, Zenon
<1>11. CASE t = "default"
  BY <1>3, <1>6, <1>7, <1>11, Zenon
<1> QED BY <1>8, <1>9, <1>10, <1>11

LEMMA HeadersKept ==
  ASSUME NEW headers \in Seq(Text)
  PROVE  LET kept == Kept(headers, LAMBDA h : h # "blank") IN
         kept \in Seq(Text) /\ Kept(kept, LAMBDA h : h # "blank") = kept
<1> DEFINE I(s) == {i \in DOMAIN s : s[i] # "blank"}
           kept == Chosen(headers, I(headers))
<1>1. Kept(headers, LAMBDA h : h # "blank") = kept
  BY Zenon DEF Kept, Chosen
<1>2. Kept(kept, LAMBDA h : h # "blank") = Chosen(kept, I(kept))
  BY Zenon DEF Kept, Chosen
<1>3. I(headers) \in SUBSET DOMAIN headers
  OBVIOUS
<1>4. kept \in Seq(Text) /\ Range(kept) = {headers[i] : i \in I(headers)}
  BY <1>3, ChosenItems
<1>5. \A k \in DOMAIN kept : kept[k] # "blank"
  <2> HIDE DEF kept
  <2>1. \A k \in DOMAIN kept : kept[k] \in Range(kept)
    BY DEF Range
  <2> QED BY <1>4, <2>1
<1>6. I(kept) = DOMAIN kept
  BY <1>5
<1>7. Chosen(kept, I(kept)) = kept
  <2> HIDE DEF kept, I
  <2> QED BY <1>4, <1>6, AllChosen
<1> HIDE DEF kept, I
<1> QED BY <1>1, <1>2, <1>4, <1>7, Zenon

LEMMA NormalProxy ==
  ASSUME NEW proxy \in ApplicationProxyConfig
  PROVE  /\ NormalizeProxy(proxy) \in ApplicationProxyConfig
         /\ NormalizeProxy(NormalizeProxy(proxy)) = NormalizeProxy(proxy)
<1> DEFINE K(s) == Kept(s, LAMBDA h : h # "blank")
           P(p) == [headers |-> K(p.headers), timeout |-> p.timeout, buffering |-> OnOff(p.buffering),
                    websocket |-> p.websocket, preserveHost |-> p.preserveHost]
<1>1. \A p : NormalizeProxy(p) = [p EXCEPT !.headers = K(@), !.buffering = OnOff(@)]
  BY Zenon DEF NormalizeProxy
<1>2. K(proxy.headers) \in Seq(Text) /\ K(K(proxy.headers)) = K(proxy.headers)
  BY HeadersKept DEF ApplicationProxyConfig
<1>3. OnOff(proxy.buffering) \in Text /\ OnOff(OnOff(proxy.buffering)) = OnOff(proxy.buffering)
  BY OnOffAgain DEF ApplicationProxyConfig
<1> HIDE DEF K
<1>4. \A p \in ApplicationProxyConfig : NormalizeProxy(p) = P(p)
  BY <1>1 DEF ApplicationProxyConfig
<1>5. P(proxy) \in ApplicationProxyConfig
  BY <1>2, <1>3 DEF ApplicationProxyConfig
<1>6. P(P(proxy)) = P(proxy)
  BY <1>2, <1>3
<1> HIDE DEF P
<1> QED BY <1>4, <1>5, <1>6

\* The parts of a normalised application.
NormalHosts(hosts) ==
    [i \in DOMAIN hosts |-> [host |-> NormalizeHost(hosts[i].host), primary |-> hosts[i].primary]]
NormalUpstreams(upstreams) ==
    [i \in DOMAIN upstreams |->
        [name |-> IF Len(upstreams) = 1 THEN OrDefault(upstreams[i].name, "primary")
                  ELSE upstreams[i].name,
         scheme |-> upstreams[i].scheme, enabled |-> upstreams[i].enabled]]
NormalRoutes(routes, upstreams) ==
    [i \in DOMAIN routes |-> NormalizeRoute(routes[i], i, upstreams)]

LEMMA NormalHostsAgain ==
  ASSUME NEW hosts \in Seq(ApplicationHost)
  PROVE  /\ NormalHosts(hosts) \in Seq(ApplicationHost)
         /\ NormalHosts(NormalHosts(hosts)) = NormalHosts(hosts)
<1>1. ASSUME NEW h \in HostName
      PROVE  NormalizeHost(h) \in HostName /\ NormalizeHost(NormalizeHost(h)) = NormalizeHost(h)
  <2>1. CASE h.spelt \in {"dotted", "capitals"}
    <3>1. NormalizeHost(h) = [name |-> h.name, spelt |-> "plain"]
      BY <2>1 DEF NormalizeHost, HostName
    <3>2. h.name \in Text /\ "plain" \in Text
      BY TextAssumption DEF HostName
    <3> QED BY <3>1, <3>2 DEF NormalizeHost, HostName
  <2>2. CASE h.spelt \notin {"dotted", "capitals"}
    BY <2>2 DEF NormalizeHost
  <2> QED BY <2>1, <2>2
<1>2. \A i \in DOMAIN hosts : hosts[i].host \in HostName /\ hosts[i].primary \in BOOLEAN
  <2>1. \A i \in DOMAIN hosts : hosts[i] \in ApplicationHost
    OBVIOUS
  <2>2. \A h \in ApplicationHost : h.host \in HostName /\ h.primary \in BOOLEAN
    BY DEF ApplicationHost
  <2> QED BY <2>1, <2>2, Zenon
<1> DEFINE n == NormalHosts(hosts)
<1>3. /\ DOMAIN n = 1 .. Len(hosts) /\ Len(hosts) \in Nat /\ DOMAIN hosts = 1 .. Len(hosts)
      /\ \A i \in DOMAIN n : n[i] = [host |-> NormalizeHost(hosts[i].host), primary |-> hosts[i].primary]
  BY DEF NormalHosts
<1>4. n \in [1 .. Len(hosts) -> ApplicationHost]
  <2>1. \A i \in 1 .. Len(hosts) :
          [host |-> NormalizeHost(hosts[i].host), primary |-> hosts[i].primary] \in ApplicationHost
    BY <1>1, <1>2, <1>3 DEF ApplicationHost
  <2> QED BY <1>3, <2>1 DEF NormalHosts
<1>5. n \in Seq(ApplicationHost)
  BY <1>3, <1>4
<1>6. NormalHosts(n) = n
  <2>1. \A i \in DOMAIN n : [host |-> NormalizeHost(n[i].host), primary |-> n[i].primary] = n[i]
    BY <1>1, <1>2, <1>3
  <2>2. n = [i \in DOMAIN n |-> n[i]]
    BY <1>4
  <2> HIDE DEF n
  <2>3. NormalHosts(n) = [i \in DOMAIN n |-> n[i]]
    BY <2>1 DEF NormalHosts
  <2> QED BY <2>2, <2>3
<1> QED BY <1>5, <1>6

LEMMA NormalUpstreamsAgain ==
  ASSUME NEW upstreams \in Seq(ApplicationUpstream)
  PROVE  /\ NormalUpstreams(upstreams) \in Seq(ApplicationUpstream)
         /\ Len(NormalUpstreams(upstreams)) = Len(upstreams)
         /\ NormalUpstreams(NormalUpstreams(upstreams)) = NormalUpstreams(upstreams)
<1> DEFINE Name(i) == IF Len(upstreams) = 1 THEN OrDefault(upstreams[i].name, "primary")
                      ELSE upstreams[i].name
           n == NormalUpstreams(upstreams)
           m == Len(upstreams)
<1>1. m \in Nat /\ DOMAIN upstreams = 1 .. m
  OBVIOUS
<1>2. \A i \in 1 .. m : /\ upstreams[i].name \in Text /\ upstreams[i].scheme \in Text
                        /\ upstreams[i].enabled \in BOOLEAN
  <2>1. \A i \in 1 .. m : upstreams[i] \in ApplicationUpstream
    BY <1>1
  <2>2. \A u \in ApplicationUpstream : u.name \in Text /\ u.scheme \in Text /\ u.enabled \in BOOLEAN
    BY DEF ApplicationUpstream
  <2> HIDE DEF m
  <2> QED BY <2>1, <2>2, Zenon
<1>3. \A i \in 1 .. m : /\ Name(i) \in Text
                        /\ m = 1 => OrDefault(Name(i), "primary") = Name(i)
  BY <1>2, Defaulted, TextAssumption
<1>4. n = [i \in 1 .. m |-> [name |-> Name(i), scheme |-> upstreams[i].scheme,
                             enabled |-> upstreams[i].enabled]]
  BY <1>1 DEF NormalUpstreams
<1> HIDE DEF Name, n
<1>5. n \in [1 .. m -> ApplicationUpstream]
  BY <1>2, <1>3, <1>4 DEF ApplicationUpstream
<1>6. n \in Seq(ApplicationUpstream) /\ Len(n) = m /\ DOMAIN n = 1 .. m
  BY <1>1, <1>5
<1>7. \A i \in 1 .. m : [name |-> IF Len(n) = 1 THEN OrDefault(n[i].name, "primary") ELSE n[i].name,
                         scheme |-> n[i].scheme, enabled |-> n[i].enabled] = n[i]
  BY <1>3, <1>4, <1>6
<1>8. n = [i \in 1 .. m |-> n[i]]
  BY <1>5
<1>9. NormalUpstreams(n) = [i \in 1 .. m |-> n[i]]
  BY <1>6, <1>7 DEF NormalUpstreams
<1> QED BY <1>6, <1>8, <1>9 DEF n

LEMMA NormalRoutesAgain ==
  ASSUME NEW routes \in Seq(ApplicationRoute), NEW upstreams \in Seq(ApplicationUpstream)
  PROVE  /\ NormalRoutes(routes, upstreams) \in Seq(ApplicationRoute)
         /\ NormalRoutes(NormalRoutes(routes, upstreams), upstreams) = NormalRoutes(routes, upstreams)
<1> DEFINE R(r, i) == [path |-> OrDefault(r.path, "/"), match |-> OrDefault(r.match, "prefix"),
                       upstream |-> IF r.upstream = "" /\ Len(upstreams) = 1 THEN upstreams[1].name
                                    ELSE r.upstream,
                       priority |-> IF r.priority <= 0 THEN i ELSE r.priority,
                       enabled |-> r.enabled, proxy |-> NormalizeProxy(r.proxy)]
           n == NormalRoutes(routes, upstreams)
           m == Len(routes)
<1>1. m \in Nat /\ DOMAIN routes = 1 .. m /\ \A i \in 1 .. m : routes[i] \in ApplicationRoute
  OBVIOUS
<1>2. ASSUME NEW r \in ApplicationRoute, NEW i
      PROVE  NormalizeRoute(r, i, upstreams) = R(r, i)
  <2>1. PICK path, match, upstream, priority, proxy :
          /\ path = OrDefault(r.path, "/") /\ match = OrDefault(r.match, "prefix")
          /\ upstream = IF r.upstream = "" /\ Len(upstreams) = 1 THEN upstreams[1].name
                        ELSE r.upstream
          /\ priority = IF r.priority <= 0 THEN i ELSE r.priority
          /\ proxy = NormalizeProxy(r.proxy)
    OBVIOUS
  <2>2. NormalizeRoute(r, i, upstreams)
          = [r EXCEPT !.path = path, !.match = match, !.upstream = upstream,
                      !.priority = priority, !.proxy = proxy]
    BY <2>1 DEF NormalizeRoute
  <2>3. @ = [path |-> path, match |-> match, upstream |-> upstream, priority |-> priority,
             enabled |-> r.enabled, proxy |-> proxy]
    <3> DEFINE Route(p, g, u, c, x) == [path |-> p, match |-> g, upstream |-> u, priority |-> c,
                                        enabled |-> r.enabled, proxy |-> x]
    <3>1. PICK r1 : r1 = [r EXCEPT !.path = path]
      OBVIOUS
    <3>2. r1 = Route(path, r.match, r.upstream, r.priority, r.proxy)
      BY <3>1 DEF ApplicationRoute
    <3>3. PICK r2 : r2 = [r1 EXCEPT !.match = match]
      OBVIOUS
    <3>4. r2 = Route(path, match, r.upstream, r.priority, r.proxy)
      BY <3>2, <3>3
    <3>5. PICK r3 : r3 = [r2 EXCEPT !.upstream = upstream]
      OBVIOUS
    <3>6. r3 = Route(path, match, upstream, r.priority, r.proxy)
      BY <3>4, <3>5
    <3>7. PICK r4 : r4 = [r3 EXCEPT !.priority = priority]
      OBVIOUS
    <3>8. r4 = Route(path, match, upstream, priority, r.proxy)
      BY <3>6, <3>7
    <3>9. [r4 EXCEPT !.proxy = proxy] = Route(path, match, upstream, priority, proxy)
      BY <3>8
    <3>10. [r EXCEPT !.path = path, !.match = match, !.upstream = upstream, !.priority = priority,
                     !.proxy = proxy] = [r4 EXCEPT !.proxy = proxy]
      BY <3>1, <3>3, <3>5, <3>7
    <3> QED BY <3>9, <3>10
  <2>4. @ = R(r, i)
    BY <2>1
  <2> QED BY <2>2, <2>3, <2>4
<1>3. ASSUME NEW r \in ApplicationRoute, NEW i \in 1 .. m
      PROVE  R(r, i) \in ApplicationRoute /\ R(R(r, i), i) = R(r, i)
  <2>1. /\ r.path \in Text /\ r.match \in Text /\ r.upstream \in Text /\ r.priority \in Int
        /\ r.enabled \in BOOLEAN /\ r.proxy \in ApplicationProxyConfig
    BY DEF ApplicationRoute
  <2>2. PICK path : path = OrDefault(r.path, "/")
    OBVIOUS
  <2>3. PICK match : match = OrDefault(r.match, "prefix")
    OBVIOUS
  <2>4. PICK proxy : proxy = NormalizeProxy(r.proxy)
    OBVIOUS
  <2>5. /\ path \in Text /\ match \in Text /\ proxy \in ApplicationProxyConfig
        /\ OrDefault(path, "/") = path /\ OrDefault(match, "prefix") = match
        /\ NormalizeProxy(proxy) = proxy
    BY <2>1, <2>2, <2>3, <2>4, Defaulted, NormalProxy, TextAssumption
  <2>6. PICK upstream : upstream = IF r.upstream = "" /\ Len(upstreams) = 1 THEN upstreams[1].name
                                   ELSE r.upstream
    OBVIOUS
  <2>7. /\ upstream \in Text
        /\ (IF upstream = "" /\ Len(upstreams) = 1 THEN upstreams[1].name ELSE upstream) = upstream
    <3>1. Len(upstreams) = 1 => upstreams[1].name \in Text
      <4>1. \A k \in DOMAIN upstreams : upstreams[k] \in ApplicationUpstream
        OBVIOUS
      <4>2. Len(upstreams) = 1 => 1 \in DOMAIN upstreams
        OBVIOUS
      <4>3. \A u \in ApplicationUpstream : u.name \in Text
        BY DEF ApplicationUpstream
      <4> QED BY <4>1, <4>2, <4>3, Zenon
    <3>2. CASE r.upstream = "" /\ Len(upstreams) = 1
      BY <2>6, <3>1, <3>2, Zenon
    <3>3. CASE ~(r.upstream = "" /\ Len(upstreams) = 1)
      <4>1. upstream = r.upstream
        BY <2>6, <3>3, Zenon
      <4> QED BY <2>1, <3>3, <4>1, Zenon
    <3> QED BY <3>2, <3>3
  <2>8. PICK priority : priority = IF r.priority <= 0 THEN i ELSE r.priority
    OBVIOUS
  <2>9. priority \in Int /\ (IF priority <= 0 THEN i ELSE priority) = priority
    BY <1>1, <2>1, <2>8
  <2>10. R(r, i) = [path |-> path, match |-> match, upstream |-> upstream, priority |-> priority,
                    enabled |-> r.enabled, proxy |-> proxy]
    BY <2>2, <2>3, <2>4, <2>6, <2>8
  <2> DEFINE s == [path |-> path, match |-> match, upstream |-> upstream, priority |-> priority,
                   enabled |-> r.enabled, proxy |-> proxy]
  <2>11. s \in ApplicationRoute
    BY <2>1, <2>5, <2>7, <2>9 DEF ApplicationRoute
  <2>12. R(s, i) = s
    BY <2>5, <2>7, <2>9
  <2> HIDE DEF s, R
  <2> QED BY <2>10, <2>11, <2>12 DEF s
<1> HIDE DEF R
<1>4. n = [i \in 1 .. m |-> R(routes[i], i)]
  BY <1>1, <1>2 DEF NormalRoutes
<1> HIDE DEF n
<1>5. n \in [1 .. m -> ApplicationRoute]
  BY <1>1, <1>3, <1>4
<1>6. n \in Seq(ApplicationRoute) /\ DOMAIN n = 1 .. m /\ n = [i \in 1 .. m |-> n[i]]
  BY <1>1, <1>5
<1>7. \A i \in 1 .. m : NormalizeRoute(n[i], i, upstreams) = n[i]
  <2>1. TAKE i \in 1 .. m
  <2>2. routes[i] \in ApplicationRoute /\ n[i] = R(routes[i], i) /\ n[i] \in ApplicationRoute
    BY <1>1, <1>4, <1>5
  <2>3. R(n[i], i) = n[i]
    BY <1>3, <2>2
  <2> QED BY <1>2, <2>2, <2>3
<1>8. NormalRoutes(n, upstreams) = [i \in 1 .. m |-> n[i]]
  BY <1>6, <1>7 DEF NormalRoutes
<1> QED BY <1>6, <1>8 DEF n

LEMMA PartsNormalised ==
  ASSUME NEW hosts \in Seq(ApplicationHost), NEW upstreams \in Seq(ApplicationUpstream),
         NEW routes \in Seq(ApplicationRoute)
  PROVE  /\ Each(LAMBDA h : [h EXCEPT !.host = NormalizeHost(@)], hosts) = NormalHosts(hosts)
         /\ Each(LAMBDA u : [u EXCEPT !.name = IF Len(upstreams) = 1 THEN OrDefault(@, "primary")
                                               ELSE @], upstreams) = NormalUpstreams(upstreams)
<1>1. \A h \in ApplicationHost : [h EXCEPT !.host = NormalizeHost(@)]
                                   = [host |-> NormalizeHost(h.host), primary |-> h.primary]
  BY DEF ApplicationHost
<1>2. \A u \in ApplicationUpstream : \A x :
        [u EXCEPT !.name = x] = [name |-> x, scheme |-> u.scheme, enabled |-> u.enabled]
  BY DEF ApplicationUpstream
<1>3. Each(LAMBDA h : [h EXCEPT !.host = NormalizeHost(@)], hosts)
        = [i \in DOMAIN hosts |-> [hosts[i] EXCEPT !.host = NormalizeHost(@)]]
  BY Zenon DEF Each
<1>4. \A i \in DOMAIN hosts : hosts[i] \in ApplicationHost
  OBVIOUS
<1>5. [i \in DOMAIN hosts |-> [hosts[i] EXCEPT !.host = NormalizeHost(@)]] = NormalHosts(hosts)
  BY <1>1, <1>4, Zenon DEF NormalHosts
<1>6. Each(LAMBDA u : [u EXCEPT !.name = IF Len(upstreams) = 1 THEN OrDefault(@, "primary")
                                         ELSE @], upstreams)
        = [i \in DOMAIN upstreams |->
             [upstreams[i] EXCEPT !.name = IF Len(upstreams) = 1 THEN OrDefault(@, "primary") ELSE @]]
  BY Zenon DEF Each
<1>7. \A i \in DOMAIN upstreams : upstreams[i] \in ApplicationUpstream
  OBVIOUS
<1>8. [i \in DOMAIN upstreams |->
         [upstreams[i] EXCEPT !.name = IF Len(upstreams) = 1 THEN OrDefault(@, "primary") ELSE @]]
        = NormalUpstreams(upstreams)
  BY <1>2, <1>7, Zenon DEF NormalUpstreams
<1> QED BY <1>3, <1>5, <1>6, <1>8

LEMMA NormalApplication ==
  ASSUME NEW app \in Application
  PROVE  /\ NormalizeApplication(app)
              = [mode |-> OrDefault(app.mode, "monitor"), enabled |-> app.enabled,
                 hosts |-> NormalHosts(app.hosts), listeners |-> app.listeners,
                 upstreams |-> NormalUpstreams(app.upstreams),
                 routes |-> NormalRoutes(app.routes, NormalUpstreams(app.upstreams)),
                 proxy |-> NormalizeProxy(app.proxy)]
         /\ NormalizeApplication(app) \in Application
         /\ NormalizeApplication(NormalizeApplication(app)) = NormalizeApplication(app)
<1> DEFINE H(a) == Each(LAMBDA h : [h EXCEPT !.host = NormalizeHost(@)], a.hosts)
           U(a) == Each(LAMBDA u : [u EXCEPT !.name = IF Len(a.upstreams) = 1
                                                      THEN OrDefault(@, "primary") ELSE @],
                        a.upstreams)
           N(a) == [mode |-> OrDefault(a.mode, "monitor"), enabled |-> a.enabled,
                    hosts |-> NormalHosts(a.hosts), listeners |-> a.listeners,
                    upstreams |-> NormalUpstreams(a.upstreams),
                    routes |-> NormalRoutes(a.routes, NormalUpstreams(a.upstreams)),
                    proxy |-> NormalizeProxy(a.proxy)]
<1>1. ASSUME NEW a \in Application
      PROVE  /\ a.mode \in Text /\ a.enabled \in BOOLEAN /\ a.hosts \in Seq(ApplicationHost)
             /\ a.listeners \in Seq(ApplicationListener)
             /\ a.upstreams \in Seq(ApplicationUpstream) /\ a.routes \in Seq(ApplicationRoute)
             /\ a.proxy \in ApplicationProxyConfig
             /\ a = [mode |-> a.mode, enabled |-> a.enabled, hosts |-> a.hosts,
                     listeners |-> a.listeners, upstreams |-> a.upstreams, routes |-> a.routes,
                     proxy |-> a.proxy]
  BY DEF Application
<1>2. ASSUME NEW a \in Application
      PROVE  NormalizeApplication(a) = N(a)
  <2>1. PICK mode, hosts, upstreams, routes, proxy :
          /\ mode = OrDefault(a.mode, "monitor") /\ hosts = H(a) /\ upstreams = U(a)
          /\ routes = NormalRoutes(a.routes, upstreams) /\ proxy = NormalizeProxy(a.proxy)
    OBVIOUS
  <2>2. hosts = NormalHosts(a.hosts) /\ upstreams = NormalUpstreams(a.upstreams)
    BY <1>1, <2>1, PartsNormalised, Zenon
  <2> HIDE DEF H, U
  <2>3. NormalizeApplication(a)
          = [a EXCEPT !.mode = mode, !.hosts = hosts, !.upstreams = upstreams, !.routes = routes,
                      !.proxy = proxy]
    BY <2>1 DEF NormalizeApplication, NormalRoutes, H, U
  <2>4. PICK r1 : r1 = [a EXCEPT !.mode = mode]
    OBVIOUS
  <2>5. r1 = [mode |-> mode, enabled |-> a.enabled, hosts |-> a.hosts, listeners |-> a.listeners,
              upstreams |-> a.upstreams, routes |-> a.routes, proxy |-> a.proxy]
    BY <2>4 DEF Application
  <2>6. PICK r2 : r2 = [r1 EXCEPT !.hosts = hosts]
    OBVIOUS
  <2>7. r2 = [mode |-> mode, enabled |-> a.enabled, hosts |-> hosts, listeners |-> a.listeners,
              upstreams |-> a.upstreams, routes |-> a.routes, proxy |-> a.proxy]
    BY <2>5, <2>6
  <2>8. PICK r3 : r3 = [r2 EXCEPT !.upstreams = upstreams]
    OBVIOUS
  <2>9. r3 = [mode |-> mode, enabled |-> a.enabled, hosts |-> hosts, listeners |-> a.listeners,
              upstreams |-> upstreams, routes |-> a.routes, proxy |-> a.proxy]
    BY <2>7, <2>8
  <2>10. PICK r4 : r4 = [r3 EXCEPT !.routes = routes]
    OBVIOUS
  <2>11. r4 = [mode |-> mode, enabled |-> a.enabled, hosts |-> hosts, listeners |-> a.listeners,
               upstreams |-> upstreams, routes |-> routes, proxy |-> a.proxy]
    BY <2>9, <2>10
  <2>12. [r4 EXCEPT !.proxy = proxy]
           = [mode |-> mode, enabled |-> a.enabled, hosts |-> hosts, listeners |-> a.listeners,
              upstreams |-> upstreams, routes |-> routes, proxy |-> proxy]
    BY <2>11
  <2>13. NormalizeApplication(a) = [r4 EXCEPT !.proxy = proxy]
    BY <2>3, <2>4, <2>6, <2>8, <2>10
  <2> QED BY <2>1, <2>2, <2>12, <2>13
<1> HIDE DEF H, U
<1>3. PICK mode, hosts, upstreams, routes, proxy :
        /\ mode = OrDefault(app.mode, "monitor") /\ hosts = NormalHosts(app.hosts)
        /\ upstreams = NormalUpstreams(app.upstreams)
        /\ routes = NormalRoutes(app.routes, upstreams) /\ proxy = NormalizeProxy(app.proxy)
  OBVIOUS
<1>4. /\ mode \in Text /\ hosts \in Seq(ApplicationHost) /\ upstreams \in Seq(ApplicationUpstream)
      /\ routes \in Seq(ApplicationRoute) /\ proxy \in ApplicationProxyConfig
      /\ OrDefault(mode, "monitor") = mode /\ NormalHosts(hosts) = hosts
      /\ NormalUpstreams(upstreams) = upstreams /\ NormalRoutes(routes, upstreams) = routes
      /\ NormalizeProxy(proxy) = proxy
  <2>1. mode \in Text /\ OrDefault(mode, "monitor") = mode
    BY <1>1, <1>3, Defaulted, TextAssumption
  <2>2. hosts \in Seq(ApplicationHost) /\ NormalHosts(hosts) = hosts
    BY <1>1, <1>3, NormalHostsAgain, Zenon
  <2>3. upstreams \in Seq(ApplicationUpstream) /\ NormalUpstreams(upstreams) = upstreams
    BY <1>1, <1>3, NormalUpstreamsAgain, Zenon
  <2>4. routes \in Seq(ApplicationRoute) /\ NormalRoutes(routes, upstreams) = routes
    BY <1>1, <1>3, <2>3, NormalRoutesAgain, Zenon
  <2>5. proxy \in ApplicationProxyConfig /\ NormalizeProxy(proxy) = proxy
    BY <1>1, <1>3, NormalProxy, Zenon
  <2> QED BY <2>1, <2>2, <2>3, <2>4, <2>5
<1>5. PICK n : n = [mode |-> mode, enabled |-> app.enabled, hosts |-> hosts, listeners |-> app.listeners,
                    upstreams |-> upstreams, routes |-> routes, proxy |-> proxy]
  OBVIOUS
<1>6. NormalizeApplication(app) = n /\ n = N(app)
  BY <1>2, <1>3, <1>5
<1>7. n \in Application
  BY <1>1, <1>4, <1>5 DEF Application
<1>8. N(n) = n
  BY <1>4, <1>5
<1>9. NormalizeApplication(n) = n
  BY <1>2, <1>7, <1>8
<1> QED BY <1>6, <1>7, <1>9

\* The application that a site stands for has no routes.
LEMMA SiteStandsFor ==
  ASSUME NEW site \in SiteRow, NEW id \in Nat
  PROVE  /\ ApplicationOfSite(site, id) \in NumberedApplication
         /\ ApplicationOfSite(site, id).id = id /\ ApplicationOfSite(site, id).routes = <<>>
<1> DEFINE H(a) == Each(LAMBDA h : [h EXCEPT !.host = NormalizeHost(@)], a.hosts)
           U(a) == Each(LAMBDA u : [u EXCEPT !.name = IF Len(a.upstreams) = 1
                                                      THEN OrDefault(@, "primary") ELSE @],
                        a.upstreams)
<1>1. PICK host, upstream, listener :
        /\ host = [host |-> site.host, primary |-> TRUE]
        /\ listener = [port |-> 80, protocol |-> "http", certificate |-> NoCertificate, enabled |-> TRUE]
        /\ upstream = [name |-> "primary", scheme |-> site.scheme, enabled |-> TRUE]
  OBVIOUS
<1>2. PICK a : a = [id |-> id, mode |-> site.mode, enabled |-> site.enabled, hosts |-> <<host>>,
                    listeners |-> <<listener>>, upstreams |-> <<upstream>>, routes |-> <<>>,
                    proxy |-> NoProxy]
  OBVIOUS
<1>3. ApplicationOfSite(site, id) = NormalizeApplication(a)
  BY <1>1, <1>2 DEF ApplicationOfSite
<1>4. /\ host \in ApplicationHost /\ listener \in ApplicationListener
      /\ upstream \in ApplicationUpstream /\ NoProxy \in ApplicationProxyConfig
  <2>1. site.host \in HostName /\ site.scheme \in Text
    BY DEF SiteRow
  <2>2. "primary" \in Text /\ "http" \in Text /\ "" \in Text /\ "unset" \in Text
    BY TextAssumption
  <2>3. host \in ApplicationHost /\ upstream \in ApplicationUpstream
    BY <1>1, <2>1, <2>2 DEF ApplicationHost, ApplicationUpstream
  <2>4. listener \in ApplicationListener
    <3>1. \A port, certificate \in Int, protocol \in Text :
            [port |-> port, protocol |-> protocol, certificate |-> certificate, enabled |-> TRUE]
              \in ApplicationListener
      BY DEF ApplicationListener
    <3>2. 80 \in Int /\ 0 \in Int
      OBVIOUS
    <3> QED BY <1>1, <2>2, <3>1, <3>2, Zenon DEF NoCertificate
  <2>5. NoProxy \in ApplicationProxyConfig
    <3>1. \A headers \in Seq(Text), t, b, p \in Text :
            [headers |-> headers, timeout |-> t, buffering |-> b, websocket |-> FALSE,
             preserveHost |-> p] \in ApplicationProxyConfig
      BY DEF ApplicationProxyConfig
    <3>2. <<>> \in Seq(Text)
      OBVIOUS
    <3> QED BY <2>2, <3>1, <3>2, Zenon DEF NoProxy
  <2> QED BY <2>3, <2>4, <2>5
<1>5. /\ a.mode \in Text /\ a.enabled \in BOOLEAN /\ a.id = id /\ a.routes = <<>>
      /\ a.hosts \in Seq(ApplicationHost) /\ a.listeners \in Seq(ApplicationListener)
      /\ a.upstreams \in Seq(ApplicationUpstream) /\ a.routes \in Seq(ApplicationRoute)
      /\ a.proxy \in ApplicationProxyConfig
  BY <1>2, <1>4 DEF SiteRow
<1>6. PICK mode, hosts, upstreams, routes, proxy :
        /\ mode = OrDefault(a.mode, "monitor") /\ hosts = H(a) /\ upstreams = U(a)
        /\ routes = NormalRoutes(a.routes, upstreams) /\ proxy = NormalizeProxy(a.proxy)
  OBVIOUS
<1>7. /\ mode \in Text /\ hosts \in Seq(ApplicationHost) /\ upstreams \in Seq(ApplicationUpstream)
      /\ routes = <<>> /\ proxy \in ApplicationProxyConfig
  <2>1. mode \in Text
    BY <1>5, <1>6, Defaulted, TextAssumption
  <2>2. hosts = NormalHosts(a.hosts) /\ upstreams = NormalUpstreams(a.upstreams)
    BY <1>5, <1>6, PartsNormalised, Zenon
  <2>3. hosts \in Seq(ApplicationHost) /\ upstreams \in Seq(ApplicationUpstream)
    BY <1>5, <2>2, NormalHostsAgain, NormalUpstreamsAgain, Zenon
  <2>4. routes = <<>>
    BY <1>5, <1>6 DEF NormalRoutes
  <2>5. proxy \in ApplicationProxyConfig
    BY <1>5, <1>6, NormalProxy, Zenon
  <2> QED BY <2>1, <2>3, <2>4, <2>5
<1> HIDE DEF H, U
<1>8. NormalizeApplication(a)
        = [a EXCEPT !.mode = mode, !.hosts = hosts, !.upstreams = upstreams, !.routes = routes,
                    !.proxy = proxy]
  BY <1>6 DEF NormalizeApplication, NormalRoutes, H, U
<1>9. a \in NumberedApplication
  BY <1>2, <1>5 DEF NumberedApplication
<1>10. PICK r1 : r1 = [a EXCEPT !.mode = mode]
  OBVIOUS
<1>11. r1 \in NumberedApplication /\ r1.id = id
  BY <1>5, <1>7, <1>9, <1>10 DEF NumberedApplication
<1>12. PICK r2 : r2 = [r1 EXCEPT !.hosts = hosts]
  OBVIOUS
<1>13. r2 \in NumberedApplication /\ r2.id = id
  BY <1>7, <1>11, <1>12 DEF NumberedApplication
<1>14. PICK r3 : r3 = [r2 EXCEPT !.upstreams = upstreams]
  OBVIOUS
<1>15. r3 \in NumberedApplication /\ r3.id = id
  BY <1>7, <1>13, <1>14 DEF NumberedApplication
<1>16. PICK r4 : r4 = [r3 EXCEPT !.routes = routes]
  OBVIOUS
<1>17. r4 \in NumberedApplication /\ r4.id = id /\ r4.routes = <<>>
  <2>1. routes \in Seq(ApplicationRoute)
    BY <1>7
  <2>2. r4 \in NumberedApplication /\ r4.id = id /\ r4.routes = routes
    BY <2>1, <1>15, <1>16 DEF NumberedApplication
  <2> QED BY <1>7, <2>2
<1>18. PICK r5 : r5 = [r4 EXCEPT !.proxy = proxy]
  OBVIOUS
<1>19. r5 \in NumberedApplication /\ r5.id = id /\ r5.routes = <<>>
  BY <1>7, <1>17, <1>18 DEF NumberedApplication
<1>20. NormalizeApplication(a) = r5
  BY <1>8, <1>10, <1>12, <1>14, <1>16, <1>18
<1> QED BY <1>3, <1>19, <1>20

LEMMA SiteNormalised ==
  ASSUME NEW site \in SiteRow
  PROVE  NormalizeSite(site) \in SiteRow
<1>1. site.host \in HostName /\ site.mode \in Text
  BY DEF SiteRow
<1>2. PICK mode : mode = OrDefault(site.mode, "monitor")
  OBVIOUS
<1>3. PICK host : host = IF site.host.spelt = "capitals" THEN [site.host EXCEPT !.spelt = "plain"]
                         ELSE site.host
  OBVIOUS
<1>4. mode \in Text
  BY <1>1, <1>2, Defaulted, TextAssumption
<1>5. host \in HostName
  <2>1. [site.host EXCEPT !.spelt = "plain"] \in HostName
    BY <1>1, TextAssumption DEF HostName
  <2> QED BY <1>1, <1>3, <2>1
<1>6. PICK r1 : r1 = [site EXCEPT !.mode = mode]
  OBVIOUS
<1>7. r1 \in SiteRow
  BY <1>4, <1>6 DEF SiteRow
<1>8. [r1 EXCEPT !.host = host] \in SiteRow
  BY <1>5, <1>7 DEF SiteRow
<1>9. NormalizeSite(site) = [r1 EXCEPT !.host = host]
  BY <1>2, <1>3, <1>6 DEF NormalizeSite, SiteRow
<1> QED BY <1>8, <1>9

-----------------------------------------------------------------------------
(***************************************************************************)
(* Lists in order of a key, and of number among equals                     *)
(***************************************************************************)
ByKey(S, key) ==
    [k \in 1 .. Cardinality(S) |->
        CHOOSE x \in S :
            Cardinality({y \in S : y = x \/ key[y] < key[x] \/ (key[y] = key[x] /\ y < x)}) = k]

LEMMA KeyOrder ==
  ASSUME NEW S \in SUBSET Int, IsFiniteSet(S), NEW key \in [S -> Int]
  PROVE  LET f == ByKey(S, key) n == Cardinality(S) IN
         /\ n \in Nat /\ f \in [1 .. n -> S]
         /\ \A x \in S : \E k \in 1 .. n : f[k] = x
         /\ \A i, j \in 1 .. n :
              i < j <=> key[f[i]] < key[f[j]] \/ (key[f[i]] = key[f[j]] /\ f[i] < f[j])
<1> DEFINE Less(x, y) == key[x] < key[y] \/ (key[x] = key[y] /\ x < y)
           R == {p \in S \X S : Less(p[1], p[2])}
           n == Cardinality(S)
           A(k) == CHOOSE x \in S : Cardinality({y \in S : y = x \/ key[y] < key[x]
                                                           \/ (key[y] = key[x] /\ y < x)}) = k
           B(k) == CHOOSE x \in S : Cardinality(UpTo(x, S, R)) = k
<1>1. \A x, y \in S : <<x, y>> \in R <=> Less(x, y)
  OBVIOUS
<1>2. Orders(R, S)
  <2>1. \A x \in S : key[x] \in Int /\ x \in Int
    OBVIOUS
  <2>2. \A x \in S : ~Less(x, x)
    BY <2>1
  <2>3. \A x, y, z \in S : Less(x, y) /\ Less(y, z) => Less(x, z)
    BY <2>1
  <2>4. \A x, y \in S : x = y \/ Less(x, y) \/ Less(y, x)
    BY <2>1
  <2> HIDE DEF R, Less
  <2> QED BY <1>1, <2>2, <2>3, <2>4 DEF Orders
<1>3. \A x \in S : UpTo(x, S, R) = {y \in S : y = x \/ Less(y, x)}
  <2> HIDE DEF R, Less
  <2> QED BY <1>1 DEF UpTo
<1> HIDE DEF R
<1>4. \A k \in 1 .. n : A(k) = B(k)
  BY <1>3
<1>5. ByKey(S, key) = [k \in 1 .. n |-> A(k)] /\ Ranked(S, R) = [k \in 1 .. n |-> B(k)]
  BY Zenon DEF ByKey, Ranked
<1> HIDE DEF A, B
<1>6. ByKey(S, key) = Ranked(S, R)
  BY <1>4, <1>5
<1> HIDE DEF Less
<1> DEFINE f == Ranked(S, R)
<1>7. /\ n \in Nat /\ f \in [1 .. n -> S]
      /\ \A x \in S : \E k \in 1 .. n : f[k] = x
      /\ \A i, j \in 1 .. n : i < j <=> <<f[i], f[j]>> \in R
      /\ \A i, j \in 1 .. n : f[i] = f[j] => i = j
  BY <1>2, RankedInOrder, Zenon
<1> HIDE DEF f
<1>8. \A i, j \in 1 .. n : i < j <=> Less(f[i], f[j])
  BY <1>1, <1>7
<1> QED BY <1>6, <1>7, <1>8 DEF f, Less

\* The access list as it is read: typed, and in turn.
LEMMA EntriesInTurn ==
  ASSUME entries \in Table(EntryIds, IPAccessListEntry)
  PROVE  ListEntries \in Seq(ListedEntry) /\ InTurn(ListEntries)
<1> DEFINE S == IdsIn(entries)
           key == [i \in S |-> entries[i].priority]
           A(k) == CHOOSE x \in S : Cardinality({y \in S :
                     y = x \/ (\/ entries[y].priority < entries[x].priority
                               \/ entries[y].priority = entries[x].priority /\ y < x)}) = k
           B(k) == CHOOSE x \in S : Cardinality({y \in S : y = x \/ key[y] < key[x]
                                       \/ (key[y] = key[x] /\ y < x)}) = k
           n == Cardinality(S)
<1>1. /\ IsFiniteSet(S) /\ S \in SUBSET Nat
      /\ \A id \in S : entries[id] \in IPAccessListEntry
  BY ApplicationsAssumption DEF Table, IdsIn
<1>2. \A e \in IPAccessListEntry :
        /\ e.priority \in Nat
        /\ \A id \in Nat : EntryWithId(e, id) \in ListedEntry
  BY DEF IPAccessListEntry, EntryWithId, ListedEntry
<1>3. key \in [S -> Int]
  BY <1>1, <1>2
<1>4. \A x \in S : key[x] = entries[x].priority
  OBVIOUS
<1> HIDE DEF key
<1>5. \A k \in 1 .. n : A(k) = B(k)
  BY <1>4
<1> DEFINE order == InOrder(S, LAMBDA i, j :
                      \/ entries[i].priority < entries[j].priority
                      \/ entries[i].priority = entries[j].priority /\ i < j)
<1>6. order = [k \in 1 .. n |-> A(k)] /\ ByKey(S, key) = [k \in 1 .. n |-> B(k)]
  BY Zenon DEF ByKey, InOrder
<1>7. ListEntries = [k \in DOMAIN order |-> EntryWithId(entries[order[k]], order[k])]
  BY Zenon DEF ListEntries, Each
<1> HIDE DEF A, B, order
<1>8. order = ByKey(S, key)
  BY <1>5, <1>6
<1> HIDE DEF S
<1> DEFINE f == ByKey(S, key)
<1>9. /\ n \in Nat /\ f \in [1 .. n -> S]
      /\ \A i, j \in 1 .. n :
           i < j <=> key[f[i]] < key[f[j]] \/ (key[f[i]] = key[f[j]] /\ f[i] < f[j])
  BY <1>1, <1>3, KeyOrder
<1> HIDE DEF f
<1>10. ListEntries = [k \in 1 .. n |-> EntryWithId(entries[f[k]], f[k])]
  BY <1>7, <1>8, <1>9 DEF f
<1>11. ListEntries \in [1 .. n -> ListedEntry]
  BY <1>1, <1>2, <1>9, <1>10
<1>12. ListEntries \in Seq(ListedEntry) /\ DOMAIN ListEntries = 1 .. n
  BY <1>9, <1>11
<1>13. InTurn(ListEntries)
  <2>1. SUFFICES ASSUME NEW i \in 1 .. n, NEW j \in 1 .. n, i < j
                 PROVE  Before(ListEntries[i], ListEntries[j])
    BY <1>12 DEF InTurn
  <2>2. f[i] \in S /\ f[j] \in S /\ key[f[i]] = entries[f[i]].priority
        /\ key[f[j]] = entries[f[j]].priority
    BY <1>4, <1>9
  <2>3. /\ ListEntries[i].priority = entries[f[i]].priority /\ ListEntries[i].id = f[i]
        /\ ListEntries[j].priority = entries[f[j]].priority /\ ListEntries[j].id = f[j]
    BY <1>10 DEF EntryWithId
  <2>4. key[f[i]] < key[f[j]] \/ (key[f[i]] = key[f[j]] /\ f[i] < f[j])
    BY <1>9, <2>1
  <2> QED BY <2>2, <2>3, <2>4 DEF Before
<1> QED BY <1>12, <1>13

\* Routes in order of priority are the same routes.
LEMMA RoutesInOrder ==
  ASSUME NEW routes \in Seq(ApplicationRoute)
  PROVE  LET sorted == ByPriority(routes) IN
         /\ sorted \in Seq(ApplicationRoute) /\ Range(sorted) = Range(routes)
         /\ (\A i, j \in DOMAIN routes : routes[i].priority = routes[j].priority => i = j) =>
              \A i, j \in DOMAIN sorted : i < j => sorted[i].priority < sorted[j].priority
<1> DEFINE S == DOMAIN routes
           key == [i \in S |-> routes[i].priority]
           A(k) == CHOOSE x \in S : Cardinality({y \in S :
                     y = x \/ (\/ routes[y].priority < routes[x].priority
                               \/ routes[y].priority = routes[x].priority /\ y < x)}) = k
           B(k) == CHOOSE x \in S : Cardinality({y \in S : y = x \/ key[y] < key[x]
                                       \/ (key[y] = key[x] /\ y < x)}) = k
           n == Cardinality(S)
           sorted == ByPriority(routes)
<1>1. IsFiniteSet(S) /\ S \in SUBSET Int /\ \A i \in S : routes[i] \in ApplicationRoute
  BY FS_Interval
<1>2. \A r \in ApplicationRoute : r.priority \in Int
  BY DEF ApplicationRoute
<1>3. key \in [S -> Int]
  BY <1>1, <1>2
<1>4. \A x \in S : key[x] = routes[x].priority
  OBVIOUS
<1> HIDE DEF key
<1>5. \A k \in 1 .. n : A(k) = B(k)
  BY <1>4
<1> DEFINE order == InOrder(S, LAMBDA i, j :
                      \/ routes[i].priority < routes[j].priority
                      \/ routes[i].priority = routes[j].priority /\ i < j)
<1>6. order = [k \in 1 .. n |-> A(k)] /\ ByKey(S, key) = [k \in 1 .. n |-> B(k)]
  BY Zenon DEF ByKey, InOrder
<1>7. sorted = [k \in DOMAIN order |-> routes[order[k]]]
  BY Zenon DEF ByPriority, Each
<1> HIDE DEF A, B, order
<1>8. order = ByKey(S, key)
  BY <1>5, <1>6
<1> DEFINE f == ByKey(S, key)
<1> HIDE DEF S
<1>9. /\ n \in Nat /\ f \in [1 .. n -> S]
      /\ \A x \in S : \E k \in 1 .. n : f[k] = x
      /\ \A i, j \in 1 .. n :
           i < j <=> key[f[i]] < key[f[j]] \/ (key[f[i]] = key[f[j]] /\ f[i] < f[j])
  BY <1>1, <1>3, KeyOrder
<1> HIDE DEF f, sorted
<1>10. sorted = [k \in 1 .. n |-> routes[f[k]]]
  BY <1>7, <1>8, <1>9 DEF f
<1>11. sorted \in [1 .. n -> ApplicationRoute]
  BY <1>1, <1>9, <1>10
<1>12. sorted \in Seq(ApplicationRoute) /\ DOMAIN sorted = 1 .. n
  BY <1>9, <1>11
<1>13. Range(sorted) = Range(routes)
  <2>1. Range(routes) = {routes[x] : x \in S}
    BY DEF Range, S
  <2>2. Range(sorted) = {routes[f[k]] : k \in 1 .. n}
    BY <1>10, <1>12 DEF Range
  <2> QED BY <1>9, <2>1, <2>2
<1>14. ASSUME \A i, j \in S : routes[i].priority = routes[j].priority => i = j,
              NEW i \in 1 .. n, NEW j \in 1 .. n, i < j
       PROVE  sorted[i].priority < sorted[j].priority
  <2>1. f[i] \in S /\ f[j] \in S /\ key[f[i]] = routes[f[i]].priority
        /\ key[f[j]] = routes[f[j]].priority /\ f[i] \in Int /\ f[j] \in Int
    BY <1>1, <1>4, <1>9
  <2>2. key[f[i]] < key[f[j]] \/ (key[f[i]] = key[f[j]] /\ f[i] < f[j])
    BY <1>9, <1>14
  <2>3. key[f[i]] < key[f[j]]
    BY <1>14, <2>1, <2>2
  <2> QED BY <1>10, <2>1, <2>3
<1> QED BY <1>12, <1>13, <1>14 DEF S, sorted

-----------------------------------------------------------------------------
(***************************************************************************)
(* Applications and sites as they are listed                               *)
(***************************************************************************)
LEMMA Numbered ==
  ASSUME NEW app \in Application, NEW id \in Nat
  PROVE  ApplicationWithId(app, id) \in NumberedApplication
BY DEF Application, NumberedApplication, ApplicationWithId

LEMMA ApplicationsListed ==
  ASSUME applications \in Table(ApplicationIds, Application)
  PROVE  /\ ListApplications \in Seq(NumberedApplication)
         /\ \A i \in DOMAIN ListApplications : \E id \in IdsIn(applications) :
              ListApplications[i] = ApplicationWithId(applications[id], id)
         /\ \A id \in IdsIn(applications) : \E i \in DOMAIN ListApplications :
              ListApplications[i] = ApplicationWithId(applications[id], id)
<1> DEFINE S == IdsIn(applications)
           f == Ascending(S)
           n == Cardinality(S)
<1>1. /\ IsFiniteSet(S) /\ S \in SUBSET Int /\ S \in SUBSET Nat
      /\ \A id \in S : applications[id] \in Application
  BY ApplicationsAssumption DEF Table, IdsIn
<1>2. ListApplications = [k \in DOMAIN f |-> ApplicationWithId(applications[f[k]], f[k])]
  BY Zenon DEF ListApplications, Each
<1> HIDE DEF S
<1>3. /\ n \in Nat /\ f \in [1 .. n -> S]
      /\ \A x \in S : \E k \in 1 .. n : f[k] = x
  BY <1>1, AscendingNumbers
<1> HIDE DEF f
<1>4. ListApplications = [k \in 1 .. n |-> ApplicationWithId(applications[f[k]], f[k])]
  BY <1>2, <1>3
<1>5. \A id \in S : ApplicationWithId(applications[id], id) \in NumberedApplication
  BY <1>1, Numbered
<1>6. ListApplications \in [1 .. n -> NumberedApplication]
  BY <1>3, <1>4, <1>5
<1>7. ListApplications \in Seq(NumberedApplication) /\ DOMAIN ListApplications = 1 .. n
  BY <1>3, <1>6
<1> QED BY <1>3, <1>4, <1>7 DEF S

LEMMA SitesListed ==
  ASSUME sites \in Table(SiteIds, SiteRow)
  PROVE  /\ ListSites \in Seq(NumberedApplication)
         /\ \A i \in DOMAIN ListSites : ListSites[i].routes = <<>>
<1> DEFINE S == IdsIn(sites)
           f == Ascending(S)
           n == Cardinality(S)
<1>1. /\ IsFiniteSet(S) /\ S \in SUBSET Int /\ S \in SUBSET Nat
      /\ \A id \in S : sites[id] \in SiteRow
  BY ApplicationsAssumption DEF Table, IdsIn
<1>2. ListSites = [k \in DOMAIN f |-> ApplicationOfSite(sites[f[k]], f[k])]
  BY Zenon DEF ListSites, Each
<1> HIDE DEF S
<1>3. n \in Nat /\ f \in [1 .. n -> S]
  BY <1>1, AscendingNumbers
<1> HIDE DEF f
<1>4. ListSites = [k \in 1 .. n |-> ApplicationOfSite(sites[f[k]], f[k])]
  BY <1>2, <1>3
<1>5. \A id \in S : /\ ApplicationOfSite(sites[id], id) \in NumberedApplication
                    /\ ApplicationOfSite(sites[id], id).routes = <<>>
  BY <1>1, SiteStandsFor
<1>6. ListSites \in [1 .. n -> NumberedApplication]
  BY <1>3, <1>4, <1>5
<1>7. ListSites \in Seq(NumberedApplication) /\ DOMAIN ListSites = 1 .. n
  BY <1>3, <1>6
<1> QED BY <1>3, <1>4, <1>5, <1>7

\* No routes are valid routes.
LEMMA NoRoutes ==
  ASSUME NEW upstreams
  PROVE  ValidRoutes(<<>>, upstreams)
<1>1. Range(<<>>) = {}
  BY DEF Range
<1>2. Distinct(LAMBDA r : r.priority, <<>>)
  <2>1. Distinct(LAMBDA r : r.priority, <<>>) = IsInjective([i \in DOMAIN <<>> |-> <<>>[i].priority])
    BY Zenon DEF Distinct, Each
  <2>2. IsInjective([i \in DOMAIN <<>> |-> <<>>[i].priority])
    BY DEF IsInjective
  <2> QED BY <2>1, <2>2
<1> QED BY <1>1, <1>2, Zenon DEF ValidRoutes

\* The priorities of valid routes are different.
LEMMA RoutesApart ==
  ASSUME NEW routes, NEW upstreams, ValidRoutes(routes, upstreams)
  PROVE  \A i, j \in DOMAIN routes : routes[i].priority = routes[j].priority => i = j
<1>1. Distinct(LAMBDA r : r.priority, routes)
  BY Zenon DEF ValidRoutes
<1>2. IsInjective([i \in DOMAIN routes |-> routes[i].priority])
  BY <1>1, Zenon DEF Distinct, Each
<1> QED BY <1>2 DEF IsInjective

LEMMA ListedRoutes ==
  ASSUME TypeInv, StoredApplicationsValidate
  PROVE  /\ \A app \in Range(ListApplications) : ValidRoutes(app.routes, app.upstreams)
         /\ \A app \in Range(ListSites) : ValidRoutes(app.routes, app.upstreams)
<1>1. ASSUME NEW i \in DOMAIN ListApplications
      PROVE  ValidRoutes(ListApplications[i].routes, ListApplications[i].upstreams)
  <2>1. PICK id \in IdsIn(applications) :
          ListApplications[i] = ApplicationWithId(applications[id], id)
    BY ApplicationsListed DEF TypeInv
  <2>2. ValidRoutes(applications[id].routes, applications[id].upstreams)
    BY Zenon DEF StoredApplicationsValidate, ValidateApplication
  <2>3. /\ ListApplications[i].routes = applications[id].routes
        /\ ListApplications[i].upstreams = applications[id].upstreams
    BY <2>1 DEF ApplicationWithId
  <2> QED BY <2>2, <2>3
<1>2. ASSUME NEW i \in DOMAIN ListSites
      PROVE  ValidRoutes(ListSites[i].routes, ListSites[i].upstreams)
  BY SitesListed, NoRoutes DEF TypeInv
<1> QED BY <1>1, <1>2 DEF Range

-----------------------------------------------------------------------------
(***************************************************************************)
(* The servers of a list of applications, and the Gateway configuration    *)
(***************************************************************************)
On(list) == Chosen(list, {i \in DOMAIN list : list[i].enabled})
ServersOf(app) == [m \in DOMAIN On(app.listeners) |-> ListenerServer(app, On(app.listeners)[m])]
Names(hosts) == [i \in DOMAIN hosts |-> hosts[i].host]

LEMMA OnItems ==
  ASSUME NEW X, NEW list \in Seq(X)
  PROVE  /\ On(list) \in Seq(X) /\ Range(On(list)) = Enabled(list)
         /\ \E at \in [DOMAIN On(list) -> DOMAIN list] :
              /\ \A k \in DOMAIN On(list) : On(list)[k] = list[at[k]] /\ list[at[k]].enabled
              /\ \A j, k \in DOMAIN On(list) : at[j] = at[k] => j = k
<1> DEFINE I == {i \in DOMAIN list : list[i].enabled}
           at == Ascending(I)
<1>1. I \in SUBSET DOMAIN list
  OBVIOUS
<1>2. On(list) = Chosen(list, I)
  BY DEF On
<1> HIDE DEF I
<1>3. /\ On(list) \in Seq(X) /\ at \in [DOMAIN On(list) -> I]
      /\ \A k \in DOMAIN On(list) : On(list)[k] = list[at[k]]
      /\ \A j, k \in DOMAIN On(list) : at[j] = at[k] => j = k
      /\ Range(On(list)) = {list[i] : i \in I}
  BY <1>1, <1>2, ChosenItems
<1>4. {list[i] : i \in I} = Enabled(list)
  BY DEF Enabled, Range, I
<1>5. at \in [DOMAIN On(list) -> DOMAIN list]
  BY <1>1, <1>3
<1>6. \A k \in DOMAIN On(list) : list[at[k]].enabled
  BY <1>3 DEF I
<1> HIDE DEF at
<1> QED BY <1>3, <1>4, <1>5, <1>6

LEMMA ConfiguredServers ==
  ASSUME NEW apps
  PROVE  ListenerConfig(apps) = [k \in DOMAIN On(apps) |-> ServersOf(On(apps)[k])]
<1> DEFINE E == Kept(apps, LAMBDA app : app.enabled)
           L(a) == Kept(a.listeners, LAMBDA l : l.enabled)
           Served(a) == [on |-> L(a), app |-> a]
           ready == Each(Served, E)
           S(s) == Each(LAMBDA l : ListenerServer(s.app, l), s.on)
<1>1. E = On(apps)
  BY Zenon DEF Kept, On, Chosen
<1>2. \A a : L(a) = On(a.listeners)
  BY Zenon DEF Kept, On, Chosen
<1>3. ListenerConfig(apps) = Each(S, ready)
  BY Zenon DEF ListenerConfig
<1>4. Each(S, ready) = [k \in DOMAIN ready |-> S(ready[k])]
  BY Zenon DEF Each
<1>5. ready = [k \in DOMAIN E |-> Served(E[k])]
  BY Zenon DEF Each
<1>6. \A s : S(s) = [m \in DOMAIN s.on |-> ListenerServer(s.app, s.on[m])]
  BY Zenon DEF Each
<1> HIDE DEF E, L, S, ready
<1>7. \A k \in DOMAIN E : S(ready[k]) = ServersOf(E[k])
  <2>1. TAKE k \in DOMAIN E
  <2>2. ready[k].on = L(E[k]) /\ ready[k].app = E[k]
    BY <1>5
  <2>3. S(ready[k]) = [m \in DOMAIN L(E[k]) |-> ListenerServer(E[k], L(E[k])[m])]
    BY <1>6, <2>2
  <2> QED BY <1>2, <2>3 DEF ServersOf
<1>8. DOMAIN ready = DOMAIN E
  BY <1>5
<1>9. Each(S, ready) = [k \in DOMAIN E |-> ServersOf(E[k])]
  BY <1>4, <1>7, <1>8
<1> QED BY <1>1, <1>3, <1>9

LEMMA ConfiguredApplications ==
  ASSUME NEW apps
  PROVE  GatewayApplications(apps) = [k \in DOMAIN On(apps) |-> GatewayApplication(On(apps)[k])]
<1>1. Kept(apps, LAMBDA app : app.enabled) = On(apps)
  BY Zenon DEF Kept, On, Chosen
<1>2. GatewayApplications(apps) = Each(GatewayApplication, Kept(apps, LAMBDA app : app.enabled))
  BY Zenon DEF GatewayApplications
<1>3. Each(GatewayApplication, On(apps)) = [k \in DOMAIN On(apps) |-> GatewayApplication(On(apps)[k])]
  BY Zenon DEF Each
<1> QED BY <1>1, <1>2, <1>3, Zenon

LEMMA ConfiguredHosts ==
  ASSUME NEW app
  PROVE  /\ GatewayApplication(app).hosts = Names(app.hosts)
         /\ \A l : ListenerServer(app, l).names = Names(app.hosts)
<1>1. Each(LAMBDA h : h.host, app.hosts) = Names(app.hosts)
  BY Zenon DEF Each, Names
<1> QED BY <1>1 DEF GatewayApplication, ListenerServer

(***************************************************************************)
(* A configuration of typed applications renders the servers of them.      *)
(***************************************************************************)
LEMMA RenderedAgain ==
  ASSUME NEW apps \in Seq(NumberedApplication)
  PROVE  ListenerConfig(ApplicationsFromConfig(GatewayApplications(apps))) = ListenerConfig(apps)
<1> DEFINE E == On(apps)
           G == GatewayApplications(apps)
           Back(g) == [g EXCEPT !.hosts = [i \in DOMAIN @ |-> [host |-> @[i], primary |-> i = 1]],
                                !.routes = <<>>]
           R == ApplicationsFromConfig(G)
<1>1. /\ E \in Seq(NumberedApplication)
      /\ \A k \in DOMAIN E : E[k].enabled
  BY OnItems
<1>2. G = [k \in DOMAIN E |-> GatewayApplication(E[k])]
  BY ConfiguredApplications
<1>3. R = [k \in DOMAIN G |-> Back(G[k])]
  BY Zenon DEF ApplicationsFromConfig, Each
<1>4. ASSUME NEW app
      PROVE  LET b == Back(GatewayApplication(app)) IN
             /\ b.enabled = app.enabled /\ b.listeners = app.listeners /\ b.proxy = app.proxy
             /\ Names(b.hosts) = Names(app.hosts)
  <2>1. PICK names : names = Names(app.hosts)
    OBVIOUS
  <2>2. PICK g : g = GatewayApplication(app)
    OBVIOUS
  <2>3. g = [id |-> app.id, mode |-> app.mode, enabled |-> app.enabled, hosts |-> names,
             listeners |-> app.listeners, upstreams |-> app.upstreams,
             routes |-> ByPriority(app.routes), proxy |-> app.proxy]
    BY <2>1, <2>2, Zenon DEF GatewayApplication, Names, Each
  <2>4. PICK hosts : hosts = [i \in DOMAIN names |-> [host |-> names[i], primary |-> i = 1]]
    OBVIOUS
  <2>5. PICK b1 : b1 = [g EXCEPT !.hosts = hosts]
    OBVIOUS
  <2>6. g.hosts = names
    BY <2>3
  <2>7. Back(g) = [b1 EXCEPT !.routes = <<>>]
    BY <2>4, <2>5, <2>6
  <2>8. /\ b1.enabled = app.enabled /\ b1.listeners = app.listeners /\ b1.proxy = app.proxy
        /\ b1.hosts = hosts
    BY <2>3, <2>5
  <2>9. /\ Back(g).enabled = app.enabled /\ Back(g).listeners = app.listeners
        /\ Back(g).proxy = app.proxy /\ Back(g).hosts = hosts
    BY <2>3, <2>5, <2>7, <2>8
  <2>10. Names(hosts) = names
    <3>1. Names(hosts) = [i \in DOMAIN names |-> names[i]]
      BY <2>4 DEF Names
    <3>2. names = [i \in DOMAIN names |-> names[i]]
      BY <2>1 DEF Names
    <3> QED BY <3>1, <3>2
  <2> HIDE DEF Back
  <2> QED BY <2>1, <2>2, <2>9, <2>10
<1> HIDE DEF Back, E, G, R
<1>5. R = [k \in DOMAIN E |-> Back(GatewayApplication(E[k]))]
  BY <1>2, <1>3
<1>6. On(R) = R
  <2>1. \A k \in DOMAIN R : R[k].enabled
    BY <1>1, <1>4, <1>5
  <2>2. {k \in DOMAIN R : R[k].enabled} = DOMAIN R
    BY <2>1
  <2>3. R \in Seq({R[k] : k \in DOMAIN E})
    BY <1>1, <1>5
  <2> QED BY <2>2, <2>3, AllChosen DEF On
<1>7. \A k \in DOMAIN E : ServersOf(R[k]) = ServersOf(E[k])
  <2>1. TAKE k \in DOMAIN E
  <2>2. /\ R[k].listeners = E[k].listeners /\ R[k].proxy = E[k].proxy
        /\ Names(R[k].hosts) = Names(E[k].hosts)
    BY <1>4, <1>5
  <2>3. \A a, l : ListenerServer(a, l)
            = [port |-> l.port, ssl |-> l.protocol = "https",
               certificate |-> IF l.protocol = "https" THEN l.certificate ELSE NoCertificate,
               names |-> Names(a.hosts), proxy |-> Directives(a.proxy)]
    BY Zenon DEF ListenerServer, Names, Each
  <2>4. \A l : ListenerServer(R[k], l) = ListenerServer(E[k], l)
    BY <2>2, <2>3, Zenon
  <2> QED BY <2>2, <2>4, Zenon DEF ServersOf
<1>8. ListenerConfig(R) = [k \in DOMAIN R |-> ServersOf(R[k])]
  BY <1>6, ConfiguredServers
<1>9. ListenerConfig(apps) = [k \in DOMAIN E |-> ServersOf(E[k])]
  BY ConfiguredServers DEF E
<1>10. DOMAIN R = DOMAIN E
  BY <1>5
<1>11. ListenerConfig(R) = ListenerConfig(apps)
  BY <1>7, <1>8, <1>9, <1>10
<1> QED BY <1>11 DEF R, G

(***************************************************************************)
(* A list without issues: each enabled application is valid and listens,   *)
(* and no two have a key in common.                                        *)
(***************************************************************************)
LEMMA ReadyApplications ==
  ASSUME NEW apps \in Seq(NumberedApplication), NEW known, NEW scopes, NEW ports,
         ReadinessErrors(apps, known, scopes, ports) = {}
  PROVE  /\ \A i \in DOMAIN apps : apps[i].enabled =>
              Enabled(apps[i].listeners) # {} /\ ValidateApplication(apps[i], known)
         /\ \A i, j \in DOMAIN apps :
              apps[i].enabled /\ apps[j].enabled /\ i # j => Keys(apps[i]) \cap Keys(apps[j]) = {}
<1> DEFINE valid == {j \in DOMAIN apps : apps[j].enabled /\ ValidateApplication(apps[j], known)}
<1>1. \A i \in DOMAIN apps : apps[i].enabled => ApplicationIssues(apps, i, known, ports) = {}
  BY DEF ReadinessErrors
<1>2. ASSUME NEW i \in DOMAIN apps, apps[i].enabled
      PROVE  /\ Enabled(apps[i].listeners) # {} /\ i \in valid
             /\ \A j \in valid : j < i => Keys(apps[j]) \cap Keys(apps[i]) = {}
  <2>1. PICK a : a = Issue("no-enabled-listener", apps[i])
    OBVIOUS
  <2>2. PICK b : b = Issue("application-validation", apps[i])
    OBVIOUS
  <2>3. PICK c : c = Issue("listener-port-conflict", apps[i])
    OBVIOUS
  <2>4. ApplicationIssues(apps, i, known, ports) = {}
    BY <1>1, <1>2
  <2>5. /\ (IF Enabled(apps[i].listeners) = {} THEN {a} ELSE {}) = {}
        /\ ListenerIssues(apps, i, known, ports) = {}
    BY <2>1, <2>4 DEF ApplicationIssues
  <2>6. Enabled(apps[i].listeners) # {}
    BY <2>5
  <2>7. i \in valid
    <3>1. SUFFICES ASSUME i \notin valid PROVE FALSE
      OBVIOUS
    <3>2. ListenerIssues(apps, i, known, ports) = {b}
      BY <2>2, <3>1, Zenon DEF ListenerIssues
    <3> QED BY <2>5, <3>2
  <2>8. \A j \in valid : j < i => Keys(apps[j]) \cap Keys(apps[i]) = {}
    <3>1. SUFFICES ASSUME \E j \in valid : j < i /\ Keys(apps[j]) \cap Keys(apps[i]) # {}
                   PROVE  FALSE
      OBVIOUS
    <3>2. c \in ListenerIssues(apps, i, known, ports)
      BY <2>3, <2>7, <3>1 DEF ListenerIssues
    <3> QED BY <2>5, <3>2
  <2> QED BY <2>6, <2>7, <2>8
<1>3. ASSUME NEW i \in DOMAIN apps, NEW j \in DOMAIN apps, apps[i].enabled, apps[j].enabled, i # j
      PROVE  Keys(apps[i]) \cap Keys(apps[j]) = {}
  <2>1. i \in Int /\ j \in Int
    OBVIOUS
  <2>2. i \in valid /\ j \in valid
    BY <1>2, <1>3
  <2> HIDE DEF valid
  <2>3. CASE j < i
    <3>1. Keys(apps[j]) \cap Keys(apps[i]) = {}
      BY <1>2, <1>3, <2>2, <2>3
    <3> QED BY <3>1
  <2>4. CASE i < j
    BY <1>2, <1>3, <2>2, <2>4
  <2> QED BY <1>3, <2>1, <2>3, <2>4
<1> QED BY <1>2, <1>3

\* What ValidateApplication says of the listeners.
LEMMA ValidatedListeners ==
  ASSUME NEW app, NEW known, ValidateApplication(app, known)
  PROVE  /\ \A i, j \in DOMAIN app.listeners :
              app.listeners[i].port = app.listeners[j].port
                /\ app.listeners[i].protocol = app.listeners[j].protocol => i = j
         /\ \A l \in Range(app.listeners) :
              /\ l.port \in AllPorts /\ l.protocol \in {"http", "https"}
              /\ l.enabled /\ l.protocol = "https" => l.certificate \in known
<1>1. /\ Distinct(LAMBDA l : <<l.port, l.protocol>>, app.listeners)
      /\ \A l \in Range(app.listeners) :
              /\ l.port \in AllPorts /\ l.protocol \in {"http", "https"}
              /\ l.enabled /\ l.protocol = "https" => l.certificate \in known
  BY Zenon DEF ValidateApplication, ValidListeners
<1>2. IsInjective([i \in DOMAIN app.listeners |->
                     <<app.listeners[i].port, app.listeners[i].protocol>>])
  BY <1>1, Zenon DEF Distinct, Each
<1>3. ASSUME NEW i \in DOMAIN app.listeners, NEW j \in DOMAIN app.listeners,
             app.listeners[i].port = app.listeners[j].port,
             app.listeners[i].protocol = app.listeners[j].protocol
      PROVE  i = j
  BY <1>2, <1>3 DEF IsInjective
<1> QED BY <1>1, <1>3

\* An application that is valid stays so when its certificates are there.
LEMMA CertificatesKnown ==
  ASSUME NEW app, NEW known, ValidateApplication(app, known), NEW others,
         \A l \in Enabled(app.listeners) : l.certificate \in known => l.certificate \in others
  PROVE  ValidateApplication(app, others)
<1>1. \A l \in Range(app.listeners) :
        l.enabled /\ l.protocol = "https" => l.certificate \in others
  BY ValidatedListeners DEF Enabled
<1> QED BY <1>1, Zenon DEF ValidateApplication, ValidListeners

\* The check with all ports finds nothing that the check with some missed.
LEMMA ReadyForAllPorts ==
  ASSUME NEW apps \in Seq(NumberedApplication), NEW known, NEW scopes, NEW ports,
         ReadinessErrors(apps, known, scopes, ports) = {}
  PROVE  ReadinessErrors(apps, known, scopes, AllPorts) = {}
<1>1. DisabledReferenceIssues(apps, scopes) = {}
  BY DEF ReadinessErrors
<1>2. ASSUME NEW i \in DOMAIN apps, apps[i].enabled
      PROVE  ApplicationIssues(apps, i, known, AllPorts) = {}
  <2>1. ApplicationIssues(apps, i, known, ports) = {}
    BY <1>2 DEF ReadinessErrors
  <2>2. ListenerIssues(apps, i, known, ports) = {}
    BY <2>1 DEF ApplicationIssues
  <2>3. ValidateApplication(apps[i], known)
    BY <1>2, ReadyApplications
  <2>4. {l.port : l \in Enabled(apps[i].listeners)} \subseteq AllPorts
    BY <2>3, ValidatedListeners DEF Enabled
  <2>5. ListenerIssues(apps, i, known, AllPorts) = {}
    <3> DEFINE valid == {j \in DOMAIN apps : apps[j].enabled /\ ValidateApplication(apps[j], known)}
    <3>1. i \in valid
      BY <1>2, <2>3
    <3>2. PICK c : c = (IF \E j \in valid : j < i /\ Keys(apps[j]) \cap Keys(apps[i]) # {}
                        THEN {Issue("listener-port-conflict", apps[i])} ELSE {})
      OBVIOUS
    <3>3. c = {}
      BY <2>2, <3>1, <3>2 DEF ListenerIssues
    <3>4. ListenerIssues(apps, i, known, AllPorts) = c \cup {}
      BY <2>4, <3>1, <3>2, Zenon DEF ListenerIssues
    <3> QED BY <3>3, <3>4
  <2> QED BY <2>1, <2>5 DEF ApplicationIssues
<1> QED BY <1>1, <1>2 DEF ReadinessErrors

(***************************************************************************)
(* What is released of such a list                                         *)
(***************************************************************************)
ServesEveryHost(config, servers) ==
    /\ \A app \in Range(config) : \A h \in Range(app.hosts) :
          \E s \in Servers(servers) : h \in Range(s.names)
    /\ \A a, b \in DOMAIN servers :
       \A i \in DOMAIN servers[a], j \in DOMAIN servers[b] :
          LET s == servers[a][i] t == servers[b][j] IN
          <<a, i>> # <<b, j>> /\ s.port = t.port /\ s.ssl = t.ssl
             => Range(s.names) \cap Range(t.names) = {}

LEMMA EveryHostServed ==
  ASSUME NEW apps \in Seq(NumberedApplication), NEW known, NEW scopes, NEW ports,
         ReadinessErrors(apps, known, scopes, ports) = {}
  PROVE  ServesEveryHost(GatewayApplications(apps), ListenerConfig(apps))
<1> DEFINE E == On(apps)
           config == GatewayApplications(apps)
           servers == ListenerConfig(apps)
<1>1. PICK at \in [DOMAIN E -> DOMAIN apps] :
        /\ \A k \in DOMAIN E : E[k] = apps[at[k]] /\ apps[at[k]].enabled
        /\ \A j, k \in DOMAIN E : at[j] = at[k] => j = k
  BY OnItems
<1>2. /\ \A i \in DOMAIN apps : apps[i].enabled =>
           Enabled(apps[i].listeners) # {} /\ ValidateApplication(apps[i], known)
      /\ \A i, j \in DOMAIN apps :
           apps[i].enabled /\ apps[j].enabled /\ i # j => Keys(apps[i]) \cap Keys(apps[j]) = {}
  BY ReadyApplications
<1>3. ASSUME NEW k \in DOMAIN E
      PROVE  /\ E[k].listeners \in Seq(ApplicationListener)
             /\ Enabled(E[k].listeners) # {} /\ ValidateApplication(E[k], known)
  <2>1. apps[at[k]] \in NumberedApplication
    BY <1>1
  <2>2. \A a \in NumberedApplication : a.listeners \in Seq(ApplicationListener)
    BY DEF NumberedApplication
  <2> QED BY <1>1, <1>2, <2>1, <2>2
<1>4. config = [k \in DOMAIN E |-> GatewayApplication(E[k])]
  BY ConfiguredApplications
<1>5. servers = [k \in DOMAIN E |-> ServersOf(E[k])]
  BY ConfiguredServers
<1> HIDE DEF E, config, servers
<1>6. ASSUME NEW k \in DOMAIN E
      PROVE  /\ servers[k] = [m \in DOMAIN On(E[k].listeners) |->
                                ListenerServer(E[k], On(E[k].listeners)[m])]
             /\ \A m \in DOMAIN servers[k] : servers[k][m].names = Names(E[k].hosts)
  BY <1>5, ConfiguredHosts DEF ServersOf
<1>7. ASSUME NEW app \in Range(config), NEW h \in Range(app.hosts)
      PROVE  \E s \in Servers(servers) : h \in Range(s.names)
  <2>1. PICK k \in DOMAIN E : app = GatewayApplication(E[k])
    BY <1>4 DEF Range
  <2>2. app.hosts = Names(E[k].hosts)
    BY <2>1, ConfiguredHosts
  <2>3. Range(On(E[k].listeners)) # {}
    BY <1>3, OnItems
  <2>4. PICK m \in DOMAIN On(E[k].listeners) : TRUE
    BY <2>3 DEF Range
  <2>5. m \in DOMAIN servers[k] /\ servers[k][m].names = app.hosts
    BY <1>6, <2>2
  <2>6. servers[k][m] \in Servers(servers)
    BY <1>5, <2>5 DEF Servers, Range
  <2> QED BY <1>7, <2>5, <2>6
<1>8. ASSUME NEW a \in DOMAIN servers, NEW b \in DOMAIN servers,
             NEW i \in DOMAIN servers[a], NEW j \in DOMAIN servers[b],
             <<a, i>> # <<b, j>>, servers[a][i].port = servers[b][j].port,
             servers[a][i].ssl = servers[b][j].ssl
      PROVE  Range(servers[a][i].names) \cap Range(servers[b][j].names) = {}
  <2> DEFINE l == On(E[a].listeners)[i]
             m == On(E[b].listeners)[j]
  <2>1. a \in DOMAIN E /\ b \in DOMAIN E
    BY <1>5
  <2>2. /\ i \in DOMAIN On(E[a].listeners) /\ j \in DOMAIN On(E[b].listeners)
        /\ servers[a][i] = ListenerServer(E[a], l) /\ servers[b][j] = ListenerServer(E[b], m)
    BY <1>6, <2>1
  <2>3. l \in Enabled(E[a].listeners) /\ m \in Enabled(E[b].listeners)
    <3>1. Range(On(E[a].listeners)) = Enabled(E[a].listeners)
          /\ Range(On(E[b].listeners)) = Enabled(E[b].listeners)
      BY <1>3, <2>1, OnItems
    <3> QED BY <2>2, <3>1 DEF Range
  <2>4. /\ l.port = m.port /\ (l.protocol = "https" <=> m.protocol = "https")
        /\ l.protocol \in {"http", "https"} /\ m.protocol \in {"http", "https"}
    <3>1. l.protocol \in {"http", "https"} /\ m.protocol \in {"http", "https"}
      BY <1>3, <2>1, <2>3, ValidatedListeners DEF Enabled
    <3> HIDE DEF l, m
    <3>2. /\ servers[a][i].port = l.port /\ servers[b][j].port = m.port
          /\ servers[a][i].ssl = (l.protocol = "https") /\ servers[b][j].ssl = (m.protocol = "https")
      BY <2>2 DEF ListenerServer
    <3> QED BY <1>8, <3>1, <3>2
  <2>5. l.protocol = m.protocol
    BY <2>4
  <2>6. CASE a # b
    <3>1. /\ at[a] # at[b] /\ at[a] \in DOMAIN apps /\ at[b] \in DOMAIN apps
          /\ E[a] = apps[at[a]] /\ E[b] = apps[at[b]]
      BY <1>1, <2>1, <2>6
    <3>2. Keys(E[a]) \cap Keys(E[b]) = {}
      BY <1>1, <1>2, <2>1, <3>1
    <3>3. ASSUME NEW x \in Range(servers[a][i].names), x \in Range(servers[b][j].names)
          PROVE  FALSE
      <4>1. x \in Range(Names(E[a].hosts)) /\ x \in Range(Names(E[b].hosts))
        BY <1>6, <2>1, <3>3
      <4>2. PICK g \in Range(E[a].hosts) : g.host = x
        BY <4>1 DEF Names, Range
      <4>3. PICK h \in Range(E[b].hosts) : h.host = x
        BY <4>1 DEF Names, Range
      <4> HIDE DEF l, m
      <4>4. <<g.host, l.port, l.protocol>> \in Keys(E[a])
        BY <2>3, <4>2 DEF Keys
      <4>5. <<h.host, m.port, m.protocol>> \in Keys(E[b])
        BY <2>3, <4>3 DEF Keys
      <4> QED BY <2>4, <2>5, <3>2, <4>2, <4>3, <4>4, <4>5
    <3> QED BY <3>3
  <2>7. CASE a = b
    <3>1. i # j
      BY <1>8, <2>7
    <3>2. PICK place \in [DOMAIN On(E[a].listeners) -> DOMAIN E[a].listeners] :
            /\ \A k \in DOMAIN On(E[a].listeners) : On(E[a].listeners)[k] = E[a].listeners[place[k]]
            /\ \A k, n \in DOMAIN On(E[a].listeners) : place[k] = place[n] => k = n
      <4>1. E[a].listeners \in Seq(ApplicationListener)
        BY <1>3, <2>1
      <4>2. PICK list : list = E[a].listeners
        OBVIOUS
      <4>3. list \in Seq(ApplicationListener)
        BY <4>1, <4>2
      <4>4. \E place \in [DOMAIN On(list) -> DOMAIN list] :
              /\ \A k \in DOMAIN On(list) : On(list)[k] = list[place[k]] /\ list[place[k]].enabled
              /\ \A k, n \in DOMAIN On(list) : place[k] = place[n] => k = n
        BY <4>3, OnItems
      <4> QED BY <4>2, <4>4
    <3>3. place[i] # place[j] /\ place[i] \in DOMAIN E[a].listeners /\ place[j] \in DOMAIN E[a].listeners
      BY <2>2, <2>7, <3>1, <3>2
    <3>4. l = E[a].listeners[place[i]] /\ m = E[a].listeners[place[j]]
      BY <2>2, <2>7, <3>2
    <3> HIDE DEF l, m
    <3>5. ValidateApplication(E[a], known)
      BY <1>3, <2>1
    <3> QED BY <2>4, <2>5, <3>3, <3>4, <3>5, ValidatedListeners
  <2> QED BY <2>6, <2>7
<1> QED BY <1>7, <1>8, Zenon DEF ServesEveryHost, config, servers

LEMMA CertificatesThere ==
  ASSUME NEW apps \in Seq(NumberedApplication), NEW known, NEW scopes, NEW ports,
         ReadinessErrors(apps, known, scopes, ports) = {}
  PROVE  UsedCertificates(apps) \subseteq known
<1> DEFINE E == On(apps)
           servers == ListenerConfig(apps)
<1>1. PICK at \in [DOMAIN E -> DOMAIN apps] :
        \A k \in DOMAIN E : E[k] = apps[at[k]] /\ apps[at[k]].enabled
  BY OnItems
<1>2. servers = [k \in DOMAIN E |-> ServersOf(E[k])]
  BY ConfiguredServers
<1> HIDE DEF E, servers
<1>3. SUFFICES ASSUME NEW s \in Servers(servers), s.ssl PROVE s.certificate \in known
  BY DEF UsedCertificates, servers
<1>4. PICK k \in DOMAIN E : s \in Range(ServersOf(E[k]))
  BY <1>2 DEF Servers
<1>5. PICK m \in DOMAIN On(E[k].listeners) : s = ListenerServer(E[k], On(E[k].listeners)[m])
  BY <1>4 DEF ServersOf, Range
<1>6. PICK l : l = On(E[k].listeners)[m]
  OBVIOUS
<1>7. E[k] \in NumberedApplication /\ ValidateApplication(E[k], known)
  <2>1. apps[at[k]] \in NumberedApplication
    BY <1>1
  <2>2. ValidateApplication(apps[at[k]], known)
    BY <1>1, ReadyApplications
  <2> QED BY <1>1, <2>1, <2>2
<1>8. l \in Enabled(E[k].listeners)
  <2>1. E[k].listeners \in Seq(ApplicationListener)
    BY <1>7 DEF NumberedApplication
  <2>2. Range(On(E[k].listeners)) = Enabled(E[k].listeners)
    BY <2>1, OnItems
  <2> QED BY <1>5, <1>6, <2>2 DEF Range
<1>9. s.ssl = (l.protocol = "https") /\ s.certificate = IF l.protocol = "https" THEN l.certificate
                                                        ELSE NoCertificate
  BY <1>5, <1>6 DEF ListenerServer
<1>10. l.enabled /\ l.protocol = "https" /\ s.certificate = l.certificate
  BY <1>3, <1>8, <1>9 DEF Enabled
<1> QED BY <1>7, <1>8, <1>10, ValidatedListeners DEF Enabled

LEMMA RoutesReleased ==
  ASSUME NEW apps \in Seq(NumberedApplication),
         \A a \in Range(apps) : ValidRoutes(a.routes, a.upstreams)
  PROVE  \A app \in Range(GatewayApplications(apps)) :
            /\ \A r \in Enabled(app.routes) : \E u \in Enabled(app.upstreams) : u.name = r.upstream
            /\ \A i, j \in DOMAIN app.routes : i < j => app.routes[i].priority < app.routes[j].priority
<1>1. TAKE app \in Range(GatewayApplications(apps))
<1>2. PICK k \in DOMAIN On(apps) : app = GatewayApplication(On(apps)[k])
  BY ConfiguredApplications DEF Range
<1>3. PICK a : a = On(apps)[k]
  OBVIOUS
<1>4. a \in NumberedApplication /\ ValidRoutes(a.routes, a.upstreams)
  <2>1. PICK i \in DOMAIN apps : a = apps[i]
    BY <1>3, OnItems
  <2> QED BY <2>1 DEF Range
<1>5. app.routes = ByPriority(a.routes) /\ app.upstreams = a.upstreams
  BY <1>2, <1>3 DEF GatewayApplication
<1>6. a.routes \in Seq(ApplicationRoute)
  BY <1>4 DEF NumberedApplication
<1>7. ASSUME NEW r \in Enabled(app.routes)
      PROVE  \E u \in Enabled(app.upstreams) : u.name = r.upstream
  <2>1. r \in Range(a.routes) /\ r.enabled
    BY <1>5, <1>6, RoutesInOrder DEF Enabled
  <2>2. ValidRoute(r, a.upstreams)
    BY <1>4, <2>1, Zenon DEF ValidRoutes
  <2> QED BY <1>5, <2>1, <2>2 DEF ValidRoute, Enabled
<1>8. \A i, j \in DOMAIN app.routes : i < j => app.routes[i].priority < app.routes[j].priority
  <2>1. \A i, j \in DOMAIN a.routes : a.routes[i].priority = a.routes[j].priority => i = j
    BY <1>4, RoutesApart, Zenon
  <2> QED BY <1>5, <1>6, <2>1, RoutesInOrder
<1> QED BY <1>7, <1>8

-----------------------------------------------------------------------------
(***************************************************************************)
(* Steps: what an edit and what a release leave of the invariant           *)
(***************************************************************************)
LEMMA TableEdited ==
  ASSUME NEW ids, NEW Row, NEW table \in Table(ids, Row), NEW id, NEW row \in Row \cup {None}
  PROVE  LET edited == [table EXCEPT ![id] = row] IN
         /\ edited \in Table(ids, Row)
         /\ \A i \in IdsIn(edited) : \/ i \in IdsIn(table) /\ edited[i] = table[i]
                                     \/ i = id /\ edited[i] = row
<1> DEFINE edited == [table EXCEPT ![id] = row]
<1>1. edited \in [ids -> Row \cup {None}]
  BY DEF Table
<1>2. \A i \in IdsIn(edited) : \/ i \in IdsIn(table) /\ edited[i] = table[i]
                               \/ i = id /\ edited[i] = row
  BY DEF IdsIn, Table
<1>3. IsFiniteSet(IdsIn(edited))
  <2>1. IsFiniteSet(IdsIn(table))
    BY DEF Table
  <2>2. IsFiniteSet(IdsIn(table) \cup {id})
    BY <2>1, FS_AddElement
  <2>3. IdsIn(edited) \in SUBSET (IdsIn(table) \cup {id})
    BY <1>2
  <2> QED BY <2>2, <2>3, FS_Subset
<1> QED BY <1>1, <1>2, <1>3 DEF Table

Outputs ==
  /\ ReleasedRoutesReachUpstreams /\ AccessIndexAgreesWithList
  /\ QuietReleasesServeEveryHost /\ RollbackRendersTheSame
ReleaseTyped ==
  /\ release \in ReleaseRow \cup {None}
  /\ release # None => release.read \in Rows .. Len(Parts) * Len(release.list)

LEMMA ServedByConfig ==
  /\ QuietReleasesServeEveryHost
       <=> (nginx.quiet => ServesEveryHost(nginx.config, nginx.servers))
  /\ QuietReleasesServeEveryHost'
       <=> (nginx'.quiet => ServesEveryHost(nginx'.config, nginx'.servers))
<1>1. QuietReleasesServeEveryHost
        <=> (nginx.quiet => ServesEveryHost(nginx.config, nginx.servers))
  BY Zenon DEF QuietReleasesServeEveryHost, ServesEveryHost
<1>2. QuietReleasesServeEveryHost'
        <=> (nginx'.quiet => ServesEveryHost(nginx'.config, nginx'.servers))
  BY Zenon DEF QuietReleasesServeEveryHost, ServesEveryHost
<1> QED BY <1>1, <1>2

LEMMA OutputsKept ==
  ASSUME Outputs, UNCHANGED <<gateway, nginx>>
  PROVE  Outputs'
<1>1. gateway' = gateway /\ nginx' = nginx
  OBVIOUS
<1>2. ReleasedRoutesReachUpstreams'
  BY <1>1, Zenon DEF Outputs, ReleasedRoutesReachUpstreams
<1>3. AccessIndexAgreesWithList'
  BY <1>1, Zenon DEF Outputs, AccessIndexAgreesWithList
<1>4. QuietReleasesServeEveryHost'
  BY <1>1, ServedByConfig DEF Outputs
<1>5. RollbackRendersTheSame'
  BY <1>1, Zenon DEF Outputs, RollbackRendersTheSame
<1> QED BY <1>2, <1>3, <1>4, <1>5 DEF Outputs

LEMMA StoreKept ==
  ASSUME UNCHANGED <<backend, store>>
  PROVE  /\ ListApplications' = ListApplications /\ ListSites' = ListSites
         /\ Current' = Current /\ Scopes' = Scopes
         /\ \A n : ReadUpTo(n)' = ReadUpTo(n)
         /\ StoredApplicationsValidate => StoredApplicationsValidate'
<1>1. /\ applications' = applications /\ sites' = sites /\ entries' = entries
      /\ certificates' = certificates /\ backend' = backend
  BY DEF store
<1>2. ListApplications' = ListApplications
  BY <1>1, Zenon DEF ListApplications, Each
<1>3. ListSites' = ListSites
  BY <1>1, Zenon DEF ListSites, Each
<1>4. Current' = Current
  BY <1>1, <1>2, <1>3 DEF Current
<1>5. Scopes' = Scopes
  BY <1>1 DEF Scopes
<1>6. \A n : ReadUpTo(n)' = ReadUpTo(n)
  BY <1>2 DEF ReadUpTo
<1>7. StoredApplicationsValidate => StoredApplicationsValidate'
  BY <1>1 DEF StoredApplicationsValidate
<1> QED BY <1>2, <1>3, <1>4, <1>5, <1>6, <1>7

LEMMA ReleaseKept ==
  ASSUME ReleaseTyped, WholeReading, QuietRelease, UNCHANGED <<backend, store, release, gateway>>
  PROVE  ReleaseTyped' /\ WholeReading' /\ QuietRelease'
<1>1. /\ applications' = applications /\ sites' = sites /\ entries' = entries
      /\ certificates' = certificates /\ backend' = backend /\ release' = release
      /\ gateway' = gateway
  BY DEF store
<1>2. Current' = Current /\ Scopes' = Scopes /\ \A n : ReadUpTo(n)' = ReadUpTo(n)
  BY StoreKept
<1>3. ReleaseTyped'
  BY <1>1 DEF ReleaseTyped
<1>4. WholeReading'
  BY <1>1, <1>2 DEF WholeReading, Amid, Listed, Read
<1>5. QuietRelease'
  BY <1>1, <1>2 DEF QuietRelease, Listed, Read, Ready
<1> QED BY <1>3, <1>4, <1>5

\* After an edit a release is not quiet, and no reading under way is whole.
LEMMA Disturbed ==
  ASSUME ReleaseTyped, WholeReading, Disturb
  PROVE  ReleaseTyped' /\ WholeReading' /\ QuietRelease'
<1>1. CASE release = None
  BY <1>1 DEF Disturb, ReleaseTyped, WholeReading, QuietRelease
<1>2. CASE release # None
  <2>1. release \in ReleaseRow
    BY <1>2 DEF ReleaseTyped
  <2>2. PICK whole : whole = (release.whole /\ (release.read < 0 \/ Read(release)))
    OBVIOUS
  <2>3. release' = [release EXCEPT !.quiet = FALSE, !.whole = whole]
    BY <1>2, <2>1, <2>2 DEF Disturb, ReleaseRow
  <2>4. /\ release' \in ReleaseRow /\ release'.quiet = FALSE /\ release'.whole = whole
        /\ release'.list = release.list /\ release'.read = release.read
    BY <2>1, <2>2, <2>3 DEF ReleaseRow
  <2>5. ReleaseTyped'
    BY <1>2, <2>4 DEF ReleaseTyped
  <2>6. WholeReading'
    <3>1. SUFFICES ASSUME whole PROVE ~Amid' /\ (Listed' => Listed)
      BY <1>2, <2>2, <2>4 DEF WholeReading, Listed, Read
    <3>2. release'.read < 0 \/ Read(release')
      BY <2>2, <2>4, <3>1 DEF Read
    <3>3. release'.read \in Int
      BY <2>4 DEF ReleaseRow
    <3> QED BY <2>4, <3>2, <3>3 DEF Amid, Listed, Read
  <2>7. QuietRelease'
    BY <2>4 DEF QuietRelease
  <2> QED BY <2>5, <2>6, <2>7
<1> QED BY <1>1, <1>2

\* A step starts with nothing read.
LEMMA StepStarts ==
  ASSUME NEW step \in Steps, NEW quiet \in BOOLEAN, release' = StepTo(step, quiet),
         quiet /\ step # "readiness" => Ready(Current)',
         quiet /\ step = "artifacts" => (gateway.applications = GatewayApplications(Current))'
  PROVE  ReleaseTyped' /\ WholeReading' /\ QuietRelease'
<1>1. /\ release' = [step |-> step, quiet |-> quiet, list |-> <<>>, read |-> -2, whole |-> TRUE]
  BY DEF StepTo, Rows
<1>2. release' \in ReleaseRow
  BY <1>1 DEF ReleaseRow
<1>3. ReleaseTyped'
  BY <1>1, <1>2 DEF ReleaseTyped, Rows, Parts
<1>4. WholeReading'
  BY <1>1 DEF WholeReading, Amid, Listed
<1>5. QuietRelease'
  BY <1>1 DEF QuietRelease, Listed, Fallback
<1> QED BY <1>3, <1>4, <1>5

-----------------------------------------------------------------------------
(***************************************************************************)
(* Edits                                                                   *)
(***************************************************************************)
Tables ==
  /\ applications \in Table(ApplicationIds, Application) /\ sites \in Table(SiteIds, SiteRow)
  /\ entries \in Table(EntryIds, IPAccessListEntry) /\ certificates \in SUBSET CertificateIds

LEMMA InvariantParts ==
  IInv <=> /\ backend \in Backends /\ Tables /\ ReleaseTyped /\ StoredApplicationsValidate
           /\ RequestsInv /\ WholeReading /\ QuietRelease /\ Outputs
BY DEF IInv, TypeInv, Tables, ReleaseTyped, Outputs

LEMMA EditKeeps ==
  ASSUME IInv, Disturb, UnchangedByEdits, Tables', StoredApplicationsValidate', RequestsInv'
  PROVE  IInv'
<1>1. ReleaseTyped /\ WholeReading /\ Outputs /\ backend \in Backends
  BY InvariantParts
<1>2. ReleaseTyped' /\ WholeReading' /\ QuietRelease'
  BY <1>1, Disturbed
<1>3. Outputs'
  BY <1>1, OutputsKept DEF UnchangedByEdits
<1>4. backend' \in Backends
  BY <1>1 DEF UnchangedByEdits
<1> QED BY <1>2, <1>3, <1>4 DEF IInv, TypeInv, Tables, ReleaseTyped, Outputs

\* A request past its checks changes nothing yet.
LEMMA RequestWaits ==
  ASSUME IInv, UNCHANGED <<store, release>>, UnchangedByEdits, RequestsInv'
  PROVE  IInv'
<1>1. /\ ReleaseTyped /\ WholeReading /\ QuietRelease /\ Outputs /\ backend \in Backends /\ Tables
      /\ StoredApplicationsValidate
  BY InvariantParts
<1>2. UNCHANGED <<backend, gateway, nginx>>
  BY DEF UnchangedByEdits
<1>3. ReleaseTyped' /\ WholeReading' /\ QuietRelease'
  BY <1>1, <1>2, ReleaseKept
<1>4. Outputs'
  BY <1>1, <1>2, OutputsKept
<1>5. StoredApplicationsValidate'
  BY <1>1, <1>2, StoreKept
<1>6. backend' \in Backends /\ Tables'
  BY <1>1, <1>2 DEF Tables, store
<1> QED BY <1>3, <1>4, <1>5, <1>6 DEF IInv, TypeInv, Tables, ReleaseTyped, Outputs

Known == IF backend = "memory" THEN certificates ELSE CertificateIds

LEMMA StoredAre ==
  /\ StoredApplicationsValidate <=> \A id \in IdsIn(applications) : Sound(applications[id], Known)
  /\ StoredApplicationsValidate'
       <=> \A id \in IdsIn(applications') : Sound(applications'[id], Known')
BY Zenon DEF StoredApplicationsValidate, Sound, Known

\* Sound stays sound when no certificate of its listeners is dropped.
LEMMA SoundStays ==
  ASSUME NEW app, NEW known, Sound(app, known), NEW others,
         \A l \in Enabled(app.listeners) : l.certificate \in known => l.certificate \in others
  PROVE  Sound(app, others)
BY CertificatesKnown DEF Sound

LEMMA PutKeeps ==
  ASSUME IInv, NEW id \in ApplicationIds, NEW app \in Application, Sound(app, Known), Put(id, app),
         RequestsInv'
  PROVE  IInv'
<1>1. /\ applications' = [applications EXCEPT ![id] = app] /\ Disturb /\ UnchangedByEdits
      /\ UNCHANGED <<sites, entries, certificates>> /\ backend' = backend
  BY DEF Put, UnchangedByEdits
<1>2. Tables /\ StoredApplicationsValidate
  BY InvariantParts
<1>3. /\ applications' \in Table(ApplicationIds, Application)
      /\ \A i \in IdsIn(applications') : \/ i \in IdsIn(applications) /\ applications'[i] = applications[i]
                                         \/ i = id /\ applications'[i] = app
  <2>1. applications \in Table(ApplicationIds, Application)
    BY <1>2 DEF Tables
  <2>2. applications' \in Table(ApplicationIds, Application)
    BY <1>1, <2>1, TableEdited
  <2>3. \A i \in IdsIn(applications') : \/ i \in IdsIn(applications) /\ applications'[i] = applications[i]
                                        \/ i = id /\ applications'[i] = app
    BY <1>1, <2>1 DEF IdsIn, Table
  <2> QED BY <2>2, <2>3
<1>4. Tables'
  BY <1>1, <1>2, <1>3 DEF Tables
<1>5. Known' = Known
  BY <1>1 DEF Known
<1>6. StoredApplicationsValidate'
  BY <1>2, <1>3, <1>5, StoredAre
<1> QED BY <1>1, <1>4, <1>6, EditKeeps

LEMMA KnownThere ==
  ASSUME IInv
  PROVE  Known \subseteq CertificateIds /\ certificates \subseteq CertificateIds
         /\ certificates \subseteq Known
BY InvariantParts DEF Tables, Known

LEMMA SaveApplicationKeeps ==
  ASSUME IInv, NEW id \in ApplicationIds, SaveApplication(id)
  PROVE  IInv'
<1>1. PICK body \in ApplicationBodies :
        LET app == NormalizeApplication(body) IN
        /\ ValidateApplication(app, certificates)
        /\ IF backend = "memory" THEN Put(id, app) /\ UNCHANGED <<saving, deleting>>
           ELSE /\ saving = None /\ saving' = [id |-> id, app |-> app]
                /\ UNCHANGED <<store, deleting, release>> /\ UnchangedByEdits
  BY Zenon DEF SaveApplication
<1>2. PICK app : app = NormalizeApplication(body)
  OBVIOUS
<1>3. app \in Application /\ Sound(app, certificates)
  BY <1>1, <1>2, NormalApplication, ApplicationsAssumption DEF Sound
<1>4. RequestsInv
  BY InvariantParts
<1>5. CASE backend = "memory"
  <2>1. Put(id, app) /\ UNCHANGED <<saving, deleting>>
    BY <1>1, <1>2, <1>5
  <2>2. Sound(app, Known)
    BY <1>3, <1>5 DEF Known
  <2>3. RequestsInv'
    BY <1>4, <2>1 DEF RequestsInv, Put, UnchangedByEdits
  <2> QED BY <1>3, <2>1, <2>2, <2>3, PutKeeps
<1>6. CASE backend # "memory"
  <2>1. saving' = [id |-> id, app |-> app] /\ UNCHANGED <<store, deleting, release>> /\ UnchangedByEdits
    BY <1>1, <1>2, <1>6
  <2>2. Sound(app, CertificateIds)
    BY <1>3, KnownThere, SoundStays
  <2>3. RequestsInv'
    BY <1>3, <1>4, <1>6, <2>1, <2>2 DEF RequestsInv, UnchangedByEdits
  <2> QED BY <2>1, <2>3, RequestWaits
<1> QED BY <1>5, <1>6

LEMMA CommitApplicationKeeps ==
  ASSUME IInv, CommitApplication
  PROVE  IInv'
<1>1. /\ backend # "memory" /\ saving.id \in ApplicationIds /\ saving.app \in Application
      /\ Sound(saving.app, CertificateIds) /\ (deleting # None => backend # "memory")
  BY InvariantParts DEF CommitApplication, RequestsInv
<1>2. saving' = None /\ deleting' = deleting
  BY DEF CommitApplication
<1>3. \/ Put(saving.id, saving.app)
      \/ UNCHANGED <<store, release>> /\ UnchangedByEdits
  BY DEF CommitApplication
<1>4. RequestsInv'
  BY <1>1, <1>2, <1>3 DEF RequestsInv, Put, UnchangedByEdits
<1>5. CASE Put(saving.id, saving.app)
  BY <1>1, <1>4, <1>5, PutKeeps DEF Known
<1>6. CASE UNCHANGED <<store, release>> /\ UnchangedByEdits
  BY <1>4, <1>6, RequestWaits
<1> QED BY <1>3, <1>5, <1>6

LEMMA DeleteApplicationKeeps ==
  ASSUME IInv, NEW id \in ApplicationIds, DeleteApplication(id)
  PROVE  IInv'
<1>1. /\ applications' = [applications EXCEPT ![id] = None] /\ Disturb /\ UnchangedByEdits
      /\ UNCHANGED <<sites, entries, certificates, saving, deleting>> /\ backend' = backend
  BY DEF DeleteApplication, UnchangedByEdits
<1>2. Tables /\ StoredApplicationsValidate /\ RequestsInv
  BY InvariantParts
<1>3. /\ applications' \in Table(ApplicationIds, Application)
      /\ \A i \in IdsIn(applications') : \/ i \in IdsIn(applications) /\ applications'[i] = applications[i]
                                         \/ i = id /\ applications'[i] = None
  <2>1. applications \in Table(ApplicationIds, Application) /\ None \in Application \cup {None}
    BY <1>2 DEF Tables
  <2>2. LET edited == [applications EXCEPT ![id] = None] IN
        /\ edited \in Table(ApplicationIds, Application)
        /\ \A i \in IdsIn(edited) : \/ i \in IdsIn(applications) /\ edited[i] = applications[i]
                                    \/ i = id /\ edited[i] = None
    BY <2>1, TableEdited, Zenon
  <2> QED BY <1>1, <2>2, Zenon
<1>4. \A i \in IdsIn(applications') : i \in IdsIn(applications) /\ applications'[i] = applications[i]
  BY <1>3 DEF IdsIn
<1>5. Tables'
  BY <1>1, <1>2, <1>3 DEF Tables
<1>6. Known' = Known
  BY <1>1 DEF Known
<1>7. StoredApplicationsValidate'
  BY <1>2, <1>4, <1>6, StoredAre
<1>8. RequestsInv'
  BY <1>1, <1>2 DEF RequestsInv
<1> QED BY <1>1, <1>5, <1>7, <1>8, EditKeeps

LEMMA CreateCertificateKeeps ==
  ASSUME IInv, CreateCertificate
  PROVE  IInv'
<1>1. /\ certificates' = certificates \cup {next.certificate} /\ next.certificate \in CertificateIds
      /\ UNCHANGED <<applications, sites, entries, saving, deleting>> /\ backend' = backend
      /\ Disturb /\ UnchangedByEdits
  BY DEF CreateCertificate, UnchangedByEdits
<1>2. Tables /\ StoredApplicationsValidate /\ RequestsInv
  BY InvariantParts
<1>3. Tables'
  BY <1>1, <1>2 DEF Tables
<1>4. Known \subseteq Known'
  BY <1>1 DEF Known
<1>5. StoredApplicationsValidate'
  <2>1. \A id \in IdsIn(applications) : Sound(applications[id], Known)
    BY <1>2, StoredAre
  <2>2. \A id \in IdsIn(applications) : Sound(applications[id], Known')
    BY <1>4, <2>1, SoundStays
  <2> QED BY <1>1, <2>2, StoredAre
<1>6. RequestsInv'
  BY <1>1, <1>2 DEF RequestsInv
<1> QED BY <1>1, <1>3, <1>5, <1>6, EditKeeps

\* In memory only a certificate that no listener uses is dropped.
LEMMA DropKeeps ==
  ASSUME IInv, NEW c, Drop(c), backend # "memory" \/ ~CertificateInUse(c), RequestsInv'
  PROVE  IInv'
<1>1. /\ certificates' = certificates \ {c} /\ UNCHANGED <<applications, sites, entries>>
      /\ backend' = backend /\ Disturb /\ UnchangedByEdits
  BY DEF Drop, UnchangedByEdits
<1>2. Tables /\ StoredApplicationsValidate
  BY InvariantParts
<1>3. Tables'
  BY <1>1, <1>2 DEF Tables
<1>4. StoredApplicationsValidate'
  <2>1. \A id \in IdsIn(applications) : Sound(applications[id], Known)
    BY <1>2, StoredAre
  <2>2. ASSUME NEW id \in IdsIn(applications), NEW l \in Enabled(applications[id].listeners),
               l.certificate \in Known
        PROVE  l.certificate \in Known'
    BY <1>1, <2>2 DEF Known, CertificateInUse
  <2>3. \A id \in IdsIn(applications) : Sound(applications[id], Known')
    BY <2>1, <2>2, SoundStays
  <2> QED BY <1>1, <2>3, StoredAre
<1> QED BY <1>1, <1>3, <1>4, EditKeeps

LEMMA DeleteCertificateKeeps ==
  ASSUME IInv, NEW c \in CertificateIds, DeleteCertificate(c)
  PROVE  IInv'
<1>1. RequestsInv
  BY InvariantParts
<1>2. CASE backend = "memory"
  <2>1. Drop(c) /\ UNCHANGED <<saving, deleting>> /\ ~CertificateInUse(c)
    BY <1>2 DEF DeleteCertificate
  <2>2. RequestsInv'
    BY <1>1, <2>1 DEF RequestsInv, Drop, UnchangedByEdits
  <2> QED BY <2>1, <2>2, DropKeeps
<1>3. CASE backend # "memory"
  <2>1. UNCHANGED <<store, saving, release>> /\ UnchangedByEdits
    BY <1>3 DEF DeleteCertificate
  <2>2. RequestsInv'
    BY <1>1, <1>3, <2>1 DEF RequestsInv, UnchangedByEdits
  <2> QED BY <2>1, <2>2, RequestWaits
<1> QED BY <1>2, <1>3

LEMMA CommitCertificateDeletionKeeps ==
  ASSUME IInv, CommitCertificateDeletion
  PROVE  IInv'
<1>1. RequestsInv /\ backend # "memory"
  BY InvariantParts DEF RequestsInv, CommitCertificateDeletion
<1>2. Drop(deleting) /\ saving' = saving /\ deleting' = None
  BY DEF CommitCertificateDeletion
<1>3. RequestsInv'
  BY <1>1, <1>2 DEF RequestsInv, Drop, UnchangedByEdits
<1> QED BY <1>1, <1>2, <1>3, DropKeeps

LEMMA SitesKeep ==
  ASSUME IInv, NEW id \in SiteIds, SaveSite(id) \/ DeleteSite(id)
  PROVE  IInv'
<1>1. PICK row \in SiteRow \cup {None} : EditSites(id, row)
  <2>1. CASE SaveSite(id)
    <3>1. PICK body \in SiteBodies : EditSites(id, NormalizeSite(body))
      BY <2>1 DEF SaveSite
    <3>2. NormalizeSite(body) \in SiteRow
      BY ApplicationsAssumption, SiteNormalised
    <3> QED BY <3>1, <3>2
  <2>2. CASE DeleteSite(id)
    BY <2>2 DEF DeleteSite
  <2> QED BY <2>1, <2>2
<1>2. /\ sites' = [sites EXCEPT ![id] = row] /\ Disturb /\ UnchangedByEdits
      /\ UNCHANGED <<applications, entries, certificates, saving, deleting>> /\ backend' = backend
  BY <1>1 DEF EditSites, UnchangedByEdits
<1>3. Tables /\ StoredApplicationsValidate /\ RequestsInv
  BY InvariantParts
<1>4. Tables'
  <2>1. sites' \in Table(SiteIds, SiteRow)
    BY <1>2, <1>3, TableEdited DEF Tables
  <2> QED BY <1>2, <1>3, <2>1 DEF Tables
<1>5. StoredApplicationsValidate' /\ RequestsInv'
  BY <1>2, <1>3 DEF StoredApplicationsValidate, RequestsInv
<1> QED BY <1>2, <1>4, <1>5, EditKeeps

LEMMA EntriesKeep ==
  ASSUME IInv, NEW id \in EntryIds, SaveEntry(id) \/ DeleteEntry(id)
  PROVE  IInv'
<1>1. PICK row \in IPAccessListEntry \cup {None} : EditEntries(id, row)
  <2>1. CASE SaveEntry(id)
    <3>1. PICK body \in EntryBodies : AcceptsEntry(body) /\ EditEntries(id, NormalizeEntry(body))
      BY <2>1 DEF SaveEntry
    <3>2. NormalizeEntry(body) \in IPAccessListEntry
      BY <3>1, ApplicationsAssumption, StoredEntries
    <3> QED BY <3>1, <3>2
  <2>2. CASE DeleteEntry(id)
    BY <2>2 DEF DeleteEntry
  <2> QED BY <2>1, <2>2
<1>2. /\ entries' = [entries EXCEPT ![id] = row] /\ Disturb /\ UnchangedByEdits
      /\ UNCHANGED <<applications, sites, certificates, saving, deleting>> /\ backend' = backend
  BY <1>1 DEF EditEntries, UnchangedByEdits
<1>3. Tables /\ StoredApplicationsValidate /\ RequestsInv
  BY InvariantParts
<1>4. Tables'
  <2>1. entries' \in Table(EntryIds, IPAccessListEntry)
    BY <1>2, <1>3, TableEdited DEF Tables
  <2> QED BY <1>2, <1>3, <2>1 DEF Tables
<1>5. StoredApplicationsValidate' /\ RequestsInv'
  BY <1>2, <1>3 DEF StoredApplicationsValidate, RequestsInv
<1> QED BY <1>2, <1>4, <1>5, EditKeeps

-----------------------------------------------------------------------------
(***************************************************************************)
(* Readings                                                                *)
(***************************************************************************)
LEMMA FourParts ==
  /\ Len(Parts) = 4
  /\ Parts[1] = "hosts" /\ Parts[2] = "listeners" /\ Parts[3] = "upstreams" /\ Parts[4] = "routes"
BY DEF Parts

\* One part of an application set.
Filled(a, part, x) == [a EXCEPT ![part] = x]
Row(i, m, e, h, l, u, r, p) ==
    [id |-> i, mode |-> m, enabled |-> e, hosts |-> h, listeners |-> l, upstreams |-> u,
     routes |-> r, proxy |-> p]

LEMMA PartSet ==
  ASSUME NEW a \in NumberedApplication, NEW x
  PROVE  /\ Filled(a, "hosts", x) = Row(a.id, a.mode, a.enabled, x, a.listeners, a.upstreams, a.routes, a.proxy)
         /\ Filled(a, "listeners", x) = Row(a.id, a.mode, a.enabled, a.hosts, x, a.upstreams, a.routes, a.proxy)
         /\ Filled(a, "upstreams", x) = Row(a.id, a.mode, a.enabled, a.hosts, a.listeners, x, a.routes, a.proxy)
         /\ Filled(a, "routes", x) = Row(a.id, a.mode, a.enabled, a.hosts, a.listeners, a.upstreams, x, a.proxy)
<1>1. a = Row(a.id, a.mode, a.enabled, a.hosts, a.listeners, a.upstreams, a.routes, a.proxy)
  BY DEF NumberedApplication, Row
<1>2. Filled(a, "hosts", x) = Row(a.id, a.mode, a.enabled, x, a.listeners, a.upstreams, a.routes, a.proxy)
  <2>1. [a EXCEPT !.hosts = x] = Row(a.id, a.mode, a.enabled, x, a.listeners, a.upstreams, a.routes, a.proxy)
    BY <1>1 DEF Row
  <2> QED BY <2>1 DEF Filled
<1>3. Filled(a, "listeners", x) = Row(a.id, a.mode, a.enabled, a.hosts, x, a.upstreams, a.routes, a.proxy)
  <2>1. [a EXCEPT !.listeners = x] = Row(a.id, a.mode, a.enabled, a.hosts, x, a.upstreams, a.routes, a.proxy)
    BY <1>1 DEF Row
  <2> QED BY <2>1 DEF Filled
<1>4. Filled(a, "upstreams", x) = Row(a.id, a.mode, a.enabled, a.hosts, a.listeners, x, a.routes, a.proxy)
  <2>1. [a EXCEPT !.upstreams = x] = Row(a.id, a.mode, a.enabled, a.hosts, a.listeners, x, a.routes, a.proxy)
    BY <1>1 DEF Row
  <2> QED BY <2>1 DEF Filled
<1>5. Filled(a, "routes", x) = Row(a.id, a.mode, a.enabled, a.hosts, a.listeners, a.upstreams, x, a.proxy)
  <2>1. [a EXCEPT !.routes = x] = Row(a.id, a.mode, a.enabled, a.hosts, a.listeners, a.upstreams, x, a.proxy)
    BY <1>1 DEF Row
  <2> QED BY <2>1 DEF Filled
<1> QED BY <1>2, <1>3, <1>4, <1>5

LEMMA FilledTyped ==
  ASSUME NEW a \in NumberedApplication, NEW app \in Application, NEW n \in 0 .. 3,
         NEW part, part = Parts[n + 1]
  PROVE  /\ Filled(a, part, app[part]) \in NumberedApplication
         /\ Filled(a, part, <<>>) \in NumberedApplication
<1>1. /\ app.hosts \in Seq(ApplicationHost) /\ app.listeners \in Seq(ApplicationListener)
      /\ app.upstreams \in Seq(ApplicationUpstream) /\ app.routes \in Seq(ApplicationRoute)
  BY DEF Application
<1>2. /\ a.id \in Nat /\ a.mode \in Text /\ a.enabled \in BOOLEAN
      /\ a.hosts \in Seq(ApplicationHost) /\ a.listeners \in Seq(ApplicationListener)
      /\ a.upstreams \in Seq(ApplicationUpstream) /\ a.routes \in Seq(ApplicationRoute)
      /\ a.proxy \in ApplicationProxyConfig
  BY DEF NumberedApplication
<1>3. \A x \in Seq(ApplicationHost) : Filled(a, "hosts", x) \in NumberedApplication
  <2>1. ASSUME NEW x \in Seq(ApplicationHost)
        PROVE  Row(a.id, a.mode, a.enabled, x, a.listeners, a.upstreams, a.routes, a.proxy) \in NumberedApplication
    BY <1>2 DEF Row, NumberedApplication
  <2> QED BY <2>1, PartSet
<1>4. \A x \in Seq(ApplicationListener) : Filled(a, "listeners", x) \in NumberedApplication
  <2>1. ASSUME NEW x \in Seq(ApplicationListener)
        PROVE  Row(a.id, a.mode, a.enabled, a.hosts, x, a.upstreams, a.routes, a.proxy) \in NumberedApplication
    BY <1>2 DEF Row, NumberedApplication
  <2> QED BY <2>1, PartSet
<1>5. \A x \in Seq(ApplicationUpstream) : Filled(a, "upstreams", x) \in NumberedApplication
  <2>1. ASSUME NEW x \in Seq(ApplicationUpstream)
        PROVE  Row(a.id, a.mode, a.enabled, a.hosts, a.listeners, x, a.routes, a.proxy) \in NumberedApplication
    BY <1>2 DEF Row, NumberedApplication
  <2> QED BY <2>1, PartSet
<1>6. \A x \in Seq(ApplicationRoute) : Filled(a, "routes", x) \in NumberedApplication
  <2>1. ASSUME NEW x \in Seq(ApplicationRoute)
        PROVE  Row(a.id, a.mode, a.enabled, a.hosts, a.listeners, a.upstreams, x, a.proxy) \in NumberedApplication
    BY <1>2 DEF Row, NumberedApplication
  <2> QED BY <2>1, PartSet
<1>7. /\ <<>> \in Seq(ApplicationHost) /\ <<>> \in Seq(ApplicationListener)
      /\ <<>> \in Seq(ApplicationUpstream) /\ <<>> \in Seq(ApplicationRoute)
  OBVIOUS
<1>8. CASE n = 0
  <2>1. part = "hosts" /\ app[part] = app.hosts
    BY <1>8, FourParts
  <2> QED BY <1>1, <1>3, <1>7, <2>1
<1>9. CASE n = 1
  <2>1. part = "listeners" /\ app[part] = app.listeners
    BY <1>9, FourParts
  <2> QED BY <1>1, <1>4, <1>7, <2>1
<1>10. CASE n = 2
  <2>1. part = "upstreams" /\ app[part] = app.upstreams
    BY <1>10, FourParts
  <2> QED BY <1>1, <1>5, <1>7, <2>1
<1>11. CASE n = 3
  <2>1. part = "routes" /\ app[part] = app.routes
    BY <1>11, FourParts
  <2> QED BY <1>1, <1>6, <1>7, <2>1
<1> QED BY <1>8, <1>9, <1>10, <1>11

\* Reading one more part of an application.
LEMMA OneMorePart ==
  ASSUME NEW a \in NumberedApplication, NEW app \in Application, NEW n \in 0 .. 3,
         NEW part, part = Parts[n + 1], NEW id, a = Partial(ApplicationWithId(app, id), n)
  PROVE  Filled(a, part, app[part]) = Partial(ApplicationWithId(app, id), n + 1)
<1>1. \A k : Partial(ApplicationWithId(app, id), k)
        = Row(id, app.mode, app.enabled, IF k >= 1 THEN app.hosts ELSE <<>>,
              IF k >= 2 THEN app.listeners ELSE <<>>, IF k >= 3 THEN app.upstreams ELSE <<>>,
              IF k >= 4 THEN app.routes ELSE <<>>, app.proxy)
  BY DEF Partial, ApplicationWithId, Row
<1>2. CASE n = 0
  <2>1. part = "hosts" /\ app[part] = app.hosts
    BY <1>2, FourParts
  <2>2. a = Row(id, app.mode, app.enabled, <<>>, <<>>, <<>>, <<>>, app.proxy)
    BY <1>1, <1>2
  <2>3. Partial(ApplicationWithId(app, id), n + 1)
          = Row(id, app.mode, app.enabled, app.hosts, <<>>, <<>>, <<>>, app.proxy)
    BY <1>1, <1>2
  <2>4. /\ a.id = id /\ a.mode = app.mode /\ a.enabled = app.enabled /\ a.proxy = app.proxy
        /\ a.hosts = <<>> /\ a.listeners = <<>> /\ a.upstreams = <<>> /\ a.routes = <<>>
    BY <2>2 DEF Row
  <2> QED BY <2>1, <2>3, <2>4, PartSet
<1>3. CASE n = 1
  <2>1. part = "listeners" /\ app[part] = app.listeners
    BY <1>3, FourParts
  <2>2. a = Row(id, app.mode, app.enabled, app.hosts, <<>>, <<>>, <<>>, app.proxy)
    BY <1>1, <1>3
  <2>3. Partial(ApplicationWithId(app, id), n + 1)
          = Row(id, app.mode, app.enabled, app.hosts, app.listeners, <<>>, <<>>, app.proxy)
    BY <1>1, <1>3
  <2>4. /\ a.id = id /\ a.mode = app.mode /\ a.enabled = app.enabled /\ a.proxy = app.proxy
        /\ a.hosts = app.hosts /\ a.listeners = <<>> /\ a.upstreams = <<>> /\ a.routes = <<>>
    BY <2>2 DEF Row
  <2> QED BY <2>1, <2>3, <2>4, PartSet
<1>4. CASE n = 2
  <2>1. part = "upstreams" /\ app[part] = app.upstreams
    BY <1>4, FourParts
  <2>2. a = Row(id, app.mode, app.enabled, app.hosts, app.listeners, <<>>, <<>>, app.proxy)
    BY <1>1, <1>4
  <2>3. Partial(ApplicationWithId(app, id), n + 1)
          = Row(id, app.mode, app.enabled, app.hosts, app.listeners, app.upstreams, <<>>, app.proxy)
    BY <1>1, <1>4
  <2>4. /\ a.id = id /\ a.mode = app.mode /\ a.enabled = app.enabled /\ a.proxy = app.proxy
        /\ a.hosts = app.hosts /\ a.listeners = app.listeners /\ a.upstreams = <<>> /\ a.routes = <<>>
    BY <2>2 DEF Row
  <2> QED BY <2>1, <2>3, <2>4, PartSet
<1>5. CASE n = 3
  <2>1. part = "routes" /\ app[part] = app.routes
    BY <1>5, FourParts
  <2>2. a = Row(id, app.mode, app.enabled, app.hosts, app.listeners, app.upstreams, <<>>, app.proxy)
    BY <1>1, <1>5
  <2>3. Partial(ApplicationWithId(app, id), n + 1)
          = Row(id, app.mode, app.enabled, app.hosts, app.listeners, app.upstreams, app.routes, app.proxy)
    BY <1>1, <1>5
  <2>4. /\ a.id = id /\ a.mode = app.mode /\ a.enabled = app.enabled /\ a.proxy = app.proxy
        /\ a.hosts = app.hosts /\ a.listeners = app.listeners /\ a.upstreams = app.upstreams /\ a.routes = <<>>
    BY <2>2 DEF Row
  <2> QED BY <2>1, <2>3, <2>4, PartSet
<1> QED BY <1>2, <1>3, <1>4, <1>5

LEMMA OneInFour ==
  ASSUME NEW n \in Int, NEW k \in 0 .. 3, NEW i \in Int, n = 4 * (i - 1) + k
  PROVE  /\ n - 4 * (i - 1) = k /\ (n + 1) - 4 * (i - 1) = k + 1
         /\ \A j \in Int : j # i => n - 4 * (j - 1) < 0 \/ n - 4 * (j - 1) > 3
OBVIOUS

LEMMA ReadPartFills ==
  ASSUME Tables, ReleaseTyped, release # None, ReadPart,
         release.whole => release.list = ReadUpTo(release.read)
  PROVE  /\ release' \in ReleaseRow /\ release'.step = release.step
         /\ release'.quiet = release.quiet /\ release'.whole = release.whole
         /\ release'.read = release.read + 1 /\ Len(release'.list) = Len(release.list)
         /\ release.whole => release'.list = ReadUpTo(release.read + 1)
<1> DEFINE n == release.read
           list == release.list
           i == (n \div 4) + 1
           k == n % 4
           id == list[i].id
<1>1. PICK part : part = Parts[k + 1]
  OBVIOUS
<1>2. PICK x : x = IF id \in IdsIn(applications) THEN applications[id][part] ELSE <<>>
  OBVIOUS
<1>3. /\ release \in ReleaseRow /\ list \in Seq(NumberedApplication) /\ Len(list) \in Nat
      /\ n \in 0 .. 4 * Len(list) - 1
  <2>1. release \in ReleaseRow /\ n \in Rows .. 4 * Len(list) /\ n >= 0 /\ n # 4 * Len(list)
    BY FourParts DEF ReleaseTyped, ReadPart, Read
  <2>2. list \in Seq(NumberedApplication) /\ Len(list) \in Nat
    BY <2>1 DEF ReleaseRow
  <2> HIDE DEF n, list
  <2>3. n \in 0 .. 4 * Len(list) - 1
    BY <2>1, <2>2 DEF Rows
  <2> QED BY <2>1, <2>2, <2>3 DEF list, n
<1> HIDE DEF n
<1>4. k \in 0 .. 3 /\ n = 4 * (i - 1) + k /\ i \in DOMAIN list /\ i \in Int /\ n \in Int
  BY <1>3
<1>5. release' = [release EXCEPT !.read = n + 1, !.list[i][part] = x]
  BY <1>1, <1>2, FourParts DEF ReadPart, ReleaseStep, n
<1> DEFINE filled == [list[i] EXCEPT ![part] = x]
           after == [list EXCEPT ![i] = filled]
<1>6. release' = [step |-> release.step, quiet |-> release.quiet, list |-> after, read |-> n + 1,
                  whole |-> release.whole]
  <2>1. PICK s : s = [release EXCEPT !.read = n + 1]
    OBVIOUS
  <2>2. s = [step |-> release.step, quiet |-> release.quiet, list |-> list, read |-> n + 1,
             whole |-> release.whole]
    BY <1>3, <2>1 DEF ReleaseRow
  <2>3. release' = [s EXCEPT !.list[i][part] = x]
    BY <1>5, <2>1
  <2>4. [s EXCEPT !.list[i][part] = x] = [s EXCEPT !.list = [s.list EXCEPT ![i] = [s.list[i] EXCEPT ![part] = x]]]
    OBVIOUS
  <2>5. s.list = list
    BY <2>2
  <2> HIDE DEF i, list
  <2>6. [s EXCEPT !.list[i][part] = x] = [s EXCEPT !.list = after]
    BY <2>4, <2>5
  <2> HIDE DEF after
  <2>7. [s EXCEPT !.list = after]
          = [step |-> release.step, quiet |-> release.quiet, list |-> after, read |-> n + 1,
             whole |-> release.whole]
    BY <2>2
  <2> QED BY <2>3, <2>6, <2>7
<1>7. list[i] \in NumberedApplication /\ id \in Nat
  <2>1. list[i] \in NumberedApplication
    BY <1>3, <1>4
  <2> HIDE DEF list, i
  <2> QED BY <2>1 DEF NumberedApplication
<1>8. \A m \in IdsIn(applications) : applications[m] \in Application
  BY DEF Tables, Table, IdsIn
<1>9. filled \in NumberedApplication
  <2>1. CASE id \in IdsIn(applications)
    <3>1. PICK app \in Application : app = applications[id]
      BY <1>8, <2>1
    <3>2. x = app[part]
      BY <1>2, <2>1, <3>1
    <3> QED BY <1>1, <1>4, <1>7, <3>2, FilledTyped DEF Filled
  <2>2. CASE id \notin IdsIn(applications)
    <3>1. x = <<>>
      BY <1>2, <2>2
    <3>2. PICK a \in NumberedApplication : a = list[i]
      BY <1>7
    <3>3. PICK app : app = [mode |-> a.mode, enabled |-> a.enabled, hosts |-> a.hosts,
                            listeners |-> a.listeners, upstreams |-> a.upstreams,
                            routes |-> a.routes, proxy |-> a.proxy]
      OBVIOUS
    <3>4. app \in Application
      BY <3>3 DEF Application, NumberedApplication
    <3>5. [a EXCEPT ![part] = <<>>] \in NumberedApplication
      BY <1>1, <1>4, <3>4, FilledTyped DEF Filled
    <3> QED BY <3>1, <3>2, <3>5
  <2> QED BY <2>1, <2>2
<1>10. after \in Seq(NumberedApplication) /\ Len(after) = Len(list) /\ DOMAIN after = DOMAIN list
  <2> HIDE DEF filled, list, i
  <2> QED BY <1>3, <1>4, <1>9
<1>11. ASSUME release.whole
       PROVE  after = ReadUpTo(n + 1)
  <2> DEFINE all == ListApplications
  <2>1. list = [j \in DOMAIN all |-> Partial(all[j], n - 4 * (j - 1))]
    BY <1>11 DEF ReadUpTo, n
  <2>2. all \in Seq(NumberedApplication) /\ i \in DOMAIN all
    BY <1>4, <2>1, ApplicationsListed DEF Tables
  <2>3. PICK m \in IdsIn(applications) : all[i] = ApplicationWithId(applications[m], m)
    BY <2>2, ApplicationsListed DEF Tables
  <2> HIDE DEF all, i, k, list
  <2>4. n - 4 * (i - 1) = k /\ (n + 1) - 4 * (i - 1) = k + 1
    BY <1>4, OneInFour
  <2>5. PICK app \in Application : app = applications[m]
    BY <1>8
  <2>6. list[i] = Partial(ApplicationWithId(app, m), k)
    BY <2>1, <2>2, <2>3, <2>4, <2>5
  <2>7. id = m
    BY <2>6 DEF Partial, ApplicationWithId
  <2>8. x = app[part]
    BY <1>2, <2>5, <2>7
  <2>9. PICK a \in NumberedApplication : a = list[i]
    BY <1>7 DEF list, i
  <2>10. [a EXCEPT ![part] = app[part]] = Partial(ApplicationWithId(app, m), k + 1)
    <3>1. a = Partial(ApplicationWithId(app, m), k)
      BY <2>6, <2>9
    <3> QED BY <1>1, <1>4, <3>1, OneMorePart DEF Filled
  <2>11. filled = Partial(all[i], (n + 1) - 4 * (i - 1))
    BY <2>3, <2>4, <2>5, <2>8, <2>9, <2>10
  <2>12. \A j \in DOMAIN all : j # i => list[j] = Partial(all[j], (n + 1) - 4 * (j - 1))
    <3>1. SUFFICES ASSUME NEW j \in DOMAIN all, j # i
                   PROVE  list[j] = Partial(all[j], (n + 1) - 4 * (j - 1))
      OBVIOUS
    <3>2. j \in Int
      BY <2>2
    <3>3. n - 4 * (j - 1) < 0 \/ n - 4 * (j - 1) > 3
      BY <1>4, <3>1, <3>2, OneInFour
    <3>4. PICK d \in Int : d = n - 4 * (j - 1)
      BY <1>3, <3>2
    <3>5. (n + 1) - 4 * (j - 1) = d + 1
      BY <1>3, <3>2, <3>4
    <3>6. Partial(all[j], d) = Partial(all[j], d + 1)
      BY <3>3, <3>4 DEF Partial
    <3> QED BY <2>1, <3>1, <3>4, <3>5, <3>6
  <2>13. after = [j \in DOMAIN all |-> Partial(all[j], (n + 1) - 4 * (j - 1))]
    <3> HIDE DEF filled
    <3> QED BY <2>1, <2>11, <2>12
  <2> QED BY <2>13 DEF ReadUpTo, all
<1> HIDE DEF after, list
<1> QED BY <1>3, <1>6, <1>10, <1>11 DEF ReleaseRow, n, list

LEMMA ReleaseStepKeeps ==
  ASSUME IInv, NEW next_release, ReleaseStep(next_release), ReleaseTyped', WholeReading',
         QuietRelease', Outputs'
  PROVE  IInv'
<1>1. /\ backend \in Backends /\ Tables /\ RequestsInv /\ StoredApplicationsValidate
  BY InvariantParts
<1>2. UNCHANGED <<backend, store, saving, deleting>>
  BY DEF ReleaseStep
<1>3. backend' \in Backends /\ Tables' /\ RequestsInv'
  BY <1>1, <1>2 DEF Tables, RequestsInv, store
<1>4. StoredApplicationsValidate'
  BY <1>1, <1>2, StoreKept
<1> QED BY <1>3, <1>4 DEF IInv, TypeInv, Tables, ReleaseTyped, Outputs

\* Releases that list n parts more than before of what is stored.
LEMMA ReadingGoesOn ==
  ASSUME IInv, release # None, ReleaseStep(release'), UNCHANGED <<gateway, nginx>>,
         release' \in ReleaseRow, release'.step = release.step, release'.quiet = release.quiet,
         release'.whole = release.whole,
         release'.read \in Fallback .. 4 * Len(release'.list),
         release'.read = Fallback => IdsIn(applications) = {},
         release.whole /\ Amid' => IdsIn(applications) # {} /\ release'.list = ReadUpTo(release'.read),
         release.whole /\ Listed' => release'.list \in {Current, ListApplications, ListSites},
         release.quiet /\ Listed' => release'.list = Current
  PROVE  IInv'
<1>1. ReleaseTyped /\ WholeReading /\ QuietRelease /\ Outputs /\ StoredApplicationsValidate
      /\ TypeInv
  BY InvariantParts DEF IInv
<1>2. UNCHANGED <<backend, store>>
  BY DEF ReleaseStep
<1>3. /\ applications' = applications /\ certificates' = certificates /\ gateway' = gateway
  BY <1>2 DEF store
<1>4. Current' = Current /\ Scopes' = Scopes /\ \A n : ReadUpTo(n)' = ReadUpTo(n)
  BY <1>2, StoreKept
<1>5. ReleaseTyped'
  BY FourParts DEF ReleaseTyped, Rows, Fallback
<1>6. \A list \in {Current, ListApplications, ListSites} :
        \A app \in Range(list) : ValidRoutes(app.routes, app.upstreams)
  BY <1>1, ListedRoutes DEF Current
<1>7. WholeReading'
  BY <1>3, <1>4, <1>6 DEF WholeReading
<1>8. QuietRelease'
  BY <1>1, <1>3, <1>4 DEF QuietRelease, Ready
<1>9. Outputs'
  BY <1>1, OutputsKept
<1> QED BY <1>5, <1>7, <1>8, <1>9, ReleaseStepKeeps

\* A list that is not empty has one more part to read, or four for each application.
LEMMA ReadRowsKeeps ==
  ASSUME IInv, release # None, ReadRows, UNCHANGED <<gateway, nginx>>
  PROVE  IInv'
<1>1. TypeInv /\ release \in ReleaseRow /\ Tables
  BY InvariantParts DEF IInv, ReleaseTyped
<1> DEFINE all == ListApplications
<1>2. /\ all \in Seq(NumberedApplication) /\ Len(all) \in Nat /\ DOMAIN all = 1 .. Len(all)
      /\ IdsIn(applications) # {} => Len(all) > 0
  <2>1. all \in Seq(NumberedApplication)
    BY <1>1, ApplicationsListed DEF Tables
  <2>2. ASSUME NEW id \in IdsIn(applications) PROVE \E i \in DOMAIN all : TRUE
    BY <1>1, ApplicationsListed DEF Tables
  <2> HIDE DEF all
  <2> QED BY <2>1, <2>2
<1> HIDE DEF all
<1>3. CASE IdsIn(applications) = {}
  <2>1. release' = [release EXCEPT !.read = Fallback] /\ ReleaseStep(release')
    BY <1>3 DEF ReadRows, ReleaseStep
  <2>2. /\ release' \in ReleaseRow /\ release'.step = release.step /\ release'.quiet = release.quiet
        /\ release'.whole = release.whole /\ release'.list = release.list
        /\ release'.read = -1 /\ Len(release'.list) \in Nat
    BY <1>1, <2>1 DEF ReleaseRow, Fallback
  <2>3. ~Amid' /\ ~Listed'
    BY <2>2 DEF Amid, Listed
  <2>4. release'.read \in Fallback .. 4 * Len(release'.list)
    BY <2>2 DEF Fallback
  <2> QED BY <1>3, <2>1, <2>2, <2>3, <2>4, ReadingGoesOn
<1>4. CASE IdsIn(applications) # {} /\ backend = "memory"
  <2>1. release' = [release EXCEPT !.list = all, !.read = 4 * Len(all)] /\ ReleaseStep(release')
    BY <1>4, FourParts DEF ReadRows, ReleaseStep, all
  <2>2. /\ release' \in ReleaseRow /\ release'.step = release.step /\ release'.quiet = release.quiet
        /\ release'.whole = release.whole /\ release'.list = all /\ release'.read = 4 * Len(all)
    <3>1. PICK s : s = [release EXCEPT !.list = all]
      OBVIOUS
    <3>2. s \in ReleaseRow /\ s.step = release.step /\ s.quiet = release.quiet
          /\ s.whole = release.whole /\ s.list = all
      BY <1>1, <1>2, <3>1 DEF ReleaseRow
    <3>3. PICK n : n = 4 * Len(all)
      OBVIOUS
    <3>4. n \in Int
      BY <1>2, <3>3
    <3>5. release' = [s EXCEPT !.read = n]
      BY <2>1, <3>1, <3>3
    <3>6. /\ release' \in ReleaseRow /\ release'.step = s.step /\ release'.quiet = s.quiet
          /\ release'.whole = s.whole /\ release'.list = s.list /\ release'.read = n
      BY <3>2, <3>4, <3>5 DEF ReleaseRow
    <3> QED BY <3>2, <3>3, <3>6
  <2>3. ~Amid' /\ release'.list = Current
    BY <1>4, <2>2, FourParts DEF Amid, Read, Current, all
  <2>4. release'.read \in Fallback .. 4 * Len(release'.list) /\ release'.read # Fallback
    BY <1>2, <2>2 DEF Fallback
  <2> QED BY <2>1, <2>2, <2>3, <2>4, ReadingGoesOn
<1>5. CASE IdsIn(applications) # {} /\ backend # "memory"
  <2> DEFINE rows == Each(Childless, ListApplications)
  <2>1. rows = ReadUpTo(0)
    <3>1. rows = [i \in DOMAIN all |-> Childless(all[i])]
      BY Zenon DEF Each, all
    <3>2. ASSUME NEW i \in DOMAIN all
          PROVE  Childless(all[i]) = Partial(all[i], 0 - 4 * (i - 1))
      <4>1. PICK a \in NumberedApplication : a = all[i]
        BY <1>2, <3>2
      <4>2. PICK k \in Int : k = 0 - 4 * (i - 1) /\ k <= 0
        BY <1>2, <3>2
      <4>3. a = Row(a.id, a.mode, a.enabled, a.hosts, a.listeners, a.upstreams, a.routes, a.proxy)
        BY DEF NumberedApplication, Row
      <4>4. [a EXCEPT !.hosts = <<>>]
              = Row(a.id, a.mode, a.enabled, <<>>, a.listeners, a.upstreams, a.routes, a.proxy)
        BY <4>3 DEF Row
      <4>5. PICK r1 : r1 = [a EXCEPT !.hosts = <<>>]
        OBVIOUS
      <4>6. PICK r2 : r2 = [r1 EXCEPT !.listeners = <<>>]
        OBVIOUS
      <4>7. PICK r3 : r3 = [r2 EXCEPT !.upstreams = <<>>]
        OBVIOUS
      <4>9. r2 = Row(a.id, a.mode, a.enabled, <<>>, <<>>, a.upstreams, a.routes, a.proxy)
        BY <4>4, <4>5, <4>6 DEF Row
      <4>10. r3 = Row(a.id, a.mode, a.enabled, <<>>, <<>>, <<>>, a.routes, a.proxy)
        BY <4>7, <4>9 DEF Row
      <4>11. [r3 EXCEPT !.routes = <<>>] = Row(a.id, a.mode, a.enabled, <<>>, <<>>, <<>>, <<>>, a.proxy)
        BY <4>10 DEF Row
      <4>12. Childless(a) = [r3 EXCEPT !.routes = <<>>]
        BY <4>5, <4>6, <4>7 DEF Childless
      <4>8. Partial(a, k) = Row(a.id, a.mode, a.enabled, <<>>, <<>>, <<>>, <<>>, a.proxy)
        BY <4>2 DEF Partial, Row
      <4> QED BY <4>1, <4>2, <4>8, <4>11, <4>12
    <3>3. [i \in DOMAIN all |-> Childless(all[i])]
            = [i \in DOMAIN all |-> Partial(all[i], 0 - 4 * (i - 1))]
      BY <3>2
    <3> QED BY <3>1, <3>3 DEF ReadUpTo, all
  <2>2. rows \in Seq(NumberedApplication) /\ Len(rows) = Len(all)
    <3>1. rows = [i \in 1 .. Len(all) |-> Partial(all[i], 0 - 4 * (i - 1))]
      BY <1>2, <2>1 DEF ReadUpTo, all
    <3>2. ASSUME NEW a \in NumberedApplication, NEW k
          PROVE  Partial(a, k) \in NumberedApplication
      BY DEF Partial, NumberedApplication
    <3> HIDE DEF rows
    <3>3. \A i \in 1 .. Len(all) : all[i] \in NumberedApplication
      BY <1>2
    <3>4. rows \in [1 .. Len(all) -> NumberedApplication]
      BY <3>1, <3>2, <3>3
    <3> QED BY <1>2, <3>4
  <2>3. release' = [release EXCEPT !.list = rows, !.read = 0] /\ ReleaseStep(release')
    BY <1>5 DEF ReadRows, ReleaseStep
  <2> HIDE DEF rows
  <2>4. /\ release' \in ReleaseRow /\ release'.step = release.step /\ release'.quiet = release.quiet
        /\ release'.whole = release.whole /\ release'.list = rows /\ release'.read = 0
    <3>1. PICK s : s = [release EXCEPT !.list = rows]
      OBVIOUS
    <3>2. s \in ReleaseRow /\ s.step = release.step /\ s.quiet = release.quiet
          /\ s.whole = release.whole /\ s.list = rows
      BY <1>1, <2>2, <3>1 DEF ReleaseRow
    <3>3. release' = [s EXCEPT !.read = 0]
      BY <2>3, <3>1
    <3> QED BY <3>2, <3>3 DEF ReleaseRow
  <2>5. ~Listed'
    BY <1>2, <1>5, <2>2, <2>4, FourParts DEF Listed, Read
  <2>6. release'.read \in Fallback .. 4 * Len(release'.list) /\ release'.read # Fallback
    BY <1>2, <2>2, <2>4 DEF Fallback
  <2> QED BY <1>5, <2>1, <2>3, <2>4, <2>5, <2>6, ReadingGoesOn
<1> QED BY <1>3, <1>4, <1>5

\* A release that read no rows takes the sites, also when an application came meanwhile.
LEMMA ReadSitesKeeps ==
  ASSUME IInv, release # None, ReadSites, UNCHANGED <<gateway, nginx>>
  PROVE  IInv'
<1>1. TypeInv /\ release \in ReleaseRow /\ Tables /\ QuietRelease
  BY InvariantParts DEF IInv, ReleaseTyped
<1> DEFINE all == ListSites
<1>2. all \in Seq(NumberedApplication) /\ Len(all) \in Nat
  <2>1. all \in Seq(NumberedApplication)
    BY <1>1, SitesListed DEF Tables
  <2> HIDE DEF all
  <2> QED BY <2>1
<1> HIDE DEF all
<1>3. /\ release' = [release EXCEPT !.list = all, !.read = 4 * Len(all)] /\ ReleaseStep(release')
      /\ release.read = Fallback
  BY FourParts DEF ReadSites, ReleaseStep, all
<1>4. /\ release' \in ReleaseRow /\ release'.step = release.step /\ release'.quiet = release.quiet
      /\ release'.whole = release.whole /\ release'.list = all /\ release'.read = 4 * Len(all)
  <2>1. PICK s : s = [release EXCEPT !.list = all]
    OBVIOUS
  <2>2. s \in ReleaseRow /\ s.step = release.step /\ s.quiet = release.quiet
        /\ s.whole = release.whole /\ s.list = all
    BY <1>1, <1>2, <2>1 DEF ReleaseRow
  <2>3. PICK n : n = 4 * Len(all)
    OBVIOUS
  <2>4. n \in Int
    BY <1>2, <2>3
  <2>5. release' = [s EXCEPT !.read = n]
    BY <1>3, <2>1, <2>3
  <2>6. /\ release' \in ReleaseRow /\ release'.step = s.step /\ release'.quiet = s.quiet
        /\ release'.whole = s.whole /\ release'.list = s.list /\ release'.read = n
    BY <2>2, <2>4, <2>5 DEF ReleaseRow
  <2> QED BY <2>2, <2>3, <2>6
<1>5. ~Amid' /\ release'.list \in {Current, ListApplications, ListSites}
  BY <1>4, FourParts DEF Amid, Read, all
<1>6. release.quiet => release'.list = Current
  <2>1. release.quiet => IdsIn(applications) = {}
    BY <1>1, <1>3 DEF QuietRelease
  <2> QED BY <1>4, <2>1 DEF Current, all
<1>7. release'.read \in Fallback .. 4 * Len(release'.list) /\ release'.read # Fallback
  BY <1>2, <1>4 DEF Fallback
<1> QED BY <1>3, <1>4, <1>5, <1>6, <1>7, ReadingGoesOn

\* The last part of the last application makes the list the one that is stored.
LEMMA ReadPartKeeps ==
  ASSUME IInv, release # None, ReadPart, UNCHANGED <<gateway, nginx>>
  PROVE  IInv'
<1>1. Tables /\ ReleaseTyped /\ WholeReading /\ QuietRelease
  BY InvariantParts
<1>2. Amid /\ release.read >= 0 /\ release.read # 4 * Len(release.list)
  BY FourParts DEF ReadPart, Amid, Read
<1>3. release.whole => IdsIn(applications) # {} /\ release.list = ReadUpTo(release.read)
  BY <1>1, <1>2 DEF WholeReading
<1>4. /\ release' \in ReleaseRow /\ release'.step = release.step
      /\ release'.quiet = release.quiet /\ release'.whole = release.whole
      /\ release'.read = release.read + 1 /\ Len(release'.list) = Len(release.list)
      /\ release.whole => release'.list = ReadUpTo(release.read + 1)
  BY <1>1, <1>3, ReadPartFills
<1>5. release.list \in Seq(NumberedApplication) /\ Len(release.list) \in Nat
      /\ release.read \in 0 .. 4 * Len(release.list)
  <2>1. release \in ReleaseRow /\ release.read \in Rows .. 4 * Len(release.list)
    BY <1>1, FourParts DEF ReleaseTyped
  <2>2. release.list \in Seq(NumberedApplication) /\ Len(release.list) \in Nat
    BY <2>1 DEF ReleaseRow
  <2> QED BY <1>2, <2>1, <2>2 DEF Rows
<1>6. release'.read \in Fallback .. 4 * Len(release'.list) /\ release'.read # Fallback
  BY <1>2, <1>4, <1>5 DEF Fallback
<1>7. ReleaseStep(release')
  BY DEF ReadPart, ReleaseStep
<1>8. ASSUME release.whole, Listed'
      PROVE  release'.list = ListApplications
  <2> DEFINE all == ListApplications
             n == release.read + 1
  <2>1. all \in Seq(NumberedApplication)
    BY <1>1, ApplicationsListed DEF Tables
  <2>2. release.list = [i \in DOMAIN all |-> Partial(all[i], release.read - 4 * (i - 1))]
    BY <1>3, <1>8 DEF ReadUpTo
  <2>3. release'.list = [i \in DOMAIN all |-> Partial(all[i], n - 4 * (i - 1))]
    BY <1>4, <1>8 DEF ReadUpTo
  <2> HIDE DEF all
  <2>4. Len(all) = Len(release.list) /\ DOMAIN all = 1 .. Len(all)
    BY <1>5, <2>1, <2>2
  <2>5. n = 4 * Len(all)
    BY <1>4, <1>8, <2>4, FourParts DEF Listed, Read
  <2>6. ASSUME NEW i \in DOMAIN all PROVE Partial(all[i], n - 4 * (i - 1)) = all[i]
    <3>1. PICK k \in Int : k = n - 4 * (i - 1) /\ k >= 4
      BY <2>1, <2>4, <2>5
    <3>2. PICK a \in NumberedApplication : a = all[i]
      BY <2>1
    <3>3. a = Row(a.id, a.mode, a.enabled, a.hosts, a.listeners, a.upstreams, a.routes, a.proxy)
      BY DEF NumberedApplication, Row
    <3>4. Partial(a, k) = Row(a.id, a.mode, a.enabled, a.hosts, a.listeners, a.upstreams, a.routes, a.proxy)
      BY <3>1 DEF Partial, Row
    <3> QED BY <3>1, <3>2, <3>3, <3>4
  <2>7. release'.list = [i \in DOMAIN all |-> all[i]]
    BY <2>3, <2>6
  <2>8. all = [i \in DOMAIN all |-> all[i]]
    BY <2>1
  <2> QED BY <2>7, <2>8 DEF all
<1>9. release.quiet => release.whole /\ (Listed' => release'.list = Current)
  <2>1. release.quiet => release.whole
    BY <1>1 DEF QuietRelease
  <2> QED BY <1>3, <1>8, <2>1 DEF Current
<1> QED BY <1>3, <1>4, <1>6, <1>7, <1>8, <1>9, ReadingGoesOn

\* A release that ends, and leaves all files as they are.
LEMMA ReleaseEnds ==
  ASSUME release' = None
  PROVE  ReleaseTyped' /\ WholeReading' /\ QuietRelease'
BY DEF ReleaseTyped, WholeReading, QuietRelease

LEMMA EndKeeps ==
  ASSUME IInv, ReleaseStep(None), UNCHANGED <<gateway, nginx>>
  PROVE  IInv'
<1>1. ReleaseTyped' /\ WholeReading' /\ QuietRelease'
  BY ReleaseEnds DEF ReleaseStep
<1>2. Outputs'
  BY OutputsKept, InvariantParts
<1> QED BY <1>1, <1>2, ReleaseStepKeeps

LEMMA FailsKeeps ==
  ASSUME IInv, NEW step, Fails(step)
  PROVE  IInv'
BY EndKeeps DEF Fails

LEMMA ReadStepKeeps ==
  ASSUME IInv, ReadStep
  PROVE  IInv'
BY ReadRowsKeeps, ReadSitesKeeps, ReadPartKeeps, EndKeeps DEF ReadStep, ReadFails

LEMMA StartReleaseKeeps ==
  ASSUME IInv, StartRelease
  PROVE  IInv'
<1>1. ReleaseStep(release') /\ release' = StepTo("readiness", TRUE) /\ UNCHANGED <<gateway, nginx>>
  BY DEF StartRelease, ReleaseStep
<1>2. ReleaseTyped' /\ WholeReading' /\ QuietRelease'
  BY <1>1, StepStarts DEF Steps
<1>3. Outputs'
  BY <1>1, OutputsKept, InvariantParts
<1> QED BY <1>1, <1>2, <1>3, ReleaseStepKeeps

\* A step of a release has a list whose routes are apart, and of a quiet release what is stored.
LEMMA ListedSoFar ==
  ASSUME IInv, NEW step, Reads(step)
  PROVE  /\ release \in ReleaseRow /\ release.list \in Seq(NumberedApplication)
         /\ release.whole => \A app \in Range(release.list) : ValidRoutes(app.routes, app.upstreams)
         /\ release.quiet => /\ release.whole /\ release.list = Current
                             /\ step # "readiness" => Ready(Current)
                             /\ step = "artifacts" => gateway.applications = GatewayApplications(Current)
<1>1. ReleaseTyped /\ WholeReading /\ QuietRelease
  BY InvariantParts
<1>2. release # None /\ release.step = step /\ Listed
  BY DEF Reads, Listed
<1>3. release \in ReleaseRow
  BY <1>1, <1>2 DEF ReleaseTyped
<1>4. release.list \in Seq(NumberedApplication)
  BY <1>3 DEF ReleaseRow
<1>5. release.whole => \A app \in Range(release.list) : ValidRoutes(app.routes, app.upstreams)
  BY <1>1, <1>2 DEF WholeReading
<1>6. release.quiet => /\ release.whole /\ release.list = Current
                       /\ step # "readiness" => Ready(Current)
                       /\ step = "artifacts" => gateway.applications = GatewayApplications(Current)
  BY <1>1, <1>2 DEF QuietRelease
<1> QED BY <1>3, <1>4, <1>5, <1>6

LEMMA CheckKeeps ==
  ASSUME IInv, NEW step, NEW ports, NEW following \in {"review", "generate"},
         Check(step, ports, following),
         step = "readiness" => ports = MappedPorts(ListenerMode, PortRange)
  PROVE  IInv'
<1>1. Reads(step) /\ ReleaseStep(release') /\ UNCHANGED <<gateway, nginx>>
  BY DEF Check, ReleaseStep
<1>2. Outputs'
  BY <1>1, OutputsKept, InvariantParts
<1>3. Current' = Current /\ Scopes' = Scopes /\ certificates' = certificates
  BY <1>1, StoreKept DEF ReleaseStep, store
<1>4. CASE ReadinessErrors(release.list, certificates, Scopes, ports) = {}
  <2>1. release' = StepTo(following, release.quiet)
    BY <1>4 DEF Check, ReleaseStep, Proceed
  <2>2. release.quiet \in BOOLEAN
    BY <1>1, ListedSoFar DEF ReleaseRow
  <2>3. release.quiet => Ready(Current)
    BY <1>1, <1>4, ListedSoFar DEF Ready
  <2>4. release.quiet => Ready(Current)'
    BY <1>3, <2>3 DEF Ready
  <2>5. ReleaseTyped' /\ WholeReading' /\ QuietRelease'
    BY <2>1, <2>2, <2>4, StepStarts DEF Steps
  <2> QED BY <1>1, <1>2, <2>5, ReleaseStepKeeps
<1>5. CASE ReadinessErrors(release.list, certificates, Scopes, ports) # {}
  BY <1>1, <1>5, EndKeeps DEF Check
<1> QED BY <1>4, <1>5

LEMMA ReviewKeeps ==
  ASSUME IInv, Review
  PROVE  IInv'
<1>1. CASE Reads("review") /\ ReleaseStep(Proceed("validate")) /\ UNCHANGED <<gateway, nginx>>
  <2>1. release' = StepTo("validate", release.quiet) /\ release.quiet \in BOOLEAN
        /\ (release.quiet => Ready(Current))
    BY <1>1, ListedSoFar DEF ReleaseStep, Proceed, ReleaseRow
  <2>2. Current' = Current /\ Scopes' = Scopes /\ certificates' = certificates
    BY <1>1, StoreKept DEF ReleaseStep, store
  <2>3. release.quiet => Ready(Current)'
    BY <2>1, <2>2 DEF Ready
  <2>4. ReleaseTyped' /\ WholeReading' /\ QuietRelease'
    BY <2>1, <2>3, StepStarts DEF Steps
  <2>5. Outputs'
    BY <1>1, OutputsKept, InvariantParts
  <2> QED BY <1>1, <2>4, <2>5, ReleaseStepKeeps
<1>2. CASE Fails("review")
  BY <1>2, FailsKeeps
<1> QED BY <1>1, <1>2 DEF Review

LEMMA ChecksKeep ==
  ASSUME IInv, Readiness \/ Validate
  PROVE  IInv'
<1>1. CASE Readiness
  BY <1>1, CheckKeeps, FailsKeeps DEF Readiness
<1>2. CASE Validate
  BY <1>2, CheckKeeps, FailsKeeps DEF Validate
<1> QED BY <1>1, <1>2

\* What is generated comes from one list of applications and one of entries.
LEMMA GenerateKeeps ==
  ASSUME IInv, Generate
  PROVE  IInv'
<1>0. CASE Fails("generate")
  BY <1>0, FailsKeeps
<1> SUFFICES ASSUME ~Fails("generate") PROVE IInv'
  BY <1>0
<1>1. /\ Reads("generate") /\ ReleaseStep(release') /\ nginx' = nginx
      /\ release' = StepTo("artifacts", release.quiet)
      /\ gateway' = [applications |-> GatewayApplications(release.list),
                     index |-> BuildIPAccessIndex(ListEntries),
                     listed |-> Range(ListEntries), whole |-> release.whole]
  BY DEF Generate, ReleaseStep, Proceed
<1>2. /\ release \in ReleaseRow /\ release.list \in Seq(NumberedApplication)
      /\ release.whole => \A app \in Range(release.list) : ValidRoutes(app.routes, app.upstreams)
      /\ release.quiet => release.list = Current /\ Ready(Current)
  BY <1>1, ListedSoFar
<1>3. Current' = Current /\ Scopes' = Scopes /\ certificates' = certificates
  BY <1>1, StoreKept DEF ReleaseStep, store
<1>4. ReleaseTyped' /\ WholeReading' /\ QuietRelease'
  <2>1. release.quiet => Ready(Current)'
    BY <1>2, <1>3 DEF Ready
  <2>2. gateway'.applications = GatewayApplications(release.list)
    BY <1>1
  <2>3. release.quiet => (gateway.applications = GatewayApplications(Current))'
    BY <1>2, <1>3, <2>2
  <2>4. release.quiet \in BOOLEAN
    BY <1>2 DEF ReleaseRow
  <2> QED BY <1>1, <2>1, <2>3, <2>4, StepStarts DEF Steps
<1>5. ReleasedRoutesReachUpstreams'
  <2>1. gateway'.applications = GatewayApplications(release.list) /\ gateway'.whole = release.whole
    BY <1>1
  <2> DEFINE apps == gateway'.applications
  <2>2. release.whole =>
          \A app \in Range(apps) :
            /\ \A r \in Enabled(app.routes) : \E u \in Enabled(app.upstreams) : u.name = r.upstream
            /\ \A i, j \in DOMAIN app.routes : i < j => app.routes[i].priority < app.routes[j].priority
    BY <1>2, <2>1, RoutesReleased
  <2> QED BY <2>1, <2>2, Zenon DEF ReleasedRoutesReachUpstreams
<1>6. AccessIndexAgreesWithList'
  <2>1. ListEntries \in Seq(ListedEntry) /\ InTurn(ListEntries)
    BY EntriesInTurn, InvariantParts DEF Tables
  <2>2. gateway'.index = BuildIPAccessIndex(ListEntries) /\ gateway'.listed = Range(ListEntries)
    BY <1>1
  <2>3. ASSUME NEW kind, NEW scope, NEW address \in Addresses
        PROVE  Lookup(gateway'.index, kind, scope, address) = Scan(gateway'.listed, kind, scope, address)
    BY <2>1, <2>2, LookupIsScan
  <2> QED BY <2>3, Zenon DEF AccessIndexAgreesWithList
<1>7. QuietReleasesServeEveryHost' /\ RollbackRendersTheSame'
  <2>1. QuietReleasesServeEveryHost /\ RollbackRendersTheSame
    BY DEF IInv
  <2>2. QuietReleasesServeEveryHost'
    BY <1>1, <2>1, ServedByConfig
  <2>3. RollbackRendersTheSame'
    BY <1>1, <2>1 DEF RollbackRendersTheSame
  <2> QED BY <2>2, <2>3
<1>8. Outputs'
  BY <1>5, <1>6, <1>7 DEF Outputs
<1> QED BY <1>1, <1>4, <1>8, ReleaseStepKeeps

LEMMA WriteArtifactsKeeps ==
  ASSUME IInv, WriteArtifacts
  PROVE  IInv'
<1>1. Reads("artifacts") /\ ReleaseStep(release') /\ release' = None /\ gateway' = gateway
  BY DEF WriteArtifacts, Fails, ReleaseStep
<1>2. ReleaseTyped' /\ WholeReading' /\ QuietRelease'
  BY <1>1, ReleaseEnds
<1>3. Outputs
  BY InvariantParts
<1>4. CASE nginx' = nginx
  BY <1>1, <1>2, <1>3, <1>4, OutputsKept, ReleaseStepKeeps
<1>5. CASE nginx' = [servers |-> ListenerConfig(release.list), config |-> gateway.applications,
                     quiet |-> release.quiet]
  <2>1. /\ nginx'.servers = ListenerConfig(release.list) /\ nginx'.config = gateway.applications
        /\ nginx'.quiet = release.quiet
    BY <1>5
  <2>2. /\ release.list \in Seq(NumberedApplication)
        /\ release.quiet => /\ gateway.applications = GatewayApplications(release.list)
                            /\ Ready(release.list)
    BY <1>1, ListedSoFar
  <2>3. nginx'.quiet => ServesEveryHost(nginx'.config, nginx'.servers)
    BY <2>1, <2>2, EveryHostServed DEF Ready
  <2>4. QuietReleasesServeEveryHost'
    BY <2>3, ServedByConfig
  <2>5. RollbackRendersTheSame'
    BY <2>1, <2>2, RenderedAgain DEF RollbackRendersTheSame
  <2>6. ReleasedRoutesReachUpstreams'
    BY <1>1, <1>3, Zenon DEF Outputs, ReleasedRoutesReachUpstreams
  <2>7. AccessIndexAgreesWithList'
    BY <1>1, <1>3, Zenon DEF Outputs, AccessIndexAgreesWithList
  <2>8. Outputs'
    BY <2>4, <2>5, <2>6, <2>7 DEF Outputs
  <2> QED BY <1>1, <1>2, <2>8, ReleaseStepKeeps
<1> QED BY <1>4, <1>5 DEF WriteArtifacts, Fails
-----------------------------------------------------------------------------
(***************************************************************************)
(* The invariant                                                           *)
(***************************************************************************)
LEMMA IInvInit ==
  ASSUME Init
  PROVE  IInv
<1>1. PICK s \in InitialStores :
        /\ applications = s.applications /\ sites = s.sites /\ entries = s.entries
        /\ certificates = s.certificates
  BY DEF Init
<1>2. /\ s.applications \in Table(ApplicationIds, Application)
      /\ s.sites \in Table(SiteIds, SiteRow) /\ s.entries \in Table(EntryIds, IPAccessListEntry)
      /\ s.certificates \subseteq CertificateIds
      /\ \A id \in IdsIn(s.applications) :
            /\ NormalizeApplication(s.applications[id]) = s.applications[id]
            /\ ValidateApplication(s.applications[id], s.certificates)
  BY Zenon, StoresAssumption
<1>3. /\ backend \in Backends /\ saving = None /\ deleting = None /\ release = None
      /\ gateway = [applications |-> <<>>, index |-> BuildIPAccessIndex(<<>>), listed |-> {},
                    whole |-> TRUE]
      /\ nginx = [servers |-> <<>>, config |-> <<>>, quiet |-> FALSE]
  BY DEF Init
<1>4. Tables
  BY <1>1, <1>2 DEF Tables
<1>5. ReleaseTyped /\ RequestsInv /\ WholeReading /\ QuietRelease
  BY <1>3 DEF ReleaseTyped, RequestsInv, WholeReading, QuietRelease
<1>6. StoredApplicationsValidate
  <2>1. ASSUME NEW id \in IdsIn(applications)
        PROVE  /\ NormalizeApplication(applications[id]) = applications[id]
               /\ ValidateApplication(applications[id],
                     IF backend = "memory" THEN certificates ELSE CertificateIds)
    <3>1. /\ NormalizeApplication(applications[id]) = applications[id]
          /\ ValidateApplication(applications[id], certificates)
      BY <1>1, <1>2, Zenon
    <3>2. PICK others : others = IF backend = "memory" THEN certificates ELSE CertificateIds
      OBVIOUS
    <3>3. certificates \in SUBSET others
      BY <1>1, <1>2, <3>2
    <3>4. ValidateApplication(applications[id], others)
      BY <3>1, <3>3, CertificatesKnown
    <3> QED BY <3>1, <3>2, <3>4
  <2> QED BY <2>1, Zenon DEF StoredApplicationsValidate
<1>7. Outputs
  <2>1. ReleasedRoutesReachUpstreams
    BY <1>3 DEF ReleasedRoutesReachUpstreams, Range
  <2>2. AccessIndexAgreesWithList
    <3>1. PICK list : list = <<>>
      OBVIOUS
    <3>2. list \in Seq(ListedEntry) /\ InTurn(list) /\ Range(list) = {}
      BY <3>1 DEF InTurn, Range
    <3>3. gateway.index = BuildIPAccessIndex(list) /\ gateway.listed = Range(list)
      BY <1>3, <3>1, <3>2
    <3>4. ASSUME NEW kind, NEW scope, NEW address \in Addresses
          PROVE  Lookup(gateway.index, kind, scope, address) = Scan(gateway.listed, kind, scope, address)
      BY <3>2, <3>3, LookupIsScan
    <3> QED BY <3>4, Zenon DEF AccessIndexAgreesWithList
  <2>3. ~nginx.quiet
    BY <1>3
  <2> QED BY <2>1, <2>2, <2>3 DEF Outputs, QuietReleasesServeEveryHost, RollbackRendersTheSame
<1> QED BY <1>3, <1>4, <1>5, <1>6, <1>7, InvariantParts

LEMMA IInvStep ==
  ASSUME IInv, [Next]_vars
  PROVE  IInv'
<1>1. CASE UNCHANGED vars
  <2>1. UNCHANGED <<backend, store, saving, deleting, release, gateway, nginx>>
    BY <1>1 DEF vars
  <2>2. RequestsInv'
    BY <2>1, InvariantParts DEF RequestsInv
  <2>3. UNCHANGED <<store, release>> /\ UnchangedByEdits
    BY <2>1 DEF UnchangedByEdits
  <2> QED BY <2>2, <2>3, RequestWaits
<1>2. ASSUME NEW id \in ApplicationIds, SaveApplication(id) \/ DeleteApplication(id)
      PROVE  IInv'
  BY <1>2, SaveApplicationKeeps, DeleteApplicationKeeps
<1>3. CASE CommitApplication \/ CommitCertificateDeletion \/ CreateCertificate
  BY <1>3, CommitApplicationKeeps, CommitCertificateDeletionKeeps, CreateCertificateKeeps
<1>4. ASSUME NEW c \in CertificateIds, DeleteCertificate(c)
      PROVE  IInv'
  BY <1>4, DeleteCertificateKeeps
<1>5. ASSUME NEW id \in SiteIds, SaveSite(id) \/ DeleteSite(id)
      PROVE  IInv'
  BY <1>5, SitesKeep
<1>6. ASSUME NEW id \in EntryIds, SaveEntry(id) \/ DeleteEntry(id)
      PROVE  IInv'
  BY <1>6, EntriesKeep
<1>7. CASE StartRelease \/ ReadStep
  BY <1>7, StartReleaseKeeps, ReadStepKeeps
<1>8. CASE Readiness \/ Review \/ Validate
  BY <1>8, ChecksKeep, ReviewKeeps
<1>9. CASE Generate \/ WriteArtifacts
  BY <1>9, GenerateKeeps, WriteArtifactsKeeps
<1> QED BY <1>1, <1>2, <1>3, <1>4, <1>5, <1>6, <1>7, <1>8, <1>9 DEF Next

\* Whatever was stored before, the tables, the request and the release keep their types.
THEOREM ApplicationsTyped == Spec => []TypeInv
<1>1. IInv => TypeInv
  BY DEF IInv
<1> QED BY <1>1, IInvInit, IInvStep, PTL DEF Spec

\* For any bodies and however saves, deletions of certificates and releases
\* overlap, what is stored is normalised and ValidateApplication accepts it.
THEOREM StoredStayValid == Spec => []StoredApplicationsValidate
<1>1. IInv => StoredApplicationsValidate
  BY DEF IInv
<1> QED BY <1>1, IInvInit, IInvStep, PTL DEF Spec

\* For any number of applications, sites and edits beside a release, the enabled
\* routes of gateway.json have upstreams and are in strict order, unless the
\* reading itself was torn.
THEOREM RoutesReachUpstreams == Spec => []ReleasedRoutesReachUpstreams
<1>1. IInv => ReleasedRoutesReachUpstreams
  BY DEF IInv
<1> QED BY <1>1, IInvInit, IInvStep, PTL DEF Spec

\* For any applications and sites, a release that no edit overlapped has an nginx
\* server for each host and none twice on a port of a protocol.
THEOREM EveryHostOnce == Spec => []QuietReleasesServeEveryHost
<1>1. IInv => QuietReleasesServeEveryHost
  BY DEF IInv
<1> QED BY <1>1, IInvInit, IInvStep, PTL DEF Spec

\* For any applications, their servers can be rendered again from the Gateway
\* configuration of the release: a rollback without artifacts serves the same.
THEOREM RollbackServesTheSame == Spec => []RollbackRendersTheSame
<1>1. IInv => RollbackRendersTheSame
  BY DEF IInv
<1> QED BY <1>1, IInvInit, IInvStep, PTL DEF Spec

\* For any entries stored, of any width of address, the index in gateway.json
\* decides each address as the list of entries does.
THEOREM IndexDecidesLikeTheList == Spec => []AccessIndexAgreesWithList
<1>1. IInv => AccessIndexAgreesWithList
  BY DEF IInv
<1> QED BY <1>1, IInvInit, IInvStep, PTL DEF Spec

\* For any applications, certificates and ports, what a release that no edit
\* overlaps reads after its first check passes all checks of applications again.
THEOREM LaterChecksPass == Spec => []QuietApplicationsPassLaterChecks
<1>1. ASSUME IInv, release # None, release.quiet, release.step # "readiness",
             release.read >= 0, Read(release)
      PROVE  /\ \A ports \in {AllPorts, MappedPorts(ListenerMode, PortRange)} :
                   ReadinessErrors(release.list, certificates, Scopes, ports) = {}
             /\ UsedCertificates(release.list) \subseteq certificates
  <2>1. release.list \in Seq(NumberedApplication) /\ Ready(release.list)
    BY <1>1, ListedSoFar DEF Reads
  <2> QED BY <2>1, ReadyForAllPorts, CertificatesThere DEF Ready
<1>2. IInv => QuietApplicationsPassLaterChecks
  BY <1>1 DEF QuietApplicationsPassLaterChecks
<1> QED BY <1>2, IInvInit, IInvStep, PTL DEF Spec
=============================================================================
