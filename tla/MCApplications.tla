---------------------------- MODULE MCApplications ----------------------------
(***************************************************************************)
(* Stores and request bodies for checking Applications.                    *)
(***************************************************************************)
EXTENDS Applications, TLC

Host(name, spelt) == [host |-> [name |-> name, spelt |-> spelt], primary |-> FALSE]
Listener(port, protocol, certificate, enabled) ==
    [port |-> port, protocol |-> protocol, certificate |-> certificate, enabled |-> enabled]
Upstream(name, enabled) == [name |-> name, scheme |-> "http", enabled |-> enabled]
Route(upstream, priority, enabled) ==
    [path |-> "", match |-> "", upstream |-> upstream, priority |-> priority,
     enabled |-> enabled, proxy |-> NoProxy]

Plain ==
    [mode |-> "", enabled |-> TRUE, hosts |-> <<Host("a", "capitals")>>,
     listeners |-> <<Listener(80, "http", NoCertificate, TRUE)>>,
     upstreams |-> <<Upstream("", TRUE)>>, routes |-> <<Route("", 0, TRUE)>>, proxy |-> NoProxy]
Secure ==
    [mode |-> "protect", enabled |-> TRUE, hosts |-> <<Host("b", "plain"), Host("a", "dotted")>>,
     listeners |-> <<Listener(444, "https", 2, FALSE), Listener(443, "https", 1, TRUE)>>,
     upstreams |-> <<Upstream("u", TRUE), Upstream("v", FALSE)>>,
     routes |-> <<Route("u", 2, TRUE), Route("v", 1, FALSE)>>,
     proxy |-> [NoProxy EXCEPT !.headers = <<"blank", "well-formed">>, !.buffering = "yes"]]
Both == [Secure EXCEPT !.listeners = <<Listener(80, "http", NoCertificate, TRUE),
                                       Listener(81, "http", NoCertificate, FALSE)>>]
Far == [Plain EXCEPT !.listeners = <<Listener(90, "http", NoCertificate, TRUE)>>]
Silent == [Plain EXCEPT !.listeners = <<Listener(80, "http", NoCertificate, FALSE)>>]
Off(app) == [app EXCEPT !.enabled = FALSE]
Unrouted == [Secure EXCEPT !.routes = <<Route("v", 0, TRUE)>>]
SomeApplications == {Plain, Secure, Both, Far, Silent, Off(Secure), Unrouted}

Site(name, spelt) ==
    [host |-> [name |-> name, spelt |-> spelt], scheme |-> "http", mode |-> "", enabled |-> TRUE]
SomeSites == {Site("a", "plain"), Site("a", "dotted"), Site("b", "ported")}

\* The address 5 and two of the networks that hold it.
Entry(kind, bits, length, site, enabled, priority) ==
    [kind |-> kind, target |-> "", site |-> site, enabled |-> enabled, priority |-> priority,
     value |-> [family |-> "ipv4", bits |-> bits, length |-> length]]
IndexedEntries ==
    {Entry("", 5, Whole, 0, TRUE, 0), Entry("block", 5, Whole, 0, TRUE, 1),
     Entry("block", 5, 3, 0, TRUE, 0), Entry("block", 5, 2, 0, TRUE, 0),
     Entry("block", 4, 2, 0, TRUE, 1), Entry("block", 7, 0, 0, TRUE, 2),
     Entry("allow", 5, 1, 0, TRUE, 0), Entry("block", 5, 1, 1, TRUE, 0)}
SomeEntries == {Entry("", 5, Whole, 1, TRUE, 0), Entry("", 5, Whole, 1, FALSE, 0),
                [Entry("", 5, Whole, 1, TRUE, 0) EXCEPT !.value = Malformed]}

Nothing(ids) == [id \in ids |-> None]
Store(apps, listed, edits) ==
    [applications |-> [i \in ApplicationIds |->
                         IF i \in DOMAIN apps THEN NormalizeApplication(apps[i]) ELSE None],
     entries |-> listed @@ Nothing(EntryIds), sites |-> Nothing(SiteIds),
     certificates |-> {1}, edits |-> edits,
     next |-> [application |-> Len(apps) + 1, site |-> 1, certificate |-> 2,
               entry |-> Cardinality(DOMAIN listed) + 1]]
EntryLists == [1 .. 2 -> {NormalizeEntry(e) : e \in IndexedEntries}]
SomeStores ==
    {Store(<<>>, <<>>, 0), Store(<<Plain>>, <<>>, 0), Store(<<Plain, Secure>>, <<>>, 0)} \cup
    {Store(<<Plain>>, list, MaxEdits) : list \in EntryLists}

SomeTexts ==
    {"", "/", "prefix", "monitor", "protect", "primary", "u", "v", "a", "b", "http", "https",
     "plain", "capitals", "dotted", "ported", "on", "off", "yes", "unset", "blank", "well-formed"}
SomeRanges == {<<80, 80>>, <<443, 443>>, <<0, 90>>}
=============================================================================
