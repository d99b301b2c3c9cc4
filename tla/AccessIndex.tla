------------------------------ MODULE AccessIndex ------------------------------
(***************************************************************************)
(* Entries of the IP access list, the index of them that a release gives   *)
(* to the Gateway, and what the list itself says of an address.            *)
(*                                                                         *)
(* An address is a family and a number of Width bits; a network also has a *)
(* prefix length.  The text of an entry is one of these, or ill-formed.    *)
(***************************************************************************)
EXTENDS Lists

CONSTANT Width     \* bits of an address

ASSUME WidthAssumption == Width \in Nat

Whole == -1        \* the length of a text that is an address and no network
Malformed == [family |-> "none", bits |-> 0, length |-> Whole]
Families == {"ipv4", "ipv6"}
Addresses == [family : Families, bits : 0 .. 2 ^ Width - 1]

\* The number with all but its first n bits cleared.
Masked(bits, n) == bits - (bits % 2 ^ (Width - n))

\* Requests, and the entries that are stored.
RawEntry ==
    [kind : STRING, target : STRING, site : Int, enabled : BOOLEAN, priority : Int,
     value : [family : STRING, bits : 0 .. 2 ^ Width - 1, length : Int]]
IPAccessListEntry ==
    {e \in [kind : {"allow", "block"}, target : {"ip", "cidr"}, site : Nat, enabled : BOOLEAN,
            priority : Nat, length : 0 .. Width, network : Addresses] :
        /\ e.target = "ip" => e.length = Width
        /\ e.network.bits = Masked(e.network.bits, e.length)}
-----------------------------------------------------------------------------
(***************************************************************************)
(* A request made into an entry                                            *)
(***************************************************************************)
Defaults(raw) ==
    [raw EXCEPT !.kind = IF @ = "" THEN "block" ELSE @,
                !.target = IF @ # "" THEN @ ELSE IF raw.value.length = Whole THEN "ip" ELSE "cidr",
                !.priority = IF @ = 0 THEN 100 ELSE @]

\* ParseAddr takes no prefix length, ParsePrefix one that fits.
Parses(item) ==
    /\ item.value.family \in Families
    /\ IF item.target = "ip" THEN item.value.length = Whole ELSE item.value.length \in 0 .. Width

AcceptsEntry(raw) ==
    LET item == Defaults(raw) IN
    /\ item.site >= 0 /\ item.kind \in {"allow", "block"} /\ item.target \in {"ip", "cidr"}
    /\ item.priority >= 0 /\ Parses(item)

NormalizeEntry(raw) ==
    LET item == Defaults(raw)
        length == IF item.target = "ip" THEN Width ELSE item.value.length
    IN [kind |-> item.kind, target |-> item.target, site |-> item.site,
        enabled |-> item.enabled, priority |-> item.priority, length |-> length,
        network |-> [family |-> item.value.family, bits |-> Masked(item.value.bits, length)]]
-----------------------------------------------------------------------------
(***************************************************************************)
(* The index: where each value of each scope is, and the lengths to try.   *)
(***************************************************************************)
\* An address is found by its text alone, a network under its length.
Place(e) == [kind |-> e.kind, scope |-> e.site, target |-> e.target, network |-> e.network,
             length |-> e.length]

\* The entries are listed by priority and number; the first of a place keeps it.
BuildIPAccessIndex(list) ==
    LET live == {i \in DOMAIN list : list[i].enabled}
        At(place) == {i \in live : Place(list[i]) = place}
        nets == {i \in live : list[i].target = "cidr"}
        Group(i) == <<list[i].kind, list[i].site, list[i].network.family>>
        LengthsOf(group) == {list[i].length : i \in {j \in nets : Group(j) = group}}
    IN [entry |-> [place \in {Place(list[i]) : i \in live} |->
                     list[CHOOSE i \in At(place) : \A j \in At(place) : i <= j].id],
        lengths |-> [group \in {Group(i) : i \in nets} |-> Descending(LengthsOf(group))]]

NoEntry == 0

\* How the Gateway reads it: the address, then the lengths in the order given.
Lookup(index, kind, scope, address) ==
    LET exact == [kind |-> kind, scope |-> scope, target |-> "ip", network |-> address,
                  length |-> Width]
        lengths == IF <<kind, scope, address.family>> \in DOMAIN index.lengths
                   THEN index.lengths[<<kind, scope, address.family>>] ELSE <<>>
        Net(n) == [exact EXCEPT !.target = "cidr", !.length = lengths[n],
                                !.network.bits = Masked(@, lengths[n])]
        hits == {n \in DOMAIN lengths : Net(n) \in DOMAIN index.entry}
    IN IF exact \in DOMAIN index.entry THEN index.entry[exact]
       ELSE IF hits = {} THEN NoEntry
       ELSE index.entry[Net(CHOOSE n \in hits : \A m \in hits : n <= m)]

(***************************************************************************)
(* What the list says: of the enabled entries of the kind and the scope    *)
(* that hold the address, an exact one, else one of the longest prefix;    *)
(* among these the smallest priority, then the oldest.                     *)
(***************************************************************************)
Holds(e, address) ==
    /\ e.network.family = address.family
    /\ address.bits \div 2 ^ (Width - e.length) = e.network.bits \div 2 ^ (Width - e.length)

Better(e, f) ==
    \/ e.target = "ip" /\ f.target = "cidr"
    \/ e.target = f.target /\ e.length > f.length
    \/ /\ e.target = f.target /\ e.length = f.length
       /\ e.priority < f.priority \/ (e.priority = f.priority /\ e.id < f.id)

Scan(set, kind, scope, address) ==
    LET hits == {e \in set : e.enabled /\ e.kind = kind /\ e.site = scope /\ Holds(e, address)}
    IN IF hits = {} THEN NoEntry
       ELSE (CHOOSE e \in hits : \A f \in hits \ {e} : Better(e, f)).id
=============================================================================
