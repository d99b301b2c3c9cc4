--------------------------- MODULE AccessIndexProofs ---------------------------
(***************************************************************************)
(* What a list in order is, whatever the order, and that the index of the  *)
(* access list answers for every address what the list says.               *)
(***************************************************************************)
EXTENDS AccessIndex, FiniteSetTheorems, TLAPS

-----------------------------------------------------------------------------
(***************************************************************************)
(* A finite set in an order.  R is the order, as a set of pairs; the rank  *)
(* of an element is the number of elements up to itself.                   *)
(***************************************************************************)
Orders(R, S) ==
  /\ \A x \in S : <<x, x>> \notin R
  /\ \A x, y, z \in S : <<x, y>> \in R /\ <<y, z>> \in R => <<x, z>> \in R
  /\ \A x, y \in S : x = y \/ <<x, y>> \in R \/ <<y, x>> \in R
UpTo(x, S, R) == {y \in S : y = x \/ <<y, x>> \in R}
Ranked(S, R) == [k \in 1 .. Cardinality(S) |-> CHOOSE x \in S : Cardinality(UpTo(x, S, R)) = k]

LEMMA RanksFollowTheOrder ==
  ASSUME NEW S, IsFiniteSet(S), NEW R, Orders(R, S)
  PROVE  /\ \A x \in S : Cardinality(UpTo(x, S, R)) \in 1 .. Cardinality(S)
         /\ \A x, y \in S : <<x, y>> \in R =>
                Cardinality(UpTo(x, S, R)) < Cardinality(UpTo(y, S, R))
<1>1. ASSUME NEW x \in S
      PROVE  /\ IsFiniteSet(UpTo(x, S, R)) /\ x \in UpTo(x, S, R)
             /\ Cardinality(UpTo(x, S, R)) \in 1 .. Cardinality(S)
  <2>1. UpTo(x, S, R) \in SUBSET S /\ x \in UpTo(x, S, R)
    BY DEF UpTo
  <2>2. /\ IsFiniteSet(UpTo(x, S, R)) /\ Cardinality(UpTo(x, S, R)) <= Cardinality(S)
        /\ Cardinality(UpTo(x, S, R)) \in Nat /\ Cardinality(S) \in Nat
    BY <2>1, FS_Subset, FS_CardinalityType
  <2>3. Cardinality(UpTo(x, S, R)) # 0
    BY <2>1, <2>2, FS_EmptySet
  <2> QED BY <2>1, <2>2, <2>3
<1>2. ASSUME NEW x \in S, NEW y \in S, <<x, y>> \in R
      PROVE  Cardinality(UpTo(x, S, R)) < Cardinality(UpTo(y, S, R))
  <2>1. UpTo(x, S, R) \in SUBSET UpTo(y, S, R)
    BY <1>2 DEF UpTo, Orders
  <2>2. y \in UpTo(y, S, R) /\ y \notin UpTo(x, S, R)
    BY <1>2 DEF UpTo, Orders
  <2>3. UpTo(x, S, R) # UpTo(y, S, R)
    BY <2>2
  <2>4. /\ Cardinality(UpTo(x, S, R)) <= Cardinality(UpTo(y, S, R))
        /\ Cardinality(UpTo(x, S, R)) # Cardinality(UpTo(y, S, R))
    BY <1>1, <2>1, <2>3, FS_Subset
  <2>5. Cardinality(UpTo(x, S, R)) \in Nat /\ Cardinality(UpTo(y, S, R)) \in Nat
    BY <1>1, FS_CardinalityType
  <2> QED BY <2>4, <2>5
<1> QED BY <1>1, <1>2

LEMMA RankedInOrder ==
  ASSUME NEW S, IsFiniteSet(S), NEW R, Orders(R, S)
  PROVE  LET f == Ranked(S, R) n == Cardinality(S) IN
         /\ n \in Nat /\ f \in [1 .. n -> S]
         /\ \A x \in S : \E k \in 1 .. n : f[k] = x
         /\ \A i, j \in 1 .. n : i < j <=> <<f[i], f[j]>> \in R
         /\ \A i, j \in 1 .. n : f[i] = f[j] => i = j
<1> DEFINE n == Cardinality(S)
           rank == [x \in S |-> Cardinality(UpTo(x, S, R))]
           f == Ranked(S, R)
<1>1. n \in Nat /\ IsFiniteSet(1 .. n) /\ Cardinality(1 .. n) = n
  BY FS_CardinalityType, FS_Interval
<1>2. rank \in [S -> 1 .. n]
  BY RanksFollowTheOrder
<1>3. \A x, y \in S : <<x, y>> \in R => rank[x] < rank[y]
  BY RanksFollowTheOrder
<1> HIDE DEF rank
<1>4. \A x \in S : rank[x] \in Nat
  BY <1>1, <1>2
<1>5. \A x, y \in S : rank[x] = rank[y] => x = y
  <2>1. SUFFICES ASSUME NEW x \in S, NEW y \in S, rank[x] = rank[y] PROVE x = y
    OBVIOUS
  <2>2. ~(rank[x] < rank[y]) /\ ~(rank[y] < rank[x])
    BY <1>4, <2>1
  <2> QED BY <1>3, <2>2 DEF Orders
<1>6. rank \in Injection(S, 1 .. n)
  BY <1>2, <1>5 DEF Injection, IsInjective
<1>7. rank \in Surjection(S, 1 .. n)
  BY <1>1, <1>6, FS_Injection
<1>8. \A k \in 1 .. n : \E x \in S : rank[x] = k
  BY <1>7 DEF Surjection
<1>9. \A k \in 1 .. n : f[k] \in S /\ rank[f[k]] = k
  BY <1>8 DEF Ranked, rank
<1>10. f \in [1 .. n -> S]
  BY <1>9 DEF Ranked
<1>11. \A x \in S : \E k \in 1 .. n : f[k] = x
  BY <1>2, <1>5, <1>9
<1>12. ASSUME NEW i \in 1 .. n, NEW j \in 1 .. n
       PROVE  /\ i < j <=> <<f[i], f[j]>> \in R
              /\ f[i] = f[j] => i = j
  <2>1. i \in Nat /\ j \in Nat /\ rank[f[i]] = i /\ rank[f[j]] = j /\ f[i] \in S /\ f[j] \in S
    BY <1>1, <1>9
  <2>2. f[i] = f[j] \/ <<f[i], f[j]>> \in R \/ <<f[j], f[i]>> \in R
    BY <2>1 DEF Orders
  <2> HIDE DEF f
  <2>3. <<f[i], f[j]>> \in R => i < j
    BY <1>3, <2>1
  <2>4. <<f[j], f[i]>> \in R => j < i
    BY <1>3, <2>1
  <2> QED BY <2>1, <2>2, <2>3, <2>4
<1> QED BY <1>1, <1>10, <1>11, <1>12

\* The numbers of a finite set in increasing order.
LEMMA AscendingNumbers ==
  ASSUME NEW S \in SUBSET Int, IsFiniteSet(S)
  PROVE  LET f == Ascending(S) n == Cardinality(S) IN
         /\ n \in Nat /\ f \in [1 .. n -> S]
         /\ \A x \in S : \E k \in 1 .. n : f[k] = x
         /\ \A i, j \in 1 .. n : i < j <=> f[i] < f[j]
<1> DEFINE R == {p \in S \X S : p[1] < p[2]}
           n == Cardinality(S)
           A(k) == CHOOSE x \in S : Cardinality({y \in S : y = x \/ y < x}) = k
           B(k) == CHOOSE x \in S : Cardinality(UpTo(x, S, R)) = k
<1>1. Orders(R, S)
  BY DEF Orders
<1>2. \A x \in S : UpTo(x, S, R) = {y \in S : y = x \/ y < x}
  BY DEF UpTo
<1>3. \A x, y \in S : <<x, y>> \in R <=> x < y
  OBVIOUS
<1> HIDE DEF R
<1>4. \A k \in 1 .. n : A(k) = B(k)
  BY <1>2
<1>5. Ascending(S) = [k \in 1 .. n |-> A(k)] /\ Ranked(S, R) = [k \in 1 .. n |-> B(k)]
  BY Zenon DEF Ascending, InOrder, Ranked
<1> HIDE DEF A, B
<1>6. Ascending(S) = Ranked(S, R)
  BY <1>4, <1>5
<1> DEFINE f == Ranked(S, R)
<1>7. /\ n \in Nat /\ f \in [1 .. n -> S]
      /\ \A x \in S : \E k \in 1 .. n : f[k] = x
      /\ \A i, j \in 1 .. n : i < j <=> <<f[i], f[j]>> \in R
  BY <1>1, RankedInOrder
<1> HIDE DEF f
<1>8. QED
  BY <1>3, <1>6, <1>7 DEF f

\* The numbers of a finite set in decreasing order.
LEMMA DescendingNumbers ==
  ASSUME NEW S \in SUBSET Int, IsFiniteSet(S)
  PROVE  LET f == Descending(S) n == Cardinality(S) IN
         /\ n \in Nat /\ f \in [1 .. n -> S]
         /\ \A x \in S : \E k \in 1 .. n : f[k] = x
         /\ \A i, j \in 1 .. n : i < j <=> f[i] > f[j]
<1> DEFINE R == {p \in S \X S : p[1] > p[2]}
           n == Cardinality(S)
           A(k) == CHOOSE x \in S : Cardinality({y \in S : y = x \/ y > x}) = k
           B(k) == CHOOSE x \in S : Cardinality(UpTo(x, S, R)) = k
<1>1. Orders(R, S)
  BY DEF Orders
<1>2. \A x \in S : UpTo(x, S, R) = {y \in S : y = x \/ y > x}
  BY DEF UpTo
<1>3. \A x, y \in S : <<x, y>> \in R <=> x > y
  OBVIOUS
<1> HIDE DEF R
<1>4. \A k \in 1 .. n : A(k) = B(k)
  BY <1>2
<1>5. Descending(S) = [k \in 1 .. n |-> A(k)] /\ Ranked(S, R) = [k \in 1 .. n |-> B(k)]
  BY Zenon DEF Descending, InOrder, Ranked
<1> HIDE DEF A, B
<1>6. Descending(S) = Ranked(S, R)
  BY <1>4, <1>5
<1> DEFINE f == Ranked(S, R)
<1>7. /\ n \in Nat /\ f \in [1 .. n -> S]
      /\ \A x \in S : \E k \in 1 .. n : f[k] = x
      /\ \A i, j \in 1 .. n : i < j <=> <<f[i], f[j]>> \in R
  BY <1>1, RankedInOrder
<1> HIDE DEF f
<1>8. QED
  BY <1>3, <1>6, <1>7 DEF f

\* The numbers of a list are in order.
LEMMA AscendingInterval ==
  ASSUME NEW n \in Nat
  PROVE  Ascending(1 .. n) = [k \in 1 .. n |-> k]
<1> DEFINE A(k) == CHOOSE x \in 1 .. n : Cardinality({y \in 1 .. n : y = x \/ y < x}) = k
<1>1. Cardinality(1 .. n) = n
  BY FS_Interval
<1>2. \A x \in 1 .. n : Cardinality({y \in 1 .. n : y = x \/ y < x}) = x
  <2>1. TAKE x \in 1 .. n
  <2>2. {y \in 1 .. n : y = x \/ y < x} = 1 .. x
    OBVIOUS
  <2>3. Cardinality(1 .. x) = x
    BY FS_Interval
  <2> QED BY <2>2, <2>3
<1>3. \A k \in 1 .. n : A(k) = k
  BY <1>2
<1>4. Ascending(1 .. n) = [k \in 1 .. Cardinality(1 .. n) |-> A(k)]
  BY Zenon DEF Ascending, InOrder
<1> HIDE DEF A
<1> QED BY <1>1, <1>3, <1>4

\* The items of a list at some of its numbers, in order.
Chosen(list, I) == Each(LAMBDA i : list[i], Ascending(I))

LEMMA ChosenItems ==
  ASSUME NEW X, NEW list \in Seq(X), NEW I \in SUBSET DOMAIN list
  PROVE  LET kept == Chosen(list, I) at == Ascending(I) IN
         /\ kept \in Seq(X) /\ at \in [DOMAIN kept -> I]
         /\ \A k \in DOMAIN kept : kept[k] = list[at[k]]
         /\ \A j, k \in DOMAIN kept : at[j] = at[k] => j = k
         /\ Range(kept) = {list[i] : i \in I}
<1> DEFINE kept == Chosen(list, I)
           at == Ascending(I)
           n == Cardinality(I)
<1>1. list \in [1 .. Len(list) -> X] /\ Len(list) \in Nat /\ DOMAIN list = 1 .. Len(list)
  OBVIOUS
<1>2. IsFiniteSet(I) /\ I \in SUBSET Int
  <2>1. I \in SUBSET (1 .. Len(list)) /\ IsFiniteSet(1 .. Len(list))
    BY <1>1, FS_Interval
  <2> QED BY <2>1, FS_Subset
<1>3. /\ n \in Nat /\ at \in [1 .. n -> I]
      /\ \A x \in I : \E k \in 1 .. n : at[k] = x
      /\ \A i, j \in 1 .. n : i < j <=> at[i] < at[j]
  BY <1>2, AscendingNumbers
<1> HIDE DEF at
<1>4. kept = [k \in 1 .. n |-> list[at[k]]]
  BY <1>3 DEF Chosen, Each, at
<1>5. kept \in [1 .. n -> X]
  BY <1>1, <1>3, <1>4
<1>6. kept \in Seq(X) /\ DOMAIN kept = 1 .. n
  BY <1>3, <1>5
<1>7. \A j, k \in 1 .. n : at[j] = at[k] => j = k
  BY <1>2, <1>3
<1>8. Range(kept) = {list[i] : i \in I}
  BY <1>3, <1>4 DEF Range
<1> HIDE DEF kept
<1> QED BY <1>3, <1>4, <1>6, <1>7, <1>8 DEF at, kept

LEMMA AllChosen ==
  ASSUME NEW X, NEW list \in Seq(X)
  PROVE  Chosen(list, DOMAIN list) = list
<1>1. list = [k \in 1 .. Len(list) |-> list[k]] /\ Len(list) \in Nat /\ DOMAIN list = 1 .. Len(list)
  OBVIOUS
<1>2. Ascending(DOMAIN list) = [k \in 1 .. Len(list) |-> k]
  BY <1>1, AscendingInterval
<1>3. Chosen(list, DOMAIN list) = [k \in 1 .. Len(list) |-> list[k]]
  BY <1>1, <1>2 DEF Chosen, Each
<1> QED BY <1>1, <1>3

-----------------------------------------------------------------------------
(***************************************************************************)
(* Powers of two and masked numbers                                        *)
(***************************************************************************)
LEMMA PowersOfTwo ==
  ASSUME NEW n \in Nat
  PROVE  2 ^ n \in Nat \ {0}
<1> DEFINE S == 1 .. n
<1>1. IsFiniteSet(S) /\ Cardinality(S) = n
  BY FS_Interval
<1>2. IsFiniteSet(SUBSET S) /\ Cardinality(SUBSET S) = 2 ^ n
  BY <1>1, FS_SUBSET
<1>3. SUBSET S # {}
  OBVIOUS
<1>4. Cardinality(SUBSET S) \in Nat /\ Cardinality(SUBSET S) # 0
  BY <1>2, <1>3, FS_CardinalityType, FS_EmptySet
<1> QED BY <1>2, <1>4

LEMMA ZerothPower == 2 ^ 0 = 1
<1>1. IsFiniteSet({}) /\ Cardinality({}) = 0 /\ SUBSET {} = {{}}
  BY FS_EmptySet
<1>2. Cardinality(SUBSET {}) = 2 ^ 0
  BY <1>1, FS_SUBSET
<1>3. Cardinality({{}}) = 1
  BY FS_Singleton
<1> QED BY <1>1, <1>2, <1>3

LEMMA Division ==
  ASSUME NEW x \in Nat, NEW d \in Nat \ {0}
  PROVE  /\ x \div d \in Nat /\ x % d \in 0 .. d - 1
         /\ x = d * (x \div d) + (x % d)
OBVIOUS

LEMMA Multiples ==
  ASSUME NEW p \in Int, NEW q \in Int, NEW d \in Nat \ {0}
  PROVE  d * p = d * q <=> p = q
OBVIOUS

LEMMA DivisionIsUnique ==
  ASSUME NEW q \in Nat, NEW d \in Nat \ {0}
  PROVE  (d * q) % d = 0
OBVIOUS

\* A network holds the addresses that, masked like it, are its own.
LEMMA HoldsMasked ==
  ASSUME NEW e, e.length \in 0 .. Width, e.network.bits \in 0 .. 2 ^ Width - 1,
         e.network.bits = Masked(e.network.bits, e.length), NEW address \in Addresses
  PROVE  Holds(e, address) <=> /\ e.network.family = address.family
                               /\ e.network.bits = Masked(address.bits, e.length)
<1> DEFINE d == 2 ^ (Width - e.length)
           x == e.network.bits
           y == address.bits
<1>1. Width - e.length \in Nat /\ Width \in Nat
  BY WidthAssumption
<1>2. d \in Nat \ {0} /\ 2 ^ Width \in Nat \ {0}
  BY <1>1, PowersOfTwo
<1>3. y \in 0 .. 2 ^ Width - 1
  BY DEF Addresses
<1>4. x \in Nat /\ y \in Nat
  BY <1>2, <1>3
<1>5. x = x - (x % d)
  BY DEF Masked
<1>6. Masked(y, e.length) = y - (y % d)
  BY DEF Masked
<1>7. Holds(e, address) <=> e.network.family = address.family /\ y \div d = x \div d
  BY DEF Holds
<1> HIDE DEF d, x, y
<1>8. /\ x \div d \in Nat /\ x % d \in 0 .. d - 1 /\ x = d * (x \div d) + (x % d)
      /\ y \div d \in Nat /\ y % d \in 0 .. d - 1 /\ y = d * (y \div d) + (y % d)
  BY <1>2, <1>4, Division, Zenon
<1>9. d * (x \div d) = d * (y \div d) <=> x \div d = y \div d
  <2>1. x \div d \in Int /\ y \div d \in Int
    BY <1>8
  <2> QED BY <1>2, <2>1, Multiples, Zenon
<1>10. x = Masked(y, e.length) <=> d * (x \div d) = d * (y \div d)
  <2> DEFINE p == d * (x \div d)
             q == d * (y \div d)
  <2>1. p \in Int /\ q \in Int
    BY <1>2, <1>8
  <2>2. x = p + (x % d) /\ y = q + (y % d)
    BY <1>8
  <2> HIDE DEF p, q
  <2>3. x = p /\ Masked(y, e.length) = q
    BY <1>4, <1>5, <1>6, <1>8, <2>1, <2>2
  <2> QED BY <2>3 DEF p, q
<1> QED BY <1>7, <1>9, <1>10 DEF x, y

LEMMA MaskedNumbers ==
  ASSUME NEW x \in 0 .. 2 ^ Width - 1, NEW n \in 0 .. Width
  PROVE  /\ Masked(x, n) \in 0 .. 2 ^ Width - 1
         /\ Masked(Masked(x, n), n) = Masked(x, n)
<1> DEFINE d == 2 ^ (Width - n)
<1>1. Width - n \in Nat /\ Width \in Nat
  BY WidthAssumption
<1>2. d \in Nat \ {0} /\ 2 ^ Width \in Nat \ {0}
  BY <1>1, PowersOfTwo
<1>3. x \in Nat
  BY <1>2
<1>4. \A y : Masked(y, n) = y - (y % d)
  BY DEF Masked
<1> HIDE DEF d
<1>5. x \div d \in Nat /\ x % d \in 0 .. d - 1 /\ x = d * (x \div d) + (x % d)
  BY <1>2, <1>3, Division, Zenon
<1> DEFINE p == d * (x \div d)
<1>6. p \in Nat /\ p % d = 0
  BY <1>2, <1>5, DivisionIsUnique
<1>7. x = p + (x % d)
  BY <1>5
<1> HIDE DEF p
<1>8. Masked(x, n) = p /\ Masked(p, n) = p
  BY <1>3, <1>4, <1>5, <1>6, <1>7
<1>9. p \in 0 .. 2 ^ Width - 1
  BY <1>2, <1>3, <1>5, <1>6, <1>7
<1> QED BY <1>8, <1>9

\* A number is masked to itself by an address.
LEMMA AddressesAreWhole ==
  ASSUME NEW x \in Int
  PROVE  Masked(x, Width) = x
<1>1. Width - Width = 0
  BY WidthAssumption
<1>2. Masked(x, Width) = x - (x % 1)
  BY <1>1, ZerothPower DEF Masked
<1> QED BY <1>2

LEMMA StoredEntries ==
  ASSUME NEW raw \in RawEntry, AcceptsEntry(raw)
  PROVE  NormalizeEntry(raw) \in IPAccessListEntry
<1> DEFINE item == Defaults(raw)
           e == NormalizeEntry(raw)
           length == IF item.target = "ip" THEN Width ELSE item.value.length
<1>1. /\ item.kind \in {"allow", "block"} /\ item.target \in {"ip", "cidr"} /\ item.site >= 0
      /\ item.priority >= 0 /\ item.value.family \in Families
      /\ item.target = "cidr" => item.value.length \in 0 .. Width
  BY DEF AcceptsEntry, Parses
<1>2. /\ item.value.bits \in 0 .. 2 ^ Width - 1 /\ item.site \in Int /\ item.enabled \in BOOLEAN
      /\ item.priority \in Int
  BY DEF Defaults, RawEntry
<1>3. length \in 0 .. Width
  BY <1>1, WidthAssumption
<1>4. e = [kind |-> item.kind, target |-> item.target, site |-> item.site,
           enabled |-> item.enabled, priority |-> item.priority, length |-> length,
           network |-> [family |-> item.value.family, bits |-> Masked(item.value.bits, length)]]
  BY DEF NormalizeEntry
<1>5. item.target = "ip" => length = Width
  OBVIOUS
<1> HIDE DEF item, e, length
<1>6. /\ Masked(item.value.bits, length) \in 0 .. 2 ^ Width - 1
      /\ Masked(Masked(item.value.bits, length), length) = Masked(item.value.bits, length)
  BY <1>2, <1>3, MaskedNumbers
<1>7. e \in [kind : {"allow", "block"}, target : {"ip", "cidr"}, site : Nat, enabled : BOOLEAN,
            priority : Nat, length : 0 .. Width, network : Addresses]
  BY <1>1, <1>2, <1>3, <1>4, <1>6 DEF Addresses
<1>8. (e.target = "ip" => e.length = Width) /\ e.network.bits = Masked(e.network.bits, e.length)
  BY <1>4, <1>5, <1>6
<1>9. e \in IPAccessListEntry
  BY <1>7, <1>8 DEF IPAccessListEntry
<1> QED BY <1>9 DEF e

-----------------------------------------------------------------------------
(***************************************************************************)
(* The index of an ordered list                                            *)
(***************************************************************************)
LEMMA LeastNumber ==
  ASSUME NEW S \in SUBSET Nat, S # {}
  PROVE  \E x \in S : \A y \in S : x <= y
<1> DEFINE R == {ss \in Nat \X Nat : ss[1] < ss[2]}
<1>1. IsWellFoundedOn(R, Nat)
  BY NatLessThanWellFounded, Zenon DEF OpToRel
<1>2. \A x, y \in Nat : y < x => <<y, x>> \in R
  OBVIOUS
<1> HIDE DEF R
<1>3. PICK x \in S : \A y \in S : <<y, x>> \notin R
  BY <1>1, WFMin
<1>4. \A y \in S : ~(y < x) /\ y \in Nat /\ x \in Nat
  BY <1>2, <1>3
<1> QED BY <1>4

ListedEntry ==
    {e \in [id : Nat, kind : {"allow", "block"}, target : {"ip", "cidr"}, site : Nat,
            enabled : BOOLEAN, priority : Nat, length : 0 .. Width, network : Addresses] :
        /\ e.target = "ip" => e.length = Width
        /\ e.network.bits = Masked(e.network.bits, e.length)}
Before(e, f) == e.priority < f.priority \/ (e.priority = f.priority /\ e.id < f.id)
InTurn(list) == \A i, j \in DOMAIN list : i < j => Before(list[i], list[j])

Live(list) == {i \in DOMAIN list : list[i].enabled}
Nets(list) == {i \in Live(list) : list[i].target = "cidr"}
GroupOf(e) == <<e.kind, e.site, e.network.family>>

\* A place of the index has the first of its entries.
LEMMA IndexedPlaces ==
  ASSUME NEW list \in Seq(ListedEntry)
  PROVE  LET entry == BuildIPAccessIndex(list).entry IN
         /\ DOMAIN entry = {Place(list[i]) : i \in Live(list)}
         /\ \A p \in DOMAIN entry : \E i \in Live(list) :
              /\ Place(list[i]) = p /\ entry[p] = list[i].id
              /\ \A j \in Live(list) : Place(list[j]) = p => i <= j
<1> DEFINE At(p) == {i \in Live(list) : Place(list[i]) = p}
           First(p) == CHOOSE i \in At(p) : \A j \in At(p) : i <= j
           entry == BuildIPAccessIndex(list).entry
           places == {Place(list[i]) : i \in Live(list)}
<1>1. entry = [p \in places |-> list[First(p)].id]
  BY DEF BuildIPAccessIndex, Live
<1>2. ASSUME NEW p \in places
      PROVE  First(p) \in At(p) /\ \A j \in At(p) : First(p) <= j
  <2>1. At(p) \in SUBSET Nat
    BY DEF Live
  <2>2. At(p) # {}
    OBVIOUS
  <2>3. \E i \in At(p) : \A j \in At(p) : i <= j
    BY <2>1, <2>2, LeastNumber
  <2> QED BY <2>3
<1> HIDE DEF First
<1>3. \A p \in places : /\ First(p) \in Live(list) /\ Place(list[First(p)]) = p
                        /\ \A j \in Live(list) : Place(list[j]) = p => First(p) <= j
  BY <1>2
<1> HIDE DEF entry, At, places
<1>4. DOMAIN entry = places /\ \A p \in places : entry[p] = list[First(p)].id
  BY <1>1
<1> QED BY <1>3, <1>4 DEF entry, places

\* The lengths of a group are those of its networks, the longest first.
LEMMA IndexedLengths ==
  ASSUME NEW list \in Seq(ListedEntry)
  PROVE  LET lengths == BuildIPAccessIndex(list).lengths IN
         /\ DOMAIN lengths = {GroupOf(list[i]) : i \in Nets(list)}
         /\ \A g \in DOMAIN lengths : \E n \in Nat :
              /\ lengths[g] \in [1 .. n -> {list[i].length : i \in {j \in Nets(list) : GroupOf(list[j]) = g}}]
              /\ \A i \in Nets(list) : GroupOf(list[i]) = g => \E k \in 1 .. n : lengths[g][k] = list[i].length
              /\ \A i, j \in 1 .. n : i < j <=> lengths[g][i] > lengths[g][j]
<1> DEFINE LengthsOf(g) == {list[i].length : i \in {j \in Nets(list) : GroupOf(list[j]) = g}}
           groups == {GroupOf(list[i]) : i \in Nets(list)}
           lengths == BuildIPAccessIndex(list).lengths
<1>1. lengths = [g \in groups |-> Descending(LengthsOf(g))]
  BY DEF BuildIPAccessIndex, Live, Nets, GroupOf
<1>2. ASSUME NEW g \in groups
      PROVE  LengthsOf(g) \in SUBSET Int /\ IsFiniteSet(LengthsOf(g))
  <2>1. \A i \in DOMAIN list : list[i].length \in 0 .. Width
    BY DEF ListedEntry
  <2>2. LengthsOf(g) \in SUBSET (0 .. Width)
    BY <2>1 DEF Nets, Live
  <2>3. IsFiniteSet(0 .. Width)
    BY FS_Interval, WidthAssumption
  <2> HIDE DEF LengthsOf
  <2>4. IsFiniteSet(LengthsOf(g))
    BY <2>2, <2>3, FS_Subset
  <2> QED BY <2>2, <2>4
<1> HIDE DEF lengths
<1>3. DOMAIN lengths = groups /\ \A g \in groups : lengths[g] = Descending(LengthsOf(g))
  BY <1>1
<1>4. ASSUME NEW g \in groups
      PROVE  \E n \in Nat :
              /\ lengths[g] \in [1 .. n -> LengthsOf(g)]
              /\ \A x \in LengthsOf(g) : \E k \in 1 .. n : lengths[g][k] = x
              /\ \A i, j \in 1 .. n : i < j <=> lengths[g][i] > lengths[g][j]
  <2> HIDE DEF LengthsOf, groups
  <2>1. LengthsOf(g) \in SUBSET Int /\ IsFiniteSet(LengthsOf(g)) /\ lengths[g] = Descending(LengthsOf(g))
    BY <1>2, <1>3
  <2> DEFINE n == Cardinality(LengthsOf(g))
  <2>2. /\ n \in Nat /\ lengths[g] \in [1 .. n -> LengthsOf(g)]
        /\ \A x \in LengthsOf(g) : \E k \in 1 .. n : lengths[g][k] = x
        /\ \A i, j \in 1 .. n : i < j <=> lengths[g][i] > lengths[g][j]
    BY <2>1, DescendingNumbers
  <2> HIDE DEF n
  <2> QED BY <2>2
<1>5. \A g : \A i \in Nets(list) : GroupOf(list[i]) = g => list[i].length \in LengthsOf(g)
  OBVIOUS
<1>6. ASSUME NEW g \in groups
      PROVE  \E n \in Nat :
              /\ lengths[g] \in [1 .. n -> LengthsOf(g)]
              /\ \A i \in Nets(list) : GroupOf(list[i]) = g => \E k \in 1 .. n : lengths[g][k] = list[i].length
              /\ \A i, j \in 1 .. n : i < j <=> lengths[g][i] > lengths[g][j]
  <2> HIDE DEF LengthsOf, groups
  <2> QED BY <1>4, <1>5
<1> QED BY <1>3, <1>6 DEF lengths

LEMMA OneIsBest ==
  ASSUME NEW hits \in SUBSET ListedEntry, NEW e \in hits, \A f \in hits \ {e} : Better(e, f)
  PROVE  (CHOOSE x \in hits : \A f \in hits \ {x} : Better(x, f)) = e
<1> DEFINE b == CHOOSE x \in hits : \A f \in hits \ {x} : Better(x, f)
<1>1. b \in hits /\ \A f \in hits \ {b} : Better(b, f)
  OBVIOUS
<1> HIDE DEF b
<1>2. SUFFICES ASSUME b # e PROVE FALSE
  BY DEF b
<1>3. Better(b, e) /\ Better(e, b)
  BY <1>1, <1>2
<1>4. /\ b.length \in Int /\ b.priority \in Int /\ b.id \in Int
      /\ e.length \in Int /\ e.priority \in Int /\ e.id \in Int
  BY <1>1 DEF ListedEntry
<1> QED BY <1>3, <1>4 DEF Better

\* For every list in turn, address, kind and scope the index answers what
\* the list says.
THEOREM LookupIsScan ==
  ASSUME NEW list \in Seq(ListedEntry), InTurn(list),
         NEW kind, NEW scope, NEW address \in Addresses
  PROVE  Lookup(BuildIPAccessIndex(list), kind, scope, address)
           = Scan(Range(list), kind, scope, address)
<1> DEFINE index == BuildIPAccessIndex(list)
           exact == [kind |-> kind, scope |-> scope, target |-> "ip", network |-> address,
                     length |-> Width]
           group == <<kind, scope, address.family>>
           lengths == IF group \in DOMAIN index.lengths THEN index.lengths[group] ELSE <<>>
           Net(n) == [exact EXCEPT !.target = "cidr", !.length = lengths[n],
                                   !.network.bits = Masked(@, lengths[n])]
           tries == {n \in DOMAIN lengths : Net(n) \in DOMAIN index.entry}
           first == CHOOSE n \in tries : \A m \in tries : n <= m
           hits == {e \in Range(list) : /\ e.enabled /\ e.kind = kind /\ e.site = scope
                                        /\ Holds(e, address)}
           best == CHOOSE e \in hits : \A f \in hits \ {e} : Better(e, f)
<1>1. /\ Lookup(index, kind, scope, address)
           = IF exact \in DOMAIN index.entry THEN index.entry[exact]
             ELSE IF tries = {} THEN NoEntry ELSE index.entry[Net(first)]
      /\ Scan(Range(list), kind, scope, address) = IF hits = {} THEN NoEntry ELSE best.id
  BY DEF Lookup, Scan
<1>2. /\ list \in [1 .. Len(list) -> ListedEntry] /\ Len(list) \in Nat
      /\ DOMAIN list = 1 .. Len(list) /\ Range(list) \in SUBSET ListedEntry
      /\ \A e \in Range(list) : \E i \in DOMAIN list : e = list[i]
      /\ \A i \in DOMAIN list : list[i] \in Range(list)
  BY DEF Range
<1> HIDE DEF index
<1>3. /\ DOMAIN index.entry = {Place(list[i]) : i \in Live(list)}
      /\ \A p \in DOMAIN index.entry : \E i \in Live(list) :
              /\ Place(list[i]) = p /\ index.entry[p] = list[i].id
              /\ \A j \in Live(list) : Place(list[j]) = p => i <= j
  BY IndexedPlaces DEF index
<1>4. /\ DOMAIN index.lengths = {GroupOf(list[i]) : i \in Nets(list)}
      /\ \A g \in DOMAIN index.lengths : \E n \in Nat :
            /\ index.lengths[g]
                 \in [1 .. n -> {list[i].length : i \in {j \in Nets(list) : GroupOf(list[j]) = g}}]
            /\ \A i \in Nets(list) :
                 GroupOf(list[i]) = g => \E k \in 1 .. n : index.lengths[g][k] = list[i].length
            /\ \A i, j \in 1 .. n : i < j <=> index.lengths[g][i] > index.lengths[g][j]
  BY IndexedLengths DEF index
\* The hits are the live entries at the exact place or at a net's place.
<1>5. ASSUME NEW i \in Live(list)
      PROVE  /\ i \in DOMAIN list /\ list[i] \in ListedEntry
             /\ list[i] \in hits <=> /\ list[i].kind = kind /\ list[i].site = scope
                                     /\ list[i].network.family = address.family
                                     /\ list[i].network.bits = Masked(address.bits, list[i].length)
             /\ list[i].target = "ip" => (list[i] \in hits <=> Place(list[i]) = exact)
  <2> DEFINE e == list[i]
  <2>1. i \in DOMAIN list /\ e.enabled /\ e \in ListedEntry /\ e \in Range(list)
    BY <1>2 DEF Live
  <2>2. /\ e.length \in 0 .. Width /\ e.network \in Addresses
        /\ e.network.bits = Masked(e.network.bits, e.length)
        /\ e.target = "ip" => e.length = Width
    BY <2>1 DEF ListedEntry
  <2>3. /\ e.network.bits \in 0 .. 2 ^ Width - 1 /\ address.bits \in 0 .. 2 ^ Width - 1
        /\ address = [family |-> address.family, bits |-> address.bits]
        /\ e.network = [family |-> e.network.family, bits |-> e.network.bits]
    BY <2>2 DEF Addresses
  <2> HIDE DEF e
  <2>4. Holds(e, address) <=> /\ e.network.family = address.family
                              /\ e.network.bits = Masked(address.bits, e.length)
    BY <2>2, <2>3, HoldsMasked
  <2>5. e \in hits <=> /\ e.kind = kind /\ e.site = scope
                       /\ e.network.family = address.family
                       /\ e.network.bits = Masked(address.bits, e.length)
    BY <2>1, <2>4
  <2>6. ASSUME e.target = "ip" PROVE e \in hits <=> Place(e) = exact
    <3>1. Masked(address.bits, Width) = address.bits
      <4>1. address.bits \in Int
        BY <2>3, PowersOfTwo, WidthAssumption
      <4> QED BY <4>1, AddressesAreWhole
    <3>2. e \in hits <=> e.kind = kind /\ e.site = scope /\ e.network = address
      BY <2>2, <2>3, <2>5, <2>6, <3>1
    <3>3. Place(e) = exact <=> e.kind = kind /\ e.site = scope /\ e.network = address
      BY <2>2, <2>6 DEF Place
    <3> QED BY <3>2, <3>3
  <2> QED BY <2>1, <2>5, <2>6 DEF e
<1>6. \A e \in hits : \E i \in Live(list) : e = list[i]
  BY <1>2 DEF Live
<1>7. hits \in SUBSET ListedEntry
  BY <1>2
\* Of two entries of one place, the one that comes first is better.
<1>8. ASSUME NEW i \in Live(list), NEW j \in Live(list), Place(list[i]) = Place(list[j]), i <= j,
             list[i] # list[j]
      PROVE  Better(list[i], list[j])
  <2>1. i < j
    BY <1>2, <1>5, <1>8
  <2>2. Before(list[i], list[j])
    BY <1>5, <2>1 DEF InTurn
  <2> QED BY <1>8, <2>2 DEF Better, Before, Place
\* The lengths to try, the longest first.
<1>9. ASSUME group \in DOMAIN index.lengths
      PROVE  \E n \in Nat :
               /\ lengths \in [1 .. n -> 0 .. Width]
               /\ \A i \in Nets(list) : GroupOf(list[i]) = group => \E k \in 1 .. n : lengths[k] = list[i].length
               /\ \A i, j \in 1 .. n : i < j <=> lengths[i] > lengths[j]
  <2>1. lengths = index.lengths[group]
    BY <1>9
  <2> HIDE DEF group, lengths
  <2>2. PICK n \in Nat :
            /\ lengths \in [1 .. n -> {list[i].length : i \in {j \in Nets(list) : GroupOf(list[j]) = group}}]
            /\ \A i \in Nets(list) : GroupOf(list[i]) = group => \E k \in 1 .. n : lengths[k] = list[i].length
            /\ \A i, j \in 1 .. n : i < j <=> lengths[i] > lengths[j]
    BY <1>4, <1>9, <2>1
  <2>3. {list[i].length : i \in {j \in Nets(list) : GroupOf(list[j]) = group}} \in SUBSET (0 .. Width)
    BY <1>2 DEF ListedEntry, Nets, Live
  <2>4. lengths \in [1 .. n -> 0 .. Width]
    BY <2>2, <2>3
  <2> QED BY <2>2, <2>4
<1>10. DOMAIN lengths \in SUBSET Nat
  <2>1. CASE group \in DOMAIN index.lengths
    <3> HIDE DEF lengths, group
    <3> QED BY <1>9, <2>1
  <2>2. CASE group \notin DOMAIN index.lengths
    BY <2>2
  <2> QED BY <2>1, <2>2
<1> DEFINE NetOf(length) ==
             [kind |-> kind, scope |-> scope, target |-> "cidr",
              network |-> [family |-> address.family, bits |-> Masked(address.bits, length)],
              length |-> length]
<1>11. address = [family |-> address.family, bits |-> address.bits]
  BY DEF Addresses
<1>12. \A k : Net(k) = NetOf(lengths[k])
  <2> HIDE DEF lengths
  <2>1. TAKE k
  <2>2. [address EXCEPT !.bits = Masked(@, lengths[k])]
          = [family |-> address.family, bits |-> Masked(address.bits, lengths[k])]
    BY <1>11
  <2> DEFINE net == [kind |-> kind, scope |-> scope, target |-> "cidr", network |-> address,
                     length |-> lengths[k]]
  <2>3. [[exact EXCEPT !.target = "cidr"] EXCEPT !.length = lengths[k]] = net
    <3> DEFINE whole == [kind |-> kind, scope |-> scope, target |-> "cidr", network |-> address,
                         length |-> Width]
    <3>1. [exact EXCEPT !.target = "cidr"] = whole
      OBVIOUS
    <3>2. [whole EXCEPT !.length = lengths[k]] = net
      OBVIOUS
    <3> QED BY <3>1, <3>2
  <2>4. exact.network.bits = address.bits /\ net.network = address
    OBVIOUS
  <2> HIDE DEF exact, net
  <2>5. Net(k) = [net EXCEPT !.network = [address EXCEPT !.bits = Masked(@, lengths[k])]]
    BY <2>3, <2>4
  <2>6. [net EXCEPT !.network = [family |-> address.family, bits |-> Masked(address.bits, lengths[k])]]
          = NetOf(lengths[k])
    BY DEF net
  <2> QED BY <2>2, <2>5, <2>6
<1>13. ASSUME NEW j \in Live(list), list[j] \in hits, list[j].target = "cidr"
       PROVE  \E k \in tries : lengths[k] = list[j].length /\ Net(k) = Place(list[j])
  <2> DEFINE f == list[j]
  <2> HIDE DEF hits
  <2>1. /\ f \in ListedEntry /\ f.kind = kind /\ f.site = scope /\ f.target = "cidr"
        /\ f.network.family = address.family /\ f.network.bits = Masked(address.bits, f.length)
    BY <1>5, <1>13
  <2>2. j \in Nets(list) /\ GroupOf(f) = group
    BY <1>13, <2>1 DEF Nets, GroupOf
  <2>3. group \in DOMAIN index.lengths
    BY <1>4, <2>2
  <2>4. PICK k \in DOMAIN lengths : lengths[k] = f.length
    <3> HIDE DEF lengths, group, f
    <3> QED BY <1>9, <2>2, <2>3 DEF f
  <2>5. /\ f.network = [family |-> f.network.family, bits |-> f.network.bits]
        /\ address = [family |-> address.family, bits |-> address.bits]
    BY <2>1 DEF ListedEntry, Addresses
  <2> HIDE DEF lengths, f
  <2>6. Net(k) = Place(f)
    <3>1. Place(f) = NetOf(f.length)
      BY <2>1, <2>5 DEF Place
    <3> HIDE DEF Net, NetOf
    <3> QED BY <1>12, <2>4, <3>1
  <2>7. Place(f) \in DOMAIN index.entry
    BY <1>3, <1>13 DEF f
  <2> QED BY <2>4, <2>6, <2>7 DEF f
<1>14. CASE exact \in DOMAIN index.entry
  <2> HIDE DEF exact, hits
  <2>1. PICK i \in Live(list) :
              /\ Place(list[i]) = exact /\ index.entry[exact] = list[i].id
              /\ \A j \in Live(list) : Place(list[j]) = exact => i <= j
    BY <1>3, <1>14
  <2>2. list[i].target = "ip" /\ list[i] \in hits
    BY <1>5, <2>1 DEF Place, exact
  <2>3. ASSUME NEW f \in hits \ {list[i]} PROVE Better(list[i], f)
    <3>1. PICK j \in Live(list) : f = list[j]
      BY <1>6
    <3>2. CASE f.target = "ip"
      BY <1>5, <1>8, <2>1, <2>3, <3>1, <3>2
    <3>3. CASE f.target = "cidr"
      BY <2>2, <3>3 DEF Better
    <3> QED BY <1>5, <3>1, <3>2, <3>3 DEF ListedEntry
  <2>4. best = list[i]
    BY <1>7, <2>2, <2>3, OneIsBest
  <2> HIDE DEF best
  <2>5. hits # {}
    BY <2>2
  <2> QED BY <1>1, <1>14, <2>1, <2>4, <2>5 DEF index
<1>15. CASE exact \notin DOMAIN index.entry
  <2>1. ASSUME NEW j \in Live(list), list[j] \in hits PROVE list[j].target = "cidr"
    <3> HIDE DEF exact, hits
    <3>1. Place(list[j]) # exact
      BY <1>3, <1>15
    <3> QED BY <1>5, <2>1, <3>1 DEF ListedEntry
  <2>2. CASE tries = {}
    <3> HIDE DEF exact, hits, tries, best
    <3>1. hits = {}
      BY <1>6, <1>13, <2>1, <2>2
    <3> QED BY <1>1, <1>15, <2>2, <3>1 DEF index
  <2>3. CASE tries # {}
    <3>1. first \in tries /\ \A m \in tries : first <= m
      <4>1. tries \in SUBSET Nat
        BY <1>10
      <4> HIDE DEF tries
      <4> QED BY <2>3, <4>1, LeastNumber
    <3> HIDE DEF first
    <3>2. first \in DOMAIN lengths /\ Net(first) \in DOMAIN index.entry
      BY <3>1
    <3>3. group \in DOMAIN index.lengths
      BY <3>2
    <3>4. PICK i \in Live(list) :
              /\ Place(list[i]) = Net(first) /\ index.entry[Net(first)] = list[i].id
              /\ \A j \in Live(list) : Place(list[j]) = Net(first) => i <= j
      <4> HIDE DEF Net
      <4> QED BY <1>3, <3>2
    <3>5. /\ list[i].target = "cidr" /\ list[i].kind = kind /\ list[i].site = scope
          /\ list[i].length = lengths[first] /\ list[i].network.family = address.family
          /\ list[i].network.bits = Masked(address.bits, lengths[first])
      <4> HIDE DEF lengths, Net
      <4>1. Place(list[i]) = NetOf(lengths[first])
        BY <1>12, <3>4
      <4> QED BY <4>1 DEF Place
    <3> HIDE DEF hits
    <3>6. list[i] \in hits
      BY <1>5, <3>5
    <3>7. ASSUME NEW f \in hits \ {list[i]} PROVE Better(list[i], f)
      <4>1. PICK j \in Live(list) : f = list[j]
        BY <1>6
      <4>2. f.target = "cidr"
        BY <2>1, <4>1
      <4>3. PICK k \in tries : lengths[k] = f.length /\ Net(k) = Place(f)
        BY <1>13, <4>1, <4>2
      <4>4. first <= k /\ k \in DOMAIN lengths
        BY <3>1, <4>3
      <4>5. lengths[first] >= lengths[k] /\ lengths[first] \in Int /\ lengths[k] \in Int
        <5> HIDE DEF lengths, group
        <5>1. PICK n \in Nat :
               /\ lengths \in [1 .. n -> 0 .. Width]
               /\ \A x, y \in 1 .. n : x < y <=> lengths[x] > lengths[y]
          BY <1>9, <3>3
        <5>2. first \in 1 .. n /\ k \in 1 .. n
          BY <3>2, <4>4, <5>1
        <5>3. lengths[first] \in 0 .. Width /\ lengths[k] \in 0 .. Width
          BY <5>1, <5>2
        <5>4. first < k \/ first = k
          BY <4>4, <5>2
        <5> QED BY <5>1, <5>2, <5>3, <5>4, WidthAssumption
      <4>6. CASE lengths[first] = lengths[k]
        <5>1. Net(first) = Net(k)
          BY <4>6
        <5> HIDE DEF Net
        <5>2. Place(list[j]) = Place(list[i]) /\ i <= j
          BY <3>4, <4>1, <4>3, <5>1
        <5> QED BY <1>8, <3>7, <4>1, <5>2
      <4>7. CASE lengths[first] # lengths[k]
        <5> HIDE DEF lengths
        <5>1. list[i].length > f.length
          BY <3>5, <4>3, <4>5, <4>7
        <5> QED BY <3>5, <4>2, <5>1 DEF Better
      <4> QED BY <4>6, <4>7
    <3>8. best = list[i]
      BY <1>7, <3>6, <3>7, OneIsBest
    <3> HIDE DEF best, tries, exact, Net
    <3>9. hits # {}
      BY <3>6
    <3> QED BY <1>1, <1>15, <2>3, <3>4, <3>8, <3>9 DEF index
  <2> QED BY <2>2, <2>3
<1> QED BY <1>14, <1>15
=============================================================================
