-------------------------------- MODULE Lists --------------------------------
(***************************************************************************)
(* Lists as the stores and the releases make them: a set of rows put in    *)
(* order, an operation on every item, the items that pass a test.  (The    *)
(* prover knows nothing of SortSeq and SelectSeq; these it can expand.)    *)
(***************************************************************************)
EXTENDS Integers, Sequences, FiniteSets, Functions

Each(Op(_), list) == [i \in DOMAIN list |-> Op(list[i])]

\* The elements of a finite set in a total order of them: number k has k
\* elements up to itself.
InOrder(S, Before(_, _)) ==
    [k \in 1 .. Cardinality(S) |->
        CHOOSE x \in S : Cardinality({y \in S : y = x \/ Before(y, x)}) = k]
Ascending(S) == InOrder(S, <)
Descending(S) == InOrder(S, >)

\* The items that pass, in the order of the list.
Kept(list, Passes(_)) ==
    Each(LAMBDA i : list[i], Ascending({i \in DOMAIN list : Passes(list[i])}))
=============================================================================
