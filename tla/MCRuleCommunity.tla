--------------------------- MODULE MCRuleCommunity ---------------------------
(***************************************************************************)
(* Two versions of one package: the second changes its first rule, which   *)
(* both declare off, and adds a rule it declares on.                       *)
(***************************************************************************)
EXTENDS RuleCommunity, TLC

Rule(sum, on) == [sum |-> sum, enabled |-> on]
First == [package |-> "p", version |-> 1, rules |-> [i \in {1} |-> Rule("a", FALSE)]]
Second == [package |-> "p", version |-> 2,
           rules |-> [i \in {1, 2} |-> IF i = 1 THEN Rule("b", FALSE) ELSE Rule("c", TRUE)]]
Symmetry == Permutations(Requests)
Settings == {[source |-> "ok", enabled |-> TRUE, limit |-> 2],
             [source |-> "ok", enabled |-> FALSE, limit |-> 1],
             [source |-> "denied", enabled |-> TRUE, limit |-> 1]}
Versions == {First, Second}
Listings == {{[inline |-> TRUE, content |-> Second]}, {[inline |-> FALSE, content |-> First]}}
=============================================================================
