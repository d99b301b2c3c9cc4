----------------------------- MODULE ClearFeed -----------------------------
(***************************************************************************)
(* What the feed of manual unbans promises the Gateway: it delivers the    *)
(* published clears in the order of their revisions and passes over none.  *)
(***************************************************************************)
EXTENDS Naturals

VARIABLES published, delivered    \* clears <<target, revision>>

vars == <<published, delivered>>

Revision(c) == c[2]

Before(A, B) == \A c \in A, d \in B : Revision(c) < Revision(d)

Init == published = {} /\ delivered = {}

\* A new clear comes after everything that has been delivered.
Publish == /\ \E c \in published' : published' = published \cup {c}
           /\ Before(delivered, published' \ published)
           /\ UNCHANGED delivered

\* The reader gets all clears up to some revision.
Deliver == /\ delivered \subseteq delivered'
           /\ delivered' \subseteq published
           /\ Before(delivered', published \ delivered')
           /\ UNCHANGED published

Next == Publish \/ Deliver

Spec == Init /\ [][Next]_vars
=============================================================================
