---------------------------- MODULE Publication ----------------------------
(***************************************************************************)
(* What the release pipeline promises, without its steps: one active       *)
(* gateway configuration, replaced as a whole, and a history of those that *)
(* were published.                                                         *)
(***************************************************************************)
EXTENDS Naturals, Sequences

CONSTANTS Configs,     \* gateway configurations, each with its version
          Histories,   \* histories the service may start from
          Absent

VARIABLES active, history, live,
          volatile     \* is the history lost when the service restarts

vars == <<active, history, live, volatile>>

Recorded == {history[i] : i \in DOMAIN history}

Init == /\ active = Absent
        /\ volatile \in BOOLEAN
        /\ history \in Histories
        /\ live = Recorded

\* A new configuration is numbered at most one past the history.
Fresh(c) == \E n \in 1..(Len(history) + 1) : c.version = <<n>>

\* Publishing makes a fresh configuration active, rolling back a recorded one.
Activate == /\ active' \in Configs
            /\ Fresh(active') \/ active' \in Recorded
            /\ live' = live \cup {active'}
            /\ UNCHANGED <<history, volatile>>

\* The history only grows, and only by configurations that have been active.
Remember == /\ \E c \in live : history' = Append(history, c)
            /\ UNCHANGED <<active, live, volatile>>

Forget == /\ volatile
          /\ history' = <<>>
          /\ UNCHANGED <<active, live, volatile>>

Next == Activate \/ Remember \/ Forget

Spec == Init /\ [][Next]_vars
=============================================================================
