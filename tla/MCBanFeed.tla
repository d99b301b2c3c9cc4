----------------------------- MODULE MCBanFeed -----------------------------
(***************************************************************************)
(* Values for checking BanFeed.  One of the two listeners is the one of    *)
(* events without a port, which shares its name with the row of a clear    *)
(* that found no ban.                                                      *)
(***************************************************************************)
EXTENDS BanFeed, TLC

\* A restart of the in-memory store is left to the transactions of the database.
FaultsOfDatabase == [b \in Backends |-> IF b = "postgres" THEN 1 ELSE 0]
NoFaults == [b \in Backends |-> 0]
=============================================================================
