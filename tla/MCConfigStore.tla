--------------------------- MODULE MCConfigStore ---------------------------
(***************************************************************************)
(* Values for checking ConfigStore.  A run that is about some kinds of row *)
(* sets the limit of the others to none.                                   *)
(***************************************************************************)
EXTENDS ConfigStore, TLC

RequestSymmetry == Permutations(Requests)
=============================================================================
