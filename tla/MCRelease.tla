----------------------------- MODULE MCRelease -----------------------------
(***************************************************************************)
(* Values for checking Release: three sets of applications, one of which   *)
(* has an https listener and one a listener conflict; four drafts.         *)
(***************************************************************************)
EXTENDS Release, TLC

CONSTANTS noApps, httpsApps, clashingApps, c1, pem1, pem2, hooked, bare, snip

MCAppConfigs == {noApps, httpsApps, clashingApps}
MCUses == [a \in MCAppConfigs |-> IF a = httpsApps THEN {c1} ELSE {}]

FullDraft(text) == [mode |-> "full", snippets |-> NoSnippets, full |-> text]
SnippetDraft == [mode |-> "snippets", full |-> Absent,
                 snippets |-> [NoSnippets EXCEPT !["http"] = snip]]
MCDrafts == {EmptyDraft, SnippetDraft, FullDraft(hooked), FullDraft(bare)}
PlainAndHooked == {EmptyDraft, FullDraft(hooked)}

HandlerSymmetry == Permutations(Handlers)

\* A database from before runtime snapshots were recorded.
OldRecord == [version |-> <<1>>, config |-> [version |-> <<1>>, apps |-> httpsApps],
              artifacts |-> <<>>, reload |-> "not-configured"]
NoHistory == {<<>>}
OldHistories == {<<>>, <<OldRecord>>}
=============================================================================
