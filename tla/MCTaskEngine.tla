---------------------------- MODULE MCTaskEngine ----------------------------
(* Small task graphs for the checks of TaskEngine. *)
EXTENDS TaskEngine, TLC

\* Two roots and a common child, as connecting and merging precede the sync.
Join == "connect" :> {} @@ "merge" :> {} @@ "sync" :> {"connect", "merge"}

ASSUME JoinHasNoCircle == NoCircle
=============================================================================
