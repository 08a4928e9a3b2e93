--------------------------- MODULE MCIncremental ----------------------------
(***************************************************************************)
(* The incremental build as a whole: its tasks and their transfer to the   *)
(* right application (MCPatch), and the files that these tasks have to     *)
(* keep in agreement (MCResources).                                        *)
(***************************************************************************)
EXTENDS MCPatch, MCResources

IncrementalInit ==
  \/ PatchInit /\ ResourcesRest
  \/ ResourcesInit /\ ClientRests /\ IncRests

IncrementalNext ==
  \/ PatchNext /\ UNCHANGED <<resIdsVars, bindingVars, overlayVars, classesVars, libRVars, aptVars>>
  \/ ResourcesNext /\ UNCHANGED <<vars, incVars>>

incrementalVars == <<patchVars, resourcesVars>>
IncrementalSpec == IncrementalInit /\ [][IncrementalNext]_incrementalVars
=============================================================================
