--------------------------- MODULE ServiceInstances ---------------------------
(***************************************************************************)
(* The parties named by every module of the service.                       *)
(***************************************************************************)
CONSTANTS
  Instances,  \* the FTPServerService objects Android may create: a bound
  Sessions,   \* the SessionThread objects the listeners may create: a bound
  None        \* Java's null

ASSUME NoneAssumption == None \notin Instances \cup Sessions
=============================================================================
