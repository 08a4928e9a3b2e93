----------------------------- MODULE SyncClient -----------------------------
(***************************************************************************)
(* How Freeline finds the application on the device and keeps track of     *)
(* what it has.  The client asks at ten ports for the application with its *)
(* ticket, wakes the application up and asks again, and refuses to patch   *)
(* one whose count of transfers is not its own.  A transfer raises the     *)
(* local ticket, tells the application, and takes it back if there is no   *)
(* answer.                                                                 *)
(*                                                                         *)
(* Requests and answers get lost, the process is killed, the application   *)
(* stops, or is installed anew from the same apk, at any time.  The server *)
(* in the application is not part of the repository: checkSync,            *)
(* checkResource and closeLongLink are what the client takes them for.     *)
(***************************************************************************)
EXTENDS Naturals, FiniteSets

CONSTANTS
  Ports,       \* 1..n: the ports that are tried in this order (ten in the code)
  OtherPorts,  \* those other applications with a Freeline server listen at
  WakeUps,     \* attempts after the first (10 in the code)
  Times,       \* values of a clean build's ticket: microseconds of a clock
  IsArt,       \* whether the device patches resources incrementally
  MaxTicket,   \* bound on the transfers of one apk
  MaxBuilds,   \* bound on the clean builds
  MaxTrouble,  \* bound on what goes wrong
  NoTicket     \* what a ticket's file reads as when it is empty

ASSUME SyncClientAssumption ==
  /\ Ports = 1..Cardinality(Ports)
  /\ OtherPorts \subseteq Ports /\ OtherPorts # Ports /\ WakeUps \in Nat /\ Times \subseteq Nat /\ IsArt \in BOOLEAN
  /\ IsFiniteSet(Ports) /\ {MaxTicket, MaxBuilds, MaxTrouble} \subseteq Nat /\ NoTicket \notin Nat

VARIABLES
  apktime,   \* local ticket of the clean build
  syncid,    \* local ticket of the last transfer; NoTicket is a file without content
  believed,  \* what the local caches take the application for: apk and number of patches
  fullPack,  \* the full resource pack exists
  app,       \* the application: its apk, uuid, ticket, patches, base resources, whether it runs
  pc,
  ticket,    \* the number that is being written to the ticket's file
  port,      \* the port being tried, then the one connected to, or 0
  attempt,
  forwards,  \* ports adb forwards
  builds,
  trouble    \* history: what has gone wrong since the last clean build, and how often

local == <<apktime, syncid, believed, fullPack>>
vars == <<local, app, pc, ticket, port, attempt, forwards, builds, trouble>>

TypeOK ==
  /\ apktime \in Times /\ syncid \in 0..MaxTicket \cup {NoTicket}
  /\ believed.apk \in 0..MaxBuilds /\ believed.patches \in 0..MaxTicket /\ fullPack \in BOOLEAN
  /\ app.apk \in 0..MaxBuilds /\ app.uuid \in Times
  /\ {app.ticket, app.patches} \subseteq 0..MaxTicket /\ {app.base, app.runs} \subseteq BOOLEAN
  /\ pc \in {"idle", "installing", "scan", "wake_up", "connected", "full_pack", "push", "update", "write",
             "close", "rollback", "rewrite", "refused", "not_found"}
  /\ ticket \in 0..MaxTicket /\ port \in Ports \cup {0} /\ attempt \in 0..WakeUps /\ forwards \subseteq Ports
  /\ builds \in 0..MaxBuilds /\ trouble.n \in 0..MaxTrouble

\* After the installation of a clean build.
Init ==
  /\ apktime \in Times /\ syncid = 0
  /\ believed = [apk |-> 0, patches |-> 0] /\ fullPack \in BOOLEAN
  /\ app = [apk |-> 0, uuid |-> apktime, ticket |-> 0, patches |-> 0, base |-> FALSE, runs |-> TRUE]
  /\ pc = "idle" /\ ticket = 0 /\ port = 0 /\ attempt = 0 /\ forwards = {}
  /\ builds = 0 /\ trouble = [n |-> 0, what |-> {}]

\* get_last_sync_ticket
Ticket == IF syncid = NoTicket THEN 0 ELSE syncid

\* The server takes the first port that is free.
AppPort == CHOOSE p \in Ports \ OtherPorts : \A q \in Ports \ OtherPorts : p <= q

\* checkSync: -1 is the answer of another application, 0 that of one out of step.
CheckSync(p) ==
  IF p \in OtherPorts THEN "other"
  ELSE IF p # AppPort \/ ~app.runs THEN "none"
  ELSE IF app.uuid # apktime THEN "other"
  ELSE IF app.ticket + app.uuid = Ticket + apktime THEN "ok" ELSE "out of step"

Transferring == pc \in {"connected", "full_pack", "push", "update", "write", "close"}

Trouble(kind) ==
  /\ trouble.n < MaxTrouble
  /\ trouble' = [n |-> trouble.n + 1, what |-> trouble.what \cup {kind}]

\* A request is lost on its way, or there is nobody to answer it.
NoAnswer == IF app.runs THEN Trouble("request lost") ELSE UNCHANGED trouble

-----------------------------------------------------------------------------
(* The device *)

AppStops ==
  /\ app.runs
  /\ Trouble("stopped")
  /\ app' = [app EXCEPT !.runs = FALSE]
  /\ UNCHANGED <<local, pc, port, attempt, forwards, builds>>

\* The user installs the same apk again.
Reinstall ==
  /\ Trouble(IF Transferring THEN "swapped" ELSE "reinstalled")
  /\ app' = [app EXCEPT !.ticket = 0, !.patches = 0, !.base = FALSE]
  /\ UNCHANGED <<local, pc, port, attempt, forwards, builds>>

\* The process is killed, at worst when the ticket's file is empty.
Kill ==
  /\ pc \notin {"idle", "refused", "not_found"}
  /\ Trouble(IF syncid = NoTicket THEN "emptied" ELSE "killed")
  /\ pc' = "idle" /\ port' = 0 /\ attempt' = 0
  /\ UNCHANGED <<local, app, forwards, builds>>

-----------------------------------------------------------------------------
(* The clean build, as far as the tickets go: see CleanBuild *)

\* The ticket is new, but it may be the one it was: the microseconds of another second.
StartCleanBuild ==
  /\ pc \in {"idle", "refused", "not_found"} /\ builds < MaxBuilds
  /\ builds' = builds + 1
  /\ \E t \in Times : /\ apktime' = t
                      /\ trouble' = [trouble EXCEPT !.what = IF t = app.uuid THEN {"collided"} ELSE {}]
  /\ believed' = [apk |-> builds', patches |-> 0]
  /\ syncid' = 0
  /\ fullPack' \in BOOLEAN
  /\ pc' = "installing" /\ port' = 0 /\ attempt' = 0
  /\ UNCHANGED <<app, forwards>>

Install ==
  /\ pc = "installing"
  /\ pc' = "idle"
  /\ app' = [apk |-> builds, uuid |-> apktime, ticket |-> 0, patches |-> 0, base |-> FALSE, runs |-> TRUE]
  /\ UNCHANGED <<local, port, attempt, forwards, builds, trouble>>

-----------------------------------------------------------------------------
(* connect_device *)

Connect ==
  /\ pc = "idle" /\ Ticket < MaxTicket /\ believed.patches < MaxTicket
  /\ pc' = "scan" /\ port' = 1 /\ attempt' = 0
  /\ UNCHANGED <<local, app, forwards, builds, trouble>>

\* Fault: every answer of the application will do.
ScanPortTakesAny ==
  /\ pc = "scan"
  /\ IF CheckSync(port) \in {"ok", "out of step"}
     THEN pc' = "connected" /\ forwards' = {port} /\ UNCHANGED port
     ELSE IF port + 1 \in Ports THEN port' = port + 1 /\ forwards' = forwards \cup {port} /\ UNCHANGED pc
          ELSE pc' = "wake_up" /\ port' = 0 /\ forwards' = {}
  /\ UNCHANGED <<local, app, attempt, builds, trouble>>

\* scan_device_port.  The forwards that are not needed are removed at the end, but
\* not by a refusal.
ScanPort ==
  /\ pc = "scan"
  /\ \/ /\ CheckSync(port) = "ok"
        /\ pc' = "connected" /\ forwards' = {port} /\ UNCHANGED port
     \/ /\ CheckSync(port) = "out of step"
        /\ pc' = "refused" /\ forwards' = forwards \cup {port} /\ UNCHANGED port
     \/ /\ CheckSync(port) \in {"other", "none"} /\ port + 1 \in Ports
        /\ port' = port + 1 /\ forwards' = forwards \cup {port} /\ UNCHANGED pc
     \/ /\ CheckSync(port) \in {"other", "none"} /\ port + 1 \notin Ports
        /\ pc' = "wake_up" /\ port' = 0 /\ forwards' = {}
  /\ UNCHANGED <<local, app, attempt, builds, trouble>>

\* The service is started, perhaps too late for the next scan.
WakeUp ==
  /\ pc = "wake_up" /\ attempt < WakeUps
  /\ attempt' = attempt + 1
  /\ pc' = "scan" /\ port' = 1
  /\ \E runs \in {app.runs, TRUE} : app' = [app EXCEPT !.runs = runs]
  /\ UNCHANGED <<local, forwards, builds, trouble>>

\* check_device_connection and check_installation find why, or it is NoDeviceFoundException.
NotFound ==
  /\ pc = "wake_up" /\ attempt = WakeUps
  /\ pc' = "not_found"
  /\ UNCHANGED <<local, app, port, attempt, forwards, builds, trouble>>

-----------------------------------------------------------------------------
(* The transfer *)

\* An unanswered request ends the build; the forward stays.
Fails ==
  /\ NoAnswer
  /\ pc' = "idle" /\ port' = 0
  /\ UNCHANGED <<attempt, forwards, builds>>

Continues(next) == pc' = next /\ UNCHANGED <<port, attempt, forwards, builds, trouble>>

\* check_base_res_exist, asked only for art and only if there are resources to send.
CheckBaseResource ==
  /\ pc = "connected"
  /\ \/ app.runs /\ Continues(IF IsArt /\ ~app.base THEN "full_pack" ELSE "push")
     \/ Fails
  /\ UNCHANGED <<local, app>>

\* push_full_res_pack: without the pack "You may need a clean build".
PushFullResPack ==
  /\ pc = "full_pack"
  /\ \/ fullPack /\ app.runs /\ app' = [app EXCEPT !.base = TRUE] /\ Continues("push")
     \/ ~fullPack /\ pc' = "idle" /\ port' = 0 /\ UNCHANGED <<app, attempt, forwards, builds, trouble>>
     \/ Fails /\ UNCHANGED app
  /\ UNCHANGED local

\* The resources and the dex are sent.
Push ==
  /\ pc = "push"
  /\ \/ app.runs /\ Continues("update")
     \/ Fails
  /\ UNCHANGED <<local, app>>

\* update_last_sync_ticket opens the file, which empties it, ...
OpenTicket ==
  /\ pc = "update"
  /\ ticket' = Ticket + 1
  /\ syncid' = NoTicket
  /\ pc' = "write"
  /\ UNCHANGED <<apktime, believed, fullPack, app, port, attempt, forwards, builds, trouble>>

\* ... and writes the new ticket.
WriteTicket ==
  /\ pc = "write"
  /\ syncid' = ticket
  /\ pc' = "close"
  /\ UNCHANGED <<apktime, believed, fullPack, app, port, attempt, forwards, builds, trouble, ticket>>

\* The application loads the patch and keeps the ticket.
Loaded == [app EXCEPT !.ticket = Ticket, !.patches = @ + 1]

\* sync_state: closeLongLink with the new ticket; the request or the answer may be lost.
\* At the end close_connection removes the forward.
CloseLongLink ==
  /\ pc = "close"
  /\ \/ /\ app.runs /\ app' = Loaded
        /\ believed' = [believed EXCEPT !.patches = @ + 1]
        /\ pc' = "idle" /\ port' = 0 /\ forwards' = forwards \ {port}
        /\ UNCHANGED trouble
     \/ /\ app.runs /\ app' = Loaded
        /\ Trouble("answer lost") /\ pc' = "rollback"
        /\ UNCHANGED <<believed, port, forwards>>
     \/ /\ NoAnswer /\ pc' = "rollback"
        /\ UNCHANGED <<app, believed, port, forwards>>
  /\ UNCHANGED <<apktime, syncid, fullPack, attempt, builds, ticket>>

\* Fault: the ticket is not taken back.
OpenRollbackNot ==
  /\ pc = "rollback"
  /\ ticket' = Ticket /\ syncid' = NoTicket
  /\ pc' = "rewrite"
  /\ UNCHANGED <<apktime, believed, fullPack, app, port, attempt, forwards, builds, trouble>>

\* rollback_last_sync_ticket, in the same two steps.
OpenRollback ==
  /\ pc = "rollback"
  /\ ticket' = IF Ticket > 0 THEN Ticket - 1 ELSE 0
  /\ syncid' = NoTicket
  /\ pc' = "rewrite"
  /\ UNCHANGED <<apktime, believed, fullPack, app, port, attempt, forwards, builds, trouble>>

WriteRollback ==
  /\ pc = "rewrite"
  /\ syncid' = ticket
  /\ pc' = "idle" /\ port' = 0
  /\ UNCHANGED <<apktime, believed, fullPack, app, attempt, forwards, builds, trouble, ticket>>

-----------------------------------------------------------------------------
\* The client's own steps; the others are those of the device, the user and gradle.
Client == ScanPort \/ WakeUp \/ NotFound \/ CheckBaseResource \/ PushFullResPack \/ Push
Tickets == OpenTicket \/ WriteTicket \/ CloseLongLink \/ OpenRollback \/ WriteRollback

Next ==
  \/ /\ UNCHANGED ticket
     /\ AppStops \/ Reinstall \/ Kill \/ StartCleanBuild \/ Install \/ Connect \/ Client
  \/ Tickets

Spec == Init /\ [][Next]_vars

-----------------------------------------------------------------------------
(* Properties *)

\* An application that is to be patched is the one built last, and has every patch
\* the local caches believe it has, whatever was lost, killed or installed anew
\* before: the tickets tell it.  Three things they cannot tell: a clean build with
\* the microseconds of the installed one, an installation after checkSync, and one after
\* a kill that left the ticket's file empty, which reads as 0.
PatchedIsAsBelieved ==
  Transferring /\ {"collided", "swapped", "emptied"} \cap trouble.what = {}
  => /\ port = AppPort /\ forwards = {port}
     /\ app.apk = believed.apk /\ app.patches >= believed.patches

\* An application is refused only after the process was killed, an answer was lost,
\* or the application was installed anew; not because it could not be reached.
RefusalHasCause ==
  pc = "refused" => {"killed", "emptied", "answer lost", "reinstalled", "swapped", "collided"} \cap trouble.what # {}

=============================================================================
