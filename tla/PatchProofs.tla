----------------------------- MODULE PatchProofs -----------------------------
(***************************************************************************)
(* From an edit to the running application, for any modules, edits, builds *)
(* and ports.                                                              *)
(*                                                                         *)
(* What the tickets tell: the invariant relates four numbers.  The local   *)
(* ticket is at least the number of patches the client believes in, the    *)
(* application's ticket is at most the number it has, and during a         *)
(* transfer one is the other, or its successor once the new ticket is      *)
(* written.                                                                *)
(*                                                                         *)
(* What the builds do not forget: what the stat takes for built is the     *)
(* same in every cache and in the application, a changed file is in every  *)
(* cache its tasks have filled and its marker is there until the           *)
(* application has it, and the order of the tasks has the stat recorded    *)
(* last.                                                                   *)
(***************************************************************************)
EXTENDS MCPatch, FiniteSetTheorems, TLAPS

-----------------------------------------------------------------------------
(* SyncClient *)

Types ==
  /\ apktime \in Nat /\ syncid \in Nat \cup {NoTicket} /\ ticket \in Nat /\ builds \in Nat
  /\ app \in [apk : Nat, uuid : Nat, ticket : Nat, patches : Nat, base : BOOLEAN, runs : BOOLEAN]
  /\ believed \in [apk : Nat, patches : Nat]
  /\ pc \in {"idle", "installing", "scan", "wake_up", "connected", "full_pack", "push", "update", "write",
             "close", "rollback", "rewrite", "refused", "not_found"}

TroubleType == trouble = [n |-> trouble.n, what |-> trouble.what]

\* Nothing has happened that the tickets cannot tell.
Told == {"collided", "swapped", "emptied"} \cap trouble.what = {}

\* The application has the ticket of the clean build the caches are of.
Ours == app.uuid = apktime

\* The ticket's file has its content, or will have it.
Held == IF pc \in {"write", "rewrite"} THEN ticket ELSE syncid

\* The ticket is one ahead while a transfer is told to the application.
Ahead == IF pc \in {"write", "close", "rollback"} THEN 1 ELSE 0

SameApk ==
  /\ Told /\ Ours => app.apk = believed.apk
  /\ pc = "installing" => believed.apk = builds

\* What is believed is in the local ticket ...
LocalCount == Told => Held \in Nat /\ believed.patches + Ahead <= Held

\* ... and the application has what its ticket says.
DeviceCount == Told /\ Ours => app.ticket <= app.patches

\* During a transfer both are in step.
InStep ==
  Transferring =>
    /\ port = AppPort /\ forwards = {port}
    /\ Told => Ours /\ Held = app.ticket + Ahead

\* The ticket's file is empty while it is written.
Writing == pc \in {"write", "rewrite"} => syncid = NoTicket

Counts == Types /\ TroubleType /\ Writing /\ SameApk /\ LocalCount /\ DeviceCount /\ InStep

\* Nothing has happened that puts application and client out of step.
Untroubled == {"killed", "emptied", "answer lost", "reinstalled", "swapped", "collided"} \cap trouble.what = {}

\* Then they are in step always.
AlwaysInStep ==
  Untroubled =>
    /\ pc # "installing" => Ours /\ Held = app.ticket + Ahead
    /\ pc = "installing" => syncid = 0
    /\ pc # "refused"

-----------------------------------------------------------------------------
(* What goes wrong *)

\* What has gone wrong is not forgotten before the next clean build, and three
\* kinds of it make the tickets unreliable.
LEMMA TroubleIsNoted ==
  ASSUME TroubleType, NEW kind, Trouble(kind)
  PROVE  /\ TroubleType' /\ (Told' => Told) /\ (Untroubled' => Untroubled)
         /\ kind \in {"collided", "swapped", "emptied"} => ~Told'
         /\ kind \in {"killed", "emptied", "answer lost", "reinstalled", "swapped", "collided"} => ~Untroubled'
<1>1. trouble' = [n |-> trouble.n + 1, what |-> trouble.what \cup {kind}]
  BY DEF Trouble
<1>2. trouble'.what = trouble.what \cup {kind} /\ TroubleType'
  BY <1>1 DEF TroubleType
<1> QED BY <1>2 DEF Told, Untroubled

LEMMA SilenceIsNoted ==
  ASSUME TroubleType, NoAnswer
  PROVE  TroubleType' /\ (Told' => Told) /\ (Untroubled' => Untroubled)
<1>1. CASE app.runs
  <2>1. Trouble("request lost")
    BY <1>1 DEF NoAnswer
  <2> QED BY <2>1, TroubleIsNoted
<1>2. CASE ~app.runs
  BY <1>2 DEF NoAnswer, TroubleType, Told, Untroubled
<1> QED BY <1>1, <1>2

LEMMA NothingIsNoted ==
  ASSUME TroubleType, UNCHANGED trouble
  PROVE  TroubleType' /\ Told' = Told /\ Untroubled' = Untroubled
BY DEF TroubleType, Told, Untroubled

-----------------------------------------------------------------------------
LEMMA CountsStep == Counts /\ [Next]_vars => Counts'
<1> SUFFICES ASSUME Counts, [Next]_vars PROVE Counts'
  OBVIOUS
<1> USE SyncClientAssumption DEF Counts
<1>1. CASE AppStops /\ UNCHANGED ticket
  <2>0. Trouble("stopped")
    BY <1>1 DEF AppStops
  <2>1. TroubleType' /\ (Told' => Told)
    BY <2>0, TroubleIsNoted
  <2> QED BY <1>1, <2>1
     DEF AppStops, Types, Writing, SameApk, LocalCount, DeviceCount, InStep, Ours, Held, Ahead,
         Transferring, Ticket, local
<1>2. CASE Reinstall /\ UNCHANGED ticket
  <2>1. TroubleType' /\ (Told' => Told) /\ (Transferring => ~Told')
    <3>1. CASE Transferring
      <4>1. Trouble("swapped")
        BY <1>2, <3>1 DEF Reinstall
      <4> QED BY <4>1, <3>1, TroubleIsNoted
    <3>2. CASE ~Transferring
      <4>1. Trouble("reinstalled")
        BY <1>2, <3>2 DEF Reinstall
      <4> QED BY <4>1, <3>2, TroubleIsNoted
    <3> QED BY <3>1, <3>2
  <2>2. /\ app' \in [apk : Nat, uuid : Nat, ticket : Nat, patches : Nat, base : BOOLEAN, runs : BOOLEAN]
        /\ app'.apk = app.apk /\ app'.uuid = app.uuid /\ app'.ticket = 0 /\ app'.patches = 0
    BY <1>2 DEF Reinstall, Types
  <2>3. UNCHANGED <<local, pc, ticket, port, attempt, forwards, builds>>
    BY <1>2 DEF Reinstall
  <2> QED BY <2>1, <2>2, <2>3
     DEF Types, Writing, SameApk, LocalCount, DeviceCount, InStep, Ours, Held, Ahead,
         Transferring, Ticket, local
<1>3. CASE Kill /\ UNCHANGED ticket
  <2>1. TroubleType' /\ (Told' => Told) /\ (syncid = NoTicket => ~Told')
    <3>1. CASE syncid = NoTicket
      <4>1. Trouble("emptied")
        BY <1>3, <3>1 DEF Kill
      <4> QED BY <4>1, <3>1, TroubleIsNoted
    <3>2. CASE syncid # NoTicket
      <4>1. Trouble("killed")
        BY <1>3, <3>2 DEF Kill
      <4> QED BY <4>1, <3>2, TroubleIsNoted
    <3> QED BY <3>1, <3>2
  <2> QED BY <1>3, <2>1
     DEF Kill, Types, Writing, SameApk, LocalCount, DeviceCount, InStep, Ours, Held, Ahead,
         Transferring, Ticket, local
<1>4. CASE StartCleanBuild /\ UNCHANGED ticket
  <2>1. TroubleType' /\ (apktime' = app.uuid => ~Told')
    <3>1. PICK t \in Times : /\ apktime' = t
                             /\ trouble' = [trouble EXCEPT !.what = IF t = app.uuid THEN {"collided"} ELSE {}]
      BY <1>4 DEF StartCleanBuild
    <3>2. trouble'.what = IF t = app.uuid THEN {"collided"} ELSE {}
      BY <3>1 DEF TroubleType
    <3> QED BY <3>1, <3>2 DEF TroubleType, Told
  <2>2. apktime' \in Nat
    BY <1>4 DEF StartCleanBuild
  <2>3. Types' /\ Writing' /\ InStep'
    <3>1. /\ builds' = builds + 1 /\ believed' = [apk |-> builds + 1, patches |-> 0]
          /\ syncid' = 0 /\ pc' = "installing" /\ app' = app /\ ticket' = ticket
      BY <1>4 DEF StartCleanBuild
    <3>2. builds' \in Nat /\ believed' \in [apk : Nat, patches : Nat]
      BY <3>1 DEF Types
    <3> QED BY <2>2, <3>1, <3>2 DEF Types, Writing, InStep, Transferring
  <2>4. LocalCount'
    BY <1>4, <2>1 DEF StartCleanBuild, Types, LocalCount, Held, Ahead
  <2>5. SameApk' /\ DeviceCount'
    BY <1>4, <2>1 DEF StartCleanBuild, SameApk, DeviceCount, Ours
  <2> QED BY <2>1, <2>3, <2>4, <2>5
<1>5. CASE Install /\ UNCHANGED ticket
  <2>1. TroubleType' /\ Told' = Told
    BY <1>5, NothingIsNoted DEF Install
  <2> QED BY <1>5, <2>1
     DEF Install, Types, Writing, SameApk, LocalCount, DeviceCount, InStep, Ours, Held, Ahead,
         Transferring, Ticket, local
<1>6. CASE Connect /\ UNCHANGED ticket
  <2>1. TroubleType' /\ Told' = Told
    BY <1>6, NothingIsNoted DEF Connect
  <2> QED BY <1>6, <2>1
     DEF Connect, Types, Writing, SameApk, LocalCount, DeviceCount, InStep, Ours, Held, Ahead,
         Transferring, Ticket, local
<1>7. CASE ScanPort /\ UNCHANGED ticket
  <2>1. TroubleType' /\ Told' = Told
    BY <1>7, NothingIsNoted DEF ScanPort
  <2>2. CASE CheckSync(port) = "ok"
    <3>1. port = AppPort /\ Ours /\ app.ticket = Ticket
      BY <2>2 DEF CheckSync, Ours, Ticket, Types
    <3>2. pc' = "connected" /\ forwards' = {port} /\ port' = port
      BY <1>7, <2>2 DEF ScanPort
    <3> QED BY <1>7, <2>1, <3>1, <3>2
       DEF ScanPort, AppPort, Types, Writing, SameApk, LocalCount, DeviceCount, InStep, Ours,
           Held, Ahead, Transferring, Ticket, local
  <2>3. CASE CheckSync(port) # "ok"
    BY <1>7, <2>1, <2>3
       DEF ScanPort, Types, Writing, SameApk, LocalCount, DeviceCount, InStep, Ours, Held,
           Ahead, Transferring, Ticket, local
  <2> QED BY <2>2, <2>3
<1>8. CASE WakeUp /\ UNCHANGED ticket
  <2>1. TroubleType' /\ Told' = Told
    BY <1>8, NothingIsNoted DEF WakeUp
  <2> QED BY <1>8, <2>1
     DEF WakeUp, Types, Writing, SameApk, LocalCount, DeviceCount, InStep, Ours, Held, Ahead,
         Transferring, Ticket, local
<1>9. CASE NotFound /\ UNCHANGED ticket
  <2>1. TroubleType' /\ Told' = Told
    BY <1>9, NothingIsNoted DEF NotFound
  <2> QED BY <1>9, <2>1
     DEF NotFound, Types, Writing, SameApk, LocalCount, DeviceCount, InStep, Ours, Held, Ahead,
         Transferring, Ticket, local
<1>10. CASE CheckBaseResource /\ UNCHANGED ticket
  <2>1. TroubleType' /\ (Told' => Told)
    BY <1>10, NothingIsNoted, SilenceIsNoted DEF CheckBaseResource, Continues, Fails
  <2> QED BY <1>10, <2>1
     DEF CheckBaseResource, Continues, Fails, Types, Writing, SameApk, LocalCount, DeviceCount,
         InStep, Ours, Held, Ahead, Transferring, Ticket, local
<1>12. CASE Push /\ UNCHANGED ticket
  <2>1. TroubleType' /\ (Told' => Told)
    BY <1>12, NothingIsNoted, SilenceIsNoted DEF Push, Continues, Fails
  <2> QED BY <1>12, <2>1
     DEF Push, Continues, Fails, Types, Writing, SameApk, LocalCount, DeviceCount, InStep,
         Ours, Held, Ahead, Transferring, Ticket, local
<1>11. CASE PushFullResPack /\ UNCHANGED ticket
  <2>1. TroubleType' /\ (Told' => Told)
    BY <1>11, NothingIsNoted, SilenceIsNoted DEF PushFullResPack, Continues, Fails
  <2> QED BY <1>11, <2>1
     DEF PushFullResPack, Continues, Fails, Types, Writing, SameApk, LocalCount, DeviceCount,
         InStep, Ours, Held, Ahead, Transferring, Ticket, local
<1>13. CASE OpenTicket
  <2>1. TroubleType' /\ Told' = Told
    BY <1>13, NothingIsNoted DEF OpenTicket
  <2> QED BY <1>13, <2>1
     DEF OpenTicket, Types, Writing, SameApk, LocalCount, DeviceCount, InStep, Ours, Held,
         Ahead, Transferring, Ticket, local
<1>14. CASE WriteTicket
  <2>1. TroubleType' /\ Told' = Told
    BY <1>14, NothingIsNoted DEF WriteTicket
  <2> QED BY <1>14, <2>1
     DEF WriteTicket, Types, Writing, SameApk, LocalCount, DeviceCount, InStep, Ours, Held,
         Ahead, Transferring, Ticket, local
<1>15. CASE CloseLongLink
  <2>1. TroubleType' /\ (Told' => Told)
    <3>1. UNCHANGED trouble \/ Trouble("answer lost") \/ NoAnswer
      BY <1>15 DEF CloseLongLink
    <3>2. CASE Trouble("answer lost")
      BY <3>2, TroubleIsNoted
    <3>3. CASE UNCHANGED trouble
      BY <3>3, NothingIsNoted
    <3>4. CASE NoAnswer
      BY <3>4, SilenceIsNoted
    <3> QED BY <3>1, <3>2, <3>3, <3>4
  <2>2. pc = "close" /\ UNCHANGED <<apktime, syncid, fullPack, builds, ticket>>
    BY <1>15 DEF CloseLongLink
  <2>3. \/ pc' = "rollback" /\ UNCHANGED <<app, believed>>
        \/ pc' = "rollback" /\ app' = Loaded /\ UNCHANGED believed
        \/ pc' = "idle" /\ app' = Loaded /\ believed' = [believed EXCEPT !.patches = @ + 1]
    BY <1>15 DEF CloseLongLink
  <2>4. CASE pc' = "rollback" /\ UNCHANGED <<app, believed>>
    BY <2>1, <2>2, <2>4
       DEF Types, Writing, SameApk, LocalCount, DeviceCount, InStep, Ours, Held, Ahead,
           Transferring, Ticket, local
  <2>5. ASSUME app' = Loaded
        PROVE  /\ app' \in [apk : Nat, uuid : Nat, ticket : Nat, patches : Nat, base : BOOLEAN, runs : BOOLEAN]
               /\ app'.apk = app.apk /\ app'.uuid = app.uuid
               /\ app'.ticket = Ticket /\ app'.patches = app.patches + 1
    <3>1. Ticket \in Nat
      BY DEF Types, Ticket
    <3>2. app' = [apk |-> app.apk, uuid |-> app.uuid, ticket |-> Ticket, patches |-> app.patches + 1,
                  base |-> app.base, runs |-> app.runs]
      BY <2>5 DEF Loaded, Types
    <3> QED BY <3>1, <3>2 DEF Types
  <2>6. CASE pc' = "rollback" /\ app' = Loaded /\ UNCHANGED believed
    BY <2>1, <2>2, <2>5, <2>6
       DEF Types, Writing, SameApk, LocalCount, DeviceCount, InStep, Ours, Held, Ahead,
           Transferring, Ticket, local
  <2>7. CASE pc' = "idle" /\ app' = Loaded /\ believed' = [believed EXCEPT !.patches = @ + 1]
    <3>1. /\ believed' \in [apk : Nat, patches : Nat]
          /\ believed'.apk = believed.apk /\ believed'.patches = believed.patches + 1
      <4>1. believed = [apk |-> believed.apk, patches |-> believed.patches]
            /\ believed.apk \in Nat /\ believed.patches \in Nat
        BY DEF Types
      <4>2. believed' = [apk |-> believed.apk, patches |-> believed.patches + 1]
        BY <2>7, <4>1
      <4> QED BY <4>1, <4>2
    <3>2. Types' /\ Writing' /\ InStep'
      <4>1. /\ apktime' = apktime /\ syncid' = syncid /\ ticket' = ticket /\ builds' = builds
            /\ pc' = "idle"
        BY <2>2, <2>7
      <4>2. Types'
        BY <2>5, <2>7, <3>1, <4>1 DEF Types
      <4> QED BY <4>1, <4>2 DEF Writing, InStep, Transferring
    <3>3. LocalCount'
      BY <2>1, <2>2, <2>7, <3>1 DEF Types, LocalCount, Held, Ahead
    <3>4. Told' /\ Ours' => Told /\ Ours
      <4>1. app'.uuid = app.uuid /\ apktime' = apktime
        BY <2>2, <2>5, <2>7
      <4> QED BY <2>1, <4>1 DEF Ours
    <3>5. Told => Ticket = app.ticket + 1
      <4>1. Told => syncid = app.ticket + 1
        BY <2>2 DEF InStep, Transferring, Held, Ahead
      <4>2. app.ticket + 1 # NoTicket
        BY SyncClientAssumption DEF Types
      <4> QED BY <4>1, <4>2 DEF Ticket
    <3>6. DeviceCount'
      <4> SUFFICES ASSUME Told', Ours' PROVE app'.ticket <= app'.patches
        BY DEF DeviceCount
      <4>1. app.ticket <= app.patches /\ Ticket = app.ticket + 1
        BY <3>4, <3>5 DEF DeviceCount
      <4> QED BY <2>5, <2>7, <4>1 DEF Types
    <3>7. SameApk'
      BY <2>2, <2>5, <2>7, <3>1, <3>4 DEF SameApk
    <3> QED BY <2>1, <3>2, <3>3, <3>6, <3>7
  <2> QED BY <2>3, <2>4, <2>6, <2>7
<1>16. CASE OpenRollback
  <2>1. TroubleType' /\ Told' = Told
    BY <1>16, NothingIsNoted DEF OpenRollback
  <2> QED BY <1>16, <2>1
     DEF OpenRollback, Types, Writing, SameApk, LocalCount, DeviceCount, InStep, Ours, Held,
         Ahead, Transferring, Ticket, local
<1>17. CASE WriteRollback
  <2>1. TroubleType' /\ Told' = Told
    BY <1>17, NothingIsNoted DEF WriteRollback
  <2> QED BY <1>17, <2>1
     DEF WriteRollback, Types, Writing, SameApk, LocalCount, DeviceCount, InStep, Ours, Held,
         Ahead, Transferring, Ticket, local
<1>18. CASE UNCHANGED vars
  <2>1. TroubleType' /\ Told' = Told
    BY <1>18, NothingIsNoted DEF vars
  <2> QED BY <1>18, <2>1
     DEF vars, Types, Writing, SameApk, LocalCount, DeviceCount, InStep, Ours, Held, Ahead,
         Transferring, Ticket, local
<1> QED
  BY <1>1, <1>2, <1>3, <1>4, <1>5, <1>6, <1>7, <1>8, <1>9, <1>10, <1>11,
     <1>12, <1>13, <1>14, <1>15, <1>16, <1>17, <1>18 DEF Next, Client, Tickets

-----------------------------------------------------------------------------
LEMMA InStepStep == Counts /\ AlwaysInStep /\ [Next]_vars => AlwaysInStep'
<1> SUFFICES ASSUME Counts, AlwaysInStep, [Next]_vars, Untroubled' PROVE AlwaysInStep'
  BY DEF AlwaysInStep
<1> USE SyncClientAssumption DEF Counts
<1>1. CASE AppStops /\ UNCHANGED ticket
  <2>0. Trouble("stopped")
    BY <1>1 DEF AppStops
  <2>1. Untroubled
    BY <2>0, TroubleIsNoted
  <2> QED BY <1>1, <2>1 DEF AppStops, AlwaysInStep, Types, Ours, Held, Ahead, local
<1>2. CASE Reinstall /\ UNCHANGED ticket
  <2>1. Trouble("swapped") \/ Trouble("reinstalled")
    BY <1>2 DEF Reinstall
  <2>2. ~Trouble("swapped")
    BY TroubleIsNoted
  <2>3. ~Trouble("reinstalled")
    BY TroubleIsNoted
  <2> QED BY <2>1, <2>2, <2>3
<1>3. CASE Kill /\ UNCHANGED ticket
  <2>1. Trouble("emptied") \/ Trouble("killed")
    BY <1>3 DEF Kill
  <2>2. ~Trouble("emptied")
    BY TroubleIsNoted
  <2>3. ~Trouble("killed")
    BY TroubleIsNoted
  <2> QED BY <2>1, <2>2, <2>3
<1>4. CASE StartCleanBuild /\ UNCHANGED ticket
  <2> QED BY <1>4 DEF StartCleanBuild, AlwaysInStep, Types, Ours, Held, Ahead, local
<1>5. CASE Install /\ UNCHANGED ticket
  <2>1. Untroubled
    BY <1>5, NothingIsNoted DEF Install
  <2> QED BY <1>5, <2>1 DEF Install, Ticket, AlwaysInStep, Types, Ours, Held, Ahead, local
<1>6. CASE Connect /\ UNCHANGED ticket
  <2>1. Untroubled
    BY <1>6, NothingIsNoted DEF Connect
  <2> QED BY <1>6, <2>1 DEF Connect, Ticket, AlwaysInStep, Types, Ours, Held, Ahead, local
<1>7. CASE ScanPort /\ UNCHANGED ticket
  <2>1. Untroubled
    BY <1>7, NothingIsNoted DEF ScanPort
  <2>2. app.ticket = Ticket /\ app.uuid = apktime
    <3>1. pc = "scan" /\ app.ticket \in Nat
      BY <1>7 DEF ScanPort, Types
    <3>2. syncid = app.ticket /\ app.uuid = apktime
      BY <2>1, <3>1 DEF AlwaysInStep, Ours, Held, Ahead
    <3> QED BY <3>1, <3>2 DEF Ticket
  <2>3. CheckSync(port) # "out of step"
    BY <2>2 DEF CheckSync, Ticket, Types
  <2>4. pc' \in {"connected", "scan", "wake_up"} /\ UNCHANGED <<local, app, ticket>>
    BY <1>7, <2>3 DEF ScanPort
  <2> QED BY <1>7, <2>1, <2>4 DEF ScanPort, AlwaysInStep, Types, Ours, Held, Ahead, local
<1>8. CASE WakeUp /\ UNCHANGED ticket
  <2>1. Untroubled
    BY <1>8, NothingIsNoted DEF WakeUp
  <2> QED BY <1>8, <2>1 DEF WakeUp, Ticket, AlwaysInStep, Types, Ours, Held, Ahead, local
<1>9. CASE NotFound /\ UNCHANGED ticket
  <2>1. Untroubled
    BY <1>9, NothingIsNoted DEF NotFound
  <2> QED BY <1>9, <2>1 DEF NotFound, Ticket, AlwaysInStep, Types, Ours, Held, Ahead, local
<1>10. CASE CheckBaseResource /\ UNCHANGED ticket
  <2>1. Untroubled
    BY <1>10, NothingIsNoted, SilenceIsNoted DEF CheckBaseResource, Continues, Fails
  <2> QED BY <1>10, <2>1
     DEF CheckBaseResource, Continues, Fails, AlwaysInStep, Types, Ours, Held, Ahead, local
<1>11. CASE PushFullResPack /\ UNCHANGED ticket
  <2>1. Untroubled
    BY <1>11, NothingIsNoted, SilenceIsNoted DEF PushFullResPack, Continues, Fails
  <2> QED BY <1>11, <2>1
     DEF PushFullResPack, Continues, Fails, AlwaysInStep, Types, Ours, Held, Ahead, local
<1>12. CASE Push /\ UNCHANGED ticket
  <2>1. Untroubled
    BY <1>12, NothingIsNoted, SilenceIsNoted DEF Push, Continues, Fails
  <2> QED BY <1>12, <2>1 DEF Push, Continues, Fails, AlwaysInStep, Types, Ours, Held, Ahead, local
<1>13. CASE OpenTicket
  <2>1. Untroubled
    BY <1>13, NothingIsNoted DEF OpenTicket
  <2> QED BY <1>13, <2>1 DEF OpenTicket, Ticket, AlwaysInStep, Types, Ours, Held, Ahead, local
<1>14. CASE WriteTicket
  <2>1. Untroubled
    BY <1>14, NothingIsNoted DEF WriteTicket
  <2> QED BY <1>14, <2>1 DEF WriteTicket, Ticket, AlwaysInStep, Types, Ours, Held, Ahead, local
<1>15. CASE CloseLongLink
  <2>1. ~Trouble("answer lost")
    BY TroubleIsNoted
  <2>2. Untroubled
    BY <1>15, <2>1, NothingIsNoted, SilenceIsNoted DEF CloseLongLink
  <2>3. pc = "close" /\ UNCHANGED <<apktime, syncid, builds, ticket>>
    BY <1>15 DEF CloseLongLink
  <2>4. \/ pc' = "rollback" /\ UNCHANGED app
        \/ pc' = "idle" /\ app' = Loaded
    BY <1>15, <2>1 DEF CloseLongLink
  <2>5. app.ticket \in Nat /\ syncid = app.ticket + 1 /\ app.uuid = apktime
    BY <2>2, <2>3 DEF Types, AlwaysInStep, Ours, Held, Ahead
  <2>6. Ticket = syncid
    BY <2>5 DEF Ticket
  <2>7. app' = Loaded => app'.ticket = Ticket /\ app'.uuid = app.uuid
    BY DEF Loaded, Types
  <2> QED BY <2>3, <2>4, <2>5, <2>6, <2>7 DEF AlwaysInStep, Ours, Held, Ahead
<1>16. CASE OpenRollback
  <2>1. Untroubled
    BY <1>16, NothingIsNoted DEF OpenRollback
  <2> QED BY <1>16, <2>1 DEF OpenRollback, Ticket, AlwaysInStep, Types, Ours, Held, Ahead, local
<1>17. CASE WriteRollback
  <2>1. Untroubled
    BY <1>17, NothingIsNoted DEF WriteRollback
  <2> QED BY <1>17, <2>1 DEF WriteRollback, Ticket, AlwaysInStep, Types, Ours, Held, Ahead, local
<1>18. CASE UNCHANGED vars
  <2>1. Untroubled
    BY <1>18, NothingIsNoted DEF vars
  <2> QED BY <1>18, <2>1 DEF vars, Ticket, AlwaysInStep, Types, Ours, Held, Ahead, local
<1> QED
  BY <1>1, <1>2, <1>3, <1>4, <1>5, <1>6, <1>7, <1>8, <1>9, <1>10, <1>11,
     <1>12, <1>13, <1>14, <1>15, <1>16, <1>17, <1>18 DEF Next, Client, Tickets

LEMMA Initially == Init => Counts /\ AlwaysInStep
<1> SUFFICES ASSUME Init PROVE Counts /\ AlwaysInStep
  OBVIOUS
<1>1. Types /\ TroubleType /\ Writing
  BY SyncClientAssumption DEF Init, Types, TroubleType, Writing
<1>2. SameApk /\ LocalCount /\ DeviceCount /\ InStep
  BY <1>1 DEF Init, SameApk, LocalCount, DeviceCount, InStep, Ours, Held, Ahead, Transferring
<1>3. AlwaysInStep
  BY <1>1 DEF Init, AlwaysInStep, Ours, Held, Ahead
<1> QED BY <1>1, <1>2, <1>3 DEF Counts

LEMMA TicketsCount == Spec => [](Counts /\ AlwaysInStep)
<1>1. Counts /\ AlwaysInStep /\ [Next]_vars => (Counts /\ AlwaysInStep)'
  BY CountsStep, InStepStep
<1> QED BY Initially, <1>1, PTL DEF Spec

-----------------------------------------------------------------------------
(* The bounds of the numbers *)

\* The application has no more patches than its ticket says, nor than the local one
\* will say once it has the next.
Bounds ==
  /\ app.patches <= app.ticket
  /\ pc = "scan" => port \in Ports
  /\ pc \in {"scan", "wake_up", "connected", "full_pack", "push", "update"} =>
       Ticket < MaxTicket /\ believed.patches < MaxTicket
  /\ pc \in {"connected", "full_pack", "push", "update"} => app.patches <= Ticket
  /\ pc = "write" => app.patches < ticket /\ believed.patches < MaxTicket
  /\ pc = "close" => app.patches < Ticket /\ believed.patches < MaxTicket

\* The port after the last has none after it, and the first is one.
LEMMA PortsAre ==
  /\ Ports \subseteq Nat \ {0} /\ 1 \in Ports
<1>1. Cardinality(Ports) \in Nat
  BY SyncClientAssumption, FS_CardinalityType
<1> DEFINE n == Cardinality(Ports)
<1>2. Ports = 1..n /\ n \in Nat
  BY <1>1, SyncClientAssumption
<1> HIDE DEF n
<1>3. Ports # {}
  BY SyncClientAssumption
<1> QED BY <1>2, <1>3

\* Noting what goes wrong keeps within the bound.
LEMMA TroubleIsBounded ==
  ASSUME TroubleType, trouble.n \in 0..MaxTrouble
  PROVE  /\ \A kind : Trouble(kind) => trouble'.n \in 0..MaxTrouble
         /\ NoAnswer => trouble'.n \in 0..MaxTrouble
<1>1. ASSUME NEW kind, Trouble(kind) PROVE trouble'.n \in 0..MaxTrouble
  <2>1. trouble' = [n |-> trouble.n + 1, what |-> trouble.what \cup {kind}] /\ trouble.n < MaxTrouble
    BY <1>1 DEF Trouble
  <2> QED BY <2>1, SyncClientAssumption
<1>2. NoAnswer => trouble'.n \in 0..MaxTrouble
  BY <1>1 DEF NoAnswer
<1> QED BY <1>1, <1>2

LEMMA BoundsStep == Counts /\ TypeOK /\ Bounds /\ [Next]_vars => TypeOK' /\ Bounds'
<1> SUFFICES ASSUME Counts, TypeOK, Bounds, [Next]_vars PROVE TypeOK' /\ Bounds'
  OBVIOUS
<1>a. /\ app.ticket \in Nat /\ app.patches \in Nat /\ believed.patches \in Nat /\ believed.apk \in Nat
      /\ app = [apk |-> app.apk, uuid |-> app.uuid, ticket |-> app.ticket, patches |-> app.patches,
                base |-> app.base, runs |-> app.runs]
      /\ believed = [apk |-> believed.apk, patches |-> believed.patches]
      /\ Ticket \in 0..MaxTicket /\ ticket \in Nat
  BY SyncClientAssumption DEF Counts, Types, Ticket, TypeOK
<1>b. TroubleType /\ trouble.n \in 0..MaxTrouble
  BY DEF Counts, TypeOK
<1> USE <1>a, <1>b, SyncClientAssumption
<1>1. CASE AppStops /\ UNCHANGED ticket
  <2>1. trouble'.n \in 0..MaxTrouble
    BY <1>1, TroubleIsBounded DEF AppStops
  <2>2. app' = [apk |-> app.apk, uuid |-> app.uuid, ticket |-> app.ticket, patches |-> app.patches,
                base |-> app.base, runs |-> FALSE]
    BY <1>1 DEF AppStops
  <2>3. UNCHANGED <<local, pc, ticket, port, attempt, forwards, builds>>
    BY <1>1 DEF AppStops
  <2> QED BY <2>1, <2>2, <2>3 DEF TypeOK, Bounds, Ticket, local
<1>2. CASE Reinstall /\ UNCHANGED ticket
  <2>1. trouble'.n \in 0..MaxTrouble
    BY <1>2, TroubleIsBounded DEF Reinstall
  <2>2. app' = [apk |-> app.apk, uuid |-> app.uuid, ticket |-> 0, patches |-> 0,
                base |-> FALSE, runs |-> app.runs]
    BY <1>2 DEF Reinstall
  <2>3. UNCHANGED <<local, pc, ticket, port, attempt, forwards, builds>>
    BY <1>2 DEF Reinstall
  <2> QED BY <2>1, <2>2, <2>3 DEF TypeOK, Bounds, Ticket, local
<1>3. CASE Kill /\ UNCHANGED ticket
  <2>1. trouble'.n \in 0..MaxTrouble
    BY <1>3, TroubleIsBounded DEF Kill
  <2> QED BY <1>3, <2>1 DEF Kill, TypeOK, Bounds, local
<1>4. CASE StartCleanBuild /\ UNCHANGED ticket
  <2>1. PICK t \in Times : /\ apktime' = t
                           /\ trouble' = [trouble EXCEPT !.what = IF t = app.uuid THEN {"collided"} ELSE {}]
    BY <1>4 DEF StartCleanBuild
  <2>2. trouble'.n = trouble.n
    BY <2>1 DEF TroubleType
  <2>0. /\ builds < MaxBuilds /\ builds' = builds + 1 /\ believed' = [apk |-> builds', patches |-> 0]
        /\ syncid' = 0 /\ fullPack' \in BOOLEAN /\ pc' = "installing" /\ port' = 0 /\ attempt' = 0
        /\ UNCHANGED <<app, forwards, ticket>>
    BY ONLY <1>4 DEF StartCleanBuild
  <2>a. builds \in 0..MaxBuilds
    BY DEF TypeOK
  <2>3. builds' \in 0..MaxBuilds
    BY ONLY <2>0, <2>a, SyncClientAssumption
  <2>4. TypeOK'
    BY <2>0, <2>1, <2>2, <2>3 DEF TypeOK
  <2>5. Bounds'
    BY <2>0 DEF Bounds
  <2> QED BY <2>4, <2>5
<1>5. CASE Install /\ UNCHANGED ticket
  BY <1>5 DEF Install, TypeOK, Bounds, local
<1>6. CASE Connect /\ UNCHANGED ticket
  BY <1>6, PortsAre DEF Connect, TypeOK, Bounds, local, Ticket
<1>7. CASE ScanPort /\ UNCHANGED ticket
  <2>1. CheckSync(port) = "ok" => app.ticket = Ticket
    BY DEF CheckSync, Counts, Types
  <2> QED BY <1>7, <2>1 DEF ScanPort, TypeOK, Bounds, local, Ticket
<1>8. CASE WakeUp /\ UNCHANGED ticket
  <2>1. PICK runs \in BOOLEAN : app' = [apk |-> app.apk, uuid |-> app.uuid, ticket |-> app.ticket,
                                        patches |-> app.patches, base |-> app.base, runs |-> runs]
    BY <1>8 DEF WakeUp, TypeOK
  <2>2. /\ pc = "wake_up" /\ attempt < WakeUps /\ attempt' = attempt + 1 /\ pc' = "scan" /\ port' = 1
        /\ UNCHANGED <<local, ticket, forwards, builds, trouble>>
    BY <1>8 DEF WakeUp
  <2>a. attempt \in 0..WakeUps
    BY DEF TypeOK
  <2>b. attempt' \in 0..WakeUps
    BY ONLY <2>a, <2>2, SyncClientAssumption
  <2>c. /\ app.apk \in 0..MaxBuilds /\ app.uuid \in Times /\ app.ticket \in 0..MaxTicket
        /\ app.patches \in 0..MaxTicket /\ app.base \in BOOLEAN
    BY DEF TypeOK
  <2>d. /\ app'.apk \in 0..MaxBuilds /\ app'.uuid \in Times /\ app'.ticket \in 0..MaxTicket
        /\ app'.patches \in 0..MaxTicket /\ app'.base \in BOOLEAN /\ app'.runs \in BOOLEAN
    BY ONLY <2>1, <2>c
  <2>3. TypeOK'
    BY <2>b, <2>d, <2>2, PortsAre DEF TypeOK, local
  <2>4. Bounds'
    BY <2>1, <2>2, PortsAre DEF Bounds, local, Ticket
  <2> QED BY <2>3, <2>4
<1>9. CASE NotFound /\ UNCHANGED ticket
  BY <1>9 DEF NotFound, TypeOK, Bounds, local, Ticket
<1>10. CASE CheckBaseResource /\ UNCHANGED ticket
  <2>1. trouble'.n \in 0..MaxTrouble
    BY <1>10, TroubleIsBounded DEF CheckBaseResource, Continues, Fails
  <2> QED BY <1>10, <2>1 DEF CheckBaseResource, Continues, Fails, TypeOK, Bounds, local, Ticket
<1>11. CASE PushFullResPack /\ UNCHANGED ticket
  <2>1. trouble'.n \in 0..MaxTrouble
    BY <1>11, TroubleIsBounded DEF PushFullResPack, Continues, Fails
  <2>2. PICK base \in BOOLEAN : app' = [apk |-> app.apk, uuid |-> app.uuid, ticket |-> app.ticket,
                                        patches |-> app.patches, base |-> base, runs |-> app.runs]
    BY <1>11 DEF PushFullResPack, TypeOK
  <2>3. /\ pc = "full_pack" /\ pc' \in {"push", "idle"} /\ port' \in {port, 0}
        /\ UNCHANGED <<local, ticket, attempt, forwards, builds>>
    BY <1>11 DEF PushFullResPack, Continues, Fails
  <2> QED BY <2>1, <2>2, <2>3 DEF TypeOK, Bounds, local, Ticket
<1>12. CASE Push /\ UNCHANGED ticket
  <2>1. trouble'.n \in 0..MaxTrouble
    BY <1>12, TroubleIsBounded DEF Push, Continues, Fails
  <2> QED BY <1>12, <2>1 DEF Push, Continues, Fails, TypeOK, Bounds, local, Ticket
<1>13. CASE OpenTicket
  <2>1. /\ pc = "update" /\ ticket' = Ticket + 1 /\ syncid' = NoTicket /\ pc' = "write"
        /\ UNCHANGED <<apktime, believed, fullPack, app, port, attempt, forwards, builds, trouble>>
    BY <1>13 DEF OpenTicket
  <2>2. app.patches < ticket' /\ ticket' \in 0..MaxTicket /\ believed.patches < MaxTicket
    BY <2>1 DEF Bounds
  <2> QED BY <2>1, <2>2 DEF TypeOK, Bounds
<1>14. CASE WriteTicket
  BY <1>14 DEF WriteTicket, TypeOK, Bounds, Ticket
<1>15. CASE CloseLongLink
  <2>1. trouble'.n \in 0..MaxTrouble
    BY <1>15, TroubleIsBounded DEF CloseLongLink
  <2>2. \/ app' = app
        \/ app' = [apk |-> app.apk, uuid |-> app.uuid, ticket |-> Ticket, patches |-> app.patches + 1,
                   base |-> app.base, runs |-> app.runs]
    BY <1>15 DEF CloseLongLink, Loaded
  <2>3. \/ believed' = believed
        \/ believed' = [apk |-> believed.apk, patches |-> believed.patches + 1]
    BY <1>15 DEF CloseLongLink
  <2>4. /\ pc = "close" /\ pc' \in {"idle", "rollback"} /\ port' \in {port, 0} /\ forwards' \subseteq forwards
        /\ UNCHANGED <<apktime, syncid, fullPack, attempt, builds, ticket>>
    BY <1>15 DEF CloseLongLink
  <2>a. app.patches < Ticket /\ believed.patches < MaxTicket
    BY <2>4 DEF Bounds
  <2>5. /\ app.patches + 1 <= Ticket /\ believed.patches + 1 <= MaxTicket
        /\ app.patches + 1 \in 0..MaxTicket /\ believed.patches + 1 \in 0..MaxTicket
    BY ONLY <2>a, <1>a, SyncClientAssumption
  <2>6. /\ app.apk \in 0..MaxBuilds /\ app.uuid \in Times /\ app.ticket \in 0..MaxTicket
        /\ app.patches \in 0..MaxTicket /\ app.base \in BOOLEAN /\ app.runs \in BOOLEAN
        /\ believed.apk \in 0..MaxBuilds /\ believed.patches \in 0..MaxTicket
    BY DEF TypeOK
  <2>7. app.patches <= app.ticket
    BY DEF Bounds
  <2>8. /\ app'.apk \in 0..MaxBuilds /\ app'.uuid \in Times /\ app'.ticket \in 0..MaxTicket
        /\ app'.patches \in 0..MaxTicket /\ app'.base \in BOOLEAN /\ app'.runs \in BOOLEAN
        /\ app'.patches <= app'.ticket
    <3>1. CASE app' = app
      BY <3>1, <2>6, <2>7
    <3>2. CASE app' = [apk |-> app.apk, uuid |-> app.uuid, ticket |-> Ticket, patches |-> app.patches + 1,
                       base |-> app.base, runs |-> app.runs]
      BY <3>2, <2>5, <2>6
    <3> QED BY <3>1, <3>2, <2>2
  <2>9. believed'.apk \in 0..MaxBuilds /\ believed'.patches \in 0..MaxTicket
    BY <2>3, <2>5, <2>6
  <2>10. TypeOK'
    BY <2>1, <2>4, <2>8, <2>9 DEF TypeOK
  <2>11. Bounds'
    BY <2>4, <2>8 DEF Bounds
  <2> QED BY <2>10, <2>11
<1>16. CASE OpenRollback
  BY <1>16 DEF OpenRollback, TypeOK, Bounds, Ticket
<1>17. CASE WriteRollback
  BY <1>17 DEF WriteRollback, TypeOK, Bounds, Ticket
<1>18. CASE UNCHANGED vars
  BY <1>18 DEF vars, local, TypeOK, Bounds, Ticket
<1> QED
  BY <1>1, <1>2, <1>3, <1>4, <1>5, <1>6, <1>7, <1>8, <1>9, <1>10, <1>11,
     <1>12, <1>13, <1>14, <1>15, <1>16, <1>17, <1>18 DEF Next, Client, Tickets

LEMMA BoundsInitially == Init => TypeOK /\ Bounds
BY SyncClientAssumption DEF Init, TypeOK, Bounds

\* sync_client.py:70-125, 162-177, 221-260 - however requests and answers get lost, processes are
\* killed and applications stop or are installed anew: one that is patched is the one
\* the caches describe, with every patch they count, as long as none of the three things
\* has happened that the tickets cannot tell.
THEOREM PatchesTheRightOne == Spec => []PatchedIsAsBelieved
<1>1. Counts => PatchedIsAsBelieved
  BY DEF Counts, Types, SameApk, LocalCount, DeviceCount, InStep, Told, Held, Ahead,
         Transferring, PatchedIsAsBelieved
<1> QED BY TicketsCount, <1>1, PTL

\* sync_client.py:99-125, 162-177, 241-248 - a ticket that is taken back when no answer comes is
\* right unless the answer was lost: without a kill, a lost answer or an installation
\* from elsewhere no application is ever refused, however many transfers have failed.
THEOREM RefusesWithCause == Spec => []RefusalHasCause
<1>1. AlwaysInStep => RefusalHasCause
  BY DEF AlwaysInStep, Untroubled, RefusalHasCause
<1> QED BY TicketsCount, <1>1, PTL

-----------------------------------------------------------------------------
(* IncrementalBuild *)

\* Items nothing is claimed of: the exceptions of NothingIsForgotten.
Exempt == history.during \cup history.dropped \cup history.unused

\* No task of the build has failed.
AllWell == \A t \in Inc!Tasks : buildPc[t] \notin {"raised", "failed"}

\* What has not been compiled is as the clean build made it.
Num(v) == IF v = None THEN 0 ELSE v

\* Version v of item i is on its way through the caches and in the application.
Everywhere(i) ==
  /\ pushed[i] = version[i] /\ running[i] = version[i]
  /\ i \in Inc!Res => pack[i] = version[i]
  /\ \A m \in Modules : i = Inc!Src(m) =>
       /\ Num(patch[m]) = version[i] /\ Num(dex[m]) = version[i]
       /\ merged # None => Num(merged[m]) = version[i]

\* The step of each task, by kind of task.
PcType ==
  /\ \A m \in Modules : buildPc[m] \in {"waiting", "dx", "done", "raised", "failed"}
  /\ buildPc["sync"] \in {"waiting", "done", "raised", "failed", "dex", "native", "state"}
  /\ \A t \in {"aapt", "merge_dex", "connect", "clean_cache"} : buildPc[t] \in {"waiting", "done", "raised", "failed"}
  /\ buildPc["update_stat"] \in {"waiting", "done", "raised", "failed", "write"}

Begun(t) == buildPc[t] \notin {"waiting", "failed"}

\* A task that has begun comes after its parents, and dexes are merged after the
\* compilation of all modules, not only of the last ones.
Order ==
  /\ \A t \in Inc!Tasks : Begun(t) => \A p \in Inc!Parents(t) : Inc!Ended(p)
  /\ (\E t \in Inc!Tasks : buildPc[t] = "failed") => \A t \in Inc!Tasks : buildPc[t] # "waiting"
  /\ Begun("merge_dex") => Inc!Ended("aapt") /\ \A m \in Modules : Inc!Ended(m)
  /\ phase = "idle" => \/ \A t \in Inc!Tasks : buildPc[t] = "done"
                       \/ \A t \in Inc!Tasks : buildPc[t] = "failed"

\* What the stat takes for built is everywhere.
RecordedIsEverywhere ==
  \A i \in Inc!Items \ Exempt :
    stat[i] <= version[i] /\ (stat[i] = version[i] => Everywhere(i))

InBuild == phase = "tasks" /\ AllWell
\* The markers have been taken away.
Cleared == buildPc["clean_cache"] = "done"
SyncPast(steps) == buildPc["sync"] \in steps \cup {"done"}

\* A changed file on its way to the application, while no task fails.
ResOnTheWay(i) ==
  /\ buildPc["aapt"] = "done" => pack[i] = version[i] /\ (~Cleared => "sync" \in flags)
  /\ SyncPast({"dex", "native", "state"}) => pushed[i] = version[i]
  /\ SyncPast({}) => running[i] = version[i]

SrcOnTheWay(m) ==
  LET v == version[Inc!Src(m)]
  IN  /\ buildPc[m] \in {"dx", "done"} => patch[m] = v
      /\ buildPc[m] = "done" => dex[m] = v
      /\ ~Cleared => "src" \in flags
      /\ ~Cleared /\ buildPc["merge_dex"] = "done" => merged # None /\ merged[m] = v
      /\ SyncPast({"native", "state"}) => pushed[Inc!Src(m)] = v
      /\ SyncPast({}) => running[Inc!Src(m)] = v

SoOnTheWay ==
  /\ ~Cleared => "native" \in flags
  /\ SyncPast({"state"}) => pushed[Inc!So] = version[Inc!So]
  /\ SyncPast({}) => running[Inc!So] = version[Inc!So]

ResComes == InBuild => \A i \in (changed \cap Inc!Res) \ Exempt : ResOnTheWay(i)
SrcComes == InBuild => \A m \in Modules : Inc!Src(m) \in changed \ Exempt => SrcOnTheWay(m)
SoComes == InBuild => (Inc!So \in changed \ Exempt => SoOnTheWay)

\* A job that was begun is still to be sent, and is done when it was.
JobIsSent ==
  InBuild /\ ~Cleared =>
    /\ buildPc["aapt"] = "done" /\ "job" \in flags => "sync" \in flags
    /\ SyncPast({"dex", "native", "state"}) => "job" \notin flags

MarkersGo == AllWell /\ Cleared => flags = {} /\ merged = None

\* The marker of a restart is left by a dex whose sources are marked as well.
RestartHasSrc ==
  history.dropped = {} =>
    /\ "restart" \in flags => "src" \in flags /\ \E m \in Modules : dex[m] # None
    /\ phase = "tasks" /\ ~Cleared =>
         /\ apt # {} \/ (\E m \in Modules : Inc!Src(m) \in changed) => "src" \in flags
         /\ restart => "src" \in flags /\ \E m \in Modules : dex[m] # None
         /\ restart /\ buildPc["merge_dex"] = "done" => merged # None
    /\ \A m \in Modules : buildPc[m] = "dx" => patch[m] # None /\ ~Cleared /\ "src" \in flags

IncInv ==
  /\ Inc!TypeOK /\ PcType /\ Order
  /\ RecordedIsEverywhere /\ ResComes /\ SrcComes /\ SoComes
  /\ JobIsSent /\ MarkersGo /\ RestartHasSrc

-----------------------------------------------------------------------------
LEMMA TasksAre ==
  /\ Inc!Tasks = Modules \cup Inc!MainLine
  /\ \A m \in Modules : m \notin Inc!MainLine
BY PatchAssumption DEF Inc!IncrementalBuildAssumption, Inc!Tasks, Inc!Compile

\* An item is the sources, the resources or the jars of a module, or the native libraries.
LEMMA ItemsAre ==
  /\ Inc!Res \subseteq Inc!Items /\ Inc!So \in Inc!Items /\ Inc!So \notin Inc!Res
  /\ \A m \in Modules : /\ Inc!Src(m) \in Inc!Items /\ Inc!Src(m) \notin Inc!Res /\ Inc!Src(m) # Inc!So
                        /\ Inc!Src(m)[1] = "src" /\ Inc!Src(m)[2] = m
                        /\ <<"res", m>> \in Inc!Res
                        /\ \A n \in Modules : Inc!Src(m) = Inc!Src(n) => m = n
  /\ \A i \in Inc!Items : \/ i \in Inc!Res /\ i[1] # "src"
                          \/ i = Inc!So /\ i[1] # "src"
                          \/ i \in Inc!Libs /\ i[1] # "src"
                          \/ \E m \in Modules : i = Inc!Src(m) /\ i[1] = "src" /\ i[2] = m
<1> USE PatchAssumption DEF Inc!IncrementalBuildAssumption, Inc!Items, Inc!Res, Inc!Src, Inc!So, Inc!Libs
<1>1. Inc!Res \subseteq Inc!Items /\ Inc!So \in Inc!Items /\ Inc!So \notin Inc!Res
  OBVIOUS
<1>2. ASSUME NEW m \in Modules
      PROVE  /\ Inc!Src(m) \in Inc!Items /\ Inc!Src(m) \notin Inc!Res /\ Inc!Src(m) # Inc!So
             /\ Inc!Src(m)[1] = "src" /\ Inc!Src(m)[2] = m
             /\ <<"res", m>> \in Inc!Res
             /\ \A n \in Modules : Inc!Src(m) = Inc!Src(n) => m = n
  OBVIOUS
<1>3. ASSUME NEW i \in Inc!Items
      PROVE  \/ i \in Inc!Res /\ i[1] # "src"
             \/ i = Inc!So /\ i[1] # "src"
             \/ i \in Inc!Libs /\ i[1] # "src"
             \/ \E m \in Modules : i = Inc!Src(m) /\ i[1] = "src" /\ i[2] = m
  OBVIOUS
<1> QED BY <1>1, <1>2, <1>3

LEMMA IncTypesStep == Inc!TypeOK /\ PcType /\ [Inc!Next]_incVars => Inc!TypeOK' /\ PcType'
<1> SUFFICES ASSUME Inc!TypeOK, PcType, [Inc!Next]_incVars PROVE Inc!TypeOK' /\ PcType'
  OBVIOUS
<1> USE PatchAssumption, TasksAre DEF Inc!IncrementalBuildAssumption, Inc!MainLine, Inc!TypeOK, PcType,
      Inc!Versions, Inc!PerModule, Inc!Steps, Inc!Markers, Inc!Compile,
      Inc!At, Inc!Ready, Inc!GoesTo, Inc!Returns, Inc!Raises, Inc!record, Inc!inputs, Inc!cache, Inc!device
<1>1. ASSUME NEW i \in Edited, Inc!Edit(i) PROVE Inc!TypeOK' /\ PcType'
  BY <1>1 DEF Inc!Edit
<1>2. CASE Inc!StartBuild
  BY <1>2 DEF Inc!StartBuild
<1>3. CASE Inc!BuildEnds
  BY <1>3 DEF Inc!BuildEnds
<1>4. ASSUME NEW t \in Inc!Tasks, Inc!PassException(t) PROVE Inc!TypeOK' /\ PcType'
  BY <1>4 DEF Inc!PassException
<1>5. CASE Inc!SkipAapt
  BY <1>5 DEF Inc!SkipAapt
<1>6. CASE Inc!Aapt
  <2>1. \E step \in {"raised", "done"} : buildPc' = [buildPc EXCEPT !["aapt"] = step]
    BY <1>6 DEF Inc!Aapt
  <2>2. flags' \subseteq Inc!Markers /\ apt' \subseteq DataBinding /\ newR' \in BOOLEAN
    BY <1>6 DEF Inc!Aapt, Inc!Bound
  <2>3. pack' \in [Inc!Res -> 0..MaxEdits]
    <3>1. pack' = pack \/ pack' = [r \in Inc!Res |-> version[r]]
      BY <1>6 DEF Inc!Aapt
    <3>2. \A r \in Inc!Res : version[r] \in 0..MaxEdits
      BY ItemsAre
    <3> QED BY <3>1, <3>2
  <2> QED BY <1>6, <2>1, <2>2, <2>3 DEF Inc!Aapt
<1>7. ASSUME NEW m \in Modules, Inc!SkipJavac(m) PROVE Inc!TypeOK' /\ PcType'
  BY <1>7 DEF Inc!SkipJavac, Inc!RFlag
<1>8. ASSUME NEW m \in Modules, Inc!NothingNewGenerated(m) PROVE Inc!TypeOK' /\ PcType'
  <2>1. \E step \in {"raised", "done"} : buildPc' = [buildPc EXCEPT ![m] = step]
    BY <1>8 DEF Inc!NothingNewGenerated
  <2>2. flags' \subseteq Inc!Markers
    BY <1>8 DEF Inc!NothingNewGenerated, Inc!RFlag
  <2>3. history' \in [during : SUBSET Inc!Items, dropped : SUBSET Inc!Items, unused : SUBSET Inc!Items]
    BY <1>8 DEF Inc!NothingNewGenerated, Inc!Src, Inc!Items
  <2> QED BY <1>8, <2>1, <2>2, <2>3 DEF Inc!NothingNewGenerated
<1>9. ASSUME NEW m \in Modules, Inc!Javac(m) PROVE Inc!TypeOK' /\ PcType'
  <2>1. \E step \in {"raised", "dx"} : buildPc' = [buildPc EXCEPT ![m] = step]
    BY <1>9 DEF Inc!Javac
  <2>2. flags' \subseteq Inc!Markers /\ newR' \in BOOLEAN
    BY <1>9 DEF Inc!Javac, Inc!RFlag
  <2>3. patch' \in Inc!PerModule
    BY <1>9 DEF Inc!Javac, Inc!Src, Inc!Items
  <2> QED BY <1>9, <2>1, <2>2, <2>3 DEF Inc!Javac
<1>10. ASSUME NEW m \in Modules, Inc!Dx(m) PROVE Inc!TypeOK' /\ PcType'
  <2>1. \E step \in {"raised", "done"} : buildPc' = [buildPc EXCEPT ![m] = step]
    BY <1>10 DEF Inc!Dx
  <2>2. flags' \subseteq Inc!Markers /\ dex' \in Inc!PerModule
    <3>1. flags' = flags \/ flags' = flags \cup {"restart"}
      BY <1>10 DEF Inc!Dx
    <3>2. dex' = dex \/ dex' = [dex EXCEPT ![m] = patch[m]]
      BY <1>10 DEF Inc!Dx
    <3> QED BY <3>1, <3>2
  <2>3. UNCHANGED <<version, Inc!record, Inc!inputs, pack, newR, patch, merged, Inc!device, phase, buildBuilds, history>>
    BY <1>10 DEF Inc!Dx
  <2> QED BY <2>1, <2>2, <2>3
<1>11. CASE Inc!MergeDex
  BY <1>11 DEF Inc!MergeDex
<1>12. CASE Inc!Connect
  BY <1>12 DEF Inc!Connect
<1>13. CASE Inc!PushRes
  <2>1. \E step \in {"raised", "dex"} : buildPc' = [buildPc EXCEPT !["sync"] = step]
    BY <1>13 DEF Inc!PushRes
  <2>2. flags' \subseteq Inc!Markers /\ pushed' \in Inc!Versions
    <3>1. flags' = flags \/ flags' = flags \ {"job"}
      BY <1>13 DEF Inc!PushRes
    <3>2. pushed' = pushed \/ pushed' = [i \in Inc!Items |-> IF i \in Inc!Res THEN pack[i] ELSE pushed[i]]
      BY <1>13 DEF Inc!PushRes
    <3>3. flags' \subseteq Inc!Markers
      BY <3>1
    <3>4. \A i \in Inc!Items : (IF i \in Inc!Res THEN pack[i] ELSE pushed[i]) \in 0..MaxEdits
      OBVIOUS
    <3> QED BY <3>2, <3>3, <3>4
  <2>3. UNCHANGED <<version, Inc!record, Inc!inputs, pack, newR, patch, dex, merged, running, accepts, phase, buildBuilds, history>>
    BY <1>13 DEF Inc!PushRes
  <2> QED BY <2>1, <2>2, <2>3
<1>14. CASE Inc!PushDex
  BY <1>14 DEF Inc!PushDex, Inc!Items
<1>15. CASE Inc!PushNative
  <2>1. buildPc' = [buildPc EXCEPT !["sync"] = "state"]
    BY <1>15 DEF Inc!PushNative
  <2>2. /\ history' \in [during : SUBSET Inc!Items, dropped : SUBSET Inc!Items, unused : SUBSET Inc!Items]
        /\ pushed' \in Inc!Versions
    <3>1. \/ history' = history
          \/ history' = [during |-> history.during, dropped |-> history.dropped \cup {Inc!So}, unused |-> history.unused]
      BY <1>15 DEF Inc!PushNative
    <3>2. pushed' = pushed \/ pushed' = [pushed EXCEPT ![Inc!So] = version[Inc!So]]
      BY <1>15 DEF Inc!PushNative
    <3> QED BY <3>1, <3>2, ItemsAre
  <2> QED BY <1>15, <2>1, <2>2 DEF Inc!PushNative
<1>16. CASE Inc!SyncState
  <2>1. \E step \in {"raised", "done"} : buildPc' = [buildPc EXCEPT !["sync"] = step]
    BY <1>16 DEF Inc!SyncState
  <2>2. running' \in Inc!Versions /\ accepts' \in BOOLEAN
    BY <1>16 DEF Inc!SyncState
  <2> QED BY <1>16, <2>1, <2>2 DEF Inc!SyncState
<1>17. CASE Inc!CleanCache
  BY <1>17 DEF Inc!CleanCache
<1>18. CASE Inc!UpdateStat
  BY <1>18 DEF Inc!UpdateStat
<1>19. CASE Inc!WriteStat
  BY <1>19 DEF Inc!WriteStat
<1>20. CASE Inc!BuildWithoutStat
  BY <1>20 DEF Inc!BuildWithoutStat
<1>21. CASE UNCHANGED incVars
  BY <1>21 DEF incVars
<1> QED
  BY <1>1, <1>2, <1>3, <1>4, <1>5, <1>6, <1>7, <1>8, <1>9, <1>10, <1>11, <1>12, <1>13, <1>14,
     <1>15, <1>16, <1>17, <1>18, <1>19, <1>20, <1>21 DEF Inc!Next

-----------------------------------------------------------------------------
\* The parents of each task.
LEMMA ParentsAre ==
  /\ Inc!Parents("merge_dex") = Inc!Lasts
  /\ Inc!Parents("sync") = {"merge_dex", "connect"}
  /\ Inc!Parents("clean_cache") = {"sync"}
  /\ Inc!Parents("update_stat") = {"clean_cache"}
  /\ \A m \in Modules :
       /\ m \in Inc!Roots => Inc!Parents(m) = {"aapt"}
       /\ \A d \in Modules : <<m, d>> \in Deps => d \in Inc!Parents(m)
  /\ \A t \in Inc!Tasks : Inc!Parents(t) \subseteq Inc!Tasks
<1> USE TasksAre DEF Inc!Parents, Inc!Compile, Inc!MainLine
<1>1. Inc!Parents("merge_dex") = Inc!Lasts
  BY DEF Inc!Lasts
<1>2. /\ Inc!Parents("sync") = {"merge_dex", "connect"}
      /\ Inc!Parents("clean_cache") = {"sync"}
      /\ Inc!Parents("update_stat") = {"clean_cache"}
      /\ Inc!Parents("aapt") = {} /\ Inc!Parents("connect") = {}
  OBVIOUS
<1>3. ASSUME NEW m \in Modules
      PROVE  /\ m \in Inc!Roots => Inc!Parents(m) = {"aapt"}
             /\ \A d \in Modules : <<m, d>> \in Deps => d \in Inc!Parents(m)
             /\ Inc!Parents(m) \subseteq Inc!Tasks
  <2>1. Inc!Parents(m) = IF m \in Inc!Roots THEN {"aapt"} ELSE {d \in Modules : <<m, d>> \in Deps}
    OBVIOUS
  <2> QED BY <2>1 DEF Inc!Roots
<1>4. Inc!Lasts \subseteq Inc!Tasks
  BY DEF Inc!Lasts
<1> QED BY <1>1, <1>2, <1>3, <1>4

\* When the last modules have been compiled all have, and aapt was before them.
LEMMA MergeComesLast ==
  ASSUME Order, Inc!Ready("merge_dex")
  PROVE  Inc!Ended("aapt") /\ \A m \in Modules : Inc!Ended(m)
<1>1. \A t \in Inc!Tasks : buildPc[t] # "failed"
  BY TasksAre DEF Order, Inc!Ready, Inc!MainLine
<1>2. \A t \in Inc!Tasks : Inc!Ended(t) => \A p \in Inc!Parents(t) : Inc!Ended(p)
  BY <1>1 DEF Order, Begun, Inc!Ended
<1>3. \A m \in Inc!Lasts : Inc!Ended(m)
  BY ParentsAre DEF Inc!Ready
<1>4. ASSUME NEW m \in Modules, ~Inc!Ended(m) PROVE FALSE
  <2> DEFINE U == {n \in Modules : ~Inc!Ended(n)}
  <2>1. PICK d \in U : \A n \in U : <<n, d>> \notin Deps
    BY <1>4, PatchAssumption DEF Inc!IncrementalBuildAssumption, Inc!NoCircle
  <2>2. d \notin Inc!Lasts
    BY <1>3, <2>1
  <2>3. PICK n \in Modules : <<n, d>> \in Deps
    BY <2>1, <2>2 DEF Inc!Lasts
  <2>4. Inc!Ended(n)
    BY <2>1, <2>3
  <2>5. Inc!Ended(d)
    BY <1>2, <2>1, <2>3, <2>4, ParentsAre, TasksAre
  <2> QED BY <2>1, <2>5
<1>5. PICK m \in Modules : m \in Inc!Roots
  <2>1. Modules \in (SUBSET Modules) \ {{}}
    <3>1. Main \in Modules
      BY PatchAssumption DEF Inc!IncrementalBuildAssumption
    <3> QED BY <3>1
  <2> QED BY <2>1, PatchAssumption DEF Inc!IncrementalBuildAssumption, Inc!NoCircle, Inc!Roots
<1> QED BY <1>2, <1>4, <1>5, ParentsAre, TasksAre

\* A task that begins after its parents, or goes on, keeps the order.
LEMMA OneTaskMoves ==
  ASSUME Inc!TypeOK, Order, NEW t \in Inc!Tasks, NEW step,
         step \notin {"waiting", "failed"}, Inc!GoesTo(t, step),
         phase = "tasks", phase' = phase,
         Inc!Ready(t) \/ (buildPc[t] # "waiting" /\ ~Inc!Ended(t))
  PROVE  Order'
<1>1. /\ buildPc'[t] = step
      /\ \A u \in Inc!Tasks \ {t} : buildPc'[u] = buildPc[u]
  BY DEF Inc!GoesTo, Inc!TypeOK
<1>2. \A u \in Inc!Tasks : Inc!Ended(u) => Inc!Ended(u)'
  BY <1>1 DEF Inc!Ended, Inc!Ready
<1>3. \A u \in Inc!Tasks : Inc!Parents(u) \subseteq Inc!Tasks
  BY ParentsAre
<1>4. \A p \in Inc!Parents(t) : Inc!Ended(p)
  BY DEF Inc!Ready, Order, Begun, Inc!Ended
<1>5. \A u \in Inc!Tasks : Begun(u)' => \A p \in Inc!Parents(u) : Inc!Ended(p)'
  <2> SUFFICES ASSUME NEW u \in Inc!Tasks, Begun(u)', NEW p \in Inc!Parents(u)
               PROVE  Inc!Ended(p)'
    OBVIOUS
  <2>1. Inc!Ended(p)
    BY <1>1, <1>4 DEF Order, Begun
  <2> QED BY <2>1, <1>2, <1>3
<1>6. (\E u \in Inc!Tasks : buildPc'[u] = "failed") => \A u \in Inc!Tasks : buildPc'[u] # "waiting"
  BY <1>1 DEF Order
<1>7. Begun("merge_dex")' => Inc!Ended("aapt")' /\ \A m \in Modules : Inc!Ended(m)'
  <2>1. CASE t = "merge_dex" /\ Inc!Ready(t)
    BY <2>1, <1>2, MergeComesLast, TasksAre DEF Inc!MainLine
  <2>2. CASE ~(t = "merge_dex" /\ Inc!Ready(t))
    <3>1. "merge_dex" \in Inc!Tasks /\ "aapt" \in Inc!Tasks /\ Modules \subseteq Inc!Tasks
      BY TasksAre DEF Inc!MainLine
    <3>2. Begun("merge_dex")' => Begun("merge_dex")
      BY <1>1, <2>2, <3>1 DEF Begun, Inc!Ended
    <3> QED BY <1>2, <3>1, <3>2 DEF Order
  <2> QED BY <2>1, <2>2
<1> QED BY <1>5, <1>6, <1>7 DEF Order


\* The actions that are a step of one task.
Moves == 
  \/ Inc!SkipAapt \/ Inc!Aapt
  \/ \E m \in Modules : Inc!SkipJavac(m) \/ Inc!NothingNewGenerated(m) \/ Inc!Javac(m) \/ Inc!Dx(m)
  \/ Inc!MergeDex \/ Inc!Connect \/ Inc!PushRes \/ Inc!PushDex \/ Inc!PushNative \/ Inc!SyncState
  \/ Inc!CleanCache \/ Inc!UpdateStat \/ Inc!WriteStat

LEMMA OneTask ==
  ASSUME Inc!TypeOK, PcType, Moves
  PROVE  \E t \in Inc!Tasks : \E step \in {"dx", "done", "raised", "dex", "native", "state", "write"} :
            /\ Inc!GoesTo(t, step) /\ phase = "tasks" /\ phase' = phase
            /\ Inc!Ready(t) \/ (buildPc[t] # "waiting" /\ ~Inc!Ended(t))
<1> USE TasksAre DEF Inc!MainLine, Inc!Returns, Inc!Raises, Inc!Compile
<1>1. CASE Inc!SkipAapt
  BY <1>1 DEF Inc!SkipAapt, Inc!Ready
<1>2. CASE Inc!Aapt
  <2>1. Inc!Ready("aapt") /\ UNCHANGED phase /\ (Inc!GoesTo("aapt", "raised") \/ Inc!GoesTo("aapt", "done"))
    BY <1>2 DEF Inc!Aapt
  <2> QED BY <2>1 DEF Inc!Ready
<1>3. ASSUME NEW m \in Modules, Inc!SkipJavac(m) \/ Inc!NothingNewGenerated(m) \/ Inc!Javac(m)
      PROVE  \E step \in {"dx", "done", "raised"} :
               Inc!GoesTo(m, step) /\ phase = "tasks" /\ phase' = phase /\ Inc!Ready(m)
  BY <1>3 DEF Inc!SkipJavac, Inc!NothingNewGenerated, Inc!Javac, Inc!Ready
<1>4. ASSUME NEW m \in Modules, Inc!Dx(m)
      PROVE  \E step \in {"done", "raised"} :
               Inc!GoesTo(m, step) /\ phase = "tasks" /\ phase' = phase /\ buildPc[m] = "dx"
  BY <1>4 DEF Inc!Dx, Inc!At
<1>5. CASE Inc!MergeDex
  <2>1. Inc!Ready("merge_dex") /\ UNCHANGED phase
        /\ (Inc!GoesTo("merge_dex", "raised") \/ Inc!GoesTo("merge_dex", "done"))
    BY <1>5 DEF Inc!MergeDex
  <2> QED BY <2>1 DEF Inc!Ready
<1>6. CASE Inc!Connect
  BY <1>6 DEF Inc!Connect, Inc!Ready
<1>7. CASE Inc!PushRes
  BY <1>7 DEF Inc!PushRes, Inc!Ready
<1>8. CASE Inc!PushDex
  BY <1>8 DEF Inc!PushDex, Inc!At, Inc!Ended
<1>9. CASE Inc!PushNative
  BY <1>9 DEF Inc!PushNative, Inc!At, Inc!Ended
<1>10. CASE Inc!SyncState
  BY <1>10 DEF Inc!SyncState, Inc!At, Inc!Ended
<1>11. CASE Inc!CleanCache
  BY <1>11 DEF Inc!CleanCache, Inc!Ready
<1>12. CASE Inc!UpdateStat
  BY <1>12 DEF Inc!UpdateStat, Inc!Ready
<1>13. CASE \E m \in Modules : Inc!SkipJavac(m) \/ Inc!NothingNewGenerated(m) \/ Inc!Javac(m) \/ Inc!Dx(m)
  BY <1>13, <1>3, <1>4 DEF Inc!Ended
<1>14. CASE Inc!WriteStat
  BY <1>14 DEF Inc!WriteStat, Inc!At, Inc!Ended
<1> QED
  BY <1>1, <1>2, <1>5, <1>6, <1>7, <1>8, <1>9, <1>10, <1>11, <1>12, <1>13, <1>14 DEF Moves

LEMMA OrderStep == Inc!TypeOK /\ PcType /\ Order /\ [Inc!Next]_incVars => Order'
<1> SUFFICES ASSUME Inc!TypeOK, PcType, Order, [Inc!Next]_incVars PROVE Order'
  OBVIOUS
<1>1. ASSUME NEW i \in Edited, Inc!Edit(i) PROVE Order'
  BY <1>1 DEF Inc!Edit, Order, Begun, Inc!Ended
<1>2. CASE Inc!StartBuild
  BY <1>2, TasksAre DEF Inc!StartBuild, Order, Begun, Inc!Ended, Inc!MainLine
<1>a. CASE Inc!BuildWithoutStat
  BY <1>a, TasksAre DEF Inc!BuildWithoutStat, Order, Begun, Inc!MainLine
<1>3. CASE Inc!BuildEnds
  <2>1. CASE \A t \in Inc!Tasks : buildPc[t] = "done"
    BY <2>1, <1>3 DEF Inc!BuildEnds, Order, Begun, Inc!Ended
  <2>2. CASE ~\A t \in Inc!Tasks : buildPc[t] = "done"
    BY <2>2, <1>3, TasksAre DEF Inc!BuildEnds, Order, Begun, Inc!MainLine
  <2> QED BY <2>1, <2>2
<1>4. ASSUME NEW t \in Inc!Tasks, Inc!PassException(t) PROVE Order'
  <2>1. \A u \in Inc!Tasks : /\ Begun(u)' => Begun(u)
                             /\ Inc!Ended(u) => Inc!Ended(u)'
                             /\ buildPc'[u] # "waiting"
    BY <1>4 DEF Inc!PassException, Begun, Inc!Ended
  <2>2. phase' = "tasks"
    BY <1>4 DEF Inc!PassException, Inc!At
  <2>3. "merge_dex" \in Inc!Tasks /\ "aapt" \in Inc!Tasks /\ Modules \subseteq Inc!Tasks
    BY TasksAre DEF Inc!MainLine
  <2>4. \A u \in Inc!Tasks : Inc!Parents(u) \subseteq Inc!Tasks
    BY ParentsAre
  <2>5. \A u \in Inc!Tasks : Begun(u)' => \A p \in Inc!Parents(u) : Inc!Ended(p)'
    BY <2>1, <2>4 DEF Order, Begun, Inc!Ended
  <2>6. Begun("merge_dex")' => Inc!Ended("aapt")' /\ \A m \in Modules : Inc!Ended(m)'
    BY <2>1, <2>3 DEF Order, Begun
  <2> QED BY <2>1, <2>2, <2>5, <2>6 DEF Order, Begun
<1>5. CASE Moves
  BY <1>5, OneTask, OneTaskMoves
<1>6. CASE UNCHANGED incVars
  BY <1>6 DEF incVars, Order, Begun, Inc!Ended
<1> QED BY <1>1, <1>2, <1>a, <1>3, <1>4, <1>5, <1>6 DEF Inc!Next, Moves

-----------------------------------------------------------------------------
\* While no task has failed, what is not waiting has its parents done.
LEMMA Sequence ==
  ASSUME PcType, Order, InBuild
  PROVE  /\ buildPc["merge_dex"] # "waiting" => buildPc["aapt"] = "done" /\ \A m \in Modules : buildPc[m] = "done"
         /\ buildPc["sync"] # "waiting" => buildPc["merge_dex"] = "done" /\ buildPc["connect"] = "done"
         /\ buildPc["clean_cache"] # "waiting" => buildPc["sync"] = "done"
         /\ buildPc["update_stat"] # "waiting" => buildPc["clean_cache"] = "done"
<1>1. {"aapt", "merge_dex", "connect", "sync", "clean_cache", "update_stat"} \subseteq Inc!Tasks /\ Modules \subseteq Inc!Tasks
  BY TasksAre DEF Inc!MainLine
<1>2. \A t \in Inc!Tasks : /\ Inc!Ended(t) => buildPc[t] = "done"
                           /\ buildPc[t] # "waiting" => \A p \in Inc!Parents(t) : Inc!Ended(p)
  BY DEF InBuild, AllWell, Order, Begun, Inc!Ended
<1>3. Begun("merge_dex") <=> buildPc["merge_dex"] # "waiting"
  BY <1>1 DEF InBuild, AllWell, Begun
<1>4. buildPc["merge_dex"] # "waiting" => Inc!Ended("aapt") /\ \A m \in Modules : Inc!Ended(m)
  BY <1>3 DEF Order
<1> QED BY <1>1, <1>2, <1>4, ParentsAre

\* A task that moves on leaves the others where they are, and none has failed before
\* that has not failed after it.
LEMMA OnlyOneMoves ==
  ASSUME Inc!TypeOK, PcType, NEW t \in Inc!Tasks, NEW step, Inc!GoesTo(t, step),
         phase = "tasks", phase' = phase,
         Inc!Ready(t) \/ (buildPc[t] # "waiting" /\ ~Inc!Ended(t))
  PROVE  /\ buildPc'[t] = step
         /\ \A u \in Inc!Tasks : u # t => buildPc'[u] = buildPc[u]
         /\ AllWell' => AllWell /\ InBuild /\ step \notin {"raised", "failed"}
<1>1. buildPc'[t] = step /\ \A u \in Inc!Tasks : u # t => buildPc'[u] = buildPc[u]
  BY DEF Inc!GoesTo, Inc!TypeOK
<1> QED BY <1>1 DEF AllWell, InBuild, Inc!Ended, Inc!Ready

LEMMA StaysWell ==
  ASSUME Inc!TypeOK, PcType, Moves, AllWell'
  PROVE  InBuild
BY OneTask, OnlyOneMoves

\* The exceptions only become more.
LEMMA ExemptGrows ==
  ASSUME Inc!TypeOK, [Inc!Next]_incVars
  PROVE  Exempt \subseteq Exempt' /\ (history.dropped # {} => history.dropped' # {})
<1> DEFINE Grows == /\ history.during \subseteq history'.during /\ history.dropped \subseteq history'.dropped
                    /\ history.unused \subseteq history'.unused
<1> USE DEF Exempt, Inc!TypeOK
<1>1. ASSUME NEW i \in Edited, Inc!Edit(i) PROVE Grows
  BY <1>1 DEF Inc!Edit
<1>2. ASSUME NEW m \in Modules, Inc!NothingNewGenerated(m)
      PROVE  Grows
  BY <1>2 DEF Inc!NothingNewGenerated
<1>3. ASSUME Inc!PushNative PROVE Grows
  BY <1>3 DEF Inc!PushNative
<1>4. ASSUME Inc!UpdateStat PROVE Grows
  BY <1>4 DEF Inc!UpdateStat
<1>5. CASE \/ Inc!StartBuild \/ Inc!BuildWithoutStat \/ Inc!BuildEnds \/ Inc!WriteStat
           \/ \E t \in Inc!Tasks : Inc!PassException(t)
           \/ Inc!SkipAapt \/ Inc!Aapt \/ Inc!MergeDex \/ Inc!Connect \/ Inc!PushRes \/ Inc!PushDex
           \/ Inc!SyncState \/ Inc!CleanCache \/ UNCHANGED incVars
           \/ \E m \in Modules : Inc!SkipJavac(m) \/ Inc!Javac(m) \/ Inc!Dx(m)
  <2>1. UNCHANGED history
    BY <1>5 DEF Inc!StartBuild, Inc!BuildWithoutStat, Inc!BuildEnds, Inc!WriteStat, Inc!PassException, Inc!SkipAapt, Inc!Aapt, Inc!MergeDex,
         Inc!Connect, Inc!PushRes, Inc!PushDex, Inc!SyncState, Inc!CleanCache, incVars, Inc!SkipJavac,
         Inc!Javac, Inc!Dx
  <2> QED BY <2>1
<1>6. Grows => Exempt \subseteq Exempt' /\ (history.dropped # {} => history.dropped' # {})
  OBVIOUS
<1> HIDE DEF Grows
<1> QED BY <1>1, <1>2, <1>3, <1>4, <1>5, <1>6 DEF Inc!Next

-----------------------------------------------------------------------------
\* A version is a number, and not None.
LEMMA VersionsAreNumbers ==
  ASSUME Inc!TypeOK
  PROVE  \A i \in Inc!Items : version[i] \in Nat /\ version[i] # None
<1>1. None \notin Nat /\ MaxEdits \in Nat
  BY PatchAssumption DEF Inc!IncrementalBuildAssumption
<1>2. \A i \in Inc!Items : version[i] \in 0..MaxEdits
  BY DEF Inc!TypeOK, Inc!Versions
<1> QED BY <1>1, <1>2

\* What is on its way stays so where nothing of it changes.
LEMMA EverywhereStays ==
  ASSUME NEW i \in Inc!Items, Everywhere(i), UNCHANGED <<version, pushed, running, pack, patch, dex, merged>>
  PROVE  Everywhere(i)'
BY DEF Everywhere

\* The step of each action for one item, as it is on its way through the caches.
LEMMA MoveKeepsEverywhere ==
  ASSUME Inc!TypeOK, Moves, NEW i \in Inc!Items, Everywhere(i)
  PROVE  Everywhere(i)'
<1> USE ItemsAre DEF Everywhere, Num
<1>1. CASE \/ Inc!SkipAapt \/ Inc!Connect \/ Inc!UpdateStat \/ Inc!WriteStat
           \/ \E m \in Modules : Inc!SkipJavac(m) \/ Inc!NothingNewGenerated(m)
  <2>1. UNCHANGED <<version, pushed, running, pack, patch, dex, merged>>
    BY <1>1 DEF Inc!SkipAapt, Inc!Connect, Inc!UpdateStat, Inc!WriteStat, Inc!SkipJavac, Inc!NothingNewGenerated,
         Inc!device, Inc!cache
  <2> QED BY <2>1, EverywhereStays
<1>2. CASE Inc!Aapt
  <2>1. UNCHANGED <<version, pushed, running, patch, dex, merged>>
    BY <1>2 DEF Inc!Aapt, Inc!device
  <2>2. pack' = pack \/ pack' = [r \in Inc!Res |-> version[r]]
    BY <1>2 DEF Inc!Aapt
  <2>3. i \in Inc!Res => pack'[i] = version[i]
    BY <2>2
  <2> QED BY <2>1, <2>3
<1>3. ASSUME NEW m \in Modules, Inc!Javac(m) PROVE Everywhere(i)'
  <2>1. UNCHANGED <<version, pushed, running, pack, dex, merged>>
    BY <1>3 DEF Inc!Javac, Inc!device
  <2>2. patch' = patch \/ patch' = [patch EXCEPT ![m] = version[Inc!Src(m)]]
    BY <1>3 DEF Inc!Javac
  <2>3. version[Inc!Src(m)] # None /\ patch \in [Modules -> 0..MaxEdits \cup {None}]
    BY VersionsAreNumbers DEF Inc!TypeOK, Inc!PerModule
  <2>4. ASSUME NEW n \in Modules, i = Inc!Src(n) PROVE Num(patch'[n]) = version[i]
    BY <2>2, <2>3, <2>4
  <2> QED BY <2>1, <2>4
<1>4. ASSUME NEW m \in Modules, Inc!Dx(m) PROVE Everywhere(i)'
  <2>1. UNCHANGED <<version, pushed, running, pack, patch, merged>>
    BY <1>4 DEF Inc!Dx, Inc!device
  <2>2. dex' = dex \/ dex' = [dex EXCEPT ![m] = patch[m]]
    BY <1>4 DEF Inc!Dx
  <2>3. dex \in [Modules -> 0..MaxEdits \cup {None}]
    BY DEF Inc!TypeOK, Inc!PerModule
  <2>4. ASSUME NEW n \in Modules, i = Inc!Src(n) PROVE Num(dex'[n]) = version[i]
    BY <2>2, <2>3, <2>4
  <2> QED BY <2>1, <2>4
<1>5. CASE Inc!MergeDex
  <2>1. UNCHANGED <<version, pushed, running, pack, patch, dex>> /\ (merged' = dex \/ merged' = merged)
    BY <1>5 DEF Inc!MergeDex, Inc!device
  <2> QED BY <2>1
<1>6. CASE Inc!PushRes
  <2>1. UNCHANGED <<version, running, pack, patch, dex, merged>>
    BY <1>6 DEF Inc!PushRes
  <2>2. pushed' = pushed \/ pushed' = [j \in Inc!Items |-> IF j \in Inc!Res THEN pack[j] ELSE pushed[j]]
    BY <1>6 DEF Inc!PushRes
  <2>3. pushed'[i] = version[i]
    BY <2>2
  <2> QED BY <2>1, <2>3
<1>7. CASE Inc!PushDex
  <2>1. UNCHANGED <<version, running, pack, patch, dex, merged>>
    BY <1>7 DEF Inc!PushDex, Inc!cache
  <2>2. \/ pushed' = pushed
        \/ merged # None /\ pushed' = [j \in Inc!Items |-> IF j[1] # "src" THEN pushed[j]
                                       ELSE IF merged[j[2]] = None THEN 0 ELSE merged[j[2]]]
    BY <1>7 DEF Inc!PushDex
  <2>3. pushed'[i] = version[i]
    BY <2>2
  <2> QED BY <2>1, <2>3
<1>8. CASE Inc!PushNative
  <2>1. UNCHANGED <<version, running, pack, patch, dex, merged>>
    BY <1>8 DEF Inc!PushNative, Inc!cache
  <2>2. pushed' = pushed \/ pushed' = [pushed EXCEPT ![Inc!So] = version[Inc!So]]
    BY <1>8 DEF Inc!PushNative
  <2>3. pushed'[i] = version[i]
    BY <2>2 DEF Inc!TypeOK, Inc!Versions
  <2> QED BY <2>1, <2>3
<1>9. CASE Inc!SyncState
  BY <1>9 DEF Inc!SyncState, Inc!cache
<1>10. CASE Inc!CleanCache
  BY <1>10 DEF Inc!CleanCache, Inc!device
<1> QED BY <1>1, <1>2, <1>3, <1>4, <1>5, <1>6, <1>7, <1>8, <1>9, <1>10 DEF Moves

-----------------------------------------------------------------------------
\* No task edits a file or scans.
LEMMA MoveRests ==
  ASSUME Moves
  PROVE  UNCHANGED <<version, changed, restart, phase>> /\ phase = "tasks"
<1>1. CASE \/ Inc!SkipAapt \/ Inc!Aapt \/ Inc!MergeDex \/ Inc!Connect \/ Inc!PushRes \/ Inc!PushDex
           \/ Inc!PushNative \/ Inc!SyncState \/ Inc!CleanCache \/ Inc!UpdateStat \/ Inc!WriteStat
  BY <1>1 DEF Inc!SkipAapt, Inc!Aapt, Inc!MergeDex, Inc!Connect, Inc!PushRes, Inc!PushDex,
       Inc!PushNative, Inc!SyncState, Inc!CleanCache, Inc!UpdateStat, Inc!WriteStat, Inc!inputs, Inc!Ready, Inc!At
<1>2. CASE \E m \in Modules : Inc!SkipJavac(m) \/ Inc!NothingNewGenerated(m) \/ Inc!Javac(m) \/ Inc!Dx(m)
  BY <1>2 DEF Inc!SkipJavac, Inc!NothingNewGenerated, Inc!Javac, Inc!Dx, Inc!inputs, Inc!Ready, Inc!At
<1> QED BY <1>1, <1>2 DEF Moves

LEMMA MovesAreSteps == Moves => Inc!Next
BY DEF Moves, Inc!Next

\* Where the tasks are after the step of one of them, while none has failed.
LEMMA Goes ==
  ASSUME Inc!TypeOK, NEW t \in Inc!Tasks, NEW step, Inc!GoesTo(t, step)
  PROVE  /\ buildPc'[t] = step /\ \A u \in Inc!Tasks : u # t => buildPc'[u] = buildPc[u]
         /\ InBuild' => step # "raised"
BY DEF Inc!GoesTo, Inc!TypeOK, InBuild, AllWell

LEMMA MainLineIsOfTasks ==
  /\ "aapt" \in Inc!Tasks /\ "merge_dex" \in Inc!Tasks /\ "connect" \in Inc!Tasks /\ "sync" \in Inc!Tasks
  /\ "clean_cache" \in Inc!Tasks /\ "update_stat" \in Inc!Tasks
  /\ \A m \in Modules : /\ m \in Inc!Tasks /\ m # "aapt" /\ m # "merge_dex" /\ m # "connect" /\ m # "sync"
                        /\ m # "clean_cache" /\ m # "update_stat"
BY TasksAre DEF Inc!MainLine

LEMMA ResMoves ==
  ASSUME Inc!TypeOK, PcType, Order, ResComes, Moves
  PROVE  ResComes'
<1> SUFFICES ASSUME InBuild', NEW i \in (changed' \cap Inc!Res) \ Exempt'
             PROVE  ResOnTheWay(i)'
  BY DEF ResComes
<1>1. InBuild
  BY StaysWell DEF InBuild
<1>2. i \in changed /\ i \in Inc!Res /\ version' = version /\ i \in Inc!Items /\ i \notin Exempt
  BY MoveRests, MovesAreSteps, ExemptGrows, ItemsAre
<1>3. ResOnTheWay(i)
  BY <1>1, <1>2 DEF ResComes
<1>4. /\ buildPc["sync"] # "waiting" => buildPc["merge_dex"] = "done"
      /\ buildPc["merge_dex"] # "waiting" => buildPc["aapt"] = "done"
      /\ buildPc["clean_cache"] # "waiting" => buildPc["sync"] = "done"
  BY <1>1, Sequence
<1> USE <1>3, <1>4 DEF ResOnTheWay, Cleared, SyncPast
<1>5. CASE Inc!SkipAapt
  BY <1>5, <1>2 DEF Inc!SkipAapt, Inc!ResChanged
<1>6. CASE Inc!Aapt
  <2>1. Inc!GoesTo("aapt", "done") /\ "sync" \in flags' /\ pack' = [r \in Inc!Res |-> version[r]]
    BY <1>6, MainLineIsOfTasks, Goes DEF Inc!Aapt, Inc!Returns, Inc!Raises
  <2>2. buildPc["aapt"] = "waiting" /\ UNCHANGED <<pushed, running>>
    BY <1>6 DEF Inc!Aapt, Inc!Ready, Inc!device
  <2> QED BY <1>2, <2>1, <2>2, MainLineIsOfTasks, Goes
<1>7. ASSUME NEW m \in Modules, Inc!SkipJavac(m) \/ Inc!NothingNewGenerated(m) \/ Inc!Javac(m) \/ Inc!Dx(m)
      PROVE  ResOnTheWay(i)'
  <2>1. \E step \in {"dx", "done", "raised"} : Inc!GoesTo(m, step)
    BY <1>7 DEF Inc!SkipJavac, Inc!NothingNewGenerated, Inc!Javac, Inc!Dx, Inc!Returns, Inc!Raises, Inc!Compile
  <2>2. UNCHANGED <<pushed, running, pack>> /\ ("sync" \in flags => "sync" \in flags')
    BY <1>7 DEF Inc!SkipJavac, Inc!NothingNewGenerated, Inc!Javac, Inc!Dx, Inc!device
  <2> QED BY <1>2, <2>1, <2>2, MainLineIsOfTasks, Goes
<1>8. CASE Inc!MergeDex \/ Inc!Connect \/ Inc!UpdateStat \/ Inc!WriteStat
  <2>1. \E t \in {"merge_dex", "connect", "update_stat"}, step \in {"done", "raised", "write"} : Inc!GoesTo(t, step)
    BY <1>8 DEF Inc!MergeDex, Inc!Connect, Inc!UpdateStat, Inc!WriteStat, Inc!Returns, Inc!Raises
  <2>2. UNCHANGED <<pushed, running, pack, flags>>
    BY <1>8 DEF Inc!MergeDex, Inc!Connect, Inc!UpdateStat, Inc!WriteStat, Inc!device, Inc!cache
  <2> QED BY <1>2, <2>1, <2>2, MainLineIsOfTasks, Goes
<1>9. CASE Inc!PushRes
  <2>1. buildPc["sync"] = "waiting" /\ buildPc["merge_dex"] = "done"
    BY <1>9, ParentsAre, <1>1, MainLineIsOfTasks DEF Inc!PushRes, Inc!Ready, InBuild, AllWell, Inc!Ended
  <2>2. "sync" \in flags /\ pack[i] = version[i]
    BY <2>1
  <2>3. Inc!GoesTo("sync", "dex") /\ flags' = flags \ {"job"} /\ UNCHANGED <<running, pack>>
        /\ pushed' = [j \in Inc!Items |-> IF j \in Inc!Res THEN pack[j] ELSE pushed[j]]
    BY <1>9, <2>2, MainLineIsOfTasks, Goes DEF Inc!PushRes, Inc!Raises
  <2> QED BY <1>2, <2>1, <2>2, <2>3, MainLineIsOfTasks, Goes
<1>10. CASE Inc!PushDex \/ Inc!PushNative
  <2>1. \E step \in {"raised", "native", "state"} : Inc!GoesTo("sync", step)
    BY <1>10 DEF Inc!PushDex, Inc!PushNative, Inc!Raises
  <2>2. buildPc["sync"] \in {"dex", "native"} /\ UNCHANGED <<running, pack, flags>>
    BY <1>10 DEF Inc!PushDex, Inc!PushNative, Inc!cache, Inc!At
  <2>3. pushed'[i] = pushed[i]
    <3>1. i[1] # "src" /\ i # Inc!So
      BY <1>2, ItemsAre
    <3>2. CASE Inc!PushDex
      BY <3>1, <3>2, <1>2 DEF Inc!PushDex
    <3>3. CASE Inc!PushNative
      BY <3>1, <3>3, <1>2 DEF Inc!PushNative, Inc!TypeOK, Inc!Versions
    <3> QED BY <1>10, <3>2, <3>3
  <2> QED BY <1>2, <2>1, <2>2, <2>3, MainLineIsOfTasks, Goes
<1>11. CASE Inc!SyncState
  <2>1. buildPc["sync"] = "state" /\ UNCHANGED <<pushed, pack, flags>>
    BY <1>11 DEF Inc!SyncState, Inc!At, Inc!cache
  <2>2. Inc!NeedsSync
    BY <2>1 DEF Inc!NeedsSync
  <2>3. Inc!GoesTo("sync", "done") /\ running' = pushed
    BY <1>11, <2>2, MainLineIsOfTasks, Goes DEF Inc!SyncState, Inc!Returns, Inc!Raises
  <2> QED BY <1>2, <2>1, <2>3, MainLineIsOfTasks, Goes
<1>12. CASE Inc!CleanCache
  <2>1. Inc!GoesTo("clean_cache", "done") /\ UNCHANGED <<pushed, running, pack>>
    BY <1>12 DEF Inc!CleanCache, Inc!Returns, Inc!device
  <2> QED BY <1>2, <2>1, MainLineIsOfTasks, Goes
<1> QED BY <1>5, <1>6, <1>7, <1>8, <1>9, <1>10, <1>11, <1>12 DEF Moves

LEMMA SrcMoves ==
  ASSUME Inc!TypeOK, PcType, Order, SrcComes, Moves
  PROVE  SrcComes'
<1> SUFFICES ASSUME InBuild', NEW m \in Modules, Inc!Src(m) \in (changed \ Exempt)'
             PROVE  SrcOnTheWay(m)'
  BY DEF SrcComes
<1>1. InBuild
  BY StaysWell DEF InBuild
<1>2. Inc!Src(m) \in changed /\ version' = version /\ Inc!Src(m) \in Inc!Items /\ Inc!Src(m) \notin Exempt
      /\ Inc!Src(m) \notin Exempt'
  BY MoveRests, MovesAreSteps, ExemptGrows, ItemsAre
<1> DEFINE v == version[Inc!Src(m)]
<1>3. SrcOnTheWay(m) /\ v' = v /\ v \in Nat /\ v # None
  BY <1>1, <1>2, VersionsAreNumbers DEF SrcComes
<1>4. /\ buildPc["sync"] # "waiting" => buildPc["merge_dex"] = "done"
      /\ buildPc["merge_dex"] # "waiting" => buildPc["aapt"] = "done" /\ \A n \in Modules : buildPc[n] = "done"
      /\ buildPc["clean_cache"] # "waiting" => buildPc["sync"] = "done"
  BY <1>1, Sequence
<1> HIDE DEF v
<1>v. v = version[Inc!Src(m)]
  BY DEF v
<1> USE <1>3, <1>4, <1>v DEF SrcOnTheWay, Cleared, SyncPast
<1>5. CASE Inc!SkipAapt \/ Inc!Aapt
  <2>1. \E step \in {"raised", "done"} : Inc!GoesTo("aapt", step)
    BY <1>5 DEF Inc!SkipAapt, Inc!Aapt, Inc!Returns, Inc!Raises
  <2>2. UNCHANGED <<pushed, running, patch, dex, merged>> /\ ("src" \in flags => "src" \in flags')
    BY <1>5 DEF Inc!SkipAapt, Inc!Aapt, Inc!device
  <2> QED BY <1>2, <2>1, <2>2, MainLineIsOfTasks, Goes
<1>6. ASSUME NEW n \in Modules, Inc!SkipJavac(n) PROVE SrcOnTheWay(m)'
  <2>1. n # m
    BY <1>6, <1>2 DEF Inc!SkipJavac, Inc!NeedsJavac
  <2>2. Inc!GoesTo(n, "done") /\ UNCHANGED <<pushed, running, patch, dex, merged>>
        /\ ("src" \in flags => "src" \in flags')
    BY <1>6 DEF Inc!SkipJavac, Inc!device, Inc!Returns, Inc!Compile
  <2> QED BY <1>2, <2>1, <2>2, MainLineIsOfTasks, Goes
<1>7. ASSUME NEW n \in Modules, Inc!NothingNewGenerated(n) PROVE FALSE
  <2>1. history' = [history EXCEPT !.dropped = @ \cup {Inc!Src(n)} \cup {i \in changed : i[1] = "src"}]
    BY <1>7, MainLineIsOfTasks, Goes DEF Inc!NothingNewGenerated, Inc!Raises, Inc!Compile
  <2>2. Inc!Src(m)[1] = "src"
    BY ItemsAre
  <2>3. Inc!Src(m) \in history'.dropped
    BY <2>1, <2>2, <1>2 DEF Inc!TypeOK
  <2> QED BY <2>3, <1>2 DEF Exempt
<1>8. ASSUME NEW n \in Modules, Inc!Javac(n) PROVE SrcOnTheWay(m)'
  <2>1. Inc!GoesTo(n, "dx") /\ patch' = [patch EXCEPT ![n] = version[Inc!Src(n)]] /\ buildPc[n] = "waiting"
    BY <1>8, MainLineIsOfTasks, Goes DEF Inc!Javac, Inc!Raises, Inc!Compile, Inc!Ready
  <2>2. UNCHANGED <<pushed, running, dex, merged>> /\ ("src" \in flags => "src" \in flags')
    BY <1>8 DEF Inc!Javac, Inc!device
  <2>3. patch'[m] = IF m = n THEN v ELSE patch[m]
    BY <2>1 DEF Inc!TypeOK, Inc!PerModule
  <2> QED BY <1>2, <2>1, <2>2, <2>3, MainLineIsOfTasks, Goes
<1>9. ASSUME NEW n \in Modules, Inc!Dx(n) PROVE SrcOnTheWay(m)'
  <2>1. Inc!GoesTo(n, "done") /\ dex' = [dex EXCEPT ![n] = patch[n]] /\ buildPc[n] = "dx"
    BY <1>9, MainLineIsOfTasks, Goes DEF Inc!Dx, Inc!Raises, Inc!Returns, Inc!Compile, Inc!At
  <2>2. UNCHANGED <<pushed, running, patch, merged>> /\ ("src" \in flags => "src" \in flags')
    BY <1>9 DEF Inc!Dx, Inc!device
  <2>3. dex'[m] = IF m = n THEN patch[m] ELSE dex[m]
    BY <2>1 DEF Inc!TypeOK, Inc!PerModule
  <2> QED BY <1>2, <2>1, <2>2, <2>3, MainLineIsOfTasks, Goes
<1>10. CASE Inc!MergeDex
  <2>1. buildPc["merge_dex"] = "waiting" /\ \A n \in Modules : buildPc[n] = "done"
    <3>1. \A n \in Modules : Inc!Ended(n)
      BY <1>10, MergeComesLast DEF Inc!MergeDex
    <3> QED BY <1>10, <1>1, <3>1, MainLineIsOfTasks DEF Inc!MergeDex, Inc!Ready, Inc!Ended, InBuild, AllWell
  <2>2. "src" \in flags /\ dex[m] = v
    BY <2>1
  <2>3. Inc!GoesTo("merge_dex", "done") /\ merged' = dex
    BY <1>10, <2>2, MainLineIsOfTasks, Goes DEF Inc!MergeDex, Inc!Raises, Inc!Returns
  <2>4. dex # None
    BY PatchAssumption DEF Inc!IncrementalBuildAssumption, Inc!TypeOK, Inc!PerModule
  <2>5. UNCHANGED <<pushed, running, patch, dex, flags>>
    BY <1>10 DEF Inc!MergeDex, Inc!device
  <2> QED BY <1>2, <2>1, <2>2, <2>3, <2>4, <2>5, MainLineIsOfTasks, Goes
<1>11. CASE Inc!Connect \/ Inc!UpdateStat \/ Inc!WriteStat
  <2>1. \E t \in {"connect", "update_stat"}, step \in {"done", "raised", "write"} : Inc!GoesTo(t, step)
    BY <1>11 DEF Inc!Connect, Inc!UpdateStat, Inc!WriteStat, Inc!Returns, Inc!Raises
  <2>2. UNCHANGED <<pushed, running, patch, dex, merged, flags>>
    BY <1>11 DEF Inc!Connect, Inc!UpdateStat, Inc!WriteStat, Inc!device, Inc!cache
  <2> QED BY <1>2, <2>1, <2>2, MainLineIsOfTasks, Goes
<1>12. CASE Inc!PushRes \/ Inc!PushNative
  <2>1. buildPc["sync"] \in {"waiting", "native"} /\ UNCHANGED <<running, patch, dex, merged>>
        /\ ("src" \in flags => "src" \in flags')
    BY <1>12 DEF Inc!PushRes, Inc!PushNative, Inc!cache, Inc!At, Inc!Ready
  <2>2. \/ buildPc["sync"] = "waiting" /\ \E step \in {"raised", "dex"} : Inc!GoesTo("sync", step)
        \/ buildPc["sync"] = "native" /\ Inc!GoesTo("sync", "state")
    BY <1>12 DEF Inc!PushRes, Inc!PushNative, Inc!Raises, Inc!Ready, Inc!At
  <2>3. pushed'[Inc!Src(m)] = pushed[Inc!Src(m)]
    <3>1. Inc!Src(m) \notin Inc!Res /\ Inc!Src(m) # Inc!So
      BY ItemsAre
    <3>2. CASE Inc!PushRes
      BY <3>1, <3>2, <1>2 DEF Inc!PushRes
    <3>3. CASE Inc!PushNative
      BY <3>1, <3>3, <1>2 DEF Inc!PushNative, Inc!TypeOK, Inc!Versions
    <3> QED BY <1>12, <3>2, <3>3
  <2> QED BY <1>2, <2>1, <2>2, <2>3, MainLineIsOfTasks, Goes
<1>13. CASE Inc!PushDex
  <2>1. buildPc["sync"] = "dex" /\ UNCHANGED <<running, patch, dex, merged, flags>>
    BY <1>13 DEF Inc!PushDex, Inc!At, Inc!cache
  <2>2. merged # None /\ merged[m] = v
    BY <2>1
  <2>3. Inc!GoesTo("sync", "native")
        /\ pushed' = [i \in Inc!Items |-> IF i[1] # "src" THEN pushed[i]
                                       ELSE IF merged[i[2]] = None THEN 0 ELSE merged[i[2]]]
    BY <1>13, <2>2, MainLineIsOfTasks, Goes DEF Inc!PushDex, Inc!Raises
  <2>4. pushed'[Inc!Src(m)] = v
    BY <1>2, <2>2, <2>3, ItemsAre
  <2> QED BY <1>2, <2>1, <2>3, <2>4, MainLineIsOfTasks, Goes
<1>14. CASE Inc!SyncState
  <2>1. buildPc["sync"] = "state" /\ UNCHANGED <<pushed, patch, dex, merged, flags>>
    BY <1>14 DEF Inc!SyncState, Inc!At, Inc!cache
  <2>2. Inc!NeedsSync
    BY <2>1 DEF Inc!NeedsSync
  <2>3. Inc!GoesTo("sync", "done") /\ running' = pushed
    BY <1>14, <2>2, MainLineIsOfTasks, Goes DEF Inc!SyncState, Inc!Returns, Inc!Raises
  <2> QED BY <1>2, <2>1, <2>3, MainLineIsOfTasks, Goes
<1>15. CASE Inc!CleanCache
  <2>1. Inc!GoesTo("clean_cache", "done") /\ UNCHANGED <<pushed, running, patch, dex>>
    BY <1>15 DEF Inc!CleanCache, Inc!Returns, Inc!device
  <2> QED BY <1>2, <2>1, MainLineIsOfTasks, Goes
<1> QED BY <1>5, <1>6, <1>7, <1>8, <1>9, <1>10, <1>11, <1>12, <1>13, <1>14, <1>15 DEF Moves

LEMMA SoMoves ==
  ASSUME Inc!TypeOK, PcType, Order, SoComes, Moves
  PROVE  SoComes'
<1> SUFFICES ASSUME InBuild', Inc!So \in (changed \ Exempt)'
             PROVE  SoOnTheWay'
  BY DEF SoComes
<1>1. InBuild
  BY StaysWell DEF InBuild
<1>2. Inc!So \in changed /\ version' = version /\ Inc!So \notin Exempt /\ Inc!So \notin Exempt'
      /\ Inc!So \in Inc!Items
  BY MoveRests, MovesAreSteps, ExemptGrows, ItemsAre
<1>3. SoOnTheWay
  BY <1>1, <1>2 DEF SoComes
<1>4. buildPc["clean_cache"] # "waiting" => buildPc["sync"] = "done"
  BY <1>1, Sequence
<1> USE <1>3, <1>4 DEF SoOnTheWay, Cleared, SyncPast
<1>5. CASE Inc!SkipAapt \/ Inc!Aapt \/ Inc!MergeDex \/ Inc!Connect \/ Inc!UpdateStat \/ Inc!WriteStat
  <2>1. \E t \in {"aapt", "merge_dex", "connect", "update_stat"}, step \in {"done", "raised", "write"} : Inc!GoesTo(t, step)
    BY <1>5 DEF Inc!SkipAapt, Inc!Aapt, Inc!MergeDex, Inc!Connect, Inc!UpdateStat, Inc!WriteStat, Inc!Returns, Inc!Raises
  <2>2. UNCHANGED <<pushed, running>> /\ ("native" \in flags => "native" \in flags')
    BY <1>5 DEF Inc!SkipAapt, Inc!Aapt, Inc!MergeDex, Inc!Connect, Inc!UpdateStat, Inc!WriteStat, Inc!device, Inc!cache
  <2> QED BY <1>2, <2>1, <2>2, MainLineIsOfTasks, Goes
<1>6. ASSUME NEW m \in Modules, Inc!SkipJavac(m) \/ Inc!NothingNewGenerated(m) \/ Inc!Javac(m) \/ Inc!Dx(m)
      PROVE  SoOnTheWay'
  <2>1. \E step \in {"dx", "done", "raised"} : Inc!GoesTo(m, step)
    BY <1>6 DEF Inc!SkipJavac, Inc!NothingNewGenerated, Inc!Javac, Inc!Dx, Inc!Returns, Inc!Raises, Inc!Compile
  <2>2. UNCHANGED <<pushed, running>> /\ ("native" \in flags => "native" \in flags')
    BY <1>6 DEF Inc!SkipJavac, Inc!NothingNewGenerated, Inc!Javac, Inc!Dx, Inc!device
  <2> QED BY <1>2, <2>1, <2>2, MainLineIsOfTasks, Goes
<1>7. CASE Inc!PushRes \/ Inc!PushDex
  <2>1. buildPc["sync"] \in {"waiting", "dex"} /\ UNCHANGED running /\ ("native" \in flags => "native" \in flags')
    BY <1>7 DEF Inc!PushRes, Inc!PushDex, Inc!cache, Inc!At, Inc!Ready
  <2>2. \E step \in {"raised", "dex", "native"} : Inc!GoesTo("sync", step)
    BY <1>7 DEF Inc!PushRes, Inc!PushDex, Inc!Raises
  <2> QED BY <1>2, <2>1, <2>2, MainLineIsOfTasks, Goes
<1>8. CASE Inc!PushNative
  <2>1. buildPc["sync"] = "native" /\ UNCHANGED <<running, flags>> /\ Inc!GoesTo("sync", "state")
    BY <1>8 DEF Inc!PushNative, Inc!cache, Inc!At
  <2>2. "native" \in flags
    BY <2>1
  <2>3. ~(history' = [history EXCEPT !.dropped = @ \cup {Inc!So}])
    BY <1>2 DEF Inc!TypeOK, Exempt
  <2>4. pushed' = [pushed EXCEPT ![Inc!So] = version[Inc!So]]
    BY <1>8, <2>2, <2>3 DEF Inc!PushNative
  <2>5. pushed'[Inc!So] = version[Inc!So]
    BY <2>4, <1>2 DEF Inc!TypeOK, Inc!Versions
  <2> QED BY <1>2, <2>1, <2>5, MainLineIsOfTasks, Goes
<1>9. CASE Inc!SyncState
  <2>1. buildPc["sync"] = "state" /\ UNCHANGED <<pushed, flags>>
    BY <1>9 DEF Inc!SyncState, Inc!At, Inc!cache
  <2>2. Inc!NeedsSync
    BY <2>1 DEF Inc!NeedsSync
  <2>3. Inc!GoesTo("sync", "done") /\ running' = pushed
    BY <1>9, <2>2, MainLineIsOfTasks, Goes DEF Inc!SyncState, Inc!Returns, Inc!Raises
  <2> QED BY <1>2, <2>1, <2>3, MainLineIsOfTasks, Goes
<1>10. CASE Inc!CleanCache
  <2>1. Inc!GoesTo("clean_cache", "done") /\ UNCHANGED <<pushed, running>>
    BY <1>10 DEF Inc!CleanCache, Inc!Returns, Inc!device
  <2> QED BY <1>2, <2>1, MainLineIsOfTasks, Goes
<1> QED BY <1>5, <1>6, <1>7, <1>8, <1>9, <1>10 DEF Moves

-----------------------------------------------------------------------------
\* When the stat is recorded every changed file is everywhere.
LEMMA RecordedMoves ==
  ASSUME Inc!TypeOK, PcType, Order, RecordedIsEverywhere, ResComes, SrcComes, SoComes, MarkersGo, Moves
  PROVE  RecordedIsEverywhere'
<1> SUFFICES ASSUME NEW i \in Inc!Items \ Exempt'
             PROVE  stat'[i] <= version'[i] /\ (stat'[i] = version'[i] => Everywhere(i)')
  BY DEF RecordedIsEverywhere
<1>1. i \in Inc!Items /\ i \notin Exempt /\ version' = version /\ version[i] \in Nat
  BY MoveRests, MovesAreSteps, ExemptGrows, VersionsAreNumbers
<1>2. stat[i] <= version[i] /\ (stat[i] = version[i] => Everywhere(i))
  BY <1>1 DEF RecordedIsEverywhere
<1>3. Everywhere(i) => Everywhere(i)'
  BY <1>1, MoveKeepsEverywhere
<1>4. CASE UNCHANGED stat
  BY <1>1, <1>2, <1>3, <1>4
<1>5. CASE Inc!UpdateStat /\ i \in changed
  <2>1. \A t \in Inc!Tasks : buildPc[t] \notin {"raised", "failed"}
    BY <1>1, <1>5 DEF Inc!UpdateStat, Exempt, Inc!TypeOK
  <2>2. InBuild /\ Inc!Ended("clean_cache")
    BY <1>5, <2>1, ParentsAre DEF Inc!UpdateStat, Inc!Ready, InBuild, AllWell
  <2>3. Cleared /\ buildPc["clean_cache"] # "waiting"
    BY <2>1, <2>2, MainLineIsOfTasks DEF Inc!Ended, Cleared
  <2>4. buildPc["sync"] = "done" /\ buildPc["aapt"] = "done" /\ \A m \in Modules : buildPc[m] = "done"
    BY <2>2, <2>3, Sequence
  <2>5. merged = None
    BY <2>2, <2>3 DEF MarkersGo, InBuild
  <2>6. ASSUME i \in Inc!Res PROVE Everywhere(i)
    <3>1. ResOnTheWay(i)
      BY <1>1, <1>5, <2>2, <2>6 DEF ResComes
    <3>2. \A m \in Modules : i # Inc!Src(m)
      BY <2>6, ItemsAre
    <3> QED BY <3>1, <3>2, <2>4 DEF ResOnTheWay, SyncPast, Everywhere
  <2>7. ASSUME NEW m \in Modules, i = Inc!Src(m) PROVE Everywhere(i)
    <3>1. SrcOnTheWay(m)
      BY <1>1, <1>5, <2>2, <2>7 DEF SrcComes
    <3>2. i \notin Inc!Res /\ \A n \in Modules : i = Inc!Src(n) => n = m
      BY <2>7, ItemsAre
    <3>3. patch[m] = version[i] /\ dex[m] = version[i] /\ pushed[i] = version[i] /\ running[i] = version[i]
      BY <3>1, <2>4, <2>7 DEF SrcOnTheWay, SyncPast
    <3>4. Num(version[i]) = version[i]
      BY <1>1, VersionsAreNumbers DEF Num
    <3> QED BY <3>2, <3>3, <3>4, <2>5 DEF Everywhere
  <2>8. ASSUME i = Inc!So PROVE Everywhere(i)
    <3>1. SoOnTheWay
      BY <1>1, <1>5, <2>2, <2>8 DEF SoComes
    <3>2. i \notin Inc!Res /\ \A m \in Modules : i # Inc!Src(m)
      BY <2>8, ItemsAre
    <3> QED BY <3>1, <3>2, <2>4, <2>8 DEF SoOnTheWay, SyncPast, Everywhere
  <2>a. i \notin Inc!Libs
    BY <1>1, <1>5 DEF Inc!UpdateStat, Exempt, Inc!TypeOK
  <2>9. Everywhere(i)
    BY <1>1, <2>6, <2>7, <2>8, <2>a, ItemsAre
  <2>10. stat'[i] = version[i]
    BY <1>1, <1>5 DEF Inc!UpdateStat
  <2> QED BY <1>1, <1>3, <2>9, <2>10
<1>6. CASE Inc!UpdateStat /\ i \notin changed
  <2>1. stat'[i] = stat[i]
    BY <1>1, <1>6 DEF Inc!UpdateStat, Inc!WriteStat
  <2> QED BY <1>1, <1>2, <1>3, <2>1
<1>7. Inc!UpdateStat \/ UNCHANGED stat
  BY DEF Moves, Inc!SkipAapt, Inc!Aapt, Inc!SkipJavac, Inc!NothingNewGenerated, Inc!Javac, Inc!Dx,
     Inc!MergeDex, Inc!Connect, Inc!PushRes, Inc!PushDex, Inc!PushNative, Inc!SyncState, Inc!CleanCache,
     Inc!WriteStat, Inc!record
<1> QED BY <1>4, <1>5, <1>6, <1>7

\* After the markers have gone nothing of a build is left but recording the stat.
LEMMA OnlyStatIsLeft ==
  ASSUME PcType, Order, InBuild, Cleared, Moves
  PROVE  Inc!UpdateStat \/ Inc!WriteStat
<1>1. /\ buildPc["sync"] = "done" /\ buildPc["merge_dex"] = "done" /\ buildPc["connect"] = "done"
      /\ buildPc["aapt"] = "done" /\ \A m \in Modules : buildPc[m] = "done"
      /\ buildPc["clean_cache"] = "done"
  BY Sequence DEF Cleared
<1> QED
  BY <1>1 DEF Moves, Inc!SkipAapt, Inc!Aapt, Inc!SkipJavac, Inc!NothingNewGenerated, Inc!Javac, Inc!Dx,
     Inc!MergeDex, Inc!Connect, Inc!PushRes, Inc!PushDex, Inc!PushNative, Inc!SyncState, Inc!CleanCache,
     Inc!Ready, Inc!At, Inc!Compile

LEMMA JobMoves ==
  ASSUME Inc!TypeOK, PcType, Order, JobIsSent, Moves
  PROVE  JobIsSent'
<1> SUFFICES ASSUME InBuild', ~Cleared'
             PROVE  /\ buildPc'["aapt"] = "done" /\ "job" \in flags' => "sync" \in flags'
                    /\ SyncPast({"dex", "native", "state"})' => "job" \notin flags'
  BY DEF JobIsSent
<1>1. InBuild
  BY StaysWell DEF InBuild
<1>2. ~Cleared
  BY OneTask, Goes, MainLineIsOfTasks DEF Cleared, Inc!Ended, Inc!Ready
<1>3. /\ buildPc["aapt"] = "done" /\ "job" \in flags => "sync" \in flags
      /\ SyncPast({"dex", "native", "state"}) => "job" \notin flags
  BY <1>1, <1>2 DEF JobIsSent
<1>4. /\ buildPc["sync"] # "waiting" => buildPc["merge_dex"] = "done"
      /\ buildPc["merge_dex"] # "waiting" => buildPc["aapt"] = "done"
  BY <1>1, Sequence
<1> USE <1>3, <1>4 DEF SyncPast
<1>5. CASE Inc!SkipAapt \/ Inc!Aapt
  <2>1. buildPc["aapt"] = "waiting" /\ Inc!GoesTo("aapt", "done") /\ ("job" \in flags' => "sync" \in flags')
    BY <1>5, MainLineIsOfTasks, Goes DEF Inc!SkipAapt, Inc!Aapt, Inc!Ready, Inc!Returns, Inc!Raises
  <2> QED BY <2>1, MainLineIsOfTasks, Goes
<1>6. ASSUME NEW m \in Modules, Inc!SkipJavac(m) \/ Inc!NothingNewGenerated(m) \/ Inc!Javac(m) \/ Inc!Dx(m)
      PROVE  /\ buildPc'["aapt"] = "done" /\ "job" \in flags' => "sync" \in flags'
             /\ SyncPast({"dex", "native", "state"})' => "job" \notin flags'
  <2>1. \E step \in {"dx", "done", "raised"} : Inc!GoesTo(m, step)
    BY <1>6 DEF Inc!SkipJavac, Inc!NothingNewGenerated, Inc!Javac, Inc!Dx, Inc!Returns, Inc!Raises, Inc!Compile
  <2>2. ("sync" \in flags => "sync" \in flags') /\ ("job" \in flags' => "job" \in flags)
    BY <1>6 DEF Inc!SkipJavac, Inc!NothingNewGenerated, Inc!Javac, Inc!Dx, Inc!RFlag
  <2> QED BY <2>1, <2>2, MainLineIsOfTasks, Goes
<1>7. CASE Inc!MergeDex \/ Inc!Connect \/ Inc!UpdateStat \/ Inc!WriteStat
  <2>1. \E t \in {"merge_dex", "connect", "update_stat"}, step \in {"done", "raised", "write"} : Inc!GoesTo(t, step)
    BY <1>7 DEF Inc!MergeDex, Inc!Connect, Inc!UpdateStat, Inc!WriteStat, Inc!Returns, Inc!Raises
  <2>2. UNCHANGED flags
    BY <1>7 DEF Inc!MergeDex, Inc!Connect, Inc!UpdateStat, Inc!WriteStat, Inc!cache
  <2> QED BY <2>1, <2>2, MainLineIsOfTasks, Goes
<1>8. CASE Inc!PushRes
  <2>1. buildPc["merge_dex"] = "done"
    BY <1>8, ParentsAre, <1>1, MainLineIsOfTasks DEF Inc!PushRes, Inc!Ready, InBuild, AllWell, Inc!Ended
  <2>2. Inc!GoesTo("sync", "dex") /\ "job" \notin flags'
    BY <1>8, <2>1, MainLineIsOfTasks, Goes DEF Inc!PushRes, Inc!Raises
  <2> QED BY <2>1, <2>2, MainLineIsOfTasks, Goes
<1>9. CASE Inc!PushDex \/ Inc!PushNative \/ Inc!SyncState
  <2>1. \E step \in {"raised", "native", "state", "done"} : Inc!GoesTo("sync", step)
    BY <1>9 DEF Inc!PushDex, Inc!PushNative, Inc!SyncState, Inc!Raises, Inc!Returns
  <2>2. buildPc["sync"] \in {"dex", "native", "state"} /\ UNCHANGED flags
    BY <1>9 DEF Inc!PushDex, Inc!PushNative, Inc!SyncState, Inc!cache, Inc!At
  <2> QED BY <2>1, <2>2, MainLineIsOfTasks, Goes
<1>10. CASE Inc!CleanCache
  BY <1>10, MainLineIsOfTasks, Goes DEF Inc!CleanCache, Inc!Returns, Cleared
<1> QED BY <1>5, <1>6, <1>7, <1>8, <1>9, <1>10 DEF Moves

LEMMA MarkersMove ==
  ASSUME Inc!TypeOK, PcType, Order, JobIsSent, MarkersGo, Moves
  PROVE  MarkersGo'
<1> SUFFICES ASSUME AllWell', Cleared' PROVE flags' = {} /\ merged' = None
  BY DEF MarkersGo
<1>1. InBuild
  BY StaysWell
<1>2. CASE Cleared
  <2>1. Inc!UpdateStat \/ Inc!WriteStat
    BY <1>1, <1>2, OnlyStatIsLeft
  <2> QED BY <1>1, <1>2, <2>1 DEF MarkersGo, Inc!UpdateStat, Inc!WriteStat, Inc!cache, InBuild
<1>3. CASE ~Cleared
  <2>1. Inc!CleanCache
    <3>1. buildPc'["clean_cache"] # buildPc["clean_cache"]
      BY <1>3 DEF Cleared
    <3>2. ASSUME NEW t \in Inc!Tasks, t # "clean_cache", NEW step, Inc!GoesTo(t, step) PROVE FALSE
      BY <3>1, <3>2, MainLineIsOfTasks, Goes
    <3> QED
      BY <3>2, MainLineIsOfTasks DEF Moves, Inc!SkipAapt, Inc!Aapt, Inc!SkipJavac, Inc!NothingNewGenerated, Inc!Javac,
         Inc!Dx, Inc!MergeDex, Inc!Connect, Inc!PushRes, Inc!PushDex, Inc!PushNative, Inc!SyncState,
         Inc!UpdateStat, Inc!WriteStat, Inc!Returns, Inc!Raises, Inc!Compile
  <2>2. buildPc["sync"] = "done"
    <3>1. Inc!Ended("sync")
      BY <2>1, ParentsAre DEF Inc!CleanCache, Inc!Ready
    <3> QED BY <3>1, <1>1, MainLineIsOfTasks DEF Inc!Ended, InBuild, AllWell
  <2>3. "job" \notin flags
    BY <1>1, <1>3, <2>2 DEF JobIsSent, SyncPast
  <2> QED BY <2>1, <2>3 DEF Inc!CleanCache
<1> QED BY <1>2, <1>3

-----------------------------------------------------------------------------
\* Until a task has failed and its exception been passed, what has begun has come after
\* its parents; so the cache is cleaned after dx.
LEMMA CleanedAfterDx ==
  ASSUME PcType, Order, NEW m \in Modules
  PROVE  /\ buildPc[m] = "waiting" => ~Cleared
         /\ Inc!Ready("clean_cache") => buildPc[m] # "dx"
         /\ buildPc["sync"] = "waiting" => ~Cleared
         /\ buildPc["merge_dex"] = "waiting" => ~Cleared
         /\ buildPc["aapt"] = "waiting" => ~Cleared
<1> SUFFICES ASSUME ~\A t \in Inc!Tasks : buildPc[t] # "waiting"
             PROVE  /\ buildPc[m] = "waiting" => ~Cleared
                    /\ Inc!Ready("clean_cache") => buildPc[m] # "dx"
                    /\ buildPc["sync"] = "waiting" => ~Cleared
                    /\ buildPc["merge_dex"] = "waiting" => ~Cleared
                    /\ buildPc["aapt"] = "waiting" => ~Cleared
  BY MainLineIsOfTasks DEF Inc!Ready
<1>1. \A t \in Inc!Tasks : buildPc[t] # "failed"
  BY DEF Order
<1>2. Cleared => Inc!Ended("sync")
  BY ParentsAre, MainLineIsOfTasks DEF Order, Begun, Cleared
<1>3. Inc!Ready("clean_cache") => Inc!Ended("sync")
  BY ParentsAre DEF Inc!Ready
<1>4. Inc!Ended("sync") => Inc!Ended("merge_dex")
  BY <1>1, ParentsAre, MainLineIsOfTasks DEF Order, Begun, Inc!Ended
<1>5. Inc!Ended("merge_dex") => Inc!Ended("aapt") /\ Inc!Ended(m)
  BY <1>1, MainLineIsOfTasks DEF Order, Begun, Inc!Ended
<1> QED BY <1>2, <1>3, <1>4, <1>5 DEF Inc!Ended

LEMMA RestartMoves ==
  ASSUME Inc!TypeOK, PcType, Order, RestartHasSrc, Moves
  PROVE  RestartHasSrc'
<1> SUFFICES ASSUME history'.dropped = {}
             PROVE  RestartHasSrc'
  BY DEF RestartHasSrc
<1>1. history.dropped = {}
  BY MovesAreSteps, ExemptGrows
<1>2. phase = "tasks" /\ UNCHANGED <<changed, restart, phase>>
  BY MoveRests
<1>3. Cleared => Cleared'
  BY OneTask, Goes, MainLineIsOfTasks DEF Cleared, Inc!Ended, Inc!Ready
<1> USE <1>1, <1>2, <1>3 DEF RestartHasSrc
<1>4. CASE Inc!SkipAapt \/ Inc!Aapt
  <2>1. \E step \in {"raised", "done"} : Inc!GoesTo("aapt", step)
    BY <1>4 DEF Inc!SkipAapt, Inc!Aapt, Inc!Returns, Inc!Raises
  <2>2. /\ UNCHANGED <<dex, merged, patch>>
        /\ "src" \in flags => "src" \in flags'
        /\ "restart" \in flags' <=> "restart" \in flags
        /\ apt' = apt \/ apt' = {} \/ "src" \in flags'
    BY <1>4 DEF Inc!SkipAapt, Inc!Aapt, Inc!inputs
  <2> QED BY <2>1, <2>2, MainLineIsOfTasks, Goes DEF Cleared
<1>5. ASSUME NEW m \in Modules, Inc!SkipJavac(m) PROVE RestartHasSrc'
  <2>1. Inc!GoesTo(m, "done")
    BY <1>5 DEF Inc!SkipJavac, Inc!Returns, Inc!Compile
  <2>2. /\ UNCHANGED <<dex, merged, patch, apt>>
        /\ "src" \in flags => "src" \in flags'
        /\ "restart" \in flags' <=> "restart" \in flags
    BY <1>5 DEF Inc!SkipJavac, Inc!inputs, Inc!RFlag
  <2> QED BY <2>1, <2>2, MainLineIsOfTasks, Goes DEF Cleared
<1>6. ASSUME NEW m \in Modules, Inc!NothingNewGenerated(m) PROVE RestartHasSrc'
  <2>1. Inc!GoesTo(m, "raised") /\ flags' = flags \cup Inc!RFlag(m)
    <3>1. ~(history' = [history EXCEPT !.dropped = @ \cup {Inc!Src(m)} \cup {i \in changed : i[1] = "src"}])
      BY DEF Inc!TypeOK
    <3> QED BY <1>6, <3>1 DEF Inc!NothingNewGenerated, Inc!Raises, Inc!Compile
  <2>2. UNCHANGED <<dex, merged, patch, apt>>
    BY <1>6 DEF Inc!NothingNewGenerated, Inc!inputs
  <2>3. ("src" \in flags => "src" \in flags') /\ ("restart" \in flags' <=> "restart" \in flags)
    BY <2>1 DEF Inc!RFlag
  <2> QED BY <2>1, <2>2, <2>3, MainLineIsOfTasks, Goes DEF Cleared
<1>7. ASSUME NEW m \in Modules, Inc!Javac(m) PROVE RestartHasSrc'
  <2>1. /\ UNCHANGED <<dex, merged, apt>>
        /\ "src" \in flags => "src" \in flags'
        /\ "restart" \in flags' <=> "restart" \in flags
    BY <1>7 DEF Inc!Javac, Inc!inputs, Inc!RFlag
  <2>2. ~Cleared /\ "src" \in flags
    <3>1. ~Cleared
      BY <1>7, CleanedAfterDx DEF Inc!Javac, Inc!Ready, Inc!Compile
    <3>2. Inc!Src(m) \in changed \/ apt # {}
      BY <1>7 DEF Inc!Javac, Inc!GeneratesNew
    <3> QED BY <3>1, <3>2
  <2>3. \/ Inc!GoesTo(m, "raised") /\ UNCHANGED patch
        \/ Inc!GoesTo(m, "dx") /\ patch' = [patch EXCEPT ![m] = version[Inc!Src(m)]]
    BY <1>7 DEF Inc!Javac, Inc!Raises, Inc!Compile
  <2>4. \A n \in Modules : buildPc'[n] = "dx" => patch'[n] # None
    <3>1. \A n \in Modules : buildPc[n] = "dx" => patch[n] # None
      OBVIOUS
    <3>2. CASE Inc!GoesTo(m, "raised") /\ UNCHANGED patch
      BY <3>1, <3>2, MainLineIsOfTasks, Goes
    <3>3. CASE Inc!GoesTo(m, "dx") /\ patch' = [patch EXCEPT ![m] = version[Inc!Src(m)]]
      <4>1. version[Inc!Src(m)] # None
        BY ItemsAre, VersionsAreNumbers
      <4>2. \A n \in Modules : n # m => patch'[n] = patch[n] /\ buildPc'[n] = buildPc[n]
        BY <3>3, MainLineIsOfTasks, Goes DEF Inc!TypeOK, Inc!PerModule
      <4>3. patch'[m] = version[Inc!Src(m)]
        BY <3>3 DEF Inc!TypeOK, Inc!PerModule
      <4> QED BY <3>1, <4>1, <4>2, <4>3
    <3> QED BY <2>3, <3>2, <3>3
  <2>5. buildPc'["merge_dex"] = buildPc["merge_dex"] /\ ~Cleared'
    BY <2>2, <2>3, MainLineIsOfTasks, Goes DEF Cleared
  <2> QED BY <2>1, <2>2, <2>4, <2>5
<1>8. ASSUME NEW m \in Modules, Inc!Dx(m) PROVE RestartHasSrc'
  <2>1. UNCHANGED <<patch, merged, apt>> /\ buildPc[m] = "dx"
    BY <1>8 DEF Inc!Dx, Inc!inputs, Inc!At, Inc!Compile
  <2>2. patch[m] # None /\ ~Cleared /\ "src" \in flags
    BY <2>1
  <2>3. \E step \in {"raised", "done"} : Inc!GoesTo(m, step)
    BY <1>8 DEF Inc!Dx, Inc!Raises, Inc!Returns, Inc!Compile
  <2>4. "src" \in flags' /\ ((dex' = dex /\ flags' = flags) \/ dex' = [dex EXCEPT ![m] = patch[m]])
    BY <1>8, <2>2 DEF Inc!Dx
  <2>5. (\E n \in Modules : dex[n] # None) => \E n \in Modules : dex'[n] # None
    BY <2>2, <2>4 DEF Inc!TypeOK, Inc!PerModule
  <2>6. "restart" \in flags' => \E n \in Modules : dex'[n] # None
    BY <2>2, <2>4, <2>5 DEF Inc!TypeOK, Inc!PerModule
  <2>7. buildPc'["merge_dex"] = buildPc["merge_dex"] /\ ~Cleared'
    BY <2>2, <2>3, MainLineIsOfTasks, Goes DEF Cleared
  <2>8. \A n \in Modules : buildPc'[n] = "dx" => buildPc[n] = "dx"
    BY <2>3, MainLineIsOfTasks, Goes
  <2> QED BY <2>1, <2>2, <2>4, <2>5, <2>6, <2>7, <2>8
<1>9. CASE Inc!MergeDex
  <2>1. UNCHANGED <<patch, dex, flags, apt>> /\ buildPc["merge_dex"] = "waiting"
    BY <1>9 DEF Inc!MergeDex, Inc!inputs, Inc!Ready
  <2>2. ~Cleared /\ dex # None
    <3>1. dex # None
      BY PatchAssumption DEF Inc!IncrementalBuildAssumption, Inc!TypeOK, Inc!PerModule
    <3>2. ~Cleared
      BY <2>1, CleanedAfterDx, PatchAssumption DEF Inc!IncrementalBuildAssumption
    <3> QED BY <3>1, <3>2
  <2>3. \/ Inc!GoesTo("merge_dex", "raised") /\ merged' = merged
        \/ Inc!GoesTo("merge_dex", "done") /\ (restart => merged' = dex)
    BY <1>9, <2>2 DEF Inc!MergeDex, Inc!Raises, Inc!Returns
  <2>4. ~Cleared' /\ (restart /\ buildPc'["merge_dex"] = "done" => merged' # None)
    BY <2>2, <2>3, MainLineIsOfTasks, Goes DEF Cleared
  <2>5. \A n \in Modules : buildPc'[n] = buildPc[n]
    BY <2>3, MainLineIsOfTasks, Goes
  <2> QED BY <2>1, <2>2, <2>4, <2>5
<1>10. CASE Inc!Connect \/ Inc!UpdateStat \/ Inc!WriteStat \/ Inc!PushRes \/ Inc!PushDex \/ Inc!PushNative \/ Inc!SyncState
  <2>1. \E t \in {"connect", "update_stat", "sync"}, step \in {"raised", "done", "dex", "native", "state", "write"} :
          Inc!GoesTo(t, step)
    BY <1>10 DEF Inc!Connect, Inc!UpdateStat, Inc!WriteStat, Inc!PushRes, Inc!PushDex, Inc!PushNative, Inc!SyncState,
         Inc!Raises, Inc!Returns
  <2>2. UNCHANGED <<patch, dex, merged, apt>>
    BY <1>10 DEF Inc!Connect, Inc!UpdateStat, Inc!WriteStat, Inc!PushRes, Inc!PushDex, Inc!PushNative, Inc!SyncState,
         Inc!cache, Inc!inputs
  <2>3. ("src" \in flags => "src" \in flags') /\ ("restart" \in flags' => "restart" \in flags)
    BY <1>10 DEF Inc!Connect, Inc!UpdateStat, Inc!WriteStat, Inc!PushRes, Inc!PushDex, Inc!PushNative, Inc!SyncState, Inc!cache
  <2> QED BY <2>1, <2>2, <2>3, MainLineIsOfTasks, Goes DEF Cleared
<1>11. CASE Inc!CleanCache
  <2>1. Inc!GoesTo("clean_cache", "done") /\ "restart" \notin flags' /\ Inc!Ready("clean_cache")
    BY <1>11 DEF Inc!CleanCache, Inc!Returns
  <2>2. \A n \in Modules : buildPc'[n] # "dx"
    BY <2>1, CleanedAfterDx, MainLineIsOfTasks, Goes
  <2>3. Cleared'
    BY <2>1, MainLineIsOfTasks, Goes DEF Cleared
  <2> QED BY <2>1, <2>2, <2>3
<1> QED BY <1>4, <1>5, <1>6, <1>7, <1>8, <1>9, <1>10, <1>11 DEF Moves

-----------------------------------------------------------------------------
\* What holds of the files on their way to the application.
Way == RecordedIsEverywhere /\ ResComes /\ SrcComes /\ SoComes /\ JobIsSent /\ MarkersGo /\ RestartHasSrc

LEMMA EditKeepsWay ==
  ASSUME Inc!TypeOK, Way, NEW i \in Edited, Inc!Edit(i)
  PROVE  Way'
<1>1. PICK n \in 1..MaxEdits : /\ \A j \in Inc!Items : version[j] < n
                               /\ version' = [version EXCEPT ![i] = n]
  BY DEF Inc!Edit
<1>2. UNCHANGED <<stat, changed, apt, restart, flags, pack, newR, patch, dex, merged, pushed, running, phase, buildPc>>
  BY DEF Inc!Edit, Inc!record, Inc!inputs, Inc!cache, Inc!device
<1>3. i \in Inc!Items
  BY PatchAssumption DEF Inc!IncrementalBuildAssumption
<1>4. \A j \in Inc!Items : j # i => version'[j] = version[j]
  BY <1>1 DEF Inc!TypeOK, Inc!Versions
<1>5. Exempt \subseteq Exempt' /\ (phase = "tasks" /\ i \in changed => i \in Exempt')
      /\ history'.dropped = history.dropped
  BY DEF Inc!Edit, Exempt, Inc!TypeOK
<1>6. AllWell' <=> AllWell
  BY <1>2 DEF AllWell
<1>7. RecordedIsEverywhere'
  <2> SUFFICES ASSUME NEW j \in Inc!Items \ Exempt'
               PROVE  stat'[j] <= version'[j] /\ (stat'[j] = version'[j] => Everywhere(j)')
    BY DEF RecordedIsEverywhere
  <2>1. stat[j] <= version[j] /\ (stat[j] = version[j] => Everywhere(j)) /\ j \in Inc!Items
    BY <1>5 DEF Way, RecordedIsEverywhere
  <2>2. CASE j = i
    <3>1. stat[i] \in Nat /\ version[i] \in Nat /\ version'[i] = n /\ version[i] < n /\ n \in Nat
      BY <1>1, <1>3, PatchAssumption DEF Inc!TypeOK, Inc!Versions, Inc!IncrementalBuildAssumption
    <3>2. stat'[i] < version'[i] /\ stat'[i] <= version'[i] /\ stat'[i] # version'[i]
      BY <3>1, <2>1, <2>2, <1>2
    <3> QED BY <3>2, <2>2
  <2>3. CASE j # i
    <3>1. version'[j] = version[j]
      BY <1>4, <2>1, <2>3
    <3> QED BY <3>1, <2>1, <1>2 DEF Everywhere
  <2> QED BY <2>2, <2>3
<1>8. ASSUME InBuild', NEW j \in Inc!Items, j \in changed', j \notin Exempt'
      PROVE  InBuild /\ j \in changed /\ j \notin Exempt /\ version'[j] = version[j]
  BY <1>2, <1>4, <1>5, <1>6, <1>8 DEF InBuild
<1>9. ResComes'
  <2> SUFFICES ASSUME InBuild', NEW j \in (changed' \cap Inc!Res) \ Exempt' PROVE ResOnTheWay(j)'
    BY DEF ResComes
  <2>1. ResOnTheWay(j) /\ version'[j] = version[j]
    BY <1>8, ItemsAre DEF Way, ResComes
  <2> QED BY <2>1, <1>2 DEF ResOnTheWay, SyncPast, Cleared
<1>10. SrcComes'
  <2> SUFFICES ASSUME InBuild', NEW m \in Modules, Inc!Src(m) \in (changed \ Exempt)' PROVE SrcOnTheWay(m)'
    BY DEF SrcComes
  <2>1. SrcOnTheWay(m) /\ version'[Inc!Src(m)] = version[Inc!Src(m)]
    BY <1>8, ItemsAre DEF Way, SrcComes
  <2> QED BY <2>1, <1>2 DEF SrcOnTheWay, SyncPast, Cleared
<1>11. SoComes'
  <2> SUFFICES ASSUME InBuild', Inc!So \in (changed \ Exempt)' PROVE SoOnTheWay'
    BY DEF SoComes
  <2>1. SoOnTheWay /\ version'[Inc!So] = version[Inc!So]
    BY <1>8, ItemsAre DEF Way, SoComes
  <2> QED BY <2>1, <1>2 DEF SoOnTheWay, SyncPast, Cleared
<1>12. JobIsSent' /\ MarkersGo'
  BY <1>2, <1>6 DEF Way, JobIsSent, MarkersGo, InBuild, SyncPast, Cleared
<1>13. RestartHasSrc'
  BY <1>2, <1>5 DEF Way, RestartHasSrc, Cleared
<1> QED BY <1>7, <1>9, <1>10, <1>11, <1>12, <1>13 DEF Way

LEMMA StartKeepsWay ==
  ASSUME Inc!TypeOK, Way, Inc!StartBuild
  PROVE  Way'
<1>1. /\ UNCHANGED <<version, stat, pack, newR, patch, dex, merged, pushed, running, history>>
      /\ \A t \in Inc!Tasks : buildPc'[t] = "waiting"
      /\ phase' = "tasks" /\ apt' = {} /\ restart' = ("restart" \in flags)
      /\ changed' = {i \in Inc!Items : version[i] > stat[i]}
      /\ flags' = flags \cup (IF \E m \in Modules : Inc!Src(m) \in changed' THEN {"src"} ELSE {})
                        \cup (IF Inc!So \in changed' THEN {"native"} ELSE {})
  BY DEF Inc!StartBuild, Inc!record, Inc!device
<1>2. RecordedIsEverywhere'
  BY <1>1 DEF Way, RecordedIsEverywhere, Everywhere, Exempt
<1>3. ResComes' /\ SrcComes' /\ SoComes'
  BY <1>1, MainLineIsOfTasks
     DEF ResComes, SrcComes, SoComes, ResOnTheWay, SrcOnTheWay, SoOnTheWay, SyncPast, Cleared
<1>4. JobIsSent' /\ MarkersGo'
  BY <1>1, MainLineIsOfTasks DEF JobIsSent, MarkersGo, SyncPast, Cleared
<1>5. RestartHasSrc'
  <2>1. ("src" \in flags => "src" \in flags') /\ ("restart" \in flags' <=> "restart" \in flags)
        /\ ((\E m \in Modules : Inc!Src(m) \in changed') => "src" \in flags')
    BY <1>1
  <2> QED BY <1>1, <2>1, MainLineIsOfTasks DEF Way, RestartHasSrc, Cleared
<1> QED BY <1>2, <1>3, <1>4, <1>5 DEF Way

LEMMA EndKeepsWay ==
  ASSUME Inc!TypeOK, Way, Inc!BuildEnds \/ Inc!BuildWithoutStat
  PROVE  Way'
<1>1. /\ UNCHANGED <<version, stat, flags, pack, newR, patch, dex, merged, pushed, running, history>>
      /\ phase' = "idle"
      /\ \/ buildPc' = buildPc /\ \A t \in Inc!Tasks : buildPc[t] = "done"
         \/ \A t \in Inc!Tasks : buildPc'[t] = "failed"
  BY DEF Inc!BuildEnds, Inc!BuildWithoutStat, Inc!record, Inc!device, Inc!cache
<1>2. RecordedIsEverywhere'
  BY <1>1 DEF Way, RecordedIsEverywhere, Everywhere, Exempt
<1>3. ResComes' /\ SrcComes' /\ SoComes' /\ JobIsSent'
  BY <1>1 DEF ResComes, SrcComes, SoComes, JobIsSent, InBuild
<1>4. MarkersGo'
  BY <1>1, MainLineIsOfTasks DEF Way, MarkersGo, Cleared, AllWell
<1>5. RestartHasSrc'
  <2>1. \A m \in Modules : buildPc'[m] # "dx"
    BY <1>1, MainLineIsOfTasks
  <2> QED BY <1>1, <2>1 DEF Way, RestartHasSrc
<1> QED BY <1>2, <1>3, <1>4, <1>5 DEF Way

LEMMA ExceptionKeepsWay ==
  ASSUME Inc!TypeOK, Way, NEW t \in Inc!Tasks, Inc!PassException(t)
  PROVE  Way'
<1>1. /\ UNCHANGED <<version, stat, changed, apt, restart, flags, pack, newR, patch, dex, merged, pushed, running,
                     phase, history>>
      /\ buildPc'[t] = "failed"
      /\ \A u \in Inc!Tasks : buildPc'[u] = buildPc[u] \/ (buildPc'[u] = "failed" /\ buildPc[u] # "done")
      /\ phase = "tasks"
  <2>1. buildPc' = [u \in Inc!Tasks |-> IF u = t \/ buildPc[u] = "waiting" THEN "failed" ELSE buildPc[u]]
        /\ buildPc[t] = "raised"
    BY DEF Inc!PassException, Inc!At
  <2>2. ASSUME NEW u \in Inc!Tasks
        PROVE  buildPc'[u] = buildPc[u] \/ (buildPc'[u] = "failed" /\ buildPc[u] # "done")
    BY <2>1
  <2> QED BY <2>1, <2>2 DEF Inc!PassException, Inc!record, Inc!device, Inc!cache, Inc!inputs, Inc!At
<1>2. RecordedIsEverywhere'
  BY <1>1 DEF Way, RecordedIsEverywhere, Everywhere, Exempt
<1>3. ~AllWell'
  BY <1>1 DEF AllWell
<1>4. ResComes' /\ SrcComes' /\ SoComes' /\ JobIsSent' /\ MarkersGo'
  BY <1>3 DEF ResComes, SrcComes, SoComes, JobIsSent, MarkersGo, InBuild
<1>5. RestartHasSrc'
  <2>1. Cleared' <=> Cleared
    BY <1>1, MainLineIsOfTasks DEF Cleared
  <2>2. /\ \A m \in Modules : buildPc'[m] = "dx" => buildPc[m] = "dx"
        /\ buildPc'["merge_dex"] = "done" => buildPc["merge_dex"] = "done"
    BY <1>1, MainLineIsOfTasks
  <2> QED BY <1>1, <2>1, <2>2 DEF Way, RestartHasSrc
<1> QED BY <1>2, <1>4, <1>5 DEF Way

LEMMA StutterKeepsWay ==
  ASSUME Way, UNCHANGED incVars
  PROVE  Way'
BY DEF incVars, Way, RecordedIsEverywhere, ResComes, SrcComes, SoComes, JobIsSent, MarkersGo, RestartHasSrc,
  Everywhere, ResOnTheWay, SrcOnTheWay, SoOnTheWay, SyncPast, Cleared, InBuild, AllWell, Exempt

LEMMA IncInvStep == IncInv /\ [Inc!Next]_incVars => IncInv'
<1> SUFFICES ASSUME IncInv, [Inc!Next]_incVars PROVE IncInv'
  OBVIOUS
<1>1. Inc!TypeOK /\ PcType /\ Order /\ Way
  BY DEF IncInv, Way
<1>2. Inc!TypeOK' /\ PcType' /\ Order'
  BY <1>1, IncTypesStep, OrderStep
<1>3. ASSUME Moves PROVE Way'
  BY <1>1, <1>3, RecordedMoves, ResMoves, SrcMoves, SoMoves, JobMoves, MarkersMove, RestartMoves DEF Way
<1>4. ASSUME NEW i \in Edited, Inc!Edit(i) PROVE Way'
  BY <1>1, <1>4, EditKeepsWay
<1>5. ASSUME Inc!StartBuild PROVE Way'
  BY <1>1, <1>5, StartKeepsWay
<1>6. ASSUME Inc!BuildEnds \/ Inc!BuildWithoutStat PROVE Way'
  BY <1>1, <1>6, EndKeepsWay
<1>7. ASSUME NEW t \in Inc!Tasks, Inc!PassException(t) PROVE Way'
  BY <1>1, <1>7, ExceptionKeepsWay
<1>8. ASSUME UNCHANGED incVars PROVE Way'
  BY <1>1, <1>8, StutterKeepsWay
<1>9. Way'
  BY <1>3, <1>4, <1>5, <1>6, <1>7, <1>8 DEF Inc!Next, Moves
<1> QED BY <1>2, <1>9 DEF IncInv, Way

LEMMA IncInvInit == Inc!Init => IncInv
<1> SUFFICES ASSUME Inc!Init PROVE IncInv
  OBVIOUS
<1> USE PatchAssumption DEF Inc!Init, Inc!IncrementalBuildAssumption
<1>1. Inc!TypeOK
  <2>1. Inc!Res \subseteq Inc!Items
    BY ItemsAre
  <2>2. version \in Inc!Versions /\ pack \in [Inc!Res -> 0..MaxEdits]
    BY <2>1 DEF Inc!Versions
  <2>3. patch \in Inc!PerModule /\ dex \in Inc!PerModule
    BY DEF Inc!PerModule
  <2>4. stat = version /\ pushed = version /\ running = version
    OBVIOUS
  <2>5. buildPc \in [Inc!Tasks -> {"waiting", "dx", "done", "raised", "failed", "write"} \cup Inc!Steps]
    OBVIOUS
  <2>6. history \in [during : SUBSET Inc!Items, dropped : SUBSET Inc!Items, unused : SUBSET Inc!Items]
    OBVIOUS
  <2>7. changed \subseteq Inc!Items /\ apt \subseteq DataBinding /\ flags \subseteq Inc!Markers /\ merged = None
        /\ newR \in BOOLEAN /\ restart \in BOOLEAN /\ accepts \in BOOLEAN
        /\ phase \in {"idle", "tasks"}
    OBVIOUS
  <2>8. buildBuilds \in 0..MaxIncBuilds /\ whole \in BOOLEAN
    OBVIOUS
  <2> HIDE DEF Inc!Init, Inc!IncrementalBuildAssumption
  <2> QED BY <2>2, <2>3, <2>4, <2>5, <2>6, <2>7, <2>8 DEF Inc!TypeOK
<1>2. PcType
  BY MainLineIsOfTasks DEF PcType
<1>3. Order
  BY MainLineIsOfTasks, ParentsAre DEF Order, Begun, Inc!Ended
<1>4. RecordedIsEverywhere
  BY ItemsAre DEF RecordedIsEverywhere, Everywhere, Num
<1>5. ResComes /\ SrcComes /\ SoComes /\ JobIsSent
  BY DEF ResComes, SrcComes, SoComes, JobIsSent, InBuild
<1>6. MarkersGo
  BY DEF MarkersGo
<1>7. RestartHasSrc
  BY MainLineIsOfTasks DEF RestartHasSrc
<1> QED BY <1>1, <1>2, <1>3, <1>4, <1>5, <1>6, <1>7 DEF IncInv

LEMMA IncInvSuffices ==
  IncInv => Inc!TypeOK /\ Inc!NothingIsForgotten /\ Inc!SuccessLeavesNoMarker /\ Inc!RestartHasCode
<1> SUFFICES ASSUME IncInv
             PROVE  Inc!TypeOK /\ Inc!NothingIsForgotten /\ Inc!SuccessLeavesNoMarker /\ Inc!RestartHasCode
  OBVIOUS
<1>1. Inc!NothingIsForgotten
  <2> SUFFICES ASSUME NEW i \in Inc!Items \ Exempt PROVE version[i] > stat[i] \/ running[i] = version[i]
    BY DEF Inc!NothingIsForgotten, Exempt
  <2>1. stat[i] \in Nat /\ version[i] \in Nat
    BY PatchAssumption DEF IncInv, Inc!TypeOK, Inc!Versions, Inc!IncrementalBuildAssumption
  <2> QED BY <2>1 DEF IncInv, RecordedIsEverywhere, Everywhere
<1>2. Inc!SuccessLeavesNoMarker
  BY MainLineIsOfTasks DEF Inc!SuccessLeavesNoMarker, Inc!Succeeded, IncInv, MarkersGo, AllWell, Cleared
<1>3. Inc!RestartHasCode
  <2> SUFFICES ASSUME Inc!At("sync", "state"), Inc!TellsRestart, history.dropped = {}, AllWell
               PROVE  "native" \in flags \/ merged # None
    BY DEF Inc!RestartHasCode, AllWell
  <2>1. InBuild /\ buildPc["sync"] = "state"
    BY DEF Inc!At, InBuild
  <2>2. buildPc["merge_dex"] = "done" /\ ~Cleared
    BY <2>1, Sequence DEF IncInv, Cleared
  <2> QED BY <2>1, <2>2 DEF IncInv, RestartHasSrc, Inc!TellsRestart, InBuild
<1> QED BY <1>1, <1>2, <1>3 DEF IncInv

-----------------------------------------------------------------------------
(* Both *)

PatchInv ==
  /\ part \in {"client", "build"}
  /\ part = "client" => Counts /\ TypeOK /\ Bounds
  /\ part = "build" => IncInv

\* gradle_inc_build.py:77-133, 219-250, gradle_tools.py:460-540 - whatever build fails or is
\* killed at whatever step, and whatever files are edited meanwhile, what the application does
\* not run the next scan finds, as long as the stat can be read and but for the jars, which no
\* task uses; a build whose tasks all return leaves no marker; and the
\* application is told to restart only for code it has been sent.  For any modules that depend
\* on each other without a circle, any number of edits and of builds.
THEOREM PatchForgetsNothing == PatchSpec => []NothingIsForgotten
<1>1. PatchInit => PatchInv
  BY Initially, BoundsInitially, IncInvInit DEF PatchInit, PatchInv
<1>2. PatchInv /\ [PatchNext]_patchVars => PatchInv'
  <2> SUFFICES ASSUME PatchInv, [PatchNext]_patchVars PROVE PatchInv'
    OBVIOUS
  <2>1. CASE part = "client"
    <3>1. [Next]_vars /\ part' = part
      BY <2>1 DEF PatchNext, patchVars
    <3> QED BY <2>1, <3>1, CountsStep, BoundsStep DEF PatchInv
  <2>2. CASE part = "build"
    <3>1. [Inc!Next]_incVars /\ part' = part
      BY <2>2 DEF PatchNext, patchVars
    <3> QED BY <2>2, <3>1, IncInvStep DEF PatchInv
  <2> QED BY <2>1, <2>2 DEF PatchInv
<1>3. PatchInv => NothingIsForgotten
  BY IncInvSuffices DEF PatchInv, NothingIsForgotten
<1> QED BY <1>1, <1>2, <1>3, PTL DEF PatchSpec
=============================================================================
