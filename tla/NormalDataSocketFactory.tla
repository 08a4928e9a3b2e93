----------------------- MODULE NormalDataSocketFactory -----------------------
(***************************************************************************)
(* NormalDataSocketFactory: the data connections of a session whose client *)
(* is on the same network.  Only the session thread calls it, so each      *)
(* method is one step, except that onTransfer waits: for the client in     *)
(* PASV mode, for the connection to be made in PORT mode.                  *)
(*                                                                         *)
(* An address the factory connects to is kept only as far as onTransfer    *)
(* tells them apart: none, one with port 0 (which PORT 1,2,3,4,0,0 sets),  *)
(* any other.  setSoTimeout, which fails only on a closed socket, is left  *)
(* out.                                                                    *)
(***************************************************************************)
EXTENDS Integers

VARIABLES
  server,     \* the field server: null or a server socket
  remote,     \* the fields remoteAddr and remotePort
  listening,  \* how many server sockets made here are open
  asked,      \* history: what the client asked for last, PASV or PORT
  via         \* history: how the connection handed out last was made

factoryVars == <<server, remote, listening, asked, via>>

Remotes == {"null", "port 0", "set"}

FactoryTypeOK ==
  /\ server \in {"null", "set"}
  /\ remote \in Remotes
  /\ listening \in {0, 1}
  /\ asked \in {"none", "pasv", "port"}
  /\ via \in {"none", "pasv", "port"}

FactoryInit ==
  /\ server = "null"
  /\ remote = "null"
  /\ listening = 0
  /\ asked = "none"
  /\ via = "none"

\* server.close(), if there is one.
CloseServer == IF server = "set" THEN listening - 1 ELSE listening

\* The state that clearState() leaves.
ClearState ==
  /\ server' = "null"
  /\ remote' = "null"
  /\ listening' = CloseServer

-----------------------------------------------------------------------------
\* clearState, then a server socket on a free port, if there is one.
OnPasv ==
  /\ \/ /\ server' = "set"
        /\ remote' = "null"
        /\ listening' = CloseServer + 1
     \/ ClearState
  /\ asked' = "pasv"
  /\ UNCHANGED via

\* Fault: onPort keeps the server socket of an earlier PASV.
PortKeepsServer ==
  /\ remote' \in Remotes \ {"null"}
  /\ asked' = "port"
  /\ UNCHANGED <<server, listening, via>>

\* clearState, then the address the client gave.
OnPort ==
  /\ server' = "null"
  /\ remote' \in Remotes \ {"null"}
  /\ listening' = CloseServer
  /\ asked' = "port"
  /\ UNCHANGED via

\* onTransfer hands out a connection; the PORT settings stay in force.
TransferConnects ==
  /\ \/ server = "set" /\ ClearState /\ via' = "pasv"
     \/ server = "null" /\ remote = "set" /\ via' = "port"
        /\ UNCHANGED <<server, remote, listening>>
  /\ UNCHANGED asked

\* onTransfer returns null: nothing was set up, or the connection failed.
TransferFails == ClearState /\ via' = "none" /\ UNCHANGED asked

-----------------------------------------------------------------------------
\* What is in force, as DataSocketFactory sees it.
Mode == IF server = "set" \/ remote # "null" THEN asked ELSE "none"

Promise == INSTANCE DataSocketFactory WITH mode <- Mode

\* The factory keeps to the order of the client's requests: a PASV or PORT
\* supersedes the other, and a transfer never uses what was superseded.
KeepsPromise == Promise!FactorySpec

\* Each server socket is closed by whatever takes its place: no port opened by
\* an earlier PASV stays open, and the one the factory refers to is open.
OnePassivePort == listening = IF server = "set" THEN 1 ELSE 0
=============================================================================
