-------------------------- MODULE DataSocketFactory --------------------------
(***************************************************************************)
(* What a data socket factory promises the session it belongs to: a        *)
(* transfer goes over the connection the client asked for last, PASV or    *)
(* PORT, or it fails; it never falls back on an older request.             *)
(***************************************************************************)
VARIABLES
  mode,  \* what the client asked for last and is still in force
  via    \* how the connection handed out last was made

Modes == {"none", "pasv", "port"}

FactoryInit == mode = "none" /\ via = "none"

\* A PASV that fails leaves nothing to transfer with.
OnPasv == mode' \in {"pasv", "none"} /\ UNCHANGED via

OnPort == mode' = "port" /\ UNCHANGED via

\* A request may or may not serve for a second transfer.
OnTransfer ==
  /\ via' \in {mode, "none"}
  /\ mode' \in {mode, "none"}

FactorySpec ==
  FactoryInit /\ [][OnPasv \/ OnPort \/ OnTransfer]_<<mode, via>>
=============================================================================
