---------------------------- MODULE MCFtpService ----------------------------
(***************************************************************************)
(* FtpService for TLC: the safety run treats sessions as interchangeable,  *)
(* the liveness run keeps sessions apart from what may happen before them. *)
(***************************************************************************)
EXTENDS FtpService, FiniteSets, TLC

Symmetry == Permutations(Sessions)

\* Bound: a behaviour with sessions has one service object, whose first bind works.
Apart ==
  \/ \A s \in Sessions : session[s].pc = "none"
  \/ Cardinality(created) <= 1 /\ \A i \in Instances : failedBinds[i] = 0

\* A bound on what clients, the network and the user do takes nothing from the fairness
\* of the threads.
ApartFairSpec == Init /\ [][Next /\ Apart']_vars /\ Fairness
=============================================================================
