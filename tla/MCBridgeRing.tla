---------------------------- MODULE MCBridgeRing ----------------------------
(***************************************************************************)
(* Small instances of BridgeRing for TLC.                                  *)
(***************************************************************************)
EXTENDS RingInvariant, TLC

Symmetry == Permutations(Threads)

(* The bound MaxSeq stops the threads.  What then remains is a rest state: *)
(* nobody is inside the stub and the proxy sleeps.  Any other state        *)
(* without a successor is a deadlock.                                      *)
AtRest ==
  /\ g_local_seq = MaxSeq
  /\ \A t \in Threads : pc[t] = "idle"
  /\ proxy_pc = "block" /\ ~req_efd
  /\ UNCHANGED vars

MCNext     == Next \/ AtRest
MCSpec     == Init /\ [][MCNext]_vars
MCFairSpec == MCSpec /\ Fairness
=============================================================================
