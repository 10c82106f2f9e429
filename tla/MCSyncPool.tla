----------------------------- MODULE MCSyncPool -----------------------------
(***************************************************************************)
(* Small instances of SyncPool for TLC.                                    *)
(***************************************************************************)
EXTENDS SyncInvariant, TLC

Symmetry == Permutations(Threads)

OneGroup == [t \in Threads |-> CHOOSE g \in Groups : TRUE]

(* A rest state: the bounds are used up or every id is in use, nobody is   *)
(* inside the stub and the ring is empty.                                  *)
AtRest ==
  /\ \A t \in Threads : pc[t] = "idle"
  /\ ring = <<>>
  /\ UNCHANGED vars

MCSafetySpec == Init /\ [][Next \/ AtRest]_vars
MCFairSpec   == MCSafetySpec /\ Fairness
=============================================================================
