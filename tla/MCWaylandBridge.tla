-------------------------- MODULE MCWaylandBridge --------------------------
(***************************************************************************)
(* Small instances of WaylandBridge for TLC.                               *)
(***************************************************************************)
EXTENDS WaylandInvariant

Load(keys, surfaces, states, destroys, frames, calls) ==
  [keys |-> keys, surfaces |-> surfaces, states |-> states, destroys |-> destroys,
   frames |-> frames, calls |-> calls]

Input      == Load(3, 1, 0, 0, 0, 1)
Windows    == Load(0, 2, 2, 0, 0, 0)
Closing    == Load(0, 2, 1, 1, 0, 0)
Frames     == Load(0, 0, 0, 0, 3, 1)
Everything == Load(1, 1, 1, 0, 1, 0)

MCWorkloads == {Input, Windows, Closing, Frames, Everything}

(* A rest state: the proxy's thread is asleep, no thread is inside the     *)
(* stub, and there is nothing to wake either.                              *)
AtRest ==
  /\ proxy_pc = "poll" /\ \A t \in Threads : At(t, "rest")
  /\ socket = <<>> /\ ~event_efd
  /\ UNCHANGED vars

MCSpec     == Init /\ [][Next \/ AtRest]_vars
MCFairSpec == MCSpec /\ Fairness
=============================================================================
