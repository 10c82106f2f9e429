--------------------------- MODULE MCEglContexts ---------------------------
(***************************************************************************)
(* Two threads; the workloads that make the caches, the re-binding and the *)
(* reuse of indices happen, each small enough to be explored exhaustively. *)
(***************************************************************************)
EXTENDS EglInvariant, TLC

Quota(f) == f @@ [k \in Kinds |-> 0]

(* A context for each thread, one of them replaced: its index is reused.   *)
TwoContexts == Quota([createContext |-> 3, destroyContext |-> 1,
                      makeCurrent |-> 4, gl |-> 2, getCurrent |-> 1])

(* Surfaces made and destroyed under a context that changes hands.         *)
TwoSurfaces == Quota([createContext |-> 1, createSurface |-> 3,
                      destroySurface |-> 2, makeCurrent |-> 3, gl |-> 1,
                      releaseThread |-> 1])

(* Queries of a surface that is drawn, resized and replaced.               *)
Asking == Quota([createContext |-> 1, createSurface |-> 2, destroySurface |-> 1,
                 makeCurrent |-> 1, swap |-> 2, resize |-> 1, querySize |-> 2,
                 queryAge |-> 2])

MCWorkloads == {TwoContexts, TwoSurfaces, Asking}
MCSymmetry == Permutations(Threads)
=============================================================================
