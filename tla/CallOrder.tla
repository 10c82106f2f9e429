----------------------------- MODULE CallOrder ------------------------------
(***************************************************************************)
(* What the bridge promises its callers, without ring, arena, lock and     *)
(* eventfds: commands are numbered as they are issued and run one at a     *)
(* time in that order.  A blocking command comes back after it ran; an     *)
(* asynchronous swap comes back after the previous swap ran.               *)
(***************************************************************************)
EXTENDS Integers, Sequences

CONSTANTS Threads, Kinds, AsyncSwap, MaxSeq

VARIABLES
  issued,    \* commands issued so far: 0 .. issued - 1
  ran,       \* the commands run, in the order they ran
  kind,      \* per thread: the kind of its command
  waiting,   \* per thread: the command it waits for
  lastSwap   \* the latest asynchronous swap

vars == <<issued, ran, kind, waiting, lastSwap>>

Nothing == -1

Init ==
  /\ issued = 0
  /\ ran = <<>>
  /\ kind = [t \in Threads |-> "void"]
  /\ waiting = [t \in Threads |-> Nothing]
  /\ lastSwap = Nothing

(* A thread that waits for nothing turns to another kind of command.       *)
Choose(t, k) ==
  /\ waiting[t] = Nothing
  /\ kind' = [kind EXCEPT ![t] = k]
  /\ UNCHANGED <<issued, ran, waiting, lastSwap>>

(* What the command issued next makes its thread wait for.                 *)
Awaited(k) ==
  CASE k = "void" -> Nothing
    [] k = "call" -> issued
    [] k = "swap" -> IF AsyncSwap THEN lastSwap ELSE issued

Issue(t) ==
  /\ waiting[t] = Nothing
  /\ issued < MaxSeq
  /\ issued' = issued + 1
  /\ waiting' = [waiting EXCEPT ![t] = Awaited(kind[t])]
  /\ lastSwap' = IF kind[t] = "swap" /\ AsyncSwap THEN issued ELSE lastSwap
  /\ UNCHANGED <<ran, kind>>

Run ==
  /\ Len(ran) < issued
  /\ ran' = Append(ran, Len(ran))
  /\ UNCHANGED <<issued, kind, waiting, lastSwap>>

Return(t) ==
  /\ waiting[t] # Nothing
  /\ Len(ran) > waiting[t]
  /\ waiting' = [waiting EXCEPT ![t] = Nothing]
  /\ UNCHANGED <<issued, ran, kind, lastSwap>>

Next ==
  \/ Run
  \/ \E t \in Threads :
       Issue(t) \/ Return(t) \/ \E k \in Kinds \cup {"void"} : Choose(t, k)

Spec == Init /\ [][Next]_vars

FairSpec == Spec /\ WF_vars(Run) /\ \A t \in Threads : WF_vars(Return(t))
=============================================================================
