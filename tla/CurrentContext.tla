--------------------------- MODULE CurrentContext ---------------------------
(***************************************************************************)
(* What a program expects of EGL when several of its threads draw: every   *)
(* command acts on the context and the draw surface that were current in   *)
(* its own thread when the thread issued it, in the order of issue.        *)
(***************************************************************************)
EXTENDS Sequences

CONSTANTS Threads, Bindings, None

VARIABLES current,   \* the binding of each thread
          pending,   \* the issued commands that have not run yet: the binding
                     \* each must act on, None for one that does not draw
          acted      \* the binding the last command acted on

ccVars == <<current, pending, acted>>

CCInit ==
  /\ current = [t \in Threads |-> None]
  /\ pending = <<>>
  /\ acted = None

(* eglMakeCurrent() of one thread is no business of the others.            *)
Bind(t) ==
  /\ current'[t] \in Bindings
  /\ current' = [current EXCEPT ![t] = current'[t]]
  /\ UNCHANGED <<pending, acted>>

Issue(t) ==
  /\ current[t] # None
  /\ pending' = Append(pending, current[t])
  /\ UNCHANGED <<current, acted>>

IssueOther ==
  /\ pending' = Append(pending, None)
  /\ UNCHANGED <<current, acted>>

Act ==
  /\ pending # <<>>
  /\ acted' = IF Head(pending) = None THEN acted ELSE Head(pending)
  /\ pending' = Tail(pending)
  /\ UNCHANGED current

CCNext ==
  \/ \E t \in Threads : Issue(t) \/ Bind(t)
  \/ IssueOther \/ Act

CCSpec == CCInit /\ [][CCNext]_ccVars
=============================================================================
