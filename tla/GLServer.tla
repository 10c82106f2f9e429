------------------------------ MODULE GLServer ------------------------------
(***************************************************************************)
(* What the bridge promises of GL state: every call a thread makes takes   *)
(* effect once, in the thread's current context, exactly as if the driver  *)
(* had been called directly, before the thread's next call.                *)
(***************************************************************************)
EXTENDS GLDriver

CONSTANTS Threads, Contexts

VARIABLES context,   \* the driver's state of every context
          gen, live, \* generations and names of objects
          made,      \* existing contexts
          current,   \* per thread: its context, 0 for none
          pending    \* per thread: the call it is making

vars == <<context, gen, live, made, current, pending>>

Init ==
  /\ context = [c \in Contexts |-> FreshContext]
  /\ gen = [k \in Shared |-> [n \in Names |-> 0]]
  /\ live = [k \in Kinds |-> [c \in Contexts \cup {0} |-> {}]]
  /\ made = {}
  /\ current = [t \in Threads |-> 0]
  /\ pending = [t \in Threads |-> NoCall]

Call(t, k) ==
  /\ pending[t] = NoCall /\ k # NoCall
  /\ pending' = [pending EXCEPT ![t] = k]
  /\ UNCHANGED <<context, gen, live, made, current>>

(* A name comes from the driver; it is one the context does not have.      *)
Named(k, c, n) ==
  IF Generates(k) THEN n \in Names \ live[Kind(k)][Home(Kind(k), c)] ELSE n = k.n

Effect(t, n) ==
  LET c == current[t]
      k == [pending[t] EXCEPT !.n = n]
  IN  /\ pending[t] # NoCall /\ c # 0
      /\ Named(pending[t], c, n)
      /\ context' = [context EXCEPT ![c] = Do(@, gen, k)]
      /\ live' = NamesAfter(live, k, c)
      /\ gen' = GenerationsAfter(gen, k)
      /\ pending' = [pending EXCEPT ![t] = NoCall]
      /\ UNCHANGED <<made, current>>

CreateContext(c) ==
  /\ c \notin made
  /\ made' = made \cup {c}
  /\ context' = [context EXCEPT ![c] = FreshContext]
  /\ live' = [k \in Kinds |-> IF k \in Private THEN [live[k] EXCEPT ![c] = {}]
                                               ELSE live[k]]
  /\ UNCHANGED <<gen, current, pending>>

DestroyContext(c) ==
  /\ c \in made
  /\ made' = made \ {c}
  /\ UNCHANGED <<context, gen, live, current, pending>>

MakeCurrent(t, c) ==
  /\ pending[t] = NoCall
  /\ current' = [current EXCEPT ![t] = c]
  /\ UNCHANGED <<context, gen, live, made, pending>>

Next ==
  \/ \E t \in Threads : \E n \in Names \cup {pending[t].n} : Effect(t, n)
  \/ \E t \in Threads : \E k \in {pending'[t]} : Call(t, k)
  \/ \E c \in Contexts : CreateContext(c) \/ DestroyContext(c)
  \/ \E t \in Threads, c \in Contexts \cup {0} : MakeCurrent(t, c)

Spec == Init /\ [][Next]_vars
=============================================================================
