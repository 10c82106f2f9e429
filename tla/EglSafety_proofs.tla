-------------------------- MODULE EglSafety_proofs --------------------------
(***************************************************************************)
(* What a program sees of EGL: its indices are bounded, every thread draws *)
(* on what it has made current, and cached answers are not stale.          *)
(***************************************************************************)
EXTENDS EglContexts_proofs, SequenceTheorems

LEMMA TypeStep ==
  ASSUME TypeInv, CallInv, ArgumentInv, ContextInv, SurfaceInv, LastInv, [Next]_vars
  PROVE  TypeInv'
  <1>1. CASE UNCHANGED vars
    BY <1>1 DEF TypeInv, TypeOK, vars, cacheVars, proxyVars, driverVars, appVars
  <1>2. CASE Next
    BY <1>2, CallType, ComesType, DispatchType DEF Next
  <1> QED
    BY <1>1, <1>2

LEMMA TablesStep ==
  ASSUME TypeInv, TypeInv', CallInv, ArgumentInv, ContextInv, SurfaceInv, [Next]_vars
  PROVE  ContextInv' /\ SurfaceInv'
  <1>1. CASE UNCHANGED vars
    <2>1. \A n \in Nat : n >= n
      OBVIOUS
    <2>2. made' = made /\ made.ctx \in Nat /\ made.draw \in Nat
      BY <1>1 DEF TypeInv, Binding, Objects, vars, driverVars
    <2>3. /\ \A u \in Threads : Same(u)
          /\ UNCHANGED <<egl_contexts, ctxOf, egl_surfaces, surfOf>>
      BY <1>1 DEF Same, vars, proxyVars, appVars
    <2> QED
      BY <2>1, <2>2, <2>3, ContextStable, SurfaceStable
  <1>2. CASE Next
    BY <1>2, TablesCall, TablesComes, TablesDispatch DEF Next
  <1> QED
    BY <1>1, <1>2

-----------------------------------------------------------------------------
(* The four ways in which a thread acts *)

(* It sends a command and waits, or is off to do something else.           *)
Begins(t, o, c, s) ==
  /\ o \in Calls \cup {"resize"} /\ Formed(o, c, s)
  /\ Starts(t, o, c, s) /\ Post(t, o, c, s) /\ Enter(t, o, c, s)
  /\ ctxOf' = IF o = "destroyContext" THEN [ctxOf EXCEPT ![c] = 0] ELSE ctxOf
  /\ surfOf' = IF o = "destroySurface" THEN [surfOf EXCEPT ![s] = 0] ELSE surfOf
  /\ g_stub_current_ctx' = IF o = "makeCurrent"
                             THEN [g_stub_current_ctx EXCEPT ![t] = c]
                             ELSE g_stub_current_ctx
  /\ g_surface_gen' = IF o \in {"createSurface", "destroySurface"}
                        THEN g_surface_gen + 1 ELSE g_surface_gen
  /\ age_cache' = IF o = "destroySurface" THEN [age_cache EXCEPT !.swaps = 0]
                                          ELSE age_cache
  /\ UNCHANGED <<last, app, floor, answer, qs_cache, g_swap_count>>

(* It sends a command and goes on.                                         *)
Sends(t, o, s) ==
  /\ o \in {"gl", "swap"} /\ Formed(o, 0, s)
  /\ Starts(t, o, 0, s) /\ Post(t, o, 0, s)
  /\ g_swap_count' = IF o = "swap" THEN g_swap_count + 1 ELSE g_swap_count
  /\ floor' = IF o = "swap" THEN [floor EXCEPT !.swaps[s] = @ + 1] ELSE floor
  /\ UNCHANGED <<last, app, call, answer, ctxOf, surfOf, g_stub_current_ctx,
                 g_surface_gen, qs_cache, age_cache>>

LEMMA CallForm ==
  ASSUME NEW t \in Threads, Call(t)
  PROVE  /\ UNCHANGED <<last, proxyVars, driverVars, acted>>
         /\ \/ \E o, c, s : Begins(t, o, c, s)
            \/ \E o, s : Sends(t, o, s)
            \/ \E s \in Surf, o \in Queries : QueryHit(t, o, s)
            \/ \E c \in Ctx \cup {0}, s \in Surf \cup {0} : MakeCurrentAgain(t, c, s)
  <1> DEFINE Goal == /\ UNCHANGED <<last, proxyVars, driverVars, acted>>
                     /\ \/ \E o, c, s : Begins(t, o, c, s)
                        \/ \E o, s : Sends(t, o, s)
                        \/ \E s \in Surf, o \in Queries : QueryHit(t, o, s)
                        \/ \E c \in Ctx \cup {0}, s \in Surf \cup {0} :
                             MakeCurrentAgain(t, c, s)
  <1>0. /\ \A i \in Ctx : i \in Handle /\ i # 0
        /\ \A i \in Surf : i \in Argument /\ i # 0
        /\ 0 \in Handle /\ 0 \in Argument /\ Windows \subseteq Argument
        /\ Surf \cup {0} \subseteq Argument /\ Ctx \cup {0} \subseteq Handle
    BY DEF Handle, Argument, Ctx, Surf
  <1>1. ASSUME NEW o \in Plain, PlainCall(t, o) PROVE Goal
    <2>1. o \in Calls /\ Formed(o, 0, 0)
          /\ o \notin {"destroyContext", "destroySurface", "makeCurrent", "createSurface"}
      BY <1>0 DEF Formed, Plain, Calls, Queries
    <2>2. Begins(t, o, 0, 0)
      BY <1>1, <2>1 DEF PlainCall, Begins, appVars, cacheVars
    <2> QED
      BY <1>1, <2>2 DEF PlainCall
  <1>2. ASSUME NEW c \in Ctx, DestroyContext(t, c) PROVE Goal
    <2>1. "destroyContext" \in Calls /\ Formed("destroyContext", c, 0)
      BY <1>0 DEF Formed, Calls, Queries
    <2>2. Begins(t, "destroyContext", c, 0)
      BY <1>2, <2>1 DEF DestroyContext, Begins, cacheVars
    <2> QED
      BY <1>2, <2>2 DEF DestroyContext
  <1>3. ASSUME NEW w \in Windows, CreateWindowSurface(t, w) PROVE Goal
    <2>1. "createSurface" \in Calls /\ Formed("createSurface", 0, w)
      BY <1>0 DEF Formed, Calls, Queries
    <2>2. Begins(t, "createSurface", 0, w)
      BY <1>3, <2>1 DEF CreateWindowSurface, Begins, appVars
    <2> QED
      BY <1>3, <2>2 DEF CreateWindowSurface
  <1>4. ASSUME NEW w \in Windows, Resize(t, w) PROVE Goal
    <2>1. Formed("resize", 0, w)
      BY <1>0 DEF Formed, Queries
    <2>2. Begins(t, "resize", 0, w)
      BY <1>4, <2>1 DEF Resize, Begins, appVars, cacheVars
    <2> QED
      BY <1>4, <2>2 DEF Resize
  <1>5. ASSUME NEW s \in Surf, DestroySurface(t, s) PROVE Goal
    <2>1. "destroySurface" \in Calls /\ Formed("destroySurface", 0, s)
      BY <1>0 DEF Formed, Calls, Queries
    <2>2. Begins(t, "destroySurface", 0, s)
      BY <1>5, <2>1 DEF DestroySurface, Begins
    <2> QED
      BY <1>5, <2>2 DEF DestroySurface
  <1>6. ASSUME NEW s \in Surf, SwapBuffers(t, s) PROVE Goal
    <2>1. Formed("swap", 0, s)
      BY <1>0 DEF Formed, Queries
    <2>2. Sends(t, "swap", s)
      BY <1>6, <2>1 DEF SwapBuffers, Sends
    <2> QED
      BY <1>6, <2>2 DEF SwapBuffers
  <1>7. ASSUME NEW s \in Surf, NEW o \in Queries, QueryHit(t, o, s) PROVE Goal
    BY <1>7 DEF QueryHit
  <1>8. ASSUME NEW s \in Surf, NEW o \in Queries, QueryMiss(t, o, s) PROVE Goal
    <2>1. o \in Calls /\ Formed(o, 0, s)
          /\ o \notin {"destroyContext", "destroySurface", "makeCurrent", "createSurface"}
      BY <1>0 DEF Formed, Calls, Queries
    <2>2. Begins(t, o, 0, s)
      BY <1>8, <2>1 DEF QueryMiss, Begins, appVars, cacheVars
    <2> QED
      BY <1>8, <2>2 DEF QueryMiss
  <1>9. ASSUME NEW c \in Ctx \cup {0}, NEW s \in Surf \cup {0}, MakeCurrentAgain(t, c, s)
        PROVE  Goal
    BY <1>9 DEF MakeCurrentAgain
  <1>10. ASSUME NEW c \in Ctx \cup {0}, NEW s \in Surf \cup {0}, MakeCurrent(t, c, s)
         PROVE  Goal
    <2>1. Sensible(t, "makeCurrent", c, s)
      BY <1>10 DEF MakeCurrent, Starts
    <2>2. c = 0 => s = 0
      BY <2>1, Meant
    <2>3. "makeCurrent" \in Calls /\ Formed("makeCurrent", c, s)
      BY <1>0, <2>2 DEF Formed, Calls, Queries
    <2>4. Begins(t, "makeCurrent", c, s)
      BY <1>10, <2>3 DEF MakeCurrent, Begins, appVars, cacheVars
    <2> QED
      BY <1>10, <2>4 DEF MakeCurrent
  <1>11. CASE GLCommand(t)
    <2>1. Formed("gl", 0, 0)
      BY <1>0 DEF Formed, Queries
    <2>2. Sends(t, "gl", 0)
      BY <1>11, <2>1 DEF GLCommand, Sends, appVars, cacheVars
    <2> QED
      BY <1>11, <2>2 DEF GLCommand
  <1> QED
    BY <1>1, <1>2, <1>3, <1>4, <1>5, <1>6, <1>7, <1>8, <1>9, <1>10, <1>11 DEF Call

(* What a thread that begins a call leaves alone.                          *)
LEMMA BeginFacts ==
  ASSUME TypeInv, CallInv, NEW t \in Threads, NEW o, NEW c, NEW s, Begins(t, o, c, s)
  PROVE  /\ \A u \in Threads : u # t => call'[u] = call[u]
         /\ call'[t].op = o /\ call'[t].c = c /\ call'[t].s = s
         /\ call[t] = Idle /\ call[t].op = "idle" /\ answer[t] = NoAnswer
         /\ answer' = answer
  BY IdleFacts DEF TypeInv, Begins, Enter, Starts

-----------------------------------------------------------------------------
(* How many contexts there are *)

Owned == {c \in Ctx : ctxOf[c] # 0}
Makers == {t \in Threads : call[t].op = "createContext"}

LEMMA CountFacts ==
  ASSUME NEW S \in SUBSET Ctx, NEW M \in SUBSET Threads
  PROVE  /\ IsFiniteSet(S) /\ IsFiniteSet(M)
         /\ Cardinality(S) \in Nat /\ Cardinality(M) \in Nat
  <1>1. IsFiniteSet(Threads) /\ IsFiniteSet(Ctx)
    BY EglAssumption, FS_Interval DEF Ctx
  <1>2. IsFiniteSet(S) /\ IsFiniteSet(M)
    BY <1>1, FS_Subset
  <1> QED
    BY <1>2, FS_CardinalityType

LEMMA LiveFacts ==
  /\ Live = Cardinality(Owned) + Cardinality(Makers)
  /\ IsFiniteSet(Owned) /\ IsFiniteSet(Makers)
  /\ Cardinality(Owned) \in Nat /\ Cardinality(Makers) \in Nat
  <1>1. Owned \in SUBSET Ctx /\ Makers \in SUBSET Threads
    BY DEF Owned, Makers
  <1> QED
    BY <1>1, CountFacts DEF Live, Owned, Makers

(* The index TABLE_ALLOC() finds for a thread that creates a context.      *)
LEMMA EntryBound ==
  ASSUME TypeInv, CallInv, ContextInv, LimitInv, NEW t \in Threads,
         Waits(t), call[t].op = "createContext",
         NEW i \in Ctx, \A j \in Ctx : j < i => egl_contexts[j] # 0
  PROVE  i <= MaxLive
  <1> DEFINE Below == 1 .. (i - 1)
             A == Below \cap Owned
             B == Below \ Owned
             G == {u \in Threads : Given(u, "createContext") /\ answer[u].of \in B}
             f == [u \in G |-> answer[u].of]
  <1>1. i \in Nat /\ i >= 1 /\ Below \subseteq Ctx /\ \A j \in Below : j < i
    BY EglAssumption DEF Ctx
  <1>2. \A u \in Threads : ~Frees(u, "destroyContext")
    <2> SUFFICES ASSUME NEW u \in Threads, Frees(u, "destroyContext") PROVE FALSE
      OBVIOUS
    <2>1. Waits(u) /\ call[u].op = "destroyContext"
      BY DEF Frees, Waits, Answered, Calls
    <2> QED
      BY <2>1 DEF CallInv
  <1>3. \A j \in B : \E u \in G : f[u] = j
    <2> SUFFICES ASSUME NEW j \in B PROVE \E u \in G : f[u] = j
      OBVIOUS
    <2>1. j \in Ctx /\ egl_contexts[j] # 0 /\ ctxOf[j] = 0
      BY <1>1 DEF Owned
    <2>2. \E u \in Threads : Given(u, "createContext") /\ answer[u].of = j
      BY <1>2, <2>1 DEF LimitInv
    <2> QED
      BY <2>2
  <1>4. f \in Surjection(G, B)
    BY <1>3 DEF Surjection
  <1>5. G \in SUBSET (Makers \ {t})
    BY DEF Given, Waits, Makers, NoAnswer
  <1>6. t \in Makers
    BY DEF Makers
  <1>7. /\ IsFiniteSet(Makers \ {t})
        /\ Cardinality(Makers \ {t}) = Cardinality(Makers) - 1
    BY <1>6, LiveFacts, FS_RemoveElement
  <1>8. IsFiniteSet(G) /\ Cardinality(G) <= Cardinality(Makers) - 1
    BY <1>5, <1>7, FS_Subset
  <1>9. IsFiniteSet(B) /\ Cardinality(B) <= Cardinality(G)
    BY <1>4, <1>8, FS_Surjection
  <1>10. IsFiniteSet(A) /\ Cardinality(A) <= Cardinality(Owned)
    <2>1. A \in SUBSET Owned
      OBVIOUS
    <2> QED
      BY <2>1, LiveFacts, FS_Subset
  <1>11. Cardinality(A \cup B) = Cardinality(A) + Cardinality(B) - Cardinality(A \cap B)
    BY <1>9, <1>10, FS_Union
  <1>12. A \cup B = Below /\ A \cap B = {}
    OBVIOUS
  <1>13. Cardinality(Below) = i - 1 /\ Cardinality({}) = 0
    <2>1. 1 \in Int /\ i - 1 \in Int /\ (1 > i - 1 => i - 1 = 0)
      BY <1>1
    <2>2. Cardinality(Below) = IF 1 > i - 1 THEN 0 ELSE (i - 1) - 1 + 1
      BY <2>1, FS_Interval
    <2> QED
      BY <1>1, <2>1, <2>2, FS_EmptySet
  <1>14. Cardinality(A) \in Nat /\ Cardinality(B) \in Nat /\ Cardinality(G) \in Nat
    BY <1>8, <1>9, <1>10, FS_CardinalityType
  <1>15. Cardinality(Owned) + Cardinality(Makers) <= MaxLive /\ MaxLive \in Nat
    BY LiveFacts, EglAssumption DEF LimitInv
  <1> HIDE DEF Below, A, B, G
  <1>16. i - 1 = Cardinality(A) + Cardinality(B)
    <2>1. Cardinality(Below) = Cardinality(A) + Cardinality(B) - Cardinality({})
      BY <1>11, <1>12
    <2> QED
      BY <1>1, <1>13, <1>14, <2>1
  <1> QED
    BY <1>1, <1>8, <1>9, <1>10, <1>14, <1>15, <1>16, LiveFacts

LEMMA LiveStep ==
  ASSUME TypeInv, CallInv, LimitInv, [Next]_vars
  PROVE  (Live <= MaxLive)'
  <1>1. /\ Live = Cardinality(Owned) + Cardinality(Makers)
        /\ Live' = Cardinality(Owned') + Cardinality(Makers')
        /\ Live <= MaxLive /\ MaxLive \in Nat
    BY EglAssumption DEF Live, Owned, Makers, LimitInv
  <1>2. /\ Owned \in SUBSET Ctx /\ Makers \in SUBSET Threads
        /\ Owned' \in SUBSET Ctx /\ Makers' \in SUBSET Threads
    BY DEF Owned, Makers
  <1>3. /\ IsFiniteSet(Owned) /\ IsFiniteSet(Makers)
        /\ Cardinality(Owned) \in Nat /\ Cardinality(Makers) \in Nat
        /\ Cardinality(Owned') \in Nat /\ Cardinality(Makers') \in Nat
    BY <1>2, CountFacts
  <1>4. ASSUME Owned' \subseteq Owned, Makers' \subseteq Makers
        PROVE  (Live <= MaxLive)'
    <2>1. /\ Cardinality(Owned') <= Cardinality(Owned)
          /\ Cardinality(Makers') <= Cardinality(Makers)
      BY <1>3, <1>4, FS_Subset
    <2> QED
      BY <1>1, <1>3, <2>1
  <1>5. ASSUME UNCHANGED <<ctxOf, call>> PROVE (Live <= MaxLive)'
    BY <1>1, <1>5 DEF Owned, Makers
  <1>6. ASSUME NEW t \in Threads, Call(t) PROVE (Live <= MaxLive)'
    <2>1. ASSUME NEW o, NEW c, NEW s, Begins(t, o, c, s) PROVE (Live <= MaxLive)'
      <3>1. /\ \A u \in Threads : u # t => call'[u] = call[u]
            /\ call'[t].op = o
        BY <2>1, BeginFacts
      <3>2. Owned' \subseteq Owned
        BY <2>1 DEF Begins, Owned, TypeInv, TypeOK
      <3>3. CASE o # "createContext"
        <4>1. Makers' \subseteq Makers
          BY <3>1, <3>3 DEF Makers
        <4> QED
          BY <1>4, <3>2, <4>1
      <3>4. CASE o = "createContext"
        <4>1. Live < MaxLive
          BY <2>1, <3>4, Meant DEF Begins, Starts
        <4>2. Makers' \subseteq Makers \cup {t}
          BY <3>1 DEF Makers
        <4>3. /\ Cardinality(Makers') <= Cardinality(Makers \cup {t})
              /\ Cardinality(Makers \cup {t}) <= Cardinality(Makers) + 1
              /\ Cardinality(Makers \cup {t}) \in Nat
          <5>1. /\ IsFiniteSet(Makers \cup {t})
                /\ Cardinality(Makers \cup {t})
                     = IF t \in Makers THEN Cardinality(Makers) ELSE Cardinality(Makers) + 1
            BY <1>3, FS_AddElement
          <5> QED
            BY <1>3, <4>2, <5>1, FS_Subset
        <4>4. Owned' = Owned
          BY <2>1, <3>4 DEF Begins, Owned
        <4> QED
          BY <1>1, <1>3, <4>1, <4>3, <4>4
      <3> QED
        BY <3>3, <3>4
    <2>2. ASSUME NEW o, NEW s, Sends(t, o, s) PROVE (Live <= MaxLive)'
      BY <1>5, <2>2 DEF Sends
    <2>3. ASSUME NEW s \in Surf, NEW o \in Queries, QueryHit(t, o, s)
          PROVE  (Live <= MaxLive)'
      <3>1. ctxOf' = ctxOf /\ call'[t].op = o
            /\ \A u \in Threads : u # t => call'[u] = call[u]
        BY <2>3 DEF QueryHit, appVars, Enter, TypeInv
      <3>2. o # "createContext"
        BY DEF Queries
      <3> QED
        BY <1>4, <3>1, <3>2 DEF Owned, Makers
    <2>4. ASSUME NEW c, NEW s, MakeCurrentAgain(t, c, s) PROVE (Live <= MaxLive)'
      BY <1>5, <2>4 DEF MakeCurrentAgain
    <2> QED
      BY <1>6, <2>1, <2>2, <2>3, <2>4, CallForm
  <1>7. ASSUME NEW t \in Threads, Comes(t) PROVE (Live <= MaxLive)'
    <2>1. call' = [call EXCEPT ![t] = Idle] /\ Idle.op = "idle"
      BY <1>7, ComesFacts DEF Idle
    <2>2. Makers' = Makers \ {t}
      BY <2>1 DEF Makers, TypeInv
    <2>3. CASE ctxOf' = ctxOf
      BY <1>4, <2>2, <2>3 DEF Owned
    <2>4. CASE ctxOf' # ctxOf
      <3>1. /\ call[t].op = "createContext"
            /\ \E i, n : ctxOf' = [ctxOf EXCEPT ![i] = n]
        BY <1>7, <2>4 DEF Comes, Resized, ReturnQuery, ReturnCreate, ReturnMakeCurrent,
           ReturnPlain, Back, appVars
      <3>2. PICK i : \A j \in Ctx : j # i => ctxOf'[j] = ctxOf[j]
        BY <3>1 DEF TypeInv, TypeOK
      <3>3. Owned' \subseteq Owned \cup {i}
        BY <3>2 DEF Owned
      <3>4. /\ Cardinality(Owned') <= Cardinality(Owned \cup {i})
            /\ Cardinality(Owned \cup {i}) <= Cardinality(Owned) + 1
            /\ Cardinality(Owned \cup {i}) \in Nat
        <4>1. /\ IsFiniteSet(Owned \cup {i})
              /\ Cardinality(Owned \cup {i})
                   = IF i \in Owned THEN Cardinality(Owned) ELSE Cardinality(Owned) + 1
          BY <1>3, FS_AddElement
        <4> QED
          BY <1>3, <3>3, <4>1, FS_Subset
      <3>5. t \in Makers
        BY <3>1 DEF Makers
      <3>6. Cardinality(Makers') = Cardinality(Makers) - 1
        BY <1>3, <2>2, <3>5, FS_RemoveElement
      <3> QED
        BY <1>1, <1>3, <3>4, <3>6
    <2> QED
      BY <2>3, <2>4
  <1>8. CASE Dispatch
    BY <1>5, <1>8 DEF Dispatch, appVars
  <1>9. CASE UNCHANGED vars
    BY <1>5, <1>9 DEF vars, appVars
  <1> QED
    BY <1>6, <1>7, <1>8, <1>9 DEF Next

(* Nothing but a grant fills an entry; what it stands for is never lost.   *)
LEMMA LimitStep ==
  ASSUME TypeInv, TypeInv', CallInv, ArgumentInv, ContextInv, LimitInv, [Next]_vars
  PROVE  LimitInv'
  <1> DEFINE Explained(i) ==
        \/ ctxOf[i] # 0
        \/ \E t \in Threads : Given(t, "createContext") /\ answer[t].of = i
        \/ \E t \in Threads : Frees(t, "destroyContext") /\ call[t].c = i
  <1>1. (Live <= MaxLive)'
    BY LiveStep
  <1>2. \A i \in Ctx : egl_contexts[i] # 0 => Explained(i) /\ i <= MaxLive
    BY DEF LimitInv
  <1>3. ASSUME \A i \in Ctx : egl_contexts'[i] # 0 => Explained(i)' /\ i <= MaxLive
        PROVE  LimitInv'
    BY <1>1, <1>3 DEF LimitInv
  <1>4. ASSUME NEW t \in Threads, UNCHANGED egl_contexts,
               \A u \in Threads : u # t => Same(u),
               ~Given(t, "createContext") \/ ctxOf'[answer[t].of] # 0,
               ~Frees(t, "destroyContext"),
               \A i \in Ctx : ctxOf[i] # 0 /\ ctxOf'[i] = 0 =>
                  Frees(t, "destroyContext")' /\ call'[t].c = i
        PROVE  LimitInv'
    <2>1. \A u \in Threads : Same(u) =>
            /\ Given(u, "createContext")' <=> Given(u, "createContext")
            /\ Frees(u, "destroyContext")' <=> Frees(u, "destroyContext")
            /\ answer'[u].of = answer[u].of /\ call'[u].c = call[u].c
      BY DEF Same, Given, Frees, Answered
    <2>2. \A i \in Ctx : Explained(i) => Explained(i)'
      BY <1>4, <2>1
    <2> HIDE DEF Explained
    <2> QED
      BY <1>2, <1>3, <1>4, <2>2
  <1>5. ASSUME UNCHANGED <<egl_contexts, ctxOf, call, answer>> PROVE LimitInv'
    BY <1>1, <1>5 DEF LimitInv, Given, Frees, Answered
  <1>6. ASSUME NEW t \in Threads, Call(t) PROVE LimitInv'
    <2>1. UNCHANGED egl_contexts
      BY <1>6, CallForm DEF proxyVars
    <2>2. ASSUME NEW o, NEW c, NEW s, Begins(t, o, c, s) PROVE LimitInv'
      <3>1. /\ \A u \in Threads : u # t => Same(u)
            /\ call'[t].op = o /\ call'[t].c = c /\ answer' = answer
            /\ ~Given(t, "createContext") /\ ~Frees(t, "destroyContext")
            /\ answer[t] = NoAnswer
        BY <2>2, BeginFacts DEF Same, Given, Frees
      <3>2. \A i \in Ctx : ctxOf[i] # 0 /\ ctxOf'[i] = 0 =>
              o = "destroyContext" /\ i = c
        BY <2>2 DEF Begins, TypeInv, TypeOK
      <3>3. \A i \in Ctx : ctxOf[i] # 0 /\ ctxOf'[i] = 0 =>
              Frees(t, "destroyContext")' /\ call'[t].c = i
        BY <3>1, <3>2 DEF Frees, Answered
      <3> QED
        BY <1>4, <2>1, <3>1, <3>3
    <2>3. ASSUME NEW o, NEW s, Sends(t, o, s) PROVE LimitInv'
      BY <1>5, <2>1, <2>3 DEF Sends
    <2>4. ASSUME NEW s \in Surf, NEW o \in Queries, QueryHit(t, o, s) PROVE LimitInv'
      <3>1. /\ ctxOf' = ctxOf /\ call[t] = Idle
            /\ \A u \in Threads : u # t => Same(u)
        BY <2>4 DEF QueryHit, appVars, Starts, Enter, TypeInv, Same
      <3>2. ~Given(t, "createContext") /\ ~Frees(t, "destroyContext")
        BY <3>1, IdleFacts DEF Given, Frees
      <3> QED
        BY <1>4, <2>1, <3>1, <3>2
    <2>5. ASSUME NEW c, NEW s, MakeCurrentAgain(t, c, s) PROVE LimitInv'
      BY <1>5, <2>1, <2>5 DEF MakeCurrentAgain
    <2> QED
      BY <1>6, <2>2, <2>3, <2>4, <2>5, CallForm
  <1>7. ASSUME NEW t \in Threads, Comes(t) PROVE LimitInv'
    <2>1. /\ call' = [call EXCEPT ![t] = Idle] /\ answer' = [answer EXCEPT ![t] = NoAnswer]
          /\ UNCHANGED egl_contexts
      BY <1>7, ComesFacts DEF proxyVars
    <2>2. \A u \in Threads : u # t => Same(u)
      BY <2>1, EndFacts
    <2>3. ~Frees(t, "destroyContext")
      BY <1>7 DEF Comes, Resized, ReturnQuery, ReturnCreate, ReturnMakeCurrent,
         ReturnPlain, Back, Frees, Answered
    <2>4. CASE Given(t, "createContext")
      <3>1. /\ ctxOf' = [ctxOf EXCEPT ![answer[t].of] = answer[t].n]
        BY <1>7, <2>4 DEF Comes, Resized, ReturnQuery, ReturnCreate, ReturnMakeCurrent,
           ReturnPlain, Back, Given, Queries, Leaves
      <3>2. answer[t].of \in Ctx /\ answer[t].n # 0
        BY <2>4 DEF ContextInv, TableInv, TypeInv, TypeOK
      <3>3. ctxOf'[answer[t].of] # 0
        BY <3>1, <3>2 DEF TypeInv, TypeOK
      <3>4. \A i \in Ctx : ctxOf[i] # 0 => ctxOf'[i] # 0
        BY <3>1, <3>2 DEF TypeInv, TypeOK
      <3> QED
        BY <1>4, <2>1, <2>2, <2>3, <3>3, <3>4
    <2>5. CASE ~Given(t, "createContext")
      <3>1. UNCHANGED ctxOf
        BY <1>7, <2>5 DEF Comes, Resized, ReturnQuery, ReturnCreate, ReturnMakeCurrent,
           ReturnPlain, Back, Given, appVars
      <3> QED
        BY <1>4, <2>1, <2>2, <2>3, <2>5, <3>1
    <2> QED
      BY <2>4, <2>5
  <1>8. CASE Dispatch
    <2>1. /\ ring # <<>> /\ call' = call /\ ctxOf' = ctxOf
          /\ \E m \in Command, t \in Threads :
               /\ m = Front /\ m.t = t
               /\ (m.op \in Calls => Carries(m))
      BY <1>8, FrontFacts DEF Dispatch, appVars, CallInv
    <2>4. PICK m \in Command, t \in Threads :
            m = Front /\ m.t = t /\ (m.op \in Calls => Carries(m))
      BY <2>1
    <2>2. CASE m.op \notin Calls
      <3>1. UNCHANGED <<answer, egl_contexts>>
        BY <1>8, <2>1, <2>4, <2>2, DispatchFacts DEF RunPost
      <3> QED
        BY <1>5, <2>1, <3>1
    <2>3. CASE m.op \in Calls
      <3>1. call[t].op = m.op /\ call[t].c = m.c /\ ~Answered(t) /\ Waits(t)
        BY <2>1, <2>4, <2>3 DEF Carries, Waits, Answered
      <3>2. \A u \in Threads : u # t => Same(u)
        <4>1. \E a : Reply(m, a) /\ a # NoAnswer
          BY <1>8, <2>1, <2>4, <2>3, DispatchFacts DEF Posts, Calls
        <4> QED
          BY <2>1, <2>4, <4>1, ReplyFacts DEF Reply
      <3>3. ~Given(t, "createContext")
        BY <3>1 DEF Given, Answered, NoAnswer
      <3>4. ASSUME NEW i \in Ctx, Explained(i),
                   m.op # "destroyContext" \/ m.c # i
            PROVE  Explained(i)'
        <4>1. \A u \in Threads : u # t =>
                /\ Given(u, "createContext")' <=> Given(u, "createContext")
                /\ Frees(u, "destroyContext")' <=> Frees(u, "destroyContext")
                /\ answer'[u].of = answer[u].of /\ call'[u].c = call[u].c
          BY <3>2 DEF Same, Given, Frees, Answered
        <4>2. ~(Frees(t, "destroyContext") /\ call[t].c = i)
          BY <3>1, <3>4 DEF Frees
        <4> QED
          BY <2>1, <2>4, <3>3, <3>4, <4>1, <4>2
      <3>5. ASSUME UNCHANGED egl_contexts, m.op # "destroyContext" PROVE LimitInv'
        <4> HIDE DEF Explained
        <4> QED
          BY <1>2, <1>3, <3>4, <3>5
      <3>6. ASSUME NEW granted \in BOOLEAN, RunCreateContext(m, granted) PROVE LimitInv'
        <4> DEFINE new == TableAlloc(egl_contexts)
        <4>1. m.op = "createContext"
          BY <3>6 DEF RunCreateContext
        <4>2. CASE UNCHANGED egl_contexts
          BY <3>5, <4>1, <4>2
        <4>3. CASE ~UNCHANGED egl_contexts
          <5>0. /\ new # 0 /\ egl_contexts' = [egl_contexts EXCEPT ![new] = made.ctx + 1]
                /\ Reply(m, Answer(new # 0, new, made.ctx + 1))
            BY <3>6, <4>3 DEF RunCreateContext
          <5>2. new \in Ctx /\ \A j \in Ctx : j < new => egl_contexts[j] # 0
            BY <5>0, TableDomain
          <5> HIDE DEF new
          <5>1. PICK i \in Ctx :
                  /\ i # 0 /\ egl_contexts' = [egl_contexts EXCEPT ![i] = made.ctx + 1]
                  /\ Reply(m, Answer(TRUE, i, made.ctx + 1))
                  /\ \A j \in Ctx : j < i => egl_contexts[j] # 0
            BY <5>0, <5>2
          <5>3. i <= MaxLive
            BY <2>1, <2>4, <3>1, <4>1, <5>1, EntryBound
          <5>4. Explained(i)'
            <6>1. answer'[t] = Answer(TRUE, i, made.ctx + 1)
              BY <2>1, <2>4, <5>1 DEF Reply, TypeInv
            <6>2. Given(t, "createContext")' /\ answer'[t].of = i
              BY <2>1, <2>4, <3>1, <4>1, <6>1 DEF Given, Answer
            <6> QED
              BY <2>1, <2>4, <6>2
          <5>5. \A j \in Ctx : j # i => egl_contexts'[j] = egl_contexts[j]
            BY <5>1 DEF TypeInv, TypeOK
          <5> HIDE DEF Explained
          <5>6. ASSUME NEW j \in Ctx, egl_contexts'[j] # 0 PROVE Explained(j)' /\ j <= MaxLive
            <6>1. CASE j = i
              BY <5>3, <5>4, <6>1
            <6>2. CASE j # i
              BY <1>2, <3>4, <4>1, <5>5, <5>6, <6>2
            <6> QED
              BY <6>1, <6>2
          <5> QED
            BY <1>3, <5>6
        <4> QED
          BY <4>2, <4>3
      <3>7. CASE RunDestroyContext(m)
        <4>1. egl_contexts' = [egl_contexts EXCEPT ![m.c] = 0]
          BY <3>7 DEF RunDestroyContext
        <4>2. \A j \in Ctx : egl_contexts'[j] # 0 => egl_contexts[j] # 0 /\ j # m.c
          BY <4>1 DEF TypeInv, TypeOK
        <4> HIDE DEF Explained
        <4> QED
          BY <1>2, <1>3, <3>4, <4>2
      <3>8. ASSUME NEW granted \in BOOLEAN,
                   RunCreateSurface(m, granted) \/ RunMakeCurrent(m, granted)
            PROVE  LimitInv'
        BY <3>5, <3>8 DEF RunCreateSurface, RunMakeCurrent
      <3>9. CASE RunDestroySurface(m) \/ RunReleaseThread(m)
        BY <3>5, <3>9 DEF RunDestroySurface, RunReleaseThread
      <3>10. CASE RunAsk(m)
        <4>1. m.op # "destroyContext" /\ UNCHANGED egl_contexts
          BY <3>10 DEF RunAsk
        <4> QED
          BY <3>5, <4>1
      <3>11. ~RunPost(m)
        BY <2>3 DEF RunPost, Posts, Calls
      <3> QED
        BY <1>8, <2>1, <2>4, <3>6, <3>7, <3>8, <3>9, <3>10, <3>11 DEF Dispatch, Front
    <2> QED
      BY <2>2, <2>3
  <1>9. CASE UNCHANGED vars
    BY <1>5, <1>9 DEF vars, proxyVars, appVars
  <1> QED
    BY <1>6, <1>7, <1>8, <1>9 DEF Next

-----------------------------------------------------------------------------
(* Handles in use are left alone *)

Spared(u) ==
  /\ \A c \in Ctx : ctxOf[c] # 0 /\ ctxOf'[c] # ctxOf[c] => ~Uses(u, c, 0)
  /\ \A s \in Surf : surfOf[s] # 0 /\ surfOf'[s] # surfOf[s] => ~Uses(u, 0, s)

LEMMA ReturnedHandle ==
  ASSUME TypeInv, ContextInv, SurfaceInv, NEW t \in Threads, Comes(t)
  PROVE  /\ \A c \in Ctx : ctxOf[c] # 0 => ctxOf'[c] = ctxOf[c]
         /\ \A s \in Surf : surfOf[s] # 0 => surfOf'[s] = surfOf[s]
  <1>1. CASE UNCHANGED <<ctxOf, surfOf>>
    BY <1>1
  <1>2. CASE ~UNCHANGED <<ctxOf, surfOf>>
    <2>1. \/ /\ Given(t, "createContext") /\ UNCHANGED surfOf
             /\ ctxOf' = [ctxOf EXCEPT ![answer[t].of] = answer[t].n]
          \/ /\ Given(t, "createSurface") /\ UNCHANGED ctxOf
             /\ surfOf' = [surfOf EXCEPT ![answer[t].of] = answer[t].n]
      BY <1>2 DEF Comes, Resized, ReturnQuery, ReturnCreate, ReturnMakeCurrent,
         ReturnPlain, Back, Given, appVars
    <2>2. CASE Given(t, "createContext") /\ UNCHANGED surfOf
      <3>1. ctxOf[answer[t].of] = 0
        BY <2>2 DEF ContextInv, TableInv
      <3> QED
        BY <2>1, <2>2, <3>1 DEF TypeInv, TypeOK, Given
    <2>3. CASE Given(t, "createSurface") /\ UNCHANGED ctxOf
      <3>1. surfOf[answer[t].of] = 0
        BY <2>3 DEF SurfaceInv, TableInv
      <3> QED
        BY <2>1, <2>3, <3>1 DEF TypeInv, TypeOK, Given
    <2> QED
      BY <2>1, <2>2, <2>3
  <1> QED
    BY <1>1, <1>2

LEMMA SparedAll ==
  ASSUME TypeInv, ContextInv, SurfaceInv, [Next]_vars
  PROVE  \A u \in Threads : Spared(u)
  <1>1. CASE UNCHANGED <<ctxOf, surfOf>>
    BY <1>1 DEF Spared
  <1>2. ASSUME NEW t \in Threads, Comes(t) PROVE \A u \in Threads : Spared(u)
    BY <1>2, ReturnedHandle DEF Spared
  <1>3. ASSUME NEW t \in Threads, Call(t) PROVE \A u \in Threads : Spared(u)
    <2>1. ASSUME NEW o, NEW c, NEW s, Begins(t, o, c, s)
          PROVE  \A u \in Threads : Spared(u)
      <3>1. CASE o = "destroyContext"
        <4>1. ~InUse(c, 0)
          BY <2>1, <3>1, Meant DEF Begins, Starts
        <4>2. /\ surfOf' = surfOf
              /\ \A d \in Ctx : d # c => ctxOf'[d] = ctxOf[d]
          BY <2>1, <3>1 DEF Begins, TypeInv, TypeOK
        <4> QED
          BY <4>1, <4>2 DEF Spared, InUse
      <3>2. CASE o = "destroySurface"
        <4>1. ~InUse(0, s)
          BY <2>1, <3>2, Meant DEF Begins, Starts
        <4>2. /\ ctxOf' = ctxOf
              /\ \A d \in Surf : d # s => surfOf'[d] = surfOf[d]
          BY <2>1, <3>2 DEF Begins, TypeInv, TypeOK
        <4> QED
          BY <4>1, <4>2 DEF Spared, InUse
      <3> QED
        BY <1>1, <2>1, <3>1, <3>2 DEF Begins
    <2>2. (\E o, s : Sends(t, o, s)) => UNCHANGED <<ctxOf, surfOf>>
      BY DEF Sends
    <2>3. (\E s \in Surf, o \in Queries : QueryHit(t, o, s)) => UNCHANGED <<ctxOf, surfOf>>
      BY DEF QueryHit, appVars
    <2>4. (\E c \in Ctx \cup {0}, s \in Surf \cup {0} : MakeCurrentAgain(t, c, s))
            => UNCHANGED <<ctxOf, surfOf>>
      BY DEF MakeCurrentAgain
    <2> QED
      BY <1>1, <1>3, <2>1, <2>2, <2>3, <2>4, CallForm
  <1>4. CASE Dispatch
    BY <1>1, <1>4 DEF Dispatch, appVars
  <1>5. CASE UNCHANGED vars
    BY <1>1, <1>5 DEF vars, appVars
  <1> QED
    BY <1>2, <1>3, <1>4, <1>5 DEF Next

(* What a thread has bound, or is about to, stays what it is.              *)
LEMMA BoundStable ==
  ASSUME TypeInv, LastInv, NEW u \in Threads, Spared(u),
         NEW c \in Handle, NEW s \in Surf \cup {0},
         \/ last[u] = <<c, s>>
         \/ Binds(u) /\ call[u].c = c /\ call[u].s = s
  PROVE  /\ Exists(c, s) /\ Exists(c, s)' /\ Bound(c, s)' = Bound(c, s)
         /\ c # 0 => ctxOf'[c] = ctxOf[c] /\ ctxOf[c] # 0
         /\ s # 0 => surfOf'[s] = surfOf[s] /\ surfOf[s] # 0
  <1>1. Exists(c, s)
    <2>1. CASE last[u] = <<c, s>>
      BY <2>1 DEF LastInv, LastOf
    <2>2. CASE Binds(u) /\ call[u].c = c /\ call[u].s = s
      BY <2>2 DEF LastInv, LastOf
    <2> QED
      BY <2>1, <2>2
  <1>2. (c # 0 => Uses(u, c, 0)) /\ (s # 0 => Uses(u, 0, s))
    <2>1. CASE last[u] = <<c, s>>
      <3>1. app[u] = Bound(c, s)
        BY <2>1 DEF LastInv, LastOf
      <3> QED
        BY <3>1 DEF Uses, Bound
    <2>2. CASE Binds(u) /\ call[u].c = c /\ call[u].s = s
      BY <2>2 DEF Uses, Binds
    <2> QED
      BY <2>1, <2>2
  <1>3. (c # 0 => ctxOf[c] # 0 /\ c \in Ctx) /\ (s # 0 => surfOf[s] # 0 /\ s \in Surf)
    BY <1>1 DEF Exists, Handle
  <1>4. c # 0 => ctxOf'[c] = ctxOf[c]
    BY <1>2, <1>3 DEF Spared
  <1>5. s # 0 => surfOf'[s] = surfOf[s]
    BY <1>2, <1>3 DEF Spared
  <1> QED
    BY <1>1, <1>3, <1>4, <1>5 DEF Exists, Bound

(* What last[] says of a thread survives what others do.                   *)
LEMMA LastStable ==
  ASSUME TypeInv, ArgumentInv, LastInv, NEW u \in Threads, Spared(u),
         last'[u] = last[u], app'[u] = app[u],
         \/ call'[u] = call[u] /\ g_stub_current_ctx'[u] = g_stub_current_ctx[u]
         \/ /\ ~Binds(u) /\ g_stub_current_ctx'[u] = g_stub_current_ctx[u]
            /\ ~Binds(u)'
            /\ call'[u].op \in Queries => Exists(0, call[u].s)'
            /\ call'[u].op = "getCurrent" => app[u] # None
         \/ /\ Binds(u)' /\ Exists(call[u].c, call[u].s)'
            /\ g_stub_current_ctx'[u] = call'[u].c
  PROVE  LastOf(u)'
  <1>1. ASSUME last'[u] # <<>>
        PROVE  /\ app'[u] = Bound(last[u][1], last[u][2])'
               /\ Exists(last[u][1], last[u][2])'
               /\ (last'[u][1] = 0 => last'[u][2] = 0)
    <2>1. PICK c \in Handle, s \in Surf \cup {0} : last[u] = <<c, s>>
      BY <1>1 DEF TypeInv, TypeOK, Handle
    <2>2. app[u] = Bound(c, s) /\ (c = 0 => s = 0)
      BY <2>1 DEF LastInv, LastOf
    <2>3. Exists(c, s)' /\ Bound(c, s)' = Bound(c, s)
      BY <2>1, BoundStable
    <2>4. last'[u][1] = c /\ last'[u][2] = s
      BY <2>1
    <2> QED
      BY <2>2, <2>3, <2>4
  <1>2. last'[u] = <<>> => app'[u] = None
    BY DEF LastInv, LastOf
  <1> DEFINE Rest(g) == /\ last'[u] # <<>> => (~Binds(u)' => g = last'[u][1])
                        /\ Binds(u)' => /\ Exists(call[u].c, call[u].s)'
                                        /\ g = call'[u].c
                        /\ call'[u].op \in Queries => Exists(0, call[u].s)'
                        /\ call'[u].op = "getCurrent" => app'[u] # None
  <1>3. Rest(g_stub_current_ctx'[u])
    <2>1. CASE call'[u] = call[u] /\ g_stub_current_ctx'[u] = g_stub_current_ctx[u]
      <3>1. Binds(u)' <=> Binds(u)
        BY <2>1 DEF Binds
      <3>2. LastOf(u)
        BY DEF LastInv
      <3>3. Binds(u) => Exists(call[u].c, call[u].s)'
        <4>1. Binds(u) => call[u].c \in Handle /\ call[u].s \in Surf \cup {0}
          BY DEF ArgumentInv, Binds
        <4>2. Binds(u) => (\A c \in Handle, s \in Surf \cup {0} :
                             call[u].c = c /\ call[u].s = s => Exists(c, s)')
          BY BoundStable
        <4>3. call'[u].c = call[u].c /\ call'[u].s = call[u].s
          BY <2>1
        <4> QED
          BY <4>1, <4>2, <4>3 DEF Exists
      <3>4. call[u].op \in Queries => Exists(0, call[u].s)'
        <4>1. call[u].op \in Queries =>
                call[u].s \in Surf /\ surfOf[call[u].s] # 0 /\ Uses(u, 0, call[u].s)
          <5>1. \A i \in Surf : i # 0
            BY DEF Surf
          <5> QED
            BY <3>2, <5>1 DEF ArgumentInv, LastOf, Exists, Uses
        <4> QED
          BY <2>1, <4>1 DEF Spared, Exists
      <3> QED
        BY <2>1, <3>1, <3>2, <3>3, <3>4 DEF LastOf
    <2>2. CASE /\ ~Binds(u) /\ g_stub_current_ctx'[u] = g_stub_current_ctx[u]
               /\ ~Binds(u)'
               /\ call'[u].op \in Queries => Exists(0, call[u].s)'
               /\ call'[u].op = "getCurrent" => app[u] # None
      BY <2>2 DEF LastInv, LastOf
    <2>3. CASE /\ Binds(u)' /\ Exists(call[u].c, call[u].s)'
               /\ g_stub_current_ctx'[u] = call'[u].c
      <3>1. call'[u].op \notin Queries \cup {"getCurrent"}
        BY <2>3 DEF Binds, Queries
      <3> QED
        BY <2>3, <3>1
    <2> QED
      BY <2>1, <2>2, <2>3
  <1> QED
    BY <1>1, <1>2, <1>3 DEF LastOf

(* A second eglMakeCurrent() with the same arguments changes nothing.      *)
LEMMA AgainQuiet ==
  ASSUME TypeInv, CallInv, LastInv, NEW t \in Threads, NEW c, NEW s,
         MakeCurrentAgain(t, c, s)
  PROVE  UNCHANGED <<g_stub_current_ctx, app, last, cacheVars, call, answer, ring,
                     proxyVars, driverVars, ctxOf, surfOf, floor, acted>>
  <1>1. /\ last[t] = <<c, s>> /\ call[t] = Idle
        /\ g_stub_current_ctx' = [g_stub_current_ctx EXCEPT ![t] = c]
        /\ app' = [app EXCEPT ![t] = Bound(c, s)]
    BY DEF MakeCurrentAgain, Starts
  <1>2. ~Binds(t)
    BY <1>1, IdleFacts DEF Binds
  <1>3. app[t] = Bound(c, s) /\ g_stub_current_ctx[t] = c
    BY <1>1, <1>2 DEF LastInv, LastOf
  <1>4. app' = app
    BY <1>1, <1>3 DEF TypeInv, TypeOK
  <1>5. g_stub_current_ctx' = g_stub_current_ctx
    BY <1>1, <1>3 DEF TypeInv, TypeOK
  <1> QED
    BY <1>4, <1>5 DEF MakeCurrentAgain

(* What the threads have bound, in a step that leaves it to them.          *)
LEMMA ComesLast ==
  ASSUME TypeInv, CallInv, NEW t \in Threads, Comes(t), ~ReturnMakeCurrent(t)
  PROVE  /\ UNCHANGED <<last, app, g_stub_current_ctx>>
         /\ call[t].op # "makeCurrent"
  BY DEF Comes, Resized, ReturnQuery, ReturnCreate, ReturnPlain, Back, appVars, Queries,
     Leaves

LEMMA RefusedOrBound ==
  ASSUME TypeInv, CallInv, ArgumentInv, NEW t \in Threads, ReturnMakeCurrent(t)
  PROVE  /\ Rebound(t) /\ call[t].c \in Handle /\ call[t].s \in Surf \cup {0}
         /\ (call[t].c = 0 => call[t].s = 0)
         /\ \A u \in Threads : u # t => last'[u] = last[u] /\ app'[u] = app[u]
         /\ UNCHANGED <<g_stub_current_ctx, ctxOf, surfOf, floor>>
         /\ \/ answer[t].ok /\ last'[t] = <<call[t].c, call[t].s>>
                             /\ app'[t] = Bound(call[t].c, call[t].s)
            \/ ~answer[t].ok /\ last'[t] = <<>> /\ app'[t] = None
  <1>1. Rebound(t)
    BY DEF ReturnMakeCurrent, Back, Rebound, Binds, Answered
  <1>2. /\ call[t].c \in Handle /\ call[t].s \in Surf \cup {0}
        /\ (call[t].c = 0 => call[t].s = 0)
    BY <1>1 DEF Rebound, Binds, ArgumentInv
  <1> QED
    BY <1>1, <1>2 DEF ReturnMakeCurrent, TypeInv, TypeOK

LEMMA LastStep ==
  ASSUME TypeInv, CallInv, ArgumentInv, ContextInv, SurfaceInv, LastInv, [Next]_vars
  PROVE  LastInv'
  <1>1. \A u \in Threads : Spared(u)
    BY SparedAll
  <1>2. ASSUME UNCHANGED <<last, app, g_stub_current_ctx, call>> PROVE LastInv'
    BY <1>1, <1>2, LastStable DEF LastInv
  <1>3. ASSUME NEW t \in Threads, Call(t) PROVE LastInv'
    <2>1. ASSUME NEW o, NEW c, NEW s, Begins(t, o, c, s) PROVE LastInv'
      <3>1. /\ \A u \in Threads : u # t => call'[u] = call[u]
            /\ call'[t].op = o /\ call'[t].c = c /\ call'[t].s = s
            /\ ~Binds(t)
        BY <2>1, BeginFacts DEF Binds
      <3>2. /\ UNCHANGED <<last, app>> /\ Sensible(t, o, c, s)
            /\ \A u \in Threads : u # t => g_stub_current_ctx'[u] = g_stub_current_ctx[u]
            /\ g_stub_current_ctx'[t] = IF o = "makeCurrent" THEN c
                                                            ELSE g_stub_current_ctx[t]
        BY <2>1 DEF Begins, Starts, TypeInv, TypeOK
      <3>3. \A u \in Threads : u # t => LastOf(u)'
        BY <1>1, <3>1, <3>2, LastStable
      <3>4. CASE o = "makeCurrent"
        <4>1. c # 0 => ctxOf[c] # 0 /\ (s # 0 => surfOf[s] # 0)
          BY <3>2, <3>4, Meant
        <4>2. c = 0 => s = 0
          BY <2>1, <3>4 DEF Begins, Formed
        <4>3. UNCHANGED <<ctxOf, surfOf>>
          BY <2>1, <3>4 DEF Begins
        <4>4. Exists(c, s)'
          BY <4>1, <4>2, <4>3 DEF Exists
        <4>5. Binds(t)'
          BY <3>1, <3>4 DEF Binds
        <4>6. g_stub_current_ctx'[t] = call'[t].c
          BY <3>1, <3>2, <3>4
        <4>7. Exists(call[t].c, call[t].s)'
          BY <3>1, <4>4 DEF Exists
        <4>8. LastOf(t)'
          BY <1>1, <3>2, <4>5, <4>6, <4>7, LastStable
        <4> QED
          BY <3>3, <4>8 DEF LastInv
      <3>5. CASE o # "makeCurrent"
        <4>1. ~Binds(t)'
          BY <3>1, <3>5 DEF Binds
        <4>2. o \in Queries => Exists(0, call[t].s)'
          <5>1. o \in Queries => surfOf[s] # 0 /\ surfOf' = surfOf
            BY <2>1, <3>2, MeantQuery DEF Begins, Queries
          <5> QED
            BY <3>1, <5>1 DEF Exists
        <4>3. o = "getCurrent" => app[t] # None
          BY <3>2, Meant
        <4>4. LastOf(t)'
          BY <1>1, <3>1, <3>2, <3>5, <4>1, <4>2, <4>3, LastStable
        <4> QED
          BY <3>3, <4>4 DEF LastInv
      <3> QED
        BY <3>4, <3>5
    <2>2. ASSUME NEW o, NEW s, Sends(t, o, s) PROVE LastInv'
      BY <1>2, <2>2 DEF Sends
    <2>3. ASSUME NEW s \in Surf, NEW o \in Queries, QueryHit(t, o, s) PROVE LastInv'
      <3>1. /\ \A u \in Threads : u # t => call'[u] = call[u]
            /\ call'[t].op = o /\ call'[t].s = s /\ call[t] = Idle
            /\ UNCHANGED <<last, app, g_stub_current_ctx, ctxOf, surfOf>>
            /\ Sensible(t, o, 0, s)
        BY <2>3 DEF QueryHit, Enter, Starts, TypeInv, appVars
      <3>2. ~Binds(t) /\ ~Binds(t)' /\ o # "getCurrent"
        BY <3>1, IdleFacts DEF Binds, Queries
      <3>3. Exists(0, call[t].s)'
        <4>1. surfOf[s] # 0
          BY <3>1, MeantQuery
        <4> QED
          BY <3>1, <4>1 DEF Exists
      <3>4. LastOf(t)'
        BY <1>1, <3>1, <3>2, <3>3, LastStable
      <3>5. \A u \in Threads : u # t => LastOf(u)'
        BY <1>1, <3>1, LastStable
      <3> QED
        BY <3>4, <3>5 DEF LastInv
    <2>4. ASSUME NEW c, NEW s, MakeCurrentAgain(t, c, s) PROVE LastInv'
      BY <1>2, <2>4, AgainQuiet
    <2> QED
      BY <1>3, <2>1, <2>2, <2>3, <2>4, CallForm
  <1>4. ASSUME NEW t \in Threads, Comes(t) PROVE LastInv'
    <2>1. /\ call'[t].op = "idle" /\ \A u \in Threads : u # t => call'[u] = call[u]
      BY <1>4, ComesFacts, EndFacts DEF Same
    <2>2. ~Binds(t)' /\ call'[t].op \notin Queries \cup {"getCurrent"}
      BY <2>1 DEF Binds, Queries
    <2>3. CASE ~ReturnMakeCurrent(t)
      <3>1. UNCHANGED <<last, app, g_stub_current_ctx>> /\ ~Binds(t)
        BY <1>4, <2>3, ComesLast DEF Binds
      <3>2. LastOf(t)'
        BY <1>1, <2>2, <3>1, LastStable
      <3>3. \A u \in Threads : u # t => LastOf(u)'
        BY <1>1, <2>1, <3>1, LastStable
      <3> QED
        BY <3>2, <3>3 DEF LastInv
    <2>4. CASE ReturnMakeCurrent(t)
      <3>1. /\ Rebound(t) /\ (call[t].c = 0 => call[t].s = 0)
            /\ \A u \in Threads : u # t => last'[u] = last[u] /\ app'[u] = app[u]
            /\ UNCHANGED <<g_stub_current_ctx, ctxOf, surfOf>>
            /\ \/ last'[t] = <<call[t].c, call[t].s>> /\ app'[t] = Bound(call[t].c, call[t].s)
               \/ last'[t] = <<>> /\ app'[t] = None
        BY <2>4, RefusedOrBound
      <3>2. \A u \in Threads : u # t => LastOf(u)'
        BY <1>1, <2>1, <3>1, LastStable
      <3>3. Exists(call[t].c, call[t].s) /\ g_stub_current_ctx[t] = call[t].c
        BY <3>1 DEF Rebound, LastInv, LastOf
      <3>4. CASE last'[t] = <<call[t].c, call[t].s>> /\ app'[t] = Bound(call[t].c, call[t].s)
        <4>1. last'[t] # <<>> /\ last'[t][1] = call[t].c /\ last'[t][2] = call[t].s
          BY <3>4
        <4>2. app'[t] = Bound(last[t][1], last[t][2])'
          BY <3>1, <3>4, <4>1 DEF Bound
        <4>3. Exists(last[t][1], last[t][2])'
          BY <3>1, <3>3, <4>1 DEF Exists
        <4> QED
          BY <2>2, <3>1, <3>2, <3>3, <4>1, <4>2, <4>3 DEF LastInv, LastOf
      <3>5. CASE last'[t] = <<>> /\ app'[t] = None
        BY <2>2, <3>2, <3>5 DEF LastInv, LastOf
      <3> QED
        BY <3>1, <3>4, <3>5
    <2> QED
      BY <2>3, <2>4
  <1>5. CASE Dispatch
    BY <1>2, <1>5 DEF Dispatch, appVars
  <1>6. CASE UNCHANGED vars
    BY <1>2, <1>6 DEF vars, appVars
  <1> QED
    BY <1>3, <1>4, <1>5, <1>6 DEF Next

(* A context is bound by one thread.                                       *)
LEMMA OwnStep ==
  ASSUME TypeInv, CallInv, ArgumentInv, LastInv, OwnInv, [Next]_vars
  PROVE  OwnInv'
  <1>1. ASSUME \A u \in Threads : Held(u)' \subseteq Held(u) PROVE OwnInv'
    BY <1>1 DEF OwnInv
  <1>2. ASSUME UNCHANGED last, \A u \in Threads : Binds(u)' => call'[u] = call[u]
        PROVE  OwnInv'
    <2>1. \A u \in Threads : Held(u)' \subseteq Held(u)
      BY <1>2 DEF Held, Binds
    <2> QED
      BY <1>1, <2>1
  <1>3. ASSUME NEW t \in Threads, Call(t) PROVE OwnInv'
    <2>0. UNCHANGED last
      BY <1>3, CallForm
    <2>1. ASSUME NEW o, NEW c, NEW s, Begins(t, o, c, s) PROVE OwnInv'
      <3>1. /\ \A u \in Threads : u # t => call'[u] = call[u]
            /\ call'[t].op = o /\ call'[t].c = c
        BY <2>1, BeginFacts
      <3>2. CASE o # "makeCurrent"
        BY <1>2, <2>0, <3>1, <3>2 DEF Binds
      <3>3. CASE o = "makeCurrent"
        <4>1. /\ \A u \in Threads : u # t => Held(u)' = Held(u)
              /\ Held(t)' \subseteq Held(t) \cup ({c} \ {0})
          BY <2>0, <3>1, <3>3 DEF Held, Binds
        <4>2. c # 0 => ~Others(t, c, s)
          BY <2>1, <3>3, Meant DEF Begins, Starts
        <4>3. ASSUME NEW u \in Threads, u # t, c # 0, c \in Held(u) PROVE FALSE
          <5>1. Uses(u, c, s)
            <6>1. CASE last[u] # <<>> /\ last[u][1] = c
              <7>1. app[u] = Bound(c, last[u][2])
                BY <6>1 DEF LastInv, LastOf
              <7> QED
                BY <4>3, <7>1 DEF Uses, Bound
            <6>2. CASE Binds(u) /\ call[u].c = c
              BY <4>3, <6>2 DEF Uses, Binds
            <6> QED
              BY <4>3, <6>1, <6>2 DEF Held
          <5> QED
            BY <4>2, <4>3, <5>1 DEF Others
        <4> QED
          BY <4>1, <4>3 DEF OwnInv
      <3> QED
        BY <3>2, <3>3
    <2>2. ASSUME NEW o, NEW s, Sends(t, o, s) PROVE OwnInv'
      BY <1>2, <2>0, <2>2 DEF Sends
    <2>3. ASSUME NEW s \in Surf, NEW o \in Queries, QueryHit(t, o, s) PROVE OwnInv'
      <3>1. /\ call'[t].op = o /\ o # "makeCurrent"
            /\ \A u \in Threads : u # t => call'[u] = call[u]
        BY <2>3 DEF QueryHit, Enter, TypeInv, Queries
      <3> QED
        BY <1>2, <2>0, <3>1 DEF Binds
    <2>4. ASSUME NEW c, NEW s, MakeCurrentAgain(t, c, s) PROVE OwnInv'
      BY <1>2, <2>0, <2>4 DEF MakeCurrentAgain
    <2> QED
      BY <1>3, <2>1, <2>2, <2>3, <2>4, CallForm
  <1>4. ASSUME NEW t \in Threads, Comes(t) PROVE OwnInv'
    <2>1. /\ ~Binds(t)' /\ \A u \in Threads : u # t => call'[u] = call[u]
      BY <1>4, ComesFacts, EndFacts DEF Same, Binds
    <2>2. CASE ~ReturnMakeCurrent(t)
      BY <1>2, <1>4, <2>1, <2>2, ComesLast
    <2>3. CASE ReturnMakeCurrent(t)
      <3>1. /\ Rebound(t) /\ \A u \in Threads : u # t => last'[u] = last[u]
            /\ \/ last'[t] = <<call[t].c, call[t].s>>
               \/ last'[t] = <<>>
        BY <2>3, RefusedOrBound
      <3>2. \A u \in Threads : u # t => Held(u)' = Held(u)
        BY <2>1, <3>1 DEF Held, Binds
      <3>3. Held(t)' \subseteq Held(t)
        BY <2>1, <3>1 DEF Held, Rebound
      <3> QED
        BY <1>1, <3>2, <3>3
    <2> QED
      BY <2>2, <2>3
  <1>5. CASE Dispatch
    BY <1>2, <1>5 DEF Dispatch
  <1>6. CASE UNCHANGED vars
    BY <1>2, <1>6 DEF vars
  <1> QED
    BY <1>3, <1>4, <1>5, <1>6 DEF Next

-----------------------------------------------------------------------------
(* The proxy can go back to what a thread has bound *)

(* The command the proxy runs: a blocking one is alone in the ring.        *)
LEMMA FrontForm ==
  ASSUME TypeInv, CallInv, Dispatch
  PROVE  /\ ring # <<>> /\ ring' = Tail(ring)
         /\ UNCHANGED <<g_stub_current_ctx, last, cacheVars, call, appVars, left>>
         /\ \E m \in Command, t \in Threads :
              /\ m = Front /\ m = ring[1] /\ 1 \in DOMAIN ring /\ m.t = t
              /\ m.op \in Calls =>
                   /\ Len(ring) = 1 /\ DOMAIN ring' = {}
                   /\ call[t].op = m.op /\ call[t].c = m.c /\ call[t].s = m.s
                   /\ ~Answered(t) /\ Waits(t)
                   /\ \A u \in Threads : u # t => Same(u) /\ ~Waits(u)
              /\ m.op \notin Calls => answer' = answer
  <1>1. ring # <<>> /\ ring' = Tail(ring)
        /\ UNCHANGED <<g_stub_current_ctx, last, cacheVars, call, appVars, left>>
    BY DEF Dispatch
  <1>2. /\ Front = ring[1] /\ Front \in Command /\ 1 \in DOMAIN ring
        /\ Front.t \in Threads /\ Front.op \in Kinds
        /\ Len(ring) \in Nat /\ DOMAIN ring' = 1 .. Len(ring) - 1
    BY <1>1, FrontFacts
  <1>3. ASSUME Front.op \in Calls
        PROVE  /\ Len(ring) = 1 /\ DOMAIN ring' = {}
               /\ call[Front.t].op = Front.op
               /\ call[Front.t].c = Front.c /\ call[Front.t].s = Front.s
               /\ ~Answered(Front.t) /\ Waits(Front.t)
               /\ \A u \in Threads : u # Front.t => Same(u) /\ ~Waits(u)
    <2>1. Len(ring) = 1 /\ Carries(Front)
      BY <1>2, <1>3 DEF CallInv
    <2>2. \E a : Reply(Front, a) /\ a # NoAnswer
      BY <1>3, DispatchFacts DEF Posts, Calls
    <2>3. \A u \in Threads : u # Front.t => Same(u)
      BY <1>1, <1>2, <2>2, ReplyFacts DEF Reply
    <2>4. \A u \in Threads : Waits(u) => u = Front.t
      BY <1>2, <2>1 DEF CallInv
    <2> QED
      BY <1>2, <1>3, <2>1, <2>3, <2>4 DEF Carries, Waits, Answered
  <1>4. Front.op \notin Calls => answer' = answer
    BY DispatchFacts
  <1> QED
    BY <1>1, <1>2, <1>3, <1>4

LEMMA ClaimFacts ==
  ASSUME TypeInv, LastInv, NEW t \in Threads, NEW c \in Ctx, NEW s \in Surf \cup {0},
         Claims(t, c, s)
  PROVE  /\ c \in Held(t) /\ c # 0
         /\ \/ last[t] = <<c, s>>
            \/ Binds(t) /\ call[t].c = c /\ call[t].s = s
         /\ Exists(c, s) /\ ctxOf[c] # 0 /\ (s # 0 => surfOf[s] # 0)
         /\ Bound(c, s) = [ctx |-> ctxOf[c], draw |-> IF s = 0 THEN 0 ELSE surfOf[s]]
  <1>1. c # 0
    BY DEF Ctx
  <1>2. CASE last[t] = <<c, s>>
    <2>1. last[t] # <<>> /\ last[t][1] = c /\ last[t][2] = s
      BY <1>2
    <2>2. Exists(c, s)
      BY <2>1 DEF LastInv, LastOf
    <2>3. c \in Held(t)
      BY <1>1, <2>1 DEF Held
    <2> QED
      BY <1>1, <1>2, <2>2, <2>3 DEF Exists, Bound
  <1>3. CASE Binds(t) /\ call[t].c = c /\ call[t].s = s
    BY <1>1, <1>3 DEF LastInv, LastOf, Held, Exists, Bound
  <1> QED
    BY <1>2, <1>3 DEF Claims, Rebound

(* egl_bind_target_ctx() goes where it should.                             *)
LEMMA KeepsFollow ==
  ASSUME TypeInv, ContextInv, NEW m \in Command, NEW c \in Ctx, NEW b,
         ctxOf[c] # 0, b = [ctx |-> ctxOf[c], draw |-> b.draw], Keeps(c, b),
         FollowThread(m), g_ctx_bindings'[c] = g_ctx_bindings[c]
  PROVE  Keeps(c, b)'
  <1>1. egl_contexts[c] = ctxOf[c]
    BY DEF ContextInv, TableInv, TypeInv, TypeOK
  <1>2. CASE Rebinds(m)
    <2>1. /\ g_current_ctx' = m.ctx
          /\ cur' = [ctx |-> egl_contexts[m.ctx], draw |-> g_ctx_bindings[m.ctx].draw]
      BY <1>2 DEF FollowThread, Selected, CurFor
    <2>2. g_ctx_bindings[c].draw = b.draw
      BY DEF Keeps
    <2> QED
      BY <1>1, <2>1, <2>2 DEF Keeps
  <1>3. CASE ~Rebinds(m)
    BY <1>3 DEF FollowThread, Selected, CurFor, Keeps
  <1> QED
    BY <1>2, <1>3

(* Another thread's command leaves a claim alone.                          *)
LEMMA KeptDispatch ==
  ASSUME TypeInv, CallInv, ArgumentInv, ContextInv, SurfaceInv, LastInv, OwnInv, KeptInv,
         Dispatch
  PROVE  KeptInv'
  <1>1. UNCHANGED <<last, app, call, ctxOf, surfOf>>
    BY FrontForm DEF appVars
  <1>2. PICK m \in Command, t \in Threads :
          /\ m = Front /\ m.t = t
          /\ m.op \in Calls =>
               /\ call[t].op = m.op /\ call[t].c = m.c /\ call[t].s = m.s
               /\ ~Answered(t) /\ Waits(t)
               /\ \A u \in Threads : u # t => Same(u)
          /\ m.op \notin Calls => answer' = answer
    BY FrontForm
  <1>3. ASSUME NEW u \in Threads, NEW c \in Ctx, NEW s \in Surf \cup {0}, Claims(u, c, s)'
        PROVE  \/ Claims(u, c, s)
               \/ /\ u = t /\ m.op = "makeCurrent" /\ answer'[t].ok
                  /\ m.c = c /\ m.s = s
    <2>1. CASE answer'[u] = answer[u]
      BY <1>1, <1>3, <2>1 DEF Claims, Rebound, Binds, Answered
    <2>2. CASE answer'[u] # answer[u]
      <3>1. u = t /\ m.op \in Calls
        BY <1>2, <2>2 DEF Same
      <3> QED
        BY <1>1, <1>2, <1>3, <3>1 DEF Claims, Rebound, Binds, Answered
    <2> QED
      BY <2>1, <2>2
  <1>4. \A c \in Ctx, s \in Surf \cup {0} : Bound(c, s)' = Bound(c, s)
    BY <1>1 DEF Bound
  <1>5. ASSUME NEW u \in Threads, NEW c \in Ctx, NEW s \in Surf \cup {0}, Claims(u, c, s)
        PROVE  /\ Keeps(c, Bound(c, s)) /\ ctxOf[c] # 0 /\ (s # 0 => surfOf[s] # 0)
               /\ Bound(c, s).ctx = ctxOf[c]
               /\ Bound(c, s).draw = IF s = 0 THEN 0 ELSE surfOf[s]
               /\ Bound(c, s) = [ctx |-> ctxOf[c], draw |-> Bound(c, s).draw]
               /\ c \in Held(u) /\ c # 0
    BY <1>5, ClaimFacts DEF KeptInv
  <1>6. ASSUME FollowThread(m), m.op # "makeCurrent",
               \A u \in Threads, c \in Ctx, s \in Surf \cup {0} :
                 Claims(u, c, s) => g_ctx_bindings'[c] = g_ctx_bindings[c]
        PROVE  KeptInv'
    <2> SUFFICES ASSUME NEW u \in Threads, NEW c \in Ctx, NEW s \in Surf \cup {0},
                        Claims(u, c, s)'
                 PROVE  Keeps(c, Bound(c, s))'
      BY DEF KeptInv
    <2>1. Claims(u, c, s)
      BY <1>3, <1>6
    <2>2. PICK b : b = Bound(c, s)
      OBVIOUS
    <2>3. Keeps(c, b) /\ ctxOf[c] # 0 /\ b = [ctx |-> ctxOf[c], draw |-> b.draw]
      BY <1>5, <2>1, <2>2
    <2>4. Keeps(c, b)'
      BY <1>6, <2>1, <2>3, KeepsFollow
    <2> QED
      BY <1>4, <2>2, <2>4 DEF Keeps
  <1>7. ASSUME FollowThread(m), m.op # "makeCurrent", UNCHANGED g_ctx_bindings
        PROVE  KeptInv'
    BY <1>6, <1>7
  <1>8. ASSUME NEW granted \in BOOLEAN, RunCreateContext(m, granted) PROVE KeptInv'
    BY <1>7, <1>8 DEF RunCreateContext
  <1>9. ASSUME NEW granted \in BOOLEAN, RunCreateSurface(m, granted) PROVE KeptInv'
    BY <1>7, <1>9 DEF RunCreateSurface
  <1>10. CASE RunAsk(m)
    <2>1. m.op # "makeCurrent"
      BY <1>10 DEF RunAsk
    <2> QED
      BY <1>7, <1>10, <2>1 DEF RunAsk
  <1>11. CASE RunPost(m)
    <2>1. m.op # "makeCurrent"
      BY <1>11 DEF RunPost, Posts
    <2> QED
      BY <1>7, <1>11, <2>1 DEF RunPost
  <1>12. CASE RunDestroyContext(m)
    <2>1. /\ m.op = "destroyContext" /\ FollowThread(m)
          /\ g_ctx_bindings' = [g_ctx_bindings EXCEPT ![m.c].valid = FALSE]
      BY <1>12 DEF RunDestroyContext
    <2>2. Frees(t, "destroyContext") /\ call[t].c = m.c
      BY <1>2, <2>1 DEF Frees, Calls
    <2>3. ctxOf[m.c] = 0
      BY <2>2 DEF ContextInv, TableInv, ContextOf
    <2>4. \A c \in Ctx : ctxOf[c] # 0 => g_ctx_bindings'[c] = g_ctx_bindings[c]
      BY <2>1, <2>3 DEF TypeInv, TypeOK
    <2> QED
      BY <1>5, <1>6, <2>1, <2>4
  <1>13. CASE RunDestroySurface(m)
    <2>1. /\ m.op = "destroySurface" /\ FollowThread(m)
          /\ g_ctx_bindings' = Unbound(egl_surfaces[m.s])
      BY <1>13 DEF RunDestroySurface
    <2>2. Frees(t, "destroySurface") /\ call[t].s = m.s /\ m.s \in Surf
      BY <1>2, <2>1 DEF Frees, Calls, ArgumentInv
    <2>3. surfOf[m.s] = 0 /\ egl_surfaces[m.s] # 0
      BY <2>2 DEF SurfaceInv, TableInv, SurfaceOf
    <2>4. ASSUME NEW u \in Threads, NEW c \in Ctx, NEW s \in Surf \cup {0}, Claims(u, c, s)
          PROVE  g_ctx_bindings'[c] = g_ctx_bindings[c]
      <3>1. g_ctx_bindings[c].draw = IF s = 0 THEN 0 ELSE surfOf[s]
        <4>1. PICK b : b = Bound(c, s)
          OBVIOUS
        <4>2. Keeps(c, b) /\ b.draw = IF s = 0 THEN 0 ELSE surfOf[s]
          BY <1>5, <2>4, <4>1
        <4> QED
          BY <4>2 DEF Keeps
      <3>2. g_ctx_bindings[c].draw # egl_surfaces[m.s]
        <4>1. CASE s = 0
          BY <2>3, <3>1, <4>1
        <4>2. CASE s # 0
          <5>1. s \in Surf /\ surfOf[s] # 0
            BY <1>5, <2>4, <4>2
          <5>2. s # m.s /\ egl_surfaces[s] = surfOf[s]
            BY <2>3, <5>1 DEF SurfaceInv, TableInv, TypeInv, TypeOK
          <5>3. egl_surfaces[s] # egl_surfaces[m.s]
            BY <2>2, <2>3, <5>1, <5>2 DEF SurfaceInv, TableInv, TypeInv, TypeOK
          <5> QED
            BY <3>1, <4>2, <5>2, <5>3
        <4> QED
          BY <4>1, <4>2
      <3> QED
        BY <2>1, <3>2 DEF Unbound
    <2> QED
      BY <1>6, <2>1, <2>4
  <1>14. CASE RunReleaseThread(m)
    <2>1. /\ m.op = "releaseThread" /\ cur' = None /\ g_current_ctx' = 0
          /\ UNCHANGED g_ctx_bindings
      BY <1>14 DEF RunReleaseThread
    <2> SUFFICES ASSUME NEW u \in Threads, NEW c \in Ctx, NEW s \in Surf \cup {0},
                        Claims(u, c, s)'
                 PROVE  Keeps(c, Bound(c, s))'
      BY DEF KeptInv
    <2>2. Keeps(c, Bound(c, s)) /\ c # 0
      BY <1>3, <1>5, <2>1
    <2> QED
      BY <1>4, <2>1, <2>2 DEF Keeps
  <1>15. ASSUME NEW granted \in BOOLEAN, RunMakeCurrent(m, granted) PROVE KeptInv'
    <2>1. /\ m.op = "makeCurrent" /\ Reply(m, Answer(granted, 0, 0))
          /\ Binds(t) /\ call[t].c = m.c /\ call[t].s = m.s
      BY <1>2, <1>15 DEF RunMakeCurrent, Calls, Binds
    <2>2. answer'[t].ok = granted
      BY <1>2, <2>1 DEF Reply, Answer, TypeInv
    <2> SUFFICES ASSUME NEW u \in Threads, NEW c \in Ctx, NEW s \in Surf \cup {0},
                        Claims(u, c, s)'
                 PROVE  Keeps(c, Bound(c, s))'
      BY DEF KeptInv
    <2>3. CASE ~granted
      <3>1. UNCHANGED <<cur, g_current_ctx, g_ctx_bindings>>
        BY <1>15, <2>3 DEF RunMakeCurrent
      <3>2. Keeps(c, Bound(c, s))
        BY <1>3, <1>5, <2>2, <2>3
      <3> QED
        BY <1>4, <3>1, <3>2 DEF Keeps
    <2>4. CASE granted
      <3> DEFINE obj == [ctx |-> Real(egl_contexts, m.c), draw |-> Real(egl_surfaces, m.s)]
      <3>1. /\ cur' = obj /\ g_current_ctx' = m.c
            /\ g_ctx_bindings' =
                 IF m.c = 0 THEN g_ctx_bindings
                            ELSE [g_ctx_bindings EXCEPT ![m.c] =
                                    [valid |-> TRUE, draw |-> obj.draw]]
        BY <1>15, <2>4 DEF RunMakeCurrent
      <3>2. CASE u = t /\ m.c = c /\ m.s = s
        <4>1. Exists(c, s)
          BY <2>1, <3>2 DEF LastInv, LastOf
        <4>2. c # 0 /\ egl_contexts[c] = ctxOf[c]
          BY <4>1 DEF Exists, ContextInv, TableInv, TypeInv, TypeOK, Ctx
        <4>3. s # 0 => egl_surfaces[s] = surfOf[s]
          BY <4>1 DEF Exists, SurfaceInv, TableInv, TypeInv, TypeOK
        <4>4. obj = Bound(c, s) /\ obj.draw = Bound(c, s).draw
          BY <3>2, <4>2, <4>3 DEF Real, Bound
        <4>5. g_ctx_bindings'[c] = [valid |-> TRUE, draw |-> obj.draw]
          BY <3>1, <3>2, <4>2 DEF TypeInv, TypeOK
        <4> QED
          BY <1>4, <3>1, <4>4, <4>5 DEF Keeps
      <3>3. CASE ~(u = t /\ m.c = c /\ m.s = s)
        <4>1. Claims(u, c, s) /\ u # t
          <5>1. Claims(u, c, s)
            BY <1>3, <3>3
          <5>2. u # t
            BY <1>1, <1>2, <2>1, <2>2, <2>4, <3>3 DEF Claims, Rebound, Binds, Answered, Reply, Answer, NoAnswer, TypeInv
          <5> QED
            BY <5>1, <5>2
        <4>2. Keeps(c, Bound(c, s)) /\ c \in Held(u)
          BY <1>5, <4>1
        <4>3. m.c # 0 => m.c \in Held(t)
          BY <2>1 DEF Held
        <4>4. m.c # c
          BY <1>5, <4>1, <4>2, <4>3 DEF OwnInv
        <4>5. g_ctx_bindings'[c] = g_ctx_bindings[c]
          BY <3>1, <4>4 DEF TypeInv, TypeOK
        <4> QED
          BY <1>4, <3>1, <4>2, <4>4, <4>5 DEF Keeps
      <3> QED
        BY <3>2, <3>3
    <2> QED
      BY <2>3, <2>4
  <1> QED
    BY <1>2, <1>8, <1>9, <1>10, <1>11, <1>12, <1>13, <1>14, <1>15 DEF Dispatch, Front

LEMMA KeptStep ==
  ASSUME TypeInv, CallInv, ArgumentInv, ContextInv, SurfaceInv, LastInv, OwnInv, KeptInv,
         [Next]_vars
  PROVE  KeptInv'
  <1>1. \A u \in Threads : Spared(u)
    BY SparedAll
  <1>2. ASSUME UNCHANGED <<proxyVars, cur>>,
               \A u \in Threads, c \in Ctx, s \in Surf \cup {0} :
                 Claims(u, c, s)' => Claims(u, c, s)
        PROVE  KeptInv'
    <2> SUFFICES ASSUME NEW u \in Threads, NEW c \in Ctx, NEW s \in Surf \cup {0},
                        Claims(u, c, s)'
                 PROVE  Keeps(c, Bound(c, s))'
      BY DEF KeptInv
    <2>1. Claims(u, c, s)
      BY <1>2
    <2>2. c \in Handle
      BY DEF Handle
    <2>3. Bound(c, s)' = Bound(c, s)
      BY <1>1, <2>1, <2>2, ClaimFacts, BoundStable
    <2>4. Keeps(c, Bound(c, s))
      BY <2>1 DEF KeptInv
    <2> QED
      BY <1>2, <2>3, <2>4 DEF Keeps, proxyVars
  <1>3. ASSUME NEW t \in Threads, UNCHANGED <<proxyVars, cur, last, app>>,
               \A u \in Threads : u # t => Same(u), ~Rebound(t), ~Rebound(t)'
        PROVE  KeptInv'
    <2>1. \A u \in Threads, c \in Ctx, s \in Surf \cup {0} :
            Claims(u, c, s)' => Claims(u, c, s)
      BY <1>3 DEF Claims, Rebound, Same, Binds, Answered
    <2> QED
      BY <1>2, <1>3, <2>1
  <1>4. ASSUME UNCHANGED <<proxyVars, cur, last, app, call, answer>> PROVE KeptInv'
    BY <1>2, <1>4 DEF Claims, Rebound, Binds, Answered
  <1>5. ASSUME NEW t \in Threads, Call(t) PROVE KeptInv'
    <2>0. UNCHANGED <<last, proxyVars, cur>>
      BY <1>5, CallForm DEF driverVars
    <2>1. ASSUME NEW o, NEW c, NEW s, Begins(t, o, c, s) PROVE KeptInv'
      <3>1. /\ \A u \in Threads : u # t => Same(u)
            /\ answer[t] = NoAnswer /\ answer' = answer
        BY <2>1, BeginFacts DEF Same
      <3>2. ~Rebound(t) /\ ~Rebound(t)'
        BY <3>1 DEF Rebound, Answered
      <3> QED
        BY <1>3, <2>0, <2>1, <3>1, <3>2 DEF Begins
    <2>2. ASSUME NEW o, NEW s, Sends(t, o, s) PROVE KeptInv'
      BY <1>4, <2>0, <2>2 DEF Sends
    <2>3. ASSUME NEW s \in Surf, NEW o \in Queries, QueryHit(t, o, s) PROVE KeptInv'
      <3>1. /\ \A u \in Threads : u # t => Same(u)
            /\ call'[t].op = o /\ call[t] = Idle /\ UNCHANGED app
        BY <2>3 DEF QueryHit, Enter, Starts, TypeInv, appVars, Same
      <3>2. ~Rebound(t) /\ ~Rebound(t)'
        BY <3>1, IdleFacts DEF Rebound, Binds, Queries
      <3> QED
        BY <1>3, <2>0, <3>1, <3>2
    <2>4. ASSUME NEW c, NEW s, MakeCurrentAgain(t, c, s) PROVE KeptInv'
      BY <1>4, <2>0, <2>4, AgainQuiet
    <2> QED
      BY <1>5, <2>1, <2>2, <2>3, <2>4, CallForm
  <1>6. ASSUME NEW t \in Threads, Comes(t) PROVE KeptInv'
    <2>1. /\ call'[t].op = "idle" /\ answer'[t] = NoAnswer
          /\ \A u \in Threads : u # t => Same(u)
          /\ UNCHANGED <<proxyVars, cur>>
      BY <1>6, ComesFacts, EndFacts DEF driverVars
    <2>2. ~Rebound(t)'
      BY <2>1 DEF Rebound, Binds
    <2>3. CASE ~ReturnMakeCurrent(t)
      <3>1. UNCHANGED <<last, app>> /\ ~Rebound(t)
        BY <1>6, <2>3, ComesLast DEF Rebound, Binds
      <3> QED
        BY <1>3, <2>1, <2>2, <3>1
    <2>4. CASE ReturnMakeCurrent(t)
      <3>1. /\ Rebound(t)
            /\ \A u \in Threads : u # t => last'[u] = last[u] /\ app'[u] = app[u]
            /\ \/ answer[t].ok /\ last'[t] = <<call[t].c, call[t].s>>
               \/ app'[t] = None
        BY <2>4, RefusedOrBound
      <3>2. ASSUME NEW u \in Threads, NEW c \in Ctx, NEW s \in Surf \cup {0},
                   Claims(u, c, s)'
            PROVE  Claims(u, c, s)
        <4>1. CASE u = t
          <5>1. app'[t] # None /\ last'[t] = <<c, s>>
            BY <2>2, <3>2, <4>1 DEF Claims
          <5> QED
            BY <3>1, <4>1, <5>1 DEF Claims
        <4>2. CASE u # t
          BY <2>1, <3>1, <3>2, <4>2 DEF Claims, Rebound, Same, Binds, Answered
        <4> QED
          BY <4>1, <4>2
      <3> QED
        BY <1>2, <2>1, <3>2
    <2> QED
      BY <2>3, <2>4
  <1>7. CASE Dispatch
    BY <1>7, KeptDispatch
  <1>8. CASE UNCHANGED vars
    BY <1>4, <1>8 DEF vars, proxyVars, driverVars, appVars
  <1> QED
    BY <1>5, <1>6, <1>7, <1>8 DEF Next

-----------------------------------------------------------------------------
(* Commands act on what their threads have current *)

(* A command that draws is sent with the context last[] names.             *)
LEMMA SentDraws ==
  ASSUME TypeInv, CallInv, LastInv, NEW t \in Threads, NEW o \in {"gl", "getCurrent"},
         NEW c, NEW s, Starts(t, o, c, s)
  PROVE  /\ app[t] # None /\ ~Rebound(t)
         /\ last[t] # <<>> /\ g_stub_current_ctx[t] = last[t][1]
  <1>1. call[t] = Idle /\ Sensible(t, o, c, s)
    BY DEF Starts
  <1>2. ~Binds(t)
    BY <1>1, IdleFacts DEF Binds
  <1>3. app[t] # None
    BY <1>1, Meant
  <1> QED
    BY <1>2, <1>3 DEF LastInv, LastOf, Rebound

LEMMA DrawStep ==
  ASSUME TypeInv, CallInv, ArgumentInv, LastInv, DrawInv, [Next]_vars
  PROVE  DrawInv'
  <1> DEFINE Draws(m) == m.op \in {"gl", "getCurrent"}
             Apt(m) == /\ app[m.t] # None /\ ~Rebound(m.t)
                       /\ m.want = app[m.t] /\ m.ctx = last[m.t][1]
  <1>1. \A k \in DOMAIN ring : Draws(ring[k]) => Apt(ring[k])
    BY DEF DrawInv
  <1>2. ASSUME \A k \in DOMAIN ring' : \A m : m = ring'[k] /\ Draws(m) => Apt(m)'
        PROVE  DrawInv'
    BY <1>2 DEF DrawInv, Rebound, Binds, Answered
  <1>3. \A k \in DOMAIN ring : ring[k].t \in Threads
    <2>1. \A k \in DOMAIN ring : ring[k] \in Command
      BY DEF TypeInv
    <2> QED
      BY <2>1 DEF Command
  <1>4. ASSUME UNCHANGED <<last, app>>,
               \A u \in Threads : Rebound(u)' => Rebound(u)
        PROVE  \A k \in DOMAIN ring : \A m : m = ring[k] /\ Draws(m) => Apt(m)'
    BY <1>1, <1>3, <1>4
  <1>5. ASSUME UNCHANGED <<last, app, ring>>,
               \A u \in Threads : Rebound(u)' => Rebound(u)
        PROVE  DrawInv'
    <2> HIDE DEF Draws, Apt
    <2> QED
      BY <1>2, <1>4, <1>5
  <1>6. ASSUME NEW t \in Threads, NEW o \in Kinds, NEW c \in Handle, NEW s \in Argument,
               Post(t, o, c, s), Starts(t, o, c, s), UNCHANGED <<last, app>>,
               \A u \in Threads : Rebound(u)' => Rebound(u)
        PROVE  DrawInv'
    <2>1. /\ Len(ring) \in Nat /\ DOMAIN ring = 1 .. Len(ring)
          /\ DOMAIN ring' = 1 .. Len(ring) + 1
          /\ ring'[Len(ring) + 1] = Sent(t, o, c, s)
          /\ \A k \in DOMAIN ring : ring'[k] = ring[k]
      BY <1>6, PostFacts
    <2>2. ASSUME NEW m, m = Sent(t, o, c, s), Draws(m) PROVE Apt(m)'
      <3>1. m.op = o /\ m.t = t /\ m.want = app[t] /\ m.ctx = g_stub_current_ctx[t]
        BY <2>2 DEF Sent
      <3>2. app[t] # None /\ ~Rebound(t) /\ g_stub_current_ctx[t] = last[t][1]
        BY <1>6, <2>2, <3>1, SentDraws
      <3> QED
        BY <1>6, <3>1, <3>2
    <2> HIDE DEF Draws, Apt
    <2>3. ASSUME NEW k \in DOMAIN ring', NEW m, m = ring'[k], Draws(m) PROVE Apt(m)'
      <3>1. CASE k \in DOMAIN ring
        BY <1>4, <1>6, <2>1, <2>3, <3>1
      <3>2. CASE k = Len(ring) + 1
        BY <2>1, <2>2, <2>3, <3>2
      <3> QED
        BY <2>1, <3>1, <3>2
    <2> QED
      BY <1>2, <2>3
  <1>7. ASSUME NEW t \in Threads, Call(t) PROVE DrawInv'
    <2>0. UNCHANGED last
      BY <1>7, CallForm
    <2>1. ASSUME NEW o, NEW c, NEW s, Begins(t, o, c, s) PROVE DrawInv'
      <3>1. /\ \A u \in Threads : u # t => call'[u] = call[u]
            /\ answer[t] = NoAnswer /\ answer' = answer
        BY <2>1, BeginFacts
      <3>2. \A u \in Threads : Rebound(u)' => Rebound(u)
        BY <3>1 DEF Rebound, Binds, Answered
      <3>3. o \in Kinds /\ c \in Handle /\ s \in Argument
        BY <2>1 DEF Begins, Formed, Kinds, Posts
      <3> QED
        BY <1>6, <2>0, <2>1, <3>2, <3>3 DEF Begins
    <2>2. ASSUME NEW o, NEW s, Sends(t, o, s) PROVE DrawInv'
      <3>1. o \in Kinds /\ 0 \in Handle /\ s \in Argument
        BY <2>2 DEF Sends, Formed, Kinds, Posts, Handle
      <3>2. \A u \in Threads : Rebound(u)' => Rebound(u)
        BY <2>2 DEF Sends, Rebound, Binds, Answered
      <3> QED
        BY <1>6, <2>0, <2>2, <3>1, <3>2 DEF Sends
    <2>3. ASSUME NEW s \in Surf, NEW o \in Queries, QueryHit(t, o, s) PROVE DrawInv'
      <3>1. /\ \A u \in Threads : u # t => Same(u)
            /\ call'[t].op = o /\ UNCHANGED <<app, ring>>
        BY <2>3 DEF QueryHit, Enter, Starts, TypeInv, appVars, Same
      <3>2. \A u \in Threads : Rebound(u)' => Rebound(u)
        BY <3>1 DEF Rebound, Binds, Answered, Same, Queries
      <3> QED
        BY <1>5, <2>0, <3>1, <3>2
    <2>4. ASSUME NEW c, NEW s, MakeCurrentAgain(t, c, s) PROVE DrawInv'
      <3>1. UNCHANGED <<app, call, answer, ring>>
        BY <2>4, AgainQuiet
      <3> QED
        BY <1>5, <2>0, <3>1 DEF Rebound, Binds, Answered
    <2> QED
      BY <1>7, <2>1, <2>2, <2>3, <2>4, CallForm
  <1>8. ASSUME NEW t \in Threads, Comes(t) PROVE DrawInv'
    <2>1. /\ ~Binds(t)' /\ \A u \in Threads : u # t => Same(u)
          /\ UNCHANGED ring
      BY <1>8, ComesFacts, EndFacts DEF Binds
    <2>2. \A u \in Threads : Rebound(u)' => Rebound(u)
      BY <2>1 DEF Rebound, Binds, Answered, Same
    <2>3. CASE ~ReturnMakeCurrent(t)
      BY <1>5, <1>8, <2>1, <2>2, <2>3, ComesLast
    <2>4. CASE ReturnMakeCurrent(t)
      <3>1. /\ Rebound(t)
            /\ \A u \in Threads : u # t => last'[u] = last[u] /\ app'[u] = app[u]
        BY <2>4, RefusedOrBound
      <3>2. ASSUME NEW k \in DOMAIN ring', NEW m, m = ring'[k], Draws(m) PROVE Apt(m)'
        <4>1. Apt(m) /\ m.t \in Threads
          BY <1>1, <1>3, <2>1, <3>2
        <4>2. m.t # t
          BY <3>1, <4>1
        <4> QED
          BY <2>2, <3>1, <4>1, <4>2
      <3> HIDE DEF Draws, Apt
      <3> QED
        BY <1>2, <3>2
    <2> QED
      BY <2>3, <2>4
  <1>9. CASE Dispatch
    <2>1. /\ ring # <<>> /\ ring' = Tail(ring) /\ UNCHANGED <<last, app, call>>
      BY <1>9, FrontForm DEF appVars
    <2>2. \A k \in DOMAIN ring' : k + 1 \in DOMAIN ring /\ ring'[k] = ring[k + 1]
      BY <2>1, FrontFacts
    <2>3. DOMAIN ring' = {} \/ answer' = answer
      BY <1>9, FrontForm
    <2>4. CASE DOMAIN ring' = {}
      BY <1>2, <2>4
    <2>5. CASE answer' = answer
      <3>1. \A u \in Threads : Rebound(u)' => Rebound(u)
        BY <2>1, <2>5 DEF Rebound, Binds, Answered
      <3> HIDE DEF Draws, Apt
      <3>2. \A k \in DOMAIN ring : \A m : m = ring[k] /\ Draws(m) => Apt(m)'
        BY <1>4, <2>1, <3>1
      <3>3. \A k \in DOMAIN ring' : \A m : m = ring'[k] /\ Draws(m) => Apt(m)'
        BY <2>2, <3>2
      <3> QED
        BY <1>2, <3>3
    <2> QED
      BY <2>3, <2>4, <2>5
  <1>10. CASE UNCHANGED vars
    BY <1>5, <1>10 DEF vars, appVars, Rebound, Binds, Answered
  <1> QED
    BY <1>7, <1>8, <1>9, <1>10 DEF Next

-----------------------------------------------------------------------------
(* egl_bind_target_ctx() makes current what the command needs.  The proxy  *)
(* does not re-bind context MAX_CONTEXTS.                                  *)
LEMMA DrawsOnOwn ==
  ASSUME TypeInv, ContextInv, LimitInv, LastInv, KeptInv, DrawInv,
         MaxLive < MAX_CONTEXTS, 1 \in DOMAIN ring,
         NEW m \in Command, m = ring[1], m.op \in {"gl", "getCurrent"}
  PROVE  /\ CurFor(m) = app[m.t] /\ m.want = app[m.t]
         /\ \E c \in Ctx : /\ egl_contexts[c] = app[m.t].ctx /\ ctxOf[c] = app[m.t].ctx
                           /\ app[m.t].ctx # 0
  <1> DEFINE t == m.t
  <1>1. t \in Threads
    BY DEF Command
  <1>2. app[t] # None /\ ~Rebound(t) /\ m.want = app[t] /\ m.ctx = last[t][1]
    BY DEF DrawInv
  <1>3. PICK c \in Ctx \cup {0}, s \in Surf \cup {0} : last[t] = <<c, s>>
    BY <1>1, <1>2 DEF LastInv, LastOf, TypeInv, TypeOK
  <1>4. /\ m.ctx = c /\ app[t] = Bound(c, s) /\ Exists(c, s) /\ (c = 0 => s = 0)
    <2>1. last[t] # <<>> /\ last[t][1] = c /\ last[t][2] = s
      BY <1>3
    <2> QED
      BY <1>1, <1>2, <2>1 DEF LastInv, LastOf
  <1>5. c \in Ctx /\ c # 0
    BY <1>2, <1>4 DEF Bound, None
  <1>6. app[t].ctx = ctxOf[c] /\ ctxOf[c] # 0
        /\ app[t] = [ctx |-> ctxOf[c], draw |-> app[t].draw]
    BY <1>4, <1>5 DEF Bound, Exists
  <1>7. egl_contexts[c] = ctxOf[c]
    BY <1>5, <1>6 DEF ContextInv, TableInv, TypeInv, TypeOK
  <1>8. c < MAX_CONTEXTS
    <2>1. c <= MaxLive
      BY <1>5, <1>6, <1>7 DEF LimitInv
    <2> QED
      BY <1>5, <2>1, EglAssumption DEF Ctx
  <1>9. Keeps(c, app[t])
    BY <1>1, <1>2, <1>3, <1>4, <1>5 DEF KeptInv, Claims
  <1>10. CurFor(m) = app[t]
    <2>1. CASE c = g_current_ctx
      BY <1>4, <1>9, <2>1 DEF CurFor, Rebinds, Keeps
    <2>2. CASE c # g_current_ctx
      <3>1. Rebinds(m)
        BY <1>4, <1>5, <1>6, <1>7, <1>8, <1>9, <2>2 DEF Rebinds, Keeps
      <3>2. CurFor(m) = [ctx |-> egl_contexts[c], draw |-> g_ctx_bindings[c].draw]
        BY <1>4, <3>1 DEF CurFor
      <3>3. g_ctx_bindings[c].draw = app[t].draw
        BY <1>9 DEF Keeps
      <3> QED
        BY <1>6, <1>7, <3>2, <3>3
    <2> QED
      BY <2>1, <2>2
  <1> QED
    BY <1>2, <1>5, <1>6, <1>7, <1>10

(* The index of a context in the table is the only one.                    *)
LEMMA IndexOfOwn ==
  ASSUME TypeInv, ContextInv, NEW c \in Ctx, egl_contexts[c] # 0
  PROVE  IndexOf(egl_contexts[c]) = c
  <1> DEFINE obj == egl_contexts[c]
             Is == {i \in Ctx : egl_contexts[i] = obj}
  <1>1. c \in Is /\ Is \subseteq Nat
    BY DEF Ctx
  <1>2. Lowest(Is) \in Is
    BY <1>1, LowestFact
  <1>3. \A i \in Is : i = c
    BY DEF ContextInv, TableInv, TypeInv, TypeOK
  <1> QED
    BY <1>1, <1>2, <1>3 DEF IndexOf

LEMMA CurrentStep ==
  ASSUME TypeInv, CallInv, ArgumentInv, ContextInv, SurfaceInv, LimitInv, LastInv,
         KeptInv, DrawInv, CurrentInv, MaxLive < MAX_CONTEXTS, [Next]_vars
  PROVE  CurrentInv'
  <1> DEFINE Asked(u) == Answered(u) /\ call[u].op = "getCurrent"
  <1>1. \A u \in Threads : Spared(u)
    BY SparedAll
  <1>2. ASSUME NEW u \in Threads, Asked(u)
        PROVE  /\ answer[u].of \in Ctx /\ ctxOf[answer[u].of] = app[u].ctx
               /\ ctxOf'[answer[u].of] = app[u].ctx
    <2>1. answer[u].of \in Ctx /\ ctxOf[answer[u].of] = app[u].ctx
      BY <1>2 DEF CurrentInv
    <2>2. app[u].ctx # 0
      <3>1. app[u] # None /\ LastOf(u)
        BY <1>2 DEF LastInv, LastOf
      <3> QED
        BY <3>1 DEF LastOf, Bound, Exists, None
    <2>3. Uses(u, answer[u].of, 0)
      BY <2>1, <2>2 DEF Uses, Ctx
    <2> QED
      BY <1>1, <2>1, <2>2, <2>3 DEF Spared
  <1>3. ASSUME \A u \in Threads : Asked(u)' => Same(u) /\ app'[u] = app[u]
        PROVE  CurrentInv'
    <2> SUFFICES ASSUME NEW u \in Threads, Asked(u)'
                 PROVE  answer'[u].of \in Ctx /\ ctxOf'[answer'[u].of] = app'[u].ctx
      BY DEF CurrentInv
    <2>1. Same(u) /\ app'[u] = app[u]
      BY <1>3
    <2>2. Asked(u)
      BY <2>1 DEF Same, Answered
    <2> QED
      BY <1>2, <2>1, <2>2 DEF Same
  <1>4. ASSUME NEW t \in Threads, Call(t) PROVE CurrentInv'
    <2>1. ASSUME NEW o, NEW c, NEW s, Begins(t, o, c, s) PROVE CurrentInv'
      <3>1. /\ \A u \in Threads : u # t => Same(u)
            /\ ~Answered(t)' /\ UNCHANGED app
        BY <2>1, BeginFacts DEF Same, Answered, Begins
      <3> QED
        BY <1>3, <3>1
    <2>2. ASSUME NEW o, NEW s, Sends(t, o, s) PROVE CurrentInv'
      BY <1>3, <2>2 DEF Sends, Same
    <2>3. ASSUME NEW s \in Surf, NEW o \in Queries, QueryHit(t, o, s) PROVE CurrentInv'
      <3>1. /\ \A u \in Threads : u # t => Same(u)
            /\ call'[t].op # "getCurrent" /\ UNCHANGED app
        BY <2>3 DEF QueryHit, Enter, Starts, TypeInv, appVars, Same, Queries
      <3> QED
        BY <1>3, <3>1
    <2>4. ASSUME NEW c, NEW s, MakeCurrentAgain(t, c, s) PROVE CurrentInv'
      BY <1>3, <2>4, AgainQuiet DEF Same
    <2> QED
      BY <1>4, <2>1, <2>2, <2>3, <2>4, CallForm
  <1>5. ASSUME NEW t \in Threads, Comes(t) PROVE CurrentInv'
    <2>1. /\ ~Answered(t)' /\ \A u \in Threads : u # t => Same(u)
      BY <1>5, ComesFacts, EndFacts DEF Answered
    <2>2. \A u \in Threads : u # t => app'[u] = app[u]
      BY <1>5, ComesLast, RefusedOrBound
    <2> QED
      BY <1>3, <2>1, <2>2
  <1>6. CASE Dispatch
    <2>1. UNCHANGED <<app, call, ctxOf>>
      BY <1>6, FrontForm DEF appVars
    <2>2. PICK m \in Command, t \in Threads :
            /\ m = Front /\ m = ring[1] /\ 1 \in DOMAIN ring /\ m.t = t
            /\ m.op \in Calls => /\ call[t].op = m.op
                                 /\ \A u \in Threads : u # t => Same(u)
            /\ m.op \notin Calls => answer' = answer
      BY <1>6, FrontForm
    <2>3. CASE m.op # "getCurrent"
      <3>1. \A u \in Threads : Asked(u)' => Same(u)
        BY <2>1, <2>2, <2>3 DEF Same
      <3> QED
        BY <1>3, <2>1, <3>1
    <2>4. CASE m.op = "getCurrent"
      <3>1. RunAsk(m)
        BY <1>6, <2>2, <2>4 DEF Dispatch, Front, RunCreateContext, RunCreateSurface,
           RunMakeCurrent, RunDestroyContext, RunDestroySurface, RunReleaseThread,
           RunPost, Posts
      <3>2. Reply(m, Answer(TRUE, IndexOf(CurFor(m).ctx), 0))
        BY <2>4, <3>1 DEF RunAsk
      <3>3. PICK c \in Ctx : /\ egl_contexts[c] = app[t].ctx /\ ctxOf[c] = app[t].ctx
                             /\ app[t].ctx # 0 /\ CurFor(m) = app[t]
        BY <2>2, <2>4, DrawsOnOwn
      <3>4. answer'[t] = Answer(TRUE, c, 0)
        <4>1. IndexOf(CurFor(m).ctx) = c
          BY <3>3, IndexOfOwn
        <4> QED
          BY <2>2, <3>2, <4>1 DEF Reply, TypeInv
      <3>5. ASSUME NEW u \in Threads, Asked(u)'
            PROVE  answer'[u].of \in Ctx /\ ctxOf'[answer'[u].of] = app'[u].ctx
        <4>1. CASE u = t
          BY <2>1, <3>3, <3>4, <4>1 DEF Answer
        <4>2. CASE u # t
          <5>1. Same(u)
            BY <2>2, <2>4, <4>2 DEF Calls
          <5>2. Asked(u)
            BY <3>5, <5>1 DEF Same, Answered
          <5> QED
            BY <1>2, <2>1, <5>1, <5>2 DEF Same
        <4> QED
          BY <4>1, <4>2
      <3> QED
        BY <3>5 DEF CurrentInv
    <2> QED
      BY <2>3, <2>4
  <1>7. CASE UNCHANGED vars
    BY <1>3, <1>7 DEF vars, appVars, Same
  <1> QED
    BY <1>4, <1>5, <1>6, <1>7 DEF Next

-----------------------------------------------------------------------------
(* What is under way *)

PlacesIn(q, o, s) == {k \in DOMAIN q : q[k].op = o /\ q[k].s = s}

LEMMA PlacesFinite ==
  ASSUME NEW q \in Seq(Command), NEW o, NEW s
  PROVE  IsFiniteSet(PlacesIn(q, o, s)) /\ Cardinality(PlacesIn(q, o, s)) \in Nat
  <1>1. Len(q) \in Nat /\ DOMAIN q = 1 .. Len(q)
    OBVIOUS
  <1>2. IsFiniteSet(1 .. Len(q))
    BY <1>1, FS_Interval
  <1>3. PlacesIn(q, o, s) \in SUBSET (1 .. Len(q))
    BY <1>1 DEF PlacesIn
  <1> QED
    BY <1>2, <1>3, FS_Subset, FS_CardinalityType

LEMMA PlacesAppend ==
  ASSUME NEW q \in Seq(Command), NEW e \in Command, NEW o, NEW s
  PROVE  Cardinality(PlacesIn(Append(q, e), o, s))
           = Cardinality(PlacesIn(q, o, s)) + IF e.op = o /\ e.s = s THEN 1 ELSE 0
  <1> DEFINE P == PlacesIn(q, o, s)
             n == Len(q) + 1
  <1>1. /\ Len(q) \in Nat /\ DOMAIN q = 1 .. Len(q) /\ DOMAIN Append(q, e) = 1 .. n
        /\ Append(q, e)[n] = e /\ \A k \in DOMAIN q : Append(q, e)[k] = q[k]
    BY AppendFacts
  <1>2. IsFiniteSet(P) /\ Cardinality(P) \in Nat
    BY PlacesFinite
  <1>3. n \notin P
    BY <1>1 DEF PlacesIn
  <1>4. CASE e.op = o /\ e.s = s
    <2>1. PlacesIn(Append(q, e), o, s) = P \cup {n}
      BY <1>1, <1>4 DEF PlacesIn
    <2>2. Cardinality(P \cup {n}) = Cardinality(P) + 1
      BY <1>2, <1>3, FS_AddElement
    <2> QED
      BY <1>4, <2>1, <2>2
  <1>5. CASE ~(e.op = o /\ e.s = s)
    <2>1. PlacesIn(Append(q, e), o, s) = P
      BY <1>1, <1>5 DEF PlacesIn
    <2> QED
      BY <1>2, <1>5, <2>1
  <1> QED
    BY <1>4, <1>5

LEMMA PlacesTail ==
  ASSUME NEW q \in Seq(Command), q # <<>>, NEW o, NEW s
  PROVE  Cardinality(PlacesIn(q, o, s))
           = Cardinality(PlacesIn(Tail(q), o, s))
               + IF q[1].op = o /\ q[1].s = s THEN 1 ELSE 0
  <1> DEFINE P == PlacesIn(q, o, s) \ {1}
             R == PlacesIn(Tail(q), o, s)
             f == [k \in R |-> k + 1]
  <1>1. /\ Tail(q) \in Seq(Command) /\ Len(q) \in Nat /\ Len(q) >= 1
        /\ DOMAIN q = 1 .. Len(q) /\ DOMAIN Tail(q) = 1 .. Len(q) - 1
        /\ \A k \in DOMAIN Tail(q) : k + 1 \in DOMAIN q /\ Tail(q)[k] = q[k + 1]
    BY TailFacts
  <1>2. /\ IsFiniteSet(PlacesIn(q, o, s)) /\ IsFiniteSet(R)
        /\ Cardinality(PlacesIn(q, o, s)) \in Nat /\ Cardinality(R) \in Nat
    BY <1>1, PlacesFinite
  <1>3. R \subseteq 1 .. Len(q) - 1 /\ P \subseteq 2 .. Len(q)
    BY <1>1 DEF PlacesIn
  <1>4. \A k \in R : k + 1 \in P
    BY <1>1, <1>3 DEF PlacesIn
  <1>5. \A j \in P : j - 1 \in R /\ (j - 1) + 1 = j
    BY <1>1, <1>3 DEF PlacesIn
  <1>6. f \in Bijection(R, P)
    <2>1. f \in [R -> P]
      BY <1>4
    <2>2. \A a, b \in R : f[a] = f[b] => a = b
      BY <1>1, <1>3
    <2>3. \A j \in P : \E k \in R : f[k] = j
      BY <1>5
    <2> HIDE DEF f, P, R
    <2>4. f \in Injection(R, P)
      BY <2>1, <2>2 DEF Injection, IsInjective
    <2>5. f \in Surjection(R, P)
      BY <2>1, <2>3 DEF Surjection
    <2> QED
      BY <2>4, <2>5 DEF Bijection
  <1>7. Cardinality(P) = Cardinality(R)
    BY <1>2, <1>6, FS_Bijection DEF ExistsBijection
  <1>8. CASE q[1].op = o /\ q[1].s = s
    <2>1. 1 \in PlacesIn(q, o, s)
      BY <1>1, <1>8 DEF PlacesIn
    <2>2. Cardinality(P) = Cardinality(PlacesIn(q, o, s)) - 1
      BY <1>2, <2>1, FS_RemoveElement
    <2> QED
      BY <1>2, <1>7, <1>8, <2>2
  <1>9. CASE ~(q[1].op = o /\ q[1].s = s)
    <2>1. PICK S : S = PlacesIn(q, o, s)
      OBVIOUS
    <2>2. S \ {1} = S
      BY <1>9, <2>1 DEF PlacesIn
    <2>3. Cardinality(S) = Cardinality(R)
      BY <1>7, <2>1, <2>2
    <2> QED
      BY <1>2, <1>9, <2>1, <2>3
  <1> QED
    BY <1>8, <1>9

LEMMA UnderwayPlaces ==
  ASSUME TypeInv, TypeInv', NEW o, NEW s
  PROVE  /\ Underway(o, s) = Cardinality(PlacesIn(ring, o, s)) /\ Underway(o, s) \in Nat
         /\ Underway(o, s)' = Cardinality(PlacesIn(ring', o, s)) /\ Underway(o, s)' \in Nat
  <1>1. /\ Underway(o, s) = Cardinality(PlacesIn(ring, o, s))
        /\ Underway(o, s)' = Cardinality(PlacesIn(ring', o, s))
    BY DEF Underway, Places, PlacesIn
  <1>2. ring \in Seq(Command) /\ ring' \in Seq(Command)
    BY DEF TypeInv
  <1> QED
    BY <1>1, <1>2, PlacesFinite

(* A command sent, a command run.                                          *)
LEMMA UnderwayPost ==
  ASSUME TypeInv, TypeInv', NEW t \in Threads, NEW o \in Kinds, NEW c \in Handle,
         NEW s \in Argument, Post(t, o, c, s), NEW p, NEW r
  PROVE  Underway(p, r)' = Underway(p, r) + IF o = p /\ s = r THEN 1 ELSE 0
  <1>1. ring' = Append(ring, Sent(t, o, c, s)) /\ ring \in Seq(Command)
    BY DEF Post, Sent, TypeInv
  <1>2. Sent(t, o, c, s) \in Command
    <2>1. g_stub_current_ctx[t] \in Handle /\ app[t] \in Binding
      BY DEF TypeInv, TypeOK, Handle
    <2> QED
      BY <2>1 DEF Sent, Command
  <1>3. Sent(t, o, c, s).op = o /\ Sent(t, o, c, s).s = s
    BY DEF Sent
  <1>4. Cardinality(PlacesIn(Append(ring, Sent(t, o, c, s)), p, r))
           = Cardinality(PlacesIn(ring, p, r)) + IF o = p /\ s = r THEN 1 ELSE 0
    BY <1>1, <1>2, <1>3, PlacesAppend
  <1> QED
    BY <1>1, <1>4, UnderwayPlaces

LEMMA UnderwayRun ==
  ASSUME TypeInv, TypeInv', ring # <<>>, ring' = Tail(ring), NEW p, NEW r
  PROVE  Underway(p, r) = Underway(p, r)' + IF ring[1].op = p /\ ring[1].s = r THEN 1 ELSE 0
  <1>1. ring \in Seq(Command)
    BY DEF TypeInv
  <1>2. Cardinality(PlacesIn(ring, p, r)) = Cardinality(PlacesIn(Tail(ring), p, r))
               + IF ring[1].op = p /\ ring[1].s = r THEN 1 ELSE 0
    BY <1>1, PlacesTail
  <1> QED
    BY <1>2, UnderwayPlaces

-----------------------------------------------------------------------------
(* What the program knows to be over has happened *)

LEMMA UnderwaySame ==
  ASSUME UNCHANGED ring, NEW o, NEW s
  PROVE  Underway(o, s)' = Underway(o, s)
  BY DEF Underway, Places

LEMMA ResizersFacts ==
  ASSUME NEW w
  PROVE  /\ IsFiniteSet(Resizers(w)) /\ Cardinality(Resizers(w)) \in Nat
         /\ IsFiniteSet(Resizers(w)') /\ Cardinality(Resizers(w)') \in Nat
  <1>1. Resizers(w) \in SUBSET Threads /\ Resizers(w)' \in SUBSET Threads
    BY DEF Resizers
  <1>2. {} \in SUBSET Ctx
    OBVIOUS
  <1> QED
    BY <1>1, <1>2, CountFacts

(* A resize is known to be over only when it has been sent.                *)
LEMMA SizeFloor ==
  ASSUME TypeInv, TypeInv', CallInv, ArgumentInv, FloorInv, [Next]_vars,
         NEW w \in Windows
  PROVE  floor'.size[w] + Cardinality(Resizers(w)')
           <= size'[w] + Underway("resize", w)'
  <1> DEFINE Bounded == floor'.size[w] + Cardinality(Resizers(w)')
                          <= size'[w] + Underway("resize", w)'
  <1>1. /\ floor.size[w] \in Nat /\ floor'.size[w] \in Nat
        /\ size[w] \in Nat /\ size'[w] \in Nat
        /\ Cardinality(Resizers(w)) \in Nat /\ Cardinality(Resizers(w)') \in Nat
        /\ Underway("resize", w) \in Nat /\ Underway("resize", w)' \in Nat
    BY ResizersFacts, UnderwayPlaces DEF TypeInv
  <1>2. floor.size[w] + Cardinality(Resizers(w)) <= size[w] + Underway("resize", w)
    BY DEF FloorInv
  <1>3. ASSUME floor'.size = floor.size, size' = size, Resizers(w)' = Resizers(w),
               Underway("resize", w)' = Underway("resize", w)
        PROVE  Bounded
    BY <1>2, <1>3
  <1>4. ASSUME UNCHANGED <<floor, size, call, ring>> PROVE Bounded
    BY <1>3, <1>4, UnderwaySame DEF Resizers
  <1>5. ASSUME NEW t \in Threads, Call(t) PROVE Bounded
    <2>0. size' = size
      BY <1>5, CallForm DEF driverVars
    <2>1. ASSUME NEW o, NEW c, NEW s, Begins(t, o, c, s) PROVE Bounded
      <3>1. /\ \A u \in Threads : u # t => call'[u] = call[u]
            /\ call'[t].op = o /\ call'[t].s = s /\ call[t].op = "idle"
        BY <2>1, BeginFacts
      <3>2. o \in Kinds /\ c \in Handle /\ s \in Argument
            /\ Post(t, o, c, s) /\ floor' = floor
        BY <2>1 DEF Begins, Formed, Kinds, Posts
      <3>3. Underway("resize", w)'
              = Underway("resize", w) + IF o = "resize" /\ s = w THEN 1 ELSE 0
        BY <3>2, UnderwayPost
      <3>4. CASE o = "resize" /\ s = w
        <4>1. Resizers(w)' = Resizers(w) \cup {t} /\ t \notin Resizers(w)
          BY <3>1, <3>4 DEF Resizers
        <4>2. Cardinality(Resizers(w)') = Cardinality(Resizers(w)) + 1
          BY <4>1, ResizersFacts, FS_AddElement
        <4> QED
          BY <1>1, <1>2, <2>0, <3>2, <3>3, <3>4, <4>2
      <3>5. CASE ~(o = "resize" /\ s = w)
        <4>1. Resizers(w)' = Resizers(w)
          BY <3>1, <3>5 DEF Resizers
        <4> QED
          BY <1>1, <1>3, <2>0, <3>2, <3>3, <3>5, <4>1
      <3> QED
        BY <3>4, <3>5
    <2>2. ASSUME NEW o, NEW s, Sends(t, o, s) PROVE Bounded
      <3>1. /\ o \in Kinds /\ 0 \in Handle /\ s \in Argument /\ o # "resize"
            /\ Post(t, o, 0, s) /\ (o = "swap" => s \in Surf)
        BY <2>2 DEF Sends, Formed, Kinds, Posts, Handle
      <3>2. Underway("resize", w)' = Underway("resize", w)
        BY <1>1, <3>1, UnderwayPost
      <3>3. floor'.size = floor.size
        <4>1. CASE o = "swap"
          <5>1. floor \in Floors /\ floor.swaps[s] + 1 \in Nat
            BY <3>1, <4>1 DEF TypeInv, Floors
          <5>2. floor' = [floor EXCEPT !.swaps[s] = floor.swaps[s] + 1]
            BY <2>2, <4>1 DEF Sends
          <5> QED
            BY <5>1, <5>2, SwapsKnown
        <4>2. CASE o # "swap"
          BY <2>2, <4>2 DEF Sends
        <4> QED
          BY <4>1, <4>2
      <3>4. Resizers(w)' = Resizers(w)
        BY <2>2 DEF Sends, Resizers
      <3> QED
        BY <1>3, <2>0, <3>2, <3>3, <3>4
    <2>3. ASSUME NEW s \in Surf, NEW o \in Queries, QueryHit(t, o, s) PROVE Bounded
      <3>1. /\ \A u \in Threads : u # t => call'[u] = call[u]
            /\ call'[t].op = o /\ call[t] = Idle /\ UNCHANGED <<floor, ring>>
        BY <2>3 DEF QueryHit, Enter, Starts, TypeInv, appVars
      <3>2. Resizers(w)' = Resizers(w)
        BY <3>1, IdleFacts DEF Resizers, Queries
      <3> QED
        BY <1>3, <2>0, <3>1, <3>2, UnderwaySame
    <2>4. ASSUME NEW c, NEW s, MakeCurrentAgain(t, c, s) PROVE Bounded
      <3>1. UNCHANGED <<floor, call, ring>>
        BY <2>4 DEF MakeCurrentAgain
      <3> QED
        BY <1>4, <2>0, <3>1
    <2> QED
      BY <1>5, <2>1, <2>2, <2>3, <2>4, CallForm
  <1>6. ASSUME NEW t \in Threads, Comes(t) PROVE Bounded
    <2>1. /\ call'[t].op = "idle" /\ \A u \in Threads : u # t => call'[u] = call[u]
          /\ UNCHANGED <<ring, size>>
      BY <1>6, ComesFacts, EndFacts DEF Same, driverVars
    <2>2. Underway("resize", w)' = Underway("resize", w)
      BY <2>1, UnderwaySame
    <2>3. CASE Resized(t)
      <3>1. /\ call[t].op = "resize" /\ call[t].s \in Windows
            /\ floor' = [floor EXCEPT !.size[call[t].s] = floor.size[call[t].s] + 1]
        BY <2>3 DEF Resized, ArgumentInv
      <3>2. floor \in Floors /\ floor.size[call[t].s] + 1 \in Nat
        BY <3>1 DEF TypeInv, Floors
      <3>3. floor'.size = [floor.size EXCEPT ![call[t].s] = floor.size[call[t].s] + 1]
        BY <3>1, <3>2, SizesKnown
      <3>4. CASE call[t].s = w
        <4>1. floor'.size[w] = floor.size[w] + 1
          BY <3>2, <3>3, <3>4 DEF Floors
        <4>2. Resizers(w)' = Resizers(w) \ {t} /\ t \in Resizers(w)
          BY <2>1, <3>1, <3>4 DEF Resizers
        <4>3. Cardinality(Resizers(w)') = Cardinality(Resizers(w)) - 1
          BY <4>2, ResizersFacts, FS_RemoveElement
        <4> QED
          BY <1>1, <1>2, <2>1, <2>2, <4>1, <4>3
      <3>5. CASE call[t].s # w
        <4>1. floor'.size[w] = floor.size[w]
          BY <3>2, <3>3, <3>5 DEF Floors
        <4>2. Resizers(w)' = Resizers(w)
          BY <2>1, <3>5 DEF Resizers
        <4> QED
          BY <1>2, <2>1, <2>2, <4>1, <4>2
      <3> QED
        BY <3>4, <3>5
    <2>4. CASE ~Resized(t)
      <3>1. call[t].op # "resize"
        BY <1>6, <2>4 DEF Comes, ReturnQuery, ReturnCreate, ReturnMakeCurrent,
           ReturnPlain, Back, Queries, Leaves
      <3>2. Resizers(w)' = Resizers(w)
        BY <2>1, <3>1 DEF Resizers
      <3>3. floor'.size = floor.size
        <4>1. floor' = floor \/ \E i : floor' = [floor EXCEPT !.swaps[i] = 0]
          BY <1>6, <2>4 DEF Comes, ReturnQuery, ReturnCreate, ReturnMakeCurrent,
             ReturnPlain, appVars
        <4>2. floor \in Floors /\ 0 \in Nat
          BY DEF TypeInv, Floors
        <4>3. ASSUME NEW i, floor' = [floor EXCEPT !.swaps[i] = 0]
              PROVE  floor'.size = floor.size
          BY <4>2, <4>3, SwapsKnown
        <4> QED
          BY <4>1, <4>3
      <3> QED
        BY <1>3, <2>1, <2>2, <3>2, <3>3
    <2> QED
      BY <2>3, <2>4
  <1>7. CASE Dispatch
    <2>1. /\ ring # <<>> /\ ring' = Tail(ring) /\ UNCHANGED <<call, floor>>
      BY <1>7, FrontForm DEF appVars
    <2>2. PICK m \in Command : m = Front /\ m = ring[1]
      BY <1>7, FrontForm
    <2>3. Resizers(w)' = Resizers(w)
      BY <2>1 DEF Resizers
    <2>4. Underway("resize", w)
            = Underway("resize", w)' + IF m.op = "resize" /\ m.s = w THEN 1 ELSE 0
      BY <2>1, <2>2, UnderwayRun
    <2>5. CASE m.op = "resize"
      <3>1. size' = [size EXCEPT ![m.s] = size[m.s] + 1]
        BY <1>7, <2>2, <2>5 DEF Dispatch, Front, RunCreateContext, RunCreateSurface,
           RunMakeCurrent, RunDestroyContext, RunDestroySurface, RunReleaseThread,
           RunAsk, RunPost
      <3>2. size'[w] = size[w] + IF m.s = w THEN 1 ELSE 0
        BY <1>1, <3>1 DEF TypeInv
      <3> QED
        BY <1>1, <1>2, <2>1, <2>3, <2>4, <2>5, <3>2
    <2>6. CASE m.op # "resize"
      <3>1. size' = size
        BY <1>7, <2>2, <2>6 DEF Dispatch, Front, RunCreateContext, RunCreateSurface,
           RunMakeCurrent, RunDestroyContext, RunDestroySurface, RunReleaseThread,
           RunAsk, RunPost
      <3> QED
        BY <1>1, <1>3, <2>1, <2>3, <2>4, <2>6, <3>1
    <2> QED
      BY <2>5, <2>6
  <1>8. CASE UNCHANGED vars
    BY <1>4, <1>8 DEF vars, appVars, driverVars
  <1> QED
    BY <1>5, <1>6, <1>7, <1>8 DEF Next

(* A surface keeps its window, whatever else is made.                      *)
LEMMA SurfacesKept ==
  ASSUME TypeInv, CallInv, SurfaceInv, [Next]_vars, NEW s \in Surf, surfOf[s] # 0
  PROVE  /\ surfOf[s] \in 1 .. made.draw
         /\ window'[surfOf[s]] = window[surfOf[s]]
  <1>1. surfOf[s] \in 1 .. made.draw
    BY KnownType DEF Queries
  <1>2. CASE UNCHANGED window
    BY <1>1, <1>2
  <1>3. ASSUME NEW t \in Threads, Call(t) PROVE UNCHANGED window
    BY <1>3, CallForm DEF driverVars
  <1>4. ASSUME NEW t \in Threads, Comes(t) PROVE UNCHANGED window
    BY <1>4, ComesFacts DEF driverVars
  <1>5. CASE Dispatch
    <2>1. window' = window \/ window' = Append(window, Front.s)
      BY <1>5 DEF Dispatch, Front, RunCreateContext, RunCreateSurface,
         RunMakeCurrent, RunDestroyContext, RunDestroySurface, RunReleaseThread,
         RunAsk, RunPost
    <2>2. surfOf[s] \in 1 .. Len(window) /\ window \in Seq(Windows)
      BY <1>1 DEF TypeInv
    <2>3. \A x : Append(window, x)[surfOf[s]] = window[surfOf[s]]
      BY <2>2
    <2> QED
      BY <1>1, <2>1, <2>3
  <1>6. CASE UNCHANGED vars
    <2>1. UNCHANGED window
      BY <1>6 DEF vars, driverVars
    <2> QED
      BY <1>2, <2>1
  <1> QED
    BY <1>2, <1>3, <1>4, <1>5, <1>6 DEF Next

(* A swap is known to be over when it has been sent.                       *)
LEMMA SwapFloor ==
  ASSUME TypeInv, TypeInv', CallInv, ArgumentInv, SurfaceInv, SurfaceInv', FloorInv,
         [Next]_vars, NEW s \in Surf, surfOf'[s] # 0
  PROVE  floor'.swaps[s] <= swaps'[surfOf'[s]] + Underway("swap", s)'
  <1> DEFINE Bounded == floor'.swaps[s] <= swaps'[surfOf'[s]] + Underway("swap", s)'
  <1>1. /\ floor \in Floors /\ floor.swaps[s] \in Nat /\ floor'.swaps[s] \in Nat
        /\ Underway("swap", s) \in Nat /\ Underway("swap", s)' \in Nat
        /\ swaps'[surfOf'[s]] \in Nat
    <2>0. surfOf'[s] \in Nat /\ made'.draw \in Nat
      BY DEF TypeInv, TypeOK, Binding, Objects
    <2>3. surfOf'[s] <= made'.draw
      BY DEF TypeInv, TypeOK, SurfaceInv, TableInv
    <2>1. surfOf'[s] \in 1 .. made'.draw
      BY <2>0, <2>3
    <2>4. swaps' \in Seq(Nat) /\ Len(swaps') = made'.draw
      BY DEF TypeInv
    <2>2. swaps'[surfOf'[s]] \in Nat
      BY <2>1, <2>4
    <2> QED
      BY <2>2, UnderwayPlaces DEF TypeInv, Floors
  <1>2. surfOf[s] # 0 =>
          /\ surfOf[s] \in 1 .. made.draw /\ surfOf[s] \in DOMAIN swaps
          /\ swaps[surfOf[s]] \in Nat
          /\ floor.swaps[s] <= swaps[surfOf[s]] + Underway("swap", s)
    <2>0. "querySize" \in Queries
      BY DEF Queries
    <2>1. surfOf[s] # 0 => surfOf[s] \in 1 .. made.draw
      BY <2>0, KnownType
    <2>3. swaps \in Seq(Nat) /\ Len(swaps) = made.draw
      BY DEF TypeInv
    <2>2. surfOf[s] # 0 => surfOf[s] \in DOMAIN swaps /\ swaps[surfOf[s]] \in Nat
      BY <2>1, <2>3
    <2> QED
      BY <2>1, <2>2 DEF FloorInv
  <1>3. ASSUME surfOf'[s] = surfOf[s], floor'.swaps[s] = floor.swaps[s],
               swaps' = swaps, Underway("swap", s)' = Underway("swap", s)
        PROVE  Bounded
    BY <1>2, <1>3
  <1>4. ASSUME UNCHANGED <<surfOf, floor, swaps, ring>> PROVE Bounded
    BY <1>3, <1>4, UnderwaySame
  <1>5. ASSUME NEW t \in Threads, Call(t) PROVE Bounded
    <2>0. swaps' = swaps
      BY <1>5, CallForm DEF driverVars
    <2>1. ASSUME NEW o, NEW c, NEW r, Begins(t, o, c, r) PROVE Bounded
      <3>1. o \in Kinds /\ c \in Handle /\ r \in Argument /\ o # "swap"
            /\ Post(t, o, c, r) /\ floor' = floor
        BY <2>1 DEF Begins, Formed, Kinds, Posts, Calls
      <3>2. Underway("swap", s)' = Underway("swap", s)
        BY <1>1, <3>1, UnderwayPost
      <3>3. surfOf'[s] = surfOf[s]
        BY <2>1 DEF Begins, TypeInv, TypeOK
      <3> QED
        BY <1>3, <2>0, <3>1, <3>2, <3>3
    <2>2. ASSUME NEW o, NEW r, Sends(t, o, r) PROVE Bounded
      <3>1. /\ o \in Kinds /\ 0 \in Handle /\ r \in Argument
            /\ Post(t, o, 0, r) /\ (o = "swap" => r \in Surf) /\ surfOf' = surfOf
        BY <2>2 DEF Sends, Formed, Kinds, Posts, Handle
      <3>2. Underway("swap", s)'
              = Underway("swap", s) + IF o = "swap" /\ r = s THEN 1 ELSE 0
        BY <3>1, UnderwayPost
      <3>3. floor'.swaps[s] = floor.swaps[s] + IF o = "swap" /\ r = s THEN 1 ELSE 0
        <4>1. CASE o = "swap"
          <5>1. floor.swaps[r] + 1 \in Nat /\ r \in Surf
            BY <3>1, <4>1 DEF TypeInv
          <5>2. floor' = [floor EXCEPT !.swaps[r] = floor.swaps[r] + 1]
            BY <2>2, <4>1 DEF Sends
          <5>3. floor'.swaps = [floor.swaps EXCEPT ![r] = floor.swaps[r] + 1]
            BY <1>1, <5>1, <5>2, SwapsKnown
          <5> QED
            BY <1>1, <4>1, <5>1, <5>3 DEF Floors
        <4>2. CASE o # "swap"
          BY <1>1, <2>2, <4>2 DEF Sends
        <4> QED
          BY <4>1, <4>2
      <3> QED
        BY <1>1, <1>2, <2>0, <3>1, <3>2, <3>3
    <2>3. ASSUME NEW r \in Surf, NEW o \in Queries, QueryHit(t, o, r) PROVE Bounded
      BY <1>4, <2>0, <2>3 DEF QueryHit, appVars
    <2>4. ASSUME NEW c, NEW r, MakeCurrentAgain(t, c, r) PROVE Bounded
      BY <1>4, <2>0, <2>4 DEF MakeCurrentAgain
    <2> QED
      BY <1>5, <2>1, <2>2, <2>3, <2>4, CallForm
  <1>6. ASSUME NEW t \in Threads, Comes(t) PROVE Bounded
    <2>1. UNCHANGED <<ring, swaps>>
      BY <1>6, ComesFacts DEF driverVars
    <2>2. Underway("swap", s)' = Underway("swap", s)
      BY <2>1, UnderwaySame
    <2>3. CASE Resized(t)
      <3>1. /\ call[t].s \in Windows /\ surfOf' = surfOf
            /\ floor' = [floor EXCEPT !.size[call[t].s] = floor.size[call[t].s] + 1]
        BY <2>3 DEF Resized, ArgumentInv
      <3>2. floor.size[call[t].s] + 1 \in Nat
        BY <3>1 DEF TypeInv
      <3>3. floor'.swaps = floor.swaps
        BY <1>1, <3>1, <3>2, SizesKnown
      <3> QED
        BY <1>3, <2>1, <2>2, <3>1, <3>3
    <2>4. CASE UNCHANGED <<surfOf, floor>>
      BY <1>4, <2>1, <2>4
    <2>5. CASE ~Resized(t) /\ ~UNCHANGED <<surfOf, floor>>
      <3>1. /\ surfOf' = [surfOf EXCEPT ![answer[t].of] = answer[t].n]
            /\ floor' = [floor EXCEPT !.swaps[answer[t].of] = 0]
        BY <1>6, <2>5 DEF Comes, ReturnQuery, ReturnCreate, ReturnMakeCurrent,
           ReturnPlain, appVars
      <3>2. floor'.swaps = [floor.swaps EXCEPT ![answer[t].of] = 0]
        <4>1. 0 \in Nat
          OBVIOUS
        <4> QED
          BY <1>1, <3>1, <4>1, SwapsKnown
      <3>3. CASE s = answer[t].of
        <4>1. floor'.swaps[s] = 0
          BY <1>1, <3>2, <3>3 DEF Floors
        <4> QED
          BY <1>1, <4>1
      <3>4. CASE s # answer[t].of
        <4>1. floor'.swaps[s] = floor.swaps[s]
          BY <1>1, <3>2, <3>4 DEF Floors
        <4>2. surfOf'[s] = surfOf[s]
          BY <3>1, <3>4 DEF TypeInv, TypeOK
        <4> QED
          BY <1>3, <2>1, <2>2, <4>1, <4>2
      <3> QED
        BY <3>3, <3>4
    <2> QED
      BY <2>3, <2>4, <2>5
  <1>7. CASE Dispatch
    <2>1. /\ ring # <<>> /\ ring' = Tail(ring) /\ UNCHANGED <<surfOf, floor>>
      BY <1>7, FrontForm DEF appVars
    <2>2. PICK m \in Command : m = Front /\ m = ring[1]
      BY <1>7, FrontForm
    <2>3. Underway("swap", s)
            = Underway("swap", s)' + IF m.op = "swap" /\ m.s = s THEN 1 ELSE 0
      BY <2>1, <2>2, UnderwayRun
    <2>4. CASE m.op = "swap"
      <3>1. swaps' = [swaps EXCEPT ![egl_surfaces[m.s]] = swaps[egl_surfaces[m.s]] + 1]
        BY <1>7, <2>2, <2>4 DEF Dispatch, Front, RunCreateContext, RunCreateSurface,
           RunMakeCurrent, RunDestroyContext, RunDestroySurface, RunReleaseThread,
           RunAsk, RunPost
      <3>2. egl_surfaces[s] = surfOf[s]
        BY <2>1 DEF SurfaceInv, TableInv, TypeInv, TypeOK
      <3>3. swaps'[surfOf[s]] >= swaps[surfOf[s]] + IF m.s = s THEN 1 ELSE 0
        BY <1>2, <2>1, <3>1, <3>2
      <3> QED
        BY <1>1, <1>2, <2>1, <2>3, <2>4, <3>3
    <2>5. CASE m.op # "swap"
      <3>1. swaps' = swaps \/ swaps' = Append(swaps, 0)
        BY <1>7, <2>2, <2>5 DEF Dispatch, Front, RunCreateContext, RunCreateSurface,
           RunMakeCurrent, RunDestroyContext, RunDestroySurface, RunReleaseThread,
           RunAsk, RunPost
      <3>2. swaps'[surfOf[s]] = swaps[surfOf[s]]
        <4>1. surfOf[s] \in 1 .. Len(swaps) /\ swaps \in Seq(Nat)
          BY <1>2, <2>1 DEF TypeInv
        <4>2. Append(swaps, 0)[surfOf[s]] = swaps[surfOf[s]]
          BY <4>1
        <4> QED
          BY <3>1, <4>2
      <3> QED
        BY <1>1, <1>2, <2>1, <2>3, <2>5, <3>2
    <2> QED
      BY <2>4, <2>5
  <1>8. CASE UNCHANGED vars
    BY <1>4, <1>8 DEF vars, appVars, driverVars
  <1> QED
    BY <1>5, <1>6, <1>7, <1>8 DEF Next

LEMMA FloorStep ==
  ASSUME TypeInv, TypeInv', CallInv, ArgumentInv, SurfaceInv, SurfaceInv', FloorInv,
         [Next]_vars
  PROVE  FloorInv'
  BY SizeFloor, SwapFloor DEF FloorInv

-----------------------------------------------------------------------------
(* Cached answers *)

LEMMA ApartStep ==
  ASSUME TypeInv, CallInv, Exclusive, ApartInv, [Next]_vars
  PROVE  ApartInv'
  <1>1. ASSUME NEW t \in Threads, \A u \in Threads : u # t => call'[u].op = call[u].op,
               \/ call'[t].op = "idle"
               \/ \E o : call'[t].op = o /\ Apart(t, o)
        PROVE  ApartInv'
    <2> SUFFICES ASSUME NEW u \in Threads, NEW v \in Threads, u # v,
                        call'[u].op \in Queries, call'[v].op \in Changes
                 PROVE  FALSE
      BY DEF ApartInv
    <2>1. "idle" \notin Queries \cup Changes
      BY DEF Queries, Changes
    <2> QED
      BY <1>1, <2>1 DEF ApartInv, Apart
  <1>2. ASSUME UNCHANGED call PROVE ApartInv'
    BY <1>2 DEF ApartInv
  <1>3. ASSUME NEW t \in Threads, Call(t) PROVE ApartInv'
    <2>1. ASSUME NEW o, NEW c, NEW s, Begins(t, o, c, s) PROVE ApartInv'
      <3>1. (\A u \in Threads : u # t => call'[u] = call[u]) /\ call'[t].op = o
        BY <2>1, BeginFacts
      <3> QED
        BY <1>1, <2>1, <3>1 DEF Begins, Starts
    <2>2. ASSUME NEW s \in Surf, NEW o \in Queries, QueryHit(t, o, s) PROVE ApartInv'
      <3>1. (\A u \in Threads : u # t => call'[u] = call[u]) /\ call'[t].op = o
            /\ Apart(t, o)
        BY <2>2 DEF QueryHit, Enter, Starts, TypeInv
      <3> QED
        BY <1>1, <3>1
    <2>3. (\E o, s : Sends(t, o, s)) => UNCHANGED call
      BY DEF Sends
    <2>4. (\E c \in Ctx \cup {0}, s \in Surf \cup {0} : MakeCurrentAgain(t, c, s))
            => UNCHANGED call
      BY DEF MakeCurrentAgain
    <2> QED
      BY <1>2, <1>3, <2>1, <2>2, <2>3, <2>4, CallForm
  <1>4. ASSUME NEW t \in Threads, Comes(t) PROVE ApartInv'
    <2>1. /\ call'[t].op = "idle" /\ \A u \in Threads : u # t => call'[u] = call[u]
      BY <1>4, ComesFacts, EndFacts DEF Same
    <2> QED
      BY <1>1, <2>1
  <1>5. CASE Dispatch
    BY <1>2, <1>5 DEF Dispatch
  <1>6. CASE UNCHANGED vars
    BY <1>2, <1>6 DEF vars
  <1> QED
    BY <1>3, <1>4, <1>5, <1>6 DEF Next

(* The program knows nothing new about a surface.                          *)
SameKnown(o, s) ==
  /\ surfOf'[s] = surfOf[s] /\ window'[surfOf[s]] = window[surfOf[s]]
  /\ IF o = "querySize" THEN floor'.size = floor.size
                        ELSE floor'.swaps[s] = floor.swaps[s]

LEMMA KnownStable ==
  ASSUME NEW o, NEW s, SameKnown(o, s)
  PROVE  /\ KnownOf(o, s)' = KnownOf(o, s)
         /\ \A of, n : Reports(o, s, of, n)' <=> Reports(o, s, of, n)
  <1>1. CASE o = "querySize"
    BY <1>1 DEF SameKnown, KnownOf, Reports
  <1>2. CASE o # "querySize"
    BY <1>2 DEF SameKnown, KnownOf, Reports
  <1> QED
    BY <1>1, <1>2

LEMMA AskStable ==
  ASSUME NEW u, AskOf(u), Same(u),
         call[u].op \in Queries => SameKnown(call[u].op, call[u].s)
  PROVE  AskOf(u)'
  <1> SUFFICES ASSUME call'[u].op \in Queries PROVE AskOf(u)'
    BY DEF AskOf
  <1>1. PICK o, s, of, n : /\ o = call[u].op /\ s = call[u].s
                           /\ of = answer[u].of /\ n = answer[u].n
    OBVIOUS
  <1>2. /\ call'[u].op = o /\ call'[u].s = s /\ call'[u].floor = call[u].floor
        /\ answer'[u].of = of /\ answer'[u].n = n /\ (Answered(u)' <=> Answered(u))
    BY <1>1 DEF Same, Answered
  <1>3. SameKnown(o, s)
    BY <1>1, <1>2
  <1>4. call[u].floor = KnownOf(o, s) /\ (Answered(u) => Reports(o, s, of, n))
    BY <1>1, <1>2 DEF AskOf
  <1>5. KnownOf(o, s)' = KnownOf(o, s) /\ (Reports(o, s, of, n)' <=> Reports(o, s, of, n))
    BY <1>3, KnownStable
  <1>6. call'[u].floor = KnownOf(o, s)' /\ (Answered(u)' => Reports(o, s, of, n)')
    BY <1>2, <1>4, <1>5
  <1> QED
    BY <1>2, <1>6 DEF AskOf, KnownOf, Reports

(* A cache that is still good, or that is given up.                        *)
GoodSize(s) == surfOf[s] # 0 /\ Reports("querySize", s, qs_cache[s].of, qs_cache[s].n)
GoodAge == /\ age_cache.surf # 0 /\ surfOf[age_cache.surf] # 0
           /\ Reports("queryAge", age_cache.surf, age_cache.of, age_cache.n)

LEMMA CacheForm ==
  CacheInv <=>
    /\ \A s \in Surf : /\ qs_cache[s].gen <= g_surface_gen
                       /\ qs_cache[s].gen = g_surface_gen => GoodSize(s)
    /\ age_cache.swaps <= g_swap_count /\ g_swap_count > 0
    /\ age_cache.swaps = g_swap_count => GoodAge
  BY DEF CacheInv, GoodSize, GoodAge

LEMMA CacheFormNext ==
  ASSUME \A s \in Surf : /\ qs_cache'[s].gen <= g_surface_gen'
                         /\ qs_cache'[s].gen = g_surface_gen' => GoodSize(s)',
         age_cache'.swaps <= g_swap_count', g_swap_count' > 0,
         age_cache'.swaps = g_swap_count' => GoodAge'
  PROVE  CacheInv'
  BY DEF CacheInv, GoodSize, GoodAge

LEMMA SizeKept ==
  ASSUME NEW s, GoodSize(s), SameKnown("querySize", s), qs_cache' = qs_cache
  PROVE  GoodSize(s)'
  <1>1. PICK of, n : of = qs_cache[s].of /\ n = qs_cache[s].n
    OBVIOUS
  <1>2. Reports("querySize", s, of, n)'
    BY <1>1, KnownStable DEF GoodSize
  <1> QED
    BY <1>1, <1>2 DEF GoodSize, SameKnown, Reports, KnownOf

LEMMA AgeKept ==
  ASSUME GoodAge, SameKnown("queryAge", age_cache.surf), age_cache' = age_cache
  PROVE  GoodAge'
  <1>1. PICK s, of, n : s = age_cache.surf /\ of = age_cache.of /\ n = age_cache.n
    OBVIOUS
  <1>2. Reports("queryAge", s, of, n)'
    BY <1>1, KnownStable DEF GoodAge
  <1> QED
    BY <1>1, <1>2 DEF GoodAge, SameKnown, Reports, KnownOf

LEMMA CacheStable ==
  ASSUME TypeInv, TypeInv', CacheInv, qs_cache' = qs_cache,
         g_surface_gen' = g_surface_gen \/ g_surface_gen' = g_surface_gen + 1,
         g_swap_count' = g_swap_count \/ g_swap_count' = g_swap_count + 1,
         age_cache' = age_cache \/ age_cache' = [age_cache EXCEPT !.swaps = 0],
         g_surface_gen' = g_surface_gen =>
           \A s \in Surf : surfOf[s] # 0 => SameKnown("querySize", s),
         g_swap_count' = g_swap_count /\ age_cache'.swaps = g_swap_count =>
           \A s \in Surf : surfOf[s] # 0 => SameKnown("queryAge", s)
  PROVE  CacheInv'
  <1>1. /\ g_surface_gen \in Nat /\ g_swap_count \in Nat /\ age_cache \in CachedAge
        /\ \A s \in Surf : qs_cache[s].gen \in Nat
    BY DEF TypeInv, TypeOK, CachedSize
  <1>2. /\ \A s \in Surf : /\ qs_cache[s].gen <= g_surface_gen
                           /\ qs_cache[s].gen = g_surface_gen => GoodSize(s)
        /\ age_cache.swaps <= g_swap_count /\ g_swap_count > 0
        /\ age_cache.swaps = g_swap_count => GoodAge
    BY CacheForm
  <1>3. ASSUME NEW s \in Surf
        PROVE  /\ qs_cache'[s].gen <= g_surface_gen'
               /\ qs_cache'[s].gen = g_surface_gen' => GoodSize(s)'
    <2>1. CASE g_surface_gen' = g_surface_gen
      <3>1. GoodSize(s) => GoodSize(s)'
        <4>1. GoodSize(s) => SameKnown("querySize", s)
          BY <1>3, <2>1 DEF GoodSize
        <4> QED
          BY <4>1, SizeKept
      <3> QED
        BY <1>2, <2>1, <3>1
    <2>2. CASE g_surface_gen' = g_surface_gen + 1
      BY <1>1, <1>2, <2>2
    <2> QED
      BY <2>1, <2>2
  <1>4. /\ age_cache'.swaps <= g_swap_count' /\ g_swap_count' > 0
        /\ age_cache'.swaps = g_swap_count' => GoodAge'
    <2>1. CASE g_swap_count' = g_swap_count /\ age_cache' = age_cache
      <3>1. GoodAge /\ age_cache'.swaps = g_swap_count => GoodAge'
        <4>1. GoodAge => age_cache.surf \in Surf
          BY <1>1 DEF GoodAge, CachedAge
        <4>2. GoodAge /\ age_cache'.swaps = g_swap_count =>
                SameKnown("queryAge", age_cache.surf)
          BY <2>1, <4>1 DEF GoodAge
        <4> QED
          BY <2>1, <4>2, AgeKept
      <3> QED
        BY <1>2, <2>1, <3>1
    <2>2. CASE age_cache' = age_cache /\ g_swap_count' = g_swap_count + 1
      <3>1. age_cache.swaps \in Nat
        BY <1>1 DEF CachedAge
      <3> QED
        BY <1>1, <1>2, <2>2, <3>1
    <2>3. CASE age_cache' = [age_cache EXCEPT !.swaps = 0]
      <3>1. age_cache'.swaps = 0
        BY <1>1, <2>3 DEF CachedAge
      <3> QED
        BY <1>1, <1>2, <3>1
    <2> QED
      BY <2>1, <2>2, <2>3
  <1> QED
    BY <1>3, <1>4, CacheFormNext

(* A call that begins.                                                     *)
LEMMA FreshCall ==
  ASSUME TypeInv, TypeInv', CallInv, ArgumentInv, SurfaceInv, Exclusive,
         CacheInv, AskInv, NEW t \in Threads, Call(t)
  PROVE  CacheInv' /\ AskInv'
  <1>1. /\ UNCHANGED window /\ g_surface_gen \in Nat /\ g_swap_count \in Nat
        /\ g_swap_count > 0
    BY CallForm, CacheForm DEF driverVars, TypeInv, TypeOK
  <1>2. ASSUME UNCHANGED <<surfOf, floor>> PROVE \A o, s : SameKnown(o, s)
    BY <1>1, <1>2 DEF SameKnown
  <1>3. ASSUME UNCHANGED <<surfOf, floor, qs_cache, g_surface_gen, g_swap_count,
                           age_cache>>
        PROVE  CacheInv'
    BY <1>2, <1>3, CacheStable
  <1>4. ASSUME NEW o, NEW c, NEW s, Begins(t, o, c, s) PROVE CacheInv' /\ AskInv'
    <2>1. /\ \A u \in Threads : u # t => Same(u)
          /\ call'[t].op = o /\ call'[t].s = s
          /\ ~Answered(t)' /\ UNCHANGED floor /\ Apart(t, o)
      <3>1. UNCHANGED floor /\ Apart(t, o)
        BY <1>4 DEF Begins, Starts
      <3>2. /\ \A u \in Threads : u # t => call'[u] = call[u]
            /\ call'[t].op = o /\ call'[t].s = s
            /\ answer[t] = NoAnswer /\ answer' = answer
        BY <1>4, BeginFacts
      <3> QED
        BY <3>1, <3>2 DEF Same, Answered
    <2>2. o \notin {"createSurface", "destroySurface"} => UNCHANGED <<surfOf, floor>>
      BY <1>4 DEF Begins
    <2>3. CacheInv'
      <3>1. g_surface_gen' = g_surface_gen =>
              \A r \in Surf : surfOf[r] # 0 => SameKnown("querySize", r)
        <4>1. g_surface_gen' = g_surface_gen => o \notin {"createSurface", "destroySurface"}
          BY <1>1, <1>4 DEF Begins
        <4> QED
          BY <1>2, <2>2, <4>1
      <3>2. age_cache'.swaps = g_swap_count =>
              \A r \in Surf : surfOf[r] # 0 => SameKnown("queryAge", r)
        <4>1. o = "destroySurface" => age_cache'.swaps = 0
          BY <1>4 DEF Begins, TypeInv, CachedAge
        <4>2. o # "destroySurface" => UNCHANGED <<surfOf, floor>>
          BY <1>4 DEF Begins
        <4> QED
          BY <1>1, <1>2, <4>1, <4>2
      <3> QED
        BY <1>4, <3>1, <3>2, CacheStable DEF Begins
    <2>4. ASSUME NEW u \in Threads, u # t PROVE AskOf(u)'
      <3>1. call[u].op \in Queries => o \notin Changes
        BY <2>1, <2>4 DEF Apart
      <3>2. call[u].op \in Queries => SameKnown(call[u].op, call[u].s)
        BY <1>2, <2>2, <3>1 DEF Changes
      <3> QED
        BY <2>1, <2>4, <3>2, AskStable DEF AskInv
    <2>5. AskOf(t)'
      <3> SUFFICES ASSUME o \in Queries PROVE AskOf(t)'
        BY <2>1 DEF AskOf
      <3>1. UNCHANGED <<surfOf, floor>>
        BY <2>2 DEF Queries
      <3>2. call'[t].floor = KnownOf(o, s)
        BY <1>4 DEF Begins, Enter, TypeInv
      <3>3. KnownOf(o, s)' = KnownOf(o, s)
        BY <1>2, <3>1, KnownStable
      <3>4. call'[t].floor = KnownOf(o, s)'
        BY <3>2, <3>3
      <3> QED
        BY <2>1, <3>4 DEF AskOf, KnownOf
    <2> QED
      BY <2>3, <2>4, <2>5 DEF AskInv
  <1>5. ASSUME NEW o, NEW s, Sends(t, o, s) PROVE CacheInv' /\ AskInv'
    <2>1. /\ UNCHANGED <<surfOf, qs_cache, g_surface_gen, age_cache, call, answer>>
          /\ call[t] = Idle /\ Apart(t, o)
      BY <1>5 DEF Sends, Starts
    <2>2. CASE o = "gl"
      <3>1. UNCHANGED <<floor, g_swap_count>>
        BY <1>5, <2>2 DEF Sends
      <3>2. \A u \in Threads : AskOf(u)'
        BY <1>2, <2>1, <3>1, AskStable DEF AskInv, Same
      <3> QED
        BY <1>3, <2>1, <3>1, <3>2 DEF AskInv
    <2>3. CASE o = "swap"
      <3>1. /\ g_swap_count' = g_swap_count + 1 /\ s \in Surf
            /\ floor' = [floor EXCEPT !.swaps[s] = floor.swaps[s] + 1]
        BY <1>5, <2>3 DEF Sends, Formed
      <3>2. floor'.size = floor.size
        <4>1. floor \in Floors /\ floor.swaps[s] + 1 \in Nat
          BY <3>1 DEF TypeInv, Floors
        <4> QED
          BY <3>1, <4>1, SwapsKnown
      <3>3. \A r : SameKnown("querySize", r)
        BY <1>1, <2>1, <3>2 DEF SameKnown
      <3>4. g_swap_count' # g_swap_count
        BY <1>1, <3>1
      <3>5. CacheInv'
        BY <2>1, <3>1, <3>3, <3>4, CacheStable
      <3>6. \A u \in Threads : call[u].op \notin Queries
        <4>1. call[t].op \notin Queries
          BY <2>1 DEF Idle, Queries
        <4>2. \A u \in Threads : u # t => call[u].op \notin Queries
          BY <2>1, <2>3 DEF Apart, Changes
        <4> QED
          BY <4>1, <4>2
      <3>7. \A u \in Threads : AskOf(u)'
        BY <2>1, <3>6 DEF AskOf
      <3> QED
        BY <3>5, <3>7 DEF AskInv
    <2> QED
      BY <1>5, <2>2, <2>3 DEF Sends
  <1>6. ASSUME NEW s \in Surf, NEW o \in Queries, QueryHit(t, o, s)
        PROVE  CacheInv' /\ AskInv'
    <2>1. /\ UNCHANGED <<surfOf, floor, qs_cache, g_surface_gen, g_swap_count, age_cache>>
          /\ \A u \in Threads : u # t => Same(u)
          /\ call'[t] = [op |-> o, c |-> 0, s |-> s, floor |-> KnownOf(o, s)]
          /\ answer'[t] = [ok |-> TRUE, of |-> Kept(o, s).of, n |-> Kept(o, s).n,
                           from |-> "cache"]
          /\ Cached(o, s)
      BY <1>6 DEF QueryHit, Enter, TypeInv, appVars, cacheVars, Same
    <2>2. \A u \in Threads : u # t => AskOf(u)'
      BY <1>2, <2>1, AskStable DEF AskInv
    <2>3. AskOf(t)'
      <3>1. PICK of, n : of = Kept(o, s).of /\ n = Kept(o, s).n
        OBVIOUS
      <3>2. Reports(o, s, of, n)
        <4>1. CASE o = "querySize"
          <5>1. qs_cache[s].gen = g_surface_gen /\ of = qs_cache[s].of /\ n = qs_cache[s].n
            BY <2>1, <3>1, <4>1 DEF Cached, Kept
          <5> QED
            BY <4>1, <5>1, CacheForm DEF GoodSize
        <4>2. CASE o = "queryAge"
          <5>1. /\ age_cache.swaps = g_swap_count /\ age_cache.surf = s
                /\ of = age_cache.of /\ n = age_cache.n
            BY <2>1, <3>1, <4>2 DEF Cached, Kept
          <5> QED
            BY <4>2, <5>1, CacheForm DEF GoodAge
        <4> QED
          BY <4>1, <4>2 DEF Queries
      <3>3. Reports(o, s, of, n)' /\ KnownOf(o, s)' = KnownOf(o, s)
        BY <1>2, <2>1, <3>2, KnownStable
      <3>4. /\ call'[t].op = o /\ call'[t].s = s /\ call'[t].floor = KnownOf(o, s)'
            /\ answer'[t].of = of /\ answer'[t].n = n
        BY <2>1, <3>1, <3>3
      <3> QED
        BY <3>3, <3>4 DEF AskOf, Reports, KnownOf
    <2> QED
      BY <1>3, <2>1, <2>2, <2>3 DEF AskInv
  <1>7. ASSUME NEW c, NEW s, MakeCurrentAgain(t, c, s) PROVE CacheInv' /\ AskInv'
    <2>1. UNCHANGED <<surfOf, floor, qs_cache, g_surface_gen, g_swap_count, age_cache,
                      call, answer>>
      BY <1>7 DEF MakeCurrentAgain, cacheVars
    <2>2. \A u \in Threads : AskOf(u)'
      BY <1>2, <2>1, AskStable DEF AskInv, Same
    <2> QED
      BY <1>3, <2>1, <2>2 DEF AskInv
  <1> QED
    BY <1>4, <1>5, <1>6, <1>7, CallForm

(* A call that comes back.                                                 *)
LEMMA FreshComes ==
  ASSUME TypeInv, TypeInv', CallInv, ArgumentInv, SurfaceInv, LastInv, ApartInv,
         CacheInv, AskInv, NEW t \in Threads, Comes(t)
  PROVE  CacheInv' /\ AskInv'
  <1>1. /\ UNCHANGED <<window, g_swap_count>> /\ g_surface_gen \in Nat
        /\ g_swap_count > 0 /\ call'[t].op = "idle"
        /\ \A u \in Threads : u # t => Same(u)
    <2>1. UNCHANGED window /\ call'[t].op = "idle" /\ \A u \in Threads : u # t => Same(u)
      BY ComesFacts, EndFacts DEF driverVars
    <2>2. UNCHANGED g_swap_count
      BY DEF Comes, ReturnQuery, ReturnCreate, ReturnMakeCurrent, ReturnPlain, Resized,
         cacheVars
    <2> QED
      BY <2>1, <2>2, CacheForm DEF TypeInv, TypeOK
  <1>2. ASSUME UNCHANGED <<surfOf, floor>> PROVE \A o, s : SameKnown(o, s)
    BY <1>1, <1>2 DEF SameKnown
  <1>3. AskOf(t)'
    BY <1>1 DEF AskOf, Queries
  <1>4. ASSUME UNCHANGED <<surfOf, floor>> PROVE AskInv'
    <2>1. \A u \in Threads : u # t => AskOf(u)'
      BY <1>1, <1>2, <1>4, AskStable DEF AskInv
    <2> QED
      BY <1>3, <2>1 DEF AskInv
  <1>5. ASSUME call[t].op \in Changes PROVE AskInv'
    <2>1. \A u \in Threads : u # t => call'[u].op \notin Queries
      BY <1>1, <1>5 DEF ApartInv, Same
    <2>2. \A u \in Threads : u # t => AskOf(u)'
      BY <2>1 DEF AskOf
    <2> QED
      BY <1>3, <2>2 DEF AskInv
  <1>6. ASSUME UNCHANGED <<surfOf, floor, qs_cache, g_surface_gen>>,
               age_cache' = age_cache \/ age_cache' = [age_cache EXCEPT !.swaps = 0]
        PROVE  CacheInv' /\ AskInv'
    BY <1>1, <1>2, <1>4, <1>6, CacheStable
  <1>7. ASSUME NEW o, ReturnQuery(t, o) PROVE CacheInv' /\ AskInv'
    <2> DEFINE s == call[t].s
    <2>1. /\ o \in Queries /\ call[t].op = o /\ Answered(t)
          /\ UNCHANGED <<surfOf, floor, g_surface_gen>>
      BY <1>7 DEF ReturnQuery, Back, Answered, appVars
    <2>2. s \in Surf /\ s # 0 /\ surfOf[s] # 0
      <3>1. s \in Surf /\ s # 0
        BY <2>1 DEF ArgumentInv, Surf
      <3> QED
        BY <2>1, <3>1 DEF LastInv, LastOf, Exists
    <2>3. Reports(o, s, answer[t].of, answer[t].n)
      BY <2>1 DEF AskInv, AskOf
    <2>4. /\ qs_cache' = qs_cache
             \/ /\ o = "querySize"
                /\ qs_cache' = [qs_cache EXCEPT ![s] =
                                  [gen |-> g_surface_gen, of |-> answer[t].of,
                                   n |-> answer[t].n]]
          /\ age_cache' = age_cache
             \/ /\ o = "queryAge"
                /\ age_cache' = [surf |-> s, swaps |-> g_swap_count,
                                 n |-> answer[t].n, of |-> answer[t].of]
      BY <1>7 DEF ReturnQuery
    <2>5. ASSUME NEW p, NEW r, NEW of, NEW n, Reports(p, r, of, n)
          PROVE  Reports(p, r, of, n)'
      BY <1>2, <2>1, <2>5, KnownStable
    <2> HIDE DEF s
    <2>6. ASSUME NEW r \in Surf
          PROVE  /\ qs_cache'[r].gen <= g_surface_gen'
                 /\ qs_cache'[r].gen = g_surface_gen' => GoodSize(r)'
      <3>1. /\ qs_cache[r].gen <= g_surface_gen
            /\ qs_cache[r].gen = g_surface_gen => GoodSize(r)
        BY CacheForm
      <3>2. CASE qs_cache'[r] = qs_cache[r]
        <4>1. PICK of, n : of = qs_cache[r].of /\ n = qs_cache[r].n
          OBVIOUS
        <4>2. GoodSize(r) => surfOf[r] # 0 /\ Reports("querySize", r, of, n)'
          BY <2>5, <4>1 DEF GoodSize
        <4>3. GoodSize(r) => GoodSize(r)'
          BY <2>1, <3>2, <4>1, <4>2 DEF GoodSize, Reports, KnownOf
        <4> QED
          BY <2>1, <3>1, <3>2, <4>3
      <3>3. CASE qs_cache'[r] # qs_cache[r]
        <4>1. /\ r = s /\ o = "querySize"
              /\ qs_cache'[r] = [gen |-> g_surface_gen, of |-> answer[t].of,
                                 n |-> answer[t].n]
          BY <2>2, <2>4, <3>3 DEF TypeInv
        <4>2. PICK of, n : of = answer[t].of /\ n = answer[t].n
          OBVIOUS
        <4>3. Reports("querySize", r, of, n)'
          BY <2>3, <2>5, <4>1, <4>2
        <4>4. qs_cache'[r].gen = g_surface_gen /\ qs_cache'[r].of = of /\ qs_cache'[r].n = n
          BY <4>1, <4>2
        <4> QED
          BY <1>1, <2>1, <2>2, <4>1, <4>3, <4>4 DEF GoodSize, Reports, KnownOf
      <3> QED
        BY <3>2, <3>3
    <2>7. /\ age_cache'.swaps <= g_swap_count' /\ g_swap_count' > 0
          /\ age_cache'.swaps = g_swap_count' => GoodAge'
      <3>1. CASE age_cache' = age_cache
        <4>1. GoodAge => SameKnown("queryAge", age_cache.surf)
          BY <1>2, <2>1
        <4> QED
          BY <1>1, <3>1, <4>1, CacheForm, AgeKept
      <3>2. CASE age_cache' # age_cache
        <4>1. PICK r, of, n : r = s /\ of = answer[t].of /\ n = answer[t].n
          OBVIOUS
        <4>2. o = "queryAge" /\ age_cache'.surf = r /\ age_cache'.swaps = g_swap_count
              /\ age_cache'.of = of /\ age_cache'.n = n
          BY <2>4, <3>2, <4>1
        <4>3. Reports("queryAge", r, of, n)'
          BY <2>3, <2>5, <4>1, <4>2
        <4>4. g_swap_count \in Nat
          BY DEF TypeInv, TypeOK
        <4> QED
          BY <1>1, <2>1, <2>2, <4>1, <4>2, <4>3, <4>4 DEF GoodAge, Reports, KnownOf
      <3> QED
        BY <3>1, <3>2
    <2> QED
      BY <1>4, <2>1, <2>6, <2>7, CacheFormNext
  <1>8. CASE Resized(t)
    <2>1. /\ call[t].op = "resize" /\ call[t].s \in Windows
          /\ UNCHANGED <<surfOf, qs_cache, age_cache>>
          /\ g_surface_gen' = g_surface_gen + 1
          /\ floor' = [floor EXCEPT !.size[call[t].s] = floor.size[call[t].s] + 1]
      BY <1>8 DEF Resized, ArgumentInv
    <2>2. floor'.swaps = floor.swaps
      <3>1. floor \in Floors /\ floor.size[call[t].s] + 1 \in Nat
        BY <2>1 DEF TypeInv, Floors
      <3> QED
        BY <2>1, <3>1, SizesKnown
    <2>3. \A r : SameKnown("queryAge", r)
      BY <1>1, <2>1, <2>2 DEF SameKnown
    <2>4. g_surface_gen' # g_surface_gen
      BY <1>1, <2>1
    <2>5. CacheInv'
      BY <1>1, <2>1, <2>3, <2>4, CacheStable
    <2> QED
      BY <1>5, <2>1, <2>5 DEF Changes
  <1>9. ASSUME NEW o, ReturnCreate(t, o) PROVE CacheInv' /\ AskInv'
    <2>1. UNCHANGED <<qs_cache, g_surface_gen, age_cache>>
      BY <1>9 DEF ReturnCreate, cacheVars
    <2>2. CASE UNCHANGED <<surfOf, floor>>
      BY <1>6, <2>1, <2>2
    <2>3. CASE ~UNCHANGED <<surfOf, floor>>
      <3>1. /\ Given(t, "createSurface")
            /\ surfOf' = [surfOf EXCEPT ![answer[t].of] = answer[t].n]
            /\ floor' = [floor EXCEPT !.swaps[answer[t].of] = 0]
        BY <1>9, <2>3 DEF ReturnCreate, Back, Given
      <3>2. surfOf[answer[t].of] = 0
        BY <3>1 DEF SurfaceInv, TableInv
      <3>3. /\ floor'.size = floor.size
            /\ floor'.swaps = [floor.swaps EXCEPT ![answer[t].of] = 0]
            /\ floor \in Floors
        <4>1. floor \in Floors /\ 0 \in Nat
          BY DEF TypeInv, Floors
        <4> QED
          BY <3>1, <4>1, SwapsKnown
      <3>4. ASSUME NEW r \in Surf, surfOf[r] # 0
            PROVE  SameKnown("querySize", r) /\ SameKnown("queryAge", r)
        <4>1. r # answer[t].of
          BY <3>2, <3>4
        <4>2. surfOf'[r] = surfOf[r] /\ floor'.swaps[r] = floor.swaps[r]
          BY <3>1, <3>3, <4>1 DEF TypeInv, TypeOK, Floors
        <4> QED
          BY <1>1, <3>3, <4>2 DEF SameKnown
      <3>5. CacheInv'
        BY <1>1, <2>1, <3>4, CacheStable
      <3> QED
        BY <1>5, <3>1, <3>5 DEF Changes, Given
    <2> QED
      BY <2>2, <2>3
  <1>10. CASE ReturnMakeCurrent(t)
    <2>1. /\ UNCHANGED <<surfOf, floor, qs_cache, g_surface_gen>>
          /\ age_cache' = [age_cache EXCEPT !.swaps = 0]
      BY <1>10 DEF ReturnMakeCurrent
    <2> QED
      BY <1>6, <2>1
  <1>11. ASSUME NEW o, ReturnPlain(t, o) PROVE CacheInv' /\ AskInv'
    <2>1. UNCHANGED <<surfOf, floor, qs_cache, g_surface_gen, age_cache>>
      BY <1>11 DEF ReturnPlain, appVars, cacheVars
    <2> QED
      BY <1>6, <2>1
  <1> QED
    BY <1>7, <1>8, <1>9, <1>10, <1>11 DEF Comes

(* The proxy's answer counts everything that was sent before the question. *)
LEMMA FreshDispatch ==
  ASSUME TypeInv, TypeInv', CallInv, ArgumentInv, SurfaceInv, LastInv,
         FloorInv, CacheInv, AskInv, Dispatch
  PROVE  CacheInv' /\ AskInv'
  <1>1. UNCHANGED <<call, surfOf, floor, qs_cache, age_cache, g_surface_gen, g_swap_count>>
    BY FrontForm DEF appVars, cacheVars
  <1>2. ASSUME NEW s \in Surf, surfOf[s] # 0 PROVE \A o : SameKnown(o, s)
    <2>1. [Next]_vars
      BY DEF Next
    <2>2. window'[surfOf[s]] = window[surfOf[s]]
      BY <1>2, <2>1, SurfacesKept
    <2> QED
      BY <1>1, <2>2 DEF SameKnown
  <1>3. CacheInv'
    BY <1>1, <1>2, CacheStable
  <1>4. ASSUME NEW u \in Threads, call[u].op \in Queries
        PROVE  /\ call[u].s \in Surf /\ surfOf[call[u].s] # 0
               /\ SameKnown(call[u].op, call[u].s)
    <2>1. call[u].s \in Surf /\ call[u].s # 0
      BY <1>4 DEF ArgumentInv, Surf
    <2>2. surfOf[call[u].s] # 0
      BY <1>4, <2>1 DEF LastInv, LastOf, Exists
    <2> QED
      BY <1>2, <2>1, <2>2
  <1>5. ASSUME NEW u \in Threads, Same(u) PROVE AskOf(u)'
    BY <1>4, <1>5, AskStable DEF AskInv
  <1>6. PICK m \in Command, t \in Threads :
          /\ m = Front /\ m = ring[1] /\ 1 \in DOMAIN ring /\ m.t = t
          /\ m.op \in Calls =>
               /\ Len(ring) = 1 /\ call[t].op = m.op /\ call[t].s = m.s
               /\ \A u \in Threads : u # t => Same(u)
          /\ m.op \notin Calls => answer' = answer
    BY FrontForm
  <1>7. CASE m.op \notin Queries
    <2>1. \A u \in Threads : call[u].op \in Queries => Same(u)
      BY <1>1, <1>6, <1>7 DEF Same
    <2>2. \A u \in Threads : AskOf(u)'
      BY <1>1, <1>5, <2>1 DEF AskOf
    <2> QED
      BY <1>3, <2>2 DEF AskInv
  <1>8. CASE m.op \in Queries
    <2>1. /\ m.op \in Calls /\ Len(ring) = 1 /\ call[t].op = m.op /\ call[t].s = m.s
          /\ \A u \in Threads : u # t => Same(u)
      BY <1>6, <1>8, KindFacts
    <2> DEFINE s == m.s
               obj == surfOf[s]
    <2>2. s \in Surf /\ surfOf[s] # 0
      BY <1>4, <1>8, <2>1
    <2>3. egl_surfaces[s] = obj
      BY <2>2 DEF SurfaceInv, TableInv, TypeInv, TypeOK
    <2>4. \A r : Underway("resize", r) = 0 /\ Underway("swap", r) = 0
      <3>1. DOMAIN ring = {1}
        <4>1. DOMAIN ring = 1 .. Len(ring)
          BY DEF TypeInv
        <4> QED
          BY <2>1, <4>1
      <3>2. \A r : Places("resize", r) = {} /\ Places("swap", r) = {}
        BY <1>6, <1>8, <3>1 DEF Places, Queries
      <3> QED
        BY <3>2, FS_EmptySet DEF Underway
    <2>5. RunAsk(m)
      BY <1>6, <1>8 DEF Dispatch, Front, RunCreateContext, RunCreateSurface,
         RunMakeCurrent, RunDestroyContext, RunDestroySurface, RunReleaseThread,
         RunPost, Posts, Queries
    <2>6. AskOf(t)'
      <3> DEFINE of == IF m.op = "querySize" THEN window[obj] ELSE obj
                 n == IF m.op = "querySize" THEN size[window[obj]] ELSE swaps[obj]
      <3>1. answer'[t].of = of /\ answer'[t].n = n
        <4>1. Reply(m, Answer(TRUE, of, n))
          BY <1>8, <2>3, <2>5 DEF RunAsk, Queries
        <4>2. answer'[t] = Answer(TRUE, of, n)
          BY <1>6, <4>1 DEF Reply, TypeInv
        <4> QED
          BY <4>2 DEF Answer
      <3>2. Reports(m.op, s, of, n)
        <4>1. obj \in 1 .. made.draw /\ window[obj] \in Windows /\ swaps[obj] \in Nat
          BY <1>8, <2>2, KnownType
        <4>2. CASE m.op = "querySize"
          <5>1. PICK w \in Windows : w = window[obj]
            BY <4>1
          <5>2. floor.size[w] + Cardinality(Resizers(w)) <= size[w] + Underway("resize", w)
            BY DEF FloorInv
          <5>3. floor.size[w] \in Nat /\ size[w] \in Nat /\ Cardinality(Resizers(w)) \in Nat
            BY ResizersFacts DEF TypeInv
          <5>4. floor.size[w] <= size[w]
            BY <2>4, <5>2, <5>3
          <5> QED
            BY <4>2, <5>1, <5>4 DEF Reports, KnownOf
        <4>3. CASE m.op = "queryAge"
          <5>1. floor.swaps[s] <= swaps[obj] + Underway("swap", s)
            BY <2>2 DEF FloorInv
          <5>2. floor.swaps[s] \in Nat
            BY <2>2 DEF TypeInv
          <5>3. floor.swaps[s] <= swaps[obj]
            BY <2>4, <4>1, <5>1, <5>2
          <5> QED
            BY <4>3, <5>3 DEF Reports, KnownOf
        <4> QED
          BY <1>8, <4>2, <4>3 DEF Queries
      <3> HIDE DEF of, n
      <3>3. PICK a, b, o, r : a = of /\ b = n /\ o = m.op /\ r = s
        OBVIOUS
      <3>4. SameKnown(o, r)
        BY <1>4, <1>8, <2>1, <3>3
      <3>5. Reports(o, r, a, b)' /\ KnownOf(o, r)' = KnownOf(o, r)
        BY <3>2, <3>3, <3>4, KnownStable
      <3>6. call[t].floor = KnownOf(o, r)
        BY <1>8, <2>1, <3>3 DEF AskInv, AskOf
      <3>7. /\ call'[t].op = o /\ call'[t].s = r /\ call'[t].floor = KnownOf(o, r)'
            /\ answer'[t].of = a /\ answer'[t].n = b
        BY <1>1, <2>1, <3>1, <3>3, <3>5, <3>6
      <3> QED
        BY <3>5, <3>7 DEF AskOf, Reports, KnownOf
    <2> QED
      BY <1>3, <1>5, <2>1, <2>6 DEF AskInv
  <1> QED
    BY <1>7, <1>8

LEMMA FreshStep ==
  ASSUME TypeInv, TypeInv', CallInv, ArgumentInv, SurfaceInv, SurfaceInv', LastInv,
         FreshInv, [Next]_vars
  PROVE  FreshInv'
  <1>1. FloorInv'
    BY FloorStep DEF FreshInv
  <1>2. ASSUME Exclusive PROVE ApartInv' /\ CacheInv' /\ AskInv'
    <2>1. ApartInv /\ CacheInv /\ AskInv /\ FloorInv
      BY <1>2 DEF FreshInv
    <2>2. ApartInv'
      BY <1>2, <2>1, ApartStep
    <2>3. ASSUME NEW t \in Threads, Call(t) PROVE CacheInv' /\ AskInv'
      BY <1>2, <2>1, <2>3, FreshCall
    <2>4. ASSUME NEW t \in Threads, Comes(t) PROVE CacheInv' /\ AskInv'
      BY <2>1, <2>4, FreshComes
    <2>5. CASE Dispatch
      BY <2>1, <2>2, <2>5, FreshDispatch
    <2>6. CASE UNCHANGED vars
      <3>1. UNCHANGED <<cacheVars, call, answer, window, surfOf, floor>>
        BY <2>6 DEF vars, driverVars, appVars
      <3>2. \A o, s : SameKnown(o, s)
        BY <3>1 DEF SameKnown
      <3>3. CacheInv'
        BY <2>1, <3>1, <3>2, CacheStable DEF cacheVars
      <3>4. \A u \in Threads : AskOf(u)'
        BY <2>1, <3>1, <3>2, AskStable DEF AskInv, Same
      <3> QED
        BY <2>2, <3>3, <3>4 DEF AskInv
    <2> QED
      BY <2>2, <2>3, <2>4, <2>5, <2>6 DEF Next
  <1> QED
    BY <1>1, <1>2 DEF FreshInv

-----------------------------------------------------------------------------
(* The invariant *)

LEMMA TypeInit == ASSUME Init PROVE TypeInv
  <1>1. /\ MAX_CONTEXTS \in Nat /\ MAX_SURFACES \in Nat /\ RingBound \in Nat
        /\ left \in [Kinds -> Nat]
    BY EglAssumption DEF Init
  <1>2. /\ None \in Binding /\ Idle \in CallOf /\ NoAnswer \in AnswerOf
        /\ [ctx |-> 0, draw |-> 0] \in Binding
    BY IdleType DEF None, Binding, Objects
  <1>3. TypeOK
    <2>1. Len(ring) = 0 /\ 0 <= RingBound
      BY <1>1 DEF Init
    <2> QED
      BY <1>1, <1>2, <2>1 DEF TypeOK, Init, Objects
  <1>4. /\ ring \in Seq(Command) /\ window \in Seq(Windows) /\ swaps \in Seq(Nat)
        /\ Len(window) = 0 /\ Len(swaps) = 0 /\ made.draw = 0
    BY DEF Init
  <1>5. qs_cache \in [Surf -> CachedSize] /\ age_cache \in CachedAge
    BY DEF Init, CachedSize, CachedAge, Source
  <1>6. call \in [Threads -> CallOf] /\ answer \in [Threads -> AnswerOf]
        /\ made \in Binding
    BY <1>2 DEF Init
  <1>7. /\ size \in [Windows -> Nat]
        /\ floor \in [size : [Windows -> Nat], swaps : [Surf -> Nat]]
    BY DEF Init
  <1> QED
    BY <1>3, <1>4, <1>5, <1>6, <1>7 DEF TypeInv

LEMMA InvInit == ASSUME Init PROVE EglInv
  <1>1. TypeInv
    BY TypeInit
  <1>2. /\ ring = <<>> /\ DOMAIN ring = {}
        /\ \A t \in Threads : /\ call[t] = Idle /\ answer[t] = NoAnswer
                              /\ call[t].op = "idle" /\ ~answer[t].ok
                              /\ app[t] = None /\ last[t] = <<>>
        /\ \A i \in Ctx : egl_contexts[i] = 0 /\ ctxOf[i] = 0
        /\ \A i \in Surf : egl_surfaces[i] = 0 /\ surfOf[i] = 0
        /\ DOMAIN egl_contexts = Ctx /\ DOMAIN egl_surfaces = Surf
        /\ made.ctx = 0 /\ made.draw = 0
    BY DEF Init, Idle, NoAnswer
  <1>3. \A t \in Threads :
          /\ ~Waits(t) /\ ~Answered(t) /\ ~Binds(t) /\ ~Rebound(t)
          /\ call[t].op \notin Queries
          /\ \A o : ~Given(t, o) /\ (o # "idle" => ~Frees(t, o))
    BY <1>2 DEF Waits, Answered, Binds, Rebound, Given, Frees, Calls, Queries
  <1>4. CallInv
    BY <1>2, <1>3 DEF CallInv
  <1>5. ArgumentInv
    BY <1>2, <1>3 DEF ArgumentInv
  <1>6. ContextInv
    BY <1>2, <1>3 DEF ContextInv, TableInv
  <1>7. SurfaceInv
    BY <1>2, <1>3 DEF SurfaceInv, TableInv
  <1>8. LimitInv
    <2>1. {c \in Ctx : ctxOf[c] # 0} = {}
      BY <1>2
    <2>2. {t \in Threads : call[t].op = "createContext"} = {}
      BY <1>2
    <2>3. Live = 0
      <3>1. Owned = {} /\ Makers = {}
        BY <2>1, <2>2 DEF Owned, Makers
      <3>2. Cardinality(Owned) = 0 /\ Cardinality(Makers) = 0
        BY <3>1, FS_EmptySet
      <3> QED
        BY <3>2, LiveFacts
    <2> QED
      BY <1>2, <2>3, EglAssumption DEF LimitInv
  <1>9. LastInv
    BY <1>2, <1>3 DEF LastInv, LastOf
  <1>10. OwnInv
    BY <1>2, <1>3 DEF OwnInv, Held
  <1>11. KeptInv
    BY <1>2, <1>3 DEF KeptInv, Claims
  <1>12. DrawInv
    BY <1>2 DEF DrawInv
  <1>13. CurrentInv
    BY <1>3 DEF CurrentInv
  <1>14. FloorInv
    <2>1. ASSUME NEW w \in Windows
          PROVE  /\ Cardinality(Resizers(w)) = 0 /\ Underway("resize", w) = 0
                 /\ floor.size[w] = 0 /\ size[w] = 0
      <3>1. Resizers(w) = {} /\ Places("resize", w) = {}
        BY <1>2 DEF Resizers, Places
      <3> QED
        BY <3>1, FS_EmptySet DEF Underway, Init
    <2> QED
      BY <1>2, <2>1 DEF FloorInv
  <1>15. ApartInv /\ AskInv
    BY <1>3 DEF ApartInv, AskInv, AskOf
  <1>16. CacheInv
    <2>1. /\ \A s \in Surf : qs_cache[s].gen = 0
          /\ g_surface_gen = 1 /\ g_swap_count = 1 /\ age_cache.swaps = 0
      BY DEF Init
    <2> QED
      BY <2>1 DEF CacheInv
  <1> QED
    BY <1>1, <1>4, <1>5, <1>6, <1>7, <1>8, <1>9, <1>10, <1>11, <1>12, <1>13, <1>14,
       <1>15, <1>16 DEF EglInv, FreshInv

LEMMA InvStep == ASSUME EglInv, [Next]_vars PROVE EglInv'
  <1>1. /\ TypeInv /\ CallInv /\ ArgumentInv /\ ContextInv /\ SurfaceInv /\ LimitInv
        /\ LastInv /\ OwnInv /\ KeptInv /\ DrawInv /\ FreshInv
        /\ MaxLive < MAX_CONTEXTS => CurrentInv
    BY DEF EglInv
  <1>2. TypeInv'
    BY <1>1, TypeStep
  <1>3. CallInv' /\ ArgumentInv'
    BY <1>1, CallsStep
  <1>4. ContextInv' /\ SurfaceInv'
    BY <1>1, <1>2, TablesStep
  <1>5. LimitInv'
    BY <1>1, <1>2, LimitStep
  <1>6. LastInv'
    BY <1>1, LastStep
  <1>7. OwnInv'
    BY <1>1, OwnStep
  <1>8. KeptInv'
    BY <1>1, KeptStep
  <1>9. DrawInv'
    BY <1>1, DrawStep
  <1>10. MaxLive < MAX_CONTEXTS => CurrentInv'
    BY <1>1, CurrentStep
  <1>11. FreshInv'
    BY <1>1, <1>2, <1>4, FreshStep
  <1> QED
    BY <1>2, <1>3, <1>4, <1>5, <1>6, <1>7, <1>8, <1>9, <1>10, <1>11 DEF EglInv

(* Handles, bindings, caches and the commands under way agree in every     *)
(* state that program and proxy can reach (proxy/egl.c, stub/egl_stub.c).  *)
THEOREM EglCorrect == Spec => []EglInv
  <1>1. Init => EglInv
    BY InvInit
  <1>2. EglInv /\ [Next]_vars => EglInv'
    BY InvStep
  <1> QED
    BY <1>1, <1>2, PTL DEF Spec

(* TABLE_ALLOC() gives no index twice: a handle of the program stands for  *)
(* one object of the proxy's tables until the program destroys it, and the *)
(* context of a thread keeps the binding bridge_egl_make_current() noted.  *)
THEOREM HandlesKept == Spec => []HandlesHold
  <1>1. ASSUME EglInv PROVE HandlesHold
    <2>0. TypeInv /\ ContextInv /\ SurfaceInv /\ LastInv /\ KeptInv
      BY <1>1 DEF EglInv
    <2>1. \A i \in Ctx : ctxOf[i] # 0 => egl_contexts[i] = ctxOf[i]
      BY <2>0 DEF ContextInv, TableInv, TypeInv, TypeOK
    <2>2. \A i \in Surf : surfOf[i] # 0 => egl_surfaces[i] = surfOf[i]
      BY <2>0 DEF SurfaceInv, TableInv, TypeInv, TypeOK
    <2>3. ASSUME NEW t \in Threads, NEW i \in Ctx, app[t] # None,
                 ctxOf[i] = app[t].ctx, call[t].op # "makeCurrent"
          PROVE  g_ctx_bindings[i] = [valid |-> TRUE, draw |-> app[t].draw]
      <3>1. PICK c \in Handle, s \in Surf \cup {0} : last[t] = <<c, s>>
        BY <2>0, <2>3 DEF LastInv, LastOf, TypeInv, TypeOK, Handle
      <3>2. app[t] = Bound(c, s) /\ Exists(c, s) /\ (c = 0 => s = 0)
        BY <2>0, <3>1 DEF LastInv, LastOf
      <3>3. c \in Ctx /\ ctxOf[c] # 0 /\ app[t].ctx = ctxOf[c]
        <4>1. c # 0
          BY <2>3, <3>2 DEF Bound, None
        <4> QED
          BY <3>2, <4>1 DEF Handle, Bound, Exists
      <3>4. c = i
        BY <2>0, <2>1, <2>3, <3>3 DEF ContextInv, TableInv, TypeInv, TypeOK
      <3>5. Keeps(c, app[t])
        BY <2>0, <2>3, <3>1, <3>2, <3>3 DEF KeptInv, Claims, Rebound, Binds
      <3> QED
        BY <3>4, <3>5 DEF Keeps
    <2> QED
      BY <2>1, <2>2, <2>3 DEF HandlesHold
  <1> QED
    BY <1>1, EglCorrect, PTL

(* A program that keeps queries and changes of its surfaces apart never    *)
(* gets an answer from eglQuerySurface() that is older than what it knows, *)
(* whether the stub asks the proxy or its caches.                          *)
THEOREM QueriesFresh == ASSUME Exclusive PROVE Spec => []QueryFresh
  <1>1. ASSUME EglInv PROVE QueryFresh
    <2>1. AskInv
      BY <1>1 DEF EglInv, FreshInv
    <2> SUFFICES ASSUME NEW t \in Threads, Answered(t), call[t].op \in Queries
                 PROVE  /\ answer[t].n >= call[t].floor
                        /\ answer[t].of = IF call[t].op = "querySize"
                                            THEN window[surfOf[call[t].s]]
                                            ELSE surfOf[call[t].s]
      BY DEF QueryFresh, Answered
    <2> QED
      BY <2>1 DEF AskInv, AskOf, Reports
  <1> QED
    BY <1>1, EglCorrect, PTL

(* eglGetCurrentContext() of a thread names that thread's context, for a   *)
(* program that never holds MAX_CONTEXTS contexts.                         *)
THEOREM OwnContextNamed ==
  ASSUME MaxLive < MAX_CONTEXTS PROVE Spec => []CurrentIsOwn
  <1>1. ASSUME EglInv PROVE CurrentIsOwn
    <2>1. CurrentInv
      BY <1>1 DEF EglInv
    <2> QED
      BY <2>1 DEF CurrentInv, CurrentIsOwn, Answered, Ctx
  <1> QED
    BY <1>1, EglCorrect, PTL

-----------------------------------------------------------------------------
(* The commands under way, as the program sees them *)

Wanted(m) == IF m.op = "gl" THEN m.want ELSE None

LEMMA WantsForm ==
  ASSUME NEW r \in Seq(Command),
         NEW W, W = [k \in DOMAIN r |-> IF r[k].op = "gl" THEN r[k].want ELSE None]
  PROVE  /\ W \in Seq(Binding) /\ Len(W) = Len(r) /\ Len(r) \in Nat
         /\ \A k \in 1 .. Len(r) : W[k] = Wanted(r[k])
  <1>1. /\ Len(r) \in Nat /\ DOMAIN r = 1 .. Len(r)
        /\ \A k \in 1 .. Len(r) : r[k] \in Command
    OBVIOUS
  <1>2. W = [k \in 1 .. Len(r) |-> Wanted(r[k])]
    BY <1>1 DEF Wanted
  <1>3. \A k \in 1 .. Len(r) : Wanted(r[k]) \in Binding
    BY <1>1 DEF Wanted, Command, None, Binding, Objects
  <1> HIDE DEF Wanted
  <1>4. W \in [1 .. Len(r) -> Binding]
    BY <1>2, <1>3
  <1>5. W \in Seq(Binding) /\ Len(W) = Len(r)
    BY <1>1, <1>4
  <1> QED
    BY <1>1, <1>2, <1>5

(* A command that is sent joins them.                                      *)
LEMMA WantsPost ==
  ASSUME TypeInv, TypeInv', NEW t \in Threads, NEW o \in Kinds, NEW c \in Handle,
         NEW s \in Argument, Post(t, o, c, s)
  PROVE  Wants' = Append(Wants, IF o = "gl" THEN app[t] ELSE None)
  <1> DEFINE w == IF o = "gl" THEN app[t] ELSE None
             n == Len(ring)
  <1>1. /\ n \in Nat /\ Len(ring') = n + 1
        /\ ring'[n + 1] = Sent(t, o, c, s)
        /\ \A k \in 1 .. n : ring'[k] = ring[k]
    BY PostFacts
  <1>2. Wants \in Seq(Binding) /\ Len(Wants) = n
        /\ \A k \in 1 .. n : Wants[k] = Wanted(ring[k])
    BY WantsForm DEF Wants, TypeInv
  <1>3. Wants' \in Seq(Binding) /\ Len(Wants') = n + 1
        /\ \A k \in 1 .. n + 1 : Wants'[k] = Wanted(ring'[k])
    <2>1. ring' \in Seq(Command)
      BY DEF TypeInv
    <2>2. Wants' = [k \in DOMAIN ring' |-> IF ring'[k].op = "gl" THEN ring'[k].want
                                                                ELSE None]
      BY DEF Wants, None
    <2> QED
      BY <1>1, <2>1, <2>2, WantsForm
  <1>4. w \in Binding
    BY DEF TypeInv, TypeOK, None, Binding, Objects
  <1>5. Wanted(Sent(t, o, c, s)) = w
    BY DEF Wanted, Sent
  <1> HIDE DEF w, n
  <1>6. /\ Append(Wants, w) \in Seq(Binding) /\ Len(Append(Wants, w)) = n + 1
        /\ Append(Wants, w)[n + 1] = w
        /\ \A k \in 1 .. n : Append(Wants, w)[k] = Wants[k]
    BY <1>2, <1>4, AppendFacts
  <1>7. \A k \in 1 .. n + 1 : Wants'[k] = Append(Wants, w)[k]
    <2> SUFFICES ASSUME NEW k \in 1 .. n + 1 PROVE Wants'[k] = Append(Wants, w)[k]
      OBVIOUS
    <2>1. CASE k \in 1 .. n
      BY <1>1, <1>2, <1>3, <1>6, <2>1
    <2>2. CASE k = n + 1
      BY <1>1, <1>3, <1>5, <1>6, <2>2
    <2>3. k \in 1 .. n \/ k = n + 1
      BY <1>1
    <2> QED
      BY <2>1, <2>2, <2>3
  <1>8. Wants' = Append(Wants, w)
    BY <1>3, <1>6, <1>7, SeqEqual
  <1> QED
    BY <1>8 DEF w

(* The command that is run leaves them.                                    *)
LEMMA WantsRun ==
  ASSUME TypeInv, TypeInv', ring # <<>>, ring' = Tail(ring)
  PROVE  /\ Wants # <<>> /\ Head(Wants) = Wanted(ring[1])
         /\ Wants' = Tail(Wants)
  <1> DEFINE n == Len(ring)
  <1>1. /\ n \in Nat /\ n >= 1 /\ Len(ring') = n - 1
        /\ \A k \in 1 .. n - 1 : ring'[k] = ring[k + 1]
    BY FrontFacts
  <1>2. Wants \in Seq(Binding) /\ Len(Wants) = n
        /\ \A k \in 1 .. n : Wants[k] = Wanted(ring[k])
    BY WantsForm DEF Wants, TypeInv
  <1>3. Wants' \in Seq(Binding) /\ Len(Wants') = n - 1
        /\ \A k \in 1 .. n - 1 : Wants'[k] = Wanted(ring'[k])
    <2>1. ring' \in Seq(Command)
      BY DEF TypeInv
    <2>2. Wants' = [k \in DOMAIN ring' |-> IF ring'[k].op = "gl" THEN ring'[k].want
                                                                ELSE None]
      BY DEF Wants, None
    <2> QED
      BY <1>1, <2>1, <2>2, WantsForm
  <1> HIDE DEF n
  <1>4. Wants # <<>>
    BY <1>1, <1>2
  <1>5. /\ Head(Wants) = Wants[1]
        /\ Tail(Wants) \in Seq(Binding) /\ Len(Tail(Wants)) = n - 1
        /\ \A k \in 1 .. n - 1 : Tail(Wants)[k] = Wants[k + 1]
    BY <1>2, <1>4, TailFacts
  <1>6. \A k \in 1 .. n - 1 : Wants'[k] = Tail(Wants)[k]
    <2> SUFFICES ASSUME NEW k \in 1 .. n - 1 PROVE Wants'[k] = Tail(Wants)[k]
      OBVIOUS
    <2>1. k + 1 \in 1 .. n
      BY <1>1
    <2> QED
      BY <1>1, <1>2, <1>3, <1>5, <2>1
  <1>7. Wants' = Tail(Wants)
    BY <1>3, <1>5, <1>6, SeqEqual
  <1> QED
    BY <1>1, <1>2, <1>4, <1>5, <1>7

-----------------------------------------------------------------------------
(* Every thread draws on what it has made current *)

LEMMA PostIssues ==
  ASSUME TypeInv, TypeInv', CallInv, LastInv, NEW t \in Threads, NEW o \in Kinds,
         NEW c \in Handle, NEW s \in Argument, Post(t, o, c, s), Starts(t, o, c, s),
         UNCHANGED <<app, acted>>
  PROVE  CC!CCNext
  <1>1. Wants' = Append(Wants, IF o = "gl" THEN app[t] ELSE None)
    BY WantsPost
  <1>2. CASE o = "gl"
    <2>1. app[t] # None
      BY <1>2, SentDraws
    <2>2. CC!Issue(t)
      BY <1>1, <1>2, <2>1 DEF CC!Issue
    <2> QED
      BY <2>2 DEF CC!CCNext
  <1>3. CASE o # "gl"
    <2>1. CC!IssueOther
      BY <1>1, <1>3 DEF CC!IssueOther
    <2> QED
      BY <2>1 DEF CC!CCNext
  <1> QED
    BY <1>2, <1>3

(* The proxy runs the oldest command, on what its thread had current.      *)
LEMMA DispatchActs ==
  ASSUME TypeInv, TypeInv', CallInv, ContextInv, LimitInv, LastInv, KeptInv, DrawInv,
         MaxLive < MAX_CONTEXTS, Dispatch
  PROVE  CC!Act
  <1>1. /\ ring # <<>> /\ ring' = Tail(ring) /\ UNCHANGED app
        /\ Front = ring[1] /\ Front \in Command /\ 1 \in DOMAIN ring
    BY FrontForm, FrontFacts DEF appVars
  <1>2. Wants # <<>> /\ Head(Wants) = Wanted(Front) /\ Wants' = Tail(Wants)
    BY <1>1, WantsRun
  <1>3. acted' = IF Front.op = "gl" THEN CurFor(Front) ELSE acted
    BY DEF Dispatch, Front, RunCreateContext, RunCreateSurface, RunMakeCurrent,
           RunDestroyContext, RunDestroySurface, RunReleaseThread, RunAsk, RunPost
  <1>4. CASE Front.op = "gl"
    <2>1. CurFor(Front) = app[Front.t] /\ Front.want = app[Front.t]
      BY <1>1, <1>4, DrawsOnOwn
    <2>2. app[Front.t] # None
      BY <1>1, <1>4 DEF DrawInv
    <2> QED
      BY <1>1, <1>2, <1>3, <1>4, <2>1, <2>2 DEF CC!Act, Wanted
  <1>5. CASE Front.op # "gl"
    BY <1>1, <1>2, <1>3, <1>5 DEF CC!Act, Wanted
  <1> QED
    BY <1>4, <1>5

LEMMA QuietWants ==
  ASSUME UNCHANGED <<app, ring, acted>> PROVE UNCHANGED CC!ccVars
  BY DEF CC!ccVars, Wants

LEMMA RefinesStep ==
  ASSUME EglInv, EglInv', MaxLive < MAX_CONTEXTS, [Next]_vars
  PROVE  CC!CCNext \/ UNCHANGED CC!ccVars
  <1>0. /\ TypeInv /\ CallInv /\ ArgumentInv /\ ContextInv /\ LimitInv
        /\ LastInv /\ KeptInv /\ DrawInv /\ TypeInv'
    BY DEF EglInv
  <1>1. ASSUME NEW t \in Threads, Call(t)
        PROVE  CC!CCNext \/ UNCHANGED CC!ccVars
    <2>0. UNCHANGED acted
      BY <1>1, CallForm
    <2>1. ASSUME NEW o, NEW c, NEW s, Begins(t, o, c, s) PROVE CC!CCNext
      <3>1. o \in Kinds /\ c \in Handle /\ s \in Argument
        BY <2>1 DEF Begins, Formed, Kinds, Posts
      <3> QED
        BY <1>0, <2>0, <2>1, <3>1, PostIssues DEF Begins
    <2>2. ASSUME NEW o, NEW s, Sends(t, o, s) PROVE CC!CCNext
      <3>1. o \in Kinds /\ 0 \in Handle /\ s \in Argument
        BY <2>2 DEF Sends, Formed, Kinds, Posts, Handle
      <3> QED
        BY <1>0, <2>0, <2>2, <3>1, PostIssues DEF Sends
    <2>3. ASSUME NEW s \in Surf, NEW o \in Queries, QueryHit(t, o, s)
          PROVE  UNCHANGED CC!ccVars
      BY <2>3, QuietWants DEF QueryHit, appVars
    <2>4. ASSUME NEW c, NEW s, MakeCurrentAgain(t, c, s)
          PROVE  UNCHANGED CC!ccVars
      BY <1>0, <2>4, AgainQuiet, QuietWants
    <2> QED
      BY <1>1, <2>1, <2>2, <2>3, <2>4, CallForm
  <1>2. ASSUME NEW t \in Threads, Comes(t)
        PROVE  CC!CCNext \/ UNCHANGED CC!ccVars
    <2>1. UNCHANGED <<ring, acted>>
      BY <1>2 DEF Comes, ReturnQuery, ReturnCreate, ReturnPlain, ReturnMakeCurrent,
                  Resized, Done
    <2>2. CASE ~ReturnMakeCurrent(t)
      BY <1>0, <1>2, <2>1, <2>2, ComesLast, QuietWants
    <2>3. CASE ReturnMakeCurrent(t)
      <3>1. \A u \in Threads : u # t => app'[u] = app[u]
        BY <1>0, <2>3, RefusedOrBound
      <3>2. app \in [Threads -> Binding] /\ app' \in [Threads -> Binding]
        BY <1>0 DEF TypeInv, TypeOK
      <3>3. app' = [app EXCEPT ![t] = app'[t]] /\ app'[t] \in Binding
        BY <3>1, <3>2
      <3>4. UNCHANGED Wants
        BY <2>1 DEF Wants
      <3>5. CC!Bind(t)
        BY <2>1, <3>3, <3>4 DEF CC!Bind
      <3> QED
        BY <3>5 DEF CC!CCNext
    <2> QED
      BY <2>2, <2>3
  <1>3. CASE Dispatch
    BY <1>0, <1>3, DispatchActs DEF CC!CCNext
  <1>4. CASE UNCHANGED vars
    BY <1>4, QuietWants DEF vars, appVars
  <1> QED
    BY <1>1, <1>2, <1>3, <1>4 DEF Next

(* Every drawing command acts on the context and the surface its thread    *)
(* had current when it issued it, in the order of issue, although the      *)
(* proxy has one thread (egl_bind_target_ctx()); for a program that never  *)
(* holds MAX_CONTEXTS contexts.                                            *)
THEOREM DrawsWhereCurrent ==
  ASSUME MaxLive < MAX_CONTEXTS PROVE Spec => ImplementsCurrentContext
  <1>1. Init => CC!CCInit
    BY DEF Init, CC!CCInit, Wants
  <1>2. EglInv /\ EglInv' /\ [Next]_vars => [CC!CCNext]_(CC!ccVars)
    BY RefinesStep
  <1> QED
    BY <1>1, <1>2, EglCorrect, PTL DEF Spec, ImplementsCurrentContext, CC!CCSpec
=============================================================================
