------------------------- MODULE EglContexts_proofs -------------------------
(***************************************************************************)
(* Handles, bindings and caches of EglContexts, for every set of threads,  *)
(* size of the tables, length of the ring and workload.                    *)
(***************************************************************************)
EXTENDS EglInvariant, FiniteSetTheorems, WellFoundedInduction, TLAPS

(* The ring after its first command has run.                               *)
LEMMA TailFacts ==
  ASSUME NEW S, NEW q \in Seq(S), q # <<>>
  PROVE  /\ Head(q) = q[1] /\ q[1] \in S /\ Tail(q) \in Seq(S)
         /\ Len(q) \in Nat /\ Len(q) >= 1 /\ Len(Tail(q)) = Len(q) - 1
         /\ DOMAIN q = 1 .. Len(q) /\ DOMAIN Tail(q) = 1 .. Len(q) - 1
         /\ \A k \in DOMAIN Tail(q) : k + 1 \in DOMAIN q /\ Tail(q)[k] = q[k + 1]
  OBVIOUS

(* The ring after a send.                                                  *)
LEMMA AppendFacts ==
  ASSUME NEW S, NEW q \in Seq(S), NEW e \in S
  PROVE  /\ Append(q, e) \in Seq(S)
         /\ Len(q) \in Nat /\ Len(Append(q, e)) = Len(q) + 1
         /\ DOMAIN q = 1 .. Len(q) /\ DOMAIN Append(q, e) = 1 .. Len(q) + 1
         /\ Append(q, e)[Len(q) + 1] = e
         /\ \A k \in DOMAIN q : Append(q, e)[k] = q[k]
  OBVIOUS

LEMMA LowestFact ==
  ASSUME NEW S \in SUBSET Nat, S # {}
  PROVE  Lowest(S) \in S /\ \A j \in S : Lowest(S) <= j
  <1>1. PICK x \in S : \A y \in S : ~ (<<y, x>> \in OpToRel(<, Nat))
    BY WFMin, NatLessThanWellFounded, Zenon
  <1>2. \A y \in S : x <= y
    <2> TAKE y \in S
    <2>1. x \in Nat /\ y \in Nat
      OBVIOUS
    <2>2. ~(y < x)
      BY <1>1, <2>1 DEF OpToRel
    <2> QED
      BY <2>1, <2>2
  <1> QED
    BY <1>2 DEF Lowest

(* What TABLE_ALLOC() finds.                                               *)
LEMMA AllocFact ==
  ASSUME NEW n \in Nat, NEW table, DOMAIN table = 1 .. n
  PROVE  /\ TableAlloc(table) \in (1 .. n) \cup {0}
         /\ TableAlloc(table) # 0 =>
              /\ table[TableAlloc(table)] = 0
              /\ \A j \in 1 .. n : j < TableAlloc(table) => table[j] # 0
         /\ TableAlloc(table) = 0 => \A j \in 1 .. n : table[j] # 0
  <1>1. FreeEntries(table) \in SUBSET Nat /\ FreeEntries(table) \subseteq 1 .. n
    BY DEF FreeEntries
  <1>2. CASE FreeEntries(table) = {}
    BY <1>2 DEF TableAlloc, FreeEntries
  <1>3. CASE FreeEntries(table) # {}
    <2>1. /\ TableAlloc(table) \in FreeEntries(table)
          /\ \A j \in FreeEntries(table) : TableAlloc(table) <= j
      BY <1>1, <1>3, LowestFact DEF TableAlloc
    <2> QED
      BY <1>1, <2>1 DEF FreeEntries
  <1> QED
    BY <1>2, <1>3

-----------------------------------------------------------------------------
(* Type correctness *)

LEMMA PostType ==
  ASSUME TypeInv, NEW t \in Threads, NEW o \in Kinds, NEW c \in Handle,
         NEW s \in Argument, Post(t, o, c, s)
  PROVE  ring' \in Seq(Command) /\ Len(ring') <= RingBound
  <1> DEFINE m == [op |-> o, t |-> t, ctx |-> g_stub_current_ctx[t],
                   c |-> c, s |-> s, want |-> app[t]]
  <1>1. m \in Command
    BY DEF TypeInv, TypeOK, Command, Handle
  <1>2. ring' = Append(ring, m) /\ Len(ring) < RingBound
    BY DEF Post
  <1>3. ring \in Seq(Command)
    BY DEF TypeInv
  <1> HIDE DEF m
  <1> QED
    BY <1>1, <1>2, <1>3, AppendFacts, EglAssumption

(* What the program knows of a live surface is a number.                   *)
LEMMA KnownType ==
  ASSUME TypeInv, SurfaceInv, NEW o \in Queries, NEW s \in Surf, surfOf[s] # 0
  PROVE  /\ surfOf[s] \in 1 .. made.draw
         /\ window[surfOf[s]] \in Windows /\ swaps[surfOf[s]] \in Nat
         /\ KnownOf(o, s) \in Nat
  <1>1. surfOf[s] \in Nat /\ made.draw \in Nat
    BY DEF TypeInv, TypeOK, Binding, Objects
  <1>2. surfOf[s] <= made.draw
    BY DEF TypeInv, TypeOK, SurfaceInv, TableInv
  <1>3. surfOf[s] \in 1 .. made.draw
    BY <1>1, <1>2
  <1>4. window[surfOf[s]] \in Windows /\ swaps[surfOf[s]] \in Nat
    BY <1>3 DEF TypeInv
  <1> QED
    BY <1>3, <1>4 DEF TypeInv, KnownOf

LEMMA EnterType ==
  ASSUME TypeInv, NEW t \in Threads, NEW o \in Kinds, NEW c \in Handle,
         NEW s \in Argument, Enter(t, o, c, s), o \in Queries => KnownOf(o, s) \in Nat
  PROVE  call' \in [Threads -> CallOf]
  BY DEF TypeInv, Enter, CallOf

LEMMA IdleType == Idle \in CallOf /\ NoAnswer \in AnswerOf
  BY DEF Idle, CallOf, NoAnswer, AnswerOf, Handle, Argument, Source

LEMMA StartsType ==
  ASSUME TypeInv, NEW t \in Threads, NEW o \in Kinds, NEW c, NEW s,
         Starts(t, o, c, s)
  PROVE  left' \in [Kinds -> Nat]
  BY DEF TypeInv, TypeOK, Starts

LEMMA KindFacts == Calls \subseteq Kinds /\ Posts \subseteq Kinds
                   /\ Queries \subseteq Kinds /\ Plain \subseteq Kinds
                   /\ Leaves \subseteq Calls /\ Plain \subseteq Calls
                   /\ Queries \subseteq Calls
  BY DEF Calls, Posts, Kinds, Queries, Plain, Leaves

(* What the program may ask for, call by call.                             *)
LEMMA Meant ==
  ASSUME NEW t, NEW c, NEW s
  PROVE  /\ Sensible(t, "createContext", c, s) => Live < MaxLive /\ c = 0 /\ s = 0
         /\ Sensible(t, "destroyContext", c, s) =>
              c # 0 /\ s = 0 /\ ctxOf[c] # 0 /\ ~InUse(c, 0)
         /\ Sensible(t, "createSurface", c, s) => c = 0 /\ s \in Windows
         /\ Sensible(t, "destroySurface", c, s) =>
              c = 0 /\ s # 0 /\ surfOf[s] # 0 /\ ~InUse(0, s)
         /\ Sensible(t, "makeCurrent", c, s) =>
              \/ c = 0 /\ s = 0
              \/ /\ c # 0 /\ ctxOf[c] # 0 /\ (s # 0 => surfOf[s] # 0)
                 /\ ~Others(t, c, s)
         /\ Sensible(t, "releaseThread", c, s) => app[t] = None
         /\ Sensible(t, "getCurrent", c, s) => app[t] # None
         /\ Sensible(t, "gl", c, s) => app[t] # None
         /\ Sensible(t, "swap", c, s) =>
              /\ app[t] # None /\ s # 0
              /\ surfOf[s] # 0 /\ surfOf[s] = app[t].draw
         /\ Sensible(t, "resize", c, s) => s \in Windows
  <1>2. /\ Sensible(t, "createContext", c, s) => Live < MaxLive /\ c = 0 /\ s = 0
        /\ Sensible(t, "destroyContext", c, s) =>
             c # 0 /\ s = 0 /\ ctxOf[c] # 0 /\ ~InUse(c, 0)
        /\ Sensible(t, "createSurface", c, s) => c = 0 /\ s \in Windows
    BY DEF Sensible, Queries
  <1>3. /\ Sensible(t, "destroySurface", c, s) =>
             c = 0 /\ s # 0 /\ surfOf[s] # 0 /\ ~InUse(0, s)
        /\ Sensible(t, "makeCurrent", c, s) =>
             \/ c = 0 /\ s = 0
             \/ /\ c # 0 /\ ctxOf[c] # 0 /\ (s # 0 => surfOf[s] # 0)
                /\ ~Others(t, c, s)
    BY DEF Sensible, Queries
  <1>4. /\ Sensible(t, "releaseThread", c, s) => app[t] = None
        /\ Sensible(t, "getCurrent", c, s) => app[t] # None
        /\ Sensible(t, "gl", c, s) => app[t] # None
    BY DEF Sensible, Queries
  <1>5. /\ Sensible(t, "swap", c, s) =>
             /\ app[t] # None /\ s # 0
             /\ surfOf[s] # 0 /\ surfOf[s] = app[t].draw
        /\ Sensible(t, "resize", c, s) => s \in Windows
    BY DEF Sensible, Queries
  <1> QED
    BY <1>2, <1>3, <1>4, <1>5

LEMMA MeantQuery ==
  ASSUME NEW t, NEW o \in Queries, NEW c, NEW s, Sensible(t, o, c, s)
  PROVE  c = 0 /\ s # 0 /\ surfOf[s] # 0
  BY DEF Sensible, Queries

LEMMA AgeReset ==
  ASSUME NEW a \in CachedAge
  PROVE  [a EXCEPT !.swaps = 0] \in CachedAge
  BY DEF CachedAge

(* The program learns of swaps, of resizes.                                *)
Floors == [size : [Windows -> Nat], swaps : [Surf -> Nat]]
LEMMA SwapsKnown ==
  ASSUME NEW f \in Floors, NEW s, NEW n \in Nat
  PROVE  /\ [f EXCEPT !.swaps[s] = n] \in Floors
         /\ [f EXCEPT !.swaps[s] = n].size = f.size
         /\ [f EXCEPT !.swaps[s] = n].swaps = [f.swaps EXCEPT ![s] = n]
  BY DEF Floors

LEMMA SizesKnown ==
  ASSUME NEW f \in Floors, NEW w, NEW n \in Nat
  PROVE  /\ [f EXCEPT !.size[w] = n] \in Floors
         /\ [f EXCEPT !.size[w] = n].swaps = f.swaps
         /\ [f EXCEPT !.size[w] = n].size = [f.size EXCEPT ![w] = n]
  BY DEF Floors

LEMMA CallType ==
  ASSUME TypeInv, SurfaceInv, NEW t \in Threads, Call(t)
  PROVE  TypeInv'
  <1> USE KindFacts
  <1>1. ASSUME /\ UNCHANGED <<last, qs_cache, proxyVars, driverVars, acted>>
               /\ call' \in [Threads -> CallOf] /\ answer' \in [Threads -> AnswerOf]
               /\ ring' \in Seq(Command) /\ Len(ring') <= RingBound
               /\ left' \in [Kinds -> Nat]
               /\ g_stub_current_ctx' \in [Threads -> Ctx \cup {0}]
               /\ age_cache' \in CachedAge /\ g_surface_gen' \in Nat
               /\ g_swap_count' \in Nat /\ ctxOf' \in [Ctx -> Objects]
               /\ surfOf' \in [Surf -> Objects] /\ app' \in [Threads -> Binding]
               /\ floor' \in Floors
        PROVE  TypeInv'
    BY <1>1 DEF TypeInv, TypeOK, proxyVars, driverVars, Floors
  <1>2. /\ 0 \in Handle /\ 0 \in Argument /\ Windows \subseteq Argument
        /\ Surf \subseteq Argument /\ Ctx \subseteq Handle
    BY DEF Handle, Argument
  <1>3. /\ call \in [Threads -> CallOf] /\ answer \in [Threads -> AnswerOf]
        /\ ring \in Seq(Command) /\ Len(ring) <= RingBound
        /\ left \in [Kinds -> Nat]
        /\ g_stub_current_ctx \in [Threads -> Ctx \cup {0}]
        /\ age_cache \in CachedAge /\ g_surface_gen \in Nat
        /\ g_swap_count \in Nat /\ ctxOf \in [Ctx -> Objects]
        /\ surfOf \in [Surf -> Objects] /\ app \in [Threads -> Binding]
        /\ floor \in Floors
    BY DEF TypeInv, TypeOK, Floors
  <1>4. ASSUME NEW o \in Plain, PlainCall(t, o) PROVE TypeInv'
    <2>1. o \in Kinds /\ o \notin Queries
      BY DEF Plain, Queries, Kinds, Calls
    <2>2. Starts(t, o, 0, 0) /\ Post(t, o, 0, 0) /\ Enter(t, o, 0, 0)
      BY <1>4 DEF PlainCall
    <2>3. ring' \in Seq(Command) /\ Len(ring') <= RingBound
      BY <1>2, <2>1, <2>2, PostType
    <2>4. call' \in [Threads -> CallOf] /\ left' \in [Kinds -> Nat]
      BY <1>2, <2>1, <2>2, EnterType, StartsType
    <2> QED
      BY <1>1, <1>3, <1>4, <2>3, <2>4 DEF PlainCall, cacheVars, appVars
  <1>5. ASSUME NEW c \in Ctx, DestroyContext(t, c) PROVE TypeInv'
    <2>1. "destroyContext" \in Kinds \ Queries
      BY DEF Queries, Kinds, Calls
    <2>2. ring' \in Seq(Command) /\ Len(ring') <= RingBound
      BY <1>2, <1>5, <2>1, PostType DEF DestroyContext
    <2>3. call' \in [Threads -> CallOf] /\ left' \in [Kinds -> Nat]
      BY <1>2, <1>5, <2>1, EnterType, StartsType DEF DestroyContext
    <2>4. ctxOf' \in [Ctx -> Objects]
      BY <1>3, <1>5 DEF DestroyContext, Objects
    <2> QED
      BY <1>1, <1>3, <1>5, <2>2, <2>3, <2>4 DEF DestroyContext, cacheVars
  <1>6. ASSUME NEW w \in Windows, CreateWindowSurface(t, w) PROVE TypeInv'
    <2>1. "createSurface" \in Kinds \ Queries
      BY DEF Queries, Kinds, Calls
    <2>2. ring' \in Seq(Command) /\ Len(ring') <= RingBound
      BY <1>2, <1>6, <2>1, PostType DEF CreateWindowSurface
    <2>3. call' \in [Threads -> CallOf] /\ left' \in [Kinds -> Nat]
      BY <1>2, <1>6, <2>1, EnterType, StartsType DEF CreateWindowSurface
    <2> QED
      BY <1>1, <1>3, <1>6, <2>2, <2>3 DEF CreateWindowSurface, appVars
  <1>7. ASSUME NEW w \in Windows, Resize(t, w) PROVE TypeInv'
    <2>1. "resize" \in Kinds \ Queries
      BY DEF Queries, Kinds, Posts
    <2>2. ring' \in Seq(Command) /\ Len(ring') <= RingBound
      BY <1>2, <1>7, <2>1, PostType DEF Resize
    <2>3. call' \in [Threads -> CallOf] /\ left' \in [Kinds -> Nat]
      BY <1>2, <1>7, <2>1, EnterType, StartsType DEF Resize
    <2> QED
      BY <1>1, <1>3, <1>7, <2>2, <2>3 DEF Resize, appVars, cacheVars
  <1>8. ASSUME NEW s \in Surf, DestroySurface(t, s) PROVE TypeInv'
    <2>1. "destroySurface" \in Kinds \ Queries
      BY DEF Queries, Kinds, Calls
    <2>2. ring' \in Seq(Command) /\ Len(ring') <= RingBound
      BY <1>2, <1>8, <2>1, PostType DEF DestroySurface
    <2>3. call' \in [Threads -> CallOf] /\ left' \in [Kinds -> Nat]
      BY <1>2, <1>8, <2>1, EnterType, StartsType DEF DestroySurface
    <2>4. surfOf' \in [Surf -> Objects] /\ g_surface_gen' \in Nat
      BY <1>3, <1>8 DEF DestroySurface, Objects
    <2>5. age_cache' \in CachedAge
      BY <1>3, <1>8, AgeReset DEF DestroySurface
    <2> QED
      BY <1>1, <1>3, <1>8, <2>2, <2>3, <2>4, <2>5 DEF DestroySurface
  <1>9. ASSUME NEW s \in Surf, SwapBuffers(t, s) PROVE TypeInv'
    <2>1. "swap" \in Kinds
      BY DEF Kinds, Posts
    <2>2. ring' \in Seq(Command) /\ Len(ring') <= RingBound
      BY <1>2, <1>9, <2>1, PostType DEF SwapBuffers
    <2>3. left' \in [Kinds -> Nat]
      BY <1>9, <2>1, StartsType DEF SwapBuffers
    <2>4. floor' \in Floors
      <3>1. floor.swaps[s] + 1 \in Nat
        BY <1>3 DEF Floors
      <3>2. floor' = [floor EXCEPT !.swaps[s] = floor.swaps[s] + 1]
        BY <1>9 DEF SwapBuffers
      <3> QED
        BY <1>3, <3>1, <3>2, SwapsKnown
    <2>5. g_swap_count' \in Nat
      BY <1>3, <1>9 DEF SwapBuffers
    <2> QED
      BY <1>1, <1>3, <1>9, <2>2, <2>3, <2>4, <2>5 DEF SwapBuffers
  <1>10. ASSUME NEW s \in Surf, NEW o \in Queries, QueryHit(t, o, s) PROVE TypeInv'
    <2>0. Sensible(t, o, 0, s)
      BY <1>10 DEF QueryHit, Starts
    <2>9. surfOf[s] # 0
      BY <2>0, MeantQuery
    <2>1. KnownOf(o, s) \in Nat /\ o \in Kinds
      BY <2>9, KnownType
    <2>2. call' \in [Threads -> CallOf] /\ left' \in [Kinds -> Nat]
      BY <1>2, <1>10, <2>1, EnterType, StartsType DEF QueryHit
    <2>3. qs_cache[s] \in CachedSize /\ age_cache \in CachedAge
      BY DEF TypeInv
    <2>4. Kept(o, s).of \in Source /\ Kept(o, s).n \in Nat
      BY <2>3 DEF Kept, CachedSize, CachedAge
    <2>5. [ok |-> TRUE, of |-> Kept(o, s).of, n |-> Kept(o, s).n, from |-> "cache"]
            \in AnswerOf
      BY <2>4 DEF AnswerOf
    <2>6. answer' \in [Threads -> AnswerOf]
      BY <1>3, <1>10, <2>5 DEF QueryHit
    <2> QED
      BY <1>1, <1>3, <1>10, <2>2, <2>6 DEF QueryHit, cacheVars, appVars
  <1>11. ASSUME NEW s \in Surf, NEW o \in Queries, QueryMiss(t, o, s) PROVE TypeInv'
    <2>0. Sensible(t, o, 0, s)
      BY <1>11 DEF QueryMiss, Starts
    <2>9. surfOf[s] # 0
      BY <2>0, MeantQuery
    <2>1. KnownOf(o, s) \in Nat /\ o \in Kinds
      BY <2>9, KnownType
    <2>2. ring' \in Seq(Command) /\ Len(ring') <= RingBound
      BY <1>2, <1>11, <2>1, PostType DEF QueryMiss
    <2>3. call' \in [Threads -> CallOf] /\ left' \in [Kinds -> Nat]
      BY <1>2, <1>11, <2>1, EnterType, StartsType DEF QueryMiss
    <2> QED
      BY <1>1, <1>3, <1>11, <2>2, <2>3 DEF QueryMiss, cacheVars, appVars
  <1>12. ASSUME NEW c \in Ctx \cup {0}, NEW s \in Surf \cup {0},
                MakeCurrentAgain(t, c, s)
         PROVE  TypeInv'
    <2>1. "makeCurrent" \in Kinds
      BY DEF Kinds, Calls
    <2>2. left' \in [Kinds -> Nat]
      BY <1>12, <2>1, StartsType DEF MakeCurrentAgain
    <2>3. Bound(c, s) \in Binding
      BY <1>3 DEF Bound, Binding, Objects
    <2>4. app' \in [Threads -> Binding]
          /\ g_stub_current_ctx' \in [Threads -> Ctx \cup {0}]
      BY <1>3, <1>12, <2>3 DEF MakeCurrentAgain
    <2> QED
      BY <1>1, <1>3, <1>12, <2>2, <2>4 DEF MakeCurrentAgain, cacheVars
  <1>13. ASSUME NEW c \in Ctx \cup {0}, NEW s \in Surf \cup {0},
                MakeCurrent(t, c, s)
         PROVE  TypeInv'
    <2>1. "makeCurrent" \in Kinds \ Queries /\ c \in Handle /\ s \in Argument
      BY <1>2 DEF Kinds, Calls, Queries, Handle
    <2>2. ring' \in Seq(Command) /\ Len(ring') <= RingBound
      BY <1>13, <2>1, PostType DEF MakeCurrent
    <2>3. call' \in [Threads -> CallOf] /\ left' \in [Kinds -> Nat]
      BY <1>13, <2>1, EnterType, StartsType DEF MakeCurrent
    <2>4. g_stub_current_ctx' \in [Threads -> Ctx \cup {0}]
      BY <1>3, <1>13 DEF MakeCurrent
    <2> QED
      BY <1>1, <1>3, <1>13, <2>2, <2>3, <2>4 DEF MakeCurrent, cacheVars, appVars
  <1>14. CASE GLCommand(t)
    <2>1. "gl" \in Kinds
      BY DEF Kinds, Posts
    <2>2. ring' \in Seq(Command) /\ Len(ring') <= RingBound
      BY <1>2, <1>14, <2>1, PostType DEF GLCommand
    <2>3. left' \in [Kinds -> Nat]
      BY <1>14, <2>1, StartsType DEF GLCommand
    <2> QED
      BY <1>1, <1>3, <1>14, <2>2, <2>3 DEF GLCommand, cacheVars, appVars
  <1> QED
    BY <1>4, <1>5, <1>6, <1>7, <1>8, <1>9, <1>10, <1>11, <1>12, <1>13, <1>14
       DEF Call

LEMMA ComesType ==
  ASSUME TypeInv, ArgumentInv, ContextInv, SurfaceInv, NEW t \in Threads, Comes(t)
  PROVE  TypeInv'
  <1>1. ASSUME /\ UNCHANGED <<ring, proxyVars, driverVars, left, acted, g_swap_count,
                             g_stub_current_ctx>>
               /\ call' \in [Threads -> CallOf] /\ answer' \in [Threads -> AnswerOf]
               /\ last' \in [Threads -> {<<>>} \cup (Ctx \cup {0}) \X (Surf \cup {0})]
               /\ qs_cache' \in [Surf -> CachedSize]
               /\ age_cache' \in CachedAge /\ g_surface_gen' \in Nat
               /\ ctxOf' \in [Ctx -> Objects]
               /\ surfOf' \in [Surf -> Objects] /\ app' \in [Threads -> Binding]
               /\ floor' \in Floors
        PROVE  TypeInv'
    BY <1>1 DEF TypeInv, TypeOK, proxyVars, driverVars, Floors
  <1>2. /\ call \in [Threads -> CallOf] /\ answer \in [Threads -> AnswerOf]
        /\ qs_cache \in [Surf -> CachedSize]
        /\ age_cache \in CachedAge /\ g_surface_gen \in Nat /\ g_swap_count \in Nat
        /\ ctxOf \in [Ctx -> Objects]
        /\ surfOf \in [Surf -> Objects] /\ app \in [Threads -> Binding]
        /\ floor \in Floors
    BY DEF TypeInv, TypeOK, Floors
  <1>3. last \in [Threads -> {<<>>} \cup (Ctx \cup {0}) \X (Surf \cup {0})]
    BY DEF TypeInv, TypeOK
  <1>4. call[t] \in CallOf /\ answer[t] \in AnswerOf
    BY <1>2
  <1>5. ASSUME Done(t)
        PROVE  /\ call' \in [Threads -> CallOf] /\ answer' \in [Threads -> AnswerOf]
               /\ UNCHANGED <<ring, proxyVars, driverVars, left, acted>>
    BY <1>2, <1>5, IdleType DEF Done
  <1>6. CASE Resized(t)
    <2>1. call[t].s \in Windows
      BY <1>6 DEF Resized, ArgumentInv
    <2>2. floor.size[call[t].s] + 1 \in Nat
      BY <1>2, <2>1 DEF Floors
    <2>3. floor' = [floor EXCEPT !.size[call[t].s] = floor.size[call[t].s] + 1]
      BY <1>6 DEF Resized
    <2>4. floor' \in Floors
      BY <1>2, <2>2, <2>3, SizesKnown
    <2>5. call' \in [Threads -> CallOf]
      BY <1>2, <1>6, IdleType DEF Resized
    <2> QED
      BY <1>1, <1>2, <1>3, <1>6, <2>4, <2>5 DEF Resized
  <1>7. ASSUME NEW o \in Kinds, ReturnQuery(t, o) PROVE TypeInv'
    <2>1. Done(t) /\ o \in Queries /\ call[t].op = o
      BY <1>7 DEF ReturnQuery, Back
    <2>2. call[t].s \in Surf
      BY <2>1 DEF ArgumentInv
    <2>3. [gen |-> g_surface_gen, of |-> answer[t].of, n |-> answer[t].n] \in CachedSize
      BY <1>2, <1>4 DEF AnswerOf, CachedSize
    <2>4. [surf |-> call[t].s, swaps |-> g_swap_count, n |-> answer[t].n,
           of |-> answer[t].of] \in CachedAge
      BY <1>2, <1>4, <2>2 DEF AnswerOf, CachedAge
    <2>5. qs_cache' \in [Surf -> CachedSize]
      BY <1>2, <1>7, <2>3 DEF ReturnQuery
    <2>6. age_cache' \in CachedAge
      BY <1>2, <1>7, <2>4 DEF ReturnQuery
    <2> QED
      BY <1>1, <1>2, <1>3, <1>5, <1>7, <2>1, <2>5, <2>6 DEF ReturnQuery, appVars
  <1>8. ASSUME NEW o \in Kinds, ReturnCreate(t, o) PROVE TypeInv'
    <2>1. Done(t)
      BY <1>8 DEF ReturnCreate
    <2>2. answer[t].n \in Objects
      BY <1>4 DEF AnswerOf, Objects
    <2>3. ctxOf' \in [Ctx -> Objects] /\ surfOf' \in [Surf -> Objects]
      BY <1>2, <1>8, <2>2 DEF ReturnCreate
    <2>4. floor' \in Floors
      <3>1. CASE floor' = floor
        BY <1>2, <3>1
      <3>2. CASE floor' = [floor EXCEPT !.swaps[answer[t].of] = 0]
        BY <1>2, <3>2, SwapsKnown
      <3> QED
        BY <1>8, <3>1, <3>2 DEF ReturnCreate
    <2> QED
      BY <1>1, <1>2, <1>3, <1>5, <1>8, <2>1, <2>3, <2>4
         DEF ReturnCreate, cacheVars
  <1>9. CASE ReturnMakeCurrent(t)
    <2>1. Done(t) /\ call[t].op = "makeCurrent"
      BY <1>9 DEF ReturnMakeCurrent, Back
    <2>2. call[t].c \in Ctx \cup {0} /\ call[t].s \in Surf \cup {0}
      BY <2>1 DEF ArgumentInv, Handle
    <2>3. <<call[t].c, call[t].s>> \in (Ctx \cup {0}) \X (Surf \cup {0})
      BY <2>2
    <2>4. Bound(call[t].c, call[t].s) \in Binding /\ None \in Binding
      BY <1>2, <2>2 DEF Bound, Binding, Objects, None
    <2>5. last' \in [Threads -> {<<>>} \cup (Ctx \cup {0}) \X (Surf \cup {0})]
      BY <1>3, <1>9, <2>3 DEF ReturnMakeCurrent
    <2>6. app' \in [Threads -> Binding]
      BY <1>2, <1>9, <2>4 DEF ReturnMakeCurrent
    <2>7. age_cache' \in CachedAge
      BY <1>2, <1>9, AgeReset DEF ReturnMakeCurrent
    <2> QED
      BY <1>1, <1>2, <1>5, <1>9, <2>1, <2>5, <2>6, <2>7 DEF ReturnMakeCurrent
  <1>10. ASSUME NEW o \in Kinds, ReturnPlain(t, o) PROVE TypeInv'
    BY <1>1, <1>2, <1>3, <1>5, <1>10 DEF ReturnPlain, cacheVars, appVars
  <1> QED
    BY <1>6, <1>7, <1>8, <1>9, <1>10 DEF Comes

(* The command the proxy runs, and the ring behind it.                     *)
Front == Head(ring)
LEMMA FrontFacts ==
  ASSUME TypeInv, ring # <<>>
  PROVE  /\ Front = ring[1] /\ Front \in Command /\ 1 \in DOMAIN ring
         /\ Front.t \in Threads /\ Front.op \in Kinds
         /\ Tail(ring) \in Seq(Command)
         /\ Len(ring) \in Nat /\ Len(ring) >= 1 /\ Len(Tail(ring)) = Len(ring) - 1
         /\ DOMAIN ring = 1 .. Len(ring) /\ DOMAIN Tail(ring) = 1 .. Len(ring) - 1
         /\ \A k \in DOMAIN Tail(ring) :
              k + 1 \in DOMAIN ring /\ Tail(ring)[k] = ring[k + 1]
  <1>1. ring \in Seq(Command)
    BY DEF TypeInv
  <1>2. Front = ring[1] /\ ring[1] \in Command
    BY <1>1, TailFacts DEF Front
  <1>3. Front.t \in Threads /\ Front.op \in Kinds
    BY <1>2 DEF Command
  <1> QED
    BY <1>1, <1>2, <1>3, TailFacts

(* What egl_bind_target_ctx() leaves current is a binding.                 *)
LEMMA FollowType ==
  ASSUME TypeInv, NEW m \in Command
  PROVE  Selected(m) \in Ctx \cup {0} /\ CurFor(m) \in Binding
  <1>1. m.ctx \in Ctx \cup {0}
    BY DEF Command, Handle
  <1>2. /\ g_current_ctx \in Ctx \cup {0} /\ cur \in Binding
        /\ egl_contexts \in [Ctx -> Objects]
        /\ g_ctx_bindings \in [Ctx -> [valid : BOOLEAN, draw : Objects]]
    BY DEF TypeInv, TypeOK
  <1>3. CASE Rebinds(m)
    <2>1. m.ctx \in Ctx
      BY <1>1, <1>3 DEF Rebinds
    <2>2. egl_contexts[m.ctx] \in Objects /\ g_ctx_bindings[m.ctx].draw \in Objects
      BY <1>2, <2>1
    <2> QED
      BY <1>3, <2>1, <2>2 DEF Selected, CurFor, Binding
  <1>4. CASE ~Rebinds(m)
    BY <1>2, <1>4 DEF Selected, CurFor
  <1> QED
    BY <1>3, <1>4

LEMMA TableDomain ==
  ASSUME TypeInv
  PROVE  /\ TableAlloc(egl_contexts) \in Ctx \cup {0}
         /\ TableAlloc(egl_surfaces) \in Surf \cup {0}
         /\ TableAlloc(egl_contexts) # 0 => egl_contexts[TableAlloc(egl_contexts)] = 0
         /\ TableAlloc(egl_surfaces) # 0 => egl_surfaces[TableAlloc(egl_surfaces)] = 0
         /\ \A i \in Ctx : i < TableAlloc(egl_contexts) => egl_contexts[i] # 0
         /\ TableAlloc(egl_contexts) = 0 => \A i \in Ctx : egl_contexts[i] # 0
  <1>1. DOMAIN egl_contexts = 1 .. MAX_CONTEXTS /\ DOMAIN egl_surfaces = 1 .. MAX_SURFACES
    <2>1. egl_contexts \in [Ctx -> Objects] /\ egl_surfaces \in [Surf -> Objects]
      BY DEF TypeInv, TypeOK
    <2> QED
      BY <2>1 DEF Ctx, Surf
  <1>2. MAX_CONTEXTS \in Nat /\ MAX_SURFACES \in Nat
    BY EglAssumption
  <1>3. /\ TableAlloc(egl_contexts) \in Ctx \cup {0}
        /\ TableAlloc(egl_contexts) # 0 => egl_contexts[TableAlloc(egl_contexts)] = 0
        /\ \A i \in Ctx : i < TableAlloc(egl_contexts) => egl_contexts[i] # 0
        /\ TableAlloc(egl_contexts) = 0 => \A i \in Ctx : egl_contexts[i] # 0
    <2>1. TableAlloc(egl_contexts) = 0 \/ TableAlloc(egl_contexts) # 0
      OBVIOUS
    <2> QED
      BY <1>1, <1>2, <2>1, AllocFact DEF Ctx
  <1>4. /\ TableAlloc(egl_surfaces) \in Surf \cup {0}
        /\ TableAlloc(egl_surfaces) # 0 => egl_surfaces[TableAlloc(egl_surfaces)] = 0
    BY <1>1, <1>2, AllocFact DEF Surf
  <1> QED
    BY <1>3, <1>4

LEMMA DispatchType ==
  ASSUME TypeInv, ArgumentInv, CallInv, SurfaceInv, LastInv, Dispatch
  PROVE  TypeInv'
  <1> DEFINE m == Head(ring)
  <1>1. /\ ring' = Tail(ring) /\ ring # <<>>
        /\ UNCHANGED <<g_stub_current_ctx, last, cacheVars, call, appVars, left>>
    BY DEF Dispatch
  <1>2. m \in Command /\ m = ring[1] /\ 1 \in DOMAIN ring
        /\ m.t \in Threads /\ m.op \in Kinds /\ m.c \in Handle
    BY <1>1, FrontFacts DEF Front, Command
  <1>3. ring' \in Seq(Command) /\ Len(ring') <= RingBound
    <2>1. Len(ring) <= RingBound
      BY DEF TypeInv, TypeOK
    <2> QED
      BY <1>1, <2>1, FrontFacts, EglAssumption
  <1>4. Carries(m) \/ m.op \in Posts
    BY <1>2 DEF CallInv, Kinds
  <1>5. ASSUME /\ answer' \in [Threads -> AnswerOf]
               /\ egl_contexts' \in [Ctx -> Objects] /\ egl_surfaces' \in [Surf -> Objects]
               /\ g_ctx_bindings' \in [Ctx -> [valid : BOOLEAN, draw : Objects]]
               /\ g_current_ctx' \in Ctx \cup {0}
               /\ cur' \in Binding /\ acted' \in Binding /\ made' \in Binding
               /\ size' \in [Windows -> Nat]
               /\ window' \in Seq(Windows) /\ Len(window') = made'.draw
               /\ swaps' \in Seq(Nat) /\ Len(swaps') = made'.draw
        PROVE  TypeInv'
    BY <1>1, <1>3, <1>5 DEF TypeInv, TypeOK, cacheVars, appVars
  <1>6. /\ answer \in [Threads -> AnswerOf]
        /\ egl_contexts \in [Ctx -> Objects] /\ egl_surfaces \in [Surf -> Objects]
        /\ g_ctx_bindings \in [Ctx -> [valid : BOOLEAN, draw : Objects]]
        /\ g_current_ctx \in Ctx \cup {0}
        /\ cur \in Binding /\ acted \in Binding /\ made \in Binding
        /\ size \in [Windows -> Nat]
        /\ window \in Seq(Windows) /\ Len(window) = made.draw
        /\ swaps \in Seq(Nat) /\ Len(swaps) = made.draw
    BY DEF TypeInv, TypeOK
  <1>7. Selected(m) \in Ctx \cup {0} /\ CurFor(m) \in Binding
    BY <1>2, FollowType
  <1>8. ASSUME NEW ok \in BOOLEAN, NEW of \in Source, NEW n \in Nat,
               Reply(m, Answer(ok, of, n))
        PROVE  answer' \in [Threads -> AnswerOf]
    <2>1. Answer(ok, of, n) \in AnswerOf
      BY DEF Answer, AnswerOf
    <2> QED
      BY <1>2, <1>6, <1>8, <2>1 DEF Reply
  <1>9. Nat \subseteq Source /\ Windows \subseteq Source /\ Ctx \subseteq Nat
        /\ Surf \subseteq Nat /\ 0 \in Nat /\ Objects = Nat
    BY DEF Source, Ctx, Surf, Objects
  <1> HIDE DEF m
  <1>10. ASSUME NEW granted \in BOOLEAN, RunCreateContext(m, granted) PROVE TypeInv'
    <2> DEFINE i == TableAlloc(egl_contexts)
    <2>1. i \in Ctx \cup {0} /\ made.ctx + 1 \in Nat /\ made.draw \in Nat
      BY <1>6, TableDomain DEF Binding, Objects
    <2>2. /\ g_current_ctx' \in Ctx \cup {0} /\ cur' \in Binding
          /\ UNCHANGED <<egl_surfaces, g_ctx_bindings, size, swaps, window, acted>>
      BY <1>7, <1>10 DEF RunCreateContext, FollowThread
    <2>3. CASE granted
      <3>1. /\ made' = [made EXCEPT !.ctx = made.ctx + 1]
            /\ Reply(m, Answer(i # 0, i, made.ctx + 1))
            /\ egl_contexts' = IF i = 0 THEN egl_contexts
                                        ELSE [egl_contexts EXCEPT ![i] = made.ctx + 1]
        BY <1>10, <2>3 DEF RunCreateContext
      <3>2. made' \in Binding /\ made'.draw = made.draw
        BY <1>6, <2>1, <3>1 DEF Binding, Objects
      <3>3. egl_contexts' \in [Ctx -> Objects]
        BY <1>6, <1>9, <2>1, <3>1
      <3>4. answer' \in [Threads -> AnswerOf]
        <4>1. i \in Source /\ (i # 0) \in BOOLEAN
          BY <1>9, <2>1
        <4> QED
          BY <1>8, <2>1, <3>1, <4>1
      <3> QED
        BY <1>5, <1>6, <2>2, <3>2, <3>3, <3>4
    <2>4. CASE ~granted
      <3>1. UNCHANGED <<made, egl_contexts>> /\ Reply(m, Answer(FALSE, 0, 0))
        BY <1>10, <2>4 DEF RunCreateContext
      <3>2. answer' \in [Threads -> AnswerOf]
        BY <1>8, <1>9, <3>1
      <3> QED
        BY <1>5, <1>6, <2>2, <3>1, <3>2
    <2> QED
      BY <2>3, <2>4
  <1>11. ASSUME NEW granted \in BOOLEAN, RunCreateSurface(m, granted) PROVE TypeInv'
    <2> DEFINE i == TableAlloc(egl_surfaces)
    <2>1. i \in Surf \cup {0} /\ made.draw + 1 \in Nat /\ made.draw \in Nat
      BY <1>6, TableDomain DEF Binding, Objects
    <2>2. /\ g_current_ctx' \in Ctx \cup {0} /\ cur' \in Binding
          /\ UNCHANGED <<egl_contexts, g_ctx_bindings, size, acted>>
      BY <1>7, <1>11 DEF RunCreateSurface, FollowThread
    <2>3. CASE granted
      <3>1. /\ made' = [made EXCEPT !.draw = made.draw + 1]
            /\ Reply(m, Answer(i # 0, i, made.draw + 1))
            /\ egl_surfaces' = IF i = 0 THEN egl_surfaces
                                        ELSE [egl_surfaces EXCEPT ![i] = made.draw + 1]
            /\ window' = Append(window, m.s) /\ swaps' = Append(swaps, 0)
        BY <1>11, <2>3 DEF RunCreateSurface
      <3>2. made' \in Binding /\ made'.draw = made.draw + 1
        BY <1>6, <2>1, <3>1 DEF Binding, Objects
      <3>3. egl_surfaces' \in [Surf -> Objects]
        BY <1>6, <1>9, <2>1, <3>1
      <3>4. answer' \in [Threads -> AnswerOf]
        <4>1. i \in Source /\ (i # 0) \in BOOLEAN
          BY <1>9, <2>1
        <4> QED
          BY <1>8, <2>1, <3>1, <4>1
      <3>5. m.s \in Windows
        <4>1. m.op = "createSurface"
          BY <1>11 DEF RunCreateSurface
        <4> QED
          BY <1>2, <1>4, <4>1 DEF Carries, ArgumentInv, Posts
      <3>6. /\ window' \in Seq(Windows) /\ Len(window') = made'.draw
            /\ swaps' \in Seq(Nat) /\ Len(swaps') = made'.draw
        BY <1>6, <3>1, <3>2, <3>5, AppendFacts
      <3> QED
        BY <1>5, <1>6, <2>2, <3>2, <3>3, <3>4, <3>6
    <2>4. CASE ~granted
      <3>1. UNCHANGED <<made, window, swaps, egl_surfaces>> /\ Reply(m, Answer(FALSE, 0, 0))
        BY <1>11, <2>4 DEF RunCreateSurface
      <3>2. answer' \in [Threads -> AnswerOf]
        BY <1>8, <1>9, <3>1
      <3> QED
        BY <1>5, <1>6, <2>2, <3>1, <3>2
    <2> QED
      BY <2>3, <2>4
  <1>12. ASSUME NEW granted \in BOOLEAN, RunMakeCurrent(m, granted) PROVE TypeInv'
    <2> DEFINE obj == [ctx |-> Real(egl_contexts, m.c), draw |-> Real(egl_surfaces, m.s)]
    <2>1. m.op = "makeCurrent" /\ m.c \in Ctx \cup {0} /\ m.s \in Surf \cup {0}
      <3>1. m.op = "makeCurrent"
        BY <1>12 DEF RunMakeCurrent
      <3> QED
        BY <1>2, <1>4, <3>1 DEF Carries, ArgumentInv, Posts, Handle
    <2>2. obj \in Binding
      BY <1>6, <2>1 DEF Real, Binding, Objects
    <2>3. answer' \in [Threads -> AnswerOf]
      BY <1>8, <1>9, <1>12 DEF RunMakeCurrent
    <2>4. CASE granted
      <3>1. /\ cur' = obj /\ g_current_ctx' = m.c
            /\ g_ctx_bindings' =
                 IF m.c = 0 THEN g_ctx_bindings
                            ELSE [g_ctx_bindings EXCEPT ![m.c] =
                                    [valid |-> TRUE, draw |-> obj.draw]]
        BY <1>12, <2>4 DEF RunMakeCurrent
      <3>2. [valid |-> TRUE, draw |-> obj.draw] \in [valid : BOOLEAN, draw : Objects]
        BY <2>2 DEF Binding
      <3>3. g_ctx_bindings' \in [Ctx -> [valid : BOOLEAN, draw : Objects]]
        BY <1>6, <2>1, <3>1, <3>2
      <3> QED
        BY <1>5, <1>6, <1>12, <2>1, <2>2, <2>3, <3>1, <3>3 DEF RunMakeCurrent
    <2>5. CASE ~granted
      BY <1>5, <1>6, <1>12, <2>3, <2>5 DEF RunMakeCurrent
    <2> QED
      BY <2>4, <2>5
  <1>13. CASE RunDestroyContext(m)
    <2>1. /\ g_current_ctx' \in Ctx \cup {0} /\ cur' \in Binding
          /\ UNCHANGED <<egl_surfaces, made, size, swaps, window, acted>>
      BY <1>7, <1>13 DEF RunDestroyContext, FollowThread
    <2>2. answer' \in [Threads -> AnswerOf]
      BY <1>8, <1>9, <1>13 DEF RunDestroyContext
    <2>3. egl_contexts' \in [Ctx -> Objects]
      BY <1>6, <1>9, <1>13 DEF RunDestroyContext
    <2>4. g_ctx_bindings' \in [Ctx -> [valid : BOOLEAN, draw : Objects]]
      BY <1>6, <1>13 DEF RunDestroyContext
    <2> QED
      BY <1>5, <1>6, <2>1, <2>2, <2>3, <2>4
  <1>14. CASE RunDestroySurface(m)
    <2>1. /\ g_current_ctx' \in Ctx \cup {0} /\ cur' \in Binding
          /\ UNCHANGED <<egl_contexts, made, size, swaps, window, acted>>
      BY <1>7, <1>14 DEF RunDestroySurface, FollowThread
    <2>2. answer' \in [Threads -> AnswerOf]
      BY <1>8, <1>9, <1>14 DEF RunDestroySurface
    <2>3. egl_surfaces' \in [Surf -> Objects]
      BY <1>6, <1>9, <1>14 DEF RunDestroySurface
    <2>4. g_ctx_bindings' \in [Ctx -> [valid : BOOLEAN, draw : Objects]]
      <3>1. \A i \in Ctx : [g_ctx_bindings[i] EXCEPT !.draw = 0]
                              \in [valid : BOOLEAN, draw : Objects]
        BY <1>6, <1>9
      <3> QED
        BY <1>6, <1>14, <3>1 DEF RunDestroySurface, Unbound
    <2> QED
      BY <1>5, <1>6, <2>1, <2>2, <2>3, <2>4
  <1>15. CASE RunReleaseThread(m)
    <2>1. answer' \in [Threads -> AnswerOf]
      BY <1>8, <1>9, <1>15 DEF RunReleaseThread
    <2>2. None \in Binding
      BY DEF None, Binding, Objects
    <2> QED
      BY <1>5, <1>6, <1>15, <2>1, <2>2 DEF RunReleaseThread
  <1>16. CASE RunAsk(m)
    <2> DEFINE obj == egl_surfaces[m.s]
    <2>1. /\ g_current_ctx' \in Ctx \cup {0} /\ cur' \in Binding
          /\ UNCHANGED <<egl_contexts, egl_surfaces, g_ctx_bindings, made, size, swaps,
                         window, acted>>
      BY <1>7, <1>16 DEF RunAsk, FollowThread
    <2>2. CASE m.op = "getCurrent"
      <3>1. Reply(m, Answer(TRUE, IndexOf(CurFor(m).ctx), 0))
        BY <1>16, <2>2 DEF RunAsk
      <3>2. \A x : IndexOf(x) \in Ctx \cup {0}
        <4> TAKE x
        <4> DEFINE Is == {i \in Ctx : egl_contexts[i] = x}
        <4>1. Is \in SUBSET Nat
          BY <1>9
        <4>2. Is # {} => Lowest(Is) \in Ctx
          BY <4>1, LowestFact
        <4> QED
          BY <4>2 DEF IndexOf
      <3>3. answer' \in [Threads -> AnswerOf]
        BY <1>8, <1>9, <3>1, <3>2
      <3> QED
        BY <1>5, <1>6, <2>1, <3>3
    <2>3. CASE m.op \in Queries
      <3>1. Carries(m)
        BY <1>4, <2>3 DEF Queries, Posts
      <3>7. call[m.t].op \in Queries /\ call[m.t].s = m.s
        BY <2>3, <3>1 DEF Carries
      <3>2. m.s \in Surf /\ surfOf[m.s] # 0
        <4>1. m.s \in Surf /\ Exists(0, m.s)
          BY <1>2, <3>7 DEF ArgumentInv, LastInv, LastOf
        <4> QED
          BY <1>9, <4>1 DEF Exists, Surf
      <3>3. obj = surfOf[m.s]
        BY <1>6, <3>2 DEF SurfaceInv, TableInv
      <3>4. window[obj] \in Windows /\ swaps[obj] \in Nat /\ obj \in Nat
        <4>1. window[surfOf[m.s]] \in Windows /\ swaps[surfOf[m.s]] \in Nat
          BY <2>3, <3>2, KnownType
        <4>2. surfOf[m.s] \in Nat
          BY <3>2 DEF TypeInv, TypeOK, Objects
        <4> QED
          BY <3>3, <4>1, <4>2
      <3>5. CASE m.op = "querySize"
        <4>1. Reply(m, Answer(TRUE, window[obj], size[window[obj]]))
          BY <1>16, <3>5 DEF RunAsk
        <4>2. answer' \in [Threads -> AnswerOf]
          BY <1>6, <1>8, <1>9, <3>4, <4>1
        <4> QED
          BY <1>5, <1>6, <2>1, <4>2
      <3>6. CASE m.op = "queryAge"
        <4>1. Reply(m, Answer(TRUE, obj, swaps[obj]))
          BY <1>16, <3>6 DEF RunAsk
        <4>2. answer' \in [Threads -> AnswerOf]
          BY <1>6, <1>8, <1>9, <3>4, <4>1
        <4> QED
          BY <1>5, <1>6, <2>1, <4>2
      <3> QED
        BY <2>3, <3>5, <3>6 DEF Queries
    <2> QED
      BY <1>16, <2>2, <2>3 DEF RunAsk, Queries
  <1>17. CASE RunPost(m)
    <2>1. /\ g_current_ctx' \in Ctx \cup {0} /\ cur' \in Binding
          /\ acted' \in Binding
          /\ UNCHANGED <<answer, egl_contexts, egl_surfaces, g_ctx_bindings, made, window>>
      BY <1>6, <1>7, <1>17 DEF RunPost, FollowThread
    <2>2. swaps' \in Seq(Nat) /\ Len(swaps') = Len(swaps)
      <3>1. CASE m.op = "swap"
        <4> DEFINE i == egl_surfaces[m.s]
        <4>1. swaps' = [swaps EXCEPT ![i] = swaps[i] + 1]
          BY <1>17, <3>1 DEF RunPost
        <4>2. i \in DOMAIN swaps => swaps[i] + 1 \in Nat
          BY <1>6
        <4>3. CASE i \in DOMAIN swaps
          BY <1>6, <4>1, <4>2, <4>3
        <4>4. CASE i \notin DOMAIN swaps
          <5>1. swaps \in Seq(Nat)
            BY <1>6
          <5>2. [swaps EXCEPT ![i] = swaps[i] + 1] = swaps
            BY <4>4, <5>1
          <5> QED
            BY <1>6, <4>1, <5>2
        <4> QED
          BY <4>3, <4>4
      <3>2. CASE m.op # "swap"
        BY <1>6, <1>17, <3>2 DEF RunPost
      <3> QED
        BY <3>1, <3>2
    <2>3. size' \in [Windows -> Nat]
      <3>1. CASE m.op = "resize"
        <4>1. m.s \in Windows
          BY <1>2, <3>1 DEF ArgumentInv
        <4>2. size' = [size EXCEPT ![m.s] = size[m.s] + 1]
          BY <1>17, <3>1 DEF RunPost
        <4> QED
          BY <1>6, <4>1, <4>2
      <3>2. CASE m.op # "resize"
        BY <1>6, <1>17, <3>2 DEF RunPost
      <3> QED
        BY <3>1, <3>2
    <2> QED
      BY <1>5, <1>6, <2>1, <2>2, <2>3
  <1> QED
    BY <1>10, <1>11, <1>12, <1>13, <1>14, <1>15, <1>16, <1>17 DEF Dispatch, m

-----------------------------------------------------------------------------
(* One blocking call at a time *)

Sent(t, o, c, s) == [op |-> o, t |-> t, ctx |-> g_stub_current_ctx[t],
                     c |-> c, s |-> s, want |-> app[t]]

(* The ring after a send.  g_lock is free, so no blocking call is in it.   *)
LEMMA PostFacts ==
  ASSUME TypeInv, NEW t \in Threads, NEW o \in Kinds, NEW c \in Handle,
         NEW s \in Argument, Post(t, o, c, s)
  PROVE  /\ Len(ring) \in Nat /\ Len(ring') = Len(ring) + 1
         /\ DOMAIN ring = 1 .. Len(ring) /\ DOMAIN ring' = 1 .. Len(ring) + 1
         /\ ring'[Len(ring) + 1] = Sent(t, o, c, s)
         /\ \A k \in DOMAIN ring : ring'[k] = ring[k]
         /\ \A k \in DOMAIN ring : ring[k] \in Command
         /\ ring' # <<>>
  <1>1. Sent(t, o, c, s) \in Command
    BY DEF TypeInv, TypeOK, Command, Handle, Sent
  <1>2. ring' = Append(ring, Sent(t, o, c, s))
    BY DEF Post, Sent
  <1>3. ring \in Seq(Command)
    BY DEF TypeInv
  <1> QED
    BY <1>1, <1>2, <1>3, AppendFacts

LEMMA FreeFacts ==
  ASSUME TypeInv, CallInv, ~Locked
  PROVE  /\ \A k \in DOMAIN ring : ring[k].op \notin Calls
         /\ \A u \in Threads : ~Waits(u)
  <1>1. \A u \in Threads : ~Waits(u)
    BY DEF Locked, Waits
  <1>2. ASSUME NEW k \in DOMAIN ring, ring[k].op \in Calls PROVE FALSE
    <2>1. Carries(ring[k]) /\ ring[k] \in Command
      BY <1>2 DEF CallInv, TypeInv
    <2> QED
      BY <1>1, <1>2, <2>1 DEF Carries, Waits, Answered, Command
  <1> QED
    BY <1>1, <1>2

LEMMA IdleFacts ==
  ASSUME CallInv, NEW t \in Threads, call[t] = Idle
  PROVE  answer[t] = NoAnswer /\ call[t].op = "idle"
  BY DEF CallInv, Idle, Answered, Calls

(* A call in its proper form.                                              *)
Formed(o, c, s) ==
  /\ c \in Handle /\ s \in Argument
  /\ o = "destroyContext" => c \in Ctx
  /\ o \in {"destroySurface", "swap"} \cup Queries => s \in Surf
  /\ o \in {"createSurface", "resize"} => s \in Windows
  /\ o = "makeCurrent" => s \in Surf \cup {0} /\ (c = 0 => s = 0)

(* A thread begins a call, and sends it.                                   *)
LEMMA BlockingCall ==
  ASSUME TypeInv, CallInv, ArgumentInv, NEW t \in Threads,
         NEW o \in Calls \cup {"resize"}, NEW c, NEW s, Formed(o, c, s),
         call[t] = Idle, Post(t, o, c, s), Enter(t, o, c, s), UNCHANGED answer
  PROVE  CallInv' /\ ArgumentInv'
  <1>1. /\ o \in Kinds /\ c \in Handle /\ s \in Argument
        /\ "resize" \notin Calls /\ "idle" \notin Calls
    BY DEF Formed, Kinds, Calls, Posts
  <1>2. answer[t] = NoAnswer /\ call[t].op = "idle"
    BY IdleFacts
  <1>3. /\ \A k \in DOMAIN ring : ring[k].op \notin Calls
        /\ \A u \in Threads : ~Waits(u)
    BY FreeFacts DEF Post
  <1>4. /\ Len(ring) \in Nat /\ Len(ring') = Len(ring) + 1
        /\ DOMAIN ring = 1 .. Len(ring) /\ DOMAIN ring' = 1 .. Len(ring) + 1
        /\ ring'[Len(ring) + 1] = Sent(t, o, c, s)
        /\ \A k \in DOMAIN ring : ring'[k] = ring[k]
        /\ ring' # <<>>
    BY <1>1, PostFacts
  <1>5. /\ Sent(t, o, c, s).op = o /\ Sent(t, o, c, s).t = t
        /\ Sent(t, o, c, s).c = c /\ Sent(t, o, c, s).s = s
    BY DEF Sent
  <1>6. /\ call'[t].op = o /\ call'[t].c = c /\ call'[t].s = s
        /\ \A u \in Threads : u # t => call'[u] = call[u]
        /\ answer' = answer
    BY DEF Enter, TypeInv
  <1>7. \A k \in DOMAIN ring' :
          \/ k \in DOMAIN ring /\ ring'[k] = ring[k] /\ k < Len(ring')
          \/ k = Len(ring') /\ ring'[k] = Sent(t, o, c, s)
    BY <1>4
  <1>8. CallInv'
    <2>1. \A k \in DOMAIN ring' :
            ring'[k].op \in Calls => k = Len(ring') /\ Carries(ring[k])'
      BY <1>2, <1>3, <1>5, <1>6, <1>7 DEF Carries, Answered
    <2>2. \A u \in Threads :
            Waits(u)' => /\ ring' # <<>> /\ ring'[Len(ring')].t = u
                         /\ ring'[Len(ring')].op = call'[u].op
      BY <1>3, <1>4, <1>5, <1>6 DEF Waits
    <2>3. \A u \in Threads : Answered(u)' => call'[u].op \in Calls
      BY <1>2, <1>6 DEF CallInv, Answered
    <2> QED
      BY <2>1, <2>2, <2>3 DEF CallInv
  <1>9. ArgumentInv'
    <2>1. \A u \in Threads :
            LET d == call'[u].c  r == call'[u].s IN
            /\ call'[u].op = "destroyContext" => d \in Ctx
            /\ call'[u].op = "destroySurface" => r \in Surf
            /\ call'[u].op \in {"createSurface", "resize"} => r \in Windows
            /\ call'[u].op \in Queries => r \in Surf
            /\ call'[u].op = "makeCurrent" =>
                 d \in Handle /\ r \in Surf \cup {0} /\ (d = 0 => r = 0)
      BY <1>6 DEF ArgumentInv, Formed
    <2>2. \A k \in DOMAIN ring' :
            /\ ring'[k].op = "swap" => ring'[k].s \in Surf
            /\ ring'[k].op = "resize" => ring'[k].s \in Windows
      <3>1. "swap" \notin Calls \cup {"resize"}
        BY DEF Calls
      <3> QED
        BY <1>5, <1>7, <3>1 DEF ArgumentInv, Formed
    <2> QED
      BY <2>1, <2>2 DEF ArgumentInv
  <1> QED
    BY <1>8, <1>9

(* A thread sends a command without an answer.                             *)
LEMMA PostedCommand ==
  ASSUME TypeInv, CallInv, ArgumentInv, NEW t \in Threads,
         NEW o \in Posts, NEW c, NEW s, Formed(o, c, s),
         Post(t, o, c, s), UNCHANGED <<call, answer>>
  PROVE  CallInv' /\ ArgumentInv'
  <1>1. o \in Kinds /\ c \in Handle /\ s \in Argument /\ o \notin Calls
    BY DEF Formed, Kinds, Calls, Posts
  <1>3. /\ \A k \in DOMAIN ring : ring[k].op \notin Calls
        /\ \A u \in Threads : ~Waits(u)
    BY FreeFacts DEF Post
  <1>4. /\ Len(ring) \in Nat /\ Len(ring') = Len(ring) + 1
        /\ DOMAIN ring = 1 .. Len(ring) /\ DOMAIN ring' = 1 .. Len(ring) + 1
        /\ ring'[Len(ring) + 1] = Sent(t, o, c, s)
        /\ \A k \in DOMAIN ring : ring'[k] = ring[k]
    BY <1>1, PostFacts
  <1>5. Sent(t, o, c, s).op = o /\ Sent(t, o, c, s).s = s
    BY DEF Sent
  <1>7. \A k \in DOMAIN ring' :
          \/ k \in DOMAIN ring /\ ring'[k] = ring[k]
          \/ ring'[k] = Sent(t, o, c, s)
    BY <1>4
  <1>8. \A k \in DOMAIN ring' : ring'[k].op \notin Calls
    BY <1>1, <1>3, <1>5, <1>7
  <1>9. \A u \in Threads : ~Waits(u)'
    BY <1>3 DEF Waits
  <1>10. CallInv'
    BY <1>8, <1>9 DEF CallInv, Answered
  <1>11. \A k \in DOMAIN ring' :
           /\ ring'[k].op = "swap" => ring'[k].s \in Surf
           /\ ring'[k].op = "resize" => ring'[k].s \in Windows
    BY <1>5, <1>7 DEF ArgumentInv, Formed
  <1> QED
    BY <1>10, <1>11 DEF ArgumentInv

(* The steps of a thread that leave the ring alone.                        *)
LEMMA QuietStep ==
  ASSUME TypeInv, CallInv, ArgumentInv, NEW t \in Threads, UNCHANGED ring,
         ~Waits(t),
         \/ UNCHANGED <<call, answer>>
         \/ /\ call' = [call EXCEPT ![t] = Idle]
            /\ answer' = [answer EXCEPT ![t] = NoAnswer]
         \/ \E o \in Queries, s \in Surf :
              /\ Enter(t, o, 0, s)
              /\ answer'[t] # NoAnswer
              /\ \A u \in Threads : u # t => answer'[u] = answer[u]
  PROVE  CallInv' /\ ArgumentInv'
  <1>1. CASE UNCHANGED <<call, answer>>
    BY <1>1 DEF CallInv, ArgumentInv, Carries, Waits, Answered
  <1>2. ASSUME /\ \A u \in Threads : u # t => call'[u] = call[u] /\ answer'[u] = answer[u]
               /\ ~Waits(t)' /\ (Answered(t)' => call'[t].op \in Calls)
               /\ \/ call'[t].op = "idle"
                  \/ call'[t].op \in Queries /\ call'[t].s \in Surf
        PROVE  CallInv' /\ ArgumentInv'
    <2>1. \A k \in DOMAIN ring : ring[k] \in Command
      BY DEF TypeInv
    <2>2. ASSUME NEW k \in DOMAIN ring, ring[k].op \in Calls
          PROVE  /\ k = Len(ring) /\ Carries(ring[k])
                 /\ ring[k].t \in Threads /\ ring[k].t # t
      <3>1. k = Len(ring) /\ Carries(ring[k]) /\ ring[k].t \in Threads
        BY <2>1, <2>2 DEF CallInv, Command
      <3> QED
        BY <2>2, <3>1 DEF Carries, Waits, Answered
    <2>3. \A k \in DOMAIN ring' : ring'[k].op \in Calls =>
            k = Len(ring') /\ Carries(ring[k])'
      <3> SUFFICES ASSUME NEW k \in DOMAIN ring, ring[k].op \in Calls
                   PROVE  k = Len(ring) /\ Carries(ring[k])'
        OBVIOUS
      <3>1. /\ k = Len(ring) /\ Carries(ring[k])
            /\ call'[ring[k].t] = call[ring[k].t] /\ answer'[ring[k].t] = answer[ring[k].t]
        BY <1>2, <2>2
      <3> QED
        BY <3>1 DEF Carries, Answered
    <2>4. \A u \in Threads :
            Waits(u)' => /\ ring' # <<>> /\ ring'[Len(ring')].t = u
                         /\ ring'[Len(ring')].op = call'[u].op
      BY <1>2 DEF CallInv, Waits
    <2>5. \A u \in Threads : Answered(u)' => call'[u].op \in Calls
      BY <1>2 DEF CallInv, Answered
    <2>6. ArgumentInv'
      <3>1. \A u \in Threads :
              LET d == call'[u].c  r == call'[u].s IN
              /\ call'[u].op = "destroyContext" => d \in Ctx
              /\ call'[u].op = "destroySurface" => r \in Surf
              /\ call'[u].op \in {"createSurface", "resize"} => r \in Windows
              /\ call'[u].op \in Queries => r \in Surf
              /\ call'[u].op = "makeCurrent" =>
                   d \in Handle /\ r \in Surf \cup {0} /\ (d = 0 => r = 0)
        BY <1>2 DEF ArgumentInv, Queries
      <3> QED
        BY <3>1 DEF ArgumentInv
    <2> QED
      BY <2>3, <2>4, <2>5, <2>6 DEF CallInv
  <1>3. CASE /\ call' = [call EXCEPT ![t] = Idle]
             /\ answer' = [answer EXCEPT ![t] = NoAnswer]
    <2>1. /\ call'[t] = Idle /\ answer'[t] = NoAnswer
          /\ \A u \in Threads : u # t => call'[u] = call[u] /\ answer'[u] = answer[u]
      BY <1>3 DEF TypeInv
    <2>2. Idle.op = "idle" /\ "idle" \notin Calls
      BY DEF Idle, Calls
    <2>3. call'[t].op \notin Calls /\ call'[t].op = "idle" /\ ~Answered(t)'
      BY <2>1, <2>2 DEF Answered
    <2>4. ~Waits(t)'
      BY <2>3 DEF Waits
    <2> QED
      BY <1>2, <2>1, <2>3, <2>4
  <1>4. ASSUME NEW o \in Queries, NEW s \in Surf, Enter(t, o, 0, s),
               answer'[t] # NoAnswer,
               \A u \in Threads : u # t => answer'[u] = answer[u]
        PROVE  CallInv' /\ ArgumentInv'
    <2>1. /\ call'[t].op = o /\ call'[t].s = s
          /\ \A u \in Threads : u # t => call'[u] = call[u]
      BY <1>4 DEF TypeInv, Enter
    <2>2. o \in Calls
      BY KindFacts
    <2> QED
      BY <1>2, <1>4, <2>1, <2>2 DEF Waits, Answered
  <1> QED
    BY <1>1, <1>3, <1>4

(* What every handler does: it answers its caller, or nobody.              *)
LEMMA DispatchFacts ==
  ASSUME Dispatch
  PROVE  /\ ring # <<>> /\ ring' = Tail(ring) /\ UNCHANGED call
         /\ \/ Front.op \in Posts /\ RunPost(Front) /\ UNCHANGED answer
            \/ /\ Front.op \in Calls
               /\ \E a : Reply(Front, a) /\ a # NoAnswer
  <1> USE DEF Front
  <1>1. \A ok, of, n : Answer(ok, of, n) # NoAnswer
    BY DEF Answer, NoAnswer
  <1>2. ASSUME NEW granted \in BOOLEAN,
               \/ RunCreateContext(Front, granted)
               \/ RunCreateSurface(Front, granted)
               \/ RunMakeCurrent(Front, granted)
        PROVE  Front.op \in Calls /\ \E a : Reply(Front, a) /\ a # NoAnswer
    BY <1>1, <1>2 DEF RunCreateContext, RunCreateSurface, RunMakeCurrent, Calls
  <1>3. ASSUME \/ RunDestroyContext(Front) \/ RunDestroySurface(Front)
               \/ RunReleaseThread(Front)
        PROVE  Front.op \in Calls /\ \E a : Reply(Front, a) /\ a # NoAnswer
    BY <1>1, <1>3 DEF RunDestroyContext, RunDestroySurface, RunReleaseThread, Calls
  <1>4. ASSUME RunAsk(Front)
        PROVE  Front.op \in Calls /\ \E a : Reply(Front, a) /\ a # NoAnswer
    <2>1. \E ok, of, n : Reply(Front, Answer(ok, of, n))
      BY <1>4 DEF RunAsk
    <2> QED
      BY <1>1, <1>4, <2>1 DEF RunAsk, Calls
  <1>5. ASSUME RunPost(Front)
        PROVE  Front.op \in Posts /\ UNCHANGED answer
    BY <1>5 DEF RunPost
  <1> QED
    BY <1>2, <1>3, <1>4, <1>5 DEF Dispatch

LEMMA DispatchCalls ==
  ASSUME TypeInv, CallInv, ArgumentInv, Dispatch
  PROVE  CallInv' /\ ArgumentInv'
  <1>1. /\ ring # <<>> /\ ring' = Tail(ring) /\ call' = call
    BY DispatchFacts
  <1>2. /\ Front = ring[1] /\ Front \in Command /\ 1 \in DOMAIN ring
        /\ Front.t \in Threads
        /\ Len(ring) \in Nat /\ Len(ring) >= 1 /\ Len(ring') = Len(ring) - 1
        /\ DOMAIN ring = 1 .. Len(ring) /\ DOMAIN ring' = 1 .. Len(ring) - 1
        /\ \A k \in DOMAIN ring' : k + 1 \in DOMAIN ring /\ ring'[k] = ring[k + 1]
    BY <1>1, FrontFacts
  <1>3. ArgumentInv'
    BY <1>1, <1>2 DEF ArgumentInv
  <1>4. CASE Front.op \in Posts /\ UNCHANGED answer
    <2>1. Front.op \notin Calls
      BY <1>4 DEF Posts, Calls
    <2>2. \A k \in DOMAIN ring' :
            ring'[k].op \in Calls => k = Len(ring') /\ Carries(ring[k])'
      <3> SUFFICES ASSUME NEW k \in DOMAIN ring', ring'[k].op \in Calls
                   PROVE  k = Len(ring') /\ Carries(ring[k])'
        OBVIOUS
      <3>1. k + 1 = Len(ring) /\ Carries(ring[k + 1])
        BY <1>2 DEF CallInv
      <3>2. ring'[k] = ring[k + 1]
        BY <1>2
      <3>3. Carries(ring[k])'
        BY <1>1, <1>4, <3>1, <3>2 DEF Carries, Answered
      <3> QED
        BY <1>2, <3>1, <3>3
    <2>3. ASSUME NEW u \in Threads, Waits(u)
          PROVE  /\ ring' # <<>> /\ ring'[Len(ring')].t = u
                 /\ ring'[Len(ring')].op = call'[u].op
      <3>1. ring[Len(ring)].t = u /\ ring[Len(ring)].op = call[u].op
        BY <2>3 DEF CallInv
      <3>2. Len(ring) # 1
        BY <1>2, <2>1, <2>3, <3>1 DEF Waits
      <3>3. Len(ring') \in DOMAIN ring' /\ ring'[Len(ring')] = ring[Len(ring)]
        BY <1>2, <3>2
      <3>4. ring' # <<>>
        BY <3>3
      <3> QED
        BY <1>1, <3>1, <3>3, <3>4
    <2>4. \A u \in Threads : Waits(u)' <=> Waits(u)
      BY <1>1, <1>4 DEF Waits
    <2>5. \A u \in Threads : Answered(u)' => call'[u].op \in Calls
      BY <1>1, <1>4 DEF CallInv, Answered
    <2> QED
      BY <1>3, <2>2, <2>3, <2>4, <2>5 DEF CallInv
  <1>5. ASSUME NEW a, Front.op \in Calls, Reply(Front, a), a # NoAnswer
        PROVE  CallInv'
    <2>1. Len(ring) = 1 /\ Carries(Front)
      BY <1>2, <1>5 DEF CallInv
    <2>2. DOMAIN ring' = {}
      BY <1>2, <2>1
    <2>3. /\ answer'[Front.t] = a
          /\ \A u \in Threads : u # Front.t => answer'[u] = answer[u]
      BY <1>2, <1>5 DEF Reply, TypeInv
    <2>4. \A u \in Threads : Waits(u) => u = Front.t
      BY <1>2, <2>1 DEF CallInv
    <2>5. \A u \in Threads : ~Waits(u)'
      BY <1>1, <1>5, <2>3, <2>4 DEF Waits
    <2>6. \A u \in Threads : Answered(u)' => call'[u].op \in Calls
      BY <1>1, <1>5, <2>1, <2>3 DEF CallInv, Answered, Carries
    <2> QED
      BY <2>2, <2>5, <2>6 DEF CallInv
  <1> QED
    BY <1>3, <1>4, <1>5, DispatchFacts

(* Every step keeps one blocking call at a time.                           *)
LEMMA CallsStep ==
  ASSUME TypeInv, CallInv, ArgumentInv, [Next]_vars
  PROVE  CallInv' /\ ArgumentInv'
  <1>0. /\ \A i \in Ctx : i \in Handle /\ i # 0
        /\ \A i \in Surf : i \in Argument /\ i # 0
        /\ 0 \in Handle /\ 0 \in Argument /\ Windows \subseteq Argument
    BY DEF Handle, Argument, Ctx, Surf
  <1>1. ASSUME NEW t \in Threads, Call(t) PROVE CallInv' /\ ArgumentInv'
    <2>1. ASSUME NEW o \in Plain, PlainCall(t, o) PROVE CallInv' /\ ArgumentInv'
      <3>1. o \in Calls \cup {"resize"} /\ Formed(o, 0, 0)
        BY <1>0 DEF Formed, Plain, Calls, Queries
      <3> QED
        BY <2>1, <3>1, BlockingCall DEF PlainCall, Starts
    <2>2. ASSUME NEW c \in Ctx, DestroyContext(t, c) PROVE CallInv' /\ ArgumentInv'
      <3>1. "destroyContext" \in Calls \cup {"resize"} /\ Formed("destroyContext", c, 0)
        BY <1>0 DEF Formed, Calls, Queries
      <3> QED
        BY <2>2, <3>1, BlockingCall DEF DestroyContext, Starts
    <2>3. ASSUME NEW w \in Windows, CreateWindowSurface(t, w)
          PROVE  CallInv' /\ ArgumentInv'
      <3>1. "createSurface" \in Calls \cup {"resize"} /\ Formed("createSurface", 0, w)
        BY <1>0 DEF Formed, Calls, Queries
      <3> QED
        BY <2>3, <3>1, BlockingCall DEF CreateWindowSurface, Starts
    <2>4. ASSUME NEW w \in Windows, Resize(t, w) PROVE CallInv' /\ ArgumentInv'
      <3>1. Formed("resize", 0, w)
        BY <1>0 DEF Formed, Queries
      <3> QED
        BY <2>4, <3>1, BlockingCall DEF Resize, Starts
    <2>5. ASSUME NEW s \in Surf, DestroySurface(t, s) PROVE CallInv' /\ ArgumentInv'
      <3>1. "destroySurface" \in Calls \cup {"resize"} /\ Formed("destroySurface", 0, s)
        BY <1>0 DEF Formed, Calls, Queries
      <3> QED
        BY <2>5, <3>1, BlockingCall DEF DestroySurface, Starts
    <2>6. ASSUME NEW s \in Surf, SwapBuffers(t, s) PROVE CallInv' /\ ArgumentInv'
      <3>1. "swap" \in Posts /\ Formed("swap", 0, s)
        BY <1>0 DEF Formed, Posts, Queries
      <3> QED
        BY <2>6, <3>1, PostedCommand DEF SwapBuffers
    <2>7. ASSUME NEW s \in Surf, NEW o \in Queries, QueryHit(t, o, s)
          PROVE  CallInv' /\ ArgumentInv'
      <3>1. ~Waits(t)
        BY <2>7, IdleFacts DEF QueryHit, Starts, Waits, Calls
      <3>2. /\ answer'[t].from = "cache"
            /\ \A u \in Threads : u # t => answer'[u] = answer[u]
        BY <2>7 DEF QueryHit, TypeInv
      <3>3. answer'[t] # NoAnswer
        BY <3>2 DEF NoAnswer
      <3> QED
        BY <2>7, <3>1, <3>2, <3>3, QuietStep DEF QueryHit
    <2>8. ASSUME NEW s \in Surf, NEW o \in Queries, QueryMiss(t, o, s)
          PROVE  CallInv' /\ ArgumentInv'
      <3>1. o \in Calls \cup {"resize"} /\ Formed(o, 0, s)
        BY <1>0 DEF Formed, Calls, Queries
      <3> QED
        BY <2>8, <3>1, BlockingCall DEF QueryMiss, Starts
    <2>9. ASSUME NEW c \in Ctx \cup {0}, NEW s \in Surf \cup {0},
                 MakeCurrentAgain(t, c, s)
          PROVE  CallInv' /\ ArgumentInv'
      <3>1. ~Waits(t)
        BY <2>9, IdleFacts DEF MakeCurrentAgain, Starts, Waits, Calls
      <3> QED
        BY <2>9, <3>1, QuietStep DEF MakeCurrentAgain
    <2>10. ASSUME NEW c \in Ctx \cup {0}, NEW s \in Surf \cup {0},
                  MakeCurrent(t, c, s)
           PROVE  CallInv' /\ ArgumentInv'
      <3>1. Sensible(t, "makeCurrent", c, s)
        BY <2>10 DEF MakeCurrent, Starts
      <3>2. c = 0 => s = 0
        BY <3>1, Meant
      <3>3. "makeCurrent" \in Calls \cup {"resize"} /\ Formed("makeCurrent", c, s)
        BY <1>0, <3>2 DEF Formed, Calls, Queries
      <3> QED
        BY <2>10, <3>3, BlockingCall DEF MakeCurrent, Starts
    <2>11. CASE GLCommand(t)
      <3>1. "gl" \in Posts /\ Formed("gl", 0, 0)
        BY <1>0 DEF Formed, Posts, Queries
      <3> QED
        BY <2>11, <3>1, PostedCommand DEF GLCommand
    <2> QED
      BY <1>1, <2>1, <2>2, <2>3, <2>4, <2>5, <2>6, <2>7, <2>8, <2>9, <2>10, <2>11
         DEF Call
  <1>2. ASSUME NEW t \in Threads, Comes(t) PROVE CallInv' /\ ArgumentInv'
    <2>1. ~Waits(t) /\ UNCHANGED ring
      <3>1. CASE Resized(t)
        BY <3>1 DEF Resized, Waits, Calls
      <3>2. CASE ~Resized(t)
        BY <1>2, <3>2 DEF Comes, ReturnQuery, ReturnCreate, ReturnPlain,
           ReturnMakeCurrent, Back, Done, Waits
      <3> QED
        BY <3>1, <3>2
    <2>2. /\ call' = [call EXCEPT ![t] = Idle]
          /\ answer' = [answer EXCEPT ![t] = NoAnswer]
      <3>1. CASE Resized(t)
        <4>1. answer[t] = NoAnswer
          BY <3>1 DEF Resized, CallInv, Answered, Calls
        <4> QED
          BY <3>1, <4>1 DEF Resized, TypeInv
      <3>2. CASE ~Resized(t)
        BY <1>2, <3>2 DEF Comes, ReturnQuery, ReturnCreate, ReturnPlain,
           ReturnMakeCurrent, Done
      <3> QED
        BY <3>1, <3>2
    <2> QED
      BY <2>1, <2>2, QuietStep
  <1>3. CASE UNCHANGED vars
    BY <1>3 DEF vars, CallInv, ArgumentInv, Carries, Waits, Answered
  <1> QED
    BY <1>1, <1>2, <1>3, DispatchCalls DEF Next

-----------------------------------------------------------------------------
(* Handles stand for one object *)

Same(u) == call'[u] = call[u] /\ answer'[u] = answer[u]

(* Threads that do not come to hold an entry, or to free one, do not       *)
(* matter.                                                                 *)
LEMMA ContextStable ==
  ASSUME TypeInv, TypeInv', ContextInv, UNCHANGED <<egl_contexts, ctxOf>>,
         made'.ctx >= made.ctx,
         \A u \in Threads : \/ Same(u)
                            \/ /\ ~Given(u, "createContext")'
                               /\ ~Frees(u, "destroyContext")'
  PROVE  ContextInv'
  <1>1. \A u \in Threads : Given(u, "createContext")' =>
          Given(u, "createContext") /\ answer'[u] = answer[u]
    BY DEF Same, Given
  <1>2. \A u \in Threads : Frees(u, "destroyContext")' =>
          Frees(u, "destroyContext") /\ call'[u].c = call[u].c
    BY DEF Same, Frees, Answered
  <1>3. /\ egl_contexts \in [Ctx -> Nat] /\ made.ctx \in Nat /\ made'.ctx \in Nat
        /\ egl_contexts' = egl_contexts /\ ctxOf' = ctxOf
    BY DEF TypeInv, TypeOK, Objects, Binding
  <1>4. \A i \in Ctx : egl_contexts'[i] <= made'.ctx
    <2> TAKE i \in Ctx
    <2>1. egl_contexts[i] <= made.ctx /\ egl_contexts[i] \in Nat
      BY <1>3 DEF ContextInv, TableInv
    <2> QED
      BY <1>3, <2>1
  <1>5. \A u \in Threads : Given(u, "createContext")' =>
          LET i == answer'[u].of IN
          /\ i \in DOMAIN egl_contexts' /\ egl_contexts'[i] = answer'[u].n
          /\ egl_contexts'[i] # 0 /\ ctxOf'[i] = 0
    BY <1>1, <1>3 DEF ContextInv, TableInv
  <1>6. \A u, v \in Threads :
          Given(u, "createContext")' /\ Given(v, "createContext")' /\ u # v
            => answer'[u].of # answer'[v].of
    BY <1>1 DEF ContextInv, TableInv
  <1>7. \A u \in Threads : Frees(u, "destroyContext")' =>
          /\ egl_contexts'[call'[u].c] # 0 /\ ctxOf'[call'[u].c] = 0
          /\ \A v \in Threads : Given(v, "createContext")' => answer'[v].of # call'[u].c
    BY <1>1, <1>2, <1>3 DEF ContextInv, TableInv, ContextOf
  <1> QED
    BY <1>3, <1>4, <1>5, <1>6, <1>7 DEF ContextInv, TableInv, ContextOf

(* The program gives a handle back.                                        *)
LEMMA ContextGivenBack ==
  ASSUME TypeInv, TypeInv', ContextInv, NEW t \in Threads, NEW c \in Ctx,
         call' = [call EXCEPT ![t] = call'[t]], call'[t].c = c,
         answer' = answer, answer[t] = NoAnswer,
         UNCHANGED <<egl_contexts, made>>,
         ctxOf[c] # 0, ctxOf' = [ctxOf EXCEPT ![c] = 0]
  PROVE  ContextInv'
  <1>1. /\ egl_contexts \in [Ctx -> Nat] /\ ctxOf \in [Ctx -> Nat]
        /\ egl_contexts' = egl_contexts /\ made' = made
        /\ \A u \in Threads : u # t => call'[u] = call[u]
        /\ NoAnswer.ok = FALSE
    BY DEF TypeInv, TypeOK, Objects, NoAnswer
  <1>2. /\ ctxOf'[c] = 0 /\ \A i \in Ctx : i # c => ctxOf'[i] = ctxOf[i]
    BY <1>1
  <1>3. \A u \in Threads : Given(u, "createContext")' => Given(u, "createContext") /\ u # t
    BY <1>1 DEF Given
  <1>4. \A u \in Threads : Frees(u, "destroyContext")' /\ u # t =>
          Frees(u, "destroyContext") /\ call'[u].c = call[u].c
    BY <1>1 DEF Frees, Answered
  <1>5. \A u \in Threads : Given(u, "createContext")' =>
          LET i == answer'[u].of IN
          /\ i \in DOMAIN egl_contexts' /\ egl_contexts'[i] = answer'[u].n
          /\ egl_contexts'[i] # 0 /\ ctxOf'[i] = 0 /\ i # c
    BY <1>1, <1>2, <1>3 DEF ContextInv, TableInv
  <1>6. \A u, v \in Threads :
          Given(u, "createContext")' /\ Given(v, "createContext")' /\ u # v
            => answer'[u].of # answer'[v].of
    BY <1>3 DEF ContextInv, TableInv
  <1>7. egl_contexts[c] # 0
    BY <1>1 DEF ContextInv, TableInv
  <1>8. ASSUME NEW u \in Threads, Frees(u, "destroyContext")'
        PROVE  /\ egl_contexts'[call'[u].c] # 0 /\ ctxOf'[call'[u].c] = 0
               /\ \A v \in Threads : Given(v, "createContext")' => answer'[v].of # call'[u].c
    <2>1. CASE u = t
      BY <1>1, <1>2, <1>5, <1>7, <2>1
    <2>2. CASE u # t
      <3>1. /\ egl_contexts[call[u].c] # 0 /\ ctxOf[call[u].c] = 0
            /\ \A v \in Threads : Given(v, "createContext") => answer[v].of # call[u].c
            /\ call'[u].c = call[u].c
        BY <1>4, <1>8, <2>2 DEF ContextInv, TableInv, ContextOf
      <3>2. ctxOf'[call[u].c] = 0
        <4>1. ctxOf' = [i \in Ctx |-> IF i = c THEN 0 ELSE ctxOf[i]]
          BY <1>1
        <4>2. call[u].c # c
          BY <3>1
        <4> QED
          BY <1>1, <3>1, <4>2
      <3> QED
        BY <1>1, <1>3, <3>1, <3>2
    <2> QED
      BY <2>1, <2>2
  <1>9. \A i \in Ctx : ctxOf'[i] # 0 => egl_contexts'[i] = ctxOf'[i]
    BY <1>1, <1>2 DEF ContextInv, TableInv
  <1> QED
    BY <1>1, <1>5, <1>6, <1>8, <1>9 DEF ContextInv, TableInv, ContextOf

(* The program takes the handle it is given.                               *)
LEMMA ContextTaken ==
  ASSUME TypeInv, TypeInv', ContextInv, NEW t \in Threads,
         Given(t, "createContext"),
         call' = [call EXCEPT ![t] = Idle], answer' = [answer EXCEPT ![t] = NoAnswer],
         UNCHANGED <<egl_contexts, made>>,
         ctxOf' = [ctxOf EXCEPT ![answer[t].of] = answer[t].n]
  PROVE  ContextInv'
  <1> DEFINE c == answer[t].of
  <1>1. /\ egl_contexts \in [Ctx -> Nat] /\ ctxOf \in [Ctx -> Nat]
        /\ egl_contexts' = egl_contexts /\ made' = made
        /\ \A u \in Threads : u # t => call'[u] = call[u] /\ answer'[u] = answer[u]
        /\ call'[t] = Idle /\ answer'[t] = NoAnswer
    BY DEF TypeInv, TypeOK, Objects
  <1>2. /\ c \in Ctx /\ egl_contexts[c] = answer[t].n /\ ctxOf[c] = 0
        /\ DOMAIN egl_contexts = Ctx
    BY <1>1 DEF ContextInv, TableInv
  <1>3. /\ ctxOf'[c] = egl_contexts[c] /\ \A i \in Ctx : i # c => ctxOf'[i] = ctxOf[i]
    BY <1>1, <1>2
  <1>4. \A u \in Threads : Given(u, "createContext")' => Given(u, "createContext") /\ u # t
    BY <1>1 DEF Given, Idle
  <1>5. \A u \in Threads : Frees(u, "destroyContext")' =>
          /\ Frees(u, "destroyContext") /\ u # t /\ call'[u].c = call[u].c
    BY <1>1 DEF Frees, Answered, Idle
  <1>6. ASSUME NEW u \in Threads, Given(u, "createContext")'
        PROVE  LET i == answer'[u].of IN
               /\ i \in DOMAIN egl_contexts' /\ egl_contexts'[i] = answer'[u].n
               /\ egl_contexts'[i] # 0 /\ ctxOf'[i] = 0
    <2>1. Given(u, "createContext") /\ u # t /\ answer'[u] = answer[u]
      BY <1>1, <1>4, <1>6
    <2>2. answer[u].of # c /\ answer[u].of \in Ctx
      BY <1>2, <2>1 DEF ContextInv, TableInv
    <2> QED
      BY <1>1, <1>3, <2>1, <2>2 DEF ContextInv, TableInv
  <1>7. \A u, v \in Threads :
          Given(u, "createContext")' /\ Given(v, "createContext")' /\ u # v
            => answer'[u].of # answer'[v].of
    BY <1>1, <1>4 DEF ContextInv, TableInv
  <1>8. ASSUME NEW u \in Threads, Frees(u, "destroyContext")'
        PROVE  /\ egl_contexts'[call'[u].c] # 0 /\ ctxOf'[call'[u].c] = 0
               /\ \A v \in Threads : Given(v, "createContext")' => answer'[v].of # call'[u].c
    <2>1. /\ egl_contexts[call[u].c] # 0 /\ ctxOf[call[u].c] = 0
          /\ \A v \in Threads : Given(v, "createContext") => answer[v].of # call[u].c
          /\ call'[u].c = call[u].c
      BY <1>5, <1>8 DEF ContextInv, TableInv, ContextOf
    <2>2. call[u].c # c
      BY <2>1
    <2>3. ctxOf'[call[u].c] = 0
      BY <1>1, <2>1, <2>2
    <2>4. \A v \in Threads : Given(v, "createContext")' => answer'[v].of # call'[u].c
      BY <1>1, <1>4, <2>1
    <2> QED
      BY <1>1, <2>1, <2>3, <2>4
  <1>9. \A i \in Ctx : ctxOf'[i] # 0 => egl_contexts'[i] = ctxOf'[i]
    BY <1>1, <1>3 DEF ContextInv, TableInv
  <1> QED
    BY <1>1, <1>6, <1>7, <1>8, <1>9 DEF ContextInv, TableInv, ContextOf

(* The proxy makes an object and enters it.                                *)
LEMMA ContextEntered ==
  ASSUME TypeInv, TypeInv', ContextInv, NEW t \in Threads, NEW i \in Ctx,
         egl_contexts[i] = 0, egl_contexts' = [egl_contexts EXCEPT ![i] = made.ctx + 1],
         made'.ctx = made.ctx + 1, UNCHANGED <<ctxOf, call>>,
         answer' = [answer EXCEPT ![t] = Answer(TRUE, i, made.ctx + 1)]
  PROVE  ContextInv'
  <1> DEFINE n == made.ctx + 1
  <1>1. /\ egl_contexts \in [Ctx -> Nat] /\ ctxOf \in [Ctx -> Nat] /\ made.ctx \in Nat
        /\ made'.ctx = n /\ ctxOf' = ctxOf /\ call' = call
        /\ \A u \in Threads : u # t => answer'[u] = answer[u]
        /\ answer'[t] = Answer(TRUE, i, n)
    BY DEF TypeInv, TypeOK, Objects, Binding
  <1>2. /\ egl_contexts'[i] = n /\ \A j \in Ctx : j # i => egl_contexts'[j] = egl_contexts[j]
        /\ DOMAIN egl_contexts' = Ctx /\ DOMAIN egl_contexts = Ctx
    BY <1>1
  <1>3. \A j \in Ctx : egl_contexts[j] \in Nat /\ egl_contexts[j] <= made.ctx
    BY <1>1 DEF ContextInv, TableInv
  <1>4. ctxOf[i] = 0
    BY <1>1 DEF ContextInv, TableInv
  <1>5. \A j \in Ctx : egl_contexts'[j] <= made'.ctx
    BY <1>1, <1>2, <1>3
  <1>6. ASSUME NEW j \in Ctx, NEW k \in Ctx, j # k, egl_contexts'[j] # 0
        PROVE  egl_contexts'[j] # egl_contexts'[k]
    <2>1. n # egl_contexts[j] /\ n # egl_contexts[k]
      BY <1>1, <1>3
    <2> QED
      BY <1>2, <1>6, <2>1 DEF ContextInv, TableInv
  <1>7. \A j \in Ctx : ctxOf'[j] # 0 => egl_contexts'[j] = ctxOf'[j]
    BY <1>1, <1>2, <1>4 DEF ContextInv, TableInv
  <1>8. answer'[t].of = i /\ answer'[t].n = n /\ answer'[t].ok
    BY <1>1 DEF Answer
  <1>9. ASSUME NEW u \in Threads, Given(u, "createContext")', u # t
        PROVE  /\ answer'[u] = answer[u] /\ answer[u].of \in Ctx /\ answer[u].of # i
               /\ egl_contexts'[answer[u].of] = answer[u].n
               /\ egl_contexts'[answer[u].of] # 0 /\ ctxOf'[answer[u].of] = 0
    <2>1. Given(u, "createContext") /\ answer'[u] = answer[u]
      BY <1>1, <1>9 DEF Given
    <2> QED
      BY <1>1, <1>2, <2>1 DEF ContextInv, TableInv
  <1>10. \A u \in Threads : Given(u, "createContext")' =>
           LET j == answer'[u].of IN
           /\ j \in DOMAIN egl_contexts' /\ egl_contexts'[j] = answer'[u].n
           /\ egl_contexts'[j] # 0 /\ ctxOf'[j] = 0
    <2> TAKE u \in Threads
    <2>1. CASE u = t
      <3>1. n # 0
        BY <1>1
      <3> QED
        BY <1>1, <1>2, <1>4, <1>8, <2>1, <3>1
    <2>2. CASE u # t
      BY <1>2, <1>9, <2>2
    <2> QED
      BY <2>1, <2>2
  <1>11. \A u, v \in Threads :
           Given(u, "createContext")' /\ Given(v, "createContext")' /\ u # v
             => answer'[u].of # answer'[v].of
    <2> SUFFICES ASSUME NEW u \in Threads, NEW v \in Threads, u # v,
                        Given(u, "createContext")', Given(v, "createContext")'
                 PROVE  answer'[u].of # answer'[v].of
      OBVIOUS
    <2>1. CASE u = t
      <3>1. answer'[v].of # i
        BY <1>9, <2>1
      <3> QED
        BY <1>8, <2>1, <3>1
    <2>3. CASE v = t
      <3>1. answer'[u].of # i
        BY <1>9, <2>3
      <3> QED
        BY <1>8, <2>3, <3>1
    <2>2. CASE u # t /\ v # t
      <3>1. Given(u, "createContext") /\ Given(v, "createContext")
        BY <1>1, <2>2 DEF Given
      <3> QED
        BY <1>1, <2>2, <3>1 DEF ContextInv, TableInv
    <2> QED
      BY <2>1, <2>2, <2>3
  <1>12. ASSUME NEW u \in Threads, Frees(u, "destroyContext")'
         PROVE  /\ egl_contexts'[call'[u].c] # 0 /\ ctxOf'[call'[u].c] = 0
                /\ \A v \in Threads : Given(v, "createContext")' => answer'[v].of # call'[u].c
    <2>1. u # t
      BY <1>1, <1>12 DEF Frees, Answered, Answer, NoAnswer
    <2>2. Frees(u, "destroyContext")
      BY <1>1, <1>12, <2>1 DEF Frees, Answered
    <2>3. /\ egl_contexts[call[u].c] # 0 /\ ctxOf[call[u].c] = 0
          /\ \A v \in Threads : Given(v, "createContext") => answer[v].of # call[u].c
      BY <2>2 DEF ContextInv, TableInv, ContextOf
    <2>4. call[u].c # i
      BY <2>3
    <2>5. egl_contexts'[call[u].c] = egl_contexts[call[u].c]
      BY <1>1, <2>4
    <2>6. \A v \in Threads : Given(v, "createContext")' => answer'[v].of # call[u].c
      BY <1>1, <1>8, <2>3, <2>4 DEF Given
    <2> QED
      BY <1>1, <2>3, <2>5, <2>6
  <1> HIDE DEF n
  <1> QED
    BY <1>2, <1>5, <1>6, <1>7, <1>10, <1>11, <1>12
       DEF ContextInv, TableInv, ContextOf

(* The proxy clears an entry and says so.                                  *)
LEMMA ContextCleared ==
  ASSUME TypeInv, TypeInv', CallInv, ContextInv, NEW t \in Threads,
         Frees(t, "destroyContext"), call[t].c \in Ctx,
         egl_contexts' = [egl_contexts EXCEPT ![call[t].c] = 0],
         UNCHANGED <<made, ctxOf, call>>,
         answer' = [answer EXCEPT ![t] = Answer(TRUE, 0, 0)]
  PROVE  ContextInv'
  <1> DEFINE i == call[t].c
  <1>1. /\ egl_contexts \in [Ctx -> Nat] /\ made.ctx \in Nat
        /\ made' = made /\ ctxOf' = ctxOf /\ call' = call
        /\ \A u \in Threads : u # t => answer'[u] = answer[u]
        /\ answer'[t] = Answer(TRUE, 0, 0)
        /\ egl_contexts'[i] = 0 /\ \A j \in Ctx : j # i => egl_contexts'[j] = egl_contexts[j]
        /\ DOMAIN egl_contexts' = Ctx /\ DOMAIN egl_contexts = Ctx
    BY DEF TypeInv, TypeOK, Objects, Binding
  <1>2. /\ ctxOf[i] = 0 /\ egl_contexts[i] # 0
        /\ \A v \in Threads : Given(v, "createContext") => answer[v].of # i
    BY DEF ContextInv, TableInv, ContextOf
  <1>3. \A u \in Threads : Given(u, "createContext")' =>
          Given(u, "createContext") /\ u # t /\ answer'[u] = answer[u]
    BY <1>1 DEF Given, Frees
  <1>4. \A u \in Threads : ~Frees(u, "destroyContext")'
    <2> SUFFICES ASSUME NEW u \in Threads, Frees(u, "destroyContext")' PROVE FALSE
      OBVIOUS
    <2>1. Frees(u, "destroyContext") /\ u # t
      BY <1>1 DEF Frees, Answered, Answer, NoAnswer
    <2>2. Waits(u) /\ Waits(t)
      BY <2>1 DEF Frees, Waits, Answered, Calls
    <2> QED
      BY <2>1, <2>2 DEF CallInv
  <1>5. \A j \in Ctx : egl_contexts'[j] <= made'.ctx
    BY <1>1 DEF ContextInv, TableInv
  <1>6. \A j, k \in Ctx : j # k /\ egl_contexts'[j] # 0 => egl_contexts'[j] # egl_contexts'[k]
    BY <1>1 DEF ContextInv, TableInv
  <1>7. \A j \in Ctx : ctxOf'[j] # 0 => egl_contexts'[j] = ctxOf'[j]
    BY <1>1, <1>2 DEF ContextInv, TableInv
  <1>8. ASSUME NEW u \in Threads, Given(u, "createContext")'
        PROVE  LET j == answer'[u].of IN
               /\ j \in DOMAIN egl_contexts' /\ egl_contexts'[j] = answer'[u].n
               /\ egl_contexts'[j] # 0 /\ ctxOf'[j] = 0
    <2>1. /\ Given(u, "createContext") /\ answer'[u] = answer[u]
          /\ answer[u].of # i
      BY <1>2, <1>3, <1>8
    <2>2. LET j == answer[u].of IN
          /\ j \in DOMAIN egl_contexts /\ egl_contexts[j] = answer[u].n
          /\ egl_contexts[j] # 0 /\ ctxOf[j] = 0
      BY <2>1 DEF ContextInv, TableInv
    <2> QED
      BY <1>1, <2>1, <2>2
  <1>9. \A u, v \in Threads :
          Given(u, "createContext")' /\ Given(v, "createContext")' /\ u # v
            => answer'[u].of # answer'[v].of
    <2>1. \A u, v \in Threads :
            Given(u, "createContext") /\ Given(v, "createContext") /\ u # v
              => answer[u].of # answer[v].of
      BY DEF ContextInv, TableInv
    <2> QED
      BY <1>3, <2>1
  <1> HIDE DEF i
  <1> QED
    BY <1>1, <1>4, <1>5, <1>6, <1>7, <1>8, <1>9
       DEF ContextInv, TableInv, ContextOf

(* The same for surfaces.                                                   *)
LEMMA SurfaceStable ==
  ASSUME TypeInv, TypeInv', SurfaceInv, UNCHANGED <<egl_surfaces, surfOf>>,
         made'.draw >= made.draw,
         \A u \in Threads : \/ Same(u)
                            \/ /\ ~Given(u, "createSurface")'
                               /\ ~Frees(u, "destroySurface")'
  PROVE  SurfaceInv'
  <1>1. \A u \in Threads : Given(u, "createSurface")' =>
          Given(u, "createSurface") /\ answer'[u] = answer[u]
    BY DEF Same, Given
  <1>2. \A u \in Threads : Frees(u, "destroySurface")' =>
          Frees(u, "destroySurface") /\ call'[u].s = call[u].s
    BY DEF Same, Frees, Answered
  <1>3. /\ egl_surfaces \in [Surf -> Nat] /\ made.draw \in Nat /\ made'.draw \in Nat
        /\ egl_surfaces' = egl_surfaces /\ surfOf' = surfOf
    BY DEF TypeInv, TypeOK, Objects, Binding
  <1>4. \A i \in Surf : egl_surfaces'[i] <= made'.draw
    <2> TAKE i \in Surf
    <2>1. egl_surfaces[i] <= made.draw /\ egl_surfaces[i] \in Nat
      BY <1>3 DEF SurfaceInv, TableInv
    <2> QED
      BY <1>3, <2>1
  <1>5. \A u \in Threads : Given(u, "createSurface")' =>
          LET i == answer'[u].of IN
          /\ i \in DOMAIN egl_surfaces' /\ egl_surfaces'[i] = answer'[u].n
          /\ egl_surfaces'[i] # 0 /\ surfOf'[i] = 0
    BY <1>1, <1>3 DEF SurfaceInv, TableInv
  <1>6. \A u, v \in Threads :
          Given(u, "createSurface")' /\ Given(v, "createSurface")' /\ u # v
            => answer'[u].of # answer'[v].of
    BY <1>1 DEF SurfaceInv, TableInv
  <1>7. \A u \in Threads : Frees(u, "destroySurface")' =>
          /\ egl_surfaces'[call'[u].s] # 0 /\ surfOf'[call'[u].s] = 0
          /\ \A v \in Threads : Given(v, "createSurface")' => answer'[v].of # call'[u].s
    BY <1>1, <1>2, <1>3 DEF SurfaceInv, TableInv, SurfaceOf
  <1> QED
    BY <1>3, <1>4, <1>5, <1>6, <1>7 DEF SurfaceInv, TableInv, SurfaceOf

LEMMA SurfaceGivenBack ==
  ASSUME TypeInv, TypeInv', SurfaceInv, NEW t \in Threads, NEW c \in Surf,
         call' = [call EXCEPT ![t] = call'[t]], call'[t].s = c,
         answer' = answer, answer[t] = NoAnswer,
         UNCHANGED <<egl_surfaces, made>>,
         surfOf[c] # 0, surfOf' = [surfOf EXCEPT ![c] = 0]
  PROVE  SurfaceInv'
  <1>1. /\ egl_surfaces \in [Surf -> Nat] /\ surfOf \in [Surf -> Nat]
        /\ egl_surfaces' = egl_surfaces /\ made' = made
        /\ \A u \in Threads : u # t => call'[u] = call[u]
        /\ NoAnswer.ok = FALSE
    BY DEF TypeInv, TypeOK, Objects, NoAnswer
  <1>2. /\ surfOf'[c] = 0 /\ \A i \in Surf : i # c => surfOf'[i] = surfOf[i]
    BY <1>1
  <1>3. \A u \in Threads : Given(u, "createSurface")' => Given(u, "createSurface") /\ u # t
    BY <1>1 DEF Given
  <1>4. \A u \in Threads : Frees(u, "destroySurface")' /\ u # t =>
          Frees(u, "destroySurface") /\ call'[u].s = call[u].s
    BY <1>1 DEF Frees, Answered
  <1>5. \A u \in Threads : Given(u, "createSurface")' =>
          LET i == answer'[u].of IN
          /\ i \in DOMAIN egl_surfaces' /\ egl_surfaces'[i] = answer'[u].n
          /\ egl_surfaces'[i] # 0 /\ surfOf'[i] = 0 /\ i # c
    BY <1>1, <1>2, <1>3 DEF SurfaceInv, TableInv
  <1>6. \A u, v \in Threads :
          Given(u, "createSurface")' /\ Given(v, "createSurface")' /\ u # v
            => answer'[u].of # answer'[v].of
    BY <1>3 DEF SurfaceInv, TableInv
  <1>7. egl_surfaces[c] # 0
    BY <1>1 DEF SurfaceInv, TableInv
  <1>8. ASSUME NEW u \in Threads, Frees(u, "destroySurface")'
        PROVE  /\ egl_surfaces'[call'[u].s] # 0 /\ surfOf'[call'[u].s] = 0
               /\ \A v \in Threads : Given(v, "createSurface")' => answer'[v].of # call'[u].s
    <2>1. CASE u = t
      BY <1>1, <1>2, <1>5, <1>7, <2>1
    <2>2. CASE u # t
      <3>1. /\ egl_surfaces[call[u].s] # 0 /\ surfOf[call[u].s] = 0
            /\ \A v \in Threads : Given(v, "createSurface") => answer[v].of # call[u].s
            /\ call'[u].s = call[u].s
        BY <1>4, <1>8, <2>2 DEF SurfaceInv, TableInv, SurfaceOf
      <3>2. surfOf'[call[u].s] = 0
        <4>1. surfOf' = [i \in Surf |-> IF i = c THEN 0 ELSE surfOf[i]]
          BY <1>1
        <4>2. call[u].s # c
          BY <3>1
        <4> QED
          BY <1>1, <3>1, <4>2
      <3> QED
        BY <1>1, <1>3, <3>1, <3>2
    <2> QED
      BY <2>1, <2>2
  <1>9. \A i \in Surf : surfOf'[i] # 0 => egl_surfaces'[i] = surfOf'[i]
    BY <1>1, <1>2 DEF SurfaceInv, TableInv
  <1> QED
    BY <1>1, <1>5, <1>6, <1>8, <1>9 DEF SurfaceInv, TableInv, SurfaceOf

LEMMA SurfaceTaken ==
  ASSUME TypeInv, TypeInv', SurfaceInv, NEW t \in Threads,
         Given(t, "createSurface"),
         call' = [call EXCEPT ![t] = Idle], answer' = [answer EXCEPT ![t] = NoAnswer],
         UNCHANGED <<egl_surfaces, made>>,
         surfOf' = [surfOf EXCEPT ![answer[t].of] = answer[t].n]
  PROVE  SurfaceInv'
  <1> DEFINE c == answer[t].of
  <1>1. /\ egl_surfaces \in [Surf -> Nat] /\ surfOf \in [Surf -> Nat]
        /\ egl_surfaces' = egl_surfaces /\ made' = made
        /\ \A u \in Threads : u # t => call'[u] = call[u] /\ answer'[u] = answer[u]
        /\ call'[t] = Idle /\ answer'[t] = NoAnswer
    BY DEF TypeInv, TypeOK, Objects
  <1>2. /\ c \in Surf /\ egl_surfaces[c] = answer[t].n /\ surfOf[c] = 0
        /\ DOMAIN egl_surfaces = Surf
    BY <1>1 DEF SurfaceInv, TableInv
  <1>3. /\ surfOf'[c] = egl_surfaces[c] /\ \A i \in Surf : i # c => surfOf'[i] = surfOf[i]
    BY <1>1, <1>2
  <1>4. \A u \in Threads : Given(u, "createSurface")' => Given(u, "createSurface") /\ u # t
    BY <1>1 DEF Given, Idle
  <1>5. \A u \in Threads : Frees(u, "destroySurface")' =>
          /\ Frees(u, "destroySurface") /\ u # t /\ call'[u].s = call[u].s
    BY <1>1 DEF Frees, Answered, Idle
  <1>6. ASSUME NEW u \in Threads, Given(u, "createSurface")'
        PROVE  LET i == answer'[u].of IN
               /\ i \in DOMAIN egl_surfaces' /\ egl_surfaces'[i] = answer'[u].n
               /\ egl_surfaces'[i] # 0 /\ surfOf'[i] = 0
    <2>1. Given(u, "createSurface") /\ u # t /\ answer'[u] = answer[u]
      BY <1>1, <1>4, <1>6
    <2>2. answer[u].of # c /\ answer[u].of \in Surf
      BY <1>2, <2>1 DEF SurfaceInv, TableInv
    <2> QED
      BY <1>1, <1>3, <2>1, <2>2 DEF SurfaceInv, TableInv
  <1>7. \A u, v \in Threads :
          Given(u, "createSurface")' /\ Given(v, "createSurface")' /\ u # v
            => answer'[u].of # answer'[v].of
    BY <1>1, <1>4 DEF SurfaceInv, TableInv
  <1>8. ASSUME NEW u \in Threads, Frees(u, "destroySurface")'
        PROVE  /\ egl_surfaces'[call'[u].s] # 0 /\ surfOf'[call'[u].s] = 0
               /\ \A v \in Threads : Given(v, "createSurface")' => answer'[v].of # call'[u].s
    <2>1. /\ egl_surfaces[call[u].s] # 0 /\ surfOf[call[u].s] = 0
          /\ \A v \in Threads : Given(v, "createSurface") => answer[v].of # call[u].s
          /\ call'[u].s = call[u].s
      BY <1>5, <1>8 DEF SurfaceInv, TableInv, SurfaceOf
    <2>2. call[u].s # c
      BY <2>1
    <2>3. surfOf'[call[u].s] = 0
      BY <1>1, <2>1, <2>2
    <2>4. \A v \in Threads : Given(v, "createSurface")' => answer'[v].of # call'[u].s
      BY <1>1, <1>4, <2>1
    <2> QED
      BY <1>1, <2>1, <2>3, <2>4
  <1>9. \A i \in Surf : surfOf'[i] # 0 => egl_surfaces'[i] = surfOf'[i]
    BY <1>1, <1>3 DEF SurfaceInv, TableInv
  <1> QED
    BY <1>1, <1>6, <1>7, <1>8, <1>9 DEF SurfaceInv, TableInv, SurfaceOf

LEMMA SurfaceEntered ==
  ASSUME TypeInv, TypeInv', SurfaceInv, NEW t \in Threads, NEW i \in Surf,
         egl_surfaces[i] = 0, egl_surfaces' = [egl_surfaces EXCEPT ![i] = made.draw + 1],
         made'.draw = made.draw + 1, UNCHANGED <<surfOf, call>>,
         answer' = [answer EXCEPT ![t] = Answer(TRUE, i, made.draw + 1)]
  PROVE  SurfaceInv'
  <1> DEFINE n == made.draw + 1
  <1>1. /\ egl_surfaces \in [Surf -> Nat] /\ surfOf \in [Surf -> Nat] /\ made.draw \in Nat
        /\ made'.draw = n /\ surfOf' = surfOf /\ call' = call
        /\ \A u \in Threads : u # t => answer'[u] = answer[u]
        /\ answer'[t] = Answer(TRUE, i, n)
    BY DEF TypeInv, TypeOK, Objects, Binding
  <1>2. /\ egl_surfaces'[i] = n /\ \A j \in Surf : j # i => egl_surfaces'[j] = egl_surfaces[j]
        /\ DOMAIN egl_surfaces' = Surf /\ DOMAIN egl_surfaces = Surf
    BY <1>1
  <1>3. \A j \in Surf : egl_surfaces[j] \in Nat /\ egl_surfaces[j] <= made.draw
    BY <1>1 DEF SurfaceInv, TableInv
  <1>4. surfOf[i] = 0
    BY <1>1 DEF SurfaceInv, TableInv
  <1>5. \A j \in Surf : egl_surfaces'[j] <= made'.draw
    BY <1>1, <1>2, <1>3
  <1>6. ASSUME NEW j \in Surf, NEW k \in Surf, j # k, egl_surfaces'[j] # 0
        PROVE  egl_surfaces'[j] # egl_surfaces'[k]
    <2>1. n # egl_surfaces[j] /\ n # egl_surfaces[k]
      BY <1>1, <1>3
    <2> QED
      BY <1>2, <1>6, <2>1 DEF SurfaceInv, TableInv
  <1>7. \A j \in Surf : surfOf'[j] # 0 => egl_surfaces'[j] = surfOf'[j]
    BY <1>1, <1>2, <1>4 DEF SurfaceInv, TableInv
  <1>8. answer'[t].of = i /\ answer'[t].n = n /\ answer'[t].ok
    BY <1>1 DEF Answer
  <1>9. ASSUME NEW u \in Threads, Given(u, "createSurface")', u # t
        PROVE  /\ answer'[u] = answer[u] /\ answer[u].of \in Surf /\ answer[u].of # i
               /\ egl_surfaces'[answer[u].of] = answer[u].n
               /\ egl_surfaces'[answer[u].of] # 0 /\ surfOf'[answer[u].of] = 0
    <2>1. Given(u, "createSurface") /\ answer'[u] = answer[u]
      BY <1>1, <1>9 DEF Given
    <2> QED
      BY <1>1, <1>2, <2>1 DEF SurfaceInv, TableInv
  <1>10. \A u \in Threads : Given(u, "createSurface")' =>
           LET j == answer'[u].of IN
           /\ j \in DOMAIN egl_surfaces' /\ egl_surfaces'[j] = answer'[u].n
           /\ egl_surfaces'[j] # 0 /\ surfOf'[j] = 0
    <2> TAKE u \in Threads
    <2>1. CASE u = t
      <3>1. n # 0
        BY <1>1
      <3> QED
        BY <1>1, <1>2, <1>4, <1>8, <2>1, <3>1
    <2>2. CASE u # t
      BY <1>2, <1>9, <2>2
    <2> QED
      BY <2>1, <2>2
  <1>11. \A u, v \in Threads :
           Given(u, "createSurface")' /\ Given(v, "createSurface")' /\ u # v
             => answer'[u].of # answer'[v].of
    <2> SUFFICES ASSUME NEW u \in Threads, NEW v \in Threads, u # v,
                        Given(u, "createSurface")', Given(v, "createSurface")'
                 PROVE  answer'[u].of # answer'[v].of
      OBVIOUS
    <2>1. CASE u = t
      <3>1. answer'[v].of # i
        BY <1>9, <2>1
      <3> QED
        BY <1>8, <2>1, <3>1
    <2>3. CASE v = t
      <3>1. answer'[u].of # i
        BY <1>9, <2>3
      <3> QED
        BY <1>8, <2>3, <3>1
    <2>2. CASE u # t /\ v # t
      <3>1. Given(u, "createSurface") /\ Given(v, "createSurface")
        BY <1>1, <2>2 DEF Given
      <3> QED
        BY <1>1, <2>2, <3>1 DEF SurfaceInv, TableInv
    <2> QED
      BY <2>1, <2>2, <2>3
  <1>12. ASSUME NEW u \in Threads, Frees(u, "destroySurface")'
         PROVE  /\ egl_surfaces'[call'[u].s] # 0 /\ surfOf'[call'[u].s] = 0
                /\ \A v \in Threads : Given(v, "createSurface")' => answer'[v].of # call'[u].s
    <2>1. u # t
      BY <1>1, <1>12 DEF Frees, Answered, Answer, NoAnswer
    <2>2. Frees(u, "destroySurface")
      BY <1>1, <1>12, <2>1 DEF Frees, Answered
    <2>3. /\ egl_surfaces[call[u].s] # 0 /\ surfOf[call[u].s] = 0
          /\ \A v \in Threads : Given(v, "createSurface") => answer[v].of # call[u].s
      BY <2>2 DEF SurfaceInv, TableInv, SurfaceOf
    <2>4. call[u].s # i
      BY <2>3
    <2>5. egl_surfaces'[call[u].s] = egl_surfaces[call[u].s]
      BY <1>1, <2>4
    <2>6. \A v \in Threads : Given(v, "createSurface")' => answer'[v].of # call[u].s
      BY <1>1, <1>8, <2>3, <2>4 DEF Given
    <2> QED
      BY <1>1, <2>3, <2>5, <2>6
  <1> HIDE DEF n
  <1> QED
    BY <1>2, <1>5, <1>6, <1>7, <1>10, <1>11, <1>12
       DEF SurfaceInv, TableInv, SurfaceOf

LEMMA SurfaceCleared ==
  ASSUME TypeInv, TypeInv', CallInv, SurfaceInv, NEW t \in Threads,
         Frees(t, "destroySurface"), call[t].s \in Surf,
         egl_surfaces' = [egl_surfaces EXCEPT ![call[t].s] = 0],
         UNCHANGED <<made, surfOf, call>>,
         answer' = [answer EXCEPT ![t] = Answer(TRUE, 0, 0)]
  PROVE  SurfaceInv'
  <1> DEFINE i == call[t].s
  <1>1. /\ egl_surfaces \in [Surf -> Nat] /\ made.draw \in Nat
        /\ made' = made /\ surfOf' = surfOf /\ call' = call
        /\ \A u \in Threads : u # t => answer'[u] = answer[u]
        /\ answer'[t] = Answer(TRUE, 0, 0)
        /\ egl_surfaces'[i] = 0 /\ \A j \in Surf : j # i => egl_surfaces'[j] = egl_surfaces[j]
        /\ DOMAIN egl_surfaces' = Surf /\ DOMAIN egl_surfaces = Surf
    BY DEF TypeInv, TypeOK, Objects, Binding
  <1>2. /\ surfOf[i] = 0 /\ egl_surfaces[i] # 0
        /\ \A v \in Threads : Given(v, "createSurface") => answer[v].of # i
    BY DEF SurfaceInv, TableInv, SurfaceOf
  <1>3. \A u \in Threads : Given(u, "createSurface")' =>
          Given(u, "createSurface") /\ u # t /\ answer'[u] = answer[u]
    BY <1>1 DEF Given, Frees
  <1>4. \A u \in Threads : ~Frees(u, "destroySurface")'
    <2> SUFFICES ASSUME NEW u \in Threads, Frees(u, "destroySurface")' PROVE FALSE
      OBVIOUS
    <2>1. Frees(u, "destroySurface") /\ u # t
      BY <1>1 DEF Frees, Answered, Answer, NoAnswer
    <2>2. Waits(u) /\ Waits(t)
      BY <2>1 DEF Frees, Waits, Answered, Calls
    <2> QED
      BY <2>1, <2>2 DEF CallInv
  <1>5. \A j \in Surf : egl_surfaces'[j] <= made'.draw
    BY <1>1 DEF SurfaceInv, TableInv
  <1>6. \A j, k \in Surf : j # k /\ egl_surfaces'[j] # 0 => egl_surfaces'[j] # egl_surfaces'[k]
    BY <1>1 DEF SurfaceInv, TableInv
  <1>7. \A j \in Surf : surfOf'[j] # 0 => egl_surfaces'[j] = surfOf'[j]
    BY <1>1, <1>2 DEF SurfaceInv, TableInv
  <1>8. ASSUME NEW u \in Threads, Given(u, "createSurface")'
        PROVE  LET j == answer'[u].of IN
               /\ j \in DOMAIN egl_surfaces' /\ egl_surfaces'[j] = answer'[u].n
               /\ egl_surfaces'[j] # 0 /\ surfOf'[j] = 0
    <2>1. /\ Given(u, "createSurface") /\ answer'[u] = answer[u]
          /\ answer[u].of # i
      BY <1>2, <1>3, <1>8
    <2>2. LET j == answer[u].of IN
          /\ j \in DOMAIN egl_surfaces /\ egl_surfaces[j] = answer[u].n
          /\ egl_surfaces[j] # 0 /\ surfOf[j] = 0
      BY <2>1 DEF SurfaceInv, TableInv
    <2> QED
      BY <1>1, <2>1, <2>2
  <1>9. \A u, v \in Threads :
          Given(u, "createSurface")' /\ Given(v, "createSurface")' /\ u # v
            => answer'[u].of # answer'[v].of
    <2>1. \A u, v \in Threads :
            Given(u, "createSurface") /\ Given(v, "createSurface") /\ u # v
              => answer[u].of # answer[v].of
      BY DEF SurfaceInv, TableInv
    <2> QED
      BY <1>3, <2>1
  <1> HIDE DEF i
  <1> QED
    BY <1>1, <1>4, <1>5, <1>6, <1>7, <1>8, <1>9
       DEF SurfaceInv, TableInv, SurfaceOf

(* What a step says of the threads, by its kind.                           *)
LEMMA StartFacts ==
  ASSUME TypeInv, CallInv, NEW t \in Threads, call[t] = Idle, NEW o, NEW c, NEW s,
         Enter(t, o, c, s), UNCHANGED answer
  PROVE  /\ \A u \in Threads : u # t => Same(u)
         /\ call'[t].op = o /\ call'[t].c = c /\ call'[t].s = s
         /\ call' = [call EXCEPT ![t] = call'[t]]
         /\ answer[t] = NoAnswer /\ answer' = answer
         /\ \A create : ~Given(t, create)'
         /\ \A destroy : Frees(t, destroy)' => o = destroy
  <1>1. /\ \A u \in Threads : u # t => Same(u)
        /\ call'[t].op = o /\ call'[t].c = c /\ call'[t].s = s
        /\ call' = [call EXCEPT ![t] = call'[t]] /\ answer' = answer
    BY DEF TypeInv, Enter, Same
  <1>2. answer[t] = NoAnswer /\ ~answer'[t].ok
    BY <1>1, IdleFacts DEF NoAnswer
  <1> QED
    BY <1>1, <1>2 DEF Given, Frees

LEMMA EndFacts ==
  ASSUME TypeInv, NEW t \in Threads, call' = [call EXCEPT ![t] = Idle],
         answer' = [answer EXCEPT ![t] = NoAnswer]
  PROVE  /\ \A u \in Threads : u # t => Same(u)
         /\ call'[t].op = "idle" /\ answer'[t] = NoAnswer
         /\ \A create : ~Given(t, create)'
         /\ ~Frees(t, "destroyContext")' /\ ~Frees(t, "destroySurface")'
  <1>1. /\ \A u \in Threads : u # t => Same(u)
        /\ call'[t] = Idle /\ answer'[t] = NoAnswer
    BY DEF TypeInv, Same
  <1>2. Idle.op = "idle" /\ ~NoAnswer.ok
    BY DEF Idle, NoAnswer
  <1> QED
    BY <1>1, <1>2 DEF Given, Frees

LEMMA ReplyFacts ==
  ASSUME TypeInv, NEW t \in Threads, NEW a, answer' = [answer EXCEPT ![t] = a],
         a # NoAnswer, UNCHANGED call
  PROVE  /\ \A u \in Threads : u # t => Same(u)
         /\ answer'[t] = a /\ call' = call
         /\ \A create : Given(t, create)' => call[t].op = create /\ a.ok
         /\ \A destroy : ~Frees(t, destroy)'
  <1>1. /\ \A u \in Threads : u # t => Same(u)
        /\ answer'[t] = a /\ call' = call
    BY DEF TypeInv, Same
  <1> QED
    BY <1>1 DEF Given, Frees, Answered

LEMMA ComesFacts ==
  ASSUME TypeInv, CallInv, NEW t \in Threads, Comes(t)
  PROVE  /\ call' = [call EXCEPT ![t] = Idle] /\ answer' = [answer EXCEPT ![t] = NoAnswer]
         /\ UNCHANGED <<ring, proxyVars, driverVars, left, acted>>
  <1>1. CASE Resized(t)
    <2>1. answer[t] = NoAnswer
      BY <1>1 DEF Resized, CallInv, Answered, Calls
    <2> QED
      BY <1>1, <2>1 DEF Resized, TypeInv
  <1>2. CASE ~Resized(t)
    BY <1>2 DEF Comes, ReturnQuery, ReturnCreate, ReturnPlain, ReturnMakeCurrent, Done
  <1> QED
    BY <1>1, <1>2

(* The tables when a thread begins a call.                                 *)
LEMMA TablesCall ==
  ASSUME TypeInv, TypeInv', CallInv, ContextInv, SurfaceInv,
         NEW t \in Threads, Call(t)
  PROVE  ContextInv' /\ SurfaceInv'
  <1>1. \A n \in Nat : n >= n
    OBVIOUS
  <1>2. made.ctx \in Nat /\ made.draw \in Nat
    BY DEF TypeInv, Binding, Objects
  <1>3. ASSUME UNCHANGED <<egl_contexts, ctxOf, made>>,
               \A u \in Threads : \/ Same(u)
                                  \/ /\ ~Given(u, "createContext")'
                                     /\ ~Frees(u, "destroyContext")'
        PROVE  ContextInv'
    BY <1>1, <1>2, <1>3, ContextStable
  <1>4. ASSUME UNCHANGED <<egl_surfaces, surfOf, made>>,
               \A u \in Threads : \/ Same(u)
                                  \/ /\ ~Given(u, "createSurface")'
                                     /\ ~Frees(u, "destroySurface")'
        PROVE  SurfaceInv'
    BY <1>1, <1>2, <1>4, SurfaceStable
  <1>5. ASSUME NEW o, NEW c, NEW s, call[t] = Idle, Enter(t, o, c, s),
               UNCHANGED <<answer, proxyVars, driverVars, ctxOf, surfOf>>,
               o \notin {"destroyContext", "destroySurface"}
        PROVE  ContextInv' /\ SurfaceInv'
    <2>1. \A u \in Threads : \/ Same(u)
                              \/ /\ ~Given(u, "createContext")' /\ ~Given(u, "createSurface")'
                                 /\ ~Frees(u, "destroyContext")'
                                 /\ ~Frees(u, "destroySurface")'
      BY <1>5, StartFacts
    <2> QED
      BY <1>3, <1>4, <1>5, <2>1 DEF proxyVars, driverVars
  <1>6. ASSUME UNCHANGED <<call, answer, proxyVars, driverVars, ctxOf, surfOf>>
        PROVE  ContextInv' /\ SurfaceInv'
    BY <1>3, <1>4, <1>6 DEF Same, proxyVars, driverVars
  <1>7. ASSUME NEW o \in Plain, PlainCall(t, o) PROVE ContextInv' /\ SurfaceInv'
    <2>1. o \notin {"destroyContext", "destroySurface"}
      BY DEF Plain
    <2> QED
      BY <1>5, <1>7, <2>1 DEF PlainCall, Starts, appVars
  <1>8. ASSUME NEW w \in Windows, CreateWindowSurface(t, w) PROVE ContextInv' /\ SurfaceInv'
    BY <1>5, <1>8 DEF CreateWindowSurface, Starts, appVars
  <1>9. ASSUME NEW w \in Windows, Resize(t, w) PROVE ContextInv' /\ SurfaceInv'
    BY <1>5, <1>9 DEF Resize, Starts, appVars
  <1>10. ASSUME NEW s \in Surf, NEW o \in Queries, QueryMiss(t, o, s)
         PROVE  ContextInv' /\ SurfaceInv'
    <2>1. o \notin {"destroyContext", "destroySurface"}
      BY DEF Queries
    <2> QED
      BY <1>5, <1>10, <2>1 DEF QueryMiss, Starts, appVars
  <1>11. ASSUME NEW c \in Ctx \cup {0}, NEW s \in Surf \cup {0}, MakeCurrent(t, c, s)
         PROVE  ContextInv' /\ SurfaceInv'
    BY <1>5, <1>11 DEF MakeCurrent, Starts, appVars
  <1>12. ASSUME NEW c \in Ctx \cup {0}, NEW s \in Surf \cup {0}, MakeCurrentAgain(t, c, s)
         PROVE  ContextInv' /\ SurfaceInv'
    BY <1>6, <1>12 DEF MakeCurrentAgain
  <1>13. CASE GLCommand(t)
    BY <1>6, <1>13 DEF GLCommand, appVars
  <1>14. ASSUME NEW s \in Surf, SwapBuffers(t, s) PROVE ContextInv' /\ SurfaceInv'
    BY <1>6, <1>14 DEF SwapBuffers
  <1>15. ASSUME NEW s \in Surf, NEW o \in Queries, QueryHit(t, o, s)
         PROVE  ContextInv' /\ SurfaceInv'
    <2>1. /\ call'[t].op = o
          /\ \A u \in Threads : u # t => call'[u] = call[u] /\ answer'[u] = answer[u]
          /\ UNCHANGED <<proxyVars, driverVars, ctxOf, surfOf>>
      BY <1>15 DEF QueryHit, Enter, TypeInv, appVars
    <2>2. o \notin {"createContext", "createSurface", "destroyContext", "destroySurface"}
      BY DEF Queries
    <2>3. \A u \in Threads : \/ Same(u)
                              \/ /\ ~Given(u, "createContext")' /\ ~Given(u, "createSurface")'
                                 /\ ~Frees(u, "destroyContext")'
                                 /\ ~Frees(u, "destroySurface")'
      BY <2>1, <2>2 DEF Same, Given, Frees
    <2> QED
      BY <1>3, <1>4, <2>1, <2>3 DEF proxyVars, driverVars
  <1>16. ASSUME NEW c \in Ctx, DestroyContext(t, c) PROVE ContextInv' /\ SurfaceInv'
    <2>1. /\ call[t] = Idle /\ Sensible(t, "destroyContext", c, 0)
          /\ Enter(t, "destroyContext", c, 0) /\ UNCHANGED answer
          /\ ctxOf' = [ctxOf EXCEPT ![c] = 0]
          /\ UNCHANGED <<proxyVars, driverVars, surfOf>>
      BY <1>16 DEF DestroyContext, Starts
    <2>2. ctxOf[c] # 0
      BY <2>1, Meant
    <2>3. /\ \A u \in Threads : u # t => Same(u)
          /\ call'[t].c = c /\ call' = [call EXCEPT ![t] = call'[t]]
          /\ answer[t] = NoAnswer
          /\ ~Given(t, "createSurface")' /\ ~Frees(t, "destroySurface")'
      BY <2>1, StartFacts
    <2>4. ContextInv'
      BY <2>1, <2>2, <2>3, ContextGivenBack DEF proxyVars, driverVars
    <2>5. SurfaceInv'
      BY <1>4, <2>1, <2>3 DEF proxyVars, driverVars
    <2> QED
      BY <2>4, <2>5
  <1>17. ASSUME NEW s \in Surf, DestroySurface(t, s) PROVE ContextInv' /\ SurfaceInv'
    <2>1. /\ call[t] = Idle /\ Sensible(t, "destroySurface", 0, s)
          /\ Enter(t, "destroySurface", 0, s) /\ UNCHANGED answer
          /\ surfOf' = [surfOf EXCEPT ![s] = 0]
          /\ UNCHANGED <<proxyVars, driverVars, ctxOf>>
      BY <1>17 DEF DestroySurface, Starts
    <2>2. surfOf[s] # 0
      BY <2>1, Meant
    <2>3. /\ \A u \in Threads : u # t => Same(u)
          /\ call'[t].s = s /\ call' = [call EXCEPT ![t] = call'[t]]
          /\ answer[t] = NoAnswer
          /\ ~Given(t, "createContext")' /\ ~Frees(t, "destroyContext")'
      BY <2>1, StartFacts
    <2>4. SurfaceInv'
      BY <2>1, <2>2, <2>3, SurfaceGivenBack DEF proxyVars, driverVars
    <2>5. ContextInv'
      BY <1>3, <2>1, <2>3 DEF proxyVars, driverVars
    <2> QED
      BY <2>4, <2>5
  <1> QED
    BY <1>7, <1>8, <1>9, <1>10, <1>11, <1>12, <1>13, <1>14, <1>15, <1>16, <1>17
       DEF Call

(* The tables when a call comes back.                                      *)
LEMMA TablesComes ==
  ASSUME TypeInv, TypeInv', CallInv, ContextInv, SurfaceInv,
         NEW t \in Threads, Comes(t)
  PROVE  ContextInv' /\ SurfaceInv'
  <1>1. /\ call' = [call EXCEPT ![t] = Idle] /\ answer' = [answer EXCEPT ![t] = NoAnswer]
        /\ UNCHANGED <<egl_contexts, egl_surfaces, made>>
    BY ComesFacts DEF proxyVars, driverVars
  <1>2. \A u \in Threads : \/ Same(u)
                            \/ /\ ~Given(u, "createContext")' /\ ~Given(u, "createSurface")'
                               /\ ~Frees(u, "destroyContext")'
                               /\ ~Frees(u, "destroySurface")'
    BY <1>1, EndFacts
  <1>3. made.ctx \in Nat /\ made.draw \in Nat
    BY DEF TypeInv, Binding, Objects
  <1>4. ASSUME UNCHANGED ctxOf PROVE ContextInv'
    <2>1. made'.ctx >= made.ctx
      BY <1>1, <1>3
    <2> QED
      BY <1>1, <1>2, <1>4, <2>1, ContextStable
  <1>5. ASSUME UNCHANGED surfOf PROVE SurfaceInv'
    <2>1. made'.draw >= made.draw
      BY <1>1, <1>3
    <2> QED
      BY <1>1, <1>2, <1>5, <2>1, SurfaceStable
  <1>6. CASE UNCHANGED <<ctxOf, surfOf>>
    BY <1>4, <1>5, <1>6
  <1>7. ASSUME NEW o \in Kinds, ReturnCreate(t, o) PROVE ContextInv' /\ SurfaceInv'
    <2>1. CASE o = "createContext" /\ answer[t].ok
      <3>1. /\ Given(t, "createContext") /\ UNCHANGED surfOf
            /\ ctxOf' = [ctxOf EXCEPT ![answer[t].of] = answer[t].n]
        BY <1>7, <2>1 DEF ReturnCreate, Given, Back
      <3> QED
        BY <1>1, <1>5, <3>1, ContextTaken
    <2>2. CASE o = "createSurface" /\ answer[t].ok
      <3>1. /\ Given(t, "createSurface") /\ UNCHANGED ctxOf
            /\ surfOf' = [surfOf EXCEPT ![answer[t].of] = answer[t].n]
        BY <1>7, <2>2 DEF ReturnCreate, Given, Back
      <3> QED
        BY <1>1, <1>4, <3>1, SurfaceTaken
    <2>3. CASE ~answer[t].ok
      <3>1. UNCHANGED <<ctxOf, surfOf>>
        BY <1>7, <2>3 DEF ReturnCreate
      <3> QED
        BY <1>6, <3>1
    <2> QED
      BY <1>7, <2>1, <2>2, <2>3 DEF ReturnCreate
  <1>8. ASSUME ~(\E o \in Kinds : ReturnCreate(t, o)) PROVE UNCHANGED <<ctxOf, surfOf>>
    BY <1>8 DEF Comes, Resized, ReturnQuery, ReturnPlain, ReturnMakeCurrent, appVars
  <1> QED
    BY <1>6, <1>7, <1>8

(* The tables when the proxy runs a command.                               *)
LEMMA TablesDispatch ==
  ASSUME TypeInv, TypeInv', CallInv, ArgumentInv, ContextInv, SurfaceInv, Dispatch
  PROVE  ContextInv' /\ SurfaceInv'
  <1> DEFINE m == Front  t == Front.t
  <1>1. /\ ring # <<>> /\ call' = call /\ ctxOf' = ctxOf /\ surfOf' = surfOf
    BY DEF Dispatch, appVars
  <1>2. m \in Command /\ m = ring[1] /\ 1 \in DOMAIN ring /\ t \in Threads
    BY <1>1, FrontFacts
  <1>3. m.op \in Calls => Carries(m)
    BY <1>2 DEF CallInv
  <1>4. made.ctx \in Nat /\ made.draw \in Nat
        /\ made = [ctx |-> made.ctx, draw |-> made.draw]
    BY DEF TypeInv, Binding, Objects
  <1>5. ASSUME UNCHANGED <<egl_contexts>>, made'.ctx >= made.ctx, NEW a, Reply(m, a),
               a # NoAnswer, call[t].op # "createContext" \/ ~a.ok
        PROVE  ContextInv'
    <2>1. \A u \in Threads : \/ Same(u)
                              \/ /\ ~Given(u, "createContext")'
                                 /\ ~Frees(u, "destroyContext")'
      BY <1>1, <1>2, <1>5, ReplyFacts DEF Reply
    <2> QED
      BY <1>1, <1>5, <2>1, ContextStable
  <1>6. ASSUME UNCHANGED <<egl_surfaces>>, made'.draw >= made.draw, NEW a, Reply(m, a),
               a # NoAnswer, call[t].op # "createSurface" \/ ~a.ok
        PROVE  SurfaceInv'
    <2>1. \A u \in Threads : \/ Same(u)
                              \/ /\ ~Given(u, "createSurface")'
                                 /\ ~Frees(u, "destroySurface")'
      BY <1>1, <1>2, <1>6, ReplyFacts DEF Reply
    <2> QED
      BY <1>1, <1>6, <2>1, SurfaceStable
  <1>7. \A ok, of, n : Answer(ok, of, n) # NoAnswer /\ Answer(ok, of, n).ok = ok
    BY DEF Answer, NoAnswer
  <1>8. ASSUME UNCHANGED <<egl_contexts, egl_surfaces, made>>,
               NEW ok, NEW of, NEW n, Reply(m, Answer(ok, of, n)),
               ~ok \/ m.op \notin {"createContext", "createSurface"}, m.op \in Calls
        PROVE  ContextInv' /\ SurfaceInv'
    <2>1. made'.ctx >= made.ctx /\ made'.draw >= made.draw
      BY <1>4, <1>8
    <2>2. ok => call[t].op \notin {"createContext", "createSurface"}
      BY <1>3, <1>8 DEF Carries
    <2> QED
      BY <1>5, <1>6, <1>7, <1>8, <2>1, <2>2
  <1> HIDE DEF m, t
  <1>9. ASSUME NEW granted \in BOOLEAN, RunCreateContext(m, granted)
        PROVE  ContextInv' /\ SurfaceInv'
    <2> DEFINE i == TableAlloc(egl_contexts)
    <2>0. m.op \in Calls /\ call[t].op = "createContext"
      BY <1>3, <1>9 DEF RunCreateContext, Carries, Calls, m, t
    <2>1. CASE ~granted
      <3>1. Reply(m, Answer(FALSE, 0, 0)) /\ UNCHANGED <<egl_contexts, egl_surfaces, made>>
        BY <1>9, <2>1 DEF RunCreateContext
      <3> QED
        BY <1>8, <2>0, <3>1
    <2>2. CASE granted
      <3>1. /\ made' = [made EXCEPT !.ctx = made.ctx + 1]
            /\ egl_contexts' = IF i = 0 THEN egl_contexts
                                        ELSE [egl_contexts EXCEPT ![i] = made.ctx + 1]
            /\ Reply(m, Answer(i # 0, i, made.ctx + 1))
            /\ UNCHANGED egl_surfaces
        BY <1>9, <2>2 DEF RunCreateContext
      <3>2. made'.ctx = made.ctx + 1 /\ made'.draw = made.draw
        BY <1>4, <3>1
      <3>3. SurfaceInv'
        <4>1. made'.draw >= made.draw
          BY <1>4, <3>2
        <4> QED
          BY <1>6, <1>7, <2>0, <3>1, <4>1
      <3>4. CASE i = 0
        <4>1. made'.ctx >= made.ctx /\ UNCHANGED egl_contexts
          BY <1>4, <3>1, <3>2, <3>4
        <4>2. Reply(m, Answer(FALSE, i, made.ctx + 1))
          BY <3>1, <3>4
        <4> QED
          BY <1>5, <1>7, <3>3, <4>1, <4>2
      <3>5. CASE i # 0
        <4>1. i \in Ctx /\ egl_contexts[i] = 0
          BY <3>5, TableDomain
        <4>2. answer' = [answer EXCEPT ![t] = Answer(TRUE, i, made.ctx + 1)]
          BY <3>1, <3>5 DEF Reply, m, t
        <4>3. egl_contexts' = [egl_contexts EXCEPT ![i] = made.ctx + 1]
          BY <3>1, <3>5
        <4> HIDE DEF i
        <4>4. ContextInv'
          BY <1>1, <1>2, <3>2, <4>1, <4>2, <4>3, ContextEntered
        <4> QED
          BY <3>3, <4>4
      <3> QED
        BY <3>4, <3>5
    <2> QED
      BY <2>1, <2>2
  <1>10. ASSUME NEW granted \in BOOLEAN, RunCreateSurface(m, granted)
         PROVE  ContextInv' /\ SurfaceInv'
    <2> DEFINE i == TableAlloc(egl_surfaces)
    <2>0. m.op \in Calls /\ call[t].op = "createSurface"
      BY <1>3, <1>10 DEF RunCreateSurface, Carries, Calls, m, t
    <2>1. CASE ~granted
      <3>1. Reply(m, Answer(FALSE, 0, 0)) /\ UNCHANGED <<egl_contexts, egl_surfaces, made>>
        BY <1>10, <2>1 DEF RunCreateSurface
      <3> QED
        BY <1>8, <2>0, <3>1
    <2>2. CASE granted
      <3>1. /\ made' = [made EXCEPT !.draw = made.draw + 1]
            /\ egl_surfaces' = IF i = 0 THEN egl_surfaces
                                        ELSE [egl_surfaces EXCEPT ![i] = made.draw + 1]
            /\ Reply(m, Answer(i # 0, i, made.draw + 1))
            /\ UNCHANGED egl_contexts
        BY <1>10, <2>2 DEF RunCreateSurface
      <3>2. made'.draw = made.draw + 1 /\ made'.ctx = made.ctx
        BY <1>4, <3>1
      <3>3. ContextInv'
        <4>1. made'.ctx >= made.ctx
          BY <1>4, <3>2
        <4> QED
          BY <1>5, <1>7, <2>0, <3>1, <4>1
      <3>4. CASE i = 0
        <4>1. made'.draw >= made.draw /\ UNCHANGED egl_surfaces
          BY <1>4, <3>1, <3>2, <3>4
        <4>2. Reply(m, Answer(FALSE, i, made.draw + 1))
          BY <3>1, <3>4
        <4> QED
          BY <1>6, <1>7, <3>3, <4>1, <4>2
      <3>5. CASE i # 0
        <4>1. i \in Surf /\ egl_surfaces[i] = 0
          BY <3>5, TableDomain
        <4>2. answer' = [answer EXCEPT ![t] = Answer(TRUE, i, made.draw + 1)]
          BY <3>1, <3>5 DEF Reply, m, t
        <4>3. egl_surfaces' = [egl_surfaces EXCEPT ![i] = made.draw + 1]
          BY <3>1, <3>5
        <4> HIDE DEF i
        <4>4. SurfaceInv'
          BY <1>1, <1>2, <3>2, <4>1, <4>2, <4>3, SurfaceEntered
        <4> QED
          BY <3>3, <4>4
      <3> QED
        BY <3>4, <3>5
    <2> QED
      BY <2>1, <2>2
  <1>11. CASE RunDestroyContext(m)
    <2>1. /\ Frees(t, "destroyContext") /\ call[t].c = m.c /\ call[t].c \in Ctx
      BY <1>2, <1>3, <1>11 DEF RunDestroyContext, Carries, Calls, Frees, ArgumentInv, m, t
    <2>2. /\ egl_contexts' = [egl_contexts EXCEPT ![call[t].c] = 0]
          /\ answer' = [answer EXCEPT ![t] = Answer(TRUE, 0, 0)]
          /\ Reply(m, Answer(TRUE, 0, 0))
          /\ UNCHANGED <<made, egl_surfaces>>
      BY <1>11, <2>1 DEF RunDestroyContext, Reply, m, t
    <2>3. ContextInv'
      BY <1>1, <1>2, <2>1, <2>2, ContextCleared
    <2>4. SurfaceInv'
      <3>1. made'.draw >= made.draw /\ call[t].op # "createSurface"
        BY <1>4, <2>1, <2>2 DEF Frees
      <3> QED
        BY <1>6, <1>7, <2>2, <3>1
    <2> QED
      BY <2>3, <2>4
  <1>12. CASE RunDestroySurface(m)
    <2>1. /\ Frees(t, "destroySurface") /\ call[t].s = m.s /\ call[t].s \in Surf
      BY <1>2, <1>3, <1>12 DEF RunDestroySurface, Carries, Calls, Frees, ArgumentInv, m, t
    <2>2. /\ egl_surfaces' = [egl_surfaces EXCEPT ![call[t].s] = 0]
          /\ answer' = [answer EXCEPT ![t] = Answer(TRUE, 0, 0)]
          /\ Reply(m, Answer(TRUE, 0, 0))
          /\ UNCHANGED <<made, egl_contexts>>
      BY <1>12, <2>1 DEF RunDestroySurface, Reply, m, t
    <2>3. SurfaceInv'
      BY <1>1, <1>2, <2>1, <2>2, SurfaceCleared
    <2>4. ContextInv'
      <3>1. made'.ctx >= made.ctx /\ call[t].op # "createContext"
        BY <1>4, <2>1, <2>2 DEF Frees
      <3> QED
        BY <1>5, <1>7, <2>2, <3>1
    <2> QED
      BY <2>3, <2>4
  <1>13. ASSUME NEW granted \in BOOLEAN, RunMakeCurrent(m, granted)
         PROVE  ContextInv' /\ SurfaceInv'
    <2>1. m.op = "makeCurrent" /\ m.op \in Calls
      BY <1>13 DEF RunMakeCurrent, Calls
    <2> QED
      BY <1>8, <1>13, <2>1 DEF RunMakeCurrent
  <1>14. CASE RunReleaseThread(m)
    <2>1. m.op = "releaseThread" /\ m.op \in Calls
      BY <1>14 DEF RunReleaseThread, Calls
    <2> QED
      BY <1>8, <1>14, <2>1 DEF RunReleaseThread
  <1>15. CASE RunAsk(m)
    <2>1. m.op \in Calls /\ m.op \notin {"createContext", "createSurface"}
      BY <1>15 DEF RunAsk, Calls
    <2>2. \E of, n : Reply(m, Answer(TRUE, of, n))
      BY <1>15 DEF RunAsk
    <2>3. UNCHANGED <<egl_contexts, egl_surfaces, made>>
      BY <1>15 DEF RunAsk
    <2> QED
      BY <1>8, <2>1, <2>2, <2>3
  <1>16. CASE RunPost(m)
    <2>1. /\ \A u \in Threads : Same(u)
          /\ UNCHANGED <<egl_contexts, egl_surfaces, made>>
      BY <1>1, <1>16 DEF RunPost, Same
    <2>2. made'.ctx >= made.ctx /\ made'.draw >= made.draw
      BY <1>4, <2>1
    <2> QED
      BY <1>1, <2>1, <2>2, ContextStable, SurfaceStable
  <1> QED
    BY <1>9, <1>10, <1>11, <1>12, <1>13, <1>14, <1>15, <1>16 DEF Dispatch, m, Front

=============================================================================
