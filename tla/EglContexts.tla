---------------------------- MODULE EglContexts ----------------------------
(***************************************************************************)
(* EGL contexts and surfaces over the bridge.  The threads of the 64-bit   *)
(* program share one proxy thread, so the proxy re-binds the context of    *)
(* the issuing thread before it runs a command.  The stub skips            *)
(* eglMakeCurrent() calls it takes for redundant and answers some          *)
(* eglQuerySurface() calls from a cache.                                   *)
(*                                                                         *)
(* Handles are indices into the proxy's tables; the driver's objects are   *)
(* numbered in the order they are made and their numbers are not reused.   *)
(* Commands travel in the order of BridgeRing; bridge_send_call() keeps    *)
(* g_lock until the answer is there, so one blocking call at a time.  One  *)
(* display, and read surface = draw surface.                               *)
(***************************************************************************)
EXTENDS Naturals, Sequences, FiniteSets

CONSTANTS Threads,        \* threads of the program
          MAX_CONTEXTS,   \* entries of the context tables of stub and proxy
          MAX_SURFACES,   \* entries of the proxy's surface table
          Windows, NoWindow,  \* wl_egl_window slots
          MaxLive,        \* contexts the program keeps at a time
          RingBound,      \* commands under way at a time
          Workloads,      \* how many calls of each kind the program makes
          Exclusive       \* the program serialises queries and changes of
                          \* surfaces

Calls    == {"createContext", "destroyContext", "createSurface",
             "destroySurface", "makeCurrent", "releaseThread",
             "getCurrent", "querySize", "queryAge"}
Posts    == {"gl", "swap", "resize"}
Kinds    == Calls \cup Posts
Queries  == {"querySize", "queryAge"}
Changes  == {"createSurface", "destroySurface", "resize", "swap"}

ASSUME EglAssumption ==
  /\ IsFiniteSet(Threads)
  /\ MAX_CONTEXTS \in Nat \ {0} /\ MAX_SURFACES \in Nat \ {0}
  /\ MaxLive \in 0 .. MAX_CONTEXTS /\ RingBound \in Nat \ {0}
  /\ Workloads \subseteq [Kinds -> Nat] /\ Exclusive \in BOOLEAN

VARIABLES
  g_stub_current_ctx,  \* per thread (__thread)
  last,                \* eglMakeCurrent()'s last_draw, last_context, have_last
  g_surface_gen, g_swap_count,
  qs_cache,            \* per surface index: the size and its generation
  age_cache,           \* one buffer age
  call, answer,        \* what each thread is doing
  ring,                \* commands under way
  egl_contexts, egl_surfaces, g_ctx_bindings, g_current_ctx,
  made,                \* driver: number of contexts and surfaces ever made
  cur,                 \* driver: what is current in the proxy's thread
  size, swaps,         \* driver: resizes of a window, swaps of a surface
  window,              \* driver: the window of a surface
  app, ctxOf, surfOf,  \* the program: bindings, what its handles stand for
  floor,               \* the program: what it knows of sizes and swaps
  left,                \* the program: calls it still makes
  acted                \* what the last drawing command acted on

cacheVars  == <<g_surface_gen, g_swap_count, qs_cache, age_cache>>
proxyVars  == <<egl_contexts, egl_surfaces, g_ctx_bindings, g_current_ctx>>
driverVars == <<made, cur, size, swaps, window>>
appVars    == <<app, ctxOf, surfOf, floor>>
vars == <<g_stub_current_ctx, last, cacheVars, call, answer, ring, proxyVars,
          driverVars, appVars, left, acted>>

Ctx  == 1 .. MAX_CONTEXTS
Surf == 1 .. MAX_SURFACES
None == [ctx |-> 0, draw |-> 0]
Idle == [op |-> "idle", c |-> 0, s |-> 0, floor |-> 0]
NoAnswer == [ok |-> FALSE, of |-> 0, n |-> 0, from |-> "nowhere"]
Answer(ok, of, n) == [ok |-> ok, of |-> of, n |-> n, from |-> "proxy"]

Init ==
  /\ g_stub_current_ctx = [t \in Threads |-> 0]
  /\ last = [t \in Threads |-> <<>>]
  /\ g_surface_gen = 1 /\ g_swap_count = 1
  /\ qs_cache = [s \in Surf |-> [gen |-> 0, of |-> NoWindow, n |-> 0]]
  /\ age_cache = [surf |-> 0, swaps |-> 0, n |-> 0, of |-> 0]
  /\ call = [t \in Threads |-> Idle]
  /\ answer = [t \in Threads |-> NoAnswer]
  /\ ring = <<>>
  /\ egl_contexts = [i \in Ctx |-> 0]
  /\ egl_surfaces = [i \in Surf |-> 0]
  /\ g_ctx_bindings = [i \in Ctx |-> [valid |-> FALSE, draw |-> 0]]
  /\ g_current_ctx = 0
  /\ made = [ctx |-> 0, draw |-> 0]
  /\ cur = None
  /\ size = [w \in Windows |-> 0]
  /\ swaps = <<>> /\ window = <<>>
  /\ app = [t \in Threads |-> None]
  /\ ctxOf = [i \in Ctx |-> 0] /\ surfOf = [i \in Surf |-> 0]
  /\ floor = [size |-> [w \in Windows |-> 0], swaps |-> [s \in Surf |-> 0]]
  /\ left \in Workloads
  /\ acted = None

-----------------------------------------------------------------------------
(* The program.  It destroys and re-binds only what no thread uses.        *)

Uses(u, c, s) ==
  \/ c # 0 /\ \/ app[u].ctx = ctxOf[c]
              \/ call[u].op = "makeCurrent" /\ call[u].c = c
  \/ s # 0 /\ \/ app[u].draw = surfOf[s]
              \/ call[u].op \in Queries \cup {"makeCurrent"} /\ call[u].s = s
InUse(c, s) == \E u \in Threads : Uses(u, c, s)
Others(t, c, s) == \E u \in Threads \ {t} : Uses(u, c, s)
Live == Cardinality({c \in Ctx : ctxOf[c] # 0})
          + Cardinality({t \in Threads : call[t].op = "createContext"})

Apart(t, o) ==
  ~Exclusive \/ \A u \in Threads \ {t} :
                  ~ \/ o \in Queries /\ call[u].op \in Changes
                    \/ o \in Changes /\ call[u].op \in Queries

Sensible(t, o, c, s) ==
  CASE o = "createContext"  -> Live < MaxLive /\ c = 0 /\ s = 0
    [] o = "destroyContext" -> c # 0 /\ s = 0 /\ ctxOf[c] # 0 /\ ~InUse(c, 0)
    [] o = "createSurface"  -> c = 0 /\ s \in Windows
    [] o = "destroySurface" -> c = 0 /\ s # 0 /\ surfOf[s] # 0 /\ ~InUse(0, s)
    [] o = "makeCurrent"    -> \/ c = 0 /\ s = 0
                               \/ /\ c # 0 /\ ctxOf[c] # 0
                                  /\ s # 0 => surfOf[s] # 0
                                  /\ ~Others(t, c, s)
    [] o = "releaseThread"  -> app[t] = None /\ c = 0 /\ s = 0
    [] o \in {"getCurrent", "gl"} -> app[t] # None /\ c = 0 /\ s = 0
    [] o \in Queries -> c = 0 /\ s # 0 /\ surfOf[s] # 0
    [] o = "swap"    -> /\ app[t] # None /\ c = 0 /\ s # 0
                        /\ surfOf[s] # 0 /\ surfOf[s] = app[t].draw
    [] o = "resize"  -> c = 0 /\ s \in Windows

-----------------------------------------------------------------------------
(* The stub.  g_lock is held from BRIDGE_BEGIN() to the answer.            *)

Locked == \E t \in Threads : call[t].op \in Calls /\ answer[t] = NoAnswer

Starts(t, o, c, s) ==
  /\ call[t] = Idle /\ left[o] > 0
  /\ Sensible(t, o, c, s) /\ Apart(t, o)
  /\ left' = [left EXCEPT ![o] = @ - 1]

(* MUTANT: the ring has always room                                        *)
PostAtOnce(t, o, c, s) ==
  /\ ~Locked
  /\ ring' = Append(ring, [op |-> o, t |-> t, ctx |-> g_stub_current_ctx[t],
                           c |-> c, s |-> s, want |-> app[t]])

(* bridge_begin() stamps the command with the thread's context.            *)
Post(t, o, c, s) ==
  /\ ~Locked
  /\ Len(ring) < RingBound
  /\ ring' = Append(ring, [op |-> o, t |-> t, ctx |-> g_stub_current_ctx[t],
                           c |-> c, s |-> s, want |-> app[t]])

KnownOf(o, s) == IF o = "querySize" THEN floor.size[window[surfOf[s]]]
                                    ELSE floor.swaps[s]

Enter(t, o, c, s) ==
  call' = [call EXCEPT ![t] =
             [op |-> o, c |-> c, s |-> s,
              floor |-> IF o \in Queries THEN KnownOf(o, s) ELSE 0]]

(* Calls that only pack their arguments.                                   *)
Plain == {"createContext", "releaseThread", "getCurrent"}
PlainCall(t, o) ==
  /\ o \in Plain
  /\ Starts(t, o, 0, 0) /\ Post(t, o, 0, 0) /\ Enter(t, o, 0, 0)
  /\ UNCHANGED <<g_stub_current_ctx, last, cacheVars, answer, proxyVars,
                 driverVars, appVars, acted>>

(* A handle is no longer the program's once it is given to a destroying    *)
(* call: another thread may be handed the same index before that call is   *)
(* back.                                                                   *)
DestroyContext(t, c) ==
  /\ Starts(t, "destroyContext", c, 0) /\ Post(t, "destroyContext", c, 0)
  /\ Enter(t, "destroyContext", c, 0)
  /\ ctxOf' = [ctxOf EXCEPT ![c] = 0]
  /\ UNCHANGED <<g_stub_current_ctx, last, cacheVars, answer, proxyVars,
                 driverVars, app, surfOf, floor, acted>>

GLCommand(t) ==
  /\ Starts(t, "gl", 0, 0) /\ Post(t, "gl", 0, 0)
  /\ UNCHANGED <<g_stub_current_ctx, last, cacheVars, call, answer, proxyVars,
                 driverVars, appVars, acted>>

CreateWindowSurface(t, w) ==
  /\ Starts(t, "createSurface", 0, w) /\ Post(t, "createSurface", 0, w)
  /\ Enter(t, "createSurface", 0, w)
  /\ g_surface_gen' = g_surface_gen + 1
  /\ UNCHANGED <<g_stub_current_ctx, last, g_swap_count, qs_cache, age_cache,
                 answer, proxyVars, driverVars, appVars, acted>>

DestroySurface(t, s) ==
  /\ Starts(t, "destroySurface", 0, s) /\ Post(t, "destroySurface", 0, s)
  /\ Enter(t, "destroySurface", 0, s)
  /\ g_surface_gen' = g_surface_gen + 1
  /\ age_cache' = [age_cache EXCEPT !.swaps = 0]
  /\ surfOf' = [surfOf EXCEPT ![s] = 0]
  /\ UNCHANGED <<g_stub_current_ctx, last, g_swap_count, qs_cache, answer,
                 proxyVars, driverVars, app, ctxOf, floor, acted>>

Bound(c, s) == [ctx |-> IF c = 0 THEN 0 ELSE ctxOf[c],
                draw |-> IF s = 0 THEN 0 ELSE surfOf[s]]

(* The same arguments as in the thread's last successful call: no call.    *)
MakeCurrentAgain(t, c, s) ==
  /\ last[t] = <<c, s>>
  /\ Starts(t, "makeCurrent", c, s)
  /\ g_stub_current_ctx' = [g_stub_current_ctx EXCEPT ![t] = c]
  /\ app' = [app EXCEPT ![t] = Bound(c, s)]
  /\ UNCHANGED <<last, cacheVars, call, answer, ring, proxyVars, driverVars,
                 ctxOf, surfOf, floor, acted>>

MakeCurrent(t, c, s) ==
  /\ last[t] # <<c, s>>
  /\ Starts(t, "makeCurrent", c, s) /\ Post(t, "makeCurrent", c, s)
  /\ Enter(t, "makeCurrent", c, s)
  /\ g_stub_current_ctx' = [g_stub_current_ctx EXCEPT ![t] = c]
  /\ UNCHANGED <<last, cacheVars, answer, proxyVars, driverVars, appVars,
                 acted>>

(* The counter moves first; bridge_send_swap() waits for older frames only. *)
SwapBuffers(t, s) ==
  /\ Starts(t, "swap", 0, s) /\ Post(t, "swap", 0, s)
  /\ g_swap_count' = g_swap_count + 1
  /\ floor' = [floor EXCEPT !.swaps[s] = @ + 1]
  /\ UNCHANGED <<g_stub_current_ctx, last, g_surface_gen, qs_cache, age_cache,
                 call, answer, proxyVars, driverVars, app, ctxOf, surfOf,
                 acted>>

(* wl_egl_window_resize() sends first and moves the generation afterwards.  *)
Resize(t, w) ==
  /\ Starts(t, "resize", 0, w) /\ Post(t, "resize", 0, w)
  /\ Enter(t, "resize", 0, w)
  /\ UNCHANGED <<g_stub_current_ctx, last, cacheVars, answer, proxyVars,
                 driverVars, appVars, acted>>

(* MUTANT: a resize does not move the generation                           *)
ResizedQuietly(t) ==
  /\ call[t].op = "resize"
  /\ floor' = [floor EXCEPT !.size[call[t].s] = @ + 1]
  /\ call' = [call EXCEPT ![t] = Idle]
  /\ UNCHANGED <<g_stub_current_ctx, last, cacheVars, answer, ring, proxyVars,
                 driverVars, app, ctxOf, surfOf, left, acted>>

Resized(t) ==
  /\ call[t].op = "resize"
  /\ g_surface_gen' = g_surface_gen + 1
  /\ floor' = [floor EXCEPT !.size[call[t].s] = @ + 1]
  /\ call' = [call EXCEPT ![t] = Idle]
  /\ UNCHANGED <<g_stub_current_ctx, last, g_swap_count, qs_cache, age_cache,
                 answer, ring, proxyVars, driverVars, app, ctxOf, surfOf,
                 left, acted>>

(* eglQuerySurface(): a size is good for its generation, the one buffer    *)
(* age for its surface and number of swaps.                                *)
Cached(o, s) == IF o = "querySize"
                  THEN qs_cache[s].gen = g_surface_gen
                  ELSE age_cache.swaps = g_swap_count /\ age_cache.surf = s
Kept(o, s) == IF o = "querySize" THEN qs_cache[s] ELSE age_cache

QueryHit(t, o, s) ==
  /\ o \in Queries /\ Cached(o, s)
  /\ Starts(t, o, 0, s) /\ Enter(t, o, 0, s)
  /\ answer' = [answer EXCEPT ![t] = [ok |-> TRUE, of |-> Kept(o, s).of,
                                      n |-> Kept(o, s).n, from |-> "cache"]]
  /\ UNCHANGED <<g_stub_current_ctx, last, cacheVars, ring, proxyVars,
                 driverVars, appVars, acted>>

QueryMiss(t, o, s) ==
  /\ o \in Queries /\ ~Cached(o, s)
  /\ Starts(t, o, 0, s) /\ Post(t, o, 0, s) /\ Enter(t, o, 0, s)
  /\ UNCHANGED <<g_stub_current_ctx, last, cacheVars, answer, proxyVars,
                 driverVars, appVars, acted>>

-----------------------------------------------------------------------------
(* A call comes back, with g_lock long dropped.                            *)

Back(t, o) == call[t].op = o /\ answer[t] # NoAnswer
Done(t) == /\ call' = [call EXCEPT ![t] = Idle]
           /\ answer' = [answer EXCEPT ![t] = NoAnswer]
           /\ UNCHANGED <<ring, proxyVars, driverVars, left, acted>>

(* The answer is stored with the generation, or the number of swaps, that  *)
(* holds by now.                                                           *)
ReturnQuery(t, o) ==
  /\ o \in Queries /\ Back(t, o) /\ Done(t)
  /\ qs_cache' = IF o = "querySize" /\ answer[t].from = "proxy"
                   THEN [qs_cache EXCEPT ![call[t].s] =
                           [gen |-> g_surface_gen, of |-> answer[t].of,
                            n |-> answer[t].n]]
                   ELSE qs_cache
  /\ age_cache' = IF o = "queryAge" /\ answer[t].from = "proxy"
                    THEN [surf |-> call[t].s, swaps |-> g_swap_count,
                          n |-> answer[t].n, of |-> answer[t].of]
                    ELSE age_cache
  /\ UNCHANGED <<g_stub_current_ctx, last, g_surface_gen, g_swap_count,
                 appVars>>

ReturnCreate(t, o) ==
  /\ o \in {"createContext", "createSurface"} /\ Back(t, o) /\ Done(t)
  /\ LET i == answer[t].of
     IN  IF o = "createContext"
           THEN /\ ctxOf' = IF answer[t].ok
                              THEN [ctxOf EXCEPT ![i] = answer[t].n] ELSE ctxOf
                /\ UNCHANGED <<surfOf, floor>>
           ELSE /\ surfOf' = IF answer[t].ok
                               THEN [surfOf EXCEPT ![i] = answer[t].n]
                               ELSE surfOf
                /\ floor' = IF answer[t].ok
                              THEN [floor EXCEPT !.swaps[i] = 0] ELSE floor
                /\ UNCHANGED ctxOf
  /\ UNCHANGED <<g_stub_current_ctx, last, cacheVars, app>>

(* MUTANT: a refused call counts as the last one                           *)
ReturnMakeCurrentTrusting(t) ==
  /\ Back(t, "makeCurrent") /\ Done(t)
  /\ LET c == call[t].c  s == call[t].s
     IN  /\ last' = [last EXCEPT ![t] = <<c, s>>]
         /\ app' = [app EXCEPT ![t] = IF answer[t].ok THEN Bound(c, s) ELSE None]
  /\ age_cache' = [age_cache EXCEPT !.swaps = 0]
  /\ UNCHANGED <<g_stub_current_ctx, g_surface_gen, g_swap_count, qs_cache,
                 ctxOf, surfOf, floor>>

(* After a refusal the program draws no more in this thread until it has   *)
(* made a context current again.                                           *)
ReturnMakeCurrent(t) ==
  /\ Back(t, "makeCurrent") /\ Done(t)
  /\ LET c == call[t].c  s == call[t].s
     IN  /\ last' = [last EXCEPT ![t] = IF answer[t].ok THEN <<c, s>> ELSE <<>>]
         /\ app' = [app EXCEPT ![t] = IF answer[t].ok THEN Bound(c, s) ELSE None]
  /\ age_cache' = [age_cache EXCEPT !.swaps = 0]
  /\ UNCHANGED <<g_stub_current_ctx, g_surface_gen, g_swap_count, qs_cache,
                 ctxOf, surfOf, floor>>

(* eglReleaseThread() leaves g_stub_current_ctx and the last_* values.     *)
Leaves == {"destroyContext", "destroySurface", "releaseThread", "getCurrent"}
ReturnPlain(t, o) ==
  /\ o \in Leaves /\ Back(t, o) /\ Done(t)
  /\ UNCHANGED <<g_stub_current_ctx, last, cacheVars, appVars>>

-----------------------------------------------------------------------------
(* The proxy.                                                              *)

Lowest(S)    == CHOOSE i \in S : \A j \in S : i <= j
FreeEntries(table) == {i \in DOMAIN table : table[i] = 0}

(* MUTANT: takes an entry in use                                           *)
TableAllocLast(table) == IF FreeEntries(table) = {} THEN Cardinality(DOMAIN table)
                                                  ELSE Lowest(FreeEntries(table))

TableAlloc(table) == IF FreeEntries(table) = {} THEN 0
                                               ELSE Lowest(FreeEntries(table))

Real(table, i) == IF i = 0 THEN 0 ELSE table[i]

(* MUTANT: the comparison with the current context the wrong way round     *)
RebindsTheSame(m) ==
  /\ m.op # "makeCurrent"
  /\ m.ctx # 0 /\ m.ctx = g_current_ctx /\ m.ctx < MAX_CONTEXTS
  /\ g_ctx_bindings[m.ctx].valid /\ egl_contexts[m.ctx] # 0

(* egl_bind_target_ctx(): runs before every command but eglMakeCurrent.    *)
Rebinds(m) ==
  /\ m.op # "makeCurrent"
  /\ m.ctx \notin {0, g_current_ctx} /\ m.ctx < MAX_CONTEXTS
  /\ g_ctx_bindings[m.ctx].valid /\ egl_contexts[m.ctx] # 0

Selected(m) == IF Rebinds(m) THEN m.ctx ELSE g_current_ctx
CurFor(m) == IF Rebinds(m) THEN [ctx  |-> egl_contexts[m.ctx],
                                 draw |-> g_ctx_bindings[m.ctx].draw]
                           ELSE cur
FollowThread(m) == g_current_ctx' = Selected(m) /\ cur' = CurFor(m)

Reply(m, a) == answer' = [answer EXCEPT ![m.t] = a]

RunCreateContext(m, granted) ==
  LET i == TableAlloc(egl_contexts)  obj == made.ctx + 1 IN
  /\ m.op = "createContext" /\ FollowThread(m)
  /\ IF granted
       THEN /\ made' = [made EXCEPT !.ctx = obj]
            /\ egl_contexts' = IF i = 0 THEN egl_contexts
                                         ELSE [egl_contexts EXCEPT ![i] = obj]
            /\ Reply(m, Answer(i # 0, i, obj))
       ELSE /\ Reply(m, Answer(FALSE, 0, 0))
            /\ UNCHANGED <<made, egl_contexts>>
  /\ UNCHANGED <<egl_surfaces, g_ctx_bindings, size, swaps, window, acted>>

RunDestroyContext(m) ==
  /\ m.op = "destroyContext" /\ FollowThread(m)
  /\ egl_contexts' = [egl_contexts EXCEPT ![m.c] = 0]
  /\ g_ctx_bindings' = [g_ctx_bindings EXCEPT ![m.c].valid = FALSE]
  /\ Reply(m, Answer(TRUE, 0, 0))
  /\ UNCHANGED <<egl_surfaces, made, size, swaps, window, acted>>

RunCreateSurface(m, granted) ==
  LET i == TableAlloc(egl_surfaces)  obj == made.draw + 1 IN
  /\ m.op = "createSurface" /\ FollowThread(m)
  /\ IF granted
       THEN /\ made' = [made EXCEPT !.draw = obj]
            /\ window' = Append(window, m.s) /\ swaps' = Append(swaps, 0)
            /\ egl_surfaces' = IF i = 0 THEN egl_surfaces
                                         ELSE [egl_surfaces EXCEPT ![i] = obj]
            /\ Reply(m, Answer(i # 0, i, obj))
       ELSE /\ Reply(m, Answer(FALSE, 0, 0))
            /\ UNCHANGED <<made, window, swaps, egl_surfaces>>
  /\ UNCHANGED <<egl_contexts, g_ctx_bindings, size, acted>>

(* "Don't re-bind a context to a dead surface later."                      *)
Unbound(obj) == [i \in Ctx |-> IF g_ctx_bindings[i].draw = obj
                                 THEN [g_ctx_bindings[i] EXCEPT !.draw = 0]
                                 ELSE g_ctx_bindings[i]]

RunDestroySurface(m) ==
  /\ m.op = "destroySurface" /\ FollowThread(m)
  /\ egl_surfaces' = [egl_surfaces EXCEPT ![m.s] = 0]
  /\ g_ctx_bindings' = Unbound(egl_surfaces[m.s])
  /\ Reply(m, Answer(TRUE, 0, 0))
  /\ UNCHANGED <<egl_contexts, made, size, swaps, window, acted>>

RunMakeCurrent(m, granted) ==
  LET obj == [ctx |-> Real(egl_contexts, m.c), draw |-> Real(egl_surfaces, m.s)]
  IN
  /\ m.op = "makeCurrent" /\ (granted \/ m.c # 0)
  /\ Reply(m, Answer(granted, 0, 0))
  /\ IF granted
       THEN /\ cur' = obj /\ g_current_ctx' = m.c
            /\ g_ctx_bindings' =
                 IF m.c = 0 THEN g_ctx_bindings
                            ELSE [g_ctx_bindings EXCEPT ![m.c] =
                                    [valid |-> TRUE, draw |-> obj.draw]]
       ELSE UNCHANGED <<cur, g_current_ctx, g_ctx_bindings>>
  /\ UNCHANGED <<egl_contexts, egl_surfaces, made, size, swaps, window, acted>>

RunReleaseThread(m) ==
  /\ m.op = "releaseThread"
  /\ cur' = None /\ g_current_ctx' = 0
  /\ Reply(m, Answer(TRUE, 0, 0))
  /\ UNCHANGED <<egl_contexts, egl_surfaces, g_ctx_bindings, made, size, swaps,
                 window, acted>>

IndexOf(obj) == IF obj = 0 THEN 0
                ELSE LET Is == {i \in Ctx : egl_contexts[i] = obj}
                     IN  IF Is = {} THEN 0 ELSE Lowest(Is)

RunAsk(m) ==
  /\ m.op \in {"getCurrent", "querySize", "queryAge"} /\ FollowThread(m)
  /\ LET obj == egl_surfaces[m.s] IN
     CASE m.op = "getCurrent" -> Reply(m, Answer(TRUE, IndexOf(CurFor(m).ctx), 0))
       [] m.op = "querySize"  -> Reply(m, Answer(TRUE, window[obj], size[window[obj]]))
       [] m.op = "queryAge"   -> Reply(m, Answer(TRUE, obj, swaps[obj]))
  /\ UNCHANGED <<egl_contexts, egl_surfaces, g_ctx_bindings, made, size, swaps,
                 window, acted>>

RunPost(m) ==
  /\ m.op \in Posts /\ FollowThread(m)
  /\ acted' = IF m.op = "gl" THEN CurFor(m) ELSE acted
  /\ swaps' = IF m.op = "swap" THEN [swaps EXCEPT ![egl_surfaces[m.s]] = @ + 1]
                               ELSE swaps
  /\ size' = IF m.op = "resize" THEN [size EXCEPT ![m.s] = @ + 1] ELSE size
  /\ UNCHANGED <<answer, egl_contexts, egl_surfaces, g_ctx_bindings, made,
                 window>>

Dispatch ==
  /\ ring # <<>>
  /\ ring' = Tail(ring)
  /\ LET m == Head(ring) IN
     \/ \E granted \in BOOLEAN : \/ RunCreateContext(m, granted)
                                \/ RunCreateSurface(m, granted)
                                \/ RunMakeCurrent(m, granted)
     \/ RunDestroyContext(m) \/ RunDestroySurface(m) \/ RunReleaseThread(m)
     \/ RunAsk(m) \/ RunPost(m)
  /\ UNCHANGED <<g_stub_current_ctx, last, cacheVars, call, appVars, left>>

-----------------------------------------------------------------------------

Call(t) ==
  \/ \E o \in Plain : PlainCall(t, o)
  \/ \E c \in Ctx : DestroyContext(t, c)
  \/ \E w \in Windows : CreateWindowSurface(t, w) \/ Resize(t, w)
  \/ \E s \in Surf : DestroySurface(t, s) \/ SwapBuffers(t, s)
  \/ \E s \in Surf, o \in Queries : QueryHit(t, o, s) \/ QueryMiss(t, o, s)
  \/ \E c \in Ctx \cup {0}, s \in Surf \cup {0} :
       MakeCurrentAgain(t, c, s) \/ MakeCurrent(t, c, s)
  \/ GLCommand(t)

Comes(t) ==
  \/ \E o \in Kinds : ReturnQuery(t, o) \/ ReturnCreate(t, o) \/ ReturnPlain(t, o)
  \/ ReturnMakeCurrent(t) \/ Resized(t)

Next == Dispatch \/ \E t \in Threads : Call(t) \/ Comes(t)
Spec == Init /\ [][Next]_vars

-----------------------------------------------------------------------------
(* Properties.                                                             *)

Objects == Nat
Binding == [ctx : Objects, draw : Objects]

(* Indices stay within the tables, whatever the program makes, destroys    *)
(* and makes current.                                                      *)
TypeOK ==
  /\ g_stub_current_ctx \in [Threads -> Ctx \cup {0}]
  /\ last \in [Threads -> {<<>>} \cup (Ctx \cup {0}) \X (Surf \cup {0})]
  /\ g_surface_gen \in Nat /\ g_swap_count \in Nat
  /\ egl_contexts \in [Ctx -> Objects] /\ egl_surfaces \in [Surf -> Objects]
  /\ g_ctx_bindings \in [Ctx -> [valid : BOOLEAN, draw : Objects]]
  /\ g_current_ctx \in Ctx \cup {0}
  /\ cur \in Binding /\ acted \in Binding /\ app \in [Threads -> Binding]
  /\ ctxOf \in [Ctx -> Objects] /\ surfOf \in [Surf -> Objects]
  /\ Len(ring) <= RingBound
  /\ left \in [Kinds -> Nat]

(* A handle stands for the same object to program and proxy until the      *)
(* program destroys it, although indices are reused and threads create and *)
(* destroy at the same time; and a context bound by a thread keeps a       *)
(* recorded binding to re-bind it with.                                    *)
HandlesHold ==
  /\ \A i \in Ctx : ctxOf[i] # 0 => egl_contexts[i] = ctxOf[i]
  /\ \A i \in Surf : surfOf[i] # 0 => egl_surfaces[i] = surfOf[i]
  /\ \A t \in Threads, i \in Ctx :
       app[t] # None /\ ctxOf[i] = app[t].ctx /\ call[t].op # "makeCurrent"
         => g_ctx_bindings[i] = [valid |-> TRUE, draw |-> app[t].draw]

(* Every drawing command acts on the context and surface current in the    *)
(* thread that issued it, in order (egl_bind_target_ctx()).                *)
Wants == [k \in DOMAIN ring |-> IF ring[k].op = "gl" THEN ring[k].want ELSE None]
CC == INSTANCE CurrentContext
        WITH Bindings <- Binding, current <- app, pending <- Wants
ImplementsCurrentContext == CC!CCSpec

(* eglQuerySurface() names the right window or surface, and counts all     *)
(* resizes and swaps that were over when it was called, from the cache or  *)
(* not.                                                                    *)
QueryFresh ==
  \A t \in Threads :
    answer[t] # NoAnswer /\ call[t].op \in Queries =>
      /\ answer[t].n >= call[t].floor
      /\ answer[t].of = IF call[t].op = "querySize"
                          THEN window[surfOf[call[t].s]] ELSE surfOf[call[t].s]

(* eglGetCurrentContext() names the context of the thread that asks, not   *)
(* of the one whose commands the proxy ran last.                           *)
CurrentIsOwn ==
  \A t \in Threads :
    answer[t] # NoAnswer /\ call[t].op = "getCurrent"
      => answer[t].of # 0 /\ ctxOf[answer[t].of] = app[t].ctx
=============================================================================
