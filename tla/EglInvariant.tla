---------------------------- MODULE EglInvariant ----------------------------
(***************************************************************************)
(* The inductive invariant of EglContexts, in named parts: each part is    *)
(* preserved given itself and the parts before it.                         *)
(***************************************************************************)
EXTENDS EglContexts

Handle   == Ctx \cup {0}
Argument == Surf \cup Windows \cup {0}
Source   == Nat \cup Windows \cup {NoWindow}

Command   == [op : Kinds, t : Threads, ctx : Handle, c : Handle, s : Argument,
              want : Binding]
CallOf    == [op : Kinds \cup {"idle"}, c : Handle, s : Argument, floor : Nat]
AnswerOf  == [ok : BOOLEAN, of : Source, n : Nat,
              from : {"nowhere", "proxy", "cache"}]
CachedSize == [gen : Nat, of : Source, n : Nat]
CachedAge  == [surf : Surf \cup {0}, swaps : Nat, n : Nat, of : Source]

TypeInv ==
  /\ TypeOK
  /\ ring \in Seq(Command)
  /\ call \in [Threads -> CallOf] /\ answer \in [Threads -> AnswerOf]
  /\ qs_cache \in [Surf -> CachedSize] /\ age_cache \in CachedAge
  /\ made \in Binding
  /\ size \in [Windows -> Nat]
  /\ window \in Seq(Windows) /\ Len(window) = made.draw
  /\ swaps \in Seq(Nat) /\ Len(swaps) = made.draw
  /\ floor \in [size : [Windows -> Nat], swaps : [Surf -> Nat]]

-----------------------------------------------------------------------------
(* A thread in a blocking call has its command at the end of the ring.     *)
Waits(t)    == call[t].op \in Calls /\ answer[t] = NoAnswer
Answered(t) == answer[t] # NoAnswer
Carries(m)  == /\ call[m.t].op = m.op /\ call[m.t].c = m.c /\ call[m.t].s = m.s
               /\ ~Answered(m.t)

CallInv ==
  /\ \A k \in DOMAIN ring :
       ring[k].op \in Calls => k = Len(ring) /\ Carries(ring[k])
  /\ \A t \in Threads :
       Waits(t) => /\ ring # <<>> /\ ring[Len(ring)].t = t
                   /\ ring[Len(ring)].op = call[t].op
  /\ \A t \in Threads : Answered(t) => call[t].op \in Calls

(* What a command is about.                                                *)
ArgumentInv ==
  /\ \A t \in Threads :
       LET c == call[t].c  s == call[t].s IN
       /\ call[t].op = "destroyContext" => c \in Ctx
       /\ call[t].op = "destroySurface" => s \in Surf
       /\ call[t].op \in {"createSurface", "resize"} => s \in Windows
       /\ call[t].op \in Queries => s \in Surf
       /\ call[t].op = "makeCurrent" =>
            c \in Handle /\ s \in Surf \cup {0} /\ (c = 0 => s = 0)
  /\ \A k \in DOMAIN ring :
       /\ ring[k].op = "swap" => ring[k].s \in Surf
       /\ ring[k].op = "resize" => ring[k].s \in Windows

-----------------------------------------------------------------------------
(* A table of the proxy and the handles of the program: an entry belongs   *)
(* to a handle, or to a call that is about to give it away or to free it.  *)
Given(t, create) == call[t].op = create /\ answer[t].ok
Frees(t, destroy) == call[t].op = destroy /\ ~Answered(t)

TableInv(table, handle, top, create, destroy, Freed(_)) ==
  /\ \A i \in DOMAIN table : table[i] <= top
  /\ \A i, j \in DOMAIN table : i # j /\ table[i] # 0 => table[i] # table[j]
  /\ \A i \in DOMAIN table : handle[i] # 0 => table[i] = handle[i]
  /\ \A t \in Threads : Given(t, create) =>
       LET i == answer[t].of IN
       /\ i \in DOMAIN table /\ table[i] = answer[t].n
       /\ table[i] # 0 /\ handle[i] = 0
  /\ \A t, u \in Threads :
       Given(t, create) /\ Given(u, create) /\ t # u
         => answer[t].of # answer[u].of
  /\ \A t \in Threads : Frees(t, destroy) =>
       /\ table[Freed(t)] # 0 /\ handle[Freed(t)] = 0
       /\ \A u \in Threads : Given(u, create) => answer[u].of # Freed(t)

ContextOf(t) == call[t].c
SurfaceOf(t) == call[t].s
ContextInv == TableInv(egl_contexts, ctxOf, made.ctx,
                       "createContext", "destroyContext", ContextOf)
SurfaceInv == TableInv(egl_surfaces, surfOf, made.draw,
                       "createSurface", "destroySurface", SurfaceOf)

(* Entries are taken from the front and given back in time: the index of a *)
(* context is never above the number of contexts kept at a time.           *)
LimitInv ==
  /\ Live <= MaxLive
  /\ \A i \in Ctx : egl_contexts[i] # 0 =>
       \/ ctxOf[i] # 0
       \/ \E t \in Threads : Given(t, "createContext") /\ answer[t].of = i
       \/ \E t \in Threads : Frees(t, "destroyContext") /\ call[t].c = i
  /\ \A i \in Ctx : egl_contexts[i] # 0 => i <= MaxLive

-----------------------------------------------------------------------------
(* last[] says what the thread has made current; nobody else has it.       *)
Binds(t)   == call[t].op = "makeCurrent"
Exists(c, s) == /\ c # 0 => ctxOf[c] # 0
                /\ s # 0 => surfOf[s] # 0

LastOf(t) ==
  /\ IF last[t] = <<>>
       THEN app[t] = None
       ELSE LET c == last[t][1]  s == last[t][2] IN
            /\ app[t] = Bound(c, s) /\ Exists(c, s) /\ (c = 0 => s = 0)
            /\ ~Binds(t) => g_stub_current_ctx[t] = c
  /\ Binds(t) => /\ Exists(call[t].c, call[t].s)
                 /\ g_stub_current_ctx[t] = call[t].c
  /\ call[t].op \in Queries => Exists(0, call[t].s)
  /\ call[t].op = "getCurrent" => app[t] # None
LastInv == \A t \in Threads : LastOf(t)

Held(t) == ((IF last[t] = <<>> THEN {} ELSE {last[t][1]})
              \cup (IF Binds(t) THEN {call[t].c} ELSE {})) \ {0}
OwnInv == \A t, u \in Threads : t # u => Held(t) \cap Held(u) = {}

(* What the proxy keeps of a context that a thread has bound, or will have *)
(* bound when its call is back.                                            *)
Rebound(t) == Binds(t) /\ Answered(t)
Claims(t, c, s) ==
  \/ app[t] # None /\ ~Rebound(t) /\ last[t] = <<c, s>>
  \/ Rebound(t) /\ answer[t].ok /\ call[t].c = c /\ call[t].s = s
Keeps(c, b) ==
  /\ g_ctx_bindings[c] = [valid |-> TRUE, draw |-> b.draw]
  /\ g_current_ctx = c => cur = b
KeptInv ==
  \A t \in Threads, c \in Ctx, s \in Surf \cup {0} :
    Claims(t, c, s) => Keeps(c, Bound(c, s))

(* A command that draws, or asks, carries what its thread has current.     *)
DrawInv ==
  \A k \in DOMAIN ring :
    LET m == ring[k] IN
    m.op \in {"gl", "getCurrent"} =>
      /\ app[m.t] # None /\ ~Rebound(m.t)
      /\ m.want = app[m.t] /\ m.ctx = last[m.t][1]

(* eglGetCurrentContext() has found the index of the thread's own context. *)
CurrentInv ==
  \A t \in Threads : Answered(t) /\ call[t].op = "getCurrent" =>
    answer[t].of \in Ctx /\ ctxOf[answer[t].of] = app[t].ctx

-----------------------------------------------------------------------------
(* What the program knows to be over has happened, or is under way.        *)
Places(o, s) == {k \in DOMAIN ring : ring[k].op = o /\ ring[k].s = s}
Underway(o, s) == Cardinality(Places(o, s))
Resizers(w) == {t \in Threads : call[t].op = "resize" /\ call[t].s = w}

FloorInv ==
  /\ \A w \in Windows :
       floor.size[w] + Cardinality(Resizers(w)) <= size[w] + Underway("resize", w)
  /\ \A s \in Surf : surfOf[s] # 0 =>
       floor.swaps[s] <= swaps[surfOf[s]] + Underway("swap", s)

Reports(o, s, of, n) ==
  /\ of = IF o = "querySize" THEN window[surfOf[s]] ELSE surfOf[s]
  /\ n >= KnownOf(o, s)

ApartInv ==
  \A t, u \in Threads :
    t # u => ~(call[t].op \in Queries /\ call[u].op \in Changes)

CacheInv ==
  /\ \A s \in Surf :
       /\ qs_cache[s].gen <= g_surface_gen
       /\ qs_cache[s].gen = g_surface_gen =>
            surfOf[s] # 0 /\ Reports("querySize", s, qs_cache[s].of, qs_cache[s].n)
  /\ age_cache.swaps <= g_swap_count /\ g_swap_count > 0
  /\ age_cache.swaps = g_swap_count =>
       /\ age_cache.surf # 0 /\ surfOf[age_cache.surf] # 0
       /\ Reports("queryAge", age_cache.surf, age_cache.of, age_cache.n)

AskOf(t) ==
  call[t].op \in Queries =>
    /\ call[t].floor = KnownOf(call[t].op, call[t].s)
    /\ Answered(t) => Reports(call[t].op, call[t].s, answer[t].of, answer[t].n)
AskInv == \A t \in Threads : AskOf(t)

FreshInv == FloorInv /\ (Exclusive => ApartInv /\ CacheInv /\ AskInv)

-----------------------------------------------------------------------------
(* Everything that must hold between two steps of program and proxy: one   *)
(* blocking call at a time, handles that stand for one object, bindings    *)
(* the proxy can go back to, and caches that are not older than what the   *)
(* program knows.                                                          *)
EglInv ==
  /\ TypeInv /\ CallInv /\ ArgumentInv
  /\ ContextInv /\ SurfaceInv /\ LimitInv
  /\ LastInv /\ OwnInv /\ KeptInv /\ DrawInv
  /\ MaxLive < MAX_CONTEXTS => CurrentInv
  /\ FreshInv
=============================================================================
