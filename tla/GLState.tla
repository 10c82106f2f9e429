------------------------------ MODULE GLState ------------------------------
(***************************************************************************)
(* The copies of GL state the bridge keeps to save calls.  The stub shadows *)
(* every context and does not send a call that sets what is set already;   *)
(* the proxy keeps, per context, which texture every framebuffer has       *)
(* attached and the index buffer of every vertex array, which it binds     *)
(* again whenever the array is bound.                                      *)
(*                                                                         *)
(* "cap" stands for the values with a default that are compared as a whole *)
(* (capabilities, blend, depth and colour state, front face, program),     *)
(* "view" for viewport and scissor, GL_ARRAY_BUFFER for the bindings kept  *)
(* in stub_gl_state.  Commands take effect in the order they are sent and  *)
(* in the context of their thread (BridgeRing, EglContexts): sending and   *)
(* running one is a single step here, noting it in the shadow another.     *)
(***************************************************************************)
EXTENDS GLDriver, FiniteSetsExt

CONSTANTS Threads, MAX_CONTEXTS,
          CacheEntries,  \* FBO_CACHE_ENTRIES
          Workloads,     \* how many calls of each kind the program makes
          Habits         \* what the program does that the shadow is not made
                         \* for, see Sensible

Contexts == 1 .. MAX_CONTEXTS
Ops == {"cap", "view", "active", "bindTex", "bindSmp", "bindFb", "bindVao",
        "bindArray", "bindEbo", "attach", "attachRb"}
         \cup DOMAIN GenOf \cup DOMAIN DelOf
EglOps == {"create", "destroy", "current"}
Accesses == {"read", "write", "stream", "explicit"}   \* for BufferMaps: to map
MapOps == Accesses \cup {"store", "flush", "unmap", "draw", "bindRange"}
AllHabits == {"late contexts", "buffers first", "deletes bound objects",
              "names per context"}

ASSUME StateAssumption ==
  /\ MAX_CONTEXTS \in Nat \ {0} /\ CacheEntries \in Nat \ {0}
  /\ Workloads \subseteq [Ops \cup EglOps \cup MapOps -> Nat] /\ Habits \subseteq AllHabits

VARIABLES
  shadow,             \* g_shadow_ctx, per context
  bound_array,        \* stub_gl_state.array_buffer, per context
  stub_vaos,          \* g_stub_ctx, per context: current_vao, ebo of each
  g_stub_new_ctx,
  g_stub_current_ctx, \* per thread
  call, phase,        \* the call each thread is making
  fbo,                \* proxy: g_fbo_draw and g_fbo_read, per context
  fbo_cache,          \* proxy: g_fbo_cache, per context
  proxy_vaos,         \* proxy: g_proxy_ctx, as stub_vaos
  real, gen, live, made,  \* the driver
  left                \* the program: calls it still makes

stubVars   == <<shadow, bound_array, stub_vaos>>
proxyVars  == <<fbo, fbo_cache, proxy_vaos>>
driverVars == <<real, gen, live, made>>
vars == <<stubVars, g_stub_new_ctx, g_stub_current_ctx, call, phase, proxyVars,
          driverVars, left>>

Forgotten == -1   \* SHADOW_TEX_INVALID
Unknown   == -1   \* viewport_valid = 0

FreshShadow == [cap |-> 0, view |-> Unknown, unit |-> FirstUnit,
                tex |-> [u \in Units |-> 0], smp |-> [u \in Units |-> 0],
                fb |-> [x \in Targets |-> 0], vao |-> 0]
FreshArrays == [cur |-> 0, ebo |-> [v \in Names \cup {0} |-> 0]]

Init ==
  /\ shadow = [c \in Contexts |-> FreshShadow]
  /\ bound_array = [c \in Contexts |-> 0]
  /\ stub_vaos = [c \in Contexts |-> FreshArrays]
  /\ g_stub_new_ctx = 0
  /\ g_stub_current_ctx = [t \in Threads |-> 0]
  /\ call = [t \in Threads |-> NoCall]
  /\ phase = [t \in Threads |-> "idle"]
  /\ fbo = [c \in Contexts |-> [x \in Targets |-> 0]]
  /\ fbo_cache = [c \in Contexts |-> {}]
  /\ proxy_vaos = [c \in Contexts |-> FreshArrays]
  /\ real = [c \in Contexts |-> FreshContext]
  /\ gen = [k \in Shared |-> [n \in Names |-> 0]]
  /\ live = [k \in Kinds |-> [c \in Contexts \cup {0} |-> {}]]
  /\ made = {}
  /\ left \in Workloads

-----------------------------------------------------------------------------
(* The program.  It binds names it got and has not deleted, and no thread  *)
(* names an object while another deletes it.  Unless its habits say so it  *)
(* makes its contexts before its first GL call, makes a call that consults *)
(* the shadow before it binds buffers, and deletes no buffer or sampler    *)
(* that another context or a vertex array has bound and no vertex array    *)
(* that is current; and the driver numbers the framebuffers and vertex     *)
(* arrays of all contexts together.                                        *)

Named(t, d) == UNION {live[d][h] : h \in IF d \in Shared THEN {0}
                                         ELSE {g_stub_current_ctx[t]}}
InHand(k) == \E u \in Threads : /\ Kind(call[u]) = Kind(k) /\ call[u].n = k.n
                                /\ Deletes(call[u]) \/ Deletes(k)

Elsewhere(c, k) ==
  LET o == IF Kind(k) \in Shared THEN Object(gen, Kind(k), k.n) ELSE None
  IN  CASE k.op = "delBuf" -> \E d \in made :
                                 \/ d # c /\ real[d].array = o
                                 \/ \E v \in DOMAIN real[d].ebo : real[d].ebo[v] = o
        [] k.op = "delSmp" -> \E d \in made \ {c} : \E u \in Units : real[d].smp[u] = o
        [] k.op = "delVao" -> real[c].vao = k.n
        [] OTHER -> FALSE

(* The calls with entry point o that name objects among u.                 *)
Calls(o, u) ==
  [op : {o},
   n : CASE o \in {"cap", "view"} -> {0, 1}
         [] o = "active" -> Units
         [] o = "attachRb" \/ o \in DOMAIN GenOf -> {0}
         [] o \in DOMAIN DelOf -> u
         [] OTHER -> u \cup {0},
   unit : IF o = "bindSmp" THEN Units ELSE {FirstUnit},
   targets : CASE o = "bindFb" -> (SUBSET Targets) \ {{}}
               [] o \in {"attach", "attachRb"} -> {{x} : x \in Targets}
               [] OTHER -> {{}},
   points : CASE o = "attach" -> {{"color"}, {"depth"}, {"depth", "stencil"}}
              [] o = "attachRb" -> {{"stencil"}, {"depth", "stencil"}}
              [] OTHER -> {{}}]

Free(c, k) == Names \ UNION {live[Kind(k)][x] :
                x \in IF "names per context" \in Habits THEN {Home(Kind(k), c)}
                                                       ELSE Contexts \cup {0}}

(* The calls that look at the shadow; glBindBuffer() and the deletions do  *)
(* not.                                                                    *)
Consults(k) == k.op \in {"cap", "view", "active", "bindTex", "bindSmp",
                         "bindFb", "bindVao"}

Sensible(t, k) ==
  LET c == g_stub_current_ctx[t]
  IN  /\ k.n # 0 => ~InHand(k)
      /\ k.op \in {"attach", "attachRb"} => Attachable(real[c], k) # 0
      /\ Generates(k) => /\ Free(c, k) # {}
                         /\ \A u \in Threads : call[u].op # k.op
      /\ \/ "buffers first" \in Habits \/ g_stub_new_ctx = 0
         \/ /\ Consults(k)
            /\ \A u \in Threads \ {t} : phase[u] = "idle"
      /\ "buffers first" \in Habits \/ \A u \in Threads : phase[u] # "reset"
      /\ "deletes bound objects" \in Habits \/ ~Elsewhere(c, k)

Untouched == \A c \in Contexts : /\ real[c] = FreshContext
                                 /\ shadow[c] = FreshShadow
                                 /\ stub_vaos[c] = FreshArrays
Idle == \A t \in Threads : phase[t] = "idle"

-----------------------------------------------------------------------------
(* The stub: an entry point.                                               *)

Begin(t, o) ==
  LET c == g_stub_current_ctx[t]
  IN  /\ phase[t] = "idle" /\ c # 0 /\ left[o] > 0
      /\ \E k \in Calls(o, Named(t, Kind(GLCall(o, 0, FirstUnit, {}, {})))) :
           /\ Sensible(t, k)
           /\ call' = [call EXCEPT ![t] = k]
           /\ phase' = [phase EXCEPT ![t] =
                IF Consults(k) /\ g_stub_new_ctx # 0 THEN "reset" ELSE "entry"]
      /\ left' = [left EXCEPT ![o] = @ - 1]
      /\ UNCHANGED <<stubVars, g_stub_new_ctx, g_stub_current_ctx, proxyVars, driverVars>>

(* shadow_state_for_current_ctx() after an eglCreateContext(): the shadows *)
(* of the new and of the thread's own context are set to the defaults;     *)
(* what stub_gl_state knows stays.                                         *)
ResetShadows(t) ==
  LET cs == {g_stub_new_ctx, g_stub_current_ctx[t]}
  IN  /\ phase[t] = "reset"
      /\ shadow' = [c \in Contexts |-> IF c \in cs THEN FreshShadow ELSE shadow[c]]
      /\ stub_vaos' = [c \in Contexts |-> IF c \in cs THEN FreshArrays ELSE stub_vaos[c]]
      /\ g_stub_new_ctx' = 0
      /\ phase' = [phase EXCEPT ![t] = "entry"]
      /\ UNCHANGED <<bound_array, g_stub_current_ctx, call, proxyVars, driverVars, left>>

(* The value the stub holds for what the call sets.                        *)
Redundant(c, k) ==
  LET s == shadow[c]
      v == stub_vaos[c]
  IN  CASE k.op = "cap"       -> s.cap = k.n
        [] k.op = "view"      -> s.view = k.n
        [] k.op = "active"    -> s.unit = k.n
        [] k.op = "bindTex"   -> s.tex[s.unit] = k.n
        [] k.op = "bindSmp"   -> s.smp[k.unit] = k.n
        [] k.op = "bindFb"    -> \A x \in k.targets : s.fb[x] = k.n
        [] k.op = "bindVao"   -> s.vao = k.n
        [] k.op = "bindArray" -> bound_array[c] = k.n
        [] k.op = "bindEbo"   -> v.ebo[v.cur] = k.n
        [] OTHER              -> FALSE

(* f with every value n replaced by m.                                     *)
Renamed(f, n, m) == [x \in DOMAIN f |-> IF f[x] = n THEN m ELSE f[x]]

(* MUTANT: a deleted texture is forgotten in the current context only.     *)
WithoutTextureHere(c, n) == [shadow EXCEPT ![c].tex = Renamed(@, n, Forgotten)]

WithoutTexture(c, n) ==
  [d \in Contexts |-> [shadow[d] EXCEPT !.tex = Renamed(@, n, Forgotten)]]

(* Deletions: textures are marked invalid, the others taken for unbound,   *)
(* in the shadows of all contexts.                                         *)
Noted(c, k) ==
  LET s == shadow[c]
  IN  CASE k.op = "cap"     -> [shadow EXCEPT ![c].cap = k.n]
        [] k.op = "view"    -> [shadow EXCEPT ![c].view = k.n]
        [] k.op = "active"  -> [shadow EXCEPT ![c].unit = k.n]
        [] k.op = "bindTex" -> [shadow EXCEPT ![c].tex[s.unit] = k.n]
        [] k.op = "bindSmp" -> [shadow EXCEPT ![c].smp[k.unit] = k.n]
        [] k.op = "bindFb"  -> [shadow EXCEPT ![c].fb = [x \in Targets |->
                                  IF x \in k.targets THEN k.n ELSE @[x]]]
        [] k.op = "bindVao" -> [shadow EXCEPT ![c].vao = k.n]
        [] k.op = "delTex"  -> WithoutTexture(c, k.n)
        [] k.op = "delSmp"  -> [d \in Contexts |->
                                  [shadow[d] EXCEPT !.smp = Renamed(@, k.n, 0)]]
        [] k.op = "delFb"   -> [d \in Contexts |->
                                  [shadow[d] EXCEPT !.fb = Renamed(@, k.n, 0)]]
        [] k.op = "delVao"  -> [d \in Contexts |->
                                  [shadow[d] EXCEPT !.vao = IF @ = k.n THEN 0 ELSE @]]
        [] OTHER            -> shadow

(* MUTANT: a deleted buffer stays in stub_gl_state.                        *)
NotedArrayAlways(c, k) ==
  IF k.op = "bindArray" THEN [bound_array EXCEPT ![c] = k.n] ELSE bound_array

NotedArray(c, k) ==
  CASE k.op = "bindArray" -> [bound_array EXCEPT ![c] = k.n]
    [] k.op = "delBuf" /\ bound_array[c] = k.n -> [bound_array EXCEPT ![c] = 0]
    [] OTHER -> bound_array

NotedArrays(c, k) ==
  CASE k.op = "bindEbo" -> [stub_vaos EXCEPT ![c].ebo[stub_vaos[c].cur] = k.n]
    [] k.op = "bindVao" -> [stub_vaos EXCEPT ![c].cur = k.n]
    [] k.op = "delBuf"  -> [d \in Contexts |->
                              [stub_vaos[d] EXCEPT !.ebo = Renamed(@, k.n, 0)]]
    [] OTHER -> stub_vaos

Skip(t) ==
  /\ phase[t] = "entry" /\ Redundant(g_stub_current_ctx[t], call[t])
  /\ phase' = [phase EXCEPT ![t] = "idle"]
  /\ call' = [call EXCEPT ![t] = NoCall]
  /\ UNCHANGED <<stubVars, g_stub_new_ctx, g_stub_current_ctx, proxyVars, driverVars, left>>

Note(t) ==
  LET c == g_stub_current_ctx[t]
  IN  /\ phase[t] = "entry" /\ ~Redundant(c, call[t])
      /\ shadow' = Noted(c, call[t])
      /\ bound_array' = NotedArray(c, call[t])
      /\ stub_vaos' = NotedArrays(c, call[t])
      /\ phase' = [phase EXCEPT ![t] = "send"]
      /\ UNCHANGED <<g_stub_new_ctx, g_stub_current_ctx, call, proxyVars, driverVars, left>>

-----------------------------------------------------------------------------
(* The proxy: a handler, in context c.                                     *)

(* depth, stencil and depth_stencil alias each other.                      *)
Alias(p, q) == p = q \/ "color" \notin p \cup q

Attached(c, k) == \E e \in fbo_cache[c] :
                    /\ e.fbo = Attachable([fb |-> fbo[c]], k)
                    /\ e.points = k.points /\ e.tex = k.n

(* MUTANT: the cache is dropped when it holds more than it has room for.   *)
AttachLate(c, k) ==
  LET f    == Attachable([fb |-> fbo[c]], k)
      kept == {e \in fbo_cache[c] : ~(e.fbo = f /\ Alias(e.points, k.points))}
  IN  {[fbo |-> f, points |-> k.points, tex |-> k.n]}
        \cup IF Cardinality(kept) <= CacheEntries THEN kept ELSE {}

(* fbo_cache_attach(): a full cache starts over.                           *)
Attach(c, k) ==
  LET f    == Attachable([fb |-> fbo[c]], k)
      kept == {e \in fbo_cache[c] : ~(e.fbo = f /\ Alias(e.points, k.points))}
  IN  {[fbo |-> f, points |-> k.points, tex |-> k.n]}
        \cup IF Cardinality(kept) < CacheEntries THEN kept ELSE {}

(* MUTANT: ... of the current context only.                                *)
ForgetTextureHere(c, n) == [fbo_cache EXCEPT ![c] = {e \in @ : e.tex # n}]

(* Textures are shared: the attachments of all contexts are forgotten.     *)
ForgetTexture(c, n) == [d \in Contexts |-> {e \in fbo_cache[d] : e.tex # n}]

(* Framebuffers are not.                                                   *)
Cached(c, k) ==
  CASE k.op = "attach" /\ ~Attached(c, k) -> [fbo_cache EXCEPT ![c] = Attach(c, k)]
    [] k.op = "attachRb" ->
         [fbo_cache EXCEPT ![c] = {e \in @ :
            ~(e.fbo = Attachable([fb |-> fbo[c]], k) /\ Alias(e.points, k.points))}]
    [] k.op = "delTex" -> ForgetTexture(c, k.n)
    [] k.op = "delFb"  -> [fbo_cache EXCEPT ![c] = {e \in @ : e.fbo # k.n}]
    [] OTHER -> fbo_cache

BoundFbo(c, k) ==
  CASE k.op = "bindFb" -> [fbo EXCEPT ![c] = [x \in Targets |->
                             IF x \in k.targets THEN k.n ELSE @[x]]]
    [] k.op = "delFb"  -> [fbo EXCEPT ![c] = Renamed(@, k.n, 0)]
    [] OTHER -> fbo

ProxyArrays(c, k) ==
  CASE k.op = "bindEbo" -> [proxy_vaos EXCEPT ![c].ebo[proxy_vaos[c].cur] = k.n]
    [] k.op = "bindVao" -> [proxy_vaos EXCEPT ![c].cur = k.n]
    [] k.op = "genVao"  -> [proxy_vaos EXCEPT ![c].ebo[k.n] = 0]
    [] OTHER -> proxy_vaos

(* A cached attachment does not reach the driver; h_glBindVertexArray()    *)
(* binds the index buffer it remembers.                                    *)
Handled(c, k) ==
  CASE k.op = "attach" /\ Attached(c, k) -> real[c]
    [] k.op = "bindVao" ->
         Do(Do(real[c], gen, k), gen, GLCall("bindEbo", proxy_vaos[c].ebo[k.n], FirstUnit, {}, {}))
    [] OTHER -> Do(real[c], gen, k)

(* The driver gives the lowest free name.                                  *)
Given(c, k) == IF Generates(k) THEN Min(Free(c, k)) ELSE k.n

Run(t) ==
  LET c == g_stub_current_ctx[t]
      k == [call[t] EXCEPT !.n = Given(c, call[t])]
  IN  /\ phase[t] = "send"
      /\ fbo_cache' = Cached(c, k)
      /\ fbo' = BoundFbo(c, k)
      /\ proxy_vaos' = ProxyArrays(c, k)
      /\ real' = [real EXCEPT ![c] = Handled(c, k)]
      /\ live' = NamesAfter(live, k, c)
      /\ gen' = GenerationsAfter(gen, k)
      /\ stub_vaos' = IF k.op = "genVao" THEN [stub_vaos EXCEPT ![c].ebo[k.n] = 0]
                                         ELSE stub_vaos
      /\ phase' = [phase EXCEPT ![t] = "idle"]
      /\ call' = [call EXCEPT ![t] = NoCall]
      /\ UNCHANGED <<shadow, bound_array, g_stub_new_ctx, g_stub_current_ctx, made, left>>

-----------------------------------------------------------------------------
(* Contexts.                                                               *)

(* The table gives the lowest index; eglCreateContext() leaves the shadow  *)
(* to the next call that consults it.                                      *)
CreateContext(t) ==
  /\ phase[t] = "idle" /\ left["create"] > 0 /\ made # Contexts
  /\ "late contexts" \notin Habits => Untouched /\ Idle
  /\ LET c == Min(Contexts \ made)
     IN  /\ made' = made \cup {c}
         /\ real' = [real EXCEPT ![c] = FreshContext]
         /\ live' = [k \in Kinds |-> IF k \in Private THEN [live[k] EXCEPT ![c] = {}]
                                                      ELSE live[k]]
         /\ fbo_cache' = [fbo_cache EXCEPT ![c] = {}]
         /\ fbo' = [fbo EXCEPT ![c] = [x \in Targets |-> 0]]
         /\ g_stub_new_ctx' = c
  /\ left' = [left EXCEPT !["create"] = @ - 1]
  /\ UNCHANGED <<stubVars, g_stub_current_ctx, call, phase, proxy_vaos, gen>>

(* The reset eglDestroyContext() meant to ask for stands after its return. *)
DestroyContext(t, c) ==
  /\ phase[t] = "idle" /\ left["destroy"] > 0
  /\ c \in made /\ \A u \in Threads : g_stub_current_ctx[u] # c
  /\ made' = made \ {c}
  /\ left' = [left EXCEPT !["destroy"] = @ - 1]
  /\ UNCHANGED <<stubVars, g_stub_new_ctx, g_stub_current_ctx, call, phase,
                 proxyVars, real, gen, live>>

MakeCurrent(t, c) ==
  /\ phase[t] = "idle" /\ left["current"] > 0
  /\ c \in made \cup {0} /\ c # g_stub_current_ctx[t]
  /\ c # 0 => \A u \in Threads : g_stub_current_ctx[u] # c
  /\ g_stub_current_ctx' = [g_stub_current_ctx EXCEPT ![t] = c]
  /\ left' = [left EXCEPT !["current"] = @ - 1]
  /\ UNCHANGED <<stubVars, g_stub_new_ctx, call, phase, proxyVars, driverVars>>

Next ==
  \/ \E t \in Threads, o \in Ops : Begin(t, o)
  \/ \E t \in Threads : ResetShadows(t) \/ Skip(t) \/ Note(t) \/ Run(t)
  \/ \E t \in Threads : CreateContext(t)
  \/ \E t \in Threads, c \in Contexts : DestroyContext(t, c)
  \/ \E t \in Threads, c \in Contexts \cup {0} : MakeCurrent(t, c)

Spec == Init /\ [][Next]_vars

-----------------------------------------------------------------------------
TypeOK ==
  /\ made \subseteq Contexts /\ g_stub_new_ctx \in Contexts \cup {0}
  /\ \A t \in Threads : /\ phase[t] \in {"idle", "reset", "entry", "send"}
                        /\ phase[t] = "idle" <=> call[t] = NoCall
                        /\ g_stub_current_ctx[t] \in Contexts \cup {0}
  /\ \A c \in Contexts :
       /\ shadow[c].tex \in [Units -> Names \cup {0, Forgotten}]
       /\ shadow[c].smp \in [Units -> Names \cup {0}]
       /\ shadow[c].fb \in [Targets -> Names \cup {0}]
       /\ stub_vaos[c].cur \in Names \cup {0}
       /\ Cardinality(fbo_cache[c]) <= CacheEntries

(* What the proxy takes for attached (gles2.c, fbo_cache_attach()) is what *)
(* the driver has attached, whatever was deleted since and in whichever    *)
(* context: the same texture, not a later one of its name.                 *)
AttachmentsKnown ==
  \A c \in made : \A e \in fbo_cache[c] :
    \A p \in e.points : real[c].att[e.fbo][p] = Object(gen, "tex", e.tex)

(* The buffers glDraw*() and glMapBufferRange() of the stub take for bound *)
(* (get_bound_buffer() in gles_util_stub.h) are bound, in the vertex array *)
(* that is bound.                                                          *)
BuffersKnown ==
  \A t \in Threads :
    LET c == g_stub_current_ctx[t]
        v == stub_vaos[c]
    IN  c # 0 /\ phase[t] = "idle" =>
          /\ v.cur = real[c].vao
          /\ Object(gen, "buf", v.ebo[v.cur]) = real[c].ebo[v.cur]
          /\ Object(gen, "buf", bound_array[c]) = real[c].array

(* A call the stub does not send, or the proxy does not pass on, would     *)
(* have changed nothing, and one that is sent does what it would have done *)
(* without a bridge.                                                       *)
Server == INSTANCE GLServer WITH context <- real,
            current <- g_stub_current_ctx, pending <- call
ImplementsGL == Server!Spec
=============================================================================
