---------------------------- MODULE GLInvariant -----------------------------
(***************************************************************************)
(* The inductive invariant behind the properties of GLState, for programs  *)
(* without special habits.                                                 *)
(***************************************************************************)
EXTENDS GLState

Objects == (Names \cup {0}) \X Nat
Name0   == Names \cup {0}
ContextType ==
  [cap : {0, 1}, view : {0, 1}, unit : Units,
   tex : [Units -> Objects], smp : [Units -> Objects],
   fb : [Targets -> Name0], att : [Names -> [Points -> Objects]],
   vao : Name0, array : Objects, ebo : [Name0 -> Objects]]
ShadowType ==
  [cap : {0, 1}, view : {0, 1, Unknown}, unit : Units,
   tex : [Units -> Name0 \cup {Forgotten}], smp : [Units -> Name0],
   fb : [Targets -> Name0], vao : Name0]
ArraysType == [cur : Name0, ebo : [Name0 -> Name0]]
TexturePoints == {{"color"}, {"depth"}, {"depth", "stencil"}}
EntryType  == [fbo : Names, points : TexturePoints, tex : Name0]

CopyTypes ==
  /\ shadow \in [Contexts -> ShadowType]
  /\ bound_array \in [Contexts -> Name0]
  /\ stub_vaos \in [Contexts -> ArraysType]
  /\ proxy_vaos \in [Contexts -> ArraysType]
  /\ fbo \in [Contexts -> [Targets -> Name0]]
  /\ fbo_cache \in [Contexts -> SUBSET EntryType]
  /\ \A c \in Contexts : IsFiniteSet(fbo_cache[c])
DriverTypes ==
  /\ real \in [Contexts -> ContextType]
  /\ gen \in [Shared -> [Names -> Nat]]
  /\ live \in [Kinds -> [Contexts \cup {0} -> SUBSET Names]]
ThreadTypes ==
  /\ g_stub_current_ctx \in [Threads -> Contexts \cup {0}]
  /\ phase \in [Threads -> {"idle", "reset", "entry", "send"}]
  /\ DOMAIN call = Threads
TypesInv == TypeOK /\ CopyTypes /\ DriverTypes /\ ThreadTypes

(* A context is current in one thread at most, and a call is made where a  *)
(* context is current.                                                     *)
ThreadInv ==
  \A t \in Threads :
    LET c == g_stub_current_ctx[t]
    IN  /\ c \in made \cup {0}
        /\ phase[t] # "idle" => c # 0
        /\ \A u \in Threads : c # 0 /\ g_stub_current_ctx[u] = c => u = t

(* What was sensible when a call began is so until the driver has run it:  *)
(* no thread makes a name go that another has in hand.                     *)
Hand(t) ==
  LET k == call[t]
      c == g_stub_current_ctx[t]
  IN  /\ k.op \in Ops /\ k \in Calls(k.op, Named(t, Kind(k)))
      /\ k.op \in {"attach", "attachRb"} => Attachable(real[c], k) # 0
      /\ Generates(k) => /\ Free(c, k) # {}
                         /\ \A u \in Threads \ {t} : call[u].op # k.op
      /\ Deletes(k) => /\ ~Elsewhere(c, k)
                       /\ \A u \in Threads \ {t} :
                            Kind(call[u]) = Kind(k) => call[u].n # k.n
HandInv == \A t \in Threads : phase[t] # "idle" => Hand(t)

(* Names the copies of the stub may bear: those in use but for the one a   *)
(* command under way deletes; the driver and the proxy still have that.    *)
Going(d, h) == {call[t].n : t \in {u \in Threads :
                  /\ phase[u] = "send" /\ Deletes(call[u]) /\ Kind(call[u]) = d
                  /\ Home(d, g_stub_current_ctx[u]) = h}}
Kept(d, c) == {0} \cup (live[d][Home(d, c)] \ Going(d, Home(d, c)))
Alive(d, c) == {0} \cup live[d][Home(d, c)]
NamesInv ==
  /\ \A d \in Private : \A c, e \in Contexts \cup {0} :
       c # e => live[d][c] \cap live[d][e] = {}
  /\ \A c \in made :
       /\ \A u \in Units : /\ shadow[c].tex[u] \in Kept("tex", c) \cup {Forgotten}
                           /\ shadow[c].smp[u] \in Kept("smp", c)
       /\ \A x \in Targets : /\ shadow[c].fb[x] \in Kept("fb", c)
                             /\ real[c].fb[x] \in Alive("fb", c)
       /\ shadow[c].vao \in Kept("vao", c) /\ real[c].vao \in Alive("vao", c)
       /\ bound_array[c] \in Kept("buf", c)
       /\ \A v \in Name0 : /\ stub_vaos[c].ebo[v] \in Kept("buf", c)
                           /\ proxy_vaos[c].ebo[v] \in Alive("buf", c)
       /\ \A e \in fbo_cache[c] : /\ e.fbo \in Alive("fb", c)
                                  /\ e.tex \in Alive("tex", c)

(* The stub's copies of a context say what the driver will have set when   *)
(* it has run the command that is noted already.                           *)
Mirrors(c, r) ==
  LET s == shadow[c]
      v == stub_vaos[c]
  IN  /\ s.cap = r.cap /\ s.view \in {Unknown, r.view} /\ s.unit = r.unit
      /\ \A u \in Units : /\ s.tex[u] # Forgotten => Object(gen, "tex", s.tex[u]) = r.tex[u]
                          /\ Object(gen, "smp", s.smp[u]) = r.smp[u]
      /\ s.fb = r.fb /\ s.vao = r.vao /\ v.cur = r.vao
      /\ Object(gen, "buf", bound_array[c]) = r.array
      /\ \A x \in Name0 : Object(gen, "buf", v.ebo[x]) = r.ebo[x]
Noting(t) == phase[t] = "send" /\ ~Generates(call[t])
MirrorInv ==
  \A c \in made :
    /\ (\A t \in Threads : g_stub_current_ctx[t] = c => ~Noting(t)) => Mirrors(c, real[c])
    /\ \A t \in Threads : g_stub_current_ctx[t] = c /\ Noting(t) =>
         Mirrors(c, Do(real[c], gen, call[t]))

(* So do the proxy's, at any time.                                         *)
ProxyInv ==
  /\ \A c \in made :
       /\ fbo[c] = real[c].fb /\ proxy_vaos[c].cur = real[c].vao
       /\ \A v \in Name0 : Object(gen, "buf", proxy_vaos[c].ebo[v]) = real[c].ebo[v]
  /\ AttachmentsKnown

(* What eglCreateContext() leaves as it is fits a new context already.     *)
UnmadeInv ==
  \A c \in Contexts \ made : real[c] = FreshContext =>
    proxy_vaos[c] = FreshArrays /\ bound_array[c] = 0
NewInv ==
  /\ g_stub_new_ctx # 0 => /\ Untouched
                           /\ \A t \in Threads : phase[t] \in {"idle", "reset"}
  /\ \A t \in Threads : phase[t] = "reset" =>
       g_stub_new_ctx # 0 /\ \A u \in Threads \ {t} : phase[u] = "idle"

(* Whatever is bound, deleted and named again, in whichever context and by *)
(* whichever thread: the shadow (shadow_state_for_current_ctx()),          *)
(* stub_gl_state, and the proxy's g_fbo_cache and g_proxy_ctx name objects *)
(* in use and agree with the driver.                                       *)
GLInv == /\ TypesInv /\ ThreadInv /\ HandInv /\ NamesInv
         /\ MirrorInv /\ ProxyInv /\ UnmadeInv /\ NewInv
=============================================================================
