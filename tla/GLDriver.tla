------------------------------ MODULE GLDriver ------------------------------
(***************************************************************************)
(* What the GL driver does with the calls that select state and bind       *)
(* objects, as far as the bridge keeps copies of it: the library is not    *)
(* part of the bridge, this is how the handlers use it.                    *)
(*                                                                         *)
(* Textures, samplers and buffers are shared between contexts, framebuffers *)
(* and vertex arrays are not.  A name is used again after its deletion;    *)
(* an object is told from an earlier one of the same name by its           *)
(* generation.  A deletion unbinds the object in the context of the call   *)
(* only: elsewhere the old object stays bound.                             *)
(***************************************************************************)
EXTENDS Integers, FiniteSets

CONSTANTS Names,   \* object names: small, so that they are used again
          Units    \* texture units

ASSUME NamesAssumption ==
  Names \subseteq Nat \ {0} /\ Units \subseteq Nat /\ Units # {}

Shared  == {"tex", "smp", "buf"}
Private == {"fb", "vao"}
Kinds   == Shared \cup Private
Targets == {"draw", "read"}
Points  == {"color", "depth", "stencil"}

None         == <<0, 0>>
Renderbuffer == <<0, 1>>
Object(gen, k, n) == IF n = 0 THEN None ELSE <<n, gen[k][n]>>

FirstUnit == CHOOSE u \in Units : \A v \in Units : u <= v

(* A new context: the defaults of shadow_state_init() are the driver's.    *)
FreshContext ==
  [cap |-> 0, view |-> 0, unit |-> FirstUnit,
   tex |-> [u \in Units |-> None], smp |-> [u \in Units |-> None],
   fb |-> [x \in Targets |-> 0],
   att |-> [f \in Names |-> [p \in Points |-> None]],
   vao |-> 0, array |-> None,
   ebo |-> [v \in Names \cup {0} |-> None]]

(* f with every value o replaced by "nothing bound".                       *)
Without(f, o) == [x \in DOMAIN f |-> IF f[x] = o THEN None ELSE f[x]]

(* A call: the name or value n it gives, and the unit, framebuffer targets *)
(* and attachment points it gives it for.                                  *)
GLCall(op, n, unit, targets, points) ==
  [op |-> op, n |-> n, unit |-> unit, targets |-> targets, points |-> points]
NoCall == GLCall("none", 0, FirstUnit, {}, {})

(* glFramebuffer*() take one target.                                       *)
Attachable(r, k) == r.fb[CHOOSE x \in k.targets : TRUE]

Do(r, gen, k) ==
  CASE k.op = "cap"       -> [r EXCEPT !.cap = k.n]
    [] k.op = "view"      -> [r EXCEPT !.view = k.n]
    [] k.op = "active"    -> [r EXCEPT !.unit = k.n]
    [] k.op = "bindTex"   -> [r EXCEPT !.tex[r.unit] = Object(gen, "tex", k.n)]
    [] k.op = "bindSmp"   -> [r EXCEPT !.smp[k.unit] = Object(gen, "smp", k.n)]
    [] k.op = "bindFb"    -> [r EXCEPT !.fb = [x \in Targets |->
                                IF x \in k.targets THEN k.n ELSE @[x]]]
    [] k.op = "bindVao"   -> [r EXCEPT !.vao = k.n]
    [] k.op = "bindArray" -> [r EXCEPT !.array = Object(gen, "buf", k.n)]
    [] k.op = "bindEbo"   -> [r EXCEPT !.ebo[r.vao] = Object(gen, "buf", k.n)]
    [] k.op = "attach"    -> [r EXCEPT !.att[Attachable(r, k)] = [p \in Points |->
                                IF p \in k.points THEN Object(gen, "tex", k.n)
                                                  ELSE @[p]]]
    [] k.op = "attachRb"  -> [r EXCEPT !.att[Attachable(r, k)] = [p \in Points |->
                                IF p \in k.points THEN Renderbuffer ELSE @[p]]]
    [] k.op = "genFb"     -> [r EXCEPT !.att[k.n] = [p \in Points |-> None]]
    [] k.op = "genVao"    -> [r EXCEPT !.ebo[k.n] = None]
    [] k.op = "delTex"    ->
         [r EXCEPT !.tex = Without(@, Object(gen, "tex", k.n)),
                   !.att = [f \in Names |->
                              IF \E x \in Targets : r.fb[x] = f
                              THEN Without(@[f], Object(gen, "tex", k.n))
                              ELSE @[f]]]
    [] k.op = "delSmp"    -> [r EXCEPT !.smp = Without(@, Object(gen, "smp", k.n))]
    [] k.op = "delBuf"    ->
         [r EXCEPT !.array = IF @ = Object(gen, "buf", k.n) THEN None ELSE @,
                   !.ebo[r.vao] = IF @ = Object(gen, "buf", k.n) THEN None ELSE @]
    [] k.op = "delFb"     -> [r EXCEPT !.fb = [x \in Targets |->
                                IF @[x] = k.n THEN 0 ELSE @[x]]]
    [] k.op = "delVao"    -> [r EXCEPT !.vao = IF @ = k.n THEN 0 ELSE @]
    [] OTHER              -> r

GenOf == [genTex |-> "tex", genSmp |-> "smp", genBuf |-> "buf",
          genFb |-> "fb", genVao |-> "vao"]
DelOf == [delTex |-> "tex", delSmp |-> "smp", delBuf |-> "buf",
          delFb |-> "fb", delVao |-> "vao"]
Generates(k) == k.op \in DOMAIN GenOf
Deletes(k)   == k.op \in DOMAIN DelOf

(* The kind of object a call names.                                        *)
Kind(k) == CASE Generates(k) -> GenOf[k.op]
             [] Deletes(k)   -> DelOf[k.op]
             [] k.op \in {"bindTex", "attach"} -> "tex"
             [] k.op = "bindSmp" -> "smp"
             [] k.op \in {"bindArray", "bindEbo"} -> "buf"
             [] k.op = "bindFb" -> "fb"
             [] k.op = "bindVao" -> "vao"
             [] OTHER -> "none"

(* Names in use are kept per kind, for private kinds per context.          *)
Home(k, c) == IF k \in Shared THEN 0 ELSE c
NamesAfter(live, k, c) ==
  LET d == Kind(k)
      h == Home(d, c)
  IN  CASE Generates(k) -> [live EXCEPT ![d][h] = @ \cup {k.n}]
        [] Deletes(k)   -> [live EXCEPT ![d][h] = @ \ {k.n}]
        [] OTHER        -> live
GenerationsAfter(gen, k) ==
  IF Generates(k) /\ Kind(k) \in Shared THEN [gen EXCEPT ![Kind(k)][k.n] = @ + 1]
                                        ELSE gen
=============================================================================
