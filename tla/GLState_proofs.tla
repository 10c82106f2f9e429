--------------------------- MODULE GLState_proofs ---------------------------
(***************************************************************************)
(* Proofs about GLState and, through StateCall, about BufferMaps: types,   *)
(* the copies of GL state stub and proxy keep, and that the bridge         *)
(* implements GLServer, for programs without special habits.               *)
(***************************************************************************)
EXTENDS MapInvariant, FiniteSetTheorems, WellFoundedInduction, TLAPS

(* Names and objects *)

(* The CHOOSE of Min and FirstUnit finds something.                        *)
LEMMA LeastExists ==
  ASSUME NEW S, S \subseteq Nat, S # {}
  PROVE  \E x \in S : \A y \in S : x <= y
  <1>1. IsWellFoundedOn(OpToRel(<,Nat), Nat)
    BY NatLessThanWellFounded
  <1>2. PICK x \in S : \A y \in S : ~ (<<y, x>> \in OpToRel(<,Nat))
    BY <1>1, WFMin
  <1>3. \A y \in S : ~ (y < x)
    BY <1>2 DEF OpToRel
  <1> QED
    BY <1>3

LEMMA MinIn ==
  ASSUME NEW S, S \subseteq Nat, S # {}
  PROVE  Min(S) \in S
  BY LeastExists DEF Min

LEMMA FirstUnitIn == FirstUnit \in Units
  BY LeastExists, NamesAssumption DEF FirstUnit

LEMMA NamesAre == Names \subseteq Nat /\ 0 \notin Names
  BY NamesAssumption

LEMMA ContextsAre == Contexts \subseteq Nat /\ 0 \notin Contexts
  BY StateAssumption DEF Contexts

GenType == [Shared -> [Names -> Nat]]

LEMMA ObjectIn ==
  ASSUME NEW g \in GenType, NEW d \in Shared, NEW n \in Name0
  PROVE  /\ Object(g, d, n) \in Objects
         /\ Object(g, d, n) = None <=> n = 0
  BY NamesAre DEF GenType, Object, Objects, Name0, None

LEMMA ObjectApart ==
  ASSUME NEW g \in GenType, NEW d \in Shared, NEW n \in Name0, NEW m \in Name0,
         Object(g, d, n) = Object(g, d, m)
  PROVE  n = m
  BY NamesAre DEF GenType, Object, Name0, None

LEMMA FreshIn ==
  /\ FreshContext \in ContextType /\ FreshShadow \in ShadowType
  /\ FreshArrays \in ArraysType
  <1>1. None \in Objects
    BY DEF None, Objects
  <1> QED
    BY <1>1, FirstUnitIn DEF FreshContext, FreshShadow, FreshArrays, ContextType,
       ShadowType, ArraysType, Name0, Unknown, Targets

-----------------------------------------------------------------------------
(* Calls *)

CallType == [op : Ops, n : Nat, unit : Units, targets : SUBSET Targets,
             points : SUBSET Points]
CallShape(k) ==
  /\ k \in CallType
  /\ k.op \in {"cap", "view"} => k.n \in {0, 1}
  /\ k.op = "active" => k.n \in Units
  /\ k.op \notin {"cap", "view", "active"} => k.n \in Name0
  /\ k.op \in {"attach", "attachRb"} => \E x \in Targets : k.targets = {x}
  /\ k.op = "attach" => k.points \in TexturePoints
  /\ k.op = "attachRb" => k.points \in {{"stencil"}, {"depth", "stencil"}}
  /\ Deletes(k) => k.n \in Names

DelOps == {"delTex", "delSmp", "delBuf", "delFb", "delVao"}
GenOps == {"genTex", "genSmp", "genBuf", "genFb", "genVao"}

LEMMA OpsAre ==
  /\ DOMAIN GenOf = GenOps /\ DOMAIN DelOf = DelOps
  /\ Ops = {"cap", "view", "active", "bindTex", "bindSmp", "bindFb", "bindVao",
            "bindArray", "bindEbo", "attach", "attachRb"} \cup GenOps \cup DelOps
  BY DEF GenOf, DelOf, GenOps, DelOps, Ops

LEMMA KindIs ==
  ASSUME NEW k, k.op \in Ops
  PROVE  /\ Generates(k) <=> k.op \in GenOps
         /\ Deletes(k) <=> k.op \in DelOps
         /\ Kind(k) = "tex" <=> k.op \in {"bindTex", "attach", "genTex", "delTex"}
         /\ Kind(k) = "smp" <=> k.op \in {"bindSmp", "genSmp", "delSmp"}
         /\ Kind(k) = "buf" <=> k.op \in {"bindArray", "bindEbo", "genBuf", "delBuf"}
         /\ Kind(k) = "fb" <=> k.op \in {"bindFb", "genFb", "delFb"}
         /\ Kind(k) = "vao" <=> k.op \in {"bindVao", "genVao", "delVao"}
         /\ Kind(k) = "none" <=> k.op \in {"cap", "view", "active", "attachRb"}
  BY OpsAre DEF Generates, Deletes, Kind, GenOf, DelOf, GenOps, DelOps

LEMMA NoCallIs == NoCall.op = "none" /\ Kind(NoCall) = "none" /\ NoCall.n = 0
                  /\ ~Generates(NoCall) /\ ~Deletes(NoCall)
  BY OpsAre DEF NoCall, GLCall, Kind, Generates, Deletes, GenOps, DelOps

(* What a thread may ask for, in the words of CallShape.                   *)
LEMMA CallsAre ==
  ASSUME NEW o \in Ops, NEW u, NEW k \in Calls(o, u),
         o \in {"cap", "view", "active", "attachRb"} \/ u \subseteq Names
  PROVE  /\ CallShape(k) /\ k.op = o
         /\ Kind(k) # "none" /\ k.n # 0 => k.n \in u
         /\ Kind(k) = "none" <=> o \in {"cap", "view", "active", "attachRb"}
  <1>a. Units \subseteq Nat /\ Names \subseteq Nat /\ FirstUnit \in Units
    BY NamesAssumption, FirstUnitIn
  <1>1. k.op = o /\ DOMAIN k = {"op", "n", "unit", "targets", "points"}
        /\ k = [op |-> k.op, n |-> k.n, unit |-> k.unit, targets |-> k.targets,
               points |-> k.points]
    BY DEF Calls
  <1>2. /\ Deletes(k) <=> o \in DelOps
        /\ Kind(k) = "none" <=> o \in {"cap", "view", "active", "attachRb"}
    BY <1>1, KindIs
  <1>3. o \in {"cap", "view"} => k.n \in {0, 1}
    BY OpsAre DEF Calls, GenOps, DelOps
  <1>4. o = "active" => k.n \in Units
    BY OpsAre DEF Calls, GenOps, DelOps
  <1>5. o = "attachRb" \/ o \in GenOps => k.n = 0
    BY OpsAre DEF Calls, GenOps, DelOps
  <1>6. o \in DelOps => k.n \in u
    BY OpsAre DEF Calls, GenOps, DelOps
  <1>7. o \in {"bindTex", "bindSmp", "bindFb", "bindVao", "bindArray", "bindEbo",
               "attach"} => k.n \in u \cup {0}
    BY OpsAre DEF Calls, GenOps, DelOps
  <1>8. k.unit \in Units
    BY <1>a DEF Calls
  <1>9. k.targets \in SUBSET Targets
    BY DEF Calls
  <1>10. o \in {"attach", "attachRb"} => \E x \in Targets : k.targets = {x}
    BY DEF Calls
  <1>11. /\ o = "attach" => k.points \in TexturePoints
         /\ o = "attachRb" => k.points \in {{"stencil"}, {"depth", "stencil"}}
         /\ o \notin {"attach", "attachRb"} => k.points = {}
    BY DEF Calls, TexturePoints
  <1>12. k.points \in SUBSET Points
    BY <1>11 DEF TexturePoints, Points
  <1>13. o \notin {"cap", "view", "active"} => k.n \in Name0
    BY <1>5, <1>6, <1>7, OpsAre DEF Name0, GenOps, DelOps
  <1>14. k.n \in Nat
    <2>1. \A n \in {0, 1} \cup Units \cup Name0 : n \in Nat
      BY <1>a DEF Name0
    <2>2. k.n \in {0, 1} \cup Units \cup Name0
      BY <1>3, <1>4, <1>13
    <2> QED
      BY <2>1, <2>2
  <1>15. k \in CallType
    BY <1>1, <1>8, <1>9, <1>12, <1>14 DEF CallType
  <1>16. CallShape(k)
    BY <1>1, <1>2, <1>3, <1>4, <1>6, <1>10, <1>11, <1>13, <1>15
       DEF CallShape, DelOps
  <1>17. k.n # 0 => k.n \in u \/ o \in {"cap", "view", "active", "attachRb"}
    <2>1. \/ o = "attachRb" \/ o \in GenOps
          \/ o \in DelOps \/ o \in {"cap", "view", "active"}
          \/ o \in {"bindTex", "bindSmp", "bindFb", "bindVao", "bindArray",
                     "bindEbo", "attach"}
      BY OpsAre
    <2> QED
      BY <2>1, <1>5, <1>6, <1>7
  <1> QED
    BY <1>1, <1>2, <1>16, <1>17

-----------------------------------------------------------------------------
(* What the driver does *)

(* The state after a call, field by field.                                 *)
TexAfter(r, g, k) ==
  IF k.op = "bindTex" THEN [r.tex EXCEPT ![r.unit] = Object(g, "tex", k.n)]
  ELSE IF k.op = "delTex" THEN Without(r.tex, Object(g, "tex", k.n)) ELSE r.tex
SmpAfter(r, g, k) ==
  IF k.op = "bindSmp" THEN [r.smp EXCEPT ![k.unit] = Object(g, "smp", k.n)]
  ELSE IF k.op = "delSmp" THEN Without(r.smp, Object(g, "smp", k.n)) ELSE r.smp
FbAfter(f, k) ==
  IF k.op = "bindFb" THEN [x \in Targets |-> IF x \in k.targets THEN k.n ELSE f[x]]
  ELSE IF k.op = "delFb" THEN [x \in Targets |-> IF f[x] = k.n THEN 0 ELSE f[x]] ELSE f
VaoAfter(v, k) ==
  IF k.op = "bindVao" THEN k.n
  ELSE IF k.op = "delVao" THEN (IF v = k.n THEN 0 ELSE v) ELSE v
ArrayAfter(a, g, k) ==
  IF k.op = "bindArray" THEN Object(g, "buf", k.n)
  ELSE IF k.op = "delBuf" THEN (IF a = Object(g, "buf", k.n) THEN None ELSE a) ELSE a
EboAfter(r, g, k) ==
  IF k.op = "bindEbo" THEN [r.ebo EXCEPT ![r.vao] = Object(g, "buf", k.n)]
  ELSE IF k.op = "genVao" THEN [r.ebo EXCEPT ![k.n] = None]
  ELSE IF k.op = "delBuf"
  THEN [r.ebo EXCEPT ![r.vao] = IF @ = Object(g, "buf", k.n) THEN None ELSE @]
  ELSE r.ebo
AttAfter(r, g, k) ==
  IF k.op \in {"attach", "attachRb"}
  THEN [r.att EXCEPT ![Attachable(r, k)] =
          [p \in Points |-> IF p \in k.points
                            THEN IF k.op = "attach" THEN Object(g, "tex", k.n)
                                                    ELSE Renderbuffer
                            ELSE @[p]]]
  ELSE IF k.op = "genFb" THEN [r.att EXCEPT ![k.n] = [p \in Points |-> None]]
  ELSE IF k.op = "delTex"
  THEN [f \in Names |-> IF \E x \in Targets : r.fb[x] = f
                        THEN Without(r.att[f], Object(g, "tex", k.n)) ELSE r.att[f]]
  ELSE r.att

LEMMA DoFields ==
  ASSUME NEW r \in ContextType, NEW g, NEW k, k.op \in Ops
  PROVE  Do(r, g, k) =
           [cap |-> IF k.op = "cap" THEN k.n ELSE r.cap,
            view |-> IF k.op = "view" THEN k.n ELSE r.view,
            unit |-> IF k.op = "active" THEN k.n ELSE r.unit,
            tex |-> TexAfter(r, g, k), smp |-> SmpAfter(r, g, k),
            fb |-> FbAfter(r.fb, k), att |-> AttAfter(r, g, k),
            vao |-> VaoAfter(r.vao, k), array |-> ArrayAfter(r.array, g, k),
            ebo |-> EboAfter(r, g, k)]
  <1> USE DEF Do, TexAfter, SmpAfter, FbAfter, AttAfter, VaoAfter, ArrayAfter,
            EboAfter, ContextType
  <1>1. CASE k.op = "cap"
    BY <1>1
  <1>2. CASE k.op = "view"
    BY <1>2
  <1>3. CASE k.op = "active"
    BY <1>3
  <1>4. CASE k.op = "bindTex"
    BY <1>4
  <1>5. CASE k.op = "bindSmp"
    BY <1>5
  <1>6. CASE k.op = "bindFb"
    BY <1>6
  <1>7. CASE k.op = "bindVao"
    BY <1>7
  <1>8. CASE k.op = "bindArray"
    BY <1>8
  <1>9. CASE k.op = "bindEbo"
    BY <1>9
  <1>10. CASE k.op = "attach"
    BY <1>10
  <1>11. CASE k.op = "attachRb"
    BY <1>11
  <1>12. CASE k.op = "genFb"
    BY <1>12
  <1>13. CASE k.op = "genVao"
    BY <1>13
  <1>14. CASE k.op = "delTex"
    BY <1>14
  <1>15. CASE k.op = "delSmp"
    BY <1>15
  <1>16. CASE k.op = "delBuf"
    BY <1>16
  <1>17. CASE k.op = "delFb"
    BY <1>17
  <1>18. CASE k.op = "delVao"
    BY <1>18
  <1>19. CASE k.op \in {"genTex", "genSmp", "genBuf"}
    BY <1>19
  <1> HIDE DEF Do, TexAfter, SmpAfter, FbAfter, AttAfter, VaoAfter, ArrayAfter,
           EboAfter, ContextType
  <1> QED
    BY <1>1, <1>2, <1>3, <1>4, <1>5, <1>6, <1>7, <1>8, <1>9, <1>10, <1>11, <1>12,
       <1>13, <1>14, <1>15, <1>16, <1>17, <1>18, <1>19, OpsAre
       DEF GenOps, DelOps

(* Nothing a call leaves as it is changes.                                 *)
LEMMA WithoutIs ==
  ASSUME NEW X, NEW f \in [X -> Objects], NEW o
  PROVE  Without(f, o) \in [X -> Objects]
         /\ \A x \in X : Without(f, o)[x] = IF f[x] = o THEN None ELSE f[x]
  BY DEF Without, None, Objects

LEMMA DoType ==
  ASSUME NEW r \in ContextType, NEW g \in GenType, NEW k, CallShape(k),
         k.op \in {"attach", "attachRb"} => Attachable(r, k) # 0,
         Generates(k) => k.n \in Names
  PROVE  Do(r, g, k) \in ContextType
  <1>1. /\ k.op \in Ops /\ k.unit \in Units /\ k.targets \in SUBSET Targets
        /\ k.op \notin {"cap", "view", "active"} => k.n \in Name0
    BY DEF CallShape, CallType
  <1>2. /\ r.unit \in Units /\ r.cap \in {0, 1} /\ r.view \in {0, 1}
        /\ r.tex \in [Units -> Objects] /\ r.smp \in [Units -> Objects]
        /\ r.fb \in [Targets -> Name0] /\ r.att \in [Names -> [Points -> Objects]]
        /\ r.vao \in Name0 /\ r.array \in Objects /\ r.ebo \in [Name0 -> Objects]
    BY DEF ContextType
  <1>3. /\ None \in Objects /\ Renderbuffer \in Objects /\ 0 \in Name0 /\ Names \subseteq Name0
        /\ "tex" \in Shared /\ "smp" \in Shared /\ "buf" \in Shared
    BY DEF None, Renderbuffer, Objects, Name0, Shared
  <1>4. k.op \notin {"cap", "view", "active"} =>
          \A d \in Shared : Object(g, d, k.n) \in Objects
    BY <1>1, ObjectIn
  <1>5. (IF k.op = "cap" THEN k.n ELSE r.cap) \in {0, 1}
        /\ (IF k.op = "view" THEN k.n ELSE r.view) \in {0, 1}
        /\ (IF k.op = "active" THEN k.n ELSE r.unit) \in Units
    BY <1>2 DEF CallShape
  <1>6. TexAfter(r, g, k) \in [Units -> Objects]
    BY <1>2, <1>3, <1>4, WithoutIs DEF TexAfter
  <1>7. SmpAfter(r, g, k) \in [Units -> Objects]
    BY <1>1, <1>2, <1>3, <1>4, WithoutIs DEF SmpAfter
  <1>8. FbAfter(r.fb, k) \in [Targets -> Name0]
    BY <1>1, <1>2, <1>3 DEF FbAfter
  <1>9. VaoAfter(r.vao, k) \in Name0
    BY <1>1, <1>2, <1>3 DEF VaoAfter
  <1>10. ArrayAfter(r.array, g, k) \in Objects
    BY <1>1, <1>2, <1>3, <1>4 DEF ArrayAfter
  <1>11. EboAfter(r, g, k) \in [Name0 -> Objects]
    <2>1. CASE k.op = "genVao"
      <3>1. k.n \in Name0
        BY <1>1, <2>1
      <3> QED
        BY <1>2, <1>3, <2>1, <3>1 DEF EboAfter
    <2>2. CASE k.op = "bindEbo"
      BY <1>2, <1>3, <1>4, <2>2 DEF EboAfter
    <2>3. CASE k.op = "delBuf"
      BY <1>2, <1>3, <1>4, <2>3 DEF EboAfter
    <2> QED
      BY <1>2, <2>1, <2>2, <2>3 DEF EboAfter
  <1>12. AttAfter(r, g, k) \in [Names -> [Points -> Objects]]
    <2>1. CASE k.op \in {"attach", "attachRb"}
      <3>1. \A x \in Targets : r.fb[x] \in Name0
        BY <1>2
      <3>2. Attachable(r, k) \in Names
        BY <2>1, <3>1 DEF Attachable, CallShape, Name0
      <3>3. ASSUME NEW a \in [Points -> Objects]
            PROVE  [p \in Points |-> IF p \in k.points
                                     THEN IF k.op = "attach" THEN Object(g, "tex", k.n)
                                                             ELSE Renderbuffer
                                     ELSE a[p]] \in [Points -> Objects]
        BY <1>3, <1>4, <2>1
      <3> QED
        BY <1>2, <2>1, <3>2, <3>3 DEF AttAfter
    <2>2. CASE k.op = "genFb"
      <3>1. [p \in Points |-> None] \in [Points -> Objects]
        BY <1>3
      <3> QED
        BY <1>2, <2>2, <3>1 DEF AttAfter
    <2>3. CASE k.op = "delTex"
      <3>1. \A f \in Names : /\ r.att[f] \in [Points -> Objects]
                            /\ Without(r.att[f], Object(g, "tex", k.n)) \in [Points -> Objects]
        BY <1>2, WithoutIs
      <3> QED
        BY <2>3, <3>1 DEF AttAfter
    <2> QED
      BY <1>2, <2>1, <2>2, <2>3 DEF AttAfter
  <1> QED
    BY <1>1, <1>5, <1>6, <1>7, <1>8, <1>9, <1>10, <1>11, <1>12, DoFields
       DEF ContextType

LEMMA DoGenerations ==
  ASSUME NEW r \in ContextType, NEW g, NEW h, NEW k, k.op \in Ops,
         Kind(k) \in Shared /\ ~Generates(k) =>
           Object(h, Kind(k), k.n) = Object(g, Kind(k), k.n)
  PROVE  Do(r, h, k) = Do(r, g, k)
  <1>1. /\ k.op \in {"bindTex", "attach", "delTex"} =>
             Object(h, "tex", k.n) = Object(g, "tex", k.n)
        /\ k.op \in {"bindSmp", "delSmp"} => Object(h, "smp", k.n) = Object(g, "smp", k.n)
        /\ k.op \in {"bindArray", "bindEbo", "delBuf"} =>
             Object(h, "buf", k.n) = Object(g, "buf", k.n)
    BY KindIs DEF Shared, GenOps
  <1>2. /\ TexAfter(r, h, k) = TexAfter(r, g, k) /\ SmpAfter(r, h, k) = SmpAfter(r, g, k)
        /\ AttAfter(r, h, k) = AttAfter(r, g, k)
        /\ ArrayAfter(r.array, h, k) = ArrayAfter(r.array, g, k)
        /\ EboAfter(r, h, k) = EboAfter(r, g, k)
    BY <1>1 DEF TexAfter, SmpAfter, AttAfter, ArrayAfter, EboAfter
  <1> QED
    BY <1>2, DoFields

-----------------------------------------------------------------------------
(* What the stub notes *)

LEMMA RenamedIs ==
  ASSUME NEW X, NEW Y, NEW f \in [X -> Y], NEW n, NEW m \in Y
  PROVE  Renamed(f, n, m) \in [X -> Y]
         /\ \A x \in X : Renamed(f, n, m)[x] = IF f[x] = n THEN m ELSE f[x]
  BY DEF Renamed

(* The shadow of context d after call k in context c, field by field.       *)
ShadowAfter(c, d, k) ==
  LET s == shadow[d]
  IN  [cap |-> IF d = c /\ k.op = "cap" THEN k.n ELSE s.cap,
       view |-> IF d = c /\ k.op = "view" THEN k.n ELSE s.view,
       unit |-> IF d = c /\ k.op = "active" THEN k.n ELSE s.unit,
       tex |-> IF d = c /\ k.op = "bindTex" THEN [s.tex EXCEPT ![s.unit] = k.n]
               ELSE IF k.op = "delTex" THEN Renamed(s.tex, k.n, Forgotten) ELSE s.tex,
       smp |-> IF d = c /\ k.op = "bindSmp" THEN [s.smp EXCEPT ![k.unit] = k.n]
               ELSE IF k.op = "delSmp" THEN Renamed(s.smp, k.n, 0) ELSE s.smp,
       fb |-> IF d = c /\ k.op = "bindFb"
              THEN [x \in Targets |-> IF x \in k.targets THEN k.n ELSE s.fb[x]]
              ELSE IF k.op = "delFb" THEN Renamed(s.fb, k.n, 0) ELSE s.fb,
       vao |-> IF d = c /\ k.op = "bindVao" THEN k.n
               ELSE IF k.op = "delVao" THEN (IF s.vao = k.n THEN 0 ELSE s.vao)
               ELSE s.vao]
ArraysAfter(c, d, k) ==
  LET v == stub_vaos[d]
  IN  [cur |-> IF d = c /\ k.op = "bindVao" THEN k.n ELSE v.cur,
       ebo |-> IF d = c /\ k.op = "bindEbo" THEN [v.ebo EXCEPT ![v.cur] = k.n]
               ELSE IF k.op = "delBuf" THEN Renamed(v.ebo, k.n, 0) ELSE v.ebo]

LEMMA NotedFields ==
  ASSUME shadow \in [Contexts -> ShadowType], NEW c \in Contexts,
         NEW d \in Contexts, NEW k, k.op \in Ops
  PROVE  Noted(c, k)[d] = ShadowAfter(c, d, k)
  <1> USE DEF Noted, ShadowAfter, ShadowType, WithoutTexture
  <1>1. CASE k.op = "cap"
    BY <1>1
  <1>2. CASE k.op = "view"
    BY <1>2
  <1>3. CASE k.op = "active"
    BY <1>3
  <1>4. CASE k.op = "bindTex"
    BY <1>4
  <1>5. CASE k.op = "bindSmp"
    <2> DEFINE f == [shadow[c].smp EXCEPT ![k.unit] = k.n]
    <2>1. Noted(c, k) = [shadow EXCEPT ![c].smp = f]
      BY <1>5
    <2> HIDE DEF f
    <2>2. CASE d = c
      <3>1. Noted(c, k)[d] = [shadow[c] EXCEPT !.smp = f]
        BY <2>1, <2>2
      <3> DEFINE s == shadow[c]
                 r == [cap |-> s.cap, view |-> s.view, unit |-> s.unit, tex |-> s.tex,
                       smp |-> f, fb |-> s.fb, vao |-> s.vao]
      <3> HIDE DEF Noted, WithoutTexture
      <3>2. [s EXCEPT !.smp = f] = r
        <4> HIDE DEF ShadowAfter
        <4> QED
          OBVIOUS
      <3>3. ShadowAfter(c, d, k) = r
        <4> HIDE DEF ShadowType
        <4> QED
          BY <1>5, <2>2 DEF f
      <3> QED
        BY <3>1, <3>2, <3>3
    <2>3. CASE d # c
      BY <1>5, <2>1, <2>3
    <2> QED
      BY <2>2, <2>3
  <1>6. CASE k.op = "bindFb"
    <2> DEFINE f == [x \in Targets |-> IF x \in k.targets THEN k.n ELSE shadow[c].fb[x]]
    <2>1. Noted(c, k) = [shadow EXCEPT ![c].fb = f]
      BY <1>6 DEF Noted
    <2> HIDE DEF f
    <2>2. CASE d = c
      <3>1. Noted(c, k)[d] = [shadow[c] EXCEPT !.fb = f]
        BY <2>1, <2>2
      <3> QED
        BY <1>6, <2>1, <2>2, <3>1 DEF f
    <2>3. CASE d # c
      <3>1. Noted(c, k)[d] = shadow[d]
        BY <2>1, <2>3
      <3> QED
        BY <1>6, <2>1, <2>3, <3>1
    <2> QED
      BY <2>2, <2>3
  <1>7. CASE k.op = "bindVao"
    BY <1>7
  <1>8. CASE k.op = "delTex"
    BY <1>8
  <1>9. CASE k.op = "delSmp"
    BY <1>9
  <1>10. CASE k.op = "delFb"
    BY <1>10
  <1>11. CASE k.op = "delVao"
    BY <1>11
  <1>12. CASE k.op \notin {"cap", "view", "active", "bindTex", "bindSmp", "bindFb",
                           "bindVao", "delTex", "delSmp", "delFb", "delVao"}
    BY <1>12
  <1> QED
    BY <1>1, <1>2, <1>3, <1>4, <1>5, <1>6, <1>7, <1>8, <1>9, <1>10, <1>11, <1>12

LEMMA NotedIs ==
  ASSUME shadow \in [Contexts -> ShadowType], NEW c \in Contexts, NEW k, k.op \in Ops
  PROVE  Noted(c, k) = [e \in Contexts |-> Noted(c, k)[e]]
  <1>1. ASSUME NEW x PROVE [shadow EXCEPT ![c] = x] = [e \in Contexts |-> [shadow EXCEPT ![c] = x][e]]
    OBVIOUS
  <1>2. CASE k.op \in {"delTex", "delSmp", "delFb", "delVao"}
    BY <1>2 DEF Noted, WithoutTexture
  <1>3. CASE k.op \in {"cap", "view", "active", "bindTex", "bindSmp", "bindFb", "bindVao"}
    <2>1. \E x : Noted(c, k) = [shadow EXCEPT ![c] = x]
      BY <1>3 DEF Noted
    <2> QED
      BY <1>1, <2>1
  <1>4. CASE k.op \notin {"cap", "view", "active", "bindTex", "bindSmp", "bindFb",
                          "bindVao", "delTex", "delSmp", "delFb", "delVao"}
    BY <1>4 DEF Noted
  <1> QED
    BY <1>2, <1>3, <1>4

LEMMA NotedArraysAre ==
  ASSUME stub_vaos \in [Contexts -> ArraysType], bound_array \in [Contexts -> Name0],
         NEW c \in Contexts, NEW d \in Contexts, NEW k, k.op \in Ops
  PROVE  /\ NotedArrays(c, k)[d] = ArraysAfter(c, d, k)
         /\ NotedArrays(c, k) = [e \in Contexts |-> NotedArrays(c, k)[e]]
         /\ NotedArray(c, k)[d] = IF d = c /\ k.op = "bindArray" THEN k.n
                                  ELSE IF d = c /\ k.op = "delBuf" /\ bound_array[d] = k.n
                                  THEN 0 ELSE bound_array[d]
         /\ NotedArray(c, k) = [e \in Contexts |-> NotedArray(c, k)[e]]
  <1> USE DEF NotedArrays, NotedArray, ArraysAfter, ArraysType
  <1>1. CASE k.op = "bindEbo"
    BY <1>1
  <1>2. CASE k.op = "bindVao"
    BY <1>2
  <1>3. CASE k.op = "bindArray"
    BY <1>3
  <1>4. CASE k.op = "delBuf"
    BY <1>4
  <1>5. CASE k.op \notin {"bindEbo", "bindVao", "bindArray", "delBuf"}
    BY <1>5
  <1> QED
    BY <1>1, <1>2, <1>3, <1>4, <1>5

-----------------------------------------------------------------------------
(* What the invariant says of a call under way *)

LEMMA NamedIs ==
  ASSUME NEW t, NEW d
  PROVE  Named(t, d) = live[d][Home(d, g_stub_current_ctx[t])]
  BY DEF Named, Home

LEMMA InHandFacts ==
  ASSUME TypesInv, ThreadInv, HandInv, NEW t \in Threads, phase[t] # "idle"
  PROVE  LET k == call[t]
             c == g_stub_current_ctx[t]
         IN  /\ CallShape(k) /\ k.op \in Ops
             /\ c \in made /\ c \in Contexts
             /\ Kind(k) # "none" /\ k.n # 0 => k.n \in live[Kind(k)][Home(Kind(k), c)]
  <1> DEFINE k == call[t]
             c == g_stub_current_ctx[t]
  <1>1. c \in made /\ c \in Contexts
    BY DEF TypesInv, TypeOK, ThreadInv
  <1>2. k.op \in Ops /\ k \in Calls(k.op, Named(t, Kind(k)))
    BY DEF HandInv, Hand
  <1>3. Kind(k) # "none" => Named(t, Kind(k)) \subseteq Names
    <2>1. Kind(k) # "none" => Kind(k) \in Kinds
      BY <1>2, KindIs, OpsAre DEF Kinds, Shared, Private, GenOps, DelOps
    <2>2. Home(Kind(k), c) \in Contexts \cup {0}
      BY <1>1 DEF Home
    <2> QED
      BY <2>1, <2>2, NamedIs DEF TypesInv, DriverTypes
  <1>4. \A o \in Ops : k.op = o /\ (Kind(k) # "none" => Named(t, Kind(k)) \subseteq Names) =>
          o \in {"cap", "view", "active", "attachRb"} \/ Named(t, Kind(k)) \subseteq Names
    BY KindIs
  <1>5. /\ CallShape(k)
        /\ Kind(k) # "none" /\ k.n # 0 => k.n \in Named(t, Kind(k))
    BY <1>2, <1>3, <1>4, CallsAre
  <1> QED
    BY <1>1, <1>2, <1>5, NamedIs

LEMMA GoingIs ==
  ASSUME NEW d, NEW h, NEW x
  PROVE  x \in Going(d, h) <=>
           \E u \in Threads : /\ phase[u] = "send" /\ Deletes(call[u]) /\ Kind(call[u]) = d
                              /\ Home(d, g_stub_current_ctx[u]) = h /\ x = call[u].n
  BY DEF Going

(* No call that begins or is kept back makes a name go.                    *)
LEMMA GoingShrinks ==
  ASSUME \A u \in Threads : phase'[u] = "send" /\ Deletes(call'[u]) =>
           /\ phase[u] = "send" /\ call'[u] = call[u]
           /\ g_stub_current_ctx'[u] = g_stub_current_ctx[u],
         NEW d, NEW h
  PROVE  Going(d, h)' \subseteq Going(d, h)
  <1> SUFFICES ASSUME NEW x \in Going(d, h)' PROVE x \in Going(d, h)
    OBVIOUS
  <1>1. PICK u \in Threads : /\ phase'[u] = "send" /\ Deletes(call'[u]) /\ Kind(call'[u]) = d
                             /\ Home(d, g_stub_current_ctx'[u]) = h /\ x = call'[u].n
    BY DEF Going
  <1> QED
    BY <1>1, GoingIs

LEMMA KeptStays ==
  ASSUME NEW d, NEW c, live' = live, Going(d, Home(d, c))' \subseteq Going(d, Home(d, c))
  PROVE  Kept(d, c) \subseteq Kept(d, c)' /\ Alive(d, c)' = Alive(d, c)
  BY DEF Kept, Alive

LEMMA NamesStay ==
  ASSUME NamesInv, \A d, h : Going(d, h)' \subseteq Going(d, h),
         UNCHANGED <<live, shadow, bound_array, stub_vaos, real, proxy_vaos, fbo_cache>>,
         made' \subseteq made
  PROVE  NamesInv'
  <1>1. ASSUME NEW d, NEW c
        PROVE  Kept(d, c) \subseteq Kept(d, c)' /\ Alive(d, c)' = Alive(d, c)
    BY KeptStays
  <1>2. \A d \in Private : \A c, e \in Contexts \cup {0} :
          c # e => live'[d][c] \cap live'[d][e] = {}
    BY DEF NamesInv
  <1>3. ASSUME NEW c \in made'
        PROVE  /\ \A u \in Units : /\ shadow'[c].tex[u] \in Kept("tex", c)' \cup {Forgotten}
                                   /\ shadow'[c].smp[u] \in Kept("smp", c)'
               /\ \A x \in Targets : /\ shadow'[c].fb[x] \in Kept("fb", c)'
                                     /\ real'[c].fb[x] \in Alive("fb", c)'
               /\ shadow'[c].vao \in Kept("vao", c)' /\ real'[c].vao \in Alive("vao", c)'
               /\ bound_array'[c] \in Kept("buf", c)'
               /\ \A v \in Name0 : /\ stub_vaos'[c].ebo[v] \in Kept("buf", c)'
                                   /\ proxy_vaos'[c].ebo[v] \in Alive("buf", c)'
               /\ \A e \in fbo_cache'[c] : /\ e.fbo \in Alive("fb", c)'
                                           /\ e.tex \in Alive("tex", c)'
    <2>1. c \in made
      BY <1>3
    <2> QED
      BY <1>1, <2>1 DEF NamesInv
  <1> QED
    BY <1>2, <1>3 DEF NamesInv

LEMMA MirrorStays ==
  ASSUME MirrorInv, made' \subseteq made,
         UNCHANGED <<shadow, bound_array, stub_vaos, real, gen>>,
         \A u \in Threads : (phase'[u] = "send" /\ ~Generates(call'[u])) <=> Noting(u),
         \A u \in Threads : Noting(u) => /\ call'[u] = call[u]
                                         /\ g_stub_current_ctx'[u] = g_stub_current_ctx[u]
  PROVE  MirrorInv'
  <1>1. ASSUME NEW c, NEW r, Mirrors(c, r)
        PROVE  LET s == shadow'[c]
                   v == stub_vaos'[c]
               IN  /\ s.cap = r.cap /\ s.view \in {Unknown, r.view} /\ s.unit = r.unit
                   /\ \A u \in Units :
                        /\ s.tex[u] # Forgotten => Object(gen', "tex", s.tex[u]) = r.tex[u]
                        /\ Object(gen', "smp", s.smp[u]) = r.smp[u]
                   /\ s.fb = r.fb /\ s.vao = r.vao /\ v.cur = r.vao
                   /\ Object(gen', "buf", bound_array'[c]) = r.array
                   /\ \A x \in Name0 : Object(gen', "buf", v.ebo[x]) = r.ebo[x]
    BY <1>1 DEF Mirrors
  <1> SUFFICES ASSUME NEW c \in made'
               PROVE  /\ (\A t \in Threads : g_stub_current_ctx'[t] = c => ~Noting(t)') =>
                           Mirrors(c, real[c])'
                      /\ \A t \in Threads : g_stub_current_ctx'[t] = c /\ Noting(t)' =>
                           Mirrors(c, Do(real[c], gen, call[t]))'
    BY DEF MirrorInv
  <1>2. ASSUME \A t \in Threads : g_stub_current_ctx'[t] = c => ~Noting(t)'
        PROVE  Mirrors(c, real[c])'
    <2>1. Mirrors(c, real[c])
      BY <1>2 DEF MirrorInv, Noting
    <2> QED
      BY <1>1, <2>1 DEF Mirrors
  <1>3. ASSUME NEW t \in Threads, g_stub_current_ctx'[t] = c, Noting(t)'
        PROVE  Mirrors(c, Do(real[c], gen, call[t]))'
    <2>1. Noting(t) /\ g_stub_current_ctx[t] = c /\ call'[t] = call[t]
      BY <1>3 DEF Noting
    <2>2. Mirrors(c, Do(real[c], gen, call[t]))
      BY <2>1 DEF MirrorInv
    <2> QED
      BY <1>1, <2>1, <2>2 DEF Mirrors
  <1> QED
    BY <1>2, <1>3

-----------------------------------------------------------------------------
(* Calls that begin or are kept back, and contexts *)

LEMMA StutterKeeps ==
  ASSUME GLInv, UNCHANGED stateVars
  PROVE  GLInv'
  <1> UNCHANGED <<shadow, bound_array, stub_vaos, g_stub_new_ctx, g_stub_current_ctx,
                  call, phase, fbo, fbo_cache, proxy_vaos, real, gen, live, made>>
    BY DEF stateVars, stubVars, proxyVars, driverVars
  <1>1. TypesInv'
    BY DEF GLInv, TypesInv, TypeOK, CopyTypes, DriverTypes, ThreadTypes
  <1>2. ThreadInv'
    BY DEF GLInv, ThreadInv
  <1>3. HandInv'
    <2>1. ASSUME NEW t \in Threads, Hand(t) PROVE Hand(t)'
      <3>1. g_stub_current_ctx' = g_stub_current_ctx /\ call' = call /\ real' = real
            /\ live' = live /\ gen' = gen /\ made' = made
        OBVIOUS
      <3>2. /\ Elsewhere(g_stub_current_ctx[t], call[t])' = Elsewhere(g_stub_current_ctx[t], call[t])
            /\ Free(g_stub_current_ctx[t], call[t])' = Free(g_stub_current_ctx[t], call[t])
            /\ Named(t, Kind(call[t]))' = Named(t, Kind(call[t]))
        BY <3>1 DEF Elsewhere, Free, Named
      <3> QED
        BY <2>1, <3>1, <3>2 DEF Hand
    <2> QED
      BY <2>1 DEF GLInv, HandInv
  <1>4. NamesInv'
    BY NamesStay, GoingShrinks DEF GLInv
  <1>5. MirrorInv'
    BY MirrorStays DEF GLInv, Noting
  <1>6. ProxyInv'
    BY DEF GLInv, ProxyInv, AttachmentsKnown
  <1>7. UnmadeInv' /\ NewInv'
    BY DEF GLInv, UnmadeInv, NewInv, Untouched
  <1> QED
    BY <1>1, <1>2, <1>3, <1>4, <1>5, <1>6, <1>7 DEF GLInv

LEMMA BeginKeeps ==
  ASSUME GLInv, Habits = {}, NEW t \in Threads, NEW o \in Ops, Begin(t, o)
  PROVE  GLInv'
  <1> DEFINE c == g_stub_current_ctx[t]
  <1>1. PICK k \in Calls(o, Named(t, Kind(GLCall(o, 0, FirstUnit, {}, {})))) :
          /\ Sensible(t, k)
          /\ call' = [call EXCEPT ![t] = k]
          /\ phase' = [phase EXCEPT ![t] =
               IF Consults(k) /\ g_stub_new_ctx # 0 THEN "reset" ELSE "entry"]
    BY DEF Begin
  <1>2. /\ phase[t] = "idle" /\ c # 0 /\ c \in made /\ c \in Contexts
        /\ UNCHANGED <<stubVars, g_stub_new_ctx, g_stub_current_ctx, proxyVars, driverVars>>
    BY DEF Begin, GLInv, ThreadInv, TypesInv, TypeOK
  <1>3. DOMAIN call = Threads /\ DOMAIN phase = Threads
    BY DEF GLInv, TypesInv, ThreadTypes
  <1>4. /\ call'[t] = k /\ phase'[t] \in {"reset", "entry"}
        /\ \A u \in Threads \ {t} : call'[u] = call[u] /\ phase'[u] = phase[u]
    BY <1>1, <1>3
  <1>5. k.op = o /\ Kind(GLCall(o, 0, FirstUnit, {}, {})) = Kind(k)
    BY <1>1 DEF Calls, GLCall, Kind, Generates, Deletes
  <1>6. CallShape(k)
    <2>1. Kind(k) # "none" => Kind(k) \in Kinds
      BY <1>5, KindIs, OpsAre DEF Kinds, Shared, Private, GenOps, DelOps
    <2>2. Home(Kind(k), c) \in Contexts \cup {0}
      BY <1>2 DEF Home
    <2>3. Kind(k) # "none" => Named(t, Kind(k)) \subseteq Names
      BY <2>1, <2>2, NamedIs DEF GLInv, TypesInv, DriverTypes
    <2>4. o \in {"cap", "view", "active", "attachRb"} \/ Named(t, Kind(k)) \subseteq Names
      BY <1>5, <2>3, KindIs
    <2> QED
      BY <1>1, <1>5, <2>4, CallsAre
  <1>7. k # NoCall
    BY <1>5, NoCallIs, OpsAre DEF GenOps, DelOps
  <1>8. \A u \in Threads : phase[u] = "idle" => call[u] = NoCall
    BY DEF GLInv, TypesInv, TypeOK
  <1>10. TypesInv'
    <2>1. /\ phase' \in [Threads -> {"idle", "reset", "entry", "send"}] /\ DOMAIN call' = Threads
      BY <1>1, <1>3 DEF GLInv, TypesInv, ThreadTypes
    <2>2. \A u \in Threads : phase'[u] = "idle" <=> call'[u] = NoCall
      <3>1. \A u \in Threads : phase[u] = "idle" <=> call[u] = NoCall
        BY DEF GLInv, TypesInv, TypeOK
      <3>2. phase'[t] # "idle" /\ call'[t] # NoCall
        BY <1>4, <1>7
      <3> QED
        BY <1>4, <3>1, <3>2
    <2> QED
      BY <1>2, <2>1, <2>2 DEF GLInv, TypesInv, TypeOK, CopyTypes, DriverTypes,
         ThreadTypes, stubVars, proxyVars, driverVars
  <1>11. ThreadInv'
    BY <1>2, <1>4 DEF GLInv, ThreadInv, driverVars
  <1>12. HandInv'
    <2>3. Deletes(k) => \A u \in Threads \ {t} : Kind(call[u]) = Kind(k) => call[u].n # k.n
      <3>1. Deletes(k) => k.n # 0
        BY <1>6, NamesAre DEF CallShape
      <3> QED
        BY <1>1, <3>1 DEF Sensible, InHand
    <2>4. \A u \in Threads \ {t} : phase[u] # "idle" =>
            /\ Generates(call[u]) => k.op # call[u].op
            /\ Deletes(call[u]) /\ Kind(k) = Kind(call[u]) => k.n # call[u].n
      <3> SUFFICES ASSUME NEW u \in Threads \ {t}, phase[u] # "idle"
                   PROVE  /\ Generates(call[u]) => k.op # call[u].op
                          /\ Deletes(call[u]) /\ Kind(k) = Kind(call[u]) => k.n # call[u].n
        OBVIOUS
      <3>1. Generates(call[u]) /\ k.op = call[u].op => Generates(k)
        BY DEF Generates
      <3>2. Deletes(call[u]) => call[u].n # 0
        BY InHandFacts, NamesAre DEF GLInv, CallShape
      <3> QED
        BY <1>1, <3>1, <3>2 DEF Sensible, InHand
    <2>5. Hand(t)'
      <3>1. k \in Calls(k.op, Named(t, Kind(k)))
        BY <1>1, <1>5
      <3>2. /\ Deletes(k) => ~Elsewhere(c, k)
            /\ k.op \in {"attach", "attachRb"} => Attachable(real[c], k) # 0
            /\ Generates(k) => /\ Free(c, k) # {}
                               /\ \A w \in Threads \ {t} : call[w].op # k.op
        BY <1>1 DEF Sensible
      <3>3. \A w \in Threads \ {t} : call'[w] = call[w]
        BY <1>4
      <3> QED
        BY <1>2, <1>4, <1>5, <2>3, <3>1, <3>2, <3>3
           DEF Hand, Named, Free, Elsewhere, driverVars
    <2>6. ASSUME NEW u \in Threads \ {t}, phase'[u] # "idle"
          PROVE  Hand(u)'
      <3>1. phase[u] # "idle" /\ call'[u] = call[u]
        BY <1>4, <2>6
      <3>2. Hand(u)
        BY <3>1 DEF GLInv, HandInv
      <3>3. \A w \in Threads \ {u} :
              /\ Generates(call[u]) => call'[w].op # call[u].op
              /\ Deletes(call[u]) /\ Kind(call'[w]) = Kind(call[u]) =>
                   call'[w].n # call[u].n
        <4>1. CASE Generates(call[u]) \/ Deletes(call[u])
          <5> SUFFICES ASSUME NEW w \in Threads \ {u}
                       PROVE /\ Generates(call[u]) => call'[w].op # call[u].op
                             /\ Deletes(call[u]) /\ Kind(call'[w]) = Kind(call[u]) =>
                                  call'[w].n # call[u].n
            OBVIOUS
          <5>1. CASE w = t
            BY <1>4, <2>4, <3>1, <5>1
          <5>2. CASE w # t
            BY <1>4, <3>2, <5>2 DEF Hand
          <5> QED
            BY <5>1, <5>2
        <4> QED
          BY <4>1
      <3> QED
        BY <1>2, <3>1, <3>2, <3>3 DEF Hand, Named, Free, Elsewhere, driverVars
    <2> QED
      BY <2>5, <2>6 DEF HandInv
  <1>13. \A u \in Threads : phase'[u] = "send" =>
           phase[u] = "send" /\ call'[u] = call[u]
    BY <1>4
  <1>14. NamesInv'
    <2>1. \A d, h : Going(d, h)' \subseteq Going(d, h)
      BY <1>2, <1>13, GoingShrinks
    <2> QED
      BY <1>2, <2>1, NamesStay DEF GLInv, stubVars, proxyVars, driverVars
  <1>15. MirrorInv'
    <2>1. \A u \in Threads : (phase'[u] = "send" /\ ~Generates(call'[u])) <=> Noting(u)
      BY <1>2, <1>4 DEF Noting
    <2>2. \A u \in Threads : Noting(u) => call'[u] = call[u]
      BY <1>2, <1>4 DEF Noting
    <2> QED
      BY <1>2, <2>1, <2>2, MirrorStays DEF GLInv, stubVars, proxyVars, driverVars
  <1>16. ProxyInv' /\ UnmadeInv'
    BY <1>2 DEF GLInv, ProxyInv, AttachmentsKnown, UnmadeInv, stubVars, proxyVars, driverVars
  <1>17. NewInv'
    <2>1. Untouched' = Untouched
      BY <1>2 DEF Untouched, stubVars, driverVars
    <2>2. g_stub_new_ctx # 0 => Consults(k) /\ \A u \in Threads \ {t} : phase[u] = "idle"
      BY <1>1 DEF Sensible
    <2>3. phase'[t] = IF Consults(k) /\ g_stub_new_ctx # 0 THEN "reset" ELSE "entry"
      BY <1>1, <1>3
    <2>4. \A u \in Threads : phase[u] # "reset"
      BY <1>1 DEF Sensible
    <2> QED
      BY <1>2, <1>4, <2>1, <2>2, <2>3, <2>4 DEF GLInv, NewInv
  <1> QED
    BY <1>10, <1>11, <1>12, <1>14, <1>15, <1>16, <1>17 DEF GLInv

LEMMA HandStays ==
  ASSUME NEW u \in Threads, Hand(u), UNCHANGED <<live, real, gen>>, made' \subseteq made,
         call'[u] = call[u], g_stub_current_ctx'[u] = g_stub_current_ctx[u],
         \A w \in Threads \ {u} : call'[w] = call[w] \/ call'[w] = NoCall
  PROVE  Hand(u)'
  <1> DEFINE k == call[u]
             c == g_stub_current_ctx[u]
  <1>0. UNCHANGED <<live, g_stub_current_ctx[u], call[u]>>
    OBVIOUS
  <1>1. k.op \in Ops /\ Named(u, Kind(k))' = Named(u, Kind(k)) /\ Free(c, k)' = Free(c, k)
    <2>1. k.op \in Ops
      BY DEF Hand
    <2>2. Named(u, Kind(k))' = Named(u, Kind(k))
      BY <1>0, Zenon DEF Named
    <2>3. live' = live
      OBVIOUS
    <2>4. Free(c, k)' = Free(c, k)
      BY <1>0, <2>3 DEF Free
    <2> QED
      BY <2>1, <2>2, <2>4
  <1>2. Deletes(k) => ~Elsewhere(c, k)'
    BY DEF Hand, Elsewhere
  <1>3. ASSUME NEW w \in Threads \ {u}
        PROVE  /\ Generates(k) => call'[w].op # k.op
               /\ Deletes(k) /\ Kind(call'[w]) = Kind(k) => call'[w].n # k.n
    <2>1. CASE call'[w] = call[w]
      BY <2>1 DEF Hand
    <2>2. CASE call'[w] = NoCall
      <3>1. Deletes(k) => Kind(k) # "none"
        BY <1>1, KindIs DEF DelOps
      <3>2. Generates(k) => k.op # "none"
        BY <1>1, KindIs DEF GenOps
      <3> QED
        BY <2>2, <3>1, <3>2, NoCallIs
    <2> QED
      BY <2>1, <2>2
  <1> QED
    BY <1>1, <1>2, <1>3 DEF Hand

LEMMA ResetKeeps ==
  ASSUME GLInv, NEW t \in Threads, ResetShadows(t)
  PROVE  GLInv'
  <1>1. /\ phase[t] = "reset" /\ g_stub_new_ctx # 0 /\ g_stub_new_ctx' = 0
        /\ UNCHANGED <<bound_array, g_stub_current_ctx, call, fbo, fbo_cache, proxy_vaos,
                       real, gen, live, made>>
        /\ Untouched /\ \A u \in Threads \ {t} : phase[u] = "idle"
    BY DEF ResetShadows, GLInv, NewInv, proxyVars, driverVars
  <1>2. shadow' = shadow /\ stub_vaos' = stub_vaos
    <2>1. \A c \in Contexts : shadow[c] = FreshShadow /\ stub_vaos[c] = FreshArrays
      BY <1>1 DEF Untouched
    <2>2. shadow = [c \in Contexts |-> shadow[c]] /\ stub_vaos = [c \in Contexts |-> stub_vaos[c]]
      BY DEF GLInv, TypesInv, CopyTypes
    <2> QED
      BY <2>1, <2>2 DEF ResetShadows
  <1>3. /\ phase' \in [Threads -> {"idle", "reset", "entry", "send"}]
        /\ phase'[t] = "entry" /\ \A u \in Threads \ {t} : phase'[u] = "idle" /\ phase[u] = "idle"
    BY <1>1 DEF ResetShadows, GLInv, TypesInv, ThreadTypes
  <1>4. TypesInv'
    <2>1. \A u \in Threads : phase'[u] = "idle" <=> call'[u] = NoCall
      BY <1>1, <1>3 DEF GLInv, TypesInv, TypeOK
    <2>2. 0 \in Contexts \cup {0}
      OBVIOUS
    <2> QED
      BY <1>1, <1>2, <1>3, <2>1, <2>2 DEF GLInv, TypesInv, TypeOK, CopyTypes, DriverTypes,
         ThreadTypes
  <1>5. ThreadInv'
    <2>1. \A u \in Threads : phase'[u] # "idle" => phase[u] # "idle"
      BY <1>1, <1>3
    <2> QED
      BY <1>1, <2>1 DEF GLInv, ThreadInv
  <1>6. HandInv'
    <2>1. \A u \in Threads : phase'[u] # "idle" => phase[u] # "idle"
      BY <1>1, <1>3
    <2> QED
      BY <1>1, <2>1, HandStays DEF GLInv, HandInv
  <1>7. \A u \in Threads : phase'[u] # "send" /\ phase[u] # "send"
    BY <1>1, <1>3
  <1>8. NamesInv'
    BY <1>1, <1>2, <1>7, GoingShrinks, NamesStay DEF GLInv
  <1>9. MirrorInv'
    BY <1>1, <1>2, <1>7, MirrorStays DEF GLInv, Noting
  <1>10. ProxyInv' /\ UnmadeInv'
    BY <1>1 DEF GLInv, ProxyInv, AttachmentsKnown, UnmadeInv
  <1>11. NewInv'
    BY <1>1, <1>3 DEF NewInv
  <1> QED
    BY <1>4, <1>5, <1>6, <1>8, <1>9, <1>10, <1>11 DEF GLInv

LEMMA SkipKeeps ==
  ASSUME GLInv, NEW t \in Threads, Skip(t)
  PROVE  GLInv'
  <1>1. /\ phase[t] = "entry"
        /\ UNCHANGED <<shadow, bound_array, stub_vaos, g_stub_new_ctx, g_stub_current_ctx,
                       fbo, fbo_cache, proxy_vaos, real, gen, live, made>>
    BY DEF Skip, stubVars, proxyVars, driverVars
  <1>2. /\ phase' \in [Threads -> {"idle", "reset", "entry", "send"}] /\ DOMAIN call' = Threads
        /\ phase'[t] = "idle" /\ call'[t] = NoCall
        /\ \A u \in Threads \ {t} : phase'[u] = phase[u] /\ call'[u] = call[u]
    BY DEF Skip, GLInv, TypesInv, ThreadTypes
  <1>3. TypesInv'
    <2>1. \A u \in Threads : phase'[u] = "idle" <=> call'[u] = NoCall
      BY <1>2 DEF GLInv, TypesInv, TypeOK
    <2> QED
      BY <1>1, <1>2, <2>1 DEF GLInv, TypesInv, TypeOK, CopyTypes, DriverTypes, ThreadTypes
  <1>4. ThreadInv'
    BY <1>1, <1>2 DEF GLInv, ThreadInv
  <1>5. HandInv'
    <2>1. ASSUME NEW u \in Threads, phase'[u] # "idle" PROVE Hand(u)'
      <3>1. u # t /\ phase[u] # "idle"
        BY <1>2, <2>1
      <3>2. Hand(u)
        BY <3>1 DEF GLInv, HandInv
      <3>3. \A w \in Threads \ {u} : call'[w] = call[w] \/ call'[w] = NoCall
        BY <1>2
      <3> QED
        BY <1>1, <1>2, <3>1, <3>2, <3>3, HandStays
    <2> QED
      BY <2>1 DEF HandInv
  <1>6. \A u \in Threads : phase'[u] = "send" => phase[u] = "send" /\ call'[u] = call[u]
    BY <1>2
  <1>7. NamesInv'
    BY <1>1, <1>6, GoingShrinks, NamesStay DEF GLInv
  <1>8. MirrorInv'
    <2>1. \A u \in Threads : (phase'[u] = "send" /\ ~Generates(call'[u])) <=> Noting(u)
      BY <1>1, <1>2 DEF Noting
    <2>2. \A u \in Threads : Noting(u) => call'[u] = call[u]
      BY <1>1, <1>2 DEF Noting
    <2> QED
      BY <1>1, <2>1, <2>2, MirrorStays DEF GLInv
  <1>9. ProxyInv' /\ UnmadeInv'
    BY <1>1 DEF GLInv, ProxyInv, AttachmentsKnown, UnmadeInv
  <1>10. NewInv'
    <2>1. \A u \in Threads : phase'[u] # "idle" => phase'[u] = phase[u]
      BY <1>2
    <2>2. g_stub_new_ctx = 0
      BY <1>1 DEF GLInv, NewInv
    <2>3. \A u \in Threads : phase[u] # "reset"
      BY <2>2 DEF GLInv, NewInv
    <2>4. \A u \in Threads : phase'[u] # "reset"
      BY <2>1, <2>3
    <2> QED
      BY <1>1, <2>2, <2>4 DEF NewInv
  <1> QED
    BY <1>3, <1>4, <1>5, <1>7, <1>8, <1>9, <1>10 DEF GLInv

LEMMA MakeCurrentKeeps ==
  ASSUME GLInv, NEW t \in Threads, NEW c \in Contexts \cup {0}, MakeCurrent(t, c)
  PROVE  GLInv'
  <1>1. /\ phase[t] = "idle" /\ c \in made \cup {0}
        /\ c # 0 => \A u \in Threads : g_stub_current_ctx[u] # c
        /\ UNCHANGED <<shadow, bound_array, stub_vaos, g_stub_new_ctx, call, phase,
                       fbo, fbo_cache, proxy_vaos, real, gen, live, made>>
    BY DEF MakeCurrent, stubVars, proxyVars, driverVars
  <1>2. /\ g_stub_current_ctx' \in [Threads -> Contexts \cup {0}]
        /\ g_stub_current_ctx'[t] = c
        /\ \A u \in Threads \ {t} : g_stub_current_ctx'[u] = g_stub_current_ctx[u]
    BY DEF MakeCurrent, GLInv, TypesInv, ThreadTypes
  <1>3. TypesInv'
    BY <1>1, <1>2 DEF GLInv, TypesInv, TypeOK, CopyTypes, DriverTypes, ThreadTypes
  <1>4. ThreadInv'
    <2> SUFFICES ASSUME NEW u \in Threads
                 PROVE  /\ g_stub_current_ctx'[u] \in made' \cup {0}
                        /\ phase'[u] # "idle" => g_stub_current_ctx'[u] # 0
                        /\ \A w \in Threads : g_stub_current_ctx'[u] # 0
                             /\ g_stub_current_ctx'[w] = g_stub_current_ctx'[u] => w = u
      BY DEF ThreadInv
    <2>1. CASE u = t
      BY <1>1, <1>2, <2>1
    <2>2. CASE u # t
      BY <1>1, <1>2, <2>2 DEF GLInv, ThreadInv
    <2> QED
      BY <2>1, <2>2
  <1>5. \A u \in Threads : phase'[u] # "idle" =>
          phase[u] # "idle" /\ g_stub_current_ctx'[u] = g_stub_current_ctx[u]
    BY <1>1, <1>2
  <1>6. HandInv'
    BY <1>1, <1>5, HandStays DEF GLInv, HandInv
  <1>7. NamesInv'
    BY <1>1, <1>5, GoingShrinks, NamesStay DEF GLInv
  <1>8. MirrorInv'
    BY <1>1, <1>5, MirrorStays DEF GLInv, Noting
  <1>9. ProxyInv' /\ UnmadeInv' /\ NewInv'
    BY <1>1 DEF GLInv, ProxyInv, AttachmentsKnown, UnmadeInv, NewInv, Untouched
  <1> QED
    BY <1>3, <1>4, <1>6, <1>7, <1>8, <1>9 DEF GLInv

LEMMA DestroyKeeps ==
  ASSUME GLInv, NEW t \in Threads, NEW c \in Contexts, DestroyContext(t, c)
  PROVE  GLInv'
  <1>1. /\ c \in made /\ \A u \in Threads : g_stub_current_ctx[u] # c
        /\ made' = made \ {c}
        /\ UNCHANGED <<shadow, bound_array, stub_vaos, g_stub_new_ctx, g_stub_current_ctx,
                       call, phase, fbo, fbo_cache, proxy_vaos, real, gen, live>>
    BY DEF DestroyContext, stubVars, proxyVars
  <1>2. TypesInv'
    BY <1>1 DEF GLInv, TypesInv, TypeOK, CopyTypes, DriverTypes, ThreadTypes
  <1>3. ThreadInv'
    BY <1>1 DEF GLInv, ThreadInv
  <1>4. HandInv'
    BY <1>1, HandStays DEF GLInv, HandInv
  <1>5. NamesInv'
    BY <1>1, GoingShrinks, NamesStay DEF GLInv
  <1>6. MirrorInv'
    BY <1>1, MirrorStays DEF GLInv, Noting
  <1>7. ProxyInv'
    BY <1>1 DEF GLInv, ProxyInv, AttachmentsKnown
  <1>8. UnmadeInv'
    <2> SUFFICES ASSUME real[c] = FreshContext
                 PROVE  proxy_vaos[c] = FreshArrays /\ bound_array[c] = 0
      BY <1>1 DEF GLInv, UnmadeInv
    <2>1. proxy_vaos[c].cur = 0 /\ \A v \in Name0 : Object(gen, "buf", proxy_vaos[c].ebo[v]) = None
      BY <1>1 DEF GLInv, ProxyInv, FreshContext, Name0
    <2>2. gen \in GenType /\ "buf" \in Shared /\ proxy_vaos[c] \in ArraysType
          /\ bound_array[c] \in Name0
      BY DEF GLInv, TypesInv, DriverTypes, CopyTypes, GenType, Shared
    <2>3. \A v \in Name0 : proxy_vaos[c].ebo[v] = 0
      BY <2>1, <2>2, ObjectIn DEF ArraysType
    <2>4. proxy_vaos[c] = FreshArrays
      BY <2>1, <2>2, <2>3 DEF ArraysType, FreshArrays, Name0
    <2>5. Mirrors(c, real[c])
      BY <1>1 DEF GLInv, MirrorInv
    <2>6. Object(gen, "buf", bound_array[c]) = None
      BY <2>5 DEF Mirrors, FreshContext
    <2> QED
      BY <2>2, <2>4, <2>6, ObjectIn
  <1>9. NewInv'
    BY <1>1 DEF GLInv, NewInv, Untouched
  <1> QED
    BY <1>2, <1>3, <1>4, <1>5, <1>6, <1>7, <1>8, <1>9 DEF GLInv

LEMMA FreshMirrors ==
  ASSUME NEW c, shadow[c] = FreshShadow, stub_vaos[c] = FreshArrays, bound_array[c] = 0
  PROVE  Mirrors(c, FreshContext)
  BY DEF Mirrors, FreshShadow, FreshArrays, FreshContext, Object, Name0, Targets

(* For programs that make their contexts first.                            *)
LEMMA CreateFacts ==
  ASSUME GLInv, Habits = {}, NEW t \in Threads, CreateContext(t)
  PROVE  \E c \in Contexts \ made :
           /\ Untouched /\ Idle /\ made' = made \cup {c} /\ real' = real
           /\ live' = [k \in Kinds |-> IF k \in Private THEN [live[k] EXCEPT ![c] = {}]
                                                        ELSE live[k]]
           /\ fbo_cache' = [fbo_cache EXCEPT ![c] = {}]
           /\ fbo' = [fbo EXCEPT ![c] = [x \in Targets |-> 0]]
           /\ g_stub_new_ctx' = c
           /\ UNCHANGED <<shadow, bound_array, stub_vaos, g_stub_current_ctx, call, phase,
                          proxy_vaos, gen>>
  <1> DEFINE c == Min(Contexts \ made)
  <1>1. c \in Contexts \ made
    <2>1. made # Contexts /\ made \subseteq Contexts
      BY DEF CreateContext, GLInv, TypesInv, TypeOK
    <2>2. Contexts \ made # {} /\ Contexts \ made \subseteq Nat
      BY <2>1, ContextsAre
    <2> QED
      BY <2>2, MinIn
  <1>2. Untouched /\ Idle
    BY DEF CreateContext
  <1>3. real' = real
    <2>1. real' = [real EXCEPT ![c] = FreshContext] /\ real[c] = FreshContext
      BY <1>1, <1>2 DEF CreateContext, Untouched
    <2> QED
      BY <2>1 DEF GLInv, TypesInv, DriverTypes
  <1> QED
    BY <1>1, <1>2, <1>3 DEF CreateContext, stubVars

LEMMA CreateKeeps ==
  ASSUME GLInv, Habits = {}, NEW t \in Threads, CreateContext(t)
  PROVE  GLInv'
  <1>1. PICK c \in Contexts \ made :
           /\ Untouched /\ Idle /\ made' = made \cup {c} /\ real' = real
           /\ live' = [k \in Kinds |-> IF k \in Private THEN [live[k] EXCEPT ![c] = {}]
                                                        ELSE live[k]]
           /\ fbo_cache' = [fbo_cache EXCEPT ![c] = {}]
           /\ fbo' = [fbo EXCEPT ![c] = [x \in Targets |-> 0]]
           /\ g_stub_new_ctx' = c
           /\ UNCHANGED <<shadow, bound_array, stub_vaos, g_stub_current_ctx, call, phase,
                          proxy_vaos, gen>>
    BY CreateFacts
  <1>2. \A u \in Threads : phase[u] = "idle" /\ phase'[u] = "idle"
    BY <1>1 DEF Idle
  <1>3. /\ real[c] = FreshContext /\ shadow[c] = FreshShadow /\ stub_vaos[c] = FreshArrays
        /\ proxy_vaos[c] = FreshArrays /\ bound_array[c] = 0
    BY <1>1 DEF Untouched, GLInv, UnmadeInv
  <1>4. /\ live \in [Kinds -> [Contexts \cup {0} -> SUBSET Names]]
        /\ live' \in [Kinds -> [Contexts \cup {0} -> SUBSET Names]]
        /\ \A d \in Kinds : \A h \in Contexts \cup {0} :
             live'[d][h] = IF d \in Private /\ h = c THEN {} ELSE live[d][h]
    BY <1>1 DEF GLInv, TypesInv, DriverTypes
  <1>5. /\ fbo_cache' \in [Contexts -> SUBSET EntryType] /\ fbo_cache'[c] = {}
        /\ fbo' \in [Contexts -> [Targets -> Name0]] /\ fbo'[c] = [x \in Targets |-> 0]
        /\ \A d \in Contexts \ {c} : fbo_cache'[d] = fbo_cache[d] /\ fbo'[d] = fbo[d]
    BY <1>1 DEF GLInv, TypesInv, CopyTypes, Name0
  <1>6. TypesInv'
    <2>1. \A d \in Contexts : /\ IsFiniteSet(fbo_cache'[d])
                              /\ Cardinality(fbo_cache'[d]) <= CacheEntries
      <3>1. IsFiniteSet({}) /\ Cardinality({}) <= CacheEntries
        BY FS_EmptySet, StateAssumption
      <3> QED
        BY <1>5, <3>1 DEF GLInv, TypesInv, TypeOK, CopyTypes
    <2>2. made' \subseteq Contexts /\ g_stub_new_ctx' \in Contexts \cup {0}
      BY <1>1 DEF GLInv, TypesInv, TypeOK
    <2> QED
      BY <1>1, <1>4, <1>5, <2>1, <2>2 DEF GLInv, TypesInv, TypeOK, CopyTypes, DriverTypes,
         ThreadTypes
  <1>7. ThreadInv'
    BY <1>1, <1>2 DEF GLInv, ThreadInv
  <1>8. HandInv'
    BY <1>2 DEF HandInv
  <1>9. NamesInv'
    <2>1. \A d \in Private : \A b, e \in Contexts \cup {0} :
            b # e => live'[d][b] \cap live'[d][e] = {}
      <3>1. Private \subseteq Kinds
        BY DEF Kinds
      <3> QED
        BY <1>4, <3>1 DEF GLInv, NamesInv
    <2>2. \A d, h : Going(d, h)' = {}
      BY <1>2 DEF Going
    <2>3. ASSUME NEW d \in Kinds, NEW b \in made
          PROVE  Kept(d, b) \subseteq Kept(d, b)' /\ Alive(d, b) = Alive(d, b)'
      <3>1. b \in Contexts /\ b # c
        BY <1>1, <2>3 DEF GLInv, TypesInv, TypeOK
      <3>2. Home(d, b) \in Contexts \cup {0} /\ (d \in Private => d \notin Shared)
        BY <3>1 DEF Home, Private, Shared
      <3>3. live'[d][Home(d, b)] = live[d][Home(d, b)]
        BY <1>4, <3>1, <3>2 DEF Home
      <3> QED
        BY <2>2, <3>3 DEF Kept, Alive
    <2>4. {"tex", "smp", "buf", "fb", "vao"} \subseteq Kinds
      BY DEF Kinds, Shared, Private
    <2>5. ASSUME NEW b \in made'
          PROVE  /\ \A u \in Units : /\ shadow'[b].tex[u] \in Kept("tex", b)' \cup {Forgotten}
                                     /\ shadow'[b].smp[u] \in Kept("smp", b)'
                 /\ \A x \in Targets : /\ shadow'[b].fb[x] \in Kept("fb", b)'
                                       /\ real'[b].fb[x] \in Alive("fb", b)'
                 /\ shadow'[b].vao \in Kept("vao", b)' /\ real'[b].vao \in Alive("vao", b)'
                 /\ bound_array'[b] \in Kept("buf", b)'
                 /\ \A v \in Name0 : /\ stub_vaos'[b].ebo[v] \in Kept("buf", b)'
                                     /\ proxy_vaos'[b].ebo[v] \in Alive("buf", b)'
                 /\ \A e \in fbo_cache'[b] : /\ e.fbo \in Alive("fb", b)'
                                             /\ e.tex \in Alive("tex", b)'
      <3>1. CASE b = c
        <4>1. \A d : 0 \in Kept(d, b)' /\ 0 \in Alive(d, b)'
          BY DEF Kept, Alive
        <4> QED
          BY <1>1, <1>3, <1>5, <3>1, <4>1 DEF FreshShadow, FreshContext, FreshArrays, Name0
      <3>2. CASE b # c
        <4>1. b \in made /\ b \in Contexts
          BY <1>1, <3>2 DEF GLInv, TypesInv, TypeOK
        <4>2. \A d \in {"tex", "smp", "buf", "fb", "vao"} :
                Kept(d, b) \subseteq Kept(d, b)' /\ Alive(d, b) = Alive(d, b)'
          BY <2>3, <2>4, <4>1
        <4> QED
          BY <1>1, <1>5, <3>2, <4>1, <4>2 DEF GLInv, NamesInv
      <3> QED
        BY <3>1, <3>2
    <2> QED
      BY <2>1, <2>5 DEF NamesInv
  <1>10. MirrorInv'
    <2>1. \A u \in Threads : ~Noting(u)' /\ ~Noting(u)
      BY <1>2 DEF Noting
    <2>2. ASSUME NEW b \in made' PROVE Mirrors(b, real[b])
      <3>1. CASE b = c
        BY <1>3, <3>1, FreshMirrors
      <3>2. CASE b # c
        BY <1>1, <2>1, <3>2 DEF GLInv, MirrorInv
      <3> QED
        BY <3>1, <3>2
    <2>3. ASSUME NEW b \in made' PROVE Mirrors(b, real[b])'
      BY <1>1, <2>2 DEF Mirrors
    <2> QED
      BY <2>1, <2>3 DEF MirrorInv
  <1>11. ProxyInv'
    <2> SUFFICES ASSUME NEW b \in made'
                 PROVE  /\ fbo'[b] = real'[b].fb /\ proxy_vaos'[b].cur = real'[b].vao
                        /\ \A v \in Name0 : Object(gen', "buf", proxy_vaos'[b].ebo[v]) = real'[b].ebo[v]
                        /\ \A e \in fbo_cache'[b] : \A p \in e.points :
                             real'[b].att[e.fbo][p] = Object(gen', "tex", e.tex)
      BY DEF ProxyInv, AttachmentsKnown
    <2>1. CASE b = c
      BY <1>1, <1>3, <1>5, <2>1 DEF FreshContext, FreshArrays, Name0, Object
    <2>2. CASE b # c
      <3>1. b \in made /\ b \in Contexts
        BY <1>1, <2>2 DEF GLInv, TypesInv, TypeOK
      <3> QED
        BY <1>1, <1>5, <2>2, <3>1 DEF GLInv, ProxyInv, AttachmentsKnown
    <2> QED
      BY <2>1, <2>2
  <1>12. UnmadeInv'
    BY <1>1 DEF GLInv, UnmadeInv
  <1>13. NewInv'
    BY <1>1, <1>2 DEF NewInv, Untouched
  <1> QED
    BY <1>6, <1>7, <1>8, <1>9, <1>10, <1>11, <1>12, <1>13 DEF GLInv

-----------------------------------------------------------------------------
(* A call is noted *)

(* Who does not name an object does not bind it.                           *)
LEMMA DoKeepsOff ==
  ASSUME NEW r \in ContextType, NEW g \in GenType, NEW k, CallShape(k), NEW n \in Names
  PROVE  /\ (Kind(k) = "smp" => k.n # n) /\ (\A v \in Units : r.smp[v] # Object(g, "smp", n))
              => \A v \in Units : Do(r, g, k).smp[v] # Object(g, "smp", n)
         /\ (Kind(k) = "buf" => k.n # n) /\ r.array # Object(g, "buf", n)
              => Do(r, g, k).array # Object(g, "buf", n)
         /\ (Kind(k) = "buf" => k.n # n) /\ (\A v \in Name0 : r.ebo[v] # Object(g, "buf", n))
              => \A v \in Name0 : Do(r, g, k).ebo[v] # Object(g, "buf", n)
  <1>1. /\ k.op \in Ops /\ k.unit \in Units /\ n \in Name0 /\ n # 0
        /\ "smp" \in Shared /\ "buf" \in Shared
    BY NamesAre DEF CallShape, CallType, Name0, Shared
  <1>2. /\ k.op \in {"bindSmp", "delSmp"} <=> Kind(k) = "smp" /\ k.op # "genSmp"
        /\ k.op \in {"bindArray", "bindEbo", "delBuf"} <=> Kind(k) = "buf" /\ k.op # "genBuf"
    BY <1>1, KindIs
  <1>3. \A d \in Shared : /\ None # Object(g, d, n)
                          /\ k.n \in Name0 /\ k.n # n => Object(g, d, k.n) # Object(g, d, n)
    BY <1>1, ObjectIn, ObjectApart
  <1>4. /\ r.smp \in [Units -> Objects] /\ r.array \in Objects /\ r.ebo \in [Name0 -> Objects]
    BY DEF ContextType
  <1>5. k.op \notin {"cap", "view", "active"} => k.n \in Name0
    BY DEF CallShape
  <1>6. ASSUME Kind(k) = "smp" => k.n # n, \A v \in Units : r.smp[v] # Object(g, "smp", n),
               NEW v \in Units
        PROVE  SmpAfter(r, g, k)[v] # Object(g, "smp", n)
    <2>1. CASE k.op = "bindSmp"
      BY <1>1, <1>2, <1>3, <1>4, <1>5, <1>6, <2>1 DEF SmpAfter
    <2>2. CASE k.op = "delSmp"
      BY <1>1, <1>3, <1>4, <1>6, <2>2, WithoutIs DEF SmpAfter
    <2> QED
      BY <1>6, <2>1, <2>2 DEF SmpAfter
  <1>7. ASSUME Kind(k) = "buf" => k.n # n, r.array # Object(g, "buf", n)
        PROVE  ArrayAfter(r.array, g, k) # Object(g, "buf", n)
    BY <1>1, <1>2, <1>3, <1>5, <1>7 DEF ArrayAfter
  <1>8. ASSUME Kind(k) = "buf" => k.n # n, \A v \in Name0 : r.ebo[v] # Object(g, "buf", n),
               NEW v \in Name0
        PROVE  EboAfter(r, g, k)[v] # Object(g, "buf", n)
    <2>1. CASE k.op = "bindEbo"
      BY <1>1, <1>2, <1>3, <1>4, <1>5, <1>8, <2>1 DEF EboAfter
    <2>2. CASE k.op = "genVao"
      BY <1>1, <1>3, <1>4, <1>8, <2>2 DEF EboAfter
    <2>3. CASE k.op = "delBuf"
      BY <1>1, <1>3, <1>4, <1>8, <2>3 DEF EboAfter
    <2> QED
      BY <1>8, <2>1, <2>2, <2>3 DEF EboAfter
  <1>9. /\ Do(r, g, k).smp = SmpAfter(r, g, k)
        /\ Do(r, g, k).array = ArrayAfter(r.array, g, k)
        /\ Do(r, g, k).ebo = EboAfter(r, g, k)
    BY <1>1, DoFields
  <1> QED
    BY <1>6, <1>7, <1>8, <1>9

(* What the driver will have set in context d when it has run what is      *)
(* noted.                                                                  *)
Coming(d, r) ==
  \/ r = real[d] /\ \A t \in Threads : g_stub_current_ctx[t] = d => ~Noting(t)
  \/ \E t \in Threads : /\ g_stub_current_ctx[t] = d /\ Noting(t)
                        /\ r = Do(real[d], gen, call[t])

LEMMA ComingMirrors ==
  ASSUME GLInv, NEW d \in made, NEW r, Coming(d, r)
  PROVE  Mirrors(d, r)
  BY DEF GLInv, MirrorInv, Coming

LEMMA RealType ==
  ASSUME GLInv
  PROVE  /\ \A d \in Contexts : real[d] \in ContextType
         /\ gen \in GenType /\ made \subseteq Contexts
  BY DEF GLInv, TypesInv, TypeOK, DriverTypes, GenType

LEMMA HandType ==
  ASSUME GLInv, NEW t \in Threads, phase[t] # "idle"
  PROVE  /\ CallShape(call[t]) /\ call[t].op \in Ops /\ g_stub_current_ctx[t] \in made
         /\ Hand(t)
  BY InHandFacts DEF GLInv, HandInv

(* Nothing another thread has bound, or is about to, is being deleted.     *)
LEMMA OthersKeepOff ==
  ASSUME GLInv, NEW t \in Threads, phase[t] # "idle",
         NEW d \in made \ {g_stub_current_ctx[t]}, NEW r, Coming(d, r)
  PROVE  /\ call[t].op = "delSmp" =>
              \A v \in Units : r.smp[v] # Object(gen, "smp", call[t].n)
         /\ call[t].op = "delBuf" => /\ r.array # Object(gen, "buf", call[t].n)
                                     /\ \A v \in Name0 : r.ebo[v] # Object(gen, "buf", call[t].n)
  <1> DEFINE k == call[t]
  <1>1. CallShape(k) /\ k.op \in Ops /\ Hand(t)
    BY HandType
  <1>2. real[d] \in ContextType /\ gen \in GenType
    BY RealType
  <1>3. DOMAIN real[d].ebo = Name0
    BY <1>2 DEF ContextType
  <1>4. ASSUME k.op = "delSmp" \/ k.op = "delBuf"
        PROVE  /\ Deletes(k) /\ k.n \in Names
               /\ k.op = "delSmp" =>
                    Kind(k) = "smp" /\ \A v \in Units : real[d].smp[v] # Object(gen, "smp", k.n)
               /\ k.op = "delBuf" =>
                    /\ Kind(k) = "buf" /\ real[d].array # Object(gen, "buf", k.n)
                    /\ \A v \in Name0 : real[d].ebo[v] # Object(gen, "buf", k.n)
    <2>1. Deletes(k) /\ (k.op = "delSmp" => Kind(k) = "smp") /\ (k.op = "delBuf" => Kind(k) = "buf")
      BY <1>1, <1>4, KindIs DEF DelOps
    <2>2. ~Elsewhere(g_stub_current_ctx[t], k)
      BY <1>1, <2>1 DEF Hand
    <2> QED
      BY <1>1, <1>3, <2>1, <2>2 DEF Elsewhere, CallShape, Shared
  <1>5. CASE r = real[d]
    BY <1>4, <1>5
  <1>6. ASSUME NEW u \in Threads, g_stub_current_ctx[u] = d, Noting(u),
               r = Do(real[d], gen, call[u]), k.op = "delSmp" \/ k.op = "delBuf"
        PROVE  /\ k.op = "delSmp" => \A v \in Units : r.smp[v] # Object(gen, "smp", k.n)
               /\ k.op = "delBuf" => /\ r.array # Object(gen, "buf", k.n)
                                     /\ \A v \in Name0 : r.ebo[v] # Object(gen, "buf", k.n)
    <2>1. u # t /\ CallShape(call[u])
      BY <1>6, HandType DEF Noting
    <2>2. Kind(call[u]) = Kind(k) => call[u].n # k.n
      BY <1>1, <1>4, <1>6, <2>1 DEF Hand
    <2> QED
      BY <1>2, <1>4, <1>6, <2>1, <2>2, DoKeepsOff
  <1> QED
    BY <1>5, <1>6 DEF Coming

(* The copies of context c follow its call k; those of the others follow   *)
(* nothing, for they do not name what k deletes.                           *)
LEMMA NoteMirrorsOwn ==
  ASSUME GLInv, NEW t \in Threads, Note(t)
  PROVE  LET k == call[t]
             c == g_stub_current_ctx[t]
         IN  Mirrors(c, IF Generates(k) THEN real[c] ELSE Do(real[c], gen, k))'
  <1> DEFINE k == call[t]
             c == g_stub_current_ctx[t]
             r == real[c]
             R == IF Generates(k) THEN r ELSE Do(r, gen, k)
             s == shadow[c]
             v == stub_vaos[c]
  <1>1. /\ phase[t] = "entry" /\ shadow' = Noted(c, k) /\ bound_array' = NotedArray(c, k)
        /\ stub_vaos' = NotedArrays(c, k)
        /\ UNCHANGED <<gen, real, g_stub_current_ctx, call>>
    BY DEF Note, driverVars
  <1>2. /\ CallShape(k) /\ k.op \in Ops /\ c \in made /\ c \in Contexts /\ Hand(t)
        /\ r \in ContextType /\ gen \in GenType
    BY <1>1, HandType, RealType
  <1>3. /\ s \in ShadowType /\ v \in ArraysType /\ bound_array[c] \in Name0
        /\ shadow \in [Contexts -> ShadowType] /\ stub_vaos \in [Contexts -> ArraysType]
        /\ bound_array \in [Contexts -> Name0]
    BY <1>2 DEF GLInv, TypesInv, CopyTypes
  <1>4. Mirrors(c, r)
    <2>1. \A u \in Threads : g_stub_current_ctx[u] = c => u = t
      BY <1>2, ContextsAre DEF GLInv, ThreadInv
    <2>2. ~Noting(t)
      BY <1>1 DEF Noting
    <2> QED
      BY <1>2, <2>1, <2>2 DEF GLInv, MirrorInv
  <1>5. Generates(k) <=> k.op \in GenOps
    BY <1>2, KindIs
  <1>6. Do(r, gen, k) =
           [cap |-> IF k.op = "cap" THEN k.n ELSE r.cap,
            view |-> IF k.op = "view" THEN k.n ELSE r.view,
            unit |-> IF k.op = "active" THEN k.n ELSE r.unit,
            tex |-> TexAfter(r, gen, k), smp |-> SmpAfter(r, gen, k),
            fb |-> FbAfter(r.fb, k), att |-> AttAfter(r, gen, k),
            vao |-> VaoAfter(r.vao, k), array |-> ArrayAfter(r.array, gen, k),
            ebo |-> EboAfter(r, gen, k)]
    BY <1>2, DoFields
  <1>a. shadow'[c] = ShadowAfter(c, c, k)
    BY <1>1, <1>2, <1>3, NotedFields
  <1>b. /\ stub_vaos'[c] = ArraysAfter(c, c, k)
        /\ bound_array'[c] = IF k.op = "bindArray" THEN k.n
                             ELSE IF k.op = "delBuf" /\ bound_array[c] = k.n THEN 0
                             ELSE bound_array[c]
    BY <1>1, <1>2, <1>3, NotedArraysAre
  <1>7. /\ shadow'[c] =
           [cap |-> IF k.op = "cap" THEN k.n ELSE s.cap,
            view |-> IF k.op = "view" THEN k.n ELSE s.view,
            unit |-> IF k.op = "active" THEN k.n ELSE s.unit,
            tex |-> IF k.op = "bindTex" THEN [s.tex EXCEPT ![s.unit] = k.n]
                    ELSE IF k.op = "delTex" THEN Renamed(s.tex, k.n, Forgotten) ELSE s.tex,
            smp |-> IF k.op = "bindSmp" THEN [s.smp EXCEPT ![k.unit] = k.n]
                    ELSE IF k.op = "delSmp" THEN Renamed(s.smp, k.n, 0) ELSE s.smp,
            fb |-> IF k.op = "bindFb"
                   THEN [x \in Targets |-> IF x \in k.targets THEN k.n ELSE s.fb[x]]
                   ELSE IF k.op = "delFb" THEN Renamed(s.fb, k.n, 0) ELSE s.fb,
            vao |-> IF k.op = "bindVao" THEN k.n
                    ELSE IF k.op = "delVao" THEN (IF s.vao = k.n THEN 0 ELSE s.vao)
                    ELSE s.vao]
        /\ stub_vaos'[c] =
           [cur |-> IF k.op = "bindVao" THEN k.n ELSE v.cur,
            ebo |-> IF k.op = "bindEbo" THEN [v.ebo EXCEPT ![v.cur] = k.n]
                    ELSE IF k.op = "delBuf" THEN Renamed(v.ebo, k.n, 0) ELSE v.ebo]
    BY <1>a, <1>b DEF ShadowAfter, ArraysAfter
  <1>8. CASE Generates(k)
    <2>1. k.op \in GenOps
      BY <1>5, <1>8
    <2>2. shadow'[c] = s /\ stub_vaos'[c] = v /\ bound_array'[c] = bound_array[c]
      BY <1>3, <1>b, <1>7, <2>1 DEF GenOps, ShadowType, ArraysType
    <2> QED
      BY <1>1, <1>4, <1>8, <2>2 DEF Mirrors
  <1>9. CASE ~Generates(k)
    <2> HIDE DEF k, c, r, s, v
    <2>g. k.op \notin GenOps
      BY <1>5, <1>9
    <2>s. "tex" \in Shared /\ "smp" \in Shared /\ "buf" \in Shared /\ 0 \in Name0
          /\ \A d \in Shared : Object(gen, d, 0) = None
      BY DEF Shared, Name0, Object
    <2>n. /\ k.op \notin {"cap", "view", "active"} => k.n \in Name0
          /\ k.op \in DelOps => k.n # 0 /\ k.n \in Names
          /\ k.unit \in Units /\ s.unit \in Units
      BY <1>2, <1>3, NamesAre, KindIs DEF CallShape, CallType, ShadowType
    <2>m. /\ s.cap = r.cap /\ s.view \in {Unknown, r.view} /\ s.unit = r.unit
          /\ \A u \in Units : /\ s.tex[u] # Forgotten => Object(gen, "tex", s.tex[u]) = r.tex[u]
                              /\ Object(gen, "smp", s.smp[u]) = r.smp[u]
          /\ s.fb = r.fb /\ s.vao = r.vao /\ v.cur = r.vao
          /\ Object(gen, "buf", bound_array[c]) = r.array
          /\ \A x \in Name0 : Object(gen, "buf", v.ebo[x]) = r.ebo[x]
      BY <1>4 DEF Mirrors, r, s, v
    <2>o. \A d \in Shared : \A m \in Name0 : k.n \in Name0 =>
             (Object(gen, d, m) = Object(gen, d, k.n) <=> m = k.n)
      BY <1>2, ObjectApart
    <2>1. /\ shadow'[c].cap = Do(r, gen, k).cap /\ shadow'[c].unit = Do(r, gen, k).unit
          /\ shadow'[c].view \in {Unknown, Do(r, gen, k).view}
      BY <1>6, <1>b, <1>7, <2>m
    <2>2. ASSUME NEW u \in Units, shadow'[c].tex[u] # Forgotten
          PROVE  Object(gen, "tex", shadow'[c].tex[u]) = Do(r, gen, k).tex[u]
      <3> SUFFICES Object(gen, "tex", shadow'[c].tex[u]) = TexAfter(r, gen, k)[u]
        BY <1>6
      <3>1. s.tex \in [Units -> Name0 \cup {Forgotten}] /\ r.tex \in [Units -> Objects]
        BY <1>2, <1>3 DEF ShadowType, ContextType
      <3>2. CASE k.op = "bindTex"
        BY <1>b, <1>7, <2>2, <2>m, <2>n, <3>1, <3>2 DEF TexAfter
      <3>3. CASE k.op = "delTex"
        <4>1. shadow'[c].tex[u] = IF s.tex[u] = k.n THEN Forgotten ELSE s.tex[u]
          <5>1. Forgotten \in Name0 \cup {Forgotten}
            OBVIOUS
          <5>2. Renamed(s.tex, k.n, Forgotten)[u] = IF s.tex[u] = k.n THEN Forgotten ELSE s.tex[u]
            BY <3>1 DEF Renamed
          <5> QED
            BY <1>7, <3>3, <5>2
        <4>2. s.tex[u] # k.n /\ s.tex[u] # Forgotten /\ s.tex[u] \in Name0
              /\ shadow'[c].tex[u] = s.tex[u]
          BY <2>2, <3>1, <4>1
        <4>3. r.tex[u] # Object(gen, "tex", k.n)
          BY <2>m, <2>n, <2>o, <2>s, <3>3, <4>2 DEF DelOps
        <4> QED
          BY <2>m, <3>1, <3>3, <4>2, <4>3, WithoutIs DEF TexAfter
      <3>4. CASE k.op \notin {"bindTex", "delTex"}
        BY <1>b, <1>7, <2>2, <2>m, <3>4 DEF TexAfter
      <3> QED
        BY <3>2, <3>3, <3>4
    <2>3. ASSUME NEW u \in Units
          PROVE  Object(gen, "smp", shadow'[c].smp[u]) = Do(r, gen, k).smp[u]
      <3> SUFFICES Object(gen, "smp", shadow'[c].smp[u]) = SmpAfter(r, gen, k)[u]
        BY <1>6
      <3>1. s.smp \in [Units -> Name0] /\ r.smp \in [Units -> Objects]
        BY <1>2, <1>3 DEF ShadowType, ContextType
      <3>2. CASE k.op = "bindSmp"
        BY <1>b, <1>7, <2>m, <2>n, <3>1, <3>2 DEF SmpAfter
      <3>3. CASE k.op = "delSmp"
        <4>1. shadow'[c].smp[u] = IF s.smp[u] = k.n THEN 0 ELSE s.smp[u]
          <5>1. Renamed(s.smp, k.n, 0)[u] = IF s.smp[u] = k.n THEN 0 ELSE s.smp[u]
            BY <3>1 DEF Renamed
          <5> QED
            BY <1>7, <3>3, <5>1
        <4>2. SmpAfter(r, gen, k)[u] = IF r.smp[u] = Object(gen, "smp", k.n) THEN None
                                       ELSE r.smp[u]
          BY <3>1, <3>3, WithoutIs DEF SmpAfter
        <4>3. s.smp[u] = k.n <=> r.smp[u] = Object(gen, "smp", k.n)
          BY <2>m, <2>n, <2>o, <2>s, <3>1, <3>3
        <4> QED
          BY <2>m, <2>s, <4>1, <4>2, <4>3
      <3>4. CASE k.op \notin {"bindSmp", "delSmp"}
        BY <1>b, <1>7, <2>m, <3>4 DEF SmpAfter
      <3> QED
        BY <3>2, <3>3, <3>4
    <2>4. shadow'[c].fb = Do(r, gen, k).fb
      <3>1. r.fb \in [Targets -> Name0]
        BY <1>2 DEF ContextType
      <3>2. Renamed(r.fb, k.n, 0) = [x \in Targets |-> IF r.fb[x] = k.n THEN 0 ELSE r.fb[x]]
        BY <3>1 DEF Renamed
      <3> QED
        BY <1>6, <1>b, <1>7, <2>m, <3>2 DEF FbAfter
    <2>5. shadow'[c].vao = Do(r, gen, k).vao /\ stub_vaos'[c].cur = Do(r, gen, k).vao
      <3>1. k.op = "delVao" => r.vao # k.n
        <4>1. k.op = "delVao" => Deletes(k)
          BY <1>2, KindIs DEF DelOps
        <4> QED
          BY <1>2, <4>1 DEF Hand, Elsewhere, k, c, r
      <3> QED
        BY <1>6, <1>b, <1>7, <2>m, <3>1 DEF VaoAfter
    <2>6. Object(gen, "buf", bound_array'[c]) = Do(r, gen, k).array
      <3>1. k.op = "delBuf" => (bound_array[c] = k.n <=> r.array = Object(gen, "buf", k.n))
        BY <1>3, <2>m, <2>n, <2>o, <2>s
      <3> QED
        BY <1>6, <1>b, <1>7, <2>m, <2>s, <3>1 DEF ArrayAfter
    <2>7. ASSUME NEW x \in Name0
          PROVE  Object(gen, "buf", stub_vaos'[c].ebo[x]) = Do(r, gen, k).ebo[x]
      <3> SUFFICES Object(gen, "buf", stub_vaos'[c].ebo[x]) = EboAfter(r, gen, k)[x]
        BY <1>6
      <3>1. v.ebo \in [Name0 -> Name0] /\ r.ebo \in [Name0 -> Objects] /\ r.vao \in Name0
        BY <1>2, <1>3 DEF ArraysType, ContextType
      <3>2. CASE k.op = "bindEbo"
        BY <1>b, <1>7, <2>m, <2>n, <3>1, <3>2 DEF EboAfter
      <3>3. CASE k.op = "delBuf"
        <4>1. Deletes(k) /\ Kind(k) = "buf"
          BY <1>2, <3>3, KindIs DEF DelOps
        <4>2. \A y \in Name0 : r.ebo[y] # Object(gen, "buf", k.n)
          BY <1>2, <3>1, <3>3, <4>1, <2>s DEF Hand, Elsewhere, k, c, r
        <4>3. v.ebo[x] # k.n
          BY <2>m, <4>2
        <4>4. stub_vaos'[c].ebo[x] = v.ebo[x]
          <5>1. Renamed(v.ebo, k.n, 0)[x] = IF v.ebo[x] = k.n THEN 0 ELSE v.ebo[x]
            BY <3>1 DEF Renamed
          <5> QED
            BY <1>7, <3>3, <4>3, <5>1
        <4> QED
          BY <2>m, <3>1, <3>3, <4>2, <4>4 DEF EboAfter
      <3>4. CASE k.op \notin {"bindEbo", "delBuf"}
        BY <1>b, <1>7, <2>g, <2>m, <3>4 DEF EboAfter, GenOps
      <3> QED
        BY <3>2, <3>3, <3>4
    <2>8. Mirrors(c, Do(r, gen, k))'
      BY <1>1, <2>1, <2>2, <2>3, <2>4, <2>5, <2>6, <2>7 DEF Mirrors, k, c, r
    <2> QED
      BY <1>1, <1>9, <2>8 DEF k, c, r
  <1> QED
    BY <1>8, <1>9

LEMMA NoteMirrorsOthers ==
  ASSUME GLInv, NEW t \in Threads, Note(t),
         NEW d \in made \ {g_stub_current_ctx[t]}, NEW r, Coming(d, r)
  PROVE  /\ Mirrors(d, r)'
         /\ call[t].op = "delBuf" => bound_array[d] # call[t].n
  <1> DEFINE k == call[t]
             c == g_stub_current_ctx[t]
             s == shadow[d]
             v == stub_vaos[d]
  <1>1. /\ phase[t] = "entry" /\ shadow' = Noted(c, k) /\ bound_array' = NotedArray(c, k)
        /\ stub_vaos' = NotedArrays(c, k)
        /\ UNCHANGED <<gen, real, g_stub_current_ctx, call>>
    BY DEF Note, driverVars
  <1>2. /\ CallShape(k) /\ k.op \in Ops /\ c \in made /\ c \in Contexts /\ Hand(t)
        /\ gen \in GenType /\ d \in Contexts /\ d # c
        /\ k.op \in DelOps => k.n \in live[Kind(k)][Home(Kind(k), c)] /\ k.n # 0
    BY <1>1, HandType, RealType, InHandFacts, KindIs, NamesAre DEF GLInv, CallShape, DelOps
  <1>3. /\ s \in ShadowType /\ v \in ArraysType /\ bound_array[d] \in Name0
        /\ shadow \in [Contexts -> ShadowType] /\ stub_vaos \in [Contexts -> ArraysType]
        /\ bound_array \in [Contexts -> Name0]
    BY <1>2 DEF GLInv, TypesInv, CopyTypes
  <1>4. /\ s.cap = r.cap /\ s.view \in {Unknown, r.view} /\ s.unit = r.unit
        /\ \A u \in Units : /\ s.tex[u] # Forgotten => Object(gen, "tex", s.tex[u]) = r.tex[u]
                            /\ Object(gen, "smp", s.smp[u]) = r.smp[u]
        /\ s.fb = r.fb /\ s.vao = r.vao /\ v.cur = r.vao
        /\ Object(gen, "buf", bound_array[d]) = r.array
        /\ \A x \in Name0 : Object(gen, "buf", v.ebo[x]) = r.ebo[x]
    BY ComingMirrors DEF Mirrors
  <1>5. /\ k.op = "delSmp" => \A x \in Units : s.smp[x] # k.n
        /\ k.op = "delBuf" => bound_array[d] # k.n /\ \A x \in Name0 : v.ebo[x] # k.n
    <2>1. /\ k.op = "delSmp" => \A x \in Units : r.smp[x] # Object(gen, "smp", k.n)
          /\ k.op = "delBuf" => /\ r.array # Object(gen, "buf", k.n)
                                /\ \A x \in Name0 : r.ebo[x] # Object(gen, "buf", k.n)
      BY <1>1, OthersKeepOff
    <2> QED
      BY <1>4, <2>1
  <1>6. ASSUME NEW h \in Private, Deletes(k), Kind(k) = h
        PROVE  k.n \notin Kept(h, d)
    <2>1. k.op \in DelOps /\ h \notin Shared
      BY <1>2, <1>6, KindIs DEF Private, Shared
    <2>2. live[h][c] \cap live[h][d] = {}
      BY <1>2, <1>6 DEF GLInv, NamesInv
    <2> QED
      BY <1>2, <1>6, <2>1, <2>2 DEF Kept, Home
  <1>7. /\ k.op = "delFb" => \A x \in Targets : s.fb[x] # k.n
        /\ k.op = "delVao" => s.vao # k.n
    <2>1. /\ \A x \in Targets : s.fb[x] \in Kept("fb", d)
          /\ s.vao \in Kept("vao", d)
      BY DEF GLInv, NamesInv
    <2>2. /\ k.op = "delFb" => Deletes(k) /\ Kind(k) = "fb"
          /\ k.op = "delVao" => Deletes(k) /\ Kind(k) = "vao"
      BY <1>2, KindIs DEF DelOps
    <2>3. "fb" \in Private /\ "vao" \in Private
      BY DEF Private
    <2> QED
      BY <1>6, <2>1, <2>2, <2>3
  <1>8. /\ shadow'[d] = ShadowAfter(c, d, k) /\ stub_vaos'[d] = ArraysAfter(c, d, k)
        /\ bound_array'[d] = bound_array[d]
    BY <1>1, <1>2, <1>3, NotedFields, NotedArraysAre
  <1>9. /\ s.tex \in [Units -> Name0 \cup {Forgotten}] /\ s.smp \in [Units -> Name0]
        /\ s.fb \in [Targets -> Name0] /\ v.ebo \in [Name0 -> Name0]
    BY <1>3 DEF ShadowType, ArraysType
  <1>10. /\ shadow'[d].cap = s.cap /\ shadow'[d].view = s.view /\ shadow'[d].unit = s.unit
         /\ shadow'[d].vao = s.vao /\ stub_vaos'[d].cur = v.cur
    BY <1>2, <1>7, <1>8 DEF ShadowAfter, ArraysAfter
  <1>11. ASSUME NEW u \in Units
         PROVE  /\ shadow'[d].tex[u] \in {s.tex[u], Forgotten}
                /\ shadow'[d].smp[u] = s.smp[u]
    <2>1. Renamed(s.tex, k.n, Forgotten)[u] \in {s.tex[u], Forgotten}
      BY <1>9 DEF Renamed
    <2>2. k.op = "delSmp" => Renamed(s.smp, k.n, 0)[u] = s.smp[u]
      BY <1>5, <1>9 DEF Renamed
    <2> QED
      BY <1>2, <1>8, <2>1, <2>2 DEF ShadowAfter
  <1>12. shadow'[d].fb = s.fb
    <2>1. k.op = "delFb" => Renamed(s.fb, k.n, 0) = s.fb
      BY <1>7, <1>9 DEF Renamed
    <2> QED
      BY <1>2, <1>8, <2>1 DEF ShadowAfter
  <1>13. stub_vaos'[d].ebo = v.ebo
    <2>1. k.op = "delBuf" => Renamed(v.ebo, k.n, 0) = v.ebo
      BY <1>5, <1>9 DEF Renamed
    <2> QED
      BY <1>2, <1>8, <2>1 DEF ArraysAfter
  <1>14. Mirrors(d, r)'
    BY <1>1, <1>4, <1>8, <1>10, <1>11, <1>12, <1>13 DEF Mirrors
  <1> QED
    BY <1>5, <1>14

LEMMA ComingExists ==
  ASSUME NEW d
  PROVE  \E r : Coming(d, r)
  <1>1. CASE \E u \in Threads : g_stub_current_ctx[u] = d /\ Noting(u)
    BY <1>1 DEF Coming
  <1>2. CASE ~ \E u \in Threads : g_stub_current_ctx[u] = d /\ Noting(u)
    <2>1. Coming(d, real[d])
      BY <1>2 DEF Coming
    <2> QED
      BY <2>1
  <1> QED
    BY <1>1, <1>2

(* The names the copies bear are in use still, but for the one that goes.  *)
LEMMA NoteKept ==
  ASSUME GLInv, NEW t \in Threads, Note(t)
  PROVE  LET k == call[t]
             c == g_stub_current_ctx[t]
         IN  /\ \A d, e, x : x \in Kept(d, e) =>
                  \/ x \in Kept(d, e)'
                  \/ Deletes(k) /\ Kind(k) = d /\ x = k.n
             /\ \A d, e : d = Kind(k) /\ d # "none" /\ e = c /\ ~Deletes(k) =>
                  k.n \in Kept(d, e)'
             /\ \A d, e : Alive(d, e)' = Alive(d, e)
             /\ \A d, e : 0 \in Kept(d, e)'
  <1> DEFINE k == call[t]
             c == g_stub_current_ctx[t]
  <1>1. /\ phase[t] = "entry" /\ phase'[t] = "send"
        /\ \A u \in Threads \ {t} : phase'[u] = phase[u]
        /\ UNCHANGED <<live, g_stub_current_ctx, call>>
    BY DEF Note, driverVars, GLInv, TypesInv, ThreadTypes
  <1>2. ASSUME NEW d, NEW h, NEW x \in Going(d, h)'
        PROVE  x \in Going(d, h) \/ (Deletes(k) /\ Kind(k) = d /\ Home(d, c) = h /\ x = k.n)
    <2>1. PICK u \in Threads : /\ phase'[u] = "send" /\ Deletes(call'[u]) /\ Kind(call'[u]) = d
                               /\ Home(d, g_stub_current_ctx'[u]) = h /\ x = call'[u].n
      BY <1>2 DEF Going
    <2> QED
      BY <1>1, <2>1, GoingIs
  <1>3. ASSUME NEW d, NEW e, NEW x, x \in Kept(d, e)
        PROVE  \/ x \in Kept(d, e)'
               \/ Deletes(k) /\ Kind(k) = d /\ x = k.n
    BY <1>1, <1>2, <1>3 DEF Kept
  <1>4. ASSUME NEW d, NEW e, d = Kind(k), d # "none", e = c, ~Deletes(k)
        PROVE  k.n \in Kept(d, e)'
    <2>1. k.n # 0 => k.n \in live[d][Home(d, e)]
      BY <1>1, <1>4, InHandFacts DEF GLInv
    <2>2. ASSUME NEW h, h = Home(d, e), k.n \in Going(d, h)'
          PROVE  FALSE
      <3>0. k.n \in Going(d, h)
        BY <1>2, <1>4, <2>2
      <3>1. PICK u \in Threads : /\ phase[u] = "send" /\ Deletes(call[u])
                                 /\ Kind(call[u]) = Kind(k) /\ k.n = call[u].n
        BY <1>4, <3>0, GoingIs
      <3>2. u # t /\ Hand(u)
        BY <1>4, <3>1, HandType
      <3> QED
        BY <3>1, <3>2 DEF Hand
    <2> QED
      BY <1>1, <2>1, <2>2 DEF Kept
  <1>5. \A d, e : Alive(d, e)' = Alive(d, e) /\ 0 \in Kept(d, e)'
    BY <1>1 DEF Alive, Kept
  <1> QED
    BY <1>3, <1>4, <1>5

LEMMA NoteNames ==
  ASSUME GLInv, NEW t \in Threads, Note(t)
  PROVE  NamesInv'
  <1> DEFINE k == call[t]
             c == g_stub_current_ctx[t]
  <1>1. /\ phase[t] = "entry" /\ shadow' = Noted(c, k) /\ bound_array' = NotedArray(c, k)
        /\ stub_vaos' = NotedArrays(c, k)
        /\ UNCHANGED <<live, real, proxy_vaos, fbo_cache, made>>
    BY DEF Note, driverVars, proxyVars
  <1>2. /\ CallShape(k) /\ k.op \in Ops /\ c \in made /\ c \in Contexts /\ made \subseteq Contexts
    BY <1>1, HandType, RealType
  <1>3. /\ shadow \in [Contexts -> ShadowType] /\ stub_vaos \in [Contexts -> ArraysType]
        /\ bound_array \in [Contexts -> Name0]
    BY DEF GLInv, TypesInv, CopyTypes
  <1>4. /\ Deletes(k) => k.n # 0
        /\ Deletes(k) <=> k.op \in DelOps
    BY <1>2, NamesAre, KindIs DEF CallShape
  <1>5. \A d \in Private : \A b, e \in Contexts \cup {0} :
          b # e => live'[d][b] \cap live'[d][e] = {}
    BY <1>1 DEF GLInv, NamesInv
  <1>6. ASSUME NEW d, NEW e, NEW x, x \in Kept(d, e), ~(Deletes(k) /\ Kind(k) = d /\ x = k.n)
        PROVE  x \in Kept(d, e)'
    BY <1>6, NoteKept
  <1>7. \A d, e : d = Kind(k) /\ d # "none" /\ e = c /\ ~Deletes(k) => k.n \in Kept(d, e)'
    BY NoteKept
  <1>8. \A d, e : Alive(d, e)' = Alive(d, e) /\ 0 \in Kept(d, e)'
    BY NoteKept
  <1>9. ASSUME NEW e \in made
        PROVE  /\ \A u \in Units : /\ shadow'[e].tex[u] \in Kept("tex", e)' \cup {Forgotten}
                                   /\ shadow'[e].smp[u] \in Kept("smp", e)'
               /\ \A x \in Targets : shadow'[e].fb[x] \in Kept("fb", e)'
               /\ shadow'[e].vao \in Kept("vao", e)'
               /\ bound_array'[e] \in Kept("buf", e)'
               /\ \A v \in Name0 : stub_vaos'[e].ebo[v] \in Kept("buf", e)'
    <2> DEFINE s == shadow[e]
               v == stub_vaos[e]
    <2>1. /\ shadow'[e] = ShadowAfter(c, e, k) /\ stub_vaos'[e] = ArraysAfter(c, e, k)
          /\ bound_array'[e] = IF e = c /\ k.op = "bindArray" THEN k.n
                               ELSE IF e = c /\ k.op = "delBuf" /\ bound_array[e] = k.n
                               THEN 0 ELSE bound_array[e]
      BY <1>1, <1>2, <1>3, NotedFields, NotedArraysAre
    <2>2. /\ s.tex \in [Units -> Name0 \cup {Forgotten}] /\ s.smp \in [Units -> Name0]
          /\ s.fb \in [Targets -> Name0] /\ v.ebo \in [Name0 -> Name0]
          /\ s.unit \in Units /\ k.unit \in Units
      BY <1>2, <1>3 DEF ShadowType, ArraysType, CallShape, CallType
    <2>3. /\ \A u \in Units : /\ s.tex[u] \in Kept("tex", e) \cup {Forgotten}
                              /\ s.smp[u] \in Kept("smp", e)
          /\ \A x \in Targets : s.fb[x] \in Kept("fb", e)
          /\ s.vao \in Kept("vao", e)
          /\ bound_array[e] \in Kept("buf", e)
          /\ \A x \in Name0 : v.ebo[x] \in Kept("buf", e)
      BY DEF GLInv, NamesInv
    <2>4. ASSUME NEW u \in Units
          PROVE  /\ shadow'[e].tex[u] \in Kept("tex", e)' \cup {Forgotten}
                 /\ shadow'[e].smp[u] \in Kept("smp", e)'
      <3>1. /\ shadow'[e].tex = IF e = c /\ k.op = "bindTex" THEN [s.tex EXCEPT ![s.unit] = k.n]
                    ELSE IF k.op = "delTex" THEN Renamed(s.tex, k.n, Forgotten) ELSE s.tex
            /\ shadow'[e].smp = IF e = c /\ k.op = "bindSmp" THEN [s.smp EXCEPT ![k.unit] = k.n]
                    ELSE IF k.op = "delSmp" THEN Renamed(s.smp, k.n, 0) ELSE s.smp
        BY <2>1 DEF ShadowAfter
      <3>2. CASE e = c /\ k.op = "bindTex"
        <4>1. k.n \in Kept("tex", e)'
          BY <1>2, <1>4, <1>7, <3>2, KindIs DEF DelOps
        <4>2. Kind(k) = "tex" /\ ~Deletes(k)
          BY <1>2, <1>4, <3>2, KindIs DEF DelOps
        <4>3. shadow'[e].tex[u] \in {k.n, s.tex[u]}
          BY <2>2, <3>1, <3>2
        <4>4. shadow'[e].smp[u] = s.smp[u]
          BY <3>1, <3>2
        <4> QED
          BY <1>6, <2>3, <4>1, <4>2, <4>3, <4>4
      <3>3. CASE e = c /\ k.op = "bindSmp"
        <4>1. k.n \in Kept("smp", e)'
          BY <1>2, <1>4, <1>7, <3>3, KindIs DEF DelOps
        <4>2. Kind(k) = "smp" /\ ~Deletes(k)
          BY <1>2, <1>4, <3>3, KindIs DEF DelOps
        <4>3. shadow'[e].smp[u] \in {k.n, s.smp[u]}
          BY <2>2, <3>1, <3>3
        <4>4. shadow'[e].tex[u] = s.tex[u]
          BY <3>1, <3>3
        <4> QED
          BY <1>6, <2>3, <4>1, <4>2, <4>3, <4>4
      <3>4. CASE k.op = "delTex"
        <4>1. Kind(k) = "tex"
          BY <1>2, <3>4, KindIs
        <4>2. shadow'[e].tex[u] = (IF s.tex[u] = k.n THEN Forgotten ELSE s.tex[u])
              /\ shadow'[e].smp[u] = s.smp[u]
          BY <2>2, <3>1, <3>4 DEF Renamed
        <4> QED
          BY <1>6, <2>3, <4>1, <4>2
      <3>5. CASE k.op = "delSmp"
        <4>1. Kind(k) = "smp"
          BY <1>2, <3>5, KindIs
        <4>2. shadow'[e].smp[u] = (IF s.smp[u] = k.n THEN 0 ELSE s.smp[u])
              /\ shadow'[e].tex[u] = s.tex[u]
          BY <2>2, <3>1, <3>5 DEF Renamed
        <4> QED
          BY <1>6, <1>8, <2>3, <4>1, <4>2
      <3>6. CASE ~(e = c /\ k.op \in {"bindTex", "bindSmp"}) /\ k.op \notin {"delTex", "delSmp"}
        <4>1. shadow'[e].tex = s.tex /\ shadow'[e].smp = s.smp
          BY <3>1, <3>6
        <4>2. ~(Deletes(k) /\ Kind(k) \in {"tex", "smp"})
          BY <1>2, <1>4, <3>6, KindIs DEF DelOps
        <4> QED
          BY <1>6, <2>3, <4>1, <4>2
      <3> QED
        BY <3>2, <3>3, <3>4, <3>5, <3>6
    <2>5. ASSUME NEW x \in Targets
          PROVE  shadow'[e].fb[x] \in Kept("fb", e)'
      <3>1. shadow'[e].fb[x] = IF e = c /\ k.op = "bindFb"
              THEN (IF x \in k.targets THEN k.n ELSE s.fb[x])
              ELSE IF k.op = "delFb" THEN (IF s.fb[x] = k.n THEN 0 ELSE s.fb[x]) ELSE s.fb[x]
        BY <2>1, <2>2 DEF ShadowAfter, Renamed
      <3>2. k.op = "bindFb" => Kind(k) = "fb" /\ ~Deletes(k)
        BY <1>2, <1>4, KindIs DEF DelOps
      <3>3. Deletes(k) /\ Kind(k) = "fb" <=> k.op = "delFb"
        BY <1>2, <1>4, KindIs DEF DelOps
      <3> QED
        BY <1>6, <1>7, <1>8, <2>3, <3>1, <3>2, <3>3
    <2>6. shadow'[e].vao \in Kept("vao", e)'
      <3>1. shadow'[e].vao = IF e = c /\ k.op = "bindVao" THEN k.n
              ELSE IF k.op = "delVao" THEN (IF s.vao = k.n THEN 0 ELSE s.vao) ELSE s.vao
        BY <2>1 DEF ShadowAfter
      <3>2. k.op = "bindVao" => Kind(k) = "vao" /\ ~Deletes(k)
        BY <1>2, <1>4, KindIs DEF DelOps
      <3>3. Deletes(k) /\ Kind(k) = "vao" <=> k.op = "delVao"
        BY <1>2, <1>4, KindIs DEF DelOps
      <3> QED
        BY <1>6, <1>7, <1>8, <2>3, <3>1, <3>2, <3>3
    <2>7. Deletes(k) /\ Kind(k) = "buf" <=> k.op = "delBuf"
      BY <1>2, <1>4, KindIs DEF DelOps
    <2>8. k.op \in {"bindArray", "bindEbo"} => Kind(k) = "buf" /\ ~Deletes(k)
      BY <1>2, <1>4, KindIs DEF DelOps
    <2>9. bound_array'[e] \in Kept("buf", e)'
      <3>1. e # c /\ k.op = "delBuf" => bound_array[e] # k.n
        <4> SUFFICES ASSUME e # c, k.op = "delBuf" PROVE bound_array[e] # k.n
          OBVIOUS
        <4>1. PICK r : Coming(e, r)
          BY ComingExists
        <4>2. e \in made \ {c}
          OBVIOUS
        <4> QED
          BY <4>1, <4>2, NoteMirrorsOthers
      <3> QED
        BY <1>6, <1>7, <1>8, <2>1, <2>3, <2>7, <2>8, <3>1
    <2>10. ASSUME NEW x \in Name0
           PROVE  stub_vaos'[e].ebo[x] \in Kept("buf", e)'
      <3>1. stub_vaos'[e].ebo[x] =
              IF e = c /\ k.op = "bindEbo" THEN (IF x = v.cur THEN k.n ELSE v.ebo[x])
              ELSE IF k.op = "delBuf" THEN (IF v.ebo[x] = k.n THEN 0 ELSE v.ebo[x]) ELSE v.ebo[x]
        BY <2>1, <2>2 DEF ArraysAfter, Renamed
      <3> QED
        BY <1>6, <1>7, <1>8, <2>3, <2>7, <2>8, <3>1
    <2> QED
      BY <2>4, <2>5, <2>6, <2>9, <2>10
  <1> QED
    BY <1>1, <1>5, <1>8, <1>9 DEF GLInv, NamesInv

LEMMA NoteTypes ==
  ASSUME GLInv, NEW t \in Threads, Note(t)
  PROVE  TypesInv'
  <1> DEFINE k == call[t]
             c == g_stub_current_ctx[t]
  <1>1. /\ phase[t] = "entry" /\ shadow' = Noted(c, k) /\ bound_array' = NotedArray(c, k)
        /\ stub_vaos' = NotedArrays(c, k) /\ phase' = [phase EXCEPT ![t] = "send"]
        /\ UNCHANGED <<g_stub_new_ctx, g_stub_current_ctx, call, fbo, fbo_cache, proxy_vaos,
                       real, gen, live, made>>
    BY DEF Note, driverVars, proxyVars
  <1>2. /\ CallShape(k) /\ k.op \in Ops /\ c \in Contexts
        /\ k.op \notin {"cap", "view", "active"} => k.n \in Name0
        /\ k.unit \in Units /\ 0 \in Name0 /\ (k.op = "active" => k.n \in Units)
        /\ k.op \in {"cap", "view"} => k.n \in {0, 1}
    BY <1>1, HandType, RealType DEF CallShape, CallType, Name0
  <1>3. /\ shadow \in [Contexts -> ShadowType] /\ stub_vaos \in [Contexts -> ArraysType]
        /\ bound_array \in [Contexts -> Name0]
    BY DEF GLInv, TypesInv, CopyTypes
  <1>4. ASSUME NEW d \in Contexts
        PROVE  Noted(c, k)[d] \in ShadowType /\ Noted(c, k) = [e \in Contexts |-> Noted(c, k)[e]]
    <2> DEFINE s == shadow[d]
               w == ShadowAfter(c, d, k)
    <2>1. /\ s.cap \in {0, 1} /\ s.view \in {0, 1, Unknown} /\ s.unit \in Units
          /\ s.tex \in [Units -> Name0 \cup {Forgotten}] /\ s.smp \in [Units -> Name0]
          /\ s.fb \in [Targets -> Name0] /\ s.vao \in Name0
      BY <1>3 DEF ShadowType
    <2>2. /\ Renamed(s.tex, k.n, Forgotten) \in [Units -> Name0 \cup {Forgotten}]
          /\ Renamed(s.smp, k.n, 0) \in [Units -> Name0]
          /\ Renamed(s.fb, k.n, 0) \in [Targets -> Name0]
      BY <1>2, <2>1 DEF Renamed
    <2>3. w.tex \in [Units -> Name0 \cup {Forgotten}]
      BY <1>2, <2>1, <2>2 DEF ShadowAfter
    <2>4. w.smp \in [Units -> Name0]
      BY <1>2, <2>1, <2>2 DEF ShadowAfter
    <2>5. w.fb \in [Targets -> Name0]
      BY <1>2, <2>1, <2>2 DEF ShadowAfter
    <2>6. /\ w.cap \in {0, 1} /\ w.view \in {0, 1, Unknown} /\ w.unit \in Units
          /\ w.vao \in Name0
      BY <1>2, <2>1 DEF ShadowAfter
    <2>7. w = [cap |-> w.cap, view |-> w.view, unit |-> w.unit, tex |-> w.tex, smp |-> w.smp,
               fb |-> w.fb, vao |-> w.vao]
      BY DEF ShadowAfter
    <2>8. w \in ShadowType
      BY <2>3, <2>4, <2>5, <2>6, <2>7 DEF ShadowType
    <2> QED
      BY <1>2, <1>3, <2>8, NotedFields, NotedIs
  <1>5. ASSUME NEW d \in Contexts
        PROVE  /\ NotedArrays(c, k)[d] \in ArraysType /\ NotedArray(c, k)[d] \in Name0
               /\ NotedArrays(c, k) = [e \in Contexts |-> NotedArrays(c, k)[e]]
               /\ NotedArray(c, k) = [e \in Contexts |-> NotedArray(c, k)[e]]
    <2> DEFINE v == stub_vaos[d]
    <2>1. v.cur \in Name0 /\ v.ebo \in [Name0 -> Name0] /\ bound_array[d] \in Name0
      BY <1>3 DEF ArraysType
    <2>2. Renamed(v.ebo, k.n, 0) \in [Name0 -> Name0]
      BY <1>2, <2>1 DEF Renamed
    <2>3. ArraysAfter(c, d, k) \in ArraysType
      BY <1>2, <2>1, <2>2 DEF ArraysAfter, ArraysType
    <2>4. NotedArrays(c, k)[d] = ArraysAfter(c, d, k)
          /\ NotedArrays(c, k) = [e \in Contexts |-> NotedArrays(c, k)[e]]
      BY <1>2, <1>3, NotedArraysAre
    <2>5. NotedArray(c, k) = [e \in Contexts |-> NotedArray(c, k)[e]]
      BY <1>2, <1>3, NotedArraysAre
    <2>6. NotedArray(c, k)[d] \in Name0
      <3>1. NotedArray(c, k)[d] = IF d = c /\ k.op = "bindArray" THEN k.n
                                  ELSE IF d = c /\ k.op = "delBuf" /\ bound_array[d] = k.n
                                  THEN 0 ELSE bound_array[d]
        BY <1>2, <1>3, NotedArraysAre
      <3> QED
        BY <1>2, <2>1, <3>1
    <2> QED
      BY <2>3, <2>4, <2>5, <2>6
  <1>6. /\ shadow' \in [Contexts -> ShadowType] /\ stub_vaos' \in [Contexts -> ArraysType]
        /\ bound_array' \in [Contexts -> Name0]
    BY <1>1, <1>2, <1>4, <1>5
  <1>7. CopyTypes' /\ DriverTypes'
    BY <1>1, <1>6 DEF GLInv, TypesInv, CopyTypes, DriverTypes
  <1>8. ThreadTypes' /\ \A u \in Threads : phase'[u] = "idle" <=> call'[u] = NoCall
    <2>1. /\ phase \in [Threads -> {"idle", "reset", "entry", "send"}] /\ DOMAIN call = Threads
          /\ g_stub_current_ctx \in [Threads -> Contexts \cup {0}]
          /\ \A u \in Threads : phase[u] = "idle" <=> call[u] = NoCall
      BY DEF GLInv, TypesInv, TypeOK, ThreadTypes
    <2>2. phase' \in [Threads -> {"idle", "reset", "entry", "send"}]
      BY <1>1, <2>1
    <2>3. \A u \in Threads : phase'[u] = "idle" <=> phase[u] = "idle"
      BY <1>1, <2>1
    <2> QED
      BY <1>1, <2>1, <2>2, <2>3 DEF ThreadTypes
  <1>9. ASSUME NEW d \in Contexts
        PROVE  /\ shadow'[d].tex \in [Units -> Names \cup {0, Forgotten}]
               /\ shadow'[d].smp \in [Units -> Names \cup {0}]
               /\ shadow'[d].fb \in [Targets -> Names \cup {0}]
               /\ stub_vaos'[d].cur \in Names \cup {0}
    <2>1. Name0 \cup {Forgotten} = Names \cup {0, Forgotten} /\ Name0 = Names \cup {0}
      BY DEF Name0
    <2>2. /\ shadow'[d].tex \in [Units -> Name0 \cup {Forgotten}]
          /\ shadow'[d].smp \in [Units -> Name0] /\ shadow'[d].fb \in [Targets -> Name0]
          /\ stub_vaos'[d].cur \in Name0
      BY <1>6 DEF ShadowType, ArraysType
    <2> QED
      BY <2>1, <2>2
  <1>10. TypeOK'
    BY <1>1, <1>8, <1>9 DEF GLInv, TypesInv, TypeOK, ThreadTypes
  <1> QED
    BY <1>7, <1>8, <1>10 DEF TypesInv

LEMMA NoteKeeps ==
  ASSUME GLInv, NEW t \in Threads, Note(t)
  PROVE  GLInv'
  <1> DEFINE k == call[t]
             c == g_stub_current_ctx[t]
  <1>1. /\ phase[t] = "entry"
        /\ UNCHANGED <<g_stub_new_ctx, g_stub_current_ctx, call, fbo, fbo_cache, proxy_vaos,
                       real, gen, live, made>>
        /\ bound_array' = NotedArray(c, k)
    BY DEF Note, driverVars, proxyVars
  <1>2. phase'[t] = "send" /\ \A u \in Threads \ {t} : phase'[u] = phase[u]
    BY DEF Note, GLInv, TypesInv, ThreadTypes
  <1>3. c \in made /\ k.op \in Ops /\ made \subseteq Contexts
    BY <1>1, HandType, RealType
  <1>4. \A u \in Threads : phase'[u] # "idle" => phase[u] # "idle"
    BY <1>1, <1>2
  <1>5. ThreadInv'
    BY <1>1, <1>4 DEF GLInv, ThreadInv
  <1>6. HandInv'
    BY <1>1, <1>4, HandStays DEF GLInv, HandInv
  <1>7. MirrorInv'
    <2>1. \A d \in made : \A u \in Threads :
            g_stub_current_ctx[u] = d /\ g_stub_current_ctx[t] = d => u = t
      BY <1>3, ContextsAre DEF GLInv, ThreadInv
    <2>2. \A u \in Threads \ {t} : Noting(u)' <=> Noting(u)
      BY <1>1, <1>2 DEF Noting
    <2>3. Noting(t)' <=> ~Generates(k)
      BY <1>1, <1>2 DEF Noting
    <2> SUFFICES ASSUME NEW d \in made'
                 PROVE  /\ (\A u \in Threads : g_stub_current_ctx'[u] = d => ~Noting(u)') =>
                             Mirrors(d, real[d])'
                        /\ \A u \in Threads : g_stub_current_ctx'[u] = d /\ Noting(u)' =>
                             Mirrors(d, Do(real[d], gen, call[u]))'
      BY DEF MirrorInv
    <2>4. ASSUME NEW r, Mirrors(d, r)'
          PROVE  /\ r = real[d] => Mirrors(d, real[d])'
                 /\ \A u \in Threads : r = Do(real[d], gen, call[u]) =>
                      Mirrors(d, Do(real[d], gen, call[u]))'
      <3>1. r = real[d] => r = real'[d]
        BY <1>1
      <3>2. \A u \in Threads : r = Do(real[d], gen, call[u]) => r = Do(real'[d], gen', call'[u])
        BY <1>1
      <3> QED
        BY <2>4, <3>1, <3>2
    <2>5. CASE d = c
      <3> DEFINE R == IF Generates(k) THEN real[c] ELSE Do(real[c], gen, k)
      <3>1. Mirrors(c, IF Generates(k) THEN real[c] ELSE Do(real[c], gen, k))'
        BY NoteMirrorsOwn
      <3>2. CASE Generates(k)
        <4>1. Mirrors(c, real[c])'
          BY <1>1, <3>1, <3>2
        <4> QED
          BY <1>1, <2>1, <2>3, <2>5, <3>2, <4>1
      <3>3. CASE ~Generates(k)
        <4>1. Mirrors(c, Do(real[c], gen, k))'
          BY <1>1, <3>1, <3>3
        <4> QED
          BY <1>1, <2>1, <2>3, <2>5, <3>3, <4>1
      <3> QED
        BY <3>2, <3>3
    <2>6. CASE d # c
      <3>1. d \in made \ {c}
        BY <1>1, <2>6
      <3>2. ASSUME \A u \in Threads : g_stub_current_ctx'[u] = d => ~Noting(u)'
            PROVE  Mirrors(d, real[d])'
        <4>1. Coming(d, real[d])
          BY <1>1, <2>2, <2>6, <3>2 DEF Coming
        <4>2. \A r : Coming(d, r) => Mirrors(d, r)'
          BY <3>1, NoteMirrorsOthers
        <4> QED
          BY <2>4, <4>1, <4>2
      <3>3. ASSUME NEW u \in Threads, g_stub_current_ctx'[u] = d, Noting(u)'
            PROVE  Mirrors(d, Do(real[d], gen, call[u]))'
        <4>1. u # t /\ Noting(u) /\ g_stub_current_ctx[u] = d
          BY <1>1, <2>2, <2>6, <3>3
        <4>2. Coming(d, Do(real[d], gen, call[u]))
          BY <4>1 DEF Coming
        <4>3. \A r : Coming(d, r) => Mirrors(d, r)'
          BY <3>1, NoteMirrorsOthers
        <4> QED
          BY <2>4, <4>2, <4>3
      <3> QED
        BY <3>2, <3>3
    <2> QED
      BY <2>5, <2>6
  <1>8. ProxyInv'
    BY <1>1 DEF GLInv, ProxyInv, AttachmentsKnown
  <1>9. UnmadeInv'
    <2>1. \A d \in Contexts \ made : bound_array'[d] = bound_array[d]
      <3>1. \A d \in Contexts \ made : d # c
        BY <1>3
      <3>2. c \in Contexts /\ stub_vaos \in [Contexts -> ArraysType]
            /\ bound_array \in [Contexts -> Name0]
        BY <1>3 DEF GLInv, TypesInv, CopyTypes
      <3> QED
        BY <1>1, <1>3, <3>1, <3>2, NotedArraysAre
    <2> QED
      BY <1>1, <2>1 DEF GLInv, UnmadeInv
  <1>10. NewInv'
    <2>1. g_stub_new_ctx = 0
      BY <1>1 DEF GLInv, NewInv
    <2>2. \A u \in Threads : phase[u] # "reset"
      BY <2>1 DEF GLInv, NewInv
    <2> QED
      BY <1>1, <1>2, <2>1, <2>2 DEF NewInv
  <1> QED
    BY <1>5, <1>6, <1>7, <1>8, <1>9, <1>10, NoteTypes, NoteNames DEF GLInv

-----------------------------------------------------------------------------
(* The driver runs a call *)

(* The call of thread t with the name the driver gives.                    *)
Ran(t) == [call[t] EXCEPT !.n = Given(g_stub_current_ctx[t], call[t])]

LEMMA RanFacts ==
  ASSUME GLInv, Habits = {}, NEW t \in Threads, phase[t] = "send"
  PROVE  LET k == Ran(t)
             c == g_stub_current_ctx[t]
         IN  /\ CallShape(k) /\ k.op \in Ops /\ k.op = call[t].op
             /\ Kind(k) = Kind(call[t])
             /\ Generates(k) <=> Generates(call[t])
             /\ Deletes(k) <=> Deletes(call[t])
             /\ ~Generates(k) => k = call[t]
             /\ Generates(k) => k.n \in Names /\ \A h \in Contexts \cup {0} :
                                                   k.n \notin live[Kind(k)][h]
             /\ c \in made /\ c \in Contexts /\ Hand(t)
             /\ k.op \in {"attach", "attachRb"} => Attachable(real[c], k) # 0
             /\ ~Generates(k) /\ Kind(k) # "none" /\ k.n # 0 =>
                  k.n \in live[Kind(k)][Home(Kind(k), c)]
             /\ \A u \in Threads : g_stub_current_ctx[u] = c => u = t
  <1> DEFINE l == call[t]
             k == Ran(t)
             c == g_stub_current_ctx[t]
  <1>1. CallShape(l) /\ l.op \in Ops /\ c \in made /\ c \in Contexts /\ Hand(t)
    BY HandType, RealType
  <1>2. /\ DOMAIN l = {"op", "n", "unit", "targets", "points"}
        /\ l = [l EXCEPT !.n = l.n]
    BY <1>1 DEF CallShape, CallType
  <1>3. k.op = l.op /\ k.n = Given(c, l) /\ k.unit = l.unit /\ k.targets = l.targets
        /\ k.points = l.points /\ DOMAIN k = {"op", "n", "unit", "targets", "points"}
        /\ k = [op |-> k.op, n |-> k.n, unit |-> k.unit, targets |-> k.targets,
                points |-> k.points]
    BY <1>1, <1>2 DEF Ran, CallShape, CallType
  <1>4. /\ Kind(k) = Kind(l)
        /\ Generates(k) <=> Generates(l)
        /\ Deletes(k) <=> Deletes(l)
    BY <1>3 DEF Kind, Generates, Deletes
  <1>5. ~Generates(k) => k = l
    BY <1>2, <1>4 DEF Ran, Given
  <1>6. Generates(k) => k.n \in Free(c, l)
    <2> SUFFICES ASSUME Generates(l) PROVE Given(c, l) \in Free(c, l)
      BY <1>3, <1>4
    <2>1. Free(c, l) # {} /\ Free(c, l) \subseteq Nat
      BY <1>1, NamesAre DEF Hand, Free
    <2> QED
      BY <2>1, MinIn DEF Given
  <1>7. Generates(k) => k.n \in Names /\ \A h \in Contexts \cup {0} :
                                           k.n \notin live[Kind(k)][h]
    BY <1>4, <1>6 DEF Free
  <1>8. CallShape(k)
    <2>1. CASE Generates(k)
      <3>1. k.op \in GenOps /\ k.n \in Names /\ k.n \in Nat
        BY <1>1, <1>3, <1>7, <2>1, KindIs, NamesAre
      <3>2. k \in CallType
        BY <1>1, <1>3, <3>1 DEF CallShape, CallType
      <3>3. ~Deletes(k)
        BY <1>1, <1>3, <3>1, KindIs DEF GenOps, DelOps
      <3> QED
        BY <3>1, <3>2, <3>3 DEF CallShape, GenOps, Name0
    <2> QED
      BY <1>1, <1>5, <2>1
  <1>9. k.op \in {"attach", "attachRb"} => Attachable(real[c], k) # 0
    BY <1>1, <1>3 DEF Hand, Attachable
  <1>10. ~Generates(k) /\ Kind(k) # "none" /\ k.n # 0 =>
           k.n \in live[Kind(k)][Home(Kind(k), c)]
    BY <1>5, InHandFacts DEF GLInv
  <1>11. \A u \in Threads : g_stub_current_ctx[u] = c => u = t
    BY <1>1, ContextsAre DEF GLInv, ThreadInv
  <1> QED
    BY <1>1, <1>3, <1>4, <1>5, <1>7, <1>8, <1>9, <1>10, <1>11

(* What is attached already need not be attached again, and what the proxy *)
(* binds with a vertex array is what that has.                             *)
LEMMA HandledIs ==
  ASSUME GLInv, Habits = {}, NEW t \in Threads, phase[t] = "send"
  PROVE  Handled(g_stub_current_ctx[t], Ran(t)) = Do(real[g_stub_current_ctx[t]], gen, Ran(t))
  <1> DEFINE k == Ran(t)
             c == g_stub_current_ctx[t]
             r == real[c]
  <1>1. /\ CallShape(k) /\ k.op \in Ops /\ c \in made /\ c \in Contexts
        /\ k.op \in {"attach", "attachRb"} => Attachable(r, k) # 0
    BY RanFacts
  <1>2. r \in ContextType /\ gen \in GenType
    BY <1>1, RealType
  <1>3. /\ r.fb \in [Targets -> Name0] /\ r.att \in [Names -> [Points -> Objects]]
        /\ r.vao \in Name0 /\ r.ebo \in [Name0 -> Objects]
    BY <1>2 DEF ContextType
  <1> SUFFICES Handled(c, k) = Do(r, gen, k)
    OBVIOUS
  <1> HIDE DEF k, c, r
  <1>4. CASE k.op = "attach" /\ Attached(c, k)
    <2> DEFINE f == Attachable(r, k)
    <2>1. f \in Names /\ f = Attachable([fb |-> fbo[c]], k)
      <3>1. fbo[c] = r.fb
        BY <1>1 DEF GLInv, ProxyInv, r
      <3>2. \A x \in Targets : r.fb[x] \in Name0
        BY <1>3
      <3> QED
        BY <1>1, <1>4, <3>1, <3>2 DEF Attachable, CallShape, Name0
    <2>2. \A p \in k.points : r.att[f][p] = Object(gen, "tex", k.n)
      <3>1. PICK e \in fbo_cache[c] : e.fbo = f /\ e.points = k.points /\ e.tex = k.n
        BY <1>4, <2>1 DEF Attached
      <3> QED
        BY <1>1, <3>1 DEF GLInv, ProxyInv, AttachmentsKnown, r
    <2>3. AttAfter(r, gen, k) = r.att
      <3>1. [p \in Points |-> IF p \in k.points
                              THEN IF k.op = "attach" THEN Object(gen, "tex", k.n)
                                                      ELSE Renderbuffer
                              ELSE r.att[f][p]] = r.att[f]
        BY <1>3, <1>4, <2>1, <2>2
      <3> QED
        BY <1>3, <1>4, <2>1, <3>1 DEF AttAfter
    <2>4. Do(r, gen, k) = [r EXCEPT !.att = AttAfter(r, gen, k)]
      BY <1>4 DEF Do, AttAfter
    <2>5. Do(r, gen, k) = r
      BY <1>2, <2>3, <2>4 DEF ContextType
    <2> QED
      BY <1>4, <2>5 DEF Handled, r
  <1>5. CASE k.op = "bindVao"
    <2> DEFINE b == GLCall("bindEbo", proxy_vaos[c].ebo[k.n], FirstUnit, {}, {})
               w == [r EXCEPT !.vao = k.n]
    <2>1. Do(r, gen, k) = w
      BY <1>5 DEF Do
    <2>2. k.n \in Name0 /\ Object(gen, "buf", proxy_vaos[c].ebo[k.n]) = r.ebo[k.n]
      BY <1>1, <1>5 DEF CallShape, GLInv, ProxyInv, r
    <2>3. Do(w, gen, b) = [w EXCEPT !.ebo[w.vao] = Object(gen, "buf", b.n)]
      BY DEF Do, GLCall
    <2>4. w.vao = k.n /\ w.ebo = r.ebo /\ Object(gen, "buf", b.n) = w.ebo[k.n]
      BY <1>2, <2>2 DEF ContextType, GLCall
    <2>5. [w EXCEPT !.ebo[k.n] = w.ebo[k.n]] = w
      BY <1>2, <1>3, <2>2 DEF ContextType
    <2>6. Do(w, gen, b) = w
      BY <2>3, <2>4, <2>5
    <2> QED
      BY <1>5, <2>1, <2>6 DEF Handled, r
  <1>6. CASE ~(k.op = "attach" /\ Attached(c, k)) /\ k.op # "bindVao"
    BY <1>6 DEF Handled, r
  <1> QED
    BY <1>4, <1>5, <1>6

LEMMA RunDriver ==
  ASSUME GLInv, Habits = {}, NEW t \in Threads, Run(t)
  PROVE  LET k == Ran(t)
             c == g_stub_current_ctx[t]
         IN  /\ phase[t] = "send"
             /\ UNCHANGED <<shadow, bound_array, g_stub_new_ctx, g_stub_current_ctx, made>>
             /\ real' \in [Contexts -> ContextType] /\ real'[c] = Do(real[c], gen, k)
             /\ \A d \in Contexts \ {c} : real'[d] = real[d]
             /\ gen' \in GenType
             /\ \A d \in Shared : \A n \in Names :
                  ~(Generates(k) /\ d = Kind(k) /\ n = k.n) => gen'[d][n] = gen[d][n]
             /\ ~Generates(k) => gen' = gen
             /\ live' \in [Kinds -> [Contexts \cup {0} -> SUBSET Names]]
             /\ \A d \in Kinds : \A h \in Contexts \cup {0} :
                  live'[d][h] = IF d = Kind(k) /\ h = Home(d, c) /\ Generates(k)
                                THEN live[d][h] \cup {k.n}
                                ELSE IF d = Kind(k) /\ h = Home(d, c) /\ Deletes(k)
                                THEN live[d][h] \ {k.n} ELSE live[d][h]
  <1> DEFINE k == Ran(t)
             c == g_stub_current_ctx[t]
  <1>1. /\ phase[t] = "send"
        /\ UNCHANGED <<shadow, bound_array, g_stub_new_ctx, g_stub_current_ctx, made>>
        /\ real' = [real EXCEPT ![c] = Handled(c, k)]
        /\ live' = NamesAfter(live, k, c) /\ gen' = GenerationsAfter(gen, k)
    BY DEF Run, Ran
  <1>2. /\ CallShape(k) /\ k.op \in Ops /\ c \in Contexts
        /\ k.op \in {"attach", "attachRb"} => Attachable(real[c], k) # 0
        /\ Generates(k) => k.n \in Names
        /\ Deletes(k) => k.n \in Names
    BY <1>1, RanFacts DEF CallShape
  <1>3. Handled(c, k) = Do(real[c], gen, k)
    BY <1>1, HandledIs
  <1>4. real \in [Contexts -> ContextType] /\ gen \in GenType
        /\ live \in [Kinds -> [Contexts \cup {0} -> SUBSET Names]]
    BY DEF GLInv, TypesInv, DriverTypes, GenType
  <1> HIDE DEF k, c
  <1>5. Do(real[c], gen, k) \in ContextType
    BY <1>2, <1>4, DoType
  <1>6. /\ real' \in [Contexts -> ContextType] /\ real'[c] = Do(real[c], gen, k)
        /\ \A d \in Contexts \ {c} : real'[d] = real[d]
    BY <1>1, <1>2, <1>3, <1>4, <1>5
  <1>7. Generates(k) \/ Deletes(k) => Kind(k) \in Kinds /\ Home(Kind(k), c) \in Contexts \cup {0}
    <2>1. Generates(k) \/ Deletes(k) => Kind(k) \in Kinds
      BY <1>2, KindIs DEF Kinds, Shared, Private, GenOps, DelOps
    <2> QED
      BY <1>2, <2>1 DEF Home
  <1>8. /\ gen' \in GenType
        /\ \A d \in Shared : \A n \in Names :
             ~(Generates(k) /\ d = Kind(k) /\ n = k.n) => gen'[d][n] = gen[d][n]
        /\ ~Generates(k) => gen' = gen
    <2>1. CASE Generates(k) /\ Kind(k) \in Shared
      <3>1. gen' = [gen EXCEPT ![Kind(k)][k.n] = @ + 1]
        BY <1>1, <2>1 DEF GenerationsAfter
      <3> QED
        BY <1>2, <1>4, <2>1, <3>1 DEF GenType
    <2>2. CASE ~(Generates(k) /\ Kind(k) \in Shared)
      BY <1>1, <1>4, <2>2 DEF GenerationsAfter
    <2> QED
      BY <2>1, <2>2
  <1>9. ~(Generates(k) /\ Deletes(k))
    BY <1>2, KindIs DEF GenOps, DelOps
  <1>10. /\ live' \in [Kinds -> [Contexts \cup {0} -> SUBSET Names]]
         /\ \A d \in Kinds : \A h \in Contexts \cup {0} :
              live'[d][h] = IF d = Kind(k) /\ h = Home(d, c) /\ Generates(k)
                            THEN live[d][h] \cup {k.n}
                            ELSE IF d = Kind(k) /\ h = Home(d, c) /\ Deletes(k)
                            THEN live[d][h] \ {k.n} ELSE live[d][h]
    <2>1. CASE Generates(k)
      <3>1. live' = [live EXCEPT ![Kind(k)][Home(Kind(k), c)] = @ \cup {k.n}]
        BY <1>1, <1>9, <2>1 DEF NamesAfter
      <3> DEFINE X == live[Kind(k)][Home(Kind(k), c)] \cup {k.n}
      <3>2. X \in SUBSET Names
        BY <1>2, <1>4, <1>7, <2>1
      <3>3. live' = [live EXCEPT ![Kind(k)][Home(Kind(k), c)] = X]
        BY <1>4, <1>7, <2>1, <3>1
      <3> HIDE DEF X
      <3>4. /\ live' \in [Kinds -> [Contexts \cup {0} -> SUBSET Names]]
            /\ live'[Kind(k)][Home(Kind(k), c)] = X
            /\ \A d \in Kinds : \A h \in Contexts \cup {0} :
                 d # Kind(k) \/ h # Home(Kind(k), c) => live'[d][h] = live[d][h]
        BY <1>4, <1>7, <2>1, <3>2, <3>3
      <3> QED
        BY <1>9, <2>1, <3>4 DEF X
    <2>2. CASE Deletes(k)
      <3>1. live' = [live EXCEPT ![Kind(k)][Home(Kind(k), c)] = @ \ {k.n}]
        BY <1>1, <1>9, <2>2 DEF NamesAfter
      <3> QED
        BY <1>2, <1>4, <1>7, <1>9, <2>2, <3>1
    <2>3. CASE ~Generates(k) /\ ~Deletes(k)
      BY <1>1, <1>4, <2>3 DEF NamesAfter
    <2> QED
      BY <2>1, <2>2, <2>3
  <1> QED
    BY <1>1, <1>6, <1>8, <1>10 DEF k, c

LEMMA RunThread ==
  ASSUME GLInv, NEW t \in Threads, Run(t)
  PROVE  /\ phase' \in [Threads -> {"idle", "reset", "entry", "send"}] /\ DOMAIN call' = Threads
         /\ phase'[t] = "idle" /\ call'[t] = NoCall
         /\ \A u \in Threads \ {t} : phase'[u] = phase[u] /\ call'[u] = call[u]
  BY DEF Run, GLInv, TypesInv, ThreadTypes

(* No name in use gets another object.                                     *)
LEMMA RunObjects ==
  ASSUME GLInv, Habits = {}, NEW t \in Threads, Run(t),
         NEW d \in Shared, NEW e, NEW n, n \in Alive(d, e)
  PROVE  Object(gen', d, n) = Object(gen, d, n)
  <1>1. CASE n = 0
    BY <1>1 DEF Object
  <1>2. CASE n # 0
    <2>1. n \in live[d][0]
      BY <1>2 DEF Alive, Home
    <2>2. n \in Names /\ d \in Kinds
      BY <2>1 DEF GLInv, TypesInv, DriverTypes, Kinds
    <2>3. ~(Generates(Ran(t)) /\ d = Kind(Ran(t)) /\ n = Ran(t).n)
      BY <2>1, RunDriver, RanFacts
    <2>4. gen'[d][n] = gen[d][n]
      BY <2>2, <2>3, RunDriver
    <2> QED
      BY <2>4 DEF Object
  <1> QED
    BY <1>1, <1>2

LEMMA RunArrays ==
  ASSUME GLInv, Habits = {}, NEW t \in Threads, Run(t)
  PROVE  LET k == Ran(t)
             c == g_stub_current_ctx[t]
         IN  /\ stub_vaos' \in [Contexts -> ArraysType]
             /\ proxy_vaos' \in [Contexts -> ArraysType]
             /\ \A d \in Contexts \ {c} : /\ stub_vaos'[d] = stub_vaos[d]
                                          /\ proxy_vaos'[d] = proxy_vaos[d]
             /\ stub_vaos'[c].cur = stub_vaos[c].cur
             /\ proxy_vaos'[c].cur = IF k.op = "bindVao" THEN k.n ELSE proxy_vaos[c].cur
             /\ \A x \in Name0 :
                  /\ stub_vaos'[c].ebo[x] = IF k.op = "genVao" /\ x = k.n THEN 0
                                            ELSE stub_vaos[c].ebo[x]
                  /\ proxy_vaos'[c].ebo[x] =
                       IF k.op = "bindEbo" /\ x = proxy_vaos[c].cur THEN k.n
                       ELSE IF k.op = "genVao" /\ x = k.n THEN 0 ELSE proxy_vaos[c].ebo[x]
  <1> DEFINE k == Ran(t)
             c == g_stub_current_ctx[t]
  <1>1. /\ phase[t] = "send" /\ proxy_vaos' = ProxyArrays(c, k)
        /\ stub_vaos' = IF k.op = "genVao" THEN [stub_vaos EXCEPT ![c].ebo[k.n] = 0]
                                           ELSE stub_vaos
    BY DEF Run, Ran
  <1>2. /\ c \in Contexts /\ 0 \in Name0
        /\ k.op \in {"bindVao", "bindEbo", "genVao"} => k.n \in Name0
    BY <1>1, RanFacts DEF CallShape, Name0
  <1>3. stub_vaos \in [Contexts -> ArraysType] /\ proxy_vaos \in [Contexts -> ArraysType]
    BY DEF GLInv, TypesInv, CopyTypes
  <1>4. proxy_vaos[c].cur \in Name0
    BY <1>2, <1>3 DEF ArraysType
  <1> HIDE DEF k, c
  <1>5. CASE k.op = "bindVao"
    <2>1. proxy_vaos' = [proxy_vaos EXCEPT ![c].cur = k.n] /\ stub_vaos' = stub_vaos
      BY <1>1, <1>5 DEF ProxyArrays
    <2> QED
      BY <1>2, <1>3, <1>5, <2>1 DEF ArraysType, k, c
  <1>6. CASE k.op = "bindEbo"
    <2>1. proxy_vaos' = [proxy_vaos EXCEPT ![c].ebo[proxy_vaos[c].cur] = k.n]
          /\ stub_vaos' = stub_vaos
      BY <1>1, <1>6 DEF ProxyArrays
    <2> QED
      BY <1>2, <1>3, <1>4, <1>6, <2>1 DEF ArraysType, k, c
  <1>7. CASE k.op = "genVao"
    <2>1. /\ proxy_vaos' = [proxy_vaos EXCEPT ![c].ebo[k.n] = 0]
          /\ stub_vaos' = [stub_vaos EXCEPT ![c].ebo[k.n] = 0]
      BY <1>1, <1>7 DEF ProxyArrays
    <2> DEFINE n == k.n
    <2>2. n \in Name0 /\ c \in Contexts
      BY <1>2, <1>7
    <2> HIDE DEF n
    <2>3. /\ proxy_vaos' = [proxy_vaos EXCEPT ![c].ebo[n] = 0]
          /\ stub_vaos' = [stub_vaos EXCEPT ![c].ebo[n] = 0]
      BY <2>1 DEF n
    <2>4. /\ stub_vaos' \in [Contexts -> ArraysType] /\ stub_vaos'[c].cur = stub_vaos[c].cur
          /\ \A d \in Contexts \ {c} : stub_vaos'[d] = stub_vaos[d]
          /\ \A x \in Name0 : stub_vaos'[c].ebo[x] = IF x = n THEN 0 ELSE stub_vaos[c].ebo[x]
      BY <1>2, <1>3, <2>2, <2>3 DEF ArraysType
    <2>5. /\ proxy_vaos' \in [Contexts -> ArraysType] /\ proxy_vaos'[c].cur = proxy_vaos[c].cur
          /\ \A d \in Contexts \ {c} : proxy_vaos'[d] = proxy_vaos[d]
          /\ \A x \in Name0 : proxy_vaos'[c].ebo[x] = IF x = n THEN 0 ELSE proxy_vaos[c].ebo[x]
      BY <1>2, <1>3, <2>2, <2>3 DEF ArraysType
    <2> QED
      BY <1>7, <2>4, <2>5 DEF n, k, c
  <1>8. CASE k.op \notin {"bindVao", "bindEbo", "genVao"}
    <2>1. proxy_vaos' = proxy_vaos /\ stub_vaos' = stub_vaos
      BY <1>1, <1>8 DEF ProxyArrays
    <2> QED
      BY <1>2, <1>3, <1>8, <2>1 DEF k, c
  <1> QED
    BY <1>5, <1>6, <1>7, <1>8

(* What the proxy keeps of the framebuffers, entry by entry.               *)
LEMMA RunCache ==
  ASSUME GLInv, Habits = {}, NEW t \in Threads, Run(t)
  PROVE  LET k == Ran(t)
             c == g_stub_current_ctx[t]
             f == Attachable(real[c], k)
             e0 == [fbo |-> f, points |-> k.points, tex |-> k.n]
         IN  /\ fbo' \in [Contexts -> [Targets -> Name0]]
             /\ fbo'[c] = FbAfter(fbo[c], k) /\ \A d \in Contexts \ {c} : fbo'[d] = fbo[d]
             /\ fbo_cache' \in [Contexts -> SUBSET EntryType]
             /\ \A d \in Contexts : /\ IsFiniteSet(fbo_cache'[d])
                                    /\ Cardinality(fbo_cache'[d]) <= CacheEntries
             /\ \A d \in Contexts \ {c} : \A e \in fbo_cache'[d] :
                  e \in fbo_cache[d] /\ (k.op = "delTex" => e.tex # k.n)
             /\ \A e \in fbo_cache'[c] :
                  \/ /\ e \in fbo_cache[c]
                     /\ k.op = "delTex" => e.tex # k.n
                     /\ k.op = "delFb" => e.fbo # k.n
                     /\ k.op = "attachRb" \/ (k.op = "attach" /\ ~Attached(c, k)) =>
                          ~(e.fbo = f /\ Alias(e.points, k.points))
                  \/ k.op = "attach" /\ e = e0
             /\ k.op \in {"attach", "attachRb"} =>
                  f \in Names /\ f = Attachable([fb |-> fbo[c]], k)
  <1> DEFINE k == Ran(t)
             c == g_stub_current_ctx[t]
             f == Attachable(real[c], k)
             e0 == [fbo |-> f, points |-> k.points, tex |-> k.n]
             kept == {e \in fbo_cache[c] : ~(e.fbo = f /\ Alias(e.points, k.points))}
  <1>1. phase[t] = "send" /\ fbo' = BoundFbo(c, k) /\ fbo_cache' = Cached(c, k)
    BY DEF Run, Ran
  <1>2. /\ CallShape(k) /\ k.op \in Ops /\ c \in Contexts /\ c \in made
        /\ k.op \in {"attach", "attachRb"} => f # 0
        /\ k.op \notin {"cap", "view", "active"} => k.n \in Name0
        /\ k.op = "attach" => k.points \in TexturePoints
    BY <1>1, RanFacts DEF CallShape
  <1>3. /\ fbo \in [Contexts -> [Targets -> Name0]] /\ fbo_cache \in [Contexts -> SUBSET EntryType]
        /\ \A d \in Contexts : IsFiniteSet(fbo_cache[d]) /\ Cardinality(fbo_cache[d]) <= CacheEntries
    BY DEF GLInv, TypesInv, TypeOK, CopyTypes
  <1>4. k.op \in {"attach", "attachRb"} => f \in Names /\ f = Attachable([fb |-> fbo[c]], k)
    <2>1. fbo[c] = real[c].fb
      BY <1>2 DEF GLInv, ProxyInv
    <2>2. \A x \in Targets : fbo[c][x] \in Name0
      BY <1>2, <1>3
    <2> QED
      BY <1>2, <2>1, <2>2 DEF Attachable, CallShape, Name0
  <1>g. \A d \in Contexts : \A T \in SUBSET fbo_cache[d] :
          IsFiniteSet(T) /\ Cardinality(T) <= CacheEntries
    <2> TAKE d \in Contexts
    <2> TAKE T \in SUBSET fbo_cache[d]
    <2>1. IsFiniteSet(T) /\ Cardinality(T) <= Cardinality(fbo_cache[d])
      BY <1>3, FS_Subset
    <2>2. Cardinality(T) \in Nat /\ Cardinality(fbo_cache[d]) \in Nat /\ CacheEntries \in Nat
      BY <1>3, <2>1, FS_CardinalityType, StateAssumption
    <2> QED
      BY <1>3, <2>1, <2>2
  <1> HIDE DEF k, c, f
  <1>5. /\ fbo' \in [Contexts -> [Targets -> Name0]]
        /\ fbo'[c] = FbAfter(fbo[c], k) /\ \A d \in Contexts \ {c} : fbo'[d] = fbo[d]
    <2>1. fbo[c] \in [Targets -> Name0] /\ 0 \in Name0
      BY <1>2, <1>3 DEF Name0
    <2>2. CASE k.op = "bindFb"
      <3> DEFINE g == [x \in Targets |-> IF x \in k.targets THEN k.n ELSE fbo[c][x]]
      <3>1. fbo' = [fbo EXCEPT ![c] = g] /\ FbAfter(fbo[c], k) = g
        BY <1>1, <1>2, <1>3, <2>2 DEF BoundFbo, FbAfter
      <3>2. g \in [Targets -> Name0]
        BY <1>2, <2>1, <2>2
      <3> HIDE DEF g
      <3> QED
        BY <1>2, <1>3, <3>1, <3>2
    <2>3. CASE k.op = "delFb"
      <3> DEFINE g == [x \in Targets |-> IF fbo[c][x] = k.n THEN 0 ELSE fbo[c][x]]
      <3>1. fbo' = [fbo EXCEPT ![c] = Renamed(fbo[c], k.n, 0)] /\ FbAfter(fbo[c], k) = g
        BY <1>1, <1>2, <1>3, <2>3 DEF BoundFbo, FbAfter
      <3>2. g \in [Targets -> Name0] /\ Renamed(fbo[c], k.n, 0) = g
        BY <2>1 DEF Renamed
      <3> HIDE DEF g
      <3> QED
        BY <1>2, <1>3, <3>1, <3>2
    <2>4. CASE k.op \notin {"bindFb", "delFb"}
      BY <1>1, <1>2, <1>3, <2>4 DEF BoundFbo, FbAfter
    <2> QED
      BY <2>2, <2>3, <2>4
  <1> DEFINE Q(E, d) ==
               /\ E \in SUBSET EntryType /\ IsFiniteSet(E) /\ Cardinality(E) <= CacheEntries
               /\ d # c => \A e \in E : e \in fbo_cache[d] /\ (k.op = "delTex" => e.tex # k.n)
               /\ d = c => \A e \in E :
                  \/ /\ e \in fbo_cache[c]
                     /\ k.op = "delTex" => e.tex # k.n
                     /\ k.op = "delFb" => e.fbo # k.n
                     /\ k.op = "attachRb" \/ (k.op = "attach" /\ ~Attached(c, k)) =>
                          ~(e.fbo = f /\ Alias(e.points, k.points))
                  \/ k.op = "attach" /\ e = e0
  <1>6. /\ fbo_cache' = [d \in Contexts |-> fbo_cache'[d]]
        /\ \A d \in Contexts : Q(fbo_cache'[d], d)
    <2>1. CASE k.op = "attach" /\ ~Attached(c, k)
      <3> DEFINE E == {e0} \cup IF Cardinality(kept) < CacheEntries THEN kept ELSE {}
      <3>1. fbo_cache' = [fbo_cache EXCEPT ![c] = E]
        BY <1>1, <1>4, <2>1 DEF Cached, Attach
      <3>2. kept \in SUBSET fbo_cache[c] /\ e0 \in EntryType
        BY <1>2, <1>4, <2>1 DEF EntryType
      <3>3. IsFiniteSet(kept) /\ Cardinality(kept) \in Nat /\ CacheEntries \in Nat \ {0}
        BY <1>2, <1>g, <3>2, FS_CardinalityType, StateAssumption
      <3>4. IsFiniteSet(E) /\ Cardinality(E) <= CacheEntries
        <4> HIDE DEF kept, e0
        <4>1. CASE Cardinality(kept) < CacheEntries
          <5>1. E = kept \cup {e0}
            BY <4>1
          <5>2. /\ IsFiniteSet(kept \cup {e0})
                /\ Cardinality(kept \cup {e0}) =
                     IF e0 \in kept THEN Cardinality(kept) ELSE Cardinality(kept) + 1
            BY <3>3, FS_AddElement, Zenon
          <5>3. Cardinality(kept \cup {e0}) <= CacheEntries
            BY <3>3, <4>1, <5>2
          <5> QED
            BY <5>1, <5>2, <5>3, Zenon
        <4>2. CASE ~(Cardinality(kept) < CacheEntries)
          <5>1. E = {e0}
            BY <4>2
          <5>2. IsFiniteSet({e0}) /\ Cardinality({e0}) = 1
            BY FS_Singleton
          <5>3. Cardinality({e0}) <= CacheEntries
            BY <3>3, <5>2
          <5> QED
            BY <5>1, <5>2, <5>3, Zenon
        <4> QED
          BY <4>1, <4>2
      <3>5. \A e \in E : e = e0 \/ e \in kept
        OBVIOUS
      <3>6. E \in SUBSET EntryType
        BY <1>2, <1>3, <3>2, <3>5
      <3> HIDE DEF E
      <3>7. Q(E, c)
        BY <2>1, <3>4, <3>5, <3>6
      <3>8. \A d \in Contexts \ {c} : Q(fbo_cache[d], d)
        BY <1>3, <2>1
      <3> QED
        BY <1>2, <1>3, <3>1, <3>7, <3>8
    <2>2. CASE k.op = "attachRb"
      <3>1. fbo_cache' = [fbo_cache EXCEPT ![c] = kept]
        BY <1>1, <1>4, <2>2 DEF Cached
      <3>2. kept \in SUBSET fbo_cache[c]
        OBVIOUS
      <3>3. Q(kept, c)
        BY <1>2, <1>3, <1>g, <2>2, <3>2
      <3>4. \A d \in Contexts \ {c} : Q(fbo_cache[d], d)
        BY <1>3, <2>2
      <3> HIDE DEF kept, Q
      <3> QED
        BY <1>2, <1>3, <3>1, <3>3, <3>4
    <2>3. CASE k.op = "delTex"
      <3>1. fbo_cache' = [d \in Contexts |-> {e \in fbo_cache[d] : e.tex # k.n}]
        BY <1>1, <2>3 DEF Cached, ForgetTexture
      <3>2. \A d \in Contexts : {e \in fbo_cache[d] : e.tex # k.n} \in SUBSET fbo_cache[d]
        OBVIOUS
      <3>3. \A d \in Contexts : Q({e \in fbo_cache[d] : e.tex # k.n}, d)
        BY <1>3, <1>g, <2>3, <3>2
      <3> HIDE DEF Q
      <3> QED
        BY <3>1, <3>3
    <2>4. CASE k.op = "delFb"
      <3> DEFINE E == {e \in fbo_cache[c] : e.fbo # k.n}
      <3>1. fbo_cache' = [fbo_cache EXCEPT ![c] = E]
        BY <1>1, <2>4 DEF Cached
      <3>2. E \in SUBSET fbo_cache[c]
        OBVIOUS
      <3>3. Q(E, c)
        BY <1>2, <1>3, <1>g, <2>4, <3>2
      <3>4. \A d \in Contexts \ {c} : Q(fbo_cache[d], d)
        BY <1>3, <2>4
      <3> HIDE DEF E, Q
      <3> QED
        BY <1>2, <1>3, <3>1, <3>3, <3>4
    <2>5. CASE /\ ~(k.op = "attach" /\ ~Attached(c, k))
               /\ k.op \notin {"attachRb", "delTex", "delFb"}
      <3>1. fbo_cache' = fbo_cache
        BY <1>1, <2>5 DEF Cached
      <3>2. \A d \in Contexts : Q(fbo_cache[d], d)
        BY <1>3, <2>5
      <3> QED
        BY <1>3, <3>1, <3>2
    <2> QED
      BY <2>1, <2>2, <2>3, <2>4, <2>5
  <1>7. fbo_cache' \in [Contexts -> SUBSET EntryType]
    BY <1>6
  <1> QED
    BY <1>2, <1>4, <1>5, <1>6, <1>7 DEF k, c, f

LEMMA RunTypes ==
  ASSUME GLInv, Habits = {}, NEW t \in Threads, Run(t)
  PROVE  TypesInv'
  <1>1. /\ shadow' \in [Contexts -> ShadowType] /\ bound_array' \in [Contexts -> Name0]
        /\ g_stub_new_ctx' \in Contexts \cup {0} /\ made' \subseteq Contexts
        /\ g_stub_current_ctx' \in [Threads -> Contexts \cup {0}]
    BY RunDriver DEF GLInv, TypesInv, TypeOK, CopyTypes, ThreadTypes
  <1>2. CopyTypes'
    BY <1>1, RunArrays, RunCache DEF CopyTypes
  <1>3. DriverTypes'
    BY RunDriver DEF DriverTypes, GenType
  <1>4. ThreadTypes'
    BY <1>1, RunThread DEF ThreadTypes
  <1>5. \A u \in Threads : phase'[u] = "idle" <=> call'[u] = NoCall
    BY RunThread DEF GLInv, TypesInv, TypeOK
  <1>6. ASSUME NEW d \in Contexts
        PROVE  /\ shadow'[d].tex \in [Units -> Names \cup {0, Forgotten}]
               /\ shadow'[d].smp \in [Units -> Names \cup {0}]
               /\ shadow'[d].fb \in [Targets -> Names \cup {0}]
               /\ stub_vaos'[d].cur \in Names \cup {0}
               /\ Cardinality(fbo_cache'[d]) <= CacheEntries
    <2>1. Name0 \cup {Forgotten} = Names \cup {0, Forgotten} /\ Name0 = Names \cup {0}
      BY DEF Name0
    <2>2. /\ shadow'[d].tex \in [Units -> Name0 \cup {Forgotten}]
          /\ shadow'[d].smp \in [Units -> Name0] /\ shadow'[d].fb \in [Targets -> Name0]
          /\ stub_vaos'[d].cur \in Name0
      BY <1>1, <1>2 DEF CopyTypes, ShadowType, ArraysType
    <2> QED
      BY <2>1, <2>2, RunCache
  <1>7. TypeOK'
    BY <1>1, <1>4, <1>5, <1>6 DEF TypeOK, ThreadTypes
  <1> QED
    BY <1>2, <1>3, <1>4, <1>7 DEF TypesInv

LEMMA CallsMove ==
  ASSUME NEW o \in Ops, NEW u, NEW w, NEW k \in Calls(o, u),
         Kind(k) # "none" /\ k.n # 0 => k.n \in w,
         Deletes(k) => k.n # 0
  PROVE  k \in Calls(o, w)
  <1> DEFINE N(x) == CASE o \in {"cap", "view"} -> {0, 1}
                       [] o = "active" -> Units
                       [] o = "attachRb" \/ o \in DOMAIN GenOf -> {0}
                       [] o \in DOMAIN DelOf -> x
                       [] OTHER -> x \cup {0}
  <1>1. k.op = o /\ k.n \in N(u)
    BY DEF Calls
  <1>2. k.n \in N(w)
    <2>1. CASE o \in DelOps
      <3>1. Deletes(k) /\ Kind(k) # "none"
        BY <1>1, <2>1, KindIs DEF DelOps
      <3>2. k.n \in w /\ N(w) = w
        BY <2>1, <3>1, OpsAre DEF DelOps, GenOps
      <3> QED
        BY <3>2
    <2>2. CASE o \in {"cap", "view", "active", "attachRb"} \cup GenOps
      <3>1. CASE o \in {"cap", "view"}
        BY <1>1, <3>1, OpsAre DEF GenOps, DelOps
      <3>2. CASE o = "active"
        BY <1>1, <3>2, OpsAre DEF GenOps, DelOps
      <3>3. CASE o \in {"attachRb"} \cup GenOps
        <4>1. N(u) = {0} /\ N(w) = {0}
          BY <3>3, OpsAre DEF GenOps, DelOps
        <4> QED
          BY <1>1, <4>1
      <3> QED
        BY <2>2, <3>1, <3>2, <3>3
    <2>3. CASE o \notin DelOps \cup {"cap", "view", "active", "attachRb"} \cup GenOps
      <3>1. Kind(k) # "none"
        BY <1>1, <2>3, KindIs
      <3>2. N(w) = w \cup {0}
        BY <2>3, OpsAre
      <3> QED
        BY <3>1, <3>2
    <2> QED
      BY <2>1, <2>2, <2>3
  <1> QED
    BY <1>2 DEF Calls

LEMMA RunHand ==
  ASSUME GLInv, Habits = {}, NEW t \in Threads, Run(t)
  PROVE  HandInv'
  <1> DEFINE k == Ran(t)
             c == g_stub_current_ctx[t]
  <1>1. /\ phase[t] = "send" /\ UNCHANGED <<g_stub_current_ctx, made>>
        /\ \A u \in Threads \ {t} : phase'[u] = phase[u] /\ call'[u] = call[u]
        /\ phase'[t] = "idle" /\ call'[t] = NoCall
    BY RunDriver, RunThread
  <1> SUFFICES ASSUME NEW u \in Threads, phase'[u] # "idle"
               PROVE  Hand(u)'
    BY DEF HandInv
  <1> DEFINE l == call[u]
             b == g_stub_current_ctx[u]
  <1>2. /\ u # t /\ phase[u] # "idle" /\ call'[u] = l /\ g_stub_current_ctx'[u] = b
    BY <1>1
  <1>3. /\ CallShape(l) /\ l.op \in Ops /\ Hand(u) /\ b \in made /\ b \in Contexts /\ b # c
        /\ Kind(l) # "none" /\ l.n # 0 => l.n \in live[Kind(l)][Home(Kind(l), b)]
    BY <1>1, <1>2, HandType, InHandFacts, RanFacts DEF GLInv
  <1>4. /\ CallShape(k) /\ k.op \in Ops /\ k.op = call[t].op /\ Kind(k) = Kind(call[t]) /\ Hand(t)
        /\ Generates(k) <=> Generates(call[t])
        /\ Deletes(k) <=> Deletes(call[t])
        /\ ~Generates(k) => k = call[t]
        /\ Generates(k) => k.n \in Names /\ \A h \in Contexts \cup {0} :
                                               k.n \notin live[Kind(k)][h]
        /\ c \in made /\ c \in Contexts
    BY <1>1, RanFacts
  <1>5. /\ Deletes(l) => l.n # 0 /\ l.n \in Names /\ Kind(l) # "none" /\ l.op \in DelOps
        /\ Kind(l) # "none" => Kind(l) \in Kinds /\ Home(Kind(l), b) \in Contexts \cup {0}
    <2>1. Deletes(l) <=> l.op \in DelOps
      BY <1>3, KindIs
    <2>2. Deletes(l) => l.n # 0 /\ l.n \in Names /\ Kind(l) # "none"
      BY <1>3, <2>1, KindIs, NamesAre DEF CallShape, DelOps
    <2>3. Kind(l) # "none" => Kind(l) \in Kinds
      BY <1>3, KindIs, OpsAre DEF Kinds, Shared, Private, GenOps, DelOps
    <2> QED
      BY <1>3, <2>1, <2>2, <2>3 DEF Home
  <1>6. Deletes(k) /\ Kind(l) = Kind(k) => l.n # k.n
    <2>1. Deletes(k) => ~Generates(k)
      BY <1>4, KindIs DEF GenOps, DelOps
    <2> QED
      BY <1>2, <1>4, <2>1 DEF Hand
  <1>7. Deletes(l) /\ Kind(l) = Kind(k) => l.n # k.n
    <2>1. CASE Generates(k)
      BY <1>3, <1>4, <1>5, <2>1
    <2>2. CASE ~Generates(k)
      BY <1>2, <1>3, <1>4, <2>2 DEF Hand
    <2> QED
      BY <2>1, <2>2
  <1> HIDE DEF k, c
  <1>8. l \in Calls(l.op, Named(u, Kind(l)))'
    <2>1. ASSUME NEW d, d = Kind(l), d # "none", l.n # 0
          PROVE  l.n \in live'[d][Home(d, b)]
      <3>1. d \in Kinds /\ Home(d, b) \in Contexts \cup {0} /\ l.n \in live[d][Home(d, b)]
        BY <1>3, <1>5, <2>1
      <3>2. live'[d][Home(d, b)] =
              IF d = Kind(k) /\ Home(d, b) = Home(d, c) /\ Generates(k)
              THEN live[d][Home(d, b)] \cup {k.n}
              ELSE IF d = Kind(k) /\ Home(d, b) = Home(d, c) /\ Deletes(k)
              THEN live[d][Home(d, b)] \ {k.n} ELSE live[d][Home(d, b)]
        BY <3>1, RunDriver DEF k, c
      <3> QED
        BY <1>6, <2>1, <3>1, <3>2
    <2>2. Named(u, Kind(l))' = live'[Kind(l)][Home(Kind(l), b)]
      BY <1>2 DEF Named, Home
    <2>3. l \in Calls(l.op, Named(u, Kind(l)))
      BY <1>3 DEF Hand
    <2>4. l \in Calls(l.op, live'[Kind(l)][Home(Kind(l), b)])
      <3>1. Kind(l) # "none" /\ l.n # 0 => l.n \in live'[Kind(l)][Home(Kind(l), b)]
        BY <2>1
      <3> QED
        BY <1>3, <1>5, <2>3, <3>1, CallsMove
    <2> QED
      BY <1>2, <2>2, <2>4 DEF Calls
  <1>9. l.op \in {"attach", "attachRb"} => Attachable(real'[b], l) # 0
    <2>1. real'[b] = real[b]
      BY <1>3, RunDriver DEF c
    <2> QED
      BY <1>3, <2>1 DEF Hand
  <1>10. Generates(l) => Free(b, l)' # {} /\ \A w \in Threads \ {u} : call'[w].op # l.op
    <2> SUFFICES ASSUME Generates(l)
                 PROVE  Free(b, l)' # {} /\ \A w \in Threads \ {u} : call'[w].op # l.op
      OBVIOUS
    <2>1. l.op \in GenOps /\ l.op # "none"
      BY <1>3, KindIs DEF GenOps
    <2>2. \A w \in Threads \ {u} : call'[w].op # l.op
      BY <1>1, <1>3, <2>1, NoCallIs DEF Hand
    <2>3. k.op # l.op
      BY <1>2, <1>3, <1>4 DEF Hand
    <2>4. ~(Generates(k) /\ Kind(k) = Kind(l))
      BY <1>3, <1>4, <2>1, <2>3, KindIs DEF GenOps
    <2>5. Kind(l) # "none" /\ Kind(l) \in Kinds
      BY <1>3, <1>5, <2>1, KindIs DEF GenOps
    <2>6. \A h \in Contexts \cup {0} : live'[Kind(l)][h] \subseteq live[Kind(l)][h]
      BY <2>4, <2>5, RunDriver DEF k, c
    <2>7. Free(b, l) # {}
      BY <1>3 DEF Hand
    <2>8. PICK n \in Names : \A h \in Contexts \cup {0} : n \notin live[Kind(l)][h]
      BY <2>7 DEF Free
    <2>9. \A h \in Contexts \cup {0} : n \notin live'[Kind(l)][h]
      BY <2>6, <2>8
    <2>10. n \in Names \ UNION {live'[Kind(l)][h] : h \in Contexts \cup {0}}
      BY <2>9
    <2>11. Free(b, l)' = Names \ UNION {live'[Kind(l)][h] : h \in Contexts \cup {0}}
      BY <1>2 DEF Free
    <2> QED
      BY <2>2, <2>10, <2>11
  <1>11. Deletes(l) => ~Elsewhere(b, l)'
    <2> SUFFICES ASSUME Deletes(l) PROVE ~Elsewhere(b, l)'
      OBVIOUS
    <2>1. ~Elsewhere(b, l) /\ l.op \in DelOps /\ l.n \in Names
      BY <1>3, <1>5 DEF Hand
    <2>2. /\ \A d \in Contexts : real[d] \in ContextType /\ real'[d] \in ContextType
          /\ gen \in GenType /\ made \subseteq Contexts
          /\ real'[c] = Do(real[c], gen, k) /\ \A d \in Contexts \ {c} : real'[d] = real[d]
      BY RealType, RunDriver DEF k, c
    <2>3. \A d \in Contexts : DOMAIN real[d].ebo = Name0 /\ DOMAIN real'[d].ebo = Name0
      BY <2>2 DEF ContextType
    <2>4. ASSUME Kind(l) \in Shared
          PROVE  Object(gen', Kind(l), l.n) = Object(gen, Kind(l), l.n)
      <3>1. l.n \in Alive(Kind(l), b)
        BY <1>3, <1>5 DEF Alive
      <3> QED
        BY <2>4, <3>1, RunObjects
    <2>5. CASE l.op = "delBuf"
      <3>1. Kind(l) = "buf" /\ "buf" \in Shared
        BY <1>3, <2>5, KindIs DEF Shared
      <3>2. \A d \in made : /\ d # b => real[d].array # Object(gen, "buf", l.n)
                            /\ \A v \in Name0 : real[d].ebo[v] # Object(gen, "buf", l.n)
        BY <2>1, <2>2, <2>3, <2>5, <3>1 DEF Elsewhere
      <3>3. \A d \in made : /\ d # b => real'[d].array # Object(gen, "buf", l.n)
                            /\ \A v \in Name0 : real'[d].ebo[v] # Object(gen, "buf", l.n)
        <4>1. /\ real'[c].array # Object(gen, "buf", l.n)
              /\ \A v \in Name0 : real'[c].ebo[v] # Object(gen, "buf", l.n)
          <5>1. Kind(k) = "buf" => k.n # l.n
            BY <1>5, <1>7, <3>1
          <5>2. /\ real[c].array # Object(gen, "buf", l.n)
                /\ \A v \in Name0 : real[c].ebo[v] # Object(gen, "buf", l.n)
            BY <1>3, <1>4, <3>2
          <5> QED
            BY <1>4, <2>1, <2>2, <5>1, <5>2, DoKeepsOff
        <4> QED
          BY <2>2, <3>2, <4>1
      <3>4. Object(gen', Kind(l), l.n) = Object(gen, "buf", l.n)
        BY <2>4, <3>1
      <3> QED
        BY <1>1, <1>2, <2>2, <2>3, <2>5, <3>1, <3>3, <3>4 DEF Elsewhere
    <2>6. CASE l.op = "delSmp"
      <3>1. Kind(l) = "smp" /\ "smp" \in Shared
        BY <1>3, <2>6, KindIs DEF Shared
      <3>2. \A d \in made \ {b} : \A v \in Units : real[d].smp[v] # Object(gen, "smp", l.n)
        BY <2>1, <2>6, <3>1 DEF Elsewhere
      <3>3. \A d \in made \ {b} : \A v \in Units : real'[d].smp[v] # Object(gen, "smp", l.n)
        <4>1. \A v \in Units : real'[c].smp[v] # Object(gen, "smp", l.n)
          <5>1. Kind(k) = "smp" => k.n # l.n
            BY <1>5, <1>7, <3>1
          <5>2. \A v \in Units : real[c].smp[v] # Object(gen, "smp", l.n)
            BY <1>3, <1>4, <3>2
          <5> QED
            BY <1>4, <2>1, <2>2, <5>1, <5>2, DoKeepsOff
        <4> QED
          BY <2>2, <3>2, <4>1
      <3>4. Object(gen', Kind(l), l.n) = Object(gen, "smp", l.n)
        BY <2>4, <3>1
      <3> QED
        BY <1>1, <1>2, <2>6, <3>1, <3>3, <3>4 DEF Elsewhere
    <2>7. CASE l.op = "delVao"
      BY <1>2, <1>3, <2>1, <2>2, <2>7 DEF Elsewhere
    <2>8. CASE l.op \in {"delTex", "delFb"}
      BY <1>2, <2>8 DEF Elsewhere
    <2> QED
      BY <2>1, <2>5, <2>6, <2>7, <2>8 DEF DelOps
  <1>12. Deletes(l) => \A w \in Threads \ {u} : Kind(call'[w]) = Kind(l) => call'[w].n # l.n
    BY <1>1, <1>3, <1>5, NoCallIs DEF Hand
  <1>13. call'[u] = l /\ g_stub_current_ctx'[u] = b /\ l.op \in Ops
    BY <1>2, <1>3
  <1> QED
    BY <1>8, <1>9, <1>10, <1>11, <1>12, <1>13 DEF Hand

(* The objects the copies of a context bear keep their identity.           *)
LEMMA RunSameObjects ==
  ASSUME GLInv, Habits = {}, NEW t \in Threads, Run(t), NEW d \in made
  PROVE  LET s == shadow[d]
             v == stub_vaos[d]
         IN  /\ \A u \in Units :
                  /\ s.tex[u] # Forgotten => Object(gen', "tex", s.tex[u]) = Object(gen, "tex", s.tex[u])
                  /\ Object(gen', "smp", s.smp[u]) = Object(gen, "smp", s.smp[u])
             /\ Object(gen', "buf", bound_array[d]) = Object(gen, "buf", bound_array[d])
             /\ \A x \in Name0 :
                  /\ Object(gen', "buf", v.ebo[x]) = Object(gen, "buf", v.ebo[x])
                  /\ Object(gen', "buf", proxy_vaos[d].ebo[x]) = Object(gen, "buf", proxy_vaos[d].ebo[x])
             /\ \A e \in fbo_cache[d] : Object(gen', "tex", e.tex) = Object(gen, "tex", e.tex)
  <1>1. \A h \in Shared : \A n : n \in Alive(h, d) => Object(gen', h, n) = Object(gen, h, n)
    BY RunObjects
  <1>2. \A h : Kept(h, d) \subseteq Alive(h, d)
    BY DEF Kept, Alive
  <1>3. "tex" \in Shared /\ "smp" \in Shared /\ "buf" \in Shared
    BY DEF Shared
  <1>4. /\ \A u \in Units : /\ shadow[d].tex[u] \in Kept("tex", d) \cup {Forgotten}
                            /\ shadow[d].smp[u] \in Kept("smp", d)
        /\ bound_array[d] \in Kept("buf", d)
        /\ \A x \in Name0 : /\ stub_vaos[d].ebo[x] \in Kept("buf", d)
                            /\ proxy_vaos[d].ebo[x] \in Alive("buf", d)
        /\ \A e \in fbo_cache[d] : e.tex \in Alive("tex", d)
    BY DEF GLInv, NamesInv
  <1> QED
    BY <1>1, <1>2, <1>3, <1>4

LEMMA RunMirrors ==
  ASSUME GLInv, Habits = {}, NEW t \in Threads, Run(t)
  PROVE  /\ MirrorInv'
         /\ Mirrors(g_stub_current_ctx[t], real[g_stub_current_ctx[t]])'
  <1> DEFINE k == Ran(t)
             c == g_stub_current_ctx[t]
  <1>1. /\ phase[t] = "send"
        /\ UNCHANGED <<shadow, bound_array, g_stub_current_ctx, made>>
        /\ real'[c] = Do(real[c], gen, k) /\ \A d \in Contexts \ {c} : real'[d] = real[d]
        /\ phase'[t] = "idle" /\ call'[t] = NoCall
        /\ \A u \in Threads \ {t} : phase'[u] = phase[u] /\ call'[u] = call[u]
    BY RunDriver, RunThread
  <1>2. /\ CallShape(k) /\ k.op \in Ops
        /\ Generates(k) <=> Generates(call[t])
        /\ ~Generates(k) => k = call[t]
        /\ Generates(k) => k.n \in Names
        /\ c \in made /\ c \in Contexts /\ real[c] \in ContextType
        /\ \A u \in Threads : g_stub_current_ctx[u] = c => u = t
    BY <1>1, RanFacts, RealType
  <1>3. /\ \A d \in Contexts \ {c} : stub_vaos'[d] = stub_vaos[d]
        /\ stub_vaos'[c].cur = stub_vaos[c].cur
        /\ \A x \in Name0 : stub_vaos'[c].ebo[x] = IF k.op = "genVao" /\ x = k.n THEN 0
                                                   ELSE stub_vaos[c].ebo[x]
    BY RunArrays
  <1> DEFINE M(d, r, g, v) ==
        LET s == shadow[d]
        IN  /\ s.cap = r.cap /\ s.view \in {Unknown, r.view} /\ s.unit = r.unit
            /\ \A u \in Units : /\ s.tex[u] # Forgotten => Object(g, "tex", s.tex[u]) = r.tex[u]
                                /\ Object(g, "smp", s.smp[u]) = r.smp[u]
            /\ s.fb = r.fb /\ s.vao = r.vao /\ v.cur = r.vao
            /\ Object(g, "buf", bound_array[d]) = r.array
            /\ \A x \in Name0 : Object(g, "buf", v.ebo[x]) = r.ebo[x]
  <1>4. ASSUME NEW d \in made, NEW r, Mirrors(d, r)
        PROVE  M(d, r, gen', stub_vaos[d])
    BY <1>4, RunSameObjects DEF Mirrors
  <1>5. M(c, real'[c], gen', stub_vaos'[c])
    <2>1. CASE ~Generates(k)
      <3>1. Noting(t)
        BY <1>1, <1>2, <2>1 DEF Noting
      <3>2. Mirrors(c, Do(real[c], gen, k))
        BY <1>2, <2>1, <3>1 DEF GLInv, MirrorInv
      <3>3. k.op # "genVao"
        BY <1>2, <2>1, KindIs DEF GenOps
      <3>4. M(c, real'[c], gen', stub_vaos[c])
        BY <1>1, <1>2, <1>4, <3>2
      <3>5. stub_vaos'[c].cur = stub_vaos[c].cur
            /\ \A x \in Name0 : stub_vaos'[c].ebo[x] = stub_vaos[c].ebo[x]
        BY <1>3, <3>3
      <3> HIDE DEF k, c
      <3> QED
        BY <3>4, <3>5
    <2>2. CASE Generates(k)
      <3>1. \A u \in Threads : g_stub_current_ctx[u] = c => ~Noting(u)
        BY <1>2, <2>2 DEF Noting
      <3>2. Mirrors(c, real[c])
        BY <1>2, <3>1 DEF GLInv, MirrorInv
      <3>3. M(c, real[c], gen', stub_vaos[c])
        BY <1>2, <1>4, <3>2
      <3>4. k.op \in GenOps
        BY <1>2, <2>2, KindIs
      <3> DEFINE r == real[c]
                 R == real'[c]
      <3>5. /\ R.cap = r.cap /\ R.view = r.view /\ R.unit = r.unit /\ R.tex = r.tex
            /\ R.smp = r.smp /\ R.fb = r.fb /\ R.vao = r.vao /\ R.array = r.array
            /\ \A x \in Name0 : R.ebo[x] = IF k.op = "genVao" /\ x = k.n THEN None ELSE r.ebo[x]
        <4>1. r.ebo \in [Name0 -> Objects] /\ R = Do(r, gen, k)
          BY <1>1, <1>2 DEF ContextType
        <4> HIDE DEF r, R, k
        <4>2. /\ R.cap = r.cap /\ R.view = r.view /\ R.unit = r.unit
              /\ R.tex = TexAfter(r, gen, k) /\ R.smp = SmpAfter(r, gen, k)
              /\ R.fb = FbAfter(r.fb, k) /\ R.vao = VaoAfter(r.vao, k)
              /\ R.array = ArrayAfter(r.array, gen, k) /\ R.ebo = EboAfter(r, gen, k)
          <5>1. r \in ContextType
            BY <1>2 DEF r
          <5> QED
            BY <1>2, <3>4, <4>1, <5>1, DoFields DEF GenOps
        <4>3. /\ TexAfter(r, gen, k) = r.tex /\ SmpAfter(r, gen, k) = r.smp
              /\ FbAfter(r.fb, k) = r.fb /\ VaoAfter(r.vao, k) = r.vao
              /\ ArrayAfter(r.array, gen, k) = r.array
          BY <3>4 DEF TexAfter, SmpAfter, FbAfter, VaoAfter, ArrayAfter, GenOps
        <4>4. \A x \in Name0 : EboAfter(r, gen, k)[x] =
                                 IF k.op = "genVao" /\ x = k.n THEN None ELSE r.ebo[x]
          BY <3>4, <4>1 DEF EboAfter, GenOps
        <4> QED
          BY <4>2, <4>3, <4>4
      <3>6. Object(gen', "buf", 0) = None
        BY DEF Object
      <3> HIDE DEF k, c, r, R
      <3> QED
        BY <1>3, <3>3, <3>5, <3>6 DEF r, R
    <2> QED
      BY <2>1, <2>2
  <1>6. Mirrors(g_stub_current_ctx[t], real[g_stub_current_ctx[t]])'
    <2>1. g_stub_current_ctx'[t] = c /\ shadow' = shadow /\ bound_array' = bound_array
      BY <1>1
    <2> HIDE DEF c, k
    <2> QED
      BY <1>5, <2>1 DEF Mirrors, c
  <1>7. ASSUME NEW d \in made \ {c}, NEW r, Coming(d, r)
        PROVE  Mirrors(d, r)'
    <2>1. Mirrors(d, r)
      BY <1>7, ComingMirrors
    <2>2. M(d, r, gen', stub_vaos[d])
      BY <1>4, <2>1
    <2>3. stub_vaos'[d] = stub_vaos[d]
      BY <1>3 DEF GLInv, TypesInv, TypeOK
    <2> HIDE DEF c, k
    <2> QED
      BY <1>1, <2>2, <2>3 DEF Mirrors
  <1>8. MirrorInv'
    <2> SUFFICES ASSUME NEW d \in made'
                 PROVE  /\ (\A u \in Threads : g_stub_current_ctx'[u] = d => ~Noting(u)') =>
                             Mirrors(d, real[d])'
                        /\ \A u \in Threads : g_stub_current_ctx'[u] = d /\ Noting(u)' =>
                             Mirrors(d, Do(real[d], gen, call[u]))'
      BY DEF MirrorInv
    <2>1. ~Noting(t)' /\ \A u \in Threads \ {t} : Noting(u)' <=> Noting(u)
      BY <1>1 DEF Noting
    <2>2. CASE d = c
      <3>1. Mirrors(d, real[d])'
        BY <1>1, <1>6, <2>2
      <3> QED
        BY <1>1, <1>2, <2>1, <2>2, <3>1
    <2>3. CASE d # c
      <3>1. d \in made \ {c} /\ real'[d] = real[d]
        BY <1>1, <2>3 DEF GLInv, TypesInv, TypeOK
      <3>2. ASSUME NEW r, Mirrors(d, r)'
            PROVE  /\ r = real'[d] => Mirrors(d, real[d])'
                   /\ \A u \in Threads : r = Do(real'[d], gen', call'[u]) =>
                        Mirrors(d, Do(real[d], gen, call[u]))'
        BY <3>2
      <3>3. ASSUME \A u \in Threads : g_stub_current_ctx'[u] = d => ~Noting(u)'
            PROVE  Mirrors(d, real[d])'
        <4>1. Coming(d, real[d])
          BY <1>1, <2>1, <2>3, <3>3 DEF Coming
        <4> QED
          BY <1>7, <3>1, <3>2, <4>1
      <3>4. ASSUME NEW u \in Threads, g_stub_current_ctx'[u] = d, Noting(u)'
            PROVE  Mirrors(d, Do(real[d], gen, call[u]))'
        <4>1. u # t /\ Noting(u) /\ g_stub_current_ctx[u] = d /\ call'[u] = call[u]
              /\ phase[u] # "idle"
          BY <1>1, <2>1, <2>3, <3>4 DEF Noting
        <4>2. Coming(d, Do(real[d], gen, call[u]))
          BY <4>1 DEF Coming
        <4>3. Do(real[d], gen', call[u]) = Do(real[d], gen, call[u])
          <5>1. call[u].op \in Ops /\ real[d] \in ContextType
            BY <3>1, <4>1, HandType, RealType
          <5>2. Kind(call[u]) # "none" /\ call[u].n # 0 =>
                  call[u].n \in live[Kind(call[u])][Home(Kind(call[u]), d)]
            BY <4>1, InHandFacts DEF GLInv
          <5>3. Kind(call[u]) \in Shared =>
                  Object(gen', Kind(call[u]), call[u].n) = Object(gen, Kind(call[u]), call[u].n)
            <6>1. Kind(call[u]) \in Shared => Kind(call[u]) # "none"
              BY DEF Shared
            <6>2. Kind(call[u]) \in Shared => call[u].n \in Alive(Kind(call[u]), d)
              BY <5>2, <6>1 DEF Alive
            <6> QED
              BY <6>2, RunObjects
          <5> QED
            BY <5>1, <5>3, DoGenerations
        <4>4. Do(real[d], gen, call[u]) = Do(real'[d], gen', call'[u])
          BY <3>1, <4>1, <4>3
        <4>5. \A r : Coming(d, r) => Mirrors(d, r)'
          BY <1>7, <3>1
        <4> QED
          BY <3>2, <4>2, <4>4, <4>5
      <3> QED
        BY <3>3, <3>4
    <2> QED
      BY <2>2, <2>3
  <1> QED
    BY <1>6, <1>8

LEMMA RunBindings ==
  ASSUME GLInv, Habits = {}, NEW t \in Threads, Run(t), NEW b \in made
  PROVE  /\ fbo'[b] = real'[b].fb /\ proxy_vaos'[b].cur = real'[b].vao
         /\ \A x \in Name0 : Object(gen', "buf", proxy_vaos'[b].ebo[x]) = real'[b].ebo[x]
         /\ Ran(t).op = "delBuf" => \A x \in Name0 : proxy_vaos[b].ebo[x] # Ran(t).n
  <1> DEFINE k == Ran(t)
             c == g_stub_current_ctx[t]
             r == real[c]
             v == proxy_vaos[c]
  <1>1. /\ phase[t] = "send" /\ made \subseteq Contexts
        /\ real'[c] = Do(r, gen, k) /\ \A d \in Contexts \ {c} : real'[d] = real[d]
        /\ \A d \in Contexts : real[d] \in ContextType
        /\ ~Generates(k) => gen' = gen
    BY RunDriver, RealType
  <1>2. /\ CallShape(k) /\ k.op \in Ops /\ c \in made /\ c \in Contexts /\ Hand(t)
        /\ k.op \notin {"cap", "view", "active"} => k.n \in Name0
        /\ k.op \in {"delBuf", "delVao"} => Deletes(call[t]) /\ k = call[t] /\ k.n # 0
        /\ k.op = "delBuf" => Kind(k) = "buf"
        /\ k.op \in {"bindEbo", "delBuf"} => ~Generates(k)
        /\ Generates(k) <=> k.op \in GenOps
    <2>1. CallShape(k) /\ k.op \in Ops /\ c \in made /\ c \in Contexts /\ Hand(t)
      BY <1>1, RanFacts
    <2>2. Generates(k) <=> k.op \in GenOps
      BY <2>1, KindIs
    <2>3. Deletes(k) <=> k.op \in DelOps
      BY <2>1, KindIs
    <2>4. k.op = "delBuf" => Kind(k) = "buf"
      BY <2>1, KindIs
    <2>5. k.op \in {"delBuf", "delVao"} => Deletes(k) /\ ~Generates(k) /\ k.n # 0
      BY <2>1, <2>2, <2>3, NamesAre DEF DelOps, GenOps, CallShape
    <2>6. k.op \in {"delBuf", "delVao"} => Deletes(call[t]) /\ k = call[t]
      BY <1>1, <2>5, RanFacts
    <2> QED
      BY <2>1, <2>2, <2>4, <2>5, <2>6 DEF CallShape, GenOps
  <1>3. /\ fbo[b] = real[b].fb /\ proxy_vaos[b].cur = real[b].vao
        /\ \A x \in Name0 : Object(gen, "buf", proxy_vaos[b].ebo[x]) = real[b].ebo[x]
        /\ \A x \in Name0 : Object(gen', "buf", proxy_vaos[b].ebo[x])
                              = Object(gen, "buf", proxy_vaos[b].ebo[x])
    BY RunSameObjects DEF GLInv, ProxyInv
  <1>4. /\ k.op = "delVao" => r.vao # k.n
        /\ k.op = "delBuf" => \A d \in made : \A x \in Name0 : real[d].ebo[x] # Object(gen, "buf", k.n)
    <2>1. k.op \in {"delBuf", "delVao"} => ~Elsewhere(c, k)
      BY <1>2 DEF Hand
    <2>2. \A d \in made : DOMAIN real[d].ebo = Name0
      BY <1>1 DEF ContextType
    <2> QED
      BY <1>2, <2>1, <2>2 DEF Elsewhere, Shared
  <1>5. k.op = "delBuf" => \A x \in Name0 : proxy_vaos[b].ebo[x] # k.n
    BY <1>3, <1>4
  <1>6. CASE b = c
    <2>1. /\ fbo'[c] = FbAfter(fbo[c], k)
          /\ proxy_vaos'[c].cur = IF k.op = "bindVao" THEN k.n ELSE v.cur
          /\ \A x \in Name0 : proxy_vaos'[c].ebo[x] =
                       IF k.op = "bindEbo" /\ x = v.cur THEN k.n
                       ELSE IF k.op = "genVao" /\ x = k.n THEN 0 ELSE v.ebo[x]
      BY RunCache, RunArrays
    <2>2. /\ real'[c].fb = FbAfter(r.fb, k) /\ real'[c].vao = VaoAfter(r.vao, k)
          /\ real'[c].ebo = EboAfter(r, gen, k)
      <3> HIDE DEF k, c, r
      <3>1. r \in ContextType
        BY <1>1, <1>2 DEF r
      <3> QED
        BY <1>1, <1>2, <3>1, DoFields
    <2>3. r.ebo \in [Name0 -> Objects] /\ r.vao \in Name0
      BY <1>1, <1>2 DEF ContextType
    <2> HIDE DEF k, c, r, v
    <2>4. fbo'[c] = real'[c].fb
      BY <1>3, <1>6, <2>1, <2>2 DEF r
    <2>5. proxy_vaos'[c].cur = real'[c].vao
      BY <1>3, <1>4, <1>6, <2>1, <2>2 DEF r, v, VaoAfter
    <2>6. ASSUME NEW x \in Name0
          PROVE  Object(gen', "buf", proxy_vaos'[c].ebo[x]) = real'[c].ebo[x]
      <3>1. v.cur = r.vao /\ Object(gen, "buf", v.ebo[x]) = r.ebo[x]
            /\ Object(gen', "buf", v.ebo[x]) = r.ebo[x]
        BY <1>3, <1>6 DEF v, r
      <3>2. CASE k.op = "bindEbo"
        BY <1>1, <1>2, <2>1, <2>2, <2>3, <3>1, <3>2 DEF EboAfter
      <3>3. CASE k.op = "genVao"
        <4>1. Object(gen', "buf", 0) = None
          BY DEF Object
        <4> QED
          BY <1>2, <2>1, <2>2, <2>3, <3>1, <3>3, <4>1 DEF EboAfter
      <3>4. CASE k.op = "delBuf"
        BY <1>2, <1>4, <2>1, <2>2, <2>3, <3>1, <3>4 DEF EboAfter, r
      <3>5. CASE k.op \notin {"bindEbo", "genVao", "delBuf"}
        BY <2>1, <2>2, <3>1, <3>5 DEF EboAfter
      <3> QED
        BY <3>2, <3>3, <3>4, <3>5
    <2>7. /\ fbo'[b] = real'[b].fb /\ proxy_vaos'[b].cur = real'[b].vao
          /\ \A x \in Name0 : Object(gen', "buf", proxy_vaos'[b].ebo[x]) = real'[b].ebo[x]
      BY <1>6, <2>4, <2>5, <2>6
    <2> QED
      BY <1>5, <2>7 DEF k
  <1>7. CASE b # c
    <2>1. b \in Contexts \ {c}
      BY <1>1, <1>7
    <2>2. fbo'[b] = fbo[b] /\ proxy_vaos'[b] = proxy_vaos[b] /\ real'[b] = real[b]
      <3>1. fbo'[b] = fbo[b]
        BY <2>1, RunCache
      <3>2. proxy_vaos'[b] = proxy_vaos[b]
        BY <2>1, RunArrays
      <3> QED
        BY <1>1, <2>1, <3>1, <3>2
    <2>3. fbo'[b] = real'[b].fb /\ proxy_vaos'[b].cur = real'[b].vao
      BY <1>3, <2>2
    <2>4. ASSUME NEW x \in Name0
          PROVE  Object(gen', "buf", proxy_vaos'[b].ebo[x]) = real'[b].ebo[x]
      <3>1. Object(gen', "buf", proxy_vaos[b].ebo[x]) = real[b].ebo[x]
        BY <1>3
      <3> QED
        BY <2>2, <3>1
    <2> QED
      BY <1>5, <2>3, <2>4 DEF k
  <1> QED
    BY <1>6, <1>7

LEMMA RunAttachments ==
  ASSUME GLInv, Habits = {}, NEW t \in Threads, Run(t)
  PROVE  AttachmentsKnown'
  <1> DEFINE k == Ran(t)
             c == g_stub_current_ctx[t]
             r == real[c]
             f == Attachable(r, k)
             e0 == [fbo |-> f, points |-> k.points, tex |-> k.n]
  <1>1. /\ phase[t] = "send" /\ made' = made /\ made \subseteq Contexts
        /\ real'[c] = Do(r, gen, k) /\ \A d \in Contexts \ {c} : real'[d] = real[d]
        /\ \A d \in Contexts : real[d] \in ContextType
        /\ gen \in GenType /\ (~Generates(k) => gen' = gen)
    BY RunDriver, RealType
  <1>2. /\ CallShape(k) /\ k.op \in Ops /\ c \in made /\ c \in Contexts
        /\ Generates(k) <=> k.op \in GenOps
    <2>1. CallShape(k) /\ k.op \in Ops /\ c \in made /\ c \in Contexts
      BY <1>1, RanFacts
    <2> QED
      BY <2>1, KindIs
  <1>3. ASSUME NEW d \in made, NEW e \in fbo_cache[d], NEW p \in e.points
        PROVE  /\ real[d].att[e.fbo][p] = Object(gen, "tex", e.tex)
               /\ Object(gen', "tex", e.tex) = Object(gen, "tex", e.tex)
               /\ e \in EntryType /\ p \in Points
    <2>1. e \in EntryType
      BY <1>1 DEF GLInv, TypesInv, CopyTypes
    <2> QED
      BY <2>1, RunSameObjects DEF GLInv, ProxyInv, AttachmentsKnown, EntryType, TexturePoints, Points
  <1> SUFFICES ASSUME NEW d \in made, NEW e \in fbo_cache'[d], NEW p \in e.points
               PROVE  real'[d].att[e.fbo][p] = Object(gen', "tex", e.tex)
    BY <1>1 DEF AttachmentsKnown
  <1>4. CASE d # c
    <2>1. d \in Contexts \ {c}
      BY <1>1, <1>4
    <2>2. e \in fbo_cache[d] /\ real'[d] = real[d]
      BY <1>1, <2>1, RunCache
    <2> QED
      BY <1>3, <2>2
  <1>5. CASE d = c
    <2>1. real'[c].att = AttAfter(r, gen, k) /\ r.att \in [Names -> [Points -> Objects]]
      <3>1. r \in ContextType
        BY <1>1, <1>2
      <3>2. r.att \in [Names -> [Points -> Objects]]
        BY <3>1 DEF ContextType
      <3> HIDE DEF k, c, r
      <3> QED
        BY <1>1, <1>2, <3>1, <3>2, DoFields
    <2>2. /\ \/ /\ e \in fbo_cache[c]
                /\ k.op = "delTex" => e.tex # k.n
                /\ k.op = "delFb" => e.fbo # k.n
                /\ k.op = "attachRb" \/ (k.op = "attach" /\ ~Attached(c, k)) =>
                     ~(e.fbo = f /\ Alias(e.points, k.points))
             \/ k.op = "attach" /\ e = e0
          /\ k.op \in {"attach", "attachRb"} => f \in Names
      BY <1>5, RunCache
    <2>3. CASE k.op = "attach" /\ e = e0
      <3>1. e.fbo = f /\ e.points = k.points /\ e.tex = k.n /\ f \in Names /\ gen' = gen
        BY <1>1, <1>2, <2>2, <2>3 DEF GenOps
      <3>2. p \in Points /\ p \in k.points
        BY <1>2, <3>1 DEF CallShape, CallType
      <3> HIDE DEF k, r, c, e0
      <3>3. AttAfter(r, gen, k)[f][p] = Object(gen, "tex", k.n)
        BY <2>1, <2>3, <3>1, <3>2 DEF AttAfter, f
      <3> QED
        BY <1>5, <2>1, <3>1, <3>3
    <2>4. CASE /\ e \in fbo_cache[c]
               /\ k.op = "delTex" => e.tex # k.n
               /\ k.op = "delFb" => e.fbo # k.n
               /\ k.op = "attachRb" \/ (k.op = "attach" /\ ~Attached(c, k)) =>
                    ~(e.fbo = f /\ Alias(e.points, k.points))
      <3>1. /\ r.att[e.fbo][p] = Object(gen, "tex", e.tex)
            /\ Object(gen', "tex", e.tex) = Object(gen, "tex", e.tex)
            /\ e.fbo \in Names /\ e.points \in TexturePoints /\ e.tex \in Name0 /\ p \in Points
        <4>1. e \in EntryType
          BY <1>2, <1>3, <1>5, <2>4
        <4> QED
          BY <1>2, <1>3, <1>5, <2>4, <4>1 DEF EntryType
      <3> SUFFICES real'[c].att[e.fbo][p] = r.att[e.fbo][p]
        BY <1>5, <3>1
      <3>2. CASE k.op = "attach" /\ Attached(c, k)
        <4>1. Handled(c, k) = Do(r, gen, k)
          BY <1>1, HandledIs
        <4>2. Handled(c, k) = r
          BY <3>2 DEF Handled
        <4> QED
          BY <1>1, <4>1, <4>2
      <3>3. CASE k.op = "attachRb" \/ (k.op = "attach" /\ ~Attached(c, k))
        <4>1. e.fbo # f \/ p \notin k.points
          <5>1. e.fbo = f => ~Alias(e.points, k.points)
            BY <2>4, <3>3
          <5>2. k.points \in TexturePoints \cup {{"stencil"}, {"depth", "stencil"}}
            BY <1>2, <3>3 DEF CallShape
          <5>3. ~Alias(e.points, k.points) => p \notin k.points
            BY <3>1, <5>2 DEF Alias, TexturePoints
          <5> QED
            BY <5>1, <5>3
        <4>2. f \in Names
          BY <2>2, <3>3
        <4> HIDE DEF k, r, c, f
        <4> QED
          BY <2>1, <3>1, <3>3, <4>1, <4>2 DEF AttAfter, f
      <3>4. CASE k.op = "genFb"
        <4>1. e.fbo # k.n
          <5>1. e.fbo \in Alive("fb", c)
            BY <1>2, <2>4 DEF GLInv, NamesInv
          <5>2. Kind(k) = "fb" /\ Generates(k)
            BY <1>2, <3>4, KindIs DEF GenOps
          <5>3. k.n \notin live["fb"][c]
            BY <1>1, <1>2, <5>2, RanFacts
          <5> QED
            BY <3>1, <5>1, <5>3, NamesAre DEF Alive, Home, Shared
        <4> HIDE DEF k, r, c
        <4> QED
          BY <2>1, <3>1, <3>4, <4>1 DEF AttAfter
      <3>5. CASE k.op = "delTex"
        <4>1. e.tex # k.n /\ k.n \in Name0 /\ "tex" \in Shared
          BY <1>2, <2>4, <3>5 DEF CallShape, Shared
        <4>2. Object(gen, "tex", e.tex) # Object(gen, "tex", k.n)
          BY <1>1, <3>1, <4>1, ObjectApart
        <4> HIDE DEF k, r, c
        <4>3. Without(r.att[e.fbo], Object(gen, "tex", k.n))[p] = r.att[e.fbo][p]
          BY <2>1, <3>1, <4>2 DEF Without
        <4> QED
          BY <2>1, <3>1, <3>5, <4>3 DEF AttAfter
      <3>6. CASE k.op \notin {"attach", "attachRb", "genFb", "delTex"}
        <4> HIDE DEF k, r, c
        <4> QED
          BY <2>1, <3>6 DEF AttAfter
      <3> QED
        BY <3>2, <3>3, <3>4, <3>5, <3>6
    <2> QED
      BY <2>2, <2>3, <2>4
  <1> QED
    BY <1>4, <1>5

(* A name that goes is borne by no copy, one that comes by nothing else.   *)
LEMMA RunKept ==
  ASSUME GLInv, Habits = {}, NEW t \in Threads, Run(t), NEW d \in Kinds, NEW e \in made
  PROVE  LET k == Ran(t)
             c == g_stub_current_ctx[t]
         IN  /\ Kept(d, e) \subseteq Kept(d, e)'
             /\ \A x : x \in Alive(d, e) /\ ~(Deletes(k) /\ d = Kind(k) /\ x = k.n) =>
                  x \in Alive(d, e)'
             /\ d \in Private /\ e # c => Alive(d, e)' = Alive(d, e)
             /\ \A x : d = Kind(k) /\ d # "none" /\ e = c /\ x = k.n /\ ~Generates(k) /\ ~Deletes(k)
                  => x \in Alive(d, e)'
  <1> DEFINE k == Ran(t)
             c == g_stub_current_ctx[t]
             h == Home(d, e)
  <1>1. /\ phase[t] = "send" /\ g_stub_current_ctx' = g_stub_current_ctx /\ made \subseteq Contexts
        /\ phase'[t] = "idle"
        /\ \A u \in Threads \ {t} : phase'[u] = phase[u] /\ call'[u] = call[u]
    BY RunDriver, RunThread, RealType
  <1>2. h \in Contexts \cup {0}
    BY <1>1 DEF Home
  <1>3. live'[d][h] = IF d = Kind(k) /\ h = Home(d, c) /\ Generates(k)
                      THEN live[d][h] \cup {k.n}
                      ELSE IF d = Kind(k) /\ h = Home(d, c) /\ Deletes(k)
                      THEN live[d][h] \ {k.n} ELSE live[d][h]
    BY <1>2, RunDriver
  <1>4. /\ k.op \in Ops /\ Kind(k) = Kind(call[t])
        /\ Generates(k) <=> Generates(call[t])
        /\ Deletes(k) <=> Deletes(call[t])
        /\ ~Generates(k) => k = call[t]
        /\ Generates(k) <=> k.op \in GenOps
        /\ Deletes(k) <=> k.op \in DelOps
    <2>1. k.op \in Ops
      BY <1>1, RanFacts
    <2> QED
      BY <1>1, <2>1, RanFacts, KindIs
  <1>5. ASSUME NEW x \in Going(d, h)' PROVE x \in Going(d, h)
    <2>1. PICK u \in Threads : /\ phase'[u] = "send" /\ Deletes(call'[u]) /\ Kind(call'[u]) = d
                               /\ Home(d, g_stub_current_ctx'[u]) = h /\ x = call'[u].n
      BY <1>5 DEF Going
    <2>2. u # t
      BY <1>1, <2>1
    <2> QED
      BY <1>1, <2>1, <2>2, GoingIs
  <1>6. d = Kind(k) /\ h = Home(d, c) /\ Deletes(k) => k.n \in Going(d, h)
    <2> SUFFICES ASSUME d = Kind(k), h = Home(d, c), Deletes(k) PROVE k.n \in Going(d, h)
      OBVIOUS
    <2>1. k = call[t] /\ Deletes(call[t]) /\ Kind(call[t]) = d
      BY <1>4 DEF GenOps, DelOps
    <2> QED
      BY <1>1, <2>1, GoingIs
  <1>7. ASSUME NEW x \in Kept(d, e)
        PROVE  x \in Kept(d, e)'
    <2>1. x = 0 \/ x \in live[d][h] \ Going(d, h)
      BY DEF Kept
    <2>2. x \in live[d][h] \ Going(d, h) => x \in live'[d][h] \ Going(d, h)'
      BY <1>3, <1>5, <1>6
    <2> QED
      BY <2>1, <2>2 DEF Kept
  <1>8. ASSUME NEW x, x \in Alive(d, e), ~(Deletes(k) /\ d = Kind(k) /\ x = k.n)
        PROVE  x \in Alive(d, e)'
    <2>1. x = 0 \/ x \in live[d][h]
      BY <1>8 DEF Alive
    <2>2. x \in live[d][h] => x \in live'[d][h]
      BY <1>3, <1>8
    <2> QED
      BY <2>1, <2>2 DEF Alive
  <1>9. d \in Private /\ e # c => Alive(d, e)' = Alive(d, e)
    <2> SUFFICES ASSUME d \in Private, e # c PROVE Alive(d, e)' = Alive(d, e)
      OBVIOUS
    <2>1. h = e /\ Home(d, c) = c
      BY DEF Home, Private, Shared
    <2>2. live'[d][h] = live[d][h]
      BY <1>3, <2>1
    <2> QED
      BY <2>2 DEF Alive
  <1>10. ASSUME NEW x, d = Kind(k), d # "none", e = c, x = k.n, ~Generates(k), ~Deletes(k)
         PROVE  x \in Alive(d, e)'
    <2>1. x # 0 => x \in live[d][h]
      BY <1>1, <1>10, RanFacts
    <2>2. live'[d][h] = live[d][h]
      BY <1>3, <1>10
    <2> QED
      BY <2>1, <2>2 DEF Alive
  <1> QED
    BY <1>7, <1>8, <1>9, <1>10

LEMMA RunNames ==
  ASSUME GLInv, Habits = {}, NEW t \in Threads, Run(t)
  PROVE  NamesInv'
  <1> DEFINE k == Ran(t)
             c == g_stub_current_ctx[t]
             r == real[c]
  <1>1. /\ phase[t] = "send" /\ UNCHANGED <<shadow, bound_array, made>>
        /\ made \subseteq Contexts
        /\ \A d \in Contexts \ {c} : real'[d] = real[d]
    BY RunDriver, RealType
  <1>2. /\ CallShape(k) /\ k.op \in Ops /\ c \in made /\ c \in Contexts
        /\ Generates(k) <=> k.op \in GenOps
        /\ Deletes(k) <=> k.op \in DelOps
        /\ Deletes(k) /\ Kind(k) = "buf" <=> k.op = "delBuf"
        /\ Deletes(k) /\ Kind(k) = "tex" <=> k.op = "delTex"
        /\ Deletes(k) /\ Kind(k) = "fb" <=> k.op = "delFb"
        /\ k.op = "bindEbo" => Kind(k) = "buf" /\ ~Generates(k) /\ ~Deletes(k)
        /\ k.op = "attach" => Kind(k) = "tex" /\ ~Generates(k) /\ ~Deletes(k)
    <2>1. CallShape(k) /\ k.op \in Ops /\ c \in made /\ c \in Contexts
      BY <1>1, RanFacts
    <2> QED
      BY <2>1, KindIs DEF GenOps, DelOps
  <1>3. {"tex", "smp", "buf", "fb", "vao"} \subseteq Kinds /\ "fb" \in Private /\ "vao" \in Private
    BY DEF Kinds, Shared, Private
  <1>4. \A d \in Private : \A b, e \in Contexts \cup {0} :
          b # e => live'[d][b] \cap live'[d][e] = {}
    <2> SUFFICES ASSUME NEW d \in Private, NEW b \in Contexts \cup {0},
                        NEW e \in Contexts \cup {0}, b # e
                 PROVE  live'[d][b] \cap live'[d][e] = {}
      OBVIOUS
    <2>1. live[d][b] \cap live[d][e] = {} /\ d \in Kinds
      BY DEF GLInv, NamesInv, Kinds
    <2>2. \A x \in Contexts \cup {0} :
            live'[d][x] = IF d = Kind(k) /\ x = Home(d, c) /\ Generates(k)
                          THEN live[d][x] \cup {k.n}
                          ELSE IF d = Kind(k) /\ x = Home(d, c) /\ Deletes(k)
                          THEN live[d][x] \ {k.n} ELSE live[d][x]
      BY <2>1, RunDriver
    <2>3. Generates(k) => \A x \in Contexts \cup {0} : k.n \notin live[Kind(k)][x]
      BY <1>1, RanFacts
    <2> HIDE DEF k, c
    <2>4. CASE d = Kind(k) /\ Generates(k)
      <3>1. \A x \in Contexts \cup {0} : \A y :
              y \in live'[d][x] => y \in live[d][x] \/ (y = k.n /\ x = Home(d, c))
        BY <2>2, <2>4
      <3>2. k.n \notin live[d][b] /\ k.n \notin live[d][e]
        BY <2>3, <2>4
      <3> SUFFICES ASSUME NEW y, y \in live'[d][b], y \in live'[d][e] PROVE FALSE
        OBVIOUS
      <3>3. y \in live[d][b] \/ (y = k.n /\ b = Home(d, c))
        BY <3>1
      <3>4. y \in live[d][e] \/ (y = k.n /\ e = Home(d, c))
        BY <3>1
      <3> QED
        BY <2>1, <3>2, <3>3, <3>4
    <2>5. CASE ~(d = Kind(k) /\ Generates(k))
      <3>1. \A x \in Contexts \cup {0} : live'[d][x] \subseteq live[d][x]
        BY <2>2, <2>5
      <3> QED
        BY <2>1, <3>1
    <2> QED
      BY <2>4, <2>5
  <1>5. ASSUME NEW e \in made
        PROVE  /\ \A u \in Units : /\ shadow'[e].tex[u] \in Kept("tex", e)' \cup {Forgotten}
                                   /\ shadow'[e].smp[u] \in Kept("smp", e)'
               /\ \A x \in Targets : shadow'[e].fb[x] \in Kept("fb", e)'
               /\ shadow'[e].vao \in Kept("vao", e)'
               /\ bound_array'[e] \in Kept("buf", e)'
    <2>1. \A d \in {"tex", "smp", "buf", "fb", "vao"} : Kept(d, e) \subseteq Kept(d, e)'
      BY <1>3, RunKept
    <2> QED
      BY <1>1, <2>1 DEF GLInv, NamesInv
  <1>6. ASSUME NEW e \in made, NEW x \in Name0
        PROVE  stub_vaos'[e].ebo[x] \in Kept("buf", e)'
    <2>1. stub_vaos'[e].ebo[x] \in {0, stub_vaos[e].ebo[x]}
      <3>1. CASE e = c
        BY <3>1, RunArrays
      <3>2. CASE e # c
        BY <1>1, <3>2, RunArrays
      <3> QED
        BY <3>1, <3>2
    <2>2. 0 \in Kept("buf", e)' /\ Kept("buf", e) \subseteq Kept("buf", e)'
      BY <1>3, RunKept DEF Kept
    <2> QED
      BY <2>1, <2>2 DEF GLInv, NamesInv
  <1>7. ASSUME NEW e \in made
        PROVE  /\ \A x \in Targets : real'[e].fb[x] \in Alive("fb", e)'
               /\ real'[e].vao \in Alive("vao", e)'
    <2>1. CASE e = c
      <3>1. Mirrors(g_stub_current_ctx[t], real[g_stub_current_ctx[t]])'
        BY RunMirrors
      <3>2. shadow'[c].fb = real'[c].fb /\ shadow'[c].vao = real'[c].vao
        BY <3>1, RunDriver DEF Mirrors
      <3>3. \A d : Kept(d, e)' \subseteq Alive(d, e)'
        BY DEF Kept, Alive
      <3> QED
        BY <1>5, <2>1, <3>2, <3>3
    <2>2. CASE e # c
      <3>1. real'[e] = real[e]
        BY <1>1, <2>2
      <3>2. Alive("fb", e)' = Alive("fb", e) /\ Alive("vao", e)' = Alive("vao", e)
        BY <1>3, <2>2, RunKept
      <3> QED
        BY <3>1, <3>2 DEF GLInv, NamesInv
    <2> QED
      BY <2>1, <2>2
  <1>8. ASSUME NEW e \in made, NEW x \in Name0
        PROVE  proxy_vaos'[e].ebo[x] \in Alive("buf", e)'
    <2>1. proxy_vaos[e].ebo[x] \in Alive("buf", e)'
      <3>1. k.op = "delBuf" => proxy_vaos[e].ebo[x] # k.n
        BY RunBindings
      <3>2. proxy_vaos[e].ebo[x] \in Alive("buf", e)
        BY DEF GLInv, NamesInv
      <3> QED
        BY <1>2, <1>3, <3>1, <3>2, RunKept
    <2>2. 0 \in Alive("buf", e)' /\ (k.op = "bindEbo" /\ e = c => k.n \in Alive("buf", e)')
      <3>1. k.op = "bindEbo" /\ e = c => \A y : y = k.n => y \in Alive("buf", e)'
        BY <1>2, <1>3, RunKept
      <3>2. 0 \in Alive("buf", e)'
        BY DEF Alive
      <3> QED
        BY <3>1, <3>2
    <2>3. \/ proxy_vaos'[e].ebo[x] \in {0, proxy_vaos[e].ebo[x]}
          \/ k.op = "bindEbo" /\ e = c /\ proxy_vaos'[e].ebo[x] = k.n
      <3>1. CASE e = c
        BY <3>1, RunArrays
      <3>2. CASE e # c
        BY <1>1, <3>2, RunArrays
      <3> QED
        BY <3>1, <3>2
    <2> QED
      BY <2>1, <2>2, <2>3
  <1>9. ASSUME NEW e \in made, NEW y \in fbo_cache'[e]
        PROVE  y.fbo \in Alive("fb", e)' /\ y.tex \in Alive("tex", e)'
    <2> DEFINE f == Attachable(r, k)
    <2>1. CASE e # c
      <3>1. y \in fbo_cache[e] /\ (k.op = "delTex" => y.tex # k.n)
        BY <1>1, <2>1, RunCache
      <3>2. Alive("fb", e)' = Alive("fb", e)
        BY <1>3, <2>1, RunKept
      <3>3. y.fbo \in Alive("fb", e) /\ y.tex \in Alive("tex", e)
        BY <3>1 DEF GLInv, NamesInv
      <3>4. y.tex \in Alive("tex", e)'
        BY <1>2, <1>3, <3>1, <3>3, RunKept
      <3> QED
        BY <3>2, <3>3, <3>4
    <2>2. CASE e = c /\ y \in fbo_cache[c] /\ (k.op = "delTex" => y.tex # k.n)
                      /\ (k.op = "delFb" => y.fbo # k.n)
      <3>1. y.fbo \in Alive("fb", e) /\ y.tex \in Alive("tex", e)
        BY <2>2 DEF GLInv, NamesInv
      <3> QED
        BY <1>2, <1>3, <2>2, <3>1, RunKept
    <2>3. CASE e = c /\ k.op = "attach" /\ y = [fbo |-> f, points |-> k.points, tex |-> k.n]
      <3>1. \A z : z = k.n => z \in Alive("tex", e)'
        BY <1>2, <1>3, <2>3, RunKept
      <3>2. f \in Alive("fb", e)
        <4>1. \E x \in Targets : k.targets = {x}
          BY <1>2, <2>3 DEF CallShape
        <4>2. \A x \in Targets : r.fb[x] \in Alive("fb", e)
          BY <2>3 DEF GLInv, NamesInv
        <4> QED
          BY <4>1, <4>2 DEF Attachable
      <3>3. f \in Alive("fb", e)'
        BY <1>2, <1>3, <2>3, <3>2, RunKept
      <3>4. y.fbo = f /\ y.tex = k.n
        BY <2>3
      <3> QED
        BY <3>1, <3>3, <3>4
    <2> QED
      BY <2>1, <2>2, <2>3, RunCache
  <1> QED
    BY <1>1, <1>4, <1>5, <1>6, <1>7, <1>8, <1>9 DEF NamesInv

LEMMA RunKeeps ==
  ASSUME GLInv, Habits = {}, NEW t \in Threads, Run(t)
  PROVE  GLInv'
  <1>1. /\ phase[t] = "send" /\ phase'[t] = "idle"
        /\ UNCHANGED <<bound_array, shadow, g_stub_new_ctx, g_stub_current_ctx, made>>
        /\ \A u \in Threads \ {t} : phase'[u] = phase[u]
        /\ g_stub_current_ctx[t] \in made /\ made \subseteq Contexts
    BY RunDriver, RunThread, RanFacts, RealType
  <1>2. ThreadInv'
    <2>1. \A u \in Threads : phase'[u] # "idle" => phase[u] # "idle"
      BY <1>1
    <2> QED
      BY <1>1, <2>1 DEF GLInv, ThreadInv
  <1>3. ProxyInv'
    BY <1>1, RunBindings, RunAttachments DEF ProxyInv
  <1>4. UnmadeInv'
    <2>1. \A d \in Contexts \ made : real'[d] = real[d] /\ proxy_vaos'[d] = proxy_vaos[d]
      <3>1. \A d \in Contexts \ made : d \in Contexts \ {g_stub_current_ctx[t]}
        BY <1>1
      <3> QED
        BY <3>1, RunDriver, RunArrays
    <2> QED
      BY <1>1, <2>1 DEF GLInv, UnmadeInv
  <1>5. NewInv'
    <2>1. g_stub_new_ctx = 0
      BY <1>1 DEF GLInv, NewInv
    <2>2. \A u \in Threads : phase[u] # "reset"
      BY <2>1 DEF GLInv, NewInv
    <2> QED
      BY <1>1, <2>1, <2>2 DEF NewInv
  <1> QED
    BY <1>2, <1>3, <1>4, <1>5, RunTypes, RunHand, RunNames, RunMirrors DEF GLInv

-----------------------------------------------------------------------------
(* The invariant *)

LEMMA InitInv == Init => GLInv
  <1> SUFFICES ASSUME Init PROVE GLInv
    OBVIOUS
  <1>1. /\ shadow = [c \in Contexts |-> FreshShadow] /\ bound_array = [c \in Contexts |-> 0]
        /\ stub_vaos = [c \in Contexts |-> FreshArrays] /\ g_stub_new_ctx = 0
        /\ g_stub_current_ctx = [t \in Threads |-> 0] /\ call = [t \in Threads |-> NoCall]
        /\ phase = [t \in Threads |-> "idle"] /\ fbo = [c \in Contexts |-> [x \in Targets |-> 0]]
        /\ fbo_cache = [c \in Contexts |-> {}] /\ proxy_vaos = [c \in Contexts |-> FreshArrays]
        /\ real = [c \in Contexts |-> FreshContext] /\ gen = [k \in Shared |-> [n \in Names |-> 0]]
        /\ live = [k \in Kinds |-> [c \in Contexts \cup {0} |-> {}]] /\ made = {}
    BY DEF Init
  <1>2. 0 \in Name0 /\ IsFiniteSet({}) /\ Cardinality({}) <= CacheEntries
    BY FS_EmptySet, StateAssumption DEF Name0
  <1>3. TypesInv
    <2>1. CopyTypes /\ DriverTypes /\ ThreadTypes
      BY <1>1, <1>2, FreshIn DEF CopyTypes, DriverTypes, ThreadTypes
    <2>2. TypeOK
      BY <1>1, <1>2 DEF TypeOK, FreshShadow, FreshArrays
    <2> QED
      BY <2>1, <2>2 DEF TypesInv
  <1>4. ThreadInv /\ HandInv /\ MirrorInv /\ ProxyInv
    BY <1>1 DEF ThreadInv, HandInv, MirrorInv, ProxyInv, AttachmentsKnown
  <1>5. NamesInv
    <2>1. \A d \in Private : \A c, e \in Contexts \cup {0} : live[d][c] \cap live[d][e] = {}
      BY <1>1 DEF Kinds
    <2> QED
      BY <1>1, <2>1 DEF NamesInv
  <1>6. UnmadeInv /\ NewInv
    BY <1>1 DEF UnmadeInv, NewInv
  <1> QED
    BY <1>3, <1>4, <1>5, <1>6 DEF GLInv

LEMMA NextKeeps ==
  ASSUME GLInv, Habits = {}, Next
  PROVE  GLInv'
  <1>1. ASSUME NEW t \in Threads, NEW o \in Ops, Begin(t, o)
        PROVE  GLInv'
    BY <1>1, BeginKeeps
  <1>2. ASSUME NEW t \in Threads, ResetShadows(t) \/ Skip(t) \/ Note(t) \/ Run(t)
        PROVE  GLInv'
    BY <1>2, ResetKeeps, SkipKeeps, NoteKeeps, RunKeeps
  <1>3. ASSUME NEW t \in Threads, CreateContext(t)
        PROVE  GLInv'
    BY <1>3, CreateKeeps
  <1>4. ASSUME NEW t \in Threads, NEW c \in Contexts, DestroyContext(t, c)
        PROVE  GLInv'
    BY <1>4, DestroyKeeps
  <1>5. ASSUME NEW t \in Threads, NEW c \in Contexts \cup {0}, MakeCurrent(t, c)
        PROVE  GLInv'
    BY <1>5, MakeCurrentKeeps
  <1> QED
    BY <1>1, <1>2, <1>3, <1>4, <1>5 DEF Next

(* The mappings change no state of GLState, or keep a step of it back.     *)
LEMMA MapSteps ==
  ASSUME [MapNext]_<<vars, mapVars>>
  PROVE  Next \/ UNCHANGED stateVars
  <1>1. ASSUME NEW t \in Threads, StateCall(t)
        PROVE  Next
    BY <1>1 DEF StateCall, Next
  <1>2. UNCHANGED <<vars, mapVars>> => UNCHANGED stateVars
    BY DEF vars, stateVars
  <1> QED
    BY <1>1, <1>2 DEF MapNext

(* A program that makes its contexts before its first call, binds buffers  *)
(* after a call that consults the shadow, and deletes nothing that is      *)
(* bound elsewhere or by a vertex array, meets copies of GL state that are *)
(* typed, name what is in use and say what the driver has set: shadow,     *)
(* bound buffers, framebuffer attachments and index buffers.               *)
THEOREM GLStateCorrect ==
  ASSUME Habits = {}
  PROVE  MapSpec => []GLInv
  <1>1. MapInit => GLInv
    BY InitInv DEF MapInit
  <1>2. GLInv /\ [MapNext]_<<vars, mapVars>> => GLInv'
    BY MapSteps, NextKeeps, StutterKeeps
  <1> QED
    BY <1>1, <1>2, PTL DEF MapSpec

(* fbo_cache_attach() of the proxy knows what is attached, whatever was    *)
(* deleted since and in whichever context.                                 *)
THEOREM AttachmentsCorrect ==
  ASSUME Habits = {}
  PROVE  MapSpec => []AttachmentsKnown
  <1>1. GLInv => AttachmentsKnown
    BY DEF GLInv, ProxyInv
  <1> QED
    BY <1>1, GLStateCorrect, PTL

(* get_bound_buffer() and glDraw*() of the stub ask for the buffers that   *)
(* are bound.                                                              *)
THEOREM BuffersCorrect ==
  ASSUME Habits = {}
  PROVE  MapSpec => []BuffersKnown
  <1>1. GLInv => BuffersKnown
    <2> SUFFICES ASSUME GLInv, NEW t \in Threads,
                        g_stub_current_ctx[t] # 0, phase[t] = "idle"
                 PROVE  LET c == g_stub_current_ctx[t]
                            v == stub_vaos[c]
                        IN  /\ v.cur = real[c].vao
                            /\ Object(gen, "buf", v.ebo[v.cur]) = real[c].ebo[v.cur]
                            /\ Object(gen, "buf", bound_array[c]) = real[c].array
      BY DEF BuffersKnown
    <2> DEFINE c == g_stub_current_ctx[t]
    <2>1. c \in made /\ c \in Contexts /\ \A u \in Threads : g_stub_current_ctx[u] = c => u = t
      BY DEF GLInv, ThreadInv, TypesInv, TypeOK
    <2>2. \A u \in Threads : g_stub_current_ctx[u] = c => ~Noting(u)
      BY <2>1 DEF Noting
    <2>3. Mirrors(c, real[c])
      BY <2>1, <2>2 DEF GLInv, MirrorInv
    <2>4. stub_vaos[c].cur \in Name0
      BY <2>1 DEF GLInv, TypesInv, CopyTypes, ArraysType
    <2> QED
      BY <2>3, <2>4 DEF Mirrors
  <1> QED
    BY <1>1, GLStateCorrect, PTL

-----------------------------------------------------------------------------
(* The bridge implements GLServer *)

(* Both speak of the same driver.                                          *)
LEMMA SameDriver ==
  /\ Server!FreshContext = FreshContext /\ Server!NoCall = NoCall
  /\ \A k : Server!Generates(k) <=> Generates(k)
  /\ \A k : Server!Kind(k) = Kind(k)
  /\ \A k, c : Server!Home(k, c) = Home(k, c)
  /\ \A r, g, k : Server!Do(r, g, k) = Do(r, g, k)
  /\ \A l, k, c : Server!NamesAfter(l, k, c) = NamesAfter(l, k, c)
  /\ \A g, k : Server!GenerationsAfter(g, k) = GenerationsAfter(g, k)
  <1>1. Server!FirstUnit = FirstUnit
    BY DEF Server!FirstUnit, FirstUnit
  <1>2. Server!None = None /\ Server!Renderbuffer = Renderbuffer /\ Server!Points = Points
        /\ Server!Shared = Shared /\ Server!Targets = Targets
        /\ Server!GenOf = GenOf /\ Server!DelOf = DelOf
    BY DEF Server!None, None, Server!Renderbuffer, Renderbuffer, Server!Points, Points,
       Server!Shared, Shared, Server!Targets, Targets, Server!GenOf, GenOf, Server!DelOf, DelOf
  <1>3. Server!FreshContext = FreshContext /\ Server!NoCall = NoCall
    BY <1>1, <1>2 DEF Server!FreshContext, FreshContext, Server!NoCall, NoCall,
       Server!GLCall, GLCall
  <1>4. ASSUME NEW k
        PROVE  /\ Server!Generates(k) <=> Generates(k)
               /\ Server!Deletes(k) <=> Deletes(k)
    BY <1>2 DEF Server!Generates, Generates, Server!Deletes, Deletes
  <1>5. ASSUME NEW k PROVE Server!Kind(k) = Kind(k)
    BY <1>2, <1>4 DEF Server!Kind, Kind
  <1>6. ASSUME NEW k, NEW c PROVE Server!Home(k, c) = Home(k, c)
    BY <1>2 DEF Server!Home, Home
  <1>7. ASSUME NEW g, NEW d, NEW n PROVE Server!Object(g, d, n) = Object(g, d, n)
    BY <1>2 DEF Server!Object, Object
  <1>8. ASSUME NEW r, NEW g, NEW k PROVE Server!Do(r, g, k) = Do(r, g, k)
    <2>1. \A f, o : Server!Without(f, o) = Without(f, o)
      BY <1>2 DEF Server!Without, Without
    <2>2. Server!Attachable(r, k) = Attachable(r, k)
      BY DEF Server!Attachable, Attachable
    <2>3. \A d, n : Server!Object(g, d, n) = Object(g, d, n)
      BY <1>7
    <2>4. CASE k.op \in {"bindTex", "bindSmp", "bindArray", "bindEbo"}
      BY <2>3, <2>4 DEF Server!Do, Do
    <2>5. CASE k.op \in {"cap", "view", "active", "bindFb", "bindVao", "delFb", "delVao"}
      BY <1>2, <2>5 DEF Server!Do, Do
    <2>6. CASE k.op = "attach"
      <3> DEFINE O(o) == [r EXCEPT !.att[Attachable(r, k)] = [p \in Points |->
                           IF p \in k.points THEN o ELSE @[p]]]
      <3>1. Server!Do(r, g, k) = O(Server!Object(g, "tex", k.n))
        BY <1>2, <2>2, <2>6 DEF Server!Do
      <3>2. Do(r, g, k) = O(Object(g, "tex", k.n))
        BY <2>6 DEF Do
      <3> QED
        BY <2>3, <3>1, <3>2
    <2>7. CASE k.op = "attachRb"
      BY <1>2, <2>2, <2>7 DEF Server!Do, Do
    <2>8. CASE k.op \in {"genFb", "genVao"}
      BY <1>2, <2>8 DEF Server!Do, Do
    <2>9. CASE k.op = "delTex"
      BY <1>2, <2>1, <2>3, <2>9 DEF Server!Do, Do
    <2>10. CASE k.op = "delSmp"
      BY <2>1, <2>3, <2>10 DEF Server!Do, Do
    <2>11. CASE k.op = "delBuf"
      BY <1>2, <2>3, <2>11 DEF Server!Do, Do
    <2> DEFINE Selecting == {"cap", "view", "active", "bindTex", "bindSmp", "bindFb", "bindVao",
                       "bindArray", "bindEbo", "attach", "attachRb", "genFb", "genVao",
                       "delTex", "delSmp", "delBuf", "delFb", "delVao"}
    <2>12. CASE k.op \notin Selecting
      <3>1. Do(r, g, k) = r
        BY <2>12 DEF Do
      <3>2. Server!Do(r, g, k) = r
        BY <2>12 DEF Server!Do
      <3> QED
        BY <3>1, <3>2
    <2> QED
      BY <2>4, <2>5, <2>6, <2>7, <2>8, <2>9, <2>10, <2>11, <2>12
  <1>9. ASSUME NEW l, NEW k, NEW c PROVE Server!NamesAfter(l, k, c) = NamesAfter(l, k, c)
    <2> DEFINE d == Kind(k)
               h == Home(d, c)
    <2>1. Server!NamesAfter(l, k, c) =
            CASE Generates(k) -> [l EXCEPT ![d][h] = @ \cup {k.n}]
              [] Deletes(k)   -> [l EXCEPT ![d][h] = @ \ {k.n}]
              [] OTHER        -> l
      <3>1. Server!Kind(k) = d /\ Server!Home(d, c) = h
        BY <1>5, <1>6
      <3>2. (Server!Generates(k) <=> Generates(k)) /\ (Server!Deletes(k) <=> Deletes(k))
        BY <1>4
      <3> HIDE DEF d, h
      <3> QED
        BY <3>1, <3>2 DEF Server!NamesAfter
    <2> QED
      BY <2>1 DEF NamesAfter
  <1>10. ASSUME NEW g, NEW k PROVE Server!GenerationsAfter(g, k) = GenerationsAfter(g, k)
    BY <1>2, <1>4, <1>5 DEF Server!GenerationsAfter, GenerationsAfter
  <1> QED
    BY <1>3, <1>4, <1>5, <1>6, <1>8, <1>9, <1>10

(* A context that gets what it has stays the same.                         *)
LEMMA SameField ==
  ASSUME NEW r \in ContextType, NEW x
  PROVE  /\ x = r.cap => [r EXCEPT !.cap = x] = r
         /\ x = r.view => [r EXCEPT !.view = x] = r
         /\ x = r.unit => [r EXCEPT !.unit = x] = r
         /\ x = r.tex => [r EXCEPT !.tex = x] = r
         /\ x = r.smp => [r EXCEPT !.smp = x] = r
         /\ x = r.fb => [r EXCEPT !.fb = x] = r
         /\ x = r.vao => [r EXCEPT !.vao = x] = r
         /\ x = r.array => [r EXCEPT !.array = x] = r
         /\ x = r.ebo => [r EXCEPT !.ebo = x] = r
  BY DEF ContextType

(* What the shadow says is set already need not be set.                    *)
LEMMA RedundantIs ==
  ASSUME GLInv, NEW t \in Threads, phase[t] = "entry",
         Redundant(g_stub_current_ctx[t], call[t])
  PROVE  /\ Do(real[g_stub_current_ctx[t]], gen, call[t]) = real[g_stub_current_ctx[t]]
         /\ ~Generates(call[t]) /\ ~Deletes(call[t])
  <1> DEFINE k == call[t]
             c == g_stub_current_ctx[t]
             r == real[c]
             s == shadow[c]
             v == stub_vaos[c]
  <1>1. /\ CallShape(k) /\ k.op \in Ops /\ c \in made /\ c \in Contexts /\ r \in ContextType
        /\ s \in ShadowType /\ v \in ArraysType
    BY HandType, RealType DEF GLInv, TypesInv, CopyTypes
  <1>0. r \in ContextType
    BY <1>1
  <1>2. Mirrors(c, r)
    <2>1. \A u \in Threads : g_stub_current_ctx[u] = c => ~Noting(u)
      BY <1>1, ContextsAre DEF GLInv, ThreadInv, Noting
    <2> QED
      BY <1>1, <2>1 DEF GLInv, MirrorInv
  <1>3. /\ s.cap = r.cap /\ s.view \in {Unknown, r.view} /\ s.unit = r.unit
        /\ \A u \in Units : /\ s.tex[u] # Forgotten => Object(gen, "tex", s.tex[u]) = r.tex[u]
                            /\ Object(gen, "smp", s.smp[u]) = r.smp[u]
        /\ s.fb = r.fb /\ s.vao = r.vao /\ v.cur = r.vao
        /\ Object(gen, "buf", bound_array[c]) = r.array
        /\ \A x \in Name0 : Object(gen, "buf", v.ebo[x]) = r.ebo[x]
    BY <1>2 DEF Mirrors
  <1>4. /\ r.tex \in [Units -> Objects] /\ r.smp \in [Units -> Objects] /\ r.unit \in Units
        /\ r.fb \in [Targets -> Name0] /\ r.ebo \in [Name0 -> Objects] /\ r.vao \in Name0
    BY <1>1 DEF ContextType
  <1>5. /\ k.op \in {"cap", "view", "active", "bindTex", "bindSmp", "bindFb", "bindVao",
                     "bindArray", "bindEbo"}
    BY DEF Redundant
  <1>6. /\ k.unit \in Units
        /\ k.n # Unknown /\ k.n # Forgotten
    BY <1>1, NamesAre DEF CallShape, CallType, Unknown, Forgotten
  <1>7. Redundant(c, k)
    OBVIOUS
  <1> SUFFICES Do(r, gen, k) = r /\ ~Generates(k) /\ ~Deletes(k)
    OBVIOUS
  <1> HIDE DEF k, c, r, s, v
  <1>8. ~Generates(k) /\ ~Deletes(k)
    BY <1>1, <1>5, KindIs DEF GenOps, DelOps
  <1>9. CASE k.op = "cap"
    <2>1. k.n = r.cap
      BY <1>3, <1>7, <1>9 DEF Redundant, s
    <2>2. Do(r, gen, k) = [r EXCEPT !.cap = k.n]
      BY <1>9 DEF Do
    <2> QED
      BY <1>0, <2>1, <2>2, <1>8, SameField
  <1>10. CASE k.op = "view"
    <2>1. shadow[c].view = k.n
      BY <1>7, <1>10 DEF Redundant
    <2>2. k.n = r.view
      BY <1>3, <1>6, <2>1 DEF s
    <2>3. Do(r, gen, k) = [r EXCEPT !.view = k.n]
      BY <1>10 DEF Do
    <2> QED
      BY <1>0, <2>2, <2>3, <1>8, SameField
  <1>11. CASE k.op = "active"
    <2>1. k.n = r.unit
      BY <1>3, <1>7, <1>11 DEF Redundant, s
    <2>2. Do(r, gen, k) = [r EXCEPT !.unit = k.n]
      BY <1>11 DEF Do
    <2> QED
      BY <1>0, <2>1, <2>2, <1>8, SameField
  <1>12. CASE k.op = "bindTex"
    <2>1. Object(gen, "tex", k.n) = r.tex[r.unit]
      BY <1>3, <1>4, <1>6, <1>7, <1>12 DEF Redundant, s
    <2>2. [r.tex EXCEPT ![r.unit] = Object(gen, "tex", k.n)] = r.tex
      BY <1>4, <2>1
    <2>3. Do(r, gen, k) = [r EXCEPT !.tex = [r.tex EXCEPT ![r.unit] = Object(gen, "tex", k.n)]]
      BY <1>0, <1>12 DEF Do, ContextType
    <2> QED
      BY <1>0, <2>2, <2>3, <1>8, SameField
  <1>13. CASE k.op = "bindSmp"
    <2>1. Object(gen, "smp", k.n) = r.smp[k.unit]
      BY <1>3, <1>6, <1>7, <1>13 DEF Redundant, s
    <2>2. [r.smp EXCEPT ![k.unit] = Object(gen, "smp", k.n)] = r.smp
      BY <1>4, <2>1
    <2>3. Do(r, gen, k) = [r EXCEPT !.smp = [r.smp EXCEPT ![k.unit] = Object(gen, "smp", k.n)]]
      BY <1>0, <1>13 DEF Do, ContextType
    <2> QED
      BY <1>0, <2>2, <2>3, <1>8, SameField
  <1>14. CASE k.op = "bindFb"
    <2>1. \A x \in k.targets : r.fb[x] = k.n
      BY <1>3, <1>7, <1>14 DEF Redundant, s
    <2>2. [x \in Targets |-> IF x \in k.targets THEN k.n ELSE r.fb[x]] = r.fb
      BY <1>4, <2>1
    <2>3. Do(r, gen, k) = [r EXCEPT !.fb = [x \in Targets |-> IF x \in k.targets THEN k.n
                                                             ELSE r.fb[x]]]
      BY <1>0, <1>14 DEF Do, ContextType
    <2> QED
      BY <1>0, <2>2, <2>3, <1>8, SameField
  <1>15. CASE k.op = "bindVao"
    <2>1. k.n = r.vao
      BY <1>3, <1>7, <1>15 DEF Redundant, s
    <2>2. Do(r, gen, k) = [r EXCEPT !.vao = k.n]
      BY <1>15 DEF Do
    <2> QED
      BY <1>0, <2>1, <2>2, <1>8, SameField
  <1>16. CASE k.op = "bindArray"
    <2>1. r.array = Object(gen, "buf", k.n)
      BY <1>3, <1>7, <1>16 DEF Redundant
    <2>2. Do(r, gen, k) = [r EXCEPT !.array = Object(gen, "buf", k.n)]
      BY <1>16 DEF Do
    <2> QED
      BY <1>0, <2>1, <2>2, <1>8, SameField
  <1>17. CASE k.op = "bindEbo"
    <2>1. Object(gen, "buf", k.n) = r.ebo[r.vao]
      BY <1>3, <1>4, <1>7, <1>17 DEF Redundant, v
    <2>2. [r.ebo EXCEPT ![r.vao] = Object(gen, "buf", k.n)] = r.ebo
      BY <1>4, <2>1
    <2>3. Do(r, gen, k) = [r EXCEPT !.ebo = [r.ebo EXCEPT ![r.vao] = Object(gen, "buf", k.n)]]
      BY <1>0, <1>17 DEF Do, ContextType
    <2> QED
      BY <1>0, <2>2, <2>3, <1>8, SameField
  <1> QED
    BY <1>5, <1>8, <1>9, <1>10, <1>11, <1>12, <1>13, <1>14, <1>15, <1>16, <1>17

(* A call that begins is one the server owes an effect.                    *)
LEMMA BeginIs ==
  ASSUME GLInv, NEW t \in Threads, NEW o \in Ops, Begin(t, o)
  PROVE  Server!Call(t, call'[t])
  <1>1. PICK k \in Calls(o, Named(t, Kind(GLCall(o, 0, FirstUnit, {}, {})))) :
          call' = [call EXCEPT ![t] = k]
    BY DEF Begin
  <1>2. call[t] = NoCall /\ DOMAIN call = Threads
    BY DEF GLInv, TypesInv, TypeOK, ThreadTypes, Begin
  <1>3. k # NoCall
    <2>1. k.op = o
      BY <1>1 DEF Calls
    <2> QED
      BY <2>1, NoCallIs, OpsAre DEF GenOps, DelOps
  <1>4. call'[t] = k
    BY <1>1, <1>2
  <1> QED
    BY <1>1, <1>2, <1>3, <1>4, SameDriver DEF Server!Call, Begin, driverVars

(* A call that is not sent has had its effect.                             *)
LEMMA SkipIs ==
  ASSUME GLInv, NEW t \in Threads, Skip(t)
  PROVE  Server!Effect(t, call[t].n)
  <1> DEFINE k == call[t]
             c == g_stub_current_ctx[t]
  <1>1. phase[t] = "entry" /\ Redundant(c, k) /\ call' = [call EXCEPT ![t] = NoCall]
        /\ UNCHANGED <<real, gen, live, made, g_stub_current_ctx>>
    BY DEF Skip, driverVars
  <1>2. Do(real[c], gen, k) = real[c] /\ ~Generates(k) /\ ~Deletes(k)
    BY <1>1, RedundantIs
  <1>3. CallShape(k) /\ c \in Contexts /\ k # NoCall /\ c # 0
    BY <1>1, HandType, RealType, ContextsAre DEF GLInv, TypesInv, TypeOK
  <1>4. [k EXCEPT !.n = k.n] = k
    BY <1>3 DEF CallShape, CallType
  <1>5. Server!Named(k, c, k.n)
    BY <1>2, SameDriver DEF Server!Named
  <1>6. [real EXCEPT ![c] = real[c]] = real
    BY DEF GLInv, TypesInv, DriverTypes
  <1>7. real' = [real EXCEPT ![c] = Server!Do(@, gen, [k EXCEPT !.n = k.n])]
    BY <1>1, <1>2, <1>4, <1>6, SameDriver
  <1>8. live' = Server!NamesAfter(live, [k EXCEPT !.n = k.n], c)
    BY <1>1, <1>2, <1>4, SameDriver DEF NamesAfter
  <1>9. gen' = Server!GenerationsAfter(gen, [k EXCEPT !.n = k.n])
    BY <1>1, <1>2, <1>4, SameDriver DEF GenerationsAfter
  <1>10. call' = [call EXCEPT ![t] = Server!NoCall] /\ k # Server!NoCall
    BY <1>1, <1>3, SameDriver
  <1> QED
    BY <1>1, <1>3, <1>5, <1>7, <1>8, <1>9, <1>10 DEF Server!Effect

(* A call that is sent has the effect it would have without a bridge.      *)
LEMMA RunIs ==
  ASSUME GLInv, Habits = {}, NEW t \in Threads, Run(t)
  PROVE  /\ Server!Effect(t, Ran(t).n)
         /\ Ran(t).n \in Names \cup {call[t].n}
  <1> DEFINE k == Ran(t)
             l == call[t]
             c == g_stub_current_ctx[t]
  <1>1. /\ phase[t] = "send" /\ call' = [call EXCEPT ![t] = NoCall]
        /\ real' = [real EXCEPT ![c] = Handled(c, k)]
        /\ live' = NamesAfter(live, k, c) /\ gen' = GenerationsAfter(gen, k)
        /\ UNCHANGED <<made, g_stub_current_ctx>>
    BY DEF Run, Ran
  <1>2. Handled(c, k) = Do(real[c], gen, k)
    BY <1>1, HandledIs
  <1>3. /\ CallShape(l) /\ c \in Contexts /\ l # NoCall /\ c # 0
    BY <1>1, HandType, RealType, ContextsAre DEF GLInv, TypesInv, TypeOK
  <1>4. /\ Kind(k) = Kind(l)
        /\ Generates(k) <=> Generates(l)
        /\ ~Generates(k) => k = l
        /\ Generates(k) => k.n \in Names /\ \A h \in Contexts \cup {0} :
                                              k.n \notin live[Kind(k)][h]
    BY <1>1, RanFacts
  <1>5. [l EXCEPT !.n = k.n] = k
    BY <1>3 DEF CallShape, CallType, Ran
  <1>6. Server!Named(l, c, k.n)
    <2>1. Home(Kind(l), c) \in Contexts \cup {0}
      BY <1>3 DEF Home
    <2>2. Generates(l) => k.n \in Names \ live[Kind(l)][Home(Kind(l), c)]
      BY <1>4, <2>1
    <2> QED
      BY <1>4, <2>2, SameDriver DEF Server!Named
  <1>7. real' = [real EXCEPT ![c] = Server!Do(@, gen, [l EXCEPT !.n = k.n])]
    BY <1>1, <1>2, <1>5, SameDriver
  <1>8. /\ live' = Server!NamesAfter(live, [l EXCEPT !.n = k.n], c)
        /\ gen' = Server!GenerationsAfter(gen, [l EXCEPT !.n = k.n])
    BY <1>1, <1>5, SameDriver
  <1>9. call' = [call EXCEPT ![t] = Server!NoCall] /\ l # Server!NoCall
    BY <1>1, <1>3, SameDriver
  <1>10. Server!Effect(t, k.n)
    BY <1>1, <1>3, <1>6, <1>7, <1>8, <1>9 DEF Server!Effect
  <1>11. k.n \in Names \cup {l.n}
    BY <1>4
  <1> QED
    BY <1>10, <1>11

LEMMA CreateIs ==
  ASSUME GLInv, NEW t \in Threads, CreateContext(t)
  PROVE  \E c \in Contexts : Server!CreateContext(c)
  <1> DEFINE c == Min(Contexts \ made)
  <1>1. /\ made # Contexts /\ made' = made \cup {c}
        /\ real' = [real EXCEPT ![c] = FreshContext]
        /\ live' = [k \in Kinds |-> IF k \in Private THEN [live[k] EXCEPT ![c] = {}]
                                                     ELSE live[k]]
        /\ UNCHANGED <<gen, g_stub_current_ctx, call>>
    BY DEF CreateContext
  <1>2. c \in Contexts \ made
    BY <1>1, MinIn, ContextsAre DEF GLInv, TypesInv, TypeOK
  <1> HIDE DEF c
  <1>3. Server!CreateContext(c)
    BY <1>1, <1>2, SameDriver
       DEF Server!CreateContext, Server!Kinds, Server!Private, Server!Shared, Kinds,
           Private, Shared
  <1> QED
    BY <1>2, <1>3

LEMMA StepIs ==
  ASSUME GLInv, Habits = {}, Next
  PROVE  [Server!Next]_Server!vars
  <1>1. ASSUME NEW t \in Threads, NEW o \in Ops, Begin(t, o)
        PROVE  Server!Next
    BY <1>1, BeginIs DEF Server!Next
  <1>2. ASSUME NEW t \in Threads, Skip(t)
        PROVE  Server!Next
    BY <1>2, SkipIs DEF Server!Next
  <1>3. ASSUME NEW t \in Threads, Run(t)
        PROVE  Server!Next
    BY <1>3, RunIs DEF Server!Next
  <1>4. ASSUME NEW t \in Threads, ResetShadows(t) \/ Note(t)
        PROVE  UNCHANGED Server!vars
    BY <1>4 DEF ResetShadows, Note, driverVars, Server!vars
  <1>5. ASSUME NEW t \in Threads, CreateContext(t)
        PROVE  Server!Next
    BY <1>5, CreateIs DEF Server!Next
  <1>6. ASSUME NEW t \in Threads, NEW c \in Contexts, DestroyContext(t, c)
        PROVE  Server!Next
    BY <1>6 DEF DestroyContext, Server!DestroyContext, Server!Next
  <1>7. ASSUME NEW t \in Threads, NEW c \in Contexts \cup {0}, MakeCurrent(t, c)
        PROVE  Server!Next
    <2>1. call[t] = NoCall
      BY <1>7 DEF MakeCurrent, GLInv, TypesInv, TypeOK
    <2>2. Server!MakeCurrent(t, c)
      BY <1>7, <2>1, SameDriver DEF MakeCurrent, driverVars, Server!MakeCurrent
    <2> QED
      BY <2>2 DEF Server!Next
  <1> QED
    BY <1>1, <1>2, <1>3, <1>4, <1>5, <1>6, <1>7 DEF Next

(* The stub leaves out, and the proxy does not pass on, what would have    *)
(* changed nothing; what is sent does once and in its thread's context     *)
(* what it would have done without a bridge, before the thread's next call. *)
THEOREM BridgeIsTransparent ==
  ASSUME Habits = {}
  PROVE  MapSpec => ImplementsGL
  <1>1. MapInit => Server!Init
    <2>1. Server!Kinds = Kinds /\ Server!Shared = Shared
      BY DEF Server!Kinds, Server!Shared, Server!Private, Kinds, Shared, Private
    <2> QED
      BY <2>1, SameDriver DEF MapInit, Init, Server!Init
  <1>2. GLInv /\ [MapNext]_<<vars, mapVars>> => [Server!Next]_Server!vars
    <2>1. UNCHANGED stateVars => UNCHANGED Server!vars
      BY DEF stateVars, driverVars, Server!vars
    <2> QED
      BY <2>1, MapSteps, StepIs
  <1> QED
    BY <1>1, <1>2, GLStateCorrect, PTL DEF MapSpec, ImplementsGL, Server!Spec

-----------------------------------------------------------------------------
(* The tables of mappings *)

LEMMA IdsAre ==
  /\ Ids \subseteq Nat /\ 0 \notin Ids
  /\ IsFiniteSet(Ids) /\ Cardinality(Ids) = MAX_MAPS - 1
  <1>1. MAX_MAPS \in Nat \ {0}
    BY MapAssumption
  <1> QED
    BY <1>1, FS_Interval DEF Ids

LEMMA EntriesAre ==
  /\ NoEntry \in MapType /\ NoEntry.buffer = 0
  /\ AtRest.at = "rest" /\ AtRest.entry = NoEntry
  /\ \A at, id, e, data : LET s == Step(at, id, e, data)
                          IN  s.at = at /\ s.id = id /\ s.entry = e
  /\ \A b, r, a : Entry(b, r, a).buffer = b
  BY DEF NoEntry, Entry, MapType, Name0, Accesses, AtRest, Step

LEMMA OfIs ==
  ASSUME NEW table, NEW b, Of(table, b) # 0
  PROVE  Of(table, b) \in Ids /\ table[Of(table, b)].buffer = b
  <1> DEFINE S == {i \in Ids : table[i].buffer = b} \cup {MAX_MAPS}
             i == Min(S)
  <1>1. MAX_MAPS \in Nat \ {0} /\ MAX_MAPS % MAX_MAPS = 0
    BY MapAssumption
  <1>2. i \in S
    BY <1>1, IdsAre, MinIn
  <1>3. i % MAX_MAPS # 0
    BY DEF Of
  <1>4. i \in Ids /\ table[i].buffer = b
    BY <1>1, <1>2, <1>3
  <1> HIDE DEF i
  <1>5. i % MAX_MAPS = i
    BY <1>1, <1>4 DEF Ids
  <1> QED
    BY <1>4, <1>5 DEF Of, i

LEMMA OccupiedAre ==
  ASSUME NEW table
  PROVE  /\ Occupied(table) \subseteq Ids /\ IsFiniteSet(Occupied(table))
         /\ Cardinality(Occupied(table)) \in Nat
  <1>1. Occupied(table) \subseteq Ids
    BY DEF Occupied
  <1> QED
    BY <1>1, IdsAre, FS_Subset, FS_CardinalityType

(* What changes nothing of this, and deletes no buffer that a thread has   *)
(* not returned from mapping, unmapping or deleting.                       *)
LEMMA TablesStay ==
  ASSUME TablesInv, UNCHANGED <<stub_maps, g_active_stub_map_count, maps, mapped, step, held>>,
         \A u \in Threads : \/ call'[u] = call[u] \/ call'[u].op # "delBuf"
                            \/ ~Busy(u, call'[u].n)
  PROVE  TablesInv'
  <1>1. MapTypes' /\ Once(stub_maps)' /\ Once(maps)'
    BY DEF TablesInv, MapTypes, Once
  <1>2. AgreeInv'
    BY DEF TablesInv, AgreeInv, Same, Unreturned, Occupied
  <1>3. StepInv'
    <2> SUFFICES ASSUME NEW t \in Threads, step[t].at # "rest", NEW u \in Threads \ {t},
                        call'[u].op = "delBuf"
                 PROVE  call'[u].n # step[t].entry.buffer
      BY DEF TablesInv, StepInv
    <2>1. CASE call'[u] = call[u]
      BY <2>1 DEF TablesInv, StepInv
    <2>2. CASE ~Busy(u, call'[u].n)
      BY <2>2 DEF Busy
    <2> QED
      BY <2>1, <2>2
  <1> QED
    BY <1>1, <1>2, <1>3 DEF TablesInv

(* A thread whose step is over or only begins: what another one's says     *)
(* needs its entries in both tables, and that they do not share a buffer.  *)
LEMMA StepsStay ==
  ASSUME TablesInv, NEW t \in Threads,
         \A u \in Threads \ {t} :
           /\ step'[u] = step[u] /\ call'[u] = call[u]
           /\ step[u].at = "mapped" => maps'[step[u].id] = maps[step[u].id]
           /\ step[u].at = "unmapped" => /\ stub_maps'[step[u].id] = stub_maps[step[u].id]
                                         /\ maps'[step[u].id] = maps[step[u].id]
           /\ step[u].at \in {"unmapped", "deleted"} /\ step[u].entry.buffer \in mapped' =>
                step[u].entry.buffer \in mapped,
         LET s == step'[t]
               b == s.entry.buffer
           IN  /\ s.at = "mapped" => s.id \in Ids /\ maps'[s.id] = s.entry
               /\ s.at = "unmapped" => /\ s.id \in Ids /\ stub_maps'[s.id] = s.entry
                                       /\ maps'[s.id] = NoEntry
               /\ s.at \in {"unmapped", "deleted"} => b \notin mapped'
               /\ s.at # "rest" => /\ b # 0
                                   /\ \A u \in Threads \ {t} :
                                        /\ step[u].entry.buffer # b
                                        /\ call[u].op = "delBuf" => call[u].n # b,
         step'[t].at = "rest" => step'[t].entry.buffer = 0,
         call'[t].op = "delBuf" => call'[t] = call[t]
  PROVE  StepInv'
  <1> SUFFICES ASSUME NEW v \in Threads
               PROVE  LET s == step'[v]
                          b == s.entry.buffer
                      IN  /\ s.at = "mapped" => s.id \in Ids /\ maps'[s.id] = s.entry
                          /\ s.at = "unmapped" => /\ s.id \in Ids /\ stub_maps'[s.id] = s.entry
                                                  /\ maps'[s.id] = NoEntry
                          /\ s.at \in {"unmapped", "deleted"} => b \notin mapped'
                          /\ s.at # "rest" => /\ b # 0
                                              /\ \A u \in Threads \ {v} :
                                                   /\ step'[u].entry.buffer # b
                                                   /\ call'[u].op = "delBuf" => call'[u].n # b
    BY DEF StepInv
  <1>1. CASE v = t
    BY <1>1
  <1>2. CASE v # t
    <2>1. /\ step'[v] = step[v] /\ StepInv
      BY <1>2 DEF TablesInv
    <2>2. step[v].at # "rest" =>
            /\ step[v].entry.buffer # 0
            /\ \A u \in Threads \ {v} :
                 /\ step'[u].entry.buffer # step[v].entry.buffer
                 /\ call'[u].op = "delBuf" => call'[u].n # step[v].entry.buffer
      <3> SUFFICES ASSUME step[v].at # "rest", NEW u \in Threads \ {v}
                   PROVE  /\ step[v].entry.buffer # 0
                          /\ step'[u].entry.buffer # step[v].entry.buffer
                          /\ call'[u].op = "delBuf" => call'[u].n # step[v].entry.buffer
        BY <2>1 DEF StepInv
      <3>1. step[v].entry.buffer # 0 /\ step[u].entry.buffer # step[v].entry.buffer
            /\ (call[u].op = "delBuf" => call[u].n # step[v].entry.buffer)
        BY <2>1 DEF StepInv
      <3>2. CASE u # t
        BY <3>1, <3>2
      <3>3. CASE u = t
        BY <1>2, <3>1, <3>3
      <3> QED
        BY <3>2, <3>3
    <2> QED
      BY <1>2, <2>1, <2>2 DEF StepInv
  <1> QED
    BY <1>1, <1>2

(* glMapBufferRange(): the proxy has an entry, the stub not yet.           *)
LEMMA FreeEntry ==
  ASSUME TablesInv, Roomy, NEW b \in Names
  PROVE  \E i \in Ids : maps[i].buffer \in {0, b}
  <1> SUFFICES ASSUME \A i \in Ids : maps[i].buffer \notin {0, b}
               PROVE  FALSE
    OBVIOUS
  <1> DEFINE T == Names \ {b}
             f == [i \in Ids |-> maps[i].buffer]
  <1>1. IsFiniteSet(T) /\ Cardinality(T) = Cardinality(Names) - 1
        /\ Cardinality(Names) \in Nat
    BY FS_RemoveElement, FS_CardinalityType DEF Roomy
  <1>2. Cardinality(T) < Cardinality(Ids)
    BY <1>1, IdsAre, MapAssumption DEF Roomy
  <1>3. f \in [Ids -> T]
    BY DEF TablesInv, MapTypes, MapType, Name0
  <1> HIDE DEF T, f
  <1>4. PICK i, j \in Ids : i # j /\ f[i] = f[j]
    BY <1>1, <1>2, <1>3, IdsAre, FS_PigeonHole
  <1> QED
    BY <1>4 DEF f, TablesInv, Once

LEMMA SendMapKeeps ==
  ASSUME GLInv, TablesInv, Roomy, "crossing" \notin MapHabits, NEW t \in Threads,
         NEW range \in Ranges, NEW access \in Accesses, SendMap(t, range, access),
         UNCHANGED stateVars
  PROVE  TablesInv'
  <1> DEFINE b     == Bound(t)
             stale == {i \in Ids : maps[i].buffer = b}
             free  == {i \in Ids : maps[i].buffer = 0} \cup stale
             e     == Entry(b, range, access)
             n     == Min(free)
  <1>1. b \in Names /\ e \in MapType /\ e.buffer = b
    <2>1. g_stub_current_ctx[t] \in Contexts
      BY DEF SendMap, Ready, GLInv, TypesInv, TypeOK
    <2>2. b \in Name0 /\ b # 0
      BY <2>1 DEF SendMap, Bound, GLInv, TypesInv, CopyTypes
    <2>3. range \in SUBSET Parts
      BY DEF Ranges
    <2> QED
      BY <2>2, <2>3 DEF Entry, MapType, Name0
  <1>2. n \in free
    <2>1. free # {}
      BY <1>1, FreeEntry
    <2> QED
      BY <2>1, IdsAre, MinIn
  <1>3. n \in Ids /\ maps[n].buffer \in {0, b}
    BY <1>2
  <1>4. b \in mapped => stale # {}
    BY DEF TablesInv, AgreeInv, Occupied
  <1>5. PICK data : /\ maps' = [i \in Ids |-> IF i = n THEN e
                                              ELSE IF i \in stale THEN NoEntry ELSE maps[i]]
                    /\ step' = [step EXCEPT ![t] = Step("mapped", n, e, data)]
    BY <1>2, <1>4 DEF SendMap
  <1>6. /\ mapped' = mapped \cup {b} /\ step[t] = AtRest /\ phase[t] = "idle"
        /\ UNCHANGED <<stub_maps, g_active_stub_map_count, held, call>>
    BY DEF SendMap, Ready, tableVars, programVars, stateVars
  <1>7. \A u \in Threads \ {t} : /\ step[u].entry.buffer # b
                                 /\ call[u].op = "delBuf" => call[u].n # b
                                 /\ step[u].at \notin {"unmapped", "deleted"}
    BY DEF SendMap, Busy, Orderly
  <1>8. /\ step'[t].at = "mapped" /\ step'[t].id = n /\ step'[t].entry = e
        /\ \A u \in Threads \ {t} : step'[u] = step[u]
        /\ DOMAIN step' = Threads
    BY <1>5, EntriesAre DEF TablesInv, MapTypes
  <1>9. /\ maps'[n] = e
        /\ \A i \in Ids \ {n} : maps'[i] = IF maps[i].buffer = b THEN NoEntry ELSE maps[i]
        /\ DOMAIN maps' = Ids
    BY <1>3, <1>5
  <1> HIDE DEF b, stale, free, e, n
  <1>10. MapTypes'
    <2>1. \A i \in Ids : maps'[i] \in MapType
      BY <1>1, <1>9, EntriesAre DEF TablesInv, MapTypes
    <2>2. maps' \in [Ids -> MapType]
      BY <1>5, <1>9, <2>1
    <2>3. \A u \in Threads : /\ step'[u].at \in {"rest", "mapped", "unmapped", "deleted"}
                             /\ step'[u].entry \in MapType
                             /\ step'[u].at = "rest" => step'[u] = AtRest
      BY <1>1, <1>8 DEF TablesInv, MapTypes
    <2> QED
      BY <1>1, <1>6, <1>8, <2>2, <2>3 DEF TablesInv, MapTypes
  <1>11. Once(maps)' /\ Once(stub_maps)'
    <2>1. Once(stub_maps)'
      BY <1>6 DEF TablesInv, Once
    <2>2. \A i \in Ids : maps'[i].buffer = 0 => maps'[i] = NoEntry
      BY <1>1, <1>9, NamesAre DEF TablesInv, Once
    <2>3. ASSUME NEW i \in Ids, NEW j \in Ids, maps'[i].buffer = maps'[j].buffer,
                 maps'[i].buffer # 0
          PROVE  i = j
      BY <1>1, <1>3, <1>9, <2>3, EntriesAre DEF TablesInv, Once
    <2> QED
      BY <2>1, <2>2, <2>3 DEF Once
  <1>12. StepInv'
    <2>1. \A u \in Threads \ {t} : step[u].at = "mapped" => maps'[step[u].id] = maps[step[u].id]
      <3> SUFFICES ASSUME NEW u \in Threads \ {t}, step[u].at = "mapped"
                   PROVE  maps'[step[u].id] = maps[step[u].id]
        OBVIOUS
      <3>1. step[u].id \in Ids /\ maps[step[u].id] = step[u].entry /\ step[u].entry.buffer # 0
        BY DEF TablesInv, StepInv
      <3> QED
        BY <1>3, <1>7, <1>9, <3>1
    <2> QED
      BY <1>1, <1>3, <1>6, <1>7, <1>8, <1>9, <2>1, NamesAre, StepsStay
  <1>13. AgreeInv'
    <2>1. Unreturned' = Unreturned \cup {b}
      <3>1. step[t].entry.buffer = 0 /\ step'[t].entry.buffer = b
        BY <1>1, <1>6, <1>8, EntriesAre
      <3> QED
        BY <1>8, <3>1 DEF Unreturned
    <2>2. \A i \in Ids : Same(i)'
      <3> SUFFICES ASSUME NEW i \in Ids PROVE Same(i)'
        OBVIOUS
      <3>1. Same(i) /\ (stub_maps[i].buffer = 0 => stub_maps[i] = NoEntry)
        BY DEF TablesInv, AgreeInv, Once
      <3>2. maps'[i] = maps[i] \/ (maps[i].buffer \in {0, b} /\ maps'[i].buffer \in {0, b})
        BY <1>1, <1>3, <1>9, EntriesAre
      <3> QED
        BY <1>6, <2>1, <3>1, <3>2 DEF Same, Unreturned
    <2>3. mapped' = {maps'[i].buffer : i \in Occupied(maps)'}
      <3>1. ASSUME NEW x \in mapped' PROVE \E i \in Ids : maps'[i].buffer = x /\ x # 0
        <4>1. CASE x = b
          BY <1>1, <1>3, <1>9, <4>1, NamesAre
        <4>2. CASE x # b
          <5>1. PICK i \in Ids : maps[i].buffer = x /\ x # 0
            BY <1>6, <3>1, <4>2 DEF TablesInv, AgreeInv, Occupied
          <5> QED
            BY <1>3, <1>9, <4>2, <5>1
        <4> QED
          BY <4>1, <4>2
      <3>2. ASSUME NEW i \in Ids, maps'[i].buffer # 0 PROVE maps'[i].buffer \in mapped'
        BY <1>1, <1>6, <1>9, <3>2, EntriesAre DEF TablesInv, AgreeInv, Occupied
      <3> QED
        BY <3>1, <3>2 DEF Occupied
    <2>4. held' \subseteq mapped'
      BY <1>6 DEF TablesInv, AgreeInv
    <2>5. \A x \in mapped' \ held' :
            \E u \in Threads : step'[u].at = "mapped" /\ step'[u].entry.buffer = x
      <3> SUFFICES ASSUME NEW x \in mapped' \ held'
                   PROVE  \E u \in Threads : step'[u].at = "mapped" /\ step'[u].entry.buffer = x
        OBVIOUS
      <3>1. CASE x = b
        BY <1>1, <1>8, <3>1
      <3>2. CASE x # b
        <4>1. PICK u \in Threads : step[u].at = "mapped" /\ step[u].entry.buffer = x
          BY <1>6, <3>2 DEF TablesInv, AgreeInv
        <4>2. u # t
          BY <1>6, <4>1, EntriesAre
        <4> QED
          BY <1>8, <4>1, <4>2
      <3> QED
        BY <3>1, <3>2
    <2>6. Occupied(stub_maps)' = Occupied(stub_maps)
      BY <1>6 DEF Occupied
    <2>7. g_active_stub_map_count' >= Cardinality(Occupied(stub_maps)')
      BY <1>6, <2>6 DEF TablesInv, AgreeInv
    <2> QED
      BY <2>2, <2>3, <2>4, <2>5, <2>7 DEF AgreeInv
  <1> QED
    BY <1>10, <1>11, <1>12, <1>13 DEF TablesInv

(* ... now the stub, too; the entries that made way are of this buffer or  *)
(* of one that was unmapped or mapped again meanwhile.                     *)
LEMMA KeepMapKeeps ==
  ASSUME TablesInv, NEW t \in Threads, KeepMap(t), UNCHANGED stateVars
  PROVE  TablesInv'
  <1> DEFINE n == step[t].id
             e == step[t].entry
             b == e.buffer
             old == {i \in Ids : stub_maps[i].buffer # 0 /\ (stub_maps[i].buffer = b \/ i = n)}
  <1>1. /\ step[t].at = "mapped"
        /\ stub_maps' = [i \in Ids |-> IF i = n THEN e
                                       ELSE IF i \in old THEN NoEntry ELSE stub_maps[i]]
        /\ g_active_stub_map_count' = g_active_stub_map_count + 1 - Cardinality(old)
        /\ held' = held \cup {b} /\ step' = [step EXCEPT ![t] = AtRest]
        /\ UNCHANGED <<maps, mapped, call>>
    BY DEF KeepMap, contentVars, stateVars
  <1>2. /\ n \in Ids /\ maps[n] = e /\ b # 0 /\ e \in MapType
        /\ \A u \in Threads \ {t} : step[u].entry.buffer # b
    BY <1>1 DEF TablesInv, StepInv, MapTypes
  <1>3. b \in Names /\ b \in mapped
    BY <1>2, NamesAre DEF MapType, Name0, TablesInv, AgreeInv, Occupied
  <1>4. /\ stub_maps'[n] = e
        /\ \A i \in Ids \ {n} : stub_maps'[i] = IF stub_maps[i].buffer = b THEN NoEntry
                                                                           ELSE stub_maps[i]
    BY <1>1, <1>2
  <1>5. /\ step'[t] = AtRest /\ DOMAIN step' = Threads
        /\ \A u \in Threads \ {t} : step'[u] = step[u]
    BY <1>1 DEF TablesInv, MapTypes
  <1>6. \A i \in Ids \ {n} : maps[i].buffer # b
    BY <1>2 DEF TablesInv, Once
  <1>7. /\ Cardinality(old) \in Nat /\ IsFiniteSet(old)
        /\ Occupied(stub_maps)' = (Occupied(stub_maps) \ old) \cup {n}
        /\ n \notin Occupied(stub_maps) \ old
        /\ Occupied(stub_maps) \cap old = old
    <2>1. old \subseteq Ids
      OBVIOUS
    <2>2. IsFiniteSet(old) /\ Cardinality(old) \in Nat
      BY <2>1, IdsAre, FS_Subset, FS_CardinalityType
    <2>3. Occupied(stub_maps)' = (Occupied(stub_maps) \ old) \cup {n}
      BY <1>2, <1>4, EntriesAre DEF Occupied
    <2> QED
      BY <2>2, <2>3 DEF Occupied
  <1> HIDE DEF n, e, b, old
  <1>8. MapTypes'
    <2>1. \A i \in Ids : stub_maps'[i] \in MapType
      BY <1>2, <1>4, EntriesAre DEF TablesInv, MapTypes
    <2>2. stub_maps' \in [Ids -> MapType]
      BY <1>1, <2>1
    <2>3. \A u \in Threads : /\ step'[u].at \in {"rest", "mapped", "unmapped", "deleted"}
                             /\ step'[u].entry \in MapType
                             /\ step'[u].at = "rest" => step'[u] = AtRest
      BY <1>5, EntriesAre DEF TablesInv, MapTypes
    <2>4. g_active_stub_map_count' \in Int
      BY <1>1, <1>7 DEF TablesInv, MapTypes
    <2> QED
      BY <1>1, <1>3, <1>5, <2>2, <2>3, <2>4 DEF TablesInv, MapTypes
  <1>9. Once(maps)' /\ Once(stub_maps)'
    <2>1. Once(maps)'
      BY <1>1 DEF TablesInv, Once
    <2>2. \A i \in Ids : stub_maps'[i].buffer = 0 => stub_maps'[i] = NoEntry
      BY <1>2, <1>4, EntriesAre DEF TablesInv, Once, b
    <2>3. ASSUME NEW i \in Ids, NEW j \in Ids, stub_maps'[i].buffer = stub_maps'[j].buffer,
                 stub_maps'[i].buffer # 0
          PROVE  i = j
      BY <1>2, <1>4, <2>3, EntriesAre DEF TablesInv, Once, b
    <2> QED
      BY <2>1, <2>2, <2>3 DEF Once
  <1>10. StepInv'
    <2>1. \A u \in Threads \ {t} : step[u].at = "unmapped" =>
            stub_maps'[step[u].id] = stub_maps[step[u].id]
      <3> SUFFICES ASSUME NEW u \in Threads \ {t}, step[u].at = "unmapped"
                   PROVE  stub_maps'[step[u].id] = stub_maps[step[u].id]
        OBVIOUS
      <3>1. /\ step[u].id \in Ids /\ stub_maps[step[u].id] = step[u].entry
            /\ maps[step[u].id] = NoEntry
        BY DEF TablesInv, StepInv
      <3>2. step[u].id # n
        BY <1>2, <3>1, EntriesAre DEF b
      <3> QED
        BY <1>2, <1>4, <3>1, <3>2
    <2> QED
      BY <1>1, <1>5, <2>1, EntriesAre, StepsStay
  <1>11. AgreeInv'
    <2>1. Unreturned = Unreturned' \cup {b}
      <3>1. step'[t].entry.buffer = 0 /\ step[t].entry.buffer = b
        BY <1>5, EntriesAre DEF b, e
      <3> QED
        BY <1>5, <3>1 DEF Unreturned
    <2>2. \A i \in Ids : Same(i)'
      <3> SUFFICES ASSUME NEW i \in Ids PROVE Same(i)'
        OBVIOUS
      <3>1. Same(i)
        BY DEF TablesInv, AgreeInv
      <3>2. CASE i = n
        BY <1>1, <1>2, <1>4, <3>2 DEF Same
      <3>3. CASE i # n /\ stub_maps[i].buffer = b
        <4>1. stub_maps'[i].buffer = 0 /\ maps[i].buffer # b
          BY <1>4, <1>6, <3>3, EntriesAre
        <4>2. maps[i].buffer \in Unreturned'
          BY <2>1, <3>1, <3>3, <4>1 DEF Same
        <4> QED
          BY <1>1, <4>1, <4>2 DEF Same, Unreturned
      <3>4. CASE i # n /\ stub_maps[i].buffer # b
        BY <1>1, <1>4, <1>6, <2>1, <3>1, <3>4 DEF Same
      <3> QED
        BY <3>2, <3>3, <3>4
    <2>3. mapped' = {maps'[i].buffer : i \in Occupied(maps)'}
      BY <1>1 DEF TablesInv, AgreeInv, Occupied
    <2>4. held' \subseteq mapped'
      BY <1>1, <1>3 DEF TablesInv, AgreeInv
    <2>5. \A x \in mapped' \ held' :
            \E u \in Threads : step'[u].at = "mapped" /\ step'[u].entry.buffer = x
      <3> SUFFICES ASSUME NEW x \in mapped' \ held'
                   PROVE  \E u \in Threads : step'[u].at = "mapped" /\ step'[u].entry.buffer = x
        OBVIOUS
      <3>1. PICK u \in Threads : step[u].at = "mapped" /\ step[u].entry.buffer = x
        BY <1>1 DEF TablesInv, AgreeInv
      <3>2. u # t
        BY <1>1, <3>1 DEF b, e
      <3> QED
        BY <1>5, <3>1, <3>2
    <2>6. g_active_stub_map_count' >= Cardinality(Occupied(stub_maps)')
      <3> DEFINE O == Occupied(stub_maps)
      <3>1. /\ IsFiniteSet(O) /\ Cardinality(O) \in Nat /\ g_active_stub_map_count \in Int
            /\ g_active_stub_map_count >= Cardinality(O)
        BY OccupiedAre DEF TablesInv, AgreeInv, MapTypes
      <3> HIDE DEF O
      <3>2. /\ IsFiniteSet(O \ old)
            /\ Cardinality(O \ old) = Cardinality(O) - Cardinality(O \cap old)
        BY <3>1, FS_Difference
      <3>3. O \cap old = old /\ n \notin O \ old
        BY <1>7 DEF O
      <3>4. Cardinality((O \ old) \cup {n}) = Cardinality(O \ old) + 1
        BY <3>2, <3>3, FS_AddElement
      <3>5. Cardinality((O \ old) \cup {n}) = Cardinality(O) - Cardinality(old) + 1
        BY <3>2, <3>3, <3>4
      <3>6. Occupied(stub_maps)' = (O \ old) \cup {n}
        BY <1>7 DEF O
      <3>7. Cardinality(Occupied(stub_maps)') = Cardinality(O) - Cardinality(old) + 1
        BY <3>5, <3>6, Zenon
      <3>8. /\ g_active_stub_map_count' = g_active_stub_map_count + 1 - Cardinality(old)
            /\ Cardinality(old) \in Nat
        BY <1>1, <1>7
      <3> HIDE DEF old
      <3> QED
        BY <3>1, <3>7, <3>8
    <2> QED
      BY <2>2, <2>3, <2>4, <2>5, <2>6 DEF AgreeInv
  <1> QED
    BY <1>8, <1>9, <1>10, <1>11 DEF TablesInv

(* A buffer whose mapping no thread is about to change.                    *)
LEMMA HeldEntry ==
  ASSUME TablesInv, NEW t \in Threads, step[t] = AtRest, NEW b \in held, ~Busy(t, b),
         NEW i \in Ids, stub_maps[i].buffer = b
  PROVE  maps[i] = stub_maps[i] /\ b # 0 /\ b \notin Unreturned
  <1>1. b # 0
    BY NamesAre DEF TablesInv, MapTypes
  <1>2. b \notin Unreturned
    BY <1>1, EntriesAre DEF Unreturned, Busy
  <1> QED
    BY <1>1, <1>2 DEF TablesInv, AgreeInv, Same

(* glUnmapBuffer(): the proxy's entry goes, the stub's stays.              *)
LEMMA SendUnmapKeeps ==
  ASSUME TablesInv, NEW t \in Threads, SendUnmap(t), UNCHANGED stateVars
  PROVE  TablesInv'
  <1> DEFINE b == Bound(t)
             n == Of(stub_maps, b)
             e == stub_maps[n]
  <1>1. /\ step[t] = AtRest /\ b \in held /\ ~Busy(t, b) /\ n # 0
        /\ mapped' = mapped \ {maps[n].buffer}
        /\ maps' = [maps EXCEPT ![n] = NoEntry]
        /\ held' = held \ {b}
        /\ step' = [step EXCEPT ![t] = Step("unmapped", n, e, Blank)]
        /\ UNCHANGED <<stub_maps, g_active_stub_map_count, call>>
    BY DEF SendUnmap, Ready, tableVars, stateVars
  <1>2. n \in Ids /\ e.buffer = b
    BY <1>1, OfIs
  <1>3. maps[n] = e /\ b # 0 /\ b \notin Unreturned
    BY <1>1, <1>2, HeldEntry
  <1>4. /\ maps'[n] = NoEntry
        /\ \A i \in Ids \ {n} : maps'[i] = maps[i] /\ maps[i].buffer # b
                                /\ stub_maps[i].buffer # b
        /\ mapped' = mapped \ {b}
    BY <1>1, <1>2, <1>3 DEF TablesInv, MapTypes, Once
  <1>5. /\ step'[t].at = "unmapped" /\ step'[t].id = n /\ step'[t].entry = e
        /\ DOMAIN step' = Threads
        /\ \A u \in Threads \ {t} : step'[u] = step[u]
    BY <1>1, EntriesAre DEF TablesInv, MapTypes
  <1>6. e \in MapType
    BY <1>2 DEF TablesInv, MapTypes
  <1>7. \A u \in Threads \ {t} : /\ step[u].entry.buffer # b
                                 /\ call[u].op = "delBuf" => call[u].n # b
    BY <1>1 DEF Busy
  <1> HIDE DEF b, n, e
  <1>8. MapTypes'
    <2>1. maps' \in [Ids -> MapType]
      BY <1>1, <1>2, EntriesAre DEF TablesInv, MapTypes
    <2>2. \A u \in Threads : /\ step'[u].at \in {"rest", "mapped", "unmapped", "deleted"}
                             /\ step'[u].entry \in MapType
                             /\ step'[u].at = "rest" => step'[u] = AtRest
      BY <1>5, <1>6 DEF TablesInv, MapTypes
    <2> QED
      BY <1>1, <1>5, <2>1, <2>2 DEF TablesInv, MapTypes
  <1>9. Once(maps)' /\ Once(stub_maps)'
    BY <1>1, <1>4, EntriesAre DEF TablesInv, Once
  <1>10. StepInv'
    <2>1. ASSUME NEW u \in Threads \ {t}
          PROVE  /\ step[u].at = "mapped" => maps'[step[u].id] = maps[step[u].id]
                 /\ step[u].at = "unmapped" => maps'[step[u].id] = maps[step[u].id]
      <3>1. step[u].at = "mapped" => step[u].id \in Ids /\ maps[step[u].id] = step[u].entry
        BY DEF TablesInv, StepInv
      <3>2. step[u].at = "unmapped" => step[u].id \in Ids /\ maps[step[u].id] = NoEntry
        BY DEF TablesInv, StepInv
      <3> QED
        BY <1>2, <1>3, <1>4, <1>7, <3>1, <3>2
    <2>2. b \notin mapped'
      BY <1>4
    <2>3. /\ step'[t].entry.buffer = b /\ stub_maps'[n] = e /\ step'[t].at = "unmapped"
          /\ step'[t].id = n /\ step'[t].entry = e
      BY <1>1, <1>2, <1>5 DEF e
    <2>4. \A u \in Threads \ {t} : step[u].entry.buffer \in mapped' =>
                                     step[u].entry.buffer \in mapped
      BY <1>4
    <2> QED
      BY <1>1, <1>2, <1>3, <1>4, <1>5, <1>7, <2>1, <2>2, <2>3, <2>4, StepsStay
  <1>11. AgreeInv'
    <2>1. Unreturned' = Unreturned \cup {b}
      <3>1. step[t].entry.buffer = 0 /\ step'[t].entry.buffer = b
        BY <1>1, <1>2, <1>5, EntriesAre
      <3> QED
        BY <1>5, <3>1 DEF Unreturned
    <2>2. \A i \in Ids : Same(i)'
      <3> SUFFICES ASSUME NEW i \in Ids PROVE Same(i)'
        OBVIOUS
      <3>1. CASE i = n
        BY <1>1, <1>2, <1>4, <2>1, <3>1, EntriesAre DEF Same, Unreturned, e
      <3>2. CASE i # n
        BY <1>1, <1>4, <2>1, <3>2 DEF Same, TablesInv, AgreeInv
      <3> QED
        BY <3>1, <3>2
    <2>3. mapped' = {maps'[i].buffer : i \in Occupied(maps)'}
      <3>1. ASSUME NEW x \in mapped' PROVE \E i \in Ids : maps'[i].buffer = x /\ x # 0
        <4>1. PICK i \in Ids : maps[i].buffer = x /\ x # 0
          BY <1>4 DEF TablesInv, AgreeInv, Occupied
        <4>2. i # n
          BY <1>2, <1>3, <1>4, <4>1
        <4> QED
          BY <1>4, <4>1, <4>2
      <3>2. ASSUME NEW i \in Ids, maps'[i].buffer # 0 PROVE maps'[i].buffer \in mapped'
        <4>1. i # n
          BY <1>4, <3>2, EntriesAre
        <4> QED
          BY <1>4, <3>2, <4>1 DEF TablesInv, AgreeInv, Occupied
      <3> QED
        BY <3>1, <3>2 DEF Occupied
    <2>4. held' \subseteq mapped'
      BY <1>1, <1>4 DEF TablesInv, AgreeInv
    <2>5. \A x \in mapped' \ held' :
            \E u \in Threads : step'[u].at = "mapped" /\ step'[u].entry.buffer = x
      <3> SUFFICES ASSUME NEW x \in mapped' \ held'
                   PROVE  \E u \in Threads : step'[u].at = "mapped" /\ step'[u].entry.buffer = x
        OBVIOUS
      <3>1. PICK u \in Threads : step[u].at = "mapped" /\ step[u].entry.buffer = x
        BY <1>1, <1>4 DEF TablesInv, AgreeInv
      <3>2. u # t
        BY <1>1, <3>1, EntriesAre
      <3> QED
        BY <1>5, <3>1, <3>2
    <2>6. Occupied(stub_maps)' = Occupied(stub_maps)
      BY <1>1 DEF Occupied
    <2>7. g_active_stub_map_count' >= Cardinality(Occupied(stub_maps)')
      BY <1>1, <2>6 DEF TablesInv, AgreeInv
    <2> QED
      BY <2>2, <2>3, <2>4, <2>5, <2>7 DEF AgreeInv
  <1> QED
    BY <1>8, <1>9, <1>10, <1>11 DEF TablesInv

(* The stub forgets what has no entry in the proxy any more.               *)
LEMMA ForgetKeeps ==
  ASSUME TablesInv, NEW t \in Threads, step[t].at \in {"unmapped", "deleted"},
         stub_maps' = WithoutBuffer(stub_maps, step[t].entry.buffer),
         step' = [step EXCEPT ![t] = AtRest],
         g_active_stub_map_count' \in Int,
         g_active_stub_map_count' >= Cardinality(Occupied(stub_maps)'),
         UNCHANGED <<maps, mapped, held, call>>
  PROVE  TablesInv'
  <1> DEFINE b == step[t].entry.buffer
  <1>1. /\ b # 0 /\ b \notin mapped
        /\ \A u \in Threads \ {t} : step[u].entry.buffer # b
    BY DEF TablesInv, StepInv
  <1>2. /\ DOMAIN stub_maps' = Ids
        /\ \A i \in Ids : stub_maps'[i] = IF stub_maps[i].buffer = b THEN NoEntry ELSE stub_maps[i]
    BY DEF WithoutBuffer
  <1>3. /\ step'[t] = AtRest /\ DOMAIN step' = Threads
        /\ \A u \in Threads \ {t} : step'[u] = step[u]
    BY DEF TablesInv, MapTypes
  <1> HIDE DEF b
  <1>4. \A i \in Ids : maps[i].buffer # b
    BY <1>1 DEF TablesInv, AgreeInv, Occupied
  <1>5. MapTypes'
    <2>1. \A i \in Ids : stub_maps'[i] \in MapType
      BY <1>2, EntriesAre DEF TablesInv, MapTypes
    <2>2. stub_maps' \in [Ids -> MapType]
      BY <2>1 DEF WithoutBuffer
    <2>3. \A u \in Threads : /\ step'[u].at \in {"rest", "mapped", "unmapped", "deleted"}
                             /\ step'[u].entry \in MapType
                             /\ step'[u].at = "rest" => step'[u] = AtRest
      BY <1>3, EntriesAre DEF TablesInv, MapTypes
    <2> QED
      BY <1>3, <2>2, <2>3 DEF TablesInv, MapTypes
  <1>6. Once(maps)' /\ Once(stub_maps)'
    BY <1>2, EntriesAre DEF TablesInv, Once
  <1>7. StepInv'
    <2>1. \A u \in Threads \ {t} : step[u].at = "unmapped" =>
            stub_maps'[step[u].id] = stub_maps[step[u].id]
      <3> SUFFICES ASSUME NEW u \in Threads \ {t}, step[u].at = "unmapped"
                   PROVE  stub_maps'[step[u].id] = stub_maps[step[u].id]
        OBVIOUS
      <3>1. step[u].id \in Ids /\ stub_maps[step[u].id] = step[u].entry
        BY DEF TablesInv, StepInv
      <3> QED
        BY <1>1, <1>2, <3>1
    <2> QED
      BY <1>3, <2>1, EntriesAre, StepsStay
  <1>8. AgreeInv'
    <2>1. Unreturned = Unreturned' \cup {b}
      <3>1. step'[t].entry.buffer = 0 /\ step[t].entry.buffer = b
        BY <1>3, EntriesAre DEF b
      <3> QED
        BY <1>3, <3>1 DEF Unreturned
    <2>2. \A i \in Ids : Same(i)'
      <3> SUFFICES ASSUME NEW i \in Ids PROVE Same(i)'
        OBVIOUS
      <3>1. Same(i) /\ maps[i].buffer # b
        BY <1>4 DEF TablesInv, AgreeInv
      <3>2. CASE stub_maps[i].buffer = b
        <4>1. stub_maps'[i].buffer = 0 /\ maps[i].buffer \in Unreturned'
          BY <1>2, <2>1, <3>1, <3>2, EntriesAre DEF Same
        <4> QED
          BY <4>1 DEF Same, Unreturned
      <3>3. CASE stub_maps[i].buffer # b
        BY <1>2, <2>1, <3>1, <3>3 DEF Same
      <3> QED
        BY <3>2, <3>3
    <2>3. mapped' = {maps'[i].buffer : i \in Occupied(maps)'} /\ held' \subseteq mapped'
      BY DEF TablesInv, AgreeInv, Occupied
    <2>4. \A x \in mapped' \ held' :
            \E u \in Threads : step'[u].at = "mapped" /\ step'[u].entry.buffer = x
      <3> SUFFICES ASSUME NEW x \in mapped' \ held'
                   PROVE  \E u \in Threads : step'[u].at = "mapped" /\ step'[u].entry.buffer = x
        OBVIOUS
      <3>1. PICK u \in Threads : step[u].at = "mapped" /\ step[u].entry.buffer = x
        BY DEF TablesInv, AgreeInv
      <3> QED
        BY <1>3, <3>1
    <2> QED
      BY <2>2, <2>3, <2>4 DEF AgreeInv
  <1> QED
    BY <1>5, <1>6, <1>7, <1>8 DEF TablesInv

LEMMA ForgetMapKeeps ==
  ASSUME TablesInv, NEW t \in Threads, ForgetMap(t), UNCHANGED stateVars
  PROVE  TablesInv'
  <1> DEFINE n == step[t].id
             b == step[t].entry.buffer
             O == Occupied(stub_maps)
  <1>1. /\ step[t].at = "unmapped"
        /\ stub_maps' = [stub_maps EXCEPT ![n] = NoEntry]
        /\ g_active_stub_map_count' = IF stub_maps[n] = NoEntry
             THEN g_active_stub_map_count ELSE g_active_stub_map_count - 1
        /\ step' = [step EXCEPT ![t] = AtRest]
        /\ UNCHANGED <<maps, mapped, held, call>>
    BY DEF ForgetMap, contentVars, programVars, stateVars
  <1>2. n \in Ids /\ stub_maps[n].buffer = b /\ b # 0 /\ stub_maps[n] # NoEntry
    BY <1>1, EntriesAre DEF TablesInv, StepInv
  <1>3. stub_maps' = WithoutBuffer(stub_maps, b)
    <2>1. \A i \in Ids \ {n} : stub_maps[i].buffer # b
      BY <1>2 DEF TablesInv, Once
    <2>2. DOMAIN stub_maps = Ids
      BY DEF TablesInv, MapTypes
    <2> QED
      BY <1>1, <1>2, <2>1, <2>2 DEF WithoutBuffer
  <1>4. /\ g_active_stub_map_count' = g_active_stub_map_count - 1
        /\ g_active_stub_map_count \in Int
        /\ g_active_stub_map_count >= Cardinality(O)
    BY <1>1, <1>2 DEF TablesInv, MapTypes, AgreeInv
  <1>5. Occupied(stub_maps)' = O \ {n} /\ n \in O
    BY <1>1, <1>2, EntriesAre DEF Occupied, TablesInv, MapTypes
  <1>6. IsFiniteSet(O) /\ Cardinality(O) \in Nat
    BY OccupiedAre
  <1> HIDE DEF n, O
  <1>7. Cardinality(O \ {n}) = Cardinality(O) - 1
    BY <1>5, <1>6, FS_RemoveElement
  <1>8. Cardinality(Occupied(stub_maps)') = Cardinality(O) - 1
    BY <1>5, <1>7, Zenon
  <1>9. /\ g_active_stub_map_count' \in Int
        /\ g_active_stub_map_count' >= Cardinality(Occupied(stub_maps)')
    BY <1>4, <1>6, <1>8
  <1> QED
    BY <1>1, <1>3, <1>9, ForgetKeeps

LEMMA ForgetMapsKeeps ==
  ASSUME TablesInv, NEW t \in Threads, ForgetMaps(t), UNCHANGED stateVars
  PROVE  TablesInv'
  <1> DEFINE b == step[t].entry.buffer
             O == Occupied(stub_maps)
             P == Occupied(stub_maps')
  <1>1. /\ step[t].at = "deleted"
        /\ stub_maps' = WithoutBuffer(stub_maps, b)
        /\ step' = [step EXCEPT ![t] = AtRest]
        /\ UNCHANGED <<g_active_stub_map_count, maps, mapped, held, call>>
    BY DEF ForgetMaps, contentVars, programVars, stateVars
  <1>2. P \subseteq O
    BY <1>1, EntriesAre DEF WithoutBuffer, Occupied
  <1>3. /\ g_active_stub_map_count \in Int /\ g_active_stub_map_count >= Cardinality(O)
    BY DEF TablesInv, MapTypes, AgreeInv
  <1>4. /\ IsFiniteSet(O) /\ Cardinality(O) \in Nat
        /\ Cardinality(P) \in Nat
    BY OccupiedAre
  <1>5. P = Occupied(stub_maps)'
    BY DEF Occupied
  <1> HIDE DEF O, P
  <1>6. Cardinality(P) <= Cardinality(O)
    BY <1>2, <1>4, FS_Subset
  <1>7. g_active_stub_map_count' >= Cardinality(P)
    BY <1>1, <1>3, <1>4, <1>6
  <1>8. g_active_stub_map_count' >= Cardinality(Occupied(stub_maps)')
    BY <1>5, <1>7, Zenon
  <1> QED
    BY <1>1, <1>3, <1>8, ForgetKeeps

(* glDeleteBuffers(): nobody else is about to do something with the buffer. *)
LEMMA DeleteKeeps ==
  ASSUME GLInv, TablesInv, NEW t \in Threads, Run(t), call[t].op = "delBuf",
         step[t] = AtRest, DeleteMaps(t)
  PROVE  TablesInv'
  <1> DEFINE b == call[t].n
  <1>1. /\ phase[t] = "send" /\ call' = [call EXCEPT ![t] = NoCall]
        /\ maps' = WithoutBuffer(maps, b)
        /\ mapped' = mapped \ {b} /\ held' = held \ {b}
        /\ step' = [step EXCEPT ![t] = Step("deleted", 0, Entry(b, {}, "read"), Blank)]
        /\ UNCHANGED <<stub_maps, g_active_stub_map_count>>
    BY DEF Run, DeleteMaps, tableVars
  <1>2. b \in Names /\ Deletes(call[t]) /\ Kind(call[t]) = "buf"
    BY <1>1, HandType, KindIs DEF CallShape, DelOps
  <1>3. \A u \in Threads \ {t} : call[u].op = "delBuf" => call[u].n # b
    <2> SUFFICES ASSUME NEW u \in Threads \ {t}, call[u].op = "delBuf", call[u].n = b
                 PROVE  FALSE
      OBVIOUS
    <2>1. call[u] # NoCall
      BY NoCallIs
    <2>2. phase[u] # "idle"
      BY <2>1 DEF GLInv, TypesInv, TypeOK
    <2>3. Kind(call[u]) = "buf"
      BY <2>2, HandType, KindIs DEF DelOps
    <2>4. Hand(t)
      BY <1>1, HandType
    <2> QED
      BY <1>2, <2>3, <2>4 DEF Hand
  <1>4. \A u \in Threads \ {t} : step[u].entry.buffer # b
    <2> SUFFICES ASSUME NEW u \in Threads \ {t}, step[u].entry.buffer = b
                 PROVE  FALSE
      OBVIOUS
    <2>1. step[u].at # "rest"
      BY <1>2, NamesAre, EntriesAre DEF TablesInv, MapTypes
    <2> QED
      BY <2>1 DEF TablesInv, StepInv
  <1>5. /\ DOMAIN maps' = Ids
        /\ \A i \in Ids : maps'[i] = IF maps[i].buffer = b THEN NoEntry ELSE maps[i]
    BY <1>1 DEF WithoutBuffer
  <1>6. /\ step'[t].at = "deleted" /\ step'[t].entry = Entry(b, {}, "read")
        /\ step'[t].entry.buffer = b
        /\ DOMAIN step' = Threads /\ call'[t] = NoCall
        /\ \A u \in Threads \ {t} : step'[u] = step[u] /\ call'[u] = call[u]
    BY <1>1, EntriesAre DEF TablesInv, MapTypes, GLInv, TypesInv, ThreadTypes
  <1>7. Entry(b, {}, "read") \in MapType
    BY <1>2 DEF Entry, MapType, Name0, Accesses
  <1> HIDE DEF b
  <1>8. MapTypes'
    <2>1. \A i \in Ids : maps'[i] \in MapType
      BY <1>5, EntriesAre DEF TablesInv, MapTypes
    <2>2. maps' \in [Ids -> MapType]
      BY <1>1, <2>1 DEF WithoutBuffer
    <2>3. \A u \in Threads : /\ step'[u].at \in {"rest", "mapped", "unmapped", "deleted"}
                             /\ step'[u].entry \in MapType
                             /\ step'[u].at = "rest" => step'[u] = AtRest
      BY <1>6, <1>7 DEF TablesInv, MapTypes
    <2> QED
      BY <1>1, <1>6, <2>2, <2>3 DEF TablesInv, MapTypes
  <1>9. Once(maps)' /\ Once(stub_maps)'
    BY <1>1, <1>5, EntriesAre DEF TablesInv, Once
  <1>10. StepInv'
    <2>1. ASSUME NEW u \in Threads \ {t}
          PROVE  /\ step[u].at = "mapped" => maps'[step[u].id] = maps[step[u].id]
                 /\ step[u].at = "unmapped" => maps'[step[u].id] = maps[step[u].id]
      <3>1. step[u].at = "mapped" => step[u].id \in Ids /\ maps[step[u].id] = step[u].entry
        BY DEF TablesInv, StepInv
      <3>2. step[u].at = "unmapped" => step[u].id \in Ids /\ maps[step[u].id] = NoEntry
        BY DEF TablesInv, StepInv
      <3> QED
        BY <1>4, <1>5, <3>1, <3>2
    <2>2. b \notin mapped' /\ b # 0 /\ call'[t].op # "delBuf"
      BY <1>1, <1>2, <1>6, NoCallIs, NamesAre
    <2>3. \A u \in Threads \ {t} : step[u].entry.buffer \in mapped' =>
                                     step[u].entry.buffer \in mapped
      BY <1>1
    <2> QED
      BY <1>1, <1>3, <1>4, <1>6, <2>1, <2>2, <2>3, StepsStay
  <1>11. AgreeInv'
    <2>1. Unreturned' = Unreturned \cup {b}
      <3>1. step[t].entry.buffer = 0 /\ step'[t].entry.buffer = b
        BY <1>6, EntriesAre
      <3> QED
        BY <1>6, <3>1 DEF Unreturned
    <2>2. \A i \in Ids : Same(i)'
      <3> SUFFICES ASSUME NEW i \in Ids PROVE Same(i)'
        OBVIOUS
      <3>1. Same(i) /\ 0 \in Unreturned
        BY DEF TablesInv, AgreeInv, Unreturned
      <3>2. CASE maps[i].buffer = b
        BY <1>1, <1>5, <2>1, <3>1, <3>2, EntriesAre DEF Same
      <3>3. CASE maps[i].buffer # b
        BY <1>1, <1>5, <2>1, <3>1, <3>3 DEF Same
      <3> QED
        BY <3>2, <3>3
    <2>3. mapped' = {maps'[i].buffer : i \in Occupied(maps)'}
      <3>1. ASSUME NEW x \in mapped' PROVE \E i \in Ids : maps'[i].buffer = x /\ x # 0
        <4>1. PICK i \in Ids : maps[i].buffer = x /\ x # 0
          BY <1>1 DEF TablesInv, AgreeInv, Occupied
        <4> QED
          BY <1>1, <1>5, <4>1
      <3>2. ASSUME NEW i \in Ids, maps'[i].buffer # 0 PROVE maps'[i].buffer \in mapped'
        BY <1>1, <1>5, <3>2, EntriesAre DEF TablesInv, AgreeInv, Occupied
      <3> QED
        BY <3>1, <3>2 DEF Occupied
    <2>4. held' \subseteq mapped'
      BY <1>1 DEF TablesInv, AgreeInv
    <2>5. \A x \in mapped' \ held' :
            \E u \in Threads : step'[u].at = "mapped" /\ step'[u].entry.buffer = x
      <3> SUFFICES ASSUME NEW x \in mapped' \ held'
                   PROVE  \E u \in Threads : step'[u].at = "mapped" /\ step'[u].entry.buffer = x
        OBVIOUS
      <3>1. PICK u \in Threads : step[u].at = "mapped" /\ step[u].entry.buffer = x
        BY <1>1 DEF TablesInv, AgreeInv
      <3>2. u # t
        BY <3>1, EntriesAre
      <3> QED
        BY <1>6, <3>1, <3>2
    <2>6. Occupied(stub_maps)' = Occupied(stub_maps)
      BY <1>1 DEF Occupied
    <2>7. g_active_stub_map_count' >= Cardinality(Occupied(stub_maps)')
      BY <1>1, <2>6 DEF TablesInv, AgreeInv
    <2> QED
      BY <2>2, <2>3, <2>4, <2>5, <2>7 DEF AgreeInv
  <1> QED
    BY <1>8, <1>9, <1>10, <1>11 DEF TablesInv

LEMMA StateCallKeeps ==
  ASSUME GLInv, TablesInv, NEW t \in Threads, StateCall(t)
  PROVE  TablesInv'
  <1>1. step[t] = AtRest /\ DOMAIN call = Threads
    BY DEF StateCall, GLInv, TypesInv, ThreadTypes
  <1> DEFINE same == UNCHANGED <<stub_maps, g_active_stub_map_count, maps, mapped, step, held>>
  <1>2. ASSUME \/ \E o \in Ops : Begin(t, o)
               \/ Skip(t)
               \/ \E c \in Contexts : DestroyContext(t, c)
               \/ \E c \in Contexts \cup {0} : MakeCurrent(t, c),
               call'[t].op = "delBuf" => ~Busy(t, call'[t].n),
               UNCHANGED mapVars
        PROVE  TablesInv'
    <2>1. same
      BY <1>2 DEF mapVars, tableVars, contentVars, programVars
    <2>2. \A u \in Threads \ {t} : call'[u] = call[u]
      BY <1>1, <1>2 DEF Begin, Skip, DestroyContext, MakeCurrent
    <2> QED
      BY <1>2, <2>1, <2>2, TablesStay
  <1>3. ASSUME \/ CreateContext(t) /\ FreshBinding
               \/ ResetShadows(t) /\ ResetRanges(t)
               \/ Note(t) /\ NoteRanges(t)
        PROVE  TablesInv'
    <2>1. same /\ UNCHANGED call
      BY <1>3 DEF CreateContext, FreshBinding, ResetShadows, ResetRanges, Note, NoteRanges,
         tableVars, contentVars, programVars
    <2> QED
      BY <2>1, TablesStay
  <1>4. ASSUME Run(t), RunMaps(t)
        PROVE  TablesInv'
    <2>1. CASE call[t].op = "delBuf"
      <3>1. DeleteMaps(t)
        BY <1>4, <2>1 DEF RunMaps
      <3> QED
        BY <1>1, <1>4, <2>1, <3>1, DeleteKeeps
    <2>2. CASE call[t].op # "delBuf"
      <3>1. MakeStore(Given(g_stub_current_ctx[t], call[t])) \/ UNCHANGED mapVars
        BY <1>4, <2>2 DEF RunMaps
      <3>2. same
        BY <3>1 DEF MakeStore, mapVars, tableVars, contentVars, programVars
      <3>3. call' = [call EXCEPT ![t] = NoCall]
        BY <1>4 DEF Run
      <3>4. \A u \in Threads : call'[u] = call[u] \/ call'[u].op # "delBuf"
        BY <1>1, <3>3, NoCallIs
      <3> QED
        BY <3>2, <3>4, TablesStay
    <2> QED
      BY <2>1, <2>2
  <1> QED
    BY <1>2, <1>3, <1>4 DEF StateCall

LEMMA MapCallKeeps ==
  ASSUME GLInv, TablesInv, Roomy, "crossing" \notin MapHabits,
         NEW t \in Threads, MapCall(t), UNCHANGED stateVars
  PROVE  TablesInv'
  <1>1. UNCHANGED call
    BY DEF stateVars
  <1>2. ASSUME UNCHANGED <<stub_maps, g_active_stub_map_count, maps, mapped, step, held>>
        PROVE  TablesInv'
    BY <1>1, <1>2, TablesStay
  <1>3. ASSUME \/ MapAgain(t)
               \/ \E b \in Names, p \in Parts, v \in 1 .. left["store"] : Write(t, b, p, v)
               \/ \E range \in Ranges : Flush(t, range)
        PROVE  TablesInv'
    BY <1>2, <1>3 DEF MapAgain, Write, Flush, mapVars, tableVars, contentVars, programVars
  <1>4. ASSUME \/ \E vbos \in (SUBSET Names) \ {{}}, range \in Ranges : Draw(t, vbos, range)
               \/ \E b \in Names, range \in Ranges : BindRange(t, b, range)
               \/ \E b \in Names : BindBase(t, b)
        PROVE  TablesInv'
    BY <1>2, <1>4 DEF Draw, BindRange, BindBase, tableVars, programVars
  <1>5. ASSUME NEW range \in Ranges, NEW access \in Accesses, SendMap(t, range, access)
        PROVE  TablesInv'
    BY <1>5, SendMapKeeps
  <1>6. ASSUME KeepMap(t) \/ SendUnmap(t) \/ ForgetMap(t) \/ ForgetMaps(t)
        PROVE  TablesInv'
    BY <1>6, KeepMapKeeps, SendUnmapKeeps, ForgetMapKeeps, ForgetMapsKeeps
  <1> QED
    BY <1>3, <1>4, <1>5, <1>6 DEF MapCall

LEMMA TablesInit == MapInit => TablesInv
  <1> SUFFICES ASSUME MapInit PROVE TablesInv
    OBVIOUS
  <1>1. /\ stub_maps = [i \in Ids |-> NoEntry] /\ maps = [i \in Ids |-> NoEntry]
        /\ g_active_stub_map_count = 0 /\ mapped = {} /\ held = {}
        /\ step = [t \in Threads |-> AtRest]
    BY DEF MapInit
  <1>2. Occupied(stub_maps) = {} /\ Occupied(maps) = {}
    BY <1>1, EntriesAre DEF Occupied
  <1>3. Cardinality(Occupied(stub_maps)) = 0
    BY <1>2, FS_EmptySet
  <1>4. MapTypes /\ Once(stub_maps) /\ Once(maps)
    BY <1>1, EntriesAre DEF MapTypes, Once
  <1>5. StepInv
    BY <1>1, EntriesAre DEF StepInv
  <1>6. AgreeInv
    BY <1>1, <1>2, <1>3 DEF AgreeInv, Same
  <1> QED
    BY <1>4, <1>5, <1>6 DEF TablesInv

(* Where the tables have room for every buffer, and no thread maps one     *)
(* while another has not returned from unmapping or deleting one, the      *)
(* tables of stub and proxy differ at most for buffers that a thread has   *)
(* not returned from mapping, unmapping or deleting, whatever was mapped   *)
(* again, unmapped or deleted and by whichever thread.                     *)
THEOREM TablesCorrect ==
  ASSUME Habits = {}, "crossing" \notin MapHabits, Roomy
  PROVE  MapSpec => []AllTablesInv
  <1>1. MapInit => AllTablesInv
    BY InitInv, TablesInit DEF MapInit, AllTablesInv
  <1>2. AllTablesInv /\ [MapNext]_<<vars, mapVars>> => AllTablesInv'
    <2> SUFFICES ASSUME AllTablesInv, [MapNext]_<<vars, mapVars>>
                 PROVE  AllTablesInv'
      OBVIOUS
    <2>1. GLInv'
      BY MapSteps, NextKeeps, StutterKeeps DEF AllTablesInv
    <2>2. ASSUME NEW t \in Threads, StateCall(t)
          PROVE  TablesInv'
      BY <2>2, StateCallKeeps DEF AllTablesInv
    <2>3. ASSUME NEW t \in Threads, MapCall(t), UNCHANGED stateVars
          PROVE  TablesInv'
      BY <2>3, MapCallKeeps DEF AllTablesInv
    <2>4. ASSUME UNCHANGED <<vars, mapVars>>
          PROVE  TablesInv'
      <3>1. UNCHANGED <<call, stub_maps, g_active_stub_map_count, maps, mapped, step, held>>
        BY <2>4 DEF vars, mapVars, tableVars, contentVars, programVars
      <3> QED
        BY <3>1, TablesStay DEF AllTablesInv
    <2>5. TablesInv'
      BY <2>2, <2>3, <2>4 DEF MapNext
    <2> QED
      BY <2>1, <2>5 DEF AllTablesInv
  <1> QED
    BY <1>1, <1>2, PTL DEF MapSpec

(* Then, once the calls have returned, the tables of stub and proxy, the   *)
(* driver and the program agree on what is mapped, and the count that      *)
(* glBindBufferRange() looks at has missed none.                           *)
THEOREM MapsCorrect ==
  ASSUME Habits = {}, "crossing" \notin MapHabits, Roomy
  PROVE  MapSpec => []MapsAgree
  <1>1. AllTablesInv => MapsAgree
    <2> SUFFICES ASSUME TablesInv, \A t \in Threads : step[t] = AtRest
                 PROVE  /\ stub_maps = maps
                        /\ {maps[i].buffer : i \in Ids} \ {0} = mapped /\ mapped = held
                        /\ g_active_stub_map_count >= Cardinality(mapped)
      BY DEF AllTablesInv, MapsAgree
    <2>1. stub_maps = maps
      <3>1. Unreturned \subseteq {0}
        BY EntriesAre DEF Unreturned
      <3>2. \A i \in Ids : stub_maps[i] = maps[i]
        <4> SUFFICES ASSUME NEW i \in Ids, stub_maps[i] # maps[i] PROVE FALSE
          OBVIOUS
        <4>1. stub_maps[i].buffer = 0 /\ maps[i].buffer = 0
          BY <3>1 DEF TablesInv, AgreeInv, Same
        <4> QED
          BY <4>1 DEF TablesInv, Once
      <3> QED
        BY <3>2 DEF TablesInv, MapTypes
    <2>2. {maps[i].buffer : i \in Ids} \ {0} = mapped
      BY DEF TablesInv, AgreeInv, Occupied
    <2>3. mapped = held
      BY EntriesAre DEF TablesInv, AgreeInv
    <2>4. g_active_stub_map_count >= Cardinality(mapped)
      <3> DEFINE O == Occupied(stub_maps)
                 f == [i \in O |-> maps[i].buffer]
      <3>1. IsFiniteSet(O) /\ Cardinality(O) \in Nat
        BY OccupiedAre
      <3>2. g_active_stub_map_count \in Int /\ g_active_stub_map_count >= Cardinality(O)
        BY DEF TablesInv, MapTypes, AgreeInv
      <3>3. mapped = {maps[i].buffer : i \in O}
        BY <2>1 DEF TablesInv, AgreeInv
      <3> HIDE DEF O
      <3>4. f \in Surjection(O, mapped)
        BY <3>3 DEF Surjection
      <3> HIDE DEF f
      <3>5. /\ Cardinality(mapped) <= Cardinality(O) /\ IsFiniteSet(mapped)
            /\ Cardinality(mapped) \in Nat
        BY <3>1, <3>4, FS_Surjection, FS_CardinalityType
      <3> QED
        BY <3>1, <3>2, <3>5
    <2> QED
      BY <2>1, <2>2, <2>3, <2>4
  <1> QED
    BY <1>1, TablesCorrect, PTL

-----------------------------------------------------------------------------
(* The contents of buffers *)

(* What is still to be called.                                             *)
LEMMA UsedIs ==
  ASSUME ContentTypes, NEW o \in MapOps, left[o] > 0, Used(o)
  PROVE  /\ left' \in [Ops \cup EglOps \cup MapOps -> Nat]
         /\ left["store"] \in Nat /\ left'["store"] \in Nat
         /\ left'["store"] = IF o = "store" THEN left["store"] - 1 ELSE left["store"]
         /\ left'["store"] <= left["store"]
  <1>1. "store" \in MapOps
    BY DEF MapOps
  <1> QED
    BY <1>1 DEF ContentTypes, Used

LEMMA ContentsAre ==
  ASSUME ContentTypes
  PROVE  /\ \A b \in Names : /\ store[b] \in Contents /\ memory[b] \in Contents
                             /\ \A p \in Parts : store[b][p] \in Int /\ memory[b][p] \in Int
         /\ \A i \in Ids : copy[i] \in Contents /\ \A p \in Parts : copy[i][p] \in Int
         /\ left["store"] \in Nat
         /\ Blank \in Contents /\ [p \in Parts |-> Unwritten] \in Contents
  <1>1. "store" \in MapOps
    BY DEF MapOps
  <1> QED
    BY <1>1 DEF ContentTypes, Contents, Blank, Unwritten

(* A buffer that nobody else is about to do something with.                *)
LEMMA AtHand ==
  ASSUME TablesInv, NEW t \in Threads, step[t] = AtRest, NEW b \in Names, ~Busy(t, b)
  PROVE  b \notin Unreturned /\ (Settled(b) <=> b \in held)
  <1>1. b \notin Unreturned
    BY NamesAre, EntriesAre DEF Unreturned, Busy
  <1> QED
    BY <1>1 DEF Settled

(* It is mapped under the same id by stub and proxy, or not at all.        *)
LEMMA OfFinds ==
  ASSUME NEW table, NEW b, NEW i \in Ids, table[i].buffer = b,
         \A j \in Ids : table[j].buffer = b => j = i
  PROVE  Of(table, b) = i
  <1> DEFINE S == {j \in Ids : table[j].buffer = b} \cup {MAX_MAPS}
  <1>1. MAX_MAPS \in Nat \ {0} /\ i \in S /\ i < MAX_MAPS /\ S = {i, MAX_MAPS}
    BY MapAssumption DEF Ids
  <1>2. S \subseteq Nat /\ S # {}
    BY <1>1, IdsAre
  <1>3. Min(S) \in S /\ \A x \in S : Min(S) <= x
    BY <1>2, LeastExists DEF Min
  <1>4. Min(S) = i
    BY <1>1, <1>3, IdsAre
  <1>5. i % MAX_MAPS = i
    BY <1>1, IdsAre
  <1> QED
    BY <1>4, <1>5 DEF Of

LEMMA HeldOf ==
  ASSUME TablesInv, NEW b, Settled(b)
  PROVE  LET i == Of(stub_maps, b)
         IN  /\ b \in Names /\ b # 0 /\ i # 0 /\ i \in Ids
             /\ stub_maps[i].buffer = b /\ maps[i] = stub_maps[i] /\ Of(maps, b) = i
             /\ \A j \in Ids : stub_maps[j].buffer = b \/ maps[j].buffer = b => j = i
  <1>1. b \in held /\ b \in mapped /\ b \notin Unreturned /\ b \in Names /\ b # 0
    BY NamesAre DEF Settled, TablesInv, AgreeInv, MapTypes
  <1>2. PICK i \in Ids : maps[i].buffer = b
    BY <1>1 DEF TablesInv, AgreeInv, Occupied
  <1>3. maps[i] = stub_maps[i]
    BY <1>1, <1>2 DEF TablesInv, AgreeInv, Same
  <1>4. \A j \in Ids : stub_maps[j].buffer = b \/ maps[j].buffer = b => j = i
    BY <1>1, <1>2, <1>3 DEF TablesInv, Once
  <1>5. Of(stub_maps, b) = i /\ Of(maps, b) = i
    BY <1>2, <1>3, <1>4, OfFinds
  <1> QED
    BY <1>1, <1>2, <1>3, <1>4, <1>5, IdsAre

LEMMA NotHeldOf ==
  ASSUME TablesInv, NEW b \in Names, b \notin Unreturned, b \notin held
  PROVE  /\ b \notin mapped /\ Of(stub_maps, b) = 0
         /\ \A i \in Ids : stub_maps[i].buffer # b /\ maps[i].buffer # b
  <1>1. b \notin mapped
    BY DEF TablesInv, AgreeInv, Unreturned
  <1>2. \A i \in Ids : maps[i].buffer # b
    BY <1>1, NamesAre DEF TablesInv, AgreeInv, Occupied
  <1>3. \A i \in Ids : stub_maps[i].buffer # b
    BY <1>2 DEF TablesInv, AgreeInv, Same
  <1> QED
    BY <1>1, <1>2, <1>3, OfIs

(* What leaves a buffer and its copy alone.                                *)
LEMMA StoreStays ==
  ASSUME NEW b, StoreInv(b), store'[b] = store[b], memory'[b] = memory[b],
         Settled(b) => /\ Settled(b)'
                       /\ \A i \in Ids : stub_maps[i].buffer = b =>
                            stub_maps'[i] = stub_maps[i] /\ copy'[i] = copy[i]
  PROVE  StoreInv(b)'
  BY DEF StoreInv, Written

LEMMA CopyStays ==
  ASSUME NEW i \in Ids, CopyInv(i), NEW b, b = stub_maps'[i].buffer,
         Settled(b)' => /\ Settled(b) /\ stub_maps'[i] = stub_maps[i] /\ copy'[i] = copy[i]
                        /\ memory'[b] = memory[b],
         \A p \in Parts : copy[i][p] \in Int,
         left["store"] \in Nat, left'["store"] \in Nat, left'["store"] <= left["store"]
  PROVE  CopyInv(i)'
  <1> SUFFICES ASSUME Settled(b)', NEW p \in Parts, Written(i, p)'
               PROVE  copy'[i][p] = memory'[b][p] /\ copy'[i][p] > left'["store"]
    BY DEF CopyInv
  <1>1. Settled(b) /\ b = stub_maps[i].buffer /\ Written(i, p)
    BY DEF Written
  <1>2. copy[i][p] = memory[b][p] /\ copy[i][p] > left["store"]
    BY <1>1 DEF CopyInv
  <1> QED
    BY <1>2

(* What a range that is remembered needs.                                  *)
LEMMA RangeStays ==
  ASSUME NEW c \in Contexts, RangeInv(c), NEW b, b = ranges'[c].buffer,
         ranges'[c].hash = ranges[c].hash, ranges'[c].range = ranges[c].range,
         b = 0 \/ b = ranges[c].buffer,
         b # 0 => /\ b \in Kept("buf", c)' /\ ubo'[c] = ubo[c]
                  /\ Object(gen', "buf", b) = Object(gen, "buf", b)
                  /\ \A p \in Parts :
                       \/ memory'[b][p] = memory[b][p] /\ store'[b][p] = store[b][p]
                       \/ store'[b][p] = memory'[b][p] \/ memory'[b][p] = left["store"],
         left["store"] \in Nat, left'["store"] \in Nat, left'["store"] <= left["store"]
  PROVE  RangeInv(c)'
  <1> DEFINE r == ranges[c]
  <1>1. ranges'[c].buffer \in Kept("buf", c)' /\ DOMAIN ranges'[c].hash \subseteq Parts
    BY DEF RangeInv, Kept
  <1>2. b # 0 => ubo'[c] = Bind(b, r.range)'
    BY DEF RangeInv, Bind
  <1>3. ASSUME NEW p \in DOMAIN r.hash
        PROVE  /\ r.hash[p] \in Int /\ r.hash[p] > left'["store"]
               /\ b # 0 /\ memory'[b][p] = r.hash[p] => store'[b][p] = memory'[b][p]
    <2>1. /\ r.hash[p] \in Int /\ r.hash[p] > left["store"] /\ p \in Parts
          /\ b # 0 /\ memory[b][p] = r.hash[p] => store[b][p] = memory[b][p]
      BY DEF RangeInv
    <2> QED
      BY <2>1
  <1> QED
    BY <1>1, <1>2, <1>3 DEF RangeInv, Bind

(* Calls of the program that concern GLState.                              *)
LEMMA StateStays ==
  ASSUME UNCHANGED stateVars
  PROVE  /\ UNCHANGED <<call, phase, gen, live, bound_array, g_stub_current_ctx>>
         /\ \A c : Kept("buf", c)' = Kept("buf", c)
  <1>1. UNCHANGED <<call, phase, gen, live, bound_array, g_stub_current_ctx>>
    BY DEF stateVars, driverVars, stubVars
  <1> QED
    BY <1>1 DEF Kept, Going

LEMMA BuffersAre ==
  ASSUME GLInv
  PROVE  /\ live["buf"][0] \subseteq Names /\ gen \in GenType
         /\ \A c : /\ 0 \in Kept("buf", c) /\ Kept("buf", c) \subseteq Name0
                  /\ Kept("buf", c) \subseteq {0} \cup live["buf"][0]
                  /\ \A d : Kept("buf", c) = Kept("buf", d)
  <1>1. live["buf"][0] \subseteq Names
    BY DEF GLInv, TypesInv, DriverTypes, Kinds, Shared
  <1>2. \A c : Kept("buf", c) = {0} \cup (live["buf"][0] \ Going("buf", 0))
    BY DEF Kept, Home, Shared
  <1> QED
    BY <1>1, <1>2, RealType DEF Name0

LEMMA RangesStay ==
  ASSUME GLInv, ContentInv, UNCHANGED stateVars, UNCHANGED <<ranges, ubo>>,
         left'["store"] \in Nat, left'["store"] <= left["store"],
         \A b \in Names : \A p \in Parts :
           \/ memory'[b][p] = memory[b][p] /\ store'[b][p] = store[b][p]
           \/ store'[b][p] = memory'[b][p] \/ memory'[b][p] = left["store"]
  PROVE  \A c \in Contexts : RangeInv(c)'
  <1> SUFFICES ASSUME NEW c \in Contexts PROVE RangeInv(c)'
    OBVIOUS
  <1> DEFINE b == ranges[c].buffer
  <1>1. RangeInv(c) /\ b = ranges'[c].buffer /\ b \in Kept("buf", c)
    BY DEF ContentInv, RangeInv
  <1>2. b # 0 => b \in Names
    BY <1>1, BuffersAre DEF Name0
  <1>3. left["store"] \in Nat
    BY ContentsAre DEF ContentInv
  <1>4. b \in Kept("buf", c)' /\ gen' = gen
    BY <1>1, StateStays
  <1> HIDE DEF b
  <1> QED
    BY <1>1, <1>2, <1>3, <1>4, RangeStays DEF b

-----------------------------------------------------------------------------
(* Commands that read buffers *)

(* The driver gets bytes the program has written.                          *)
LEMMA FillKeeps ==
  ASSUME GLInv, ContentInv, UNCHANGED <<stub_maps, copy, memory, held, step>>,
         live'["buf"][0] = live["buf"][0],
         left'["store"] = left["store"],
         \A b \in Names : \A p \in Parts : store'[b][p] \in {store[b][p], memory[b][p]}
  PROVE  /\ \A i \in Ids : CopyInv(i)'
         /\ \A b \in live'["buf"][0] : StoreInv(b)'
  <1>1. \A b : Settled(b)' <=> Settled(b)
    BY DEF Settled, Unreturned
  <1>2. \A i \in Ids : \A p : Written(i, p)' <=> Written(i, p)
    BY DEF Written
  <1>3. ASSUME NEW i \in Ids PROVE CopyInv(i)'
    <2>1. CopyInv(i)
      BY DEF ContentInv
    <2> QED
      BY <1>1, <1>2, <2>1 DEF CopyInv
  <1>4. ASSUME NEW b \in live'["buf"][0] PROVE StoreInv(b)'
    <2>1. StoreInv(b) /\ b \in Names
      BY BuffersAre DEF ContentInv
    <2>2. ASSUME NEW p \in Parts
          PROVE  \/ store'[b][p] = memory'[b][p]
                 \/ Settled(b)' /\ \E i \in Ids : stub_maps'[i].buffer = b /\ Written(i, p)'
      <3>1. store'[b][p] \in {store[b][p], memory[b][p]}
        BY <2>1
      <3>2. \/ store[b][p] = memory[b][p]
            \/ Settled(b) /\ \E i \in Ids : stub_maps[i].buffer = b /\ Written(i, p)
        BY <2>1 DEF StoreInv
      <3> QED
        BY <1>1, <1>2, <3>1, <3>2
    <2> QED
      BY <2>2 DEF StoreInv
  <1> QED
    BY <1>3, <1>4

(* What is brought is what the buffer should hold.                         *)
LEMMA BroughtIs ==
  ASSUME TablesInv, ContentInv, MapHabits = {}, NEW t \in Threads, step[t] = AtRest,
         NEW b \in Names, ~Busy(t, b), NEW range \in Ranges, Brings(b, range), Complete(b, range)
  PROVE  LET i == Of(stub_maps, b)
             s == Brought(b, range)
         IN  /\ b \in held /\ i \in Ids /\ stub_maps[i].buffer = b
             /\ s \in [Names -> Contents]
             /\ \A x \in Names : \A p \in Parts : s[x][p] \in {store[x][p], memory[x][p]}
             /\ \A p \in range : /\ p \in Parts /\ s[b][p] = memory[b][p]
                                 /\ copy[i][p] = memory[b][p] /\ copy[i][p] > left["store"]
  <1> DEFINE i == Of(stub_maps, b)
             s == Brought(b, range)
  <1>1. i # 0 /\ stub_maps[i].access \in {"write", "stream"} /\ range \subseteq stub_maps[i].range
    BY DEF Brings, Unsynchronized
  <1>2. b \in held /\ Settled(b)
    BY <1>1, AtHand, NotHeldOf
  <1>3. i \in Ids /\ stub_maps[i].buffer = b /\ maps[i] = stub_maps[i] /\ Of(maps, b) = i
    BY <1>2, HeldOf
  <1>4. range \subseteq Parts
    BY DEF Ranges
  <1> HIDE DEF i
  <1>5. \A p \in range : copy[i][p] # Unwritten
    BY <1>1 DEF Complete, Unsynchronized, i
  <1>6. \A p \in range : copy[i][p] = memory[b][p] /\ copy[i][p] > left["store"]
    BY <1>1, <1>2, <1>3, <1>4, <1>5 DEF ContentInv, CopyInv, Written
  <1>7. s = [store EXCEPT ![b] = Put(@, range, copy[i])]
    BY <1>1, <1>3 DEF Brought, i
  <1>8. /\ store \in [Names -> Contents] /\ copy[i] \in Contents
        /\ \A x \in Names : \A p \in Parts : store[x][p] \in Int /\ memory[x][p] \in Int
    BY <1>3, ContentsAre DEF ContentInv, ContentTypes
  <1>9. Put(store[b], range, copy[i]) \in Contents
    BY <1>8 DEF Put, Contents
  <1>10. /\ s \in [Names -> Contents] /\ s[b] = Put(store[b], range, copy[i])
         /\ \A x \in Names \ {b} : s[x] = store[x]
    BY <1>7, <1>8, <1>9
  <1> HIDE DEF s
  <1>11. \A p \in Parts : s[b][p] = IF p \in range THEN memory[b][p] ELSE store[b][p]
    BY <1>6, <1>10 DEF Put
  <1>12. \A x \in Names : \A p \in Parts : s[x][p] \in {store[x][p], memory[x][p]}
    BY <1>10, <1>11
  <1> QED
    BY <1>2, <1>3, <1>4, <1>6, <1>10, <1>11, <1>12 DEF i, s

(* What is not brought the driver has.                                     *)
LEMMA HadIs ==
  ASSUME TablesInv, ContentInv, MapHabits = {}, NEW t \in Threads, step[t] = AtRest,
         NEW b \in Names, NEW range \in Ranges, Readable(t, b, range), ~Brings(b, range)
  PROVE  \A p \in Parts : store[b][p] = memory[b][p]
  <1> DEFINE i == Of(stub_maps, b)
  <1>1. b \in live["buf"][0] /\ ~Busy(t, b) /\ Within(b, range)
    BY DEF Readable, InUse
  <1>2. StoreInv(b)
    BY <1>1 DEF ContentInv
  <1>3. CASE ~Settled(b)
    BY <1>2, <1>3 DEF StoreInv
  <1>4. CASE Settled(b)
    <2>1. /\ i # 0 /\ \A j \in Ids : stub_maps[j].buffer = b => j = i
      BY <1>4, HeldOf
    <2> HIDE DEF i
    <2>2. stub_maps[i].access = "explicit"
      BY <1>1, <1>4, <2>1 DEF Settled, Within, Brings, Unsynchronized, i
    <2> QED
      BY <1>2, <2>1, <2>2 DEF StoreInv, Written
  <1> QED
    BY <1>3, <1>4

(* ... as one of the steps below, with store, memory and left typed.       *)
LEMMA TypesStay ==
  ASSUME ContentTypes, UNCHANGED step,
         store' \in [Names -> Contents], memory' \in [Names -> Contents],
         copy' \in [Ids -> Contents], left' \in [Ops \cup EglOps \cup MapOps -> Nat],
         DOMAIN ubo' = Contexts, DOMAIN ranges' = Contexts,
         \A c \in Contexts : DOMAIN ranges'[c] = DOMAIN NoRange
  PROVE  ContentTypes'
  BY DEF ContentTypes, Contents, Unwritten

LEMMA DrawReads ==
  ASSUME GLInv, TablesInv, ContentInv, MapHabits = {}, Roomy, NEW t \in Threads,
         NEW vbos \in SUBSET Names, NEW range \in Ranges, Draw(t, vbos, range),
         UNCHANGED stateVars
  PROVE  ContentInv'
  <1> DEFINE brings == {b \in vbos : Brings(b, range)}
  <1>1. /\ step[t] = AtRest /\ left["draw"] > 0 /\ Used("draw")
        /\ \A b \in vbos : Readable(t, b, range)
        /\ Cardinality(brings) <= 1
        /\ IF brings = {} THEN store' = store ELSE \E b \in brings : store' = Brought(b, range)
        /\ misread' = (misread \/ \E b \in vbos : ~Right(b, range))
        /\ UNCHANGED <<stub_maps, copy, ranges, mapped, ubo, step, held, memory>>
    BY DEF Draw, Ready, tableVars
  <1>2. /\ left' \in [Ops \cup EglOps \cup MapOps -> Nat]
        /\ left["store"] \in Nat /\ left'["store"] = left["store"]
    <2>1. "draw" \in MapOps
      BY DEF MapOps
    <2> QED
      BY <1>1, <2>1, UsedIs DEF ContentInv
  <1>3. UNCHANGED live
    BY StateStays
  <1>4. ASSUME NEW b \in brings
        PROVE  /\ Brought(b, range) \in [Names -> Contents]
               /\ \A x \in Names : \A p \in Parts : Brought(b, range)[x][p] \in {store[x][p], memory[x][p]}
               /\ \A p \in range : Brought(b, range)[b][p] = memory[b][p]
    <2>1. b \in Names /\ Brings(b, range) /\ ~Busy(t, b) /\ Complete(b, range)
      BY <1>1 DEF Readable
    <2> QED
      BY <1>1, <2>1, BroughtIs
  <1>5. /\ store' \in [Names -> Contents]
        /\ \A x \in Names : \A p \in Parts : store'[x][p] \in {store[x][p], memory[x][p]}
    BY <1>1, <1>4 DEF ContentInv, ContentTypes
  <1>6. \A b \in brings : store' = Brought(b, range)
    <2>1. IsFiniteSet(brings)
      <3>1. brings \subseteq Names
        OBVIOUS
      <3> QED
        BY <3>1, FS_Subset DEF Roomy
    <2>2. ASSUME NEW b \in brings, NEW d \in brings PROVE b = d
      <3> HIDE DEF brings
      <3>1. Cardinality(brings) \in Nat /\ Cardinality(brings) # 0
        BY <2>1, FS_CardinalityType, FS_EmptySet
      <3>2. Cardinality(brings) = 1
        BY <1>1, <3>1
      <3> QED
        BY <2>1, <3>2, FS_Singleton
    <2> QED
      BY <1>1, <2>2
  <1>7. ASSUME NEW b \in vbos PROVE Right(b, range)
    <2>1. CASE b \in brings
      BY <1>4, <1>6, <2>1 DEF Right
    <2>2. CASE b \notin brings
      <3>1. b \in Names /\ Readable(t, b, range) /\ ~Brings(b, range)
        BY <1>1, <2>2
      <3>2. \A p \in Parts : store[b][p] = memory[b][p]
        BY <1>1, <3>1, HadIs
      <3> QED
        BY <1>5, <3>1, <3>2 DEF Right, Ranges
    <2> QED
      BY <2>1, <2>2
  <1> HIDE DEF brings
  <1>8. ~misread'
    BY <1>1, <1>7 DEF ContentInv
  <1>9. ContentTypes'
    BY <1>1, <1>2, <1>5, TypesStay DEF ContentInv, ContentTypes
  <1>10. /\ \A i \in Ids : CopyInv(i)'
         /\ \A b \in live'["buf"][0] : StoreInv(b)'
    BY <1>1, <1>2, <1>3, <1>5, FillKeeps
  <1>11. \A c \in Contexts : RangeInv(c)'
    <2>1. \A b \in Names : \A p \in Parts :
            \/ memory'[b][p] = memory[b][p] /\ store'[b][p] = store[b][p]
            \/ store'[b][p] = memory'[b][p]
      BY <1>1, <1>5
    <2> QED
      BY <1>1, <1>2, <2>1, RangesStay
  <1> QED
    BY <1>1, <1>3, <1>8, <1>9, <1>10, <1>11 DEF ContentInv

(* A buffer in use that no other thread deletes.                           *)
LEMMA StillKept ==
  ASSUME GLInv, NEW t \in Threads, phase[t] = "idle", NEW b \in live["buf"][0], ~Busy(t, b), NEW c
  PROVE  b \in Kept("buf", c)
  <1>1. ASSUME b \in Going("buf", 0)
        PROVE  FALSE
    <2>1. PICK u \in Threads : /\ phase[u] = "send" /\ Deletes(call[u]) /\ Kind(call[u]) = "buf"
                               /\ b = call[u].n
      BY <1>1, GoingIs
    <2>2. u # t /\ call[u].op \in Ops
      BY <2>1, HandType
    <2>3. call[u].op = "delBuf"
      BY <2>1, <2>2, KindIs DEF DelOps
    <2> QED
      BY <2>1, <2>2, <2>3 DEF Busy
  <1> QED
    BY <1>1 DEF Kept, Home, Shared

(* The range is bound as it is remembered, and the contents are there.     *)
LEMMA SetIs ==
  ASSUME GLInv, TablesInv, ContentInv, MapHabits = {}, NEW t \in Threads, step[t] = AtRest,
         NEW b \in Names, NEW range \in Ranges, Readable(t, b, range),
         NEW c \in Contexts, RangeIsSet(c, b, range)
  PROVE  /\ ubo[c] = Bind(b, range)
         /\ \A p \in range : store[b][p] = memory[b][p]
  <1> DEFINE i == Of(stub_maps, b)
  <1>1. RangeInv(c) /\ ranges[c].buffer = b /\ ranges[c].range = range /\ b # 0
    BY NamesAre DEF ContentInv, RangeIsSet, SameRange
  <1>2. ubo[c] = Bind(b, range)
    BY <1>1 DEF RangeInv
  <1>3. CASE ~Brings(b, range)
    <2>1. \A p \in Parts : store[b][p] = memory[b][p]
      BY <1>3, HadIs
    <2> QED
      BY <1>2, <2>1 DEF Ranges
  <1>4. CASE Brings(b, range)
    <2>1. ranges[c].hash = [p \in range |-> copy[i][p]]
      BY <1>4 DEF RangeIsSet, Hash, Brings
    <2>2. ~Busy(t, b) /\ Complete(b, range)
      BY DEF Readable
    <2>3. \A p \in range : copy[i][p] = memory[b][p]
      BY <1>4, <2>2, BroughtIs
    <2> HIDE DEF i
    <2>4. \A p \in range : memory[b][p] = ranges[c].hash[p] => store[b][p] = memory[b][p]
      BY <1>1, <2>1 DEF RangeInv
    <2> QED
      BY <1>2, <2>1, <2>3, <2>4
  <1> QED
    BY <1>3, <1>4

LEMMA BindRangeReads ==
  ASSUME GLInv, TablesInv, ContentInv, MapHabits = {}, NEW t \in Threads,
         NEW b \in Names, NEW range \in Ranges, BindRange(t, b, range), UNCHANGED stateVars
  PROVE  ContentInv'
  <1> DEFINE c == g_stub_current_ctx[t]
             i == Of(stub_maps, b)
  <1>1. /\ step[t] = AtRest /\ phase[t] = "idle" /\ left["bindRange"] > 0 /\ Used("bindRange")
        /\ Readable(t, b, range) /\ ~Busy(t, b) /\ b \in live["buf"][0] /\ Complete(b, range)
        /\ misread' = (misread \/ ubo'[c] # Bind(b, range) \/ ~Right(b, range))
        /\ UNCHANGED <<stub_maps, copy, mapped, step, held, memory>>
    BY DEF BindRange, Ready, tableVars, Readable, InUse
  <1>2. IF RangeIsSet(c, b, range) THEN UNCHANGED <<ranges, store, ubo>>
        ELSE /\ ranges' = IF SameRange(c, b, range) /\ ~Brings(b, range) THEN ranges
                 ELSE [ranges EXCEPT ![c] = [buffer |-> b, range |-> range,
                                             hash |-> Hash(b, range)]]
             /\ store' = IF g_active_stub_map_count > 0 /\ Brings(b, range)
                         THEN Brought(b, range) ELSE store
             /\ ubo' = [ubo EXCEPT ![c] = Bind(b, range)]
    BY DEF BindRange
  <1>3. c \in Contexts
    BY DEF BindRange, Ready, GLInv, TypesInv, TypeOK
  <1>4. /\ left' \in [Ops \cup EglOps \cup MapOps -> Nat]
        /\ left["store"] \in Nat /\ left'["store"] = left["store"]
    <2>1. "bindRange" \in MapOps
      BY DEF MapOps
    <2> QED
      BY <1>1, <2>1, UsedIs DEF ContentInv
  <1>5. UNCHANGED <<live, gen>>
    BY StateStays
  <1>6. ASSUME Brings(b, range)
        PROVE  /\ g_active_stub_map_count > 0
               /\ i \in Ids /\ Brought(b, range) \in [Names -> Contents]
               /\ \A x \in Names : \A p \in Parts : Brought(b, range)[x][p] \in {store[x][p], memory[x][p]}
               /\ \A p \in range : /\ p \in Parts /\ Brought(b, range)[b][p] = memory[b][p]
                                   /\ copy[i][p] = memory[b][p] /\ copy[i][p] > left["store"]
    <2>1. /\ i \in Ids /\ stub_maps[i].buffer = b /\ Brought(b, range) \in [Names -> Contents]
          /\ \A x \in Names : \A p \in Parts : Brought(b, range)[x][p] \in {store[x][p], memory[x][p]}
          /\ \A p \in range : /\ p \in Parts /\ Brought(b, range)[b][p] = memory[b][p]
                              /\ copy[i][p] = memory[b][p] /\ copy[i][p] > left["store"]
      BY <1>1, <1>6, BroughtIs
    <2> DEFINE O == Occupied(stub_maps)
    <2>2. O # {} /\ IsFiniteSet(O) /\ Cardinality(O) \in Nat
      BY <2>1, OccupiedAre, NamesAre DEF Occupied
    <2>3. g_active_stub_map_count \in Int /\ g_active_stub_map_count >= Cardinality(O)
      BY DEF TablesInv, MapTypes, AgreeInv
    <2> HIDE DEF O
    <2>4. Cardinality(O) # 0
      BY <2>2, FS_EmptySet
    <2> QED
      BY <2>1, <2>2, <2>3, <2>4
  <1>7. /\ store' \in [Names -> Contents]
        /\ \A x \in Names : \A p \in Parts : store'[x][p] \in {store[x][p], memory[x][p]}
    BY <1>2, <1>6 DEF ContentInv, ContentTypes
  <1>8. ubo'[c] = Bind(b, range) /\ \A p \in range : p \in Parts /\ store'[b][p] = memory[b][p]
    <2>1. range \subseteq Parts
      BY DEF Ranges
    <2>2. CASE RangeIsSet(c, b, range)
      BY <1>1, <1>2, <1>3, <2>1, <2>2, SetIs
    <2>3. CASE ~RangeIsSet(c, b, range)
      <3>1. ubo'[c] = Bind(b, range)
        BY <1>2, <1>3, <2>3 DEF ContentInv, ContentTypes
      <3>2. CASE Brings(b, range)
        BY <1>2, <1>6, <2>1, <2>3, <3>1, <3>2
      <3>3. CASE ~Brings(b, range)
        <4>1. \A p \in Parts : store[b][p] = memory[b][p]
          BY <1>1, <3>3, HadIs
        <4> QED
          BY <1>2, <2>1, <2>3, <3>1, <3>3, <4>1
      <3> QED
        BY <3>2, <3>3
    <2> QED
      BY <2>2, <2>3
  <1>9. ~misread'
    BY <1>1, <1>8 DEF ContentInv, Right, Bind
  <1>10. /\ \A j \in Ids : CopyInv(j)'
         /\ \A x \in live'["buf"][0] : StoreInv(x)'
    BY <1>1, <1>4, <1>5, <1>7, FillKeeps
  <1>11. /\ DOMAIN ubo' = Contexts /\ DOMAIN ranges' = Contexts
         /\ \A d \in Contexts \ {c} : ranges'[d] = ranges[d] /\ ubo'[d] = ubo[d]
         /\ \/ ranges'[c] = ranges[c]
            \/ ranges'[c] = [buffer |-> b, range |-> range, hash |-> Hash(b, range)]
         /\ ranges'[c] = ranges[c] /\ ranges'[c].buffer # 0 => ubo'[c] = ubo[c]
    <2>1. DOMAIN ubo = Contexts /\ DOMAIN ranges = Contexts
      BY DEF ContentInv, ContentTypes
    <2>2. CASE RangeIsSet(c, b, range)
      BY <1>2, <2>1, <2>2
    <2>3. CASE ~RangeIsSet(c, b, range) /\ SameRange(c, b, range) /\ ~Brings(b, range)
      <3>1. ranges' = ranges /\ ubo' = [ubo EXCEPT ![c] = Bind(b, range)]
        BY <1>2, <2>3
      <3>2. ranges[c].buffer # 0 => ubo[c] = Bind(b, range)
        BY <1>3, <2>3 DEF SameRange, ContentInv, RangeInv
      <3> QED
        BY <1>8, <2>1, <3>1, <3>2
    <2>4. CASE ~RangeIsSet(c, b, range) /\ ~(SameRange(c, b, range) /\ ~Brings(b, range))
      <3> DEFINE r == [buffer |-> b, range |-> range, hash |-> Hash(b, range)]
      <3>1. ranges' = [ranges EXCEPT ![c] = r] /\ ubo' = [ubo EXCEPT ![c] = Bind(b, range)]
        BY <1>2, <2>4
      <3>2. ranges'[c] = r
        BY <1>3, <2>1, <3>1
      <3>3. ranges'[c] = ranges[c] /\ ranges'[c].buffer # 0 => ubo'[c] = ubo[c]
        <4>1. r.buffer = b /\ r.range = range
          OBVIOUS
        <4>2. ranges[c].buffer # 0 => ubo[c] = Bind(ranges[c].buffer, ranges[c].range)
          BY <1>3 DEF ContentInv, RangeInv
        <4> HIDE DEF r
        <4> QED
          BY <1>8, <3>2, <4>1, <4>2
      <3> QED
        BY <2>1, <3>1, <3>2, <3>3
    <2> QED
      BY <2>2, <2>3, <2>4
  <1> HIDE DEF c, i
  <1>12. \A d \in Contexts : DOMAIN ranges'[d] = DOMAIN NoRange
    <2>1. DOMAIN [buffer |-> b, range |-> range, hash |-> Hash(b, range)] = DOMAIN NoRange
      BY DEF NoRange
    <2> QED
      BY <1>11, <2>1 DEF ContentInv, ContentTypes
  <1>13. ContentTypes'
    <2>1. UNCHANGED step /\ memory' \in [Names -> Contents] /\ copy' \in [Ids -> Contents]
      BY <1>1 DEF ContentInv, ContentTypes
    <2> QED
      BY <1>4, <1>7, <1>11, <1>12, <2>1, TypesStay DEF ContentInv
  <1>14. ASSUME NEW d \in Contexts, d # c \/ ranges'[c] = ranges[c]
         PROVE  RangeInv(d)'
    <2> DEFINE x == ranges[d].buffer
    <2>1. RangeInv(d) /\ ranges'[d] = ranges[d] /\ (x # 0 => ubo'[d] = ubo[d])
      BY <1>11, <1>14 DEF ContentInv
    <2>2. x \in Kept("buf", d)' /\ x \in Name0
      BY <2>1, StateStays, BuffersAre DEF RangeInv
    <2>3. x # 0 => \A p \in Parts : \/ memory'[x][p] = memory[x][p] /\ store'[x][p] = store[x][p]
                                   \/ store'[x][p] = memory'[x][p]
      BY <1>1, <1>7, <2>2 DEF Name0
    <2>4. x = ranges'[d].buffer
      BY <2>1
    <2> HIDE DEF x
    <2> QED
      BY <1>4, <1>5, <2>1, <2>2, <2>3, <2>4, RangeStays DEF x
  <1>15. ASSUME NEW d \in Contexts, d = c,
                ranges'[d] = [buffer |-> b, range |-> range, hash |-> Hash(b, range)]
         PROVE  RangeInv(d)'
    <2> DEFINE h == Hash(b, range)
    <2>1. ranges'[d].buffer = b /\ ranges'[d].range = range /\ ranges'[d].hash = h
      BY <1>15
    <2>2. b \in Kept("buf", d)'
      BY <1>1, StillKept, StateStays
    <2>3. \A p \in DOMAIN h : /\ p \in Parts /\ h[p] \in Int /\ h[p] > left'["store"]
                             /\ store'[b][p] = memory'[b][p]
      <3>1. CASE Brings(b, range)
        <4>1. h = [p \in range |-> copy[i][p]]
          BY <3>1 DEF Hash, i
        <4>2. \A p \in Parts : copy[i][p] \in Int
          BY <1>6, <3>1, ContentsAre DEF ContentInv
        <4> HIDE DEF h
        <4> QED
          BY <1>1, <1>4, <1>6, <1>8, <3>1, <4>1, <4>2
      <3>2. CASE ~Brings(b, range)
        <4>1. DOMAIN h = {}
          BY <3>2 DEF Hash, NoHash
        <4> QED
          BY <4>1
      <3> QED
        BY <3>1, <3>2
    <2>4. ubo'[d] = Bind(b, range)'
      BY <1>5, <1>8, <1>15 DEF Bind
    <2> HIDE DEF h
    <2> QED
      BY <2>1, <2>2, <2>3, <2>4 DEF RangeInv, Bind
  <1>16. \A d \in Contexts : RangeInv(d)'
    BY <1>11, <1>14, <1>15
  <1> QED
    BY <1>1, <1>5, <1>9, <1>10, <1>13, <1>16 DEF ContentInv

-----------------------------------------------------------------------------
(* Mappings *)

LEMMA BoundIs ==
  ASSUME GLInv, NEW t \in Threads, g_stub_current_ctx[t] # 0, Bound(t) # 0
  PROVE  Bound(t) \in live["buf"][0] /\ Bound(t) \in Names
  <1>1. g_stub_current_ctx[t] \in made
    BY DEF GLInv, ThreadInv
  <1>2. Bound(t) \in Kept("buf", g_stub_current_ctx[t])
    BY <1>1 DEF Bound, GLInv, NamesInv
  <1> QED
    BY <1>2, BuffersAre

(* glMapBufferRange(): the buffer holds what it should, or it was given    *)
(* new storage.                                                            *)
LEMMA SendMapReads ==
  ASSUME GLInv, TablesInv, ContentInv, Roomy, NEW t \in Threads,
         NEW range \in Ranges, NEW access \in Accesses, SendMap(t, range, access),
         UNCHANGED stateVars
  PROVE  ContentInv'
  <1> DEFINE b == Bound(t)
             stale == {i \in Ids : maps[i].buffer = b}
             free  == {i \in Ids : maps[i].buffer = 0} \cup stale
             e     == Entry(b, range, access)
             data  == IF access = "read" THEN store[b] ELSE [p \in Parts |-> Unwritten]
  <1>1. /\ step[t] = AtRest /\ left[access] > 0 /\ Used(access) /\ b # 0 /\ ~Busy(t, b)
        /\ b \in held => Clean(b)
        /\ mapped' = mapped \cup {b}
        /\ UNCHANGED <<stub_maps, copy, ranges, store, ubo, held, memory, misread>>
    BY DEF SendMap, Ready, tableVars, programVars
  <1>2. b \in live["buf"][0] /\ b \in Names
    BY <1>1, BoundIs DEF SendMap, Ready
  <1>3. \/ UNCHANGED step
        \/ step' = [step EXCEPT ![t] = Step("mapped", Min(free), e, data)]
    BY DEF SendMap
  <1>4. /\ left' \in [Ops \cup EglOps \cup MapOps -> Nat]
        /\ left["store"] \in Nat /\ left'["store"] = left["store"]
    <2>1. access \in MapOps /\ access # "store"
      BY DEF MapOps, Accesses
    <2> QED
      BY <1>1, <2>1, UsedIs DEF ContentInv
  <1>5. UNCHANGED live
    BY StateStays
  <1>6. b \notin Unreturned /\ (Settled(b) <=> b \in held)
    BY <1>1, <1>2, AtHand
  <1>7. \A p \in Parts : store[b][p] = memory[b][p]
    BY <1>1, <1>2, <1>6 DEF Clean, ContentInv, StoreInv
  <1>8. /\ e.buffer = b /\ e.access = access
        /\ data \in Contents
        /\ access \in {"write", "stream"} => data = [p \in Parts |-> Unwritten]
    BY <1>2, ContentsAre DEF Entry, ContentInv
  <1> HIDE DEF b, stale, free, e, data
  <1>9. /\ \A u \in Threads : \/ step'[u] = step[u]
                              \/ u = t /\ step'[u].entry = e /\ step'[u].data = data
        /\ step[t].entry.buffer = 0
    <2>1. step[t].entry.buffer = 0 /\ DOMAIN step = Threads
      BY <1>1, EntriesAre DEF TablesInv, MapTypes
    <2> DEFINE s == Step("mapped", Min(free), e, data)
    <2>2. s.entry = e /\ s.data = data
      BY DEF Step
    <2>3. UNCHANGED step \/ step' = [step EXCEPT ![t] = s]
      BY <1>3
    <2> HIDE DEF s
    <2> QED
      BY <2>1, <2>2, <2>3
  <1>10. /\ \A x : Settled(x)' => Settled(x)
         /\ \A x : Settled(x) /\ x # b => Settled(x)'
    BY <1>1, <1>8, <1>9 DEF Settled, Unreturned
  <1>11. ContentTypes'
    <2>1. \A u \in Threads : step'[u].at = "mapped" =>
            /\ step'[u].data \in Contents
            /\ step'[u].entry.access \in {"write", "stream"} =>
                 step'[u].data = [p \in Parts |-> Unwritten]
      <3> SUFFICES ASSUME NEW u \in Threads, step'[u].at = "mapped"
                   PROVE  /\ step'[u].data \in Contents
                          /\ step'[u].entry.access \in {"write", "stream"} =>
                               step'[u].data = [p \in Parts |-> Unwritten]
        OBVIOUS
      <3>1. CASE step'[u] = step[u]
        <4>1. step[u].at = "mapped" =>
                /\ step[u].data \in Contents
                /\ step[u].entry.access \in {"write", "stream"} =>
                     step[u].data = [p \in Parts |-> Unwritten]
          BY DEF ContentInv, ContentTypes
        <4> QED
          BY <3>1, <4>1
      <3>2. CASE step'[u].entry = e /\ step'[u].data = data
        BY <1>8, <3>2
      <3> QED
        BY <1>9, <3>1, <3>2
    <2>2. /\ UNCHANGED <<copy, ranges, store, ubo, memory>>
      BY <1>1
    <2> QED
      BY <1>4, <2>1, <2>2 DEF ContentInv, ContentTypes
  <1>12. ASSUME NEW i \in Ids PROVE CopyInv(i)'
    <2>1. /\ CopyInv(i) /\ stub_maps'[i].buffer = stub_maps[i].buffer
          /\ \A p \in Parts : copy[i][p] \in Int
      BY <1>1, ContentsAre DEF ContentInv
    <2> QED
      BY <1>1, <1>4, <1>10, <2>1, CopyStays
  <1>13. ASSUME NEW x \in live'["buf"][0] PROVE StoreInv(x)'
    <2>1. CASE x = b
      BY <1>1, <1>7, <2>1 DEF StoreInv
    <2>2. CASE x # b
      <3>1. StoreInv(x)
        BY <1>5 DEF ContentInv
      <3> QED
        BY <1>1, <1>10, <2>2, <3>1, StoreStays
    <2> QED
      BY <2>1, <2>2
  <1>14. \A c \in Contexts : RangeInv(c)'
    BY <1>1, <1>4, RangesStay
  <1>15. mapped' \subseteq live'["buf"][0] /\ ~misread'
    BY <1>1, <1>2, <1>5 DEF ContentInv
  <1> QED
    BY <1>11, <1>12, <1>13, <1>14, <1>15 DEF ContentInv

LEMMA KeepMapReads ==
  ASSUME GLInv, TablesInv, ContentInv, NEW t \in Threads, KeepMap(t), UNCHANGED stateVars
  PROVE  ContentInv'
  <1> DEFINE n == step[t].id
             e == step[t].entry
             b == e.buffer
             old == {i \in Ids : stub_maps[i].buffer # 0 /\ (stub_maps[i].buffer = b \/ i = n)}
  <1>1. /\ step[t].at = "mapped"
        /\ stub_maps' = [i \in Ids |-> IF i = n THEN e
                                       ELSE IF i \in old THEN NoEntry ELSE stub_maps[i]]
        /\ copy' = [copy EXCEPT ![n] = step[t].data]
        /\ held' = held \cup {b} /\ step' = [step EXCEPT ![t] = AtRest]
        /\ UNCHANGED <<maps, mapped, left, ranges, store, ubo, memory, misread>>
    BY DEF KeepMap, contentVars
  <1>2. /\ n \in Ids /\ maps[n] = e /\ b # 0
        /\ \A u \in Threads \ {t} : step[u].entry.buffer # b
    BY <1>1 DEF TablesInv, StepInv
  <1>3. /\ stub_maps'[n] = e
        /\ \A i \in Ids \ {n} : stub_maps'[i] = IF stub_maps[i].buffer = b THEN NoEntry
                                                                           ELSE stub_maps[i]
    <2>1. \A i \in Ids \ {n} : i \in old <=> stub_maps[i].buffer = b
      BY <1>2
    <2> QED
      BY <1>1, <1>2, <2>1
  <1>4. /\ step'[t] = AtRest /\ \A u \in Threads \ {t} : step'[u] = step[u]
    BY <1>1 DEF TablesInv, MapTypes
  <1>5. /\ copy'[n] = step[t].data /\ \A i \in Ids \ {n} : copy'[i] = copy[i]
        /\ step[t].data \in Contents /\ copy' \in [Ids -> Contents]
        /\ e.access \in {"write", "stream"} => step[t].data = [p \in Parts |-> Unwritten]
    BY <1>1, <1>2 DEF ContentInv, ContentTypes
  <1>6. UNCHANGED live
    BY StateStays
  <1>7. left["store"] \in Nat /\ left' = left
    BY <1>1, ContentsAre DEF ContentInv
  <1> HIDE DEF n, old
  <1>8. b \in Unreturned
    BY DEF Unreturned
  <1>9. \A x : x # b => (Settled(x)' <=> Settled(x))
    <2>1. \A x : x # b => (x \in Unreturned' <=> x \in Unreturned)
      BY <1>4, EntriesAre DEF Unreturned
    <2> QED
      BY <1>1, <2>1 DEF Settled
  <1>10. ~Settled(b)
    BY <1>8 DEF Settled
  <1>11. ~Settled(stub_maps[n].buffer)
    <2>1. stub_maps[n].buffer = b \/ stub_maps[n].buffer \in Unreturned
      BY <1>2 DEF TablesInv, AgreeInv, Same
    <2> QED
      BY <1>8, <2>1 DEF Settled
  <1> HIDE DEF e, b
  <1>12. ContentTypes'
    <2>1. \A u \in Threads : step'[u].at = "mapped" => step'[u] = step[u] /\ step[u].at = "mapped"
      BY <1>4, EntriesAre
    <2>2. UNCHANGED <<left, ranges, store, ubo, memory>>
      BY <1>1
    <2> QED
      BY <1>5, <2>1, <2>2 DEF ContentInv, ContentTypes, Contents, Unwritten
  <1>13. ASSUME NEW i \in Ids PROVE CopyInv(i)'
    <2>1. CASE i = n
      <3>1. stub_maps'[i] = e /\ copy'[i] = step[t].data
        BY <1>3, <1>5, <2>1
      <3>2. \A p \in Parts : ~Written(i, p)'
        BY <1>5, <3>1 DEF Written
      <3> QED
        BY <3>2 DEF CopyInv
    <2>2. CASE i # n /\ stub_maps[i].buffer = b
      <3>1. stub_maps'[i] = NoEntry
        BY <1>3, <2>2
      <3> QED
        BY <3>1, EntriesAre DEF CopyInv, Settled, Unreturned
    <2>3. CASE i # n /\ stub_maps[i].buffer # b
      <3>1. stub_maps'[i] = stub_maps[i] /\ copy'[i] = copy[i] /\ CopyInv(i)
            /\ \A p \in Parts : copy[i][p] \in Int
        BY <1>3, <1>5, <2>3, ContentsAre DEF ContentInv
      <3> QED
        BY <1>1, <1>7, <1>9, <2>3, <3>1, CopyStays
    <2> QED
      BY <2>1, <2>2, <2>3
  <1>14. ASSUME NEW x \in live'["buf"][0] PROVE StoreInv(x)'
    <2>1. StoreInv(x)
      BY <1>6 DEF ContentInv
    <2>2. CASE ~Settled(x)
      BY <1>1, <2>1, <2>2 DEF StoreInv
    <2>3. CASE Settled(x)
      <3>1. x # b
        BY <1>10, <2>3
      <3>2. \A i \in Ids : stub_maps[i].buffer = x => i # n
        BY <1>11, <2>3
      <3>3. \A i \in Ids : stub_maps[i].buffer = x =>
              stub_maps'[i] = stub_maps[i] /\ copy'[i] = copy[i]
        BY <1>3, <1>5, <3>1, <3>2
      <3> QED
        BY <1>1, <1>9, <2>1, <2>3, <3>1, <3>3, StoreStays
    <2> QED
      BY <2>2, <2>3
  <1>15. \A c \in Contexts : RangeInv(c)'
    BY <1>1, <1>7, RangesStay
  <1>16. mapped' \subseteq live'["buf"][0] /\ ~misread'
    BY <1>1, <1>6 DEF ContentInv
  <1> QED
    BY <1>12, <1>13, <1>14, <1>15, <1>16 DEF ContentInv

(* The program writes to a copy: each time something new.                  *)
LEMMA WriteReads ==
  ASSUME GLInv, TablesInv, ContentInv, MapHabits = {}, NEW t \in Threads, NEW b \in Names,
         NEW p \in Parts, NEW v \in 1 .. left["store"], Write(t, b, p, v), UNCHANGED stateVars
  PROVE  ContentInv'
  <1>1. /\ step[t] = AtRest /\ left["store"] > 0 /\ Used("store") /\ b \in held /\ ~Busy(t, b)
        /\ v = left["store"]
        /\ UNCHANGED <<stub_maps, mapped, ranges, store, ubo, step, held, misread>>
    BY DEF Write, Ready, contentVars
  <1>2. Settled(b)
    BY <1>1, AtHand
  <1>3. PICK i \in Ids : /\ i = Of(stub_maps, b) /\ stub_maps[i].buffer = b /\ b # 0
                         /\ \A j \in Ids : stub_maps[j].buffer = b => j = i
    BY <1>2, HeldOf
  <1> DEFINE a == stub_maps[i].access
  <1>4. /\ a # "read" /\ p \in stub_maps[i].range
        /\ copy' = [copy EXCEPT ![i][p] = v]
        /\ memory' = IF a = "explicit" THEN memory ELSE [memory EXCEPT ![b][p] = v]
    BY <1>3 DEF Write
  <1>5. /\ left' \in [Ops \cup EglOps \cup MapOps -> Nat]
        /\ left["store"] \in Nat /\ left'["store"] \in Nat
        /\ left'["store"] < v /\ left'["store"] <= left["store"] /\ v \in Int /\ v # Unwritten
    <2>1. "store" \in MapOps
      BY DEF MapOps
    <2>2. /\ left' \in [Ops \cup EglOps \cup MapOps -> Nat]
          /\ left["store"] \in Nat /\ left'["store"] \in Nat
          /\ left'["store"] = left["store"] - 1
      BY <1>1, <2>1, UsedIs DEF ContentInv
    <2> QED
      BY <1>1, <2>2 DEF Unwritten
  <1>6. UNCHANGED live
    BY StateStays
  <1>7. a \in {"write", "stream"} \/ a = "explicit"
    BY <1>4 DEF TablesInv, MapTypes, MapType, Accesses
  <1>8. ContentTypes /\ copy \in [Ids -> Contents] /\ memory \in [Names -> Contents]
    BY DEF ContentInv, ContentTypes
  <1>9. /\ copy' \in [Ids -> Contents] /\ copy'[i][p] = v
        /\ \A q \in Parts \ {p} : copy'[i][q] = copy[i][q]
        /\ \A j \in Ids \ {i} : copy'[j] = copy[j]
    BY <1>4, <1>5, <1>8 DEF Contents
  <1>10. /\ memory' \in [Names -> Contents] /\ memory'[b][p] \in {memory[b][p], v}
         /\ a # "explicit" => memory'[b][p] = v
         /\ a = "explicit" => memory' = memory
         /\ \A q \in Parts \ {p} : memory'[b][q] = memory[b][q]
         /\ \A x \in Names \ {b} : memory'[x] = memory[x]
    BY <1>4, <1>5, <1>8 DEF Contents
  <1>11. \A x : Settled(x)' <=> Settled(x)
    BY <1>1 DEF Settled, Unreturned
  <1>12. ContentTypes'
    BY <1>1, <1>5, <1>8, <1>9, <1>10, TypesStay DEF ContentTypes
  <1>13. ASSUME NEW j \in Ids PROVE CopyInv(j)'
    <2>1. CopyInv(j) /\ \A q \in Parts : copy[j][q] \in Int
      BY ContentsAre DEF ContentInv
    <2>2. CASE j # i
      <3>1. stub_maps[j].buffer # b /\ stub_maps[j].buffer \in Name0
        BY <1>3, <2>2 DEF TablesInv, MapTypes, MapType
      <3>2. Settled(stub_maps[j].buffer) => memory'[stub_maps[j].buffer] = memory[stub_maps[j].buffer]
        BY <1>10, <3>1, HeldOf
      <3> QED
        BY <1>1, <1>5, <1>9, <1>11, <2>1, <2>2, <3>2, CopyStays
    <2>3. CASE j = i
      <3> SUFFICES ASSUME NEW q \in Parts, Written(i, q)'
                   PROVE  copy'[i][q] = memory'[b][q] /\ copy'[i][q] > left'["store"]
        BY <1>1, <1>3, <2>3 DEF CopyInv
      <3>1. a # "explicit"
        BY <1>1 DEF Written
      <3>2. CASE q = p
        BY <1>5, <1>9, <1>10, <3>1, <3>2
      <3>3. CASE q # p
        <4>1. Written(i, q)
          BY <1>1, <1>9, <3>3 DEF Written
        <4>2. copy[i][q] = memory[b][q] /\ copy[i][q] > left["store"] /\ copy[i][q] \in Int
          BY <1>2, <1>3, <2>1, <2>3, <4>1 DEF CopyInv
        <4> QED
          BY <1>5, <1>9, <1>10, <3>3, <4>2
      <3> QED
        BY <3>2, <3>3
    <2> QED
      BY <2>2, <2>3
  <1>14. ASSUME NEW x \in live'["buf"][0] PROVE StoreInv(x)'
    <2>1. StoreInv(x) /\ x \in Names
      BY <1>6, BuffersAre DEF ContentInv
    <2>2. CASE x # b
      <3>1. \A j \in Ids : stub_maps[j].buffer = x => j # i
        BY <1>3, <2>2
      <3> QED
        BY <1>1, <1>9, <1>10, <1>11, <2>1, <2>2, <3>1, StoreStays
    <2>3. CASE x = b
      <3> SUFFICES ASSUME NEW q \in Parts
                   PROVE  store'[b][q] = memory'[b][q] \/ Written(i, q)'
        BY <1>1, <1>2, <1>3, <1>11, <2>3 DEF StoreInv
      <3>1. store[b][q] = memory[b][q] \/ Written(i, q)
        BY <1>3, <2>1, <2>3 DEF StoreInv
      <3>2. Written(i, q) => Written(i, q)'
        BY <1>1, <1>4, <1>5, <1>9 DEF Written
      <3>3. q = p /\ a # "explicit" => Written(i, q)'
        BY <1>1, <1>4, <1>5, <1>7, <1>9 DEF Written
      <3> QED
        BY <1>1, <1>10, <3>1, <3>2, <3>3
    <2> QED
      BY <2>2, <2>3
  <1>15. \A c \in Contexts : RangeInv(c)'
    <2>1. \A x \in Names : \A q \in Parts :
            \/ memory'[x][q] = memory[x][q] /\ store'[x][q] = store[x][q]
            \/ memory'[x][q] = left["store"]
      BY <1>1, <1>10
    <2> QED
      BY <1>1, <1>5, <2>1, RangesStay
  <1>16. mapped' \subseteq live'["buf"][0] /\ ~misread'
    BY <1>1, <1>6 DEF ContentInv
  <1> QED
    BY <1>12, <1>13, <1>14, <1>15, <1>16 DEF ContentInv

(* glFlushMappedBufferRange(): what the program gives up to be read.       *)
LEMMA FlushReads ==
  ASSUME GLInv, TablesInv, ContentInv, NEW t \in Threads, NEW range \in Ranges,
         Flush(t, range), UNCHANGED stateVars
  PROVE  ContentInv'
  <1> DEFINE b == Bound(t)
  <1>1. /\ step[t] = AtRest /\ left["flush"] > 0 /\ Used("flush") /\ b \in held /\ ~Busy(t, b)
        /\ UNCHANGED <<stub_maps, copy, maps, mapped, ranges, ubo, step, held, misread>>
    BY DEF Flush, Ready, tableVars
  <1>2. b \in Names /\ Settled(b)
    BY <1>1, AtHand DEF TablesInv, MapTypes
  <1>3. PICK i \in Ids : /\ i = Of(stub_maps, b) /\ stub_maps[i].buffer = b /\ b # 0
                         /\ maps[i] = stub_maps[i]
                         /\ \A j \in Ids : stub_maps[j].buffer = b => j = i
    BY <1>2, HeldOf
  <1>4. /\ stub_maps[i].access = "explicit"
        /\ store' = [store EXCEPT ![b] = Put(@, range, copy[i])]
        /\ memory' = [memory EXCEPT ![b] = Put(@, range, copy[i])]
    BY <1>3, EntriesAre DEF Flush
  <1>5. /\ left' \in [Ops \cup EglOps \cup MapOps -> Nat]
        /\ left["store"] \in Nat /\ left'["store"] = left["store"]
    <2>1. "flush" \in MapOps
      BY DEF MapOps
    <2> QED
      BY <1>1, <2>1, UsedIs DEF ContentInv
  <1>6. UNCHANGED live
    BY StateStays
  <1>7. /\ ContentTypes /\ copy \in [Ids -> Contents] /\ copy[i] \in Contents
        /\ store \in [Names -> Contents] /\ memory \in [Names -> Contents]
    BY DEF ContentInv, ContentTypes
  <1> HIDE DEF b
  <1>8. \A f \in Contents : /\ Put(f, range, copy[i]) \in Contents
                            /\ \A q \in Parts : Put(f, range, copy[i])[q] =
                                                  IF q \in range THEN copy[i][q] ELSE f[q]
    BY <1>7 DEF Put, Contents
  <1>9. /\ store' \in [Names -> Contents] /\ memory' \in [Names -> Contents]
        /\ store'[b] = Put(store[b], range, copy[i])
        /\ memory'[b] = Put(memory[b], range, copy[i])
        /\ \A x \in Names \ {b} : store'[x] = store[x] /\ memory'[x] = memory[x]
    BY <1>2, <1>4, <1>7, <1>8
  <1>10. \A q \in Parts : \/ store'[b][q] = memory'[b][q]
                          \/ store'[b][q] = store[b][q] /\ memory'[b][q] = memory[b][q]
    BY <1>2, <1>7, <1>8, <1>9
  <1>11. \A x : Settled(x)' <=> Settled(x)
    BY <1>1 DEF Settled, Unreturned
  <1>12. ContentTypes'
    BY <1>1, <1>5, <1>7, <1>9, TypesStay DEF ContentTypes
  <1>13. ASSUME NEW j \in Ids PROVE CopyInv(j)'
    <2>1. CASE j = i
      BY <1>1, <1>4, <2>1 DEF CopyInv, Written
    <2>2. CASE j # i
      <3>1. CopyInv(j) /\ \A q \in Parts : copy[j][q] \in Int
        BY ContentsAre DEF ContentInv
      <3>2. stub_maps[j].buffer # b
        BY <1>3, <2>2
      <3>3. Settled(stub_maps[j].buffer) => memory'[stub_maps[j].buffer] = memory[stub_maps[j].buffer]
        BY <1>9, <3>2, HeldOf
      <3> QED
        BY <1>1, <1>5, <1>11, <3>1, <3>3, CopyStays
    <2> QED
      BY <2>1, <2>2
  <1>14. ASSUME NEW x \in live'["buf"][0] PROVE StoreInv(x)'
    <2>1. StoreInv(x) /\ x \in Names
      BY <1>6, BuffersAre DEF ContentInv
    <2>2. CASE x # b
      BY <1>1, <1>9, <1>11, <2>1, <2>2, StoreStays
    <2>3. CASE x = b
      <3>1. \A q \in Parts : store[b][q] = memory[b][q]
        BY <1>3, <1>4, <2>1, <2>3 DEF StoreInv, Written
      <3> QED
        BY <1>10, <2>3, <3>1 DEF StoreInv
    <2> QED
      BY <2>2, <2>3
  <1>15. \A c \in Contexts : RangeInv(c)'
    <2>1. \A x \in Names : \A q \in Parts :
            \/ memory'[x][q] = memory[x][q] /\ store'[x][q] = store[x][q]
            \/ store'[x][q] = memory'[x][q]
      BY <1>9, <1>10
    <2> QED
      BY <1>1, <1>5, <2>1, RangesStay
  <1>16. mapped' \subseteq live'["buf"][0] /\ ~misread'
    BY <1>1, <1>6 DEF ContentInv
  <1> QED
    BY <1>12, <1>13, <1>14, <1>15, <1>16 DEF ContentInv

(* glUnmapBuffer(): the driver gets all that was written.                  *)
LEMMA SendUnmapReads ==
  ASSUME GLInv, TablesInv, ContentInv, MapHabits = {}, NEW t \in Threads, SendUnmap(t),
         UNCHANGED stateVars
  PROVE  ContentInv'
  <1> DEFINE b == Bound(t)
  <1>1. /\ step[t] = AtRest /\ left["unmap"] > 0 /\ Used("unmap") /\ b \in held /\ ~Busy(t, b)
        /\ held' = held \ {b}
        /\ UNCHANGED <<stub_maps, copy, ranges, ubo, memory, misread>>
    BY DEF SendUnmap, Ready, tableVars
  <1>2. b \in Names /\ Settled(b) /\ b \in live["buf"][0]
    BY <1>1, AtHand DEF TablesInv, MapTypes, AgreeInv, ContentInv
  <1>3. PICK i \in Ids : /\ i = Of(stub_maps, b) /\ i # 0 /\ stub_maps[i].buffer = b /\ b # 0
                         /\ maps[i] = stub_maps[i]
                         /\ \A j \in Ids : stub_maps[j].buffer = b => j = i
    BY <1>2, HeldOf
  <1> DEFINE e == stub_maps[i]
             s == Step("unmapped", i, e, Blank)
  <1>4. /\ Complete(b, e.range) /\ mapped' = mapped \ {b}
        /\ store' = IF e.access \in {"write", "stream"}
                    THEN [store EXCEPT ![b] = Put(@, e.range, copy[i])] ELSE store
        /\ step' = [step EXCEPT ![t] = s]
    BY <1>3 DEF SendUnmap, SentAtUnmap
  <1>5. /\ left' \in [Ops \cup EglOps \cup MapOps -> Nat]
        /\ left["store"] \in Nat /\ left'["store"] = left["store"]
    <2>1. "unmap" \in MapOps
      BY DEF MapOps
    <2> QED
      BY <1>1, <2>1, UsedIs DEF ContentInv
  <1>6. UNCHANGED live
    BY StateStays
  <1>7. /\ ContentTypes /\ copy[i] \in Contents
        /\ store \in [Names -> Contents] /\ memory \in [Names -> Contents]
    BY DEF ContentInv, ContentTypes
  <1>8. s.at = "unmapped" /\ s.entry.buffer = b
    BY <1>3 DEF Step
  <1> HIDE DEF b, s
  <1>9. step'[t] = s /\ \A u \in Threads \ {t} : step'[u] = step[u]
    BY <1>4 DEF TablesInv, MapTypes
  <1>10. \A q \in Parts : Written(i, q) => copy[i][q] = memory[b][q]
    BY <1>2, <1>3 DEF ContentInv, CopyInv
  <1>11. \A q \in e.range \cap Parts : e.access \in {"write", "stream"} => Written(i, q)
    BY <1>3, <1>4 DEF Complete, Unsynchronized, Written
  <1>12. StoreInv(b)
    BY <1>2 DEF ContentInv
  <1>13. /\ store' \in [Names -> Contents]
         /\ \A x \in Names \ {b} : store'[x] = store[x]
         /\ \A q \in Parts : store'[b][q] = memory[b][q]
    <2>1. \A q \in Parts : store[b][q] = memory[b][q] \/ Written(i, q)
      BY <1>3, <1>12 DEF StoreInv
    <2>2. CASE e.access \in {"write", "stream"}
      <3>1. Put(store[b], e.range, copy[i]) \in Contents
        BY <1>2, <1>7 DEF Put, Contents
      <3>2. \A q \in Parts : Put(store[b], e.range, copy[i])[q] =
                               IF q \in e.range THEN copy[i][q] ELSE store[b][q]
        BY DEF Put
      <3>3. /\ store' \in [Names -> Contents] /\ store'[b] = Put(store[b], e.range, copy[i])
            /\ \A x \in Names \ {b} : store'[x] = store[x]
        BY <1>2, <1>4, <1>7, <2>2, <3>1
      <3>4. \A q \in Parts : Written(i, q) => q \in e.range
        BY DEF Written
      <3> QED
        BY <1>10, <1>11, <2>1, <2>2, <3>2, <3>3, <3>4
    <2>3. CASE e.access \notin {"write", "stream"}
      <3>1. store' = store /\ \A q \in Parts : ~Written(i, q)
        BY <1>4, <2>3 DEF Written
      <3> QED
        BY <1>7, <2>1, <3>1
    <2> QED
      BY <2>2, <2>3
  <1> HIDE DEF e
  <1>14. /\ \A x : Settled(x)' => Settled(x) /\ x # b
         /\ \A x : Settled(x) /\ x # b => Settled(x)'
    <2>1. step[t].entry.buffer = 0
      BY <1>1, EntriesAre
    <2> QED
      BY <1>1, <1>8, <1>9, <2>1 DEF Settled, Unreturned
  <1>15. ContentTypes'
    <2>1. \A u \in Threads : step'[u].at = "mapped" => step'[u] = step[u]
      BY <1>8, <1>9
    <2> QED
      BY <1>1, <1>5, <1>13, <2>1 DEF ContentInv, ContentTypes
  <1>16. ASSUME NEW j \in Ids PROVE CopyInv(j)'
    <2>1. CopyInv(j) /\ \A q \in Parts : copy[j][q] \in Int
      BY ContentsAre DEF ContentInv
    <2> QED
      BY <1>1, <1>5, <1>14, <2>1, CopyStays
  <1>17. ASSUME NEW x \in live'["buf"][0] PROVE StoreInv(x)'
    <2>1. StoreInv(x) /\ x \in Names
      BY <1>6, BuffersAre DEF ContentInv
    <2>2. CASE x # b
      BY <1>1, <1>13, <1>14, <2>1, <2>2, StoreStays
    <2>3. CASE x = b
      BY <1>1, <1>13, <2>3 DEF StoreInv
    <2> QED
      BY <2>2, <2>3
  <1>18. \A c \in Contexts : RangeInv(c)'
    <2>1. \A x \in Names : \A q \in Parts :
            \/ memory'[x][q] = memory[x][q] /\ store'[x][q] = store[x][q]
            \/ store'[x][q] = memory'[x][q]
      BY <1>1, <1>13
    <2> QED
      BY <1>1, <1>5, <2>1, RangesStay
  <1>19. mapped' \subseteq live'["buf"][0] /\ ~misread'
    BY <1>1, <1>4, <1>6 DEF ContentInv
  <1> QED
    BY <1>15, <1>16, <1>17, <1>18, <1>19 DEF ContentInv

(* The stub's entry of an unmapped or deleted buffer goes.                 *)
LEMMA ForgetReads ==
  ASSUME GLInv, TablesInv, ContentInv, NEW t \in Threads,
         ForgetMap(t) \/ ForgetMaps(t), UNCHANGED stateVars
  PROVE  ContentInv'
  <1> DEFINE b == step[t].entry.buffer
  <1>1. /\ step[t].at \in {"unmapped", "deleted"} /\ step' = [step EXCEPT ![t] = AtRest]
        /\ UNCHANGED <<left, copy, mapped, ranges, store, ubo, held, memory, misread>>
    BY DEF ForgetMap, ForgetMaps, contentVars, programVars
  <1>2. \A j \in Ids : stub_maps'[j] = stub_maps[j] \/ stub_maps'[j] = NoEntry
    BY DEF ForgetMap, ForgetMaps, WithoutBuffer, TablesInv, MapTypes
  <1>3. b \notin held
    BY <1>1 DEF TablesInv, StepInv, AgreeInv
  <1>4. \A j \in Ids : stub_maps[j].buffer # b => stub_maps'[j] = stub_maps[j]
    <2>1. CASE ForgetMap(t)
      <3>1. stub_maps[step[t].id].buffer = b
        BY <2>1 DEF ForgetMap, TablesInv, StepInv
      <3> QED
        BY <2>1, <3>1 DEF ForgetMap, TablesInv, MapTypes
    <2>2. CASE ForgetMaps(t)
      BY <2>2 DEF ForgetMaps, WithoutBuffer
    <2> QED
      BY <2>1, <2>2
  <1>5. step'[t] = AtRest /\ \A u \in Threads \ {t} : step'[u] = step[u]
    BY <1>1 DEF TablesInv, MapTypes
  <1>6. UNCHANGED live
    BY StateStays
  <1>7. left["store"] \in Nat /\ left' = left
    BY <1>1, ContentsAre DEF ContentInv
  <1> HIDE DEF b
  <1>8. \A x : Settled(x)' <=> Settled(x)
    <2>1. \A x : x # b => (x \in Unreturned' <=> x \in Unreturned)
      BY <1>5, EntriesAre DEF Unreturned, b
    <2> QED
      BY <1>1, <1>3, <2>1 DEF Settled
  <1>9. ~Settled(0) /\ NoEntry.buffer = 0 /\ ~Settled(b)
    BY <1>3, EntriesAre DEF Settled, Unreturned
  <1>10. ContentTypes'
    <2>1. \A u \in Threads : step'[u].at = "mapped" => step'[u] = step[u]
      BY <1>5, EntriesAre
    <2> QED
      BY <1>1, <2>1 DEF ContentInv, ContentTypes
  <1>11. ASSUME NEW j \in Ids PROVE CopyInv(j)'
    <2>1. CopyInv(j) /\ \A q \in Parts : copy[j][q] \in Int
      BY ContentsAre DEF ContentInv
    <2>2. Settled(stub_maps'[j].buffer) => stub_maps'[j] = stub_maps[j]
      BY <1>2, <1>9
    <2> QED
      BY <1>1, <1>7, <1>8, <2>1, <2>2, CopyStays
  <1>12. ASSUME NEW x \in live'["buf"][0] PROVE StoreInv(x)'
    <2>1. StoreInv(x)
      BY <1>6 DEF ContentInv
    <2>2. Settled(x) => \A j \in Ids : stub_maps[j].buffer = x => stub_maps'[j] = stub_maps[j]
      BY <1>4, <1>9
    <2> QED
      BY <1>1, <1>8, <2>1, <2>2, StoreStays
  <1>13. \A c \in Contexts : RangeInv(c)'
    BY <1>1, <1>7, RangesStay
  <1>14. mapped' \subseteq live'["buf"][0] /\ ~misread'
    BY <1>1, <1>6 DEF ContentInv
  <1> QED
    BY <1>10, <1>11, <1>12, <1>13, <1>14 DEF ContentInv

(* What moves no contents.                                                 *)
LEMMA ContentStays ==
  ASSUME GLInv, ContentInv,
         UNCHANGED <<stub_maps, copy, mapped, store, step, held, memory, misread>>,
         left' \in [Ops \cup EglOps \cup MapOps -> Nat], left'["store"] = left["store"],
         DOMAIN ubo' = Contexts, DOMAIN ranges' = Contexts,
         \A c \in Contexts : DOMAIN ranges'[c] = DOMAIN NoRange,
         live'["buf"][0] = live["buf"][0],
         \A c \in Contexts : RangeInv(c)'
  PROVE  ContentInv'
  <1>1. /\ \A i \in Ids : CopyInv(i)'
        /\ \A b \in live'["buf"][0] : StoreInv(b)'
    BY FillKeeps
  <1>2. ContentTypes /\ mapped \subseteq live["buf"][0] /\ ~misread
    BY DEF ContentInv
  <1>3. ContentTypes'
    <2>1. store \in [Names -> Contents] /\ memory \in [Names -> Contents] /\ copy \in [Ids -> Contents]
      BY <1>2 DEF ContentTypes
    <2> QED
      BY <1>2, <2>1, TypesStay
  <1> QED
    BY <1>1, <1>2, <1>3 DEF ContentInv

LEMMA MapAgainReads ==
  ASSUME GLInv, TablesInv, ContentInv, NEW t \in Threads, MapAgain(t), UNCHANGED stateVars
  PROVE  ContentInv'
  <1>1. PICK o \in Accesses : left[o] > 0 /\ Used(o)
    <2> DEFINE i == Of(stub_maps, Bound(t))
    <2>1. /\ step[t] = AtRest /\ Bound(t) \in held /\ ~Busy(t, Bound(t)) /\ i # 0
          /\ left[stub_maps[i].access] > 0 /\ Used(stub_maps[i].access)
      BY DEF MapAgain, Ready
    <2>2. Settled(Bound(t))
      BY <2>1, AtHand DEF TablesInv, MapTypes
    <2>3. i \in Ids
      BY <2>2, HeldOf
    <2> HIDE DEF i
    <2>4. stub_maps[i].access \in Accesses
      BY <2>3 DEF TablesInv, MapTypes, MapType
    <2> QED
      BY <2>1, <2>4
  <1>2. UNCHANGED mapVars
    BY DEF MapAgain
  <1>3. UNCHANGED <<stub_maps, copy, mapped, ranges, store, ubo, step, held, memory, misread>>
    BY <1>2 DEF mapVars, tableVars, contentVars, programVars
  <1>4. /\ left' \in [Ops \cup EglOps \cup MapOps -> Nat]
        /\ left["store"] \in Nat /\ left'["store"] = left["store"]
    <2>1. o \in MapOps /\ o # "store"
      BY DEF MapOps, Accesses
    <2> QED
      BY <1>1, <2>1, UsedIs DEF ContentInv
  <1>5. \A c \in Contexts : RangeInv(c)'
    BY <1>3, <1>4, RangesStay
  <1>6. /\ DOMAIN ubo = Contexts /\ DOMAIN ranges = Contexts
        /\ \A c \in Contexts : DOMAIN ranges[c] = DOMAIN NoRange
    BY DEF ContentInv, ContentTypes
  <1> QED
    BY <1>3, <1>4, <1>5, <1>6, StateStays, ContentStays

(* glBindBufferBase(), where no range is remembered.                       *)
LEMMA BindBaseReads ==
  ASSUME GLInv, TablesInv, ContentInv, MapHabits = {}, NEW t \in Threads, NEW b \in Names,
         BindBase(t, b), UNCHANGED stateVars
  PROVE  ContentInv'
  <1> DEFINE c == g_stub_current_ctx[t]
  <1>1. /\ left["bindRange"] > 0 /\ Used("bindRange") /\ ranges[c].buffer = 0
        /\ ubo' = [ubo EXCEPT ![c] = Bind(b, Parts)]
        /\ UNCHANGED <<stub_maps, copy, mapped, ranges, store, step, held, memory, misread>>
    BY DEF BindBase, Ready, tableVars, programVars
  <1>2. /\ left' \in [Ops \cup EglOps \cup MapOps -> Nat]
        /\ left["store"] \in Nat /\ left'["store"] = left["store"]
    <2>1. "bindRange" \in MapOps
      BY DEF MapOps
    <2> QED
      BY <1>1, <2>1, UsedIs DEF ContentInv
  <1>3. /\ DOMAIN ubo = Contexts /\ DOMAIN ranges = Contexts
        /\ \A d \in Contexts : DOMAIN ranges[d] = DOMAIN NoRange
    BY DEF ContentInv, ContentTypes
  <1> HIDE DEF c
  <1>4. DOMAIN ubo' = Contexts /\ \A d \in Contexts \ {c} : ubo'[d] = ubo[d]
    BY <1>1, <1>3
  <1>5. ASSUME NEW d \in Contexts PROVE RangeInv(d)'
    <2> DEFINE x == ranges[d].buffer
    <2>1. RangeInv(d) /\ (x # 0 => ubo'[d] = ubo[d])
      BY <1>1, <1>4 DEF ContentInv
    <2>2. x \in Kept("buf", d)' /\ gen' = gen
      BY <2>1, StateStays DEF RangeInv
    <2>3. x = ranges'[d].buffer
      BY <1>1
    <2> HIDE DEF x
    <2> QED
      BY <1>1, <1>2, <2>1, <2>2, <2>3, RangeStays DEF x
  <1> QED
    BY <1>1, <1>2, <1>3, <1>4, <1>5, StateStays, ContentStays

LEMMA MapCallReads ==
  ASSUME GLInv, TablesInv, ContentInv, Roomy, MapHabits = {},
         NEW t \in Threads, MapCall(t), UNCHANGED stateVars
  PROVE  ContentInv'
  <1>1. ASSUME NEW b \in Names, NEW p \in Parts, NEW v \in 1 .. left["store"], Write(t, b, p, v)
        PROVE  ContentInv'
    BY <1>1, WriteReads
  <1>2. ASSUME NEW range \in Ranges,
               \/ Flush(t, range)
               \/ \E access \in Accesses : SendMap(t, range, access)
        PROVE  ContentInv'
    BY <1>2, FlushReads, SendMapReads
  <1>3. ASSUME NEW range \in Ranges,
               \/ \E vbos \in (SUBSET Names) \ {{}} : Draw(t, vbos, range)
               \/ \E b \in Names : BindRange(t, b, range)
        PROVE  ContentInv'
    BY <1>3, DrawReads, BindRangeReads
  <1>4. ASSUME \/ MapAgain(t) \/ KeepMap(t) \/ SendUnmap(t) \/ ForgetMap(t) \/ ForgetMaps(t)
               \/ \E b \in Names : BindBase(t, b)
        PROVE  ContentInv'
    BY <1>4, MapAgainReads, KeepMapReads, SendUnmapReads, ForgetReads, BindBaseReads
  <1> QED
    BY <1>1, <1>2, <1>3, <1>4 DEF MapCall

-----------------------------------------------------------------------------
(* The calls of GLState *)

LEMMA LeftIs ==
  ASSUME ContentInv, NEW o \in Ops \cup EglOps, left[o] > 0, left' = [left EXCEPT ![o] = @ - 1]
  PROVE  left' \in [Ops \cup EglOps \cup MapOps -> Nat] /\ left'["store"] = left["store"]
  <1>1. left \in [Ops \cup EglOps \cup MapOps -> Nat] /\ "store" \in MapOps
    BY DEF ContentInv, ContentTypes, MapOps
  <1>2. left[o] - 1 \in Nat
    BY <1>1
  <1>3. o # "store"
    BY DEF Ops, EglOps, GenOf, DelOf
  <1> QED
    BY <1>1, <1>2, <1>3

LEMMA LeftStays ==
  ASSUME ContentInv, UNCHANGED left
  PROVE  /\ left' \in [Ops \cup EglOps \cup MapOps -> Nat] /\ left'["store"] = left["store"]
         /\ left["store"] \in Nat
  <1>1. left \in [Ops \cup EglOps \cup MapOps -> Nat] /\ "store" \in MapOps
    BY DEF ContentInv, ContentTypes, MapOps
  <1> QED
    BY <1>1

LEMMA TypedRanges ==
  ASSUME ContentInv
  PROVE  /\ DOMAIN ubo = Contexts /\ DOMAIN ranges = Contexts
         /\ \A c \in Contexts : DOMAIN ranges[c] = DOMAIN NoRange
         /\ left["store"] \in Nat
  BY ContentsAre DEF ContentInv, ContentTypes

(* No name of a buffer goes, and none is new.                              *)
LEMMA QuietCallReads ==
  ASSUME GLInv, ContentInv,
         UNCHANGED <<stub_maps, copy, mapped, store, step, held, memory, misread, gen>>,
         left' \in [Ops \cup EglOps \cup MapOps -> Nat], left'["store"] = left["store"],
         live'["buf"][0] = live["buf"][0],
         \A u \in Threads : phase'[u] = "send" /\ Deletes(call'[u]) =>
           /\ phase[u] = "send" /\ call'[u] = call[u]
           /\ g_stub_current_ctx'[u] = g_stub_current_ctx[u],
         DOMAIN ubo' = Contexts, DOMAIN ranges' = Contexts,
         \A c \in Contexts : /\ DOMAIN ranges'[c] = DOMAIN NoRange
                             /\ ranges'[c].hash = ranges[c].hash
                             /\ ranges'[c].range = ranges[c].range
                             /\ \/ ranges'[c].buffer = 0
                                \/ ranges'[c].buffer = ranges[c].buffer /\ ubo'[c] = ubo[c]
  PROVE  ContentInv'
  <1>1. Going("buf", 0)' \subseteq Going("buf", 0)
    BY GoingShrinks
  <1>2. \A c : Kept("buf", c) \subseteq Kept("buf", c)'
    BY <1>1 DEF Kept, Home, Shared
  <1>3. ASSUME NEW c \in Contexts PROVE RangeInv(c)'
    <2> DEFINE b == ranges'[c].buffer
    <2>1. RangeInv(c) /\ left["store"] \in Nat
      BY TypedRanges DEF ContentInv
    <2>2. b # 0 => b = ranges[c].buffer /\ ubo'[c] = ubo[c] /\ b \in Kept("buf", c)'
      BY <1>2, <2>1 DEF RangeInv
    <2> HIDE DEF b
    <2>3. b = ranges'[c].buffer
      BY DEF b
    <2> QED
      BY <2>1, <2>2, <2>3, RangeStays
  <1> QED
    BY <1>3, ContentStays

LEMMA ProgramCallReads ==
  ASSUME GLInv, ContentInv, NEW t \in Threads, UNCHANGED mapVars,
         \/ \E o \in Ops : Begin(t, o)
         \/ Skip(t)
         \/ \E c \in Contexts : DestroyContext(t, c)
         \/ \E c \in Contexts \cup {0} : MakeCurrent(t, c)
  PROVE  ContentInv'
  <1>1. UNCHANGED <<stub_maps, copy, mapped, store, step, held, memory, misread, ubo, ranges>>
    BY DEF mapVars, tableVars, contentVars, programVars
  <1>2. DOMAIN call = Threads /\ DOMAIN phase = Threads /\ DOMAIN g_stub_current_ctx = Threads
    BY DEF GLInv, TypesInv, ThreadTypes
  <1>3. left' \in [Ops \cup EglOps \cup MapOps -> Nat] /\ left'["store"] = left["store"]
    <2>1. "destroy" \in EglOps /\ "current" \in EglOps
      BY DEF EglOps
    <2> QED
      BY <2>1, LeftIs, LeftStays DEF Begin, Skip, DestroyContext, MakeCurrent
  <1>4. UNCHANGED <<gen, live>>
    BY DEF Begin, Skip, DestroyContext, MakeCurrent, driverVars
  <1>5. \A u \in Threads : phase'[u] = "send" /\ Deletes(call'[u]) =>
          /\ phase[u] = "send" /\ call'[u] = call[u]
          /\ g_stub_current_ctx'[u] = g_stub_current_ctx[u]
    BY <1>2 DEF Begin, Skip, DestroyContext, MakeCurrent
  <1> QED
    BY <1>1, <1>3, <1>4, <1>5, TypedRanges, QuietCallReads

(* A new context has nothing bound, and no range is remembered.            *)
LEMMA CreateReads ==
  ASSUME GLInv, ContentInv, Habits = {}, NEW t \in Threads, CreateContext(t), FreshBinding
  PROVE  ContentInv'
  <1>1. /\ UNCHANGED <<stub_maps, copy, mapped, store, step, held, memory, misread, ranges>>
        /\ \A c \in Contexts : ranges[c].buffer = 0
        /\ DOMAIN ubo' = DOMAIN ubo
    BY DEF FreshBinding, tableVars, programVars
  <1>2. left' \in [Ops \cup EglOps \cup MapOps -> Nat] /\ left'["store"] = left["store"]
    <2>1. "create" \in EglOps
      BY DEF EglOps
    <2> QED
      BY <2>1, LeftIs DEF CreateContext
  <1>3. UNCHANGED <<gen, call, phase, g_stub_current_ctx>>
    BY DEF CreateContext
  <1>4. live'["buf"][0] = live["buf"][0]
    <2>1. live' = [k \in Kinds |-> IF k \in Private THEN [live[k] EXCEPT ![Min(Contexts \ made)] = {}]
                                                    ELSE live[k]]
      BY DEF CreateContext
    <2>2. "buf" \in Kinds /\ "buf" \notin Private
      BY DEF Kinds, Private, Shared
    <2> QED
      BY <2>1, <2>2
  <1> QED
    BY <1>1, <1>2, <1>3, <1>4, TypedRanges, QuietCallReads

LEMMA ResetReads ==
  ASSUME GLInv, ContentInv, NEW t \in Threads, ResetShadows(t), ResetRanges(t)
  PROVE  ContentInv'
  <1>1. /\ UNCHANGED <<stub_maps, copy, mapped, store, step, held, memory, misread, ubo>>
        /\ ranges' = [c \in Contexts |-> IF c \in {g_stub_new_ctx, g_stub_current_ctx[t]}
                                         THEN [ranges[c] EXCEPT !.buffer = 0] ELSE ranges[c]]
    BY DEF ResetRanges, tableVars, contentVars, programVars
  <1>2. UNCHANGED <<gen, live, call, g_stub_current_ctx, left>> /\ phase' = [phase EXCEPT ![t] = "entry"]
    BY DEF ResetShadows, driverVars
  <1>3. DOMAIN phase = Threads
    BY DEF GLInv, TypesInv, ThreadTypes
  <1>4. /\ DOMAIN ranges' = Contexts
        /\ \A c \in Contexts : /\ DOMAIN ranges'[c] = DOMAIN NoRange
                               /\ ranges'[c].hash = ranges[c].hash
                               /\ ranges'[c].range = ranges[c].range
                               /\ ranges'[c].buffer \in {0, ranges[c].buffer}
    BY <1>1, TypedRanges DEF NoRange
  <1> QED
    BY <1>1, <1>2, <1>3, <1>4, TypedRanges, LeftStays, QuietCallReads

(* A buffer that is about to go is forgotten.                              *)
LEMMA NoteReads ==
  ASSUME GLInv, ContentInv, NEW t \in Threads, Note(t), NoteRanges(t)
  PROVE  ContentInv'
  <1> DEFINE k == call[t]
  <1>1. /\ UNCHANGED <<stub_maps, copy, mapped, store, step, held, memory, misread, ubo>>
        /\ ranges' = IF k.op # "delBuf" THEN ranges
                     ELSE [c \in Contexts |-> [ranges[c] EXCEPT
                             !.buffer = IF @ = k.n THEN 0 ELSE @]]
    BY DEF NoteRanges, tableVars, contentVars, programVars
  <1>2. UNCHANGED <<gen, live, left>> /\ phase[t] # "idle"
    BY DEF Note, driverVars
  <1>3. k.op \in Ops
    BY <1>2, HandType
  <1>4. \A c, x : x \in Kept("buf", c) => x \in Kept("buf", c)' \/ (k.op = "delBuf" /\ x = k.n)
    BY <1>3, NoteKept, KindIs DEF DelOps
  <1>5. 0 \in Kept("buf", 0)' /\ \A c : 0 \in Kept("buf", c)'
    BY NoteKept
  <1> HIDE DEF k
  <1>6. /\ DOMAIN ranges' = Contexts
        /\ \A c \in Contexts :
             /\ DOMAIN ranges'[c] = DOMAIN NoRange
             /\ ranges'[c].hash = ranges[c].hash
             /\ ranges'[c].range = ranges[c].range
             /\ ranges'[c].buffer = IF k.op = "delBuf" /\ ranges[c].buffer = k.n
                                    THEN 0 ELSE ranges[c].buffer
    BY <1>1, TypedRanges DEF NoRange
  <1>7. ASSUME NEW c \in Contexts PROVE RangeInv(c)'
    <2> DEFINE b == ranges'[c].buffer
    <2>1. RangeInv(c) /\ left["store"] \in Nat
      BY TypedRanges DEF ContentInv
    <2>2. b # 0 => b = ranges[c].buffer /\ b \in Kept("buf", c)'
      BY <1>4, <1>6, <2>1 DEF RangeInv
    <2>3. b \in {0, ranges[c].buffer}
      BY <1>6
    <2>4. b = ranges'[c].buffer
      OBVIOUS
    <2> HIDE DEF b
    <2> QED
      BY <1>1, <1>2, <1>6, <2>1, <2>2, <2>3, <2>4, RangeStays
  <1> QED
    BY <1>1, <1>2, <1>6, <1>7, TypedRanges, LeftStays, ContentStays

(* What runs deletes no buffer that is remembered, and makes none anew.    *)
LEMMA RunReads ==
  ASSUME GLInv, Habits = {}, NEW t \in Threads, Run(t)
  PROVE  /\ \A c : Kept("buf", c) \subseteq Kept("buf", c)'
         /\ \A n : n \in {0} \cup live["buf"][0] => Object(gen', "buf", n) = Object(gen, "buf", n)
         /\ live'["buf"][0] = CASE call[t].op = "genBuf" -> live["buf"][0] \cup {Ran(t).n}
                                [] call[t].op = "delBuf" -> live["buf"][0] \ {call[t].n}
                                [] OTHER -> live["buf"][0]
         /\ call[t].op = "genBuf" => /\ Ran(t).n \in Names /\ Ran(t).n \notin live["buf"][0]
                                     /\ Ran(t).n = Given(g_stub_current_ctx[t], call[t])
         /\ call[t].op = "delBuf" => /\ call[t].n \in Going("buf", 0)
                                     /\ call[t].n \in Names /\ gen' = gen
         /\ g_stub_current_ctx[t] \in Contexts
         /\ UNCHANGED left
  <1> DEFINE k == Ran(t)
             c == g_stub_current_ctx[t]
  <1>1. /\ phase[t] = "send" /\ k.op \in Ops /\ k.op = call[t].op /\ Kind(k) = Kind(call[t])
        /\ ~Generates(k) => k = call[t]
        /\ Generates(k) => k.n \in Names /\ \A h \in Contexts \cup {0} : k.n \notin live[Kind(k)][h]
        /\ c \in made /\ c \in Contexts
    BY RanFacts DEF Run
  <1>2. "buf" \in Kinds /\ "buf" \in Shared /\ \A x : Home("buf", x) = 0
    BY DEF Kinds, Shared, Home
  <1>3. \A x : Kept("buf", x) \subseteq Kept("buf", x)'
    <2>1. PICK e \in made : TRUE
      BY <1>1
    <2>2. Kept("buf", e) \subseteq Kept("buf", e)'
      BY <1>2, RunKept
    <2> QED
      BY <1>2, <2>2 DEF Kept
  <1>4. \A n : n \in {0} \cup live["buf"][0] => Object(gen', "buf", n) = Object(gen, "buf", n)
    <2>1. \A n : n \in Alive("buf", c) => Object(gen', "buf", n) = Object(gen, "buf", n)
      BY <1>2, RunObjects
    <2> QED
      BY <1>2, <2>1 DEF Alive
  <1>5. live'["buf"][0] = IF "buf" = Kind(k) /\ Generates(k) THEN live["buf"][0] \cup {k.n}
                          ELSE IF "buf" = Kind(k) /\ Deletes(k) THEN live["buf"][0] \ {k.n}
                          ELSE live["buf"][0]
    <2>1. \A d \in Kinds : \A h \in Contexts \cup {0} :
            live'[d][h] = IF d = Kind(k) /\ h = Home(d, c) /\ Generates(k)
                          THEN live[d][h] \cup {k.n}
                          ELSE IF d = Kind(k) /\ h = Home(d, c) /\ Deletes(k)
                          THEN live[d][h] \ {k.n} ELSE live[d][h]
      BY RunDriver
    <2> HIDE DEF k, c
    <2> QED
      BY <1>2, <2>1
  <1>6. /\ "buf" = Kind(k) /\ Generates(k) <=> call[t].op = "genBuf"
        /\ "buf" = Kind(k) /\ Deletes(k) <=> call[t].op = "delBuf"
    BY <1>1, KindIs DEF GenOps, DelOps
  <1>7. k.n = Given(c, call[t])
    BY <1>1, HandType DEF Ran, CallShape
  <1>8. ASSUME call[t].op = "delBuf"
        PROVE  /\ call[t].n \in Going("buf", 0) /\ call[t].n \in Names /\ gen' = gen /\ k = call[t]
    <2>1. call[t].op \in Ops /\ CallShape(call[t]) /\ ~Generates(k) /\ k = call[t]
      BY <1>1, <1>6, <1>8, HandType, KindIs DEF GenOps, DelOps
    <2>2. Deletes(call[t]) /\ Kind(call[t]) = "buf"
      BY <1>6, <1>8, <2>1
    <2>3. call[t].n \in Names
      BY <1>8, <2>1, <2>2, KindIs DEF CallShape, DelOps
    <2> QED
      BY <1>1, <1>2, <2>1, <2>2, <2>3, GoingIs, RunDriver
  <1>9. UNCHANGED left
    BY DEF Run
  <1> HIDE DEF k, c
  <1>10. /\ call[t].op = "genBuf" => live'["buf"][0] = live["buf"][0] \cup {k.n}
         /\ call[t].op = "delBuf" => live'["buf"][0] = live["buf"][0] \ {call[t].n}
         /\ call[t].op \notin {"genBuf", "delBuf"} => live'["buf"][0] = live["buf"][0]
    BY <1>5, <1>6, <1>8
  <1>11. call[t].op = "genBuf" => k.n \in Names /\ k.n \notin live["buf"][0]
    BY <1>1, <1>6
  <1> QED
    BY <1>1, <1>3, <1>4, <1>7, <1>8, <1>9, <1>10, <1>11 DEF k, c

LEMMA DeleteMapsReads ==
  ASSUME GLInv, TablesInv, ContentInv, Habits = {}, NEW t \in Threads, Run(t),
         call[t].op = "delBuf", step[t] = AtRest, DeleteMaps(t)
  PROVE  ContentInv'
  <1> DEFINE b == call[t].n
             c == g_stub_current_ctx[t]
             s == Step("deleted", 0, Entry(b, {}, "read"), Blank)
  <1>1. /\ mapped' = mapped \ {b} /\ held' = held \ {b}
        /\ ubo' = [ubo EXCEPT ![c] = IF @[1] = Object(gen, "buf", b) THEN <<None, {}>> ELSE @]
        /\ step' = [step EXCEPT ![t] = s]
        /\ UNCHANGED <<stub_maps, copy, ranges, store, memory, misread>>
    BY DEF DeleteMaps, tableVars
  <1>2. s.at = "deleted" /\ s.entry.buffer = b
    BY DEF Step, Entry
  <1>3. /\ b \in Going("buf", 0) /\ b \in Names /\ gen' = gen /\ UNCHANGED left
        /\ live'["buf"][0] = live["buf"][0] \ {b} /\ c \in Contexts
        /\ \A x : Kept("buf", x) \subseteq Kept("buf", x)'
    BY RunReads
  <1> HIDE DEF b, s, c
  <1>4. step'[t] = s /\ \A u \in Threads \ {t} : step'[u] = step[u]
    BY <1>1 DEF TablesInv, MapTypes
  <1>5. /\ \A x : Settled(x)' => Settled(x) /\ x # b
        /\ \A x : Settled(x) /\ x # b => Settled(x)'
    <2>1. step[t].entry.buffer = 0
      BY EntriesAre
    <2> QED
      BY <1>1, <1>2, <1>4, <2>1 DEF Settled, Unreturned
  <1>6. left["store"] \in Nat /\ left' = left
    BY <1>3, LeftStays
  <1>7. DOMAIN ubo' = Contexts
    BY <1>1, TypedRanges
  <1>8. ContentTypes'
    <2>1. \A u \in Threads : step'[u].at = "mapped" => step'[u] = step[u]
      BY <1>2, <1>4
    <2> QED
      BY <1>1, <1>6, <1>7, <2>1 DEF ContentInv, ContentTypes
  <1>9. ASSUME NEW j \in Ids PROVE CopyInv(j)'
    <2>1. CopyInv(j) /\ \A q \in Parts : copy[j][q] \in Int
      BY ContentsAre DEF ContentInv
    <2> QED
      BY <1>1, <1>5, <1>6, <2>1, CopyStays
  <1>10. ASSUME NEW x \in live'["buf"][0] PROVE StoreInv(x)'
    <2>1. StoreInv(x) /\ x # b
      BY <1>3 DEF ContentInv
    <2> QED
      BY <1>1, <1>5, <2>1, StoreStays
  <1>11. ASSUME NEW d \in Contexts PROVE RangeInv(d)'
    <2> DEFINE x == ranges[d].buffer
    <2>1. RangeInv(d) /\ x \in Kept("buf", d)
      BY DEF ContentInv, RangeInv
    <2>2. x \in Name0 /\ x # b /\ x \in Kept("buf", d)'
      <3>1. b # 0 /\ b \notin live["buf"][0] \ Going("buf", 0)
        BY <1>3, NamesAre
      <3> QED
        BY <1>3, <2>1, <3>1, BuffersAre DEF Kept, Home, Shared
    <2>3. x # 0 => ubo'[d] = ubo[d]
      <3> SUFFICES ASSUME x # 0 PROVE ubo'[d] = ubo[d]
        OBVIOUS
      <3>1. ubo[d][1] = Object(gen, "buf", x)
        BY <2>1 DEF RangeInv, Bind
      <3>2. gen \in GenType /\ "buf" \in Shared /\ b \in Name0
        BY <1>3, BuffersAre DEF Shared, Name0
      <3>3. ubo[d][1] # Object(gen, "buf", b)
        BY <2>2, <3>1, <3>2, ObjectApart
      <3> HIDE DEF x
      <3> QED
        BY <1>1, <3>3, TypedRanges
    <2>4. x = ranges'[d].buffer /\ ranges'[d] = ranges[d]
      BY <1>1
    <2>5. Object(gen', "buf", x) = Object(gen, "buf", x)
      BY <1>3
    <2>6. UNCHANGED <<store, memory, left>> /\ left["store"] \in Nat
      BY <1>1, <1>6
    <2> HIDE DEF x
    <2>7. x = ranges[d].buffer
      BY DEF x
    <2> QED
      BY <2>1, <2>2, <2>3, <2>4, <2>5, <2>6, <2>7, RangeStays
  <1>12. mapped' \subseteq live'["buf"][0] /\ ~misread'
    BY <1>1, <1>3 DEF ContentInv
  <1> QED
    BY <1>8, <1>9, <1>10, <1>11, <1>12 DEF ContentInv

(* A new buffer holds nothing, and nothing is expected of it.              *)
LEMMA MakeStoreReads ==
  ASSUME GLInv, TablesInv, ContentInv, Habits = {}, NEW t \in Threads, Run(t),
         call[t].op = "genBuf", MakeStore(Given(g_stub_current_ctx[t], call[t]))
  PROVE  ContentInv'
  <1> DEFINE n == Ran(t).n
  <1>1. /\ n = Given(g_stub_current_ctx[t], call[t]) /\ n \in Names /\ n \notin live["buf"][0]
        /\ live'["buf"][0] = live["buf"][0] \cup {n} /\ UNCHANGED left
        /\ \A x : Kept("buf", x) \subseteq Kept("buf", x)'
        /\ \A x : x \in {0} \cup live["buf"][0] => Object(gen', "buf", x) = Object(gen, "buf", x)
    BY RunReads
  <1> HIDE DEF n
  <1>2. /\ store' = [store EXCEPT ![n] = Blank] /\ memory' = [memory EXCEPT ![n] = Blank]
        /\ UNCHANGED <<stub_maps, copy, ranges, mapped, ubo, step, held, misread>>
    BY <1>1 DEF MakeStore, tableVars
  <1>3. /\ store \in [Names -> Contents] /\ memory \in [Names -> Contents]
        /\ copy \in [Ids -> Contents] /\ Blank \in Contents
    BY ContentsAre DEF ContentInv, ContentTypes
  <1>4. /\ store' \in [Names -> Contents] /\ memory' \in [Names -> Contents]
        /\ store'[n] = memory'[n]
        /\ \A x \in Names \ {n} : store'[x] = store[x] /\ memory'[x] = memory[x]
    BY <1>1, <1>2, <1>3
  <1>5. left["store"] \in Nat /\ left' = left /\ left' \in [Ops \cup EglOps \cup MapOps -> Nat]
    BY <1>1, LeftStays
  <1>6. \A x : Settled(x)' <=> Settled(x)
    BY <1>2 DEF Settled, Unreturned
  <1>7. \A x : Settled(x) => x \in Names /\ x # n
    BY <1>1 DEF Settled, TablesInv, MapTypes, AgreeInv, ContentInv
  <1>8. ContentTypes'
    BY <1>2, <1>3, <1>4, <1>5, TypedRanges, TypesStay DEF ContentInv
  <1>9. ASSUME NEW j \in Ids PROVE CopyInv(j)'
    <2>1. CopyInv(j) /\ \A q \in Parts : copy[j][q] \in Int
      BY ContentsAre DEF ContentInv
    <2> QED
      BY <1>2, <1>4, <1>5, <1>6, <1>7, <2>1, CopyStays
  <1>10. ASSUME NEW x \in live'["buf"][0] PROVE StoreInv(x)'
    <2>1. CASE x = n
      BY <1>4, <2>1 DEF StoreInv
    <2>2. CASE x # n
      <3>1. StoreInv(x) /\ x \in Names
        BY <1>1, <2>2, BuffersAre DEF ContentInv
      <3> QED
        BY <1>2, <1>4, <1>6, <2>2, <3>1, StoreStays
    <2> QED
      BY <2>1, <2>2
  <1>11. ASSUME NEW d \in Contexts PROVE RangeInv(d)'
    <2> DEFINE x == ranges[d].buffer
    <2>1. RangeInv(d) /\ x \in Kept("buf", d)
      BY DEF ContentInv, RangeInv
    <2>2. x \in {0} \cup live["buf"][0] /\ x \in Kept("buf", d)'
      BY <1>1, <2>1, BuffersAre
    <2>3. x # 0 => x \in Names /\ x # n
      BY <1>1, <2>2, BuffersAre
    <2>4. x = ranges'[d].buffer
      BY <1>2
    <2> HIDE DEF x
    <2> QED
      BY <1>1, <1>2, <1>4, <1>5, <2>1, <2>2, <2>3, <2>4, RangeStays DEF x
  <1>12. mapped' \subseteq live'["buf"][0] /\ ~misread'
    BY <1>1, <1>2 DEF ContentInv
  <1> QED
    BY <1>8, <1>9, <1>10, <1>11, <1>12 DEF ContentInv

LEMMA OtherRunReads ==
  ASSUME GLInv, ContentInv, Habits = {}, NEW t \in Threads, Run(t), UNCHANGED mapVars,
         call[t].op \notin {"genBuf", "delBuf"}
  PROVE  ContentInv'
  <1>1. /\ live'["buf"][0] = live["buf"][0] /\ UNCHANGED left
        /\ \A x : Kept("buf", x) \subseteq Kept("buf", x)'
        /\ \A x : x \in {0} \cup live["buf"][0] => Object(gen', "buf", x) = Object(gen, "buf", x)
    BY RunReads
  <1>2. UNCHANGED <<stub_maps, copy, mapped, ranges, store, ubo, step, held, memory, misread>>
    BY DEF mapVars, tableVars, contentVars, programVars
  <1>3. ASSUME NEW d \in Contexts PROVE RangeInv(d)'
    <2> DEFINE x == ranges[d].buffer
    <2>1. RangeInv(d) /\ x \in Kept("buf", d)
      BY DEF ContentInv, RangeInv
    <2>2. x \in {0} \cup live["buf"][0] /\ x \in Kept("buf", d)'
      BY <1>1, <2>1, BuffersAre
    <2>3. x = ranges'[d].buffer /\ left["store"] \in Nat /\ left' = left
      BY <1>1, <1>2, LeftStays
    <2> HIDE DEF x
    <2> QED
      BY <1>1, <1>2, <2>1, <2>2, <2>3, RangeStays DEF x
  <1> QED
    BY <1>1, <1>2, <1>3, LeftStays, TypedRanges, ContentStays

LEMMA StateCallReads ==
  ASSUME GLInv, TablesInv, ContentInv, Habits = {}, NEW t \in Threads, StateCall(t)
  PROVE  ContentInv'
  <1>1. step[t] = AtRest
    BY DEF StateCall
  <1>2. ASSUME \/ \E o \in Ops : Begin(t, o)
               \/ Skip(t)
               \/ \E c \in Contexts : DestroyContext(t, c)
               \/ \E c \in Contexts \cup {0} : MakeCurrent(t, c),
               UNCHANGED mapVars
        PROVE  ContentInv'
    BY <1>2, ProgramCallReads
  <1>3. ASSUME \/ CreateContext(t) /\ FreshBinding
               \/ ResetShadows(t) /\ ResetRanges(t)
               \/ Note(t) /\ NoteRanges(t)
        PROVE  ContentInv'
    BY <1>3, CreateReads, ResetReads, NoteReads
  <1>4. ASSUME Run(t), RunMaps(t)
        PROVE  ContentInv'
    <2>1. CASE call[t].op = "delBuf"
      <3>1. DeleteMaps(t)
        BY <1>4, <2>1 DEF RunMaps
      <3> QED
        BY <1>1, <1>4, <2>1, <3>1, DeleteMapsReads
    <2>2. CASE call[t].op = "genBuf"
      <3>1. MakeStore(Given(g_stub_current_ctx[t], call[t]))
        BY <1>4, <2>2 DEF RunMaps
      <3> QED
        BY <1>4, <2>2, <3>1, MakeStoreReads
    <2>3. CASE call[t].op \notin {"genBuf", "delBuf"}
      <3>1. UNCHANGED mapVars
        BY <1>4, <2>3 DEF RunMaps
      <3> QED
        BY <1>4, <2>3, <3>1, OtherRunReads
    <2> QED
      BY <2>1, <2>2, <2>3
  <1> QED
    BY <1>2, <1>3, <1>4 DEF StateCall

LEMMA ContentInit == MapInit => ContentInv
  <1> SUFFICES ASSUME MapInit PROVE ContentInv
    OBVIOUS
  <1>1. /\ stub_maps = [i \in Ids |-> NoEntry] /\ copy = [i \in Ids |-> Blank]
        /\ ranges = [c \in Contexts |-> NoRange] /\ ubo = [c \in Contexts |-> <<None, {}>>]
        /\ store = [b \in Names |-> Blank] /\ memory = [b \in Names |-> Blank]
        /\ step = [t \in Threads |-> AtRest] /\ held = {} /\ mapped = {} /\ misread = FALSE
    BY DEF MapInit
  <1>2. left \in [Ops \cup EglOps \cup MapOps -> Nat]
    BY StateAssumption DEF MapInit, Init
  <1>3. live["buf"][0] \subseteq Names
    BY InitInv, BuffersAre DEF MapInit
  <1>4. Blank \in Contents
    BY DEF Blank, Contents
  <1>5. ContentTypes
    BY <1>1, <1>2, <1>4, EntriesAre DEF ContentTypes
  <1>6. \A i \in Ids : CopyInv(i)
    BY <1>1 DEF CopyInv, Settled
  <1>7. \A b \in live["buf"][0] : StoreInv(b)
    BY <1>1, <1>3 DEF StoreInv
  <1>8. ASSUME NEW c \in Contexts PROVE RangeInv(c)
    <2>1. ranges[c].buffer = 0 /\ ranges[c].hash = NoHash /\ DOMAIN NoHash = {}
      BY <1>1 DEF NoRange, NoHash
    <2>2. 0 \in Kept("buf", c)
      BY DEF Kept
    <2> QED
      BY <2>1, <2>2 DEF RangeInv
  <1> QED
    BY <1>1, <1>5, <1>6, <1>7, <1>8 DEF ContentInv

(* Programs as Orderly, Complete, Within and BindBase want them: what the  *)
(* driver does not have of the contents of a buffer, the copies that       *)
(* glMapBufferRange() of the stub gave out have, and the range that        *)
(* g_bufrange_cache remembers is bound, with these contents or others      *)
(* written since.                                                          *)
THEOREM ContentsCorrect ==
  ASSUME Habits = {}, MapHabits = {}, Roomy
  PROVE  MapSpec => []MapInv
  <1>1. MapInit => ContentInv
    BY ContentInit
  <1>2. AllTablesInv /\ ContentInv /\ [MapNext]_<<vars, mapVars>> => ContentInv'
    <2> SUFFICES ASSUME AllTablesInv, ContentInv, [MapNext]_<<vars, mapVars>>
                 PROVE  ContentInv'
      OBVIOUS
    <2>1. GLInv /\ TablesInv
      BY DEF AllTablesInv
    <2>2. ASSUME NEW t \in Threads, StateCall(t)
          PROVE  ContentInv'
      BY <2>1, <2>2, StateCallReads
    <2>3. ASSUME NEW t \in Threads, MapCall(t), UNCHANGED stateVars
          PROVE  ContentInv'
      BY <2>1, <2>3, MapCallReads
    <2>4. ASSUME UNCHANGED <<vars, mapVars>>
          PROVE  ContentInv'
      <3>1. /\ UNCHANGED <<stub_maps, copy, mapped, ranges, store, ubo, step, held, memory, misread>>
            /\ UNCHANGED stateVars /\ UNCHANGED left
        BY <2>4 DEF vars, stateVars, mapVars, tableVars, contentVars, programVars
      <3>2. \A c \in Contexts : RangeInv(c)'
        BY <2>1, <3>1, LeftStays, RangesStay
      <3> QED
        BY <2>1, <3>1, <3>2, StateStays, LeftStays, TypedRanges, ContentStays
    <2> QED
      BY <2>2, <2>3, <2>4 DEF MapNext
  <1>3. MapSpec => []AllTablesInv
    <2>1. "crossing" \notin MapHabits
      OBVIOUS
    <2> QED
      BY <2>1, TablesCorrect
  <1>4. AllTablesInv /\ ContentInv => MapInv
    BY DEF MapInv
  <1> QED
    BY <1>1, <1>2, <1>3, <1>4, PTL DEF MapSpec

(* Then every command reads in its buffers what the program has written to *)
(* them, and glBindBufferRange() is kept back only if the range is bound.  *)
THEOREM ReadsCorrect ==
  ASSUME Habits = {}, MapHabits = {}, Roomy
  PROVE  MapSpec => []ReadsAreCurrent
  <1>1. MapInv => ReadsAreCurrent
    BY DEF MapInv, ContentInv, ReadsAreCurrent
  <1> QED
    BY <1>1, ContentsCorrect, PTL
=============================================================================
