------------------------- MODULE GLProtocol_proofs -------------------------
(***************************************************************************)
(* Calls find what is theirs: for any set of entry points and handlers     *)
(* that fit each other, any number of threads and any length of the ring.  *)
(***************************************************************************)
EXTENDS ProtocolInvariant, Remainders

(* A number names a slot of the ring.                                      *)
LEMMA SlotOfType == \A n \in Nat : SlotOf(n) \in 0..(Slots - 1)
  BY SizeAssumption DEF SlotOf

(* Two commands of one window of the ring's length have different slots.   *)
LEMMA SlotsApart ==
  ASSUME NEW a \in Nat, NEW m \in (a + 1)..(a + Slots),
         NEW n \in (a + 1)..(a + Slots), m # n
  PROVE  SlotOf(m) # SlotOf(n)
  <1>1. Slots \in Nat \ {0} /\ m \in Nat /\ n \in Nat
    BY SizeAssumption
  <1>2. CASE m < n
    <2>1. n < m + Slots
      BY <1>1
    <2> QED
      BY <1>1, <1>2, <2>1, ModApart DEF SlotOf
  <1>3. CASE n < m
    <2>1. m < n + Slots
      BY <1>1
    <2> QED
      BY <1>1, <1>3, <2>1, ModApart DEF SlotOf
  <1> QED
    BY <1>1, <1>2, <1>3

(* What the types say of the counters and of a slot.                       *)
LEMMA TypeFacts ==
  ASSUME TypeOK
  PROVE  /\ published \in Nat /\ completed \in Nat
         /\ published \in 0..Commands /\ completed \in 0..Commands
         /\ completed <= published /\ published <= completed + Slots
         /\ UnderWay \subseteq Numbers /\ UnderWay \subseteq Nat
         /\ \A n \in UnderWay : SlotOf(n) \in 0..(Slots - 1)
         /\ \A m, n \in UnderWay : m # n => SlotOf(m) # SlotOf(n)
  <1>1. /\ published \in 0..Commands /\ completed \in 0..Commands
        /\ completed <= published /\ published <= completed + Slots
        /\ Commands \in Nat /\ Slots \in Nat \ {0}
    BY SizeAssumption DEF TypeOK, Tag
  <1>2. UnderWay \subseteq Numbers /\ UnderWay \subseteq Nat
        /\ UnderWay \subseteq (completed + 1)..(completed + Slots)
    BY <1>1 DEF UnderWay, Numbers
  <1> QED
    BY <1>1, <1>2, SlotOfType, SlotsApart

-----------------------------------------------------------------------------
(* A command is begun *)

(* What bridge_begin() and the entry point leave in a slot.                *)
LEMMA FilledFacts ==
  ASSUME NEW s \in Slot, NEW c \in Shapes, NEW brings, NEW n \in Tag
  PROVE  LET f == Filled(Begun(s), c, brings, n) IN
         /\ f \in Slot
         /\ f.call = c /\ f.value = s.value /\ f.length = None
         /\ \A r \in Regions :
              f.names[r] = IF r \in brings THEN n
                           ELSE IF r \in c.keeps THEN s.names[r]
                           ELSE None
  <1>1. Begun(s) = [call |-> s.call, names |-> s.names, value |-> s.value, length |-> None]
    BY DEF Begun, Slot
  <1>2. None \in Tag
    BY SizeAssumption DEF None, Tag
  <1> QED
    BY <1>1, <1>2 DEF Filled, Slot, MaybeCall

(* What Begin writes: one slot, the ranges of the new command, and ranges  *)
(* of completed ones.                                                      *)
Started(c, brings) ==
  LET n == published + 1
      i == SlotOf(n)
  IN /\ c \in Shape
     /\ c.puts \subseteq brings
     /\ n \in Numbers /\ i \in 0..(Slots - 1)
     /\ n <= completed + Slots
     /\ \A m \in UnderWay : SlotOf(m) # i
     /\ published' = n /\ completed' = completed
     /\ slots' \in [0..(Slots - 1) -> Slot]
     /\ \A j \in 0..(Slots - 1) : j # i => slots'[j] = slots[j]
     /\ slots'[i].call = c /\ slots'[i].length = None
     /\ \A r \in Regions :
          slots'[i].names[r] = IF r \in brings THEN n
                               ELSE IF r \in c.keeps THEN slots[i].names[r]
                               ELSE None
     /\ arena' \in [Numbers -> [Regions -> Content]]
     /\ \A r \in brings : arena'[n][r] = Payload(n)
     /\ \A m \in UnderWay : arena'[m] = arena[m]

LEMMA BeginFacts ==
  ASSUME ProtocolInv, NEW t \in Threads, NEW c \in Shapes, Begin(t, c)
  PROVE  \E brings \in SUBSET Regions : Started(c, brings)
  <1> DEFINE n == published + 1
             i == SlotOf(n)
  <1> USE DEF ProtocolInv
  <1>1. PICK some \in SUBSET c.may, over \in SUBSET StillRead :
          /\ slots' = [slots EXCEPT ![i] = Filled(Begun(@), c, c.puts \cup some, n)]
          /\ arena' = Put(n, c.puts \cup some, over)
    BY DEF Begin
  <1> DEFINE brings == c.puts \cup some
  <1>2. c \in Shape /\ brings \subseteq Regions
    BY ShapeAssumption DEF Shape
  <1>3. /\ n \in Numbers /\ n \in Nat /\ i \in 0..(Slots - 1)
        /\ n <= completed + Slots
        /\ published' = n /\ completed' = completed
    BY TypeFacts, SlotOfType, SizeAssumption DEF Begin, RingFull, Numbers
  <1>4. \A m \in UnderWay : SlotOf(m) # i /\ m # n
    <2>1. /\ completed \in Nat
          /\ n \in (completed + 1)..(completed + Slots)
          /\ \A m \in UnderWay : m \in (completed + 1)..(completed + Slots) /\ m # n
      BY <1>3, TypeFacts, SizeAssumption DEF UnderWay
    <2> QED
      BY <2>1, SlotsApart
  <1>5. over \cap UnderWay = {}
    <2>1. \A u \in Threads : pc[u] = "reading" => cur[u] \in 1..completed
      BY DEF CallerInv
    <2>2. StillRead \subseteq 1..completed
      BY <2>1 DEF StillRead
    <2> QED
      BY <2>2, TypeFacts DEF UnderWay
  <1>6. slots[i] \in Slot
    BY <1>3 DEF TypeOK
  <1>7. slots' = [slots EXCEPT ![i] = Filled(Begun(slots[i]), c, brings, n)]
    BY <1>1, <1>3 DEF TypeOK
  <1>9. arena' \in [Numbers -> [Regions -> Content]]
    <2>1. [by |-> n, what |-> "payload"] \in Content /\ Nothing \in Content
      BY <1>3, SizeAssumption DEF Content, Nothing, Tag, What, None, Numbers
    <2> QED
      BY <1>1, <2>1 DEF Put, TypeOK
  <1>10. \A r \in brings : arena'[n][r] = Payload(n)
    BY <1>1, <1>2, <1>3 DEF Put, Payload
  <1>11. \A m \in UnderWay : arena'[m] = arena[m]
    BY <1>1, <1>4, <1>5, TypeFacts DEF Put
  <1> HIDE DEF n, i, brings
  <1>8. slots[i] \in Slot /\ n \in Tag
    BY <1>3, <1>6, SizeAssumption DEF Tag, Numbers
  <1> DEFINE f == Filled(Begun(slots[i]), c, brings, n)
  <1>12. /\ f \in Slot /\ f.call = c /\ f.length = None
         /\ \A r \in Regions : f.names[r] = IF r \in brings THEN n
                                            ELSE IF r \in c.keeps THEN slots[i].names[r]
                                            ELSE None
    BY <1>8, FilledFacts
  <1> HIDE DEF f
  <1>13. slots' = [slots EXCEPT ![i] = f] /\ slots \in [0..(Slots - 1) -> Slot]
    BY <1>7 DEF TypeOK, f
  <1> QED
    BY <1>2, <1>3, <1>4, <1>9, <1>10, <1>11, <1>12, <1>13
       DEF n, i, brings, Started

(* The new command is complete, and the older ones are not touched.        *)
LEMMA BeginRequest ==
  ASSUME ProtocolInv, \A d \in Shapes : Fits(d),
         NEW t \in Threads, NEW c \in Shapes, Begin(t, c)
  PROVE  RequestInv'
  <1> DEFINE n == published + 1
             i == SlotOf(n)
  <1>0. PICK brings \in SUBSET Regions : Started(c, brings)
    BY BeginFacts
  <1>1. /\ c \in Shape
        /\ c.puts \subseteq brings
        /\ n \in Numbers /\ i \in 0..(Slots - 1)
        /\ n <= completed + Slots
        /\ \A m \in UnderWay : SlotOf(m) # i
        /\ published' = n /\ completed' = completed
        /\ slots' \in [0..(Slots - 1) -> Slot]
        /\ \A j \in 0..(Slots - 1) : j # i => slots'[j] = slots[j]
        /\ slots'[i].call = c /\ slots'[i].length = None
        /\ \A r \in Regions :
             slots'[i].names[r] = IF r \in brings THEN n
                                  ELSE IF r \in c.keeps THEN slots[i].names[r]
                                  ELSE None
        /\ arena' \in [Numbers -> [Regions -> Content]]
        /\ \A r \in brings : arena'[n][r] = Payload(n)
        /\ \A m \in UnderWay : arena'[m] = arena[m]
    BY <1>0 DEF Started
  <1>2. n \in Nat /\ published \in Nat /\ completed \in Nat
    BY TypeFacts DEF ProtocolInv
  <1>3. UnderWay' = UnderWay \cup {n} /\ n \notin UnderWay
    BY <1>1, <1>2, TypeFacts DEF ProtocolInv, UnderWay
  <1>4. \A j \in 0..(Slots - 1), r \in Regions :
          slots[j].names[r] \in Nat /\ slots[j].names[r] <= published
    BY DEF ProtocolInv, TypeOK, Slot, Tag, RequestInv
  <1>5. g_lock = NoThread /\ (c.waits => g_lock' = t) /\ t # NoThread
    BY SizeAssumption DEF Begin
  <1>6. None = 0
    BY DEF None
  <1> HIDE DEF n, i
  <1>7. \A j \in 0..(Slots - 1), r \in Regions : slots'[j].names[r] <= n
    <2> TAKE j \in 0..(Slots - 1), r \in Regions
    <2>1. n = published + 1
      BY DEF n
    <2>2. CASE j = i
      BY <1>1, <1>2, <1>4, <1>6, <2>1, <2>2
    <2>3. CASE j # i
      BY <1>1, <1>2, <1>4, <2>1, <2>3
    <2> QED
      BY <2>2, <2>3
  <1>8. LET s == slots'[SlotOf(n)] IN
        /\ s.call \in Shape /\ Fits(s.call)
        /\ s.length = None
        /\ \A r \in Regions :
               /\ s.names[r] <= n
               /\ r \in s.call.puts => s.names[r] = n
               /\ r \notin s.call.keeps => s.names[r] \in {None, n}
               /\ s.names[r] = n => arena'[n][r] = Payload(n)
        /\ s.call.waits => n = published' /\ g_lock' # NoThread
    <2>1. SlotOf(n) = i /\ Fits(c)
      BY DEF n, i
    <2>2. \A r \in Regions : r \notin brings => slots'[i].names[r] # n
      BY <1>1, <1>2, <1>4, <1>6 DEF n
    <2> QED
      BY <1>1, <1>2, <1>5, <1>7, <2>1, <2>2
  <1>9. ASSUME NEW m \in UnderWay
        PROVE  LET s == slots'[SlotOf(m)] IN
        /\ s.call \in Shape /\ Fits(s.call)
        /\ s.length = None
        /\ \A r \in Regions :
               /\ s.names[r] <= m
               /\ r \in s.call.puts => s.names[r] = m
               /\ r \notin s.call.keeps => s.names[r] \in {None, m}
               /\ s.names[r] = m => arena'[m][r] = Payload(m)
        /\ ~s.call.waits
    <2>1. slots'[SlotOf(m)] = slots[SlotOf(m)] /\ arena'[m] = arena[m]
      BY <1>1, TypeFacts DEF ProtocolInv
    <2> QED
      BY <1>5, <2>1 DEF ProtocolInv, RequestInv
  <1>10. published' = n
    BY <1>1
  <1> QED
    BY <1>3, <1>7, <1>8, <1>9, <1>10 DEF RequestInv, Fits, RequestFits, AnswerFits, Payload

(* Nobody waits while a command is begun; who reads keeps what he has.     *)
LEMMA BeginCaller ==
  ASSUME ProtocolInv, \A d \in Shapes : Fits(d),
         NEW t \in Threads, NEW c \in Shapes, Begin(t, c)
  PROVE  /\ TypeOK' /\ CallerInv'
         /\ PayloadIsOwn' /\ CopyIsOwn' /\ LateReadIsOwn'
  <1> DEFINE n == published + 1
             i == SlotOf(n)
  <1>1. /\ c \in Shape /\ n \in Numbers /\ n <= completed + Slots
        /\ published' = n /\ completed' = completed
        /\ slots' \in [0..(Slots - 1) -> Slot]
        /\ slots'[i].call = c
        /\ arena' \in [Numbers -> [Regions -> Content]]
    BY BeginFacts DEF Started
  <1>2. /\ published \in Nat /\ completed \in Nat /\ n \in Nat
        /\ completed <= published /\ Commands \in Nat
    BY TypeFacts, SizeAssumption DEF ProtocolInv
  <1>3. \A u \in Threads : pc[u] # "waiting"
    BY SizeAssumption DEF ProtocolInv, CallerInv, Begin
  <1>4. \/ /\ c.waits
           /\ g_lock' = t /\ pc' = [pc EXCEPT ![t] = "waiting"]
           /\ cur' = [cur EXCEPT ![t] = n] /\ call' = [call EXCEPT ![t] = c]
        \/ UNCHANGED <<g_lock, pc, cur, call>>
    BY DEF Begin
  <1>5. UNCHANGED <<result_buf, copy, heard>> /\ pc[t] = "idle" /\ g_lock = NoThread
    BY DEF Begin
  <1> HIDE DEF n, i
  <1>6. TypeOK'
    <2>1. published' \in Tag /\ published' = n /\ n \in Tag
      BY <1>1, <1>2 DEF Tag, Numbers
    <2>2. completed' \in Tag /\ completed' <= published' /\ published' <= completed' + Slots
      BY <1>1, <1>2 DEF ProtocolInv, TypeOK, n
    <2>3. /\ g_lock' \in Threads \cup {NoThread}
          /\ pc' \in [Threads -> {"idle", "waiting", "reading"}]
          /\ cur' \in [Threads -> Tag] /\ call' \in [Threads -> MaybeCall]
      BY <1>4, <2>1 DEF ProtocolInv, TypeOK, MaybeCall
    <2> QED
      BY <1>1, <1>5, <2>1, <2>2, <2>3 DEF ProtocolInv, TypeOK
  <1>7. ASSUME NEW u \in Threads, u # t \/ UNCHANGED <<g_lock, pc, cur, call>>
        PROVE  pc'[u] = pc[u] /\ cur'[u] = cur[u] /\ call'[u] = call[u]
    BY <1>4, <1>7 DEF ProtocolInv, TypeOK
  <1>8. CallerInv'
    <2> SUFFICES ASSUME NEW u \in Threads
                 PROVE  /\ pc'[u] = "waiting" <=> g_lock' = u
                        /\ pc'[u] = "waiting" =>
                             /\ cur'[u] = published' /\ published' # 0
                             /\ call'[u] = slots'[SlotOf(published')].call
                             /\ call'[u].waits
                             /\ completed' # published'
                        /\ pc'[u] = "reading" => cur'[u] \in 1..completed'
                        /\ pc'[u] # "idle" => call'[u] \in Shape /\ Fits(call'[u])
      BY DEF CallerInv, Fits, RequestFits, AnswerFits
    <2>1. CASE UNCHANGED <<g_lock, pc, cur, call>>
      BY <1>1, <1>3, <1>5, <1>7, <2>1, SizeAssumption DEF ProtocolInv, CallerInv
    <2>2. CASE /\ c.waits
               /\ g_lock' = t /\ pc' = [pc EXCEPT ![t] = "waiting"]
               /\ cur' = [cur EXCEPT ![t] = n] /\ call' = [call EXCEPT ![t] = c]
      <3>1. CASE u = t
        <4>1. pc'[u] = "waiting" /\ cur'[u] = n /\ call'[u] = c /\ g_lock' = u
          BY <2>2, <3>1 DEF ProtocolInv, TypeOK
        <4>2. n # 0 /\ completed # n /\ i = SlotOf(n)
          BY <1>2 DEF n, i
        <4> QED
          BY <1>1, <2>2, <4>1, <4>2
      <3>2. CASE u # t
        BY <1>1, <1>3, <1>5, <1>7, <2>2, <3>2 DEF ProtocolInv, CallerInv
      <3> QED
        BY <3>1, <3>2
    <2> QED
      BY <1>4, <2>1, <2>2
  <1>9. PayloadIsOwn'
    BY <1>1, <1>5 DEF ProtocolInv, PayloadIsOwn
  <1>10. \A u \in Threads : pc'[u] = "reading" =>
           /\ pc[u] = "reading" /\ cur'[u] = cur[u] /\ call'[u] = call[u]
           /\ cur'[u] # published'
    <2> TAKE u \in Threads
    <2> HAVE pc'[u] = "reading"
    <2>1. u # t \/ UNCHANGED <<g_lock, pc, cur, call>>
      BY <1>4 DEF ProtocolInv, TypeOK
    <2>2. pc[u] = "reading" /\ cur'[u] = cur[u] /\ call'[u] = call[u]
      BY <1>7, <2>1
    <2> QED
      BY <1>1, <1>2, <2>2 DEF ProtocolInv, CallerInv, n
  <1>11. CopyIsOwn' /\ LateReadIsOwn'
    BY <1>5, <1>10 DEF ProtocolInv, CopyIsOwn, LateReadIsOwn, Looks
  <1> QED
    BY <1>6, <1>8, <1>9, <1>11

-----------------------------------------------------------------------------
(* The proxy runs a command *)

(* What Dispatch writes: the answer in the command's own slot, in the      *)
(* result buffer and in the ranges its slot names; nothing of the commands *)
(* that are still under way.                                               *)
Ran(gives) ==
  LET n == completed + 1
      i == SlotOf(n)
      s == slots[i]
  IN /\ n \in UnderWay /\ n \in Numbers /\ i \in 0..(Slots - 1)
     /\ gives \in {s.call.gives, s.call.gives \cup s.call.mayGive}
     /\ completed' = n /\ published' = published
     /\ slots' \in [0..(Slots - 1) -> Slot]
     /\ \A j \in 0..(Slots - 1) : /\ j # i => slots'[j] = slots[j]
                                  /\ slots'[j].call = slots[j].call
                                  /\ slots'[j].names = slots[j].names
     /\ slots'[i].value = IF "value" \in gives THEN n ELSE s.value
     /\ slots'[i].length = IF "length" \in gives THEN n ELSE None
     /\ result_buf' \in Tag
     /\ "buffer" \in gives => result_buf' = n
     /\ arena' \in [Numbers -> [Regions -> Content]]
     /\ \A r \in gives \cap SlotRegions : s.names[r] = n => arena'[n][r] = Reply(n)
     /\ \A m \in UnderWay \ {n} : arena'[m] = arena[m]
     /\ heard' \subseteq {Payload(n)}

LEMMA DispatchFacts ==
  ASSUME ProtocolInv, Dispatch
  PROVE  \E gives \in SUBSET Answers : Ran(gives)
  <1> DEFINE n == completed + 1
             i == SlotOf(n)
             s == slots[i]
  <1> USE DEF ProtocolInv
  <1>1. PICK more \in {{}, s.call.mayGive},
             hit \in SUBSET (StillRead \cup (n + 1)..published) :
          LET gives == s.call.gives \cup more IN
          /\ heard' = Heard(s)
          /\ slots' = [slots EXCEPT
                 ![i].value = IF "value" \in gives THEN n ELSE @,
                 ![i].length = IF "length" \in gives THEN n ELSE @]
          /\ result_buf' = IF "buffer" \in gives THEN n ELSE result_buf
          /\ ~Misses(s, gives) => hit = {}
          /\ arena' = Answered(n, s, gives, hit)
          /\ completed' = n
    BY DEF Dispatch
  <1> DEFINE gives == s.call.gives \cup more
  <1>2. /\ n \in UnderWay /\ n \in Numbers /\ n \in Nat /\ n # None
        /\ i \in 0..(Slots - 1) /\ s \in Slot
        /\ published' = published /\ completed < published
        /\ published \in Nat /\ completed \in Nat
    BY TypeFacts, SlotOfType DEF Dispatch, UnderWay, None, TypeOK
  <1>3. /\ s.call \in Shape /\ Fits(s.call) /\ s.length = None
        /\ \A r \in Regions :
               /\ s.names[r] \in Nat /\ s.names[r] <= n
               /\ r \in s.call.puts => s.names[r] = n
               /\ r \notin s.call.keeps => s.names[r] \in {None, n}
               /\ s.names[r] = n => arena[n][r] = Payload(n)
        /\ s.call.waits => n = published
    BY <1>2 DEF RequestInv, Slot, Tag
  <1>4. /\ gives \subseteq Answers
        /\ gives \in {s.call.gives, s.call.gives \cup s.call.mayGive}
        /\ s.call.reads \subseteq s.call.puts
        /\ s.call.puts \subseteq Regions /\ s.call.ifGiven \subseteq Regions
    BY <1>3 DEF Shape, Fits, RequestFits
  <1>5. /\ n \in Tag /\ result_buf' \in Tag
        /\ "buffer" \in gives => result_buf' = n
    BY <1>1, <1>2, SizeAssumption DEF Tag, Numbers, TypeOK
  <1>6. SlotRegions \subseteq Regions
    BY DEF SlotRegions, Regions
  <1>7. heard' \subseteq {Payload(n)}
    <2>1. \A r \in s.call.reads \cup Given(s) : RangeOf(s, r) = Payload(n)
      <3> TAKE r \in s.call.reads \cup Given(s)
      <3>1. CASE r \in s.call.reads
        BY <1>2, <1>3, <1>4, <3>1 DEF RangeOf
      <3>2. CASE r \in Given(s)
        <4>1. r \in Regions /\ r \in s.call.ifGiven /\ s.names[r] # None
          BY <1>4, <3>2 DEF Given
        <4>2. s.names[r] = n
          BY <1>3, <4>1 DEF Fits, RequestFits
        <4> QED
          BY <1>2, <1>3, <4>1, <4>2 DEF RangeOf
      <3> QED
        BY <3>1, <3>2
    <2>2. s.call.agrees /\ heard' = Heard(s)
      BY <1>1, <1>3 DEF Fits, RequestFits
    <2> QED
      BY <2>1, <2>2 DEF Heard
  <1>8. Misses(s, gives) => s.call.waits
    <2> SUFFICES ASSUME NEW r \in gives \cap SlotRegions, s.names[r] = None, ~s.call.waits
                 PROVE  FALSE
      BY DEF Misses
    <2>1. r \in s.call.puts
      BY <1>3, <1>4 DEF Fits, RequestFits
    <2> QED
      BY <1>2, <1>3, <1>6, <2>1
  <1>9. \A m \in UnderWay \ {n} : m > n /\ m \in Numbers /\ m \notin hit
    <2>1. \A m \in UnderWay \ {n} : m > n /\ m \in Numbers
      BY <1>2, TypeFacts DEF UnderWay
    <2>2. CASE Misses(s, gives)
      BY <1>2, <1>3, <1>8, <2>2 DEF UnderWay
    <2>3. CASE ~Misses(s, gives)
      BY <1>1, <2>1, <2>3
    <2> QED
      BY <2>2, <2>3
  <1> HIDE DEF n, i, gives
  <1>10. arena' = Answered(n, s, gives, hit)
    BY <1>1 DEF n, i, gives
  <1>11. \A m \in UnderWay \ {n} : arena'[m] = arena[m]
    <2> TAKE m \in UnderWay \ {n}
    <2>1. m > n /\ m \in Numbers /\ m \notin hit
      BY <1>9
    <2>2. \A r \in Regions : ~(r \in gives \cap SlotRegions /\ s.names[r] = m)
      BY <1>2, <1>3, <2>1
    <2>3. arena[m] \in [Regions -> Content]
      BY <2>1 DEF TypeOK
    <2>4. arena'[m] = [r \in Regions |-> arena[m][r]]
      BY <1>10, <2>1, <2>2 DEF Answered
    <2> QED
      BY <2>3, <2>4
  <1>12. \A r \in gives \cap SlotRegions : s.names[r] = n => arena'[n][r] = Reply(n)
    BY <1>2, <1>6, <1>10 DEF Answered, Reply
  <1>13. arena' \in [Numbers -> [Regions -> Content]]
    <2>1. [by |-> n, what |-> "answer"] \in Content
      BY <1>5 DEF Content, What
    <2> QED
      BY <1>10, <2>1 DEF Answered, TypeOK
  <1>14. /\ slots' \in [0..(Slots - 1) -> Slot]
         /\ \A j \in 0..(Slots - 1) : /\ j # i => slots'[j] = slots[j]
                                      /\ slots'[j].call = slots[j].call
                                      /\ slots'[j].names = slots[j].names
         /\ slots'[i].value = IF "value" \in gives THEN n ELSE s.value
         /\ slots'[i].length = IF "length" \in gives THEN n ELSE None
    <2>1. slots' = [slots EXCEPT
                      ![i].value = IF "value" \in gives THEN n ELSE @,
                      ![i].length = IF "length" \in gives THEN n ELSE @]
      BY <1>1 DEF n, i, gives
    <2>2. slots \in [0..(Slots - 1) -> Slot]
      BY DEF TypeOK
    <2> QED
      BY <1>2, <1>3, <1>5, <2>1, <2>2 DEF Slot
  <1> QED
    BY <1>1, <1>2, <1>4, <1>5, <1>7, <1>11, <1>12, <1>13, <1>14
       DEF Ran, n, i, gives

(* The answer of a command is where its caller looks for it.               *)
LEMMA DispatchAnswers ==
  ASSUME ProtocolInv, NEW gives, Ran(gives), UNCHANGED <<pc, cur, call>>,
         NEW t \in Threads, pc[t] = "waiting", completed' = published'
  PROVE  AnswerIsThere(t)'
  <1> DEFINE n == completed + 1
             i == SlotOf(n)
             c == call[t]
  <1>1. /\ n = published /\ cur[t] = n /\ n # None
        /\ c = slots[i].call /\ c \in Shape /\ Fits(c)
    BY TypeFacts DEF ProtocolInv, CallerInv, Ran, None
  <1>2. i \in 0..(Slots - 1)
    BY DEF Ran
  <1>3. /\ gives \in {c.gives, c.gives \cup c.mayGive}
        /\ c.gives \subseteq gives
        /\ slots'[i].names = slots[i].names
        /\ slots'[i].value = IF "value" \in gives THEN n ELSE slots[i].value
        /\ slots'[i].length = IF "length" \in gives THEN n ELSE None
        /\ "buffer" \in gives => result_buf' = n
        /\ \A r \in gives \cap SlotRegions : slots[i].names[r] = n => arena'[n][r] = Reply(n)
    BY <1>1, <1>2 DEF Ran
  <1> HIDE DEF n, i
  <1>4. /\ "buffer" \in c.takes
        /\ "length" \in c.takes => "length" \in gives
        => "buffer" \in gives
    BY <1>1, <1>3 DEF Fits, AnswerFits
  <1>5. c.takes \cap SlotRegions \subseteq gives
    BY <1>1, <1>3 DEF Fits, AnswerFits
  <1>6. cur'[t] = n /\ call'[t] = c /\ SlotOf(n) = i
    BY <1>1 DEF i
  <1>7. /\ "value" \in c.gives => slots'[i].value = n
        /\ slots'[i].length \in {None, n}
        /\ "buffer" \in c.takes /\ ("length" \in c.takes => slots'[i].length # None)
               => result_buf' = n
        /\ \A r \in c.takes \cap SlotRegions :
               slots'[i].names[r] = n => arena'[n][r] = Reply(n)
    BY <1>1, <1>3, <1>4, <1>5
  <1> QED
    BY <1>6, <1>7 DEF AnswerIsThere, Reply

LEMMA DispatchStep == ProtocolInv /\ Dispatch => ProtocolInv'
  <1> SUFFICES ASSUME ProtocolInv, Dispatch PROVE ProtocolInv'
    OBVIOUS
  <1> DEFINE n == completed + 1
             i == SlotOf(n)
  <1>0. PICK gives \in SUBSET Answers : Ran(gives)
    BY DispatchFacts
  <1>1. UNCHANGED <<published, g_lock, pc, cur, call, copy>>
    BY DEF Dispatch
  <1>2. /\ n \in UnderWay /\ n \in Numbers
        /\ completed' = n /\ published \in Nat /\ completed \in Nat
        /\ n <= published /\ published <= completed + Slots
        /\ i \in 0..(Slots - 1) /\ Slots \in Nat
        /\ UnderWay' = UnderWay \ {n}
    BY <1>0, <1>1, TypeFacts, SizeAssumption DEF ProtocolInv, Ran, UnderWay
  <1>3. TypeOK'
    <2>1. heard' \subseteq Content
      BY <1>0, <1>2, SizeAssumption DEF Ran, Payload, Content, What, Tag, Numbers
    <2>2. completed' \in Tag
      BY <1>2, SizeAssumption DEF Tag, Numbers
    <2> QED
      BY <1>0, <1>1, <1>2, <2>1, <2>2 DEF Ran, ProtocolInv, TypeOK
  <1>4. RequestInv'
    <2>1. ASSUME NEW m \in UnderWay'
          PROVE  /\ slots'[SlotOf(m)] = slots[SlotOf(m)]
                 /\ arena'[m] = arena[m] /\ m \in UnderWay
      BY <1>0, <1>2, TypeFacts DEF Ran, ProtocolInv
    <2>2. \A j \in 0..(Slots - 1) : slots'[j].names = slots[j].names
      BY <1>0 DEF Ran
    <2>3. \A m \in UnderWay' :
        LET s == slots'[SlotOf(m)] IN
        /\ s.call \in Shape /\ Fits(s.call)
        /\ s.length = None
        /\ \A r \in Regions :
               /\ s.names[r] <= m
               /\ r \in s.call.puts => s.names[r] = m
               /\ r \notin s.call.keeps => s.names[r] \in {None, m}
               /\ s.names[r] = m => arena'[m][r] = Payload(m)
        /\ s.call.waits => m = published' /\ g_lock' # NoThread
      BY <1>1, <2>1 DEF ProtocolInv, RequestInv
    <2>4. \A j \in 0..(Slots - 1), r \in Regions : slots'[j].names[r] <= published'
      BY <1>1, <2>2 DEF ProtocolInv, RequestInv
    <2> QED
      BY <2>3, <2>4 DEF RequestInv, Fits, RequestFits, AnswerFits, Payload
  <1>5. CallerInv'
    <2>1. ASSUME NEW t \in Threads, pc[t] = "waiting"
          PROVE  call[t] = slots'[SlotOf(published)].call
      <3>1. SlotOf(published) \in 0..(Slots - 1)
        BY <1>2, SlotOfType
      <3> QED
        BY <1>0, <2>1, <3>1 DEF Ran, ProtocolInv, CallerInv
    <2>2. ASSUME NEW t \in Threads, pc[t] = "waiting", completed' = published'
          PROVE  AnswerIsThere(t)'
      BY <1>0, <1>1, <2>2, DispatchAnswers
    <2>3. \A t \in Threads : pc[t] = "reading" => cur[t] \in 1..completed'
      BY <1>2 DEF ProtocolInv, CallerInv
    <2> QED
      BY <1>1, <2>1, <2>2, <2>3 DEF ProtocolInv, CallerInv, Fits, RequestFits, AnswerFits
  <1>6. PayloadIsOwn'
    BY <1>0, <1>2 DEF Ran, PayloadIsOwn, Payload
  <1>7. \A t \in Threads : pc[t] = "reading" => published # cur[t]
    BY <1>2 DEF ProtocolInv, CallerInv
  <1>8. CopyIsOwn' /\ LateReadIsOwn'
    BY <1>1, <1>7 DEF ProtocolInv, CopyIsOwn, LateReadIsOwn, Looks
  <1> QED
    BY <1>3, <1>4, <1>5, <1>6, <1>8 DEF ProtocolInv

-----------------------------------------------------------------------------
(* The caller comes back *)

(* g_lock is dropped: the copies are the answer of the thread's own        *)
(* command, and so is what it reads later if nobody begins another.        *)
LEMMA ReturnStep ==
  ASSUME ProtocolInv, NEW t \in Threads, Return(t)
  PROVE  ProtocolInv'
  <1> DEFINE n == cur[t]
             s == slots[SlotOf(n)]
  <1>1. /\ pc[t] = "waiting" /\ g_lock = t
        /\ n = published /\ n # None /\ n \in Nat /\ completed = published
        /\ call[t] \in Shape /\ Fits(call[t])
        /\ SlotOf(n) \in 0..(Slots - 1)
        /\ s \in Slot
    BY TypeFacts, SlotOfType DEF ProtocolInv, CallerInv, Return, TypeOK, None
  <1>2. AnswerIsThere(t)
    BY <1>1 DEF ProtocolInv, CallerInv
  <1>3. /\ copy' = [copy EXCEPT ![t] = [value |-> s.value, length |-> s.length,
                                       buffer |-> result_buf]]
        /\ g_lock' = NoThread
        /\ pc' = [pc EXCEPT ![t] = "reading"]
        /\ UNCHANGED <<published, completed, slots, result_buf, arena, cur, call, heard>>
    BY DEF Return, Copied
  <1>4. /\ [value |-> s.value, length |-> s.length, buffer |-> result_buf] \in Copy
        /\ copy'[t] = [value |-> s.value, length |-> s.length, buffer |-> result_buf]
        /\ \A u \in Threads : u # t => copy'[u] = copy[u] /\ pc'[u] = pc[u]
        /\ pc'[t] = "reading"
    BY <1>1, <1>3 DEF ProtocolInv, TypeOK, Copy, Slot
  <1>5. UnderWay' = UnderWay /\ UnderWay = {}
    BY <1>1, <1>3, TypeFacts DEF UnderWay, ProtocolInv
  <1> HIDE DEF n, s
  <1>6. TypeOK'
    BY <1>3, <1>4 DEF ProtocolInv, TypeOK
  <1>7. RequestInv'
    BY <1>3, <1>5 DEF ProtocolInv, RequestInv
  <1>8. CallerInv'
    <2>1. \A u \in Threads : u # t => pc[u] # "waiting"
      BY <1>1 DEF ProtocolInv, CallerInv
    <2>2. published \in 1..completed
      BY <1>1, TypeFacts DEF ProtocolInv, None, n
    <2> QED
      BY <1>1, <1>3, <1>4, <2>1, <2>2, SizeAssumption
         DEF ProtocolInv, CallerInv, Fits, RequestFits, AnswerFits, n
  <1>9. PayloadIsOwn'
    BY <1>3 DEF ProtocolInv, PayloadIsOwn
  <1>10. CopyIsOwn'
    <2> SUFFICES ASSUME NEW u \in Threads, pc'[u] = "reading"
                 PROVE  /\ Looks(u, "value")' => copy'[u].value = cur'[u]
                        /\ Looks(u, "length")' => copy'[u].length \in {cur'[u], None}
                        /\ Looks(u, "buffer")' => copy'[u].buffer = cur'[u]
      BY DEF CopyIsOwn, Looks
    <2>1. CASE u # t
      BY <1>3, <1>4, <2>1 DEF ProtocolInv, CopyIsOwn, Looks
    <2>2. CASE u = t
      <3>1. copy'[t].value = s.value /\ copy'[t].length = s.length /\ copy'[t].buffer = result_buf
        BY <1>4
      <3>2. /\ "value" \in call[t].takes => s.value = n
            /\ s.length \in {None, n}
            /\ "buffer" \in call[t].takes /\ ("length" \in call[t].takes => s.length # None)
                  => result_buf = n
        BY <1>1, <1>2 DEF AnswerIsThere, Fits, AnswerFits, n, s
      <3> QED
        BY <1>3, <2>2, <3>1, <3>2 DEF Looks, n
    <2> QED
      BY <2>1, <2>2
  <1>11. LateReadIsOwn'
    <2> SUFFICES ASSUME NEW u \in Threads, pc'[u] = "reading", published' = cur'[u]
                 PROVE  LET q == slots'[SlotOf(cur'[u])] IN
                        /\ Looks(u, "slot")' => q.value = cur'[u]
                        /\ \A r \in SlotRegions : Looks(u, r)' /\ q.names[r] = cur'[u] =>
                             arena'[cur'[u]][r] = [by |-> cur'[u], what |-> "answer"]
      BY DEF LateReadIsOwn, Looks
    <2>1. CASE u # t
      BY <1>3, <1>4, <2>1 DEF ProtocolInv, LateReadIsOwn, Looks
    <2>2. CASE u = t
      <3>1. /\ "slot" \in call[t].takes => s.value = n
            /\ \A r \in call[t].takes \cap SlotRegions :
                  s.names[r] = n => arena[n][r] = [by |-> n, what |-> "answer"]
        BY <1>1, <1>2 DEF AnswerIsThere, Fits, AnswerFits, n, s, Reply
      <3> QED
        BY <1>3, <2>2, <3>1 DEF Looks, n, s
    <2> QED
      BY <2>1, <2>2
  <1> QED
    BY <1>6, <1>7, <1>8, <1>9, <1>10, <1>11 DEF ProtocolInv

LEMMA FinishStep ==
  ASSUME ProtocolInv, NEW t \in Threads, Finish(t)
  PROVE  ProtocolInv'
  <1>1. /\ pc[t] = "reading" /\ pc' = [pc EXCEPT ![t] = "idle"]
        /\ cur' = [cur EXCEPT ![t] = None] /\ call' = [call EXCEPT ![t] = NoCall]
        /\ copy' = [copy EXCEPT ![t] = [value |-> None, length |-> None, buffer |-> None]]
        /\ UNCHANGED <<published, completed, g_lock, slots, result_buf, arena, heard>>
    BY DEF Finish
  <1>2. None \in Tag
    BY SizeAssumption DEF Tag, None
  <1>3. TypeOK'
    BY <1>1, <1>2 DEF ProtocolInv, TypeOK, MaybeCall, Copy
  <1>4. /\ pc'[t] = "idle"
        /\ \A u \in Threads : u # t => /\ pc'[u] = pc[u] /\ cur'[u] = cur[u]
                                      /\ call'[u] = call[u] /\ copy'[u] = copy[u]
    BY <1>1 DEF ProtocolInv, TypeOK
  <1>5. RequestInv'
    BY <1>1 DEF ProtocolInv, RequestInv, UnderWay
  <1>6. CallerInv'
    BY <1>1, <1>4 DEF ProtocolInv, CallerInv, AnswerIsThere
  <1>7. PayloadIsOwn' /\ CopyIsOwn' /\ LateReadIsOwn'
    BY <1>1, <1>4 DEF ProtocolInv, PayloadIsOwn, CopyIsOwn, LateReadIsOwn, Looks
  <1> QED
    BY <1>3, <1>5, <1>6, <1>7 DEF ProtocolInv

-----------------------------------------------------------------------------
(* Theorems *)

LEMMA InitProtocol == Init => ProtocolInv
  <1> SUFFICES ASSUME Init PROVE ProtocolInv
    OBVIOUS
  <1>1. None \in Tag /\ Nothing \in Content /\ EmptySlot \in Slot
    BY SizeAssumption
       DEF None, Tag, Nothing, Content, What, EmptySlot, Slot, MaybeCall
  <1>2. TypeOK
    BY <1>1, SizeAssumption DEF Init, TypeOK, MaybeCall, Copy, Tag
  <1>3. UnderWay = {}
    BY DEF Init, UnderWay
  <1>4. RequestInv
    BY <1>3 DEF Init, RequestInv, EmptySlot, None
  <1>5. CallerInv /\ PayloadIsOwn /\ CopyIsOwn /\ LateReadIsOwn
    BY SizeAssumption DEF Init, CallerInv, PayloadIsOwn, CopyIsOwn, LateReadIsOwn
  <1> QED
    BY <1>2, <1>4, <1>5 DEF ProtocolInv

(* The invariant of the marshalling protocol, for every set of entry       *)
(* points and handlers of which each pair fits: argument order, regions    *)
(* and answers (the tables of all calls in GLStubCalls and GLProxyCalls).  *)
THEOREM ProtocolCorrect ==
  ASSUME \A c \in Shapes : Fits(c)
  PROVE  Spec => []ProtocolInv
  <1>1. ProtocolInv /\ [Next]_vars => ProtocolInv'
    <2> SUFFICES ASSUME ProtocolInv, [Next]_vars PROVE ProtocolInv'
      OBVIOUS
    <2>1. ASSUME NEW t \in Threads, NEW c \in Shapes, Begin(t, c)
          PROVE  ProtocolInv'
      BY <2>1, BeginRequest, BeginCaller DEF ProtocolInv
    <2>2. ASSUME UNCHANGED vars
          PROVE  ProtocolInv'
      BY <2>2 DEF vars, ProtocolInv, TypeOK, RequestInv, CallerInv, UnderWay,
         AnswerIsThere, PayloadIsOwn, CopyIsOwn, LateReadIsOwn, Looks
    <2> QED
      BY <2>1, <2>2, DispatchStep, ReturnStep, FinishStep DEF Next
  <1> QED
    BY <1>1, InitProtocol, PTL DEF Spec

(* A handler reads what its own entry point encoded and brought, whatever  *)
(* was in the slot before (BRIDGE_BEGIN() .. BRIDGE_SEND_*, h_gl*()).      *)
THEOREM PayloadsAreOwn ==
  ASSUME \A c \in Shapes : Fits(c)
  PROVE  Spec => []PayloadIsOwn
  <1>1. ProtocolInv => PayloadIsOwn
    BY DEF ProtocolInv
  <1> QED
    BY <1>1, ProtocolCorrect, PTL

(* The copies bridge_send_call() makes under g_lock are the answer of the  *)
(* caller's own command, however many threads call.                        *)
THEOREM CopiesAreOwn ==
  ASSUME \A c \in Shapes : Fits(c)
  PROVE  Spec => []CopyIsOwn
  <1>1. ProtocolInv => CopyIsOwn
    BY DEF ProtocolInv
  <1> QED
    BY <1>1, ProtocolCorrect, PTL

(* What is read from slot and arena after the unlock is the caller's own   *)
(* as long as nobody has begun another command.                            *)
THEOREM LateReadsAreOwn ==
  ASSUME \A c \in Shapes : Fits(c)
  PROVE  Spec => []LateReadIsOwn
  <1>1. ProtocolInv => LateReadIsOwn
    BY DEF ProtocolInv
  <1> QED
    BY <1>1, ProtocolCorrect, PTL
=============================================================================
