------------------------- MODULE BridgeRing_proofs --------------------------
(***************************************************************************)
(* Theorems about BridgeRing, for every number of threads, every ring and  *)
(* arena size and every bound: types, the parts of RingInv, what CallOrder *)
(* promises, and that payloads in the data arena never overlap.            *)
(***************************************************************************)
EXTENDS RingInvariant, Remainders

-----------------------------------------------------------------------------
(* Arithmetic of the ring and of the arena *)

(* A sequence number always names a slot of the ring (seq % g_ring_slots). *)
LEMMA SlotOfType == \A s \in Nat : SlotOf(s) \in Slots
  BY RingAssumption DEF SlotOf, Slots

(* ring_data_alloc() computes natural numbers.                             *)
LEMMA AllocType ==
  ASSUME g_local_data_head \in Nat, NEW n \in Nat
  PROVE  /\ AllocAt(n) \in Nat
         /\ AllocOff(n) \in Nat
         /\ NewHead(n) \in Nat
  <1>1. DATA_SIZE \in Nat /\ DATA_SIZE > 0
    BY RingAssumption
  <1>2. g_local_data_head % DATA_SIZE \in 0 .. DATA_SIZE - 1
    BY <1>1
  <1>3. SpaceToEnd \in Nat
    BY <1>1, <1>2 DEF SpaceToEnd
  <1> QED
    BY <1>1, <1>2, <1>3 DEF AllocAt, AllocOff, NewHead

LEMMA AlignType == \A n \in Nat : Align(n) \in Nat
  BY DEF Align

-----------------------------------------------------------------------------
(* Type correctness *)

LEMMA InitTypeOK == Init => TypeOK
  <1> SUFFICES ASSUME Init PROVE TypeOK
    OBVIOUS
  <1>1. slots \in [Slots -> Slot]
    BY DEF Init, Slot, Seqs, NoSeq, Ops
  <1>2. ran \in Seq(Seqs)
    BY DEF Init
  <1>3. reply \in [Threads -> Reply]
    BY DEF Init, Reply, Seqs, NoSeq
  <1>4. wait_seq \in [Threads -> Seqs] /\ op \in [Threads -> Ops]
    BY DEF Init, Seqs, NoSeq, Ops
  <1>5. pc \in [Threads -> StubPCs] /\ proxy_pc \in ProxyPCs
    BY DEF Init, StubPCs, ProxyPCs
  <1>6. /\ g_cur_seq \in [Threads -> Nat] /\ want \in [Threads -> Nat]
        /\ g_pending_swap_seq \in Seqs /\ result_buf \in Seqs
    BY DEF Init, Seqs, NoSeq
  <1>7. /\ consumer_waiting \in BOOLEAN
        /\ req_efd \in BOOLEAN /\ resp_efd \in BOOLEAN
    BY DEF Init
  <1>8. /\ published_seq \in Nat /\ completed_seq \in Nat
        /\ data_tail \in Nat /\ g_local_seq \in Nat
        /\ g_local_data_head \in Nat /\ needs_resp \in 0 .. 2
        /\ g_lock \in Threads \cup {NoThread}
    BY DEF Init
  <1> QED
    BY <1>1, <1>2, <1>3, <1>4, <1>5, <1>6, <1>7, <1>8 DEF TypeOK

(* The stub's actions keep the types.                                      *)
LEMMA StubTypeOK ==
  ASSUME TypeOK, NEW t \in Threads
  PROVE  /\ \A o \in Kinds : AcquireLock(t, o) => TypeOK'
         /\ \A size \in Sizes : StartWrite(t, size) => TypeOK'
         /\ Send(t) => TypeOK'
  <1> USE DEF TypeOK, Goto, Seqs, NoSeq, StubPCs, stubVars, threadVars,
              proxyVars
  <1>1. ASSUME NEW o \in Kinds, AcquireLock(t, o) PROVE TypeOK'
    BY <1>1, RingAssumption DEF AcquireLock, Ops
  <1>2. ASSUME NEW size \in Sizes, StartWrite(t, size) PROVE TypeOK'
    <2>1. Align(size) \in Nat
      BY RingAssumption, AlignType
    <2> QED
      BY <1>2, <2>1 DEF StartWrite
  <1>3. ASSUME ReserveSlot(t) PROVE TypeOK'
    <2>1. SlotOf(g_local_seq) \in Slots
      BY SlotOfType
    <2> DEFINE i == SlotOf(g_local_seq)
               d == [slots[i] EXCEPT !.call = g_local_seq,
                                     !.op = op[t],
                                     !.data_watermark = g_local_data_head,
                                     !.data_watermark_valid = FALSE,
                                     !.data = {}]
    <2>2. d \in Slot
      <3>1. slots[i] \in Slot
        BY <2>1
      <3> HIDE DEF i
      <3> QED
        BY <3>1 DEF Slot
    <2>3. slots' = [slots EXCEPT ![i] = d]
      BY <1>3 DEF ReserveSlot
    <2> HIDE DEF d, i
    <2>4. slots' \in [Slots -> Slot]
      <3>1. slots \in [Slots -> Slot]
        OBVIOUS
      <3> QED
        BY <3>1, <2>2, <2>3
    <2> QED
      BY <1>3, <2>4 DEF ReserveSlot
  <1>4. ASSUME FinishWrite(t) PROVE TypeOK'
    <2>1. CurSlot(t) \in Slots
      BY SlotOfType DEF CurSlot
    <2>2. /\ AllocAt(want[t]) \in Nat
          /\ AllocOff(want[t]) \in Nat
          /\ NewHead(want[t]) \in Nat
      BY AllocType
    <2> DEFINE r == [at |-> AllocAt(want[t]), off |-> AllocOff(want[t]),
                     len |-> want[t]]
    <2>3. r \in ArenaRange
      BY <2>2 DEF ArenaRange
    <2>4. slots[CurSlot(t)].data \cup {r} \in SUBSET ArenaRange
      BY <2>1, <2>3 DEF Slot
    <2> DEFINE c == slots[CurSlot(t)]
               d == [c EXCEPT !.data = c.data \cup {r},
                              !.data_watermark = NewHead(want[t]),
                              !.data_watermark_valid = TRUE]
    <2>5. d \in Slot
      <3>1. c \in Slot
        BY <2>1
      <3> HIDE DEF c, r
      <3> QED
        BY <3>1, <2>2, <2>4 DEF Slot, c
    <2>6. slots' = [slots EXCEPT ![CurSlot(t)] = d]
      BY <1>4 DEF FinishWrite
    <2>7. slots' \in [Slots -> Slot]
      BY <2>1, <2>5, <2>6
    <2> QED
      BY <1>4, <2>2, <2>7 DEF FinishWrite
  <1>5. ASSUME Publish(t) PROVE TypeOK'
    <2>1. CurSlot(t) \in Slots
      BY SlotOfType DEF CurSlot
    <2>2. NeedsResponse(op[t]) \in 0 .. 2
      BY DEF NeedsResponse, Ops
    <2> DEFINE i == CurSlot(t)
               n == NeedsResponse(op[t])
               d == [slots[i] EXCEPT !.needs_response = n]
    <2>3. slots' \in [Slots -> Slot]
      <3>1. slots[i] \in Slot /\ slots \in [Slots -> Slot] /\ n \in 0 .. 2
        BY <2>1, <2>2
      <3>2. slots' = [slots EXCEPT ![i] = d]
        BY <1>5 DEF Publish
      <3>3. d \in Slot
        <4> HIDE DEF i, n
        <4> QED
          BY <3>1 DEF Slot
      <3> HIDE DEF i, d
      <3> QED
        BY <3>1, <3>2, <3>3
    <2>4. WaitsFor(op[t], g_cur_seq[t]) \in Seqs
      BY DEF WaitsFor, Ops
    <2> QED
      BY <1>5, <2>3, <2>4 DEF Publish
  <1>6. ASSUME WakeProxy(t) PROVE TypeOK'
    BY <1>6 DEF WakeProxy
  <1>7. ASSUME Sleep(t) PROVE TypeOK'
    BY <1>7 DEF Sleep
  <1>8. ASSUME WakeUp(t) PROVE TypeOK'
    BY <1>8 DEF WakeUp
  <1>9. ASSUME FinishSend(t) PROVE TypeOK'
    <2>1. slots[CurSlot(t)].result \in Seqs
      BY SlotOfType DEF CurSlot, Slot
    <2>2. reply' \in [Threads -> Reply]
      BY <1>9, <2>1 DEF FinishSend, Reply
    <2> QED
      BY <1>9, <2>2 DEF FinishSend
  <1>10. ASSUME Return(t) PROVE TypeOK'
    BY <1>10 DEF Return, Ops
  <1> QED
    BY <1>1, <1>2, <1>3, <1>4, <1>5, <1>6, <1>7, <1>8, <1>9, <1>10 DEF Send

(* The proxy's actions keep the types.                                     *)
LEMMA ProxyTypeOK == TypeOK /\ Proxy => TypeOK'
  <1> SUFFICES ASSUME TypeOK, Proxy PROVE TypeOK'
    OBVIOUS
  <1> USE DEF TypeOK, Seqs, NoSeq, ProxyPCs, ProxyUnchanged, threadVars
  <1>0. Oldest \in Slots
    BY SlotOfType DEF Oldest
  <1>1. CASE ProxyIdle
    BY <1>1 DEF ProxyIdle
  <1>2. CASE ProxyArm
    BY <1>2 DEF ProxyArm
  <1>3. CASE ProxyRecheck
    BY <1>3 DEF ProxyRecheck
  <1>4. CASE ProxyWoken
    BY <1>4 DEF ProxyWoken
  <1>5. CASE ProxyDisarm
    BY <1>5 DEF ProxyDisarm
  <1>6. CASE ProxyDispatch
    <2>1. slots[Oldest].call \in Seqs
      BY <1>0 DEF Slot
    <2> DEFINE i == Oldest
               d == [slots[i] EXCEPT !.result = slots[i].call]
    <2>2. slots' \in [Slots -> Slot]
      <3>1. slots[i] \in Slot /\ slots \in [Slots -> Slot]
        BY <1>0
      <3>2. slots' = slots \/ slots' = [slots EXCEPT ![i] = d]
        BY <1>6 DEF ProxyDispatch
      <3>3. d \in Slot
        <4> HIDE DEF i
        <4> QED
          BY <2>1, <3>1 DEF Slot
      <3> HIDE DEF i, d
      <3> QED
        BY <3>1, <3>2, <3>3
    <2>3. ran' \in Seq(Seqs)
      BY <1>6, <2>1 DEF ProxyDispatch
    <2> QED
      BY <1>6, <2>1, <2>2, <2>3 DEF ProxyDispatch
  <1>7. CASE ProxyRelease
    <2>1. /\ slots[Oldest].data_watermark \in Nat
          /\ slots[Oldest].needs_response \in 0 .. 2
      BY <1>0 DEF Slot
    <2> QED
      BY <1>7, <2>1 DEF ProxyRelease
  <1>8. CASE ProxyComplete
    BY <1>8 DEF ProxyComplete
  <1>9. CASE ProxyRespond
    BY <1>9 DEF ProxyRespond
  <1> QED
    BY <1>1, <1>2, <1>3, <1>4, <1>5, <1>6, <1>7, <1>8, <1>9 DEF Proxy

(* Every variable of stub and proxy keeps its type, whatever the number of *)
(* threads and the size of ring and arena.                                 *)
THEOREM TypeCorrect == Spec => []TypeOK
  <1>1. TypeOK /\ UNCHANGED vars => TypeOK'
    BY DEF TypeOK, vars, stubVars, threadVars, proxyVars
  <1>2. TypeOK /\ [Next]_vars => TypeOK'
    BY <1>1, StubTypeOK, ProxyTypeOK DEF Next
  <1> QED
    BY InitTypeOK, <1>2, PTL DEF Spec

-----------------------------------------------------------------------------
(* The parts of RingInv *)

(* Two calls less than a ring apart have different slots.                  *)
LEMMA SlotsApart ==
  ASSUME NEW s1 \in Nat, NEW s2 \in Nat, s1 < s2, s2 < s1 + SLOTS
  PROVE  SlotOf(s1) # SlotOf(s2)
  BY RingAssumption, ModApart DEF SlotOf

-----------------------------------------------------------------------------
(* g_lock and the cursors *)

(* Only the lock holder moves inside a send, and a new holder starts only  *)
(* when g_lock is free.                                                    *)
LEMMA LockStep == TypeOK /\ LockInv /\ [Next]_vars => LockInv'
  <1> SUFFICES ASSUME TypeOK, LockInv, [Next]_vars PROVE LockInv'
    OBVIOUS
  <1> USE RingAssumption DEF TypeOK, LockInv, Filling, Sending, Goto, stubVars,
          threadVars, proxyVars, StubPCs
  <1>1. ASSUME NEW t \in Threads, NEW o \in Kinds, AcquireLock(t, o)
        PROVE  LockInv'
    BY <1>1 DEF AcquireLock
  <1>2. ASSUME NEW t \in Threads, NEW size \in Sizes, StartWrite(t, size)
        PROVE  LockInv'
    BY <1>2 DEF StartWrite
  <1>3. ASSUME NEW t \in Threads, Send(t)
        PROVE  LockInv'
    <2>1. ASSUME ReserveSlot(t) PROVE LockInv'
      BY <2>1 DEF ReserveSlot
    <2>2. ASSUME FinishWrite(t) PROVE LockInv'
      BY <2>2 DEF FinishWrite
    <2>3. ASSUME Publish(t) PROVE LockInv'
      BY <2>3 DEF Publish
    <2>4. ASSUME WakeProxy(t) PROVE LockInv'
      BY <2>4 DEF WakeProxy
    <2>5. ASSUME Sleep(t) PROVE LockInv'
      BY <2>5 DEF Sleep
    <2>6. ASSUME WakeUp(t) PROVE LockInv'
      BY <2>6 DEF WakeUp
    <2>7. ASSUME FinishSend(t) PROVE LockInv'
      BY <2>7 DEF FinishSend
    <2>8. ASSUME Return(t) PROVE LockInv'
      BY <2>8 DEF Return
    <2> QED
      BY <1>3, <2>1, <2>2, <2>3, <2>4, <2>5, <2>6, <2>7, <2>8 DEF Send
  <1>4. ASSUME Proxy
        PROVE  LockInv'
    BY <1>4
    DEF Proxy, ProxyUnchanged, ProxyIdle, ProxyArm, ProxyRecheck, ProxyWoken,
        ProxyDisarm, ProxyDispatch, ProxyRelease, ProxyComplete, ProxyRespond
  <1>5. ASSUME UNCHANGED vars
        PROVE  LockInv'
    BY <1>5 DEF vars
  <1> QED
    BY <1>1, <1>2, <1>3, <1>4, <1>5 DEF Next

(* g_lock is held by the one thread that is inside a send, if any.         *)
THEOREM LockCorrect == Spec => []LockInv
  <1>1. Init => LockInv
    BY RingAssumption DEF Init, LockInv, Filling, Sending
  <1> QED
    BY <1>1, LockStep, TypeCorrect, PTL DEF Spec

(* completed_seq <= published_seq <= g_local_seq <= completed_seq + SLOTS, *)
(* with one step per action.                                               *)
LEMMA CursorStep ==
  TypeOK /\ LockInv /\ CursorInv /\ [Next]_vars => CursorInv'
  <1> SUFFICES ASSUME TypeOK, LockInv, CursorInv, [Next]_vars
               PROVE  CursorInv'
    OBVIOUS
  <1> USE DEF TypeOK, LockInv, CursorInv, Filling, Sending, Dispatched, Goto,
              stubVars, threadVars, proxyVars
  <1>0. SLOTS \in Nat
    BY RingAssumption
  <1>1. ASSUME NEW t \in Threads, NEW o \in Kinds, AcquireLock(t, o)
        PROVE  CursorInv'
    BY <1>0, <1>1 DEF AcquireLock
  <1>2. ASSUME NEW t \in Threads, NEW size \in Sizes, StartWrite(t, size)
        PROVE  CursorInv'
    BY <1>0, <1>2 DEF StartWrite
  <1>3. ASSUME NEW t \in Threads, Send(t)
        PROVE  CursorInv'
    <2>1. ASSUME ReserveSlot(t) PROVE CursorInv'
      <3>1. /\ g_local_seq' = g_local_seq + 1
            /\ g_local_seq - completed_seq < SLOTS
            /\ UNCHANGED <<completed_seq, published_seq, proxy_pc>>
            /\ g_cur_seq' = [g_cur_seq EXCEPT ![t] = g_local_seq]
            /\ pc' = [pc EXCEPT ![t] = "fill"]
            /\ g_lock = t
        BY <2>1 DEF ReserveSlot, RingHasRoom
      <3>2. \A u \in Threads : ~Filling(u)
        BY <2>1 DEF ReserveSlot
      <3>3. g_local_seq = published_seq
        BY <3>2
      <3>4. \A u \in Threads \ {t} :
              /\ ~(Filling(u))' /\ ~(Sending(u))'
        BY <2>1, <3>1 DEF ReserveSlot
      <3>5. (Filling(t))' /\ ~(Sending(t))' /\ g_cur_seq'[t] = g_local_seq
        BY <3>1
      <3> QED
        BY <1>0, <3>1, <3>3, <3>4, <3>5
    <2>2. ASSUME FinishWrite(t) PROVE CursorInv'
      BY <1>0, <2>2 DEF FinishWrite
    <2>3. ASSUME Publish(t) PROVE CursorInv'
      BY <1>0, <2>3 DEF Publish
    <2>4. ASSUME WakeProxy(t) PROVE CursorInv'
      BY <1>0, <2>4 DEF WakeProxy
    <2>5. ASSUME Sleep(t) PROVE CursorInv'
      BY <1>0, <2>5 DEF Sleep
    <2>6. ASSUME WakeUp(t) PROVE CursorInv'
      BY <1>0, <2>6 DEF WakeUp
    <2>7. ASSUME FinishSend(t) PROVE CursorInv'
      BY <1>0, <2>7 DEF FinishSend
    <2>8. ASSUME Return(t) PROVE CursorInv'
      BY <1>0, <2>8 DEF Return
    <2> QED
      BY <1>3, <2>1, <2>2, <2>3, <2>4, <2>5, <2>6, <2>7, <2>8 DEF Send
  <1>4. ASSUME Proxy
        PROVE  CursorInv'
    <2>1. ASSUME ProxyDispatch PROVE CursorInv'
      BY <1>0, <2>1 DEF ProxyDispatch, ProxyUnchanged, CaughtUp
    <2>2. ASSUME ProxyComplete PROVE CursorInv'
      BY <1>0, <2>2 DEF ProxyComplete, ProxyUnchanged
    <2> QED
      BY <1>0, <1>4, <2>1, <2>2
      DEF Proxy, ProxyUnchanged, ProxyIdle, ProxyArm, ProxyRecheck,
          ProxyWoken, ProxyDisarm, ProxyRelease, ProxyRespond
  <1>5. ASSUME UNCHANGED vars
        PROVE  CursorInv'
    BY <1>5 DEF vars
  <1> QED
    BY <1>1, <1>2, <1>3, <1>4, <1>5 DEF Next

THEOREM CursorCorrect == Spec => []CursorInv
  <1>1. Init => CursorInv
    BY RingAssumption DEF Init, CursorInv, Filling, Sending, Dispatched
  <1> QED
    BY <1>1, CursorStep, TypeCorrect, LockCorrect, PTL DEF Spec

-----------------------------------------------------------------------------
(* The slots *)

(* At most one thread is inside a send.                                    *)
LEMMA OneInside ==
  ASSUME LockInv, NEW t1 \in Threads, NEW t2 \in Threads,
         Filling(t1) \/ Sending(t1) \/ pc[t1] = "begin",
         Filling(t2) \/ Sending(t2) \/ pc[t2] = "begin"
  PROVE  t1 = t2
  BY DEF LockInv

(* Calls in flight have different slots, and the next call another one.    *)
LEMMA InFlightSlots ==
  ASSUME TypeOK, CursorInv
  PROVE  /\ \A s \in InFlight : s \in Nat /\ SlotOf(s) \in Slots
         /\ \A s1, s2 \in InFlight : SlotOf(s1) = SlotOf(s2) => s1 = s2
         /\ RingHasRoom => /\ SlotOf(g_local_seq) \in Slots
                           /\ \A s \in InFlight :
                                SlotOf(s) # SlotOf(g_local_seq)
  <1>1. SLOTS \in Nat
    BY RingAssumption
  <1>2. \A s \in InFlight : s \in Nat /\ SlotOf(s) \in Slots
    BY SlotOfType DEF InFlight, TypeOK
  <1>3. ASSUME NEW s1 \in InFlight, NEW s2 \in InFlight, s1 < s2
        PROVE  SlotOf(s1) # SlotOf(s2)
    <2>1. s2 < s1 + SLOTS
      BY <1>1 DEF InFlight, TypeOK, CursorInv
    <2> QED
      BY <1>2, <1>3, <2>1, SlotsApart
  <1>4. ASSUME RingHasRoom, NEW s \in InFlight
        PROVE  SlotOf(s) # SlotOf(g_local_seq)
    <2>1. s < g_local_seq /\ g_local_seq < s + SLOTS
      BY <1>1, <1>4 DEF InFlight, TypeOK, CursorInv, RingHasRoom
    <2> QED
      BY <1>2, <2>1, SlotsApart DEF TypeOK
  <1>5. SlotOf(g_local_seq) \in Slots
    BY SlotOfType DEF TypeOK
  <1>6. \A s1, s2 \in InFlight : s1 < s2 \/ s2 < s1 \/ s1 = s2
    BY <1>2
  <1> QED
    BY <1>2, <1>3, <1>4, <1>5, <1>6

(* A published call is in flight; so is the oldest one while it runs, and  *)
(* the one being filled.                                                   *)
LEMMA PublishedInFlight ==
  ASSUME TypeOK, CursorInv
  PROVE  /\ Published \subseteq InFlight
         /\ proxy_pc \in {"release", "complete"} => completed_seq \in Published
         /\ \A t \in Threads : Filling(t) => g_cur_seq[t] \in InFlight
         /\ \A t \in Threads : Filling(t) => g_cur_seq[t] \notin Published
  BY DEF TypeOK, CursorInv, Published, InFlight, Dispatched

(* Until its completion a slot is changed only by its owner's send.        *)
LEMMA SlotStep ==
  /\ TypeOK /\ LockInv /\ CursorInv /\ SlotInv
  /\ [Next]_vars
  => SlotInv'
  <1> SUFFICES ASSUME TypeOK, LockInv, CursorInv, SlotInv, [Next]_vars
               PROVE  SlotInv'
    OBVIOUS
  <1> USE DEF TypeOK, SlotInv, SlotIntact, Published, InFlight, Goto,
              CurSlot, Oldest, Filling, Sending, stubVars, threadVars,
              proxyVars
  <1>s. \A s \in Nat : SlotOf(s) \in Slots
    BY SlotOfType
  <1>1. ASSUME NEW t \in Threads, NEW o \in Kinds, AcquireLock(t, o)
        PROVE  SlotInv'
    BY <1>1 DEF AcquireLock
  <1>2. ASSUME NEW t \in Threads, NEW size \in Sizes, StartWrite(t, size)
        PROVE  SlotInv'
    BY <1>2 DEF StartWrite
  <1>3. ASSUME NEW t \in Threads, Send(t)
        PROVE  SlotInv'
    <2>1. ASSUME ReserveSlot(t) PROVE SlotInv'
      <3>1. \A u \in Threads : u # t => ~Filling(u) /\ ~Sending(u)
        BY <2>1 DEF ReserveSlot, LockInv
      <3>2. \A s \in InFlight : slots'[SlotOf(s)] = slots[SlotOf(s)]
        BY <2>1, InFlightSlots DEF ReserveSlot
      <3>3. /\ slots'[SlotOf(g_local_seq)].call = g_local_seq
            /\ slots'[SlotOf(g_local_seq)].op = op[t]
        BY <2>1, <1>s DEF ReserveSlot, Slot
      <3>4. ASSUME NEW s \in InFlight'
            PROVE  slots'[SlotOf(s)].call = s
        <4>1. s \in InFlight \/ s = g_local_seq
          BY <2>1 DEF ReserveSlot
        <4>2. CASE s \in InFlight
          <5>1. slots[SlotOf(s)].call = s
            BY <4>2 DEF SlotIntact
          <5> QED
            BY <4>2, <5>1, <3>2
        <4> QED
          BY <4>1, <4>2, <3>3
      <3> QED
        BY <2>1, <3>1, <3>2, <3>3, <3>4, PublishedInFlight DEF ReserveSlot
    <2>2. ASSUME FinishWrite(t) PROVE SlotInv'
      <3>1. \A i \in Slots : /\ slots'[i].call = slots[i].call
                             /\ slots'[i].op = slots[i].op
                             /\ slots'[i].needs_response
                                  = slots[i].needs_response
        BY <2>2 DEF FinishWrite, Slot
      <3> QED
        BY <2>2, <3>1, <1>s DEF FinishWrite
    <2>3. ASSUME Publish(t) PROVE SlotInv'
      <3>1. \A i \in Slots : /\ slots'[i].call = slots[i].call
                             /\ slots'[i].op = slots[i].op
        BY <2>3 DEF Publish, Slot
      <3>2. \A s \in Published :
              slots'[SlotOf(s)].needs_response = slots[SlotOf(s)].needs_response
        BY <2>3, InFlightSlots, PublishedInFlight DEF Publish
      <3>3. slots'[CurSlot(t)].needs_response = NeedsResponse(op[t])
        BY <2>3, <1>s DEF Publish, Slot
      <3>4. ASSUME NEW s \in Published'
            PROVE  slots'[SlotOf(s)].needs_response
                     = NeedsResponse(slots'[SlotOf(s)].op)
        <4>1. s \in Published \/ s = g_cur_seq[t]
          BY <2>3 DEF Publish, CursorInv
        <4> QED
          BY <2>3, <4>1, <3>1, <3>2, <3>3, <1>s DEF Publish
      <3>5. SlotIntact'
        BY <2>3, <3>1, <1>s DEF Publish
      <3>6. proxy_pc = "complete" => completed_seq \in Published
        BY PublishedInFlight
      <3> QED
        BY <2>3, <3>1, <3>2, <3>4, <3>5, <3>6, <1>s DEF Publish
    <2>4. ASSUME WakeProxy(t) PROVE SlotInv'
      BY <2>4 DEF WakeProxy
    <2>5. ASSUME Sleep(t) PROVE SlotInv'
      BY <2>5 DEF Sleep
    <2>6. ASSUME WakeUp(t) PROVE SlotInv'
      BY <2>6 DEF WakeUp
    <2>7. ASSUME FinishSend(t) PROVE SlotInv'
      BY <2>7 DEF FinishSend
    <2>8. ASSUME Return(t) PROVE SlotInv'
      BY <2>8 DEF Return
    <2> QED
      BY <1>3, <2>1, <2>2, <2>3, <2>4, <2>5, <2>6, <2>7, <2>8 DEF Send
  <1>4. ASSUME Proxy
        PROVE  SlotInv'
    <2> USE DEF ProxyUnchanged
    <2>1. ASSUME ProxyDispatch PROVE SlotInv'
      <3>1. \A i \in Slots : /\ slots'[i].call = slots[i].call
                             /\ slots'[i].op = slots[i].op
                             /\ slots'[i].needs_response
                                  = slots[i].needs_response
        BY <2>1 DEF ProxyDispatch, Slot
      <3> QED
        BY <2>1, <3>1, <1>s DEF ProxyDispatch
    <2>2. ASSUME ProxyComplete PROVE SlotInv'
      BY <2>2 DEF ProxyComplete
    <2>3. ASSUME ProxyRelease PROVE SlotInv'
      BY <2>3 DEF ProxyRelease
    <2> QED
      BY <1>4, <2>1, <2>2, <2>3
      DEF Proxy, ProxyIdle, ProxyArm, ProxyRecheck, ProxyWoken, ProxyDisarm,
          ProxyRespond
  <1>5. ASSUME UNCHANGED vars
        PROVE  SlotInv'
    BY <1>5 DEF vars
  <1> QED
    BY <1>1, <1>2, <1>3, <1>4, <1>5 DEF Next

THEOREM SlotCorrect == Spec => []SlotInv
  <1>1. Init => SlotInv
    BY DEF Init, SlotInv, SlotIntact, InFlight, Published, Filling, Sending
  <1> QED
    BY <1>1, SlotStep, TypeCorrect, LockCorrect, CursorCorrect, PTL DEF Spec

(* A slot keeps its call until the proxy has completed it, whatever the    *)
(* size of the ring and the number of threads that queue for it.           *)
THEOREM SlotsIntact == Spec => []SlotIntact
  <1>1. SlotInv => SlotIntact
    BY DEF SlotInv
  <1> QED
    BY <1>1, SlotCorrect, PTL

-----------------------------------------------------------------------------
(* Who waits for what *)

(* The proxy's steps that touch the slots or the completion counter.       *)
LEMMA ProxyFrame ==
  Proxy => /\ ProxyUnchanged
           /\ \/ ProxyDispatch
              \/ ProxyComplete
              \/ UNCHANGED <<slots, completed_seq>>
  BY DEF Proxy, ProxyIdle, ProxyArm, ProxyRecheck, ProxyWoken, ProxyDisarm,
         ProxyDispatch, ProxyRelease, ProxyComplete, ProxyRespond

LEMMA WaitStep ==
  /\ TypeOK /\ LockInv /\ CursorInv /\ SlotInv /\ WaitInv
  /\ [Next]_vars
  => WaitInv'
  <1> SUFFICES ASSUME TypeOK, LockInv, CursorInv, SlotInv, WaitInv,
                      [Next]_vars
               PROVE  WaitInv'
    OBVIOUS
  <1> USE DEF TypeOK, WaitInv, WaitsFor, Published, Goto, Filling, Sending,
              Seqs, NoSeq, stubVars, threadVars, proxyVars
  <1>s. \A s \in Nat : SlotOf(s) \in Slots
    BY SlotOfType
  <1> DEFINE SameWaits ==
        /\ \A s \in Published : slots'[SlotOf(s)].op = slots[SlotOf(s)].op
        /\ Published' \subseteq Published
        /\ UNCHANGED <<published_seq, g_pending_swap_seq, op, wait_seq,
                       g_cur_seq>>
        /\ \A u \in Threads : Sending(u)' <=> Sending(u)
        /\ \A u \in Threads :
             pc'[u] \in {"wait", "sleep"} => pc[u] \in {"wait", "sleep"}
  <1>p. ASSUME SameWaits PROVE WaitInv'
    <2>1. Published' \subseteq Published
      BY <1>p
    <2>2. \A u \in Threads :
            /\ Sending(u)' => wait_seq'[u] = WaitsFor(op[u], g_cur_seq[u])'
            /\ pc'[u] \in {"wait", "sleep"} => op'[u] # "void"
      BY <1>p
    <2>3. g_pending_swap_seq' \in Published'
            => slots'[SlotOf(g_pending_swap_seq')].op = "swap"
      BY <1>p, <2>1
    <2>4. ASSUME NEW s \in Published', slots'[SlotOf(s)].op # "void"
          PROVE  \/ \E u \in Threads : Sending(u)' /\ g_cur_seq'[u] = s
                 \/ /\ slots'[SlotOf(s)].op = "swap"
                    /\ s = g_pending_swap_seq'
      <3> HIDE DEF Published, Sending
      <3> QED
        BY <1>p, <2>1, <2>4
    <2> QED
      BY <1>p, <2>2, <2>3, <2>4
  <1> HIDE DEF SameWaits
  <1>1. ASSUME NEW t \in Threads, NEW o \in Kinds, AcquireLock(t, o)
        PROVE  WaitInv'
    BY <1>1 DEF AcquireLock
  <1>2. ASSUME NEW t \in Threads, NEW size \in Sizes, StartWrite(t, size)
        PROVE  WaitInv'
    BY <1>2 DEF StartWrite
  <1>3. ASSUME NEW t \in Threads, Send(t)
        PROVE  WaitInv'
    <2>1. ASSUME ReserveSlot(t) PROVE WaitInv'
      <3>1. \A u \in Threads : u # t => ~Filling(u) /\ ~Sending(u)
        BY <2>1 DEF ReserveSlot, LockInv
      <3>2. \A s \in Published : slots'[SlotOf(s)] = slots[SlotOf(s)]
        BY <2>1, InFlightSlots, PublishedInFlight DEF ReserveSlot
      <3> QED
        BY <2>1, <3>1, <3>2 DEF ReserveSlot
    <2>2. ASSUME FinishWrite(t) PROVE WaitInv'
      <3>1. \A i \in Slots : slots'[i].op = slots[i].op
        BY <2>2 DEF FinishWrite, Slot
      <3>2. SameWaits
        BY <2>2, <3>1, <1>s DEF FinishWrite, SameWaits
      <3> QED
        BY <3>2, <1>p
    <2>3. ASSUME Publish(t) PROVE WaitInv'
      <3>1. \A u \in Threads : u # t => ~Filling(u) /\ ~Sending(u)
        BY <2>3 DEF Publish, LockInv
      <3>2. \A i \in Slots : slots'[i].op = slots[i].op
        BY <2>3 DEF Publish, Slot
      <3>3. g_cur_seq[t] = published_seq
        BY <2>3 DEF Publish, CursorInv
      <3>4. slots'[SlotOf(g_cur_seq[t])].op = op[t]
        BY <2>3, <3>2, <1>s DEF Publish, SlotInv, CurSlot
      <3>5. ASSUME NEW s \in Published', slots'[SlotOf(s)].op # "void"
            PROVE  \/ \E u \in Threads : Sending(u)' /\ g_cur_seq'[u] = s
                   \/ /\ slots'[SlotOf(s)].op = "swap"
                      /\ s = g_pending_swap_seq'
        <4>1. CASE s = g_cur_seq[t]
          BY <2>3, <4>1 DEF Publish
        <4>2. CASE s \in Published
          BY <2>3, <3>1, <3>2, <3>5, <4>2, <1>s DEF Publish
        <4> QED
          BY <2>3, <3>3, <4>1, <4>2 DEF Publish
      <3>6. /\ g_pending_swap_seq' < published_seq'
            /\ g_pending_swap_seq' \in Published'
                 => slots'[SlotOf(g_pending_swap_seq')].op = "swap"
        BY <2>3, <3>2, <3>3, <1>s DEF Publish
      <3>7. \A u \in Threads :
              /\ Sending(u)' => wait_seq'[u] = WaitsFor(op[u], g_cur_seq[u])'
              /\ pc'[u] \in {"wait", "sleep"} => op'[u] # "void"
        BY <2>3, <3>1 DEF Publish
      <3> QED
        BY <2>3, <3>5, <3>6, <3>7 DEF Publish
    <2>4. ASSUME WakeProxy(t) PROVE WaitInv'
      <3>1. slots[SlotOf(g_cur_seq[t])].op = op[t]
        BY <2>4 DEF WakeProxy, SlotInv, CurSlot
      <3>2. \A s \in Published : slots[SlotOf(s)].op # "void" =>
              \/ \E u \in Threads : Sending(u)' /\ g_cur_seq[u] = s
              \/ slots[SlotOf(s)].op = "swap" /\ s = g_pending_swap_seq
        BY <2>4, <3>1 DEF WakeProxy
      <3> QED
        BY <2>4, <3>2 DEF WakeProxy
    <2>5. ASSUME Sleep(t) PROVE WaitInv'
      BY <2>5 DEF Sleep
    <2>6. ASSUME WakeUp(t) PROVE WaitInv'
      BY <2>6 DEF WakeUp
    <2>7. ASSUME FinishSend(t) PROVE WaitInv'
      <3>1. \A u \in Threads : u # t => ~Filling(u) /\ ~Sending(u)
        BY <2>7 DEF FinishSend, LockInv
      <3>2. /\ g_cur_seq[t] + 1 = published_seq
            /\ slots[SlotOf(g_cur_seq[t])].op = op[t]
        BY <2>7 DEF FinishSend, CursorInv, SlotInv, CurSlot
      <3>3. /\ completed_seq > WaitsFor(op[t], g_cur_seq[t])
            /\ op[t] \in {"call", "swap"}
        BY <2>7 DEF FinishSend, CompletedOf, Ops
      <3>4. CASE op[t] = "swap" /\ AsyncSwap
        <4>1. g_pending_swap_seq' = g_cur_seq[t]
          BY <2>7, <3>4 DEF FinishSend
        <4>2. ASSUME NEW s \in Published, slots[SlotOf(s)].op # "void"
              PROVE  slots[SlotOf(s)].op = "swap" /\ s = g_cur_seq[t]
          <5>1. s # g_pending_swap_seq
            BY <3>3, <3>4
          <5>2. PICK u \in Threads : Sending(u) /\ g_cur_seq[u] = s
            BY <4>2, <5>1
          <5>3. u = t
            BY <3>1, <5>2
          <5> QED
            BY <3>2, <3>4, <5>2, <5>3
        <4> QED
          BY <2>7, <3>1, <3>2, <3>4, <4>1, <4>2 DEF FinishSend
      <3>5. CASE ~(op[t] = "swap" /\ AsyncSwap)
        <4>1. g_pending_swap_seq' = g_pending_swap_seq
          BY <2>7, <3>5 DEF FinishSend
        <4>2. g_cur_seq[t] \notin Published
          BY <3>3, <3>5
        <4> QED
          BY <2>7, <3>1, <4>1, <4>2 DEF FinishSend
      <3> QED
        BY <3>4, <3>5
    <2>8. ASSUME Return(t) PROVE WaitInv'
      BY <2>8 DEF Return
    <2> QED
      BY <1>3, <2>1, <2>2, <2>3, <2>4, <2>5, <2>6, <2>7, <2>8 DEF Send
  <1>4. ASSUME Proxy
        PROVE  WaitInv'
    <2>1. ASSUME ProxyDispatch PROVE WaitInv'
      <3>1. \A i \in Slots : slots'[i].op = slots[i].op
        BY <2>1 DEF ProxyDispatch, Slot
      <3>2. SameWaits
        BY <2>1, <3>1, <1>s DEF ProxyDispatch, ProxyUnchanged, SameWaits
      <3> QED
        BY <3>2, <1>p
    <2>2. ASSUME ProxyComplete PROVE WaitInv'
      <3>1. SameWaits
        BY <2>2 DEF ProxyComplete, ProxyUnchanged, SameWaits
      <3> QED
        BY <3>1, <1>p
    <2>3. ASSUME UNCHANGED <<slots, completed_seq>>, ProxyUnchanged
          PROVE  WaitInv'
      <3>1. SameWaits
        BY <2>3 DEF SameWaits, ProxyUnchanged
      <3> QED
        BY <3>1, <1>p
    <2> QED
      BY ONLY <1>4, <2>1, <2>2, <2>3, ProxyFrame
  <1>5. ASSUME UNCHANGED vars
        PROVE  WaitInv'
    BY <1>5 DEF vars
  <1> QED
    BY <1>1, <1>2, <1>3, <1>4, <1>5 DEF Next

THEOREM WaitCorrect == Spec => []WaitInv
  <1>1. Init => WaitInv
    BY DEF Init, WaitInv, Published, Sending, NoSeq
  <1> QED
    BY <1>1, WaitStep, TypeCorrect, LockCorrect, CursorCorrect, SlotCorrect,
       PTL DEF Spec

(* At most one blocking call is published and not completed, which is what *)
(* lets all of them share one result buffer.                               *)
THEOREM OneCallAtATime == Spec => []OneBlockingCall
  <1>1. TypeOK /\ LockInv /\ WaitInv => OneBlockingCall
    <2> SUFFICES ASSUME TypeOK, LockInv, WaitInv,
                        NEW s1 \in Published, NEW s2 \in Published,
                        slots[SlotOf(s1)].op = "call",
                        slots[SlotOf(s2)].op = "call"
                 PROVE  s1 = s2
      BY DEF OneBlockingCall, Published
    <2>1. PICK t1 \in Threads : Sending(t1) /\ g_cur_seq[t1] = s1
      BY DEF WaitInv
    <2>2. PICK t2 \in Threads : Sending(t2) /\ g_cur_seq[t2] = s2
      BY DEF WaitInv
    <2>3. t1 = t2
      BY <2>1, <2>2, OneInside
    <2> QED
      BY <2>1, <2>2, <2>3
  <1> QED
    BY <1>1, TypeCorrect, LockCorrect, WaitCorrect, PTL

(* bridge_send_swap() leaves at most one frame behind that is not shown:   *)
(* g_pending_swap_seq is the only published swap without a waiting thread. *)
THEOREM OneFrameAhead == Spec => []SwapDepth
  <1>1. WaitInv => SwapDepth
    BY DEF WaitInv, SwapDepth, Published
  <1> QED
    BY <1>1, WaitCorrect, PTL

-----------------------------------------------------------------------------
(* Answers *)

LEMMA AnswerStep ==
  /\ TypeOK /\ LockInv /\ CursorInv /\ SlotInv /\ WaitInv /\ AnswerInv
  /\ [Next]_vars
  => AnswerInv'
  <1> SUFFICES ASSUME TypeOK, LockInv, CursorInv, SlotInv, WaitInv,
                      AnswerInv, [Next]_vars
               PROVE  AnswerInv'
    OBVIOUS
  <1> USE DEF TypeOK, AnswerInv, ReplyIsOwn, Dispatched, Goto, CurSlot,
              Sending, stubVars, threadVars, proxyVars
  <1>s. \A s \in Nat : SlotOf(s) \in Slots
    BY SlotOfType
  <1>1. ASSUME NEW t \in Threads, NEW o \in Kinds, AcquireLock(t, o)
        PROVE  AnswerInv'
    BY <1>1 DEF AcquireLock
  <1>2. ASSUME NEW t \in Threads, NEW size \in Sizes, StartWrite(t, size)
        PROVE  AnswerInv'
    BY <1>2 DEF StartWrite
  <1>3. ASSUME NEW t \in Threads, Send(t)
        PROVE  AnswerInv'
    <2>1. ASSUME ReserveSlot(t) PROVE AnswerInv'
      <3>1. \A u \in Threads : u # t => ~Sending(u)
        BY <2>1 DEF ReserveSlot, LockInv
      <3> QED
        BY <2>1, <3>1 DEF ReserveSlot
    <2>2. ASSUME FinishWrite(t) PROVE AnswerInv'
      <3>1. \A u \in Threads : u # t => ~Sending(u)
        BY <2>2 DEF FinishWrite, LockInv, Filling
      <3> QED
        BY <2>2, <3>1 DEF FinishWrite
    <2>3. ASSUME Publish(t) PROVE AnswerInv'
      <3>1. \A u \in Threads : u # t => ~Sending(u)
        BY <2>3 DEF Publish, LockInv, Filling
      <3>2. ~(g_cur_seq[t] < Dispatched)
        BY <2>3 DEF Publish, CursorInv, Filling
      <3> QED
        BY <2>3, <3>1, <3>2 DEF Publish
    <2>4. ASSUME WakeProxy(t) PROVE AnswerInv'
      BY <2>4 DEF WakeProxy
    <2>5. ASSUME Sleep(t) PROVE AnswerInv'
      BY <2>5 DEF Sleep
    <2>6. ASSUME WakeUp(t) PROVE AnswerInv'
      BY <2>6 DEF WakeUp
    <2>7. ASSUME FinishSend(t) PROVE AnswerInv'
      <3>1. op[t] = "call" \/ (op[t] = "swap" /\ ~AsyncSwap)
              => g_cur_seq[t] < completed_seq
        BY <2>7 DEF FinishSend, CompletedOf, WaitInv, WaitsFor
      <3>2. /\ op[t] = "call" \/ (op[t] = "swap" /\ ~AsyncSwap)
                 => slots[SlotOf(g_cur_seq[t])].result = g_cur_seq[t]
            /\ op[t] = "call" => result_buf = g_cur_seq[t]
        <4>1. Sending(t)
          BY <2>7 DEF FinishSend
        <4>2. g_cur_seq[t] < completed_seq => g_cur_seq[t] < Dispatched
          OBVIOUS
        <4> QED
          BY <3>1, <4>1, <4>2
      <3>3. op[t] = "call" =>
              reply'[t] = [val |-> g_cur_seq[t], buf |-> g_cur_seq[t]]
        BY <2>7, <3>2 DEF FinishSend
      <3>4. op[t] = "swap" /\ ~AsyncSwap => reply'[t].val = g_cur_seq[t]
        BY <2>7, <3>2 DEF FinishSend
      <3> QED
        BY <2>7, <3>3, <3>4 DEF FinishSend
    <2>8. ASSUME Return(t) PROVE AnswerInv'
      BY <2>8 DEF Return
    <2> QED
      BY <1>3, <2>1, <2>2, <2>3, <2>4, <2>5, <2>6, <2>7, <2>8 DEF Send
  <1>4. ASSUME Proxy
        PROVE  AnswerInv'
    <2>1. ASSUME ProxyDispatch PROVE AnswerInv'
      <3>0. completed_seq < published_seq
        BY <2>1 DEF ProxyDispatch, CaughtUp
      <3>1. slots[Oldest].call = completed_seq
        BY <3>0 DEF SlotInv, SlotIntact, InFlight, CursorInv, Oldest
      <3>2. ran' = Append(ran, completed_seq) /\ Len(ran) = completed_seq
        BY <2>1, <3>1 DEF ProxyDispatch
      <3>3. /\ Len(ran') = completed_seq + 1
            /\ \A i \in 1 .. Len(ran') : ran'[i] = i - 1
        BY <3>2
      <3>4. ASSUME NEW u \in Threads, Sending(u)', g_cur_seq[u] < Dispatched'
            PROVE  /\ op[u] # "void"
                        => slots'[SlotOf(g_cur_seq[u])].result = g_cur_seq[u]
                   /\ op[u] = "call" => result_buf' = g_cur_seq[u]
        <4>1. Sending(u) /\ g_cur_seq[u] < completed_seq + 1
          BY <2>1, <3>4 DEF ProxyDispatch, ProxyUnchanged
        <4>2. g_cur_seq[u] = completed_seq
          BY <3>0, <4>1 DEF CursorInv
        <4>3. slots[Oldest].op = op[u]
          BY <4>1, <4>2 DEF SlotInv, Oldest
        <4> QED
          BY <2>1, <3>1, <4>2, <4>3, <1>s DEF ProxyDispatch, Oldest, Slot
      <3> QED
        BY <2>1, <3>3, <3>4 DEF ProxyDispatch, ProxyUnchanged
    <2>2. ASSUME ProxyRelease PROVE AnswerInv'
      BY <2>2 DEF ProxyRelease, ProxyUnchanged
    <2>3. ASSUME ProxyComplete PROVE AnswerInv'
      BY <2>3 DEF ProxyComplete, ProxyUnchanged
    <2>4. ASSUME ProxyRespond PROVE AnswerInv'
      BY <2>4 DEF ProxyRespond, ProxyUnchanged
    <2>5. ASSUME ProxyIdle \/ ProxyArm \/ ProxyRecheck \/ ProxyWoken
                   \/ ProxyDisarm
          PROVE  AnswerInv'
      BY <2>5 DEF ProxyIdle, ProxyArm, ProxyRecheck, ProxyWoken, ProxyDisarm,
                  ProxyUnchanged
    <2> QED
      BY <1>4, <2>1, <2>2, <2>3, <2>4, <2>5 DEF Proxy
  <1>5. ASSUME UNCHANGED vars
        PROVE  AnswerInv'
    BY <1>5 DEF vars
  <1> QED
    BY <1>1, <1>2, <1>3, <1>4, <1>5 DEF Next

THEOREM AnswerCorrect == Spec => []AnswerInv
  <1>1. Init => AnswerInv
    BY DEF Init, AnswerInv, ReplyIsOwn, Dispatched, Sending
  <1> QED
    BY <1>1, AnswerStep, TypeCorrect, LockCorrect, CursorCorrect,
       SlotCorrect, WaitCorrect, PTL DEF Spec

(* What a blocking call or a synchronous swap returns is the proxy's       *)
(* answer to that very call.                                               *)
THEOREM RepliesAreOwn == Spec => []ReplyIsOwn
  <1>1. AnswerInv => ReplyIsOwn
    BY DEF AnswerInv
  <1> QED
    BY <1>1, AnswerCorrect, PTL

-----------------------------------------------------------------------------
(* Wake-ups *)

(* When the proxy completes the call that a thread sleeps for, it has read *)
(* a needs_response that makes it post resp_efd.                           *)
LEMMA CompletionIsPosted ==
  ASSUME TypeOK, CursorInv, SlotInv, WaitInv, proxy_pc = "complete",
         NEW t \in Threads, pc[t] = "sleep", wait_seq[t] = completed_seq
  PROVE  needs_resp # 0
  <1>1. completed_seq \in Published
    BY PublishedInFlight
  <1>2. /\ Sending(t) /\ op[t] # "void"
        /\ completed_seq = WaitsFor(op[t], g_cur_seq[t])
    BY DEF WaitInv, Sending
  <1>3. /\ needs_resp = NeedsResponse(slots[SlotOf(completed_seq)].op)
        /\ slots[SlotOf(g_cur_seq[t])].op = op[t]
    BY <1>1, <1>2 DEF SlotInv, Oldest, CurSlot
  <1>4. CASE op[t] = "swap" /\ AsyncSwap
    <2>1. slots[SlotOf(completed_seq)].op = "swap"
      BY <1>1, <1>2, <1>4 DEF WaitInv, WaitsFor
    <2> QED
      BY <1>3, <1>4, <2>1 DEF NeedsResponse
  <1>5. CASE op[t] = "swap" /\ ~AsyncSwap
    BY <1>2, <1>3, <1>5 DEF WaitsFor, NeedsResponse
  <1>6. CASE op[t] = "call"
    BY <1>2, <1>3, <1>6 DEF WaitsFor, NeedsResponse
  <1> QED
    BY <1>2, <1>4, <1>5, <1>6 DEF TypeOK, Ops

LEMMA WakeStep ==
  /\ TypeOK /\ LockInv /\ CursorInv /\ SlotInv /\ WaitInv /\ WakeInv
  /\ [Next]_vars
  => WakeInv'
  <1> SUFFICES ASSUME TypeOK, LockInv, CursorInv, SlotInv, WaitInv, WakeInv,
                      [Next]_vars
               PROVE  WakeInv'
    OBVIOUS
  <1> USE DEF TypeOK, WakeInv, ProxyWillWake, SenderWillWake, CaughtUp,
              CompletedOf, Goto, Seqs, NoSeq, stubVars, threadVars, proxyVars
  <1>1. ASSUME NEW t \in Threads, NEW o \in Kinds, AcquireLock(t, o)
        PROVE  WakeInv'
    BY <1>1 DEF AcquireLock
  <1>2. ASSUME NEW t \in Threads, NEW size \in Sizes, StartWrite(t, size)
        PROVE  WakeInv'
    BY <1>2 DEF StartWrite
  <1>3. ASSUME NEW t \in Threads, Send(t)
        PROVE  WakeInv'
    <2>1. ASSUME ReserveSlot(t) PROVE WakeInv'
      BY <2>1 DEF ReserveSlot
    <2>2. ASSUME FinishWrite(t) PROVE WakeInv'
      BY <2>2 DEF FinishWrite
    <2>3. ASSUME Publish(t) PROVE WakeInv'
      BY <2>3 DEF Publish
    <2>4. ASSUME WakeProxy(t) PROVE WakeInv'
      <3>1. ProxyWillWake'
        BY <2>4 DEF WakeProxy
      <3>2. SenderWillWake'
        BY <2>4 DEF WakeProxy
      <3> QED
        BY <2>4, <3>1, <3>2 DEF WakeProxy
    <2>5. ASSUME Sleep(t) PROVE WakeInv'
      BY <2>5 DEF Sleep
    <2>6. ASSUME WakeUp(t) PROVE WakeInv'
      <3>1. \A u \in Threads : u # t => pc[u] # "sleep"
        BY <2>6 DEF WakeUp, LockInv, Sending
      <3> QED
        BY <2>6, <3>1 DEF WakeUp
    <2>7. ASSUME FinishSend(t) PROVE WakeInv'
      BY <2>7 DEF FinishSend
    <2>8. ASSUME Return(t) PROVE WakeInv'
      BY <2>8 DEF Return
    <2> QED
      BY <1>3, <2>1, <2>2, <2>3, <2>4, <2>5, <2>6, <2>7, <2>8 DEF Send
  <1>4. ASSUME Proxy
        PROVE  WakeInv'
    <2> USE DEF ProxyUnchanged
    <2>1. ASSUME ProxyIdle PROVE WakeInv'
      BY <2>1 DEF ProxyIdle
    <2>2. ASSUME ProxyArm PROVE WakeInv'
      BY <2>2 DEF ProxyArm
    <2>3. ASSUME ProxyRecheck PROVE WakeInv'
      BY <2>3 DEF ProxyRecheck
    <2>4. ASSUME ProxyWoken PROVE WakeInv'
      BY <2>4 DEF ProxyWoken
    <2>5. ASSUME ProxyDisarm PROVE WakeInv'
      BY <2>5 DEF ProxyDisarm
    <2>6. ASSUME ProxyDispatch PROVE WakeInv'
      BY <2>6 DEF ProxyDispatch
    <2>7. ASSUME ProxyRelease PROVE WakeInv'
      BY <2>7 DEF ProxyRelease
    <2>8. ASSUME ProxyComplete PROVE WakeInv'
      <3>1. ASSUME NEW u \in Threads, pc[u] = "sleep", ~resp_efd,
                   completed_seq + 1 > wait_seq[u]
            PROVE  needs_resp # 0
        <4>1. ~(completed_seq > wait_seq[u])
          BY <2>8, <3>1 DEF ProxyComplete
        <4>2. wait_seq[u] \in Int /\ completed_seq \in Int
          OBVIOUS
        <4>3. wait_seq[u] = completed_seq
          BY ONLY <3>1, <4>1, <4>2
        <4> QED
          BY <2>8, <3>1, <4>3, CompletionIsPosted DEF ProxyComplete
      <3> QED
        BY <2>8, <3>1 DEF ProxyComplete
    <2>9. ASSUME ProxyRespond PROVE WakeInv'
      BY <2>9 DEF ProxyRespond
    <2> QED
      BY <1>4, <2>1, <2>2, <2>3, <2>4, <2>5, <2>6, <2>7, <2>8, <2>9 DEF Proxy
  <1>5. ASSUME UNCHANGED vars
        PROVE  WakeInv'
    BY <1>5 DEF vars
  <1> QED
    BY <1>1, <1>2, <1>3, <1>4, <1>5 DEF Next

(* Both sleep and wake-up protocols, in step with consumer_waiting.        *)
THEOREM WakeCorrect == Spec => []WakeInv
  <1>1. Init => WakeInv
    BY DEF Init, WakeInv, ProxyWillWake, SenderWillWake
  <1> QED
    BY <1>1, WakeStep, TypeCorrect, LockCorrect, CursorCorrect, SlotCorrect,
       WaitCorrect, PTL DEF Spec

(* The proxy does not sleep on req_efd while a published command has       *)
(* nobody who will post it: the consumer_waiting handshake of publish_cur()*)
(* and the dispatch loop loses no wake-up.                                 *)
THEOREM NoLostWakeUp == Spec => []ProxyWillWake
  <1>1. WakeInv => ProxyWillWake
    BY DEF WakeInv
  <1> QED
    BY <1>1, WakeCorrect, PTL

(* A thread does not sleep on resp_efd once its call is completed, unless  *)
(* the proxy is about to post: the needs_response the proxy has read is    *)
(* that of the call the thread waits for.                                  *)
THEOREM SendersWakeUp == Spec => []SenderWillWake
  <1>1. WakeInv => SenderWillWake
    BY DEF WakeInv
  <1> QED
    BY <1>1, WakeCorrect, PTL

-----------------------------------------------------------------------------
(* BridgeRing implements CallOrder: the part without fairness              *)

(* The bound on the number of calls: a thread that passed it may reserve.  *)
BoundInv ==
  /\ g_local_seq <= MaxSeq
  /\ \A t \in Threads : pc[t] = "begin" => g_local_seq < MaxSeq

LEMMA BoundStep ==
  TypeOK /\ LockInv /\ BoundInv /\ [Next]_vars => BoundInv'
  <1> SUFFICES ASSUME TypeOK, LockInv, BoundInv, [Next]_vars PROVE BoundInv'
    OBVIOUS
  <1> USE RingAssumption DEF TypeOK, BoundInv, Goto, stubVars, threadVars,
          proxyVars
  <1>1. ASSUME NEW t \in Threads, NEW o \in Kinds, AcquireLock(t, o)
        PROVE  BoundInv'
    BY <1>1 DEF AcquireLock
  <1>2. ASSUME NEW t \in Threads, NEW size \in Sizes, StartWrite(t, size)
        PROVE  BoundInv'
    BY <1>2 DEF StartWrite
  <1>3. ASSUME NEW t \in Threads, Send(t)
        PROVE  BoundInv'
    <2>1. ASSUME ReserveSlot(t) PROVE BoundInv'
      BY <2>1 DEF ReserveSlot, LockInv
    <2>2. ASSUME FinishWrite(t) PROVE BoundInv'
      BY <2>2 DEF FinishWrite
    <2>3. ASSUME \/ Publish(t) \/ WakeProxy(t) \/ Sleep(t) \/ WakeUp(t)
                 \/ FinishSend(t) \/ Return(t)
          PROVE  BoundInv'
      BY <2>3 DEF Publish, WakeProxy, Sleep, WakeUp, FinishSend, Return
    <2> QED
      BY <1>3, <2>1, <2>2, <2>3 DEF Send
  <1>4. ASSUME Proxy
        PROVE  BoundInv'
    BY <1>4, ProxyFrame DEF ProxyUnchanged
  <1>5. ASSUME UNCHANGED vars
        PROVE  BoundInv'
    BY <1>5 DEF vars
  <1> QED
    BY <1>1, <1>2, <1>3, <1>4, <1>5 DEF Next

-----------------------------------------------------------------------------
(* Steps that CallOrder does not see *)
LEMMA StutterStep ==
  ASSUME UNCHANGED <<published_seq, wait_seq, op, g_pending_swap_seq, ran>>,
         \A t \in Threads : Sending(t)' <=> Sending(t)
  PROVE  UNCHANGED CO!vars
  <1>1. WaitingFor' = WaitingFor
    BY DEF WaitingFor
  <1>2. LastSwap' = LastSwap
    BY DEF LastSwap
  <1> QED
    BY <1>1, <1>2 DEF CO!vars

(* publish_cur() issues the call.                                          *)
LEMMA PublishIssues ==
  ASSUME TypeOK, LockInv, CursorInv, BoundInv, NEW t \in Threads, Publish(t)
  PROVE  CO!Issue(t)
  <1>1. /\ ~Sending(t) /\ Sending(t)'
        /\ \A u \in Threads : u # t => ~Sending(u) /\ ~Sending(u)'
    BY DEF Publish, LockInv, Filling, Sending, Goto, TypeOK
  <1>2. /\ g_cur_seq[t] = published_seq /\ published_seq < MaxSeq
        /\ published_seq' = published_seq + 1
    BY RingAssumption
    DEF Publish, CursorInv, BoundInv, Filling, TypeOK
  <1>3. /\ wait_seq'[t] = WaitsFor(op[t], published_seq)
        /\ op' = op /\ ran' = ran /\ op[t] \in Ops
        /\ g_pending_swap_seq' = g_pending_swap_seq
    BY <1>2 DEF Publish, TypeOK, stubVars, proxyVars
  <1>4. /\ WaitingFor = [u \in Threads |-> NoSeq]
        /\ WaitingFor' = [WaitingFor EXCEPT ![t] = wait_seq'[t]]
    BY <1>1 DEF WaitingFor
  <1>5. LastSwap = g_pending_swap_seq
    BY <1>1 DEF LastSwap
  <1>6. WaitingFor[t] = CO!Nothing
    BY <1>4 DEF CO!Nothing, NoSeq
  <1>7. CASE op[t] = "swap" /\ AsyncSwap
    <2>1. LastSwap' = published_seq
      BY <1>1, <1>2, <1>3, <1>7 DEF LastSwap, TypeOK
    <2>2. WaitingFor' = [WaitingFor EXCEPT ![t] = LastSwap]
      BY <1>3, <1>4, <1>5, <1>7 DEF WaitsFor
    <2>3. CO!Awaited(op[t]) = LastSwap
      BY <1>7 DEF CO!Awaited
    <2> QED
      BY <1>2, <1>3, <1>6, <1>7, <2>1, <2>2, <2>3 DEF CO!Issue
  <1>8. CASE op[t] = "call" \/ (op[t] = "swap" /\ ~AsyncSwap)
    <2>1. LastSwap' = LastSwap
      BY <1>1, <1>3, <1>5, <1>8 DEF LastSwap
    <2>2. WaitingFor' = [WaitingFor EXCEPT ![t] = published_seq]
      BY <1>3, <1>4, <1>8 DEF WaitsFor
    <2>3. CO!Awaited(op[t]) = published_seq
      BY <1>8 DEF CO!Awaited
    <2> QED
      BY <1>2, <1>3, <1>6, <1>8, <2>1, <2>2, <2>3 DEF CO!Issue
  <1>9. CASE op[t] = "void"
    <2>1. LastSwap' = LastSwap
      BY <1>1, <1>3, <1>5, <1>9 DEF LastSwap
    <2>2. WaitingFor' = [WaitingFor EXCEPT ![t] = NoSeq]
      BY <1>3, <1>4, <1>9 DEF WaitsFor
    <2>3. CO!Awaited(op[t]) = NoSeq
      BY <1>9 DEF CO!Awaited, CO!Nothing, NoSeq
    <2> QED
      BY <1>2, <1>3, <1>6, <1>9, <2>1, <2>2, <2>3 DEF CO!Issue
  <1> QED
    BY <1>3, <1>7, <1>8, <1>9 DEF Ops

(* The end of a send is a return, or invisible when nothing was waited for.*)
LEMMA FinishReturns ==
  ASSUME TypeOK, LockInv, CursorInv, WaitInv, AnswerInv,
         NEW t \in Threads, FinishSend(t)
  PROVE  CO!Return(t) \/ UNCHANGED CO!vars
  <1>1. /\ Sending(t) /\ ~Sending(t)'
        /\ \A u \in Threads : u # t => ~Sending(u) /\ ~Sending(u)'
    BY DEF FinishSend, LockInv, Sending, Goto, TypeOK
  <1>2. /\ g_cur_seq[t] + 1 = published_seq
        /\ UNCHANGED <<published_seq, op, ran>>
    BY <1>1 DEF FinishSend, CursorInv, proxyVars
  <1>3. /\ WaitingFor' = [WaitingFor EXCEPT ![t] = NoSeq]
        /\ WaitingFor \in [Threads -> Seqs]
        /\ WaitingFor[t] = wait_seq[t]
    BY <1>1 DEF WaitingFor, TypeOK, Seqs, NoSeq
  <1>4. LastSwap' = LastSwap
    <2>1. g_pending_swap_seq' = IF op[t] = "swap" /\ AsyncSwap
                                  THEN g_cur_seq[t] ELSE g_pending_swap_seq
      BY DEF FinishSend
    <2>2. LastSwap = IF op[t] = "swap" /\ AsyncSwap
                       THEN published_seq - 1 ELSE g_pending_swap_seq
      BY <1>1 DEF LastSwap
    <2>3. LastSwap' = g_pending_swap_seq'
      BY <1>1 DEF LastSwap
    <2> QED
      BY <1>2, <2>1, <2>2, <2>3 DEF TypeOK
  <1>5. Len(ran) > wait_seq[t]
    <2>1. completed_seq > wait_seq[t] /\ wait_seq[t] \in Int
      BY DEF FinishSend, CompletedOf, TypeOK, Seqs, NoSeq
    <2> QED
      BY <2>1 DEF AnswerInv, Dispatched, TypeOK
  <1>6. CASE wait_seq[t] = NoSeq
    <2>1. WaitingFor' = WaitingFor
      BY <1>3, <1>6
    <2> QED
      BY <1>2, <1>4, <2>1 DEF CO!vars
  <1>7. CASE wait_seq[t] # NoSeq
    BY <1>2, <1>3, <1>4, <1>5, <1>7 DEF CO!Return, CO!Nothing, NoSeq
  <1> QED
    BY <1>6, <1>7

(* bridge_begin() of another kind of command, and the return to the caller *)
(* of the GL entry point.                                                  *)
LEMMA KindChosen ==
  ASSUME NEW t \in Threads, NEW k \in Kinds \cup {"void"},
         op' = [op EXCEPT ![t] = k], ~Sending(t),
         UNCHANGED <<published_seq, wait_seq, g_pending_swap_seq, ran>>,
         \A u \in Threads : Sending(u)' <=> Sending(u)
  PROVE  CO!Choose(t, k)
  <1>1. WaitingFor' = WaitingFor /\ WaitingFor[t] = CO!Nothing
    BY DEF WaitingFor, CO!Nothing, NoSeq
  <1>2. \A u \in Threads : Sending(u) => op'[u] = op[u]
    OBVIOUS
  <1>3. LastSwap' = LastSwap
    BY <1>2 DEF LastSwap
  <1> QED
    BY <1>1, <1>3 DEF CO!Choose

(* Running the oldest slot's handler runs the next call.                   *)
LEMMA DispatchRuns ==
  ASSUME TypeOK, CursorInv, SlotInv, AnswerInv, ProxyDispatch
  PROVE  CO!Run
  <1>1. completed_seq < published_seq /\ Len(ran) = completed_seq
    BY DEF ProxyDispatch, CaughtUp, TypeOK, AnswerInv, Dispatched
  <1>2. slots[Oldest].call = completed_seq
    BY <1>1 DEF SlotInv, SlotIntact, InFlight, CursorInv, Oldest, TypeOK
  <1>3. ran' = Append(ran, Len(ran))
    BY <1>1, <1>2 DEF ProxyDispatch
  <1>4. UNCHANGED <<published_seq, pc, wait_seq, op, g_pending_swap_seq>>
    BY DEF ProxyDispatch, ProxyUnchanged, threadVars
  <1>5. WaitingFor' = WaitingFor /\ LastSwap' = LastSwap
    BY <1>4 DEF WaitingFor, LastSwap, Sending
  <1> QED
    BY <1>1, <1>3, <1>4, <1>5 DEF CO!Run

LEMMA RefineStep ==
  /\ TypeOK /\ LockInv /\ CursorInv /\ SlotInv /\ WaitInv /\ AnswerInv
  /\ BoundInv /\ [Next]_vars
  => [CO!Next]_(CO!vars)
  <1> SUFFICES ASSUME TypeOK, LockInv, CursorInv, SlotInv, WaitInv, AnswerInv,
                      BoundInv, [Next]_vars
               PROVE  CO!Next \/ UNCHANGED CO!vars
    OBVIOUS
  <1> DEFINE Unseen ==
        /\ UNCHANGED <<published_seq, wait_seq, op, g_pending_swap_seq, ran>>
        /\ \A t \in Threads : Sending(t)' <=> Sending(t)
  <1>u. Unseen => UNCHANGED CO!vars
    BY StutterStep
  <1> HIDE DEF Unseen
  <1>1. ASSUME NEW t \in Threads, NEW o \in Kinds, AcquireLock(t, o)
        PROVE  CO!Next
    <2>1. /\ UNCHANGED <<published_seq, wait_seq, g_pending_swap_seq, ran>>
          /\ op' = [op EXCEPT ![t] = o] /\ ~Sending(t)
          /\ \A u \in Threads : Sending(u)' <=> Sending(u)
      BY <1>1 DEF AcquireLock, Sending, Goto, TypeOK, proxyVars
    <2>2. CO!Choose(t, o)
      BY <2>1, KindChosen
    <2> QED
      BY <2>2 DEF CO!Next
  <1>2. ASSUME NEW t \in Threads, NEW size \in Sizes, StartWrite(t, size)
        PROVE  UNCHANGED CO!vars
    <2>1. Unseen
      BY <1>2 DEF StartWrite, Unseen, Sending, Goto, TypeOK, stubVars,
                  proxyVars
    <2> QED
      BY <2>1, <1>u
  <1>3. ASSUME NEW t \in Threads, Send(t)
        PROVE  CO!Next \/ UNCHANGED CO!vars
    <2>1. ASSUME Publish(t) PROVE CO!Next
      BY <2>1, PublishIssues DEF CO!Next
    <2>2. ASSUME FinishSend(t) PROVE CO!Next \/ UNCHANGED CO!vars
      BY <2>2, FinishReturns DEF CO!Next
    <2>3. ASSUME Return(t) PROVE CO!Next
      <3>1. /\ UNCHANGED <<published_seq, wait_seq, g_pending_swap_seq, ran>>
            /\ op' = [op EXCEPT ![t] = "void"] /\ ~Sending(t)
            /\ \A u \in Threads : Sending(u)' <=> Sending(u)
        BY <2>3 DEF Return, Sending, Goto, TypeOK, stubVars, proxyVars
      <3>2. CO!Choose(t, "void")
        BY <3>1, KindChosen
      <3> QED
        BY <3>2 DEF CO!Next
    <2>4. ASSUME WakeProxy(t), op[t] = "void" PROVE UNCHANGED CO!vars
      <3>1. /\ UNCHANGED <<published_seq, wait_seq, op, g_pending_swap_seq,
                           ran>>
            /\ wait_seq[t] = NoSeq
            /\ \A u \in Threads : u # t => (Sending(u)' <=> Sending(u))
        BY <2>4
        DEF WakeProxy, Sending, Goto, TypeOK, proxyVars, WaitInv, WaitsFor
      <3>2. WaitingFor' = WaitingFor
        BY <3>1 DEF WaitingFor
      <3>3. LastSwap' = LastSwap
        BY <2>4, <3>1 DEF LastSwap
      <3> QED
        BY <3>1, <3>2, <3>3 DEF CO!vars
    <2>5. ASSUME \/ ReserveSlot(t) \/ FinishWrite(t) \/ Sleep(t) \/ WakeUp(t)
                 \/ WakeProxy(t) /\ op[t] # "void"
          PROVE  UNCHANGED CO!vars
      <3>1. Unseen
        BY <2>5 DEF ReserveSlot, FinishWrite, Sleep, WakeUp, WakeProxy,
                    Unseen, Sending, Goto, TypeOK, stubVars, proxyVars
      <3> QED
        BY <3>1, <1>u
    <2> QED
      BY <1>3, <2>1, <2>2, <2>3, <2>4, <2>5 DEF Send
  <1>4. ASSUME Proxy
        PROVE  CO!Next \/ UNCHANGED CO!vars
    <2>1. ASSUME ProxyDispatch PROVE CO!Next
      BY <2>1, DispatchRuns DEF CO!Next
    <2>2. ASSUME ~ProxyDispatch PROVE UNCHANGED CO!vars
      <3>1. ran' = ran
        BY <1>4, <2>2
        DEF Proxy, ProxyIdle, ProxyArm, ProxyRecheck, ProxyWoken, ProxyDisarm,
            ProxyRelease, ProxyComplete, ProxyRespond
      <3>2. Unseen
        BY <1>4, <3>1, ProxyFrame
        DEF ProxyUnchanged, Unseen, Sending, threadVars
      <3> QED
        BY <3>2, <1>u
    <2> QED
      BY <2>1, <2>2
  <1>5. ASSUME UNCHANGED vars
        PROVE  UNCHANGED CO!vars
    <2>1. Unseen
      BY <1>5 DEF vars, stubVars, threadVars, proxyVars, Unseen, Sending
    <2> QED
      BY <2>1, <1>u
  <1> QED
    BY <1>1, <1>2, <1>3, <1>4, <1>5 DEF Next

(* The ring is an ordered call service: every call runs once, in the order *)
(* of publication, a blocking call comes back only after it ran and an     *)
(* async swap only after the swap before it ran.                           *)
THEOREM RingImplementsCallOrder == Spec => CO!Spec
  <1>1. Init => CO!Init
    BY DEF Init, CO!Init, CO!Nothing, WaitingFor, LastSwap, Sending, NoSeq
  <1>2. Init => BoundInv
    BY RingAssumption DEF Init, BoundInv
  <1>3. Spec => []BoundInv
    BY <1>2, BoundStep, TypeCorrect, LockCorrect, PTL DEF Spec
  <1> QED
    BY <1>1, <1>3, RefineStep, TypeCorrect, LockCorrect, CursorCorrect,
       SlotCorrect, WaitCorrect, AnswerCorrect, PTL DEF Spec, CO!Spec

-----------------------------------------------------------------------------
(* Arithmetic of the arena *)

(* Two ranges that lie one behind the other in a window of D bytes, and    *)
(* neither of which crosses a multiple of D, have no byte in common once   *)
(* their positions are taken modulo D.                                     *)
LEMMA WindowApart ==
  ASSUME NEW D \in Nat \ {0}, NEW tail \in Nat,
         NEW a \in Nat, NEW m \in Nat, NEW b \in Nat, NEW n \in Nat,
         tail <= a, a + m <= b, b + n <= tail + D,
         (a % D) + m <= D, (b % D) + n <= D
  PROVE  (a % D) + m <= b % D \/ (b % D) + n <= a % D
  <1> DEFINE d == b - a
  <1>1. d \in 0 .. D /\ b = a + d /\ m <= d /\ d + n <= D
    OBVIOUS
  <1>2. a % D \in 0 .. D - 1
    OBVIOUS
  <1> HIDE DEF d
  <1>3. b % D = IF (a % D) + d < D THEN (a % D) + d ELSE (a % D) + d - D
    BY <1>1, ModStep
  <1> QED
    BY <1>1, <1>2, <1>3

(* ring_data_alloc() skips to the start of the arena rather than cross its *)
(* end.                                                                    *)
LEMMA AllocInArena ==
  ASSUME TypeOK, data_tail <= g_local_data_head, NEW n \in Nat, HasRoom(n)
  PROVE  /\ AllocAt(n) \in Nat /\ AllocOff(n) \in Nat
         /\ g_local_data_head <= AllocAt(n)
         /\ AllocOff(n) = AllocAt(n) % DATA_SIZE
         /\ AllocOff(n) + n <= DATA_SIZE
         /\ NewHead(n) = AllocAt(n) + n
         /\ NewHead(n) <= data_tail + DATA_SIZE
  <1> DEFINE h == g_local_data_head
  <1>1. DATA_SIZE \in Nat \ {0} /\ h \in Nat /\ data_tail \in Nat
    BY RingAssumption DEF TypeOK
  <1>2. h % DATA_SIZE \in 0 .. DATA_SIZE - 1
    BY <1>1
  <1>3. SpaceToEnd = DATA_SIZE - (h % DATA_SIZE)
    BY DEF SpaceToEnd
  <1>4. SpaceToEnd \in 1 .. DATA_SIZE
    BY <1>1, <1>2, <1>3
  <1>5. (h + SpaceToEnd) % DATA_SIZE
          = IF (h % DATA_SIZE) + SpaceToEnd < DATA_SIZE
              THEN (h % DATA_SIZE) + SpaceToEnd
              ELSE (h % DATA_SIZE) + SpaceToEnd - DATA_SIZE
    <2> HIDE DEF h
    <2>1. SpaceToEnd \in 0 .. DATA_SIZE
      BY <1>1, <1>4
    <2> QED
      BY <1>1, <2>1, ModStep
  <1>6. (h + SpaceToEnd) % DATA_SIZE = 0
    BY <1>1, <1>2, <1>3, <1>5
  <1>7. AllocAt(n) + n - data_tail <= DATA_SIZE
    <2>1. AllocAt(n) \in Nat
      BY AllocType DEF TypeOK
    <2> QED
      BY <2>1, <1>1 DEF HasRoom, NewHead
  <1>8. CASE n <= SpaceToEnd
    <2>1. AllocAt(n) = h /\ AllocOff(n) = h % DATA_SIZE
      BY <1>8 DEF AllocAt, AllocOff
    <2> QED
      BY <1>1, <1>2, <1>3, <1>7, <1>8, <2>1 DEF NewHead
  <1>9. CASE ~(n <= SpaceToEnd)
    <2>1. AllocAt(n) = h + SpaceToEnd /\ AllocOff(n) = 0
      BY <1>9 DEF AllocAt, AllocOff
    <2> QED
      BY <1>1, <1>4, <1>6, <1>7, <2>1 DEF NewHead
  <1> QED
    BY <1>8, <1>9

(* A payload of at most half the arena fits once the proxy has caught up,  *)
(* wherever the head stands: ring_data_alloc() waits for it only while     *)
(* older payloads are in use.                                              *)
THEOREM HalfAlwaysFits ==
  ASSUME TypeOK, data_tail = g_local_data_head,
         NEW n \in Nat, 2 * n <= DATA_SIZE
  PROVE  HasRoom(n)
  <1>1. DATA_SIZE \in Nat \ {0} /\ data_tail \in Nat
    BY RingAssumption DEF TypeOK
  <1>2. SpaceToEnd \in 1 .. DATA_SIZE
    BY <1>1 DEF SpaceToEnd
  <1> QED
    BY <1>1, <1>2 DEF HasRoom, NewHead, AllocAt

(* A larger one does not fit even in an empty arena when the head stands   *)
(* past DATA_SIZE - n and before n.  Nothing then ever moves data_tail, as *)
(* it has caught up with the head: the writer waits forever.               *)
THEOREM LargerMayNeverFit ==
  ASSUME TypeOK, data_tail = g_local_data_head, NEW n \in Nat,
         DATA_SIZE - n < (g_local_data_head % DATA_SIZE),
         (g_local_data_head % DATA_SIZE) < n
  PROVE  ~HasRoom(n)
  <1>1. DATA_SIZE \in Nat \ {0} /\ data_tail \in Nat
    BY RingAssumption DEF TypeOK
  <1>2. g_local_data_head % DATA_SIZE \in 0 .. DATA_SIZE - 1
    BY <1>1 DEF TypeOK
  <1> QED
    BY <1>1, <1>2 DEF HasRoom, NewHead, AllocAt, SpaceToEnd, TypeOK

-----------------------------------------------------------------------------
(* The invariant of the arena *)

SameRanges(s) ==
  /\ slots'[SlotOf(s)].data = slots[SlotOf(s)].data
  /\ slots'[SlotOf(s)].data_watermark = slots[SlotOf(s)].data_watermark
  /\ slots'[SlotOf(s)].data_watermark_valid
       = slots[SlotOf(s)].data_watermark_valid

(* A step that hands out no byte, takes none back and adds no call.        *)
LEMMA ArenaFrame ==
  ASSUME ArenaInv, Live' \subseteq Live, \A s \in Live : SameRanges(s),
         UNCHANGED <<data_tail, g_local_data_head>>
  PROVE  ArenaInv'
  <1>1. ASSUME NEW s \in Live, OwnRanges(s) PROVE OwnRanges(s)'
    BY <1>1 DEF SameRanges, OwnRanges, Before
  <1>2. ASSUME NEW s1 \in Live, NEW s2 \in Live, Follows(s1, s2)
        PROVE  Follows(s1, s2)'
    BY <1>2 DEF SameRanges, Follows
  <1> QED
    BY <1>1, <1>2 DEF ArenaInv

(* What is live is in flight, and so is a call being filled.               *)
LEMMA LiveInFlight ==
  ASSUME TypeOK, CursorInv
  PROVE  /\ Live \subseteq InFlight
         /\ \A s \in Live : s \in Nat /\ SlotOf(s) \in Slots
         /\ \A t \in Threads : Filling(t) => g_cur_seq[t] \in Live
         /\ \A t \in Threads : Filling(t) => \A s \in Live : s <= g_cur_seq[t]
  <1>1. Live \subseteq InFlight
    BY DEF Live
  <1> QED
    BY <1>1, InFlightSlots, PublishedInFlight
    DEF Live, InFlight, CursorInv, TypeOK, Published

(* bridge_begin(): the new slot starts at the head and holds nothing.      *)
LEMMA ReserveArena ==
  ASSUME TypeOK, CursorInv, ArenaInv, NEW t \in Threads, ReserveSlot(t)
  PROVE  ArenaInv'
  <1> DEFINE n == g_local_seq
  <1>1. ASSUME NEW s \in Live
        PROVE  s \in Nat /\ s < n /\ SameRanges(s)
    <2>1. s \in InFlight /\ s \in Nat /\ s < n /\ SlotOf(s) \in Slots
      BY LiveInFlight DEF InFlight, TypeOK
    <2>2. SlotOf(s) # SlotOf(n)
      BY <2>1, InFlightSlots DEF ReserveSlot
    <2>3. slots'[SlotOf(s)] = slots[SlotOf(s)]
      BY <2>1, <2>2 DEF ReserveSlot, TypeOK
    <2> QED
      BY <2>1, <2>3 DEF SameRanges
  <1>2. Live' \subseteq Live \cup {n}
    BY DEF Live, InFlight, ReserveSlot, proxyVars, TypeOK
  <1>3. /\ slots'[SlotOf(n)].data = {}
        /\ slots'[SlotOf(n)].data_watermark = g_local_data_head
    BY SlotOfType DEF ReserveSlot, TypeOK, Slot
  <1>4. UNCHANGED <<data_tail, g_local_data_head>>
    BY DEF ReserveSlot
  <1>5. /\ data_tail \in Nat /\ g_local_data_head \in Nat /\ n \in Nat
        /\ data_tail <= g_local_data_head
        /\ g_local_data_head <= data_tail + DATA_SIZE
    BY DEF TypeOK, ArenaInv
  <1>6. ASSUME NEW s \in Live' PROVE OwnRanges(s)'
    <2>1. CASE s \in Live
      BY <1>1, <1>4, <2>1 DEF ArenaInv, OwnRanges, SameRanges, Before
    <2>2. CASE s = n
      BY <1>3, <1>4, <1>5, <2>2 DEF OwnRanges, Before
    <2> QED
      BY <1>2, <2>1, <2>2
  <1>7. ASSUME NEW s1 \in Live', NEW s2 \in Live', s1 < s2
        PROVE  Follows(s1, s2)'
    <2>1. s1 \in Live
      BY <1>1, <1>2, <1>5, <1>7
    <2>2. CASE s2 \in Live
      BY <1>1, <1>7, <2>1, <2>2 DEF ArenaInv, Follows, SameRanges
    <2>3. CASE s2 = n
      BY <1>1, <1>3, <2>1, <2>3 DEF ArenaInv, OwnRanges, Follows, SameRanges
    <2> QED
      BY <1>2, <2>2, <2>3
  <1> QED
    BY <1>4, <1>5, <1>6, <1>7 DEF ArenaInv

(* bridge_data_write(): the new range lies behind every range in use.      *)
LEMMA WriteArena ==
  ASSUME TypeOK, CursorInv, ArenaInv, NEW t \in Threads, FinishWrite(t)
  PROVE  ArenaInv'
  <1> DEFINE n == want[t]
             q == g_cur_seq[t]
             c == slots[SlotOf(q)]
             r == [at |-> AllocAt(n), off |-> AllocOff(n), len |-> n]
             d == slots'[SlotOf(q)]
  <1>1. /\ n \in Nat /\ HasRoom(n) /\ Filling(t) /\ q \in Nat
        /\ data_tail \in Nat /\ g_local_data_head \in Nat
        /\ data_tail <= g_local_data_head
    BY DEF FinishWrite, Filling, TypeOK, ArenaInv
  <1>2. /\ AllocAt(n) \in Nat /\ AllocOff(n) \in Nat
        /\ g_local_data_head <= AllocAt(n)
        /\ AllocOff(n) = AllocAt(n) % DATA_SIZE
        /\ AllocOff(n) + n <= DATA_SIZE
        /\ NewHead(n) = AllocAt(n) + n
        /\ NewHead(n) <= data_tail + DATA_SIZE
    BY <1>1, AllocInArena
  <1>3. /\ q \in Live /\ Live' = Live
        /\ \A s \in Live : s \in Nat /\ s <= q /\ SlotOf(s) \in Slots
    BY <1>1, LiveInFlight DEF Live, InFlight, FinishWrite, proxyVars
  <1>4. /\ d.data = c.data \cup {r}
        /\ d.data_watermark = NewHead(n)
        /\ d.data_watermark_valid = TRUE
        /\ g_local_data_head' = NewHead(n) /\ data_tail' = data_tail
    BY <1>1, <1>3 DEF FinishWrite, CurSlot, TypeOK, Slot
  <1>5. ASSUME NEW s \in Live, s # q PROVE SameRanges(s)
    <2>1. SlotOf(s) # SlotOf(q)
      BY <1>3, <1>5, InFlightSlots, LiveInFlight
    <2> QED
      BY <1>3, <2>1 DEF FinishWrite, CurSlot, TypeOK, SameRanges
  <1>6. /\ r.at = AllocAt(n) /\ r.off = AllocOff(n) /\ r.len = n
        /\ c.data_watermark \in Nat /\ c.data \subseteq ArenaRange
    BY <1>3 DEF TypeOK, Slot
  <1>7. OwnRanges(q)
    BY <1>3 DEF ArenaInv
  <1> HIDE DEF n, q, c, r, d
  <1>8. ASSUME NEW s \in Live, s = q PROVE OwnRanges(s)'
    <2>1. \A x \in c.data : /\ data_tail <= x.at
                            /\ x.at + x.len <= g_local_data_head
                            /\ x.off = x.at % DATA_SIZE
                            /\ x.off + x.len <= DATA_SIZE
                            /\ x.at \in Nat /\ x.len \in Nat
      BY <1>1, <1>6, <1>7 DEF OwnRanges, ArenaRange, c
    <2>2. \A x, y \in c.data : x = y \/ Before(x, y) \/ Before(y, x)
      BY <1>7 DEF OwnRanges, c
    <2>3. \A x \in c.data : Before(x, r)
      BY <1>1, <1>2, <1>6, <2>1 DEF Before
    <2>4. \A x \in d.data : /\ data_tail <= x.at
                            /\ x.at + x.len <= NewHead(n)
                            /\ x.off = x.at % DATA_SIZE
                            /\ x.off + x.len <= DATA_SIZE
      BY <1>1, <1>2, <1>4, <1>6, <2>1
    <2>5. \A x, y \in d.data : x = y \/ Before(x, y) \/ Before(y, x)
      BY <1>4, <2>2, <2>3
    <2>6. data_tail <= NewHead(n)
      BY <1>1, <1>2
    <2> QED
      BY <1>1, <1>2, <1>4, <1>8, <2>4, <2>5, <2>6 DEF OwnRanges, d, Before
  <1>9. ASSUME NEW s \in Live PROVE OwnRanges(s)'
    <2>1. CASE s = q
      BY <1>8, <2>1
    <2>2. CASE s # q
      <3>1. slots[SlotOf(s)].data_watermark \in Nat
        BY <1>3 DEF TypeOK, Slot
      <3>2. OwnRanges(s) /\ SameRanges(s)
        BY <1>5, <2>2 DEF ArenaInv
      <3> QED
        BY <1>1, <1>2, <1>4, <3>1, <3>2 DEF OwnRanges, SameRanges, Before
    <2> QED
      BY <2>1, <2>2
  <1>10. ASSUME NEW s1 \in Live, NEW s2 \in Live, s1 < s2
         PROVE  Follows(s1, s2)'
    <2>1. s1 # q /\ SameRanges(s1)
      BY <1>1, <1>3, <1>5, <1>10
    <2>2. Follows(s1, s2)
      BY <1>10 DEF ArenaInv
    <2>3. CASE s2 # q
      BY <1>5, <2>1, <2>2, <2>3 DEF Follows, SameRanges
    <2>4. CASE s2 = q
      <3>1. /\ slots[SlotOf(s1)].data_watermark \in Nat
            /\ slots[SlotOf(s1)].data_watermark <= g_local_data_head
        BY <1>3 DEF TypeOK, Slot, ArenaInv, OwnRanges
      <3>2. \A x \in c.data : slots[SlotOf(s1)].data_watermark <= x.at
        BY <2>2, <2>4 DEF Follows, c
      <3>3. slots[SlotOf(s1)].data_watermark <= AllocAt(n)
        BY <1>1, <1>2, <3>1
      <3>4. slots[SlotOf(s1)].data_watermark <= NewHead(n)
        BY <1>1, <1>2, <3>1
      <3>5. \A x \in d.data : slots[SlotOf(s1)].data_watermark <= x.at
        BY <1>4, <1>6, <3>2, <3>3
      <3> QED
        BY <1>4, <2>1, <2>4, <3>4, <3>5 DEF Follows, SameRanges, d
    <2> QED
      BY <2>3, <2>4
  <1>11. /\ data_tail' <= g_local_data_head'
         /\ g_local_data_head' <= data_tail' + DATA_SIZE
    BY <1>1, <1>2, <1>4
  <1> QED
    BY <1>3, <1>9, <1>10, <1>11 DEF ArenaInv

(* The proxy gives back the ranges of the oldest call only: data_tail      *)
(* moves to its watermark, which no younger range precedes.                *)
LEMMA ReleaseArena ==
  ASSUME TypeOK, CursorInv, ArenaInv, ProxyRelease
  PROVE  ArenaInv'
  <1> DEFINE q == completed_seq
             c == slots[SlotOf(q)]
  <1>1. /\ q \in Live /\ q \in Nat
        /\ Live' \subseteq Live \ {q}
        /\ \A s \in Live' : q < s /\ s \in Nat /\ s \in Live
    BY LiveInFlight DEF Live, InFlight, ProxyRelease, ProxyUnchanged,
       CursorInv, Dispatched, TypeOK
  <1>2. /\ UNCHANGED <<slots, g_local_data_head>>
        /\ data_tail' = IF c.data_watermark_valid THEN c.data_watermark
                                                  ELSE data_tail
    BY DEF ProxyRelease, ProxyUnchanged, Oldest
  <1>3. /\ data_tail \in Nat /\ g_local_data_head \in Nat
        /\ c.data_watermark \in Nat
    BY <1>1, LiveInFlight DEF TypeOK, Slot
  <1>4. /\ data_tail <= c.data_watermark
        /\ c.data_watermark <= g_local_data_head
        /\ g_local_data_head <= data_tail + DATA_SIZE
    BY <1>1 DEF ArenaInv, OwnRanges
  <1>5. DATA_SIZE \in Nat
    BY RingAssumption
  <1> HIDE DEF c
  <1>6. /\ data_tail' \in Nat /\ data_tail <= data_tail'
        /\ data_tail' <= c.data_watermark
    BY <1>2, <1>3, <1>4
  <1>7. ASSUME NEW s \in Live' PROVE OwnRanges(s)'
    <2>1. OwnRanges(s) /\ Follows(q, s)
      BY <1>1 DEF ArenaInv
    <2>2. /\ slots[SlotOf(s)].data_watermark \in Nat
          /\ slots[SlotOf(s)].data \subseteq ArenaRange
      BY <1>1, LiveInFlight DEF TypeOK, Slot
    <2>3. data_tail' <= slots[SlotOf(s)].data_watermark
      BY <1>3, <1>6, <2>1, <2>2 DEF Follows, c
    <2>4. \A r \in slots[SlotOf(s)].data : data_tail' <= r.at
      BY <1>3, <1>6, <2>1, <2>2 DEF Follows, ArenaRange, c
    <2> QED
      BY <1>2, <2>1, <2>3, <2>4 DEF OwnRanges, Before
  <1>8. ASSUME NEW s1 \in Live', NEW s2 \in Live', s1 < s2
        PROVE  Follows(s1, s2)'
    <2>1. Follows(s1, s2)
      BY <1>1, <1>8 DEF ArenaInv
    <2> QED
      BY <1>2, <2>1 DEF Follows
  <1> QED
    BY <1>2, <1>3, <1>4, <1>5, <1>6, <1>7, <1>8 DEF ArenaInv

LEMMA ArenaStep ==
  TypeOK /\ CursorInv /\ ArenaInv /\ [Next]_vars => ArenaInv'
  <1> SUFFICES ASSUME TypeOK, CursorInv, ArenaInv, [Next]_vars
               PROVE  ArenaInv'
    OBVIOUS
  <1> DEFINE Frame == /\ Live' \subseteq Live
                      /\ \A s \in Live : SameRanges(s)
                      /\ UNCHANGED <<data_tail, g_local_data_head>>
             Same  == UNCHANGED <<slots, completed_seq, g_local_seq, proxy_pc,
                                  data_tail, g_local_data_head>>
  <1>f. Frame => ArenaInv'
    BY ArenaFrame
  <1>s. Same => ArenaInv'
    <2>1. Same => Frame
      BY DEF Live, InFlight, SameRanges
    <2> QED
      BY <1>f, <2>1
  <1>l. \A s \in Live : SlotOf(s) \in Slots
    BY LiveInFlight
  <1> HIDE DEF Frame, Same
  <1>1. ASSUME NEW t \in Threads, NEW o \in Kinds, AcquireLock(t, o)
        PROVE  ArenaInv'
    BY <1>1, <1>s DEF AcquireLock, Same, proxyVars
  <1>2. ASSUME NEW t \in Threads, NEW size \in Sizes, StartWrite(t, size)
        PROVE  ArenaInv'
    BY <1>2, <1>s DEF StartWrite, Same, proxyVars, stubVars
  <1>3. ASSUME NEW t \in Threads, Send(t)
        PROVE  ArenaInv'
    <2>1. ASSUME ReserveSlot(t) PROVE ArenaInv'
      BY <2>1, ReserveArena
    <2>2. ASSUME FinishWrite(t) PROVE ArenaInv'
      BY <2>2, WriteArena
    <2>3. ASSUME Publish(t) PROVE ArenaInv'
      <3>1. \A s \in Live : SameRanges(s)
        BY <2>3, <1>l DEF Publish, SameRanges, TypeOK, Slot
      <3>2. Frame
        BY <2>3, <3>1 DEF Publish, Frame, Live, InFlight, stubVars, proxyVars
      <3> QED
        BY <3>2, <1>f
    <2>4. ASSUME \/ WakeProxy(t) \/ Sleep(t) \/ WakeUp(t) \/ FinishSend(t)
                 \/ Return(t)
          PROVE  ArenaInv'
      BY <2>4, <1>s DEF WakeProxy, Sleep, WakeUp, FinishSend, Return, Same,
                        stubVars, proxyVars
    <2> QED
      BY <1>3, <2>1, <2>2, <2>3, <2>4 DEF Send
  <1>4. ASSUME Proxy
        PROVE  ArenaInv'
    <2>1. ASSUME ProxyDispatch PROVE ArenaInv'
      <3>1. \A s \in Live : SameRanges(s)
        BY <2>1, <1>l DEF ProxyDispatch, SameRanges, TypeOK, Slot
      <3>2. Frame
        BY <2>1, <3>1
        DEF ProxyDispatch, ProxyUnchanged, Frame, Live, InFlight
      <3> QED
        BY <3>2, <1>f
    <2>2. ASSUME ProxyRelease PROVE ArenaInv'
      BY <2>2, ReleaseArena
    <2>3. ASSUME ProxyComplete PROVE ArenaInv'
      <3>1. Live' \subseteq Live
        BY <2>3 DEF ProxyComplete, ProxyUnchanged, Live, InFlight, TypeOK
      <3>2. Frame
        BY <2>3, <3>1 DEF ProxyComplete, ProxyUnchanged, Frame, SameRanges
      <3> QED
        BY <3>2, <1>f
    <2>4. ASSUME \/ ProxyIdle \/ ProxyArm \/ ProxyRecheck \/ ProxyWoken
                 \/ ProxyDisarm \/ ProxyRespond
          PROVE  ArenaInv'
      <3>1. /\ proxy_pc # "complete" /\ proxy_pc' # "complete"
            /\ UNCHANGED <<slots, completed_seq, g_local_seq, data_tail,
                           g_local_data_head>>
        BY <2>4 DEF ProxyIdle, ProxyArm, ProxyRecheck, ProxyWoken,
                    ProxyDisarm, ProxyRespond, ProxyUnchanged
      <3>2. Frame
        BY <3>1 DEF Frame, Live, InFlight, SameRanges
      <3> QED
        BY <3>2, <1>f
    <2> QED
      BY <1>4, <2>1, <2>2, <2>3, <2>4 DEF Proxy
  <1>5. ASSUME UNCHANGED vars
        PROVE  ArenaInv'
    BY <1>5, <1>s DEF vars, Same, stubVars, proxyVars
  <1> QED
    BY <1>1, <1>2, <1>3, <1>4, <1>5 DEF Next

THEOREM ArenaCorrect == Spec => []ArenaInv
  <1>1. Init => ArenaInv
    <2>1. Init => Live = {}
      BY DEF Init, Live, InFlight
    <2> QED
      BY <2>1, RingAssumption DEF Init, ArenaInv
  <1> QED
    BY <1>1, ArenaStep, TypeCorrect, CursorCorrect, PTL DEF Spec

(* Payloads that the proxy may still read share no byte of the arena and   *)
(* lie inside it, for every arena size, however often the arena wraps.     *)
THEOREM PayloadsDisjoint == Spec => []ArenaDisjoint
  <1>1. TypeOK /\ CursorInv /\ ArenaInv => ArenaDisjoint
    <2> SUFFICES ASSUME TypeOK, CursorInv, ArenaInv,
                        NEW s1 \in Live, NEW s2 \in Live,
                        NEW r1 \in slots[SlotOf(s1)].data,
                        NEW r2 \in slots[SlotOf(s2)].data
                 PROVE  /\ r1.off + r1.len <= DATA_SIZE
                        /\ (s1 # s2 \/ r1 # r2) => Apart(r1, r2)
      BY DEF ArenaDisjoint
    <2>1. /\ DATA_SIZE \in Nat \ {0}
          /\ data_tail \in Nat /\ g_local_data_head \in Nat
          /\ g_local_data_head <= data_tail + DATA_SIZE
      BY RingAssumption DEF TypeOK, ArenaInv
    <2>2. ASSUME NEW s \in Live, NEW r \in slots[SlotOf(s)].data
          PROVE  /\ r.at \in Nat /\ r.off \in Nat /\ r.len \in Nat
                 /\ data_tail <= r.at
                 /\ r.at + r.len <= data_tail + DATA_SIZE
                 /\ r.at + r.len <= slots[SlotOf(s)].data_watermark
                 /\ slots[SlotOf(s)].data_watermark \in Nat
                 /\ r.off = r.at % DATA_SIZE
                 /\ r.off + r.len <= DATA_SIZE
      <3>1. OwnRanges(s) /\ SlotOf(s) \in Slots
        BY LiveInFlight DEF ArenaInv
      <3>2. r \in ArenaRange /\ slots[SlotOf(s)].data_watermark \in Nat
        BY <3>1 DEF TypeOK, Slot
      <3> QED
        BY <2>1, <3>1, <3>2 DEF OwnRanges, ArenaRange
    <2>3. ASSUME NEW t1 \in Live, NEW t2 \in Live, t1 < t2,
                 NEW x \in slots[SlotOf(t1)].data,
                 NEW y \in slots[SlotOf(t2)].data
          PROVE  Before(x, y)
      <3>1. slots[SlotOf(t1)].data_watermark <= y.at
        BY <2>3 DEF ArenaInv, Follows
      <3> QED
        BY <2>2, <3>1 DEF Before
    <2>4. s1 # s2 \/ r1 # r2 => Before(r1, r2) \/ Before(r2, r1)
      <3>1. CASE s1 = s2
        BY <3>1 DEF ArenaInv, OwnRanges
      <3>2. CASE s1 < s2
        BY <2>3, <3>2
      <3>3. CASE s2 < s1
        BY <2>3, <3>3
      <3> QED
        BY <3>1, <3>2, <3>3, LiveInFlight
    <2>5. ASSUME Before(r1, r2) PROVE Apart(r1, r2)
      <3>1. /\ (r1.at % DATA_SIZE) + r1.len <= DATA_SIZE
            /\ (r2.at % DATA_SIZE) + r2.len <= DATA_SIZE
        BY <2>2
      <3>2. \/ (r1.at % DATA_SIZE) + r1.len <= r2.at % DATA_SIZE
            \/ (r2.at % DATA_SIZE) + r2.len <= r1.at % DATA_SIZE
        BY <2>1, <2>2, <2>5, <3>1, WindowApart DEF Before
      <3> QED
        BY <2>2, <3>2 DEF Apart
    <2>6. ASSUME Before(r2, r1) PROVE Apart(r1, r2)
      <3>1. /\ (r1.at % DATA_SIZE) + r1.len <= DATA_SIZE
            /\ (r2.at % DATA_SIZE) + r2.len <= DATA_SIZE
        BY <2>2
      <3>2. \/ (r1.at % DATA_SIZE) + r1.len <= r2.at % DATA_SIZE
            \/ (r2.at % DATA_SIZE) + r2.len <= r1.at % DATA_SIZE
        BY <2>1, <2>2, <2>6, <3>1, WindowApart DEF Before
      <3> QED
        BY <2>2, <3>2 DEF Apart
    <2> QED
      BY <2>2, <2>4, <2>5, <2>6
  <1> QED
    BY <1>1, ArenaCorrect, TypeCorrect, CursorCorrect, PTL

(* The whole inductive invariant of the ring: lock, cursors, slots, waits, *)
(* answers, wake-ups and arena (bridge_core.c, main loop of proxy.c).      *)
THEOREM RingCorrect == Spec => []RingInv
  <1>1. LockInv /\ CursorInv /\ SlotInv /\ WaitInv /\ AnswerInv /\ WakeInv /\ ArenaInv
          => RingInv
    BY DEF RingInv
  <1> QED
    BY <1>1, LockCorrect, CursorCorrect, SlotCorrect, WaitCorrect,
       AnswerCorrect, WakeCorrect, ArenaCorrect, PTL

=============================================================================
