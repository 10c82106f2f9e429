----------------------------- MODULE BridgeRing -----------------------------
(***************************************************************************)
(* The command ring between the 64-bit stub library (stub/bridge_core.c)   *)
(* and the 32-bit proxy process (main() of proxy/proxy.c).                 *)
(*                                                                         *)
(* Application threads serialise on g_lock, reserve a slot of the ring,    *)
(* copy their payload into the data arena, publish the slot and, for a     *)
(* blocking call, wait until the proxy has completed it.  The proxy runs   *)
(* the published slots in order.  The two processes share published_seq,   *)
(* completed_seq, data_tail, consumer_waiting, the slots, one result       *)
(* buffer and two eventfds.                                                *)
(*                                                                         *)
(* Atomics are modelled as sequentially consistent: on aarch64 the release *)
(* store of published_seq (STLR) followed by the seq_cst load of           *)
(* consumer_waiting (LDAR) is not reordered.  A retry loop around          *)
(* nanosleep() is the guard it waits for.                                  *)
(***************************************************************************)
EXTENDS Integers, FiniteSets, Sequences

CONSTANTS
  Threads,    \* application threads that call the stub
  NoThread,   \* "g_lock is free"
  SLOTS,      \* g_ring_slots
  DATA_SIZE,  \* GLES_BRIDGE_DATA_SIZE, in bytes
  Sizes,      \* payload sizes the threads write, in bytes
  Kinds,      \* kinds of commands the threads issue, a subset of Ops
  AsyncSwap,  \* bridge_config_async_swap()
  MaxSeq,     \* bound: calls made in all
  MaxWrites   \* bound: bridge_data_write() calls of one command

(***************************************************************************)
(* A payload larger than the arena aborts the client at once               *)
(* (ring_data_alloc, first test), so Sizes stops at DATA_SIZE.             *)
(***************************************************************************)
ASSUME RingAssumption ==
  /\ NoThread \notin Threads
  /\ SLOTS \in Nat \ {0}
  /\ DATA_SIZE \in Nat \ {0}
  /\ DATA_SIZE % 4 = 0
  /\ Sizes \subseteq 0 .. DATA_SIZE
  /\ Kinds \subseteq {"void", "call", "swap"}
  /\ AsyncSwap \in BOOLEAN
  /\ MaxSeq \in Nat
  /\ MaxWrites \in Nat

VARIABLES
  (* shared memory: BridgeRing *)
  published_seq, completed_seq, data_tail, consumer_waiting, slots,
  result_buf,          \* the call whose results it holds
  (* the two eventfds: readable or not.  A read takes every post at once,  *)
  (* so the count itself is never observed.                                *)
  req_efd, resp_efd,
  (* the stub process *)
  g_lock, g_local_seq, g_local_data_head,
  g_pending_swap_seq,  \* NoSeq when g_have_pending_swap is 0
  (* per application thread *)
  pc, op, g_cur_seq, want, wait_seq, reply,
  (* the proxy process *)
  proxy_pc, needs_resp,
  ran                  \* history: the calls the proxy ran, in order

stubVars   == <<g_lock, g_local_seq, g_local_data_head, g_pending_swap_seq>>
threadVars == <<pc, op, g_cur_seq, want, wait_seq, reply>>
proxyVars  == <<proxy_pc, needs_resp, ran>>
vars == <<published_seq, completed_seq, data_tail, consumer_waiting, slots,
          result_buf, req_efd, resp_efd, stubVars, threadVars, proxyVars>>

NoSeq == -1
Seqs  == Nat \cup {NoSeq}
Ops   == {"void", "call", "swap"}

StubPCs  == {"idle", "begin", "fill", "alloc", "wake", "wait", "sleep",
             "return"}
ProxyPCs == {"loop", "arm", "recheck", "block", "disarm", "release",
             "complete", "respond"}

(***************************************************************************)
(* A slot.  "call" stands for the opcode and the arguments: it is the      *)
(* sequence number under which the call was begun.  "data" holds the arena *)
(* ranges of its payloads, "result" the call whose result was stored last. *)
(* "at" is the history of a range: the value of g_local_data_head at which *)
(* it starts.                                                              *)
(***************************************************************************)
ArenaRange == [at : Nat, off : Nat, len : Nat]
Slot  == [call : Seqs, op : Ops, needs_response : 0 .. 2,
          data_watermark : Nat, data_watermark_valid : BOOLEAN,
          data : SUBSET ArenaRange, result : Seqs]

SlotOf(seq) == seq % SLOTS
Slots       == 0 .. SLOTS - 1

Reply == [val : Seqs, buf : Seqs]

Init ==
  /\ published_seq = 0 /\ completed_seq = 0 /\ data_tail = 0
  /\ consumer_waiting = FALSE
  /\ slots = [i \in Slots |->
               [call |-> NoSeq, op |-> "void", needs_response |-> 0,
                data_watermark |-> 0, data_watermark_valid |-> FALSE,
                data |-> {}, result |-> NoSeq]]
  /\ result_buf = NoSeq
  /\ req_efd = FALSE /\ resp_efd = FALSE
  /\ g_lock = NoThread
  /\ g_local_seq = 0 /\ g_local_data_head = 0
  /\ g_pending_swap_seq = NoSeq
  /\ pc = [t \in Threads |-> "idle"]
  /\ op = [t \in Threads |-> "void"]
  /\ g_cur_seq = [t \in Threads |-> 0]
  /\ want = [t \in Threads |-> 0]
  /\ wait_seq = [t \in Threads |-> NoSeq]
  /\ reply = [t \in Threads |-> [val |-> NoSeq, buf |-> NoSeq]]
  /\ proxy_pc = "loop" /\ needs_resp = 0 /\ ran = <<>>

Goto(t, l) == pc' = [pc EXCEPT ![t] = l]
CurSlot(t) == SlotOf(g_cur_seq[t])

-----------------------------------------------------------------------------
(* bridge_begin(): lock, then reserve the next slot once the ring has room *)

AcquireLock(t, o) ==
  /\ pc[t] = "idle"
  /\ g_lock = NoThread
  /\ g_local_seq < MaxSeq
  /\ g_lock' = t
  /\ op' = [op EXCEPT ![t] = o]
  /\ Goto(t, "begin")
  /\ UNCHANGED <<published_seq, completed_seq, data_tail, consumer_waiting,
                 slots, result_buf, req_efd, resp_efd, g_local_seq,
                 g_local_data_head, g_pending_swap_seq, g_cur_seq, want,
                 wait_seq, reply, proxyVars>>

(* MUTANT: off by one, the ring may hold one call too many *)
RingHasRoomOffByOne == g_local_seq - completed_seq <= SLOTS

RingHasRoom == g_local_seq - completed_seq < SLOTS

ReserveSlot(t) ==
  /\ pc[t] = "begin"
  /\ RingHasRoom
  /\ g_local_seq' = g_local_seq + 1
  /\ g_cur_seq' = [g_cur_seq EXCEPT ![t] = g_local_seq]
  /\ slots' = [slots EXCEPT ![SlotOf(g_local_seq)] =
                 [@ EXCEPT !.call = g_local_seq,
                           !.op = op[t],
                           !.data_watermark = g_local_data_head,
                           !.data_watermark_valid = FALSE,
                           !.data = {}]]
  /\ Goto(t, "fill")
  /\ UNCHANGED <<published_seq, completed_seq, data_tail, consumer_waiting,
                 result_buf, req_efd, resp_efd, g_lock, g_local_data_head,
                 g_pending_swap_seq, op, want, wait_seq, reply, proxyVars>>

-----------------------------------------------------------------------------
(* bridge_data_write(): ring_data_alloc(), copy, move the watermark        *)

Align(n)    == ((n + 3) \div 4) * 4
SpaceToEnd  == DATA_SIZE - (g_local_data_head % DATA_SIZE)
AllocAt(n)  == IF n <= SpaceToEnd THEN g_local_data_head
                                  ELSE g_local_data_head + SpaceToEnd
AllocOff(n) == IF n <= SpaceToEnd THEN g_local_data_head % DATA_SIZE ELSE 0
NewHead(n)  == AllocAt(n) + n
(* MUTANT: the padding before the wrap point is not counted *)
HasRoomWithoutPadding(n) == g_local_data_head + n - data_tail <= DATA_SIZE
HasRoom(n)  == NewHead(n) - data_tail <= DATA_SIZE

StartWrite(t, size) ==
  /\ pc[t] = "fill"
  /\ Cardinality(slots[CurSlot(t)].data) < MaxWrites
  /\ want' = [want EXCEPT ![t] = Align(size)]
  /\ Goto(t, "alloc")
  /\ UNCHANGED <<published_seq, completed_seq, data_tail, consumer_waiting,
                 slots, result_buf, req_efd, resp_efd, stubVars, op,
                 g_cur_seq, wait_seq, reply, proxyVars>>

FinishWrite(t) ==
  LET n == want[t]
      c == slots[CurSlot(t)] IN
  /\ pc[t] = "alloc"
  /\ HasRoom(n)
  /\ g_local_data_head' = NewHead(n)
  /\ slots' = [slots EXCEPT ![CurSlot(t)] =
                 [c EXCEPT !.data = c.data \cup {[at  |-> AllocAt(n),
                                                  off |-> AllocOff(n),
                                                  len |-> n]},
                           !.data_watermark = NewHead(n),
                           !.data_watermark_valid = TRUE]]
  /\ want' = [want EXCEPT ![t] = 0]
  /\ Goto(t, "fill")
  /\ UNCHANGED <<published_seq, completed_seq, data_tail, consumer_waiting,
                 result_buf, req_efd, resp_efd, g_lock, g_local_seq,
                 g_pending_swap_seq, op, g_cur_seq, wait_seq, reply,
                 proxyVars>>

-----------------------------------------------------------------------------
(* publish_cur(): store published_seq, then look at consumer_waiting.      *)
(* What the sender will wait for is fixed here: nothing for a void call,   *)
(* itself for a blocking call, the previous swap for an async swap.        *)

NeedsResponse(o) ==
  CASE o = "void" -> 0
    [] o = "call" -> 1
    [] o = "swap" -> IF AsyncSwap THEN 2 ELSE 1

(* MUTANT: an async swap waits for the swap before the pending one *)
WaitsForOneBefore(o, seq) ==
  CASE o = "void" -> NoSeq
    [] o = "call" -> seq
    [] o = "swap" -> IF AsyncSwap THEN g_pending_swap_seq - 1 ELSE seq

(* MUTANT: only the pending swap is ever waited for *)
WaitsForPendingOnly(o, seq) ==
  IF o = "void" THEN NoSeq ELSE g_pending_swap_seq

(* MUTANT: a swap never waits *)
WaitsForCallsOnly(o, seq) == IF o = "call" THEN seq ELSE NoSeq

WaitsFor(o, seq) ==
  CASE o = "void" -> NoSeq
    [] o = "call" -> seq
    [] o = "swap" -> IF AsyncSwap THEN g_pending_swap_seq ELSE seq

Publish(t) ==
  /\ pc[t] = "fill"
  /\ slots' = [slots EXCEPT ![CurSlot(t)].needs_response =
                              NeedsResponse(op[t])]
  /\ published_seq' = g_cur_seq[t] + 1
  /\ wait_seq' = [wait_seq EXCEPT ![t] = WaitsFor(op[t], g_cur_seq[t])]
  /\ Goto(t, "wake")
  /\ UNCHANGED <<completed_seq, data_tail, consumer_waiting, result_buf,
                 req_efd, resp_efd, stubVars, op, g_cur_seq, want, reply,
                 proxyVars>>

(* The rest of publish_cur(); bridge_send_void() then unlocks and is done. *)
WakeProxy(t) ==
  /\ pc[t] = "wake"
  /\ req_efd' = (req_efd \/ consumer_waiting)
  /\ IF op[t] = "void"
       THEN Goto(t, "idle") /\ g_lock' = NoThread
       ELSE Goto(t, "wait") /\ UNCHANGED g_lock
  /\ UNCHANGED <<published_seq, completed_seq, data_tail, consumer_waiting,
                 slots, result_buf, resp_efd, g_local_seq,
                 g_local_data_head, g_pending_swap_seq, op, g_cur_seq, want,
                 wait_seq, reply, proxyVars>>

-----------------------------------------------------------------------------
(* wait_completed(): test, else sleep on resp_efd and test again.  The     *)
(* spin phase repeats the test.                                            *)

(* MUTANT: off by one, satisfied while the call itself still runs *)
CompletedUpTo(t) == completed_seq >= wait_seq[t]

CompletedOf(t) == completed_seq > wait_seq[t]

Sleep(t) ==
  /\ pc[t] = "wait"
  /\ ~CompletedOf(t)
  /\ Goto(t, "sleep")
  /\ UNCHANGED <<published_seq, completed_seq, data_tail, consumer_waiting,
                 slots, result_buf, req_efd, resp_efd, stubVars, op,
                 g_cur_seq, want, wait_seq, reply, proxyVars>>

WakeUp(t) ==
  /\ pc[t] = "sleep"
  /\ resp_efd
  /\ resp_efd' = FALSE
  /\ Goto(t, "wait")
  /\ UNCHANGED <<published_seq, completed_seq, data_tail, consumer_waiting,
                 slots, result_buf, req_efd, stubVars, op, g_cur_seq, want,
                 wait_seq, reply, proxyVars>>

(* The end of bridge_send_call() and of bridge_send_swap(): take the reply *)
(* under g_lock, then unlock.  An async swap takes none and becomes the    *)
(* pending swap.                                                           *)
FinishSend(t) ==
  LET res == slots[CurSlot(t)].result IN
  /\ pc[t] = "wait"
  /\ CompletedOf(t)
  /\ reply' = [reply EXCEPT ![t] =
        CASE op[t] = "call" -> [val |-> res, buf |-> result_buf]
          [] op[t] = "swap" /\ ~AsyncSwap -> [val |-> res, buf |-> NoSeq]
          [] OTHER -> [val |-> NoSeq, buf |-> NoSeq]]
  /\ g_pending_swap_seq' = IF op[t] = "swap" /\ AsyncSwap
                             THEN g_cur_seq[t] ELSE g_pending_swap_seq
  /\ wait_seq' = [wait_seq EXCEPT ![t] = NoSeq]
  /\ g_lock' = NoThread
  /\ Goto(t, "return")
  /\ UNCHANGED <<published_seq, completed_seq, data_tail, consumer_waiting,
                 slots, result_buf, req_efd, resp_efd, g_local_seq,
                 g_local_data_head, op, g_cur_seq, want, proxyVars>>

(* The GL entry point reads what it needs, without g_lock, and returns.    *)
Return(t) ==
  /\ pc[t] = "return"
  /\ op' = [op EXCEPT ![t] = "void"]
  /\ Goto(t, "idle")
  /\ UNCHANGED <<published_seq, completed_seq, data_tail, consumer_waiting,
                 slots, result_buf, req_efd, resp_efd, stubVars,
                 g_cur_seq, want, wait_seq, reply, proxyVars>>

-----------------------------------------------------------------------------
(* The proxy's dispatch loop.  Its local counter "completed" always equals *)
(* completed_seq, which only the proxy stores.                             *)

CaughtUp == completed_seq >= published_seq
Oldest   == SlotOf(completed_seq)

ProxyUnchanged ==
  UNCHANGED <<published_seq, g_lock, g_local_seq, g_local_data_head,
              g_pending_swap_seq, threadVars>>

(* Nothing published, after spinning: announce that the proxy will sleep.  *)
ProxyIdle ==
  /\ proxy_pc = "loop"
  /\ CaughtUp
  /\ proxy_pc' = "arm"
  /\ ProxyUnchanged
  /\ UNCHANGED <<completed_seq, data_tail, consumer_waiting, slots,
                 result_buf, req_efd, resp_efd, needs_resp, ran>>

ProxyArm ==
  /\ proxy_pc = "arm"
  /\ consumer_waiting' = TRUE
  /\ proxy_pc' = "recheck"
  /\ ProxyUnchanged
  /\ UNCHANGED <<completed_seq, data_tail, slots, result_buf, req_efd,
                 resp_efd, needs_resp, ran>>

(* MUTANT: sleep without looking at published_seq again *)
ProxyBlockAtOnce ==
  /\ proxy_pc = "recheck"
  /\ proxy_pc' = "block"
  /\ ProxyUnchanged
  /\ UNCHANGED <<completed_seq, data_tail, consumer_waiting, slots,
                 result_buf, req_efd, resp_efd, needs_resp, ran>>

ProxyRecheck ==
  /\ proxy_pc = "recheck"
  /\ proxy_pc' = IF CaughtUp THEN "block" ELSE "disarm"
  /\ ProxyUnchanged
  /\ UNCHANGED <<completed_seq, data_tail, consumer_waiting, slots,
                 result_buf, req_efd, resp_efd, needs_resp, ran>>

ProxyWoken ==
  /\ proxy_pc = "block"
  /\ req_efd
  /\ req_efd' = FALSE
  /\ proxy_pc' = "disarm"
  /\ ProxyUnchanged
  /\ UNCHANGED <<completed_seq, data_tail, consumer_waiting, slots,
                 result_buf, resp_efd, needs_resp, ran>>

ProxyDisarm ==
  /\ proxy_pc = "disarm"
  /\ consumer_waiting' = FALSE
  /\ proxy_pc' = "loop"
  /\ ProxyUnchanged
  /\ UNCHANGED <<completed_seq, data_tail, slots, result_buf, req_efd,
                 resp_efd, needs_resp, ran>>

(* Run the handler of the oldest published slot: a handler that answers    *)
(* stores into the slot and, for a blocking call, into the result buffer.  *)
ProxyDispatch ==
  LET c == slots[Oldest] IN
  /\ proxy_pc = "loop"
  /\ ~CaughtUp
  /\ ran' = Append(ran, c.call)
  /\ slots' = IF c.op = "void" THEN slots
                ELSE [slots EXCEPT ![Oldest].result = c.call]
  /\ result_buf' = IF c.op = "call" THEN c.call ELSE result_buf
  /\ proxy_pc' = "release"
  /\ ProxyUnchanged
  /\ UNCHANGED <<completed_seq, data_tail, consumer_waiting, req_efd,
                 resp_efd, needs_resp>>

(* MUTANT: arena ranges are never given back *)
ProxyKeepData ==
  /\ proxy_pc = "release"
  /\ needs_resp' = slots[Oldest].needs_response
  /\ proxy_pc' = "complete"
  /\ ProxyUnchanged
  /\ UNCHANGED <<completed_seq, data_tail, consumer_waiting, slots,
                 result_buf, req_efd, resp_efd, ran>>

(* Give the call's arena ranges back, then read needs_response.            *)
ProxyRelease ==
  LET c == slots[Oldest] IN
  /\ proxy_pc = "release"
  /\ data_tail' = IF c.data_watermark_valid THEN c.data_watermark
                                            ELSE data_tail
  /\ needs_resp' = c.needs_response
  /\ proxy_pc' = "complete"
  /\ ProxyUnchanged
  /\ UNCHANGED <<completed_seq, consumer_waiting, slots, result_buf,
                 req_efd, resp_efd, ran>>

ProxyComplete ==
  /\ proxy_pc = "complete"
  /\ completed_seq' = completed_seq + 1
  /\ proxy_pc' = "respond"
  /\ ProxyUnchanged
  /\ UNCHANGED <<data_tail, consumer_waiting, slots, result_buf, req_efd,
                 resp_efd, needs_resp, ran>>

(* MUTANT: only blocking calls (needs_response 1) are answered *)
ProxyRespondToCalls ==
  /\ proxy_pc = "respond"
  /\ resp_efd' = (resp_efd \/ needs_resp = 1)
  /\ proxy_pc' = "loop"
  /\ ProxyUnchanged
  /\ UNCHANGED <<completed_seq, data_tail, consumer_waiting, slots,
                 result_buf, req_efd, needs_resp, ran>>

ProxyRespond ==
  /\ proxy_pc = "respond"
  /\ resp_efd' = (resp_efd \/ needs_resp # 0)
  /\ proxy_pc' = "loop"
  /\ ProxyUnchanged
  /\ UNCHANGED <<completed_seq, data_tail, consumer_waiting, slots,
                 result_buf, req_efd, needs_resp, ran>>

-----------------------------------------------------------------------------
(* One send, from the moment the lock is held *)
Send(t) ==
  \/ ReserveSlot(t) \/ FinishWrite(t) \/ Publish(t) \/ WakeProxy(t)
  \/ Sleep(t) \/ WakeUp(t) \/ FinishSend(t) \/ Return(t)

Proxy ==
  \/ ProxyIdle \/ ProxyArm \/ ProxyRecheck \/ ProxyWoken \/ ProxyDisarm
  \/ ProxyDispatch \/ ProxyRelease \/ ProxyComplete \/ ProxyRespond

Next ==
  \/ \E t \in Threads :
       \/ \E o \in Kinds : AcquireLock(t, o)
       \/ \E size \in Sizes : StartWrite(t, size)
       \/ Send(t)
  \/ Proxy

Spec == Init /\ [][Next]_vars

(***************************************************************************)
(* A thread that runs does not stop inside a stub function, and the proxy  *)
(* is scheduled.  Nothing is assumed about who gets g_lock, nor that a     *)
(* thread ever calls again.                                                *)
(***************************************************************************)
Fairness == (\A t \in Threads : WF_vars(Send(t))) /\ WF_vars(Proxy)
FairSpec == Spec /\ Fairness
-----------------------------------------------------------------------------
(* Properties *)

(* Every variable keeps its type. *)
TypeOK ==
  /\ published_seq \in Nat /\ completed_seq \in Nat /\ data_tail \in Nat
  /\ consumer_waiting \in BOOLEAN
  /\ slots \in [Slots -> Slot]
  /\ result_buf \in Seqs
  /\ req_efd \in BOOLEAN /\ resp_efd \in BOOLEAN
  /\ g_lock \in Threads \cup {NoThread}
  /\ g_local_seq \in Nat /\ g_local_data_head \in Nat
  /\ g_pending_swap_seq \in Seqs
  /\ pc \in [Threads -> StubPCs]
  /\ op \in [Threads -> Ops]
  /\ g_cur_seq \in [Threads -> Nat]
  /\ want \in [Threads -> Nat]
  /\ wait_seq \in [Threads -> Seqs]
  /\ reply \in [Threads -> Reply]
  /\ proxy_pc \in ProxyPCs /\ needs_resp \in 0 .. 2
  /\ ran \in Seq(Seqs)

(* A thread fills its slot, or has published it and is not yet answered.   *)
Filling(t) == pc[t] \in {"fill", "alloc"}
Sending(t) == pc[t] \in {"wake", "wait", "sleep"}

(* The calls that hold a slot, and those of them whose arena ranges the    *)
(* proxy has not given back yet.                                           *)
InFlight == completed_seq .. g_local_seq - 1
Live     == {s \in InFlight : ~(s = completed_seq /\ proxy_pc = "complete")}

(* A slot keeps its call until the proxy has completed it, however many    *)
(* threads queue behind it: bridge_begin() of a later call never reuses    *)
(* the slot early (ring_reserve_slot against the proxy's completed_seq).   *)
SlotIntact == \A s \in InFlight : slots[SlotOf(s)].call = s

(* Payloads the proxy may still read lie inside the arena and share no     *)
(* byte: ring_data_alloc never hands out a range that a queued call holds, *)
(* across the wrap of the arena and with data_tail moving meanwhile.       *)
Apart(r1, r2) == r1.off + r1.len <= r2.off \/ r2.off + r2.len <= r1.off
ArenaDisjoint ==
  \A s1, s2 \in Live :
    \A r1 \in slots[SlotOf(s1)].data, r2 \in slots[SlotOf(s2)].data :
      /\ r1.off + r1.len <= DATA_SIZE
      /\ (s1 # s2 \/ r1 # r2) => Apart(r1, r2)

(* What bridge_send_call() returns, value and copied result buffer, is     *)
(* what the proxy answered to this very call.  The same for the result of  *)
(* a synchronous swap.                                                     *)
ReplyIsOwn ==
  \A t \in Threads :
    pc[t] = "return" =>
      /\ op[t] = "call" => reply[t] = [val |-> g_cur_seq[t],
                                       buf |-> g_cur_seq[t]]
      /\ op[t] = "swap" /\ ~AsyncSwap => reply[t].val = g_cur_seq[t]

(* The result buffer of the ring is "shared by all blocking calls (only    *)
(* one is ever in flight)" (gles_bridge_protocol.h).                       *)
OneBlockingCall ==
  \A s1, s2 \in completed_seq .. published_seq - 1 :
    slots[SlotOf(s1)].op = "call" /\ slots[SlotOf(s2)].op = "call"
      => s1 = s2

(* The application is at most one frame ahead: of the swaps that           *)
(* bridge_send_swap() has returned from, at most one is not yet done.      *)
SwapDepth ==
  LET Ahead == {s \in completed_seq .. published_seq - 1 :
                  /\ slots[SlotOf(s)].op = "swap"
                  /\ ~\E t \in Threads : Sending(t) /\ g_cur_seq[t] = s}
  IN  \A s1, s2 \in Ahead : s1 = s2

(* No lost wake-up of the proxy: it sleeps on req_efd with work published  *)
(* only while the publisher has still to post (publish_cur against the     *)
(* consumer_waiting handshake of the dispatch loop).                       *)
ProxyWillWake ==
  proxy_pc = "block" /\ ~req_efd /\ ~CaughtUp
    => \E t \in Threads : pc[t] = "wake"

(* No lost wake-up of a sender: it sleeps on resp_efd after its call is    *)
(* complete only while the proxy has still to post.  A post of an earlier  *)
(* call, taken by another thread or left over, cannot hide this one.       *)
SenderWillWake ==
  \A t \in Threads :
    pc[t] = "sleep" /\ ~resp_efd /\ CompletedOf(t)
      => proxy_pc = "respond" /\ needs_resp # 0

(* A call that holds g_lock lets it go: room in the ring and in the arena  *)
(* comes back, and every blocking send is answered.                        *)
LockReleased == \A t \in Threads : (g_lock = t) ~> (g_lock # t)

(***************************************************************************)
(* Claims of the source that the code does not keep.                       *)
(***************************************************************************)

(* ring_data_alloc() refuses one thing, a payload larger than the arena.   *)
(* Every other write gets its space, and the call goes on.                 *)
AcceptedWriteFinishes ==
  \A t \in Threads : (pc[t] = "alloc") ~> (pc[t] # "alloc")

(* "bridge_send_call() drops g_lock before the caller reads its results    *)
(* through BRIDGE_CTRL()" (bridge_core.c): what the slot then holds is     *)
(* still this caller's answer.                                             *)
SlotResultIsOwn ==
  \A t \in Threads :
    pc[t] = "return" /\ op[t] = "call"
      => slots[CurSlot(t)].result = g_cur_seq[t]

-----------------------------------------------------------------------------
(* The ring implements the ordered call service of CallOrder *)

(* The call a thread's send waits for, and the latest swap: the pending    *)
(* one, or the one still in bridge_send_swap().                            *)
WaitingFor == [t \in Threads |-> IF Sending(t) THEN wait_seq[t] ELSE NoSeq]
LastSwap   == IF \E t \in Threads :
                   AsyncSwap /\ Sending(t) /\ op[t] = "swap"
                THEN published_seq - 1 ELSE g_pending_swap_seq

CO == INSTANCE CallOrder WITH issued   <- published_seq,
                              kind     <- op,
                              waiting  <- WaitingFor,
                              lastSwap <- LastSwap

(* Each call runs exactly once, in the order of publication; a blocking    *)
(* call returns only after it ran, an async swap only after the previous   *)
(* swap ran; and they all do return.                                       *)
ImplementsCallOrder == CO!FairSpec
=============================================================================
