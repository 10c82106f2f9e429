--------------------------- MODULE RingInvariant ----------------------------
(***************************************************************************)
(* The inductive invariant of BridgeRing: why its safety properties hold.  *)
(***************************************************************************)
EXTENDS BridgeRing

Published == completed_seq .. published_seq - 1

(* How many calls the proxy has run: the oldest slot's handler has run     *)
(* before its completion is stored.                                        *)
Dispatched == IF proxy_pc \in {"release", "complete"}
                THEN completed_seq + 1 ELSE completed_seq

(* A thread between bridge_begin() and the end of its send owns g_lock.    *)
LockInv ==
  \A t \in Threads :
    g_lock = t <=> Filling(t) \/ Sending(t) \/ pc[t] = "begin"

(* The cursors.  At most one slot is reserved and not yet published: the   *)
(* lock holder's.                                                          *)
CursorInv ==
  /\ completed_seq <= published_seq
  /\ published_seq <= g_local_seq
  /\ g_local_seq <= completed_seq + SLOTS
  /\ \A t \in Threads :
       /\ Filling(t) => /\ g_cur_seq[t] = published_seq
                        /\ g_local_seq = published_seq + 1
       /\ Sending(t) => g_cur_seq[t] + 1 = published_seq
  /\ (\A t \in Threads : ~Filling(t)) => g_local_seq = published_seq
  /\ Dispatched <= published_seq

(* What a slot says, from its reservation to its completion, and for its   *)
(* owner until the send ends.                                              *)
SlotInv ==
  /\ SlotIntact
  /\ \A s \in Published :
       slots[SlotOf(s)].needs_response = NeedsResponse(slots[SlotOf(s)].op)
  /\ \A t \in Threads :
       Filling(t) \/ Sending(t) => /\ slots[CurSlot(t)].call = g_cur_seq[t]
                                   /\ slots[CurSlot(t)].op = op[t]
  /\ proxy_pc = "complete" => needs_resp = slots[Oldest].needs_response

(* Who waits for what.  A published call that wants an answer belongs to a *)
(* thread that is still in its send, or is the one pending swap.           *)
WaitInv ==
  /\ \A t \in Threads :
       /\ Sending(t) => wait_seq[t] = WaitsFor(op[t], g_cur_seq[t])
       /\ pc[t] \in {"wait", "sleep"} => op[t] # "void"
  /\ g_pending_swap_seq < published_seq
  /\ g_pending_swap_seq # NoSeq => AsyncSwap
  /\ g_pending_swap_seq \in Published
       => slots[SlotOf(g_pending_swap_seq)].op = "swap"
  /\ \A s \in Published :
       slots[SlotOf(s)].op # "void"
         => \/ \E t \in Threads : Sending(t) /\ g_cur_seq[t] = s
            \/ /\ slots[SlotOf(s)].op = "swap"
               /\ s = g_pending_swap_seq

(* Calls run in order; an answer stays in place while its owner is in the  *)
(* send, and what a finished send took is its own.                         *)
AnswerInv ==
  /\ Len(ran) = Dispatched
  /\ \A i \in 1 .. Len(ran) : ran[i] = i - 1
  /\ \A t \in Threads :
       Sending(t) /\ g_cur_seq[t] < Dispatched
         => /\ op[t] # "void" => slots[CurSlot(t)].result = g_cur_seq[t]
            /\ op[t] = "call" => result_buf = g_cur_seq[t]
  /\ ReplyIsOwn

(* The two sleep and wake-up protocols.                                    *)
WakeInv ==
  /\ consumer_waiting <=> proxy_pc \in {"recheck", "block", "disarm"}
  /\ ProxyWillWake
  /\ SenderWillWake

(* The arena.  "at" counts bytes handed out since the start: ranges of     *)
(* calls that the proxy may read lie between data_tail and the head, in    *)
(* the order in which they were handed out; a range never crosses the end  *)
(* of the arena; a slot's watermark lies behind its own ranges and before  *)
(* those of later calls.                                                   *)
Before(r1, r2) == r1.at + r1.len <= r2.at

OwnRanges(s) ==
  LET c == slots[SlotOf(s)] IN
  /\ data_tail <= c.data_watermark
  /\ c.data_watermark <= g_local_data_head
  /\ c.data # {} => c.data_watermark_valid
  /\ \A r \in c.data :
       /\ data_tail <= r.at
       /\ r.at + r.len <= c.data_watermark
       /\ r.off = r.at % DATA_SIZE
       /\ r.off + r.len <= DATA_SIZE
  /\ \A r1, r2 \in c.data : r1 = r2 \/ Before(r1, r2) \/ Before(r2, r1)

Follows(s1, s2) ==
  LET c1 == slots[SlotOf(s1)]
      c2 == slots[SlotOf(s2)] IN
  /\ c1.data_watermark <= c2.data_watermark
  /\ \A r \in c2.data : c1.data_watermark <= r.at

ArenaInv ==
  /\ data_tail <= g_local_data_head
  /\ g_local_data_head <= data_tail + DATA_SIZE
  /\ \A s \in Live : OwnRanges(s)
  /\ \A s1, s2 \in Live : s1 < s2 => Follows(s1, s2)

(* All of it: everything but the types.                                    *)
RingInv ==
  /\ LockInv /\ CursorInv /\ SlotInv /\ WaitInv /\ AnswerInv /\ WakeInv
  /\ ArenaInv
=============================================================================
