------------------------- MODULE ProtocolInvariant -------------------------
(***************************************************************************)
(* Why calls of GLProtocol find what is theirs: what an entry point and    *)
(* its handler must agree on, and the inductive invariant that follows.    *)
(***************************************************************************)
EXTENDS GLProtocol

(***************************************************************************)
(* The handler decodes what the entry point encoded and reads no region    *)
(* that may still be named by an earlier command.  A handler that nobody   *)
(* waits for writes only into regions its command always brings.           *)
(***************************************************************************)
RequestFits(c) ==
    /\ c.agrees
    /\ c.reads \subseteq c.puts
    /\ c.ifGiven \cap c.keeps \subseteq c.puts
    /\ c.waits \/ (c.gives \cup c.mayGive) \cap SlotRegions \subseteq c.puts

(***************************************************************************)
(* What the entry point takes of the answer, the handler gives; a length   *)
(* never comes without the buffer it measures.                             *)
(***************************************************************************)
AnswerFits(c) ==
    /\ c.takes \cap {"value", "slot"} # {} => "value" \in c.gives
    /\ "buffer" \in c.takes =>
           /\ "length" \notin c.takes => "buffer" \in c.gives
           /\ "length" \in c.gives => "buffer" \in c.gives
           /\ "length" \in c.mayGive => "buffer" \in c.gives \cup c.mayGive
    /\ c.takes \cap SlotRegions \subseteq c.gives

Fits(c) == RequestFits(c) /\ AnswerFits(c)

UnderWay == (completed + 1)..published

Payload(n) == [by |-> n, what |-> "payload"]
Reply(n) == [by |-> n, what |-> "answer"]

(***************************************************************************)
(* A command under way is complete in its slot, and the ranges it brought  *)
(* are as its entry point left them.  Only the last one may be waited for. *)
(***************************************************************************)
RequestInv ==
    /\ \A n \in UnderWay :
        LET s == slots[SlotOf(n)] IN
        /\ s.call \in Shape /\ Fits(s.call)
        /\ s.length = None
        /\ \A r \in Regions :
               /\ s.names[r] <= n
               /\ r \in s.call.puts => s.names[r] = n
               /\ r \notin s.call.keeps => s.names[r] \in {None, n}
               /\ s.names[r] = n => arena[n][r] = Payload(n)
        /\ s.call.waits => n = published /\ g_lock # NoThread
    /\ \A i \in 0..(Slots - 1), r \in Regions : slots[i].names[r] <= published

(***************************************************************************)
(* What the slot, the result buffer and the arena hold for a thread whose  *)
(* call is answered, until it returns or another command is begun.         *)
(***************************************************************************)
AnswerIsThere(t) ==
    LET s == slots[SlotOf(cur[t])]
        takes == call[t].takes
    IN  /\ "value" \in call[t].gives => s.value = cur[t]
        /\ s.length \in {None, cur[t]}
        /\ "buffer" \in takes /\ ("length" \in takes => s.length # None)
               => result_buf = cur[t]
        /\ \A r \in takes \cap SlotRegions :
               s.names[r] = cur[t] => arena[cur[t]][r] = Reply(cur[t])

(***************************************************************************)
(* The waiting thread holds g_lock and has published the last command; a   *)
(* reading one is behind.                                                  *)
(***************************************************************************)
CallerInv ==
    \A t \in Threads :
        /\ pc[t] = "waiting" <=> g_lock = t
        /\ pc[t] = "waiting" =>
               /\ cur[t] = published /\ published # 0
               /\ call[t] = slots[SlotOf(published)].call
               /\ call[t].waits
               /\ completed = published => AnswerIsThere(t)
        /\ pc[t] = "reading" => cur[t] \in 1..completed
        /\ pc[t] # "idle" => call[t] \in Shape /\ Fits(call[t])

ProtocolInv ==
    /\ TypeOK /\ RequestInv /\ CallerInv
    /\ PayloadIsOwn /\ CopyIsOwn /\ LateReadIsOwn
=============================================================================
