------------------------------ MODULE SyncPool ------------------------------
(***************************************************************************)
(* Fence syncs: the handle allocator and entry points of the stub          *)
(* (stub/bridge_core.c, stub/gles3_2_stub.c) and the table, the handlers   *)
(* and the list of deferred client waits of the proxy                      *)
(* (proxy/protocol/gles3_2.c).                                             *)
(*                                                                         *)
(* The stub numbers the fences itself, so glFenceSync() need not wait for  *)
(* the proxy.  The proxy publishes in shared memory which generation of    *)
(* an id it saw signaled; the stub answers glClientWaitSync() from there.  *)
(* With fast_client_wait the stub even answers at once that a fence is     *)
(* satisfied, and the proxy waits for it before it next touches mapped     *)
(* memory.                                                                 *)
(*                                                                         *)
(* The command ring is the FIFO that module CallOrder promises: a send is  *)
(* one step, and the proxy runs the commands one after the other.  The     *)
(* bits of a handle (gen << BRIDGE_SYNC_ID_BITS | id) are a record.        *)
(***************************************************************************)
EXTENDS Integers, Sequences

CONSTANTS
  Threads,      \* application threads
  Groups,       \* share groups of EGL contexts
  GroupOf,      \* the group of the context each thread has current
  NumIds,       \* BRIDGE_MAX_SYNCS - 1: the ids are 1 .. NumIds
  GenSpan,      \* generations are taken modulo this, 2^24 in the code
  MaxDeferred,  \* MAX_DEFERRED_SYNCS
  RingCap,      \* g_ring_slots
  MaxFences,    \* bound: fences created, fewer than there are generations
  MaxCalls      \* bound: client waits and memory accesses in all

ASSUME SyncAssumption ==
  /\ GroupOf \in [Threads -> Groups]
  /\ NumIds \in Nat \ {0} /\ GenSpan \in Nat \ {0, 1}
  /\ MaxDeferred \in Nat \ {0} /\ RingCap \in Nat \ {0}
  /\ MaxFences \in Nat /\ MaxFences < GenSpan
  /\ MaxCalls \in Nat

VARIABLES
  (* the stub *)
  g_sync_used, g_sync_next, g_sync_gen,
  pc, hand,            \* per thread: where it is, the handle it works on
  (* shared memory *)
  ring, sync_done_gen,
  (* the proxy *)
  syncs, g_def,
  resolved,            \* proxy_resolve_deferred_waits(): entries dealt with
  (* the GL driver *)
  objs,                \* every sync object made, in order
  (* the application and history *)
  held,                \* per group: fences made and not deleted
  promised,            \* per group: fences answered by fast_client_wait
  reported,            \* fences reported signaled by any other answer
  refused,             \* fences the driver failed to make
  calls

stubVars  == <<g_sync_used, g_sync_next, g_sync_gen>>
proxyVars == <<sync_done_gen, syncs, g_def, resolved, objs, refused>>
vars == <<stubVars, pc, hand, ring, proxyVars, held, promised, reported,
          calls>>

Ids     == 1 .. NumIds
Gens    == 0 .. GenSpan - 1
Handle  == [id : Ids, gen : Gens]
NULL    == 0                           \* no sync object
NoFence == [id |-> 0, gen |-> 0]       \* the NULL GLsync

(* The modes 0 (wait with the caller's timeout), 1 (timeout 0) and 2       *)
(* (GL_TIMEOUT_IGNORED, while a buffer is mapped, with fast_client_wait).  *)
Modes   == {"block", "poll", "defer"}
Command ==
  [op : {"fence", "wait", "delete"}, h : Handle, mode : Modes \cup {"none"},
   by : Threads, after : {{}}]
  \cup [op : {"touch"}, h : {NoFence}, mode : {"none"}, by : Threads,
        after : SUBSET Handle]
SyncObj == [h : Handle, grp : Groups, signaled : BOOLEAN, live : BOOLEAN]
Deferred == [s : Nat \ {0}, handle : Handle, owned : BOOLEAN]

Init ==
  /\ g_sync_used = {} /\ g_sync_next = 1 /\ g_sync_gen = 0
  /\ pc = [t \in Threads |-> "idle"]
  /\ hand = [t \in Threads |-> NoFence]
  /\ ring = <<>>
  /\ sync_done_gen = [id \in Ids |-> 0]
  /\ syncs = [id \in Ids |-> [real |-> NULL, gen |-> 0]]
  /\ g_def = <<>> /\ resolved = 0
  /\ objs = <<>>
  /\ held = [g \in Groups |-> {}] /\ promised = [g \in Groups |-> {}]
  /\ reported = {} /\ refused = {}
  /\ calls = 0

Goto(t, l) == pc' = [pc EXCEPT ![t] = l]
Mine(t)    == GroupOf[t]

-----------------------------------------------------------------------------
(* The stub                                                                *)

(* bridge_sync_alloc(): next-fit from g_sync_next, under g_sync_lock.      *)
Distance(id) == (id - g_sync_next) % NumIds
(* MUTANT: takes the next id whether or not it is in use *)
NextId(id) == Distance(id) = 0

NextFit(id) == /\ id \in Ids \ g_sync_used
               /\ \A j \in Ids \ g_sync_used : Distance(id) <= Distance(j)

(* MUTANT: the generation stays *)
SameGen == IF g_sync_gen = 0 THEN 1 ELSE g_sync_gen

NextGen == IF (g_sync_gen + 1) % GenSpan = 0 THEN 1 ELSE g_sync_gen + 1

(* glFenceSync() up to its command.  With every id in use it returns NULL. *)
FenceAlloc(t) ==
  /\ pc[t] = "idle" /\ g_sync_gen < MaxFences
  /\ \E id \in Ids :
       /\ NextFit(id)
       /\ g_sync_used' = g_sync_used \cup {id}
       /\ g_sync_next' = id + 1
       /\ g_sync_gen' = NextGen
       /\ hand' = [hand EXCEPT ![t] = [id |-> id, gen |-> NextGen]]
  /\ Goto(t, "fence")
  /\ UNCHANGED <<ring, proxyVars, held, promised, reported, calls>>

(* bridge_sync_free(): the generation of the handle is not looked at.      *)
SyncFree(h) == g_sync_used' = g_sync_used \ {h.id}

(* MUTANT: any completion of the id counts *)
SyncDoneOnce(h) == sync_done_gen[h.id] # 0

SyncDone(h) == sync_done_gen[h.id] = h.gen

(* BRIDGE_BEGIN() .. BRIDGE_SEND: waits for room, then publishes.          *)
Send(t, op, h, mode, after) ==
  /\ Len(ring) < RingCap
  /\ ring' = Append(ring, [op |-> op, h |-> h, mode |-> mode, by |-> t,
                           after |-> after])

FenceSend(t) ==
  /\ pc[t] = "fence"
  /\ Send(t, "fence", hand[t], "none", {})
  /\ held' = [held EXCEPT ![Mine(t)] = @ \cup {hand[t]}]
  /\ Goto(t, "idle")
  /\ UNCHANGED <<stubVars, hand, proxyVars, promised, reported, calls>>

(* glClientWaitSync(): the fast path, or the decision to ask the proxy.    *)
WaitCheck(t, h) ==
  /\ pc[t] = "idle" /\ calls < MaxCalls
  /\ h \in held[Mine(t)]
  /\ calls' = calls + 1
  /\ \/ /\ SyncDone(h)
        /\ reported' = reported \cup {h}
        /\ UNCHANGED <<pc, hand>>
     \/ /\ ~SyncDone(h)
        /\ hand' = [hand EXCEPT ![t] = h]
        /\ Goto(t, "wait")
        /\ UNCHANGED reported
  /\ UNCHANGED <<stubVars, ring, proxyVars, held, promised>>

WaitSend(t, mode) ==
  /\ pc[t] = "wait"
  /\ Send(t, "wait", hand[t], mode, {})
  /\ promised' = IF mode = "defer"
                 THEN [promised EXCEPT ![Mine(t)] = @ \cup {hand[t]}]
                 ELSE promised
  /\ Goto(t, IF mode = "block" THEN "blocked" ELSE "idle")
  /\ UNCHANGED <<stubVars, hand, proxyVars, held, reported, calls>>

(* glDeleteSync(): the command first, then the id.  The application does   *)
(* not delete a fence another thread is just asking about.                 *)
DeleteSend(t, h) ==
  /\ pc[t] = "idle"
  /\ h \in held[Mine(t)]
  /\ \A u \in Threads : ~(pc[u] = "wait" /\ hand[u] = h)
  /\ Send(t, "delete", h, "none", {})
  /\ held' = [held EXCEPT ![Mine(t)] = @ \ {h}]
  /\ hand' = [hand EXCEPT ![t] = h]
  /\ Goto(t, "free")
  /\ UNCHANGED <<stubVars, proxyVars, promised, reported, calls>>

DeleteFree(t) ==
  /\ pc[t] = "free"
  /\ SyncFree(hand[t])
  /\ Goto(t, "idle")
  /\ UNCHANGED <<g_sync_next, g_sync_gen, hand, ring, proxyVars, held,
                 promised, reported, calls>>

(* A call whose handler reads or writes memory the fences protect.         *)
TouchSend(t) ==
  /\ pc[t] = "idle" /\ calls < MaxCalls
  /\ calls' = calls + 1
  /\ Send(t, "touch", NoFence, "none", promised[Mine(t)])
  /\ UNCHANGED <<stubVars, pc, hand, proxyVars, held, promised, reported>>

-----------------------------------------------------------------------------
(* The GL driver, as the proxy uses it                                     *)

Signal(i) ==
  /\ ~objs[i].signaled
  /\ objs' = [objs EXCEPT ![i].signaled = TRUE]
  /\ UNCHANGED <<stubVars, pc, hand, ring, sync_done_gen, syncs, g_def,
                 resolved, refused, held, promised, reported, calls>>

(* A sync object is known only to the contexts that share it.              *)
Usable(i, g)      == objs[i].live /\ objs[i].grp = g
GLDelete(o, i, g) == IF o[i].grp = g THEN [o EXCEPT ![i].live = FALSE] ELSE o

-----------------------------------------------------------------------------
(* The proxy                                                               *)

Cmd     == ring[1]
Running == IF ring = <<>> THEN "none" ELSE Cmd.op
CmdGrp  == Mine(Cmd.by)
Pop     == ring' = Tail(ring)

Found(h)   == syncs[h.id].real # NULL /\ syncs[h.id].gen = h.gen
Waiting(i) == \E d \in DOMAIN g_def : g_def[d].s = i
MarkDone(h) == sync_done_gen' = [sync_done_gen EXCEPT ![h.id] = h.gen]

(* defer_adopt_delete(), otherwise glDeleteSync()                          *)
Adopt(i) ==
  g_def' = [d \in DOMAIN g_def |->
              IF g_def[d].s = i THEN [g_def[d] EXCEPT !.owned = TRUE]
                                ELSE g_def[d]]
(* MUTANT: deletes although a deferred wait is pending *)
DroppedAtOnce(i) == GLDelete(objs, i, CmdGrp)

Dropped(i) == IF Waiting(i) THEN objs ELSE GLDelete(objs, i, CmdGrp)

(* h_glFenceSync()                                                         *)
RunFence ==
  /\ Running = "fence"
  /\ LET old == syncs[Cmd.h.id].real
         fresh == [h |-> Cmd.h, grp |-> CmdGrp, signaled |-> FALSE,
                   live |-> TRUE]
     IN /\ objs' = Append(IF old = NULL THEN objs ELSE Dropped(old), fresh)
        /\ Adopt(old)
        /\ syncs' = [syncs EXCEPT ![Cmd.h.id] =
                       [real |-> Len(objs) + 1, gen |-> Cmd.h.gen]]
  /\ Pop
  /\ UNCHANGED <<stubVars, pc, hand, sync_done_gen, resolved, refused, held,
                 promised, reported, calls>>

(* ... when the driver's glFenceSync() fails                               *)
RunFenceRefused ==
  /\ Running = "fence"
  /\ refused' = refused \cup {Cmd.h}
  /\ Pop
  /\ UNCHANGED <<stubVars, pc, hand, sync_done_gen, syncs, g_def, resolved,
                 objs, held, promised, reported, calls>>

(* proxy_resolve_deferred_waits(), called before memory is touched and by  *)
(* defer_push() on a full list: the list is worked off entry by entry.     *)
Defers == Running = "wait" /\ Cmd.mode = "defer" /\ Found(Cmd.h)
(* MUTANT: a full list is not worked off *)
MustResolveBeforeTouch == g_def # <<>> /\ Running = "touch"

(* MUTANT: only a full list is worked off *)
MustResolveWhenFull ==
  /\ Defers /\ ~Waiting(syncs[Cmd.h.id].real)
  /\ Len(g_def) = MaxDeferred

MustResolve ==
  /\ g_def # <<>>
  /\ \/ Running = "touch"
     \/ /\ Defers /\ ~Waiting(syncs[Cmd.h.id].real)
        /\ Len(g_def) = MaxDeferred

(* One round: wait, delete an adopted fence, mark it done.  A wait that    *)
(* fails is logged and counts like one that succeeded.                     *)
ResolveOne ==
  /\ MustResolve
  /\ LET d == g_def[resolved + 1] IN
       /\ Usable(d.s, CmdGrp) => objs[d.s].signaled
       /\ objs' = IF d.owned THEN GLDelete(objs, d.s, CmdGrp) ELSE objs
       /\ MarkDone(d.handle)
  /\ IF resolved + 1 = Len(g_def)
     THEN g_def' = <<>> /\ resolved' = 0
     ELSE UNCHANGED g_def /\ resolved' = resolved + 1
  /\ UNCHANGED <<stubVars, pc, hand, ring, syncs, refused, held, promised,
                 reported, calls>>

(* h_glClientWaitSync(), mode 2                                            *)
RunDefer ==
  /\ Defers /\ ~MustResolve
  /\ LET s == syncs[Cmd.h.id].real IN
       g_def' = IF Waiting(s) THEN g_def
                ELSE Append(g_def, [s |-> s, handle |-> Cmd.h,
                                    owned |-> FALSE])
  /\ Pop
  /\ UNCHANGED <<stubVars, pc, hand, sync_done_gen, syncs, resolved, objs,
                 refused, held, promised, reported, calls>>

(* The proxy answers a blocked thread; nobody waits for a poll or a        *)
(* deferred wait.                                                          *)
Answer == pc' = IF Cmd.mode = "block" THEN [pc EXCEPT ![Cmd.by] = "idle"]
                                         ELSE pc

(* h_glClientWaitSync(), modes 0 and 1, on a signaled fence                *)
RunWaitSignaled ==
  /\ Running = "wait" /\ Cmd.mode # "defer" /\ Found(Cmd.h)
  /\ LET s == syncs[Cmd.h.id].real IN
       Usable(s, CmdGrp) /\ objs[s].signaled
  /\ MarkDone(Cmd.h)
  /\ reported' = IF Cmd.mode = "block" THEN reported \cup {Cmd.h}
                                          ELSE reported
  /\ Answer /\ Pop
  /\ UNCHANGED <<stubVars, hand, syncs, g_def, resolved, objs, refused, held,
                 promised, calls>>

(* ... GL_TIMEOUT_EXPIRED.  The driver may cap any timeout.                *)
RunWaitExpired ==
  /\ Running = "wait" /\ Cmd.mode # "defer" /\ Found(Cmd.h)
  /\ LET s == syncs[Cmd.h.id].real IN
       Usable(s, CmdGrp) /\ ~objs[s].signaled
  /\ Answer /\ Pop
  /\ UNCHANGED <<stubVars, hand, proxyVars, held, promised, reported, calls>>

(* MUTANT: an unknown handle is dropped without an answer *)
RunWaitIgnored ==
  /\ Running = "wait" /\ ~Found(Cmd.h)
  /\ Pop
  /\ UNCHANGED <<stubVars, pc, hand, proxyVars, held, promised, reported,
                 calls>>

(* ... GL_WAIT_FAILED: no such fence                                       *)
RunWaitFailed ==
  /\ Running = "wait"
  /\ \/ ~Found(Cmd.h)
     \/ /\ Cmd.mode # "defer" /\ Found(Cmd.h)
        /\ ~Usable(syncs[Cmd.h.id].real, CmdGrp)
  /\ Answer /\ Pop
  /\ UNCHANGED <<stubVars, hand, proxyVars, held, promised, reported, calls>>

(* h_glDeleteSync()                                                        *)
RunDelete ==
  /\ Running = "delete"
  /\ IF Found(Cmd.h)
     THEN LET s == syncs[Cmd.h.id].real IN
            /\ objs' = Dropped(s)
            /\ Adopt(s)
            /\ syncs' = [syncs EXCEPT ![Cmd.h.id] =
                           [real |-> NULL, gen |-> 0]]
     ELSE UNCHANGED <<objs, g_def, syncs>>
  /\ Pop
  /\ UNCHANGED <<stubVars, pc, hand, sync_done_gen, resolved, refused, held,
                 promised, reported, calls>>

RunTouch ==
  /\ Running = "touch" /\ ~MustResolve
  /\ Pop
  /\ UNCHANGED <<stubVars, pc, hand, proxyVars, held, promised, reported,
                 calls>>

Proxy ==
  \/ RunFence \/ RunFenceRefused \/ RunDefer \/ RunWaitSignaled
  \/ RunWaitExpired \/ RunWaitFailed \/ RunDelete \/ RunTouch \/ ResolveOne

Thread(t) ==
  \/ FenceAlloc(t) \/ FenceSend(t) \/ TouchSend(t) \/ DeleteFree(t)
  \/ \E mode \in Modes : WaitSend(t, mode)
  \/ \E h \in held[Mine(t)] : WaitCheck(t, h) \/ DeleteSend(t, h)

Next ==
  \/ Proxy
  \/ \E t \in Threads : Thread(t)
  \/ \E i \in DOMAIN objs : Signal(i)

Spec == Init /\ [][Next]_vars

(* The proxy serves the ring, the GPU reaches every fence, and a thread    *)
(* finishes the call it is in.  Senders compete for room in the ring.      *)
Fairness ==
  /\ WF_vars(Proxy)
  /\ \A i \in 1 .. MaxFences : WF_vars(i \in DOMAIN objs /\ Signal(i))
  /\ \A t \in Threads :
       /\ SF_vars(FenceSend(t)) /\ WF_vars(DeleteFree(t))
       /\ SF_vars(\E mode \in Modes : WaitSend(t, mode))

FairSpec == Spec /\ Fairness

-----------------------------------------------------------------------------
TypeOK ==
  /\ g_sync_used \subseteq Ids
  /\ g_sync_next \in 1 .. NumIds + 1 /\ g_sync_gen \in Gens
  /\ pc \in [Threads -> {"idle", "fence", "wait", "blocked", "free"}]
  /\ hand \in [Threads -> Handle \cup {NoFence}]
  /\ \A t \in Threads :
       pc[t] \in {"fence", "wait", "free"} => hand[t] \in Handle
  /\ ring \in Seq(Command)
  /\ sync_done_gen \in [Ids -> Gens]
  /\ syncs \in [Ids -> [real : Nat, gen : Gens]]
  /\ g_def \in Seq(Deferred) /\ Len(g_def) <= MaxDeferred
  /\ resolved \in Nat /\ (resolved = 0 \/ resolved < Len(g_def))
  /\ \A id \in Ids : syncs[id].real <= Len(objs)
  /\ \A d \in DOMAIN g_def : g_def[d].s <= Len(objs)
  /\ objs \in Seq(SyncObj)
  /\ held \in [Groups -> SUBSET Handle]
  /\ promised \in [Groups -> SUBSET Handle]
  /\ reported \subseteq Handle /\ refused \subseteq Handle
  /\ calls \in Nat

(* The GPU has reached every fence that was made under a handle.           *)
ObjsOf(h)   == {i \in DOMAIN objs : objs[i].h = h}
Signaled(h) == ObjsOf(h) # {} /\ \A i \in ObjsOf(h) : objs[i].signaled

(* An answer that a fence is signaled is true: neither a completion of an  *)
(* earlier fence with the same id nor one the proxy forgot to wait for is  *)
(* taken for it.  Leaves out the answers of fast_client_wait.              *)
ReportsAreTrue == \A h \in reported : Signaled(h)

(* A fence the application may use is the one the proxy finds under its    *)
(* handle, as soon as the command that makes it has run.                   *)
HeldFenceIsFound ==
  \A g \in Groups : \A h \in held[g] :
    \/ h \in refused
    \/ \E k \in DOMAIN ring : ring[k].op = "fence" /\ ring[k].h = h
    \/ Found(h) /\ objs[syncs[h.id].real].h = h

(* Each sync object of the driver has exactly one owner that will delete   *)
(* it, the table or the list of deferred waits; a deleted one has none and *)
(* is not waited for.                                                      *)
InTable(i) == syncs[objs[i].h.id].real = i
InList(i)  == \E d \in resolved + 1 .. Len(g_def) :
                g_def[d].s = i /\ g_def[d].owned
OneOwner ==
  /\ \A i \in DOMAIN objs : /\ objs[i].live <=> InTable(i) \/ InList(i)
                            /\ ~(InTable(i) /\ InList(i))
  /\ \A d \in resolved + 1 .. Len(g_def) : objs[g_def[d].s].live

(* "The proxy waits on the fence just before it next writes into a real    *)
(* mapping" (bridge_config.c): when memory is touched, every fence whose   *)
(* wait was answered early before the call is signaled.                    *)
TouchAfterFences ==
  [][(Running = "touch" /\ ring' = Tail(ring)) =>
        \A h \in Cmd.after : h \in refused \/ Signaled(h)]_vars

(* Every call comes back: a thread inside glFenceSync(), glClientWaitSync()*)
(* or glDeleteSync() leaves it, whatever the proxy has to wait for.        *)
CallsReturn == \A t \in Threads : pc[t] # "idle" ~> pc[t] = "idle"
=============================================================================
