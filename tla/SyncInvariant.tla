--------------------------- MODULE SyncInvariant ----------------------------
(***************************************************************************)
(* The inductive invariant behind the safety properties of SyncPool, for   *)
(* contexts that all share their objects.                                  *)
(***************************************************************************)
EXTENDS SyncPool

OneShareGroup == \A f, g \in Groups : f = g

Issued(h) == h \in Handle /\ h.gen \in 1 .. g_sync_gen
FenceCmds == {k \in DOMAIN ring : ring[k].op = "fence"}

(* A handle is given out once: until the generations wrap, no two fences   *)
(* anywhere between glFenceSync() and the driver bear the same one.        *)
HandInv ==
  \A t \in Threads : pc[t] = "fence" =>
    /\ Issued(hand[t]) /\ ObjsOf(hand[t]) = {}
    /\ \A k \in FenceCmds : ring[k].h # hand[t]
    /\ \A u \in Threads : pc[u] = "fence" /\ hand[u] = hand[t] => u = t
CmdInv ==
  \A k \in FenceCmds :
    /\ Issued(ring[k].h) /\ ObjsOf(ring[k].h) = {}
    /\ \A l \in FenceCmds : ring[l].h = ring[k].h => l = k
MadeInv ==
  /\ \A i \in DOMAIN objs : /\ Issued(objs[i].h)
                            /\ \A j \in DOMAIN objs :
                                 objs[j].h = objs[i].h => j = i
  /\ \A g \in Groups : \A h \in held[g] : Issued(h)
HandleInv == HandInv /\ CmdInv /\ MadeInv

(* The table and the list of deferred waits name the objects made for      *)
(* their handles, each once, and the list is worked off without a command  *)
(* in between.                                                             *)
TableInv ==
  \A id \in Ids : syncs[id].real # NULL =>
    /\ syncs[id].real \in DOMAIN objs
    /\ objs[syncs[id].real].h = [id |-> id, gen |-> syncs[id].gen]
ListInv ==
  /\ \A d \in DOMAIN g_def : /\ g_def[d].s \in DOMAIN objs
                             /\ objs[g_def[d].s].h = g_def[d].handle
                             /\ \A e \in DOMAIN g_def :
                                  g_def[e].s = g_def[d].s => e = d
  /\ resolved # 0 => MustResolve
OwnerInv == TableInv /\ ListInv /\ OneOwner

(* What sync_done_gen says is true of the fence with that generation.      *)
DoneInv ==
  \A id \in Ids : sync_done_gen[id] # 0 =>
    Signaled([id |-> id, gen |-> sync_done_gen[id]])

AnswerInv == HandleInv /\ OwnerInv /\ DoneInv /\ ReportsAreTrue

(* An id has one user at a time, from bridge_sync_alloc() until            *)
(* bridge_sync_free(): a thread inside glFenceSync(), the application that *)
(* holds the fence, or a thread inside glDeleteSync().                     *)
Uses(t) == pc[t] \in {"fence", "free"}
UserInv ==
  /\ \A t \in Threads : Uses(t) => hand[t].id \in g_sync_used
  /\ \A t, u \in Threads :
       Uses(t) /\ Uses(u) /\ hand[t].id = hand[u].id => t = u
  /\ \A g \in Groups : \A h \in held[g] :
       /\ h.id \in g_sync_used
       /\ \A t \in Threads : Uses(t) => hand[t].id # h.id
       /\ \A f \in Groups : \A i \in held[f] :
            i.id = h.id => i = h /\ f = g
  /\ \A t \in Threads : pc[t] = "wait" => hand[t] \in held[Mine(t)]

(* A command at place n of the ring finds the fence of h in the table, for *)
(* no command before it will have taken the place of the fence.            *)
IdCmds == {k \in DOMAIN ring : ring[k].op \in {"fence", "delete"}}
Undisturbed(h, m, n) == \A l \in IdCmds : m < l /\ l < n => ring[l].h.id # h.id
Finds(h, n) ==
  \/ h \in refused
  \/ \E k \in FenceCmds : k < n /\ ring[k].h = h /\ Undisturbed(h, k, n)
  \/ Found(h) /\ Undisturbed(h, 0, n)
Deferring(k) == ring[k].op = "wait" /\ ring[k].mode = "defer"
FoundInv ==
  /\ \A g \in Groups : \A h \in held[g] : Finds(h, Len(ring) + 1)
  /\ \A k \in DOMAIN ring : Deferring(k) => Finds(ring[k].h, k)
OrderInv == UserInv /\ FoundInv

(* Before the command at place n runs, the proxy will have waited for h.   *)
WaitsFor(h, n) ==
  \/ h \in refused \/ Signaled(h)
  \/ \E d \in DOMAIN g_def : g_def[d].handle = h
  \/ \E k \in DOMAIN ring : k < n /\ Deferring(k) /\ ring[k].h = h
PromiseInv ==
  /\ \A d \in 1 .. resolved : Signaled(g_def[d].handle)
  /\ \A g \in Groups : \A h \in promised[g] : WaitsFor(h, Len(ring) + 1)
  /\ \A k \in DOMAIN ring : \A h \in ring[k].after : WaitsFor(h, k)

SyncInv == AnswerInv /\ OrderInv /\ PromiseInv
=============================================================================
