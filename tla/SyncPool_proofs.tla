-------------------------- MODULE SyncPool_proofs ---------------------------
(***************************************************************************)
(* Theorems about SyncPool, for every number of threads, ids, generations  *)
(* and deferred waits, every length of the ring and every bound: types,    *)
(* handles, the owner of every sync object, and the answers about it.      *)
(* Those about sync objects assume contexts that share their objects.      *)
(***************************************************************************)
EXTENDS SyncInvariant, TLAPS

-----------------------------------------------------------------------------
(* Sequences *)

(* Rewriting the entries of a list in place keeps it a list.               *)
LEMMA SeqInPlace ==
  ASSUME NEW S, NEW n \in Nat, NEW f \in [1 .. n -> S]
  PROVE  f \in Seq(S) /\ Len(f) = n
  OBVIOUS

LEMMA SeqUpdate ==
  ASSUME NEW S, NEW s \in Seq(S), NEW i \in DOMAIN s, NEW e \in S
  PROVE  /\ [s EXCEPT ![i] = e] \in Seq(S)
         /\ Len([s EXCEPT ![i] = e]) = Len(s)
  OBVIOUS

(* The rest of the ring after its first command has run.                   *)
LEMMA TailFacts ==
  ASSUME NEW S, NEW s \in Seq(S), s # <<>>
  PROVE  /\ s[1] \in S /\ Tail(s) \in Seq(S)
         /\ DOMAIN Tail(s) = 1 .. Len(s) - 1
         /\ \A k \in DOMAIN Tail(s) : Tail(s)[k] = s[k + 1]
  OBVIOUS

(* The ring after a send.                                                  *)
LEMMA AppendFacts ==
  ASSUME NEW S, NEW s \in Seq(S), NEW e \in S
  PROVE  /\ Append(s, e) \in Seq(S)
         /\ DOMAIN Append(s, e) = 1 .. Len(s) + 1
         /\ Len(Append(s, e)) = Len(s) + 1
         /\ Append(s, e)[Len(s) + 1] = e
         /\ \A k \in 1 .. Len(s) : Append(s, e)[k] = s[k]
  OBVIOUS

-----------------------------------------------------------------------------
(* Type correctness *)

(* bridge_sync_alloc() counts up: the bound keeps it below the wrap.       *)
LEMMA NextGenFact ==
  ASSUME TypeOK, g_sync_gen < MaxFences
  PROVE  NextGen = g_sync_gen + 1 /\ NextGen \in Gens /\ NextGen # 0
  <1>1. g_sync_gen \in Nat /\ g_sync_gen + 1 \in 0 .. GenSpan - 1
    BY SyncAssumption DEF TypeOK, Gens
  <1>2. (g_sync_gen + 1) % GenSpan = g_sync_gen + 1
    BY <1>1, SyncAssumption
  <1> QED
    BY <1>1, <1>2, SyncAssumption DEF NextGen, Gens

LEMMA SendType ==
  ASSUME TypeOK, NEW t \in Threads, NEW op, NEW h, NEW mode, NEW after,
         Send(t, op, h, mode, after),
         \/ /\ op \in {"fence", "wait", "delete"} /\ h \in Handle
            /\ mode \in Modes \cup {"none"} /\ after = {}
         \/ /\ op = "touch" /\ h = NoFence /\ mode = "none"
            /\ after \in SUBSET Handle
  PROVE  ring' \in Seq(Command)
  <1>1. [op |-> op, h |-> h, mode |-> mode, by |-> t, after |-> after]
          \in Command
    BY DEF Command
  <1> QED
    BY <1>1, AppendFacts DEF Send, TypeOK

(* The stub's actions keep the types.                                      *)
LEMMA StubType ==
  ASSUME TypeOK, NEW t \in Threads, Thread(t)
  PROVE  TypeOK'
  <1>0. Mine(t) \in Groups
    BY SyncAssumption DEF Mine
  <1>1. CASE FenceAlloc(t)
    <2>1. PICK id \in Ids :
            /\ g_sync_used' = g_sync_used \cup {id}
            /\ g_sync_next' = id + 1
            /\ hand' = [hand EXCEPT ![t] = [id |-> id, gen |-> NextGen]]
      BY <1>1 DEF FenceAlloc
    <2>2. [id |-> id, gen |-> NextGen] \in Handle
      BY <1>1, NextGenFact DEF FenceAlloc, Handle
    <2>3. g_sync_gen' \in Gens
      BY <1>1, NextGenFact DEF FenceAlloc
    <2>4. g_sync_next' \in 1 .. NumIds + 1
      BY <2>1, SyncAssumption DEF Ids
    <2>5. /\ hand' \in [Threads -> Handle \cup {NoFence}]
          /\ pc' = [pc EXCEPT ![t] = "fence"]
          /\ UNCHANGED <<ring, proxyVars, held, promised, reported, calls>>
      BY <1>1, <2>1, <2>2 DEF FenceAlloc, TypeOK, Goto
    <2> QED
      BY <2>1, <2>2, <2>3, <2>4, <2>5 DEF TypeOK, proxyVars
  <1>2. CASE FenceSend(t)
    <2>1. hand[t] \in Handle
      BY <1>2 DEF FenceSend, TypeOK
    <2>2. ring' \in Seq(Command)
      BY <1>2, <2>1, SendType DEF FenceSend
    <2> QED
      BY <1>0, <1>2, <2>1, <2>2 DEF FenceSend, TypeOK, Goto, stubVars,
         proxyVars
  <1>3. CASE TouchSend(t)
    <2>1. ring' \in Seq(Command)
      <3>1. promised[Mine(t)] \in SUBSET Handle
        BY <1>0 DEF TypeOK
      <3> QED
        BY <1>3, <3>1, SendType DEF TouchSend
    <2> QED
      BY <1>3, <2>1 DEF TouchSend, TypeOK, stubVars, proxyVars
  <1>4. CASE DeleteFree(t)
    BY <1>4 DEF DeleteFree, SyncFree, TypeOK, Goto, proxyVars
  <1>5. ASSUME NEW mode \in Modes, WaitSend(t, mode) PROVE TypeOK'
    <2>1. hand[t] \in Handle
      BY <1>5 DEF WaitSend, TypeOK
    <2>2. ring' \in Seq(Command)
      BY <1>5, <2>1, SendType DEF WaitSend
    <2>3. promised' \in [Groups -> SUBSET Handle]
      BY <1>0, <1>5, <2>1 DEF WaitSend, TypeOK
    <2> QED
      BY <1>5, <2>1, <2>2, <2>3 DEF WaitSend, TypeOK, Goto, stubVars,
         proxyVars
  <1>6. ASSUME NEW h \in held[Mine(t)], WaitCheck(t, h) PROVE TypeOK'
    <2>1. h \in Handle
      BY <1>0 DEF TypeOK
    <2>2. /\ UNCHANGED <<stubVars, ring, proxyVars, held, promised>>
          /\ calls' = calls + 1
      BY <1>6 DEF WaitCheck
    <2>3. CASE reported' = reported \cup {h} /\ UNCHANGED <<pc, hand>>
      BY <2>1, <2>2, <2>3 DEF TypeOK, stubVars, proxyVars
    <2>4. CASE /\ hand' = [hand EXCEPT ![t] = h] /\ Goto(t, "wait")
               /\ UNCHANGED reported
      BY <2>1, <2>2, <2>4 DEF TypeOK, Goto, stubVars, proxyVars
    <2> QED
      BY <1>6, <2>3, <2>4 DEF WaitCheck
  <1>7. ASSUME NEW h \in held[Mine(t)], DeleteSend(t, h) PROVE TypeOK'
    <2>1. h \in Handle
      BY <1>0 DEF TypeOK
    <2>2. ring' \in Seq(Command)
      BY <1>7, <2>1, SendType DEF DeleteSend
    <2> QED
      BY <1>0, <1>7, <2>1, <2>2 DEF DeleteSend, TypeOK, Goto, stubVars,
         proxyVars
  <1> QED
    BY <1>1, <1>2, <1>3, <1>4, <1>5, <1>6, <1>7 DEF Thread

(* Deleting a sync object and adopting a deferred wait change flags only.  *)
LEMMA DeleteType ==
  ASSUME TypeOK, NEW i \in DOMAIN objs, NEW g \in Groups
  PROVE  /\ GLDelete(objs, i, g) \in Seq(SyncObj)
         /\ Len(GLDelete(objs, i, g)) = Len(objs)
  <1>1. objs \in Seq(SyncObj)
    BY DEF TypeOK
  <1>2. objs[i] \in SyncObj
    BY <1>1
  <1>3. [objs[i] EXCEPT !.live = FALSE] \in SyncObj
    BY <1>2 DEF SyncObj
  <1>4. /\ [objs EXCEPT ![i].live = FALSE] \in Seq(SyncObj)
        /\ Len([objs EXCEPT ![i].live = FALSE]) = Len(objs)
    BY <1>1, <1>2, <1>3, SeqUpdate
  <1> QED
    BY <1>1, <1>4 DEF GLDelete

LEMMA AdoptType ==
  ASSUME TypeOK, NEW i, Adopt(i)
  PROVE  /\ g_def' \in Seq(Deferred) /\ Len(g_def') = Len(g_def)
         /\ DOMAIN g_def' = DOMAIN g_def
         /\ \A d \in DOMAIN g_def :
              /\ g_def'[d].s = g_def[d].s
              /\ g_def'[d].handle = g_def[d].handle
              /\ g_def'[d].owned = (g_def[d].owned \/ g_def[d].s = i)
  <1>1. g_def \in Seq(Deferred) /\ Len(g_def) \in Nat
        /\ DOMAIN g_def = 1 .. Len(g_def)
    BY DEF TypeOK
  <1>2. ASSUME NEW d \in 1 .. Len(g_def)
        PROVE  /\ g_def[d] \in Deferred
               /\ [g_def[d] EXCEPT !.owned = TRUE] \in Deferred
    <2>1. g_def[d] \in Deferred
      BY <1>1
    <2> QED
      BY <2>1 DEF Deferred
  <1>3. g_def' \in [1 .. Len(g_def) -> Deferred]
    BY <1>1, <1>2 DEF Adopt
  <1>4. g_def' \in Seq(Deferred) /\ Len(g_def') = Len(g_def)
    BY <1>1, <1>3, SeqInPlace
  <1>5. ASSUME NEW d \in DOMAIN g_def
        PROVE  /\ g_def'[d].s = g_def[d].s
               /\ g_def'[d].handle = g_def[d].handle
               /\ g_def'[d].owned = (g_def[d].owned \/ g_def[d].s = i)
    <2>1. g_def'[d] = IF g_def[d].s = i
                      THEN [g_def[d] EXCEPT !.owned = TRUE] ELSE g_def[d]
      BY DEF Adopt
    <2> QED
      BY <1>1, <1>2, <2>1 DEF Deferred
  <1> QED
    BY <1>1, <1>3, <1>4, <1>5

(* The command at hand.                                                    *)
LEMMA CmdFacts ==
  ASSUME TypeOK, Running # "none"
  PROVE  /\ ring # <<>> /\ Cmd \in Command /\ Running = Cmd.op
         /\ Cmd.by \in Threads /\ CmdGrp \in Groups
         /\ Pop => ring' \in Seq(Command)
         /\ Running # "touch" => Cmd.h \in Handle /\ Cmd.h.id \in Ids
                                /\ Cmd.h.gen \in Gens
  <1>1. ring # <<>> /\ ring \in Seq(Command) /\ Running = Cmd.op
    BY DEF Running, TypeOK
  <1>2. Cmd \in Command /\ (Pop => ring' \in Seq(Command))
    BY <1>1, TailFacts DEF Cmd, Pop
  <1>3. Cmd.by \in Threads
    BY <1>2 DEF Command
  <1>4. CmdGrp \in Groups
    BY <1>3, SyncAssumption DEF CmdGrp, Mine
  <1>5. Running # "touch" => Cmd.h \in Handle
    BY <1>1, <1>2 DEF Command
  <1> QED
    BY <1>1, <1>2, <1>3, <1>4, <1>5 DEF Handle

LEMMA FenceType ==
  ASSUME TypeOK, RunFence
  PROVE  TypeOK'
  <1>1. /\ Running # "none" /\ Running # "touch" /\ Pop
        /\ UNCHANGED <<stubVars, pc, hand, sync_done_gen, resolved, refused,
                       held, promised, reported, calls>>
    BY DEF RunFence
  <1>2. /\ ring' \in Seq(Command) /\ CmdGrp \in Groups
        /\ Cmd.h \in Handle /\ Cmd.h.id \in Ids /\ Cmd.h.gen \in Gens
    BY <1>1, CmdFacts
  <1> DEFINE old == syncs[Cmd.h.id].real
             fresh == [h |-> Cmd.h, grp |-> CmdGrp, signaled |-> FALSE,
                       live |-> TRUE]
             rest == IF old = NULL THEN objs ELSE Dropped(old)
  <1>3. fresh \in SyncObj
    BY <1>2 DEF SyncObj
  <1>4. rest \in Seq(SyncObj) /\ Len(rest) = Len(objs)
    <2>1. old \in Nat /\ old <= Len(objs) /\ objs \in Seq(SyncObj)
      BY <1>2 DEF TypeOK
    <2>2. old # NULL => old \in DOMAIN objs
      BY <2>1 DEF NULL
    <2> QED
      BY <1>2, <2>1, <2>2, DeleteType DEF Dropped
  <1>5. objs' = Append(rest, fresh) /\ Adopt(old)
        /\ syncs' = [syncs EXCEPT ![Cmd.h.id] =
                       [real |-> Len(objs) + 1, gen |-> Cmd.h.gen]]
    BY DEF RunFence
  <1> HIDE DEF rest, fresh
  <1>6. objs' \in Seq(SyncObj) /\ Len(objs') = Len(objs) + 1
    BY <1>3, <1>4, <1>5, AppendFacts
  <1>7. /\ g_def' \in Seq(Deferred) /\ Len(g_def') = Len(g_def)
        /\ \A d \in DOMAIN g_def' : g_def'[d].s <= Len(objs')
    <2>1. Len(objs) \in Nat
          /\ \A d \in DOMAIN g_def :
               g_def[d].s <= Len(objs) /\ g_def[d].s \in Nat
      <3>1. \A d \in DOMAIN g_def : g_def[d] \in Deferred
        BY DEF TypeOK
      <3> QED
        BY <3>1 DEF TypeOK, Deferred
    <2>2. /\ g_def' \in Seq(Deferred) /\ Len(g_def') = Len(g_def)
          /\ DOMAIN g_def' = DOMAIN g_def
          /\ \A d \in DOMAIN g_def : g_def'[d].s = g_def[d].s
      BY <1>5, AdoptType
    <2> QED
      BY <1>6, <2>1, <2>2
  <1>8. /\ syncs' \in [Ids -> [real : Nat, gen : Gens]]
        /\ \A id \in Ids : syncs'[id].real <= Len(objs')
    <2>1. Len(objs) \in Nat
      BY DEF TypeOK
    <2> QED
      BY <1>2, <1>5, <1>6, <2>1 DEF TypeOK
  <1> QED
    BY <1>1, <1>2, <1>6, <1>7, <1>8 DEF TypeOK, stubVars

LEMMA DeleteCmdType ==
  ASSUME TypeOK, RunDelete
  PROVE  TypeOK'
  <1>1. /\ Running # "none" /\ Running # "touch" /\ Pop
        /\ UNCHANGED <<stubVars, pc, hand, sync_done_gen, resolved, refused,
                       held, promised, reported, calls>>
    BY DEF RunDelete
  <1>2. /\ ring' \in Seq(Command) /\ CmdGrp \in Groups /\ Cmd.h.id \in Ids
    BY <1>1, CmdFacts
  <1>3. CASE ~Found(Cmd.h)
    BY <1>1, <1>2, <1>3 DEF RunDelete, TypeOK, stubVars
  <1>4. CASE Found(Cmd.h)
    <2> DEFINE s == syncs[Cmd.h.id].real
    <2>1. objs' = Dropped(s) /\ Adopt(s)
          /\ syncs' = [syncs EXCEPT ![Cmd.h.id] = [real |-> NULL, gen |-> 0]]
      BY <1>4 DEF RunDelete
    <2>2. s \in DOMAIN objs
      BY <1>2, <1>4 DEF TypeOK, Found, NULL
    <2>3. objs' \in Seq(SyncObj) /\ Len(objs') = Len(objs)
      BY <1>2, <2>1, <2>2, DeleteType DEF Dropped, TypeOK
    <2>4. /\ g_def' \in Seq(Deferred) /\ Len(g_def') = Len(g_def)
          /\ \A d \in DOMAIN g_def' : g_def'[d].s <= Len(objs')
      BY <2>1, <2>3, AdoptType DEF TypeOK
    <2>5. /\ syncs' \in [Ids -> [real : Nat, gen : Gens]]
          /\ \A id \in Ids : syncs'[id].real <= Len(objs')
      <3>1. 0 \in Gens /\ Len(objs) \in Nat
        BY SyncAssumption DEF Gens, TypeOK
      <3> QED
        BY <1>2, <2>1, <2>3, <3>1 DEF TypeOK, NULL
    <2> QED
      BY <1>1, <1>2, <2>3, <2>4, <2>5 DEF TypeOK, stubVars
  <1> QED
    BY <1>3, <1>4

(* One round of proxy_resolve_deferred_waits().                            *)
LEMMA ResolveFacts ==
  ASSUME TypeOK, ResolveOne
  PROVE  LET d == g_def[resolved + 1]
         IN  /\ resolved + 1 \in DOMAIN g_def /\ d \in Deferred
             /\ d.s \in DOMAIN objs /\ d.handle \in Handle
             /\ Running # "none" /\ CmdGrp \in Groups
  <1>1. g_def # <<>> /\ Running # "none"
    BY DEF ResolveOne, MustResolve, Defers
  <1>2. g_def \in Seq(Deferred) /\ Len(g_def) \in Nat /\ Len(g_def) # 0
    BY <1>1 DEF TypeOK
  <1>3. resolved + 1 \in DOMAIN g_def
    BY <1>2 DEF TypeOK
  <1>4. g_def[resolved + 1] \in Deferred
    BY <1>2, <1>3
  <1>5. g_def[resolved + 1].s \in DOMAIN objs
    BY <1>3, <1>4 DEF TypeOK, Deferred
  <1> QED
    BY <1>1, <1>3, <1>4, <1>5, CmdFacts DEF Deferred

LEMMA ResolveType ==
  ASSUME TypeOK, ResolveOne
  PROVE  TypeOK'
  <1> DEFINE d == g_def[resolved + 1]
  <1>1. /\ resolved + 1 \in DOMAIN g_def /\ d \in Deferred
        /\ d.s \in DOMAIN objs /\ d.handle \in Handle
        /\ CmdGrp \in Groups
    BY ResolveFacts
  <1>2. /\ objs' = IF d.owned THEN GLDelete(objs, d.s, CmdGrp) ELSE objs
        /\ MarkDone(d.handle)
        /\ UNCHANGED <<stubVars, pc, hand, ring, syncs, refused, held,
                       promised, reported, calls>>
    BY DEF ResolveOne
  <1>3. \/ g_def' = <<>> /\ resolved' = 0
        \/ /\ UNCHANGED g_def /\ resolved' = resolved + 1
           /\ resolved + 1 # Len(g_def)
    BY DEF ResolveOne
  <1>4. objs' \in Seq(SyncObj) /\ Len(objs') = Len(objs)
    BY <1>1, <1>2, DeleteType DEF TypeOK
  <1>5. sync_done_gen' \in [Ids -> Gens]
    BY <1>1, <1>2 DEF MarkDone, TypeOK, Handle
  <1>6. /\ g_def' \in Seq(Deferred) /\ Len(g_def') <= MaxDeferred
        /\ resolved' \in Nat /\ (resolved' = 0 \/ resolved' < Len(g_def'))
        /\ \A e \in DOMAIN g_def' : g_def'[e].s <= Len(objs')
    <2>1. CASE g_def' = <<>> /\ resolved' = 0
      BY <2>1, SyncAssumption
    <2>2. CASE /\ UNCHANGED g_def /\ resolved' = resolved + 1
               /\ resolved + 1 # Len(g_def)
      <3>1. resolved + 1 \in 1 .. Len(g_def)
        BY <1>1 DEF TypeOK
      <3> QED
        BY <1>4, <2>2, <3>1 DEF TypeOK
    <2> QED
      BY <1>3, <2>1, <2>2
  <1> HIDE DEF d
  <1> QED
    BY <1>2, <1>4, <1>5, <1>6 DEF TypeOK, stubVars

(* defer_push() on a list with room.                                       *)
LEMMA DeferFacts ==
  ASSUME TypeOK, RunDefer
  PROVE  LET s == syncs[Cmd.h.id].real
             e == [s |-> s, handle |-> Cmd.h, owned |-> FALSE]
         IN  /\ s \in DOMAIN objs /\ e \in Deferred
             /\ Found(Cmd.h) /\ Cmd.h \in Handle /\ ring' \in Seq(Command)
             /\ \/ Waiting(s) /\ g_def' = g_def
                \/ /\ ~Waiting(s) /\ g_def' = Append(g_def, e)
                   /\ Len(g_def) < MaxDeferred
  <1> DEFINE s == syncs[Cmd.h.id].real
             e == [s |-> s, handle |-> Cmd.h, owned |-> FALSE]
  <1>1. /\ Running = "wait" /\ Cmd.mode = "defer" /\ Found(Cmd.h) /\ Pop
        /\ ~MustResolve
        /\ g_def' = IF Waiting(s) THEN g_def ELSE Append(g_def, e)
    BY DEF RunDefer, Defers
  <1>2. Cmd.h \in Handle /\ Cmd.h.id \in Ids /\ ring' \in Seq(Command)
    BY <1>1, CmdFacts
  <1>3. s \in DOMAIN objs
    BY <1>1, <1>2 DEF TypeOK, Found, NULL
  <1>4. e \in Deferred
    BY <1>2, <1>3 DEF Deferred, TypeOK
  <1>5. ~Waiting(s) => Len(g_def) < MaxDeferred
    <2>1. Len(g_def) \in Nat /\ Len(g_def) <= MaxDeferred
          /\ (g_def = <<>> => Len(g_def) = 0)
      BY DEF TypeOK
    <2>2. ~Waiting(s) => g_def = <<>> \/ Len(g_def) # MaxDeferred
      BY <1>1 DEF MustResolve, Defers
    <2> QED
      BY <2>1, <2>2, SyncAssumption
  <1> QED
    BY <1>1, <1>2, <1>3, <1>4, <1>5

LEMMA DeferType ==
  ASSUME TypeOK, RunDefer
  PROVE  TypeOK'
  <1> DEFINE s == syncs[Cmd.h.id].real
             e == [s |-> s, handle |-> Cmd.h, owned |-> FALSE]
  <1>1. /\ s \in DOMAIN objs /\ e \in Deferred /\ ring' \in Seq(Command)
        /\ \/ g_def' = g_def
           \/ g_def' = Append(g_def, e) /\ Len(g_def) < MaxDeferred
    BY DeferFacts
  <1>2. UNCHANGED <<stubVars, pc, hand, sync_done_gen, syncs, resolved, objs,
                    refused, held, promised, reported, calls>>
    BY DEF RunDefer
  <1> HIDE DEF e
  <1>3. /\ g_def' \in Seq(Deferred) /\ Len(g_def') <= MaxDeferred
        /\ (resolved' = 0 \/ resolved' < Len(g_def'))
        /\ \A k \in DOMAIN g_def' : g_def'[k].s <= Len(objs')
    <2>1. CASE g_def' = g_def
      BY <1>2, <2>1 DEF TypeOK
    <2>2. CASE g_def' = Append(g_def, e) /\ Len(g_def) < MaxDeferred
      <3>1. g_def \in Seq(Deferred) /\ Len(g_def) \in Nat
            /\ DOMAIN g_def = 1 .. Len(g_def)
        BY DEF TypeOK
      <3>2. /\ g_def' \in Seq(Deferred)
            /\ DOMAIN g_def' = 1 .. Len(g_def) + 1
            /\ Len(g_def') = Len(g_def) + 1
            /\ g_def'[Len(g_def) + 1] = e
            /\ \A k \in 1 .. Len(g_def) : g_def'[k] = g_def[k]
        <4>1. e \in Deferred
          BY <1>1
        <4> QED
          BY <2>2, <3>1, <4>1, AppendFacts
      <3>3. e.s <= Len(objs)
        BY <1>1 DEF TypeOK, e
      <3>4. \A k \in DOMAIN g_def' : g_def'[k].s <= Len(objs')
        BY <1>2, <3>1, <3>2, <3>3 DEF TypeOK
      <3> QED
        BY <1>2, <2>2, <3>1, <3>2, <3>4, SyncAssumption DEF TypeOK
    <2> QED
      BY <1>1, <2>1, <2>2
  <1> QED
    BY <1>1, <1>2, <1>3 DEF TypeOK, stubVars

(* The proxy's other steps.                                                *)
LEMMA ProxyType ==
  ASSUME TypeOK, Proxy
  PROVE  TypeOK'
  <1>1. ASSUME Answer PROVE pc' \in [Threads -> {"idle", "fence", "wait",
                                                "blocked", "free"}]
                            /\ \A t \in Threads :
                                 pc'[t] = pc[t] \/ pc'[t] = "idle"
    BY <1>1 DEF Answer, TypeOK
  <1>2. CASE RunFenceRefused
    <2>1. Running = "fence" /\ Pop
      BY <1>2 DEF RunFenceRefused
    <2>2. Cmd.h \in Handle /\ ring' \in Seq(Command)
      BY <2>1, CmdFacts
    <2> QED
      BY <1>2, <2>2 DEF RunFenceRefused, TypeOK, stubVars
  <1>3. CASE RunWaitSignaled
    <2>1. Running = "wait" /\ Pop /\ Answer
      BY <1>3 DEF RunWaitSignaled
    <2>2. /\ Cmd.h \in Handle /\ Cmd.h.id \in Ids /\ Cmd.h.gen \in Gens
          /\ ring' \in Seq(Command)
      BY <2>1, CmdFacts
    <2>3. sync_done_gen' \in [Ids -> Gens] /\ reported' \subseteq Handle
      BY <1>3, <2>2 DEF RunWaitSignaled, MarkDone, TypeOK
    <2> QED
      BY <1>1, <1>3, <2>1, <2>2, <2>3 DEF RunWaitSignaled, TypeOK, stubVars
  <1>4. CASE RunWaitExpired \/ RunWaitFailed
    <2>1. Running = "wait" /\ Pop /\ Answer
          /\ UNCHANGED <<stubVars, hand, proxyVars, held, promised, reported,
                         calls>>
      BY <1>4 DEF RunWaitExpired, RunWaitFailed
    <2>2. ring' \in Seq(Command)
      BY <2>1, CmdFacts
    <2> QED
      BY <1>1, <2>1, <2>2 DEF TypeOK, stubVars, proxyVars
  <1>5. CASE RunTouch
    <2>1. Running = "touch" /\ Pop
      BY <1>5 DEF RunTouch
    <2>2. ring' \in Seq(Command)
      BY <2>1, CmdFacts
    <2> QED
      BY <1>5, <2>2 DEF RunTouch, TypeOK, stubVars, proxyVars
  <1> QED
    BY <1>2, <1>3, <1>4, <1>5, FenceType, DeleteCmdType, ResolveType,
       DeferType DEF Proxy

LEMMA SignalFacts ==
  ASSUME TypeOK, NEW i \in DOMAIN objs, Signal(i)
  PROVE  /\ objs' \in Seq(SyncObj) /\ Len(objs') = Len(objs)
         /\ DOMAIN objs' = DOMAIN objs
         /\ \A j \in DOMAIN objs :
              /\ objs'[j].h = objs[j].h /\ objs'[j].grp = objs[j].grp
              /\ objs'[j].live = objs[j].live
              /\ objs[j].signaled => objs'[j].signaled
  <1>1. objs \in Seq(SyncObj) /\ objs[i] \in SyncObj
    BY DEF TypeOK
  <1>2. [objs[i] EXCEPT !.signaled = TRUE] \in SyncObj
    BY <1>1 DEF SyncObj
  <1>3. objs' = [objs EXCEPT ![i].signaled = TRUE]
    BY DEF Signal
  <1>4. objs' \in Seq(SyncObj) /\ Len(objs') = Len(objs)
    BY <1>1, <1>2, <1>3, SeqUpdate
  <1>5. ASSUME NEW j \in DOMAIN objs
        PROVE  /\ objs'[j].h = objs[j].h /\ objs'[j].grp = objs[j].grp
               /\ objs'[j].live = objs[j].live
               /\ objs[j].signaled => objs'[j].signaled
    <2>1. objs[j] \in SyncObj
      BY <1>1
    <2> QED
      BY <1>1, <1>3, <2>1 DEF SyncObj
  <1> QED
    BY <1>1, <1>4, <1>5

LEMMA SignalType ==
  ASSUME TypeOK, NEW i \in DOMAIN objs, Signal(i)
  PROVE  TypeOK'
  BY SignalFacts DEF Signal, TypeOK, stubVars

(* Stub, ring, proxy and driver keep their types.                          *)
THEOREM SyncTypeCorrect == Spec => []TypeOK
  <1>1. Init => TypeOK
    BY SyncAssumption DEF Init, TypeOK, Ids, Gens, Handle, NoFence, NULL
  <1>2. TypeOK /\ [Next]_vars => TypeOK'
    <2> SUFFICES ASSUME TypeOK, [Next]_vars PROVE TypeOK'
      OBVIOUS
    <2>1. CASE Next
      BY <2>1, StubType, ProxyType, SignalType DEF Next
    <2>2. CASE UNCHANGED vars
      BY <2>2 DEF vars, stubVars, proxyVars, TypeOK
    <2> QED
      BY <2>1, <2>2
  <1> QED
    BY <1>1, <1>2, PTL DEF Spec

-----------------------------------------------------------------------------
(* What a step may do to the sync objects that exist                       *)

SameFences == /\ DOMAIN objs' = DOMAIN objs
              /\ \A i \in DOMAIN objs :
                   /\ objs'[i].h = objs[i].h
                   /\ objs[i].signaled => objs'[i].signaled

LEMMA SameFencesKeep ==
  ASSUME SameFences, NEW h
  PROVE  ObjsOf(h)' = ObjsOf(h) /\ (Signaled(h) => Signaled(h)')
  BY DEF SameFences, ObjsOf, Signaled

(* glDeleteSync() of the driver clears one flag.                           *)
LEMMA DeleteFacts ==
  ASSUME TypeOK, NEW i \in DOMAIN objs, NEW g \in Groups
  PROVE  /\ DOMAIN GLDelete(objs, i, g) = DOMAIN objs
         /\ \A j \in DOMAIN objs :
              LET o == GLDelete(objs, i, g)[j]
              IN  /\ o.h = objs[j].h /\ o.signaled = objs[j].signaled
                  /\ o.grp = objs[j].grp
                  /\ o.live = (objs[j].live /\ ~(j = i /\ objs[i].grp = g))
  <1>1. objs \in Seq(SyncObj)
    BY DEF TypeOK
  <1>2. \A j \in DOMAIN objs : objs[j] \in SyncObj
    BY <1>1
  <1> QED
    BY <1>1, <1>2 DEF GLDelete, SyncObj

(* The old entry of a table place, or the fence being deleted.             *)
LEMMA DroppedFacts ==
  ASSUME TypeOK, NEW i \in DOMAIN objs, CmdGrp \in Groups
  PROVE  /\ DOMAIN Dropped(i) = DOMAIN objs
         /\ \A j \in DOMAIN objs :
              /\ Dropped(i)[j].h = objs[j].h
              /\ Dropped(i)[j].grp = objs[j].grp
              /\ Dropped(i)[j].signaled = objs[j].signaled
              /\ Dropped(i)[j].live =
                   (objs[j].live /\ (Waiting(i) \/ j # i
                                       \/ objs[i].grp # CmdGrp))
  <1>1. \A j \in DOMAIN objs : objs[j] \in SyncObj
    BY DEF TypeOK
  <1> QED
    BY <1>1, DeleteFacts DEF Dropped, SyncObj

LEMMA ProxySame ==
  ASSUME TypeOK, Proxy
  PROVE  /\ UNCHANGED <<g_sync_gen, hand, held>>
         /\ \A t \in Threads : pc'[t] = "fence" => pc[t] = "fence"
         /\ RunFence \/ SameFences
         /\ \/ ring # <<>> /\ Pop
            \/ UNCHANGED ring
  <1>1. ASSUME Answer PROVE \A t \in Threads : pc'[t] = "fence" =>
                                               pc[t] = "fence"
    BY <1>1 DEF Answer, TypeOK
  <1>2. ASSUME UNCHANGED objs PROVE SameFences
    BY <1>2 DEF SameFences
  <1>3. CASE RunFence \/ RunFenceRefused \/ RunDefer \/ RunTouch
    BY <1>2, <1>3 DEF RunFence, RunFenceRefused, RunDefer, RunTouch, Defers,
       Running, stubVars, proxyVars
  <1>4. CASE RunWaitSignaled \/ RunWaitExpired \/ RunWaitFailed
    BY <1>1, <1>2, <1>4 DEF RunWaitSignaled, RunWaitExpired, RunWaitFailed,
       Running, stubVars, proxyVars
  <1>5. CASE RunDelete
    <2>1. Running # "none" /\ CmdGrp \in Groups /\ Cmd.h.id \in Ids
          /\ ring # <<>>
      BY <1>5, CmdFacts DEF RunDelete
    <2>2. Found(Cmd.h) => syncs[Cmd.h.id].real \in DOMAIN objs
      BY <2>1 DEF Found, TypeOK, NULL
    <2>3. SameFences
      <3>1. CASE Found(Cmd.h)
        BY <1>5, <2>1, <2>2, <3>1, DroppedFacts DEF RunDelete, SameFences
      <3>2. CASE ~Found(Cmd.h)
        BY <1>2, <1>5, <3>2 DEF RunDelete
      <3> QED
        BY <3>1, <3>2
    <2> QED
      BY <1>5, <2>1, <2>3 DEF RunDelete, stubVars
  <1>6. CASE ResolveOne
    <2>1. SameFences
      BY <1>2, <1>6, ResolveFacts, DeleteFacts DEF ResolveOne, SameFences
    <2> QED
      BY <1>6, <2>1 DEF ResolveOne, stubVars
  <1> QED
    BY <1>3, <1>4, <1>5, <1>6 DEF Proxy

(* h_glFenceSync() adds an object for its handle and keeps the others.     *)
LEMMA FenceFacts ==
  ASSUME TypeOK, RunFence
  PROVE  LET n == Len(objs) + 1
             old == syncs[Cmd.h.id].real
         IN  /\ Len(objs) \in Nat /\ DOMAIN objs = 1 .. Len(objs)
             /\ DOMAIN objs' = 1 .. n
             /\ objs'[n] = [h |-> Cmd.h, grp |-> CmdGrp, signaled |-> FALSE,
                            live |-> TRUE]
             /\ \A i \in DOMAIN objs :
                  /\ objs'[i].h = objs[i].h
                  /\ objs'[i].grp = objs[i].grp
                  /\ objs'[i].signaled = objs[i].signaled
                  /\ objs'[i].live =
                       (objs[i].live /\ (i # old \/ Waiting(old)
                                           \/ objs[i].grp # CmdGrp))
             /\ Cmd.h \in Handle /\ Cmd.h.id \in Ids /\ CmdGrp \in Groups
             /\ old \in 0 .. Len(objs) /\ 1 \in FenceCmds /\ Cmd = ring[1]
             /\ ring # <<>> /\ Pop
  <1> DEFINE n == Len(objs) + 1
             old == syncs[Cmd.h.id].real
             fresh == [h |-> Cmd.h, grp |-> CmdGrp, signaled |-> FALSE,
                       live |-> TRUE]
             rest == IF old = NULL THEN objs ELSE Dropped(old)
  <1>1. Running = "fence" /\ Pop
    BY DEF RunFence
  <1>2. /\ Cmd.h \in Handle /\ Cmd.h.id \in Ids /\ CmdGrp \in Groups
        /\ ring # <<>> /\ Cmd.op = "fence"
    BY <1>1, CmdFacts
  <1>3. Len(objs) \in Nat /\ DOMAIN objs = 1 .. Len(objs)
        /\ objs \in Seq(SyncObj)
        /\ \A i \in DOMAIN objs : objs[i] \in SyncObj
    BY DEF TypeOK
  <1>4. old \in 0 .. Len(objs)
    BY <1>2, <1>3 DEF TypeOK
  <1>5. /\ rest \in Seq(SyncObj) /\ Len(rest) = Len(objs)
        /\ \A i \in DOMAIN objs :
             /\ rest[i].h = objs[i].h /\ rest[i].grp = objs[i].grp
             /\ rest[i].signaled = objs[i].signaled
             /\ rest[i].live = (objs[i].live /\ (i # old \/ Waiting(old)
                                                   \/ objs[i].grp # CmdGrp))
    <2>1. CASE old = NULL
      BY <1>3, <2>1 DEF NULL, SyncObj
    <2>2. CASE old # NULL
      <3>1. old \in DOMAIN objs
        BY <1>3, <1>4, <2>2 DEF NULL
      <3>2. Dropped(old) \in Seq(SyncObj) /\ Len(Dropped(old)) = Len(objs)
        BY <1>2, <1>3, <3>1, DeleteType DEF Dropped
      <3>3. rest = Dropped(old)
        BY <2>2
      <3>4. /\ \A i \in DOMAIN objs :
                 /\ Dropped(old)[i].h = objs[i].h
                 /\ Dropped(old)[i].grp = objs[i].grp
                 /\ Dropped(old)[i].signaled = objs[i].signaled
                 /\ Dropped(old)[i].live =
                      (objs[i].live /\ (Waiting(old) \/ i # old
                                          \/ objs[old].grp # CmdGrp))
        BY <1>2, <3>1, DroppedFacts
      <3> HIDE DEF old, rest
      <3>5. \A i \in DOMAIN objs :
              rest[i].live = (objs[i].live /\ (i # old \/ Waiting(old)
                                                 \/ objs[i].grp # CmdGrp))
        BY <3>3, <3>4, Zenon
      <3> QED
        BY <3>2, <3>3, <3>4, <3>5
    <2> QED
      BY <2>1, <2>2
  <1>6. objs' = Append(rest, fresh)
    BY DEF RunFence
  <1>7. fresh \in SyncObj
    BY <1>2 DEF SyncObj
  <1> HIDE DEF rest
  <1>8. /\ DOMAIN objs' = 1 .. n /\ objs'[n] = fresh
        /\ \A i \in DOMAIN objs : objs'[i] = rest[i]
    BY <1>3, <1>5, <1>6, <1>7, AppendFacts
  <1>9. 1 \in FenceCmds /\ Cmd = ring[1]
    BY <1>2 DEF FenceCmds, Cmd, TypeOK
  <1> QED
    BY <1>1, <1>2, <1>3, <1>4, <1>5, <1>8, <1>9
-----------------------------------------------------------------------------
(* A handle is given out once *)

(* A step that neither gives out a handle nor makes a fence: commands keep *)
(* their place or move up by one (n).                                      *)
LEMMA HandleKeep ==
  ASSUME HandleInv, SameFences, g_sync_gen' = g_sync_gen, NEW n \in {0, 1},
         \A t \in Threads : pc'[t] = "fence" => /\ pc[t] = "fence"
                                               /\ hand'[t] = hand[t],
         \A k \in FenceCmds' : /\ k + n \in FenceCmds /\ k \in Nat
                               /\ ring'[k].h = ring[k + n].h,
         \A g \in Groups : held'[g] \subseteq held[g]
  PROVE  HandleInv'
  <1>2. HandInv'
    <2> SUFFICES ASSUME NEW t \in Threads, pc'[t] = "fence"
                 PROVE  /\ Issued(hand[t])' /\ ObjsOf(hand[t])' = {}
                        /\ \A k \in FenceCmds' : ring'[k].h # hand'[t]
                        /\ \A u \in Threads :
                             pc'[u] = "fence" /\ hand'[u] = hand'[t] => u = t
      BY DEF HandInv
    <2>1. /\ Issued(hand[t]) /\ ObjsOf(hand[t]) = {} /\ hand'[t] = hand[t]
          /\ \A k \in FenceCmds : ring[k].h # hand[t]
          /\ \A u \in Threads : pc[u] = "fence" /\ hand[u] = hand[t] => u = t
      BY DEF HandleInv, HandInv
    <2>2. ObjsOf(hand[t])' = {}
      BY <2>1 DEF ObjsOf, SameFences
    <2> QED
      BY <2>1, <2>2 DEF Issued
  <1>3. CmdInv'
    <2> SUFFICES ASSUME NEW k \in FenceCmds'
                 PROVE  /\ Issued(ring[k].h)' /\ ObjsOf(ring[k].h)' = {}
                        /\ \A l \in FenceCmds' :
                             ring'[l].h = ring'[k].h => l = k
      BY DEF CmdInv
    <2>1. /\ k + n \in FenceCmds /\ ring'[k].h = ring[k + n].h /\ k \in Nat
          /\ Issued(ring[k + n].h) /\ ObjsOf(ring[k + n].h) = {}
          /\ \A l \in FenceCmds : ring[l].h = ring[k + n].h => l = k + n
      BY DEF HandleInv, CmdInv
    <2>2. Issued(ring[k].h)'
      BY <2>1 DEF Issued
    <2>3. ObjsOf(ring[k].h)' = {}
      BY <2>1 DEF ObjsOf, SameFences
    <2>4. ASSUME NEW l \in FenceCmds', ring'[l].h = ring'[k].h
          PROVE  l = k
      <3>1. l + n = k + n /\ l \in Nat
        BY <2>1, <2>4
      <3> QED
        BY <2>1, <3>1
    <2> QED
      BY <2>2, <2>3, <2>4
  <1>4. MadeInv'
    BY DEF HandleInv, MadeInv, SameFences, Issued
  <1> QED
    BY <1>2, <1>3, <1>4 DEF HandleInv

(* The ring after a send.                                                  *)
LEMMA SendFacts ==
  ASSUME TypeOK, NEW t \in Threads, NEW op, NEW h, NEW mode, NEW after,
         Send(t, op, h, mode, after),
         \/ /\ op \in {"fence", "wait", "delete"} /\ h \in Handle
            /\ mode \in Modes \cup {"none"} /\ after = {}
         \/ /\ op = "touch" /\ h = NoFence /\ mode = "none"
            /\ after \in SUBSET Handle
  PROVE  /\ Len(ring) \in Nat /\ DOMAIN ring = 1 .. Len(ring)
         /\ DOMAIN ring' = 1 .. Len(ring) + 1
         /\ ring'[Len(ring) + 1].op = op /\ ring'[Len(ring) + 1].h = h
         /\ \A k \in DOMAIN ring : ring'[k] = ring[k]
  <1> DEFINE e == [op |-> op, h |-> h, mode |-> mode, by |-> t,
                   after |-> after]
  <1>1. e \in Command
    BY DEF Command
  <1>2. ring \in Seq(Command) /\ ring' = Append(ring, e)
    BY DEF Send, TypeOK
  <1>3. e.op = op /\ e.h = h
    OBVIOUS
  <1> HIDE DEF e
  <1> QED
    BY <1>1, <1>2, <1>3, AppendFacts

(* glFenceSync() takes a generation no handle has had.                     *)
LEMMA AllocHandles ==
  ASSUME TypeOK, HandleInv, NEW t \in Threads, FenceAlloc(t)
  PROVE  HandleInv'
  <1>1. /\ NextGen = g_sync_gen + 1 /\ NextGen \in Gens
        /\ g_sync_gen \in Nat
    BY NextGenFact DEF FenceAlloc, TypeOK, Gens
  <1>2. PICK new \in Handle : /\ new.gen = g_sync_gen + 1
                             /\ hand' = [hand EXCEPT ![t] = new]
    <2>1. PICK id \in Ids :
            hand' = [hand EXCEPT ![t] = [id |-> id, gen |-> NextGen]]
      BY DEF FenceAlloc
    <2>2. [id |-> id, gen |-> NextGen] \in Handle
      BY <1>1 DEF Handle
    <2> QED
      BY <1>1, <2>1, <2>2
  <1>3. /\ UNCHANGED <<ring, objs, held>> /\ g_sync_gen' = g_sync_gen + 1
        /\ pc' = [pc EXCEPT ![t] = "fence"] /\ pc[t] # "fence"
    BY <1>1 DEF FenceAlloc, Goto, proxyVars
  <1>4. Issued(new)'
    BY <1>1, <1>2, <1>3 DEF Issued
  <1>5. \A h : Issued(h) => h # new
    BY <1>1, <1>2 DEF Issued
  <1>6. /\ hand'[t] = new
        /\ \A u \in Threads : u # t => hand'[u] = hand[u] /\ pc'[u] = pc[u]
    BY <1>2, <1>3 DEF TypeOK
  <1>7. ObjsOf(new) = {} /\ \A k \in FenceCmds : ring[k].h # new
    BY <1>5 DEF HandleInv, MadeInv, CmdInv, ObjsOf
  <1>8. FenceCmds' = FenceCmds
    BY <1>3 DEF FenceCmds
  <1>9. \A k \in FenceCmds : Issued(ring[k].h)' /\ ObjsOf(ring[k].h)' = {}
    BY <1>1, <1>3 DEF HandleInv, CmdInv, Issued, ObjsOf
  <1>10. HandInv'
    <2> SUFFICES ASSUME NEW u \in Threads, pc'[u] = "fence"
                 PROVE  /\ Issued(hand[u])' /\ ObjsOf(hand[u])' = {}
                        /\ \A k \in FenceCmds' : ring'[k].h # hand'[u]
                        /\ \A v \in Threads :
                             pc'[v] = "fence" /\ hand'[v] = hand'[u] => v = u
      BY DEF HandInv
    <2>1. CASE u = t
      <3>1. Issued(hand[u])' /\ ObjsOf(hand[u])' = {}
        BY <1>3, <1>4, <1>6, <1>7, <2>1 DEF Issued, ObjsOf
      <3>2. \A v \in Threads : v # t /\ pc[v] = "fence" => hand[v] # new
        BY <1>5 DEF HandleInv, HandInv
      <3> QED
        BY <1>3, <1>6, <1>7, <1>8, <2>1, <3>1, <3>2
    <2>2. CASE u # t
      <3>1. /\ pc[u] = "fence" /\ Issued(hand[u]) /\ ObjsOf(hand[u]) = {}
            /\ \A k \in FenceCmds : ring[k].h # hand[u]
            /\ \A v \in Threads : pc[v] = "fence" /\ hand[v] = hand[u] => v = u
        BY <1>6, <2>2 DEF HandleInv, HandInv
      <3>2. Issued(hand[u])' /\ ObjsOf(hand[u])' = {}
        BY <1>1, <1>3, <1>6, <2>2, <3>1 DEF Issued, ObjsOf
      <3> QED
        BY <1>3, <1>5, <1>6, <1>8, <2>2, <3>1, <3>2
    <2> QED
      BY <2>1, <2>2
  <1>11. CmdInv'
    BY <1>3, <1>8, <1>9 DEF HandleInv, CmdInv
  <1>12. MadeInv'
    BY <1>1, <1>3 DEF HandleInv, MadeInv, Issued
  <1> QED
    BY <1>10, <1>11, <1>12 DEF HandleInv

(* The command that makes the fence enters the ring.                       *)
LEMMA FenceSendHandles ==
  ASSUME TypeOK, HandleInv, NEW t \in Threads, FenceSend(t)
  PROVE  HandleInv'
  <1>1. /\ pc[t] = "fence" /\ hand[t] \in Handle
        /\ Send(t, "fence", hand[t], "none", {})
        /\ pc' = [pc EXCEPT ![t] = "idle"]
        /\ held' = [held EXCEPT ![Mine(t)] = @ \cup {hand[t]}]
        /\ UNCHANGED <<g_sync_gen, hand, objs>>
    BY DEF FenceSend, TypeOK, Goto, stubVars, proxyVars
  <1>2. /\ Len(ring) \in Nat /\ DOMAIN ring = 1 .. Len(ring)
        /\ DOMAIN ring' = 1 .. Len(ring) + 1
        /\ ring'[Len(ring) + 1].op = "fence"
        /\ ring'[Len(ring) + 1].h = hand[t]
        /\ \A k \in DOMAIN ring : ring'[k] = ring[k]
    BY <1>1, SendFacts
  <1>3. /\ FenceCmds' = FenceCmds \cup {Len(ring) + 1}
        /\ \A k \in FenceCmds : k # Len(ring) + 1 /\ ring'[k] = ring[k]
    BY <1>2 DEF FenceCmds
  <1>4. /\ Issued(hand[t]) /\ ObjsOf(hand[t]) = {}
        /\ \A k \in FenceCmds : ring[k].h # hand[t]
        /\ \A u \in Threads : pc[u] = "fence" /\ hand[u] = hand[t] => u = t
    BY <1>1 DEF HandleInv, HandInv
  <1>5. \A u \in Threads : pc'[u] = "fence" => pc[u] = "fence" /\ u # t
    BY <1>1 DEF TypeOK
  <1>6. HandInv'
    <2> SUFFICES ASSUME NEW u \in Threads, pc'[u] = "fence"
                 PROVE  /\ Issued(hand[u])' /\ ObjsOf(hand[u])' = {}
                        /\ \A k \in FenceCmds' : ring'[k].h # hand'[u]
                        /\ \A v \in Threads :
                             pc'[v] = "fence" /\ hand'[v] = hand'[u] => v = u
      BY DEF HandInv
    <2>1. /\ u # t /\ pc[u] = "fence" /\ Issued(hand[u]) /\ ObjsOf(hand[u]) = {}
          /\ \A k \in FenceCmds : ring[k].h # hand[u]
          /\ \A v \in Threads : pc[v] = "fence" /\ hand[v] = hand[u] => v = u
      BY <1>5 DEF HandleInv, HandInv
    <2>2. Issued(hand[u])' /\ ObjsOf(hand[u])' = {}
      BY <1>1, <2>1 DEF Issued, ObjsOf
    <2>3. hand[u] # hand[t]
      BY <1>4, <2>1
    <2> QED
      BY <1>1, <1>2, <1>3, <1>5, <2>1, <2>2, <2>3
  <1>7. CmdInv'
    <2> SUFFICES ASSUME NEW k \in FenceCmds'
                 PROVE  /\ Issued(ring[k].h)' /\ ObjsOf(ring[k].h)' = {}
                        /\ \A l \in FenceCmds' :
                             ring'[l].h = ring'[k].h => l = k
      BY DEF CmdInv
    <2>1. CASE k = Len(ring) + 1
      <3>1. Issued(ring[k].h)' /\ ObjsOf(ring[k].h)' = {}
        BY <1>1, <1>2, <1>4, <2>1 DEF Issued, ObjsOf
      <3> QED
        BY <1>2, <1>3, <1>4, <2>1, <3>1
    <2>2. CASE k \in FenceCmds
      <3>1. /\ Issued(ring[k].h) /\ ObjsOf(ring[k].h) = {}
            /\ \A l \in FenceCmds : ring[l].h = ring[k].h => l = k
            /\ ring'[k] = ring[k]
        BY <1>3, <2>2 DEF HandleInv, CmdInv
      <3>2. Issued(ring[k].h)' /\ ObjsOf(ring[k].h)' = {}
        BY <1>1, <3>1 DEF Issued, ObjsOf
      <3> QED
        BY <1>2, <1>3, <1>4, <2>2, <3>1, <3>2
    <2> QED
      BY <1>3, <2>1, <2>2
  <1>8. MadeInv'
    <2>1. \A g \in Groups : \A h \in held'[g] : Issued(h)
      BY <1>1, <1>4 DEF HandleInv, MadeInv, TypeOK
    <2> QED
      BY <1>1, <2>1 DEF HandleInv, MadeInv, Issued
  <1> QED
    BY <1>6, <1>7, <1>8 DEF HandleInv

(* The other steps of the stub.                                            *)
LEMMA StubHandles ==
  ASSUME TypeOK, HandleInv, NEW t \in Threads, Thread(t)
  PROVE  HandleInv'
  <1> DEFINE Quiet == /\ UNCHANGED <<g_sync_gen, objs>>
                      /\ \A u \in Threads : pc'[u] = "fence" =>
                            pc[u] = "fence" /\ hand'[u] = hand[u]
                      /\ \A g \in Groups : held'[g] \subseteq held[g]
  <1>0. Mine(t) \in Groups /\ (SameFences \/ objs' # objs)
    BY SyncAssumption DEF Mine, SameFences
  <1>1. CASE FenceAlloc(t) \/ FenceSend(t)
    BY <1>1, AllocHandles, FenceSendHandles
  <1>2. ASSUME NEW op \in {"wait", "delete", "touch"}, NEW h, NEW mode,
               NEW after, Send(t, op, h, mode, after), Quiet,
               \/ /\ op # "touch" /\ h \in Handle
                  /\ mode \in Modes \cup {"none"} /\ after = {}
               \/ /\ op = "touch" /\ h = NoFence /\ mode = "none"
                  /\ after \in SUBSET Handle
        PROVE  HandleInv'
    <2>1. /\ Len(ring) \in Nat /\ DOMAIN ring = 1 .. Len(ring)
          /\ DOMAIN ring' = 1 .. Len(ring) + 1
          /\ ring'[Len(ring) + 1].op = op
          /\ \A k \in DOMAIN ring : ring'[k] = ring[k]
      BY <1>2, SendFacts
    <2>2. \A k \in FenceCmds' : /\ k + 0 \in FenceCmds /\ k \in Nat
                                /\ ring'[k].h = ring[k + 0].h
      BY <2>1 DEF FenceCmds
    <2> QED
      BY <1>0, <1>2, <2>2, HandleKeep
  <1>3. ASSUME UNCHANGED ring, Quiet PROVE HandleInv'
    <2>1. \A k \in FenceCmds' : /\ k + 0 \in FenceCmds /\ k \in Nat
                                /\ ring'[k].h = ring[k + 0].h
      BY <1>3 DEF FenceCmds, TypeOK
    <2> QED
      BY <1>0, <1>3, <2>1, HandleKeep
  <1>4. CASE TouchSend(t)
    <2>1. Quiet /\ promised[Mine(t)] \in SUBSET Handle
      BY <1>4, SyncAssumption DEF TouchSend, stubVars, proxyVars, TypeOK, Mine
    <2> QED
      BY <1>2, <1>4, <2>1 DEF TouchSend
  <1>5. CASE DeleteFree(t)
    <2>1. Quiet /\ UNCHANGED ring
      BY <1>5 DEF DeleteFree, proxyVars, TypeOK, Goto
    <2> QED
      BY <1>3, <2>1
  <1>6. CASE \E mode \in Modes : WaitSend(t, mode)
    <2>1. PICK mode \in Modes : WaitSend(t, mode)
      BY <1>6
    <2>2. Quiet /\ hand[t] \in Handle
      BY <2>1 DEF WaitSend, stubVars, proxyVars, TypeOK, Goto
    <2> QED
      BY <1>2, <2>1, <2>2 DEF WaitSend
  <1>7. CASE \E h \in held[Mine(t)] : WaitCheck(t, h)
    <2>1. Quiet /\ UNCHANGED ring
      BY <1>7 DEF WaitCheck, stubVars, proxyVars, TypeOK, Goto
    <2> QED
      BY <1>3, <2>1
  <1>8. CASE \E h \in held[Mine(t)] : DeleteSend(t, h)
    <2>1. PICK h \in held[Mine(t)] : DeleteSend(t, h)
      BY <1>8
    <2>2. Quiet
      BY <2>1 DEF DeleteSend, stubVars, proxyVars, TypeOK, Goto
    <2>3. h \in Handle
      BY SyncAssumption DEF TypeOK, Mine
    <2> QED
      BY <1>2, <2>1, <2>2, <2>3 DEF DeleteSend
  <1> QED
    BY <1>1, <1>4, <1>5, <1>6, <1>7, <1>8 DEF Thread

(* The commands move up when one has run.                                  *)
LEMMA PopFacts ==
  ASSUME TypeOK, ring # <<>>, Pop
  PROVE  \A k \in FenceCmds' : /\ k + 1 \in FenceCmds /\ k \in Nat /\ k # 0
                               /\ ring'[k].h = ring[k + 1].h
  <1>1. /\ ring \in Seq(Command) /\ Len(ring) \in Nat
        /\ DOMAIN ring = 1 .. Len(ring) /\ ring' = Tail(ring)
    BY DEF TypeOK, Pop
  <1>2. /\ DOMAIN ring' = 1 .. Len(ring) - 1
        /\ \A k \in DOMAIN ring' : ring'[k] = ring[k + 1]
    BY <1>1, TailFacts
  <1> QED
    BY <1>1, <1>2 DEF FenceCmds

(* h_glFenceSync() makes the object of its handle.                         *)
LEMMA FenceHandles ==
  ASSUME TypeOK, HandleInv, RunFence
  PROVE  HandleInv'
  <1> DEFINE n == Len(objs) + 1
  <1>1. /\ Len(objs) \in Nat /\ DOMAIN objs = 1 .. Len(objs)
        /\ DOMAIN objs' = 1 .. n
        /\ objs'[n].h = ring[1].h
        /\ \A i \in DOMAIN objs : objs'[i].h = objs[i].h
        /\ 1 \in FenceCmds /\ ring # <<>> /\ Pop
    <2>1. objs'[n].h = Cmd.h
      BY FenceFacts
    <2> QED
      BY <2>1, FenceFacts
  <1>2. \A k \in FenceCmds' : /\ k + 1 \in FenceCmds /\ k \in Nat /\ k # 0
                              /\ ring'[k].h = ring[k + 1].h
    BY <1>1, PopFacts
  <1>3. UNCHANGED <<g_sync_gen, pc, hand, held>>
    BY DEF RunFence, stubVars
  <1>4. /\ Issued(ring[1].h) /\ ObjsOf(ring[1].h) = {}
        /\ \A l \in FenceCmds : ring[l].h = ring[1].h => l = 1
    BY <1>1 DEF HandleInv, CmdInv
  <1>5. HandInv'
    <2> SUFFICES ASSUME NEW t \in Threads, pc[t] = "fence"
                 PROVE  /\ Issued(hand[t])' /\ ObjsOf(hand[t])' = {}
                        /\ \A k \in FenceCmds' : ring'[k].h # hand[t]
                        /\ \A u \in Threads :
                             pc[u] = "fence" /\ hand[u] = hand[t] => u = t
      BY <1>3 DEF HandInv
    <2>1. /\ Issued(hand[t]) /\ ObjsOf(hand[t]) = {}
          /\ \A k \in FenceCmds : ring[k].h # hand[t]
          /\ \A u \in Threads : pc[u] = "fence" /\ hand[u] = hand[t] => u = t
      BY DEF HandleInv, HandInv
    <2>2. ObjsOf(hand[t])' = {}
      BY <1>1, <1>3, <2>1 DEF ObjsOf
    <2> QED
      BY <1>2, <1>3, <2>1, <2>2 DEF Issued
  <1>6. CmdInv'
    <2> SUFFICES ASSUME NEW k \in FenceCmds'
                 PROVE  /\ Issued(ring[k].h)' /\ ObjsOf(ring[k].h)' = {}
                        /\ \A l \in FenceCmds' :
                             ring'[l].h = ring'[k].h => l = k
      BY DEF CmdInv
    <2>1. /\ k + 1 \in FenceCmds /\ ring'[k].h = ring[k + 1].h /\ k \in Nat
          /\ k # 0 /\ Issued(ring[k + 1].h) /\ ObjsOf(ring[k + 1].h) = {}
          /\ \A l \in FenceCmds : ring[l].h = ring[k + 1].h => l = k + 1
      BY <1>2 DEF HandleInv, CmdInv
    <2>2. Issued(ring[k].h)'
      BY <1>3, <2>1 DEF Issued
    <2>3. ring[k + 1].h # ring[1].h
      BY <1>4, <2>1
    <2>4. ObjsOf(ring[k].h)' = {}
      BY <1>1, <2>1, <2>3 DEF ObjsOf
    <2>5. ASSUME NEW l \in FenceCmds', ring'[l].h = ring'[k].h
          PROVE  l = k
      <3>1. l + 1 = k + 1 /\ l \in Nat
        BY <1>2, <2>1, <2>5
      <3> QED
        BY <2>1, <3>1
    <2> QED
      BY <2>2, <2>4, <2>5
  <1>7. MadeInv'
    <2>1. \A i \in DOMAIN objs : objs[i].h # ring[1].h
      BY <1>4 DEF ObjsOf
    <2>2. ASSUME NEW i \in DOMAIN objs'
          PROVE  /\ Issued(objs[i].h)'
                 /\ \A j \in DOMAIN objs' : objs'[j].h = objs'[i].h => j = i
      <3>1. CASE i = n
        BY <1>1, <1>3, <1>4, <2>1, <3>1 DEF Issued
      <3>2. CASE i # n
        <4>1. /\ i \in DOMAIN objs /\ Issued(objs[i].h)
              /\ \A j \in DOMAIN objs : objs[j].h = objs[i].h => j = i
          BY <1>1, <3>2 DEF HandleInv, MadeInv
        <4>2. Issued(objs[i].h)'
          BY <1>1, <1>3, <4>1 DEF Issued
        <4> QED
          BY <1>1, <2>1, <4>1, <4>2
      <3> QED
        BY <3>1, <3>2
    <2>3. \A g \in Groups : \A h \in held'[g] : Issued(h)'
      BY <1>3 DEF HandleInv, MadeInv, Issued
    <2> QED
      BY <2>2, <2>3 DEF MadeInv
  <1> QED
    BY <1>5, <1>6, <1>7 DEF HandleInv

LEMMA ProxyHandles ==
  ASSUME TypeOK, HandleInv, Proxy
  PROVE  HandleInv'
  <1>1. CASE RunFence
    BY <1>1, FenceHandles
  <1>2. CASE SameFences
    <2>1. /\ g_sync_gen' = g_sync_gen /\ UNCHANGED held
          /\ \A t \in Threads : pc'[t] = "fence" => /\ pc[t] = "fence"
                                                    /\ hand'[t] = hand[t]
      BY ProxySame
    <2>2. CASE ring # <<>> /\ Pop
      BY <1>2, <2>1, <2>2, PopFacts, HandleKeep
    <2>3. CASE UNCHANGED ring
      <3>1. \A k \in FenceCmds' : /\ k + 0 \in FenceCmds /\ k \in Nat
                                  /\ ring'[k].h = ring[k + 0].h
        BY <2>3 DEF FenceCmds, TypeOK
      <3> QED
        BY <1>2, <2>1, <3>1, HandleKeep
    <2> QED
      BY <2>2, <2>3, ProxySame
  <1> QED
    BY <1>1, <1>2, ProxySame

LEMMA SignalHandles ==
  ASSUME TypeOK, HandleInv, NEW i \in DOMAIN objs, Signal(i)
  PROVE  HandleInv'
  <1>1. SameFences
    BY SignalFacts DEF SameFences
  <1>2. UNCHANGED <<g_sync_gen, pc, hand, ring, held>>
    BY DEF Signal, stubVars
  <1>3. \A k \in FenceCmds' : /\ k + 0 \in FenceCmds /\ k \in Nat
                              /\ ring'[k].h = ring[k + 0].h
    BY <1>2 DEF FenceCmds, TypeOK
  <1> QED
    BY <1>1, <1>2, <1>3, HandleKeep

(* glFenceSync() may number the fences without asking the proxy: whatever  *)
(* the threads do, no two fences between bridge_sync_alloc() and the       *)
(* driver have the same handle, as long as the generations do not wrap.    *)
THEOREM HandlesUnique == Spec => []HandleInv
  <1>1. Init => HandleInv
    BY DEF Init, HandleInv, HandInv, CmdInv, MadeInv, FenceCmds
  <1>2. TypeOK /\ HandleInv /\ [Next]_vars => HandleInv'
    <2> SUFFICES ASSUME TypeOK, HandleInv, [Next]_vars PROVE HandleInv'
      OBVIOUS
    <2>1. CASE Next
      BY <2>1, StubHandles, ProxyHandles, SignalHandles DEF Next
    <2>2. CASE UNCHANGED vars
      BY <2>2 DEF vars, stubVars, proxyVars, HandleInv, HandInv, CmdInv,
         MadeInv, FenceCmds, Issued, ObjsOf
    <2> QED
      BY <2>1, <2>2
  <1> QED
    BY <1>1, <1>2, SyncTypeCorrect, PTL DEF Spec

-----------------------------------------------------------------------------
(* Every sync object has one owner *)

(* Only the loop itself runs while the list is being worked off.           *)
LEMMA NotResolving ==
  ASSUME TypeOK, ListInv, Proxy, ~ResolveOne
  PROVE  resolved = 0 /\ resolved' = 0
  <1>1. ~MustResolve
    BY DEF Proxy, MustResolve, Defers, RunFence, RunFenceRefused, RunDefer,
       RunWaitSignaled, RunWaitExpired, RunWaitFailed, RunDelete, RunTouch
  <1>2. resolved' = resolved
    BY DEF Proxy, RunFence, RunFenceRefused, RunDefer, RunWaitSignaled,
       RunWaitExpired, RunWaitFailed, RunDelete, RunTouch, proxyVars
  <1> QED
    BY <1>1, <1>2 DEF ListInv

(* Steps that leave table, list and the life of the objects alone.         *)
LEMMA OwnerKeep ==
  ASSUME TypeOK, OwnerInv, UNCHANGED <<syncs, g_def, resolved>>,
         DOMAIN objs' = DOMAIN objs,
         \A i \in DOMAIN objs : objs'[i].h = objs[i].h
                               /\ objs'[i].live = objs[i].live,
         resolved # 0 => MustResolve'
  PROVE  OwnerInv'
  <1>1. TableInv'
    BY DEF OwnerInv, TableInv
  <1>2. ListInv'
    BY DEF OwnerInv, ListInv
  <1>3. ASSUME NEW i \in DOMAIN objs'
        PROVE  /\ objs'[i].live <=> InTable(i)' \/ InList(i)'
               /\ ~(InTable(i)' /\ InList(i)')
    <2>1. /\ objs[i].live <=> InTable(i) \/ InList(i)
          /\ ~(InTable(i) /\ InList(i))
      BY DEF OwnerInv, OneOwner
    <2>2. objs'[i].live <=> objs[i].live
      OBVIOUS
    <2>3. (InTable(i)' <=> InTable(i)) /\ (InList(i)' <=> InList(i))
      BY DEF InTable, InList
    <2> QED
      BY <2>1, <2>2, <2>3
  <1>4. ASSUME NEW d \in resolved' + 1 .. Len(g_def')
        PROVE  objs'[g_def'[d].s].live
    <2>1. d \in resolved + 1 .. Len(g_def) /\ d \in DOMAIN g_def
      BY DEF TypeOK
    <2>2. g_def[d].s \in DOMAIN objs /\ objs[g_def[d].s].live
      BY <2>1 DEF OwnerInv, OneOwner, ListInv
    <2> QED
      BY <2>2
  <1>5. OneOwner'
    BY <1>3, <1>4 DEF OneOwner
  <1> QED
    BY <1>1, <1>2, <1>5 DEF OwnerInv

(* A send goes behind the command the proxy is in.                         *)
LEMMA StubOwner ==
  ASSUME TypeOK, OwnerInv, NEW t \in Threads, Thread(t)
  PROVE  OwnerInv'
  <1>1. UNCHANGED <<syncs, g_def, resolved, objs>>
    BY DEF Thread, FenceAlloc, FenceSend, TouchSend, DeleteFree, WaitSend,
       WaitCheck, DeleteSend, proxyVars
  <1>2. \/ UNCHANGED ring
        \/ \E c : ring' = Append(ring, c)
    BY DEF Thread, FenceAlloc, FenceSend, TouchSend, DeleteFree, WaitSend,
       WaitCheck, DeleteSend, Send
  <1>3. ring # <<>> => ring' # <<>> /\ ring'[1] = ring[1]
    <2>1. ring \in Seq(Command)
      BY DEF TypeOK
    <2> QED
      BY <1>2, <2>1
  <1>4. MustResolve => MustResolve'
    BY <1>1, <1>3 DEF MustResolve, Defers, Running, Cmd, Found, Waiting
  <1> QED
    BY <1>1, <1>4, OwnerKeep DEF OwnerInv, ListInv

LEMMA SignalOwner ==
  ASSUME TypeOK, OwnerInv, NEW i \in DOMAIN objs, Signal(i)
  PROVE  OwnerInv'
  <1>1. UNCHANGED <<ring, syncs, g_def, resolved>>
    BY DEF Signal
  <1>2. MustResolve => MustResolve'
    BY <1>1 DEF MustResolve, Defers, Running, Cmd, Found, Waiting
  <1> QED
    BY <1>1, <1>2, SignalFacts, OwnerKeep DEF OwnerInv, ListInv

(* A new entry of the list: the fence stays the table's.                   *)
LEMMA DeferOwner ==
  ASSUME TypeOK, OwnerInv, RunDefer
  PROVE  OwnerInv'
  <1> DEFINE s == syncs[Cmd.h.id].real
             e == [s |-> s, handle |-> Cmd.h, owned |-> FALSE]
             n == Len(g_def) + 1
  <1>1. resolved = 0 /\ resolved' = 0 /\ UNCHANGED <<syncs, objs>>
    <2>1. Proxy /\ ~ResolveOne
      BY DEF Proxy, RunDefer, ResolveOne
    <2> QED
      BY <2>1, NotResolving DEF OwnerInv, RunDefer
  <1>2. /\ s \in DOMAIN objs /\ e \in Deferred /\ Found(Cmd.h)
        /\ Cmd.h \in Handle
        /\ \/ g_def' = g_def
           \/ ~Waiting(s) /\ g_def' = Append(g_def, e)
    BY DeferFacts
  <1>3. CASE g_def' = g_def
    BY <1>1, <1>3, OwnerKeep
  <1>4. CASE ~Waiting(s) /\ g_def' = Append(g_def, e)
    <2>1. Cmd.h.id \in Ids /\ objs[s].h = Cmd.h
      BY <1>2 DEF OwnerInv, TableInv, Found, Handle
    <2>2. /\ Len(g_def) \in Nat /\ DOMAIN g_def = 1 .. Len(g_def)
          /\ DOMAIN g_def' = 1 .. n /\ Len(g_def') = n
          /\ g_def'[n] = e
          /\ \A d \in DOMAIN g_def : g_def'[d] = g_def[d]
      <3>1. g_def \in Seq(Deferred)
        BY DEF TypeOK
      <3> HIDE DEF e
      <3> QED
        BY <1>2, <1>4, <3>1, AppendFacts
    <2>3. e.s = s /\ e.handle = Cmd.h /\ e.owned = FALSE
      OBVIOUS
    <2>4. \A d \in DOMAIN g_def : g_def[d].s # s
      BY <1>4 DEF Waiting
    <2> HIDE DEF e, s
    <2>5. TableInv'
      BY <1>1 DEF OwnerInv, TableInv
    <2>6. ListInv'
      <3>1. \A d \in DOMAIN g_def : /\ g_def[d].s \in DOMAIN objs
                                   /\ objs[g_def[d].s].h = g_def[d].handle
                                   /\ \A f \in DOMAIN g_def :
                                        g_def[f].s = g_def[d].s => f = d
        BY DEF OwnerInv, ListInv
      <3> QED
        BY <1>1, <1>2, <2>1, <2>2, <2>3, <2>4, <3>1 DEF ListInv
    <2>7. ASSUME NEW i \in DOMAIN objs
          PROVE  /\ InTable(i)' <=> InTable(i)
                 /\ InList(i)' <=> InList(i)
      BY <1>1, <2>2, <2>3 DEF InTable, InList
    <2>8. objs[s].live
      <3>1. InTable(s)
        BY <2>1 DEF InTable, s
      <3> QED
        BY <1>2, <3>1 DEF OwnerInv, OneOwner
    <2>9. OneOwner'
      <3>1. ASSUME NEW i \in DOMAIN objs'
            PROVE  /\ objs'[i].live <=> InTable(i)' \/ InList(i)'
                   /\ ~(InTable(i)' /\ InList(i)')
        <4>1. /\ objs[i].live <=> InTable(i) \/ InList(i)
              /\ ~(InTable(i) /\ InList(i))
          BY <1>1 DEF OwnerInv, OneOwner
        <4>2. (InTable(i)' <=> InTable(i)) /\ (InList(i)' <=> InList(i))
          BY <1>1, <2>7
        <4> QED
          BY <1>1, <4>1, <4>2
      <3>2. ASSUME NEW d \in resolved' + 1 .. Len(g_def')
            PROVE  objs'[g_def'[d].s].live
        <4>1. CASE d = n
          BY <1>1, <2>2, <2>3, <2>8, <4>1
        <4>2. CASE d # n
          BY <1>1, <2>2, <4>2 DEF OwnerInv, OneOwner
        <4> QED
          BY <4>1, <4>2
      <3> QED
        BY <3>1, <3>2 DEF OneOwner
    <2> QED
      BY <2>5, <2>6, <2>9 DEF OwnerInv
  <1> QED
    BY <1>2, <1>3, <1>4

(* h_glFenceSync() and h_glDeleteSync(): the place of an id in the table   *)
(* is given to a new object or none (NULL), and the old object is deleted  *)
(* or passes to the list.                                                  *)
LEMMA TakenOver ==
  ASSUME TypeOK, OwnerInv, resolved = 0, resolved' = 0,
         NEW id \in Ids, NEW old, old = syncs[id].real,
         NEW new \in Nat, new \notin DOMAIN objs,
         syncs'[id].real = new,
         \A j \in Ids : j # id => syncs'[j] = syncs[j],
         Adopt(old),
         DOMAIN objs' = DOMAIN objs \cup ({new} \ {NULL}),
         \A i \in DOMAIN objs :
           /\ objs'[i].h = objs[i].h
           /\ objs'[i].live <=> objs[i].live /\ (i # old \/ Waiting(old)),
         new # NULL => /\ objs'[new].h = [id |-> id, gen |-> syncs'[id].gen]
                       /\ objs'[new].live
  PROVE  OwnerInv'
  <1>1. /\ Len(g_def') = Len(g_def) /\ DOMAIN g_def' = DOMAIN g_def
        /\ Len(g_def) \in Nat /\ DOMAIN g_def = 1 .. Len(g_def)
        /\ \A d \in DOMAIN g_def :
             /\ g_def'[d].s = g_def[d].s
             /\ g_def'[d].handle = g_def[d].handle
             /\ g_def'[d].owned <=> (g_def[d].owned \/ g_def[d].s = old)
    <2>1. /\ g_def \in Seq(Deferred) /\ Len(g_def) \in Nat
          /\ DOMAIN g_def = 1 .. Len(g_def)
      BY DEF TypeOK
    <2>2. ASSUME NEW d \in DOMAIN g_def
          PROVE  g_def'[d].owned <=> (g_def[d].owned \/ g_def[d].s = old)
      <3>1. g_def[d] \in Deferred
        BY <2>1
      <3>2. CASE g_def[d].s = old
        BY <3>1, <3>2 DEF Adopt, Deferred
      <3>3. CASE g_def[d].s # old
        BY <3>3 DEF Adopt
      <3> QED
        BY <3>2, <3>3
    <2>3. Len(g_def') = Len(g_def) /\ DOMAIN g_def' = DOMAIN g_def
      BY AdoptType
    <2>4. \A d \in DOMAIN g_def : /\ g_def'[d].s = g_def[d].s
                                 /\ g_def'[d].handle = g_def[d].handle
      BY AdoptType
    <2> QED
      BY <2>1, <2>2, <2>3, <2>4
  <1>2. 0 \notin DOMAIN objs /\ \A i \in DOMAIN objs : objs[i].h.id \in Ids
    <2>1. \A i \in DOMAIN objs : objs[i] \in SyncObj
      BY DEF TypeOK
    <2>2. 0 \notin DOMAIN objs
      BY DEF TypeOK
    <2> QED
      BY <2>1, <2>2 DEF SyncObj, Handle
  <1>3. old # NULL => old \in DOMAIN objs /\ objs[old].h.id = id
    <2>1. old # NULL => /\ old \in DOMAIN objs
                        /\ objs[old].h = [id |-> id, gen |-> syncs[id].gen]
      BY DEF OwnerInv, TableInv
    <2> QED
      BY <2>1
  <1>4. TableInv'
    BY DEF OwnerInv, TableInv
  <1>5. \A d \in DOMAIN g_def : /\ g_def[d].s \in DOMAIN objs
                               /\ objs[g_def[d].s].h = g_def[d].handle
                               /\ \A f \in DOMAIN g_def :
                                    g_def[f].s = g_def[d].s => f = d
    BY DEF OwnerInv, ListInv
  <1>6. ListInv'
    BY <1>1, <1>5 DEF ListInv
  <1>7. ASSUME NEW i \in DOMAIN objs
        PROVE  /\ objs'[i].live <=> InTable(i)' \/ InList(i)'
               /\ ~(InTable(i)' /\ InList(i)')
    <2>1. /\ objs[i].live <=> InTable(i) \/ InList(i)
          /\ ~(InTable(i) /\ InList(i))
      BY DEF OwnerInv, OneOwner
    <2>2. InTable(i)' <=> InTable(i) /\ i # old
      <3>1. objs'[i].h = objs[i].h /\ objs[i].h.id \in Ids /\ i # new
        BY <1>2
      <3>2. CASE objs[i].h.id = id
        BY <3>1, <3>2 DEF InTable
      <3>3. CASE objs[i].h.id # id
        <4>1. i # old
          BY <1>2, <1>3, <3>3 DEF NULL
        <4> QED
          BY <3>1, <3>3, <4>1 DEF InTable
      <3> QED
        BY <3>2, <3>3
    <2>3. InList(i)' <=> InList(i) \/ (i = old /\ Waiting(old))
      BY <1>1 DEF InList, Waiting
    <2>4. i = old => InTable(i)
      BY <1>2, <1>3 DEF InTable, NULL
    <2>5. objs'[i].live <=> objs[i].live /\ (i # old \/ Waiting(old))
      OBVIOUS
    <2> QED
      BY <2>1, <2>2, <2>3, <2>4, <2>5
  <1>8. ASSUME new # NULL
        PROVE  /\ objs'[new].live <=> InTable(new)' \/ InList(new)'
               /\ ~(InTable(new)' /\ InList(new)')
    <2>1. objs'[new].h.id = id /\ objs'[new].live
      BY <1>8
    <2>2. InTable(new)'
      BY <2>1 DEF InTable
    <2>3. ~InList(new)'
      BY <1>1, <1>5 DEF InList
    <2> QED
      BY <2>1, <2>2, <2>3
  <1>9. ASSUME NEW d \in resolved' + 1 .. Len(g_def')
        PROVE  objs'[g_def'[d].s].live
    <2>1. /\ d \in DOMAIN g_def /\ g_def'[d].s = g_def[d].s
          /\ g_def[d].s \in DOMAIN objs
      BY <1>1, <1>5
    <2>2. objs[g_def[d].s].live
      BY <1>1, <2>1 DEF OwnerInv, OneOwner
    <2>3. g_def[d].s = old => Waiting(old)
      BY <2>1 DEF Waiting
    <2> QED
      BY <2>1, <2>2, <2>3
  <1>10. OneOwner'
    BY <1>7, <1>8, <1>9 DEF OneOwner
  <1> QED
    BY <1>4, <1>6, <1>10 DEF OwnerInv

LEMMA FenceOwner ==
  ASSUME OneShareGroup, TypeOK, OwnerInv, RunFence
  PROVE  OwnerInv'
  <1> DEFINE id == Cmd.h.id
             old == syncs[id].real
             new == Len(objs) + 1
  <1>1. resolved = 0 /\ resolved' = 0
    <2>1. Proxy /\ ~ResolveOne
      BY DEF Proxy, RunFence, ResolveOne, MustResolve, Defers
    <2> QED
      BY <2>1, NotResolving DEF OwnerInv
  <1>2. /\ new \in Nat /\ DOMAIN objs = 1 .. Len(objs) /\ Len(objs) \in Nat
        /\ DOMAIN objs' = 1 .. new
        /\ objs'[new].h = Cmd.h /\ objs'[new].live = TRUE
        /\ Cmd.h \in Handle /\ id \in Ids /\ CmdGrp \in Groups
        /\ \A i \in DOMAIN objs :
             /\ objs'[i].h = objs[i].h
             /\ objs'[i].live = (objs[i].live /\ (i # old \/ Waiting(old)
                                           \/ objs[i].grp # CmdGrp))
    <2>1. objs'[new] = [h |-> Cmd.h, grp |-> CmdGrp, signaled |-> FALSE,
                        live |-> TRUE]
      BY FenceFacts
    <2>2. objs'[new].h = Cmd.h /\ objs'[new].live = TRUE
      BY <2>1
    <2> QED
      BY <2>2, FenceFacts
  <1>3. \A i \in DOMAIN objs : objs[i].grp = CmdGrp
    <2>1. \A i \in DOMAIN objs : objs[i] \in SyncObj
      BY DEF TypeOK
    <2> QED
      BY <1>2, <2>1 DEF OneShareGroup, SyncObj
  <1>4. \A i \in DOMAIN objs :
          /\ objs'[i].h = objs[i].h
          /\ objs'[i].live <=> objs[i].live /\ (i # old \/ Waiting(old))
    BY <1>2, <1>3
  <1>5. Adopt(old) /\ syncs' = [syncs EXCEPT ![id] =
                                  [real |-> new, gen |-> Cmd.h.gen]]
    BY DEF RunFence
  <1>6. /\ syncs'[id] = [real |-> new, gen |-> Cmd.h.gen]
        /\ \A j \in Ids : j # id => syncs'[j] = syncs[j]
    BY <1>2, <1>5 DEF TypeOK
  <1>7. objs'[new].h = [id |-> id, gen |-> syncs'[id].gen]
    BY <1>2, <1>6 DEF Handle
  <1>8. /\ syncs'[id].real = new /\ new \notin DOMAIN objs
        /\ DOMAIN objs' = DOMAIN objs \cup ({new} \ {NULL})
    BY <1>2, <1>6 DEF NULL
  <1>9. objs'[new].live
    BY <1>2
  <1>10. old = syncs[id].real
    OBVIOUS
  <1>11. new \in Nat /\ id \in Ids
    BY <1>2
  <1> HIDE DEF id, old, new
  <1> QED
    BY <1>1, <1>4, <1>5, <1>6, <1>7, <1>8, <1>9, <1>10, <1>11, TakenOver

LEMMA DeleteOwner ==
  ASSUME OneShareGroup, TypeOK, OwnerInv, RunDelete
  PROVE  OwnerInv'
  <1> DEFINE id == Cmd.h.id
             old == syncs[id].real
  <1>1. resolved = 0 /\ resolved' = 0
    <2>1. Proxy /\ ~ResolveOne
      BY DEF Proxy, RunDelete, ResolveOne, MustResolve, Defers
    <2> QED
      BY <2>1, NotResolving DEF OwnerInv
  <1>2. Running # "none" /\ id \in Ids /\ CmdGrp \in Groups
    BY CmdFacts DEF RunDelete
  <1>3. CASE ~Found(Cmd.h)
    BY <1>1, <1>3, OwnerKeep DEF RunDelete
  <1>4. CASE Found(Cmd.h)
    <2>1. old \in DOMAIN objs /\ 0 \notin DOMAIN objs
      BY <1>2, <1>4 DEF Found, TypeOK, NULL
    <2>2. /\ objs' = Dropped(old) /\ Adopt(old)
          /\ syncs' = [syncs EXCEPT ![id] = [real |-> NULL, gen |-> 0]]
      BY <1>4 DEF RunDelete
    <2>3. \A i \in DOMAIN objs : objs[i].grp = CmdGrp
      <3>1. \A i \in DOMAIN objs : objs[i] \in SyncObj
        BY DEF TypeOK
      <3> QED
        BY <1>2, <3>1 DEF OneShareGroup, SyncObj
    <2>4. /\ DOMAIN objs' = DOMAIN objs
          /\ \A i \in DOMAIN objs :
               /\ objs'[i].h = objs[i].h
               /\ objs'[i].live <=> objs[i].live /\ (i # old \/ Waiting(old))
      <3>1. /\ DOMAIN Dropped(old) = DOMAIN objs
            /\ \A i \in DOMAIN objs :
                 /\ Dropped(old)[i].h = objs[i].h
                 /\ Dropped(old)[i].live =
                      (objs[i].live /\ (Waiting(old) \/ i # old
                                          \/ objs[old].grp # CmdGrp))
        BY <1>2, <2>1, DroppedFacts
      <3>2. objs[old].grp = CmdGrp
        BY <2>1, <2>3
      <3> HIDE DEF id, old
      <3> QED
        BY <2>2, <3>1, <3>2
    <2>5. /\ syncs'[id].real = 0
          /\ \A j \in Ids : j # id => syncs'[j] = syncs[j]
      BY <1>2, <2>2 DEF TypeOK, NULL
    <2> HIDE DEF id, old
    <2>6. old = syncs[id].real
      BY DEF old
    <2>7. DOMAIN objs' = DOMAIN objs \cup ({0} \ {NULL})
      BY <2>4 DEF NULL
    <2>8. 0 \in Nat /\ ~(0 # NULL)
      BY DEF NULL
    <2> QED
      BY <1>1, <1>2, <2>1, <2>2, <2>4, <2>5, <2>6, <2>7, <2>8, TakenOver
  <1> QED
    BY <1>3, <1>4

(* One round of the loop: an adopted object is deleted with its entry.     *)
LEMMA ResolveOwner ==
  ASSUME OneShareGroup, TypeOK, OwnerInv, ResolveOne
  PROVE  OwnerInv'
  <1> DEFINE r == resolved + 1
             s == g_def[r].s
  <1>1. r \in DOMAIN g_def /\ s \in DOMAIN objs /\ CmdGrp \in Groups
    BY ResolveFacts
  <1>2. /\ g_def \in Seq(Deferred) /\ Len(g_def) \in Nat /\ resolved \in Nat
        /\ DOMAIN g_def = 1 .. Len(g_def)
    BY DEF TypeOK
  <1>3. /\ UNCHANGED <<ring, syncs>>
        /\ objs' = IF g_def[r].owned THEN GLDelete(objs, s, CmdGrp) ELSE objs
        /\ \/ g_def' = <<>> /\ resolved' = 0 /\ r = Len(g_def)
           \/ UNCHANGED g_def /\ resolved' = r
    BY DEF ResolveOne
  <1>4. objs[s].grp = CmdGrp
    <2>1. objs[s] \in SyncObj
      BY <1>1 DEF TypeOK
    <2> QED
      BY <1>1, <2>1 DEF OneShareGroup, SyncObj
  <1>5. /\ DOMAIN objs' = DOMAIN objs
        /\ \A i \in DOMAIN objs :
             /\ objs'[i].h = objs[i].h
             /\ objs'[i].live <=> objs[i].live /\ ~(i = s /\ g_def[r].owned)
    <2>1. CASE g_def[r].owned
      <3>1. objs' = GLDelete(objs, s, CmdGrp)
        BY <1>3, <2>1
      <3>2. /\ DOMAIN objs' = DOMAIN objs
            /\ \A i \in DOMAIN objs :
                 /\ objs'[i].h = objs[i].h
                 /\ objs'[i].live =
                      (objs[i].live /\ ~(i = s /\ objs[s].grp = CmdGrp))
        <4> HIDE DEF s
        <4> QED
          BY <1>1, <3>1, DeleteFacts
      <3> QED
        BY <1>4, <2>1, <3>2
    <2>2. CASE ~g_def[r].owned
      BY <1>3, <2>2
    <2> QED
      BY <2>1, <2>2
  <1>6. \A d \in DOMAIN g_def : /\ g_def[d].s \in DOMAIN objs
                               /\ objs[g_def[d].s].h = g_def[d].handle
                               /\ \A f \in DOMAIN g_def :
                                    g_def[f].s = g_def[d].s => f = d
    BY DEF OwnerInv, ListInv
  <1>7. TableInv'
    BY <1>3, <1>5 DEF OwnerInv, TableInv
  <1>8. ListInv'
    <2>1. UNCHANGED g_def => MustResolve'
      BY <1>3 DEF ResolveOne, MustResolve, Defers, Running, Cmd, Found, Waiting
    <2> QED
      BY <1>3, <1>5, <1>6, <2>1 DEF ListInv
  <1>9. resolved' + 1 .. Len(g_def') = (resolved + 1 .. Len(g_def)) \ {r}
    <2>1. CASE g_def' = <<>> /\ resolved' = 0 /\ r = Len(g_def)
      <3>1. Len(g_def') = 0
        BY <2>1
      <3> QED
        BY <1>2, <2>1, <3>1
    <2>2. CASE UNCHANGED g_def /\ resolved' = r
      BY <1>2, <2>2
    <2> QED
      BY <1>3, <2>1, <2>2
  <1>10. \A d \in resolved' + 1 .. Len(g_def') :
           /\ g_def'[d] = g_def[d] /\ g_def[d].s # s /\ d \in DOMAIN g_def
           /\ d \in resolved + 1 .. Len(g_def)
    <2>1. CASE g_def' = <<>> /\ resolved' = 0
      BY <2>1
    <2>2. CASE UNCHANGED g_def /\ resolved' = r
      BY <1>1, <1>2, <1>6, <2>2
    <2> QED
      BY <1>3, <2>1, <2>2
  <1>11. ASSUME NEW i \in DOMAIN objs'
         PROVE  /\ objs'[i].live <=> InTable(i)' \/ InList(i)'
                /\ ~(InTable(i)' /\ InList(i)')
    <2>1. /\ objs[i].live <=> InTable(i) \/ InList(i)
          /\ ~(InTable(i) /\ InList(i))
      BY <1>5 DEF OwnerInv, OneOwner
    <2>2. InTable(i)' <=> InTable(i)
      BY <1>3, <1>5 DEF InTable
    <2>3. InList(i) <=> InList(i)' \/ (i = s /\ g_def[r].owned)
      <3>1. r \in resolved + 1 .. Len(g_def)
        BY <1>1, <1>2
      <3> QED
        BY <1>9, <1>10, <3>1 DEF InList
    <2>4. i = s => ~InList(i)'
      BY <1>10 DEF InList
    <2>5. objs'[i].live <=> objs[i].live /\ ~(i = s /\ g_def[r].owned)
      BY <1>5
    <2> QED
      BY <2>1, <2>2, <2>3, <2>4, <2>5
  <1>12. ASSUME NEW d \in resolved' + 1 .. Len(g_def')
         PROVE  objs'[g_def'[d].s].live
    <2>1. /\ g_def'[d].s = g_def[d].s /\ g_def[d].s # s
          /\ g_def[d].s \in DOMAIN objs /\ d \in resolved + 1 .. Len(g_def)
      BY <1>6, <1>10
    <2> QED
      BY <1>5, <2>1 DEF OwnerInv, OneOwner
  <1>13. OneOwner'
    BY <1>11, <1>12 DEF OneOwner
  <1> QED
    BY <1>7, <1>8, <1>13 DEF OwnerInv

LEMMA ProxyOwner ==
  ASSUME OneShareGroup, TypeOK, OwnerInv, Proxy
  PROVE  OwnerInv'
  <1>1. CASE RunFence \/ RunDelete \/ ResolveOne \/ RunDefer
    BY <1>1, FenceOwner, DeleteOwner, ResolveOwner, DeferOwner
  <1>2. CASE /\ ~ResolveOne
             /\ \/ RunFenceRefused \/ RunWaitSignaled \/ RunWaitExpired
                \/ RunWaitFailed \/ RunTouch
    <2>1. UNCHANGED <<syncs, g_def, resolved, objs>>
      BY <1>2 DEF RunFenceRefused, RunWaitSignaled, RunWaitExpired,
         RunWaitFailed, RunTouch, proxyVars
    <2>2. resolved = 0
      BY <1>2, NotResolving DEF OwnerInv
    <2> QED
      BY <2>1, <2>2, OwnerKeep
  <1> QED
    BY <1>1, <1>2 DEF Proxy

-----------------------------------------------------------------------------
(* What is reported signaled is signaled *)

(* A fence that is signaled stays so: no later fence takes its handle.     *)
LEMMA SignaledStays ==
  ASSUME TypeOK, HandleInv, Next, NEW h, Signaled(h)
  PROVE  Signaled(h)'
  <1>1. CASE RunFence
    <2>1. /\ DOMAIN objs' = DOMAIN objs \cup {Len(objs) + 1}
          /\ objs'[Len(objs) + 1].h = ring[1].h /\ 1 \in FenceCmds
          /\ \A i \in DOMAIN objs :
               objs'[i].h = objs[i].h /\ objs'[i].signaled = objs[i].signaled
      <3>1. objs'[Len(objs) + 1].h = Cmd.h
        BY <1>1, FenceFacts
      <3> QED
        BY <1>1, <3>1, FenceFacts
    <2>2. ObjsOf(ring[1].h) = {}
      BY <2>1 DEF HandleInv, CmdInv
    <2>3. h # ring[1].h
      BY <2>2 DEF Signaled
    <2>4. ObjsOf(h)' = ObjsOf(h)
      BY <2>1, <2>3 DEF ObjsOf
    <2> QED
      BY <2>1, <2>4 DEF Signaled, ObjsOf
  <1>2. CASE SameFences
    BY <1>2, SameFencesKeep
  <1>3. RunFence \/ SameFences
    <2>1. CASE Proxy
      BY <2>1, ProxySame
    <2>2. ASSUME NEW t \in Threads, Thread(t) PROVE SameFences
      <3>1. UNCHANGED objs
        BY <2>2 DEF Thread, FenceAlloc, FenceSend, TouchSend, DeleteFree,
           WaitSend, WaitCheck, DeleteSend, proxyVars
      <3> QED
        BY <3>1 DEF SameFences
    <2>3. ASSUME NEW i \in DOMAIN objs, Signal(i) PROVE SameFences
      BY <2>3, SignalFacts DEF SameFences
    <2> QED
      BY <2>1, <2>2, <2>3 DEF Next
  <1> QED
    BY <1>1, <1>2, <1>3

(* The handle found in the table and an entry of the list name one object. *)
LEMMA OnlyObject ==
  ASSUME HandleInv, NEW i \in DOMAIN objs, objs[i].signaled
  PROVE  Signaled(objs[i].h)
  BY DEF HandleInv, MadeInv, Signaled, ObjsOf

(* proxy_resolve_deferred_waits() really waits, for an object that lives.  *)
LEMMA ResolveSignaled ==
  ASSUME OneShareGroup, TypeOK, HandleInv, OwnerInv, ResolveOne
  PROVE  Signaled(g_def[resolved + 1].handle)
  <1> DEFINE d == g_def[resolved + 1]
  <1>1. resolved + 1 \in DOMAIN g_def /\ d.s \in DOMAIN objs
        /\ CmdGrp \in Groups
    BY ResolveFacts
  <1>2. objs[d.s].live /\ objs[d.s].h = d.handle
    BY <1>1 DEF OwnerInv, OneOwner, ListInv, TypeOK
  <1>3. objs[d.s].grp = CmdGrp
    <2>1. objs[d.s] \in SyncObj
      BY <1>1 DEF TypeOK
    <2> QED
      BY <1>1, <2>1 DEF OneShareGroup, SyncObj
  <1>4. objs[d.s].signaled
    BY <1>2, <1>3 DEF ResolveOne, Usable
  <1> QED
    BY <1>1, <1>2, <1>4, OnlyObject

LEMMA WaitSignaled ==
  ASSUME TypeOK, HandleInv, OwnerInv, RunWaitSignaled
  PROVE  Signaled(Cmd.h)
  <1>1. Cmd.h \in Handle /\ Cmd.h.id \in Ids
    BY CmdFacts DEF RunWaitSignaled
  <1>2. Found(Cmd.h) /\ objs[syncs[Cmd.h.id].real].signaled
    BY DEF RunWaitSignaled
  <1>3. /\ syncs[Cmd.h.id].real \in DOMAIN objs
        /\ objs[syncs[Cmd.h.id].real].h = Cmd.h
    BY <1>1, <1>2 DEF Found, OwnerInv, TableInv, Handle
  <1> QED
    BY <1>2, <1>3, OnlyObject

(* A step keeps what the shared table says true ...                        *)
LEMMA DoneKept ==
  ASSUME OneShareGroup, TypeOK, HandleInv, OwnerInv, DoneInv, Next
  PROVE  DoneInv'
  <1>1. ASSUME UNCHANGED sync_done_gen PROVE DoneInv'
    <2> SUFFICES ASSUME NEW id \in Ids, sync_done_gen'[id] # 0
                 PROVE  Signaled([id |-> id, gen |-> sync_done_gen[id]])'
      BY DEF DoneInv
    <2>1. PICK h : h = [id |-> id, gen |-> sync_done_gen[id]]
      OBVIOUS
    <2>2. Signaled(h)
      BY <1>1, <2>1 DEF DoneInv
    <2>3. Signaled(h)'
      BY <2>2, SignaledStays
    <2>4. h = [id |-> id, gen |-> sync_done_gen'[id]]
      BY <1>1, <2>1
    <2> QED
      BY <2>3, <2>4 DEF Signaled, ObjsOf
  <1>2. ASSUME NEW g \in Handle, Signaled(g), MarkDone(g) PROVE DoneInv'
    <2> SUFFICES ASSUME NEW id \in Ids, sync_done_gen'[id] # 0
                 PROVE  Signaled([id |-> id, gen |-> sync_done_gen[id]])'
      BY DEF DoneInv
    <2>1. PICK h : h = [id |-> id, gen |-> sync_done_gen'[id]]
      OBVIOUS
    <2>2. Signaled(h)
      <3>1. CASE id = g.id
        BY <1>2, <2>1, <3>1 DEF MarkDone, TypeOK, Handle
      <3>2. CASE id # g.id
        <4>1. sync_done_gen'[id] = sync_done_gen[id]
          BY <1>2, <3>2 DEF MarkDone, TypeOK
        <4> QED
          BY <2>1, <4>1 DEF DoneInv
      <3> QED
        BY <3>1, <3>2
    <2>3. Signaled(h)'
      BY <2>2, SignaledStays
    <2> QED
      BY <2>1, <2>3 DEF Signaled, ObjsOf
  <1>3. CASE ResolveOne
    <2>1. g_def[resolved + 1].handle \in Handle
      BY <1>3, ResolveFacts
    <2> QED
      BY <1>2, <1>3, <2>1, ResolveSignaled DEF ResolveOne
  <1>4. CASE RunWaitSignaled
    <2>1. Cmd.h \in Handle
      BY <1>4, CmdFacts DEF RunWaitSignaled
    <2> QED
      BY <1>2, <1>4, <2>1, WaitSignaled DEF RunWaitSignaled
  <1>5. CASE ~ResolveOne /\ ~RunWaitSignaled
    BY <1>1, <1>5 DEF Next, Proxy, Thread, Signal, RunFence, RunFenceRefused,
       RunDefer, RunWaitExpired, RunWaitFailed, RunDelete, RunTouch,
       FenceAlloc, FenceSend, TouchSend, DeleteFree, WaitSend, WaitCheck,
       DeleteSend, proxyVars
  <1> QED
    BY <1>3, <1>4, <1>5

(* ... and reports only what it says, or what the proxy just waited for.   *)
LEMMA ReportsKept ==
  ASSUME TypeOK, HandleInv, OwnerInv, DoneInv, ReportsAreTrue, Next
  PROVE  ReportsAreTrue'
  <1>1. \A h \in reported' \ reported : Signaled(h)
    <2>1. CASE RunWaitSignaled
      BY <2>1, WaitSignaled DEF RunWaitSignaled
    <2>2. ASSUME NEW t \in Threads, NEW h \in held[Mine(t)], WaitCheck(t, h)
          PROVE  \A g \in reported' \ reported : Signaled(g)
      <3>1. CASE SyncDone(h) /\ reported' = reported \cup {h}
        <4>1. Mine(t) \in Groups
          BY SyncAssumption DEF Mine
        <4>2. h \in Handle /\ h.gen # 0
          BY <4>1 DEF HandleInv, MadeInv, Issued
        <4>3. Signaled(h)
          BY <3>1, <4>2 DEF SyncDone, DoneInv, Handle
        <4> QED
          BY <3>1, <4>3
      <3>2. CASE UNCHANGED reported
        BY <3>2
      <3> QED
        BY <2>2, <3>1, <3>2 DEF WaitCheck
    <2>3. CASE /\ ~RunWaitSignaled
               /\ \A t \in Threads : \A h \in held[Mine(t)] : ~WaitCheck(t, h)
      <3>1. UNCHANGED reported
        BY <2>3 DEF Next, Proxy, Thread, Signal, RunFence, RunFenceRefused,
           RunDefer, RunWaitExpired, RunWaitFailed, RunDelete, RunTouch,
           ResolveOne, FenceAlloc, FenceSend, TouchSend, DeleteFree,
           WaitSend, DeleteSend
      <3> QED
        BY <3>1
    <2> QED
      BY <2>1, <2>2, <2>3
  <1>2. \A h \in reported' : Signaled(h)
    BY <1>1 DEF ReportsAreTrue
  <1>3. ASSUME NEW h \in reported' PROVE Signaled(h)'
    BY <1>2, SignaledStays
  <1> QED
    BY <1>3 DEF ReportsAreTrue

-----------------------------------------------------------------------------
(* The order of the commands *)

(* The ring after a send, as SendFacts, with the rest of the command.      *)
LEMMA SendRing ==
  ASSUME TypeOK, NEW t \in Threads, NEW op, NEW h, NEW mode, NEW after,
         Send(t, op, h, mode, after),
         \/ /\ op \in {"fence", "wait", "delete"} /\ h \in Handle
            /\ mode \in Modes \cup {"none"} /\ after = {}
         \/ /\ op = "touch" /\ h = NoFence /\ mode = "none"
            /\ after \in SUBSET Handle
  PROVE  /\ Len(ring') = Len(ring) + 1
         /\ ring'[Len(ring) + 1].mode = mode
         /\ ring'[Len(ring) + 1].after = after
  <1> DEFINE e == [op |-> op, h |-> h, mode |-> mode, by |-> t,
                   after |-> after]
  <1>1. e \in Command
    BY DEF Command
  <1>2. ring \in Seq(Command) /\ ring' = Append(ring, e)
    BY DEF Send, TypeOK
  <1>3. e.mode = mode /\ e.after = after
    OBVIOUS
  <1> HIDE DEF e
  <1> QED
    BY <1>1, <1>2, <1>3, AppendFacts

(* The ring after its first command has run, as PopFacts, every command.   *)
LEMMA PopRing ==
  ASSUME TypeOK, ring # <<>>, Pop
  PROVE  /\ Len(ring) \in Nat \ {0} /\ DOMAIN ring = 1 .. Len(ring)
         /\ Len(ring') = Len(ring) - 1 /\ DOMAIN ring' = 1 .. Len(ring) - 1
         /\ \A k \in DOMAIN ring' : ring'[k] = ring[k + 1]
  <1>1. /\ ring \in Seq(Command) /\ ring' = Tail(ring) /\ ring # <<>>
    BY DEF TypeOK, Pop
  <1> QED
    BY <1>1

(* What the ring holds does not change while commands are added behind it. *)
Grows == /\ DOMAIN ring = 1 .. Len(ring) /\ Len(ring) \in Nat
         /\ \/ UNCHANGED ring
            \/ DOMAIN ring' = 1 .. Len(ring) + 1
         /\ \A k \in DOMAIN ring : ring'[k] = ring[k]

LEMMA FindsKept ==
  ASSUME Grows, UNCHANGED <<refused, syncs>>, NEW h,
         NEW n \in 1 .. Len(ring) + 1, Finds(h, n)
  PROVE  Finds(h, n)'
  <1>1. \A l \in IdCmds' : l < n => l \in IdCmds /\ ring'[l] = ring[l]
    BY DEF Grows, IdCmds
  <1>2. ASSUME NEW m, Undisturbed(h, m, n) PROVE Undisturbed(h, m, n)'
    BY <1>1, <1>2 DEF Undisturbed
  <1>3. CASE h \in refused
    BY <1>3 DEF Finds
  <1>4. CASE Found(h) /\ Undisturbed(h, 0, n)
    BY <1>2, <1>4 DEF Finds, Found
  <1>5. ASSUME NEW k \in FenceCmds, k < n, ring[k].h = h, Undisturbed(h, k, n)
        PROVE  Finds(h, n)'
    <2>1. k \in FenceCmds' /\ ring'[k].h = h
      BY <1>5 DEF FenceCmds, Grows
    <2>2. Undisturbed(h, k, n)'
      BY <1>2, <1>5
    <2> QED
      BY <1>5, <2>1, <2>2 DEF Finds
  <1> QED
    BY <1>3, <1>4, <1>5 DEF Finds

(* What running the first command does to the table of the proxy.          *)
LEMMA PopTable ==
  ASSUME TypeOK, Proxy, ring' # ring
  PROVE  /\ ring # <<>> /\ Pop /\ Running # "none"
         /\ refused \subseteq refused'
         /\ Running \notin {"fence", "delete"} => UNCHANGED syncs
         /\ \A h : Running = "fence" /\ h = Cmd.h => h \in refused' \/ Found(h)'
         /\ \A id \in Ids : id # Cmd.h.id => syncs'[id] = syncs[id]
  <1>1. ring # <<>> /\ Pop
    BY ProxySame
  <1>2. Running # "none"
    <2>1. Cmd \in Command
      BY <1>1, TailFacts DEF TypeOK, Cmd
    <2> QED
      BY <1>1, <2>1 DEF Running, Command
  <1>3. CASE RunFence
    <2>1. /\ Running = "fence" /\ UNCHANGED refused
          /\ syncs' = [syncs EXCEPT ![Cmd.h.id] =
                         [real |-> Len(objs) + 1, gen |-> Cmd.h.gen]]
      BY <1>3 DEF RunFence
    <2>2. Cmd.h \in Handle /\ Cmd.h.id \in Ids /\ Len(objs) \in Nat
      BY <2>1, CmdFacts DEF TypeOK
    <2>3. syncs'[Cmd.h.id] = [real |-> Len(objs) + 1, gen |-> Cmd.h.gen]
          /\ \A id \in Ids : id # Cmd.h.id => syncs'[id] = syncs[id]
      BY <2>1, <2>2 DEF TypeOK
    <2>4. \A h : h = Cmd.h => Found(h)'
      BY <2>2, <2>3 DEF Found, NULL
    <2> QED
      BY <1>1, <1>2, <2>1, <2>3, <2>4
  <1>4. CASE RunFenceRefused
    BY <1>1, <1>2, <1>4 DEF RunFenceRefused
  <1>5. CASE RunDelete
    <2>1. Running = "delete" /\ UNCHANGED refused
      BY <1>5 DEF RunDelete
    <2>2. Cmd.h.id \in Ids
      BY <2>1, CmdFacts
    <2>3. \A id \in Ids : id # Cmd.h.id => syncs'[id] = syncs[id]
      BY <1>5, <2>2 DEF RunDelete, TypeOK
    <2> QED
      BY <1>1, <1>2, <2>1, <2>3
  <1>6. CASE RunDefer \/ RunWaitSignaled \/ RunWaitExpired \/ RunWaitFailed
               \/ RunTouch
    <2>1. /\ UNCHANGED <<syncs, refused>> /\ Running # "fence"
      BY <1>6 DEF RunDefer, Defers, RunWaitSignaled, RunWaitExpired,
         RunWaitFailed, RunTouch, proxyVars
    <2> QED
      BY <1>1, <1>2, <2>1
  <1>7. CASE ResolveOne
    BY <1>7 DEF ResolveOne
  <1> QED
    BY <1>3, <1>4, <1>5, <1>6, <1>7 DEF Proxy

(* When the first command has run, the others find what they would have    *)
(* found: a fence it made is in the table, and no other was touched.       *)
LEMMA FindsPopped ==
  ASSUME TypeOK, Proxy, ring' # ring, NEW h \in Handle,
         NEW n \in 1 .. Len(ring), Finds(h, n + 1)
  PROVE  Finds(h, n)'
  <1>1. /\ ring # <<>> /\ Pop /\ Running # "none"
        /\ refused \subseteq refused'
        /\ Running \notin {"fence", "delete"} => UNCHANGED syncs
        /\ \A x : Running = "fence" /\ x = Cmd.h => x \in refused' \/ Found(x)'
        /\ \A id \in Ids : id # Cmd.h.id => syncs'[id] = syncs[id]
    BY PopTable
  <1>2. /\ Len(ring) \in Nat \ {0} /\ DOMAIN ring = 1 .. Len(ring)
        /\ DOMAIN ring' = 1 .. Len(ring) - 1
        /\ \A k \in DOMAIN ring' : ring'[k] = ring[k + 1]
    BY <1>1, PopRing
  <1>3. h.id \in Ids
    BY DEF Handle
  <1>4. /\ Cmd = ring[1] /\ Running = ring[1].op /\ 1 \in DOMAIN ring
    BY <1>1, <1>2 DEF Cmd, Running
  <1>5. \A l \in IdCmds' : l + 1 \in IdCmds /\ ring'[l] = ring[l + 1] /\ l \in Nat
    BY <1>2 DEF IdCmds
  <1>6. ASSUME NEW m \in Nat, Undisturbed(h, m, n + 1), m # 0
        PROVE  Undisturbed(h, m - 1, n)'
    <2> SUFFICES ASSUME NEW l \in IdCmds', m - 1 < l, l < n
                 PROVE  ring'[l].h.id # h.id
      BY DEF Undisturbed
    <2>1. l + 1 \in IdCmds /\ ring'[l] = ring[l + 1] /\ m < l + 1 /\ l + 1 < n + 1
      BY <1>5, <1>6
    <2> QED
      BY <1>6, <2>1 DEF Undisturbed
  <1>7. ASSUME Undisturbed(h, 0, n + 1)
        PROVE  Undisturbed(h, 0, n)' /\ (1 \in IdCmds => ring[1].h.id # h.id)
    <2>1. Undisturbed(h, 0, n)'
      <3> SUFFICES ASSUME NEW l \in IdCmds', 0 < l, l < n
                   PROVE  ring'[l].h.id # h.id
        BY DEF Undisturbed
      <3>1. l + 1 \in IdCmds /\ ring'[l] = ring[l + 1] /\ 0 < l + 1 /\ l + 1 < n + 1
        BY <1>5
      <3> QED
        BY <1>7, <3>1 DEF Undisturbed
    <2> QED
      BY <1>7, <2>1 DEF Undisturbed
  <1>8. CASE h \in refused
    BY <1>1, <1>8 DEF Finds
  <1>9. CASE Found(h) /\ Undisturbed(h, 0, n + 1)
    <2>1. syncs'[h.id] = syncs[h.id]
      <3>1. CASE 1 \in IdCmds
        BY <1>1, <1>3, <1>4, <1>7, <1>9, <3>1
      <3>2. CASE 1 \notin IdCmds
        BY <1>1, <1>4, <3>2 DEF IdCmds
      <3> QED
        BY <3>1, <3>2
    <2>2. Found(h)'
      BY <1>9, <2>1 DEF Found
    <2> QED
      BY <1>7, <1>9, <2>2 DEF Finds
  <1>10. ASSUME NEW k \in FenceCmds, k < n + 1, ring[k].h = h,
                Undisturbed(h, k, n + 1)
         PROVE  Finds(h, n)'
    <2>1. k \in 1 .. Len(ring) /\ ring[k].op = "fence"
      BY <1>2 DEF FenceCmds
    <2>2. CASE k = 1
      <3>1. Undisturbed(h, 0, n)'
        BY <1>6, <1>10, <2>2
      <3>2. h \in refused' \/ Found(h)'
        BY <1>1, <1>4, <1>10, <2>1, <2>2
      <3> QED
        BY <3>1, <3>2 DEF Finds
    <2>3. CASE k # 1
      <3>1. k - 1 \in DOMAIN ring' /\ ring'[k - 1] = ring[k]
        BY <1>2, <2>1, <2>3
      <3>2. k - 1 \in FenceCmds' /\ ring'[k - 1].h = h /\ k - 1 < n
        BY <1>10, <2>1, <3>1 DEF FenceCmds
      <3>3. Undisturbed(h, k - 1, n)'
        BY <1>6, <1>10, <2>1
      <3> QED
        BY <3>2, <3>3 DEF Finds
    <2> QED
      BY <2>2, <2>3
  <1> QED
    BY <1>8, <1>9, <1>10 DEF Finds

(* A step of the proxy leaves the users of the ids alone.                  *)
LEMMA ProxyOrder ==
  ASSUME TypeOK, OrderInv, Proxy
  PROVE  OrderInv'
  <1>1. /\ UNCHANGED <<stubVars, hand, held>>
        /\ \A t \in Threads : pc'[t] = pc[t] \/ pc'[t] = "idle"
    <2>1. ASSUME Answer PROVE \A t \in Threads : pc'[t] = pc[t] \/ pc'[t] = "idle"
      BY <2>1 DEF Answer, TypeOK
    <2> QED
      BY <2>1 DEF Proxy, RunFence, RunFenceRefused, RunDefer, RunWaitSignaled,
         RunWaitExpired, RunWaitFailed, RunDelete, RunTouch, ResolveOne,
         stubVars, proxyVars
  <1>2. UserInv'
    BY <1>1 DEF OrderInv, UserInv, Uses, Mine, stubVars
  <1>3. CASE ring' # ring
    <2>1. /\ Len(ring) \in Nat \ {0} /\ DOMAIN ring = 1 .. Len(ring)
          /\ Len(ring') = Len(ring) - 1 /\ DOMAIN ring' = 1 .. Len(ring) - 1
          /\ \A k \in DOMAIN ring' : ring'[k] = ring[k + 1]
      BY <1>3, PopTable, PopRing
    <2>2. ASSUME NEW g \in Groups, NEW h \in held'[g]
          PROVE  Finds(h, Len(ring) + 1)'
      <3>1. h \in held[g] /\ h \in Handle
        BY <1>1 DEF TypeOK
      <3>2. Finds(h, Len(ring) + 1)
        BY <3>1 DEF OrderInv, FoundInv
      <3>3. PICK n : n = Len(ring) /\ n \in 1 .. Len(ring)
        <4>1. Len(ring) \in 1 .. Len(ring)
          BY <2>1
        <4> QED
          BY <4>1
      <3>4. Finds(h, n)'
        BY <1>3, <3>1, <3>2, <3>3, FindsPopped
      <3> QED
        BY <2>1, <3>3, <3>4
    <2>3. ASSUME NEW k \in DOMAIN ring', Deferring(k)'
          PROVE  Finds(ring[k].h, k)'
      <3>1. /\ k + 1 \in DOMAIN ring /\ ring'[k] = ring[k + 1] /\ Deferring(k + 1)
            /\ k \in 1 .. Len(ring)
        BY <2>1, <2>3 DEF Deferring
      <3>2. PICK h : h = ring[k + 1].h
        OBVIOUS
      <3>3. h \in Handle
        <4>1. ring[k + 1] \in Command
          BY <3>1 DEF TypeOK
        <4> QED
          BY <3>1, <3>2, <4>1 DEF Command, Deferring
      <3>4. Finds(h, k + 1)
        BY <3>1, <3>2 DEF OrderInv, FoundInv
      <3>5. Finds(h, k)'
        BY <1>3, <3>1, <3>3, <3>4, FindsPopped
      <3> QED
        BY <3>1, <3>2, <3>5
    <2> QED
      BY <1>2, <2>2, <2>3 DEF OrderInv, FoundInv
  <1>4. CASE ring' = ring
    <2>1. UNCHANGED <<refused, syncs>>
      <3>1. Running # "none" => ~Pop
        BY <1>4 DEF Pop, TypeOK, Running
      <3> QED
        BY <3>1 DEF Proxy, RunFence, RunFenceRefused, RunDefer, Defers,
           RunWaitSignaled, RunWaitExpired, RunWaitFailed, RunDelete, RunTouch,
           ResolveOne
    <2>2. FoundInv'
      BY <1>1, <1>4, <2>1 DEF OrderInv, FoundInv, Finds, Found, Deferring,
         FenceCmds, Undisturbed, IdCmds
    <2> QED
      BY <1>2, <2>2 DEF OrderInv
  <1> QED
    BY <1>3, <1>4

(* The commands of the stub go behind those that are there.                *)
LEMMA StubGrows ==
  ASSUME TypeOK, NEW t \in Threads, Thread(t)
  PROVE  Grows /\ UNCHANGED proxyVars
  <1>1. UNCHANGED proxyVars
    BY DEF Thread, FenceAlloc, FenceSend, TouchSend, DeleteFree, WaitSend,
       WaitCheck, DeleteSend
  <1>2. DOMAIN ring = 1 .. Len(ring) /\ Len(ring) \in Nat
    BY DEF TypeOK
  <1>3. CASE UNCHANGED ring
    BY <1>1, <1>2, <1>3 DEF Grows
  <1>4. ASSUME NEW e, ring' = Append(ring, e) PROVE Grows
    BY <1>2, <1>4 DEF Grows, TypeOK
  <1>5. UNCHANGED ring \/ \E e : ring' = Append(ring, e)
    BY DEF Thread, FenceAlloc, FenceSend, TouchSend, DeleteFree, WaitSend,
       WaitCheck, DeleteSend, Send
  <1> QED
    BY <1>1, <1>3, <1>4, <1>5

(* The commands before the new one find what they would have found.        *)
LEMMA StubFinds ==
  ASSUME TypeOK, FoundInv, NEW t \in Threads, Thread(t)
  PROVE  /\ \A k \in DOMAIN ring : Deferring(k) => Finds(ring[k].h, k)'
         /\ \A g \in Groups : \A h \in held[g] :
              \A n : n = Len(ring) + 1 => Finds(h, n)'
  <1>1. Grows /\ UNCHANGED <<refused, syncs>>
    BY StubGrows DEF proxyVars
  <1>2. ASSUME NEW k \in DOMAIN ring, Deferring(k) PROVE Finds(ring[k].h, k)'
    <2>1. PICK h : h = ring[k].h
      OBVIOUS
    <2>2. Finds(h, k) /\ k \in 1 .. Len(ring) + 1
      BY <1>1, <1>2, <2>1 DEF FoundInv, Grows
    <2>3. Finds(h, k)'
      BY <1>1, <2>2, FindsKept
    <2> QED
      BY <1>1, <2>1, <2>3 DEF Grows
  <1>3. ASSUME NEW g \in Groups, NEW h \in held[g], NEW n, n = Len(ring) + 1
        PROVE  Finds(h, n)'
    <2>1. Finds(h, n) /\ n \in 1 .. Len(ring) + 1
      BY <1>1, <1>3 DEF FoundInv, Grows
    <2> QED
      BY <1>1, <2>1, FindsKept
  <1> QED
    BY <1>2, <1>3

(* A send by which the application gets no new fence.                      *)
LEMMA SendFinds ==
  ASSUME TypeOK, FoundInv, NEW t \in Threads, Thread(t), NEW op, NEW x,
         NEW mode, NEW after, Send(t, op, x, mode, after),
         \/ /\ op \in {"fence", "wait", "delete"} /\ x \in Handle
            /\ mode \in Modes \cup {"none"} /\ after = {}
         \/ /\ op = "touch" /\ x = NoFence /\ mode = "none"
            /\ after \in SUBSET Handle,
         \A n : op = "wait" /\ mode = "defer" /\ n = Len(ring) + 1 => Finds(x, n)',
         \A g \in Groups : \A h \in held'[g] :
           \/ h \in held[g] /\ (op \in {"fence", "delete"} => x.id # h.id)
           \/ op = "fence" /\ h = x
  PROVE  FoundInv'
  <1>1. /\ Len(ring) \in Nat /\ DOMAIN ring = 1 .. Len(ring)
        /\ DOMAIN ring' = 1 .. Len(ring) + 1 /\ Len(ring') = Len(ring) + 1
        /\ ring'[Len(ring) + 1].op = op /\ ring'[Len(ring) + 1].h = x
        /\ ring'[Len(ring) + 1].mode = mode
        /\ \A k \in DOMAIN ring : ring'[k] = ring[k]
    BY SendFacts, SendRing
  <1>2. ASSUME NEW k \in DOMAIN ring', Deferring(k)'
        PROVE  Finds(ring[k].h, k)'
    <2>1. CASE k \in DOMAIN ring
      <3>1. Deferring(k)
        BY <1>1, <1>2, <2>1 DEF Deferring
      <3> QED
        BY <2>1, <3>1, StubFinds
    <2>2. CASE k = Len(ring) + 1
      BY <1>1, <1>2, <2>2 DEF Deferring
    <2> QED
      BY <1>1, <2>1, <2>2
  <1>3. ASSUME NEW h, NEW n, n = Len(ring) + 1, Finds(h, n)',
               op \in {"fence", "delete"} => x.id # h.id
        PROVE  Finds(h, n + 1)'
    <2>1. ASSUME NEW m, Undisturbed(h, m, n)' PROVE Undisturbed(h, m, n + 1)'
      BY <1>1, <1>3, <2>1 DEF Undisturbed, IdCmds
    <2> QED
      BY <1>1, <1>3, <2>1 DEF Finds, FenceCmds
  <1>4. ASSUME NEW g \in Groups, NEW h \in held'[g]
        PROVE  Finds(h, Len(ring) + 1)'
    <2>1. PICK n : n = Len(ring) + 1
      OBVIOUS
    <2>2. CASE h \in held[g] /\ (op \in {"fence", "delete"} => x.id # h.id)
      <3>1. Finds(h, n)'
        BY <2>1, <2>2, StubFinds
      <3>2. Finds(h, n + 1)'
        BY <1>3, <2>1, <2>2, <3>1
      <3> QED
        BY <1>1, <2>1, <3>2
    <2>3. CASE op = "fence" /\ h = x
      <3>1. n \in FenceCmds' /\ ring'[n].h = h
        BY <1>1, <2>1, <2>3 DEF FenceCmds
      <3>2. Undisturbed(h, n, n + 1)'
        BY <1>1, <2>1 DEF Undisturbed, IdCmds
      <3>3. Finds(h, n + 1)'
        BY <1>1, <2>1, <3>1, <3>2 DEF Finds
      <3> QED
        BY <1>1, <2>1, <3>3
    <2> QED
      BY <1>4, <2>2, <2>3
  <1> QED
    BY <1>2, <1>4 DEF FoundInv

LEMMA QuietFinds ==
  ASSUME TypeOK, FoundInv, NEW t \in Threads, Thread(t), UNCHANGED <<ring, held>>
  PROVE  FoundInv'
  <1>1. ASSUME NEW k \in DOMAIN ring', Deferring(k)'
        PROVE  Finds(ring[k].h, k)'
    BY <1>1, StubFinds DEF Deferring
  <1>2. ASSUME NEW g \in Groups, NEW h \in held'[g]
        PROVE  Finds(h, Len(ring) + 1)'
    <2>1. PICK n : n = Len(ring) + 1
      OBVIOUS
    <2>2. Finds(h, n)'
      BY <2>1, StubFinds
    <2> QED
      BY <2>1, <2>2
  <1> QED
    BY <1>1, <1>2 DEF FoundInv

(* bridge_sync_alloc() gives an id nobody uses, bridge_sync_free() takes   *)
(* back one that only its thread uses.                                     *)
LEMMA StubOrder ==
  ASSUME TypeOK, OrderInv, NEW t \in Threads, Thread(t)
  PROVE  OrderInv'
  <1>0. Mine(t) \in Groups /\ FoundInv /\ UserInv
        /\ \A u \in Threads : Mine(u) \in Groups
    BY SyncAssumption DEF Mine, OrderInv
  <1>1. CASE FenceAlloc(t)
    <2>1. PICK id \in Ids \ g_sync_used :
            /\ g_sync_used' = g_sync_used \cup {id}
            /\ hand' = [hand EXCEPT ![t] = [id |-> id, gen |-> NextGen]]
      BY <1>1 DEF FenceAlloc, NextFit
    <2>2. /\ pc[t] = "idle" /\ pc' = [pc EXCEPT ![t] = "fence"]
          /\ UNCHANGED <<ring, held>>
      BY <1>1 DEF FenceAlloc, Goto
    <2>3. /\ hand'[t].id = id /\ pc'[t] = "fence"
          /\ \A u \in Threads : u # t => hand'[u] = hand[u] /\ pc'[u] = pc[u]
      BY <2>1, <2>2 DEF TypeOK
    <2>4. UserInv'
      <3>1. \A u \in Threads : Uses(u) => hand[u].id # id
        BY <1>0, <2>1 DEF UserInv
      <3>2. \A g \in Groups : \A h \in held[g] : h.id # id
        BY <1>0, <2>1 DEF UserInv
      <3>3. \A u \in Threads : u # t => (Uses(u)' <=> Uses(u))
        BY <2>3 DEF Uses
      <3> QED
        BY <1>0, <2>1, <2>2, <2>3, <3>1, <3>2, <3>3 DEF UserInv, Mine
    <2> QED
      BY <1>0, <2>2, <2>4, QuietFinds DEF OrderInv
  <1>2. CASE FenceSend(t)
    <2>1. /\ pc[t] = "fence" /\ pc' = [pc EXCEPT ![t] = "idle"]
          /\ Send(t, "fence", hand[t], "none", {}) /\ hand[t] \in Handle
          /\ held' = [held EXCEPT ![Mine(t)] = @ \cup {hand[t]}]
          /\ UNCHANGED <<g_sync_used, hand>>
      BY <1>2 DEF FenceSend, Goto, TypeOK, stubVars
    <2>2. \A g \in Groups : \A h \in held'[g] :
            \/ h \in held[g] /\ hand[t].id # h.id
            \/ h = hand[t] /\ g = Mine(t)
      BY <1>0, <2>1 DEF TypeOK, UserInv, Uses
    <2>3. /\ \A u \in Threads : u # t => pc'[u] = pc[u]
          /\ pc'[t] = "idle"
          /\ \A g \in Groups : held[g] \subseteq held'[g]
      BY <2>1 DEF TypeOK
    <2>4. UserInv'
      <3>1. \A u \in Threads : Uses(u)' => Uses(u) /\ u # t
        BY <2>3 DEF Uses
      <3>2. \A u \in Threads : Uses(u)' => hand[u].id # hand[t].id
        BY <1>0, <2>1, <3>1 DEF UserInv, Uses
      <3>3. hand[t].id \in g_sync_used
        BY <1>0, <2>1 DEF UserInv, Uses
      <3>4. \A u \in Threads : pc'[u] = "wait" => hand[u] \in held'[Mine(u)]
        BY <1>0, <2>3 DEF UserInv
      <3>5. \A g \in Groups : \A h \in held'[g] :
              /\ h.id \in g_sync_used
              /\ \A u \in Threads : Uses(u)' => hand[u].id # h.id
              /\ \A f \in Groups : \A i \in held'[f] :
                   i.id = h.id => i = h /\ f = g
        <4> SUFFICES ASSUME NEW g \in Groups, NEW h \in held'[g]
                     PROVE  /\ h.id \in g_sync_used
                            /\ \A u \in Threads : Uses(u)' => hand[u].id # h.id
                            /\ \A f \in Groups : \A i \in held'[f] :
                                 i.id = h.id => i = h /\ f = g
          OBVIOUS
        <4>1. CASE h \in held[g] /\ hand[t].id # h.id
          BY <1>0, <2>2, <3>1, <4>1 DEF UserInv
        <4>2. CASE h = hand[t] /\ g = Mine(t)
          BY <2>2, <3>2, <3>3, <4>2
        <4> QED
          BY <2>2, <4>1, <4>2
      <3>6. \A u, v \in Threads :
              Uses(u)' /\ Uses(v)' /\ hand[u].id = hand[v].id => u = v
        BY <1>0, <3>1 DEF UserInv
      <3>7. \A u \in Threads : Uses(u)' => hand[u].id \in g_sync_used
        BY <1>0, <3>1 DEF UserInv
      <3> QED
        BY <2>1, <3>4, <3>5, <3>6, <3>7 DEF UserInv, Mine
    <2>5. FoundInv'
      BY <1>0, <2>1, <2>2, SendFinds
    <2> QED
      BY <2>4, <2>5 DEF OrderInv
  <1>3. CASE TouchSend(t)
    <2>1. Send(t, "touch", NoFence, "none", promised[Mine(t)])
          /\ UNCHANGED <<g_sync_used, pc, hand, held>>
          /\ promised[Mine(t)] \in SUBSET Handle
      BY <1>0, <1>3 DEF TouchSend, stubVars, TypeOK
    <2>2. UserInv'
      BY <1>0, <2>1 DEF UserInv, Uses, Mine
    <2>3. FoundInv'
      BY <1>0, <2>1, SendFinds
    <2> QED
      BY <2>2, <2>3 DEF OrderInv
  <1>4. CASE DeleteFree(t)
    <2>1. /\ pc[t] = "free" /\ pc' = [pc EXCEPT ![t] = "idle"]
          /\ g_sync_used' = g_sync_used \ {hand[t].id}
          /\ UNCHANGED <<ring, held, hand>>
      BY <1>4 DEF DeleteFree, SyncFree, Goto
    <2>2. \A u \in Threads : Uses(u)' => Uses(u) /\ u # t
      BY <2>1 DEF Uses, TypeOK
    <2>3. \A u \in Threads : pc'[u] = "wait" => pc[u] = "wait"
      BY <2>1 DEF TypeOK
    <2>4. UserInv'
      BY <1>0, <2>1, <2>2, <2>3 DEF UserInv, Mine, Uses
    <2> QED
      BY <1>0, <2>1, <2>4, QuietFinds DEF OrderInv
  <1>5. ASSUME NEW mode \in Modes, WaitSend(t, mode) PROVE OrderInv'
    <2>1. /\ Send(t, "wait", hand[t], mode, {}) /\ hand[t] \in Handle
          /\ \A u \in Threads : pc'[u] = pc[u] \/ pc'[u] \in {"idle", "blocked"}
          /\ UNCHANGED <<g_sync_used, hand, held>>
      BY <1>5 DEF WaitSend, TypeOK, stubVars, Goto
    <2>2. UserInv'
      BY <1>0, <2>1 DEF UserInv, Uses, Mine
    <2>3. hand[t] \in held[Mine(t)]
      BY <1>0, <1>5 DEF UserInv, WaitSend
    <2>4. \A n : n = Len(ring) + 1 => Finds(hand[t], n)'
      <3>1. PICK h : h = hand[t]
        OBVIOUS
      <3>2. \A n : n = Len(ring) + 1 => Finds(h, n)'
        BY <1>0, <2>3, <3>1, StubFinds
      <3> QED
        BY <2>1, <3>1, <3>2
    <2>5. PICK x : x = hand[t]
      OBVIOUS
    <2>6. /\ Send(t, "wait", x, mode, {}) /\ x \in Handle
          /\ \A n : n = Len(ring) + 1 => Finds(x, n)'
      BY <2>1, <2>4, <2>5
    <2>7. FoundInv'
      BY <1>0, <2>1, <2>6, SendFinds
    <2> QED
      BY <2>2, <2>7 DEF OrderInv
  <1>6. ASSUME NEW h \in held[Mine(t)], WaitCheck(t, h) PROVE OrderInv'
    <2>1. pc[t] = "idle" /\ UNCHANGED <<g_sync_used, ring, held>>
      BY <1>6 DEF WaitCheck, stubVars
    <2>2. \/ UNCHANGED <<pc, hand>>
          \/ /\ hand' = [hand EXCEPT ![t] = h]
             /\ pc' = [pc EXCEPT ![t] = "wait"]
      BY <1>6 DEF WaitCheck, Goto
    <2>3. \A u \in Threads :
            /\ Uses(u)' => Uses(u) /\ hand'[u] = hand[u]
            /\ pc'[u] = "wait" => \/ pc[u] = "wait" /\ hand'[u] = hand[u]
                                  \/ u = t /\ hand'[u] = h
      BY <2>1, <2>2 DEF Uses, TypeOK
    <2>4. UserInv'
      BY <1>0, <2>1, <2>3 DEF UserInv, Mine
    <2> QED
      BY <1>0, <2>1, <2>4, QuietFinds DEF OrderInv
  <1>7. ASSUME NEW h \in held[Mine(t)], DeleteSend(t, h) PROVE OrderInv'
    <2>1. /\ pc[t] = "idle" /\ Send(t, "delete", h, "none", {}) /\ h \in Handle
          /\ \A u \in Threads : ~(pc[u] = "wait" /\ hand[u] = h)
          /\ held' = [held EXCEPT ![Mine(t)] = @ \ {h}]
          /\ hand' = [hand EXCEPT ![t] = h] /\ pc' = [pc EXCEPT ![t] = "free"]
          /\ UNCHANGED g_sync_used
      BY <1>0, <1>7 DEF DeleteSend, Goto, TypeOK, stubVars
    <2>2. \A g \in Groups : \A i \in held'[g] : i \in held[g] /\ h.id # i.id
      BY <1>0, <2>1 DEF UserInv, TypeOK
    <2>3. /\ hand'[t] = h /\ pc'[t] = "free"
          /\ \A u \in Threads : u # t => hand'[u] = hand[u] /\ pc'[u] = pc[u]
      BY <2>1 DEF TypeOK
    <2>4. UserInv'
      <3>1. \A u \in Threads : u # t => (Uses(u)' <=> Uses(u))
        BY <2>3 DEF Uses
      <3>2. \A u \in Threads : Uses(u) => hand[u].id # h.id
        BY <1>0 DEF UserInv
      <3>3. h.id \in g_sync_used
        BY <1>0 DEF UserInv
      <3>4. \A u \in Threads : pc'[u] = "wait" => hand'[u] \in held'[Mine(u)]
        BY <1>0, <2>1, <2>3 DEF UserInv, TypeOK
      <3>5. \A u, v \in Threads :
              Uses(u)' /\ Uses(v)' /\ hand'[u].id = hand'[v].id => u = v
        BY <1>0, <2>3, <3>1, <3>2 DEF UserInv
      <3>6. \A g \in Groups : \A i \in held'[g] :
              /\ i.id \in g_sync_used
              /\ \A u \in Threads : Uses(u)' => hand'[u].id # i.id
              /\ \A f \in Groups : \A j \in held'[f] :
                   j.id = i.id => j = i /\ f = g
        BY <1>0, <2>2, <2>3, <3>1 DEF UserInv
      <3>7. \A u \in Threads : Uses(u)' => hand'[u].id \in g_sync_used
        BY <1>0, <2>3, <3>1, <3>3 DEF UserInv
      <3> QED
        BY <2>1, <3>4, <3>5, <3>6, <3>7 DEF UserInv, Mine
    <2>5. FoundInv'
      BY <1>0, <2>1, <2>2, SendFinds
    <2> QED
      BY <2>4, <2>5 DEF OrderInv
  <1> QED
    BY <1>1, <1>2, <1>3, <1>4, <1>5, <1>6, <1>7 DEF Thread

-----------------------------------------------------------------------------
(* What the proxy waits for before memory is touched *)

LEMMA StubWaits ==
  ASSUME TypeOK, NEW t \in Threads, Thread(t), NEW h,
         NEW n \in 1 .. Len(ring) + 1, WaitsFor(h, n)
  PROVE  WaitsFor(h, n)' /\ WaitsFor(h, n + 1)'
  <1>1. Grows /\ UNCHANGED <<refused, objs, g_def>>
    BY StubGrows DEF proxyVars
  <1>2. Signaled(h) => Signaled(h)'
    BY <1>1 DEF Signaled, ObjsOf
  <1>3. ASSUME NEW k \in DOMAIN ring, k < n, Deferring(k), ring[k].h = h
        PROVE  k \in DOMAIN ring' /\ Deferring(k)' /\ ring'[k].h = h /\ k < n + 1
    BY <1>1, <1>3 DEF Grows, Deferring
  <1> QED
    BY <1>1, <1>2, <1>3 DEF WaitsFor

(* Only a wait that goes out deferred is promised, and only calls that     *)
(* touch memory rely on it.                                                *)
LEMMA StubPromise ==
  ASSUME TypeOK, PromiseInv, NEW t \in Threads, Thread(t)
  PROVE  PromiseInv'
  <1>0. /\ Mine(t) \in Groups /\ UNCHANGED <<refused, objs, g_def, resolved>>
        /\ Grows
    BY StubGrows, SyncAssumption DEF Mine, proxyVars
  <1>1. \A d \in 1 .. resolved' : Signaled(g_def[d].handle)'
    BY <1>0 DEF PromiseInv, Signaled, ObjsOf
  <1>2. ASSUME NEW g \in Groups, NEW h \in promised[g], NEW n, n = Len(ring) + 1
        PROVE  WaitsFor(h, n)' /\ WaitsFor(h, n + 1)'
    <2>1. WaitsFor(h, n) /\ n \in 1 .. Len(ring) + 1
      BY <1>0, <1>2 DEF PromiseInv, Grows
    <2> QED
      BY <2>1, StubWaits
  <1>3. ASSUME NEW k \in DOMAIN ring, NEW h \in ring[k].after
        PROVE  WaitsFor(h, k)'
    <2>1. WaitsFor(h, k) /\ k \in 1 .. Len(ring) + 1
      BY <1>0 DEF PromiseInv, Grows
    <2> QED
      BY <2>1, StubWaits
  <1>4. CASE UNCHANGED <<ring, promised>>
    BY <1>1, <1>2, <1>3, <1>4 DEF PromiseInv
  <1>5. ASSUME NEW op, NEW x, NEW mode, NEW after, Send(t, op, x, mode, after),
               \/ /\ op \in {"fence", "wait", "delete"} /\ x \in Handle
                  /\ mode \in Modes \cup {"none"} /\ after = {}
               \/ /\ op = "touch" /\ x = NoFence /\ mode = "none"
                  /\ after = promised[Mine(t)],
               \A g \in Groups : \A h \in promised'[g] :
                 \/ h \in promised[g]
                 \/ op = "wait" /\ mode = "defer" /\ h = x
        PROVE  PromiseInv'
    <2>1. /\ Len(ring) \in Nat /\ DOMAIN ring = 1 .. Len(ring)
          /\ DOMAIN ring' = 1 .. Len(ring) + 1 /\ Len(ring') = Len(ring) + 1
          /\ ring'[Len(ring) + 1].op = op /\ ring'[Len(ring) + 1].h = x
          /\ ring'[Len(ring) + 1].mode = mode
          /\ ring'[Len(ring) + 1].after = after
          /\ \A k \in DOMAIN ring : ring'[k] = ring[k]
      <3>1. promised[Mine(t)] \in SUBSET Handle
        BY <1>0 DEF TypeOK
      <3> QED
        BY <1>5, <3>1, SendFacts, SendRing
    <2>2. ASSUME NEW g \in Groups, NEW h \in promised'[g]
          PROVE  WaitsFor(h, Len(ring) + 1)'
      <3>1. PICK n : n = Len(ring) + 1
        OBVIOUS
      <3>2. CASE h \in promised[g]
        BY <1>2, <2>1, <3>1, <3>2
      <3>3. CASE op = "wait" /\ mode = "defer" /\ h = x
        <4>1. n \in DOMAIN ring' /\ Deferring(n)' /\ ring'[n].h = h /\ n < n + 1
          BY <2>1, <3>1, <3>3 DEF Deferring
        <4>2. WaitsFor(h, n + 1)'
          BY <4>1 DEF WaitsFor
        <4> QED
          BY <2>1, <3>1, <4>2
      <3> QED
        BY <1>5, <2>2, <3>2, <3>3
    <2>3. ASSUME NEW k \in DOMAIN ring', NEW h \in ring'[k].after
          PROVE  WaitsFor(h, k)'
      <3>1. CASE k \in DOMAIN ring
        BY <1>3, <2>1, <3>1
      <3>2. CASE k = Len(ring) + 1
        <4>1. h \in promised[Mine(t)]
          BY <1>5, <2>1, <2>3, <3>2
        <4> QED
          BY <1>0, <1>2, <3>2, <4>1
      <3> QED
        BY <2>1, <3>1, <3>2
    <2> QED
      BY <1>1, <2>2, <2>3 DEF PromiseInv
  <1>6. CASE FenceAlloc(t) \/ DeleteFree(t)
             \/ \E h \in held[Mine(t)] : WaitCheck(t, h)
    BY <1>4, <1>6 DEF FenceAlloc, DeleteFree, WaitCheck
  <1>7. CASE FenceSend(t)
    <2>1. hand[t] \in Handle
      BY <1>7 DEF FenceSend, TypeOK
    <2> QED
      BY <1>5, <1>7, <2>1 DEF FenceSend
  <1>8. CASE TouchSend(t)
    BY <1>5, <1>8 DEF TouchSend
  <1>9. ASSUME NEW mode \in Modes, WaitSend(t, mode) PROVE PromiseInv'
    <2>1. hand[t] \in Handle
      BY <1>9 DEF WaitSend, TypeOK
    <2>2. \A g \in Groups : \A h \in promised'[g] :
            h \in promised[g] \/ (mode = "defer" /\ h = hand[t])
      <3>1. CASE /\ mode = "defer"
                 /\ promised' = [promised EXCEPT ![Mine(t)] = @ \cup {hand[t]}]
        BY <1>0, <3>1 DEF TypeOK
      <3>2. CASE UNCHANGED promised
        BY <3>2
      <3> QED
        BY <1>9, <3>1, <3>2 DEF WaitSend
    <2>3. Send(t, "wait", hand[t], mode, {})
      BY <1>9 DEF WaitSend
    <2> QED
      BY <1>5, <2>1, <2>2, <2>3
  <1>10. ASSUME NEW h \in held[Mine(t)], DeleteSend(t, h) PROVE PromiseInv'
    <2>1. h \in Handle
      BY <1>0 DEF TypeOK
    <2> QED
      BY <1>5, <1>10, <2>1 DEF DeleteSend
  <1> QED
    BY <1>6, <1>7, <1>8, <1>9, <1>10 DEF Thread

(* A deferred wait that runs puts the fence on the list; the list keeps    *)
(* its fences until the proxy has waited for them.                         *)
LEMMA WaitsPopped ==
  ASSUME TypeOK, AnswerInv, FoundInv, Proxy, ring' # ring, NEW h,
         NEW n \in 1 .. Len(ring), WaitsFor(h, n + 1)
  PROVE  WaitsFor(h, n)'
  <1>1. /\ ring # <<>> /\ Pop /\ Running # "none" /\ refused \subseteq refused'
    BY PopTable
  <1>2. /\ Len(ring) \in Nat \ {0} /\ DOMAIN ring = 1 .. Len(ring)
        /\ DOMAIN ring' = 1 .. Len(ring) - 1
        /\ \A k \in DOMAIN ring' : ring'[k] = ring[k + 1]
    BY <1>1, PopRing
  <1>3. Cmd = ring[1] /\ Running = ring[1].op
    BY <1>1 DEF Cmd, Running
  <1>4. ASSUME NEW d \in DOMAIN g_def
        PROVE  d \in DOMAIN g_def' /\ g_def'[d].handle = g_def[d].handle
    <2>1. CASE RunFence \/ (RunDelete /\ Found(Cmd.h))
      <3>1. PICK i : Adopt(i)
        BY <2>1 DEF RunFence, RunDelete
      <3> QED
        BY <3>1, AdoptType
    <2>2. CASE RunDefer
      <3>1. g_def' = g_def \/ \E e \in Deferred : g_def' = Append(g_def, e)
        BY <2>2, DeferFacts
      <3>2. g_def \in Seq(Deferred) /\ DOMAIN g_def = 1 .. Len(g_def)
            /\ Len(g_def) \in Nat
        BY DEF TypeOK
      <3>3. ASSUME NEW e \in Deferred, g_def' = Append(g_def, e)
            PROVE  d \in DOMAIN g_def' /\ g_def'[d].handle = g_def[d].handle
        BY <3>2, <3>3, AppendFacts
      <3> QED
        BY <3>1, <3>3
    <2>3. CASE ~RunDefer /\ ~RunFence /\ ~(RunDelete /\ Found(Cmd.h))
      BY <1>1, <2>3 DEF Proxy, RunFenceRefused, RunWaitSignaled, RunWaitExpired,
         RunWaitFailed, RunDelete, RunTouch, ResolveOne, proxyVars
    <2> QED
      BY <2>1, <2>2, <2>3
  <1>5. CASE h \in refused
    BY <1>1, <1>5 DEF WaitsFor
  <1>6. CASE Signaled(h)
    <2>1. Signaled(h)'
      BY <1>6, SignaledStays DEF AnswerInv, Next
    <2> QED
      BY <2>1 DEF WaitsFor
  <1>7. CASE \E d \in DOMAIN g_def : g_def[d].handle = h
    BY <1>4, <1>7 DEF WaitsFor
  <1>8. ASSUME NEW k \in DOMAIN ring, k < n + 1, Deferring(k), ring[k].h = h
        PROVE  WaitsFor(h, n)'
    <2>1. CASE k = 1
      <3>1. /\ Running = "wait" /\ Cmd.mode = "defer" /\ Cmd.h = h
            /\ Finds(h, 1) /\ h \in Handle /\ h.id \in Ids
        BY <1>1, <1>3, <1>8, <2>1, CmdFacts DEF Deferring, FoundInv
      <3>2. RunDefer \/ RunWaitFailed
        BY <1>1, <3>1 DEF Proxy, RunFence, RunFenceRefused, RunWaitSignaled,
           RunWaitExpired, RunDelete, RunTouch, ResolveOne
      <3>3. CASE RunDefer
        <4> DEFINE s == syncs[h.id].real
                   e == [s |-> s, handle |-> h, owned |-> FALSE]
        <4>1. /\ s \in DOMAIN objs /\ e \in Deferred /\ Found(h)
              /\ \/ Waiting(s) /\ g_def' = g_def
                 \/ g_def' = Append(g_def, e)
          BY <3>1, <3>3, DeferFacts
        <4>2. CASE Waiting(s) /\ g_def' = g_def
          <5>1. PICK d \in DOMAIN g_def : g_def[d].s = s
            BY <4>2 DEF Waiting
          <5>2. objs[s].h = g_def[d].handle
            BY <5>1 DEF AnswerInv, OwnerInv, ListInv
          <5>3. objs[s].h = h
            BY <3>1, <4>1 DEF AnswerInv, OwnerInv, TableInv, Found, Handle
          <5> QED
            BY <4>2, <5>1, <5>2, <5>3 DEF WaitsFor
        <4>3. CASE g_def' = Append(g_def, e)
          <5>1. e.handle = h
            OBVIOUS
          <5> HIDE DEF e
          <5>2. Len(g_def) + 1 \in DOMAIN g_def' /\ g_def'[Len(g_def) + 1] = e
            BY <4>1, <4>3, AppendFacts DEF TypeOK
          <5> QED
            BY <5>1, <5>2 DEF WaitsFor
        <4> QED
          BY <4>1, <4>2, <4>3
      <3>4. CASE RunWaitFailed
        <4>1. ~Found(h)
          BY <3>1, <3>4 DEF RunWaitFailed
        <4>2. h \in refused
          BY <3>1, <4>1, <1>2 DEF Finds, FenceCmds
        <4> QED
          BY <1>1, <4>2 DEF WaitsFor
      <3> QED
        BY <3>2, <3>3, <3>4
    <2>2. CASE k # 1
      <3>1. k - 1 \in DOMAIN ring' /\ ring'[k - 1] = ring[k] /\ k - 1 < n
        BY <1>2, <1>8, <2>2
      <3> QED
        BY <1>8, <3>1 DEF WaitsFor, Deferring
    <2> QED
      BY <2>1, <2>2
  <1> QED
    BY <1>5, <1>6, <1>7, <1>8 DEF WaitsFor

LEMMA ProxyPromise ==
  ASSUME OneShareGroup, TypeOK, AnswerInv, FoundInv, PromiseInv, Proxy
  PROVE  PromiseInv'
  <1>1. UNCHANGED promised
    BY DEF Proxy, RunFence, RunFenceRefused, RunDefer, RunWaitSignaled,
       RunWaitExpired, RunWaitFailed, RunDelete, RunTouch, ResolveOne
  <1>2. CASE ring' # ring
    <2>1. /\ Len(ring) \in Nat \ {0} /\ DOMAIN ring = 1 .. Len(ring)
          /\ Len(ring') = Len(ring) - 1 /\ DOMAIN ring' = 1 .. Len(ring) - 1
          /\ \A k \in DOMAIN ring' : ring'[k] = ring[k + 1]
      BY <1>2, PopTable, PopRing
    <2>2. ~ResolveOne
      BY <1>2 DEF ResolveOne
    <2>3. resolved' = 0
      BY <2>2, NotResolving DEF AnswerInv, OwnerInv
    <2>4. ASSUME NEW g \in Groups, NEW h \in promised[g]
          PROVE  WaitsFor(h, Len(ring) + 1)'
      <3>1. PICK n : n = Len(ring) /\ n \in 1 .. Len(ring)
        <4>1. Len(ring) \in 1 .. Len(ring)
          BY <2>1
        <4> QED
          BY <4>1
      <3>2. WaitsFor(h, n + 1)
        BY <3>1 DEF PromiseInv
      <3>3. WaitsFor(h, n)'
        BY <1>2, <3>1, <3>2, WaitsPopped
      <3> QED
        BY <2>1, <3>1, <3>3
    <2>5. ASSUME NEW k \in DOMAIN ring', NEW h \in ring'[k].after
          PROVE  WaitsFor(h, k)'
      <3>1. k + 1 \in DOMAIN ring /\ h \in ring[k + 1].after
            /\ k \in 1 .. Len(ring)
        BY <2>1, <2>5
      <3>2. WaitsFor(h, k + 1)
        BY <3>1 DEF PromiseInv
      <3> QED
        BY <1>2, <3>1, <3>2, WaitsPopped
    <2> QED
      BY <1>1, <2>3, <2>4, <2>5 DEF PromiseInv
  <1>3. CASE ring' = ring
    <2>1. ResolveOne
      <3>1. Running # "none" => ~Pop
        BY <1>3 DEF Pop, TypeOK, Running
      <3> QED
        BY <3>1 DEF Proxy, RunFence, RunFenceRefused, RunDefer, Defers,
           RunWaitSignaled, RunWaitExpired, RunWaitFailed, RunDelete, RunTouch
    <2>2. /\ UNCHANGED refused
          /\ \/ g_def' = <<>> /\ resolved' = 0 /\ resolved + 1 = Len(g_def)
             \/ UNCHANGED g_def /\ resolved' = resolved + 1
      BY <2>1 DEF ResolveOne
    <2>3. \A h : Signaled(h) => Signaled(h)'
      BY SignaledStays DEF AnswerInv, Next
    <2>4. \A d \in 1 .. resolved + 1 : Signaled(g_def[d].handle)
      <3>1. Signaled(g_def[resolved + 1].handle)
        BY <2>1, ResolveSignaled DEF AnswerInv
      <3>2. resolved \in Nat
        BY DEF TypeOK
      <3> QED
        BY <3>1, <3>2 DEF PromiseInv
    <2>5. ASSUME NEW h, NEW n, WaitsFor(h, n) PROVE WaitsFor(h, n)'
      <3>1. CASE h \in refused \/ Signaled(h)
        BY <2>2, <2>3, <3>1 DEF WaitsFor
      <3>2. ASSUME NEW d \in DOMAIN g_def, g_def[d].handle = h
            PROVE  WaitsFor(h, n)'
        <4>1. CASE UNCHANGED g_def
          BY <3>2, <4>1 DEF WaitsFor
        <4>2. CASE resolved + 1 = Len(g_def)
          <5>1. d \in 1 .. resolved + 1
            BY <4>2 DEF TypeOK
          <5>2. Signaled(h)'
            BY <2>3, <2>4, <3>2, <5>1
          <5> QED
            BY <5>2 DEF WaitsFor
        <4> QED
          BY <2>2, <4>1, <4>2
      <3>3. CASE \E k \in DOMAIN ring : k < n /\ Deferring(k) /\ ring[k].h = h
        BY <1>3, <3>3 DEF WaitsFor, Deferring
      <3> QED
        BY <2>5, <3>1, <3>2, <3>3 DEF WaitsFor
    <2>6. \A d \in 1 .. resolved' : Signaled(g_def[d].handle)'
      <3>1. CASE resolved' = 0
        BY <3>1
      <3>2. CASE UNCHANGED g_def /\ resolved' = resolved + 1
        <4> SUFFICES ASSUME NEW d \in 1 .. resolved'
                     PROVE  Signaled(g_def[d].handle)'
          OBVIOUS
        <4>1. PICK h : h = g_def[d].handle
          OBVIOUS
        <4>2. Signaled(h)'
          BY <2>3, <2>4, <3>2, <4>1
        <4> QED
          BY <3>2, <4>1, <4>2
      <3> QED
        BY <2>2, <3>1, <3>2
    <2>7. \A g \in Groups : \A h \in promised'[g] : WaitsFor(h, Len(ring) + 1)'
      <3> SUFFICES ASSUME NEW g \in Groups, NEW h \in promised[g]
                   PROVE  WaitsFor(h, Len(ring) + 1)'
        BY <1>1
      <3>1. PICK n : n = Len(ring) + 1
        OBVIOUS
      <3>2. WaitsFor(h, n)'
        BY <2>5, <3>1 DEF PromiseInv
      <3> QED
        BY <1>3, <3>1, <3>2
    <2>8. \A k \in DOMAIN ring' : \A h \in ring'[k].after : WaitsFor(h, k)'
      BY <1>3, <2>5 DEF PromiseInv
    <2> QED
      BY <2>6, <2>7, <2>8 DEF PromiseInv
  <1> QED
    BY <1>2, <1>3

-----------------------------------------------------------------------------
(* Theorems *)

(* What the answers to the application rest on, for contexts that share    *)
(* their objects: handles (bridge_sync_alloc()), owners (proxy table and   *)
(* deferred list) and completions (sync_done_gen).                         *)
THEOREM AnswersHold ==
  ASSUME OneShareGroup
  PROVE  Spec => []AnswerInv
  <1>1. Init => AnswerInv
    <2>1. Init => TableInv /\ ListInv /\ OneOwner
      BY DEF Init, TableInv, ListInv, OneOwner, NULL
    <2>2. Init => DoneInv /\ ReportsAreTrue
      BY DEF Init, DoneInv, ReportsAreTrue
    <2>3. Init => HandleInv
      BY DEF Init, HandleInv, HandInv, CmdInv, MadeInv, FenceCmds
    <2> QED
      BY <2>1, <2>2, <2>3 DEF AnswerInv, OwnerInv
  <1>2. TypeOK /\ AnswerInv /\ [Next]_vars => AnswerInv'
    <2> SUFFICES ASSUME TypeOK, AnswerInv, [Next]_vars PROVE AnswerInv'
      OBVIOUS
    <2>1. CASE Next
      <3>1. HandleInv'
        BY <2>1, StubHandles, ProxyHandles, SignalHandles DEF Next, AnswerInv
      <3>2. OwnerInv'
        BY <2>1, StubOwner, ProxyOwner, SignalOwner DEF Next, AnswerInv
      <3>3. DoneInv' /\ ReportsAreTrue'
        BY <2>1, DoneKept, ReportsKept DEF AnswerInv
      <3> QED
        BY <3>1, <3>2, <3>3 DEF AnswerInv
    <2>2. CASE UNCHANGED vars
      <3>1. HandleInv'
        BY <2>2 DEF vars, stubVars, proxyVars, AnswerInv, HandleInv, HandInv,
           CmdInv, MadeInv, FenceCmds, Issued, ObjsOf
      <3>2. OwnerInv'
        BY <2>2, OwnerKeep DEF vars, proxyVars, AnswerInv, OwnerInv, ListInv,
           MustResolve, Defers, Running, Cmd, Found, Waiting
      <3>3. DoneInv' /\ ReportsAreTrue'
        BY <2>2 DEF vars, proxyVars, AnswerInv, DoneInv, ReportsAreTrue,
           Signaled, ObjsOf
      <3> QED
        BY <3>1, <3>2, <3>3 DEF AnswerInv
    <2> QED
      BY <2>1, <2>2
  <1> QED
    BY <1>1, <1>2, SyncTypeCorrect, PTL DEF Spec

(* Contexts that share their objects: each sync object of the driver is    *)
(* owned by the table or by the list of deferred waits while it lives, and *)
(* by neither afterwards (glDeleteSync(), defer_adopt_delete(), the reuse  *)
(* of an id and proxy_resolve_deferred_waits() between them).              *)
THEOREM OwnersAreUnique ==
  ASSUME OneShareGroup
  PROVE  Spec => []OneOwner
  <1>1. AnswerInv => OneOwner
    BY DEF AnswerInv, OwnerInv
  <1> QED
    BY <1>1, AnswersHold, PTL

(* The answers glClientWaitSync() gives from shared memory are true: none  *)
(* takes the completion of an earlier fence with the same id for its own.  *)
THEOREM ReportsCorrect ==
  ASSUME OneShareGroup
  PROVE  Spec => []ReportsAreTrue
  <1>1. AnswerInv => ReportsAreTrue
    BY DEF AnswerInv
  <1> QED
    BY <1>1, AnswersHold, PTL

(* Which id a handle may carry and which command finds which fence: every  *)
(* id has one user at a time (bridge_sync_alloc(), bridge_sync_free()) and *)
(* no command that takes the place of a fence comes before one that needs  *)
(* it.  For contexts of any groups.                                        *)
THEOREM OrderCorrect == Spec => []OrderInv
  <1>1. Init => OrderInv
    BY DEF Init, OrderInv, UserInv, FoundInv, Uses
  <1>2. TypeOK /\ OrderInv /\ [Next]_vars => OrderInv'
    <2> SUFFICES ASSUME TypeOK, OrderInv, [Next]_vars PROVE OrderInv'
      OBVIOUS
    <2>1. CASE Proxy
      BY <2>1, ProxyOrder
    <2>2. ASSUME NEW t \in Threads, Thread(t) PROVE OrderInv'
      BY <2>2, StubOrder
    <2>3. CASE UNCHANGED vars \/ \E i \in DOMAIN objs : Signal(i)
      <3>1. UNCHANGED <<stubVars, pc, hand, ring, syncs, refused, held>>
        BY <2>3 DEF vars, proxyVars, stubVars, Signal
      <3> QED
        BY <3>1 DEF OrderInv, UserInv, FoundInv, Uses, Mine, Finds, Found,
           FenceCmds, Undisturbed, IdCmds, Deferring, stubVars
    <2> QED
      BY <2>1, <2>2, <2>3 DEF Next
  <1> QED
    BY <1>1, <1>2, SyncTypeCorrect, PTL DEF Spec

(* A fence the application holds is found under its handle as soon as the  *)
(* command that makes it has run (h_glFenceSync(), sync_lookup()), also    *)
(* when its id was another fence's before.                                 *)
THEOREM HeldFencesAreFound ==
  ASSUME OneShareGroup
  PROVE  Spec => []HeldFenceIsFound
  <1>1. TypeOK /\ AnswerInv /\ OrderInv => HeldFenceIsFound
    <2> SUFFICES ASSUME TypeOK, AnswerInv, OrderInv, NEW g \in Groups,
                        NEW h \in held[g], h \notin refused,
                        ~\E k \in DOMAIN ring : ring[k].op = "fence" /\ ring[k].h = h
                 PROVE  Found(h) /\ objs[syncs[h.id].real].h = h
      BY DEF HeldFenceIsFound
    <2>1. Finds(h, Len(ring) + 1)
      BY DEF OrderInv, FoundInv
    <2>2. Found(h) /\ h \in Handle
      BY <2>1 DEF Finds, FenceCmds, TypeOK
    <2>3. objs[syncs[h.id].real].h = [id |-> h.id, gen |-> syncs[h.id].gen]
      BY <2>2 DEF AnswerInv, OwnerInv, TableInv, Found, Handle
    <2> QED
      BY <2>2, <2>3 DEF Found, Handle
  <1> QED
    BY <1>1, SyncTypeCorrect, AnswersHold, OrderCorrect, PTL

(* The whole inductive invariant of module SyncInvariant, for contexts     *)
(* that share their objects: with the promises of fast_client_wait, for    *)
(* which the proxy waits before it touches memory.                         *)
THEOREM SyncInvariantHolds ==
  ASSUME OneShareGroup
  PROVE  Spec => []SyncInv
  <1>1. Init => PromiseInv
    BY DEF Init, PromiseInv
  <1>2. TypeOK /\ AnswerInv /\ OrderInv /\ PromiseInv /\ [Next]_vars => PromiseInv'
    <2> SUFFICES ASSUME TypeOK, AnswerInv, OrderInv, PromiseInv, [Next]_vars
                 PROVE  PromiseInv'
      OBVIOUS
    <2>1. CASE Proxy
      BY <2>1, ProxyPromise DEF OrderInv
    <2>2. ASSUME NEW t \in Threads, Thread(t) PROVE PromiseInv'
      BY <2>2, StubPromise
    <2>3. CASE UNCHANGED vars \/ \E i \in DOMAIN objs : Signal(i)
      <3>1. UNCHANGED <<ring, g_def, resolved, refused, promised>>
        BY <2>3 DEF vars, proxyVars, stubVars, Signal
      <3>2. \A h : Signaled(h) => Signaled(h)'
        <4>1. CASE UNCHANGED vars
          BY <4>1 DEF vars, proxyVars, Signaled, ObjsOf
        <4>2. CASE \E i \in DOMAIN objs : Signal(i)
          BY <4>2, SignaledStays DEF AnswerInv, Next
        <4> QED
          BY <2>3, <4>1, <4>2
      <3>3. ASSUME NEW h, NEW n, WaitsFor(h, n) PROVE WaitsFor(h, n)'
        BY <3>1, <3>2, <3>3 DEF WaitsFor, Deferring
      <3>4. \A d \in 1 .. resolved : Signaled(g_def[d].handle)'
        <4> SUFFICES ASSUME NEW d \in 1 .. resolved
                     PROVE  Signaled(g_def[d].handle)'
          OBVIOUS
        <4>1. PICK h : h = g_def[d].handle
          OBVIOUS
        <4>2. Signaled(h)'
          BY <3>2, <4>1 DEF PromiseInv
        <4> QED
          BY <3>1, <4>1, <4>2
      <3>5. ASSUME NEW n, n = Len(ring) + 1
            PROVE  \A g \in Groups : \A h \in promised[g] : WaitsFor(h, n)'
        BY <3>3, <3>5 DEF PromiseInv
      <3>6. \A k \in DOMAIN ring : \A h \in ring[k].after : WaitsFor(h, k)'
        BY <3>3 DEF PromiseInv
      <3> QED
        BY <3>1, <3>4, <3>5, <3>6 DEF PromiseInv
    <2> QED
      BY <2>1, <2>2, <2>3 DEF Next
  <1> QED
    BY <1>1, <1>2, SyncTypeCorrect, AnswersHold, OrderCorrect, PTL
       DEF Spec, SyncInv

(* When a handler touches memory, every fence whose wait fast_client_wait  *)
(* answered early before that call is signaled                             *)
(* (proxy_resolve_deferred_waits()).                                       *)
THEOREM TouchesAfterFences ==
  ASSUME OneShareGroup
  PROVE  Spec => TouchAfterFences
  <1>1. TypeOK /\ SyncInv /\ [Next]_vars =>
          [(Running = "touch" /\ ring' = Tail(ring)) =>
             \A h \in Cmd.after : h \in refused \/ Signaled(h)]_vars
    <2> SUFFICES ASSUME TypeOK, SyncInv, [Next]_vars, Running = "touch",
                        ring' = Tail(ring), NEW h \in Cmd.after
                 PROVE  h \in refused \/ Signaled(h)
      OBVIOUS
    <2>1. ring # <<>> /\ Pop /\ ring' # ring
      BY DEF Running, Pop, TypeOK
    <2>2. Len(ring) \in Nat \ {0} /\ DOMAIN ring' = 1 .. Len(ring) - 1
          /\ DOMAIN ring = 1 .. Len(ring)
      BY <2>1, PopRing
    <2>3. Proxy
      <3>1. ASSUME NEW t \in Threads, Thread(t) PROVE FALSE
        <4>1. DOMAIN ring' = 1 .. Len(ring) + 1
          BY <2>1, <3>1, StubGrows DEF Grows
        <4>2. PICK n \in Nat \ {0} : n = Len(ring)
          BY <2>2
        <4>3. 1 .. n + 1 = 1 .. n - 1
          BY <2>2, <4>1, <4>2
        <4>4. n \in 1 .. n + 1 /\ n \notin 1 .. n - 1
          OBVIOUS
        <4> QED
          BY <4>3, <4>4
      <3>2. ~UNCHANGED vars /\ ~\E i \in DOMAIN objs : Signal(i)
        BY <2>1 DEF vars, Signal
      <3> QED
        BY <3>1, <3>2 DEF Next
    <2>4. ~MustResolve
      BY <2>1, <2>3 DEF Proxy, RunFence, RunFenceRefused, RunDefer, Defers,
         RunWaitSignaled, RunWaitExpired, RunWaitFailed, RunDelete, RunTouch,
         ResolveOne
    <2>5. g_def = <<>>
      BY <2>4 DEF MustResolve
    <2>6. WaitsFor(h, 1)
      BY <2>2 DEF SyncInv, PromiseInv, Cmd
    <2> QED
      BY <2>2, <2>5, <2>6 DEF WaitsFor
  <1> QED
    BY <1>1, SyncTypeCorrect, SyncInvariantHolds, PTL DEF Spec, TouchAfterFences

=============================================================================
