----------------------------- MODULE BufferMaps -----------------------------
(***************************************************************************)
(* Mapped buffers.  glMapBufferRange() gives the program a copy of the     *)
(* range in the stub's own memory; what is written to it reaches the       *)
(* buffer at glUnmapBuffer(), at glFlushMappedBufferRange() or, when the   *)
(* mapping stays, with the draw or the glBindBufferRange() that reads it.  *)
(* Stub and proxy each keep a table of the mappings, under the same ids;   *)
(* the stub changes its table only after the command was run and g_lock    *)
(* dropped.  A buffer is mapped by the target that it is used with, bound  *)
(* as GLState has it; "cores that do not call glUnmapBuffer" may map it    *)
(* again instead.                                                          *)
(***************************************************************************)
EXTENDS GLState

CONSTANTS Parts,      \* of a buffer: what ranges are told apart by
          MAX_MAPS,
          MapHabits   \* as Habits, see Orderly, Complete, Within and BindBase

(* GLState but for the calls left.                                         *)
stateVars == <<stubVars, g_stub_new_ctx, g_stub_current_ctx, call, phase, proxyVars,
               driverVars>>

AllMapHabits == {"crossing", "partial writes", "reads across", "two streams",
                 "equal values", "base binding"}
ASSUME MapAssumption ==
  /\ MAX_MAPS \in Nat \ {0} /\ Parts # {} /\ MapHabits \subseteq AllMapHabits

VARIABLES
  stub_maps, copy,          \* the stub's table, and what its ptr point to
  g_active_stub_map_count,
  ranges,                   \* g_bufrange_cache, per context, of one index
  maps,                     \* the proxy's table
  store, mapped, ubo,       \* driver: contents, mapped buffers, indexed binding
  step,                     \* what a thread has yet to do after its send
  held, memory, misread     \* program: its mappings, what its buffers should
                            \* hold, whether a command read anything else

tableVars   == <<stub_maps, copy, g_active_stub_map_count>>
contentVars == <<store, mapped, ubo>>
programVars == <<held, memory, misread>>
mapVars == <<tableVars, ranges, maps, contentVars, step, programVars>>

Ids      == 1 .. MAX_MAPS - 1
Ranges   == (SUBSET Parts) \ {{}}
Unwritten == -1   \* malloc() leaves it as it is
NoHash   == <<>>

Entry(b, range, access) == [buffer |-> b, range |-> range, access |-> access]
NoEntry == Entry(0, {}, "read")
NoRange == [buffer |-> 0, range |-> {}, hash |-> NoHash]
Blank   == [p \in Parts |-> 0]
Step(at, id, e, data) == [at |-> at, id |-> id, entry |-> e, data |-> data]
AtRest  == Step("rest", 0, NoEntry, Blank)

MapInit ==
  /\ Init
  /\ stub_maps = [i \in Ids |-> NoEntry] /\ copy = [i \in Ids |-> Blank]
  /\ g_active_stub_map_count = 0
  /\ ranges = [c \in Contexts |-> NoRange]
  /\ maps = [i \in Ids |-> NoEntry]
  /\ store = [b \in Names |-> Blank] /\ mapped = {}
  /\ ubo = [c \in Contexts |-> <<None, {}>>]
  /\ step = [t \in Threads |-> AtRest]
  /\ held = {} /\ memory = [b \in Names |-> Blank] /\ misread = FALSE

(* The first entry of a table for a buffer, 0 if there is none.            *)
Of(table, b) == Min({i \in Ids : table[i].buffer = b} \cup {MAX_MAPS}) % MAX_MAPS

Put(old, range, data) == [p \in Parts |-> IF p \in range THEN data[p] ELSE old[p]]

(* A mapping whose writes neither glFlushMappedBufferRange() nor, while it *)
(* lasts, glUnmapBuffer() brings across.                                   *)
Unsynchronized(i) == i # 0 /\ stub_maps[i].access \in {"write", "stream"}

-----------------------------------------------------------------------------
(* The program.  It writes all of a range it maps to write, before it      *)
(* unmaps or draws from it; a command reads a buffer only where its        *)
(* mapping, if it has one, allows it; no thread maps a buffer while        *)
(* another has not returned from unmapping or deleting one.                *)

Ready(t, o) == /\ phase[t] = "idle" /\ step[t] = AtRest /\ left[o] > 0
               /\ g_stub_current_ctx[t] # 0
Used(o) == left' = [left EXCEPT ![o] = @ - 1]
Bound(t) == bound_array[g_stub_current_ctx[t]]
InUse(b) == b \in live["buf"][0]
Busy(t, b) == \E u \in Threads \ {t} : \/ step[u].entry.buffer = b
                                       \/ call[u].op = "delBuf" /\ call[u].n = b
Orderly(t) == \/ "crossing" \in MapHabits
              \/ \A u \in Threads \ {t} : step[u].at \notin {"unmapped", "deleted"}
Complete(b, range) ==
  LET i == Of(stub_maps, b)
  IN  Unsynchronized(i) /\ "partial writes" \notin MapHabits =>
        \A p \in range \cap stub_maps[i].range : copy[i][p] # Unwritten
Within(b, range) ==
  LET i == Of(stub_maps, b)
  IN  b \in held => /\ stub_maps[i].access \in {"stream", "explicit"}
                    /\ \/ stub_maps[i].access = "explicit"
                       \/ "reads across" \in MapHabits
                       \/ range \subseteq stub_maps[i].range
Readable(t, b, range) ==
  InUse(b) /\ ~Busy(t, b) /\ Within(b, range) /\ Complete(b, range)
Clean(b) == store[b] = memory[b]

Right(b, range) == \A p \in range : store'[b][p] = memory[b][p]

-----------------------------------------------------------------------------
(* glMapBufferRange().                                                     *)

MapAgain(t) ==
  LET i == Of(stub_maps, Bound(t))
  IN  /\ g_stub_current_ctx[t] # 0 /\ Bound(t) \in held /\ i # 0 /\ ~Busy(t, Bound(t))
      /\ Ready(t, stub_maps[i].access) /\ Used(stub_maps[i].access)
      /\ UNCHANGED mapVars

(* The handler unmaps what it still has mapped, the driver refuses what is *)
(* mapped, and without a free entry the mapping stays without an id.       *)
SendMap(t, range, access) ==
  LET b     == Bound(t)
      stale == {i \in Ids : maps[i].buffer = b}
      free  == {i \in Ids : maps[i].buffer = 0} \cup stale
      e     == Entry(b, range, access)
  IN  /\ Ready(t, access) /\ b # 0 /\ ~Busy(t, b) /\ Orderly(t)
      /\ \A i \in Ids : stub_maps[i] # e
      /\ b \in held => Clean(b)
      /\ mapped' = mapped \cup {b}
      /\ IF free = {} \/ (b \in mapped /\ stale = {})
         THEN UNCHANGED <<maps, step>>
         ELSE /\ maps' = [i \in Ids |-> IF i = Min(free) THEN e
                                        ELSE IF i \in stale THEN NoEntry ELSE maps[i]]
              /\ step' = [step EXCEPT ![t] = Step("mapped", Min(free), e,
                   IF access = "read" THEN store[b] ELSE [p \in Parts |-> Unwritten])]
      /\ Used(access)
      /\ UNCHANGED <<tableVars, ranges, store, ubo, programVars>>

(* The stub's entries of the same buffer or id make way.                   *)
KeepMap(t) ==
  LET id == step[t].id
      e  == step[t].entry
      old == {i \in Ids : stub_maps[i].buffer # 0 /\ (stub_maps[i].buffer = e.buffer \/ i = id)}
  IN  /\ step[t].at = "mapped"
      /\ stub_maps' = [i \in Ids |-> IF i = id THEN e
                                     ELSE IF i \in old THEN NoEntry ELSE stub_maps[i]]
      /\ copy' = [copy EXCEPT ![id] = step[t].data]
      /\ g_active_stub_map_count' = g_active_stub_map_count + 1 - Cardinality(old)
      /\ held' = held \cup {e.buffer}
      /\ step' = [step EXCEPT ![t] = AtRest]
      /\ UNCHANGED <<left, ranges, maps, contentVars, memory, misread>>

(* The program writes to the memory it was given, each time something else. *)
Write(t, b, p, v) ==
  LET i == Of(stub_maps, b)
  IN  /\ v = left["store"] \/ "equal values" \in MapHabits
      /\ Ready(t, "store") /\ b \in held /\ ~Busy(t, b) /\ i # 0
      /\ stub_maps[i].access # "read" /\ p \in stub_maps[i].range
      /\ copy' = [copy EXCEPT ![i][p] = v]
      /\ memory' = IF stub_maps[i].access = "explicit" THEN memory
                                                   ELSE [memory EXCEPT ![b][p] = v]
      /\ Used("store")
      /\ UNCHANGED <<stub_maps, g_active_stub_map_count, ranges, maps, contentVars,
                     step, held, misread>>

(* glFlushMappedBufferRange() of a part of a mapping.  Of any other range  *)
(* it returns after BRIDGE_BEGIN(), with g_lock held; programs do not ask. *)
Flush(t, range) ==
  LET b == Bound(t)
      i == Of(stub_maps, b)
  IN  /\ Ready(t, "flush") /\ b \in held /\ ~Busy(t, b) /\ i # 0
      /\ stub_maps[i].access = "explicit" /\ range \subseteq stub_maps[i].range
      /\ \A p \in range : copy[i][p] # Unwritten
      /\ store' = IF maps[i] = NoEntry THEN store
                  ELSE [store EXCEPT ![maps[i].buffer] = Put(@, range, copy[i])]
      /\ memory' = [memory EXCEPT ![b] = Put(@, range, copy[i])]
      /\ Used("flush")
      /\ UNCHANGED <<tableVars, ranges, maps, mapped, ubo, step, held, misread>>

-----------------------------------------------------------------------------
(* glUnmapBuffer(): the copy goes with the command, the entry after it.    *)

SentAtUnmap(i) == stub_maps[i].access # "explicit"

SendUnmap(t) ==
  LET b == Bound(t)
      i == Of(stub_maps, b)
      m == maps[i]
  IN  /\ Ready(t, "unmap") /\ b \in held /\ ~Busy(t, b) /\ i # 0
      /\ Complete(b, stub_maps[i].range)
      /\ store' = IF SentAtUnmap(i) /\ m.buffer # 0 /\ m.access \in {"write", "stream"}
                  THEN [store EXCEPT ![m.buffer] = Put(@, m.range, copy[i])] ELSE store
      /\ mapped' = mapped \ {m.buffer}
      /\ maps' = [maps EXCEPT ![i] = NoEntry]
      /\ held' = held \ {b}
      /\ step' = [step EXCEPT ![t] = Step("unmapped", i, stub_maps[i], Blank)]
      /\ Used("unmap")
      /\ UNCHANGED <<tableVars, ranges, ubo, memory, misread>>

ForgetMap(t) ==
  /\ step[t].at = "unmapped"
  /\ stub_maps' = [stub_maps EXCEPT ![step[t].id] = NoEntry]
  /\ g_active_stub_map_count' = IF stub_maps[step[t].id] = NoEntry
       THEN g_active_stub_map_count ELSE g_active_stub_map_count - 1
  /\ step' = [step EXCEPT ![t] = AtRest]
  /\ UNCHANGED <<left, copy, ranges, maps, contentVars, programVars>>

-----------------------------------------------------------------------------
(* Commands that read buffers, and bring what was written to them.         *)

(* Draw calls: the first of the vertex buffers that has such a mapping     *)
(* around the vertices drawn.                                              *)
Brings(b, range) ==
  LET i == Of(stub_maps, b)
  IN  Unsynchronized(i) /\ range \subseteq stub_maps[i].range

(* The handler, with the bytes [range of b] in the command.                *)
Brought(b, range) ==
  LET i == Of(maps, b)
  IN  IF i # 0 /\ range \subseteq maps[i].range
      THEN [store EXCEPT ![b] = Put(@, range, copy[Of(stub_maps, b)])] ELSE store

Draw(t, vbos, range) ==
  LET brings == {b \in vbos : Brings(b, range)}
  IN  /\ Ready(t, "draw")
      /\ \A b \in vbos : Readable(t, b, range)
      /\ "two streams" \in MapHabits \/ Cardinality(brings) <= 1
      /\ IF brings = {} THEN store' = store
         ELSE \E b \in brings : store' = Brought(b, range)
      /\ misread' = (misread \/ \E b \in vbos : ~Right(b, range))
      /\ Used("draw")
      /\ UNCHANGED <<tableVars, ranges, maps, mapped, ubo, step, held, memory>>

(* glBindBufferRange() compares the bytes of an unsynchronized mapping by  *)
(* their hash, taken for the bytes here.                                   *)
Hash(b, range) == IF Brings(b, range) THEN [p \in range |-> copy[Of(stub_maps, b)][p]]
                                      ELSE NoHash
SameRange(c, b, range) == ranges[c].buffer = b /\ ranges[c].range = range

(* MUTANT: the contents are not compared.                                  *)
RangeIsSetOnce(c, b, range) == SameRange(c, b, range)

RangeIsSet(c, b, range) ==
  /\ SameRange(c, b, range)
  /\ \/ ~Unsynchronized(Of(stub_maps, b))
     \/ Brings(b, range) /\ ranges[c].hash = Hash(b, range)

Bind(b, range) == <<Object(gen, "buf", b), range>>

BindRange(t, b, range) ==
  LET c == g_stub_current_ctx[t]
  IN  /\ Ready(t, "bindRange")
      /\ Readable(t, b, range)
      /\ IF RangeIsSet(c, b, range) THEN UNCHANGED <<ranges, store, ubo>>
         ELSE /\ ranges' = IF SameRange(c, b, range) /\ ~Brings(b, range) THEN ranges
                 ELSE [ranges EXCEPT ![c] = [buffer |-> b, range |-> range,
                                             hash |-> Hash(b, range)]]
              /\ store' = IF g_active_stub_map_count > 0 /\ Brings(b, range)
                          THEN Brought(b, range) ELSE store
              /\ ubo' = [ubo EXCEPT ![c] = Bind(b, range)]
      /\ misread' = (misread \/ ubo'[c] # Bind(b, range) \/ ~Right(b, range))
      /\ Used("bindRange")
      /\ UNCHANGED <<tableVars, maps, mapped, step, held, memory>>

(* glBindBufferBase() does not look at the cache: programs that bind a     *)
(* range of a buffer to the index use it before, not after.                *)
BindBase(t, b) ==
  LET c == g_stub_current_ctx[t]
  IN  /\ Ready(t, "bindRange") /\ Readable(t, b, Parts)
      /\ "base binding" \in MapHabits \/ ranges[c].buffer = 0
      /\ ubo' = [ubo EXCEPT ![c] = Bind(b, Parts)]
      /\ Used("bindRange")
      /\ UNCHANGED <<tableVars, ranges, maps, store, mapped, step, programVars>>

-----------------------------------------------------------------------------
(* What GLState's calls do to mappings and ranges.                         *)

(* stub_gl_state_invalidate_buffer() before, the entries after the command *)
(* of a glDeleteBuffers().                                                 *)
NoteRanges(t) ==
  /\ ranges' = IF call[t].op # "delBuf" THEN ranges
               ELSE [c \in Contexts |-> [ranges[c] EXCEPT
                       !.buffer = IF @ = call[t].n THEN 0 ELSE @]]
  /\ UNCHANGED <<tableVars, maps, contentVars, step, programVars>>

ResetRanges(t) ==
  /\ ranges' = [c \in Contexts |-> IF c \in {g_stub_new_ctx, g_stub_current_ctx[t]}
                                   THEN [ranges[c] EXCEPT !.buffer = 0] ELSE ranges[c]]
  /\ UNCHANGED <<tableVars, maps, contentVars, step, programVars>>

(* In a new context nothing is bound to the index.  As in GLState, programs *)
(* make their contexts before they bind.                                   *)
FreshBinding ==
  /\ "late contexts" \notin Habits => \A c \in Contexts : ranges[c].buffer = 0
  /\ ubo' = [ubo EXCEPT ![g_stub_new_ctx'] = <<None, {}>>]
  /\ UNCHANGED <<tableVars, ranges, maps, store, mapped, step, programVars>>

(* MUTANT: the mappings of a deleted buffer stay in the tables.            *)
WithoutBufferNone(table, b) == table

WithoutBuffer(table, b) ==
  [i \in Ids |-> IF table[i].buffer = b THEN NoEntry ELSE table[i]]

DeleteMaps(t) ==
  LET b == call[t].n
      c == g_stub_current_ctx[t]
  IN  /\ maps' = WithoutBuffer(maps, b)
      /\ mapped' = mapped \ {b} /\ held' = held \ {b}
      /\ ubo' = [ubo EXCEPT ![c] = IF @[1] = Object(gen, "buf", b) THEN <<None, {}>> ELSE @]
      /\ step' = [step EXCEPT ![t] = Step("deleted", 0, Entry(b, {}, "read"), Blank)]
      /\ UNCHANGED <<tableVars, ranges, store, memory, misread>>

(* A new buffer is filled before it is used.                               *)
MakeStore(n) ==
  /\ store' = [store EXCEPT ![n] = Blank] /\ memory' = [memory EXCEPT ![n] = Blank]
  /\ UNCHANGED <<tableVars, ranges, maps, mapped, ubo, step, held, misread>>

RunMaps(t) ==
  CASE call[t].op = "delBuf" -> DeleteMaps(t)
    [] call[t].op = "genBuf" -> MakeStore(Given(g_stub_current_ctx[t], call[t]))
    [] OTHER -> UNCHANGED mapVars

(* The entries go, the count stays.                                        *)
ForgetMaps(t) ==
  /\ step[t].at = "deleted"
  /\ stub_maps' = WithoutBuffer(stub_maps, step[t].entry.buffer)
  /\ step' = [step EXCEPT ![t] = AtRest]
  /\ UNCHANGED <<left, copy, g_active_stub_map_count, ranges, maps, contentVars,
                 programVars>>

(* The calls of GLState, by threads that have returned from theirs here;   *)
(* no buffer is deleted while another thread maps or unmaps it.            *)
StateCall(t) ==
  /\ step[t] = AtRest
  /\ \/ /\ \/ \E o \in Ops : Begin(t, o)
           \/ Skip(t)
           \/ \E c \in Contexts : DestroyContext(t, c)
           \/ \E c \in Contexts \cup {0} : MakeCurrent(t, c)
        /\ call'[t].op = "delBuf" => ~Busy(t, call'[t].n)
        /\ UNCHANGED mapVars
     \/ CreateContext(t) /\ FreshBinding
     \/ ResetShadows(t) /\ ResetRanges(t)
     \/ Note(t) /\ NoteRanges(t)
     \/ Run(t) /\ RunMaps(t)

MapCall(t) ==
  \/ MapAgain(t)
  \/ \E range \in Ranges, access \in Accesses : SendMap(t, range, access)
  \/ KeepMap(t)
  \/ \E b \in Names, p \in Parts, v \in 1 .. left["store"] : Write(t, b, p, v)
  \/ \E range \in Ranges : Flush(t, range)
  \/ SendUnmap(t) \/ ForgetMap(t) \/ ForgetMaps(t)
  \/ \E vbos \in (SUBSET Names) \ {{}}, range \in Ranges : Draw(t, vbos, range)
  \/ \E b \in Names, range \in Ranges : BindRange(t, b, range)
  \/ \E b \in Names : BindBase(t, b)

MapNext == \/ \E t \in Threads : StateCall(t)
           \/ \E t \in Threads : MapCall(t) /\ UNCHANGED stateVars
MapSpec == MapInit /\ [][MapNext]_<<vars, mapVars>>

-----------------------------------------------------------------------------
(* Whatever was mapped again, unmapped or deleted meanwhile, and by        *)
(* whichever thread: once the calls have returned, the stub's table, the   *)
(* proxy's (alloc_map() in gles3_2.c) and the driver have the same buffers *)
(* mapped, in the same ranges and under the same ids, and they are those   *)
(* the program has mapped; and the count that lets glBindBufferRange()     *)
(* look for mappings has missed none.                                      *)
MapsAgree ==
  (\A t \in Threads : step[t] = AtRest) =>
    /\ stub_maps = maps
    /\ {maps[i].buffer : i \in Ids} \ {0} = mapped /\ mapped = held
    /\ g_active_stub_map_count >= Cardinality(mapped)

(* A command reads in its buffers what the program has written to them,    *)
(* through mappings that were unmapped, flushed or left as they are        *)
(* (stub_vbo_piggyback_range(), glBindBufferRange()), and glBindBufferRange() *)
(* is kept back only if the range is bound.                                *)
ReadsAreCurrent == ~misread
=============================================================================
