---------------------------- MODULE MapInvariant ----------------------------
(***************************************************************************)
(* The inductive invariant behind MapsAgree and ReadsAreCurrent of         *)
(* BufferMaps, the latter for programs without special MapHabits.          *)
(***************************************************************************)
EXTENDS BufferMaps, GLInvariant

MapType == [buffer : Name0, range : SUBSET Parts, access : Accesses]
MapTypes ==
  /\ stub_maps \in [Ids -> MapType] /\ maps \in [Ids -> MapType]
  /\ mapped \subseteq Names /\ held \subseteq Names
  /\ g_active_stub_map_count \in Int
  /\ DOMAIN step = Threads
  /\ \A t \in Threads : /\ step[t].at \in {"rest", "mapped", "unmapped", "deleted"}
                        /\ step[t].entry \in MapType
                        /\ step[t].at = "rest" => step[t] = AtRest

(* A buffer has one entry, and what stands in a free one does not matter.  *)
Once(table) ==
  /\ \A i \in Ids : table[i].buffer = 0 => table[i] = NoEntry
  /\ \A i, j \in Ids : table[i].buffer = table[j].buffer /\ table[i].buffer # 0 => i = j

(* A thread that has not returned from mapping, unmapping or deleting a    *)
(* buffer is alone with it; the id it was given is not given away again.   *)
StepInv ==
  \A t \in Threads :
    LET s == step[t]
        b == s.entry.buffer
    IN  /\ s.at = "mapped" => s.id \in Ids /\ maps[s.id] = s.entry
        /\ s.at = "unmapped" => /\ s.id \in Ids /\ stub_maps[s.id] = s.entry
                                /\ maps[s.id] = NoEntry
        /\ s.at \in {"unmapped", "deleted"} => b \notin mapped
        /\ s.at # "rest" => /\ b # 0
                            /\ \A u \in Threads \ {t} :
                                 /\ step[u].entry.buffer # b
                                 /\ call[u].op = "delBuf" => call[u].n # b

(* But for such buffers the tables agree.                                  *)
Unreturned == {0} \cup {step[t].entry.buffer : t \in Threads}
Same(i) == \/ stub_maps[i] = maps[i]
           \/ stub_maps[i].buffer \in Unreturned /\ maps[i].buffer \in Unreturned
Occupied(table) == {i \in Ids : table[i].buffer # 0}
AgreeInv ==
  /\ \A i \in Ids : Same(i)
  /\ mapped = {maps[i].buffer : i \in Occupied(maps)}
  /\ held \subseteq mapped
  /\ \A b \in mapped \ held :
       \E t \in Threads : step[t].at = "mapped" /\ step[t].entry.buffer = b
  /\ g_active_stub_map_count >= Cardinality(Occupied(stub_maps))

TablesInv == MapTypes /\ Once(stub_maps) /\ Once(maps) /\ StepInv /\ AgreeInv

Contents == [Parts -> Int]
ContentTypes ==
  /\ store \in [Names -> Contents] /\ memory \in [Names -> Contents]
  /\ copy \in [Ids -> Contents] /\ DOMAIN ubo = Contexts
  /\ DOMAIN ranges = Contexts
  /\ \A c \in Contexts : DOMAIN ranges[c] = DOMAIN NoRange
  /\ left \in [Ops \cup EglOps \cup MapOps -> Nat]
  /\ \A t \in Threads : step[t].at = "mapped" =>
       /\ step[t].data \in Contents
       /\ step[t].entry.access \in {"write", "stream"} =>
            step[t].data = [p \in Parts |-> Unwritten]

(* A copy holds, where the program has written since it was made, what the *)
(* buffer should hold, and the driver holds the rest.  No value written is *)
(* one that is still to be written.                                        *)
Settled(b) == b \in held \ Unreturned
Written(i, p) == /\ stub_maps[i].access \in {"write", "stream"}
                 /\ p \in stub_maps[i].range /\ copy[i][p] # Unwritten
CopyInv(i) ==
  LET b == stub_maps[i].buffer
  IN  Settled(b) => \A p \in Parts :
        Written(i, p) => copy[i][p] = memory[b][p] /\ copy[i][p] > left["store"]
StoreInv(b) ==
  \A p \in Parts : \/ store[b][p] = memory[b][p]
                   \/ Settled(b) /\ \E i \in Ids : stub_maps[i].buffer = b /\ Written(i, p)

(* The range the cache remembers is bound, and the driver has the contents *)
(* it was bound with unless they were written since.                       *)
RangeInv(c) ==
  LET r == ranges[c]
  IN  /\ r.buffer \in Kept("buf", c) /\ DOMAIN r.hash \subseteq Parts
      /\ r.buffer # 0 => ubo[c] = Bind(r.buffer, r.range)
      /\ \A p \in DOMAIN r.hash :
           /\ r.hash[p] \in Int /\ r.hash[p] > left["store"]
           /\ r.buffer # 0 /\ memory[r.buffer][p] = r.hash[p] =>
                store[r.buffer][p] = memory[r.buffer][p]

ContentInv == /\ ContentTypes /\ mapped \subseteq live["buf"][0]
              /\ \A i \in Ids : CopyInv(i)
              /\ \A b \in live["buf"][0] : StoreInv(b)
              /\ \A c \in Contexts : RangeInv(c)
              /\ ~misread

(* The tables are larger than the number of buffers.                       *)
Roomy == IsFiniteSet(Names) /\ Cardinality(Names) < MAX_MAPS

(* The copies of GL state agree with the driver, whatever is mapped, and   *)
(* the tables of mappings with each other, but for what a thread that has  *)
(* run glMapBufferRange(), glUnmapBuffer() or glDeleteBuffers() has yet to *)
(* write down; and what the driver does not have of a buffer's contents,   *)
(* the copies glMapBufferRange() of the stub gave out have.                *)
AllTablesInv == GLInv /\ TablesInv
MapInv == AllTablesInv /\ ContentInv
=============================================================================
