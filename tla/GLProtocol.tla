---------------------------- MODULE GLProtocol ----------------------------
(***************************************************************************)
(* A call of the stub libraries travels to the proxy and back: which bytes *)
(* the handler finds where it looks for its arguments and payload, and     *)
(* which bytes the caller takes for its answer.                            *)
(*                                                                         *)
(* The ring itself (slots, arena space, sleeping and waking) is BridgeRing;*)
(* here a command is begun, filled and published in one step, since all of *)
(* it happens under g_lock and the proxy sees nothing before the           *)
(* publication.  What is kept is who wrote what: a slot, an arena range or *)
(* the result buffer carries the number of the command that wrote it last. *)
(*                                                                         *)
(* Shapes is the set of ways an entry point and its handler meet, see      *)
(* CallShapes; MCGLProtocol takes it from the tables of all of them.       *)
(***************************************************************************)
EXTENDS Naturals, FiniteSets, CallShapes

CONSTANTS
    Threads,    \* threads of the program
    NoThread,   \* nobody holds g_lock
    Slots,      \* slots of the ring
    Commands,   \* bound: how many commands are begun
    Shapes      \* ways an entry point meets its handler

ASSUME SizeAssumption == Slots \in Nat \ {0} /\ Commands \in Nat /\ NoThread \notin Threads

\* Entry point and handler together; agrees: with the same argument layout.
Shape == [agrees : BOOLEAN, puts : SUBSET Regions, may : SUBSET Regions,
          keeps : SUBSET SlotRegions, waits : BOOLEAN, takes : SUBSET Reads,
          reads : SUBSET Regions, ifGiven : SUBSET Regions,
          gives : SUBSET Answers, mayGive : SUBSET Answers]

ASSUME ShapeAssumption == Shapes \subseteq Shape

VARIABLES
    published,   \* commands published so far, numbered from 1
    completed,   \* commands the proxy is done with
    g_lock,      \* holder
    slots,       \* the ring
    result_buf,  \* the command whose handler wrote it last
    arena,       \* for each command and region, what its range holds
    pc, cur, call, \* of each thread: where it is, its command, its call
    copy,        \* of each thread: what bridge_send_call() copied
    heard        \* what the last handler that ran has read

vars == <<published, completed, g_lock, slots, result_buf, arena, pc, cur, call,
          copy, heard>>

None == 0
Numbers == 1..Commands
Tag == 0..Commands
What == {"nothing", "payload", "answer"}
Content == [by : Tag, what : What]
Nothing == [by |-> None, what |-> "nothing"]
Copy == [value : Tag, length : Tag, buffer : Tag]

SlotOf(n) == n % Slots

(***************************************************************************)
(* A slot: the call it holds, the command whose ranges its offsets name,   *)
(* whose value and length its result fields hold.                          *)
(***************************************************************************)
NoCall == [puts |-> {}]
MaybeCall == Shapes \cup {NoCall}
Slot == [call : MaybeCall, names : [Regions -> Tag], value : Tag, length : Tag]
EmptySlot ==
    [call |-> NoCall, names |-> [r \in Regions |-> None],
     value |-> None, length |-> None]

Init ==
    /\ published = 0 /\ completed = 0
    /\ g_lock = NoThread
    /\ slots = [i \in 0..(Slots - 1) |-> EmptySlot]
    /\ result_buf = None
    /\ arena = [n \in Numbers |-> [r \in Regions |-> Nothing]]
    /\ pc = [t \in Threads |-> "idle"]
    /\ cur = [t \in Threads |-> None]
    /\ call = [t \in Threads |-> NoCall]
    /\ copy = [t \in Threads |-> [value |-> None, length |-> None, buffer |-> None]]
    /\ heard = {}

\* ring_reserve_slot() waits until the slot is free.
\* Mutant of RingFull: one command too late.
RingFullLate == published - completed > Slots
RingFull == published - completed >= Slots

(***************************************************************************)
(* bridge_begin(): an entry point that brings nothing leaves the slot with *)
(* a length of 0 but with the value of its previous command, and with the  *)
(* regions of that command where it does not clear them.                   *)
(***************************************************************************)
\* Mutant of Begun: the length of the slot's previous answer is kept.
BegunWithLength(slot) == slot
Begun(slot) == [slot EXCEPT !.length = None]

Filled(slot, c, brings, n) ==
    [call |-> c,
     names |-> [r \in Regions |-> IF r \in brings THEN n
                                 ELSE IF r \in c.keeps THEN slot.names[r]
                                 ELSE None],
     value |-> slot.value, length |-> slot.length]

(***************************************************************************)
(* Ranges of completed commands are free for the next ones: writing n may  *)
(* overwrite any of those a caller has still to read.                      *)
(***************************************************************************)
StillRead == {cur[t] : t \in {u \in Threads : pc[u] = "reading"}}

Put(n, brings, over) ==
    [m \in Numbers |->
        IF m = n
          THEN [r \in Regions |-> IF r \in brings THEN [by |-> n, what |-> "payload"]
                                  ELSE Nothing]
          ELSE IF m \in over
            THEN [r \in Regions |-> [by |-> n, what |-> "payload"]]
            ELSE arena[m]]

(***************************************************************************)
(* An entry point from BRIDGE_BEGIN() to BRIDGE_SEND_VOID() or to the wait *)
(* in BRIDGE_SEND_CALL().                                                  *)
(***************************************************************************)
Begin(t, c) ==
    /\ pc[t] = "idle" /\ g_lock = NoThread
    /\ published < Commands
    /\ ~RingFull
    /\ LET n == published + 1 IN
       /\ published' = n
       /\ \E some \in SUBSET c.may :
            LET brings == c.puts \cup some IN
            /\ slots' = [slots EXCEPT ![SlotOf(n)] = Filled(Begun(@), c, brings, n)]
            /\ \E over \in SUBSET StillRead :
                 /\ brings = {} => over = {}
                 /\ arena' = Put(n, brings, over)
       /\ IF c.waits
            THEN /\ g_lock' = t
                 /\ pc' = [pc EXCEPT ![t] = "waiting"]
                 /\ cur' = [cur EXCEPT ![t] = n]
                 /\ call' = [call EXCEPT ![t] = c]
            ELSE UNCHANGED <<g_lock, pc, cur, call>>
    /\ UNCHANGED <<completed, result_buf, copy, heard>>

(***************************************************************************)
(* What the handler of slot s reads.  An offset that names no range is 0,  *)
(* and what lies there is anybody's; arguments in another order than they  *)
(* were written are nobody's.                                              *)
(***************************************************************************)
RangeOf(s, r) == IF s.names[r] = None THEN Nothing ELSE arena[s.names[r]][r]

Given(s) == {r \in s.call.ifGiven : s.names[r] # None}

Heard(s) ==
    {RangeOf(s, r) : r \in s.call.reads \cup Given(s)}
    \cup IF s.call.agrees THEN {} ELSE {Nothing}

(***************************************************************************)
(* An answer in a region goes to the range the slot names, or, when the    *)
(* command brought none, to offset 0 of the arena, which may lie in any    *)
(* other range.                                                            *)
(***************************************************************************)
Answered(n, s, gives, hit) ==
    LET answer == [by |-> n, what |-> "answer"]
        rooms == gives \cap SlotRegions
    IN  [m \in Numbers |-> [r \in Regions |->
            IF \/ r \in rooms /\ s.names[r] = m
               \/ m \in hit
              THEN answer ELSE arena[m][r]]]

Misses(s, gives) == \E r \in gives \cap SlotRegions : s.names[r] = None

Dispatch ==
    /\ completed < published
    /\ LET n == completed + 1
           i == SlotOf(n)
           s == slots[i]
       IN \E more \in {{}, s.call.mayGive} :
          LET gives == s.call.gives \cup more IN
          /\ heard' = Heard(s)
          /\ slots' = [slots EXCEPT
                 ![i].value = IF "value" \in gives THEN n ELSE @,
                 ![i].length = IF "length" \in gives THEN n ELSE @]
          /\ result_buf' = IF "buffer" \in gives THEN n ELSE result_buf
          /\ \E hit \in SUBSET (StillRead \cup (n + 1)..published) :
                 /\ ~Misses(s, gives) => hit = {}
                 /\ arena' = Answered(n, s, gives, hit)
          /\ completed' = n
    /\ UNCHANGED <<published, g_lock, pc, cur, call, copy>>

(***************************************************************************)
(* bridge_send_call(), answered: the copies are made, then g_lock is       *)
(* dropped.                                                                *)
(***************************************************************************)
Copied(t) ==
    LET s == slots[SlotOf(cur[t])]
    IN  [value |-> s.value, length |-> s.length, buffer |-> result_buf]

Return(t) ==
    /\ pc[t] = "waiting" /\ completed >= cur[t]
    /\ copy' = [copy EXCEPT ![t] = Copied(t)]
    /\ g_lock' = NoThread
    /\ pc' = [pc EXCEPT ![t] = "reading"]
    /\ UNCHANGED <<published, completed, slots, result_buf, arena, cur, call, heard>>

\* The entry point has read its answer and returns to the program.
Finish(t) ==
    /\ pc[t] = "reading"
    /\ pc' = [pc EXCEPT ![t] = "idle"]
    /\ cur' = [cur EXCEPT ![t] = None]
    /\ call' = [call EXCEPT ![t] = NoCall]
    /\ copy' = [copy EXCEPT ![t] = [value |-> None, length |-> None, buffer |-> None]]
    /\ UNCHANGED <<published, completed, g_lock, slots, result_buf, arena, heard>>

Next ==
    \/ Dispatch
    \/ \E t \in Threads : Return(t) \/ Finish(t) \/ \E c \in Shapes : Begin(t, c)

Spec == Init /\ [][Next]_vars
-----------------------------------------------------------------------------
(***************************************************************************)
(* Types, and no command beyond the ring: the slots of the commands not    *)
(* yet completed are distinct.                                             *)
(***************************************************************************)
TypeOK ==
    /\ published \in Tag /\ completed \in Tag
    /\ completed <= published /\ published <= completed + Slots
    /\ g_lock \in Threads \cup {NoThread}
    /\ slots \in [0..(Slots - 1) -> Slot]
    /\ result_buf \in Tag
    /\ arena \in [Numbers -> [Regions -> Content]]
    /\ pc \in [Threads -> {"idle", "waiting", "reading"}]
    /\ cur \in [Threads -> Tag]
    /\ call \in [Threads -> MaybeCall]
    /\ heard \subseteq Content
    /\ copy \in [Threads -> Copy]

(***************************************************************************)
(* A handler works on what its own entry point sent: it decodes the        *)
(* arguments in the order they were written, every region it reads was     *)
(* brought by its own command, and nobody has written there since.         *)
(***************************************************************************)
PayloadIsOwn == \A x \in heard : x = [by |-> completed, what |-> "payload"]

(***************************************************************************)
(* What a caller takes of the copies made under g_lock is the answer of    *)
(* its own command, whatever the other threads do.  A caller that looks at *)
(* the length first leaves the buffer alone when it is 0.                  *)
(***************************************************************************)
Looks(t, part) ==
    /\ part \in call[t].takes
    /\ (part = "buffer" /\ "length" \in call[t].takes) => copy[t].length # None

CopyIsOwn ==
    \A t \in Threads : pc[t] = "reading" =>
        /\ Looks(t, "value") => copy[t].value = cur[t]
        /\ Looks(t, "length") => copy[t].length \in {cur[t], None}
        /\ Looks(t, "buffer") => copy[t].buffer = cur[t]

(***************************************************************************)
(* What a caller reads from its slot or from the arena after it dropped    *)
(* g_lock is its own answer as long as no other thread has begun a command *)
(* (when one has, see SlotReuse and LargePayload).                         *)
(***************************************************************************)
LateReadIsOwn ==
    \A t \in Threads : pc[t] = "reading" /\ published = cur[t] =>
        LET s == slots[SlotOf(cur[t])] IN
        /\ Looks(t, "slot") => s.value = cur[t]
        /\ \A r \in SlotRegions : Looks(t, r) /\ s.names[r] = cur[t] =>
               arena[cur[t]][r] = [by |-> cur[t], what |-> "answer"]
=============================================================================
