---------------------------- MODULE CallShapes ----------------------------
(***************************************************************************)
(* How the tables of GLStubCalls and GLProxyCalls write down an entry      *)
(* point of the stub and a handler of the proxy.                           *)
(*                                                                         *)
(* args is the argument layout, the sequence of aw_*() calls of the entry  *)
(* point or of ar_*() calls of the handler: w a 32-bit word (aw_u32,       *)
(* aw_i32), d a 64-bit one (aw_u64), f a float (aw_f32), * the word or     *)
(* words that follow a count and are repeated that often.                  *)
(*                                                                         *)
(* A region is a range of the data arena that a command carries: "data"    *)
(* and "data2" are named by the slot (data_offset/data_size and            *)
(* data2_offset/data2_size), "list" stands for the ranges whose offsets    *)
(* are written into the arguments (client arrays, shader strings).         *)
(*                                                                         *)
(* An answer travels in the slot ("value": C->result, "length":            *)
(* C->result_buf_len), in the one result buffer of the ring ("buffer") or  *)
(* in a region the command brought ("data", "data2").                      *)
(***************************************************************************)

Regions == {"data", "data2", "list"}
SlotRegions == {"data", "data2"}            \* those the slot itself names
Answers == {"value", "length", "buffer", "data", "data2"}
Reads == Answers \cup {"slot"}              \* "slot": C->result after the unlock

(***************************************************************************)
(* An entry point of the stub.                                             *)
(*   puts   regions every call brings (data to read, room for an answer)   *)
(*   may    regions it brings for some of its arguments                    *)
(*   keeps  slot regions it neither writes nor clears, so that the slot    *)
(*          still names those of its previous command                      *)
(*   waits  bridge_send_call() rather than bridge_send_void()              *)
(*   takes  what it reads of the answer                                    *)
(***************************************************************************)
Entry(args, puts, may, waits, takes, ops) ==
    {[op |-> o, args |-> args, puts |-> puts, may |-> may, keeps |-> {},
      waits |-> waits, takes |-> takes] : o \in ops}

Tells(args, ops) == Entry(args, {}, {}, FALSE, {}, ops)
Sends(args, puts, ops) == Entry(args, puts, {}, FALSE, {}, ops)
MaySend(args, may, ops) == Entry(args, {}, may, FALSE, {}, ops)
Asks(args, takes, ops) == Entry(args, {}, {}, TRUE, takes, ops)
Calls(args, puts, may, takes, ops) == Entry(args, puts, may, TRUE, takes, ops)

Keeping(regions, entries) == {[e EXCEPT !.keeps = regions] : e \in entries}

(***************************************************************************)
(* A handler of the proxy.                                                 *)
(*   reads    regions it reads without a test                              *)
(*   ifGiven  regions it reads when their size (or their offset) is not 0  *)
(*   gives    the parts of the answer it writes                            *)
(*   mayGive  those it writes on some paths only                           *)
(***************************************************************************)
Handler(args, reads, ifGiven, gives, ops) ==
    {[op |-> o, args |-> args, reads |-> reads, ifGiven |-> ifGiven,
      gives |-> gives, mayGive |-> {}] : o \in ops}

Runs(args, ops) == Handler(args, {}, {}, {}, ops)
RunsOn(args, reads, ops) == Handler(args, reads, {}, {}, ops)
RunsIfGiven(args, ifGiven, ops) == Handler(args, {}, ifGiven, {}, ops)
Replies(args, gives, ops) == Handler(args, {}, {}, gives, ops)

OnlySometimes(gives, handlers) ==
    {[h EXCEPT !.gives = @ \ gives, !.mayGive = gives] : h \in handlers}
=============================================================================
