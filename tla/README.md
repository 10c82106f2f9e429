# webos-bridge-64to32: verification project

The repository lets a 64-bit program on a webOS TV use the TV's 32-bit EGL,
OpenGL ES and Wayland libraries.  A **stub** library (64 bit, `src/stub/`) is
loaded instead of `libEGL`, `libGLESv2` and `libwayland-client`; it packs every
call into shared memory.  A **proxy** process (32 bit, `src/proxy/`), started by
the stub, unpacks the calls and runs them on the real libraries.

These modules model the parts of that bridge whose correctness depends on
order, concurrency and sharing.  `PROJECT.json` lists components, runs, mutants,
the map from definitions to source lines, findings, hazards and theorems.

## 1. Inventory

| Component | Where | State | Operations | What must hold |
|---|---|---|---|---|
| Command ring | `stub/bridge_core.c`, main loop of `proxy/proxy.c`, `include/gles_bridge_protocol.h` | `published_seq`, `completed_seq`, `data_tail`, `consumer_waiting`, slots, result buffer, two eventfds; in the stub `g_lock`, `g_local_seq`, `g_local_data_head`, `g_pending_swap_seq` | `bridge_begin`, `bridge_data_write`, `bridge_send_void/call/swap`, the dispatch loop | calls run once and in order; no slot or arena byte is reused early; a reply is the caller's own; no lost wake-up; one frame ahead at most |
| Fence syncs | `bridge_sync_alloc/free/done`, `protocol/gles3_2.c` | 255 ids with a 24-bit generation, the completion table, eight deferred waits | `glFenceSync`, `glClientWaitSync`, `glDeleteSync` | a handle never reports another fence's completion; memory is not touched before the fences that protect it |
| EGL objects, query caches | `egl_stub.c`, `wl_egl_stub.c`, `protocol/egl.c` | contexts, surfaces, per-thread current context, cached sizes and ages with generations | create, destroy, make current, query, swap, resize, `egl_bind_target_ctx` | a command runs in the context its thread made current; a cached value is no older than what the program knows |
| GL call marshalling | `gles2_stub.c`, `gles3_2_stub.c`, `egl_stub.c`, `protocol/gles2.c`, `protocol/gles3_2.c`, `protocol/egl.c` | none of its own | 342 entry points, 345 handlers | both sides agree on layout and regions; results are read while they are still the caller's |
| GL shadow state | `gles_util_stub.h`, `gles2_stub.c`, `gles3_2_stub.c` | per-context copy of bindings and capabilities | set, new context, make current, delete | a call skipped as redundant would not have changed anything |
| Framebuffer cache, vertex array restore | `protocol/gles2.c`, `protocol/gles3_2.c` | attachments by context and framebuffer; index buffer by vertex array | attach, bind, delete, forget | a skipped attach is already in place |
| Buffer mappings | `gles_util_stub.h`, `gles2_stub.c`, `gles3_2_stub.c`, `gles_util_proxy.h`, `gles3_2.c` | `stub_maps` and the copies they own, the proxy's table of 64, `g_bufrange_cache` | map, write, flush, unmap, delete, draw, bind a range | both tables agree with the driver; a command reads what the program wrote |
| Wayland channel | `wl_bridge_*`, `wl_dispatch_thread`, `stub/wl_stub.c`, `protocol/wl.c` | `g_wl` with a lock and eventfds of its own, the proxy's event tables, `g_bs`, callbacks | requests, dispatch, listeners | events arrive once, in order, at the right listener, and wake the program |
| Life cycle | `bridge_init`, `bridge_cleanup`, SIGCHLD handler, `at_exit_proxy_cleanup` | `g_ring`, `g_proxy_pid`, the Wayland thread | start, fork and exec, cleanup, death of either side | one initialisation; no thread waits for a dead proxy; exit terminates |
| Configuration | `bridge/bridge_config.c` | parsed options | parse, clamp | both processes see the same values |

Interactions: every GL and EGL entry point of the stub goes through the command
ring; Wayland requests go through a second channel with a thread of its own in
the proxy, which shares the process, but no lock, with the ring's loop.  EGL in
that loop and the Wayland thread read the same compositor socket.  The two
processes share memory and eventfds only.  Life cycle is fork/exec, `PDEATHSIG`
and `SIGCHLD`.

Hard behaviour: threads of the application interleave before, inside and after
`g_lock`; both processes sleep on eventfds with a re-check protocol; the ring and
the arena fill up and wrap; results are read after a lock is dropped; many
caches mirror state of the other process or of the driver, and names and
indices are used again; events are collected by one thread and announced by
another.

The 40 hazards of this code, each at its line and with the properties that
watch it, are in `PROJECT.json`.

## 2. Modules

| Module | Role |
|---|---|
| `BridgeRing` | the command ring: stub threads, shared memory, proxy loop; the properties |
| `CallOrder` | its abstract service: commands run one at a time, in the order of issue |
| `RingInvariant` | the inductive invariant of `BridgeRing`, in named parts |
| `SyncPool`, `SyncInvariant` | fence syncs: handle allocator and entry points of the stub, table, handlers and deferred waits of the proxy, the driver's sync objects; the inductive invariant |
| `EglContexts` | contexts and surfaces over the ring, `eglMakeCurrent()` and its skips, re-binding in the proxy, query caches |
| `CurrentContext` | its abstract service: a command acts on its own thread's binding |
| `EglInvariant` | the inductive invariant of `EglContexts`, in named parts |
| `CallShapes` | how a call is written down: argument layout, regions, answer |
| `GLStubCalls`, `GLProxyCalls` | the tables of all entry points and of all handlers, in source order |
| `GLProtocol` | one call of any shape through slots, arena and result buffer |
| `ProtocolInvariant` | when an entry point fits its handler; the inductive invariant of `GLProtocol` |
| `GLDriver` | the driver's state, names and objects (external) |
| `GLServer` | the abstract service: every call takes effect once, in its thread's context |
| `GLState` | shadow state of the stub, framebuffer and vertex array caches of the proxy |
| `GLInvariant` | the inductive invariant of `GLState`, in named parts |
| `BufferMaps` | extends `GLState` by mapped buffers and the buffer range cache |
| `MapInvariant` | the inductive invariant of `BufferMaps`: tables of mappings, contents of buffers |
| `WaylandBridge` | the Wayland channel, its thread, the events' way to the listeners |
| `WaylandInvariant` | the programs it is made for; the inductive invariant of `WaylandBridge`, in named parts |
| `MCBridgeRing`, `MCSyncPool`, `MCEglContexts`, `MCGLProtocol`, `MCGLState`, `MCWaylandBridge` | small instances for TLC |
| `Remainders` | lemmas about `%`, for sequence numbers and slots |
| `BridgeRing_proofs` | the ring: types, lock, cursors, slots, waits, replies, wake-ups, the data arena; it implements `CallOrder` |
| `SyncPool_proofs` | types, unique handles, one owner per sync object, true reports, held fences found, memory touched after fences |
| `GLProtocol_proofs` | payloads, copies and late reads, for any calls that fit |
| `EglContexts_proofs` | types of `EglContexts`, one blocking call at a time, tables and handles |
| `EglSafety_proofs` | bounds, bindings, commands and caches; the theorems about EGL |
| `GLState_proofs` | the copies of GL state; it implements `GLServer`, with and without mapped buffers; the tables of mappings; what buffers hold and commands read |
| `WaylandBridge_proofs` | types, the channel, keys and states on their way to the listeners |

The modules stand on each other by what the lower one promises.
`BridgeRing_proofs` shows that the ring runs commands one at a time in the
order of issue (`CallOrder`); so `SyncPool` and `EglContexts` model it as a
bounded FIFO in which a send is one step, and `GLProtocol` keeps of it who wrote
which slot, region and buffer last.  `EglContexts` shows that commands act on
their own thread's context (`CurrentContext`); so `GLState` runs a call in that
context, in one step with its send.  `BufferMaps` extends `GLState`, since a
mapping is found by what `GLState` has bound, and deletions act on both.

### How `BridgeRing` corresponds to the code

A thread's `pc` follows one call; one action stands for the code between two
accesses to memory that another thread or process uses.

| Action | Code |
|---|---|
| `AcquireLock` | `pthread_mutex_lock(&g_lock)` in `bridge_begin()` |
| `ReserveSlot` | the loop of `ring_reserve_slot()` once it finds room, and the rest of `bridge_begin()` |
| `StartWrite`, `FinishWrite` | `bridge_data_write()`: the call, and the round of `ring_data_alloc()` that finds space, the copy and the watermark |
| `Publish` | `publish_cur()` up to the store of `published_seq`; which sequence number the send waits for is fixed here |
| `WakeProxy` | the `consumer_waiting` test and post; for `bridge_send_void()` the unlock |
| `Sleep`, `WakeUp` | `wait_completed()`: the test that fails, then the blocking read |
| `FinishSend` | the end of `bridge_send_call()` / `bridge_send_swap()`: result taken, unlock |
| `Return` | the entry point reads its results and returns |
| `ProxyIdle` .. `ProxyDisarm` | the proxy announces that it sleeps, looks again, reads `req_efd` |
| `ProxyDispatch` | the handler of the oldest slot |
| `ProxyRelease`, `ProxyComplete`, `ProxyRespond` | `data_tail`, `completed_seq`, post of `resp_efd` |

Abstractions.  A command is its sequence number and one of three kinds: `void`
(no answer), `call` (blocking) and `swap`.  A payload is the set of arena ranges
it occupies.  An eventfd is readable or not: `read()` on a counting eventfd takes
the whole count.  Spinning before a sleep repeats the same test and is left out;
a loop around `nanosleep()` is the guard it polls.  Atomics are sequentially
consistent, which on aarch64 the pair release store / seq_cst load gives
(STLR, LDAR).  `ran`, and `at` in an arena range, are history.

### How `SyncPool` corresponds to the code

| Action | Code |
|---|---|
| `FenceAlloc`, `FenceSend` | `glFenceSync()`: `bridge_sync_alloc()`, then the command |
| `WaitCheck` | `glClientWaitSync()`: `bridge_sync_done()`, and the early return when it says yes |
| `WaitSend` | the command with its mode: 0 (`block`, the only one that is answered), 1 (`poll`), 2 (`defer`, `fast_client_wait` while a buffer is mapped) |
| `DeleteSend`, `DeleteFree` | `glDeleteSync()`: the command, then `bridge_sync_free()` |
| `TouchSend` | any call whose handler reads or writes memory that fences protect |
| `RunFence`, `RunFenceRefused` | `h_glFenceSync()`, with the driver's success or failure |
| `RunDefer` | `h_glClientWaitSync()` in mode 2: `defer_push()` |
| `RunWaitSignaled`, `RunWaitExpired`, `RunWaitFailed` | `h_glClientWaitSync()` in the other modes, and for unknown handles |
| `RunDelete` | `h_glDeleteSync()` with `defer_adopt_delete()` |
| `ResolveOne` | one round of `proxy_resolve_deferred_waits()`; `MustResolve` says who calls it: a handler that touches memory, or `defer_push()` on a full list |
| `RunTouch` | the rest of that handler |
| `Signal` | the GPU reaches a fence |

Abstractions.  A handle is the record of its id and generation.  The driver is
external: a sync object is known to the contexts of its share group, a wait for
one that is not there fails, and the driver may cap the timeout of a wait.
Mapping and unmapping themselves belong to the buffer component; whether a wait
is deferred is a free choice.  The application deletes a fence once, and not
while another of its threads is between the check and the send of a wait for
it.  `held`, `promised`, `reported`, `refused` and `after` are history.  The
pool's mutex makes allocation and freeing single steps.  The polling under
`DEBUG_POLL_PENDING_SYNCS` is left out.

### How `EglContexts` corresponds to the code

One action per entry point of the stub up to its send (`CreateWindowSurface`,
`DestroySurface`, `DestroyContext`, `MakeCurrent`, `SwapBuffers`, `Resize`, the
`PlainCall`s), one for what it does with the answer (`ReturnQuery`,
`ReturnMakeCurrent`, ..., `ReturnPlain` where there is nothing to do), one
per skipped call (`MakeCurrentAgain`, `QueryHit`), and `Dispatch`, which runs the
oldest command by `FollowThread` (`egl_bind_target_ctx()`) and its `Run...`
handler.  Blocking calls hold `g_lock` until the answer, so only one is under
way.  Table indices are reused (`TableAlloc`), the driver's objects are numbered
once.  The driver may refuse to create.  History: `app`, `ctxOf` and `surfOf`
(what the program's handles stand for), `floor` (what it knows to be over),
`acted`, and `want` in a command: what its thread had current.  A handle ends
when the call that destroys it starts: the proxy frees the index before the
answer is back, and a concurrent create may be given it.

The program destroys and re-binds only what no thread uses, keeps at most
`MAX_CONTEXTS - 1` contexts (the re-binding ignores the last index, a listed
hazard), and with `Exclusive` does not resize or swap a surface while another
thread asks for its size or age: the generation is read after the answer, so
such a change can mark an old value as fresh.

### How `GLProtocol` corresponds to the code

`GLStubCalls` has one line per kind of entry point: which words it writes, which
regions it brings always or for some arguments, which slot fields it leaves
alone, whether it waits, and what it takes of the answer.  `GLProxyCalls` says
the same of the handlers.  `MCGLProtocol` joins the two by operation; a shape is
what is left when the name is dropped, and calls of one shape behave alike.
`Begin` is everything under `g_lock` up to the publication, `Dispatch` the
handler, `Return` the copies of `bridge_send_call()`, `Finish` the end of the
entry point.  Values are replaced by the number of the command that wrote them.
What an entry point decides before `BRIDGE_BEGIN()` is not in the tables.

### How `GLState` and `BufferMaps` correspond to the code

A call is `Begin` (with `ResetShadows` if a context was made since), then either
`Skip` (the shadow says it is redundant) or `Note` (what the stub writes down, which
it does before it sends) and `Run` (sent and handled, with the caches of the
proxy; what `glGenVertexArrays()` writes down of the names it got goes with it).
`cap` and `view` stand for the values that are
compared as a whole.  An object is told from an earlier one of its name by a
generation, so a cache that survives a deletion is caught.

`BufferMaps` adds mapping, writing, flushing, unmapping, deleting, drawing and
binding a range.  Buffers have two parts, and `memory` is what they should
hold.  The stub changes its table after the send, with `g_lock` dropped: that is
a step of its own (`KeepMap`, `ForgetMap`, `ForgetMaps`).

The constants `Habits` and `MapHabits` name what programs may do that this code
is not made for.  The runs take them empty; each was checked to break a
property, and each is a hazard with a note:

| Habit | What goes wrong |
|---|---|
| late contexts | `ShadowReset`: the reset hits a context in use |
| buffers first | a new context's vertex array bookkeeping starts before the reset and is lost with it |
| deletes bound objects | a context that still has the deleted object bound is told that its name is free |
| names per context | the deletion of a framebuffer or vertex array clears the name in all shadows |
| crossing | a thread maps while another has not returned from unmapping or deleting: its entry is lost with the old one |
| partial writes | the rest of the copy, never written, is sent with it at the unmap |
| reads across | a draw that reaches outside the mapping brings nothing |
| two streams | a draw brings the bytes of one vertex buffer only |
| equal values | the range cache compares a hash, and the contents may have changed in between |
| base binding | `glBindBufferBase()` leaves the range cache as it was, so a range that is bound again after it is not bound; programs without this habit use it only before they bind ranges to the index |

A buffer is mapped again without an unmap only when what was written has been
brought, and the tables are larger than the number of buffers.

### How `WaylandBridge` corresponds to the code

| Action | Code |
|---|---|
| `Send`, `Receive` | `wl_bridge_begin()`, the command and `req_wl_efd`; `resp_wl_efd`, the result and the unlock |
| `Create`, `Created`, `NameSurface` | `wl_compositor.create_surface`: the handle is numbered after the unlock |
| `AskShell`, `AddListener`, `Show`, `DropShell`, `Destroy` | the life of a webOS shell surface |
| `Frame`, `Attach` | `wl_surface.frame` and the listener of the callback |
| `ListenToRegistry`, `Dispatch`, `FireGlobals`, `FireCallbacks`, `Collect`, `RoundtripDone` | `_bridge_dispatch()` up to the answer of `wl_roundtrip` |
| `FocusFirst`, `DeliverKey`, `DeliverState` | the listeners, called with what the result buffer holds and without the lock |
| `ProxyPrepare`, `ProxyPoll`, `ProxyDispatch`, `ProxyHandle` | one round of `wl_dispatch_thread()` |
| `Hear` | one event of `wl_display_dispatch_pending()`: the listeners of the proxy, in either of its loops and in a roundtrip |
| `Roundtrip`, `ProxyCollect` | `h_wl_roundtrip()`: reading the socket, then, when nothing is queued, writing down what the listeners collected |
| `CreateSurface`, `GetShellSurface`, `SurfaceRequest`, `Answer` | the other handlers; the answer |
| `SendKey`, `SendState`, `EglReads` | the compositor, and EGL as another reader of its socket (external) |

Modelled after `wl_display_connect()`, with one registry and one seat.  A key is
its number, a state is that of one surface; handles are offsets, which is what
the code takes them apart into.  `life`, `unheard`, `awaited`, `sent`,
`bs.heard` and `bs.told` are history.  One thread dispatches (`Dispatchers`) and
one makes objects (`Creators`); `WlHabits` names what else programs and EGL may
do.  Outside these limits the properties fail, and the hazards say so:

| Beyond | What goes wrong |
|---|---|
| two dispatching threads | the second one's answer overwrites the result buffer the first is reading: keys are lost or doubled |
| two creating threads | slots and handles are numbered in different orders: states go to the wrong surface |
| late_listeners | a state that comes before the surface's own listener goes to the one attached last |
| replaced_windows | a late state of the destroyed surface goes to the new one's listener |
| many_callbacks | a number is taken while its callback still waits: it is never done |
| egl_reads | `LostWakeup` |

A late FULLSCREEN state of a surface that the program has destroyed still moves
the keyboard's focus; `StatesSettle` claims the focus only until then.

## 3. Runs

| Run | Question | Bounds |
|---|---|---|
| `Ring` | every safety property of the ring and of both wake-ups, in every interleaving, no deadlock; every send lets go of the lock; refinement of `CallOrder` with fairness | 2 threads, 2 slots, 4 calls of 3 kinds: the ring wraps twice and fills, and a thread queues behind every kind |
| `Arena` | payload ranges; a writer that waits for space gets it; refinement, with `async_swap=0`, where every swap blocks | 1 thread (`g_lock` makes all writers one), 20 bytes, sizes 3 and 8, two writes per command, 3 commands: the arena wraps with and without padding and fills |
| `LargePayload` | *violation*: a payload the allocator accepts but that never fits | sizes 8 and 16 in 20 bytes |
| `SlotReuse` | *violation*: a slot read after the unlock belongs to another call | 2 threads, 2 slots |
| `SyncPool` | the safety properties of fences, in every interleaving, and no deadlock | 2 threads, one share group, 2 ids, 3 fences (so an id is reused while commands for the old handle are still about), 3 waits or touches, a deferred list of one entry (so it fills), a ring of 2 |
| `SyncLive` | every fence call comes back | 1 id, 2 fences, ring and list of one entry: everything that can be full is full |
| `EglContexts` | the inductive invariant, handles, current context, queries, refinement of `CurrentContext` | 2 threads, tables of 3 contexts and 2 surfaces, a ring of 2; three workloads: contexts replaced, surfaces replaced under a context that changes hands, queries of a surface that is drawn, resized and replaced.  Each reuses an index while the other thread's cache still names it |
| `GLProtocol` | that every entry point fits its handler; the inductive invariant; payload, copies and late reads of every call | all shapes of the 342 entry points, 3 commands in a row on 2 slots by 2 threads: a slot is used twice, and a caller still reads while two others have come |
| `GLState` | the inductive invariant of the copies of GL state, the tables of mappings and what buffers hold; shadow, caches, both tables of mappings, what commands read; refinement of `GLServer` | 2 contexts with a thread each, 2 names of each kind, 2 texture units, an attachment cache of one entry (so it fills), buffers of 2 parts; seventeen workloads, one or more per group of state; what is deleted is made again under the same name |
| `ShadowReset` | *violation*: a context made late resets one in use | 2 contexts, 3 calls |
| `Wayland` | the inductive invariant; keys once and in order, states and focus settle, everything the program waits for arrives | a dispatching and a creating thread, 2 surfaces, 2 callback numbers, 2 key events per batch and 3 keys (one can be dropped); five workloads: keys, two windows that take turns, a window closed, frames that ask for the next, and one with something of each |
| `LostWakeup` | *violation*: events that wait in the proxy while it sleeps | the same workloads, EGL reads at any time |

`MCSpec` and its kind add the rest state in which the bounds have stopped the
threads and the proxy sleeps; every other state without successor is reported as
a deadlock in the ring, fence and Wayland runs.  `EglContexts`, `GLProtocol` and
`GLState` do stop when the quota of calls is used up, and do not check for it.
Threads are symmetric where a run has safety properties and a safety refinement
only; runs with liveness use no symmetry.

**Fairness.**  The ring (`FairSpec`): weak fairness of each thread once it holds
`g_lock` (a thread does not stop inside the stub: it is spinning, in
`nanosleep()`, or in an eventfd read that has become readable) and of the proxy's
loop.  None is assumed for taking `g_lock` (a pthread mutex is not fair), and
none for calling again.  Handlers are assumed to return.

Fences (`SyncLive`): weak fairness of the proxy's loop and of the GPU, which
reaches every fence, and of the unlocked end of `glDeleteSync()`.  Sends of
different threads compete for room in the ring, so a thread's send is strongly
fair.  That is more than the ring alone gives, since `g_lock` is not fair:
`SyncLive` shows that nothing in the fence protocol itself (a full list, an
unknown handle, a refused fence) keeps a call from coming back.

Wayland (`MCFairSpec`): weak fairness of the proxy's thread (`poll()` returns
when there is something), of each thread inside a call of the stub, and of
`WaitAndDispatch`: a program with an event loop calls `wl_display_dispatch()`,
which polls the eventfd, and does nothing else unless it wants to.  The
compositor and new requests have none.  The lock of the channel is weakly fair
for a thread in a call; with one command at a time and finitely many requests
that is no assumption about the mutex's order.

### Findings

* `LargePayload` (`bridge_core.c:603`): `ring_data_alloc()` refuses only sizes
  above the arena, but when the head stands in `(DATA_SIZE - size, size)` the
  padding before the wrap point makes any size above half the arena too large
  even for an empty arena.  The writer polls for ever with `g_lock` held.
  `HalfAlwaysFits` and `LargerMayNeverFit` prove the exact limit.  The same wait
  occurs when one command writes several pieces that together exceed the free
  arena, since only a published command gives space back; `Arena` stays below.
* `SlotReuse` (`bridge_core.c:79`): the comment there says that another
  thread's `bridge_begin()` must not repoint the slot a caller reads its results
  from.  The pointer is per thread, the slot is not: it is free once completed,
  and `g_ring_slots` calls later it is another call's.
* `ShadowReset` (`gles_util_stub.h:597`): "reset shadow state on
  eglCreateContext" is done at the next call that consults the shadow, and also
  resets the shadow of the context that is current there.
* `LostWakeup` (`proxy.c:681`): `_bridge_dispatch()` relies on a notification
  for every event it does not collect.  The listeners that run in the loop around
  `wl_display_prepare_read()` fill the proxy's tables without one, and the thread
  then sleeps in `poll(-1)`.  The loop runs only when another thread has read the
  socket, as EGL does when it swaps.

Observations that stay in the hazard list: `glFlushMappedBufferRange()` of an
unmapped range returns with `g_lock` held (`gles3_2_stub.c:651`); a deferred wait
that is resolved in a context of another share group fails and is forgotten, and
the next write to the memory is not held back (`gles3_2.c:81`); context
index 8 is never re-bound (`egl.c:121`).

## 4. Proofs

The theorems hold for every value of the constants that the named assumption of
the module allows, and under the hypothesis the theorem states:

| About | Any | Hypotheses |
|---|---|---|
| ring | set of threads, number of slots, arena size, payload sizes, bounds (`RingAssumption`) | none |
| fences | set of threads, number of ids, generations, ring and list lengths, bounds (`SyncAssumption`) | `MaxFences < GenSpan`, part of the assumption: past the wrap a handle can come back, which the hazard list names.  `OneShareGroup` for owners, reports, held fences and touches |
| marshalling | set of threads, slots, regions' use and shapes of calls (`ShapeAssumption`, `SizeAssumption`) | `\A c \in Shapes : Fits(c)`: every entry point fits its handler.  The run `GLProtocol` checks it for the tables of all 342, as a part of `RequestInv` |
| EGL | finite set of threads, table sizes, ring length, workloads (`EglAssumption`) | `Exclusive` for the queries, `MaxLive < MAX_CONTEXTS` for what threads draw on; none for handles |
| GL state, mappings | set of threads, number of contexts, names, texture units, size of the attachment cache, workloads, parts of a buffer, number of mappings, habits of mapping (`NamesAssumption`, `StateAssumption`, `MapAssumption`) | `Habits = {}`: the program makes its contexts before its first call, and so on (see `Sensible`).  For mappings also `"crossing" \notin MapHabits` and `Roomy`: fewer buffers than `MAX_MAPS` (64 in the code).  For what is in the buffers, `MapHabits = {}` |
| Wayland | set of threads, number of slots, offsets, callbacks and events per batch, workloads, habits (`WlAssumption`) | `PlainProgram`: one thread dispatches, one (it may be the same) makes surfaces, no more surfaces are made than the proxy has slots and the stub offsets, and neither `"late_listeners"` nor `"replaced_windows"` is in `WlHabits`.  EGL may read the socket at any time, and callbacks may be as many as they like |

`Habits = {}` is needed: `ShadowReset` shows what a context made late does, and
the comment at `Sensible` lists the other programs the copies are not made for.
`Roomy` is needed because `alloc_map()` of a full table leaves the driver's mapping
without an entry, and `"crossing" \notin MapHabits` because `KeepMap` of one thread
and `ForgetMap` of another change one entry in either order.  Both are hazards.
Of the other `MapHabits` each lets a command read something old, as the table in
section 2 says; they are the limits of what the code brings across.

Both hypotheses about EGL are needed: the proxy does not re-bind the last index
(`egl.c:121`), and a change between a query's answer and its return marks an old
value as fresh (`egl_stub.c:744`).

### The ring

The invariant (`RingInv` in `RingInvariant`, also checked by TLC in
`Ring` and `Arena`) is proved part by part, each part from those
before it:

1. `TypeCorrect`: types.
2. `LockCorrect`: between `bridge_begin()` and the end of the send a thread owns
   `g_lock`, so at most one thread fills or waits.
3. `CursorCorrect`: the order of the cursors, and that only the lock holder's
   slot is reserved and unpublished.  By itself "a slot keeps its call" is not
   inductive: it needs this window, and the fact that numbers less than `SLOTS`
   apart differ modulo `SLOTS` (`SlotsApart`, from `ModStep`).
4. `SlotCorrect`, hence `SlotsIntact`: what a slot says until its completion.
5. `WaitCorrect`: a published call that wants an answer has a thread still in its
   send, or is the one pending swap.  Hence `OneCallAtATime` and `OneFrameAhead`.
6. `AnswerCorrect`: the calls run are `0, 1, 2, ...`, and an answer stays in the
   slot and in the result buffer until its owner took it.  Hence `RepliesAreOwn`.
7. `WakeCorrect`, hence `NoLostWakeUp` and `SendersWakeUp`: `consumer_waiting` is
   set exactly while the proxy may sleep; when the proxy completes the call a
   thread sleeps for, it has read a `needs_response` that makes it post
   (`CompletionIsPosted`).
8. `ArenaCorrect`, hence `PayloadsDisjoint`: positions are counted without
   wrapping (`at`).  The ranges in use are ordered, lie in a window of
   `DATA_SIZE` behind `data_tail`, and none crosses a multiple of `DATA_SIZE`;
   `WindowApart` shows that such ranges stay apart modulo `DATA_SIZE`.
9. `RingCorrect` puts the parts together: `RingInv` holds.
10. `RingImplementsCallOrder`: every step is a step of `CallOrder` or invisible.

### Fences

`SyncInv` (in `SyncInvariant`, checked by TLC in `SyncPool`) holds
(`SyncInvariantHolds`), in five layers; the first three are `AnswersHold`:

1. `HandleInv`, hence `HandlesUnique`: generations only grow, so a handle is in
   one place only: in the hand of one thread, in one command of the ring, or in
   one object of the driver.
2. `OwnerInv`, hence `OwnersAreUnique`: table entries and list entries point to
   the object made under their handle; a list that is being worked off excludes
   every other command (`resolved # 0 => MustResolve`), so the loop is not
   interrupted half-way.  `TakenOver` is the step that `h_glFenceSync()` (an id
   used again) and `h_glDeleteSync()` have in common.
3. `DoneInv`, hence `ReportsCorrect`: what stands in `sync_done_gen` is true.
   It needs 1 (the completion is that of the only object with this handle) and
   2 (the object a deferred wait names still lives, so the wait is a real one).

4. `OrderInv` (`OrderCorrect`).  `UserInv`: an id has one user at a time, from
   `bridge_sync_alloc()` to `bridge_sync_free()`.  `FoundInv`: whoever still needs
   a fence finds it, because in the ring no command for the same id comes between
   the one that makes the fence and the one that needs it; for this `glDeleteSync()`
   must send before it frees the id.  With 2, `HeldFencesAreFound`.
5. `PromiseInv`: a fence whose wait was answered early is refused, signaled, on
   the list, or its deferred wait is still ahead in the ring (`WaitsFor`).  A
   handler that touches memory runs only when the list is empty, so
   `TouchesAfterFences`.

Layers 2, 3 and 5 are proved for contexts that share their objects
(`OneShareGroup`), layers 1 and 4 for any; with several share groups 2 and 3 do not hold, see the hazard at
`gles3_2.c:81`.

### Marshalling

`ProtocolInv` (in `ProtocolInvariant`, checked by TLC in `GLProtocol`) says what
slots, arena and result buffer hold for each command under way and for each
thread that waits for an answer or reads one.  It is inductive only if entry
points and handlers fit, so `Fits` says exactly what a pair must agree on: the
handler reads no region that an earlier command may have left in the slot, one
that nobody waits for writes only where its command always brings something, and
what the entry point takes the handler gives.  `ProtocolCorrect` proves the
invariant from that, hence `PayloadsAreOwn`, `CopiesAreOwn` and
`LateReadsAreOwn`.  A pair of calls added to the code needs no new proof, only a
line in each table.

### EGL

`EglInv` (in `EglInvariant`, checked by TLC in `EglContexts`) in layers, each from
those before it (`EglCorrect`):

1. `TypeInv`, `CallInv`, `ArgumentInv`: a blocking call's command is the last in
   the ring, and there is one at most.
2. `ContextInv`, `SurfaceInv`: an entry of a table of the proxy belongs to a
   handle, to an answer under way that gives it away, or to a command that frees
   it; so `TABLE_ALLOC()` never takes an index that is still meant.
3. `LimitInv`: indices are given out from the front, so no context has an index
   above the number of contexts kept (`EntryBound`, by counting).
4. `LastInv`, `OwnInv`: the stub's `last_*` values say what the thread has
   current, and no two threads hold the same object.
5. `KeptInv`: the proxy's record of a context that is bound is the binding its
   thread expects, and if the context is current, it is current with it.
   Hence `HandlesKept`.
6. `DrawInv`, `CurrentInv`: a command carries the context of its thread, which
   does not bind another before the command has run (`DrawsOnOwn`).  Hence
   `OwnContextNamed` and `DrawsWhereCurrent`, the refinement of `CurrentContext`.
7. `FloorInv`, and for programs that are `Exclusive` `ApartInv`, `CacheInv`,
   `AskInv`: what is known to be over has been run or is in the ring; a cached
   value of the present generation is not below it.  Hence `QueriesFresh`.

### GL state

`GLInv` (in `GLInvariant`, checked by TLC in `GLState` as a part of `MapInv`) holds (`GLStateCorrect`).
The properties alone are far from inductive: a copy stays right only if what it
names is in use, so that a name that comes again is in no copy, and a deletion
reaches the copies, the driver and the proxy in three steps.  The parts:

1. `TypesInv`, `ThreadInv`: types; a context is current in one thread at most.
2. `HandInv`: what `Sensible` asks of a call when it begins holds until the
   driver has run it.  No step of another thread makes the name go
   (`HandStays`, `CallsMove`).
3. `NamesInv`: copies of the stub name only what is in use and is not about to be
   deleted (`Kept`), those of the proxy and the driver's bindings what is in use
   (`Alive`); `Going` is the name a command under way deletes.  Hence a name the
   driver gives again is in no copy, and a new generation disturbs none
   (`RunSameObjects`).
4. `MirrorInv`: the stub's copies of a context say what the driver has set, or,
   while a command that is noted waits to be run, what it will have set
   (`Mirrors(c, Do(real[c], ...))`).  An index buffer of any vertex array is
   covered, not only that of the current one, because a later bind makes it so.
5. `ProxyInv`: the proxy's copies say it at any time; `AttachmentsKnown` is a part.
   A deletion in one context leaves the old texture attached in another, so the
   caches of all contexts must forget it.
6. `UnmadeInv`, `NewInv`: `eglCreateContext()` resets neither `bound_array` nor
   the proxy's vertex arrays, and the shadow only later; until then nothing may
   have been touched.

Each action keeps each part (`BeginKeeps`, `NoteKeeps`, `RunKeeps`, ...), and every
step of `BufferMaps` is one of `GLState` or leaves its state alone (`MapSteps`), so
the theorems are about `MapSpec`.  Hence `AttachmentsCorrect` and `BuffersCorrect`.
`BridgeIsTransparent` is the refinement of `GLServer`: beginning a call is the
server's `Call`; skipping it (`SkipIs`, since by 4 it would change nothing) or
running it (`RunIs`, since by 5 what the handler keeps back would change nothing)
is its one `Effect`; noting it and resetting shadows is invisible.

### Mappings

`MapsAgree` speaks of states in which every call has returned; the two tables and
the driver go through others, since stub and proxy change their tables at
different times.  `TablesInv` (in `MapInvariant`; a part of `MapInv`, which TLC
checks in `GLState`) says what holds in between:

1. `Once`: a buffer has one entry in each table, and a free entry is blank.
2. `StepInv`: a thread that has yet to write down what it mapped has its entry in
   the proxy, one that has yet to forget what it unmapped still has it in the stub
   and nowhere else, and no other thread maps, unmaps or deletes that buffer.
3. `AgreeInv`: entry by entry the tables are the same, or both hold a buffer
   (or none) whose call has not returned (`Unreturned`); the driver has mapped
   what the proxy's table says; the program holds all of it that has been returned
   to it; the count is not below the number of the stub's entries.  It may be
   above: `glDeleteBuffers()` leaves it.

The case that needs all of it is an id that changes hands: the proxy gives the
lowest free entry (by the pigeonhole principle there is one, `FreeEntry`), which the
stub may still have under a buffer that another thread is mapping again and that
moved to a lower entry (`SendMapKeeps`).  `KeepMap` then drops the stub's entries of
the same buffer and of the same id, in either order of the two threads.
`TablesStay` covers every step that only reads the tables, `StepsStay` what each
step leaves of part 2 for the other threads.  Hence `TablesCorrect`, and
`MapsCorrect` from `TablesCorrect` when nobody is under way.

What a buffer should hold (`memory`), what the driver has (`store`) and what the
program's copy has (`copy`) differ most of the time.  `ContentInv` says how:

1. `StoreInv`: where the driver's contents are not what they should be, the buffer
   is mapped, by a thread that has returned, to be written without a flush, and
   that part of the copy has been written.
2. `CopyInv`: what has been written to such a copy is what the buffer should hold.
   It is larger than what is left to be written, because the program writes
   downwards from a number: no value comes twice, and none is the -1 of memory
   that `malloc()` gave and nobody wrote.
3. `RangeInv`: the range `g_bufrange_cache` remembers is of a buffer that is not about to be
   deleted, and is bound; where the buffer should still hold the bytes that were
   compared, the driver has them.

Part 3 is what keeps `glBindBufferRange()` back rightly.  The bytes it compares are
those of the copy; that they are the remembered ones says that they have been
brought only because no value comes twice, so they cannot have been overwritten
and restored meanwhile.  A step brings bytes (`BroughtIs`) or leaves the driver
with what it had (`HadIs`).  `FillKeeps` covers every step that gives the driver
bytes that were written, `RangesStay` and `RangeStays` what every step leaves of
part 3, `QuietCallReads` the calls of `GLState` that delete nothing.  The rest is
one lemma per action (`WriteReads`, `SendUnmapReads`, `DeleteMapsReads`, ...).
Hence `ContentsCorrect`, that is `MapInv`, and `ReadsCorrect`.

### Wayland

`KeysOnceInOrder` and `StatesSettle` speak of what the listeners have heard, the
second only of states in which nothing is under way.  `WlInv` (in
`WaylandInvariant`, checked by TLC in `Wayland`) says where keys and states are in
between.  It holds for every `PlainProgram` (`WlCorrect`).  The parts:

1. `TypesInv`, with `TypeOK`.
2. `ChannelInv`: the thread that holds `g_wl.lock` is the one that waits, for the
   answer to the command that stands in the channel; with the lock free nothing
   is signalled.  So the answer a thread receives is its own, and the proxy does
   not write the result buffer while a thread hands on what it holds.
3. `NumbersInv`: the n-th surface of the proxy is the n-th of the stub, except for
   the one that is made and not numbered yet.  With two creating threads this fails
   first.
4. `LifeInv`: which of a surface's steps each side has taken; a surface that the
   compositor may speak of is in `shells` and has its own listener, or the program
   has destroyed it and no listener is left that could hear of it.
5. `KeysInv`: heard, underway in the result buffer, in the proxy's table, in queue
   and socket are four places in ascending order, whose keys ascend inside each of
   them and which, with the dropped ones, are all that were sent.  Every action
   moves keys from one place to the next.
6. `EnterInv`: the keyboard is entered before its first key.
7. `PlacesInv`, `NewsInv`: whatever the proxy or the program knows of a surface and
   differs from the compositor's state has a later news behind it on the wire, and
   what the proxy has collected the program will know when it returns (`WillBe`).
   So where nothing is on its way nothing differs.
8. `ConfigureInv`, `FullInv`, `FocusInv`: a configure, which the proxy takes for
   FULLSCREEN when no state is pending, stands beside such a state; between two
   surfaces that are fullscreen one after the other stands the end of the first, in
   whatever has been collected too; so the keyboard's focus ends at the right one.

Most steps are quiet: they leave keys, news and what was collected alone, and a
few lemmas about what does not change cover them (`QuietOrLoud`).  The loud ones
are `SendKey`, `SendState`, `Hear`, `ProxyCollect`, `GetShellSurface`,
`SurfaceRequest` and the listeners' three, each with lemmas of its own: what the
wire is afterwards (`WireIs`, `ConcatAppend`), what is written down (`CollectedIs`),
who hears it (`ListenerOf`).  `KeysStep`, `EnterStep` and `StatesStep` put them
together to `WlStep`.  `KeysCorrect` and `StatesCorrect` follow.

The hypotheses are the limits named above: without each of them TLC finds a
behaviour in which a property fails.  `FewSurfaces` stands for the end of the
program that asks for one more (`wl.c:724`).

### Only model-checked

Everything under fairness (`LockReleased`, `CallsReturn`, `EventsArrive`, the
liveness half of `ImplementsCallOrder`) and the absence of deadlock, which are
out of the prover's reach.  And that the tables of calls satisfy `Fits`: TLC
evaluates them, a proof would do the same call by call.

## 5. What could come next

`BridgeLife`: initialisation by two locks, death of the proxy, exit.

## 6. Not modelled

* The life cycle: it is fork, exec, signals and exit handlers around a few
  lines; its three hazards (two locks in `bridge_init()`, a dead proxy that wakes
  nobody, `exit()` joining a thread in `poll(-1)`) are listed.
* The configuration file: read once, no state afterwards; the listed hazard is
  that the two processes parse it with `long` of different width.
* Of Wayland: connecting and disconnecting, a second registry, seat or output,
  what the outputs tell, properties, cursors, wrappers, tags and user data.
* Of EGL: displays, configurations, pbuffers, pixmaps and images, whose calls
  appear with their layout only (`GLProtocol`); the constant strings; the table
  of EGL windows.
* Of GL: the caches of uniform and attribute locations; mapped index and pixel
  buffers, one buffer mapped by two targets, full tables of mappings.
* `DEBUG_POLL_PENDING_SYNCS`, logging, the vendored cJSON, the code generators in
  `tools/`, the demos and tests, and what the real libraries draw.
