--------------------------- MODULE WaylandBridge ---------------------------
(***************************************************************************)
(* The Wayland channel.  The program's libwayland calls go through g_wl, a *)
(* channel of one command at a time beside the ring; a thread of the proxy *)
(* serves it, reads the compositor's socket and writes the eventfd the     *)
(* program polls.  Events travel back in the result buffer of the command  *)
(* wl_roundtrip: _bridge_dispatch() sends it, drops g_wl.lock, and then    *)
(* calls the program's listeners with what the buffer holds.  Objects of   *)
(* the stub are numbers: the n-th surface of the program has offset n - 1  *)
(* there, and slot n in the proxy.                                         *)
(*                                                                         *)
(* Modelled after wl_display_connect().  Listeners and dispatchers of one  *)
(* object are not told apart, but for the seat's.                          *)
(***************************************************************************)
EXTENDS Integers, Sequences, FiniteSets, Functions

CONSTANTS Threads, NoThread,
          Dispatchers,     \* the threads that dispatch events
          Creators,        \* the threads that make surfaces and callbacks
          PROXY_SURF_MAX, SURF_MAP_MAX, INPUT_EVT_MAX, MAX_CALLBACKS,
          WlHabits,        \* what else programs and EGL do, see below
          Workloads        \* bounds: how much a behaviour has of everything

AllWlHabits == {"late_listeners", "replaced_windows", "many_callbacks", "egl_reads"}
ASSUME WlAssumption ==
  /\ Dispatchers \subseteq Threads /\ Creators \subseteq Threads
  /\ NoThread \notin Threads /\ WlHabits \subseteq AllWlHabits
  /\ {PROXY_SURF_MAX, SURF_MAP_MAX, INPUT_EVT_MAX, MAX_CALLBACKS} \subseteq Nat \ {0}
  /\ Workloads \subseteq [{"keys", "surfaces", "states", "destroys", "frames", "calls"} -> Nat]

VARIABLES
  lock, ctrl, rb,                      \* g_wl.lock, the command, WL_RESULT()
  req_wl_efd, resp_wl_efd, event_efd,
  socket, queue, current,              \* compositor and libwayland
  proxy_pc, revents, px,               \* the proxy's thread and tables
  bs, cb,                              \* g_bs and what its listeners heard
  th,                                  \* where the program's threads are
  life, unheard, awaited, sent, left   \* program and compositor

channelVars == <<lock, ctrl, rb, req_wl_efd, resp_wl_efd>>
worldVars   == <<socket, queue, current, sent>>
proxyVars   == <<proxy_pc, revents, px>>
stubVars    == <<bs, cb, th, awaited>>
vars == <<channelVars, event_efd, worldVars, proxyVars, stubVars, life, unheard, left>>

Slots     == 1 .. PROXY_SURF_MAX - 1
Offsets   == 0 .. SURF_MAP_MAX - 1
Callbacks == 0 .. MAX_CALLBACKS - 1
None == -1
NORMAL == 1
FULLSCREEN == 3

Idle    == [pc |-> "rest", i |-> 0, n |-> 0, full |-> 0]
Free    == [taken |-> FALSE, pending |-> FALSE, armed |-> FALSE]
Taken   == [Free EXCEPT !.taken = TRUE]
Pending == [Taken EXCEPT !.pending = TRUE]
NoEvent == <<0, 0>>

Init ==
  /\ lock = NoThread /\ ctrl = [op |-> "none", arg |-> 0, result |-> 0]
  /\ rb = [count |-> 0, keys |-> [i \in 1 .. INPUT_EVT_MAX |-> 0],
           wss_count |-> 0, wss |-> [i \in Slots |-> NoEvent]]
  /\ req_wl_efd = FALSE /\ resp_wl_efd = FALSE /\ event_efd = FALSE
  /\ socket = <<>> /\ queue = <<>> /\ current = [s \in Slots |-> 0]
  /\ proxy_pc = "prepare" /\ revents = FALSE
  /\ px = [evts |-> <<>>, wss |-> [s \in Slots |-> [last |-> 0, pending |-> FALSE]],
           shells |-> {}, g_surf_next |-> 1]
  /\ bs = [reg_listener |-> FALSE, globals_fired |-> FALSE,
           seat |-> "none", keyboard |-> FALSE, lazy_caps_done |-> FALSE,
           next_surface |-> 0, surface_slot_map |-> [o \in Offsets |-> 0],
           ss_listeners |-> [o \in Offsets |-> None], ss_listener |-> None,
           active_surface |-> None, keyboard_focus |-> None, enter_sent |-> FALSE,
           callback_next |-> 0,
           heard |-> <<>>, told |-> [o \in Offsets |-> NORMAL]]
  /\ cb = [c \in Callbacks |-> Free]
  /\ th = [t \in Threads |-> Idle]
  /\ life = [o \in Offsets |-> "none"] /\ unheard = {} /\ awaited = 0 /\ sent = 0
  /\ left \in Workloads

At(t, pc) == th[t].pc = pc
Goto(t, pc, i, n) == th' = [th EXCEPT ![t].pc = pc, ![t].i = i, ![t].n = n]
NoneGone == \A o \in Offsets : life[o] # "gone"
Used(what) == left[what] > 0 /\ left' = [left EXCEPT ![what] = @ - 1]

-----------------------------------------------------------------------------
(* The compositor.  It sends keys once a surface is shown, and tells each  *)
(* surface its state; at most one is fullscreen.  A surface that becomes   *)
(* so may be configured too, before or after.                              *)

Key(k)          == [kind |-> "key", what |-> k, state |-> 0]
State(s, v)     == [kind |-> "state", what |-> s, state |-> v]
Configure(s)    == [kind |-> "configure", what |-> s, state |-> FULLSCREEN]

SendKey ==
  /\ \E s \in Slots : current[s] # 0
  /\ sent' = sent + 1 /\ socket' = Append(socket, Key(sent'))
  /\ Used("keys")
  /\ UNCHANGED <<channelVars, event_efd, queue, current, proxyVars, stubVars, life, unheard>>

SendState(s, v) ==
  /\ current[s] \notin {0, v}
  /\ v = FULLSCREEN => \A o \in Slots : current[o] # FULLSCREEN
  /\ current' = [current EXCEPT ![s] = v]
  /\ \E news \in {<<State(s, v)>>} \cup
         (IF v = FULLSCREEN THEN {<<State(s, v), Configure(s)>>, <<Configure(s), State(s, v)>>}
                            ELSE {}) :
       socket' = socket \o news
  /\ Used("states")
  /\ UNCHANGED <<channelVars, event_efd, queue, sent, proxyVars, stubVars, life, unheard>>

(* EGL of the proxy, in the thread that serves the ring, may read the      *)
(* socket while no other thread is about to: without the habit only when   *)
(* the proxy's thread is to call the listeners next.                       *)
EglReads ==
  /\ proxy_pc = "dispatch" \/ ("egl_reads" \in WlHabits /\ proxy_pc # "poll")
  /\ socket # <<>>
  /\ queue' = queue \o socket /\ socket' = <<>>
  /\ UNCHANGED <<channelVars, event_efd, current, sent, proxyVars, stubVars, life, unheard,
                 left>>

-----------------------------------------------------------------------------
(* The proxy's listeners.  What does not fit is dropped.                   *)

FitsOneMore(p) == Len(p.evts) <= INPUT_EVT_MAX
Fits(p) == Len(p.evts) < INPUT_EVT_MAX

Listen(p, e) ==
  IF e.kind = "key" THEN IF Fits(p) THEN [p EXCEPT !.evts = Append(@, e.what)] ELSE p
  ELSE IF e.what \notin p.shells THEN p
  ELSE IF e.kind = "state" THEN [p EXCEPT !.wss[e.what] = [last |-> e.state, pending |-> TRUE]]
  ELSE IF p.wss[e.what].pending THEN p
  ELSE [p EXCEPT !.wss[e.what] = [last |-> FULLSCREEN, pending |-> TRUE]]

proxy_wl_has_events(p) == p.evts # <<>> \/ \E s \in p.shells : p.wss[s].pending

(* A round of wl_display_dispatch_pending(), which goes on until nothing   *)
(* is queued.                                                              *)
Hear ==
  LET e == Head(queue)
  IN  /\ proxy_pc \in {"prepare", "dispatch", "collect"} /\ queue # <<>>
      /\ px' = Listen(px, e) /\ queue' = Tail(queue)
      /\ unheard' = IF e.kind = "key" /\ ~Fits(px) THEN unheard \cup {e.what} ELSE unheard
      /\ UNCHANGED <<channelVars, event_efd, socket, current, sent, proxy_pc, revents,
                     stubVars, life, left>>

(* wl_dispatch_thread().  wl_display_prepare_read() fails while something  *)
(* is queued.                                                              *)
ProxyPrepare ==
  /\ proxy_pc = "prepare" /\ queue = <<>> /\ proxy_pc' = "poll"
  /\ UNCHANGED <<channelVars, event_efd, worldVars, revents, px, stubVars, life, unheard, left>>

ProxyPoll ==
  /\ proxy_pc = "poll" /\ (socket # <<>> \/ req_wl_efd)
  /\ revents' = req_wl_efd
  /\ queue' = queue \o socket /\ socket' = <<>>
  /\ proxy_pc' = "dispatch"
  /\ UNCHANGED <<channelVars, event_efd, current, sent, px, stubVars, life, unheard, left>>

Notify(p) == event_efd \/ proxy_wl_has_events(p)

ProxyDispatch ==
  /\ proxy_pc = "dispatch" /\ queue = <<>>
  /\ event_efd' = Notify(px)
  /\ proxy_pc' = IF revents THEN "handle" ELSE "prepare"
  /\ UNCHANGED <<channelVars, worldVars, revents, px, stubVars, life, unheard, left>>

-----------------------------------------------------------------------------
(* The handlers.                                                           *)

(* h_wl_roundtrip(): the states go by slot, and one per surface.           *)
Told(p)     == {s \in p.shells : p.wss[s].pending}
Place(p, s) == Cardinality({r \in Told(p) : r <= s})

Collected(p) ==
  [count |-> Len(p.evts),
   keys  |-> [i \in 1 .. INPUT_EVT_MAX |-> IF i <= Len(p.evts) THEN p.evts[i] ELSE rb.keys[i]],
   wss_count |-> Cardinality(Told(p)),
   wss   |-> [i \in Slots |-> IF i > Cardinality(Told(p)) THEN rb.wss[i]
                              ELSE LET s == CHOOSE s \in Told(p) : Place(p, s) = i
                                   IN  <<s, p.wss[s].last>>]]

KeysNotCleared(p) == [p EXCEPT !.wss = [s \in Slots |-> [@[s] EXCEPT !.pending = FALSE]]]
Cleared(p) == [p EXCEPT !.evts = <<>>,
                        !.wss = [s \in Slots |-> [last |-> p.wss[s].last,
                                  pending |-> p.wss[s].pending /\ s \notin p.shells]]]

(* wl_display_roundtrip() reads the socket first; h_wl_roundtrip() ends    *)
(* when the listeners were called.                                         *)
Roundtrip ==
  /\ proxy_pc = "handle" /\ ctrl.op = "roundtrip" /\ proxy_pc' = "collect"
  /\ IF ctrl.arg = 1 THEN queue' = queue \o socket /\ socket' = <<>>
                     ELSE UNCHANGED <<queue, socket>>
  /\ UNCHANGED <<channelVars, event_efd, current, sent, revents, px, stubVars, life, unheard,
                 left>>

Answer ==
  /\ req_wl_efd' = FALSE /\ resp_wl_efd' = TRUE
  /\ proxy_pc' = "prepare"
  /\ UNCHANGED <<lock, event_efd, queue, socket, sent, revents, stubVars, life, unheard, left>>

ProxyCollect ==
  /\ proxy_pc = "collect" /\ queue = <<>>
  /\ rb' = Collected(px) /\ px' = Cleared(px)
  /\ Answer /\ UNCHANGED <<ctrl, current>>

(* create_surface and get_shell_surface; a slot is not given out twice.    *)
CreateSurface ==
  /\ ctrl.op = "create"
  /\ IF px.g_surf_next >= PROXY_SURF_MAX
     THEN ctrl' = [ctrl EXCEPT !.result = 0] /\ UNCHANGED px
     ELSE /\ ctrl' = [ctrl EXCEPT !.result = px.g_surf_next]
          /\ px' = [px EXCEPT !.g_surf_next = @ + 1]
  /\ UNCHANGED <<rb, current>>

GetShellSurface ==
  /\ ctrl.op = "shell"
  /\ px' = IF ctrl.arg \in px.shells THEN px
           ELSE [px EXCEPT !.shells = @ \cup {ctrl.arg},
                           !.wss[ctrl.arg] = [last |-> 0, pending |-> FALSE]]
  /\ UNCHANGED <<ctrl, rb, current>>

(* set_state and commit show a surface, destroy ends it; its shell surface *)
(* stays in the table.                                                     *)
SurfaceRequest ==
  /\ ctrl.op \in {"show", "destroy"}
  /\ current' = [current EXCEPT ![ctrl.arg] = IF ctrl.op = "show" THEN NORMAL ELSE 0]
  /\ UNCHANGED <<ctrl, rb, px>>

ProxyHandle ==
  /\ proxy_pc = "handle"
  /\ CreateSurface \/ GetShellSurface \/ SurfaceRequest
  /\ Answer

-----------------------------------------------------------------------------
(* A command of the program: under g_wl.lock, and answered before it is    *)
(* dropped.                                                                *)

Send(t, op, arg, pc, i) ==
  /\ lock = NoThread /\ lock' = t
  /\ ctrl' = [ctrl EXCEPT !.op = op, !.arg = arg]
  /\ req_wl_efd' = TRUE
  /\ Goto(t, pc, i, 0)
  /\ UNCHANGED <<rb, resp_wl_efd, worldVars, proxyVars, cb, awaited, unheard>>

Receive(t, pc) ==
  /\ At(t, pc) /\ resp_wl_efd /\ resp_wl_efd' = FALSE
  /\ lock' = NoThread
  /\ UNCHANGED <<ctrl, rb, req_wl_efd, event_efd, worldVars, proxyVars, cb, awaited, unheard,
                 left>>

Asks(t) == t \in Creators /\ At(t, "rest")

(* Surfaces, of the compositor among the globals.  The handle is numbered  *)
(* after the lock was dropped.                                             *)
Create(t) ==
  /\ Asks(t) /\ bs.globals_fired /\ Used("surfaces")
  /\ Send(t, "create", 0, "creating", 0)
  /\ UNCHANGED <<event_efd, bs, life>>

Created(t) ==
  /\ Receive(t, "creating") /\ Goto(t, "naming", 0, ctrl.result)
  /\ UNCHANGED <<bs, life>>

NameSurface(t) ==
  LET idx == bs.next_surface
  IN  /\ At(t, "naming") /\ Goto(t, "rest", 0, 0)
      /\ bs' = [bs EXCEPT !.next_surface = @ + 1, !.surface_slot_map[idx] = th[t].n]
      /\ life' = [life EXCEPT ![idx] = "made"]
      /\ UNCHANGED <<channelVars, event_efd, worldVars, proxyVars, cb, awaited, unheard, left>>

AskShell(t, o) ==
  /\ Asks(t) /\ life[o] = "made"
  /\ Send(t, "shell", bs.surface_slot_map[o], "shell", o)
  /\ UNCHANGED <<event_efd, bs, life, left>>

(* A program listens before it shows the surface, and makes no other       *)
(* surface for one it destroyed.                                           *)
AddListener(t, o) ==
  /\ Asks(t) /\ life[o] \in {"shell", "late"}
  /\ "replaced_windows" \in WlHabits \/ NoneGone
  /\ bs' = [bs EXCEPT !.ss_listeners[o] = o, !.ss_listener = o]
  /\ life' = [life EXCEPT ![o] = IF @ = "late" THEN "shown" ELSE "heard"]
  /\ UNCHANGED <<channelVars, event_efd, worldVars, proxyVars, cb, awaited, th, unheard, left>>

Show(t, o) ==
  /\ Asks(t)
  /\ life[o] = "heard" \/ ("late_listeners" \in WlHabits /\ life[o] = "shell")
  /\ Send(t, "show", bs.surface_slot_map[o], IF life[o] = "heard" THEN "shown" ELSE "late", o)
  /\ UNCHANGED <<event_efd, bs, life, left>>

(* wl_proxy_destroy() of the shell surface stays in the stub; then comes   *)
(* wl_surface.destroy.                                                     *)
DropShell(t, o) ==
  /\ Asks(t) /\ life[o] = "shown" /\ Used("destroys")
  /\ bs' = [bs EXCEPT !.ss_listeners[o] = None, !.ss_listener = None]
  /\ life' = [life EXCEPT ![o] = "gone"] /\ Goto(t, "destroy", o, 0)
  /\ UNCHANGED <<channelVars, event_efd, worldVars, proxyVars, cb, awaited, unheard>>

Destroy(t) ==
  /\ At(t, "destroy")
  /\ Send(t, "destroy", bs.surface_slot_map[th[t].i], "gone", th[t].i)
  /\ UNCHANGED <<event_efd, bs, life, left>>

Answered(t, pc, state) ==
  /\ Receive(t, pc) /\ Goto(t, "rest", 0, 0)
  /\ life' = [life EXCEPT ![th[t].i] = state]
  /\ UNCHANGED bs

(* wl_surface.frame: a callback takes the next index of the round, in use  *)
(* or not.  It has a listener a step later.                                *)
Frame(t) ==
  LET idx == bs.callback_next % MAX_CALLBACKS
  IN  /\ Asks(t) /\ Used("frames")
      /\ "many_callbacks" \in WlHabits \/ ~cb[idx].taken
      /\ bs' = [bs EXCEPT !.callback_next = @ + 1]
      /\ cb' = [cb EXCEPT ![idx] = Taken]
      /\ Goto(t, "frame", idx, 0)
      /\ UNCHANGED <<channelVars, event_efd, worldVars, proxyVars, awaited, life, unheard>>

Attach(t) ==
  /\ At(t, "frame") /\ Goto(t, "rest", 0, 0)
  /\ cb' = [cb EXCEPT ![th[t].i] = Pending] /\ awaited' = awaited + 1
  /\ event_efd' = TRUE
  /\ UNCHANGED <<channelVars, worldVars, proxyVars, bs, life, unheard, left>>

-----------------------------------------------------------------------------
(* _bridge_dispatch(): of wl_display_dispatch(), which waits for the       *)
(* eventfd first, of wl_display_roundtrip(), or of the other variants.     *)

MayDispatch(t) == t \in Dispatchers /\ At(t, "rest")

(* The registry's listener, of the thread that dispatches.                 *)
ListenToRegistry(t) ==
  /\ MayDispatch(t) /\ ~bs.reg_listener
  /\ bs' = [bs EXCEPT !.reg_listener = TRUE] /\ event_efd' = TRUE
  /\ UNCHANGED <<channelVars, worldVars, proxyVars, cb, awaited, th, life, unheard, left>>

Dispatch(t, full) ==
  /\ MayDispatch(t)
  /\ event_efd' = FALSE
  /\ th' = [th EXCEPT ![t] = [pc |-> "globals", i |-> 0, n |-> 0, full |-> full]]
  /\ UNCHANGED <<channelVars, worldVars, proxyVars, bs, cb, awaited, life, unheard>>

WaitAndDispatch(t) == event_efd /\ Dispatch(t, 0) /\ UNCHANGED left
DispatchNow(t)     == \E full \in 0 .. 1 : Used("calls") /\ Dispatch(t, full)

(* The program binds the seat and takes its keyboard when it hears of the  *)
(* capabilities: a listener does at once, a dispatcher with the first      *)
(* events.  It may listen to the outputs too, whose events come in the     *)
(* same call.                                                              *)
FireGlobals(t) ==
  /\ At(t, "globals") /\ Goto(t, "callbacks", 0, 0)
  /\ IF bs.reg_listener /\ ~bs.globals_fired
     THEN \E kind \in {"listener", "dispatcher"} :
            /\ bs' = [bs EXCEPT !.globals_fired = TRUE, !.seat = kind,
                                !.keyboard = (kind = "listener")]
            /\ event_efd' \in {event_efd \/ kind = "dispatcher", TRUE}
     ELSE UNCHANGED <<bs, event_efd>>
  /\ UNCHANGED <<channelVars, worldVars, proxyVars, cb, awaited, life, unheard, left>>

(* The callbacks, two calls each: th.n tells that one was armed.  The      *)
(* listener of done destroys its callback and may ask for the next frame.  *)
Arm(t, c) ==
  /\ cb[c].pending /\ ~cb[c].armed
  /\ cb' = [cb EXCEPT ![c].armed = TRUE]
  /\ Goto(t, "callbacks", c + 1, 1)
  /\ UNCHANGED <<event_efd, bs, awaited, left>>

FireCallbackDone(t, c) ==
  LET idx == bs.callback_next % MAX_CALLBACKS
      after == [cb EXCEPT ![c] = Free]
  IN  /\ cb[c].pending /\ cb[c].armed
      /\ Goto(t, "callbacks", c + 1, th[t].n)
      /\ \/ /\ cb' = after /\ awaited' = awaited - 1
            /\ UNCHANGED <<event_efd, bs, left>>
         \/ /\ Used("frames") /\ ("many_callbacks" \in WlHabits \/ ~after[idx].taken)
            /\ bs' = [bs EXCEPT !.callback_next = @ + 1]
            /\ cb' = [after EXCEPT ![idx] = Pending] /\ event_efd' = TRUE
            /\ UNCHANGED awaited

PassCallback(t, c) ==
  /\ ~cb[c].pending /\ Goto(t, "callbacks", c + 1, th[t].n)
  /\ UNCHANGED <<event_efd, bs, cb, awaited, left>>

FireCallbacks(t) ==
  /\ At(t, "callbacks") /\ th[t].i \in Callbacks
  /\ Arm(t, th[t].i) \/ FireCallbackDone(t, th[t].i) \/ PassCallback(t, th[t].i)
  /\ UNCHANGED <<channelVars, worldVars, proxyVars, life, unheard>>

NoRearm(t) == event_efd
KickRearm(t) == event_efd \/ th[t].n = 1

Collect(t) ==
  /\ At(t, "callbacks") /\ th[t].i \notin Callbacks
  /\ event_efd' = KickRearm(t)
  /\ Send(t, "roundtrip", th[t].full, "await", 0)
  /\ UNCHANGED <<bs, life, left>>

RoundtripDone(t) ==
  /\ Receive(t, "await") /\ Goto(t, "focus", 0, 0)
  /\ UNCHANGED <<bs, life>>

-----------------------------------------------------------------------------
(* What the listeners are told, from the result buffer, without the lock.  *)
(* 0 among what the keyboard heard stands for keymap and enter.            *)

EnterTo(b, o) ==
  IF b.keyboard
  THEN [b EXCEPT !.keyboard_focus = o, !.enter_sent = TRUE, !.heard = Append(@, 0)] ELSE b

FocusKeyboard(b) ==
  LET o == IF b.active_surface = None THEN 0 ELSE b.active_surface
  IN  IF b.enter_sent \/ (b.active_surface = None /\ b.next_surface = 0) THEN b
      ELSE EnterTo([b EXCEPT !.active_surface = o], o)

LazyCapabilities(b) ==
  IF b.lazy_caps_done \/ b.keyboard \/ b.seat # "dispatcher" THEN b
  ELSE IF b.enter_sent THEN [b EXCEPT !.keyboard = TRUE]
       ELSE [FocusKeyboard([b EXCEPT !.keyboard = TRUE]) EXCEPT !.lazy_caps_done = TRUE]

FocusFirst(t) ==
  /\ At(t, "focus") /\ Goto(t, "keys", 1, rb.count)
  /\ bs' = LazyCapabilities(FocusKeyboard(bs))
  /\ event_efd' = (event_efd \/ rb.count > 0 \/ rb.wss_count > 0)
  /\ UNCHANGED <<channelVars, worldVars, proxyVars, cb, awaited, life, unheard, left>>

DeliverKey(t) ==
  LET k == rb.keys[th[t].i]
  IN  /\ At(t, "keys") /\ th[t].i <= th[t].n
      /\ Goto(t, "keys", th[t].i + 1, th[t].n)
      /\ IF bs.keyboard THEN bs' = [bs EXCEPT !.heard = Append(@, k)] /\ UNCHANGED unheard
                        ELSE unheard' = unheard \cup {k} /\ UNCHANGED bs
      /\ UNCHANGED <<channelVars, event_efd, worldVars, proxyVars, cb, awaited, life, left>>

KeysDelivered(t) ==
  /\ At(t, "keys") /\ th[t].i > th[t].n
  /\ Goto(t, "states", 1, rb.wss_count)
  /\ UNCHANGED <<channelVars, event_efd, worldVars, proxyVars, bs, cb, awaited, life,
                 unheard, left>>

(* The offset is told from the slot, the listener from the offset, or else *)
(* it is the one attached last.                                            *)
LastListener(b, o) == b.ss_listener
StubIdx(slot) == IF slot > 0 THEN slot - 1 ELSE 0
ListenerOf(b, o) ==
  IF o \in Offsets /\ b.ss_listeners[o] # None THEN b.ss_listeners[o] ELSE b.ss_listener

Deliver(b, o, v) ==
  LET known == [b EXCEPT !.active_surface = IF @ = None THEN o ELSE @]
      focus == IF v = FULLSCREEN /\ b.enter_sent /\ b.keyboard_focus # o
               THEN EnterTo(known, o) ELSE known
      whose == ListenerOf(b, o)
  IN  IF whose = None THEN focus ELSE [focus EXCEPT !.told[whose] = v]

DeliverState(t) ==
  LET e == rb.wss[th[t].i]
  IN  /\ At(t, "states") /\ th[t].i <= th[t].n
      /\ Goto(t, "states", th[t].i + 1, th[t].n)
      /\ bs' = Deliver(bs, StubIdx(e[1]), e[2])
      /\ UNCHANGED <<channelVars, event_efd, worldVars, proxyVars, cb, awaited, life,
                     unheard, left>>

Return(t) ==
  /\ At(t, "states") /\ th[t].i > th[t].n /\ Goto(t, "rest", 0, 0)
  /\ UNCHANGED <<channelVars, event_efd, worldVars, proxyVars, bs, cb, awaited, life,
                 unheard, left>>

-----------------------------------------------------------------------------
Compositor == SendKey \/ \E s \in Slots, v \in {NORMAL, FULLSCREEN} : SendState(s, v)
Proxy == \/ Hear \/ ProxyPrepare \/ ProxyPoll \/ ProxyDispatch
         \/ Roundtrip \/ ProxyCollect \/ ProxyHandle

Begin(t) ==
  \/ Create(t) \/ Frame(t) \/ ListenToRegistry(t) \/ DispatchNow(t)
  \/ \E o \in Offsets : AskShell(t, o) \/ AddListener(t, o) \/ Show(t, o) \/ DropShell(t, o)

Continue(t) ==
  \/ Created(t) \/ NameSurface(t) \/ Destroy(t) \/ Attach(t)
  \/ \E state \in {"shell", "shown", "late", "gone"} : Answered(t, state, state)
  \/ FireGlobals(t) \/ FireCallbacks(t) \/ Collect(t) \/ RoundtripDone(t)
  \/ FocusFirst(t) \/ DeliverKey(t) \/ KeysDelivered(t) \/ DeliverState(t) \/ Return(t)

Next == \/ Compositor \/ EglReads \/ Proxy
        \/ \E t \in Threads : Begin(t) \/ Continue(t) \/ WaitAndDispatch(t)

(* The proxy's thread runs, what a thread of the program has begun it      *)
(* finishes, and a thread that dispatches does so whenever the eventfd can *)
(* be read.                                                                *)
Fairness == /\ WF_vars(Proxy)
            /\ \A t \in Threads : WF_vars(Continue(t)) /\ WF_vars(WaitAndDispatch(t))
Spec == Init /\ [][Next]_vars
FairSpec == Spec /\ Fairness

-----------------------------------------------------------------------------
TypeOK ==
  /\ lock \in Threads \cup {NoThread}
  /\ ctrl.op \in {"none", "roundtrip", "create", "shell", "show", "destroy"}
  /\ ctrl.arg \in Nat /\ ctrl.result \in Slots \cup {0}
  /\ rb.count \in 0 .. INPUT_EVT_MAX /\ rb.keys \in [1 .. INPUT_EVT_MAX -> Nat]
  /\ rb.wss_count \in 0 .. Cardinality(Slots)
  /\ {req_wl_efd, resp_wl_efd, event_efd, revents} \subseteq BOOLEAN
  /\ proxy_pc \in {"prepare", "poll", "dispatch", "handle", "collect"}
  /\ Len(px.evts) <= INPUT_EVT_MAX
  /\ px.wss \in [Slots -> [last : {0, NORMAL, FULLSCREEN}, pending : BOOLEAN]]
  /\ px.shells \subseteq 1 .. px.g_surf_next - 1
  /\ bs.surface_slot_map \in [Offsets -> Slots \cup {0}]
  /\ {bs.active_surface, bs.keyboard_focus, bs.ss_listener} \subseteq Offsets \cup {None}
  /\ bs.ss_listeners \in [Offsets -> Offsets \cup {None}]
  /\ cb \in [Callbacks -> {Free, Taken, Pending, [Pending EXCEPT !.armed = TRUE]}]

(* Keys that were handed to a dispatching thread and not yet delivered.    *)
Underway ==
  LET places(t) ==
        CASE At(t, "focus") \/ (At(t, "await") /\ resp_wl_efd) -> 1 .. rb.count
          [] At(t, "keys") -> th[t].i .. th[t].n
          [] OTHER -> {}
  IN  UNION {{rb.keys[i] : i \in places(t)} : t \in Dispatchers}

Keys(events) == {e.what : e \in {d \in Range(events) : d.kind = "key"}}
Heard == Range(bs.heard) \ {0}
Held  == <<Heard, Underway, Range(px.evts), Keys(queue), Keys(socket), unheard>>

(* A key the compositor sent is at one place of its way, or it was dropped *)
(* when the proxy's buffer was full or no keyboard listened; the keyboard  *)
(* hears the others once, in their order, and after it was entered.        *)
KeysOnceInOrder ==
  /\ \A k \in 1 .. sent : \E i \in DOMAIN Held :
       k \in Held[i] /\ \A j \in DOMAIN Held \ {i} : k \notin Held[j]
  /\ \A i, j \in DOMAIN bs.heard :
       i < j /\ bs.heard[j] # 0 => bs.heard[i] < bs.heard[j]
  /\ bs.heard # <<>> => bs.heard[1] = 0

(* Nothing the compositor sent is on its way.                              *)
Quiet ==
  /\ socket = <<>> /\ queue = <<>> /\ ~proxy_wl_has_events(px)
  /\ \A t \in Dispatchers : th[t].pc \notin {"await", "focus", "keys", "states"}

IsShown(o) == life[o] = "shown"
StateOf(o) == current[bs.surface_slot_map[o]]
InState(o) == bs.told[o] = StateOf(o)

(* When nothing is on its way each surface was told its state by its own   *)
(* listener, and the keyboard, once entered, is on the fullscreen one (a   *)
(* state of a surface that the program has destroyed may still move it).   *)
StatesSettle ==
  Quiet => \A o \in Offsets : IsShown(o) =>
             /\ InState(o)
             /\ bs.enter_sent /\ StateOf(o) = FULLSCREEN /\ NoneGone => bs.keyboard_focus = o

(* Whatever the program waits for reaches its listeners: keys, states and  *)
(* the done of its callbacks, though it only polls the eventfd.            *)
Outstanding ==
  \/ \E k \in 1 .. sent : k \notin Heard \cup unheard
  \/ \E o \in Offsets : IsShown(o) /\ ~InState(o)
  \/ awaited # 0
EventsArrive == Outstanding ~> ~Outstanding

(* "A proxy event that races with this read either appears in this         *)
(* collection or leaves a new notification for the next event-loop         *)
(* iteration": the proxy does not sleep on events that no thread of the    *)
(* program is about to collect or can be woken for.                        *)
WakeupKept ==
  proxy_pc = "poll" /\ proxy_wl_has_events(px) =>
    event_efd \/ \E t \in Dispatchers : th[t].pc \in {"globals", "callbacks", "await"}
=============================================================================
