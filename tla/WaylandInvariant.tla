-------------------------- MODULE WaylandInvariant --------------------------
(***************************************************************************)
(* The inductive invariant behind KeysOnceInOrder and StatesSettle of      *)
(* WaylandBridge, in named parts.                                          *)
(***************************************************************************)
EXTENDS WaylandBridge

(* One thread dispatches, one makes surfaces (it may be the same).         *)
OneDispatcher == \E d \in Threads : Dispatchers = {d}
OneCreator    == \E c \in Threads : Creators = {c}

(* The proxy has a slot and the stub an offset for every surface: a        *)
(* request for one more ends the program.                                  *)
FewSurfaces == \A w \in Workloads : /\ w["surfaces"] < PROXY_SURF_MAX
                                    /\ w["surfaces"] <= SURF_MAP_MAX
PlainWindows == {"late_listeners", "replaced_windows"} \cap WlHabits = {}
PlainProgram == OneDispatcher /\ OneCreator /\ FewSurfaces /\ PlainWindows

-----------------------------------------------------------------------------
(* Types.                                                                  *)

Offset0 == Offsets \cup {None}
States  == {NORMAL, FULLSCREEN}
Event   == [kind : {"key"}, what : Nat, state : {0}]
           \cup [kind : {"state"}, what : Slots, state : States]
           \cup [kind : {"configure"}, what : Slots, state : {FULLSCREEN}]
CtrlType == [op : {"none", "roundtrip", "create", "shell", "show", "destroy"},
             arg : Nat, result : Nat]
RbType == [count : 0 .. INPUT_EVT_MAX, keys : [1 .. INPUT_EVT_MAX -> Nat],
           wss_count : Nat, wss : [Slots -> (Slots \cup {0}) \X (States \cup {0})]]
PxType == [evts : Seq(Nat), wss : [Slots -> [last : States \cup {0}, pending : BOOLEAN]],
           shells : SUBSET Nat, g_surf_next : Nat]
BsType == [reg_listener : BOOLEAN, globals_fired : BOOLEAN,
           seat : {"none", "listener", "dispatcher"}, keyboard : BOOLEAN,
           lazy_caps_done : BOOLEAN, next_surface : Nat,
           surface_slot_map : [Offsets -> Nat], ss_listeners : [Offsets -> Offset0],
           ss_listener : Offset0, active_surface : Int, keyboard_focus : Int,
           enter_sent : BOOLEAN, callback_next : Nat, heard : Seq(Nat),
           told : [Offsets -> States \cup {0}]]
CbType == {Free, Taken, Pending, [Pending EXCEPT !.armed = TRUE]}
AskPcs      == {"creating", "shell", "shown", "late", "gone"}
CreatorPcs  == AskPcs \cup {"naming", "destroy", "frame"}
DispatchPcs == {"globals", "callbacks", "await", "focus", "keys", "states"}
ThType == [pc : {"rest"} \cup CreatorPcs \cup DispatchPcs, i : Nat, n : Nat, full : 0 .. 1]
ProxyPcs == {"prepare", "poll", "dispatch", "handle", "collect"}
Lives    == {"none", "made", "shell", "heard", "late", "shown", "gone"}
Limited  == {"keys", "surfaces", "states", "destroys", "frames", "calls"}

Events      == Seq(Event)
CurrentType == [Slots -> States \cup {0}]
CallbacksType == [Callbacks -> CbType]
ThreadsType == [Threads -> ThType]
LifeType    == [Offsets -> Lives]
LeftType    == [Limited -> Nat]

TypesInv ==
  /\ lock \in Threads \cup {NoThread} /\ ctrl \in CtrlType /\ rb \in RbType
  /\ {req_wl_efd, resp_wl_efd, event_efd, revents} \subseteq BOOLEAN
  /\ socket \in Events /\ queue \in Events /\ current \in CurrentType
  /\ proxy_pc \in ProxyPcs /\ px \in PxType /\ Len(px.evts) <= INPUT_EVT_MAX
  /\ bs \in BsType /\ cb \in CallbacksType /\ th \in ThreadsType
  /\ life \in LifeType /\ unheard \subseteq Nat /\ sent \in Nat /\ left \in LeftType

-----------------------------------------------------------------------------
(* The channel: the thread that holds the lock waits for its answer.       *)

Waiting(t) == th[t].pc \in AskPcs \cup {"await"}

(* The command of a thread that waits for the answer.                      *)
Asked(t) ==
  LET arg == bs.surface_slot_map[th[t].i]
  IN  CASE th[t].pc = "creating" -> ctrl.op = "create"
        [] th[t].pc = "await" -> ctrl.op = "roundtrip"
        [] th[t].pc = "shell" -> ctrl.op = "shell" /\ ctrl.arg = arg
        [] th[t].pc \in {"shown", "late"} -> ctrl.op = "show" /\ ctrl.arg = arg
        [] th[t].pc = "gone" -> ctrl.op = "destroy" /\ ctrl.arg = arg

ChannelInv ==
  /\ \A t \in Threads :
       /\ Waiting(t) <=> lock = t
       /\ Waiting(t) => Asked(t)
       /\ th[t].pc \in DispatchPcs => t \in Dispatchers
       /\ th[t].pc \in CreatorPcs => t \in Creators
  /\ lock = NoThread <=> ~req_wl_efd /\ ~resp_wl_efd
  /\ ~(req_wl_efd /\ resp_wl_efd)
  /\ proxy_pc \in {"handle", "collect"} => req_wl_efd
  /\ proxy_pc = "collect" => ctrl.op = "roundtrip"
  /\ proxy_pc = "dispatch" /\ revents => req_wl_efd

-----------------------------------------------------------------------------
(* Surfaces.                                                               *)

(* The surface the creating thread has made, and not numbered yet.         *)
Unnamed(t) == th[t].pc = "naming" \/ (th[t].pc = "creating" /\ resp_wl_efd)
BeingMade == IF \E t \in Threads : Unnamed(t) THEN 1 ELSE 0
Begun     == IF \E t \in Threads : th[t].pc \in {"creating", "naming"} THEN 1 ELSE 0

(* The compositor may know of it.                                          *)
Public(o) == life[o] \in {"heard", "shown", "gone"}

NumbersInv ==
  /\ bs.next_surface + Begun + left["surfaces"] < PROXY_SURF_MAX
  /\ bs.next_surface + Begun + left["surfaces"] <= SURF_MAP_MAX
  /\ px.g_surf_next = bs.next_surface + 1 + BeingMade
  /\ \A t \in Threads :
       /\ th[t].pc = "naming" => th[t].n = px.g_surf_next - 1
       /\ th[t].pc = "creating" /\ resp_wl_efd => ctrl.result = px.g_surf_next - 1
  /\ \A o \in Offsets : o < bs.next_surface => bs.surface_slot_map[o] = o + 1
  /\ \A o \in Offsets : life[o] = "none" <=> o >= bs.next_surface

(* What a thread is about to do to a surface, and what was done to one.    *)
WindowThread(t) ==
  LET o == th[t].i
  IN  /\ th[t].pc = "shell" => o \in Offsets /\ life[o] = "made"
      /\ th[t].pc = "shown" => /\ o \in Offsets /\ life[o] = "heard"
                               /\ resp_wl_efd => current[o + 1] # 0
      /\ th[t].pc \in {"destroy", "gone"} => o \in Offsets /\ life[o] = "gone"
      /\ th[t].pc = "shell" /\ resp_wl_efd => o + 1 \in px.shells
      /\ th[t].pc # "late"
      /\ th[t].pc \in {"creating", "naming"} => bs.globals_fired

WindowLife(o) ==
  /\ life[o] # "late"
  /\ life[o] \in {"shell", "heard", "shown", "gone"} => o + 1 \in px.shells
  /\ bs.ss_listeners[o] = IF life[o] \in {"heard", "shown"} THEN o ELSE None
  /\ life[o] = "gone" => bs.ss_listener = None
  /\ life[o] = "shown" => current[o + 1] # 0
  /\ life[o] = "heard" /\ current[o + 1] # 0 =>
       \E t \in Threads : th[t].pc = "shown" /\ th[t].i = o /\ resp_wl_efd

LifeInv ==
  /\ \A t \in Threads : WindowThread(t)
  /\ \A o \in Offsets : WindowLife(o)
  /\ \A s \in px.shells : s - 1 \in Offsets /\ s \in Slots /\ life[s - 1] # "none"
  /\ \A s \in Slots : current[s] # 0 => s - 1 \in Offsets /\ Public(s - 1)
  /\ bs.next_surface > 0 => bs.globals_fired
  /\ sent > 0 => bs.next_surface > 0

-----------------------------------------------------------------------------
(* Keys, in the places they take one after the other.                      *)

Wire == queue \o socket
KeyAt(i) == i \in DOMAIN Wire /\ Wire[i].kind = "key"

(* Those of the result buffer that thread t has yet to hand on.            *)
KeyPlaces(t) ==
  CASE At(t, "focus") \/ (At(t, "await") /\ resp_wl_efd) -> 1 .. rb.count
    [] At(t, "keys") -> th[t].i .. th[t].n
    [] OTHER -> {}

Ascending(s) == \A i, j \in DOMAIN s : i < j => s[i] < s[j]
Before(A, B) == \A a \in A, b \in B : a < b

KeysInv ==
  /\ 1 .. sent = Heard \cup Underway \cup Range(px.evts) \cup Keys(Wire) \cup unheard
  /\ unheard \cap (Heard \cup Underway \cup Range(px.evts) \cup Keys(Wire)) = {}
  /\ Before(Heard, Underway \cup Range(px.evts) \cup Keys(Wire))
  /\ Before(Underway, Range(px.evts) \cup Keys(Wire))
  /\ Before(Range(px.evts), Keys(Wire))
  /\ \A i, j \in DOMAIN bs.heard : i < j /\ bs.heard[j] # 0 => bs.heard[i] < bs.heard[j]
  /\ \A t \in Threads : /\ KeyPlaces(t) \subseteq 1 .. INPUT_EVT_MAX
                        /\ \A i, j \in KeyPlaces(t) : i < j => rb.keys[i] < rb.keys[j]
  /\ Ascending(px.evts)
  /\ \A i, j \in DOMAIN Wire : KeyAt(i) /\ KeyAt(j) /\ i < j => Wire[i].what < Wire[j].what

-----------------------------------------------------------------------------
(* States, from the compositor to the listener.                            *)

NewsOf(s) == {i \in DOMAIN Wire : Wire[i].kind # "key" /\ Wire[i].what = s}
Known(s)  == IF px.wss[s].last = 0 THEN NORMAL ELSE px.wss[s].last

(* The states of the result buffer that are yet to be delivered.           *)
StatePlaces(t) ==
  CASE At(t, "focus") \/ (At(t, "await") /\ resp_wl_efd) \/ At(t, "keys") -> 1 .. rb.wss_count
    [] At(t, "states") -> th[t].i .. th[t].n
    [] OTHER -> {}
Undelivered == UNION {StatePlaces(t) : t \in Dispatchers}
Coming(s) == {i \in Undelivered : rb.wss[i][1] = s}

(* What the program will have been told when it returns.                   *)
WillBe(s, v) == IF Coming(s) = {} THEN bs.told[s - 1] = v
                                  ELSE \A i \in Coming(s) : rb.wss[i][2] = v

(* The keyboard is entered before it hears of keys.                        *)
EnterInv ==
  /\ bs.enter_sent <=> bs.heard # <<>>
  /\ bs.heard # <<>> => bs.heard[1] = 0
  /\ bs.enter_sent => bs.keyboard
  /\ bs.globals_fired => bs.keyboard \/ bs.seat = "dispatcher"
  /\ bs.lazy_caps_done => bs.keyboard
  /\ bs.keyboard \/ bs.seat # "none" => bs.globals_fired
  /\ \A t \in Threads :
       th[t].pc \in {"keys", "states"} /\ KeyPlaces(t) \cup StatePlaces(t) # {} =>
         bs.enter_sent

PlacesInv ==
  /\ \A i \in Undelivered : i \in Slots /\ rb.wss[i][1] \in px.shells /\ rb.wss[i][2] # 0
                            /\ Public(rb.wss[i][1] - 1)
  /\ \A i, j \in Undelivered : rb.wss[i][1] = rb.wss[j][1] => i = j
  /\ \A o \in Offsets : bs.told[o] # 0

Silent(s) == /\ NewsOf(s) = {} /\ Coming(s) = {}
             /\ px.wss[s] = [last |-> 0, pending |-> FALSE]
             /\ bs.told[s - 1] = NORMAL

(* What the proxy or the wire has of a surface is of one that was shown.   *)
Sourced(s) == /\ NewsOf(s) # {} \/ px.wss[s].last # 0 => s \in px.shells /\ Public(s - 1)
              /\ px.wss[s].pending => px.wss[s].last # 0

(* Whatever differs from the state of a surface has a later news behind    *)
(* it; and what the proxy has collected, the program will know.            *)
Current(s) ==
  /\ current[s] # 0
  /\ Known(s) # current[s] => \E k \in NewsOf(s) : Wire[k].state = current[s]
  /\ \A i \in NewsOf(s) : \/ Wire[i].state = current[s]
                          \/ \E k \in NewsOf(s) : i < k /\ Wire[k].state = current[s]
  /\ px.wss[s].pending \/ WillBe(s, Known(s))

NewsInv ==
  /\ \A s \in Slots : Sourced(s)
  /\ \A s \in Slots : s - 1 \in Offsets =>
       life[s - 1] = "gone" \/ (current[s] = 0 /\ Silent(s)) \/ Current(s)

(* A configure stands beside the state it belongs to, or that was heard.   *)
Beside(i, s) ==
  \/ i + 1 \in DOMAIN Wire /\ Wire[i + 1] = State(s, FULLSCREEN)
  \/ i - 1 \in DOMAIN Wire /\ Wire[i - 1] = State(s, FULLSCREEN)
  \/ i = 1 /\ (px.wss[s].pending => px.wss[s].last = FULLSCREEN)
ConfigureInv ==
  \A i \in DOMAIN Wire : Wire[i].kind = "configure" => Beside(i, Wire[i].what)

(* While no surface was destroyed, one is fullscreen at a time, in what    *)
(* the compositor says, the proxy knows and the program will have heard.   *)
Left(s, i, j) == \E k \in NewsOf(s) : i < k /\ k < j /\ Wire[k].state = NORMAL
NotBoth(s, r) ==
  /\ ~(current[s] = FULLSCREEN /\ current[r] = FULLSCREEN)
  /\ ~(Known(s) = FULLSCREEN /\ Known(r) = FULLSCREEN)
  /\ s - 1 \in Offsets /\ r - 1 \in Offsets =>
       ~(WillBe(s, FULLSCREEN) /\ WillBe(r, FULLSCREEN))
Leaves(s, r) ==
  \A j \in NewsOf(s) : Wire[j].state = FULLSCREEN =>
    /\ Known(r) = FULLSCREEN => Left(r, 0, j)
    /\ \A i \in NewsOf(r) : i < j /\ Wire[i].state = FULLSCREEN => Left(r, i, j)
FullInv == NoneGone => \A s, r \in Slots : s # r => NotBoth(s, r) /\ Leaves(s, r)

FocusInv ==
  /\ \A o \in Offsets : bs.told[o] = FULLSCREEN => bs.enter_sent /\ o + 1 \in Slots
  /\ NoneGone => \A o \in Offsets :
       bs.told[o] = FULLSCREEN /\ Coming(o + 1) = {} => bs.keyboard_focus = o

StatesInv == PlacesInv /\ NewsInv /\ ConfigureInv /\ FullInv /\ FocusInv

(* Between the compositor and the listeners no key and no state is lost,   *)
(* doubled or overtaken, in every state of both processes.                 *)
WlInv == TypesInv /\ TypeOK /\ ChannelInv /\ NumbersInv /\ LifeInv /\ KeysInv /\ EnterInv
         /\ StatesInv
=============================================================================
