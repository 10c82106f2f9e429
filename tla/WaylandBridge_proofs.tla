------------------------- MODULE WaylandBridge_proofs -------------------------
(***************************************************************************)
(* Theorems about WaylandBridge, for any tables, callbacks and workloads:  *)
(* its types, keys that arrive once and in order, and surfaces whose       *)
(* listeners end up with the state the compositor gave them.               *)
(***************************************************************************)
EXTENDS WaylandInvariant, FiniteSetTheorems, SequenceTheorems, TLAPS

-----------------------------------------------------------------------------
(* Sets and sequences                                                      *)

LEMMA SlotsAre ==
  /\ Slots \subseteq Nat \ {0} /\ IsFiniteSet(Slots)
  /\ Cardinality(Slots) = PROXY_SURF_MAX - 1
  /\ PROXY_SURF_MAX \in Nat \ {0} /\ SURF_MAP_MAX \in Nat \ {0}
  /\ INPUT_EVT_MAX \in Nat \ {0} /\ MAX_CALLBACKS \in Nat \ {0}
  /\ Offsets \subseteq Nat /\ None \notin Offsets
  <1>1. /\ PROXY_SURF_MAX \in Nat \ {0} /\ SURF_MAP_MAX \in Nat \ {0}
        /\ INPUT_EVT_MAX \in Nat \ {0} /\ MAX_CALLBACKS \in Nat \ {0}
    BY WlAssumption
  <1>2. /\ IsFiniteSet(1 .. PROXY_SURF_MAX - 1)
        /\ Cardinality(1 .. PROXY_SURF_MAX - 1) = PROXY_SURF_MAX - 1
    BY <1>1, FS_Interval
  <1> QED
    BY <1>1, <1>2 DEF Slots, Offsets, None

(* The place of a member among its set, counted from 1.                    *)
Rank(T, s) == Cardinality({r \in T : r <= s})

LEMMA RankGrows ==
  ASSUME NEW T \in SUBSET Nat, IsFiniteSet(T), NEW s \in T
  PROVE  /\ Rank(T, s) \in 1 .. Cardinality(T)
         /\ \A u \in T : u < s => Rank(T, u) < Rank(T, s)
  <1> DEFINE Below(u) == {r \in T : r <= u}
  <1>1. /\ IsFiniteSet(Below(s)) /\ Cardinality(Below(s)) <= Cardinality(T)
        /\ Cardinality(Below(s)) \in Nat
    BY FS_Subset, FS_CardinalityType
  <1>2. Cardinality(Below(s)) # 0
    BY <1>1, FS_EmptySet
  <1>3. ASSUME NEW u \in T, u < s
        PROVE  Rank(T, u) < Rank(T, s)
    <2>1. Below(u) \in SUBSET Below(s) /\ s \in Below(s) /\ s \notin Below(u)
      <3>1. \A r \in T : r \in Nat
        OBVIOUS
      <3>2. \A r \in T : r <= u => r <= s
        BY <1>3, <3>1
      <3>3. s <= s /\ ~ (s <= u)
        BY <1>3, <3>1
      <3> QED
        BY <3>2, <3>3
    <2>2. /\ IsFiniteSet(Below(u)) /\ Cardinality(Below(u)) <= Cardinality(Below(s))
          /\ Cardinality(Below(u)) # Cardinality(Below(s))
      BY <1>1, <2>1, FS_Subset
    <2>3. Cardinality(Below(u)) \in Nat
      BY <2>2, FS_CardinalityType
    <2> HIDE DEF Below
    <2>4. Rank(T, u) = Cardinality(Below(u)) /\ Rank(T, s) = Cardinality(Below(s))
      BY DEF Rank, Below
    <2> QED
      BY <1>1, <2>2, <2>3, <2>4
  <1>4. Cardinality(T) \in Nat
    BY FS_CardinalityType
  <1> HIDE DEF Below
  <1>5. Rank(T, s) = Cardinality(Below(s))
    BY DEF Rank, Below
  <1> QED
    BY <1>1, <1>2, <1>3, <1>4, <1>5

(* Every place is taken by one member.                                     *)
LEMMA RankOnto ==
  ASSUME NEW T \in SUBSET Nat, IsFiniteSet(T)
  PROVE  /\ Cardinality(T) \in Nat
         /\ \A s, u \in T : Rank(T, s) = Rank(T, u) => s = u
         /\ \A i \in 1 .. Cardinality(T) : \E s \in T : Rank(T, s) = i
  <1>1. Cardinality(T) \in Nat
    BY FS_CardinalityType
  <1>2. \A s, u \in T : u < s => Rank(T, u) < Rank(T, s)
    BY RankGrows
  <1>3. \A s \in T : Rank(T, s) \in 1 .. Cardinality(T)
    BY RankGrows
  <1>4. \A s, u \in T : Rank(T, s) = Rank(T, u) => s = u
    <2> SUFFICES ASSUME NEW s \in T, NEW u \in T, Rank(T, s) = Rank(T, u), s # u
                 PROVE  FALSE
      OBVIOUS
    <2>1. Rank(T, s) \in Nat /\ Rank(T, u) \in Nat
      BY <1>1, <1>3
    <2>2. u < s \/ s < u
      OBVIOUS
    <2> QED
      BY <1>2, <2>1, <2>2
  <1> DEFINE f == [s \in T |-> Rank(T, s)]
  <1>5. f \in Injection(T, 1 .. Cardinality(T))
    BY <1>3, <1>4 DEF Injection, IsInjective
  <1>6. IsFiniteSet(1 .. Cardinality(T))
        /\ Cardinality(1 .. Cardinality(T)) = Cardinality(T)
    BY <1>1, FS_Interval
  <1>7. f \in Surjection(T, 1 .. Cardinality(T))
    BY <1>5, <1>6, FS_Injection
  <1>8. \A i \in 1 .. Cardinality(T) : \E s \in T : f[s] = i
    BY <1>7 DEF Surjection
  <1> QED
    BY <1>1, <1>4, <1>8

LEMMA ConcatTail ==
  ASSUME NEW S, NEW q \in Seq(S), NEW s \in Seq(S), q # << >>
  PROVE  /\ Head(q) \in S /\ Tail(q) \in Seq(S)
         /\ (q \o s)[1] = Head(q)
         /\ Len(q \o s) \in Nat \ {0} /\ Len(Tail(q) \o s) = Len(q \o s) - 1
         /\ \A i \in 1 .. Len(q \o s) - 1 : (Tail(q) \o s)[i] = (q \o s)[i + 1]
  <1>1. /\ Head(q) \in S /\ Tail(q) \in Seq(S) /\ Len(Tail(q)) = Len(q) - 1
        /\ \A i \in 1 .. Len(Tail(q)) : Tail(q)[i] = q[i + 1]
        /\ Head(q) = q[1] /\ Len(q) \in Nat /\ Len(q) # 0 /\ Len(s) \in Nat
    BY HeadTailProperties, LenProperties, EmptySeq
  <1>2. /\ Len(q \o s) = Len(q) + Len(s)
        /\ \A i \in 1 .. Len(q) + Len(s) :
             (q \o s)[i] = IF i <= Len(q) THEN q[i] ELSE s[i - Len(q)]
    BY ConcatProperties
  <1>3. /\ Len(Tail(q) \o s) = Len(Tail(q)) + Len(s)
        /\ \A i \in 1 .. Len(Tail(q)) + Len(s) : (Tail(q) \o s)[i] =
             IF i <= Len(Tail(q)) THEN Tail(q)[i] ELSE s[i - Len(Tail(q))]
    BY <1>1, ConcatProperties
  <1>4. ASSUME NEW i \in 1 .. Len(q \o s) - 1
        PROVE  (Tail(q) \o s)[i] = (q \o s)[i + 1]
    <2>1. i \in 1 .. Len(Tail(q)) + Len(s) /\ i + 1 \in 1 .. Len(q) + Len(s)
      BY <1>1, <1>2, <1>4
    <2>2. CASE i <= Len(Tail(q))
      BY <1>1, <1>2, <1>3, <2>1, <2>2
    <2>3. CASE ~ (i <= Len(Tail(q)))
      <3>1. i - Len(Tail(q)) = (i + 1) - Len(q) /\ ~ (i + 1 <= Len(q))
        BY <1>1, <2>1, <2>3
      <3> QED
        BY <1>2, <1>3, <2>1, <2>3, <3>1
    <2> QED
      BY <2>2, <2>3
  <1>5. (q \o s)[1] = Head(q)
    BY <1>1, <1>2
  <1> QED
    BY <1>1, <1>2, <1>3, <1>4, <1>5

(* Two more, or one, at the end.                                           *)
LEMMA ConcatAppend ==
  ASSUME NEW S, NEW w \in Seq(S), NEW n \in Seq(S)
  PROVE  /\ w \o n \in Seq(S) /\ Len(w) \in Nat /\ Len(n) \in Nat
         /\ Len(w \o n) = Len(w) + Len(n)
         /\ DOMAIN w = 1 .. Len(w) /\ DOMAIN (w \o n) = 1 .. Len(w \o n)
         /\ \A i \in 1 .. Len(w) : (w \o n)[i] = w[i]
         /\ \A i \in 1 .. Len(n) : (w \o n)[Len(w) + i] = n[i]
  <1>1. Len(w) \in Nat /\ Len(n) \in Nat /\ DOMAIN w = 1 .. Len(w)
    BY LenProperties
  <1>2. /\ w \o n \in Seq(S) /\ Len(w \o n) = Len(w) + Len(n)
        /\ \A i \in 1 .. Len(w) + Len(n) :
             (w \o n)[i] = IF i <= Len(w) THEN w[i] ELSE n[i - Len(w)]
    BY ConcatProperties
  <1>3. \A i \in 1 .. Len(n) : Len(w) + i \in 1 .. Len(w) + Len(n) /\ (Len(w) + i) - Len(w) = i
                               /\ ~ (Len(w) + i <= Len(w))
    BY <1>1
  <1>4. \A i \in 1 .. Len(w) : i \in 1 .. Len(w) + Len(n) /\ i <= Len(w)
    BY <1>1
  <1>5. DOMAIN (w \o n) = 1 .. Len(w \o n)
    BY <1>2, LenProperties
  <1> QED
    BY <1>1, <1>2, <1>3, <1>4, <1>5

-----------------------------------------------------------------------------
(* The wire: what is queued and what waits in the socket, as one sequence. *)

LEMMA WireIs ==
  ASSUME queue \in Seq(Event), socket \in Seq(Event)
  PROVE  /\ Wire \in Seq(Event) /\ Len(Wire) \in Nat /\ DOMAIN Wire = 1 .. Len(Wire)
         /\ \A i \in 1 .. Len(Wire) : Wire[i] \in Event
  BY ConcatProperties, LenProperties, ElementOfSeq DEF Wire

(* Reading the socket leaves it as it is.                                  *)
LEMMA WireRead ==
  ASSUME queue \in Seq(Event), socket \in Seq(Event),
         queue' = queue \o socket, socket' = << >>
  PROVE  Wire' = Wire
  BY ConcatProperties, ConcatEmptySeq DEF Wire

(* Hearing of an event takes the first.                                    *)
LEMMA WireHear ==
  ASSUME queue \in Seq(Event), socket \in Seq(Event), queue # << >>,
         queue' = Tail(queue), socket' = socket
  PROVE  /\ Wire[1] = Head(queue) /\ Head(queue) \in Event
         /\ Len(Wire) \in Nat \ {0} /\ Len(Wire') = Len(Wire) - 1
         /\ DOMAIN Wire = 1 .. Len(Wire) /\ DOMAIN Wire' = 1 .. Len(Wire) - 1
         /\ \A i \in 1 .. Len(Wire) - 1 : Wire'[i] = Wire[i + 1]
  <1>1. queue' \in Seq(Event) /\ socket' \in Seq(Event)
    BY ConcatTail
  <1>2. DOMAIN Wire' = 1 .. Len(Wire')
    BY <1>1, ConcatProperties, LenProperties DEF Wire
  <1>3. DOMAIN Wire = 1 .. Len(Wire)
    BY WireIs
  <1> QED
    BY <1>2, <1>3, ConcatTail DEF Wire

(* What the compositor sends goes to the end.                              *)
LEMMA WireSend ==
  ASSUME queue \in Seq(Event), socket \in Seq(Event),
         NEW n \in Seq(Event), socket' = socket \o n, queue' = queue
  PROVE  Wire' = Wire \o n
  BY ConcatAssociative DEF Wire

-----------------------------------------------------------------------------
(* Types *)

(* What the operators on g_bs change.                                      *)
Same4(a, b) == /\ a.reg_listener = b.reg_listener /\ a.globals_fired = b.globals_fired
               /\ a.seat = b.seat /\ a.next_surface = b.next_surface
               /\ a.surface_slot_map = b.surface_slot_map
               /\ a.ss_listeners = b.ss_listeners /\ a.ss_listener = b.ss_listener

LEMMA EnterToIs ==
  ASSUME NEW b \in BsType, NEW o \in Int
  PROVE  LET a == EnterTo(b, o)
         IN  /\ a \in BsType /\ Same4(a, b) /\ a.told = b.told
             /\ a.keyboard = b.keyboard /\ a.lazy_caps_done = b.lazy_caps_done
             /\ a.active_surface = b.active_surface
             /\ ~ b.keyboard => a = b
             /\ b.keyboard => /\ a.enter_sent /\ a.keyboard_focus = o
                              /\ a.heard = Append(b.heard, 0)
  BY AppendProperties DEF EnterTo, BsType, Same4

LEMMA FocusKeyboardIs ==
  ASSUME NEW b \in BsType
  PROVE  LET a == FocusKeyboard(b)
         IN  /\ a \in BsType /\ Same4(a, b) /\ a.told = b.told
             /\ a.keyboard = b.keyboard /\ a.lazy_caps_done = b.lazy_caps_done
             /\ a.active_surface \in {0, b.active_surface}
             /\ a.active_surface = 0 => b.active_surface = 0 \/ b.next_surface > 0
             /\ b.enter_sent => a = b
             /\ ~ b.keyboard => a.heard = b.heard /\ a.enter_sent = b.enter_sent
                                /\ a.keyboard_focus = b.keyboard_focus
             /\ \/ a.heard = b.heard /\ a.enter_sent = b.enter_sent
                   /\ a.keyboard_focus = b.keyboard_focus
                \/ /\ ~ b.enter_sent /\ b.keyboard /\ a.enter_sent
                   /\ a.heard = Append(b.heard, 0)
                   /\ a.keyboard_focus = a.active_surface /\ a.active_surface # None
             /\ b.keyboard /\ b.next_surface > 0 => a.enter_sent
  <1> DEFINE o == IF b.active_surface = None THEN 0 ELSE b.active_surface
             c == [b EXCEPT !.active_surface = o]
  <1>1. b.active_surface \in Int /\ o \in Int /\ o # None /\ b.next_surface \in Nat
    BY DEF BsType, None
  <1>2. /\ c \in BsType /\ Same4(c, b) /\ c.told = b.told /\ c.keyboard = b.keyboard
        /\ c.lazy_caps_done = b.lazy_caps_done /\ c.active_surface = o
        /\ c.heard = b.heard /\ c.enter_sent = b.enter_sent
        /\ c.keyboard_focus = b.keyboard_focus
    BY <1>1 DEF BsType, Same4
  <1>3. FocusKeyboard(b) =
          IF b.enter_sent \/ (b.active_surface = None /\ b.next_surface = 0) THEN b
          ELSE EnterTo(c, o)
    BY DEF FocusKeyboard
  <1>4. b.enter_sent \in BOOLEAN /\ b.keyboard \in BOOLEAN
    BY DEF BsType
  <1> HIDE DEF c
  <1>5. CASE b.enter_sent \/ (b.active_surface = None /\ b.next_surface = 0)
    <2>1. FocusKeyboard(b) = b /\ Same4(b, b)
      BY <1>3, <1>5 DEF Same4
    <2> QED
      BY <1>1, <1>5, <2>1 DEF None
  <1>6. CASE ~ (b.enter_sent \/ (b.active_surface = None /\ b.next_surface = 0))
    <2> DEFINE a == EnterTo(c, o)
    <2>1. FocusKeyboard(b) = a
      BY <1>3, <1>6
    <2>2. /\ a \in BsType /\ Same4(a, c) /\ a.told = c.told
          /\ a.keyboard = c.keyboard /\ a.lazy_caps_done = c.lazy_caps_done
          /\ a.active_surface = c.active_surface
          /\ ~ c.keyboard => a = c
          /\ c.keyboard => /\ a.enter_sent /\ a.keyboard_focus = o
                           /\ a.heard = Append(c.heard, 0)
      BY <1>1, <1>2, EnterToIs
    <2>3. Same4(a, b)
      BY <1>2, <2>2 DEF Same4
    <2>4. o \in {0, b.active_surface} /\ (o = 0 => b.active_surface = 0 \/ b.next_surface > 0)
      BY <1>1, <1>6
    <2> HIDE DEF a
    <2> QED
      BY <1>1, <1>2, <1>4, <1>6, <2>1, <2>2, <2>3, <2>4
  <1> QED
    BY <1>5, <1>6

(* What EnterInv says of g_bs.                                             *)
EnterB(b) ==
  /\ b.enter_sent <=> b.heard # << >>
  /\ b.heard # << >> => b.heard[1] = 0
  /\ b.enter_sent => b.keyboard
  /\ b.globals_fired => b.keyboard \/ b.seat = "dispatcher"
  /\ b.lazy_caps_done => b.keyboard

(* Appending to what the keyboard has heard, 0 if it is the first.         *)
LEMMA AppendHeard ==
  ASSUME NEW h \in Seq(Nat), NEW k \in Nat
  PROVE  /\ Append(h, k) \in Seq(Nat) /\ Append(h, k) # << >>
         /\ Len(h) \in Nat /\ DOMAIN h = 1 .. Len(h)
         /\ Len(Append(h, k)) = Len(h) + 1 /\ DOMAIN Append(h, k) = 1 .. Len(h) + 1
         /\ \A i \in 1 .. Len(h) : Append(h, k)[i] = h[i]
         /\ Append(h, k)[Len(h) + 1] = k
         /\ h = << >> => Append(h, k)[1] = k
         /\ h # << >> => 1 \in 1 .. Len(h) /\ Append(h, k)[1] = h[1]
         /\ Range(Append(h, k)) = Range(h) \cup {k}
  <1>1. /\ Append(h, k) \in Seq(Nat) /\ Append(h, k) # << >>
        /\ Len(Append(h, k)) = Len(h) + 1
        /\ \A i \in 1 .. Len(h) : Append(h, k)[i] = h[i]
        /\ Append(h, k)[Len(h) + 1] = k
    BY AppendProperties
  <1>2. Len(h) \in Nat /\ DOMAIN h = 1 .. Len(h)
        /\ DOMAIN Append(h, k) = 1 .. Len(Append(h, k))
    BY <1>1, LenProperties
  <1>3. h = << >> => Len(h) = 0
    BY EmptySeq
  <1>4. h # << >> => Len(h) # 0
    BY EmptySeq
  <1>5. Range(Append(h, k)) = Range(h) \cup {k}
    <2>1. Range(Append(h, k)) = {Append(h, k)[i] : i \in 1 .. Len(h) + 1}
          /\ Range(h) = {h[i] : i \in 1 .. Len(h)}
      BY <1>1, <1>2 DEF Range
    <2>2. \A i \in 1 .. Len(h) + 1 : i = Len(h) + 1 \/ i \in 1 .. Len(h)
      BY <1>2
    <2>3. \A i \in 1 .. Len(h) : i \in 1 .. Len(h) + 1
      BY <1>2
    <2>4. Len(h) + 1 \in 1 .. Len(h) + 1
      BY <1>2
    <2> QED
      BY <1>1, <2>1, <2>2, <2>3, <2>4
  <1> QED
    BY <1>1, <1>2, <1>3, <1>4, <1>5

(* The first entering of the keyboard, after a roundtrip.                  *)
Entered(a, b) ==
  \/ a.heard = b.heard /\ a.enter_sent = b.enter_sent /\ a.keyboard_focus = b.keyboard_focus
  \/ ~ b.enter_sent /\ a.enter_sent /\ a.heard = Append(b.heard, 0)

LEMMA EnteredStays ==
  ASSUME NEW b \in BsType, NEW a \in BsType, EnterB(b), Entered(a, b), Same4(a, b),
         b.keyboard => a.keyboard, a.enter_sent => a.keyboard,
         a.lazy_caps_done => a.keyboard
  PROVE  EnterB(a)
  <1>1. b.heard \in Seq(Nat)
    BY DEF BsType
  <1>2. Append(b.heard, 0) # << >> /\ (b.heard = << >> => Append(b.heard, 0)[1] = 0)
    BY <1>1, AppendHeard
  <1> QED
    BY <1>2 DEF EnterB, Entered, Same4

LEMMA FocusFirstIs ==
  ASSUME NEW b \in BsType, EnterB(b)
  PROVE  LET a == LazyCapabilities(FocusKeyboard(b))
         IN  /\ a \in BsType /\ Same4(a, b) /\ a.told = b.told
             /\ EnterB(a) /\ Entered(a, b)
             /\ a.active_surface \in {0, b.active_surface}
             /\ a.active_surface = 0 => b.active_surface = 0 \/ b.next_surface > 0
             /\ a.keyboard_focus \in {b.keyboard_focus, a.active_surface}
             /\ b.globals_fired /\ b.next_surface > 0 => a.enter_sent
  <1> DEFINE c == FocusKeyboard(b)
  <1>1. /\ c \in BsType /\ Same4(c, b) /\ c.told = b.told
        /\ c.keyboard = b.keyboard /\ c.lazy_caps_done = b.lazy_caps_done
        /\ c.active_surface \in {0, b.active_surface}
        /\ c.active_surface = 0 => b.active_surface = 0 \/ b.next_surface > 0
        /\ Entered(c, b)
        /\ c.keyboard_focus \in {b.keyboard_focus, c.active_surface}
        /\ c.enter_sent => c.keyboard
        /\ b.keyboard /\ b.next_surface > 0 => c.enter_sent
        /\ ~ b.keyboard => c.heard = b.heard /\ c.enter_sent = b.enter_sent
                           /\ c.keyboard_focus = b.keyboard_focus
    BY FocusKeyboardIs DEF Entered, EnterB
  <1>2. EnterB(c)
    BY <1>1, EnteredStays DEF EnterB
  <1> HIDE DEF c
  <1>3. CASE c.lazy_caps_done \/ c.keyboard \/ c.seat # "dispatcher"
    <2>1. LazyCapabilities(c) = c
      BY <1>3 DEF LazyCapabilities
    <2>2. b.globals_fired /\ b.next_surface > 0 => c.enter_sent
      BY <1>1, <1>2, <1>3 DEF EnterB, Same4
    <2> QED
      BY <1>1, <1>2, <2>1, <2>2 DEF c
  <1>4. CASE ~ (c.lazy_caps_done \/ c.keyboard \/ c.seat # "dispatcher")
    <2> DEFINE k == [c EXCEPT !.keyboard = TRUE]
               f == FocusKeyboard(k)
               a == [f EXCEPT !.lazy_caps_done = TRUE]
    <2>1. ~ c.enter_sent
      BY <1>2, <1>4 DEF EnterB
    <2>2. LazyCapabilities(c) = a
      BY <1>4, <2>1 DEF LazyCapabilities
    <2>3. /\ k \in BsType /\ Same4(k, c) /\ k.told = c.told /\ k.keyboard
          /\ k.active_surface = c.active_surface /\ k.heard = c.heard
          /\ k.enter_sent = c.enter_sent /\ k.keyboard_focus = c.keyboard_focus
      BY <1>1 DEF BsType, Same4
    <2> HIDE DEF k
    <2>4. /\ f \in BsType /\ Same4(f, k) /\ f.told = k.told /\ f.keyboard = k.keyboard
          /\ f.active_surface \in {0, k.active_surface}
          /\ f.active_surface = 0 => k.active_surface = 0 \/ k.next_surface > 0
          /\ Entered(f, k)
          /\ f.keyboard_focus \in {k.keyboard_focus, f.active_surface}
          /\ k.keyboard /\ k.next_surface > 0 => f.enter_sent
      BY <2>3, FocusKeyboardIs DEF Entered
    <2> HIDE DEF f
    <2>5. /\ a \in BsType /\ Same4(a, f) /\ a.told = f.told /\ a.keyboard = f.keyboard
          /\ a.active_surface = f.active_surface /\ a.heard = f.heard
          /\ a.enter_sent = f.enter_sent /\ a.keyboard_focus = f.keyboard_focus
      BY <2>4 DEF BsType, Same4
    <2> HIDE DEF a
    <2>6. Same4(a, b) /\ Same4(a, c)
      BY <1>1, <2>3, <2>4, <2>5 DEF Same4
    <2>7. Entered(a, c)
      BY <2>3, <2>4, <2>5 DEF Entered
    <2>8. EnterB(a)
      BY <1>1, <1>2, <2>3, <2>4, <2>5, <2>6, <2>7, EnteredStays
    <2>9. /\ c.keyboard_focus = b.keyboard_focus /\ c.heard = b.heard
          /\ c.enter_sent = b.enter_sent
      BY <1>1, <1>4
    <2>10. Entered(a, b)
      BY <2>7, <2>9 DEF Entered
    <2>11. b.next_surface > 0 => a.enter_sent
      BY <1>1, <2>3, <2>4, <2>5 DEF Same4
    <2>12. /\ a.active_surface \in {0, b.active_surface}
           /\ a.active_surface = 0 => b.active_surface = 0 \/ b.next_surface > 0
           /\ a.keyboard_focus \in {b.keyboard_focus, a.active_surface}
      BY <1>1, <2>3, <2>4, <2>5, <2>9 DEF Same4
    <2> QED
      BY <1>1, <2>2, <2>3, <2>4, <2>5, <2>6, <2>8, <2>10, <2>11, <2>12 DEF c
  <1> QED
    BY <1>3, <1>4 DEF c

LEMMA DeliverIs ==
  ASSUME NEW b \in BsType, NEW o \in Nat, NEW v \in States \cup {0}, EnterB(b)
  PROVE  LET a == Deliver(b, o, v)
             w == ListenerOf(b, o)
         IN  /\ a \in BsType /\ Same4(a, b) /\ EnterB(a)
             /\ a.keyboard = b.keyboard /\ a.enter_sent = b.enter_sent
             /\ w \in Offset0 /\ a.told = IF w = None THEN b.told ELSE [b.told EXCEPT ![w] = v]
             /\ a.active_surface \in {o, b.active_surface}
             /\ a.keyboard_focus \in {o, b.keyboard_focus}
             /\ v # FULLSCREEN => a.keyboard_focus = b.keyboard_focus
             /\ v = FULLSCREEN /\ b.enter_sent => a.keyboard_focus = o
             /\ a.heard = b.heard \/ (b.enter_sent /\ a.heard = Append(b.heard, 0))
  <1> DEFINE w == ListenerOf(b, o)
             n == IF b.active_surface = None THEN o ELSE b.active_surface
             k == [b EXCEPT !.active_surface = n]
             f == IF v = FULLSCREEN /\ b.enter_sent /\ b.keyboard_focus # o
                  THEN EnterTo(k, o) ELSE k
             a == IF w = None THEN f ELSE [f EXCEPT !.told[w] = v]
  <1>1. Deliver(b, o, v) = a
    BY DEF Deliver
  <1>2. w \in Offset0
    BY DEF ListenerOf, BsType
  <1>3. /\ k \in BsType /\ Same4(k, b) /\ k.told = b.told /\ k.keyboard = b.keyboard
        /\ k.active_surface \in {o, b.active_surface} /\ k.heard = b.heard
        /\ k.lazy_caps_done = b.lazy_caps_done
        /\ k.enter_sent = b.enter_sent /\ k.keyboard_focus = b.keyboard_focus
    <2>1. n \in Int /\ n \in {o, b.active_surface}
      BY DEF BsType
    <2> HIDE DEF n
    <2> QED
      BY <2>1 DEF BsType, Same4
  <1>4. b.enter_sent => b.keyboard
    BY DEF EnterB
  <1> HIDE DEF k, w
  <1>5. /\ f \in BsType /\ Same4(f, b) /\ f.told = b.told /\ f.keyboard = b.keyboard
        /\ f.lazy_caps_done = b.lazy_caps_done
        /\ f.active_surface \in {o, b.active_surface}
        /\ f.enter_sent = b.enter_sent /\ f.keyboard_focus \in {o, b.keyboard_focus}
        /\ v # FULLSCREEN => f.keyboard_focus = b.keyboard_focus
        /\ v = FULLSCREEN /\ b.enter_sent => f.keyboard_focus = o
        /\ f.heard = b.heard \/ (b.enter_sent /\ f.heard = Append(b.heard, 0))
    <2>1. CASE v = FULLSCREEN /\ b.enter_sent /\ b.keyboard_focus # o
      <3> DEFINE e == EnterTo(k, o)
      <3>1. f = e
        BY <2>1
      <3>2. /\ e \in BsType /\ Same4(e, k) /\ e.told = k.told
            /\ e.keyboard = k.keyboard /\ e.lazy_caps_done = k.lazy_caps_done
            /\ e.active_surface = k.active_surface
            /\ e.enter_sent /\ e.keyboard_focus = o /\ e.heard = Append(k.heard, 0)
        <4>1. o \in Int /\ k.keyboard
          BY <1>3, <1>4, <2>1
        <4> QED
          BY <1>3, <4>1, EnterToIs
      <3>3. Same4(e, b)
        BY <1>3, <3>2 DEF Same4
      <3>4. b.enter_sent = TRUE /\ e.enter_sent = TRUE
        BY <2>1, <3>2 DEF BsType
      <3> HIDE DEF e, f
      <3> QED
        BY <1>3, <2>1, <3>1, <3>2, <3>3, <3>4
    <2>2. CASE ~ (v = FULLSCREEN /\ b.enter_sent /\ b.keyboard_focus # o)
      <3>1. f = k
        BY <2>2
      <3> HIDE DEF f
      <3> QED
        BY <1>3, <2>2, <3>1
    <2> QED
      BY <2>1, <2>2
  <1> HIDE DEF f
  <1>6. /\ a \in BsType /\ Same4(a, f) /\ a.keyboard = f.keyboard
        /\ a.lazy_caps_done = f.lazy_caps_done
        /\ a.active_surface = f.active_surface /\ a.enter_sent = f.enter_sent
        /\ a.keyboard_focus = f.keyboard_focus /\ a.heard = f.heard
        /\ a.told = IF w = None THEN f.told ELSE [f.told EXCEPT ![w] = v]
    BY <1>2, <1>5 DEF BsType, Same4, Offset0
  <1> HIDE DEF a
  <1>7. EnterB(a)
    <2>1. b.heard \in Seq(Nat)
      BY DEF BsType
    <2>2. Append(b.heard, 0) # << >>
          /\ (b.heard # << >> => Append(b.heard, 0)[1] = b.heard[1])
      BY <2>1, AppendHeard
    <2> QED
      BY <1>5, <1>6, <2>2 DEF EnterB, Same4
  <1>8. Same4(a, b)
    BY <1>5, <1>6 DEF Same4
  <1> QED
    BY <1>1, <1>2, <1>5, <1>6, <1>7, <1>8 DEF w

LEMMA ListenIs ==
  ASSUME NEW p \in PxType, Len(p.evts) <= INPUT_EVT_MAX, NEW e \in Event
  PROVE  LET a == Listen(p, e)
         IN  /\ a \in PxType /\ Len(a.evts) <= INPUT_EVT_MAX
             /\ a.shells = p.shells /\ a.g_surf_next = p.g_surf_next
             /\ e.kind = "key" /\ Fits(p) => a.wss = p.wss /\ a.evts = Append(p.evts, e.what)
             /\ e.kind = "key" /\ ~ Fits(p) => a = p
             /\ e.kind # "key" => a.evts = p.evts
             /\ e.kind # "key" /\ e.what \in p.shells =>
                  a.wss = IF e.kind = "configure" /\ p.wss[e.what].pending THEN p.wss
                          ELSE [p.wss EXCEPT ![e.what] = [last |-> e.state, pending |-> TRUE]]
  <1>1. INPUT_EVT_MAX \in Nat
    BY SlotsAre
  <1>2. CASE e.kind = "key"
    <2>1. e.what \in Nat
      BY <1>2 DEF Event
    <2>2. p.evts \in Seq(Nat)
      BY DEF PxType
    <2>3. /\ Append(p.evts, e.what) \in Seq(Nat) /\ Len(p.evts) \in Nat
          /\ Len(Append(p.evts, e.what)) = Len(p.evts) + 1
      BY <2>1, <2>2, AppendHeard
    <2>4. CASE Fits(p)
      <3>1. Listen(p, e) = [p EXCEPT !.evts = Append(p.evts, e.what)]
        BY <1>2, <2>4 DEF Listen
      <3>2. Len(p.evts) + 1 <= INPUT_EVT_MAX
        BY <1>1, <2>3, <2>4 DEF Fits
      <3> QED
        BY <1>2, <2>3, <2>4, <3>1, <3>2 DEF PxType
    <2>5. CASE ~ Fits(p)
      BY <1>2, <2>5 DEF Listen
    <2> QED
      BY <2>4, <2>5
  <1>3. CASE e.kind # "key"
    <2>1. /\ e.what \in Slots /\ e.state \in States /\ e.kind \in {"state", "configure"}
          /\ e.kind = "configure" => e.state = FULLSCREEN
      BY <1>3 DEF Event, States
    <2>2. CASE e.what \notin p.shells \/ (e.kind = "configure" /\ p.wss[e.what].pending)
      <3>1. Listen(p, e) = p
        BY <1>3, <2>1, <2>2 DEF Listen
      <3> QED
        BY <1>3, <2>2, <3>1
    <2>3. CASE ~ (e.what \notin p.shells \/ (e.kind = "configure" /\ p.wss[e.what].pending))
      <3>1. Listen(p, e) = [p EXCEPT !.wss = [p.wss EXCEPT ![e.what] =
                                                [last |-> e.state, pending |-> TRUE]]]
        BY <1>3, <2>1, <2>3 DEF Listen
      <3> DEFINE w == [p.wss EXCEPT ![e.what] = [last |-> e.state, pending |-> TRUE]]
      <3>2. w \in [Slots -> [last : States \cup {0}, pending : BOOLEAN]]
        BY <2>1 DEF PxType
      <3>3. Listen(p, e) = [p EXCEPT !.wss = w]
        BY <3>1
      <3> HIDE DEF w
      <3>4. LET a == [p EXCEPT !.wss = w]
            IN  /\ a \in PxType /\ a.evts = p.evts /\ a.shells = p.shells
                /\ a.g_surf_next = p.g_surf_next /\ a.wss = w
        BY <3>2 DEF PxType
      <3>5. e.kind # "key" /\ e.what \in p.shells =>
              w = IF e.kind = "configure" /\ p.wss[e.what].pending THEN p.wss
                  ELSE [p.wss EXCEPT ![e.what] = [last |-> e.state, pending |-> TRUE]]
        BY <2>3 DEF w
      <3> QED
        BY <1>3, <3>3, <3>4, <3>5
    <2> QED
      BY <2>2, <2>3
  <1> QED
    BY <1>2, <1>3

(* A thread's step.                                                        *)
Moved(f, t, pc, i, n) == [f EXCEPT ![t].pc = pc, ![t].i = i, ![t].n = n]
Pcs == {"rest"} \cup CreatorPcs \cup DispatchPcs

LEMMA MovedIs ==
  ASSUME NEW f, NEW t, NEW pc, NEW i, NEW n, NEW g, g = Moved(f, t, pc, i, n),
         f \in ThreadsType, t \in Threads, pc \in Pcs, i \in Nat, n \in Nat
  PROVE  /\ g \in ThreadsType /\ g[t].pc = pc /\ g[t].i = i /\ g[t].n = n
         /\ \A u \in Threads \ {t} : g[u] = f[u]
  BY DEF Moved, ThreadsType, ThType, Pcs

(* A command of the program.                                               *)
Command(k, op, arg) == [k EXCEPT !.op = op, !.arg = arg]

LEMMA CommandIs ==
  ASSUME NEW k, NEW op, NEW arg, NEW c, c = Command(k, op, arg), k \in CtrlType,
         op \in {"roundtrip", "create", "shell", "show", "destroy"}, arg \in Nat
  PROVE  c \in CtrlType /\ c.op = op /\ c.arg = arg /\ c.result = k.result
  BY DEF CtrlType, Command

(* A callback is free, taken, pending or armed.                            *)
LEMMA CallbacksAre ==
  /\ Free \in CbType /\ Taken \in CbType /\ Pending \in CbType
  /\ \A k \in CbType : k.pending => [k EXCEPT !.armed = TRUE] \in CbType
  <1>1. ~ Free.pending /\ ~ Taken.pending
    BY DEF Free, Taken
  <1>2. ASSUME NEW k \in CbType, k.pending
        PROVE  [k EXCEPT !.armed = TRUE] = [Pending EXCEPT !.armed = TRUE]
    <2>1. k = Pending \/ k = [Pending EXCEPT !.armed = TRUE]
      BY <1>1, <1>2 DEF CbType
    <2>2. CASE k = Pending
      BY <2>2
    <2>3. CASE k = [Pending EXCEPT !.armed = TRUE]
      BY <2>3
    <2> QED
      BY <2>1, <2>2, <2>3
  <1> QED
    BY <1>2 DEF CbType

LEMMA PcsAre ==
  {"rest", "creating", "shell", "shown", "late", "gone", "naming", "destroy", "frame",
   "globals", "callbacks", "await", "focus", "keys", "states"} = Pcs
  BY DEF Pcs, CreatorPcs, AskPcs, DispatchPcs

LEMMA EventsAre ==
  /\ \A k \in Nat : Key(k) \in Event /\ Key(k).kind = "key" /\ Key(k).what = k
  /\ \A s \in Slots, v \in States : /\ State(s, v) \in Event /\ State(s, v).kind = "state"
                                    /\ State(s, v).what = s /\ State(s, v).state = v
  /\ \A s \in Slots : /\ Configure(s) \in Event /\ Configure(s).kind = "configure"
                      /\ Configure(s).what = s /\ Configure(s).state = FULLSCREEN
  /\ \A e \in Event : /\ e.kind = "key" => e.what \in Nat
                      /\ e.kind # "key" => e.what \in Slots /\ e.state \in States
                                           /\ e.kind \in {"state", "configure"}
                      /\ e.kind = "configure" => e.state = FULLSCREEN
  BY DEF Event, Key, State, Configure, States

(* h_wl_roundtrip() writes down every key, and every surface that was told *)
(* its state, once.                                                        *)
LEMMA CollectedIs ==
  ASSUME TypesInv, px.shells \subseteq Slots
  PROVE  LET n == Cardinality(Told(px))
             c == Collected(px)
         IN  /\ c \in RbType /\ n \in Nat /\ n <= Cardinality(Slots) /\ c.wss_count = n
             /\ c.count = Len(px.evts)
             /\ \A i \in 1 .. Len(px.evts) : c.keys[i] = px.evts[i]
             /\ \A i \in 1 .. n : /\ i \in Slots /\ c.wss[i][1] \in Told(px)
                                  /\ c.wss[i][2] = px.wss[c.wss[i][1]].last
             /\ \A i, j \in 1 .. n : c.wss[i][1] = c.wss[j][1] => i = j
             /\ \A s \in Told(px) : \E i \in 1 .. n : c.wss[i][1] = s
  <1> DEFINE T == Told(px)
             n == Cardinality(T)
             P(s) == Place(px, s)
             S(i) == CHOOSE s \in T : P(s) = i
             keys == [i \in 1 .. INPUT_EVT_MAX |-> IF i <= Len(px.evts) THEN px.evts[i]
                                                   ELSE rb.keys[i]]
             wss == [i \in Slots |-> IF i > n THEN rb.wss[i] ELSE <<S(i), px.wss[S(i)].last>>]
             c == [count |-> Len(px.evts), keys |-> keys, wss_count |-> n, wss |-> wss]
  <1>1. T \in SUBSET Slots /\ T \in SUBSET Nat /\ IsFiniteSet(T)
        /\ n <= Cardinality(Slots)
    <2>1. T \in SUBSET Slots
      BY DEF Told
    <2> HIDE DEF T
    <2> QED
      BY <2>1, SlotsAre, FS_Subset
  <1>2. \A s \in T : Rank(T, s) = Place(px, s)
    BY DEF Rank, Place
  <1>3. /\ n \in Nat
        /\ \A s, u \in T : P(s) = P(u) => s = u
        /\ \A i \in 1 .. n : \E s \in T : P(s) = i
    <2> HIDE DEF T
    <2>1. /\ Cardinality(T) \in Nat
          /\ \A s, u \in T : Rank(T, s) = Rank(T, u) => s = u
          /\ \A i \in 1 .. Cardinality(T) : \E s \in T : Rank(T, s) = i
      BY <1>1, RankOnto
    <2> HIDE DEF n, P
    <2>2. n = Cardinality(T) /\ \A s \in T : Rank(T, s) = P(s)
      BY <1>2 DEF n, P
    <2> QED
      BY <2>1, <2>2
  <1>4. \A i \in 1 .. n : S(i) \in T /\ P(S(i)) = i
    <2> HIDE DEF T, n, P
    <2> QED
      BY <1>3
  <1>5. \A s \in T : P(s) \in 1 .. n
    <2> HIDE DEF T
    <2> QED
      BY <1>1, <1>2, RankGrows
  <1>6. Collected(px) = c
    BY DEF Collected
  <1>7. /\ \A i \in 1 .. n : i \in Slots
        /\ \A i \in Slots : i > n \/ i \in 1 .. n
    BY <1>1, <1>3, SlotsAre DEF Slots
  <1>8. \A i \in 1 .. n : wss[i] = <<S(i), px.wss[S(i)].last>>
    <2> SUFFICES ASSUME NEW i \in 1 .. n PROVE wss[i] = <<S(i), px.wss[S(i)].last>>
      OBVIOUS
    <2>1. i \in Slots /\ ~ (i > n)
      BY <1>3, <1>7
    <2> HIDE DEF n, S, T
    <2> QED
      BY <2>1 DEF wss
  <1> HIDE DEF T, n, P, S
  <1>9. Len(px.evts) \in Nat /\ Len(px.evts) <= INPUT_EVT_MAX
        /\ \A i \in 1 .. Len(px.evts) : px.evts[i] \in Nat
    BY ElementOfSeq, LenProperties DEF TypesInv, PxType
  <1>10. keys \in [1 .. INPUT_EVT_MAX -> Nat]
    <2> SUFFICES ASSUME NEW i \in 1 .. INPUT_EVT_MAX PROVE keys[i] \in Nat
      OBVIOUS
    <2>1. i <= Len(px.evts) => i \in 1 .. Len(px.evts)
      BY <1>9
    <2> QED
      BY <1>9, <2>1 DEF TypesInv, RbType
  <1>11. wss \in [Slots -> (Slots \cup {0}) \X (States \cup {0})]
    <2> SUFFICES ASSUME NEW i \in Slots
                 PROVE  wss[i] \in (Slots \cup {0}) \X (States \cup {0})
      OBVIOUS
    <2>1. CASE i > n
      BY <2>1 DEF TypesInv, RbType
    <2>2. CASE ~ (i > n)
      <3>1. S(i) \in Slots /\ px.wss[S(i)].last \in States \cup {0}
        BY <1>1, <1>4, <1>7, <2>2 DEF TypesInv, PxType
      <3> QED
        BY <2>2, <3>1
    <2> QED
      BY <2>1, <2>2
  <1>12. Len(px.evts) \in 0 .. INPUT_EVT_MAX
    BY <1>9, SlotsAre
  <1>13. \A i \in 1 .. Len(px.evts) : keys[i] = px.evts[i]
    BY <1>9, SlotsAre
  <1>14. /\ \A i \in 1 .. n : wss[i][1] = S(i) /\ wss[i][2] = px.wss[S(i)].last
         /\ \A s \in T : \E i \in 1 .. n : wss[i][1] = s
    <2>1. \A i \in 1 .. n : wss[i][1] = S(i) /\ wss[i][2] = px.wss[S(i)].last
      <3> HIDE DEF wss
      <3> QED
        BY <1>8
    <2>2. \A s \in T : S(P(s)) = s
      BY <1>3, <1>4, <1>5
    <2>3. ASSUME NEW s \in T
          PROVE  \E i \in 1 .. n : wss[i][1] = s
      <3>1. P(s) \in 1 .. n /\ wss[P(s)][1] = s
        BY <1>5, <2>1, <2>2
      <3> HIDE DEF wss
      <3> QED
        BY <3>1
    <2> QED
      BY <2>1, <2>3
  <1> HIDE DEF keys, wss
  <1>15. c \in RbType
    BY <1>3, <1>10, <1>11, <1>12 DEF RbType
  <1>16. \A i, j \in 1 .. n : wss[i][1] = wss[j][1] => i = j
    BY <1>4, <1>14
  <1>17. T = Told(px) /\ n = Cardinality(T)
    BY DEF T, n
  <1>18. /\ n \in Nat /\ n <= Cardinality(Slots) /\ c.wss_count = n
         /\ c.count = Len(px.evts) /\ c.keys = keys /\ c.wss = wss
         /\ \A i \in 1 .. n : /\ i \in Slots /\ wss[i][1] \in T
                              /\ wss[i][2] = px.wss[wss[i][1]].last
    BY <1>1, <1>3, <1>4, <1>7, <1>14
  <1> HIDE DEF c
  <1> QED
    BY <1>6, <1>13, <1>14, <1>15, <1>16, <1>17, <1>18

-----------------------------------------------------------------------------
(* The steps of the program, action by action: what they ask for, what they *)
(* change and what they leave.                                             *)

Only(t) == th' \in ThreadsType /\ \A u \in Threads \ {t} : th'[u] = th[u]
To(t, pc, i, n) == Only(t) /\ th'[t].pc = pc /\ th'[t].i = i /\ th'[t].n = n

Outside == /\ queue' = queue /\ socket' = socket /\ current' = current /\ sent' = sent
           /\ proxy_pc' = proxy_pc /\ revents' = revents /\ px' = px
Stays   == /\ Outside /\ lock' = lock /\ ctrl' = ctrl /\ rb' = rb
           /\ req_wl_efd' = req_wl_efd /\ resp_wl_efd' = resp_wl_efd

Sends(t, op, arg, pc, i) ==
  /\ lock = NoThread /\ lock' = t
  /\ ctrl' \in CtrlType /\ ctrl'.op = op /\ ctrl'.arg = arg /\ ctrl'.result = ctrl.result
  /\ req_wl_efd' = TRUE /\ resp_wl_efd' = resp_wl_efd /\ rb' = rb
  /\ Outside /\ cb' = cb /\ unheard' = unheard
  /\ To(t, pc, i, 0)

Receives(t, from, to, n) ==
  /\ At(t, from) /\ resp_wl_efd /\ resp_wl_efd' = FALSE /\ lock' = NoThread
  /\ ctrl' = ctrl /\ rb' = rb /\ req_wl_efd' = req_wl_efd
  /\ Outside /\ event_efd' = event_efd /\ cb' = cb /\ unheard' = unheard /\ left' = left
  /\ To(t, to, 0, n)

(* Parts of g_bs.                                                          *)
HeardSame     == /\ bs'.heard = bs.heard /\ bs'.told = bs.told
                 /\ bs'.enter_sent = bs.enter_sent /\ bs'.keyboard_focus = bs.keyboard_focus
                 /\ bs'.active_surface = bs.active_surface
NumbersSame   == bs'.next_surface = bs.next_surface
                 /\ bs'.surface_slot_map = bs.surface_slot_map
ListenersSame == bs'.ss_listeners = bs.ss_listeners /\ bs'.ss_listener = bs.ss_listener
SeatSame      == /\ bs'.globals_fired = bs.globals_fired /\ bs'.seat = bs.seat
                 /\ bs'.keyboard = bs.keyboard /\ bs'.lazy_caps_done = bs.lazy_caps_done

Uses(w) == /\ left' \in LeftType /\ left[w] \in Nat /\ left[w] > 0 /\ left'[w] = left[w] - 1
           /\ \A x \in Limited \ {w} : left'[x] = left[x]

LEMMA UsedIs ==
  ASSUME TypesInv, NEW w \in Limited, Used(w)
  PROVE  Uses(w)
  BY DEF Used, LeftType, TypesInv, Uses

LEMMA CreateIs ==
  ASSUME TypesInv, NEW t \in Threads, Create(t)
  PROVE  /\ t \in Creators /\ At(t, "rest") /\ bs.globals_fired /\ Uses("surfaces")
         /\ Sends(t, "create", 0, "creating", 0) /\ event_efd' = event_efd
         /\ bs' = bs /\ life' = life
  <1>1. th' = Moved(th, t, "creating", 0, 0)
    BY DEF Create, Send, Goto, Moved
  <1>2. 0 \in Nat /\ 0 \in Nat /\ "creating" \in Pcs
    BY SlotsAre, PcsAre DEF TypesInv, ThreadsType, ThType, BsType
  <1>3. To(t, "creating", 0, 0)
    BY <1>1, <1>2, MovedIs DEF To, Only, TypesInv
  <1>4. ctrl' = Command(ctrl, "create", 0) /\ 0 \in Nat
    BY DEF Create, Send, Command, TypesInv, BsType, ThreadsType, ThType
  <1>5. ctrl' \in CtrlType /\ ctrl'.op = "create" /\ ctrl'.arg = 0
        /\ ctrl'.result = ctrl.result
    BY <1>4, CommandIs DEF TypesInv
  <1>6. Uses("surfaces")
    BY UsedIs DEF Create, Limited
  <1> QED
    BY <1>3, <1>5, <1>6 DEF Create, Asks, Sends, Send, Outside, worldVars, proxyVars

LEMMA AskShellIs ==
  ASSUME TypesInv, NEW t \in Threads, NEW o \in Offsets, AskShell(t, o)
  PROVE  /\ t \in Creators /\ At(t, "rest") /\ life[o] = "made"
         /\ Sends(t, "shell", bs.surface_slot_map[o], "shell", o)
         /\ event_efd' = event_efd /\ bs' = bs /\ life' = life /\ left' = left
  <1>1. th' = Moved(th, t, "shell", o, 0)
    BY DEF AskShell, Send, Goto, Moved
  <1>2. o \in Nat /\ 0 \in Nat /\ "shell" \in Pcs
    BY SlotsAre, PcsAre DEF TypesInv, ThreadsType, ThType, BsType
  <1>3. To(t, "shell", o, 0)
    BY <1>1, <1>2, MovedIs DEF To, Only, TypesInv
  <1>4. ctrl' = Command(ctrl, "shell", bs.surface_slot_map[o])
        /\ bs.surface_slot_map[o] \in Nat
    BY DEF AskShell, Send, Command, TypesInv, BsType, ThreadsType, ThType
  <1>5. ctrl' \in CtrlType /\ ctrl'.op = "shell" /\ ctrl'.arg = bs.surface_slot_map[o]
        /\ ctrl'.result = ctrl.result
    BY <1>4, CommandIs DEF TypesInv
  <1> QED
    BY <1>3, <1>5 DEF AskShell, Asks, Sends, Send, Outside, worldVars, proxyVars

LEMMA ShowIs ==
  ASSUME TypesInv, NEW t \in Threads, NEW o \in Offsets, Show(t, o),
         PlainWindows, life[o] # "late"
  PROVE  /\ t \in Creators /\ At(t, "rest") /\ life[o] = "heard"
         /\ Sends(t, "show", bs.surface_slot_map[o], "shown", o)
         /\ event_efd' = event_efd /\ bs' = bs /\ life' = life /\ left' = left
  <1>0. life[o] = "heard"
    BY DEF Show, PlainWindows
  <1>1. th' = Moved(th, t, "shown", o, 0)
    BY <1>0 DEF Show, Send, Goto, Moved
  <1>2. o \in Nat /\ 0 \in Nat /\ "shown" \in Pcs
    BY SlotsAre, PcsAre DEF TypesInv, ThreadsType, ThType, BsType
  <1>3. To(t, "shown", o, 0)
    BY <1>1, <1>2, MovedIs DEF To, Only, TypesInv
  <1>4. ctrl' = Command(ctrl, "show", bs.surface_slot_map[o])
        /\ bs.surface_slot_map[o] \in Nat
    BY DEF Show, Send, Command, TypesInv, BsType, ThreadsType, ThType
  <1>5. ctrl' \in CtrlType /\ ctrl'.op = "show" /\ ctrl'.arg = bs.surface_slot_map[o]
        /\ ctrl'.result = ctrl.result
    BY <1>4, CommandIs DEF TypesInv
  <1> QED
    BY <1>0, <1>3, <1>5 DEF Show, Asks, Sends, Send, Outside, worldVars, proxyVars

LEMMA DestroyIs ==
  ASSUME TypesInv, NEW t \in Threads, Destroy(t), th[t].i \in Offsets
  PROVE  /\ At(t, "destroy")
         /\ Sends(t, "destroy", bs.surface_slot_map[th[t].i], "gone", th[t].i)
         /\ event_efd' = event_efd /\ bs' = bs /\ life' = life /\ left' = left
  <1>1. th' = Moved(th, t, "gone", th[t].i, 0)
    BY DEF Destroy, Send, Goto, Moved
  <1>2. th[t].i \in Nat /\ 0 \in Nat /\ "gone" \in Pcs
    BY SlotsAre, PcsAre DEF TypesInv, ThreadsType, ThType, BsType
  <1>3. To(t, "gone", th[t].i, 0)
    BY <1>1, <1>2, MovedIs DEF To, Only, TypesInv
  <1>4. ctrl' = Command(ctrl, "destroy", bs.surface_slot_map[th[t].i])
        /\ bs.surface_slot_map[th[t].i] \in Nat
    BY DEF Destroy, Send, Command, TypesInv, BsType, ThreadsType, ThType
  <1>5. ctrl' \in CtrlType /\ ctrl'.op = "destroy"
        /\ ctrl'.arg = bs.surface_slot_map[th[t].i] /\ ctrl'.result = ctrl.result
    BY <1>4, CommandIs DEF TypesInv
  <1> QED
    BY <1>3, <1>5 DEF Destroy, Sends, Send, Outside, worldVars, proxyVars

LEMMA CollectIs ==
  ASSUME TypesInv, NEW t \in Threads, Collect(t)
  PROVE  /\ At(t, "callbacks") /\ Sends(t, "roundtrip", th[t].full, "await", 0)
         /\ event_efd' \in BOOLEAN /\ bs' = bs /\ life' = life /\ left' = left
  <1>1. th' = Moved(th, t, "await", 0, 0)
    BY DEF Collect, Send, Goto, Moved
  <1>2. 0 \in Nat /\ 0 \in Nat /\ "await" \in Pcs
    BY SlotsAre, PcsAre DEF TypesInv, ThreadsType, ThType, BsType
  <1>3. To(t, "await", 0, 0)
    BY <1>1, <1>2, MovedIs DEF To, Only, TypesInv
  <1>4. ctrl' = Command(ctrl, "roundtrip", th[t].full) /\ th[t].full \in Nat
    BY DEF Collect, Send, Command, TypesInv, BsType, ThreadsType, ThType
  <1>5. ctrl' \in CtrlType /\ ctrl'.op = "roundtrip" /\ ctrl'.arg = th[t].full
        /\ ctrl'.result = ctrl.result
    BY <1>4, CommandIs DEF TypesInv
  <1> QED
    BY <1>3, <1>5
    DEF Collect, KickRearm, TypesInv, Sends, Send, Outside, worldVars, proxyVars

LEMMA CreatedIs ==
  ASSUME TypesInv, NEW t \in Threads, Created(t)
  PROVE  Receives(t, "creating", "naming", ctrl.result) /\ bs' = bs /\ life' = life
  <1>1. th' = Moved(th, t, "naming", 0, ctrl.result)
    BY DEF Created, Goto, Moved
  <1>2. 0 \in Nat /\ ctrl.result \in Nat /\ "naming" \in Pcs
    BY SlotsAre, PcsAre DEF TypesInv, ThreadsType, ThType, CtrlType
  <1>3. To(t, "naming", 0, ctrl.result)
    BY <1>1, <1>2, MovedIs DEF To, Only, TypesInv
  <1> QED
    BY <1>3 DEF Created, Receives, Receive, Outside, worldVars, proxyVars

LEMMA RoundtripDoneIs ==
  ASSUME TypesInv, NEW t \in Threads, RoundtripDone(t)
  PROVE  Receives(t, "await", "focus", 0) /\ bs' = bs /\ life' = life
  <1>1. th' = Moved(th, t, "focus", 0, 0)
    BY DEF RoundtripDone, Goto, Moved
  <1>2. 0 \in Nat /\ 0 \in Nat /\ "focus" \in Pcs
    BY SlotsAre, PcsAre DEF TypesInv, ThreadsType, ThType
  <1>3. To(t, "focus", 0, 0)
    BY <1>1, <1>2, MovedIs DEF To, Only, TypesInv
  <1> QED
    BY <1>3 DEF RoundtripDone, Receives, Receive, Outside, worldVars, proxyVars

LEMMA AnsweredIs ==
  ASSUME TypesInv, NEW t \in Threads, NEW state \in {"shell", "shown", "late", "gone"},
         Answered(t, state, state)
  PROVE  /\ Receives(t, state, "rest", 0) /\ bs' = bs
         /\ life' = [life EXCEPT ![th[t].i] = state] /\ life' \in LifeType
  <1>1. th' = Moved(th, t, "rest", 0, 0)
    BY DEF Answered, Goto, Moved
  <1>2. 0 \in Nat /\ 0 \in Nat /\ "rest" \in Pcs
    BY SlotsAre, PcsAre DEF TypesInv, ThreadsType, ThType
  <1>3. To(t, "rest", 0, 0)
    BY <1>1, <1>2, MovedIs DEF To, Only, TypesInv
  <1>4. life' = [life EXCEPT ![th[t].i] = state] /\ life' \in LifeType
    BY DEF Answered, TypesInv, LifeType, Lives
  <1> QED
    BY <1>3, <1>4 DEF Answered, Receives, Receive, Outside, worldVars, proxyVars

LEMMA NameSurfaceIs ==
  ASSUME TypesInv, NEW t \in Threads, NameSurface(t), bs.next_surface \in Offsets
  PROVE  /\ At(t, "naming") /\ To(t, "rest", 0, 0) /\ Stays
         /\ bs' \in BsType /\ bs'.next_surface = bs.next_surface + 1
         /\ bs'.surface_slot_map[bs.next_surface] = th[t].n
         /\ \A o \in Offsets \ {bs.next_surface} :
              bs'.surface_slot_map[o] = bs.surface_slot_map[o] /\ life'[o] = life[o]
         /\ HeardSame /\ ListenersSame /\ SeatSame
         /\ life' \in LifeType /\ life'[bs.next_surface] = "made"
         /\ event_efd' = event_efd /\ cb' = cb /\ unheard' = unheard /\ left' = left
  <1>1. th' = Moved(th, t, "rest", 0, 0)
    BY DEF NameSurface, Goto, Moved
  <1>2. 0 \in Nat /\ 0 \in Nat /\ "rest" \in Pcs
    BY SlotsAre, PcsAre DEF TypesInv, ThreadsType, ThType
  <1>3. To(t, "rest", 0, 0)
    BY <1>1, <1>2, MovedIs DEF To, Only, TypesInv
  <1>4. /\ bs' \in BsType /\ bs'.next_surface = bs.next_surface + 1
        /\ bs'.surface_slot_map[bs.next_surface] = th[t].n
        /\ \A o \in Offsets \ {bs.next_surface} :
             bs'.surface_slot_map[o] = bs.surface_slot_map[o]
        /\ HeardSame /\ ListenersSame /\ SeatSame
    <2> DEFINE m == bs.next_surface + 1
               f == [bs.surface_slot_map EXCEPT ![bs.next_surface] = th[t].n]
    <2>1. /\ bs \in BsType /\ th[t].n \in Nat /\ m \in Nat
          /\ bs' = [bs EXCEPT !.next_surface = m, !.surface_slot_map = f]
      BY DEF NameSurface, TypesInv, ThreadsType, ThType, BsType
    <2>2. /\ f \in [Offsets -> Nat] /\ f[bs.next_surface] = th[t].n
          /\ \A o \in Offsets \ {bs.next_surface} : f[o] = bs.surface_slot_map[o]
      BY <2>1 DEF BsType
    <2>3. m = bs.next_surface + 1
      OBVIOUS
    <2> HIDE DEF m, f
    <2>4. /\ bs' \in BsType /\ bs'.next_surface = m /\ bs'.surface_slot_map = f
          /\ HeardSame /\ ListenersSame /\ SeatSame
      BY <2>1, <2>2 DEF BsType, HeardSame, ListenersSame, SeatSame
    <2> QED
      BY <2>2, <2>3, <2>4
  <1>5. /\ life' \in LifeType /\ life'[bs.next_surface] = "made"
        /\ \A o \in Offsets \ {bs.next_surface} : life'[o] = life[o]
    BY DEF NameSurface, TypesInv, LifeType, Lives
  <1> QED
    BY <1>3, <1>4, <1>5 DEF NameSurface, Stays, Outside, channelVars, worldVars, proxyVars

LEMMA AddListenerIs ==
  ASSUME TypesInv, NEW t \in Threads, NEW o \in Offsets, AddListener(t, o),
         PlainWindows, life[o] # "late"
  PROVE  /\ t \in Creators /\ At(t, "rest") /\ life[o] = "shell" /\ NoneGone
         /\ Stays /\ th' = th
         /\ bs' \in BsType /\ bs'.ss_listeners = [bs.ss_listeners EXCEPT ![o] = o]
         /\ bs'.ss_listener = o /\ HeardSame /\ NumbersSame /\ SeatSame
         /\ life' \in LifeType /\ life' = [life EXCEPT ![o] = "heard"]
         /\ event_efd' = event_efd /\ cb' = cb /\ unheard' = unheard /\ left' = left
  <1>1. life[o] = "shell" /\ NoneGone
    BY DEF AddListener, PlainWindows
  <1>2. /\ bs' \in BsType /\ bs'.ss_listeners = [bs.ss_listeners EXCEPT ![o] = o]
        /\ bs'.ss_listener = o /\ HeardSame /\ NumbersSame /\ SeatSame
    BY DEF AddListener, TypesInv, BsType, Offset0, HeardSame, NumbersSame, SeatSame
  <1>3. life' = [life EXCEPT ![o] = "heard"] /\ life' \in LifeType
    BY <1>1 DEF AddListener, TypesInv, LifeType, Lives
  <1> QED
    BY <1>1, <1>2, <1>3
    DEF AddListener, Asks, Stays, Outside, channelVars, worldVars, proxyVars

LEMMA DropShellIs ==
  ASSUME TypesInv, NEW t \in Threads, NEW o \in Offsets, DropShell(t, o)
  PROVE  /\ t \in Creators /\ At(t, "rest") /\ life[o] = "shown" /\ Uses("destroys")
         /\ Stays /\ To(t, "destroy", o, 0)
         /\ bs' \in BsType /\ bs'.ss_listeners = [bs.ss_listeners EXCEPT ![o] = None]
         /\ bs'.ss_listener = None /\ HeardSame /\ NumbersSame /\ SeatSame
         /\ life' \in LifeType /\ life' = [life EXCEPT ![o] = "gone"]
         /\ event_efd' = event_efd /\ cb' = cb /\ unheard' = unheard
  <1>1. th' = Moved(th, t, "destroy", o, 0)
    BY DEF DropShell, Goto, Moved
  <1>2. o \in Nat /\ 0 \in Nat /\ "destroy" \in Pcs
    BY SlotsAre, PcsAre DEF TypesInv, ThreadsType, ThType
  <1>3. To(t, "destroy", o, 0)
    BY <1>1, <1>2, MovedIs DEF To, Only, TypesInv
  <1>4. /\ bs' \in BsType /\ bs'.ss_listeners = [bs.ss_listeners EXCEPT ![o] = None]
        /\ bs'.ss_listener = None /\ HeardSame /\ NumbersSame /\ SeatSame
    BY DEF DropShell, TypesInv, BsType, Offset0, HeardSame, NumbersSame, SeatSame
  <1>5. life' = [life EXCEPT ![o] = "gone"] /\ life' \in LifeType
    BY DEF DropShell, TypesInv, LifeType, Lives
  <1>6. Uses("destroys")
    BY UsedIs DEF DropShell, Limited
  <1> QED
    BY <1>3, <1>4, <1>5, <1>6
    DEF DropShell, Asks, Stays, Outside, channelVars, worldVars, proxyVars

(* Steps that neither the channel nor the windows take part in.            *)
Little == /\ Stays /\ bs' \in BsType /\ HeardSame /\ NumbersSame /\ ListenersSame
          /\ life' = life /\ unheard' = unheard /\ cb' \in CallbacksType
          /\ left' \in LeftType /\ left'["surfaces"] = left["surfaces"]
          /\ event_efd' \in BOOLEAN

LEMMA FrameIs ==
  ASSUME TypesInv, NEW t \in Threads, Frame(t)
  PROVE  /\ t \in Creators /\ At(t, "rest") /\ Only(t) /\ th'[t].pc = "frame"
         /\ Little /\ SeatSame
  <1>1. th' = Moved(th, t, "frame", bs.callback_next % MAX_CALLBACKS, 0)
    BY DEF Frame, Goto, Moved
  <1>2. (bs.callback_next % MAX_CALLBACKS) \in Nat /\ 0 \in Nat /\ "frame" \in Pcs
    BY SlotsAre, PcsAre DEF TypesInv, ThreadsType, ThType, BsType
  <1>3. To(t, "frame", bs.callback_next % MAX_CALLBACKS, 0)
    BY <1>1, <1>2, MovedIs DEF To, Only, TypesInv
  <1>4. bs' \in BsType /\ HeardSame /\ NumbersSame /\ ListenersSame /\ SeatSame
    <2> DEFINE c == bs.callback_next + 1
    <2>1. bs \in BsType /\ bs' = [bs EXCEPT !.callback_next = c] /\ c \in Nat
      BY DEF Frame, TypesInv, BsType
    <2> HIDE DEF c
    <2> QED
      BY <2>1 DEF BsType, HeardSame, NumbersSame, ListenersSame, SeatSame
  <1>6. cb' \in CallbacksType
    BY CallbacksAre DEF Frame, TypesInv, CallbacksType
  <1>7. Uses("frames")
    BY UsedIs DEF Frame, Limited
  <1> QED
    BY <1>3, <1>4, <1>6, <1>7
    DEF Frame, Asks, To, Uses, Limited, Little, TypesInv, Stays, Outside, channelVars,
        worldVars, proxyVars

LEMMA AttachIs ==
  ASSUME TypesInv, NEW t \in Threads, Attach(t)
  PROVE  At(t, "frame") /\ Only(t) /\ th'[t].pc = "rest" /\ Little /\ bs' = bs
  <1>1. th' = Moved(th, t, "rest", 0, 0)
    BY DEF Attach, Goto, Moved
  <1>2. 0 \in Nat /\ 0 \in Nat /\ "rest" \in Pcs
    BY SlotsAre, PcsAre DEF TypesInv, ThreadsType, ThType
  <1>3. To(t, "rest", 0, 0)
    BY <1>1, <1>2, MovedIs DEF To, Only, TypesInv
  <1>5. cb' \in CallbacksType
    BY CallbacksAre DEF Attach, TypesInv, CallbacksType
  <1> QED
    BY <1>3, <1>5
    DEF Attach, To, TypesInv, Little, HeardSame, NumbersSame, ListenersSame, SeatSame,
        Stays, Outside, channelVars, worldVars, proxyVars

LEMMA ListenToRegistryIs ==
  ASSUME TypesInv, NEW t \in Threads, ListenToRegistry(t)
  PROVE  Little /\ th' = th /\ SeatSame
  <1>1. bs' \in BsType /\ HeardSame /\ NumbersSame /\ ListenersSame /\ SeatSame
    BY DEF ListenToRegistry, TypesInv, BsType, HeardSame, NumbersSame, ListenersSame,
       SeatSame
  <1> QED
    BY <1>1
    DEF ListenToRegistry, Little, TypesInv, Stays, Outside, channelVars, worldVars,
        proxyVars

LEMMA DispatchIs ==
  ASSUME TypesInv, NEW t \in Threads, NEW full \in 0 .. 1, Dispatch(t, full),
         left' = left \/ Used("calls")
  PROVE  /\ t \in Dispatchers /\ At(t, "rest") /\ Only(t) /\ th'[t].pc = "globals"
         /\ Little /\ bs' = bs
  <1>1. left' \in LeftType /\ left'["surfaces"] = left["surfaces"]
    <2>1. CASE left' = left
      BY <2>1 DEF TypesInv
    <2>2. CASE Used("calls")
      <3>1. Uses("calls")
        BY <2>2, UsedIs DEF Limited
      <3> QED
        BY <3>1 DEF Uses, Limited
    <2> QED
      BY <2>1, <2>2
  <1>2. Only(t) /\ th'[t].pc = "globals"
    BY PcsAre DEF Dispatch, Only, TypesInv, ThreadsType, ThType, Pcs
  <1> QED
    BY <1>1, <1>2
    DEF Dispatch, MayDispatch, TypesInv, Little, HeardSame, NumbersSame, ListenersSame,
        SeatSame, Stays, Outside, channelVars, worldVars, proxyVars

LEMMA FireGlobalsIs ==
  ASSUME TypesInv, NEW t \in Threads, FireGlobals(t)
  PROVE  /\ At(t, "globals") /\ Only(t) /\ th'[t].pc = "callbacks" /\ Little
         /\ bs'.lazy_caps_done = bs.lazy_caps_done
         /\ \/ SeatSame
            \/ /\ ~ bs.globals_fired /\ bs'.globals_fired
               /\ bs'.keyboard \/ bs'.seat = "dispatcher"
  <1>1. th' = Moved(th, t, "callbacks", 0, 0)
    BY DEF FireGlobals, Goto, Moved
  <1>2. 0 \in Nat /\ 0 \in Nat /\ "callbacks" \in Pcs
    BY SlotsAre, PcsAre DEF TypesInv, ThreadsType, ThType
  <1>3. To(t, "callbacks", 0, 0)
    BY <1>1, <1>2, MovedIs DEF To, Only, TypesInv
  <1>4. /\ bs' \in BsType /\ HeardSame /\ NumbersSame /\ ListenersSame
        /\ event_efd' \in BOOLEAN /\ bs'.lazy_caps_done = bs.lazy_caps_done
        /\ \/ SeatSame
           \/ /\ ~ bs.globals_fired /\ bs'.globals_fired
              /\ bs'.keyboard \/ bs'.seat = "dispatcher"
    <2>1. CASE bs.reg_listener /\ ~ bs.globals_fired
      <3>1. PICK kind \in {"listener", "dispatcher"} :
              /\ bs' = [bs EXCEPT !.globals_fired = TRUE, !.seat = kind,
                                  !.keyboard = (kind = "listener")]
              /\ event_efd' \in {event_efd \/ kind = "dispatcher", TRUE}
        BY <2>1 DEF FireGlobals
      <3>2. event_efd' \in BOOLEAN
        BY <3>1 DEF TypesInv
      <3>3. (kind = "listener") \in BOOLEAN /\ (kind = "listener" \/ kind = "dispatcher")
        OBVIOUS
      <3>4. /\ bs' \in BsType /\ bs'.globals_fired = TRUE /\ bs'.seat = kind
            /\ bs'.keyboard = (kind = "listener") /\ bs'.lazy_caps_done = bs.lazy_caps_done
            /\ HeardSame /\ NumbersSame /\ ListenersSame
        BY <3>1, <3>3 DEF TypesInv, BsType, HeardSame, NumbersSame, ListenersSame
      <3> QED
        BY <2>1, <3>2, <3>3, <3>4
    <2>2. CASE ~ (bs.reg_listener /\ ~ bs.globals_fired)
      BY <2>2 DEF FireGlobals, TypesInv, HeardSame, NumbersSame, ListenersSame, SeatSame
    <2> QED
      BY <2>1, <2>2
  <1> QED
    BY <1>3, <1>4
    DEF FireGlobals, To, Little, TypesInv, Stays, Outside, channelVars, worldVars,
        proxyVars

LEMMA FireCallbacksIs ==
  ASSUME TypesInv, NEW t \in Threads, FireCallbacks(t)
  PROVE  /\ At(t, "callbacks") /\ Only(t) /\ th'[t].pc = "callbacks"
         /\ Little /\ SeatSame
  <1> DEFINE c == th[t].i
  <1>1. c \in Callbacks /\ c + 1 \in Nat /\ th[t].n \in Nat
    BY DEF FireCallbacks, TypesInv, ThreadsType, ThType, Callbacks
  <1>2. Arm(t, c) \/ FireCallbackDone(t, c) \/ PassCallback(t, c)
    BY DEF FireCallbacks
  <1>4. PICK n \in Nat : th' = Moved(th, t, "callbacks", c + 1, n)
    BY <1>1, <1>2 DEF Arm, FireCallbackDone, PassCallback, Goto, Moved
  <1>5. To(t, "callbacks", c + 1, n)
    BY <1>1, <1>4, MovedIs, PcsAre DEF To, Only, TypesInv
  <1>3. event_efd' \in BOOLEAN
    BY <1>2 DEF TypesInv, Arm, FireCallbackDone, PassCallback
  <1>6. cb' \in CallbacksType
    <2>1. cb \in CallbacksType /\ bs.callback_next % MAX_CALLBACKS \in Callbacks
      BY SlotsAre DEF TypesInv, BsType, Callbacks
    <2>2. CASE Arm(t, c)
      BY <1>1, <2>1, <2>2, CallbacksAre DEF CallbacksType, Arm
    <2>3. CASE FireCallbackDone(t, c)
      BY <1>1, <2>1, <2>3, CallbacksAre DEF CallbacksType, FireCallbackDone
    <2>4. CASE PassCallback(t, c)
      BY <2>1, <2>4 DEF PassCallback
    <2> QED
      BY <1>2, <2>2, <2>3, <2>4
  <1>7. bs' \in BsType /\ HeardSame /\ NumbersSame /\ ListenersSame /\ SeatSame
    <2> DEFINE m == bs.callback_next + 1
    <2>1. /\ bs \in BsType /\ m \in Nat
          /\ bs' = bs \/ bs' = [bs EXCEPT !.callback_next = m]
      BY <1>2 DEF Arm, FireCallbackDone, PassCallback, TypesInv, BsType
    <2> HIDE DEF m
    <2> QED
      BY <2>1 DEF BsType, HeardSame, NumbersSame, ListenersSame, SeatSame
  <1>8. left' \in LeftType /\ left'["surfaces"] = left["surfaces"]
    <2>1. CASE left' = left
      BY <2>1 DEF TypesInv
    <2>2. CASE Used("frames")
      <3>1. Uses("frames")
        BY <2>2, UsedIs DEF Limited
      <3> QED
        BY <3>1 DEF Uses, Limited
    <2> QED
      BY <1>2, <2>1, <2>2 DEF Arm, FireCallbackDone, PassCallback
  <1> QED
    BY <1>3, <1>5, <1>6, <1>7, <1>8
    DEF FireCallbacks, To, Little, Stays, Outside, channelVars, worldVars, proxyVars

LEMMA FocusFirstMoves ==
  ASSUME TypesInv, NEW t \in Threads, FocusFirst(t)
  PROVE  /\ At(t, "focus") /\ To(t, "keys", 1, rb.count) /\ Stays
         /\ bs' = LazyCapabilities(FocusKeyboard(bs)) /\ event_efd' \in BOOLEAN
         /\ cb' = cb /\ life' = life /\ unheard' = unheard /\ left' = left
  <1>1. th' = Moved(th, t, "keys", 1, rb.count)
    BY DEF FocusFirst, Goto, Moved
  <1>2. 1 \in Nat /\ rb.count \in Nat /\ "keys" \in Pcs
    BY SlotsAre, PcsAre DEF TypesInv, ThreadsType, ThType, RbType
  <1>3. To(t, "keys", 1, rb.count)
    BY <1>1, <1>2, MovedIs DEF To, Only, TypesInv
  <1> QED
    BY <1>3 DEF FocusFirst, TypesInv, Stays, Outside, channelVars, worldVars, proxyVars

LEMMA DeliverKeyMoves ==
  ASSUME TypesInv, NEW t \in Threads, DeliverKey(t)
  PROVE  /\ At(t, "keys") /\ th[t].i <= th[t].n /\ To(t, "keys", th[t].i + 1, th[t].n)
         /\ Stays /\ event_efd' = event_efd /\ cb' = cb /\ life' = life /\ left' = left
         /\ IF bs.keyboard
            THEN /\ bs' = [bs EXCEPT !.heard = Append(bs.heard, rb.keys[th[t].i])]
                 /\ unheard' = unheard
            ELSE unheard' = unheard \cup {rb.keys[th[t].i]} /\ bs' = bs
  <1>1. th' = Moved(th, t, "keys", th[t].i + 1, th[t].n)
    BY DEF DeliverKey, Goto, Moved
  <1>2. th[t].i + 1 \in Nat /\ th[t].n \in Nat /\ "keys" \in Pcs
    BY SlotsAre, PcsAre DEF TypesInv, ThreadsType, ThType
  <1>3. To(t, "keys", th[t].i + 1, th[t].n)
    BY <1>1, <1>2, MovedIs DEF To, Only, TypesInv
  <1> QED
    BY <1>3 DEF DeliverKey, Stays, Outside, channelVars, worldVars, proxyVars

LEMMA KeysDeliveredMoves ==
  ASSUME TypesInv, NEW t \in Threads, KeysDelivered(t)
  PROVE  /\ At(t, "keys") /\ th[t].i > th[t].n /\ To(t, "states", 1, rb.wss_count)
         /\ Stays /\ event_efd' = event_efd /\ cb' = cb /\ life' = life /\ left' = left
         /\ bs' = bs /\ unheard' = unheard
  <1>1. th' = Moved(th, t, "states", 1, rb.wss_count)
    BY DEF KeysDelivered, Goto, Moved
  <1>2. 1 \in Nat /\ rb.wss_count \in Nat /\ "states" \in Pcs
    BY SlotsAre, PcsAre DEF TypesInv, ThreadsType, ThType, RbType
  <1>3. To(t, "states", 1, rb.wss_count)
    BY <1>1, <1>2, MovedIs DEF To, Only, TypesInv
  <1> QED
    BY <1>3 DEF KeysDelivered, Stays, Outside, channelVars, worldVars, proxyVars

LEMMA DeliverStateMoves ==
  ASSUME TypesInv, NEW t \in Threads, DeliverState(t)
  PROVE  /\ At(t, "states") /\ th[t].i <= th[t].n
         /\ To(t, "states", th[t].i + 1, th[t].n) /\ Stays
         /\ bs' = Deliver(bs, StubIdx(rb.wss[th[t].i][1]), rb.wss[th[t].i][2])
         /\ event_efd' = event_efd /\ cb' = cb /\ life' = life /\ left' = left
         /\ unheard' = unheard
  <1>1. th' = Moved(th, t, "states", th[t].i + 1, th[t].n)
    BY DEF DeliverState, Goto, Moved
  <1>2. th[t].i + 1 \in Nat /\ th[t].n \in Nat /\ "states" \in Pcs
    BY SlotsAre, PcsAre DEF TypesInv, ThreadsType, ThType
  <1>3. To(t, "states", th[t].i + 1, th[t].n)
    BY <1>1, <1>2, MovedIs DEF To, Only, TypesInv
  <1> QED
    BY <1>3 DEF DeliverState, Stays, Outside, channelVars, worldVars, proxyVars

LEMMA ReturnMoves ==
  ASSUME TypesInv, NEW t \in Threads, Return(t)
  PROVE  /\ At(t, "states") /\ th[t].i > th[t].n /\ To(t, "rest", 0, 0) /\ Little /\ bs' = bs
  <1>1. th' = Moved(th, t, "rest", 0, 0)
    BY DEF Return, Goto, Moved
  <1>2. 0 \in Nat /\ 0 \in Nat /\ "rest" \in Pcs
    BY SlotsAre, PcsAre DEF TypesInv, ThreadsType, ThType
  <1>3. To(t, "rest", 0, 0)
    BY <1>1, <1>2, MovedIs DEF To, Only, TypesInv
  <1> QED
    BY <1>3
    DEF Return, To, TypesInv, Little, HeardSame, NumbersSame, ListenersSame, SeatSame,
        Stays, Outside, channelVars, worldVars, proxyVars

LEMMA PairIs ==
  ASSUME NEW A, NEW B, NEW e, e \in A \X B
  PROVE  e[1] \in A /\ e[2] \in B
  OBVIOUS

(* The places a thread has yet to hand on are places of the buffer.        *)
LEMMA DeliverKeyPlace ==
  ASSUME WlInv, NEW t \in Threads, At(t, "keys"), th[t].i <= th[t].n
  PROVE  /\ KeyPlaces(t) = th[t].i .. th[t].n /\ th[t].i \in KeyPlaces(t)
         /\ th[t].i \in 1 .. INPUT_EVT_MAX /\ rb.keys[th[t].i] \in Nat
         /\ t \in Dispatchers
  <1>1. th[t].i \in Nat /\ th[t].n \in Nat
    BY DEF WlInv, TypesInv, ThreadsType, ThType
  <1>2. KeyPlaces(t) = th[t].i .. th[t].n
    BY DEF KeyPlaces, At
  <1>3. KeyPlaces(t) \subseteq 1 .. INPUT_EVT_MAX
    BY DEF WlInv, KeysInv
  <1>4. rb.keys \in [1 .. INPUT_EVT_MAX -> Nat]
    BY DEF WlInv, TypesInv, RbType
  <1>6. th[t].i \in th[t].i .. th[t].n
    BY <1>1
  <1>5. t \in Dispatchers
    BY DEF WlInv, ChannelInv, At, DispatchPcs
  <1> QED
    BY <1>2, <1>3, <1>4, <1>5, <1>6

LEMMA DeliverStatePlace ==
  ASSUME WlInv, NEW t \in Threads, At(t, "states"), th[t].i <= th[t].n
  PROVE  LET e == rb.wss[th[t].i]
         IN  /\ StatePlaces(t) = th[t].i .. th[t].n /\ th[t].i \in StatePlaces(t)
             /\ th[t].i \in Undelivered /\ t \in Dispatchers
             /\ e[1] \in Slots /\ e[1] \in px.shells /\ e[2] \in States
             /\ StubIdx(e[1]) = e[1] - 1 /\ e[1] - 1 \in Offsets /\ Public(e[1] - 1)
             /\ StubIdx(e[1]) \in Nat /\ e[2] \in States \cup {0}
  <1>1. th[t].i \in Nat /\ th[t].n \in Nat
    BY DEF WlInv, TypesInv, ThreadsType, ThType
  <1>2. StatePlaces(t) = th[t].i .. th[t].n
    BY DEF StatePlaces, At
  <1>3. t \in Dispatchers
    BY DEF WlInv, ChannelInv, At, DispatchPcs
  <1>4. th[t].i \in StatePlaces(t) /\ th[t].i \in Undelivered
    BY <1>1, <1>2, <1>3 DEF Undelivered
  <1> DEFINE e == rb.wss[th[t].i]
  <1>5. th[t].i \in Slots /\ e[1] \in px.shells /\ e[2] # 0 /\ Public(e[1] - 1)
    BY <1>4 DEF WlInv, StatesInv, PlacesInv
  <1>6. e[1] \in Slots /\ e[1] - 1 \in Offsets
    BY <1>5 DEF WlInv, LifeInv
  <1>7. e \in (Slots \cup {0}) \X (States \cup {0})
    BY <1>5 DEF WlInv, TypesInv, RbType
  <1>8. e[2] \in States
    <2> HIDE DEF e
    <2>1. e[2] \in States \cup {0}
      BY <1>7, PairIs
    <2> QED
      BY <1>5, <2>1
  <1>9. StubIdx(e[1]) = e[1] - 1 /\ e[1] - 1 \in Nat
    <2> HIDE DEF e
    <2>1. e[1] \in Nat \ {0}
      BY <1>6, SlotsAre
    <2> QED
      BY <2>1 DEF StubIdx
  <1> QED
    BY <1>2, <1>3, <1>4, <1>5, <1>6, <1>8, <1>9

-----------------------------------------------------------------------------
(* The steps of the compositor and of the proxy.                           *)

Apart == lock' = lock /\ bs' = bs /\ cb' = cb /\ th' = th /\ life' = life
Commandless == /\ Apart /\ ctrl' = ctrl /\ rb' = rb
               /\ req_wl_efd' = req_wl_efd /\ resp_wl_efd' = resp_wl_efd

LEMMA SendKeyIs ==
  ASSUME TypesInv, SendKey
  PROVE  /\ \E s \in Slots : current[s] # 0
         /\ Commandless /\ proxy_pc' = proxy_pc /\ revents' = revents /\ px' = px
         /\ event_efd' = event_efd /\ current' = current /\ unheard' = unheard
         /\ Uses("keys") /\ sent' = sent + 1 /\ Key(sent + 1) \in Event
         /\ queue' \in Events /\ socket' \in Events /\ Wire' = Wire \o <<Key(sent + 1)>>
  <1>1. sent' = sent + 1 /\ socket' = Append(socket, Key(sent + 1)) /\ queue' = queue
    BY DEF SendKey, channelVars, proxyVars, stubVars
  <1>2. Key(sent + 1) \in Event /\ sent \in Nat
    BY EventsAre DEF TypesInv
  <1> DEFINE k == Key(sent + 1)
  <1>3. k \in Event
    BY <1>2
  <1>4. socket' = Append(socket, k)
    BY <1>1
  <1>5. socket \in Seq(Event) /\ queue \in Seq(Event)
    BY DEF TypesInv, Events
  <1> HIDE DEF k
  <1>6. <<k>> \in Seq(Event) /\ socket' = socket \o <<k>>
    BY <1>3, <1>4, <1>5, AppendIsConcat
  <1>7. Wire' = Wire \o <<k>>
    BY <1>1, <1>5, <1>6, WireSend
  <1>8. socket' \in Events /\ queue' \in Events
    BY <1>1, <1>5, <1>6, ConcatProperties DEF Events
  <1>9. Uses("keys")
    BY UsedIs DEF SendKey, Limited
  <1> QED
    BY <1>1, <1>3, <1>7, <1>8, <1>9
    DEF k, SendKey, Commandless, Apart, channelVars, proxyVars, stubVars

(* The events that tell of a state.                                        *)
News(s, v) == {<<State(s, v)>>} \cup
              (IF v = FULLSCREEN
               THEN {<<State(s, v), Configure(s)>>, <<Configure(s), State(s, v)>>} ELSE {})

LEMMA SendStateIs ==
  ASSUME TypesInv, NEW s \in Slots, NEW v \in States, SendState(s, v)
  PROVE  /\ current[s] # 0 /\ current[s] # v
         /\ v = FULLSCREEN => \A o \in Slots : current[o] # FULLSCREEN
         /\ Commandless /\ proxy_pc' = proxy_pc /\ revents' = revents /\ px' = px
         /\ event_efd' = event_efd /\ sent' = sent /\ unheard' = unheard
         /\ current' = [current EXCEPT ![s] = v] /\ current' \in CurrentType
         /\ Uses("states") /\ queue' \in Events /\ socket' \in Events
         /\ \E n \in Seq(Event) : n \in News(s, v) /\ Wire' = Wire \o n
  <1>1. PICK n \in News(s, v) : socket' = socket \o n
    BY DEF SendState, News
  <1>2. n \in Seq(Event)
    <2> DEFINE a == State(s, v)
               c == Configure(s)
    <2>1. a \in Event /\ c \in Event
      BY EventsAre
    <2>2. n = <<a>> \/ n = <<a, c>> \/ n = <<c, a>>
      BY <1>1 DEF News
    <2> HIDE DEF a, c
    <2>3. CASE n = <<a>>
      BY <2>1, <2>3
    <2>4. CASE n = <<a, c>>
      BY <2>1, <2>4
    <2>5. CASE n = <<c, a>>
      BY <2>1, <2>5
    <2> QED
      BY <2>2, <2>3, <2>4, <2>5
  <1>3. socket \in Seq(Event) /\ queue \in Seq(Event) /\ queue' = queue
    BY DEF TypesInv, Events, SendState
  <1>4. Wire' = Wire \o n
    BY <1>1, <1>2, <1>3, WireSend
  <1>5. socket' \in Events /\ queue' \in Events
    BY <1>1, <1>2, <1>3, ConcatProperties DEF Events
  <1>6. Uses("states")
    BY UsedIs DEF SendState, Limited
  <1>7. current' = [current EXCEPT ![s] = v] /\ current' \in CurrentType
    BY DEF SendState, TypesInv, CurrentType
  <1> QED
    BY <1>1, <1>2, <1>4, <1>5, <1>6, <1>7
    DEF SendState, Commandless, Apart, channelVars, proxyVars, stubVars

(* Reading, waiting and the begin of a round.                              *)
LEMMA ReadsIs ==
  ASSUME TypesInv, EglReads \/ ProxyPrepare \/ ProxyPoll \/ ProxyDispatch \/ Roundtrip
  PROVE  /\ Commandless /\ px' = px /\ current' = current /\ sent' = sent
         /\ unheard' = unheard /\ left' = left
         /\ queue' \in Events /\ socket' \in Events /\ Wire' = Wire
         /\ proxy_pc' \in ProxyPcs /\ revents' \in BOOLEAN /\ event_efd' \in BOOLEAN
  <1>1. socket \in Seq(Event) /\ queue \in Seq(Event) /\ << >> \in Seq(Event)
    BY DEF TypesInv, Events
  <1>2. \/ queue' = queue /\ socket' = socket
        \/ queue' = queue \o socket /\ socket' = << >>
    BY DEF EglReads, ProxyPrepare, ProxyPoll, ProxyDispatch, Roundtrip, worldVars
  <1>3. queue' \in Seq(Event) /\ socket' \in Seq(Event)
    BY <1>1, <1>2, ConcatProperties
  <1>4. Wire' = Wire
    <2>1. CASE queue' = queue /\ socket' = socket
      BY <2>1 DEF Wire
    <2> QED
      BY <1>1, <1>2, <2>1, WireRead
  <1>5. proxy_pc' \in ProxyPcs /\ revents' \in BOOLEAN
    <2>1. req_wl_efd \in BOOLEAN /\ revents \in BOOLEAN /\ proxy_pc \in ProxyPcs
      BY DEF TypesInv
    <2> QED
      BY <2>1
      DEF ProxyPcs, proxyVars, EglReads, ProxyPrepare, ProxyPoll, ProxyDispatch,
          Roundtrip
  <1>6. event_efd' \in BOOLEAN
    BY DEF TypesInv, EglReads, ProxyPrepare, ProxyPoll, ProxyDispatch, Roundtrip, Notify,
       proxy_wl_has_events
  <1>7. /\ Commandless /\ px' = px /\ current' = current /\ sent' = sent
        /\ unheard' = unheard /\ left' = left
    BY DEF EglReads, ProxyPrepare, ProxyPoll, ProxyDispatch, Roundtrip, Commandless,
       Apart,
       channelVars, proxyVars, stubVars, worldVars
  <1> QED
    BY <1>3, <1>4, <1>5, <1>6, <1>7 DEF Events

(* A listener of the proxy is called with the first event.                 *)
LEMMA HearIs ==
  ASSUME TypesInv, Hear
  PROVE  LET e == Head(queue)
         IN  /\ proxy_pc \in {"prepare", "dispatch", "collect"} /\ e \in Event
             /\ Commandless /\ proxy_pc' = proxy_pc /\ revents' = revents
             /\ event_efd' = event_efd /\ current' = current /\ sent' = sent /\ left' = left
             /\ queue' \in Events /\ socket' \in Events
             /\ px' = Listen(px, e) /\ px' \in PxType /\ Len(px'.evts) <= INPUT_EVT_MAX
             /\ unheard' = IF e.kind = "key" /\ ~ Fits(px) THEN unheard \cup {e.what}
                           ELSE unheard
             /\ unheard' \subseteq Nat
             /\ Wire[1] = e /\ Len(Wire) \in Nat \ {0} /\ Len(Wire') = Len(Wire) - 1
             /\ DOMAIN Wire = 1 .. Len(Wire) /\ DOMAIN Wire' = 1 .. Len(Wire) - 1
             /\ \A i \in 1 .. Len(Wire) - 1 : Wire'[i] = Wire[i + 1]
  <1> DEFINE e == Head(queue)
  <1>1. /\ socket \in Seq(Event) /\ queue \in Seq(Event) /\ queue # << >>
        /\ queue' = Tail(queue) /\ socket' = socket
    BY DEF TypesInv, Events, Hear
  <1>2. e \in Event /\ queue' \in Events /\ socket' \in Events
    BY <1>1, HeadTailProperties DEF Events
  <1>3. /\ px' = Listen(px, e)
        /\ unheard' = IF e.kind = "key" /\ ~ Fits(px) THEN unheard \cup {e.what} ELSE unheard
    BY DEF Hear
  <1>4. unheard' \subseteq Nat
    <2>1. e.kind = "key" => e.what \in Nat
      BY <1>2, EventsAre
    <2> HIDE DEF e
    <2> QED
      BY <1>3, <2>1 DEF TypesInv
  <1>5. px' \in PxType /\ Len(px'.evts) <= INPUT_EVT_MAX
    <2> HIDE DEF e
    <2> QED
      BY <1>2, <1>3, ListenIs DEF TypesInv
  <1>6. /\ Wire[1] = e /\ Len(Wire) \in Nat \ {0} /\ Len(Wire') = Len(Wire) - 1
        /\ DOMAIN Wire = 1 .. Len(Wire) /\ DOMAIN Wire' = 1 .. Len(Wire) - 1
        /\ \A i \in 1 .. Len(Wire) - 1 : Wire'[i] = Wire[i + 1]
    BY <1>1, WireHear
  <1>7. /\ proxy_pc \in {"prepare", "dispatch", "collect"}
        /\ Commandless /\ proxy_pc' = proxy_pc /\ revents' = revents
        /\ event_efd' = event_efd /\ current' = current /\ sent' = sent /\ left' = left
    BY DEF Hear, Commandless, Apart, channelVars, stubVars
  <1> QED
    BY <1>2, <1>3, <1>4, <1>5, <1>6, <1>7

(* An answer; the command stays, but for its result.                       *)
Answers == /\ Apart /\ req_wl_efd' = FALSE /\ resp_wl_efd' = TRUE /\ proxy_pc' = "prepare"
           /\ queue' = queue /\ socket' = socket /\ sent' = sent /\ revents' = revents
           /\ event_efd' = event_efd /\ unheard' = unheard /\ left' = left
           /\ ctrl' \in CtrlType /\ ctrl'.op = ctrl.op /\ ctrl'.arg = ctrl.arg

LEMMA ProxyCollectIs ==
  ASSUME TypesInv, px.shells \subseteq Slots, ProxyCollect
  PROVE  /\ Answers /\ proxy_pc = "collect" /\ queue = << >>
         /\ ctrl' = ctrl /\ current' = current
         /\ rb' = Collected(px) /\ rb' \in RbType
         /\ px' \in PxType /\ px'.evts = << >> /\ px'.shells = px.shells
         /\ px'.g_surf_next = px.g_surf_next
         /\ \A s \in Slots : /\ px'.wss[s].last = px.wss[s].last
                             /\ px'.wss[s].pending = (px.wss[s].pending /\ s \notin px.shells)
  <1>1. rb' = Collected(px) /\ rb' \in RbType
    BY CollectedIs DEF ProxyCollect
  <1> DEFINE w == [s \in Slots |-> [last |-> px.wss[s].last,
                                    pending |-> px.wss[s].pending /\ s \notin px.shells]]
  <1>2. px' = [px EXCEPT !.evts = << >>, !.wss = w]
    BY DEF ProxyCollect, Cleared
  <1>3. w \in [Slots -> [last : States \cup {0}, pending : BOOLEAN]]
    BY DEF TypesInv, PxType
  <1>4. \A s \in Slots : /\ w[s].last = px.wss[s].last
                         /\ w[s].pending = (px.wss[s].pending /\ s \notin px.shells)
    OBVIOUS
  <1> HIDE DEF w
  <1>5. px \in PxType /\ << >> \in Seq(Nat)
    BY DEF TypesInv
  <1>6. /\ px' \in PxType /\ px'.evts = << >> /\ px'.shells = px.shells
        /\ px'.g_surf_next = px.g_surf_next /\ px'.wss = w
    BY <1>2, <1>3, <1>5 DEF PxType
  <1> QED
    BY <1>1, <1>4, <1>6 DEF ProxyCollect, Answer, Answers, Apart, TypesInv, stubVars

LEMMA CreateSurfaceIs ==
  ASSUME TypesInv, ProxyHandle, CreateSurface
  PROVE  /\ Answers /\ proxy_pc = "handle" /\ ctrl.op = "create" /\ rb' = rb
         /\ current' = current /\ px' \in PxType /\ px'.evts = px.evts
         /\ px'.shells = px.shells /\ px'.wss = px.wss
         /\ IF px.g_surf_next >= PROXY_SURF_MAX
            THEN ctrl'.result = 0 /\ px' = px
            ELSE /\ ctrl'.result = px.g_surf_next
                 /\ px'.g_surf_next = px.g_surf_next + 1
  <1>1. Answer /\ proxy_pc = "handle"
    BY DEF ProxyHandle
  <1>2. px \in PxType /\ ctrl \in CtrlType
    BY DEF TypesInv
  <1>3. CASE px.g_surf_next >= PROXY_SURF_MAX
    <2>1. ctrl' = [ctrl EXCEPT !.result = 0] /\ px' = px
      BY <1>3 DEF CreateSurface
    <2> QED
      BY <1>1, <1>2, <1>3, <2>1
      DEF CreateSurface, Answer, Answers, Apart, stubVars, CtrlType
  <1>4. CASE ~ (px.g_surf_next >= PROXY_SURF_MAX)
    <2> DEFINE m == px.g_surf_next + 1
    <2>1. ctrl' = [ctrl EXCEPT !.result = px.g_surf_next]
          /\ px' = [px EXCEPT !.g_surf_next = m]
      BY <1>4 DEF CreateSurface
    <2>2. m \in Nat /\ px.g_surf_next \in Nat
      BY <1>2 DEF PxType
    <2>3. m = px.g_surf_next + 1
      OBVIOUS
    <2> HIDE DEF m
    <2>4. /\ px' \in PxType /\ px'.evts = px.evts /\ px'.shells = px.shells
          /\ px'.wss = px.wss /\ px'.g_surf_next = m
      BY <1>2, <2>1, <2>2 DEF PxType
    <2>5. /\ ctrl' \in CtrlType /\ ctrl'.op = ctrl.op /\ ctrl'.arg = ctrl.arg
          /\ ctrl'.result = px.g_surf_next
      BY <1>2, <2>1, <2>2 DEF CtrlType
    <2> QED
      BY <1>1, <1>4, <2>3, <2>4, <2>5 DEF CreateSurface, Answer, Answers, Apart, stubVars
  <1> QED
    BY <1>3, <1>4

LEMMA GetShellSurfaceIs ==
  ASSUME TypesInv, ProxyHandle, GetShellSurface, ctrl.arg \in Slots
  PROVE  /\ Answers /\ proxy_pc = "handle" /\ ctrl.op = "shell" /\ rb' = rb /\ ctrl' = ctrl
         /\ current' = current /\ px' \in PxType /\ px'.evts = px.evts
         /\ px'.shells = px.shells \cup {ctrl.arg} /\ px'.g_surf_next = px.g_surf_next
         /\ \A s \in Slots \ {ctrl.arg} : px'.wss[s] = px.wss[s]
         /\ px'.wss[ctrl.arg] = IF ctrl.arg \in px.shells THEN px.wss[ctrl.arg]
                                ELSE [last |-> 0, pending |-> FALSE]
  <1>1. Answer /\ proxy_pc = "handle"
    BY DEF ProxyHandle
  <1>2. px \in PxType /\ ctrl \in CtrlType
    BY DEF TypesInv
  <1> DEFINE a == ctrl.arg
  <1>3. /\ px' \in PxType /\ px'.evts = px.evts
        /\ px'.shells = px.shells \cup {a} /\ px'.g_surf_next = px.g_surf_next
        /\ \A s \in Slots \ {a} : px'.wss[s] = px.wss[s]
        /\ px'.wss[a] = IF a \in px.shells THEN px.wss[a] ELSE [last |-> 0, pending |-> FALSE]
    <2>1. a \in Slots /\ a \in Nat
      BY SlotsAre
    <2>2. CASE a \in px.shells
      <3>1. px' = px
        BY <2>2 DEF GetShellSurface
      <3> QED
        BY <1>2, <2>2, <3>1
    <2>3. CASE a \notin px.shells
      <3> DEFINE w == [px.wss EXCEPT ![a] = [last |-> 0, pending |-> FALSE]]
                 h == px.shells \cup {a}
      <3>1. px' = [px EXCEPT !.shells = h, !.wss = w]
        BY <2>3 DEF GetShellSurface
      <3>2. /\ w \in [Slots -> [last : States \cup {0}, pending : BOOLEAN]]
            /\ h \in SUBSET Nat /\ w[a] = [last |-> 0, pending |-> FALSE]
            /\ \A s \in Slots \ {a} : w[s] = px.wss[s]
        BY <1>2, <2>1 DEF PxType
      <3>3. h = px.shells \cup {a}
        OBVIOUS
      <3> HIDE DEF w, h, a
      <3>4. /\ px' \in PxType /\ px'.evts = px.evts /\ px'.shells = h /\ px'.wss = w
            /\ px'.g_surf_next = px.g_surf_next
        BY <1>2, <3>1, <3>2 DEF PxType
      <3> QED
        BY <2>3, <3>2, <3>3, <3>4
    <2> QED
      BY <2>2, <2>3
  <1> QED
    BY <1>1, <1>2, <1>3 DEF GetShellSurface, Answer, Answers, Apart, stubVars

LEMMA SurfaceRequestIs ==
  ASSUME TypesInv, ProxyHandle, SurfaceRequest
  PROVE  /\ Answers /\ proxy_pc = "handle" /\ ctrl.op \in {"show", "destroy"}
         /\ rb' = rb /\ ctrl' = ctrl /\ px' = px /\ current' \in CurrentType
         /\ current' = [current EXCEPT ![ctrl.arg] = IF ctrl.op = "show" THEN NORMAL ELSE 0]
  <1>1. Answer /\ proxy_pc = "handle"
    BY DEF ProxyHandle
  <1>2. /\ current' = [current EXCEPT ![ctrl.arg] = IF ctrl.op = "show" THEN NORMAL ELSE 0]
        /\ current' \in CurrentType
    BY DEF SurfaceRequest, TypesInv, CurrentType, States
  <1> QED
    BY <1>1, <1>2 DEF SurfaceRequest, Answer, Answers, Apart, stubVars, TypesInv

-----------------------------------------------------------------------------
(* What the invariant says of the surfaces and commands of a moment.       *)

LEMMA Windows ==
  ASSUME WlInv
  PROVE  /\ px.shells \subseteq Slots
         /\ \A o \in Offsets : /\ life[o] # "late"
                               /\ life[o] # "none" => /\ o \in Nat /\ o < bs.next_surface
                                                      /\ bs.surface_slot_map[o] = o + 1
                                                      /\ o + 1 \in Slots
         /\ \A t \in Threads :
              /\ th[t].pc = "naming" => bs.next_surface \in Offsets
              /\ th[t].pc \in {"shell", "shown", "destroy", "gone"} =>
                   /\ th[t].i \in Offsets /\ life[th[t].i] # "none"
                   /\ bs.surface_slot_map[th[t].i] = th[t].i + 1 /\ th[t].i + 1 \in Slots
  <1> USE DEF WlInv
  <1>1. px.shells \subseteq Slots
    BY DEF LifeInv, WindowLife
  <1>2. /\ bs.next_surface \in Nat /\ left["surfaces"] \in Nat /\ Begun \in {0, 1}
        /\ PROXY_SURF_MAX \in Nat /\ SURF_MAP_MAX \in Nat
    BY SlotsAre DEF TypesInv, BsType, LeftType, Limited, Begun
  <1>3. /\ bs.next_surface + Begun < PROXY_SURF_MAX
        /\ bs.next_surface + Begun <= SURF_MAP_MAX
    <2>1. /\ bs.next_surface + Begun + left["surfaces"] < PROXY_SURF_MAX
          /\ bs.next_surface + Begun + left["surfaces"] <= SURF_MAP_MAX
      BY DEF NumbersInv
    <2> QED
      BY <1>2, <2>1
  <1>4. ASSUME NEW o \in Offsets, life[o] # "none"
        PROVE  /\ o \in Nat /\ o < bs.next_surface
               /\ bs.surface_slot_map[o] = o + 1 /\ o + 1 \in Slots
    <2>1. o \in Nat /\ ~ (o >= bs.next_surface)
      BY <1>4, SlotsAre DEF NumbersInv
    <2>2. o < bs.next_surface
      BY <1>2, <2>1
    <2>3. bs.surface_slot_map[o] = o + 1
      BY <2>2 DEF NumbersInv
    <2>4. o + 1 \in Slots
      BY <1>2, <1>3, <2>1, <2>2 DEF Slots
    <2> QED
      BY <2>1, <2>2, <2>3, <2>4
  <1>5. ASSUME NEW t \in Threads, th[t].pc = "naming"
        PROVE  bs.next_surface \in Offsets
    <2>1. Begun = 1
      BY <1>5 DEF Begun
    <2> QED
      BY <1>2, <1>3, <2>1 DEF Offsets
  <1>6. ASSUME NEW t \in Threads, th[t].pc \in {"shell", "shown", "destroy", "gone"}
        PROVE  th[t].i \in Offsets /\ life[th[t].i] # "none"
    BY <1>6 DEF LifeInv, WindowThread
  <1>7. \A o \in Offsets : life[o] # "late"
    BY DEF LifeInv, WindowLife
  <1> QED
    BY <1>1, <1>4, <1>5, <1>6, <1>7

(* A command that is served is the one of the thread that holds the lock.  *)
LEMMA Served ==
  ASSUME WlInv, proxy_pc \in {"handle", "collect"}
  PROVE  \E t \in Threads :
           /\ lock = t /\ Waiting(t) /\ Asked(t) /\ \A u \in Threads \ {t} : ~ Waiting(u)
           /\ req_wl_efd /\ ~ resp_wl_efd
           /\ ctrl.op \in {"create", "roundtrip", "shell", "show", "destroy"}
           /\ ctrl.op = "create" => th[t].pc = "creating"
           /\ ctrl.op = "roundtrip" => th[t].pc = "await"
           /\ ctrl.op = "shell" => /\ th[t].pc = "shell" /\ ctrl.arg = th[t].i + 1
                                   /\ ctrl.arg \in Slots
           /\ ctrl.op = "show" => /\ th[t].pc = "shown" /\ ctrl.arg = th[t].i + 1
                                  /\ ctrl.arg \in Slots
           /\ ctrl.op = "destroy" => /\ th[t].pc = "gone" /\ ctrl.arg = th[t].i + 1
                                     /\ ctrl.arg \in Slots
  <1>1. /\ req_wl_efd /\ ~ resp_wl_efd /\ lock \in Threads /\ lock # NoThread
        /\ \A u \in Threads : /\ Waiting(u) <=> lock = u
                              /\ Waiting(u) => Asked(u)
                              /\ th[u].pc # "late"
    BY DEF WlInv, TypesInv, ChannelInv, LifeInv, WindowThread
  <1>2. PICK t \in Threads : t = lock
    BY <1>1
  <1>3. Waiting(t) /\ Asked(t) /\ th[t].pc # "late"
    BY <1>1, <1>2
  <1>4. /\ th[t].pc \in {"creating", "shell", "shown", "gone", "await"}
        /\ th[t].pc = "creating" => ctrl.op = "create"
        /\ th[t].pc = "await" => ctrl.op = "roundtrip"
        /\ th[t].pc = "shell" =>
             ctrl.op = "shell" /\ ctrl.arg = bs.surface_slot_map[th[t].i]
        /\ th[t].pc = "shown" =>
             ctrl.op = "show" /\ ctrl.arg = bs.surface_slot_map[th[t].i]
        /\ th[t].pc = "gone" =>
             ctrl.op = "destroy" /\ ctrl.arg = bs.surface_slot_map[th[t].i]
    BY <1>3 DEF Waiting, Asked, AskPcs
  <1>5. th[t].pc \in {"shell", "shown", "gone"} =>
          bs.surface_slot_map[th[t].i] = th[t].i + 1 /\ th[t].i + 1 \in Slots
    BY Windows
  <1>6. \A u \in Threads \ {t} : ~ Waiting(u)
    BY <1>1, <1>2
  <1> QED
    BY <1>1, <1>2, <1>3, <1>4, <1>5, <1>6

LEMMA EnterIs ==
  ASSUME WlInv
  PROVE  EnterB(bs) /\ bs \in BsType
  BY DEF WlInv, EnterInv, EnterB, TypesInv

LEMMA FocusIs ==
  ASSUME WlInv, NEW t \in Threads, FocusFirst(t)
  PROVE  /\ At(t, "focus") /\ To(t, "keys", 1, rb.count) /\ Stays /\ event_efd' \in BOOLEAN
         /\ cb' = cb /\ life' = life /\ unheard' = unheard /\ left' = left
         /\ bs' \in BsType /\ NumbersSame /\ ListenersSame /\ bs'.told = bs.told
         /\ bs'.globals_fired = bs.globals_fired /\ bs'.seat = bs.seat
         /\ EnterB(bs') /\ Entered(bs', bs)
         /\ bs'.active_surface \in {0, bs.active_surface}
         /\ bs'.active_surface = 0 => bs.active_surface = 0 \/ bs.next_surface > 0
         /\ bs'.keyboard_focus \in {bs.keyboard_focus, bs'.active_surface}
         /\ bs.globals_fired /\ bs.next_surface > 0 => bs'.enter_sent
  <1>1. TypesInv
    BY DEF WlInv
  <1>2. /\ At(t, "focus") /\ To(t, "keys", 1, rb.count) /\ Stays /\ event_efd' \in BOOLEAN
        /\ cb' = cb /\ life' = life /\ unheard' = unheard /\ left' = left
        /\ bs' = LazyCapabilities(FocusKeyboard(bs))
    BY <1>1, FocusFirstMoves
  <1> DEFINE a == LazyCapabilities(FocusKeyboard(bs))
  <1>3. /\ a \in BsType /\ Same4(a, bs) /\ a.told = bs.told
        /\ EnterB(a) /\ Entered(a, bs)
        /\ a.active_surface \in {0, bs.active_surface}
        /\ a.active_surface = 0 => bs.active_surface = 0 \/ bs.next_surface > 0
        /\ a.keyboard_focus \in {bs.keyboard_focus, a.active_surface}
        /\ bs.globals_fired /\ bs.next_surface > 0 => a.enter_sent
    BY EnterIs, FocusFirstIs
  <1> HIDE DEF a
  <1>4. bs' = a
    BY <1>2 DEF a
  <1> QED
    BY <1>2, <1>3, <1>4 DEF Same4, NumbersSame, ListenersSame

LEMMA KeyIs ==
  ASSUME WlInv, NEW t \in Threads, DeliverKey(t)
  PROVE  LET k == rb.keys[th[t].i]
         IN  /\ At(t, "keys") /\ th[t].i <= th[t].n
             /\ To(t, "keys", th[t].i + 1, th[t].n)
             /\ k \in Nat /\ th[t].i \in KeyPlaces(t) /\ t \in Dispatchers
             /\ Stays /\ event_efd' = event_efd /\ cb' = cb /\ life' = life /\ left' = left
             /\ bs' \in BsType /\ NumbersSame /\ ListenersSame /\ SeatSame
             /\ bs'.told = bs.told /\ bs'.enter_sent = bs.enter_sent
             /\ bs'.keyboard_focus = bs.keyboard_focus
             /\ bs'.active_surface = bs.active_surface
             /\ bs.keyboard => bs'.heard = Append(bs.heard, k) /\ unheard' = unheard
             /\ ~ bs.keyboard => bs' = bs /\ unheard' = unheard \cup {k}
             /\ unheard' \subseteq Nat
  <1> DEFINE k == rb.keys[th[t].i]
  <1>1. TypesInv
    BY DEF WlInv
  <1>2. /\ At(t, "keys") /\ th[t].i <= th[t].n /\ To(t, "keys", th[t].i + 1, th[t].n)
        /\ Stays /\ event_efd' = event_efd /\ cb' = cb /\ life' = life /\ left' = left
        /\ IF bs.keyboard
           THEN bs' = [bs EXCEPT !.heard = Append(bs.heard, k)] /\ unheard' = unheard
           ELSE unheard' = unheard \cup {k} /\ bs' = bs
    BY <1>1, DeliverKeyMoves
  <1>3. k \in Nat /\ th[t].i \in KeyPlaces(t) /\ t \in Dispatchers
    BY <1>2, DeliverKeyPlace
  <1>4. bs \in BsType /\ unheard \subseteq Nat
    BY <1>1 DEF TypesInv
  <1> HIDE DEF k
  <1>5. CASE bs.keyboard
    <2> DEFINE h == Append(bs.heard, k)
    <2>1. h \in Seq(Nat)
      <3>1. bs.heard \in Seq(Nat)
        BY <1>4 DEF BsType
      <3> QED
        BY <1>3, <3>1, AppendProperties
    <2>2. bs' = [bs EXCEPT !.heard = h] /\ unheard' = unheard
      BY <1>2, <1>5
    <2>3. h = Append(bs.heard, k)
      OBVIOUS
    <2> HIDE DEF h
    <2>4. /\ bs' \in BsType /\ NumbersSame /\ ListenersSame /\ SeatSame
          /\ bs'.told = bs.told /\ bs'.enter_sent = bs.enter_sent
          /\ bs'.keyboard_focus = bs.keyboard_focus
          /\ bs'.active_surface = bs.active_surface /\ bs'.heard = h
      BY <1>4, <2>1, <2>2 DEF BsType, NumbersSame, ListenersSame, SeatSame
    <2> QED
      BY <1>2, <1>3, <1>4, <1>5, <2>2, <2>3, <2>4 DEF k
  <1>6. CASE ~ bs.keyboard
    <2>1. bs' = bs /\ unheard' = unheard \cup {k}
      BY <1>2, <1>6
    <2> QED
      BY <1>2, <1>3, <1>4, <1>6, <2>1 DEF k, NumbersSame, ListenersSame, SeatSame
  <1> QED
    BY <1>5, <1>6

LEMMA StateIs ==
  ASSUME WlInv, NEW t \in Threads, DeliverState(t)
  PROVE  LET e == rb.wss[th[t].i]
             o == e[1] - 1
             w == ListenerOf(bs, o)
         IN  /\ At(t, "states") /\ th[t].i <= th[t].n
             /\ To(t, "states", th[t].i + 1, th[t].n)
             /\ StatePlaces(t) = th[t].i .. th[t].n /\ th[t].i \in StatePlaces(t)
             /\ th[t].i \in Undelivered /\ t \in Dispatchers
             /\ e[1] \in Slots /\ e[1] \in px.shells /\ e[2] \in States
             /\ o \in Offsets /\ o \in Nat /\ Public(o)
             /\ Stays /\ event_efd' = event_efd /\ cb' = cb /\ life' = life /\ left' = left
             /\ unheard' = unheard
             /\ bs' \in BsType /\ NumbersSame /\ ListenersSame
             /\ bs'.globals_fired = bs.globals_fired /\ bs'.seat = bs.seat
             /\ bs'.keyboard = bs.keyboard /\ bs'.enter_sent = bs.enter_sent /\ EnterB(bs')
             /\ w \in Offset0
             /\ bs'.told = IF w = None THEN bs.told ELSE [bs.told EXCEPT ![w] = e[2]]
             /\ bs'.active_surface \in {o, bs.active_surface}
             /\ bs'.keyboard_focus \in {o, bs.keyboard_focus}
             /\ e[2] # FULLSCREEN => bs'.keyboard_focus = bs.keyboard_focus
             /\ e[2] = FULLSCREEN /\ bs.enter_sent => bs'.keyboard_focus = o
             /\ \/ bs'.heard = bs.heard
                \/ bs.enter_sent /\ bs'.heard = Append(bs.heard, 0)
  <1> DEFINE e == rb.wss[th[t].i]
             o == e[1] - 1
             v == e[2]
             w == ListenerOf(bs, o)
             a == Deliver(bs, o, v)
  <1>1. TypesInv
    BY DEF WlInv
  <1>2. /\ At(t, "states") /\ th[t].i <= th[t].n /\ To(t, "states", th[t].i + 1, th[t].n)
        /\ Stays /\ event_efd' = event_efd /\ cb' = cb /\ life' = life /\ left' = left
        /\ unheard' = unheard /\ bs' = Deliver(bs, StubIdx(e[1]), v)
    BY <1>1, DeliverStateMoves
  <1>3. /\ StatePlaces(t) = th[t].i .. th[t].n /\ th[t].i \in StatePlaces(t)
        /\ th[t].i \in Undelivered /\ t \in Dispatchers
        /\ e[1] \in Slots /\ e[1] \in px.shells /\ v \in States
        /\ StubIdx(e[1]) = o /\ o \in Offsets /\ Public(o) /\ o \in Nat
    <2>1. o \in Offsets => o \in Nat
      BY SlotsAre
    <2> QED
      BY <1>2, <2>1, DeliverStatePlace
  <1>4. bs \in BsType /\ EnterB(bs)
    BY EnterIs
  <1> HIDE DEF v, o, a, w
  <1>5. bs' = a
    BY <1>2, <1>3 DEF a
  <1>6. /\ a \in BsType /\ Same4(a, bs) /\ EnterB(a)
        /\ a.keyboard = bs.keyboard /\ a.enter_sent = bs.enter_sent
        /\ w \in Offset0 /\ a.told = IF w = None THEN bs.told ELSE [bs.told EXCEPT ![w] = v]
        /\ a.active_surface \in {o, bs.active_surface}
        /\ a.keyboard_focus \in {o, bs.keyboard_focus}
        /\ v # FULLSCREEN => a.keyboard_focus = bs.keyboard_focus
        /\ v = FULLSCREEN /\ bs.enter_sent => a.keyboard_focus = o
        /\ a.heard = bs.heard \/ (bs.enter_sent /\ a.heard = Append(bs.heard, 0))
    <2>1. v \in States \cup {0}
      BY <1>3
    <2> QED
      BY <1>3, <1>4, <2>1, DeliverIs DEF a, w
  <1>7. v = e[2] /\ o = e[1] - 1 /\ w = ListenerOf(bs, o)
    BY DEF v, o, w
  <1> HIDE DEF e
  <1>8. NumbersSame /\ ListenersSame /\ bs'.globals_fired = bs.globals_fired
        /\ bs'.seat = bs.seat
    BY <1>5, <1>6 DEF Same4, NumbersSame, ListenersSame
  <1>9. /\ bs'.told = IF w = None THEN bs.told ELSE [bs.told EXCEPT ![w] = v]
        /\ bs'.active_surface \in {o, bs.active_surface}
        /\ bs'.keyboard_focus \in {o, bs.keyboard_focus}
        /\ v # FULLSCREEN => bs'.keyboard_focus = bs.keyboard_focus
        /\ v = FULLSCREEN /\ bs.enter_sent => bs'.keyboard_focus = o
        /\ bs'.heard = bs.heard \/ (bs.enter_sent /\ bs'.heard = Append(bs.heard, 0))
        /\ bs' \in BsType /\ EnterB(bs') /\ bs'.keyboard = bs.keyboard
        /\ bs'.enter_sent = bs.enter_sent /\ w \in Offset0
    BY <1>5, <1>6
  <1>10. /\ At(t, "states") /\ th[t].i <= th[t].n
         /\ To(t, "states", th[t].i + 1, th[t].n)
         /\ StatePlaces(t) = th[t].i .. th[t].n /\ th[t].i \in StatePlaces(t)
         /\ th[t].i \in Undelivered /\ t \in Dispatchers
         /\ e[1] \in Slots /\ e[1] \in px.shells /\ v \in States
         /\ o \in Offsets /\ o \in Nat /\ Public(o)
         /\ Stays /\ event_efd' = event_efd /\ cb' = cb /\ life' = life /\ left' = left
         /\ unheard' = unheard
         /\ bs' \in BsType /\ NumbersSame /\ ListenersSame
         /\ bs'.globals_fired = bs.globals_fired /\ bs'.seat = bs.seat
         /\ bs'.keyboard = bs.keyboard /\ bs'.enter_sent = bs.enter_sent /\ EnterB(bs')
         /\ w \in Offset0
         /\ bs'.told = IF w = None THEN bs.told ELSE [bs.told EXCEPT ![w] = v]
         /\ bs'.active_surface \in {o, bs.active_surface}
         /\ bs'.keyboard_focus \in {o, bs.keyboard_focus}
         /\ v # FULLSCREEN => bs'.keyboard_focus = bs.keyboard_focus
         /\ v = FULLSCREEN /\ bs.enter_sent => bs'.keyboard_focus = o
         /\ \/ bs'.heard = bs.heard
            \/ bs.enter_sent /\ bs'.heard = Append(bs.heard, 0)
    BY <1>2, <1>3, <1>7, <1>8, <1>9
  <1> QED
    BY <1>10 DEF e, v, o, w

-----------------------------------------------------------------------------
LEMMA ShellArg ==
  ASSUME WlInv, ProxyHandle, GetShellSurface
  PROVE  ctrl.arg \in Slots
  BY Served DEF ProxyHandle, GetShellSurface

LEMMA DestroyArg ==
  ASSUME WlInv, NEW t \in Threads, Destroy(t)
  PROVE  th[t].i \in Offsets
  BY Windows DEF Destroy, At

LEMMA NamingArg ==
  ASSUME WlInv, NEW t \in Threads, NameSurface(t)
  PROVE  bs.next_surface \in Offsets
  BY Windows DEF NameSurface, At

(* Every step keeps the types.                                             *)
LEMMA TypesStep ==
  ASSUME WlInv, PlainWindows, [Next]_vars
  PROVE  TypesInv'
  <1>0. TypesInv
    BY DEF WlInv
  <1>1. ASSUME UNCHANGED vars
        PROVE  TypesInv'
    BY <1>0, <1>1
    DEF vars, channelVars, worldVars, proxyVars, stubVars, TypesInv
  <1>2. ASSUME SendKey
        PROVE  TypesInv'
    <2>1. sent' \in Nat
      BY <1>0, <1>2, SendKeyIs DEF TypesInv
    <2> QED
      BY <1>0, <1>2, <2>1, SendKeyIs DEF Commandless, Apart, Uses, TypesInv
  <1>3. ASSUME NEW s \in Slots, NEW v \in States, SendState(s, v)
        PROVE  TypesInv'
    BY <1>0, <1>3, SendStateIs
    DEF Commandless, Apart, Uses, TypesInv
  <1>4. ASSUME EglReads \/ ProxyPrepare \/ ProxyPoll \/ ProxyDispatch \/ Roundtrip
        PROVE  TypesInv'
    BY <1>0, <1>4, ReadsIs
    DEF Commandless, Apart, TypesInv
  <1>5. ASSUME Hear
        PROVE  TypesInv'
    BY <1>0, <1>5, HearIs
    DEF Commandless, Apart, TypesInv
  <1>6. ASSUME ProxyCollect
        PROVE  TypesInv'
    <2>1. /\ px' \in PxType /\ rb' \in RbType /\ Answers /\ px'.evts = << >>
          /\ ctrl' = ctrl /\ current' = current
      BY <1>0, <1>6, Windows, ProxyCollectIs
    <2>2. Len(px'.evts) <= INPUT_EVT_MAX
      BY <2>1, SlotsAre
    <2> QED
      BY <1>0, <2>1, <2>2 DEF Answers, Apart, TypesInv, ProxyPcs
  <1>7. ASSUME ProxyHandle, CreateSurface
        PROVE  TypesInv'
    BY <1>0, <1>7, CreateSurfaceIs
    DEF Answers, Apart, TypesInv, ProxyPcs
  <1>8. ASSUME ProxyHandle, GetShellSurface
        PROVE  TypesInv'
    BY <1>0, <1>8, ShellArg, GetShellSurfaceIs
    DEF Answers, Apart, TypesInv, ProxyPcs
  <1>9. ASSUME ProxyHandle, SurfaceRequest
        PROVE  TypesInv'
    BY <1>0, <1>9, SurfaceRequestIs
    DEF Answers, Apart, TypesInv, ProxyPcs
  <1>10. ASSUME NEW t \in Threads, Create(t)
        PROVE  TypesInv'
    BY <1>0, <1>10, CreateIs
    DEF Sends, To, Only, Outside, Uses, TypesInv
  <1>11. ASSUME NEW t \in Threads, NEW o \in Offsets, AskShell(t, o)
        PROVE  TypesInv'
    BY <1>0, <1>11, AskShellIs
    DEF Sends, To, Only, Outside, TypesInv
  <1>12. ASSUME NEW t \in Threads, NEW o \in Offsets, Show(t, o)
        PROVE  TypesInv'
    <2>1. life[o] # "late"
      BY Windows
    <2>2. Sends(t, "show", bs.surface_slot_map[o], "shown", o)
          /\ event_efd' = event_efd /\ bs' = bs /\ life' = life /\ left' = left
      BY <1>0, <1>12, <2>1, ShowIs
    <2> QED
      BY <1>0, <2>2 DEF Sends, To, Only, Outside, TypesInv
  <1>13. ASSUME NEW t \in Threads, Destroy(t)
        PROVE  TypesInv'
    BY <1>0, <1>13, DestroyArg, DestroyIs
    DEF Sends, To, Only, Outside, TypesInv
  <1>14. ASSUME NEW t \in Threads, Collect(t)
        PROVE  TypesInv'
    BY <1>0, <1>14, CollectIs
    DEF Sends, To, Only, Outside, TypesInv
  <1>15. ASSUME NEW t \in Threads, Created(t)
        PROVE  TypesInv'
    BY <1>0, <1>15, CreatedIs
    DEF Receives, To, Only, Outside, TypesInv
  <1>16. ASSUME NEW t \in Threads, RoundtripDone(t)
        PROVE  TypesInv'
    BY <1>0, <1>16, RoundtripDoneIs
    DEF Receives, To, Only, Outside, TypesInv
  <1>17. ASSUME NEW t \in Threads, NEW state \in {"shell", "shown", "late", "gone"},
                Answered(t, state, state)
        PROVE  TypesInv'
    BY <1>0, <1>17, AnsweredIs
    DEF Receives, To, Only, Outside, TypesInv
  <1>18. ASSUME NEW t \in Threads, NameSurface(t)
        PROVE  TypesInv'
    BY <1>0, <1>18, NamingArg, NameSurfaceIs
    DEF To, Only, Stays, Outside, TypesInv
  <1>19. ASSUME NEW t \in Threads, NEW o \in Offsets, AddListener(t, o)
        PROVE  TypesInv'
    BY <1>0, <1>19, Windows, AddListenerIs
    DEF Stays, Outside, TypesInv
  <1>20. ASSUME NEW t \in Threads, NEW o \in Offsets, DropShell(t, o)
        PROVE  TypesInv'
    BY <1>0, <1>20, DropShellIs
    DEF To, Only, Stays, Outside, Uses, TypesInv
  <1>21. ASSUME NEW t \in Threads, Frame(t)
        PROVE  TypesInv'
    BY <1>0, <1>21, FrameIs
    DEF Little, Stays, Outside, Only, TypesInv
  <1>22. ASSUME NEW t \in Threads, Attach(t)
        PROVE  TypesInv'
    BY <1>0, <1>22, AttachIs
    DEF Little, Stays, Outside, Only, TypesInv
  <1>23. ASSUME NEW t \in Threads, ListenToRegistry(t)
        PROVE  TypesInv'
    BY <1>0, <1>23, ListenToRegistryIs
    DEF Little, Stays, Outside, Only, TypesInv
  <1>24. ASSUME NEW t \in Threads, NEW full \in 0 .. 1, Dispatch(t, full),
               left' = left \/ Used("calls")
        PROVE  TypesInv'
    BY <1>0, <1>24, DispatchIs
    DEF Little, Stays, Outside, Only, TypesInv
  <1>25. ASSUME NEW t \in Threads, FireGlobals(t)
        PROVE  TypesInv'
    BY <1>0, <1>25, FireGlobalsIs
    DEF Little, Stays, Outside, Only, TypesInv
  <1>26. ASSUME NEW t \in Threads, FireCallbacks(t)
        PROVE  TypesInv'
    BY <1>0, <1>26, FireCallbacksIs
    DEF Little, Stays, Outside, Only, TypesInv
  <1>27. ASSUME NEW t \in Threads, Return(t)
        PROVE  TypesInv'
    BY <1>0, <1>27, ReturnMoves
    DEF Little, Stays, Outside, Only, TypesInv, To
  <1>28. ASSUME NEW t \in Threads, FocusFirst(t)
        PROVE  TypesInv'
    BY <1>0, <1>28, FocusIs
    DEF To, Only, Stays, Outside, TypesInv
  <1>29. ASSUME NEW t \in Threads, DeliverKey(t)
        PROVE  TypesInv'
    BY <1>0, <1>29, KeyIs
    DEF To, Only, Stays, Outside, TypesInv
  <1>30. ASSUME NEW t \in Threads, KeysDelivered(t)
        PROVE  TypesInv'
    BY <1>0, <1>30, KeysDeliveredMoves
    DEF To, Only, Stays, Outside, TypesInv
  <1>31. ASSUME NEW t \in Threads, DeliverState(t)
        PROVE  TypesInv'
    BY <1>0, <1>31, StateIs
    DEF To, Only, Stays, Outside, TypesInv
  <1> QED
    BY <1>1, <1>2, <1>3, <1>4, <1>5, <1>6, <1>7, <1>8, <1>9, <1>10, <1>11, <1>12, <1>13,
       <1>14, <1>15, <1>16, <1>17, <1>18, <1>19, <1>20, <1>21, <1>22, <1>23, <1>24,
       <1>25, <1>26, <1>27, <1>28, <1>29, <1>30, <1>31
    DEF Next, Compositor, Proxy, ProxyHandle, Begin, Continue, WaitAndDispatch, DispatchNow,
        States

-----------------------------------------------------------------------------
(* The channel.                                                            *)

(* A thread that does not wait, before or after, disturbs no command.      *)
LEMMA LocalChannel ==
  ASSUME TypesInv, ChannelInv, NEW t \in Threads, Only(t), Stays,
         bs'.surface_slot_map = bs.surface_slot_map, ~ Waiting(t), ~ Waiting(t)',
         th'[t].pc \in DispatchPcs => t \in Dispatchers,
         th'[t].pc \in CreatorPcs => t \in Creators
  PROVE  ChannelInv'
  <1>1. ASSUME NEW u \in Threads
        PROVE  /\ Waiting(u)' <=> lock' = u
               /\ Waiting(u)' => Asked(u)'
               /\ th'[u].pc \in DispatchPcs => u \in Dispatchers
               /\ th'[u].pc \in CreatorPcs => u \in Creators
    <2>1. CASE u = t
      BY <2>1 DEF ChannelInv, Stays
    <2>2. CASE u # t
      <3>1. th'[u] = th[u] /\ lock' = lock /\ ctrl' = ctrl
        BY <2>2 DEF Only, Stays
      <3> QED
        BY <3>1 DEF ChannelInv, Waiting, Asked
    <2> QED
      BY <2>1, <2>2
  <1> QED
    BY <1>1 DEF ChannelInv, Stays, Outside

LEMMA SendChannel ==
  ASSUME TypesInv, ChannelInv, NEW t \in Threads, Only(t), lock = NoThread, lock' = t,
         req_wl_efd' = TRUE, resp_wl_efd' = resp_wl_efd, Outside,
         Waiting(t)', Asked(t)',
         th'[t].pc \in DispatchPcs => t \in Dispatchers,
         th'[t].pc \in CreatorPcs => t \in Creators
  PROVE  ChannelInv'
  <1>1. ASSUME NEW u \in Threads
        PROVE  /\ Waiting(u)' <=> lock' = u
               /\ Waiting(u)' => Asked(u)'
               /\ th'[u].pc \in DispatchPcs => u \in Dispatchers
               /\ th'[u].pc \in CreatorPcs => u \in Creators
    <2>1. CASE u = t
      BY <2>1 DEF ChannelInv
    <2>2. CASE u # t
      <3>1. th'[u] = th[u] /\ lock # u
        BY <2>2, WlAssumption DEF Only
      <3>2. ~ Waiting(u)
        BY <3>1 DEF ChannelInv
      <3>3. ~ Waiting(u)'
        BY <3>1, <3>2 DEF Waiting
      <3> QED
        BY <2>2, <3>1, <3>3 DEF ChannelInv
    <2> QED
      BY <2>1, <2>2
  <1>2. ~ req_wl_efd /\ ~ resp_wl_efd /\ lock' # NoThread
    BY WlAssumption DEF ChannelInv
  <1>3. proxy_pc' \notin {"handle", "collect"} /\ (proxy_pc' = "dispatch" => ~ revents')
    BY <1>2 DEF ChannelInv, Outside
  <1> QED
    BY <1>1, <1>2, <1>3 DEF ChannelInv

LEMMA ReceiveChannel ==
  ASSUME TypesInv, ChannelInv, NEW t \in Threads, Only(t), Waiting(t), ~ Waiting(t)',
         lock' = NoThread, resp_wl_efd, resp_wl_efd' = FALSE, req_wl_efd' = req_wl_efd, Outside,
         th'[t].pc \in DispatchPcs => t \in Dispatchers,
         th'[t].pc \in CreatorPcs => t \in Creators
  PROVE  ChannelInv'
  <1>1. lock = t /\ ~ req_wl_efd
    BY DEF ChannelInv
  <1>2. ASSUME NEW u \in Threads
        PROVE  /\ Waiting(u)' <=> lock' = u
               /\ Waiting(u)' => Asked(u)'
               /\ th'[u].pc \in DispatchPcs => u \in Dispatchers
               /\ th'[u].pc \in CreatorPcs => u \in Creators
    <2>1. CASE u = t
      BY <2>1, WlAssumption DEF ChannelInv
    <2>2. CASE u # t
      <3>1. th'[u] = th[u] /\ lock # u /\ lock' # u
        BY <1>1, <2>2, WlAssumption DEF Only
      <3>2. ~ Waiting(u)
        BY <3>1 DEF ChannelInv
      <3>3. ~ Waiting(u)'
        BY <3>1, <3>2 DEF Waiting
      <3> QED
        BY <2>2, <3>1, <3>3 DEF ChannelInv
    <2> QED
      BY <2>1, <2>2
  <1> QED
    BY <1>1, <1>2 DEF ChannelInv, Outside

LEMMA AnswerChannel ==
  ASSUME TypesInv, ChannelInv, Answers, proxy_pc \in {"handle", "collect"}
  PROVE  ChannelInv'
  <1>1. ASSUME NEW u \in Threads
        PROVE  /\ Waiting(u)' <=> lock' = u
               /\ Waiting(u)' => Asked(u)'
               /\ th'[u].pc \in DispatchPcs => u \in Dispatchers
               /\ th'[u].pc \in CreatorPcs => u \in Creators
    BY DEF ChannelInv, Answers, Apart, Waiting, Asked
  <1>2. req_wl_efd
    BY DEF ChannelInv
  <1> QED
    BY <1>1, <1>2 DEF ChannelInv, Answers, Apart

(* Nor does what the compositor does, nor the proxy outside a handler.     *)
LEMMA OuterChannel ==
  ASSUME TypesInv, ChannelInv, Commandless,
         proxy_pc' \in {"handle", "collect"} => req_wl_efd,
         proxy_pc' = "collect" => ctrl.op = "roundtrip",
         proxy_pc' = "dispatch" /\ revents' => req_wl_efd
  PROVE  ChannelInv'
  <1>1. ASSUME NEW u \in Threads
        PROVE  /\ Waiting(u)' <=> lock' = u
               /\ Waiting(u)' => Asked(u)'
               /\ th'[u].pc \in DispatchPcs => u \in Dispatchers
               /\ th'[u].pc \in CreatorPcs => u \in Creators
    BY DEF ChannelInv, Commandless, Apart, Waiting, Asked
  <1> QED
    BY <1>1 DEF ChannelInv, Commandless, Apart

(* Every step keeps the channel.                                            *)
LEMMA ChannelStep ==
  ASSUME WlInv, OneCreator, PlainWindows, [Next]_vars
  PROVE  ChannelInv'
  <1>0. TypesInv /\ ChannelInv
    BY DEF WlInv
  <1>1. ASSUME UNCHANGED vars
        PROVE  ChannelInv'
    BY <1>0, <1>1, OuterChannel
    DEF vars, channelVars, proxyVars, stubVars, Commandless, Apart,
       ChannelInv
  <1>2. ASSUME SendKey
        PROVE  ChannelInv'
    <2>1. Commandless /\ proxy_pc' = proxy_pc /\ revents' = revents
      BY <1>0, <1>2, SendKeyIs
    <2> QED
      BY <1>0, <2>1, OuterChannel DEF ChannelInv
  <1>3. ASSUME NEW s \in Slots, NEW v \in States, SendState(s, v)
        PROVE  ChannelInv'
    <2>1. Commandless /\ proxy_pc' = proxy_pc /\ revents' = revents
      BY <1>0, <1>3, SendStateIs
    <2> QED
      BY <1>0, <2>1, OuterChannel DEF ChannelInv
  <1>4. ASSUME EglReads \/ ProxyPrepare \/ ProxyPoll \/ ProxyDispatch \/ Roundtrip
        PROVE  ChannelInv'
    <2>1. Commandless
      BY <1>0, <1>4, ReadsIs
    <2>2. /\ proxy_pc' \in {"handle", "collect"} => req_wl_efd
          /\ proxy_pc' = "collect" => ctrl.op = "roundtrip"
          /\ proxy_pc' = "dispatch" /\ revents' => req_wl_efd
      BY <1>0, <1>4 DEF EglReads, ProxyPrepare, ProxyPoll, ProxyDispatch, Roundtrip,
         proxyVars, ChannelInv
    <2> QED
      BY <1>0, <2>1, <2>2, OuterChannel
  <1>5. ASSUME Hear
        PROVE  ChannelInv'
    <2>1. Commandless /\ proxy_pc' = proxy_pc /\ revents' = revents
      BY <1>0, <1>5, HearIs
    <2> QED
      BY <1>0, <2>1, OuterChannel DEF ChannelInv
  <1>6. ASSUME ProxyCollect
        PROVE  ChannelInv'
    <2>1. Answers /\ proxy_pc \in {"handle", "collect"}
      BY <1>0, <1>6, Windows, ProxyCollectIs
    <2> QED
      BY <1>0, <2>1, AnswerChannel
  <1>7. ASSUME ProxyHandle, CreateSurface
        PROVE  ChannelInv'
    <2>1. Answers /\ proxy_pc \in {"handle", "collect"}
      BY <1>0, <1>7, CreateSurfaceIs
    <2> QED
      BY <1>0, <2>1, AnswerChannel
  <1>8. ASSUME ProxyHandle, GetShellSurface
        PROVE  ChannelInv'
    <2>1. Answers /\ proxy_pc \in {"handle", "collect"}
      BY <1>0, <1>8, ShellArg, GetShellSurfaceIs
    <2> QED
      BY <1>0, <2>1, AnswerChannel
  <1>9. ASSUME ProxyHandle, SurfaceRequest
        PROVE  ChannelInv'
    <2>1. Answers /\ proxy_pc \in {"handle", "collect"}
      BY <1>0, <1>9, SurfaceRequestIs
    <2> QED
      BY <1>0, <2>1, AnswerChannel
  <1>10. ASSUME NEW t \in Threads, Create(t)
        PROVE  ChannelInv'
    <2>1. /\ Only(t) /\ lock = NoThread /\ lock' = t
          /\ req_wl_efd' = TRUE /\ resp_wl_efd' = resp_wl_efd /\ Outside
      BY <1>0, <1>10, CreateIs DEF Sends, To
    <2>2. Waiting(t)' /\ Asked(t)'
      BY <1>0, <1>10, CreateIs DEF Sends, To, Waiting, Asked, AskPcs
    <2>3. /\ th'[t].pc \in DispatchPcs => t \in Dispatchers
          /\ th'[t].pc \in CreatorPcs => t \in Creators
      BY <1>0, <1>10, CreateIs
      DEF Sends, To, At, AskPcs, DispatchPcs, CreatorPcs, ChannelInv
    <2> QED
      BY <1>0, <2>1, <2>2, <2>3, SendChannel
  <1>11. ASSUME NEW t \in Threads, NEW o \in Offsets, AskShell(t, o)
        PROVE  ChannelInv'
    <2>1. /\ Only(t) /\ lock = NoThread /\ lock' = t
          /\ req_wl_efd' = TRUE /\ resp_wl_efd' = resp_wl_efd /\ Outside
      BY <1>0, <1>11, AskShellIs DEF Sends, To
    <2>2. Waiting(t)' /\ Asked(t)'
      BY <1>0, <1>11, AskShellIs DEF Sends, To, Waiting, Asked, AskPcs
    <2>3. /\ th'[t].pc \in DispatchPcs => t \in Dispatchers
          /\ th'[t].pc \in CreatorPcs => t \in Creators
      BY <1>0, <1>11, AskShellIs
      DEF Sends, To, At, AskPcs, DispatchPcs, CreatorPcs, ChannelInv
    <2> QED
      BY <1>0, <2>1, <2>2, <2>3, SendChannel
  <1>12. ASSUME NEW t \in Threads, NEW o \in Offsets, Show(t, o)
        PROVE  ChannelInv'
    <2>1. /\ Only(t) /\ lock = NoThread /\ lock' = t
          /\ req_wl_efd' = TRUE /\ resp_wl_efd' = resp_wl_efd /\ Outside
      BY <1>0, <1>12, Windows, ShowIs DEF Sends, To
    <2>2. Waiting(t)' /\ Asked(t)'
      BY <1>0, <1>12, Windows, ShowIs DEF Sends, To, Waiting, Asked, AskPcs
    <2>3. /\ th'[t].pc \in DispatchPcs => t \in Dispatchers
          /\ th'[t].pc \in CreatorPcs => t \in Creators
      BY <1>0, <1>12, Windows, ShowIs
      DEF Sends, To, At, AskPcs, DispatchPcs, CreatorPcs, ChannelInv
    <2> QED
      BY <1>0, <2>1, <2>2, <2>3, SendChannel
  <1>13. ASSUME NEW t \in Threads, Destroy(t)
        PROVE  ChannelInv'
    <2>1. /\ Only(t) /\ lock = NoThread /\ lock' = t
          /\ req_wl_efd' = TRUE /\ resp_wl_efd' = resp_wl_efd /\ Outside
      BY <1>0, <1>13, DestroyArg, DestroyIs DEF Sends, To
    <2>2. Waiting(t)' /\ Asked(t)'
      BY <1>0, <1>13, DestroyArg, DestroyIs DEF Sends, To, Waiting, Asked, AskPcs
    <2>3. /\ th'[t].pc \in DispatchPcs => t \in Dispatchers
          /\ th'[t].pc \in CreatorPcs => t \in Creators
      BY <1>0, <1>13, DestroyArg, DestroyIs
      DEF Sends, To, At, AskPcs, DispatchPcs, CreatorPcs, ChannelInv
    <2> QED
      BY <1>0, <2>1, <2>2, <2>3, SendChannel
  <1>14. ASSUME NEW t \in Threads, Collect(t)
        PROVE  ChannelInv'
    <2>1. /\ Only(t) /\ lock = NoThread /\ lock' = t
          /\ req_wl_efd' = TRUE /\ resp_wl_efd' = resp_wl_efd /\ Outside
      BY <1>0, <1>14, CollectIs DEF Sends, To
    <2>2. Waiting(t)' /\ Asked(t)'
      BY <1>0, <1>14, CollectIs DEF Sends, To, Waiting, Asked, AskPcs
    <2>3. /\ th'[t].pc \in DispatchPcs => t \in Dispatchers
          /\ th'[t].pc \in CreatorPcs => t \in Creators
      BY <1>0, <1>14, CollectIs
      DEF Sends, To, At, AskPcs, DispatchPcs, CreatorPcs, ChannelInv
    <2> QED
      BY <1>0, <2>1, <2>2, <2>3, SendChannel
  <1>15. ASSUME NEW t \in Threads, Created(t)
        PROVE  ChannelInv'
    <2>1. /\ Only(t) /\ lock' = NoThread /\ resp_wl_efd /\ resp_wl_efd' = FALSE
          /\ req_wl_efd' = req_wl_efd /\ Outside
      BY <1>0, <1>15, CreatedIs DEF Receives, To
    <2>2. Waiting(t) /\ ~ Waiting(t)'
      BY <1>0, <1>15, CreatedIs DEF Receives, To, Waiting, At, AskPcs
    <2>3. /\ th'[t].pc \in DispatchPcs => t \in Dispatchers
          /\ th'[t].pc \in CreatorPcs => t \in Creators
      BY <1>0, <1>15, CreatedIs
      DEF Receives, To, At, AskPcs, DispatchPcs, CreatorPcs, ChannelInv
    <2> QED
      BY <1>0, <2>1, <2>2, <2>3, ReceiveChannel
  <1>16. ASSUME NEW t \in Threads, RoundtripDone(t)
        PROVE  ChannelInv'
    <2>1. /\ Only(t) /\ lock' = NoThread /\ resp_wl_efd /\ resp_wl_efd' = FALSE
          /\ req_wl_efd' = req_wl_efd /\ Outside
      BY <1>0, <1>16, RoundtripDoneIs DEF Receives, To
    <2>2. Waiting(t) /\ ~ Waiting(t)'
      BY <1>0, <1>16, RoundtripDoneIs DEF Receives, To, Waiting, At, AskPcs
    <2>3. /\ th'[t].pc \in DispatchPcs => t \in Dispatchers
          /\ th'[t].pc \in CreatorPcs => t \in Creators
      BY <1>0, <1>16, RoundtripDoneIs
      DEF Receives, To, At, AskPcs, DispatchPcs, CreatorPcs, ChannelInv
    <2> QED
      BY <1>0, <2>1, <2>2, <2>3, ReceiveChannel
  <1>17. ASSUME NEW t \in Threads, NEW state \in {"shell", "shown", "late", "gone"},
                Answered(t, state, state)
        PROVE  ChannelInv'
    <2>1. /\ Only(t) /\ lock' = NoThread /\ resp_wl_efd /\ resp_wl_efd' = FALSE
          /\ req_wl_efd' = req_wl_efd /\ Outside
      BY <1>0, <1>17, AnsweredIs DEF Receives, To
    <2>2. Waiting(t) /\ ~ Waiting(t)'
      BY <1>0, <1>17, AnsweredIs DEF Receives, To, Waiting, At, AskPcs
    <2>3. /\ th'[t].pc \in DispatchPcs => t \in Dispatchers
          /\ th'[t].pc \in CreatorPcs => t \in Creators
      BY <1>0, <1>17, AnsweredIs
      DEF Receives, To, At, AskPcs, DispatchPcs, CreatorPcs, ChannelInv
    <2> QED
      BY <1>0, <2>1, <2>2, <2>3, ReceiveChannel
  <1>18. ASSUME NEW t \in Threads, NameSurface(t)
        PROVE  ChannelInv'
    <2>1. bs.next_surface \in Offsets
      BY <1>18, NamingArg
    <2>2. Only(t) /\ Stays /\ At(t, "naming") /\ th'[t].pc = "rest"
      BY <1>0, <1>18, <2>1, NameSurfaceIs DEF To
    <2>3. ASSUME NEW u \in Threads \ {t}
          PROVE  Asked(u)' <=> Asked(u)
      <3>1. th'[u] = th[u] /\ ctrl' = ctrl
        BY <2>2 DEF Only, Stays
      <3>2. th[u].pc \notin CreatorPcs
        BY <1>0, <2>2, <2>3 DEF ChannelInv, OneCreator, At, CreatorPcs
      <3> QED
        BY <3>1, <3>2 DEF Asked, CreatorPcs, AskPcs
    <2>4. ASSUME NEW u \in Threads
          PROVE  /\ Waiting(u)' <=> lock' = u
                 /\ Waiting(u)' => Asked(u)'
                 /\ th'[u].pc \in DispatchPcs => u \in Dispatchers
                 /\ th'[u].pc \in CreatorPcs => u \in Creators
      <3>1. lock' = lock
        BY <2>2 DEF Stays
      <3>2. CASE u = t
        BY <1>0, <2>2, <3>1, <3>2
        DEF ChannelInv, Waiting, At, AskPcs, DispatchPcs, CreatorPcs
      <3>3. CASE u # t
        <4>1. th'[u] = th[u] /\ (Asked(u)' <=> Asked(u))
          BY <2>2, <2>3, <3>3 DEF Only
        <4> QED
          BY <1>0, <3>1, <4>1 DEF ChannelInv, Waiting
      <3> QED
        BY <3>2, <3>3
    <2> QED
      BY <1>0, <2>2, <2>4 DEF ChannelInv, Stays, Outside
  <1>19. ASSUME NEW t \in Threads, NEW o \in Offsets, AddListener(t, o)
        PROVE  ChannelInv'
    <2>1. Only(t) /\ Stays /\ bs'.surface_slot_map = bs.surface_slot_map
      BY <1>0, <1>19, Windows, AddListenerIs DEF To, Only, Little, NumbersSame, TypesInv
    <2>2. ~ Waiting(t) /\ ~ Waiting(t)'
      BY <1>0, <1>19, Windows, AddListenerIs DEF To, Little, Waiting, At, AskPcs, TypesInv
    <2>3. /\ th'[t].pc \in DispatchPcs => t \in Dispatchers
          /\ th'[t].pc \in CreatorPcs => t \in Creators
      BY <1>0, <1>19, Windows, AddListenerIs
      DEF To, Little, At, AskPcs, DispatchPcs, CreatorPcs, ChannelInv
    <2> QED
      BY <1>0, <2>1, <2>2, <2>3, LocalChannel
  <1>20. ASSUME NEW t \in Threads, NEW o \in Offsets, DropShell(t, o)
        PROVE  ChannelInv'
    <2>1. Only(t) /\ Stays /\ bs'.surface_slot_map = bs.surface_slot_map
      BY <1>0, <1>20, DropShellIs DEF To, Only, Little, NumbersSame, TypesInv
    <2>2. ~ Waiting(t) /\ ~ Waiting(t)'
      BY <1>0, <1>20, DropShellIs DEF To, Little, Waiting, At, AskPcs, TypesInv
    <2>3. /\ th'[t].pc \in DispatchPcs => t \in Dispatchers
          /\ th'[t].pc \in CreatorPcs => t \in Creators
      BY <1>0, <1>20, DropShellIs
      DEF To, Little, At, AskPcs, DispatchPcs, CreatorPcs, ChannelInv
    <2> QED
      BY <1>0, <2>1, <2>2, <2>3, LocalChannel
  <1>21. ASSUME NEW t \in Threads, Frame(t)
        PROVE  ChannelInv'
    <2>1. Only(t) /\ Stays /\ bs'.surface_slot_map = bs.surface_slot_map
      BY <1>0, <1>21, FrameIs DEF To, Only, Little, NumbersSame, TypesInv
    <2>2. ~ Waiting(t) /\ ~ Waiting(t)'
      BY <1>0, <1>21, FrameIs DEF To, Little, Waiting, At, AskPcs, TypesInv
    <2>3. /\ th'[t].pc \in DispatchPcs => t \in Dispatchers
          /\ th'[t].pc \in CreatorPcs => t \in Creators
      BY <1>0, <1>21, FrameIs
      DEF To, Little, At, AskPcs, DispatchPcs, CreatorPcs, ChannelInv
    <2> QED
      BY <1>0, <2>1, <2>2, <2>3, LocalChannel
  <1>22. ASSUME NEW t \in Threads, Attach(t)
        PROVE  ChannelInv'
    <2>1. Only(t) /\ Stays /\ bs'.surface_slot_map = bs.surface_slot_map
      BY <1>0, <1>22, AttachIs DEF To, Only, Little, NumbersSame, TypesInv
    <2>2. ~ Waiting(t) /\ ~ Waiting(t)'
      BY <1>0, <1>22, AttachIs DEF To, Little, Waiting, At, AskPcs, TypesInv
    <2>3. /\ th'[t].pc \in DispatchPcs => t \in Dispatchers
          /\ th'[t].pc \in CreatorPcs => t \in Creators
      BY <1>0, <1>22, AttachIs
      DEF To, Little, At, AskPcs, DispatchPcs, CreatorPcs, ChannelInv
    <2> QED
      BY <1>0, <2>1, <2>2, <2>3, LocalChannel
  <1>23. ASSUME NEW t \in Threads, ListenToRegistry(t)
        PROVE  ChannelInv'
    <2>1. Only(t) /\ Stays /\ bs'.surface_slot_map = bs.surface_slot_map
      BY <1>0, <1>23, ListenToRegistryIs DEF To, Only, Little, NumbersSame, TypesInv
    <2>2. ~ Waiting(t) /\ ~ Waiting(t)'
      BY <1>0, <1>23, ListenToRegistryIs
      DEF To, Little, Waiting, At, AskPcs, TypesInv, ListenToRegistry, MayDispatch
    <2>3. /\ th'[t].pc \in DispatchPcs => t \in Dispatchers
          /\ th'[t].pc \in CreatorPcs => t \in Creators
      BY <1>0, <1>23, ListenToRegistryIs
      DEF To, Little, At, AskPcs, DispatchPcs, CreatorPcs, ChannelInv, ListenToRegistry,
          MayDispatch
    <2> QED
      BY <1>0, <2>1, <2>2, <2>3, LocalChannel
  <1>24. ASSUME NEW t \in Threads, NEW full \in 0 .. 1, Dispatch(t, full),
               left' = left \/ Used("calls")
        PROVE  ChannelInv'
    <2>1. Only(t) /\ Stays /\ bs'.surface_slot_map = bs.surface_slot_map
      BY <1>0, <1>24, DispatchIs DEF To, Only, Little, NumbersSame, TypesInv
    <2>2. ~ Waiting(t) /\ ~ Waiting(t)'
      BY <1>0, <1>24, DispatchIs DEF To, Little, Waiting, At, AskPcs, TypesInv
    <2>3. /\ th'[t].pc \in DispatchPcs => t \in Dispatchers
          /\ th'[t].pc \in CreatorPcs => t \in Creators
      BY <1>0, <1>24, DispatchIs
      DEF To, Little, At, AskPcs, DispatchPcs, CreatorPcs, ChannelInv
    <2> QED
      BY <1>0, <2>1, <2>2, <2>3, LocalChannel
  <1>25. ASSUME NEW t \in Threads, FireGlobals(t)
        PROVE  ChannelInv'
    <2>1. Only(t) /\ Stays /\ bs'.surface_slot_map = bs.surface_slot_map
      BY <1>0, <1>25, FireGlobalsIs DEF To, Only, Little, NumbersSame, TypesInv
    <2>2. ~ Waiting(t) /\ ~ Waiting(t)'
      BY <1>0, <1>25, FireGlobalsIs DEF To, Little, Waiting, At, AskPcs, TypesInv
    <2>3. /\ th'[t].pc \in DispatchPcs => t \in Dispatchers
          /\ th'[t].pc \in CreatorPcs => t \in Creators
      BY <1>0, <1>25, FireGlobalsIs
      DEF To, Little, At, AskPcs, DispatchPcs, CreatorPcs, ChannelInv
    <2> QED
      BY <1>0, <2>1, <2>2, <2>3, LocalChannel
  <1>26. ASSUME NEW t \in Threads, FireCallbacks(t)
        PROVE  ChannelInv'
    <2>1. Only(t) /\ Stays /\ bs'.surface_slot_map = bs.surface_slot_map
      BY <1>0, <1>26, FireCallbacksIs DEF To, Only, Little, NumbersSame, TypesInv
    <2>2. ~ Waiting(t) /\ ~ Waiting(t)'
      BY <1>0, <1>26, FireCallbacksIs DEF To, Little, Waiting, At, AskPcs, TypesInv
    <2>3. /\ th'[t].pc \in DispatchPcs => t \in Dispatchers
          /\ th'[t].pc \in CreatorPcs => t \in Creators
      BY <1>0, <1>26, FireCallbacksIs
      DEF To, Little, At, AskPcs, DispatchPcs, CreatorPcs, ChannelInv
    <2> QED
      BY <1>0, <2>1, <2>2, <2>3, LocalChannel
  <1>27. ASSUME NEW t \in Threads, Return(t)
        PROVE  ChannelInv'
    <2>1. Only(t) /\ Stays /\ bs'.surface_slot_map = bs.surface_slot_map
      BY <1>0, <1>27, ReturnMoves DEF To, Only, Little, NumbersSame, TypesInv
    <2>2. ~ Waiting(t) /\ ~ Waiting(t)'
      BY <1>0, <1>27, ReturnMoves DEF To, Little, Waiting, At, AskPcs, TypesInv
    <2>3. /\ th'[t].pc \in DispatchPcs => t \in Dispatchers
          /\ th'[t].pc \in CreatorPcs => t \in Creators
      BY <1>0, <1>27, ReturnMoves
      DEF To, Little, At, AskPcs, DispatchPcs, CreatorPcs, ChannelInv
    <2> QED
      BY <1>0, <2>1, <2>2, <2>3, LocalChannel
  <1>28. ASSUME NEW t \in Threads, FocusFirst(t)
        PROVE  ChannelInv'
    <2>1. Only(t) /\ Stays /\ bs'.surface_slot_map = bs.surface_slot_map
      BY <1>0, <1>28, FocusIs DEF To, Only, Little, NumbersSame, TypesInv
    <2>2. ~ Waiting(t) /\ ~ Waiting(t)'
      BY <1>0, <1>28, FocusIs DEF To, Little, Waiting, At, AskPcs, TypesInv
    <2>3. /\ th'[t].pc \in DispatchPcs => t \in Dispatchers
          /\ th'[t].pc \in CreatorPcs => t \in Creators
      BY <1>0, <1>28, FocusIs
      DEF To, Little, At, AskPcs, DispatchPcs, CreatorPcs, ChannelInv
    <2> QED
      BY <1>0, <2>1, <2>2, <2>3, LocalChannel
  <1>29. ASSUME NEW t \in Threads, DeliverKey(t)
        PROVE  ChannelInv'
    <2>1. Only(t) /\ Stays /\ bs'.surface_slot_map = bs.surface_slot_map
      BY <1>0, <1>29, KeyIs DEF To, Only, Little, NumbersSame, TypesInv
    <2>2. ~ Waiting(t) /\ ~ Waiting(t)'
      BY <1>0, <1>29, KeyIs DEF To, Little, Waiting, At, AskPcs, TypesInv
    <2>3. /\ th'[t].pc \in DispatchPcs => t \in Dispatchers
          /\ th'[t].pc \in CreatorPcs => t \in Creators
      BY <1>0, <1>29, KeyIs
      DEF To, Little, At, AskPcs, DispatchPcs, CreatorPcs, ChannelInv
    <2> QED
      BY <1>0, <2>1, <2>2, <2>3, LocalChannel
  <1>30. ASSUME NEW t \in Threads, KeysDelivered(t)
        PROVE  ChannelInv'
    <2>1. Only(t) /\ Stays /\ bs'.surface_slot_map = bs.surface_slot_map
      BY <1>0, <1>30, KeysDeliveredMoves DEF To, Only, Little, NumbersSame, TypesInv
    <2>2. ~ Waiting(t) /\ ~ Waiting(t)'
      BY <1>0, <1>30, KeysDeliveredMoves DEF To, Little, Waiting, At, AskPcs, TypesInv
    <2>3. /\ th'[t].pc \in DispatchPcs => t \in Dispatchers
          /\ th'[t].pc \in CreatorPcs => t \in Creators
      BY <1>0, <1>30, KeysDeliveredMoves
      DEF To, Little, At, AskPcs, DispatchPcs, CreatorPcs, ChannelInv
    <2> QED
      BY <1>0, <2>1, <2>2, <2>3, LocalChannel
  <1>31. ASSUME NEW t \in Threads, DeliverState(t)
        PROVE  ChannelInv'
    <2>1. Only(t) /\ Stays /\ bs'.surface_slot_map = bs.surface_slot_map
      BY <1>0, <1>31, StateIs DEF To, Only, Little, NumbersSame, TypesInv
    <2>2. ~ Waiting(t) /\ ~ Waiting(t)'
      BY <1>0, <1>31, StateIs DEF To, Little, Waiting, At, AskPcs, TypesInv
    <2>3. /\ th'[t].pc \in DispatchPcs => t \in Dispatchers
          /\ th'[t].pc \in CreatorPcs => t \in Creators
      BY <1>0, <1>31, StateIs
      DEF To, Little, At, AskPcs, DispatchPcs, CreatorPcs, ChannelInv
    <2> QED
      BY <1>0, <2>1, <2>2, <2>3, LocalChannel
  <1> QED
    BY <1>1, <1>2, <1>3, <1>4, <1>5, <1>6, <1>7, <1>8, <1>9, <1>10, <1>11, <1>12, <1>13,
       <1>14, <1>15, <1>16, <1>17, <1>18, <1>19, <1>20, <1>21, <1>22, <1>23, <1>24,
       <1>25, <1>26, <1>27, <1>28, <1>29, <1>30, <1>31
    DEF Next, Compositor, Proxy, ProxyHandle, Begin, Continue, WaitAndDispatch, DispatchNow,
        States

-----------------------------------------------------------------------------
(* Surfaces.                                                               *)

(* Where a thread that makes surfaces has something in hand.               *)
WindowPcs == AskPcs \cup {"naming", "destroy"}
WindowsSame == \A u \in Threads : th'[u] = th[u] \/ (th[u].pc \notin WindowPcs
                                                     /\ th'[u].pc \notin WindowPcs)

(* The one thread that makes surfaces.                                     *)
LEMMA Creator ==
  ASSUME ChannelInv, NEW t \in Threads, th[t].pc \in CreatorPcs, OneCreator
  PROVE  \A u \in Threads \ {t} : th[u].pc \notin CreatorPcs
  BY DEF ChannelInv, OneCreator

LEMMA CreatorsAre ==
  ASSUME ChannelInv, NEW t \in Creators, OneCreator
  PROVE  t \in Threads /\ \A u \in Threads \ {t} : th[u].pc \notin CreatorPcs
  BY WlAssumption DEF ChannelInv, OneCreator

(* A step that leaves these threads alone, and the surfaces.               *)
LEMMA WindowsKept ==
  ASSUME TypesInv, NumbersInv, LifeInv, WindowsSame,
         resp_wl_efd' = resp_wl_efd \/ \A u \in Threads : th[u].pc \notin AskPcs,
         NumbersSame, ListenersSame, bs.globals_fired => bs'.globals_fired,
         px'.g_surf_next = px.g_surf_next, px'.shells = px.shells,
         ctrl'.result = ctrl.result, left'["surfaces"] = left["surfaces"],
         life' = life, \A s \in Slots : current'[s] = 0 <=> current[s] = 0,
         sent' > 0 => bs.next_surface > 0
  PROVE  NumbersInv' /\ LifeInv'
  <1>1. \A u \in Threads : Unnamed(u)' <=> Unnamed(u)
    BY DEF WindowsSame, Unnamed, WindowPcs, AskPcs
  <1>2. \A u \in Threads : th'[u].pc \in {"creating", "naming"}
                           <=> th[u].pc \in {"creating", "naming"}
    BY DEF WindowsSame, WindowPcs, AskPcs
  <1>3. BeingMade' = BeingMade /\ Begun' = Begun
    BY <1>1, <1>2 DEF BeingMade, Begun
  <1>4. ASSUME NEW u \in Threads
        PROVE  /\ th'[u].pc = "naming" => th'[u].n = px'.g_surf_next - 1
               /\ th'[u].pc = "creating" /\ resp_wl_efd' =>
                    ctrl'.result = px'.g_surf_next - 1
    BY DEF WindowsSame, WindowPcs, AskPcs, NumbersInv
  <1>5. NumbersInv'
    <2>1. /\ bs'.next_surface + Begun' + left'["surfaces"] < PROXY_SURF_MAX
          /\ bs'.next_surface + Begun' + left'["surfaces"] <= SURF_MAP_MAX
          /\ px'.g_surf_next = bs'.next_surface + 1 + BeingMade'
      BY <1>3 DEF NumbersInv, NumbersSame
    <2>2. /\ \A o \in Offsets : o < bs'.next_surface => bs'.surface_slot_map[o] = o + 1
          /\ \A o \in Offsets : life'[o] = "none" <=> o >= bs'.next_surface
      BY DEF NumbersInv, NumbersSame
    <2> QED
      BY <1>4, <2>1, <2>2 DEF NumbersInv
  <1>6. ASSUME NEW u \in Threads
        PROVE  WindowThread(u)'
    <2>1. WindowThread(u)
      BY DEF LifeInv
    <2>2. CASE th'[u] # th[u]
      BY <2>2 DEF WindowThread, WindowsSame, WindowPcs, AskPcs
    <2>3. CASE th'[u] = th[u]
      <3>1. th[u].pc \in {"shell", "shown"} => resp_wl_efd' = resp_wl_efd
        BY DEF AskPcs
      <3>2. th[u].pc = "shown" =>
              th[u].i + 1 \in Slots /\ (current'[th[u].i + 1] # 0 <=> current[th[u].i + 1] # 0)
        <4>1. ASSUME th[u].pc = "shown"
              PROVE  th[u].i + 1 \in Slots
          <5>1. th[u].i \in Offsets /\ life[th[u].i] = "heard"
            BY <2>1, <4>1 DEF WindowThread
          <5>2. th[u].i + 1 \in px.shells
            BY <5>1 DEF LifeInv, WindowLife
          <5> QED
            BY <5>2 DEF LifeInv
        <4> QED
          BY <4>1
      <3> QED
        BY <2>1, <2>3, <3>1, <3>2 DEF WindowThread
    <2> QED
      BY <2>2, <2>3
  <1>7. ASSUME NEW o \in Offsets
        PROVE  WindowLife(o)'
    <2>1. WindowLife(o)
      BY DEF LifeInv
    <2>2. /\ life'[o] # "late"
          /\ life'[o] \in {"shell", "heard", "shown", "gone"} => o + 1 \in px'.shells
          /\ bs'.ss_listeners[o] = IF life'[o] \in {"heard", "shown"} THEN o ELSE None
          /\ life'[o] = "gone" => bs'.ss_listener = None
      BY <2>1 DEF WindowLife, ListenersSame
    <2>3. life[o] \in {"heard", "shown"} => o + 1 \in Slots
      BY <2>1 DEF WindowLife, LifeInv
    <2>4. life'[o] = "shown" => current'[o + 1] # 0
      BY <2>1, <2>3 DEF WindowLife
    <2>5. life'[o] = "heard" /\ current'[o + 1] # 0 =>
            \E t \in Threads : th'[t].pc = "shown" /\ th'[t].i = o /\ resp_wl_efd'
      <3> SUFFICES ASSUME life[o] = "heard", current'[o + 1] # 0
                   PROVE  \E t \in Threads : th'[t].pc = "shown" /\ th'[t].i = o
                                             /\ resp_wl_efd'
        OBVIOUS
      <3>1. current[o + 1] # 0
        BY <2>3
      <3>2. PICK t \in Threads : th[t].pc = "shown" /\ th[t].i = o /\ resp_wl_efd
        BY <2>1, <3>1 DEF WindowLife
      <3>3. th'[t] = th[t] /\ resp_wl_efd' = resp_wl_efd
        BY <3>2 DEF WindowsSame, WindowPcs, AskPcs
      <3> QED
        BY <3>2, <3>3
    <2> QED
      BY <2>2, <2>4, <2>5 DEF WindowLife
  <1>8. /\ \A s \in px'.shells : s - 1 \in Offsets /\ s \in Slots /\ life'[s - 1] # "none"
        /\ \A s \in Slots : current'[s] # 0 => s - 1 \in Offsets /\ Public(s - 1)'
        /\ bs'.next_surface > 0 => bs'.globals_fired
        /\ sent' > 0 => bs'.next_surface > 0
    BY DEF LifeInv, Public, NumbersSame
  <1> QED
    BY <1>5, <1>6, <1>7, <1>8 DEF LifeInv


(* The steps that make a surface.                                          *)
LEMMA Numbers ==
  ASSUME TypesInv
  PROVE  /\ bs.next_surface \in Nat /\ px.g_surf_next \in Nat /\ left["surfaces"] \in Nat
         /\ Begun \in {0, 1} /\ BeingMade \in {0, 1}
         /\ PROXY_SURF_MAX \in Nat /\ SURF_MAP_MAX \in Nat
         /\ \A o \in Offsets : o \in Nat
  BY SlotsAre DEF TypesInv, BsType, PxType, LeftType, Limited, Begun, BeingMade

LEMMA MakeSurface ==
  ASSUME WlInv, OneCreator, ProxyHandle, CreateSurface
  PROVE  NumbersInv' /\ LifeInv'
  <1>0. TypesInv /\ ChannelInv /\ NumbersInv /\ LifeInv
    BY DEF WlInv
  <1>1. /\ Answers /\ proxy_pc = "handle" /\ ctrl.op = "create"
        /\ current' = current /\ px'.shells = px.shells
    BY <1>0, CreateSurfaceIs
  <1>2. PICK t \in Threads : /\ th[t].pc = "creating" /\ ~ resp_wl_efd
                             /\ \A u \in Threads \ {t} : ~ Waiting(u)
    BY <1>1, Served
  <1>3. \A u \in Threads \ {t} : th[u].pc \notin CreatorPcs
    BY <1>0, <1>2, Creator DEF CreatorPcs, AskPcs
  <1>4. th' = th /\ bs' = bs /\ life' = life /\ left' = left /\ sent' = sent
        /\ resp_wl_efd' = TRUE
    BY <1>1 DEF Answers, Apart
  <1>5. BeingMade = 0 /\ Begun = 1
    BY <1>2, <1>3 DEF BeingMade, Begun, Unnamed, CreatorPcs
  <1>6. BeingMade' = 1 /\ Begun' = 1
    BY <1>2, <1>4 DEF BeingMade, Begun, Unnamed
  <1>7. ctrl'.result = px.g_surf_next /\ px'.g_surf_next = px.g_surf_next + 1
    <2>1. px.g_surf_next < PROXY_SURF_MAX
      BY <1>0, <1>5, Numbers DEF NumbersInv
    <2>2. ~ (px.g_surf_next >= PROXY_SURF_MAX)
      BY <1>0, <2>1, Numbers
    <2> QED
      BY <1>0, <2>2, CreateSurfaceIs
  <1>8. NumbersInv'
    <2>1. /\ bs'.next_surface + Begun' + left'["surfaces"] < PROXY_SURF_MAX
          /\ bs'.next_surface + Begun' + left'["surfaces"] <= SURF_MAP_MAX
          /\ px'.g_surf_next = bs'.next_surface + 1 + BeingMade'
      BY <1>0, <1>4, <1>5, <1>6, <1>7, Numbers DEF NumbersInv
    <2>2. /\ \A o \in Offsets : o < bs'.next_surface => bs'.surface_slot_map[o] = o + 1
          /\ \A o \in Offsets : life'[o] = "none" <=> o >= bs'.next_surface
      BY <1>0, <1>4 DEF NumbersInv
    <2>3. ASSUME NEW u \in Threads
          PROVE  /\ th'[u].pc = "naming" => th'[u].n = px'.g_surf_next - 1
                 /\ th'[u].pc = "creating" /\ resp_wl_efd' =>
                      ctrl'.result = px'.g_surf_next - 1
      <3>1. th'[u].pc # "naming"
        BY <1>2, <1>3, <1>4 DEF CreatorPcs
      <3> QED
        BY <1>0, <1>7, <3>1, Numbers
    <2> QED
      BY <2>1, <2>2, <2>3 DEF NumbersInv
  <1>9. \A u \in Threads : WindowThread(u)'
    BY <1>0, <1>1, <1>2, <1>3, <1>4 DEF LifeInv, WindowThread, CreatorPcs, AskPcs
  <1>10. \A o \in Offsets : WindowLife(o)'
    BY <1>0, <1>1, <1>2, <1>4 DEF LifeInv, WindowLife
  <1> QED
    BY <1>0, <1>1, <1>4, <1>8, <1>9, <1>10 DEF LifeInv, Public

LEMMA MakeShell ==
  ASSUME WlInv, OneCreator, ProxyHandle, GetShellSurface
  PROVE  NumbersInv' /\ LifeInv'
  <1>0. TypesInv /\ ChannelInv /\ NumbersInv /\ LifeInv
    BY DEF WlInv
  <1>1. /\ Answers /\ proxy_pc = "handle" /\ ctrl.op = "shell" /\ ctrl' = ctrl
        /\ current' = current /\ px'.shells = px.shells \cup {ctrl.arg}
        /\ px'.g_surf_next = px.g_surf_next
    BY <1>0, ShellArg, GetShellSurfaceIs
  <1>2. PICK t \in Threads : /\ th[t].pc = "shell" /\ ~ resp_wl_efd
                             /\ ctrl.arg = th[t].i + 1 /\ ctrl.arg \in Slots
                             /\ \A u \in Threads \ {t} : ~ Waiting(u)
    BY <1>1, Served
  <1>3. \A u \in Threads \ {t} : th[u].pc \notin CreatorPcs
    BY <1>0, <1>2, Creator DEF CreatorPcs, AskPcs
  <1>4. th' = th /\ bs' = bs /\ life' = life /\ left' = left /\ sent' = sent
        /\ resp_wl_efd' = TRUE
    BY <1>1 DEF Answers, Apart
  <1>5. th[t].i \in Offsets /\ life[th[t].i] = "made"
    BY <1>0, <1>2 DEF LifeInv, WindowThread
  <1>6. BeingMade = 0 /\ Begun = 0 /\ BeingMade' = 0 /\ Begun' = 0
    BY <1>2, <1>3, <1>4 DEF BeingMade, Begun, Unnamed, CreatorPcs, AskPcs
  <1>7. \A u \in Threads : th'[u].pc \notin {"naming", "creating"}
    BY <1>2, <1>3, <1>4 DEF CreatorPcs, AskPcs
  <1>8. NumbersInv'
    BY <1>0, <1>1, <1>4, <1>6, <1>7 DEF NumbersInv
  <1>9. ASSUME NEW u \in Threads
        PROVE  WindowThread(u)'
    <2>1. WindowThread(u)
      BY <1>0 DEF LifeInv
    <2>2. CASE u = t
      BY <1>1, <1>2, <1>4, <1>5, <2>1, <2>2 DEF WindowThread
    <2>3. CASE u # t
      BY <1>3, <1>4, <2>1, <2>3 DEF WindowThread, CreatorPcs, AskPcs
    <2> QED
      BY <2>2, <2>3
  <1>10. \A o \in Offsets : WindowLife(o)'
    BY <1>0, <1>1, <1>2, <1>4 DEF LifeInv, WindowLife
  <1>11. \A s \in px'.shells : s - 1 \in Offsets /\ s \in Slots /\ life'[s - 1] # "none"
    <2> SUFFICES ASSUME NEW s \in px'.shells
                 PROVE  s - 1 \in Offsets /\ s \in Slots /\ life'[s - 1] # "none"
      OBVIOUS
    <2>1. CASE s \in px.shells
      BY <1>0, <1>4, <2>1 DEF LifeInv
    <2>2. CASE s = ctrl.arg
      <3>1. s - 1 = th[t].i
        BY <1>0, <1>2, <1>5, <2>2, Numbers
      <3> QED
        BY <1>2, <1>4, <1>5, <2>2, <3>1
    <2> QED
      BY <1>1, <2>1, <2>2
  <1> QED
    BY <1>0, <1>1, <1>4, <1>8, <1>9, <1>10, <1>11 DEF LifeInv, Public

LEMMA Request ==
  ASSUME WlInv, OneCreator, ProxyHandle, SurfaceRequest
  PROVE  NumbersInv' /\ LifeInv'
  <1>0. TypesInv /\ ChannelInv /\ NumbersInv /\ LifeInv
    BY DEF WlInv
  <1>1. /\ Answers /\ proxy_pc = "handle" /\ ctrl.op \in {"show", "destroy"}
        /\ ctrl' = ctrl /\ px' = px
        /\ current' = [current EXCEPT ![ctrl.arg] = IF ctrl.op = "show" THEN NORMAL ELSE 0]
    BY <1>0, SurfaceRequestIs
  <1>2. PICK t \in Threads : /\ ctrl.op = "show" => th[t].pc = "shown"
                             /\ ctrl.op = "destroy" => th[t].pc = "gone"
                             /\ ~ resp_wl_efd
                             /\ ctrl.arg = th[t].i + 1 /\ ctrl.arg \in Slots
                             /\ \A u \in Threads \ {t} : ~ Waiting(u)
    BY <1>1, Served
  <1> DEFINE o == th[t].i
  <1>3. \A u \in Threads \ {t} : th[u].pc \notin CreatorPcs
    BY <1>0, <1>1, <1>2, Creator DEF CreatorPcs, AskPcs
  <1>4. th' = th /\ bs' = bs /\ life' = life /\ left' = left /\ sent' = sent
        /\ resp_wl_efd' = TRUE
    BY <1>1 DEF Answers, Apart
  <1>5. /\ o \in Offsets /\ o \in Nat /\ life[o] = IF ctrl.op = "show" THEN "heard" ELSE "gone"
    BY <1>0, <1>1, <1>2, Numbers DEF LifeInv, WindowThread
  <1>6. BeingMade = 0 /\ Begun = 0 /\ BeingMade' = 0 /\ Begun' = 0
    BY <1>1, <1>2, <1>3, <1>4 DEF BeingMade, Begun, Unnamed, CreatorPcs, AskPcs
  <1>7. \A u \in Threads : th'[u].pc \notin {"naming", "creating"}
    BY <1>1, <1>2, <1>3, <1>4 DEF CreatorPcs, AskPcs
  <1>8. NumbersInv'
    BY <1>0, <1>1, <1>4, <1>6, <1>7 DEF NumbersInv
  <1>9. /\ current'[o + 1] = IF ctrl.op = "show" THEN NORMAL ELSE 0
        /\ \A s \in Slots \ {o + 1} : current'[s] = current[s]
    BY <1>0, <1>1, <1>2 DEF TypesInv, CurrentType
  <1>10. ASSUME NEW u \in Threads
         PROVE  WindowThread(u)'
    <2>1. WindowThread(u)
      BY <1>0 DEF LifeInv
    <2>2. CASE u = t
      BY <1>1, <1>2, <1>4, <1>5, <1>9, <2>1, <2>2 DEF WindowThread, NORMAL
    <2>3. CASE u # t
      BY <1>3, <1>4, <2>1, <2>3 DEF WindowThread, CreatorPcs, AskPcs
    <2> QED
      BY <2>2, <2>3
  <1>11. ASSUME NEW a \in Offsets
         PROVE  WindowLife(a)'
    <2>1. WindowLife(a)
      BY <1>0 DEF LifeInv
    <2>2. a \in Nat
      BY <1>0, Numbers
    <2>3. CASE a = o
      BY <1>1, <1>2, <1>4, <1>5, <1>9, <2>1, <2>3 DEF WindowLife, NORMAL
    <2>4. CASE a # o
      <3>1. a + 1 # o + 1
        BY <1>5, <2>2, <2>4
      <3>2. a + 1 \in Slots => current'[a + 1] = current[a + 1]
        BY <1>9, <3>1
      <3>3. life[a] \in {"heard", "shown"} => a + 1 \in Slots
        BY <1>0, <2>1 DEF WindowLife, LifeInv
      <3> QED
        BY <1>1, <1>2, <1>4, <2>1, <3>2, <3>3 DEF WindowLife
    <2> QED
      BY <2>3, <2>4
  <1>12. ASSUME NEW s \in Slots, current'[s] # 0
         PROVE  s - 1 \in Offsets /\ Public(s - 1)'
    <2>1. CASE s = o + 1
      <3>1. s - 1 = o /\ ctrl.op = "show"
        BY <1>1, <1>5, <1>9, <1>12, <2>1
      <3> QED
        BY <1>4, <1>5, <3>1 DEF Public
    <2>2. CASE s # o + 1
      BY <1>0, <1>4, <1>9, <1>12, <2>2 DEF LifeInv, Public
    <2> QED
      BY <2>1, <2>2
  <1> QED
    BY <1>0, <1>1, <1>4, <1>8, <1>10, <1>11, <1>12 DEF LifeInv

LEMMA AskForShell ==
  ASSUME WlInv, OneCreator, PlainWindows, NEW t \in Threads, NEW o \in Offsets,
         AskShell(t, o)
  PROVE  NumbersInv' /\ LifeInv'
  <1>0. TypesInv /\ ChannelInv /\ NumbersInv /\ LifeInv
    BY DEF WlInv
  <1>1. /\ th[t].pc = "rest" /\ Sends(t, "shell", bs.surface_slot_map[o], "shell", o)
        /\ bs' = bs /\ life' = life /\ left' = left
    BY <1>0, AskShellIs DEF At
  <1>2. \A u \in Threads \ {t} : th[u].pc \notin CreatorPcs /\ th'[u] = th[u]
    <2>1. t \in Creators
      BY <1>0, AskShellIs
    <2> QED
      BY <1>0, <1>1, <2>1, CreatorsAre DEF Sends, To, Only
  <1>3. /\ th'[t].pc = "shell" /\ th'[t].i = o /\ ~ resp_wl_efd /\ ~ resp_wl_efd'
        /\ current' = current /\ px' = px /\ sent' = sent
    BY <1>0, <1>1 DEF Sends, To, Outside, ChannelInv
  <1>4. BeingMade = 0 /\ Begun = 0 /\ BeingMade' = 0 /\ Begun' = 0
    BY <1>1, <1>2, <1>3 DEF BeingMade, Begun, Unnamed, CreatorPcs, AskPcs
  <1>5. \A u \in Threads : th'[u].pc \notin {"naming", "creating"}
    BY <1>2, <1>3 DEF CreatorPcs, AskPcs
  <1>6. NumbersInv'
    BY <1>0, <1>1, <1>3, <1>4, <1>5 DEF NumbersInv
  <1>7. ASSUME NEW u \in Threads
        PROVE  WindowThread(u)'
    <2>1. WindowThread(u)
      BY <1>0 DEF LifeInv
    <2>2. CASE u = t
      BY AskShellIs, <1>0, <1>1, <1>3, <2>1, <2>2 DEF WindowThread
    <2>3. CASE u # t
      BY <1>1, <1>2, <1>3, <2>1, <2>3 DEF WindowThread, CreatorPcs, AskPcs
    <2> QED
      BY <2>2, <2>3
  <1>8. \A a \in Offsets : WindowLife(a)'
    BY <1>0, <1>1, <1>3 DEF LifeInv, WindowLife
  <1> QED
    BY <1>0, <1>1, <1>3, <1>6, <1>7, <1>8 DEF LifeInv, Public

LEMMA AskToShow ==
  ASSUME WlInv, OneCreator, PlainWindows, NEW t \in Threads, NEW o \in Offsets,
         Show(t, o)
  PROVE  NumbersInv' /\ LifeInv'
  <1>0. TypesInv /\ ChannelInv /\ NumbersInv /\ LifeInv
    BY DEF WlInv
  <1>1. /\ th[t].pc = "rest" /\ Sends(t, "show", bs.surface_slot_map[o], "shown", o)
        /\ bs' = bs /\ life' = life /\ left' = left
    BY <1>0, Windows, ShowIs DEF At
  <1>2. \A u \in Threads \ {t} : th[u].pc \notin CreatorPcs /\ th'[u] = th[u]
    <2>1. t \in Creators
      BY <1>0, Windows, ShowIs
    <2> QED
      BY <1>0, <1>1, <2>1, CreatorsAre DEF Sends, To, Only
  <1>3. /\ th'[t].pc = "shown" /\ th'[t].i = o /\ ~ resp_wl_efd /\ ~ resp_wl_efd'
        /\ current' = current /\ px' = px /\ sent' = sent
    BY <1>0, <1>1 DEF Sends, To, Outside, ChannelInv
  <1>4. BeingMade = 0 /\ Begun = 0 /\ BeingMade' = 0 /\ Begun' = 0
    BY <1>1, <1>2, <1>3 DEF BeingMade, Begun, Unnamed, CreatorPcs, AskPcs
  <1>5. \A u \in Threads : th'[u].pc \notin {"naming", "creating"}
    BY <1>2, <1>3 DEF CreatorPcs, AskPcs
  <1>6. NumbersInv'
    BY <1>0, <1>1, <1>3, <1>4, <1>5 DEF NumbersInv
  <1>7. ASSUME NEW u \in Threads
        PROVE  WindowThread(u)'
    <2>1. WindowThread(u)
      BY <1>0 DEF LifeInv
    <2>2. CASE u = t
      BY Windows, ShowIs, <1>0, <1>1, <1>3, <2>1, <2>2 DEF WindowThread
    <2>3. CASE u # t
      BY <1>1, <1>2, <1>3, <2>1, <2>3 DEF WindowThread, CreatorPcs, AskPcs
    <2> QED
      BY <2>2, <2>3
  <1>8. \A a \in Offsets : WindowLife(a)'
    BY <1>0, <1>1, <1>3 DEF LifeInv, WindowLife
  <1> QED
    BY <1>0, <1>1, <1>3, <1>6, <1>7, <1>8 DEF LifeInv, Public

LEMMA AskToDestroy ==
  ASSUME WlInv, OneCreator, PlainWindows, NEW t \in Threads, Destroy(t)
  PROVE  NumbersInv' /\ LifeInv'
  <1>0. TypesInv /\ ChannelInv /\ NumbersInv /\ LifeInv
    BY DEF WlInv
  <1>1. /\ th[t].pc = "destroy" /\ Sends(t, "destroy", bs.surface_slot_map[th[t].i], "gone", th[t].i)
        /\ bs' = bs /\ life' = life /\ left' = left
    BY <1>0, DestroyArg, DestroyIs DEF At
  <1>2. \A u \in Threads \ {t} : th[u].pc \notin CreatorPcs /\ th'[u] = th[u]
    BY <1>0, <1>1, Creator DEF Sends, To, Only, CreatorPcs, AskPcs
  <1>3. /\ th'[t].pc = "gone" /\ th'[t].i = th[t].i /\ ~ resp_wl_efd /\ ~ resp_wl_efd'
        /\ current' = current /\ px' = px /\ sent' = sent
    BY <1>0, <1>1 DEF Sends, To, Outside, ChannelInv
  <1>4. BeingMade = 0 /\ Begun = 0 /\ BeingMade' = 0 /\ Begun' = 0
    BY <1>1, <1>2, <1>3 DEF BeingMade, Begun, Unnamed, CreatorPcs, AskPcs
  <1>5. \A u \in Threads : th'[u].pc \notin {"naming", "creating"}
    BY <1>2, <1>3 DEF CreatorPcs, AskPcs
  <1>6. NumbersInv'
    BY <1>0, <1>1, <1>3, <1>4, <1>5 DEF NumbersInv
  <1>7. ASSUME NEW u \in Threads
        PROVE  WindowThread(u)'
    <2>1. WindowThread(u)
      BY <1>0 DEF LifeInv
    <2>2. CASE u = t
      BY <1>0, <1>1, <1>3, <2>1, <2>2 DEF WindowThread
    <2>3. CASE u # t
      BY <1>1, <1>2, <1>3, <2>1, <2>3 DEF WindowThread, CreatorPcs, AskPcs
    <2> QED
      BY <2>2, <2>3
  <1>8. \A a \in Offsets : WindowLife(a)'
    BY <1>0, <1>1, <1>3 DEF LifeInv, WindowLife
  <1> QED
    BY <1>0, <1>1, <1>3, <1>6, <1>7, <1>8 DEF LifeInv, Public

LEMMA AskSurface ==
  ASSUME WlInv, OneCreator, PlainWindows, NEW t \in Threads, Create(t)
  PROVE  NumbersInv' /\ LifeInv'
  <1>0. TypesInv /\ ChannelInv /\ NumbersInv /\ LifeInv
    BY DEF WlInv
  <1>1. /\ t \in Creators /\ th[t].pc = "rest" /\ bs.globals_fired /\ Uses("surfaces")
        /\ Sends(t, "create", 0, "creating", 0) /\ bs' = bs /\ life' = life
    BY <1>0, CreateIs DEF At
  <1>2. \A u \in Threads \ {t} : th[u].pc \notin CreatorPcs /\ th'[u] = th[u]
    BY <1>0, <1>1, CreatorsAre DEF Sends, To, Only
  <1>3. /\ th'[t].pc = "creating" /\ ~ resp_wl_efd /\ ~ resp_wl_efd'
        /\ current' = current /\ px' = px /\ sent' = sent
    BY <1>0, <1>1 DEF Sends, To, Outside, ChannelInv
  <1>4. BeingMade = 0 /\ Begun = 0 /\ BeingMade' = 0 /\ Begun' = 1
    BY <1>1, <1>2, <1>3 DEF BeingMade, Begun, Unnamed, CreatorPcs, AskPcs
  <1>5. left'["surfaces"] = left["surfaces"] - 1
    BY <1>1 DEF Uses
  <1>6. NumbersInv'
    <2>1. /\ bs'.next_surface + Begun' + left'["surfaces"] < PROXY_SURF_MAX
          /\ bs'.next_surface + Begun' + left'["surfaces"] <= SURF_MAP_MAX
          /\ px'.g_surf_next = bs'.next_surface + 1 + BeingMade'
      BY <1>0, <1>1, <1>3, <1>4, <1>5, Numbers DEF NumbersInv
    <2>2. \A u \in Threads : th'[u].pc # "naming"
      BY <1>2, <1>3 DEF CreatorPcs
    <2> QED
      BY <1>0, <1>1, <1>3, <2>1, <2>2 DEF NumbersInv
  <1>7. ASSUME NEW u \in Threads
        PROVE  WindowThread(u)'
    <2>1. WindowThread(u)
      BY <1>0 DEF LifeInv
    <2>2. CASE u = t
      BY <1>1, <1>3, <2>1, <2>2 DEF WindowThread
    <2>3. CASE u # t
      BY <1>1, <1>2, <1>3, <2>1, <2>3 DEF WindowThread, CreatorPcs, AskPcs
    <2> QED
      BY <2>2, <2>3
  <1>8. \A a \in Offsets : WindowLife(a)'
    BY <1>0, <1>1, <1>3 DEF LifeInv, WindowLife
  <1> QED
    BY <1>0, <1>1, <1>3, <1>6, <1>7, <1>8 DEF LifeInv, Public

LEMMA HaveSurface ==
  ASSUME WlInv, OneCreator, PlainWindows, NEW t \in Threads, Created(t)
  PROVE  NumbersInv' /\ LifeInv'
  <1>0. TypesInv /\ ChannelInv /\ NumbersInv /\ LifeInv
    BY DEF WlInv
  <1>1. /\ th[t].pc = "creating" /\ Receives(t, "creating", "naming", ctrl.result)
        /\ bs' = bs /\ life' = life
    BY <1>0, CreatedIs DEF Receives, At
  <1>2. \A u \in Threads \ {t} : th[u].pc \notin CreatorPcs /\ th'[u] = th[u]
    BY <1>0, <1>1, Creator DEF Receives, To, Only, CreatorPcs, AskPcs
  <1>3. /\ th'[t].pc = "naming" /\ th'[t].n = ctrl.result /\ resp_wl_efd /\ ~ resp_wl_efd'
        /\ current' = current /\ px' = px /\ sent' = sent /\ left' = left
    BY <1>1 DEF Receives, To, Outside
  <1>4. BeingMade = 1 /\ Begun = 1 /\ BeingMade' = 1 /\ Begun' = 1
    BY <1>1, <1>3 DEF BeingMade, Begun, Unnamed
  <1>5. ASSUME NEW u \in Threads
        PROVE  /\ th'[u].pc = "naming" => th'[u].n = px'.g_surf_next - 1
               /\ th'[u].pc = "creating" /\ resp_wl_efd' =>
                    ctrl'.result = px'.g_surf_next - 1
    <2>1. CASE u = t
      BY <1>0, <1>1, <1>3, <2>1 DEF NumbersInv
    <2>2. CASE u # t
      BY <1>2, <1>3, <2>2 DEF CreatorPcs, AskPcs
    <2> QED
      BY <2>1, <2>2
  <1>6. NumbersInv'
    BY <1>0, <1>1, <1>3, <1>4, <1>5 DEF NumbersInv
  <1>7. ASSUME NEW u \in Threads
        PROVE  WindowThread(u)'
    <2>1. WindowThread(u)
      BY <1>0 DEF LifeInv
    <2>2. CASE u = t
      BY <1>0, <1>1, <1>3, <2>1, <2>2 DEF WindowThread
    <2>3. CASE u # t
      BY <1>1, <1>2, <1>3, <2>1, <2>3 DEF WindowThread, CreatorPcs, AskPcs
    <2> QED
      BY <2>2, <2>3
  <1>8. ASSUME NEW a \in Offsets
        PROVE  WindowLife(a)'
    <2>1. WindowLife(a)
      BY <1>0 DEF LifeInv
    <2>2. ~ \E u \in Threads : th[u].pc = "shown"
      BY <1>1, <1>2 DEF CreatorPcs, AskPcs
    <2> QED
      BY <1>1, <1>3, <2>1, <2>2 DEF WindowLife
  <1> QED
    BY <1>0, <1>1, <1>3, <1>6, <1>7, <1>8 DEF LifeInv, Public

LEMMA WindowAnswered ==
  ASSUME WlInv, OneCreator, PlainWindows, NEW t \in Threads,
         NEW state \in {"shell", "shown", "late", "gone"}, Answered(t, state, state)
  PROVE  NumbersInv' /\ LifeInv'
  <1>0. TypesInv /\ ChannelInv /\ NumbersInv /\ LifeInv
    BY DEF WlInv
  <1> DEFINE o == th[t].i
  <1>1. /\ th[t].pc = state /\ Receives(t, state, "rest", 0)
        /\ bs' = bs /\ life' = [life EXCEPT ![o] = state]
    BY <1>0, AnsweredIs DEF Receives, At
  <1>2. \A u \in Threads \ {t} : th[u].pc \notin CreatorPcs /\ th'[u] = th[u]
    BY <1>0, <1>1, Creator DEF Receives, To, Only, CreatorPcs, AskPcs
  <1>3. /\ th'[t].pc = "rest" /\ resp_wl_efd /\ ~ resp_wl_efd' /\ ctrl' = ctrl
        /\ current' = current /\ px' = px /\ sent' = sent /\ left' = left
    BY <1>1 DEF Receives, To, Outside
  <1>4. BeingMade = 0 /\ Begun = 0 /\ BeingMade' = 0 /\ Begun' = 0
    BY <1>1, <1>2, <1>3 DEF BeingMade, Begun, Unnamed, CreatorPcs, AskPcs
  <1>5. /\ o \in Offsets /\ o \in Nat
        /\ state = "shell" => life[o] = "made" /\ o + 1 \in px.shells
        /\ state = "shown" => life[o] = "heard" /\ current[o + 1] # 0
        /\ state = "gone" => life[o] = "gone"
        /\ state # "late"
    <2>1. WindowThread(t)
      BY <1>0 DEF LifeInv
    <2> QED
      BY <1>0, <1>1, <1>3, <2>1, Numbers DEF WindowThread
  <1>6. life \in LifeType /\ life'[o] = state
        /\ \A a \in Offsets \ {o} : life'[a] = life[a]
    BY <1>0, <1>1, <1>5 DEF TypesInv, LifeType
  <1>7. \A u \in Threads : th'[u].pc \notin WindowPcs
    BY <1>2, <1>3 DEF WindowPcs, CreatorPcs, AskPcs
  <1>8. NumbersInv'
    <2>1. \A a \in Offsets : life'[a] = "none" <=> life[a] = "none"
      BY <1>5, <1>6
    <2>2. \A a \in Offsets : life'[a] = "none" <=> a >= bs.next_surface
      BY <1>0, <2>1 DEF NumbersInv
    <2>3. \A u \in Threads : th'[u].pc \notin {"naming", "creating"}
      BY <1>7 DEF WindowPcs, AskPcs
    <2> QED
      BY <1>0, <1>1, <1>3, <1>4, <2>2, <2>3 DEF NumbersInv
  <1>9. \A u \in Threads : WindowThread(u)'
    BY <1>7 DEF WindowThread, WindowPcs, AskPcs
  <1>10. ASSUME NEW a \in Offsets
         PROVE  WindowLife(a)'
    <2>1. WindowLife(a)
      BY <1>0 DEF LifeInv
    <2>2. CASE a = o
      BY <1>1, <1>3, <1>5, <1>6, <2>1, <2>2 DEF WindowLife
    <2>3. CASE a # o
      <3>1. ~ (life[a] = "heard" /\ current[a + 1] # 0)
        <4>1. ASSUME NEW u \in Threads, th[u].pc = "shown" /\ th[u].i = a
              PROVE  FALSE
          BY <1>1, <1>2, <2>3, <4>1 DEF CreatorPcs, AskPcs
        <4> QED
          BY <2>1, <4>1 DEF WindowLife
      <3> QED
        BY <1>1, <1>3, <1>6, <2>1, <2>3, <3>1 DEF WindowLife
    <2> QED
      BY <2>2, <2>3
  <1>11. \A a \in Offsets : /\ Public(a) => Public(a)'
                            /\ life[a] # "none" => life'[a] # "none"
    BY <1>5, <1>6 DEF Public
  <1> QED
    BY <1>0, <1>1, <1>3, <1>8, <1>9, <1>10, <1>11 DEF LifeInv

LEMMA Number ==
  ASSUME WlInv, OneCreator, PlainWindows, NEW t \in Threads, NameSurface(t)
  PROVE  NumbersInv' /\ LifeInv'
  <1>0. TypesInv /\ ChannelInv /\ NumbersInv /\ LifeInv
    BY DEF WlInv
  <1> DEFINE m == bs.next_surface
  <1>1. m \in Offsets
    BY NamingArg
  <1>2. /\ th[t].pc = "naming" /\ To(t, "rest", 0, 0) /\ Stays
        /\ bs' \in BsType /\ bs'.next_surface = m + 1
        /\ bs'.surface_slot_map[m] = th[t].n
        /\ \A o \in Offsets \ {m} :
             bs'.surface_slot_map[o] = bs.surface_slot_map[o] /\ life'[o] = life[o]
        /\ ListenersSame /\ SeatSame /\ life'[m] = "made" /\ left' = left
    BY <1>0, <1>1, NameSurfaceIs DEF At
  <1>3. \A u \in Threads \ {t} : th[u].pc \notin CreatorPcs /\ th'[u] = th[u]
    BY <1>0, <1>2, Creator DEF To, Only, CreatorPcs, AskPcs
  <1>4. /\ th'[t].pc = "rest" /\ ctrl' = ctrl /\ resp_wl_efd' = resp_wl_efd
        /\ current' = current /\ px' = px /\ sent' = sent
    BY <1>2 DEF Stays, To, Outside
  <1>5. BeingMade = 1 /\ Begun = 1 /\ BeingMade' = 0 /\ Begun' = 0
    BY <1>2, <1>3, <1>4 DEF BeingMade, Begun, Unnamed, CreatorPcs, AskPcs
  <1>6. th[t].n = m + 1
    BY <1>0, <1>2, <1>5, Numbers DEF NumbersInv
  <1>7. \A u \in Threads : th'[u].pc \notin WindowPcs
    BY <1>3, <1>4 DEF WindowPcs, CreatorPcs, AskPcs
  <1>8. life[m] = "none"
    BY <1>0, <1>1, Numbers DEF NumbersInv
  <1>9. NumbersInv'
    <2>1. /\ bs'.next_surface + Begun' + left'["surfaces"] < PROXY_SURF_MAX
          /\ bs'.next_surface + Begun' + left'["surfaces"] <= SURF_MAP_MAX
          /\ px'.g_surf_next = bs'.next_surface + 1 + BeingMade'
      <3> HIDE DEF m
      <3>1. /\ bs'.next_surface = m + 1 /\ m = bs.next_surface /\ left' = left /\ px' = px
        BY <1>2, <1>4 DEF m
      <3> QED
        BY <1>0, <1>5, <3>1, Numbers DEF NumbersInv
    <2>2. ASSUME NEW o \in Offsets
          PROVE  /\ o < bs'.next_surface => bs'.surface_slot_map[o] = o + 1
                 /\ life'[o] = "none" <=> o >= bs'.next_surface
      <3>1. o \in Nat /\ m \in Nat
        BY <1>0, Numbers
      <3>2. CASE o = m
        BY <1>2, <1>6, <3>1, <3>2
      <3>3. CASE o # m
        <4>1. (o < m + 1 <=> o < m) /\ (o >= m + 1 <=> o >= m)
          BY <3>1, <3>3
        <4> QED
          BY <1>0, <1>2, <3>3, <4>1 DEF NumbersInv
      <3> QED
        BY <3>2, <3>3
    <2>3. \A u \in Threads : th'[u].pc \notin {"naming", "creating"}
      BY <1>7 DEF WindowPcs, AskPcs
    <2> QED
      BY <2>1, <2>2, <2>3 DEF NumbersInv
  <1>10. \A u \in Threads : WindowThread(u)'
    BY <1>7 DEF WindowThread, WindowPcs, AskPcs
  <1>11. ASSUME NEW a \in Offsets
         PROVE  WindowLife(a)'
    <2>1. WindowLife(a)
      BY <1>0 DEF LifeInv
    <2>2. CASE a = m
      BY <1>2, <1>8, <2>1, <2>2 DEF WindowLife, ListenersSame
    <2>3. CASE a # m
      <3>1. ~ \E u \in Threads : th[u].pc = "shown"
        BY <1>2, <1>3 DEF CreatorPcs, AskPcs
      <3> QED
        BY <1>2, <1>4, <2>1, <2>3, <3>1 DEF WindowLife, ListenersSame
    <2> QED
      BY <2>2, <2>3
  <1>12. \A a \in Offsets : /\ Public(a) => Public(a)'
                            /\ life[a] # "none" => life'[a] # "none"
    BY <1>2, <1>8 DEF Public
  <1>13. bs'.globals_fired /\ bs'.next_surface > 0
    <2>1. bs.globals_fired
      BY <1>0, <1>2 DEF LifeInv, WindowThread
    <2> QED
      BY <1>0, <1>2, <2>1, Numbers DEF SeatSame
  <1> QED
    BY <1>0, <1>4, <1>9, <1>10, <1>11, <1>12, <1>13 DEF LifeInv

LEMMA Listener ==
  ASSUME WlInv, OneCreator, PlainWindows, NEW t \in Threads, NEW o \in Offsets,
         AddListener(t, o)
  PROVE  NumbersInv' /\ LifeInv'
  <1>0. TypesInv /\ ChannelInv /\ NumbersInv /\ LifeInv
    BY DEF WlInv
  <1>1. /\ t \in Creators /\ th[t].pc = "rest" /\ life[o] = "shell" /\ Stays /\ th' = th
        /\ bs'.ss_listeners = [bs.ss_listeners EXCEPT ![o] = o] /\ bs'.ss_listener = o
        /\ NumbersSame /\ SeatSame /\ life' = [life EXCEPT ![o] = "heard"]
        /\ left'["surfaces"] = left["surfaces"]
    BY <1>0, Windows, AddListenerIs DEF At, Uses, Limited
  <1>2. \A u \in Threads \ {t} : th[u].pc \notin CreatorPcs /\ th'[u] = th[u]
    BY <1>0, <1>1, CreatorsAre DEF To, Only
  <1>3. /\ ctrl' = ctrl /\ resp_wl_efd' = resp_wl_efd
        /\ current' = current /\ px' = px /\ sent' = sent
    BY <1>1 DEF Stays, Outside
  <1>4. BeingMade = 0 /\ Begun = 0 /\ BeingMade' = 0 /\ Begun' = 0
    BY <1>1, <1>2, <1>3 DEF BeingMade, Begun, Unnamed, CreatorPcs, AskPcs, To
  <1>5. life'[o] = "heard" /\ \A a \in Offsets \ {o} : life'[a] = life[a]
    BY <1>0, <1>1 DEF TypesInv, LifeType
  <1>6. \A u \in Threads : th'[u].pc \notin {"naming", "creating"}
    BY <1>1, <1>2 DEF CreatorPcs, AskPcs, To
  <1>7. NumbersInv'
    BY <1>0, <1>1, <1>3, <1>4, <1>5, <1>6 DEF NumbersInv, NumbersSame
  <1>8. ASSUME NEW u \in Threads
        PROVE  WindowThread(u)'
    <2>1. WindowThread(u)
      BY <1>0 DEF LifeInv
    <2>2. CASE u = t
      BY <1>1, <1>5, <2>1, <2>2 DEF WindowThread, To
    <2>3. CASE u # t
      BY <1>2, <2>1, <2>3 DEF WindowThread, CreatorPcs, AskPcs
    <2> QED
      BY <2>2, <2>3
  <1>9. /\ bs'.ss_listeners[o] = o
        /\ \A a \in Offsets \ {o} : bs'.ss_listeners[a] = bs.ss_listeners[a]
    BY <1>0, <1>1 DEF TypesInv, BsType
  <1>10. ASSUME NEW a \in Offsets
         PROVE  WindowLife(a)'
    <2>1. WindowLife(a)
      BY <1>0 DEF LifeInv
    <2>2. CASE a = o
      <3>1. current[o + 1] = 0
        <4>1. o + 1 \in px.shells /\ ~ Public(o)
          BY <1>0, <1>1 DEF LifeInv, WindowLife, Public
        <4>2. o + 1 \in Slots /\ (o + 1) - 1 = o
          BY <1>0, <4>1, Numbers DEF LifeInv
        <4> QED
          BY <1>0, <4>1, <4>2 DEF LifeInv
      <3> QED
        BY <1>1, <1>3, <1>5, <1>9, <2>1, <2>2, <3>1 DEF WindowLife
    <2>3. CASE a # o
      <3>1. ~ (life[a] = "heard" /\ current[a + 1] # 0)
        <4>1. ~ \E u \in Threads : th[u].pc = "shown"
          BY <1>1, <1>2 DEF CreatorPcs, AskPcs
        <4> QED
          BY <2>1, <4>1 DEF WindowLife
      <3>2. life[a] # "gone"
        BY <1>0, Windows, AddListenerIs DEF NoneGone
      <3> QED
        BY <1>1, <1>3, <1>5, <1>9, <2>1, <2>3, <3>1, <3>2 DEF WindowLife
    <2> QED
      BY <2>2, <2>3
  <1>11. \A a \in Offsets : /\ Public(a) => Public(a)'
                            /\ life[a] # "none" => life'[a] # "none"
    BY <1>1, <1>5 DEF Public
  <1> QED
    BY <1>0, <1>1, <1>3, <1>7, <1>8, <1>10, <1>11 DEF LifeInv, NumbersSame, SeatSame

LEMMA Drop ==
  ASSUME WlInv, OneCreator, PlainWindows, NEW t \in Threads, NEW o \in Offsets,
         DropShell(t, o)
  PROVE  NumbersInv' /\ LifeInv'
  <1>0. TypesInv /\ ChannelInv /\ NumbersInv /\ LifeInv
    BY DEF WlInv
  <1>1. /\ t \in Creators /\ th[t].pc = "rest" /\ life[o] = "shown" /\ Stays /\ To(t, "destroy", o, 0)
        /\ bs'.ss_listeners = [bs.ss_listeners EXCEPT ![o] = None] /\ bs'.ss_listener = None
        /\ NumbersSame /\ SeatSame /\ life' = [life EXCEPT ![o] = "gone"]
        /\ left'["surfaces"] = left["surfaces"]
    BY <1>0, DropShellIs DEF At, Uses, Limited
  <1>2. \A u \in Threads \ {t} : th[u].pc \notin CreatorPcs /\ th'[u] = th[u]
    BY <1>0, <1>1, CreatorsAre DEF To, Only
  <1>3. /\ ctrl' = ctrl /\ resp_wl_efd' = resp_wl_efd
        /\ current' = current /\ px' = px /\ sent' = sent
    BY <1>1 DEF Stays, Outside
  <1>4. BeingMade = 0 /\ Begun = 0 /\ BeingMade' = 0 /\ Begun' = 0
    BY <1>1, <1>2, <1>3 DEF BeingMade, Begun, Unnamed, CreatorPcs, AskPcs, To
  <1>5. life'[o] = "gone" /\ \A a \in Offsets \ {o} : life'[a] = life[a]
    BY <1>0, <1>1 DEF TypesInv, LifeType
  <1>6. \A u \in Threads : th'[u].pc \notin {"naming", "creating"}
    BY <1>1, <1>2 DEF CreatorPcs, AskPcs, To
  <1>7. NumbersInv'
    BY <1>0, <1>1, <1>3, <1>4, <1>5, <1>6 DEF NumbersInv, NumbersSame
  <1>8. ASSUME NEW u \in Threads
        PROVE  WindowThread(u)'
    <2>1. WindowThread(u)
      BY <1>0 DEF LifeInv
    <2>2. CASE u = t
      BY <1>1, <1>5, <2>1, <2>2 DEF WindowThread, To
    <2>3. CASE u # t
      BY <1>2, <2>1, <2>3 DEF WindowThread, CreatorPcs, AskPcs
    <2> QED
      BY <2>2, <2>3
  <1>9. /\ bs'.ss_listeners[o] = None
        /\ \A a \in Offsets \ {o} : bs'.ss_listeners[a] = bs.ss_listeners[a]
    BY <1>0, <1>1 DEF TypesInv, BsType
  <1>10. ASSUME NEW a \in Offsets
         PROVE  WindowLife(a)'
    <2>1. WindowLife(a)
      BY <1>0 DEF LifeInv
    <2>2. CASE a = o
      BY <1>1, <1>3, <1>5, <1>9, <2>1, <2>2 DEF WindowLife
    <2>3. CASE a # o
      <3>1. ~ (life[a] = "heard" /\ current[a + 1] # 0)
        <4>1. ~ \E u \in Threads : th[u].pc = "shown"
          BY <1>1, <1>2 DEF CreatorPcs, AskPcs
        <4> QED
          BY <2>1, <4>1 DEF WindowLife
      <3> QED
        BY <1>1, <1>3, <1>5, <1>9, <2>1, <2>3, <3>1 DEF WindowLife
    <2> QED
      BY <2>2, <2>3
  <1>11. \A a \in Offsets : /\ Public(a) => Public(a)'
                            /\ life[a] # "none" => life'[a] # "none"
    BY <1>1, <1>5 DEF Public
  <1> QED
    BY <1>0, <1>1, <1>3, <1>7, <1>8, <1>10, <1>11 DEF LifeInv, NumbersSame, SeatSame

(* Every step keeps them.                                                   *)
LEMMA WindowsStep ==
  ASSUME WlInv, OneCreator, PlainWindows, [Next]_vars
  PROVE  NumbersInv' /\ LifeInv'
  <1>0. TypesInv /\ ChannelInv /\ NumbersInv /\ LifeInv
    BY DEF WlInv
  <1>1. ASSUME UNCHANGED vars
        PROVE  NumbersInv' /\ LifeInv'
    <2>1. WindowsSame
      BY <1>0, <1>1
      DEF vars, channelVars, worldVars, proxyVars, stubVars, WindowsSame, WindowPcs,
          AskPcs, At
    <2>2. /\ resp_wl_efd' = resp_wl_efd \/ \A u \in Threads : th[u].pc \notin AskPcs
          /\ NumbersSame /\ ListenersSame /\ (bs.globals_fired => bs'.globals_fired)
          /\ px'.g_surf_next = px.g_surf_next /\ px'.shells = px.shells
          /\ ctrl'.result = ctrl.result /\ left'["surfaces"] = left["surfaces"]
          /\ life' = life /\ current' = current /\ sent' = sent
      BY <1>0, <1>1
      DEF vars, channelVars, worldVars, proxyVars, stubVars, NumbersSame, ListenersSame,
          SeatSame
    <2>3. sent' > 0 => bs.next_surface > 0
      BY <1>0, <2>2 DEF LifeInv
    <2> QED
      BY <1>0, <2>1, <2>2, <2>3, WindowsKept
  <1>2. ASSUME SendKey
        PROVE  NumbersInv' /\ LifeInv'
    <2>1. WindowsSame
      BY <1>0, <1>2, SendKeyIs DEF Commandless, Apart, WindowsSame
    <2>2. /\ resp_wl_efd' = resp_wl_efd /\ bs' = bs /\ ctrl' = ctrl /\ px' = px
          /\ left'["surfaces"] = left["surfaces"] /\ life' = life /\ current' = current
          /\ NumbersSame /\ ListenersSame
      BY <1>0, <1>2, SendKeyIs
      DEF Commandless, Apart, Uses, Limited, NumbersSame, ListenersSame
    <2>3. bs.next_surface > 0
      <3>1. PICK s \in Slots : current[s] # 0
        BY <1>0, <1>2, SendKeyIs
      <3>2. s - 1 \in Offsets /\ life[s - 1] # "none"
        BY <1>0, <3>1 DEF LifeInv, Public
      <3>3. s - 1 \in Nat /\ s - 1 < bs.next_surface
        BY <3>2, Windows
      <3> QED
        BY <1>0, <3>3 DEF TypesInv, BsType
    <2> QED
      BY <1>0, <2>1, <2>2, <2>3, WindowsKept
  <1>3. ASSUME NEW s \in Slots, NEW v \in States, SendState(s, v)
        PROVE  NumbersInv' /\ LifeInv'
    <2>1. WindowsSame
      BY <1>0, <1>3, SendStateIs DEF Commandless, Apart, WindowsSame
    <2>2. /\ resp_wl_efd' = resp_wl_efd /\ bs' = bs /\ ctrl' = ctrl /\ px' = px
          /\ left'["surfaces"] = left["surfaces"] /\ life' = life /\ sent' = sent
          /\ NumbersSame /\ ListenersSame
      BY <1>0, <1>3, SendStateIs
      DEF Commandless, Apart, Uses, Limited, NumbersSame, ListenersSame
    <2>3. \A r \in Slots : current'[r] = 0 <=> current[r] = 0
      BY <1>0, <1>3, SendStateIs DEF TypesInv, CurrentType, States, NORMAL, FULLSCREEN
    <2>4. sent' > 0 => bs.next_surface > 0
      BY <1>0, <2>2 DEF LifeInv
    <2> QED
      BY <1>0, <2>1, <2>2, <2>3, <2>4, WindowsKept
  <1>4. ASSUME EglReads \/ ProxyPrepare \/ ProxyPoll \/ ProxyDispatch \/ Roundtrip
        PROVE  NumbersInv' /\ LifeInv'
    <2>1. WindowsSame
      BY <1>0, <1>4, ReadsIs DEF Commandless, Apart, WindowsSame, WindowPcs, AskPcs, At
    <2>2. /\ resp_wl_efd' = resp_wl_efd \/ \A u \in Threads : th[u].pc \notin AskPcs
          /\ NumbersSame /\ ListenersSame /\ (bs.globals_fired => bs'.globals_fired)
          /\ px'.g_surf_next = px.g_surf_next /\ px'.shells = px.shells
          /\ ctrl'.result = ctrl.result /\ left'["surfaces"] = left["surfaces"]
          /\ life' = life /\ current' = current /\ sent' = sent
      BY <1>0, <1>4, ReadsIs DEF Commandless, Apart, NumbersSame, ListenersSame, SeatSame
    <2>3. sent' > 0 => bs.next_surface > 0
      BY <1>0, <2>2 DEF LifeInv
    <2> QED
      BY <1>0, <2>1, <2>2, <2>3, WindowsKept
  <1>5. ASSUME Hear
        PROVE  NumbersInv' /\ LifeInv'
    <2>1. WindowsSame
      BY <1>0, <1>5, HearIs DEF Commandless, Apart, WindowsSame
    <2>2. px'.g_surf_next = px.g_surf_next /\ px'.shells = px.shells
      <3> DEFINE e == Head(queue)
      <3>1. e \in Event /\ px' = Listen(px, e) /\ px \in PxType
            /\ Len(px.evts) <= INPUT_EVT_MAX
        BY <1>0, <1>5, HearIs DEF TypesInv
      <3> HIDE DEF e
      <3> QED
        BY <3>1, ListenIs
    <2>3. /\ resp_wl_efd' = resp_wl_efd /\ bs' = bs /\ ctrl' = ctrl /\ left' = left
          /\ life' = life /\ current' = current /\ sent' = sent
      BY <1>0, <1>5, HearIs DEF Commandless, Apart
    <2>4. NumbersSame /\ ListenersSame /\ (sent' > 0 => bs.next_surface > 0)
      BY <1>0, <2>3 DEF NumbersSame, ListenersSame, LifeInv
    <2> QED
      BY <1>0, <2>1, <2>2, <2>3, <2>4, WindowsKept
  <1>6. ASSUME ProxyCollect
        PROVE  NumbersInv' /\ LifeInv'
    <2>1. WindowsSame
      BY <1>0, <1>6, Windows, ProxyCollectIs DEF Answers, Apart, WindowsSame
    <2>2. \A u \in Threads : th[u].pc \notin AskPcs
      <3>1. ctrl.op = "roundtrip"
        BY <1>0, <1>6, Windows, ProxyCollectIs DEF ChannelInv
      <3>2. proxy_pc = "collect"
        BY <1>0, <1>6, Windows, ProxyCollectIs
      <3>3. PICK t \in Threads : th[t].pc = "await"
            /\ \A u \in Threads \ {t} : ~ Waiting(u)
        BY <3>1, <3>2, Served
      <3> QED
        BY <3>3 DEF Waiting, AskPcs
    <2>3. /\ bs' = bs /\ ctrl' = ctrl /\ px'.g_surf_next = px.g_surf_next
          /\ px'.shells = px.shells /\ left' = left
          /\ life' = life /\ current' = current /\ sent' = sent
      BY <1>0, <1>6, Windows, ProxyCollectIs DEF Answers, Apart
    <2>4. NumbersSame /\ ListenersSame /\ (sent' > 0 => bs.next_surface > 0)
      BY <1>0, <2>3 DEF NumbersSame, ListenersSame, LifeInv
    <2> QED
      BY <1>0, <2>1, <2>2, <2>3, <2>4, WindowsKept
  <1>7. ASSUME ProxyHandle, CreateSurface
        PROVE  NumbersInv' /\ LifeInv'
    BY <1>7, MakeSurface
  <1>8. ASSUME ProxyHandle, GetShellSurface
        PROVE  NumbersInv' /\ LifeInv'
    BY <1>8, MakeShell
  <1>9. ASSUME ProxyHandle, SurfaceRequest
        PROVE  NumbersInv' /\ LifeInv'
    BY <1>9, Request
  <1>10. ASSUME NEW t \in Threads, Create(t)
        PROVE  NumbersInv' /\ LifeInv'
    BY <1>10, AskSurface
  <1>11. ASSUME NEW t \in Threads, NEW o \in Offsets, AskShell(t, o)
        PROVE  NumbersInv' /\ LifeInv'
    BY <1>11, AskForShell
  <1>12. ASSUME NEW t \in Threads, NEW o \in Offsets, Show(t, o)
        PROVE  NumbersInv' /\ LifeInv'
    BY <1>12, AskToShow
  <1>13. ASSUME NEW t \in Threads, Destroy(t)
        PROVE  NumbersInv' /\ LifeInv'
    BY <1>13, AskToDestroy
  <1>14. ASSUME NEW t \in Threads, Collect(t)
        PROVE  NumbersInv' /\ LifeInv'
    <2>1. WindowsSame
      BY <1>0, <1>14, CollectIs
      DEF Sends, To, Only, Outside, WindowsSame, WindowPcs, AskPcs, At
    <2>2. /\ resp_wl_efd' = resp_wl_efd \/ \A u \in Threads : th[u].pc \notin AskPcs
          /\ NumbersSame /\ ListenersSame /\ (bs.globals_fired => bs'.globals_fired)
          /\ px'.g_surf_next = px.g_surf_next /\ px'.shells = px.shells
          /\ ctrl'.result = ctrl.result /\ left'["surfaces"] = left["surfaces"]
          /\ life' = life /\ current' = current /\ sent' = sent
      BY <1>0, <1>14, CollectIs
      DEF Sends, To, Only, Outside, NumbersSame, ListenersSame, SeatSame
    <2>3. sent' > 0 => bs.next_surface > 0
      BY <1>0, <2>2 DEF LifeInv
    <2> QED
      BY <1>0, <2>1, <2>2, <2>3, WindowsKept
  <1>15. ASSUME NEW t \in Threads, Created(t)
        PROVE  NumbersInv' /\ LifeInv'
    BY <1>15, HaveSurface
  <1>16. ASSUME NEW t \in Threads, RoundtripDone(t)
        PROVE  NumbersInv' /\ LifeInv'
    <2>1. WindowsSame
      BY <1>0, <1>16, RoundtripDoneIs
      DEF Receives, To, Only, At, WindowsSame, WindowPcs, AskPcs
    <2>2. \A u \in Threads : th[u].pc \notin AskPcs
      BY <1>0, <1>16, RoundtripDoneIs DEF Receives, At, ChannelInv, Waiting, AskPcs
    <2>3. /\ bs' = bs /\ ctrl' = ctrl /\ px' = px /\ left' = left
          /\ life' = life /\ current' = current /\ sent' = sent
      BY <1>0, <1>16, RoundtripDoneIs DEF Receives, Outside
    <2>4. NumbersSame /\ ListenersSame /\ (sent' > 0 => bs.next_surface > 0)
      BY <1>0, <2>3 DEF NumbersSame, ListenersSame, LifeInv
    <2> QED
      BY <1>0, <2>1, <2>2, <2>3, <2>4, WindowsKept
  <1>17. ASSUME NEW t \in Threads, NEW state \in {"shell", "shown", "late", "gone"},
                Answered(t, state, state)
        PROVE  NumbersInv' /\ LifeInv'
    BY <1>17, WindowAnswered
  <1>18. ASSUME NEW t \in Threads, NameSurface(t)
        PROVE  NumbersInv' /\ LifeInv'
    BY <1>18, Number
  <1>19. ASSUME NEW t \in Threads, NEW o \in Offsets, AddListener(t, o)
        PROVE  NumbersInv' /\ LifeInv'
    BY <1>19, Listener
  <1>20. ASSUME NEW t \in Threads, NEW o \in Offsets, DropShell(t, o)
        PROVE  NumbersInv' /\ LifeInv'
    BY <1>20, Drop
  <1>21. ASSUME NEW t \in Threads, Frame(t)
        PROVE  NumbersInv' /\ LifeInv'
    <2>1. WindowsSame
      BY <1>0, <1>21, FrameIs
      DEF Little, Stays, Outside, Only, WindowsSame, WindowPcs, AskPcs, At
    <2>2. /\ resp_wl_efd' = resp_wl_efd \/ \A u \in Threads : th[u].pc \notin AskPcs
          /\ NumbersSame /\ ListenersSame /\ (bs.globals_fired => bs'.globals_fired)
          /\ px'.g_surf_next = px.g_surf_next /\ px'.shells = px.shells
          /\ ctrl'.result = ctrl.result /\ left'["surfaces"] = left["surfaces"]
          /\ life' = life /\ current' = current /\ sent' = sent
      BY <1>0, <1>21, FrameIs
      DEF Little, Stays, Outside, Only, NumbersSame, ListenersSame, SeatSame
    <2>3. sent' > 0 => bs.next_surface > 0
      BY <1>0, <2>2 DEF LifeInv
    <2> QED
      BY <1>0, <2>1, <2>2, <2>3, WindowsKept
  <1>22. ASSUME NEW t \in Threads, Attach(t)
        PROVE  NumbersInv' /\ LifeInv'
    <2>1. WindowsSame
      BY <1>0, <1>22, AttachIs
      DEF Little, Stays, Outside, Only, WindowsSame, WindowPcs, AskPcs, At
    <2>2. /\ resp_wl_efd' = resp_wl_efd \/ \A u \in Threads : th[u].pc \notin AskPcs
          /\ NumbersSame /\ ListenersSame /\ (bs.globals_fired => bs'.globals_fired)
          /\ px'.g_surf_next = px.g_surf_next /\ px'.shells = px.shells
          /\ ctrl'.result = ctrl.result /\ left'["surfaces"] = left["surfaces"]
          /\ life' = life /\ current' = current /\ sent' = sent
      BY <1>0, <1>22, AttachIs
      DEF Little, Stays, Outside, Only, NumbersSame, ListenersSame, SeatSame
    <2>3. sent' > 0 => bs.next_surface > 0
      BY <1>0, <2>2 DEF LifeInv
    <2> QED
      BY <1>0, <2>1, <2>2, <2>3, WindowsKept
  <1>23. ASSUME NEW t \in Threads, ListenToRegistry(t)
        PROVE  NumbersInv' /\ LifeInv'
    <2>1. WindowsSame
      BY <1>0, <1>23, ListenToRegistryIs
      DEF Little, Stays, Outside, Only, WindowsSame, WindowPcs, AskPcs, At
    <2>2. /\ resp_wl_efd' = resp_wl_efd \/ \A u \in Threads : th[u].pc \notin AskPcs
          /\ NumbersSame /\ ListenersSame /\ (bs.globals_fired => bs'.globals_fired)
          /\ px'.g_surf_next = px.g_surf_next /\ px'.shells = px.shells
          /\ ctrl'.result = ctrl.result /\ left'["surfaces"] = left["surfaces"]
          /\ life' = life /\ current' = current /\ sent' = sent
      BY <1>0, <1>23, ListenToRegistryIs
      DEF Little, Stays, Outside, Only, NumbersSame, ListenersSame, SeatSame
    <2>3. sent' > 0 => bs.next_surface > 0
      BY <1>0, <2>2 DEF LifeInv
    <2> QED
      BY <1>0, <2>1, <2>2, <2>3, WindowsKept
  <1>24. ASSUME NEW t \in Threads, NEW full \in 0 .. 1, Dispatch(t, full),
               left' = left \/ Used("calls")
        PROVE  NumbersInv' /\ LifeInv'
    <2>1. WindowsSame
      BY <1>0, <1>24, DispatchIs
      DEF Little, Stays, Outside, Only, WindowsSame, WindowPcs, AskPcs, At
    <2>2. /\ resp_wl_efd' = resp_wl_efd \/ \A u \in Threads : th[u].pc \notin AskPcs
          /\ NumbersSame /\ ListenersSame /\ (bs.globals_fired => bs'.globals_fired)
          /\ px'.g_surf_next = px.g_surf_next /\ px'.shells = px.shells
          /\ ctrl'.result = ctrl.result /\ left'["surfaces"] = left["surfaces"]
          /\ life' = life /\ current' = current /\ sent' = sent
      BY <1>0, <1>24, DispatchIs
      DEF Little, Stays, Outside, Only, NumbersSame, ListenersSame, SeatSame
    <2>3. sent' > 0 => bs.next_surface > 0
      BY <1>0, <2>2 DEF LifeInv
    <2> QED
      BY <1>0, <2>1, <2>2, <2>3, WindowsKept
  <1>25. ASSUME NEW t \in Threads, FireGlobals(t)
        PROVE  NumbersInv' /\ LifeInv'
    <2>1. WindowsSame
      BY <1>0, <1>25, FireGlobalsIs
      DEF Little, Stays, Outside, Only, WindowsSame, WindowPcs, AskPcs, At
    <2>2. /\ resp_wl_efd' = resp_wl_efd \/ \A u \in Threads : th[u].pc \notin AskPcs
          /\ NumbersSame /\ ListenersSame /\ (bs.globals_fired => bs'.globals_fired)
          /\ px'.g_surf_next = px.g_surf_next /\ px'.shells = px.shells
          /\ ctrl'.result = ctrl.result /\ left'["surfaces"] = left["surfaces"]
          /\ life' = life /\ current' = current /\ sent' = sent
      BY <1>0, <1>25, FireGlobalsIs
      DEF Little, Stays, Outside, Only, NumbersSame, ListenersSame, SeatSame
    <2>3. sent' > 0 => bs.next_surface > 0
      BY <1>0, <2>2 DEF LifeInv
    <2> QED
      BY <1>0, <2>1, <2>2, <2>3, WindowsKept
  <1>26. ASSUME NEW t \in Threads, FireCallbacks(t)
        PROVE  NumbersInv' /\ LifeInv'
    <2>1. WindowsSame
      BY <1>0, <1>26, FireCallbacksIs
      DEF Little, Stays, Outside, Only, WindowsSame, WindowPcs, AskPcs, At
    <2>2. /\ resp_wl_efd' = resp_wl_efd \/ \A u \in Threads : th[u].pc \notin AskPcs
          /\ NumbersSame /\ ListenersSame /\ (bs.globals_fired => bs'.globals_fired)
          /\ px'.g_surf_next = px.g_surf_next /\ px'.shells = px.shells
          /\ ctrl'.result = ctrl.result /\ left'["surfaces"] = left["surfaces"]
          /\ life' = life /\ current' = current /\ sent' = sent
      BY <1>0, <1>26, FireCallbacksIs
      DEF Little, Stays, Outside, Only, NumbersSame, ListenersSame, SeatSame
    <2>3. sent' > 0 => bs.next_surface > 0
      BY <1>0, <2>2 DEF LifeInv
    <2> QED
      BY <1>0, <2>1, <2>2, <2>3, WindowsKept
  <1>27. ASSUME NEW t \in Threads, Return(t)
        PROVE  NumbersInv' /\ LifeInv'
    <2>1. WindowsSame
      BY <1>0, <1>27, ReturnMoves
      DEF Little, Stays, Outside, Only, To, WindowsSame, WindowPcs, AskPcs, At
    <2>2. /\ resp_wl_efd' = resp_wl_efd \/ \A u \in Threads : th[u].pc \notin AskPcs
          /\ NumbersSame /\ ListenersSame /\ (bs.globals_fired => bs'.globals_fired)
          /\ px'.g_surf_next = px.g_surf_next /\ px'.shells = px.shells
          /\ ctrl'.result = ctrl.result /\ left'["surfaces"] = left["surfaces"]
          /\ life' = life /\ current' = current /\ sent' = sent
      BY <1>0, <1>27, ReturnMoves
      DEF Little, Stays, Outside, Only, To, NumbersSame, ListenersSame, SeatSame
    <2>3. sent' > 0 => bs.next_surface > 0
      BY <1>0, <2>2 DEF LifeInv
    <2> QED
      BY <1>0, <2>1, <2>2, <2>3, WindowsKept
  <1>28. ASSUME NEW t \in Threads, FocusFirst(t)
        PROVE  NumbersInv' /\ LifeInv'
    <2>1. WindowsSame
      BY <1>0, <1>28, FocusIs
      DEF To, Only, Stays, Outside, WindowsSame, WindowPcs, AskPcs, At
    <2>2. /\ resp_wl_efd' = resp_wl_efd \/ \A u \in Threads : th[u].pc \notin AskPcs
          /\ NumbersSame /\ ListenersSame /\ (bs.globals_fired => bs'.globals_fired)
          /\ px'.g_surf_next = px.g_surf_next /\ px'.shells = px.shells
          /\ ctrl'.result = ctrl.result /\ left'["surfaces"] = left["surfaces"]
          /\ life' = life /\ current' = current /\ sent' = sent
      BY <1>0, <1>28, FocusIs
      DEF To, Only, Stays, Outside, NumbersSame, ListenersSame, SeatSame
    <2>3. sent' > 0 => bs.next_surface > 0
      BY <1>0, <2>2 DEF LifeInv
    <2> QED
      BY <1>0, <2>1, <2>2, <2>3, WindowsKept
  <1>29. ASSUME NEW t \in Threads, DeliverKey(t)
        PROVE  NumbersInv' /\ LifeInv'
    <2>1. WindowsSame
      BY <1>0, <1>29, KeyIs
      DEF To, Only, Stays, Outside, WindowsSame, WindowPcs, AskPcs, At
    <2>2. /\ resp_wl_efd' = resp_wl_efd \/ \A u \in Threads : th[u].pc \notin AskPcs
          /\ NumbersSame /\ ListenersSame /\ (bs.globals_fired => bs'.globals_fired)
          /\ px'.g_surf_next = px.g_surf_next /\ px'.shells = px.shells
          /\ ctrl'.result = ctrl.result /\ left'["surfaces"] = left["surfaces"]
          /\ life' = life /\ current' = current /\ sent' = sent
      BY <1>0, <1>29, KeyIs
      DEF To, Only, Stays, Outside, NumbersSame, ListenersSame, SeatSame
    <2>3. sent' > 0 => bs.next_surface > 0
      BY <1>0, <2>2 DEF LifeInv
    <2> QED
      BY <1>0, <2>1, <2>2, <2>3, WindowsKept
  <1>30. ASSUME NEW t \in Threads, KeysDelivered(t)
        PROVE  NumbersInv' /\ LifeInv'
    <2>1. WindowsSame
      BY <1>0, <1>30, KeysDeliveredMoves
      DEF To, Only, Stays, Outside, WindowsSame, WindowPcs, AskPcs, At
    <2>2. /\ resp_wl_efd' = resp_wl_efd \/ \A u \in Threads : th[u].pc \notin AskPcs
          /\ NumbersSame /\ ListenersSame /\ (bs.globals_fired => bs'.globals_fired)
          /\ px'.g_surf_next = px.g_surf_next /\ px'.shells = px.shells
          /\ ctrl'.result = ctrl.result /\ left'["surfaces"] = left["surfaces"]
          /\ life' = life /\ current' = current /\ sent' = sent
      BY <1>0, <1>30, KeysDeliveredMoves
      DEF To, Only, Stays, Outside, NumbersSame, ListenersSame, SeatSame
    <2>3. sent' > 0 => bs.next_surface > 0
      BY <1>0, <2>2 DEF LifeInv
    <2> QED
      BY <1>0, <2>1, <2>2, <2>3, WindowsKept
  <1>31. ASSUME NEW t \in Threads, DeliverState(t)
        PROVE  NumbersInv' /\ LifeInv'
    <2>1. WindowsSame
      BY <1>0, <1>31, StateIs
      DEF To, Only, Stays, Outside, WindowsSame, WindowPcs, AskPcs, At
    <2>2. /\ resp_wl_efd' = resp_wl_efd \/ \A u \in Threads : th[u].pc \notin AskPcs
          /\ NumbersSame /\ ListenersSame /\ (bs.globals_fired => bs'.globals_fired)
          /\ px'.g_surf_next = px.g_surf_next /\ px'.shells = px.shells
          /\ ctrl'.result = ctrl.result /\ left'["surfaces"] = left["surfaces"]
          /\ life' = life /\ current' = current /\ sent' = sent
      BY <1>0, <1>31, StateIs
      DEF To, Only, Stays, Outside, NumbersSame, ListenersSame, SeatSame
    <2>3. sent' > 0 => bs.next_surface > 0
      BY <1>0, <2>2 DEF LifeInv
    <2> QED
      BY <1>0, <2>1, <2>2, <2>3, WindowsKept
  <1> QED
    BY <1>1, <1>2, <1>3, <1>4, <1>5, <1>6, <1>7, <1>8, <1>9, <1>10, <1>11, <1>12, <1>13,
       <1>14, <1>15, <1>16, <1>17, <1>18, <1>19, <1>20, <1>21, <1>22, <1>23, <1>24,
       <1>25, <1>26, <1>27, <1>28, <1>29, <1>30, <1>31
    DEF Next, Compositor, Proxy, ProxyHandle, Begin, Continue, WaitAndDispatch, DispatchNow,
        States

-----------------------------------------------------------------------------
(* What TypeOK says beyond the types.                                      *)
TypeMore ==
  /\ ctrl.result \in Slots \cup {0} /\ rb.wss_count <= Cardinality(Slots)
  /\ bs.surface_slot_map \in [Offsets -> Slots \cup {0}]
  /\ bs.active_surface \in Offset0 /\ bs.keyboard_focus \in Offset0

LEMMA Shells ==
  ASSUME TypesInv, NumbersInv, LifeInv
  PROVE  px.shells \subseteq 1 .. px.g_surf_next - 1
  <1> SUFFICES ASSUME NEW s \in px.shells
               PROVE  s \in 1 .. px.g_surf_next - 1
    OBVIOUS
  <1>1. s - 1 \in Offsets /\ s \in Slots /\ life[s - 1] # "none"
    BY DEF LifeInv
  <1>2. s \in Nat \ {0} /\ ~ (s - 1 >= bs.next_surface)
    BY <1>1, SlotsAre DEF NumbersInv
  <1> QED
    BY <1>2, Numbers DEF NumbersInv

LEMMA TypesAreOK ==
  ASSUME TypesInv, NumbersInv, LifeInv, TypeMore
  PROVE  TypeOK
  <1>1. px.shells \subseteq 1 .. px.g_surf_next - 1
    BY Shells
  <1>2. /\ lock \in Threads \cup {NoThread}
        /\ {req_wl_efd, resp_wl_efd, event_efd, revents} \subseteq BOOLEAN
        /\ proxy_pc \in {"prepare", "poll", "dispatch", "handle", "collect"}
        /\ cb \in [Callbacks -> {Free, Taken, Pending, [Pending EXCEPT !.armed = TRUE]}]
        /\ Len(px.evts) <= INPUT_EVT_MAX
    BY DEF TypesInv, ProxyPcs, CallbacksType, CbType
  <1>3. /\ ctrl.op \in {"none", "roundtrip", "create", "shell", "show", "destroy"}
        /\ ctrl.arg \in Nat /\ ctrl.result \in Slots \cup {0}
    BY DEF TypesInv, CtrlType, TypeMore
  <1>4. /\ rb.count \in 0 .. INPUT_EVT_MAX /\ rb.keys \in [1 .. INPUT_EVT_MAX -> Nat]
        /\ rb.wss_count \in 0 .. Cardinality(Slots)
    <2>1. rb.wss_count \in Nat /\ Cardinality(Slots) \in Nat
      BY SlotsAre, FS_CardinalityType DEF TypesInv, RbType
    <2>2. rb.wss_count \in 0 .. Cardinality(Slots)
      BY <2>1 DEF TypeMore
    <2> QED
      BY <2>2 DEF TypesInv, RbType
  <1>5. px.wss \in [Slots -> [last : {0, NORMAL, FULLSCREEN}, pending : BOOLEAN]]
    <2>1. States \cup {0} = {0, NORMAL, FULLSCREEN}
      BY DEF States
    <2>2. px.wss \in [Slots -> [last : States \cup {0}, pending : BOOLEAN]]
      BY DEF TypesInv, PxType
    <2> QED
      BY <2>1, <2>2
  <1>6. /\ bs.surface_slot_map \in [Offsets -> Slots \cup {0}]
        /\ {bs.active_surface, bs.keyboard_focus, bs.ss_listener} \subseteq Offsets \cup {None}
        /\ bs.ss_listeners \in [Offsets -> Offsets \cup {None}]
    BY DEF TypesInv, BsType, TypeMore, Offset0
  <1> QED
    BY <1>1, <1>2, <1>3, <1>4, <1>5, <1>6 DEF TypeOK

LEMMA TypeOKMore ==
  ASSUME TypeOK
  PROVE  TypeMore
  BY SlotsAre, FS_CardinalityType DEF TypeOK, TypeMore, Offset0

LEMMA TypeMoreStep ==
  ASSUME WlInv, PlainWindows, [Next]_vars
  PROVE  TypeMore'
  <1>0. TypesInv /\ NumbersInv /\ LifeInv /\ TypeMore
    BY TypeOKMore DEF WlInv
  <1>1. ASSUME UNCHANGED vars
        PROVE  TypeMore'
    BY <1>0, <1>1
    DEF vars, channelVars, worldVars, proxyVars, stubVars, TypeMore
  <1>2. ASSUME SendKey
        PROVE  TypeMore'
    BY <1>0, <1>2, SendKeyIs
    DEF Commandless, Apart, Uses, TypeMore
  <1>3. ASSUME NEW s \in Slots, NEW v \in States, SendState(s, v)
        PROVE  TypeMore'
    BY <1>0, <1>3, SendStateIs
    DEF Commandless, Apart, Uses, TypeMore
  <1>4. ASSUME EglReads \/ ProxyPrepare \/ ProxyPoll \/ ProxyDispatch \/ Roundtrip
        PROVE  TypeMore'
    BY <1>0, <1>4, ReadsIs
    DEF Commandless, Apart, TypeMore
  <1>5. ASSUME Hear
        PROVE  TypeMore'
    BY <1>0, <1>5, HearIs
    DEF Commandless, Apart, TypeMore
  <1>6. ASSUME ProxyCollect
        PROVE  TypeMore'
    <2>1. bs' = bs /\ ctrl' = ctrl /\ rb' = Collected(px)
      BY <1>0, <1>6, Windows, ProxyCollectIs DEF Answers, Apart
    <2>2. rb'.wss_count <= Cardinality(Slots)
      BY <1>0, <2>1, Windows, CollectedIs
    <2> QED
      BY <1>0, <2>1, <2>2 DEF TypeMore
  <1>7. ASSUME ProxyHandle, CreateSurface
        PROVE  TypeMore'
    <2>1. /\ bs' = bs /\ rb' = rb
          /\ IF px.g_surf_next >= PROXY_SURF_MAX THEN ctrl'.result = 0
             ELSE ctrl'.result = px.g_surf_next
      BY <1>0, <1>7, CreateSurfaceIs DEF Answers, Apart
    <2>2. px.g_surf_next \in Nat \ {0} /\ PROXY_SURF_MAX \in Nat
      BY <1>0, Numbers DEF NumbersInv
    <2>3. ctrl'.result \in Slots \cup {0}
      BY <2>1, <2>2 DEF Slots
    <2> QED
      BY <1>0, <2>1, <2>3 DEF TypeMore
  <1>8. ASSUME ProxyHandle, GetShellSurface
        PROVE  TypeMore'
    BY <1>0, <1>8, ShellArg, GetShellSurfaceIs
    DEF Answers, Apart, TypeMore
  <1>9. ASSUME ProxyHandle, SurfaceRequest
        PROVE  TypeMore'
    BY <1>0, <1>9, SurfaceRequestIs
    DEF Answers, Apart, TypeMore
  <1>10. ASSUME NEW t \in Threads, Create(t)
        PROVE  TypeMore'
    BY <1>0, <1>10, CreateIs
    DEF Sends, To, Only, Outside, Uses, TypeMore
  <1>11. ASSUME NEW t \in Threads, NEW o \in Offsets, AskShell(t, o)
        PROVE  TypeMore'
    BY <1>0, <1>11, AskShellIs
    DEF Sends, To, Only, Outside, TypeMore
  <1>12. ASSUME NEW t \in Threads, NEW o \in Offsets, Show(t, o)
        PROVE  TypeMore'
    BY <1>0, <1>12, Windows, ShowIs
    DEF Sends, To, Only, Outside, TypeMore
  <1>13. ASSUME NEW t \in Threads, Destroy(t)
        PROVE  TypeMore'
    BY <1>0, <1>13, DestroyArg, DestroyIs
    DEF Sends, To, Only, Outside, TypeMore
  <1>14. ASSUME NEW t \in Threads, Collect(t)
        PROVE  TypeMore'
    BY <1>0, <1>14, CollectIs
    DEF Sends, To, Only, Outside, TypeMore
  <1>15. ASSUME NEW t \in Threads, Created(t)
        PROVE  TypeMore'
    BY <1>0, <1>15, CreatedIs
    DEF Receives, To, Only, Outside, TypeMore
  <1>16. ASSUME NEW t \in Threads, RoundtripDone(t)
        PROVE  TypeMore'
    BY <1>0, <1>16, RoundtripDoneIs
    DEF Receives, To, Only, Outside, TypeMore
  <1>17. ASSUME NEW t \in Threads, NEW state \in {"shell", "shown", "late", "gone"},
                Answered(t, state, state)
        PROVE  TypeMore'
    BY <1>0, <1>17, AnsweredIs
    DEF Receives, To, Only, Outside, TypeMore
  <1>18. ASSUME NEW t \in Threads, NameSurface(t)
        PROVE  TypeMore'
    <2>1. /\ bs'.surface_slot_map[bs.next_surface] = th[t].n /\ HeardSame
          /\ \A o \in Offsets \ {bs.next_surface} :
               bs'.surface_slot_map[o] = bs.surface_slot_map[o]
          /\ bs' \in BsType /\ rb' = rb /\ ctrl' = ctrl
      BY <1>0, <1>18, NamingArg, NameSurfaceIs DEF Stays
    <2>2. th[t].n = px.g_surf_next - 1 /\ th[t].pc = "naming"
      BY <1>0, <1>18, NamingArg, NameSurfaceIs DEF NumbersInv, At
    <2>3. th[t].n \in Slots
      <3>1. BeingMade = 1 /\ Begun = 1
        BY <2>2 DEF BeingMade, Begun, Unnamed
      <3> QED
        BY <1>0, <2>2, <3>1, Numbers DEF NumbersInv, Slots
    <2>4. bs'.surface_slot_map \in [Offsets -> Nat]
      BY <2>1 DEF BsType
    <2>5. bs'.surface_slot_map \in [Offsets -> Slots \cup {0}]
      <3> DEFINE f == bs.surface_slot_map
                 g == bs'.surface_slot_map
                 n == bs.next_surface
      <3>1. /\ f \in [Offsets -> Slots \cup {0}] /\ g \in [Offsets -> Nat]
            /\ \A o \in Offsets \ {n} : g[o] = f[o]
            /\ g[n] \in Slots
        BY <1>0, <2>1, <2>3, <2>4 DEF TypeMore
      <3> HIDE DEF f, g, n
      <3>2. \A o \in Offsets : g[o] \in Slots \cup {0}
        BY <3>1
      <3>3. g \in [Offsets -> Slots \cup {0}]
        BY <3>1, <3>2
      <3> QED
        BY <3>3 DEF g
    <2> QED
      BY <1>0, <2>1, <2>5 DEF HeardSame, TypeMore
  <1>19. ASSUME NEW t \in Threads, NEW o \in Offsets, AddListener(t, o)
        PROVE  TypeMore'
    BY <1>0, <1>19, Windows, AddListenerIs
    DEF Stays, Outside, TypeMore, HeardSame, NumbersSame
  <1>20. ASSUME NEW t \in Threads, NEW o \in Offsets, DropShell(t, o)
        PROVE  TypeMore'
    BY <1>0, <1>20, DropShellIs
    DEF To, Only, Stays, Outside, Uses, TypeMore, HeardSame, NumbersSame
  <1>21. ASSUME NEW t \in Threads, Frame(t)
        PROVE  TypeMore'
    BY <1>0, <1>21, FrameIs
    DEF Little, Stays, Outside, Only, TypeMore, HeardSame, NumbersSame
  <1>22. ASSUME NEW t \in Threads, Attach(t)
        PROVE  TypeMore'
    BY <1>0, <1>22, AttachIs
    DEF Little, Stays, Outside, Only, TypeMore, HeardSame, NumbersSame
  <1>23. ASSUME NEW t \in Threads, ListenToRegistry(t)
        PROVE  TypeMore'
    BY <1>0, <1>23, ListenToRegistryIs
    DEF Little, Stays, Outside, Only, TypeMore, HeardSame, NumbersSame
  <1>24. ASSUME NEW t \in Threads, NEW full \in 0 .. 1, Dispatch(t, full),
               left' = left \/ Used("calls")
        PROVE  TypeMore'
    BY <1>0, <1>24, DispatchIs
    DEF Little, Stays, Outside, Only, TypeMore, HeardSame, NumbersSame
  <1>25. ASSUME NEW t \in Threads, FireGlobals(t)
        PROVE  TypeMore'
    BY <1>0, <1>25, FireGlobalsIs
    DEF Little, Stays, Outside, Only, TypeMore, HeardSame, NumbersSame
  <1>26. ASSUME NEW t \in Threads, FireCallbacks(t)
        PROVE  TypeMore'
    BY <1>0, <1>26, FireCallbacksIs
    DEF Little, Stays, Outside, Only, TypeMore, HeardSame, NumbersSame
  <1>27. ASSUME NEW t \in Threads, Return(t)
        PROVE  TypeMore'
    BY <1>0, <1>27, ReturnMoves
    DEF Little, Stays, Outside, Only, TypeMore, HeardSame, NumbersSame, To
  <1>28. ASSUME NEW t \in Threads, FocusFirst(t)
        PROVE  TypeMore'
    <2>1. 0 \in Offsets
      BY SlotsAre DEF Offsets
    <2> QED
      BY <1>0, <1>28, FocusIs, <2>1 DEF Stays, NumbersSame, Offset0, TypeMore
  <1>29. ASSUME NEW t \in Threads, DeliverKey(t)
        PROVE  TypeMore'
    BY <1>0, <1>29, KeyIs
    DEF To, Only, Stays, Outside, TypeMore, HeardSame, NumbersSame
  <1>30. ASSUME NEW t \in Threads, KeysDelivered(t)
        PROVE  TypeMore'
    BY <1>0, <1>30, KeysDeliveredMoves
    DEF To, Only, Stays, Outside, TypeMore
  <1>31. ASSUME NEW t \in Threads, DeliverState(t)
        PROVE  TypeMore'
    <2>1. PICK o \in Offsets : /\ bs'.active_surface \in {o, bs.active_surface}
                               /\ bs'.keyboard_focus \in {o, bs.keyboard_focus}
      BY <1>0, <1>31, StateIs
    <2> QED
      BY <1>0, <1>31, StateIs, <2>1 DEF Stays, NumbersSame, Offset0, TypeMore
  <1> QED
    BY <1>1, <1>2, <1>3, <1>4, <1>5, <1>6, <1>7, <1>8, <1>9, <1>10, <1>11, <1>12, <1>13,
       <1>14, <1>15, <1>16, <1>17, <1>18, <1>19, <1>20, <1>21, <1>22, <1>23, <1>24,
       <1>25, <1>26, <1>27, <1>28, <1>29, <1>30, <1>31
    DEF Next, Compositor, Proxy, ProxyHandle, Begin, Continue, WaitAndDispatch, DispatchNow,
        States

LEMMA TypesAreOKNext ==
  (TypesInv /\ NumbersInv /\ LifeInv /\ TypeMore)' => TypeOK'
  <1>1. TypesInv /\ NumbersInv /\ LifeInv /\ TypeMore => TypeOK
    BY TypesAreOK
  <1> QED
    BY <1>1, PTL

LEMMA TypeOKStep ==
  ASSUME WlInv, OneCreator, PlainWindows, [Next]_vars
  PROVE  TypeOK'
  <1>1. TypesInv' /\ NumbersInv' /\ LifeInv' /\ TypeMore'
    BY TypesStep, WindowsStep, TypeMoreStep
  <1> QED
    BY <1>1, TypesAreOKNext

-----------------------------------------------------------------------------
(* The keyboard is entered before it hears of keys.                        *)

LEMMA KeyboardBound ==
  ASSUME NEW b \in BsType
  PROVE  LazyCapabilities(FocusKeyboard(b)).keyboard => b.keyboard \/ b.seat = "dispatcher"
  <1> DEFINE c == FocusKeyboard(b)
  <1>1. c \in BsType /\ Same4(c, b) /\ c.keyboard = b.keyboard
    BY FocusKeyboardIs
  <1>2. c.seat = b.seat
    BY <1>1 DEF Same4
  <1> HIDE DEF c
  <1>3. CASE c.lazy_caps_done \/ c.keyboard \/ c.seat # "dispatcher"
    <2>1. LazyCapabilities(c) = c
      BY <1>3 DEF LazyCapabilities
    <2> QED
      BY <1>1, <2>1 DEF c
  <1> QED
    BY <1>2, <1>3

EnterThread(t) == /\ th[t].pc \in {"keys", "states"}
                  /\ KeyPlaces(t) \cup StatePlaces(t) # {}

(* A step in which no thread gets anything to hand on.                     *)
LEMMA EnterKept ==
  ASSUME EnterInv, EnterB(bs'), bs.enter_sent => bs'.enter_sent,
         bs'.keyboard \/ bs'.seat # "none" => bs'.globals_fired,
         \A u \in Threads : EnterThread(u)' => EnterThread(u) \/ bs'.enter_sent
  PROVE  EnterInv'
  BY DEF EnterInv, EnterB, EnterThread

(* A thread that hands on nothing, before or after.                        *)
LEMMA EnterOthers ==
  ASSUME NEW u \in Threads, th'[u] = th[u], rb' = rb
  PROVE  EnterThread(u)' => EnterThread(u)
  BY DEF EnterThread, KeyPlaces, StatePlaces, At

(* A key that a dispatching thread has yet to hand on is underway.         *)
LEMMA UnderwayHas ==
  \A t \in Dispatchers : \A i \in KeyPlaces(t) : rb.keys[i] \in Underway
  <1> DEFINE places(t) ==
        CASE At(t, "focus") \/ (At(t, "await") /\ resp_wl_efd) -> 1 .. rb.count
          [] At(t, "keys") -> th[t].i .. th[t].n
          [] OTHER -> {}
  <1>1. Underway = UNION {{rb.keys[i] : i \in places(t)} : t \in Dispatchers}
    BY DEF Underway
  <1>2. \A t \in Dispatchers : places(t) = KeyPlaces(t)
    BY DEF KeyPlaces
  <1> HIDE DEF places
  <1> QED
    BY <1>1, <1>2

(* What is in the buffer came after a surface was shown.                   *)
LEMMA SurfaceBefore ==
  ASSUME WlInv, NEW t \in Threads, t \in Dispatchers,
         At(t, "focus") \/ (At(t, "await") /\ resp_wl_efd),
         rb.count > 0 \/ rb.wss_count > 0
  PROVE  bs.next_surface > 0 /\ bs.globals_fired
  <1>0. TypesInv /\ NumbersInv /\ LifeInv
    BY DEF WlInv
  <1>1. rb.count \in Nat /\ rb.wss_count \in Nat /\ sent \in Nat
        /\ bs.next_surface \in Nat
    BY <1>0 DEF TypesInv, RbType, BsType
  <1>2. CASE rb.count > 0
    <2>1. 1 \in 1 .. rb.count
      BY <1>1, <1>2
    <2>2. rb.keys[1] \in Underway
      BY <2>1, UnderwayHas DEF KeyPlaces, At
    <2>3. rb.keys[1] \in 1 .. sent
      BY <2>2 DEF WlInv, KeysInv
    <2>4. sent > 0
      BY <1>1, <2>3
    <2> QED
      BY <1>0, <2>4 DEF LifeInv
  <1>3. CASE rb.wss_count > 0
    <2>1. 1 \in 1 .. rb.wss_count
      BY <1>1, <1>3
    <2>2. StatePlaces(t) = 1 .. rb.wss_count
      BY DEF StatePlaces, At
    <2>6. 1 \in Undelivered
      BY <2>1, <2>2 DEF Undelivered
    <2>3. rb.wss[1][1] \in px.shells /\ Public(rb.wss[1][1] - 1)
      BY <2>6 DEF WlInv, StatesInv, PlacesInv
    <2>4. rb.wss[1][1] - 1 \in Offsets /\ life[rb.wss[1][1] - 1] # "none"
      BY <1>0, <2>3 DEF LifeInv
    <2>5. bs.next_surface > 0
      BY <1>1, <2>4, Windows
    <2> QED
      BY <1>0, <2>5 DEF LifeInv
  <1> QED
    BY <1>2, <1>3

(* Every step keeps it.                                                     *)
LEMMA EnterStep ==
  ASSUME WlInv, OneDispatcher, OneCreator, PlainWindows, [Next]_vars
  PROVE  EnterInv'
  <1>0. TypesInv /\ ChannelInv /\ NumbersInv /\ LifeInv /\ EnterInv
    BY DEF WlInv
  <1>1. ASSUME UNCHANGED vars
        PROVE  EnterInv'
    <2>1. bs' = bs /\ rb' = rb /\ th' = th
      BY <1>0, <1>1 DEF vars, channelVars, worldVars, proxyVars, stubVars
    <2> QED
      BY <1>0, <2>1, EnterOthers, EnterKept DEF EnterInv, EnterB
  <1>2. ASSUME SendKey
        PROVE  EnterInv'
    <2>1. bs' = bs /\ rb' = rb /\ th' = th
      BY <1>0, <1>2, SendKeyIs DEF Commandless, Apart, Uses
    <2> QED
      BY <1>0, <2>1, EnterOthers, EnterKept DEF EnterInv, EnterB
  <1>3. ASSUME NEW s \in Slots, NEW v \in States, SendState(s, v)
        PROVE  EnterInv'
    <2>1. bs' = bs /\ rb' = rb /\ th' = th
      BY <1>0, <1>3, SendStateIs DEF Commandless, Apart, Uses
    <2> QED
      BY <1>0, <2>1, EnterOthers, EnterKept DEF EnterInv, EnterB
  <1>4. ASSUME EglReads \/ ProxyPrepare \/ ProxyPoll \/ ProxyDispatch \/ Roundtrip
        PROVE  EnterInv'
    <2>1. bs' = bs /\ rb' = rb /\ th' = th
      BY <1>0, <1>4, ReadsIs DEF Commandless, Apart
    <2> QED
      BY <1>0, <2>1, EnterOthers, EnterKept DEF EnterInv, EnterB
  <1>5. ASSUME Hear
        PROVE  EnterInv'
    <2>1. bs' = bs /\ rb' = rb /\ th' = th
      BY <1>0, <1>5, HearIs DEF Commandless, Apart
    <2> QED
      BY <1>0, <2>1, EnterOthers, EnterKept DEF EnterInv, EnterB
  <1>6. ASSUME ProxyCollect
        PROVE  EnterInv'
    <2>1. bs' = bs /\ th' = th /\ proxy_pc = "collect" /\ ctrl.op = "roundtrip"
      BY <1>0, <1>6, Windows, ProxyCollectIs DEF Answers, Apart, ChannelInv
    <2>2. PICK t \in Threads : th[t].pc = "await"
      BY <2>1, Served
    <2>3. \A u \in Threads : th[u].pc \notin {"keys", "states"}
      BY <1>0, <2>2 DEF ChannelInv, OneDispatcher, DispatchPcs
    <2>4. \A u \in Threads : ~ EnterThread(u)'
      BY <2>1, <2>3 DEF EnterThread
    <2> QED
      BY <1>0, <2>1, <2>4, EnterKept DEF EnterInv, EnterB
  <1>7. ASSUME ProxyHandle, CreateSurface
        PROVE  EnterInv'
    <2>1. bs' = bs /\ rb' = rb /\ th' = th
      BY <1>0, <1>7, CreateSurfaceIs DEF Answers, Apart
    <2> QED
      BY <1>0, <2>1, EnterOthers, EnterKept DEF EnterInv, EnterB
  <1>8. ASSUME ProxyHandle, GetShellSurface
        PROVE  EnterInv'
    <2>1. bs' = bs /\ rb' = rb /\ th' = th
      BY <1>0, <1>8, ShellArg, GetShellSurfaceIs DEF Answers, Apart
    <2> QED
      BY <1>0, <2>1, EnterOthers, EnterKept DEF EnterInv, EnterB
  <1>9. ASSUME ProxyHandle, SurfaceRequest
        PROVE  EnterInv'
    <2>1. bs' = bs /\ rb' = rb /\ th' = th
      BY <1>0, <1>9, SurfaceRequestIs DEF Answers, Apart
    <2> QED
      BY <1>0, <2>1, EnterOthers, EnterKept DEF EnterInv, EnterB
  <1>10. ASSUME NEW t \in Threads, Create(t)
        PROVE  EnterInv'
    <2>1. Only(t) /\ rb' = rb /\ th'[t].pc \notin {"keys", "states"}
      BY <1>0, <1>10, CreateIs DEF Sends, To, Only, Outside, Uses
    <2>2. \A u \in Threads : EnterThread(u)' => EnterThread(u)
      BY <2>1, EnterOthers DEF Only, EnterThread
    <2>3. /\ EnterB(bs') /\ (bs.enter_sent => bs'.enter_sent)
          /\ bs'.keyboard \/ bs'.seat # "none" => bs'.globals_fired
      BY <1>0, <1>10, CreateIs
      DEF Sends, To, Only, Outside, Uses, HeardSame, SeatSame, NumbersSame, EnterInv,
          EnterB
    <2> QED
      BY <1>0, <2>2, <2>3, EnterKept
  <1>11. ASSUME NEW t \in Threads, NEW o \in Offsets, AskShell(t, o)
        PROVE  EnterInv'
    <2>1. Only(t) /\ rb' = rb /\ th'[t].pc \notin {"keys", "states"}
      BY <1>0, <1>11, AskShellIs DEF Sends, To, Only, Outside
    <2>2. \A u \in Threads : EnterThread(u)' => EnterThread(u)
      BY <2>1, EnterOthers DEF Only, EnterThread
    <2>3. /\ EnterB(bs') /\ (bs.enter_sent => bs'.enter_sent)
          /\ bs'.keyboard \/ bs'.seat # "none" => bs'.globals_fired
      BY <1>0, <1>11, AskShellIs
      DEF Sends, To, Only, Outside, HeardSame, SeatSame, NumbersSame, EnterInv, EnterB
    <2> QED
      BY <1>0, <2>2, <2>3, EnterKept
  <1>12. ASSUME NEW t \in Threads, NEW o \in Offsets, Show(t, o)
        PROVE  EnterInv'
    <2>1. Only(t) /\ rb' = rb /\ th'[t].pc \notin {"keys", "states"}
      BY <1>0, <1>12, Windows, ShowIs DEF Sends, To, Only, Outside
    <2>2. \A u \in Threads : EnterThread(u)' => EnterThread(u)
      BY <2>1, EnterOthers DEF Only, EnterThread
    <2>3. /\ EnterB(bs') /\ (bs.enter_sent => bs'.enter_sent)
          /\ bs'.keyboard \/ bs'.seat # "none" => bs'.globals_fired
      BY <1>0, <1>12, Windows, ShowIs
      DEF Sends, To, Only, Outside, HeardSame, SeatSame, NumbersSame, EnterInv, EnterB
    <2> QED
      BY <1>0, <2>2, <2>3, EnterKept
  <1>13. ASSUME NEW t \in Threads, Destroy(t)
        PROVE  EnterInv'
    <2>1. Only(t) /\ rb' = rb /\ th'[t].pc \notin {"keys", "states"}
      BY <1>0, <1>13, DestroyArg, DestroyIs DEF Sends, To, Only, Outside
    <2>2. \A u \in Threads : EnterThread(u)' => EnterThread(u)
      BY <2>1, EnterOthers DEF Only, EnterThread
    <2>3. /\ EnterB(bs') /\ (bs.enter_sent => bs'.enter_sent)
          /\ bs'.keyboard \/ bs'.seat # "none" => bs'.globals_fired
      BY <1>0, <1>13, DestroyArg, DestroyIs
      DEF Sends, To, Only, Outside, HeardSame, SeatSame, NumbersSame, EnterInv, EnterB
    <2> QED
      BY <1>0, <2>2, <2>3, EnterKept
  <1>14. ASSUME NEW t \in Threads, Collect(t)
        PROVE  EnterInv'
    <2>1. Only(t) /\ rb' = rb /\ th'[t].pc \notin {"keys", "states"}
      BY <1>0, <1>14, CollectIs DEF Sends, To, Only, Outside
    <2>2. \A u \in Threads : EnterThread(u)' => EnterThread(u)
      BY <2>1, EnterOthers DEF Only, EnterThread
    <2>3. /\ EnterB(bs') /\ (bs.enter_sent => bs'.enter_sent)
          /\ bs'.keyboard \/ bs'.seat # "none" => bs'.globals_fired
      BY <1>0, <1>14, CollectIs
      DEF Sends, To, Only, Outside, HeardSame, SeatSame, NumbersSame, EnterInv, EnterB
    <2> QED
      BY <1>0, <2>2, <2>3, EnterKept
  <1>15. ASSUME NEW t \in Threads, Created(t)
        PROVE  EnterInv'
    <2>1. Only(t) /\ rb' = rb /\ th'[t].pc \notin {"keys", "states"}
      BY <1>0, <1>15, CreatedIs DEF Receives, To, Only, Outside
    <2>2. \A u \in Threads : EnterThread(u)' => EnterThread(u)
      BY <2>1, EnterOthers DEF Only, EnterThread
    <2>3. /\ EnterB(bs') /\ (bs.enter_sent => bs'.enter_sent)
          /\ bs'.keyboard \/ bs'.seat # "none" => bs'.globals_fired
      BY <1>0, <1>15, CreatedIs
      DEF Receives, To, Only, Outside, HeardSame, SeatSame, NumbersSame, EnterInv,
          EnterB
    <2> QED
      BY <1>0, <2>2, <2>3, EnterKept
  <1>16. ASSUME NEW t \in Threads, RoundtripDone(t)
        PROVE  EnterInv'
    <2>1. Only(t) /\ rb' = rb /\ th'[t].pc \notin {"keys", "states"}
      BY <1>0, <1>16, RoundtripDoneIs DEF Receives, To, Only, Outside
    <2>2. \A u \in Threads : EnterThread(u)' => EnterThread(u)
      BY <2>1, EnterOthers DEF Only, EnterThread
    <2>3. /\ EnterB(bs') /\ (bs.enter_sent => bs'.enter_sent)
          /\ bs'.keyboard \/ bs'.seat # "none" => bs'.globals_fired
      BY <1>0, <1>16, RoundtripDoneIs
      DEF Receives, To, Only, Outside, HeardSame, SeatSame, NumbersSame, EnterInv,
          EnterB
    <2> QED
      BY <1>0, <2>2, <2>3, EnterKept
  <1>17. ASSUME NEW t \in Threads, NEW state \in {"shell", "shown", "late", "gone"},
                Answered(t, state, state)
        PROVE  EnterInv'
    <2>1. Only(t) /\ rb' = rb /\ th'[t].pc \notin {"keys", "states"}
      BY <1>0, <1>17, AnsweredIs DEF Receives, To, Only, Outside
    <2>2. \A u \in Threads : EnterThread(u)' => EnterThread(u)
      BY <2>1, EnterOthers DEF Only, EnterThread
    <2>3. /\ EnterB(bs') /\ (bs.enter_sent => bs'.enter_sent)
          /\ bs'.keyboard \/ bs'.seat # "none" => bs'.globals_fired
      BY <1>0, <1>17, AnsweredIs
      DEF Receives, To, Only, Outside, HeardSame, SeatSame, NumbersSame, EnterInv,
          EnterB
    <2> QED
      BY <1>0, <2>2, <2>3, EnterKept
  <1>18. ASSUME NEW t \in Threads, NameSurface(t)
        PROVE  EnterInv'
    <2>1. Only(t) /\ rb' = rb /\ th'[t].pc \notin {"keys", "states"}
      BY <1>0, <1>18, NamingArg, NameSurfaceIs DEF To, Only, Stays, Outside
    <2>2. \A u \in Threads : EnterThread(u)' => EnterThread(u)
      BY <2>1, EnterOthers DEF Only, EnterThread
    <2>3. /\ EnterB(bs') /\ (bs.enter_sent => bs'.enter_sent)
          /\ bs'.keyboard \/ bs'.seat # "none" => bs'.globals_fired
      BY <1>0, <1>18, NamingArg, NameSurfaceIs
      DEF To, Only, Stays, Outside, HeardSame, SeatSame, NumbersSame, EnterInv, EnterB
    <2> QED
      BY <1>0, <2>2, <2>3, EnterKept
  <1>19. ASSUME NEW t \in Threads, NEW o \in Offsets, AddListener(t, o)
        PROVE  EnterInv'
    <2>1. th' = th /\ rb' = rb
      BY <1>0, <1>19, Windows, AddListenerIs DEF Stays, Outside
    <2>2. \A u \in Threads : EnterThread(u)' => EnterThread(u)
      BY <2>1, EnterOthers
    <2>3. /\ EnterB(bs') /\ (bs.enter_sent => bs'.enter_sent)
          /\ bs'.keyboard \/ bs'.seat # "none" => bs'.globals_fired
      BY <1>0, <1>19, Windows, AddListenerIs
      DEF Stays, Outside, HeardSame, SeatSame, EnterInv, EnterB
    <2> QED
      BY <1>0, <2>2, <2>3, EnterKept
  <1>20. ASSUME NEW t \in Threads, NEW o \in Offsets, DropShell(t, o)
        PROVE  EnterInv'
    <2>1. Only(t) /\ rb' = rb /\ th'[t].pc \notin {"keys", "states"}
      BY <1>0, <1>20, DropShellIs DEF To, Only, Stays, Outside, Uses
    <2>2. \A u \in Threads : EnterThread(u)' => EnterThread(u)
      BY <2>1, EnterOthers DEF Only, EnterThread
    <2>3. /\ EnterB(bs') /\ (bs.enter_sent => bs'.enter_sent)
          /\ bs'.keyboard \/ bs'.seat # "none" => bs'.globals_fired
      BY <1>0, <1>20, DropShellIs
      DEF To, Only, Stays, Outside, Uses, HeardSame, SeatSame, NumbersSame, EnterInv,
          EnterB
    <2> QED
      BY <1>0, <2>2, <2>3, EnterKept
  <1>21. ASSUME NEW t \in Threads, Frame(t)
        PROVE  EnterInv'
    <2>1. Only(t) /\ rb' = rb /\ th'[t].pc \notin {"keys", "states"}
      BY <1>0, <1>21, FrameIs DEF Little, Stays, Outside, Only, To
    <2>2. \A u \in Threads : EnterThread(u)' => EnterThread(u)
      BY <2>1, EnterOthers DEF Only, EnterThread
    <2>3. /\ EnterB(bs') /\ (bs.enter_sent => bs'.enter_sent)
          /\ bs'.keyboard \/ bs'.seat # "none" => bs'.globals_fired
      BY <1>0, <1>21, FrameIs
      DEF Little, Stays, Outside, Only, To, HeardSame, SeatSame, NumbersSame, EnterInv,
          EnterB
    <2> QED
      BY <1>0, <2>2, <2>3, EnterKept
  <1>22. ASSUME NEW t \in Threads, Attach(t)
        PROVE  EnterInv'
    <2>1. Only(t) /\ rb' = rb /\ th'[t].pc \notin {"keys", "states"}
      BY <1>0, <1>22, AttachIs DEF Little, Stays, Outside, Only, To
    <2>2. \A u \in Threads : EnterThread(u)' => EnterThread(u)
      BY <2>1, EnterOthers DEF Only, EnterThread
    <2>3. /\ EnterB(bs') /\ (bs.enter_sent => bs'.enter_sent)
          /\ bs'.keyboard \/ bs'.seat # "none" => bs'.globals_fired
      BY <1>0, <1>22, AttachIs
      DEF Little, Stays, Outside, Only, To, HeardSame, SeatSame, NumbersSame, EnterInv,
          EnterB
    <2> QED
      BY <1>0, <2>2, <2>3, EnterKept
  <1>23. ASSUME NEW t \in Threads, ListenToRegistry(t)
        PROVE  EnterInv'
    <2>1. th' = th /\ rb' = rb
      BY <1>0, <1>23, ListenToRegistryIs DEF Little, Stays, Outside, Only
    <2>2. \A u \in Threads : EnterThread(u)' => EnterThread(u)
      BY <2>1, EnterOthers
    <2>3. /\ EnterB(bs') /\ (bs.enter_sent => bs'.enter_sent)
          /\ bs'.keyboard \/ bs'.seat # "none" => bs'.globals_fired
      BY <1>0, <1>23, ListenToRegistryIs
      DEF Little, Stays, Outside, Only, HeardSame, SeatSame, EnterInv, EnterB
    <2> QED
      BY <1>0, <2>2, <2>3, EnterKept
  <1>24. ASSUME NEW t \in Threads, NEW full \in 0 .. 1, Dispatch(t, full),
               left' = left \/ Used("calls")
        PROVE  EnterInv'
    <2>1. Only(t) /\ rb' = rb /\ th'[t].pc \notin {"keys", "states"}
      BY <1>0, <1>24, DispatchIs DEF Little, Stays, Outside, Only, To
    <2>2. \A u \in Threads : EnterThread(u)' => EnterThread(u)
      BY <2>1, EnterOthers DEF Only, EnterThread
    <2>3. /\ EnterB(bs') /\ (bs.enter_sent => bs'.enter_sent)
          /\ bs'.keyboard \/ bs'.seat # "none" => bs'.globals_fired
      BY <1>0, <1>24, DispatchIs
      DEF Little, Stays, Outside, Only, To, HeardSame, SeatSame, NumbersSame, EnterInv,
          EnterB
    <2> QED
      BY <1>0, <2>2, <2>3, EnterKept
  <1>25. ASSUME NEW t \in Threads, FireGlobals(t)
        PROVE  EnterInv'
    <2>1. Only(t) /\ rb' = rb /\ th'[t].pc \notin {"keys", "states"}
      BY <1>0, <1>25, FireGlobalsIs DEF Little, Stays, Outside, Only, To
    <2>2. \A u \in Threads : EnterThread(u)' => EnterThread(u)
      BY <2>1, EnterOthers DEF Only, EnterThread
    <2>3. /\ EnterB(bs') /\ (bs.enter_sent => bs'.enter_sent)
          /\ bs'.keyboard \/ bs'.seat # "none" => bs'.globals_fired
      BY <1>0, <1>25, FireGlobalsIs
      DEF Little, Stays, Outside, Only, To, HeardSame, SeatSame, NumbersSame, EnterInv,
          EnterB
    <2> QED
      BY <1>0, <2>2, <2>3, EnterKept
  <1>26. ASSUME NEW t \in Threads, FireCallbacks(t)
        PROVE  EnterInv'
    <2>1. Only(t) /\ rb' = rb /\ th'[t].pc \notin {"keys", "states"}
      BY <1>0, <1>26, FireCallbacksIs DEF Little, Stays, Outside, Only, To
    <2>2. \A u \in Threads : EnterThread(u)' => EnterThread(u)
      BY <2>1, EnterOthers DEF Only, EnterThread
    <2>3. /\ EnterB(bs') /\ (bs.enter_sent => bs'.enter_sent)
          /\ bs'.keyboard \/ bs'.seat # "none" => bs'.globals_fired
      BY <1>0, <1>26, FireCallbacksIs
      DEF Little, Stays, Outside, Only, To, HeardSame, SeatSame, NumbersSame, EnterInv,
          EnterB
    <2> QED
      BY <1>0, <2>2, <2>3, EnterKept
  <1>27. ASSUME NEW t \in Threads, Return(t)
        PROVE  EnterInv'
    <2>1. Only(t) /\ rb' = rb /\ th'[t].pc \notin {"keys", "states"}
      BY <1>0, <1>27, ReturnMoves DEF Little, Stays, Outside, Only, To
    <2>2. \A u \in Threads : EnterThread(u)' => EnterThread(u)
      BY <2>1, EnterOthers DEF Only, EnterThread
    <2>3. /\ EnterB(bs') /\ (bs.enter_sent => bs'.enter_sent)
          /\ bs'.keyboard \/ bs'.seat # "none" => bs'.globals_fired
      BY <1>0, <1>27, ReturnMoves
      DEF Little, Stays, Outside, Only, To, HeardSame, SeatSame, NumbersSame, EnterInv,
          EnterB
    <2> QED
      BY <1>0, <2>2, <2>3, EnterKept
  <1>28. ASSUME NEW t \in Threads, FocusFirst(t)
        PROVE  EnterInv'
    <2>1. /\ Only(t) /\ rb' = rb /\ th'[t].pc = "keys" /\ th'[t].i = 1 /\ th'[t].n = rb.count
          /\ At(t, "focus")
      BY <1>0, <1>28, FocusIs DEF To, Only, Stays
    <2>2. EnterB(bs') /\ Entered(bs', bs) /\ NumbersSame
          /\ bs'.globals_fired = bs.globals_fired /\ bs'.seat = bs.seat
          /\ (bs.globals_fired /\ bs.next_surface > 0 => bs'.enter_sent)
      BY <1>0, <1>28, FocusIs
    <2>3. bs'.keyboard => bs.keyboard \/ bs.seat = "dispatcher"
      <3>1. bs \in BsType /\ bs' = LazyCapabilities(FocusKeyboard(bs))
        BY <1>0, <1>28, FocusFirstMoves DEF TypesInv
      <3> QED
        BY <3>1, KeyboardBound
    <2>4. bs'.keyboard \/ bs'.seat # "none" => bs'.globals_fired
      BY <1>0, <2>2, <2>3 DEF EnterInv
    <2>5. bs.enter_sent => bs'.enter_sent
      BY <2>2 DEF Entered
    <2>6. EnterThread(t)' => bs'.enter_sent
      <3> SUFFICES ASSUME EnterThread(t)'
                   PROVE  bs'.enter_sent
        OBVIOUS
      <3>1. KeyPlaces(t)' = 1 .. rb.count /\ StatePlaces(t)' = 1 .. rb.wss_count
        BY <2>1 DEF KeyPlaces, StatePlaces, At
      <3>2. 1 .. rb.count # {} \/ 1 .. rb.wss_count # {}
        BY <3>1 DEF EnterThread
      <3>3. rb.count \in Nat /\ rb.wss_count \in Nat
        BY <1>0 DEF TypesInv, RbType
      <3>4. rb.count > 0 \/ rb.wss_count > 0
        BY <3>2, <3>3
      <3>5. t \in Dispatchers
        BY <1>0, <2>1 DEF ChannelInv, At, DispatchPcs
      <3> QED
        BY <2>1, <2>2, <3>4, <3>5, SurfaceBefore
    <2>7. \A u \in Threads : EnterThread(u)' => EnterThread(u) \/ bs'.enter_sent
      BY <2>1, <2>6, EnterOthers DEF Only
    <2> QED
      BY <1>0, <2>2, <2>4, <2>5, <2>7, EnterKept
  <1>29. ASSUME NEW t \in Threads, DeliverKey(t)
        PROVE  EnterInv'
    <2>1. /\ Only(t) /\ rb' = rb /\ th'[t].pc = "keys"
          /\ At(t, "keys") /\ th[t].i \in KeyPlaces(t)
      BY <1>0, <1>29, KeyIs DEF To, Only, Stays
    <2>2. EnterThread(t)
      BY <2>1 DEF EnterThread, At
    <2>3. bs'.enter_sent = bs.enter_sent /\ bs.enter_sent /\ SeatSame
      BY <1>0, <1>29, <2>2, KeyIs DEF EnterInv, EnterThread
    <2>4. EnterB(bs')
      <3>1. /\ bs.heard \in Seq(Nat) /\ rb.keys[th[t].i] \in Nat /\ bs.heard # << >>
            /\ bs.heard[1] = 0
            /\ bs'.heard = bs.heard \/ bs'.heard = Append(bs.heard, rb.keys[th[t].i])
        BY <1>0, <1>29, <2>3, KeyIs DEF TypesInv, BsType, EnterInv
      <3>2. bs'.heard # << >> /\ bs'.heard[1] = 0
        BY <3>1, AppendHeard
      <3> QED
        BY <1>0, <2>3, <3>2 DEF EnterB, EnterInv, SeatSame
    <2>5. \A u \in Threads : EnterThread(u)' => EnterThread(u)
      BY <2>1, <2>2, EnterOthers DEF Only
    <2>6. bs'.keyboard \/ bs'.seat # "none" => bs'.globals_fired
      BY <1>0, <2>3 DEF EnterInv, SeatSame
    <2> QED
      BY <1>0, <2>3, <2>4, <2>5, <2>6, EnterKept
  <1>30. ASSUME NEW t \in Threads, KeysDelivered(t)
        PROVE  EnterInv'
    <2>1. /\ Only(t) /\ rb' = rb /\ bs' = bs /\ th'[t].pc = "states" /\ th'[t].i = 1
          /\ th'[t].n = rb.wss_count /\ At(t, "keys")
      BY <1>0, <1>30, KeysDeliveredMoves DEF To, Only, Stays
    <2>2. KeyPlaces(t)' = {} /\ StatePlaces(t)' = StatePlaces(t)
      BY <2>1 DEF KeyPlaces, StatePlaces, At
    <2>3. EnterThread(t)' => EnterThread(t)
      BY <2>1, <2>2 DEF EnterThread, At
    <2>4. \A u \in Threads : EnterThread(u)' => EnterThread(u)
      BY <2>1, <2>3, EnterOthers DEF Only
    <2> QED
      BY <1>0, <2>1, <2>4, EnterKept DEF EnterInv, EnterB
  <1>31. ASSUME NEW t \in Threads, DeliverState(t)
        PROVE  EnterInv'
    <2>1. /\ Only(t) /\ rb' = rb /\ th'[t].pc = "states"
          /\ At(t, "states") /\ th[t].i \in StatePlaces(t)
      BY <1>0, <1>31, StateIs DEF To, Only, Stays
    <2>2. EnterThread(t)
      BY <2>1 DEF EnterThread, At
    <2>3. \A u \in Threads : EnterThread(u)' => EnterThread(u)
      BY <2>1, <2>2, EnterOthers DEF Only
    <2>4. /\ EnterB(bs') /\ bs'.enter_sent = bs.enter_sent
          /\ bs'.globals_fired = bs.globals_fired /\ bs'.seat = bs.seat
          /\ bs'.keyboard = bs.keyboard
      BY <1>0, <1>31, StateIs
    <2>5. bs'.keyboard \/ bs'.seat # "none" => bs'.globals_fired
      BY <1>0, <2>4 DEF EnterInv
    <2> QED
      BY <1>0, <2>3, <2>4, <2>5, EnterKept
  <1> QED
    BY <1>1, <1>2, <1>3, <1>4, <1>5, <1>6, <1>7, <1>8, <1>9, <1>10, <1>11, <1>12, <1>13,
       <1>14, <1>15, <1>16, <1>17, <1>18, <1>19, <1>20, <1>21, <1>22, <1>23, <1>24,
       <1>25, <1>26, <1>27, <1>28, <1>29, <1>30, <1>31
    DEF Next, Compositor, Proxy, ProxyHandle, Begin, Continue, WaitAndDispatch, DispatchNow,
        States

-----------------------------------------------------------------------------
(* What the keys and the states have in common.                            *)

(* The one dispatching thread has what is underway.                        *)
LEMMA DispatcherHas ==
  \A d \in Threads : Dispatchers = {d} =>
    /\ Underway = {rb.keys[i] : i \in KeyPlaces(d)}
    /\ Undelivered = StatePlaces(d)
  <1> DEFINE places(t) ==
        CASE At(t, "focus") \/ (At(t, "await") /\ resp_wl_efd) -> 1 .. rb.count
          [] At(t, "keys") -> th[t].i .. th[t].n
          [] OTHER -> {}
  <1>1. Underway = UNION {{rb.keys[i] : i \in places(t)} : t \in Dispatchers}
    BY DEF Underway
  <1>2. \A t \in Threads : places(t) = KeyPlaces(t)
    BY DEF KeyPlaces
  <1>3. Undelivered = UNION {StatePlaces(t) : t \in Dispatchers}
    BY DEF Undelivered
  <1> HIDE DEF places
  <1> QED
    BY <1>1, <1>2, <1>3

LEMMA DispatcherHasNext ==
  (\A d \in Threads : Dispatchers = {d} =>
    /\ Underway = {rb.keys[i] : i \in KeyPlaces(d)}
    /\ Undelivered = StatePlaces(d))'
  BY DispatcherHas, PTL

(* A step that moves neither a key nor a state on.                         *)
PlacesSame == \A u \in Threads : /\ KeyPlaces(u)' = KeyPlaces(u)
                                 /\ StatePlaces(u)' = StatePlaces(u)
LivesOn == \A o \in Offsets : /\ Public(o) => Public(o)'
                              /\ life[o] = "gone" => life'[o] = "gone"
Quietly == /\ rb' = rb /\ PlacesSame /\ Wire' = Wire /\ LivesOn
           /\ px'.evts = px.evts /\ px'.wss = px.wss /\ px'.shells = px.shells
           /\ unheard' = unheard /\ sent' = sent /\ current' = current
           /\ bs'.heard = bs.heard /\ bs'.told = bs.told
           /\ bs'.enter_sent = bs.enter_sent /\ bs'.keyboard_focus = bs.keyboard_focus
Loudly == \/ Compositor \/ Hear \/ ProxyCollect
          \/ ProxyHandle /\ (GetShellSurface \/ SurfaceRequest)
          \/ \E t \in Threads : FocusFirst(t) \/ DeliverKey(t) \/ DeliverState(t)

LEMMA PlacesKept ==
  ASSUME rb' = rb, NEW u \in Threads, th'[u] = th[u],
         resp_wl_efd' = resp_wl_efd \/ th[u].pc # "await"
  PROVE  KeyPlaces(u)' = KeyPlaces(u) /\ StatePlaces(u)' = StatePlaces(u)
  BY DEF KeyPlaces, StatePlaces, At

(* A thread that has nothing to hand on, before and after.                 *)
Handing == {"await", "focus", "keys", "states"}

LEMMA PlacesNone ==
  \A u \in Threads : th[u].pc \notin Handing \/ (th[u].pc = "await" /\ ~ resp_wl_efd) =>
    KeyPlaces(u) = {} /\ StatePlaces(u) = {}
  BY DEF KeyPlaces, StatePlaces, At, Handing

LEMMA PlacesNoneNext ==
  (\A u \in Threads : th[u].pc \notin Handing \/ (th[u].pc = "await" /\ ~ resp_wl_efd) =>
    KeyPlaces(u) = {} /\ StatePlaces(u) = {})'
  BY PlacesNone, PTL

LEMMA PlacesApart ==
  ASSUME NEW t \in Threads, Only(t), rb' = rb,
         resp_wl_efd' = resp_wl_efd \/ \A u \in Threads \ {t} : th[u].pc # "await",
         KeyPlaces(t)' = KeyPlaces(t) /\ StatePlaces(t)' = StatePlaces(t)
  PROVE  PlacesSame
  BY PlacesKept DEF PlacesSame, Only

(* The steps that move something on are few.                               *)
LEMMA QuietOrLoud ==
  ASSUME WlInv, OneCreator, PlainWindows, [Next]_vars
  PROVE  Quietly \/ Loudly
  <1>0. TypesInv /\ ChannelInv /\ NumbersInv /\ LifeInv
    BY DEF WlInv
  <1>1. ASSUME UNCHANGED vars
        PROVE  Quietly \/ Loudly
    <2>1. /\ rb' = rb /\ Wire' = Wire
          /\ px'.evts = px.evts /\ px'.wss = px.wss /\ px'.shells = px.shells
          /\ unheard' = unheard /\ sent' = sent /\ current' = current
          /\ bs'.heard = bs.heard /\ bs'.told = bs.told
          /\ bs'.enter_sent = bs.enter_sent /\ bs'.keyboard_focus = bs.keyboard_focus
      BY <1>0, <1>1 DEF vars, channelVars, worldVars, proxyVars, stubVars, HeardSame, Wire
    <2>2. LivesOn
      <3>1. life' = life
        BY <1>0, <1>1 DEF vars, channelVars, worldVars, proxyVars, stubVars
      <3> QED
        BY <3>1 DEF LivesOn, Public
    <2>3. PlacesSame
      <3>1. th' = th /\ resp_wl_efd' = resp_wl_efd /\ rb' = rb
        BY <1>0, <1>1 DEF vars, channelVars, worldVars, proxyVars, stubVars
      <3> QED
        BY <3>1, PlacesKept DEF PlacesSame
    <2> QED
      BY <2>1, <2>2, <2>3 DEF Quietly
  <1>2. ASSUME SendKey
        PROVE  Quietly \/ Loudly
    BY <1>2 DEF Loudly, Compositor, States
  <1>3. ASSUME NEW s \in Slots, NEW v \in States, SendState(s, v)
        PROVE  Quietly \/ Loudly
    BY <1>3 DEF Loudly, Compositor, States
  <1>4. ASSUME EglReads \/ ProxyPrepare \/ ProxyPoll \/ ProxyDispatch \/ Roundtrip
        PROVE  Quietly \/ Loudly
    <2>1. /\ rb' = rb /\ Wire' = Wire
          /\ px'.evts = px.evts /\ px'.wss = px.wss /\ px'.shells = px.shells
          /\ unheard' = unheard /\ sent' = sent /\ current' = current
          /\ bs'.heard = bs.heard /\ bs'.told = bs.told
          /\ bs'.enter_sent = bs.enter_sent /\ bs'.keyboard_focus = bs.keyboard_focus
      BY <1>0, <1>4, ReadsIs DEF Commandless, Apart, HeardSame, Wire
    <2>2. LivesOn
      <3>1. life' = life
        BY <1>0, <1>4, ReadsIs DEF Commandless, Apart
      <3> QED
        BY <3>1 DEF LivesOn, Public
    <2>3. PlacesSame
      <3>1. th' = th /\ resp_wl_efd' = resp_wl_efd /\ rb' = rb
        BY <1>0, <1>4, ReadsIs DEF Commandless, Apart
      <3> QED
        BY <3>1, PlacesKept DEF PlacesSame
    <2> QED
      BY <2>1, <2>2, <2>3 DEF Quietly
  <1>5. ASSUME Hear
        PROVE  Quietly \/ Loudly
    BY <1>5 DEF Loudly, Compositor, States
  <1>6. ASSUME ProxyCollect
        PROVE  Quietly \/ Loudly
    BY <1>6 DEF Loudly, Compositor, States
  <1>7. ASSUME ProxyHandle, CreateSurface
        PROVE  Quietly \/ Loudly
    <2>1. /\ rb' = rb /\ Wire' = Wire
          /\ px'.evts = px.evts /\ px'.wss = px.wss /\ px'.shells = px.shells
          /\ unheard' = unheard /\ sent' = sent /\ current' = current
          /\ bs'.heard = bs.heard /\ bs'.told = bs.told
          /\ bs'.enter_sent = bs.enter_sent /\ bs'.keyboard_focus = bs.keyboard_focus
      BY <1>0, <1>7, CreateSurfaceIs DEF Answers, Apart, HeardSame, Wire
    <2>2. LivesOn
      <3>1. life' = life
        BY <1>0, <1>7, CreateSurfaceIs DEF Answers, Apart
      <3> QED
        BY <3>1 DEF LivesOn, Public
    <2>3. PlacesSame
      <3>1. /\ th' = th /\ rb' = rb /\ proxy_pc = "handle" /\ ctrl.op = "create"
        BY <1>0, <1>7, CreateSurfaceIs DEF Answers, Apart
      <3>2. PICK t \in Threads : th[t].pc = "creating"
            /\ \A u \in Threads \ {t} : ~ Waiting(u)
        BY <1>0, <3>1, Served
      <3>3. \A u \in Threads : th[u].pc # "await"
        BY <3>2 DEF Waiting
      <3> QED
        BY <3>1, <3>3, PlacesKept DEF PlacesSame
    <2> QED
      BY <2>1, <2>2, <2>3 DEF Quietly
  <1>8. ASSUME ProxyHandle, GetShellSurface
        PROVE  Quietly \/ Loudly
    BY <1>8 DEF Loudly, Compositor, States
  <1>9. ASSUME ProxyHandle, SurfaceRequest
        PROVE  Quietly \/ Loudly
    BY <1>9 DEF Loudly, Compositor, States
  <1>10. ASSUME NEW t \in Threads, Create(t)
        PROVE  Quietly \/ Loudly
    <2>1. /\ rb' = rb /\ Wire' = Wire
          /\ px'.evts = px.evts /\ px'.wss = px.wss /\ px'.shells = px.shells
          /\ unheard' = unheard /\ sent' = sent /\ current' = current
          /\ bs'.heard = bs.heard /\ bs'.told = bs.told
          /\ bs'.enter_sent = bs.enter_sent /\ bs'.keyboard_focus = bs.keyboard_focus
      BY <1>0, <1>10, CreateIs DEF Sends, To, Only, Outside, Uses, HeardSame, Wire
    <2>2. LivesOn
      <3>1. life' = life
        BY <1>0, <1>10, CreateIs DEF Sends, To, Only, Outside, Uses
      <3> QED
        BY <3>1 DEF LivesOn, Public
    <2>3. PlacesSame
      <3>1. /\ Only(t) /\ rb' = rb /\ resp_wl_efd' = resp_wl_efd
            /\ th[t].pc \notin Handing /\ th'[t].pc \notin Handing
        BY <1>0, <1>10, CreateIs DEF Sends, To, Only, Outside, Uses, To, At, Handing
      <3> QED
        BY <3>1, PlacesNone, PlacesNoneNext, PlacesApart
    <2> QED
      BY <2>1, <2>2, <2>3 DEF Quietly
  <1>11. ASSUME NEW t \in Threads, NEW o \in Offsets, AskShell(t, o)
        PROVE  Quietly \/ Loudly
    <2>1. /\ rb' = rb /\ Wire' = Wire
          /\ px'.evts = px.evts /\ px'.wss = px.wss /\ px'.shells = px.shells
          /\ unheard' = unheard /\ sent' = sent /\ current' = current
          /\ bs'.heard = bs.heard /\ bs'.told = bs.told
          /\ bs'.enter_sent = bs.enter_sent /\ bs'.keyboard_focus = bs.keyboard_focus
      BY <1>0, <1>11, AskShellIs DEF Sends, To, Only, Outside, HeardSame, Wire
    <2>2. LivesOn
      <3>1. life' = life
        BY <1>0, <1>11, AskShellIs DEF Sends, To, Only, Outside
      <3> QED
        BY <3>1 DEF LivesOn, Public
    <2>3. PlacesSame
      <3>1. /\ Only(t) /\ rb' = rb /\ resp_wl_efd' = resp_wl_efd
            /\ th[t].pc \notin Handing /\ th'[t].pc \notin Handing
        BY <1>0, <1>11, AskShellIs DEF Sends, To, Only, Outside, To, At, Handing
      <3> QED
        BY <3>1, PlacesNone, PlacesNoneNext, PlacesApart
    <2> QED
      BY <2>1, <2>2, <2>3 DEF Quietly
  <1>12. ASSUME NEW t \in Threads, NEW o \in Offsets, Show(t, o)
        PROVE  Quietly \/ Loudly
    <2>1. /\ rb' = rb /\ Wire' = Wire
          /\ px'.evts = px.evts /\ px'.wss = px.wss /\ px'.shells = px.shells
          /\ unheard' = unheard /\ sent' = sent /\ current' = current
          /\ bs'.heard = bs.heard /\ bs'.told = bs.told
          /\ bs'.enter_sent = bs.enter_sent /\ bs'.keyboard_focus = bs.keyboard_focus
      BY <1>0, <1>12, Windows, ShowIs DEF Sends, To, Only, Outside, HeardSame, Wire
    <2>2. LivesOn
      <3>1. life' = life
        BY <1>0, <1>12, Windows, ShowIs DEF Sends, To, Only, Outside
      <3> QED
        BY <3>1 DEF LivesOn, Public
    <2>3. PlacesSame
      <3>1. /\ Only(t) /\ rb' = rb /\ resp_wl_efd' = resp_wl_efd
            /\ th[t].pc \notin Handing /\ th'[t].pc \notin Handing
        BY <1>0, <1>12, Windows, ShowIs DEF Sends, To, Only, Outside, To, At, Handing
      <3> QED
        BY <3>1, PlacesNone, PlacesNoneNext, PlacesApart
    <2> QED
      BY <2>1, <2>2, <2>3 DEF Quietly
  <1>13. ASSUME NEW t \in Threads, Destroy(t)
        PROVE  Quietly \/ Loudly
    <2>1. /\ rb' = rb /\ Wire' = Wire
          /\ px'.evts = px.evts /\ px'.wss = px.wss /\ px'.shells = px.shells
          /\ unheard' = unheard /\ sent' = sent /\ current' = current
          /\ bs'.heard = bs.heard /\ bs'.told = bs.told
          /\ bs'.enter_sent = bs.enter_sent /\ bs'.keyboard_focus = bs.keyboard_focus
      BY <1>0, <1>13, DestroyArg, DestroyIs DEF Sends, To, Only, Outside, HeardSame, Wire
    <2>2. LivesOn
      <3>1. life' = life
        BY <1>0, <1>13, DestroyArg, DestroyIs DEF Sends, To, Only, Outside
      <3> QED
        BY <3>1 DEF LivesOn, Public
    <2>3. PlacesSame
      <3>1. /\ Only(t) /\ rb' = rb /\ resp_wl_efd' = resp_wl_efd
            /\ th[t].pc \notin Handing /\ th'[t].pc \notin Handing
        BY <1>0, <1>13, DestroyArg, DestroyIs
        DEF Sends, To, Only, Outside, To, At, Handing
      <3> QED
        BY <3>1, PlacesNone, PlacesNoneNext, PlacesApart
    <2> QED
      BY <2>1, <2>2, <2>3 DEF Quietly
  <1>14. ASSUME NEW t \in Threads, Collect(t)
        PROVE  Quietly \/ Loudly
    <2>1. /\ rb' = rb /\ Wire' = Wire
          /\ px'.evts = px.evts /\ px'.wss = px.wss /\ px'.shells = px.shells
          /\ unheard' = unheard /\ sent' = sent /\ current' = current
          /\ bs'.heard = bs.heard /\ bs'.told = bs.told
          /\ bs'.enter_sent = bs.enter_sent /\ bs'.keyboard_focus = bs.keyboard_focus
      BY <1>0, <1>14, CollectIs DEF Sends, To, Only, Outside, HeardSame, Wire
    <2>2. LivesOn
      <3>1. life' = life
        BY <1>0, <1>14, CollectIs DEF Sends, To, Only, Outside
      <3> QED
        BY <3>1 DEF LivesOn, Public
    <2>3. PlacesSame
      <3>1. /\ Only(t) /\ rb' = rb /\ resp_wl_efd' = resp_wl_efd /\ lock = NoThread
            /\ th[t].pc \notin Handing /\ th'[t].pc = "await"
        BY <1>0, <1>14, CollectIs DEF Sends, To, Only, Outside, To, At, Handing
      <3>2. ~ resp_wl_efd'
        BY <1>0, <3>1 DEF ChannelInv
      <3> QED
        BY <3>1, <3>2, PlacesNone, PlacesNoneNext, PlacesApart
    <2> QED
      BY <2>1, <2>2, <2>3 DEF Quietly
  <1>15. ASSUME NEW t \in Threads, Created(t)
        PROVE  Quietly \/ Loudly
    <2>1. /\ rb' = rb /\ Wire' = Wire
          /\ px'.evts = px.evts /\ px'.wss = px.wss /\ px'.shells = px.shells
          /\ unheard' = unheard /\ sent' = sent /\ current' = current
          /\ bs'.heard = bs.heard /\ bs'.told = bs.told
          /\ bs'.enter_sent = bs.enter_sent /\ bs'.keyboard_focus = bs.keyboard_focus
      BY <1>0, <1>15, CreatedIs DEF Receives, To, Only, Outside, HeardSame, Wire
    <2>2. LivesOn
      <3>1. life' = life
        BY <1>0, <1>15, CreatedIs DEF Receives, To, Only, Outside
      <3> QED
        BY <3>1 DEF LivesOn, Public
    <2>3. PlacesSame
      <3>1. /\ Only(t) /\ rb' = rb /\ th[t].pc \in AskPcs
            /\ th[t].pc \notin Handing /\ th'[t].pc \notin Handing
        BY <1>0, <1>15, CreatedIs DEF Receives, To, Only, Outside, To, At, Handing, AskPcs
      <3>2. \A u \in Threads \ {t} : th[u].pc # "await"
        BY <1>0, <3>1 DEF ChannelInv, Waiting
      <3> QED
        BY <3>1, <3>2, PlacesNone, PlacesNoneNext, PlacesApart
    <2> QED
      BY <2>1, <2>2, <2>3 DEF Quietly
  <1>16. ASSUME NEW t \in Threads, RoundtripDone(t)
        PROVE  Quietly \/ Loudly
    <2>1. /\ rb' = rb /\ Wire' = Wire
          /\ px'.evts = px.evts /\ px'.wss = px.wss /\ px'.shells = px.shells
          /\ unheard' = unheard /\ sent' = sent /\ current' = current
          /\ bs'.heard = bs.heard /\ bs'.told = bs.told
          /\ bs'.enter_sent = bs.enter_sent /\ bs'.keyboard_focus = bs.keyboard_focus
      BY <1>0, <1>16, RoundtripDoneIs DEF Receives, To, Only, Outside, HeardSame, Wire
    <2>2. LivesOn
      <3>1. life' = life
        BY <1>0, <1>16, RoundtripDoneIs DEF Receives, To, Only, Outside
      <3> QED
        BY <3>1 DEF LivesOn, Public
    <2>3. PlacesSame
      <3>1. /\ Only(t) /\ rb' = rb /\ th[t].pc = "await" /\ resp_wl_efd /\ th'[t].pc = "focus"
        BY <1>0, <1>16, RoundtripDoneIs DEF Receives, To, Only, Outside, To, At
      <3>2. \A u \in Threads \ {t} : th[u].pc # "await"
        BY <1>0, <3>1 DEF ChannelInv, Waiting
      <3>3. KeyPlaces(t)' = KeyPlaces(t) /\ StatePlaces(t)' = StatePlaces(t)
        BY <3>1 DEF KeyPlaces, StatePlaces, At
      <3> QED
        BY <3>1, <3>2, <3>3, PlacesApart
    <2> QED
      BY <2>1, <2>2, <2>3 DEF Quietly
  <1>17. ASSUME NEW t \in Threads, NEW state \in {"shell", "shown", "late", "gone"},
                Answered(t, state, state)
        PROVE  Quietly \/ Loudly
    <2>1. /\ rb' = rb /\ Wire' = Wire
          /\ px'.evts = px.evts /\ px'.wss = px.wss /\ px'.shells = px.shells
          /\ unheard' = unheard /\ sent' = sent /\ current' = current
          /\ bs'.heard = bs.heard /\ bs'.told = bs.told
          /\ bs'.enter_sent = bs.enter_sent /\ bs'.keyboard_focus = bs.keyboard_focus
      BY <1>0, <1>17, AnsweredIs DEF Receives, To, Only, Outside, HeardSame, Wire
    <2>2. LivesOn
      <3>1. /\ life' = [life EXCEPT ![th[t].i] = state] /\ life \in LifeType
            /\ th[t].pc = state
        BY <1>0, <1>17, AnsweredIs DEF TypesInv, Receives, At
      <3>2. WindowThread(t)
        BY <1>0 DEF LifeInv
      <3> QED
        BY <3>1, <3>2 DEF LivesOn, Public, LifeType, WindowThread
    <2>3. PlacesSame
      <3>1. /\ Only(t) /\ rb' = rb /\ th[t].pc \in AskPcs
            /\ th[t].pc \notin Handing /\ th'[t].pc \notin Handing
        BY <1>0, <1>17, AnsweredIs
        DEF Receives, To, Only, Outside, To, At, Handing, AskPcs
      <3>2. \A u \in Threads \ {t} : th[u].pc # "await"
        BY <1>0, <3>1 DEF ChannelInv, Waiting
      <3> QED
        BY <3>1, <3>2, PlacesNone, PlacesNoneNext, PlacesApart
    <2> QED
      BY <2>1, <2>2, <2>3 DEF Quietly
  <1>18. ASSUME NEW t \in Threads, NameSurface(t)
        PROVE  Quietly \/ Loudly
    <2>1. /\ rb' = rb /\ Wire' = Wire
          /\ px'.evts = px.evts /\ px'.wss = px.wss /\ px'.shells = px.shells
          /\ unheard' = unheard /\ sent' = sent /\ current' = current
          /\ bs'.heard = bs.heard /\ bs'.told = bs.told
          /\ bs'.enter_sent = bs.enter_sent /\ bs'.keyboard_focus = bs.keyboard_focus
      BY <1>0, <1>18, NamingArg, NameSurfaceIs
      DEF To, Only, Stays, Outside, HeardSame, Wire
    <2>2. LivesOn
      <3>1. \A p \in Offsets \ {bs.next_surface} : life'[p] = life[p]
        BY <1>0, <1>18, NamingArg, NameSurfaceIs
      <3>2. life[bs.next_surface] = "none"
        BY <1>0, <1>18, NamingArg DEF NumbersInv, TypesInv, BsType
      <3> QED
        BY <3>1, <3>2 DEF LivesOn, Public
    <2>3. PlacesSame
      <3>1. /\ Only(t) /\ rb' = rb /\ resp_wl_efd' = resp_wl_efd
            /\ th[t].pc \notin Handing /\ th'[t].pc \notin Handing
        BY <1>0, <1>18, NamingArg, NameSurfaceIs
        DEF To, Only, Stays, Outside, To, At, Handing
      <3> QED
        BY <3>1, PlacesNone, PlacesNoneNext, PlacesApart
    <2> QED
      BY <2>1, <2>2, <2>3 DEF Quietly
  <1>19. ASSUME NEW t \in Threads, NEW o \in Offsets, AddListener(t, o)
        PROVE  Quietly \/ Loudly
    <2>1. /\ rb' = rb /\ Wire' = Wire
          /\ px'.evts = px.evts /\ px'.wss = px.wss /\ px'.shells = px.shells
          /\ unheard' = unheard /\ sent' = sent /\ current' = current
          /\ bs'.heard = bs.heard /\ bs'.told = bs.told
          /\ bs'.enter_sent = bs.enter_sent /\ bs'.keyboard_focus = bs.keyboard_focus
      BY <1>0, <1>19, Windows, AddListenerIs DEF Stays, Outside, HeardSame, Wire
    <2>2. LivesOn
      <3>1. life[o] = "shell" /\ life' = [life EXCEPT ![o] = "heard"] /\ life \in LifeType
        BY <1>0, <1>19, Windows, AddListenerIs DEF TypesInv
      <3> QED
        BY <3>1 DEF LivesOn, Public, LifeType
    <2>3. PlacesSame
      <3>1. th' = th /\ resp_wl_efd' = resp_wl_efd /\ rb' = rb
        BY <1>0, <1>19, Windows, AddListenerIs DEF Stays, Outside
      <3> QED
        BY <3>1, PlacesKept DEF PlacesSame
    <2> QED
      BY <2>1, <2>2, <2>3 DEF Quietly
  <1>20. ASSUME NEW t \in Threads, NEW o \in Offsets, DropShell(t, o)
        PROVE  Quietly \/ Loudly
    <2>1. /\ rb' = rb /\ Wire' = Wire
          /\ px'.evts = px.evts /\ px'.wss = px.wss /\ px'.shells = px.shells
          /\ unheard' = unheard /\ sent' = sent /\ current' = current
          /\ bs'.heard = bs.heard /\ bs'.told = bs.told
          /\ bs'.enter_sent = bs.enter_sent /\ bs'.keyboard_focus = bs.keyboard_focus
      BY <1>0, <1>20, DropShellIs DEF To, Only, Stays, Outside, Uses, HeardSame, Wire
    <2>2. LivesOn
      <3>1. life[o] = "shown" /\ life' = [life EXCEPT ![o] = "gone"] /\ life \in LifeType
        BY <1>0, <1>20, DropShellIs DEF TypesInv
      <3> QED
        BY <3>1 DEF LivesOn, Public, LifeType
    <2>3. PlacesSame
      <3>1. /\ Only(t) /\ rb' = rb /\ resp_wl_efd' = resp_wl_efd
            /\ th[t].pc \notin Handing /\ th'[t].pc \notin Handing
        BY <1>0, <1>20, DropShellIs DEF To, Only, Stays, Outside, Uses, To, At, Handing
      <3> QED
        BY <3>1, PlacesNone, PlacesNoneNext, PlacesApart
    <2> QED
      BY <2>1, <2>2, <2>3 DEF Quietly
  <1>21. ASSUME NEW t \in Threads, Frame(t)
        PROVE  Quietly \/ Loudly
    <2>1. /\ rb' = rb /\ Wire' = Wire
          /\ px'.evts = px.evts /\ px'.wss = px.wss /\ px'.shells = px.shells
          /\ unheard' = unheard /\ sent' = sent /\ current' = current
          /\ bs'.heard = bs.heard /\ bs'.told = bs.told
          /\ bs'.enter_sent = bs.enter_sent /\ bs'.keyboard_focus = bs.keyboard_focus
      BY <1>0, <1>21, FrameIs DEF Little, Stays, Outside, Only, HeardSame, Wire
    <2>2. LivesOn
      <3>1. life' = life
        BY <1>0, <1>21, FrameIs DEF Little, Stays, Outside, Only
      <3> QED
        BY <3>1 DEF LivesOn, Public
    <2>3. PlacesSame
      <3>1. /\ Only(t) /\ rb' = rb /\ resp_wl_efd' = resp_wl_efd
            /\ th[t].pc \notin Handing /\ th'[t].pc \notin Handing
        BY <1>0, <1>21, FrameIs DEF Little, Stays, Outside, Only, To, At, Handing
      <3> QED
        BY <3>1, PlacesNone, PlacesNoneNext, PlacesApart
    <2> QED
      BY <2>1, <2>2, <2>3 DEF Quietly
  <1>22. ASSUME NEW t \in Threads, Attach(t)
        PROVE  Quietly \/ Loudly
    <2>1. /\ rb' = rb /\ Wire' = Wire
          /\ px'.evts = px.evts /\ px'.wss = px.wss /\ px'.shells = px.shells
          /\ unheard' = unheard /\ sent' = sent /\ current' = current
          /\ bs'.heard = bs.heard /\ bs'.told = bs.told
          /\ bs'.enter_sent = bs.enter_sent /\ bs'.keyboard_focus = bs.keyboard_focus
      BY <1>0, <1>22, AttachIs DEF Little, Stays, Outside, Only, HeardSame, Wire
    <2>2. LivesOn
      <3>1. life' = life
        BY <1>0, <1>22, AttachIs DEF Little, Stays, Outside, Only
      <3> QED
        BY <3>1 DEF LivesOn, Public
    <2>3. PlacesSame
      <3>1. /\ Only(t) /\ rb' = rb /\ resp_wl_efd' = resp_wl_efd
            /\ th[t].pc \notin Handing /\ th'[t].pc \notin Handing
        BY <1>0, <1>22, AttachIs DEF Little, Stays, Outside, Only, To, At, Handing
      <3> QED
        BY <3>1, PlacesNone, PlacesNoneNext, PlacesApart
    <2> QED
      BY <2>1, <2>2, <2>3 DEF Quietly
  <1>23. ASSUME NEW t \in Threads, ListenToRegistry(t)
        PROVE  Quietly \/ Loudly
    <2>1. /\ rb' = rb /\ Wire' = Wire
          /\ px'.evts = px.evts /\ px'.wss = px.wss /\ px'.shells = px.shells
          /\ unheard' = unheard /\ sent' = sent /\ current' = current
          /\ bs'.heard = bs.heard /\ bs'.told = bs.told
          /\ bs'.enter_sent = bs.enter_sent /\ bs'.keyboard_focus = bs.keyboard_focus
      BY <1>0, <1>23, ListenToRegistryIs DEF Little, Stays, Outside, Only, HeardSame, Wire
    <2>2. LivesOn
      <3>1. life' = life
        BY <1>0, <1>23, ListenToRegistryIs DEF Little, Stays, Outside, Only
      <3> QED
        BY <3>1 DEF LivesOn, Public
    <2>3. PlacesSame
      <3>1. th' = th /\ resp_wl_efd' = resp_wl_efd /\ rb' = rb
        BY <1>0, <1>23, ListenToRegistryIs DEF Little, Stays, Outside, Only
      <3> QED
        BY <3>1, PlacesKept DEF PlacesSame
    <2> QED
      BY <2>1, <2>2, <2>3 DEF Quietly
  <1>24. ASSUME NEW t \in Threads, NEW full \in 0 .. 1, Dispatch(t, full),
               left' = left \/ Used("calls")
        PROVE  Quietly \/ Loudly
    <2>1. /\ rb' = rb /\ Wire' = Wire
          /\ px'.evts = px.evts /\ px'.wss = px.wss /\ px'.shells = px.shells
          /\ unheard' = unheard /\ sent' = sent /\ current' = current
          /\ bs'.heard = bs.heard /\ bs'.told = bs.told
          /\ bs'.enter_sent = bs.enter_sent /\ bs'.keyboard_focus = bs.keyboard_focus
      BY <1>0, <1>24, DispatchIs DEF Little, Stays, Outside, Only, HeardSame, Wire
    <2>2. LivesOn
      <3>1. life' = life
        BY <1>0, <1>24, DispatchIs DEF Little, Stays, Outside, Only
      <3> QED
        BY <3>1 DEF LivesOn, Public
    <2>3. PlacesSame
      <3>1. /\ Only(t) /\ rb' = rb /\ resp_wl_efd' = resp_wl_efd
            /\ th[t].pc \notin Handing /\ th'[t].pc \notin Handing
        BY <1>0, <1>24, DispatchIs DEF Little, Stays, Outside, Only, To, At, Handing
      <3> QED
        BY <3>1, PlacesNone, PlacesNoneNext, PlacesApart
    <2> QED
      BY <2>1, <2>2, <2>3 DEF Quietly
  <1>25. ASSUME NEW t \in Threads, FireGlobals(t)
        PROVE  Quietly \/ Loudly
    <2>1. /\ rb' = rb /\ Wire' = Wire
          /\ px'.evts = px.evts /\ px'.wss = px.wss /\ px'.shells = px.shells
          /\ unheard' = unheard /\ sent' = sent /\ current' = current
          /\ bs'.heard = bs.heard /\ bs'.told = bs.told
          /\ bs'.enter_sent = bs.enter_sent /\ bs'.keyboard_focus = bs.keyboard_focus
      BY <1>0, <1>25, FireGlobalsIs DEF Little, Stays, Outside, Only, HeardSame, Wire
    <2>2. LivesOn
      <3>1. life' = life
        BY <1>0, <1>25, FireGlobalsIs DEF Little, Stays, Outside, Only
      <3> QED
        BY <3>1 DEF LivesOn, Public
    <2>3. PlacesSame
      <3>1. /\ Only(t) /\ rb' = rb /\ resp_wl_efd' = resp_wl_efd
            /\ th[t].pc \notin Handing /\ th'[t].pc \notin Handing
        BY <1>0, <1>25, FireGlobalsIs DEF Little, Stays, Outside, Only, To, At, Handing
      <3> QED
        BY <3>1, PlacesNone, PlacesNoneNext, PlacesApart
    <2> QED
      BY <2>1, <2>2, <2>3 DEF Quietly
  <1>26. ASSUME NEW t \in Threads, FireCallbacks(t)
        PROVE  Quietly \/ Loudly
    <2>1. /\ rb' = rb /\ Wire' = Wire
          /\ px'.evts = px.evts /\ px'.wss = px.wss /\ px'.shells = px.shells
          /\ unheard' = unheard /\ sent' = sent /\ current' = current
          /\ bs'.heard = bs.heard /\ bs'.told = bs.told
          /\ bs'.enter_sent = bs.enter_sent /\ bs'.keyboard_focus = bs.keyboard_focus
      BY <1>0, <1>26, FireCallbacksIs DEF Little, Stays, Outside, Only, HeardSame, Wire
    <2>2. LivesOn
      <3>1. life' = life
        BY <1>0, <1>26, FireCallbacksIs DEF Little, Stays, Outside, Only
      <3> QED
        BY <3>1 DEF LivesOn, Public
    <2>3. PlacesSame
      <3>1. /\ Only(t) /\ rb' = rb /\ resp_wl_efd' = resp_wl_efd
            /\ th[t].pc \notin Handing /\ th'[t].pc \notin Handing
        BY <1>0, <1>26, FireCallbacksIs DEF Little, Stays, Outside, Only, To, At, Handing
      <3> QED
        BY <3>1, PlacesNone, PlacesNoneNext, PlacesApart
    <2> QED
      BY <2>1, <2>2, <2>3 DEF Quietly
  <1>27. ASSUME NEW t \in Threads, Return(t)
        PROVE  Quietly \/ Loudly
    <2>1. /\ rb' = rb /\ Wire' = Wire
          /\ px'.evts = px.evts /\ px'.wss = px.wss /\ px'.shells = px.shells
          /\ unheard' = unheard /\ sent' = sent /\ current' = current
          /\ bs'.heard = bs.heard /\ bs'.told = bs.told
          /\ bs'.enter_sent = bs.enter_sent /\ bs'.keyboard_focus = bs.keyboard_focus
      BY <1>0, <1>27, ReturnMoves DEF Little, Stays, Outside, Only, HeardSame, Wire
    <2>2. LivesOn
      <3>1. life' = life
        BY <1>0, <1>27, ReturnMoves DEF Little, Stays, Outside, Only
      <3> QED
        BY <3>1 DEF LivesOn, Public
    <2>3. PlacesSame
      <3>1. /\ Only(t) /\ rb' = rb /\ resp_wl_efd' = resp_wl_efd
            /\ th[t].pc = "states" /\ th[t].i > th[t].n /\ th'[t].pc = "rest"
        BY <1>0, <1>27, ReturnMoves DEF Little, Stays, Outside, Only, To, At
      <3>2. th[t].i \in Nat /\ th[t].n \in Nat
        BY <1>0 DEF TypesInv, ThreadsType, ThType
      <3>3. KeyPlaces(t) = {} /\ StatePlaces(t) = {}
        BY <3>1, <3>2 DEF KeyPlaces, StatePlaces, At
      <3>4. KeyPlaces(t)' = {} /\ StatePlaces(t)' = {}
        BY <3>1, PlacesNoneNext DEF Handing
      <3> QED
        BY <3>1, <3>3, <3>4, PlacesApart
    <2> QED
      BY <2>1, <2>2, <2>3 DEF Quietly
  <1>28. ASSUME NEW t \in Threads, FocusFirst(t)
        PROVE  Quietly \/ Loudly
    BY <1>28 DEF Loudly, Compositor, States
  <1>29. ASSUME NEW t \in Threads, DeliverKey(t)
        PROVE  Quietly \/ Loudly
    BY <1>29 DEF Loudly, Compositor, States
  <1>30. ASSUME NEW t \in Threads, KeysDelivered(t)
        PROVE  Quietly \/ Loudly
    <2>1. /\ rb' = rb /\ Wire' = Wire
          /\ px'.evts = px.evts /\ px'.wss = px.wss /\ px'.shells = px.shells
          /\ unheard' = unheard /\ sent' = sent /\ current' = current
          /\ bs'.heard = bs.heard /\ bs'.told = bs.told
          /\ bs'.enter_sent = bs.enter_sent /\ bs'.keyboard_focus = bs.keyboard_focus
      BY <1>0, <1>30, KeysDeliveredMoves DEF To, Only, Stays, Outside, HeardSame, Wire
    <2>2. LivesOn
      <3>1. life' = life
        BY <1>0, <1>30, KeysDeliveredMoves DEF To, Only, Stays, Outside
      <3> QED
        BY <3>1 DEF LivesOn, Public
    <2>3. PlacesSame
      <3>1. /\ Only(t) /\ rb' = rb /\ resp_wl_efd' = resp_wl_efd
            /\ th[t].pc = "keys" /\ th[t].i > th[t].n
            /\ th'[t].pc = "states" /\ th'[t].i = 1 /\ th'[t].n = rb.wss_count
        BY <1>0, <1>30, KeysDeliveredMoves DEF To, Only, Stays, Outside, To, At
      <3>2. th[t].i \in Nat /\ th[t].n \in Nat
        BY <1>0 DEF TypesInv, ThreadsType, ThType
      <3>3. KeyPlaces(t) = {} /\ StatePlaces(t) = 1 .. rb.wss_count
        BY <3>1, <3>2 DEF KeyPlaces, StatePlaces, At
      <3>4. KeyPlaces(t)' = {} /\ StatePlaces(t)' = 1 .. rb.wss_count
        BY <3>1 DEF KeyPlaces, StatePlaces, At
      <3> QED
        BY <3>1, <3>3, <3>4, PlacesApart
    <2> QED
      BY <2>1, <2>2, <2>3 DEF Quietly
  <1>31. ASSUME NEW t \in Threads, DeliverState(t)
        PROVE  Quietly \/ Loudly
    BY <1>31 DEF Loudly, Compositor, States
  <1> QED
    BY <1>1, <1>2, <1>3, <1>4, <1>5, <1>6, <1>7, <1>8, <1>9, <1>10, <1>11, <1>12, <1>13,
       <1>14, <1>15, <1>16, <1>17, <1>18, <1>19, <1>20, <1>21, <1>22, <1>23, <1>24,
       <1>25, <1>26, <1>27, <1>28, <1>29, <1>30, <1>31
    DEF Next, Compositor, Proxy, ProxyHandle, Begin, Continue, WaitAndDispatch, DispatchNow,
        States

-----------------------------------------------------------------------------
(* Keys.                                                                   *)

(* The places of the keys: H was heard, U is underway, E collected, W on   *)
(* the wire, and X dropped.                                                *)
Placed(n, H, U, E, W, X) ==
  /\ 1 .. n = H \cup U \cup E \cup W \cup X
  /\ X \cap (H \cup U \cup E \cup W) = {}
  /\ Before(H, U \cup E \cup W) /\ Before(U, E \cup W) /\ Before(E, W)
HeardInOrder == \A i, j \in DOMAIN bs.heard : i < j /\ bs.heard[j] # 0 => bs.heard[i] < bs.heard[j]
PlacesInOrder == \A t \in Threads : /\ KeyPlaces(t) \subseteq 1 .. INPUT_EVT_MAX
                                    /\ \A i, j \in KeyPlaces(t) : i < j => rb.keys[i] < rb.keys[j]
WireInOrder == \A i, j \in DOMAIN Wire :
                 KeyAt(i) /\ KeyAt(j) /\ i < j => Wire[i].what < Wire[j].what
AllPlaced == Placed(sent, Heard, Underway, Range(px.evts), Keys(Wire), unheard)

LEMMA KeysAre ==
  KeysInv <=> AllPlaced /\ HeardInOrder /\ PlacesInOrder /\ Ascending(px.evts) /\ WireInOrder
  BY DEF KeysInv, AllPlaced, Placed, HeardInOrder, PlacesInOrder, WireInOrder

LEMMA KeysAreNext ==
  (KeysInv <=> AllPlaced /\ HeardInOrder /\ PlacesInOrder /\ Ascending(px.evts) /\ WireInOrder)'
  BY KeysAre, PTL

LEMMA WireKeys ==
  \A k : k \in Keys(Wire) <=> \E i \in DOMAIN Wire : KeyAt(i) /\ Wire[i].what = k
  BY DEF Keys, Range, KeyAt

LEMMA WireKeysNext ==
  (\A k : k \in Keys(Wire) <=> \E i \in DOMAIN Wire : KeyAt(i) /\ Wire[i].what = k)'
  BY WireKeys, PTL

(* Nothing is moved on, but that the keyboard may be entered.              *)
KeyPlacesSame == \A u \in Threads : KeyPlaces(u)' = KeyPlaces(u)

LEMMA UnderwaySame ==
  ASSUME OneDispatcher, KeyPlacesSame, rb' = rb
  PROVE  Underway' = Underway
  <1>1. PICK d \in Threads : Dispatchers = {d}
    BY DEF OneDispatcher
  <1>2. Underway = {rb.keys[i] : i \in KeyPlaces(d)}
    BY <1>1, DispatcherHas
  <1>3. Underway' = {rb'.keys[i] : i \in KeyPlaces(d)'}
    BY <1>1, DispatcherHasNext
  <1> QED
    BY <1>2, <1>3 DEF KeyPlacesSame

LEMMA HeardZero ==
  ASSUME TypesInv, KeysInv, OneDispatcher, KeyPlacesSame, rb' = rb, Wire' = Wire,
         px'.evts = px.evts, unheard' = unheard, sent' = sent,
         bs'.heard = bs.heard \/ bs'.heard = Append(bs.heard, 0)
  PROVE  KeysInv'
  <1>1. bs.heard \in Seq(Nat)
    BY DEF TypesInv, BsType
  <1>2. Heard' = Heard
    <2>1. Range(Append(bs.heard, 0)) = Range(bs.heard) \cup {0}
      BY <1>1, AppendHeard
    <2> QED
      BY <2>1 DEF Heard
  <1>3. AllPlaced'
    BY <1>2, KeysAre, UnderwaySame DEF AllPlaced
  <1>4. HeardInOrder'
    <2>1. CASE bs'.heard = bs.heard
      BY <2>1, KeysAre DEF HeardInOrder
    <2>2. CASE bs'.heard = Append(bs.heard, 0)
      <3>1. /\ Len(bs.heard) \in Nat /\ DOMAIN bs.heard = 1 .. Len(bs.heard)
            /\ DOMAIN bs'.heard = 1 .. Len(bs.heard) + 1
            /\ \A i \in 1 .. Len(bs.heard) : bs'.heard[i] = bs.heard[i]
            /\ bs'.heard[Len(bs.heard) + 1] = 0
        BY <1>1, <2>2, AppendHeard
      <3> SUFFICES ASSUME NEW i \in DOMAIN bs'.heard, NEW j \in DOMAIN bs'.heard,
                          i < j, bs'.heard[j] # 0
                   PROVE  bs'.heard[i] < bs'.heard[j]
        BY DEF HeardInOrder
      <3>2. i \in 1 .. Len(bs.heard) /\ j \in 1 .. Len(bs.heard)
        BY <3>1
      <3> QED
        BY <3>1, <3>2, KeysAre DEF HeardInOrder
    <2> QED
      BY <2>1, <2>2
  <1>5. PlacesInOrder'
    BY KeysAre DEF PlacesInOrder, KeyPlacesSame
  <1>6. Ascending(px.evts)' /\ WireInOrder'
    BY KeysAre DEF Ascending, WireInOrder, KeyAt
  <1> QED
    BY <1>3, <1>4, <1>5, <1>6, KeysAreNext

(* What the compositor sends goes to the end of the wire.                  *)
LEMMA KeysSent ==
  ASSUME TypesInv, KeysInv, OneDispatcher, NEW n \in Seq(Event), Wire' = Wire \o n,
         KeyPlacesSame, rb' = rb, px' = px, unheard' = unheard, bs' = bs,
         \/ sent' = sent /\ \A i \in 1 .. Len(n) : n[i].kind # "key"
         \/ sent' = sent + 1 /\ n = <<Key(sent + 1)>>
  PROVE  KeysInv'
  <1>0. /\ sent \in Nat /\ Wire \in Seq(Event)
        /\ AllPlaced /\ HeardInOrder /\ PlacesInOrder /\ Ascending(px.evts) /\ WireInOrder
    BY KeysAre, WireIs DEF TypesInv, Events
  <1>1. /\ Len(Wire) \in Nat /\ Len(n) \in Nat /\ Len(Wire') = Len(Wire) + Len(n)
        /\ DOMAIN Wire = 1 .. Len(Wire) /\ DOMAIN Wire' = 1 .. Len(Wire) + Len(n)
        /\ \A i \in 1 .. Len(Wire) : Wire'[i] = Wire[i]
        /\ \A i \in 1 .. Len(n) : Wire'[Len(Wire) + i] = n[i]
    BY <1>0, ConcatAppend
  <1>2. \A i \in 1 .. Len(Wire) : KeyAt(i)' <=> KeyAt(i)
    BY <1>1 DEF KeyAt
  <1>3. Heard' = Heard /\ Underway' = Underway
    BY UnderwaySame DEF Heard
  <1>4. HeardInOrder' /\ PlacesInOrder' /\ Ascending(px.evts)'
    BY <1>0 DEF HeardInOrder, PlacesInOrder, KeyPlacesSame, Ascending
  <1>5. CASE sent' = sent /\ \A i \in 1 .. Len(n) : n[i].kind # "key"
    <2>1. \A i \in DOMAIN Wire' : KeyAt(i)' => i \in 1 .. Len(Wire)
      <3> SUFFICES ASSUME NEW i \in DOMAIN Wire', KeyAt(i)'
                   PROVE  i \in 1 .. Len(Wire)
        OBVIOUS
      <3>1. i \in 1 .. Len(Wire) \/ (i - Len(Wire) \in 1 .. Len(n)
                                     /\ i = Len(Wire) + (i - Len(Wire)))
        BY <1>1
      <3> QED
        BY <1>1, <1>5, <3>1 DEF KeyAt
    <2>2. Keys(Wire)' = Keys(Wire)
      <3>1. \A i : i \in DOMAIN Wire' /\ KeyAt(i)' <=> i \in DOMAIN Wire /\ KeyAt(i)
        BY <1>1, <1>2, <2>1
      <3>2. \A i \in DOMAIN Wire : Wire'[i].what = Wire[i].what
        BY <1>1
      <3>3. \A k : k \in Keys(Wire) <=> k \in Keys(Wire)'
        <4> TAKE k
        <4>1. k \in Keys(Wire) <=> \E i : (i \in DOMAIN Wire /\ KeyAt(i)) /\ Wire[i].what = k
          BY WireKeys
        <4>2. k \in Keys(Wire)' <=>
                \E i : (i \in DOMAIN Wire' /\ KeyAt(i)') /\ Wire'[i].what = k
          BY WireKeysNext
        <4> QED
          BY <3>1, <3>2, <4>1, <4>2
      <3> QED
        BY <3>3
    <2>3. WireInOrder'
      BY <1>0, <1>1, <1>2, <2>1 DEF WireInOrder
    <2>4. AllPlaced'
      BY <1>0, <1>3, <1>5, <2>2 DEF AllPlaced
    <2> QED
      BY <1>4, <2>3, <2>4, KeysAreNext
  <1>6. CASE sent' = sent + 1 /\ n = <<Key(sent + 1)>>
    <2>0. PICK l \in Nat : l = Len(Wire) + 1
      BY <1>1
    <2>1. /\ Len(n) = 1 /\ l \in Nat /\ DOMAIN Wire' = 1 .. l /\ 1 .. l = (1 .. Len(Wire)) \cup {l}
          /\ Wire'[l] = Key(sent + 1) /\ l \notin 1 .. Len(Wire)
          /\ Wire'[l].kind = "key" /\ Wire'[l].what = sent + 1
      BY <1>0, <1>1, <1>6, <2>0, EventsAre
    <2>2. KeyAt(l)'
      BY <2>1 DEF KeyAt
    <2>3. Keys(Wire)' = Keys(Wire) \cup {sent + 1}
      <3>1. \A i : i \in DOMAIN Wire' /\ KeyAt(i)' <=> (i \in DOMAIN Wire /\ KeyAt(i)) \/ i = l
        BY <1>1, <1>2, <2>1, <2>2
      <3>2. \A i \in DOMAIN Wire : Wire'[i].what = Wire[i].what
        BY <1>1
      <3> QED
        BY <2>1, <3>1, <3>2, WireKeys, WireKeysNext
    <2>4. Keys(Wire) \subseteq 1 .. sent
      BY <1>0 DEF AllPlaced, Placed
    <2>5. WireInOrder'
      <3> SUFFICES ASSUME NEW i \in DOMAIN Wire', NEW j \in DOMAIN Wire',
                          KeyAt(i)', KeyAt(j)', i < j
                   PROVE  Wire'[i].what < Wire'[j].what
        BY DEF WireInOrder
      <3>1. i \in 1 .. Len(Wire)
        BY <1>1, <2>0, <2>1
      <3>2. CASE j \in 1 .. Len(Wire)
        BY <1>0, <1>1, <1>2, <3>1, <3>2 DEF WireInOrder
      <3>3. CASE j = l
        <4>1. Wire[i].what \in Keys(Wire)
          BY <1>1, <1>2, <3>1, WireKeys
        <4>2. Wire[i].what \in 1 .. sent
          BY <2>4, <4>1
        <4> QED
          BY <1>0, <1>1, <2>1, <3>1, <3>3, <4>2
      <3> QED
        BY <2>1, <3>2, <3>3
    <2>6. AllPlaced'
      <3>1. Placed(sent, Heard, Underway, Range(px.evts), Keys(Wire), unheard)
        BY <1>0 DEF AllPlaced
      <3> DEFINE W == Keys(Wire)  U == Underway  H == Heard  E == Range(px.evts)
      <3>2. Placed(sent, H, U, E, W, unheard)
        BY <3>1
      <3> HIDE DEF W, U, H, E
      <3>3. Placed(sent + 1, H, U, E, W \cup {sent + 1}, unheard)
        <4>1. 1 .. sent + 1 = (1 .. sent) \cup {sent + 1}
          BY <1>0
        <4>2. H \cup U \cup E \cup W \cup unheard = 1 .. sent
          BY <3>2 DEF Placed
        <4>3. /\ \A a \in H \cup U \cup E : a < sent + 1
              /\ sent + 1 \notin unheard
          BY <1>0, <4>2
        <4> QED
          BY <3>2, <4>1, <4>3 DEF Placed, Before
      <3> QED
        BY <1>3, <1>6, <2>3, <3>3 DEF AllPlaced, W, U, H, E
    <2> QED
      BY <1>4, <2>5, <2>6, KeysAreNext
  <1> QED
    BY <1>5, <1>6

(* A listener of the proxy takes the first event of the wire.              *)
LEMMA KeysHeard ==
  ASSUME WlInv, OneDispatcher, Hear
  PROVE  KeysInv'
  <1>0. TypesInv /\ KeysInv
    BY DEF WlInv
  <1> DEFINE e == Head(queue)
  <1>1. /\ bs' = bs /\ rb' = rb /\ th' = th /\ resp_wl_efd' = resp_wl_efd /\ sent' = sent
        /\ e \in Event /\ px' = Listen(px, e)
        /\ unheard' = IF e.kind = "key" /\ ~ Fits(px) THEN unheard \cup {e.what} ELSE unheard
        /\ Wire[1] = e /\ Len(Wire) \in Nat \ {0}
        /\ DOMAIN Wire = 1 .. Len(Wire) /\ DOMAIN Wire' = 1 .. Len(Wire) - 1
        /\ \A i \in 1 .. Len(Wire) - 1 : Wire'[i] = Wire[i + 1]
    BY <1>0, HearIs DEF Commandless, Apart
  <1>2. /\ px \in PxType /\ Len(px.evts) <= INPUT_EVT_MAX /\ px.evts \in Seq(Nat)
    BY <1>0 DEF TypesInv, PxType
  <1> HIDE DEF e
  <1>3. /\ e.kind = "key" /\ Fits(px) => px'.evts = Append(px.evts, e.what)
        /\ ~ (e.kind = "key" /\ Fits(px)) => px'.evts = px.evts
        /\ e.kind = "key" => e.what \in Nat
    <2>1. /\ e.kind = "key" /\ Fits(px) => Listen(px, e).evts = Append(px.evts, e.what)
          /\ e.kind = "key" /\ ~ Fits(px) => Listen(px, e) = px
          /\ e.kind # "key" => Listen(px, e).evts = px.evts
      BY <1>1, <1>2, ListenIs
    <2>2. e.kind = "key" => e.what \in Nat
      BY <1>1, EventsAre
    <2> QED
      BY <1>1, <2>1, <2>2
  <1>4. KeyPlacesSame
    BY <1>1, PlacesKept DEF KeyPlacesSame
  <1>5. Heard' = Heard /\ Underway' = Underway
    BY <1>1, <1>4, UnderwaySame DEF Heard
  <1>6. /\ AllPlaced /\ HeardInOrder /\ PlacesInOrder /\ Ascending(px.evts) /\ WireInOrder
    BY <1>0, KeysAre
  <1>7. HeardInOrder' /\ PlacesInOrder'
    BY <1>1, <1>4, <1>6 DEF HeardInOrder, PlacesInOrder, KeyPlacesSame
  <1>8. \A i \in 1 .. Len(Wire) - 1 :
          /\ i + 1 \in 1 .. Len(Wire) /\ i \in 1 .. Len(Wire) /\ i \in DOMAIN Wire'
          /\ KeyAt(i)' <=> KeyAt(i + 1)
    BY <1>1 DEF KeyAt
  <1>9. WireInOrder'
    <2> SUFFICES ASSUME NEW i \in 1 .. Len(Wire) - 1, NEW j \in 1 .. Len(Wire) - 1,
                        KeyAt(i)', KeyAt(j)', i < j
                 PROVE  Wire'[i].what < Wire'[j].what
      BY <1>1 DEF WireInOrder
    <2>1. KeyAt(i + 1) /\ KeyAt(j + 1) /\ i + 1 < j + 1
      BY <1>1, <1>8
    <2>2. Wire[i + 1].what < Wire[j + 1].what
      BY <1>1, <1>6, <1>8, <2>1 DEF WireInOrder
    <2> QED
      BY <1>1, <2>2
  <1> DEFINE H == Heard  U == Underway  E == Range(px.evts)  W == Keys(Wire)
             Next_ == Keys(Wire')
  <1>10. \A k : k \in W <=> k \in Next_ \/ (e.kind = "key" /\ k = e.what)
    <2> TAKE k
    <2>1. k \in Keys(Wire) <=> \E i : (i \in DOMAIN Wire /\ KeyAt(i)) /\ Wire[i].what = k
      BY WireKeys
    <2>2. k \in Keys(Wire)' <=>
            \E i : (i \in DOMAIN Wire' /\ KeyAt(i)') /\ Wire'[i].what = k
      BY WireKeysNext
    <2>3. KeyAt(1) <=> e.kind = "key"
      BY <1>1 DEF KeyAt
    <2>4. k \in Next_ => k \in W
      <3> SUFFICES ASSUME k \in Keys(Wire)'
                   PROVE  k \in Keys(Wire)
        OBVIOUS
      <3>1. PICK i \in 1 .. Len(Wire) - 1 : KeyAt(i)' /\ Wire'[i].what = k
        BY <1>1, <2>2
      <3> QED
        BY <1>1, <1>8, <2>1, <3>1
    <2>5. e.kind = "key" /\ k = e.what => k \in W
      BY <1>1, <2>1, <2>3
    <2>6. k \in W => k \in Next_ \/ (e.kind = "key" /\ k = e.what)
      <3> SUFFICES ASSUME k \in Keys(Wire), ~ (e.kind = "key" /\ k = e.what)
                   PROVE  k \in Keys(Wire)'
        OBVIOUS
      <3>1. PICK i \in 1 .. Len(Wire) : KeyAt(i) /\ Wire[i].what = k
        BY <1>1, <2>1
      <3>2. i # 1
        BY <1>1, <2>3, <3>1
      <3>3. PICK j \in 1 .. Len(Wire) - 1 : i = j + 1
        BY <1>1, <3>2
      <3>4. j \in DOMAIN Wire' /\ KeyAt(j)'
        BY <1>8, <3>1, <3>3
      <3>5. Wire'[j].what = k
        BY <1>1, <3>1, <3>3
      <3> QED
        BY <2>2, <3>4, <3>5
    <2> QED
      BY <2>4, <2>5, <2>6
  <1>11. Placed(sent, H, U, E, W, unheard)
    BY <1>6 DEF AllPlaced
  <1>12. e.kind = "key" => \A k \in Next_ : e.what < k
    <2> SUFFICES ASSUME e.kind = "key", NEW k \in Keys(Wire)'
                 PROVE  e.what < k
      OBVIOUS
    <2>1. PICK i \in 1 .. Len(Wire) - 1 : KeyAt(i)' /\ Wire'[i].what = k
      BY <1>1, WireKeysNext
    <2>2. KeyAt(1)
      BY <1>1 DEF KeyAt
    <2>3. KeyAt(i + 1) /\ i + 1 \in 1 .. Len(Wire) /\ 1 \in 1 .. Len(Wire) /\ 1 < i + 1
      BY <1>1, <1>8, <2>1
    <2>4. Wire[i + 1].what = k
      BY <1>1, <2>1
    <2> QED
      BY <1>1, <1>6, <2>2, <2>3, <2>4 DEF WireInOrder
  <1>13. Keys(Wire)' = Next_
    OBVIOUS
  <1>14. CASE e.kind = "key" /\ Fits(px)
    <2>1. px'.evts = Append(px.evts, e.what) /\ unheard' = unheard /\ e.what \in W
      BY <1>1, <1>3, <1>10, <1>14
    <2>2. /\ Range(px'.evts) = E \cup {e.what}
          /\ Len(px.evts) \in Nat /\ DOMAIN px.evts = 1 .. Len(px.evts)
          /\ DOMAIN px'.evts = 1 .. Len(px.evts) + 1
          /\ \A i \in 1 .. Len(px.evts) : px'.evts[i] = px.evts[i]
          /\ px'.evts[Len(px.evts) + 1] = e.what
      BY <1>2, <1>3, <1>14, <2>1, AppendHeard
    <2>3. \A i \in 1 .. Len(px.evts) : px.evts[i] < e.what
      <3>1. \A i \in 1 .. Len(px.evts) : px.evts[i] \in E
        BY <2>2 DEF Range
      <3> QED
        BY <1>11, <2>1, <3>1 DEF Placed, Before
    <2>4. Ascending(px.evts)'
      BY <1>6, <2>2, <2>3 DEF Ascending
    <2> HIDE DEF H, U, E, W, Next_
    <2>5. Placed(sent, H, U, E \cup {e.what}, Next_, unheard)
      BY <1>10, <1>11, <1>12, <1>14, <2>1 DEF Placed, Before
    <2>6. AllPlaced'
      BY <1>1, <1>5, <1>13, <2>1, <2>2, <2>5 DEF AllPlaced, H, U
    <2> QED
      BY <1>7, <1>9, <2>4, <2>6, KeysAreNext
  <1>15. CASE e.kind = "key" /\ ~ Fits(px)
    <2>1. px'.evts = px.evts /\ unheard' = unheard \cup {e.what} /\ e.what \in W
      BY <1>1, <1>3, <1>10, <1>15
    <2>2. Ascending(px.evts)'
      BY <1>6, <2>1 DEF Ascending
    <2> HIDE DEF H, U, E, W, Next_
    <2>3. Placed(sent, H, U, E, Next_, unheard \cup {e.what})
      <3>1. W \subseteq Nat
        <4>1. W \subseteq 1 .. sent
          BY <1>11 DEF Placed
        <4> QED
          BY <1>0, <4>1 DEF TypesInv
      <3>2. e.what \notin H \cup U \cup E
        BY <1>3, <1>15, <1>11, <2>1 DEF Placed, Before
      <3>3. e.what \notin Next_
        BY <1>3, <1>12, <1>15
      <3> QED
        BY <1>10, <1>11, <1>12, <1>15, <2>1, <3>2, <3>3 DEF Placed, Before
    <2>4. AllPlaced'
      BY <1>1, <1>5, <1>13, <2>1, <2>3 DEF AllPlaced, H, U, E
    <2> QED
      BY <1>7, <1>9, <2>2, <2>4, KeysAreNext
  <1>16. CASE e.kind # "key"
    <2>1. px'.evts = px.evts /\ unheard' = unheard
      BY <1>1, <1>3, <1>16
    <2>2. Ascending(px.evts)'
      BY <1>6, <2>1 DEF Ascending
    <2>3. W = Next_
      <3> HIDE DEF W, Next_
      <3> QED
        BY <1>10, <1>16
    <2>4. AllPlaced'
      <3>1. Placed(sent, H, U, E, Next_, unheard)
        BY <1>11, <2>3
      <3> HIDE DEF Next_
      <3> QED
        BY <1>1, <1>5, <1>13, <2>1, <3>1 DEF AllPlaced
    <2> QED
      BY <1>7, <1>9, <2>2, <2>4, KeysAreNext
  <1> QED
    BY <1>14, <1>15, <1>16

(* The dispatching thread waits while its events are collected.            *)
LEMMA Collecting ==
  ASSUME WlInv, OneDispatcher, ProxyCollect
  PROVE  \E d \in Threads :
           /\ Dispatchers = {d} /\ th[d].pc = "await" /\ ~ resp_wl_efd
           /\ KeyPlaces(d) = {} /\ StatePlaces(d) = {} /\ Underway = {} /\ Undelivered = {}
           /\ KeyPlaces(d)' = 1 .. Len(px.evts)
           /\ StatePlaces(d)' = 1 .. Cardinality(Told(px))
           /\ \A u \in Threads \ {d} : KeyPlaces(u)' = {} /\ StatePlaces(u)' = {}
           /\ rb' = Collected(px) /\ px'.evts = << >> /\ bs' = bs /\ Wire' = Wire
           /\ unheard' = unheard /\ sent' = sent /\ current' = current /\ life' = life
           /\ px'.shells = px.shells
           /\ \A s \in Slots : /\ px'.wss[s].last = px.wss[s].last
                               /\ px'.wss[s].pending = (px.wss[s].pending /\ s \notin px.shells)
  <1>0. TypesInv /\ ChannelInv
    BY DEF WlInv
  <1>1. /\ th' = th /\ bs' = bs /\ proxy_pc = "collect" /\ ctrl.op = "roundtrip"
        /\ resp_wl_efd' /\ rb' = Collected(px) /\ px'.evts = << >>
        /\ queue' = queue /\ socket' = socket /\ unheard' = unheard /\ sent' = sent
        /\ current' = current /\ life' = life /\ px'.shells = px.shells
        /\ \A s \in Slots : /\ px'.wss[s].last = px.wss[s].last
                            /\ px'.wss[s].pending = (px.wss[s].pending /\ s \notin px.shells)
    BY <1>0, Windows, ProxyCollectIs DEF Answers, Apart, ChannelInv
  <1>2. PICK d \in Threads : th[d].pc = "await" /\ ~ resp_wl_efd
    BY <1>1, Served
  <1>3. Dispatchers = {d}
    BY <1>0, <1>2 DEF ChannelInv, OneDispatcher, DispatchPcs
  <1>4. KeyPlaces(d) = {} /\ StatePlaces(d) = {}
    BY <1>2, PlacesNone
  <1>5. Underway = {} /\ Undelivered = {}
    BY <1>3, <1>4, DispatcherHas
  <1>6. rb'.count = Len(px.evts) /\ rb'.wss_count = Cardinality(Told(px))
    BY <1>1 DEF Collected
  <1>7. KeyPlaces(d)' = 1 .. Len(px.evts) /\ StatePlaces(d)' = 1 .. Cardinality(Told(px))
    BY <1>1, <1>2, <1>6 DEF KeyPlaces, StatePlaces, At
  <1>8. \A u \in Threads \ {d} : th[u].pc \notin DispatchPcs
    BY <1>0, <1>3 DEF ChannelInv
  <1>9. \A u \in Threads \ {d} : KeyPlaces(u)' = {} /\ StatePlaces(u)' = {}
    BY <1>1, <1>8, PlacesNoneNext DEF Handing, DispatchPcs
  <1>10. Wire' = Wire
    BY <1>1 DEF Wire
  <1> QED
    BY <1>1, <1>2, <1>3, <1>4, <1>5, <1>7, <1>9, <1>10

LEMMA KeysCollected ==
  ASSUME WlInv, OneDispatcher, ProxyCollect
  PROVE  KeysInv'
  <1>0. /\ TypesInv /\ KeysInv
        /\ AllPlaced /\ HeardInOrder /\ PlacesInOrder /\ Ascending(px.evts) /\ WireInOrder
    BY KeysAre DEF WlInv
  <1>1. PICK d \in Threads :
           /\ Dispatchers = {d} /\ Underway = {}
           /\ KeyPlaces(d)' = 1 .. Len(px.evts)
           /\ \A u \in Threads \ {d} : KeyPlaces(u)' = {}
           /\ rb' = Collected(px) /\ px'.evts = << >> /\ bs' = bs /\ Wire' = Wire
           /\ unheard' = unheard /\ sent' = sent
    BY Collecting
  <1>2. /\ Len(px.evts) \in Nat /\ DOMAIN px.evts = 1 .. Len(px.evts)
        /\ Len(px.evts) <= INPUT_EVT_MAX /\ INPUT_EVT_MAX \in Nat
    BY <1>0, SlotsAre DEF TypesInv, PxType
  <1>3. \A i \in 1 .. Len(px.evts) : rb'.keys[i] = px.evts[i]
    BY <1>0, <1>1, Windows, CollectedIs
  <1>4. Underway' = Range(px.evts)
    <2>1. Underway' = {rb'.keys[i] : i \in KeyPlaces(d)'}
      BY <1>1, DispatcherHasNext
    <2>2. Underway' = {px.evts[i] : i \in 1 .. Len(px.evts)}
      BY <1>1, <1>3, <2>1
    <2> QED
      BY <1>2, <2>2 DEF Range
  <1>5. Range(px'.evts) = {} /\ Heard' = Heard
    BY <1>1 DEF Range, Heard
  <1>6. AllPlaced'
    BY <1>0, <1>1, <1>4, <1>5 DEF AllPlaced, Placed, Before
  <1>7. PlacesInOrder'
    <2>1. /\ KeyPlaces(d)' \subseteq 1 .. INPUT_EVT_MAX
          /\ \A i, j \in KeyPlaces(d)' : i < j => rb'.keys[i] < rb'.keys[j]
      BY <1>0, <1>1, <1>2, <1>3 DEF Ascending
    <2>2. \A u \in Threads : KeyPlaces(u)' = {} \/ KeyPlaces(u)' = KeyPlaces(d)'
      BY <1>1
    <2> QED
      BY <2>1, <2>2 DEF PlacesInOrder
  <1>8. HeardInOrder' /\ WireInOrder' /\ Ascending(px.evts)'
    BY <1>0, <1>1 DEF HeardInOrder, WireInOrder, KeyAt, Ascending
  <1> QED
    BY <1>6, <1>7, <1>8, KeysAreNext

(* The keyboard's listener hears of the next key of the buffer, or nobody. *)
LEMMA KeyDelivered ==
  ASSUME WlInv, OneDispatcher, NEW t \in Threads, DeliverKey(t)
  PROVE  KeysInv'
  <1>0. /\ TypesInv /\ KeysInv
        /\ AllPlaced /\ HeardInOrder /\ PlacesInOrder /\ Ascending(px.evts) /\ WireInOrder
    BY KeysAre DEF WlInv
  <1>1. PICK k : k = rb.keys[th[t].i]
    OBVIOUS
  <1>2. /\ At(t, "keys") /\ th[t].i <= th[t].n /\ th'[t].pc = "keys"
        /\ th'[t].i = th[t].i + 1 /\ th'[t].n = th[t].n
        /\ \A u \in Threads \ {t} : th'[u] = th[u]
        /\ k \in Nat /\ t \in Dispatchers
        /\ rb' = rb /\ resp_wl_efd' = resp_wl_efd /\ px' = px /\ Wire' = Wire /\ sent' = sent
        /\ bs.keyboard => bs'.heard = Append(bs.heard, k) /\ unheard' = unheard
        /\ ~ bs.keyboard => bs' = bs /\ unheard' = unheard \cup {k}
    BY <1>0, <1>1, KeyIs DEF To, Only, Stays, Outside, Wire
  <1>3. th[t].i \in Nat /\ th[t].n \in Nat /\ bs.heard \in Seq(Nat) /\ sent \in Nat
    BY <1>0 DEF TypesInv, ThreadsType, ThType, BsType
  <1>4. /\ KeyPlaces(t) = th[t].i .. th[t].n /\ KeyPlaces(t)' = th[t].i + 1 .. th[t].n
        /\ KeyPlaces(t) = {th[t].i} \cup KeyPlaces(t)' /\ th[t].i \in KeyPlaces(t)
        /\ \A j \in KeyPlaces(t)' : th[t].i < j
    <2>1. KeyPlaces(t) = th[t].i .. th[t].n
      BY <1>2 DEF KeyPlaces, At
    <2>2. KeyPlaces(t)' = th[t].i + 1 .. th[t].n
      BY <1>2 DEF KeyPlaces, At
    <2>3. PICK i \in Nat, n \in Nat : i = th[t].i /\ n = th[t].n
      BY <1>3
    <2>4. i .. n = {i} \cup (i + 1 .. n) /\ i \in i .. n /\ \A j \in i + 1 .. n : i < j
      BY <1>2, <2>3
    <2> QED
      BY <2>1, <2>2, <2>3, <2>4
  <1>5. PICK d \in Threads : Dispatchers = {d}
    BY DEF OneDispatcher
  <1>6. d = t
    BY <1>2, <1>5
  <1> DEFINE U == {rb.keys[i] : i \in KeyPlaces(t)'}
  <1>7. Underway' = U /\ Underway = {k} \cup U
    <2>1. Underway = {rb.keys[i] : i \in KeyPlaces(t)}
      BY <1>5, <1>6, DispatcherHas
    <2>2. Underway' = {rb'.keys[i] : i \in KeyPlaces(t)'}
      BY <1>5, <1>6, DispatcherHasNext
    <2> QED
      BY <1>1, <1>2, <1>4, <2>1, <2>2
  <1>8. \A l \in U : k < l
    BY <1>0, <1>1, <1>4 DEF PlacesInOrder
  <1>9. \A u \in Threads \ {t} : KeyPlaces(u)' = KeyPlaces(u)
    BY <1>2, PlacesKept
  <1>10. PlacesInOrder'
    BY <1>0, <1>2, <1>4, <1>9 DEF PlacesInOrder
  <1>11. WireInOrder' /\ Ascending(px.evts)'
    BY <1>0, <1>2 DEF WireInOrder, KeyAt, Ascending
  <1> DEFINE H == Heard  E == Range(px.evts)  W == Keys(Wire)
  <1>12. Placed(sent, H, {k} \cup U, E, W, unheard)
    BY <1>0, <1>7 DEF AllPlaced
  <1>13. k \in 1 .. sent /\ k # 0
    <2> HIDE DEF H, U, E, W
    <2>1. k \in 1 .. sent
      BY <1>12 DEF Placed
    <2> QED
      BY <1>3, <2>1
  <1>14. CASE bs.keyboard
    <2>1. bs'.heard = Append(bs.heard, k) /\ unheard' = unheard
      BY <1>2, <1>14
    <2>2. /\ Len(bs.heard) \in Nat /\ DOMAIN bs.heard = 1 .. Len(bs.heard)
          /\ DOMAIN bs'.heard = 1 .. Len(bs.heard) + 1
          /\ \A i \in 1 .. Len(bs.heard) : bs'.heard[i] = bs.heard[i]
          /\ bs'.heard[Len(bs.heard) + 1] = k
          /\ Range(bs'.heard) = Range(bs.heard) \cup {k}
      BY <1>2, <1>3, <2>1, AppendHeard
    <2>3. Heard' = H \cup {k}
      BY <1>13, <2>2 DEF Heard
    <2>4. \A i \in 1 .. Len(bs.heard) : bs.heard[i] < k
      <3> SUFFICES ASSUME NEW i \in 1 .. Len(bs.heard)
                   PROVE  bs.heard[i] < k
        OBVIOUS
      <3>1. bs.heard[i] = 0 \/ bs.heard[i] \in H
        BY <2>2 DEF Heard, Range
      <3>2. CASE bs.heard[i] = 0
        BY <1>3, <1>13, <3>2
      <3>3. CASE bs.heard[i] \in H
        <4> HIDE DEF H, U, E, W
        <4> QED
          BY <1>12, <3>3 DEF Placed, Before
      <3> QED
        BY <3>1, <3>2, <3>3
    <2>5. HeardInOrder'
      <3> SUFFICES ASSUME NEW i \in 1 .. Len(bs.heard) + 1, NEW j \in 1 .. Len(bs.heard) + 1,
                          i < j, bs'.heard[j] # 0
                   PROVE  bs'.heard[i] < bs'.heard[j]
        BY <2>2 DEF HeardInOrder
      <3>1. i \in 1 .. Len(bs.heard)
        BY <2>2
      <3>2. CASE j \in 1 .. Len(bs.heard)
        BY <1>0, <2>2, <3>1, <3>2 DEF HeardInOrder
      <3>3. CASE j = Len(bs.heard) + 1
        BY <2>2, <2>4, <3>1, <3>3
      <3> QED
        BY <2>2, <3>2, <3>3
    <2>6. AllPlaced'
      <3>1. Placed(sent, H \cup {k}, U, E, W, unheard)
        <4> HIDE DEF H, U, E, W
        <4> QED
          BY <1>8, <1>12 DEF Placed, Before
      <3> HIDE DEF U
      <3> QED
        BY <1>2, <1>7, <2>1, <2>3, <3>1 DEF AllPlaced
    <2> QED
      BY <1>10, <1>11, <2>5, <2>6, KeysAreNext
  <1>15. CASE ~ bs.keyboard
    <2>1. bs' = bs /\ unheard' = unheard \cup {k}
      BY <1>2, <1>15
    <2>2. HeardInOrder' /\ Heard' = H
      BY <1>0, <2>1 DEF HeardInOrder, Heard
    <2>3. Placed(sent, H, U, E, W, unheard \cup {k})
      <3> HIDE DEF H, U, E, W
      <3>1. k \notin H \cup U \cup E \cup W
        BY <1>2, <1>8, <1>12 DEF Placed, Before
      <3> QED
        BY <1>12, <3>1 DEF Placed, Before
    <2>4. AllPlaced'
      <3> HIDE DEF U
      <3> QED
        BY <1>2, <1>7, <2>1, <2>2, <2>3 DEF AllPlaced
    <2> QED
      BY <1>10, <1>11, <2>2, <2>4, KeysAreNext
  <1> QED
    BY <1>14, <1>15

(* Every step keeps the keys at their places, in their order.              *)
LEMMA KeysStep ==
  ASSUME WlInv, OneDispatcher, OneCreator, PlainWindows, [Next]_vars
  PROVE  KeysInv'
  <1>0. TypesInv /\ KeysInv
    BY DEF WlInv
  <1>1. CASE Quietly
    BY <1>0, <1>1, HeardZero DEF Quietly, PlacesSame, KeyPlacesSame
  <1>2. CASE SendKey
    <2>1. /\ bs' = bs /\ rb' = rb /\ th' = th /\ resp_wl_efd' = resp_wl_efd /\ px' = px
          /\ unheard' = unheard /\ sent' = sent + 1 /\ Key(sent + 1) \in Event
          /\ Wire' = Wire \o <<Key(sent + 1)>>
      BY <1>0, <1>2, SendKeyIs DEF Commandless, Apart
    <2>2. <<Key(sent + 1)>> \in Seq(Event)
      BY <2>1
    <2> QED
      BY <1>0, <2>1, <2>2, KeysSent, PlacesKept DEF KeyPlacesSame
  <1>3. ASSUME NEW s \in Slots, NEW v \in States, SendState(s, v)
        PROVE  KeysInv'
    <2>1. /\ bs' = bs /\ rb' = rb /\ th' = th /\ resp_wl_efd' = resp_wl_efd /\ px' = px
          /\ unheard' = unheard /\ sent' = sent
      BY <1>0, <1>3, SendStateIs DEF Commandless, Apart
    <2>2. PICK n \in Seq(Event) : n \in News(s, v) /\ Wire' = Wire \o n
      BY <1>0, <1>3, SendStateIs
    <2>3. \A i \in 1 .. Len(n) : n[i].kind # "key"
      <3>1. \/ n = <<State(s, v)>> \/ n = <<State(s, v), Configure(s)>>
            \/ n = <<Configure(s), State(s, v)>>
        BY <2>2 DEF News
      <3>2. State(s, v).kind # "key" /\ Configure(s).kind # "key"
        BY EventsAre
      <3> QED
        BY <3>1, <3>2
    <2>4. KeyPlacesSame
      BY <2>1, PlacesKept DEF KeyPlacesSame
    <2> QED
      BY <1>0, <2>1, <2>2, <2>3, <2>4, KeysSent
  <1>4. CASE ProxyHandle /\ (GetShellSurface \/ SurfaceRequest)
    <2>1. /\ bs' = bs /\ rb' = rb /\ th' = th /\ px'.evts = px.evts
          /\ unheard' = unheard /\ sent' = sent /\ queue' = queue /\ socket' = socket
          /\ proxy_pc = "handle" /\ ctrl.op \in {"shell", "show", "destroy"}
      BY <1>0, <1>4, ShellArg, GetShellSurfaceIs, SurfaceRequestIs DEF Answers, Apart
    <2>2. \A u \in Threads : th[u].pc # "await"
      BY <2>1, Served DEF Waiting
    <2>3. KeyPlacesSame
      BY <2>1, <2>2, PlacesKept DEF KeyPlacesSame
    <2> QED
      BY <1>0, <2>1, <2>3, HeardZero DEF Wire
  <1>5. ASSUME NEW t \in Threads, FocusFirst(t)
        PROVE  KeysInv'
    <2>1. /\ At(t, "focus") /\ Only(t) /\ th'[t].pc = "keys" /\ th'[t].i = 1
          /\ th'[t].n = rb.count /\ rb' = rb /\ resp_wl_efd' = resp_wl_efd
          /\ px' = px /\ Wire' = Wire /\ unheard' = unheard /\ sent' = sent
          /\ Entered(bs', bs)
      BY <1>5, FocusIs DEF To, Stays, Outside, Wire
    <2>2. KeyPlaces(t)' = KeyPlaces(t)
      BY <2>1 DEF KeyPlaces, At
    <2>3. KeyPlacesSame
      BY <2>1, <2>2, PlacesKept DEF KeyPlacesSame, Only
    <2> QED
      BY <1>0, <2>1, <2>3, HeardZero DEF Entered
  <1>6. ASSUME NEW t \in Threads, DeliverState(t)
        PROVE  KeysInv'
    <2>1. /\ At(t, "states") /\ Only(t) /\ th'[t].pc = "states"
          /\ rb' = rb /\ resp_wl_efd' = resp_wl_efd
          /\ px' = px /\ Wire' = Wire /\ unheard' = unheard /\ sent' = sent
          /\ (bs'.heard = bs.heard \/ bs'.heard = Append(bs.heard, 0))
      BY <1>6, StateIs DEF To, Stays, Outside, Wire
    <2>2. KeyPlaces(t)' = KeyPlaces(t)
      BY <2>1 DEF KeyPlaces, At
    <2>3. KeyPlacesSame
      BY <2>1, <2>2, PlacesKept DEF KeyPlacesSame, Only
    <2> QED
      BY <1>0, <2>1, <2>3, HeardZero
  <1> QED
    BY <1>1, <1>2, <1>3, <1>4, <1>5, <1>6, QuietOrLoud, KeysHeard, KeysCollected,
       KeyDelivered
    DEF Loudly, Compositor, States

-----------------------------------------------------------------------------
(* States.                                                                 *)

(* The wire may get keys at its end.                                       *)
WireMore == /\ \A i \in DOMAIN Wire : i \in DOMAIN Wire' /\ Wire'[i] = Wire[i]
            /\ \A i \in DOMAIN Wire' : i \in DOMAIN Wire \/ Wire'[i].kind = "key"

(* A step that neither takes a state on nor makes another current.         *)
LEMMA StatesKept ==
  ASSUME WlInv, rb' = rb, Undelivered' = Undelivered, LivesOn,
         px.shells \subseteq px'.shells, \A s \in Slots : px'.wss[s] = px.wss[s],
         current' = current, bs'.told = bs.told, WireMore,
         bs.enter_sent => bs'.enter_sent /\ bs'.keyboard_focus = bs.keyboard_focus
  PROVE  StatesInv'
  <1>0. /\ TypesInv /\ PlacesInv /\ NewsInv /\ ConfigureInv /\ FullInv /\ FocusInv
        /\ \A s \in px.shells : s - 1 \in Offsets
    BY DEF WlInv, StatesInv, LifeInv
  <1>1. \A s : NewsOf(s)' = NewsOf(s)
    BY DEF NewsOf, WireMore
  <1>2. \A s : \A i \in NewsOf(s) : Wire'[i] = Wire[i]
    BY DEF NewsOf, WireMore
  <1>3. \A s : Coming(s)' = Coming(s)
    BY DEF Coming
  <1>4. \A s, v : WillBe(s, v)' <=> WillBe(s, v)
    BY <1>3 DEF WillBe
  <1>5. \A s \in Slots : Known(s)' = Known(s)
    BY DEF Known
  <1>6. \A s \in Slots : Silent(s) => Silent(s)'
    BY <1>1, <1>3 DEF Silent
  <1>7. \A o \in Offsets : Public(o) => Public(o)'
    BY DEF LivesOn
  <1>8. NoneGone' => NoneGone
    BY DEF NoneGone, LivesOn
  <1>9. PlacesInv'
    BY <1>0, <1>7 DEF PlacesInv
  <1>10. NewsInv'
    <2>1. \A s \in Slots : Sourced(s)'
      BY <1>0, <1>1, <1>7 DEF NewsInv, Sourced
    <2>2. \A s \in Slots : Current(s) => Current(s)'
      BY <1>1, <1>2, <1>4, <1>5 DEF Current
    <2> QED
      BY <1>0, <1>6, <2>1, <2>2 DEF NewsInv, LivesOn
  <1>11. ConfigureInv'
    <2> SUFFICES ASSUME NEW i \in DOMAIN Wire', NEW r, r = Wire'[i].what,
                        Wire'[i].kind = "configure"
                 PROVE  Beside(i, r)'
      BY DEF ConfigureInv
    <2>1. i \in DOMAIN Wire /\ Wire'[i] = Wire[i]
      BY DEF WireMore
    <2>2. Beside(i, r)
      BY <1>0, <2>1 DEF ConfigureInv
    <2>3. r \in Slots
      <3>1. queue \in Seq(Event) /\ socket \in Seq(Event)
        BY <1>0 DEF TypesInv, Events
      <3> QED
        BY <2>1, <3>1, WireIs, EventsAre
    <2> QED
      BY <2>1, <2>2, <2>3 DEF Beside, WireMore
  <1>12. FullInv'
    <2>1. \A s, r \in Slots : NotBoth(s, r) => NotBoth(s, r)'
      BY <1>4, <1>5 DEF NotBoth
    <2>2. \A r, i, j : Left(r, i, j) => Left(r, i, j)'
      BY <1>1, <1>2 DEF Left
    <2>3. \A s, r \in Slots : Leaves(s, r) => Leaves(s, r)'
      BY <1>1, <1>2, <1>5, <2>2 DEF Leaves
    <2> QED
      BY <1>0, <1>8, <2>1, <2>3 DEF FullInv
  <1>13. FocusInv'
    BY <1>0, <1>3, <1>8 DEF FocusInv
  <1> QED
    BY <1>9, <1>10, <1>11, <1>12, <1>13 DEF StatesInv

(* The compositor gives a shown surface another state.                     *)
LEMMA StateSent ==
  ASSUME WlInv, OneDispatcher, NEW s \in Slots, NEW v \in States, SendState(s, v)
  PROVE  StatesInv'
  <1>0. /\ TypesInv /\ LifeInv /\ StatesInv
        /\ PlacesInv /\ NewsInv /\ ConfigureInv /\ FullInv /\ FocusInv
        /\ \A r \in Slots : r \in Nat
    BY SlotsAre DEF WlInv, StatesInv
  <1>1. /\ current[s] # 0 /\ current[s] # v
        /\ v = FULLSCREEN => \A r \in Slots : current[r] # FULLSCREEN
        /\ rb' = rb /\ px' = px /\ bs' = bs /\ life' = life /\ th' = th
        /\ resp_wl_efd' = resp_wl_efd
        /\ current' = [current EXCEPT ![s] = v]
    BY <1>0, SendStateIs DEF Commandless, Apart
  <1>2. PICK n \in Seq(Event) : n \in News(s, v) /\ Wire' = Wire \o n
    BY <1>0, SendStateIs
  <1>3. /\ current'[s] = v /\ \A r \in Slots \ {s} : current'[r] = current[r]
        /\ \A r \in Slots : current[r] \in States \cup {0}
    BY <1>0, <1>1 DEF TypesInv, CurrentType
  <1>4. PICK l \in Nat : l = Len(Wire)
    <2>1. queue \in Seq(Event) /\ socket \in Seq(Event)
      BY <1>0 DEF TypesInv, Events
    <2>2. Len(Wire) \in Nat
      BY <2>1, WireIs
    <2> QED
      BY <2>2
  <1>5. /\ DOMAIN Wire = 1 .. l /\ Len(n) \in Nat
        /\ DOMAIN Wire' = 1 .. l + Len(n)
        /\ \A i \in 1 .. l : i \in DOMAIN Wire' /\ Wire'[i] = Wire[i]
        /\ \A i \in 1 .. Len(n) : Wire'[l + i] = n[i]
    BY <1>0, <1>2, <1>4, WireIs, ConcatAppend DEF TypesInv, Events
  (* What is new. *)
  <1>6. /\ Len(n) \in {1, 2}
        /\ \A i \in 1 .. Len(n) : n[i].what = s /\ n[i].state = v /\ n[i].kind # "key"
        /\ \A i \in 1 .. Len(n) : n[i].kind = "configure" =>
             /\ v = FULLSCREEN
             /\ \/ i + 1 \in 1 .. Len(n) /\ n[i + 1] = State(s, FULLSCREEN)
                \/ i - 1 \in 1 .. Len(n) /\ n[i - 1] = State(s, FULLSCREEN)
    <2>1. \/ n = <<State(s, v)>>
          \/ v = FULLSCREEN /\ n = <<State(s, v), Configure(s)>>
          \/ v = FULLSCREEN /\ n = <<Configure(s), State(s, v)>>
      BY <1>2 DEF News
    <2>2. /\ State(s, v).kind = "state" /\ State(s, v).what = s /\ State(s, v).state = v
          /\ Configure(s).kind = "configure" /\ Configure(s).what = s
          /\ Configure(s).state = FULLSCREEN
      BY EventsAre
    <2>3. CASE n = <<State(s, v)>>
      BY <2>2, <2>3
    <2>4. CASE v = FULLSCREEN /\ n = <<State(s, v), Configure(s)>>
      <3>1. Len(n) = 2 /\ n[1] = State(s, v) /\ n[2] = Configure(s)
        BY <2>4
      <3> QED
        BY <2>2, <2>4, <3>1
    <2>5. CASE v = FULLSCREEN /\ n = <<Configure(s), State(s, v)>>
      <3>1. Len(n) = 2 /\ n[1] = Configure(s) /\ n[2] = State(s, v)
        BY <2>5
      <3> QED
        BY <2>2, <2>5, <3>1
    <2> QED
      BY <2>1, <2>3, <2>4, <2>5
  <1>7. \A i \in DOMAIN Wire' : \/ i \in 1 .. l
                                \/ i - l \in 1 .. Len(n) /\ l < i /\ l + (i - l) = i
    BY <1>4, <1>5
  <1>8. \A i \in DOMAIN Wire' : i \notin 1 .. l =>
          Wire'[i].what = s /\ Wire'[i].state = v /\ Wire'[i].kind # "key" /\ l < i
    <2> SUFFICES ASSUME NEW i \in DOMAIN Wire', i \notin 1 .. l
                 PROVE  Wire'[i].what = s /\ Wire'[i].state = v /\ Wire'[i].kind # "key" /\ l < i
      OBVIOUS
    <2>1. i - l \in 1 .. Len(n) /\ l < i /\ Wire'[i] = n[i - l]
      BY <1>5, <1>7
    <2> QED
      BY <1>6, <2>1
  <1>9. \A r : NewsOf(r)' = IF r = s THEN NewsOf(r) \cup (l + 1 .. l + Len(n)) ELSE NewsOf(r)
    <2>1. \A i : i \in l + 1 .. l + Len(n) <=> i \in DOMAIN Wire' /\ i \notin 1 .. l
      BY <1>4, <1>5
    <2> TAKE r
    <2>2. \A i : i \in NewsOf(r)' <=> /\ i \in DOMAIN Wire' /\ Wire'[i].kind # "key"
                                      /\ Wire'[i].what = r
      BY DEF NewsOf
    <2>3. \A i : i \in NewsOf(r) <=> /\ i \in 1 .. l /\ Wire[i].kind # "key" /\ Wire[i].what = r
      BY <1>5 DEF NewsOf
    <2>4. \A i : i \in NewsOf(r)' <=> i \in NewsOf(r) \/ (r = s /\ i \in l + 1 .. l + Len(n))
      BY <1>5, <1>8, <2>1, <2>2, <2>3
    <2> QED
      BY <2>4
  <1>10. /\ \A r : \A i \in NewsOf(r) : i \in 1 .. l /\ Wire'[i] = Wire[i]
         /\ l + 1 \in NewsOf(s)' /\ \A i \in 1 .. l : i < l + 1
         /\ \A i \in l + 1 .. l + Len(n) : Wire'[i].state = v /\ l < i
         /\ Wire'[l + 1].state = v
    <2>1. \A i \in l + 1 .. l + Len(n) : i \in DOMAIN Wire' /\ i \notin 1 .. l
      BY <1>4, <1>5
    <2>2. l + 1 \in l + 1 .. l + Len(n)
      <3>1. 1 \in 1 .. Len(n) /\ Len(n) \in Nat
        BY <1>6
      <3> QED
        BY <1>4, <3>1
    <2>3. \A r : \A i \in NewsOf(r) : i \in 1 .. l
      BY <1>5 DEF NewsOf
    <2>4. \A i \in 1 .. l : i < l + 1
      BY <1>4
    <2>5. \A i \in l + 1 .. l + Len(n) : Wire'[i].state = v /\ l < i
      BY <1>8, <2>1
    <2> QED
      BY <1>5, <1>9, <2>2, <2>3, <2>4, <2>5
  (* What is as it was. *)
  <1>11. /\ \A r : KeyPlaces(r)' = KeyPlaces(r) /\ StatePlaces(r)' = StatePlaces(r)
         /\ Undelivered' = Undelivered
    BY <1>1 DEF KeyPlaces, StatePlaces, At, Undelivered
  <1>12. \A r : Coming(r)' = Coming(r)
    BY <1>1, <1>11 DEF Coming
  <1>13. /\ \A r, x : WillBe(r, x)' <=> WillBe(r, x)
         /\ \A r : Known(r)' = Known(r)
         /\ \A o : Public(o)' <=> Public(o)
         /\ NoneGone' <=> NoneGone
    BY <1>1, <1>12 DEF WillBe, Known, Public, NoneGone
  <1>14. s - 1 \in Offsets /\ Public(s - 1) /\ s \in px.shells
    <2>1. s - 1 \in Offsets /\ Public(s - 1)
      BY <1>0, <1>1 DEF LifeInv
    <2>2. (s - 1) + 1 = s
      BY <1>0
    <2>3. WindowLife(s - 1)
      BY <1>0, <2>1 DEF LifeInv
    <2>4. (s - 1) + 1 \in px.shells
      BY <2>1, <2>3 DEF WindowLife, Public
    <2> QED
      BY <2>1, <2>2, <2>4
  <1>15. PlacesInv'
    BY <1>0, <1>1, <1>11, <1>13 DEF PlacesInv
  <1>16. NewsInv'
    <2>1. \A r \in Slots : Sourced(r)'
      BY <1>0, <1>1, <1>9, <1>13, <1>14 DEF NewsInv, Sourced
    <2>2. ASSUME NEW r \in Slots \ {s}, r - 1 \in Offsets
          PROVE  life'[r - 1] = "gone" \/ (current'[r] = 0 /\ Silent(r)') \/ Current(r)'
      <3>1. Silent(r) => Silent(r)'
        BY <1>1, <1>9, <1>12 DEF Silent
      <3>2. Current(r) => Current(r)'
        BY <1>1, <1>3, <1>9, <1>10, <1>13 DEF Current
      <3> QED
        BY <1>0, <1>1, <1>3, <2>2, <3>1, <3>2 DEF NewsInv
    <2>3. life'[s - 1] = "gone" \/ Current(s)'
      <3>1. Silent(s) \/ Current(s) \/ life[s - 1] = "gone"
        BY <1>0, <1>14 DEF NewsInv
      <3>2. CASE Current(s)
        <4>1. current'[s] # 0 /\ (px.wss[s].pending \/ WillBe(s, Known(s)))
          BY <1>3, <3>2 DEF Current, States, NORMAL, FULLSCREEN
        <4>2. \A i \in NewsOf(s)' : \/ Wire'[i].state = v
                                    \/ \E k \in NewsOf(s)' : i < k /\ Wire'[k].state = v
          BY <1>9, <1>10
        <4> QED
          BY <1>1, <1>3, <1>10, <1>13, <4>1, <4>2 DEF Current
      <3>3. CASE life[s - 1] = "gone"
        BY <1>1, <3>3
      <3> QED
        BY <1>0, <1>1, <1>14, <3>2, <3>3 DEF NewsInv
    <2> QED
      BY <2>1, <2>2, <2>3 DEF NewsInv
  <1>17. ConfigureInv'
    <2> SUFFICES ASSUME NEW i \in DOMAIN Wire', NEW r, r = Wire'[i].what,
                        Wire'[i].kind = "configure"
                 PROVE  Beside(i, r)'
      BY DEF ConfigureInv
    <2>1. CASE i \in 1 .. l
      <3>1. Wire'[i] = Wire[i] /\ Beside(i, r)
        BY <1>0, <1>5, <2>1 DEF ConfigureInv
      <3> QED
        BY <1>1, <1>5, <3>1 DEF Beside
    <2>2. CASE i \notin 1 .. l
      <3>1. PICK j \in 1 .. Len(n) : j = i - l
        BY <1>7, <2>2
      <3>2. i = l + j /\ j \in Nat
        BY <1>7, <2>2, <3>1
      <3>3. Wire'[i] = n[j] /\ r = s
        BY <1>5, <1>8, <2>2, <3>2
      <3>4. \/ j + 1 \in 1 .. Len(n) /\ n[j + 1] = State(s, FULLSCREEN)
            \/ j - 1 \in 1 .. Len(n) /\ n[j - 1] = State(s, FULLSCREEN)
        BY <1>6, <3>3
      <3>5. CASE j + 1 \in 1 .. Len(n) /\ n[j + 1] = State(s, FULLSCREEN)
        <4>1. i + 1 = l + (j + 1) /\ i + 1 \in DOMAIN Wire'
          BY <1>4, <1>5, <3>2, <3>5
        <4> QED
          BY <1>5, <3>3, <3>5, <4>1 DEF Beside
      <3>6. CASE j - 1 \in 1 .. Len(n) /\ n[j - 1] = State(s, FULLSCREEN)
        <4>1. i - 1 = l + (j - 1) /\ i - 1 \in DOMAIN Wire'
          BY <1>4, <1>5, <3>2, <3>6
        <4> QED
          BY <1>5, <3>3, <3>6, <4>1 DEF Beside
      <3> QED
        BY <3>4, <3>5, <3>6
    <2> QED
      BY <2>1, <2>2
  <1>18. FullInv'
    <2> SUFFICES ASSUME NoneGone, NEW a \in Slots, NEW b \in Slots, a # b
                 PROVE  NotBoth(a, b)' /\ Leaves(a, b)'
      BY <1>13 DEF FullInv
    <2>0. NotBoth(a, b) /\ Leaves(a, b)
      BY <1>0 DEF FullInv
    <2>1. NotBoth(a, b)'
      <3>1. ~(current'[a] = FULLSCREEN /\ current'[b] = FULLSCREEN)
        BY <1>1, <1>3, <2>0 DEF NotBoth
      <3> QED
        BY <1>13, <2>0, <3>1 DEF NotBoth
    <2>2. \A i, j : Left(b, i, j) => Left(b, i, j)'
      BY <1>9, <1>10 DEF Left
    (* One that gives way to s was told so.                                *)
    <2>3. a = s /\ v = FULLSCREEN => current[b] # FULLSCREEN
      BY <1>1
    <2>4. NewsOf(b) # {} \/ Known(b) = FULLSCREEN => Current(b)
      <3> SUFFICES ASSUME NewsOf(b) # {} \/ Known(b) = FULLSCREEN
                   PROVE  Current(b)
        OBVIOUS
      <3>1. NewsOf(b) # {} \/ px.wss[b].last # 0
        BY DEF Known, NORMAL, FULLSCREEN
      <3>2. Sourced(b)
        BY <1>0 DEF NewsInv
      <3>3. b - 1 \in Offsets /\ ~ Silent(b)
        BY <1>0, <3>1, <3>2 DEF Sourced, LifeInv, Silent
      <3> QED
        BY <1>0, <3>3 DEF NewsInv, NoneGone
    <2>5. Leaves(a, b)'
      <3> SUFFICES ASSUME NEW j \in NewsOf(a)', Wire'[j].state = FULLSCREEN
                   PROVE  /\ Known(b) = FULLSCREEN => Left(b, 0, j)'
                          /\ \A i \in NewsOf(b)' : i < j /\ Wire'[i].state = FULLSCREEN =>
                               Left(b, i, j)'
        BY <1>13 DEF Leaves
      <3>1. CASE j \in NewsOf(a)
        <4>1. Wire[j].state = FULLSCREEN /\ j \in 1 .. l
          BY <1>10, <3>1
        <4>2. \A i \in NewsOf(b)' : i < j => i \in NewsOf(b) /\ Wire'[i] = Wire[i]
          <5>1. \A i \in l + 1 .. l + Len(n) : ~ (i < j)
            BY <1>4, <4>1
          <5> QED
            BY <1>9, <1>10, <5>1
        <4> QED
          BY <2>0, <2>2, <3>1, <4>1, <4>2 DEF Leaves
      <3>2. CASE j \notin NewsOf(a)
        <4>1. a = s /\ j \in l + 1 .. l + Len(n) /\ v = FULLSCREEN /\ l < j
          BY <1>9, <1>10, <3>2
        <4>2. current[b] # FULLSCREEN /\ NewsOf(b)' = NewsOf(b)
              /\ \A i \in NewsOf(b) : i < j /\ 0 < i
          BY <1>4, <1>9, <1>10, <2>3, <4>1
        <4>3. Current(b) => current[b] = NORMAL
          BY <1>3, <4>2 DEF Current, States
        <4>4. Known(b) = FULLSCREEN => Left(b, 0, j)'
          BY <1>10, <2>4, <4>2, <4>3 DEF Current, Left
        <4>5. \A i \in NewsOf(b) : Wire[i].state = FULLSCREEN => Left(b, i, j)'
          BY <1>10, <2>4, <4>2, <4>3 DEF Current, Left
        <4> QED
          BY <1>10, <4>2, <4>4, <4>5
      <3> QED
        BY <3>1, <3>2
    <2> QED
      BY <2>1, <2>5
  <1>19. FocusInv'
    BY <1>0, <1>1, <1>12, <1>13 DEF FocusInv
  <1> QED
    BY <1>15, <1>16, <1>17, <1>18, <1>19 DEF StatesInv

(* Whose state a surface has, or that is fullscreen, is current.           *)
LEMMA CurrentIs ==
  ASSUME WlInv, NEW s \in Slots, NewsOf(s) # {} \/ px.wss[s].last # 0
  PROVE  /\ s \in px.shells /\ s - 1 \in Offsets /\ Public(s - 1)
         /\ life[s - 1] = "gone" \/ Current(s)
  <1>0. NewsInv /\ \A r \in px.shells : r - 1 \in Offsets
    BY DEF WlInv, StatesInv, LifeInv
  <1>1. s \in px.shells /\ Public(s - 1) /\ s - 1 \in Offsets
    BY <1>0 DEF NewsInv, Sourced
  <1>2. ~ Silent(s)
    BY DEF Silent
  <1> QED
    BY <1>0, <1>1, <1>2 DEF NewsInv

(* A listener of the proxy takes the first event.                          *)
LEMMA StateHeard ==
  ASSUME WlInv, OneDispatcher, Hear
  PROVE  StatesInv'
  <1>0. /\ TypesInv /\ LifeInv /\ StatesInv
        /\ PlacesInv /\ NewsInv /\ ConfigureInv /\ FullInv /\ FocusInv
        /\ \A r \in Slots : r \in Nat
    BY SlotsAre DEF WlInv, StatesInv
  <1>1. PICK e : e = Head(queue)
    OBVIOUS
  <1>2. /\ bs' = bs /\ rb' = rb /\ th' = th /\ resp_wl_efd' = resp_wl_efd /\ life' = life
        /\ current' = current /\ e \in Event /\ px' = Listen(px, e) /\ px' \in PxType
        /\ Wire[1] = e /\ Len(Wire) \in Nat \ {0}
        /\ DOMAIN Wire = 1 .. Len(Wire) /\ DOMAIN Wire' = 1 .. Len(Wire) - 1
        /\ \A i \in 1 .. Len(Wire) - 1 : Wire'[i] = Wire[i + 1]
    BY <1>0, <1>1, HearIs DEF Commandless, Apart
  <1>3. /\ px \in PxType /\ Len(px.evts) <= INPUT_EVT_MAX
        /\ px.wss \in [Slots -> [last : States \cup {0}, pending : BOOLEAN]]
    BY <1>0 DEF TypesInv, PxType
  <1>4. PICK l \in Nat \ {0} : l = Len(Wire)
    <2>1. Len(Wire) \in Nat \ {0}
      BY <1>2
    <2> QED
      BY <2>1
  <1>5. \A i : /\ i \in DOMAIN Wire' <=> i \in 1 .. l - 1
               /\ i \in DOMAIN Wire' => /\ i \in Nat /\ 0 < i /\ i + 1 \in DOMAIN Wire
                                        /\ Wire'[i] = Wire[i + 1]
               /\ i \in DOMAIN Wire => \/ i = 1
                                       \/ i - 1 \in DOMAIN Wire' /\ i = (i - 1) + 1 /\ 1 < i
                                          /\ Wire'[i - 1] = Wire[i]
    BY <1>2, <1>4
  <1>6. 1 \in DOMAIN Wire /\ Wire[1] = e
    BY <1>2, <1>4
  (* What is left of the news. *)
  <1>7. \A r : \A i \in NewsOf(r)' : /\ i \in Nat /\ 0 < i /\ i + 1 \in NewsOf(r)
                                     /\ Wire'[i] = Wire[i + 1]
    BY <1>5 DEF NewsOf
  <1>8. \A r : \A i \in NewsOf(r) : \/ i = 1
                                    \/ i - 1 \in NewsOf(r)' /\ i = (i - 1) + 1 /\ 1 < i
                                       /\ i \in Nat /\ Wire'[i - 1] = Wire[i]
    BY <1>2, <1>5 DEF NewsOf
  <1>9. \A r : 1 \in NewsOf(r) <=> e.kind # "key" /\ e.what = r
    BY <1>6 DEF NewsOf
  (* What the listener makes of it. *)
  <1>10. /\ e.kind = "key" => px'.wss = px.wss
         /\ px'.shells = px.shells
         /\ e.kind # "key" => e.what \in Slots /\ e.state \in States
                              /\ e.kind \in {"state", "configure"}
         /\ e.kind = "configure" => e.state = FULLSCREEN
    <2>1. Listen(px, e).shells = px.shells /\ (e.kind = "key" => Listen(px, e).wss = px.wss)
      BY <1>2, <1>3, ListenIs
    <2> QED
      BY <1>2, <2>1, EventsAre
  <1>11. e.kind # "key" => /\ e.what \in px.shells /\ e.what - 1 \in Offsets
                           /\ life[e.what - 1] = "gone" \/ Current(e.what)
    BY <1>9, <1>10, CurrentIs
  <1>12. e.kind # "key" =>
           IF e.kind = "configure" /\ px.wss[e.what].pending THEN px'.wss = px.wss
           ELSE /\ px'.wss[e.what] = [last |-> e.state, pending |-> TRUE]
                /\ \A r \in Slots \ {e.what} : px'.wss[r] = px.wss[r]
    <2> SUFFICES ASSUME e.kind # "key"
                 PROVE  IF e.kind = "configure" /\ px.wss[e.what].pending THEN px'.wss = px.wss
                        ELSE /\ px'.wss[e.what] = [last |-> e.state, pending |-> TRUE]
                             /\ \A r \in Slots \ {e.what} : px'.wss[r] = px.wss[r]
      OBVIOUS
    <2>1. px'.wss = IF e.kind = "configure" /\ px.wss[e.what].pending THEN px.wss
                    ELSE [px.wss EXCEPT ![e.what] = [last |-> e.state, pending |-> TRUE]]
      <3>1. Listen(px, e).wss = IF e.kind = "configure"
            /\ px.wss[e.what].pending THEN px.wss
              ELSE [px.wss EXCEPT ![e.what] = [last |-> e.state, pending |-> TRUE]]
        BY <1>2, <1>3, <1>11, ListenIs
      <3> QED
        BY <1>2, <3>1
    <2> QED
      BY <1>3, <1>10, <2>1
  (* What is as it was. *)
  <1>13. /\ \A r : KeyPlaces(r)' = KeyPlaces(r) /\ StatePlaces(r)' = StatePlaces(r)
         /\ Undelivered' = Undelivered
    BY <1>2 DEF KeyPlaces, StatePlaces, At, Undelivered
  <1>14. \A r : Coming(r)' = Coming(r)
    BY <1>2, <1>13 DEF Coming
  <1>15. /\ \A r, x : WillBe(r, x)' <=> WillBe(r, x)
         /\ \A o : Public(o)' <=> Public(o)
         /\ NoneGone' <=> NoneGone
    BY <1>2, <1>14 DEF WillBe, Public, NoneGone
  <1>16. PlacesInv'
    BY <1>0, <1>2, <1>10, <1>13, <1>15 DEF PlacesInv
  <1>17. FocusInv'
    BY <1>0, <1>2, <1>14, <1>15 DEF FocusInv
  (* Which surface was told what. *)
  <1> DEFINE Told1(r) == e.kind # "key" /\ e.what = r
                         /\ ~ (e.kind = "configure" /\ px.wss[r].pending)
  <1>18. \A r \in Slots : IF Told1(r) THEN px'.wss[r] = [last |-> e.state, pending |-> TRUE]
                          ELSE px'.wss[r] = px.wss[r]
    BY <1>10, <1>12
  <1>19. \A r \in Slots : Known(r)' = IF Told1(r) THEN e.state ELSE Known(r)
    <2> TAKE r \in Slots
    <2>1. CASE Told1(r)
      <3>1. px'.wss[r].last = e.state /\ e.state # 0
        BY <1>10, <1>18, <2>1 DEF States, NORMAL, FULLSCREEN
      <3> QED
        BY <2>1, <3>1 DEF Known
    <2>2. CASE ~ Told1(r)
      BY <1>18, <2>2 DEF Known
    <2> QED
      BY <2>1, <2>2
  <1>20. NewsInv'
    <2>1. \A r \in Slots : Sourced(r)'
      <3> TAKE r \in Slots
      <3>1. Sourced(r)
        BY <1>0 DEF NewsInv
      <3>2. NewsOf(r)' # {} => NewsOf(r) # {}
        BY <1>7
      <3>3. CASE Told1(r)
        <4>1. NewsOf(r) # {}
          BY <1>9, <3>3
        <4>2. px'.wss[r].last # 0
          BY <1>10, <1>18, <3>3 DEF States, NORMAL, FULLSCREEN
        <4> QED
          BY <1>10, <1>15, <3>1, <4>1, <4>2 DEF Sourced
      <3>4. CASE ~ Told1(r)
        BY <1>10, <1>15, <1>18, <3>1, <3>2, <3>4 DEF Sourced
      <3> QED
        BY <3>3, <3>4
    <2>2. ASSUME NEW r \in Slots, r - 1 \in Offsets
          PROVE  life'[r - 1] = "gone" \/ (current'[r] = 0 /\ Silent(r)') \/ Current(r)'
      <3>1. life[r - 1] = "gone" \/ (current[r] = 0 /\ Silent(r)) \/ Current(r)
        BY <1>0, <2>2 DEF NewsInv
      <3>2. Silent(r) => Silent(r)'
        <4> SUFFICES ASSUME Silent(r)
                     PROVE  Silent(r)'
          OBVIOUS
        <4>1. NewsOf(r)' = {} /\ ~ Told1(r)
          BY <1>7, <1>9 DEF Silent
        <4> QED
          BY <1>2, <1>14, <1>18, <4>1 DEF Silent
      <3>3. Current(r) => Current(r)'
        <4> SUFFICES ASSUME Current(r)
                     PROVE  Current(r)'
          OBVIOUS
        <4>1. \A i \in NewsOf(r)' : \/ Wire'[i].state = current[r]
                                    \/ \E k \in NewsOf(r)' : i < k /\ Wire'[k].state = current[r]
          <5> TAKE i \in NewsOf(r)'
          <5>1. i + 1 \in NewsOf(r) /\ Wire'[i] = Wire[i + 1] /\ i \in Nat
            BY <1>7
          <5>2. CASE Wire[i + 1].state = current[r]
            BY <5>1, <5>2
          <5>3. CASE Wire[i + 1].state # current[r]
            <6>1. PICK k \in NewsOf(r) : i + 1 < k /\ Wire[k].state = current[r]
              BY <5>1, <5>3 DEF Current
            <6>2. k # 1
              BY <5>1, <6>1
            <6>3. k - 1 \in NewsOf(r)' /\ k \in Nat /\ Wire'[k - 1].state = current[r]
              BY <1>8, <6>1, <6>2
            <6>4. i < k - 1
              BY <5>1, <6>1, <6>3
            <6> QED
              BY <6>3, <6>4
          <5> QED
            BY <5>2, <5>3
        <4>2. px'.wss[r].pending \/ WillBe(r, Known(r))'
          <5>1. CASE Told1(r)
            BY <1>18, <5>1
          <5>2. CASE ~ Told1(r)
            BY <1>15, <1>18, <1>19, <5>2 DEF Current
          <5> QED
            BY <5>1, <5>2
        <4>3. Known(r)' # current[r] => \E k \in NewsOf(r)' : Wire'[k].state = current[r]
          <5> SUFFICES ASSUME Known(r)' # current[r]
                       PROVE  \E k \in NewsOf(r)' : Wire'[k].state = current[r]
            OBVIOUS
          <5>1. ASSUME NEW k \in NewsOf(r), k # 1, Wire[k].state = current[r]
                PROVE  \E m \in NewsOf(r)' : Wire'[m].state = current[r]
            BY <1>8, <5>1
          <5>2. CASE Told1(r)
            <6>1. 1 \in NewsOf(r) /\ Wire[1].state # current[r]
              BY <1>6, <1>9, <1>19, <5>2
            <6>2. PICK k \in NewsOf(r) : 1 < k /\ Wire[k].state = current[r]
              BY <6>1 DEF Current
            <6>3. k # 1
              BY <6>2
            <6> QED
              BY <5>1, <6>2, <6>3
          <5>3. CASE ~ Told1(r)
            <6>1. Known(r) # current[r]
              BY <1>19, <5>3
            <6>2. PICK k \in NewsOf(r) : Wire[k].state = current[r]
              BY <6>1 DEF Current
            <6>3. CASE k # 1
              BY <5>1, <6>2, <6>3
            <6>4. CASE k = 1
              <7>1. /\ e.kind = "configure" /\ e.what = r /\ px.wss[r].pending
                    /\ e.state = current[r] /\ e.state = FULLSCREEN
                BY <1>6, <1>9, <1>10, <5>3, <6>2, <6>4
              <7>2. Beside(1, r)
                BY <1>0, <1>6, <7>1 DEF ConfigureInv
              <7>3. px.wss[r].last # FULLSCREEN
                BY <6>1, <7>1 DEF Known, FULLSCREEN
              <7>4. 2 \in DOMAIN Wire /\ Wire[2] = State(r, FULLSCREEN)
                <8>1. 1 + 1 = 2 /\ 1 - 1 = 0 /\ 0 \notin 1 .. l /\ DOMAIN Wire = 1 .. l
                  BY <1>2, <1>4
                <8> QED
                  BY <7>1, <7>2, <7>3, <8>1 DEF Beside
              <7>5. 2 \in NewsOf(r) /\ Wire[2].state = current[r] /\ 2 # 1
                BY <7>1, <7>4, EventsAre DEF NewsOf, States
              <7> QED
                BY <5>1, <7>5
            <6> QED
              BY <6>3, <6>4
          <5> QED
            BY <5>2, <5>3
        <4> QED
          BY <1>2, <4>1, <4>2, <4>3 DEF Current
      <3> QED
        BY <1>2, <3>1, <3>2, <3>3
    <2> QED
      BY <2>1, <2>2 DEF NewsInv
  <1>21. ConfigureInv'
    <2> SUFFICES ASSUME NEW i \in DOMAIN Wire', NEW r, r = Wire'[i].what,
                        Wire'[i].kind = "configure"
                 PROVE  Beside(i, r)'
      BY DEF ConfigureInv
    <2>1. i \in Nat /\ 0 < i /\ i + 1 \in DOMAIN Wire /\ Wire'[i] = Wire[i + 1]
      BY <1>5
    <2>2. Beside(i + 1, r)
      BY <1>0, <2>1 DEF ConfigureInv
    <2>3. (i + 1) - 1 = i /\ i + 1 # 1 /\ ((i + 1) + 1) - 1 = i + 1 /\ (i + 1) + 1 # 1
          /\ i \in Nat
      BY <2>1
    <2>4. CASE (i + 1) + 1 \in DOMAIN Wire /\ Wire[(i + 1) + 1] = State(r, FULLSCREEN)
      <3>1. i + 1 \in DOMAIN Wire' /\ Wire'[i + 1] = State(r, FULLSCREEN)
        BY <1>5, <2>3, <2>4
      <3> QED
        BY <3>1 DEF Beside
    <2>5. CASE i \in DOMAIN Wire /\ Wire[i] = State(r, FULLSCREEN)
      <3>1. CASE i = 1
        <4>1. e = State(r, FULLSCREEN)
          BY <1>6, <2>5, <3>1
        <4>2. e.kind = "state" /\ e.what = r /\ e.state = FULLSCREEN
          BY <4>1 DEF State
        <4>3. px'.wss[r] = [last |-> FULLSCREEN, pending |-> TRUE]
          BY <1>10, <1>18, <4>2
        <4> QED
          BY <3>1, <4>3 DEF Beside
      <3>2. CASE i # 1
        <4>1. i - 1 \in DOMAIN Wire' /\ Wire'[i - 1] = State(r, FULLSCREEN)
          BY <1>5, <2>5, <3>2
        <4> QED
          BY <4>1 DEF Beside
      <3> QED
        BY <3>1, <3>2
    <2> QED
      BY <2>2, <2>3, <2>4, <2>5 DEF Beside
  <1>22. FullInv'
    <2> SUFFICES ASSUME NoneGone, NEW a \in Slots, NEW b \in Slots, a # b
                 PROVE  NotBoth(a, b)' /\ Leaves(a, b)'
      BY <1>15 DEF FullInv
    <2>0. NotBoth(a, b) /\ Leaves(a, b) /\ Leaves(b, a)
      BY <1>0 DEF FullInv
    (* Nothing comes before the first. *)
    <2>1. \A r : ~ Left(r, 0, 1)
      <3>1. \A r : \A k \in NewsOf(r) : ~ (0 < k /\ k < 1)
        BY <1>5 DEF NewsOf
      <3> QED
        BY <3>1 DEF Left
    <2>2. ASSUME NEW c \in Slots, NEW f \in Slots, Leaves(c, f), Told1(c), e.state = FULLSCREEN
          PROVE  Known(f) # FULLSCREEN
      <3>1. 1 \in NewsOf(c) /\ Wire[1].state = FULLSCREEN
        BY <1>6, <1>9, <2>2
      <3> QED
        BY <2>1, <2>2, <3>1 DEF Leaves
    <2>3. ~ (Known(a)' = FULLSCREEN /\ Known(b)' = FULLSCREEN)
      <3>1. ~ (Told1(a) /\ Told1(b))
        OBVIOUS
      <3> HIDE DEF Told1
      <3> QED
        BY <1>19, <2>0, <2>2, <3>1 DEF NotBoth
    <2>4. NotBoth(a, b)'
      BY <1>2, <1>15, <2>0, <2>3 DEF NotBoth
    (* What lies between two events still does. *)
    <2>5. ASSUME NEW i \in Nat, NEW j \in Nat, Left(b, i + 1, j + 1)
          PROVE  Left(b, i, j)'
      <3>1. PICK k \in NewsOf(b) : i + 1 < k /\ k < j + 1 /\ Wire[k].state = NORMAL
        BY <2>5 DEF Left
      <3>2. k # 1
        BY <3>1
      <3>3. k - 1 \in NewsOf(b)' /\ k \in Nat /\ Wire'[k - 1].state = NORMAL
        BY <1>8, <3>1, <3>2
      <3>4. i < k - 1 /\ k - 1 < j
        BY <3>1, <3>3
      <3> QED
        BY <3>3, <3>4 DEF Left
    <2>6. Leaves(a, b)'
      <3> SUFFICES ASSUME NEW j \in NewsOf(a)', Wire'[j].state = FULLSCREEN
                   PROVE  /\ Known(b)' = FULLSCREEN => Left(b, 0, j)'
                          /\ \A i \in NewsOf(b)' : i < j /\ Wire'[i].state = FULLSCREEN =>
                               Left(b, i, j)'
        BY DEF Leaves
      <3>1. j \in Nat /\ 0 < j /\ j + 1 \in NewsOf(a) /\ Wire[j + 1].state = FULLSCREEN
        BY <1>7
      <3>2. ASSUME NEW i \in NewsOf(b)', i < j, Wire'[i].state = FULLSCREEN
            PROVE  Left(b, i, j)'
        <4>1. i + 1 \in NewsOf(b) /\ i \in Nat /\ Wire[i + 1].state = FULLSCREEN
          BY <1>7, <3>2
        <4>2. i + 1 < j + 1
          BY <3>1, <3>2, <4>1
        <4>3. Left(b, i + 1, j + 1)
          BY <2>0, <3>1, <4>1, <4>2 DEF Leaves
        <4> QED
          BY <2>5, <3>1, <4>1, <4>3
      <3>3. ASSUME Known(b)' = FULLSCREEN
            PROVE  Left(b, 0, j)'
        <4>1. CASE Told1(b)
          <5>1. 1 \in NewsOf(b) /\ Wire[1].state = FULLSCREEN /\ 1 < j + 1
            BY <1>6, <1>9, <1>19, <3>1, <3>3, <4>1
          <5>2. Left(b, 0 + 1, j + 1)
            BY <2>0, <3>1, <5>1 DEF Leaves
          <5> QED
            BY <2>5, <3>1, <5>2
        <4>2. CASE ~ Told1(b)
          <5>1. Known(b) = FULLSCREEN
            BY <1>19, <3>3, <4>2
          <5>2. PICK k \in NewsOf(b) : 0 < k /\ k < j + 1 /\ Wire[k].state = NORMAL
            BY <2>0, <3>1, <5>1 DEF Leaves, Left
          <5>3. k # 1
            <6>1. k = 1 => e.kind = "configure" /\ e.state = NORMAL
              BY <1>6, <1>9, <4>2, <5>2
            <6> QED
              BY <1>10, <6>1 DEF NORMAL, FULLSCREEN
          <5>4. k - 1 \in NewsOf(b)' /\ k \in Nat /\ 1 < k /\ Wire'[k - 1].state = NORMAL
            BY <1>8, <5>2, <5>3
          <5>5. 0 < k - 1 /\ k - 1 < j
            BY <3>1, <5>2, <5>4
          <5> QED
            BY <5>4, <5>5 DEF Left
        <4> QED
          BY <4>1, <4>2
      <3> QED
        BY <3>2, <3>3
    <2> QED
      BY <2>4, <2>6
  <1> QED
    BY <1>16, <1>17, <1>20, <1>21, <1>22 DEF StatesInv

(* h_wl_roundtrip() hands over the last state of every surface it has.     *)
LEMMA StatesCollected ==
  ASSUME WlInv, OneDispatcher, ProxyCollect
  PROVE  StatesInv'
  <1>0. /\ TypesInv /\ LifeInv /\ StatesInv
        /\ PlacesInv /\ NewsInv /\ ConfigureInv /\ FullInv /\ FocusInv
        /\ \A r \in Slots : r \in Nat
    BY SlotsAre DEF WlInv, StatesInv
  <1>1. PICK d \in Threads :
          /\ Dispatchers = {d} /\ Undelivered = {}
          /\ StatePlaces(d)' = 1 .. Cardinality(Told(px))
          /\ rb' = Collected(px) /\ bs' = bs /\ Wire' = Wire
          /\ current' = current /\ life' = life /\ px'.shells = px.shells
          /\ \A s \in Slots : /\ px'.wss[s].last = px.wss[s].last
                              /\ px'.wss[s].pending = (px.wss[s].pending /\ s \notin px.shells)
    BY Collecting
  <1>2. PICK n : n = Cardinality(Told(px))
    OBVIOUS
  <1>3. /\ Undelivered' = 1 .. n
        /\ \A i \in 1 .. n : /\ i \in Slots /\ rb'.wss[i][1] \in Told(px)
                             /\ rb'.wss[i][2] = px.wss[rb'.wss[i][1]].last
        /\ \A i, j \in 1 .. n : rb'.wss[i][1] = rb'.wss[j][1] => i = j
        /\ \A s \in Told(px) : \E i \in 1 .. n : rb'.wss[i][1] = s
    <2>1. Undelivered' = StatePlaces(d)'
      BY <1>1, DispatcherHasNext
    <2> QED
      BY <1>0, <1>1, <1>2, <2>1, Windows, CollectedIs
  <1>4. \A s \in Told(px) : /\ s \in px.shells /\ s \in Slots /\ s - 1 \in Offsets
                            /\ px.wss[s].pending /\ px.wss[s].last # 0 /\ Public(s - 1)
    BY <1>0, Windows DEF Told, NewsInv, Sourced, LifeInv
  <1>5. \A s \in Slots : s \in Told(px) <=> px.wss[s].pending
    BY <1>0 DEF Told, NewsInv, Sourced
  <1>6. \A s : Coming(s) = {}
    BY <1>1 DEF Coming
  <1>7. \A s : Coming(s)' = {i \in 1 .. n : rb'.wss[i][1] = s}
    BY <1>3 DEF Coming
  <1>8. \A s : /\ s \in Told(px) => Coming(s)' # {}
               /\ \A i \in Coming(s)' : s \in Told(px) /\ rb'.wss[i][2] = px.wss[s].last
    <2> TAKE s
    <2>1. ASSUME s \in Told(px)
          PROVE  Coming(s)' # {}
      <3>1. PICK i \in 1 .. n : rb'.wss[i][1] = s
        BY <1>3, <2>1
      <3>2. i \in Coming(s)'
        BY <1>7, <3>1
      <3> QED
        BY <3>2
    <2>2. ASSUME NEW i \in Coming(s)'
          PROVE  s \in Told(px) /\ rb'.wss[i][2] = px.wss[s].last
      <3>1. i \in 1 .. n /\ rb'.wss[i][1] = s
        BY <1>7
      <3> QED
        BY <1>3, <3>1
    <2> QED
      BY <2>1, <2>2
  <1>9. /\ \A s \in Slots : Known(s)' = Known(s)
        /\ \A s : NewsOf(s)' = NewsOf(s)
        /\ \A o : Public(o)' <=> Public(o)
        /\ NoneGone' <=> NoneGone
    BY <1>1 DEF Known, NewsOf, Public, NoneGone
  <1>10. \A s, v : WillBe(s, v) <=> bs.told[s - 1] = v
    BY <1>6 DEF WillBe
  <1>11. \A s \in Slots : \A v : s \in Told(px) => (WillBe(s, v)' <=> px.wss[s].last = v)
    BY <1>8 DEF WillBe
  <1>12. \A s \in Slots : \A v : s \notin Told(px) => (WillBe(s, v)' <=> WillBe(s, v))
    BY <1>1, <1>8, <1>10 DEF WillBe
  <1>13. \A s \in Told(px) : Known(s) = px.wss[s].last
    BY <1>4 DEF Known
  <1>14. PlacesInv'
    BY <1>0, <1>1, <1>3, <1>4, <1>9 DEF PlacesInv
  <1>15. NewsInv'
    <2>1. \A s \in Slots : Sourced(s)'
      BY <1>0, <1>1, <1>9 DEF NewsInv, Sourced
    <2>2. ASSUME NEW s \in Slots, s - 1 \in Offsets
          PROVE  life'[s - 1] = "gone" \/ (current'[s] = 0 /\ Silent(s)') \/ Current(s)'
      <3>1. Silent(s) => Silent(s)'
        <4> SUFFICES ASSUME Silent(s)
                     PROVE  Silent(s)'
          OBVIOUS
        <4>1. px.wss[s] = [last |-> 0, pending |-> FALSE]
          BY DEF Silent
        <4>2. s \notin Told(px)
          BY <1>5, <4>1
        <4>3. Coming(s)' = {}
          BY <1>8, <4>2
        <4>4. px' \in PxType
          BY <1>0, Windows, ProxyCollectIs
        <4>5. px'.wss[s] = [last |-> 0, pending |-> FALSE]
          <5>1. px'.wss[s] \in [last : States \cup {0}, pending : BOOLEAN]
            BY <4>4 DEF PxType
          <5>2. px'.wss[s].last = 0 /\ ~ px'.wss[s].pending
            <6>1. px.wss[s].last = 0 /\ ~ px.wss[s].pending
              BY <4>1
            <6> QED
              BY <1>1, <6>1
          <5> QED
            BY <5>1, <5>2
        <4> QED
          BY <1>1, <1>9, <4>3, <4>5 DEF Silent
      <3>2. Current(s) => Current(s)'
        <4> SUFFICES ASSUME Current(s)
                     PROVE  Current(s)'
          OBVIOUS
        <4>1. WillBe(s, Known(s))'
          <5>1. \A v : v = Known(s) => WillBe(s, v)'
            BY <1>5, <1>11, <1>12, <1>13 DEF Current
          <5>2. PICK v : v = Known(s)
            OBVIOUS
          <5>3. WillBe(s, v)' /\ v = Known(s)'
            BY <1>9, <5>1, <5>2
          <5> QED
            BY <5>3 DEF WillBe
        <4> QED
          BY <1>1, <1>9, <4>1 DEF Current
      <3> QED
        BY <1>0, <1>1, <2>2, <3>1, <3>2 DEF NewsInv
    <2> QED
      BY <2>1, <2>2 DEF NewsInv
  <1>16. ConfigureInv'
    <2> SUFFICES ASSUME NEW i \in DOMAIN Wire, NEW r, r = Wire[i].what,
                        Wire[i].kind = "configure"
                 PROVE  Beside(i, r)'
      BY <1>1 DEF ConfigureInv
    <2>1. Beside(i, r)
      BY <1>0 DEF ConfigureInv
    <2>2. r \in Slots
      <3>1. queue \in Seq(Event) /\ socket \in Seq(Event)
        BY <1>0 DEF TypesInv, Events
      <3> QED
        BY <3>1, WireIs, EventsAre
    <2> QED
      BY <1>1, <2>1, <2>2 DEF Beside
  <1>17. FullInv'
    <2> SUFFICES ASSUME NoneGone, NEW s \in Slots, NEW r \in Slots, s # r
                 PROVE  NotBoth(s, r)' /\ Leaves(s, r)'
      BY <1>9 DEF FullInv
    <2>1. NotBoth(s, r) /\ Leaves(s, r)
      BY <1>0 DEF FullInv
    <2>2. ASSUME NEW a \in Slots, a - 1 \in Offsets, WillBe(a, FULLSCREEN)'
          PROVE  Known(a) = FULLSCREEN
      <3>1. CASE a \in Told(px)
        BY <1>11, <1>13, <2>2, <3>1
      <3>2. CASE a \notin Told(px)
        <4>1. bs.told[a - 1] = FULLSCREEN /\ ~ px.wss[a].pending
          BY <1>5, <1>10, <1>12, <2>2, <3>2
        <4>2. Current(a)
          BY <1>0, <2>2, <4>1 DEF NewsInv, Silent, NoneGone, NORMAL, FULLSCREEN
        <4> QED
          BY <1>10, <4>1, <4>2 DEF Current
      <3> QED
        BY <3>1, <3>2
    <2>3. NotBoth(s, r)'
      BY <1>1, <1>9, <2>1, <2>2 DEF NotBoth
    <2>4. \A i, j : Left(r, i, j)' <=> Left(r, i, j)
      BY <1>1, <1>9 DEF Left
    <2> QED
      BY <1>1, <1>9, <2>1, <2>3, <2>4 DEF Leaves
  <1>18. FocusInv'
    BY <1>0, <1>1, <1>6, <1>9 DEF FocusInv
  <1> QED
    BY <1>14, <1>15, <1>16, <1>17, <1>18 DEF StatesInv

(* The listener of a surface is told of its state.                         *)
LEMMA StateDelivered ==
  ASSUME WlInv, OneDispatcher, NEW t \in Threads, DeliverState(t)
  PROVE  StatesInv'
  <1>0. /\ TypesInv /\ LifeInv /\ StatesInv /\ EnterInv
        /\ PlacesInv /\ NewsInv /\ ConfigureInv /\ FullInv /\ FocusInv
        /\ \A r \in Slots : r \in Nat
        /\ \A o \in Offsets : o \in Nat /\ o # None
    BY SlotsAre DEF WlInv, StatesInv
  <1>1. PICK i, o, v, w : /\ i = th[t].i /\ o = rb.wss[i][1] - 1 /\ v = rb.wss[i][2]
                          /\ w = ListenerOf(bs, o)
    OBVIOUS
  <1>2. /\ At(t, "states") /\ i <= th[t].n /\ th'[t].pc = "states"
        /\ th'[t].i = i + 1 /\ th'[t].n = th[t].n
        /\ \A u \in Threads \ {t} : th'[u] = th[u]
        /\ StatePlaces(t) = i .. th[t].n /\ i \in StatePlaces(t)
        /\ i \in Undelivered /\ t \in Dispatchers
        /\ o + 1 = rb.wss[i][1] /\ o + 1 \in Slots /\ v \in States
        /\ o \in Offsets /\ o \in Nat /\ Public(o)
        /\ rb' = rb /\ resp_wl_efd' = resp_wl_efd /\ px' = px /\ Wire' = Wire
        /\ current' = current /\ life' = life
        /\ bs'.enter_sent = bs.enter_sent
        /\ bs'.told = IF w = None THEN bs.told ELSE [bs.told EXCEPT ![w] = v]
        /\ v # FULLSCREEN => bs'.keyboard_focus = bs.keyboard_focus
        /\ v = FULLSCREEN /\ bs.enter_sent => bs'.keyboard_focus = o
    <2>1. /\ At(t, "states") /\ i <= th[t].n /\ To(t, "states", i + 1, th[t].n)
          /\ StatePlaces(t) = i .. th[t].n /\ i \in StatePlaces(t)
          /\ i \in Undelivered /\ t \in Dispatchers
          /\ rb.wss[i][1] \in Slots /\ v \in States
          /\ o \in Offsets /\ o \in Nat /\ Public(o) /\ Stays /\ life' = life
          /\ bs'.enter_sent = bs.enter_sent
          /\ bs'.told = IF w = None THEN bs.told ELSE [bs.told EXCEPT ![w] = v]
          /\ v # FULLSCREEN => bs'.keyboard_focus = bs.keyboard_focus
          /\ v = FULLSCREEN /\ bs.enter_sent => bs'.keyboard_focus = o
      BY <1>1, StateIs
    <2>2. rb.wss[i][1] \in Nat
      BY <1>0, <2>1
    <2>3. o + 1 = rb.wss[i][1]
      BY <1>1, <2>2
    <2> QED
      BY <2>1, <2>3 DEF To, Only, Stays, Outside, Wire
  <1>3. bs.enter_sent
    BY <1>0, <1>2 DEF EnterInv, At
  <1>4. /\ life[o] = "gone" => w = None
        /\ life[o] # "gone" => w = o
    <2>1. WindowLife(o)
      BY <1>0, <1>2 DEF LifeInv
    <2>2. CASE life[o] = "gone"
      <3>1. bs.ss_listeners[o] = None /\ bs.ss_listener = None
        BY <2>1, <2>2 DEF WindowLife
      <3> QED
        BY <1>1, <2>2, <3>1 DEF ListenerOf
    <2>3. CASE life[o] \in {"heard", "shown"}
      <3>1. bs.ss_listeners[o] = o /\ o # None
        BY <1>0, <1>2, <2>1, <2>3 DEF WindowLife
      <3> QED
        BY <1>1, <1>2, <2>3, <3>1 DEF ListenerOf
    <2> QED
      BY <1>2, <2>2, <2>3 DEF Public
  <1>5. /\ \A p \in Offsets \ {o} : bs'.told[p] = bs.told[p]
        /\ life[o] # "gone" => bs'.told[o] = v
        /\ life[o] = "gone" => bs'.told = bs.told
    <2>1. bs.told \in [Offsets -> States \cup {0}]
      BY <1>0 DEF TypesInv, BsType
    <2> QED
      BY <1>0, <1>2, <1>4, <2>1
  <1>6. Undelivered' = Undelivered \ {i}
    <2>1. PICK d \in Threads : Dispatchers = {d}
      BY DEF OneDispatcher
    <2>2. d = t
      BY <1>2, <2>1
    <2>3. Undelivered = i .. th[t].n
      BY <1>2, <2>1, <2>2, DispatcherHas
    <2>4. StatePlaces(t)' = i + 1 .. th[t].n
      BY <1>2 DEF StatePlaces, At
    <2>5. Undelivered' = i + 1 .. th[t].n
      BY <2>1, <2>2, <2>4, DispatcherHasNext
    <2>6. i \in Nat /\ th[t].n \in Nat
      BY <1>0, <1>1 DEF TypesInv, ThreadsType, ThType
    <2> QED
      BY <2>3, <2>5, <2>6
  <1>7. Coming(o + 1) = {i} /\ Coming(o + 1)' = {}
    BY <1>0, <1>2, <1>6 DEF Coming, PlacesInv
  <1>8. \A r : r # o + 1 => Coming(r)' = Coming(r)
    BY <1>2, <1>6 DEF Coming
  <1>9. \A r \in Slots : \A x : r - 1 \in Offsets /\ (r # o + 1 \/ life[o] # "gone") =>
          (WillBe(r, x)' <=> WillBe(r, x))
    <2> SUFFICES ASSUME NEW r \in Slots, NEW x, r - 1 \in Offsets, r # o + 1 \/ life[o] # "gone"
                 PROVE  WillBe(r, x)' <=> WillBe(r, x)
      OBVIOUS
    <2>1. CASE r = o + 1
      <3>1. r - 1 = o
        BY <1>2, <2>1
      <3>2. WillBe(r, x)' <=> v = x
        BY <1>5, <1>7, <2>1, <3>1 DEF WillBe
      <3>3. WillBe(r, x) <=> v = x
        BY <1>1, <1>7, <2>1, <3>1 DEF WillBe
      <3> QED
        BY <3>2, <3>3
    <2>2. CASE r # o + 1
      <3>1. r - 1 # o
        BY <1>0, <1>2, <2>2
      <3>2. bs'.told[r - 1] = bs.told[r - 1] /\ Coming(r)' = Coming(r)
        BY <1>5, <1>8, <2>2, <3>1
      <3> QED
        BY <1>2, <3>2 DEF WillBe
    <2> QED
      BY <2>1, <2>2
  <1>10. /\ \A r : Known(r)' = Known(r)
         /\ \A r : NewsOf(r)' = NewsOf(r)
         /\ \A p : Public(p)' <=> Public(p)
         /\ NoneGone' <=> NoneGone
    BY <1>2 DEF Known, NewsOf, Public, NoneGone
  <1>11. PlacesInv'
    <2>1. \A p \in Offsets : bs.told[p] # 0
      BY <1>0 DEF PlacesInv
    <2>2. v # 0
      BY <1>2 DEF States, NORMAL, FULLSCREEN
    <2>3. \A p \in Offsets : bs'.told[p] # 0
      BY <1>5, <2>1, <2>2
    <2> QED
      BY <1>0, <1>2, <1>6, <1>10, <2>3 DEF PlacesInv
  <1>12. NewsInv'
    <2>1. \A r \in Slots : Sourced(r)'
      BY <1>0, <1>2, <1>10 DEF NewsInv, Sourced
    <2>2. ASSUME NEW r \in Slots, r - 1 \in Offsets, life[r - 1] # "gone"
          PROVE  (current'[r] = 0 /\ Silent(r)') \/ Current(r)'
      <3>1. r # o + 1 \/ life[o] # "gone"
        <4>1. r = o + 1 => r - 1 = o
          BY <1>2
        <4> QED
          BY <2>2, <4>1
      <3>2. Silent(r) => Silent(r)'
        <4> SUFFICES ASSUME Silent(r)
                     PROVE  Silent(r)'
          OBVIOUS
        <4>1. r # o + 1
          BY <1>7 DEF Silent
        <4>2. r - 1 # o
          BY <1>0, <1>2, <4>1
        <4> QED
          BY <1>2, <1>5, <1>8, <1>10, <2>2, <4>1, <4>2 DEF Silent
      <3>3. Current(r) => Current(r)'
        <4>1. \A x : WillBe(r, x)' <=> WillBe(r, x)
          BY <1>9, <2>2, <3>1
        <4>2. Known(r)' = Known(r)
          BY <1>10
        <4> QED
          BY <1>2, <1>10, <4>1, <4>2 DEF Current
      <3> QED
        BY <1>0, <1>2, <2>2, <3>2, <3>3 DEF NewsInv
    <2> QED
      BY <1>2, <2>1, <2>2 DEF NewsInv
  <1>13. ConfigureInv'
    BY <1>0, <1>2 DEF ConfigureInv, Beside
  <1>14. FullInv'
    <2> SUFFICES ASSUME NoneGone, NEW s \in Slots, NEW r \in Slots, s # r
                 PROVE  NotBoth(s, r)' /\ Leaves(s, r)'
      BY <1>10 DEF FullInv
    <2>1. NotBoth(s, r) /\ Leaves(s, r) /\ life[o] # "gone"
      BY <1>0, <1>2 DEF FullInv, NoneGone
    <2>2. NotBoth(s, r)'
      BY <1>2, <1>9, <1>10, <2>1 DEF NotBoth
    <2>3. \A k, j : Left(r, k, j)' <=> Left(r, k, j)
      BY <1>2, <1>10 DEF Left
    <2> QED
      BY <1>2, <1>10, <2>1, <2>2, <2>3 DEF Leaves
  <1>15. FocusInv'
    <2>1. \A p \in Offsets : bs'.told[p] = FULLSCREEN => bs'.enter_sent /\ p + 1 \in Slots
      BY <1>0, <1>2, <1>3, <1>5 DEF FocusInv
    <2>2. ASSUME NoneGone, NEW p \in Offsets, bs'.told[p] = FULLSCREEN, Coming(p + 1)' = {}
          PROVE  bs'.keyboard_focus = p
      <3>1. life[o] # "gone"
        BY <1>2, <2>2 DEF NoneGone
      <3>2. CASE p = o
        BY <1>2, <1>3, <1>5, <2>2, <3>1, <3>2
      <3>3. CASE p # o
        <4>1. p + 1 # o + 1 /\ p \in Nat /\ (p + 1) - 1 = p /\ (o + 1) - 1 = o
          BY <1>0, <1>2, <3>3
        <4>2. bs.told[p] = FULLSCREEN /\ Coming(p + 1) = {}
          BY <1>5, <1>8, <2>2, <3>3, <4>1
        <4>3. bs.keyboard_focus = p /\ p + 1 \in Slots
          BY <1>0, <2>2, <4>2 DEF FocusInv
        <4>4. WillBe(p + 1, FULLSCREEN)
          BY <4>1, <4>2 DEF WillBe
        <4>5. v # FULLSCREEN
          <5>1. NotBoth(p + 1, o + 1)
            BY <1>0, <1>2, <2>2, <4>1, <4>3 DEF FullInv
          <5>2. ~ WillBe(o + 1, FULLSCREEN)
            BY <1>2, <4>1, <4>4, <5>1 DEF NotBoth
          <5> QED
            BY <1>1, <1>7, <5>2 DEF WillBe
        <4> QED
          BY <1>2, <4>3, <4>5
      <3> QED
        BY <3>2, <3>3
    <2> QED
      BY <1>10, <2>1, <2>2 DEF FocusInv
  <1> QED
    BY <1>11, <1>12, <1>13, <1>14, <1>15 DEF StatesInv

(* A surface is shown, or ends.                                            *)
LEMMA SurfaceRequested ==
  ASSUME WlInv, OneDispatcher, ProxyHandle, SurfaceRequest
  PROVE  StatesInv'
  <1>0. /\ TypesInv /\ LifeInv /\ StatesInv
        /\ PlacesInv /\ NewsInv /\ ConfigureInv /\ FullInv /\ FocusInv
        /\ \A r \in Slots : r \in Nat
        /\ \A p \in Offsets : p \in Nat
    BY SlotsAre DEF WlInv, StatesInv
  <1>1. /\ proxy_pc = "handle" /\ ctrl.op \in {"show", "destroy"}
        /\ bs' = bs /\ th' = th /\ rb' = rb /\ px' = px /\ life' = life /\ Wire' = Wire
        /\ current' = [current EXCEPT ![ctrl.arg] = IF ctrl.op = "show" THEN NORMAL ELSE 0]
    BY <1>0, SurfaceRequestIs DEF Answers, Apart, Wire
  <1>2. PICK t \in Threads :
          /\ \A u \in Threads \ {t} : ~ Waiting(u)
          /\ ctrl.op = "show" => th[t].pc = "shown" /\ ctrl.arg = th[t].i + 1 /\ ctrl.arg \in Slots
          /\ ctrl.op = "destroy" => th[t].pc = "gone" /\ ctrl.arg = th[t].i + 1
                                    /\ ctrl.arg \in Slots
          /\ ~ resp_wl_efd
    BY <1>1, Served
  <1>3. PICK o : o = th[t].i
    OBVIOUS
  <1>4. o \in Offsets /\ life[o] = IF ctrl.op = "show" THEN "heard" ELSE "gone"
    <2>1. WindowThread(t)
      BY <1>0 DEF LifeInv
    <2> QED
      BY <1>1, <1>2, <1>3, <2>1 DEF WindowThread
  <1>5. PICK s \in Slots : s = o + 1
    BY <1>1, <1>2, <1>3
  <1>6. /\ s - 1 = o /\ ctrl.arg = s
        /\ current'[s] = IF ctrl.op = "show" THEN NORMAL ELSE 0
        /\ \A r \in Slots \ {s} : current'[r] = current[r]
    <2>1. current \in CurrentType
      BY <1>0 DEF TypesInv
    <2> QED
      BY <1>0, <1>1, <1>2, <1>3, <1>4, <1>5, <2>1 DEF CurrentType
  <1>7. \A u \in Threads : th[u].pc # "await"
    BY <1>1, <1>2 DEF Waiting
  <1>8. /\ \A u \in Threads : StatePlaces(u)' = StatePlaces(u)
        /\ Undelivered' = Undelivered
    <2>1. \A u \in Threads : StatePlaces(u)' = StatePlaces(u)
      BY <1>1, <1>7, PlacesKept
    <2>2. PICK d \in Threads : Dispatchers = {d}
      BY DEF OneDispatcher
    <2> QED
      BY <2>1, <2>2, DispatcherHas, DispatcherHasNext
  <1>9. \A r : Coming(r)' = Coming(r)
    BY <1>1, <1>8 DEF Coming
  <1>10. /\ \A r, x : WillBe(r, x)' <=> WillBe(r, x)
         /\ \A r : Known(r)' = Known(r) /\ NewsOf(r)' = NewsOf(r)
         /\ \A r : Silent(r)' <=> Silent(r)
         /\ \A p : Public(p)' <=> Public(p)
         /\ NoneGone' <=> NoneGone
    BY <1>1, <1>9 DEF WillBe, Known, NewsOf, Silent, Public, NoneGone
  <1>11. PlacesInv'
    BY <1>0, <1>1, <1>8, <1>10 DEF PlacesInv
  <1>12. NewsInv'
    <2>1. \A r \in Slots : Sourced(r)'
      BY <1>0, <1>1, <1>10 DEF NewsInv, Sourced
    <2>2. ASSUME NEW r \in Slots \ {s}, r - 1 \in Offsets
          PROVE  life'[r - 1] = "gone" \/ (current'[r] = 0 /\ Silent(r)') \/ Current(r)'
      <3>1. Current(r) => Current(r)'
        BY <1>1, <1>6, <1>10 DEF Current
      <3> QED
        BY <1>0, <1>1, <1>6, <1>10, <2>2, <3>1 DEF NewsInv
    <2>3. CASE ctrl.op = "show"
      <3>1. life[o] = "heard"
        BY <1>4, <2>3
      <3>2. current[s] = 0
        <4>1. WindowLife(o)
          BY <1>0, <1>4 DEF LifeInv
        <4> QED
          BY <1>2, <1>5, <3>1, <4>1 DEF WindowLife
      <3>3. Silent(s)
        BY <1>0, <1>4, <1>6, <3>1, <3>2 DEF NewsInv, Current
      <3>4. /\ NewsOf(s)' = {} /\ Known(s)' = NORMAL /\ current'[s] = NORMAL /\ NORMAL # 0
            /\ WillBe(s, NORMAL)'
        BY <1>6, <1>10, <2>3, <3>3 DEF Silent, Known, WillBe, NORMAL
      <3>5. WillBe(s, Known(s))'
        BY <3>4 DEF WillBe
      <3>6. Current(s)'
        BY <3>4, <3>5 DEF Current
      <3> QED
        BY <2>1, <2>2, <3>6 DEF NewsInv
    <2>4. CASE ctrl.op = "destroy"
      <3>1. life'[s - 1] = "gone"
        BY <1>1, <1>4, <1>6, <2>4
      <3> QED
        BY <2>1, <2>2, <3>1 DEF NewsInv
    <2> QED
      BY <1>1, <2>3, <2>4
  <1>13. ConfigureInv'
    BY <1>0, <1>1 DEF ConfigureInv, Beside
  <1>14. FullInv'
    <2> SUFFICES ASSUME NoneGone, NEW a \in Slots, NEW b \in Slots, a # b
                 PROVE  NotBoth(a, b)' /\ Leaves(a, b)'
      BY <1>10 DEF FullInv
    <2>1. NotBoth(a, b) /\ Leaves(a, b)
      BY <1>0 DEF FullInv
    <2>2. ~ (current'[a] = FULLSCREEN /\ current'[b] = FULLSCREEN)
      <3>1. \A r \in Slots : current'[r] = FULLSCREEN => current[r] = FULLSCREEN
        BY <1>6 DEF NORMAL, FULLSCREEN
      <3> QED
        BY <2>1, <3>1 DEF NotBoth
    <2>3. NotBoth(a, b)'
      BY <1>10, <2>1, <2>2 DEF NotBoth
    <2>4. \A i, j : Left(b, i, j)' <=> Left(b, i, j)
      BY <1>1, <1>10 DEF Left
    <2> QED
      BY <1>1, <1>10, <2>1, <2>3, <2>4 DEF Leaves
  <1>15. FocusInv'
    BY <1>0, <1>1, <1>9, <1>10 DEF FocusInv
  <1> QED
    BY <1>11, <1>12, <1>13, <1>14, <1>15 DEF StatesInv

(* A shell surface is one nothing was told of yet.                         *)
LEMMA ShellMade ==
  ASSUME WlInv, OneDispatcher, ProxyHandle, GetShellSurface
  PROVE  StatesInv'
  <1>0. /\ TypesInv /\ LifeInv /\ NewsInv
        /\ \A r \in Slots : r \in Nat
    BY SlotsAre DEF WlInv, StatesInv
  <1>1. /\ proxy_pc = "handle" /\ ctrl.op = "shell"
        /\ bs' = bs /\ th' = th /\ rb' = rb /\ life' = life /\ Wire' = Wire
        /\ current' = current /\ px'.shells = px.shells \cup {ctrl.arg}
        /\ \A s \in Slots \ {ctrl.arg} : px'.wss[s] = px.wss[s]
        /\ px'.wss[ctrl.arg] = IF ctrl.arg \in px.shells THEN px.wss[ctrl.arg]
                               ELSE [last |-> 0, pending |-> FALSE]
    BY <1>0, ShellArg, GetShellSurfaceIs DEF Answers, Apart, Wire
  <1>2. PICK t \in Threads :
          /\ \A u \in Threads \ {t} : ~ Waiting(u)
          /\ th[t].pc = "shell" /\ ctrl.arg = th[t].i + 1 /\ ctrl.arg \in Slots
    BY <1>1, Served
  <1>3. th[t].i \in Offsets /\ life[th[t].i] = "made"
    <2>1. WindowThread(t)
      BY <1>0 DEF LifeInv
    <2> QED
      BY <1>2, <2>1 DEF WindowThread
  <1>4. ctrl.arg - 1 \in Offsets /\ life[ctrl.arg - 1] = "made"
    <2>1. th[t].i \in Nat
      BY <1>3, SlotsAre
    <2>2. ctrl.arg - 1 = th[t].i
      BY <1>2, <2>1
    <2> QED
      BY <1>3, <2>2
  <1>5. px'.wss[ctrl.arg] = px.wss[ctrl.arg]
    <2>1. ~ Public(ctrl.arg - 1)
      BY <1>4 DEF Public
    <2>2. current[ctrl.arg] = 0
      BY <1>0, <1>2, <2>1 DEF LifeInv
    <2>3. Silent(ctrl.arg)
      BY <1>0, <1>2, <1>4, <2>2 DEF NewsInv, Current
    <2> QED
      BY <1>1, <2>3 DEF Silent
  <1>6. \A u \in Threads : th[u].pc # "await"
    BY <1>2 DEF Waiting
  <1>7. Undelivered' = Undelivered
    <2>1. \A u \in Threads : StatePlaces(u)' = StatePlaces(u)
      BY <1>1, <1>6, PlacesKept
    <2>2. PICK d \in Threads : Dispatchers = {d}
      BY DEF OneDispatcher
    <2> QED
      BY <2>1, <2>2, DispatcherHas, DispatcherHasNext
  <1>8. WireMore /\ LivesOn
    BY <1>1 DEF WireMore, LivesOn, Public
  <1> QED
    BY <1>1, <1>5, <1>7, <1>8, StatesKept

(* Every step keeps the states on their way.                               *)
LEMMA StatesStep ==
  ASSUME WlInv, OneDispatcher, OneCreator, PlainWindows, [Next]_vars
  PROVE  StatesInv'
  <1>0. TypesInv /\ StatesInv /\ FocusInv
    BY DEF WlInv, StatesInv
  <1>1. PICK d \in Threads : Dispatchers = {d}
    BY DEF OneDispatcher
  <1>2. ASSUME \A u \in Threads : StatePlaces(u)' = StatePlaces(u)
        PROVE  Undelivered' = Undelivered
    BY <1>1, <1>2, DispatcherHas, DispatcherHasNext
  <1>3. CASE Quietly
    <2>1. Undelivered' = Undelivered
      BY <1>2, <1>3 DEF Quietly, PlacesSame
    <2>2. WireMore
      BY <1>3 DEF Quietly, WireMore
    <2> QED
      BY <1>3, <2>1, <2>2, StatesKept DEF Quietly
  <1>4. CASE SendKey
    <2>1. /\ bs' = bs /\ rb' = rb /\ th' = th /\ resp_wl_efd' = resp_wl_efd /\ px' = px
          /\ life' = life /\ current' = current /\ Key(sent + 1) \in Event
          /\ Wire' = Wire \o <<Key(sent + 1)>>
      BY <1>0, <1>4, SendKeyIs DEF Commandless, Apart
    <2>2. Undelivered' = Undelivered
      BY <1>2, <2>1, PlacesKept
    <2>3. WireMore
      <3>1. queue \in Seq(Event) /\ socket \in Seq(Event)
        BY <1>0 DEF TypesInv, Events
      <3>2. Wire \in Seq(Event) /\ <<Key(sent + 1)>> \in Seq(Event)
        BY <2>1, <3>1, WireIs
      <3>3. PICK l \in Nat : l = Len(Wire)
        BY <3>2
      <3>4. /\ DOMAIN Wire = 1 .. l /\ DOMAIN Wire' = 1 .. l + 1
            /\ \A i \in 1 .. l : Wire'[i] = Wire[i]
            /\ Wire'[l + 1] = Key(sent + 1)
        BY <2>1, <3>2, <3>3
      <3>5. \A i \in 1 .. l + 1 : i \in 1 .. l \/ i = l + 1
        BY <3>3
      <3>6. \A i \in 1 .. l : i \in 1 .. l + 1
        BY <3>3
      <3>7. Key(sent + 1).kind = "key"
        BY DEF Key
      <3> QED
        BY <3>4, <3>5, <3>6, <3>7 DEF WireMore
    <2>4. LivesOn
      BY <2>1 DEF LivesOn, Public
    <2> QED
      BY <2>1, <2>2, <2>3, <2>4, StatesKept
  <1>5. ASSUME NEW t \in Threads, FocusFirst(t)
        PROVE  StatesInv'
    <2>1. /\ At(t, "focus") /\ Only(t) /\ th'[t].pc = "keys" /\ rb' = rb
          /\ resp_wl_efd' = resp_wl_efd /\ px' = px /\ Wire' = Wire /\ current' = current
          /\ life' = life /\ bs'.told = bs.told /\ Entered(bs', bs)
      BY <1>5, FocusIs DEF To, Stays, Outside, Wire
    <2>2. StatePlaces(t)' = StatePlaces(t)
      BY <2>1 DEF StatePlaces, At
    <2>3. Undelivered' = Undelivered
      BY <1>2, <2>1, <2>2, PlacesKept DEF Only
    <2>4. WireMore /\ LivesOn
      BY <2>1 DEF WireMore, LivesOn, Public
    <2>5. bs.enter_sent => bs'.enter_sent /\ bs'.keyboard_focus = bs.keyboard_focus
      BY <2>1 DEF Entered
    <2> QED
      BY <2>1, <2>3, <2>4, <2>5, StatesKept
  <1>6. ASSUME NEW t \in Threads, DeliverKey(t)
        PROVE  StatesInv'
    <2>1. /\ At(t, "keys") /\ Only(t) /\ th'[t].pc = "keys" /\ rb' = rb
          /\ resp_wl_efd' = resp_wl_efd /\ px' = px /\ Wire' = Wire /\ current' = current
          /\ life' = life /\ bs'.told = bs.told /\ bs'.enter_sent = bs.enter_sent
          /\ bs'.keyboard_focus = bs.keyboard_focus
      BY <1>6, KeyIs DEF To, Stays, Outside, Wire
    <2>2. StatePlaces(t)' = StatePlaces(t)
      BY <2>1 DEF StatePlaces, At
    <2>3. Undelivered' = Undelivered
      BY <1>2, <2>1, <2>2, PlacesKept DEF Only
    <2>4. WireMore /\ LivesOn
      BY <2>1 DEF WireMore, LivesOn, Public
    <2> QED
      BY <2>1, <2>3, <2>4, StatesKept
  <1> QED
    BY <1>3, <1>4, <1>5, <1>6, QuietOrLoud, StateSent, StateHeard, StatesCollected,
       ShellMade, SurfaceRequested, StateDelivered
    DEF Loudly, Compositor, States

-----------------------------------------------------------------------------
(* The invariant.                                                          *)

LEMMA WlInit ==
  ASSUME Init, FewSurfaces, OneDispatcher
  PROVE  WlInv
  <1> USE DEF Init
  <1>0. /\ Slots \subseteq Nat \ {0} /\ Cardinality(Slots) = PROXY_SURF_MAX - 1
        /\ PROXY_SURF_MAX \in Nat \ {0} /\ SURF_MAP_MAX \in Nat \ {0}
        /\ INPUT_EVT_MAX \in Nat \ {0} /\ Offsets \subseteq Nat /\ None \notin Offsets
    BY SlotsAre
  <1>1. /\ left \in LeftType /\ left["surfaces"] < PROXY_SURF_MAX
        /\ left["surfaces"] <= SURF_MAP_MAX /\ left["surfaces"] \in Nat
    BY WlAssumption DEF FewSurfaces, LeftType, Limited
  <1>2. \A t \in Threads : th[t] = Idle
    OBVIOUS
  <1>3. \A t \in Threads : /\ ~ Waiting(t) /\ ~ Unnamed(t)
                           /\ KeyPlaces(t) = {} /\ StatePlaces(t) = {}
                           /\ th[t].pc = "rest"
    BY <1>2 DEF Idle, Waiting, AskPcs, Unnamed, KeyPlaces, StatePlaces, At
  <1>4. Wire = << >> /\ DOMAIN Wire = {}
    BY DEF Wire
  <1>5. Underway = {} /\ Undelivered = {}
    <2>1. PICK d \in Threads : Dispatchers = {d}
      BY DEF OneDispatcher
    <2> QED
      BY <1>3, <2>1, DispatcherHas
  <1>6. TypesInv
    <2>1. /\ lock \in Threads \cup {NoThread} /\ proxy_pc \in ProxyPcs
          /\ unheard \subseteq Nat /\ sent \in Nat
      BY DEF ProxyPcs
    <2>8. {req_wl_efd, resp_wl_efd, event_efd, revents} \subseteq BOOLEAN
      OBVIOUS
    <2>9. ctrl \in CtrlType
      BY DEF CtrlType
    <2>10. socket \in Events /\ queue \in Events
      BY DEF Events
    <2>2. rb \in RbType
      BY <1>0 DEF RbType, NoEvent
    <2>3. px \in PxType /\ Len(px.evts) <= INPUT_EVT_MAX
      BY <1>0 DEF PxType
    <2>4. bs \in BsType
      BY <1>0 DEF BsType, Offset0, None, States, NORMAL
    <2>5. current \in CurrentType /\ life \in LifeType
      BY DEF CurrentType, LifeType, Lives
    <2>6. th \in ThreadsType
      BY DEF ThreadsType, ThType, Idle
    <2>7. cb \in CallbacksType
      BY CallbacksAre DEF CallbacksType
    <2> QED
      BY <1>1, <2>1, <2>2, <2>3, <2>4, <2>5, <2>6, <2>7, <2>8, <2>9, <2>10 DEF TypesInv
  <1>7. ChannelInv
    <2>1. NoThread \notin Threads
      BY WlAssumption
    <2> QED
      BY <1>3, <2>1 DEF ChannelInv, DispatchPcs, CreatorPcs, AskPcs
  <1>8. NumbersInv
    <2>1. BeingMade = 0 /\ Begun = 0
      BY <1>3 DEF BeingMade, Begun
    <2>2. /\ bs.next_surface = 0 /\ px.g_surf_next = 1
          /\ \A o \in Offsets : life[o] = "none" /\ o >= 0 /\ ~ (o < 0)
      BY <1>0
    <2> QED
      BY <1>0, <1>1, <1>3, <2>1, <2>2 DEF NumbersInv
  <1>9. LifeInv
    <2>1. \A t \in Threads : WindowThread(t)
      BY <1>3 DEF WindowThread
    <2>2. \A o \in Offsets : WindowLife(o)
      BY DEF WindowLife
    <2> QED
      BY <2>1, <2>2 DEF LifeInv
  <1>10. TypeOK
    <2>1. TypeMore
      BY <1>0 DEF TypeMore, Offset0, None
    <2> QED
      BY <1>6, <1>8, <1>9, <2>1, TypesAreOK
  <1>11. KeysInv
    <2>1. Heard = {} /\ Range(px.evts) = {} /\ Keys(Wire) = {}
      BY <1>4 DEF Heard, Range, Keys
    <2>2. AllPlaced
      <3>1. 1 .. sent = {}
        OBVIOUS
      <3> QED
        BY <1>5, <2>1, <3>1 DEF AllPlaced, Placed, Before
    <2>3. HeardInOrder /\ Ascending(px.evts) /\ WireInOrder
      BY <1>4 DEF HeardInOrder, Ascending, WireInOrder
    <2>4. PlacesInOrder
      BY <1>3 DEF PlacesInOrder
    <2> QED
      BY <2>2, <2>3, <2>4, KeysAre
  <1>12. EnterInv
    BY <1>3 DEF EnterInv
  <1>13. StatesInv
    <2>1. /\ \A s : NewsOf(s) = {} /\ Coming(s) = {}
          /\ \A s \in Slots : Known(s) = NORMAL /\ px.wss[s] = [last |-> 0, pending |-> FALSE]
          /\ \A o \in Offsets : bs.told[o] = NORMAL
      BY <1>4, <1>5 DEF NewsOf, Coming, Known
    <2>2. PlacesInv
      BY <1>5, <2>1 DEF PlacesInv, NORMAL
    <2>3. \A s \in Slots : Sourced(s) /\ (s - 1 \in Offsets => current[s] = 0 /\ Silent(s))
      BY <2>1 DEF Sourced, Silent
    <2>4. NewsInv
      BY <2>3 DEF NewsInv
    <2>5. ConfigureInv
      BY <1>4 DEF ConfigureInv
    <2>6. FullInv
      <3>1. \A s \in Slots : s - 1 \in Offsets => ~ WillBe(s, FULLSCREEN)
        BY <2>1 DEF WillBe, NORMAL, FULLSCREEN
      <3>2. \A s, r \in Slots : NotBoth(s, r) /\ Leaves(s, r)
        BY <2>1, <3>1 DEF NotBoth, Leaves, NORMAL, FULLSCREEN
      <3> QED
        BY <3>2 DEF FullInv
    <2>7. FocusInv
      BY <2>1 DEF FocusInv, NORMAL, FULLSCREEN
    <2> QED
      BY <2>2, <2>4, <2>5, <2>6, <2>7 DEF StatesInv
  <1> QED
    BY <1>6, <1>7, <1>8, <1>9, <1>10, <1>11, <1>12, <1>13 DEF WlInv

LEMMA WlStep ==
  ASSUME WlInv, PlainProgram, [Next]_vars
  PROVE  WlInv'
  <1>1. OneDispatcher /\ OneCreator /\ PlainWindows
    BY DEF PlainProgram
  <1>2. TypesInv' /\ TypeOK' /\ ChannelInv' /\ NumbersInv' /\ LifeInv'
    BY <1>1, TypesStep, TypeOKStep, ChannelStep, WindowsStep
  <1>3. KeysInv' /\ EnterInv' /\ StatesInv'
    BY <1>1, KeysStep, EnterStep, StatesStep
  <1> QED
    BY <1>2, <1>3 DEF WlInv

(* Between the compositor and the listeners of the program no key and no   *)
(* state is lost, doubled or overtaken, wherever the threads of both       *)
(* processes are: in the socket, the queue, the proxy's tables, the result *)
(* buffer and the loops of _bridge_dispatch().                             *)
THEOREM WlCorrect ==
  ASSUME PlainProgram
  PROVE  Spec => []WlInv
  <1>1. Init => WlInv
    BY WlInit DEF PlainProgram
  <1>2. WlInv /\ [Next]_vars => WlInv'
    BY WlStep
  <1> QED
    BY <1>1, <1>2, PTL DEF Spec

(* The fields, counters and tables of both sides keep their ranges.        *)
THEOREM WlTypeCorrect ==
  ASSUME PlainProgram
  PROVE  Spec => []TypeOK
  <1>1. WlInv => TypeOK
    BY DEF WlInv
  <1> QED
    BY <1>1, WlCorrect, PTL

-----------------------------------------------------------------------------
(* What it says of keys and of states.                                     *)

LEMMA KeysOnce ==
  ASSUME WlInv
  PROVE  KeysOnceInOrder
  <1>0. TypesInv /\ KeysInv /\ EnterInv
    BY DEF WlInv
  <1> DEFINE H == Heard  U == Underway  E == Range(px.evts)
             Q == Keys(queue)  S == Keys(socket)  X == unheard
  <1>1. /\ queue \in Seq(Event) /\ socket \in Seq(Event)
        /\ DOMAIN queue = 1 .. Len(queue) /\ DOMAIN socket = 1 .. Len(socket)
        /\ Len(queue) \in Nat /\ Len(socket) \in Nat /\ sent \in Nat
    BY <1>0 DEF TypesInv, Events
  <1>2. /\ DOMAIN Wire = 1 .. Len(queue) + Len(socket)
        /\ \A i \in 1 .. Len(queue) : Wire[i] = queue[i]
        /\ \A i \in 1 .. Len(socket) : Wire[Len(queue) + i] = socket[i]
    <2>1. Wire = queue \o socket
      BY DEF Wire
    <2> QED
      BY <1>1, <2>1, ConcatAppend
  <1>3. \A a \in Q : \E i \in 1 .. Len(queue) : /\ KeyAt(i) /\ i \in DOMAIN Wire
                                                /\ Wire[i].what = a
    <2> SUFFICES ASSUME NEW a \in Q
                 PROVE  \E i \in 1 .. Len(queue) : /\ KeyAt(i) /\ i \in DOMAIN Wire
                                                   /\ Wire[i].what = a
      OBVIOUS
    <2>1. PICK i \in 1 .. Len(queue) : queue[i].kind = "key" /\ queue[i].what = a
      BY <1>1 DEF Keys, Range
    <2>2. i \in 1 .. Len(queue) + Len(socket)
      BY <1>1
    <2> QED
      BY <1>2, <2>1, <2>2 DEF KeyAt
  <1>4. \A b \in S : \E j \in 1 .. Len(socket) :
          /\ KeyAt(Len(queue) + j) /\ Len(queue) + j \in DOMAIN Wire
          /\ Wire[Len(queue) + j].what = b
    <2> SUFFICES ASSUME NEW b \in S
                 PROVE  \E j \in 1 .. Len(socket) :
                          /\ KeyAt(Len(queue) + j) /\ Len(queue) + j \in DOMAIN Wire
                          /\ Wire[Len(queue) + j].what = b
      OBVIOUS
    <2>1. PICK j \in 1 .. Len(socket) : socket[j].kind = "key" /\ socket[j].what = b
      BY <1>1 DEF Keys, Range
    <2>2. Len(queue) + j \in 1 .. Len(queue) + Len(socket)
      BY <1>1
    <2> QED
      BY <1>2, <2>1, <2>2 DEF KeyAt
  (* The queue comes before the socket. *)
  <1>5. Before(Q, S)
    <2> SUFFICES ASSUME NEW a \in Q, NEW b \in S
                 PROVE  a < b
      BY DEF Before
    <2>1. PICK i \in 1 .. Len(queue) : KeyAt(i) /\ i \in DOMAIN Wire /\ Wire[i].what = a
      BY <1>3
    <2>2. PICK j \in 1 .. Len(socket) :
            /\ KeyAt(Len(queue) + j) /\ Len(queue) + j \in DOMAIN Wire
            /\ Wire[Len(queue) + j].what = b
      BY <1>4
    <2>3. i < Len(queue) + j
      BY <1>1
    <2> QED
      BY <1>0, <2>1, <2>2, <2>3 DEF KeysInv
  <1>6. Keys(Wire) = Q \cup S
    <2>1. Q \cup S \subseteq Keys(Wire)
      <3>1. Q \subseteq Keys(Wire)
        BY <1>3, WireKeys
      <3>2. S \subseteq Keys(Wire)
        BY <1>4, WireKeys
      <3> QED
        BY <3>1, <3>2
    <2>2. ASSUME NEW k \in Keys(Wire)
          PROVE  k \in Q \cup S
      <3>1. PICK i \in DOMAIN Wire : KeyAt(i) /\ Wire[i].what = k
        BY WireKeys
      <3>2. i \in 1 .. Len(queue) \/ \E j \in 1 .. Len(socket) : i = Len(queue) + j
        <4>1. i \in 1 .. Len(queue) \/ (i - Len(queue) \in 1 .. Len(socket)
                                        /\ i = Len(queue) + (i - Len(queue)))
          BY <1>1, <1>2
        <4> QED
          BY <4>1
      <3>3. CASE i \in 1 .. Len(queue)
        <4>1. i \in DOMAIN queue /\ queue[i].kind = "key" /\ queue[i].what = k
          BY <1>1, <1>2, <3>1, <3>3 DEF KeyAt
        <4> QED
          BY <4>1 DEF Keys, Range
      <3>4. ASSUME NEW j \in 1 .. Len(socket), i = Len(queue) + j
            PROVE  k \in S
        <4>1. j \in DOMAIN socket /\ socket[j].kind = "key" /\ socket[j].what = k
          BY <1>1, <1>2, <3>1, <3>4 DEF KeyAt
        <4> QED
          BY <4>1 DEF Keys, Range
      <3> QED
        BY <3>2, <3>3, <3>4
    <2> QED
      BY <2>1, <2>2
  (* The places have nothing in common. *)
  <1>7. /\ 1 .. sent = H \cup U \cup E \cup Q \cup S \cup X
        /\ X \cap (H \cup U \cup E \cup Q \cup S) = {}
        /\ Before(H, U \cup E \cup Q \cup S) /\ Before(U, E \cup Q \cup S)
        /\ Before(E, Q \cup S) /\ Before(Q, S)
    <2> HIDE DEF H, U, E, Q, S, X
    <2>1. Placed(sent, H, U, E, Q \cup S, X)
      BY <1>0, <1>6, KeysAre DEF AllPlaced, H, U, E, X
    <2> QED
      BY <1>5, <2>1 DEF Placed, Before
  <1>8. Held = <<H, U, E, Q, S, X>>
    BY DEF Held
  <1>9. \A k \in 1 .. sent : \E i \in DOMAIN Held :
          k \in Held[i] /\ \A j \in DOMAIN Held \ {i} : k \notin Held[j]
    <2> HIDE DEF H, U, E, Q, S, X
    <2> TAKE k \in 1 .. sent
    <2>1. /\ DOMAIN Held = 1 .. 6
          /\ Held[1] = H /\ Held[2] = U /\ Held[3] = E /\ Held[4] = Q /\ Held[5] = S
          /\ Held[6] = X
      BY <1>8
    <2>2. \A i \in 1 .. 6 : i \in {1, 2, 3, 4, 5, 6}
      OBVIOUS
    <2>3. ~ (k < k)
      BY <1>1
    <2>4. /\ k \in H => k \notin U /\ k \notin E /\ k \notin Q /\ k \notin S /\ k \notin X
          /\ k \in U => k \notin H /\ k \notin E /\ k \notin Q /\ k \notin S /\ k \notin X
          /\ k \in E => k \notin H /\ k \notin U /\ k \notin Q /\ k \notin S /\ k \notin X
          /\ k \in Q => k \notin H /\ k \notin U /\ k \notin E /\ k \notin S /\ k \notin X
          /\ k \in S => k \notin H /\ k \notin U /\ k \notin E /\ k \notin Q /\ k \notin X
          /\ k \in X => k \notin H /\ k \notin U /\ k \notin E /\ k \notin Q /\ k \notin S
      BY <1>7, <2>3 DEF Before
    <2>5. k \in H \/ k \in U \/ k \in E \/ k \in Q \/ k \in S \/ k \in X
      BY <1>7
    <2>6. CASE k \in H
      BY <2>1, <2>2, <2>4, <2>6
    <2>7. CASE k \in U
      BY <2>1, <2>2, <2>4, <2>7
    <2>8. CASE k \in E
      BY <2>1, <2>2, <2>4, <2>8
    <2>9. CASE k \in Q
      BY <2>1, <2>2, <2>4, <2>9
    <2>10. CASE k \in S
      BY <2>1, <2>2, <2>4, <2>10
    <2>11. CASE k \in X
      BY <2>1, <2>2, <2>4, <2>11
    <2> QED
      BY <2>5, <2>6, <2>7, <2>8, <2>9, <2>10, <2>11
  <1> QED
    BY <1>0, <1>9 DEF KeysOnceInOrder, KeysInv, EnterInv

(* A key the compositor sent is at one place of its way, or was dropped    *)
(* when the proxy's buffer was full or no keyboard listened; the keyboard  *)
(* hears the others once, in their order, and after it was entered.        *)
THEOREM KeysCorrect ==
  ASSUME PlainProgram
  PROVE  Spec => []KeysOnceInOrder
  <1>1. WlInv => KeysOnceInOrder
    BY KeysOnce
  <1> QED
    BY <1>1, WlCorrect, PTL

LEMMA Settled ==
  ASSUME WlInv, PlainProgram
  PROVE  StatesSettle
  <1>0. /\ TypesInv /\ ChannelInv /\ LifeInv /\ NumbersInv /\ NewsInv /\ FocusInv
        /\ \A o \in Offsets : o \in Nat
    BY SlotsAre DEF WlInv, StatesInv
  <1> SUFFICES ASSUME Quiet, NEW o \in Offsets, IsShown(o)
               PROVE  /\ InState(o)
                      /\ bs.enter_sent /\ StateOf(o) = FULLSCREEN /\ NoneGone =>
                           bs.keyboard_focus = o
    BY DEF StatesSettle
  <1>1. PICK d \in Threads : Dispatchers = {d}
    BY DEF PlainProgram, OneDispatcher
  <1>2. th[d].pc \notin Handing
    BY <1>1 DEF Quiet, Handing
  <1>3. Undelivered = {}
    BY <1>1, <1>2, PlacesNone, DispatcherHas
  <1>4. PICK s : s = o + 1
    OBVIOUS
  <1>5. /\ s \in Slots /\ s - 1 = o /\ bs.surface_slot_map[o] = s /\ s \in px.shells
        /\ current[s] # 0 /\ life[o] = "shown"
    <2>1. WindowLife(o) /\ life[o] = "shown"
      BY <1>0 DEF LifeInv, IsShown
    <2>2. o + 1 \in Slots /\ bs.surface_slot_map[o] = o + 1
      BY <2>1, Windows
    <2> QED
      BY <1>0, <1>4, <2>1, <2>2 DEF WindowLife
  <1>6. NewsOf(s) = {} /\ Coming(s) = {} /\ ~ px.wss[s].pending
    <2>1. Wire = << >>
      BY DEF Quiet, Wire
    <2>2. NewsOf(s) = {}
      BY <2>1 DEF NewsOf
    <2>3. ~ px.wss[s].pending
      BY <1>5 DEF Quiet, proxy_wl_has_events
    <2> QED
      BY <1>3, <2>2, <2>3 DEF Coming
  <1>7. Current(s)
    BY <1>0, <1>5 DEF NewsInv
  <1>8. bs.told[o] = current[s]
    BY <1>5, <1>6, <1>7 DEF Current, WillBe
  <1>9. InState(o)
    BY <1>5, <1>8 DEF InState, StateOf
  <1>10. bs.enter_sent /\ StateOf(o) = FULLSCREEN /\ NoneGone => bs.keyboard_focus = o
    BY <1>0, <1>4, <1>5, <1>6, <1>8 DEF FocusInv, StateOf
  <1> QED
    BY <1>9, <1>10

(* When nothing is on its way each surface was told its state by its own   *)
(* listener, and the keyboard, once entered, is on the fullscreen one: the *)
(* listener found by the offset of the slot is the right one.              *)
THEOREM StatesCorrect ==
  ASSUME PlainProgram
  PROVE  Spec => []StatesSettle
  <1>1. WlInv => StatesSettle
    BY Settled
  <1> QED
    BY <1>1, WlCorrect, PTL
=============================================================================
