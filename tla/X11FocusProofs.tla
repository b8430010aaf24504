--------------------------- MODULE X11FocusProofs ---------------------------
(***************************************************************************)
(* Proofs about X11Focus: the window that is shown as active and the one   *)
(* that has the keyboard are the same as soon as everything was heard of.  *)
(*                                                                         *)
(* The focus is the server's, and Workspace learns of it from a queue of   *)
(* events.  The invariant, Good, says how the queue makes up for what it does *)
(* not know yet.  Order: the last event of a window that has the focus is a *)
(* FocusIn, and that of one that has had it is a FocusOut.  So when a FocusIn *)
(* is read that is overtaken, the FocusOut is still to come (Nobody), and so *)
(* is the FocusIn of the window that has the focus (Somebody).  When neither *)
(* is, the window is active, or it is not since takeFocus() has failed.  A *)
(* window that is mapped can be seen (Visible), so what Workspace ignores as *)
(* hidden has not got the focus: with windows that are hidden and stay mapped *)
(* it may have, and the theorems do not hold then.  Nor do they when a window *)
(* does not have the input hint and only the client can focus it.          *)
(*                                                                         *)
(* The first part is about types.  Without is defined by recursion: that it *)
(* returns a sequence is proved by induction over a set (SetInduction).    *)
(***************************************************************************)
EXTENDS X11Focus, WellFoundedInduction, SequenceTheorems, TLAPS

-----------------------------------------------------------------------------
(* Types of the functions from state to state. *)

State ==
    [focus : Windows \union {NullFocus, PointerRoot}, viewable : SUBSET Windows, events : Seq(Events),
     asked : SUBSET Windows, overtaken : SUBSET Windows, behind : BOOLEAN,
     managed : SUBSET Windows, minimized : SUBSET Windows, current : Desktops,
     active : Windows \union {None}, last : Windows \union {None}, requested : Seq(Windows),
     timers : SUBSET Windows, failed : BOOLEAN]

Typed(s) == s \in State /\ s.minimized \subseteq s.managed /\ s.overtaken \subseteq s.asked

\* Induction over the natural numbers, for a set.
LEMMA SetInduction ==
    ASSUME NEW S, 0 \in S, \A n \in Nat : n \in S => n + 1 \in S
    PROVE  \A n \in Nat : n \in S
<1> DEFINE T == Nat \ S
           R == OpToRel(<, Nat)
<1> SUFFICES ASSUME T # {} PROVE FALSE
  OBVIOUS
<1>1. IsWellFoundedOn(R, Nat)
  BY NatLessThanWellFounded
<1>2. \A x \in Nat : x # 0 => x - 1 \in Nat /\ <<x - 1, x>> \in R
  BY DEF OpToRel
<1> HIDE DEF R
<1>3. PICK x \in T : \A y \in T : ~(<<y, x>> \in R)
  BY <1>1, WFMin
<1>4. x # 0
  OBVIOUS
<1>5. x \in Nat /\ x - 1 \in Nat /\ x - 1 \notin T
  BY <1>2, <1>3, <1>4
<1>6. (x - 1) + 1 \in S
  BY <1>5
<1>7. (x - 1) + 1 = x
  BY <1>5
<1> QED
  BY <1>6, <1>7

\* A function that is defined by recursion on a bounded number exists, ...
Steps(n, T) == [(1 .. n) \X T -> T]
IsRun(g, T, n, a, step) == g \in [0 .. n -> T] /\ g[0] = a /\ \A i \in 1 .. n : g[i] = step[<<i, g[i - 1]>>]

LEMMA Recursion ==
    ASSUME NEW T, NEW n \in Nat, NEW a \in T, NEW step \in Steps(n, T)
    PROVE  \E g : IsRun(g, T, n, a, step)
<1> USE DEF Steps
<1> DEFINE Upto(m, g) == g \in [0 .. m -> T] /\ g[0] = a /\ \A i \in 1 .. m : g[i] = step[<<i, g[i - 1]>>]
           Fine == {m \in Nat : m <= n => \E g : Upto(m, g)}
<1>1. 0 \in Fine
  <2>1. Upto(0, [i \in 0 .. 0 |-> a])
    OBVIOUS
  <2> QED
    BY <2>1
<1>2. \A m \in Nat : m \in Fine => m + 1 \in Fine
  <2> SUFFICES ASSUME NEW m \in Nat, m + 1 <= n, NEW g, Upto(m, g) PROVE \E h : Upto(m + 1, h)
    OBVIOUS
  <2> DEFINE x == step[<<m + 1, g[m]>>]
             h == [i \in 0 .. m + 1 |-> IF i = m + 1 THEN x ELSE g[i]]
  <2>1. g[m] \in T /\ m + 1 \in 1 .. n
    OBVIOUS
  <2>2. x \in T
    BY <2>1
  <2> HIDE DEF x
  <2>3. h \in [0 .. m + 1 -> T] /\ h[0] = a
    BY <2>2
  <2>4. \A i \in 0 .. m : h[i] = g[i]
    OBVIOUS
  <2>5. \A i \in 1 .. m : i - 1 \in 0 .. m /\ i \in 0 .. m
    OBVIOUS
  <2>6. \A i \in 1 .. m : h[i] = step[<<i, h[i - 1]>>]
    BY <2>4, <2>5
  <2>7. h[m + 1] = step[<<m + 1, h[m]>>] /\ (m + 1) - 1 = m
    <3>1. h[m + 1] = x /\ h[m] = g[m]
      BY <2>4
    <3> HIDE DEF h
    <3> QED
      BY <3>1 DEF x
  <2>8. \A i \in 1 .. m + 1 : h[i] = step[<<i, h[i - 1]>>]
    <3> SUFFICES ASSUME NEW i \in 1 .. m + 1 PROVE h[i] = step[<<i, h[i - 1]>>]
      OBVIOUS
    <3>1. i \in 1 .. m \/ i = m + 1
      OBVIOUS
    <3> HIDE DEF h
    <3> QED
      BY <3>1, <2>6, <2>7
  <2>9. Upto(m + 1, h)
    BY <2>3, <2>8
  <2> QED
    BY <2>9
<1> HIDE DEF Fine
<1>3. \A m \in Nat : m \in Fine
  BY <1>1, <1>2, SetInduction
<1>4. \E g : Upto(n, g)
  <2>1. n \in Fine /\ n <= n
    BY <1>3
  <2> HIDE DEF Upto
  <2> QED
    BY <2>1 DEF Fine
<1> QED
  BY <1>4 DEF IsRun

\* ... and has its values in the set its steps lead to.
LEMMA RecursionType ==
    ASSUME NEW T, NEW n \in Nat, NEW f, f[0] \in T,
           \A i \in 1 .. n : f[i - 1] \in T => f[i] \in T
    PROVE  f[n] \in T
<1> DEFINE Fine == {m \in Nat : m <= n => f[m] \in T}
<1>1. 0 \in Fine
  OBVIOUS
<1>2. \A m \in Nat : m \in Fine => m + 1 \in Fine
  <2> SUFFICES ASSUME NEW m \in Nat, m + 1 <= n, f[m] \in T PROVE f[m + 1] \in T
    OBVIOUS
  <2>1. m + 1 \in 1 .. n /\ (m + 1) - 1 = m
    OBVIOUS
  <2> QED
    BY <2>1
<1> HIDE DEF Fine
<1>3. \A m \in Nat : m \in Fine
  BY <1>1, <1>2, SetInduction
<1> QED
  BY <1>3 DEF Fine

\* removeAll() returns a list of the same type.
LEMMA WithoutType ==
    ASSUME NEW S, NEW q \in Seq(S), NEW w
    PROVE  Without(q, w) \in Seq(S)
<1> DEFINE n == Len(q)
           Entry(f, i) == IF i = 0 THEN <<>>
                         ELSE IF q[i] = w THEN f[i - 1] ELSE Append(f[i - 1], q[i])
           kept == CHOOSE f : f = [i \in 0 .. n |-> Entry(f, i)]
           step == [p \in (1 .. n) \X Seq(S) |-> IF q[p[1]] = w THEN p[2] ELSE Append(p[2], q[p[1]])]
<1>1. n \in Nat /\ \A i \in 1 .. n : q[i] \in S
  OBVIOUS
<1>2. step \in [(1 .. n) \X Seq(S) -> Seq(S)]
  BY <1>1
<1>3. PICK g \in [0 .. n -> Seq(S)] : g[0] = <<>> /\ \A i \in 1 .. n : g[i] = step[<<i, g[i - 1]>>]
  <2> DEFINE T == Seq(S)
             none == <<>>
  <2>1. none \in T /\ n \in Nat /\ step \in Steps(n, T)
    BY <1>1, <1>2 DEF Steps
  <2> HIDE DEF step, n, T, none
  <2>2. \E g : IsRun(g, T, n, none, step)
    BY <2>1, Recursion
  <2> QED
    BY <2>2 DEF T, none, IsRun
<1>4. g = [i \in 0 .. n |-> Entry(g, i)]
  <2> SUFFICES ASSUME NEW i \in 0 .. n PROVE g[i] = Entry(g, i)
    OBVIOUS
  <2>1. CASE i = 0
    BY <1>3, <2>1
  <2>2. CASE i # 0
    <3>1. i \in 1 .. n /\ g[i - 1] \in Seq(S)
      BY <1>1, <2>2
    <3>2. g[i] = step[<<i, g[i - 1]>>]
      BY <1>3, <3>1
    <3> QED
      BY <2>2, <3>1, <3>2
  <2> QED
    BY <2>1, <2>2
<1>5. kept = [i \in 0 .. n |-> Entry(kept, i)]
  BY <1>4
<1>6. Without(q, w) = kept[n]
  BY DEF Without
<1> HIDE DEF kept
<1>7. kept[0] = <<>>
  BY <1>1, <1>5
<1>8. ASSUME NEW i \in 1 .. n, kept[i - 1] \in Seq(S) PROVE kept[i] \in Seq(S)
  <2>1. i \in 0 .. n /\ i # 0
    BY <1>1
  <2>2. kept[i] = Entry(kept, i)
    BY <1>5, <2>1
  <2> QED
    BY <1>1, <1>8, <2>1, <2>2
<1>9. kept[n] \in Seq(S)
  <2>1. kept[0] \in Seq(S)
    BY <1>7
  <2> HIDE DEF n
  <2> QED
    BY <2>1, <1>1, <1>8, RecursionType
<1> QED
  BY <1>6, <1>9

-----------------------------------------------------------------------------
(* Every function returns a state, and sets of them contain states only. *)

LEMMA EventTypesOk ==
    /\ \A type \in EventTypes, w \in Windows : Event(type, w) \in Events
    /\ RootFocusIn \in Events
BY DEF Event, Events, RootFocusIn, EventTypes

LEMMA MoveFocusTyped ==
    ASSUME NEW s, Typed(s), NEW to \in Windows \union {NullFocus, PointerRoot}
    PROVE  Typed(MoveFocus(s, to))
<1>1. MoveEvents(s, to) \in Seq(Events)
  <2> DEFINE out == IF s.focus \in s.managed THEN <<Event("FocusOut", s.focus)>> ELSE <<>>
             in  == IF to \in s.managed THEN <<Event("FocusIn", to)>>
                    ELSE IF to = PointerRoot THEN <<RootFocusIn>> ELSE <<>>
  <2>1. s.managed \subseteq Windows
    BY DEF Typed, State
  <2>2. out \in Seq(Events)
    BY <2>1, EventTypesOk DEF EventTypes
  <2>3. in \in Seq(Events)
    BY <2>1, EventTypesOk DEF EventTypes
  <2>4. MoveEvents(s, to) = out \o in
    BY DEF MoveEvents
  <2> HIDE DEF out, in
  <2> QED
    BY <2>2, <2>3, <2>4
<1>2. s.events \o MoveEvents(s, to) \in Seq(Events)
  BY <1>1 DEF Typed, State
<1> QED
  BY <1>2 DEF MoveFocus, Typed, State

LEMMA SetInputFocusTyped ==
    ASSUME NEW s, Typed(s), NEW to \in Windows \union {NullFocus, PointerRoot}
    PROVE  Typed(SetInputFocus(s, to))
<1>1. Typed(MoveFocus(s, to))
  BY MoveFocusTyped
<1>2. s.asked \subseteq Windows /\ MoveFocus(s, to).asked = s.asked
  BY DEF MoveFocus, Typed, State
<1> HIDE DEF MoveFocus
<1> QED
  BY <1>1, <1>2 DEF SetInputFocus, Typed, State

LEMMA FocusToNullTyped ==
    ASSUME NEW s, Typed(s)
    PROVE  \A r \in FocusToNull(s) : Typed(r)
<1> DEFINE t == [s EXCEPT !.requested = <<>>]
           done == [MoveFocus(t, NullFocus) EXCEPT !.overtaken = s.asked]
<1>1. Typed(t) /\ t.asked = s.asked
  <2>1. <<>> \in Seq(Windows)
    OBVIOUS
  <2> QED
    BY <2>1 DEF Typed, State
<1>2. Typed(MoveFocus(t, NullFocus)) /\ MoveFocus(t, NullFocus).asked = s.asked
  <2> HIDE DEF t
  <2>1. MoveFocus(t, NullFocus).asked = t.asked
    BY <1>1 DEF MoveFocus, Typed, State
  <2> QED
    BY <1>1, <2>1, MoveFocusTyped
<1>3. s.asked \subseteq Windows
  BY DEF Typed, State
<1>4. Typed(done)
  BY <1>2, <1>3 DEF Typed, State
<1>5. FocusToNull(s) \subseteq {t, done}
  BY DEF FocusToNull
<1> QED
  BY <1>1, <1>4, <1>5

LEMMA RequestFocusTyped ==
    ASSUME NEW s, Typed(s), NEW w \in Windows
    PROVE  Typed(RequestFocus(s, w))
<1> DEFINE set == IF w \in Accepts THEN SetInputFocus(s, w) ELSE s
           told == IF w \notin Asks THEN set
                   ELSE [set EXCEPT !.behind = FALSE, !.asked = @ \union {w}, !.overtaken = @ \ {w}]
<1>1. Typed(set)
  BY SetInputFocusTyped
<1>2. Typed(told)
  <2> HIDE DEF set
  <2> QED
    BY <1>1 DEF Typed, State
<1>3. Typed([told EXCEPT !.requested = Append(@, w)])
  <2> HIDE DEF told
  <2>1. Append(told.requested, w) \in Seq(Windows)
    BY <1>2 DEF Typed, State
  <2> QED
    BY <1>2, <2>1 DEF Typed, State
<1>4. Typed([s EXCEPT !.failed = TRUE])
  BY DEF Typed, State
<1> QED
  BY <1>3, <1>4 DEF RequestFocus

LEMMA SetActiveTyped ==
    ASSUME NEW s, Typed(s), NEW w \in Windows
    PROVE  Typed(SetActive(s, w)) /\ Typed(SetInactive(s, w))
BY DEF SetActive, SetInactive, Typed, State

LEMMA ActivateNextWindowTyped ==
    ASSUME NEW s, Typed(s), NEW w \in Windows \union {None}
    PROVE  \A r \in ActivateNextWindow(s, w) : Typed(r)
<1> DEFINE t == IF w = None THEN s
                ELSE [SetInactive(s, w) EXCEPT !.requested = Without(@, w)]
           candidates == UsableCandidates(s, w)
<1>1. Typed(t)
  <2>1. CASE w = None
    BY <2>1
  <2>2. CASE w # None
    <3>1. Typed(SetInactive(s, w))
      BY <2>2, SetActiveTyped
    <3> DEFINE u == SetInactive(s, w)
    <3> HIDE DEF u
    <3>2. Without(u.requested, w) \in Seq(Windows)
      BY <3>1, WithoutType DEF u, Typed, State
    <3> QED
      BY <2>2, <3>1, <3>2 DEF u, Typed, State
  <2> QED
    BY <2>1, <2>2
<1>2. candidates \subseteq Windows
  BY DEF UsableCandidates, Typed, State
<1> HIDE DEF t, candidates
<1>3. \A r \in RequestOneOf(t, candidates) : Typed(r)
  BY <1>1, <1>2, FocusToNullTyped, RequestFocusTyped DEF RequestOneOf
<1>4. ActivateNextWindow(s, w) = RequestOneOf(t, candidates) \/ ActivateNextWindow(s, w) = {s}
  BY DEF ActivateNextWindow, t, candidates
<1> QED
  BY <1>3, <1>4

LEMMA RemoveWindowTyped ==
    ASSUME NEW s, Typed(s), NEW w \in Windows
    PROVE  Typed(RemoveWindow(s, w))
<1>1. Without(s.requested, w) \in Seq(Windows)
  BY WithoutType DEF Typed, State
<1> QED
  BY <1>1 DEF RemoveWindow, Typed, State

LEMMA GotFocusInType ==
    ASSUME NEW q \in Seq(Windows), NEW w
    PROVE  GotFocusIn(q, w) \in Seq(Windows)
<1>1. CASE ~Contains(q, w)
  BY <1>1 DEF GotFocusIn
<1>2. CASE Contains(q, w)
  <2> DEFINE R == OpToRel(<, Nat)
             here == {i \in DOMAIN q : q[i] = w}
             First(i) == i \in DOMAIN q /\ q[i] = w /\ \A j \in 1 .. i - 1 : q[j] # w
             first == CHOOSE i \in DOMAIN q : q[i] = w /\ \A j \in 1 .. i - 1 : q[j] # w
  <2>1. here \subseteq Nat /\ here # {}
    BY <1>2 DEF Contains
  <2>2. IsWellFoundedOn(R, Nat)
    BY NatLessThanWellFounded
  <2>3. \A i, j \in Nat : j < i => <<j, i>> \in R
    BY DEF OpToRel
  <2>4. PICK i \in here : \A j \in here : <<j, i>> \notin R
    <3> HIDE DEF R, here
    <3> QED
      BY <2>1, <2>2, WFMin
  <2>5. \A j \in 1 .. i - 1 : q[j] # w
    <3> SUFFICES ASSUME NEW j \in 1 .. i - 1, q[j] = w PROVE FALSE
      OBVIOUS
    <3>1. i \in Nat /\ j \in Nat /\ j < i /\ j \in here
      BY <2>1
    <3> HIDE DEF R, here
    <3> QED
      BY <2>3, <2>4, <3>1
  <2>6. first \in DOMAIN q
    BY <2>4, <2>5
  <2>7. GotFocusIn(q, w) = SubSeq(q, first + 1, Len(q))
    BY <1>2 DEF GotFocusIn
  <2> HIDE DEF first
  <2>8. first \in Nat /\ first + 1 \in 1 .. Len(q) + 1
    BY <2>6
  <2> QED
    BY <2>7, <2>8, SubSeqProperties
<1> QED
  BY <1>1, <1>2

LEMMA HideWindowsTyped ==
    ASSUME NEW s, Typed(s), NEW W, NEW keep
    PROVE  \A r \in HideWindows(s, W, keep) : Typed(r)
<1> DEFINE t == [s EXCEPT !.viewable = @ \ W]
<1>1. Typed(t)
  BY DEF Typed, State
<1>2. Typed(MoveFocus(t, PointerRoot))
  BY <1>1, MoveFocusTyped
<1> HIDE DEF t
<1>3. \A r \in HideWindows(s, W, keep) : r \in FocusToNull(s) \union {s, t, MoveFocus(t, PointerRoot)}
  BY DEF HideWindows, t
<1> QED
  BY <1>1, <1>2, <1>3, FocusToNullTyped

LEMMA ShowWindowsTyped ==
    ASSUME NEW s, Typed(s), NEW W \in SUBSET Windows
    PROVE  Typed(ShowWindows(s, W))
<1> DEFINE shown == s.viewable \union {w \in W : ~Closing(s, w)}
<1>1. shown \in SUBSET Windows
  BY DEF Typed, State
<1> HIDE DEF shown
<1>2. Typed([s EXCEPT !.viewable = shown])
  BY <1>1 DEF Typed, State
<1> QED
  BY <1>2 DEF ShowWindows, shown

\* The outcomes of a change of desktop, before a window is activated ...
Switched(s, d) ==
    LET up == {w \in s.managed : IsShown(s, w)}
        t == [s EXCEPT !.current = d]
    IN  {ShowWindows(u, {w \in up : IsOnDesktop(u, w)}) :
            u \in HideWindows(t, {w \in up : ~IsOnDesktop(t, w)}, previews # "Never")}

\* ... and after that.
Candidates(s, u) ==
    LET up == {w \in s.managed : IsShown(s, w)}
    IN  {c \in up : IsOnDesktop(u, c)}

Chosen(u, c, blocked) ==
    IF c = u.active THEN RequestFocus(u, c)
    ELSE IF blocked THEN [u EXCEPT !.active = None]
    ELSE RequestFocus([u EXCEPT !.active = None], c)

LEMMA SwitchDesktopIs ==
    ASSUME NEW s, NEW d, NEW blocked, NEW r \in SwitchDesktop(s, d, blocked)
    PROVE  \E u \in Switched(s, d) :
               \/ Candidates(s, u) = {} /\ r \in FocusToNull([u EXCEPT !.active = None])
               \/ \E c \in Candidates(s, u) : r = Chosen(u, c, blocked)
<1> DEFINE Activate(u) == IF Candidates(s, u) = {} THEN FocusToNull([u EXCEPT !.active = None])
                          ELSE {Chosen(u, c, blocked) : c \in Candidates(s, u)}
<1>1. SwitchDesktop(s, d, blocked) = UNION {Activate(u) : u \in Switched(s, d)}
  BY Zenon DEF SwitchDesktop, Switched, Candidates, Chosen
<1> QED
  BY <1>1

LEMMA SwitchDesktopTyped ==
    ASSUME NEW s, Typed(s), NEW d \in Desktops, NEW blocked \in BOOLEAN
    PROVE  \A r \in SwitchDesktop(s, d, blocked) : Typed(r)
<1> DEFINE t == [s EXCEPT !.current = d]
           up == {w \in s.managed : IsShown(s, w)}
<1>1. Typed(t) /\ up \subseteq Windows
  BY DEF Typed, State
<1>2. \A u \in Switched(s, d) : Typed(u)
  <2> HIDE DEF t
  <2>1. \A u : {w \in up : IsOnDesktop(u, w)} \in SUBSET Windows
    BY <1>1
  <2> HIDE DEF up
  <2> QED
    BY <1>1, <2>1, HideWindowsTyped, ShowWindowsTyped DEF Switched, up, t
<1>3. \A u \in Switched(s, d) : Typed([u EXCEPT !.active = None])
  BY <1>2 DEF Typed, State
<1>4. \A u \in Switched(s, d) : Candidates(s, u) \subseteq Windows
  BY DEF Candidates, Typed, State
<1> SUFFICES ASSUME NEW r \in SwitchDesktop(s, d, blocked) PROVE Typed(r)
  OBVIOUS
<1>5. PICK u \in Switched(s, d) :
          \/ Candidates(s, u) = {} /\ r \in FocusToNull([u EXCEPT !.active = None])
          \/ \E c \in Candidates(s, u) : r = Chosen(u, c, blocked)
  BY SwitchDesktopIs
<1> QED
  BY <1>2, <1>3, <1>4, <1>5, FocusToNullTyped, RequestFocusTyped DEF Chosen

LEMMA RestoreTyped ==
    ASSUME NEW s, Typed(s), NEW w \in Windows
    PROVE  Typed(Restore(s, w))
<1>1. Typed([s EXCEPT !.minimized = @ \ {w}])
  BY DEF Typed, State
<1> QED
  BY <1>1, ShowWindowsTyped DEF Restore

LEMMA NowTyped == TypeOK <=> Typed(Now) /\ previews \in HiddenPreviews /\ steps \in 0 .. MaxSteps
BY DEF TypeOK, Typed, State, Now

LEMMA BecomeTyped ==
    ASSUME TypeOK, NEW states, Become(states), \A r \in states : Typed(r), steps' \in 0 .. MaxSteps
    PROVE  TypeOK'
<1>1. PICK s \in states :
        /\ focus' = s.focus /\ viewable' = s.viewable /\ events' = s.events
        /\ asked' = s.asked /\ overtaken' = s.overtaken /\ behind' = s.behind
        /\ managed' = s.managed /\ minimized' = s.minimized /\ current' = s.current
        /\ active' = s.active /\ last' = s.last /\ requested' = s.requested
        /\ timers' = s.timers /\ failed' = s.failed /\ UNCHANGED previews
  BY DEF Become
<1>2. Typed(s)
  OBVIOUS
<1> QED
  BY <1>1, <1>2 DEF TypeOK, Typed, State

LEMMA RestTyped ==
    ASSUME TypeOK, events # <<>>
    PROVE  Typed(Rest) /\ Head(events) \in Events
<1>1. Tail(events) \in Seq(Events) /\ Head(events) \in Events
  BY DEF TypeOK
<1> QED
  BY <1>1, NowTyped DEF Rest, Typed, State, Now

LEMMA LastType ==
    ASSUME NEW S, NEW q \in Seq(S), q # <<>>
    PROVE  Last(q) \in S
BY DEF Last

LEMMA RecentTyped ==
    ASSUME NEW s, Typed(s)
    PROVE  MostRecentlyActivated(s) \in Windows \union {None}
BY LastType DEF MostRecentlyActivated, Typed, State

LEMMA PlaceType == \A s, w : w \in Windows /\ ~IsOnDesktop(s, w) => Place[w] \in Desktops
BY WindowsAssumption DEF IsOnDesktop

LEMMA ManageTyped ==
    ASSUME TypeOK, events # <<>>, NEW w \in Windows
    PROVE  \A r \in Manage(w) : Typed(r)
<1> DEFINE t == [Rest EXCEPT !.behind = FALSE]
           Added(s) == LET u == [s EXCEPT !.managed = @ \union {w}]
                       IN  IF IsOnDesktop(s, w) \/ previews # "Never" THEN ShowWindows(u, {w}) ELSE u
           there == IF IsOnDesktop(t, w) THEN {t} ELSE SwitchDesktop(t, Place[w], FALSE)
<1>1. Typed(t)
  BY RestTyped DEF Typed, State
<1>2. \A s : Typed(s) => Typed(Added(s))
  <2> SUFFICES ASSUME NEW s, Typed(s) PROVE Typed(Added(s))
    OBVIOUS
  <2> DEFINE u == [s EXCEPT !.managed = @ \union {w}]
  <2>1. Typed(u)
    BY DEF Typed, State
  <2> HIDE DEF u
  <2>2. Typed(ShowWindows(u, {w}))
    BY <2>1, ShowWindowsTyped
  <2> QED
    BY <2>1, <2>2 DEF u
<1>3. \A r \in there : Typed(r)
  <2> HIDE DEF t
  <2> QED
    BY <1>1, PlaceType, SwitchDesktopTyped
<1>4. Manage(w) = {RequestFocus(Added(s), w) : s \in there} \union {Added(t)}
  BY Zenon DEF Manage
<1> HIDE DEF t, Added, there
<1> QED
  BY <1>1, <1>2, <1>3, <1>4, RequestFocusTyped

LEMMA ActivateOrRestoreTyped ==
    ASSUME NEW s, Typed(s), NEW w \in Windows
    PROVE  \A r \in ActivateOrRestore(s, w) : Typed(r)
<1> DEFINE got == [s EXCEPT !.requested = GotFocusIn(@, w)]
           restored == RestoreFocus(got)
           refused == IF restored.ok THEN restored.state ELSE SetActive(restored.state, w)
<1>1. Typed(got)
  <2>1. GotFocusIn(s.requested, w) \in Seq(Windows)
    BY GotFocusInType DEF Typed, State
  <2> QED
    BY <2>1 DEF Typed, State
<1> HIDE DEF got
<1>2. Typed(restored.state)
  <2> DEFINE t == [got EXCEPT !.behind = FALSE]
             v == IF got.requested # <<>> THEN Last(got.requested) ELSE got.last
  <2>1. Typed(t) /\ v \in Windows \union {None}
    BY <1>1, LastType DEF Typed, State
  <2>2. restored.state = IF v = None THEN t ELSE RequestFocus(t, v)
    BY DEF RestoreFocus
  <2> HIDE DEF t, v
  <2> QED
    BY <2>1, <2>2, RequestFocusTyped
<1> HIDE DEF restored
<1>3. \A r \in ActivateOrRestore(s, w) : r \in {SetActive(got, w), refused}
  BY DEF ActivateOrRestore, got, restored
<1> QED
  BY <1>1, <1>2, <1>3, SetActiveTyped

LEMMA HandleTyped ==
    ASSUME TypeOK, events # <<>>
    PROVE  \A r \in Handle(Head(events)) : Typed(r)
<1> DEFINE e == Head(events)
<1>1. Typed(Rest) /\ e \in Events
  BY RestTyped
<1>2. CASE e.type = "RootFocusIn"
  <2> DEFINE s == [Rest EXCEPT !.behind = FALSE]
             w == MostRecentlyActivated(s)
  <2>1. Typed(s)
    BY <1>1 DEF Typed, State
  <2>2. RootFocusInEvent = IF focus # PointerRoot THEN {s}
                           ELSE IF w # None THEN {RequestFocus(s, w)} ELSE ActivateNextWindow(s, None)
    BY DEF RootFocusInEvent
  <2> HIDE DEF s
  <2>3. w \in Windows \union {None}
    BY <2>1, RecentTyped
  <2> HIDE DEF w
  <2>4. \A r \in RootFocusInEvent : Typed(r)
    BY <2>1, <2>2, <2>3, RequestFocusTyped, ActivateNextWindowTyped
  <2> QED
    BY <1>2, <2>4 DEF Handle
<1>3. CASE e.type # "RootFocusIn"
  <2>1. e.window \in Windows /\ e.type \in {"FocusIn", "FocusOut", "Destroyed", "MapRequest"}
    BY <1>1, <1>3 DEF Events, EventTypes
  <2>2. \A r \in Manage(e.window) : Typed(r)
    BY <2>1, ManageTyped
  <2>3. \A r \in FocusInEvent(e.window) : Typed(r)
    <3> DEFINE s == [Rest EXCEPT !.timers = {}]
    <3>1. Typed(s)
      BY <1>1 DEF Typed, State
    <3>2. FocusInEvent(e.window) = IF IsShown(Now, e.window) /\ IsOnDesktop(Now, e.window)
                                     THEN ActivateOrRestore(s, e.window) ELSE {Rest}
      BY DEF FocusInEvent
    <3> HIDE DEF s
    <3> QED
      BY <1>1, <2>1, <3>1, <3>2, ActivateOrRestoreTyped
  <2>4. \A r \in FocusOutEvent(e.window) : Typed(r)
    BY <1>1, <2>1 DEF FocusOutEvent, Typed, State
  <2>5. \A r \in DestroyWindow(e.window) : Typed(r)
    BY <1>1, <2>1, ActivateNextWindowTyped, RemoveWindowTyped DEF DestroyWindow
  <2>6. Handle(e) \in {Manage(e.window), {Rest}, FocusInEvent(e.window), FocusOutEvent(e.window),
                       DestroyWindow(e.window)}
    BY <1>3, <2>1 DEF Handle
  <2> HIDE DEF e
  <2> QED
    BY <1>1, <2>2, <2>3, <2>4, <2>5, <2>6 DEF e
<1> QED
  BY <1>2, <1>3

LEMMA StepTyped == TypeOK /\ Step => steps' \in 0 .. MaxSteps
BY WindowsAssumption DEF TypeOK, Step

LEMMA TimedTyped == TypeOK => \A s \in Timed : Typed(s) /\ s.managed = managed
<1> SUFFICES ASSUME TypeOK PROVE \A s \in Timed : Typed(s) /\ s.managed = managed
  OBVIOUS
<1> DEFINE n == Now
<1>1. Typed(n) /\ behind \in BOOLEAN /\ n.managed = managed
  BY NowTyped DEF TypeOK, Now
<1>2. Timed = {[n EXCEPT !.behind = b] : b \in {FALSE, behind}}
  BY DEF Timed
<1> HIDE DEF n
<1>3. \A b \in BOOLEAN : Typed([n EXCEPT !.behind = b]) /\ [n EXCEPT !.behind = b].managed = managed
  BY <1>1 DEF Typed, State
<1> QED
  BY <1>1, <1>2, <1>3

LEMMA InitTyped == Init => TypeOK
<1> SUFFICES ASSUME Init PROVE TypeOK
  OBVIOUS
<1>1. managed \subseteq Windows /\ current \in Desktops /\ previews \in HiddenPreviews
  BY DEF Init
<1>2. /\ focus \in Windows \union {NullFocus} /\ viewable \subseteq Windows
      /\ events \in Seq(Events) /\ asked \subseteq Windows /\ requested \in Seq(Windows)
      /\ behind \in BOOLEAN
  <2> DEFINE here == {w \in managed : Place[w] \in {All, current}}
  <2>1. here \subseteq Windows
    BY <1>1
  <2>2. viewable \subseteq Windows
    BY <1>1, <2>1 DEF Init
  <2>3. \/ focus = NullFocus /\ events = <<>> /\ asked = {} /\ requested = <<>> /\ behind = FALSE
        \/ \E w \in here :
              /\ focus = IF w \in Accepts THEN w ELSE NullFocus
              /\ events = IF w \in Accepts THEN <<Event("FocusIn", w)>> ELSE <<>>
              /\ asked = {w} \cap Asks /\ requested = <<w>>
              /\ behind = (w \notin Asks)
    BY DEF Init
  <2>4. <<>> \in Seq(Events) /\ <<>> \in Seq(Windows)
    OBVIOUS
  <2>5. \A w \in here : <<Event("FocusIn", w)>> \in Seq(Events) /\ <<w>> \in Seq(Windows)
    BY <2>1, EventTypesOk DEF EventTypes
  <2> HIDE DEF here
  <2> QED
    BY <2>1, <2>2, <2>3, <2>4, <2>5
<1>3. /\ minimized = {} /\ overtaken = {} /\ active = None /\ last = None /\ timers = {}
      /\ failed = FALSE /\ steps = 0
  BY DEF Init
<1>4. {behind, failed} \subseteq BOOLEAN
  BY <1>2, <1>3
<1>5. steps \in 0 .. MaxSteps
  BY <1>3, WindowsAssumption
<1>6. {active, last} \subseteq Windows \union {None}
  BY <1>3
<1>7. overtaken \subseteq asked /\ minimized \subseteq managed /\ timers \subseteq Windows
  BY <1>3
<1> QED
  BY <1>1, <1>2, <1>4, <1>5, <1>6, <1>7 DEF TypeOK

LEMMA NextTyped == TypeOK /\ [Next]_vars => TypeOK'
<1> SUFFICES ASSUME TypeOK, [Next]_vars PROVE TypeOK'
  OBVIOUS
<1> USE NowTyped
<1>1. CASE UNCHANGED vars
  BY <1>1 DEF TypeOK, vars, serverVars, wmVars, focusVars
<1>2. ASSUME NEW w \in Windows, ActivateWindow(w) PROVE TypeOK'
  <2> DEFINE There(s) == IF IsOnDesktop(s, w) THEN {s} ELSE SwitchDesktop(s, Place[w], TRUE)
             states == UNION {{RequestFocus(Restore(t, w), w) : t \in There(s)} : s \in Timed}
  <2>1. \A s \in Timed : \A t \in There(s) : Typed(t)
    BY TimedTyped, PlaceType, SwitchDesktopTyped
  <2>2. Become(states) /\ steps' \in 0 .. MaxSteps
    BY <1>2, StepTyped DEF ActivateWindow
  <2> HIDE DEF There
  <2>3. \A r \in states : Typed(r)
    BY <2>1, RestoreTyped, RequestFocusTyped
  <2> HIDE DEF states
  <2> QED
    BY <2>2, <2>3, BecomeTyped
<1>3. ASSUME NEW w \in Windows, Minimize(w) PROVE TypeOK'
  <2> DEFINE Hidden(s) == [s EXCEPT !.minimized = @ \union {w}]
             next == UNION {ActivateNextWindow(Hidden(s), w) : s \in Timed}
             states == UNION {HideWindows(s, {w}, previews = "Always") : s \in next}
  <2>1. w \in managed /\ Become(states) /\ steps' \in 0 .. MaxSteps
    BY <1>3, StepTyped DEF Minimize
  <2>2. ASSUME NEW s \in Timed PROVE Typed(Hidden(s))
    <3>1. s \in State /\ s.minimized \subseteq s.managed /\ s.overtaken \subseteq s.asked /\ w \in s.managed
      BY <2>1, TimedTyped DEF Typed
    <3>2. s.minimized \union {w} \in SUBSET Windows /\ s.minimized \union {w} \subseteq s.managed
      BY <3>1 DEF State
    <3> HIDE DEF Hidden
    <3>3. Hidden(s) \in State
      <4> DEFINE m == s.minimized \union {w}
      <4>1. m \in SUBSET Windows /\ Hidden(s) = [s EXCEPT !.minimized = m]
        BY <3>2 DEF Hidden
      <4> HIDE DEF m
      <4> QED
        BY <3>1, <4>1 DEF State
    <3>4. /\ Hidden(s).minimized = s.minimized \union {w} /\ Hidden(s).managed = s.managed
          /\ Hidden(s).overtaken = s.overtaken /\ Hidden(s).asked = s.asked
      BY <3>1 DEF Hidden, State
    <3> QED
      BY <3>1, <3>2, <3>3, <3>4 DEF Typed
  <2> HIDE DEF Hidden
  <2>3. \A s \in next : Typed(s)
    BY <2>2, ActivateNextWindowTyped
  <2> HIDE DEF next
  <2>4. \A r \in states : Typed(r)
    BY <2>3, HideWindowsTyped
  <2> HIDE DEF states
  <2> QED
    BY <2>1, <2>4, BecomeTyped
<1>4. ASSUME NEW d \in Desktops, SetCurrentDesktop(d) PROVE TypeOK'
  <2> DEFINE states == UNION {SwitchDesktop(s, d, FALSE) : s \in Timed}
  <2>1. Become(states) /\ steps' \in 0 .. MaxSteps
    BY <1>4, StepTyped DEF SetCurrentDesktop
  <2>2. \A r \in states : Typed(r)
    BY TimedTyped, SwitchDesktopTyped
  <2> HIDE DEF states
  <2> QED
    BY <2>1, <2>2, BecomeTyped
<1>5. ASSUME NEW w \in Windows, ClientMaps(w) PROVE TypeOK'
  <2>1. Append(events, Event("MapRequest", w)) \in Seq(Events)
    BY EventTypesOk DEF EventTypes, TypeOK
  <2> QED
    BY <1>5, <2>1, StepTyped DEF ClientMaps, wmVars, focusVars, TypeOK
<1>6. ASSUME NEW w \in Windows, ClientDestroys(w) PROVE TypeOK'
  <2> DEFINE s == [Now EXCEPT !.events = Append(@, Event("Destroyed", w)), !.viewable = @ \ {w},
                              !.asked = @ \ {w}, !.overtaken = @ \ {w}]
             states == {IF focus = w THEN MoveFocus(s, PointerRoot) ELSE s}
  <2>1. Append(events, Event("Destroyed", w)) \in Seq(Events)
    BY EventTypesOk DEF EventTypes, TypeOK
  <2>2. Typed(s)
    <3> DEFINE n == Now
    <3>1. Typed(n) /\ n.events = events
      BY DEF Now
    <3> HIDE DEF n
    <3>2. Typed([n EXCEPT !.events = Append(@, Event("Destroyed", w)), !.viewable = @ \ {w},
                          !.asked = @ \ {w}, !.overtaken = @ \ {w}])
      BY <2>1, <3>1 DEF Typed, State
    <3> QED
      BY <3>2 DEF n
  <2>3. Become(states) /\ steps' \in 0 .. MaxSteps
    BY <1>6, StepTyped DEF ClientDestroys
  <2> HIDE DEF s
  <2>4. \A r \in states : Typed(r)
    BY <2>2, MoveFocusTyped
  <2> HIDE DEF states
  <2> QED
    BY <2>3, <2>4, BecomeTyped
<1>7. ASSUME NEW to \in Windows \union {PointerRoot}, ClientSetsFocus(to) PROVE TypeOK'
  <2>1. Become({SetInputFocus(Now, to)}) /\ steps' \in 0 .. MaxSteps
    BY <1>7, StepTyped DEF ClientSetsFocus
  <2>2. \A r \in {SetInputFocus(Now, to)} : Typed(r)
    BY SetInputFocusTyped
  <2> QED
    BY <2>1, <2>2, BecomeTyped
<1>8. ASSUME NEW w \in Windows, ClientTakesFocus(w) PROVE TypeOK'
  <2> DEFINE t == [Now EXCEPT !.asked = @ \ {w}, !.overtaken = @ \ {w}]
             done == [MoveFocus(t, w) EXCEPT !.overtaken = t.asked]
             states == IF w \notin viewable THEN {t} ELSE IF w \in overtaken THEN {t, done} ELSE {done}
  <2>1. Typed(t)
    BY DEF Now, Typed, State
  <2>2. Become(states) /\ steps' \in 0 .. MaxSteps
    BY <1>8 DEF ClientTakesFocus, TypeOK
  <2> HIDE DEF t
  <2>3. Typed(done)
    <3>1. Typed(MoveFocus(t, w)) /\ MoveFocus(t, w).asked = t.asked /\ t.asked \subseteq Windows
      BY <2>1, MoveFocusTyped DEF MoveFocus, Typed, State
    <3> HIDE DEF MoveFocus
    <3> QED
      BY <3>1 DEF Typed, State
  <2>4. \A r \in states : Typed(r)
    BY <2>1, <2>3
  <2> HIDE DEF states
  <2> QED
    BY <2>2, <2>4, BecomeTyped
<1>9. CASE HandleEvent
  <2>1. events # <<>> /\ Become(Handle(Head(events))) /\ steps' \in 0 .. MaxSteps
    BY <1>9 DEF HandleEvent, TypeOK
  <2> QED
    BY <2>1, HandleTyped, BecomeTyped
<1>10. ASSUME NEW w \in Windows, FocusOutTimeout(w) PROVE TypeOK'
  <2>1. Become({[SetInactive(Now, w) EXCEPT !.timers = @ \ {w}]}) /\ steps' \in 0 .. MaxSteps
    BY <1>10 DEF FocusOutTimeout, TypeOK
  <2>2. Typed([SetInactive(Now, w) EXCEPT !.timers = @ \ {w}])
    BY SetActiveTyped DEF Typed, State
  <2> QED
    BY <2>1, <2>2, BecomeTyped
<1> QED
  BY <1>1, <1>2, <1>3, <1>4, <1>5, <1>6, <1>7, <1>8, <1>9, <1>10 DEF Next

\* The server's, the clients' and Workspace's state keep their types.
THEOREM TypeCorrect == Spec => []TypeOK
BY InitTyped, NextTyped, PTL DEF Spec

-----------------------------------------------------------------------------
(* The queue of events.  Of each move of the focus that Workspace has not    *)
(* heard of yet, the events are there, the last one at the end.              *)

FocusIn(w)  == Event("FocusIn", w)
FocusOut(w) == Event("FocusOut", w)
Gone(w)     == Event("Destroyed", w)
Mapped(w)   == Event("MapRequest", w)

Later(q, i, e) == \E j \in i + 1 .. Len(q) : q[j] = e

OutFollows(q, f) ==
    \A i \in 1 .. Len(q), u \in Windows : q[i] = FocusIn(u) /\ u # f => Later(q, i, FocusOut(u))
InIsLast(q, f) ==
    f \in Windows =>
        \A i \in 1 .. Len(q) :
            q[i] = FocusOut(f) \/ (\E u \in Windows \ {f} : q[i] = FocusIn(u)) => Later(q, i, FocusIn(f))
MappedOnce(q) ==
    \A i \in 1 .. Len(q), w \in Windows : q[i] = Mapped(w) => ~Later(q, i, Mapped(w))

Order(q, f) == OutFollows(q, f) /\ InIsLast(q, f) /\ MappedOnce(q)

LEMMA EventsDiffer ==
    /\ \A v, w : /\ FocusIn(v) # FocusOut(w) /\ FocusIn(v) # Gone(w) /\ FocusIn(v) # Mapped(w)
                 /\ FocusOut(v) # Gone(w) /\ FocusOut(v) # Mapped(w) /\ Gone(v) # Mapped(w)
                 /\ (FocusIn(v) = FocusIn(w) \/ FocusOut(v) = FocusOut(w) => v = w)
                 /\ (Gone(v) = Gone(w) \/ Mapped(v) = Mapped(w) => v = w)
    /\ \A w : RootFocusIn \notin {FocusIn(w), FocusOut(w), Gone(w), Mapped(w)}
    /\ \A w \in Windows : {FocusIn(w), FocusOut(w), Gone(w), Mapped(w)} \subseteq Events
    /\ RootFocusIn \in Events
<1>1. \A type, w : Event(type, w).type = type /\ Event(type, w).window = w /\ RootFocusIn.type = "RootFocusIn"
  BY DEF Event, RootFocusIn
<1>2. /\ RootFocusIn \in Events
      /\ \A w \in Windows : {FocusIn(w), FocusOut(w), Gone(w), Mapped(w)} \subseteq Events
  BY EventTypesOk DEF EventTypes, FocusIn, FocusOut, Gone, Mapped
<1> HIDE DEF Event
<1> QED
  BY <1>1, <1>2 DEF FocusIn, FocusOut, Gone, Mapped

LEMMA Appended ==
    ASSUME NEW q \in Seq(Events), NEW e \in Events
    PROVE  /\ Len(Append(q, e)) = Len(q) + 1 /\ Append(q, e)[Len(q) + 1] = e
           /\ \A i \in 1 .. Len(q) : Append(q, e)[i] = q[i]
           /\ \A i \in 1 .. Len(q) : \A x : Later(Append(q, e), i, x) <=> Later(q, i, x) \/ x = e
           /\ \A x : ~Later(Append(q, e), Len(q) + 1, x)
           /\ \A x : Contains(Append(q, e), x) <=> Contains(q, x) \/ x = e
<1> DEFINE r == Append(q, e)
<1>1. Len(q) \in Nat /\ Len(r) = Len(q) + 1 /\ r[Len(q) + 1] = e /\ \A i \in 1 .. Len(q) : r[i] = q[i]
  OBVIOUS
<1> HIDE DEF r
<1>2. ASSUME NEW i \in 1 .. Len(q), NEW x PROVE Later(r, i, x) <=> Later(q, i, x) \/ x = e
  <2>1. i + 1 .. Len(r) = (i + 1 .. Len(q)) \union {Len(q) + 1} /\ i + 1 .. Len(q) \subseteq 1 .. Len(q)
    BY <1>1
  <2> QED
    BY <1>1, <2>1 DEF Later
<1>3. ASSUME NEW x PROVE ~Later(r, Len(q) + 1, x)
  BY <1>1 DEF Later
<1>4. ASSUME NEW x PROVE Contains(r, x) <=> Contains(q, x) \/ x = e
  <2>1. 1 .. Len(r) = (1 .. Len(q)) \union {Len(q) + 1}
    BY <1>1
  <2> QED
    BY <1>1, <2>1 DEF Contains
<1> QED
  BY <1>1, <1>2, <1>3, <1>4 DEF r

LEMMA Tailed ==
    ASSUME NEW q \in Seq(Events), q # <<>>
    PROVE  /\ Len(Tail(q)) + 1 = Len(q) /\ Tail(q) \in Seq(Events)
           /\ \A i \in 1 .. Len(Tail(q)) : i + 1 \in 1 .. Len(q) /\ Tail(q)[i] = q[i + 1]
           /\ \A i \in 1 .. Len(Tail(q)) : \A x : Later(Tail(q), i, x) <=> Later(q, i + 1, x)
           /\ \A x : Later(q, 1, x) <=> Contains(Tail(q), x)
           /\ \A x : Contains(q, x) <=> Contains(Tail(q), x) \/ x = Head(q)
           /\ 1 \in 1 .. Len(q) /\ q[1] = Head(q)
<1> DEFINE r == Tail(q)
<1>1. /\ Len(r) \in Nat /\ Len(q) = Len(r) + 1 /\ r \in Seq(Events) /\ q[1] = Head(q)
      /\ \A i \in 1 .. Len(r) : r[i] = q[i + 1]
  OBVIOUS
<1> HIDE DEF r
<1>2. ASSUME NEW i \in 1 .. Len(r), NEW x PROVE Later(r, i, x) <=> Later(q, i + 1, x)
  <2>1. ASSUME Later(r, i, x) PROVE Later(q, i + 1, x)
    <3>1. PICK j \in i + 1 .. Len(r) : r[j] = x
      BY <2>1 DEF Later
    <3>2. j + 1 \in i + 1 + 1 .. Len(q) /\ q[j + 1] = x
      BY <1>1, <3>1
    <3> QED
      BY <3>2 DEF Later
  <2>2. ASSUME Later(q, i + 1, x) PROVE Later(r, i, x)
    <3>1. PICK j \in i + 1 + 1 .. Len(q) : q[j] = x
      BY <2>2 DEF Later
    <3>2. j - 1 \in i + 1 .. Len(r) /\ r[j - 1] = x
      BY <1>1, <3>1
    <3> QED
      BY <3>2 DEF Later
  <2> QED
    BY <2>1, <2>2
<1>3. ASSUME NEW x PROVE Later(q, 1, x) <=> Contains(r, x)
  <2>1. ASSUME Contains(r, x) PROVE Later(q, 1, x)
    <3>1. PICK j \in 1 .. Len(r) : r[j] = x
      BY <2>1 DEF Contains
    <3>2. j + 1 \in 1 + 1 .. Len(q) /\ q[j + 1] = x
      BY <1>1, <3>1
    <3> QED
      BY <3>2 DEF Later
  <2>2. ASSUME Later(q, 1, x) PROVE Contains(r, x)
    <3>1. PICK j \in 1 + 1 .. Len(q) : q[j] = x
      BY <2>2 DEF Later
    <3>2. j - 1 \in 1 .. Len(r) /\ r[j - 1] = x
      BY <1>1, <3>1
    <3> QED
      BY <3>2 DEF Contains
  <2> QED
    BY <2>1, <2>2
<1>4. ASSUME NEW x PROVE Contains(q, x) <=> Later(q, 1, x) \/ x = Head(q)
  <2>1. 1 .. Len(q) = {1} \union (1 + 1 .. Len(q))
    BY <1>1
  <2> QED
    BY <1>1, <2>1 DEF Contains, Later
<1>5. \A i \in 1 .. Len(r) : i + 1 \in 1 .. Len(q)
  BY <1>1
<1>6. 1 \in 1 .. Len(q)
  BY <1>1
<1> QED
  BY <1>1, <1>2, <1>3, <1>4, <1>5, <1>6 DEF r

\* A window that has the focus loses it, ...
LEMMA OrderOut ==
    ASSUME NEW q \in Seq(Events), NEW f \in Windows, NEW g, g \notin Windows, Order(q, f)
    PROVE  Order(Append(q, FocusOut(f)), g)
<1> DEFINE r == Append(q, FocusOut(f))
<1>1. /\ Len(r) = Len(q) + 1 /\ r[Len(q) + 1] = FocusOut(f) /\ Len(q) \in Nat
      /\ \A i \in 1 .. Len(q) : r[i] = q[i]
      /\ \A i \in 1 .. Len(q) : \A x : Later(r, i, x) <=> Later(q, i, x) \/ x = FocusOut(f)
  BY Appended, EventsDiffer
<1> HIDE DEF r
<1>2. \A i \in 1 .. Len(r) : i \in 1 .. Len(q) \/ i = Len(q) + 1
  BY <1>1
<1>3. \A x : ~Later(r, Len(q) + 1, x)
  BY <1>1 DEF Later
<1>4. OutFollows(r, g)
  BY <1>1, <1>2, EventsDiffer DEF OutFollows, Order
<1>5. InIsLast(r, g)
  BY DEF InIsLast
<1>6. MappedOnce(r)
  BY <1>1, <1>2, <1>3, EventsDiffer DEF MappedOnce, Order
<1> QED
  BY <1>4, <1>5, <1>6 DEF Order, r

\* ... another one, which may have had it before, gets it, ...
LEMMA OrderIn ==
    ASSUME NEW q \in Seq(Events), NEW f \in Windows, NEW g, g \notin Windows, Order(q, g)
    PROVE  Order(Append(q, FocusIn(f)), f)
<1> DEFINE r == Append(q, FocusIn(f))
<1>1. /\ Len(r) = Len(q) + 1 /\ r[Len(q) + 1] = FocusIn(f) /\ Len(q) \in Nat
      /\ \A i \in 1 .. Len(q) : r[i] = q[i]
      /\ \A i \in 1 .. Len(q) : \A x : Later(r, i, x) <=> Later(q, i, x) \/ x = FocusIn(f)
      /\ \A x : ~Later(r, Len(q) + 1, x)
  BY Appended, EventsDiffer
<1> HIDE DEF r
<1>2. \A i \in 1 .. Len(r) : i \in 1 .. Len(q) \/ i = Len(q) + 1
  BY <1>1
<1>3. OutFollows(r, f)
  BY <1>1, <1>2, EventsDiffer DEF OutFollows, Order
<1>4. InIsLast(r, f)
  BY <1>1, <1>2, EventsDiffer DEF InIsLast
<1>5. MappedOnce(r)
  BY <1>1, <1>2, EventsDiffer DEF MappedOnce, Order
<1> QED
  BY <1>3, <1>4, <1>5 DEF Order, r

\* ... or another event comes.
LEMMA OrderOther ==
    ASSUME NEW q \in Seq(Events), NEW f, Order(q, f), NEW e \in Events,
           \A w \in Windows : e # FocusIn(w) /\ e # FocusOut(w) /\ (e = Mapped(w) => ~Contains(q, e))
    PROVE  Order(Append(q, e), f)
<1> DEFINE r == Append(q, e)
<1>1. /\ Len(r) = Len(q) + 1 /\ r[Len(q) + 1] = e /\ Len(q) \in Nat
      /\ \A i \in 1 .. Len(q) : r[i] = q[i]
      /\ \A i \in 1 .. Len(q) : \A x : Later(r, i, x) <=> Later(q, i, x) \/ x = e
      /\ \A x : ~Later(r, Len(q) + 1, x)
  BY Appended
<1> HIDE DEF r
<1>2. \A i \in 1 .. Len(r) : i \in 1 .. Len(q) \/ i = Len(q) + 1
  BY <1>1
<1>3. OutFollows(r, f)
  BY <1>1, <1>2 DEF OutFollows, Order
<1>4. InIsLast(r, f)
  BY <1>1, <1>2 DEF InIsLast, Order
<1>5. MappedOnce(r)
  BY <1>1, <1>2 DEF MappedOnce, Order, Contains
<1> QED
  BY <1>3, <1>4, <1>5 DEF Order, r

LEMMA OrderNobody ==
    ASSUME NEW q, NEW f, NEW g, f \notin Windows, g \notin Windows, Order(q, f)
    PROVE  Order(q, g)
BY DEF Order, OutFollows, InIsLast

LEMMA OrderTail ==
    ASSUME NEW q \in Seq(Events), q # <<>>, NEW f, Order(q, f)
    PROVE  Order(Tail(q), f)
<1> DEFINE r == Tail(q)
<1>1. /\ \A i \in 1 .. Len(r) : i + 1 \in 1 .. Len(q) /\ r[i] = q[i + 1]
      /\ \A i \in 1 .. Len(r) : \A x : Later(r, i, x) <=> Later(q, i + 1, x)
  BY Tailed
<1> HIDE DEF r
<1>2. OutFollows(r, f)
  BY <1>1 DEF OutFollows, Order
<1>3. InIsLast(r, f)
  BY <1>1 DEF InIsLast, Order
<1>4. MappedOnce(r)
  BY <1>1 DEF MappedOnce, Order
<1> QED
  BY <1>2, <1>3, <1>4 DEF Order, r

-----------------------------------------------------------------------------
(* What is true of the state whenever Workspace is not at work.              *)

\* A window that is mapped is shown on the current desktop, and not closing.
Visible(s) == \A w \in s.viewable : IsShown(s, w) /\ IsOnDesktop(s, w) /\ ~Contains(s.events, Gone(w))
Held(s)    == s.focus \in Windows => s.focus \in s.viewable
ActiveShown(s) == s.active # None => IsShown(s, s.active) /\ IsOnDesktop(s, s.active)
Unmanaged(s)   == \A w \in Windows : Contains(s.events, Mapped(w)) => w \notin s.managed

\* When the keyboard belongs to nobody, Workspace will hear of it or has failed
\* to give it to somebody.
Owner(s) == s.focus = PointerRoot => Contains(s.events, RootFocusIn) \/ s.failed

\* The dummy window has the focus: the window that is active will lose it.
Nobody(s) ==
    s.focus = NullFocus /\ s.active # None => s.active \in s.timers \/ Contains(s.events, FocusOut(s.active))

\* A window has the focus: it is active, or Workspace will hear of it.
Quiet(s) == s.focus \in Windows /\ ~Contains(s.events, FocusIn(s.focus))
Somebody(s) ==
    Quiet(s) => /\ s.focus \notin s.timers /\ s.active \in {s.focus, None}
                /\ s.failed \/ s.active = s.focus

Core(s) == Order(s.events, s.focus) /\ Visible(s) /\ Held(s) /\ ActiveShown(s) /\ Unmanaged(s)
Good(s) == Core(s) /\ Owner(s) /\ Nobody(s) /\ Somebody(s)

\* The focus moves, and with it the events grow.
Kept(s, r) ==
    /\ r.viewable = s.viewable /\ r.managed = s.managed /\ r.minimized = s.minimized
    /\ r.current = s.current /\ r.active = s.active /\ r.timers = s.timers
Grown(p, q) ==
    /\ \A e : Contains(p, e) => Contains(q, e)
    /\ \A w \in Windows : /\ Contains(q, Gone(w)) => Contains(p, Gone(w))
                          /\ Contains(q, Mapped(w)) => Contains(p, Mapped(w))
MovedTo(s, r, to) ==
    /\ r.focus = to /\ Kept(s, r) /\ r.failed = s.failed
    /\ Order(r.events, to) /\ Grown(s.events, r.events)
    /\ to = s.focus => r.events = s.events
    /\ to # s.focus /\ to \in Windows => Contains(r.events, FocusIn(to))
    /\ to # s.focus /\ to = PointerRoot => Contains(r.events, RootFocusIn)

LEMMA AppendGrows ==
    ASSUME NEW q \in Seq(Events), NEW e \in Events, \A w \in Windows : e # Gone(w) /\ e # Mapped(w)
    PROVE  Grown(q, Append(q, e))
BY Appended DEF Grown

LEMMA MoveFocusMoves ==
    ASSUME NEW s, Typed(s), s.focus \in Windows => s.focus \in s.managed, Order(s.events, s.focus),
           NEW to \in s.managed \union {NullFocus, PointerRoot}
    PROVE  MovedTo(s, MoveFocus(s, to), to)
<1> DEFINE r == MoveFocus(s, to)
           q == s.events
           out == IF s.focus \in s.managed THEN Append(q, FocusOut(s.focus)) ELSE q
           in == IF to \in s.managed THEN Append(out, FocusIn(to))
                 ELSE IF to = PointerRoot THEN Append(out, RootFocusIn) ELSE out
<1>1. /\ s.managed \subseteq Windows /\ q \in Seq(Events) /\ {NullFocus, PointerRoot} \cap Windows = {}
      /\ s.focus \in Windows \union {NullFocus, PointerRoot} /\ NullFocus # PointerRoot
  BY WindowsAssumption DEF Typed, State
<1>2. CASE to = s.focus
  <2>1. r = s
    BY <1>2 DEF MoveFocus
  <2> QED
    BY <1>2, <2>1 DEF MovedTo, Kept, Grown
<1>3. CASE to # s.focus
  <2>1. out \in Seq(Events) /\ Order(out, NullFocus) /\ Grown(q, out)
    <3>1. CASE s.focus \in s.managed
      BY <1>1, <3>1, OrderOut, EventsDiffer, AppendGrows
    <3>2. CASE s.focus \notin s.managed
      BY <1>1, <3>2, OrderNobody DEF Grown
    <3> QED
      BY <3>1, <3>2
  <2> HIDE DEF out
  <2>2. /\ Order(in, to) /\ Grown(q, in)
        /\ to \in Windows => Contains(in, FocusIn(to))
        /\ to = PointerRoot => Contains(in, RootFocusIn)
    <3>1. CASE to \in s.managed
      <4>1. in = Append(out, FocusIn(to)) /\ to \in Windows /\ FocusIn(to) \in Events
        BY <1>1, <3>1, EventsDiffer
      <4>2. Order(in, to)
        BY <1>1, <2>1, <4>1, OrderIn
      <4>3. Grown(out, in) /\ Contains(in, FocusIn(to))
        BY <2>1, <4>1, AppendGrows, Appended, EventsDiffer
      <4>4. to # PointerRoot
        BY <1>1, <4>1
      <4> QED
        BY <2>1, <4>2, <4>3, <4>4 DEF Grown
    <3>2. CASE to \notin s.managed /\ to = PointerRoot
      <4>1. in = Append(out, RootFocusIn) /\ to \notin Windows /\ RootFocusIn \in Events
        BY <1>1, <3>2, EventsDiffer
      <4>2. Order(in, NullFocus)
        BY <2>1, <4>1, OrderOther, EventsDiffer
      <4>3. Order(in, to)
        BY <1>1, <4>1, <4>2, OrderNobody
      <4>4. Grown(out, in) /\ Contains(in, RootFocusIn)
        BY <2>1, <4>1, AppendGrows, Appended, EventsDiffer
      <4> QED
        BY <2>1, <4>1, <4>3, <4>4 DEF Grown
    <3>3. CASE to \notin s.managed /\ to # PointerRoot
      BY <1>1, <2>1, <3>3
    <3> QED
      BY <3>1, <3>2, <3>3
  <2>3. q \o MoveEvents(s, to) = in
    <3> DEFINE o == IF s.focus \in s.managed THEN <<FocusOut(s.focus)>> ELSE <<>>
               i == IF to \in s.managed THEN <<FocusIn(to)>>
                    ELSE IF to = PointerRoot THEN <<RootFocusIn>> ELSE <<>>
    <3>1. MoveEvents(s, to) = o \o i
      BY DEF MoveEvents, FocusIn, FocusOut
    <3>2. o \in Seq(Events) /\ i \in Seq(Events)
      BY <1>1, EventsDiffer
    <3>3. q \o o = out
      <4> HIDE DEF q
      <4>1. \A e \in Events : q \o <<e>> = Append(q, e)
        BY <1>1
      <4>2. q \o <<>> = q
        BY <1>1
      <4>3. s.focus \in s.managed => FocusOut(s.focus) \in Events
        BY <1>1, EventsDiffer
      <4> QED
        BY <4>1, <4>2, <4>3 DEF out
    <3>4. out \o i = in
      BY <1>1, <2>1, EventsDiffer
    <3>5. q \o (o \o i) = (q \o o) \o i
      <4> HIDE DEF o, i, q
      <4> QED
        BY <1>1, <3>2
    <3> QED
      BY <3>1, <3>3, <3>4, <3>5
  <2>4. r = [s EXCEPT !.focus = to, !.events = in]
    BY <1>3, <2>3 DEF MoveFocus
  <2> HIDE DEF in
  <2>5. r.focus = to /\ r.events = in /\ Kept(s, r) /\ r.failed = s.failed
    BY <2>4 DEF Typed, State, Kept
  <2> QED
    BY <1>3, <2>2, <2>5 DEF MovedTo
<1> QED
  BY <1>2, <1>3

-----------------------------------------------------------------------------
(* What the functions of Workspace do to such states, when all windows have  *)
(* the input hint.                                                           *)

\* What a move of the focus needs, also while windows are shown and hidden.
Ready(s) == Order(s.events, s.focus) /\ s.viewable \subseteq s.managed /\ Held(s)

\* Nothing happens but that takeFocus() may fail.
Same(s, r) ==
    Kept(s, r) /\ r.focus = s.focus /\ r.events = s.events /\ (r.failed = s.failed \/ r.failed = TRUE)

Weak(s) == Quiet(s) => s.focus \notin s.timers /\ s.active \in {s.focus, None}

LEMMA CoreReady == \A s : Core(s) => Ready(s)
BY DEF Core, Ready, Visible, IsShown

LEMMA SameGood ==
    ASSUME NEW s, NEW r, Same(s, r)
    PROVE  /\ Core(s) => Core(r)
           /\ Owner(s) => Owner(r)
           /\ Nobody(s) => Nobody(r)
           /\ Weak(s) => Weak(r)
           /\ Somebody(s) => Somebody(r)
<1> USE DEF Same, Kept
<1>1. Visible(s) => Visible(r)
  BY DEF Visible, IsShown, IsOnDesktop
<1>2. ActiveShown(s) => ActiveShown(r)
  BY DEF ActiveShown, IsShown, IsOnDesktop
<1>3. (Held(s) => Held(r)) /\ (Unmanaged(s) => Unmanaged(r))
  BY DEF Held, Unmanaged
<1>4. Core(s) => Core(r)
  BY <1>1, <1>2, <1>3 DEF Core
<1>5. (Owner(s) => Owner(r)) /\ (Nobody(s) => Nobody(r))
  BY DEF Owner, Nobody
<1>6. (Weak(s) => Weak(r)) /\ (Somebody(s) => Somebody(r))
  BY DEF Weak, Somebody, Quiet
<1> QED
  BY <1>4, <1>5, <1>6

LEMMA MovedCore ==
    ASSUME NEW s, Typed(s), Core(s), NEW r, NEW to \in s.viewable \union {NullFocus, PointerRoot},
           MovedTo(s, r, to)
    PROVE  Core(r)
<1> USE DEF MovedTo, Kept
<1>1. s.viewable \subseteq Windows /\ s.managed \subseteq Windows /\ {NullFocus, PointerRoot} \cap Windows = {}
  BY WindowsAssumption DEF Typed, State
<1>2. Visible(r)
  BY <1>1 DEF Core, Visible, IsShown, IsOnDesktop, Grown
<1>3. Held(r)
  BY <1>1 DEF Held
<1>4. ActiveShown(r)
  BY DEF Core, ActiveShown, IsShown, IsOnDesktop
<1>5. Unmanaged(r)
  BY DEF Core, Unmanaged, Grown
<1> QED
  BY <1>2, <1>3, <1>4, <1>5 DEF Core

LEMMA MovedGood ==
    ASSUME NEW s, Typed(s), Core(s), Nobody(s), NEW r,
           NEW to \in s.viewable \union {NullFocus, PointerRoot}, MovedTo(s, r, to),
           to = s.focus => Owner(s) /\ Somebody(s),
           to = NullFocus /\ to # s.focus => s.active = None
    PROVE  Good(r)
<1> USE DEF MovedTo, Kept
<1>1. s.viewable \subseteq Windows /\ {NullFocus, PointerRoot} \cap Windows = {}
  BY WindowsAssumption DEF Typed, State
<1>2. Nobody(r)
  BY DEF Nobody
<1>3. Somebody(r)
  BY <1>1 DEF Somebody, Quiet
<1>4. Owner(r)
  BY DEF Owner
<1> QED
  BY <1>2, <1>3, <1>4, MovedCore DEF Good

\* takeFocus() fails and nothing happens, or the window gets the focus.
LEMMA RequestFocusMoves ==
    ASSUME Accepts = Windows, NEW s, Typed(s), Ready(s), NEW w \in Windows
    PROVE  /\ ~CanFocus(s, w) => Same(s, RequestFocus(s, w)) /\ RequestFocus(s, w).failed
           /\ CanFocus(s, w) => MovedTo(s, RequestFocus(s, w), w)
<1>1. CASE ~CanFocus(s, w)
  BY <1>1 DEF RequestFocus, Same, Kept, Typed, State
<1>2. CASE CanFocus(s, w)
  <2> DEFINE m == MoveFocus(s, w)
             told == IF w \notin Asks THEN SetInputFocus(s, w)
                     ELSE [SetInputFocus(s, w) EXCEPT !.behind = FALSE, !.asked = @ \union {w}, !.overtaken = @ \ {w}]
  <2>1. w \in s.managed /\ w \in s.viewable
    BY <1>2 DEF CanFocus, IsShown
  <2>2. MovedTo(s, m, w) /\ Typed(m)
    BY <2>1, MoveFocusMoves, MoveFocusTyped DEF Ready, Held
  <2>3. RequestFocus(s, w) = [told EXCEPT !.requested = Append(@, w)]
    BY <1>2 DEF RequestFocus
  <2>4. SetInputFocus(s, w) = [m EXCEPT !.behind = TRUE, !.overtaken = s.asked]
    BY DEF SetInputFocus
  <2> HIDE DEF m
  <2>5. /\ RequestFocus(s, w).focus = m.focus /\ RequestFocus(s, w).events = m.events
        /\ Kept(m, RequestFocus(s, w)) /\ RequestFocus(s, w).failed = m.failed
    BY <2>2, <2>3, <2>4 DEF Typed, State, Kept
  <2> QED
    BY <1>2, <2>2, <2>5 DEF MovedTo, Kept
<1> QED
  BY <1>1, <1>2

LEMMA RequestFocusGood ==
    ASSUME Accepts = Windows, NEW s, Typed(s), Core(s), Nobody(s), Weak(s), NEW w \in Windows,
           w = s.focus => Somebody(s)
    PROVE  /\ Good(RequestFocus(s, w)) /\ Kept(s, RequestFocus(s, w))
           /\ Grown(s.events, RequestFocus(s, w).events)
           /\ Quiet(RequestFocus(s, w)) => RequestFocus(s, w).focus = s.focus
<1> DEFINE r == RequestFocus(s, w)
<1>1. CASE ~CanFocus(s, w)
  <2>1. Same(s, r) /\ r.failed
    BY <1>1, RequestFocusMoves, CoreReady
  <2> HIDE DEF r
  <2>2. (Weak(r) => Somebody(r)) /\ Owner(r)
    BY <2>1 DEF Weak, Somebody, Owner
  <2>3. Good(r)
    BY <2>1, <2>2, SameGood DEF Good
  <2>4. Kept(s, r) /\ Grown(s.events, r.events) /\ (Quiet(r) => r.focus = s.focus)
    BY <2>1 DEF Same, Grown
  <2> QED
    BY <2>3, <2>4 DEF r
<1>2. CASE CanFocus(s, w)
  <2>1. MovedTo(s, r, w) /\ w \in s.viewable
    BY <1>2, RequestFocusMoves, CoreReady DEF CanFocus
  <2>2. w # NullFocus /\ (w = s.focus => Owner(s))
    BY WindowsAssumption DEF Owner
  <2>3. Grown(s.events, r.events) /\ (Quiet(r) => r.focus = s.focus)
    BY <2>1 DEF MovedTo, Quiet
  <2> HIDE DEF r
  <2> QED
    BY <2>1, <2>2, <2>3, MovedGood DEF MovedTo, r
<1> QED
  BY <1>1, <1>2

\* The server ignores the request, or the dummy window gets the focus.
LEMMA FocusToNullMoves ==
    ASSUME NEW s, Typed(s), Ready(s), NEW r \in FocusToNull(s)
    PROVE  (Same(s, r) /\ s.behind) \/ MovedTo(s, r, NullFocus)
<1> DEFINE t == [s EXCEPT !.requested = <<>>]
           m == MoveFocus(t, NullFocus)
           done == [m EXCEPT !.overtaken = s.asked]
<1>1. Typed(t)
  <2>1. <<>> \in Seq(Windows)
    OBVIOUS
  <2> QED
    BY <2>1 DEF Typed, State
<1>2. Same(s, t) /\ t.managed = s.managed
  BY DEF Same, Kept, Typed, State
<1>3. (r = t /\ s.behind) \/ r = done
  BY DEF FocusToNull
<1>4. s.focus \in Windows => s.focus \in s.managed
  BY DEF Ready, Held
<1> HIDE DEF t
<1>5. Order(t.events, t.focus)
  BY <1>2 DEF Ready, Same
<1>6. t.focus \in Windows => t.focus \in t.managed
  BY <1>2, <1>4 DEF Same
<1>7. MovedTo(t, m, NullFocus) /\ Typed(m)
  BY <1>1, <1>5, <1>6, MoveFocusMoves, MoveFocusTyped
<1> HIDE DEF m
<1>8. m.failed = t.failed /\ t.failed = s.failed
  BY <1>7 DEF MovedTo, t, Typed, State
<1>9. MovedTo(s, done, NullFocus)
  <2>1. Kept(m, done) /\ done.focus = m.focus /\ done.events = m.events /\ done.failed = m.failed
    BY <1>7 DEF Kept, Typed, State
  <2> HIDE DEF done
  <2> QED
    BY <1>2, <1>7, <1>8, <2>1 DEF MovedTo, Same, Kept
<1> QED
  BY <1>2, <1>3, <1>9

\* Windows are unmapped.
Hid(s, r, W) ==
    /\ r.viewable = s.viewable \ W
    /\ r.managed = s.managed /\ r.minimized = s.minimized /\ r.current = s.current
    /\ r.active = s.active /\ r.timers = s.timers /\ r.failed = s.failed
    /\ Order(r.events, r.focus) /\ Grown(s.events, r.events)
    /\ IF s.focus \in W THEN r.focus = PointerRoot /\ Contains(r.events, RootFocusIn)
                        ELSE r.focus = s.focus /\ r.events = s.events

LEMMA HideWindowsHides ==
    ASSUME NEW s, Typed(s), Ready(s), NEW W \in SUBSET Windows, NEW r \in HideWindows(s, W, FALSE)
    PROVE  Hid(s, r, W)
<1> DEFINE t == [s EXCEPT !.viewable = @ \ W]
           m == MoveFocus(t, PointerRoot)
<1>1. r = IF s.focus \in W THEN m ELSE t
  BY DEF HideWindows
<1>2. Typed(t) /\ t.focus = s.focus /\ t.events = s.events /\ t.managed = s.managed
  BY DEF Typed, State
<1>3. /\ t.viewable = s.viewable \ W /\ t.minimized = s.minimized /\ t.current = s.current
      /\ t.active = s.active /\ t.timers = s.timers /\ t.failed = s.failed
  BY DEF Typed, State
<1>4. Order(t.events, t.focus) /\ (t.focus \in Windows => t.focus \in t.managed)
  BY <1>2 DEF Ready, Held
<1>5. Grown(t.events, t.events)
  BY DEF Grown
<1> HIDE DEF t
<1>6. MovedTo(t, m, PointerRoot)
  BY <1>2, <1>4, MoveFocusMoves
<1>7. s.focus \in W => t.focus # PointerRoot
  BY <1>2, WindowsAssumption
<1> HIDE DEF m
<1>8. CASE s.focus \in W
  BY <1>1, <1>2, <1>3, <1>6, <1>7, <1>8 DEF Hid, MovedTo, Kept
<1>9. CASE s.focus \notin W
  BY <1>1, <1>2, <1>3, <1>4, <1>5, <1>9 DEF Hid
<1> QED
  BY <1>8, <1>9

\* The current desktop changes, before a window is activated.
LEMMA SwitchedGood ==
    ASSUME previews = "Never", NEW s, Typed(s), Good(s), NEW d \in Desktops, NEW u \in Switched(s, d)
    PROVE  /\ Typed(u) /\ Order(u.events, u.focus) /\ Grown(s.events, u.events)
           /\ Visible(u) /\ Held(u) /\ Unmanaged(u) /\ Owner(u) /\ Nobody(u) /\ Somebody(u)
           /\ u.focus \in Windows => u.focus = s.focus
           /\ u.managed = s.managed /\ u.minimized = s.minimized /\ u.current = d
<1> DEFINE t == [s EXCEPT !.current = d]
           up == {w \in s.managed : IsShown(s, w)}
           W == {w \in up : ~IsOnDesktop(t, w)}
           V(h) == {w \in up : IsOnDesktop(h, w)}
<1>1. PICK h \in HideWindows(t, W, FALSE) : u = ShowWindows(h, V(h))
  BY DEF Switched
<1>2. /\ Typed(t) /\ t.current = d /\ t.focus = s.focus /\ t.events = s.events /\ t.viewable = s.viewable
      /\ t.managed = s.managed /\ t.minimized = s.minimized /\ t.active = s.active
      /\ t.timers = s.timers /\ t.failed = s.failed
  BY DEF Typed, State
<1>3. up \subseteq Windows /\ s.viewable \subseteq s.managed /\ s.managed \subseteq Windows
  BY CoreReady DEF Typed, State, Good, Ready
<1> HIDE DEF t, up
<1>4. Ready(t)
  BY <1>2, CoreReady DEF Good, Ready, Held
<1>5. W \in SUBSET Windows /\ V(h) \in SUBSET Windows
  BY <1>3
<1>6. Hid(t, h, W) /\ Typed(h)
  <2> HIDE DEF W
  <2> QED
    BY <1>1, <1>2, <1>4, <1>5, HideWindowsHides, HideWindowsTyped
<1>7. Typed(u)
  BY <1>1, <1>5, <1>6, ShowWindowsTyped
<1>8. /\ u.viewable = h.viewable \union {w \in V(h) : ~Contains(h.events, Gone(w))}
      /\ u.managed = h.managed /\ u.minimized = h.minimized /\ u.current = h.current /\ u.active = h.active
      /\ u.timers = h.timers /\ u.failed = h.failed /\ u.focus = h.focus /\ u.events = h.events
  <2> HIDE DEF V
  <2> QED
    BY <1>1, <1>6 DEF ShowWindows, Closing, Gone, Typed, State
<1>9. /\ u.managed = s.managed /\ u.minimized = s.minimized /\ u.current = d /\ u.active = s.active
      /\ u.timers = s.timers /\ u.failed = s.failed
      /\ Order(u.events, u.focus) /\ Grown(s.events, u.events)
      /\ \/ s.focus \in W /\ u.focus = PointerRoot /\ Contains(u.events, RootFocusIn)
         \/ s.focus \notin W /\ u.focus = s.focus /\ u.events = s.events
  BY <1>2, <1>6, <1>8 DEF Hid
<1>10. \A w \in up : IsShown(u, w)
  BY <1>9 DEF up, IsShown
<1>11. \A x, w : x.current = d => (IsOnDesktop(x, w) <=> Place[w] \in {All, d})
  BY DEF IsOnDesktop
<1>12. Visible(u)
  <2> SUFFICES ASSUME NEW w \in u.viewable PROVE IsShown(u, w) /\ IsOnDesktop(u, w) /\ ~Contains(u.events, Gone(w))
    BY DEF Visible
  <2>1. CASE w \in V(h) /\ ~Contains(h.events, Gone(w))
    BY <1>2, <1>6, <1>8, <1>9, <1>10, <1>11, <2>1 DEF Hid
  <2>2. CASE w \in s.viewable \ W
    <3>1. w \in up /\ ~Contains(s.events, Gone(w)) /\ w \in Windows
      BY <1>3, <2>2 DEF Good, Core, Visible, up
    <3> QED
      BY <1>2, <1>9, <1>10, <1>11, <2>2, <3>1 DEF Grown
  <2> QED
    BY <1>2, <1>6, <1>8, <2>1, <2>2 DEF Hid
<1>13. Held(u)
  BY <1>2, <1>6, <1>8, <1>9, WindowsAssumption DEF Held, Good, Core, Hid
<1>14. Unmanaged(u) /\ Owner(u)
  BY <1>9 DEF Unmanaged, Owner, Good, Core, Grown
<1>15. Nobody(u) /\ Somebody(u)
  BY <1>9, WindowsAssumption DEF Nobody, Somebody, Quiet, Good
<1>16. u.focus \in Windows => u.focus = s.focus
  BY <1>9, WindowsAssumption
<1> QED
  BY <1>7, <1>9, <1>12, <1>13, <1>14, <1>15, <1>16
\* A window less is active: what SwitchDesktop does before it activates one.
LEMMA InactiveGood ==
    ASSUME NEW u, Typed(u), Order(u.events, u.focus), Visible(u), Held(u), Unmanaged(u), Somebody(u)
    PROVE  LET v == [u EXCEPT !.active = None]
           IN  /\ Typed(v) /\ Core(v) /\ Nobody(v) /\ Weak(v) /\ v.active = None
               /\ v.focus = u.focus /\ v.events = u.events /\ v.managed = u.managed /\ v.timers = u.timers
               /\ v.minimized = u.minimized /\ v.current = u.current /\ v.viewable = u.viewable
               /\ v.failed = u.failed /\ v.behind = u.behind
<1> DEFINE v == [u EXCEPT !.active = None]
<1>1. /\ Typed(v) /\ v.active = None
      /\ v.focus = u.focus /\ v.events = u.events /\ v.managed = u.managed /\ v.timers = u.timers
      /\ v.minimized = u.minimized /\ v.current = u.current /\ v.viewable = u.viewable
      /\ v.failed = u.failed /\ v.behind = u.behind
  BY DEF Typed, State
<1> HIDE DEF v
<1>2. Visible(v)
  BY <1>1 DEF Visible, IsShown, IsOnDesktop
<1>3. Held(v) /\ ActiveShown(v) /\ Unmanaged(v)
  BY <1>1 DEF Held, ActiveShown, Unmanaged
<1>4. Nobody(v) /\ Weak(v)
  BY <1>1 DEF Nobody, Weak, Somebody, Quiet
<1> QED
  BY <1>1, <1>2, <1>3, <1>4 DEF Core, v

\* The current desktop changes.
LEMMA SwitchDesktopGood ==
    ASSUME Accepts = Windows, previews = "Never", NEW s, Typed(s), Good(s), NEW d \in Desktops,
           NEW blocked \in BOOLEAN, NEW r \in SwitchDesktop(s, d, blocked)
    PROVE  /\ Typed(r) /\ Core(r) /\ Owner(r) /\ Nobody(r) /\ Weak(r) /\ (~blocked => Good(r))
           /\ r.managed = s.managed /\ r.minimized = s.minimized /\ r.current = d
           /\ Grown(s.events, r.events) /\ (Quiet(r) => r.focus = s.focus)
<1>1. PICK u \in Switched(s, d) :
          \/ Candidates(s, u) = {} /\ r \in FocusToNull([u EXCEPT !.active = None])
          \/ \E c \in Candidates(s, u) : r = Chosen(u, c, blocked)
  BY SwitchDesktopIs
<1>2. /\ Typed(u) /\ Order(u.events, u.focus) /\ Grown(s.events, u.events)
      /\ Visible(u) /\ Held(u) /\ Unmanaged(u) /\ Owner(u) /\ Nobody(u) /\ Somebody(u)
      /\ u.focus \in Windows => u.focus = s.focus
      /\ u.managed = s.managed /\ u.minimized = s.minimized /\ u.current = d
  BY SwitchedGood
<1>3. Typed(r)
  BY SwitchDesktopTyped
<1> DEFINE v == [u EXCEPT !.active = None]
<1>4. /\ Typed(v) /\ Core(v) /\ Nobody(v) /\ Weak(v) /\ v.active = None
      /\ v.focus = u.focus /\ v.events = u.events /\ v.managed = u.managed /\ v.timers = u.timers
      /\ v.minimized = u.minimized /\ v.current = u.current /\ v.viewable = u.viewable
      /\ v.failed = u.failed /\ v.behind = u.behind
  BY <1>2, InactiveGood
<1> HIDE DEF v
<1>5. Owner(v)
  BY <1>2, <1>4 DEF Owner
<1>6. \A x : Good(x) => Core(x) /\ Owner(x) /\ Nobody(x) /\ Weak(x)
  BY DEF Good, Somebody, Weak
<1>7. \A x : Quiet(x) => x.focus \in Windows
  BY DEF Quiet
<1>8. \A p, q, e : Grown(p, q) /\ Grown(q, e) => Grown(p, e)
  BY DEF Grown
<1>9. CASE Candidates(s, u) = {} /\ r \in FocusToNull(v)
  <2>1. Same(v, r) \/ MovedTo(v, r, NullFocus)
    BY <1>4, <1>9, FocusToNullMoves, CoreReady
  <2>2. u.focus \notin Windows
    BY <1>2, <1>9 DEF Held, Visible, Candidates, IsShown
  <2>3. Somebody(v)
    BY <1>4, <2>2 DEF Somebody, Quiet
  <2>4. Good(r)
    <3>1. CASE Same(v, r)
      BY <1>4, <1>5, <2>3, <3>1, SameGood DEF Good
    <3>2. CASE MovedTo(v, r, NullFocus)
      BY <1>4, <1>5, <2>3, <3>2, MovedGood
    <3> QED
      BY <2>1, <3>1, <3>2
  <2>5. Kept(v, r) /\ Grown(v.events, r.events) /\ r.focus \notin Windows
    BY <1>4, <2>1, <2>2, WindowsAssumption DEF Same, MovedTo, Grown
  <2> QED
    BY <1>2, <1>3, <1>4, <1>6, <1>7, <1>8, <2>4, <2>5 DEF Kept
<1>10. ASSUME NEW c \in Candidates(s, u), r = Chosen(u, c, blocked)
       PROVE  /\ Core(r) /\ Owner(r) /\ Nobody(r) /\ Weak(r) /\ (~blocked => Good(r))
              /\ r.managed = s.managed /\ r.minimized = s.minimized /\ r.current = d
              /\ Grown(s.events, r.events) /\ (Quiet(r) => r.focus = s.focus)
  <2>1. c \in Windows /\ IsShown(u, c) /\ IsOnDesktop(u, c)
    BY <1>2 DEF Candidates, IsShown, Typed, State
  <2>2. CASE c = u.active
    <3>1. r = RequestFocus(u, c)
      BY <1>10, <2>2 DEF Chosen
    <3>2. Core(u)
      BY <1>2, <2>1, <2>2 DEF Core, ActiveShown
    <3>3. Good(u)
      BY <1>2, <3>2 DEF Good
    <3>4. Good(r) /\ Kept(u, r) /\ Grown(u.events, r.events) /\ (Quiet(r) => r.focus = u.focus)
      BY <1>2, <1>6, <2>1, <3>1, <3>3, RequestFocusGood DEF Good
    <3> QED
      BY <1>2, <1>6, <1>7, <1>8, <3>4 DEF Kept
  <2>3. CASE c # u.active /\ blocked
    <3>1. r = v
      BY <1>10, <2>3 DEF Chosen, v
    <3> QED
      BY <1>2, <1>4, <1>5, <1>7, <2>3, <3>1
  <2>4. CASE c # u.active /\ ~blocked
    <3>1. r = RequestFocus(v, c)
      BY <1>10, <2>4 DEF Chosen, v
    <3>2. c = v.focus => Somebody(v)
      BY <1>2, <1>4, <2>1, <2>4 DEF Somebody, Quiet
    <3>3. Good(r) /\ Kept(v, r) /\ Grown(v.events, r.events) /\ (Quiet(r) => r.focus = v.focus)
      BY <1>4, <2>1, <3>1, <3>2, RequestFocusGood
    <3> QED
      BY <1>2, <1>4, <1>6, <1>7, <1>8, <3>3 DEF Kept
  <2> QED
    BY <2>2, <2>3, <2>4
<1> QED
  BY <1>1, <1>3, <1>9, <1>10 DEF v
\* The state in all but what the invariant does not speak of.
Alike(s, r) ==
    /\ r.focus = s.focus /\ r.events = s.events /\ r.viewable = s.viewable /\ r.managed = s.managed
    /\ r.minimized = s.minimized /\ r.current = s.current /\ r.active = s.active
    /\ r.timers = s.timers /\ r.failed = s.failed

LEMMA AlikeGood ==
    ASSUME NEW s, NEW r, Alike(s, r)
    PROVE  /\ Core(s) => Core(r)
           /\ Owner(s) => Owner(r)
           /\ Nobody(s) => Nobody(r)
           /\ Weak(s) => Weak(r)
           /\ Somebody(s) => Somebody(r)
           /\ Good(s) => Good(r)
<1>1. Same(s, r)
  BY DEF Alike, Same, Kept
<1> QED
  BY <1>1, SameGood DEF Good

\* A window of the current desktop is shown that was minimized, or that is new.
Joined(s, u, w) ==
    /\ u.managed = s.managed \union {w} /\ u.minimized = s.minimized \ {w}
    /\ u.focus = s.focus /\ u.events = s.events /\ u.viewable = s.viewable /\ u.current = s.current
    /\ u.active = s.active /\ u.timers = s.timers /\ u.failed = s.failed
    /\ ~Contains(s.events, Mapped(w)) \/ w \in s.managed

Shown(s, u, w) == IF IsOnDesktop(s, w) THEN {u, ShowWindows(u, {w})} ELSE {u}

LEMMA ShownGood ==
    ASSUME NEW s, Core(s), NEW w \in Windows, NEW u, Typed(u), Joined(s, u, w), NEW r \in Shown(s, u, w)
    PROVE  /\ Typed(r) /\ Core(r) /\ r.managed = u.managed /\ r.current = u.current
           /\ r.focus = s.focus /\ r.events = s.events /\ r.active = s.active
           /\ Owner(s) => Owner(r)
           /\ Nobody(s) => Nobody(r)
           /\ Weak(s) => Weak(r)
           /\ Somebody(s) => Somebody(r)
<1>1. /\ u.focus = s.focus /\ u.events = s.events /\ u.viewable = s.viewable /\ u.current = s.current
      /\ u.active = s.active /\ u.timers = s.timers /\ u.failed = s.failed
      /\ u.managed = s.managed \union {w} /\ u.minimized = s.minimized \ {w}
      /\ ~Contains(s.events, Mapped(w)) \/ w \in s.managed
  BY DEF Joined
<1>2. /\ Typed(r) /\ r.focus = s.focus /\ r.events = s.events /\ r.current = s.current
      /\ r.active = s.active /\ r.timers = s.timers /\ r.failed = s.failed
      /\ r.managed = u.managed /\ r.minimized = u.minimized
      /\ \A v \in r.viewable :
            v \in s.viewable \/ (v = w /\ IsOnDesktop(s, w) /\ ~Contains(s.events, Gone(w)))
      /\ s.viewable \subseteq r.viewable
  <2>1. CASE r = u
    BY <1>1, <2>1
  <2>2. CASE r = ShowWindows(u, {w}) /\ IsOnDesktop(s, w)
    BY <1>1, <2>2, ShowWindowsTyped DEF ShowWindows, Closing, Gone, Typed, State
  <2> QED
    BY <2>1, <2>2 DEF Shown
<1>3. Visible(r)
  BY <1>1, <1>2 DEF Visible, IsShown, IsOnDesktop, Core
<1>4. Held(r) /\ ActiveShown(r)
  BY <1>1, <1>2 DEF Held, ActiveShown, IsShown, IsOnDesktop, Core
<1>5. Unmanaged(r)
  BY <1>1, <1>2, EventsDiffer DEF Unmanaged, Core
<1>6. /\ (Owner(s) => Owner(r)) /\ (Nobody(s) => Nobody(r))
      /\ (Weak(s) => Weak(r)) /\ (Somebody(s) => Somebody(r))
  BY <1>2 DEF Owner, Nobody, Weak, Somebody, Quiet
<1> QED
  BY <1>1, <1>2, <1>3, <1>4, <1>5, <1>6 DEF Core

\* activateWindow().
LEMMA ActivateWindowGood ==
    ASSUME Accepts = Windows, previews = "Never", NEW s, Typed(s), Good(s), NEW w \in s.managed,
           NEW there, there = (IF IsOnDesktop(s, w) THEN {s} ELSE SwitchDesktop(s, Place[w], TRUE)),
           NEW t \in there
    PROVE  Good(RequestFocus(Restore(t, w), w))
<1> DEFINE u == [t EXCEPT !.minimized = @ \ {w}]
           r == ShowWindows(u, {w})
<1>1. w \in Windows
  BY DEF Typed, State
<1>2. /\ Typed(t) /\ Core(t) /\ Nobody(t) /\ Weak(t) /\ w \in t.managed /\ IsOnDesktop(t, w)
      /\ w = t.focus => Somebody(t)
  <2>1. CASE IsOnDesktop(s, w)
    BY <2>1 DEF Good, Somebody, Weak
  <2>2. CASE ~IsOnDesktop(s, w)
    <3>1. t \in SwitchDesktop(s, Place[w], TRUE) /\ Place[w] \in Desktops
      BY <1>1, <2>2, PlaceType
    <3>2. /\ Typed(t) /\ Core(t) /\ Nobody(t) /\ Weak(t) /\ t.managed = s.managed /\ t.current = Place[w]
          /\ Quiet(t) => t.focus = s.focus
      BY <3>1, SwitchDesktopGood
    <3>3. s.focus # w
      BY <1>1, <2>2 DEF Good, Core, Held, Visible
    <3> QED
      BY <3>2, <3>3 DEF IsOnDesktop, Somebody
  <2> QED
    BY <2>1, <2>2
<1>3. Typed(u) /\ Joined(t, u, w)
  BY <1>2 DEF Typed, State, Joined
<1> HIDE DEF u
<1>4. r \in Shown(t, u, w) /\ r = Restore(t, w)
  BY <1>2 DEF u, Restore, Shown
<1> HIDE DEF r
<1>5. /\ Typed(r) /\ Core(r) /\ r.focus = t.focus
      /\ (Nobody(t) => Nobody(r)) /\ (Weak(t) => Weak(r)) /\ (Somebody(t) => Somebody(r))
  BY <1>1, <1>2, <1>3, <1>4, ShownGood
<1> QED
  BY <1>1, <1>2, <1>4, <1>5, RequestFocusGood
\* The next window is activated while one is hidden or destroyed: that one may
\* be mapped, and have the focus, although it is not to be seen any more.
CoreBut(s, w) ==
    /\ Ready(s) /\ Unmanaged(s)
    /\ \A v \in s.viewable \ {w} : IsShown(s, v) /\ IsOnDesktop(s, v) /\ ~Contains(s.events, Gone(v))
    /\ s.active \notin {None, w} => IsShown(s, s.active) /\ IsOnDesktop(s, s.active)

LEMMA CoreButKept ==
    ASSUME NEW s, Typed(s), NEW w, CoreBut(s, w), NEW r,
           Same(s, r) \/ \E to \in s.viewable \union {NullFocus, PointerRoot} : MovedTo(s, r, to)
    PROVE  CoreBut(r, w) /\ Kept(s, r) /\ Grown(s.events, r.events)
<1>1. s.viewable \subseteq Windows /\ {NullFocus, PointerRoot} \cap Windows = {}
  BY WindowsAssumption DEF Typed, State
<1>2. /\ Kept(s, r) /\ Grown(s.events, r.events) /\ Order(r.events, r.focus)
      /\ r.focus = s.focus \/ r.focus \in s.viewable \union {NullFocus, PointerRoot}
  BY DEF Same, MovedTo, Grown, CoreBut, Ready
<1>3. Ready(r)
  BY <1>1, <1>2 DEF CoreBut, Ready, Held, Kept
<1>4. Unmanaged(r)
  BY <1>2 DEF CoreBut, Unmanaged, Kept, Grown
<1>5. \A v \in r.viewable \ {w} : IsShown(r, v) /\ IsOnDesktop(r, v) /\ ~Contains(r.events, Gone(v))
  BY <1>1, <1>2 DEF CoreBut, Kept, Grown, IsShown, IsOnDesktop
<1>6. r.active \notin {None, w} => IsShown(r, r.active) /\ IsOnDesktop(r, r.active)
  BY <1>2 DEF CoreBut, Kept, IsShown, IsOnDesktop
<1> QED
  BY <1>2, <1>3, <1>4, <1>5, <1>6 DEF CoreBut

LEMMA ActivateNextWindowGood ==
    ASSUME Accepts = Windows, NEW s, Typed(s), NEW w \in Windows \union {None},
           CoreBut(s, w), Nobody(s), Somebody(s), NEW r \in ActivateNextWindow(s, w)
    PROVE  /\ CoreBut(r, w) /\ (w # None => r.active # w) /\ Grown(s.events, r.events)
           /\ r.managed = s.managed /\ r.minimized = s.minimized /\ r.viewable = s.viewable
           /\ (w # None /\ r.focus = w) \/ (Nobody(r) /\ Somebody(r))
           /\ Owner(s) \/ (w = None /\ s.active = None /\ ~s.behind) => Owner(r)
<1> DEFINE t == IF w = None THEN s ELSE [SetInactive(s, w) EXCEPT !.requested = Without(@, w)]
           C == UsableCandidates(s, w)
<1>1. CASE r = s /\ s.active # w
  BY <1>1 DEF Grown
<1>2. CASE r \in RequestOneOf(t, C)
  <2>1. /\ Typed(t) /\ t.active = (IF s.active = w THEN None ELSE s.active)
        /\ t.focus = s.focus /\ t.events = s.events /\ t.viewable = s.viewable /\ t.managed = s.managed
        /\ t.minimized = s.minimized /\ t.current = s.current /\ t.timers = s.timers
        /\ t.failed = s.failed /\ t.behind = s.behind
    <3>1. Without(s.requested, w) \in Seq(Windows)
      BY WithoutType DEF Typed, State
    <3> DEFINE x == SetInactive(s, w)
    <3>2. /\ Typed(x) /\ x.active = (IF s.active = w THEN None ELSE s.active)
          /\ x.focus = s.focus /\ x.events = s.events /\ x.viewable = s.viewable /\ x.managed = s.managed
          /\ x.minimized = s.minimized /\ x.current = s.current /\ x.timers = s.timers
          /\ x.failed = s.failed /\ x.behind = s.behind /\ x.requested = s.requested
      BY DEF SetInactive, Typed, State
    <3>3. t = IF w = None THEN s ELSE [x EXCEPT !.requested = Without(x.requested, w)]
      OBVIOUS
    <3> HIDE DEF x, t
    <3>4. CASE w = None
      BY <3>3, <3>4
    <3>5. CASE w # None
      BY <3>1, <3>2, <3>3, <3>5 DEF Typed, State
    <3> QED
      BY <3>4, <3>5
  <2> HIDE DEF t
  <2>2. t.managed \subseteq Windows /\ None \notin Windows /\ NullFocus \notin Windows /\ PointerRoot \notin Windows
    BY <2>1, WindowsAssumption DEF Typed, State
  <2>3. CoreBut(t, w)
    BY <2>1 DEF CoreBut, Ready, Held, Unmanaged, IsShown, IsOnDesktop
  <2>4. Nobody(t) /\ (Owner(s) => Owner(t))
    BY <2>1 DEF Nobody, Owner
  <2>5. w = None \/ t.focus # w => Somebody(t)
    BY <2>1 DEF Somebody, Quiet
  <2>6. w # None => t.active # w
    BY <2>1
  <2>7. \A v \in Windows \ {w} : IsShown(t, v) /\ IsOnDesktop(t, v) => v \in C
    BY <2>1 DEF UsableCandidates, IsShown, IsOnDesktop
  <2>8. \A v \in C : v \in Windows \ {w}
    BY <2>1, <2>2 DEF UsableCandidates
  <2> HIDE DEF C
  <2>9. Ready(t)
    BY <2>3 DEF CoreBut
  <2>10. CASE C = {} /\ r \in FocusToNull(t)
    <3>1. t.active = None
      BY <2>1, <2>2, <2>3, <2>7, <2>10 DEF CoreBut, IsShown
    <3>2. t.focus = w \/ t.focus \notin Windows
      BY <2>1, <2>2, <2>3, <2>7, <2>10 DEF CoreBut, Ready, Held
    <3>3. (Same(t, r) /\ t.behind) \/ MovedTo(t, r, NullFocus)
      BY <2>1, <2>9, <2>10, FocusToNullMoves
    <3>4. CoreBut(r, w) /\ Kept(t, r) /\ Grown(t.events, r.events)
      BY <2>1, <2>3, <3>3, CoreButKept
    <3>5. (w # None /\ r.focus = w) \/ (Nobody(r) /\ Somebody(r))
      BY <2>2, <3>1, <3>2, <3>3 DEF Same, MovedTo, Kept, Nobody, Somebody, Quiet
    <3>6. Owner(s) \/ ~s.behind => Owner(r)
      BY <2>1, <2>4, <3>3, WindowsAssumption DEF Same, MovedTo, Owner
    <3> QED
      BY <2>1, <2>6, <3>4, <3>5, <3>6 DEF Kept
  <2>11. ASSUME NEW c \in C, r = RequestFocus(t, c)
         PROVE  /\ CoreBut(r, w) /\ Kept(t, r) /\ Grown(t.events, r.events) /\ Owner(r)
                /\ (w # None /\ r.focus = w) \/ (Nobody(r) /\ Somebody(r))
    <3>1. CASE ~CanFocus(t, c)
      <4>1. Same(t, r) /\ r.failed
        BY <2>1, <2>8, <2>9, <2>11, <3>1, RequestFocusMoves
      <4>2. CoreBut(r, w) /\ Kept(t, r) /\ Grown(t.events, r.events)
        BY <2>1, <2>3, <4>1, CoreButKept
      <4>3. Owner(r) /\ Nobody(r) /\ r.focus = t.focus /\ (Somebody(t) => Somebody(r))
        BY <2>4, <4>1, SameGood DEF Owner, Same
      <4> QED
        BY <2>5, <4>2, <4>3
    <3>2. CASE CanFocus(t, c)
      <4>1. MovedTo(t, r, c) /\ c \in t.viewable
        BY <2>1, <2>8, <2>9, <2>11, <3>2, RequestFocusMoves DEF CanFocus
      <4>2. CoreBut(r, w) /\ Kept(t, r) /\ Grown(t.events, r.events)
        BY <2>1, <2>3, <4>1, CoreButKept
      <4>3. c \in Windows /\ c # w /\ c # NullFocus /\ c # PointerRoot
        BY <2>2, <2>8
      <4>4. Owner(r) /\ Nobody(r)
        BY <4>1, <4>3 DEF MovedTo, Owner, Nobody
      <4>5. Somebody(r)
        BY <2>5, <4>1, <4>3 DEF MovedTo, Kept, Somebody, Quiet
      <4> QED
        BY <4>2, <4>4, <4>5
    <3> QED
      BY <3>1, <3>2
  <2>12. (C = {} /\ r \in FocusToNull(t)) \/ \E c \in C : r = RequestFocus(t, c)
    BY <1>2 DEF RequestOneOf
  <2>13. CASE \E c \in C : r = RequestFocus(t, c)
    BY <2>1, <2>6, <2>11, <2>13 DEF Kept
  <2> QED
    BY <2>10, <2>12, <2>13
<1>3. (r = s /\ s.active # w) \/ r \in RequestOneOf(t, C)
  BY DEF ActivateNextWindow
<1> QED
  BY <1>1, <1>2, <1>3

\* The window that is minimized is unmapped last, ...
LEMMA UnmappedGood ==
    ASSUME NEW x, Typed(x), NEW w \in Windows, CoreBut(x, w), x.active # w, Owner(x),
           x.focus = w \/ (Nobody(x) /\ Somebody(x)), NEW r \in HideWindows(x, {w}, FALSE)
    PROVE  Good(r)
<1> DEFINE W == {w}
<1>1. W \in SUBSET Windows /\ r \in HideWindows(x, W, FALSE) /\ \A v : v \in W <=> v = w
  OBVIOUS
<1> HIDE DEF W
<1>2. Ready(x)
  BY DEF CoreBut
<1>3. Hid(x, r, W)
  BY <1>1, <1>2, HideWindowsHides
<1>4. /\ \A v : v \in r.viewable <=> v \in x.viewable \ {w}
      /\ r.managed = x.managed /\ r.minimized = x.minimized
      /\ r.current = x.current /\ r.active = x.active /\ r.timers = x.timers /\ r.failed = x.failed
      /\ Order(r.events, r.focus) /\ Grown(x.events, r.events)
      /\ x.focus = w => r.focus = PointerRoot /\ Contains(r.events, RootFocusIn)
      /\ x.focus # w => r.focus = x.focus /\ r.events = x.events
  BY <1>1, <1>3 DEF Hid
<1>5. x.viewable \subseteq Windows /\ PointerRoot \notin Windows /\ NullFocus # PointerRoot
  BY WindowsAssumption DEF Typed, State
<1>6. Visible(r)
  <2>1. \A v \in x.viewable \ {w} : IsShown(x, v) /\ IsOnDesktop(x, v) /\ ~Contains(x.events, Gone(v))
    BY DEF CoreBut
  <2>2. \A v : (IsShown(x, v) <=> IsShown(r, v)) /\ (IsOnDesktop(x, v) <=> IsOnDesktop(r, v))
    BY <1>4 DEF IsShown, IsOnDesktop
  <2> QED
    BY <1>4, <1>5, <2>1, <2>2 DEF Visible, Grown
<1>7. Held(r)
  BY <1>4, <1>5 DEF Held, CoreBut, Ready
<1>8. ActiveShown(r)
  BY <1>4 DEF ActiveShown, CoreBut, IsShown, IsOnDesktop
<1>9. Unmanaged(r)
  BY <1>4 DEF Unmanaged, CoreBut, Grown
<1>10. Owner(r) /\ Nobody(r) /\ Somebody(r)
  BY <1>4, <1>5 DEF Owner, Nobody, Somebody, Quiet
<1> QED
  BY <1>4, <1>6, <1>7, <1>8, <1>9, <1>10 DEF Good, Core

\* ... after the next one was activated.
LEMMA MinimizeGood ==
    ASSUME Accepts = Windows, NEW s, Typed(s), Good(s), NEW w \in s.managed,
           NEW x \in ActivateNextWindow([s EXCEPT !.minimized = @ \union {w}], w),
           NEW r \in HideWindows(x, {w}, FALSE)
    PROVE  Good(r)
<1> DEFINE t == [s EXCEPT !.minimized = @ \union {w}]
<1>1. w \in Windows /\ w \in Windows \union {None} /\ w # None
  BY WindowsAssumption DEF Typed, State
<1>2. /\ Typed(t) /\ t.minimized = s.minimized \union {w} /\ t.focus = s.focus /\ t.events = s.events
      /\ t.viewable = s.viewable /\ t.managed = s.managed /\ t.current = s.current
      /\ t.active = s.active /\ t.timers = s.timers /\ t.failed = s.failed
      /\ x \in ActivateNextWindow(t, w)
  BY <1>1 DEF Typed, State
<1> HIDE DEF t
<1>3. CoreBut(t, w)
  BY <1>2, CoreReady
     DEF CoreBut, Good, Core, Ready, Visible, Held, ActiveShown, Unmanaged, IsShown, IsOnDesktop
<1>4. Owner(t) /\ Nobody(t) /\ Somebody(t)
  BY <1>2 DEF Good, Owner, Nobody, Somebody, Quiet
<1>5. /\ CoreBut(x, w) /\ x.active # w /\ Owner(x)
      /\ x.focus = w \/ (Nobody(x) /\ Somebody(x))
  BY <1>1, <1>2, <1>3, <1>4, ActivateNextWindowGood
<1>6. Typed(x)
  BY <1>1, <1>2, ActivateNextWindowTyped
<1> QED
  BY <1>1, <1>5, <1>6, UnmappedGood
-----------------------------------------------------------------------------
(* The events.  The first one of the queue is handled.                       *)

LEMMA NowIs ==
    /\ Now.focus = focus /\ Now.events = events /\ Now.viewable = viewable /\ Now.managed = managed
    /\ Now.minimized = minimized /\ Now.current = current /\ Now.active = active /\ Now.last = last
    /\ Now.timers = timers /\ Now.failed = failed /\ Now.requested = requested
BY DEF Now

\* What is left when the first event, e, is taken.
LEMMA RestIs ==
    ASSUME TypeOK, events # <<>>, Good(Now), NEW e, e = Head(events)
    PROVE  /\ Typed(Rest) /\ e \in Events /\ Core(Rest) /\ Rest.events = Tail(events)
           /\ Rest.focus = focus /\ Rest.viewable = viewable /\ Rest.managed = managed
           /\ Rest.minimized = minimized /\ Rest.current = current /\ Rest.active = active
           /\ Rest.last = last /\ Rest.timers = timers /\ Rest.failed = failed /\ Rest.requested = requested
           /\ \A x : Contains(events, x) <=> Contains(Rest.events, x) \/ x = e
           /\ \A w \in Windows : /\ e = FocusIn(w) /\ w # focus => Contains(Rest.events, FocusOut(w))
                                 /\ focus \in Windows =>
                                      (e = FocusOut(focus) \/ (e = FocusIn(w) /\ w # focus)
                                          => Contains(Rest.events, FocusIn(focus)))
                                 /\ e = Mapped(w) => ~Contains(Rest.events, e)
           /\ e # RootFocusIn => Owner(Rest)
           /\ e # FocusOut(active) => Nobody(Rest)
           /\ e # FocusIn(focus) => Somebody(Rest)
<1>1. Typed(Rest) /\ e \in Events
  BY RestTyped
<1>2. /\ Rest.focus = focus /\ Rest.viewable = viewable /\ Rest.managed = managed
      /\ Rest.minimized = minimized /\ Rest.current = current /\ Rest.active = active
      /\ Rest.last = last /\ Rest.timers = timers /\ Rest.failed = failed /\ Rest.requested = requested
      /\ Rest.events = Tail(events)
  BY DEF Rest, Now
<1>3. events \in Seq(Events)
  BY DEF TypeOK
<1>4. /\ \A x : Contains(events, x) <=> Contains(Tail(events), x) \/ x = e
      /\ \A x : Later(events, 1, x) <=> Contains(Tail(events), x)
      /\ 1 \in 1 .. Len(events) /\ events[1] = e
  BY <1>3, Tailed
<1>5. Order(events, focus) /\ Order(Tail(events), focus)
  BY <1>3, NowIs, OrderTail DEF Good, Core
<1>6. Core(Rest)
  <2>1. Visible(Rest)
    BY <1>2, <1>4, NowIs DEF Good, Core, Visible, IsShown, IsOnDesktop
  <2>2. Held(Rest) /\ ActiveShown(Rest)
    BY <1>2, NowIs DEF Good, Core, Held, ActiveShown, IsShown, IsOnDesktop
  <2>3. Unmanaged(Rest)
    BY <1>2, <1>4, NowIs DEF Good, Core, Unmanaged
  <2> QED
    BY <1>2, <1>5, <2>1, <2>2, <2>3 DEF Core
<1>7. ASSUME NEW w \in Windows
      PROVE  /\ e = FocusIn(w) /\ w # focus => Contains(Tail(events), FocusOut(w))
             /\ focus \in Windows =>
                  (e = FocusOut(focus) \/ (e = FocusIn(w) /\ w # focus)
                      => Contains(Tail(events), FocusIn(focus)))
             /\ e = Mapped(w) => ~Contains(Tail(events), e)
  BY <1>4, <1>5 DEF Order, OutFollows, InIsLast, MappedOnce
<1>8. e # RootFocusIn => Owner(Rest)
  BY <1>2, <1>4, NowIs DEF Good, Owner
<1>9. e # FocusOut(active) => Nobody(Rest)
  BY <1>2, <1>4, NowIs DEF Good, Nobody
<1>10. e # FocusIn(focus) => Somebody(Rest)
  BY <1>2, <1>4, NowIs DEF Good, Somebody, Quiet
<1> QED
  BY <1>1, <1>2, <1>4, <1>6, <1>7, <1>8, <1>9, <1>10

\* An event of a window that Workspace does not know.
LEMMA IgnoredGood ==
    ASSUME TypeOK, events # <<>>, Good(Now), NEW w \in Windows \ managed,
           Head(events) \in {FocusIn(w), FocusOut(w), Gone(w)}
    PROVE  Good(Rest)
<1>1. focus # w /\ active # w
  BY NowIs, WindowsAssumption, CoreReady DEF Good, Core, Held, Ready, ActiveShown, IsShown
<1>2. /\ Head(events) # RootFocusIn /\ Head(events) # FocusOut(active)
      /\ Head(events) # FocusIn(focus)
  BY <1>1, EventsDiffer
<1> QED
  BY <1>2, RestIs DEF Good

LEMMA FocusOutGood ==
    ASSUME TypeOK, events # <<>>, Good(Now), NEW w \in managed, Head(events) = FocusOut(w),
           NEW r \in FocusOutEvent(w)
    PROVE  Good(r)
<1> DEFINE e == Head(events)
<1>1. w \in Windows /\ e # RootFocusIn /\ e # FocusIn(focus)
  BY EventsDiffer DEF TypeOK
<1>2. /\ Typed(Rest) /\ Core(Rest) /\ Rest.focus = focus /\ Rest.active = active /\ Rest.timers = timers
      /\ w = focus => Contains(Rest.events, FocusIn(focus))
      /\ Owner(Rest) /\ Somebody(Rest) /\ (w # active => Nobody(Rest))
  BY <1>1, RestIs, EventsDiffer
<1>3. r = [Rest EXCEPT !.timers = @ \union {w}]
  BY DEF FocusOutEvent
<1>4. /\ r.timers = Rest.timers \union {w} /\ r.focus = Rest.focus /\ r.events = Rest.events
      /\ r.viewable = Rest.viewable /\ r.managed = Rest.managed /\ r.minimized = Rest.minimized
      /\ r.current = Rest.current /\ r.active = Rest.active /\ r.failed = Rest.failed
  BY <1>2, <1>3 DEF Typed, State
<1>5. Core(r)
  BY <1>2, <1>4 DEF Core, Visible, Held, ActiveShown, Unmanaged, IsShown, IsOnDesktop
<1>6. Owner(r) /\ Nobody(r)
  BY <1>2, <1>4 DEF Owner, Nobody
<1>7. Somebody(r)
  BY <1>2, <1>4 DEF Somebody, Quiet
<1> QED
  BY <1>5, <1>6, <1>7 DEF Good

\* destroyWindow().
LEMMA DestroyWindowGood ==
    ASSUME Accepts = Windows, TypeOK, events # <<>>, Good(Now), NEW w \in managed,
           Head(events) = Gone(w), NEW x \in ActivateNextWindow(Rest, w)
    PROVE  Good(RemoveWindow(x, w))
<1> DEFINE r == RemoveWindow(x, w)
<1>1. w \in Windows /\ w \in Windows \union {None} /\ w # None
  BY WindowsAssumption DEF TypeOK
<1>2. Head(events) # RootFocusIn /\ Head(events) # FocusOut(active) /\ Head(events) # FocusIn(focus)
  BY EventsDiffer
<1>3. /\ Typed(Rest) /\ Core(Rest) /\ Owner(Rest) /\ Nobody(Rest) /\ Somebody(Rest)
      /\ Contains(events, Gone(w)) /\ Rest.focus = focus /\ Rest.viewable = viewable
  BY <1>2, RestIs
<1>4. w \notin viewable /\ w # focus
  BY <1>1, <1>3, NowIs DEF Good, Core, Visible, Held
<1>5. CoreBut(Rest, w)
  BY <1>3, CoreReady DEF Core, CoreBut, Visible, ActiveShown
<1>6. /\ CoreBut(x, w) /\ x.active # w /\ x.viewable = Rest.viewable /\ Owner(x)
      /\ x.focus = w \/ (Nobody(x) /\ Somebody(x))
  BY <1>1, <1>3, <1>5, ActivateNextWindowGood
<1>7. Typed(x)
  BY <1>1, <1>3, ActivateNextWindowTyped
<1>8. /\ r.managed = x.managed \ {w} /\ r.minimized = x.minimized \ {w} /\ r.timers = x.timers \ {w}
      /\ r.focus = x.focus /\ r.events = x.events /\ r.viewable = x.viewable
      /\ r.current = x.current /\ r.active = x.active /\ r.failed = x.failed
  BY <1>6, <1>7 DEF RemoveWindow, Typed, State
<1> HIDE DEF r
<1>9. x.focus # w /\ w \notin x.viewable /\ x.viewable \subseteq Windows
  BY <1>1, <1>3, <1>4, <1>6, <1>7 DEF CoreBut, Ready, Held, Typed, State
<1>10. Visible(r)
  BY <1>6, <1>8, <1>9 DEF Visible, CoreBut, IsShown, IsOnDesktop
<1>11. Held(r) /\ ActiveShown(r) /\ Unmanaged(r) /\ Order(r.events, r.focus)
  BY <1>6, <1>8 DEF Held, ActiveShown, Unmanaged, CoreBut, Ready, IsShown, IsOnDesktop
<1>12. Owner(r) /\ Nobody(r) /\ Somebody(r)
  BY <1>6, <1>8, <1>9 DEF Owner, Nobody, Somebody, Quiet
<1> QED
  BY <1>10, <1>11, <1>12 DEF Good, Core, r
\* manage().
LEMMA AddedGood ==
    ASSUME NEW s, Typed(s), Good(s), NEW w \in Windows \ s.managed, ~Contains(s.events, Mapped(w)),
           NEW u, u = [s EXCEPT !.managed = @ \union {w}], NEW r \in Shown(s, u, w)
    PROVE  Typed(r) /\ Good(r)
<1>1. Typed(u) /\ Joined(s, u, w)
  BY DEF Typed, State, Joined
<1>2. Core(s) /\ Owner(s) /\ Nobody(s) /\ Somebody(s)
  BY DEF Good
<1>3. Typed(r) /\ Core(r) /\ Owner(r) /\ Nobody(r) /\ Somebody(r)
  BY <1>1, <1>2, ShownGood
<1> QED
  BY <1>3 DEF Good

LEMMA ManageGood ==
    ASSUME Accepts = Windows, previews = "Never", TypeOK, events # <<>>, Good(Now), NEW w \in Windows,
           Head(events) = Mapped(w), NEW r \in Manage(w)
    PROVE  Good(r)
<1> DEFINE t == [Rest EXCEPT !.behind = FALSE]
           Added(s) == LET u == [s EXCEPT !.managed = @ \union {w}]
                       IN  IF IsOnDesktop(s, w) THEN ShowWindows(u, {w}) ELSE u
           there == IF IsOnDesktop(t, w) THEN {t} ELSE SwitchDesktop(t, Place[w], FALSE)
<1>1. Head(events) # RootFocusIn /\ Head(events) # FocusOut(active) /\ Head(events) # FocusIn(focus)
  BY EventsDiffer
<1>2. /\ Typed(Rest) /\ Core(Rest) /\ Owner(Rest) /\ Nobody(Rest) /\ Somebody(Rest)
      /\ Contains(events, Mapped(w)) /\ ~Contains(Rest.events, Mapped(w)) /\ Rest.managed = managed
  BY <1>1, RestIs
<1>3. w \notin managed
  BY <1>2, NowIs DEF Good, Core, Unmanaged
<1>4. Typed(t) /\ Alike(Rest, t)
  BY <1>2 DEF Typed, State, Alike
<1>5. Good(t) /\ t.events = Rest.events /\ t.managed = managed
  BY <1>2, <1>4, AlikeGood DEF Alike, Good
<1>6. r = Added(t) \/ \E s \in there : r = RequestFocus(Added(s), w)
  BY DEF Manage
<1> HIDE DEF t
<1>7. \A s : Added(s) \in Shown(s, [s EXCEPT !.managed = @ \union {w}], w)
  BY DEF Shown
<1>8. ASSUME NEW s, Typed(s), Good(s), s.managed = managed, ~Contains(s.events, Mapped(w))
      PROVE  Typed(Added(s)) /\ Good(Added(s))
  <2> DEFINE u == [s EXCEPT !.managed = @ \union {w}]
             a == Added(s)
  <2>1. a \in Shown(s, u, w)
    BY <1>7
  <2> HIDE DEF a
  <2>2. \A v, x : v = u /\ x \in Shown(s, v, w) => Typed(x) /\ Good(x)
    BY <1>3, <1>8, AddedGood
  <2> HIDE DEF u
  <2>3. Typed(a) /\ Good(a)
    BY <2>1, <2>2
  <2> QED
    BY <2>3 DEF a
<1>9. CASE r = Added(t)
  BY <1>2, <1>4, <1>5, <1>8, <1>9
<1>10. ASSUME NEW s \in there, r = RequestFocus(Added(s), w) PROVE Good(r)
  <2>1. Typed(s) /\ Good(s) /\ s.managed = managed /\ ~Contains(s.events, Mapped(w))
    <3>1. CASE IsOnDesktop(t, w)
      BY <1>2, <1>4, <1>5, <3>1
    <3>2. CASE ~IsOnDesktop(t, w)
      <4>1. s \in SwitchDesktop(t, Place[w], FALSE) /\ Place[w] \in Desktops
        BY <3>2, PlaceType
      <4>2. Typed(s) /\ Good(s) /\ s.managed = t.managed /\ Grown(t.events, s.events)
        BY <1>4, <1>5, <4>1, SwitchDesktopGood
      <4> QED
        BY <1>2, <1>5, <4>2 DEF Grown
    <3> QED
      BY <3>1, <3>2
  <2> DEFINE a == Added(s)
  <2>2. Typed(a) /\ Good(a) /\ r = RequestFocus(a, w)
    BY <1>8, <1>10, <2>1
  <2> HIDE DEF a, Added
  <2>3. Core(a) /\ Nobody(a) /\ Weak(a) /\ Somebody(a)
    BY <2>2 DEF Good, Weak, Somebody
  <2> QED
    BY <2>2, <2>3, RequestFocusGood
<1> QED
  BY <1>6, <1>9, <1>10

\* focusInEvent() of a window that is shown: it becomes active, or the window
\* that was active before, or was asked to be, gets the focus back.
LEMMA FocusInGood ==
    ASSUME Accepts = Windows, TypeOK, events # <<>>, Good(Now), NEW w \in managed,
           Head(events) = FocusIn(w), NEW r \in FocusInEvent(w)
    PROVE  Good(r)
<1>1. w \in Windows /\ Head(events) # RootFocusIn /\ Head(events) # FocusOut(active)
  BY EventsDiffer DEF TypeOK
<1>2. /\ Typed(Rest) /\ Core(Rest) /\ Owner(Rest) /\ Nobody(Rest)
      /\ Rest.focus = focus /\ Rest.active = active /\ Rest.timers = timers
      /\ Rest.requested = requested /\ Rest.last = last
      /\ Rest.managed = managed /\ Rest.minimized = minimized /\ Rest.current = current
      /\ w # focus => /\ Contains(Rest.events, FocusOut(w))
                      /\ focus \in Windows => Contains(Rest.events, FocusIn(focus))
  BY <1>1, RestIs
<1>3. CASE ~(IsShown(Now, w) /\ IsOnDesktop(Now, w))
  <2>1. w # focus
    BY <1>1, <1>3, NowIs DEF Good, Core, Visible, Held
  <2>2. Somebody(Rest)
    BY <2>1, RestIs, EventsDiffer
  <2> QED
    BY <1>2, <1>3, <2>2 DEF FocusInEvent, Good
<1>4. CASE IsShown(Now, w) /\ IsOnDesktop(Now, w)
  <2> DEFINE s == [Rest EXCEPT !.timers = {}]
             got == [s EXCEPT !.requested = GotFocusIn(@, w)]
             t == [got EXCEPT !.behind = FALSE]
             restored == RestoreFocus(got)
  <2>1. /\ r = SetActive(got, w)
           \/ /\ ~Contains(requested, w) /\ last \notin {None, w}
              /\ r = IF restored.ok THEN restored.state ELSE SetActive(restored.state, w)
    BY <1>4 DEF FocusInEvent, ActivateOrRestore
  <2>2. GotFocusIn(s.requested, w) \in Seq(Windows) /\ s.requested = requested
    BY <1>1, <1>2, GotFocusInType DEF Typed, State
  <2>3. /\ Typed(got) /\ got.timers = {} /\ got.requested = GotFocusIn(requested, w)
        /\ got.focus = Rest.focus /\ got.events = Rest.events /\ got.viewable = Rest.viewable
        /\ got.managed = Rest.managed /\ got.minimized = Rest.minimized /\ got.current = Rest.current
        /\ got.active = Rest.active /\ got.failed = Rest.failed /\ got.last = last
    BY <1>2, <2>2 DEF Typed, State
  <2> HIDE DEF got
  <2>4. Typed(t) /\ t.requested = got.requested /\ t.last = got.last /\ Alike(got, t)
    BY <2>3 DEF Typed, State, Alike
  <2>5. Core(got) /\ Owner(got)
    <3>1. Visible(got)
      BY <1>2, <2>3 DEF Core, Visible, IsShown, IsOnDesktop
    <3> QED
      BY <1>2, <2>3, <3>1 DEF Core, Held, ActiveShown, Unmanaged, Owner, IsShown, IsOnDesktop
  <2>6. IsShown(got, w) /\ IsOnDesktop(got, w)
    BY <1>2, <1>4, <2>3, NowIs DEF IsShown, IsOnDesktop
  <2>7. ASSUME NEW x, Typed(x), Same(got, x) PROVE Good(SetActive(x, w))
    <3> DEFINE a == SetActive(x, w)
    <3>1. Core(x) /\ Owner(x)
      BY <2>5, <2>7, SameGood
    <3>2. /\ a.active = w /\ a.focus = got.focus /\ a.events = got.events /\ a.viewable = got.viewable
          /\ a.managed = got.managed /\ a.minimized = got.minimized /\ a.current = got.current
          /\ a.timers = {} /\ a.failed = x.failed
          /\ x.focus = got.focus /\ x.events = got.events
      BY <2>3, <2>7 DEF SetActive, Same, Kept, Typed, State
    <3> HIDE DEF a
    <3>3. Core(a)
      <4>1. Visible(a)
        BY <2>5, <3>2 DEF Core, Visible, IsShown, IsOnDesktop
      <4> QED
        BY <2>5, <2>6, <3>2, <4>1 DEF Core, Held, ActiveShown, Unmanaged, IsShown, IsOnDesktop
    <3>4. Owner(a)
      BY <3>1, <3>2 DEF Owner
    <3>5. Nobody(a)
      BY <1>1, <1>2, <2>3, <3>2, WindowsAssumption DEF Nobody
    <3>6. Somebody(a)
      BY <1>1, <1>2, <2>3, <3>2 DEF Somebody, Quiet
    <3>7. Good(a)
      BY <3>3, <3>4, <3>5, <3>6 DEF Good
    <3> QED
      BY <3>7 DEF a
  <2>8. CASE r = SetActive(got, w)
    <3>1. Same(got, got)
      BY DEF Same, Kept
    <3> QED
      BY <2>3, <2>7, <2>8, <3>1
  <2>9. CASE /\ ~Contains(requested, w) /\ last \notin {None, w}
             /\ r = IF restored.ok THEN restored.state ELSE SetActive(restored.state, w)
    <3>1. GotFocusIn(requested, w) = requested
      BY <2>9 DEF GotFocusIn
    <3> DEFINE v == IF t.requested # <<>> THEN Last(t.requested) ELSE t.last
    <3>2. v \in Windows /\ v # w
      <4>1. requested \in Seq(Windows) /\ last \in Windows \union {None}
        BY DEF TypeOK
      <4>2. requested # <<>> => Last(requested) \in Windows /\ Contains(requested, Last(requested))
        BY <4>1 DEF Last, Contains
      <4> QED
        BY <2>3, <2>4, <2>9, <3>1, <4>1, <4>2
    <3>3. restored = [ok |-> v = None \/ CanFocus(t, v),
                      state |-> IF v = None THEN t ELSE RequestFocus(t, v)]
      <4>1. t.requested = got.requested /\ t.last = got.last
        BY <2>4
      <4> QED
        BY <4>1 DEF RestoreFocus
    <3> HIDE DEF v, t
    <3>4. restored.ok = (v = None \/ CanFocus(t, v)) /\ restored.state = RequestFocus(t, v)
      BY <3>2, <3>3, WindowsAssumption
    <3>5. Core(t) /\ Owner(t) /\ Same(got, t)
      BY <2>4, <2>5, AlikeGood DEF Alike, Same, Kept
    <3> HIDE DEF restored
    <3>6. CASE CanFocus(t, v)
      <4>1. MovedTo(t, r, v) /\ v \in t.viewable
        BY <2>4, <2>9, <3>2, <3>4, <3>5, <3>6, RequestFocusMoves, CoreReady DEF CanFocus
      <4>2. Core(r)
        BY <2>4, <3>5, <4>1, MovedCore
      <4>3. Owner(r) /\ Nobody(r)
        BY <3>2, <4>1, WindowsAssumption DEF Owner, Nobody, MovedTo
      <4>4. Somebody(r)
        BY <1>2, <2>3, <2>4, <3>2, <4>1 DEF Somebody, Quiet, MovedTo, Alike
      <4> QED
        BY <4>2, <4>3, <4>4 DEF Good
    <3>7. CASE ~CanFocus(t, v)
      <4>1. Same(t, restored.state) /\ Typed(restored.state)
        BY <2>4, <3>2, <3>4, <3>5, <3>7, RequestFocusMoves, RequestFocusTyped, CoreReady
      <4>2. Same(got, restored.state)
        BY <2>4, <4>1 DEF Same, Kept, Alike
      <4>3. r = SetActive(restored.state, w)
        BY <2>9, <3>2, <3>4, <3>7, WindowsAssumption
      <4> QED
        BY <2>7, <4>1, <4>2, <4>3
    <3> QED
      BY <3>6, <3>7
  <2> QED
    BY <2>1, <2>8, <2>9
<1> QED
  BY <1>3, <1>4
\* The focus is nobody's, and is given to the window that was asked or active
\* last, or to the next one.
LEMMA RootFocusInGood ==
    ASSUME Accepts = Windows, TypeOK, events # <<>>, Good(Now), Head(events) = RootFocusIn,
           NEW r \in RootFocusInEvent
    PROVE  Good(r)
<1> DEFINE s == [Rest EXCEPT !.behind = FALSE]
           w == MostRecentlyActivated(s)
<1>1. Head(events) # FocusOut(active) /\ Head(events) # FocusIn(focus)
  BY EventsDiffer
<1>2. /\ Typed(Rest) /\ Core(Rest) /\ Nobody(Rest) /\ Somebody(Rest)
      /\ Rest.focus = focus /\ Rest.active = active
  BY <1>1, RestIs
<1>3. Typed(s) /\ Alike(Rest, s) /\ s.behind = FALSE
  BY <1>2 DEF Typed, State, Alike
<1>4. \/ focus # PointerRoot /\ r = s
      \/ focus = PointerRoot /\ w # None /\ r = RequestFocus(s, w)
      \/ focus = PointerRoot /\ w = None /\ r \in ActivateNextWindow(s, None)
  BY DEF RootFocusInEvent
<1> HIDE DEF s
<1>5. Core(s) /\ Nobody(s) /\ Somebody(s) /\ s.focus = focus
  BY <1>2, <1>3, AlikeGood DEF Alike
<1>6. Weak(s)
  BY <1>5 DEF Somebody, Weak
<1>7. CASE focus # PointerRoot /\ r = s
  BY <1>5, <1>7 DEF Good, Owner
<1>8. CASE focus = PointerRoot /\ w # None /\ r = RequestFocus(s, w)
  <2>1. w \in Windows
    BY <1>3, <1>8, RecentTyped
  <2> HIDE DEF w
  <2> QED
    BY <1>3, <1>5, <1>6, <1>8, <2>1, RequestFocusGood
<1>9. CASE focus = PointerRoot /\ w = None /\ r \in ActivateNextWindow(s, None)
  <2>1. s.active = None
    <3>1. s.requested # <<>> => Last(s.requested) \in Windows
      BY <1>3, LastType DEF Typed, State
    <3> QED
      BY <1>9, <3>1, WindowsAssumption DEF MostRecentlyActivated
  <2>2. CoreBut(s, None)
    BY <1>5, CoreReady DEF Core, CoreBut, Visible, ActiveShown
  <2>3. None \in Windows \union {None} /\ None \notin Windows
    BY WindowsAssumption
  <2>4. CoreBut(r, None) /\ Owner(r) /\ Nobody(r) /\ Somebody(r)
    BY <1>3, <1>5, <1>9, <2>1, <2>2, <2>3, ActivateNextWindowGood
  <2>5. Typed(r)
    BY <1>3, <1>9, <2>3, ActivateNextWindowTyped
  <2>6. r.viewable \subseteq Windows
    BY <2>5 DEF Typed, State
  <2>7. Core(r)
    BY <2>3, <2>4, <2>6 DEF CoreBut, Core, Ready, Visible, ActiveShown
  <2> QED
    BY <2>4, <2>7 DEF Good
<1> QED
  BY <1>4, <1>7, <1>8, <1>9

LEMMA HandleGood ==
    ASSUME Accepts = Windows, previews = "Never", TypeOK, events # <<>>, Good(Now),
           NEW r \in Handle(Head(events))
    PROVE  Good(r)
<1> DEFINE e == Head(events)
<1>1. e \in Events
  BY RestTyped
<1>2. CASE e.type = "RootFocusIn"
  <2>1. e = RootFocusIn
    BY <1>1, <1>2 DEF Events, EventTypes, RootFocusIn
  <2>2. r \in RootFocusInEvent
    BY <1>2 DEF Handle
  <2> QED
    BY <2>1, <2>2, RootFocusInGood
<1>3. CASE e.type # "RootFocusIn"
  <2> DEFINE w == e.window
  <2>1. w \in Windows /\ e.type \in EventTypes /\ e = Event(e.type, w)
    BY <1>1, <1>3 DEF Events, EventTypes, Event
  <2>2. CASE e.type = "MapRequest"
    BY <1>3, <2>1, <2>2, ManageGood DEF Handle, Mapped
  <2>3. CASE e.type # "MapRequest" /\ w \notin managed
    <3>1. r = Rest
      BY <1>3, <2>3 DEF Handle
    <3>2. e \in {FocusIn(w), FocusOut(w), Gone(w)}
      BY <2>1, <2>3 DEF EventTypes, FocusIn, FocusOut, Gone
    <3> QED
      BY <2>1, <2>3, <3>1, <3>2, IgnoredGood
  <2>4. CASE e.type = "FocusIn" /\ w \in managed
    BY <2>1, <2>4, FocusInGood DEF Handle, FocusIn
  <2>5. CASE e.type = "FocusOut" /\ w \in managed
    BY <2>1, <2>5, FocusOutGood DEF Handle, FocusOut
  <2>6. CASE e.type = "Destroyed" /\ w \in managed
    <3>1. r \in DestroyWindow(w) /\ e = Gone(w)
      BY <2>1, <2>6 DEF Handle, Gone
    <3>2. PICK x \in ActivateNextWindow(Rest, w) : r = RemoveWindow(x, w)
      BY <3>1 DEF DestroyWindow
    <3> QED
      BY <2>6, <3>1, <3>2, DestroyWindowGood
  <2> QED
    BY <1>3, <2>1, <2>2, <2>3, <2>4, <2>5, <2>6 DEF EventTypes
<1> QED
  BY <1>2, <1>3

\* The timer of a window that lost the focus: it is active no more.
LEMMA FocusOutTimeoutGood ==
    ASSUME TypeOK, Good(Now), NEW w \in timers
    PROVE  Good([SetInactive(Now, w) EXCEPT !.timers = @ \ {w}])
<1> DEFINE n == Now
           r == [SetInactive(n, w) EXCEPT !.timers = @ \ {w}]
<1>1. Typed(n) /\ Good(n) /\ w \in n.timers /\ w \in Windows
  BY NowTyped DEF Now, TypeOK
<1> HIDE DEF n
<1>2. /\ r.timers = n.timers \ {w} /\ r.active = (IF n.active = w THEN None ELSE n.active)
      /\ r.focus = n.focus /\ r.events = n.events /\ r.viewable = n.viewable /\ r.managed = n.managed
      /\ r.minimized = n.minimized /\ r.current = n.current /\ r.failed = n.failed
  BY <1>1 DEF SetInactive, Typed, State
<1> HIDE DEF r
<1>3. w # None
  BY <1>1, WindowsAssumption
<1>4. Core(r)
  BY <1>1, <1>2 DEF Good, Core, Visible, Held, ActiveShown, Unmanaged, IsShown, IsOnDesktop
<1>5. Owner(r) /\ Nobody(r)
  BY <1>1, <1>2 DEF Good, Owner, Nobody
<1>6. Somebody(r)
  BY <1>1, <1>2, <1>3 DEF Good, Somebody, Quiet
<1>7. Good(r)
  BY <1>4, <1>5, <1>6 DEF Good
<1> QED
  BY <1>7 DEF r, n
-----------------------------------------------------------------------------
(* The clients. *)

LEMMA ClientDestroysGood ==
    ASSUME TypeOK, Good(Now), NEW w \in managed,
           NEW s, s = [Now EXCEPT !.events = Append(@, Event("Destroyed", w)), !.viewable = @ \ {w},
                                  !.asked = @ \ {w}, !.overtaken = @ \ {w}]
    PROVE  Good(IF focus = w THEN MoveFocus(s, PointerRoot) ELSE s)
<1> DEFINE n == Now
           q == Append(events, Gone(w))
           r == IF focus = w THEN MoveFocus(s, PointerRoot) ELSE s
<1>1. Typed(n) /\ Good(n) /\ n.events = events /\ n.focus = focus /\ w \in n.managed
  BY NowTyped, NowIs
<1>2. s = [n EXCEPT !.events = q, !.viewable = @ \ {w}, !.asked = @ \ {w}, !.overtaken = @ \ {w}]
  BY <1>1 DEF Gone
<1>3. w \in Windows /\ n.viewable \subseteq n.managed /\ n.managed \subseteq Windows
      /\ PointerRoot \notin Windows /\ NullFocus # PointerRoot
  BY <1>1, CoreReady, WindowsAssumption DEF Good, Ready, Typed, State
<1>4. /\ q \in Seq(Events) /\ events \in Seq(Events)
      /\ \A x : Contains(q, x) <=> Contains(events, x) \/ x = Gone(w)
      /\ Order(q, focus)
  <2>1. events \in Seq(Events) /\ Order(events, focus) /\ Gone(w) \in Events
    BY <1>1, <1>3, EventsDiffer DEF Good, Core, Typed, State
  <2>2. \A x \in Windows : Gone(w) # FocusIn(x) /\ Gone(w) # FocusOut(x) /\ Gone(w) # Mapped(x)
    BY EventsDiffer
  <2> QED
    BY <2>1, <2>2, Appended, OrderOther
<1> HIDE DEF n, q
<1>5. /\ s.events = q /\ s.viewable = n.viewable \ {w} /\ s.focus = focus
      /\ s.managed = n.managed /\ s.minimized = n.minimized /\ s.current = n.current
      /\ s.active = n.active /\ s.timers = n.timers /\ s.failed = n.failed /\ Typed(s)
  <2> DEFINE x == [n EXCEPT !.events = q, !.viewable = @ \ {w}, !.asked = @ \ {w}, !.overtaken = @ \ {w}]
  <2>1. /\ x.events = q /\ x.viewable = n.viewable \ {w} /\ x.focus = focus
        /\ x.managed = n.managed /\ x.minimized = n.minimized /\ x.current = n.current
        /\ x.active = n.active /\ x.timers = n.timers /\ x.failed = n.failed
    BY <1>1 DEF Typed, State
  <2>2. Typed(x)
    BY <1>1, <1>4 DEF Typed, State
  <2> HIDE DEF x
  <2>3. s = x
    BY <1>2 DEF x
  <2> QED
    BY <2>1, <2>2, <2>3
<1>6. s.focus \in Windows => s.focus \in s.managed
  BY <1>1, <1>3, <1>5 DEF Good, Core, Held
<1>7. MovedTo(s, MoveFocus(s, PointerRoot), PointerRoot)
  BY <1>4, <1>5, <1>6, MoveFocusMoves
<1>8. /\ Kept(s, r) /\ r.failed = s.failed /\ Order(r.events, r.focus) /\ Grown(s.events, r.events)
      /\ focus = w => r.focus = PointerRoot /\ Contains(r.events, RootFocusIn)
      /\ focus # w => r.focus = focus /\ r.events = q
  BY <1>3, <1>4, <1>5, <1>7 DEF MovedTo, Kept, Grown
<1> HIDE DEF r
<1>9. Visible(r)
  <2>1. \A v \in n.viewable : IsShown(n, v) /\ IsOnDesktop(n, v) /\ ~Contains(events, Gone(v))
    BY <1>1 DEF Good, Core, Visible
  <2>2. \A v : (IsShown(r, v) <=> IsShown(n, v)) /\ (IsOnDesktop(r, v) <=> IsOnDesktop(n, v))
    BY <1>5, <1>8 DEF Kept, IsShown, IsOnDesktop
  <2>3. \A v \in Windows : Contains(r.events, Gone(v)) => Contains(events, Gone(v)) \/ v = w
    BY <1>4, <1>5, <1>8, EventsDiffer DEF Grown
  <2>4. r.viewable = n.viewable \ {w} /\ n.viewable \subseteq Windows
    BY <1>3, <1>5, <1>8 DEF Kept
  <2> QED
    BY <2>1, <2>2, <2>3, <2>4 DEF Visible
<1>10. Held(r) /\ ActiveShown(r)
  BY <1>1, <1>3, <1>5, <1>8 DEF Good, Core, Held, ActiveShown, Kept, IsShown, IsOnDesktop
<1>11. Unmanaged(r)
  BY <1>1, <1>4, <1>5, <1>8, EventsDiffer DEF Good, Core, Unmanaged, Kept, Grown
<1>12. Owner(r) /\ Nobody(r)
  BY <1>1, <1>3, <1>4, <1>5, <1>8 DEF Good, Owner, Nobody, Kept
<1>13. Somebody(r)
  BY <1>1, <1>3, <1>4, <1>5, <1>8 DEF Good, Somebody, Quiet, Kept
<1>14. Good(r)
  BY <1>8, <1>9, <1>10, <1>11, <1>12, <1>13 DEF Good, Core
<1> QED
  BY <1>14 DEF r

LEMMA ClientSetsFocusGood ==
    ASSUME TypeOK, Good(Now), NEW to \in viewable \union {PointerRoot}, to # focus
    PROVE  Good(SetInputFocus(Now, to))
<1> DEFINE n == Now
           m == MoveFocus(n, to)
           r == [m EXCEPT !.behind = TRUE, !.overtaken = n.asked]
<1>1. Typed(n) /\ Good(n) /\ n.focus = focus /\ n.viewable = viewable
  BY NowTyped, NowIs
<1>2. r = SetInputFocus(Now, to)
  BY DEF SetInputFocus
<1> HIDE DEF n
<1>3. viewable \subseteq n.managed /\ viewable \subseteq Windows
      /\ NullFocus \notin Windows /\ NullFocus # PointerRoot
  BY <1>1, CoreReady, WindowsAssumption DEF Good, Ready, Typed, State
<1>4. MovedTo(n, m, to) /\ Typed(m)
  BY <1>1, <1>3, MoveFocusMoves, MoveFocusTyped DEF Good, Core, Held
<1>5. Good(m)
  BY <1>1, <1>3, <1>4, MovedGood DEF Good
<1> HIDE DEF m
<1>6. Alike(m, r)
  BY <1>4 DEF Alike, Typed, State
<1> HIDE DEF r
<1>7. Good(r)
  BY <1>5, <1>6, AlikeGood
<1> QED
  BY <1>2, <1>7

LEMMA ClientTakesFocusGood ==
    ASSUME TypeOK, Good(Now), NEW w \in Windows,
           NEW t, t = [Now EXCEPT !.asked = @ \ {w}, !.overtaken = @ \ {w}],
           NEW r, r = t \/ (w \in viewable /\ r = [MoveFocus(t, w) EXCEPT !.overtaken = t.asked])
    PROVE  Good(r)
<1> DEFINE n == Now
           m == MoveFocus(t, w)
<1>1. Typed(n) /\ Good(n) /\ n.viewable = viewable
  BY NowTyped, NowIs
<1>2. t = [n EXCEPT !.asked = @ \ {w}, !.overtaken = @ \ {w}]
  OBVIOUS
<1> HIDE DEF n
<1>3. Typed(t) /\ Alike(n, t)
  <2> DEFINE a == n.asked \ {w}
             o == n.overtaken \ {w}
  <2>1. n \in State /\ n.minimized \subseteq n.managed /\ a \in SUBSET Windows /\ o \subseteq a
    BY <1>1 DEF Typed, State
  <2>2. t = [n EXCEPT !.asked = a, !.overtaken = o]
    BY <1>2
  <2> HIDE DEF a, o
  <2>3. o \in SUBSET Windows
    BY <2>1
  <2>4. t \in State
    BY <2>1, <2>2, <2>3 DEF State
  <2>5. t.asked = a /\ t.overtaken = o /\ t.minimized = n.minimized /\ t.managed = n.managed
    BY <2>1, <2>2 DEF State
  <2>6. Alike(n, t)
    BY <2>1, <2>2 DEF State, Alike
  <2> QED
    BY <2>1, <2>4, <2>5, <2>6 DEF Typed
<1>4. Good(t)
  BY <1>1, <1>3, AlikeGood
<1>5. ASSUME w \in viewable, r = [m EXCEPT !.overtaken = t.asked] PROVE Good(r)
  <2>1. w \in t.managed /\ w \in t.viewable /\ (t.focus \in Windows => t.focus \in t.managed)
    BY <1>1, <1>3, <1>4, <1>5, CoreReady DEF Good, Ready, Alike, Held
  <2>2. MovedTo(t, m, w) /\ Typed(m)
    BY <1>3, <1>4, <2>1, MoveFocusMoves, MoveFocusTyped DEF Good, Core
  <2>3. w # NullFocus
    BY WindowsAssumption
  <2>4. Good(m)
    BY <1>3, <1>4, <2>1, <2>2, <2>3, MovedGood DEF Good
  <2> HIDE DEF m
  <2>5. Alike(m, r)
    BY <1>5, <2>2 DEF Alike, Typed, State
  <2> QED
    BY <2>4, <2>5, AlikeGood
<1> QED
  BY <1>4, <1>5

-----------------------------------------------------------------------------
(* The invariant, of a Workspace that unmaps the windows it hides. *)

Inv == TypeOK /\ (previews = "Never" => Good(Now))

LEMMA InitGood == ASSUME Accepts = Windows, Init, previews = "Never" PROVE Good(Now)
<1> DEFINE here == {w \in managed : Place[w] \in {All, current}}
<1>1. /\ managed \subseteq Windows /\ viewable = here /\ minimized = {}
      /\ active = None /\ timers = {}
  BY DEF Init
<1>2. \/ focus = NullFocus /\ events = <<>>
      \/ \E w \in here : focus = w /\ events = <<FocusIn(w)>>
  BY <1>1 DEF Init, FocusIn
<1>3. ASSUME focus = NullFocus, events = <<>> PROVE Good(Now)
  <2>1. Len(events) = 0 /\ \A e : ~Contains(events, e)
    BY <1>3 DEF Contains
  <2>2. Order(events, focus)
    BY <2>1 DEF Order, OutFollows, InIsLast, MappedOnce
  <2> QED
    BY <1>1, <1>3, <2>1, <2>2, NowIs, WindowsAssumption
       DEF Good, Core, Visible, Held, ActiveShown, Unmanaged, Owner, Nobody, Somebody, Quiet, IsShown, IsOnDesktop
<1>4. ASSUME NEW w \in here, focus = w, events = <<FocusIn(w)>> PROVE Good(Now)
  <2>1. w \in Windows /\ w # NullFocus /\ w # PointerRoot
    BY <1>1, WindowsAssumption
  <2>2. Len(events) = 1 /\ events[1] = FocusIn(w)
    BY <1>4
  <2>3. \A e : Contains(events, e) <=> e = FocusIn(w)
    BY <2>2 DEF Contains
  <2>4. \A i \in 1 .. Len(events) : i = 1
    BY <2>2
  <2>5. Order(events, focus)
    BY <1>4, <2>1, <2>2, <2>4, EventsDiffer DEF Order, OutFollows, InIsLast, MappedOnce
  <2> HIDE DEF here
  <2>6. Visible(Now)
    BY <1>1, <2>3, NowIs, EventsDiffer DEF Visible, IsShown, IsOnDesktop, here
  <2>7. Held(Now) /\ ActiveShown(Now)
    BY <1>1, <1>4, NowIs DEF Held, ActiveShown
  <2>8. Unmanaged(Now)
    BY <2>3, NowIs, EventsDiffer DEF Unmanaged
  <2>9. Owner(Now) /\ Nobody(Now) /\ Somebody(Now)
    BY <1>4, <2>1, <2>3, NowIs DEF Owner, Nobody, Somebody, Quiet
  <2> QED
    BY <2>5, <2>6, <2>7, <2>8, <2>9, NowIs DEF Good, Core
<1> QED
  BY <1>2, <1>3, <1>4

LEMMA TimedGood == ASSUME TypeOK, Good(Now), NEW s \in Timed PROVE Typed(s) /\ Good(s) /\ s.managed = managed
<1> DEFINE n == Now
<1>1. Typed(n) /\ Good(n)
  BY NowTyped
<1>2. PICK b : s = [n EXCEPT !.behind = b]
  BY DEF Timed
<1> HIDE DEF n
<1>3. Alike(n, s)
  BY <1>1, <1>2 DEF Alike, Typed, State
<1> QED
  BY <1>1, <1>3, AlikeGood, TimedTyped

\* The next state is as good as the state that a handler has put together.
LEMMA BecomeGood ==
    ASSUME NEW states, Become(states), \A r \in states : Good(r)
    PROVE  Good(Now)'
<1>1. PICK s \in states :
        /\ focus' = s.focus /\ viewable' = s.viewable /\ events' = s.events
        /\ managed' = s.managed /\ minimized' = s.minimized /\ current' = s.current
        /\ active' = s.active /\ timers' = s.timers /\ failed' = s.failed
  BY DEF Become
<1>2. Good(s)
  OBVIOUS
<1> QED
  BY <1>1, <1>2 DEF Good, Core, Visible, Held, ActiveShown, Unmanaged, Owner, Nobody, Somebody, Quiet,
                    IsShown, IsOnDesktop, Now

LEMMA NextGood ==
    ASSUME Accepts = Windows, previews = "Never", TypeOK, Good(Now), [Next]_vars
    PROVE  Good(Now)'
<1>1. CASE UNCHANGED vars
  <2>1. Now' = Now
    BY <1>1 DEF Now, vars, serverVars, wmVars, focusVars
  <2> QED
    BY <1>1 DEF Good, Core, Visible, Held, ActiveShown, Unmanaged, Owner, Nobody, Somebody, Quiet,
                IsShown, IsOnDesktop, Now, vars, serverVars, wmVars, focusVars
<1>2. ASSUME NEW w \in Windows, ActivateWindow(w) PROVE Good(Now)'
  <2> DEFINE There(s) == IF IsOnDesktop(s, w) THEN {s} ELSE SwitchDesktop(s, Place[w], TRUE)
             states == UNION {{RequestFocus(Restore(t, w), w) : t \in There(s)} : s \in Timed}
  <2>1. w \in managed /\ Become(states)
    BY <1>2 DEF ActivateWindow
  <2>2. ASSUME NEW s \in Timed, NEW t \in There(s) PROVE Good(RequestFocus(Restore(t, w), w))
    BY <2>1, <2>2, TimedGood, ActivateWindowGood
  <2> HIDE DEF There
  <2>3. \A r \in states : Good(r)
    BY <2>2
  <2> HIDE DEF states
  <2> QED
    BY <2>1, <2>3, BecomeGood
<1>3. ASSUME NEW w \in Windows, Minimize(w) PROVE Good(Now)'
  <2> DEFINE Hidden(s) == [s EXCEPT !.minimized = @ \union {w}]
             next == UNION {ActivateNextWindow(Hidden(s), w) : s \in Timed}
             states == UNION {HideWindows(x, {w}, FALSE) : x \in next}
  <2>1. w \in managed /\ Become(states)
    BY <1>3 DEF Minimize
  <2>2. ASSUME NEW s \in Timed, NEW x \in ActivateNextWindow(Hidden(s), w), NEW r \in HideWindows(x, {w}, FALSE)
        PROVE  Good(r)
    BY <2>1, <2>2, TimedGood, MinimizeGood
  <2> HIDE DEF Hidden
  <2>3. \A r \in states : Good(r)
    BY <2>2
  <2> HIDE DEF states
  <2> QED
    BY <2>1, <2>3, BecomeGood
<1>4. ASSUME NEW d \in Desktops, SetCurrentDesktop(d) PROVE Good(Now)'
  <2> DEFINE states == UNION {SwitchDesktop(s, d, FALSE) : s \in Timed}
  <2>1. Become(states)
    BY <1>4 DEF SetCurrentDesktop
  <2>2. \A r \in states : Good(r)
    BY TimedGood, SwitchDesktopGood
  <2> HIDE DEF states
  <2> QED
    BY <2>1, <2>2, BecomeGood
<1>5. ASSUME NEW w \in Windows, ClientMaps(w) PROVE Good(Now)'
  <2>1. /\ events' = Append(events, Mapped(w)) /\ w \notin managed /\ ~Contains(events, Mapped(w))
        /\ UNCHANGED <<focus, viewable, managed, minimized, current, active, timers, failed>>
    BY <1>5 DEF ClientMaps, Mapped, wmVars, focusVars
  <2>2. events \in Seq(Events) /\ Mapped(w) \in Events
    BY EventsDiffer DEF TypeOK
  <2>3. \A x : Contains(events', x) <=> Contains(events, x) \/ x = Mapped(w)
    BY <2>1, <2>2, Appended
  <2>4. Order(events', focus)
    BY <2>1, <2>2, OrderOther, EventsDiffer, NowIs DEF Good, Core
  <2> DEFINE n == Now
             r == [n EXCEPT !.events = events']
  <2>5. /\ Good(n) /\ Typed(n) /\ n.focus = focus /\ n.events = events /\ n.viewable = viewable
        /\ n.managed = managed /\ n.minimized = minimized /\ n.current = current
        /\ n.active = active /\ n.timers = timers /\ n.failed = failed
    BY NowTyped, NowIs
  <2> HIDE DEF n
  <2>6. /\ r.events = events' /\ r.focus = n.focus /\ r.viewable = n.viewable
        /\ r.managed = n.managed /\ r.minimized = n.minimized /\ r.current = n.current
        /\ r.active = n.active /\ r.timers = n.timers /\ r.failed = n.failed
    BY <2>5 DEF Typed, State
  <2> HIDE DEF r
  <2>7. n.viewable \subseteq Windows
    BY <2>5 DEF Typed, State
  <2>8. Visible(r) /\ Held(r) /\ ActiveShown(r)
    BY <2>3, <2>5, <2>6, <2>7, EventsDiffer DEF Good, Core, Visible, Held, ActiveShown, IsShown, IsOnDesktop
  <2>9. Unmanaged(r)
    BY <2>1, <2>3, <2>5, <2>6, EventsDiffer DEF Good, Core, Unmanaged
  <2>10. Owner(r) /\ Nobody(r) /\ Somebody(r)
    BY <2>3, <2>5, <2>6, EventsDiffer DEF Good, Owner, Nobody, Somebody, Quiet
  <2>11. Good(r)
    BY <2>4, <2>5, <2>6, <2>8, <2>9, <2>10 DEF Good, Core
  <2> QED
    BY <2>1, <2>5, <2>6, <2>11
       DEF Good, Core, Visible, Held, ActiveShown, Unmanaged, Owner, Nobody, Somebody, Quiet,
           IsShown, IsOnDesktop, Now
<1>6. ASSUME NEW w \in Windows, ClientDestroys(w) PROVE Good(Now)'
  <2> DEFINE s == [Now EXCEPT !.events = Append(@, Event("Destroyed", w)), !.viewable = @ \ {w},
                              !.asked = @ \ {w}, !.overtaken = @ \ {w}]
             states == {IF focus = w THEN MoveFocus(s, PointerRoot) ELSE s}
  <2>1. w \in managed /\ Become(states)
    BY <1>6 DEF ClientDestroys
  <2>2. \A r \in states : Good(r)
    BY <2>1, ClientDestroysGood
  <2> HIDE DEF states
  <2> QED
    BY <2>1, <2>2, BecomeGood
<1>7. ASSUME NEW to \in Windows \union {PointerRoot}, ClientSetsFocus(to) PROVE Good(Now)'
  <2>1. to \in viewable \union {PointerRoot} /\ to # focus /\ Become({SetInputFocus(Now, to)})
    BY <1>7 DEF ClientSetsFocus
  <2>2. \A r \in {SetInputFocus(Now, to)} : Good(r)
    BY <2>1, ClientSetsFocusGood
  <2> QED
    BY <2>1, <2>2, BecomeGood
<1>8. ASSUME NEW w \in Windows, ClientTakesFocus(w) PROVE Good(Now)'
  <2> DEFINE t == [Now EXCEPT !.asked = @ \ {w}, !.overtaken = @ \ {w}]
             done == [MoveFocus(t, w) EXCEPT !.overtaken = t.asked]
             states == IF w \notin viewable THEN {t} ELSE IF w \in overtaken THEN {t, done} ELSE {done}
  <2>1. Become(states)
    BY <1>8 DEF ClientTakesFocus
  <2>2. \A r \in states : r = t \/ (w \in viewable /\ r = done)
    OBVIOUS
  <2>3. \A r \in states : Good(r)
    BY <2>2, ClientTakesFocusGood
  <2> HIDE DEF states
  <2> QED
    BY <2>1, <2>3, BecomeGood
<1>9. CASE HandleEvent
  <2>1. events # <<>> /\ Become(Handle(Head(events)))
    BY <1>9 DEF HandleEvent
  <2> QED
    BY <2>1, HandleGood, BecomeGood
<1>10. ASSUME NEW w \in Windows, FocusOutTimeout(w) PROVE Good(Now)'
  <2>1. w \in timers /\ Become({[SetInactive(Now, w) EXCEPT !.timers = @ \ {w}]})
    BY <1>10 DEF FocusOutTimeout
  <2>2. Good([SetInactive(Now, w) EXCEPT !.timers = @ \ {w}])
    BY <2>1, FocusOutTimeoutGood
  <2> QED
    BY <2>1, <2>2, BecomeGood
<1> QED
  BY <1>1, <1>2, <1>3, <1>4, <1>5, <1>6, <1>7, <1>8, <1>9, <1>10 DEF Next
LEMMA Invariance == ASSUME Accepts = Windows PROVE Spec => []Inv
<1>1. Init => Inv
  BY InitTyped, InitGood DEF Inv
<1>2. Inv /\ [Next]_vars => Inv'
  <2> SUFFICES ASSUME Inv, [Next]_vars PROVE Inv'
    OBVIOUS
  <2>1. TypeOK'
    BY NextTyped DEF Inv
  <2>2. previews' = previews
    BY DEF Next, ActivateWindow, Minimize, SetCurrentDesktop, ClientMaps, ClientDestroys, ClientSetsFocus,
           ClientTakesFocus, HandleEvent, FocusOutTimeout, Become, wmVars, vars
  <2>3. previews = "Never" => Good(Now)'
    BY NextGood DEF Inv
  <2> QED
    BY <2>1, <2>2, <2>3 DEF Inv
<1> QED
  BY <1>1, <1>2, PTL DEF Spec

\* The window that is shown as active gets the keys once all events are read,
\* when the windows that are hidden are unmapped and all have the input hint.
THEOREM ActiveGetsKeys == ASSUME Accepts = Windows PROVE Spec => []ActiveHasFocus
<1>1. Inv => ActiveHasFocus
  <2> SUFFICES ASSUME Inv, AtRest, previews = "Never", active # None
               PROVE  focus = active \/ (failed /\ focus = PointerRoot)
    BY DEF ActiveHasFocus
  <2>1. /\ Good(Now) /\ timers = {} /\ focus \in Windows \union {NullFocus, PointerRoot}
        /\ \A e : ~Contains(events, e)
    BY DEF Inv, AtRest, TypeOK, Contains
  <2>2. active \in Windows /\ None \notin Windows
    BY WindowsAssumption DEF Inv, TypeOK
  <2>3. CASE focus = NullFocus
    BY <2>1, <2>3, NowIs DEF Good, Nobody
  <2>4. CASE focus = PointerRoot
    BY <2>1, <2>4, NowIs DEF Good, Owner
  <2>5. CASE focus \in Windows
    BY <2>1, <2>2, <2>5, NowIs DEF Good, Somebody, Quiet
  <2> QED
    BY <2>1, <2>3, <2>4, <2>5
<1> QED
  BY <1>1, Invariance, PTL

\* And the window that gets the keys is shown as active, unless takeFocus() failed.
THEOREM KeysMakeActive == ASSUME Accepts = Windows PROVE Spec => []FocusedIsActive
<1>1. Inv => FocusedIsActive
  <2> SUFFICES ASSUME Inv, AtRest, ~failed, previews = "Never", focus \in UsableCandidates(Now, None)
               PROVE  active = focus
    BY DEF FocusedIsActive
  <2>1. Good(Now) /\ timers = {} /\ \A e : ~Contains(events, e)
    BY DEF Inv, AtRest, Contains
  <2>2. focus \in Windows
    BY NowIs DEF Inv, TypeOK, UsableCandidates
  <2> QED
    BY <2>1, <2>2, NowIs DEF Good, Somebody, Quiet
<1> QED
  BY <1>1, Invariance, PTL
=============================================================================
