------------------------------ MODULE X11Focus ------------------------------
(***************************************************************************)
(* Who has the keyboard: the input focus, which belongs to the X server    *)
(* and which any client may move, and the active window, which is what     *)
(* Workspace believes.                                                     *)
(*                                                                         *)
(* Workspace does not make a window the active one when it wants it to be. *)
(* It asks the server for the focus, or the client by WM_TAKE_FOCUS, notes *)
(* whom it asked (should_get_focus), and activates the window when its     *)
(* FocusIn is read.  In between, the user, the clients and the server go   *)
(* on: an event tells of a focus that may have moved on, and of a window   *)
(* that may be gone.                                                       *)
(*                                                                         *)
(* The focus policy is reasonable (click to focus, focus follows mouse)    *)
(* and without delay.  Windows stand alone, can be minimized, want input,  *)
(* are not shaded and not desktops; none is being moved.  The window to    *)
(* come next is any that the focus chain could offer: FocusChain says      *)
(* which.  Focus stealing prevention, below its extreme level, is left     *)
(* open where it depends on the level and on times of use.  A window has   *)
(* one WM_TAKE_FOCUS under way at most, the focus of one that vanishes     *)
(* goes to PointerRoot, and there are no grabs and no popups.              *)
(***************************************************************************)
EXTENDS Integers, Sequences, SequencesExt

CONSTANTS
    Windows,
    Accepts,     \* windows with the input hint: KWin sets the focus to them
    Asks,        \* windows with the WM_TAKE_FOCUS protocol: they are asked to set it
    Place,       \* Place[w]: the desktop of a window, or All
    Desktops,
    All,
    HiddenPreviews, \* values of Options::hiddenPreviews() while compositing: which hidden windows stay mapped
    None,        \* nullptr
    NullFocus,   \* Workspace::m_nullFocus
    PointerRoot, \* XCB_INPUT_FOCUS_POINTER_ROOT: where the focus goes when its window vanishes
    MaxSteps     \* bound: what the user and the clients do of their own

ASSUME WindowsAssumption ==
    /\ Accepts \union Asks = Windows
    /\ {None, NullFocus, PointerRoot} \cap Windows = {} /\ NullFocus # PointerRoot
    /\ \A w \in Windows : Place[w] \in Desktops \union {All}
    /\ HiddenPreviews \subseteq {"Never", "Shown", "Always"} /\ MaxSteps \in Nat

VARIABLES
    \* the X server
    focus,
    viewable,   \* windows that are mapped
    events,     \* for the window manager
    \* the clients
    asked,      \* windows with a WM_TAKE_FOCUS they have not answered
    overtaken,  \* those of them whose timestamp may be older than the last focus change
    \* Workspace
    previews,   \* Options::hiddenPreviews()
    managed,    \* m_windows
    minimized,
    current,    \* the current desktop
    active,     \* m_activeWindow
    last,       \* m_lastActiveWindow
    requested,  \* should_get_focus
    timers,     \* windows whose m_focusOutTimer runs
    behind,     \* xTime() may be older than the last focus change
    \* history
    failed,     \* takeFocus() has failed
    \* bound
    steps

serverVars == <<focus, viewable, events, asked, overtaken, behind>>
wmVars     == <<previews, managed, minimized, current>>
focusVars  == <<active, last, requested, timers, failed>>
vars == <<serverVars, wmVars, focusVars, steps>>

EventTypes == {"FocusIn", "FocusOut", "Destroyed", "MapRequest"}
Events == [type : EventTypes, window : Windows] \union [type : {"RootFocusIn"}]

Event(type, w) == [type |-> type, window |-> w]
RootFocusIn    == [type |-> "RootFocusIn"]

TypeOK ==
    /\ previews \in HiddenPreviews /\ focus \in Windows \union {NullFocus, PointerRoot}
    /\ viewable \subseteq Windows /\ managed \subseteq Windows /\ minimized \subseteq managed
    /\ events \in Seq(Events)
    /\ overtaken \subseteq asked /\ asked \subseteq Windows /\ timers \subseteq Windows
    /\ current \in Desktops
    /\ {active, last} \subseteq Windows \union {None}
    /\ requested \in Seq(Windows)
    /\ {behind, failed} \subseteq BOOLEAN /\ steps \in 0 .. MaxSteps

\* At the end of initializeX11(): the windows that were there are managed, and
\* one of them on the current desktop is activated.  Before that the focus was
\* put on the dummy window.
Init ==
    /\ previews \in HiddenPreviews /\ current \in Desktops
    /\ managed \in SUBSET Windows /\ minimized = {}
    /\ LET here == {w \in managed : Place[w] \in {All, current}}
       IN  /\ viewable = IF previews = "Never" THEN here ELSE managed
           /\ \/ /\ here = {} /\ focus = NullFocus
                 /\ events = <<>> /\ asked = {} /\ requested = <<>> /\ behind = FALSE
              \/ \E w \in here :
                    /\ focus = IF w \in Accepts THEN w ELSE NullFocus
                    /\ events = IF w \in Accepts THEN <<Event("FocusIn", w)>> ELSE <<>>
                    /\ asked = {w} \cap Asks /\ requested = <<w>>
                    /\ behind = (w \notin Asks)
    /\ overtaken = {} /\ active = None /\ last = None /\ timers = {}
    /\ failed = FALSE /\ steps = 0

-----------------------------------------------------------------------------
(* A handler is put together from functions of a state s, a record of what   *)
(* the server and Workspace know.  Where the outcome is open, as when the    *)
(* server may ignore a request, the value is a set of such states.           *)

Now ==
    [focus |-> focus, viewable |-> viewable, events |-> events, asked |-> asked,
     overtaken |-> overtaken, behind |-> behind, managed |-> managed, minimized |-> minimized,
     current |-> current, active |-> active, last |-> last, requested |-> requested,
     timers |-> timers, failed |-> failed]

Become(states) ==
    \E s \in states :
        /\ focus' = s.focus /\ viewable' = s.viewable /\ events' = s.events
        /\ asked' = s.asked /\ overtaken' = s.overtaken /\ behind' = s.behind
        /\ managed' = s.managed /\ minimized' = s.minimized /\ current' = s.current
        /\ active' = s.active /\ last' = s.last /\ requested' = s.requested
        /\ timers' = s.timers /\ failed' = s.failed /\ UNCHANGED previews

\* The server: the events of a focus that moves, which it sends for windows
\* that are managed.
MoveEvents(s, to) ==
    (IF s.focus \in s.managed THEN <<Event("FocusOut", s.focus)>> ELSE <<>>)
      \o (IF to \in s.managed THEN <<Event("FocusIn", to)>>
          ELSE IF to = PointerRoot THEN <<RootFocusIn>> ELSE <<>>)

MoveFocus(s, to) ==
    IF to = s.focus THEN s
    ELSE [s EXCEPT !.focus = to, !.events = @ \o MoveEvents(s, to)]

\* A SetInputFocus with the current time: the last focus change is now.
SetInputFocus(s, to) == [MoveFocus(s, to) EXCEPT !.behind = TRUE, !.overtaken = s.asked]

-----------------------------------------------------------------------------
(* Workspace. *)

IsShown(s, w) == w \in s.managed /\ w \notin s.minimized
IsOnDesktop(s, w) == Place[w] \in {All, s.current}

MostRecentlyActivated(s) == IF s.requested # <<>> THEN Last(s.requested) ELSE s.active

\* The dummy window is focused with xTime(), and the server ignores a time
\* that is older than that of the last focus change.
FocusToNull(s) ==
    LET t == [s EXCEPT !.requested = <<>>]
        done == [MoveFocus(t, NullFocus) EXCEPT !.overtaken = s.asked]
    IN  IF s.behind THEN {t, done} ELSE {done}

\* X11Window::takeFocus() and takeActivity(); CanFocus is what they return.
CanFocus(s, w) == IsShown(s, w) /\ (w \in Accepts => w \in s.viewable)

RequestFocus(s, w) ==
    IF ~CanFocus(s, w) THEN [s EXCEPT !.failed = TRUE]
    ELSE LET set == IF w \in Accepts THEN SetInputFocus(s, w) ELSE s
             told == IF w \notin Asks THEN set
                     ELSE [set EXCEPT !.behind = FALSE, !.asked = @ \union {w}, !.overtaken = @ \ {w}]
         IN  [told EXCEPT !.requested = Append(@, w)]

SetActive(s, w) == [s EXCEPT !.active = w, !.last = w]
SetInactive(s, w) == IF s.active = w THEN [s EXCEPT !.active = None] ELSE s

Without(queue, w) ==
    LET kept[i \in 0 .. Len(queue)] ==
            IF i = 0 THEN <<>>
            ELSE IF queue[i] = w THEN kept[i - 1] ELSE Append(kept[i - 1], queue[i])
    IN  kept[Len(queue)]

UsableCandidates(s, w) == {c \in s.managed \ {w} : IsShown(s, c) /\ IsOnDesktop(s, c)}

RequestOneOf(s, candidates) ==
    IF candidates = {} THEN FocusToNull(s) ELSE {RequestFocus(s, c) : c \in candidates}

ActivateNextWindow(s, w) ==
    IF w = s.active \/ (s.requested # <<>> /\ w = Last(s.requested))
      THEN LET t == IF w = None THEN s
                    ELSE [SetInactive(s, w) EXCEPT !.requested = Without(@, w)]
           IN  RequestOneOf(t, UsableCandidates(s, w))
      ELSE {s}

RemoveWindow(s, w) ==
    [s EXCEPT !.managed = @ \ {w}, !.minimized = @ \ {w},
              !.requested = Without(@, w), !.timers = @ \ {w},
              !.active = IF @ = w THEN None ELSE @, !.last = IF @ = w THEN None ELSE @]

GotFocusIn(queue, w) ==
    IF ~Contains(queue, w) THEN queue
    ELSE LET first == CHOOSE i \in DOMAIN queue : queue[i] = w /\ \A j \in 1 .. i - 1 : queue[j] # w
         IN  SubSeq(queue, first + 1, Len(queue))

\* The client has destroyed the window, and Workspace has not heard of it.
Closing(s, w) == Contains(s.events, Event("Destroyed", w))

\* updateVisibility() of some windows: those on the current desktop are mapped
\* and the others unmapped, or kept for their previews.

HideWindows(s, W, keep) ==
    IF keep THEN IF s.active \in W THEN FocusToNull(s) ELSE {s}
    ELSE LET t == [s EXCEPT !.viewable = @ \ W]
         IN  {IF s.focus \in W THEN MoveFocus(t, PointerRoot) ELSE t}

ShowWindows(s, W) == [s EXCEPT !.viewable = @ \union {w \in W : ~Closing(s, w)}]

\* The current desktop changes: the windows of the old one are hidden, those of
\* the new one shown, and the focus is given to one of them, unless it is
\* blocked because activateWindow() will do so itself.
SwitchDesktop(s, d, blocked) ==
    LET t == [s EXCEPT !.current = d]
        up == {w \in s.managed : IsShown(s, w)}
        Activate(u) ==
            LET candidates == {c \in up : IsOnDesktop(u, c)}
                Chosen(c) == IF c = u.active THEN RequestFocus(u, c)
                             ELSE IF blocked THEN [u EXCEPT !.active = None]
                             ELSE RequestFocus([u EXCEPT !.active = None], c)
            IN  IF candidates = {} THEN FocusToNull([u EXCEPT !.active = None])
                ELSE {Chosen(c) : c \in candidates}
        hidden == HideWindows(t, {w \in up : ~IsOnDesktop(t, w)}, previews # "Never")
        shown == {ShowWindows(u, {w \in up : IsOnDesktop(u, w)}) : u \in hidden}
    IN  UNION {Activate(u) : u \in shown}

-----------------------------------------------------------------------------
(* The user. *)

\* What the user does comes with a time, unless it comes through D-Bus.
Step == steps < MaxSteps /\ steps' = steps + 1
Timed == {[Now EXCEPT !.behind = b] : b \in {FALSE, behind}}

\* activateWindow(): the desktop is switched, the window shown and asked for.
Restore(s, w) == ShowWindows([s EXCEPT !.minimized = @ \ {w}], {w})

ActivateWindow(w) ==
    /\ Step /\ w \in managed
    /\ Become(UNION {LET there == IF IsOnDesktop(s, w) THEN {s} ELSE SwitchDesktop(s, Place[w], TRUE)
                     IN  {RequestFocus(Restore(t, w), w) : t \in there} : s \in Timed})

\* setMinimized(): the next window is activated before this one is hidden.
Minimize(w) ==
    /\ Step /\ w \in managed \ minimized
    /\ LET Hidden(s) == [s EXCEPT !.minimized = @ \union {w}]
           next == UNION {ActivateNextWindow(Hidden(s), w) : s \in Timed}
       IN  Become(UNION {HideWindows(s, {w}, previews = "Always") : s \in next})

SetCurrentDesktop(d) ==
    /\ Step /\ d # current
    /\ Become(UNION {SwitchDesktop(s, d, FALSE) : s \in Timed})

-----------------------------------------------------------------------------
(* The clients. *)

ClientMaps(w) ==
    /\ Step /\ w \notin managed /\ ~Contains(events, Event("MapRequest", w))
    /\ events' = Append(events, Event("MapRequest", w))
    /\ UNCHANGED <<focus, viewable, asked, overtaken, behind, wmVars, focusVars>>

\* The focus of a window that vanishes goes to PointerRoot.
ClientDestroys(w) ==
    /\ Step /\ w \in managed /\ ~Closing(Now, w)
    /\ LET s == [Now EXCEPT !.events = Append(@, Event("Destroyed", w)), !.viewable = @ \ {w},
                            !.asked = @ \ {w}, !.overtaken = @ \ {w}]
       IN  Become({IF focus = w THEN MoveFocus(s, PointerRoot) ELSE s})

\* A client sets the focus without being asked: to its window, or to PointerRoot.
ClientSetsFocus(to) ==
    /\ Step /\ to \in viewable \union {PointerRoot} /\ to # focus
    /\ Become({SetInputFocus(Now, to)})

\* It answers a WM_TAKE_FOCUS with the time of the message.
ClientTakesFocus(w) ==
    /\ w \in asked
    /\ LET t == [Now EXCEPT !.asked = @ \ {w}, !.overtaken = @ \ {w}]
           done == [MoveFocus(t, w) EXCEPT !.overtaken = t.asked]
       IN  Become(IF w \notin viewable THEN {t} ELSE IF w \in overtaken THEN {t, done} ELSE {done})
    /\ UNCHANGED steps

-----------------------------------------------------------------------------
(* The events, one after another, and the timers. *)

Rest == [Now EXCEPT !.events = Tail(events)]

\* manage(): a window that may be activated brings its desktop with it.  One
\* that asks not to get the focus, by a user time of 0, never may.
Manage(w) ==
    LET t == [Rest EXCEPT !.behind = FALSE]
        Added(s) == LET u == [s EXCEPT !.managed = @ \union {w}]
                    IN  IF IsOnDesktop(s, w) \/ previews # "Never" THEN ShowWindows(u, {w}) ELSE u
        there == IF IsOnDesktop(t, w) THEN {t} ELSE SwitchDesktop(t, Place[w], FALSE)
    IN  {RequestFocus(Added(s), w) : s \in there} \union {Added(t)}

RestoreFocus(s) ==
    LET t == [s EXCEPT !.behind = FALSE]
        w == IF s.requested # <<>> THEN Last(s.requested) ELSE s.last
    IN  [ok |-> w = None \/ CanFocus(t, w), state |-> IF w = None THEN t ELSE RequestFocus(t, w)]

\* Mutant: a window that may not be activated keeps the focus.
ActivateOrRestoreNever(s, w) ==
    LET got == [s EXCEPT !.requested = GotFocusIn(@, w)]
    IN  {SetActive(got, w)} \union (IF Contains(requested, w) \/ last \in {None, w} THEN {} ELSE {got})

\* Activated if it was asked for, or if it is allowed to be; otherwise the focus
\* is taken away from it again.  No event of a window comes before the end of
\* its manage(), which has replaced a user time of 0.  So a window is always
\* allowed if none was active before, or itself.
ActivateOrRestore(s, w) ==
    LET got == [s EXCEPT !.requested = GotFocusIn(@, w)]
        restored == RestoreFocus(got)
        refused == IF restored.ok THEN restored.state ELSE SetActive(restored.state, w)
    IN  {SetActive(got, w)}
          \union (IF Contains(requested, w) \/ last \in {None, w} THEN {} ELSE {refused})

\* Mutant: the timers run on.
FocusInEventStopsNone(w) ==
    IF IsShown(Now, w) /\ IsOnDesktop(Now, w) THEN ActivateOrRestore(Rest, w) ELSE {Rest}

\* A window that is hidden is not taken for the active one, and changes nothing.
FocusInEvent(w) ==
    IF IsShown(Now, w) /\ IsOnDesktop(Now, w)
      THEN ActivateOrRestore([Rest EXCEPT !.timers = {}], w)
      ELSE {Rest}

\* Mutant: only a window that is or becomes active is given the focus.
RootFocusInEventOnlyActive ==
    LET s == [Rest EXCEPT !.behind = FALSE]
        w == MostRecentlyActivated(s)
    IN  IF focus # PointerRoot \/ w = None THEN {s} ELSE {RequestFocus(s, w)}

RootFocusInEvent ==
    LET s == [Rest EXCEPT !.behind = FALSE]
        w == MostRecentlyActivated(s)
    IN  IF focus # PointerRoot THEN {s}
        ELSE IF w # None THEN {RequestFocus(s, w)}
        ELSE ActivateNextWindow(s, None)

FocusOutEvent(w) == {[Rest EXCEPT !.timers = @ \union {w}]}

\* unmapNotifyEvent(), before the DestroyNotify: destroyWindow().
DestroyWindow(w) == {RemoveWindow(s, w) : s \in ActivateNextWindow(Rest, w)}

Handle(e) ==
    IF e.type = "RootFocusIn" THEN RootFocusInEvent
    ELSE IF e.type = "MapRequest" THEN Manage(e.window)
    ELSE IF e.window \notin managed THEN {Rest}
    ELSE CASE e.type = "FocusIn"   -> FocusInEvent(e.window)
           [] e.type = "FocusOut"  -> FocusOutEvent(e.window)
           [] e.type = "Destroyed" -> DestroyWindow(e.window)

HandleEvent ==
    /\ events # <<>>
    /\ Become(Handle(Head(events)))
    /\ UNCHANGED steps

FocusOutTimeout(w) ==
    /\ w \in timers
    /\ Become({[SetInactive(Now, w) EXCEPT !.timers = @ \ {w}]})
    /\ UNCHANGED steps

Next ==
    \/ \E w \in Windows : \/ ActivateWindow(w) \/ Minimize(w)
                          \/ ClientMaps(w) \/ ClientDestroys(w) \/ ClientTakesFocus(w)
                          \/ FocusOutTimeout(w)
    \/ \E d \in Desktops : SetCurrentDesktop(d)
    \/ \E to \in Windows \union {PointerRoot} : ClientSetsFocus(to)
    \/ HandleEvent

Spec == Init /\ [][Next]_vars

\* Qt's event loop hands on every event that was read.
FairSpec == Spec /\ WF_vars(HandleEvent)

-----------------------------------------------------------------------------
(* Properties. *)

\* Nothing is under way between the server, the clients and Workspace.
AtRest == events = <<>> /\ asked = {} /\ timers = {}

\* The window that is shown as active is the one that gets the keys, whatever
\* the clients did to the focus and in whatever order it was heard of, when
\* hidden windows are unmapped; or else nobody gets them since takeFocus() failed.
ActiveHasFocus ==
    AtRest /\ previews = "Never" /\ active # None
      => focus = active \/ (failed /\ focus = PointerRoot)

\* And the other way round, when takeFocus() has not failed either: a window
\* with the focus is active, although FocusIn events are matched with requests
\* that are newer than they are, and a FocusOut only takes effect after a while.
FocusedIsActive ==
    AtRest /\ ~failed /\ previews = "Never" /\ focus \in UsableCandidates(Now, None)
      => active = focus

\* When the window with the focus vanishes, or a client lets go of it, the
\* keyboard is given to a window or to the dummy window.
KeyboardHasOwner == focus = PointerRoot ~> focus # PointerRoot \/ failed

(* What the code says of itself, and does not do. *)

\* "X focus set to None/PointerRoot, reseting focus" (events.cpp:291).
KeyboardReset == AtRest /\ UsableCandidates(Now, None) # {} => focus # PointerRoot

\* "we unmapped it, but it got focus meanwhile -> activateNextWindow() already
\* transferred focus elsewhere" (events.cpp:1170).
HiddenLosesFocus == AtRest /\ ~failed /\ focus \in Windows => focus \in UsableCandidates(Now, None)
=============================================================================
