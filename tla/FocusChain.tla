----------------------------- MODULE FocusChain -----------------------------
(***************************************************************************)
(* The lists of windows that decide which window is activated next: one    *)
(* chain per virtual desktop and one of the most recently used windows     *)
(* (FocusChain), together with the virtual desktops (VirtualDesktopManager) *)
(* and the slots of Workspace that connect the two.                        *)
(*                                                                         *)
(* The objects call each other through signals, within one event: adding   *)
(* or removing a desktop runs through all of them before it returns, so    *)
(* each public operation is one action.  What such an operation does to    *)
(* the chains is put together from the operators of FocusChain.            *)
(*                                                                         *)
(* Windows stand alone (no transients) and want to get focus by Tab, and   *)
(* the focus does not follow the mouse.  Which window is minimized, and    *)
(* with it which one a desktop offers for activation, is left open.        *)
(***************************************************************************)
EXTENDS Integers, Sequences, SequencesExt, FiniteSets

CONSTANTS
    Windows,
    DesktopIds,    \* identities of virtual desktops; one that is removed may be used again
    MaxDesktops,   \* VirtualDesktopManager::maximum()
    App,           \* App[w]: the application a window belongs to
    All,           \* the list of desktops of a window is empty: it is on all of them
    None,          \* nullptr
    Recent         \* the key of m_mostRecentlyUsed among the chains

ASSUME DesktopsAssumption == IsFiniteSet(DesktopIds) /\ MaxDesktops \in 1 .. Cardinality(DesktopIds)
ASSUME WindowsAssumption == IsFiniteSet(Windows)
ASSUME AppAssumption == Windows \subseteq DOMAIN App
ASSUME NamesAssumption ==
    /\ {All, None, Recent} \cap (DesktopIds \union Windows) = {}
    /\ All # None /\ All # Recent /\ None # Recent

VARIABLES
    \* VirtualDesktopManager
    desktops,       \* m_desktops
    current,        \* m_current
    \* Workspace and its windows
    managed,        \* m_windows
    closing,        \* deleted: closed, and kept for an effect
    where,          \* where[w]: Window::m_desktops
    activeWindow,   \* Workspace::m_activeWindow
    \* FocusChain
    chains,         \* m_desktopFocusChains and m_mostRecentlyUsed; the last window is the first choice
    chainDesktop,   \* m_currentDesktop
    chainActive,    \* m_activeWindow
    \* history
    unseen          \* <<w, d>>: d was added when w was on all desktops, and w not updated since

managerVars == <<desktops, current>>
windowVars  == <<managed, closing, where>>
chainVars   == <<chains, chainDesktop, chainActive>>
vars == <<managerVars, windowVars, activeWindow, chainVars, unseen>>

Desktops == ToSet(desktops)

IsOnDesktop(w, d, places) == places[w] \in {All, d}

TypeOK ==
    /\ desktops \in Seq(DesktopIds) /\ desktops # <<>> /\ IsInjective(desktops)
    /\ current \in Desktops
    /\ managed \subseteq Windows /\ closing \subseteq Windows \ managed
    /\ where \in [Windows -> DesktopIds \union {All}]
    /\ {activeWindow, chainActive} \subseteq Windows \union {None}
    /\ chains \in [Desktops \union {Recent} -> Seq(Windows)]
    /\ chainDesktop \in DesktopIds \union {None}
    /\ unseen \subseteq Windows \X DesktopIds

Init ==
    /\ \E d \in DesktopIds : desktops = <<d>> /\ current = d
    /\ managed = {} /\ closing = {}
    /\ where = [w \in Windows |-> All]
    /\ activeWindow = None /\ chainActive = None
    /\ chains = [k \in {current, Recent} |-> <<>>]
    /\ chainDesktop = None
    /\ unseen = {}

-----------------------------------------------------------------------------
(* FocusChain.  Every operator returns chains: ch are those before, places   *)
(* the desktops of the windows, top the active window as the chain knows it, *)
(* and here the current desktop as it knows it.                              *)

RemoveAll(s, w) ==
    LET kept[i \in 0 .. Len(s)] ==
            IF i = 0 THEN <<>>
            ELSE IF s[i] = w THEN kept[i - 1] ELSE Append(kept[i - 1], s[i])
    IN  kept[Len(s)]

InsertWindowIntoChain(s, w, top) ==
    IF w \in closing \/ Contains(s, w) THEN s
    ELSE IF top \notin {None, w} /\ s # <<>> /\ Last(s) = top
      THEN InsertAt(s, Len(s), w)
      ELSE Append(s, w)

MakeFirstInChain(s, w) == IF w \in closing THEN s ELSE Append(RemoveAll(s, w), w)

UpdateWindowInChain(s, w, change, top) ==
    IF change = "MakeFirst" THEN MakeFirstInChain(s, w) ELSE InsertWindowIntoChain(s, w, top)

\* Mutant: a window that moves stays in the chain of the desktop it leaves.
UpdateKeepsOld(ch, w, change, places, here, top) ==
    [k \in DOMAIN ch |->
        IF k = Recent \/ places[w] = k
          THEN UpdateWindowInChain(ch[k], w, change, top)
        ELSE IF places[w] = All
          THEN UpdateWindowInChain(ch[k], w, IF k = here THEN change ELSE "Update", top)
        ELSE ch[k]]

Update(ch, w, change, places, here, top) ==
    [k \in DOMAIN ch |->
        IF k = Recent \/ places[w] = k
          THEN UpdateWindowInChain(ch[k], w, change, top)
        ELSE IF places[w] = All
          THEN UpdateWindowInChain(ch[k], w, IF k = here THEN change ELSE "Update", top)
        ELSE RemoveAll(ch[k], w)]

SameApplication(v, w) == App[v] = App[w]

\* The places in a chain of the windows an application has in it.
PlacesOf(s, ref) == {i \in DOMAIN s : SameApplication(ref, s[i])}
IndexOf(s, w) == CHOOSE i \in DOMAIN s : s[i] = w
Lowest(S) == CHOOSE i \in S : \A j \in S : i <= j
Highest(S) == CHOOSE i \in S : \A j \in S : i >= j

\* Mutant: the window is taken out before the reference is looked for.
MoveAfterWindowInChainDrops(s, w, ref) ==
    LET t == RemoveAll(s, w)
    IN  IF ~Contains(s, ref) THEN t
        ELSE InsertAt(t, IF SameApplication(ref, w) THEN IndexOf(t, ref) ELSE Lowest(PlacesOf(t, ref)), w)

MoveAfterWindowInChain(s, w, ref) ==
    LET t == RemoveAll(s, w)
    IN  IF ~Contains(s, ref) THEN s
        ELSE InsertAt(t, IF SameApplication(ref, w) THEN IndexOf(t, ref) ELSE Lowest(PlacesOf(t, ref)), w)

MoveBeforeWindowInChain(s, w, ref) ==
    LET t == RemoveAll(s, w)
    IN  IF ~Contains(s, ref) THEN s
        ELSE InsertAt(t, 1 + (IF SameApplication(ref, w) THEN IndexOf(t, ref) ELSE Highest(PlacesOf(t, ref))), w)

MoveAfterWindow(ch, w, ref, places) ==
    [k \in DOMAIN ch |->
        IF w # ref /\ (k = Recent \/ IsOnDesktop(w, k, places))
          THEN MoveAfterWindowInChain(ch[k], w, ref) ELSE ch[k]]

MoveBeforeWindow(ch, w, ref, places) ==
    [k \in DOMAIN ch |->
        IF w # ref /\ (k = Recent \/ IsOnDesktop(w, k, places))
          THEN MoveBeforeWindowInChain(ch[k], w, ref) ELSE ch[k]]

RemoveFromChains(ch, w) == [k \in DOMAIN ch |-> RemoveAll(ch[k], w)]

Seen(w) == {p \in unseen : p[1] # w}

-----------------------------------------------------------------------------
(* Workspace: windows. *)

\* addX11Window()
Manage(w, d) ==
    /\ w \notin managed \union closing
    /\ managed' = managed \union {w}
    /\ where' = [where EXCEPT ![w] = d]
    /\ chains' = Update(chains, w, "Update", where', chainDesktop, chainActive)
    /\ UNCHANGED <<managerVars, closing, activeWindow, chainDesktop, chainActive, unseen>>

\* setActiveWindow(): windowActivated() tells the chain after it was updated.
SetActiveWindow(w) ==
    /\ w \in managed /\ w # activeWindow
    /\ IsOnDesktop(w, current, where)
    /\ activeWindow' = w /\ chainActive' = w
    /\ chains' = Update(chains, w, "MakeFirst", where, chainDesktop, chainActive)
    /\ unseen' = Seen(w)
    /\ UNCHANGED <<managerVars, windowVars, chainDesktop>>

\* The focus is lost, or the active window is minimized.
Deactivate ==
    /\ activeWindow # None
    /\ activeWindow' = None /\ chainActive' = None
    /\ UNCHANGED <<managerVars, windowVars, chains, chainDesktop, unseen>>

\* A client maps a window that is managed already.
MapRequest(w) ==
    /\ w \in managed
    /\ chains' = Update(chains, w, "Update", where, chainDesktop, chainActive)
    /\ unseen' = Seen(w)
    /\ UNCHANGED <<managerVars, windowVars, activeWindow, chainDesktop, chainActive>>

\* X11Window::restackWindow(), on request of a client or a pager.
StackBelow(w, ref) ==
    /\ {w, ref} \subseteq managed /\ w # ref
    /\ chains' = MoveAfterWindow(chains, w, ref, where)
    /\ UNCHANGED <<managerVars, windowVars, activeWindow, chainDesktop, chainActive, unseen>>

StackAbove(w, ref) ==
    /\ {w, ref} \subseteq managed /\ w # ref
    /\ chains' = MoveBeforeWindow(chains, w, ref, where)
    /\ UNCHANGED <<managerVars, windowVars, activeWindow, chainDesktop, chainActive, unseen>>

\* restackWindowUnderActive(): below the active window, if it is of the same
\* application, or else below all windows of that application, which may be
\* closed ones.  In different layers, the window is raised.
RestackedUnderActive(ch, w, places, top) ==
    IF top \in {None, w} THEN {ch}
    ELSE {ch} \union
         {MoveAfterWindow(ch, w, ref, places) :
             ref \in IF SameApplication(top, w) THEN {top}
                     ELSE {v \in managed \union closing : SameApplication(top, v)}}

\* sendWindowToDesktops() up to the restacking, for a window that is not
\* activated: the chains that may result.
Sent(ch, w, places, now, here, top) ==
    LET moved == Update(ch, w, "MakeFirst", places, here, top)
    IN  IF IsOnDesktop(w, now, places) THEN RestackedUnderActive(moved, w, places, top) ELSE {moved}

\* activateWindowOnDesktop(): the window that is active stays so only if the
\* chain of the desktop offers it; otherwise focus is requested for another one.
StaysActive(ch, d) == {None} \union (IF Contains(ch[d], activeWindow) THEN {activeWindow} ELSE {})

\* sendWindowToDesktops(), setOnAllDesktops()
SendWindowToDesktop(w, d) ==
    /\ w \in managed /\ where[w] # d
    /\ where' = [where EXCEPT ![w] = d]
    /\ chains' \in Sent(chains, w, where', current, chainDesktop, chainActive)
    /\ activeWindow' \in IF w = activeWindow /\ ~IsOnDesktop(w, current, where')
                           THEN StaysActive(chains', current) ELSE {activeWindow}
    /\ chainActive' = activeWindow'
    /\ unseen' = Seen(w)
    /\ UNCHANGED <<managerVars, managed, closing, chainDesktop>>

\* Mutant: a window goes away without activateNextWindow().
CloseWindowActive(w) ==
    /\ w \in managed
    /\ managed' = managed \ {w} /\ closing' = closing \union {w}
    /\ activeWindow' = IF w = activeWindow THEN None ELSE activeWindow
    /\ chains' = RemoveFromChains(chains, w)
    /\ unseen' = Seen(w)
    /\ UNCHANGED <<managerVars, where, chainDesktop, chainActive>>

\* releaseWindow(), destroyWindow(): activateNextWindow(), then removeWindow().
CloseWindow(w) ==
    /\ w \in managed
    /\ managed' = managed \ {w} /\ closing' = closing \union {w}
    /\ activeWindow' = IF w = activeWindow THEN None ELSE activeWindow
    /\ chainActive' = activeWindow'
    /\ chains' = RemoveFromChains(chains, w)
    /\ unseen' = Seen(w)
    /\ UNCHANGED <<managerVars, where, chainDesktop>>

\* The last effect gives up the window.
WindowGone(w) ==
    /\ w \in closing
    /\ closing' = closing \ {w}
    /\ where' = [where EXCEPT ![w] = All]
    /\ UNCHANGED <<managerVars, managed, activeWindow, chainVars, unseen>>

-----------------------------------------------------------------------------
(* VirtualDesktopManager, and the slots of Workspace. *)

\* slotDesktopAdded() for the desktops of S.
WithDesktops(ch, S) == [k \in DOMAIN ch \union S |-> IF k \in S THEN <<>> ELSE ch[k]]

Unseen(S) == {w \in managed : where[w] = All} \X S

CreateVirtualDesktop(d, position) ==
    /\ d \notin Desktops /\ Len(desktops) < MaxDesktops
    /\ desktops' = InsertAt(desktops, position, d)
    /\ chains' = WithDesktops(chains, {d})
    /\ unseen' = unseen \union Unseen({d})
    /\ UNCHANGED <<current, windowVars, activeWindow, chainDesktop, chainActive>>

\* currentChanged(): first the chain learns of it, then Workspace activates a
\* window.  A window that is dragged comes along.
SetCurrent(d, dragged) ==
    /\ d \in Desktops \ {current}
    /\ dragged \in {None, activeWindow}
    /\ current' = d /\ chainDesktop' = d
    /\ IF dragged # None /\ ~IsOnDesktop(dragged, d, where)
         THEN /\ where' = [where EXCEPT ![dragged] = d]
              /\ chains' = Update(chains, dragged, "MakeFirst", where', d, chainActive)
              /\ unseen' = Seen(dragged)
              /\ activeWindow' = activeWindow
         ELSE /\ activeWindow' \in StaysActive(chains, d)
              /\ UNCHANGED <<where, chains, unseen>>
    /\ chainActive' = activeWindow'
    /\ UNCHANGED <<desktops, managed, closing>>

\* desktopForX11Id(std::min(desktop->x11DesktopNumber(), count())): where the
\* windows of a removed desktop, which was the n-th, go.
\* Mutant: its neighbour on the other side.
HeirPrevious(n, left) == left[IF n > 1 THEN n - 1 ELSE 1]

Heir(n, left) == left[IF n <= Len(left) THEN n ELSE Len(left)]

\* slotDesktopRemoved(): windows go to heir one after the other, in this order:
\* the chains that may result.
Evacuated(order, heir, now, here, top) ==
    LET places(i) == [w \in Windows |-> IF \E j \in 1 .. i : order[j] = w THEN heir ELSE where[w]]
        outcomes[i \in 0 .. Len(order)] ==
            IF i = 0 THEN {chains}
            ELSE UNION {Sent(ch, order[i], places(i), now, here, top) : ch \in outcomes[i - 1]}
    IN  outcomes[Len(order)]

Without(ch, S) == [k \in DOMAIN ch \ S |-> ch[k]]

\* The common part of removeVirtualDesktop() and setCount(): the desktops of
\* gone have left the list, left, and their windows go to heir.  Closed windows
\* are put on all desktops, which the chains take no notice of.
RemoveDesktops(gone, left, newCurrent, heir) ==
    LET evacuees == {w \in managed : where[w] \in gone}
        stays == IF newCurrent = current THEN {activeWindow} ELSE StaysActive(chains, newCurrent)
        here == IF newCurrent = current THEN chainDesktop ELSE newCurrent
    IN  /\ desktops' = left /\ current' = newCurrent
        /\ activeWindow' \in stays /\ chainActive' = activeWindow'
        /\ where' = [w \in Windows |-> IF w \in evacuees THEN heir
                                       ELSE IF w \in closing /\ where[w] \in gone THEN All
                                       ELSE where[w]]
        /\ \E order \in SetToSeqs(evacuees) :
               \E ch \in Evacuated(order, heir, newCurrent, here, activeWindow') : chains' = Without(ch, gone)
        /\ chainDesktop' = IF here \in gone THEN None ELSE here
        /\ unseen' = {p \in unseen : p[1] \notin evacuees /\ p[2] \notin gone}
        /\ UNCHANGED <<managed, closing>>

RemoveVirtualDesktop(d) ==
    /\ d \in Desktops /\ Len(desktops) > 1
    /\ LET n == IndexOf(desktops, d)
           left == RemoveAt(desktops, n)
           next == left[IF n <= Len(left) THEN n ELSE Len(left)]
       IN  RemoveDesktops({d}, left, IF d = current THEN next ELSE current, Heir(n, left))

\* setCount(): the last desktops go, or new ones are appended.
SetCountDown(count) ==
    /\ count \in 1 .. Len(desktops) - 1
    /\ LET left == SubSeq(desktops, 1, count)
           gone == Desktops \ ToSet(left)
       IN  RemoveDesktops(gone, left, IF current \in gone THEN Last(left) ELSE current, Last(left))

SetCountUp(count) ==
    /\ count \in Len(desktops) + 1 .. MaxDesktops
    /\ \E new \in SetToSeqs(DesktopIds \ Desktops) :
           LET added == SubSeq(new, 1, count - Len(desktops))
           IN  /\ desktops' = desktops \o added
               /\ chains' = WithDesktops(chains, ToSet(added))
               /\ unseen' = unseen \union Unseen(ToSet(added))
    /\ UNCHANGED <<current, windowVars, activeWindow, chainDesktop, chainActive>>

-----------------------------------------------------------------------------
Next ==
    \/ \E w \in Windows :
        \/ \E d \in Desktops \union {All} : Manage(w, d) \/ SendWindowToDesktop(w, d)
        \/ SetActiveWindow(w) \/ MapRequest(w) \/ CloseWindow(w) \/ WindowGone(w)
        \/ \E ref \in Windows : StackBelow(w, ref) \/ StackAbove(w, ref)
    \/ Deactivate
    \/ \E d \in DesktopIds :
        \/ \E position \in 1 .. Len(desktops) + 1 : CreateVirtualDesktop(d, position)
        \/ \E dragged \in Windows \union {None} : SetCurrent(d, dragged)
        \/ RemoveVirtualDesktop(d)
    \/ \E count \in 1 .. MaxDesktops : SetCountDown(count) \/ SetCountUp(count)

Spec == Init /\ [][Next]_vars

-----------------------------------------------------------------------------
(* Properties. *)

\* "In case it's on exactly one virtual desktop it is ensured that it is only in
\* the focus chain for that virtual desktop": what a chain offers is a window
\* that is not closed and can be seen on its desktop.
MembersBelong ==
    \A k \in DOMAIN chains : \A w \in ToSet(chains[k]) :
        w \in managed /\ (k # Recent => IsOnDesktop(w, k, where))

\* No window gets lost: a managed window is exactly once in the list of the
\* task switcher and in the chain of every desktop it is on, but for desktops
\* that were added after a window was put on all of them.
NoneMissing ==
    \A k \in DOMAIN chains : \A w \in managed :
        \/ k = Recent \/ IsOnDesktop(w, k, where) => Cardinality({i \in DOMAIN chains[k] : chains[k][i] = w}) = 1
        \/ <<w, k>> \in unseen

\* Every desktop has its chain, and nobody refers to a desktop or a window that
\* is gone: windows and the chain follow when desktops are removed, and the
\* active window is one of the current desktop.
NothingDangles ==
    /\ DOMAIN chains = Desktops \union {Recent}
    /\ \A w \in managed : where[w] \in Desktops \union {All}
    /\ chainDesktop \in {None, current}
    /\ chainActive = activeWindow
    /\ activeWindow # None => activeWindow \in managed /\ IsOnDesktop(activeWindow, current, where)

\* When the current desktop is removed, VirtualDesktopManager chooses the new
\* one and Workspace the one its windows go to: they stay in sight.
WindowsFollow ==
    [][\A w \in managed :
           current \notin ToSet(desktops') /\ IsOnDesktop(w, current, where) => IsOnDesktop(w, current', where')]_vars

\* "In case of MakeFirst it is moved to the first position of the chain": the
\* desktop the user is on offers the window that was activated last.
ActivatedIsFirst ==
    [][activeWindow' \notin {None, activeWindow} => Last(chains'[current']) = activeWindow']_vars

\* "In case the window is on all virtual desktops it is ensured that it is
\* present in each of the virtual desktops focus chain."
OnAllInEvery ==
    \A w \in managed : where[w] = All => \A d \in Desktops : Contains(chains[d], w)
=============================================================================
