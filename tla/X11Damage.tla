----------------------------- MODULE X11Damage -----------------------------
(***************************************************************************)
(* How a frame of the OpenGL compositor gets hold of what X clients have   *)
(* drawn: the XDamage object of every SurfaceItemX11, the fetch of its     *)
(* region in composite(), and the ring of X fences (X11SyncManager) that   *)
(* keeps the GPU from sampling a window before the X server has drawn it.  *)
(*                                                                         *)
(* Four parties run on their own: the clients that draw, the X server that *)
(* works off the requests in its socket, the main thread, and the GPU that *)
(* works off the frames it was given.  Each handler flushes what it sends, *)
(* so requests are under way at once.  A reply is read by waiting until    *)
(* the server has come past the request it answers.                        *)
(***************************************************************************)
EXTENDS Integers, Sequences, FiniteSets

CONSTANTS
    Windows,      \* windows with a SurfaceItemX11
    MaxFences,    \* X11SyncManager::MaxFences
    NoFence,      \* m_currentFence is null
    Followed,     \* bound: the newest frames of the GPU that are followed
    MayTimeOut,   \* whether glClientWaitSync() may expire before the server gets there
    MaxNotified   \* bound: events for a window after a restart or without a reply

ASSUME FencesAssumption == MaxFences \in Nat /\ MaxFences >= 3 /\ NoFence \notin Nat
ASSUME WindowsAssumption == Windows # {} /\ IsFiniteSet(Windows)
ASSUME BoundsAssumption == Followed \in Nat \ {0} /\ MaxNotified \in Nat /\ MayTimeOut \in BOOLEAN

VARIABLES
    \* the main thread in composite()
    phase,       \* the next piece of composite() to run
    dirtyItems,  \* its local variable: the items whose region is on its way
    pending,     \* items that hold damage preprocess() has not seen
    isDamaged,   \* SurfaceItemX11::m_isDamaged
    \* the scene
    visible,         \* the items that are visible and reach into the viewport
    overlayVisible,  \* OverlayWindowX11::isVisible()
    frameScheduled,  \* the render loop was asked for a frame
    \* X11SyncManager
    manager,     \* m_syncManager: "live", "deleting" (its destructor runs), or "none"
    state,       \* X11SyncObject::m_state of every fence of the ring
    next,        \* m_next
    currentFence,
    \* the connection to the X server
    sent,        \* requests on their way
    notified,    \* DamageNotify events on their way, for every window
    \* the X server and the GPU
    damage,      \* whether the damage region of a window is not empty
    rendering,   \* the fences that are triggered, behind what the X server still renders
    signaled,    \* the fences that are signaled
    gpu          \* the fences of the newest frames the GPU has not finished

syncVars   == <<manager, state, next, currentFence>>
itemVars   == <<dirtyItems, pending, isDamaged>>
sceneVars  == <<visible, overlayVisible, frameScheduled>>
serverVars == <<notified, damage, rendering, signaled>>
vars == <<phase, itemVars, sceneVars, syncVars, sent, serverVars, gpu>>

Fences == 0 .. MaxFences - 1

\* "ending0" and "ending1": the iterations of the loop in endFrame().
Phases == {"idle", "fetching", "painting", "ending0", "ending1", "reinitialize", "restart"}
FenceStates == {"Ready", "TriggerSent", "Waiting", "Resetting"}

\* A request names what it is about: a window for "fetch" (subtract and fetch
\* the damage region), a fence for the others.
Requests == [op : {"trigger", "reset"}, fence : Fences] \union [op : {"fetch"}, window : Windows]
Trigger(f) == [op |-> "trigger", fence |-> f]
Reset(f)   == [op |-> "reset", fence |-> f]
Fetch(w)   == [op |-> "fetch", window |-> w]

OnTheWay(r) == \E i \in DOMAIN sent : sent[i] = r

TypeOK ==
    /\ phase \in Phases
    /\ {dirtyItems, pending, isDamaged, visible, damage} \subseteq SUBSET Windows
    /\ {overlayVisible, frameScheduled} \subseteq BOOLEAN
    /\ manager \in {"live", "deleting", "none"}
    /\ state \in [Fences -> FenceStates]
    /\ next \in Fences
    /\ currentFence \in Fences \union {NoFence}
    /\ sent \in Seq(Requests)
    /\ notified \in [Windows -> Nat]
    /\ rendering \in Seq(Fences)
    /\ signaled \subseteq Fences
    /\ gpu \in Seq(Fences \union {NoFence})

\* X11SyncManager's constructor.
NewManager ==
    /\ manager' = "live"
    /\ state' = [f \in Fences |-> "Ready"]
    /\ next' = 0
    /\ currentFence' = NoFence

\* start() has asked for a frame.  Unmanaged windows begin as damaged.
Init ==
    /\ phase = "idle"
    /\ dirtyItems = {} /\ pending = {} /\ damage = {}
    /\ isDamaged \in SUBSET Windows /\ visible \in SUBSET Windows
    /\ overlayVisible = TRUE /\ frameScheduled = TRUE
    /\ manager = "live"
    /\ state = [f \in Fences |-> "Ready"]
    /\ next = 0 /\ currentFence = NoFence
    /\ sent = <<>>
    /\ notified = [w \in Windows |-> 0]
    /\ rendering = <<>> /\ signaled = {} /\ gpu = <<>>

After(f) == (f + 1) % MaxFences

-----------------------------------------------------------------------------
(* The clients, the X server and the GPU. *)

\* XCB_DAMAGE_REPORT_LEVEL_NON_EMPTY: an event for the first damage only.
ClientDraws(w) ==
    /\ damage' = damage \union {w}
    /\ notified' = IF w \in damage THEN notified ELSE [notified EXCEPT ![w] = @ + 1]
    /\ UNCHANGED <<phase, itemVars, sceneVars, syncVars, sent, rendering, signaled, gpu>>

ServerProcesses ==
    /\ sent # <<>>
    /\ sent' = Tail(sent)
    /\ LET r == Head(sent)
       IN  /\ damage' = IF r.op = "fetch" THEN damage \ {r.window} ELSE damage
           /\ rendering' = IF r.op = "trigger" THEN Append(rendering, r.fence) ELSE rendering
           /\ signaled' = IF r.op = "reset" THEN signaled \ {r.fence} ELSE signaled
    /\ UNCHANGED <<phase, itemVars, sceneVars, syncVars, notified, gpu>>

\* What was rendered before the fence was triggered is done.
RenderingDone ==
    /\ rendering # <<>>
    /\ rendering' = Tail(rendering)
    /\ signaled' = signaled \union {Head(rendering)}
    /\ UNCHANGED <<phase, itemVars, sceneVars, syncVars, sent, notified, damage, gpu>>

GpuFinishesFrame ==
    /\ gpu # <<>>
    /\ Head(gpu) \in signaled \union {NoFence}
    /\ gpu' = Tail(gpu)
    /\ UNCHANGED <<phase, itemVars, sceneVars, syncVars, sent, serverVars>>

-----------------------------------------------------------------------------
(* SurfaceItemX11 and the first half of composite(). *)

\* The main thread is in its event loop.
Idle == phase = "idle" /\ manager # "deleting"

\* Mutant: the item is damaged, but schedules nothing.
ProcessDamageQuiet(w) ==
    /\ Idle
    /\ notified[w] > 0
    /\ notified' = [notified EXCEPT ![w] = @ - 1]
    /\ isDamaged' = isDamaged \union {w}
    /\ UNCHANGED <<phase, dirtyItems, pending, sceneVars, syncVars, sent, damage,
                   rendering, signaled, gpu>>

\* A DamageNotify: processDamage().  scheduleFrame() does nothing for an item
\* that is out of sight.
ProcessDamage(w) ==
    /\ Idle
    /\ notified[w] > 0
    /\ notified' = [notified EXCEPT ![w] = @ - 1]
    /\ isDamaged' = isDamaged \union {w}
    /\ frameScheduled' = (frameScheduled \/ w \in visible)
    /\ UNCHANGED <<phase, dirtyItems, pending, visible, overlayVisible, syncVars, sent, damage,
                   rendering, signaled, gpu>>

\* An item is shown, hidden or moves across the edge of the viewport, which
\* repaints where it is or was.
UpdateVisibility(w) ==
    /\ Idle
    /\ visible' = IF w \in visible THEN visible \ {w} ELSE visible \union {w}
    /\ frameScheduled' = TRUE
    /\ UNCHANGED <<phase, itemVars, overlayVisible, syncVars, sent, serverVars, gpu>>

\* OverlayWindowX11::event(): a VisibilityNotify.
OverlayVisibility ==
    /\ Idle
    /\ overlayVisible' = ~overlayVisible
    /\ frameScheduled' = TRUE
    /\ UNCHANGED <<phase, itemVars, visible, syncVars, sent, serverVars, gpu>>

\* A sequence of the members of S, in the order of some stacking order.
SomeOrder(S) == CHOOSE s \in [1 .. Cardinality(S) -> S] : \A w \in S : \E i \in DOMAIN s : s[i] = w

Fetches == LET order == SomeOrder(isDamaged) IN [i \in DOMAIN order |-> Fetch(order[i])]

\* The assertion of trigger(), and the wait of finishResetting().
FenceFree(f) ==
    /\ state[f] \in {"Ready", "Resetting"}
    /\ state[f] = "Resetting" => ~OnTheWay(Reset(f))

\* composite() returns at once under an overlay that is obscured.
ObscuredFrame ==
    /\ Idle /\ frameScheduled /\ ~overlayVisible
    /\ frameScheduled' = FALSE
    /\ UNCHANGED <<phase, itemVars, visible, overlayVisible, syncVars, sent, serverVars, gpu>>

\* composite(): fetchDamage() of every window, triggerFence(), xcb_flush().
\* Others than these items schedule frames too.
StartFrame ==
    /\ Idle /\ overlayVisible
    /\ frameScheduled' = FALSE
    /\ dirtyItems' = isDamaged
    /\ phase' = "fetching"
    /\ IF isDamaged = {}
         THEN UNCHANGED <<state, next, currentFence, sent>>
         ELSE IF manager = "live"
         THEN /\ FenceFree(next)
              /\ state' = [state EXCEPT ![next] = "TriggerSent"]
              /\ currentFence' = next
              /\ next' = After(next)
              /\ sent' = sent \o Fetches \o <<Trigger(next)>>
         ELSE /\ sent' = sent \o Fetches
              /\ UNCHANGED <<state, next, currentFence>>
    /\ UNCHANGED <<pending, isDamaged, visible, overlayVisible, manager, serverVars, gpu>>

\* waitForDamage() of every dirty item; one without a reply stays damaged, but
\* schedules nothing.  After a graphics reset composite() starts the compositor
\* anew.
WaitForDamage(reset, unanswered) ==
    /\ phase = "fetching"
    /\ \A w \in dirtyItems : ~OnTheWay(Fetch(w))
    /\ reset \/ unanswered # {} => \A w \in Windows : notified[w] < MaxNotified
    /\ pending' = pending \union (dirtyItems \ unanswered)
    /\ isDamaged' = isDamaged \ (dirtyItems \ unanswered)
    /\ dirtyItems' = {}
    /\ phase' = IF reset THEN "reinitialize" ELSE "painting"
    /\ UNCHANGED <<sceneVars, syncVars, sent, serverVars, gpu>>

\* insertWait(): the fence the items painted now wait for.
WaitedFence == IF manager = "live" THEN currentFence ELSE NoFence

\* The GPU is given one more frame.  It may be any number of frames behind:
\* nothing waits for it, and the oldest is not followed any more.
GivenToGpu(f) == Append(IF Len(gpu) < Followed THEN gpu ELSE Tail(gpu), f)

\* Mutant: endFrame() returns early unless a wait was inserted.
PaintEndsOnlyWaited(items) ==
    /\ phase = "painting"
    /\ pending' = pending \ items
    /\ LET f == IF items = {} THEN NoFence ELSE WaitedFence
       IN  /\ gpu' = GivenToGpu(f)
           /\ state' = IF f # NoFence /\ state[f] = "TriggerSent"
                         THEN [state EXCEPT ![f] = "Waiting"] ELSE state
           /\ phase' = IF f # NoFence THEN "ending0" ELSE "idle"
    /\ UNCHANGED <<dirtyItems, isDamaged, sceneVars, manager, next, currentFence, sent, serverVars>>

\* The frame paints some of the items that have damage, or all of them are
\* occluded, or nothing is to be painted; then it is presented.
Paint(items) ==
    /\ phase = "painting"
    /\ pending' = pending \ items
    /\ LET f == IF items = {} THEN NoFence ELSE WaitedFence
       IN  /\ gpu' = GivenToGpu(f)
           /\ state' = IF f # NoFence /\ state[f] = "TriggerSent"
                         THEN [state EXCEPT ![f] = "Waiting"] ELSE state
    /\ phase' = IF manager = "live" /\ currentFence # NoFence THEN "ending0" ELSE "idle"
    /\ UNCHANGED <<dirtyItems, isDamaged, sceneVars, manager, next, currentFence, sent, serverVars>>

-----------------------------------------------------------------------------
(* X11SyncManager::endFrame(), one fence of its loop at a time.  A fence is  *)
(* reset in the same iteration in which it is found Done, so that state does *)
(* not last.                                                                 *)

\* Mutant: the loop starts at the fence of this frame.
EndingFenceCurrent == IF phase = "ending0" THEN currentFence ELSE next

EndingFence == IF phase = "ending0" THEN next ELSE After(next)

\* The loop goes on with its second fence, or it is over.
NextFence ==
    IF phase = "ending0"
      THEN phase' = "ending1" /\ UNCHANGED currentFence
      ELSE phase' = "idle" /\ currentFence' = NoFence

\* reset()
SendReset(f) ==
    /\ state' = [state EXCEPT ![f] = "Resetting"]
    /\ sent' = Append(sent, Reset(f))

EndReady ==
    /\ phase \in {"ending0", "ending1"} /\ state[EndingFence] = "Ready"
    /\ NextFence
    /\ UNCHANGED <<itemVars, sceneVars, manager, state, next, sent, serverVars, gpu>>

\* Mutant: it is taken for ready without a reset.
EndSignaledReady ==
    /\ phase \in {"ending0", "ending1"} /\ state[EndingFence] \in {"TriggerSent", "Waiting"}
    /\ EndingFence \in signaled
    /\ state' = [state EXCEPT ![EndingFence] = "Ready"]
    /\ NextFence
    /\ UNCHANGED <<itemVars, sceneVars, manager, next, sent, serverVars, gpu>>

\* finish() finds the fence signaled, perhaps after a wait; reset().
EndSignaled ==
    /\ phase \in {"ending0", "ending1"} /\ state[EndingFence] \in {"TriggerSent", "Waiting"}
    /\ EndingFence \in signaled
    /\ SendReset(EndingFence)
    /\ NextFence
    /\ UNCHANGED <<itemVars, sceneVars, manager, next, serverVars, gpu>>

\* finishResetting() waits for the server.
EndResetting ==
    /\ phase \in {"ending0", "ending1"} /\ state[EndingFence] = "Resetting"
    /\ ~OnTheWay(Reset(EndingFence))
    /\ state' = [state EXCEPT ![EndingFence] = "Ready"]
    /\ NextFence
    /\ UNCHANGED <<itemVars, sceneVars, manager, next, sent, serverVars, gpu>>

\* Mutant: the destructor leaves fences that nobody has triggered.
DestructorsQuiet == <<>>

\* ~X11SyncObject(): a fence that was not triggered is triggered first.
Destructors ==
    LET order == SomeOrder({f \in Fences : state[f] \in {"Ready", "Resetting"}})
    IN  [i \in DOMAIN order |-> Trigger(order[i])]

\* ~X11SyncManager(), up to the calls of glDeleteSync(), which return when the
\* fence is signaled.  trigger() waits for a reset like everywhere.
DeleteManager ==
    /\ \A f \in Fences : state[f] = "Resetting" => ~OnTheWay(Reset(f))
    /\ manager' = "deleting"
    /\ sent' = sent \o Destructors
    /\ UNCHANGED <<state, next, currentFence>>

\* finish() gives up: composite() deletes the manager and goes on without.
EndTimesOut ==
    /\ MayTimeOut
    /\ phase \in {"ending0", "ending1"} /\ state[EndingFence] \in {"TriggerSent", "Waiting"}
    /\ EndingFence \notin signaled
    /\ DeleteManager
    /\ phase' = "idle"
    /\ UNCHANGED <<itemVars, sceneVars, serverVars, gpu>>

\* The last glDeleteSync() returns.
ManagerDeleted ==
    /\ manager = "deleting" /\ Fences \subseteq signaled
    /\ manager' = "none"
    /\ UNCHANGED <<phase, itemVars, sceneVars, state, next, currentFence, sent, serverVars, gpu>>

-----------------------------------------------------------------------------
(* reinitialize(): the compositor stops and starts again. *)

Stop ==
    /\ phase = "reinitialize"
    /\ IF manager = "live" THEN DeleteManager ELSE UNCHANGED <<syncVars, sent>>
    /\ phase' = "restart"
    /\ UNCHANGED <<itemVars, sceneVars, serverVars, gpu>>

\* The OpenGL context is gone, and with it what the GPU waited for.  The new
\* items paint their windows entirely; for some the server reports damage, and
\* the unmanaged ones begin as damaged.  The backend has a new overlay.
Start ==
    /\ phase = "restart" /\ manager = "none"
    /\ NewManager
    /\ rendering' = <<>> /\ signaled' = {} /\ gpu' = <<>>
    /\ dirtyItems' = {} /\ pending' = {}
    /\ isDamaged' \in SUBSET Windows
    /\ overlayVisible' = TRUE /\ frameScheduled' = TRUE
    /\ damage' \in SUBSET Windows
    /\ notified' = [w \in Windows |-> IF w \in damage' THEN notified[w] + 1 ELSE notified[w]]
    /\ phase' = "idle"
    /\ UNCHANGED <<visible, sent>>

-----------------------------------------------------------------------------
EndFrame == EndReady \/ EndSignaled \/ EndResetting

MainThread ==
    \/ \E w \in Windows : ProcessDamage(w) \/ UpdateVisibility(w)
    \/ OverlayVisibility
    \/ ObscuredFrame \/ StartFrame
    \/ \E reset \in BOOLEAN, unanswered \in SUBSET dirtyItems : WaitForDamage(reset, unanswered)
    \/ \E items \in SUBSET pending : Paint(items)
    \/ EndFrame \/ EndTimesOut \/ ManagerDeleted
    \/ Stop \/ Start

Next ==
    \/ \E w \in Windows : ClientDraws(w)
    \/ ServerProcesses
    \/ RenderingDone
    \/ GpuFinishesFrame
    \/ MainThread

Spec == Init /\ [][Next]_vars

\* The X server works off its requests and the GPU its frames.  The main
\* thread delivers every event between frames, the render loop has the frames
\* composited that it was asked for, and a frame goes on as soon as what it
\* waits for is there.
Fairness ==
    /\ WF_vars(ServerProcesses)
    /\ WF_vars(RenderingDone)
    /\ WF_vars(GpuFinishesFrame)
    /\ \A w \in Windows : SF_vars(ProcessDamage(w))
    /\ WF_vars(frameScheduled /\ StartFrame)
    /\ WF_vars(phase # "idle" /\ MainThread)
    /\ WF_vars(ManagerDeleted)

FairSpec == Spec /\ Fairness

-----------------------------------------------------------------------------
(* Properties. *)

\* What a client has drawn is never forgotten: while its damage region is not
\* empty, an event is on its way, the item knows, or the region is fetched.
NoDamageLost == \A w \in damage : notified[w] > 0 \/ w \in isDamaged \/ OnTheWay(Fetch(w))

\* Q_ASSERT(m_state == Ready || m_state == Resetting) in trigger(): the ring
\* has always reset the fence of the next frame, whatever was painted.
NextFenceFree ==
    phase = "idle" /\ manager = "live" => state[next] \in {"Ready", "Resetting"}

\* "Otherwise there is a race condition between the reset finishing and the
\* glWaitSync() call": the GPU never gets past a fence because of an earlier
\* use, while what it is to wait for is not drawn.
NoPrematureWait ==
    \A i \in DOMAIN gpu :
        gpu[i] \in signaled => ~OnTheWay(Trigger(gpu[i])) /\ \A j \in DOMAIN rendering : rendering[j] # gpu[i]

\* A fence is not reset under a GPU that waits for it, which would hold the
\* frame, and all later ones, until the ring comes round.  With the four fences
\* of the code this is so for the two newest frames the GPU was given; those of
\* older ones are reset, whether the GPU is done with them or not.
NotResetWhileWaited ==
    \A i \in DOMAIN gpu :
        Len(gpu) - i < MaxFences - 2 /\ gpu[i] # NoFence => ~OnTheWay(Reset(gpu[i]))

\* The damage of an item in sight is fetched as long as the item and the overlay
\* stay in sight, and the fence of the frame that fetches it is reset or
\* deleted: no damage waits for a frame that nobody has scheduled, and neither
\* the main thread nor the server waits for ever.
DamageFetched ==
    \A w \in Windows :
        w \in damage /\ w \in visible /\ overlayVisible
            ~> w \notin damage \/ w \notin visible \/ ~overlayVisible

\* "the nvidia driver deadlocks waiting for the fence to be signalled": the
\* destructor ends, and with it the frame.
FrameEnds == phase # "idle" \/ manager = "deleting" ~> phase = "idle" /\ manager # "deleting"
=============================================================================
