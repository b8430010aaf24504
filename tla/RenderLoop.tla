----------------------------- MODULE RenderLoop -----------------------------
(***************************************************************************)
(* The frame scheduler that drives compositing                             *)
(* (src/src/core/renderloop.cpp) and the life of the OutputFrame objects   *)
(* it counts (src/src/core/renderbackend.cpp).                             *)
(*                                                                         *)
(* The loop's members are one record, loop.  The functions that change it  *)
(* are operators from record to record, so that a handler that calls       *)
(* several of them in a row (a dropped frame that schedules the repaint    *)
(* that was waiting for it) is their composition, and so that a module     *)
(* that composes the loop with a compositor can call them where the code   *)
(* does.  Only the control is kept: whether the timer runs, not when it    *)
(* expires.                                                                *)
(*                                                                         *)
(* Everything here runs on the main thread.  What surrounds the loop is    *)
(* any compositor that follows the protocol of frameRequested(): at most   *)
(* one prepareNewFrame() per request, then perhaps beginPaint(); frames    *)
(* are presented or destroyed at any later time, in any order.             *)
(***************************************************************************)
EXTENDS Integers, FiniteSets

CONSTANTS
    FrameIds,              \* names for the OutputFrame objects
    MaxPendingFrameCount,  \* RenderLoopPrivate::maxPendingFrameCount
    PresentationModes,     \* the modes setPresentationMode() is called with
    MaxInhibit             \* bound: how deep inhibit() calls nest

ASSUME FrameIdsAssumption == IsFiniteSet(FrameIds)
ASSUME MaxPendingAssumption == MaxPendingFrameCount \in Nat \ {0}
ASSUME ModesAssumption ==
    /\ PresentationModes \subseteq {"VSync", "AdaptiveSync", "Async", "AdaptiveAsync"}
    /\ "VSync" \in PresentationModes
ASSUME MaxInhibitAssumption == MaxInhibit \in Nat

VARIABLES
    loop,              \* the members of RenderLoopPrivate the control depends on
    presentationMode,  \* RenderLoopPrivate::presentationMode
    terminating,       \* kwinApp()->isTerminating()
    cycle,             \* where the main thread is in a compositing cycle
    frames,            \* the OutputFrames that exist and were not presented
    requested,         \* history: a repaint was asked for that no cycle has taken up
    resumed            \* history: uninhibit() was called

vars == <<loop, presentationMode, terminating, cycle, frames, requested, resumed>>

\* "idle": in the event loop; "requested": dispatch() has emitted
\* frameRequested() and the handler runs; "prepared": it has called
\* prepareNewFrame() and constructed the frame; "painting": it has called
\* beginPaint().
Cycles == {"idle", "requested", "prepared", "painting"}

LoopStates ==
    [compositeTimer    : BOOLEAN,  \* QTimer::isActive()
     delayedVrrTimer   : BOOLEAN,
     pendingFrameCount : Int,
     inhibitCount      : Nat,
     pendingReschedule : BOOLEAN,
     pendingRepaint    : BOOLEAN]

InitialLoop ==
    [compositeTimer |-> FALSE, delayedVrrTimer |-> FALSE,
     pendingFrameCount |-> 0, inhibitCount |-> 0,
     pendingReschedule |-> FALSE, pendingRepaint |-> FALSE]

-----------------------------------------------------------------------------
(* The functions of RenderLoop and RenderLoopPrivate. *)

\* RenderLoopPrivate::scheduleRepaint: (re)starts the timer and forgets that
\* a reschedule was wanted.
StartTimer(l) == [l EXCEPT !.compositeTimer = TRUE, !.pendingReschedule = FALSE]

ScheduleNextRepaint(l) ==
    IF terminating \/ l.compositeTimer THEN l ELSE StartTimer(l)

\* vrr or tearing
Unthrottled == presentationMode # "VSync"

EffectiveMaxPending == IF Unthrottled THEN 1 ELSE MaxPendingFrameCount

\* Mutant: the limit is compared with <=.
ScheduleRepaintOffByOne(l) ==
    IF l.pendingRepaint THEN l
    ELSE IF l.pendingFrameCount <= EffectiveMaxPending /\ l.inhibitCount = 0
           THEN ScheduleNextRepaint([l EXCEPT !.delayedVrrTimer = FALSE])
           ELSE [l EXCEPT !.delayedVrrTimer = FALSE, !.pendingReschedule = TRUE]

\* Mutant: a request made while the pipeline is full is dropped, not delayed.
ScheduleRepaintDropsWhenFull(l) ==
    IF l.pendingFrameCount < EffectiveMaxPending /\ l.inhibitCount = 0
      THEN ScheduleNextRepaint(l) ELSE l

\* RenderLoop::scheduleRepaint, the path that does not wait for the active window.
ScheduleRepaint(l) ==
    IF l.pendingRepaint THEN l
    ELSE LET now == [l EXCEPT !.delayedVrrTimer = FALSE] IN
         IF now.pendingFrameCount < EffectiveMaxPending /\ now.inhibitCount = 0
           THEN ScheduleNextRepaint(now)
           ELSE [now EXCEPT !.pendingReschedule = TRUE]

\* RenderLoop::scheduleRepaint, the path that leaves the repaint to the
\* active window's own next update.
DelayRepaintForVrr(l) ==
    IF l.pendingRepaint THEN l ELSE [l EXCEPT !.delayedVrrTimer = TRUE]

\* The schedule a resolved frame makes room for.
RescheduleIfPending(l) ==
    IF l.inhibitCount = 0 /\ l.pendingReschedule THEN ScheduleNextRepaint(l) ELSE l

\* Mutant: a dropped frame is not counted off.
NotifyFrameDroppedKeepsCount(l) == RescheduleIfPending(l)

\* Mutant: a dropped frame does not re-apply the schedule that waited for it.
NotifyFrameDroppedForgets(l) == [l EXCEPT !.pendingFrameCount = @ - 1]

NotifyFrameDropped(l) ==
    RescheduleIfPending([l EXCEPT !.pendingFrameCount = @ - 1])

NotifyFrameCompleted(l) ==
    LET done == [l EXCEPT !.pendingFrameCount = @ - 1]
    IN  RescheduleIfPending(IF done.compositeTimer THEN StartTimer(done) ELSE done)

-----------------------------------------------------------------------------
(* Actions. *)

TypeOK ==
    /\ loop \in LoopStates
    /\ presentationMode \in PresentationModes
    /\ terminating \in BOOLEAN
    /\ cycle \in Cycles
    /\ frames \subseteq FrameIds
    /\ requested \in BOOLEAN
    /\ resumed \in BOOLEAN

Init ==
    /\ loop = InitialLoop
    /\ presentationMode = "VSync"
    /\ terminating = FALSE
    /\ cycle = "idle"
    /\ frames = {}
    /\ requested = FALSE
    /\ resumed = FALSE

\* A request made after frameRequested() and before beginPaint() belongs to
\* the cycle that is about to paint.
OutsideDecision == cycle \in {"idle", "painting"}

\* Any caller: a damaged window, an effect, a layer that became visible.
RequestRepaint ==
    /\ loop' = ScheduleRepaint(loop)
    /\ requested' = (requested \/ OutsideDecision)
    /\ UNCHANGED <<presentationMode, terminating, cycle, frames, resumed>>

\* The same call for an item that is not the active window, while that
\* window is expected to update at 30 Hz or faster.
RequestRepaintBehindActiveWindow ==
    /\ Unthrottled
    /\ loop' = DelayRepaintForVrr(loop)
    /\ requested' = (requested \/ OutsideDecision)
    /\ UNCHANGED <<presentationMode, terminating, cycle, frames, resumed>>

\* delayedVrrTimer is a single shot timer: it is inactive when its slot runs.
DelayedVrrTimeout ==
    /\ cycle = "idle"
    /\ loop.delayedVrrTimer
    /\ loop' = ScheduleRepaint([loop EXCEPT !.delayedVrrTimer = FALSE])
    /\ UNCHANGED <<presentationMode, terminating, cycle, frames, requested, resumed>>

\* compositeTimer fires: dispatch() up to the emission of frameRequested().
Dispatch ==
    /\ cycle = "idle"
    /\ loop.compositeTimer
    /\ loop' = [loop EXCEPT !.compositeTimer = FALSE, !.pendingRepaint = TRUE]
    /\ cycle' = "requested"
    /\ requested' = FALSE
    /\ UNCHANGED <<presentationMode, terminating, frames, resumed>>

\* prepareNewFrame() and the construction of the OutputFrame.
PrepareNewFrame(f) ==
    /\ cycle = "requested"
    /\ f \notin frames
    /\ loop' = [loop EXCEPT !.pendingFrameCount = @ + 1]
    /\ frames' = frames \union {f}
    /\ cycle' = "prepared"
    /\ UNCHANGED <<presentationMode, terminating, requested, resumed>>

BeginPaint ==
    /\ cycle = "prepared"
    /\ loop' = [loop EXCEPT !.pendingRepaint = FALSE]
    /\ cycle' = "painting"
    /\ UNCHANGED <<presentationMode, terminating, frames, requested, resumed>>

\* The handler of frameRequested() returns, whatever it did, and dispatch() ends.
DispatchReturns ==
    /\ cycle # "idle"
    /\ loop' = [loop EXCEPT !.pendingRepaint = FALSE]
    /\ cycle' = "idle"
    /\ UNCHANGED <<presentationMode, terminating, frames, requested, resumed>>

\* OutputFrame::presented(); a backend calls it at most once for a frame.
FramePresented(f) ==
    /\ f \in frames
    /\ loop' = NotifyFrameCompleted(loop)
    /\ frames' = frames \ {f}
    /\ UNCHANGED <<presentationMode, terminating, cycle, requested, resumed>>

\* OutputFrame::~OutputFrame() of a frame that was never presented.
FrameDestroyed(f) ==
    /\ f \in frames
    /\ loop' = NotifyFrameDropped(loop)
    /\ frames' = frames \ {f}
    /\ UNCHANGED <<presentationMode, terminating, cycle, requested, resumed>>

Inhibit ==
    /\ cycle = "idle"
    /\ loop.inhibitCount < MaxInhibit
    /\ loop' = [loop EXCEPT !.inhibitCount = @ + 1,
                            !.compositeTimer = @ /\ loop.inhibitCount > 0]
    /\ UNCHANGED <<presentationMode, terminating, cycle, frames, requested, resumed>>

Uninhibit ==
    /\ cycle = "idle"
    /\ loop.inhibitCount > 0
    /\ LET l == [loop EXCEPT !.inhibitCount = @ - 1]
       IN  loop' = IF l.inhibitCount = 0 THEN ScheduleNextRepaint(l) ELSE l
    /\ resumed' = TRUE
    /\ UNCHANGED <<presentationMode, terminating, cycle, frames, requested>>

SetPresentationMode(m) ==
    /\ cycle = "idle"
    /\ presentationMode' = m
    /\ UNCHANGED <<loop, terminating, cycle, frames, requested, resumed>>

\* The application starts to shut down.
Terminate ==
    /\ cycle = "idle"
    /\ terminating' = TRUE
    /\ UNCHANGED <<loop, presentationMode, cycle, frames, requested, resumed>>

Resolve(f) == FramePresented(f) \/ FrameDestroyed(f)

Next ==
    \/ RequestRepaint
    \/ RequestRepaintBehindActiveWindow
    \/ DelayedVrrTimeout
    \/ Dispatch
    \/ \E f \in FrameIds : PrepareNewFrame(f)
    \/ BeginPaint
    \/ DispatchReturns
    \/ \E f \in FrameIds : FramePresented(f)
    \/ \E f \in FrameIds : FrameDestroyed(f)
    \/ Inhibit
    \/ Uninhibit
    \/ \E m \in PresentationModes : SetPresentationMode(m)
    \/ Terminate

Spec == Init /\ [][Next]_vars

\* Qt delivers the timeout of a timer that stays active, a handler returns,
\* and a backend resolves every frame it was given.  The last is an
\* assumption about the backend: VulkanPresentation asks whether one keeps it.
Fairness ==
    /\ WF_vars(Dispatch)
    /\ WF_vars(DelayedVrrTimeout)
    /\ WF_vars(DispatchReturns)
    /\ WF_vars(\E f \in FrameIds : Resolve(f))

FairSpec == Spec /\ Fairness

-----------------------------------------------------------------------------
(* Properties. *)

\* The count the loop throttles on is exactly the number of frames some
\* owner still has to present or drop, so neither Q_ASSERT of
\* notifyFrameDropped() and notifyFrameCompleted() can fail.
FrameCountExact == loop.pendingFrameCount = Cardinality(frames)

\* A repaint that was asked for is never forgotten: a timer will request a
\* frame, or the request waits for a frame that is still in flight, or for
\* uninhibit().  One lost request freezes the screen until the next damage.
RequestNotLost ==
    requested /\ ~terminating =>
        \/ loop.compositeTimer
        \/ loop.delayedVrrTimer
        \/ loop.inhibitCount > 0
        \/ loop.pendingReschedule /\ frames # {}

\* "Pauses the render loop": no frame is requested while inhibited.
InhibitedIsPaused == loop.inhibitCount > 0 => ~loop.compositeTimer

\* As long as no inhibition was lifted (the X11 backend never inhibits) the
\* loop never has more frames in flight than it was configured for.
CapacityRespected ==
    ~resumed => Cardinality(frames) <= MaxPendingFrameCount

\* The strengthening of CapacityRespected that the steps preserve: room for
\* the frame of the cycle that runs and for that of the scheduled one.
CapacityInv ==
    ~resumed =>
        LET planned == (IF loop.compositeTimer THEN 1 ELSE 0)
                       + (IF cycle = "requested" THEN 1 ELSE 0)
        IN  Cardinality(frames) + planned <= MaxPendingFrameCount

\* pendingRepaint is set exactly while requests belong to the running cycle.
PendingRepaintInv == loop.pendingRepaint <=> ~OutsideDecision

\* The inductive invariant of RenderLoopProofs.
IndInv ==
    /\ TypeOK
    /\ loop.inhibitCount <= MaxInhibit
    /\ PendingRepaintInv
    /\ FrameCountExact
    /\ RequestNotLost
    /\ InhibitedIsPaused
    /\ CapacityInv

\* No compositing cycle starts while the pipeline is full, except that
\* uninhibit() starts the timer without looking at the frames in flight.
FullPipelineNotDispatched ==
    [][cycle = "idle" /\ cycle' = "requested" /\ ~resumed
         => Cardinality(frames) < MaxPendingFrameCount]_vars

\* Every repaint request is followed by a compositing cycle, unless the
\* application terminates or the loop is inhibited for good.
RequestServed ==
    requested ~> (~requested \/ terminating \/ loop.inhibitCount > 0)
=============================================================================
