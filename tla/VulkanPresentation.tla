------------------------- MODULE VulkanPresentation -------------------------
(***************************************************************************)
(* How X11StandaloneVulkanBackend drives one RenderLoop: composite() of    *)
(* X11Compositor with the layer's doBeginFrame(), present(), the swapchain *)
(* and its recreation, the present-timing monitor with its helper thread,  *)
(* the stand-by VsyncMonitor, and the overlay window.                      *)
(*                                                                         *)
(* composite() is cut where another thread can tell the difference or the  *)
(* frame scheduler is called, so that every step is one step of RenderLoop *)
(* or leaves it alone.  Drivers and the X server are external: the results *)
(* they may return are constants, so that a run says which it allows.      *)
(***************************************************************************)
EXTENDS Integers, Sequences, FiniteSets

CONSTANTS
    FrameIds, MaxPendingFrameCount,
    NoFrame,           \* a null shared_ptr<OutputFrame>
    PresentTimings,    \* what m_presentTimingActive may be
    AcquireResults,    \* vkAcquireNextImageKHR
    PresentResults,    \* vkQueuePresentKHR
    RecreateResults,   \* VulkanSwapchain::recreate()
    WaitResults,       \* vkWaitForPresent2KHR
    VsyncMayFail,      \* whether the VsyncMonitor may report an error
    GpuMayReset        \* whether checkGraphicsReset() may return true

ASSUME FramesAssumption == IsFiniteSet(FrameIds) /\ MaxPendingFrameCount \in Nat \ {0}
ASSUME NoFrameAssumption == NoFrame \notin FrameIds
ASSUME ResultsAssumption ==
    /\ PresentTimings \subseteq BOOLEAN /\ VsyncMayFail \in BOOLEAN /\ GpuMayReset \in BOOLEAN
    /\ AcquireResults \subseteq {"ok", "suboptimal", "outOfDate", "error"}
    \* "stale": VK_ERROR_OUT_OF_DATE_KHR or VK_SUBOPTIMAL_KHR
    /\ PresentResults \subseteq {"ok", "stale", "error"}
    \* "none": no new VkSwapchainKHR; "incomplete": a new one, but its views,
    \* render pass or framebuffers could not be created
    /\ RecreateResults \subseteq {"ok", "none", "incomplete"}
    /\ WaitResults \subseteq {"presented", "timeout", "stale"}

VARIABLES
    \* the RenderLoop
    loop, cycle, frames, requested,
    \* the main thread in composite()
    stage,             \* the next piece of composite() to run
    current,           \* its local variable frame
    \* the backend
    mFrame,            \* m_frame: the frame that waits for its feedback
    swapchain,         \* m_swapchain: "valid", "incomplete" or "none" (no handle)
    needsRecreation,   \* VulkanSwapchain::m_needsRecreation
    monitor,           \* m_presentTimingMonitor: "none", or its handle is "live" or "stale" (destroyed)
    \* the helper thread of the present-timing monitor
    helper,            \* "idle", "waiting" in the driver, or "erroring": vblank emitted, error not yet
    waits,             \* queued waitForPresent() calls, by the frame they are for
    posted,            \* signals of the helper queued for the main thread
    \* the VsyncMonitor
    hasVsync,          \* m_vsyncMonitor exists
    vsyncFor,          \* the frame it was armed for, NoFrame while it is not armed
    \* what there is to show
    visible,           \* OverlayWindowX11::m_visible
    damaged,           \* RenderLayer::needsRepaint() of the workspace layer
    dirty,             \* history: damage was reported that no frame has painted
    \* the environment
    presentTiming,     \* m_presentTimingActive, fixed when the device is created
    degraded           \* history: the driver failed in a way feedback does not survive

loopVars   == <<loop, cycle, frames, requested>>
helperVars == <<helper, waits, posted>>
vsyncVars  == <<hasVsync, vsyncFor>>
sceneVars  == <<visible, damaged, dirty>>
envVars    == <<degraded, presentTiming>>
chainVars  == <<swapchain, needsRecreation, monitor>>
vars == <<loopVars, stage, current, mFrame, chainVars, helperVars, vsyncVars, sceneVars, envVars>>

Loop == INSTANCE RenderLoop WITH
            presentationMode <- "VSync", PresentationModes <- {"VSync"},
            terminating <- FALSE, resumed <- FALSE, MaxInhibit <- 0

\* The pieces of composite(), in their order.
Stages == {"idle", "composite", "prepared", "begin", "rebuild", "acquire",
           "present", "queue", "presentFailed", "rebuildFailed", "resolve", "done"}

Frames0 == FrameIds \union {NoFrame}

TypeOK ==
    /\ loop \in Loop!LoopStates
    /\ cycle \in Loop!Cycles
    /\ frames \subseteq FrameIds
    /\ stage \in Stages
    /\ {current, mFrame, vsyncFor} \subseteq Frames0
    /\ swapchain \in {"valid", "incomplete", "none"}
    /\ monitor \in {"none", "live", "stale"}
    /\ helper \in {"idle", "waiting", "erroring"}
    /\ waits \in Seq(FrameIds)
    /\ posted \in Seq([signal : {"vblank", "error"}, frame : FrameIds])
    /\ {requested, needsRecreation, hasVsync, visible, damaged, dirty, degraded, presentTiming}
          \subseteq BOOLEAN

\* The state init() leaves: the swapchain is new, feedback comes from the
\* present-timing monitor or else from a VsyncMonitor.  The workspace layer
\* that start() adds next repaints everything: the first Damage.
Init ==
    /\ presentTiming \in PresentTimings /\ degraded = FALSE
    /\ loop = Loop!InitialLoop
    /\ cycle = "idle" /\ frames = {} /\ requested = FALSE
    /\ stage = "idle" /\ current = NoFrame /\ mFrame = NoFrame
    /\ swapchain = "valid" /\ needsRecreation = FALSE
    /\ monitor = (IF presentTiming THEN "live" ELSE "none")
    /\ helper = "idle" /\ waits = <<>> /\ posted = <<>>
    /\ hasVsync = ~presentTiming /\ vsyncFor = NoFrame
    /\ visible = TRUE /\ damaged = FALSE /\ dirty = FALSE

-----------------------------------------------------------------------------
(* The scene and the overlay window. *)

AddRepaint ==
    /\ damaged' = TRUE
    /\ dirty' = TRUE
    /\ loop' = Loop!ScheduleRepaint(loop)
    /\ requested' = (requested \/ Loop!OutsideDecision)

\* RenderLayer::addRepaint(): from the event loop, while composite() fetches
\* the damage of the windows, or when an effect that animates asks for the
\* next frame in postPaintPass().
Damage ==
    /\ \/ stage = "idle"
       \/ stage = "composite" /\ visible
       \/ stage = "present" /\ cycle = "painting"
    /\ AddRepaint
    /\ UNCHANGED <<cycle, frames, stage, current, mFrame, chainVars, helperVars, vsyncVars,
                   visible, envVars>>

\* Mutant: an overlay that becomes visible again asks for no repaint.
VisibilityNotifyQuiet(v) ==
    /\ stage = "idle"
    /\ visible' = v
    /\ dirty' = (dirty \/ v)
    /\ UNCHANGED <<loopVars, stage, current, mFrame, chainVars, helperVars, vsyncVars,
                   damaged, envVars>>

\* OverlayWindowX11::event(), XCB_VISIBILITY_NOTIFY.  The second full repaint,
\* two seconds later, is a Damage step.
VisibilityNotify(v) ==
    /\ stage = "idle"
    /\ visible' = v
    /\ IF v /\ ~visible
         THEN AddRepaint
         ELSE /\ loop' = Loop!ScheduleRepaint(loop)
              /\ requested' = TRUE
              /\ UNCHANGED <<damaged, dirty>>
    /\ UNCHANGED <<cycle, frames, stage, current, mFrame, chainVars, helperVars, vsyncVars,
                   envVars>>

-----------------------------------------------------------------------------
(* composite(). *)

\* The compositeTimer fires: dispatch() emits frameRequested().
FrameRequested ==
    /\ stage = "idle" /\ loop.compositeTimer
    /\ loop' = [loop EXCEPT !.compositeTimer = FALSE, !.pendingRepaint = TRUE]
    /\ cycle' = "requested" /\ requested' = FALSE
    /\ stage' = "composite"
    /\ UNCHANGED <<frames, current, mFrame, chainVars, helperVars, vsyncVars, sceneVars,
                   envVars>>

\* dispatch() ends.
Return ==
    /\ loop' = [loop EXCEPT !.pendingRepaint = FALSE]
    /\ cycle' = "idle"
    /\ stage' = "idle"
    /\ current' = NoFrame
    /\ UNCHANGED <<frames, requested>>

NothingVisible ==
    /\ stage = "composite" /\ ~visible
    /\ Return
    /\ UNCHANGED <<mFrame, chainVars, helperVars, vsyncVars, sceneVars, envVars>>

\* reinitialize(): a new backend and a new layer.  The repaint the layer asks
\* for is not scheduled: pendingRepaint is still set.  The overlay window and
\* its visibility are new as well.
GraphicsReset ==
    /\ GpuMayReset
    /\ stage = "composite" /\ visible
    /\ Return
    /\ mFrame' = NoFrame
    /\ swapchain' = "valid" /\ needsRecreation' = FALSE
    /\ monitor' = IF presentTiming THEN "live" ELSE "none"
    /\ helper' = "idle" /\ waits' = <<>> /\ posted' = <<>>
    /\ hasVsync' = ~presentTiming /\ vsyncFor' = NoFrame
    /\ damaged' = TRUE /\ dirty' = TRUE
    /\ degraded' = TRUE
    /\ UNCHANGED <<visible, presentTiming>>

\* Frames some queued wait or signal still names are not reused, so that a
\* signal can always be told from one of the frame presented now.
InUse == frames \union {waits[i] : i \in DOMAIN waits}
         \union {posted[i].frame : i \in DOMAIN posted} \union {vsyncFor}

PrepareNewFrame(f) ==
    /\ stage = "composite" /\ visible
    /\ f \notin InUse
    /\ loop' = [loop EXCEPT !.pendingFrameCount = @ + 1]
    /\ cycle' = "prepared"
    /\ frames' = frames \union {f}
    /\ current' = f
    /\ stage' = "prepared"
    /\ UNCHANGED <<requested, mFrame, chainVars, helperVars, vsyncVars, sceneVars, envVars>>

\* beginPaint() and prePaintPass(), which takes the damage from the layers.
BeginPaint ==
    /\ stage = "prepared" /\ damaged
    /\ loop' = [loop EXCEPT !.pendingRepaint = FALSE]
    /\ cycle' = "painting"
    /\ damaged' = FALSE
    /\ stage' = "begin"
    /\ UNCHANGED <<frames, requested, current, mFrame, chainVars, helperVars, vsyncVars,
                   visible, dirty, envVars>>

NothingToPaint ==
    /\ stage = "prepared" /\ ~damaged
    /\ stage' = "present"
    /\ UNCHANGED <<loopVars, current, mFrame, chainVars, helperVars, vsyncVars, sceneVars,
                   envVars>>

-----------------------------------------------------------------------------
(* The swapchain and its recreation. *)

\* VulkanSwapchain::recreate(): the old handle is destroyed first.
Recreate(r) ==
    /\ swapchain' = IF r = "ok" THEN "valid" ELSE r
    /\ needsRecreation' = (r # "ok")
    /\ monitor' = IF monitor = "live" THEN "stale" ELSE monitor

\* The first half of recreateSwapchainIfNeeded(), called by doBeginFrame() for
\* a swapchain that was flagged, and by present() after a failed present.
RecreateSwapchain(r) ==
    /\ needsRecreation /\ swapchain # "none"
    /\ \/ /\ stage = "begin"
          /\ stage' = IF r = "ok" THEN "rebuild" ELSE "present"
       \/ /\ stage = "presentFailed"
          /\ stage' = IF r = "ok" THEN "rebuildFailed" ELSE "resolve"
    /\ Recreate(r)
    /\ degraded' = (degraded \/ r # "ok")
    /\ UNCHANGED <<loopVars, current, mFrame, helperVars, vsyncVars, sceneVars, presentTiming>>

\* Destroying the monitor joins its thread; Qt drops the signals that are
\* still queued for it.
ResetMonitor == helper' = "idle" /\ waits' = <<>> /\ posted' = <<>>

\* Mutant: the monitor of the old handle is kept.
SetupPresentTimingQueueKeeps ==
    /\ stage \in {"rebuild", "rebuildFailed"}
    /\ stage' = IF stage = "rebuild" THEN "acquire" ELSE "resolve"
    /\ UNCHANGED <<monitor, swapchain, needsRecreation, loopVars, current, mFrame,
                   helperVars, vsyncVars, sceneVars, envVars>>

\* The second half: setupPresentTimingQueue().
SetupPresentTimingQueue ==
    /\ stage \in {"rebuild", "rebuildFailed"}
    /\ stage' = IF stage = "rebuild" THEN "acquire" ELSE "resolve"
    /\ ResetMonitor
    /\ monitor' = IF presentTiming THEN "live" ELSE "none"
    /\ UNCHANGED <<swapchain, needsRecreation, loopVars, current, mFrame, vsyncVars,
                   sceneVars, envVars>>

\* doBeginFrame() goes on to the image, or fails for want of a swapchain.
BeginFrame ==
    /\ stage = "begin"
    /\ swapchain = "none" \/ ~needsRecreation
    /\ stage' = IF swapchain = "none" THEN "present" ELSE "acquire"
    /\ UNCHANGED <<loopVars, current, mFrame, chainVars, helperVars, vsyncVars, sceneVars,
                   envVars>>

\* acquireNextImage(), and the painting of the frame when it returns an image.
AcquireNextImage(r) ==
    /\ stage = "acquire"
    /\ needsRecreation' = (needsRecreation \/ r \in {"suboptimal", "outOfDate"})
    /\ dirty' = (dirty /\ r \notin {"ok", "suboptimal"})
    /\ stage' = "present"
    /\ degraded' = (degraded \/ r \in {"outOfDate", "error"})
    /\ UNCHANGED <<loopVars, current, mFrame, swapchain, monitor, helperVars, vsyncVars,
                   visible, damaged, presentTiming>>

-----------------------------------------------------------------------------
(* present(). *)

\* m_frame = frame: a frame that was still held is dropped.
HoldFrame ==
    /\ stage = "present"
    /\ mFrame' = current
    /\ IF mFrame \in frames
         THEN /\ loop' = Loop!NotifyFrameDropped(loop)
              /\ frames' = frames \ {mFrame}
         ELSE UNCHANGED <<loop, frames>>
    /\ stage' = IF swapchain = "none" THEN "done" ELSE "queue"
    /\ UNCHANGED <<cycle, requested, current, chainVars, helperVars, vsyncVars, sceneVars,
                   envVars>>

\* m_frame->presented(), m_frame.reset()
ResolveFrame ==
    /\ loop' = Loop!NotifyFrameCompleted(loop)
    /\ frames' = frames \ {mFrame}
    /\ mFrame' = NoFrame

\* Ask for the feedback of a frame that was queued, from the source there is.
Arm ==
    IF monitor # "none"
      THEN /\ waits' = Append(waits, mFrame)
           /\ UNCHANGED <<loop, frames, mFrame, vsyncVars>>
      ELSE IF hasVsync
      THEN /\ vsyncFor' = IF vsyncFor = NoFrame THEN mFrame ELSE vsyncFor
           /\ UNCHANGED <<loop, frames, mFrame, hasVsync, waits>>
      ELSE /\ ResolveFrame
           /\ UNCHANGED <<waits, vsyncVars>>

\* Mutant: the monitor is armed before the result is looked at.
QueuePresentArmsFirst(r) ==
    /\ stage = "queue"
    /\ Arm
    /\ needsRecreation' = (needsRecreation \/ r = "stale")
    /\ stage' = IF r = "error" THEN "presentFailed" ELSE "done"
    /\ UNCHANGED <<cycle, requested, current, swapchain, monitor, helper, posted, sceneVars,
                   envVars>>

QueuePresent(r) ==
    /\ stage = "queue"
    /\ needsRecreation' = (needsRecreation \/ r = "stale")
    /\ IF r = "error"
         THEN /\ stage' = "presentFailed"
              /\ UNCHANGED <<loop, frames, mFrame, waits, vsyncVars>>
         ELSE /\ stage' = "done"
              /\ Arm
    /\ UNCHANGED <<cycle, requested, current, swapchain, monitor, helper, posted, sceneVars,
                   envVars>>

\* Mutant: a frame whose present failed is left to a feedback that will not come.
PresentFailedForgets ==
    /\ \/ stage = "presentFailed" /\ ~needsRecreation
       \/ stage = "resolve"
    /\ stage' = "done"
    /\ UNCHANGED <<loopVars, current, mFrame, chainVars, helperVars, vsyncVars, sceneVars,
                   envVars>>

PresentFailed ==
    /\ \/ stage = "presentFailed" /\ ~needsRecreation
       \/ stage = "resolve"
    /\ ResolveFrame
    /\ stage' = "done"
    /\ UNCHANGED <<cycle, requested, current, chainVars, helperVars, vsyncVars, sceneVars,
                   envVars>>

CompositeReturns ==
    /\ stage = "done"
    /\ Return
    /\ UNCHANGED <<mFrame, chainVars, helperVars, vsyncVars, sceneVars, envVars>>

-----------------------------------------------------------------------------
(* The helper thread: waitForPresent(), one queued call after the other. *)

HelperWaits ==
    /\ helper = "idle" /\ waits # <<>>
    /\ helper' = "waiting"
    /\ UNCHANGED <<loopVars, stage, current, mFrame, chainVars, waits, posted, vsyncVars,
                   sceneVars, envVars>>

\* The wait returns and vblankOccurred() is emitted, whatever it returned.
HelperVblank(r) ==
    /\ helper = "waiting"
    /\ posted' = Append(posted, [signal |-> "vblank", frame |-> Head(waits)])
    /\ helper' = IF r = "stale" THEN "erroring" ELSE "idle"
    /\ waits' = IF r = "stale" THEN waits ELSE Tail(waits)
    /\ degraded' = (degraded \/ r = "stale")
    /\ UNCHANGED <<loopVars, stage, current, mFrame, chainVars, vsyncVars, sceneVars,
                   presentTiming>>

\* errorOccurred(), after vblankOccurred().
HelperError ==
    /\ helper = "erroring"
    /\ posted' = Append(posted, [signal |-> "error", frame |-> Head(waits)])
    /\ helper' = "idle"
    /\ waits' = Tail(waits)
    /\ UNCHANGED <<loopVars, stage, current, mFrame, chainVars, vsyncVars, sceneVars, envVars>>

-----------------------------------------------------------------------------
(* What the event loop of the main thread delivers to the backend. *)

\* Mutant: the frame is not reset after it was presented.
VblankKeepsFrame ==
    IF mFrame # NoFrame
      THEN /\ loop' = Loop!NotifyFrameCompleted(loop)
           /\ frames' = frames \ {mFrame}
           /\ UNCHANGED mFrame
      ELSE UNCHANGED <<loop, frames, mFrame>>

Vblank == IF mFrame # NoFrame THEN ResolveFrame ELSE UNCHANGED <<loop, frames, mFrame>>

MonitorVblank ==
    /\ stage = "idle" /\ posted # <<>> /\ Head(posted).signal = "vblank"
    /\ posted' = Tail(posted)
    /\ Vblank
    /\ UNCHANGED <<cycle, requested, stage, current, chainVars, helper, waits, vsyncVars,
                   sceneVars, envVars>>

HandlePresentTimingMonitorError ==
    /\ stage = "idle" /\ posted # <<>> /\ Head(posted).signal = "error"
    /\ ResetMonitor
    /\ monitor' = "none"
    /\ hasVsync' = TRUE
    /\ UNCHANGED <<loopVars, stage, current, mFrame, swapchain, needsRecreation, vsyncFor,
                   sceneVars, envVars>>

VsyncVblank ==
    /\ stage = "idle" /\ vsyncFor # NoFrame
    /\ vsyncFor' = NoFrame
    /\ Vblank
    /\ UNCHANGED <<cycle, requested, stage, current, chainVars, helperVars, hasVsync,
                   sceneVars, envVars>>

\* The VsyncMonitor emits errorOccurred(), which the backend is not connected to.
VsyncError ==
    /\ VsyncMayFail
    /\ stage = "idle" /\ vsyncFor # NoFrame
    /\ vsyncFor' = NoFrame
    /\ degraded' = TRUE
    /\ UNCHANGED <<loopVars, stage, current, mFrame, chainVars, helperVars, hasVsync,
                   sceneVars, presentTiming>>

-----------------------------------------------------------------------------
Composite ==
    \/ NothingVisible \/ GraphicsReset
    \/ \E f \in FrameIds : PrepareNewFrame(f)
    \/ BeginPaint \/ NothingToPaint
    \/ \E r \in RecreateResults : RecreateSwapchain(r)
    \/ SetupPresentTimingQueue
    \/ BeginFrame
    \/ \E r \in AcquireResults : AcquireNextImage(r)
    \/ HoldFrame
    \/ \E r \in PresentResults : QueuePresent(r)
    \/ PresentFailed
    \/ CompositeReturns

Helper == HelperWaits \/ HelperError \/ \E r \in WaitResults : HelperVblank(r)

Events == MonitorVblank \/ HandlePresentTimingMonitorError \/ VsyncVblank

Next ==
    \/ Damage
    \/ \E v \in BOOLEAN : VisibilityNotify(v)
    \/ FrameRequested
    \/ Composite
    \/ Helper
    \/ Events
    \/ VsyncError

Spec == Init /\ [][Next]_vars

\* The main thread runs composite() to its end and its event loop delivers
\* timers and queued signals; vkWaitForPresent2KHR has a timeout of a second;
\* a VsyncMonitor that was armed reports a vblank.
Fairness ==
    /\ WF_vars(FrameRequested)
    /\ WF_vars(Composite)
    /\ WF_vars(Helper)
    /\ WF_vars(MonitorVblank \/ HandlePresentTimingMonitorError)
    /\ WF_vars(VsyncVblank)

FairSpec == Spec /\ Fairness

-----------------------------------------------------------------------------
(* Properties. *)

\* The backend keeps the protocol the frame scheduler relies on: one frame
\* for a request, resolved exactly once, presented or dropped.
LoopSpec == Loop!Spec

\* A feedback always resolves the frame it was asked for.  A late signal that
\* met the next frame would report a presentation that has not happened and
\* let the scheduler queue more frames than the pipeline has room for.
FeedbackMatchesFrame ==
    mFrame # NoFrame =>
        /\ \A i \in DOMAIN posted : posted[i].signal = "vblank" => posted[i].frame = mFrame
        /\ helper = "waiting" => Head(waits) = mFrame
        /\ vsyncFor \in {NoFrame, mFrame}

\* The frame m_frame holds is neither presented nor dropped yet, so that
\* presented() is called once, and present() never drops an unresolved one.
HeldFrameUnresolved ==
    /\ mFrame # NoFrame => mFrame \in frames
    /\ stage = "present" => mFrame = NoFrame

\* Feedback the event loop or a thread still has to deliver.
FeedbackOwed ==
    \/ waits # <<>> /\ ~(helper = "erroring" /\ Len(waits) = 1)
    \/ \E i \in DOMAIN posted : posted[i].signal = "vblank"
    \/ vsyncFor # NoFrame

\* A frame in flight is not stranded: while none of its feedback is under way
\* the pipeline, one frame deep, stays full and the screen is frozen.
NotStranded == stage = "idle" /\ mFrame # NoFrame => FeedbackOwed
FrameOwedFeedback == ~degraded => NotStranded

\* "that handle must outlive the wait": the helper thread never waits on a
\* VkSwapchainKHR that was destroyed.
HandleOutlivesWait == helper = "waiting" => monitor = "live"
HelperOnLiveHandle == ~degraded => HandleOutlivesWait

\* Every frame in flight is resolved.
FramesResolved == \A f \in FrameIds : f \in frames ~> f \notin frames \/ degraded

\* What was damaged is painted, unless it is not visible.
DamagePainted == dirty /\ visible ~> ~dirty \/ ~visible \/ degraded

-----------------------------------------------------------------------------
(* Sentences of comments that the code does not keep: README, section 6.   *)
(* NotStranded and HandleOutlivesWait without their condition are among    *)
(* them.                                                                   *)

\* "Mark this layer as dirty and trigger a repaint on the render loop": damage
\* that waits in the layer will be composited: a cycle is planned, or the frame
\* in flight will plan one, or the overlay's next VisibilityNotify.
DamagePlanned ==
    stage = "idle" /\ visible /\ damaged =>
        \/ loop.compositeTimer
        \/ loop.pendingReschedule /\ frames # {}

\* The comment in recreateSwapchainIfNeeded(): the helper thread is joined
\* before the old VkSwapchainKHR is destroyed.
JoinedBeforeDestroyed == [][monitor = "live" => monitor' # "stale"]_vars

\* "skip the frame when this returns false and try again next time": damage
\* that is on record only because its frame was skipped leads to another
\* composite() while it can be seen.
DamageRetried == dirty /\ visible ~> stage = "composite" \/ ~dirty \/ ~visible

=============================================================================
