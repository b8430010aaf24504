---------------------- MODULE VulkanPresentationProofs ----------------------
(***************************************************************************)
(* Proofs about VulkanPresentation, for any set of frames and every        *)
(* failure of the driver.                                                  *)
(*                                                                         *)
(* First that it implements RenderLoop (Refinement), for any depth of the  *)
(* pipeline: the compositor follows the protocol of frameRequested() and   *)
(* m_frame is always a frame that can still be resolved (ProtocolInv).     *)
(* That makes the invariant of the frame scheduler, proved in              *)
(* RenderLoopProofs, an invariant of the backend; with a pipeline one      *)
(* frame deep it says that nothing is in flight when a cycle starts, which *)
(* the results about feedback need (FeedbackInv).                          *)
(***************************************************************************)
EXTENDS VulkanPresentation, SequenceTheorems, FiniteSetTheorems, TLAPS

LoopProofs == INSTANCE RenderLoopProofs WITH
            presentationMode <- "VSync", PresentationModes <- {"VSync"},
            terminating <- FALSE, resumed <- FALSE, MaxInhibit <- 0

\* The frame of the cycle is not yet the backend's; it is, and not resolved.
Painting   == {"prepared", "begin", "rebuild", "acquire", "present"}
Presenting == {"queue", "presentFailed", "rebuildFailed", "resolve"}

ProtocolInv ==
    /\ stage \in Stages
    /\ frames \subseteq FrameIds
    /\ current \in Frames0 /\ mFrame \in Frames0
    /\ stage = "idle" <=> cycle = "idle"
    /\ stage = "composite" <=> cycle = "requested"
    /\ stage = "prepared" => cycle = "prepared"
    /\ mFrame # NoFrame => mFrame \in frames
    /\ stage \in Painting => current \in frames /\ current # mFrame
    /\ stage \in Presenting => mFrame # NoFrame

-----------------------------------------------------------------------------
(* The steps that are a step of RenderLoop. *)

LEMMA InitProtocol == Init => ProtocolInv /\ Loop!Init
<1> SUFFICES ASSUME Init PROVE ProtocolInv /\ Loop!Init
  OBVIOUS
<1>1. ProtocolInv
  BY DEF Init, ProtocolInv, Stages, Frames0, Painting, Presenting
<1>2. Loop!Init
  BY DEF Init, Loop!Init
<1> QED
  BY <1>1, <1>2

LEMMA RequestRepaintStep ==
    ASSUME Loop!RequestRepaint
    PROVE  Loop!Next
BY DEF Loop!Next

LEMMA AddRepaintStep ==
    ASSUME AddRepaint, UNCHANGED <<cycle, frames>>
    PROVE  Loop!Next
<1>1. Loop!RequestRepaint
  BY DEF AddRepaint, Loop!RequestRepaint
<1> QED
  BY <1>1, RequestRepaintStep

LEMMA DamageProtocol ==
    ASSUME ProtocolInv, Damage
    PROVE  ProtocolInv' /\ Loop!Next
<1>1. Loop!Next
  BY AddRepaintStep DEF Damage
<1>2. ProtocolInv'
  BY DEF Damage, ProtocolInv
<1> QED
  BY <1>1, <1>2

LEMMA VisibilityProtocol ==
    ASSUME ProtocolInv, NEW v \in BOOLEAN, VisibilityNotify(v)
    PROVE  ProtocolInv' /\ Loop!Next
<1>1. ASSUME v, ~visible PROVE Loop!Next
  BY <1>1, AddRepaintStep DEF VisibilityNotify
<1>2. ASSUME ~(v /\ ~visible) PROVE Loop!Next
  <2>1. cycle = "idle" /\ requested' = TRUE /\ loop' = Loop!ScheduleRepaint(loop)
    BY <1>2 DEF VisibilityNotify, ProtocolInv
  <2>2. Loop!OutsideDecision
    BY <2>1 DEF Loop!OutsideDecision
  <2>3. Loop!RequestRepaint
    BY <2>1, <2>2 DEF VisibilityNotify, Loop!RequestRepaint
  <2> QED
    BY <2>3, RequestRepaintStep
<1>3. Loop!Next
  BY <1>1, <1>2
<1>4. ProtocolInv'
  BY DEF VisibilityNotify, ProtocolInv
<1> QED
  BY <1>3, <1>4

LEMMA FrameRequestedProtocol ==
    ASSUME ProtocolInv, FrameRequested
    PROVE  ProtocolInv' /\ Loop!Next
<1>1. Loop!Dispatch
  BY DEF FrameRequested, ProtocolInv, Loop!Dispatch
<1>2. ProtocolInv'
  BY DEF FrameRequested, ProtocolInv, Stages, Painting, Presenting
<1> QED
  BY <1>1, <1>2 DEF Loop!Next

\* The three ways composite() ends.
LEMMA ReturnProtocol ==
    ASSUME ProtocolInv, Return, stage # "idle", mFrame' \in {mFrame, NoFrame}
    PROVE  ProtocolInv' /\ Loop!Next
<1>1. Loop!DispatchReturns
  BY DEF Return, ProtocolInv, Loop!DispatchReturns
<1>2. ProtocolInv'
  BY DEF Return, ProtocolInv, Stages, Painting, Presenting, Frames0
<1> QED
  BY <1>1, <1>2 DEF Loop!Next

LEMMA PrepareNewFrameProtocol ==
    ASSUME ProtocolInv, NEW f \in FrameIds, PrepareNewFrame(f)
    PROVE  ProtocolInv' /\ Loop!Next
<1>1. f \notin frames
  BY DEF PrepareNewFrame, InUse
<1>2. Loop!PrepareNewFrame(f)
  BY <1>1 DEF PrepareNewFrame, ProtocolInv, Loop!PrepareNewFrame
<1>3. ProtocolInv'
  BY <1>1, NoFrameAssumption DEF PrepareNewFrame, ProtocolInv, Stages, Painting, Presenting, Frames0
<1> QED
  BY <1>2, <1>3 DEF Loop!Next

LEMMA BeginPaintProtocol ==
    ASSUME ProtocolInv, BeginPaint
    PROVE  ProtocolInv' /\ Loop!Next
<1>1. Loop!BeginPaint
  BY DEF BeginPaint, ProtocolInv, Loop!BeginPaint
<1>2. ProtocolInv'
  BY DEF BeginPaint, ProtocolInv, Stages, Painting, Presenting
<1> QED
  BY <1>1, <1>2 DEF Loop!Next

LEMMA HoldFrameProtocol ==
    ASSUME ProtocolInv, HoldFrame
    PROVE  ProtocolInv' /\ [Loop!Next]_(Loop!vars)
<1>1. current \in frames /\ current # mFrame /\ current # NoFrame /\ stage' \in Stages
  BY NoFrameAssumption DEF HoldFrame, ProtocolInv, Painting, Frames0, Stages
<1>2. CASE mFrame \in frames
  <2>1. Loop!FrameDestroyed(mFrame) /\ mFrame \in FrameIds
    BY <1>2 DEF HoldFrame, ProtocolInv, Loop!FrameDestroyed
  <2>2. ProtocolInv'
    BY <1>1, <1>2 DEF HoldFrame, ProtocolInv, Painting, Presenting
  <2> QED
    BY <2>1, <2>2 DEF Loop!Next
<1>3. CASE mFrame \notin frames
  <2>1. UNCHANGED Loop!vars
    BY <1>3 DEF HoldFrame, Loop!vars
  <2>2. ProtocolInv'
    BY <1>1, <1>3 DEF HoldFrame, ProtocolInv, Painting, Presenting
  <2> QED
    BY <2>1, <2>2
<1> QED
  BY <1>2, <1>3

\* presented() of the frame the backend holds.
LEMMA ResolveFrameStep ==
    ASSUME ProtocolInv, mFrame # NoFrame, ResolveFrame, UNCHANGED <<cycle, requested>>
    PROVE  /\ Loop!Next
           /\ mFrame' = NoFrame /\ frames' = frames \ {mFrame}
<1>1. mFrame \in FrameIds /\ mFrame \in frames
  BY DEF ProtocolInv, Frames0
<1>2. Loop!FramePresented(mFrame)
  BY <1>1 DEF ResolveFrame, Loop!FramePresented
<1> QED
  BY <1>1, <1>2 DEF ResolveFrame, Loop!Next

LEMMA QueuePresentProtocol ==
    ASSUME ProtocolInv, NEW r \in PresentResults, QueuePresent(r)
    PROVE  ProtocolInv' /\ [Loop!Next]_(Loop!vars)
<1>1. mFrame # NoFrame /\ UNCHANGED <<cycle, requested, current>>
      /\ stage = "queue" /\ stage' \in {"presentFailed", "done"}
  BY DEF QueuePresent, ProtocolInv, Presenting
<1>2. CASE UNCHANGED <<loop, frames, mFrame>>
  <2>1. UNCHANGED Loop!vars
    BY <1>1, <1>2 DEF Loop!vars
  <2>2. ProtocolInv'
    BY <1>1, <1>2 DEF ProtocolInv, Stages, Painting, Presenting
  <2> QED
    BY <2>1, <2>2
<1>3. CASE ResolveFrame /\ stage' = "done"
  <2>1. Loop!Next /\ mFrame' = NoFrame /\ frames' = frames \ {mFrame}
    BY <1>1, <1>3, ResolveFrameStep
  <2>2. ProtocolInv'
    BY <1>1, <1>3, <2>1 DEF ProtocolInv, Stages, Frames0, Painting, Presenting
  <2> QED
    BY <2>1, <2>2
<1> QED
  BY <1>2, <1>3 DEF QueuePresent, Arm

LEMMA PresentFailedProtocol ==
    ASSUME ProtocolInv, PresentFailed
    PROVE  ProtocolInv' /\ Loop!Next
<1>1. mFrame # NoFrame
  BY DEF PresentFailed, ProtocolInv, Presenting
<1>2. Loop!Next /\ mFrame' = NoFrame /\ frames' = frames \ {mFrame}
  BY <1>1, ResolveFrameStep DEF PresentFailed
<1>3. ProtocolInv'
  BY <1>2 DEF PresentFailed, ProtocolInv, Stages, Frames0, Painting, Presenting
<1> QED
  BY <1>2, <1>3

\* Feedback arrives in the event loop.
LEMMA VblankProtocol ==
    ASSUME ProtocolInv, stage = "idle", Vblank, UNCHANGED <<cycle, requested, stage, current>>
    PROVE  ProtocolInv' /\ [Loop!Next]_(Loop!vars)
<1>1. CASE mFrame # NoFrame
  <2>1. Loop!Next /\ mFrame' = NoFrame /\ frames' = frames \ {mFrame}
    BY <1>1, ResolveFrameStep DEF Vblank
  <2>2. ProtocolInv'
    BY <2>1 DEF ProtocolInv, Frames0, Painting, Presenting
  <2> QED
    BY <2>1, <2>2
<1>2. CASE mFrame = NoFrame
  <2>1. UNCHANGED <<loop, frames, mFrame>>
    BY <1>2 DEF Vblank
  <2>2. UNCHANGED Loop!vars
    BY <2>1 DEF Loop!vars
  <2> QED
    BY <2>1, <2>2 DEF ProtocolInv
<1> QED
  BY <1>1, <1>2

-----------------------------------------------------------------------------
(* The steps RenderLoop does not see. *)

LEMMA UnseenProtocol ==
    ASSUME ProtocolInv, UNCHANGED <<loopVars, current, mFrame>>, stage' \in Stages,
           stage = "idle" <=> stage' = "idle",
           stage' # "composite" \/ stage = "composite",
           stage = "composite" => stage' = "composite",
           stage' = "prepared" => stage = "prepared",
           stage' \in Painting => stage \in Painting,
           stage' \in Presenting => stage \in Presenting
    PROVE  ProtocolInv' /\ UNCHANGED Loop!vars
BY DEF ProtocolInv, loopVars, Loop!vars

LEMMA BackendProtocol ==
    ASSUME ProtocolInv,
           \/ NothingToPaint \/ SetupPresentTimingQueue \/ BeginFrame
           \/ \E r \in RecreateResults : RecreateSwapchain(r)
           \/ \E r \in AcquireResults : AcquireNextImage(r)
           \/ Helper \/ HandlePresentTimingMonitorError \/ VsyncError \/ UNCHANGED vars
    PROVE  ProtocolInv' /\ UNCHANGED Loop!vars
<1>1. stage \in Stages
  BY DEF ProtocolInv
<1>2. CASE NothingToPaint
  BY <1>1, <1>2, UnseenProtocol DEF NothingToPaint, Stages, Painting, Presenting
<1>3. CASE SetupPresentTimingQueue
  BY <1>1, <1>3, UnseenProtocol DEF SetupPresentTimingQueue, Stages, Painting, Presenting
<1>4. CASE BeginFrame
  BY <1>1, <1>4, UnseenProtocol DEF BeginFrame, Stages, Painting, Presenting
<1>5. ASSUME NEW r \in RecreateResults, RecreateSwapchain(r)
      PROVE  ProtocolInv' /\ UNCHANGED Loop!vars
  BY <1>1, <1>5, UnseenProtocol DEF RecreateSwapchain, Stages, Painting, Presenting
<1>6. ASSUME NEW r \in AcquireResults, AcquireNextImage(r)
      PROVE  ProtocolInv' /\ UNCHANGED Loop!vars
  BY <1>1, <1>6, UnseenProtocol DEF AcquireNextImage, Stages, Painting, Presenting
<1>7. CASE Helper \/ HandlePresentTimingMonitorError \/ VsyncError \/ UNCHANGED vars
  <2>1. UNCHANGED <<loopVars, current, mFrame, stage>>
    BY <1>7 DEF Helper, HelperWaits, HelperVblank, HelperError,
       HandlePresentTimingMonitorError, VsyncError, vars
  <2> QED
    BY <1>1, <2>1, UnseenProtocol
<1> QED
  BY <1>2, <1>3, <1>4, <1>5, <1>6, <1>7

LEMMA NextProtocol ==
    ProtocolInv /\ [Next]_vars => ProtocolInv' /\ [Loop!Next]_(Loop!vars)
<1> SUFFICES ASSUME ProtocolInv, [Next]_vars
             PROVE  ProtocolInv' /\ [Loop!Next]_(Loop!vars)
  OBVIOUS
<1>1. CASE Damage
  BY <1>1, DamageProtocol
<1>2. ASSUME NEW v \in BOOLEAN, VisibilityNotify(v)
      PROVE  ProtocolInv' /\ [Loop!Next]_(Loop!vars)
  BY <1>2, VisibilityProtocol
<1>3. CASE FrameRequested
  BY <1>3, FrameRequestedProtocol
<1>4. CASE NothingVisible \/ GraphicsReset \/ CompositeReturns
  <2>1. Return /\ stage # "idle" /\ mFrame' \in {mFrame, NoFrame}
    BY <1>4 DEF NothingVisible, GraphicsReset, CompositeReturns
  <2> QED
    BY <2>1, ReturnProtocol
<1>5. ASSUME NEW f \in FrameIds, PrepareNewFrame(f)
      PROVE  ProtocolInv' /\ [Loop!Next]_(Loop!vars)
  BY <1>5, PrepareNewFrameProtocol
<1>6. CASE BeginPaint
  BY <1>6, BeginPaintProtocol
<1>7. CASE HoldFrame
  BY <1>7, HoldFrameProtocol
<1>8. ASSUME NEW r \in PresentResults, QueuePresent(r)
      PROVE  ProtocolInv' /\ [Loop!Next]_(Loop!vars)
  BY <1>8, QueuePresentProtocol
<1>9. CASE PresentFailed
  BY <1>9, PresentFailedProtocol
<1>10. CASE MonitorVblank \/ VsyncVblank
  <2>1. stage = "idle" /\ Vblank /\ UNCHANGED <<cycle, requested, stage, current>>
    BY <1>10 DEF MonitorVblank, VsyncVblank
  <2> QED
    BY <2>1, VblankProtocol
<1>11. CASE \/ NothingToPaint \/ SetupPresentTimingQueue \/ BeginFrame
            \/ \E r \in RecreateResults : RecreateSwapchain(r)
            \/ \E r \in AcquireResults : AcquireNextImage(r)
            \/ Helper \/ HandlePresentTimingMonitorError \/ VsyncError \/ UNCHANGED vars
  BY <1>11, BackendProtocol
<1> QED
  BY <1>1, <1>2, <1>3, <1>4, <1>5, <1>6, <1>7, <1>8, <1>9, <1>10, <1>11
     DEF Next, Composite, Events

\* The backend and its helper thread keep the protocol of the frame scheduler:
\* each of their steps is one of RenderLoop or is invisible to it.
THEOREM Refinement == Spec => LoopSpec
<1>1. Spec => []ProtocolInv /\ Loop!Init
  BY InitProtocol, NextProtocol, PTL DEF Spec
<1> QED
  BY <1>1, NextProtocol, PTL DEF Spec, LoopSpec, Loop!Spec

\* The two instances of RenderLoop, with and without its proofs, are the same.
LEMMA SameLoop ==
    /\ LoopProofs!Init <=> Loop!Init
    /\ LoopProofs!Next <=> Loop!Next
    /\ LoopProofs!vars = Loop!vars
    /\ LoopProofs!IndInv <=> Loop!IndInv
<1>1. LoopProofs!Init <=> Loop!Init
  BY Zenon
     DEF Loop!Init, LoopProofs!Init, Loop!InitialLoop, LoopProofs!InitialLoop
<1>2. LoopProofs!Next <=> Loop!Next
  BY Zenon
     DEF Loop!Next, LoopProofs!Next,
         Loop!RequestRepaint, LoopProofs!RequestRepaint,
         Loop!RequestRepaintBehindActiveWindow,
         LoopProofs!RequestRepaintBehindActiveWindow, Loop!DelayedVrrTimeout,
         LoopProofs!DelayedVrrTimeout, Loop!Dispatch, LoopProofs!Dispatch,
         Loop!PrepareNewFrame, LoopProofs!PrepareNewFrame, Loop!BeginPaint,
         LoopProofs!BeginPaint, Loop!DispatchReturns, LoopProofs!DispatchReturns,
         Loop!FramePresented, LoopProofs!FramePresented, Loop!FrameDestroyed,
         LoopProofs!FrameDestroyed, Loop!Inhibit, LoopProofs!Inhibit, Loop!Uninhibit,
         LoopProofs!Uninhibit, Loop!SetPresentationMode, LoopProofs!SetPresentationMode,
         Loop!Terminate, LoopProofs!Terminate, Loop!ScheduleRepaint,
         LoopProofs!ScheduleRepaint, Loop!DelayRepaintForVrr,
         LoopProofs!DelayRepaintForVrr, Loop!ScheduleNextRepaint,
         LoopProofs!ScheduleNextRepaint, Loop!StartTimer, LoopProofs!StartTimer,
         Loop!NotifyFrameDropped, LoopProofs!NotifyFrameDropped,
         Loop!NotifyFrameCompleted, LoopProofs!NotifyFrameCompleted,
         Loop!RescheduleIfPending, LoopProofs!RescheduleIfPending, Loop!Unthrottled,
         LoopProofs!Unthrottled, Loop!EffectiveMaxPending,
         LoopProofs!EffectiveMaxPending, Loop!OutsideDecision, LoopProofs!OutsideDecision
<1>3. LoopProofs!IndInv <=> Loop!IndInv
  BY Zenon
     DEF Loop!IndInv, LoopProofs!IndInv, Loop!TypeOK, LoopProofs!TypeOK,
         Loop!PendingRepaintInv, LoopProofs!PendingRepaintInv, Loop!FrameCountExact,
         LoopProofs!FrameCountExact, Loop!RequestNotLost, LoopProofs!RequestNotLost,
         Loop!InhibitedIsPaused, LoopProofs!InhibitedIsPaused, Loop!CapacityInv,
         LoopProofs!CapacityInv, Loop!LoopStates, LoopProofs!LoopStates, Loop!Cycles,
         LoopProofs!Cycles, Loop!OutsideDecision, LoopProofs!OutsideDecision,
         Loop!Cardinality, LoopProofs!Cardinality, Loop!IsFiniteSet,
         LoopProofs!IsFiniteSet
<1>4. LoopProofs!vars = Loop!vars
  BY DEF Loop!vars, LoopProofs!vars
<1> QED
  BY <1>1, <1>2, <1>3, <1>4

\* What RenderLoopProofs shows of the frame scheduler holds of this one.
LEMMA LoopInvariance == Spec => []Loop!IndInv
<1> USE FramesAssumption DEF LoopProofs!IsFiniteSet, IsFiniteSet
<1>1. Loop!Init => Loop!IndInv
  BY SameLoop, LoopProofs!InitIndInv, Zenon
<1>2. Loop!IndInv /\ [Loop!Next]_(Loop!vars) => Loop!IndInv'
  <2> SUFFICES ASSUME Loop!IndInv, [Loop!Next]_(Loop!vars) PROVE Loop!IndInv'
    OBVIOUS
  <2>1. LoopProofs!IndInv /\ [LoopProofs!Next]_(LoopProofs!vars)
    BY SameLoop, Zenon DEF Loop!vars, LoopProofs!vars
  <2>2. LoopProofs!IndInv'
    BY <2>1, LoopProofs!NextIndInv, Zenon
  <2>3. (LoopProofs!IndInv <=> Loop!IndInv)'
    BY SameLoop, PTL
  <2> QED
    BY <2>2, <2>3
<1> QED
  BY <1>1, <1>2, Refinement, PTL DEF LoopSpec, Loop!Spec

-----------------------------------------------------------------------------
(* A pipeline of one frame. *)

\* Nothing is in flight when a cycle starts, and only its frame until present().
Alone == stage = "composite" \/ stage \in Painting => mFrame = NoFrame

LEMMA PipelineEmpty ==
    ASSUME MaxPendingFrameCount = 1, ProtocolInv, Loop!IndInv
    PROVE  Alone
<1>1. IsFiniteSet(frames) /\ Cardinality(frames) \in Nat
  BY FramesAssumption, FS_Subset, FS_CardinalityType DEF ProtocolInv
<1>2. /\ Cardinality(frames) <= 1
      /\ cycle = "requested" => Cardinality(frames) = 0
  <2>1. Loop!CapacityInv
    BY DEF Loop!IndInv
  <2> QED
    BY <1>1, <2>1 DEF Loop!CapacityInv, Loop!Cardinality, Cardinality
<1>3. CASE stage = "composite"
  <2>1. frames = {}
    BY <1>1, <1>2, <1>3, FS_EmptySet DEF ProtocolInv
  <2> QED
    BY <2>1, <1>3 DEF ProtocolInv, Alone, Painting
<1>4. ASSUME stage \in Painting, mFrame # NoFrame PROVE FALSE
  <2>1. {current, mFrame} \subseteq frames /\ current # mFrame
    BY <1>4 DEF ProtocolInv
  <2>2. Cardinality({current, mFrame}) = 2 /\ IsFiniteSet({current, mFrame})
    <3>1. IsFiniteSet({mFrame}) /\ Cardinality({mFrame}) = 1
      BY FS_Singleton
    <3>2. {current, mFrame} = {mFrame} \union {current} /\ current \notin {mFrame}
      BY <2>1
    <3> QED
      BY <3>1, <3>2, FS_AddElement
  <2> QED
    BY <1>1, <1>2, <2>1, <2>2, FS_Subset
<1> QED
  BY <1>3, <1>4 DEF Alone

-----------------------------------------------------------------------------
(* Whose feedback is under way. *)

Waits(i)   == i \in DOMAIN waits /\ (helper = "erroring" => i # 1)
Vblanks(i) == i \in DOMAIN posted /\ posted[i].signal = "vblank"

Signals == [signal : {"vblank", "error"}, frame : FrameIds]

NothingOwed == vsyncFor = NoFrame /\ \A i : ~Waits(i) /\ ~Vblanks(i)

\* At most one feedback is owed, and it is owed to the frame m_frame holds.
FeedbackInv ==
    /\ waits \in Seq(FrameIds) /\ posted \in Seq(Signals)
    /\ helper # "idle" => waits # <<>>
    /\ \A i : Waits(i) => waits[i] = mFrame /\ mFrame # NoFrame
    /\ \A i : Vblanks(i) => posted[i].frame = mFrame /\ mFrame # NoFrame
    /\ vsyncFor # NoFrame => vsyncFor = mFrame
    /\ \A i, j : /\ Waits(i) /\ Waits(j) => i = j
                 /\ Vblanks(i) /\ Vblanks(j) => i = j
                 /\ ~(Waits(i) /\ Vblanks(j))
    /\ vsyncFor # NoFrame => \A i : ~Waits(i) /\ ~Vblanks(i)
    /\ stage \in Presenting => NothingOwed

LEMMA AppendFacts ==
    ASSUME NEW S, NEW q \in Seq(S), NEW e \in S
    PROVE  /\ Append(q, e) \in Seq(S)
           /\ Len(q) + 1 \in DOMAIN Append(q, e) /\ Append(q, e)[Len(q) + 1] = e
           /\ Len(q) \in Nat
           /\ \A i : i \in DOMAIN Append(q, e) => i = Len(q) + 1 \/ i \in DOMAIN q
           /\ \A i \in DOMAIN q : i \in DOMAIN Append(q, e) /\ i # Len(q) + 1 /\ Append(q, e)[i] = q[i]
<1>1. /\ Append(q, e) \in Seq(S) /\ Len(Append(q, e)) = Len(q) + 1
      /\ \A i \in 1 .. Len(q) : Append(q, e)[i] = q[i]
      /\ Append(q, e)[Len(q) + 1] = e
  BY AppendProperties
<1>2. Len(q) \in Nat /\ DOMAIN q = 1 .. Len(q) /\ DOMAIN Append(q, e) = 1 .. Len(q) + 1
  BY <1>1
<1> QED
  BY <1>1, <1>2

LEMMA TailFacts ==
    ASSUME NEW S, NEW q \in Seq(S), q # <<>>
    PROVE  /\ Tail(q) \in Seq(S) /\ Head(q) \in S
           /\ 1 \in DOMAIN q /\ q[1] = Head(q)
           /\ \A i \in DOMAIN Tail(q) : /\ i + 1 \in DOMAIN q /\ i + 1 # 1 /\ Tail(q)[i] = q[i + 1]
                                        /\ i \in Nat
           /\ \A j \in DOMAIN q : j # 1 => j - 1 \in DOMAIN Tail(q) /\ Tail(q)[j - 1] = q[j]
<1>1. /\ Len(q) \in Nat \ {0} /\ DOMAIN q = 1 .. Len(q)
      /\ Head(q) = q[1] /\ Head(q) \in S
      /\ Tail(q) \in Seq(S) /\ Len(Tail(q)) = Len(q) - 1 /\ DOMAIN Tail(q) = 1 .. Len(q) - 1
      /\ \A i \in 1 .. Len(q) - 1 : Tail(q)[i] = q[i + 1]
  BY HeadTailProperties
<1>2. ASSUME NEW j \in DOMAIN q, j # 1
      PROVE  j - 1 \in DOMAIN Tail(q) /\ Tail(q)[j - 1] = q[j]
  <2>1. j - 1 \in 1 .. Len(q) - 1 /\ (j - 1) + 1 = j
    BY <1>1, <1>2
  <2>2. Tail(q)[j - 1] = q[(j - 1) + 1]
    BY <1>1, <2>1, Zenon
  <2> QED
    BY <1>1, <2>1, <2>2
<1>3. ASSUME NEW i \in DOMAIN Tail(q)
      PROVE  i + 1 \in DOMAIN q /\ i + 1 # 1 /\ Tail(q)[i] = q[i + 1] /\ i \in Nat
  BY <1>1, <1>3
<1>4. 1 \in DOMAIN q
  BY <1>1
<1> QED
  BY <1>1, <1>2, <1>3, <1>4

LEMMA InitFeedback == Init => FeedbackInv
<1> SUFFICES ASSUME Init PROVE FeedbackInv
  OBVIOUS
<1>1. waits = <<>> /\ posted = <<>> /\ DOMAIN waits = {} /\ DOMAIN posted = {}
  BY DEF Init
<1> QED
  BY <1>1 DEF Init, FeedbackInv, Waits, Vblanks, Presenting

\* Steps that neither ask for feedback nor deliver any.
LEMMA SilentFeedback ==
    ASSUME FeedbackInv, UNCHANGED <<waits, posted, vsyncFor, helper, mFrame>>,
           stage' \in Presenting => stage \in Presenting
    PROVE  FeedbackInv'
BY DEF FeedbackInv, NothingOwed, Waits, Vblanks

LEMMA ResetFeedback ==
    ASSUME FeedbackInv, ResetMonitor, vsyncFor' \in {vsyncFor, NoFrame},
           vsyncFor' # NoFrame => mFrame' = mFrame,
           stage' \in Presenting => stage \in Presenting
    PROVE  FeedbackInv'
<1>1. waits' = <<>> /\ posted' = <<>> /\ DOMAIN waits' = {} /\ DOMAIN posted' = {} /\ helper' = "idle"
  BY DEF ResetMonitor
<1>2. \A i : ~Waits(i)' /\ ~Vblanks(i)'
  BY <1>1 DEF Waits, Vblanks
<1> QED
  BY <1>1, <1>2 DEF FeedbackInv, NothingOwed

\* Steps that take or leave a frame while nothing is owed.
LEMMA QuietFeedback ==
    ASSUME FeedbackInv, NothingOwed, UNCHANGED <<waits, posted, vsyncFor, helper>>
    PROVE  FeedbackInv'
BY DEF FeedbackInv, NothingOwed, Waits, Vblanks

LEMMA HoldFrameFeedback ==
    ASSUME FeedbackInv, Alone, HoldFrame
    PROVE  FeedbackInv'
<1>1. NothingOwed
  BY DEF HoldFrame, Alone, Painting, FeedbackInv, NothingOwed
<1> QED
  BY <1>1, QuietFeedback DEF HoldFrame, helperVars, vsyncVars

LEMMA ArmFeedback ==
    ASSUME FeedbackInv, ProtocolInv, stage \in Presenting, stage' = "done",
           Arm, UNCHANGED <<helper, posted>>
    PROVE  FeedbackInv'
<1>1. NothingOwed /\ mFrame # NoFrame /\ mFrame \in FrameIds /\ stage' \notin Presenting
  BY DEF FeedbackInv, ProtocolInv, Frames0, Presenting
<1>2. CASE monitor # "none"
  <2>1. waits' = Append(waits, mFrame) /\ UNCHANGED <<mFrame, vsyncFor>>
    BY <1>2 DEF Arm, vsyncVars
  <2>2. /\ Append(waits, mFrame) \in Seq(FrameIds)
        /\ Append(waits, mFrame)[Len(waits) + 1] = mFrame
        /\ Len(waits) + 1 \in DOMAIN Append(waits, mFrame)
        /\ \A i : i \in DOMAIN Append(waits, mFrame) => i = Len(waits) + 1 \/ i \in DOMAIN waits
    BY <1>1, AppendFacts DEF FeedbackInv
  <2>3. \A i : Waits(i)' => i = Len(waits) + 1 /\ waits'[i] = mFrame
    BY <1>1, <2>1, <2>2 DEF NothingOwed, Waits
  <2>4. \A i : ~Vblanks(i)'
    BY <1>1 DEF NothingOwed, Vblanks
  <2>5. waits' \in Seq(FrameIds) /\ waits' # <<>>
    BY <2>1, <2>2
  <2> QED
    BY <1>1, <2>1, <2>3, <2>4, <2>5 DEF FeedbackInv, NothingOwed
<1>3. CASE monitor = "none" /\ hasVsync
  <2>1. vsyncFor' = mFrame /\ UNCHANGED <<mFrame, waits>>
    BY <1>1, <1>3 DEF Arm, NothingOwed
  <2>2. \A i : ~Waits(i)' /\ ~Vblanks(i)'
    BY <1>1, <2>1 DEF NothingOwed, Waits, Vblanks
  <2> QED
    BY <1>1, <2>1, <2>2 DEF FeedbackInv
<1>4. CASE monitor = "none" /\ ~hasVsync
  BY <1>1, <1>4, QuietFeedback DEF Arm, vsyncVars
<1> QED
  BY <1>2, <1>3, <1>4

LEMMA HelperVblankFeedback ==
    ASSUME FeedbackInv, ProtocolInv, NEW r \in WaitResults, HelperVblank(r)
    PROVE  FeedbackInv'
<1> DEFINE e == [signal |-> "vblank", frame |-> Head(waits)]
<1>1. waits \in Seq(FrameIds) /\ waits # <<>> /\ posted \in Seq(Signals)
  BY DEF HelperVblank, FeedbackInv
<1>2. /\ Tail(waits) \in Seq(FrameIds) /\ Head(waits) \in FrameIds
      /\ 1 \in DOMAIN waits /\ waits[1] = Head(waits)
      /\ \A i \in DOMAIN Tail(waits) : i + 1 \in DOMAIN waits /\ i + 1 # 1
  BY <1>1, TailFacts
<1>3. Waits(1) /\ e.frame = mFrame /\ e.signal = "vblank" /\ e \in Signals
  BY <1>2 DEF HelperVblank, FeedbackInv, Waits, Signals
<1>4. posted' = Append(posted, e) /\ UNCHANGED <<mFrame, vsyncFor, stage>>
  BY DEF HelperVblank, vsyncVars
<1> HIDE DEF e
<1>5. /\ Append(posted, e) \in Seq(Signals)
      /\ Append(posted, e)[Len(posted) + 1] = e
      /\ \A i : i \in DOMAIN Append(posted, e) => i = Len(posted) + 1 \/ i \in DOMAIN posted
      /\ \A i \in DOMAIN posted : Append(posted, e)[i] = posted[i]
  BY <1>1, <1>3, AppendFacts
<1>6. \A i : Vblanks(i)' => i = Len(posted) + 1 /\ posted'[i].frame = mFrame
  BY <1>3, <1>4, <1>5 DEF FeedbackInv, Vblanks
<1>7. mFrame # NoFrame /\ vsyncFor = NoFrame /\ stage \notin Presenting
  BY <1>3 DEF FeedbackInv, NothingOwed
<1>8. \A i : i \in DOMAIN waits => i = 1
  BY <1>3 DEF FeedbackInv, Waits, HelperVblank
<1>9. (\A i : ~Waits(i)') /\ waits' \in Seq(FrameIds) /\ (helper' # "idle" => waits' # <<>>)
  BY <1>1, <1>2, <1>8 DEF HelperVblank, Waits
<1> QED
  BY <1>4, <1>5, <1>6, <1>7, <1>9 DEF FeedbackInv

LEMMA HelperErrorFeedback ==
    ASSUME FeedbackInv, HelperError
    PROVE  FeedbackInv'
<1> DEFINE e == [signal |-> "error", frame |-> Head(waits)]
<1>1. waits \in Seq(FrameIds) /\ waits # <<>> /\ posted \in Seq(Signals)
  BY DEF HelperError, FeedbackInv
<1>2. /\ Tail(waits) \in Seq(FrameIds) /\ Head(waits) \in FrameIds
      /\ \A i \in DOMAIN Tail(waits) : i + 1 \in DOMAIN waits /\ i + 1 # 1 /\ Tail(waits)[i] = waits[i + 1]
                                       /\ i \in Nat
  BY <1>1, TailFacts
<1>3. e.signal # "vblank" /\ e \in Signals
  BY <1>2 DEF Signals
<1>4. posted' = Append(posted, e) /\ waits' = Tail(waits) /\ UNCHANGED <<mFrame, vsyncFor, stage>>
      /\ helper' = "idle" /\ helper = "erroring"
  BY DEF HelperError, vsyncVars
<1> HIDE DEF e
<1>5. /\ Append(posted, e) \in Seq(Signals)
      /\ Append(posted, e)[Len(posted) + 1] = e
      /\ \A i : i \in DOMAIN Append(posted, e) => i = Len(posted) + 1 \/ i \in DOMAIN posted
      /\ \A i \in DOMAIN posted : Append(posted, e)[i] = posted[i]
  BY <1>1, <1>3, AppendFacts
<1>6. \A i : Vblanks(i)' => Vblanks(i) /\ posted'[i] = posted[i]
  BY <1>3, <1>4, <1>5 DEF Vblanks
<1>7. \A i : Waits(i)' => Waits(i + 1) /\ waits'[i] = waits[i + 1] /\ i \in Nat
  BY <1>2, <1>4 DEF Waits
<1>8. \A i, j : Waits(i)' /\ Waits(j)' => i = j
  <2> SUFFICES ASSUME NEW i, NEW j, Waits(i)', Waits(j)' PROVE i = j
    OBVIOUS
  <2>1. i + 1 = j + 1 /\ i \in Nat /\ j \in Nat
    BY <1>7 DEF FeedbackInv
  <2> QED
    BY <2>1
<1>9. \A i : Waits(i)' => waits'[i] = mFrame /\ mFrame # NoFrame
  BY <1>7 DEF FeedbackInv
<1>10. \A i : Vblanks(i)' => posted'[i].frame = mFrame /\ mFrame # NoFrame
  BY <1>6 DEF FeedbackInv
<1>11. \A i, j : (Vblanks(i)' /\ Vblanks(j)' => i = j) /\ ~(Waits(i)' /\ Vblanks(j)')
  BY <1>6, <1>7 DEF FeedbackInv
<1>12. vsyncFor # NoFrame \/ stage \in Presenting => \A i : ~Waits(i)' /\ ~Vblanks(i)'
  BY <1>6, <1>7 DEF FeedbackInv, NothingOwed
<1>13. waits' \in Seq(FrameIds) /\ posted' \in Seq(Signals)
  BY <1>2, <1>4, <1>5
<1>14. vsyncFor # NoFrame => vsyncFor = mFrame
  BY DEF FeedbackInv
<1>15. stage \in Presenting => vsyncFor = NoFrame
  BY DEF FeedbackInv, NothingOwed
<1> QED
  BY <1>4, <1>8, <1>9, <1>10, <1>11, <1>12, <1>13, <1>14, <1>15 DEF FeedbackInv, NothingOwed

\* The frame of a delivered feedback is the one m_frame holds.
LEMMA MonitorVblankFeedback ==
    ASSUME FeedbackInv, MonitorVblank
    PROVE  FeedbackInv' /\ mFrame # NoFrame
<1>1. posted \in Seq(Signals) /\ posted # <<>> /\ posted' = Tail(posted) /\ UNCHANGED <<waits, helper, vsyncFor, stage>>
      /\ stage = "idle"
  BY DEF MonitorVblank, FeedbackInv, vsyncVars
<1>2. /\ Tail(posted) \in Seq(Signals)
      /\ 1 \in DOMAIN posted /\ posted[1] = Head(posted)
      /\ \A i \in DOMAIN Tail(posted) : i + 1 \in DOMAIN posted /\ i + 1 # 1 /\ Tail(posted)[i] = posted[i + 1]
  BY <1>1, TailFacts
<1>3. Vblanks(1)
  BY <1>2 DEF MonitorVblank, Vblanks
<1>4. mFrame # NoFrame /\ vsyncFor = NoFrame /\ \A i : ~Waits(i)
  BY <1>3 DEF FeedbackInv
<1>5. \A i : Vblanks(i)' => Vblanks(i + 1) /\ i + 1 # 1
  BY <1>1, <1>2 DEF Vblanks
<1>6. \A i : ~Vblanks(i)'
  BY <1>3, <1>5 DEF FeedbackInv
<1>7. \A i : ~Waits(i)'
  BY <1>1, <1>4 DEF Waits
<1> QED
  BY <1>1, <1>2, <1>4, <1>6, <1>7 DEF FeedbackInv, Presenting

LEMMA VsyncFeedback ==
    ASSUME FeedbackInv, VsyncVblank \/ VsyncError
    PROVE  FeedbackInv' /\ mFrame # NoFrame
<1>1. vsyncFor # NoFrame /\ vsyncFor' = NoFrame /\ UNCHANGED <<waits, posted, helper, stage>> /\ stage = "idle"
  BY DEF VsyncVblank, VsyncError, helperVars
<1>2. \A i : ~Waits(i)' /\ ~Vblanks(i)'
  BY <1>1 DEF FeedbackInv, Waits, Vblanks
<1> QED
  BY <1>1, <1>2 DEF FeedbackInv, Presenting

LEMMA NextFeedback ==
    ASSUME ProtocolInv, Alone, FeedbackInv, [Next]_vars
    PROVE  FeedbackInv'
<1>1. CASE Damage \/ FrameRequested \/ NothingVisible \/ CompositeReturns \/ BeginPaint
           \/ NothingToPaint \/ BeginFrame
  BY <1>1, SilentFeedback DEF Damage, FrameRequested, NothingVisible, CompositeReturns, BeginPaint,
     NothingToPaint, BeginFrame, Return, helperVars, vsyncVars, Presenting
<1>2. ASSUME NEW v \in BOOLEAN, VisibilityNotify(v) PROVE FeedbackInv'
  BY <1>2, SilentFeedback DEF VisibilityNotify, helperVars, vsyncVars
<1>3. ASSUME NEW f \in FrameIds, PrepareNewFrame(f) PROVE FeedbackInv'
  BY <1>3, SilentFeedback DEF PrepareNewFrame, helperVars, vsyncVars, Presenting
<1>4. ASSUME NEW r \in RecreateResults, RecreateSwapchain(r) PROVE FeedbackInv'
  BY <1>4, SilentFeedback DEF RecreateSwapchain, helperVars, vsyncVars, Presenting
<1>5. ASSUME NEW r \in AcquireResults, AcquireNextImage(r) PROVE FeedbackInv'
  BY <1>5, SilentFeedback DEF AcquireNextImage, helperVars, vsyncVars, Presenting
<1>6. CASE GraphicsReset
  BY <1>6, ResetFeedback DEF GraphicsReset, Return, ResetMonitor, Presenting
<1>7. CASE SetupPresentTimingQueue
  BY <1>7, ResetFeedback DEF SetupPresentTimingQueue, vsyncVars, Presenting
<1>8. CASE HandlePresentTimingMonitorError
  BY <1>8, ResetFeedback DEF HandlePresentTimingMonitorError, Presenting
<1>9. CASE HoldFrame
  BY <1>9, HoldFrameFeedback
<1>10. ASSUME NEW r \in PresentResults, QueuePresent(r) PROVE FeedbackInv'
  <2>1. CASE r = "error"
    BY <1>10, <2>1, SilentFeedback DEF QueuePresent, vsyncVars, Presenting
  <2>2. CASE r # "error"
    BY <1>10, <2>2, ArmFeedback DEF QueuePresent, Presenting
  <2> QED
    BY <2>1, <2>2
<1>11. CASE PresentFailed
  <2>1. NothingOwed
    BY <1>11 DEF PresentFailed, FeedbackInv, Presenting
  <2> QED
    BY <1>11, <2>1, QuietFeedback DEF PresentFailed, helperVars, vsyncVars
<1>12. CASE HelperWaits
  BY <1>12 DEF HelperWaits, FeedbackInv, NothingOwed, Waits, Vblanks, vsyncVars
<1>13. ASSUME NEW r \in WaitResults, HelperVblank(r) PROVE FeedbackInv'
  BY <1>13, HelperVblankFeedback
<1>14. CASE HelperError
  BY <1>14, HelperErrorFeedback
<1>15. CASE MonitorVblank
  BY <1>15, MonitorVblankFeedback
<1>16. CASE VsyncVblank \/ VsyncError
  BY <1>16, VsyncFeedback
<1>17. CASE UNCHANGED vars
  BY <1>17, SilentFeedback DEF vars, helperVars, vsyncVars
<1> QED
  BY <1>1, <1>2, <1>3, <1>4, <1>5, <1>6, <1>7, <1>8, <1>9, <1>10, <1>11, <1>12, <1>13, <1>14,
     <1>15, <1>16, <1>17 DEF Next, Composite, Helper, Events

-----------------------------------------------------------------------------
(* Types. *)

BackendTypes ==
    /\ swapchain \in {"valid", "incomplete", "none"}
    /\ monitor \in {"none", "live", "stale"}
    /\ helper \in {"idle", "waiting", "erroring"}
    /\ vsyncFor \in Frames0
    /\ needsRecreation \in BOOLEAN /\ hasVsync \in BOOLEAN
    /\ visible \in BOOLEAN /\ damaged \in BOOLEAN /\ dirty \in BOOLEAN
    /\ degraded \in BOOLEAN /\ presentTiming \in BOOLEAN

LEMMA InitTypes == Init => BackendTypes
BY ResultsAssumption DEF Init, BackendTypes, Frames0

LEMMA NextTypes ==
    ASSUME BackendTypes, ProtocolInv, [Next]_vars
    PROVE  BackendTypes'
<1> USE DEF BackendTypes
<1>1. CASE Damage \/ \E v \in BOOLEAN : VisibilityNotify(v)
  BY <1>1 DEF Damage, VisibilityNotify, AddRepaint, chainVars, helperVars, vsyncVars, envVars
<1>2. CASE FrameRequested \/ NothingVisible \/ CompositeReturns \/ BeginPaint \/ NothingToPaint
           \/ BeginFrame \/ HoldFrame \/ PresentFailed
  BY <1>2 DEF FrameRequested, NothingVisible, CompositeReturns, BeginPaint, NothingToPaint,
     BeginFrame, HoldFrame, PresentFailed, chainVars, helperVars, vsyncVars, sceneVars, envVars
<1>3. ASSUME NEW f \in FrameIds, PrepareNewFrame(f) PROVE BackendTypes'
  BY <1>3 DEF PrepareNewFrame, chainVars, helperVars, vsyncVars, sceneVars, envVars
<1>4. CASE GraphicsReset
  BY <1>4 DEF GraphicsReset, Frames0
<1>5. ASSUME NEW r \in RecreateResults, RecreateSwapchain(r) PROVE BackendTypes'
  BY <1>5, ResultsAssumption DEF RecreateSwapchain, Recreate, helperVars, vsyncVars, sceneVars
<1>6. CASE SetupPresentTimingQueue
  BY <1>6 DEF SetupPresentTimingQueue, ResetMonitor, vsyncVars, sceneVars, envVars
<1>7. ASSUME NEW r \in AcquireResults, AcquireNextImage(r) PROVE BackendTypes'
  BY <1>7 DEF AcquireNextImage, helperVars, vsyncVars
<1>8. ASSUME NEW r \in PresentResults, QueuePresent(r) PROVE BackendTypes'
  <2>1. vsyncFor' \in Frames0 /\ hasVsync' \in BOOLEAN
    BY <1>8 DEF QueuePresent, Arm, vsyncVars, ProtocolInv
  <2> QED
    BY <1>8, <2>1 DEF QueuePresent, sceneVars, envVars
<1>9. CASE HelperWaits \/ HelperError
  BY <1>9 DEF HelperWaits, HelperError, chainVars, vsyncVars, sceneVars, envVars
<1>10. ASSUME NEW r \in WaitResults, HelperVblank(r) PROVE BackendTypes'
  BY <1>10 DEF HelperVblank, chainVars, vsyncVars, sceneVars
<1>11. CASE MonitorVblank
  BY <1>11 DEF MonitorVblank, chainVars, vsyncVars, sceneVars, envVars
<1>12. CASE HandlePresentTimingMonitorError
  BY <1>12 DEF HandlePresentTimingMonitorError, ResetMonitor, sceneVars, envVars
<1>13. CASE VsyncVblank \/ VsyncError
  BY <1>13 DEF VsyncVblank, VsyncError, chainVars, helperVars, sceneVars, envVars, Frames0
<1>14. CASE UNCHANGED vars
  BY <1>14 DEF vars, chainVars, helperVars, vsyncVars, sceneVars, envVars
<1> QED
  BY <1>1, <1>2, <1>3, <1>4, <1>5, <1>6, <1>7, <1>8, <1>9, <1>10, <1>11, <1>12, <1>13, <1>14
     DEF Next, Composite, Helper, Events

-----------------------------------------------------------------------------
(* Until the driver fails in a way feedback does not survive. *)

UndegradedInv ==
    ~degraded =>
        /\ swapchain = "valid"
        /\ helper # "erroring"
        /\ \A i \in DOMAIN posted : posted[i].signal # "error"
        /\ monitor = "stale" => stage \in {"rebuild", "rebuildFailed"}
        /\ waits # <<>> => monitor = "live"
        /\ mFrame # NoFrame /\ stage \notin Presenting =>
               waits # <<>> \/ (\E i : Vblanks(i)) \/ vsyncFor # NoFrame

Inv == ProtocolInv /\ Alone /\ FeedbackInv /\ BackendTypes /\ UndegradedInv

LEMMA InitUndegraded == Init => UndegradedInv
BY DEF Init, UndegradedInv

\* Without a failure all of the queued waits count.
LEMMA QuietQueue ==
    ASSUME Inv, ~degraded, mFrame = NoFrame \/ stage \in Presenting
    PROVE  waits = <<>>
<1> SUFFICES ASSUME waits # <<>> PROVE FALSE
  OBVIOUS
<1>1. 1 \in DOMAIN waits
  BY TailFacts DEF Inv, FeedbackInv
<1>2. Waits(1)
  BY <1>1 DEF Inv, UndegradedInv, Waits
<1> QED
  BY <1>2 DEF Inv, FeedbackInv, NothingOwed

\* Steps that leave the backend and its feedback alone.
LEMMA SilentUndegraded ==
    ASSUME Inv, UNCHANGED <<waits, posted, vsyncFor, helper, mFrame, swapchain, monitor>>,
           ~degraded' => ~degraded,
           stage \in Presenting => stage' \in Presenting,
           stage \notin {"rebuild", "rebuildFailed"}
    PROVE  UndegradedInv'
BY DEF Inv, UndegradedInv, Vblanks

LEMMA RecreateUndegraded ==
    ASSUME Inv, NEW r \in RecreateResults, RecreateSwapchain(r)
    PROVE  UndegradedInv'
<1> SUFFICES ASSUME ~degraded' PROVE UndegradedInv'
  BY DEF UndegradedInv
<1>1. ~degraded /\ r = "ok" /\ swapchain' = "valid"
      /\ stage' \in {"rebuild", "rebuildFailed"} /\ UNCHANGED <<waits, posted, helper, vsyncFor, mFrame>>
  BY DEF RecreateSwapchain, Recreate, helperVars, vsyncVars
<1>2. mFrame = NoFrame \/ stage \in Presenting
  BY DEF RecreateSwapchain, Inv, Alone, Painting, Presenting
<1>3. waits = <<>>
  BY <1>1, <1>2, QuietQueue
<1>4. mFrame = NoFrame \/ stage' = "rebuildFailed"
  BY <1>1 DEF RecreateSwapchain, Inv, Alone, Painting
<1> QED
  BY <1>1, <1>3, <1>4 DEF Inv, UndegradedInv, Presenting

LEMMA SetupUndegraded ==
    ASSUME Inv, SetupPresentTimingQueue
    PROVE  UndegradedInv'
<1>1. waits' = <<>> /\ posted' = <<>> /\ DOMAIN posted' = {} /\ helper' = "idle" /\ monitor' # "stale"
  BY DEF SetupPresentTimingQueue, ResetMonitor
<1>2. mFrame' = NoFrame \/ stage' \in Presenting
  BY DEF SetupPresentTimingQueue, Inv, Alone, Painting, Presenting
<1> QED
  BY <1>1, <1>2 DEF SetupPresentTimingQueue, Inv, UndegradedInv, envVars

LEMMA HoldFrameUndegraded ==
    ASSUME Inv, HoldFrame
    PROVE  UndegradedInv'
<1> SUFFICES ASSUME ~degraded' PROVE UndegradedInv'
  BY DEF UndegradedInv
<1>1. ~degraded /\ swapchain = "valid" /\ stage' \in Presenting /\ monitor # "stale"
  BY DEF HoldFrame, Inv, UndegradedInv, Presenting, envVars
<1> QED
  BY <1>1 DEF HoldFrame, Inv, UndegradedInv, chainVars, helperVars

LEMMA QueuePresentUndegraded ==
    ASSUME Inv, NEW r \in PresentResults, QueuePresent(r)
    PROVE  UndegradedInv'
<1> SUFFICES ASSUME ~degraded' PROVE UndegradedInv'
  BY DEF UndegradedInv
<1>1. /\ ~degraded /\ monitor # "stale" /\ swapchain = "valid" /\ waits = <<>> /\ stage = "queue"
      /\ UNCHANGED <<swapchain, monitor, helper, posted>>
  BY QuietQueue DEF QueuePresent, Inv, UndegradedInv, Presenting, envVars
<1>2. CASE r = "error"
  BY <1>1, <1>2, SilentUndegraded DEF QueuePresent, vsyncVars, Presenting
<1>3. CASE r # "error" /\ monitor # "none"
  <2>1. waits' = Append(waits, mFrame) /\ monitor' = "live"
    BY <1>1, <1>3 DEF QueuePresent, Arm, Inv, BackendTypes
  <2>2. waits' # <<>>
    BY <1>1, <2>1 DEF Inv, FeedbackInv
  <2> QED
    BY <1>1, <2>1, <2>2 DEF Inv, UndegradedInv
<1>4. CASE r # "error" /\ monitor = "none" /\ hasVsync
  <2>1. mFrame' # NoFrame => vsyncFor' # NoFrame
    BY <1>4 DEF QueuePresent, Arm
  <2>2. waits' = <<>>
    BY <1>1, <1>4 DEF QueuePresent, Arm
  <2> QED
    BY <1>1, <2>1, <2>2 DEF Inv, UndegradedInv
<1>5. CASE r # "error" /\ monitor = "none" /\ ~hasVsync
  <2>1. mFrame' = NoFrame /\ waits' = <<>>
    BY <1>1, <1>5 DEF QueuePresent, Arm, ResolveFrame
  <2> QED
    BY <1>1, <2>1 DEF Inv, UndegradedInv
<1> QED
  BY <1>2, <1>3, <1>4, <1>5

LEMMA PresentFailedUndegraded ==
    ASSUME Inv, PresentFailed
    PROVE  UndegradedInv'
<1> SUFFICES ASSUME ~degraded' PROVE UndegradedInv'
  BY DEF UndegradedInv
<1>1. ~degraded /\ monitor # "stale" /\ mFrame' = NoFrame
  BY DEF PresentFailed, ResolveFrame, Inv, UndegradedInv, envVars
<1> QED
  BY <1>1 DEF PresentFailed, Inv, UndegradedInv, chainVars, helperVars

LEMMA HelperUndegraded ==
    ASSUME Inv, HelperWaits \/ HelperError \/ \E r \in WaitResults : HelperVblank(r)
    PROVE  UndegradedInv'
<1> SUFFICES ASSUME ~degraded' PROVE UndegradedInv'
  BY DEF UndegradedInv
<1>1. CASE HelperWaits
  BY <1>1 DEF HelperWaits, Inv, UndegradedInv, Vblanks, chainVars, vsyncVars, envVars
<1>2. CASE HelperError
  BY <1>2 DEF HelperError, Inv, UndegradedInv, envVars
<1>3. ASSUME NEW r \in WaitResults, HelperVblank(r) PROVE UndegradedInv'
  <2> DEFINE e == [signal |-> "vblank", frame |-> Head(waits)]
  <2>1. /\ ~degraded /\ helper' = "idle" /\ waits # <<>> /\ posted' = Append(posted, e)
        /\ UNCHANGED <<swapchain, monitor, stage, mFrame>>
    BY <1>3 DEF HelperVblank, chainVars, Inv, FeedbackInv
  <2>2. waits \in Seq(FrameIds) /\ posted \in Seq(Signals)
    BY DEF Inv, FeedbackInv
  <2>3. e \in Signals /\ e.signal = "vblank"
    BY <2>1, <2>2, TailFacts DEF Signals
  <2> HIDE DEF e
  <2>4. /\ Len(posted) + 1 \in DOMAIN Append(posted, e)
        /\ Append(posted, e)[Len(posted) + 1] = e
        /\ \A i : i \in DOMAIN Append(posted, e) => i = Len(posted) + 1 \/ i \in DOMAIN posted
        /\ \A i \in DOMAIN posted : Append(posted, e)[i] = posted[i]
    BY <2>2, <2>3, AppendFacts
  <2>5. \E i : Vblanks(i)'
    BY <2>1, <2>3, <2>4 DEF Vblanks
  <2>6. \A i \in DOMAIN posted' : posted'[i].signal # "error"
    BY <2>1, <2>3, <2>4 DEF Inv, UndegradedInv
  <2> QED
    BY <2>1, <2>5, <2>6 DEF Inv, UndegradedInv
<1> QED
  BY <1>1, <1>2, <1>3

LEMMA EventsUndegraded ==
    ASSUME Inv, MonitorVblank \/ HandlePresentTimingMonitorError \/ VsyncVblank \/ VsyncError
    PROVE  UndegradedInv'
<1> SUFFICES ASSUME ~degraded' PROVE UndegradedInv'
  BY DEF UndegradedInv
<1>1. CASE MonitorVblank
  <2>1. mFrame # NoFrame
    BY <1>1, MonitorVblankFeedback DEF Inv
  <2>2. /\ ~degraded /\ mFrame' = NoFrame /\ posted' = Tail(posted) /\ posted # <<>>
        /\ UNCHANGED <<waits, helper, swapchain, monitor, stage>>
    BY <1>1, <2>1 DEF MonitorVblank, Vblank, ResolveFrame, chainVars, envVars
  <2>3. \A i \in DOMAIN Tail(posted) : i + 1 \in DOMAIN posted /\ Tail(posted)[i] = posted[i + 1]
    BY <2>2, TailFacts DEF Inv, FeedbackInv
  <2>4. \A i \in DOMAIN posted' : posted'[i].signal # "error"
    BY <2>2, <2>3 DEF Inv, UndegradedInv
  <2> QED
    BY <2>2, <2>4 DEF Inv, UndegradedInv
<1>2. CASE HandlePresentTimingMonitorError
  <2>1. ~degraded /\ posted # <<>> /\ Head(posted).signal = "error"
    BY <1>2 DEF HandlePresentTimingMonitorError, envVars
  <2>2. 1 \in DOMAIN posted /\ posted[1] = Head(posted)
    BY <2>1, TailFacts DEF Inv, FeedbackInv
  <2> QED
    BY <2>1, <2>2 DEF Inv, UndegradedInv
<1>3. CASE VsyncVblank
  <2>1. mFrame # NoFrame
    BY <1>3, VsyncFeedback DEF Inv
  <2>2. /\ ~degraded /\ mFrame' = NoFrame
        /\ UNCHANGED <<waits, posted, helper, swapchain, monitor, stage>>
    BY <1>3, <2>1 DEF VsyncVblank, Vblank, ResolveFrame, chainVars, helperVars, envVars
  <2> QED
    BY <2>2 DEF Inv, UndegradedInv
<1>4. CASE VsyncError
  BY <1>4 DEF VsyncError
<1> QED
  BY <1>1, <1>2, <1>3, <1>4

LEMMA NextUndegraded ==
    ASSUME Inv, [Next]_vars
    PROVE  UndegradedInv'
<1>1. CASE Damage \/ FrameRequested \/ NothingVisible \/ CompositeReturns \/ BeginPaint
           \/ NothingToPaint \/ BeginFrame
  BY <1>1, SilentUndegraded DEF Damage, FrameRequested, NothingVisible, CompositeReturns, BeginPaint,
     NothingToPaint, BeginFrame, Return, chainVars, helperVars, vsyncVars, envVars, Presenting
<1>2. ASSUME NEW v \in BOOLEAN, VisibilityNotify(v) PROVE UndegradedInv'
  BY <1>2, SilentUndegraded DEF VisibilityNotify, chainVars, helperVars, vsyncVars, envVars, Presenting
<1>3. ASSUME NEW f \in FrameIds, PrepareNewFrame(f) PROVE UndegradedInv'
  BY <1>3, SilentUndegraded DEF PrepareNewFrame, chainVars, helperVars, vsyncVars, envVars, Presenting
<1>4. ASSUME NEW r \in AcquireResults, AcquireNextImage(r) PROVE UndegradedInv'
  BY <1>4, SilentUndegraded DEF AcquireNextImage, helperVars, vsyncVars, Presenting
<1>5. CASE GraphicsReset
  BY <1>5 DEF GraphicsReset, UndegradedInv
<1>6. CASE UNCHANGED vars
  BY <1>6 DEF vars, Inv, UndegradedInv, Vblanks, chainVars, helperVars, vsyncVars, envVars
<1> QED
  BY <1>1, <1>2, <1>3, <1>4, <1>5, <1>6, RecreateUndegraded, SetupUndegraded, HoldFrameUndegraded,
     QueuePresentUndegraded, PresentFailedUndegraded, HelperUndegraded, EventsUndegraded
     DEF Next, Composite, Helper, Events

-----------------------------------------------------------------------------
(* The theorems. *)

\* With a pipeline one frame deep, which is what the X11 backend has, the
\* invariant of this module holds in every state of every behaviour.
THEOREM Invariance == MaxPendingFrameCount = 1 => (Spec => []Inv)
<1> SUFFICES ASSUME MaxPendingFrameCount = 1 PROVE Spec => []Inv
  OBVIOUS
<1> DEFINE Base == ProtocolInv /\ Alone
<1>1. Spec => []Base
  <2>1. ProtocolInv /\ Loop!IndInv => Base
    BY PipelineEmpty
  <2>2. Spec => []ProtocolInv
    BY InitProtocol, NextProtocol, PTL DEF Spec
  <2> QED
    BY <2>1, <2>2, LoopInvariance, PTL
<1>2. Init => FeedbackInv /\ BackendTypes /\ UndegradedInv
  BY InitFeedback, InitTypes, InitUndegraded
<1>3. Base /\ FeedbackInv /\ BackendTypes /\ UndegradedInv /\ [Next]_vars
        => FeedbackInv' /\ BackendTypes' /\ UndegradedInv'
  BY NextFeedback, NextTypes, NextUndegraded DEF Inv
<1>4. Base /\ FeedbackInv /\ BackendTypes /\ UndegradedInv => Inv
  BY DEF Inv
<1> QED
  BY <1>1, <1>2, <1>3, <1>4, PTL DEF Spec

\* The members of the backend keep their types.
THEOREM TypeCorrect == MaxPendingFrameCount = 1 => (Spec => []TypeOK)
<1>1. Inv /\ Loop!IndInv => TypeOK
  BY DEF Inv, ProtocolInv, BackendTypes, FeedbackInv, Signals, Loop!IndInv, Loop!TypeOK, TypeOK
<1> QED
  BY <1>1, Invariance, LoopInvariance, PTL

\* A feedback, however late it is delivered, meets the frame it was asked for.
THEOREM FeedbackIsRight == MaxPendingFrameCount = 1 => (Spec => []FeedbackMatchesFrame)
<1>1. ASSUME Inv PROVE FeedbackMatchesFrame
  <2>1. ASSUME helper = "waiting" PROVE Head(waits) = mFrame
    <3>1. 1 \in DOMAIN waits /\ waits[1] = Head(waits)
      BY <1>1, <2>1, TailFacts DEF Inv, FeedbackInv
    <3> QED
      BY <1>1, <2>1, <3>1 DEF Inv, FeedbackInv, Waits
  <2> QED
    BY <1>1, <2>1 DEF Inv, FeedbackInv, Vblanks, FeedbackMatchesFrame
<1> QED
  BY <1>1, Invariance, PTL

\* m_frame is resolved once: it is always a frame that was not resolved, and
\* present() never drops one to hold the next.
THEOREM HeldIsUnresolved == MaxPendingFrameCount = 1 => (Spec => []HeldFrameUnresolved)
<1>1. Inv => HeldFrameUnresolved
  BY DEF Inv, ProtocolInv, Alone, Painting, HeldFrameUnresolved
<1> QED
  BY <1>1, Invariance, PTL

\* While the driver has not failed in a way feedback does not survive, the
\* frame in flight has feedback under way.
THEOREM FeedbackIsOwed == MaxPendingFrameCount = 1 => (Spec => []FrameOwedFeedback)
<1>1. Inv => FrameOwedFeedback
  BY DEF Inv, UndegradedInv, Vblanks, Presenting, FrameOwedFeedback, NotStranded, FeedbackOwed
<1> QED
  BY <1>1, Invariance, PTL

\* Until then the helper thread never waits on a handle that was destroyed.
THEOREM HelperHandleLives == MaxPendingFrameCount = 1 => (Spec => []HelperOnLiveHandle)
<1>1. Inv => HelperOnLiveHandle
  BY DEF Inv, FeedbackInv, UndegradedInv, HelperOnLiveHandle, HandleOutlivesWait
<1> QED
  BY <1>1, Invariance, PTL

=============================================================================
