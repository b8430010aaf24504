-------------------------- MODULE RenderLoopProofs --------------------------
(***************************************************************************)
(* Safety of RenderLoop for every set of frames, every limit of pending    *)
(* frames and every nesting of inhibit().  IndInv is inductive; the        *)
(* invariants the runs check are its conjuncts or follow from them.        *)
(***************************************************************************)
EXTENDS RenderLoop, FiniteSetTheorems, TLAPS

USE FrameIdsAssumption, MaxPendingAssumption, ModesAssumption, MaxInhibitAssumption

\* The set of frames in flight is finite, and its size changes by one when a
\* frame is constructed or resolved.
LEMMA FrameCardinality ==
    ASSUME frames \subseteq FrameIds
    PROVE  /\ IsFiniteSet(frames)
           /\ Cardinality(frames) \in Nat
           /\ Cardinality(frames) = 0 <=> frames = {}
           /\ \A f \in FrameIds \ frames :
                 Cardinality(frames \union {f}) = Cardinality(frames) + 1
           /\ \A f \in frames :
                 Cardinality(frames \ {f}) = Cardinality(frames) - 1
<1>1. IsFiniteSet(frames)
  BY FS_Subset
<1> QED
  BY <1>1, FS_CardinalityType, FS_EmptySet, FS_AddElement, FS_RemoveElement

\* ScheduleNextRepaint only ever turns the timer on, and it clears
\* pendingReschedule exactly then.
LEMMA ScheduleNextRepaintFacts ==
    ASSUME NEW l \in LoopStates, terminating \in BOOLEAN
    PROVE  LET r == ScheduleNextRepaint(l)
           IN  /\ r \in LoopStates
               /\ r.pendingFrameCount = l.pendingFrameCount
               /\ r.inhibitCount = l.inhibitCount
               /\ r.pendingRepaint = l.pendingRepaint
               /\ r.delayedVrrTimer = l.delayedVrrTimer
               /\ r.compositeTimer \/ terminating
               /\ terminating => r = l
BY DEF ScheduleNextRepaint, StartTimer, LoopStates

LEMMA ScheduleRepaintFacts ==
    ASSUME NEW l \in LoopStates, terminating \in BOOLEAN
    PROVE  LET r == ScheduleRepaint(l)
           IN  /\ r \in LoopStates
               /\ r.pendingFrameCount = l.pendingFrameCount
               /\ r.inhibitCount = l.inhibitCount
               /\ r.pendingRepaint = l.pendingRepaint
               /\ l.pendingRepaint => r = l
               /\ r.compositeTimer /\ ~l.compositeTimer
                    => l.inhibitCount = 0 /\ l.pendingFrameCount < MaxPendingFrameCount
               /\ ~l.pendingRepaint /\ ~terminating
                    => \/ r.compositeTimer
                       \/ l.inhibitCount > 0
                       \/ r.pendingReschedule /\ l.pendingFrameCount > 0
<1>1. EffectiveMaxPending \in Nat /\ 0 < EffectiveMaxPending
      /\ EffectiveMaxPending <= MaxPendingFrameCount
  BY DEF EffectiveMaxPending
<1> HIDE DEF EffectiveMaxPending
<1>2. CASE l.pendingRepaint
  BY <1>2 DEF ScheduleRepaint, LoopStates
<1>3. CASE ~l.pendingRepaint
  <2> DEFINE now == [l EXCEPT !.delayedVrrTimer = FALSE]
  <2>1. now \in LoopStates
    BY DEF LoopStates
  <2>2. CASE now.pendingFrameCount < EffectiveMaxPending /\ now.inhibitCount = 0
    <3>1. ScheduleRepaint(l) = ScheduleNextRepaint(now)
      BY <1>3, <2>2 DEF ScheduleRepaint
    <3> QED
      BY <1>1, <1>3, <2>1, <2>2, <3>1, ScheduleNextRepaintFacts DEF LoopStates
  <2>3. CASE ~(now.pendingFrameCount < EffectiveMaxPending /\ now.inhibitCount = 0)
    <3> DEFINE r == [now EXCEPT !.pendingReschedule = TRUE]
    <3>1. ScheduleRepaint(l) = r
      BY <1>3, <2>3 DEF ScheduleRepaint
    <3>2. /\ r \in LoopStates
          /\ r.pendingFrameCount = l.pendingFrameCount
          /\ r.inhibitCount = l.inhibitCount
          /\ r.pendingRepaint = l.pendingRepaint
          /\ r.compositeTimer = l.compositeTimer
          /\ r.pendingReschedule
      BY DEF LoopStates
    <3>3. l.pendingFrameCount \in Int /\ l.inhibitCount \in Nat
      BY DEF LoopStates
    <3>4. l.inhibitCount > 0 \/ l.pendingFrameCount > 0
      BY <1>1, <2>3, <3>3 DEF LoopStates
    <3>5. (r.compositeTimer /\ ~l.compositeTimer) = FALSE
      BY <3>2
    <3> HIDE DEF r
    <3> QED
      BY <1>3, <3>1, <3>2, <3>4, <3>5
  <2> QED
    BY <2>2, <2>3
<1> QED
  BY <1>2, <1>3

\* Counting a frame off leaves every other member alone.
LEMMA CountOffFacts ==
    ASSUME NEW l \in LoopStates
    PROVE  LET r == [l EXCEPT !.pendingFrameCount = @ - 1]
           IN  /\ r \in LoopStates
               /\ r.pendingFrameCount = l.pendingFrameCount - 1
               /\ r.inhibitCount = l.inhibitCount
               /\ r.pendingRepaint = l.pendingRepaint
               /\ r.delayedVrrTimer = l.delayedVrrTimer
               /\ r.compositeTimer = l.compositeTimer
               /\ r.pendingReschedule = l.pendingReschedule
<1>1. l.pendingFrameCount - 1 \in Int
  BY DEF LoopStates
<1> QED
  BY <1>1 DEF LoopStates

LEMMA StartTimerFacts ==
    ASSUME NEW l \in LoopStates
    PROVE  LET r == StartTimer(l)
           IN  /\ r \in LoopStates
               /\ r.pendingFrameCount = l.pendingFrameCount
               /\ r.inhibitCount = l.inhibitCount
               /\ r.pendingRepaint = l.pendingRepaint
               /\ r.delayedVrrTimer = l.delayedVrrTimer
               /\ r.compositeTimer = TRUE
               /\ r.pendingReschedule = FALSE
BY DEF LoopStates, StartTimer

LEMMA RescheduleFacts ==
    ASSUME NEW l \in LoopStates, terminating \in BOOLEAN
    PROVE  LET r == RescheduleIfPending(l)
           IN  /\ r \in LoopStates
               /\ r.pendingFrameCount = l.pendingFrameCount
               /\ r.inhibitCount = l.inhibitCount
               /\ r.pendingRepaint = l.pendingRepaint
               /\ r.delayedVrrTimer = l.delayedVrrTimer
               /\ l.compositeTimer => r = l
               /\ l.inhibitCount > 0 => r = l
               /\ l.inhibitCount = 0 /\ l.pendingReschedule
                    => r.compositeTimer \/ terminating
               /\ r.compositeTimer => l.compositeTimer \/ l.inhibitCount = 0
<1>1. CASE l.inhibitCount = 0 /\ l.pendingReschedule
  <2>1. RescheduleIfPending(l) = ScheduleNextRepaint(l)
    BY <1>1 DEF RescheduleIfPending
  <2>2. l.compositeTimer => ScheduleNextRepaint(l) = l
    BY DEF ScheduleNextRepaint
  <2> QED
    BY <1>1, <2>1, <2>2, ScheduleNextRepaintFacts
<1>2. CASE ~(l.inhibitCount = 0 /\ l.pendingReschedule)
  BY <1>2 DEF RescheduleIfPending
<1> QED
  BY <1>1, <1>2

\* What a resolved frame does to the loop, whichever way it was resolved.
LEMMA NotifyFacts ==
    ASSUME NEW l \in LoopStates, terminating \in BOOLEAN,
           l.inhibitCount > 0 => ~l.compositeTimer,
           NEW r \in {NotifyFrameDropped(l), NotifyFrameCompleted(l)}
    PROVE  /\ r \in LoopStates
           /\ r.pendingFrameCount = l.pendingFrameCount - 1
           /\ r.inhibitCount = l.inhibitCount
           /\ r.pendingRepaint = l.pendingRepaint
           /\ r.delayedVrrTimer = l.delayedVrrTimer
           /\ l.compositeTimer => r.compositeTimer
           /\ l.inhibitCount > 0 => ~r.compositeTimer
           /\ l.pendingReschedule /\ l.inhibitCount = 0
                => r.compositeTimer \/ terminating
<1> DEFINE done == [l EXCEPT !.pendingFrameCount = @ - 1]
<1>1. /\ done \in LoopStates
      /\ done.pendingFrameCount = l.pendingFrameCount - 1
      /\ done.inhibitCount = l.inhibitCount
      /\ done.pendingRepaint = l.pendingRepaint
      /\ done.delayedVrrTimer = l.delayedVrrTimer
      /\ done.compositeTimer = l.compositeTimer
      /\ done.pendingReschedule = l.pendingReschedule
  BY CountOffFacts
<1>2. /\ NotifyFrameDropped(l) = RescheduleIfPending(done)
      /\ NotifyFrameCompleted(l) =
           RescheduleIfPending(IF done.compositeTimer THEN StartTimer(done) ELSE done)
  BY DEF NotifyFrameDropped, NotifyFrameCompleted
<1>3. l.inhibitCount \in Nat
  BY DEF LoopStates
<1> HIDE DEF done
<1>4. CASE r = RescheduleIfPending(done)
  BY <1>1, <1>3, <1>4, RescheduleFacts
<1>5. CASE done.compositeTimer /\ r = RescheduleIfPending(StartTimer(done))
  <2>1. r = StartTimer(done)
    BY <1>1, <1>5, StartTimerFacts, RescheduleFacts
  <2> QED
    BY <1>1, <1>5, <2>1, StartTimerFacts
<1> QED
  BY <1>2, <1>4, <1>5

-----------------------------------------------------------------------------
LEMMA InitIndInv == Init => IndInv
<1> SUFFICES ASSUME Init PROVE IndInv
  OBVIOUS
<1>1. Cardinality({}) = 0
  BY FS_EmptySet
<1>2. TypeOK
  <2>1. loop \in LoopStates
    BY DEF Init, InitialLoop, LoopStates
  <2> QED
    BY <2>1 DEF Init, TypeOK, Cycles
<1>3. /\ loop.compositeTimer = FALSE
      /\ loop.pendingFrameCount = 0
      /\ loop.inhibitCount = 0
      /\ loop.pendingRepaint = FALSE
  BY DEF Init, InitialLoop
<1>4. cycle = "idle" /\ frames = {} /\ requested = FALSE
  BY DEF Init
<1>5. PendingRepaintInv /\ FrameCountExact /\ RequestNotLost /\ InhibitedIsPaused
  BY <1>1, <1>3, <1>4 DEF PendingRepaintInv, OutsideDecision, FrameCountExact,
     RequestNotLost, InhibitedIsPaused
<1>6. CapacityInv
  BY <1>1, <1>3, <1>4 DEF CapacityInv
<1> QED
  BY <1>2, <1>3, <1>5, <1>6 DEF IndInv

\* The steps that leave frames and the count alone and end with a call of
\* scheduleRepaint().
LEMMA ScheduleStep ==
    ASSUME IndInv, NEW l \in LoopStates,
           l.pendingFrameCount = loop.pendingFrameCount,
           l.inhibitCount = loop.inhibitCount,
           l.pendingRepaint = loop.pendingRepaint,
           l.compositeTimer = loop.compositeTimer,
           l.pendingRepaint => l = loop,
           loop' = ScheduleRepaint(l),
           requested' \in BOOLEAN,
           requested' => requested \/ OutsideDecision,
           UNCHANGED <<presentationMode, terminating, cycle, frames, resumed>>
    PROVE  IndInv'
<1> USE DEF IndInv, TypeOK
<1>1. /\ loop' \in LoopStates
      /\ loop'.pendingFrameCount = loop.pendingFrameCount
      /\ loop'.inhibitCount = loop.inhibitCount
      /\ loop'.pendingRepaint = loop.pendingRepaint
      /\ loop.pendingRepaint => loop' = loop
      /\ loop'.compositeTimer /\ ~loop.compositeTimer
           => loop.inhibitCount = 0 /\ loop.pendingFrameCount < MaxPendingFrameCount
      /\ ~loop.pendingRepaint /\ ~terminating
           => \/ loop'.compositeTimer
              \/ loop.inhibitCount > 0
              \/ loop'.pendingReschedule /\ loop.pendingFrameCount > 0
  BY ScheduleRepaintFacts
<1>2. /\ Cardinality(frames) \in Nat
      /\ Cardinality(frames) = 0 <=> frames = {}
  BY FrameCardinality
<1>3. TypeOK' /\ loop'.inhibitCount <= MaxInhibit
  BY <1>1
<1>4. PendingRepaintInv' /\ FrameCountExact'
  BY <1>1 DEF PendingRepaintInv, OutsideDecision, FrameCountExact
<1>5. RequestNotLost'
  <2>1. CASE loop.pendingRepaint
    <3>1. loop' = loop /\ (requested' => requested)
      BY <1>1, <2>1 DEF PendingRepaintInv
    <3> QED
      BY <3>1 DEF RequestNotLost
  <2>2. CASE ~loop.pendingRepaint
    BY <1>1, <1>2, <2>2 DEF RequestNotLost, FrameCountExact
  <2> QED
    BY <2>1, <2>2
<1>6. InhibitedIsPaused'
  BY <1>1 DEF InhibitedIsPaused
<1>7. CapacityInv'
  <2> SUFFICES ASSUME ~resumed'
               PROVE  CapacityInv'
    BY DEF CapacityInv
  <2>1. CASE loop' = loop
    BY <2>1 DEF CapacityInv
  <2>2. CASE loop' # loop
    <3>1. cycle # "requested"
      BY <1>1, <2>2 DEF PendingRepaintInv, OutsideDecision
    <3>2. CASE loop'.compositeTimer /\ ~loop.compositeTimer
      BY <1>1, <1>2, <3>1, <3>2 DEF CapacityInv, FrameCountExact
    <3>3. CASE ~(loop'.compositeTimer /\ ~loop.compositeTimer)
      BY <1>1, <1>2, <3>1, <3>3 DEF CapacityInv, FrameCountExact
    <3> QED
      BY <3>2, <3>3
  <2> QED
    BY <2>1, <2>2
<1> QED
  BY <1>3, <1>4, <1>5, <1>6, <1>7

\* The steps that resolve a frame.
LEMMA ResolveStep ==
    ASSUME IndInv, NEW f \in frames,
           loop' \in {NotifyFrameDropped(loop), NotifyFrameCompleted(loop)},
           frames' = frames \ {f},
           UNCHANGED <<presentationMode, terminating, cycle, requested, resumed>>
    PROVE  IndInv'
<1> USE DEF IndInv, TypeOK
<1>1. /\ loop' \in LoopStates
      /\ loop'.pendingFrameCount = loop.pendingFrameCount - 1
      /\ loop'.inhibitCount = loop.inhibitCount
      /\ loop'.pendingRepaint = loop.pendingRepaint
      /\ loop'.delayedVrrTimer = loop.delayedVrrTimer
      /\ loop.compositeTimer => loop'.compositeTimer
      /\ loop.inhibitCount > 0 => ~loop'.compositeTimer
      /\ loop.pendingReschedule /\ loop.inhibitCount = 0
           => loop'.compositeTimer \/ terminating
  <2>1. loop.inhibitCount > 0 => ~loop.compositeTimer
    BY DEF InhibitedIsPaused
  <2> QED
    BY <2>1, NotifyFacts
<1>2. /\ Cardinality(frames) \in Nat
      /\ Cardinality(frames') = Cardinality(frames) - 1
  BY FrameCardinality
<1>3. TypeOK' /\ loop'.inhibitCount <= MaxInhibit
  BY <1>1
<1>4. PendingRepaintInv' /\ FrameCountExact'
  BY <1>1, <1>2 DEF PendingRepaintInv, OutsideDecision, FrameCountExact
<1>5. RequestNotLost'
  <2>1. loop.inhibitCount \in Nat
    BY DEF LoopStates
  <2> QED
    BY <1>1, <2>1 DEF RequestNotLost
<1>6. InhibitedIsPaused'
  BY <1>1 DEF InhibitedIsPaused
<1>7. CapacityInv'
  <2>1. ~resumed' =>
          Cardinality(frames) + (IF cycle = "requested" THEN 1 ELSE 0) <= MaxPendingFrameCount
    <3>1. CASE loop.compositeTimer
      BY <1>2, <3>1 DEF CapacityInv
    <3>2. CASE ~loop.compositeTimer
      BY <1>2, <3>2 DEF CapacityInv
    <3> QED
      BY <3>1, <3>2
  <2>2. CASE loop'.compositeTimer
    BY <1>2, <2>1, <2>2 DEF CapacityInv
  <2>3. CASE ~loop'.compositeTimer
    BY <1>2, <2>1, <2>3 DEF CapacityInv
  <2> QED
    BY <2>2, <2>3
<1> QED
  BY <1>3, <1>4, <1>5, <1>6, <1>7

LEMMA NextIndInv == IndInv /\ [Next]_vars => IndInv'
<1> SUFFICES ASSUME IndInv, [Next]_vars PROVE IndInv'
  OBVIOUS
<1> USE DEF IndInv, TypeOK
<1>0. /\ IsFiniteSet(frames)
      /\ Cardinality(frames) \in Nat
      /\ Cardinality(frames) = 0 <=> frames = {}
  BY FrameCardinality
<1>1. CASE RequestRepaint
  BY <1>1, ScheduleStep DEF RequestRepaint, OutsideDecision
<1>2. CASE RequestRepaintBehindActiveWindow
  <2>1. CASE loop.pendingRepaint
    <3>1. loop' = loop /\ requested' = requested
      BY <1>2, <2>1 DEF RequestRepaintBehindActiveWindow, DelayRepaintForVrr, PendingRepaintInv
    <3> QED
      BY <1>2, <3>1 DEF RequestRepaintBehindActiveWindow, PendingRepaintInv, OutsideDecision,
         FrameCountExact, RequestNotLost, InhibitedIsPaused, CapacityInv
  <2>2. CASE ~loop.pendingRepaint
    <3>1. /\ loop' \in LoopStates
          /\ loop'.delayedVrrTimer = TRUE
          /\ loop'.compositeTimer = loop.compositeTimer
          /\ loop'.pendingFrameCount = loop.pendingFrameCount
          /\ loop'.inhibitCount = loop.inhibitCount
          /\ loop'.pendingRepaint = loop.pendingRepaint
      BY <1>2, <2>2 DEF RequestRepaintBehindActiveWindow, DelayRepaintForVrr, LoopStates
    <3>2. requested' \in BOOLEAN
      BY <1>2 DEF RequestRepaintBehindActiveWindow, OutsideDecision
    <3>3. RequestNotLost'
      BY <3>1 DEF RequestNotLost
    <3>4. InhibitedIsPaused' /\ CapacityInv'
      BY <1>2, <3>1 DEF RequestRepaintBehindActiveWindow, InhibitedIsPaused, CapacityInv
    <3> QED
      BY <1>2, <3>1, <3>2, <3>3, <3>4 DEF RequestRepaintBehindActiveWindow, PendingRepaintInv,
         OutsideDecision, FrameCountExact
  <2> QED
    BY <2>1, <2>2
<1>3. CASE DelayedVrrTimeout
  <2> DEFINE l == [loop EXCEPT !.delayedVrrTimer = FALSE]
  <2>1. /\ l \in LoopStates
        /\ l.pendingFrameCount = loop.pendingFrameCount
        /\ l.inhibitCount = loop.inhibitCount
        /\ l.pendingRepaint = loop.pendingRepaint
        /\ l.compositeTimer = loop.compositeTimer
    BY DEF LoopStates
  <2>2. ~loop.pendingRepaint
    BY <1>3 DEF DelayedVrrTimeout, PendingRepaintInv, OutsideDecision
  <2>3. loop' = ScheduleRepaint(l) /\ requested' = requested
    BY <1>3 DEF DelayedVrrTimeout
  <2>4. ~l.pendingRepaint /\ requested' \in BOOLEAN
    BY <2>1, <2>2, <2>3
  <2>5. UNCHANGED <<presentationMode, terminating, cycle, frames, resumed>>
    BY <1>3 DEF DelayedVrrTimeout
  <2> HIDE DEF l
  <2> QED
    BY <2>1, <2>3, <2>4, <2>5, ScheduleStep
<1>4. CASE Dispatch
  <2>1. /\ loop' \in LoopStates
        /\ loop'.compositeTimer = FALSE
        /\ loop'.pendingRepaint = TRUE
        /\ loop'.pendingFrameCount = loop.pendingFrameCount
        /\ loop'.inhibitCount = loop.inhibitCount
    BY <1>4 DEF Dispatch, LoopStates
  <2>2. cycle = "idle" /\ cycle' = "requested" /\ requested' = FALSE
        /\ loop.compositeTimer
        /\ UNCHANGED <<presentationMode, terminating, frames, resumed>>
    BY <1>4 DEF Dispatch
  <2>3. CapacityInv'
    BY <1>0, <2>1, <2>2 DEF CapacityInv
  <2> QED
    BY <2>1, <2>2, <2>3 DEF PendingRepaintInv, OutsideDecision, FrameCountExact,
       RequestNotLost, InhibitedIsPaused, Cycles
<1>5. ASSUME NEW f \in FrameIds, PrepareNewFrame(f) PROVE IndInv'
  <2>1. /\ loop' \in LoopStates
        /\ loop'.compositeTimer = loop.compositeTimer
        /\ loop'.delayedVrrTimer = loop.delayedVrrTimer
        /\ loop'.pendingReschedule = loop.pendingReschedule
        /\ loop'.pendingRepaint = loop.pendingRepaint
        /\ loop'.pendingFrameCount = loop.pendingFrameCount + 1
        /\ loop'.inhibitCount = loop.inhibitCount
    BY <1>5 DEF PrepareNewFrame, LoopStates
  <2>2. /\ cycle = "requested" /\ cycle' = "prepared" /\ f \notin frames
        /\ frames' = frames \union {f}
        /\ UNCHANGED <<presentationMode, terminating, requested, resumed>>
    BY <1>5 DEF PrepareNewFrame
  <2>3. Cardinality(frames') = Cardinality(frames) + 1 /\ frames' # {}
    BY <2>2, FrameCardinality
  <2>4. CapacityInv'
    BY <1>0, <2>1, <2>2, <2>3 DEF CapacityInv
  <2>5. RequestNotLost'
    BY <2>1, <2>2, <2>3 DEF RequestNotLost
  <2> QED
    BY <2>1, <2>2, <2>3, <2>4, <2>5 DEF PendingRepaintInv, OutsideDecision, FrameCountExact,
       InhibitedIsPaused, Cycles
<1>6. CASE BeginPaint \/ DispatchReturns
  <2>1. /\ loop' \in LoopStates
        /\ loop'.compositeTimer = loop.compositeTimer
        /\ loop'.delayedVrrTimer = loop.delayedVrrTimer
        /\ loop'.pendingReschedule = loop.pendingReschedule
        /\ loop'.pendingRepaint = FALSE
        /\ loop'.pendingFrameCount = loop.pendingFrameCount
        /\ loop'.inhibitCount = loop.inhibitCount
    BY <1>6 DEF BeginPaint, DispatchReturns, LoopStates
  <2>2. /\ cycle' \in {"painting", "idle"}
        /\ UNCHANGED <<presentationMode, terminating, frames, requested, resumed>>
    BY <1>6 DEF BeginPaint, DispatchReturns
  <2>3. CapacityInv'
    BY <1>0, <2>1, <2>2 DEF CapacityInv
  <2>4. RequestNotLost'
    BY <2>1, <2>2 DEF RequestNotLost
  <2> QED
    BY <2>1, <2>2, <2>3, <2>4 DEF PendingRepaintInv, OutsideDecision, FrameCountExact,
       InhibitedIsPaused, Cycles
<1>7. ASSUME NEW f \in FrameIds, FramePresented(f) PROVE IndInv'
  BY <1>7, ResolveStep DEF FramePresented
<1>8. ASSUME NEW f \in FrameIds, FrameDestroyed(f) PROVE IndInv'
  BY <1>8, ResolveStep DEF FrameDestroyed
<1>9. CASE Inhibit
  <2> DEFINE active == loop.compositeTimer /\ loop.inhibitCount > 0
  <2>0. active \in BOOLEAN /\ loop.inhibitCount + 1 \in Nat
        /\ loop' = [loop EXCEPT !.inhibitCount = @ + 1, !.compositeTimer = active]
    BY <1>9 DEF Inhibit, LoopStates
  <2> HIDE DEF active
  <2>1. /\ loop' \in LoopStates
        /\ loop'.compositeTimer = active
        /\ loop'.pendingRepaint = loop.pendingRepaint
        /\ loop'.pendingFrameCount = loop.pendingFrameCount
        /\ loop'.inhibitCount = loop.inhibitCount + 1
    BY <2>0 DEF LoopStates
  <2>2. /\ loop.inhibitCount < MaxInhibit /\ loop.inhibitCount \in Nat
        /\ UNCHANGED <<presentationMode, terminating, cycle, frames, requested, resumed>>
    BY <1>9 DEF Inhibit, LoopStates
  <2>3. ~loop'.compositeTimer
    BY <2>1 DEF InhibitedIsPaused, active
  <2>4. CapacityInv'
    BY <1>0, <2>2, <2>3 DEF CapacityInv
  <2> QED
    BY <2>1, <2>2, <2>3, <2>4 DEF PendingRepaintInv, OutsideDecision, FrameCountExact,
       RequestNotLost, InhibitedIsPaused
<1>10. CASE Uninhibit
  <2> DEFINE l == [loop EXCEPT !.inhibitCount = @ - 1]
  <2>1. loop.inhibitCount > 0 /\ loop.inhibitCount \in Nat /\ ~loop.compositeTimer
    BY <1>10 DEF Uninhibit, LoopStates, InhibitedIsPaused
  <2>2. /\ l \in LoopStates
        /\ l.compositeTimer = loop.compositeTimer
        /\ l.pendingRepaint = loop.pendingRepaint
        /\ l.pendingFrameCount = loop.pendingFrameCount
        /\ l.inhibitCount = loop.inhibitCount - 1
    BY <2>1 DEF LoopStates
  <2>3. /\ loop' = IF l.inhibitCount = 0 THEN ScheduleNextRepaint(l) ELSE l
        /\ resumed' = TRUE
        /\ UNCHANGED <<presentationMode, terminating, cycle, frames, requested>>
    BY <1>10 DEF Uninhibit
  <2> HIDE DEF l
  <2>4. /\ loop' \in LoopStates
        /\ loop'.pendingRepaint = loop.pendingRepaint
        /\ loop'.pendingFrameCount = loop.pendingFrameCount
        /\ loop'.inhibitCount = loop.inhibitCount - 1
    BY <2>2, <2>3, ScheduleNextRepaintFacts
  <2>5. /\ loop'.inhibitCount > 0 => ~loop'.compositeTimer
        /\ loop'.inhibitCount = 0 => loop'.compositeTimer \/ terminating
    BY <2>1, <2>2, <2>3, ScheduleNextRepaintFacts
  <2> QED
    BY <2>1, <2>3, <2>4, <2>5 DEF PendingRepaintInv, OutsideDecision, FrameCountExact,
       RequestNotLost, InhibitedIsPaused, CapacityInv
<1>11. ASSUME NEW m \in PresentationModes, SetPresentationMode(m) PROVE IndInv'
  BY <1>11 DEF SetPresentationMode, PendingRepaintInv, OutsideDecision, FrameCountExact,
     RequestNotLost, InhibitedIsPaused, CapacityInv
<1>12. CASE Terminate
  BY <1>12 DEF Terminate, PendingRepaintInv, OutsideDecision, FrameCountExact,
     RequestNotLost, InhibitedIsPaused, CapacityInv
<1>13. CASE UNCHANGED vars
  BY <1>13 DEF vars, PendingRepaintInv, OutsideDecision, FrameCountExact,
     RequestNotLost, InhibitedIsPaused, CapacityInv
<1> QED
  BY <1>1, <1>2, <1>3, <1>4, <1>5, <1>6, <1>7, <1>8, <1>9, <1>10, <1>11, <1>12, <1>13
     DEF Next

\* Every reachable state satisfies IndInv.
THEOREM Invariance == Spec => []IndInv
BY InitIndInv, NextIndInv, PTL DEF Spec

\* The state variables keep their types, whatever the order of requests,
\* timer expirations, resolved frames and inhibitions.
THEOREM TypeCorrect == Spec => []TypeOK
<1>1. IndInv => TypeOK
  BY DEF IndInv
<1> QED
  BY <1>1, Invariance, PTL

\* The pending frame counter is the number of unresolved OutputFrames, so the
\* assertions before its decrements hold.
THEOREM PendingCountCorrect == Spec => []FrameCountExact
<1>1. IndInv => FrameCountExact
  BY DEF IndInv
<1> QED
  BY <1>1, Invariance, PTL

\* No interleaving of requests, resolutions and inhibitions forgets a repaint.
THEOREM NoRequestLost == Spec => []RequestNotLost
<1>1. IndInv => RequestNotLost
  BY DEF IndInv
<1> QED
  BY <1>1, Invariance, PTL

\* An inhibited loop requests no frame.
THEOREM InhibitPauses == Spec => []InhibitedIsPaused
<1>1. IndInv => InhibitedIsPaused
  BY DEF IndInv
<1> QED
  BY <1>1, Invariance, PTL

\* A loop that was not resumed keeps within its pipeline depth.
THEOREM CapacityCorrect == Spec => []CapacityRespected
<1>1. IndInv => CapacityRespected
  <2> SUFFICES ASSUME IndInv, ~resumed
               PROVE  Cardinality(frames) <= MaxPendingFrameCount
    BY DEF CapacityRespected
  <2>1. Cardinality(frames) \in Nat
    BY FrameCardinality DEF IndInv, TypeOK
  <2>2. CASE loop.compositeTimer
    BY <2>1, <2>2 DEF IndInv, CapacityInv
  <2>3. CASE ~loop.compositeTimer
    BY <2>1, <2>3 DEF IndInv, CapacityInv
  <2> QED
    BY <2>2, <2>3
<1> QED
  BY <1>1, Invariance, PTL

\* It never starts a compositing cycle whose frame would not fit.
THEOREM DispatchOnlyWithRoom == Spec => FullPipelineNotDispatched
<1>1. IndInv /\ [Next]_vars =>
        [cycle = "idle" /\ cycle' = "requested" /\ ~resumed
           => Cardinality(frames) < MaxPendingFrameCount]_vars
  <2> SUFFICES ASSUME IndInv, Next, cycle = "idle", cycle' = "requested", ~resumed
               PROVE  Cardinality(frames) < MaxPendingFrameCount
    BY DEF vars
  <2>1. Cardinality(frames) \in Nat
    BY FrameCardinality DEF IndInv, TypeOK
  <2>2. Dispatch
    BY DEF Next, RequestRepaint, RequestRepaintBehindActiveWindow, DelayedVrrTimeout,
       PrepareNewFrame, BeginPaint, DispatchReturns, FramePresented, FrameDestroyed,
       Inhibit, Uninhibit, SetPresentationMode, Terminate
  <2>3. loop.compositeTimer
    BY <2>2 DEF Dispatch
  <2> QED
    BY <2>1, <2>3 DEF IndInv, CapacityInv
<1> QED
  BY <1>1, Invariance, PTL DEF Spec, FullPipelineNotDispatched
=============================================================================
