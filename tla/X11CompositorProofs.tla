------------------------- MODULE X11CompositorProofs -------------------------
(***************************************************************************)
(* Proofs about X11Compositor, for every set of windows and every bound.   *)
(* The three properties are inductive together with the types: the first   *)
(* two talk about start() and stop(), the third about the queue alone.     *)
(***************************************************************************)
EXTENDS X11Compositor, SequenceTheorems, TLAPS

Inv ==
    /\ TypeOK
    /\ SuspendedIsOff
    /\ SelectionHeldWhileOn
    /\ InhibitionTakesEffect

\* The part of Inv that is about what start() and stop() change.
LifeOK ==
    /\ state \in {"Off", "On"}
    /\ suspended \subseteq {"User", "BlockRule"}
    /\ owning \in BOOLEAN
    /\ releaseTimer \in BOOLEAN
    /\ suspended # {} => state = "Off"
    /\ state = "On" => owning

\* The part of TypeOK that is about what inhibit() and uninhibit() change.
WindowsOK ==
    /\ inhibitors \subseteq Windows
    /\ blocking \subseteq Windows
    /\ overruled \subseteq Windows
    /\ startPending \in BOOLEAN
    /\ queue \in Seq({"suspend", "resume"})

LEMMA InvParts == Inv <=> LifeOK /\ WindowsOK /\ InhibitionTakesEffect
BY DEF Inv, TypeOK, LifeOK, WindowsOK, SuspendedIsOff, SelectionHeldWhileOn

-----------------------------------------------------------------------------
(* start() and stop() keep their part, whatever m_suspended becomes. *)

LEMMA StartFromOffKeeps ==
    ASSUME LifeOK, NEW bits \in SUBSET {"User", "BlockRule"}, NEW timer \in BOOLEAN,
           state = "Off" \/ timer, StartFromOff(bits, timer)
    PROVE  LifeOK' /\ suspended' = bits
<1>1. CASE (bits # {} \/ "impossible" \in StartResults) /\ state' = "Off"
           /\ releaseTimer' = timer /\ UNCHANGED owning
  BY <1>1 DEF LifeOK, StartFromOff
<1>2. CASE bits = {} /\ state' = "Off" /\ owning' = FALSE /\ releaseTimer' = timer
  BY <1>2 DEF LifeOK, StartFromOff
<1>3. CASE bits = {} /\ state' = "On" /\ owning' = TRUE /\ releaseTimer' = FALSE
  BY <1>3 DEF LifeOK, StartFromOff
<1> QED
  BY <1>1, <1>2, <1>3 DEF StartFromOff

LEMMA StartKeeps ==
    ASSUME LifeOK, NEW bits \in SUBSET {"User", "BlockRule"}, bits \subseteq suspended,
           Start(bits)
    PROVE  LifeOK' /\ suspended' = bits
<1>1. CASE state = "On"
  <2>1. suspended = {}
    BY <1>1 DEF LifeOK
  <2>2. bits = {} /\ suspended' = bits /\ UNCHANGED <<state, owning, releaseTimer>>
    BY <1>1, <2>1 DEF Start
  <2> QED
    BY <1>1, <2>1, <2>2 DEF LifeOK
<1>2. CASE state = "Off"
  <2>1. StartFromOff(bits, releaseTimer)
    BY <1>2 DEF Start
  <2> QED
    BY <1>2, <2>1, StartFromOffKeeps DEF LifeOK
<1> QED
  BY <1>1, <1>2 DEF LifeOK

LEMMA StopKeeps ==
    ASSUME LifeOK, NEW bits \in SUBSET {"User", "BlockRule"}, Stop(bits)
    PROVE  LifeOK' /\ suspended' = bits
<1>1. suspended' = bits /\ state' = "Off" /\ owning' = owning
  BY DEF Stop
<1>2. releaseTimer' \in BOOLEAN
  BY DEF Stop, LifeOK
<1> QED
  BY <1>1, <1>2 DEF LifeOK

LEMMA ReinitializeKeeps ==
    ASSUME LifeOK, Reinitialize
    PROVE  LifeOK' /\ suspended' = {}
<1> DEFINE timer == releaseTimer \/ state = "On"
<1>1. timer \in BOOLEAN /\ (state = "Off" \/ timer)
  BY DEF LifeOK
<1>2. StartFromOff({}, timer)
  BY DEF Reinitialize
<1> HIDE DEF timer
<1> QED
  BY <1>1, <1>2, StartFromOffKeeps

-----------------------------------------------------------------------------
(* The queue keeps a suspension that is not the first of its calls. *)

Queued(call) == \E i \in DOMAIN queue : queue[i] = call

LEMMA AppendKeeps ==
    ASSUME queue \in Seq({"suspend", "resume"}), NEW call \in {"suspend", "resume"},
           queue' = Append(queue, call)
    PROVE  /\ queue' \in Seq({"suspend", "resume"})
           /\ Queued("suspend") => Queued("suspend")'
           /\ call = "suspend" => Queued("suspend")'
<1>1. queue' \in Seq({"suspend", "resume"}) /\ Len(queue') = Len(queue) + 1
  BY AppendProperties
<1>2. /\ \A i \in 1 .. Len(queue) : queue'[i] = queue[i]
      /\ queue'[Len(queue) + 1] = call
  BY AppendProperties
<1>3. DOMAIN queue = 1 .. Len(queue) /\ DOMAIN queue' = 1 .. Len(queue')
      /\ Len(queue) \in Nat
  BY <1>1
<1> QED
  BY <1>1, <1>2, <1>3 DEF Queued

LEMMA TailKeeps ==
    ASSUME queue \in Seq({"suspend", "resume"}), queue # <<>>, queue' = Tail(queue)
    PROVE  /\ queue' \in Seq({"suspend", "resume"})
           /\ Queued("suspend") => Queued("suspend")' \/ Head(queue) = "suspend"
<1>1. queue' \in Seq({"suspend", "resume"}) /\ Len(queue') = Len(queue) - 1
  BY HeadTailProperties
<1>2. \A i \in 1 .. Len(queue') : queue'[i] = queue[i + 1]
  BY HeadTailProperties
<1>3. Head(queue) = queue[1]
  BY HeadTailProperties
<1>4. DOMAIN queue = 1 .. Len(queue) /\ DOMAIN queue' = 1 .. Len(queue')
      /\ Len(queue) \in Nat
  BY <1>1
<1>5. ASSUME NEW i \in 1 .. Len(queue), queue[i] = "suspend", i # 1
      PROVE  Queued("suspend")'
  <2>1. i - 1 \in 1 .. Len(queue') /\ queue'[i - 1] = "suspend"
    BY <1>1, <1>2, <1>4, <1>5
  <2> QED
    BY <2>1, <1>4 DEF Queued
<1> QED
  BY <1>1, <1>3, <1>4, <1>5 DEF Queued

-----------------------------------------------------------------------------
LEMMA InitInv == Init => Inv
<1> SUFFICES ASSUME Init PROVE Inv
  OBVIOUS
<1>1. LifeOK
  BY DEF Init, LifeOK
<1>2. WindowsOK /\ InhibitionTakesEffect
  BY DEF Init, WindowsOK, InhibitionTakesEffect
<1> QED
  BY <1>1, <1>2, InvParts

LEMMA NextInv == Inv /\ [Next]_vars => Inv'
<1> SUFFICES ASSUME Inv, [Next]_vars PROVE Inv'
  OBVIOUS
<1> LifeOK /\ WindowsOK /\ InhibitionTakesEffect
  BY InvParts
<1> SUFFICES LifeOK' /\ WindowsOK' /\ InhibitionTakesEffect'
  BY DEF Inv, TypeOK, LifeOK, WindowsOK, SuspendedIsOff, SelectionHeldWhileOn
<1> suspended \in SUBSET {"User", "BlockRule"}
  BY DEF LifeOK
<1> queue \in Seq({"suspend", "resume"})
  BY DEF WindowsOK
<1>a. ASSUME UNCHANGED <<inhibitors, blocking, overruled, queue>>, startPending' \in BOOLEAN
      PROVE  /\ WindowsOK'
             /\ suspended \subseteq suspended' => InhibitionTakesEffect'
  BY <1>a DEF WindowsOK, InhibitionTakesEffect
<1>b. ASSUME inhibitors' = {} PROVE InhibitionTakesEffect'
  BY <1>b DEF InhibitionTakesEffect
<1>c. ASSUME UNCHANGED <<state, suspended, owning, releaseTimer>> PROVE LifeOK'
  BY <1>c DEF LifeOK
<1>1. ASSUME NEW w \in Windows, BlockCompositing(w)
      PROVE  LifeOK' /\ WindowsOK' /\ InhibitionTakesEffect'
  <2>1. /\ UNCHANGED <<state, suspended, owning, releaseTimer, overruled, startPending>>
        /\ blocking' = blocking \union {w} /\ inhibitors' = inhibitors \union {w}
    BY <1>1 DEF BlockCompositing
  <2>2. CASE "BlockRule" \in suspended
    <3>1. queue' = queue /\ "BlockRule" \in suspended'
      BY <1>1, <2>1, <2>2 DEF BlockCompositing
    <3> QED
      BY <2>1, <3>1, <1>c DEF WindowsOK, InhibitionTakesEffect
  <2>3. CASE "BlockRule" \notin suspended
    <3>1. queue' = Append(queue, "suspend")
      BY <1>1, <2>3 DEF BlockCompositing
    <3>2. queue' \in Seq({"suspend", "resume"}) /\ Queued("suspend")'
      BY <3>1, AppendKeeps
    <3> QED
      BY <2>1, <3>2, <1>c DEF WindowsOK, InhibitionTakesEffect, Queued
  <2> QED
    BY <2>2, <2>3
<1>2. ASSUME NEW w \in Windows, UnblockCompositing(w)
      PROVE  LifeOK' /\ WindowsOK' /\ InhibitionTakesEffect'
  <2>1. /\ UNCHANGED <<state, suspended, owning, releaseTimer, startPending>>
        /\ blocking' = blocking \ {w} /\ inhibitors' = inhibitors \ {w}
        /\ overruled' = overruled \ {w}
    BY <1>2 DEF UnblockCompositing
  <2>2. queue' = queue \/ queue' = Append(queue, "resume")
    BY <1>2 DEF UnblockCompositing
  <2>3. queue' \in Seq({"suspend", "resume"}) /\ (Queued("suspend") => Queued("suspend")')
    BY <2>2, AppendKeeps DEF Queued
  <2>4. inhibitors # {} => "BlockRule" \in suspended \/ Queued("suspend")
    BY DEF InhibitionTakesEffect, Queued
  <2>5. inhibitors' # {} => "BlockRule" \in suspended' \/ Queued("suspend")'
    BY <2>1, <2>3, <2>4
  <2> QED
    BY <2>1, <2>3, <2>5, <1>c DEF WindowsOK, InhibitionTakesEffect, Queued
<1>3. CASE DelayedStart
  <2>1. Start(suspended) /\ UNCHANGED <<inhibitors, blocking, overruled, queue>>
        /\ startPending' = FALSE
    BY <1>3 DEF DelayedStart, windowVars
  <2>2. LifeOK' /\ suspended' = suspended
    BY <2>1, StartKeeps
  <2> QED
    BY <2>1, <2>2, <1>a
<1>4. CASE DeliverSuspend
  <2>1. /\ UNCHANGED <<inhibitors, blocking, overruled, startPending>>
        /\ queue # <<>> /\ queue' = Tail(queue)
        /\ Stop(suspended \union {"BlockRule"})
    BY <1>4 DEF DeliverSuspend, windowVars, Suspend
  <2>2. LifeOK' /\ suspended' = suspended \union {"BlockRule"}
    BY <2>1, StopKeeps
  <2>3. queue' \in Seq({"suspend", "resume"})
    BY <2>1, TailKeeps
  <2> QED
    BY <2>1, <2>2, <2>3 DEF WindowsOK, InhibitionTakesEffect
<1>5. CASE DeliverResume
  <2>1. /\ inhibitors' = {} /\ UNCHANGED <<blocking, overruled, startPending>>
        /\ queue # <<>> /\ queue' = Tail(queue)
        /\ Start(suspended \ {"BlockRule"})
    BY <1>5 DEF DeliverResume
  <2>2. LifeOK'
    BY <2>1, StartKeeps
  <2>3. queue' \in Seq({"suspend", "resume"})
    BY <2>1, TailKeeps
  <2> QED
    BY <2>1, <2>2, <2>3, <1>b DEF WindowsOK
<1>6. CASE Toggle
  <2>1. UNCHANGED <<startPending, queue>>
    BY <1>6 DEF Toggle, queueVars
  <2>2. CASE suspended # {}
    <3>1. inhibitors' = {} /\ overruled' = blocking /\ blocking' = blocking /\ Start({})
      BY <1>6, <2>2 DEF Toggle
    <3>2. LifeOK'
      BY <3>1, StartKeeps
    <3> QED
      BY <2>1, <3>1, <3>2, <1>b DEF WindowsOK
  <2>3. CASE suspended = {}
    <3>1. Stop(suspended \union {"User"}) /\ UNCHANGED <<inhibitors, blocking, overruled>>
      BY <1>6, <2>3 DEF Toggle, Suspend, windowVars
    <3>2. LifeOK' /\ suspended' = suspended \union {"User"}
      BY <3>1, StopKeeps
    <3>3. startPending' \in BOOLEAN
      BY <2>1 DEF WindowsOK
    <3> QED
      BY <2>1, <3>1, <3>2, <3>3, <1>a
  <2> QED
    BY <2>2, <2>3
<1>7. CASE ConfigChanged
  <2>1. UNCHANGED <<startPending, queue>>
    BY <1>7 DEF ConfigChanged, queueVars
  <2>2. CASE suspended # {}
    <3>1. Stop(suspended) /\ UNCHANGED <<inhibitors, blocking, overruled>>
      BY <1>7, <2>2 DEF ConfigChanged, windowVars
    <3>2. LifeOK' /\ suspended' = suspended
      BY <3>1, StopKeeps
    <3>3. startPending' \in BOOLEAN
      BY <2>1 DEF WindowsOK
    <3> QED
      BY <2>1, <3>1, <3>2, <3>3, <1>a
  <2>3. CASE suspended = {}
    <3>1. Reinitialize /\ blocking' = blocking
      BY <1>7, <2>3 DEF ConfigChanged
    <3>2. inhibitors' = {} /\ overruled' = blocking /\ LifeOK'
      BY <3>1, ReinitializeKeeps DEF Reinitialize
    <3> QED
      BY <2>1, <3>1, <3>2, <1>b DEF WindowsOK
  <2> QED
    BY <2>2, <2>3
<1>8. CASE GraphicsReset
  <2>1. Reinitialize /\ UNCHANGED <<blocking, startPending, queue>>
    BY <1>8 DEF GraphicsReset, queueVars
  <2>2. inhibitors' = {} /\ overruled' = blocking /\ LifeOK'
    BY <2>1, ReinitializeKeeps DEF Reinitialize
  <2> QED
    BY <2>1, <2>2, <1>b DEF WindowsOK
<1>9. CASE LostOwnership
  <2>1. /\ state' = "Off" /\ owning' = FALSE /\ suspended' = suspended
        /\ releaseTimer' = (releaseTimer \/ state = "On")
        /\ UNCHANGED <<inhibitors, blocking, overruled, queue, startPending>>
    BY <1>9 DEF LostOwnership, windowVars, queueVars
  <2>2. LifeOK'
    BY <2>1 DEF LifeOK
  <2>3. startPending' \in BOOLEAN
    BY <2>1 DEF WindowsOK
  <2> QED
    BY <2>1, <2>2, <2>3, <1>a
<1>10. CASE ReleaseCompositorSelection
  <2>1. /\ owning' = (owning /\ state = "On") /\ releaseTimer' = FALSE
        /\ UNCHANGED <<state, suspended>>
        /\ UNCHANGED <<inhibitors, blocking, overruled, queue, startPending>>
    BY <1>10 DEF ReleaseCompositorSelection, windowVars, queueVars
  <2>2. LifeOK'
    BY <2>1 DEF LifeOK
  <2>3. startPending' \in BOOLEAN
    BY <2>1 DEF WindowsOK
  <2> QED
    BY <2>1, <2>2, <2>3, <1>a
<1>11. CASE UNCHANGED vars
  <2>1. UNCHANGED <<state, suspended, owning, releaseTimer>>
        /\ UNCHANGED <<inhibitors, blocking, overruled, queue, startPending>>
    BY <1>11 DEF vars, windowVars, queueVars
  <2>2. startPending' \in BOOLEAN
    BY <2>1 DEF WindowsOK
  <2> QED
    BY <2>1, <2>2, <1>a, <1>c
<1> QED
  BY <1>1, <1>2, <1>3, <1>4, <1>5, <1>6, <1>7, <1>8, <1>9, <1>10, <1>11 DEF Next

\* The inductive invariant of every run of the compositor.
THEOREM Invariance == Spec => []Inv
BY InitInv, NextInv, PTL DEF Spec

\* Nothing composites while there is a reason to be suspended, however many
\* windows block compositing and however many calls are queued.
THEOREM SuspensionHolds == Spec => []SuspendedIsOff
<1>1. Inv => SuspendedIsOff
  BY DEF Inv
<1> QED
  BY <1>1, Invariance, PTL

\* Who composites owns the compositing manager selection.
THEOREM SelectionHeld == Spec => []SelectionHeldWhileOn
<1>1. Inv => SelectionHeldWhileOn
  BY DEF Inv
<1> QED
  BY <1>1, Invariance, PTL

\* An inhibiting window never waits for a suspension nobody has queued.
THEOREM InhibitionHolds == Spec => []InhibitionTakesEffect
<1>1. Inv => InhibitionTakesEffect
  BY DEF Inv
<1> QED
  BY <1>1, Invariance, PTL

\* The state variables keep their types.
THEOREM TypeCorrect == Spec => []TypeOK
<1>1. Inv => TypeOK
  BY DEF Inv
<1> QED
  BY <1>1, Invariance, PTL

=============================================================================
