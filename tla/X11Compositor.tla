---------------------------- MODULE X11Compositor ----------------------------
(***************************************************************************)
(* The life of compositing in src/src/compositor_x11.cpp: start(), stop(), *)
(* suspension by the user and by windows that block compositing, restarts, *)
(* and the ownership of the compositing manager selection.                 *)
(*                                                                         *)
(* Everything runs on the main thread, and start() and stop() run to their *)
(* end, so that the states Starting and Stopping are never left standing.  *)
(* What makes the life of compositing hard are the calls that inhibit()    *)
(* and uninhibit() queue for the event loop: they decide on the state of   *)
(* now and are executed in a later one.                                    *)
(***************************************************************************)
EXTENDS Integers, Sequences

CONSTANTS
    Windows,
    StartResults,  \* what an attempt to start may come to
    MayInterfere,  \* the user toggles compositing, the configuration changes, the
                   \* GPU is reset, or another compositor takes over
    MaxQueued      \* bound: calls queued by inhibit() and uninhibit()

ASSUME ResultsAssumption ==
    \* "impossible": compositingPossible() is false; "noBackend": no candidate
    \* could be initialised, or the one chosen is not to composite
    /\ StartResults \subseteq {"ok", "impossible", "noBackend"}
    /\ MayInterfere \in BOOLEAN
    /\ MaxQueued \in Nat

VARIABLES
    state,         \* m_state
    suspended,     \* the bits of m_suspended
    inhibitors,    \* m_inhibitors
    blocking,      \* the windows whose blocks_compositing is set
    startPending,  \* the single shot timer of the constructor has not fired
    queue,         \* calls queued for the event loop
    owning,        \* X11CompositorSelectionOwner::owning()
    releaseTimer,  \* m_releaseSelectionTimer.isActive()
    overruled      \* history: windows whose blocking was overruled by a restart or the user

windowVars == <<inhibitors, blocking, overruled>>
queueVars == <<startPending, queue>>
vars == <<state, suspended, windowVars, queueVars, owning, releaseTimer>>

TypeOK ==
    /\ state \in {"Off", "On"}
    /\ suspended \subseteq {"User", "BlockRule"}
    /\ inhibitors \subseteq Windows
    /\ blocking \subseteq Windows /\ overruled \subseteq Windows
    /\ startPending \in BOOLEAN
    /\ queue \in Seq({"suspend", "resume"})
    /\ owning \in BOOLEAN
    /\ releaseTimer \in BOOLEAN

\* The constructor delays start() by one event cycle.
Init ==
    /\ state = "Off"
    /\ suspended \in {{}, {"User"}}
    /\ inhibitors = {} /\ blocking = {} /\ overruled = {}
    /\ startPending = TRUE /\ queue = <<>>
    /\ owning = FALSE
    /\ releaseTimer = FALSE

-----------------------------------------------------------------------------
(* start() and stop(), given what was done to m_suspended just before. *)

\* start() of a compositor that is off; stop() has just run if it was on.
StartFromOff(bits, timer) ==
    /\ suspended' = bits
    /\ \/ /\ bits # {} \/ "impossible" \in StartResults
          /\ state' = "Off"
          /\ releaseTimer' = timer
          /\ UNCHANGED owning
       \/ /\ bits = {} /\ "noBackend" \in StartResults
          /\ state' = "Off"
          /\ owning' = FALSE
          /\ releaseTimer' = timer
       \/ /\ bits = {} /\ "ok" \in StartResults
          /\ state' = "On"
          /\ owning' = TRUE
          /\ releaseTimer' = FALSE

Start(bits) ==
    IF state = "On"
      THEN /\ suspended' = bits
           /\ UNCHANGED <<state, owning, releaseTimer>>
      ELSE StartFromOff(bits, releaseTimer)

\* Mutant: nothing gives the selection back.
StopKeepsSelection(bits) ==
    /\ suspended' = bits
    /\ state' = "Off"
    /\ UNCHANGED <<owning, releaseTimer>>

Stop(bits) ==
    /\ suspended' = bits
    /\ state' = "Off"
    /\ releaseTimer' = (releaseTimer \/ state = "On")
    /\ UNCHANGED owning

Suspend(reason) == Stop(suspended \union {reason})

\* reinitialize(): a full restart that clears every reason to be suspended.
Reinitialize ==
    /\ inhibitors' = {}
    /\ overruled' = blocking
    /\ StartFromOff({}, releaseTimer \/ state = "On")

-----------------------------------------------------------------------------
(* Actions. *)

\* Mutant: a suspension is never queued twice, whatever else is queued.
BlockCompositingOnce(w) ==
    /\ w \notin blocking
    /\ blocking' = blocking \union {w}
    /\ inhibitors' = inhibitors \union {w}
    /\ Len(queue) < MaxQueued
    /\ queue' = IF "BlockRule" \in suspended \/ queue # <<>>
                  THEN queue ELSE Append(queue, "suspend")
    /\ UNCHANGED <<state, suspended, owning, releaseTimer, overruled, startPending>>

\* A window asks for, or a rule forces, compositing to be blocked: inhibit().
BlockCompositing(w) ==
    /\ w \notin blocking
    /\ blocking' = blocking \union {w}
    /\ inhibitors' = inhibitors \union {w}
    /\ Len(queue) < MaxQueued
    /\ queue' = IF "BlockRule" \in suspended THEN queue ELSE Append(queue, "suspend")
    /\ UNCHANGED <<state, suspended, owning, releaseTimer, overruled, startPending>>

\* The window no longer asks for it, or is closed: uninhibit().
UnblockCompositing(w) ==
    /\ w \in blocking
    /\ blocking' = blocking \ {w}
    /\ overruled' = overruled \ {w}
    /\ inhibitors' = inhibitors \ {w}
    /\ Len(queue) < MaxQueued
    /\ queue' = IF w \in inhibitors /\ inhibitors' = {} /\ "BlockRule" \in suspended
                  THEN Append(queue, "resume") ELSE queue
    /\ UNCHANGED <<state, suspended, owning, releaseTimer, startPending>>

\* The start() the constructor delayed; timers and queued calls have no order.
DelayedStart ==
    /\ startPending
    /\ startPending' = FALSE
    /\ Start(suspended)
    /\ UNCHANGED <<windowVars, queue>>

\* The event loop delivers the first queued call.
DeliverSuspend ==
    /\ queue # <<>> /\ Head(queue) = "suspend"
    /\ queue' = Tail(queue)
    /\ Suspend("BlockRule")
    /\ UNCHANGED <<windowVars, startPending>>

DeliverResume ==
    /\ queue # <<>> /\ Head(queue) = "resume"
    /\ queue' = Tail(queue)
    /\ inhibitors' = {}
    /\ Start(suspended \ {"BlockRule"})
    /\ UNCHANGED <<blocking, overruled, startPending>>

\* The user's shortcut: resume(AllReasonSuspend) or suspend(UserSuspend).
Toggle ==
    /\ MayInterfere
    /\ IF suspended # {}
         THEN /\ inhibitors' = {}
              /\ overruled' = blocking
              /\ Start({})
              /\ UNCHANGED blocking
         ELSE /\ Suspend("User")
              /\ UNCHANGED windowVars
    /\ UNCHANGED queueVars

\* Options::configChanged
ConfigChanged ==
    /\ MayInterfere
    /\ IF suspended # {}
         THEN /\ Stop(suspended)
              /\ UNCHANGED windowVars
         ELSE /\ Reinitialize
              /\ UNCHANGED blocking
    /\ UNCHANGED queueVars

\* composite() finds that the GPU was reset.
GraphicsReset ==
    /\ MayInterfere
    /\ state = "On"
    /\ Reinitialize
    /\ UNCHANGED <<blocking, queueVars>>

\* Another compositor claims the selection.
LostOwnership ==
    /\ MayInterfere
    /\ owning
    /\ owning' = FALSE
    /\ state' = "Off"
    /\ releaseTimer' = (releaseTimer \/ state = "On")
    /\ UNCHANGED <<suspended, windowVars, queueVars>>

\* m_releaseSelectionTimer fires: releaseCompositorSelection().
ReleaseCompositorSelection ==
    /\ releaseTimer
    /\ releaseTimer' = FALSE
    /\ owning' = (owning /\ state = "On")
    /\ UNCHANGED <<state, suspended, windowVars, queueVars>>

Next ==
    \/ \E w \in Windows : BlockCompositing(w)
    \/ \E w \in Windows : UnblockCompositing(w)
    \/ DelayedStart \/ DeliverSuspend \/ DeliverResume
    \/ Toggle \/ ConfigChanged \/ GraphicsReset
    \/ LostOwnership
    \/ ReleaseCompositorSelection

Spec == Init /\ [][Next]_vars

\* The event loop delivers queued calls and timeouts.
FairSpec ==
    /\ Spec
    /\ WF_vars(DelayedStart)
    /\ WF_vars(DeliverSuspend \/ DeliverResume)
    /\ WF_vars(ReleaseCompositorSelection)

-----------------------------------------------------------------------------
(* Properties. *)

\* Nothing composites while there is a reason to be suspended, through every
\* order of toggles, restarts and queued calls.
SuspendedIsOff == suspended # {} => state = "Off"

\* Who composites owns the selection: the delayed release never takes it from
\* a compositor that was restarted in the meantime, and whoever loses it stops.
SelectionHeldWhileOn == state = "On" => owning

\* A window that inhibits compositing has it suspended, or a call that will
\* suspend it is queued.
InhibitionTakesEffect ==
    inhibitors # {} =>
        \/ "BlockRule" \in suspended
        \/ \E i \in DOMAIN queue : queue[i] = "suspend"

\* A compositor that stays off gives the selection back, so that another one
\* can take over.
SelectionReleased == state = "Off" /\ owning ~> state = "On" \/ ~owning

-----------------------------------------------------------------------------
(* Sentences of the handbook that the code does not keep: README, section 6. *)

\* "while any matching window exists, compositing will be disabled": when
\* the event loop has nothing left to deliver, and nobody overruled them.
BlockedWhileAnyExists ==
    queue = <<>> /\ blocking \ overruled # {} => state = "Off"

\* "Compositing is re-enabled when the last matching window terminates."
ReenabledAfterLast ==
    queue = <<>> /\ blocking = {} => "BlockRule" \notin suspended

=============================================================================
