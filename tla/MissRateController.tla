------------------------- MODULE MissRateController -------------------------
(***************************************************************************)
(* The feedback controller of the tight scheduler, at the end of           *)
(* RenderLoopPrivate::notifyFrameCompleted(): a ring with the outcome of   *)
(* the last frames, a running count of the misses in it, the safety margin *)
(* it steers and the choice between double and triple buffering.           *)
(*                                                                         *)
(* Times are in units of the smallest step of the margin.  Whether a frame *)
(* missed its vblank is the input of a step.                               *)
(***************************************************************************)
EXTENDS Integers, Sequences, FiniteSets

CONSTANTS
    RefreshRates,    \* values of refreshRate
    InitialRate,
    VblankInterval,  \* [RefreshRates -> duration]
    MarginStep,      \* [RefreshRates -> duration], s_stepFraction of the interval or 1 us
    WindowFrames,    \* [RefreshRates -> frames], s_windowSeconds of that rate
    MinWindow,       \* 60, the smallest window
    TargetLow,       \* s_targetMissRateLow and ...
    TargetHigh,      \* ... s_targetMissRateHigh, as numerators over ...
    Scale,           \* ... this denominator
    HistoryLength    \* bound: how many outcomes the history remembers

ASSUME RatesAssumption ==
    /\ InitialRate \in RefreshRates
    /\ VblankInterval \in [RefreshRates -> Nat \ {0}]
    /\ MarginStep \in [RefreshRates -> Nat \ {0}]
    /\ WindowFrames \in [RefreshRates -> Nat]
ASSUME WindowAssumption == MinWindow \in Nat /\ MinWindow >= 4
ASSUME TargetsAssumption ==
    /\ {TargetLow, TargetHigh} \subseteq Nat /\ TargetLow <= TargetHigh
    /\ Scale \in Nat \ {0}
ASSUME HistoryAssumption == HistoryLength \in Nat

VARIABLES
    refreshRate,     \* RenderLoopPrivate::refreshRate
    missRing,        \* m_missRing: a function on 0 .. size - 1
    size,            \* m_missRing.size()
    cursor,          \* m_missRingCursor
    filled,          \* m_missRingFilled
    missCount,       \* m_missCount
    safetyMargin,
    inTripleBuffer,  \* m_inTripleBuffer
    recent           \* history: the outcomes since the ring was allocated, the newest first

ring == <<missRing, size, cursor, filled, missCount>>
controllerVars == <<refreshRate, ring, safetyMargin, inTripleBuffer, recent>>

ControllerTypeOK ==
    /\ refreshRate \in RefreshRates
    /\ size \in Nat
    /\ missRing \in [0 .. size - 1 -> BOOLEAN]
    /\ size > 0 => cursor \in 0 .. size - 1
    /\ filled \in 0 .. size
    /\ missCount \in Nat
    /\ safetyMargin \in Nat
    /\ inTripleBuffer \in BOOLEAN

EmptyRing(n) == [k \in 0 .. n - 1 |-> FALSE]

ControllerInit ==
    /\ refreshRate = InitialRate
    /\ size = 0 /\ missRing = EmptyRing(0) /\ cursor = 0 /\ filled = 0 /\ missCount = 0
    /\ safetyMargin = 0
    /\ inTripleBuffer = FALSE
    /\ recent = <<>>

-----------------------------------------------------------------------------
TargetWindow ==
    IF WindowFrames[refreshRate] > MinWindow THEN WindowFrames[refreshRate] ELSE MinWindow

\* The ring would cover a window that is more than 15 % off.
MustResize ==
    \/ size = 0
    \/ size < (TargetWindow * 17) \div 20
    \/ size > (TargetWindow * 23) \div 20

\* The ring a completed frame is entered in.
CurrentRing ==
    IF MustResize
      THEN [entries |-> EmptyRing(TargetWindow), size |-> TargetWindow,
            cursor |-> 0, filled |-> 0, missCount |-> 0]
      ELSE [entries |-> missRing, size |-> size,
            cursor |-> cursor, filled |-> filled, missCount |-> missCount]

\* Mutant: the cursor moves before the entry is written.
EnterAfterAdvance(r, miss) ==
    LET full == r.filled = r.size
    IN  [r EXCEPT !.missCount = @ - (IF full /\ r.entries[r.cursor] THEN 1 ELSE 0)
                                  + (IF miss THEN 1 ELSE 0),
                  !.filled = IF full THEN @ ELSE @ + 1,
                  !.entries[(r.cursor + 1) % r.size] = miss,
                  !.cursor = (@ + 1) % r.size]

\* Mutant: the count is not corrected for the entry that is overwritten.
EnterKeepsPrior(r, miss) ==
    [r EXCEPT !.missCount = @ + (IF miss THEN 1 ELSE 0),
              !.filled = IF @ = r.size THEN @ ELSE @ + 1,
              !.entries[r.cursor] = miss,
              !.cursor = (@ + 1) % r.size]

\* The oldest entry is replaced.
Enter(r, miss) ==
    LET full == r.filled = r.size
    IN  [r EXCEPT !.missCount = @ - (IF full /\ r.entries[r.cursor] THEN 1 ELSE 0)
                                  + (IF miss THEN 1 ELSE 0),
                  !.filled = IF full THEN @ ELSE @ + 1,
                  !.entries[r.cursor] = miss,
                  !.cursor = (@ + 1) % r.size]

\* The controller waits for a quarter of a window.
Reacts(r) == r.filled >= r.size \div 4

RateBelowLow(r)  == r.missCount * Scale < TargetLow * r.filled
RateAboveHigh(r) == r.missCount * Scale > TargetHigh * r.filled

NextMargin(r) ==
    IF ~Reacts(r) THEN safetyMargin
    ELSE IF RateBelowLow(r) /\ safetyMargin > 0
      THEN IF safetyMargin > MarginStep[refreshRate]
             THEN safetyMargin - MarginStep[refreshRate] ELSE 0
    ELSE IF RateAboveHigh(r) /\ safetyMargin < VblankInterval[refreshRate]
      THEN IF safetyMargin + MarginStep[refreshRate] < VblankInterval[refreshRate]
             THEN safetyMargin + MarginStep[refreshRate] ELSE VblankInterval[refreshRate]
    ELSE safetyMargin

\* Mutant: triple buffering ends before the window is full.
NextBufferingImpatient(r) ==
    IF ~Reacts(r) THEN inTripleBuffer
    ELSE IF inTripleBuffer THEN ~RateBelowLow(r)
    ELSE RateAboveHigh(r)

NextBuffering(r) ==
    IF ~Reacts(r) THEN inTripleBuffer
    ELSE IF inTripleBuffer THEN ~(RateBelowLow(r) /\ r.filled = r.size)
    ELSE RateAboveHigh(r)

-----------------------------------------------------------------------------
FrameCompleted(miss) ==
    LET r == Enter(CurrentRing, miss)
        heard == IF MustResize THEN <<>> ELSE recent
    IN  /\ missRing' = r.entries /\ size' = r.size /\ cursor' = r.cursor
        /\ filled' = r.filled /\ missCount' = r.missCount
        /\ safetyMargin' = NextMargin(r)
        /\ inTripleBuffer' = NextBuffering(r)
        /\ recent' = SubSeq(<<miss>> \o heard, 1,
                            IF Len(heard) < HistoryLength THEN Len(heard) + 1 ELSE HistoryLength)
        /\ UNCHANGED refreshRate

SetRefreshRate(rate) ==
    /\ rate # refreshRate
    /\ refreshRate' = rate
    /\ UNCHANGED <<ring, safetyMargin, inTripleBuffer, recent>>

ControllerNext ==
    \/ \E miss \in BOOLEAN : FrameCompleted(miss)
    \/ \E rate \in RefreshRates : SetRefreshRate(rate)

ControllerSpec == ControllerInit /\ [][ControllerNext]_controllerVars

-----------------------------------------------------------------------------
(* Properties. *)

\* "keep a running m_missCount so we don't rescan the whole ring": the count
\* is what a rescan would find.  It is unsigned: one decrement too many would
\* make the rate astronomical and pin the margin to its cap.
MissCountExact == missCount = Cardinality({k \in 0 .. size - 1 : missRing[k]})

\* The ring is the window of the last frames: the rate the controller acts on
\* is that of the frames completed since, whatever the ring went through.
RingIsWindow ==
    LET known == IF filled < HistoryLength THEN filled ELSE HistoryLength
    IN  /\ Len(recent) >= known
        /\ \A k \in 1 .. known : missRing[(cursor - k) % size] = recent[k]

\* The margin never exceeds its cap, one vblank interval of the slowest rate.
MarginCapped == \E rate \in RefreshRates : safetyMargin <= VblankInterval[rate]

\* "only leaves triple after an entire window has stayed below the low
\* target": no vblank was missed for a whole window, when the low target is
\* less than one miss in a window.
QuietBeforeDouble ==
    [][inTripleBuffer /\ ~inTripleBuffer' /\ TargetLow * size' <= Scale /\ size' <= HistoryLength
         => /\ Len(recent') >= size'
            /\ \A k \in 1 .. size' : ~recent'[k]]_controllerVars

=============================================================================
