---------------------------- MODULE FrameProofs ----------------------------
(***************************************************************************)
(* Proofs about one frame and the next: what a frame of the Vulkan backend *)
(* repaints (DamageTracking), for every number of images and tiles and     *)
(* every capacity of the journal; what it shares with the GPU              *)
(* (FramesInFlight), for any number of frame slots, command buffers,       *)
(* textures and failures; and what is made of its outcome                  *)
(* (MissRateController), for all rates, windows and targets.               *)
(*                                                                         *)
(* That a presented image is up to date is not inductive: a frame paints   *)
(* what the journal says of its image, so the invariant is that the        *)
(* journal is right about every image (StaleIsJournaled) and the screen    *)
(* also between presents (ScreenInv).  What a frame took and did not paint *)
(* is in no journal: it is the only thing an image may lack.               *)
(*                                                                         *)
(* Nothing a frame releases is in use because the wait for the device at   *)
(* the start of composite() leaves the GPU idle until the next submission  *)
(* (GpuIdle).  That alone would not keep the semaphores in order: a slot   *)
(* whose semaphore has a signal pending must not get its fence back        *)
(* (SemaphoreInv), which is what a failed submission relies on.            *)
(*                                                                         *)
(* The running count of missed vblanks alone is not inductive: while the   *)
(* ring fills, an entry is overwritten without being counted off, which is *)
(* right only because the entries that were not written yet are all FALSE  *)
(* and the cursor is at the first of them (CountOK).                       *)
(***************************************************************************)
EXTENDS DamageTracking, FramesInFlight, MissRateController, SequenceTheorems, FiniteSetTheorems, TLAPS

-----------------------------------------------------------------------------
(* What a frame repaints. *)

\* An image without a render to look back to is painted everywhere, unless a
\* frame that should have done so failed.
CounterInv ==
    /\ \A i \in Images : lastRenderFrame[i] < frameCounter
    /\ \A i \in Images : ~PartialRepaint => lastRenderFrame[i] = 0
    /\ \A i \in blank : lastRenderFrame[i] = 0 \/ missed[i] = Tiles

\* What the hint of the next present may rely on: also after a present that
\* failed, unless the swapchain is new.
ScreenInv ==
    /\ shown # NoImage => ~neverPresented
    /\ ~neverPresented => screen \subseteq damage \union unshown

Inv ==
    /\ TypeOK
    /\ CounterInv
    /\ StaleIsJournaled
    /\ ImageUpToDate
    /\ ScreenInv

-----------------------------------------------------------------------------
(* The journal. *)

LEMMA AddFacts ==
    ASSUME TypeOK, NEW region \in SUBSET Tiles
    PROVE  /\ Add(region) \in Seq(SUBSET Tiles)
           /\ Len(Add(region)) = IF Len(journal) < Capacity THEN Len(journal) + 1 ELSE Capacity
           /\ \A k \in 1 .. Len(Add(region)) :
                  Add(region)[k] = IF k = 1 THEN region ELSE journal[k - 1]
<1> DEFINE S == SUBSET Tiles
           long == <<region>> \o journal
           last == IF Len(journal) < Capacity THEN Len(journal) + 1 ELSE Capacity
<1>0. Len(journal) \in Nat /\ Capacity \in Nat \ {0} /\ journal \in Seq(S)
  BY CapacityAssumption DEF TypeOK
<1>1. <<region>> \in Seq(S) /\ Len(<<region>>) = 1 /\ <<region>>[1] = region
  OBVIOUS
<1> HIDE DEF S
<1>2. /\ long \in Seq(S) /\ Len(long) = Len(journal) + 1
      /\ \A k \in 1 .. Len(journal) + 1 : long[k] = IF k = 1 THEN region ELSE journal[k - 1]
  BY <1>0, <1>1, ConcatProperties
<1>3. last \in Nat /\ 1 <= last /\ last <= Len(journal) + 1
  BY <1>0
<1> HIDE DEF long, last
<1>4. \A k \in 1 .. last : long[k] \in S
  BY <1>0, <1>2, <1>3
<1>5. /\ SubSeq(long, 1, last) \in Seq(S)
      /\ Len(SubSeq(long, 1, last)) = IF 1 <= last THEN last - 1 + 1 ELSE 0
      /\ \A k \in 1 .. last - 1 + 1 : SubSeq(long, 1, last)[k] = long[1 + k - 1]
  BY <1>3, <1>4, SubSeqProperties
<1>6. Len(SubSeq(long, 1, last)) = last
  BY <1>3, <1>5
<1>7. \A k \in 1 .. last : SubSeq(long, 1, last)[k] = IF k = 1 THEN region ELSE journal[k - 1]
  BY <1>0, <1>2, <1>3, <1>5
<1>8. Add(region) = SubSeq(long, 1, last)
  BY DEF Add, long, last
<1> QED
  BY <1>5, <1>6, <1>7, <1>8 DEF last, S

LEMMA BufferDamageType ==
    ASSUME TypeOK, NEW i \in Images
    PROVE  BufferDamage(i) \in SUBSET Tiles
<1> DEFINE age == frameCounter - lastRenderFrame[i]
<1>1. age \in Int /\ journal \in Seq(SUBSET Tiles)
  BY DEF TypeOK
<1> HIDE DEF age
<1>2. CASE age > 0 /\ age <= Len(journal)
  <2>1. \A k \in 1 .. age - 1 : journal[k] \in SUBSET Tiles
    BY <1>1, <1>2
  <2>2. UNION {journal[k] : k \in 1 .. age - 1} \in SUBSET Tiles
    BY <2>1
  <2> QED
    BY <1>2, <2>2 DEF BufferDamage, Accumulate, age
<1>3. CASE ~(age > 0 /\ age <= Len(journal))
  BY <1>3 DEF BufferDamage, Accumulate, age
<1> QED
  BY <1>2, <1>3

-----------------------------------------------------------------------------
(* One frame. *)

\* What image i does not show of the scene once the frame has rendered was for
\* a frame to paint that did not.
LEMMA PaintCompletes ==
    ASSUME TypeOK, CounterInv, StaleIsJournaled, NEW i \in Images, NEW how \in Renderings(i)
    PROVE  StaleAfterPaint(i, how) \subseteq MissedAfterPaint(i, how)
<1>1. Repaint(i) \in SUBSET Tiles /\ stale[i] \subseteq Tiles
  BY BufferDamageType DEF Repaint, TypeOK
<1>2. stale[i] \subseteq Repaint(i) \union missed[i]
  <2>1. CASE BufferDamage(i) = Tiles
    BY <1>1, <2>1 DEF Repaint
  <2>2. CASE BufferDamage(i) # Tiles
    <3> DEFINE age == frameCounter - lastRenderFrame[i]
    <3>1. /\ lastRenderFrame[i] # 0
          /\ age > 0 /\ age <= Len(journal)
          /\ BufferDamage(i) = UNION {journal[k] : k \in 1 .. age - 1}
      BY <2>2 DEF BufferDamage, Accumulate
    <3>2. lastRenderFrame[i] \in Nat
      BY DEF TypeOK
    <3>3. stale[i] \subseteq damage \union missed[i] \union UNION {journal[k] : k \in 1 .. age - 1}
      BY <3>1, <3>2 DEF StaleIsJournaled
    <3> HIDE DEF age
    <3> QED
      BY <3>1, <3>3 DEF Repaint
  <2> QED
    BY <2>1, <2>2
<1>3. CASE how = "load"
  BY <1>2, <1>3 DEF StaleAfterPaint, MissedAfterPaint
<1>4. CASE how = "clear"
  <2>1. StaleAfterPaint(i, how) = Tiles \ Repaint(i)
    BY <1>4 DEF StaleAfterPaint
  <2>2. CASE PartialFrame(i)
    BY <1>4, <2>1, <2>2 DEF MissedAfterPaint
  <2>3. CASE ~PartialFrame(i)
    <3>1. postPass \/ Repaint(i) = Tiles
      BY <2>3 DEF PartialFrame
    <3>2. Repaint(i) = Tiles
      BY <1>1, <3>1 DEF Repaint, BufferDamage
    <3> QED
      BY <2>1, <3>2
  <2> QED
    BY <2>2, <2>3
<1>5. CASE how = "failed"
  BY <1>2, <1>5 DEF StaleAfterPaint, MissedAfterPaint
<1> QED
  BY <1>3, <1>4, <1>5 DEF Renderings

LEMMA PaintTypes ==
    ASSUME TypeOK, NEW i \in Images, NEW how \in Renderings(i)
    PROVE  /\ StaleAfterPaint(i, how) \subseteq Tiles
           /\ MissedAfterPaint(i, how) \subseteq Tiles
           /\ LoadPassAfterPaint(i, how) \subseteq BOOLEAN
<1>1. Repaint(i) \subseteq Tiles /\ stale[i] \subseteq Tiles /\ missed[i] \subseteq Tiles
      /\ loadPass \in BOOLEAN
  BY BufferDamageType DEF Repaint, TypeOK
<1>2. how \in {"load", "clear", "failed"}
  BY DEF Renderings
<1>3. StaleAfterPaint(i, how) \subseteq Tiles
  BY <1>1, <1>2 DEF StaleAfterPaint
<1>4. MissedAfterPaint(i, how) \subseteq Tiles
  BY <1>1, <1>2 DEF MissedAfterPaint
<1>5. LoadPassAfterPaint(i, how) \subseteq BOOLEAN
  BY <1>1, <1>2 DEF LoadPassAfterPaint
<1> QED
  BY <1>3, <1>4, <1>5

\* What a frame of image i does, apart from what reaches the screen.
LEMMA FrameFacts ==
    ASSUME NEW i \in Images, NEW how, NEW acquired, NEW r, Frame(i, how, acquired, r)
    PROVE  /\ damage' = {} /\ how \in Renderings(i)
           /\ stale' = [stale EXCEPT ![i] = StaleAfterPaint(i, how)]
           /\ missed' = [missed EXCEPT ![i] = MissedAfterPaint(i, how)]
           /\ blank' = IF how = "failed" THEN blank ELSE blank \ {i}
           /\ \/ shown' = i /\ ~neverPresented'
              \/ shown' = NoImage
           /\ \/ /\ PartialRepaint
                 /\ journal' = Add(damage)
                 /\ lastRenderFrame' = [lastRenderFrame EXCEPT ![i] = frameCounter]
                 /\ frameCounter' = frameCounter + 1
              \/ ~PartialRepaint /\ UNCHANGED <<journal, frameCounter, lastRenderFrame>>
BY DEF Frame, RecordFrameDamage, tracking

LEMMA FrameKeepsType ==
    ASSUME TypeOK, NEW i \in Images, NEW how, NEW acquired, NEW r, Frame(i, how, acquired, r)
    PROVE  TypeOK'
<1>0. how \in Renderings(i)
  BY FrameFacts
<1>1. /\ journal' \in Seq(SUBSET Tiles) /\ frameCounter' \in Nat \ {0}
      /\ lastRenderFrame' \in [Images -> Nat]
  <2>1. damage \in SUBSET Tiles
    BY DEF TypeOK
  <2> QED
    BY <2>1, FrameFacts, AddFacts DEF TypeOK
<1>2. damage' \subseteq Tiles /\ blank' \subseteq Images /\ shown' \in Images \union {NoImage}
  BY FrameFacts DEF TypeOK
<1>3. stale' \in [Images -> SUBSET Tiles] /\ missed' \in [Images -> SUBSET Tiles]
  BY <1>0, FrameFacts, PaintTypes DEF TypeOK
<1>4. screen' \subseteq Tiles /\ unshown' \subseteq Tiles
  <2>1. /\ stale'[i] \subseteq Tiles /\ missed'[i] \subseteq Tiles
        /\ screen \subseteq Tiles /\ unshown \subseteq Tiles /\ damage \subseteq Tiles
    BY <1>3 DEF TypeOK
  <2> QED
    BY <2>1 DEF Frame
<1>5. needsRecreation' \in BOOLEAN /\ postPass' \in BOOLEAN /\ neverPresented' \in BOOLEAN
  BY DEF Frame, TypeOK
<1>6. loadPass' \in BOOLEAN
  <2>1. loadPass' \in LoadPassAfterPaint(i, how)
    BY DEF Frame
  <2> QED
    BY <1>0, <2>1, PaintTypes
<1> QED
  BY <1>1, <1>2, <1>3, <1>4, <1>5, <1>6 DEF TypeOK

LEMMA FrameKeepsCounters ==
    ASSUME TypeOK, CounterInv, NEW i \in Images, NEW how, NEW acquired, NEW r,
           Frame(i, how, acquired, r)
    PROVE  CounterInv'
<1>1. /\ frameCounter \in Nat /\ lastRenderFrame \in [Images -> Nat] /\ blank \subseteq Images
      /\ missed \in [Images -> SUBSET Tiles]
      /\ \A j \in Images : lastRenderFrame[j] < frameCounter
      /\ \A j \in Images : ~PartialRepaint => lastRenderFrame[j] = 0
      /\ \A j \in blank : lastRenderFrame[j] = 0 \/ missed[j] = Tiles
  BY DEF TypeOK, CounterInv
<1>2. \A j \in blank' : j \in blank /\ (j = i => missed'[j] = Tiles) /\ (j # i => missed'[j] = missed[j])
  <2> SUFFICES ASSUME NEW j \in blank'
               PROVE  /\ j \in blank
                      /\ j = i => missed'[j] = Tiles
                      /\ j # i => missed'[j] = missed[j]
    OBVIOUS
  <2>1. /\ blank' = IF how = "failed" THEN blank ELSE blank \ {i}
        /\ missed' = [missed EXCEPT ![i] = MissedAfterPaint(i, how)]
    BY FrameFacts
  <2>2. j \in blank /\ (j # i => missed'[j] = missed[j])
    BY <1>1, <2>1
  <2>3. ASSUME j = i PROVE missed'[j] = Tiles
    <3>1. how = "failed"
      BY <2>1, <2>3
    <3>2. missed'[i] = missed[i] \union Repaint(i)
      BY <1>1, <2>1, <3>1 DEF MissedAfterPaint
    <3>3. missed[i] \subseteq Tiles /\ Repaint(i) \subseteq Tiles
      BY BufferDamageType DEF Repaint, TypeOK
    <3>4. missed[i] = Tiles \/ Repaint(i) = Tiles
      BY <1>1, <2>2, <2>3, <3>3 DEF Repaint, BufferDamage
    <3> QED
      BY <2>3, <3>2, <3>3, <3>4
  <2> QED
    BY <2>2, <2>3
<1>3. CASE PartialRepaint
  <2>1. lastRenderFrame' = [lastRenderFrame EXCEPT ![i] = frameCounter]
        /\ frameCounter' = frameCounter + 1
    BY <1>3, FrameFacts
  <2>2. \A j \in Images : lastRenderFrame'[j] = IF j = i THEN frameCounter ELSE lastRenderFrame[j]
    BY <1>1, <2>1
  <2>3. \A j \in Images : lastRenderFrame'[j] < frameCounter'
    BY <1>1, <2>1, <2>2
  <2>4. \A j \in blank' : lastRenderFrame'[j] = 0 \/ missed'[j] = Tiles
    BY <1>1, <1>2, <2>2
  <2> QED
    BY <1>3, <2>3, <2>4 DEF CounterInv
<1>4. CASE ~PartialRepaint
  <2>1. UNCHANGED <<frameCounter, lastRenderFrame>>
    BY <1>4, FrameFacts
  <2>2. \A j \in blank' : lastRenderFrame'[j] = 0
    BY <1>1, <1>2, <1>4, <2>1
  <2> QED
    BY <1>1, <1>4, <2>1, <2>2 DEF CounterInv
<1> QED
  BY <1>3, <1>4

\* The frame that was painted leads the journal, so the journal stays right
\* about the other images, which are one frame older.
LEMMA FrameKeepsJournal ==
    ASSUME TypeOK, CounterInv, StaleIsJournaled,
           NEW i \in Images, NEW how, NEW acquired, NEW r, Frame(i, how, acquired, r)
    PROVE  StaleIsJournaled'
<1> SUFFICES ASSUME NEW j \in Images, lastRenderFrame'[j] > 0,
                    frameCounter' - lastRenderFrame'[j] <= Len(journal')
             PROVE  stale'[j] \subseteq damage' \union missed'[j] \union
                        UNION {journal'[k] : k \in 1 .. frameCounter' - lastRenderFrame'[j] - 1}
  BY DEF StaleIsJournaled
<1>1. /\ frameCounter \in Nat /\ lastRenderFrame \in [Images -> Nat]
      /\ stale \in [Images -> SUBSET Tiles] /\ missed \in [Images -> SUBSET Tiles]
      /\ damage \in SUBSET Tiles
      /\ journal \in Seq(SUBSET Tiles) /\ Capacity \in Nat
      /\ lastRenderFrame[j] < frameCounter
  BY CapacityAssumption DEF TypeOK, CounterInv
<1>2. /\ StaleAfterPaint(i, how) \subseteq MissedAfterPaint(i, how)
      /\ stale' = [stale EXCEPT ![i] = StaleAfterPaint(i, how)]
      /\ missed' = [missed EXCEPT ![i] = MissedAfterPaint(i, how)]
  BY FrameFacts, PaintCompletes
<1>3. CASE j = i
  BY <1>1, <1>2, <1>3
<1>4. CASE j # i
  <2> DEFINE age == frameCounter - lastRenderFrame[j]
  <2>1. PartialRepaint
    <3>1. CASE ~PartialRepaint
      <4>1. lastRenderFrame' = lastRenderFrame
        BY <3>1, FrameFacts
      <4>2. lastRenderFrame[j] = 0
        BY <3>1 DEF CounterInv
      <4> QED
        BY <4>1, <4>2
    <3> QED
      BY <3>1
  <2>2. /\ journal' = Add(damage) /\ frameCounter' = frameCounter + 1
        /\ lastRenderFrame' = [lastRenderFrame EXCEPT ![i] = frameCounter]
    BY <2>1, FrameFacts
  <2>3. lastRenderFrame'[j] = lastRenderFrame[j] /\ stale'[j] = stale[j] /\ missed'[j] = missed[j]
    BY <1>1, <1>2, <1>4, <2>2
  <2>4. age \in Nat \ {0} /\ frameCounter' - lastRenderFrame'[j] = age + 1
        /\ lastRenderFrame[j] > 0
    BY <1>1, <2>2, <2>3
  <2>5. /\ Len(journal') = IF Len(journal) < Capacity THEN Len(journal) + 1 ELSE Capacity
        /\ \A k \in 1 .. Len(journal') : journal'[k] = IF k = 1 THEN damage ELSE journal[k - 1]
    BY <1>1, <2>2, AddFacts
  <2>6. age + 1 <= Len(journal')
    BY <2>4
  <2>7. age <= Len(journal)
    BY <1>1, <2>4, <2>5, <2>6
  <2>8. stale[j] \subseteq damage \union missed[j] \union UNION {journal[k] : k \in 1 .. age - 1}
    BY <2>4, <2>7 DEF StaleIsJournaled
  <2> HIDE DEF age
  <2>9. ASSUME NEW t \in stale[j], t \notin missed[j]
        PROVE  \E k \in 1 .. age : t \in journal'[k]
    <3>1. CASE t \in damage
      <4>1. 1 \in 1 .. age /\ 1 \in 1 .. Len(journal')
        BY <1>1, <2>4, <2>5, <2>6
      <4>2. journal'[1] = damage
        BY <2>5, <4>1
      <4> QED
        BY <3>1, <4>1, <4>2
    <3>2. CASE \E k \in 1 .. age - 1 : t \in journal[k]
      <4>1. PICK k \in 1 .. age - 1 : t \in journal[k]
        BY <3>2
      <4>2. k + 1 \in 1 .. age /\ k + 1 \in 1 .. Len(journal') /\ k + 1 # 1
        BY <1>1, <2>4, <2>5, <2>6
      <4>3. journal'[k + 1] = journal[k + 1 - 1] /\ k + 1 - 1 = k
        BY <2>5, <4>2
      <4> QED
        BY <4>1, <4>2, <4>3
    <3> QED
      BY <2>8, <2>9, <3>1, <3>2
  <2>10. frameCounter' - lastRenderFrame'[j] - 1 = age
    BY <2>4
  <2> QED
    BY <1>2, <2>3, <2>9, <2>10
<1> QED
  BY <1>3, <1>4

\* The hint of a present covers what the screen does not show.
LEMMA FrameKeepsScreen ==
    ASSUME TypeOK, CounterInv, StaleIsJournaled, ScreenInv,
           NEW i \in Images, NEW how, NEW acquired, NEW r, Frame(i, how, acquired, r)
    PROVE  ScreenInv'
<1>1. /\ damage' = {} /\ damage \subseteq Tiles /\ screen \subseteq Tiles
      /\ neverPresented \/ screen \subseteq damage \union unshown
  BY FrameFacts DEF ScreenInv, TypeOK
<1>2. stale'[i] \subseteq missed'[i]
  <2>1. StaleAfterPaint(i, how) \subseteq MissedAfterPaint(i, how)
    BY FrameFacts, PaintCompletes
  <2>2. stale'[i] = StaleAfterPaint(i, how) /\ missed'[i] = MissedAfterPaint(i, how)
    BY FrameFacts DEF TypeOK
  <2> QED
    BY <2>1, <2>2
<1>3. CASE r \in {"ok", "suboptimal"}
  <2>1. PICK copied \in Copies :
            /\ screen' = (screen \ copied) \union (stale'[i] \intersect copied)
            /\ unshown' = (unshown \ copied) \union (missed'[i] \intersect copied)
    BY <1>3 DEF Frame
  <2>2. (neverPresented /\ copied = Tiles) \/ (~neverPresented /\ damage \subseteq copied)
    BY <1>1 DEF Copies
  <2>3. screen \ copied \subseteq unshown \ copied
    BY <1>1, <2>2
  <2>4. screen' \subseteq damage' \union unshown'
    BY <1>1, <1>2, <2>1, <2>3
  <2>5. ~neverPresented'
    BY <1>3 DEF Frame
  <2> QED
    BY <2>4, <2>5 DEF ScreenInv
<1>4. CASE r \notin {"ok", "suboptimal"}
  <2>1. /\ shown' = NoImage /\ UNCHANGED <<screen, neverPresented>>
        /\ unshown' = unshown \union damage
    BY <1>4 DEF Frame
  <2> QED
    BY <1>1, <2>1 DEF ScreenInv
<1> QED
  BY <1>3, <1>4

-----------------------------------------------------------------------------
LEMMA InitInv == Init => Inv
<1> SUFFICES ASSUME Init PROVE Inv
  OBVIOUS
<1>1. TypeOK
  <2>1. journal \in Seq(SUBSET Tiles) /\ lastRenderFrame \in [Images -> Nat]
        /\ frameCounter \in Nat \ {0}
    BY DEF Init
  <2>2. {needsRecreation, postPass, loadPass, neverPresented} \subseteq BOOLEAN
    BY DEF Init
  <2>3. {damage, screen, unshown} \subseteq SUBSET Tiles
        /\ {stale, missed} \subseteq [Images -> SUBSET Tiles]
        /\ shown \in Images \union {NoImage} /\ blank \subseteq Images
    BY DEF Init
  <2> QED
    BY <2>1, <2>2, <2>3 DEF TypeOK
<1>2. CounterInv
  BY DEF Init, CounterInv
<1>3. StaleIsJournaled
  BY DEF Init, StaleIsJournaled
<1>4. ImageUpToDate /\ ScreenInv
  BY DEF Init, ImageUpToDate, ScreenInv
<1> QED
  BY <1>1, <1>2, <1>3, <1>4 DEF Inv

\* Damage is damage for every image, for the screen and for the next frame.
LEMMA DamageKeeps ==
    ASSUME Inv, NEW region \in SUBSET Tiles,
           damage' = damage \union region,
           stale' = [j \in Images |-> stale[j] \union region],
           screen' = screen \union region,
           postPass' \in BOOLEAN,
           UNCHANGED <<tracking, needsRecreation, loadPass, neverPresented, shown, blank, lost>>
    PROVE  Inv'
<1>1. UNCHANGED <<journal, frameCounter, lastRenderFrame, missed, unshown>>
  BY DEF tracking, lost
<1>2. TypeOK'
  BY <1>1 DEF Inv, TypeOK
<1>3. CounterInv'
  BY <1>1 DEF Inv, CounterInv
<1>4. StaleIsJournaled'
  BY <1>1 DEF Inv, StaleIsJournaled
<1>5. ImageUpToDate'
  <2>1. shown \in Images \union {NoImage}
    BY DEF Inv, TypeOK
  <2> QED
    BY <1>1, <2>1 DEF Inv, ImageUpToDate
<1>6. ScreenInv'
  BY <1>1 DEF Inv, ScreenInv
<1> QED
  BY <1>2, <1>3, <1>4, <1>5, <1>6 DEF Inv

LEMMA NextInv == Inv /\ [Next]_vars => Inv'
<1> SUFFICES ASSUME Inv, [Next]_vars PROVE Inv'
  OBVIOUS
<1> TypeOK /\ CounterInv
  BY DEF Inv
<1>1. ASSUME NEW region \in SUBSET Tiles, Damage(region) PROVE Inv'
  <2>1. postPass' \in BOOLEAN
    BY <1>1 DEF Damage, TypeOK
  <2> QED
    BY <1>1, <2>1, DamageKeeps DEF Damage
<1>2. CASE TogglePostPass
  <2>1. /\ damage' = damage \union Tiles /\ screen' = screen \union Tiles
        /\ stale' = [j \in Images |-> stale[j] \union Tiles]
        /\ postPass' \in BOOLEAN
    BY <1>2 DEF TogglePostPass, TypeOK
  <2> QED
    BY <1>2, <2>1, DamageKeeps DEF TogglePostPass
<1>3. CASE RecreateSwapchain
  <2>1. TypeOK'
    <3>1. journal' \in Seq(SUBSET Tiles) /\ lastRenderFrame' \in [Images -> Nat]
          /\ frameCounter' \in Nat \ {0}
      BY <1>3 DEF RecreateSwapchain
    <3>2. {needsRecreation, postPass, loadPass, neverPresented}' \subseteq BOOLEAN
      BY <1>3 DEF RecreateSwapchain, TypeOK
    <3>3. {damage, screen, unshown}' \subseteq SUBSET Tiles
          /\ {stale, missed}' \subseteq [Images -> SUBSET Tiles]
          /\ shown' \in Images \union {NoImage} /\ blank' \subseteq Images
      BY <1>3 DEF RecreateSwapchain, TypeOK
    <3> QED
      BY <3>1, <3>2, <3>3 DEF TypeOK
  <2>2. CounterInv'
    BY <1>3 DEF RecreateSwapchain, CounterInv
  <2>3. StaleIsJournaled'
    BY <1>3 DEF RecreateSwapchain, StaleIsJournaled
  <2>4. ImageUpToDate' /\ ScreenInv'
    BY <1>3 DEF RecreateSwapchain, ImageUpToDate, ScreenInv
  <2> QED
    BY <2>1, <2>2, <2>3, <2>4 DEF Inv
<1>4. ASSUME NEW i \in Images, NEW how, NEW a, NEW r, Frame(i, how, a, r)
      PROVE  Inv'
  <2>1. TypeOK' /\ CounterInv'
    BY <1>4, FrameKeepsType, FrameKeepsCounters
  <2>2. StaleIsJournaled'
    BY <1>4, FrameKeepsJournal DEF Inv
  <2>3. ImageUpToDate'
    <3>1. /\ StaleAfterPaint(i, how) \subseteq MissedAfterPaint(i, how)
          /\ shown' \in {i, NoImage}
          /\ stale' = [stale EXCEPT ![i] = StaleAfterPaint(i, how)]
          /\ missed' = [missed EXCEPT ![i] = MissedAfterPaint(i, how)]
      BY <1>4, PaintCompletes, FrameFacts DEF Inv
    <3> QED
      BY <3>1 DEF ImageUpToDate, TypeOK
  <2>4. ScreenInv'
    BY <1>4, FrameKeepsScreen DEF Inv
  <2> QED
    BY <2>1, <2>2, <2>3, <2>4 DEF Inv
<1>5. CASE SkipFrame
  <2>1. damage' = {} /\ shown' = NoImage /\ unshown' = unshown \union damage
        /\ missed' = [j \in Images |-> missed[j] \union damage]
        /\ needsRecreation' \in {needsRecreation, TRUE}
        /\ UNCHANGED <<journal, frameCounter, lastRenderFrame, postPass, loadPass,
                       blank, stale, screen, neverPresented>>
    BY <1>5 DEF SkipFrame, tracking
  <2>2. TypeOK'
    <3>1. damage \subseteq Tiles /\ missed \in [Images -> SUBSET Tiles]
      BY DEF TypeOK
    <3>2. missed' \in [Images -> SUBSET Tiles] /\ unshown' \subseteq Tiles
      BY <2>1, <3>1 DEF TypeOK
    <3> QED
      BY <2>1, <3>2 DEF TypeOK
  <2>3. CounterInv'
    <3>1. damage \subseteq Tiles /\ blank \subseteq Images
      BY DEF TypeOK
    <3> QED
      BY <2>1, <3>1 DEF CounterInv
  <2>4. StaleIsJournaled'
    BY <2>1 DEF Inv, StaleIsJournaled
  <2>5. ImageUpToDate' /\ ScreenInv'
    BY <2>1 DEF Inv, ImageUpToDate, ScreenInv
  <2> QED
    BY <2>2, <2>3, <2>4, <2>5 DEF Inv
<1>6. CASE UNCHANGED vars
  <2>1. UNCHANGED <<journal, frameCounter, lastRenderFrame, needsRecreation, damage, postPass,
                    loadPass, blank, stale, screen, neverPresented, shown, missed, unshown>>
    BY <1>6 DEF vars, tracking, history, lost
  <2>2. TypeOK'
    BY <2>1 DEF TypeOK
  <2>3. CounterInv'
    BY <2>1 DEF CounterInv
  <2>4. StaleIsJournaled'
    BY <2>1 DEF Inv, StaleIsJournaled
  <2>5. ImageUpToDate' /\ ScreenInv'
    BY <2>1 DEF Inv, ImageUpToDate, ScreenInv
  <2> QED
    BY <2>2, <2>3, <2>4, <2>5 DEF Inv
<1> QED
  BY <1>1, <1>2, <1>3, <1>4, <1>5, <1>6 DEF Next

\* The inductive invariant of the damage tracking.
THEOREM Invariance == Spec => []Inv
BY InitInv, NextInv, PTL DEF Spec

\* Partial repaints leave nothing of a presented image out of date but what a
\* frame took and did not paint, for every number of images and journal
\* capacity.
THEOREM PartialRepaintIsComplete == Spec => []ImageUpToDate
<1>1. Inv => ImageUpToDate
  BY DEF Inv
<1> QED
  BY <1>1, Invariance, PTL

\* The journal knows what is out of date in every image it reaches back to.
THEOREM JournalIsRight == Spec => []StaleIsJournaled
<1>1. Inv => StaleIsJournaled
  BY DEF Inv
<1> QED
  BY <1>1, Invariance, PTL

\* The damage hint of a present leaves out only what is on screen already and
\* what a frame or a present that failed kept from there.
THEOREM HintIsComplete == Spec => []ScreenUpToDate
<1>1. Inv => ScreenUpToDate
  BY DEF Inv, ScreenInv, ScreenUpToDate
<1> QED
  BY <1>1, Invariance, PTL

\* An image that nothing was rendered to is loaded only after frames that were
\* to render all of it failed.
THEOREM LoadedWasRendered == Spec => []LoadedIsRendered
<1>1. Inv => LoadedIsRendered
  <2> SUFFICES ASSUME Inv, NEW i \in blank, PartialFrame(i) PROVE missed[i] = Tiles
    BY DEF LoadedIsRendered
  <2>1. i \in Images /\ damage \subseteq Tiles /\ (lastRenderFrame[i] = 0 \/ missed[i] = Tiles)
    BY DEF Inv, TypeOK, CounterInv
  <2>2. BufferDamage(i) # Tiles
    BY <2>1 DEF PartialFrame, Repaint
  <2> QED
    BY <2>1, <2>2 DEF BufferDamage
<1> QED
  BY <1>1, Invariance, PTL

\* The state variables keep their types.
THEOREM TypeCorrect == Spec => []TypeOK
<1>1. Inv => TypeOK
  BY DEF Inv
<1> QED
  BY <1>1, Invariance, PTL

-----------------------------------------------------------------------------
(* What it shares with the GPU: the invariant, ... *)

GpuIdle == stage \notin {"idle", "present"} => gpu = <<>>

RecordingInv == stage = "recording" => outputsInFlight > 0 /\ prevBuffer = NoBuffer

SemaphoreInv ==
    /\ fence \intersect imageAvailable = {}
    /\ \A i \in DOMAIN gpu : gpu[i].slot \notin imageAvailable

FramesInv == FramesTypeOK /\ GpuIdle /\ RecordingInv /\ SemaphoreInv /\ FenceWillSignal

-----------------------------------------------------------------------------
(* The slots go round; submissions come and go at the ends of the queue. *)

LEMMA NextSlot ==
    ASSUME NEW s \in Slots
    PROVE  (s + 1) % MaxFramesInFlight \in Slots
BY FramesAssumption DEF Slots

LEMMA SubmissionFacts ==
    ASSUME NEW e \in Submissions, gpu = <<>>, gpu' = Append(gpu, e)
    PROVE  /\ gpu' \in Seq(Submissions)
           /\ DOMAIN gpu' = {1} /\ gpu'[1] = e
<1>1. gpu \in Seq(Submissions) /\ Len(gpu) = 0
  OBVIOUS
<1>2. /\ gpu' \in Seq(Submissions) /\ Len(gpu') = 1 /\ gpu'[1] = e
  BY <1>1, AppendProperties
<1>3. DOMAIN gpu' = {1}
  BY <1>2
<1> QED
  BY <1>2, <1>3

LEMMA CompletionFacts ==
    ASSUME gpu \in Seq(Submissions), gpu # <<>>, gpu' = Tail(gpu)
    PROVE  /\ gpu' \in Seq(Submissions)
           /\ Head(gpu) \in Submissions
           /\ 1 \in DOMAIN gpu /\ gpu[1] = Head(gpu)
           /\ \A i \in DOMAIN gpu' : \E j \in DOMAIN gpu : gpu'[i] = gpu[j]
           /\ \A j \in DOMAIN gpu : gpu[j] = Head(gpu) \/ \E i \in DOMAIN gpu' : gpu'[i] = gpu[j]
<1>1. /\ Len(gpu) \in Nat \ {0} /\ DOMAIN gpu = 1 .. Len(gpu)
      /\ Head(gpu) = gpu[1] /\ Head(gpu) \in Submissions
      /\ gpu' \in Seq(Submissions) /\ Len(gpu') = Len(gpu) - 1 /\ DOMAIN gpu' = 1 .. Len(gpu')
      /\ \A i \in 1 .. Len(gpu) - 1 : gpu'[i] = gpu[i + 1]
  BY HeadTailProperties
<1>2. ASSUME NEW i \in DOMAIN gpu' PROVE i + 1 \in DOMAIN gpu /\ gpu'[i] = gpu[i + 1]
  BY <1>1
<1>3. ASSUME NEW j \in DOMAIN gpu, j # 1 PROVE j - 1 \in DOMAIN gpu' /\ gpu'[j - 1] = gpu[j]
  <2>1. j \in Int /\ j - 1 \in 1 .. Len(gpu) - 1 /\ (j - 1) + 1 = j
    BY <1>1, <1>3
  <2>2. gpu'[j - 1] = gpu[(j - 1) + 1]
    BY <1>1, <2>1, Zenon
  <2> QED
    BY <1>1, <2>1, <2>2
<1>4. 1 \in DOMAIN gpu
  BY <1>1
<1>5. \A j \in DOMAIN gpu : gpu[j] = Head(gpu) \/ \E i \in DOMAIN gpu' : gpu'[i] = gpu[j]
  BY <1>1, <1>3, Zenon
<1>6. \A i \in DOMAIN gpu' : \E j \in DOMAIN gpu : gpu'[i] = gpu[j]
  BY <1>2, Zenon
<1> QED
  BY <1>1, <1>4, <1>5, <1>6, Zenon

-----------------------------------------------------------------------------
(* The invariant, action by action. *)

LEMMA FramesInitInv == FramesInit => FramesInv
<1> SUFFICES ASSUME FramesInit PROVE FramesInv
  OBVIOUS
<1> USE DEF FramesInit
<1>1. FramesTypeOK
  <2>1. 0 \in Slots /\ <<>> \in Seq(Submissions)
    BY FramesAssumption DEF Slots
  <2> QED
    BY <2>1, NamesAssumption DEF FramesTypeOK, Stages
<1>2. GpuIdle /\ RecordingInv
  BY DEF GpuIdle, RecordingInv
<1>3. SemaphoreInv /\ FenceWillSignal
  BY DEF SemaphoreInv, FenceWillSignal
<1> QED
  BY <1>1, <1>2, <1>3 DEF FramesInv

LEMMA ReplaceTextureInv ==
    ASSUME FramesInv, NEW t \in Textures, ReplaceTexture(t)
    PROVE  FramesInv'
<1> USE DEF FramesInv, ReplaceTexture, swapchainVars, rendererVars
<1>1. FramesTypeOK'
  BY DEF FramesTypeOK
<1>2. GpuIdle' /\ RecordingInv'
  BY DEF GpuIdle, RecordingInv
<1>3. SemaphoreInv' /\ FenceWillSignal'
  BY DEF SemaphoreInv, FenceWillSignal, NoFailedFrame
<1> QED
  BY <1>1, <1>2, <1>3

\* The steps of composite() that only move on.
LEMMA StageInv ==
    ASSUME FramesInv, CheckGraphicsReset \/ NeedsRepaint \/ NothingToPaint \/ AcquireFails
    PROVE  FramesInv'
<1> USE DEF CheckGraphicsReset, NeedsRepaint, NothingToPaint, AcquireFails,
            swapchainVars, rendererVars, textureVars
<1>1. /\ UNCHANGED <<slot, fence, imageAvailable, renderFinished, gpu>>
      /\ UNCHANGED <<allocated, prevBuffer, currentBuffer, outputsInFlight, released, prevSlot, texture, retired>>
      /\ stage \in {"idle", "composite", "begin"} /\ stage' \in {"composite", "begin", "present"}
      /\ stage = "idle" => gpu = <<>>
  OBVIOUS
<1> USE DEF FramesInv
<1>2. FramesTypeOK'
  BY <1>1 DEF FramesTypeOK, Stages
<1>3. GpuIdle' /\ RecordingInv'
  BY <1>1 DEF GpuIdle, RecordingInv
<1>4. SemaphoreInv' /\ FenceWillSignal'
  BY <1>1 DEF SemaphoreInv, FenceWillSignal, NoFailedFrame
<1> QED
  BY <1>2, <1>3, <1>4

LEMMA AcquireNextImageInv ==
    ASSUME FramesInv, AcquireNextImage
    PROVE  FramesInv'
<1> USE DEF FramesInv, AcquireNextImage, rendererVars, textureVars
<1>1. FramesTypeOK'
  BY DEF FramesTypeOK, Stages
<1>2. gpu = <<>>
  BY DEF GpuIdle
<1>3. GpuIdle' /\ RecordingInv'
  BY <1>2 DEF GpuIdle, RecordingInv
<1>4. SemaphoreInv'
  BY <1>2 DEF SemaphoreInv
<1>5. FenceWillSignal'
  BY DEF FenceWillSignal, NoFailedFrame
<1> QED
  BY <1>1, <1>3, <1>4, <1>5

LEMMA RendererBeginsInv ==
    ASSUME FramesInv, NEW b \in CommandBuffers \union {NoBuffer}, RendererBeginFrame(b)
    PROVE  FramesInv'
<1> USE DEF FramesInv, RendererBeginFrame, swapchainVars
<1>1. FramesTypeOK'
  <2>1. allocated' \subseteq CommandBuffers /\ {prevBuffer', currentBuffer'} \subseteq allocated' \union {NoBuffer}
    BY DEF FramesTypeOK
  <2>2. released' \subseteq CommandBuffers \union Textures \union {Pool}
    BY DEF FramesTypeOK
  <2>3. outputsInFlight' \in Nat /\ stage' \in Stages
    BY DEF FramesTypeOK, Stages
  <2> QED
    BY <2>1, <2>2, <2>3 DEF FramesTypeOK
<1>2. GpuIdle' /\ RecordingInv'
  BY DEF GpuIdle, RecordingInv, FramesTypeOK
<1>3. SemaphoreInv'
  BY DEF SemaphoreInv
<1>4. FenceWillSignal'
  BY DEF FenceWillSignal, NoFailedFrame, FramesTypeOK
<1> QED
  BY <1>1, <1>2, <1>3, <1>4

LEMMA SubmitInv ==
    ASSUME FramesInv, Submit
    PROVE  FramesInv'
<1> DEFINE e == [slot |-> slot, uses |-> {currentBuffer, texture, Pool}]
<1> USE DEF FramesInv, Submit, textureVars
<1>1. e \in Submissions /\ gpu \in Seq(Submissions) /\ outputsInFlight \in Nat \ {0}
  BY DEF FramesTypeOK, Submissions, RecordingInv
<1>2. gpu' = Append(gpu, e) /\ e.slot = slot
  OBVIOUS
<1>3. gpu = <<>>
  BY DEF GpuIdle
<1> HIDE DEF e
<1>4. gpu' \in Seq(Submissions) /\ DOMAIN gpu' = {1} /\ gpu'[1] = e
  BY <1>1, <1>2, <1>3, SubmissionFacts, Zenon
<1>5. FramesTypeOK'
  BY <1>1, <1>4 DEF FramesTypeOK, Stages
<1>6. GpuIdle' /\ RecordingInv'
  BY DEF GpuIdle, RecordingInv
<1>7. SemaphoreInv'
  BY <1>2, <1>4 DEF SemaphoreInv
<1>8. FenceWillSignal'
  BY <1>1, <1>2, <1>3, <1>4 DEF FenceWillSignal, NoFailedFrame
<1> QED
  BY <1>5, <1>6, <1>7, <1>8

LEMMA EndFrameFailsInv ==
    ASSUME FramesInv, EndFrameFails
    PROVE  FramesInv'
<1> USE DEF FramesInv, EndFrameFails, swapchainVars, textureVars
<1>1. FramesTypeOK'
  BY DEF FramesTypeOK, Stages, RecordingInv
<1>2. GpuIdle' /\ RecordingInv'
  BY DEF GpuIdle, RecordingInv
<1>3. SemaphoreInv'
  BY DEF SemaphoreInv
<1>4. FenceWillSignal'
  BY DEF FenceWillSignal, NoFailedFrame, RecordingInv
<1> QED
  BY <1>1, <1>2, <1>3, <1>4

LEMMA PresentInv ==
    ASSUME FramesInv, Present
    PROVE  FramesInv'
<1> USE DEF FramesInv, Present, rendererVars, textureVars
<1>1. slot' \in Slots
  BY NextSlot DEF FramesTypeOK
<1>2. FramesTypeOK'
  BY <1>1 DEF FramesTypeOK, Stages
<1>3. GpuIdle' /\ RecordingInv'
  BY DEF GpuIdle, RecordingInv
<1>4. SemaphoreInv' /\ FenceWillSignal'
  BY DEF SemaphoreInv, FenceWillSignal, NoFailedFrame
<1> QED
  BY <1>2, <1>3, <1>4

LEMMA GpuCompletesInv ==
    ASSUME FramesInv, GpuCompletes
    PROVE  FramesInv'
<1> USE DEF FramesInv, GpuCompletes, rendererVars, textureVars
<1>0. gpu \in Seq(Submissions) /\ gpu # <<>> /\ gpu' = Tail(gpu)
  BY DEF FramesTypeOK
<1>1. /\ gpu' \in Seq(Submissions)
      /\ Head(gpu) \in Submissions
      /\ 1 \in DOMAIN gpu /\ gpu[1] = Head(gpu)
      /\ \A i \in DOMAIN gpu' : \E j \in DOMAIN gpu : gpu'[i] = gpu[j]
      /\ \A j \in DOMAIN gpu : gpu[j] = Head(gpu) \/ \E i \in DOMAIN gpu' : gpu'[i] = gpu[j]
  BY <1>0, CompletionFacts, Zenon
<1>2. FramesTypeOK'
  BY <1>1 DEF FramesTypeOK, Submissions
<1>3. GpuIdle' /\ RecordingInv'
  BY DEF GpuIdle, RecordingInv
<1>4. SemaphoreInv'
  BY <1>1 DEF SemaphoreInv
<1>5. FenceWillSignal'
  BY <1>1 DEF FenceWillSignal, NoFailedFrame
<1> QED
  BY <1>2, <1>3, <1>4, <1>5

LEMMA FramesNextInv == FramesInv /\ [FramesNext]_framesVars => FramesInv'
<1> SUFFICES ASSUME FramesInv, [FramesNext]_framesVars PROVE FramesInv'
  OBVIOUS
<1>1. ASSUME NEW t \in Textures, ReplaceTexture(t) PROVE FramesInv'
  BY <1>1, ReplaceTextureInv
<1>2. CASE CheckGraphicsReset \/ NeedsRepaint \/ NothingToPaint \/ AcquireFails
  BY <1>2, StageInv
<1>3. CASE AcquireNextImage
  BY <1>3, AcquireNextImageInv
<1>4. CASE RendererBegins
  BY <1>4, RendererBeginsInv DEF RendererBegins
<1>5. CASE Submit
  BY <1>5, SubmitInv
<1>6. CASE EndFrameFails
  BY <1>6, EndFrameFailsInv
<1>7. CASE Present
  BY <1>7, PresentInv
<1>8. CASE GpuCompletes
  BY <1>8, GpuCompletesInv
<1>9. CASE UNCHANGED framesVars
  <2> USE <1>9 DEF FramesInv, framesVars, swapchainVars, rendererVars, textureVars
  <2>1. FramesTypeOK' /\ GpuIdle' /\ RecordingInv'
    BY DEF FramesTypeOK, GpuIdle, RecordingInv
  <2>2. SemaphoreInv' /\ FenceWillSignal'
    BY DEF SemaphoreInv, FenceWillSignal, NoFailedFrame
  <2> QED
    BY <2>1, <2>2
<1> QED
  BY <1>1, <1>2, <1>3, <1>4, <1>5, <1>6, <1>7, <1>8, <1>9 DEF FramesNext, Composite

-----------------------------------------------------------------------------
(* The theorems. *)

\* The invariant holds in every state of every behaviour.
THEOREM FramesInvariance == FramesSpec => []FramesInv
BY FramesInitInv, FramesNextInv, PTL DEF FramesSpec

\* Every state has the types of the source: the slot stays in the ring, and
\* the renderer's two command buffers are allocated ones.
THEOREM FramesTypeCorrect == FramesSpec => []FramesTypeOK
<1>1. FramesInv => FramesTypeOK
  BY DEF FramesInv
<1> QED
  BY <1>1, FramesInvariance, PTL

\* What ItemRendererVulkan::beginFrame() frees, destroys or resets is not
\* used by work the GPU has not finished, whatever submissions failed before.
THEOREM ReleasedIsUnused == FramesSpec => []ReleasedUnused
<1>1. FramesInv => ReleasedUnused
  BY DEF FramesInv, GpuIdle, ReleasedUnused, InUse
<1> QED
  BY <1>1, FramesInvariance, PTL

\* A fence that waitForFence() may block on belongs to the frame that is
\* being recorded or to a submission that will signal it, as long as no
\* frame was given up between beginFrame() and its submission.
THEOREM FencesSignal == FramesSpec => []FenceWillSignal
<1>1. FramesInv => FenceWillSignal
  BY DEF FramesInv
<1> QED
  BY <1>1, FramesInvariance, PTL

\* vkAcquireNextImageKHR is given a semaphore without a pending signal, even
\* after submissions that failed and never waited for theirs.
THEOREM AcquireIsClean == FramesSpec => []AcquireSemaphoreFree
<1>1. FramesInv => AcquireSemaphoreFree
  BY DEF FramesInv, SemaphoreInv, AcquireSemaphoreFree
<1> QED
  BY <1>1, FramesInvariance, PTL

-----------------------------------------------------------------------------
(* What is made of the outcome of a frame. *)

Misses(e, n) == {k \in 0 .. n - 1 : e[k]}

\* A ring e of n entries whose cursor is c, of which f were written and m are
\* misses, is the window of the outcomes h.
CountOK(e, n, c, f, m) ==
    /\ n \in Nat \ {0}
    /\ e \in [0 .. n - 1 -> BOOLEAN]
    /\ c \in 0 .. n - 1
    /\ f \in 0 .. n
    /\ m = Cardinality(Misses(e, n))
    /\ f < n => c = f /\ \A k \in f .. n - 1 : ~e[k]

WindowOK(e, n, c, f, h) ==
    /\ h \in Seq(BOOLEAN)
    /\ \A k \in 1 .. f : k <= HistoryLength =>
           /\ k <= Len(h)
           /\ e[(c - k) % n] = h[k]

ControllerInv ==
    /\ refreshRate \in RefreshRates
    /\ safetyMargin \in Nat
    /\ inTripleBuffer \in BOOLEAN
    /\ MarginCapped
    /\ \/ /\ size = 0 /\ missRing = EmptyRing(0) /\ cursor = 0 /\ filled = 0
          /\ missCount = 0 /\ recent = <<>>
       \/ /\ CountOK(missRing, size, cursor, filled, missCount)
          /\ WindowOK(missRing, size, cursor, filled, recent)

-----------------------------------------------------------------------------
(* Arithmetic of the cursor. *)

LEMMA ModSmall ==
    ASSUME NEW n \in Nat \ {0}, NEW x \in 0 .. n - 1
    PROVE  x % n = x /\ (x - n) % n = x
OBVIOUS

LEMMA CursorStep ==
    ASSUME NEW n \in Nat \ {0}, NEW c \in 0 .. n - 1
    PROVE  (c + 1) % n = IF c + 1 = n THEN 0 ELSE c + 1
OBVIOUS

LEMMA CursorBack ==
    ASSUME NEW n \in Nat \ {0}, NEW c \in 0 .. n - 1, NEW k \in 0 .. n
    PROVE  (c - k) % n = IF k <= c THEN c - k ELSE c - k + n
OBVIOUS

LEMMA CursorInRing ==
    ASSUME NEW n \in Nat \ {0}, NEW c \in 0 .. n - 1, NEW k \in 1 .. n
    PROVE  (c - k) % n \in 0 .. n - 1
OBVIOUS

-----------------------------------------------------------------------------
(* What Enter does to the ring. *)

LEMMA MissesFinite ==
    ASSUME NEW n \in Nat, NEW e
    PROVE  IsFiniteSet(Misses(e, n)) /\ Cardinality(Misses(e, n)) \in Nat
<1>1. IsFiniteSet(0 .. n - 1)
  BY FS_Interval
<1>2. Misses(e, n) \in SUBSET (0 .. n - 1)
  BY DEF Misses
<1> QED
  BY <1>1, <1>2, FS_Subset, FS_CardinalityType

EnteredCount(e, n, c, f, m, miss) ==
    m - (IF f = n /\ e[c] THEN 1 ELSE 0) + (IF miss THEN 1 ELSE 0)

LEMMA EnterCount ==
    ASSUME NEW e, NEW n, NEW c, NEW f, NEW m, CountOK(e, n, c, f, m), NEW miss \in BOOLEAN
    PROVE  CountOK([e EXCEPT ![c] = miss], n, (c + 1) % n,
                   IF f = n THEN f ELSE f + 1, EnteredCount(e, n, c, f, m, miss))
<1> DEFINE e1 == [e EXCEPT ![c] = miss]
           others == Misses(e, n) \ {c}
<1>0. /\ n \in Nat \ {0} /\ c \in 0 .. n - 1 /\ f \in 0 .. n
      /\ e \in [0 .. n - 1 -> BOOLEAN] /\ m = Cardinality(Misses(e, n))
      /\ f < n => c = f /\ \A k \in f .. n - 1 : ~e[k]
  BY DEF CountOK
<1>1. e1 \in [0 .. n - 1 -> BOOLEAN] /\ e1[c] = miss
      /\ \A k \in 0 .. n - 1 : k # c => e1[k] = e[k]
  BY <1>0
<1>2. IsFiniteSet(Misses(e, n)) /\ m \in Nat
  BY <1>0, MissesFinite
<1>3. IsFiniteSet(others) /\ Cardinality(others) = IF c \in Misses(e, n) THEN m - 1 ELSE m
  BY <1>0, <1>2, FS_RemoveElement
<1>4. c \in Misses(e, n) <=> e[c]
  BY <1>0 DEF Misses
<1>5. f # n => ~e[c]
  BY <1>0
<1>6. Cardinality(others) = m - (IF f = n /\ e[c] THEN 1 ELSE 0)
  <2>1. CASE e[c]
    BY <2>1, <1>3, <1>4, <1>5
  <2>2. CASE ~e[c]
    BY <2>2, <1>2, <1>3, <1>4
  <2> QED
    BY <2>1, <2>2
<1>7. EnteredCount(e, n, c, f, m, miss) = Cardinality(Misses(e1, n))
  <2>1. CASE miss
    <3>1. Misses(e1, n) = others \union {c}
      BY <1>0, <1>1, <2>1 DEF Misses
    <3>2. c \notin others
      OBVIOUS
    <3>3. Cardinality(others \union {c}) = Cardinality(others) + 1
      BY <1>3, <3>2, FS_AddElement
    <3> QED
      BY <3>1, <3>3, <1>6, <2>1 DEF EnteredCount
  <2>2. CASE ~miss
    <3>1. Misses(e1, n) = others
      BY <1>0, <1>1, <2>2 DEF Misses
    <3> HIDE DEF others
    <3>2. Cardinality(others) \in Nat
      BY <1>3, FS_CardinalityType
    <3> QED
      BY <3>1, <3>2, <1>6, <1>2, <2>2 DEF EnteredCount
  <2> QED
    BY <2>1, <2>2
<1>8. (c + 1) % n = IF c + 1 = n THEN 0 ELSE c + 1
  BY <1>0, CursorStep
<1> DEFINE f1 == IF f = n THEN f ELSE f + 1
<1>9. f1 \in 0 .. n /\ (c + 1) % n \in 0 .. n - 1
  BY <1>0, <1>8
<1>10. f1 < n => (c + 1) % n = f1 /\ \A k \in f1 .. n - 1 : ~e1[k]
  BY <1>0, <1>1, <1>8
<1> HIDE DEF e1, f1
<1>11. CountOK(e1, n, (c + 1) % n, f1, EnteredCount(e, n, c, f, m, miss))
  BY <1>0, <1>1, <1>7, <1>9, <1>10 DEF CountOK
<1> QED
  BY <1>11 DEF e1, f1

\* The history a completed frame leaves.
Remember(miss, h) ==
    SubSeq(<<miss>> \o h, 1, IF Len(h) < HistoryLength THEN Len(h) + 1 ELSE HistoryLength)

LEMMA RememberFacts ==
    ASSUME NEW h \in Seq(BOOLEAN), NEW miss \in BOOLEAN
    PROVE  /\ Remember(miss, h) \in Seq(BOOLEAN)
           /\ Len(Remember(miss, h)) =
                  IF Len(h) < HistoryLength THEN Len(h) + 1 ELSE HistoryLength
           /\ \A k \in 1 .. Len(Remember(miss, h)) :
                  Remember(miss, h)[k] = IF k = 1 THEN miss ELSE h[k - 1]
<1> DEFINE long == <<miss>> \o h
           last == IF Len(h) < HistoryLength THEN Len(h) + 1 ELSE HistoryLength
<1>0. Len(h) \in Nat /\ HistoryLength \in Nat
  BY HistoryAssumption
<1>1. <<miss>> \in Seq(BOOLEAN) /\ Len(<<miss>>) = 1 /\ <<miss>>[1] = miss
  OBVIOUS
<1>2. /\ long \in Seq(BOOLEAN) /\ Len(long) = Len(h) + 1
      /\ \A k \in 1 .. Len(h) + 1 : long[k] = IF k = 1 THEN miss ELSE h[k - 1]
  BY <1>0, <1>1, ConcatProperties
<1>3. last \in Nat /\ last <= Len(h) + 1
  BY <1>0
<1> HIDE DEF long, last
<1>4. \A k \in 1 .. last : long[k] \in BOOLEAN
  BY <1>0, <1>2, <1>3
<1>5. /\ SubSeq(long, 1, last) \in Seq(BOOLEAN)
      /\ Len(SubSeq(long, 1, last)) = IF 1 <= last THEN last - 1 + 1 ELSE 0
      /\ \A k \in 1 .. last - 1 + 1 : SubSeq(long, 1, last)[k] = long[1 + k - 1]
  BY <1>3, <1>4, SubSeqProperties
<1>6. Len(SubSeq(long, 1, last)) = last
  BY <1>3, <1>5
<1>7. \A k \in 1 .. last : SubSeq(long, 1, last)[k] = IF k = 1 THEN miss ELSE h[k - 1]
  BY <1>0, <1>2, <1>3, <1>5
<1>8. Remember(miss, h) = SubSeq(long, 1, last)
  BY DEF Remember, long, last
<1> QED
  BY <1>5, <1>6, <1>7, <1>8 DEF last

LEMMA EnterWindow ==
    ASSUME NEW e, NEW n, NEW c, NEW f, NEW m, NEW h, NEW miss \in BOOLEAN,
           CountOK(e, n, c, f, m), WindowOK(e, n, c, f, h)
    PROVE  WindowOK([e EXCEPT ![c] = miss], n, (c + 1) % n,
                    IF f = n THEN f ELSE f + 1, Remember(miss, h))
<1> DEFINE e1 == [e EXCEPT ![c] = miss]
           c1 == (c + 1) % n
           f1 == IF f = n THEN f ELSE f + 1
           h1 == Remember(miss, h)
<1>0. /\ n \in Nat \ {0} /\ c \in 0 .. n - 1 /\ f \in 0 .. n
      /\ e \in [0 .. n - 1 -> BOOLEAN] /\ h \in Seq(BOOLEAN) /\ HistoryLength \in Nat
  BY HistoryAssumption DEF CountOK, WindowOK
<1>1. /\ h1 \in Seq(BOOLEAN)
      /\ Len(h1) = IF Len(h) < HistoryLength THEN Len(h) + 1 ELSE HistoryLength
      /\ \A k \in 1 .. Len(h1) : h1[k] = IF k = 1 THEN miss ELSE h[k - 1]
  BY <1>0, RememberFacts
<1>2. c1 = IF c + 1 = n THEN 0 ELSE c + 1
  BY <1>0, CursorStep
<1>3. c1 \in 0 .. n - 1
  BY <1>0, <1>2
<1> SUFFICES ASSUME NEW k \in 1 .. f1, k <= HistoryLength
             PROVE  k <= Len(h1) /\ e1[(c1 - k) % n] = h1[k]
  <2> HIDE DEF e1, c1, f1, h1
  <2>1. WindowOK(e1, n, c1, f1, h1)
    BY <1>1 DEF WindowOK
  <2> QED
    BY <2>1 DEF e1, c1, f1, h1
<1>4. k \in 0 .. n /\ k - 1 \in 0 .. n /\ k >= 1 /\ (k # 1 => k - 1 \in 1 .. f)
  BY <1>0
<1>8. e1 \in [0 .. n - 1 -> BOOLEAN] /\ e1[c] = miss
      /\ \A i \in 0 .. n - 1 : i # c => e1[i] = e[i]
  BY <1>0
<1> HIDE DEF e1, c1, h1
<1>5. (c1 - k) % n = IF k <= c1 THEN c1 - k ELSE c1 - k + n
  BY <1>0, <1>3, <1>4, CursorBack
<1>6. CASE k = 1
  <2>1. (c1 - k) % n = c
    BY <1>0, <1>2, <1>5, <1>6
  <2>2. e1[c] = miss
    BY <1>8
  <2>3. 1 <= Len(h1)
    BY <1>0, <1>1, <1>6
  <2>4. h1[1] = miss
    BY <1>1, <2>3
  <2> QED
    BY <2>1, <2>2, <2>3, <2>4, <1>6
<1>7. CASE k # 1
  <2>1. (c - (k - 1)) % n = IF k - 1 <= c THEN c - (k - 1) ELSE c - (k - 1) + n
    BY <1>0, <1>4, CursorBack
  <2>2. (c1 - k) % n = (c - (k - 1)) % n
    <3>1. CASE c + 1 = n
      BY <3>1, <1>0, <1>2, <1>4, <1>5, <1>7, <2>1
    <3>2. CASE c + 1 # n
      BY <3>2, <1>0, <1>2, <1>4, <1>5, <1>7, <2>1
    <3> QED
      BY <3>1, <3>2
  <2>3. (c - (k - 1)) % n # c /\ (c - (k - 1)) % n \in 0 .. n - 1
    BY <1>0, <1>4, <1>7, <2>1
  <2>4. e1[(c1 - k) % n] = e[(c - (k - 1)) % n]
    BY <1>8, <2>2, <2>3
  <2>5. k - 1 <= Len(h) /\ e[(c - (k - 1)) % n] = h[k - 1]
    BY <1>0, <1>4, <1>7 DEF WindowOK
  <2>6. k <= Len(h1)
    BY <1>0, <1>1, <1>4, <2>5
  <2>7. h1[k] = h[k - 1]
    BY <1>1, <1>4, <1>7, <2>6
  <2> QED
    BY <2>4, <2>5, <2>6, <2>7
<1> QED
  BY <1>6, <1>7

LEMMA FreshRing ==
    ASSUME NEW n \in Nat \ {0}
    PROVE  CountOK(EmptyRing(n), n, 0, 0, 0) /\ WindowOK(EmptyRing(n), n, 0, 0, <<>>)
<1>1. EmptyRing(n) \in [0 .. n - 1 -> BOOLEAN] /\ \A k \in 0 .. n - 1 : ~EmptyRing(n)[k]
  BY DEF EmptyRing
<1>2. Misses(EmptyRing(n), n) = {}
  BY <1>1 DEF Misses
<1>3. Cardinality(Misses(EmptyRing(n), n)) = 0
  BY <1>2, FS_EmptySet
<1> QED
  BY <1>1, <1>3 DEF CountOK, WindowOK

-----------------------------------------------------------------------------
(* A completed frame. *)

LEMMA EnterFields ==
    ASSUME NEW e, NEW n, NEW c, NEW f, NEW m, NEW miss \in BOOLEAN,
           NEW r, r = Enter([entries |-> e, size |-> n, cursor |-> c, filled |-> f,
                             missCount |-> m], miss)
    PROVE  /\ r.entries = [e EXCEPT ![c] = miss]
           /\ r.size = n
           /\ r.cursor = (c + 1) % n
           /\ r.filled = IF f = n THEN f ELSE f + 1
           /\ r.missCount = EnteredCount(e, n, c, f, m, miss)
<1> DEFINE ring0 == [entries |-> e, size |-> n, cursor |-> c, filled |-> f, missCount |-> m]
<1>1. /\ ring0.entries = e /\ ring0.size = n /\ ring0.cursor = c
      /\ ring0.filled = f /\ ring0.missCount = m
  OBVIOUS
<1>2. DOMAIN ring0 = {"entries", "size", "cursor", "filled", "missCount"}
  OBVIOUS
<1> QED
  BY <1>1, <1>2 DEF Enter, EnteredCount

RingOK(r) == CountOK(r.entries, r.size, r.cursor, r.filled, r.missCount)

LEMMA TargetWindowPositive ==
    ASSUME refreshRate \in RefreshRates PROVE TargetWindow \in Nat \ {0}
BY RatesAssumption, WindowAssumption DEF TargetWindow

\* The ring a frame is entered in is sound, whether it was replaced or not.
LEMMA CurrentRingOK ==
    ASSUME ControllerInv
    PROVE  \E e, n, c, f, m :
               /\ CurrentRing = [entries |-> e, size |-> n, cursor |-> c,
                                 filled |-> f, missCount |-> m]
               /\ CountOK(e, n, c, f, m)
               /\ WindowOK(e, n, c, f, IF MustResize THEN <<>> ELSE recent)
<1>1. CASE MustResize
  <2>1. CurrentRing = [entries |-> EmptyRing(TargetWindow), size |-> TargetWindow,
                       cursor |-> 0, filled |-> 0, missCount |-> 0]
    BY <1>1 DEF CurrentRing
  <2>2. TargetWindow \in Nat \ {0}
    BY TargetWindowPositive DEF ControllerInv
  <2> QED
    BY <1>1, <2>1, <2>2, FreshRing
<1>2. CASE ~MustResize
  <2>1. size # 0
    BY <1>2 DEF MustResize
  <2>2. CurrentRing = [entries |-> missRing, size |-> size,
                       cursor |-> cursor, filled |-> filled, missCount |-> missCount]
    BY <1>2 DEF CurrentRing
  <2> QED
    BY <1>2, <2>1, <2>2 DEF ControllerInv
<1> QED
  BY <1>1, <1>2

\* What Inv says of the ring, after FrameCompleted.
LEMMA FrameRing ==
    ASSUME ControllerInv, NEW miss \in BOOLEAN, FrameCompleted(miss)
    PROVE  /\ RingOK(Enter(CurrentRing, miss))
           /\ CountOK(missRing', size', cursor', filled', missCount')
           /\ WindowOK(missRing', size', cursor', filled', recent')
<1> DEFINE r == Enter(CurrentRing, miss)
           heard == IF MustResize THEN <<>> ELSE recent
<1>1. PICK e, n, c, f, m :
          /\ CurrentRing = [entries |-> e, size |-> n, cursor |-> c,
                            filled |-> f, missCount |-> m]
          /\ CountOK(e, n, c, f, m)
          /\ WindowOK(e, n, c, f, heard)
  BY CurrentRingOK
<1>2. /\ r.entries = [e EXCEPT ![c] = miss]
      /\ r.size = n
      /\ r.cursor = (c + 1) % n
      /\ r.filled = IF f = n THEN f ELSE f + 1
      /\ r.missCount = EnteredCount(e, n, c, f, m, miss)
  <2>1. r = Enter([entries |-> e, size |-> n, cursor |-> c, filled |-> f,
                   missCount |-> m], miss)
    BY <1>1
  <2> HIDE DEF r
  <2> QED
    BY <2>1, EnterFields
<1>3. /\ missRing' = r.entries /\ size' = r.size /\ cursor' = r.cursor
      /\ filled' = r.filled /\ missCount' = r.missCount
      /\ recent' = Remember(miss, heard)
  BY DEF FrameCompleted, Remember
<1> HIDE DEF r, heard
<1>4. RingOK(r)
  BY <1>1, <1>2, EnterCount DEF RingOK
<1>5. WindowOK(r.entries, r.size, r.cursor, r.filled, Remember(miss, heard))
  <2>1. WindowOK([e EXCEPT ![c] = miss], n, (c + 1) % n,
                 IF f = n THEN f ELSE f + 1, Remember(miss, heard))
    BY <1>1, EnterWindow
  <2> QED
    BY <1>2, <2>1, Zenon
<1>6. CountOK(missRing', size', cursor', filled', missCount')
  BY <1>3, <1>4 DEF RingOK
<1>7. WindowOK(missRing', size', cursor', filled', recent')
  BY <1>3, <1>5
<1> QED
  BY <1>4, <1>6, <1>7 DEF r

LEMMA FrameMargin ==
    ASSUME ControllerInv, NEW miss \in BOOLEAN, FrameCompleted(miss)
    PROVE  safetyMargin' \in Nat /\ MarginCapped' /\ inTripleBuffer' \in BOOLEAN
<1> DEFINE r == Enter(CurrentRing, miss)
           step == MarginStep[refreshRate]
           cap == VblankInterval[refreshRate]
<1>1. step \in Nat \ {0} /\ cap \in Nat \ {0} /\ safetyMargin \in Nat
      /\ refreshRate \in RefreshRates
  BY RatesAssumption DEF ControllerInv
<1>2. safetyMargin' = NextMargin(r) /\ inTripleBuffer' = NextBuffering(r)
  BY DEF FrameCompleted
<1> HIDE DEF r
<1>3. inTripleBuffer' \in BOOLEAN
  <2>1. inTripleBuffer \in BOOLEAN
    BY DEF ControllerInv
  <2>2. RateBelowLow(r) \in BOOLEAN /\ RateAboveHigh(r) \in BOOLEAN
    BY DEF RateBelowLow, RateAboveHigh
  <2> QED
    BY <1>2, <2>1, <2>2 DEF NextBuffering
<1>4. \/ safetyMargin' = safetyMargin
      \/ safetyMargin' = 0
      \/ safetyMargin > step /\ safetyMargin' = safetyMargin - step
      \/ safetyMargin' = cap
      \/ safetyMargin + step < cap /\ safetyMargin' = safetyMargin + step
  BY <1>2 DEF NextMargin
<1> HIDE DEF step, cap
<1>5. safetyMargin' \in Nat /\ (safetyMargin' <= safetyMargin \/ safetyMargin' <= cap)
  BY <1>1, <1>4
<1>6. PICK rate \in RefreshRates : safetyMargin <= VblankInterval[rate]
  BY DEF ControllerInv, MarginCapped
<1>7. VblankInterval[rate] \in Nat
  BY RatesAssumption
<1>8. safetyMargin' <= VblankInterval[rate] \/ safetyMargin' <= VblankInterval[refreshRate]
  BY <1>1, <1>5, <1>6, <1>7 DEF cap
<1> QED
  BY <1>1, <1>3, <1>5, <1>8 DEF MarginCapped

-----------------------------------------------------------------------------
LEMMA ControllerInitInv == ControllerInit => ControllerInv
<1> SUFFICES ASSUME ControllerInit PROVE ControllerInv
  OBVIOUS
<1>1. 0 <= VblankInterval[InitialRate] /\ InitialRate \in RefreshRates
  BY RatesAssumption
<1> QED
  BY <1>1 DEF ControllerInit, ControllerInv, MarginCapped

LEMMA ControllerNextInv == ControllerInv /\ [ControllerNext]_controllerVars => ControllerInv'
<1> SUFFICES ASSUME ControllerInv, [ControllerNext]_controllerVars PROVE ControllerInv'
  OBVIOUS
<1>1. ASSUME NEW miss \in BOOLEAN, FrameCompleted(miss) PROVE ControllerInv'
  <2>1. refreshRate' = refreshRate
    BY <1>1 DEF FrameCompleted
  <2> QED
    BY <1>1, <2>1, FrameRing, FrameMargin DEF ControllerInv
<1>2. ASSUME NEW rate \in RefreshRates, SetRefreshRate(rate) PROVE ControllerInv'
  BY <1>2 DEF SetRefreshRate, ring, ControllerInv, MarginCapped
<1>3. CASE UNCHANGED controllerVars
  BY <1>3 DEF controllerVars, ring, ControllerInv, MarginCapped
<1> QED
  BY <1>1, <1>2, <1>3 DEF ControllerNext

\* The inductive invariant of the controller.
THEOREM ControllerInvariance == ControllerSpec => []ControllerInv
BY ControllerInitInv, ControllerNextInv, PTL DEF ControllerSpec

\* The running count is what a rescan of the ring would find, for every
\* length of the ring and through every replacement of it.
THEOREM CountIsExact == ControllerSpec => []MissCountExact
<1>1. ControllerInv => MissCountExact
  <2> SUFFICES ASSUME ControllerInv PROVE MissCountExact
    OBVIOUS
  <2>1. CASE size = 0 /\ missCount = 0
    <3>1. {k \in 0 .. size - 1 : missRing[k]} = {}
      BY <2>1
    <3> QED
      BY <2>1, <3>1, FS_EmptySet DEF MissCountExact
  <2>2. CASE CountOK(missRing, size, cursor, filled, missCount)
    BY <2>2 DEF CountOK, Misses, MissCountExact
  <2> QED
    BY <2>1, <2>2 DEF ControllerInv
<1> QED
  BY <1>1, ControllerInvariance, PTL

\* The ring holds the last outcomes, in their order.
THEOREM RingHoldsWindow == ControllerSpec => []RingIsWindow
<1>1. ControllerInv => RingIsWindow
  <2> SUFFICES ASSUME ControllerInv PROVE RingIsWindow
    OBVIOUS
  <2>1. filled \in Nat /\ HistoryLength \in Nat /\ recent \in Seq(BOOLEAN)
    <3>1. CASE filled = 0 /\ recent = <<>>
      BY <3>1, HistoryAssumption
    <3>2. CASE /\ CountOK(missRing, size, cursor, filled, missCount)
               /\ WindowOK(missRing, size, cursor, filled, recent)
      BY <3>2, HistoryAssumption DEF CountOK, WindowOK
    <3> QED
      BY <3>1, <3>2 DEF ControllerInv
  <2>2. \A k \in 1 .. filled : k <= HistoryLength =>
            k <= Len(recent) /\ missRing[(cursor - k) % size] = recent[k]
    BY DEF ControllerInv, WindowOK
  <2> DEFINE known == IF filled < HistoryLength THEN filled ELSE HistoryLength
  <2>3. known \in Nat /\ known <= filled /\ known <= HistoryLength
    BY <2>1
  <2> HIDE DEF known
  <2>4. Len(recent) >= known
    <3>1. CASE known = 0
      BY <2>1, <3>1
    <3>2. CASE known # 0
      BY <2>1, <2>2, <2>3, <3>2
    <3> QED
      BY <3>1, <3>2
  <2>5. \A k \in 1 .. known : missRing[(cursor - k) % size] = recent[k]
    BY <2>1, <2>2, <2>3
  <2> QED
    BY <2>4, <2>5 DEF RingIsWindow, known
<1> QED
  BY <1>1, ControllerInvariance, PTL

\* The safety margin stays within one vblank interval.
THEOREM MarginIsCapped == ControllerSpec => []MarginCapped
<1>1. ControllerInv => MarginCapped
  BY DEF ControllerInv
<1> QED
  BY <1>1, ControllerInvariance, PTL

-----------------------------------------------------------------------------
LEMMA ProductInNat ==
    ASSUME NEW a \in Nat, NEW b \in Nat PROVE a * b \in Nat
OBVIOUS

LEMMA LessThanOne ==
    ASSUME NEW m \in Nat, NEW s \in Nat \ {0}, m * s < s
    PROVE  m = 0
<1>1. ASSUME m # 0 PROVE FALSE
  <2>1. PICK j \in Nat : m = j + 1
    <3>1. m - 1 \in Nat /\ m = (m - 1) + 1
      BY <1>1
    <3> QED
      BY <3>1
  <2>2. m * s = j * s + s
    BY <2>1
  <2>3. j * s \in Nat
    OBVIOUS
  <2> QED
    BY <2>2, <2>3
<1> QED
  BY <1>1

\* Triple buffering ends only after a window of frames without a miss.
LEMMA QuietStep ==
    ASSUME ControllerInv, NEW miss \in BOOLEAN, FrameCompleted(miss),
           inTripleBuffer, ~inTripleBuffer',
           TargetLow * size' <= Scale, size' <= HistoryLength
    PROVE  Len(recent') >= size' /\ \A k \in 1 .. size' : ~recent'[k]
<1> DEFINE r == Enter(CurrentRing, miss)
<1>1. RingOK(r) /\ WindowOK(missRing', size', cursor', filled', recent')
  BY FrameRing
<1>2. /\ missRing' = r.entries /\ size' = r.size /\ cursor' = r.cursor
      /\ filled' = r.filled /\ missCount' = r.missCount
      /\ inTripleBuffer' = NextBuffering(r)
  BY DEF FrameCompleted
<1> HIDE DEF r
<1>3. RateBelowLow(r) /\ r.filled = r.size
  BY <1>2 DEF NextBuffering
<1>4. missCount' * Scale < TargetLow * size' /\ filled' = size'
  BY <1>2, <1>3 DEF RateBelowLow
<1>5. CountOK(missRing', size', cursor', filled', missCount')
  BY <1>1, <1>2 DEF RingOK
<1>6. size' \in Nat \ {0} /\ missRing' \in [0 .. size' - 1 -> BOOLEAN]
      /\ cursor' \in 0 .. size' - 1 /\ missCount' = Cardinality(Misses(missRing', size'))
  BY <1>5 DEF CountOK
<1>7. IsFiniteSet(Misses(missRing', size')) /\ missCount' \in Nat
  BY <1>6, MissesFinite
<1>8. missCount' = 0
  <2>1. Scale \in Nat \ {0} /\ TargetLow \in Nat
    BY TargetsAssumption
  <2>2. missCount' * Scale \in Nat /\ TargetLow * size' \in Nat
    BY <1>6, <1>7, <2>1, ProductInNat
  <2>3. missCount' * Scale < Scale
    BY <1>4, <2>1, <2>2
  <2> QED
    BY <1>7, <2>1, <2>3, LessThanOne
<1>9. \A k \in 0 .. size' - 1 : ~missRing'[k]
  BY <1>6, <1>7, <1>8, FS_EmptySet DEF Misses
<1>10. recent' \in Seq(BOOLEAN)
       /\ \A k \in 1 .. size' : k <= Len(recent')
                                /\ missRing'[(cursor' - k) % size'] = recent'[k]
  <2>1. /\ recent' \in Seq(BOOLEAN)
        /\ \A k \in 1 .. filled' : k <= HistoryLength =>
               k <= Len(recent') /\ missRing'[(cursor' - k) % size'] = recent'[k]
    BY <1>1 DEF WindowOK
  <2>2. \A k \in 1 .. size' : k <= HistoryLength /\ k \in 1 .. filled'
    BY <1>4, <1>6, HistoryAssumption
  <2> QED
    BY <2>1, <2>2
<1>11. Len(recent') >= size'
  <2>1. size' \in 1 .. size'
    BY <1>6
  <2>2. size' <= Len(recent') /\ Len(recent') \in Nat
    BY <1>10, <2>1
  <2> QED
    BY <1>6, <2>2
<1>12. ASSUME NEW k \in 1 .. size' PROVE ~recent'[k]
  <2>1. (cursor' - k) % size' \in 0 .. size' - 1
    BY <1>6, CursorInRing
  <2> QED
    BY <1>9, <1>10, <2>1
<1> QED
  BY <1>11, <1>12

\* "only leaves triple after an entire window has stayed below the low
\* target", as a property of every step.
THEOREM TripleEndsQuietly == ControllerSpec => QuietBeforeDouble
<1> DEFINE Quiet ==
        inTripleBuffer /\ ~inTripleBuffer' /\ TargetLow * size' <= Scale
          /\ size' <= HistoryLength
            => /\ Len(recent') >= size'
               /\ \A k \in 1 .. size' : ~recent'[k]
<1>1. ControllerInv /\ [ControllerNext]_controllerVars => [Quiet]_controllerVars
  <2> SUFFICES ASSUME ControllerInv, ControllerNext, inTripleBuffer, ~inTripleBuffer',
                      TargetLow * size' <= Scale, size' <= HistoryLength
               PROVE  Len(recent') >= size' /\ \A k \in 1 .. size' : ~recent'[k]
    OBVIOUS
  <2>1. ASSUME NEW rate \in RefreshRates, SetRefreshRate(rate) PROVE FALSE
    BY <2>1 DEF SetRefreshRate
  <2>2. PICK miss \in BOOLEAN : FrameCompleted(miss)
    BY <2>1 DEF ControllerNext
  <2> QED
    BY <2>2, QuietStep
<1> QED
  BY <1>1, ControllerInvariance, PTL DEF ControllerSpec, QuietBeforeDouble

\* The state variables keep their types: the cursor stays inside the ring.
THEOREM ControllerTypeCorrect == ControllerSpec => []ControllerTypeOK
<1>1. ControllerInv => ControllerTypeOK
  <2> SUFFICES ASSUME ControllerInv PROVE ControllerTypeOK
    OBVIOUS
  <2>1. refreshRate \in RefreshRates /\ safetyMargin \in Nat /\ inTripleBuffer \in BOOLEAN
    BY DEF ControllerInv
  <2>2. CASE size = 0 /\ missRing = EmptyRing(0) /\ filled = 0 /\ missCount = 0
    BY <2>1, <2>2 DEF ControllerTypeOK, EmptyRing
  <2>3. CASE CountOK(missRing, size, cursor, filled, missCount)
    <3>1. size \in Nat /\ missCount = Cardinality(Misses(missRing, size))
      BY <2>3 DEF CountOK
    <3>2. missCount \in Nat
      BY <3>1, MissesFinite
    <3> QED
      BY <2>1, <2>3, <3>2 DEF ControllerTypeOK, CountOK
  <2> QED
    BY <2>2, <2>3 DEF ControllerInv
<1> QED
  BY <1>1, ControllerInvariance, PTL
=============================================================================
