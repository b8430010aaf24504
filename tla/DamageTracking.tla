--------------------------- MODULE DamageTracking ---------------------------
(***************************************************************************)
(* Which part of a swapchain image a frame repaints: the damage of the     *)
(* layer, the DamageJournal, the buffer age X11StandaloneVulkanBackend     *)
(* keeps for every image, the choice of ItemRendererVulkan between a       *)
(* clearing and a loading render pass, and the damage hint of the present. *)
(*                                                                         *)
(* A region is a set of tiles.  What an image shows is not modelled, only  *)
(* the tiles where it does not show the scene.  composite() runs on the    *)
(* main thread and nothing sees it half done, so a frame is one step.      *)
(***************************************************************************)
EXTENDS Integers, Sequences, FiniteSets

CONSTANTS
    Images,          \* the images of the swapchain
    NoImage,
    Tiles,           \* the pieces of the screen
    Capacity,        \* DamageJournal::m_capacity
    PartialRepaint,  \* m_partialRepaint
    MaxFrames,       \* bound: frames since the swapchain was created
    AcquireMaySkip,  \* acquiring an image or recreating the swapchain may fail
    LoadPassMayFail, \* creating the loading render pass may fail
    RenderMayFail,   \* recording or submitting the commands of a frame may fail
    PresentResults   \* vkQueuePresentKHR

ASSUME CapacityAssumption == Capacity \in Nat \ {0}
ASSUME ImagesAssumption == NoImage \notin Images
ASSUME EnvironmentAssumption ==
    /\ {PartialRepaint, AcquireMaySkip, LoadPassMayFail, RenderMayFail} \subseteq BOOLEAN
    /\ MaxFrames \in Nat
    /\ PresentResults \subseteq {"ok", "suboptimal", "outOfDate", "error"}

VARIABLES
    journal,          \* m_damageJournal, the newest region first
    frameCounter,     \* m_frameCounter
    lastRenderFrame,  \* m_imageLastRenderFrame, 0 for an image never rendered
    needsRecreation,  \* VulkanSwapchain::m_needsRecreation
    damage,           \* repaints of the layers, and of the items in them
    postPass,         \* ItemRenderer::hasFullscreenPostPasses()
    loadPass,         \* m_loadRenderPass exists, for the format of the swapchain
    blank,            \* history: the images of this swapchain nothing was rendered to
    stale,            \* history: the tiles where an image does not show the scene
    screen,           \* history: the tiles where the screen does not
    neverPresented,   \* history: the swapchain has presented nothing yet
    shown,            \* history: the image the last frame presented, NoImage if it failed
    missed,           \* history: what frames of an image were to repaint and did not
    unshown           \* history: what the screen was to show of those and does not

tracking == <<journal, frameCounter, lastRenderFrame>>
lost     == <<missed, unshown>>
history  == <<blank, stale, screen, neverPresented, shown, lost>>
vars == <<tracking, needsRecreation, damage, postPass, loadPass, history>>

TypeOK ==
    /\ journal \in Seq(SUBSET Tiles)
    /\ frameCounter \in Nat \ {0}
    /\ lastRenderFrame \in [Images -> Nat]
    /\ {needsRecreation, postPass, loadPass, neverPresented} \subseteq BOOLEAN
    /\ {damage, screen, unshown} \subseteq SUBSET Tiles
    /\ {stale, missed} \subseteq [Images -> SUBSET Tiles]
    /\ shown \in Images \union {NoImage}
    /\ blank \subseteq Images

\* initSwapchain(): resetDamageTracking(), and images with no usable contents.
\* The layer of start() is to be painted everywhere.
Init ==
    /\ journal = <<>>
    /\ frameCounter = 1
    /\ lastRenderFrame = [i \in Images |-> 0]
    /\ needsRecreation = FALSE
    /\ damage = Tiles
    /\ postPass = FALSE
    /\ loadPass = FALSE
    /\ blank = Images
    /\ stale = [i \in Images |-> Tiles]
    /\ screen = Tiles
    /\ neverPresented = TRUE
    /\ shown = NoImage
    /\ missed = [i \in Images |-> {}]
    /\ unshown = {}

-----------------------------------------------------------------------------
(* DamageJournal. *)

\* add(): the oldest regions make room.
Add(region) == SubSeq(<<region>> \o journal, 1,
                      IF Len(journal) < Capacity THEN Len(journal) + 1 ELSE Capacity)

\* accumulate()
Accumulate(bufferAge, fallback) ==
    IF bufferAge > 0 /\ bufferAge <= Len(journal)
      THEN UNION {journal[k] : k \in 1 .. bufferAge - 1}
      ELSE fallback

-----------------------------------------------------------------------------
(* The backend and the renderer. *)

\* bufferDamage(): what of image i is older than the last frame.
BufferDamage(i) ==
    IF \/ ~PartialRepaint
       \/ postPass
       \/ lastRenderFrame[i] = 0
       \/ lastRenderFrame[i] >= frameCounter
      THEN Tiles
      ELSE Accumulate(frameCounter - lastRenderFrame[i], Tiles)

\* composite(): what is repainted when image i was acquired.
Repaint(i) == damage \union BufferDamage(i)

\* Mutant: disjoint damage whose bounding box spans the screen clears it.
PartialFrameBoundingBox(i) == ~postPass /\ Cardinality(Repaint(i)) < 2

\* ItemRendererVulkan::beginFrame(): whether the frame is to load the image
\* and leave what is not repainted, or to clear it.
PartialFrame(i) == ~postPass /\ Repaint(i) # Tiles

\* What becomes of it: a partial frame clears as well when there is no loading
\* render pass, and nothing is painted without a command buffer, when
\* recording ends with an error or when the submission fails.
Renderings(i) ==
    {how \in {"load", "clear", "failed"} :
        /\ how = "load" => PartialFrame(i)
        /\ how = "clear" /\ PartialFrame(i) => ~loadPass /\ LoadPassMayFail
        /\ how = "failed" => RenderMayFail}

\* Whatever the frame does, composite() paints no more than Repaint(i).
StaleAfterPaint(i, how) ==
    CASE how = "load"   -> stale[i] \ Repaint(i)
      [] how = "clear"  -> Tiles \ Repaint(i)
      [] how = "failed" -> stale[i]

\* What image i lacks because of frames that did not paint what they should.
MissedAfterPaint(i, how) ==
    CASE how = "load"   -> missed[i] \ Repaint(i)
      [] how = "clear"  -> IF PartialFrame(i) THEN Tiles \ Repaint(i) ELSE {}
      [] how = "failed" -> missed[i] \union Repaint(i)

\* The loading render pass is created by the first frame that needs it.
LoadPassAfterPaint(i, how) ==
    CASE how = "load" -> {TRUE}
      [] how = "failed" /\ PartialFrame(i) -> {loadPass, TRUE}
      [] OTHER -> {loadPass}

\* Mutant: the frame is recorded for the next value of the counter.
RecordFrameDamageLate(i) ==
    IF PartialRepaint
      THEN /\ journal' = Add(damage)
           /\ lastRenderFrame' = [lastRenderFrame EXCEPT ![i] = frameCounter + 1]
           /\ frameCounter' = frameCounter + 1
      ELSE UNCHANGED tracking

RecordFrameDamage(i) ==
    IF PartialRepaint
      THEN /\ journal' = Add(damage)
           /\ lastRenderFrame' = [lastRenderFrame EXCEPT ![i] = frameCounter]
           /\ frameCounter' = frameCounter + 1
      ELSE UNCHANGED tracking

\* VulkanSwapchain::present(): what the presentation engine copies of image i.
\* The hint allows it to copy only the damage, once it has presented an image
\* of this swapchain.
Copies == IF neverPresented THEN {Tiles} ELSE {damage, Tiles}

-----------------------------------------------------------------------------
(* Actions. *)

\* The scene changes at some tiles: a window is damaged, moved or closed.  Next
\* has them change one at a time, which makes no difference before a frame.
Damage(region) ==
    /\ damage' = damage \union region
    /\ stale' = [i \in Images |-> stale[i] \union region]
    /\ screen' = screen \union region
    /\ UNCHANGED <<tracking, needsRecreation, postPass, loadPass, neverPresented, shown, blank, lost>>

\* An effect registers or unregisters its fullscreen pass and asks for a full
\* repaint.
TogglePostPass ==
    /\ postPass' = ~postPass
    /\ damage' = Tiles
    /\ stale' = [i \in Images |-> Tiles]
    /\ screen' = Tiles
    /\ UNCHANGED <<tracking, needsRecreation, loadPass, neverPresented, shown, blank, lost>>

\* Mutant: the tracking survives the images it is about.
RecreateSwapchainKeepsTracking ==
    /\ needsRecreation
    /\ needsRecreation' = FALSE
    /\ stale' = [i \in Images |-> Tiles]
    /\ neverPresented' = TRUE
    /\ shown' = NoImage
    /\ blank' = Images
    /\ missed' = [i \in Images |-> {}]
    /\ unshown' = {}
    /\ loadPass' \in {loadPass, FALSE}
    /\ UNCHANGED <<tracking, damage, postPass, screen>>

\* recreateSwapchainIfNeeded(), at the start of a frame.  The format of the new
\* swapchain may not be that of the loading render pass.
RecreateSwapchain ==
    /\ needsRecreation
    /\ needsRecreation' = FALSE
    /\ journal' = <<>>
    /\ frameCounter' = 1
    /\ lastRenderFrame' = [i \in Images |-> 0]
    /\ stale' = [i \in Images |-> Tiles]
    /\ neverPresented' = TRUE
    /\ shown' = NoImage
    /\ blank' = Images
    /\ missed' = [i \in Images |-> {}]
    /\ unshown' = {}
    /\ loadPass' \in {loadPass, FALSE}
    /\ UNCHANGED <<damage, postPass, screen>>

\* composite() with image i; acquiring it may ask for a new swapchain as well.
\* Whatever became of the rendering, doEndFrame() records the damage and
\* present() hands the image over.
Frame(i, how, acquired, r) ==
    /\ damage # {} /\ ~needsRecreation
    /\ frameCounter <= MaxFrames
    /\ how \in Renderings(i)
    /\ stale' = [stale EXCEPT ![i] = StaleAfterPaint(i, how)]
    /\ missed' = [missed EXCEPT ![i] = MissedAfterPaint(i, how)]
    /\ loadPass' \in LoadPassAfterPaint(i, how)
    /\ blank' = IF how = "failed" THEN blank ELSE blank \ {i}
    /\ RecordFrameDamage(i)
    /\ damage' = {}
    /\ needsRecreation' = (acquired = "suboptimal" \/ r \in {"suboptimal", "outOfDate"})
    /\ \/ /\ r \in {"ok", "suboptimal"}
          /\ \E copied \in Copies :
                /\ screen' = (screen \ copied) \union (stale'[i] \intersect copied)
                /\ unshown' = (unshown \ copied) \union (missed'[i] \intersect copied)
          /\ neverPresented' = FALSE
          /\ shown' = i
       \/ /\ r \in {"outOfDate", "error"}
          /\ unshown' = unshown \union damage
          /\ shown' = NoImage
          /\ UNCHANGED <<screen, neverPresented>>
    /\ UNCHANGED postPass

\* doBeginFrame() fails after prePaintPass() has taken the damage: an image is
\* not acquired, which may ask for a new swapchain, or recreating it fails.
SkipFrame ==
    /\ AcquireMaySkip
    /\ damage # {}
    /\ damage' = {}
    /\ needsRecreation' \in {needsRecreation, TRUE}
    /\ shown' = NoImage
    /\ missed' = [i \in Images |-> missed[i] \union damage]
    /\ unshown' = unshown \union damage
    /\ UNCHANGED <<tracking, postPass, loadPass, blank, stale, screen, neverPresented>>

Next ==
    \/ \E t \in Tiles : Damage({t})
    \/ TogglePostPass
    \/ RecreateSwapchain
    \/ \E i \in Images, how \in {"load", "clear", "failed"}, a \in {"ok", "suboptimal"},
         r \in PresentResults : Frame(i, how, a, r)
    \/ SkipFrame

Spec == Init /\ [][Next]_vars

-----------------------------------------------------------------------------
(* Properties. *)

\* A frame that repaints only the damage of its image leaves nothing else of
\* it out of date: what the presented image lacks was damaged since, or a
\* frame that was to repaint it did not and no later one of this image has.
ImageUpToDate == shown # NoImage => stale[shown] \subseteq damage \union missed[shown]

\* "tell the presentation engine which rectangles changed relative to the
\* previously presented image": what the hint leaves out is on screen already,
\* or a frame or a present that failed kept it from there.
ScreenUpToDate == shown # NoImage => screen \subseteq damage \union unshown

\* "A finite damage region also implies the swapchain image was rendered
\* before, so the LOAD path's preserved contents are valid": also when frames
\* are skipped, presents fail or the swapchain is replaced.  An image that
\* nothing was rendered to is loaded only after all of it was to be rendered
\* by frames that failed.
LoadedIsRendered == \A i \in blank : PartialFrame(i) => missed[i] = Tiles

\* What is out of date in an image was damaged since it was rendered: it is
\* still in the damage of the layer or in the journal, at an index below the
\* image's age, unless a frame that was to repaint it did not.
StaleIsJournaled ==
    \A i \in Images :
        LET age == frameCounter - lastRenderFrame[i]
        IN  lastRenderFrame[i] > 0 /\ age <= Len(journal) =>
                stale[i] \subseteq damage \union missed[i]
                                   \union UNION {journal[k] : k \in 1 .. age - 1}

-----------------------------------------------------------------------------
(* Sentences of comments that the code does not keep: README, section 6. *)

\* "Its contents are that stale, so repaint everything damaged since then":
\* the presented image shows the scene, up to the damage reported since.
PresentedIsComplete == shown # NoImage => stale[shown] \subseteq damage

\* "tell the presentation engine which rectangles changed relative to the
\* previously presented image": the screen shows the scene after a present.
ScreenIsComplete == shown # NoImage => screen \subseteq damage
=============================================================================
