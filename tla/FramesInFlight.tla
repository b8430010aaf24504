--------------------------- MODULE FramesInFlight ---------------------------
(***************************************************************************)
(* What the CPU and the GPU share from frame to frame: the fences and      *)
(* semaphores of VulkanSwapchain, one of each per frame slot, the command  *)
(* buffer of the last frame, the textures queued for destruction and the   *)
(* descriptor pool that ItemRendererVulkan recycles.                       *)
(*                                                                         *)
(* One frame runs through X11Compositor::composite(), VulkanLayer's        *)
(* doBeginFrame(), ItemRendererVulkan's beginFrame() and endFrame(), and   *)
(* VulkanSwapchain::present().  The GPU executes what was submitted in     *)
(* order, at any later time.                                               *)
(*                                                                         *)
(* The names that every specification has are FramesInit, FramesSpec and so *)
(* on here: a frame has another half, DamageTracking, and the proofs extend *)
(* both.                                                                   *)
(***************************************************************************)
EXTENDS Integers, Sequences

CONSTANTS
    MaxFramesInFlight,  \* MAX_FRAMES_IN_FLIGHT
    CommandBuffers,     \* names for VkCommandBuffers
    Textures,           \* names for textures windows are drawn from
    FirstTexture,       \* the one that is used first
    NoBuffer,           \* VK_NULL_HANDLE
    Pool,               \* the descriptor sets of the pool
    AcquireMayFail,     \* vkAcquireNextImageKHR
    MaxFailedFrames,    \* bound: how often vkAllocateCommandBuffers, vkEndCommandBuffer
                        \* or vkQueueSubmit fail
    MayHaveNoDamage     \* whether a frame may be requested when nothing needs a repaint

ASSUME FramesAssumption == MaxFramesInFlight \in Nat \ {0}
ASSUME NamesAssumption ==
    /\ NoBuffer \notin CommandBuffers
    /\ FirstTexture \in Textures
    /\ Textures \intersect CommandBuffers = {}
    /\ Pool \notin Textures \union CommandBuffers
ASSUME FlagsAssumption ==
    /\ {AcquireMayFail, MayHaveNoDamage} \subseteq BOOLEAN
    /\ MaxFailedFrames \in Nat

Slots == 0 .. MaxFramesInFlight - 1

VARIABLES
    stage,            \* where the main thread is in composite()
    slot,             \* VulkanSwapchain::m_currentFrame
    fence,            \* the slots whose in-flight fence is signaled
    imageAvailable,   \* the slots whose semaphore was signaled and not waited for
    renderFinished,   \* likewise; both count a signal that is still queued
    gpu,              \* submissions the GPU has not finished
    allocated,        \* command buffers that are allocated
    prevBuffer,       \* m_prevCommandBuffer
    currentBuffer,    \* m_currentCommandBuffer
    outputsInFlight,  \* m_outputsInFlight
    texture,          \* the texture the scene is drawn from
    retired,          \* textures queued for destruction
    released,         \* history: what the last beginFrame() freed, destroyed or reset
    prevSlot          \* history: the slot prevBuffer was submitted for

swapchainVars == <<slot, fence, imageAvailable, renderFinished>>
rendererVars  == <<allocated, prevBuffer, currentBuffer, outputsInFlight, released, prevSlot>>
textureVars   == <<texture, retired>>
framesVars == <<stage, swapchainVars, gpu, rendererVars, textureVars>>

Stages == {"idle", "composite", "begin", "acquired", "recording", "present"}

Submissions == [slot : Slots, uses : SUBSET (CommandBuffers \union Textures \union {Pool})]

FramesTypeOK ==
    /\ stage \in Stages
    /\ slot \in Slots /\ prevSlot \in Slots
    /\ {fence, imageAvailable, renderFinished} \subseteq SUBSET Slots
    /\ gpu \in Seq(Submissions)
    /\ allocated \subseteq CommandBuffers
    /\ {prevBuffer, currentBuffer} \subseteq allocated \union {NoBuffer}
    /\ outputsInFlight \in Nat
    /\ texture \in Textures /\ retired \subseteq Textures
    /\ released \subseteq CommandBuffers \union Textures \union {Pool}

FramesInit ==
    /\ stage = "idle"
    /\ slot = 0 /\ fence = Slots
    /\ imageAvailable = {} /\ renderFinished = {}
    /\ gpu = <<>>
    /\ allocated = {} /\ prevBuffer = NoBuffer /\ currentBuffer = NoBuffer
    /\ outputsInFlight = 0
    /\ texture = FirstTexture /\ retired = {}
    /\ released = {} /\ prevSlot = 0

InUse == UNION {gpu[i].uses : i \in DOMAIN gpu}

-----------------------------------------------------------------------------
\* A window gets a new pixmap: its old texture is queued for destruction,
\* with a fence no frame is submitted with and that is therefore signaled.
ReplaceTexture(t) ==
    /\ stage = "idle"
    /\ t \notin {texture} \union retired \union InUse
    /\ texture' = t
    /\ retired' = retired \union {texture}
    /\ UNCHANGED <<stage, swapchainVars, gpu, rendererVars>>

\* Mutant: the device is asked for a reset without waiting for it.
CheckGraphicsResetNoWait ==
    /\ stage = "idle"
    /\ stage' = "composite"
    /\ UNCHANGED <<swapchainVars, gpu, rendererVars, textureVars>>

\* composite() up to checkGraphicsReset(), whose vkDeviceWaitIdle blocks
\* until the GPU has finished everything.
CheckGraphicsReset ==
    /\ stage = "idle"
    /\ gpu = <<>>
    /\ stage' = "composite"
    /\ UNCHANGED <<swapchainVars, gpu, rendererVars, textureVars>>

NeedsRepaint ==
    /\ stage = "composite"
    /\ stage' = "begin"
    /\ UNCHANGED <<swapchainVars, gpu, rendererVars, textureVars>>

NothingToPaint ==
    /\ MayHaveNoDamage
    /\ stage = "composite"
    /\ stage' = "present"
    /\ UNCHANGED <<swapchainVars, gpu, rendererVars, textureVars>>

\* doBeginFrame(): waitForFence() blocks until the fence of the slot is
\* signaled; it is reset only once there is an image.
AcquireNextImage ==
    /\ stage = "begin"
    /\ slot \in fence
    /\ imageAvailable' = imageAvailable \union {slot}
    /\ fence' = fence \ {slot}
    /\ stage' = "acquired"
    /\ UNCHANGED <<slot, renderFinished, gpu, rendererVars, textureVars>>

\* Mutant: the fence is reset before the result is looked at.
AcquireFailsAfterReset ==
    /\ AcquireMayFail
    /\ stage = "begin"
    /\ slot \in fence
    /\ fence' = fence \ {slot}
    /\ stage' = "present"
    /\ UNCHANGED <<slot, imageAvailable, renderFinished, gpu, rendererVars, textureVars>>

AcquireFails ==
    /\ AcquireMayFail
    /\ stage = "begin"
    /\ slot \in fence
    /\ stage' = "present"
    /\ UNCHANGED <<swapchainVars, gpu, rendererVars, textureVars>>

\* ItemRendererVulkan::beginFrame(), with the command buffer b it gets.
RendererBeginFrame(b) ==
    /\ stage = "acquired"
    /\ released' = ({prevBuffer} \ {NoBuffer}) \union retired
                   \union (IF outputsInFlight = 0 THEN {Pool} ELSE {})
    /\ prevBuffer' = NoBuffer
    /\ retired' = {}
    /\ outputsInFlight' = outputsInFlight + 1
    /\ b \notin allocated \ {prevBuffer}
    /\ currentBuffer' = b
    /\ allocated' = (allocated \ {prevBuffer}) \union ({b} \ {NoBuffer})
    /\ stage' = "recording"
    /\ UNCHANGED <<swapchainVars, gpu, texture, prevSlot>>

\* vkAllocateCommandBuffers returns a new buffer or fails.  Every failed
\* frame stays counted in outputsInFlight.
RendererBegins ==
    \/ \E b \in CommandBuffers : RendererBeginFrame(b)
    \/ outputsInFlight < MaxFailedFrames /\ RendererBeginFrame(NoBuffer)

\* Mutant: the submission does not wait for the acquired image.
SubmitUnordered ==
    /\ stage = "recording" /\ currentBuffer # NoBuffer
    /\ gpu' = Append(gpu, [slot |-> slot, uses |-> {currentBuffer, texture, Pool}])
    /\ renderFinished' = renderFinished \union {slot}
    /\ prevBuffer' = currentBuffer /\ prevSlot' = slot
    /\ currentBuffer' = NoBuffer
    /\ outputsInFlight' = outputsInFlight - 1
    /\ stage' = "present"
    /\ UNCHANGED <<slot, fence, imageAvailable, allocated, released, textureVars>>

\* endFrame(): the submission waits for imageAvailable, signals
\* renderFinished and, when it is done, the fence.
Submit ==
    /\ stage = "recording" /\ currentBuffer # NoBuffer
    /\ gpu' = Append(gpu, [slot |-> slot, uses |-> {currentBuffer, texture, Pool}])
    /\ imageAvailable' = imageAvailable \ {slot}
    /\ renderFinished' = renderFinished \union {slot}
    /\ prevBuffer' = currentBuffer /\ prevSlot' = slot
    /\ currentBuffer' = NoBuffer
    /\ outputsInFlight' = outputsInFlight - 1
    /\ stage' = "present"
    /\ UNCHANGED <<slot, fence, allocated, released, textureVars>>

\* endFrame() returns early: there is no command buffer, or vkEndCommandBuffer
\* failed (the buffer is kept), or vkQueueSubmit did (it is freed).
EndFrameFails ==
    /\ stage = "recording"
    /\ outputsInFlight <= MaxFailedFrames
    /\ stage' = "present"
    /\ \/ UNCHANGED <<allocated, currentBuffer>>
       \/ /\ allocated' = allocated \ {currentBuffer}
          /\ currentBuffer' = NoBuffer
    /\ UNCHANGED <<swapchainVars, gpu, prevBuffer, outputsInFlight, released, prevSlot, textureVars>>

\* vkQueuePresentKHR waits for renderFinished; advanceFrame().
Present ==
    /\ stage = "present"
    /\ renderFinished' = renderFinished \ {slot}
    /\ slot' = (slot + 1) % MaxFramesInFlight
    /\ stage' = "idle"
    /\ UNCHANGED <<fence, imageAvailable, gpu, rendererVars, textureVars>>

\* The GPU finishes the oldest submission and signals its fence.
GpuCompletes ==
    /\ gpu # <<>>
    /\ gpu' = Tail(gpu)
    /\ fence' = fence \union {Head(gpu).slot}
    /\ UNCHANGED <<stage, slot, imageAvailable, renderFinished, rendererVars, textureVars>>

-----------------------------------------------------------------------------
Composite ==
    \/ CheckGraphicsReset \/ NeedsRepaint \/ NothingToPaint
    \/ AcquireNextImage \/ AcquireFails
    \/ RendererBegins
    \/ Submit \/ EndFrameFails
    \/ Present

FramesNext ==
    \/ \E t \in Textures : ReplaceTexture(t)
    \/ Composite
    \/ GpuCompletes

FramesSpec == FramesInit /\ [][FramesNext]_framesVars

\* The GPU makes progress, and the main thread runs a frame it has begun.
FramesFairSpec == FramesSpec /\ WF_framesVars(GpuCompletes) /\ WF_framesVars(stage # "idle" /\ Composite)

-----------------------------------------------------------------------------
(* Properties. *)

\* What beginFrame() frees, destroys or resets is not used by work the GPU
\* has not finished: the command buffer of the previous frame, the textures
\* queued for destruction, and the sets of the descriptor pool.
ReleasedUnused == stage = "recording" => released \intersect InUse = {}

\* No frame was given up between beginFrame() and the submission.
NoFailedFrame == outputsInFlight = (IF stage = "recording" THEN 1 ELSE 0)

\* "the next waitForFence() will block forever (UINT64_MAX timeout -> freeze)":
\* a fence that is not signaled belongs to the frame that is being recorded
\* or to a submission that will signal it, until a submission fails.
FenceWillSignal ==
    NoFailedFrame =>
        \A s \in Slots \ fence :
            \/ s = slot /\ stage \in {"acquired", "recording"}
            \/ \E i \in DOMAIN gpu : gpu[i].slot = s

\* The semaphore handed to vkAcquireNextImageKHR, once waitForFence() has
\* returned, has no signal pending, whatever became of earlier frames.
AcquireSemaphoreFree ==
    stage = "begin" /\ slot \in fence => slot \notin imageAvailable

\* No frame blocks the main thread for ever, until a submission fails.
FramesEnd == stage # "idle" ~> stage = "idle" \/ ~NoFailedFrame

-----------------------------------------------------------------------------
(* Sentences of comments that the code does not keep: README, section 6. *)

\* "Present waits on renderFinishedSemaphore (signaled by this submit)": a
\* present waits for a semaphore that something has signaled.
PresentsRendered == stage = "present" => slot \in renderFinished

\* "doBeginFrame() calls swapchain->waitForFence() ..., so the GPU is
\* guaranteed to have finished using m_prevCommandBuffer": the fence that was
\* waited for is the one that command buffer was submitted with.
PrevFenceWaited == stage = "acquired" /\ prevBuffer # NoBuffer => prevSlot = slot

=============================================================================
