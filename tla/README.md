# Volcanic: a TLA+ model of the compositing core and of what windows it shows

Volcanic is KWin for X11 with a Vulkan renderer. This directory models the part
of it that decides when a frame is composited, what is painted and how the frame
reaches the screen, and four protocols around it: how damage gets from X clients
to the GPU, how a window waits for a client that may hang, which window comes
next when desktops come and go, and who has the keyboard. TLC model-checks the
modules; TLAPS proves the invariants of all ten. Paths below are relative to the repository's
`src/` directory (`core/renderloop.cpp` is `src/core/renderloop.cpp` of the
repository).

1. [Inventory](#1-inventory)
2. [The modules](#2-the-modules)
3. [The runs](#3-the-runs)
4. [Bounds, fairness and the environment](#4-bounds-fairness-and-the-environment)
5. [What is proved](#5-what-is-proved)
6. [Where the code does not do what it says](#6-where-the-code-does-not-do-what-it-says)
7. [What is not modelled](#7-what-is-not-modelled)
8. [Plan](#8-plan)

## 1. Inventory

Volcanic is one process. Its main thread runs the Qt event loop: X events,
timers, queued calls and signals that other threads post. A few helper threads
wait in the graphics driver for a vblank or a presentation. The GPU and the X
server are external.

| component | state | operations | interacts with |
|---|---|---|---|
| Render loop (`core/renderloop.cpp`, `core/renderbackend.cpp`) | timers, frames in flight, inhibit count, what is pending | schedule, dispatch, prepare and paint a frame, presented or dropped, inhibit | calls the compositor (`frameRequested`), is called by layers, effects, backends |
| Miss-rate controller (end of `notifyFrameCompleted()`) | ring of outcomes, running count, safety margin, buffering mode | completed frame, refresh rate change | feeds the scheduler's margin |
| X11 compositor (`compositor.cpp`, `compositor_x11.cpp`) | on or off, reasons to be suspended, inhibiting windows, the selection and its release timer | start, stop, toggle, inhibit, restart, lose the selection, composite | windows, options, the session's other compositors, the backend |
| Vulkan backend on X11 (`backends/x11/standalone/x11_standalone_vulkan_backend.cpp`) | the frame that waits for feedback, swapchain, monitors, buffer ages | begin frame, present, recreate, vblank, monitor error | render loop, swapchain, helper threads |
| Present-timing monitor (`platformsupport/scenes/vulkan/vulkanpresenttimingmonitor.cpp`) | a thread, its queue of waits, a swapchain handle | arm, wait, report, fail | backend, driver |
| Vsync monitors (`utils/*vsyncmonitor.cpp`, `backends/x11/standalone/`) | a thread each | arm, report, fail | backend |
| Swapchain and frame synchronisation (`vulkanswapchain.cpp`, `vulkancontext.cpp`, `scene/itemrenderer_vulkan.cpp`) | fences, semaphores, slots, command buffers, retired resources | acquire, record, submit, present, recycle | GPU |
| Damage tracking (`utils/damagejournal.h`, backend, item renderer) | journal, buffer ages, damage of layers, hint of the next present | damage, repaint, record, reset | scene, swapchain |
| Overlay window | visibility | visibility notify | compositor, layers |
| Damage of X clients and fences (`scene/surfaceitem_x11.cpp`, `x11syncmanager.cpp`) | XDamage objects, a ring of X fences shared with the GPU | damage event, fetch, trigger, wait, reset, delete | X server, GPU, OpenGL backends |
| Sync requests and pings (`x11window.cpp`) | a request under way and its timer, an alarm, a ping and its timer, the kill prompt | ask, acknowledge, time out, republish, resize, close | clients, compositor |
| Scene, items, layers (`scene/`) | item tree, repaints | update, paint | effects, renderers |
| Effects (`effect/`, `plugins/`) | loaded effects, animations | load, animate, paint passes | scene |
| Window management (`window.cpp`, `x11window.cpp`, `workspace.cpp`, `layers.cpp`) | windows, geometry, stacking | manage, move, resize, close | X server, clients |
| Focus chains and virtual desktops (`focuschain.cpp`, `virtualdesktops.cpp`, slots of `workspace.cpp`) | a chain per desktop, the list of desktops, the current one | activate, restack, send to desktops, add and remove desktops | window management, task switcher |
| Activation (`activation.cpp`, focus events of `events.cpp`) | the active and the last active window, the windows that were asked to take the focus, timers of lost focus | activate, activate the next, restore, `FocusIn`, `FocusOut` | X server, clients, focus chains |
| Placement (`placementtracker.cpp`) | saved placements | restore | window management |
| Input (`input.cpp`, `pointer_input.cpp`, `gestures.cpp`, `screenedge.cpp`) | filters, gestures, edges | events | windows, effects |
| Task switcher, tiles, rules, decorations, scripting, sessions, settings | their own | | window management |

`PROJECT.json` lists all of them, with the reason for each that has no module.

What makes this code hard:

* **One frame of depth.** The backend keeps one frame in flight
  (`maxPendingFrameCount` is 1). A frame that is never resolved stops the screen
  for good, without an error message and without a way back; one that is
  resolved early lets the scheduler run ahead of the display.
* **Two threads and a queue between them.** The answer to a present arrives as a
  queued signal, after the main thread has moved on, possibly to another frame
  or another swapchain.
* **Calls that are queued on the state of now.** Suspension by windows is decided
  in one event cycle and carried out in a later one.
* **Partial failure.** Every step of a frame may fail in the driver, after
  earlier steps have consumed something: the damage, a semaphore, a fence.
* **Answers that may not come.** A client is asked to redraw or to show that it is
  alive; its answer races a timer, and may belong to an earlier question.
* **Order across connections.** A fence is handed between the X server and the GPU
  without a round trip; only the order of requests keeps them apart.
* **State that others own.** The input focus belongs to the X server and any client
  may move it; what Workspace knows of it is late, and so are its own requests.
* **Signals within signals.** Removing a desktop runs through four objects, each
  of which sees the others half changed.
* **Incremental state.** Buffer ages, damage hints and the count of missed
  vblanks are only right if no step of a long history was skipped.

What makes each part correct is stated as its properties, in section 3. The
hazards behind them are listed line by line in `PROJECT.json`.

## 2. The modules

```
RenderLoop  <---- INSTANCE, refinement ----  VulkanPresentation
MissRateController     FramesInFlight     DamageTracking     X11Compositor
X11Damage     X11WindowProtocols     FocusChain     X11Focus
<each>Proofs; FrameProofs is about DamageTracking, FramesInFlight and MissRateController
```

**RenderLoop.** The members of `RenderLoopPrivate` that the control depends on
are one record, `loop`; each function that changes them is an operator from
record to record, so that handlers that call each other are compositions
(`NotifyFrameDropped` schedules the repaint that waited, as the code does) and so
that another module can call them. The compositor around the loop is any that
keeps the protocol of `frameRequested()`: `cycle` says how far its handler is.
Destroying and presenting frames may happen at any time, in any order. The
history variable `requested` remembers a request no cycle has taken up. When a
timer expires is left out; that it runs is kept. This module is also the
abstract specification that a backend has to implement.

The history variable `resumed` remembers that an inhibition was lifted: from
then on a loop may have one frame more in flight than its limit, since
`uninhibit()` schedules without looking at the pipeline.

**VulkanPresentation.** `X11Compositor::composite()` with
`VulkanLayer::doBeginFrame()` and `X11StandaloneVulkanBackend::present()`, cut
into the pieces named by `stage` where another thread can tell the difference or
the loop is called; the helper thread of the present-timing monitor (`helper`,
`waits`, `posted`); the stand-by VsyncMonitor (`vsyncFor`); recreation of the
swapchain, whose first half destroys the old handle and whose second half
replaces the monitor; the overlay window. `PROPERTY LoopSpec` is `Loop!Spec`,
`RenderLoop` under the refinement mapping that hands its variables through: every
step of the backend is a step of the loop or leaves it alone. `damaged` is what
the layer has on record, `dirty` what really needs painting. `degraded` remembers
that the driver failed in a way that feedback or damage does not survive (an
image that could not be acquired, a recreation that failed, a stale wait, a
monitor error): the properties that need a healthy driver are stated until then,
and section 6 shows that each of these failures is needed.

**FramesInFlight.** The same frame seen by the GPU: a fence and two semaphores
for each of the slots, the command buffer of the last frame, textures queued for
destruction, the descriptor pool, and `gpu`, the submissions not finished.
`checkGraphicsReset()` is an action that waits for the device, since
`vkDeviceWaitIdle` in it is what makes half of the rest safe.

**DamageTracking.** A region is a set of tiles. An image is not represented by
what it shows but by `stale`, the tiles where it does not show the scene, and the
screen likewise; `blank` are the images nothing was rendered to. A frame is one
step: nothing sees it half done. The journal, buffer ages and the hint follow the
code. A frame that wants to leave what it does not repaint loads the image
(`PartialFrame`); `Renderings` says what becomes of it. Without a loading render pass
(`loadPass`, created by the first frame that needs it) the image is cleared, although
`composite()` has the scene paint the damage only; and when the command buffer, the
recording or the submission fails nothing is painted. `doEndFrame()` records
the frame all the same, so the image counts as repainted. `missed` are the
tiles of each image that frames were to repaint and did not, because they cleared,
failed or found no image; a later frame of that image may repaint them. `unshown` are
those the screen lacks for such a frame or a present that failed.

**MissRateController.** The ring and what is computed from it. Rates are compared
as fractions, times are in units of the smallest margin step, and the outcome of
a frame is an input.

**X11Compositor.** `start()` and `stop()` run to their end within one call, so
`m_state` is `Off` or `On` between actions. The calls that `inhibit()` and
`uninhibit()` queue are `queue`; the delayed start of the constructor and the
timer that releases the selection are separate.

**X11Damage.** The OpenGL backends' half of a frame: `SurfaceItemX11` with its
XDamage object, the start of `composite()` that fetches every damaged region and
triggers a fence, and `X11SyncManager` from construction to destruction. Four
parties run on their own: clients draw, the X server works off `sent` and finishes
`rendering`, the GPU works off `gpu`, and the main thread goes through `phase`.
`composite()` is cut where it waits for the server or for a fence;
`X11SyncManager::endFrame()` is cut into the iterations of its loop, since the
server moves between them. A destructor that waits in the driver is the state
`manager = "deleting"`. An item schedules a frame for its damage only while it is in
sight, and nothing is fetched under an overlay that is obscured: `visible`,
`overlayVisible`, `frameScheduled`. The GPU may be any number of frames behind. `gpu`
has the newest of those it has not finished; the model forgets older ones, about which
nothing is said.

**X11WindowProtocols.** One `X11Window` from `manage()` to its destructor and the
client behind it. `messages` and `events` are the two queues between them; the
client handles its messages in order, hangs and comes back, replaces its counter,
takes it back or publishes an id that is none, and may die at any time.
`frame` follows `target` (the geometry the X window already has) through
interactive resizes. Both protocols are in one module because they share the
client, its queue and its death. `republished` is a history variable: reading a
new counter resets half of the request that is under way (`x11window.cpp:2562`),
and what is promised is promised until a client does that. A client that has
published a counter replaces it, and so does one whose first publication is still to
be read.

**FocusChain.** `FocusChain` together with its callers: `VirtualDesktopManager`,
and the slots and functions of `Workspace` that manage, activate, restack, move and
close windows. Objects call each other through signals within one event, so a
public operation is one action and the composition happens within it:
`RemoveDesktops` runs the current desktop's change, the evacuation of the windows
in any order, the chain's own slot and the closing windows, in the order of the
connections. Which window a chain offers (minimized ones are passed over) is left
open. `unseen` remembers the desktops that were added while a window was on all
of them: `slotDesktopAdded()` starts with an empty chain, and the window enters it
when it is next updated.

**X11Focus.** The input focus between the X server (`focus`, `viewable`, the queue
`events`), clients that set it unasked, let go of it, answer `WM_TAKE_FOCUS` late,
appear and vanish, and Workspace: `active`, `last`, `requested` (`should_get_focus`)
and the zero `timers` of windows that lost it. Handlers are compositions of
functions from a record of that state to another, or to a set of them where the
outcome is open: the server ignores a request with a time older than the last
change of focus, so `behind` says that `xTime()` may be (`focusToNull()` uses it) and
`overtaken` that a client's answer may be. Which candidate `activateNextWindow()` and a
change of desktop choose is left open (`FocusChain` says), and so is focus
stealing prevention where its level and times of use decide. A new window may always
be refused: it asks for that by a user time of 0. A `FocusIn` finds no such time, since
`manage()` has replaced it by its end (`x11window.cpp:1152`) and
`updateUserTime()` takes 0 for the time of the server (`x11window.cpp:5194`); so a window is activated
that was the last active one, or when none was. `failed` remembers
that `takeFocus()` failed.

Each `MC` module gives a module its model values. Operators whose comment begins
with "Mutant:" are broken variants of a definition, kept beside it to test that
the properties notice: no specification uses them.

## 3. The runs

### Runs that pass

| run | properties | distinct states |
|---|---|---|
| `loop` | `FrameCountExact`, `RequestNotLost`, `CapacityRespected`, `RequestServed`: the count never disagrees with the frames, a request is scheduled or waits for something that will schedule it, no more frames in flight than configured although the limit drops to one when the mode changes, and a request leads to a cycle | 4063 |
| `vk_all` | `FeedbackMatchesFrame`, `HeldFrameUnresolved`, `LoopSpec`: with every failure enabled, feedback resolves only its own frame, no frame twice, and the backend implements `RenderLoop`; `FrameOwedFeedback`, `HelperOnLiveHandle`, `FramesResolved`, `DamagePainted`: until `degraded`, a frame in flight is owed an answer and gets one, damage is painted, and no wait runs on a handle that was replaced | 9645 |
| `fif_sync` | `ReleasedUnused`, `AcquireSemaphoreFree`, `FramesEnd`: nothing in use is released, no semaphore is acquired with while a signal is pending, and until a submission fails no wait is for ever | 111300 |
| `dmg_images` | `ImageUpToDate`, `StaleIsJournaled`, `ScreenUpToDate`: partial repaints are complete and so are damage hints, whatever is acquired, rendered, presented or replaced, but for what a frame was to repaint and did not or a present failed to show; the journal forgets nothing else | 1391562 |
| `miss_ring` | `MissCountExact`, `RingIsWindow`, `QuietBeforeDouble`: the running count is what a rescan would find, the ring is the window of the last frames, triple buffering ends only after a quiet window | 28707 |
| `comp_lifecycle` | `InhibitionTakesEffect`, `SelectionReleased`: an inhibition is in force or under way, and who stays off gives the selection back | 25320 |
| `x11_fences` | `NextFenceFree`, `NoPrematureWait`, `NotResetWhileWaited`: the assertion of `trigger()` holds, the GPU never passes a fence because of an earlier use, and none is reset that one of the two newest frames of the GPU waits for, however far behind it is; `DamageFetched`, `FrameEnds`: neither the damage of a window in sight nor a frame nor a destructor waits for ever | 480180 |
| `focus_desktops` | `MembersBelong`, `NoneMissing`, `NothingDangles`, `WindowsFollow`: chains hold exactly the windows of their desktops, nobody refers to a desktop or window that is gone, and the windows of the removed current desktop stay in sight | 262954 |
| `client_answers` | `OneRequestUnderWay`, `FrameFollows`, `UnansweredIsKnown`: never two sync requests, a resized client is followed by its frame, and only a client that owes an answer is shown as unresponsive; `WaitEnds`, `ReadyToPaint`, `ClientComesBack`: a hung client blocks neither a resize nor its first frame, and one that comes back is trusted again | 320876 |
| `focus_keyboard` | `ActiveHasFocus`, `FocusedIsActive`, `KeyboardHasOwner`: once every event was handled, and as long as hidden windows are unmapped, the window that is shown as active gets the keys, and the one that gets them is active unless `takeFocus()` failed; a focus that reverts to `PointerRoot` is given to somebody, unless `takeFocus()` fails | 687528 |

Three runs turn the deadlock check off. `fif_sync`: after a failed submission the
code really stops in `waitForFence()`; `FramesEnd` says that nothing else stops it.
`client_answers`: the window may be gone. `focus_keyboard`: users and clients have
done their `MaxSteps`.

What the proofs of section 5 establish and no other property needs is not
repeated in a run: the type invariants, `LoadedIsRendered`, `SuspendedIsOff`,
`SelectionHeldWhileOn`, `InhibitedIsPaused`, `MarginCapped`,
`FullPipelineNotDispatched`, `FenceWillSignal`, `NoDamageLost`.

### Runs that find a violation

`vk_stranded` and `dmg_skipped`, see section 6. Each checks one sentence of a
comment, in the smallest environment that violates it.

### Mutants

`PROJECT.json` names one for every property of every passing run: a plausible
mistake in the code (a limit compared with `<=`, a reset that is forgotten, a
cursor that moves too early) under which TLC finds the property violated.

## 4. Bounds, fairness and the environment

| bound | value | why it is enough |
|---|---|---|
| frames (`FrameIds`) | 3 | in `loop`, one more than can be in flight with a depth of 2, so that "full" and "one free" differ; in `vk_*`, one in flight, one a late signal names, one new |
| `MaxPendingFrameCount` | 2 in `loop`, 1 in `vk_*` | 1 is the code's value; 2 exercises the change of the limit with the mode |
| `MaxInhibit` | 2 | nested calls; the X11 loop itself is never inhibited |
| `MaxFramesInFlight` | 2 | the code's constant |
| command buffers, textures | 3 | recorded, previous, executing; drawn, retired, new |
| `MaxFailedFrames` | 2 | failed frames stay counted in `m_outputsInFlight`; two show the counter above one, and both slots with a fence that is never signaled |
| images, tiles | 2, 3 | one image is presented while the other ages, past the capacity of the journal when the same one is acquired again; three tiles give disjoint damage, gaps and bounding boxes |
| journal capacity | 2 | ages below, at and above the capacity occur (the code's 10 behaves like any other; the proofs cover it) |
| `MaxFrames` | 4 | frames of one swapchain: every age up to one past the capacity, after the journal has dropped a region; a recreation begins anew |
| rates and windows | windows 4, 5, 7 | reuse within the 15 % and replacement in both directions; every position of a ring is overwritten |
| `HistoryLength` | 7 | the largest window |
| windows of the compositor, `MaxQueued` | 3, 4 | two windows suffice for every finding; the queue may hold more calls than windows |
| `MaxFences`, X windows | 4, 1 | the code's four; a second window adds nothing that can go wrong: it would be fetched by the same frame with the same fence, and frames that others schedule, with or without damage to paint, may start at any time |
| `Followed` | 3 | the property is about the two newest frames; the third is the one it does not hold for |
| `MaxNotified` | 1 | events on their way for one window when compositing restarts or a fetch is not answered |
| `MaxValue`, `MaxPings`, `MaxPublished` | 2, 2, 1 | a late answer to an earlier request or ping meets a later one; one replaced counter |
| counters, geometries | 1, 2 | besides no counter and a bad one |
| windows, desktops of the chains | 3 and 2, or 2 and 3 | two windows of one application and one of another; a removed desktop with neighbours on both sides |
| windows, desktops and `MaxSteps` of the focus | 3, 2, 3 | one window of each desktop and one of both, which also has `WM_TAKE_FOCUS`; three doings of users and clients are still under way when the next begins: a focus that moves, one that moves back, and a window that vanishes meanwhile |

Images and desktops are symmetric in runs that check invariants and action properties
only; runs with a liveness property use no symmetry. The constraints `CountBound` and
`QueueBound` bound what only a mutant lets run away.

Fairness, and why the code justifies it:

* Timers that stay active fire and queued calls and signals are delivered: the
  Qt event loop. (`WF` of `Dispatch`, `FrameRequested`, `MonitorVblank`,
  `DeliverSuspend`, `ReleaseCompositorSelection` and the like.)
* A handler that has begun runs to its end (`WF` of `Composite`,
  `DispatchReturns`): single thread, no waiting without a timeout except
  `waitForFence()`, which `FenceWillSignal` is about.
* The helper thread makes progress (`WF` of `Helper`): `vkWaitForPresent2KHR` is
  called with a timeout of a second.
* An armed VsyncMonitor answers (`WF` of `VsyncVblank`), unless `VsyncMayFail`.
* The GPU makes progress (`WF` of `GpuCompletes`).
* In `RenderLoop` alone, a backend resolves its frames. This is an assumption
  there; `vk_all` checks it of the Vulkan backend (`FramesResolved`), and
  `vk_stranded` and its neighbours in section 6 show when it fails.
* The X server works off its requests, and finishes what it renders
  (`WF` of `ServerProcesses`, `RenderingDone`). An event the main thread has
  received is handled between two frames (`SF` of `ProcessDamage`: composite()
  runs in between, and the event is not delivered while it does). A frame
  that was asked for is composited (`WF` of `frameScheduled /\ StartFrame`), which
  `RenderLoop` is about; damage alone asks for none.
* Events of the X server are read and handled (`WF` of `HandleEvent` in `X11Focus`):
  the event loop. Neither the answer to a `WM_TAKE_FOCUS` nor the timers are needed.
* A client that is not hung for good gets to its messages (`SF` of
  `ClientHandles`: it may hang and come back any number of times). A client that
  hangs for good is admitted; only `ClientComesBack` excludes it, by `[]<>~hung`.

No fairness is assumed of damage, the user, windows, clients' own doings or failures.

## 5. What is proved

tlapm proves all obligations of the eight proof modules, for every value of the
constants that the assumptions of the modules admit.

| module | theorems | the inductive invariant |
|---|---|---|
| `RenderLoopProofs` | `TypeCorrect`, `PendingCountCorrect`, `NoRequestLost`, `InhibitPauses`, `CapacityCorrect`, `DispatchOnlyWithRoom` | `IndInv` |
| `VulkanPresentationProofs` | `Refinement`; for a pipeline one frame deep: `TypeCorrect`, `FeedbackIsRight`, `HeldIsUnresolved`, `FeedbackIsOwed`, `HelperHandleLives` | `ProtocolInv`; `Inv` there, on top of `IndInv` of the loop |
| `FrameProofs`, of `DamageTracking` | `TypeCorrect`, `LoadedWasRendered`, `PartialRepaintIsComplete`, `JournalIsRight`, `HintIsComplete` | `Inv` there |
| `FrameProofs`, of `FramesInFlight` | `FramesTypeCorrect`, `ReleasedIsUnused`, `FencesSignal`, `AcquireIsClean` | `FramesInv` there |
| `FrameProofs`, of `MissRateController` | `ControllerTypeCorrect`, `CountIsExact`, `RingHoldsWindow`, `MarginIsCapped`, `TripleEndsQuietly` | `ControllerInv` there |
| `X11CompositorProofs` | `TypeCorrect`, `SuspensionHolds`, `SelectionHeld`, `InhibitionHolds` | the four together |
| `X11DamageProofs` | `TypeCorrect`, `FenceIsFree`, `DamageIsKept`, `FenceIsNotStale`, `FenceIsKept` | `FullInv` there |
| `X11WindowProtocolsProofs` | `TypeCorrect`, `FrameIsFollowed`, `UnansweredIsShown`, `OneRequestAtATime` | `Inv` there |
| `FocusChainProofs` | `TypeCorrect`, `NothingIsLeftBehind`, `ChainsOfferTheirOwn`, `EveryWindowOnce`, `InSightStaysInSight` | `Inv` there |
| `X11FocusProofs` | `TypeCorrect`; when every window has the input hint: `ActiveGetsKeys`, `KeysMakeActive` | `Good` there |

* `RenderLoop`. `CapacityRespected` is not inductive: a step may add a frame. The
  strengthening `CapacityInv` counts, beside the frames in flight, the one a
  running timer and the one a started cycle will add; a mode change cannot break
  it, since it lowers the limit only for requests to come. It needs
  `PendingRepaintInv` (requests are swallowed exactly while a cycle decides),
  which also carries `RequestNotLost` through a dispatch. `FrameCountExact` needs
  the finiteness of the set of frames and the library's facts on cardinality.
* `VulkanPresentation`. `Refinement` is the step simulation: every step of the
  backend is one of `RenderLoop` or leaves its variables alone. It needs only
  `ProtocolInv`: the stage of `composite()` says how far the handler of
  `frameRequested()` is, and the frames the backend and the cycle hold can still be
  resolved. The rest builds on it: through an instance of `RenderLoopProofs`
  everything proved of the loop holds of the backend, and with
  `MaxPendingFrameCount` = 1, the value in the code, `FrameCountExact` and
  `CapacityRespected` say that a cycle starts with nothing in flight. `FeedbackInv` says
  of each wait, posted signal and vblank that its frame is the one held;
  `UndegradedInv` that, until a failure, there is one of them. With a deeper
  pipeline the results are false: `m_frame` holds one frame.
* `FramesInFlight`. `ReleasedUnused` rests on `GpuIdle`: between the wait in
  `checkGraphicsReset()` and the next submission nothing runs on the GPU; the
  fences alone would not do. `SemaphoreInv` follows each slot's semaphores from the
  acquire to the submission that waits for them. (`Init`, `Next`, `Spec` and `TypeOK` of
  this module have the prefix `Frames`, and those of `MissRateController` the prefix
  `Controller`, so that one module of proofs can be about all that a frame does.)
* `DamageTracking`. `ImageUpToDate` follows from `StaleIsJournaled`, which is the
  real invariant: one frame moves every region in the journal by one and raises
  every image's age by one, whether it loads, clears or fails, and what it does not
  repaint joins `missed`. `LoadedIsRendered` needs that counters are positive and that
  a blank image has no last frame, or frames that failed were to paint all of it.
  `ScreenUpToDate` is kept by frames that fail only because it holds between presents,
  too, from the first one of the swapchain on (`ScreenInv`). `missed` and `unshown` are in the statements because the code loses those tiles;
  section 6 shows it.
* `X11Compositor`. `SuspendedIsOff` needs that `start()` is entered with the bits
  of this moment; `InhibitionTakesEffect` needs that only a delivered call and a
  restart clear the bit, and that both clear the inhibitors.
* `MissRateController`. The count is exact because the entry that is overwritten
  is the one that leaves the sum, which needs that entries not written yet are
  FALSE and that the cursor equals the number of filled entries while the ring
  fills. `RingIsWindow` is the arithmetic of indices modulo the size of the ring.
  `TripleEndsQuietly` combines both with the cut: a count below `Scale` /
  `TargetLow` in a full window is zero.
* `X11Damage`. `NextFenceFree` needs `RingInv`: while no fence is in use the next one
  of the ring is free; while one is, the next is its successor, and the first round
  of the loop in `endFrame()` frees it. `NoDamageLost` needs `FetchInv`: until
  `waitForDamage()` clears the mark of an item, whatever was drawn since is announced
  by an event or still covered by the fetch.
  `NoPrematureWait` and `NotResetWhileWaited` follow a fence through two queues.
  `FenceInv`: from the moment a fence is taken until it is taken again it is triggered
  once, signaled when what was rendered before it is done, and reset once, and the
  request for each is in the server's queue at most once. So a fence the GPU waits for
  is signaled by the trigger of this round or not at all. `LagInv`: the fence of the
  k-th newest frame is one of the last k that were taken from the ring (k + 1 while a
  frame has taken the next and is not given to the GPU yet; frames without damage
  take none), while `endFrame()` resets the two after the newest, the oldest of the
  ring. With n fences they do not meet in the n - 2 newest frames, and nothing is
  assumed of how fast the GPU is.
* `X11WindowProtocols`. `UnansweredIsKnown` needs `PingInv`: timestamps under way
  are at most the last one and occur once, in the client's queue or in the answers;
  so an answer that matches is the last of its kind. `OneRequestUnderWay` needs
  `RequestInv`: a request is in one of the two queues only, and which counter the
  alarm watches is known but for a property event that is still to be read.
* `FocusChain`. The four properties are about which windows are in a chain, not about
  their order: `Put` says that an operation puts a window into the chains where it
  belongs and takes it out of the others, `Moved` that it stays where it is in some
  other order, and `ChainsRight` that a chain has the managed windows of its desktop,
  but for those that `unseen` excuses. None of the invariants is inductive alone: the
  empty chain of a desktop that is added is right because no window is on it yet
  (`NothingDangles`); the active window that stays so on another desktop is one the
  chain offers (`MembersBelong`); a window that is dragged along is not a closed one
  (`NothingDangles` again). When desktops are removed, their windows move one by one in
  any order, and each passes through `Sent` with the places the windows have by then:
  `EvacuatedFacts` is an induction over the windows moved so far. `InSightStaysInSight`
  shows that `VirtualDesktopManager`, which takes the next desktop, and `Workspace`,
  which takes the one that has got the number of the removed one, choose the same.
* `X11Focus`. What Workspace knows lags behind the server, and `Good` says how the
  queue of events makes up for it. `Order`: the last event of the window with the
  focus is a `FocusIn`, and that of a window without it, if there is one, a `FocusOut`.
  `Nobody`, `Somebody`: while no window has the focus, the `FocusOut` of the active one
  is still to come or its timer runs; when no event and no timer is left, the window
  with the focus is active. `Visible`, `ActiveShown` and `Unmanaged`: a window that
  can have the focus is one whose `FocusIn` is not ignored. Two conditions are in the
  theorems because TLC refutes them without. Where hidden windows stay mapped
  (`previews`) a `FocusIn` is ignored, while the `FocusOut` that it overtook has been
  taken back; the properties themselves say so. And `Accepts = Windows`: a window
  without the input hint is not focused by `takeFocus()`, only by its client, which may
  be too late (section 6, `X11Focus_asked`). The run has the same set.

What is defined by recursion (`Without` of `X11Focus`, `RemoveAll` and `Evacuated` of
`FocusChain`) is a recursive function. What it returns needs induction, and the
library's theorems on induction take an operator; `SetInduction` derives the rule for
a set instead, from the existence of minimal elements in the natural numbers, and
`Recursion` that such a function exists.

Two proof attempts corrected a model. `OneRequestUnderWay` was false for a client that
publishes a second counter before the first is read, which no run with one
publication could show: `republished` did not count that as a replacement.
`ActiveHasFocus` was promised for all policies of hidden windows; the step of a
`FocusIn` that is ignored would not go through, and TLC, given one or two more steps
of users and clients than the run has, found the execution.

Assumptions on constants are the named `ASSUME`s of the modules; TLC evaluates
them in every run.

Only model-checked: every liveness property (`RequestServed`, `FramesResolved`,
`DamagePainted`, `FramesEnd`, `SelectionReleased`, `DamageFetched`, `FrameEnds`,
`WaitEnds`, `ReadyToPaint`, `ClientComesBack`, `KeyboardHasOwner`), since fairness and `ENABLED` are out
of the prover's reach. Every invariant and action property that a passing run checks
is stated by a theorem.

## 6. Where the code does not do what it says

Two runs end in a counterexample; `PROJECT.json` quotes the sentence and the
lines.

| run | the sentence | what happens |
|---|---|---|
| `vk_stranded` | presentation feedback keeps flowing after a monitor error | the error is the second of two signals; the frame presented between them loses its feedback, and the pipeline stays full |
| `dmg_skipped` | repaint everything damaged since | the damage of a skipped frame is in neither the image nor the journal |

The following configurations are kept beside the runs for the same purpose
(`tlc -config MC<module>_<name>.cfg MC<module>.tla`). Each differs from a passing
run by the failure it lets in, and ends in a counterexample to the property it
names.

| configuration | property | the sentence | what happens |
|---|---|---|---|
| `VulkanPresentation_noswapchain` | `NotStranded` | "if recreation fails just skip the frame and try again next time" (`x11_standalone_vulkan_backend.cpp:73`) | `present()` keeps the frame although there is no swapchain, and never resolves it: no next time |
| `VulkanPresentation_vsyncerror` | `NotStranded` | "Real present timestamp arrives asynchronously via vblank()." (`:667`) | a VsyncMonitor that fails says so to nobody |
| `VulkanPresentation_incomplete` | `HandleOutlivesWait` | "that handle must outlive the wait" (`:198`) | a recreation that fails after it replaced the handle leaves the monitor bound to the old one, and the same `present()` arms it |
| `VulkanPresentation_joined` | `JoinedBeforeDestroyed` | "so the helper thread is joined before the old VkSwapchainKHR is destroyed" (`:766`) | `recreate()` has destroyed it by then; `HelperOnLiveHandle` shows that the thread is idle then, when recreation succeeds |
| `VulkanPresentation_skipped` | `DamageRetried` | "skip the frame when this returns false and try again next time" (`x11_standalone_vulkan_backend.h:141`) | the damage has been taken and nothing schedules a repaint |
| `VulkanPresentation_reset` | `DamagePlanned` | "Mark this layer as dirty and trigger a repaint on the render loop" (`core/renderlayer.h:77`) | requested within a compositing cycle, as after a graphics reset, the trigger is swallowed |
| `DamageTracking_skipped`, with `LoadPassMayFail` or `RenderMayFail` instead of `AcquireMaySkip` | `PresentedIsComplete` | "LOAD pass unavailable — fall back to a full clearing repaint." (`itemrenderer_vulkan.cpp:359`) | the image is cleared and only the damage painted; like that of a frame that failed to render, the loss is in neither the damage nor the journal |
| `FramesInFlight_prevfence` | `PrevFenceWaited` | "guaranteed to have finished using m_prevCommandBuffer" (`itemrenderer_vulkan.cpp:203`) | the fence is that of the other slot; `vkDeviceWaitIdle` at the start of `composite()` saves it |
| `FramesInFlight_unrendered` | `PresentsRendered` | "Present waits on renderFinishedSemaphore (signaled by this submit)" (`itemrenderer_vulkan.cpp:850`) | a cycle without damage presents without a submission |
| `DamageTracking_hint` | `ScreenIsComplete` | "relative to the previously presented image" (`vulkanswapchain.cpp:485`) | after a failed present, relative to the one that failed |
| `X11Compositor_ignored` | `BlockedWhileAnyExists` | "while any matching window exists, compositing will be disabled" (`doc/windowspecific-x11`) | a queued resume overtakes a window that came later |
| `X11Compositor_stuck` | `ReenabledAfterLast` | "Compositing is re-enabled when the last matching window terminates." (`doc/windowspecific-x11`) | a window gone before its suspension is delivered leaves the bit set |
| `X11Focus_lost` | `KeyboardReset` | "X focus set to None/PointerRoot, reseting focus" (`events.cpp:291`) | the window that is asked next has been destroyed as well: `takeFocus()` fails, nobody else is asked, and when that window is heard of it is neither active nor expected to be, so `activateNextWindow()` does nothing (`activation.cpp:453`); the focus stays with nobody while other windows are shown |
| `X11Focus_kept` | `HiddenLosesFocus` | "we unmapped it, but it got focus meanwhile -> activateNextWindow() already transferred focus elsewhere" (`events.cpp:1170`) | a window of another desktop that stays mapped for its preview may have the focus, by its client or because `focusToNull()` came with an old time; its `FocusIn` is ignored, and the keys go to a window nobody sees. With four steps (`MaxSteps`) another window is still shown as active meanwhile: an earlier, refused `FocusIn` has stopped its timer |
| `X11Focus_asked` | `ActiveHasFocus` | "the active window, i.e. the window that has the focus" (`workspace.h:188`) | a window with `WM_TAKE_FOCUS` and without the input hint is asked to take the focus back, and its answer is older than the next change: it stays active without the focus |
| `FocusChain_first` | `ActivatedIsFirst` | "In case of MakeFirst it is moved to the first position of the chain" (`focuschain.h:62`) | of the chain of the desktop the chain believes current: until the first change of desktop it knows none (`m_currentDesktop`), and a window on all desktops is updated, not moved |
| `FocusChain_everywhere` | `OnAllInEvery` | "it is ensured that it is present in each of the virtual desktops focus chain" (`focuschain.h:58`) | a desktop that is added starts with an empty chain, and windows that are on all desktops enter it when they are next updated |
| `X11WindowProtocols_republish` | `AlwaysWaitEnds` | "we're still waiting for the client or the timeout" (`window.cpp:1306`) | a new counter resets the value and enables synchronisation, and leaves `pending` set: neither an answer nor a timeout is to come, and the resize stands still |
| `X11WindowProtocols_prompt` | `PromptAtSecondTimeout` | "the second time we'll show the "do you want to kill" prompt" (`x11window.cpp:2086`) | closed again while it is shown as unresponsive, a window gets the prompt at the first timeout |

A frame whose recording or submission fails leaves the fence of its slot
unsignaled, which the comment at `x11_standalone_vulkan_backend.cpp:88` warns of
for a failed acquire; that is the condition `NoFailedFrame` in `FenceWillSignal`.

The properties are stated as the code's own sentences, so that a change of either
the code or the sentence resolves them. Some need a rare failure of the driver;
those of the compositor, the focus and the windows' protocols need only windows,
desktops and unlucky timing. `HandleOutlivesWait` and `NotStranded` hold until
`degraded`, which is how `vk_all` states them.

Not stated as a sentence anywhere, but visible in the models: when the current
desktop is removed and its neighbour was empty, the windows arrive there after the
focus was given up, and none is activated; a window that has the focus and is asked
to take it again gets no event, so it stays in `should_get_focus`, counts as most
recently activated, and may take the focus unasked later; and the ring of fences protects
the two newest frames only. TLC finds a reset under the third newest (with `MaxFences - 1`
in `NotResetWhileWaited`): a GPU three frames behind would wait for its fence until the
ring comes round. An OpenGL backend starts a cycle when it takes the frame before for
presented, which without swap events is a guess
(`backends/x11/standalone/x11_standalone_glx_backend.cpp:699`).

## 7. What is not modelled

* Time. `RenderLoopPrivate::scheduleRepaint()` chooses when the timer expires; the
  model keeps that it runs. Presentation timestamps, render journals and per-stage
  timings are left out with it.
* Drawing: scene, effects, pipelines, shaders, memory. Their influence is damage,
  post passes and textures that are replaced.
* The OpenGL backends, but for their fences and the fetch of damage. They use the
  same loop protocol with a simpler feedback. `X11Damage` has no pixmaps and no
  retries of them, and a region is empty or not.
* Layers other than the workspace layer, and the cursor layer.
* `VulkanPresentation`: a restart drops the frame the backend holds, but not as a frame
  that is presented or dropped. With a pipeline one frame deep none is held when a
  cycle finds that the GPU was reset.
* `m_currentSyncInfo` of a frame whose recording failed, staging buffers of post
  passes, and semaphores of effects' own submissions.
* Geometry and wording of the windows' protocols, how the kill prompt kills, and a
  property about the ping timer, which outlives `destroyWindow()` until the window
  is deleted.
* `FocusChain`: transients, windows that do not want focus by Tab, screens, focus
  that follows the mouse. A new window enters the chains once, and `manage()` may also
  make it the first, restack it and change the desktop (`x11window.cpp:805`, 1114, 1129):
  these are operations of their own, which follow in any order. Names, rows, navigation and gestures of desktops.
* `X11Focus`: delayed focus, attention, shaded, transient and modal windows, popups,
  grabs, showing the desktop, screens, unreasonable focus policies, extreme focus
  stealing prevention and window rules that change it, and activation policies that
  bring a window to the current desktop or leave it where it is (`activation.cpp:305`);
  desktops are neither added nor removed. A client has one
  `WM_TAKE_FOCUS` per window to answer, and the focus of a window that vanishes goes to
  `PointerRoot`, as KWin asks for, whoever set it.
* Everything in the second half of the table of section 1; `PROJECT.json` has a
  reason for each component.

## 8. Plan

The order is by how much of the user's screen depends on it.

1. Done: the frame scheduler, its controller, presentation, GPU synchronisation,
   damage, the compositor's life cycle; fences and damage of X clients; sync
   requests and pings; focus chains with virtual desktops; the input focus. Proofs of
   all ten modules, the refinement of `RenderLoop` among them.
2. The composition of `X11Focus` with `FocusChain`: the candidates that are left open
   there are the chain's.
3. `EffectLoader` (asynchronous query and queue), `PlacementTracker`, gestures and
   screen edges.
4. `FramePacing`: the arithmetic of the next presentation time as functions,
   against a reference over bounded inputs.
5. Abstract specifications: a frame pipeline of one slot that `FramesInFlight` and
   the GLX backend implement; a mailbox that the monitor and its thread implement.
6. Proofs of the specifications of item 5: `Put` and `Moved` already say of `FocusChain`
   that it implements one set of windows for each desktop.
