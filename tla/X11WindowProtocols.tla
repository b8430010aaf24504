------------------------- MODULE X11WindowProtocols -------------------------
(***************************************************************************)
(* What an X11Window asks of its client without knowing whether the client *)
(* will ever answer: to redraw (_NET_WM_SYNC_REQUEST, answered through a   *)
(* counter whose alarm the X server delivers) and to show that it is alive *)
(* (_NET_WM_PING, answered with a message).                                *)
(*                                                                         *)
(* The client reads its messages in their order, and may hang between any  *)
(* two of them.  Its answers and its property changes reach the window     *)
(* manager in one queue, and race the two timers.                          *)
(*                                                                         *)
(* One window is modelled, from the end of manage() to its destructor.     *)
(***************************************************************************)
EXTENDS Integers, Sequences

CONSTANTS
    Counters,     \* XSync counters the client can create
    NoCounter,    \* it has published none
    BadCounter,   \* it has published an id that names no counter
    Geometries,
    NoAlarm,      \* XCB_NONE
    MaxValue,     \* bound: sync requests between two reads of the counter
    MaxPings,     \* bound: pings
    MaxPublished  \* bound: changes of the property

ASSUME CountersAssumption == {NoCounter, BadCounter} \cap Counters = {} /\ NoCounter # BadCounter
ASSUME AlarmAssumption == NoAlarm \notin [counter : Counters, trigger : Nat]
ASSUME BoundsAssumption == {MaxValue, MaxPings, MaxPublished} \subseteq Nat

VARIABLES
    life,              \* "open", "closed" (markAsDeleted(), kept for an effect) or "gone"
    ready,             \* ready_for_painting
    \* m_syncRequest
    enabled, pending,
    interactiveResize,
    value,
    timeout,           \* whether the timer runs
    \* geometry
    resizing,          \* isInteractiveResize()
    target,            \* moveResizeGeometry(), which the X window has
    frame,             \* frameGeometry()
    \* ping
    pingTimer, unresponsive, pingTimestamp,
    prompt,            \* the process of m_killPrompt: "none", "running", "quitting"
    \* the client and the X server
    published,         \* the _NET_WM_SYNC_REQUEST_COUNTER property
    publications,      \* how often it has changed
    hung,
    messages,          \* to the client
    events,            \* to the window manager
    counter,           \* the values of the counters
    alarm,             \* the counter the alarm watches and the value that triggers it
    \* history
    republished        \* the client has replaced a counter, or taken it back, or has
                       \* not waited until the one before was read

syncVars   == <<ready, enabled, pending, interactiveResize, value, timeout>>
resizeVars == <<resizing, target, frame>>
pingVars   == <<pingTimer, unresponsive, pingTimestamp, prompt>>
clientVars == <<published, publications, hung>>
vars == <<life, syncVars, resizeVars, pingVars, clientVars, messages, events, counter, alarm, republished>>

SyncRequest(v) == [type |-> "sync", value |-> v]
Ping(t)        == [type |-> "ping", timestamp |-> t]
Alarm(v)       == [type |-> "alarm", value |-> v]
Pong(t)        == [type |-> "pong", timestamp |-> t]
Property       == [type |-> "property"]
Destroyed      == [type |-> "destroyed"]

In(m, queue) == \E i \in DOMAIN queue : queue[i] = m

Messages == [type : {"sync"}, value : Nat] \union [type : {"ping"}, timestamp : Nat]
Events   == [type : {"alarm"}, value : Nat] \union [type : {"pong"}, timestamp : Nat]
              \union [type : {"property", "destroyed"}]

TypeOK ==
    /\ life \in {"open", "closed", "gone"}
    /\ {ready, enabled, pending, interactiveResize, timeout, resizing, pingTimer, unresponsive, hung, republished}
         \subseteq BOOLEAN
    /\ {value, pingTimestamp, publications} \subseteq Nat
    /\ {target, frame} \subseteq Geometries
    /\ prompt \in {"none", "running", "quitting"}
    /\ published \in Counters \union {NoCounter, BadCounter}
    /\ messages \in Seq(Messages) /\ events \in Seq(Events)
    /\ counter \in [Counters -> Nat]
    /\ alarm \in [counter : Counters, trigger : Nat] \union {NoAlarm}

Init ==
    /\ life = "open"
    /\ published \in Counters \union {NoCounter, BadCounter}
    /\ enabled = (published # NoCounter)
    /\ counter = [c \in Counters |-> 0]
    /\ alarm = IF published \in Counters THEN [counter |-> published, trigger |-> 1] ELSE NoAlarm
    /\ \E compositing \in BOOLEAN :
           /\ ready = ~compositing
           /\ pending = (compositing /\ enabled)
    /\ timeout = pending
    /\ value = IF pending THEN 1 ELSE 0
    /\ messages = IF pending THEN <<SyncRequest(1)>> ELSE <<>>
    /\ interactiveResize = FALSE
    /\ resizing = FALSE
    /\ target \in Geometries /\ frame = target
    /\ pingTimer = FALSE /\ unresponsive = FALSE /\ pingTimestamp = 0 /\ prompt = "none"
    /\ publications = 0 /\ hung = FALSE /\ events = <<>>
    /\ republished = FALSE

-----------------------------------------------------------------------------
(* The client, and the X server on its behalf. *)

ClientHangs ==
    /\ ~hung /\ hung' = TRUE
    /\ UNCHANGED <<life, syncVars, resizeVars, pingVars, published, publications, messages, events, counter, alarm, republished>>

ClientRecovers ==
    /\ hung /\ hung' = FALSE
    /\ UNCHANGED <<life, syncVars, resizeVars, pingVars, published, publications, messages, events, counter, alarm, republished>>

\* The client has redrawn and sets its counter.  The alarm is for a positive
\* transition, and moves on by itself.
SetCounter(v) ==
    IF published \notin Counters THEN UNCHANGED <<counter, alarm, events>>
    ELSE /\ counter' = [counter EXCEPT ![published] = v]
         /\ IF /\ alarm # NoAlarm /\ alarm.counter = published
               /\ counter[published] < alarm.trigger /\ alarm.trigger <= v
              THEN alarm' = [alarm EXCEPT !.trigger = v + 1] /\ events' = Append(events, Alarm(v))
              ELSE UNCHANGED <<alarm, events>>

ClientHandles ==
    /\ ~hung /\ life = "open" /\ messages # <<>> /\ ~In(Destroyed, events)
    /\ messages' = Tail(messages)
    /\ LET m == Head(messages)
       IN  IF m.type = "sync" THEN SetCounter(m.value)
           ELSE events' = Append(events, Pong(m.timestamp)) /\ UNCHANGED <<counter, alarm>>
    /\ UNCHANGED <<life, syncVars, resizeVars, pingVars, clientVars, republished>>

\* It publishes a counter, for the first time or anew, or takes it back.
ClientPublishes(c) ==
    /\ ~hung /\ life = "open" /\ publications < MaxPublished /\ ~In(Destroyed, events)
    /\ publications' = publications + 1
    /\ published' = c
    /\ events' = Append(events, Property)
    /\ republished' = (republished \/ published # NoCounter \/ In(Property, events))
    /\ UNCHANGED <<life, syncVars, resizeVars, pingVars, hung, messages, counter, alarm>>

\* It closes the window or dies.
ClientExits ==
    /\ life = "open" /\ ~In(Destroyed, events)
    /\ events' = Append(events, Destroyed)
    /\ UNCHANGED <<life, syncVars, resizeVars, pingVars, clientVars, messages, counter, alarm, republished>>

-----------------------------------------------------------------------------
(* _NET_WM_SYNC_REQUEST. *)

SendSyncRequest(interactive) ==
    IF ~enabled \/ pending THEN UNCHANGED <<timeout, value, pending, interactiveResize, messages>>
    ELSE /\ timeout' = TRUE
         /\ value' = value + 1
         /\ messages' = Append(messages, SyncRequest(value + 1))
         /\ pending' = TRUE
         /\ interactiveResize' = interactive

\* Mutant: the geometry of the resize is left to the next step.
FinishSyncNoGeometry ==
    /\ ready' = TRUE
    /\ interactiveResize' = FALSE
    /\ frame' = frame

FinishSync ==
    /\ ready' = TRUE
    /\ interactiveResize' = FALSE
    /\ frame' = IF interactiveResize THEN target ELSE frame

\* Mutant: a late answer is no longer waited for, but does not enable anything.
AckSyncLate ==
    /\ pending' = FALSE
    /\ IF ~enabled THEN UNCHANGED <<enabled, timeout, ready, interactiveResize, frame>>
       ELSE timeout' = FALSE /\ FinishSync /\ UNCHANGED enabled

\* A late answer enables synchronisation again, and nothing more.
AckSync ==
    /\ pending' = FALSE
    /\ IF ~enabled THEN enabled' = TRUE /\ UNCHANGED <<timeout, ready, interactiveResize, frame>>
       ELSE timeout' = FALSE /\ FinishSync /\ UNCHANGED enabled

\* Mutant: synchronisation is off, but what waited for it goes on waiting.
AckSyncTimeoutQuiet ==
    /\ timeout /\ timeout' = FALSE
    /\ enabled' = FALSE
    /\ UNCHANGED <<life, ready, pending, interactiveResize, value, resizeVars, pingVars, clientVars,
                   messages, events, counter, alarm, republished>>

\* Mutant: the timer that expires does not disable synchronisation.
AckSyncTimeoutEnabled ==
    /\ timeout /\ timeout' = FALSE
    /\ FinishSync
    /\ UNCHANGED <<life, enabled, pending, value, resizing, target, pingVars, clientVars,
                   messages, events, counter, alarm, republished>>

\* Mutant: a request that timed out counts as answered.
AckSyncTimeoutForgets ==
    /\ timeout /\ timeout' = FALSE
    /\ enabled' = FALSE /\ pending' = FALSE
    /\ FinishSync
    /\ UNCHANGED <<life, value, resizing, target, pingVars, clientVars,
                   messages, events, counter, alarm, republished>>

AckSyncTimeout ==
    /\ timeout /\ timeout' = FALSE
    /\ enabled' = FALSE
    /\ FinishSync
    /\ UNCHANGED <<life, pending, value, resizing, target, pingVars, clientVars,
                   messages, events, counter, alarm, republished>>

\* The alarm of a window is created once, and watches the counter of then.
GetSyncCounter ==
    IF published = NoCounter THEN UNCHANGED <<enabled, value, counter, alarm>>
    ELSE /\ enabled' = TRUE
         /\ value' = 0
         /\ counter' = IF published \in Counters THEN [counter EXCEPT ![published] = 0] ELSE counter
         /\ alarm' = IF alarm = NoAlarm /\ published \in Counters
                       THEN [counter |-> published, trigger |-> 1] ELSE alarm

\* X11Window::damageNotifyEvent()
DamageNotify ==
    /\ life = "open" /\ ~hung /\ ~ready /\ ~enabled
    /\ ready' = TRUE
    /\ UNCHANGED <<life, enabled, pending, interactiveResize, value, timeout, resizeVars, pingVars, clientVars,
                   messages, events, counter, alarm, republished>>

-----------------------------------------------------------------------------
(* Resizing. *)

Waiting == enabled /\ pending

StartResize ==
    /\ life = "open" /\ ~resizing /\ resizing' = TRUE
    /\ UNCHANGED <<life, syncVars, target, frame, pingVars, clientVars, messages, events, counter, alarm, republished>>

\* updateInteractiveMoveResize(), doInteractiveResizeSync()
ResizeStep(g) ==
    /\ life = "open" /\ resizing /\ ~Waiting /\ g # target
    /\ enabled => value < MaxValue
    /\ target' = g
    /\ frame' = IF enabled THEN frame ELSE g
    /\ IF enabled THEN SendSyncRequest(TRUE)
       ELSE UNCHANGED <<timeout, value, pending, interactiveResize, messages>>
    /\ UNCHANGED <<life, ready, enabled, resizing, pingVars, clientVars, events, counter, alarm, republished>>

\* finishInteractiveMoveResize(): when it is cancelled, the initial geometry,
\* some geometry, is set at once.
FinishResize(cancel, g) ==
    /\ life = "open" /\ resizing /\ resizing' = FALSE
    /\ IF cancel THEN target' = g /\ frame' = g ELSE UNCHANGED <<target, frame>>
    /\ UNCHANGED <<life, syncVars, pingVars, clientVars, messages, events, counter, alarm, republished>>

-----------------------------------------------------------------------------
(* _NET_WM_PING. *)

\* closeWindow(), pingWindow().  Every ping is sent for an input event of its
\* own, whose time is its timestamp.
PingWindow ==
    /\ life = "open" /\ ~pingTimer /\ pingTimestamp < MaxPings
    /\ pingTimer' = TRUE
    /\ pingTimestamp' = pingTimestamp + 1
    /\ messages' = Append(messages, Ping(pingTimestamp + 1))
    /\ UNCHANGED <<life, syncVars, resizeVars, unresponsive, prompt, clientVars, events, counter, alarm, republished>>

FirstPingTimeout ==
    /\ pingTimer /\ ~unresponsive
    /\ unresponsive' = TRUE
    /\ UNCHANGED <<life, syncVars, resizeVars, pingTimer, pingTimestamp, prompt, clientVars,
                   messages, events, counter, alarm, republished>>

\* killProcess(): not while an earlier prompt is still there.
FinalPingTimeout ==
    /\ pingTimer /\ unresponsive
    /\ pingTimer' = FALSE
    /\ prompt' = IF prompt = "none" THEN "running" ELSE prompt
    /\ UNCHANGED <<life, syncVars, resizeVars, unresponsive, pingTimestamp, clientVars,
                   messages, events, counter, alarm, republished>>

QuitPrompt == prompt' = IF prompt = "running" THEN "quitting" ELSE prompt

\* Mutant: the answer to an earlier ping counts.
GotPingAny(t) ==
    /\ pingTimer' = FALSE /\ unresponsive' = FALSE /\ QuitPrompt

GotPing(t) ==
    IF t # pingTimestamp THEN UNCHANGED <<pingTimer, unresponsive, prompt>>
    ELSE pingTimer' = FALSE /\ unresponsive' = FALSE /\ QuitPrompt

\* The prompt has quit, or the user chose to wait.
PromptEnds ==
    /\ prompt # "none" /\ prompt' = "none"
    /\ UNCHANGED <<life, syncVars, resizeVars, pingTimer, unresponsive, pingTimestamp, clientVars,
                   messages, events, counter, alarm, republished>>

-----------------------------------------------------------------------------
(* The event loop, and the end of the window. *)

HandleAlarm(v) ==
    /\ IF v = value THEN AckSync
       ELSE UNCHANGED <<pending, enabled, timeout, ready, interactiveResize, frame>>
    /\ UNCHANGED <<life, value, resizing, target, pingVars, counter, alarm, republished>>

HandlePong(t) ==
    /\ GotPing(t)
    /\ UNCHANGED <<life, syncVars, resizeVars, pingTimestamp, counter, alarm, republished>>

HandleProperty ==
    /\ GetSyncCounter
    /\ UNCHANGED <<life, ready, pending, interactiveResize, timeout, resizeVars, pingVars, republished>>

\* destroyWindow(): nobody reads what is under way to the client.  The ping timer
\* is the window's, and goes on.
HandleDestroyed ==
    /\ life' = "closed"
    /\ timeout' = FALSE
    /\ alarm' = NoAlarm
    /\ resizing' = FALSE
    /\ UNCHANGED <<ready, enabled, pending, interactiveResize, value, target, frame, pingVars, counter, republished>>

HandleEvent ==
    /\ life = "open" /\ events # <<>>
    /\ events' = Tail(events)
    /\ LET e == Head(events)
       IN  \/ e.type = "alarm"     /\ HandleAlarm(e.value)
           \/ e.type = "pong"      /\ HandlePong(e.timestamp)
           \/ e.type = "property"  /\ HandleProperty
           \/ e.type = "destroyed" /\ HandleDestroyed
    /\ messages' = IF life' = "open" THEN messages ELSE <<>>
    /\ UNCHANGED clientVars

\* The last reference is dropped.
Destructor ==
    /\ life = "closed" /\ life' = "gone"
    /\ pingTimer' = FALSE
    /\ QuitPrompt
    /\ UNCHANGED <<syncVars, resizeVars, unresponsive, pingTimestamp, clientVars, messages, events, counter, alarm, republished>>

-----------------------------------------------------------------------------
Next ==
    \/ ClientHangs \/ ClientRecovers \/ ClientHandles \/ ClientExits
    \/ \E c \in Counters \union {NoCounter, BadCounter} : ClientPublishes(c)
    \/ AckSyncTimeout \/ DamageNotify
    \/ StartResize
    \/ \E g \in Geometries : ResizeStep(g) \/ \E cancel \in BOOLEAN : FinishResize(cancel, g)
    \/ PingWindow \/ FirstPingTimeout \/ FinalPingTimeout \/ PromptEnds
    \/ HandleEvent \/ Destructor

Spec == Init /\ [][Next]_vars

\* Timers expire, events are handled, and a client that is not hung for good
\* gets to its messages.
FairSpec ==
    /\ Spec
    /\ WF_vars(AckSyncTimeout)
    /\ WF_vars(FirstPingTimeout) /\ WF_vars(FinalPingTimeout)
    /\ WF_vars(HandleEvent)
    /\ SF_vars(ClientHandles)

-----------------------------------------------------------------------------
(* Properties. *)

UnansweredRequests == {i \in DOMAIN messages : messages[i].type = "sync"}

\* "do NOT, NEVER send a sync request when there's one on the stack. the clients
\* will just stop respoding. FOREVER!": at most one is under way; and pending
\* tells truly, whatever timed out meanwhile, whether one is.
OneRequestUnderWay ==
    life = "open" =>
        /\ \A i, j \in UnansweredRequests : i = j
        /\ ~republished /\ published \in Counters =>
               (pending <=> UnansweredRequests # {} \/ In(Alarm(value), events))

\* A geometry the X window was given by an interactive resize is on its way to
\* the frame: the request is answered or times out, also when the resize is over.
FrameFollows == life = "open" /\ frame # target => interactiveResize /\ timeout

\* A client is waited for or shown unresponsive exactly as long as its answer to
\* the last ping, and not to an earlier one, is due.
UnansweredIsKnown ==
    life = "open" =>
        /\ pingTimer \/ unresponsive <=> In(Ping(pingTimestamp), messages) \/ In(Pong(pingTimestamp), events)
        /\ prompt = "running" => unresponsive

\* "we're still waiting for the client or the timeout": a resize does not hang
\* with its client, until the counter is replaced in the middle of a request.
WaitEnds == life = "open" /\ Waiting ~> ~Waiting \/ life # "open" \/ republished

\* A window that waits for its client to draw is shown even if it does not.
ReadyToPaint == life = "open" /\ pending /\ ~ready ~> ready \/ life # "open"

\* "disable XSync temporarily until the client comes back to its senses": a
\* client that goes on answering is synchronised with and taken for responsive.
ClientComesBack ==
    []<>~hung =>
        /\ life = "open" /\ pending /\ ~enabled /\ published \in Counters ~>
               enabled \/ life # "open" \/ republished \/ published \notin Counters
        /\ life = "open" /\ unresponsive ~> ~unresponsive \/ life # "open"

\* The comment on a resize that waits, without regard to how often the client
\* publishes its counter.
AlwaysWaitEnds == life = "open" /\ Waiting ~> ~Waiting \/ life # "open"

\* "we'll run the timer twice, at first we'll desaturate the window and the
\* second time we'll show the [...] prompt": the window is not unresponsive yet
\* when a ping is sent, or its first timeout would show the prompt.
PromptAtSecondTimeout == [][PingWindow => ~unresponsive]_vars
=============================================================================
