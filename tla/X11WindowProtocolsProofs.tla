---------------------- MODULE X11WindowProtocolsProofs ----------------------
(***************************************************************************)
(* Proofs about X11WindowProtocols, for any counters, geometries and       *)
(* bounds.                                                                 *)
(*                                                                         *)
(* That the frame follows an interactive resize is inductive as it stands. *)
(* That a client is waited for exactly while its answer is due needs to be *)
(* known of every ping and pong under way: none is newer than the last     *)
(* ping, and of that one there is one ping or one pong (PingInv).          *)
(* That one sync request is under way needs the alarm that answers it: it  *)
(* is still to be triggered, by that request's value, and then tells of it *)
(* (RequestInv).                                                           *)
(***************************************************************************)
EXTENDS X11WindowProtocols, SequenceTheorems, TLAPS

Pings(i) == i \in DOMAIN messages /\ messages[i].type = "ping"
Pongs(i) == i \in DOMAIN events /\ events[i].type = "pong"

Asked(i)    == Pings(i) /\ messages[i].timestamp = pingTimestamp
Answered(i) == Pongs(i) /\ events[i].timestamp = pingTimestamp

PingInv ==
    /\ \A i : Pings(i) => messages[i].timestamp \in Nat /\ messages[i].timestamp <= pingTimestamp
    /\ \A i : Pongs(i) => events[i].timestamp \in Nat /\ events[i].timestamp <= pingTimestamp
    /\ \A i, j : /\ Asked(i) /\ Asked(j) => i = j
                 /\ Answered(i) /\ Answered(j) => i = j
                 /\ ~(Asked(i) /\ Answered(j))
    /\ life = "open" =>
           /\ pingTimer \/ unresponsive <=> (\E i : Asked(i)) \/ (\E i : Answered(i))
           /\ prompt = "running" => unresponsive

\* The entries of a queue that are of one type.
Typed(q, t)     == {i \in DOMAIN q : q[i].type = t}
Entries(q, t)   == {q[i] : i \in Typed(q, t)}
AtMostOne(q, t) == \A i, j \in Typed(q, t) : i = j

Syncs   == Entries(messages, "sync")
Alarms  == Entries(events, "alarm")
Changes == Entries(events, "property")

\* The counter has not been read yet.
Unwatched == ~enabled /\ ~pending /\ alarm = NoAlarm

\* The alarm will go off for the request under way, and only for that.
Watched ==
    /\ alarm # NoAlarm /\ alarm.counter = published
    /\ counter[published] < alarm.trigger /\ alarm.trigger <= value + 1
    /\ \A m \in Syncs : m.value = value /\ alarm.trigger <= value
    /\ \A e \in Alarms : e.value = value
    /\ pending => Syncs \union Alarms # {}

RequestInv ==
    /\ AtMostOne(messages, "sync") /\ AtMostOne(events, "alarm")
    /\ Syncs = {} \/ Alarms = {}
    /\ Syncs \union Alarms # {} => pending
    /\ life = "open" /\ ~republished =>
           /\ AtMostOne(events, "property")
           /\ published = NoCounter \/ Changes # {} => Unwatched
           /\ published \in Counters /\ Changes = {} => Watched

Inv == TypeOK /\ FrameFollows /\ PingInv /\ RequestInv

-----------------------------------------------------------------------------
(* The two queues. *)

LEMMA AppendFacts ==
    ASSUME NEW S, NEW q \in Seq(S), NEW e \in S
    PROVE  /\ Append(q, e) \in Seq(S)
           /\ Len(q) + 1 \in DOMAIN Append(q, e) /\ Append(q, e)[Len(q) + 1] = e
           /\ \A i : i \in DOMAIN Append(q, e) => i = Len(q) + 1 \/ i \in DOMAIN q
           /\ \A i \in DOMAIN q : i \in DOMAIN Append(q, e) /\ i # Len(q) + 1 /\ Append(q, e)[i] = q[i]
<1>1. /\ Append(q, e) \in Seq(S) /\ Len(Append(q, e)) = Len(q) + 1
      /\ \A i \in 1 .. Len(q) : Append(q, e)[i] = q[i]
      /\ Append(q, e)[Len(q) + 1] = e
  BY AppendProperties
<1>2. Len(q) \in Nat /\ DOMAIN q = 1 .. Len(q) /\ DOMAIN Append(q, e) = 1 .. Len(q) + 1
  BY <1>1
<1> QED
  BY <1>1, <1>2

LEMMA TailFacts ==
    ASSUME NEW S, NEW q \in Seq(S), q # <<>>
    PROVE  /\ Tail(q) \in Seq(S) /\ Head(q) \in S
           /\ 1 \in DOMAIN q /\ q[1] = Head(q)
           /\ \A i \in DOMAIN Tail(q) : /\ i + 1 \in DOMAIN q /\ i + 1 # 1 /\ Tail(q)[i] = q[i + 1]
                                        /\ i \in Nat
           /\ \A j \in DOMAIN q : j # 1 => j - 1 \in DOMAIN Tail(q) /\ Tail(q)[j - 1] = q[j]
<1>1. /\ Len(q) \in Nat \ {0} /\ DOMAIN q = 1 .. Len(q)
      /\ Head(q) = q[1] /\ Head(q) \in S
      /\ Tail(q) \in Seq(S) /\ Len(Tail(q)) = Len(q) - 1 /\ DOMAIN Tail(q) = 1 .. Len(q) - 1
      /\ \A i \in 1 .. Len(q) - 1 : Tail(q)[i] = q[i + 1]
  BY HeadTailProperties
<1>2. ASSUME NEW j \in DOMAIN q, j # 1
      PROVE  j - 1 \in DOMAIN Tail(q) /\ Tail(q)[j - 1] = q[j]
  <2>1. j - 1 \in 1 .. Len(q) - 1 /\ (j - 1) + 1 = j
    BY <1>1, <1>2
  <2>2. Tail(q)[j - 1] = q[(j - 1) + 1]
    BY <1>1, <2>1, Zenon
  <2> QED
    BY <1>1, <2>1, <2>2
<1>3. ASSUME NEW i \in DOMAIN Tail(q)
      PROVE  i + 1 \in DOMAIN q /\ i + 1 # 1 /\ Tail(q)[i] = q[i + 1] /\ i \in Nat
  BY <1>1, <1>3
<1>4. 1 \in DOMAIN q
  BY <1>1
<1> QED
  BY <1>1, <1>2, <1>3, <1>4

LEMMA MessageFacts ==
    /\ \A v \in Nat : SyncRequest(v) \in Messages /\ SyncRequest(v).type = "sync"
    /\ \A t \in Nat : Ping(t) \in Messages /\ Ping(t).type = "ping" /\ Ping(t).timestamp = t
    /\ \A v \in Nat : Alarm(v) \in Events /\ Alarm(v).type = "alarm"
    /\ \A t \in Nat : Pong(t) \in Events /\ Pong(t).type = "pong" /\ Pong(t).timestamp = t
    /\ Property \in Events /\ Property.type = "property"
    /\ Destroyed \in Events /\ Destroyed.type = "destroyed"
    /\ \A m \in Messages : \/ m.type = "sync" /\ m.value \in Nat
                           \/ m.type = "ping" /\ m.timestamp \in Nat /\ m = Ping(m.timestamp)
    /\ \A e \in Events : \/ e.type = "alarm" /\ e.value \in Nat
                         \/ e.type = "pong" /\ e.timestamp \in Nat /\ e = Pong(e.timestamp)
                         \/ e.type \in {"property", "destroyed"}
BY DEF Messages, Events, SyncRequest, Ping, Alarm, Pong, Property, Destroyed

-----------------------------------------------------------------------------
(* Types. *)

LEMMA InitTypes == Init => TypeOK
<1> SUFFICES ASSUME Init PROVE TypeOK
  OBVIOUS
<1>1. messages \in Seq(Messages) /\ events \in Seq(Events)
  <2>1. SyncRequest(1) \in Messages
    BY MessageFacts
  <2> QED
    BY <2>1 DEF Init
<1>2. alarm \in [counter : Counters, trigger : Nat] \union {NoAlarm}
  BY DEF Init
<1>3. counter \in [Counters -> Nat]
  BY DEF Init
<1>4. enabled \in BOOLEAN /\ ready \in BOOLEAN /\ pending \in BOOLEAN /\ timeout \in BOOLEAN
  BY DEF Init
<1>5. value \in Nat
  BY DEF Init
<1> QED
  <2>1. {ready, enabled, pending, interactiveResize, timeout, resizing,
         pingTimer, unresponsive, hung, republished} \subseteq BOOLEAN
    <3>1. /\ interactiveResize \in BOOLEAN /\ resizing \in BOOLEAN /\ pingTimer \in BOOLEAN
          /\ unresponsive \in BOOLEAN /\ hung \in BOOLEAN /\ republished \in BOOLEAN
      BY DEF Init
    <3> QED
      BY <1>4, <3>1, Zenon
  <2>2. life = "open" /\ prompt = "none" /\ {pingTimestamp, publications} = {0}
    BY DEF Init
  <2>3. {target, frame} \subseteq Geometries
    BY DEF Init
  <2>4. published \in Counters \union {NoCounter, BadCounter}
    BY DEF Init
  <2>5. {value, pingTimestamp, publications} \subseteq Nat
    BY <1>5, <2>2
  <2>6. life \in {"open", "closed", "gone"} /\ prompt \in {"none", "running", "quitting"}
    BY <2>2
  <2> QED
    BY <1>1, <1>2, <1>3, <2>1, <2>3, <2>4, <2>5, <2>6, Zenon DEF TypeOK

LEMMA FinishSyncTypes ==
    ASSUME TypeOK, FinishSync
    PROVE  ready' \in BOOLEAN /\ interactiveResize' \in BOOLEAN /\ frame' \in Geometries
BY DEF TypeOK, FinishSync

LEMMA ClientTypes ==
    ASSUME TypeOK,
           \/ ClientHangs \/ ClientRecovers \/ ClientHandles \/ ClientExits
           \/ \E c \in Counters \union {NoCounter, BadCounter} : ClientPublishes(c)
    PROVE  TypeOK'
<1>1. messages \in Seq(Messages) /\ events \in Seq(Events)
  BY DEF TypeOK
<1>2. CASE ClientHangs \/ ClientRecovers
  BY <1>2 DEF ClientHangs, ClientRecovers, TypeOK, syncVars, resizeVars, pingVars
<1>3. CASE ClientExits
  <2>1. events' \in Seq(Events)
    BY <1>1, <1>3, MessageFacts, AppendFacts DEF ClientExits
  <2> QED
    BY <1>3, <2>1 DEF ClientExits, TypeOK, syncVars, resizeVars, pingVars, clientVars
<1>4. ASSUME NEW c \in Counters \union {NoCounter, BadCounter}, ClientPublishes(c) PROVE TypeOK'
  <2>1. events' \in Seq(Events)
    BY <1>1, <1>4, MessageFacts, AppendFacts DEF ClientPublishes
  <2>2. republished' \in BOOLEAN
    BY <1>4 DEF ClientPublishes, TypeOK
  <2> QED
    BY <1>4, <2>1, <2>2 DEF ClientPublishes, TypeOK, syncVars, resizeVars, pingVars
<1>5. CASE ClientHandles
  <2>1. messages # <<>> /\ messages' = Tail(messages)
    BY <1>5 DEF ClientHandles
  <2>2. Head(messages) \in Messages /\ messages' \in Seq(Messages)
    BY <1>1, <2>1, TailFacts
  <2>3. CASE Head(messages).type = "sync"
    <3> DEFINE v == Head(messages).value
    <3>1. v \in Nat /\ SetCounter(v)
      BY <1>5, <2>2, <2>3, MessageFacts DEF ClientHandles
    <3> HIDE DEF v
    <3>2. Append(events, Alarm(v)) \in Seq(Events)
      BY <1>1, <3>1, MessageFacts, AppendFacts
    <3>3. counter' \in [Counters -> Nat] /\ events' \in Seq(Events)
      BY <1>1, <3>1, <3>2 DEF SetCounter, TypeOK
    <3>4. alarm' \in [counter : Counters, trigger : Nat] \union {NoAlarm}
      BY <3>1 DEF SetCounter, TypeOK
    <3> QED
      BY <1>5, <2>2, <3>3, <3>4 DEF ClientHandles, TypeOK, syncVars, resizeVars, pingVars, clientVars
  <2>4. CASE Head(messages).type # "sync"
    <3> DEFINE t == Head(messages).timestamp
    <3>0. t \in Nat /\ events' = Append(events, Pong(t)) /\ UNCHANGED <<counter, alarm>>
      BY <1>5, <2>2, <2>4, MessageFacts DEF ClientHandles
    <3> HIDE DEF t
    <3>1. events' \in Seq(Events) /\ UNCHANGED <<counter, alarm>>
      BY <1>1, <3>0, MessageFacts, AppendFacts
    <3> QED
      BY <1>5, <2>2, <3>1 DEF ClientHandles, TypeOK, syncVars, resizeVars, pingVars, clientVars
  <2> QED
    BY <2>3, <2>4
<1> QED
  BY <1>2, <1>3, <1>4, <1>5

LEMMA ResizeTypes ==
    ASSUME TypeOK,
           \/ AckSyncTimeout \/ DamageNotify \/ StartResize
           \/ \E g \in Geometries : ResizeStep(g) \/ \E cancel \in BOOLEAN : FinishResize(cancel, g)
    PROVE  TypeOK'
<1>1. CASE AckSyncTimeout
  BY <1>1, FinishSyncTypes DEF AckSyncTimeout, TypeOK, pingVars, clientVars
<1>2. CASE DamageNotify \/ StartResize
  BY <1>2 DEF DamageNotify, StartResize, TypeOK, syncVars, resizeVars, pingVars, clientVars
<1>3. ASSUME NEW g \in Geometries, NEW cancel \in BOOLEAN, FinishResize(cancel, g) PROVE TypeOK'
  BY <1>3 DEF FinishResize, TypeOK, syncVars, pingVars, clientVars
<1>4. ASSUME NEW g \in Geometries, ResizeStep(g) PROVE TypeOK'
  <2>1. messages' \in Seq(Messages) /\ value' \in Nat /\ {timeout', pending', interactiveResize'} \subseteq BOOLEAN
    <3>1. value + 1 \in Nat /\ messages \in Seq(Messages)
      BY DEF TypeOK
    <3>2. Append(messages, SyncRequest(value + 1)) \in Seq(Messages)
      BY <3>1, MessageFacts, AppendFacts
    <3> QED
      BY <1>4, <3>1, <3>2 DEF ResizeStep, SendSyncRequest, TypeOK
  <2> QED
    BY <1>4, <2>1 DEF ResizeStep, TypeOK, pingVars, clientVars
<1> QED
  BY <1>1, <1>2, <1>3, <1>4

LEMMA PingTypes ==
    ASSUME TypeOK,
           PingWindow \/ FirstPingTimeout \/ FinalPingTimeout \/ PromptEnds \/ Destructor \/ UNCHANGED vars
    PROVE  TypeOK'
<1>1. CASE PingWindow
  <2>1. pingTimestamp + 1 \in Nat /\ messages \in Seq(Messages)
    BY DEF TypeOK
  <2>2. messages' \in Seq(Messages)
    BY <1>1, <2>1, MessageFacts, AppendFacts DEF PingWindow
  <2> QED
    BY <1>1, <2>1, <2>2 DEF PingWindow, TypeOK, syncVars, resizeVars, clientVars
<1>2. CASE FirstPingTimeout \/ FinalPingTimeout \/ PromptEnds
  BY <1>2 DEF FirstPingTimeout, FinalPingTimeout, PromptEnds, TypeOK, syncVars, resizeVars, clientVars
<1>3. CASE Destructor
  BY <1>3 DEF Destructor, QuitPrompt, TypeOK, syncVars, resizeVars, clientVars
<1>4. CASE UNCHANGED vars
  BY <1>4 DEF vars, TypeOK, syncVars, resizeVars, pingVars, clientVars
<1> QED
  BY <1>1, <1>2, <1>3, <1>4

LEMMA EventTypes ==
    ASSUME TypeOK, HandleEvent
    PROVE  TypeOK'
<1> DEFINE e == Head(events)
<1>1. events \in Seq(Events) /\ events # <<>> /\ events' = Tail(events) /\ UNCHANGED clientVars
  BY DEF TypeOK, HandleEvent
<1>2. e \in Events /\ events' \in Seq(Events)
  BY <1>1, TailFacts
<1>3. messages' \in Seq(Messages)
  BY DEF HandleEvent, TypeOK
<1> HIDE DEF e
<1> USE DEF TypeOK, syncVars, resizeVars, pingVars, clientVars
<1>4. ASSUME HandleAlarm(e.value) PROVE TypeOK'
  <2>1. {pending', enabled', timeout', ready', interactiveResize'} \subseteq BOOLEAN /\ frame' \in Geometries
    BY <1>4 DEF HandleAlarm, AckSync, FinishSync
  <2> QED
    BY <1>1, <1>2, <1>3, <1>4, <2>1 DEF HandleAlarm
<1>5. ASSUME HandlePong(e.timestamp) PROVE TypeOK'
  BY <1>1, <1>2, <1>3, <1>5 DEF HandlePong, GotPing, QuitPrompt
<1>6. ASSUME HandleProperty PROVE TypeOK'
  <2>1. counter' \in [Counters -> Nat]
    BY <1>6 DEF HandleProperty, GetSyncCounter
  <2>2. alarm' \in [counter : Counters, trigger : Nat] \union {NoAlarm}
    <3>1. published \in Counters => [counter |-> published, trigger |-> 1] \in [counter : Counters, trigger : Nat]
      OBVIOUS
    <3> QED
      BY <1>6, <3>1 DEF HandleProperty, GetSyncCounter
  <2>3. enabled' \in BOOLEAN
    BY <1>6 DEF HandleProperty, GetSyncCounter
  <2>4. value' \in Nat
    BY <1>6 DEF HandleProperty, GetSyncCounter
  <2> QED
    BY <1>1, <1>2, <1>3, <1>6, <2>1, <2>2, <2>3, <2>4 DEF HandleProperty
<1>7. ASSUME HandleDestroyed PROVE TypeOK'
  BY <1>1, <1>2, <1>3, <1>7 DEF HandleDestroyed
<1> QED
  BY <1>4, <1>5, <1>6, <1>7 DEF HandleEvent, e

-----------------------------------------------------------------------------
(* The frame of a resized window. *)

LEMMA NextFrame ==
    ASSUME TypeOK, FrameFollows, [Next]_vars
    PROVE  FrameFollows'
<1> USE DEF FrameFollows
<1>1. CASE \/ ClientHangs \/ ClientRecovers \/ ClientHandles \/ ClientExits
           \/ \E c \in Counters \union {NoCounter, BadCounter} : ClientPublishes(c)
           \/ DamageNotify \/ StartResize \/ UNCHANGED vars
  BY <1>1 DEF ClientHangs, ClientRecovers, ClientHandles, ClientExits, ClientPublishes,
     DamageNotify, StartResize, vars, syncVars, resizeVars
<1>2. CASE AckSyncTimeout
  BY <1>2 DEF AckSyncTimeout, FinishSync
<1>3. ASSUME NEW g \in Geometries, NEW cancel \in BOOLEAN, FinishResize(cancel, g) PROVE FrameFollows'
  BY <1>3 DEF FinishResize, syncVars
<1>4. ASSUME NEW g \in Geometries, ResizeStep(g) PROVE FrameFollows'
  BY <1>4 DEF ResizeStep, SendSyncRequest, Waiting
<1>5. CASE PingWindow \/ FirstPingTimeout \/ FinalPingTimeout \/ PromptEnds \/ Destructor
  BY <1>5 DEF PingWindow, FirstPingTimeout, FinalPingTimeout, PromptEnds, Destructor, syncVars, resizeVars
<1>6. CASE HandleEvent
  <2>1. ASSUME NEW v, HandleAlarm(v) PROVE FrameFollows'
    BY <1>6, <2>1 DEF HandleEvent, HandleAlarm, AckSync, FinishSync
  <2>2. ASSUME NEW t, HandlePong(t) PROVE FrameFollows'
    BY <2>2 DEF HandlePong, syncVars, resizeVars
  <2>3. ASSUME HandleProperty \/ HandleDestroyed PROVE FrameFollows'
    BY <2>3 DEF HandleProperty, HandleDestroyed, resizeVars
  <2> QED
    BY <1>6, <2>1, <2>2, <2>3 DEF HandleEvent
<1> QED
  BY <1>1, <1>2, <1>3, <1>4, <1>5, <1>6 DEF Next

-----------------------------------------------------------------------------
(* The ping whose answer is due. *)

\* A ping is one step away from its answer.
LEMMA InitPing == Init => PingInv
<1> SUFFICES ASSUME Init PROVE PingInv
  OBVIOUS
<1>1. \A i : ~Pings(i)
  <2>1. SyncRequest(1).type # "ping"
    BY MessageFacts
  <2> QED
    BY <2>1 DEF Init, Pings
<1>2. \A i : ~Pongs(i)
  BY DEF Init, Pongs
<1> QED
  BY <1>1, <1>2 DEF Init, PingInv, Asked, Answered

\* What only the X server and the window manager say to each other does not
\* matter to the pings.
LEMMA OtherMessage ==
    ASSUME TypeOK,
           \/ UNCHANGED messages
           \/ \E m \in Messages : m.type # "ping" /\ messages' = Append(messages, m)
    PROVE  \A i : (Pings(i)' <=> Pings(i)) /\ (Pings(i) => messages'[i] = messages[i])
<1>1. ASSUME NEW m \in Messages, m.type # "ping", messages' = Append(messages, m)
      PROVE  \A i : (Pings(i)' <=> Pings(i)) /\ (Pings(i) => messages'[i] = messages[i])
  <2>1. /\ Append(messages, m)[Len(messages) + 1] = m
        /\ \A i : i \in DOMAIN Append(messages, m) => i = Len(messages) + 1 \/ i \in DOMAIN messages
        /\ \A i \in DOMAIN messages : i \in DOMAIN Append(messages, m) /\ Append(messages, m)[i] = messages[i]
    BY AppendFacts DEF TypeOK
  <2> QED
    BY <1>1, <2>1 DEF Pings
<1> QED
  BY <1>1 DEF Pings

LEMMA OtherEvent ==
    ASSUME TypeOK,
           \/ UNCHANGED events
           \/ \E e \in Events : e.type # "pong" /\ events' = Append(events, e)
    PROVE  \A i : (Pongs(i)' <=> Pongs(i)) /\ (Pongs(i) => events'[i] = events[i])
<1>1. ASSUME NEW e \in Events, e.type # "pong", events' = Append(events, e)
      PROVE  \A i : (Pongs(i)' <=> Pongs(i)) /\ (Pongs(i) => events'[i] = events[i])
  <2>1. /\ Append(events, e)[Len(events) + 1] = e
        /\ \A i : i \in DOMAIN Append(events, e) => i = Len(events) + 1 \/ i \in DOMAIN events
        /\ \A i \in DOMAIN events : i \in DOMAIN Append(events, e) /\ Append(events, e)[i] = events[i]
    BY AppendFacts DEF TypeOK
  <2> QED
    BY <1>1, <2>1 DEF Pongs
<1> QED
  BY <1>1 DEF Pongs

\* The queue without its first entry.
LEMMA MessageRead ==
    ASSUME TypeOK, messages # <<>>, messages' = Tail(messages)
    PROVE  /\ \A i : Pings(i)' => Pings(i + 1) /\ i + 1 # 1 /\ i \in Nat /\ messages'[i] = messages[i + 1]
           /\ \A j : Pings(j) => j = 1 \/ (Pings(j - 1)' /\ messages'[j - 1] = messages[j])
<1>1. messages \in Seq(Messages)
  BY DEF TypeOK
<1>2. /\ \A i \in DOMAIN Tail(messages) : i + 1 \in DOMAIN messages /\ i + 1 # 1 /\ i \in Nat
                                           /\ Tail(messages)[i] = messages[i + 1]
      /\ \A j \in DOMAIN messages : j # 1 => j - 1 \in DOMAIN Tail(messages) /\ Tail(messages)[j - 1] = messages[j]
  BY <1>1, TailFacts
<1> QED
  BY <1>2 DEF Pings

LEMMA EventRead ==
    ASSUME TypeOK, events # <<>>, events' = Tail(events)
    PROVE  /\ \A i : Pongs(i)' => Pongs(i + 1) /\ i + 1 # 1 /\ i \in Nat /\ events'[i] = events[i + 1]
           /\ \A j : Pongs(j) => j = 1 \/ (Pongs(j - 1)' /\ events'[j - 1] = events[j])
<1>1. events \in Seq(Events)
  BY DEF TypeOK
<1>2. /\ \A i \in DOMAIN Tail(events) : i + 1 \in DOMAIN events /\ i + 1 # 1 /\ i \in Nat
                                         /\ Tail(events)[i] = events[i + 1]
      /\ \A j \in DOMAIN events : j # 1 => j - 1 \in DOMAIN Tail(events) /\ Tail(events)[j - 1] = events[j]
  BY <1>1, TailFacts
<1> QED
  BY <1>2 DEF Pongs

\* Steps that neither send, read nor answer a ping.
LEMMA SilentPing ==
    ASSUME PingInv, UNCHANGED pingTimestamp, life' \in {life, "closed", "gone"},
           \A i : (Pings(i)' <=> Pings(i)) /\ (Pings(i) => messages'[i] = messages[i]),
           \A i : (Pongs(i)' <=> Pongs(i)) /\ (Pongs(i) => events'[i] = events[i]),
           life' = "open" =>
               /\ pingTimer' \/ unresponsive' <=> pingTimer \/ unresponsive
               /\ prompt' = "running" => unresponsive'
    PROVE  PingInv'
<1>1. \A i : (Asked(i)' <=> Asked(i)) /\ (Answered(i)' <=> Answered(i))
  BY DEF Asked, Answered, Pings, Pongs
<1> QED
  BY <1>1 DEF PingInv

LEMMA PingWindowPing ==
    ASSUME TypeOK, PingInv, PingWindow
    PROVE  PingInv'
<1> DEFINE m == Ping(pingTimestamp + 1)
<1>1. /\ pingTimestamp \in Nat /\ pingTimestamp' = pingTimestamp + 1 /\ m \in Messages
      /\ m.type = "ping" /\ m.timestamp = pingTimestamp + 1
  BY MessageFacts DEF TypeOK, PingWindow
<1>2. messages' = Append(messages, m) /\ UNCHANGED <<events, life, prompt, unresponsive>> /\ pingTimer'
  BY DEF PingWindow
<1> HIDE DEF m
<1>3. /\ Append(messages, m)[Len(messages) + 1] = m
      /\ Len(messages) + 1 \in DOMAIN Append(messages, m)
      /\ \A i : i \in DOMAIN Append(messages, m) => i = Len(messages) + 1 \/ i \in DOMAIN messages
      /\ \A i \in DOMAIN messages : Append(messages, m)[i] = messages[i]
  BY <1>1, AppendFacts DEF TypeOK
<1>4. \A i : Pings(i)' => \/ i = Len(messages) + 1 /\ messages'[i].timestamp = pingTimestamp + 1
                          \/ Pings(i) /\ messages'[i] = messages[i]
  BY <1>1, <1>2, <1>3 DEF Pings
<1>5. \A i : Pongs(i)' <=> Pongs(i)
  BY <1>2 DEF Pongs
<1>6. \A i : ~Answered(i)'
  BY <1>1, <1>2, <1>5 DEF PingInv, Answered
<1>7. \A i : Asked(i)' => i = Len(messages) + 1
  BY <1>1, <1>4 DEF PingInv, Asked
<1>8. \E i : Asked(i)'
  BY <1>1, <1>2, <1>3 DEF Asked, Pings
<1>9. \A i : Pings(i)' => messages'[i].timestamp \in Nat /\ messages'[i].timestamp <= pingTimestamp'
  BY <1>1, <1>4 DEF PingInv
<1>10. \A i : Pongs(i)' => events'[i].timestamp \in Nat /\ events'[i].timestamp <= pingTimestamp'
  BY <1>1, <1>2, <1>5 DEF PingInv
<1>11. prompt = "running" /\ life = "open" => unresponsive
  BY DEF PingInv
<1> QED
  BY <1>2, <1>6, <1>7, <1>8, <1>9, <1>10, <1>11 DEF PingInv

\* The client reads its next message.
LEMMA ClientHandlesPing ==
    ASSUME TypeOK, PingInv, ClientHandles
    PROVE  PingInv'
<1> DEFINE m == Head(messages)
<1>1. messages # <<>> /\ messages' = Tail(messages)
      /\ UNCHANGED <<life, pingTimer, unresponsive, prompt, pingTimestamp>>
  BY DEF ClientHandles, pingVars
<1>2. m \in Messages /\ 1 \in DOMAIN messages /\ messages[1] = m
  BY <1>1, TailFacts DEF TypeOK
<1>3. /\ \A i : Pings(i)' => Pings(i + 1) /\ i + 1 # 1 /\ i \in Nat /\ messages'[i] = messages[i + 1]
      /\ \A j : Pings(j) => j = 1 \/ (Pings(j - 1)' /\ messages'[j - 1] = messages[j])
  BY <1>1, MessageRead
<1>4. /\ \A i : Asked(i)' => Asked(i + 1) /\ i + 1 # 1 /\ i \in Nat
      /\ \A j : Asked(j) => j = 1 \/ Asked(j - 1)'
  BY <1>1, <1>3 DEF Asked
<1>5. \A i, j : Asked(i)' /\ Asked(j)' => i = j
  <2> SUFFICES ASSUME NEW i, NEW j, Asked(i)', Asked(j)' PROVE i = j
    OBVIOUS
  <2>1. i + 1 = j + 1 /\ i \in Nat /\ j \in Nat
    BY <1>4 DEF PingInv
  <2> QED
    BY <2>1
<1>6. \A i : Pings(i)' => messages'[i].timestamp \in Nat /\ messages'[i].timestamp <= pingTimestamp'
  BY <1>1, <1>3 DEF PingInv
<1>7. CASE m.type = "sync"
  <2>1. ~Asked(1)
    BY <1>2, <1>7 DEF Asked, Pings
  <2>2. \/ UNCHANGED events
        \/ \E e \in Events : e.type # "pong" /\ events' = Append(events, e)
    <3>1. m.value \in Nat
      BY <1>2, <1>7, MessageFacts
    <3>2. UNCHANGED events \/ events' = Append(events, Alarm(m.value))
      BY <1>7 DEF ClientHandles, SetCounter
    <3> QED
      BY <3>1, <3>2, MessageFacts
  <2>3. \A i : (Pongs(i)' <=> Pongs(i)) /\ (Pongs(i) => events'[i] = events[i])
    BY <2>2, OtherEvent
  <2>4. \A i : Answered(i)' <=> Answered(i)
    BY <1>1, <2>3 DEF Answered
  <2>5. (\E i : Asked(i)') <=> (\E i : Asked(i))
    BY <1>4, <2>1
  <2>6. \A i : Pongs(i)' => events'[i].timestamp \in Nat /\ events'[i].timestamp <= pingTimestamp'
    BY <1>1, <2>3 DEF PingInv
  <2>7. \A i, j : (Answered(i)' /\ Answered(j)' => i = j) /\ ~(Asked(i)' /\ Answered(j)')
    BY <1>4, <2>4 DEF PingInv
  <2>8. life' = "open" =>
           /\ pingTimer' \/ unresponsive' <=> (\E i : Asked(i)') \/ (\E i : Answered(i)')
           /\ prompt' = "running" => unresponsive'
    BY <1>1, <2>4, <2>5 DEF PingInv
  <2> QED
    BY <1>5, <1>6, <2>6, <2>7, <2>8 DEF PingInv
<1>8. CASE m.type # "sync"
  <2> DEFINE t == m.timestamp
  <2>1. m.type = "ping" /\ t \in Nat /\ Pings(1) /\ messages[1].timestamp = t
    BY <1>2, <1>8, MessageFacts DEF Pings
  <2>2. events' = Append(events, Pong(t))
    BY <1>8 DEF ClientHandles
  <2> HIDE DEF t
  <2>3. Pong(t) \in Events /\ Pong(t).type = "pong" /\ Pong(t).timestamp = t /\ t <= pingTimestamp
    BY <2>1, MessageFacts DEF PingInv
  <2>4. /\ Append(events, Pong(t))[Len(events) + 1] = Pong(t)
        /\ Len(events) + 1 \in DOMAIN Append(events, Pong(t))
        /\ \A i : i \in DOMAIN Append(events, Pong(t)) => i = Len(events) + 1 \/ i \in DOMAIN events
        /\ \A i \in DOMAIN events : i \in DOMAIN Append(events, Pong(t)) /\ i # Len(events) + 1
                                    /\ Append(events, Pong(t))[i] = events[i]
    BY <2>3, AppendFacts DEF TypeOK
  <2>5. \A i : Pongs(i)' => \/ i = Len(events) + 1 /\ events'[i].timestamp = t
                            \/ Pongs(i) /\ events'[i] = events[i]
    BY <2>2, <2>3, <2>4 DEF Pongs
  <2>6. \A i : Pongs(i) => Pongs(i)' /\ events'[i] = events[i]
    BY <2>2, <2>4 DEF Pongs
  <2>7. \A i : Pongs(i)' => events'[i].timestamp \in Nat /\ events'[i].timestamp <= pingTimestamp'
    BY <1>1, <2>1, <2>3, <2>5 DEF PingInv
  <2>8. CASE t = pingTimestamp
    <3>1. Asked(1)
      BY <2>1, <2>8 DEF Asked
    <3>2. \A i : ~Asked(i)' /\ ~Answered(i)
      BY <1>4, <3>1 DEF PingInv
    <3>3. \A i : Answered(i)' => i = Len(events) + 1
      BY <1>1, <2>5, <3>2 DEF Answered
    <3>4. \E i : Answered(i)'
      BY <1>1, <2>2, <2>3, <2>4, <2>8 DEF Answered, Pongs
    <3>5. life = "open" => (pingTimer \/ unresponsive) /\ (prompt = "running" => unresponsive)
      BY <3>1 DEF PingInv
    <3> QED
      BY <1>1, <1>6, <2>7, <3>2, <3>3, <3>4, <3>5 DEF PingInv
  <2>9. CASE t # pingTimestamp
    <3>1. ~Asked(1)
      BY <2>1, <2>9 DEF Asked
    <3>2. (\E i : Asked(i)') <=> (\E i : Asked(i))
      BY <1>4, <3>1
    <3>3. \A i : Answered(i)' <=> Answered(i)
      BY <1>1, <2>5, <2>6, <2>9 DEF Answered
    <3>4. \A i, j : (Answered(i)' /\ Answered(j)' => i = j) /\ ~(Asked(i)' /\ Answered(j)')
      BY <1>4, <3>3 DEF PingInv
    <3>5. life' = "open" =>
             /\ pingTimer' \/ unresponsive' <=> (\E i : Asked(i)') \/ (\E i : Answered(i)')
             /\ prompt' = "running" => unresponsive'
      BY <1>1, <3>2, <3>3 DEF PingInv
    <3> QED
      BY <1>5, <1>6, <2>7, <3>4, <3>5 DEF PingInv
  <2> QED
    BY <2>8, <2>9
<1> QED
  BY <1>7, <1>8

\* The window manager handles its next event.
LEMMA HandleEventPing ==
    ASSUME TypeOK, PingInv, HandleEvent
    PROVE  PingInv'
<1> DEFINE e == Head(events)
<1>1. events # <<>> /\ events' = Tail(events) /\ life = "open"
  BY DEF HandleEvent
<1>2. e \in Events /\ 1 \in DOMAIN events /\ events[1] = e
  BY <1>1, TailFacts DEF TypeOK
<1>3. /\ \A i : Pongs(i)' => Pongs(i + 1) /\ i + 1 # 1 /\ i \in Nat /\ events'[i] = events[i + 1]
      /\ \A j : Pongs(j) => j = 1 \/ (Pongs(j - 1)' /\ events'[j - 1] = events[j])
  BY <1>1, EventRead
<1>4. UNCHANGED pingTimestamp
  BY DEF HandleEvent, HandleAlarm, HandlePong, HandleProperty, HandleDestroyed, pingVars
<1>5. /\ \A i : Answered(i)' => Answered(i + 1) /\ i + 1 # 1 /\ i \in Nat
      /\ \A j : Answered(j) => j = 1 \/ Answered(j - 1)'
  BY <1>3, <1>4 DEF Answered
<1>6. \A i, j : Answered(i)' /\ Answered(j)' => i = j
  <2> SUFFICES ASSUME NEW i, NEW j, Answered(i)', Answered(j)' PROVE i = j
    OBVIOUS
  <2>1. i + 1 = j + 1 /\ i \in Nat /\ j \in Nat
    BY <1>5 DEF PingInv
  <2> QED
    BY <2>1
<1>7. \A i : Pongs(i)' => events'[i].timestamp \in Nat /\ events'[i].timestamp <= pingTimestamp'
  BY <1>3, <1>4 DEF PingInv
<1>8. CASE life' = "open"
  <2>1. UNCHANGED messages
    BY <1>8 DEF HandleEvent
  <2>2. \A i : (Pings(i)' <=> Pings(i)) /\ (Asked(i)' <=> Asked(i))
    BY <1>4, <2>1 DEF Asked, Pings
  <2>3. \A i : Pings(i)' => messages'[i].timestamp \in Nat /\ messages'[i].timestamp <= pingTimestamp'
    BY <1>4, <2>1, <2>2 DEF PingInv
  <2>4. \A i, j : (Asked(i)' /\ Asked(j)' => i = j) /\ ~(Asked(i)' /\ Answered(j)')
    BY <1>5, <2>2 DEF PingInv
  <2>5. /\ pingTimer' \/ unresponsive' <=> (\E i : Asked(i)') \/ (\E i : Answered(i)')
        /\ prompt' = "running" => unresponsive'
    <3>1. CASE e.type = "pong"
      <4>1. GotPing(e.timestamp) /\ Pongs(1) /\ events[1].timestamp = e.timestamp
        BY <1>2, <3>1 DEF HandleEvent, HandlePong, Pongs
      <4> HIDE DEF e
      <4>2. CASE e.timestamp = pingTimestamp
        <5>1. Answered(1)
          BY <4>1, <4>2 DEF Answered
        <5>2. \A i : ~Asked(i)' /\ ~Answered(i)'
          BY <1>5, <2>2, <5>1 DEF PingInv
        <5>3. ~pingTimer' /\ ~unresponsive' /\ prompt' # "running"
          BY <4>1, <4>2 DEF GotPing, QuitPrompt
        <5> QED
          BY <5>2, <5>3
      <4>3. CASE e.timestamp # pingTimestamp
        <5>1. ~Answered(1) /\ UNCHANGED <<pingTimer, unresponsive, prompt>>
          BY <4>1, <4>3 DEF Answered, GotPing
        <5>2. (\E i : Answered(i)') <=> (\E i : Answered(i))
          BY <1>5, <5>1
        <5> QED
          BY <1>1, <2>2, <5>1, <5>2 DEF PingInv
      <4> QED
        BY <4>2, <4>3
    <3>2. CASE e.type # "pong"
      <4>1. ~Answered(1) /\ UNCHANGED <<pingTimer, unresponsive, prompt>>
        BY <1>2, <3>2 DEF HandleEvent, HandleAlarm, HandleProperty, HandleDestroyed, pingVars, Answered, Pongs
      <4>2. (\E i : Answered(i)') <=> (\E i : Answered(i))
        BY <1>5, <4>1
      <4> QED
        BY <1>1, <2>2, <4>1, <4>2 DEF PingInv
    <3> QED
      BY <3>1, <3>2
  <2> QED
    BY <1>6, <1>7, <2>3, <2>4, <2>5 DEF PingInv
<1>9. CASE life' # "open"
  <2>1. messages' = <<>>
    BY <1>9 DEF HandleEvent
  <2>2. \A i : ~Pings(i)' /\ ~Asked(i)'
    BY <2>1 DEF Pings, Asked
  <2> QED
    BY <1>6, <1>7, <1>9, <2>2 DEF PingInv
<1> QED
  BY <1>8, <1>9

LEMMA NextPing ==
    ASSUME TypeOK, PingInv, [Next]_vars
    PROVE  PingInv'
<1> DEFINE Same ==
        /\ \A i : (Pings(i)' <=> Pings(i)) /\ (Pings(i) => messages'[i] = messages[i])
        /\ \A i : (Pongs(i)' <=> Pongs(i)) /\ (Pongs(i) => events'[i] = events[i])
<1>1. CASE ClientHangs \/ ClientRecovers \/ AckSyncTimeout \/ DamageNotify \/ StartResize
           \/ FirstPingTimeout \/ FinalPingTimeout \/ PromptEnds \/ Destructor \/ UNCHANGED vars
  <2>1. UNCHANGED <<messages, events, pingTimestamp>> /\ life' \in {life, "closed", "gone"}
    BY <1>1 DEF ClientHangs, ClientRecovers, AckSyncTimeout, DamageNotify, StartResize,
       FirstPingTimeout, FinalPingTimeout, PromptEnds, Destructor, vars, pingVars
  <2>2. Same
    BY <2>1 DEF Pings, Pongs
  <2>3. life' = "open" =>
           /\ pingTimer' \/ unresponsive' <=> pingTimer \/ unresponsive
           /\ prompt' = "running" => unresponsive'
    BY <1>1 DEF ClientHangs, ClientRecovers, AckSyncTimeout, DamageNotify, StartResize,
       FirstPingTimeout, FinalPingTimeout, PromptEnds, Destructor, vars, pingVars, PingInv
  <2> QED
    BY <2>1, <2>2, <2>3, SilentPing
<1>2. ASSUME NEW g \in Geometries, NEW cancel \in BOOLEAN, FinishResize(cancel, g) PROVE PingInv'
  <2>1. UNCHANGED <<messages, events, pingTimestamp, life, pingTimer, unresponsive, prompt>>
    BY <1>2 DEF FinishResize, pingVars
  <2>2. Same
    BY <2>1 DEF Pings, Pongs
  <2> QED
    BY <2>1, <2>2, SilentPing DEF PingInv
<1>3. ASSUME NEW g \in Geometries, ResizeStep(g) PROVE PingInv'
  <2>1. UNCHANGED <<events, pingTimestamp, life, pingTimer, unresponsive, prompt>>
    BY <1>3 DEF ResizeStep, pingVars
  <2>2. value + 1 \in Nat
    BY DEF TypeOK
  <2>3. \/ UNCHANGED messages
        \/ \E m \in Messages : m.type # "ping" /\ messages' = Append(messages, m)
    BY <1>3, <2>2, MessageFacts DEF ResizeStep, SendSyncRequest
  <2>4. Same
    BY <2>1, <2>3, OtherMessage DEF Pongs
  <2> QED
    BY <2>1, <2>4, SilentPing DEF PingInv
<1>4. ASSUME ClientExits \/ \E c \in Counters \union {NoCounter, BadCounter} : ClientPublishes(c)
      PROVE  PingInv'
  <2>1. UNCHANGED <<messages, pingTimestamp, life, pingTimer, unresponsive, prompt>>
        /\ (events' = Append(events, Destroyed) \/ events' = Append(events, Property))
    BY <1>4 DEF ClientExits, ClientPublishes, pingVars
  <2>2. \E e \in Events : e.type # "pong" /\ events' = Append(events, e)
    BY <2>1, MessageFacts
  <2>3. Same
    BY <2>1, <2>2, OtherEvent DEF Pings
  <2> QED
    BY <2>1, <2>3, SilentPing DEF PingInv
<1> QED
  BY <1>1, <1>2, <1>3, <1>4, PingWindowPing, ClientHandlesPing, HandleEventPing DEF Next

-----------------------------------------------------------------------------
(* The sync request under way. *)

LEMMA EntriesAppended ==
    ASSUME NEW S, NEW q \in Seq(S), NEW e \in S, NEW t
    PROVE  /\ e.type # t => Entries(Append(q, e), t) = Entries(q, t) /\ (AtMostOne(q, t) => AtMostOne(Append(q, e), t))
           /\ e.type = t => /\ Entries(Append(q, e), t) = Entries(q, t) \union {e}
                            /\ Entries(q, t) = {} => AtMostOne(Append(q, e), t)
<1> DEFINE n == Len(q) + 1
<1>1. /\ n \in DOMAIN Append(q, e) /\ Append(q, e)[n] = e
      /\ \A i : i \in DOMAIN Append(q, e) => i = n \/ i \in DOMAIN q
      /\ \A i \in DOMAIN q : i \in DOMAIN Append(q, e) /\ i # n /\ Append(q, e)[i] = q[i]
  BY AppendFacts
<1> HIDE DEF n
<1>2. CASE e.type # t
  <2>1. Typed(Append(q, e), t) = Typed(q, t) /\ \A i \in Typed(q, t) : Append(q, e)[i] = q[i]
    BY <1>1, <1>2 DEF Typed
  <2> QED
    BY <1>2, <2>1 DEF Entries, AtMostOne
<1>3. CASE e.type = t
  <2>1. Typed(Append(q, e), t) = Typed(q, t) \union {n} /\ \A i \in Typed(q, t) : Append(q, e)[i] = q[i]
    BY <1>1, <1>3 DEF Typed
  <2>2. Entries(Append(q, e), t) = Entries(q, t) \union {e}
    BY <1>1, <2>1 DEF Entries
  <2>3. Entries(q, t) = {} => Typed(q, t) = {}
    BY DEF Entries
  <2> QED
    BY <1>3, <2>1, <2>2, <2>3 DEF AtMostOne
<1> QED
  BY <1>2, <1>3

LEMMA EntriesRead ==
    ASSUME NEW S, NEW q \in Seq(S), q # <<>>, NEW t, AtMostOne(q, t)
    PROVE  /\ AtMostOne(Tail(q), t)
           /\ Entries(Tail(q), t) = IF Head(q).type = t THEN {} ELSE Entries(q, t)
           /\ Head(q).type = t => Entries(q, t) = {Head(q)}
<1>1. /\ 1 \in DOMAIN q /\ q[1] = Head(q)
      /\ \A i \in DOMAIN Tail(q) : i + 1 \in DOMAIN q /\ i + 1 # 1 /\ Tail(q)[i] = q[i + 1] /\ i \in Nat
      /\ \A j \in DOMAIN q : j # 1 => j - 1 \in DOMAIN Tail(q) /\ Tail(q)[j - 1] = q[j]
  BY TailFacts
<1>2. \A i \in Typed(Tail(q), t) : i + 1 \in Typed(q, t) /\ i + 1 # 1 /\ Tail(q)[i] = q[i + 1] /\ i \in Nat
  BY <1>1 DEF Typed
<1>3. AtMostOne(Tail(q), t)
  <2> SUFFICES ASSUME NEW i \in Typed(Tail(q), t), NEW j \in Typed(Tail(q), t) PROVE i = j
    BY DEF AtMostOne
  <2>1. i + 1 = j + 1 /\ i \in Nat /\ j \in Nat
    BY <1>2 DEF AtMostOne
  <2> QED
    BY <2>1
<1>4. CASE Head(q).type = t
  <2>1. 1 \in Typed(q, t)
    BY <1>1, <1>4 DEF Typed
  <2>2. Typed(Tail(q), t) = {} /\ Typed(q, t) = {1}
    BY <1>2, <2>1 DEF AtMostOne
  <2> QED
    BY <1>1, <1>3, <1>4, <2>2 DEF Entries
<1>5. CASE Head(q).type # t
  <2>1. \A j \in Typed(q, t) : j - 1 \in Typed(Tail(q), t) /\ Tail(q)[j - 1] = q[j]
    BY <1>1, <1>5 DEF Typed
  <2>2. \A i \in Typed(Tail(q), t) : \E j \in Typed(q, t) : Tail(q)[i] = q[j]
    BY <1>2
  <2>3. \A j \in Typed(q, t) : \E i \in Typed(Tail(q), t) : Tail(q)[i] = q[j]
    BY <2>1
  <2>4. Entries(Tail(q), t) = Entries(q, t)
    <3>1. \A x \in Entries(Tail(q), t) : x \in Entries(q, t)
      BY <2>2 DEF Entries
    <3>2. \A x \in Entries(q, t) : x \in Entries(Tail(q), t)
      <4> SUFFICES ASSUME NEW j \in Typed(q, t) PROVE \E i \in Typed(Tail(q), t) : q[j] = Tail(q)[i]
        BY DEF Entries
      <4> QED
        BY <2>3
    <3> QED
      BY <3>1, <3>2
  <2> QED
    BY <1>3, <1>5, <2>4
<1> QED
  BY <1>4, <1>5

LEMMA InitRequest == Init => RequestInv
<1> SUFFICES ASSUME Init PROVE RequestInv
  OBVIOUS
<1>1. /\ \A t : Entries(<<>>, t) = {} /\ AtMostOne(<<>>, t)
      /\ SyncRequest(1).type = "sync" /\ SyncRequest(1).value = 1
  BY DEF Entries, AtMostOne, Typed, SyncRequest
<1>2. Entries(<<SyncRequest(1)>>, "sync") = {SyncRequest(1)} /\ AtMostOne(<<SyncRequest(1)>>, "sync")
  BY <1>1 DEF Entries, AtMostOne, Typed
<1>3. /\ Alarms = {} /\ Changes = {} /\ AtMostOne(events, "alarm") /\ AtMostOne(events, "property")
      /\ AtMostOne(messages, "sync") /\ Syncs = IF pending THEN {SyncRequest(1)} ELSE {}
  BY <1>1, <1>2 DEF Init, Syncs, Alarms, Changes
<1>4. ASSUME published = NoCounter PROVE Unwatched
  BY <1>4, CountersAssumption DEF Init, Unwatched
<1>5. ASSUME published \in Counters PROVE Watched
  <2>1. alarm = [counter |-> published, trigger |-> 1]
    BY <1>5 DEF Init
  <2>2. alarm # NoAlarm /\ alarm.counter = published /\ alarm.trigger = 1
    BY <1>5, <2>1, AlarmAssumption
  <2>3. counter[published] = 0 /\ value = IF pending THEN 1 ELSE 0
    BY <1>5 DEF Init
  <2> QED
    BY <1>1, <1>3, <2>2, <2>3 DEF Watched
<1> QED
  BY <1>3, <1>4, <1>5 DEF Init, RequestInv

\* Steps that neither send, read nor answer a sync request, nor have to do with
\* the counter.
LEMMA SilentRequest ==
    ASSUME RequestInv, UNCHANGED <<pending, value, counter, alarm, published, republished>>,
           enabled' => enabled, life' = "open" => life = "open",
           Syncs' = Syncs /\ Alarms' = Alarms /\ Changes' = Changes,
           AtMostOne(messages, "sync") => AtMostOne(messages, "sync")',
           AtMostOne(events, "alarm") => AtMostOne(events, "alarm")',
           AtMostOne(events, "property") => AtMostOne(events, "property")'
    PROVE  RequestInv'
BY DEF RequestInv, Watched, Unwatched

LEMMA ResizeStepRequest ==
    ASSUME TypeOK, RequestInv, NEW g \in Geometries, ResizeStep(g)
    PROVE  RequestInv'
<1>1. UNCHANGED <<life, enabled, published, events, counter, alarm, republished>>
  BY DEF ResizeStep, clientVars
<1>2. Alarms' = Alarms /\ Changes' = Changes
  BY <1>1 DEF Alarms, Changes
<1>3. CASE ~enabled
  <2>1. UNCHANGED <<messages, pending, value>>
    BY <1>3 DEF ResizeStep
  <2> QED
    BY <1>1, <1>2, <2>1, SilentRequest DEF Syncs
<1>4. CASE enabled
  <2> DEFINE m == SyncRequest(value + 1)
  <2>1. ~pending /\ pending' /\ value \in Nat /\ value' = value + 1 /\ messages' = Append(messages, m)
    BY <1>4 DEF ResizeStep, Waiting, SendSyncRequest, TypeOK
  <2>2. m \in Messages /\ m.type = "sync" /\ m.value = value + 1
    BY <2>1, MessageFacts DEF SyncRequest
  <2> HIDE DEF m
  <2>3. Syncs = {} /\ Alarms = {}
    BY <2>1 DEF RequestInv
  <2>4. messages \in Seq(Messages)
    BY DEF TypeOK
  <2>5. Syncs' = {m} /\ AtMostOne(messages, "sync")'
    <3>1. /\ Entries(Append(messages, m), "sync") = Syncs \union {m}
          /\ Syncs = {} => AtMostOne(Append(messages, m), "sync")
      BY <2>2, <2>4, EntriesAppended DEF Syncs
    <3> QED
      BY <2>1, <2>3, <3>1 DEF Syncs
  <2>6. ~Unwatched
    BY <1>4 DEF Unwatched
  <2>7. ASSUME Watched, published \in Counters PROVE Watched'
    <3>1. alarm # NoAlarm /\ alarm.trigger \in Nat
      BY <2>7 DEF TypeOK, Watched
    <3> QED
      BY <1>1, <1>2, <2>1, <2>2, <2>3, <2>5, <2>7, <3>1 DEF Watched
  <2> QED
    BY <1>1, <1>2, <2>1, <2>3, <2>5, <2>6, <2>7 DEF RequestInv
<1> QED
  BY <1>3, <1>4

LEMMA ClientPublishesRequest ==
    ASSUME TypeOK, RequestInv, NEW c \in Counters \union {NoCounter, BadCounter}, ClientPublishes(c)
    PROVE  RequestInv'
<1>1. /\ events' = Append(events, Property)
      /\ UNCHANGED <<life, enabled, pending, value, messages, counter, alarm>>
      /\ ~republished' => ~republished /\ published = NoCounter /\ ~In(Property, events)
  BY DEF ClientPublishes, syncVars
<1>2. Property \in Events /\ Property.type = "property" /\ events \in Seq(Events)
  BY MessageFacts DEF TypeOK
<1>3. Syncs' = Syncs /\ Alarms' = Alarms /\ Changes' = Changes \union {Property}
  BY <1>1, <1>2, EntriesAppended DEF Syncs, Alarms, Changes
<1>4. /\ AtMostOne(messages, "sync") => AtMostOne(messages, "sync")'
      /\ AtMostOne(events, "alarm") => AtMostOne(events, "alarm")'
      /\ Changes = {} => AtMostOne(events, "property")'
  BY <1>1, <1>2, EntriesAppended DEF Changes
<1>5. ~In(Property, events) => Changes = {}
  <2>1. \A i \in DOMAIN events : events[i].type = "property" => events[i] = Property
    BY <1>2 DEF Events, Property
  <2> QED
    BY <2>1 DEF In, Changes, Entries, Typed
<1>6. Unwatched' <=> Unwatched
  BY <1>1 DEF Unwatched
<1> QED
  BY <1>1, <1>3, <1>4, <1>5, <1>6 DEF RequestInv

LEMMA ClientHandlesRequest ==
    ASSUME TypeOK, RequestInv, ClientHandles
    PROVE  RequestInv'
<1> DEFINE m == Head(messages)
<1>1. /\ messages # <<>> /\ messages' = Tail(messages) /\ messages \in Seq(Messages) /\ events \in Seq(Events)
      /\ UNCHANGED <<life, enabled, pending, value, published, republished>>
  BY DEF ClientHandles, syncVars, clientVars, TypeOK
<1>2. m \in Messages
  BY <1>1, TailFacts
<1>3. /\ AtMostOne(messages, "sync")'
      /\ Syncs' = IF m.type = "sync" THEN {} ELSE Syncs
      /\ m.type = "sync" => Syncs = {m}
  BY <1>1, EntriesRead DEF Syncs, RequestInv
<1>4. CASE m.type # "sync"
  <2>1. m.timestamp \in Nat /\ events' = Append(events, Pong(m.timestamp)) /\ UNCHANGED <<counter, alarm>>
    BY <1>2, <1>4, MessageFacts DEF ClientHandles
  <2>2. Pong(m.timestamp) \in Events /\ Pong(m.timestamp).type = "pong"
    BY <2>1, MessageFacts
  <2>3. /\ Alarms' = Alarms /\ Changes' = Changes
        /\ AtMostOne(events, "alarm") => AtMostOne(events, "alarm")'
        /\ AtMostOne(events, "property") => AtMostOne(events, "property")'
    BY <1>1, <2>1, <2>2, EntriesAppended DEF Alarms, Changes
  <2> QED
    BY <1>1, <1>3, <1>4, <2>1, <2>3, SilentRequest
<1>5. CASE m.type = "sync"
  <2> DEFINE v == m.value
             a == Alarm(v)
  <2>1. v \in Nat /\ SetCounter(v) /\ a \in Events /\ a.type = "alarm" /\ a.value = v
    BY <1>2, <1>5, MessageFacts DEF ClientHandles, Alarm
  <2>2. pending /\ Alarms = {}
    BY <1>3, <1>5 DEF RequestInv
  <2> HIDE DEF m, v, a
  <2>3. \/ UNCHANGED events
        \/ events' = Append(events, a)
    BY <2>1 DEF SetCounter, a
  <2>4. ASSUME events' = Append(events, a)
        PROVE  /\ Changes' = Changes /\ Alarms' = {a}
               /\ AtMostOne(events, "property") => AtMostOne(events, "property")'
               /\ AtMostOne(events, "alarm")'
    <3>1. /\ Entries(Append(events, a), "alarm") = Alarms \union {a}
          /\ Alarms = {} => AtMostOne(Append(events, a), "alarm")
      BY <1>1, <2>1, EntriesAppended DEF Alarms
    <3>2. /\ Entries(Append(events, a), "property") = Changes
          /\ AtMostOne(events, "property") => AtMostOne(Append(events, a), "property")
      BY <1>1, <2>1, EntriesAppended DEF Changes
    <3> QED
      BY <2>2, <2>4, <3>1, <3>2 DEF Changes, Alarms
  <2>5. /\ Changes' = Changes /\ (AtMostOne(events, "property") => AtMostOne(events, "property")')
        /\ AtMostOne(events, "alarm")'
    <3>1. CASE UNCHANGED events
      BY <3>1 DEF Changes, RequestInv
    <3>2. CASE events' = Append(events, a)
      BY <2>4, <3>2
    <3> QED
      BY <2>3, <3>1, <3>2
  <2>6. ~Unwatched /\ ~Unwatched'
    BY <1>1, <2>2 DEF Unwatched
  <2>7. ASSUME Watched, published \in Counters PROVE Watched'
    <3>1. v = value /\ alarm.trigger <= v /\ alarm # NoAlarm /\ alarm.counter = published
          /\ counter[published] < alarm.trigger
      BY <1>3, <1>5, <2>7 DEF Watched, v
    <3>2. /\ alarm' = [alarm EXCEPT !.trigger = v + 1] /\ events' = Append(events, a)
          /\ counter' = [counter EXCEPT ![published] = v]
      BY <2>1, <2>7, <3>1 DEF SetCounter, a
    <3>3. alarm \in [counter : Counters, trigger : Nat]
      BY <3>1 DEF TypeOK
    <3>4. alarm' \in [counter : Counters, trigger : Nat] /\ alarm'.counter = published /\ alarm'.trigger = v + 1
      BY <2>1, <3>1, <3>2, <3>3
    <3>5. counter'[published] = v
      BY <2>7, <3>2 DEF TypeOK
    <3>6. Alarms' = {a}
      BY <2>4, <3>2
    <3> QED
      BY <1>1, <1>3, <1>5, <2>1, <3>1, <3>4, <3>5, <3>6, AlarmAssumption DEF Watched
  <2> QED
    BY <1>1, <1>3, <1>5, <2>2, <2>5, <2>6, <2>7 DEF RequestInv
<1> QED
  BY <1>4, <1>5

LEMMA HandleEventRequest ==
    ASSUME TypeOK, RequestInv, HandleEvent
    PROVE  RequestInv'
<1> DEFINE e == Head(events)
<1>1. /\ events # <<>> /\ events' = Tail(events) /\ events \in Seq(Events) /\ life = "open"
      /\ messages' = IF life' = "open" THEN messages ELSE <<>>
      /\ UNCHANGED <<published, republished>>
  BY DEF HandleEvent, HandleAlarm, HandlePong, HandleProperty, HandleDestroyed, TypeOK, clientVars
<1>2. AtMostOne(messages, "sync")' /\ (Syncs' = Syncs \/ (Syncs' = {} /\ life' # "open"))
  <2>1. AtMostOne(<<>>, "sync") /\ Entries(<<>>, "sync") = {}
    BY DEF AtMostOne, Entries, Typed
  <2> QED
    BY <1>1, <2>1 DEF RequestInv, Syncs
<1>3. /\ AtMostOne(events, "alarm")' /\ Alarms' = IF e.type = "alarm" THEN {} ELSE Alarms
      /\ e.type = "alarm" => Alarms = {e}
  BY <1>1, EntriesRead DEF Alarms, RequestInv
<1>4. AtMostOne(events, "property") =>
          AtMostOne(events, "property")' /\ Changes' = IF e.type = "property" THEN {} ELSE Changes
  BY <1>1, EntriesRead DEF Changes
<1>5. CASE e.type = "alarm" /\ HandleAlarm(e.value)
  <2>1. UNCHANGED <<life, value, counter, alarm>>
    BY <1>5 DEF HandleAlarm
  <2>2. Syncs' = {} /\ Alarms' = {} /\ pending
    BY <1>1, <1>2, <1>3, <1>5 DEF RequestInv
  <2>3. ~Unwatched
    BY <2>2 DEF Unwatched
  <2>4. ASSUME Watched, published \in Counters PROVE Watched'
    <3>1. ~pending'
      BY <1>3, <1>5, <2>4 DEF Watched, HandleAlarm, AckSync
    <3> QED
      BY <1>1, <2>1, <2>2, <2>4, <3>1 DEF Watched
  <2> QED
    BY <1>1, <1>2, <1>3, <1>4, <1>5, <2>1, <2>2, <2>3, <2>4 DEF RequestInv
<1>6. CASE e.type = "pong" /\ HandlePong(e.timestamp)
  <2>1. UNCHANGED <<life, enabled, pending, value, counter, alarm>>
    BY <1>6 DEF HandlePong, syncVars
  <2>2. Watched' <=> Watched
    BY <1>1, <1>2, <1>3, <1>6, <2>1 DEF Watched
  <2>3. Unwatched' <=> Unwatched
    BY <2>1 DEF Unwatched
  <2> QED
    BY <1>1, <1>2, <1>3, <1>4, <1>6, <2>1, <2>2, <2>3 DEF RequestInv
<1>7. CASE e.type = "property" /\ HandleProperty
  <2>1. UNCHANGED <<life, pending>> /\ GetSyncCounter
    BY <1>7 DEF HandleProperty
  <2>2. ASSUME Changes # {}, AtMostOne(events, "property"), Unwatched, published \in Counters PROVE Watched'
    <3>1. alarm' = [counter |-> published, trigger |-> 1] /\ value' = 0 /\ counter'[published] = 0
      BY <2>1, <2>2, CountersAssumption DEF GetSyncCounter, Unwatched, TypeOK
    <3>2. alarm' # NoAlarm /\ alarm'.counter = published /\ alarm'.trigger = 1
      BY <2>2, <3>1, AlarmAssumption
    <3>3. Syncs' = {} /\ Alarms' = {} /\ ~pending'
      BY <1>2, <1>3, <1>7, <2>1, <2>2 DEF RequestInv, Unwatched
    <3> QED
      BY <1>1, <3>1, <3>2, <3>3 DEF Watched
  <2>3. ASSUME published = NoCounter, Unwatched PROVE Unwatched'
    BY <2>1, <2>3 DEF GetSyncCounter, Unwatched
  <2>4. Changes # {}
    <3>1. 1 \in DOMAIN events /\ events[1] = e
      BY <1>1, TailFacts
    <3> QED
      BY <1>7, <3>1 DEF Changes, Entries, Typed
  <2> QED
    BY <1>1, <1>2, <1>3, <1>4, <1>7, <2>1, <2>2, <2>3, <2>4 DEF RequestInv
<1>8. CASE HandleDestroyed
  <2>1. life' = "closed" /\ UNCHANGED pending
    BY <1>8 DEF HandleDestroyed
  <2> QED
    BY <1>2, <1>3, <2>1 DEF RequestInv
<1> QED
  BY <1>5, <1>6, <1>7, <1>8 DEF HandleEvent

LEMMA NextRequest ==
    ASSUME TypeOK, RequestInv, [Next]_vars
    PROVE  RequestInv'
<1>1. CASE ClientHangs \/ ClientRecovers \/ AckSyncTimeout \/ DamageNotify \/ StartResize
           \/ FirstPingTimeout \/ FinalPingTimeout \/ PromptEnds \/ Destructor \/ UNCHANGED vars
  <2>1. /\ UNCHANGED <<messages, events, pending, value, counter, alarm, published, republished>>
        /\ (enabled' => enabled) /\ (life' = "open" => life = "open")
    BY <1>1 DEF ClientHangs, ClientRecovers, AckSyncTimeout, DamageNotify, StartResize,
       FirstPingTimeout, FinalPingTimeout, PromptEnds, Destructor, vars, syncVars, clientVars
  <2> QED
    BY <2>1, SilentRequest DEF Syncs, Alarms, Changes
<1>2. ASSUME NEW g \in Geometries, NEW cancel \in BOOLEAN, FinishResize(cancel, g) PROVE RequestInv'
  <2>1. UNCHANGED <<life, enabled, messages, events, pending, value, counter, alarm, published, republished>>
    BY <1>2 DEF FinishResize, syncVars, clientVars
  <2> QED
    BY <2>1, SilentRequest DEF Syncs, Alarms, Changes
<1>3. CASE PingWindow
  <2> DEFINE m == Ping(pingTimestamp + 1)
  <2>1. /\ UNCHANGED <<life, enabled, events, pending, value, counter, alarm, published, republished>>
        /\ messages' = Append(messages, m)
    BY <1>3 DEF PingWindow, syncVars, clientVars
  <2>2. m \in Messages /\ m.type = "ping" /\ messages \in Seq(Messages)
    BY MessageFacts DEF TypeOK
  <2> HIDE DEF m
  <2>3. Syncs' = Syncs /\ (AtMostOne(messages, "sync") => AtMostOne(messages, "sync")')
    BY <2>1, <2>2, EntriesAppended DEF Syncs
  <2> QED
    BY <2>1, <2>3, SilentRequest DEF Alarms, Changes
<1>4. CASE ClientExits
  <2>1. /\ UNCHANGED <<life, enabled, messages, pending, value, counter, alarm, published, republished>>
        /\ events' = Append(events, Destroyed)
    BY <1>4 DEF ClientExits, syncVars, clientVars
  <2>2. Destroyed \in Events /\ Destroyed.type = "destroyed" /\ events \in Seq(Events)
    BY MessageFacts DEF TypeOK
  <2>3. /\ Alarms' = Alarms /\ Changes' = Changes
        /\ AtMostOne(events, "alarm") => AtMostOne(events, "alarm")'
        /\ AtMostOne(events, "property") => AtMostOne(events, "property")'
    BY <2>1, <2>2, EntriesAppended DEF Alarms, Changes
  <2> QED
    BY <2>1, <2>3, SilentRequest DEF Syncs
<1> QED
  BY <1>1, <1>2, <1>3, <1>4, ResizeStepRequest, ClientPublishesRequest, ClientHandlesRequest,
     HandleEventRequest DEF Next

-----------------------------------------------------------------------------
(* The theorems. *)

\* The invariant holds in every state of every behaviour.
THEOREM Invariance == Spec => []Inv
<1>1. Init => Inv
  <2>1. Init => FrameFollows
    BY DEF Init, FrameFollows
  <2> QED
    BY <2>1, InitTypes, InitPing, InitRequest DEF Inv
<1>2. Inv /\ [Next]_vars => Inv'
  <2> SUFFICES ASSUME Inv, [Next]_vars PROVE Inv'
    OBVIOUS
  <2>1. TypeOK'
    BY ClientTypes, ResizeTypes, PingTypes, EventTypes DEF Inv, Next
  <2>2. FrameFollows' /\ PingInv' /\ RequestInv'
    BY NextFrame, NextPing, NextRequest DEF Inv
  <2> QED
    BY <2>1, <2>2 DEF Inv
<1> QED
  BY <1>1, <1>2, PTL DEF Spec

\* The window, its client and the queues between them keep their types.
THEOREM TypeCorrect == Spec => []TypeOK
<1>1. Inv => TypeOK
  BY DEF Inv
<1> QED
  BY <1>1, Invariance, PTL

\* A geometry the client was given by an interactive resize is never left
\* behind: the request is under way with its timeout running, whatever was
\* cancelled, answered late or republished meanwhile.
THEOREM FrameIsFollowed == Spec => []FrameFollows
<1>1. Inv => FrameFollows
  BY DEF Inv
<1> QED
  BY <1>1, Invariance, PTL

\* A client is waited for or shown as unresponsive exactly while its answer
\* to the last ping is due, however many earlier answers are still to come.
THEOREM UnansweredIsShown == Spec => []UnansweredIsKnown
<1>1. ASSUME Inv PROVE UnansweredIsKnown
  <2>1. In(Ping(pingTimestamp), messages) <=> \E i : Asked(i)
    <3>1. \A i \in DOMAIN messages : messages[i] \in Messages
      BY <1>1 DEF Inv, TypeOK
    <3>2. pingTimestamp \in Nat
      BY <1>1 DEF Inv, TypeOK
    <3>3. \A i \in DOMAIN messages : messages[i] = Ping(pingTimestamp) <=> Asked(i)
      BY <3>1, <3>2, MessageFacts DEF Asked, Pings
    <3> QED
      BY <3>3 DEF In, Asked, Pings
  <2>2. In(Pong(pingTimestamp), events) <=> \E i : Answered(i)
    <3>1. \A i \in DOMAIN events : events[i] \in Events
      BY <1>1 DEF Inv, TypeOK
    <3>2. pingTimestamp \in Nat
      BY <1>1 DEF Inv, TypeOK
    <3>3. \A i \in DOMAIN events : events[i] = Pong(pingTimestamp) <=> Answered(i)
      BY <3>1, <3>2, MessageFacts DEF Answered, Pongs
    <3> QED
      BY <3>3 DEF In, Answered, Pongs
  <2> QED
    BY <1>1, <2>1, <2>2 DEF Inv, PingInv, UnansweredIsKnown
<1> QED
  BY <1>1, Invariance, PTL

\* At most one sync request is under way, and unless the client has changed its
\* mind about the counter, the window knows of it, whatever timed out meanwhile.
THEOREM OneRequestAtATime == Spec => []OneRequestUnderWay
<1>1. ASSUME Inv PROVE OneRequestUnderWay
  <2>1. UnansweredRequests = Typed(messages, "sync") /\ (UnansweredRequests = {} <=> Syncs = {})
    BY DEF UnansweredRequests, Typed, Syncs, Entries
  <2>2. \A i, j \in UnansweredRequests : i = j
    BY <1>1, <2>1 DEF Inv, RequestInv, AtMostOne
  <2>3. In(Alarm(value), events) <=> \E e \in Alarms : e = Alarm(value)
    BY DEF In, Alarms, Entries, Typed, Alarm
  <2>4. \A e \in Alarms : e.value = value => e = Alarm(value)
    <3>1. \A i \in DOMAIN events : events[i] \in Events
      BY <1>1 DEF Inv, TypeOK
    <3> QED
      BY <3>1 DEF Alarms, Entries, Typed, Events, Alarm
  <2>5. ASSUME life = "open", ~republished, published \in Counters
        PROVE  pending <=> UnansweredRequests # {} \/ In(Alarm(value), events)
    <3>1. CASE Changes # {}
      BY <1>1, <2>1, <2>3, <2>5, <3>1 DEF Inv, RequestInv, Unwatched
    <3>2. CASE Changes = {}
      BY <1>1, <2>1, <2>3, <2>4, <2>5, <3>2 DEF Inv, RequestInv, Watched
    <3> QED
      BY <3>1, <3>2
  <2> QED
    BY <2>2, <2>5 DEF OneRequestUnderWay
<1> QED
  BY <1>1, Invariance, PTL
=============================================================================
