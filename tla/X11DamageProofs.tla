-------------------------- MODULE X11DamageProofs --------------------------
(***************************************************************************)
(* Proofs about X11Damage, for any finite set of windows and any ring of   *)
(* at least three fences.                                                  *)
(*                                                                         *)
(* That the next fence of the ring is free is a matter of the whole frame: *)
(* the fence after the one a frame has triggered is the first that         *)
(* endFrame() takes care of (RingInv).  That no damage is lost needs to be *)
(* known of the items a frame has asked for as well, which stop counting   *)
(* as damaged when the answers are there (FetchInv).                       *)
(*                                                                         *)
(* That the GPU's waits and the server's resets do not get mixed up takes  *)
(* both queues.  From one use to the next a fence is triggered once,       *)
(* signaled and reset once (FenceInv), so a fence the GPU waits for cannot *)
(* be signaled from before.  A frame that is n frames old on the side of   *)
(* the GPU waits for a fence that was triggered at most n + 1 fences ago,  *)
(* and endFrame() resets the two after the newest, the oldest of the ring  *)
(* (LagInv): so it leaves the newest MaxFences - 2 frames alone, wherever  *)
(* the GPU is.                                                             *)
(***************************************************************************)
EXTENDS X11Damage, FiniteSetTheorems, SequenceTheorems, TLAPS

Free(f) == state[f] \in {"Ready", "Resetting"}
Ending == phase \in {"ending0", "ending1"}

RingInv ==
    /\ manager = "live" /\ phase = "idle" => currentFence = NoFence
    /\ manager = "live" /\ phase \in {"idle", "fetching", "painting"} /\ currentFence = NoFence => Free(next)
    /\ manager = "live" /\ phase \in {"fetching", "painting"} /\ currentFence # NoFence => next = After(currentFence)
    /\ Ending => manager = "live"
    /\ phase = "ending1" => Free(next)

FetchInv ==
    phase = "fetching" =>
        \A w \in dirtyItems \intersect damage : notified[w] > 0 \/ OnTheWay(Fetch(w))

Inv == TypeOK /\ RingInv /\ FetchInv /\ NoDamageLost

Has(q, x)        == \E i \in DOMAIN q : q[i] = x
AtMostOnce(q, x) == \A i, j \in DOMAIN q : q[i] = x /\ q[j] = x => i = j

\* The fence is triggered, and what is rendered before it is not all done.
Triggered(f) == Has(sent, Trigger(f)) \/ Has(rendering, f)

\* A fence before and after its use, and one that is used or deleted.
Unused(f) == ~Triggered(f) /\ (Has(sent, Reset(f)) <=> f \in signaled)
Used(f)   == ~Has(sent, Reset(f)) /\ (Triggered(f) <=> f \notin signaled)

FenceInv(f) ==
    /\ AtMostOnce(sent, Trigger(f)) /\ AtMostOnce(sent, Reset(f)) /\ AtMostOnce(rendering, f)
    /\ ~(Has(sent, Trigger(f)) /\ Has(rendering, f))
    /\ IF manager = "live" /\ Free(f)
         THEN Unused(f) /\ (state[f] = "Ready" => ~Has(sent, Reset(f)))
         ELSE Used(f)
    /\ manager = "none" => f \in signaled

\* Between the start of a frame and its end on the GPU's side of the queue.
Started == phase \in {"fetching", "painting", "reinitialize"}

\* Fence f was triggered d fences before the next one, n.
Ago(n, f, d) == n = f + d \/ n = f + d - MaxFences

\* The frames of the GPU whose fences the ring does not reset yet.
Recent(i) == Len(gpu) - i < MaxFences - 2

LagInv ==
    /\ manager = "live" /\ phase \in {"fetching", "painting"} /\ currentFence # NoFence =>
           state[currentFence] = "TriggerSent"
    /\ manager = "live" =>
           \A i \in DOMAIN gpu : Recent(i) /\ gpu[i] # NoFence =>
               \E d \in 1 .. Len(gpu) - i + (IF Started THEN 2 ELSE 1) : Ago(next, gpu[i], d)
    /\ NotResetWhileWaited

FullInv == Inv /\ (\A f \in Fences : FenceInv(f)) /\ LagInv

-----------------------------------------------------------------------------
(* The ring, and sequences of requests. *)

LEMMA AfterFacts ==
    ASSUME NEW f \in Fences
    PROVE  After(f) \in Fences /\ After(f) # f
BY FencesAssumption DEF After, Fences

LEMMA SomeOrderFacts ==
    ASSUME NEW S, IsFiniteSet(S)
    PROVE  /\ SomeOrder(S) \in Seq(S)
           /\ DOMAIN SomeOrder(S) = 1 .. Cardinality(S)
           /\ \A w \in S : \E i \in DOMAIN SomeOrder(S) : SomeOrder(S)[i] = w
<1> DEFINE n == Cardinality(S)
           Covers(s) == \A w \in S : \E i \in DOMAIN s : s[i] = w
<1>1. n \in Nat /\ ExistsBijection(1 .. n, S)
  BY FS_CardinalityType
<1>2. PICK b : b \in Bijection(1 .. n, S)
  BY <1>1 DEF ExistsBijection
<1>3. b \in [1 .. n -> S] /\ Covers(b)
  BY <1>2 DEF Bijection, Injection, Surjection
<1>4. SomeOrder(S) = CHOOSE s \in [1 .. n -> S] : Covers(s)
  BY DEF SomeOrder
<1> HIDE DEF n, Covers
<1>5. SomeOrder(S) \in [1 .. n -> S] /\ Covers(SomeOrder(S))
  BY <1>3, <1>4, Zenon
<1> QED
  BY <1>1, <1>5 DEF n, Covers

LEMMA FetchesFacts ==
    ASSUME TypeOK
    PROVE  /\ Fetches \in Seq(Requests)
           /\ \A w \in isDamaged : \E i \in DOMAIN Fetches : Fetches[i] = Fetch(w)
<1> DEFINE order == SomeOrder(isDamaged)
<1>1. IsFiniteSet(isDamaged) /\ isDamaged \subseteq Windows
  BY WindowsAssumption, FS_Subset DEF TypeOK
<1>2. /\ order \in Seq(isDamaged)
      /\ \A w \in isDamaged : \E i \in DOMAIN order : order[i] = w
  BY <1>1, SomeOrderFacts, Zenon
<1>3. Len(order) \in Nat /\ DOMAIN order = 1 .. Len(order) /\ \A i \in 1 .. Len(order) : order[i] \in Windows
  BY <1>1, <1>2
<1>4. Fetches = [i \in 1 .. Len(order) |-> Fetch(order[i])]
  BY <1>3 DEF Fetches
<1> HIDE DEF order
<1>5. \A i \in 1 .. Len(order) : Fetch(order[i]) \in Requests
  BY <1>3 DEF Fetch, Requests
<1> QED
  BY <1>2, <1>3, <1>4, <1>5

LEMMA DestructorsFacts ==
    ASSUME TypeOK
    PROVE  Destructors \in Seq(Requests)
<1> DEFINE S == {f \in Fences : state[f] \in {"Ready", "Resetting"}}
           order == SomeOrder(S)
<1>1. IsFiniteSet(Fences)
  <2>1. 0 \in Int /\ MaxFences - 1 \in Int
    BY FencesAssumption
  <2> QED
    BY <2>1, FS_Interval DEF Fences
<1>2. S \subseteq Fences /\ IsFiniteSet(S)
  <2>1. S \subseteq Fences
    OBVIOUS
  <2> QED
    BY <1>1, <2>1, FS_Subset, Zenon
<1>3. order \in Seq(S)
  BY <1>2, SomeOrderFacts, Zenon
<1> HIDE DEF S
<1>3a. Len(order) \in Nat /\ DOMAIN order = 1 .. Len(order) /\ \A i \in 1 .. Len(order) : order[i] \in Fences
  BY <1>2, <1>3
<1>4. Destructors = [i \in 1 .. Len(order) |-> Trigger(order[i])]
  BY <1>3a DEF Destructors, S
<1> HIDE DEF order
<1>5. \A i \in 1 .. Len(order) : Trigger(order[i]) \in Requests
  BY <1>3a DEF Trigger, Requests
<1> QED
  BY <1>3a, <1>4, <1>5

\* What is on its way stays there while requests are sent.
LEMMA SendingKeeps ==
    ASSUME TypeOK, NEW t \in Seq(Requests), sent' = sent \o t
    PROVE  /\ sent' \in Seq(Requests)
           /\ \A r : OnTheWay(r) => OnTheWay(r)'
           /\ \A r : (\E i \in DOMAIN t : t[i] = r) => OnTheWay(r)'
<1>1. sent \in Seq(Requests)
  BY DEF TypeOK
<1>2. /\ Len(sent) \in Nat /\ Len(t) \in Nat
      /\ DOMAIN sent = 1 .. Len(sent) /\ DOMAIN t = 1 .. Len(t)
      /\ sent' \in Seq(Requests) /\ Len(sent') = Len(sent) + Len(t)
      /\ DOMAIN sent' = 1 .. Len(sent')
      /\ \A i \in 1 .. Len(sent) + Len(t) : sent'[i] = IF i <= Len(sent) THEN sent[i] ELSE t[i - Len(sent)]
  BY <1>1, ConcatProperties
<1>3. ASSUME NEW r, OnTheWay(r) PROVE OnTheWay(r)'
  BY <1>2, <1>3 DEF OnTheWay
<1>4. ASSUME NEW r, NEW i \in DOMAIN t, t[i] = r PROVE OnTheWay(r)'
  <2>1. Len(sent) + i \in DOMAIN sent' /\ sent'[Len(sent) + i] = r
    BY <1>2, <1>4
  <2> QED
    BY <2>1 DEF OnTheWay
<1> QED
  BY <1>2, <1>3, <1>4

LEMMA ProcessingKeeps ==
    ASSUME TypeOK, sent # <<>>, sent' = Tail(sent)
    PROVE  /\ Head(sent) \in Requests /\ sent' \in Seq(Requests)
           /\ \A r : OnTheWay(r) => r = Head(sent) \/ OnTheWay(r)'
<1>1. sent \in Seq(Requests)
  BY DEF TypeOK
<1>2. /\ Len(sent) \in Nat \ {0} /\ DOMAIN sent = 1 .. Len(sent)
      /\ Head(sent) = sent[1] /\ Head(sent) \in Requests
      /\ sent' \in Seq(Requests) /\ Len(sent') = Len(sent) - 1 /\ DOMAIN sent' = 1 .. Len(sent')
      /\ \A i \in 1 .. Len(sent) - 1 : sent'[i] = sent[i + 1]
  BY <1>1, HeadTailProperties
<1>3. ASSUME NEW r, OnTheWay(r) PROVE r = Head(sent) \/ OnTheWay(r)'
  <2>1. PICK i \in 1 .. Len(sent) : sent[i] = r
    BY <1>2, <1>3 DEF OnTheWay
  <2>2. CASE i = 1
    BY <1>2, <2>1, <2>2
  <2>3. CASE i # 1
    <3>1. i - 1 \in DOMAIN sent' /\ sent'[i - 1] = r
      BY <1>2, <2>1, <2>3
    <3> QED
      BY <3>1 DEF OnTheWay
  <2> QED
    BY <2>2, <2>3
<1> QED
  BY <1>2, <1>3
-----------------------------------------------------------------------------
(* The initial state, and every step. *)

LEMMA InitInv == Init => Inv
<1> SUFFICES ASSUME Init PROVE Inv
  OBVIOUS
<1>1. 0 \in Fences /\ NoFence \notin Fences
  BY FencesAssumption DEF Fences
<1>2. TypeOK
  <2>1. <<>> \in Seq(Requests) /\ <<>> \in Seq(Fences) /\ <<>> \in Seq(Fences \union {NoFence})
    OBVIOUS
  <2> QED
    BY <1>1, <2>1 DEF Init, TypeOK, Phases, FenceStates
<1>3. RingInv /\ FetchInv /\ NoDamageLost
  BY <1>1 DEF Init, RingInv, FetchInv, NoDamageLost, Free, Ending
<1> QED
  BY <1>2, <1>3 DEF Inv

LEMMA ClientDrawsStep ==
    ASSUME Inv, NEW w \in Windows, ClientDraws(w)
    PROVE  Inv'
<1> USE DEF Inv, ClientDraws, itemVars, sceneVars, syncVars
<1>1. TypeOK'
  BY DEF TypeOK
<1>2. \A v \in Windows : notified[v] \in Nat /\ notified'[v] \in Nat /\ (notified[v] > 0 => notified'[v] > 0)
  BY DEF TypeOK
<1>3. \A v \in damage' : v \in damage \/ notified'[v] > 0
  BY DEF TypeOK
<1>4. damage' \subseteq Windows /\ \A r : OnTheWay(r) <=> OnTheWay(r)'
  BY <1>1 DEF TypeOK, OnTheWay
<1>5. NoDamageLost'
  BY <1>2, <1>3, <1>4 DEF NoDamageLost
<1>6. FetchInv'
  BY <1>2, <1>3, <1>4 DEF FetchInv
<1>7. RingInv'
  BY DEF RingInv, Free, Ending
<1> QED
  BY <1>1, <1>5, <1>6, <1>7

LEMMA ServerProcessesStep ==
    ASSUME Inv, ServerProcesses
    PROVE  Inv'
<1> USE DEF Inv
<1> DEFINE r == Head(sent)
<1>1. /\ r \in Requests /\ sent' \in Seq(Requests)
      /\ \A q : OnTheWay(q) => q = r \/ OnTheWay(q)'
  BY ProcessingKeeps DEF ServerProcesses
<1>2. /\ r.op = "fetch" => r.window \in Windows
      /\ r.op \in {"trigger", "reset"} => r.fence \in Fences
      /\ r.op \in {"fetch", "trigger", "reset"}
  BY <1>1 DEF Requests
<1>3. TypeOK'
  <2>1. damage' \subseteq Windows /\ signaled' \subseteq Fences
    BY <1>2 DEF ServerProcesses, TypeOK
  <2>2. rendering' \in Seq(Fences)
    <3>1. CASE r.op = "trigger"
      BY <1>2, <3>1, AppendProperties DEF ServerProcesses, TypeOK
    <3>2. CASE r.op # "trigger"
      BY <3>2 DEF ServerProcesses, TypeOK
    <3> QED
      BY <3>1, <3>2
  <2> QED
    BY <1>1, <2>1, <2>2 DEF ServerProcesses, TypeOK, itemVars, sceneVars, syncVars
<1>4. \A w \in damage' : w \in damage /\ (OnTheWay(Fetch(w)) => OnTheWay(Fetch(w))')
  BY <1>1 DEF ServerProcesses, Fetch
<1>5. NoDamageLost' /\ FetchInv'
  BY <1>4 DEF ServerProcesses, NoDamageLost, FetchInv, itemVars
<1>6. RingInv'
  BY DEF ServerProcesses, RingInv, Free, Ending, syncVars
<1> QED
  BY <1>3, <1>5, <1>6

LEMMA RenderingStep ==
    ASSUME Inv, RenderingDone \/ GpuFinishesFrame
    PROVE  Inv'
<1> USE DEF Inv
<1>1. TypeOK'
  <2>1. CASE RenderingDone
    <3>1. Head(rendering) \in Fences /\ Tail(rendering) \in Seq(Fences)
      BY <2>1, HeadTailProperties DEF RenderingDone, TypeOK
    <3> QED
      BY <2>1, <3>1 DEF RenderingDone, TypeOK, itemVars, sceneVars, syncVars
  <2>2. CASE GpuFinishesFrame
    <3>1. Tail(gpu) \in Seq(Fences \union {NoFence})
      BY <2>2, HeadTailProperties DEF GpuFinishesFrame, TypeOK
    <3> QED
      BY <2>2, <3>1 DEF GpuFinishesFrame, TypeOK, itemVars, sceneVars, syncVars, serverVars
  <2> QED
    BY <2>1, <2>2
<1>2. /\ UNCHANGED <<phase, dirtyItems, isDamaged, manager, state, next, currentFence, sent, notified, damage>>
  BY DEF RenderingDone, GpuFinishesFrame, itemVars, syncVars, serverVars
<1>3. RingInv' /\ NoDamageLost' /\ FetchInv'
  BY <1>2 DEF RingInv, NoDamageLost, FetchInv, Free, Ending, OnTheWay
<1> QED
  BY <1>1, <1>3

LEMMA ProcessDamageStep ==
    ASSUME Inv, NEW w \in Windows, ProcessDamage(w)
    PROVE  Inv'
<1> USE DEF Inv, ProcessDamage, Idle, syncVars
<1>1. TypeOK'
  BY DEF TypeOK
<1>2. \A v \in Windows : v # w => notified'[v] = notified[v]
  BY DEF TypeOK
<1>3. \A r : OnTheWay(r) <=> OnTheWay(r)'
  BY DEF OnTheWay
<1>4. damage \subseteq Windows
  BY DEF TypeOK
<1>5. NoDamageLost'
  BY <1>2, <1>3, <1>4 DEF NoDamageLost
<1>6. FetchInv' /\ RingInv'
  BY DEF FetchInv, RingInv, Free, Ending
<1> QED
  BY <1>1, <1>5, <1>6

\* What is in sight is nothing to the server or the ring.
LEMMA SightStep ==
    ASSUME Inv, (\E w \in Windows : UpdateVisibility(w)) \/ OverlayVisibility \/ ObscuredFrame
    PROVE  Inv'
<1> USE DEF Inv
<1>1. /\ UNCHANGED <<phase, itemVars, syncVars, sent, serverVars, gpu>>
      /\ visible' \subseteq Windows /\ {overlayVisible', frameScheduled'} \subseteq BOOLEAN
  BY DEF UpdateVisibility, OverlayVisibility, ObscuredFrame, TypeOK
<1>2. TypeOK'
  BY <1>1 DEF TypeOK, itemVars, syncVars, serverVars
<1>3. RingInv' /\ NoDamageLost' /\ FetchInv'
  BY <1>1 DEF RingInv, NoDamageLost, FetchInv, Free, Ending, OnTheWay, itemVars, syncVars, serverVars
<1> QED
  BY <1>2, <1>3

LEMMA StartFrameStep ==
    ASSUME Inv, StartFrame
    PROVE  Inv'
<1> USE DEF Inv
<1> DEFINE t == IF isDamaged = {} THEN <<>> ELSE IF manager = "live" THEN Fetches \o <<Trigger(next)>> ELSE Fetches
<1>1. /\ Fetches \in Seq(Requests) /\ Len(Fetches) \in Nat /\ DOMAIN Fetches = 1 .. Len(Fetches)
      /\ \A w \in isDamaged : \E i \in DOMAIN Fetches : Fetches[i] = Fetch(w)
  BY FetchesFacts
<1>2. /\ <<Trigger(next)>> \in Seq(Requests)
      /\ Len(<<Trigger(next)>>) = 1
  BY DEF TypeOK, Trigger, Requests
<1>3. /\ Fetches \o <<Trigger(next)>> \in Seq(Requests)
      /\ \A i \in DOMAIN Fetches : i \in DOMAIN (Fetches \o <<Trigger(next)>>) /\ (Fetches \o <<Trigger(next)>>)[i] = Fetches[i]
  BY <1>1, <1>2, ConcatProperties
<1>4. /\ t \in Seq(Requests)
      /\ \A w \in isDamaged : \E i \in DOMAIN t : t[i] = Fetch(w)
  BY <1>1, <1>3
<1>5. sent' = sent \o t
  <2>1. sent \in Seq(Requests)
    BY DEF TypeOK
  <2>2. CASE isDamaged = {}
    <3>1. sent \o <<>> = sent
      BY <2>1, ConcatEmptySeq
    <3> QED
      BY <2>2, <3>1 DEF StartFrame
  <2>3. CASE isDamaged # {} /\ manager # "live"
    BY <2>3 DEF StartFrame
  <2>4. CASE isDamaged # {} /\ manager = "live"
    <3>1. sent' = (sent \o Fetches) \o <<Trigger(next)>>
      BY <2>4 DEF StartFrame
    <3>2. (sent \o Fetches) \o <<Trigger(next)>> = sent \o (Fetches \o <<Trigger(next)>>)
      BY <1>1, <1>2, <2>1, ConcatAssociative
    <3> QED
      BY <2>4, <3>1, <3>2
  <2> QED
    BY <2>2, <2>3, <2>4
<1> HIDE DEF t
<1>6. /\ sent' \in Seq(Requests)
      /\ \A r : OnTheWay(r) => OnTheWay(r)'
      /\ \A r : (\E i \in DOMAIN t : t[i] = r) => OnTheWay(r)'
  <2>1. TypeOK
    OBVIOUS
  <2> QED
    BY <1>4, <1>5, <2>1, SendingKeeps, Zenon
<1>7. next \in Fences /\ After(next) \in Fences /\ After(next) # next /\ NoFence \notin Fences
  BY AfterFacts, FencesAssumption DEF TypeOK, Fences
<1>8. TypeOK'
  BY <1>6, <1>7 DEF StartFrame, Idle, TypeOK, serverVars, Phases, FenceStates
<1>9. FetchInv'
  <2>1. \A w \in isDamaged : OnTheWay(Fetch(w))'
    BY <1>4, <1>6
  <2> QED
    BY <2>1 DEF StartFrame, FetchInv
<1>10. NoDamageLost'
  BY <1>6 DEF StartFrame, NoDamageLost, serverVars
<1>11. RingInv'
  BY <1>7 DEF StartFrame, Idle, RingInv, Free, Ending
<1> QED
  BY <1>8, <1>9, <1>10, <1>11

LEMMA WaitForDamageStep ==
    ASSUME Inv, NEW reset \in BOOLEAN, NEW unanswered \in SUBSET dirtyItems,
           WaitForDamage(reset, unanswered)
    PROVE  Inv'
<1> USE DEF Inv, WaitForDamage, sceneVars, syncVars, serverVars
<1>1. TypeOK'
  BY DEF TypeOK, Phases
<1>2. \A r : OnTheWay(r) <=> OnTheWay(r)'
  BY DEF OnTheWay
<1>3. NoDamageLost'
  BY <1>2 DEF NoDamageLost, FetchInv
<1>4. FetchInv' /\ RingInv'
  BY DEF FetchInv, RingInv, Free, Ending
<1> QED
  BY <1>1, <1>3, <1>4

LEMMA GivenFacts ==
    ASSUME TypeOK, NEW f \in Fences \union {NoFence}
    PROVE  \E kept \in Nat :
               /\ GivenToGpu(f) \in Seq(Fences \union {NoFence}) /\ Len(GivenToGpu(f)) = kept + 1
               /\ DOMAIN GivenToGpu(f) = 1 .. kept + 1
               /\ GivenToGpu(f)[kept + 1] = f
               /\ \A i \in 1 .. kept : /\ i + (Len(gpu) - kept) \in DOMAIN gpu
                                       /\ GivenToGpu(f)[i] = gpu[i + (Len(gpu) - kept)]
<1>1. /\ gpu \in Seq(Fences \union {NoFence}) /\ Len(gpu) \in Nat /\ DOMAIN gpu = 1 .. Len(gpu)
      /\ Followed \in Nat /\ Followed >= 1
  BY BoundsAssumption DEF TypeOK
<1>2. PICK t \in Seq(Fences \union {NoFence}) :
          /\ GivenToGpu(f) = Append(t, f) /\ Len(t) \in Nat
          /\ \A i \in 1 .. Len(t) : /\ i + (Len(gpu) - Len(t)) \in DOMAIN gpu
                                    /\ t[i] = gpu[i + (Len(gpu) - Len(t))]
  <2>1. CASE Len(gpu) < Followed
    BY <1>1, <2>1 DEF GivenToGpu
  <2>2. CASE ~(Len(gpu) < Followed)
    <3>1. gpu # <<>>
      BY <1>1, <2>2
    <3>2. /\ Tail(gpu) \in Seq(Fences \union {NoFence}) /\ Len(Tail(gpu)) = Len(gpu) - 1
          /\ \A i \in 1 .. Len(gpu) - 1 : Tail(gpu)[i] = gpu[i + 1]
      BY <1>1, <3>1, HeadTailProperties
    <3> DEFINE t == Tail(gpu)
    <3>3. /\ t \in Seq(Fences \union {NoFence}) /\ Len(t) = Len(gpu) - 1
          /\ \A i \in 1 .. Len(gpu) - 1 : t[i] = gpu[i + 1]
      BY <3>2
    <3>4. GivenToGpu(f) = Append(t, f)
      BY <2>2 DEF GivenToGpu
    <3> HIDE DEF t
    <3>5. Len(t) \in Nat /\ Len(gpu) - Len(t) = 1
      BY <1>1, <2>2, <3>3
    <3>6. \A i \in 1 .. Len(t) : i + 1 \in DOMAIN gpu /\ t[i] = gpu[i + 1]
      BY <1>1, <3>3
    <3> QED
      BY <3>3, <3>4, <3>5, <3>6
  <2> QED
    BY <2>1, <2>2
<1>3. /\ Append(t, f) \in Seq(Fences \union {NoFence}) /\ Len(Append(t, f)) = Len(t) + 1
      /\ DOMAIN Append(t, f) = 1 .. Len(t) + 1
      /\ \A i \in 1 .. Len(t) : Append(t, f)[i] = t[i]
      /\ Append(t, f)[Len(t) + 1] = f
  BY <1>2, AppendProperties
<1> QED
  BY <1>2, <1>3

LEMMA PaintStep ==
    ASSUME Inv, NEW items \in SUBSET pending, Paint(items)
    PROVE  Inv'
<1> USE DEF Inv
<1> DEFINE f == IF items = {} THEN NoFence ELSE WaitedFence
<1>1. f \in Fences \union {NoFence} /\ (f # NoFence => f = currentFence /\ manager = "live")
  BY DEF TypeOK, WaitedFence
<1>2. /\ gpu' = GivenToGpu(f)
      /\ state' = IF f # NoFence /\ state[f] = "TriggerSent" THEN [state EXCEPT ![f] = "Waiting"] ELSE state
      /\ phase = "painting"
      /\ phase' = IF manager = "live" /\ currentFence # NoFence THEN "ending0" ELSE "idle"
      /\ pending' = pending \ items
      /\ UNCHANGED <<dirtyItems, isDamaged, visible, overlayVisible, frameScheduled, manager, next,
                     currentFence, sent, notified, damage, rendering, signaled>>
  BY DEF Paint, serverVars, sceneVars
<1> HIDE DEF f
<1>3. gpu' \in Seq(Fences \union {NoFence})
  BY <1>1, <1>2, GivenFacts
<1>4. state' \in [Fences -> FenceStates]
  BY <1>1, <1>2, FencesAssumption DEF TypeOK, FenceStates
<1>5. TypeOK'
  BY <1>2, <1>3, <1>4 DEF TypeOK, Phases
<1>6. RingInv'
  BY <1>1, <1>2 DEF RingInv, Free, Ending
<1>7. NoDamageLost' /\ FetchInv'
  BY <1>2 DEF NoDamageLost, FetchInv, OnTheWay
<1> QED
  BY <1>5, <1>6, <1>7

LEMMA EndFrameStep ==
    ASSUME Inv, EndFrame
    PROVE  Inv'
<1> USE DEF Inv
<1> DEFINE f == EndingFence
<1>1. /\ Ending /\ manager = "live" /\ f \in Fences /\ next \in Fences
      /\ (phase = "ending0" => f = next) /\ (phase = "ending1" => f # next)
  BY AfterFacts DEF EndFrame, EndReady, EndSignaled, EndResetting, EndingFence, RingInv, Ending, TypeOK
<1>2. /\ NextFence
      /\ state' \in [Fences -> FenceStates]
      /\ state'[f] \in {"Ready", "Resetting"}
      /\ \A g \in Fences : g # f => state'[g] = state[g]
  BY <1>1 DEF EndFrame, EndReady, EndSignaled, EndResetting, SendReset, TypeOK, FenceStates
<1>3. UNCHANGED <<dirtyItems, pending, isDamaged, manager, next, notified, damage, rendering, signaled, gpu>>
  BY DEF EndFrame, EndReady, EndSignaled, EndResetting, itemVars, serverVars
<1>3a. UNCHANGED <<visible, overlayVisible, frameScheduled>>
  BY DEF EndFrame, EndReady, EndSignaled, EndResetting, sceneVars
<1>4. sent' \in Seq(Requests) /\ \A r : OnTheWay(r) => OnTheWay(r)'
  <2>1. CASE EndSignaled
    <3>1. Reset(f) \in Requests /\ sent \in Seq(Requests) /\ <<Reset(f)>> \in Seq(Requests)
      BY <1>1 DEF Reset, Requests, TypeOK
    <3>2. sent' = sent \o <<Reset(f)>>
      BY <2>1, <3>1, AppendIsConcat DEF EndSignaled, SendReset
    <3> QED
      BY <3>1, <3>2, SendingKeeps
  <2>2. CASE EndReady \/ EndResetting
    BY <2>2 DEF EndReady, EndResetting, TypeOK, OnTheWay
  <2> QED
    BY <2>1, <2>2 DEF EndFrame
<1>5. TypeOK'
  BY <1>2, <1>3, <1>3a, <1>4 DEF TypeOK, NextFence, Phases
<1>6. RingInv'
  BY <1>1, <1>2, <1>3 DEF RingInv, Free, Ending, NextFence
<1>7. NoDamageLost' /\ FetchInv'
  BY <1>2, <1>3, <1>4 DEF NoDamageLost, FetchInv, NextFence
<1> QED
  BY <1>5, <1>6, <1>7

LEMMA TeardownStep ==
    ASSUME Inv, EndTimesOut \/ ManagerDeleted \/ Stop
    PROVE  Inv'
<1> USE DEF Inv
<1>1. sent' \in Seq(Requests) /\ \A r : OnTheWay(r) => OnTheWay(r)'
  <2>1. CASE sent' = sent \o Destructors
    BY <2>1, DestructorsFacts, SendingKeeps
  <2>2. CASE sent' = sent
    BY <2>2 DEF TypeOK, OnTheWay
  <2> QED
    BY <2>1, <2>2 DEF EndTimesOut, ManagerDeleted, Stop, DeleteManager, syncVars
<1>2. /\ UNCHANGED <<dirtyItems, pending, isDamaged, visible, overlayVisible, frameScheduled,
                     state, next, currentFence, notified, damage, rendering, signaled, gpu>>
      /\ manager' \in {"deleting", "none"} \/ (manager' = manager /\ manager # "live")
      /\ phase' \in {"idle", "restart", phase}
      /\ (phase' = phase => ManagerDeleted)
      /\ ManagerDeleted => manager = "deleting"
  BY DEF EndTimesOut, ManagerDeleted, Stop, DeleteManager, itemVars, sceneVars, syncVars, serverVars, TypeOK
<1>3. TypeOK'
  BY <1>1, <1>2 DEF TypeOK, Phases
<1>4. RingInv'
  BY <1>2 DEF RingInv, Ending
<1>5. NoDamageLost' /\ FetchInv'
  BY <1>1, <1>2 DEF NoDamageLost, FetchInv
<1> QED
  BY <1>3, <1>4, <1>5

LEMMA StartStep ==
    ASSUME Inv, Start
    PROVE  Inv'
<1> USE DEF Inv, Start, NewManager
<1>1. 0 \in Fences /\ NoFence \notin Fences
  BY FencesAssumption DEF Fences
<1>2. TypeOK'
  <2>1. <<>> \in Seq(Fences) /\ <<>> \in Seq(Fences \union {NoFence})
    OBVIOUS
  <2> QED
    BY <1>1, <2>1 DEF TypeOK, Phases, FenceStates
<1>3. NoDamageLost'
  BY DEF NoDamageLost, TypeOK
<1>4. FetchInv' /\ RingInv'
  BY <1>1 DEF FetchInv, RingInv, Free, Ending
<1> QED
  BY <1>2, <1>3, <1>4

LEMMA NextInv == Inv /\ [Next]_vars => Inv'
<1> SUFFICES ASSUME Inv, [Next]_vars PROVE Inv'
  OBVIOUS
<1>1. ASSUME NEW w \in Windows, ClientDraws(w) PROVE Inv'
  BY <1>1, ClientDrawsStep
<1>2. ASSUME ServerProcesses PROVE Inv'
  BY <1>2, ServerProcessesStep
<1>3. ASSUME RenderingDone \/ GpuFinishesFrame PROVE Inv'
  BY <1>3, RenderingStep
<1>4. ASSUME NEW w \in Windows, ProcessDamage(w) PROVE Inv'
  BY <1>4, ProcessDamageStep
<1>5. ASSUME StartFrame PROVE Inv'
  BY <1>5, StartFrameStep
<1>6. ASSUME NEW reset \in BOOLEAN, NEW unanswered \in SUBSET dirtyItems,
             WaitForDamage(reset, unanswered)
      PROVE  Inv'
  BY <1>6, WaitForDamageStep
<1>6a. ASSUME (\E w \in Windows : UpdateVisibility(w)) \/ OverlayVisibility \/ ObscuredFrame PROVE Inv'
  BY <1>6a, SightStep
<1>7. ASSUME NEW items \in SUBSET pending, Paint(items) PROVE Inv'
  BY <1>7, PaintStep
<1>8. ASSUME EndFrame PROVE Inv'
  BY <1>8, EndFrameStep
<1>9. ASSUME EndTimesOut \/ ManagerDeleted \/ Stop PROVE Inv'
  BY <1>9, TeardownStep
<1>10. ASSUME Start PROVE Inv'
  BY <1>10, StartStep
<1>11. ASSUME UNCHANGED vars PROVE Inv'
  BY <1>11 DEF vars, itemVars, sceneVars, syncVars, serverVars, Inv, TypeOK, RingInv, FetchInv, NoDamageLost, Free, Ending, OnTheWay
<1> QED
  BY <1>1, <1>2, <1>3, <1>4, <1>5, <1>6, <1>6a, <1>7, <1>8, <1>9, <1>10, <1>11 DEF Next, MainThread

-----------------------------------------------------------------------------
(* What is in a queue, and how often. *)

LEMMA HasAppended ==
    ASSUME NEW S, NEW q \in Seq(S), NEW e \in S, NEW x
    PROVE  /\ Has(Append(q, e), x) <=> Has(q, x) \/ x = e
           /\ AtMostOnce(q, x) /\ (x = e => ~Has(q, x)) => AtMostOnce(Append(q, e), x)
<1>1. /\ Len(q) \in Nat /\ DOMAIN q = 1 .. Len(q)
      /\ Len(Append(q, e)) = Len(q) + 1 /\ DOMAIN Append(q, e) = 1 .. Len(q) + 1
      /\ \A i \in 1 .. Len(q) : Append(q, e)[i] = q[i]
      /\ Append(q, e)[Len(q) + 1] = e
  BY AppendProperties
<1> DEFINE n == Len(q) + 1
<1>2. /\ n \in DOMAIN Append(q, e) /\ Append(q, e)[n] = e
      /\ \A i : i \in DOMAIN Append(q, e) => i = n \/ i \in DOMAIN q
      /\ \A i \in DOMAIN q : i \in DOMAIN Append(q, e) /\ Append(q, e)[i] = q[i]
  BY <1>1
<1> HIDE DEF n
<1> QED
  BY <1>2 DEF Has, AtMostOnce

LEMMA HasTail ==
    ASSUME NEW S, NEW q \in Seq(S), q # <<>>, NEW x
    PROVE  /\ Has(q, Head(q))
           /\ AtMostOnce(q, x) => AtMostOnce(Tail(q), x) /\ (Has(Tail(q), x) <=> Has(q, x) /\ x # Head(q))
<1>1. /\ Len(q) \in Nat \ {0} /\ DOMAIN q = 1 .. Len(q)
      /\ Head(q) = q[1]
      /\ Len(Tail(q)) = Len(q) - 1 /\ DOMAIN Tail(q) = 1 .. Len(q) - 1
      /\ \A i \in 1 .. Len(q) - 1 : Tail(q)[i] = q[i + 1]
  BY HeadTailProperties
<1>2. 1 \in DOMAIN q /\ \A i \in DOMAIN Tail(q) : i + 1 \in DOMAIN q /\ i + 1 # 1 /\ Tail(q)[i] = q[i + 1] /\ i \in Nat
  BY <1>1
<1>3. \A j \in DOMAIN q : j # 1 => \E i \in DOMAIN Tail(q) : Tail(q)[i] = q[j]
  <2> SUFFICES ASSUME NEW j \in DOMAIN q, j # 1 PROVE \E i \in DOMAIN Tail(q) : Tail(q)[i] = q[j]
    OBVIOUS
  <2>1. j - 1 \in 1 .. Len(q) - 1 /\ (j - 1) + 1 = j
    BY <1>1
  <2>2. Tail(q)[j - 1] = q[(j - 1) + 1]
    BY <1>1, <2>1, Zenon
  <2> QED
    BY <1>1, <2>1, <2>2
<1>4. Has(q, Head(q))
  BY <1>1, <1>2 DEF Has
<1>5. ASSUME AtMostOnce(q, x) PROVE AtMostOnce(Tail(q), x)
  <2> SUFFICES ASSUME NEW i \in DOMAIN Tail(q), NEW j \in DOMAIN Tail(q), Tail(q)[i] = x, Tail(q)[j] = x
               PROVE  i = j
    BY DEF AtMostOnce
  <2>1. i + 1 = j + 1 /\ i \in Nat /\ j \in Nat
    BY <1>2, <1>5 DEF AtMostOnce
  <2> QED
    BY <2>1
<1>6. ASSUME AtMostOnce(q, x) PROVE Has(Tail(q), x) <=> Has(q, x) /\ x # Head(q)
  <2>1. ASSUME Has(Tail(q), x) PROVE Has(q, x) /\ x # Head(q)
    <3>1. PICK i \in DOMAIN Tail(q) : Tail(q)[i] = x
      BY <2>1 DEF Has
    <3>2. i + 1 \in DOMAIN q /\ i + 1 # 1 /\ q[i + 1] = x
      BY <1>2, <3>1
    <3> QED
      BY <1>1, <1>2, <1>6, <3>2 DEF Has, AtMostOnce
  <2>2. ASSUME Has(q, x), x # Head(q) PROVE Has(Tail(q), x)
    BY <1>1, <1>3, <2>2 DEF Has
  <2> QED
    BY <2>1, <2>2
<1> QED
  BY <1>4, <1>5, <1>6

LEMMA HasConcat ==
    ASSUME NEW S, NEW q \in Seq(S), NEW t \in Seq(S), NEW x
    PROVE  /\ Has(q \o t, x) <=> Has(q, x) \/ Has(t, x)
           /\ AtMostOnce(q, x) /\ ~Has(t, x) => AtMostOnce(q \o t, x)
           /\ AtMostOnce(t, x) /\ ~Has(q, x) => AtMostOnce(q \o t, x)
<1>1. /\ Len(q) \in Nat /\ Len(t) \in Nat
      /\ DOMAIN q = 1 .. Len(q) /\ DOMAIN t = 1 .. Len(t) /\ DOMAIN (q \o t) = 1 .. Len(q) + Len(t)
      /\ \A i \in 1 .. Len(q) + Len(t) : (q \o t)[i] = IF i <= Len(q) THEN q[i] ELSE t[i - Len(q)]
  BY ConcatProperties
<1>2. \A i \in DOMAIN (q \o t) : \/ i \in DOMAIN q /\ (q \o t)[i] = q[i]
                                 \/ i \notin DOMAIN q /\ i - Len(q) \in DOMAIN t /\ (q \o t)[i] = t[i - Len(q)]
  BY <1>1
<1>3. /\ \A i \in DOMAIN q : i \in DOMAIN (q \o t) /\ (q \o t)[i] = q[i]
      /\ \A i \in DOMAIN t : Len(q) + i \in DOMAIN (q \o t) /\ (q \o t)[Len(q) + i] = t[i]
  BY <1>1
<1>4. Has(q \o t, x) <=> Has(q, x) \/ Has(t, x)
  BY <1>2, <1>3 DEF Has
<1>5. ASSUME AtMostOnce(q, x), ~Has(t, x) PROVE AtMostOnce(q \o t, x)
  BY <1>2, <1>5 DEF Has, AtMostOnce
<1>6. ASSUME AtMostOnce(t, x), ~Has(q, x) PROVE AtMostOnce(q \o t, x)
  <2> SUFFICES ASSUME NEW i \in DOMAIN (q \o t), NEW j \in DOMAIN (q \o t), (q \o t)[i] = x, (q \o t)[j] = x
               PROVE  i = j
    BY DEF AtMostOnce
  <2>1. i - Len(q) \in DOMAIN t /\ j - Len(q) \in DOMAIN t /\ t[i - Len(q)] = x /\ t[j - Len(q)] = x
    BY <1>2, <1>6 DEF Has
  <2>2. i - Len(q) = j - Len(q)
    BY <1>6, <2>1 DEF AtMostOnce
  <2> QED
    BY <1>1, <2>2
<1> QED
  BY <1>4, <1>5, <1>6

LEMMA RequestFacts ==
    /\ \A f, g : Trigger(f) # Reset(g) /\ (Trigger(f) = Trigger(g) => f = g) /\ (Reset(f) = Reset(g) => f = g)
    /\ \A f, w : Trigger(f) # Fetch(w) /\ Reset(f) # Fetch(w)
    /\ \A r \in Requests : \/ r.op = "trigger" /\ r.fence \in Fences /\ r = Trigger(r.fence)
                           \/ r.op = "reset" /\ r.fence \in Fences /\ r = Reset(r.fence)
                           \/ r.op = "fetch" /\ r = Fetch(r.window)
    /\ \A f \in Fences : Trigger(f) \in Requests /\ Reset(f) \in Requests
<1>1. \A f, g : Trigger(f) # Reset(g) /\ (Trigger(f) = Trigger(g) => f = g) /\ (Reset(f) = Reset(g) => f = g)
  <2> SUFFICES ASSUME NEW f, NEW g
               PROVE  Trigger(f) # Reset(g) /\ (Trigger(f) = Trigger(g) => f = g) /\ (Reset(f) = Reset(g) => f = g)
    OBVIOUS
  <2>1. Trigger(f).op = "trigger" /\ Trigger(f).fence = f /\ Trigger(g).fence = g
        /\ Reset(g).op = "reset" /\ Reset(g).fence = g /\ Reset(f).fence = f
    BY DEF Trigger, Reset
  <2> QED
    BY <2>1
<1>2. \A f, w : Trigger(f) # Fetch(w) /\ Reset(f) # Fetch(w)
  <2> SUFFICES ASSUME NEW f, NEW w PROVE Trigger(f) # Fetch(w) /\ Reset(f) # Fetch(w)
    OBVIOUS
  <2>1. Trigger(f).op = "trigger" /\ Reset(f).op = "reset" /\ Fetch(w).op = "fetch"
    BY DEF Trigger, Reset, Fetch
  <2> QED
    BY <2>1
<1>3. \A r \in Requests : \/ r.op = "trigger" /\ r.fence \in Fences /\ r = Trigger(r.fence)
                          \/ r.op = "reset" /\ r.fence \in Fences /\ r = Reset(r.fence)
                          \/ r.op = "fetch" /\ r = Fetch(r.window)
  BY DEF Requests, Trigger, Reset, Fetch
<1>4. \A f \in Fences : Trigger(f) \in Requests /\ Reset(f) \in Requests
  BY DEF Requests, Trigger, Reset
<1> QED
  BY <1>1, <1>2, <1>3, <1>4

\* A sequence that names every member of a set and is no longer than the set names
\* none of them twice.
LEMMA SomeOrderInjective ==
    ASSUME NEW S, IsFiniteSet(S), NEW i \in DOMAIN SomeOrder(S), NEW j \in DOMAIN SomeOrder(S),
           SomeOrder(S)[i] = SomeOrder(S)[j]
    PROVE  i = j
<1> DEFINE n == Cardinality(S)
           s == SomeOrder(S)
<1>1. n \in Nat
  BY FS_CardinalityType
<1>2. s \in Seq(S) /\ DOMAIN s = 1 .. n /\ \A w \in S : \E k \in DOMAIN s : s[k] = w
  BY SomeOrderFacts, Zenon
<1>3. Len(s) \in Nat /\ DOMAIN s = 1 .. Len(s) /\ s \in [1 .. Len(s) -> S]
  BY <1>2
<1> HIDE DEF s
<1>4. s \in [1 .. n -> S]
  BY <1>2, <1>3
<1>5. s \in Surjection(1 .. n, S)
  BY <1>2, <1>4 DEF Surjection
<1>6. IsFiniteSet(1 .. n) /\ Cardinality(1 .. n) = n
  <2>1. 1 \in Int /\ n \in Int
    BY <1>1
  <2> QED
    BY <1>1, <2>1, FS_Interval
<1>7. s \in Injection(1 .. n, S)
  BY <1>5, <1>6, FS_Surjection
<1> QED
  BY <1>2, <1>7 DEF Injection, IsInjective, s

LEMMA FetchesQuiet ==
    \A f : ~Has(Fetches, Trigger(f)) /\ ~Has(Fetches, Reset(f))
BY RequestFacts DEF Has, Fetches

LEMMA DestructorsTrigger ==
    ASSUME TypeOK, NEW f \in Fences
    PROVE  /\ Has(Destructors, Trigger(f)) <=> Free(f)
           /\ AtMostOnce(Destructors, Trigger(f)) /\ ~Has(Destructors, Reset(f))
<1> DEFINE S == {g \in Fences : state[g] \in {"Ready", "Resetting"}}
           order == SomeOrder(S)
<1>1. IsFiniteSet(S)
  <2>1. 0 \in Int /\ MaxFences - 1 \in Int
    BY FencesAssumption
  <2>2. IsFiniteSet(Fences)
    BY <2>1, FS_Interval DEF Fences
  <2>3. S \subseteq Fences
    OBVIOUS
  <2> QED
    BY <2>2, <2>3, FS_Subset, Zenon
<1>2. order \in Seq(S) /\ \A g \in S : \E i \in DOMAIN order : order[i] = g
  BY <1>1, SomeOrderFacts, Zenon
<1>3. \A i, j \in DOMAIN order : order[i] = order[j] => i = j
  BY <1>1, SomeOrderInjective, Zenon
<1>4. Destructors = [i \in DOMAIN order |-> Trigger(order[i])]
  BY DEF Destructors
<1>5. \A i \in DOMAIN order : order[i] \in S
  BY <1>2
<1>6. f \in S <=> Free(f)
  BY DEF Free
<1> HIDE DEF S, order
<1>7. DOMAIN Destructors = DOMAIN order /\ \A i \in DOMAIN order : Destructors[i] = Trigger(order[i])
  BY <1>4
<1>8. \A i \in DOMAIN order : Destructors[i] = Trigger(f) <=> order[i] = f
  BY <1>7, RequestFacts
<1>9. Has(Destructors, Trigger(f)) <=> Free(f)
  BY <1>2, <1>5, <1>6, <1>7, <1>8 DEF Has
<1>10. AtMostOnce(Destructors, Trigger(f)) /\ ~Has(Destructors, Reset(f))
  BY <1>3, <1>7, <1>8, RequestFacts DEF Has, AtMostOnce
<1> QED
  BY <1>9, <1>10

-----------------------------------------------------------------------------
(* A fence on its way round: triggered once, signaled, reset once.           *)

LEMMA InitFence ==
    ASSUME Init, NEW f \in Fences
    PROVE  FenceInv(f)
BY DEF Init, FenceInv, Unused, Triggered, Free, Has, AtMostOnce

\* Steps that neither trigger nor reset fence f, on either side.
LEMMA FenceKept ==
    ASSUME NEW f \in Fences, FenceInv(f), UNCHANGED <<manager, rendering, signaled>>,
           Has(sent, Trigger(f))' <=> Has(sent, Trigger(f)),
           Has(sent, Reset(f))' <=> Has(sent, Reset(f)),
           AtMostOnce(sent, Trigger(f)) => AtMostOnce(sent, Trigger(f))',
           AtMostOnce(sent, Reset(f)) => AtMostOnce(sent, Reset(f))',
           \/ state'[f] = state[f]
           \/ ~Free(f) /\ ~Free(f)'
           \/ Free(f) /\ Free(f)' /\ ~Has(sent, Reset(f))
    PROVE  FenceInv(f)'
BY DEF FenceInv, Unused, Used, Triggered, Free

LEMMA ServerProcessesFence ==
    ASSUME TypeOK, NEW f \in Fences, FenceInv(f), ServerProcesses
    PROVE  FenceInv(f)'
<1> DEFINE r == Head(sent)
<1>1. sent \in Seq(Requests) /\ sent # <<>> /\ sent' = Tail(sent) /\ rendering \in Seq(Fences) /\ r \in Requests
  BY HeadTailProperties DEF ServerProcesses, TypeOK
<1>2. /\ AtMostOnce(sent, Trigger(f))' /\ AtMostOnce(sent, Reset(f))'
      /\ Has(sent, Trigger(f))' <=> Has(sent, Trigger(f)) /\ Trigger(f) # r
      /\ Has(sent, Reset(f))' <=> Has(sent, Reset(f)) /\ Reset(f) # r
      /\ Has(sent, r)
  BY <1>1, HasTail DEF FenceInv
<1>3. /\ UNCHANGED <<manager, state>>
      /\ rendering' = IF r.op = "trigger" THEN Append(rendering, r.fence) ELSE rendering
      /\ signaled' = IF r.op = "reset" THEN signaled \ {r.fence} ELSE signaled
  BY DEF ServerProcesses, syncVars
<1> HIDE DEF r
<1>4. CASE r.op = "trigger"
  <2>1. r.fence \in Fences /\ r = Trigger(r.fence) /\ signaled' = signaled
    BY <1>1, <1>3, <1>4, RequestFacts
  <2>2. /\ Has(rendering, f)' <=> Has(rendering, f) \/ f = r.fence
        /\ AtMostOnce(rendering, f) /\ (f = r.fence => ~Has(rendering, f)) => AtMostOnce(rendering, f)'
    BY <1>1, <1>3, <1>4, <2>1, HasAppended
  <2>3. CASE f = r.fence
    <3>1. Has(sent, Trigger(f)) /\ ~Has(rendering, f) /\ Trigger(f) = r /\ Reset(f) # r
      BY <1>2, <2>1, <2>3, RequestFacts DEF FenceInv
    <3> QED
      BY <1>2, <1>3, <2>1, <2>2, <2>3, <3>1 DEF FenceInv, Unused, Used, Triggered, Free
  <2>4. CASE f # r.fence
    <3>1. Trigger(f) # r /\ Reset(f) # r
      BY <2>1, <2>4, RequestFacts
    <3> QED
      BY <1>2, <1>3, <2>1, <2>2, <2>4, <3>1 DEF FenceInv, Unused, Used, Triggered, Free
  <2> QED
    BY <2>3, <2>4
<1>5. CASE r.op = "reset"
  <2>1. r.fence \in Fences /\ r = Reset(r.fence) /\ signaled' = signaled \ {r.fence} /\ rendering' = rendering
    BY <1>1, <1>3, <1>5, RequestFacts
  <2>2. CASE f = r.fence
    <3>1. Has(sent, Reset(f)) /\ Trigger(f) # r /\ Reset(f) = r /\ f \notin signaled'
      BY <1>2, <2>1, <2>2, RequestFacts
    <3> QED
      BY <1>2, <1>3, <2>1, <3>1 DEF FenceInv, Unused, Used, Triggered, Free
  <2>3. CASE f # r.fence
    <3>1. Trigger(f) # r /\ Reset(f) # r /\ (f \in signaled' <=> f \in signaled)
      BY <2>1, <2>3, RequestFacts
    <3> QED
      BY <1>2, <1>3, <2>1, <3>1 DEF FenceInv, Unused, Used, Triggered, Free
  <2> QED
    BY <2>2, <2>3
<1>6. CASE r.op = "fetch"
  <2>1. r = Fetch(r.window) /\ signaled' = signaled /\ rendering' = rendering
    BY <1>1, <1>3, <1>6, RequestFacts
  <2>2. Trigger(f) # r /\ Reset(f) # r
    BY <2>1, RequestFacts
  <2> QED
    BY <1>2, <1>3, <2>1, <2>2, FenceKept
<1> QED
  BY <1>1, <1>4, <1>5, <1>6, RequestFacts

LEMMA RenderingDoneFence ==
    ASSUME TypeOK, NEW f \in Fences, FenceInv(f), RenderingDone
    PROVE  FenceInv(f)'
<1>1. /\ rendering \in Seq(Fences) /\ rendering # <<>> /\ rendering' = Tail(rendering)
      /\ signaled' = signaled \union {Head(rendering)} /\ UNCHANGED <<manager, state, sent>>
  BY DEF RenderingDone, syncVars, TypeOK
<1>2. /\ AtMostOnce(rendering, f)' /\ Has(rendering, Head(rendering))
      /\ Has(rendering, f)' <=> Has(rendering, f) /\ f # Head(rendering)
  BY <1>1, HasTail DEF FenceInv
<1>3. CASE f = Head(rendering)
  BY <1>1, <1>2, <1>3 DEF FenceInv, Unused, Used, Triggered, Free
<1>4. CASE f # Head(rendering)
  BY <1>1, <1>2, <1>4 DEF FenceInv, Unused, Used, Triggered, Free
<1> QED
  BY <1>3, <1>4

LEMMA StartFrameFence ==
    ASSUME TypeOK, NEW f \in Fences, FenceInv(f), StartFrame
    PROVE  FenceInv(f)'
<1>1. /\ sent \in Seq(Requests) /\ Fetches \in Seq(Requests) /\ next \in Fences
      /\ UNCHANGED <<manager, rendering, signaled>>
  BY FetchesFacts DEF StartFrame, serverVars, TypeOK
<1>2. sent \o Fetches \in Seq(Requests)
  BY <1>1, ConcatProperties
<1>3. /\ Has(sent \o Fetches, Trigger(f)) <=> Has(sent, Trigger(f))
      /\ Has(sent \o Fetches, Reset(f)) <=> Has(sent, Reset(f))
      /\ AtMostOnce(sent \o Fetches, Trigger(f)) /\ AtMostOnce(sent \o Fetches, Reset(f))
  BY <1>1, HasConcat, FetchesQuiet DEF FenceInv
<1>4. CASE isDamaged = {}
  BY <1>1, <1>4, FenceKept DEF StartFrame
<1>5. CASE isDamaged # {} /\ manager # "live"
  <2>1. sent' = sent \o Fetches /\ state' = state
    BY <1>5 DEF StartFrame
  <2> QED
    BY <1>1, <1>3, <2>1, FenceKept
<1>6. CASE isDamaged # {} /\ manager = "live"
  <2> DEFINE q == sent \o Fetches
             t == <<Trigger(next)>>
  <2>1. /\ sent' = q \o t /\ state' = [state EXCEPT ![next] = "TriggerSent"] /\ FenceFree(next)
    BY <1>6 DEF StartFrame
  <2>2. t \in Seq(Requests) /\ AtMostOnce(t, Trigger(f)) /\ ~Has(t, Reset(f))
        /\ (Has(t, Trigger(f)) <=> f = next)
    BY <1>1, RequestFacts DEF Has, AtMostOnce
  <2> HIDE DEF q, t
  <2>3. /\ Has(q \o t, Trigger(f)) <=> Has(sent, Trigger(f)) \/ f = next
        /\ Has(q \o t, Reset(f)) <=> Has(sent, Reset(f))
        /\ f = next /\ ~Has(sent, Trigger(f)) => AtMostOnce(q \o t, Trigger(f))
        /\ f # next => AtMostOnce(q \o t, Trigger(f))
        /\ AtMostOnce(q \o t, Reset(f))
    <3>1. /\ Has(q, Trigger(f)) <=> Has(sent, Trigger(f))
          /\ Has(q, Reset(f)) <=> Has(sent, Reset(f))
          /\ AtMostOnce(q, Trigger(f)) /\ AtMostOnce(q, Reset(f)) /\ q \in Seq(Requests)
      BY <1>2, <1>3 DEF q
    <3>2. /\ Has(q \o t, Trigger(f)) <=> Has(q, Trigger(f)) \/ Has(t, Trigger(f))
          /\ AtMostOnce(q, Trigger(f)) /\ ~Has(t, Trigger(f)) => AtMostOnce(q \o t, Trigger(f))
          /\ AtMostOnce(t, Trigger(f)) /\ ~Has(q, Trigger(f)) => AtMostOnce(q \o t, Trigger(f))
      BY <2>2, <3>1, HasConcat, Zenon
    <3>3. /\ Has(q \o t, Reset(f)) <=> Has(q, Reset(f)) \/ Has(t, Reset(f))
          /\ AtMostOnce(q, Reset(f)) /\ ~Has(t, Reset(f)) => AtMostOnce(q \o t, Reset(f))
      BY <2>2, <3>1, HasConcat, Zenon
    <3> QED
      BY <2>2, <3>1, <3>2, <3>3
  <2>4. CASE f = next
    <3>1. Free(f) /\ (state[f] = "Resetting" => ~Has(sent, Reset(f)))
      BY <2>1, <2>4 DEF FenceFree, Free, OnTheWay, Has
    <3>2. ~Has(sent, Reset(f)) /\ ~Triggered(f) /\ f \notin signaled
      BY <1>6, <3>1 DEF FenceInv, Unused, Free
    <3>3. ~Free(f)'
      BY <1>1, <2>1, <2>4 DEF Free, TypeOK
    <3> QED
      BY <1>1, <1>6, <2>1, <2>3, <2>4, <3>2, <3>3 DEF FenceInv, Used, Triggered
  <2>5. CASE f # next
    <3>1. state'[f] = state[f]
      BY <1>1, <2>1, <2>5 DEF TypeOK
    <3> QED
      BY <1>1, <2>1, <2>3, <2>5, <3>1, FenceKept DEF FenceInv
  <2> QED
    BY <2>4, <2>5
<1> QED
  BY <1>4, <1>5, <1>6

LEMMA PaintFence ==
    ASSUME TypeOK, NEW f \in Fences, FenceInv(f), NEW items \in SUBSET pending, Paint(items)
    PROVE  FenceInv(f)'
<1>1. UNCHANGED <<manager, sent, rendering, signaled>>
  BY DEF Paint, serverVars
<1>2. state'[f] = state[f] \/ (state[f] = "TriggerSent" /\ state'[f] = "Waiting")
  BY FencesAssumption DEF Paint, WaitedFence, TypeOK, Fences
<1> QED
  BY <1>1, <1>2, FenceKept DEF Free

LEMMA EndFrameFence ==
    ASSUME TypeOK, RingInv, NEW f \in Fences, FenceInv(f), EndFrame
    PROVE  FenceInv(f)'
<1> DEFINE g == EndingFence
<1>1. UNCHANGED <<manager, rendering, signaled>> /\ manager = "live" /\ g \in Fences /\ sent \in Seq(Requests)
  BY AfterFacts DEF EndFrame, EndReady, EndSignaled, EndResetting, serverVars, RingInv, Ending, TypeOK, EndingFence
<1>2. CASE EndReady
  BY <1>1, <1>2, FenceKept DEF EndReady
<1>3. CASE EndResetting
  <2>1. /\ state' = [state EXCEPT ![g] = "Ready"] /\ sent' = sent /\ state[g] = "Resetting"
        /\ ~Has(sent, Reset(g))
    BY <1>3 DEF EndResetting, OnTheWay, Has
  <2> HIDE DEF g
  <2>2. state'[f] = state[f] \/ (f = g /\ Free(f) /\ Free(f)')
    BY <1>1, <2>1 DEF TypeOK, Free
  <2> QED
    BY <1>1, <2>1, <2>2, FenceKept
<1>4. CASE EndSignaled
  <2>1. /\ state' = [state EXCEPT ![g] = "Resetting"] /\ sent' = Append(sent, Reset(g))
        /\ state[g] \in {"TriggerSent", "Waiting"} /\ g \in signaled
    BY <1>4 DEF EndSignaled, SendReset
  <2> HIDE DEF g
  <2>2. /\ Has(sent, Trigger(f))' <=> Has(sent, Trigger(f)) \/ Trigger(f) = Reset(g)
        /\ Has(sent, Reset(f))' <=> Has(sent, Reset(f)) \/ Reset(f) = Reset(g)
        /\ AtMostOnce(sent, Trigger(f)) /\ (Trigger(f) = Reset(g) => ~Has(sent, Trigger(f)))
             => AtMostOnce(sent, Trigger(f))'
        /\ AtMostOnce(sent, Reset(f)) /\ (Reset(f) = Reset(g) => ~Has(sent, Reset(f)))
             => AtMostOnce(sent, Reset(f))'
    BY <1>1, <2>1, RequestFacts, HasAppended
  <2>3. Trigger(f) # Reset(g) /\ (Reset(f) = Reset(g) <=> f = g)
    BY RequestFacts
  <2>4. CASE f = g
    <3>1. state'[f] = "Resetting" /\ ~Free(f)
      BY <1>1, <2>1, <2>4 DEF TypeOK, Free
    <3>2. Used(f) /\ ~Triggered(f) /\ ~Has(sent, Reset(f)) /\ f \in signaled
      BY <2>1, <2>4, <3>1 DEF FenceInv, Used
    <3> QED
      BY <1>1, <2>2, <2>3, <2>4, <3>1, <3>2 DEF FenceInv, Unused, Triggered, Free
  <2>5. CASE f # g
    <3>1. state'[f] = state[f]
      BY <1>1, <2>1, <2>5 DEF TypeOK
    <3> QED
      BY <1>1, <2>2, <2>3, <2>5, <3>1, FenceKept
  <2> QED
    BY <2>4, <2>5
<1> QED
  BY <1>2, <1>3, <1>4 DEF EndFrame

\* The destructor triggers the fences that are not, so that all of them will be
\* signaled.
LEMMA TeardownFence ==
    ASSUME TypeOK, RingInv, NEW f \in Fences, FenceInv(f), EndTimesOut \/ ManagerDeleted \/ Stop
    PROVE  FenceInv(f)'
<1>1. UNCHANGED <<state, rendering, signaled>> /\ sent \in Seq(Requests)
  BY DEF EndTimesOut, ManagerDeleted, Stop, DeleteManager, syncVars, serverVars, TypeOK
<1>2. ASSUME DeleteManager, manager = "live" PROVE FenceInv(f)'
  <2>1. sent' = sent \o Destructors /\ manager' = "deleting" /\ Destructors \in Seq(Requests)
    BY <1>2, DestructorsFacts DEF DeleteManager
  <2>2. /\ Has(sent, Trigger(f))' <=> Has(sent, Trigger(f)) \/ Free(f)
        /\ Has(sent, Reset(f))' <=> Has(sent, Reset(f))
        /\ ~Free(f) \/ ~Has(sent, Trigger(f)) => AtMostOnce(sent, Trigger(f))'
        /\ AtMostOnce(sent, Reset(f))'
    <3>1. /\ Has(Destructors, Trigger(f)) <=> Free(f)
          /\ AtMostOnce(Destructors, Trigger(f)) /\ ~Has(Destructors, Reset(f))
      BY DestructorsTrigger
    <3>2. /\ Has(sent \o Destructors, Trigger(f)) <=> Has(sent, Trigger(f)) \/ Has(Destructors, Trigger(f))
          /\ AtMostOnce(sent, Trigger(f)) /\ ~Has(Destructors, Trigger(f)) => AtMostOnce(sent \o Destructors, Trigger(f))
          /\ AtMostOnce(Destructors, Trigger(f)) /\ ~Has(sent, Trigger(f)) => AtMostOnce(sent \o Destructors, Trigger(f))
      BY <1>1, <2>1, HasConcat
    <3>3. /\ Has(sent \o Destructors, Reset(f)) <=> Has(sent, Reset(f)) \/ Has(Destructors, Reset(f))
          /\ AtMostOnce(sent, Reset(f)) /\ ~Has(Destructors, Reset(f)) => AtMostOnce(sent \o Destructors, Reset(f))
      BY <1>1, <2>1, HasConcat
    <3> QED
      BY <2>1, <3>1, <3>2, <3>3 DEF FenceInv
  <2>3. CASE Free(f)
    <3>1. state[f] = "Resetting" => ~Has(sent, Reset(f))
      BY <1>2 DEF DeleteManager, OnTheWay, Has
    <3>2. ~Has(sent, Reset(f)) /\ ~Triggered(f) /\ f \notin signaled
      BY <1>2, <2>3, <3>1 DEF FenceInv, Unused, Free
    <3> QED
      BY <1>1, <2>1, <2>2, <2>3, <3>2 DEF FenceInv, Used, Triggered
  <2>4. CASE ~Free(f)
    BY <1>1, <1>2, <2>1, <2>2, <2>4 DEF FenceInv, Used, Triggered
  <2> QED
    BY <2>3, <2>4
<1>3. CASE EndTimesOut
  BY <1>2, <1>3 DEF EndTimesOut, RingInv, Ending
<1>4. CASE Stop
  <2>1. CASE manager = "live"
    BY <1>2, <1>4, <2>1 DEF Stop
  <2>2. CASE manager # "live"
    BY <1>1, <1>4, <2>2, FenceKept DEF Stop, syncVars
  <2> QED
    BY <2>1, <2>2
<1>5. CASE ManagerDeleted
  BY <1>1, <1>5 DEF ManagerDeleted, FenceInv, Used, Triggered
<1> QED
  BY <1>3, <1>4, <1>5

LEMMA StartFence ==
    ASSUME TypeOK, NEW f \in Fences, FenceInv(f), Start
    PROVE  FenceInv(f)'
<1>1. /\ manager = "none" /\ manager' = "live" /\ state'[f] = "Ready" /\ sent' = sent
      /\ rendering' = <<>> /\ signaled' = {}
  BY DEF Start, NewManager
<1>2. f \in signaled /\ Used(f)
  BY <1>1 DEF FenceInv
<1>3. ~Has(sent, Trigger(f)) /\ ~Has(sent, Reset(f))
  BY <1>2 DEF Used, Triggered
<1>4. ~Has(rendering', f) /\ AtMostOnce(rendering', f)
  BY <1>1 DEF Has, AtMostOnce
<1> QED
  BY <1>1, <1>3, <1>4 DEF FenceInv, Unused, Triggered, Free

LEMMA FenceStep ==
    ASSUME TypeOK, RingInv, NEW f \in Fences, FenceInv(f), [Next]_vars
    PROVE  FenceInv(f)'
<1>1. CASE \/ \E w \in Windows : ClientDraws(w) \/ ProcessDamage(w) \/ UpdateVisibility(w)
           \/ OverlayVisibility \/ ObscuredFrame
           \/ \E reset \in BOOLEAN, unanswered \in SUBSET dirtyItems : WaitForDamage(reset, unanswered)
           \/ GpuFinishesFrame \/ UNCHANGED vars
  <2>1. UNCHANGED <<manager, state, sent, rendering, signaled>>
    BY <1>1 DEF ClientDraws, ProcessDamage, UpdateVisibility, OverlayVisibility, ObscuredFrame,
       WaitForDamage, GpuFinishesFrame, vars, syncVars, serverVars
  <2> QED
    BY <2>1, FenceKept
<1> QED
  BY <1>1, ServerProcessesFence, RenderingDoneFence, StartFrameFence, PaintFence, EndFrameFence,
     TeardownFence, StartFence DEF Next, MainThread

-----------------------------------------------------------------------------
(* The fences the GPU waits for are the last ones, and the ring resets the   *)
(* ones after them.                                                          *)

LEMMA AfterIs ==
    ASSUME NEW f \in Fences
    PROVE  After(f) = IF f = MaxFences - 1 THEN 0 ELSE f + 1
<1>1. f \in Nat /\ f <= MaxFences - 1 /\ MaxFences \in Nat \ {0}
  BY FencesAssumption DEF Fences
<1>2. CASE f = MaxFences - 1
  <2>1. f + 1 = MaxFences
    BY <1>1, <1>2
  <2>2. MaxFences % MaxFences = 0
    BY <1>1
  <2> QED
    BY <1>2, <2>1, <2>2 DEF After
<1>3. CASE f # MaxFences - 1
  <2>1. f + 1 \in 0 .. MaxFences - 1
    BY <1>1, <1>3
  <2>2. (f + 1) % MaxFences = f + 1
    BY <1>1, <2>1
  <2> QED
    BY <1>3, <2>2 DEF After
<1> QED
  BY <1>2, <1>3

LEMMA AgoNext ==
    ASSUME TypeOK, NEW f \in Fences, NEW d \in Nat, d < MaxFences, Ago(next, f, d), next' = After(next)
    PROVE  Ago(next', f, d + 1)
<1>1. next \in Fences /\ MaxFences \in Nat
  BY FencesAssumption DEF TypeOK
<1>2. next' = IF next = MaxFences - 1 THEN 0 ELSE next + 1
  BY <1>1, AfterIs
<1> QED
  BY <1>1, <1>2 DEF Ago, Fences

LEMMA AgoEnding ==
    ASSUME TypeOK, NEW f \in Fences, NEW d \in 1 .. MaxFences - 2, Ago(next, f, d)
    PROVE  f # next /\ f # After(next)
<1>1. next \in Fences /\ MaxFences \in Nat
  BY FencesAssumption DEF TypeOK
<1>2. After(next) = IF next = MaxFences - 1 THEN 0 ELSE next + 1
  BY <1>1, AfterIs
<1> QED
  BY <1>1, <1>2 DEF Ago, Fences

LEMMA GpuFacts ==
    ASSUME TypeOK
    PROVE  /\ Len(gpu) \in Nat /\ DOMAIN gpu = 1 .. Len(gpu)
           /\ \A i \in DOMAIN gpu : gpu[i] # NoFence => gpu[i] \in Fences
           /\ MaxFences \in Nat /\ MaxFences >= 3
BY FencesAssumption DEF TypeOK

\* Steps that leave the ring and the frames of the GPU alone and send no reset.
LEMMA LagKept ==
    ASSUME TypeOK, LagInv, UNCHANGED <<gpu, next>>,
           manager' = "live" => manager = "live",
           Started' => Started,
           Started /\ ~Started' => manager' # "live",
           manager' = "live" /\ phase' \in {"fetching", "painting"} =>
               phase \in {"fetching", "painting"} /\ UNCHANGED <<currentFence, state>>,
           \A f \in Fences : Has(sent, Reset(f))' => Has(sent, Reset(f))
    PROVE  LagInv'
<1>1. /\ Len(gpu) \in Nat
      /\ \A i \in DOMAIN gpu : gpu[i] # NoFence => gpu[i] \in Fences
  BY GpuFacts
<1>2. NotResetWhileWaited'
  BY <1>1 DEF LagInv, NotResetWhileWaited, OnTheWay, Has
<1>3. ASSUME manager' = "live", NEW i \in DOMAIN gpu', Len(gpu') - i < MaxFences - 2, gpu'[i] # NoFence
      PROVE  \E d \in 1 .. Len(gpu') - i + (IF Started' THEN 2 ELSE 1) : Ago(next', gpu'[i], d)
  BY <1>3 DEF LagInv, Ago, Recent
<1> QED
  BY <1>2, <1>3 DEF LagInv, Recent

LEMMA GpuFinishesFrameLag ==
    ASSUME TypeOK, LagInv, GpuFinishesFrame
    PROVE  LagInv'
<1>1. gpu # <<>> /\ gpu' = Tail(gpu) /\ UNCHANGED <<phase, manager, state, next, currentFence, sent>>
  BY DEF GpuFinishesFrame, syncVars
<1>2. /\ Len(gpu) \in Nat \ {0} /\ DOMAIN gpu = 1 .. Len(gpu)
      /\ Len(gpu') = Len(gpu) - 1 /\ DOMAIN gpu' = 1 .. Len(gpu) - 1
      /\ \A i \in 1 .. Len(gpu) - 1 : gpu'[i] = gpu[i + 1]
  BY <1>1, GpuFacts, HeadTailProperties DEF TypeOK
<1>3. \A i \in DOMAIN gpu' : i + 1 \in DOMAIN gpu /\ gpu'[i] = gpu[i + 1] /\ i \in Nat
                             /\ Len(gpu') - i = Len(gpu) - (i + 1)
                             /\ (Len(gpu') - i < MaxFences - 2 => Recent(i + 1))
  BY <1>2 DEF Recent
<1>4. NotResetWhileWaited'
  <2> SUFFICES ASSUME NEW i \in DOMAIN gpu', Len(gpu') - i < MaxFences - 2, gpu'[i] # NoFence
               PROVE  ~Has(sent', Reset(gpu'[i]))
    BY DEF NotResetWhileWaited, OnTheWay, Has
  <2>1. i + 1 \in DOMAIN gpu /\ gpu'[i] = gpu[i + 1] /\ Len(gpu) - (i + 1) < MaxFences - 2
    BY <1>3
  <2>2. ~Has(sent, Reset(gpu[i + 1]))
    BY <2>1 DEF LagInv, NotResetWhileWaited, OnTheWay, Has
  <2> QED
    BY <1>1, <2>1, <2>2
<1>5. ASSUME manager' = "live", NEW i \in DOMAIN gpu', Len(gpu') - i < MaxFences - 2, gpu'[i] # NoFence
      PROVE  \E d \in 1 .. Len(gpu') - i + (IF Started' THEN 2 ELSE 1) : Ago(next', gpu'[i], d)
  BY <1>1, <1>3, <1>5 DEF LagInv, Ago, Started
<1> QED
  BY <1>1, <1>4, <1>5 DEF LagInv, Recent

LEMMA StartFrameLag ==
    ASSUME TypeOK, RingInv, LagInv, StartFrame
    PROVE  LagInv'
<1>1. /\ UNCHANGED <<gpu, manager>> /\ ~Started /\ Started' /\ phase' = "fetching"
      /\ phase = "idle"
  BY DEF StartFrame, Idle, Started
<1>2. /\ Len(gpu) \in Nat /\ DOMAIN gpu = 1 .. Len(gpu) /\ MaxFences \in Nat
      /\ \A i \in DOMAIN gpu : gpu[i] # NoFence => gpu[i] \in Fences
  BY GpuFacts
<1>3. \A f \in Fences : Has(sent, Reset(f))' <=> Has(sent, Reset(f))
  <2> SUFFICES ASSUME NEW f \in Fences PROVE Has(sent, Reset(f))' <=> Has(sent, Reset(f))
    OBVIOUS
  <2>1. sent \in Seq(Requests) /\ Fetches \in Seq(Requests) /\ next \in Fences
    BY FetchesFacts DEF TypeOK
  <2>2. sent \o Fetches \in Seq(Requests)
    BY <2>1, ConcatProperties
  <2>3. Has(sent \o Fetches, Reset(f)) <=> Has(sent, Reset(f))
    BY <2>1, HasConcat, FetchesQuiet
  <2>4. <<Trigger(next)>> \in Seq(Requests) /\ ~Has(<<Trigger(next)>>, Reset(f))
    BY <2>1, RequestFacts DEF Has
  <2>5. Has((sent \o Fetches) \o <<Trigger(next)>>, Reset(f)) <=> Has(sent \o Fetches, Reset(f))
    BY <2>2, <2>4, HasConcat
  <2>6. sent' \in {sent, sent \o Fetches, (sent \o Fetches) \o <<Trigger(next)>>}
    BY DEF StartFrame
  <2> QED
    BY <2>3, <2>5, <2>6
<1>4. NotResetWhileWaited'
  BY <1>1, <1>2, <1>3 DEF LagInv, NotResetWhileWaited, OnTheWay, Has
<1>5. next' = next \/ next' = After(next)
  BY DEF StartFrame
<1>6. ASSUME manager' = "live", NEW i \in DOMAIN gpu', Len(gpu') - i < MaxFences - 2, gpu'[i] # NoFence
      PROVE  \E d \in 1 .. Len(gpu') - i + 2 : Ago(next', gpu'[i], d)
  <2>0. Recent(i)
    BY <1>1, <1>6 DEF Recent
  <2>1. PICK d \in 1 .. Len(gpu) - i + 1 : Ago(next, gpu[i], d)
    BY <1>1, <1>6, <2>0 DEF LagInv
  <2>2. i \in Nat /\ i >= 1 /\ d \in Nat /\ d < MaxFences /\ gpu[i] \in Fences
    BY <1>1, <1>2, <1>6, <2>0 DEF Recent
  <2>3. CASE next' = next
    <3>1. Ago(next', gpu'[i], d) /\ d \in 1 .. Len(gpu') - i + 2
      BY <1>1, <1>2, <2>1, <2>2, <2>3 DEF Ago
    <3> QED
      BY <3>1
  <2>4. CASE next' = After(next)
    <3>1. Ago(next', gpu[i], d + 1)
      BY <2>1, <2>2, <2>4, AgoNext
    <3>2. d + 1 \in 1 .. Len(gpu') - i + 2 /\ gpu'[i] = gpu[i]
      BY <1>1, <1>2, <2>1, <2>2
    <3> QED
      BY <3>1, <3>2 DEF Ago
  <2> QED
    BY <1>5, <2>3, <2>4
<1>7. ASSUME manager' = "live", currentFence' # NoFence PROVE state'[currentFence'] = "TriggerSent"
  <2>1. CASE isDamaged = {}
    BY <1>1, <1>7, <2>1 DEF StartFrame, RingInv
  <2>2. CASE isDamaged # {}
    BY <1>1, <1>7, <2>2 DEF StartFrame, TypeOK
  <2> QED
    BY <2>1, <2>2
<1> QED
  BY <1>1, <1>2, <1>4, <1>6, <1>7 DEF LagInv, Recent

LEMMA PaintLag ==
    ASSUME TypeOK, RingInv, \A f \in Fences : FenceInv(f), LagInv, NEW items \in SUBSET pending, Paint(items)
    PROVE  LagInv'
<1> DEFINE w == IF items = {} THEN NoFence ELSE WaitedFence
<1>1. /\ w \in Fences \union {NoFence} /\ gpu' = GivenToGpu(w)
      /\ w # NoFence => manager = "live" /\ w = currentFence
      /\ Started /\ ~Started' /\ phase = "painting" /\ phase' \in {"ending0", "idle"}
      /\ UNCHANGED <<manager, next, currentFence, sent>>
  BY DEF Paint, WaitedFence, Started, TypeOK
<1> HIDE DEF w
<1>2. PICK kept \in Nat :
      /\ Len(gpu) \in Nat /\ DOMAIN gpu' = 1 .. kept + 1 /\ gpu'[kept + 1] = w
      /\ Len(gpu') = kept + 1
      /\ \A i \in 1 .. kept : /\ i + (Len(gpu) - kept) \in DOMAIN gpu
                             /\ gpu'[i] = gpu[i + (Len(gpu) - kept)]
  BY <1>1, GivenFacts, GpuFacts
<1> DEFINE older == Len(gpu) - kept
<1>2a. older = Len(gpu) - kept /\ older \in Int
  BY <1>2
<1>2b. \A i \in 1 .. kept : i + older \in DOMAIN gpu /\ gpu'[i] = gpu[i + older]
  BY <1>2
<1> HIDE DEF older
<1>3. \A i \in DOMAIN gpu' : \/ /\ i + older \in DOMAIN gpu /\ gpu'[i] = gpu[i + older]
                                /\ Len(gpu) - (i + older) = Len(gpu') - i - 1
                             \/ i = Len(gpu') /\ gpu'[i] = w
  <2> SUFFICES ASSUME NEW i \in 1 .. kept + 1
               PROVE  \/ /\ i + older \in DOMAIN gpu /\ gpu'[i] = gpu[i + older]
                         /\ Len(gpu) - (i + older) = Len(gpu') - i - 1
                      \/ i = Len(gpu') /\ gpu'[i] = w
    BY <1>2
  <2>1. CASE i = kept + 1
    BY <1>2, <2>1
  <2>2. CASE i # kept + 1
    <3>1. i \in 1 .. kept /\ Len(gpu) - (i + older) = (kept + 1) - i - 1
      BY <1>2, <1>2a, <2>2
    <3> QED
      BY <1>2, <1>2b, <3>1
  <2> QED
    BY <2>1, <2>2
<1>4. w # NoFence => w \in Fences /\ next = After(w) /\ state[w] = "TriggerSent"
  BY <1>1 DEF RingInv, LagInv
<1>5. w # NoFence => ~Has(sent, Reset(w))
  BY <1>4 DEF FenceInv, Used, Free
<1>5a. \A i \in DOMAIN gpu' : i \in Int
  BY <1>2
<1>6. NotResetWhileWaited'
  <2> SUFFICES ASSUME NEW i \in DOMAIN gpu', Len(gpu') - i < MaxFences - 2, gpu'[i] # NoFence
               PROVE  ~Has(sent', Reset(gpu'[i]))
    BY DEF NotResetWhileWaited, OnTheWay, Has
  <2>1. CASE gpu'[i] = w
    BY <1>1, <1>5, <2>1
  <2>2. CASE /\ i + older \in DOMAIN gpu /\ gpu'[i] = gpu[i + older]
             /\ Len(gpu) - (i + older) = Len(gpu') - i - 1
    <3>1. Len(gpu) - (i + older) < MaxFences - 2
      BY <1>2, <1>5a, <2>2, GpuFacts
    <3>2. ~OnTheWay(Reset(gpu[i + older]))
      BY <2>2, <3>1 DEF LagInv, NotResetWhileWaited
    <3> QED
      BY <1>1, <2>2, <3>2 DEF OnTheWay, Has
  <2> QED
    BY <1>3, <2>1, <2>2
<1>7. ASSUME manager' = "live", NEW i \in DOMAIN gpu', Len(gpu') - i < MaxFences - 2, gpu'[i] # NoFence
      PROVE  \E d \in 1 .. Len(gpu') - i + 1 : Ago(next', gpu'[i], d)
  <2>1. CASE /\ i + older \in DOMAIN gpu /\ gpu'[i] = gpu[i + older]
             /\ Len(gpu) - (i + older) = Len(gpu') - i - 1
    <3>0. Recent(i + older)
      BY <1>2, <1>5a, <1>7, <2>1, GpuFacts DEF Recent
    <3>1. PICK d \in 1 .. Len(gpu) - (i + older) + 2 : Ago(next, gpu[i + older], d)
      BY <1>1, <1>7, <2>1, <3>0 DEF LagInv
    <3>2. d \in 1 .. Len(gpu') - i + 1
      BY <1>2, <1>5a, <2>1
    <3> QED
      BY <1>1, <2>1, <3>1, <3>2 DEF Ago
  <2>2. CASE i = Len(gpu') /\ gpu'[i] = w
    <3>1. next = (IF w = MaxFences - 1 THEN 0 ELSE w + 1) /\ w \in Int /\ MaxFences \in Int
      BY <1>4, <1>7, <2>2, AfterIs, FencesAssumption DEF Fences
    <3>2. Ago(next', w, 1)
      BY <1>1, <3>1 DEF Ago
    <3>3. 1 \in 1 .. Len(gpu') - i + 1
      BY <1>2, <2>2
    <3> QED
      BY <2>2, <3>2, <3>3 DEF Ago
  <2> QED
    BY <1>3, <2>1, <2>2
<1> QED
  BY <1>1, <1>6, <1>7 DEF LagInv, Recent

LEMMA EndFrameLag ==
    ASSUME TypeOK, RingInv, LagInv, EndFrame
    PROVE  LagInv'
<1>1. /\ UNCHANGED <<gpu, next, manager>> /\ ~Started /\ ~Started' /\ phase' \notin {"fetching", "painting"}
      /\ manager = "live" /\ Ending
  BY DEF EndFrame, EndReady, EndSignaled, EndResetting, NextFence, Started, RingInv, Ending
<1>2. CASE EndReady \/ EndResetting
  <2>1. UNCHANGED sent
    BY <1>2 DEF EndReady, EndResetting
  <2> QED
    BY <1>1, <2>1, LagKept DEF Has
<1>3. CASE EndSignaled
  <2> DEFINE g == EndingFence
  <2>1. sent' = Append(sent, Reset(g)) /\ g \in {next, After(next)} /\ g \in Fences /\ sent \in Seq(Requests)
    BY <1>3, AfterFacts DEF EndSignaled, SendReset, EndingFence, TypeOK
  <2> HIDE DEF g
  <2>2. \A f \in Fences : Has(sent, Reset(f))' <=> Has(sent, Reset(f)) \/ f = g
    <3> SUFFICES ASSUME NEW f \in Fences PROVE Has(sent, Reset(f))' <=> Has(sent, Reset(f)) \/ f = g
      OBVIOUS
    <3>1. Reset(g) \in Requests /\ (Reset(f) = Reset(g) <=> f = g)
      BY <2>1, RequestFacts
    <3> QED
      BY <2>1, <3>1, HasAppended
  <2>3. /\ Len(gpu) \in Nat /\ DOMAIN gpu = 1 .. Len(gpu) /\ MaxFences \in Nat
        /\ \A i \in DOMAIN gpu : gpu[i] # NoFence => gpu[i] \in Fences
    BY GpuFacts
  <2>4. \A i \in DOMAIN gpu : Recent(i) /\ gpu[i] # NoFence => gpu[i] # g
    <3> SUFFICES ASSUME NEW i \in DOMAIN gpu, Recent(i), gpu[i] # NoFence PROVE gpu[i] # g
      OBVIOUS
    <3>1. PICK d \in 1 .. Len(gpu) - i + 1 : Ago(next, gpu[i], d)
      BY <1>1 DEF LagInv
    <3>2. d \in 1 .. MaxFences - 2 /\ gpu[i] \in Fences
      BY <2>3 DEF Recent
    <3> QED
      BY <2>1, <3>1, <3>2, AgoEnding
  <2>5. NotResetWhileWaited'
    <3> SUFFICES ASSUME NEW i \in DOMAIN gpu', Len(gpu') - i < MaxFences - 2, gpu'[i] # NoFence
                 PROVE  ~Has(sent', Reset(gpu'[i]))
      BY DEF NotResetWhileWaited, OnTheWay, Has
    <3>1. gpu' = gpu /\ gpu[i] \in Fences /\ gpu[i] # g /\ ~Has(sent, Reset(gpu[i]))
      BY <1>1, <2>3, <2>4 DEF LagInv, NotResetWhileWaited, OnTheWay, Has, Recent
    <3> QED
      BY <2>2, <3>1 DEF OnTheWay, Has
  <2> QED
    BY <1>1, <2>5 DEF LagInv, Ago, Recent
<1> QED
  BY <1>2, <1>3 DEF EndFrame

LEMMA LagStep ==
    ASSUME Inv, \A f \in Fences : FenceInv(f), LagInv, [Next]_vars
    PROVE  LagInv'
<1>1. TypeOK /\ RingInv
  BY DEF Inv
<1>2. CASE \/ \E w \in Windows : ClientDraws(w) \/ ProcessDamage(w) \/ UpdateVisibility(w)
           \/ OverlayVisibility \/ ObscuredFrame
           \/ RenderingDone \/ UNCHANGED vars
           \/ \E reset \in BOOLEAN, unanswered \in SUBSET dirtyItems : WaitForDamage(reset, unanswered)
  <2>1. /\ UNCHANGED <<gpu, next, manager, currentFence, state, sent>> /\ (Started <=> Started')
        /\ phase' \in {"fetching", "painting"} => phase \in {"fetching", "painting"}
    BY <1>2 DEF ClientDraws, ProcessDamage, UpdateVisibility, OverlayVisibility, ObscuredFrame,
       RenderingDone, WaitForDamage, vars, syncVars, serverVars, Started
  <2> QED
    BY <1>1, <2>1, LagKept DEF Has
<1>3. CASE ServerProcesses
  <2>1. /\ UNCHANGED <<gpu, next, manager, currentFence, state, phase>>
        /\ sent \in Seq(Requests) /\ sent # <<>> /\ sent' = Tail(sent)
    BY <1>1, <1>3 DEF ServerProcesses, syncVars, TypeOK
  <2>2. \A f \in Fences : Has(sent, Reset(f))' => Has(sent, Reset(f))
    BY <2>1, HasTail DEF FenceInv
  <2> QED
    BY <1>1, <2>1, <2>2, LagKept DEF Started
<1>4. CASE EndTimesOut \/ ManagerDeleted \/ Stop
  <2>1. /\ UNCHANGED <<gpu, next>> /\ manager' # "live"
        /\ Started' => Started
    BY <1>1, <1>4 DEF EndTimesOut, ManagerDeleted, Stop, DeleteManager, Started, serverVars, syncVars
  <2>2. \A f \in Fences : Has(sent, Reset(f))' => Has(sent, Reset(f))
    <3> SUFFICES ASSUME NEW f \in Fences PROVE Has(sent, Reset(f))' => Has(sent, Reset(f))
      OBVIOUS
    <3>1. Has(sent \o Destructors, Reset(f)) <=> Has(sent, Reset(f))
      BY <1>1, DestructorsFacts, DestructorsTrigger, HasConcat DEF TypeOK
    <3>2. sent' \in {sent, sent \o Destructors}
      BY <1>4 DEF EndTimesOut, ManagerDeleted, Stop, DeleteManager, syncVars
    <3> QED
      BY <3>1, <3>2
  <2> QED
    BY <1>1, <2>1, <2>2, LagKept
<1>5. CASE Start
  <2>1. gpu' = <<>> /\ phase' = "idle"
    BY <1>5 DEF Start
  <2> QED
    BY <2>1 DEF LagInv, NotResetWhileWaited
<1> QED
  BY <1>1, <1>2, <1>3, <1>4, <1>5, GpuFinishesFrameLag, StartFrameLag, PaintLag, EndFrameLag DEF Next, MainThread

-----------------------------------------------------------------------------
(* The theorems. *)

\* What the other theorems follow from, in every reachable state.
THEOREM Invariance == Spec => []FullInv
<1>1. Init => FullInv
  <2> SUFFICES ASSUME Init PROVE FullInv
    OBVIOUS
  <2>1. Inv /\ \A f \in Fences : FenceInv(f)
    BY InitInv, InitFence
  <2>2. LagInv
    BY DEF Init, LagInv, NotResetWhileWaited
  <2> QED
    BY <2>1, <2>2 DEF FullInv
<1>2. FullInv /\ [Next]_vars => FullInv'
  <2> SUFFICES ASSUME FullInv, [Next]_vars PROVE FullInv'
    OBVIOUS
  <2>1. Inv'
    BY NextInv DEF FullInv
  <2>2. \A f \in Fences : FenceInv(f)'
    BY FenceStep DEF FullInv, Inv
  <2>3. LagInv'
    BY LagStep DEF FullInv
  <2> QED
    BY <2>1, <2>2, <2>3 DEF FullInv
<1> QED
  BY <1>1, <1>2, PTL DEF Spec

\* Every variable keeps its type: the cursor stays in the ring, and the X server
\* is only sent requests about fences and windows there are.
THEOREM TypeCorrect == Spec => []TypeOK
<1>1. FullInv => TypeOK
  BY DEF FullInv, Inv
<1> QED
  BY <1>1, Invariance, PTL

\* The assertion of X11SyncObject::trigger() cannot fail: when a frame starts, the
\* next fence of the ring is ready or being reset.
THEOREM FenceIsFree == Spec => []NextFenceFree
<1>1. FullInv => NextFenceFree
  BY DEF FullInv, Inv, RingInv, NextFenceFree, Free
<1> QED
  BY <1>1, Invariance, PTL

\* What a client has drawn is never forgotten: the X server will tell, or the item
\* knows, or the region is on its way.
THEOREM DamageIsKept == Spec => []NoDamageLost
<1>1. FullInv => NoDamageLost
  BY DEF FullInv, Inv
<1> QED
  BY <1>1, Invariance, PTL

\* The GPU never gets past a fence because of an earlier use: while a trigger is on
\* its way or what is rendered before it is not done, the fence is not signaled.
THEOREM FenceIsNotStale == Spec => []NoPrematureWait
<1>1. FullInv => NoPrematureWait
  <2> SUFFICES ASSUME FullInv, NEW i \in DOMAIN gpu, gpu[i] \in signaled
               PROVE  ~OnTheWay(Trigger(gpu[i])) /\ \A j \in DOMAIN rendering : rendering[j] # gpu[i]
    BY DEF NoPrematureWait
  <2>1. gpu[i] \in Fences
    BY DEF FullInv, Inv, TypeOK
  <2>2. ~Triggered(gpu[i])
    BY <2>1 DEF FullInv, FenceInv, Used, Unused
  <2> QED
    BY <2>2 DEF Triggered, Has, OnTheWay
<1> QED
  BY <1>1, Invariance, PTL

\* No fence is reset under a GPU that waits for it in one of the newest frames it
\* was given, as many as the ring has fences besides the two that endFrame()
\* resets, however far behind the GPU is.
THEOREM FenceIsKept == Spec => []NotResetWhileWaited
<1>1. FullInv => NotResetWhileWaited
  BY DEF FullInv, LagInv
<1> QED
  BY <1>1, Invariance, PTL
=============================================================================
