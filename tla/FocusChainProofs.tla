------------------------- MODULE FocusChainProofs -------------------------
(***************************************************************************)
(* Proofs about FocusChain, for any windows, applications and desktops.    *)
(*                                                                         *)
(* What a chain offers depends on the order of its windows, but what is    *)
(* true of the chains does not: the proofs look at the set of windows in a *)
(* chain (ChainsRight), and at every operation as putting a window into    *)
(* the chains where it belongs and taking it out of the others (Put), or   *)
(* as moving it within them (Moved).                                       *)
(*                                                                         *)
(* Neither of MembersBelong, NoneMissing and NothingDangles is inductive   *)
(* alone.  A desktop that is added has an empty chain, which is right only *)
(* if no window is on it yet; the window that stays active when the        *)
(* desktop changes is one that a chain offers, and can be seen only if the *)
(* chain is right; and the window that is dragged along is put into the    *)
(* chains, so that it must not be closed.  Inv has all of them, and that   *)
(* no window is twice in a chain.                                          *)
(*                                                                         *)
(* The windows of a removed desktop move one after the other, in an order  *)
(* the code leaves open: that is an induction over the windows moved so    *)
(* far (EvacuatedFacts), in which those still to come are right where they *)
(* were.                                                                   *)
(***************************************************************************)
EXTENDS FocusChain, FiniteSetTheorems, WellFoundedInduction, SequenceTheorems, TLAPS

-----------------------------------------------------------------------------
(* Induction over the natural numbers, and what recursion defines. *)

\* Induction over the natural numbers, for a set.
LEMMA SetInduction ==
    ASSUME NEW S, 0 \in S, \A n \in Nat : n \in S => n + 1 \in S
    PROVE  \A n \in Nat : n \in S
<1> DEFINE T == Nat \ S
           R == OpToRel(<, Nat)
<1> SUFFICES ASSUME T # {} PROVE FALSE
  OBVIOUS
<1>1. IsWellFoundedOn(R, Nat)
  BY NatLessThanWellFounded
<1>2. \A x \in Nat : x # 0 => x - 1 \in Nat /\ <<x - 1, x>> \in R
  BY DEF OpToRel
<1> HIDE DEF R
<1>3. PICK x \in T : \A y \in T : ~(<<y, x>> \in R)
  BY <1>1, WFMin
<1>4. x # 0
  OBVIOUS
<1>5. x \in Nat /\ x - 1 \in Nat /\ x - 1 \notin T
  BY <1>2, <1>3, <1>4
<1>6. (x - 1) + 1 \in S
  BY <1>5
<1>7. (x - 1) + 1 = x
  BY <1>5
<1> QED
  BY <1>6, <1>7

\* A function that is defined by recursion on a bounded number exists, ...
Steps(n, T) == [(1 .. n) \X T -> T]
IsRun(g, T, n, a, step) == g \in [0 .. n -> T] /\ g[0] = a /\ \A i \in 1 .. n : g[i] = step[<<i, g[i - 1]>>]

LEMMA Recursion ==
    ASSUME NEW T, NEW n \in Nat, NEW a \in T, NEW step \in Steps(n, T)
    PROVE  \E g : IsRun(g, T, n, a, step)
<1> USE DEF Steps
<1> DEFINE Upto(m, g) == g \in [0 .. m -> T] /\ g[0] = a /\ \A i \in 1 .. m : g[i] = step[<<i, g[i - 1]>>]
           Fine == {m \in Nat : m <= n => \E g : Upto(m, g)}
<1>1. 0 \in Fine
  <2>1. Upto(0, [i \in 0 .. 0 |-> a])
    OBVIOUS
  <2> QED
    BY <2>1
<1>2. \A m \in Nat : m \in Fine => m + 1 \in Fine
  <2> SUFFICES ASSUME NEW m \in Nat, m + 1 <= n, NEW g, Upto(m, g) PROVE \E h : Upto(m + 1, h)
    OBVIOUS
  <2> DEFINE x == step[<<m + 1, g[m]>>]
             h == [i \in 0 .. m + 1 |-> IF i = m + 1 THEN x ELSE g[i]]
  <2>1. g[m] \in T /\ m + 1 \in 1 .. n
    OBVIOUS
  <2>2. x \in T
    BY <2>1
  <2> HIDE DEF x
  <2>3. h \in [0 .. m + 1 -> T] /\ h[0] = a
    BY <2>2
  <2>4. \A i \in 0 .. m : h[i] = g[i]
    OBVIOUS
  <2>5. \A i \in 1 .. m : i - 1 \in 0 .. m /\ i \in 0 .. m
    OBVIOUS
  <2>6. \A i \in 1 .. m : h[i] = step[<<i, h[i - 1]>>]
    BY <2>4, <2>5
  <2>7. h[m + 1] = step[<<m + 1, h[m]>>] /\ (m + 1) - 1 = m
    <3>1. h[m + 1] = x /\ h[m] = g[m]
      BY <2>4
    <3> HIDE DEF h
    <3> QED
      BY <3>1 DEF x
  <2>8. \A i \in 1 .. m + 1 : h[i] = step[<<i, h[i - 1]>>]
    <3> SUFFICES ASSUME NEW i \in 1 .. m + 1 PROVE h[i] = step[<<i, h[i - 1]>>]
      OBVIOUS
    <3>1. i \in 1 .. m \/ i = m + 1
      OBVIOUS
    <3> HIDE DEF h
    <3> QED
      BY <3>1, <2>6, <2>7
  <2>9. Upto(m + 1, h)
    BY <2>3, <2>8
  <2> QED
    BY <2>9
<1> HIDE DEF Fine
<1>3. \A m \in Nat : m \in Fine
  BY <1>1, <1>2, SetInduction
<1>4. \E g : Upto(n, g)
  <2>1. n \in Fine /\ n <= n
    BY <1>3
  <2> HIDE DEF Upto
  <2> QED
    BY <2>1 DEF Fine
<1> QED
  BY <1>4 DEF IsRun

\* ... and has its values in the set its steps lead to.
LEMMA RecursionType ==
    ASSUME NEW T, NEW n \in Nat, NEW f, f[0] \in T,
           \A i \in 1 .. n : f[i - 1] \in T => f[i] \in T
    PROVE  f[n] \in T
<1> DEFINE Fine == {m \in Nat : m <= n => f[m] \in T}
<1>1. 0 \in Fine
  OBVIOUS
<1>2. \A m \in Nat : m \in Fine => m + 1 \in Fine
  <2> SUFFICES ASSUME NEW m \in Nat, m + 1 <= n, f[m] \in T PROVE f[m + 1] \in T
    OBVIOUS
  <2>1. m + 1 \in 1 .. n /\ (m + 1) - 1 = m
    OBVIOUS
  <2> QED
    BY <2>1
<1> HIDE DEF Fine
<1>3. \A m \in Nat : m \in Fine
  BY <1>1, <1>2, SetInduction
<1> QED
  BY <1>3 DEF Fine

-----------------------------------------------------------------------------
(* Sequences without repetitions. *)

LEMMA ContainsIs ==
    ASSUME NEW S, NEW s \in Seq(S), NEW e
    PROVE  Contains(s, e) <=> e \in ToSet(s)
BY DEF Contains, ToSet

LEMMA ToSetType ==
    ASSUME NEW S, NEW s \in Seq(S)
    PROVE  ToSet(s) \subseteq S
BY DEF ToSet

LEMMA AppendFacts ==
    ASSUME NEW S, NEW s \in Seq(S), IsInjective(s), NEW e \in S, e \notin ToSet(s)
    PROVE  /\ Append(s, e) \in Seq(S) /\ IsInjective(Append(s, e))
           /\ ToSet(Append(s, e)) = ToSet(s) \union {e}
<1> DEFINE r == Append(s, e)
           n == Len(s)
<1>1. /\ n \in Nat /\ DOMAIN s = 1 .. n /\ r \in Seq(S) /\ DOMAIN r = 1 .. n + 1
      /\ r[n + 1] = e /\ \A i \in 1 .. n : r[i] = s[i]
  OBVIOUS
<1> HIDE DEF r, n
<1>2. \A i \in 1 .. n : s[i] # e
  BY <1>1 DEF ToSet
<1>3. IsInjective(r)
  BY <1>1, <1>2 DEF IsInjective
<1>4. ToSet(r) = ToSet(s) \union {e}
  BY <1>1 DEF ToSet
<1> QED
  BY <1>1, <1>3, <1>4 DEF r

\* removeAll() takes out the window and nothing else.
LEMMA RemoveAllFacts ==
    ASSUME NEW S, NEW s \in Seq(S), IsInjective(s), NEW w
    PROVE  /\ RemoveAll(s, w) \in Seq(S) /\ IsInjective(RemoveAll(s, w))
           /\ ToSet(RemoveAll(s, w)) = ToSet(s) \ {w}
<1> DEFINE n == Len(s)
           Entry(f, i) == IF i = 0 THEN <<>>
                          ELSE IF s[i] = w THEN f[i - 1] ELSE Append(f[i - 1], s[i])
           kept == CHOOSE f : f = [i \in 0 .. n |-> Entry(f, i)]
           step == [p \in (1 .. n) \X Seq(S) |-> IF s[p[1]] = w THEN p[2] ELSE Append(p[2], s[p[1]])]
<1>1. n \in Nat /\ DOMAIN s = 1 .. n /\ \A i \in 1 .. n : s[i] \in S
  OBVIOUS
<1>2. step \in [(1 .. n) \X Seq(S) -> Seq(S)]
  BY <1>1
<1>3. PICK g \in [0 .. n -> Seq(S)] : g[0] = <<>> /\ \A i \in 1 .. n : g[i] = step[<<i, g[i - 1]>>]
  <2> DEFINE T == Seq(S)
             none == <<>>
  <2>1. none \in T /\ n \in Nat /\ step \in Steps(n, T)
    BY <1>1, <1>2 DEF Steps
  <2> HIDE DEF step, n, T, none
  <2>2. \E g : IsRun(g, T, n, none, step)
    BY <2>1, Recursion
  <2> QED
    BY <2>2 DEF T, none, IsRun
<1>4. g = [i \in 0 .. n |-> Entry(g, i)]
  <2> SUFFICES ASSUME NEW i \in 0 .. n PROVE g[i] = Entry(g, i)
    OBVIOUS
  <2>1. CASE i = 0
    BY <1>3, <2>1
  <2>2. CASE i # 0
    <3>1. i \in 1 .. n /\ g[i - 1] \in Seq(S)
      BY <1>1, <2>2
    <3>2. g[i] = step[<<i, g[i - 1]>>]
      BY <1>3, <3>1
    <3> QED
      BY <2>2, <3>1, <3>2
  <2> QED
    BY <2>1, <2>2
<1>5. kept = [i \in 0 .. n |-> Entry(kept, i)]
  BY <1>4
<1>6. RemoveAll(s, w) = kept[n]
  BY DEF RemoveAll
<1> HIDE DEF kept
<1> DEFINE Before(m) == {s[j] : j \in 1 .. m}
           Right(m) == kept[m] \in Seq(S) /\ IsInjective(kept[m]) /\ ToSet(kept[m]) = Before(m) \ {w}
           Fine == {m \in Nat : m <= n => Right(m)}
<1>7. 0 \in Fine
  <2>1. kept[0] = <<>>
    BY <1>1, <1>5
  <2>2. <<>> \in Seq(S) /\ IsInjective(<<>>) /\ ToSet(<<>>) = {}
    BY DEF IsInjective, ToSet
  <2>3. Before(0) = {}
    OBVIOUS
  <2> QED
    BY <2>1, <2>2, <2>3
<1> HIDE DEF Right
<1>8. \A m \in Nat : m \in Fine => m + 1 \in Fine
  <2> SUFFICES ASSUME NEW m \in Nat, m + 1 <= n, Right(m) PROVE Right(m + 1)
    BY <1>1
  <2> USE DEF Right
  <2>1. m + 1 \in 1 .. n /\ m + 1 \in 0 .. n /\ (m + 1) - 1 = m /\ m + 1 # 0
    BY <1>1
  <2>2. kept[m + 1] = IF s[m + 1] = w THEN kept[m] ELSE Append(kept[m], s[m + 1])
    BY <1>5, <2>1
  <2>3. Before(m + 1) = Before(m) \union {s[m + 1]}
    <3>1. 1 .. m + 1 = (1 .. m) \union {m + 1}
      BY <2>1
    <3> QED
      BY <3>1
  <2>4. s[m + 1] \notin Before(m)
    <3> SUFFICES ASSUME NEW j \in 1 .. m, s[j] = s[m + 1] PROVE FALSE
      OBVIOUS
    <3>1. j \in DOMAIN s /\ m + 1 \in DOMAIN s /\ j # m + 1
      BY <1>1, <2>1
    <3> QED
      BY <3>1 DEF IsInjective
  <2> HIDE DEF Before
  <2>5. CASE s[m + 1] = w
    BY <2>2, <2>3, <2>4, <2>5
  <2>6. CASE s[m + 1] # w
    <3>1. s[m + 1] \in S /\ s[m + 1] \notin ToSet(kept[m])
      BY <1>1, <2>1, <2>4
    <3>2. /\ Append(kept[m], s[m + 1]) \in Seq(S) /\ IsInjective(Append(kept[m], s[m + 1]))
          /\ ToSet(Append(kept[m], s[m + 1])) = ToSet(kept[m]) \union {s[m + 1]}
      BY <3>1, AppendFacts
    <3> QED
      BY <2>2, <2>3, <2>6, <3>2
  <2> QED
    BY <2>5, <2>6
<1>9. Right(n)
  <2>1. \A m \in Nat : m \in Fine
    <3> HIDE DEF Fine
    <3> QED
      BY <1>7, <1>8, SetInduction
  <2>2. n \in Fine /\ n <= n
    <3> HIDE DEF Fine
    <3> QED
      BY <1>1, <2>1
  <2> QED
    BY <2>2
<1>10. Before(n) = ToSet(s)
  BY <1>1 DEF ToSet
<1> QED
  BY <1>6, <1>9, <1>10 DEF Right

LEMMA InsertAtFacts ==
    ASSUME NEW S, NEW s \in Seq(S), IsInjective(s), NEW e \in S, e \notin ToSet(s), NEW i \in 1 .. Len(s) + 1
    PROVE  /\ InsertAt(s, i, e) \in Seq(S) /\ IsInjective(InsertAt(s, i, e))
           /\ ToSet(InsertAt(s, i, e)) = ToSet(s) \union {e}
           /\ Len(InsertAt(s, i, e)) = Len(s) + 1
<1> DEFINE r == InsertAt(s, i, e)
           n == Len(s)
<1>1. n \in Nat /\ DOMAIN s = 1 .. n /\ i \in 1 .. n + 1 /\ \A j \in 1 .. n : s[j] \in S /\ s[j] # e
  BY DEF ToSet
<1>2. /\ r \in Seq(S) /\ Len(r) = n + 1
      /\ \A j \in 1 .. n + 1 : r[j] = IF j < i THEN s[j] ELSE IF j = i THEN e ELSE s[j - 1]
  <2> DEFINE front == SubSeq(s, 1, i - 1)
             back == SubSeq(s, i, n)
             mid == <<e>>
  <2>1. front \in Seq(S) /\ Len(front) = i - 1 /\ \A j \in 1 .. i - 1 : front[j] = s[j]
    <3>1. \A j \in 1 .. i - 1 : s[j] \in S
      BY <1>1
    <3> QED
      BY <1>1, <3>1, SubSeqProperties
  <2>2. back \in Seq(S) /\ Len(back) = n - i + 1 /\ \A j \in 1 .. n - i + 1 : back[j] = s[i + j - 1]
    <3>1. \A j \in i .. n : s[j] \in S
      BY <1>1
    <3> QED
      BY <1>1, <3>1, SubSeqProperties
  <2>3. mid \in Seq(S) /\ Len(mid) = 1 /\ mid[1] = e
    OBVIOUS
  <2>4. r = (front \o mid) \o back
    BY DEF InsertAt
  <2> HIDE DEF front, mid, back, r
  <2> DEFINE head == front \o mid
  <2>5. /\ head \in Seq(S) /\ Len(head) = Len(front) + Len(mid)
        /\ \A j \in 1 .. Len(front) + Len(mid) : head[j] = IF j <= Len(front) THEN front[j] ELSE mid[j - Len(front)]
    <3>1. front \in Seq(S) /\ mid \in Seq(S)
      BY <2>1, <2>3
    <3> QED
      BY <3>1, ConcatProperties
  <2>6. r = head \o back
    BY <2>4
  <2> HIDE DEF head
  <2>7. /\ r \in Seq(S) /\ Len(r) = Len(head) + Len(back)
        /\ \A j \in 1 .. Len(head) + Len(back) : r[j] = IF j <= Len(head) THEN head[j] ELSE back[j - Len(head)]
    <3>1. head \in Seq(S) /\ back \in Seq(S)
      BY <2>2, <2>5
    <3>2. /\ head \o back \in Seq(S) /\ Len(head \o back) = Len(head) + Len(back)
          /\ \A j \in 1 .. Len(head) + Len(back) :
                 (head \o back)[j] = IF j <= Len(head) THEN head[j] ELSE back[j - Len(head)]
      BY <3>1, ConcatProperties
    <3> QED
      BY <2>6, <3>2
  <2>8. Len(head) = i /\ Len(r) = n + 1 /\ \A j \in 1 .. i : head[j] = IF j < i THEN s[j] ELSE e
    <3>1. Len(head) = i /\ Len(r) = n + 1
      BY <1>1, <2>1, <2>2, <2>3, <2>5, <2>7
    <3>2. ASSUME NEW j \in 1 .. i PROVE head[j] = IF j < i THEN s[j] ELSE e
      <4>1. head[j] = IF j <= i - 1 THEN front[j] ELSE mid[j - (i - 1)]
        BY <1>1, <2>1, <2>3, <2>5
      <4>2. CASE j < i
        BY <1>1, <2>1, <4>1, <4>2
      <4>3. CASE j = i
        <5>1. j - (i - 1) = 1 /\ ~(j <= i - 1)
          BY <1>1, <4>3
        <5> QED
          BY <2>3, <4>1, <4>3, <5>1
      <4> QED
        BY <1>1, <4>2, <4>3
    <3> QED
      BY <3>1, <3>2
  <2>9. ASSUME NEW j \in 1 .. n + 1 PROVE r[j] = IF j < i THEN s[j] ELSE IF j = i THEN e ELSE s[j - 1]
    <3>1. r[j] = IF j <= i THEN head[j] ELSE back[j - i]
      BY <1>1, <2>2, <2>7, <2>8
    <3>2. CASE j <= i
      BY <1>1, <2>8, <3>1, <3>2
    <3>3. CASE ~(j <= i)
      <4>1. j - i \in 1 .. n - i + 1 /\ i + (j - i) - 1 = j - 1 /\ ~(j < i) /\ j # i
        BY <1>1, <3>3
      <4> QED
        BY <2>2, <3>1, <3>3, <4>1
    <3> QED
      BY <3>2, <3>3
  <2> QED
    BY <2>7, <2>8, <2>9
<1>3. DOMAIN r = 1 .. n + 1
  BY <1>2
<1> HIDE DEF r, n
<1>4. IsInjective(r)
  <2> SUFFICES ASSUME NEW a \in 1 .. n + 1, NEW b \in 1 .. n + 1, r[a] = r[b] PROVE a = b
    BY <1>3 DEF IsInjective
  <2> DEFINE Old(j) == IF j < i THEN j ELSE j - 1
  <2>1. \A j \in 1 .. n + 1 : j # i => Old(j) \in 1 .. n /\ r[j] = s[Old(j)]
    BY <1>1, <1>2
  <2>2. r[i] = e
    BY <1>1, <1>2
  <2>3. \A j \in 1 .. n + 1 : j # i => r[j] # e
    BY <1>1, <2>1
  <2>4. CASE a = i \/ b = i
    BY <2>2, <2>3, <2>4
  <2>5. CASE a # i /\ b # i
    <3>1. Old(a) = Old(b)
      BY <1>1, <2>1, <2>5 DEF IsInjective
    <3> QED
      BY <1>1, <2>5, <3>1
  <2> QED
    BY <2>4, <2>5
<1>5. ToSet(r) = ToSet(s) \union {e}
  <2>1. \A x : x \in ToSet(r) <=> \E j \in 1 .. n + 1 : x = r[j]
    BY <1>3 DEF ToSet
  <2>2. \A x : x \in ToSet(s) <=> \E j \in 1 .. n : x = s[j]
    BY <1>1 DEF ToSet
  <2>3. \A x \in ToSet(s) : x \in ToSet(r)
    <3> SUFFICES ASSUME NEW j \in 1 .. n PROVE \E l \in 1 .. n + 1 : s[j] = r[l]
      BY <2>1, <2>2
    <3> DEFINE l == IF j < i THEN j ELSE j + 1
    <3>1. l \in 1 .. n + 1 /\ r[l] = s[j]
      BY <1>1, <1>2
    <3> QED
      BY <3>1
  <2>4. e \in ToSet(r)
    BY <1>1, <1>2, <2>1
  <2>5. \A x \in ToSet(r) : x \in ToSet(s) \union {e}
    BY <1>1, <1>2, <2>1, <2>2
  <2> QED
    BY <2>3, <2>4, <2>5
<1> QED
  BY <1>2, <1>4, <1>5 DEF r, n

\* Positions in a chain.
LEMMA LeastExists ==
    ASSUME NEW P, P \subseteq Nat, P # {}
    PROVE  \E i \in P : \A j \in P : i <= j
<1> DEFINE R == OpToRel(<, Nat)
<1>1. IsWellFoundedOn(R, Nat)
  BY NatLessThanWellFounded
<1>2. \A i, j \in Nat : j < i => <<j, i>> \in R
  BY DEF OpToRel
<1> HIDE DEF R
<1>3. PICK i \in P : \A j \in P : ~(<<j, i>> \in R)
  BY <1>1, WFMin
<1>4. ASSUME NEW j \in P PROVE i <= j
  <2>1. i \in Nat /\ j \in Nat /\ ~(j < i)
    BY <1>2, <1>3
  <2> QED
    BY <2>1
<1> QED
  BY <1>4

LEMMA LowestIn ==
    ASSUME NEW P, P \subseteq Nat, P # {}
    PROVE  Lowest(P) \in P
BY LeastExists DEF Lowest

LEMMA HighestIn ==
    ASSUME NEW n \in Nat, NEW P, P \subseteq 1 .. n, P # {}
    PROVE  Highest(P) \in P
<1> DEFINE Q == {n - i : i \in P}
<1>1. Q \subseteq Nat /\ Q # {}
  <2>1. \A i \in P : n - i \in Nat
    OBVIOUS
  <2> QED
    BY <2>1
<1>2. PICK q \in Q : \A p \in Q : q <= p
  BY <1>1, LeastExists
<1>3. PICK i \in P : q = n - i
  BY <1>2
<1>4. ASSUME NEW j \in P PROVE i >= j
  <2>1. n - j \in Q /\ n - i <= n - j /\ i \in Nat /\ j \in Nat
    BY <1>2, <1>3
  <2> QED
    BY <2>1
<1> QED
  BY <1>4 DEF Highest

LEMMA IndexOfFacts ==
    ASSUME NEW S, NEW s \in Seq(S), NEW w \in ToSet(s)
    PROVE  IndexOf(s, w) \in 1 .. Len(s) /\ s[IndexOf(s, w)] = w
<1>1. \E i \in DOMAIN s : s[i] = w
  BY DEF ToSet
<1>2. IndexOf(s, w) \in DOMAIN s /\ s[IndexOf(s, w)] = w
  BY <1>1 DEF IndexOf
<1> QED
  BY <1>2

LEMMA PlacesOfFacts ==
    ASSUME NEW S, NEW s \in Seq(S), NEW w \in ToSet(s)
    PROVE  PlacesOf(s, w) \subseteq 1 .. Len(s) /\ PlacesOf(s, w) # {}
<1>1. PICK i \in DOMAIN s : s[i] = w
  BY DEF ToSet
<1>2. i \in PlacesOf(s, w)
  BY <1>1 DEF PlacesOf, SameApplication
<1> QED
  BY <1>2 DEF PlacesOf

-----------------------------------------------------------------------------
(* The chains: what each has in it, whatever the order. *)

Chain == {s \in Seq(Windows) : IsInjective(s)}

Belongs(k, w, places) == k = Recent \/ IsOnDesktop(w, k, places)

\* w is put into the chains where it belongs and taken out of the others.
Put(ch, r, w, places) ==
    /\ r \in [DOMAIN ch -> Chain]
    /\ \A k \in DOMAIN ch :
           ToSet(r[k]) = IF Belongs(k, w, places) THEN ToSet(ch[k]) \union {w} ELSE ToSet(ch[k]) \ {w}

\* w is put into some of the chains where it belongs.
Moved(ch, r, w, places) ==
    /\ r \in [DOMAIN ch -> Chain]
    /\ \A k \in DOMAIN ch :
           /\ ToSet(ch[k]) \subseteq ToSet(r[k]) /\ ToSet(r[k]) \subseteq ToSet(ch[k]) \union {w}
           /\ Belongs(k, w, places) \/ ToSet(r[k]) = ToSet(ch[k])

LEMMA UpdateInChain ==
    ASSUME NEW s \in Chain, NEW w \in Windows, w \notin closing, NEW change, NEW top,
           NEW r, r = UpdateWindowInChain(s, w, change, top)
    PROVE  r \in Chain /\ ToSet(r) = ToSet(s) \union {w}
<1>1. s \in Seq(Windows) /\ IsInjective(s)
  BY DEF Chain
<1>2. Contains(s, w) <=> w \in ToSet(s)
  BY <1>1, ContainsIs
<1>3. CASE change = "MakeFirst"
  <2> DEFINE t == RemoveAll(s, w)
  <2>1. t \in Seq(Windows) /\ IsInjective(t) /\ ToSet(t) = ToSet(s) \ {w}
    BY <1>1, RemoveAllFacts
  <2>2. r = Append(t, w)
    BY <1>3 DEF UpdateWindowInChain, MakeFirstInChain
  <2> HIDE DEF t
  <2>3. w \notin ToSet(t)
    BY <2>1
  <2>4. Append(t, w) \in Seq(Windows) /\ IsInjective(Append(t, w)) /\ ToSet(Append(t, w)) = ToSet(t) \union {w}
    BY <2>1, <2>3, AppendFacts
  <2> QED
    BY <2>1, <2>2, <2>4 DEF Chain
<1>4. CASE change # "MakeFirst"
  <2>1. r = InsertWindowIntoChain(s, w, top)
    BY <1>4 DEF UpdateWindowInChain
  <2>2. CASE Contains(s, w)
    BY <1>2, <2>1, <2>2 DEF InsertWindowIntoChain
  <2>3. CASE ~Contains(s, w)
    <3>1. Append(s, w) \in Seq(Windows) /\ IsInjective(Append(s, w)) /\ ToSet(Append(s, w)) = ToSet(s) \union {w}
      BY <1>1, <1>2, <2>3, AppendFacts
    <3>2. CASE s # <<>> /\ r = InsertAt(s, Len(s), w)
      <4>1. Len(s) \in 1 .. Len(s) + 1
        BY <1>1, <3>2
      <4>2. /\ InsertAt(s, Len(s), w) \in Seq(Windows) /\ IsInjective(InsertAt(s, Len(s), w))
            /\ ToSet(InsertAt(s, Len(s), w)) = ToSet(s) \union {w}
        BY <1>1, <1>2, <2>3, <4>1, InsertAtFacts
      <4> QED
        BY <3>2, <4>2 DEF Chain
    <3>3. r = Append(s, w) \/ (s # <<>> /\ r = InsertAt(s, Len(s), w))
      BY <2>1, <2>3 DEF InsertWindowIntoChain
    <3> QED
      BY <3>1, <3>2, <3>3 DEF Chain
  <2> QED
    BY <2>2, <2>3
<1> QED
  BY <1>3, <1>4

LEMMA UpdatePuts ==
    ASSUME NEW D, NEW ch \in [D -> Chain], NEW w \in Windows, w \notin closing,
           NEW change, NEW places, NEW here, NEW top
    PROVE  Put(ch, Update(ch, w, change, places, here, top), w, places)
<1> DEFINE r == Update(ch, w, change, places, here, top)
           In(s, c) == UpdateWindowInChain(s, w, c, top)
<1>1. DOMAIN ch = D
  OBVIOUS
<1>2. ASSUME NEW s \in Chain, NEW c PROVE In(s, c) \in Chain /\ ToSet(In(s, c)) = ToSet(s) \union {w}
  BY UpdateInChain
<1>3. ASSUME NEW s \in Chain PROVE RemoveAll(s, w) \in Chain /\ ToSet(RemoveAll(s, w)) = ToSet(s) \ {w}
  BY RemoveAllFacts DEF Chain
<1>4. r = [k \in D |->
              IF k = Recent \/ places[w] = k THEN In(ch[k], change)
              ELSE IF places[w] = All THEN In(ch[k], IF k = here THEN change ELSE "Update")
              ELSE RemoveAll(ch[k], w)]
  BY <1>1 DEF Update
<1> HIDE DEF In, r
<1>5. ASSUME NEW k \in D
      PROVE  /\ r[k] \in Chain
             /\ ToSet(r[k]) = IF Belongs(k, w, places) THEN ToSet(ch[k]) \union {w} ELSE ToSet(ch[k]) \ {w}
  <2>1. ch[k] \in Chain
    OBVIOUS
  <2>2. Belongs(k, w, places) <=> k = Recent \/ places[w] = k \/ places[w] = All
    BY DEF Belongs, IsOnDesktop
  <2>3. CASE Belongs(k, w, places)
    <3>1. r[k] = In(ch[k], change) \/ r[k] = In(ch[k], IF k = here THEN change ELSE "Update")
      BY <1>4, <2>2, <2>3
    <3> QED
      BY <1>2, <2>1, <2>3, <3>1
  <2>4. CASE ~Belongs(k, w, places)
    <3>1. r[k] = RemoveAll(ch[k], w)
      BY <1>4, <2>2, <2>4
    <3> QED
      BY <1>3, <2>1, <2>4, <3>1
  <2> QED
    BY <2>3, <2>4
<1>6. r \in [D -> Chain]
  BY <1>4, <1>5
<1> QED
  BY <1>1, <1>5, <1>6 DEF Put, r

\* A window is put beside another one, wherever in the chain that is.
LEMMA BesideInChain ==
    ASSUME NEW s \in Chain, NEW w \in Windows, NEW ref \in Windows, w # ref,
           NEW r, r \in {MoveAfterWindowInChain(s, w, ref), MoveBeforeWindowInChain(s, w, ref)}
    PROVE  r \in Chain /\ ToSet(s) \subseteq ToSet(r) /\ ToSet(r) \subseteq ToSet(s) \union {w}
<1> DEFINE t == RemoveAll(s, w)
<1>1. s \in Seq(Windows) /\ IsInjective(s)
  BY DEF Chain
<1>2. Contains(s, ref) <=> ref \in ToSet(s)
  BY <1>1, ContainsIs
<1>3. t \in Seq(Windows) /\ IsInjective(t) /\ ToSet(t) = ToSet(s) \ {w}
  BY <1>1, RemoveAllFacts
<1>4. \/ ~Contains(s, ref) /\ r = s
      \/ /\ Contains(s, ref)
         /\ \E i \in {IndexOf(t, ref), Lowest(PlacesOf(t, ref)),
                      1 + IndexOf(t, ref), 1 + Highest(PlacesOf(t, ref))} : r = InsertAt(t, i, w)
  BY DEF MoveAfterWindowInChain, MoveBeforeWindowInChain
<1> HIDE DEF t
<1>5. CASE ~Contains(s, ref)
  BY <1>4, <1>5
<1>6. CASE Contains(s, ref)
  <2>1. ref \in ToSet(t) /\ w \notin ToSet(t) /\ Len(t) \in Nat
    BY <1>2, <1>3, <1>6
  <2>2. IndexOf(t, ref) \in 1 .. Len(t)
    BY <1>3, <2>1, IndexOfFacts
  <2> DEFINE P == PlacesOf(t, ref)
  <2>3. P \subseteq 1 .. Len(t) /\ P # {} /\ P \subseteq Nat
    BY <1>3, <2>1, PlacesOfFacts
  <2>4. PICK i \in {IndexOf(t, ref), Lowest(P), 1 + IndexOf(t, ref), 1 + Highest(P)} : r = InsertAt(t, i, w)
    BY <1>4, <1>6
  <2> HIDE DEF P
  <2>5. Lowest(P) \in 1 .. Len(t) /\ Highest(P) \in 1 .. Len(t)
    BY <2>1, <2>3, LowestIn, HighestIn
  <2>6. i \in 1 .. Len(t) + 1
    BY <2>1, <2>2, <2>4, <2>5
  <2>7. r \in Seq(Windows) /\ IsInjective(r) /\ ToSet(r) = ToSet(t) \union {w}
    BY <1>3, <2>1, <2>4, <2>6, InsertAtFacts
  <2> QED
    BY <1>3, <2>7 DEF Chain
<1> QED
  BY <1>5, <1>6

LEMMA MoveMoves ==
    ASSUME NEW D, NEW ch \in [D -> Chain], NEW w \in Windows, NEW ref \in Windows, NEW places,
           NEW r, r \in {MoveAfterWindow(ch, w, ref, places), MoveBeforeWindow(ch, w, ref, places)}
    PROVE  Moved(ch, r, w, places)
<1>1. DOMAIN ch = D
  OBVIOUS
<1> DEFINE Here(k) == w # ref /\ Belongs(k, w, places)
<1>2. ASSUME NEW k \in D, Here(k)
      PROVE  LET x == MoveAfterWindowInChain(ch[k], w, ref)
                 y == MoveBeforeWindowInChain(ch[k], w, ref)
             IN  \A c \in {x, y} : c \in Chain /\ ToSet(ch[k]) \subseteq ToSet(c) /\ ToSet(c) \subseteq ToSet(ch[k]) \union {w}
  BY <1>2, BesideInChain
<1>3. \/ r = [k \in D |-> IF Here(k) THEN MoveAfterWindowInChain(ch[k], w, ref) ELSE ch[k]]
      \/ r = [k \in D |-> IF Here(k) THEN MoveBeforeWindowInChain(ch[k], w, ref) ELSE ch[k]]
  BY <1>1 DEF MoveAfterWindow, MoveBeforeWindow, Belongs
<1>4. ASSUME NEW k \in D
      PROVE  /\ r[k] \in Chain
             /\ ToSet(ch[k]) \subseteq ToSet(r[k]) /\ ToSet(r[k]) \subseteq ToSet(ch[k]) \union {w}
             /\ Belongs(k, w, places) \/ ToSet(r[k]) = ToSet(ch[k])
  <2>1. CASE ~Here(k)
    <3>1. r[k] = ch[k]
      BY <1>3, <2>1
    <3> QED
      BY <3>1
  <2>2. CASE Here(k)
    <3>1. r[k] \in {MoveAfterWindowInChain(ch[k], w, ref), MoveBeforeWindowInChain(ch[k], w, ref)}
      BY <1>3, <2>2
    <3> QED
      BY <1>2, <2>2, <3>1
  <2> QED
    BY <2>1, <2>2
<1>5. r \in [D -> Chain]
  BY <1>3, <1>4
<1> QED
  BY <1>1, <1>4, <1>5 DEF Moved

LEMMA SentPuts ==
    ASSUME NEW D, NEW ch \in [D -> Chain], NEW w \in Windows, w \notin closing,
           managed \union closing \subseteq Windows,
           NEW places, NEW now, NEW here, NEW top \in Windows \union {None},
           NEW r \in Sent(ch, w, places, now, here, top)
    PROVE  Put(ch, r, w, places)
<1> DEFINE m == Update(ch, w, "MakeFirst", places, here, top)
<1>1. Put(ch, m, w, places)
  BY UpdatePuts
<1>2. r = m \/ \E ref \in Windows : r = MoveAfterWindow(m, w, ref, places)
  BY DEF Sent, RestackedUnderActive
<1> HIDE DEF m
<1>3. ASSUME NEW ref \in Windows, r = MoveAfterWindow(m, w, ref, places) PROVE Put(ch, r, w, places)
  <2>1. DOMAIN ch = D /\ m \in [D -> Chain] /\ DOMAIN m = D
    BY <1>1 DEF Put
  <2>2. Moved(m, r, w, places)
    BY <1>3, <2>1, MoveMoves
  <2> QED
    BY <1>1, <2>1, <2>2 DEF Put, Moved
<1> QED
  BY <1>1, <1>2, <1>3

-----------------------------------------------------------------------------
(* The invariant. *)

\* The chains have the windows of M that belong in them, but for those of U.
ChainsRight(ch, places, M, U) ==
    /\ \A k \in DOMAIN ch : \A w \in ToSet(ch[k]) : w \in M /\ Belongs(k, w, places)
    /\ \A k \in DOMAIN ch : \A w \in M : Belongs(k, w, places) => w \in ToSet(ch[k]) \/ <<w, k>> \in U

Keys == Desktops \union {Recent}

ChainInv == chains \in [Keys -> Chain] /\ ChainsRight(chains, where, managed, unseen)

Inv == TypeOK /\ NothingDangles /\ ChainInv

LEMMA PutRight ==
    ASSUME NEW D, NEW ch \in [D -> Chain], NEW p, NEW q, NEW M, NEW U, NEW V,
           ChainsRight(ch, p, M, U), NEW w, NEW r, Put(ch, r, w, q),
           \A v \in M : v # w => q[v] = p[v],
           \A x \in U : x[1] # w => x \in V
    PROVE  ChainsRight(r, q, M \union {w}, V)
<1>1. DOMAIN ch = D /\ DOMAIN r = D
  BY DEF Put
<1>2. \A k \in D : \A v \in M : v # w => (Belongs(k, v, q) <=> Belongs(k, v, p))
  BY DEF Belongs, IsOnDesktop
<1>3. \A k \in D : ToSet(r[k]) = IF Belongs(k, w, q) THEN ToSet(ch[k]) \union {w} ELSE ToSet(ch[k]) \ {w}
  BY <1>1 DEF Put
<1>4. ASSUME NEW k \in D, NEW v \in ToSet(r[k]) PROVE v \in M \union {w} /\ Belongs(k, v, q)
  BY <1>1, <1>2, <1>3, <1>4 DEF ChainsRight
<1>5. ASSUME NEW k \in D, NEW v \in M \union {w}, Belongs(k, v, q) PROVE v \in ToSet(r[k]) \/ <<v, k>> \in V
  <2>1. CASE v = w
    BY <1>3, <1>5, <2>1
  <2>2. CASE v # w
    <3>1. v \in M /\ (v \in ToSet(ch[k]) \/ <<v, k>> \in U)
      BY <1>1, <1>2, <1>5, <2>2 DEF ChainsRight
    <3>2. v \in ToSet(ch[k]) => v \in ToSet(r[k])
      BY <1>3, <2>2
    <3>3. <<v, k>> \in U => <<v, k>> \in V
      BY <2>2
    <3> QED
      BY <3>1, <3>2, <3>3
  <2> QED
    BY <2>1, <2>2
<1> QED
  BY <1>1, <1>4, <1>5 DEF ChainsRight

LEMMA MovedRight ==
    ASSUME NEW D, NEW ch \in [D -> Chain], NEW p, NEW M, NEW U,
           ChainsRight(ch, p, M, U), NEW w \in M, NEW r, Moved(ch, r, w, p)
    PROVE  ChainsRight(r, p, M, U)
<1>1. DOMAIN ch = D /\ DOMAIN r = D
  BY DEF Moved
<1>2. ASSUME NEW k \in D, NEW v \in ToSet(r[k]) PROVE v \in M /\ Belongs(k, v, p)
  BY <1>1, <1>2 DEF ChainsRight, Moved
<1>3. ASSUME NEW k \in D, NEW v \in M, Belongs(k, v, p) PROVE v \in ToSet(r[k]) \/ <<v, k>> \in U
  BY <1>1, <1>3 DEF ChainsRight, Moved
<1> QED
  BY <1>1, <1>2, <1>3 DEF ChainsRight

\* Only the places of the windows that are managed matter.
LEMMA SamePlacesRight ==
    ASSUME NEW ch, NEW p, NEW q, NEW M, NEW U, NEW V, ChainsRight(ch, p, M, U),
           \A v \in M : q[v] = p[v], U \subseteq V
    PROVE  ChainsRight(ch, q, M, V)
<1>1. \A k \in DOMAIN ch : \A v \in M : Belongs(k, v, q) <=> Belongs(k, v, p)
  BY DEF Belongs, IsOnDesktop
<1> QED
  BY <1>1 DEF ChainsRight

LEMMA ChainIsSeq == Chain \subseteq Seq(Windows)
BY DEF Chain

LEMMA InvFacts ==
    ASSUME Inv
    PROVE  /\ managed \subseteq Windows /\ closing \subseteq Windows /\ managed \intersect closing = {}
           /\ DOMAIN chains = Keys /\ Recent \notin DesktopIds /\ Recent # All
           /\ Desktops \subseteq DesktopIds /\ All \notin DesktopIds
           /\ where \in [Windows -> DesktopIds \union {All}]
           /\ {activeWindow, chainActive} \subseteq Windows \union {None}
<1>1. Desktops \subseteq DesktopIds
  BY ToSetType DEF Inv, TypeOK, Desktops
<1> QED
  BY <1>1, NamesAssumption DEF Inv, ChainInv, TypeOK

\* The desktops stay, and what NothingDangles says of them.
LEMMA SameDesktops ==
    ASSUME UNCHANGED desktops
    PROVE  Desktops' = Desktops /\ Keys' = Keys
BY DEF Desktops, Keys

LEMMA TypesFollow ==
    ASSUME Inv, UNCHANGED desktops, chains' \in [Keys -> Chain],
           current' \in Desktops,
           managed' \subseteq Windows, closing' \subseteq Windows \ managed',
           where' \in [Windows -> DesktopIds \union {All}],
           {activeWindow', chainActive'} \subseteq Windows \union {None},
           chainDesktop' \in DesktopIds \union {None},
           unseen' \subseteq Windows \X DesktopIds
    PROVE  TypeOK'
<1>1. Desktops' = Desktops /\ Keys' = Keys
  BY SameDesktops
<1>2. chains' \in [Desktops' \union {Recent} -> Seq(Windows)]
  BY <1>1, ChainIsSeq DEF Keys
<1>3. desktops' \in Seq(DesktopIds) /\ desktops' # <<>> /\ IsInjective(desktops')
  BY DEF Inv, TypeOK
<1> QED
  BY <1>1, <1>2, <1>3 DEF TypeOK

-----------------------------------------------------------------------------
(* Initially, and while the desktops stay. *)

LEMMA SeenFacts ==
    ASSUME TypeOK, NEW w
    PROVE  Seen(w) \subseteq Windows \X DesktopIds /\ \A x \in unseen : x[1] # w => x \in Seen(w)
BY DEF TypeOK, Seen

LEMMA InitInv == Init => Inv
<1> SUFFICES ASSUME Init PROVE Inv
  OBVIOUS
<1>1. PICK d \in DesktopIds : desktops = <<d>> /\ current = d
  BY DEF Init
<1>2. desktops \in Seq(DesktopIds) /\ desktops # <<>> /\ IsInjective(desktops) /\ Desktops = {d}
  BY <1>1 DEF IsInjective, Desktops, ToSet
<1>3. <<>> \in Chain /\ ToSet(<<>>) = {}
  BY DEF Chain, IsInjective, ToSet
<1>4. chains = [k \in Keys |-> <<>>]
  BY <1>1, <1>2 DEF Init, Keys
<1>5. chains \in [Keys -> Chain] /\ \A k \in DOMAIN chains : ToSet(chains[k]) = {}
  BY <1>3, <1>4
<1>6. ChainInv
  BY <1>5 DEF Init, ChainInv, ChainsRight
<1>7. where \in [Windows -> DesktopIds \union {All}]
  BY DEF Init
<1>8. chains \in [Desktops \union {Recent} -> Seq(Windows)]
  BY <1>5, ChainIsSeq DEF Keys
<1>9. TypeOK
  BY <1>1, <1>2, <1>7, <1>8 DEF Init, TypeOK
<1>10. NothingDangles
  BY <1>1, <1>2, <1>5 DEF Init, NothingDangles, Keys
<1> QED
  BY <1>6, <1>9, <1>10 DEF Inv

LEMMA ManageInv ==
    ASSUME Inv, NEW w \in Windows, NEW d \in Desktops \union {All}, Manage(w, d)
    PROVE  Inv'
<1> USE InvFacts
<1>1. w \notin managed /\ w \notin closing /\ managed' = managed \union {w} /\ where' = [where EXCEPT ![w] = d]
  BY DEF Manage
<1>2. where' \in [Windows -> DesktopIds \union {All}] /\ where'[w] = d /\ \A v \in managed : where'[v] = where[v]
  BY <1>1
<1>3. chains \in [Keys -> Chain] /\ ChainsRight(chains, where, managed, unseen)
  BY DEF Inv, ChainInv
<1>4. Put(chains, chains', w, where')
  BY <1>1, <1>3, UpdatePuts DEF Manage
<1>5. chains' \in [Keys -> Chain]
  BY <1>3, <1>4 DEF Put
<1>6. ChainsRight(chains', where', managed', unseen')
  <2>1. \A x \in unseen : x[1] # w => x \in unseen'
    BY DEF Manage
  <2> QED
    BY <1>1, <1>2, <1>3, <1>4, <2>1, PutRight
<1>7. TypeOK'
  BY <1>1, <1>2, <1>5, TypesFollow DEF Manage, Inv, TypeOK, managerVars
<1>8. Desktops' = Desktops /\ Keys' = Keys
  BY SameDesktops DEF Manage, managerVars
<1>9. NothingDangles'
  BY <1>1, <1>2, <1>5, <1>8 DEF Manage, Inv, NothingDangles, Keys, managerVars, IsOnDesktop
<1> QED
  BY <1>5, <1>6, <1>7, <1>8, <1>9 DEF Inv, ChainInv

LEMMA ActiveShownIn ==
    ASSUME NEW D, NEW ch \in [D -> Chain], NEW p, NEW M, NEW U, ChainsRight(ch, p, M, U),
           NEW d \in D, d # Recent, NEW w, Contains(ch[d], w)
    PROVE  w \in M /\ IsOnDesktop(w, d, p)
<1>1. ch[d] \in Seq(Windows) /\ DOMAIN ch = D
  BY ChainIsSeq
<1>2. w \in ToSet(ch[d])
  BY <1>1, ContainsIs
<1> QED
  BY <1>1, <1>2 DEF ChainsRight, Belongs

\* A window that is active may stay so only if it can be seen.
LEMMA StaysActiveFacts ==
    ASSUME NEW D, NEW ch \in [D -> Chain], NEW p, NEW M, NEW U, ChainsRight(ch, p, M, U),
           NEW d \in D, d # Recent, NEW w \in StaysActive(ch, d)
    PROVE  w = None \/ (w = activeWindow /\ w \in M /\ IsOnDesktop(w, d, p))
BY ActiveShownIn DEF StaysActive

LEMMA SendInv ==
    ASSUME Inv, NEW w \in Windows, NEW d \in Desktops \union {All}, SendWindowToDesktop(w, d)
    PROVE  Inv'
<1> USE InvFacts
<1>1. w \in managed /\ w \notin closing /\ managed \union {w} = managed /\ managed' = managed /\ closing' = closing
      /\ where' = [where EXCEPT ![w] = d] /\ UNCHANGED <<desktops, current, chainDesktop>>
  BY DEF SendWindowToDesktop, managerVars
<1>2. where' \in [Windows -> DesktopIds \union {All}] /\ where'[w] = d /\ \A v \in managed : v # w => where'[v] = where[v]
  BY <1>1
<1>3. chains \in [Keys -> Chain] /\ ChainsRight(chains, where, managed, unseen)
  BY DEF Inv, ChainInv
<1>4. chains' \in Sent(chains, w, where', current, chainDesktop, chainActive)
  BY DEF SendWindowToDesktop
<1>5. Put(chains, chains', w, where')
  <2>1. managed \union closing \subseteq Windows /\ chainActive \in Windows \union {None}
    OBVIOUS
  <2> QED
    BY <1>1, <1>3, <1>4, <2>1, SentPuts
<1>6. chains' \in [Keys -> Chain]
  BY <1>3, <1>5 DEF Put
<1>7. unseen' = Seen(w) /\ Seen(w) \subseteq Windows \X DesktopIds /\ \A x \in unseen : x[1] # w => x \in unseen'
  BY SeenFacts DEF SendWindowToDesktop, Inv
<1>8. ChainsRight(chains', where', managed', unseen')
  <2>1. ChainsRight(chains', where', managed \union {w}, unseen')
    BY <1>2, <1>3, <1>5, <1>7, PutRight
  <2> QED
    BY <1>1, <2>1
<1>9. current \in Desktops /\ current \in Keys /\ current # Recent
  BY DEF Inv, TypeOK, Keys
<1>10. chainActive' = activeWindow' /\ (activeWindow' # None => activeWindow' \in managed /\ IsOnDesktop(activeWindow', current, where'))
  <2>1. chainActive' = activeWindow'
    BY DEF SendWindowToDesktop
  <2>2. activeWindow # None => activeWindow \in managed /\ IsOnDesktop(activeWindow, current, where)
    BY DEF Inv, NothingDangles
  <2>3. CASE w = activeWindow /\ ~IsOnDesktop(w, current, where')
    <3>1. activeWindow' \in StaysActive(chains', current)
      BY <2>3 DEF SendWindowToDesktop
    <3>2. activeWindow' = None \/ (activeWindow' \in managed' /\ IsOnDesktop(activeWindow', current, where'))
      BY <1>6, <1>8, <1>9, <3>1, StaysActiveFacts
    <3> QED
      BY <1>1, <2>1, <3>2
  <2>4. CASE ~(w = activeWindow /\ ~IsOnDesktop(w, current, where'))
    <3>1. activeWindow' = activeWindow
      BY <2>4 DEF SendWindowToDesktop
    <3>2. CASE w = activeWindow
      BY <1>1, <2>1, <2>4, <3>1, <3>2
    <3>3. CASE w # activeWindow /\ activeWindow # None
      <4>1. where'[activeWindow] = where[activeWindow]
        BY <1>2, <2>2, <3>3
      <4> QED
        BY <2>1, <2>2, <3>1, <3>3, <4>1 DEF IsOnDesktop
    <3> QED
      BY <2>1, <3>1, <3>2, <3>3
  <2> QED
    BY <2>3, <2>4
<1>11. TypeOK'
  <2>1. {activeWindow', chainActive'} \subseteq Windows \union {None}
    BY <1>10
  <2>2. current' \in Desktops /\ chainDesktop' \in DesktopIds \union {None} /\ closing' \subseteq Windows \ managed'
    BY <1>1, <1>9 DEF Inv, TypeOK
  <2> QED
    BY <1>1, <1>2, <1>6, <1>7, <2>1, <2>2, TypesFollow
<1>12. Desktops' = Desktops /\ Keys' = Keys
  BY <1>1, SameDesktops
<1>13. \A v \in managed : where'[v] \in Desktops \union {All}
  BY <1>1, <1>2 DEF Inv, NothingDangles
<1>14. NothingDangles'
  BY <1>1, <1>6, <1>10, <1>12, <1>13 DEF Inv, NothingDangles, Keys
<1> QED
  BY <1>6, <1>8, <1>11, <1>12, <1>14 DEF Inv, ChainInv

\* update() for a window that stays where it is.
LEMMA UpdateInv ==
    ASSUME Inv, NEW w \in managed, NEW change,
           chains' = Update(chains, w, change, where, chainDesktop, chainActive), unseen' = Seen(w),
           UNCHANGED <<desktops, current, managed, closing, where, chainDesktop>>,
           chainActive' = activeWindow', activeWindow' \in {activeWindow, w},
           activeWindow' # activeWindow => IsOnDesktop(w, current, where)
    PROVE  Inv'
<1> USE InvFacts
<1>1. w \in Windows /\ w \notin closing /\ managed \union {w} = managed
  OBVIOUS
<1>2. chains \in [Keys -> Chain] /\ ChainsRight(chains, where, managed, unseen)
  BY DEF Inv, ChainInv
<1>3. Put(chains, chains', w, where)
  BY <1>1, <1>2, UpdatePuts
<1>4. chains' \in [Keys -> Chain]
  BY <1>2, <1>3 DEF Put
<1>5. Seen(w) \subseteq Windows \X DesktopIds /\ \A x \in unseen : x[1] # w => x \in unseen'
  BY SeenFacts DEF Inv
<1>6. ChainsRight(chains', where', managed', unseen')
  BY <1>1, <1>2, <1>3, <1>5, PutRight
<1>7. TypeOK'
  BY <1>1, <1>4, <1>5, TypesFollow DEF Inv, TypeOK
<1>8. Desktops' = Desktops /\ Keys' = Keys
  BY SameDesktops
<1>9. NothingDangles'
  BY <1>1, <1>4, <1>8 DEF Inv, NothingDangles, Keys
<1> QED
  BY <1>4, <1>6, <1>7, <1>8, <1>9 DEF Inv, ChainInv

LEMMA SetActiveWindowInv ==
    ASSUME Inv, NEW w \in Windows, SetActiveWindow(w)
    PROVE  Inv'
BY UpdateInv DEF SetActiveWindow, managerVars, windowVars

LEMMA MapRequestInv ==
    ASSUME Inv, NEW w \in Windows, MapRequest(w)
    PROVE  Inv'
<1>1. chainActive' = activeWindow'
  BY DEF MapRequest, Inv, NothingDangles
<1> QED
  BY <1>1, UpdateInv DEF MapRequest, managerVars, windowVars

LEMMA StackInv ==
    ASSUME Inv, NEW w \in Windows, NEW ref \in Windows, StackBelow(w, ref) \/ StackAbove(w, ref)
    PROVE  Inv'
<1> USE InvFacts
<1>1. w \in managed /\ UNCHANGED <<desktops, current, managed, closing, where, activeWindow, chainDesktop, chainActive, unseen>>
      /\ chains' \in {MoveAfterWindow(chains, w, ref, where), MoveBeforeWindow(chains, w, ref, where)}
  BY DEF StackBelow, StackAbove, managerVars, windowVars
<1>2. chains \in [Keys -> Chain] /\ ChainsRight(chains, where, managed, unseen)
  BY DEF Inv, ChainInv
<1>3. Moved(chains, chains', w, where)
  BY <1>1, <1>2, MoveMoves
<1>4. chains' \in [Keys -> Chain]
  BY <1>2, <1>3 DEF Moved
<1>5. ChainsRight(chains', where', managed', unseen')
  BY <1>1, <1>2, <1>3, MovedRight
<1>6. TypeOK'
  BY <1>1, <1>4, TypesFollow DEF Inv, TypeOK
<1>7. Desktops' = Desktops /\ Keys' = Keys
  BY <1>1, SameDesktops
<1>8. NothingDangles'
  BY <1>1, <1>4, <1>7 DEF Inv, NothingDangles, Keys
<1> QED
  BY <1>4, <1>5, <1>6, <1>7, <1>8 DEF Inv, ChainInv

LEMMA DeactivateInv == Inv /\ Deactivate => Inv'
<1> SUFFICES ASSUME Inv, Deactivate PROVE Inv'
  OBVIOUS
<1> USE InvFacts
<1>1. /\ UNCHANGED <<desktops, current, managed, closing, where, chains, chainDesktop, unseen>>
      /\ activeWindow' = None /\ chainActive' = None
  BY DEF Deactivate, managerVars, windowVars
<1>2. Desktops' = Desktops /\ Keys' = Keys
  BY <1>1, SameDesktops
<1>3. ChainInv'
  BY <1>1, <1>2 DEF Inv, ChainInv
<1>4. TypeOK'
  BY <1>1, <1>2 DEF Inv, TypeOK
<1>5. NothingDangles'
  BY <1>1, <1>2 DEF Inv, NothingDangles
<1> QED
  BY <1>3, <1>4, <1>5 DEF Inv

LEMMA CloseWindowInv ==
    ASSUME Inv, NEW w \in Windows, CloseWindow(w)
    PROVE  Inv'
<1> USE InvFacts
<1>1. /\ w \in managed /\ managed' = managed \ {w} /\ closing' = closing \union {w}
      /\ UNCHANGED <<desktops, current, where, chainDesktop>> /\ unseen' = Seen(w)
      /\ activeWindow' = IF w = activeWindow THEN None ELSE activeWindow
      /\ chainActive' = activeWindow'
  BY DEF CloseWindow, managerVars
<1>2. chains \in [Keys -> Chain] /\ ChainsRight(chains, where, managed, unseen)
  BY DEF Inv, ChainInv
<1>3. chains' = [k \in Keys |-> RemoveAll(chains[k], w)]
  BY <1>2 DEF CloseWindow, RemoveFromChains
<1>4. ASSUME NEW k \in Keys PROVE chains'[k] \in Chain /\ ToSet(chains'[k]) = ToSet(chains[k]) \ {w}
  <2>1. chains[k] \in Seq(Windows) /\ IsInjective(chains[k])
    BY <1>2 DEF Chain
  <2> QED
    BY <1>3, <2>1, RemoveAllFacts DEF Chain
<1>5. chains' \in [Keys -> Chain]
  BY <1>3, <1>4
<1>6. Seen(w) \subseteq Windows \X DesktopIds /\ \A x \in unseen : x[1] # w => x \in unseen'
  BY <1>1, SeenFacts DEF Inv
<1>7. ChainsRight(chains', where', managed', unseen')
  <2>1. ASSUME NEW k \in Keys, NEW v \in ToSet(chains'[k]) PROVE v \in managed' /\ Belongs(k, v, where')
    BY <1>1, <1>2, <1>4, <2>1 DEF ChainsRight
  <2>2. ASSUME NEW k \in Keys, NEW v \in managed', Belongs(k, v, where')
        PROVE  v \in ToSet(chains'[k]) \/ <<v, k>> \in unseen'
    <3>1. v \in ToSet(chains[k]) \/ <<v, k>> \in unseen
      BY <1>1, <1>2, <2>2 DEF ChainsRight
    <3>2. v # w /\ (<<v, k>> \in unseen => <<v, k>> \in unseen')
      BY <1>1, <1>6
    <3> QED
      BY <1>4, <3>1, <3>2
  <2> QED
    BY <1>5, <2>1, <2>2 DEF ChainsRight
<1>8. TypeOK'
  <2>1. managed' \subseteq Windows /\ closing' \subseteq Windows \ managed'
    BY <1>1
  <2>2. {activeWindow', chainActive'} \subseteq Windows \union {None}
    BY <1>1
  <2> QED
    BY <1>1, <1>5, <1>6, <2>1, <2>2, TypesFollow DEF Inv, TypeOK
<1>9. Desktops' = Desktops /\ Keys' = Keys
  BY <1>1, SameDesktops
<1>10. NothingDangles'
  BY <1>1, <1>5, <1>9 DEF Inv, NothingDangles, Keys, IsOnDesktop
<1> QED
  BY <1>5, <1>7, <1>8, <1>9, <1>10 DEF Inv, ChainInv

LEMMA WindowGoneInv ==
    ASSUME Inv, NEW w \in Windows, WindowGone(w)
    PROVE  Inv'
<1> USE InvFacts
<1>1. /\ w \in closing /\ w \notin managed /\ closing' = closing \ {w} /\ where' = [where EXCEPT ![w] = All]
      /\ UNCHANGED <<desktops, current, managed, activeWindow, chains, chainDesktop, chainActive, unseen>>
  BY DEF WindowGone, managerVars, chainVars
<1>2. where' \in [Windows -> DesktopIds \union {All}] /\ \A v \in managed : where'[v] = where[v]
  BY <1>1
<1>3. Desktops' = Desktops /\ Keys' = Keys
  BY <1>1, SameDesktops
<1>4. chains' \in [Keys -> Chain]
  BY <1>1 DEF Inv, ChainInv
<1>5. ChainsRight(chains', where', managed', unseen')
  BY <1>1, <1>2, SamePlacesRight DEF Inv, ChainInv
<1>6. TypeOK'
  BY <1>1, <1>2, <1>4, TypesFollow DEF Inv, TypeOK
<1>7. NothingDangles'
  BY <1>1, <1>2, <1>3 DEF Inv, NothingDangles, IsOnDesktop
<1> QED
  BY <1>3, <1>4, <1>5, <1>6, <1>7 DEF Inv, ChainInv

-----------------------------------------------------------------------------
(* Desktops are added, and another one becomes the current one. *)

\* The desktops of S are added: their chains are empty, and the windows that
\* are on all desktops are not in them.
LEMMA AddedInv ==
    ASSUME Inv, NEW S, S \subseteq DesktopIds, S \intersect Desktops = {},
           desktops' \in Seq(DesktopIds), desktops' # <<>>, IsInjective(desktops'),
           ToSet(desktops') = Desktops \union S,
           chains' = WithDesktops(chains, S), unseen' = unseen \union Unseen(S),
           UNCHANGED <<current, managed, closing, where, activeWindow, chainDesktop, chainActive>>
    PROVE  Inv'
<1> USE InvFacts
<1>1. chains \in [Keys -> Chain] /\ ChainsRight(chains, where, managed, unseen)
  BY DEF Inv, ChainInv
<1>2. Desktops' = Desktops \union S /\ Keys' = Keys \union S
  BY DEF Desktops, Keys
<1>3. chains' = [k \in Keys \union S |-> IF k \in S THEN <<>> ELSE chains[k]]
  BY DEF WithDesktops
<1>4. <<>> \in Chain /\ ToSet(<<>>) = {}
  BY DEF Chain, IsInjective, ToSet
<1>5. chains' \in [Keys' -> Chain]
  BY <1>1, <1>2, <1>3, <1>4
<1>6. ChainsRight(chains', where', managed', unseen')
  <2>1. ASSUME NEW k \in Keys', NEW v \in ToSet(chains'[k]) PROVE v \in managed' /\ Belongs(k, v, where')
    <3>1. k \in Keys /\ k \notin S /\ chains'[k] = chains[k]
      BY <1>2, <1>3, <1>4, <2>1
    <3> QED
      BY <1>1, <2>1, <3>1 DEF ChainsRight
  <2>2. ASSUME NEW k \in Keys', NEW v \in managed', Belongs(k, v, where')
        PROVE  v \in ToSet(chains'[k]) \/ <<v, k>> \in unseen'
    <3>1. CASE k \notin S
      <4>1. k \in Keys /\ chains'[k] = chains[k]
        BY <1>2, <1>3, <3>1
      <4> QED
        BY <1>1, <2>2, <4>1 DEF ChainsRight
    <3>2. CASE k \in S
      <4>1. where[v] \in Desktops \union {All} /\ k \notin Desktops /\ k # Recent
        BY <3>2 DEF Inv, NothingDangles
      <4>2. where[v] = All
        BY <2>2, <4>1 DEF Belongs, IsOnDesktop
      <4> QED
        BY <3>2, <4>2 DEF Unseen
    <3> QED
      BY <3>1, <3>2
  <2> QED
    BY <1>5, <2>1, <2>2 DEF ChainsRight
<1>7. TypeOK'
  <2>1. chains' \in [Desktops' \union {Recent} -> Seq(Windows)]
    BY <1>5, ChainIsSeq DEF Keys
  <2>2. unseen' \subseteq Windows \X DesktopIds
    BY DEF Unseen, Inv, TypeOK
  <2> QED
    BY <1>2, <2>1, <2>2 DEF Inv, TypeOK
<1>8. NothingDangles'
  BY <1>2, <1>5 DEF Inv, NothingDangles, Keys, IsOnDesktop
<1> QED
  BY <1>5, <1>6, <1>7, <1>8 DEF Inv, ChainInv

LEMMA CreateInv ==
    ASSUME Inv, NEW d \in DesktopIds, NEW position \in 1 .. Len(desktops) + 1, CreateVirtualDesktop(d, position)
    PROVE  Inv'
<1>1. desktops \in Seq(DesktopIds) /\ IsInjective(desktops) /\ d \notin ToSet(desktops)
  BY DEF Inv, TypeOK, CreateVirtualDesktop, Desktops
<1>2. /\ desktops' \in Seq(DesktopIds) /\ IsInjective(desktops') /\ ToSet(desktops') = ToSet(desktops) \union {d}
      /\ Len(desktops') = Len(desktops) + 1
  BY <1>1, InsertAtFacts DEF CreateVirtualDesktop
<1>3. desktops' # <<>>
  BY <1>1, <1>2
<1> QED
  BY <1>1, <1>2, <1>3, AddedInv DEF CreateVirtualDesktop, windowVars, Desktops

\* A part of a sequence without repetitions.
LEMMA SubSeqFacts ==
    ASSUME NEW S, NEW s \in Seq(S), IsInjective(s), NEW n \in 0 .. Len(s)
    PROVE  /\ SubSeq(s, 1, n) \in Seq(S) /\ IsInjective(SubSeq(s, 1, n)) /\ Len(SubSeq(s, 1, n)) = n
           /\ ToSet(SubSeq(s, 1, n)) = {s[i] : i \in 1 .. n}
           /\ \A i \in 1 .. n : SubSeq(s, 1, n)[i] = s[i]
<1> DEFINE r == SubSeq(s, 1, n)
<1>1. Len(s) \in Nat /\ DOMAIN s = 1 .. Len(s) /\ n \in Nat /\ 1 .. n \subseteq 1 .. Len(s) /\ \A i \in 1 .. n : s[i] \in S
  OBVIOUS
<1>2. r \in Seq(S) /\ Len(r) = n /\ \A i \in 1 .. n : r[i] = s[i]
  <2>1. 1 \in Int /\ n \in Int /\ (IF 1 <= n THEN n - 1 + 1 ELSE 0) = n
    BY <1>1
  <2>2. \A i \in 1 .. n : 1 + i - 1 = i
    OBVIOUS
  <2> QED
    BY <1>1, <2>1, <2>2, SubSeqProperties
<1>3. DOMAIN r = 1 .. n
  BY <1>2
<1> HIDE DEF r
<1>4. IsInjective(r)
  BY <1>1, <1>2, <1>3 DEF IsInjective
<1>5. ToSet(r) = {s[i] : i \in 1 .. n}
  BY <1>2, <1>3 DEF ToSet
<1> QED
  BY <1>2, <1>4, <1>5 DEF r

LEMMA ConcatFacts ==
    ASSUME NEW S, NEW s \in Seq(S), NEW t \in Seq(S), IsInjective(s), IsInjective(t),
           ToSet(s) \intersect ToSet(t) = {}
    PROVE  /\ s \o t \in Seq(S) /\ IsInjective(s \o t) /\ ToSet(s \o t) = ToSet(s) \union ToSet(t)
           /\ Len(s \o t) = Len(s) + Len(t)
<1> DEFINE r == s \o t
           m == Len(s)
           n == Len(t)
<1>1. m \in Nat /\ n \in Nat /\ DOMAIN s = 1 .. m /\ DOMAIN t = 1 .. n
  OBVIOUS
<1>2. /\ r \in Seq(S) /\ Len(r) = m + n
      /\ \A i \in 1 .. m + n : r[i] = IF i <= m THEN s[i] ELSE t[i - m]
  BY ConcatProperties
<1>3. DOMAIN r = 1 .. m + n
  BY <1>2
<1> HIDE DEF r, m, n
<1>4. \A i \in 1 .. m + n : i <= m => i \in 1 .. m /\ r[i] = s[i]
  BY <1>1, <1>2
<1>5. \A i \in 1 .. m + n : ~(i <= m) => i - m \in 1 .. n /\ r[i] = t[i - m]
  BY <1>1, <1>2
<1>6. \A i \in 1 .. m : \A j \in 1 .. n : s[i] # t[j]
  BY <1>1 DEF ToSet
<1>7. IsInjective(r)
  <2> SUFFICES ASSUME NEW i \in 1 .. m + n, NEW j \in 1 .. m + n, r[i] = r[j] PROVE i = j
    BY <1>3 DEF IsInjective
  <2>1. CASE i <= m /\ j <= m
    BY <1>1, <1>4, <2>1 DEF IsInjective
  <2>2. CASE ~(i <= m) /\ ~(j <= m)
    <3>1. i - m = j - m
      BY <1>1, <1>5, <2>2 DEF IsInjective
    <3> QED
      BY <1>1, <3>1
  <2>3. CASE (i <= m) # (j <= m)
    BY <1>4, <1>5, <1>6, <2>3
  <2> QED
    BY <2>1, <2>2, <2>3
<1>8. ToSet(r) = ToSet(s) \union ToSet(t)
  <2>1. ASSUME NEW x \in ToSet(r) PROVE x \in ToSet(s) \union ToSet(t)
    BY <1>1, <1>3, <1>4, <1>5 DEF ToSet
  <2>2. ASSUME NEW x \in ToSet(s) PROVE x \in ToSet(r)
    <3>1. PICK i \in 1 .. m : x = s[i]
      BY <1>1 DEF ToSet
    <3>2. i \in 1 .. m + n /\ i <= m
      BY <1>1
    <3> QED
      BY <1>3, <1>4, <3>1, <3>2 DEF ToSet
  <2>3. ASSUME NEW x \in ToSet(t) PROVE x \in ToSet(r)
    <3>1. PICK i \in 1 .. n : x = t[i]
      BY <1>1 DEF ToSet
    <3>2. i + m \in 1 .. m + n /\ ~(i + m <= m) /\ (i + m) - m = i
      BY <1>1
    <3> QED
      BY <1>3, <1>5, <3>1, <3>2 DEF ToSet
  <2> QED
    BY <2>1, <2>2, <2>3
<1> QED
  BY <1>2, <1>7, <1>8 DEF r, m, n

\* A set that is brought into some order.
LEMMA OrderFacts ==
    ASSUME NEW S, IsFiniteSet(S), NEW order \in SetToSeqs(S)
    PROVE  /\ order \in Seq(S) /\ Len(order) = Cardinality(S) /\ Len(order) \in Nat
           /\ IsInjective(order) /\ ToSet(order) = S
<1> DEFINE n == Cardinality(S)
<1>1. n \in Nat
  BY FS_CardinalityType
<1>2. order \in [1 .. n -> S] /\ \A i, j \in 1 .. n : i # j => order[i] # order[j]
  BY DEF SetToSeqs
<1>3. IsFiniteSet(1 .. n) /\ Cardinality(1 .. n) = n
  <2>1. 1 \in Int /\ n \in Int /\ (IF 1 > n THEN 0 ELSE n - 1 + 1) = n
    BY <1>1
  <2> HIDE DEF n
  <2> QED
    BY <2>1, FS_Interval
<1> HIDE DEF n
<1>4. order \in Injection(1 .. n, S)
  BY <1>2 DEF Injection, IsInjective
<1>5. order \in Surjection(1 .. n, S)
  <2>1. Cardinality(1 .. n) = Cardinality(S)
    BY <1>3 DEF n
  <2> QED
    BY <1>4, <2>1, FS_Injection
<1>6. order \in Seq(S) /\ Len(order) = n
  BY <1>1, <1>2
<1>7. IsInjective(order)
  BY <1>2 DEF IsInjective
<1>8. ToSet(order) = S
  BY <1>2, <1>5 DEF ToSet, Surjection
<1> QED
  BY <1>1, <1>6, <1>7, <1>8 DEF n

\* A sequence without repetitions is as long as it has elements.
LEMMA LengthIs ==
    ASSUME NEW S, NEW s \in Seq(S), IsInjective(s)
    PROVE  Cardinality(ToSet(s)) = Len(s) /\ IsFiniteSet(ToSet(s))
<1> DEFINE n == Len(s)
           T == ToSet(s)
<1>1. n \in Nat /\ DOMAIN s = 1 .. n
  OBVIOUS
<1>2. s \in [1 .. n -> T] /\ \A t \in T : \E i \in 1 .. n : s[i] = t
  BY <1>1 DEF ToSet
<1>3. IsFiniteSet(1 .. n) /\ Cardinality(1 .. n) = n
  <2>1. 1 \in Int /\ n \in Int /\ (IF 1 > n THEN 0 ELSE n - 1 + 1) = n
    BY <1>1
  <2> HIDE DEF n
  <2> QED
    BY <2>1, FS_Interval
<1> HIDE DEF n, T
<1>4. s \in Surjection(1 .. n, T)
  BY <1>2 DEF Surjection
<1>5. s \in Injection(1 .. n, T)
  BY <1>1, <1>2 DEF Injection, IsInjective
<1>6. IsFiniteSet(T) /\ Cardinality(T) = n
  BY <1>3, <1>4, <1>5, FS_Surjection
<1> QED
  BY <1>6 DEF n, T

LEMMA CountUpCalls ==
    ASSUME Inv, NEW count \in 1 .. MaxDesktops, SetCountUp(count)
    PROVE  \E S : /\ S \subseteq DesktopIds /\ S \intersect Desktops = {}
                  /\ desktops' \in Seq(DesktopIds) /\ desktops' # <<>> /\ IsInjective(desktops')
                  /\ ToSet(desktops') = Desktops \union S
                  /\ chains' = WithDesktops(chains, S) /\ unseen' = unseen \union Unseen(S)
<1> DEFINE n == Len(desktops)
           free == DesktopIds \ Desktops
           more == count - n
<1>1. desktops \in Seq(DesktopIds) /\ IsInjective(desktops) /\ desktops # <<>> /\ n \in Nat /\ ToSet(desktops) = Desktops
  BY DEF Inv, TypeOK, Desktops
<1>2. PICK new \in SetToSeqs(free) :
          /\ desktops' = desktops \o SubSeq(new, 1, more)
          /\ chains' = WithDesktops(chains, ToSet(SubSeq(new, 1, more)))
          /\ unseen' = unseen \union Unseen(ToSet(SubSeq(new, 1, more)))
  BY DEF SetCountUp
<1>3. IsFiniteSet(DesktopIds) /\ Cardinality(DesktopIds) \in Nat /\ MaxDesktops <= Cardinality(DesktopIds) /\ MaxDesktops \in Nat
  BY DesktopsAssumption, FS_CardinalityType
<1>4. IsFiniteSet(free) /\ Cardinality(free) = Cardinality(DesktopIds) - n
  <2>1. Cardinality(Desktops) = n
    BY <1>1, LengthIs
  <2>2. DesktopIds \intersect Desktops = Desktops
    BY InvFacts
  <2>3. IsFiniteSet(free) /\ Cardinality(free) = Cardinality(DesktopIds) - Cardinality(DesktopIds \intersect Desktops)
    BY <1>3, FS_Difference
  <2> QED
    BY <2>1, <2>2, <2>3
<1>5. count \in n + 1 .. MaxDesktops
  BY DEF SetCountUp
<1> HIDE DEF free, n
<1>6. new \in Seq(free) /\ Len(new) = Cardinality(free) /\ IsInjective(new)
  BY <1>2, <1>4, OrderFacts
<1>7. more \in 0 .. Len(new)
  BY <1>1, <1>3, <1>4, <1>5, <1>6
<1> HIDE DEF more
<1> DEFINE added == SubSeq(new, 1, more)
<1>8. added \in Seq(free) /\ IsInjective(added)
  BY <1>6, <1>7, SubSeqFacts
<1>9. /\ desktops' = desktops \o added
      /\ chains' = WithDesktops(chains, ToSet(added)) /\ unseen' = unseen \union Unseen(ToSet(added))
  BY <1>2
<1> HIDE DEF added
<1>10. ToSet(added) \subseteq DesktopIds /\ ToSet(added) \intersect Desktops = {}
  BY <1>8, ToSetType DEF free
<1>11. added \in Seq(DesktopIds)
  BY <1>8 DEF free
<1>12. /\ desktops \o added \in Seq(DesktopIds) /\ IsInjective(desktops \o added)
       /\ ToSet(desktops \o added) = Desktops \union ToSet(added)
       /\ Len(desktops \o added) = Len(desktops) + Len(added)
  BY <1>1, <1>8, <1>10, <1>11, ConcatFacts
<1>13. desktops' # <<>>
  <2>1. Len(desktops) \in Nat /\ Len(desktops) # 0 /\ Len(added) \in Nat
    BY <1>1, <1>11
  <2> QED
    BY <1>9, <1>12, <2>1
<1> QED
  BY <1>9, <1>10, <1>12, <1>13

LEMMA SetCountUpInv ==
    ASSUME Inv, NEW count \in 1 .. MaxDesktops, SetCountUp(count)
    PROVE  Inv'
<1>1. UNCHANGED <<current, managed, closing, where, activeWindow, chainDesktop, chainActive>>
  BY DEF SetCountUp, windowVars
<1> QED
  BY <1>1, CountUpCalls, AddedInv

LEMMA SetCurrentInv ==
    ASSUME Inv, NEW d \in DesktopIds, NEW dragged \in Windows \union {None}, SetCurrent(d, dragged)
    PROVE  Inv'
<1> USE InvFacts
<1>1. /\ d \in Desktops /\ dragged \in {None, activeWindow} /\ current' = d /\ chainDesktop' = d
      /\ chainActive' = activeWindow' /\ UNCHANGED <<desktops, managed, closing>>
  BY DEF SetCurrent
<1>2. chains \in [Keys -> Chain] /\ ChainsRight(chains, where, managed, unseen)
  BY DEF Inv, ChainInv
<1>3. Desktops' = Desktops /\ Keys' = Keys
  BY <1>1, SameDesktops
<1>4. d \in Keys /\ d # Recent
  BY <1>1 DEF Keys
<1>5. \A v \in managed : where[v] \in Desktops \union {All}
  BY DEF Inv, NothingDangles
<1>6. CASE dragged # None /\ ~IsOnDesktop(dragged, d, where)
  <2>1. /\ dragged \in managed /\ dragged \in Windows /\ dragged \notin closing /\ activeWindow' = dragged
        /\ where' = [where EXCEPT ![dragged] = d] /\ managed \union {dragged} = managed
        /\ chains' = Update(chains, dragged, "MakeFirst", where', d, chainActive)
        /\ unseen' = Seen(dragged)
    BY <1>1, <1>6 DEF SetCurrent, Inv, NothingDangles
  <2>2. /\ where' \in [Windows -> DesktopIds \union {All}] /\ where'[dragged] = d
        /\ \A v \in managed : v # dragged => where'[v] = where[v]
    BY <2>1
  <2>3. Put(chains, chains', dragged, where')
    BY <1>2, <2>1, UpdatePuts
  <2>4. chains' \in [Keys -> Chain]
    BY <1>2, <2>3 DEF Put
  <2>5. Seen(dragged) \subseteq Windows \X DesktopIds /\ \A x \in unseen : x[1] # dragged => x \in unseen'
    BY <2>1, SeenFacts DEF Inv
  <2>6. ChainsRight(chains', where', managed', unseen')
    <3>1. ChainsRight(chains', where', managed \union {dragged}, unseen')
      BY <1>2, <2>2, <2>3, <2>5, PutRight
    <3> QED
      BY <1>1, <2>1, <3>1
  <2>7. TypeOK'
    <3>1. current' \in Desktops /\ chainDesktop' \in DesktopIds \union {None}
      BY <1>1
    <3>2. managed' \subseteq Windows /\ closing' \subseteq Windows \ managed'
      BY <1>1
    <3>3. {activeWindow', chainActive'} \subseteq Windows \union {None}
      BY <1>1, <2>1
    <3>4. unseen' \subseteq Windows \X DesktopIds
      BY <2>1, <2>5
    <3> QED
      BY <1>1, <2>2, <2>4, <3>1, <3>2, <3>3, <3>4, TypesFollow
  <2>8. \A v \in managed : where'[v] \in Desktops \union {All}
    BY <1>1, <1>5, <2>2
  <2>9. IsOnDesktop(dragged, d, where')
    BY <2>2 DEF IsOnDesktop
  <2>10. DOMAIN chains' = Keys
    BY <2>4
  <2>11. NothingDangles'
    BY <1>1, <1>3, <2>1, <2>8, <2>9, <2>10 DEF NothingDangles, Keys
  <2> QED
    BY <1>3, <2>4, <2>6, <2>7, <2>11 DEF Inv, ChainInv
<1>7. CASE ~(dragged # None /\ ~IsOnDesktop(dragged, d, where))
  <2>1. activeWindow' \in StaysActive(chains, d) /\ UNCHANGED <<where, chains, unseen>>
    BY <1>7 DEF SetCurrent
  <2>2. activeWindow' = None \/ (activeWindow' \in managed /\ IsOnDesktop(activeWindow', d, where))
    BY <1>2, <1>4, <2>1, StaysActiveFacts
  <2>3. TypeOK'
    BY <1>1, <1>3, <2>1, <2>2 DEF Inv, TypeOK
  <2>4. NothingDangles'
    BY <1>1, <1>3, <2>1, <2>2 DEF Inv, NothingDangles
  <2> QED
    BY <1>1, <1>2, <1>3, <2>1, <2>3, <2>4 DEF Inv, ChainInv
<1> QED
  BY <1>6, <1>7

-----------------------------------------------------------------------------
(* Desktops are removed: their windows move one after the other. *)

LEMMA RemoveAtFacts ==
    ASSUME NEW S, NEW s \in Seq(S), IsInjective(s), NEW n \in 1 .. Len(s)
    PROVE  /\ RemoveAt(s, n) \in Seq(S) /\ IsInjective(RemoveAt(s, n))
           /\ ToSet(RemoveAt(s, n)) = ToSet(s) \ {s[n]}
           /\ Len(RemoveAt(s, n)) = Len(s) - 1
<1> DEFINE r == RemoveAt(s, n)
           m == Len(s)
<1>1. m \in Nat /\ DOMAIN s = 1 .. m /\ n \in 1 .. m /\ \A j \in 1 .. m : s[j] \in S
  OBVIOUS
<1>2. r \in Seq(S) /\ Len(r) = m - 1 /\ \A j \in 1 .. m - 1 : r[j] = IF j < n THEN s[j] ELSE s[j + 1]
  <2> DEFINE front == SubSeq(s, 1, n - 1)
             back == SubSeq(s, n + 1, m)
  <2>1. front \in Seq(S) /\ Len(front) = n - 1 /\ \A j \in 1 .. n - 1 : front[j] = s[j]
    <3>1. \A j \in 1 .. n - 1 : s[j] \in S
      BY <1>1
    <3> QED
      BY <1>1, <3>1, SubSeqProperties
  <2>2. back \in Seq(S) /\ Len(back) = m - n /\ \A j \in 1 .. m - n : back[j] = s[n + j]
    <3>1. \A j \in n + 1 .. m : s[j] \in S
      BY <1>1
    <3>2. /\ back \in Seq(S) /\ Len(back) = IF n + 1 <= m THEN m - (n + 1) + 1 ELSE 0
          /\ \A j \in 1 .. m - (n + 1) + 1 : back[j] = s[(n + 1) + j - 1]
      BY <1>1, <3>1, SubSeqProperties
    <3> HIDE DEF back, m
    <3>3. (IF n + 1 <= m THEN m - (n + 1) + 1 ELSE 0) = m - n /\ m - (n + 1) + 1 = m - n
      BY <1>1
    <3>4. \A j \in 1 .. m - n : (n + 1) + j - 1 = n + j
      BY <1>1
    <3> QED
      BY <3>2, <3>3, <3>4
  <2>3. r = front \o back
    BY DEF RemoveAt
  <2> HIDE DEF front, back, r, m
  <2>4. /\ r \in Seq(S) /\ Len(r) = Len(front) + Len(back)
        /\ \A j \in 1 .. Len(front) + Len(back) : r[j] = IF j <= Len(front) THEN front[j] ELSE back[j - Len(front)]
    <3>1. front \in Seq(S) /\ back \in Seq(S)
      BY <2>1, <2>2
    <3>2. /\ front \o back \in Seq(S) /\ Len(front \o back) = Len(front) + Len(back)
          /\ \A j \in 1 .. Len(front) + Len(back) :
                 (front \o back)[j] = IF j <= Len(front) THEN front[j] ELSE back[j - Len(front)]
      BY <3>1, ConcatProperties
    <3> QED
      BY <2>3, <3>2
  <2>5. Len(r) = m - 1 /\ \A j \in 1 .. m - 1 : r[j] = IF j <= n - 1 THEN front[j] ELSE back[j - (n - 1)]
    BY <1>1, <2>1, <2>2, <2>4
  <2>6. ASSUME NEW j \in 1 .. m - 1 PROVE r[j] = IF j < n THEN s[j] ELSE s[j + 1]
    <3>1. CASE j < n
      BY <1>1, <2>1, <2>5, <3>1
    <3>2. CASE ~(j < n)
      <4>1. j - (n - 1) \in 1 .. m - n /\ n + (j - (n - 1)) = j + 1 /\ ~(j <= n - 1)
        BY <1>1, <3>2
      <4> QED
        BY <2>2, <2>5, <3>2, <4>1
    <3> QED
      BY <3>1, <3>2
  <2> QED
    BY <2>4, <2>5, <2>6
<1>3. DOMAIN r = 1 .. m - 1
  BY <1>1, <1>2
<1> HIDE DEF r, m
<1> DEFINE Old(j) == IF j < n THEN j ELSE j + 1
<1>4. \A j \in 1 .. m - 1 : Old(j) \in 1 .. m /\ Old(j) # n /\ r[j] = s[Old(j)]
  BY <1>1, <1>2
<1>5. \A j \in 1 .. m : j # n => \E l \in 1 .. m - 1 : Old(l) = j
  <2> SUFFICES ASSUME NEW j \in 1 .. m, j # n PROVE \E l \in 1 .. m - 1 : Old(l) = j
    OBVIOUS
  <2> DEFINE l == IF j < n THEN j ELSE j - 1
  <2>1. l \in 1 .. m - 1 /\ Old(l) = j
    BY <1>1
  <2> QED
    BY <2>1
<1>6. \A i, j \in 1 .. m - 1 : Old(i) = Old(j) => i = j
  BY <1>1
<1> HIDE DEF Old
<1>7. IsInjective(r)
  BY <1>1, <1>3, <1>4, <1>6 DEF IsInjective
<1>8. \A j \in 1 .. m : j # n => s[j] # s[n]
  BY <1>1 DEF IsInjective
<1>9. ToSet(r) = ToSet(s) \ {s[n]}
  <2>1. ASSUME NEW x \in ToSet(r) PROVE x \in ToSet(s) \ {s[n]}
    BY <1>1, <1>3, <1>4, <1>8 DEF ToSet
  <2>2. ASSUME NEW x \in ToSet(s), x # s[n] PROVE x \in ToSet(r)
    <3>1. PICK j \in 1 .. m : x = s[j]
      BY <1>1 DEF ToSet
    <3>2. PICK l \in 1 .. m - 1 : Old(l) = j
      BY <1>5, <2>2, <3>1
    <3> QED
      BY <1>3, <1>4, <3>1, <3>2 DEF ToSet
  <2> QED
    BY <2>1, <2>2
<1> QED
  BY <1>2, <1>7, <1>9 DEF r, m

\* The windows of S are moved to heir, in any order.
LEMMA EvacuatedFacts ==
    ASSUME Inv, NEW S, S \subseteq managed, NEW order \in SetToSeqs(S),
           NEW heir, NEW now, NEW here, NEW top \in Windows \union {None},
           NEW ch \in Evacuated(order, heir, now, here, top)
    PROVE  /\ ch \in [Keys -> Chain]
           /\ ChainsRight(ch, [w \in Windows |-> IF w \in S THEN heir ELSE where[w]], managed, {p \in unseen : p[1] \notin S})
<1> DEFINE n == Len(order)
           places(i) == [w \in Windows |-> IF \E j \in 1 .. i : order[j] = w THEN heir ELSE where[w]]
           Out(C, i) == UNION {Sent(c, order[i], places(i), now, here, top) : c \in C}
           Entry(f, i) == IF i = 0 THEN {chains} ELSE Out(f[i - 1], i)
           outcomes == CHOOSE f : f = [i \in 0 .. n |-> Entry(f, i)]
           T == SUBSET [Keys -> Chain]
           step == [p \in (1 .. n) \X T |-> Out(p[2], p[1])]
           V(i) == {p \in unseen : ~\E j \in 1 .. i : order[j] = p[1]}
<1> USE InvFacts
<1>1. chains \in [Keys -> Chain] /\ ChainsRight(chains, where, managed, unseen)
  BY DEF Inv, ChainInv
<1>2. IsFiniteSet(S)
  BY WindowsAssumption, FS_Subset
<1>3. order \in Seq(S) /\ n \in Nat /\ IsInjective(order) /\ ToSet(order) = S
  BY <1>2, OrderFacts
<1>4. DOMAIN order = 1 .. n /\ \A i \in 1 .. n : order[i] \in S
  BY <1>3
<1> HIDE DEF n, places
<1>5. \A i \in 1 .. n : order[i] \in managed /\ order[i] \in Windows /\ order[i] \notin closing
  BY <1>4
<1>6. ASSUME NEW i \in 1 .. n, NEW c \in [Keys -> Chain], NEW r \in Sent(c, order[i], places(i), now, here, top)
      PROVE  Put(c, r, order[i], places(i)) /\ r \in [Keys -> Chain]
  <2>1. managed \union closing \subseteq Windows
    OBVIOUS
  <2>2. Put(c, r, order[i], places(i))
    BY <1>5, <2>1, SentPuts
  <2> QED
    BY <2>2 DEF Put
<1>7. \A i \in 1 .. n : \A C \in T : Out(C, i) \in T
  BY <1>6
<1>8. ch \in outcomes[n]
  BY DEF Evacuated, n, places
<1> HIDE DEF Out, T
<1>9. outcomes = [i \in 0 .. n |-> Entry(outcomes, i)]
  <2>1. step \in [(1 .. n) \X T -> T]
    BY <1>7
  <2> DEFINE first == {chains}
  <2>2. first \in T /\ step \in Steps(n, T)
    BY <1>1, <2>1 DEF Steps, T
  <2> HIDE DEF step, first
  <2>3. PICK g : IsRun(g, T, n, first, step)
    BY <1>3, <2>2, Recursion
  <2>4. g \in [0 .. n -> T] /\ g[0] = first /\ \A i \in 1 .. n : g[i] = step[<<i, g[i - 1]>>]
    BY <2>3 DEF IsRun
  <2>5. g = [i \in 0 .. n |-> Entry(g, i)]
    <3> SUFFICES ASSUME NEW i \in 0 .. n PROVE g[i] = Entry(g, i)
      BY <2>4
    <3>1. CASE i = 0
      BY <2>4, <3>1 DEF first
    <3>2. CASE i # 0
      <4>1. i \in 1 .. n /\ i - 1 \in 0 .. n
        BY <1>3, <3>2
      <4>2. g[i - 1] \in T /\ g[i] = step[<<i, g[i - 1]>>]
        BY <2>4, <4>1
      <4>3. step[<<i, g[i - 1]>>] = Out(g[i - 1], i)
        BY <4>1, <4>2 DEF step
      <4> QED
        BY <3>2, <4>2, <4>3
    <3> QED
      BY <3>1, <3>2
  <2> QED
    BY <2>5
<1> HIDE DEF outcomes
<1> DEFINE Right(i) == \A c \in outcomes[i] : c \in [Keys -> Chain] /\ ChainsRight(c, places(i), managed, V(i))
           Fine == {m \in Nat : m <= n => Right(m)}
<1>10. 0 \in Fine
  <2>1. outcomes[0] = {chains}
    BY <1>3, <1>9
  <2>2. \A v \in managed : places(0)[v] = where[v]
    BY DEF places
  <2>3. unseen \subseteq V(0)
    OBVIOUS
  <2> HIDE DEF V
  <2>4. ChainsRight(chains, places(0), managed, V(0))
    BY <1>1, <2>2, <2>3, SamePlacesRight
  <2> QED
    BY <1>1, <2>1, <2>4
<1> HIDE DEF V, Right
<1>11. \A m \in Nat : m \in Fine => m + 1 \in Fine
  <2> SUFFICES ASSUME NEW m \in Nat, m + 1 <= n, Right(m) PROVE Right(m + 1)
    BY <1>3
  <2> USE DEF Right
  <2> SUFFICES ASSUME NEW c \in outcomes[m + 1]
               PROVE  c \in [Keys -> Chain] /\ ChainsRight(c, places(m + 1), managed, V(m + 1))
    OBVIOUS
  <2>1. m + 1 \in 1 .. n /\ m + 1 \in 0 .. n /\ (m + 1) - 1 = m /\ m + 1 # 0 /\ 1 .. m + 1 = (1 .. m) \union {m + 1}
    BY <1>3
  <2>2. outcomes[m + 1] = Out(outcomes[m], m + 1)
    BY <1>9, <2>1
  <2>3. PICK b \in outcomes[m] : c \in Sent(b, order[m + 1], places(m + 1), now, here, top)
    BY <2>2 DEF Out
  <2>4. b \in [Keys -> Chain] /\ ChainsRight(b, places(m), managed, V(m))
    OBVIOUS
  <2>5. Put(b, c, order[m + 1], places(m + 1)) /\ c \in [Keys -> Chain]
    BY <1>6, <2>1, <2>3, <2>4
  <2>6. \A v \in managed : v # order[m + 1] => places(m + 1)[v] = places(m)[v]
    BY <2>1 DEF places
  <2>7. \A x \in V(m) : x[1] # order[m + 1] => x \in V(m + 1)
    BY <2>1 DEF V
  <2>8. managed \union {order[m + 1]} = managed
    BY <1>5, <2>1
  <2>9. ChainsRight(c, places(m + 1), managed \union {order[m + 1]}, V(m + 1))
    <3> DEFINE w == order[m + 1]
               p == places(m)
               q == places(m + 1)
               A == V(m)
               B == V(m + 1)
    <3>1. /\ ChainsRight(b, p, managed, A) /\ Put(b, c, w, q) /\ b \in [Keys -> Chain]
          /\ \A v \in managed : v # w => q[v] = p[v]
          /\ \A x \in A : x[1] # w => x \in B
      BY <2>4, <2>5, <2>6, <2>7
    <3> HIDE DEF w, p, q, A, B
    <3>2. ChainsRight(c, q, managed \union {w}, B)
      BY <3>1, PutRight
    <3> QED
      BY <3>2 DEF w, q, B
  <2> QED
    BY <2>5, <2>8, <2>9
<1>12. Right(n)
  <2>1. \A m \in Nat : m \in Fine
    <3> HIDE DEF Fine
    <3> QED
      BY <1>10, <1>11, SetInduction
  <2>2. n \in Fine /\ n <= n
    <3> HIDE DEF Fine
    <3> QED
      BY <1>3, <2>1
  <2> QED
    BY <2>2
<1>13. \A w : (\E j \in 1 .. n : order[j] = w) <=> w \in S
  BY <1>3, <1>4 DEF ToSet
<1>14. places(n) = [w \in Windows |-> IF w \in S THEN heir ELSE where[w]]
  BY <1>13 DEF places
<1>15. V(n) = {p \in unseen : p[1] \notin S}
  BY <1>13 DEF V
<1> QED
  BY <1>8, <1>12, <1>14, <1>15 DEF Right

\* What the removal of the desktops of gone has to be called with.
LeftOver(gone, left, newCurrent, heir) ==
    /\ gone \subseteq Desktops
    /\ left \in Seq(DesktopIds) /\ IsInjective(left) /\ left # <<>> /\ ToSet(left) = Desktops \ gone
    /\ newCurrent \in ToSet(left) /\ (current \notin gone => newCurrent = current)
    /\ heir \in ToSet(left)

LEMMA RemoveDesktopsInv ==
    ASSUME Inv, NEW gone, NEW left, NEW newCurrent, NEW heir, LeftOver(gone, left, newCurrent, heir),
           RemoveDesktops(gone, left, newCurrent, heir)
    PROVE  Inv'
<1> DEFINE E == {w \in managed : where[w] \in gone}
           here == IF newCurrent = current THEN chainDesktop ELSE newCurrent
           P == [w \in Windows |-> IF w \in E THEN heir ELSE where[w]]
           U == {p \in unseen : p[1] \notin E}
<1> USE InvFacts
<1>1. /\ gone \subseteq Desktops /\ All \notin gone /\ None \notin gone /\ Recent \notin gone
      /\ newCurrent \in Desktops /\ newCurrent \notin gone /\ heir \in Desktops /\ heir \notin gone
      /\ (current \notin gone => newCurrent = current) /\ gone \subseteq DesktopIds
  BY NamesAssumption DEF LeftOver
<1>2. Desktops' = Desktops \ gone /\ Keys' = Keys \ gone /\ current' = newCurrent /\ desktops' = left
  BY <1>1 DEF LeftOver, RemoveDesktops, Desktops, Keys
<1>3. /\ UNCHANGED <<managed, closing>> /\ chainActive' = activeWindow'
      /\ activeWindow' \in IF newCurrent = current THEN {activeWindow} ELSE StaysActive(chains, newCurrent)
      /\ chainDesktop' = IF here \in gone THEN None ELSE here
      /\ unseen' = {p \in unseen : p[1] \notin E /\ p[2] \notin gone}
  BY DEF RemoveDesktops
<1>4. PICK order \in SetToSeqs(E) :
          \E c \in Evacuated(order, heir, newCurrent, here, activeWindow') : chains' = Without(c, gone)
  BY DEF RemoveDesktops
<1>5. PICK ch \in Evacuated(order, heir, newCurrent, here, activeWindow') : chains' = Without(ch, gone)
  BY <1>4
<1>6. where' = [w \in Windows |-> IF w \in E THEN heir ELSE IF w \in closing /\ where[w] \in gone THEN All ELSE where[w]]
  BY DEF RemoveDesktops
<1>7. chains \in [Keys -> Chain] /\ ChainsRight(chains, where, managed, unseen)
  BY DEF Inv, ChainInv
<1>8. activeWindow' = None \/ (activeWindow' \in managed /\ IsOnDesktop(activeWindow', newCurrent, where))
  <2>1. CASE newCurrent = current
    BY <1>3, <2>1 DEF Inv, NothingDangles
  <2>2. CASE newCurrent # current
    <3>1. newCurrent \in Keys /\ newCurrent # Recent
      BY <1>1 DEF Keys
    <3>2. activeWindow' \in StaysActive(chains, newCurrent)
      BY <1>3, <2>2
    <3> QED
      BY <1>7, <3>1, <3>2, StaysActiveFacts
  <2> QED
    BY <2>1, <2>2
<1>9. activeWindow' \in Windows \union {None}
  BY <1>8
<1>10. E \subseteq managed
  OBVIOUS
<1>11. ch \in [Keys -> Chain] /\ ChainsRight(ch, P, managed, U)
  <2> DEFINE top == activeWindow'
  <2>1. top \in Windows \union {None} /\ ch \in Evacuated(order, heir, newCurrent, here, top)
    BY <1>5, <1>9
  <2> HIDE DEF E, here, top
  <2> QED
    BY <1>4, <1>10, <2>1, EvacuatedFacts
<1>12. /\ \A v \in managed : where'[v] = P[v]
       /\ where' \in [Windows -> DesktopIds \union {All}]
  BY <1>1, <1>6
<1>13. \A v \in managed : IF v \in E THEN where'[v] = heir
                         ELSE where'[v] = where[v] /\ where[v] \in (Desktops \ gone) \union {All}
  <2>1. \A v \in managed : where[v] \in Desktops \union {All}
    BY DEF Inv, NothingDangles
  <2> QED
    BY <1>1, <1>12, <2>1
<1> HIDE DEF E, P
<1>14. ChainsRight(ch, where', managed, U)
  BY <1>11, <1>12, SamePlacesRight
<1>15. chains' = [k \in Keys' |-> ch[k]] /\ Keys' \subseteq Keys
  BY <1>2, <1>5, <1>11 DEF Without
<1>16. chains' \in [Keys' -> Chain]
  BY <1>11, <1>15
<1>17. ChainsRight(chains', where', managed', unseen')
  <2>1. ASSUME NEW k \in Keys', NEW v \in ToSet(chains'[k]) PROVE v \in managed' /\ Belongs(k, v, where')
    BY <1>3, <1>11, <1>14, <1>15, <2>1 DEF ChainsRight
  <2>2. ASSUME NEW k \in Keys', NEW v \in managed', Belongs(k, v, where')
        PROVE  v \in ToSet(chains'[k]) \/ <<v, k>> \in unseen'
    <3>1. v \in ToSet(ch[k]) \/ <<v, k>> \in U
      BY <1>3, <1>11, <1>14, <1>15, <2>2 DEF ChainsRight
    <3>2. <<v, k>> \in U => <<v, k>> \in unseen'
      BY <1>2, <1>3
    <3> QED
      BY <1>15, <3>1, <3>2
  <2> QED
    BY <1>16, <2>1, <2>2 DEF ChainsRight
<1>18. chainDesktop' \in {None, newCurrent}
  BY <1>3 DEF Inv, NothingDangles
<1>19. TypeOK'
  <2>1. chains' \in [Desktops' \union {Recent} -> Seq(Windows)]
    BY <1>16, ChainIsSeq DEF Keys
  <2>2. unseen' \subseteq Windows \X DesktopIds
    BY <1>3 DEF Inv, TypeOK
  <2>3. desktops' \in Seq(DesktopIds) /\ desktops' # <<>> /\ IsInjective(desktops') /\ current' \in Desktops'
    BY <1>1, <1>2 DEF LeftOver
  <2>4. managed' \subseteq Windows /\ closing' \subseteq Windows \ managed'
    BY <1>3 DEF Inv, TypeOK
  <2>5. {activeWindow', chainActive'} \subseteq Windows \union {None} /\ chainDesktop' \in DesktopIds \union {None}
    BY <1>1, <1>3, <1>9, <1>18
  <2> QED
    BY <1>12, <2>1, <2>2, <2>3, <2>4, <2>5 DEF TypeOK
<1>20. NothingDangles'
  <2>1. DOMAIN chains' = Desktops' \union {Recent}
    BY <1>16 DEF Keys
  <2>2. \A v \in managed' : where'[v] \in Desktops' \union {All}
    BY <1>1, <1>2, <1>3, <1>13
  <2>3. activeWindow' # None => activeWindow' \in managed' /\ IsOnDesktop(activeWindow', current', where')
    <3>1. activeWindow' # None => where[activeWindow'] \notin gone
      BY <1>1, <1>8 DEF IsOnDesktop
    <3>2. activeWindow' # None => where'[activeWindow'] = where[activeWindow']
      BY <1>8, <1>13, <3>1 DEF E
    <3> QED
      BY <1>2, <1>3, <1>8, <3>2 DEF IsOnDesktop
  <2> QED
    BY <1>2, <1>3, <1>18, <2>1, <2>2, <2>3 DEF NothingDangles
<1> QED
  BY <1>16, <1>17, <1>19, <1>20 DEF Inv, ChainInv

\* The windows that were in sight on a current desktop that is removed are put
\* on the new one if that is where all the windows of it go.
LEMMA RemoveDesktopsFollow ==
    ASSUME Inv, NEW gone, NEW left, NEW newCurrent, NEW heir, LeftOver(gone, left, newCurrent, heir),
           RemoveDesktops(gone, left, newCurrent, heir), current \in gone => heir = newCurrent,
           current \notin ToSet(desktops'), NEW w \in managed, IsOnDesktop(w, current, where)
    PROVE  IsOnDesktop(w, current', where')
<1>1. desktops' = left /\ current' = newCurrent
  BY DEF RemoveDesktops
<1>2. where' = [v \in Windows |-> IF v \in {u \in managed : where[u] \in gone} THEN heir
                                  ELSE IF v \in closing /\ where[v] \in gone THEN All ELSE where[v]]
  BY DEF RemoveDesktops
<1>3. current \in Desktops /\ w \in Windows /\ w \notin closing
  BY InvFacts DEF Inv, TypeOK
<1>4. current \in gone /\ heir = newCurrent
  BY <1>1, <1>3 DEF LeftOver
<1>5. CASE where[w] \in gone
  BY <1>1, <1>2, <1>3, <1>4, <1>5 DEF IsOnDesktop
<1>6. CASE where[w] \notin gone
  BY <1>1, <1>2, <1>3, <1>4, <1>6 DEF IsOnDesktop
<1> QED
  BY <1>5, <1>6

\* removeVirtualDesktop() and setCount() call it so; and when the current
\* desktop is among those that go, the windows go to the new current one.
LEMMA RemoveCalls ==
    ASSUME Inv, NEW d \in DesktopIds, RemoveVirtualDesktop(d)
    PROVE  \E gone, left, newCurrent, heir :
               /\ LeftOver(gone, left, newCurrent, heir) /\ RemoveDesktops(gone, left, newCurrent, heir)
               /\ current \in gone => heir = newCurrent
<1> DEFINE n == IndexOf(desktops, d)
           left == RemoveAt(desktops, n)
           heir == Heir(n, left)
           c == IF d = current THEN heir ELSE current
<1>1. /\ desktops \in Seq(DesktopIds) /\ IsInjective(desktops) /\ Len(desktops) \in Nat /\ Len(desktops) > 1
      /\ d \in ToSet(desktops) /\ current \in ToSet(desktops) /\ ToSet(desktops) = Desktops
  BY DEF Inv, TypeOK, RemoveVirtualDesktop, Desktops
<1>2. n \in 1 .. Len(desktops) /\ desktops[n] = d
  BY <1>1, IndexOfFacts
<1>3. RemoveDesktops({d}, left, c, heir)
  BY DEF RemoveVirtualDesktop, Heir
<1> HIDE DEF n
<1>4. /\ left \in Seq(DesktopIds) /\ IsInjective(left) /\ ToSet(left) = Desktops \ {d}
      /\ Len(left) = Len(desktops) - 1
  BY <1>1, <1>2, RemoveAtFacts
<1> HIDE DEF left
<1>5. Len(left) \in Nat /\ Len(left) >= 1 /\ left # <<>>
  BY <1>1, <1>4
<1>6. \A i \in 1 .. Len(left) : left[i] \in ToSet(left)
  BY <1>4 DEF ToSet
<1>7. heir \in ToSet(left)
  <2> DEFINE i == IF n <= Len(left) THEN n ELSE Len(left)
  <2>1. i \in 1 .. Len(left) /\ heir = left[i]
    BY <1>1, <1>2, <1>5 DEF Heir
  <2> QED
    BY <1>6, <2>1
<1> HIDE DEF heir
<1>8. LeftOver({d}, left, c, heir)
  BY <1>1, <1>4, <1>5, <1>7 DEF LeftOver
<1>9. current \in {d} => heir = c
  OBVIOUS
<1> HIDE DEF c
<1> QED
  BY <1>3, <1>8, <1>9

LEMMA CountDownCalls ==
    ASSUME Inv, NEW count, SetCountDown(count)
    PROVE  \E gone, left, newCurrent, heir :
               /\ LeftOver(gone, left, newCurrent, heir) /\ RemoveDesktops(gone, left, newCurrent, heir)
               /\ current \in gone => heir = newCurrent
<1> DEFINE left == SubSeq(desktops, 1, count)
           gone == Desktops \ ToSet(left)
           c == IF current \in gone THEN Last(left) ELSE current
<1>1. /\ desktops \in Seq(DesktopIds) /\ IsInjective(desktops) /\ Len(desktops) \in Nat
      /\ current \in Desktops /\ ToSet(desktops) = Desktops
  BY DEF Inv, TypeOK, Desktops
<1>2. RemoveDesktops(gone, left, c, Last(left)) /\ count \in 1 .. Len(desktops) - 1
  BY DEF SetCountDown
<1>3. count \in 0 .. Len(desktops) /\ count >= 1
  BY <1>1, <1>2
<1>4. /\ left \in Seq(DesktopIds) /\ IsInjective(left) /\ Len(left) = count
      /\ ToSet(left) = {desktops[i] : i \in 1 .. count}
  BY <1>1, <1>3, SubSeqFacts
<1>5. ToSet(left) \subseteq Desktops
  <2>1. \A i \in 1 .. count : i \in DOMAIN desktops
    BY <1>1, <1>3
  <2> QED
    BY <1>1, <1>4, <2>1 DEF ToSet
<1> HIDE DEF left
<1>6. left # <<>> /\ Last(left) \in ToSet(left)
  <2>1. Len(left) \in DOMAIN left /\ left # <<>>
    BY <1>3, <1>4
  <2> QED
    BY <2>1 DEF Last, ToSet
<1>7. LeftOver(gone, left, c, Last(left))
  BY <1>1, <1>4, <1>5, <1>6 DEF LeftOver
<1>8. current \in gone => Last(left) = c
  OBVIOUS
<1> HIDE DEF gone, c
<1> QED
  BY <1>2, <1>7, <1>8

-----------------------------------------------------------------------------
(* The theorems. *)

LEMMA NextInv == Inv /\ [Next]_vars => Inv'
<1> SUFFICES ASSUME Inv, [Next]_vars PROVE Inv'
  OBVIOUS
<1>1. ASSUME NEW w \in Windows, NEW d \in Desktops \union {All}, Manage(w, d) \/ SendWindowToDesktop(w, d) PROVE Inv'
  BY <1>1, ManageInv, SendInv
<1>2. ASSUME NEW w \in Windows, SetActiveWindow(w) \/ MapRequest(w) \/ CloseWindow(w) \/ WindowGone(w) PROVE Inv'
  BY <1>2, SetActiveWindowInv, MapRequestInv, CloseWindowInv, WindowGoneInv
<1>3. ASSUME NEW w \in Windows, NEW ref \in Windows, StackBelow(w, ref) \/ StackAbove(w, ref) PROVE Inv'
  BY <1>3, StackInv
<1>4. CASE Deactivate
  BY <1>4, DeactivateInv
<1>5. ASSUME NEW d \in DesktopIds, NEW position \in 1 .. Len(desktops) + 1, CreateVirtualDesktop(d, position) PROVE Inv'
  BY <1>5, CreateInv
<1>6. ASSUME NEW d \in DesktopIds, NEW dragged \in Windows \union {None}, SetCurrent(d, dragged) PROVE Inv'
  BY <1>6, SetCurrentInv
<1>7. ASSUME NEW d \in DesktopIds, RemoveVirtualDesktop(d) PROVE Inv'
  BY <1>7, RemoveCalls, RemoveDesktopsInv
<1>8. ASSUME NEW count \in 1 .. MaxDesktops, SetCountDown(count) PROVE Inv'
  BY <1>8, CountDownCalls, RemoveDesktopsInv
<1>9. ASSUME NEW count \in 1 .. MaxDesktops, SetCountUp(count) PROVE Inv'
  BY <1>9, SetCountUpInv
<1>10. CASE UNCHANGED vars
  <2>1. UNCHANGED <<desktops, current, managed, closing, where, activeWindow, chains, chainDesktop, chainActive, unseen>>
    BY <1>10 DEF vars, managerVars, windowVars, chainVars
  <2>2. Desktops' = Desktops /\ Keys' = Keys
    BY <2>1, SameDesktops
  <2> QED
    BY <2>1, <2>2 DEF Inv, TypeOK, NothingDangles, ChainInv
<1> QED
  BY <1>1, <1>2, <1>3, <1>4, <1>5, <1>6, <1>7, <1>8, <1>9, <1>10 DEF Next

LEMMA Invariance == Spec => []Inv
<1>1. Init => Inv
  BY InitInv
<1>2. Inv /\ [Next]_vars => Inv'
  BY NextInv
<1> QED
  BY <1>1, <1>2, PTL DEF Spec

\* Every variable has its type in every reachable state.
THEOREM TypeCorrect == Spec => []TypeOK
<1>1. Inv => TypeOK
  BY DEF Inv
<1> QED
  BY <1>1, Invariance, PTL

\* Every desktop has its chain, and nobody refers to a desktop or a window that
\* is gone, however windows and desktops come and go.
THEOREM NothingIsLeftBehind == Spec => []NothingDangles
<1>1. Inv => NothingDangles
  BY DEF Inv
<1> QED
  BY <1>1, Invariance, PTL

\* What a chain offers is a window that is not closed and can be seen on the
\* desktop of the chain.
THEOREM ChainsOfferTheirOwn == Spec => []MembersBelong
<1>1. Inv => MembersBelong
  BY DEF Inv, ChainInv, ChainsRight, Belongs, MembersBelong
<1> QED
  BY <1>1, Invariance, PTL

\* No window is lost, and none is twice in a chain: a managed window is exactly
\* once in the list of the task switcher and in the chain of every desktop it is
\* on, but for desktops added since it was put on all of them.
THEOREM EveryWindowOnce == Spec => []NoneMissing
<1>1. Inv => NoneMissing
  <2> SUFFICES ASSUME Inv, NEW k \in DOMAIN chains, NEW w \in managed,
                      k = Recent \/ IsOnDesktop(w, k, where), <<w, k>> \notin unseen
               PROVE  Cardinality({i \in DOMAIN chains[k] : chains[k][i] = w}) = 1
    BY DEF NoneMissing
  <2>1. w \in ToSet(chains[k])
    BY DEF Inv, ChainInv, ChainsRight, Belongs
  <2>2. IsInjective(chains[k])
    BY DEF Inv, ChainInv, Chain
  <2>3. PICK i \in DOMAIN chains[k] : chains[k][i] = w
    BY <2>1 DEF ToSet
  <2>4. {j \in DOMAIN chains[k] : chains[k][j] = w} = {i}
    BY <2>2, <2>3 DEF IsInjective
  <2> QED
    BY <2>4, FS_Singleton
<1> QED
  BY <1>1, Invariance, PTL

\* When the current desktop is removed, its windows go to the desktop that is
\* current from then on, which two objects choose independently of each other.
THEOREM InSightStaysInSight == Spec => WindowsFollow
<1> DEFINE Follow == \A w \in managed :
                         current \notin ToSet(desktops') /\ IsOnDesktop(w, current, where) => IsOnDesktop(w, current', where')
<1>1. Inv /\ [Next]_vars => [Follow]_vars
  <2> SUFFICES ASSUME Inv, Next, NEW w \in managed,
                      current \notin ToSet(desktops'), IsOnDesktop(w, current, where)
               PROVE  IsOnDesktop(w, current', where')
    OBVIOUS
  <2>1. desktops \in Seq(DesktopIds) /\ IsInjective(desktops) /\ current \in ToSet(desktops)
    BY DEF Inv, TypeOK, Desktops
  <2>2. CASE UNCHANGED desktops
    BY <2>1, <2>2
  <2>3. ASSUME NEW d \in DesktopIds, NEW position \in 1 .. Len(desktops) + 1, CreateVirtualDesktop(d, position) PROVE FALSE
    <3>1. d \notin ToSet(desktops) /\ desktops' = InsertAt(desktops, position, d)
      BY <2>3 DEF CreateVirtualDesktop, Desktops
    <3> QED
      BY <2>1, <3>1, InsertAtFacts
  <2>4. ASSUME NEW count \in 1 .. MaxDesktops, SetCountUp(count) PROVE FALSE
    <3>1. Desktops \subseteq ToSet(desktops')
      BY <2>4, CountUpCalls
    <3> QED
      BY <2>1, <3>1 DEF Desktops
  <2>5. ASSUME NEW d \in DesktopIds, RemoveVirtualDesktop(d) PROVE IsOnDesktop(w, current', where')
    BY <2>5, RemoveCalls, RemoveDesktopsFollow
  <2>6. ASSUME NEW count \in 1 .. MaxDesktops, SetCountDown(count) PROVE IsOnDesktop(w, current', where')
    BY <2>6, CountDownCalls, RemoveDesktopsFollow
  <2>7. \/ UNCHANGED desktops
        \/ \E d \in DesktopIds : RemoveVirtualDesktop(d) \/ \E position \in 1 .. Len(desktops) + 1 : CreateVirtualDesktop(d, position)
        \/ \E count \in 1 .. MaxDesktops : SetCountDown(count) \/ SetCountUp(count)
    BY DEF Next, Manage, SendWindowToDesktop, SetActiveWindow, MapRequest, CloseWindow, WindowGone, StackBelow, StackAbove,
           Deactivate, SetCurrent, managerVars
  <2> QED
    BY <2>2, <2>3, <2>4, <2>5, <2>6, <2>7
<1> QED
  BY <1>1, Invariance, PTL DEF Spec, WindowsFollow
=============================================================================
