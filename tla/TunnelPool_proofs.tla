-------------------------- MODULE TunnelPool_proofs --------------------------
(***************************************************************************)
(* Proofs about TunnelPool, for any tunnels, weights, pickers and bounds.  *)
(***************************************************************************)
EXTENDS TunnelPool, FiniteSetTheorems, WellFoundedInduction, TLAPS

-----------------------------------------------------------------------------
(* The ring *)

\* The induction of this section: a set of naturals has a least element.
LEMMA LeastNat ==
  ASSUME NEW T \in SUBSET Nat, T # {}
  PROVE  \E n \in T : \A m \in T : n <= m
<1>1. PICK n \in T : \A m \in T : <<m, n>> \notin OpToRel(<, Nat)
  BY NatLessThanWellFounded, WFMin
<1>2. \A m \in T : ~ m < n
  BY <1>1 DEF OpToRel
<1> QED
  BY <1>2

\* The ring of no tunnels is empty and each tunnel adds its block, so that the
\* function is well defined.
LEMMA RingSteps ==
  /\ DOMAIN ringUpTo = 0..Len(Weights)
  /\ ringUpTo[0] = <<>>
  /\ \A n \in 1..Len(Weights) : ringUpTo[n] = ringUpTo[n - 1] \o Block(n)
<1> DEFINE step(g, n) ==
             [k \in 0..n |-> IF k = 0 THEN <<>> ELSE g[k - 1] \o Block(k)]
           Undefined == {n \in Nat : ~ \E g : g = step(g, n)}
<1>s. ASSUME NEW g, NEW n \in Nat, NEW k \in 0..n
      PROVE  step(g, n)[k] = IF k = 0 THEN <<>> ELSE g[k - 1] \o Block(k)
  OBVIOUS
<1>d. \A g, n : DOMAIN step(g, n) = 0..n
  OBVIOUS
<1>e. ASSUME NEW n \in Nat, NEW h, h = [k \in 0..n |-> h[k]],
             \A k \in 0..n : h[k] = IF k = 0 THEN <<>> ELSE h[k - 1] \o Block(k)
      PROVE  h = step(h, n)
  BY <1>e
<1> HIDE DEF step
<1>1. Undefined = {}
  <2> SUFFICES ASSUME Undefined # {} PROVE FALSE
    OBVIOUS
  <2>1. PICK n \in Undefined : \A m \in Undefined : n <= m
    BY LeastNat
  <2>2. CASE n = 0
    <3> DEFINE g == [k \in 0..0 |-> <<>>]
    <3>1. g = step(g, 0)
      <4>1. \A k \in 0..0 : g[k] = IF k = 0 THEN <<>> ELSE g[k - 1] \o Block(k)
        OBVIOUS
      <4>2. g = [k \in 0..0 |-> g[k]]
        OBVIOUS
      <4> HIDE DEF g
      <4> QED
        BY <1>e, <4>1, <4>2
    <3> QED
      BY <2>1, <2>2, <3>1
  <2>3. CASE n # 0
    <3>1. n - 1 \in Nat /\ n - 1 \notin Undefined /\ n \in Nat
      <4>1. n \in Nat
        OBVIOUS
      <4> HIDE DEF Undefined
      <4> QED
        BY <2>1, <2>3, <4>1
    <3>2. PICK g : g = step(g, n - 1)
      BY <3>1
    <3>3. \A k \in 0..(n - 1) : g[k] = IF k = 0 THEN <<>> ELSE g[k - 1] \o Block(k)
      BY <1>s, <3>1, <3>2
    <3> DEFINE h == [k \in 0..n |-> IF k = n THEN g[n - 1] \o Block(n) ELSE g[k]]
    <3>4. h = [k \in 0..n |-> h[k]] /\ h[n] = g[n - 1] \o Block(n)
      BY <3>1
    <3>5. \A k \in 0..(n - 1) : h[k] = g[k]
      BY <3>1
    <3> HIDE DEF h
    <3>6. ASSUME NEW k \in 0..n
          PROVE  h[k] = IF k = 0 THEN <<>> ELSE h[k - 1] \o Block(k)
      <4>1. CASE k = n
        <5>1. k # 0 /\ k - 1 = n - 1 /\ n - 1 \in 0..(n - 1)
          BY <2>3, <3>1, <4>1
        <5> QED
          BY <3>4, <3>5, <4>1, <5>1
      <4>2. CASE k # n
        <5>1. k \in 0..(n - 1) /\ (k # 0 => k - 1 \in 0..(n - 1))
          BY <3>1, <4>2
        <5> QED
          BY <3>3, <3>5, <5>1
      <4> QED
        BY <4>1, <4>2
    <3>7. h = step(h, n)
      BY <1>e, <3>1, <3>4, <3>6
    <3> QED
      BY <2>1, <3>7
  <2> QED
    BY <2>2, <2>3
<1>2. Len(Weights) \in Nat
  BY WeightsAssumption
<1>3. \E g : g = step(g, Len(Weights))
  BY <1>1, <1>2
<1>4. ringUpTo = step(ringUpTo, Len(Weights))
  <2>1. ringUpTo = CHOOSE g : g = step(g, Len(Weights))
    BY DEF ringUpTo, step
  <2> QED
    BY <1>3, <2>1
<1>5. DOMAIN ringUpTo = 0..Len(Weights)
  BY <1>d, <1>4
<1>6. \A n \in 0..Len(Weights) :
        ringUpTo[n] = IF n = 0 THEN <<>> ELSE ringUpTo[n - 1] \o Block(n)
  BY <1>s, <1>2, <1>4
<1> QED
  BY <1>2, <1>5, <1>6

\* Where the block of a tunnel lies.
Weight(b) == EffectiveWeight(Weights[b])
Start(b) == Len(ringUpTo[b - 1])

RingShape(n) ==
  /\ ringUpTo[n] \in Seq(1..n)
  /\ \A b \in 1..n :
       /\ Start(b) \in Nat /\ Start(b) + Weight(b) <= Len(ringUpTo[n])
       /\ \A i \in 1..Len(ringUpTo[n]) :
            ringUpTo[n][i] = b <=> i \in (Start(b) + 1)..(Start(b) + Weight(b))

LEMMA WeightType == \A b \in Bearers : Weight(b) \in Nat \ {0} /\ Weight(b) = Share(b)
  BY WeightsAssumption DEF Weight, EffectiveWeight, Share, Bearers

LEMMA WidenSeq ==
  ASSUME NEW A, NEW B, A \subseteq B, NEW s \in Seq(A)
  PROVE  s \in Seq(B)
  OBVIOUS

LEMMA JoinSeq ==
  ASSUME NEW A, NEW s \in Seq(A), NEW t \in Seq(A)
  PROVE  /\ s \o t \in Seq(A) /\ Len(s \o t) = Len(s) + Len(t)
         /\ Len(s) \in Nat /\ Len(t) \in Nat
         /\ \A i \in 1..Len(s) : s[i] \in A /\ (s \o t)[i] = s[i]
         /\ \A i \in 1..(Len(s) + Len(t)) :
              i > Len(s) => i - Len(s) \in 1..Len(t) /\ (s \o t)[i] = t[i - Len(s)]
  OBVIOUS

LEMMA AllRingShapes == \A n \in 0..Len(Weights) : RingShape(n)
<1> DEFINE Bad == {n \in 0..Len(Weights) : ~ RingShape(n)}
<1> SUFFICES ASSUME Bad # {} PROVE FALSE
  OBVIOUS
<1>l. Len(Weights) \in Nat
  BY WeightsAssumption
<1>1. PICK n \in Bad : \A m \in Bad : n <= m
  <2>1. Bad \subseteq Nat
    BY <1>l
  <2> QED
    BY <2>1, LeastNat
<1>2. n \in 0..Len(Weights) /\ ~ RingShape(n)
  OBVIOUS
<1>3. n # 0
  <2>1. RingShape(0)
    BY RingSteps DEF RingShape
  <2> QED
    BY <1>2, <2>1
<1>4. n - 1 \in 0..Len(Weights) /\ n \in 1..Len(Weights) /\ n \in Bearers
  BY <1>2, <1>3, <1>l DEF Bearers
<1>5. RingShape(n - 1)
  <2>1. n - 1 \notin Bad
    <3> HIDE DEF Bad
    <3> QED
      BY <1>1, <1>4
  <2> QED
    BY <1>4, <2>1
<1> HIDE DEF Bad
<1> DEFINE s == ringUpTo[n - 1]
           t == Block(n)
           w == Weight(n)
           r == ringUpTo[n]
<1>6. w \in Nat \ {0} /\ n \in Nat
  BY <1>4, <1>l, WeightType
<1>7. t \in Seq({n}) /\ Len(t) = w /\ \A i \in 1..w : t[i] = n
  BY <1>6 DEF Block, Weight
<1>8. s \in Seq(1..(n - 1))
  BY <1>5 DEF RingShape
<1>9. r = s \o t
  BY <1>4, RingSteps
<1> HIDE DEF s, t, w, r
<1>a. 1..(n - 1) \subseteq 1..n /\ {n} \subseteq 1..n
  BY <1>6, <1>3
<1>b. s \in Seq(1..n) /\ t \in Seq(1..n)
  BY <1>a, <1>7, <1>8, WidenSeq
<1>10. /\ r \in Seq(1..n) /\ Len(r) = Len(s) + w /\ Len(s) \in Nat
       /\ \A i \in 1..Len(s) : r[i] = s[i]
       /\ \A i \in 1..Len(r) : i > Len(s) => r[i] = n
  <2>1. /\ r \in Seq(1..n) /\ Len(r) = Len(s) + Len(t) /\ Len(s) \in Nat
        /\ \A i \in 1..Len(s) : r[i] = s[i]
        /\ \A i \in 1..(Len(s) + Len(t)) :
             i > Len(s) => i - Len(s) \in 1..Len(t) /\ r[i] = t[i - Len(s)]
    BY <1>9, <1>b, JoinSeq
  <2> QED
    BY <1>6, <1>7, <2>1
<1>11. \A i \in 1..Len(s) : s[i] \in 1..(n - 1)
  BY <1>8, JoinSeq
<1>12. ASSUME NEW b \in 1..n
       PROVE  /\ Start(b) \in Nat /\ Start(b) + Weight(b) <= Len(r)
              /\ \A i \in 1..Len(r) :
                   r[i] = b <=> i \in (Start(b) + 1)..(Start(b) + Weight(b))
  <2>1. CASE b = n
    <3>1. Start(b) = Len(s) /\ Weight(b) = w
      BY <2>1 DEF Start, s, w
    <3>2. ASSUME NEW i \in 1..Len(r)
          PROVE  r[i] = n <=> i \in (Len(s) + 1)..(Len(s) + w)
      <4>1. CASE i <= Len(s)
        <5>1. i \in 1..Len(s)
          BY <1>10, <4>1
        <5>2. r[i] \in 1..(n - 1)
          BY <1>10, <1>11, <5>1
        <5> QED
          BY <1>6, <1>10, <4>1, <5>2
      <4>2. CASE i > Len(s)
        BY <1>6, <1>10, <4>2
      <4> QED
        BY <1>10, <4>1, <4>2
    <3> QED
      BY <1>6, <1>10, <2>1, <3>1, <3>2
  <2>2. CASE b # n
    <3>1. b \in 1..(n - 1) /\ b \in Bearers
      BY <1>4, <1>6, <1>l, <2>2 DEF Bearers
    <3>2. /\ Start(b) \in Nat /\ Start(b) + Weight(b) <= Len(s)
          /\ \A i \in 1..Len(s) :
               s[i] = b <=> i \in (Start(b) + 1)..(Start(b) + Weight(b))
      BY <1>5, <3>1 DEF RingShape, s
    <3>3. Weight(b) \in Nat
      BY <3>1, WeightType
    <3>4. ASSUME NEW i \in 1..Len(r)
          PROVE  r[i] = b <=> i \in (Start(b) + 1)..(Start(b) + Weight(b))
      <4>1. CASE i <= Len(s)
        <5>1. i \in 1..Len(s)
          BY <1>10, <4>1
        <5> QED
          BY <1>10, <3>2, <5>1
      <4>2. CASE i > Len(s)
        BY <1>10, <2>2, <3>2, <3>3, <4>2
      <4> QED
        BY <1>10, <4>1, <4>2
    <3> QED
      BY <1>6, <1>10, <3>2, <3>3, <3>4
  <2> QED
    BY <2>1, <2>2
<1>13. RingShape(n)
  BY <1>10, <1>12 DEF RingShape, r
<1> QED
  BY <1>2, <1>13

\* Each tunnel has as many slots of the ring as it weighs, at least one.
LEMMA RingFacts ==
  /\ Ring \in Seq(Bearers) /\ Slots \in Nat \ {0}
  /\ \A b \in Bearers :
       /\ \E i \in 1..Slots : Ring[i] = b
       /\ IsFiniteSet({i \in 1..Slots : Ring[i] = b})
       /\ Cardinality({i \in 1..Slots : Ring[i] = b}) = Share(b)
<1>1. /\ Len(Weights) \in Nat \ {0} /\ Len(Weights) \in 0..Len(Weights)
      /\ Bearers = 1..Len(Weights)
  BY WeightsAssumption DEF Bearers
<1>2. RingShape(Len(Weights))
  BY <1>1, AllRingShapes
<1>3. Ring \in Seq(Bearers) /\ Slots \in Nat
  BY <1>1, <1>2 DEF RingShape, Ring, Slots
<1>4. ASSUME NEW b \in Bearers
      PROVE  /\ Slots # 0
             /\ \E i \in 1..Slots : Ring[i] = b
             /\ IsFiniteSet({i \in 1..Slots : Ring[i] = b})
             /\ Cardinality({i \in 1..Slots : Ring[i] = b}) = Share(b)
  <2> DEFINE lo == Start(b) + 1
             hi == Start(b) + Weight(b)
  <2>1. /\ Start(b) \in Nat /\ Start(b) + Weight(b) <= Slots
        /\ \A i \in 1..Slots : Ring[i] = b <=> i \in lo..hi
    BY <1>1, <1>2 DEF RingShape, Ring, Slots
  <2>2. Weight(b) \in Nat \ {0} /\ Weight(b) = Share(b)
    BY WeightType
  <2>3. /\ lo \in Int /\ hi \in Int /\ lo <= hi /\ hi - lo + 1 = Share(b)
        /\ 1 <= lo /\ hi <= Slots
    BY <1>3, <2>1, <2>2
  <2> HIDE DEF lo, hi
  <2>4. {i \in 1..Slots : Ring[i] = b} = lo..hi
    <3>1. \A i : i \in lo..hi => i \in 1..Slots
      BY <1>3, <2>3
    <3> QED
      BY <2>1, <3>1
  <2>5. IsFiniteSet(lo..hi) /\ Cardinality(lo..hi) = hi - lo + 1
    BY <2>3, FS_Interval
  <2>6. lo \in lo..hi /\ lo \in 1..Slots /\ Slots # 0
    BY <1>3, <2>3
  <2>7. Cardinality({i \in 1..Slots : Ring[i] = b}) = Share(b)
    BY <2>3, <2>4, <2>5
  <2> QED
    BY <2>1, <2>4, <2>5, <2>6, <2>7
<1>5. 1 \in Bearers
  BY <1>1
<1> QED
  BY <1>3, <1>4, <1>5

-----------------------------------------------------------------------------
(* Type correctness *)

\* Between calls a picker holds nothing, and it holds a bearer only inside the
\* walk of the ring.
IdleInv ==
  \A p \in Pickers :
    /\ pick[p].at = "idle" => pick[p] = Idle
    /\ pick[p].at \in {"check", "send"} =>
         pick[p].attempt < Slots /\ pick[p].bearer \in Bearers

PickInv == TypeOK /\ IdleInv

LEMMA AttemptsType ==
  /\ Attempts \in Nat \ {0} /\ Len(Weights) \in Nat \ {0}
  /\ Bearers = 1..Len(Weights)
  /\ DispatchRetries <= 0 => Attempts = Len(Weights)
  BY WeightsAssumption, RetriesAssumption DEF Attempts, Bearers

PickRecord == [at : {"idle", "next", "check", "send"}, attempt : 0..Slots,
               bearer : 0..Len(Weights), tries : 0..(Attempts - 1)]

LEMMA IdleType == Idle \in PickRecord /\ Idle.at = "idle"
  BY AttemptsType, RingFacts DEF Idle, PickRecord

Call4(at, attempt, bearer, tries) ==
  [at |-> at, attempt |-> attempt, bearer |-> bearer, tries |-> tries]

LEMMA RecordType ==
  ASSUME NEW at \in {"idle", "next", "check", "send"}, NEW attempt \in 0..Slots,
         NEW bearer \in 0..Len(Weights), NEW tries \in 0..(Attempts - 1)
  PROVE  /\ Call4(at, attempt, bearer, tries) \in PickRecord
         /\ Call4(at, attempt, bearer, tries).at = at
         /\ Call4(at, attempt, bearer, tries).attempt = attempt
         /\ Call4(at, attempt, bearer, tries).bearer = bearer
         /\ Call4(at, attempt, bearer, tries).tries = tries
  BY DEF Call4, PickRecord

LEMMA RetryCall ==
  ASSUME NEW n
  PROVE  [Idle EXCEPT !.at = "next", !.tries = n] = Call4("next", 0, 0, n)
<1>1. [Idle EXCEPT !.at = "next"] = Call4("next", 0, 0, 0)
  BY DEF Idle, Call4
<1>2. [Call4("next", 0, 0, 0) EXCEPT !.tries = n] = Call4("next", 0, 0, n)
  BY DEF Call4
<1> QED
  BY <1>1, <1>2

LEMMA RecordParts ==
  ASSUME NEW r \in PickRecord
  PROVE  /\ r.at \in {"idle", "next", "check", "send"} /\ r.attempt \in 0..Slots
         /\ r.bearer \in 0..Len(Weights) /\ r.tries \in 0..(Attempts - 1)
         /\ r = Call4(r.at, r.attempt, r.bearer, r.tries)
  BY DEF Call4, PickRecord

LEMMA RecordMoves ==
  ASSUME NEW r \in PickRecord
  PROVE  /\ \A x : [r EXCEPT !.at = x] = Call4(x, r.attempt, r.bearer, r.tries)
         /\ \A x, y : [r EXCEPT !.at = x, !.bearer = y] = Call4(x, r.attempt, y, r.tries)
         /\ \A x, y : [r EXCEPT !.at = x, !.attempt = y] = Call4(x, y, r.bearer, r.tries)
<1>1. /\ DOMAIN r = {"at", "attempt", "bearer", "tries"}
      /\ r = [k \in DOMAIN r |-> r[k]]
  BY DEF PickRecord
<1>2. ASSUME NEW x
      PROVE  [r EXCEPT !.at = x] = Call4(x, r.attempt, r.bearer, r.tries)
  BY <1>1 DEF Call4
<1>3. ASSUME NEW x, NEW y
      PROVE  [r EXCEPT !.at = x, !.bearer = y] = Call4(x, r.attempt, y, r.tries)
  <2>1. [r EXCEPT !.at = x, !.bearer = y]
          = [k \in {"at", "attempt", "bearer", "tries"} |->
               IF k = "bearer" THEN y ELSE IF k = "at" THEN x ELSE r[k]]
    BY <1>1
  <2> QED
    BY <2>1 DEF Call4
<1>4. ASSUME NEW x, NEW y
      PROVE  [r EXCEPT !.at = x, !.attempt = y] = Call4(x, y, r.bearer, r.tries)
  <2>1. [r EXCEPT !.at = x, !.attempt = y]
          = [k \in {"at", "attempt", "bearer", "tries"} |->
               IF k = "attempt" THEN y ELSE IF k = "at" THEN x ELSE r[k]]
    BY <1>1
  <2> QED
    BY <2>1 DEF Call4
<1> QED
  BY <1>2, <1>3, <1>4

LEMMA InitPickInv == Init => PickInv
<1> SUFFICES ASSUME Init PROVE PickInv
  OBVIOUS
<1>1. pick \in [Pickers -> PickRecord] /\ \A p \in Pickers : pick[p] = Idle
  BY IdleType DEF Init
<1>2. calm \in [Pickers -> BOOLEAN]
  BY Zenon DEF Init
<1>3. /\ counter \in Nat /\ healthy \in SUBSET Bearers
      /\ result \in [Pickers -> -1..Len(Weights)]
      /\ steady \in [Pickers -> SUBSET Bearers]
      /\ picked \in [Bearers -> Nat] /\ calls \in 0..MaxCalls /\ flips \in 0..MaxFlips
  BY AttemptsType, PickBounds DEF Init
<1> QED
  BY <1>1, <1>2, <1>3, IdleType DEF PickInv, TypeOK, IdleInv, PickRecord

\* What one step does to the call of a picker.
LEMMA PickMoves ==
  ASSUME PickInv, NEW p \in Pickers, NEW c,
         pick' = [pick EXCEPT ![p] = c], c \in PickRecord,
         c.at = "idle" => c = Idle,
         c.at \in {"check", "send"} => c.attempt < Slots /\ c.bearer \in Bearers
  PROVE  pick' \in [Pickers -> PickRecord] /\ IdleInv'
<1>1. pick \in [Pickers -> PickRecord]
  BY DEF PickInv, TypeOK, PickRecord
<1>2. \A q \in Pickers : pick'[q] = IF q = p THEN c ELSE pick[q]
  BY <1>1
<1> QED
  BY <1>1, <1>2 DEF PickInv, IdleInv

\* The slot that a walk looks at.
SlotAt(j) == Ring[1 + (j % Slots)]

LEMMA SlotType == \A j \in Int : SlotAt(j) \in Bearers /\ 1 + (j % Slots) \in 1..Slots
<1> TAKE j \in Int
<1>1. 1 + (j % Slots) \in 1..Slots
  BY RingFacts
<1> QED
  BY <1>1, RingFacts DEF SlotAt, Slots

LEMMA NextPickInv == PickInv /\ [Next]_vars => PickInv'
<1> SUFFICES ASSUME PickInv, [Next]_vars PROVE PickInv'
  OBVIOUS
<1> USE AttemptsType, RingFacts, PickBounds
<1>t. /\ pick \in [Pickers -> PickRecord] /\ counter \in Nat /\ healthy \in SUBSET Bearers
      /\ result \in [Pickers -> -1..Len(Weights)]
      /\ steady \in [Pickers -> SUBSET Bearers]
      /\ picked \in [Bearers -> Nat] /\ calls \in 0..MaxCalls /\ flips \in 0..MaxFlips
  BY DEF PickInv, TypeOK, PickRecord
<1>c. calm \in [Pickers -> BOOLEAN]
  BY DEF PickInv, TypeOK
<1>q. ASSUME pick' \in [Pickers -> PickRecord], IdleInv', counter' \in Nat,
             healthy' \in SUBSET Bearers, result' \in [Pickers -> -1..Len(Weights)],
             steady' \in [Pickers -> SUBSET Bearers], calm' \in [Pickers -> BOOLEAN],
             picked' \in [Bearers -> Nat], calls' \in 0..MaxCalls,
             flips' \in 0..MaxFlips
      PROVE  PickInv'
  BY <1>q DEF PickInv, TypeOK, PickRecord
<1>r. ASSUME NEW p \in Pickers, NEW value \in 0..Len(Weights), Return(p, value)
      PROVE  /\ pick' \in [Pickers -> PickRecord] /\ IdleInv'
             /\ result' \in [Pickers -> -1..Len(Weights)]
             /\ UNCHANGED <<counter, calm, picked, calls>>
  <2>1. pick' \in [Pickers -> PickRecord] /\ IdleInv'
    <3>1. pick' = [pick EXCEPT ![p] = Idle]
      BY <1>r DEF Return
    <3> QED
      BY <3>1, PickMoves, IdleType
  <2> QED
    BY <1>r, <1>t, <2>1 DEF Return
<1>l. ASSUME NEW b \in Bearers, Lose(b)
      PROVE  /\ healthy' \in SUBSET Bearers /\ steady' \in [Pickers -> SUBSET Bearers]
             /\ flips' \in 0..MaxFlips
  BY <1>l, <1>t DEF Lose
<1>y. ASSUME NEW p \in Pickers, Retry(p)
      PROVE  /\ pick' \in [Pickers -> PickRecord] /\ IdleInv'
             /\ result' \in [Pickers -> -1..Len(Weights)]
             /\ UNCHANGED <<counter, calm, picked, calls>>
  <2>1. CASE pick[p].tries + 1 = Attempts
    BY <1>r, <1>y, <2>1 DEF Retry
  <2>2. CASE pick[p].tries + 1 # Attempts
    <3> DEFINE c == Call4("next", 0, 0, pick[p].tries + 1)
    <3>1. pick[p].tries \in 0..(Attempts - 1)
      BY <1>t DEF PickRecord
    <3>2. c \in PickRecord /\ c.at = "next"
      <4>1. pick[p].tries + 1 \in 0..(Attempts - 1)
        BY <2>2, <3>1
      <4> QED
        BY <4>1, RecordType
    <3>3. pick' = [pick EXCEPT ![p] = c] /\ UNCHANGED <<counter, result, calm, picked, calls>>
      <4>1. [Idle EXCEPT !.at = "next", !.tries = pick[p].tries + 1] = c
        BY RetryCall
      <4> QED
        BY <1>y, <2>2, <4>1 DEF Retry
    <3> HIDE DEF c
    <3> QED
      BY <1>t, <3>2, <3>3, PickMoves
  <2> QED
    BY <2>1, <2>2
<1>p. ASSUME NEW p \in Pickers
      PROVE  /\ pick[p] \in PickRecord /\ pick[p].attempt \in 0..Slots
             /\ pick[p].bearer \in 0..Len(Weights)
             /\ pick[p].tries \in 0..(Attempts - 1)
             /\ pick[p] = Call4(pick[p].at, pick[p].attempt, pick[p].bearer, pick[p].tries)
  BY <1>t, RecordParts
<1>1. ASSUME NEW p \in Pickers, Call(p)
      PROVE  PickInv'
  <2> DEFINE c == Call4("next", pick[p].attempt, pick[p].bearer, pick[p].tries)
  <2>1. c \in PickRecord /\ c.at = "next"
    BY SMTT(30), <1>p, RecordType
  <2>2. pick' = [pick EXCEPT ![p] = c]
    <3>1. pick' = [pick EXCEPT ![p] = [pick[p] EXCEPT !.at = "next"]]
      BY <1>1, <1>t DEF Call
    <3> QED
      BY <1>p, <3>1, RecordMoves
  <2> HIDE DEF c
  <2>3. pick' \in [Pickers -> PickRecord] /\ IdleInv'
    BY <2>1, <2>2, PickMoves
  <2>4. calm' \in [Pickers -> BOOLEAN]
    BY <1>1, <1>c, Zenon DEF Call
  <2>5. calls' \in 0..MaxCalls /\ steady' \in [Pickers -> SUBSET Bearers]
    BY SMTT(30), <1>1, <1>t DEF Call
  <2> QED
    BY <1>1, <1>t, <1>q, <2>3, <2>4, <2>5 DEF Call
<1>2. ASSUME NEW p \in Pickers, NextSlot(p)
      PROVE  PickInv'
  <2> DEFINE c == Call4("check", pick[p].attempt, SlotAt(counter), pick[p].tries)
  <2>1. c \in PickRecord /\ c.at = "check" /\ c.attempt < Slots /\ c.bearer \in Bearers
    <3>1. SlotAt(counter) \in Bearers /\ SlotAt(counter) \in 0..Len(Weights)
      <4>1. counter \in Int
        BY <1>t
      <4>2. SlotAt(counter) \in Bearers
        BY <4>1, SlotType
      <4> QED
        BY <4>2
    <3>2. pick[p].attempt < Slots
      BY <1>2 DEF NextSlot
    <3> QED
      BY <1>p, <3>1, <3>2, RecordType
  <2>2. pick' = [pick EXCEPT ![p] = c]
    <3>1. pick' = [pick EXCEPT ![p] = [pick[p] EXCEPT !.at = "check", !.bearer = SlotAt(counter)]]
      BY <1>2, <1>t DEF NextSlot, SlotAt
    <3> QED
      BY <1>p, <3>1, RecordMoves
  <2> HIDE DEF c
  <2>3. pick' \in [Pickers -> PickRecord] /\ IdleInv'
    BY <2>1, <2>2, PickMoves
  <2>4. calm' \in [Pickers -> BOOLEAN]
    BY <1>2, <1>c, Zenon DEF NextSlot
  <2> QED
    BY SMTT(30), <1>2, <1>t, <1>q, <2>3, <2>4 DEF NextSlot
<1>3. ASSUME NEW p \in Pickers, Found(p)
      PROVE  PickInv'
  <2> DEFINE c == Call4("send", pick[p].attempt, pick[p].bearer, pick[p].tries)
  <2>1. pick[p].attempt < Slots /\ pick[p].bearer \in Bearers
    BY <1>3 DEF Found, PickInv, IdleInv
  <2>2. c \in PickRecord /\ c.at = "send" /\ c.attempt < Slots /\ c.bearer \in Bearers
    BY SMTT(30), <1>p, <2>1, RecordType
  <2>3. pick' = [pick EXCEPT ![p] = c]
    <3>1. pick' = [pick EXCEPT ![p] = [pick[p] EXCEPT !.at = "send"]]
      BY <1>3, <1>t DEF Found
    <3> QED
      BY <1>p, <3>1, RecordMoves
  <2> HIDE DEF c
  <2>4. pick' \in [Pickers -> PickRecord] /\ IdleInv'
    BY <2>2, <2>3, PickMoves
  <2>5. picked' \in [Bearers -> Nat]
    BY <1>3, <1>t, <2>1 DEF Found
  <2> QED
    BY <1>3, <1>t, <1>c, <1>q, <2>4, <2>5 DEF Found
<1>4. ASSUME NEW p \in Pickers, Skip(p)
      PROVE  PickInv'
  <2> DEFINE c == Call4("next", pick[p].attempt + 1, pick[p].bearer, pick[p].tries)
  <2>1. pick[p].attempt < Slots
    BY <1>4 DEF Skip, PickInv, IdleInv
  <2>2. c \in PickRecord /\ c.at = "next"
    <3>1. pick[p].attempt + 1 \in 0..Slots
      BY <1>p, <2>1
    <3> QED
      BY SMTT(30), <1>p, <3>1, RecordType
  <2>3. pick' = [pick EXCEPT ![p] = c]
    <3>1. pick' = [pick EXCEPT ![p] = [pick[p] EXCEPT !.at = "next", !.attempt = pick[p].attempt + 1]]
      BY <1>4, <1>t DEF Skip
    <3> QED
      BY <1>p, <3>1, RecordMoves
  <2> HIDE DEF c
  <2>4. pick' \in [Pickers -> PickRecord] /\ IdleInv'
    BY <2>2, <2>3, PickMoves
  <2> QED
    BY <1>4, <1>t, <1>c, <1>q, <2>4 DEF Skip
<1>5. ASSUME NEW p \in Pickers, GiveUp(p)
      PROVE  PickInv'
  BY <1>5, <1>t, <1>c, <1>q, <1>r DEF GiveUp
<1>6. ASSUME NEW p \in Pickers, Sent(p)
      PROVE  PickInv'
  <2>1. pick[p].bearer \in 0..Len(Weights)
    BY <1>t DEF PickRecord
  <2> QED
    BY <1>6, <1>t, <1>c, <1>q, <1>r, <2>1 DEF Sent
<1>7. ASSUME NEW p \in Pickers, SendRefused(p)
      PROVE  PickInv'
  BY <1>7, <1>t, <1>c, <1>q, <1>y DEF SendRefused
<1>8. ASSUME NEW p \in Pickers, SendFails(p)
      PROVE  PickInv'
  BY <1>8, <1>t, <1>c, <1>q, <1>y, <1>l DEF SendFails
<1>9. ASSUME NEW b \in Bearers, Lost(b)
      PROVE  PickInv'
  BY <1>9, <1>t, <1>c, <1>q, <1>l DEF Lost, PickInv, IdleInv
<1>10. ASSUME NEW b \in Bearers, Connected(b)
       PROVE  PickInv'
  <2>1. calm' \in [Pickers -> BOOLEAN]
    BY <1>10, <1>c, Zenon DEF Connected
  <2> QED
    BY <1>10, <1>t, <1>q, <2>1 DEF Connected, PickInv, IdleInv
<1>11. CASE UNCHANGED vars
  BY <1>11, <1>t, <1>c, <1>q DEF vars, PickInv, IdleInv
<1> QED
  BY <1>1, <1>2, <1>3, <1>4, <1>5, <1>6, <1>7, <1>8, <1>9, <1>10, <1>11
  DEF Next, PickStep

LEMMA AlwaysPickInv == Spec => []PickInv
  BY InitPickInv, NextPickInv, PTL DEF Spec

\* A walk of the ring is never longer than the ring and a dispatch never tries
\* more often than configured, for any weights and any number of pickers.
THEOREM TypeCorrect == Spec => []TypeOK
  BY AlwaysPickInv, PTL DEF PickInv

-----------------------------------------------------------------------------
(* A dispatch that nobody else's overlaps *)

LEMMA DivMod ==
  ASSUME NEW n \in Nat \ {0}, NEW x \in Int
  PROVE  x \div n \in Int /\ x % n \in 0..(n - 1) /\ x = n * (x \div n) + (x % n)
  OBVIOUS

LEMMA ModUnique ==
  ASSUME NEW n \in Nat \ {0}, NEW q \in Int, NEW r \in 0..(n - 1)
  PROVE  (n * q + r) % n = r /\ (n * q + r) \div n = q
<1> DEFINE x == n * q + r
           e == x \div n
<1>0. x \in Int /\ x = n * q + r
  OBVIOUS
<1>1. x \in Int /\ e \in Int /\ x % n \in 0..(n - 1) /\ x = n * e + (x % n)
  <2> HIDE DEF x
  <2> QED
    BY <1>0, DivMod
<1>2. n * (q - e) = (x % n) - r
  <2>1. n * (q - e) = n * q - n * e /\ n * q \in Int /\ n * e \in Int
    BY <1>1
  <2> HIDE DEF x, e
  <2> QED
    BY <1>0, <1>1, <2>1
<1>3. q - e = 0
  <2>1. CASE q - e >= 1
    <3>1. n * (q - e) >= n
      BY <1>1, <2>1
    <3> QED
      BY <1>1, <1>2, <3>1
  <2>2. CASE q - e <= -1
    <3>1. n * (q - e) <= -n
      BY <1>1, <2>2
    <3> QED
      BY <1>1, <1>2, <3>1
  <2> QED
    BY <1>1, <2>1, <2>2
<1> QED
  BY <1>1, <1>3

\* As many slots in a row as the ring has belong to all bearers.
LEMMA RoundOfRing ==
  ASSUME NEW c \in Nat, NEW b \in Bearers
  PROVE  \E k \in 1..Slots : SlotAt(c - k) = b
<1> PICK i \in 1..Slots : Ring[i] = b
  BY RingFacts
<1> DEFINE q == c \div Slots
           m == c % Slots
           r == i - 1
<1>1. /\ Slots \in Nat \ {0} /\ q \in Int /\ m \in 0..(Slots - 1) /\ c = Slots * q + m
      /\ r \in 0..(Slots - 1) /\ i = 1 + r
  BY RingFacts
<1>2. Slots * (q - 1) = Slots * q - Slots /\ q - 1 \in Int
  BY <1>1
<1> HIDE DEF q, m, r
<1>3. CASE r < m
  <2>1. m - r \in 1..Slots /\ c - (m - r) = Slots * q + r
    BY <1>1, <1>3
  <2>2. (c - (m - r)) % Slots = r
    BY <1>1, <2>1, ModUnique
  <2> QED
    BY <1>1, <2>1, <2>2 DEF SlotAt
<1>4. CASE r >= m
  <2>1. m - r + Slots \in 1..Slots /\ c - (m - r + Slots) = Slots * (q - 1) + r
    BY <1>1, <1>2, <1>4
  <2>2. (c - (m - r + Slots)) % Slots = r
    BY <1>1, <1>2, <2>1, ModUnique
  <2> QED
    BY <1>1, <2>1, <2>2 DEF SlotAt
<1> QED
  BY <1>1, <1>3, <1>4

\* The bearers that a call has come to find unhealthy, and the one that it is
\* about to find unhealthy if its send fails is not yet among them.
LostTo(p) ==
  Bearers \ (IF pick[p].at = "send" THEN healthy \cup {pick[p].bearer} ELSE healthy)

\* The slots of the walk so far belong to unhealthy bearers, each failed try to
\* another one, and a call that nobody disturbed fails for no other reason.
Solo(p) ==
  /\ steady[p] \subseteq healthy
  /\ calm[p] /\ pick[p].at = "next" =>
       \A k \in 1..pick[p].attempt : SlotAt(counter - k) \notin healthy
  /\ calm[p] /\ pick[p].at = "check" =>
       /\ pick[p].bearer = SlotAt(counter - 1)
       /\ \A k \in 1..pick[p].attempt : SlotAt(counter - 1 - k) \notin healthy
  /\ calm[p] => pick[p].tries <= Cardinality(LostTo(p))
  /\ DispatchRetries <= 0 /\ ~Calling(p) /\ result[p] = 0 /\ calm[p] =>
       steady[p] = {}

SoloInv == \A p \in Pickers : Solo(p)

LEMMA BearersFinite ==
  ASSUME NEW A \in SUBSET Bearers, NEW B \in SUBSET A
  PROVE  /\ IsFiniteSet(A) /\ Cardinality(A) \in Nat /\ Cardinality(B) <= Cardinality(A)
         /\ Cardinality(A) <= Len(Weights)
         /\ Cardinality(A) = Len(Weights) => A = Bearers
<1>1. IsFiniteSet(Bearers) /\ Cardinality(Bearers) = Len(Weights)
  BY AttemptsType, FS_Interval
<1>2. /\ IsFiniteSet(A) /\ Cardinality(A) <= Cardinality(Bearers)
      /\ Cardinality(Bearers) = Cardinality(A) => Bearers = A
  BY <1>1, FS_Subset
<1> QED
  BY <1>1, <1>2, FS_Subset, FS_CardinalityType

LEMMA InitSoloInv == Init => SoloInv
<1> SUFFICES ASSUME Init, NEW p \in Pickers PROVE Solo(p)
  BY DEF SoloInv
<1>1. pick[p] = Idle /\ steady[p] = {} /\ result[p] = -1
  BY DEF Init
<1>2. Idle.tries = 0 /\ Idle.at = "idle" /\ 0 <= Cardinality(LostTo(p))
  BY BearersFinite DEF Idle, LostTo
<1> QED
  BY <1>1, <1>2 DEF Solo

\* A step of others, as a picker between calls or in a calm one sees it.
LEMMA Bystander ==
  ASSUME PickInv, NEW q \in Pickers, Solo(q),
         pick'[q] = pick[q], result'[q] = result[q],
         calm'[q] => calm[q] /\ (~Calling(q) \/ (counter' = counter /\ healthy' \subseteq healthy)),
         steady'[q] \subseteq steady[q], steady'[q] \subseteq healthy'
  PROVE  Solo(q)'
<1>1. pick[q].tries \in Nat /\ (~Calling(q) => pick[q].tries = 0 /\ pick[q].at = "idle")
  BY AttemptsType DEF PickInv, TypeOK, IdleInv, Calling, Idle
<1>2. calm'[q] => pick[q].tries <= Cardinality(LostTo(q)')
  <2>1. LostTo(q)' \subseteq Bearers /\ Cardinality(LostTo(q)') \in Nat
    BY BearersFinite DEF LostTo
  <2>2. CASE healthy' \subseteq healthy /\ calm[q]
    <3>1. LostTo(q) \subseteq LostTo(q)' /\ LostTo(q) \in SUBSET Bearers
      BY <2>2 DEF LostTo
    <3>2. Cardinality(LostTo(q)) <= Cardinality(LostTo(q)') /\ Cardinality(LostTo(q)) \in Nat
      BY <2>1, <3>1, BearersFinite
    <3>3. pick[q].tries <= Cardinality(LostTo(q))
      BY <2>2 DEF Solo
    <3> QED
      BY <1>1, <2>1, <3>2, <3>3
  <2> QED
    BY <1>1, <2>1, <2>2
<1> QED
  BY <1>1, <1>2 DEF Solo, Calling

\* A call that ends, or whose try failed and is not the last one.
LEMMA EndsSolo ==
  ASSUME PickInv, NEW p \in Pickers, NEW value, Return(p, value),
         steady'[p] \subseteq healthy',
         value = 0 /\ DispatchRetries <= 0 /\ calm[p] => steady'[p] = {}
  PROVE  Solo(p)'
<1>1. pick'[p] = Idle /\ result'[p] = value /\ calm' = calm
  BY DEF Return, PickInv, TypeOK
<1>2. Cardinality(LostTo(p)') \in Nat
  BY BearersFinite DEF LostTo
<1> QED
  BY <1>1, <1>2 DEF Solo, Idle, Calling

LEMMA RetrySolo ==
  ASSUME PickInv, NEW p \in Pickers, Solo(p), Retry(p),
         pick[p].at = "send", pick[p].bearer \notin healthy',
         healthy' \subseteq healthy, steady'[p] \subseteq healthy'
  PROVE  Solo(p)'
<1> DEFINE b == pick[p].bearer
           t == pick[p].tries
<1>1. b \in Bearers /\ t \in 0..(Attempts - 1) /\ healthy' \in SUBSET Bearers
  BY DEF PickInv, TypeOK, IdleInv
<1>2. LostTo(p) = Bearers \ (healthy \cup {b})
  BY DEF LostTo
<1>3. calm[p] => t + 1 <= Cardinality(Bearers \ healthy')
  <2> SUFFICES ASSUME calm[p] PROVE t + 1 <= Cardinality(Bearers \ healthy')
    OBVIOUS
  <2>1. t <= Cardinality(LostTo(p))
    BY DEF Solo
  <2>2. IsFiniteSet(LostTo(p)) /\ Cardinality(LostTo(p)) \in Nat /\ b \notin LostTo(p)
    BY <1>2, BearersFinite
  <2>3. Cardinality(LostTo(p) \cup {b}) = Cardinality(LostTo(p)) + 1
    BY <2>2, FS_AddElement
  <2>4. LostTo(p) \cup {b} \subseteq Bearers \ healthy' /\ Bearers \ healthy' \in SUBSET Bearers
    BY <1>1, <1>2
  <2>5. /\ Cardinality(LostTo(p) \cup {b}) <= Cardinality(Bearers \ healthy')
        /\ Cardinality(Bearers \ healthy') \in Nat
    BY <2>4, BearersFinite
  <2> QED
    BY <1>1, <2>1, <2>2, <2>3, <2>5
<1>4. CASE t + 1 = Attempts
  <2>1. Return(p, 0)
    BY <1>4 DEF Retry
  <2>2. ASSUME DispatchRetries <= 0, calm[p]
        PROVE  steady'[p] = {}
    <3>1. Len(Weights) <= Cardinality(Bearers \ healthy')
      BY <1>3, <1>4, <2>2, AttemptsType
    <3>2. /\ Cardinality(Bearers \ healthy') <= Len(Weights)
          /\ Cardinality(Bearers \ healthy') \in Nat
          /\ Cardinality(Bearers \ healthy') = Len(Weights) => Bearers \ healthy' = Bearers
      BY BearersFinite
    <3>3. Bearers \ healthy' = Bearers
      BY <3>1, <3>2, AttemptsType
    <3>4. healthy' = {}
      BY <1>1, <3>3
    <3> QED
      BY <3>4
  <2> QED
    BY <2>1, <2>2, EndsSolo
<1>5. CASE t + 1 # Attempts
  <2>1. /\ pick' = [pick EXCEPT ![p] =
                      [Idle EXCEPT !.at = "next", !.tries = pick[p].tries + 1]]
        /\ UNCHANGED calm
    BY <1>5 DEF Retry
  <2>2. pick'[p] = Call4("next", 0, 0, t + 1)
    BY <2>1 DEF PickInv, TypeOK, Idle, Call4
  <2>3. pick'[p].at = "next" /\ pick'[p].attempt = 0 /\ pick'[p].tries = t + 1
    BY <2>2 DEF Call4
  <2>4. LostTo(p)' = Bearers \ healthy'
    BY <2>3 DEF LostTo
  <2> HIDE DEF t
  <2> QED
    BY <1>3, <2>1, <2>3, <2>4 DEF Solo, Calling
<1> QED
  BY <1>4, <1>5

LEMMA NextSoloInv == PickInv /\ SoloInv /\ [Next]_vars => SoloInv'
<1> SUFFICES ASSUME PickInv, SoloInv, [Next]_vars, NEW q \in Pickers
             PROVE  Solo(q)'
  BY DEF SoloInv
<1> USE DEF PickInv
<1>t. /\ pick \in [Pickers -> PickRecord] /\ counter \in Nat /\ healthy \in SUBSET Bearers
      /\ result \in [Pickers -> -1..Len(Weights)]
      /\ steady \in [Pickers -> SUBSET Bearers]
      /\ Solo(q) /\ steady[q] \subseteq healthy
      /\ pick[q].tries \in Nat /\ pick[q].attempt \in Nat
  BY RecordParts DEF TypeOK, PickRecord, SoloInv, Solo
<1>c. calm \in [Pickers -> BOOLEAN]
  BY DEF TypeOK
<1>l. ASSUME NEW b \in Bearers, Lose(b)
      PROVE  /\ healthy' = healthy \ {b} /\ healthy' \subseteq healthy
             /\ steady'[q] \subseteq healthy' /\ steady'[q] \subseteq steady[q]
  BY <1>l, <1>t DEF Lose
<1>o. \A p \in Pickers : \A value :
        p # q /\ Return(p, value) =>
          pick'[q] = pick[q] /\ result'[q] = result[q] /\ UNCHANGED <<counter, calm>>
  BY <1>t DEF Return
<1>y. \A p \in Pickers :
        p # q /\ Retry(p) =>
          pick'[q] = pick[q] /\ result'[q] = result[q] /\ UNCHANGED <<counter, calm>>
  BY <1>t, <1>o DEF Retry
<1>1. ASSUME NEW p \in Pickers, Call(p)
      PROVE  Solo(q)'
  <2>1. CASE q = p
    <3>1. pick[p] = Idle /\ pick'[p] = [pick[p] EXCEPT !.at = "next"]
      BY <1>1, <1>t DEF Call, Calling, IdleInv
    <3>2. pick'[p].at = "next" /\ pick'[p].attempt = 0 /\ pick'[p].tries = 0
      BY <3>1 DEF Idle
    <3>3. Cardinality(LostTo(p)') \in Nat
      BY BearersFinite DEF LostTo
    <3>4. steady'[p] = healthy /\ healthy' = healthy
      BY <1>1, <1>t DEF Call
    <3> QED
      BY <2>1, <3>2, <3>3, <3>4 DEF Solo, Calling
  <2>2. CASE q # p
    <3>1. calm'[q] = calm[q]
      BY <1>1, <1>c, <2>2, Zenon DEF Call
    <3>2. /\ pick'[q] = pick[q] /\ steady'[q] = steady[q]
          /\ UNCHANGED <<counter, healthy, result>>
      BY <1>1, <1>t, <2>2 DEF Call
    <3> QED
      BY <1>t, <3>1, <3>2, Bystander
  <2> QED
    BY <2>1, <2>2
<1>2. ASSUME NEW p \in Pickers, NextSlot(p)
      PROVE  Solo(q)'
  <2>1. calm'[q] => calm[q] /\ (q = p \/ ~Calling(q))
    BY <1>2, Zenon DEF NextSlot
  <2>2. CASE q = p
    <3>1. /\ pick'[p].at = "check" /\ pick'[p].bearer = SlotAt(counter)
          /\ pick'[p].attempt = pick[p].attempt /\ pick'[p].tries = pick[p].tries
          /\ pick[p].at = "next" /\ counter' = counter + 1
          /\ UNCHANGED <<healthy, steady>>
      BY <1>2, <1>t DEF NextSlot, SlotAt, PickRecord
    <3>2. LostTo(p)' = LostTo(p)
      BY <3>1 DEF LostTo
    <3>3. counter' - 1 = counter
      BY <1>t, <3>1
    <3> QED
      BY <1>t, <2>1, <2>2, <3>1, <3>2, <3>3 DEF Solo, Calling
  <2>3. CASE q # p
    <3>1. /\ pick'[q] = pick[q] /\ UNCHANGED <<healthy, result, steady>>
      BY <1>2, <1>t, <2>3 DEF NextSlot
    <3> QED
      BY <1>t, <2>1, <2>3, <3>1, Bystander
  <2> QED
    BY <2>2, <2>3
<1>3. ASSUME NEW p \in Pickers, Found(p)
      PROVE  Solo(q)'
  <2>1. UNCHANGED <<counter, healthy, result, steady, calm>>
    BY <1>3 DEF Found
  <2>2. CASE q = p
    <3>1. /\ pick'[p].at = "send" /\ pick'[p].bearer = pick[p].bearer
          /\ pick'[p].tries = pick[p].tries
          /\ pick[p].at = "check" /\ pick[p].bearer \in healthy
      BY <1>3, <1>t DEF Found, PickRecord
    <3>2. LostTo(p)' = LostTo(p)
      BY <2>1, <3>1 DEF LostTo
    <3> QED
      BY <1>t, <2>1, <2>2, <3>1, <3>2 DEF Solo, Calling
  <2>3. CASE q # p
    <3>1. pick'[q] = pick[q]
      BY <1>3, <1>t, <2>3 DEF Found
    <3> QED
      BY <1>t, <2>1, <3>1, Bystander
  <2> QED
    BY <2>2, <2>3
<1>4. ASSUME NEW p \in Pickers, Skip(p)
      PROVE  Solo(q)'
  <2>1. UNCHANGED <<counter, healthy, result, steady, calm>>
    BY <1>4 DEF Skip
  <2>2. CASE q = p
    <3>1. /\ pick'[p].at = "next" /\ pick'[p].attempt = pick[p].attempt + 1
          /\ pick'[p].tries = pick[p].tries
          /\ pick[p].at = "check" /\ pick[p].bearer \notin healthy
      BY <1>4, <1>t DEF Skip, PickRecord
    <3>2. LostTo(p)' = LostTo(p)
      BY <2>1, <3>1 DEF LostTo
    <3>3. ASSUME calm[p], NEW k \in 1..(pick[p].attempt + 1)
          PROVE  SlotAt(counter - k) \notin healthy
      <4>1. CASE k = 1
        BY <1>t, <2>2, <3>1, <3>3, <4>1 DEF Solo
      <4>2. CASE k # 1
        <5>1. k - 1 \in 1..pick[p].attempt /\ counter - 1 - (k - 1) = counter - k
          BY <1>t, <2>2, <4>2
        <5>2. SlotAt(counter - 1 - (k - 1)) \notin healthy
          BY <1>t, <2>2, <3>1, <3>3, <5>1 DEF Solo
        <5> QED
          BY <5>1, <5>2
      <4> QED
        BY <4>1, <4>2
    <3> QED
      BY <1>t, <2>1, <2>2, <3>1, <3>2, <3>3 DEF Solo, Calling
  <2>3. CASE q # p
    <3>1. pick'[q] = pick[q]
      BY <1>4, <1>t, <2>3 DEF Skip
    <3> QED
      BY <1>t, <2>1, <3>1, Bystander
  <2> QED
    BY <2>2, <2>3
<1>5. ASSUME NEW p \in Pickers, GiveUp(p)
      PROVE  Solo(q)'
  <2>1. Return(p, 0) /\ UNCHANGED <<healthy, steady>>
    BY <1>5 DEF GiveUp
  <2>2. CASE q = p
    <3>1. ASSUME calm[p] PROVE steady'[p] = {}
      <4>1. \A k \in 1..Slots : SlotAt(counter - k) \notin healthy
        BY <1>5, <1>t, <2>2, <3>1 DEF GiveUp, Solo
      <4>2. \A b \in Bearers : b \notin healthy
        BY <1>t, <4>1, RoundOfRing
      <4> QED
        BY <1>t, <2>1, <2>2, <4>2
    <3> QED
      BY <1>t, <2>1, <2>2, <3>1, EndsSolo
  <2>3. CASE q # p
    BY <1>t, <1>o, <2>1, <2>3, Bystander
  <2> QED
    BY <2>2, <2>3
<1>6. ASSUME NEW p \in Pickers, Sent(p)
      PROVE  Solo(q)'
  <2>1. Return(p, pick[p].bearer) /\ UNCHANGED <<healthy, steady>> /\ pick[p].bearer # 0
    BY <1>6, AttemptsType DEF Sent, IdleInv
  <2>2. CASE q = p
    BY <1>t, <2>1, <2>2, EndsSolo
  <2>3. CASE q # p
    BY <1>t, <1>o, <2>1, <2>3, Bystander
  <2> QED
    BY <2>2, <2>3
<1>7. ASSUME NEW p \in Pickers, SendRefused(p)
      PROVE  Solo(q)'
  <2>1. /\ Retry(p) /\ UNCHANGED <<healthy, steady>>
        /\ pick[p].at = "send" /\ pick[p].bearer \notin healthy
    BY <1>7 DEF SendRefused
  <2>2. CASE q = p
    BY <1>t, <2>1, <2>2, RetrySolo
  <2>3. CASE q # p
    BY <1>t, <1>y, <2>1, <2>3, Bystander
  <2> QED
    BY <2>2, <2>3
<1>8. ASSUME NEW p \in Pickers, SendFails(p)
      PROVE  Solo(q)'
  <2>1. Retry(p) /\ Lose(pick[p].bearer) /\ pick[p].at = "send"
    BY <1>8 DEF SendFails
  <2>2. pick[p].bearer \in Bearers
    BY <2>1 DEF IdleInv
  <2>3. /\ healthy' = healthy \ {pick[p].bearer} /\ healthy' \subseteq healthy
        /\ steady'[q] \subseteq healthy' /\ steady'[q] \subseteq steady[q]
    BY <1>l, <2>1, <2>2
  <2>4. CASE q = p
    BY <1>t, <2>1, <2>3, <2>4, RetrySolo
  <2>5. CASE q # p
    BY <1>t, <1>y, <2>1, <2>3, <2>5, Bystander
  <2> QED
    BY <2>4, <2>5
<1>9. ASSUME NEW b \in Bearers, Lost(b)
      PROVE  Solo(q)'
  <2>1. Lose(b) /\ UNCHANGED <<counter, pick, result, calm>>
    BY <1>9 DEF Lost
  <2> QED
    BY <1>t, <1>l, <2>1, Bystander
<1>10. ASSUME NEW b \in Bearers, Connected(b)
       PROVE  Solo(q)'
  <2>1. calm'[q] => calm[q] /\ ~Calling(q)
    BY <1>10, Zenon DEF Connected
  <2>2. /\ pick'[q] = pick[q] /\ result'[q] = result[q]
        /\ steady'[q] \subseteq steady[q] /\ steady'[q] \subseteq healthy'
    BY <1>10, <1>t DEF Connected
  <2>3. calm'[q] =>
          calm[q] /\ (~Calling(q) \/ (counter' = counter /\ healthy' \subseteq healthy))
    BY <2>1, Zenon
  <2> QED
    BY <1>t, <2>2, <2>3, Bystander
<1>11. CASE UNCHANGED vars
  BY <1>11, <1>t, Bystander DEF vars
<1> QED
  BY <1>1, <1>2, <1>3, <1>4, <1>5, <1>6, <1>7, <1>8, <1>9, <1>10, <1>11
  DEF Next, PickStep

\* With no limit of retries, a dispatch that no other one's Pick and no new
\* connection disturbs fails only if no bearer was healthy from its start to its
\* end, for any weights and however bearers fail in between.
THEOREM SoloDispatchSucceeds == Spec => []SoloSendSucceeds
<1>1. SoloInv => SoloSendSucceeds
  BY DEF SoloInv, Solo, SoloSendSucceeds
<1> QED
  BY <1>1, InitPickInv, NextPickInv, InitSoloInv, NextSoloInv, PTL DEF Spec

-----------------------------------------------------------------------------
(* The shares of the tunnels *)

\* The slots of a tunnel among the first m of the ring, and how many slots it
\* has had when the counter is at c.
Turns(b, m) == {i \in 1..m : Ring[i] = b}
Dealt(b, c) == Share(b) * (c \div Slots) + Cardinality(Turns(b, c % Slots))

\* Slots that were taken and are not checked yet.
PendingOf(b) == {p \in Pickers : pick[p].at = "check" /\ pick[p].bearer = b}

\* While no bearer has failed, every slot dealt was or will be picked.
ShareInv ==
  flips = 0 =>
    /\ healthy = Bearers
    /\ \A b \in Bearers :
         /\ IsFiniteSet(PendingOf(b))
         /\ picked[b] + Cardinality(PendingOf(b)) = Dealt(b, counter)

LEMMA TurnsStep ==
  ASSUME NEW b \in Bearers, NEW m \in Nat
  PROVE  /\ IsFiniteSet(Turns(b, m)) /\ Cardinality(Turns(b, m)) \in Nat
         /\ Cardinality(Turns(b, m + 1))
              = Cardinality(Turns(b, m)) + (IF Ring[m + 1] = b THEN 1 ELSE 0)
<1>1. IsFiniteSet(Turns(b, m)) /\ Cardinality(Turns(b, m)) \in Nat
  <2>1. Turns(b, m) \in SUBSET (1..m) /\ IsFiniteSet(1..m)
    BY FS_Interval DEF Turns
  <2> QED
    BY <2>1, FS_Subset, FS_CardinalityType
<1>2. m + 1 \notin Turns(b, m)
  BY DEF Turns
<1>3. CASE Ring[m + 1] = b
  <2>1. Turns(b, m + 1) = Turns(b, m) \cup {m + 1}
    BY <1>3 DEF Turns
  <2> QED
    BY <1>1, <1>2, <1>3, <2>1, FS_AddElement
<1>4. CASE Ring[m + 1] # b
  <2>1. Turns(b, m + 1) = Turns(b, m)
    BY <1>4 DEF Turns
  <2> QED
    BY <1>1, <1>4, <2>1
<1> QED
  BY <1>1, <1>3, <1>4

LEMMA DealtStep ==
  ASSUME NEW b \in Bearers, NEW c \in Nat
  PROVE  /\ Dealt(b, c) \in Int
         /\ Dealt(b, c + 1) = Dealt(b, c) + (IF SlotAt(c) = b THEN 1 ELSE 0)
<1> DEFINE q == c \div Slots
           m == c % Slots
           one == IF SlotAt(c) = b THEN 1 ELSE 0
<1>1. /\ Slots \in Nat \ {0} /\ q \in Int /\ m \in 0..(Slots - 1) /\ c = Slots * q + m
      /\ m + 1 = 1 + m
  BY RingFacts
<1>2. Share(b) \in Nat
  BY WeightType
<1>3. /\ Cardinality(Turns(b, m)) \in Nat
      /\ Cardinality(Turns(b, m + 1)) = Cardinality(Turns(b, m)) + one
  BY <1>1, TurnsStep DEF SlotAt
<1>4. Dealt(b, c) = Share(b) * q + Cardinality(Turns(b, m)) /\ Share(b) * q \in Int
  BY <1>1, <1>2 DEF Dealt
<1>5. one \in Int
  OBVIOUS
<1> HIDE DEF q, m, one
<1>6. CASE m + 1 < Slots
  <2>1. m + 1 \in 0..(Slots - 1) /\ c + 1 = Slots * q + (m + 1)
    BY <1>1, <1>6
  <2>2. (c + 1) % Slots = m + 1 /\ (c + 1) \div Slots = q
    BY <1>1, <2>1, ModUnique
  <2>3. Dealt(b, c + 1) = Share(b) * q + Cardinality(Turns(b, m + 1))
    BY <2>2 DEF Dealt
  <2> QED
    BY <1>3, <1>4, <1>5, <2>3 DEF one
<1>7. CASE m + 1 = Slots
  <2>1. Slots * (q + 1) = Slots * q + Slots /\ q + 1 \in Int
    BY <1>1
  <2>2. c + 1 = Slots * (q + 1) + 0 /\ 0 \in 0..(Slots - 1)
    BY <1>1, <1>7, <2>1
  <2>3. (c + 1) % Slots = 0 /\ (c + 1) \div Slots = q + 1
    BY <1>1, <2>1, <2>2, ModUnique
  <2>4. Cardinality(Turns(b, 0)) = 0
    <3>1. Turns(b, 0) = {}
      BY DEF Turns
    <3> QED
      BY <3>1, FS_EmptySet
  <2>5. Cardinality(Turns(b, m + 1)) = Share(b)
    BY <1>7, RingFacts DEF Turns
  <2>6. Share(b) * (q + 1) = Share(b) * q + Share(b)
    BY <1>1, <1>2
  <2>7. Dealt(b, c + 1) = Share(b) * (q + 1)
    BY <1>1, <1>2, <2>3, <2>4 DEF Dealt
  <2> QED
    BY <1>2, <1>3, <1>4, <1>5, <2>5, <2>6, <2>7 DEF one
<1> QED
  BY <1>1, <1>3, <1>4, <1>6, <1>7

LEMMA InitShareInv == Init => ShareInv
<1> SUFFICES ASSUME Init, NEW b \in Bearers
             PROVE  /\ healthy = Bearers /\ IsFiniteSet(PendingOf(b))
                    /\ picked[b] + Cardinality(PendingOf(b)) = Dealt(b, counter)
  BY DEF ShareInv, Init
<1>1. PendingOf(b) = {} /\ picked[b] = 0 /\ counter = 0 /\ healthy = Bearers
  BY DEF Init, PendingOf, Idle
<1>2. Dealt(b, 0) = 0
  <2>1. /\ Slots \in Nat \ {0} /\ 0 = Slots * 0 + 0 /\ 0 \in 0..(Slots - 1)
        /\ Share(b) \in Nat
    BY RingFacts, WeightType
  <2>2. 0 % Slots = 0 /\ 0 \div Slots = 0
    BY <2>1
  <2>3. Turns(b, 0) = {}
    BY DEF Turns
  <2>4. Cardinality(Turns(b, 0 % Slots)) = 0
    BY <2>2, <2>3, FS_EmptySet
  <2>5. Share(b) * (0 \div Slots) = 0
    BY <2>1, <2>2
  <2> QED
    BY <2>4, <2>5 DEF Dealt
<1> QED
  BY <1>1, <1>2, FS_EmptySet

LEMMA NextShareInv == PickInv /\ ShareInv /\ [Next]_vars => ShareInv'
<1> SUFFICES ASSUME PickInv, ShareInv, [Next]_vars, flips' = 0 PROVE ShareInv'
  BY DEF ShareInv
<1>t. /\ pick \in [Pickers -> PickRecord] /\ counter \in Nat /\ flips \in Nat
      /\ picked \in [Bearers -> Nat]
      /\ \A p \in Pickers : pick[p].at \in {"check", "send"} => pick[p].bearer \in Bearers
  BY PickBounds DEF PickInv, TypeOK, PickRecord, IdleInv
<1>s. flips = 0 =>
        /\ healthy = Bearers
        /\ \A b \in Bearers :
             /\ IsFiniteSet(PendingOf(b)) /\ Cardinality(PendingOf(b)) \in Nat
             /\ picked[b] + Cardinality(PendingOf(b)) = Dealt(b, counter)
  BY FS_CardinalityType DEF ShareInv
<1>q. ASSUME UNCHANGED <<counter, healthy, picked, flips>>,
             \A b \in Bearers : PendingOf(b)' = PendingOf(b)
      PROVE  ShareInv'
  BY <1>q DEF ShareInv
<1>r. ASSUME NEW p \in Pickers, NEW c,
             pick' = [pick EXCEPT ![p] = c], c.at # "check", pick[p].at # "check"
      PROVE  \A b \in Bearers : PendingOf(b)' = PendingOf(b)
  BY <1>r, <1>t DEF PendingOf
<1>f. ASSUME NEW p \in Pickers, NEW value, Return(p, value), pick[p].at # "check"
      PROVE  \A b \in Bearers : PendingOf(b)' = PendingOf(b)
  <2>1. pick' = [pick EXCEPT ![p] = Idle] /\ Idle.at # "check"
    BY <1>f DEF Return, Idle
  <2> QED
    BY <1>f, <1>r, <2>1
<1>y. ASSUME NEW p \in Pickers, Retry(p), pick[p].at = "send"
      PROVE  \A b \in Bearers : PendingOf(b)' = PendingOf(b)
  <2>1. CASE Return(p, 0)
    BY <1>f, <1>y, <2>1
  <2>2. CASE pick' = [pick EXCEPT ![p] = [Idle EXCEPT !.at = "next", !.tries = pick[p].tries + 1]]
    <3>1. [Idle EXCEPT !.at = "next", !.tries = pick[p].tries + 1].at # "check"
      BY DEF Idle
    <3> QED
      BY <1>r, <1>y, <2>2, <3>1
  <2> QED
    BY <1>y, <2>1, <2>2 DEF Retry
<1>1. ASSUME NEW p \in Pickers, Call(p)
      PROVE  ShareInv'
  <2>1. pick' = [pick EXCEPT ![p] = [pick[p] EXCEPT !.at = "next"]] /\ pick[p].at = "idle"
    BY <1>1, <1>t DEF Call, Calling
  <2>2. [pick[p] EXCEPT !.at = "next"].at # "check"
    BY <1>t DEF PickRecord
  <2> QED
    BY <1>1, <1>q, <1>r, <2>1, <2>2 DEF Call
<1>2. ASSUME NEW p \in Pickers, NextSlot(p)
      PROVE  ShareInv'
  <2>1. /\ pick'[p].at = "check" /\ pick'[p].bearer = SlotAt(counter)
        /\ pick[p].at = "next" /\ counter' = counter + 1
        /\ \A q \in Pickers \ {p} : pick'[q] = pick[q]
        /\ UNCHANGED <<healthy, picked, flips>>
    BY <1>2, <1>t DEF NextSlot, SlotAt, PickRecord
  <2>2. ASSUME NEW b \in Bearers
        PROVE  /\ IsFiniteSet(PendingOf(b)')
               /\ picked'[b] + Cardinality(PendingOf(b)') = Dealt(b, counter')
    <3>1. /\ IsFiniteSet(PendingOf(b)) /\ Cardinality(PendingOf(b)) \in Nat
          /\ picked[b] + Cardinality(PendingOf(b)) = Dealt(b, counter)
      BY <1>s, <2>1
    <3>2. p \notin PendingOf(b)
      BY <2>1 DEF PendingOf
    <3>3. CASE SlotAt(counter) = b
      <4>1. PendingOf(b)' = PendingOf(b) \cup {p}
        BY <2>1, <3>3 DEF PendingOf
      <4>2. IsFiniteSet(PendingOf(b)') /\ Cardinality(PendingOf(b)') = Cardinality(PendingOf(b)) + 1
        BY <3>1, <3>2, <4>1, FS_AddElement
      <4> QED
        BY <1>t, <2>1, <3>1, <3>3, <4>2, DealtStep
    <3>4. CASE SlotAt(counter) # b
      <4>1. PendingOf(b)' = PendingOf(b)
        BY <2>1, <3>4 DEF PendingOf
      <4> QED
        BY <1>t, <2>1, <3>1, <3>4, <4>1, DealtStep
    <3> QED
      BY <3>3, <3>4
  <2> QED
    BY <1>s, <2>1, <2>2 DEF ShareInv
<1>3. ASSUME NEW p \in Pickers, Found(p)
      PROVE  ShareInv'
  <2>1. /\ pick'[p].at = "send" /\ pick[p].at = "check" /\ pick[p].bearer \in Bearers
        /\ \A q \in Pickers \ {p} : pick'[q] = pick[q]
        /\ picked' = [picked EXCEPT ![pick[p].bearer] = @ + 1]
        /\ UNCHANGED <<counter, healthy, flips>>
    BY <1>3, <1>t DEF Found, PickRecord
  <2>2. ASSUME NEW b \in Bearers
        PROVE  /\ IsFiniteSet(PendingOf(b)')
               /\ picked'[b] + Cardinality(PendingOf(b)') = Dealt(b, counter)
    <3>1. /\ IsFiniteSet(PendingOf(b)) /\ Cardinality(PendingOf(b)) \in Nat
          /\ picked[b] + Cardinality(PendingOf(b)) = Dealt(b, counter) /\ picked[b] \in Nat
      BY <1>s, <1>t, <2>1
    <3>2. CASE pick[p].bearer = b
      <4>1. PendingOf(b)' = PendingOf(b) \ {p} /\ p \in PendingOf(b)
        BY <2>1, <3>2 DEF PendingOf
      <4>2. IsFiniteSet(PendingOf(b)') /\ Cardinality(PendingOf(b)') = Cardinality(PendingOf(b)) - 1
        BY <3>1, <4>1, FS_RemoveElement
      <4>3. picked'[b] = picked[b] + 1
        BY <1>t, <2>1, <3>2
      <4> QED
        BY <3>1, <4>2, <4>3
    <3>3. CASE pick[p].bearer # b
      <4>1. PendingOf(b)' = PendingOf(b) /\ picked'[b] = picked[b]
        BY <1>t, <2>1, <3>3 DEF PendingOf
      <4> QED
        BY <3>1, <4>1
    <3> QED
      BY <3>2, <3>3
  <2> QED
    BY <1>s, <2>1, <2>2 DEF ShareInv
<1>4. ASSUME NEW p \in Pickers, Skip(p)
      PROVE  ShareInv'
  <2>1. pick[p].bearer \in Bearers /\ pick[p].bearer \notin healthy /\ flips = 0
    BY <1>4, <1>t DEF Skip
  <2> QED
    BY <1>s, <2>1
<1>5. ASSUME NEW p \in Pickers, GiveUp(p) \/ Sent(p)
      PROVE  ShareInv'
  <2>1. /\ \E value : Return(p, value)
        /\ pick[p].at # "check" /\ UNCHANGED <<healthy, flips>>
    BY <1>5 DEF GiveUp, Sent
  <2> QED
    BY <1>f, <1>q, <2>1 DEF Return
<1>6. ASSUME NEW p \in Pickers, SendRefused(p)
      PROVE  ShareInv'
  <2>1. pick[p].bearer \in Bearers /\ pick[p].bearer \notin healthy /\ flips = 0
    BY <1>6, <1>t DEF SendRefused
  <2> QED
    BY <1>s, <2>1
<1>7. ASSUME NEW b \in Bearers, Lose(b) \/ Connected(b)
      PROVE  FALSE
  BY <1>7, <1>t DEF Lose, Connected
<1>8. ASSUME NEW p \in Pickers, SendFails(p)
      PROVE  ShareInv'
  BY <1>7, <1>8, <1>t DEF SendFails
<1>9. CASE UNCHANGED vars
  BY <1>9, <1>q DEF vars, PendingOf
<1> QED
  BY <1>1, <1>2, <1>3, <1>4, <1>5, <1>6, <1>7, <1>8, <1>9 DEF Next, PickStep, Lost

\* While no bearer fails, every round of the ring gives each tunnel as many
\* frames as it weighs, for any weights and however many streams pick at once.
THEOREM SharesAreWeighted == Spec => []WeightedShare
<1>1. PickInv /\ ShareInv => WeightedShare
  <2> SUFFICES ASSUME PickInv, ShareInv, flips = 0, counter % Slots = 0,
                      \A p \in Pickers : ~Calling(p), NEW b \in Bearers
               PROVE  picked[b] = Share(b) * (counter \div Slots)
    BY DEF WeightedShare
  <2>1. PendingOf(b) = {} /\ Turns(b, 0) = {}
    BY DEF PendingOf, Calling, Turns
  <2>2. Cardinality(PendingOf(b)) = 0 /\ Cardinality(Turns(b, 0)) = 0
    BY <2>1, FS_EmptySet
  <2>3. picked[b] + 0 = Share(b) * (counter \div Slots) + 0
    BY <2>2 DEF ShareInv, Dealt
  <2>4. picked[b] \in Nat /\ Share(b) * (counter \div Slots) \in Int
    BY WeightType, RingFacts DEF PickInv, TypeOK
  <2> QED
    BY <2>3, <2>4
<1> QED
  BY <1>1, InitPickInv, NextPickInv, InitShareInv, NextShareInv, PTL DEF Spec

=============================================================================
