---------------------- MODULE ParentReadyTrackerProofs ----------------------
(***************************************************************************)
(* The parent-ready tracker is exact and window production never meets its  *)
(* unreachable arm, for any number of slots, block ids and window length.   *)
(***************************************************************************)
EXTENDS ParentReadyTracker, TLAPS, WellFoundedInduction

(* The tracker still has every certificate at or above its root.            *)
KeptInv ==
    /\ root <= bankRoot
    /\ notar = {b \in certs.notar : b[1] >= root}
    /\ skip = {s \in certs.skip : s >= root}

(* ReadyExact, also at the root itself, where the next skip looks.          *)
ExactInv ==
    \A s \in Tracked : s >= root => ready[s] = {b \in Block : IsParentReady(s, b)}

(* The root is below a slot with a parent; no slot beyond highest has one.  *)
HighestInv ==
    /\ \A s \in Tracked : ready[s] # {} => s <= highest
    /\ \A b \in notar : b[1] < highest
    /\ bankRoot < highest

(* A waiting event is new and names a parent, unless its slot is pruned.    *)
EventInv ==
    /\ events \cap sent = {}
    /\ \A e \in events : e[1] > root => e[2] \in ready[e[1]]

WindowInv == BuildsOnReadyParent /\ \A w \in windows : w[1] <= announced

IInv == TypeOK /\ KeptInv /\ ExactInv /\ HighestInv /\ NoLostEvent /\ EventInv /\ WindowInv

-----------------------------------------------------------------------------
LEMMA LeastNatural ==
    ASSUME NEW N \in SUBSET Nat, N # {}
    PROVE  \E n \in N : \A m \in N : n <= m
  <1>1. PICK n \in N : \A m \in N : ~(<<m, n>> \in OpToRel(<, Nat))
    BY NatLessThanWellFounded, WFMin, Zenon
  <1>2. \A m \in N : ~(m < n)
    BY <1>1, Zenon DEF OpToRel
  <1> QED
    BY <1>2

(* Latest() finds the greatest of some slots.                               *)
LEMMA LatestFacts ==
    ASSUME NEW S \in SUBSET Tracked, S # {}
    PROVE  Latest(S) \in S /\ \A t \in S : t <= Latest(S)
  <1> DEFINE N == {MaxSlot + 1 - s : s \in S}
  <1>1. MaxSlot \in Nat /\ \A s \in S : s \in Nat /\ s <= MaxSlot + 1
    BY TrackerAssumption DEF Tracked
  <1>2. N \in SUBSET Nat /\ N # {}
    BY <1>1
  <1>3. PICK n \in N : \A m \in N : n <= m
    BY <1>2, LeastNatural, Zenon
  <1>4. PICK s \in S : n = MaxSlot + 1 - s
    BY <1>3
  <1>5. \A t \in S : n <= MaxSlot + 1 - t
    BY <1>3
  <1>6. \E r \in S : \A t \in S : t <= r
    BY <1>1, <1>4, <1>5
  <1> QED
    BY <1>6 DEF Latest

(* Least() finds a block among some blocks.                                 *)
LEMMA LeastFacts ==
    ASSUME NEW P \in SUBSET Block, P # {}
    PROVE  Least(P) \in P
  <1>1. \A b \in P : b[1] \in Nat /\ b[2] \in Nat
    <2>1. Slot \subseteq Nat /\ Id \subseteq Nat
      BY TrackerAssumption DEF Slot
    <2>2. \A b \in P : b[1] \in Slot /\ b[2] \in Id
      BY DEF Block
    <2> QED
      BY <2>1, <2>2, Zenon
  <1> DEFINE N == {b[1] : b \in P}
  <1>a. N \in SUBSET Nat /\ N # {}
    BY <1>1
  <1>2. PICK n \in N : \A m \in N : n <= m
    BY <1>a, LeastNatural, Zenon
  <1> DEFINE Q == {b \in P : b[1] = n}
  <1>3. Q # {} /\ {b[2] : b \in Q} \in SUBSET Nat /\ {b[2] : b \in Q} # {}
    BY <1>1, <1>2
  <1>4. PICK k \in {b[2] : b \in Q} : \A m \in {b[2] : b \in Q} : k <= m
    BY <1>3, LeastNatural, Zenon
  <1>5. PICK b \in Q : b[2] = k
    BY <1>4
  <1>6. \A c \in P : n <= c[1] /\ n \in Nat
    BY <1>1, <1>2
  <1>7. \A c \in P : c[1] = n => k <= c[2]
    BY <1>4
  <1>8. \A c \in P : b[1] < c[1] \/ (b[1] = c[1] /\ b[2] <= c[2])
    BY <1>1, <1>5, <1>6, <1>7
  <1> QED
    BY <1>5, <1>8 DEF Least

(* A skipped slot x joins what reaches x to what x reaches.                 *)
LEMMA SkipJoins ==
    ASSUME NEW sk \in SUBSET Slot, NEW x \in Slot, NEW p \in Slot, NEW t \in Tracked
    PROVE  t \in SkipConnected(sk \cup {x}, p) <=>
              \/ t \in SkipConnected(sk, p)
              \/ x \in SkipConnected(sk, p) /\ t \in SkipConnected(sk, x)
  <1>1. MaxSlot \in Nat /\ x \in Nat /\ p \in Nat /\ t \in Nat /\ x \in Tracked
    BY TrackerAssumption DEF Slot, Tracked
  <1>2. ASSUME t \in SkipConnected(sk \cup {x}, p), t \notin SkipConnected(sk, p)
        PROVE  x \in SkipConnected(sk, p) /\ t \in SkipConnected(sk, x)
    <2>1. p < t /\ \A m \in (p + 1)..(t - 1) : m \in sk \cup {x}
      BY <1>2 DEF SkipConnected
    <2>2. x \in (p + 1)..(t - 1)
      BY <1>2, <2>1 DEF SkipConnected
    <2>3. p < x /\ x < t
      BY <1>1, <2>2
    <2>4. \A m \in (p + 1)..(x - 1) : m \in (p + 1)..(t - 1) /\ m # x
      BY <1>1, <2>3
    <2>5. \A m \in (x + 1)..(t - 1) : m \in (p + 1)..(t - 1) /\ m # x
      BY <1>1, <2>3
    <2> QED
      BY <1>1, <2>1, <2>3, <2>4, <2>5 DEF SkipConnected
  <1>3. ASSUME x \in SkipConnected(sk, p), t \in SkipConnected(sk, x)
        PROVE  t \in SkipConnected(sk \cup {x}, p)
    <2>1. /\ p < x /\ \A m \in (p + 1)..(x - 1) : m \in sk
          /\ x < t /\ \A m \in (x + 1)..(t - 1) : m \in sk
      BY <1>3 DEF SkipConnected
    <2>2. \A m \in (p + 1)..(t - 1) :
             m = x \/ m \in (p + 1)..(x - 1) \/ m \in (x + 1)..(t - 1)
      BY <1>1, <2>1
    <2>3. p < t
      BY <1>1, <2>1
    <2> QED
      BY <2>1, <2>2, <2>3 DEF SkipConnected
  <1>4. ASSUME t \in SkipConnected(sk, p) PROVE t \in SkipConnected(sk \cup {x}, p)
    BY <1>4 DEF SkipConnected
  <1> QED
    BY <1>2, <1>3, <1>4

(* A block is connected to the slot after it.                               *)
LEMMA NextConnected ==
    ASSUME NEW sk, NEW p \in Slot
    PROVE  p + 1 \in SkipConnected(sk, p)
  <1>1. PICK n \in Tracked : n = p + 1 /\ p < n
    BY TrackerAssumption DEF Slot, Tracked
  <1>2. \A m \in (p + 1)..(n - 1) : m \in sk
    BY <1>1, TrackerAssumption DEF Slot
  <1>3. n \in SkipConnected(sk, p)
    BY <1>1, <1>2 DEF SkipConnected
  <1> QED
    BY <1>1, <1>3

(* From the root on, pruned skip certificates make no difference.           *)
LEMMA PrunedSkips ==
    ASSUME TypeOK, KeptInv, NEW p \in Slot, root <= p
    PROVE  SkipConnected(skip, p) = SkipConnected(certs.skip, p)
  <1>1. root \in Nat /\ p \in Nat /\ certs.skip \subseteq Slot
    BY TrackerAssumption DEF TypeOK, Slot
  <1>2. \A t \in Tracked : \A m \in (p + 1)..(t - 1) : m \in skip <=> m \in certs.skip
    BY <1>1 DEF KeptInv, Tracked
  <1> QED
    BY <1>2 DEF SkipConnected

LEMMA InitIInv == Init => IInv
  <1> SUFFICES ASSUME Init PROVE IInv
    OBVIOUS
  <1>1. PICK r \in 0..(MaxSlot - 1), i \in Id :
           /\ root = r /\ bankRoot = r
           /\ notar = {<<r, i>>}
           /\ ready = [s \in Tracked |-> IF s = r + 1 THEN {<<r, i>>} ELSE {}]
           /\ highest = r + 1
           /\ events = {<<r + 1, <<r, i>>>>}
           /\ announced = r + 1
           /\ certs = [notar |-> {<<r, i>>}, skip |-> {}]
    BY Zenon DEF Init
  <1>2. skip = {} /\ sent = {} /\ windows = {} /\ mustPrune = FALSE
    BY DEF Init
  <1>3. r \in Nat /\ r \in Slot /\ r + 1 \in Tracked /\ r \in r..MaxSlot /\ <<r, i>> \in Block
    BY TrackerAssumption DEF Slot, Tracked, Block
  <1>4. TypeOK
    <2>1. \A s \in Tracked : (IF s = r + 1 THEN {<<r, i>>} ELSE {}) \in SUBSET Block
      BY <1>3
    <2>2. ready \in [Tracked -> SUBSET Block]
      BY <1>1, <2>1
    <2>3. events \subseteq Tracked \X Block /\ notar \subseteq (root..MaxSlot) \X Id
      BY <1>1, <1>3
    <2>4. certs \in [notar : SUBSET Block, skip : SUBSET Slot]
      BY <1>1, <1>3
    <2> QED
      BY <1>1, <1>2, <1>3, <2>2, <2>3, <2>4, Zenon DEF TypeOK
  <1>5. KeptInv
    BY <1>1, <1>2, <1>3 DEF KeptInv
  <1>6. ExactInv
    <2>1. ASSUME NEW s \in Tracked, NEW b \in Block
          PROVE  b \in ready[s] <=> IsParentReady(s, b)
      <3>1. IsParentReady(s, b) <=> b = <<r, i>> /\ s \in SkipConnected({}, r)
        BY <1>1 DEF IsParentReady
      <3>2. s \in SkipConnected({}, r) <=> s = r + 1
        BY <1>3 DEF SkipConnected, Tracked
      <3> QED
        BY <1>1, <3>1, <3>2
    <2>2. \A s \in Tracked : ready[s] \subseteq Block
      BY <1>4 DEF TypeOK
    <2> QED
      BY <2>1, <2>2 DEF ExactInv
  <1>7. HighestInv
    BY <1>1, <1>3 DEF HighestInv
  <1>8. NoLostEvent
    BY <1>1, <1>2, <1>3 DEF NoLostEvent
  <1>9. EventInv /\ WindowInv
    BY <1>1, <1>2, <1>3 DEF EventInv, WindowInv, BuildsOnReadyParent
  <1> QED
    BY <1>4, <1>5, <1>6, <1>7, <1>8, <1>9 DEF IInv

(* PotentialParents() are all the parents of the skipped slot.              *)
LEMMA PotentialExact ==
    ASSUME IInv, NEW s \in Slot, root < s
    PROVE  PotentialParents(s) = {b \in Block : IsParentReady(s, b)}
  <1>1. /\ root \in Nat /\ s \in Nat /\ root <= s - 1 /\ s - 1 \in Slot
        /\ s \in Tracked /\ s - 1 \in Tracked /\ MaxSlot \in Nat
    BY TrackerAssumption DEF IInv, TypeOK, Slot, Tracked
  <1>2. ready[s - 1] = {b \in Block : IsParentReady(s - 1, b)}
    BY <1>1 DEF IInv, ExactInv
  <1>3. s - 1 \in skip <=> s - 1 \in certs.skip
    BY <1>1 DEF IInv, KeptInv
  <1>4. certs.notar \subseteq Block /\ notar = {b \in certs.notar : b[1] >= root}
    BY DEF IInv, KeptInv, TypeOK
  <1>5. ASSUME NEW b \in Block PROVE b \in PotentialParents(s) <=> IsParentReady(s, b)
    <2>1. b[1] \in Nat /\ b[1] \in Slot
      BY TrackerAssumption DEF Block, Slot
    <2>2. CASE b[1] = s - 1
      <3>1. s \in SkipConnected(certs.skip, b[1])
        BY <1>1, <2>2 DEF SkipConnected
      <3>2. s - 1 \notin SkipConnected(certs.skip, b[1])
        BY <1>1, <2>2 DEF SkipConnected
      <3> QED
        BY <1>1, <1>2, <1>4, <2>2, <3>1, <3>2 DEF PotentialParents, IsParentReady
    <2>3. CASE b[1] # s - 1
      <3>1. s \in SkipConnected(certs.skip, b[1]) <=>
               s - 1 \in certs.skip /\ s - 1 \in SkipConnected(certs.skip, b[1])
        <4>1. ASSUME s \in SkipConnected(certs.skip, b[1])
              PROVE  s - 1 \in certs.skip /\ s - 1 \in SkipConnected(certs.skip, b[1])
          <5>1. b[1] < s /\ \A m \in (b[1] + 1)..(s - 1) : m \in certs.skip
            BY <4>1 DEF SkipConnected
          <5>2. b[1] < s - 1 /\ s - 1 \in (b[1] + 1)..(s - 1)
            BY <1>1, <2>1, <2>3, <5>1
          <5>3. \A m \in (b[1] + 1)..(s - 1 - 1) : m \in (b[1] + 1)..(s - 1)
            BY <1>1, <2>1
          <5> QED
            BY <1>1, <5>1, <5>2, <5>3 DEF SkipConnected
        <4>2. ASSUME s - 1 \in certs.skip, s - 1 \in SkipConnected(certs.skip, b[1])
              PROVE  s \in SkipConnected(certs.skip, b[1])
          <5>1. b[1] < s - 1 /\ \A m \in (b[1] + 1)..(s - 1 - 1) : m \in certs.skip
            BY <4>2 DEF SkipConnected
          <5>2. \A m \in (b[1] + 1)..(s - 1) : m = s - 1 \/ m \in (b[1] + 1)..(s - 1 - 1)
            BY <1>1, <2>1
          <5>3. b[1] < s
            BY <1>1, <2>1, <5>1
          <5> QED
            BY <1>1, <4>2, <5>1, <5>2, <5>3 DEF SkipConnected
        <4> QED
          BY <4>1, <4>2
      <3>2. b \in PotentialParents(s) <=> s - 1 \in skip /\ b \in ready[s - 1]
        BY <2>3 DEF PotentialParents
      <3> QED
        BY <1>2, <1>3, <3>1, <3>2 DEF IsParentReady
    <2> QED
      BY <2>2, <2>3
  <1>6. PotentialParents(s) \subseteq Block
    BY <1>2, <1>4 DEF PotentialParents
  <1> QED
    BY <1>5, <1>6

(* What AddParents() does to slots above the root, apart from exactness.    *)
LEMMA ParentsStep ==
    ASSUME IInv, NEW P \in SUBSET Block, NEW T \in SUBSET Tracked, AddParents(P, T),
           \A t \in T : t > root, UNCHANGED <<root, bankRoot, sent, windows, announced>>
    PROVE  /\ ready' \in [Tracked -> SUBSET Block]
           /\ \A s \in Tracked : ready'[s] = IF s \in T THEN ready[s] \cup P ELSE ready[s]
           /\ highest' \in Tracked /\ highest <= highest' /\ \A t \in T : t <= highest'
           /\ \A s \in Tracked : ready'[s] # {} => s <= highest'
           /\ events' \subseteq Tracked \X Block
           /\ NoLostEvent' /\ EventInv'
  <1>1. /\ ready \in [Tracked -> SUBSET Block] /\ highest \in Tracked
        /\ events \subseteq Tracked \X Block
        /\ root \in Nat /\ Tracked \subseteq Nat
    BY TrackerAssumption DEF IInv, TypeOK, Slot, Tracked
  <1>2. /\ ready' = [s \in Tracked |-> IF s \in T THEN ready[s] \cup P ELSE ready[s]]
        /\ highest' = Latest({highest} \cup T)
        /\ events' = events \cup
              {e \in T \X P : FirstOfWindow(e[1]) /\ e[2] \notin ready[e[1]]}
    BY DEF AddParents
  <1>3. \A s \in Tracked : ready'[s] = IF s \in T THEN ready[s] \cup P ELSE ready[s]
    BY <1>2
  <1>4. ready' \in [Tracked -> SUBSET Block]
    BY <1>1, <1>2
  <1>5. highest' \in Tracked /\ highest <= highest' /\ \A t \in T : t <= highest'
    BY <1>1, <1>2, LatestFacts, Zenon
  <1>6. \A s \in Tracked : ready'[s] # {} => s <= highest'
    <2>1. \A s \in Tracked : ready[s] # {} => s <= highest
      BY DEF IInv, HighestInv
    <2> QED
      BY <1>1, <1>3, <1>5, <2>1
  <1>7. events' \subseteq Tracked \X Block
    BY <1>1, <1>2, Zenon
  <1>8. NoLostEvent'
    <2> SUFFICES ASSUME NEW s \in Tracked, s > root, FirstOfWindow(s), NEW b \in Block
                 PROVE  <<s, b>> \in events' \cup sent <=> b \in ready'[s]
      BY <1>4 DEF NoLostEvent
    <2>1. <<s, b>> \in events \cup sent <=> b \in ready[s]
      BY DEF IInv, NoLostEvent
    <2>2. <<s, b>> \in events' <=>
             <<s, b>> \in events \/ (s \in T /\ b \in P /\ b \notin ready[s])
      BY <1>2
    <2> QED
      BY <1>3, <2>1, <2>2, Zenon
  <1>9. EventInv'
    <2>1. events \cap sent = {} /\ \A e \in events : e[1] > root => e[2] \in ready[e[1]]
      BY DEF IInv, EventInv
    <2>2. ASSUME NEW e \in events', e \notin events
          PROVE  e \notin sent /\ e[2] \in ready'[e[1]]
      <3>1. PICK s \in T, b \in P : e = <<s, b>> /\ FirstOfWindow(s) /\ b \notin ready[s]
        BY <1>2, <2>2
      <3>2. <<s, b>> \notin sent
        BY <3>1 DEF IInv, NoLostEvent
      <3> QED
        BY <1>3, <3>1, <3>2, Zenon
    <2>3. \A e \in events : e[1] \in Tracked
      BY <1>1
    <2> QED
      BY <1>3, <2>1, <2>2, <2>3, Zenon DEF EventInv
  <1> QED
    BY <1>3, <1>4, <1>5, <1>6, <1>7, <1>8, <1>9

(* A new certificate keeps what was ready, and so the windows that build on it. *)
LEMMA MoreReady ==
    ASSUME IInv, certs.notar \subseteq certs'.notar, certs.skip \subseteq certs'.skip,
           UNCHANGED <<windows, announced>>
    PROVE  WindowInv'
  <1>1. \A t, b : t \in SkipConnected(certs.skip, b[1]) => t \in SkipConnected(certs'.skip, b[1])
    BY DEF SkipConnected
  <1>2. \A t, b : IsParentReady(t, b) => IsParentReady(t, b)'
    BY <1>1 DEF IsParentReady
  <1> QED
    BY <1>2 DEF IInv, WindowInv, BuildsOnReadyParent

LEMMA NotarStep ==
    ASSUME IInv, NEW b \in Block, ReceiveNotar(b)
    PROVE  IInv'
  <1>1. /\ UNCHANGED <<root, bankRoot, announced, sent, windows>> /\ mustPrune' = TRUE
        /\ AddNewNotarFallbackOrStronger(b)
    BY DEF ReceiveNotar, Receive
  <1>2. CASE b[1] <= root \/ b \in notar
    <2>1. UNCHANGED <<skip, notar, ready, highest, events, certs>>
      BY <1>1, <1>2 DEF AddNewNotarFallbackOrStronger
    <2> QED
      BY <1>1, <2>1, Zenon DEF IInv, TypeOK, KeptInv, ExactInv, HighestInv, NoLostEvent, EventInv,
                        WindowInv, BuildsOnReadyParent, IsParentReady
  <1>3. CASE ~(b[1] <= root \/ b \in notar)
    <2> DEFINE T == SkipConnected(skip, b[1])
    <2>1. /\ notar' = notar \cup {b} /\ skip' = skip /\ AddParents({b}, T)
          /\ certs' = [certs EXCEPT !.notar = @ \cup {b}]
      BY <1>1, <1>3 DEF AddNewNotarFallbackOrStronger
    <2>2. b[1] \in Slot /\ b[2] \in Id /\ b[1] \in Nat /\ MaxSlot \in Nat
      BY TrackerAssumption DEF Block, Slot
    <2>3. root \in Nat /\ root < b[1] /\ b[1] \in root..MaxSlot
      BY <1>3, <2>2 DEF IInv, TypeOK, Slot
    <2>4. certs \in [notar : SUBSET Block, skip : SUBSET Slot]
      BY DEF IInv, TypeOK
    <2>5. certs'.notar = certs.notar \cup {b} /\ certs'.skip = certs.skip
      BY <2>1, <2>4
    <2>6. certs' \in [notar : SUBSET Block, skip : SUBSET Slot]
      BY <2>1, <2>4
    <2>7. T = SkipConnected(certs.skip, b[1])
      BY <2>2, <2>3, PrunedSkips DEF IInv
    <2>8. T \in SUBSET Tracked /\ (\A t \in T : t > root) /\ b[1] + 1 \in T
      <3>1. T \in SUBSET Tracked /\ \A t \in T : t \in Nat /\ b[1] < t
        BY TrackerAssumption DEF SkipConnected, Tracked
      <3>3. b[1] + 1 \in T
        BY <2>2, NextConnected
      <3> HIDE DEF T
      <3>4. \A t \in T : t > root
        BY <2>2, <2>3, <3>1
      <3> QED
        BY <3>1, <3>3, <3>4
    <2> HIDE DEF T
    <2>9. /\ ready' \in [Tracked -> SUBSET Block]
          /\ \A s \in Tracked : ready'[s] = IF s \in T THEN ready[s] \cup {b} ELSE ready[s]
          /\ highest' \in Tracked /\ highest <= highest' /\ \A t \in T : t <= highest'
          /\ \A s \in Tracked : ready'[s] # {} => s <= highest'
          /\ events' \subseteq Tracked \X Block
          /\ NoLostEvent' /\ EventInv'
      BY <1>1, <2>1, <2>8, ParentsStep, Zenon
    <2>10. TypeOK'
      <3>1. notar' \subseteq (root'..MaxSlot) \X Id
        <4>1. b = <<b[1], b[2]>>
          BY DEF Block
        <4> QED
          BY <1>1, <2>1, <2>2, <2>3, <4>1 DEF IInv, TypeOK
      <3> QED
        BY <1>1, <2>1, <2>6, <2>9, <3>1 DEF IInv, TypeOK
    <2>11. KeptInv'
      <3>1. /\ root <= bankRoot /\ notar = {c \in certs.notar : c[1] >= root}
            /\ skip = {x \in certs.skip : x >= root}
        BY DEF IInv, KeptInv
      <3>2. b[1] >= root
        BY <2>2, <2>3
      <3>3. notar' = {c \in certs'.notar : c[1] >= root}
        BY <2>1, <2>5, <3>1, <3>2
      <3> QED
        BY <1>1, <2>1, <2>5, <3>1, <3>3 DEF KeptInv
    <2>12. ExactInv'
      <3>1. ASSUME NEW s \in Tracked, s >= root, NEW c \in Block
            PROVE  c \in ready'[s] <=> IsParentReady(s, c)'
        <4>1. c \in ready[s] <=> IsParentReady(s, c)
          BY <3>1 DEF IInv, ExactInv
        <4>2. IsParentReady(s, c)' <=> IsParentReady(s, c) \/ (c = b /\ s \in T)
          BY <2>5, <2>7 DEF IsParentReady
        <4> QED
          BY <2>9, <4>1, <4>2
      <3>2. \A s \in Tracked : ready'[s] \subseteq Block
        BY <2>9
      <3> QED
        BY <1>1, <3>1, <3>2 DEF ExactInv
    <2>13. HighestInv'
      <3>1. highest \in Nat /\ highest' \in Nat /\ bankRoot \in Nat
            /\ \A c \in notar : c[1] \in Nat
        <4>1. \A c \in notar : c[1] \in root..MaxSlot
          BY DEF IInv, TypeOK
        <4> QED
          BY <2>3, <2>9, <4>1, TrackerAssumption DEF IInv, TypeOK, Tracked, Slot
      <3>2. bankRoot < highest /\ \A c \in notar : c[1] < highest
        BY DEF IInv, HighestInv
      <3>3. b[1] < highest'
        BY <2>2, <2>8, <2>9, <3>1, SMTT(30)
      <3>4. \A c \in notar : c[1] < highest'
        BY <2>9, <3>1, <3>2
      <3>5. bankRoot < highest'
        BY <2>9, <3>1, <3>2
      <3> QED
        BY <1>1, <2>1, <2>9, <3>3, <3>4, <3>5 DEF HighestInv
    <2>14. WindowInv'
      BY <1>1, <2>5, MoreReady
    <2> QED
      BY <2>9, <2>10, <2>11, <2>12, <2>13, <2>14, Zenon DEF IInv
  <1> QED
    BY <1>2, <1>3

LEMMA SkipStep ==
    ASSUME IInv, NEW x \in Slot, ReceiveSkip(x)
    PROVE  IInv'
  <1>1. /\ UNCHANGED <<root, bankRoot, announced, sent, windows>> /\ mustPrune' = TRUE
        /\ AddNewSkip(x)
    BY DEF ReceiveSkip, Receive
  <1>2. CASE x <= root
    <2>1. UNCHANGED <<skip, notar, ready, highest, events, certs>>
      BY <1>1, <1>2 DEF AddNewSkip
    <2> QED
      BY <1>1, <2>1, Zenon DEF IInv, TypeOK, KeptInv, ExactInv, HighestInv, NoLostEvent, EventInv,
                        WindowInv, BuildsOnReadyParent, IsParentReady
  <1>3. CASE ~(x <= root)
    <2> DEFINE T == SkipConnected(skip, x)
               P == PotentialParents(x)
    <2>1. /\ skip' = skip \cup {x} /\ notar' = notar
          /\ P = {} => UNCHANGED <<ready, highest, events>>
          /\ P # {} => AddParents(P, T)
          /\ certs' = [certs EXCEPT !.skip = @ \cup {x}]
      BY <1>1, <1>3 DEF AddNewSkip
    <2>2. root \in Nat /\ x \in Nat /\ root < x /\ x \in root..MaxSlot /\ x \in Tracked
      BY <1>3, TrackerAssumption DEF IInv, TypeOK, Slot, Tracked
    <2>3. certs \in [notar : SUBSET Block, skip : SUBSET Slot]
      BY DEF IInv, TypeOK
    <2>4. certs'.skip = certs.skip \cup {x} /\ certs'.notar = certs.notar
      BY <2>1, <2>3
    <2>5. certs' \in [notar : SUBSET Block, skip : SUBSET Slot]
      BY <2>1, <2>3
    <2>6. T = SkipConnected(certs.skip, x)
      BY <2>2, PrunedSkips DEF IInv
    <2>7. P = {b \in Block : IsParentReady(x, b)}
      BY <2>2, PotentialExact
    <2>8. T \in SUBSET Tracked /\ \A t \in T : t \in Nat /\ x < t
      BY TrackerAssumption DEF SkipConnected, Tracked
    <2> HIDE DEF T, P
    <2>9. \A t \in T : t > root
      BY <2>2, <2>8
    <2>10. /\ ready' \in [Tracked -> SUBSET Block]
           /\ \A s \in Tracked : ready'[s] = IF s \in T THEN ready[s] \cup P ELSE ready[s]
           /\ highest' \in Tracked /\ highest <= highest'
           /\ \A s \in Tracked : ready'[s] # {} => s <= highest'
           /\ events' \subseteq Tracked \X Block
           /\ NoLostEvent' /\ EventInv'
      <3>1. CASE P = {}
        <4>1. /\ ready \in [Tracked -> SUBSET Block] /\ highest \in Tracked /\ highest \in Nat
              /\ events \subseteq Tracked \X Block
          BY TrackerAssumption DEF IInv, TypeOK, Tracked
        <4>2. ready' = ready /\ highest' = highest /\ events' = events
          BY <2>1, <3>1
        <4>3. NoLostEvent' /\ EventInv'
          BY <1>1, <4>2 DEF IInv, NoLostEvent, EventInv
        <4> QED
          BY <3>1, <4>1, <4>2, <4>3 DEF IInv, HighestInv
      <3>2. CASE P # {}
        <4>1. P \in SUBSET Block /\ AddParents(P, T)
          BY <2>1, <2>7, <3>2
        <4> QED
          BY <1>1, <2>8, <2>9, <4>1, ParentsStep, Zenon
      <3> QED
        BY <3>1, <3>2
    <2>11. TypeOK'
      BY <1>1, <2>1, <2>2, <2>5, <2>10 DEF IInv, TypeOK
    <2>12. KeptInv'
      <3>1. /\ root <= bankRoot /\ notar = {c \in certs.notar : c[1] >= root}
            /\ skip = {y \in certs.skip : y >= root}
        BY DEF IInv, KeptInv
      <3>2. skip' = {y \in certs'.skip : y >= root}
        BY <2>1, <2>2, <2>4, <3>1
      <3> QED
        BY <1>1, <2>1, <2>4, <3>1, <3>2 DEF KeptInv
    <2>13. ExactInv'
      <3>1. ASSUME NEW s \in Tracked, s >= root, NEW c \in Block
            PROVE  c \in ready'[s] <=> IsParentReady(s, c)'
        <4>1. c \in ready[s] <=> IsParentReady(s, c)
          BY <3>1, Zenon DEF IInv, ExactInv
        <4>2. c \in P <=> c \in certs.notar /\ x \in SkipConnected(certs.skip, c[1])
          BY <2>7 DEF IsParentReady
        <4>3. c[1] \in Slot /\ certs.skip \in SUBSET Slot
          BY <2>3 DEF Block
        <4>4. s \in SkipConnected(certs.skip \cup {x}, c[1]) <=>
                 \/ s \in SkipConnected(certs.skip, c[1])
                 \/ x \in SkipConnected(certs.skip, c[1]) /\ s \in T
          BY <2>6, <4>3, SkipJoins
        <4>5. IsParentReady(s, c)' <=> IsParentReady(s, c) \/ (c \in P /\ s \in T)
          BY <2>4, <4>2, <4>4, Zenon DEF IsParentReady
        <4> QED
          BY <2>10, <4>1, <4>5, Zenon
      <3>2. \A s \in Tracked : ready'[s] \subseteq Block
        BY <2>10
      <3> QED
        BY <1>1, <3>1, <3>2 DEF ExactInv
    <2>14. HighestInv'
      <3>1. highest \in Nat /\ highest' \in Nat /\ bankRoot \in Nat
            /\ \A c \in notar : c[1] \in Nat
        <4>1. \A c \in notar : c[1] \in root..MaxSlot
          BY DEF IInv, TypeOK
        <4> QED
          BY <2>2, <2>10, <4>1, TrackerAssumption, SMTT(30) DEF IInv, TypeOK, Tracked, Slot
      <3>2. bankRoot < highest /\ \A c \in notar : c[1] < highest
        BY DEF IInv, HighestInv
      <3>3. \A c \in notar : c[1] < highest'
        BY <2>10, <3>1, <3>2
      <3>4. bankRoot < highest'
        BY <2>10, <3>1, <3>2
      <3> QED
        BY <1>1, <2>1, <2>10, <3>3, <3>4 DEF HighestInv
    <2>15. WindowInv'
      BY <1>1, <2>4, MoreReady
    <2> QED
      BY <2>10, <2>11, <2>12, <2>13, <2>14, <2>15 DEF IInv
  <1> QED
    BY <1>2, <1>3

(* Nothing the invariant speaks of changes but the flag.                    *)
LEMMA StutterStep ==
    ASSUME IInv, UNCHANGED <<tracker, bankRoot, events, announced, sent, windows, certs>>,
           mustPrune' \in BOOLEAN
    PROVE  IInv'
  BY Zenon DEF IInv, TypeOK, KeptInv, ExactInv, HighestInv, NoLostEvent, EventInv, WindowInv,
         BuildsOnReadyParent, IsParentReady, tracker

LEMMA PruneStep ==
    ASSUME IInv, MaybePrune
    PROVE  IInv'
  <1>1. /\ root' = bankRoot /\ mustPrune' = FALSE
        /\ skip' = {s \in skip : s >= bankRoot}
        /\ notar' = {b \in notar : b[1] >= bankRoot}
        /\ ready' = [s \in Tracked |-> IF s >= bankRoot THEN ready[s] ELSE {}]
        /\ UNCHANGED <<highest, bankRoot, events, announced, sent, windows, certs>>
    BY DEF MaybePrune, SetRoot
  <1>2. root \in Nat /\ bankRoot \in Nat /\ root <= bankRoot /\ MaxSlot \in Nat
    BY TrackerAssumption DEF IInv, TypeOK, KeptInv, Slot
  <1>3. \A s \in Tracked : s \in Nat /\ ready'[s] = IF s >= bankRoot THEN ready[s] ELSE {}
    BY <1>1, TrackerAssumption DEF Tracked
  <1>4. TypeOK'
    <2>1. skip' \subseteq bankRoot..MaxSlot
      <3>1. \A s \in skip : s \in root..MaxSlot
        BY DEF IInv, TypeOK
      <3>2. \A s \in skip : s >= bankRoot => s \in bankRoot..MaxSlot
        BY <1>2, <3>1
      <3> QED
        BY <1>1, <3>2
    <2>2. ASSUME NEW b \in notar, b[1] >= bankRoot PROVE b \in (bankRoot..MaxSlot) \X Id
      <3>1. b[1] \in root..MaxSlot /\ b[2] \in Id /\ b = <<b[1], b[2]>>
        BY DEF IInv, TypeOK
      <3>2. b[1] \in bankRoot..MaxSlot
        BY <1>2, <2>2, <3>1
      <3> QED
        BY <3>1, <3>2
    <2>3. ready' \in [Tracked -> SUBSET Block]
      BY <1>1 DEF IInv, TypeOK
    <2> QED
      BY <1>1, <2>1, <2>2, <2>3, Zenon DEF IInv, TypeOK
  <1>5. KeptInv'
    <2>1. /\ notar = {c \in certs.notar : c[1] >= root} /\ skip = {y \in certs.skip : y >= root}
          /\ certs.notar \subseteq Block /\ certs.skip \subseteq Slot
      BY DEF IInv, KeptInv, TypeOK
    <2>2. \A y \in certs.skip : y >= bankRoot => y >= root
      BY <1>2, <2>1 DEF Slot
    <2>3. ASSUME NEW c \in certs.notar, c[1] >= bankRoot PROVE c[1] >= root
      <3>1. c[1] \in Slot
        BY <2>1 DEF Block
      <3> QED
        BY <1>2, <2>3, <3>1 DEF Slot
    <2> QED
      BY <1>1, <1>2, <2>1, <2>2, <2>3 DEF KeptInv
  <1>6. ExactInv'
    <2>1. \A s \in Tracked : s >= bankRoot => s >= root
      BY <1>2, <1>3
    <2>2. \A s, b : IsParentReady(s, b)' <=> IsParentReady(s, b)
      BY <1>1, Zenon DEF IsParentReady
    <2> QED
      BY <1>1, <1>3, <2>1, <2>2, Zenon DEF IInv, ExactInv
  <1>7. HighestInv'
    BY <1>1, <1>3, Zenon DEF IInv, HighestInv
  <1>8. NoLostEvent'
    <2> SUFFICES ASSUME NEW s \in Tracked, s > bankRoot, FirstOfWindow(s)
                 PROVE  {b \in Block : <<s, b>> \in events \cup sent} = ready'[s]
      BY <1>1 DEF NoLostEvent
    <2>1. s > root /\ s >= bankRoot
      BY <1>2, <1>3
    <2>2. {b \in Block : <<s, b>> \in events \cup sent} = ready[s]
      BY <2>1 DEF IInv, NoLostEvent
    <2> QED
      BY <1>3, <2>1, <2>2
  <1>9. EventInv'
    <2>1. ASSUME NEW e \in events, e[1] > bankRoot PROVE e[2] \in ready'[e[1]]
      <3>1. e[1] \in Tracked
        BY DEF IInv, TypeOK
      <3>2. e[1] > root /\ e[1] >= bankRoot
        BY <1>2, <1>3, <2>1, <3>1
      <3> QED
        BY <1>3, <3>1, <3>2 DEF IInv, EventInv
    <2> QED
      BY <1>1, <2>1 DEF IInv, EventInv
  <1>10. WindowInv'
    BY <1>1, MoreReady
  <1> QED
    BY <1>4, <1>5, <1>6, <1>7, <1>8, <1>9, <1>10 DEF IInv

LEMMA RootStep ==
    ASSUME IInv, NEW r \in Slot, RootBank(r)
    PROVE  IInv'
  <1>1. /\ bankRoot < r /\ bankRoot' = r
        /\ UNCHANGED <<tracker, events, announced, mustPrune, sent, windows, certs>>
    BY DEF RootBank
  <1>2. r < highest
    BY DEF RootBank, IInv, HighestInv
  <1>3. root \in Nat /\ bankRoot \in Nat /\ r \in Nat /\ root <= bankRoot
    BY TrackerAssumption DEF IInv, TypeOK, KeptInv, Slot
  <1>4. root <= r
    BY <1>1, <1>3
  <1>5. TypeOK' /\ KeptInv'
    BY <1>1, <1>4, Zenon DEF IInv, TypeOK, KeptInv, tracker
  <1>6. HighestInv' /\ ExactInv'
    BY <1>1, <1>2 DEF IInv, HighestInv, ExactInv, IsParentReady, tracker
  <1>7. NoLostEvent' /\ EventInv'
    BY <1>1 DEF IInv, NoLostEvent, EventInv, tracker
  <1>8. WindowInv'
    BY <1>1, MoreReady
  <1> QED
    BY <1>5, <1>6, <1>7, <1>8 DEF IInv

(* A window that is not missed is above the root and has a parent.          *)
LEMMA WindowHasParent ==
    ASSUME IInv, NEW s \in NewWindows, ~MissedWindow(s)
    PROVE  /\ s \in Tracked /\ ready[s] # {}
           /\ Least(ready[s]) \in Block /\ IsParentReady(s, Least(ready[s]))
  <1>1. PICK e \in events : e[1] = s
    BY DEF NewWindows
  <1>2. s \in Tracked /\ e[2] \in Block
    BY <1>1 DEF IInv, TypeOK
  <1>3. /\ root \in Nat /\ bankRoot \in Nat /\ highest \in Nat /\ s \in Nat
        /\ root <= bankRoot /\ bankRoot < highest /\ highest <= s
    BY <1>2, TrackerAssumption
       DEF IInv, TypeOK, KeptInv, HighestInv, Slot, Tracked, MissedWindow
  <1>4. s > root /\ s >= root
    BY <1>3
  <1>5. e[2] \in ready[s]
    BY <1>1, <1>4 DEF IInv, EventInv
  <1>6. ready[s] = {b \in Block : IsParentReady(s, b)}
    BY <1>2, <1>4 DEF IInv, ExactInv
  <1>7. ready[s] \in SUBSET Block
    BY <1>6
  <1>8. Least(ready[s]) \in ready[s]
    BY <1>5, <1>7, LeastFacts
  <1> QED
    BY <1>2, <1>5, <1>6, <1>8

LEMMA LoopStep ==
    ASSUME IInv, NEW shreds \in BOOLEAN, Loop(shreds)
    PROVE  IInv'
  <1> DEFINE W == {w \in NewWindows \cap Mine : ~shreds /\ ~MissedWindow(w)}
  <1>1. /\ announced' = Latest({announced} \cup NewWindows)
        /\ windows' = windows \cup {<<s, Least(ready[s])>> : s \in W}
        /\ sent' = sent \cup events /\ events' = {}
        /\ UNCHANGED <<tracker, bankRoot, mustPrune, certs>>
    BY DEF Loop
  <1>2. NewWindows \subseteq Tracked /\ announced \in Tracked /\ Tracked \subseteq Nat
    BY TrackerAssumption DEF NewWindows, IInv, TypeOK, Tracked
  <1>3. announced' \in Tracked /\ announced <= announced' /\ \A s \in NewWindows : s <= announced'
    BY <1>1, <1>2, LatestFacts, Zenon
  <1>4. \A s \in NewWindows : announced < s /\ \A u \in NewWindows : u = s
    <2>1. \A s \in NewWindows : announced < s /\ \A u \in NewWindows : u <= s
      BY DEF NewWindows
    <2> QED
      BY <1>2, <2>1
  <1>5. \A s \in W : /\ s \in NewWindows /\ s \in Tracked /\ Least(ready[s]) \in Block
                     /\ IsParentReady(s, Least(ready[s]))
    BY WindowHasParent, Zenon
  <1> HIDE DEF W
  <1>6. ASSUME NEW w \in windows', w \notin windows
        PROVE  /\ w \in Tracked \X Block /\ w[1] \in NewWindows
               /\ w = <<w[1], Least(ready[w[1]])>> /\ IsParentReady(w[1], w[2])
    BY <1>1, <1>5, <1>6
  <1>7. TypeOK'
    <2>1. windows' \subseteq Tracked \X Block
      BY <1>6 DEF IInv, TypeOK
    <2> QED
      BY <1>1, <1>3, <2>1, Zenon DEF IInv, TypeOK, tracker
  <1>8. KeptInv' /\ ExactInv' /\ HighestInv'
    BY <1>1, Zenon DEF IInv, KeptInv, ExactInv, HighestInv, IsParentReady, tracker
  <1>9. NoLostEvent' /\ EventInv'
    <2>1. events' \cup sent' = events \cup sent
      BY <1>1
    <2>2. NoLostEvent'
      BY <1>1, <2>1, Zenon DEF IInv, NoLostEvent, tracker
    <2> QED
      BY <1>1, <2>2 DEF EventInv
  <1>10. WindowInv'
    <2>1. /\ \A w \in windows : w[1] \in Tracked /\ w[1] <= announced /\ IsParentReady(w[1], w[2])
          /\ \A v, w \in windows : v[1] = w[1] => v = w
      BY DEF IInv, TypeOK, WindowInv, BuildsOnReadyParent
    <2>2. \A w \in windows' : w[1] <= announced'
      <3>1. ASSUME NEW w \in windows PROVE w[1] <= announced'
        <4>1. w[1] \in Nat /\ announced \in Nat /\ announced' \in Nat
          BY <1>2, <1>3, <2>1, Zenon
        <4> QED
          BY <1>3, <2>1, <4>1
      <3> QED
        BY <1>3, <1>6, <3>1
    <2>3. \A w \in windows' : IsParentReady(w[1], w[2])'
      <3>1. \A w \in windows' : IsParentReady(w[1], w[2])
        BY <1>6, <2>1
      <3> QED
        BY <1>1, <3>1 DEF IsParentReady
    <2>4. ASSUME NEW v \in windows', NEW w \in windows', v[1] = w[1] PROVE v = w
      <3>1. \A s \in NewWindows : \A u \in windows : u[1] # s
        BY <1>2, <1>4, <2>1
      <3> QED
        BY <1>6, <2>1, <2>4, <3>1
    <2> QED
      BY <2>2, <2>3, <2>4 DEF WindowInv, BuildsOnReadyParent
  <1> QED
    BY <1>7, <1>8, <1>9, <1>10 DEF IInv

LEMMA NextIInv == IInv /\ [Next]_vars => IInv'
  <1> SUFFICES ASSUME IInv, [Next]_vars PROVE IInv'
    OBVIOUS
  <1>1. CASE \E b \in Block : ReceiveNotar(b)
    BY <1>1, NotarStep
  <1>2. CASE \E s \in Slot : ReceiveSkip(s)
    BY <1>2, SkipStep
  <1>3. CASE ReceiveOther
    BY <1>3, StutterStep DEF ReceiveOther, Receive, tracker
  <1>4. CASE MaybePrune
    BY <1>4, PruneStep
  <1>5. CASE \E r \in Slot : RootBank(r)
    BY <1>5, RootStep
  <1>6. CASE \E shreds \in BOOLEAN : Loop(shreds)
    BY <1>6, LoopStep
  <1>7. CASE UNCHANGED vars
    <2>1. mustPrune \in BOOLEAN
      BY DEF IInv, TypeOK
    <2> QED
      BY <1>7, <2>1, StutterStep DEF vars, tracker
  <1> QED
    BY <1>1, <1>2, <1>3, <1>4, <1>5, <1>6, <1>7 DEF Next

LEMMA SpecIInv == Spec => []IInv
  BY InitIInv, NextIInv, PTL DEF Spec

(* The service loop always finds a parent for the window it looks at.       *)
LEMMA ParentKnownFollows == IInv => ParentKnown
  BY WindowHasParent, Zenon DEF ParentKnown

LEMMA ExactFollows == IInv => ReadyExact
  <1> SUFFICES ASSUME IInv, NEW s \in Tracked, s > root
               PROVE  ready[s] = {b \in Block : IsParentReady(s, b)}
    BY DEF ReadyExact
  <1>1. s >= root
    BY TrackerAssumption DEF IInv, TypeOK, Tracked, Slot
  <1> QED
    BY <1>1 DEF IInv, ExactInv

(* The tracker's statuses, the root and the queues keep their types.         *)
THEOREM TrackerTyped == Spec => []TypeOK
  <1>1. IInv => TypeOK
    BY DEF IInv
  <1> QED
    BY <1>1, SpecIInv, PTL

(* parents_ready is exact above the root, whatever the order of the          *)
(* certificates and of the prunings between them.                            *)
THEOREM TrackerExact == Spec => []ReadyExact
  BY ExactFollows, SpecIInv, PTL

(* Every parent of the first slot of a window is raised as ParentReady.      *)
THEOREM EventsComplete == Spec => []NoLostEvent
  <1>1. IInv => NoLostEvent
    BY DEF IInv
  <1> QED
    BY <1>1, SpecIInv, PTL

(* ... and none of them a second time.                                       *)
THEOREM EventsOnce == Spec => AnnouncedOnce
  <1>1. IInv /\ IInv' /\ [Next]_vars => [events' \cap sent = {}]_vars
    <2> SUFFICES ASSUME IInv, IInv', Next PROVE events' \cap sent = {}
      BY DEF vars
    <2>1. sent \subseteq sent'
      BY Zenon DEF Next, ReceiveNotar, ReceiveSkip, ReceiveOther, Receive, MaybePrune, RootBank, Loop
    <2>2. events' \cap sent' = {}
      BY DEF IInv, EventInv
    <2> QED
      BY <2>1, <2>2
  <1> QED
    BY <1>1, SpecIInv, PTL DEF Spec, AnnouncedOnce

(* add_produce_block_event() never reaches its unreachable!() arm.           *)
THEOREM UnreachableArm == Spec => []ParentKnown
  BY ParentKnownFollows, SpecIInv, PTL

(* The windows it starts build on a parent that is ready, each window once.  *)
THEOREM WindowsSound == Spec => []BuildsOnReadyParent
  <1>1. IInv => BuildsOnReadyParent
    BY DEF IInv, WindowInv
  <1> QED
    BY <1>1, SpecIInv, PTL
=============================================================================
