-------------------------- MODULE SlotAgreementProofs --------------------------
(***************************************************************************)
(* Proofs about the voting of a slot, for any number of validators and any   *)
(* distribution of the stake with less than a fifth outside the rules.       *)
(*                                                                         *)
(* The invariant keeps what a vote was cast for: a fallback vote leaves its   *)
(* condition true, and a Finalize vote its certificate, because votes are     *)
(* only added.                                                              *)
(***************************************************************************)
EXTENDS SlotAgreement, FiniteSetTheorems, TLAPS

(* A larger set of validators has no less stake.                             *)
LEMMA StakeMonotone ==
    ASSUME NEW S \in SUBSET Validator, NEW R \in SUBSET S
    PROVE  StakeOf[R] \in Nat /\ StakeOf[S] \in Nat /\ StakeOf[R] <= StakeOf[S]
  <1>1. R \in SUBSET Validator /\ S \ R \in SUBSET Validator
    OBVIOUS
  <1>2. StakeOf[R] \in Nat /\ StakeOf[S] \in Nat /\ StakeOf[S \ R] \in Nat
    BY <1>1, StakeAssumption
  <1>3. R \cap (S \ R) = {} /\ R \cup (S \ R) = S
    OBVIOUS
  <1>4. StakeOf[R \cup (S \ R)] = StakeOf[R] + StakeOf[S \ R]
    BY <1>1, <1>3, StakeAssumption
  <1> QED
    BY <1>2, <1>3, <1>4

(* The complement of a set has the rest of the stake.                        *)
LEMMA StakeRest ==
    ASSUME NEW S \in SUBSET Validator
    PROVE  /\ StakeOf[S] \in Nat /\ StakeOf[Validator \ S] \in Nat /\ Total \in Nat
           /\ StakeOf[S] + StakeOf[Validator \ S] = Total
  <1>1. Validator \ S \in SUBSET Validator /\ Validator \in SUBSET Validator
    OBVIOUS
  <1>2. StakeOf[S] \in Nat /\ StakeOf[Validator \ S] \in Nat /\ StakeOf[Validator] \in Nat
    BY <1>1, StakeAssumption
  <1>3. S \cap (Validator \ S) = {} /\ S \cup (Validator \ S) = Validator
    OBVIOUS
  <1>4. StakeOf[S \cup (Validator \ S)] = StakeOf[S] + StakeOf[Validator \ S]
    BY <1>1, <1>3, StakeAssumption
  <1> QED
    BY <1>2, <1>3, <1>4 DEF Total

(* A set of validators with more stake than needed.                          *)
LEMMA AtLeastMonotone ==
    ASSUME NEW S \in SUBSET Validator, NEW R \in SUBSET S, NEW p \in Nat, AtLeast(StakeOf[R], p)
    PROVE  AtLeast(StakeOf[S], p)
  <1>1. StakeOf[R] \in Nat /\ StakeOf[S] \in Nat /\ StakeOf[R] <= StakeOf[S]
    BY StakeMonotone
  <1>2. Total \in Nat
    BY StakeRest
  <1>3. StakeOf[R] * 100 <= StakeOf[S] * 100
    BY <1>1
  <1>4. p * Total \in Nat
    BY <1>2
  <1> QED
    BY <1>1, <1>3, <1>4 DEF AtLeast

-----------------------------------------------------------------------------
(* How often a validator counts when the stakes behind several blocks are     *)
(* added up: at most four times, once for its notarize vote and three times   *)
(* for its notarize-fallback votes.                                          *)
Times(back, B, v) == Cardinality({c \in B : v \in back[c]})
Level(back, B, k) == {v \in Validator : Times(back, B, v) >= k}
Weight(back, B) ==
    StakeOf[Level(back, B, 1)] + StakeOf[Level(back, B, 2)]
    + StakeOf[Level(back, B, 3)] + StakeOf[Level(back, B, 4)]

(* One block more counts its backers once more.                              *)
LEMMA TimesAdd ==
    ASSUME NEW back \in [Block -> SUBSET Validator], NEW B \in SUBSET Block, NEW b \in B,
           NEW v \in Validator
    PROVE  /\ Times(back, B, v) \in Nat /\ Times(back, B \ {b}, v) \in Nat
           /\ v \in back[b] => Times(back, B, v) = Times(back, B \ {b}, v) + 1
           /\ v \notin back[b] => Times(back, B, v) = Times(back, B \ {b}, v)
  <1> DEFINE S == {c \in B : v \in back[c]}
             T == {c \in B \ {b} : v \in back[c]}
  <1>1. S \in SUBSET Block /\ T \in SUBSET Block /\ T = S \ {b}
    OBVIOUS
  <1>2. IsFiniteSet(S) /\ IsFiniteSet(T)
    BY <1>1, FS_Subset, StakeAssumption
  <1>3. Cardinality(S) \in Nat /\ Cardinality(T) \in Nat
    BY <1>2, FS_CardinalityType
  <1>4. b \in S <=> v \in back[b]
    OBVIOUS
  <1>5. Cardinality(S \ {b}) = IF b \in S THEN Cardinality(S) - 1 ELSE Cardinality(S)
    BY <1>2, FS_RemoveElement
  <1>6. Times(back, B, v) = Cardinality(S) /\ Times(back, B \ {b}, v) = Cardinality(T)
    BY DEF Times
  <1> HIDE DEF S, T
  <1> QED
    BY <1>1, <1>3, <1>4, <1>5, <1>6

(* A level grows by the backers that were one below it.                      *)
Fresh(back, B, b, k) == {v \in back[b] : Times(back, B \ {b}, v) = k - 1}

LEMMA LevelAdds ==
    ASSUME NEW back \in [Block -> SUBSET Validator], NEW B \in SUBSET Block, NEW b \in B,
           NEW k \in 1..4
    PROVE  /\ Fresh(back, B, b, k) \in SUBSET Validator
           /\ StakeOf[Level(back, B \ {b}, k)] \in Nat /\ StakeOf[Fresh(back, B, b, k)] \in Nat
           /\ StakeOf[Level(back, B, k)]
              = StakeOf[Level(back, B \ {b}, k)] + StakeOf[Fresh(back, B, b, k)]
  <1> DEFINE E == {v \in back[b] : Times(back, B \ {b}, v) = k - 1}
             L == Level(back, B, k)
             K == Level(back, B \ {b}, k)
  <1>1. E \in SUBSET Validator /\ K \in SUBSET Validator
    BY DEF Level
  <1>2. \A v \in Validator : v \in L <=> v \in K \cup E
    <2> SUFFICES ASSUME NEW v \in Validator PROVE v \in L <=> v \in K \cup E
      OBVIOUS
    <2> DEFINE n == Times(back, B, v)
               m == Times(back, B \ {b}, v)
    <2>1. /\ n \in Nat /\ m \in Nat
          /\ v \in back[b] => n = m + 1
          /\ v \notin back[b] => n = m
      BY TimesAdd
    <2>2. (v \in L <=> n >= k) /\ (v \in K <=> m >= k) /\ (v \in E <=> v \in back[b] /\ m = k - 1)
      BY DEF Level
    <2> HIDE DEF n, m, L, K, E
    <2>3. CASE v \in back[b]
      <3>1. n >= k <=> (m >= k \/ m = k - 1)
        BY <2>1, <2>3
      <3> QED
        BY <2>2, <2>3, <3>1
    <2>4. CASE v \notin back[b]
      BY <2>1, <2>2, <2>4
    <2> QED
      BY <2>3, <2>4
  <1>3. L = K \cup E
    <2>1. L \in SUBSET Validator
      BY DEF Level
    <2> QED
      BY <1>1, <1>2, <2>1
  <1>4. K \cap E = {}
    <2> SUFFICES ASSUME NEW v \in K, v \in E PROVE FALSE
      OBVIOUS
    <2>1. Times(back, B \ {b}, v) >= k /\ Times(back, B \ {b}, v) = k - 1 /\ k \in Int
      BY DEF Level
    <2> QED
      BY <2>1
  <1>5. StakeOf[K \cup E] = StakeOf[K] + StakeOf[E] /\ StakeOf[K] \in Nat /\ StakeOf[E] \in Nat
    BY <1>1, <1>4, StakeAssumption
  <1> QED
    BY <1>1, <1>3, <1>5 DEF Fresh

(* The weight of some blocks is the sum of the stakes behind each of them, as *)
(* long as nobody is behind more than four.                                  *)
LEMMA WeightAdds ==
    ASSUME NEW back \in [Block -> SUBSET Validator], NEW B \in SUBSET Block, NEW b \in B,
           \A v \in Validator : Times(back, B, v) <= 4
    PROVE  /\ Weight(back, B \ {b}) \in Nat /\ StakeOf[back[b]] \in Nat
           /\ Weight(back, B) = Weight(back, B \ {b}) + StakeOf[back[b]]
  <1> DEFINE E(k) == Fresh(back, B, b, k)
             K(k) == StakeOf[Level(back, B \ {b}, k)]
  <1>1. \A k \in 1..4 : /\ E(k) \in SUBSET Validator /\ K(k) \in Nat /\ StakeOf[E(k)] \in Nat
                        /\ StakeOf[Level(back, B, k)] = K(k) + StakeOf[E(k)]
    <2> SUFFICES ASSUME NEW k \in 1..4
                 PROVE  /\ E(k) \in SUBSET Validator /\ K(k) \in Nat /\ StakeOf[E(k)] \in Nat
                        /\ StakeOf[Level(back, B, k)] = K(k) + StakeOf[E(k)]
      OBVIOUS
    <2> QED
      BY LevelAdds, Zenon
  <1>2. \A v \in back[b] : Times(back, B \ {b}, v) \in 0..3
    <2> SUFFICES ASSUME NEW v \in back[b] PROVE Times(back, B \ {b}, v) \in 0..3
      OBVIOUS
    <2>1. v \in Validator
      OBVIOUS
    <2>2. /\ Times(back, B, v) \in Nat /\ Times(back, B \ {b}, v) \in Nat
          /\ Times(back, B, v) = Times(back, B \ {b}, v) + 1
      BY <2>1, TimesAdd
    <2>3. Times(back, B, v) <= 4
      BY <2>1
    <2> QED
      BY <2>2, <2>3
  <1>3. /\ E(1) \cap E(2) = {} /\ (E(1) \cup E(2)) \cap E(3) = {}
        /\ (E(1) \cup E(2) \cup E(3)) \cap E(4) = {}
    <2>1. \A v \in back[b], i, j \in 1..4 : v \in E(i) /\ v \in E(j) => i = j
      BY <1>2 DEF Fresh
    <2>2. \A i \in 1..4 : E(i) \in SUBSET back[b]
      BY DEF Fresh
    <2> HIDE DEF E
    <2>3. \A i, j \in 1..4 : i # j => E(i) \cap E(j) = {}
      BY <2>1, <2>2
    <2>4. /\ E(1) \cap E(2) = {} /\ E(1) \cap E(3) = {} /\ E(2) \cap E(3) = {}
          /\ E(1) \cap E(4) = {} /\ E(2) \cap E(4) = {} /\ E(3) \cap E(4) = {}
      BY <2>3
    <2> QED
      BY <2>4
  <1>4. back[b] = E(1) \cup E(2) \cup E(3) \cup E(4)
    <2>1. \A v \in back[b] : v \in E(1) \/ v \in E(2) \/ v \in E(3) \/ v \in E(4)
      BY <1>2 DEF Fresh
    <2>2. /\ E(1) \in SUBSET back[b] /\ E(2) \in SUBSET back[b]
          /\ E(3) \in SUBSET back[b] /\ E(4) \in SUBSET back[b]
      BY DEF Fresh
    <2> HIDE DEF E
    <2> QED
      BY <2>1, <2>2
  <1> HIDE DEF E
  <1>5. /\ E(1) \in SUBSET Validator /\ E(2) \in SUBSET Validator
        /\ E(3) \in SUBSET Validator /\ E(4) \in SUBSET Validator
    BY <1>1
  <1>6. /\ StakeOf[E(1) \cup E(2)] = StakeOf[E(1)] + StakeOf[E(2)]
        /\ StakeOf[E(1) \cup E(2) \cup E(3)] = StakeOf[E(1) \cup E(2)] + StakeOf[E(3)]
        /\ StakeOf[E(1) \cup E(2) \cup E(3) \cup E(4)]
           = StakeOf[E(1) \cup E(2) \cup E(3)] + StakeOf[E(4)]
    BY <1>3, <1>5, StakeAssumption
  <1>7. StakeOf[back[b]] = StakeOf[E(1)] + StakeOf[E(2)] + StakeOf[E(3)] + StakeOf[E(4)]
    BY <1>4, <1>6
  <1>8. /\ Weight(back, B) = K(1) + StakeOf[E(1)] + (K(2) + StakeOf[E(2)])
                             + (K(3) + StakeOf[E(3)]) + (K(4) + StakeOf[E(4)])
        /\ Weight(back, B \ {b}) = K(1) + K(2) + K(3) + K(4)
    BY <1>1 DEF Weight
  <1>9. /\ K(1) \in Nat /\ K(2) \in Nat /\ K(3) \in Nat /\ K(4) \in Nat
        /\ StakeOf[E(1)] \in Nat /\ StakeOf[E(2)] \in Nat /\ StakeOf[E(3)] \in Nat /\ StakeOf[E(4)] \in Nat
    BY <1>1
  <1> HIDE DEF K
  <1> QED
    BY <1>7, <1>8, <1>9

-----------------------------------------------------------------------------
(* The stake of a set of voters with the others is no more than the sum.     *)
LEMMA StakeWithOthers ==
    ASSUME NEW S \in SUBSET Voter
    PROVE  /\ S \cup Others \in SUBSET Validator
           /\ StakeOf[S] \in Nat /\ StakeOf[Others] \in Nat
           /\ StakeOf[S \cup Others] = StakeOf[S] + StakeOf[Others]
           /\ StakeOf[Others] * 100 < 20 * Total
  <1>1. S \in SUBSET Validator /\ Others \in SUBSET Validator /\ S \cap Others = {}
    BY OthersAssumption DEF Voter
  <1>2. StakeOf[S] \in Nat /\ StakeOf[Others] \in Nat
    BY <1>1, StakeAssumption
  <1>3. StakeOf[S \cup Others] = StakeOf[S] + StakeOf[Others]
    BY <1>1, StakeAssumption
  <1> QED
    BY <1>1, <1>2, <1>3, OthersAssumption

-----------------------------------------------------------------------------
Kind == BlockTypes \cup PlainTypes

(* A voter has one first vote.                                               *)
FirstOnce ==
    /\ \A b, c \in Block : b # c => votes["Notarize"][b] \cap votes["Notarize"][c] = {}
    /\ \A b \in Block : votes["Notarize"][b] \cap votes["Skip"][NoBlock] = {}

(* What the fallback votes and the Finalize votes were cast for.             *)
FallbackJustified ==
    /\ \A b \in Block : votes["NotarizeFallback"][b] # {} => SafeToNotar(b, Others)
    /\ votes["SkipFallback"][NoBlock] # {} => SafeToSkip(Others)

FinalJustified ==
    \A v \in votes["Finalize"][NoBlock] :
        /\ v \notin votes["Skip"][NoBlock] \cup votes["SkipFallback"][NoBlock]
        /\ \A b \in Block : v \notin votes["NotarizeFallback"][b]
        /\ \E b \in Block : v \in votes["Notarize"][b] /\ Certified("Notarize", b)

IInv == TypeOK /\ FirstOnce /\ FallbackJustified /\ FinalJustified

(* Where the votes of a type are.                                            *)
LEMMA Places ==
    ASSUME TypeOK
    PROVE  /\ \A t \in PlainTypes : Voters(t) = votes[t][NoBlock]
           /\ \A t \in BlockTypes : Voters(t) = UNION {votes[t][b] : b \in Block}
           /\ \A t \in Kind, b \in Key : votes[t][b] \in SUBSET Voter
           /\ \A t \in Kind : Voters(t) \in SUBSET Voter
  <1>1. \A t \in Kind, b \in Key : votes[t][b] \in SUBSET Voter
    BY DEF TypeOK, Kind
  <1>2. ASSUME NEW t \in PlainTypes PROVE Voters(t) = votes[t][NoBlock]
    <2>1. \A b \in Block : votes[t][b] = {}
      BY DEF TypeOK
    <2> QED
      BY <2>1 DEF Voters, Key
  <1>3. ASSUME NEW t \in BlockTypes PROVE Voters(t) = UNION {votes[t][b] : b \in Block}
    <2>1. votes[t][NoBlock] = {}
      BY DEF TypeOK
    <2> QED
      BY <2>1 DEF Voters, Key
  <1>4. \A t \in Kind : Voters(t) \in SUBSET Voter
    BY <1>1 DEF Voters
  <1> QED
    BY <1>1, <1>2, <1>3, <1>4

(* Whose votes count for a certificate.                                      *)
LEMMA WhoBacks ==
    /\ \A b \in Key : Backers(votes, "Notarize", b) = votes["Notarize"][b]
    /\ \A b \in Key : Backers(votes, "FinalizeFast", b) = votes["Notarize"][b]
    /\ \A b \in Key : Backers(votes, "NotarizeFallback", b) = votes["Notarize"][b] \cup votes["NotarizeFallback"][b]
    /\ Backers(votes, "Skip", NoBlock) = votes["Skip"][NoBlock] \cup votes["SkipFallback"][NoBlock]
    /\ Backers(votes, "Finalize", NoBlock) = votes["Finalize"][NoBlock]
  <1>1. /\ VoteTypes("Notarize") = {"Notarize"} /\ VoteTypes("FinalizeFast") = {"Notarize"}
        /\ VoteTypes("NotarizeFallback") = {"Notarize", "NotarizeFallback"}
        /\ VoteTypes("Skip") = {"Skip", "SkipFallback"} /\ VoteTypes("Finalize") = {"Finalize"}
    BY DEF VoteTypes
  <1> QED
    BY <1>1 DEF Backers


(* Votes that are added undo no certificate and no event.                    *)
LEMMA VotesOnlyHelp ==
    ASSUME TypeOK, TypeOK', \A t \in Kind, b \in Key : votes[t][b] \subseteq votes'[t][b]
    PROVE  /\ \A b \in Block : Certified("Notarize", b) => Certified("Notarize", b)'
           /\ \A b \in Block : SafeToNotar(b, Others) => SafeToNotar(b, Others)'
           /\ SafeToSkip(Others) => SafeToSkip(Others)'
  <1>1. /\ Others \in SUBSET Validator /\ Voter \in SUBSET Validator
        /\ {"Notarize", "Skip"} \in SUBSET Kind /\ Block \in SUBSET Key
    BY OthersAssumption DEF Voter, Kind, BlockTypes, PlainTypes, Key
  <1>2. \A b \in Block : votes'["Notarize"][b] \in SUBSET Voter
    BY <1>1, Places DEF TypeOK, Kind
  <1>3. Voters("Skip") \subseteq Voters("Skip")' /\ Voters("Skip")' \in SUBSET Voter
    BY <1>1 DEF TypeOK, Voters, Kind
  <1>4. ASSUME NEW b \in Block, Certified("Notarize", b) PROVE Certified("Notarize", b)'
    <2>1. /\ Backers(votes, "Notarize", b) = votes["Notarize"][b]
          /\ Backers(votes', "Notarize", b) = votes'["Notarize"][b]
      BY <1>1 DEF Backers, VoteTypes
    <2>2. votes["Notarize"][b] \cup Others \subseteq votes'["Notarize"][b] \cup Others
      BY <1>1
    <2>3. AtLeast(StakeOf[votes["Notarize"][b] \cup Others], 60)
      BY <1>4, <2>1 DEF Certified, Limit
    <2>4. AtLeast(StakeOf[votes'["Notarize"][b] \cup Others], 60)
      BY <1>1, <1>2, <2>2, <2>3, AtLeastMonotone
    <2> QED
      BY <2>1, <2>4 DEF Certified, Limit, AtLeast, Total
  <1>5. ASSUME NEW b \in Block, SafeToNotar(b, Others) PROVE SafeToNotar(b, Others)'
    <2> DEFINE N == votes["Notarize"][b] \cup Others
               M == votes'["Notarize"][b] \cup Others
               NS == N \cup Voters("Skip")
               MS == M \cup Voters("Skip")'
    <2>1. N \in SUBSET M /\ M \in SUBSET Validator /\ NS \in SUBSET MS /\ MS \in SUBSET Validator
      BY <1>1, <1>2, <1>3
    <2>2. AtLeast(StakeOf[N], 40) \/ (AtLeast(StakeOf[N], 20) /\ AtLeast(StakeOf[NS], 60))
      BY <1>5 DEF SafeToNotar
    <2> HIDE DEF N, M, NS, MS
    <2>3. /\ AtLeast(StakeOf[N], 40) => AtLeast(StakeOf[M], 40)
          /\ AtLeast(StakeOf[N], 20) => AtLeast(StakeOf[M], 20)
          /\ AtLeast(StakeOf[NS], 60) => AtLeast(StakeOf[MS], 60)
      BY <2>1, AtLeastMonotone
    <2>4. AtLeast(StakeOf[M], 40) \/ (AtLeast(StakeOf[M], 20) /\ AtLeast(StakeOf[MS], 60))
      BY <2>2, <2>3
    <2> QED
      BY <2>4 DEF SafeToNotar, M, MS
  <1>6. ASSUME SafeToSkip(Others) PROVE SafeToSkip(Others)'
    <2> SUFFICES ASSUME NEW top \in Block
                 PROVE  AtLeast(StakeOf[Others \cup Voters("Skip")'
                            \cup UNION {votes'["Notarize"][b] : b \in Block \ {top}}], 40)
      BY DEF SafeToSkip
    <2> DEFINE N == Others \cup Voters("Skip") \cup UNION {votes["Notarize"][b] : b \in Block \ {top}}
               M == Others \cup Voters("Skip")' \cup UNION {votes'["Notarize"][b] : b \in Block \ {top}}
    <2>1. N \in SUBSET M /\ M \in SUBSET Validator
      BY <1>1, <1>2, <1>3
    <2>2. AtLeast(StakeOf[N], 40)
      BY <1>6 DEF SafeToSkip
    <2> HIDE DEF N
    <2> QED
      BY <2>1, <2>2, AtLeastMonotone
  <1> QED
    BY <1>4, <1>5, <1>6

(* What casting a vote does.                                                 *)
LEMMA CastEffect ==
    ASSUME TypeOK, NEW v \in Voter, NEW t \in Kind, NEW b \in Key, Cast(v, t, b),
           t \in BlockTypes => b \in Block, t \in PlainTypes => b = NoBlock
    PROVE  /\ TypeOK'
           /\ votes'[t][b] = votes[t][b] \cup {v}
           /\ \A u \in Kind, c \in Key : <<u, c>> # <<t, b>> => votes'[u][c] = votes[u][c]
           /\ \A u \in Kind, c \in Key : votes[u][c] \subseteq votes'[u][c]
  <1>1. /\ votes' = [votes EXCEPT ![t] = [votes[t] EXCEPT ![b] = votes[t][b] \cup {v}]]
        /\ votes \in [Kind -> [Key -> SUBSET Voter]]
    BY DEF Cast, TypeOK, Kind
  <1>2. votes' \in [Kind -> [Key -> SUBSET Voter]]
    BY <1>1
  <1>3. votes'[t][b] = votes[t][b] \cup {v}
    BY <1>1
  <1>4. \A u \in Kind, c \in Key : <<u, c>> # <<t, b>> => votes'[u][c] = votes[u][c]
    BY <1>1
  <1>5. \A u \in Kind, c \in Key : votes[u][c] \subseteq votes'[u][c]
    BY <1>3, <1>4
  <1>6. BlockTypes \cap PlainTypes = {} /\ NoBlock \in Key /\ Block \subseteq Key /\ NoBlock \notin Block
    BY StakeAssumption DEF BlockTypes, PlainTypes, Key
  <1>7. \A u \in BlockTypes : votes'[u][NoBlock] = {}
    BY <1>4, <1>6 DEF TypeOK, Kind
  <1>8. \A u \in PlainTypes, c \in Block : votes'[u][c] = {}
    BY <1>4, <1>6 DEF TypeOK, Kind
  <1> QED
    BY <1>2, <1>3, <1>4, <1>5, <1>7, <1>8 DEF TypeOK, Kind

(* The types, which the steps below name one by one.                         *)
LEMMA Kinds ==
    /\ {"Notarize", "NotarizeFallback", "Finalize", "Skip", "SkipFallback"} = Kind
    /\ BlockTypes = {"Notarize", "NotarizeFallback"}
    /\ PlainTypes = {"Finalize", "Skip", "SkipFallback"}
    /\ NoBlock \in Key /\ Block \subseteq Key /\ NoBlock \notin Block
  BY StakeAssumption DEF Kind, BlockTypes, PlainTypes, Key

(* Every step preserves the invariant.                                       *)
LEMMA StepKeepsIInv ==
    ASSUME IInv, Next
    PROVE  IInv'
  <1> USE Kinds
  <1>1. TypeOK
    BY DEF IInv
  <1>2. PICK v \in Voter :
           \/ \E b \in Block : TryNotar(v, b) \/ TryFinal(v, b) \/ NotarizeFallback(v, b, Others)
           \/ TrySkip(v) \/ SkipFallback(v, Others)
    BY DEF Next
  <1>3. /\ Voters("Skip") = votes["Skip"][NoBlock] /\ Voters("Finalize") = votes["Finalize"][NoBlock]
        /\ Voters("SkipFallback") = votes["SkipFallback"][NoBlock]
        /\ Voters("Notarize") = UNION {votes["Notarize"][b] : b \in Block}
        /\ Voters("NotarizeFallback") = UNION {votes["NotarizeFallback"][b] : b \in Block}
    BY <1>1, Places
  <1>4. ASSUME NEW b \in Block, TryNotar(v, b) PROVE IInv'
    <2>1. v \notin votes["Skip"][NoBlock] /\ \A c \in Block : v \notin votes["Notarize"][c]
      BY <1>3, <1>4 DEF TryNotar, Voted
    <2>2. /\ TypeOK' /\ votes'["Notarize"][b] = votes["Notarize"][b] \cup {v}
          /\ \A u \in Kind, c \in Key : <<u, c>> # <<"Notarize", b>> => votes'[u][c] = votes[u][c]
          /\ \A u \in Kind, c \in Key : votes[u][c] \subseteq votes'[u][c]
      BY <1>1, <1>4, CastEffect DEF TryNotar
    <2>3. FirstOnce'
      BY <2>1, <2>2 DEF IInv, FirstOnce
    <2>4. FallbackJustified'
      BY <1>1, <2>2, VotesOnlyHelp DEF IInv, FallbackJustified
    <2>5. FinalJustified'
      BY <1>1, <2>2, VotesOnlyHelp DEF IInv, FinalJustified
    <2> QED
      BY <2>2, <2>3, <2>4, <2>5 DEF IInv
  <1>5. ASSUME NEW b \in Block, TryFinal(v, b) PROVE IInv'
    <2>1. /\ v \in votes["Notarize"][b] /\ Certified("Notarize", b)
          /\ v \notin votes["Skip"][NoBlock] \cup votes["SkipFallback"][NoBlock]
          /\ \A c \in Block : v \notin votes["NotarizeFallback"][c]
      BY <1>3, <1>5 DEF TryFinal, BadWindow
    <2>2. /\ TypeOK' /\ votes'["Finalize"][NoBlock] = votes["Finalize"][NoBlock] \cup {v}
          /\ \A u \in Kind, c \in Key : <<u, c>> # <<"Finalize", NoBlock>> => votes'[u][c] = votes[u][c]
          /\ \A u \in Kind, c \in Key : votes[u][c] \subseteq votes'[u][c]
      BY <1>1, <1>5, CastEffect DEF TryFinal
    <2>3. FirstOnce'
      BY <2>2 DEF IInv, FirstOnce
    <2>4. FallbackJustified'
      BY <1>1, <2>2, VotesOnlyHelp DEF IInv, FallbackJustified
    <2>5. FinalJustified'
      BY <1>1, <2>1, <2>2, VotesOnlyHelp DEF IInv, FinalJustified
    <2> QED
      BY <2>2, <2>3, <2>4, <2>5 DEF IInv
  <1>6. ASSUME NEW b \in Block, NotarizeFallback(v, b, Others) PROVE IInv'
    <2>1. v \notin votes["Finalize"][NoBlock] /\ SafeToNotar(b, Others)
      BY <1>3, <1>6 DEF NotarizeFallback, ItsOver
    <2>2. /\ TypeOK' /\ votes'["NotarizeFallback"][b] = votes["NotarizeFallback"][b] \cup {v}
          /\ \A u \in Kind, c \in Key : <<u, c>> # <<"NotarizeFallback", b>> => votes'[u][c] = votes[u][c]
          /\ \A u \in Kind, c \in Key : votes[u][c] \subseteq votes'[u][c]
      BY <1>1, <1>6, CastEffect DEF NotarizeFallback
    <2>3. FirstOnce'
      BY <2>2 DEF IInv, FirstOnce
    <2>4. FallbackJustified'
      BY <1>1, <2>1, <2>2, VotesOnlyHelp DEF IInv, FallbackJustified
    <2>5. FinalJustified'
      BY <1>1, <2>1, <2>2, VotesOnlyHelp DEF IInv, FinalJustified
    <2> QED
      BY <2>2, <2>3, <2>4, <2>5 DEF IInv
  <1>7. ASSUME TrySkip(v) PROVE IInv'
    <2>1. \A c \in Block : v \notin votes["Notarize"][c]
      BY <1>3, <1>7 DEF TrySkip, Voted
    <2>2. /\ TypeOK' /\ votes'["Skip"][NoBlock] = votes["Skip"][NoBlock] \cup {v}
          /\ \A u \in Kind, c \in Key : <<u, c>> # <<"Skip", NoBlock>> => votes'[u][c] = votes[u][c]
          /\ \A u \in Kind, c \in Key : votes[u][c] \subseteq votes'[u][c]
      BY <1>1, <1>7, CastEffect DEF TrySkip
    <2>3. FirstOnce'
      BY <2>1, <2>2 DEF IInv, FirstOnce
    <2>4. FallbackJustified'
      BY <1>1, <2>2, VotesOnlyHelp DEF IInv, FallbackJustified
    <2>5. FinalJustified'
      BY <1>1, <2>1, <2>2, VotesOnlyHelp DEF IInv, FinalJustified
    <2> QED
      BY <2>2, <2>3, <2>4, <2>5 DEF IInv
  <1>8. ASSUME SkipFallback(v, Others) PROVE IInv'
    <2>1. v \notin votes["Finalize"][NoBlock] /\ SafeToSkip(Others)
      BY <1>3, <1>8 DEF SkipFallback, ItsOver
    <2>2. /\ TypeOK' /\ votes'["SkipFallback"][NoBlock] = votes["SkipFallback"][NoBlock] \cup {v}
          /\ \A u \in Kind, c \in Key : <<u, c>> # <<"SkipFallback", NoBlock>> => votes'[u][c] = votes[u][c]
          /\ \A u \in Kind, c \in Key : votes[u][c] \subseteq votes'[u][c]
      BY <1>1, <1>8, CastEffect DEF SkipFallback
    <2>3. FirstOnce'
      BY <2>2 DEF IInv, FirstOnce
    <2>4. FallbackJustified'
      BY <1>1, <2>1, <2>2, VotesOnlyHelp DEF IInv, FallbackJustified
    <2>5. FinalJustified'
      BY <1>1, <2>1, <2>2, VotesOnlyHelp DEF IInv, FinalJustified
    <2> QED
      BY <2>2, <2>3, <2>4, <2>5 DEF IInv
  <1> QED
    BY <1>2, <1>4, <1>5, <1>6, <1>7, <1>8

-----------------------------------------------------------------------------
(* Two Notarize certificates of a slot need more than the stake there is.    *)
LEMMA OneNotarized ==
    ASSUME IInv
    PROVE  NotarizedOnce
  <1> SUFFICES ASSUME NEW b \in Block, NEW c \in Block, b # c,
                      Certified("Notarize", b), Certified("Notarize", c)
               PROVE  FALSE
    BY DEF NotarizedOnce
  <1> DEFINE N == votes["Notarize"][b]
             M == votes["Notarize"][c]
  <1>1. N \in SUBSET Voter /\ M \in SUBSET Voter
    BY Kinds, Places DEF IInv
  <1>2. N \cap M = {}
    BY DEF IInv, FirstOnce
  <1>3. AtLeast(StakeOf[N \cup Others], 60) /\ AtLeast(StakeOf[M \cup Others], 60)
    BY Kinds, WhoBacks DEF Certified, Limit
  <1> HIDE DEF N, M
  <1>4. /\ StakeOf[N \cup Others] = StakeOf[N] + StakeOf[Others]
        /\ StakeOf[M \cup Others] = StakeOf[M] + StakeOf[Others]
        /\ StakeOf[N] \in Nat /\ StakeOf[M] \in Nat /\ StakeOf[Others] \in Nat
        /\ StakeOf[Others] * 100 < 20 * Total
        /\ M \cup Others \in SUBSET Validator /\ N \in SUBSET Validator
    BY <1>1, StakeWithOthers DEF Voter
  <1>5. M \cup Others \in SUBSET (Validator \ N)
    BY <1>1, <1>2, <1>4 DEF Voter
  <1>6. StakeOf[M \cup Others] <= StakeOf[Validator \ N]
    BY <1>5, StakeMonotone
  <1>7. /\ StakeOf[N] + StakeOf[Validator \ N] = Total /\ Total \in Nat
        /\ StakeOf[Validator \ N] \in Nat
    BY <1>4, StakeRest
  <1> QED
    BY <1>3, <1>4, <1>6, <1>7 DEF AtLeast

(* Outside a set of voters that with the others have p percent there is      *)
(* less than 120 - p percent, the others included.                           *)
LEMMA RestIsSmall ==
    ASSUME NEW S \in SUBSET Voter, NEW p \in Nat, AtLeast(StakeOf[S \cup Others], p),
           NEW R \in SUBSET (Validator \ S), NEW q \in Nat, p + q >= 120
    PROVE  ~AtLeast(StakeOf[R], q)
  <1>1. /\ StakeOf[S \cup Others] = StakeOf[S] + StakeOf[Others]
        /\ StakeOf[S] \in Nat /\ StakeOf[Others] \in Nat
        /\ StakeOf[Others] * 100 < 20 * Total /\ S \in SUBSET Validator
    BY StakeWithOthers DEF Voter
  <1>2. StakeOf[R] <= StakeOf[Validator \ S] /\ StakeOf[R] \in Nat
    BY StakeMonotone
  <1>3. /\ StakeOf[S] + StakeOf[Validator \ S] = Total /\ Total \in Nat
        /\ StakeOf[Validator \ S] \in Nat
    BY <1>1, StakeRest
  <1> DEFINE s == StakeOf[S]
             r == StakeOf[R]
             o == StakeOf[Others]
  <1>4. s + r <= Total /\ s \in Nat /\ r \in Nat /\ o \in Nat /\ o * 100 < 20 * Total
    BY <1>1, <1>2, <1>3
  <1>5. (s + o) * 100 >= p * Total
    BY <1>1 DEF AtLeast
  <1> HIDE DEF s, r, o
  <1>6. SUFFICES ASSUME r * 100 >= q * Total PROVE FALSE
    BY DEF AtLeast, r
  <1>7. p * Total + q * Total >= 120 * Total
    <2>1. p * Total + q * Total = (p + q) * Total
      BY <1>3
    <2>2. (p + q) * Total >= 120 * Total
      BY <1>3
    <2> QED
      BY <2>1, <2>2
  <1>8. p * Total \in Nat /\ q * Total \in Nat
    BY <1>3
  <1> QED
    BY <1>3, <1>4, <1>5, <1>6, <1>7, <1>8

(* A block that is final by the fast certificate leaves less than 40 percent. *)
LEMMA FastAlone ==
    ASSUME IInv, NEW b \in Block, Certified("FinalizeFast", b)
    PROVE  /\ ~Certified("Skip", NoBlock)
           /\ \A c \in Block \ {b} : ~Certified("NotarizeFallback", c) /\ ~Final(c)
  <1> USE Kinds
  <1> DEFINE N == votes["Notarize"][b]
  <1>1. TypeOK /\ N \in SUBSET Voter /\ Others \cap Voter = {} /\ Voter \cup Others \in SUBSET Validator
    BY Places, OthersAssumption DEF IInv, Voter
  <1>2. AtLeast(StakeOf[N \cup Others], 80)
    BY WhoBacks DEF Certified, Limit
  <1>3. ASSUME NEW R \in SUBSET (Validator \ N), NEW q \in Nat, q >= 40
        PROVE  ~AtLeast(StakeOf[R], q)
    <2>1. 80 \in Nat /\ 80 + q >= 120
      BY <1>3
    <2> HIDE DEF N
    <2> QED
      BY <1>1, <1>2, <2>1, RestIsSmall
  <1>4. /\ votes["Skip"][NoBlock] \in SUBSET Voter /\ votes["Skip"][NoBlock] \cap N = {}
        /\ Voters("Skip") = votes["Skip"][NoBlock]
        /\ \A c \in Block \ {b} : votes["Notarize"][c] \in SUBSET Voter /\ votes["Notarize"][c] \cap N = {}
    <2>1. /\ votes["Skip"][NoBlock] \in SUBSET Voter /\ Voters("Skip") = votes["Skip"][NoBlock]
          /\ \A c \in Block : votes["Notarize"][c] \in SUBSET Voter
      BY <1>1, Places
    <2>2. FirstOnce
      BY DEF IInv
    <2> QED
      BY <2>1, <2>2 DEF FirstOnce
  <1> HIDE DEF N
  <1>5. votes["SkipFallback"][NoBlock] = {}
    <2> DEFINE X == Others \cup Voters("Skip") \cup UNION {votes["Notarize"][c] : c \in Block \ {b}}
    <2>1. X \in SUBSET (Validator \ N)
      BY <1>1, <1>4
    <2>2. ~SafeToSkip(Others)
      <3>1. SafeToSkip(Others) => AtLeast(StakeOf[X], 40)
        BY DEF SafeToSkip
      <3> HIDE DEF X
      <3> QED
        BY <1>3, <2>1, <3>1
    <2> QED
      BY <2>2 DEF IInv, FallbackJustified
  <1>6. ~Certified("Skip", NoBlock)
    <2>1. votes["Skip"][NoBlock] \cup {} \cup Others \in SUBSET (Validator \ N)
      BY <1>1, <1>4
    <2> QED
      BY <1>3, <1>5, <2>1, WhoBacks DEF Certified, Limit
  <1>7. ASSUME NEW c \in Block \ {b} PROVE ~Certified("NotarizeFallback", c) /\ ~Final(c)
    <2>1. /\ votes["Notarize"][c] \cup Others \in SUBSET (Validator \ N)
          /\ votes["Notarize"][c] \cup Others \cup Voters("Skip") \in SUBSET (Validator \ N)
      BY <1>1, <1>4
    <2>2. votes["NotarizeFallback"][c] = {}
      <3>1. ~SafeToNotar(c, Others)
        BY <1>3, <2>1 DEF SafeToNotar
      <3> QED
        BY <3>1 DEF IInv, FallbackJustified
    <2>3. ~Certified("NotarizeFallback", c)
      <3>1. votes["Notarize"][c] \cup votes["NotarizeFallback"][c] = votes["Notarize"][c]
        BY <2>2
      <3> QED
        BY <1>3, <2>1, <3>1, WhoBacks DEF Certified, Limit
    <2>4. ~Certified("FinalizeFast", c) /\ ~Certified("Notarize", c)
      BY <1>3, <2>1, WhoBacks DEF Certified, Limit
    <2> QED
      BY <2>3, <2>4 DEF Final
  <1> QED
    BY <1>6, <1>7

(* The voters that finalized a block voted for nothing else, and leave less   *)
(* than 60 percent.                                                          *)
LEMMA SlowAlone ==
    ASSUME IInv, NEW b \in Block, Certified("Notarize", b), Certified("Finalize", NoBlock)
    PROVE  /\ ~Certified("Skip", NoBlock)
           /\ \A c \in Block \ {b} : ~Certified("NotarizeFallback", c) /\ ~Final(c)
  <1> USE Kinds
  <1> DEFINE F == votes["Finalize"][NoBlock]
  <1>1. TypeOK /\ F \in SUBSET Voter /\ Others \cap Voter = {} /\ Voter \cup Others \in SUBSET Validator
    BY Places, OthersAssumption DEF IInv, Voter
  <1>2. AtLeast(StakeOf[F \cup Others], 60)
    BY WhoBacks DEF Certified, Limit
  <1>3. ASSUME NEW R \in SUBSET (Validator \ F), NEW q \in Nat, q >= 60
        PROVE  ~AtLeast(StakeOf[R], q)
    <2>1. 60 \in Nat /\ 60 + q >= 120
      BY <1>3
    <2> HIDE DEF F
    <2> QED
      BY <1>1, <1>2, <2>1, RestIsSmall
  <1>4. /\ votes["Skip"][NoBlock] \cup votes["SkipFallback"][NoBlock] \in SUBSET Voter
        /\ \A c \in Block : votes["Notarize"][c] \cup votes["NotarizeFallback"][c] \in SUBSET Voter
    BY <1>1, Places
  <1>5. F \cap (votes["Skip"][NoBlock] \cup votes["SkipFallback"][NoBlock]) = {}
    BY DEF IInv, FinalJustified
  <1>6. ASSUME NEW v \in F PROVE v \in votes["Notarize"][b]
    BY OneNotarized DEF IInv, FinalJustified, NotarizedOnce
  <1>7. \A c \in Block \ {b} : F \cap (votes["Notarize"][c] \cup votes["NotarizeFallback"][c]) = {}
    BY <1>6 DEF IInv, FinalJustified, FirstOnce
  <1> HIDE DEF F
  <1>8. ~Certified("Skip", NoBlock)
    <2>1. votes["Skip"][NoBlock] \cup votes["SkipFallback"][NoBlock] \cup Others \in SUBSET (Validator \ F)
      BY <1>1, <1>4, <1>5
    <2> QED
      BY <1>3, <2>1, WhoBacks DEF Certified, Limit
  <1>9. ASSUME NEW c \in Block \ {b} PROVE ~Certified("NotarizeFallback", c) /\ ~Final(c)
    <2>1. /\ votes["Notarize"][c] \cup votes["NotarizeFallback"][c] \cup Others \in SUBSET (Validator \ F)
          /\ votes["Notarize"][c] \cup Others \in SUBSET (Validator \ F)
      BY <1>1, <1>4, <1>7
    <2>2. ~Certified("NotarizeFallback", c)
      BY <1>3, <2>1, WhoBacks DEF Certified, Limit
    <2>3. ~Certified("FinalizeFast", c) /\ ~Certified("Notarize", c)
      BY <1>3, <2>1, WhoBacks DEF Certified, Limit
    <2> QED
      BY <2>2, <2>3 DEF Final
  <1> QED
    BY <1>8, <1>9

(* The invariant holds initially and in every step.                          *)
LEMMA Invariance == Spec => []IInv
  <1>1. Init => IInv
    <2> SUFFICES ASSUME Init PROVE IInv
      OBVIOUS
    <2>1. \A t \in Kind, b \in Key : votes[t][b] = {}
      BY DEF Init, NewPools, Kind
    <2>2. TypeOK
      BY Kinds DEF Init, NewPools, TypeOK
    <2> QED
      BY <2>1, <2>2, Kinds DEF IInv, FirstOnce, FallbackJustified, FinalJustified
  <1>2. ASSUME IInv, UNCHANGED votes PROVE IInv'
    <2>1. TypeOK' /\ FirstOnce'
      BY <1>2 DEF IInv, TypeOK, FirstOnce
    <2>2. \A t \in Kind, b \in Key : votes[t][b] \subseteq votes'[t][b]
      BY <1>2
    <2>3. FallbackJustified'
      BY <1>2, <2>1, <2>2, VotesOnlyHelp DEF IInv, FallbackJustified
    <2>4. FinalJustified'
      BY <1>2, <2>1, <2>2, VotesOnlyHelp DEF IInv, FinalJustified
    <2> QED
      BY <2>1, <2>3, <2>4 DEF IInv
  <1>3. IInv /\ [Next]_votes => IInv'
    BY <1>2, StepKeepsIInv
  <1> QED
    BY <1>1, <1>3, PTL DEF Spec

(* For every cluster in which less than a fifth of the stake is outside the   *)
(* rules: a final block excludes, in every pool and for good, a skip          *)
(* certificate of its slot and every certificate of another block in it.      *)
THEOREM FinalBlocksAreAlone == Spec => []FinalAlone
  <1>1. IInv => FinalAlone
    BY FastAlone, SlowAlone DEF FinalAlone, Final
  <1> QED
    BY <1>1, Invariance, PTL

(* No two blocks of a slot get a Notarize certificate.                        *)
THEOREM OneNotarizedBlock == Spec => []NotarizedOnce
  BY OneNotarized, Invariance, PTL

(* The votes stay where their type puts them.                                *)
THEOREM VotesTyped == Spec => []TypeOK
  <1>1. IInv => TypeOK
    BY DEF IInv
  <1> QED
    BY <1>1, Invariance, PTL

-----------------------------------------------------------------------------
(* The voters have more than 80 percent.                                     *)
LEMMA VotersMany == AtLeast(StakeOf[Voter], 60) /\ AtLeast(StakeOf[Voter], 80)
  <1>1. Others \in SUBSET Validator /\ Voter = Validator \ Others
    BY OthersAssumption DEF Voter
  <1>2. /\ StakeOf[Others] + StakeOf[Voter] = Total /\ Total \in Nat
        /\ StakeOf[Others] \in Nat /\ StakeOf[Voter] \in Nat
    BY <1>1, StakeRest
  <1>3. StakeOf[Others] * 100 < 20 * Total
    BY OthersAssumption
  <1> QED
    BY <1>2, <1>3 DEF AtLeast

(* A block with 40 percent of the voters gets the votes of all of them.      *)
LEMMA LargeBlockDecides ==
    ASSUME IInv, Quiet, NEW b \in Block, AtLeast(StakeOf[votes["Notarize"][b]], 40),
           \A v \in votes["Finalize"][NoBlock] : v \in votes["Notarize"][b]
    PROVE  Decided
  <1> USE Kinds
  <1> DEFINE B == votes["Notarize"][b] \cup votes["NotarizeFallback"][b]
  <1>1. TypeOK /\ B \in SUBSET Voter
    BY Places DEF IInv
  <1>2. SafeToNotar(b, {})
    <2>1. votes["Notarize"][b] \cup {} = votes["Notarize"][b]
      OBVIOUS
    <2> QED
      BY <2>1 DEF SafeToNotar
  <1>3. Voters("Finalize") = votes["Finalize"][NoBlock]
    BY <1>1, Places
  <1>4. ASSUME NEW v \in Voter PROVE v \in B
    BY <1>2, <1>3 DEF Quiet, ItsOver
  <1>5. B = Voter
    BY <1>1, <1>4
  <1>6. Backers(votes, "NotarizeFallback", b) = Voter
    BY <1>5, WhoBacks
  <1>7. AtLeast(StakeOf[Voter], 60)
    BY VotersMany
  <1> QED
    BY <1>6, <1>7 DEF Decided, Limit

(* A Finalize vote was cast for a block with 40 percent of the voters.       *)
LEMMA FinalizedIsLarge ==
    ASSUME IInv, NEW v \in votes["Finalize"][NoBlock]
    PROVE  \E b \in Block : /\ AtLeast(StakeOf[votes["Notarize"][b]], 40)
                            /\ \A u \in votes["Finalize"][NoBlock] : u \in votes["Notarize"][b]
  <1> USE Kinds
  <1>1. PICK b \in Block : v \in votes["Notarize"][b] /\ Certified("Notarize", b)
    BY DEF IInv, FinalJustified
  <1>2. \A u \in votes["Finalize"][NoBlock] : u \in votes["Notarize"][b]
    BY <1>1, OneNotarized DEF IInv, FinalJustified, NotarizedOnce
  <1>3. votes["Notarize"][b] \in SUBSET Voter
    BY Places DEF IInv
  <1>4. AtLeast(StakeOf[votes["Notarize"][b] \cup Others], 60)
    BY <1>1, WhoBacks DEF Certified, Limit
  <1>5. AtLeast(StakeOf[votes["Notarize"][b]], 40)
    <2>1. Total \in Nat
      BY StakeRest
    <2> DEFINE N == votes["Notarize"][b]
    <2>2. N \in SUBSET Voter /\ AtLeast(StakeOf[N \cup Others], 60)
      BY <1>3, <1>4
    <2> HIDE DEF N
    <2>3. /\ StakeOf[N] \in Nat /\ StakeOf[Others] \in Nat
          /\ StakeOf[N \cup Others] = StakeOf[N] + StakeOf[Others]
          /\ StakeOf[Others] * 100 < 20 * Total
      BY <2>2, StakeWithOthers
    <2>4. AtLeast(StakeOf[N], 40)
      BY <2>1, <2>2, <2>3 DEF AtLeast
    <2> QED
      BY <2>4 DEF N
  <1> QED
    BY <1>2, <1>5

(* When no block has 40 percent of the voters, all of them skip.             *)
LEMMA SmallBlocksSkip ==
    ASSUME IInv, Quiet, \A b \in Block : ~AtLeast(StakeOf[votes["Notarize"][b]], 40)
    PROVE  Decided
  <1> USE Kinds
  <1>1. TypeOK
    BY DEF IInv
  <1>2. votes["Finalize"][NoBlock] = {}
    BY FinalizedIsLarge
  <1>3. /\ Voters("Finalize") = {} /\ Voters("Skip") = votes["Skip"][NoBlock]
        /\ Voters("SkipFallback") = votes["SkipFallback"][NoBlock]
        /\ Voters("Notarize") = UNION {votes["Notarize"][b] : b \in Block}
        /\ Voters("Skip") \cup Voters("SkipFallback") \in SUBSET Voter
        /\ \A b \in Block : votes["Notarize"][b] \in SUBSET Voter
    BY <1>1, <1>2, Places
  <1>4. SafeToSkip({})
    <2> SUFFICES ASSUME NEW top \in Block
                 PROVE  AtLeast(StakeOf[{} \cup Voters("Skip")
                            \cup UNION {votes["Notarize"][b] : b \in Block \ {top}}], 40)
      BY DEF SafeToSkip
    <2> DEFINE X == {} \cup Voters("Skip") \cup UNION {votes["Notarize"][b] : b \in Block \ {top}}
               N == votes["Notarize"][top]
    <2>1. X \in SUBSET Voter /\ N \in SUBSET Voter
      BY <1>3
    <2>2. ASSUME NEW v \in Voter \ N PROVE v \in X
      <3>1. v \in Voters("Notarize") \cup Voters("Skip")
        BY DEF Quiet, Voted
      <3>2. CASE v \in Voters("Notarize")
        <4>1. PICK b \in Block : v \in votes["Notarize"][b]
          BY <1>3, <3>2
        <4>2. b # top
          BY <4>1
        <4> QED
          BY <4>1, <4>2
      <3> QED
        BY <3>1, <3>2
    <2>3. ~AtLeast(StakeOf[N], 40)
      OBVIOUS
    <2> HIDE DEF X, N
    <2>4. Voter \ N \in SUBSET X /\ X \in SUBSET Validator /\ Voter \in SUBSET Validator
      BY <2>1, <2>2 DEF Voter
    <2>5. /\ StakeOf[Voter \ N] \in Nat /\ StakeOf[N] \in Nat
          /\ StakeOf[Voter] = StakeOf[N] + StakeOf[Voter \ N]
      <3>1. N \in SUBSET Validator /\ Voter \ N \in SUBSET Validator /\ N \cap (Voter \ N) = {}
            /\ N \cup (Voter \ N) = Voter
        BY <2>1, <2>4
      <3> QED
        BY <3>1, StakeAssumption
    <2>6. AtLeast(StakeOf[Voter \ N], 40)
      <3>1. Total \in Nat
        BY StakeRest
      <3> QED
        BY <2>3, <2>5, <3>1, VotersMany DEF AtLeast
    <2> QED
      BY <2>4, <2>6, AtLeastMonotone DEF X
  <1>5. ASSUME NEW v \in Voter PROVE v \in votes["Skip"][NoBlock] \cup votes["SkipFallback"][NoBlock]
    BY <1>3, <1>4 DEF Quiet, Voted, ItsOver
  <1>6. Backers(votes, "Skip", NoBlock) = Voter
    BY <1>3, <1>5, WhoBacks
  <1> QED
    BY <1>6, VotersMany DEF Decided, Limit

(* However the stake is split between blocks and skips, the fallback votes    *)
(* of the voters decide the slot without the others.                          *)
THEOREM QuietSlotsAreDecided == Spec => []QuietDecided
  <1>1. ASSUME IInv, Quiet PROVE Decided
    <2>1. CASE votes["Finalize"][NoBlock] # {}
      BY <1>1, <2>1, FinalizedIsLarge, LargeBlockDecides
    <2>2. CASE votes["Finalize"][NoBlock] = {}
      BY <1>1, <2>2, LargeBlockDecides, SmallBlocksSkip
    <2> QED
      BY <2>1, <2>2
  <1>2. IInv => QuietDecided
    BY <1>1 DEF QuietDecided
  <1> QED
    BY <1>2, Invariance, PTL

-----------------------------------------------------------------------------
(* MAX_NOTAR_FALLBACK_BLOCKS: a parent-ready tracker asserts that no more     *)
(* blocks of a slot get a NotarizeFallback certificate or a stronger one.     *)
MaxNotarFallbackBlocks == 7

(* No voter has cast more fallback votes than a pool keeps of it.  The pool   *)
(* of a voter asks for no more (FallbackVotesAreBounded).                    *)
Sparing ==
    \A v \in Voter : Cardinality({b \in Block : v \in votes["NotarizeFallback"][b]})
                         <= MaxEntries("NotarizeFallback")

FallbackCertified == {b \in Block : Certified("NotarizeFallback", b)}

FewFallbackBlocks ==
    Sparing => Cardinality({b \in Block : \E t \in BlockCerts : Certified(t, b)})
                   <= MaxNotarFallbackBlocks

(* The stronger certificates of a block have the votes for the weakest.      *)
LEMMA StrongerIsFallback ==
    ASSUME IInv
    PROVE  FallbackCertified = {b \in Block : \E t \in BlockCerts : Certified(t, b)}
  <1> SUFFICES ASSUME NEW b \in Block, NEW t \in BlockCerts, Certified(t, b)
               PROVE  Certified("NotarizeFallback", b)
    BY DEF FallbackCertified, BlockCerts
  <1> DEFINE S == Backers(votes, t, b) \cup Others
             R == Backers(votes, "NotarizeFallback", b) \cup Others
  <1>1. /\ Backers(votes, t, b) \subseteq Backers(votes, "NotarizeFallback", b)
        /\ Backers(votes, "NotarizeFallback", b) \in SUBSET Voter
    BY Kinds, Places, WhoBacks DEF IInv, Key, BlockCerts
  <1>2. S \in SUBSET R /\ R \in SUBSET Validator
    BY <1>1, OthersAssumption DEF Voter
  <1>3. StakeOf[S] \in Nat /\ Total \in Nat
    BY <1>2, StakeMonotone, StakeRest
  <1>4. AtLeast(StakeOf[S], Limit(t)) /\ Limit(t) \in {60, 80}
    BY DEF Certified, Limit
  <1> HIDE DEF S, R
  <1>5. AtLeast(StakeOf[S], 60)
    BY <1>3, <1>4 DEF AtLeast
  <1>6. AtLeast(StakeOf[R], 60)
    BY <1>2, <1>5, AtLeastMonotone
  <1> QED
    BY <1>6 DEF Certified, Limit, R

(* Who is behind the NotarizeFallback certificate of a block.                *)
Behind == [b \in Block |-> Backers(votes, "NotarizeFallback", b)]

LEMMA BehindBlocks ==
    ASSUME IInv
    PROVE  /\ Behind \in [Block -> SUBSET Validator]
           /\ \A b \in Block : /\ Behind[b] = votes["Notarize"][b] \cup votes["NotarizeFallback"][b]
                               /\ Behind[b] \in SUBSET Voter
  <1>1. \A b \in Block : Behind[b] = votes["Notarize"][b] \cup votes["NotarizeFallback"][b]
    BY WhoBacks DEF Behind, Key
  <1>2. \A b \in Block : Behind[b] \in SUBSET Voter
    BY <1>1, Kinds, Places DEF IInv, Key
  <1>3. \A b \in Block : Behind[b] \in SUBSET Validator
    BY <1>2 DEF Voter
  <1>4. Behind = [b \in Block |-> Behind[b]]
    BY DEF Behind
  <1> QED
    BY <1>1, <1>2, <1>3, <1>4

(* A voter is behind four blocks at most, and the others behind none.        *)
LEMMA BehindFour ==
    ASSUME IInv, Sparing, NEW B \in SUBSET Block, NEW v \in Validator
    PROVE  /\ Times(Behind, B, v) \in Nat /\ Times(Behind, B, v) <= 4
           /\ v \notin Voter => Times(Behind, B, v) = 0
  <1> DEFINE S == {c \in B : v \in Behind[c]}
             N == {c \in Block : v \in votes["Notarize"][c]}
             F == {c \in Block : v \in votes["NotarizeFallback"][c]}
  <1>1. IsFiniteSet(N) /\ IsFiniteSet(F) /\ IsFiniteSet(S)
    BY FS_Subset, StakeAssumption
  <1>2. Cardinality(N) \in Nat /\ Cardinality(F) \in Nat /\ Cardinality(S) \in Nat
    BY <1>1, FS_CardinalityType
  <1>3. S \in SUBSET (N \cup F)
    BY BehindBlocks
  <1>4. Cardinality(N) <= 1
    <2>1. \A b, c \in N : b = c
      BY DEF IInv, FirstOnce
    <2>2. CASE N = {}
      BY <2>2, FS_EmptySet
    <2>3. CASE N # {}
      <3>1. PICK b \in N : TRUE
        BY <2>3
      <3>2. N = {b}
        BY <2>1
      <3>3. Cardinality({b}) = 1
        BY FS_Singleton
      <3> QED
        BY <3>2, <3>3
    <2> QED
      BY <2>2, <2>3
  <1>5. CASE v \in Voter
    <2>1. Cardinality(F) <= 3
      BY <1>5 DEF Sparing, MaxEntries
    <2>2. IsFiniteSet(N \cap F)
      BY <1>1, FS_Subset
    <2>3. Cardinality(N \cap F) \in Nat
      BY <2>2, FS_CardinalityType
    <2>4. /\ IsFiniteSet(N \cup F)
          /\ Cardinality(N \cup F) = Cardinality(N) + Cardinality(F) - Cardinality(N \cap F)
      BY <1>1, FS_Union
    <2>5. Cardinality(S) <= Cardinality(N \cup F)
      BY <1>3, <2>4, FS_Subset
    <2>6. Times(Behind, B, v) = Cardinality(S)
      BY DEF Times
    <2> HIDE DEF S, N, F
    <2> QED
      BY <1>2, <1>4, <1>5, <2>1, <2>3, <2>4, <2>5, <2>6
  <1>6. CASE v \notin Voter
    <2>1. S = {}
      BY <1>6, BehindBlocks
    <2>2. Times(Behind, B, v) = 0
      BY <2>1, FS_EmptySet DEF Times
    <2> QED
      BY <2>2
  <1> QED
    BY <1>5, <1>6

(* So the blocks weigh four times the stake of the voters at most.           *)
LEMMA WeightBounded ==
    ASSUME IInv, Sparing, NEW B \in SUBSET Block
    PROVE  /\ Weight(Behind, B) \in Nat /\ StakeOf[Voter] \in Nat
           /\ Weight(Behind, B) <= 4 * StakeOf[Voter]
  <1>1. \A k \in 1..4 : Level(Behind, B, k) \in SUBSET Voter
    BY BehindFour DEF Level
  <1>2. Voter \in SUBSET Validator
    BY DEF Voter
  <1>3. \A k \in 1..4 : /\ StakeOf[Level(Behind, B, k)] \in Nat /\ StakeOf[Voter] \in Nat
                        /\ StakeOf[Level(Behind, B, k)] <= StakeOf[Voter]
    BY <1>1, <1>2, StakeMonotone
  <1>4. /\ StakeOf[Level(Behind, B, 1)] \in Nat /\ StakeOf[Level(Behind, B, 1)] <= StakeOf[Voter]
        /\ StakeOf[Level(Behind, B, 2)] \in Nat /\ StakeOf[Level(Behind, B, 2)] <= StakeOf[Voter]
        /\ StakeOf[Level(Behind, B, 3)] \in Nat /\ StakeOf[Level(Behind, B, 3)] <= StakeOf[Voter]
        /\ StakeOf[Level(Behind, B, 4)] \in Nat /\ StakeOf[Level(Behind, B, 4)] <= StakeOf[Voter]
        /\ StakeOf[Voter] \in Nat
    BY <1>3
  <1> QED
    BY <1>4 DEF Weight

(* Each certified block weighs 60 percent, less what the others may give.    *)
LEMMA CertifiedWeighs ==
    ASSUME IInv, Sparing, NEW B \in SUBSET FallbackCertified, Cardinality(B) >= 1
    PROVE  \E C \in SUBSET FallbackCertified :
               /\ Cardinality(C) = Cardinality(B) - 1
               /\ 100 * Weight(Behind, B) + 100 * StakeOf[Others]
                  >= 100 * Weight(Behind, C) + 60 * Total
  <1>1. B \in SUBSET Block
    BY DEF FallbackCertified
  <1>2. IsFiniteSet(B)
    BY <1>1, FS_Subset, StakeAssumption
  <1>3. B # {}
    BY FS_EmptySet
  <1>4. PICK b \in B : TRUE
    BY <1>3
  <1>5. Cardinality(B \ {b}) = Cardinality(B) - 1
    BY <1>2, FS_RemoveElement
  <1>6. Behind \in [Block -> SUBSET Validator] /\ Behind[b] \in SUBSET Voter /\ b \in Block
    BY <1>1, BehindBlocks
  <1>7. \A v \in Validator : Times(Behind, B, v) <= 4
    BY <1>1, BehindFour
  <1>8. /\ Weight(Behind, B \ {b}) \in Nat /\ StakeOf[Behind[b]] \in Nat
        /\ Weight(Behind, B) = Weight(Behind, B \ {b}) + StakeOf[Behind[b]]
    BY <1>1, <1>6, <1>7, WeightAdds
  <1>9. AtLeast(StakeOf[Behind[b] \cup Others], 60)
    BY <1>6 DEF FallbackCertified, Certified, Behind, Limit
  <1>10. /\ StakeOf[Behind[b] \cup Others] = StakeOf[Behind[b]] + StakeOf[Others]
         /\ StakeOf[Others] \in Nat
    BY <1>6, StakeWithOthers
  <1>11. Total \in Nat
    BY <1>6, StakeRest
  <1>12. 100 * Weight(Behind, B) + 100 * StakeOf[Others]
         >= 100 * Weight(Behind, B \ {b}) + 60 * Total
    BY <1>8, <1>9, <1>10, <1>11 DEF AtLeast
  <1>13. B \ {b} \in SUBSET FallbackCertified
    OBVIOUS
  <1> QED
    BY <1>5, <1>12, <1>13

(* Eight blocks would weigh more than all voters can give.                   *)
LEMMA NotEight ==
    ASSUME IInv, Sparing
    PROVE  Cardinality(FallbackCertified) <= 7
  <1> DEFINE W(C) == 100 * Weight(Behind, C)
             O == 100 * StakeOf[Others]
             D == 60 * Total
             n == Cardinality(FallbackCertified)
             Below(B, i) == Cardinality(B) = n - i /\ W(FallbackCertified) + i * O >= W(B) + i * D
  <1>1. n \in Nat
    <2>1. FallbackCertified \in SUBSET Block
      BY DEF FallbackCertified
    <2> QED
      BY <2>1, FS_Subset, FS_CardinalityType, StakeAssumption
  <1>2. SUFFICES ASSUME n >= 8 PROVE FALSE
    BY <1>1
  <1>3. /\ StakeOf[Others] \in Nat /\ Total \in Nat /\ StakeOf[Voter] \in Nat
        /\ StakeOf[Others] * 100 < 20 * Total /\ StakeOf[Others] + StakeOf[Voter] = Total
    <2>1. Others \in SUBSET Validator /\ Voter = Validator \ Others
      BY OthersAssumption DEF Voter
    <2> QED
      BY <2>1, StakeRest, OthersAssumption
  <1>4. \A C \in SUBSET FallbackCertified : W(C) \in Nat /\ W(C) <= 400 * StakeOf[Voter]
    <2> SUFFICES ASSUME NEW C \in SUBSET FallbackCertified
                 PROVE  W(C) \in Nat /\ W(C) <= 400 * StakeOf[Voter]
      OBVIOUS
    <2>1. C \in SUBSET Block
      BY DEF FallbackCertified
    <2> QED
      BY <2>1, WeightBounded
  <1>5. ASSUME NEW i \in 0..7, NEW B \in SUBSET FallbackCertified, Below(B, i)
        PROVE  \E C \in SUBSET FallbackCertified : Below(C, i + 1)
    <2>1. Cardinality(B) >= 1
      BY <1>1, <1>2, <1>5
    <2>2. PICK C \in SUBSET FallbackCertified :
               Cardinality(C) = Cardinality(B) - 1 /\ W(B) + O >= W(C) + D
      BY <2>1, CertifiedWeighs
    <2>3. Cardinality(C) = n - (i + 1)
      BY <1>1, <1>5, <2>2
    <2>4. W(B) \in Nat /\ W(C) \in Nat /\ W(FallbackCertified) \in Nat /\ O \in Nat /\ D \in Nat
      BY <1>3, <1>4
    <2>5. (i + 1) * O = i * O + O /\ (i + 1) * D = i * D + D /\ i * O \in Nat /\ i * D \in Nat
      <3> HIDE DEF O, D
      <3> QED
        BY <2>4
    <2>6. W(FallbackCertified) + (i + 1) * O >= W(C) + (i + 1) * D
      <3>1. W(FallbackCertified) + i * O >= W(B) + i * D
        BY <1>5
      <3>2. W(B) + O >= W(C) + D
        BY <2>2
      <3> HIDE DEF W, O, D
      <3> QED
        BY <2>4, <2>5, <3>1, <3>2
    <2> QED
      BY <2>3, <2>6
  <1>6. Below(FallbackCertified, 0)
    <2>1. W(FallbackCertified) \in Nat /\ O \in Nat /\ D \in Nat
      BY <1>3, <1>4
    <2> HIDE DEF W, O, D
    <2> QED
      BY <1>1, <2>1
  <1> HIDE DEF Below
  <1>7. \A i \in 0..7 : (\E B \in SUBSET FallbackCertified : Below(B, i))
                        => (\E B \in SUBSET FallbackCertified : Below(B, i + 1))
    BY <1>5
  <1>8. \E B \in SUBSET FallbackCertified : Below(B, 8)
    <2> DEFINE Has(i) == \E B \in SUBSET FallbackCertified : Below(B, i)
    <2>1. Has(0) /\ \A i \in 0..7 : Has(i) => Has(i + 1)
      BY <1>6, <1>7
    <2> HIDE DEF Has
    <2>2. Has(1) /\ Has(2) /\ Has(3) /\ Has(4)
      BY <2>1
    <2>3. Has(5) /\ Has(6) /\ Has(7) /\ Has(8)
      BY <2>1, <2>2
    <2> QED
      BY <2>3 DEF Has
  <1>9. PICK B \in SUBSET FallbackCertified : Below(B, 8)
    BY <1>8
  <1>10. W(FallbackCertified) + 8 * O >= W(B) + 8 * D
    BY <1>9 DEF Below
  <1>11. /\ W(B) \in Nat /\ W(FallbackCertified) \in Nat
         /\ W(FallbackCertified) <= 400 * StakeOf[Voter]
    BY <1>4
  <1> HIDE DEF W
  <1> QED
    BY <1>3, <1>10, <1>11

(* However the votes are cast: as long as no voter casts more fallback votes  *)
(* than its own pool asks for, no more than MAX_NOTAR_FALLBACK_BLOCKS blocks  *)
(* of a slot get a NotarizeFallback certificate or a stronger one, from       *)
(* whichever pools, and the assertion of add_new_notar_fallback_or_stronger() *)
(* holds.  The bound leaves no slack: when the others have p percent, eight   *)
(* blocks need 8 * (60 - p) percent from voters that have 4 * (100 - p) to    *)
(* give, which is too little exactly when p is below 20.                      *)
THEOREM FallbackBlocksAreFew == Spec => []FewFallbackBlocks
  <1>1. IInv => FewFallbackBlocks
    BY NotEight, StrongerIsFallback DEF FewFallbackBlocks, MaxNotarFallbackBlocks
  <1> QED
    BY <1>1, Invariance, PTL
================================================================================
