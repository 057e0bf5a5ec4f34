----------------------- MODULE EventHandlerVotingProofs -----------------------
(***************************************************************************)
(* More proofs about the voting of one validator, from the invariant of     *)
(* EventHandlerProofs: what its votes have behind them (Own), that its pool *)
(* agrees with what it sent (Agreed), the types of all of its state (Rest), *)
(* that a slot of a window with a parent is never left behind (Alive), and  *)
(* that each vote is cast by the rules (Lawful).                            *)
(***************************************************************************)
EXTENDS EventHandlerProofs

(* What a history says of its own votes: a block inside a window is          *)
(* notarized on top of a notarized block, a finalized one was notarized by   *)
(* the node and by the cluster.  Every history keeps this by itself, the     *)
(* stored one and the snapshots that wait included.                          *)

OwnChain(g) ==
    \A b \in Block : BlockVote("Notarize", b) \in g.cast /\ ~(b[1] % Window = 0 \/ b[1] = 1) =>
        \/ Parent[b][1] < g.root
        \/ Parent[b][1] + 1 = b[1] /\ BlockVote("Notarize", Parent[b]) \in g.cast

OwnFinal(g) ==
    \A v \in g.cast : v.type = "Finalize" =>
        \E b \in g.notarized : b[1] = SlotOf(v) /\ BlockVote("Notarize", b) \in g.cast

(* check_rootable_blocks() moves the root only to a slot with a vote.         *)
VotedRoot(g) == g.root = 0 \/ \E w \in g.cast : w.type \in FirstTypes /\ SlotOf(w) = g.root

Own(g) == OwnChain(g) /\ OwnFinal(g) /\ VotedRoot(g)

AllOwn == Own(h) /\ Own(disk) /\ \A i \in 1..Len(ops) : Own(ops[i].hist)

(* The condition under which a vote is cast.                                 *)
MayCast(v, g) ==
    /\ \A b \in Block : v = BlockVote("Notarize", b) /\ ~(b[1] % Window = 0 \/ b[1] = 1) =>
          Parent[b][1] + 1 = b[1] /\ BlockVote("Notarize", Parent[b]) \in g.cast
    /\ v.type = "Finalize" =>
          \E b \in g.notarized : b[1] = SlotOf(v) /\ BlockVote("Notarize", b) \in g.cast

LEMMA OwnAdd ==
    ASSUME NEW g \in OurHistory, Own(g), NEW v \in OurVote, MayCast(v, g)
    PROVE  Own(With(g, v))
<1> DEFINE k == With(g, v)
<1>1. k.cast = g.cast \cup {v} /\ k.root = g.root /\ k.notarized = g.notarized
  BY DEF With, OurHistory
<1> HIDE DEF k
<1>2. OwnChain(k)
  BY <1>1, Zenon DEF Own, OwnChain, MayCast
<1>3. OwnFinal(k)
  BY <1>1, Zenon DEF Own, OwnFinal, MayCast
<1>4. VotedRoot(k)
  BY <1>1, Zenon DEF Own, VotedRoot
<1> QED
  BY <1>2, <1>3, <1>4 DEF Own, k

(* A history with the same votes and root, and no fewer certificates.        *)
LEMMA OwnMore ==
    ASSUME NEW g, NEW k, Own(g), k.cast = g.cast, k.root = g.root, g.notarized \subseteq k.notarized
    PROVE  Own(k)
BY Zenon DEF Own, OwnChain, OwnFinal, VotedRoot

(* set_root() forgets a parent only with its slot.                           *)
LEMMA OwnRooted ==
    ASSUME h \in OurHistory, Own(h), NEW r \in Slot, h.root <= r, Voted(r)
    PROVE  Own(SetHistoryRoot(r))
<1> DEFINE g == SetHistoryRoot(r)
<1>1. /\ g.cast = {v \in h.cast : SlotOf(v) >= r} /\ g.root = r
      /\ g.notarized = {b \in h.notarized : b[1] >= r}
  BY DEF SetHistoryRoot
<1>2. r \in Nat /\ h.root \in Nat
  BY HistoryNumbers, HandlerAssumption DEF Slot
<1> HIDE DEF g
<1>3. ASSUME NEW b \in Block, BlockVote("Notarize", b) \in g.cast, ~(b[1] % Window = 0 \/ b[1] = 1)
      PROVE  \/ Parent[b][1] < g.root
             \/ Parent[b][1] + 1 = b[1] /\ BlockVote("Notarize", Parent[b]) \in g.cast
  <2>1. Parent[b][1] \in Nat
    BY HandlerAssumption DEF Known, Slot
  <2>2. SlotOf(BlockVote("Notarize", Parent[b])) = Parent[b][1]
    BY DEF SlotOf, BlockVote
  <2>3. BlockVote("Notarize", b) \in h.cast
    BY <1>1, <1>3
  <2>4. \/ Parent[b][1] < h.root
        \/ Parent[b][1] + 1 = b[1] /\ BlockVote("Notarize", Parent[b]) \in h.cast
    BY <1>3, <2>3 DEF Own, OwnChain
  <2>5. CASE Parent[b][1] < r
    BY <1>1, <2>5
  <2>6. CASE ~(Parent[b][1] < r)
    <3>1. Parent[b][1] >= r /\ ~(Parent[b][1] < h.root)
      BY <1>2, <2>1, <2>6
    <3> QED
      BY <1>1, <2>2, <2>4, <3>1, Zenon
  <2> QED
    BY <2>5, <2>6
<1>4. ASSUME NEW v \in g.cast, v.type = "Finalize"
      PROVE  \E b \in g.notarized : b[1] = SlotOf(v) /\ BlockVote("Notarize", b) \in g.cast
  <2>1. v \in h.cast /\ SlotOf(v) >= r
    BY <1>1
  <2>2. PICK b \in h.notarized : b[1] = SlotOf(v) /\ BlockVote("Notarize", b) \in h.cast
    BY <1>4, <2>1 DEF Own, OwnFinal
  <2>3. SlotOf(BlockVote("Notarize", b)) = b[1]
    BY DEF SlotOf, BlockVote
  <2> QED
    BY <1>1, <2>1, <2>2, <2>3, Zenon
<1>5. PICK w \in h.cast : w.type \in FirstTypes /\ SlotOf(w) = r
  BY Zenon DEF Voted, Cast, FirstTypes
<1>6. w \in g.cast
  BY <1>1, <1>2, <1>5
<1>7. VotedRoot(g)
  BY <1>1, <1>5, <1>6, Zenon DEF VotedRoot
<1> QED
  BY <1>3, <1>4, <1>7 DEF Own, OwnChain, OwnFinal, g

LEMMA OwnStill ==
    ASSUME AllOwn, UNCHANGED <<ops, disk>>, Own(h')
    PROVE  AllOwn'
BY DEF AllOwn, Own, OwnChain, OwnFinal, VotedRoot

LEMMA OwnCast ==
    ASSUME AllOwn, IInv, NEW v \in OurVote, MayCast(v, h), CastVote(v), UNCHANGED disk
    PROVE  AllOwn'
<1> DEFINE g == With(h, v)
<1>1. h \in OurHistory /\ ops \in Seq(OurOp) /\ Own(h)
  BY DEF IInv, Types, AllOwn
<1>2. Own(g)
  BY <1>1, OwnAdd
<1>3. h' = g
  BY DEF CastVote, With
<1> HIDE DEF g
<1>4. Own(h')
  BY <1>2, <1>3
<1>5. CASE UNCHANGED ops
  BY <1>4, <1>5, OwnStill
<1>6. CASE ops' = Append(ops, [vote |-> v, hist |-> g])
  <2>1. /\ Len(ops') = Len(ops) + 1 /\ Len(ops) \in Nat
        /\ \A i \in 1..Len(ops) : ops'[i] = ops[i]
        /\ ops'[Len(ops) + 1] = [vote |-> v, hist |-> g]
    BY <1>1, <1>6
  <2>2. ASSUME NEW i \in 1..Len(ops') PROVE Own(ops'[i].hist)
    <3>1. CASE i \in 1..Len(ops)
      <4>1. ops'[i] = ops[i] /\ Own(ops[i].hist)
        BY <2>1, <3>1 DEF AllOwn
      <4> QED
        BY <4>1
    <3>2. CASE i = Len(ops) + 1
      <4>1. ops'[i].hist = g
        BY <2>1, <3>2
      <4> QED
        BY <1>2, <4>1
    <3> QED
      BY <2>1, <2>2, <3>1, <3>2
  <2>3. Own(disk)'
    BY DEF AllOwn, Own, OwnChain, OwnFinal, VotedRoot
  <2>4. Own(h)'
    BY <1>4 DEF Own, OwnChain, OwnFinal, VotedRoot
  <2>5. (\A i \in 1..Len(ops) : Own(ops[i].hist))'
    BY <2>2 DEF Own, OwnChain, OwnFinal, VotedRoot
  <2> QED
    BY <2>3, <2>4, <2>5 DEF AllOwn
<1> QED
  BY <1>5, <1>6 DEF CastVote, With, g

(* The calls and events that cast a vote.                                    *)
LEMMA OwnNotar ==
    ASSUME NEW b \in Block, MayNotarize(b)
    PROVE  BlockVote("Notarize", b) \in OurVote /\ MayCast(BlockVote("Notarize", b), h)
<1> DEFINE v == BlockVote("Notarize", b)
<1>1. v \in OurVote /\ v.type = "Notarize" /\ v.block = b
  BY BlockVotes DEF BlockTypes
<1>2. \A c : BlockVote("Notarize", c).block = c
  BY DEF BlockVote
<1> HIDE DEF v
<1>3. ASSUME NEW c \in Block, v = BlockVote("Notarize", c), ~(c[1] % Window = 0 \/ c[1] = 1)
      PROVE  Parent[c][1] + 1 = c[1] /\ BlockVote("Notarize", Parent[c]) \in h.cast
  <2>1. c = b
    BY <1>1, <1>2, <1>3
  <2> QED
    BY <1>3, <2>1 DEF MayNotarize
<1> QED
  BY <1>1, <1>3 DEF MayCast, v

LEMMA OwnOther ==
    ASSUME NEW v \in OurVote, v.type \notin {"Notarize", "Finalize"}
    PROVE  MayCast(v, h)
<1>1. \A c : BlockVote("Notarize", c).type = "Notarize"
  BY DEF BlockVote
<1> QED
  BY <1>1 DEF MayCast

LEMMA OwnCalls ==
    ASSUME IInv, Ground, AllOwn, Calls
    PROVE  AllOwn'
<1>0. h \in OurHistory /\ Own(h) /\ ops \in Seq(OurOp) /\ h.root <= root /\ root \in Slot
  BY DEF IInv, Types, AllOwn, Work
<1>1. ASSUME UNCHANGED <<h, ops, disk>> PROVE AllOwn'
  BY <1>0, <1>1, OwnStill
<1>2. ASSUME NEW b \in Block, TryNotar(b) PROVE AllOwn'
  <2>1. CASE MayNotarize(b)
    BY <1>2, <2>1, OwnNotar, OwnCast DEF TryNotar, service
  <2>2. CASE ~MayNotarize(b)
    BY <1>1, <1>2, <2>2 DEF TryNotar, service
  <2> QED
    BY <2>1, <2>2
<1>3. ASSUME NEW b \in Block, TryFinal(b) PROVE AllOwn'
  <2>1. CASE MayFinalize(b)
    <3> DEFINE v == SlotVote("Finalize", b[1])
    <3>1. v \in OurVote /\ SlotOf(v) = b[1] /\ v.type = "Finalize"
      BY BlockVotes, SlotVotes, Zenon DEF BlockTypes, SlotTypes
    <3>2. b \in h.notarized /\ BlockVote("Notarize", b) \in h.cast
      BY <2>1 DEF MayFinalize
    <3>3. CastVote(v) /\ UNCHANGED disk
      BY <1>3, <2>1 DEF TryFinal, service
    <3> HIDE DEF v
    <3>4. \A c : v # BlockVote("Notarize", c)
      BY <3>1 DEF BlockVote
    <3>5. MayCast(v, h)
      BY <3>1, <3>2, <3>4 DEF MayCast
    <3> QED
      BY <3>1, <3>3, <3>5, OwnCast
  <2>2. CASE ~MayFinalize(b)
    BY <1>1, <1>3, <2>2 DEF TryFinal, service
  <2> QED
    BY <2>1, <2>2
<1>4. ASSUME NEW s \in Slot, TrySkip(s) PROVE AllOwn'
  <2>1. CASE ~Voted(s)
    <3> DEFINE v == SlotVote("Skip", s)
    <3>1. v \in OurVote /\ v.type \notin {"Notarize", "Finalize"}
      BY SlotVotes, Zenon DEF SlotTypes
    <3>2. CastVote(v) /\ UNCHANGED disk
      BY <1>4, <2>1 DEF TrySkip, service
    <3> HIDE DEF v
    <3> QED
      BY <3>1, <3>2, OwnOther, OwnCast
  <2>2. CASE Voted(s)
    BY <1>1, <1>4, <2>2 DEF TrySkip, service
  <2> QED
    BY <2>1, <2>2
<1>5. ASSUME NEW b, b \in Block \/ b \in Slot \X {0}, Fallback(b) PROVE AllOwn'
  <2> DEFINE v == IF b[2] = 0 THEN SlotVote("SkipFallback", b[1]) ELSE BlockVote("NotarizeFallback", b)
  <2>1. v \in OurVote /\ v.type \notin {"Notarize", "Finalize"}
    <3>1. CASE b \in Block
      BY <3>1, BlockVotes DEF BlockTypes
    <3>2. CASE b \in Slot \X {0}
      BY <3>2, SlotVotes DEF SlotTypes
    <3> QED
      BY <1>5, <3>1, <3>2
  <2>2. CASE ItsOver(b[1]) \/ v \in h.cast
    BY <1>1, <1>5, <2>2 DEF Fallback, service
  <2>3. CASE ~(ItsOver(b[1]) \/ v \in h.cast)
    <3>1. CastVote(v) /\ UNCHANGED disk
      BY <1>5, <2>3 DEF Fallback, service
    <3> HIDE DEF v
    <3> QED
      BY <2>1, <3>1, OwnOther, OwnCast
  <2> QED
    BY <2>2, <2>3
<1>6. ASSUME NEW b \in Block, AddMissingParentReady(b) PROVE AllOwn'
  <2>1. UNCHANGED <<ops, disk>> /\ h'.cast = h.cast /\ h'.root = h.root /\ h'.notarized = h.notarized
    BY <1>0, <1>6 DEF AddMissingParentReady, AddParentReady, OurHistory, service
  <2> QED
    BY <1>0, <2>1, OwnMore, OwnStill
<1>7. ASSUME CheckPendingBlocks \/ SendVotes PROVE AllOwn'
  BY <1>1, <1>7 DEF CheckPendingBlocks, SendVotes, handler, service
<1>8. ASSUME CheckRootableBlocks PROVE AllOwn'
  <2>1. UNCHANGED <<ops, disk>>
    BY <1>8 DEF CheckRootableBlocks, service
  <2>2. CASE Rootable = {}
    BY <1>1, <1>8, <2>1, <2>2 DEF CheckRootableBlocks
  <2>3. CASE Rootable # {}
    <3>1. PICK b \in Rootable : h' = SetHistoryRoot(b[1])
      BY <1>8, <2>3 DEF CheckRootableBlocks
    <3>2. b \in Block /\ b[1] > root /\ Voted(b[1])
      BY <3>1 DEF Rootable, Ground
    <3>3. b[1] \in Slot /\ h.root <= b[1]
      BY <1>0, <3>2, HandlerAssumption, HistoryNumbers DEF Slot
    <3> QED
      BY <1>0, <2>1, <3>1, <3>2, <3>3, OwnRooted, OwnStill
  <2> QED
    BY <2>2, <2>3
<1>9. ASSUME NEW s \in Slot, Fallback(<<s, 0>>) PROVE AllOwn'
  BY <1>5, <1>9
<1>10. ASSUME NEW b \in Block, Fallback(b) PROVE AllOwn'
  BY <1>5, <1>10
<1> QED
  BY <1>2, <1>3, <1>4, <1>6, <1>7, <1>8, <1>9, <1>10, Zenon DEF Calls

LEMMA OwnEvents ==
    ASSUME IInv, AllOwn, Events
    PROVE  AllOwn'
<1>0. h \in OurHistory /\ Own(h) /\ ops \in Seq(OurOp)
  BY DEF IInv, Types, AllOwn
<1>1. ASSUME UNCHANGED <<h, ops, disk>> PROVE AllOwn'
  BY <1>0, <1>1, OwnStill
<1>2. ASSUME NEW b \in Block, BlockEvent(b) PROVE AllOwn'
  <2>1. CASE b[1] > root /\ MayNotarize(b)
    <3>0. b[1] \in Nat /\ root \in Nat
      BY BlockVotes, HandlerAssumption DEF BlockTypes, IInv, Types, Slot
    <3>1. ~(b[1] <= root)
      BY <2>1, <3>0
    <3>2. CastVote(BlockVote("Notarize", b)) /\ UNCHANGED disk
      BY <1>2, <2>1, <3>1, Zenon DEF BlockEvent, service
    <3> QED
      BY <2>1, <3>2, OwnNotar, OwnCast
  <2>2. CASE b[1] <= root \/ ~MayNotarize(b)
    BY <1>1, <1>2, <2>2 DEF BlockEvent, service
  <2>3. b[1] \in Nat /\ root \in Nat
    BY BlockVotes, HandlerAssumption DEF BlockTypes, IInv, Types, Slot
  <2> QED
    BY <2>1, <2>2, <2>3
<1>3. ASSUME NEW b, SafeToNotar(b) \/ SafeToSkip(b) \/ Finalized(b) \/ FirstShred(b) \/ TimerFires(b)
      PROVE  AllOwn'
  BY <1>1, <1>3, Zenon DEF SafeToNotar, SafeToSkip, Finalized, FirstShred, TimerFires, service
<1>4. ASSUME NEW b, BlockNotarized(b) PROVE AllOwn'
  <2>1. UNCHANGED <<ops, disk>>
    BY <1>4 DEF BlockNotarized, service
  <2>2. h'.cast = h.cast /\ h'.root = h.root /\ h.notarized \subseteq h'.notarized
    BY <1>0, <1>4 DEF BlockNotarized, OurHistory
  <2> QED
    BY <1>0, <2>1, <2>2, OwnMore, OwnStill
<1>5. ASSUME NEW s, NEW p, HandleParentReady(s, p) PROVE AllOwn'
  <2>1. UNCHANGED <<ops, disk>> /\ h'.cast = h.cast /\ h'.root = h.root /\ h'.notarized = h.notarized
    BY <1>0, <1>5 DEF HandleParentReady, AddParentReady, OurHistory, service
  <2> QED
    BY <1>0, <2>1, OwnMore, OwnStill
<1>6. ASSUME NEW s \in Slot, Standstill(s) PROVE AllOwn'
  <2>1. UNCHANGED <<h, disk>>
    BY <1>6 DEF Standstill, handler, service
  <2>2. PICK S \in SUBSET h.cast :
            \E q \in Orders(S) : ops' = ops \o [i \in DOMAIN q |-> [vote |-> q[i], hist |-> h]]
    BY <1>6, Zenon DEF Standstill
  <2>3. PICK q \in Orders(S) : ops' = ops \o [i \in DOMAIN q |-> [vote |-> q[i], hist |-> h]]
    BY <2>2, Zenon
  <2> DEFINE n == [i \in DOMAIN q |-> [vote |-> q[i], hist |-> h]]
  <2>4. n \in Seq(OurOp) /\ \A j \in 1..Len(n) : n[j].hist = h
    <3>1. IsFiniteSet(S)
      BY FS_Subset DEF IInv, Histories, Sane
    <3>2. Cardinality(S) \in Nat
      BY <3>1, FS_CardinalityType
    <3>3. q \in [1..Cardinality(S) -> S]
      BY <2>3 DEF Orders
    <3>4. n \in [1..Cardinality(S) -> OurOp]
      BY <1>0, <3>3 DEF OurHistory, OurOp
    <3>5. n \in Seq(OurOp) /\ Len(n) = Cardinality(S)
      BY <3>2, <3>4, FunctionIsSequence
    <3> QED
      BY <3>3, <3>5
  <2> HIDE DEF n
  <2>5. ASSUME NEW i \in 1..Len(ops') PROVE Own(ops'[i].hist)
    <3>1. ops' = ops \o n
      BY <2>3 DEF n
    <3>2. \/ i \in 1..Len(ops) /\ ops'[i] = ops[i]
          \/ i > Len(ops) /\ \E j \in 1..Len(n) : ops'[i] = n[j]
      BY <1>0, <2>4, <3>1, OpsConcat
    <3>3. CASE i \in 1..Len(ops) /\ ops'[i] = ops[i]
      BY <3>3 DEF AllOwn
    <3>4. CASE \E j \in 1..Len(n) : ops'[i] = n[j]
      BY <1>0, <2>4, <3>4, Zenon
    <3> QED
      BY <3>2, <3>3, <3>4
  <2> QED
    BY <1>0, <2>1, <2>5 DEF AllOwn
<1>7. ASSUME NEW s, NEW p, ParentReady(s, p) PROVE AllOwn'
  BY <1>5, <1>7 DEF ParentReady
<1>8. ASSUME NEW b, KickOff(b) PROVE AllOwn'
  BY <1>5, <1>8 DEF KickOff
<1> QED
  BY <1>2, <1>3, <1>4, <1>6, <1>7, <1>8, Zenon DEF Events

LEMMA OwnOthers ==
    ASSUME IInv, AllOwn, Others
    PROVE  AllOwn'
<1>0. h \in OurHistory /\ Own(h) /\ Own(disk) /\ ops \in Seq(OurOp) /\ released \in 0..Len(ops)
  BY DEF IInv, Types, AllOwn
<1>1. ASSUME UNCHANGED <<h, ops, disk>> PROVE AllOwn'
  BY <1>0, <1>1, OwnStill
<1>2. ASSUME StoreVote PROVE AllOwn'
  <2>1. ops # <<>> /\ UNCHANGED h /\ disk' = Head(ops).hist /\ ops' = Tail(ops)
    BY <1>0, <1>2 DEF StoreVote, handler
  <2>2. Own(disk')
    BY <1>0, <2>1, OpsTail DEF AllOwn
  <2>3. ASSUME NEW i \in 1..Len(ops') PROVE Own(ops'[i].hist)
    BY <1>0, <2>1, OpsTail DEF AllOwn
  <2> QED
    BY <1>0, <2>1, <2>2, <2>3 DEF AllOwn
<1>3. ASSUME Crash PROVE AllOwn'
  <2>1. h' = disk /\ disk' = disk /\ ops' = <<>>
    BY <1>3 DEF Crash
  <2> QED
    BY <1>0, <2>1 DEF AllOwn
<1>4. ASSUME NEW v, Broadcast \/ Replay(v) PROVE AllOwn'
  BY <1>1, <1>4, Zenon DEF Broadcast, Replay, handler, service
<1> QED
  BY <1>2, <1>3, <1>4 DEF Others

LEMMA OwnInit ==
    ASSUME Init
    PROVE  AllOwn
<1>1. h = NewHistory /\ disk = NewHistory /\ ops = <<>>
  BY DEF Init
<1>2. NewHistory.cast = {} /\ NewHistory.root = 0
  BY DEF NewHistory
<1>3. Own(NewHistory)
  BY <1>2 DEF Own, OwnChain, OwnFinal, VotedRoot
<1> QED
  BY <1>1, <1>3 DEF AllOwn

LEMMA SpecOwn == Spec => []AllOwn
<1>1. Init => IInv /\ Ground /\ AllOwn
  BY InitIInv, OwnInit
<1>2. IInv /\ Ground /\ AllOwn /\ [Next]_vars => IInv' /\ Ground' /\ AllOwn'
  <2>1. SUFFICES ASSUME IInv, Ground, AllOwn, [Next]_vars PROVE AllOwn'
    BY IInvStep
  <2>2. CASE UNCHANGED vars
    BY <2>1, <2>2, OwnStill DEF vars, handler, service, AllOwn
  <2> QED
    BY <2>1, <2>2, OwnCalls, OwnEvents, OwnOthers DEF Next
<1> QED
  BY <1>1, <1>2, PTL DEF Spec

(* Inside a window the node notarizes only on top of its own notarization of *)
(* the slot before: no pruning by the root, and no restart from an older     *)
(* stored history, leaves a notarization without the one it stands on.       *)
THEOREM NotarizesItsOwnChain == Spec => []NotarizesOwnChain
<1>1. AllOwn => NotarizesOwnChain
  BY DEF AllOwn, Own, OwnChain, NotarizesOwnChain
<1> QED
  BY <1>1, SpecOwn, PTL

(* A Finalize vote stands beside the node's own Notarize vote and the        *)
(* certificate of one block of its slot, in every history it comes back      *)
(* with.                                                                     *)
THEOREM FinalizesItsOwn == Spec => []FinalizesOwnNotarized
<1>1. AllOwn => FinalizesOwnNotarized
  BY DEF AllOwn, Own, OwnFinal, FinalizesOwnNotarized
<1> QED
  BY <1>1, SpecOwn, PTL

(* A block that try_notar() is given asks only about slots that the history  *)
(* still has: at its root the slot has a vote, above it the parent is not    *)
(* below.                                                                    *)
LEMMA AsksAboveRoot ==
    ASSUME h \in OurHistory, VotedRoot(h), NEW b \in Block, b[1] >= h.root,
           NEW s \in Slot, AsksAbout(b, s)
    PROVE  s >= h.root
<1>1. b[1] \in Nat /\ h.root \in Nat /\ s \in Nat /\ Parent[b][1] \in Nat
  BY BlockVotes, HistoryNumbers, HandlerAssumption DEF BlockTypes, Known, Slot
<1>2. CASE s = b[1]
  BY <1>2
<1>3. CASE s # b[1]
  <2>1. ~Voted(b[1]) /\ Parent[b][1] + 1 = b[1] /\ s = Parent[b][1]
    BY <1>3 DEF AsksAbout
  <2>2. b[1] # h.root
    <3>1. SUFFICES ASSUME b[1] = h.root PROVE FALSE
      OBVIOUS
    <3>2. h.root # 0
      BY <1>1, <2>1, <3>1
    <3>3. PICK w \in h.cast : w.type \in FirstTypes /\ SlotOf(w) = h.root
      BY <3>2, Zenon DEF VotedRoot
    <3>4. Voted(h.root)
      BY <3>3 DEF Voted, Cast, FirstTypes
    <3> QED
      BY <2>1, <3>1, <3>4
  <2> QED
    BY <1>1, <2>1, <2>2
<1> QED
  BY <1>2, <1>3

(* No assertion of VoteHistory fails: a call never asks about a slot below   *)
(* the root of the history, not even about the parent of a block that waits, *)
(* and a fallback vote follows a first vote.                                 *)
THEOREM NoAssertionFails == Spec => []AssertionsHold
<1>1. Init => IInv /\ Ground
  BY InitIInv
<1>2. IInv /\ Ground /\ [Next]_vars => IInv' /\ Ground'
  BY IInvStep
<1>3. ASSUME IInv, AllOwn PROVE AssertionsHold
  <2>1. ASSUME todo # <<>> PROVE CallSane(Head(todo), h)
    BY <1>3, <2>1, HeadSane DEF IInv, Work
  <2>2. ASSUME NEW c, FirstFor(c, h) PROVE Voted(c[1])
    BY <2>2 DEF FirstFor, Voted, Cast
  <2>3. /\ h.root <= root /\ h \in OurHistory /\ root \in Slot /\ pending \subseteq Block
        /\ \A b \in pending : b[1] >= h.root
        /\ VotedRoot(h)
    BY <1>3 DEF IInv, Types, Work, AllOwn, Own
  <2>4. ASSUME NEW b \in Tried PROVE b \in Block /\ b[1] >= h.root
    <3>1. CASE b \in Block /\ Doing("notar", b)
      BY <2>1, <3>1 DEF Doing, Call, CallSane
    <3>2. CASE b \in pending
      BY <2>3, <3>2
    <3>3. CASE b \in Block /\ b[1] > root
      <4>1. b[1] \in Nat /\ h.root \in Nat /\ root \in Nat
        BY <2>3, <3>3, BlockVotes, HistoryNumbers, HandlerAssumption DEF BlockTypes, Slot
      <4> QED
        BY <2>3, <3>3, <4>1
    <3> QED
      BY <3>1, <3>2, <3>3, Zenon DEF Tried
  <2>5. \A b \in Tried, s \in Slot : AsksAbout(b, s) => s >= h.root
    BY <2>3, <2>4, AsksAboveRoot
  <2>6. todo # <<>> /\ Head(todo)[1] \in {"final", "skip", "fallback"} => Head(todo)[2][1] >= h.root
    BY <2>1 DEF CallSane
  <2>7. todo # <<>> /\ Head(todo)[1] = "fallback" => Voted(Head(todo)[2][1])
    BY <2>1, <2>2, Zenon DEF CallSane
  <2> QED
    BY <2>3, <2>5, <2>6, <2>7, Zenon DEF AssertionsHold
<1> QED
  BY <1>1, <1>2, <1>3, SpecOwn, PTL DEF Spec

-----------------------------------------------------------------------------
(* The own pool                                                              *)

(* A vote on its way out is in the pool, and what is in the pool or out is   *)
(* free of conflicts.                                                        *)
Agreed ==
    /\ \A v, w \in pooled \cup sent : ~Conflict(v, w)
    /\ stored \subseteq pooled
    /\ \A i \in 1..Len(ops) : ops[i].vote \in pooled

LEMMA KnownNoConflict ==
    ASSUME NEW g \in OurHistory, Sane(g), NEW v \in g.cast, NEW w \in OurVote, KnownTo(w, g)
    PROVE  ~Conflict(v, w) /\ ~Conflict(w, v)
<1>1. CASE w \in g.cast
  BY <1>1 DEF Sane
<1>2. CASE SlotOf(w) < g.root
  <2>1. SlotOf(v) \in Nat /\ SlotOf(w) \in Nat /\ g.root \in Nat
    BY HistoryNumbers, VoteTypes
  <2>2. SlotOf(v) >= g.root
    BY DEF Sane
  <2>3. SlotOf(v) # SlotOf(w)
    BY <1>2, <2>1, <2>2
  <2> QED
    BY <2>3 DEF Conflict
<1> QED
  BY <1>1, <1>2 DEF KnownTo

(* Votes of the new history enter the pool.                                  *)
LEMMA AgreedGrow ==
    ASSUME IInv', Agreed, NEW S, S \subseteq h'.cast,
           pooled \subseteq pooled', pooled' \subseteq pooled \cup S, UNCHANGED <<stored, sent>>,
           \A i \in 1..Len(ops') : ops'[i].vote \in pooled'
    PROVE  Agreed'
<1>1. /\ h' \in OurHistory /\ disk' \in OurHistory /\ pooled' \subseteq OurVote
      /\ sent' \subseteq OurVote
  BY DEF IInv, Types
<1>2. Sane(h')
  BY Zenon DEF IInv, Histories, Sane, Conflict, ConflictingTypes, SlotOf, FirstTypes
<1>3. Older(disk', h')
  BY DEF IInv, Histories, Older, SlotOf
<1>4. ASSUME NEW w \in pooled' \cup sent' PROVE w \in OurVote /\ KnownTo(w, h')
  <2>1. CASE w \in pooled'
    <3>1. KnownTo(w, h')
      BY <2>1 DEF IInv, Out, KnownTo, SlotOf
    <3> QED
      BY <1>1, <2>1, <3>1
  <2>2. CASE w \in sent'
    <3>1. KnownTo(w, disk')
      BY <2>2 DEF IInv, Out, KnownTo, SlotOf
    <3> QED
      BY <1>1, <1>3, <2>2, <3>1, KnownOlder
  <2> QED
    BY <1>4, <2>1, <2>2
<1>5. ASSUME NEW v \in pooled' \cup sent', NEW w \in pooled' \cup sent' PROVE ~Conflict(v, w)
  <2>1. CASE v \in S
    BY <1>1, <1>2, <1>4, <2>1, KnownNoConflict
  <2>2. CASE w \in S
    BY <1>1, <1>2, <1>4, <2>2, KnownNoConflict
  <2>3. CASE v \notin S /\ w \notin S
    <3>1. v \in pooled \cup sent /\ w \in pooled \cup sent
      BY <2>3
    <3> QED
      BY <3>1 DEF Agreed
  <2> QED
    BY <2>1, <2>2, <2>3
<1> QED
  BY <1>5, Zenon DEF Agreed, Conflict, ConflictingTypes, SlotOf

LEMMA AgreedCast ==
    ASSUME IInv, IInv', Agreed, NEW v, CastVote(v), UNCHANGED <<stored, sent>>
    PROVE  Agreed'
<1>1. h'.cast = h.cast \cup {v}
  BY DEF CastVote, IInv, Types, OurHistory
<1>2. ops \in Seq(OurOp)
  BY DEF IInv, Types
<1>3. CASE UNCHANGED <<ops, pooled>>
  BY <1>3, AgreedGrow DEF Agreed
<1>4. CASE /\ ops' = Append(ops, [vote |-> v, hist |-> [h EXCEPT !.cast = @ \cup {v}]])
           /\ pooled' = pooled \cup {v}
  <2> DEFINE o == [vote |-> v, hist |-> [h EXCEPT !.cast = @ \cup {v}]]
  <2>1. o.vote = v /\ ops' = Append(ops, o)
    BY <1>4
  <2> HIDE DEF o
  <2>2. /\ Len(ops') = Len(ops) + 1 /\ Len(ops) \in Nat
        /\ \A i \in 1..Len(ops) : ops'[i] = ops[i]
        /\ ops'[Len(ops) + 1] = o
    BY <1>2, <2>1
  <2>3. ASSUME NEW i \in 1..Len(ops') PROVE ops'[i].vote \in pooled'
    <3>1. CASE i \in 1..Len(ops)
      BY <1>4, <2>2, <3>1 DEF Agreed
    <3>2. CASE i = Len(ops) + 1
      BY <1>4, <2>1, <2>2, <3>2
    <3> QED
      BY <2>2, <2>3, <3>1, <3>2
  <2>4. {v} \subseteq h'.cast /\ pooled \subseteq pooled' /\ pooled' \subseteq pooled \cup {v}
    BY <1>1, <1>4
  <2> QED
    BY <2>3, <2>4, AgreedGrow
<1> QED
  BY <1>3, <1>4 DEF CastVote

LEMMA AgreedStill ==
    ASSUME Agreed, UNCHANGED <<pooled, sent, stored, ops>>
    PROVE  Agreed'
BY DEF Agreed

LEMMA AgreedStandstill ==
    ASSUME IInv, IInv', Agreed, NEW s \in Slot, Standstill(s)
    PROVE  Agreed'
<1>0. h \in OurHistory /\ ops \in Seq(OurOp) /\ UNCHANGED <<h, stored, sent>>
  BY DEF IInv, Types, Standstill, handler, service
<1>1. PICK S \in SUBSET h.cast :
          /\ \E q \in Orders(S) : ops' = ops \o [i \in DOMAIN q |-> [vote |-> q[i], hist |-> h]]
          /\ pooled' = pooled \cup S
  BY Zenon DEF Standstill
<1>2. PICK q \in Orders(S) : ops' = ops \o [i \in DOMAIN q |-> [vote |-> q[i], hist |-> h]]
  BY <1>1, Zenon
<1> DEFINE n == [i \in DOMAIN q |-> [vote |-> q[i], hist |-> h]]
<1>3. n \in Seq(OurOp) /\ \A j \in 1..Len(n) : n[j].vote \in S
  <2>1. IsFiniteSet(S)
    BY FS_Subset DEF IInv, Histories, Sane
  <2>2. Cardinality(S) \in Nat
    BY <2>1, FS_CardinalityType
  <2>3. q \in [1..Cardinality(S) -> S]
    BY <1>2 DEF Orders
  <2>4. n \in [1..Cardinality(S) -> OurOp]
    BY <1>0, <2>3 DEF OurHistory, OurOp
  <2>5. n \in Seq(OurOp) /\ Len(n) = Cardinality(S)
    BY <2>2, <2>4, FunctionIsSequence
  <2> QED
    BY <2>3, <2>5, SMTT(20)
<1> HIDE DEF n
<1>4. ASSUME NEW i \in 1..Len(ops') PROVE ops'[i].vote \in pooled'
  <2>1. ops' = ops \o n
    BY <1>2 DEF n
  <2>2. \/ i \in 1..Len(ops) /\ ops'[i] = ops[i]
        \/ i > Len(ops) /\ \E j \in 1..Len(n) : ops'[i] = n[j]
    BY <1>0, <1>3, <2>1, OpsConcat, Zenon
  <2>3. CASE i \in 1..Len(ops) /\ ops'[i] = ops[i]
    BY <1>1, <2>3 DEF Agreed
  <2>4. CASE \E j \in 1..Len(n) : ops'[i] = n[j]
    BY <1>1, <1>3, <2>4
  <2> QED
    BY <2>2, <2>3, <2>4
<1>5. S \subseteq h'.cast /\ pooled \subseteq pooled' /\ pooled' \subseteq pooled \cup S
  BY <1>0, <1>1
<1> QED
  BY <1>0, <1>4, <1>5, AgreedGrow

LEMMA AgreedStep ==
    ASSUME IInv, IInv', Agreed, [Next]_vars
    PROVE  Agreed'
<1>1. CASE UNCHANGED vars
  BY <1>1, AgreedStill DEF vars, pool, service
<1>2. CASE Calls
  <2>1. ASSUME NEW b, TryNotar(b) \/ TryFinal(b) \/ TrySkip(b) \/ Fallback(b)
        PROVE  UNCHANGED <<stored, sent>> /\ (UNCHANGED <<ops, pooled>> \/ \E v : CastVote(v))
    BY <2>1, Zenon DEF TryNotar, TryFinal, TrySkip, Fallback, service
  <2>2. ASSUME NEW b, AddMissingParentReady(b) \/ CheckPendingBlocks \/ CheckRootableBlocks \/ SendVotes
        PROVE  UNCHANGED <<pooled, sent, stored, ops>>
    BY <2>2, Zenon DEF AddMissingParentReady, CheckPendingBlocks, CheckRootableBlocks, SendVotes, pool, service
  <2>3. ASSUME NEW b, TryNotar(b) \/ TryFinal(b) \/ TrySkip(b) \/ Fallback(b) PROVE Agreed'
    BY <2>1, <2>3, AgreedCast, AgreedStill
  <2>4. ASSUME NEW b, AddMissingParentReady(b) \/ CheckPendingBlocks \/ CheckRootableBlocks \/ SendVotes
        PROVE  Agreed'
    BY <2>2, <2>4, AgreedStill
  <2> QED
    BY <1>2, <2>3, <2>4, Zenon DEF Calls
<1>3. CASE Events
  <2>1. ASSUME NEW b, BlockEvent(b) PROVE Agreed'
    <3>1. UNCHANGED <<stored, sent>> /\ (UNCHANGED <<ops, pooled>> \/ \E v : CastVote(v))
      BY <2>1, Zenon DEF BlockEvent, service
    <3> QED
      BY <3>1, AgreedCast, AgreedStill
  <2>2. ASSUME NEW b, \/ SafeToNotar(b) \/ SafeToSkip(b) \/ BlockNotarized(b) \/ Finalized(b)
                      \/ FirstShred(b) \/ TimerFires(b)
        PROVE  Agreed'
    <3>1. UNCHANGED <<pooled, sent, stored, ops>>
      BY <2>2, Zenon DEF SafeToNotar, SafeToSkip, BlockNotarized, Finalized, FirstShred, TimerFires, pool, service
    <3> QED
      BY <3>1, AgreedStill
  <2>3. ASSUME NEW s, NEW p, ParentReady(s, p) \/ KickOff(p) PROVE Agreed'
    <3>1. UNCHANGED <<pooled, sent, stored, ops>>
      BY <2>3, Zenon DEF ParentReady, KickOff, HandleParentReady, service
    <3> QED
      BY <3>1, AgreedStill
  <2> QED
    BY <1>3, <2>1, <2>2, <2>3, AgreedStandstill, Zenon DEF Events
<1>4. CASE Others
  <2>0. ops \in Seq(OurOp) /\ released \in 0..Len(ops)
    BY DEF IInv, Types
  <2>1. ASSUME StoreVote PROVE Agreed'
    <3>1. /\ ops # <<>> /\ UNCHANGED <<sent, pooled>>
          /\ stored' = {Head(ops).vote} /\ ops' = Tail(ops)
      BY <2>0, <2>1 DEF StoreVote, pool
    <3>2. stored' \subseteq pooled
      BY <2>0, <3>1, OpsTail DEF Agreed
    <3>3. ASSUME NEW i \in 1..Len(ops') PROVE ops'[i].vote \in pooled
      BY <2>0, <3>1, OpsTail DEF Agreed
    <3> QED
      BY <3>1, <3>2, <3>3 DEF Agreed
  <2>2. ASSUME Broadcast PROVE Agreed'
    <3>1. sent' = sent \cup stored /\ stored' = {} /\ UNCHANGED <<pooled, ops>>
      BY <2>2 DEF Broadcast, pool
    <3>2. pooled' \cup sent' \subseteq pooled \cup sent
      BY <3>1 DEF Agreed
    <3> QED
      BY <3>1, <3>2 DEF Agreed
  <2>3. ASSUME Crash PROVE Agreed'
    BY <2>3 DEF Crash, Agreed
  <2>4. ASSUME NEW b, Replay(b) PROVE Agreed'
    BY <2>4, AgreedStill DEF Replay, pool, service
  <2> QED
    BY <1>4, <2>1, <2>2, <2>3, <2>4 DEF Others
<1> QED
  BY <1>1, <1>2, <1>3, <1>4 DEF Next

(* The own pool, which takes a vote before its history is stored, never gets *)
(* two of our votes that conflict, nor one that conflicts with a vote that   *)
(* the node broadcast, in this life or before any crash.                     *)
THEOREM OwnPoolAgreesAlways == Spec => []OwnPoolAgrees
<1>1. Init => IInv /\ Ground /\ Agreed
  <2>1. ASSUME Init PROVE Agreed
    BY <2>1 DEF Init, Agreed
  <2> QED
    BY <2>1, InitIInv
<1>2. IInv /\ Ground /\ Agreed /\ [Next]_vars => IInv' /\ Ground' /\ Agreed'
  BY IInvStep, AgreedStep
<1>3. Agreed => OwnPoolAgrees
  BY DEF Agreed, OwnPoolAgrees
<1> QED
  BY <1>1, <1>2, <1>3, PTL DEF Spec

-----------------------------------------------------------------------------
(* Windows                                                                   *)

(* The window of a slot lies inside Slot, around it.                         *)
LEMMA WindowOfSlot ==
    ASSUME NEW s \in Slot
    PROVE  /\ FirstOf(s) \in Nat /\ LastOf(s) \in Nat
           /\ FirstOf(s) <= s /\ s <= LastOf(s) /\ LastOf(s) <= MaxSlot
           /\ FirstOf(s) \in Slot /\ LastOf(s) \in Slot
<1>1. s \in Nat /\ s <= MaxSlot /\ MaxSlot \in Nat /\ Window \in Nat \ {0} /\ (MaxSlot + 1) % Window = 0
  BY HandlerAssumption DEF Slot
<1>2. s % Window \in Nat /\ s % Window < Window /\ s % Window <= s
  BY <1>1
<1>3. FirstOf(s) = Window * (s \div Window)
  BY <1>1 DEF FirstOf
<1>4. MaxSlot + 1 = Window * ((MaxSlot + 1) \div Window)
  BY <1>1
<1> DEFINE j == s \div Window
           k == (MaxSlot + 1) \div Window
<1>5. j \in Nat /\ k \in Nat
  BY <1>1
<1> HIDE DEF j, k
<1>6. Window * j < Window * k
  BY <1>1, <1>2, <1>3, <1>4 DEF j, k, FirstOf
<1>7. j < k
  BY <1>1, <1>5, <1>6
<1>8. Window * (j + 1) <= Window * k
  BY <1>1, <1>5, <1>7
<1>9. Window * (j + 1) = Window * j + Window
  BY <1>1, <1>5
<1>10. LastOf(s) <= MaxSlot
  BY <1>1, <1>3, <1>4, <1>5, <1>8, <1>9 DEF j, k, LastOf
<1> QED
  BY <1>1, <1>2, <1>3, <1>10 DEF LastOf, Slot, FirstOf

(* A slot between the first slot of a window and one of its slots is in it.  *)
LEMMA SameWindow ==
    ASSUME NEW t \in Slot, NEW s \in FirstOf(t)..t
    PROVE  s \in Slot /\ LastOf(s) = LastOf(t) /\ FirstOf(s) = FirstOf(t)
<1>1. s \in Nat /\ t \in Nat /\ FirstOf(t) <= s /\ s <= t /\ s \in Slot
  BY WindowOfSlot, HandlerAssumption DEF Slot
<1>2. Window \in Nat \ {0} /\ t % Window \in Nat /\ t % Window < Window /\ s % Window \in Nat /\ s % Window < Window
  BY <1>1, HandlerAssumption
<1> DEFINE j == s \div Window
           k == t \div Window
<1>3. j \in Nat /\ k \in Nat
  BY <1>1, <1>2
<1>4. FirstOf(s) = Window * j /\ FirstOf(t) = Window * k
  <2>1. s - (s % Window) = Window * (s \div Window)
    BY <1>1, <1>2
  <2>2. t - (t % Window) = Window * (t \div Window)
    BY <1>1, <1>2
  <2> QED
    BY <2>1, <2>2 DEF FirstOf
<1> HIDE DEF j, k
<1>5. Window * j = Window * k
  <2>0. FirstOf(s) = s - (s % Window) /\ FirstOf(t) = t - (t % Window)
    BY DEF FirstOf
  <2>1. FirstOf(s) < FirstOf(t) + Window /\ FirstOf(t) < FirstOf(s) + Window
    BY <1>1, <1>2, <2>0
  <2>2. Window * k + Window = Window * (k + 1) /\ Window * j + Window = Window * (j + 1)
    BY <1>2, <1>3
  <2>3. j < k + 1 /\ k < j + 1
    BY <1>2, <1>3, <1>4, <2>1, <2>2
  <2> QED
    BY <1>3, <2>3
<1> QED
  BY <1>1, <1>4, <1>5 DEF LastOf

-----------------------------------------------------------------------------
(* The rest of the types                                                     *)
SlotCall == {"notar", "final", "skip", "fallback", "pending", "root", "missing"} \X (Slot \X Nat)

Timed == \A s \in Slot : timers[s] \in 0..(LastOf(s) - s + 2)

Rest ==
    /\ todo \in Seq(SlotCall) /\ shreds \subseteq Slot
    /\ banks \subseteq Known /\ arriving \in Seq(Block)
    /\ Timed

(* try_skip_window() stays in the window, and reaches every slot of it that  *)
(* the root has not passed.                                                  *)
LEMMA SkipWindowSlots ==
    ASSUME NEW s \in Slot, root \in Slot
    PROVE  /\ SkipWindow(s) \in Seq(SlotCall)
           /\ \A t \in FirstOf(s)..LastOf(s) : t > root =>
                 \E i \in DOMAIN SkipWindow(s) : SkipWindow(s)[i] = Call("skip", <<t, 0>>)
<1> DEFINE S == {FirstOf(s), root, 1}
           from == CHOOSE t \in S : \A u \in S : u <= t
           m == LastOf(s) + 1 - from
           n == [i \in 1..m |-> Call("skip", <<from + i - 1, 0>>)]
<1>1. SkipWindow(s) = n
  BY DEF SkipWindow
<1>2. FirstOf(s) \in Nat /\ LastOf(s) \in Nat /\ root \in Nat /\ LastOf(s) <= MaxSlot /\ MaxSlot \in Nat
  BY HandlerAssumption, WindowOfSlot DEF Slot
<1>3. \E t \in S : \A u \in S : u <= t
  BY <1>2
<1>4. from \in S /\ \A u \in S : u <= from
  BY <1>3
<1>5. from \in Nat /\ m \in Int
  BY <1>2, <1>4
<1>6. \A t \in FirstOf(s)..LastOf(s) : t > root => from <= t
  BY <1>2, <1>4
<1> HIDE DEF from, S
<1>7. \A i \in 1..m : n[i] = <<"skip", <<from + i - 1, 0>>>> /\ from + i - 1 \in Slot
  BY <1>2, <1>5 DEF Call, Slot
<1>8. \A i \in 1..m : n[i] \in SlotCall
  BY <1>7 DEF SlotCall
<1>9. n \in Seq(SlotCall)
  <2>1. PICK k \in Nat : 1..m = 1..k
    <3>1. CASE m \in Nat
      BY <3>1
    <3>2. CASE m \notin Nat
      <4>1. 1..m = 1..0
        BY <1>5, <3>2
      <4> QED
        BY <4>1, Zenon
    <3> QED
      BY <3>1, <3>2
  <2>2. n \in [1..k -> SlotCall]
    BY <1>8, <2>1, Zenon
  <2> HIDE DEF n
  <2> QED
    BY <2>2
<1>10. ASSUME NEW t \in FirstOf(s)..LastOf(s), t > root
       PROVE  \E i \in DOMAIN n : n[i] = Call("skip", <<t, 0>>)
  <2>1. t + 1 - from \in 1..m /\ from + (t + 1 - from) - 1 = t
    BY <1>2, <1>5, <1>6, <1>10
  <2>2. n[t + 1 - from] = <<"skip", <<from + (t + 1 - from) - 1, 0>>>>
    BY <1>7, <2>1
  <2>3. n[t + 1 - from] = Call("skip", <<t, 0>>)
    BY <2>1, <2>2 DEF Call
  <2> QED
    BY <2>1, <2>3
<1> QED
  BY <1>1, <1>9, <1>10, Zenon

(* The calls that check_pending_blocks() makes.                              *)
LEMMA PendingSlots ==
    ASSUME pending \subseteq Block, NEW calls \in PendingCalls
    PROVE  calls \in Seq(SlotCall)
<1>1. PICK q \in [1..Cardinality(pending) -> pending] :
          calls = [i \in 1..Cardinality(pending) |-> Call("notar", q[i])]
  BY Zenon DEF PendingCalls
<1>2. Cardinality(pending) \in Nat
  BY HandlerAssumption, FS_Subset, FS_CardinalityType
<1>3. \A b \in pending : Call("notar", b) \in SlotCall
  BY HandlerAssumption DEF SlotCall, Call
<1>4. calls \in [1..Cardinality(pending) -> SlotCall]
  BY <1>1, <1>3, Zenon
<1> QED
  BY <1>2, <1>4, FunctionIsSequence

LEMMA FewCalls ==
    ASSUME NEW a \in SlotCall, NEW b \in SlotCall, NEW c \in SlotCall, NEW d \in SlotCall
    PROVE  <<a, b>> \in Seq(SlotCall) /\ <<a, b, c, d>> \in Seq(SlotCall) /\ <<a>> \in Seq(SlotCall)
  OBVIOUS

(* The calls after the current one, with new ones before them.               *)
LEMMA ThenSlots ==
    ASSUME todo \in Seq(SlotCall), todo # <<>>, NEW calls \in Seq(SlotCall), Then(calls)
    PROVE  todo' \in Seq(SlotCall)
<1>1. Tail(todo) \in Seq(SlotCall)
  OBVIOUS
<1> QED
  BY <1>1 DEF Then

LEMMA NoThen ==
    ASSUME todo \in Seq(SlotCall), todo # <<>>, Then(<<>>)
    PROVE  todo' \in Seq(SlotCall) /\ todo' = Tail(todo)
<1>1. Tail(todo) \in Seq(SlotCall) /\ <<>> \o Tail(todo) = Tail(todo)
  OBVIOUS
<1> QED
  BY <1>1 DEF Then

LEMMA TimedParentReady ==
    ASSUME Ground, Timed, NEW s \in Slot, NEW p, AddParentReady(s, p)
    PROVE  Timed'
<1>1. LastOf(s) - s + 2 \in 0..(LastOf(s) - s + 2)
  BY WindowOfSlot, HandlerAssumption DEF Slot
<1>2. timers' = timers \/ timers' = [timers EXCEPT ![s] = LastOf(s) - s + 2]
  BY DEF AddParentReady
<1> QED
  BY <1>1, <1>2 DEF Ground, Timed

LEMMA RestCalls ==
    ASSUME IInv, Ground, Rest, Calls
    PROVE  Rest'
<1>0. /\ todo \in Seq(SlotCall) /\ pending \subseteq Block /\ Timed
      /\ \A b \in Block : b \in Slot \X Nat /\ b[1] \in Slot
      /\ <<0, 0>> \in Slot \X Nat
  BY HandlerAssumption DEF IInv, Types, Rest, Slot
<1>1. ASSUME UNCHANGED <<shreds, timers, banks, arriving>>, todo' \in Seq(SlotCall)
      PROVE  Rest'
  BY <1>1 DEF Rest, Timed
<1>2. \A b \in Slot \X Nat, f \in {"notar", "final", "skip", "fallback", "pending", "root", "missing"} :
         <<Call(f, b)>> \in Seq(SlotCall)
  BY DEF SlotCall, Call
<1>3. ASSUME NEW b \in Block, TryNotar(b) PROVE Rest'
  <2>1. todo # <<>> /\ (Then(<<Call("final", b)>>) \/ Then(<<>>))
    BY <1>3 DEF TryNotar, Doing
  <2>2. todo' \in Seq(SlotCall)
    BY <1>0, <1>2, <2>1, ThenSlots, NoThen, Zenon
  <2> QED
    BY <1>1, <1>3, <2>2 DEF TryNotar, ledger
<1>4. ASSUME NEW b, TryFinal(b) \/ TrySkip(b) \/ Fallback(b) PROVE Rest'
  <2>1. todo # <<>> /\ Then(<<>>) /\ UNCHANGED <<shreds, timers, banks, arriving>>
    BY <1>4, Zenon DEF TryFinal, TrySkip, Fallback, Doing, ledger
  <2> QED
    BY <1>0, <1>1, <2>1, NoThen
<1>5. ASSUME NEW b \in Block, AddMissingParentReady(b) PROVE Rest'
  <2>1. todo # <<>> /\ (Then(<<Call("pending", <<0, 0>>)>>) \/ Then(<<>>))
    BY <1>5 DEF AddMissingParentReady, Doing
  <2>2. todo' \in Seq(SlotCall)
    BY <1>0, <1>2, <2>1, ThenSlots, NoThen, Zenon
  <2>3. Timed'
    <3>1. AddParentReady(b[1], Parent[b]) \/ UNCHANGED timers
      BY <1>5 DEF AddMissingParentReady
    <3> QED
      BY <1>0, <3>1, TimedParentReady DEF Timed
  <2>4. UNCHANGED <<shreds, banks, arriving>>
    BY <1>5 DEF AddMissingParentReady, ledger, pool
  <2> QED
    BY <2>2, <2>3, <2>4 DEF Rest
<1>6. ASSUME CheckPendingBlocks PROVE Rest'
  <2>1. PICK calls \in PendingCalls : Then(calls)
    BY <1>6 DEF CheckPendingBlocks
  <2>2. todo # <<>> /\ UNCHANGED <<shreds, timers, banks, arriving>>
    BY <1>6 DEF CheckPendingBlocks, Doing, ledger, pool
  <2> QED
    BY <1>0, <1>1, <2>1, <2>2, PendingSlots, ThenSlots
<1>7. ASSUME CheckRootableBlocks PROVE Rest'
  <2>1. todo # <<>> /\ Then(<<>>) /\ UNCHANGED <<timers, arriving>>
    BY <1>7 DEF CheckRootableBlocks, Doing, pool
  <2>2. shreds' \subseteq shreds /\ banks' \subseteq banks
    BY <1>7 DEF CheckRootableBlocks
  <2>3. todo' \in Seq(SlotCall)
    BY <1>0, <2>1, NoThen
  <2> QED
    BY <2>1, <2>2, <2>3 DEF Rest, Timed
<1>8. ASSUME SendVotes PROVE Rest'
  BY <1>0, <1>1, <1>8 DEF SendVotes, handler, ledger, pool
<1> QED
  BY <1>3, <1>4, <1>5, <1>6, <1>7, <1>8, Zenon DEF Calls

LEMMA RestEvents ==
    ASSUME IInv, Ground, Rest, Events
    PROVE  Rest'
<1>0. /\ todo \in Seq(SlotCall) /\ pending \subseteq Block /\ Timed /\ root \in Slot
      /\ \A b \in Block : b \in Slot \X Nat /\ b[1] \in Slot
      /\ <<0, 0>> \in Slot \X Nat
  BY HandlerAssumption DEF IInv, Types, Rest, Slot
<1>1. ASSUME UNCHANGED <<shreds, timers, banks, arriving>>, todo' \in Seq(SlotCall)
      PROVE  Rest'
  BY <1>1 DEF Rest, Timed
<1>2. \A b \in Slot \X Nat, f \in {"notar", "final", "skip", "fallback", "pending", "root", "missing"} :
         Call(f, b) \in SlotCall
  BY DEF SlotCall, Call
<1>3. <<>> \in Seq(SlotCall)
  OBVIOUS
<1>4. ASSUME NEW b \in Block, BlockEvent(b) PROVE Rest'
  <2>1. \/ UNCHANGED todo
        \/ todo' = <<Call("final", b), Call("pending", <<0, 0>>), Call("root", <<0, 0>>), Call("missing", b)>>
        \/ todo' = <<Call("root", <<0, 0>>), Call("missing", b)>>
    BY <1>4, Zenon DEF BlockEvent
  <2>2. /\ Call("final", b) \in SlotCall /\ Call("pending", <<0, 0>>) \in SlotCall
        /\ Call("root", <<0, 0>>) \in SlotCall /\ Call("missing", b) \in SlotCall
    BY <1>0, <1>2
  <2>3. todo' \in Seq(SlotCall)
    BY <1>0, <2>1, <2>2, FewCalls, Zenon
  <2>4. UNCHANGED <<shreds, timers, banks>> /\ arriving # <<>> /\ arriving' = Tail(arriving)
    BY <1>4 DEF BlockEvent
  <2>5. arriving' \in Seq(Block)
    BY <2>4 DEF Rest
  <2> QED
    BY <2>3, <2>4, <2>5 DEF Rest, Timed
<1>5. ASSUME NEW b \in Chain, BlockNotarized(b) \/ Finalized(b) PROVE Rest'
  <2>1. todo' = <<Call("final", b)>> \/ todo' = <<Call("root", <<0, 0>>), Call("missing", b)>>
    BY <1>5 DEF BlockNotarized, Finalized
  <2>2. /\ Call("final", b) \in SlotCall
        /\ Call("root", <<0, 0>>) \in SlotCall /\ Call("missing", b) \in SlotCall
    BY <1>0, <1>2, HandlerAssumption
  <2>3. UNCHANGED <<shreds, timers, banks, arriving>>
    BY <1>5 DEF BlockNotarized, Finalized, ledger, pool
  <2>4. todo' \in Seq(SlotCall)
    BY <2>1, <2>2, FewCalls, Zenon
  <2> QED
    BY <1>1, <2>3, <2>4
<1>6. ASSUME NEW s \in Slot, FirstShred(s) PROVE Rest'
  BY <1>6 DEF FirstShred, Rest, Timed, ledger, pool
<1>7. ASSUME NEW s \in Slot, NEW p, HandleParentReady(s, p) PROVE Rest'
  <2>1. todo' \in Seq(SlotCall)
    <3>1. todo' = <<Call("pending", <<0, 0>>)>>
      BY <1>7 DEF HandleParentReady
    <3> QED
      BY <1>0, <1>2, <3>1
  <2>2. Timed'
    BY <1>0, <1>7, TimedParentReady, SMTT(20), Zenon DEF HandleParentReady
  <2> QED
    BY <1>7, <2>1, <2>2 DEF HandleParentReady, Rest, ledger
<1>8. ASSUME NEW s \in Slot, TimerFires(s) PROVE Rest'
  <2> DEFINE t == IF timers[s] = LastOf(s) - s + 2 THEN s ELSE LastOf(s) + 1 - timers[s]
  <2>0. timers[s] > 0
    BY <1>8 DEF TimerFires
  <2>1. /\ timers[s] > 0 /\ timers[s] \in 0..(LastOf(s) - s + 2)
        /\ s \in Nat /\ MaxSlot \in Nat /\ LastOf(s) \in Nat /\ LastOf(s) <= MaxSlot
    <3>1. timers[s] \in 0..(LastOf(s) - s + 2)
      BY <1>0 DEF Timed
    <3>2. s \in Nat /\ MaxSlot \in Nat
      BY HandlerAssumption DEF Slot
    <3> QED
      BY <2>0, <3>1, <3>2, WindowOfSlot, Zenon
  <2>2. t \in Slot
    BY <2>1 DEF Slot
  <2>3. todo' = <<>> \/ todo' = SkipWindow(t)
    BY <1>8 DEF TimerFires
  <2>4. todo' \in Seq(SlotCall)
    BY <1>0, <1>3, <2>2, <2>3, SkipWindowSlots, Zenon
  <2>5. timers' = [timers EXCEPT ![s] = @ - 1]
    BY <1>8 DEF TimerFires
  <2>6. Timed'
    BY <1>0, <2>1, <2>5 DEF Timed, Ground
  <2> QED
    BY <1>8, <2>4, <2>6 DEF TimerFires, Rest, ledger, pool
<1>9. ASSUME NEW s \in Slot, NEW b \in Slot \X Nat, todo' = Append(SkipWindow(s), Call("fallback", b))
      PROVE  todo' \in Seq(SlotCall)
  <2>1. SkipWindow(s) \in Seq(SlotCall) /\ Call("fallback", b) \in SlotCall
    BY <1>0, <1>2, SkipWindowSlots, SMTT(20), Zenon
  <2> QED
    BY <1>9, <2>1
<1>10. ASSUME NEW b \in Block, SafeToNotar(b) PROVE Rest'
  BY <1>0, <1>1, <1>9, <1>10 DEF SafeToNotar, ledger, pool
<1>11. ASSUME NEW s \in Slot, SafeToSkip(s) PROVE Rest'
  <2>1. <<s, 0>> \in Slot \X Nat
    OBVIOUS
  <2> QED
    BY <1>1, <1>9, <1>11, <2>1, Zenon DEF SafeToSkip, ledger, pool
<1>12. ASSUME NEW s, Standstill(s) PROVE Rest'
  BY <1>0, <1>1, <1>12 DEF Standstill, handler, ledger
<1>13. ASSUME NEW s \in Slot, NEW p, ParentReady(s, p) PROVE Rest'
  BY <1>7, <1>13 DEF ParentReady
<1>14. ASSUME NEW b, KickOff(b) PROVE Rest'
  <2>1. root + 1 \in Slot
    BY <1>0, <1>14, HandlerAssumption DEF KickOff, Slot
  <2> QED
    BY <1>7, <1>14, <2>1 DEF KickOff
<1> QED
  BY <1>4, <1>5, <1>6, <1>8, <1>10, <1>11, <1>12, <1>13, <1>14, Zenon DEF Events

LEMMA RestStep ==
    ASSUME IInv, Ground, Rest, [Next]_vars
    PROVE  Rest'
<1>1. CASE UNCHANGED vars
  BY <1>1 DEF vars, handler, ledger, pool, Rest, Timed
<1>2. ASSUME StoreVote \/ Broadcast PROVE Rest'
  <2>1. UNCHANGED <<todo, shreds, timers, banks, arriving>>
    BY <1>2, Zenon DEF StoreVote, Broadcast, handler, ledger, pool
  <2> QED
    BY <2>1 DEF Rest, Timed
<1>4. ASSUME NEW b \in Block, Replay(b) PROVE Rest'
  <2>1. /\ UNCHANGED <<todo, shreds, timers>>
        /\ banks' = banks \cup {b} /\ arriving' = Append(arriving, b)
    BY <1>4 DEF Replay, handler, pool
  <2>2. arriving' \in Seq(Block)
    BY <2>1 DEF Rest
  <2> QED
    BY <2>1, <2>2 DEF Rest, Timed, Known
<1>5. ASSUME Crash PROVE Rest'
  <2>1. \A s \in Slot : 0 \in 0..(LastOf(s) - s + 2)
    <3>1. ASSUME NEW s \in Slot PROVE 0 <= LastOf(s) - s + 2 /\ LastOf(s) - s + 2 \in Int
      BY WindowOfSlot, HandlerAssumption DEF Slot
    <3> QED
      BY <3>1
  <2>2. \A s \in Slot : timers'[s] = 0
    BY <1>5 DEF Crash
  <2>3. Timed'
    BY <2>1, <2>2 DEF Timed
  <2>4. todo' = <<>> /\ shreds' = {} /\ arriving' = <<>> /\ UNCHANGED banks
    BY <1>5 DEF Crash
  <2> QED
    BY <2>3, <2>4 DEF Rest
<1> QED
  BY <1>1, <1>2, <1>4, <1>5, RestCalls, RestEvents DEF Next, Others

LEMMA RestInit ==
    ASSUME Init
    PROVE  Rest
<1>1. \A s \in Slot : 0 \in 0..(LastOf(s) - s + 2)
  <2>1. ASSUME NEW s \in Slot PROVE 0 <= LastOf(s) - s + 2 /\ LastOf(s) - s + 2 \in Int
    BY WindowOfSlot, HandlerAssumption DEF Slot
  <2> QED
    BY <2>1
<1>2. Timed
  BY <1>1 DEF Init, Timed
<1> QED
  BY <1>2 DEF Init, Rest, Known

LEMMA SpecRest == Spec => [](IInv /\ Ground /\ Rest)
<1>1. Init => IInv /\ Ground /\ Rest
  BY InitIInv, RestInit
<1>2. IInv /\ Ground /\ Rest /\ [Next]_vars => IInv' /\ Ground' /\ Rest'
  BY IInvStep, RestStep
<1> QED
  BY <1>1, <1>2, PTL DEF Spec

(* Every value of the handler, of its calls, of the stored history and of    *)
(* the timers has its type: the calls of an event stay inside the slots, a   *)
(* vote names a slot and a block, a timer counts down from the length of     *)
(* what is left of its window.                                               *)
THEOREM HandlerTyped == Spec => []TypeOK
<1>1. OurVote \subseteq Vote
  <2>1. ASSUME NEW v \in OurVote PROVE v \in Vote
    <3>1. CASE v \in [type : BlockTypes, block : Block]
      BY <3>1, HandlerAssumption DEF BlockTypes, Vote, Type
    <3>2. CASE v \in [type : SlotTypes, block : Slot \X {0}]
      BY <3>2 DEF SlotTypes, Vote, Type
    <3> QED
      BY <3>1, <3>2 DEF OurVote
  <2> QED
    BY <2>1
<1>2. \A g \in OurHistory : g \in History
  BY <1>1 DEF OurHistory, History
<1>3. ASSUME IInv, Ground, Rest PROVE TypeOK
  <2>1. \A i \in DOMAIN todo : todo[i][2] \in Slot \X Nat
    BY <1>3 DEF Rest, SlotCall
  <2>2. \A i \in DOMAIN ops : ops[i].vote \in Vote /\ ops[i].hist \in History
    <3>1. ASSUME NEW i \in DOMAIN ops PROVE ops[i].vote \in OurVote /\ ops[i].hist \in OurHistory
      <4>1. ops \in Seq(OurOp)
        BY <1>3 DEF IInv, Types
      <4>2. ops[i] \in OurOp
        BY <4>1
      <4> QED
        BY <4>2 DEF OurOp
    <3> QED
      BY <1>1, <1>2, <3>1
  <2>3. /\ h \in History /\ disk \in History /\ pending \subseteq Block /\ root \in Slot
        /\ released \in 0..Len(ops)
        /\ stored \subseteq Vote /\ sent \subseteq Vote /\ pooled \subseteq Vote
    BY <1>1, <1>2, <1>3 DEF IInv, Types
  <2>4. finalized \subseteq Block
    BY <1>1, <1>3 DEF Ground, Rest
  <2> QED
    BY <1>3, <2>1, <2>2, <2>3, <2>4 DEF Rest, Timed, TypeOK
<1> QED
  BY <1>3, SpecRest, PTL

-----------------------------------------------------------------------------
(* No slot is forgotten: a timer that still runs has its parent-ready slot   *)
(* in the history, so that a slot of which the history knows a parent either *)
(* has set the timer or finds it set.                                        *)
Armed == \A s \in Slot : timers[s] > 0 => s < h.root \/ \E e \in h.ready : e[1] = s

InReady(t) == \E e \in h.ready : e[1] \in FirstOf(t)..t
Queued(t)  == \E i \in DOMAIN todo : todo[i] = Call("skip", <<t, 0>>)
Due(t)     == \E s \in FirstOf(t)..t : timers[s] > LastOf(t) - t

Awaited == crashes = 0 => \A t \in Slot : InReady(t) => Voted(t) \/ root >= t \/ Queued(t) \/ Due(t)

Alive == crashes \in Nat /\ Armed /\ Awaited

LEMMA AwaitedIsNoSlotForgotten == Awaited <=> NoSlotForgotten
BY DEF Awaited, NoSlotForgotten, InReady, Queued, Due

(* More votes in the history keep a slot voted.                              *)
LEMMA VotedStays ==
    ASSUME NEW t, h.cast \subseteq h'.cast, Voted(t)
    PROVE  Voted(t)'
BY DEF Voted, Cast

(* A vote changes neither the parents that are ready nor the root.           *)
LEMMA CastVoteFields ==
    ASSUME h \in OurHistory, NEW v, CastVote(v)
    PROVE  h'.cast = h.cast \cup {v} /\ h'.ready = h.ready /\ h'.root = h.root
<1>1. h' = [h EXCEPT !.cast = @ \cup {v}]
  BY DEF CastVote
<1> QED
  BY <1>1 DEF OurHistory

(* A step that touches neither timers nor ready parents, and makes a skip    *)
(* that it takes from the calls.                                             *)
LEMMA AliveStill ==
    ASSUME Alive, h.cast \subseteq h'.cast, h'.ready = h.ready, h'.root = h.root,
           UNCHANGED <<root, timers, crashes>>,
           \A t \in Slot : Queued(t) => Queued(t)' \/ Voted(t)'
    PROVE  Alive'
<1>1. Armed'
  BY DEF Alive, Armed
<1>2. ASSUME crashes = 0, NEW t \in Slot, InReady(t)'
      PROVE  (Voted(t) \/ root >= t \/ Queued(t) \/ Due(t))'
  <2>1. InReady(t)
    BY <1>2 DEF InReady
  <2>2. Voted(t) \/ root >= t \/ Queued(t) \/ Due(t)
    BY <1>2, <2>1 DEF Alive, Awaited
  <2>3. Due(t) => Due(t)'
    BY DEF Due
  <2>4. Voted(t) => Voted(t)'
    BY VotedStays
  <2>5. root >= t => root' >= t
    OBVIOUS
  <2> QED
    BY <2>2, <2>3, <2>4, <2>5
<1>3. Awaited'
  BY <1>2 DEF Awaited
<1> QED
  BY <1>1, <1>3 DEF Alive

(* A call that is not the first of the calls stays among them.               *)
LEMMA QueuedThen ==
    ASSUME todo \in Seq(SlotCall), todo # <<>>, NEW calls \in Seq(SlotCall), Then(calls), NEW t,
           Queued(t)
    PROVE  Head(todo) = Call("skip", <<t, 0>>) \/ Queued(t)'
<1>1. PICK i \in DOMAIN todo : todo[i] = Call("skip", <<t, 0>>)
  BY DEF Queued
<1>2. CASE i = 1
  BY <1>1, <1>2
<1>3. CASE i # 1
  <2> DEFINE c == Call("skip", <<t, 0>>)
  <2>1. todo[i] = c
    BY <1>1
  <2> HIDE DEF c
  <2>2. Tail(todo) \in Seq(SlotCall) /\ i - 1 \in 1..Len(Tail(todo)) /\ Tail(todo)[i - 1] = c
    BY <1>1, <1>3, <2>1
  <2> DEFINE r == Tail(todo)
  <2>3. r \in Seq(SlotCall) /\ i - 1 \in 1..Len(r) /\ r[i - 1] = c
    BY <2>2
  <2> HIDE DEF r
  <2>4. Len(calls) + (i - 1) \in DOMAIN (calls \o r) /\ (calls \o r)[Len(calls) + (i - 1)] = c
    BY <2>3
  <2>5. todo' = calls \o r
    BY DEF Then, r
  <2> QED
    BY <2>4, <2>5, Zenon DEF Queued, c
<1> QED
  BY <1>2, <1>3

LEMMA NotSkip ==
    ASSUME NEW f, NEW b, NEW t, Doing(f, b), f # "skip"
    PROVE  Head(todo) # Call("skip", <<t, 0>>)
BY DEF Doing, Call

(* add_parent_ready() sets the timer for the slot and all later ones of its  *)
(* window, unless the slot has its timer or had it.                          *)
LEMMA AliveParentReady ==
    ASSUME IInv, Ground, Rest, Alive, NEW s \in Slot, NEW p, AddParentReady(s, p),
           UNCHANGED <<root, crashes>>,
           \A t \in Slot : Queued(t) => Queued(t)'
    PROVE  Alive'
<1>0. /\ h \in OurHistory /\ timers \in [Slot -> Int] /\ Armed /\ Awaited /\ crashes \in Nat
      /\ h.root \in Nat /\ s \in Nat
  BY HistoryNumbers, HandlerAssumption DEF IInv, Types, Ground, Alive, Slot
<1>1. CASE s < h.root
  <2>1. h' = h /\ timers' = timers
    BY <1>1 DEF AddParentReady
  <2> QED
    BY <2>1, AliveStill
<1>2. CASE ~(s < h.root)
  <2>1. h' = [h EXCEPT !.ready = @ \cup {<<s, p>>}]
    BY <1>2 DEF AddParentReady
  <2>2. h'.ready = h.ready \cup {<<s, p>>} /\ h'.cast = h.cast /\ h'.root = h.root
    BY <1>0, <2>1 DEF OurHistory
  <2>3. \/ timers' = timers /\ \E e \in h.ready : e[1] = s
        \/ timers' = [timers EXCEPT ![s] = LastOf(s) - s + 2]
    <3>1. timers[s] > 0 => \E e \in h.ready : e[1] = s
      BY <1>0, <1>2 DEF Armed
    <3> QED
      BY <1>2, <3>1 DEF AddParentReady
  <2>4. \A u \in Slot : u # s => timers'[u] = timers[u]
    BY <1>0, <2>3
  <2>5. Armed'
    <3>1. <<s, p>> \in h'.ready /\ <<s, p>>[1] = s
      BY <2>2
    <3>2. ASSUME NEW u \in Slot, timers'[u] > 0
          PROVE  u < h'.root \/ \E e \in h'.ready : e[1] = u
      <4>1. CASE u = s
        BY <3>1, <4>1
      <4>2. CASE u # s
        BY <1>0, <2>2, <2>4, <3>2, <4>2, SMTT(20) DEF Armed
      <4> QED
        BY <4>1, <4>2
    <3> QED
      BY <3>2 DEF Armed
  <2>6. ASSUME NEW t \in Slot, Due(t) PROVE Due(t)'
    <3>1. PICK u \in FirstOf(t)..t : timers[u] > LastOf(t) - t
      BY <2>6 DEF Due
    <3>2. u \in Slot /\ LastOf(u) = LastOf(t)
      BY SameWindow
    <3>3. CASE timers'[u] = timers[u]
      BY <3>1, <3>3 DEF Due
    <3>4. CASE timers'[u] # timers[u]
      <4>1. u = s /\ timers'[s] = LastOf(s) - s + 2
        BY <1>0, <2>3, <2>4, <3>2, <3>4
      <4>2. timers'[u] = LastOf(t) - u + 2
        BY <3>2, <4>1
      <4>3. LastOf(t) - u + 2 > LastOf(t) - t
        BY <3>2, WindowOfSlot, HandlerAssumption DEF Slot
      <4> QED
        BY <4>2, <4>3 DEF Due
    <3> QED
      BY <3>3, <3>4
  <2>7. ASSUME crashes = 0, NEW t \in Slot, InReady(t)'
        PROVE  (Voted(t) \/ root >= t \/ Queued(t) \/ Due(t))'
    <3>1. CASE InReady(t)
      <4>1. Voted(t) \/ root >= t \/ Queued(t) \/ Due(t)
        BY <1>0, <2>7, <3>1, SMTT(20), Zenon DEF Awaited
      <4>2. Voted(t) => Voted(t)'
        BY <2>2, VotedStays
      <4> QED
        BY <2>6, <4>1, <4>2
    <3>2. CASE ~InReady(t)
      <4>1. s \in FirstOf(t)..t
        <5>1. PICK e \in h'.ready : e[1] \in FirstOf(t)..t
          BY <2>7 DEF InReady
        <5>2. e \notin h.ready
          BY <3>2, <5>1 DEF InReady
        <5> QED
          BY <2>2, <5>1, <5>2, SMTT(20), Zenon
      <4>2. timers' = [timers EXCEPT ![s] = LastOf(s) - s + 2]
        BY <2>3, <3>2, <4>1 DEF InReady
      <4>3. timers'[s] = LastOf(t) - s + 2
        BY <1>0, <4>1, <4>2, SameWindow
      <4>4. LastOf(t) - s + 2 > LastOf(t) - t
        <5>1. s <= t /\ s \in Nat /\ t \in Nat /\ LastOf(t) \in Nat
          BY <1>0, <4>1, WindowOfSlot, HandlerAssumption DEF Slot
        <5> QED
          BY <5>1
      <4> QED
        BY <4>1, <4>3, <4>4 DEF Due
    <3> QED
      BY <3>1, <3>2
  <2>8. Awaited'
    BY <2>7 DEF Awaited
  <2> QED
    BY <1>0, <2>5, <2>8 DEF Alive
<1> QED
  BY <1>1, <1>2

(* The root moves: a slot above it keeps its votes and its timer.            *)
LEMMA AliveRoot ==
    ASSUME IInv, Ground, Rest, Alive, CheckRootableBlocks
    PROVE  Alive'
<1>0. h \in OurHistory /\ todo \in Seq(SlotCall) /\ root \in Nat /\ Armed /\ Awaited /\ crashes \in Nat
  BY HandlerAssumption DEF IInv, Types, Rest, Alive, Slot
<1>1. Doing("root", <<0, 0>>) /\ todo # <<>> /\ Then(<<>>) /\ UNCHANGED <<timers, crashes>>
  BY DEF CheckRootableBlocks, Doing, bounds
<1>2. ASSUME NEW t, Queued(t) PROVE Queued(t)'
  <2>1. <<>> \in Seq(SlotCall)
    OBVIOUS
  <2> QED
    BY <1>0, <1>1, <1>2, <2>1, QueuedThen, NotSkip, Zenon
<1>3. CASE UNCHANGED <<h, root>>
  BY <1>1, <1>2, <1>3, AliveStill
<1>4. ASSUME NEW b \in Rootable, h' = SetHistoryRoot(b[1]), root' = b[1]
      PROVE  Alive'
  <2>1. b[1] \in Nat /\ b[1] > root
    BY BlockVotes DEF Ground, Rootable, BlockTypes
  <2>2. /\ h'.cast = {v \in h.cast : SlotOf(v) >= b[1]}
        /\ h'.ready = {e \in h.ready : e[1] >= b[1]} /\ h'.root = b[1]
    BY <1>4 DEF SetHistoryRoot
  <2>3. ASSUME NEW s \in Slot, timers'[s] > 0 PROVE s < h'.root \/ \E e \in h'.ready : e[1] = s
    <3>1. CASE s < b[1]
      BY <2>2, <3>1
    <3>2. CASE s >= b[1]
      <4>1. h.root <= root /\ h.root \in Nat /\ s \in Nat
        BY <1>0, HistoryNumbers, HandlerAssumption DEF IInv, Work, Slot
      <4>2. ~(s < h.root)
        BY <1>0, <2>1, <3>2, <4>1
      <4>3. PICK e \in h.ready : e[1] = s
        BY <1>0, <1>1, <2>3, <4>2 DEF Armed
      <4> QED
        BY <2>2, <3>2, <4>3, SMTT(20), Zenon
    <3>3. s \in Nat
      BY HandlerAssumption DEF Slot
    <3> QED
      BY <2>1, <3>1, <3>2, <3>3
  <2>4. ASSUME crashes = 0, NEW t \in Slot, InReady(t)'
        PROVE  (Voted(t) \/ root >= t \/ Queued(t) \/ Due(t))'
    <3>1. t \in Nat
      BY HandlerAssumption DEF Slot
    <3>2. CASE t <= b[1]
      BY <1>4, <2>1, <3>1, <3>2
    <3>3. CASE t > b[1]
      <4>1. InReady(t) /\ ~(root >= t)
        BY <1>0, <2>1, <2>2, <2>4, <3>1, <3>3 DEF InReady
      <4>2. Voted(t) \/ Queued(t) \/ Due(t)
        BY <1>0, <2>4, <4>1 DEF Awaited
      <4>3. Voted(t) => Voted(t)'
        BY <2>1, <2>2, <3>1, <3>3 DEF Voted, Cast
      <4>4. Due(t) => Due(t)'
        BY <1>1 DEF Due
      <4> QED
        BY <1>2, <4>2, <4>3, <4>4, SMTT(20), Zenon
    <3> QED
      BY <2>1, <3>1, <3>2, <3>3
  <2>5. Armed' /\ Awaited'
    BY <1>1, <2>3, <2>4 DEF Armed, Awaited
  <2> QED
    BY <1>0, <1>1, <2>5 DEF Alive
<1> QED
  BY <1>3, <1>4 DEF CheckRootableBlocks

(* A timer gives up the Timeout of a slot for the calls that skip it.        *)
LEMMA AliveTimer ==
    ASSUME IInv, Ground, Rest, Alive, NEW s \in Slot, TimerFires(s)
    PROVE  Alive'
<1> DEFINE t == IF timers[s] = LastOf(s) - s + 2 THEN s ELSE LastOf(s) + 1 - timers[s]
<1>0. /\ timers \in [Slot -> Int] /\ Armed /\ Awaited /\ crashes \in Nat /\ root \in Slot /\ root \in Nat
      /\ todo = <<>> /\ UNCHANGED <<h, root, crashes>>
  BY HandlerAssumption, SMTT(20), Zenon DEF IInv, Types, Ground, Alive, Slot, TimerFires, Idle, ledger, bounds
<1>1. /\ timers[s] > 0 /\ timers' = [timers EXCEPT ![s] = @ - 1]
      /\ todo' = IF t <= root \/ Voted(t) \/ (timers[s] = LastOf(s) - s + 2 /\ t \in shreds)
                 THEN <<>> ELSE SkipWindow(t)
  BY DEF TimerFires
<1>2. /\ timers[s] \in 0..(LastOf(s) - s + 2)
      /\ s \in Nat /\ MaxSlot \in Nat /\ LastOf(s) \in Nat /\ LastOf(s) <= MaxSlot /\ s <= LastOf(s)
  <2>1. timers[s] \in 0..(LastOf(s) - s + 2)
    BY DEF Rest, Timed
  <2>2. s \in Nat /\ MaxSlot \in Nat
    BY HandlerAssumption DEF Slot
  <2> QED
    BY <2>1, <2>2, WindowOfSlot, Zenon
<1>3. t \in Slot
  BY <1>1, <1>2 DEF Slot
<1>4. Armed'
  <2>1. \A u \in Slot : timers'[u] > 0 => timers[u] > 0
    BY <1>0, <1>1, <1>2
  <2> QED
    BY <1>0, <2>1, SMTT(20), Zenon DEF Armed
<1>5. ASSUME NEW u \in Slot, Due(u), ~(root >= u), ~Voted(u) PROVE Queued(u)' \/ Due(u)'
  <2>1. PICK r \in FirstOf(u)..u : timers[r] > LastOf(u) - u
    BY <1>5 DEF Due
  <2>2. r \in Slot /\ LastOf(r) = LastOf(u)
    BY SameWindow
  <2>3. u \in Nat /\ r \in Nat /\ r <= u /\ LastOf(u) \in Nat /\ u <= LastOf(u) /\ FirstOf(u) \in Nat /\ FirstOf(u) <= u
    BY <2>2, WindowOfSlot, HandlerAssumption DEF Slot
  <2>4. CASE timers'[r] > LastOf(u) - u
    BY <2>4 DEF Due
  <2>5. CASE ~(timers'[r] > LastOf(u) - u)
    <3>1. r = s
      BY <1>0, <1>1, <2>1, <2>2, <2>5, SMTT(20)
    <3>2. timers'[s] = timers[s] - 1
      BY <1>0, <1>1
    <3>3. timers[s] = LastOf(u) - u + 1
      BY <1>2, <2>1, <2>3, <2>5, <3>1, <3>2
    <3>4. LastOf(s) = LastOf(u) /\ s <= u
      BY <2>2, <2>3, <3>1, SMTT(20), Zenon
    <3>5. t = u /\ timers[s] # LastOf(s) - s + 2
      BY <1>2, <2>3, <3>3, <3>4
    <3>6. ~(u <= root)
      BY <1>0, <1>5, <2>3
    <3>7. todo' = SkipWindow(u)
      BY <1>1, <1>5, <3>5, <3>6, Zenon
    <3>8. u \in FirstOf(u)..LastOf(u) /\ u > root
      BY <1>0, <2>3, <3>6
    <3>9. \E i \in DOMAIN SkipWindow(u) : SkipWindow(u)[i] = Call("skip", <<u, 0>>)
      BY <1>0, <3>8, SkipWindowSlots
    <3> QED
      BY <3>7, <3>9 DEF Queued
  <2> QED
    BY <2>4, <2>5
<1>6. ASSUME crashes = 0, NEW u \in Slot, InReady(u)'
      PROVE  (Voted(u) \/ root >= u \/ Queued(u) \/ Due(u))'
  <2>1. InReady(u)
    BY <1>0, <1>6 DEF InReady
  <2>2. ~Queued(u)
    BY <1>0 DEF Queued
  <2>3. Voted(u) \/ root >= u \/ Due(u)
    BY <1>0, <1>6, <2>1, <2>2 DEF Awaited
  <2>4. (Voted(u) => Voted(u)') /\ (root >= u => root' >= u)
    BY <1>0 DEF Voted, Cast
  <2> QED
    BY <1>5, <2>3, <2>4
<1>7. Awaited'
  BY <1>0, <1>6 DEF Awaited
<1> QED
  BY <1>0, <1>4, <1>7, SMTT(20), Zenon DEF Alive

LEMMA AliveCalls ==
    ASSUME IInv, Ground, Rest, Alive, Calls
    PROVE  Alive'
<1>0. h \in OurHistory /\ todo \in Seq(SlotCall) /\ <<>> \in Seq(SlotCall) /\ pending \subseteq Block
  BY DEF IInv, Types, Rest
<1>1. ASSUME NEW v, CastVote(v) PROVE h.cast \subseteq h'.cast /\ h'.ready = h.ready /\ h'.root = h.root
  BY <1>0, <1>1, CastVoteFields
<1>2. ASSUME NEW f, NEW b, Doing(f, b), f # "skip", NEW calls \in Seq(SlotCall), Then(calls), NEW t, Queued(t)
      PROVE  Queued(t)'
  <2>1. todo # <<>> /\ Head(todo) # Call("skip", <<t, 0>>)
    BY <1>2, NotSkip, SMTT(20), Zenon DEF Doing
  <2> QED
    BY <1>0, <1>2, <2>1, QueuedThen
<1>3. ASSUME NEW b \in Block, TryNotar(b) PROVE Alive'
  <2>1. /\ Doing("notar", b) /\ (Then(<<Call("final", b)>>) \/ Then(<<>>))
        /\ UNCHANGED <<root, timers, crashes>>
    BY <1>3 DEF TryNotar, ledger, bounds
  <2>2. h.cast \subseteq h'.cast /\ h'.ready = h.ready /\ h'.root = h.root
    BY <1>1, <1>3 DEF TryNotar
  <2>3. <<Call("final", b)>> \in Seq(SlotCall)
    BY HandlerAssumption DEF SlotCall, Call
  <2>4. \A t \in Slot : Queued(t) => Queued(t)'
    BY <1>0, <1>2, <2>1, <2>3, Zenon
  <2> QED
    BY <2>1, <2>2, <2>4, AliveStill
<1>4. ASSUME NEW b, TryFinal(b) PROVE Alive'
  <2>1. Doing("final", b) /\ Then(<<>>) /\ UNCHANGED <<root, timers, crashes>>
    BY <1>4, SMTT(20), Zenon DEF TryFinal, ledger, bounds
  <2>2. h.cast \subseteq h'.cast /\ h'.ready = h.ready /\ h'.root = h.root
    BY <1>1, <1>4, Zenon DEF TryFinal
  <2>3. \A t \in Slot : Queued(t) => Queued(t)'
    BY <1>0, <1>2, <2>1, Zenon
  <2> QED
    BY <2>1, <2>2, <2>3, AliveStill, Zenon
<1>5. ASSUME NEW b, Fallback(b) PROVE Alive'
  <2>1. Doing("fallback", b) /\ Then(<<>>) /\ UNCHANGED <<root, timers, crashes>>
    BY <1>5, Zenon DEF Fallback, ledger, bounds
  <2>2. UNCHANGED h \/ \E v : CastVote(v)
    BY <1>5, Zenon DEF Fallback
  <2>3. h.cast \subseteq h'.cast /\ h'.ready = h.ready /\ h'.root = h.root
    BY <1>1, <2>2
  <2>4. \A t \in Slot : Queued(t) => Queued(t)'
    BY <1>0, <1>2, <2>1, Zenon
  <2> QED
    BY <2>1, <2>3, <2>4, AliveStill
<1>6. ASSUME NEW s \in Slot, TrySkip(s) PROVE Alive'
  <2>1. /\ todo # <<>> /\ Head(todo) = Call("skip", <<s, 0>>) /\ Then(<<>>)
        /\ UNCHANGED <<root, timers, crashes>>
    BY <1>6, SMTT(20), Zenon DEF TrySkip, Doing, ledger, bounds
  <2>2. h.cast \subseteq h'.cast /\ h'.ready = h.ready /\ h'.root = h.root
    BY <1>1, <1>6 DEF TrySkip
  <2>3. Voted(s)'
    <3>1. CASE Voted(s)
      BY <2>2, <3>1, VotedStays
    <3>2. CASE ~Voted(s)
      <4>1. h'.cast = h.cast \cup {SlotVote("Skip", s)}
        BY <1>0, <1>6, <3>2, CastVoteFields, Zenon DEF TrySkip
      <4>2. SlotVote("Skip", s).type = "Skip" /\ SlotOf(SlotVote("Skip", s)) = s
        BY DEF SlotVote, SlotOf
      <4> QED
        BY <4>1, <4>2, SMTT(20), Zenon DEF Voted, Cast
    <3> QED
      BY <3>1, <3>2
  <2>4. ASSUME NEW t \in Slot, Queued(t) PROVE Queued(t)' \/ Voted(t)'
    <3>1. CASE t = s
      BY <2>3, <3>1
    <3>2. CASE t # s
      <4>1. Head(todo) # Call("skip", <<t, 0>>)
        BY <2>1, <3>2, SMTT(20), Zenon DEF Call
      <4> QED
        BY <1>0, <2>1, <2>4, <4>1, QueuedThen, Zenon
    <3> QED
      BY <3>1, <3>2
  <2> QED
    BY <2>1, <2>2, <2>4, AliveStill
<1>7. ASSUME NEW b \in Block, AddMissingParentReady(b) PROVE Alive'
  <2>1. /\ Doing("missing", b) /\ (Then(<<Call("pending", <<0, 0>>)>>) \/ Then(<<>>))
        /\ UNCHANGED <<root, crashes>>
    BY <1>7, Zenon DEF AddMissingParentReady, ledger, bounds
  <2>2. <<Call("pending", <<0, 0>>)>> \in Seq(SlotCall)
    BY HandlerAssumption DEF SlotCall, Call, Slot
  <2>3. \A t \in Slot : Queued(t) => Queued(t)'
    BY <1>0, <1>2, <2>1, <2>2, Zenon
  <2>4. CASE AddParentReady(b[1], Parent[b])
    BY <2>1, <2>3, <2>4, AliveParentReady, BlockVotes DEF BlockTypes
  <2>5. CASE UNCHANGED <<h, timers>>
    <3>1. /\ h.cast \subseteq h'.cast /\ h'.ready = h.ready /\ h'.root = h.root
          /\ UNCHANGED <<root, timers, crashes>>
      BY <2>1, <2>5
    <3> QED
      BY <2>3, <3>1, AliveStill, Zenon
  <2> QED
    BY <1>7, <2>4, <2>5, Zenon DEF AddMissingParentReady
<1>8. ASSUME CheckPendingBlocks PROVE Alive'
  <2>1. PICK calls \in PendingCalls : Then(calls)
    BY <1>8 DEF CheckPendingBlocks
  <2>2. calls \in Seq(SlotCall)
    BY <1>0, PendingSlots
  <2>3. Doing("pending", <<0, 0>>) /\ UNCHANGED <<h, root, timers, crashes>>
    BY <1>8 DEF CheckPendingBlocks, ledger, bounds
  <2>4. \A t \in Slot : Queued(t) => Queued(t)'
    BY <1>2, <2>1, <2>2, <2>3, SMTT(20), Zenon
  <2> QED
    BY <2>3, <2>4, AliveStill
<1>9. ASSUME SendVotes PROVE Alive'
  <2>1. UNCHANGED <<h, todo, root, timers, crashes>>
    BY <1>9 DEF SendVotes, handler, ledger, bounds
  <2> QED
    BY <2>1, AliveStill DEF Queued
<1> QED
  BY <1>3, <1>4, <1>5, <1>6, <1>7, <1>8, <1>9, AliveRoot, Zenon DEF Calls

LEMMA AliveEvents ==
    ASSUME IInv, Ground, Rest, Alive, Events
    PROVE  Alive'
<1>0. h \in OurHistory /\ root \in Slot
  BY DEF IInv, Types
<1>1. ASSUME todo = <<>>, NEW t PROVE ~Queued(t)
  BY <1>1 DEF Queued
<1>2. ASSUME Idle, h.cast \subseteq h'.cast, h'.ready = h.ready, h'.root = h.root,
             UNCHANGED <<root, timers, crashes>>
      PROVE  Alive'
  BY <1>1, <1>2, AliveStill DEF Idle
<1>3. ASSUME NEW b, BlockEvent(b) PROVE Alive'
  <2>1. Idle /\ UNCHANGED <<root, timers, crashes>> /\ (UNCHANGED h \/ \E v : CastVote(v))
    BY <1>3, Zenon DEF BlockEvent, bounds
  <2>2. h.cast \subseteq h'.cast /\ h'.ready = h.ready /\ h'.root = h.root
    BY <1>0, <2>1, CastVoteFields
  <2> QED
    BY <1>2, <2>1, <2>2
<1>4. ASSUME NEW b, BlockNotarized(b) PROVE Alive'
  <2>1. Idle /\ UNCHANGED <<root, timers, crashes>> /\ h' = [h EXCEPT !.notarized = @ \cup {b}]
    BY <1>4 DEF BlockNotarized, ledger, bounds
  <2>2. h'.cast = h.cast /\ h'.ready = h.ready /\ h'.root = h.root
    BY <1>0, <2>1 DEF OurHistory
  <2> QED
    BY <1>2, <2>1, <2>2
<1>5. ASSUME NEW b, SafeToNotar(b) \/ SafeToSkip(b) \/ Finalized(b) \/ FirstShred(b) PROVE Alive'
  <2>1. Idle /\ UNCHANGED <<h, root, timers, crashes>>
    BY <1>5, Zenon DEF SafeToNotar, SafeToSkip, Finalized, FirstShred, ledger, bounds
  <2> QED
    BY <1>2, <2>1
<1>6. ASSUME NEW s, Standstill(s) PROVE Alive'
  <2>1. Idle /\ UNCHANGED <<h, root, timers, crashes>>
    BY <1>6 DEF Standstill, handler, ledger
  <2> QED
    BY <1>2, <2>1
<1>7. ASSUME NEW s \in Slot, NEW p, HandleParentReady(s, p) PROVE Alive'
  <2>1. AddParentReady(s, p) /\ todo = <<>> /\ UNCHANGED <<root, crashes>>
    BY <1>7 DEF HandleParentReady, Idle, ledger, bounds
  <2>2. \A t \in Slot : Queued(t) => Queued(t)'
    BY <1>1, <2>1
  <2> QED
    BY <2>1, <2>2, AliveParentReady
<1>8. ASSUME NEW s \in Slot, NEW p, ParentReady(s, p) PROVE Alive'
  BY <1>7, <1>8 DEF ParentReady
<1>9. ASSUME NEW b, KickOff(b) PROVE Alive'
  <2>1. root + 1 \in Slot
    BY <1>0, <1>9, HandlerAssumption DEF KickOff, Slot
  <2> QED
    BY <1>7, <1>9, <2>1 DEF KickOff
<1> QED
  BY <1>3, <1>4, <1>5, <1>6, <1>8, <1>9, AliveTimer, Zenon DEF Events

LEMMA AliveStep ==
    ASSUME IInv, Ground, Rest, Alive, [Next]_vars
    PROVE  Alive'
<1>1. ASSUME UNCHANGED <<h, todo, root, timers, crashes>> PROVE Alive'
  BY <1>1, AliveStill DEF Queued
<1>2. CASE UNCHANGED vars
  BY <1>1, <1>2 DEF vars, handler, ledger, bounds
<1>3. ASSUME NEW v, StoreVote \/ Broadcast \/ Replay(v) PROVE Alive'
  <2>1. UNCHANGED <<h, todo, root, timers, crashes>>
    BY <1>3, Zenon DEF StoreVote, Broadcast, Replay, handler, ledger, bounds
  <2> QED
    BY <1>1, <2>1
<1>4. ASSUME Crash PROVE Alive'
  <2>1. crashes' \in Nat /\ crashes' # 0
    BY <1>4 DEF Crash, Alive
  <2>2. \A s \in Slot : ~(timers'[s] > 0)
    BY <1>4 DEF Crash
  <2> QED
    BY <2>1, <2>2, Zenon DEF Alive, Armed, Awaited
<1> QED
  BY <1>2, <1>3, <1>4, AliveCalls, AliveEvents, Zenon DEF Next, Others

(* While the process lives, a slot of a window with a ready parent always    *)
(* has its vote ahead of it or behind it: whatever the order of the events,  *)
(* whenever the root moves and however many timers of the window run, the    *)
(* skip that the timer or another event still owes it is not lost.           *)
THEOREM NoSlotIsForgotten == Spec => []NoSlotForgotten
<1>1. ASSUME Init PROVE Alive
  <2>1. crashes = 0 /\ h.ready = {} /\ \A s \in Slot : ~(timers[s] > 0)
    BY <1>1 DEF Init, NewHistory
  <2> QED
    BY <2>1 DEF Alive, Armed, Awaited, InReady
<1>2. IInv /\ Ground /\ Rest /\ Alive /\ [Next]_vars => IInv' /\ Ground' /\ Rest' /\ Alive'
  BY IInvStep, RestStep, AliveStep
<1>3. Init => IInv /\ Ground /\ Rest /\ Alive
  BY <1>1, InitIInv, RestInit
<1>4. Alive => NoSlotForgotten
  BY AwaitedIsNoSlotForgotten DEF Alive
<1> QED
  BY <1>2, <1>3, <1>4, PTL DEF Spec

-----------------------------------------------------------------------------
(* The rules by which SlotAgreement lets a voter vote, for its own votes.    *)
(* The handler looks at the first vote of a slot when SafeToNotar or         *)
(* SafeToSkip is raised, and not again when the fallback vote is cast.       *)
ByTheRules(v) ==
    /\ v.type \in {"Notarize", "Skip"} => ~Voted(SlotOf(v))
    /\ v.type = "Finalize" =>
          /\ ~ItsOver(SlotOf(v)) /\ ~BadWindow(SlotOf(v))
          /\ \E b \in h.notarized : b[1] = SlotOf(v) /\ BlockVote("Notarize", b) \in h.cast
    /\ v.type = "NotarizeFallback" =>
          /\ ~ItsOver(SlotOf(v)) /\ Voted(SlotOf(v))
          /\ BlockVote("Notarize", v.block) \notin h.cast
    /\ v.type = "SkipFallback" => ~ItsOver(SlotOf(v)) /\ Cast("Notarize", SlotOf(v))

(* A step adds a vote only by the rules; a restart may bring back votes that *)
(* were below the root.                                                      *)
Lawful == \A v \in h'.cast \ h.cast : SlotOf(v) >= h.root => ByTheRules(v)

LEMMA LawfulStill ==
    ASSUME h'.cast \subseteq h.cast
    PROVE  Lawful
BY DEF Lawful

LEMMA LawfulCast ==
    ASSUME h \in OurHistory, NEW v, CastVote(v), ByTheRules(v)
    PROVE  Lawful
<1>1. h'.cast = h.cast \cup {v}
  BY CastVoteFields
<1> QED
  BY <1>1 DEF Lawful

LEMMA LawfulNotar ==
    ASSUME h \in OurHistory, NEW b \in Block, MayNotarize(b), CastVote(BlockVote("Notarize", b))
    PROVE  Lawful
<1>1. SlotOf(BlockVote("Notarize", b)) = b[1] /\ BlockVote("Notarize", b).type = "Notarize"
  BY DEF BlockVote, SlotOf
<1>2. ~Voted(b[1])
  BY SMTT(20), Zenon DEF MayNotarize
<1>3. ByTheRules(BlockVote("Notarize", b))
  BY <1>1, <1>2, Zenon DEF ByTheRules
<1> QED
  BY <1>3, LawfulCast

LEMMA LawfulFinal ==
    ASSUME h \in OurHistory, NEW b \in Block, MayFinalize(b), CastVote(SlotVote("Finalize", b[1]))
    PROVE  Lawful
<1> DEFINE v == SlotVote("Finalize", b[1])
<1>1. SlotOf(v) = b[1] /\ v.type = "Finalize"
  BY SMTT(20), Zenon DEF SlotVote, SlotOf
<1> HIDE DEF v
<1>2. ByTheRules(v)
  BY <1>1 DEF ByTheRules, MayFinalize
<1> QED
  BY <1>2, LawfulCast DEF v

LEMMA LawfulSkip ==
    ASSUME h \in OurHistory, NEW s \in Slot, ~Voted(s), CastVote(SlotVote("Skip", s))
    PROVE  Lawful
<1> DEFINE v == SlotVote("Skip", s)
<1>1. SlotOf(v) = s /\ v.type = "Skip"
  BY SMTT(20), Zenon DEF SlotVote, SlotOf
<1> HIDE DEF v
<1>2. ByTheRules(v)
  BY <1>1, Zenon DEF ByTheRules
<1> QED
  BY <1>2, LawfulCast DEF v

(* The first vote that the fallback vote follows is still the only one.      *)
LEMMA LawfulFallback ==
    ASSUME IInv, NEW b, b \in Block \/ b \in Slot \X {0}, Fallback(b)
    PROVE  Lawful
<1>0. h \in OurHistory /\ h.cast \subseteq OurVote /\ \A x, y \in h.cast : ~Conflict(x, y)
  BY HistoryNumbers, Zenon DEF IInv, Types, Histories, Sane
<1>1. GoodTodo(todo, h) /\ todo # <<>> /\ Head(todo) = <<"fallback", b>>
  BY DEF IInv, Work, Fallback, Doing, Call
<1>2. FirstFor(b, h)
  BY <1>1, HeadSane DEF CallSane
<1>3. PICK w \in h.cast : /\ SlotOf(w) = b[1]
                          /\ \/ w.type = "Notarize" /\ w.block # b
                             \/ w.type = "Skip" /\ b[2] # 0
  BY <1>2 DEF FirstFor
<1>4. Voted(b[1])
  BY <1>3, SMTT(20) DEF Voted, Cast
<1> DEFINE v == IF b[2] = 0 THEN SlotVote("SkipFallback", b[1]) ELSE BlockVote("NotarizeFallback", b)
<1>5. CASE ItsOver(b[1]) \/ v \in h.cast
  BY <1>5, LawfulStill DEF Fallback
<1>6. CASE ~ItsOver(b[1]) /\ v \notin h.cast
  <2>1. CastVote(v)
    BY <1>6 DEF Fallback
  <2>2. CASE b[2] = 0
    <3>1. SlotOf(v) = b[1] /\ v.type = "SkipFallback"
      BY <2>2 DEF SlotVote, SlotOf
    <3>2. Cast("Notarize", b[1])
      BY <1>3, <2>2, SMTT(20) DEF Cast
    <3> HIDE DEF v
    <3>3. ByTheRules(v)
      BY <1>6, <3>1, <3>2, Zenon DEF ByTheRules
    <3> QED
      BY <1>0, <2>1, <3>3, LawfulCast, SMTT(20), Zenon
  <2>3. CASE b[2] # 0
    <3>1. SlotOf(v) = b[1] /\ v.type = "NotarizeFallback" /\ v.block = b
      BY <2>3 DEF BlockVote, SlotOf
    <3>2. BlockVote("Notarize", b) \notin h.cast
      <4>1. SUFFICES ASSUME BlockVote("Notarize", b) \in h.cast PROVE FALSE
        BY SMTT(20)
      <4> DEFINE x == BlockVote("Notarize", b)
      <4>2. x.type = "Notarize" /\ x.block = b /\ SlotOf(x) = b[1] /\ x \in h.cast
        BY <4>1, Zenon DEF BlockVote, SlotOf
      <4> HIDE DEF x
      <4>3. x # w /\ w.type \in FirstTypes /\ x.type \in FirstTypes
        BY <1>3, <4>2, SMTT(20), Zenon DEF FirstTypes
      <4> QED
        BY <1>0, <1>3, <4>2, <4>3, FirstVotesConflict
    <3> HIDE DEF v
    <3>3. ByTheRules(v)
      BY <1>4, <1>6, <3>1, <3>2 DEF ByTheRules
    <3> QED
      BY <1>0, <2>1, <3>3, LawfulCast
  <2> QED
    BY <2>2, <2>3, SMTT(20), Zenon
<1> QED
  BY <1>5, <1>6, SMTT(20), Zenon

LEMMA LawfulStep ==
    ASSUME IInv, [Next]_vars
    PROVE  Lawful
<1>0. h \in OurHistory /\ disk \in OurHistory /\ Older(disk, h) /\ root \in Nat
  BY HandlerAssumption DEF IInv, Types, Histories, Slot
<1>1. ASSUME UNCHANGED h PROVE Lawful
  BY <1>1, LawfulStill
<1>2. CASE UNCHANGED vars
  BY <1>1, <1>2 DEF vars, handler
<1>3. CASE Calls
  <2>1. ASSUME NEW b \in Block, TryNotar(b) PROVE Lawful
    BY <1>0, <1>1, <2>1, LawfulNotar, Zenon DEF TryNotar
  <2>2. ASSUME NEW b \in Block, TryFinal(b) PROVE Lawful
    BY <1>0, <1>1, <2>2, LawfulFinal, SMTT(20) DEF TryFinal
  <2>3. ASSUME NEW s \in Slot, TrySkip(s) PROVE Lawful
    BY <1>0, <1>1, <2>3, LawfulSkip DEF TrySkip
  <2>4. ASSUME NEW b \in Block, Fallback(b) PROVE Lawful
    BY <2>4, LawfulFallback
  <2>5. ASSUME NEW s \in Slot, Fallback(<<s, 0>>) PROVE Lawful
    <3>1. <<s, 0>> \in Slot \X {0}
      OBVIOUS
    <3> QED
      BY <2>5, <3>1, LawfulFallback
  <2>6. ASSUME NEW b, AddMissingParentReady(b) PROVE Lawful
    <3>1. h'.cast = h.cast
      BY <1>0, <2>6 DEF AddMissingParentReady, AddParentReady, OurHistory
    <3> QED
      BY <3>1, LawfulStill
  <2>7. ASSUME CheckRootableBlocks PROVE Lawful
    <3>1. UNCHANGED h \/ \E b \in Rootable : h' = SetHistoryRoot(b[1])
      BY <2>7 DEF CheckRootableBlocks
    <3>2. h'.cast \subseteq h.cast
      BY <3>1 DEF SetHistoryRoot
    <3> QED
      BY <3>2, LawfulStill, SMTT(20), Zenon
  <2>8. ASSUME CheckPendingBlocks \/ SendVotes PROVE Lawful
    BY <1>1, <2>8 DEF CheckPendingBlocks, SendVotes, handler
  <2> QED
    BY <1>3, <2>1, <2>2, <2>3, <2>4, <2>5, <2>6, <2>7, <2>8, Zenon DEF Calls
<1>4. CASE Events
  <2>1. ASSUME NEW b \in Block, BlockEvent(b) PROVE Lawful
    <3>1. UNCHANGED h \/ (MayNotarize(b) /\ CastVote(BlockVote("Notarize", b)))
      BY <2>1, Zenon DEF BlockEvent
    <3> QED
      BY <1>0, <1>1, <3>1, LawfulNotar
  <2>2. ASSUME NEW b, BlockNotarized(b) PROVE Lawful
    <3>1. h'.cast = h.cast
      BY <1>0, <2>2 DEF BlockNotarized, OurHistory
    <3> QED
      BY <3>1, LawfulStill
  <2>3. ASSUME NEW b, \/ SafeToNotar(b) \/ SafeToSkip(b) \/ Finalized(b) \/ FirstShred(b)
                      \/ TimerFires(b)
        PROVE Lawful
    BY <1>1, <2>3, Zenon DEF SafeToNotar, SafeToSkip, Finalized, FirstShred, TimerFires
  <2>4. ASSUME NEW b, Standstill(b) PROVE Lawful
    BY <1>1, <2>4 DEF Standstill, handler
  <2>5. ASSUME NEW s, NEW p, HandleParentReady(s, p) PROVE Lawful
    <3>1. h'.cast = h.cast
      BY <1>0, <2>5 DEF HandleParentReady, AddParentReady, OurHistory
    <3> QED
      BY <3>1, LawfulStill
  <2>6. ASSUME NEW s, NEW p, ParentReady(s, p) PROVE Lawful
    BY <2>5, <2>6 DEF ParentReady
  <2>7. ASSUME NEW b, KickOff(b) PROVE Lawful
    BY <2>5, <2>7 DEF KickOff
  <2> QED
    BY <1>4, <2>1, <2>2, <2>3, <2>4, <2>6, <2>7, Zenon DEF Events
<1>5. CASE Others
  <2>1. ASSUME NEW v, StoreVote \/ Broadcast \/ Replay(v) PROVE Lawful
    BY <1>1, <2>1, Zenon DEF StoreVote, Broadcast, Replay, handler
  <2>2. ASSUME Crash PROVE Lawful
    <3>1. h' = disk
      BY <2>2 DEF Crash
    <3> QED
      BY <1>0, <3>1 DEF Older, Lawful
  <2> QED
    BY <1>5, <2>1, <2>2, Zenon DEF Others
<1> QED
  BY <1>2, <1>3, <1>4, <1>5, SMTT(20), Zenon DEF Next

(* Every vote of a node follows the rules that SlotAgreement gives its       *)
(* voters, also the fallback votes: between the event that looks at the      *)
(* first vote and the cast there are the skips of the window, and nothing    *)
(* changes the first vote meanwhile.                                         *)
THEOREM VotesByTheRules == Spec => [][Lawful]_vars
<1>1. Init => IInv /\ Ground
  BY InitIInv
<1>2. IInv /\ Ground /\ [Next]_vars => IInv' /\ Ground'
  BY IInvStep
<1>3. IInv /\ [Next]_vars => [Lawful]_vars
  BY LawfulStep
<1> QED
  BY <1>1, <1>2, <1>3, PTL DEF Spec
=============================================================================
