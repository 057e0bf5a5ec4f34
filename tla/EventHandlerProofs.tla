-------------------------- MODULE EventHandlerProofs --------------------------
(***************************************************************************)
(* What a node broadcasts never contradicts itself: proved for any number   *)
(* of slots, blocks and crashes.                                            *)
(*                                                                         *)
(* The argument: every vote history (the live one, the snapshots that wait  *)
(* in the channel, the stored one) is free of conflicts, and they are       *)
(* ordered by time: an older history is contained in a younger one, up to   *)
(* the younger one's root.  A vote goes out when a history that contains it *)
(* is stored, so the stored history knows every vote that is out and not    *)
(* below its root, and a restart begins with it.                            *)
(***************************************************************************)
EXTENDS EventHandler, FiniteSetTheorems, TLAPS

BlockTypes == {"Notarize", "NotarizeFallback"}
SlotTypes  == {"Finalize", "Skip", "SkipFallback"}
OurVote == [type : BlockTypes, block : Block] \cup [type : SlotTypes, block : Slot \X {0}]
OurHistory == [cast : SUBSET OurVote, notarized : SUBSET Block,
               ready : SUBSET (Slot \X Known), root : Slot]
OurOp == [vote : OurVote, hist : OurHistory]
OurCall == {"notar", "final", "skip", "fallback", "pending", "root", "missing"} \X (Nat \X Nat)

FirstTypes == {"Notarize", "Skip"}

(* No conflict, nothing below the root, and a first vote in every slot.      *)
Sane(g) ==
    /\ IsFiniteSet(g.cast)
    /\ \A v, w \in g.cast : ~Conflict(v, w)
    /\ \A v \in g.cast : SlotOf(v) >= g.root
    /\ \A v \in g.cast : \E w \in g.cast : w.type \in FirstTypes /\ SlotOf(w) = SlotOf(v)

(* The older history a is contained in b, up to b's root.                    *)
Older(a, b) ==
    /\ a.root <= b.root
    /\ \A v \in a.cast : SlotOf(v) >= b.root => v \in b.cast

(* A vote that history g knows or has left behind.                           *)
KnownTo(v, g) == v \in g.cast \/ SlotOf(v) < g.root

(* The first vote that a fallback vote for c must follow.                    *)
FirstFor(c, g) ==
    \E w \in g.cast : /\ SlotOf(w) = c[1]
                      /\ \/ w.type = "Notarize" /\ w.block # c
                         \/ w.type = "Skip" /\ c[2] # 0

CallSane(c, g) ==
    /\ c[1] \in {"notar", "final", "skip", "fallback"} => c[2][1] >= g.root
    /\ c[1] = "fallback" => FirstFor(c[2], g)

RootLast(t) == \A i, j \in 1..Len(t) : i < j /\ t[i][1] = "root" => t[j][1] = "missing"

(* The calls t can be made, in this order, with history g.                   *)
GoodTodo(t, g) ==
    /\ t \in Seq(OurCall) /\ RootLast(t)
    /\ \A i \in 1..Len(t) : CallSane(t[i], g)

Types ==
    /\ h \in OurHistory /\ disk \in OurHistory /\ ops \in Seq(OurOp)
    /\ released \in 0..Len(ops)
    /\ stored \subseteq OurVote /\ sent \subseteq OurVote /\ pooled \subseteq OurVote
    /\ root \in Slot /\ pending \subseteq Block

Histories ==
    /\ Sane(h) /\ Sane(disk)
    /\ Older(disk, h)
    /\ \A i \in 1..Len(ops) :
          /\ Sane(ops[i].hist) /\ ops[i].vote \in ops[i].hist.cast
          /\ Older(disk, ops[i].hist) /\ Older(ops[i].hist, h)
    /\ \A i, j \in 1..Len(ops) : i < j => Older(ops[i].hist, ops[j].hist)

Out ==
    /\ stored \subseteq disk.cast
    /\ \A v \in sent : KnownTo(v, disk)
    /\ \A v \in pooled : KnownTo(v, h)

Work ==
    /\ h.root <= root
    /\ \A b \in pending : b[1] >= h.root
    /\ GoodTodo(todo, h)

(* Blocks and numbers that no other part of the invariant depends on.        *)
Ground == finalized \subseteq Block /\ timers \in [Slot -> Int]

IInv == Types /\ Histories /\ Out /\ Work /\ NeverConflicting

-----------------------------------------------------------------------------
(* Votes that conflict                                                       *)

(* A function from 1..k is a sequence of length k.                           *)
LEMMA FunctionIsSequence ==
    ASSUME NEW T, NEW k \in Nat, NEW f \in [1..k -> T]
    PROVE  f \in Seq(T) /\ Len(f) = k
  OBVIOUS

(* The slot and the id of a vote are numbers, and a vote of a slot has id 0. *)
LEMMA VoteTypes ==
    ASSUME NEW v \in OurVote
    PROVE  /\ v.type \in BlockTypes \cup SlotTypes
           /\ v.block = <<v.block[1], v.block[2]>> /\ SlotOf(v) = v.block[1]
           /\ SlotOf(v) \in Slot /\ SlotOf(v) \in Nat /\ v.block[2] \in Nat
           /\ v.type \in BlockTypes <=> v.block[2] # 0
<1>1. CASE v \in [type : BlockTypes, block : Block]
  <2>1. v.block \in Slot \X (Nat \ {0})
    BY <1>1, HandlerAssumption
  <2> QED
    BY <1>1, <2>1, HandlerAssumption DEF BlockTypes, SlotTypes, SlotOf, Slot
<1>2. CASE v \in [type : SlotTypes, block : Slot \X {0}]
  BY <1>2, HandlerAssumption DEF BlockTypes, SlotTypes, SlotOf, Slot
<1> QED
  BY <1>1, <1>2 DEF OurVote

(* conflicting_types() spelled out: which votes of one slot conflict.        *)
LEMMA ConflictCases ==
    ASSUME NEW v \in OurVote, NEW w \in OurVote, Conflict(v, w)
    PROVE  /\ SlotOf(v) = SlotOf(w)
           /\ \/ v.type \in FirstTypes /\ w.type \in FirstTypes /\ v # w
              \/ v.type = "Finalize" /\ w.type \in {"NotarizeFallback", "Skip", "SkipFallback"}
              \/ w.type = "Finalize" /\ v.type \in {"NotarizeFallback", "Skip", "SkipFallback"}
              \/ v.type = "Notarize" /\ w.type = "NotarizeFallback" /\ v.block = w.block
              \/ w.type = "Notarize" /\ v.type = "NotarizeFallback" /\ v.block = w.block
              \/ v.type = "Skip" /\ w.type = "SkipFallback"
              \/ w.type = "Skip" /\ v.type = "SkipFallback"
<1>1. /\ v.type \in BlockTypes \cup SlotTypes /\ w.type \in BlockTypes \cup SlotTypes
      /\ v.type \in BlockTypes <=> v.block[2] # 0
      /\ w.type \in BlockTypes <=> w.block[2] # 0
  BY VoteTypes
<1>2. SlotOf(v) = SlotOf(w)
  BY DEF Conflict
<1>3. CASE v.type = "Notarize" /\ w.type = "Notarize" /\ v.block # w.block
  BY <1>2, <1>3 DEF FirstTypes
<1>4. CASE /\ w.type \in ConflictingTypes(v.type)
           /\ v.block[2] = 0 \/ w.block[2] = 0 \/ v.block = w.block
  BY <1>1, <1>2, <1>4 DEF ConflictingTypes, BlockTypes, SlotTypes, FirstTypes
<1> QED
  BY <1>3, <1>4 DEF Conflict

(* Two different first votes of one slot conflict.                           *)
LEMMA FirstVotesConflict ==
    ASSUME NEW v \in OurVote, NEW w \in OurVote, SlotOf(v) = SlotOf(w), v # w,
           v.type \in FirstTypes, w.type \in FirstTypes
    PROVE  Conflict(v, w)
<1>1. /\ v.type \in BlockTypes <=> v.block[2] # 0
      /\ w.type \in BlockTypes <=> w.block[2] # 0
      /\ v.block = <<SlotOf(v), v.block[2]>> /\ w.block = <<SlotOf(w), w.block[2]>>
  BY VoteTypes
<1>2. v.type # w.type \/ v.block # w.block
  BY DEF OurVote
<1>3. CASE v.type = "Notarize" /\ w.type = "Notarize"
  BY <1>2, <1>3 DEF Conflict
<1>4. CASE v.type = "Skip" /\ w.type = "Skip"
  BY <1>1, <1>2, <1>4 DEF BlockTypes
<1>5. CASE v.type = "Notarize" /\ w.type = "Skip"
  BY <1>1, <1>5 DEF Conflict, ConflictingTypes, BlockTypes
<1>6. CASE v.type = "Skip" /\ w.type = "Notarize"
  BY <1>1, <1>6 DEF Conflict, ConflictingTypes, BlockTypes
<1> QED
  BY <1>3, <1>4, <1>5, <1>6 DEF FirstTypes

-----------------------------------------------------------------------------
(* Histories                                                                 *)

(* What the guards of the handler establish before vote v is cast with g.    *)
Fits(v, g) ==
    \/ v.type \in FirstTypes /\ \A w \in g.cast : SlotOf(w) = SlotOf(v) => w.type \notin FirstTypes
    \/ /\ v.type = "Finalize"
       /\ \E w \in g.cast : w.type = "Notarize" /\ SlotOf(w) = SlotOf(v)
       /\ \A w \in g.cast : SlotOf(w) = SlotOf(v) =>
             w.type \notin {"NotarizeFallback", "Skip", "SkipFallback"}
    \/ /\ v.type \in {"NotarizeFallback", "SkipFallback"}
       /\ FirstFor(v.block, g)
       /\ \A w \in g.cast : SlotOf(w) = SlotOf(v) => w.type # "Finalize"

With(g, v) == [g EXCEPT !.cast = @ \cup {v}]

LEMMA WithFields ==
    ASSUME NEW g \in OurHistory, NEW v \in OurVote
    PROVE  /\ With(g, v) \in OurHistory
           /\ With(g, v).cast = g.cast \cup {v} /\ With(g, v).root = g.root
BY DEF With, OurHistory

(* A vote that fits conflicts with no vote of the history.                   *)
LEMMA FitsNoConflict ==
    ASSUME NEW g \in OurHistory, Sane(g), NEW v \in OurVote, Fits(v, g), NEW w \in g.cast
    PROVE  ~Conflict(v, w) /\ ~Conflict(w, v)
<1>1. w \in OurVote /\ g.cast \subseteq OurVote
  BY DEF OurHistory
<1>2. SUFFICES ASSUME Conflict(v, w) \/ Conflict(w, v) PROVE FALSE
  OBVIOUS
<1>3. /\ SlotOf(v) = SlotOf(w)
      /\ \/ v.type \in FirstTypes /\ w.type \in FirstTypes /\ v # w
         \/ v.type = "Finalize" /\ w.type \in {"NotarizeFallback", "Skip", "SkipFallback"}
         \/ w.type = "Finalize" /\ v.type \in {"NotarizeFallback", "Skip", "SkipFallback"}
         \/ v.type = "Notarize" /\ w.type = "NotarizeFallback" /\ v.block = w.block
         \/ w.type = "Notarize" /\ v.type = "NotarizeFallback" /\ v.block = w.block
         \/ v.type = "Skip" /\ w.type = "SkipFallback"
         \/ w.type = "Skip" /\ v.type = "SkipFallback"
  <2>1. CASE Conflict(v, w)
    BY <1>1, <2>1, ConflictCases
  <2>2. CASE Conflict(w, v)
    BY <1>1, <2>2, ConflictCases
  <2> QED
    BY <1>2, <2>1, <2>2
<1>4. PICK f \in g.cast : f.type \in FirstTypes /\ SlotOf(f) = SlotOf(w)
  BY DEF Sane
<1>5. CASE v.type \in FirstTypes
  BY <1>3, <1>4, <1>5 DEF Fits, FirstTypes
<1>6. CASE v.type = "Finalize"
  BY <1>3, <1>6 DEF Fits, FirstTypes
<1>7. CASE v.type \in {"NotarizeFallback", "SkipFallback"}
  <2>1. PICK u \in g.cast : /\ SlotOf(u) = v.block[1]
                            /\ \/ u.type = "Notarize" /\ u.block # v.block
                               \/ u.type = "Skip" /\ v.block[2] # 0
    BY <1>7 DEF Fits, FirstFor, FirstTypes
  <2>2. SlotOf(u) = SlotOf(v) /\ u.type \in FirstTypes /\ u \in OurVote
    BY <1>1, <2>1, VoteTypes DEF FirstTypes
  <2>3. w.type \in FirstTypes => w = u
    BY <1>1, <1>3, <2>2, FirstVotesConflict DEF Sane
  <2>4. v.type = "SkipFallback" => v.block[2] = 0
    BY VoteTypes DEF BlockTypes
  <2>5. w.type # "Finalize"
    BY <1>3, <1>7 DEF Fits, FirstTypes
  <2> QED
    BY <1>3, <1>7, <2>1, <2>3, <2>4, <2>5 DEF FirstTypes
<1>8. v.type \in BlockTypes \cup SlotTypes
  BY VoteTypes
<1> QED
  BY <1>5, <1>6, <1>7, <1>8 DEF BlockTypes, SlotTypes, FirstTypes

(* add_vote() keeps the history sane.                                        *)
LEMMA SaneAdd ==
    ASSUME NEW g \in OurHistory, Sane(g), NEW v \in OurVote, Fits(v, g), SlotOf(v) >= g.root
    PROVE  Sane(With(g, v))
<1>1. With(g, v).cast = g.cast \cup {v} /\ With(g, v).root = g.root
  BY WithFields
<1>2. IsFiniteSet(g.cast \cup {v})
  BY FS_AddElement, Zenon DEF Sane
<1>3. ~Conflict(v, v)
  BY ConflictCases DEF FirstTypes
<1>4. \A u, w \in g.cast \cup {v} : ~Conflict(u, w)
  BY <1>3, FitsNoConflict DEF Sane
<1>5. \A u \in g.cast \cup {v} : SlotOf(u) >= g.root
  BY DEF Sane
<1>6. \E w \in g.cast \cup {v} : w.type \in FirstTypes /\ SlotOf(w) = SlotOf(v)
  <2>1. CASE v.type \in FirstTypes
    BY <2>1
  <2>2. CASE v.type = "Finalize"
    BY <2>2 DEF Fits, FirstTypes
  <2>3. CASE v.type \in {"NotarizeFallback", "SkipFallback"}
    <3>1. FirstFor(v.block, g) /\ SlotOf(v) = v.block[1]
      BY <2>3, VoteTypes DEF Fits, FirstTypes
    <3> QED
      BY <3>1 DEF FirstFor, FirstTypes
  <2>4. v.type \in BlockTypes \cup SlotTypes
    BY VoteTypes
  <2> QED
    BY <2>1, <2>2, <2>3, <2>4 DEF BlockTypes, SlotTypes, FirstTypes
<1>7. \A u \in g.cast \cup {v} : \E w \in g.cast \cup {v} :
          w.type \in FirstTypes /\ SlotOf(w) = SlotOf(u)
  BY <1>6 DEF Sane
<1> QED
  BY <1>1, <1>2, <1>4, <1>5, <1>7 DEF Sane

(* The slots and roots of a history are numbers.                             *)
LEMMA HistoryNumbers ==
    ASSUME NEW g \in OurHistory
    PROVE  /\ g.root \in Nat /\ g.cast \subseteq OurVote
           /\ \A v \in g.cast : SlotOf(v) \in Nat
BY VoteTypes, HandlerAssumption DEF OurHistory, Slot

(* A history with one more vote is younger, and knows what it knew.          *)
LEMMA OlderWith ==
    ASSUME NEW a \in OurHistory, NEW g \in OurHistory, NEW v \in OurVote, Older(a, g)
    PROVE  Older(a, With(g, v)) /\ Older(g, With(g, v))
BY WithFields, HistoryNumbers DEF Older

LEMMA KnownOlder ==
    ASSUME NEW a \in OurHistory, NEW b \in OurHistory, Older(a, b), NEW v \in OurVote, KnownTo(v, a)
    PROVE  KnownTo(v, b)
<1>1. a.root \in Nat /\ b.root \in Nat /\ SlotOf(v) \in Nat
  BY HistoryNumbers, VoteTypes
<1> QED
  BY <1>1 DEF Older, KnownTo

LEMMA OlderReflexive ==
    ASSUME NEW a \in OurHistory
    PROVE  Older(a, a)
BY HistoryNumbers DEF Older

(* set_root() keeps the history sane, and makes it younger.                  *)
LEMMA RootedHistory ==
    ASSUME h \in OurHistory, Sane(h), NEW r \in Slot, h.root <= r
    PROVE  /\ SetHistoryRoot(r) \in OurHistory /\ Sane(SetHistoryRoot(r))
           /\ SetHistoryRoot(r).root = r
           /\ \A a \in OurHistory : Older(a, h) => Older(a, SetHistoryRoot(r))
           /\ \A v \in OurVote : KnownTo(v, h) => KnownTo(v, SetHistoryRoot(r))
<1> DEFINE g == SetHistoryRoot(r)
<1>1. g.cast = {v \in h.cast : SlotOf(v) >= r} /\ g.root = r
  BY DEF SetHistoryRoot
<1>2. g \in OurHistory
  BY DEF SetHistoryRoot, OurHistory
<1>3. r \in Nat /\ h.root \in Nat /\ \A v \in h.cast : SlotOf(v) \in Nat
  BY HistoryNumbers, HandlerAssumption DEF Slot
<1> HIDE DEF g
<1>4. Sane(g)
  <2>1. IsFiniteSet(g.cast)
    BY <1>1, FS_Subset DEF Sane
  <2>2. \A v \in g.cast : \E w \in g.cast : w.type \in FirstTypes /\ SlotOf(w) = SlotOf(v)
    BY <1>1 DEF Sane
  <2> QED
    BY <1>1, <2>1, <2>2 DEF Sane
<1>5. ASSUME NEW a \in OurHistory, Older(a, h)
      PROVE  Older(a, g)
  <2>1. a.root \in Nat /\ \A v \in a.cast : SlotOf(v) \in Nat
    BY HistoryNumbers
  <2> QED
    BY <1>1, <1>3, <1>5, <2>1 DEF Older
<1>6. ASSUME NEW v \in OurVote, KnownTo(v, h)
      PROVE  KnownTo(v, g)
  <2>1. SlotOf(v) \in Nat
    BY VoteTypes
  <2> QED
    BY <1>1, <1>3, <1>6, <2>1 DEF KnownTo
<1> QED
  BY <1>1, <1>2, <1>4, <1>5, <1>6 DEF g

-----------------------------------------------------------------------------
(* The calls of an event                                                     *)

(* A call can still be made when the history has one more vote.              *)
LEMMA GoodTodoWith ==
    ASSUME NEW t, NEW g \in OurHistory, NEW v \in OurVote, GoodTodo(t, g)
    PROVE  GoodTodo(t, With(g, v))
<1>1. With(g, v).cast = g.cast \cup {v} /\ With(g, v).root = g.root
  BY WithFields
<1>2. ASSUME NEW c, FirstFor(c, g) PROVE FirstFor(c, With(g, v))
  BY <1>1, <1>2 DEF FirstFor
<1>3. ASSUME NEW c, CallSane(c, g) PROVE CallSane(c, With(g, v))
  BY <1>1, <1>2, <1>3 DEF CallSane
<1> QED
  BY <1>3 DEF GoodTodo

LEMMA NoCalls ==
    ASSUME NEW g
    PROVE  GoodTodo(<<>>, g)
BY DEF GoodTodo, RootLast

LEMMA OneCall ==
    ASSUME NEW c \in OurCall, NEW g, CallSane(c, g)
    PROVE  GoodTodo(<<c>>, g)
BY DEF GoodTodo, RootLast

(* New calls, none of which moves the root, before the rest of the event.    *)
LEMMA GoodThen ==
    ASSUME NEW t, NEW g, GoodTodo(t, g), t # <<>>, NEW n, GoodTodo(n, g),
           \A i \in 1..Len(n) : n[i][1] # "root"
    PROVE  GoodTodo(n \o Tail(t), g)
<1> DEFINE u == n \o Tail(t)
<1>1. t \in Seq(OurCall) /\ n \in Seq(OurCall) /\ Tail(t) \in Seq(OurCall)
  BY DEF GoodTodo
<1>2. /\ Len(Tail(t)) = Len(t) - 1 /\ Len(t) \in Nat /\ Len(n) \in Nat
      /\ \A i \in 1..(Len(t) - 1) : Tail(t)[i] = t[i + 1]
  BY <1>1
<1>3. /\ u \in Seq(OurCall) /\ Len(u) = Len(n) + Len(t) - 1
      /\ \A i \in 1..Len(u) : \/ i <= Len(n) /\ u[i] = n[i]
                              \/ i > Len(n) /\ u[i] = t[i - Len(n) + 1]
  <2>1. u \in Seq(OurCall) /\ Len(u) = Len(n) + Len(Tail(t))
    BY <1>1
  <2>2. \A i \in 1..Len(u) : u[i] = IF i <= Len(n) THEN n[i] ELSE Tail(t)[i - Len(n)]
    BY <1>1
  <2>3. ASSUME NEW i \in 1..Len(u), i > Len(n) PROVE u[i] = t[i - Len(n) + 1]
    BY <1>2, <2>1, <2>2, <2>3
  <2>4. ASSUME NEW i \in 1..Len(u), i <= Len(n) PROVE u[i] = n[i]
    BY <2>2, <2>4
  <2>5. Len(u) = Len(n) + Len(t) - 1
    BY <1>2, <2>1
  <2> HIDE DEF u
  <2>6. ASSUME NEW i \in 1..Len(u)
        PROVE  \/ i <= Len(n) /\ u[i] = n[i]
               \/ i > Len(n) /\ u[i] = t[i - Len(n) + 1]
    BY <1>2, <2>3, <2>4, <2>5
  <2> QED
    BY <2>1, <2>5, <2>6
<1> HIDE DEF u
<1>4. RootLast(u)
  <2>1. SUFFICES ASSUME NEW i \in 1..Len(u), NEW j \in 1..Len(u), i < j, u[i][1] = "root"
                 PROVE  u[j][1] = "missing"
    BY DEF RootLast
  <2>2. i > Len(n) /\ u[i] = t[i - Len(n) + 1]
    <3>1. ~(i <= Len(n) /\ u[i] = n[i])
      <4>1. SUFFICES ASSUME i <= Len(n), u[i] = n[i] PROVE FALSE
        OBVIOUS
      <4>2. i \in 1..Len(n)
        BY <1>2, <4>1
      <4> QED
        BY <2>1, <4>1, <4>2
    <3> QED
      BY <1>3, <3>1
  <2>3. j > Len(n) /\ u[j] = t[j - Len(n) + 1]
    <3>1. Len(n) \in Nat /\ i \in Int /\ j \in Int
      BY <1>2, <1>3
    <3>2. j > Len(n) /\ ~(j <= Len(n))
      BY <2>1, <2>2, <3>1
    <3> QED
      BY <1>3, <3>2, Zenon
  <2>4. i - Len(n) + 1 \in 1..Len(t) /\ j - Len(n) + 1 \in 1..Len(t)
    <3>1. /\ Len(n) \in Nat /\ Len(t) \in Nat /\ i \in 1..Len(u) /\ j \in 1..Len(u)
          /\ Len(u) = Len(n) + Len(t) - 1 /\ i > Len(n) /\ j > Len(n)
      BY <1>2, <1>3, <2>2, <2>3, Zenon
    <3> HIDE DEF u
    <3> QED
      BY <3>1
  <2>5. i - Len(n) + 1 < j - Len(n) + 1
    BY <1>2, <2>1
  <2> QED
    BY <2>1, <2>2, <2>3, <2>4, <2>5 DEF GoodTodo, RootLast
<1>5. ASSUME NEW i \in 1..Len(u) PROVE CallSane(u[i], g)
  <2>1. CASE i <= Len(n) /\ u[i] = n[i]
    BY <1>2, <2>1 DEF GoodTodo
  <2>2. CASE i > Len(n) /\ u[i] = t[i - Len(n) + 1]
    <3>1. i - Len(n) + 1 \in 1..Len(t)
      BY <1>2, <1>3, <2>2
    <3> QED
      BY <2>2, <3>1 DEF GoodTodo
  <2> QED
    BY <1>3, <2>1, <2>2
<1>6. GoodTodo(u, g)
  BY <1>3, <1>4, <1>5 DEF GoodTodo
<1> QED
  BY <1>6 DEF u

(* The rest of the event alone.                                              *)
LEMMA GoodRest ==
    ASSUME NEW t, NEW g, GoodTodo(t, g), t # <<>>
    PROVE  GoodTodo(<<>> \o Tail(t), g)
<1>1. GoodTodo(<<>>, g)
  BY NoCalls
<1>2. \A i \in 1..Len(<<>>) : <<>>[i][1] # "root"
  OBVIOUS
<1> QED
  BY <1>1, <1>2, GoodThen, Zenon

(* After check_rootable_blocks() an event makes no call that votes, whatever *)
(* the history has become.                                                   *)
LEMMA RestAfterRoot ==
    ASSUME NEW t, NEW g, NEW f, GoodTodo(t, g), t # <<>>, Head(t)[1] = "root"
    PROVE  GoodTodo(<<>> \o Tail(t), f)
<1> DEFINE u == <<>> \o Tail(t)
<1>1. u \in Seq(OurCall) /\ RootLast(u)
  BY GoodRest, Zenon DEF GoodTodo
<1>2. t \in Seq(OurCall) /\ Len(t) \in Nat /\ u = Tail(t)
  BY DEF GoodTodo
<1>3. ASSUME NEW i \in 1..Len(u) PROVE CallSane(u[i], f)
  <2>1. u[i] = t[i + 1] /\ i + 1 \in 1..Len(t) /\ 1 \in 1..Len(t) /\ 1 < i + 1
    BY <1>2
  <2>2. t[1][1] = "root"
    BY <1>2
  <2>3. u[i][1] = "missing"
    BY <2>1, <2>2 DEF GoodTodo, RootLast
  <2> QED
    BY <2>3 DEF CallSane
<1> QED
  BY <1>1, <1>3 DEF GoodTodo

-----------------------------------------------------------------------------
(* The effects of the steps                                                  *)

(* A step that leaves histories and votes alone.                             *)
LEMMA StillKeeps ==
    ASSUME IInv, UNCHANGED <<h, ops, released, stored, disk, sent, root, pooled>>,
           pending' \subseteq Block, \A b \in pending' : b[1] >= h.root, GoodTodo(todo', h)
    PROVE  IInv'
<1>1. Types'
  BY DEF IInv, Types
<1>2. Histories'
  BY DEF IInv, Histories
<1>3. Out'
  BY DEF IInv, Out
<1>4. GoodTodo(todo, h)'
  BY DEF GoodTodo
<1>5. Work'
  BY <1>4 DEF IInv, Work
<1>6. NeverConflicting'
  BY DEF IInv, NeverConflicting
<1> QED
  BY <1>1, <1>2, <1>3, <1>5, <1>6 DEF IInv

(* The operations that wait, with one more at the end.                       *)
LEMMA OpsAppend ==
    ASSUME NEW s \in Seq(OurOp), NEW o \in OurOp
    PROVE  /\ Append(s, o) \in Seq(OurOp) /\ Len(Append(s, o)) = Len(s) + 1 /\ Len(s) \in Nat
           /\ \A i \in 1..Len(Append(s, o)) :
                 \/ i \in 1..Len(s) /\ Append(s, o)[i] = s[i]
                 \/ i = Len(s) + 1 /\ Append(s, o)[i] = o
OBVIOUS

LEMMA OpsHistories ==
    ASSUME NEW s \in Seq(OurOp), NEW i \in 1..Len(s)
    PROVE  s[i] \in OurOp /\ s[i].hist \in OurHistory /\ s[i].vote \in OurVote
<1>1. s[i] \in OurOp
  OBVIOUS
<1> QED
  BY <1>1 DEF OurOp

(* The histories when vote v is cast: with a message, and without.           *)
LEMMA CastHistories ==
    ASSUME Types, Histories, NEW v \in OurVote, Fits(v, h), SlotOf(v) >= h.root, CastVote(v),
           disk' = disk
    PROVE  ops' \in Seq(OurOp) /\ Len(ops') >= Len(ops) /\ Histories'
<1> DEFINE g == With(h, v)
<1>1. h' = g /\ g \in OurHistory /\ h \in OurHistory /\ disk \in OurHistory
  BY WithFields DEF CastVote, With, Types
<1>2. Sane(g) /\ Sane(disk) /\ v \in g.cast /\ ops \in Seq(OurOp) /\ Len(ops) \in Nat
  BY <1>1, SaneAdd, WithFields DEF Histories, Types
<1>3. ASSUME NEW a \in OurHistory, Older(a, h) PROVE Older(a, g)
  BY <1>1, <1>3, OlderWith
<1>4. Older(disk, g)
  BY <1>1, <1>3 DEF Histories
<1>5. ASSUME NEW i \in 1..Len(ops)
      PROVE  ops[i] \in OurOp /\ ops[i].hist \in OurHistory /\ Older(ops[i].hist, g)
  <2>1. ops[i] \in OurOp
    BY <1>2
  <2>2. ops[i].hist \in OurHistory
    BY <2>1 DEF OurOp
  <2>3. Older(ops[i].hist, h)
    BY DEF Histories
  <2> HIDE DEF g
  <2> QED
    BY <1>3, <2>1, <2>2, <2>3
<1>6. CASE UNCHANGED ops
  <2>1. \A i \in 1..Len(ops) : Older(ops[i].hist, g)
    BY <1>5
  <2> HIDE DEF g
  <2>2. Histories'
    BY <1>1, <1>2, <1>4, <1>6, <2>1 DEF Histories
  <2> QED
    BY <1>2, <1>6, <2>2
<1>7. CASE ops' = Append(ops, [vote |-> v, hist |-> g])
  <2> DEFINE o == [vote |-> v, hist |-> g]
  <2>0. ops' = Append(ops, o)
    BY <1>7
  <2>1. o \in OurOp /\ o.vote = v /\ o.hist = g
    BY <1>1 DEF OurOp
  <2> HIDE DEF g, o
  <2>2. /\ ops' \in Seq(OurOp) /\ Len(ops') = Len(ops) + 1
        /\ \A i \in 1..Len(ops') : \/ i \in 1..Len(ops) /\ ops'[i] = ops[i]
                                   \/ i = Len(ops) + 1 /\ ops'[i] = o
    BY <1>2, <2>0, <2>1, OpsAppend
  <2>3. ASSUME NEW i \in 1..Len(ops')
        PROVE  /\ Sane(ops'[i].hist) /\ ops'[i].vote \in ops'[i].hist.cast
               /\ Older(disk, ops'[i].hist) /\ Older(ops'[i].hist, g)
    <3>1. CASE i \in 1..Len(ops) /\ ops'[i] = ops[i]
      BY <1>5, <3>1 DEF Histories
    <3>2. CASE ops'[i] = o
      BY <1>1, <1>2, <1>4, <2>1, <3>2, OlderReflexive
    <3> QED
      BY <2>2, <3>1, <3>2
  <2>4. ASSUME NEW i \in 1..Len(ops'), NEW j \in 1..Len(ops'), i < j
        PROVE  Older(ops'[i].hist, ops'[j].hist)
    <3>1. i \in 1..Len(ops) /\ ops'[i] = ops[i]
      BY <1>2, <2>2, <2>4
    <3>2. CASE j \in 1..Len(ops) /\ ops'[j] = ops[j]
      BY <2>4, <3>1, <3>2 DEF Histories
    <3>3. CASE ops'[j] = o
      BY <1>5, <2>1, <3>1, <3>3
    <3> QED
      BY <2>2, <3>2, <3>3
  <2>5. Histories'
    BY <1>1, <1>2, <1>4, <2>3, <2>4 DEF Histories
  <2> QED
    BY <1>2, <2>2, <2>5
<1> QED
  BY <1>6, <1>7 DEF CastVote, With

(* A step that casts a vote that fits.                                       *)
LEMMA CastKeeps ==
    ASSUME IInv, NEW v \in OurVote, Fits(v, h), SlotOf(v) >= h.root, CastVote(v),
           UNCHANGED <<released, stored, disk, sent, root>>, pending' \subseteq pending,
           GoodTodo(todo', h)
    PROVE  IInv'
<1>0. Types /\ Histories /\ Out /\ Work /\ NeverConflicting
  BY DEF IInv
<1>1. ops' \in Seq(OurOp) /\ Len(ops') >= Len(ops) /\ Histories'
  BY <1>0, CastHistories
<1>2. /\ h' = With(h, v) /\ h \in OurHistory /\ h' \in OurHistory
      /\ h'.cast = h.cast \cup {v} /\ h'.root = h.root
  BY <1>0, WithFields DEF CastVote, With, Types
<1>3. pooled' \subseteq pooled \cup {v}
  BY DEF CastVote
<1>4. Types'
  <2>1. released' \in 0..Len(ops')
    BY <1>0, <1>1 DEF Types
  <2>2. pooled' \subseteq OurVote /\ pending' \subseteq Block
    BY <1>0, <1>3 DEF Types
  <2> QED
    BY <1>0, <1>1, <1>2, <2>1, <2>2 DEF Types
<1>5. Out'
  <2>1. \A w \in pooled' : KnownTo(w, h')
    BY <1>0, <1>2, <1>3 DEF Out, KnownTo
  <2> QED
    BY <1>0, <2>1 DEF Out
<1>6. Work'
  <2>1. GoodTodo(todo', h')
    BY <1>2, GoodTodoWith
  <2>2. GoodTodo(todo, h)'
    BY <2>1
  <2> QED
    BY <1>0, <1>2, <2>2 DEF Work
<1>7. NeverConflicting'
  BY <1>0 DEF NeverConflicting
<1> QED
  BY <1>1, <1>4, <1>5, <1>6, <1>7 DEF IInv

-----------------------------------------------------------------------------
(* The calls that vote                                                       *)

LEMMA BlockVotes ==
    ASSUME NEW b \in Block, NEW t \in BlockTypes
    PROVE  /\ BlockVote(t, b) \in OurVote /\ SlotOf(BlockVote(t, b)) = b[1]
           /\ BlockVote(t, b).type = t /\ BlockVote(t, b).block = b
           /\ b \in Nat \X Nat /\ b[1] \in Slot /\ b[1] \in Nat /\ b[2] # 0
BY HandlerAssumption DEF BlockVote, OurVote, SlotOf, Slot

LEMMA SlotVotes ==
    ASSUME NEW s \in Slot, NEW t \in SlotTypes
    PROVE  /\ SlotVote(t, s) \in OurVote /\ SlotOf(SlotVote(t, s)) = s
           /\ SlotVote(t, s).type = t /\ SlotVote(t, s).block = <<s, 0>>
           /\ <<s, 0>> \in Nat \X Nat /\ s \in Nat
BY HandlerAssumption DEF SlotVote, OurVote, SlotOf, Slot

LEMMA HeadSane ==
    ASSUME NEW c, NEW g, GoodTodo(todo, g), todo # <<>>, Head(todo) = c
    PROVE  CallSane(c, g) /\ c \in OurCall
<1>1. todo \in Seq(OurCall) /\ 1 \in 1..Len(todo) /\ todo[1] = c /\ todo[1] \in OurCall
  BY DEF GoodTodo
<1> QED
  BY <1>1 DEF GoodTodo

(* A slot without a first vote: Notarize and Skip fit.                       *)
LEMMA UnvotedFits ==
    ASSUME NEW v \in OurVote, v.type \in FirstTypes, ~Voted(SlotOf(v))
    PROVE  Fits(v, h)
BY DEF Voted, Cast, Fits, FirstTypes

(* try_final()'s guard: Finalize fits.                                       *)
LEMMA FinalizeFits ==
    ASSUME h \in OurHistory, NEW b \in Block, MayFinalize(b)
    PROVE  Fits(SlotVote("Finalize", b[1]), h)
<1> DEFINE v == SlotVote("Finalize", b[1])
<1>1. SlotOf(v) = b[1] /\ v.type = "Finalize"
  BY BlockVotes, SlotVotes, Zenon DEF BlockTypes, SlotTypes
<1>2. /\ BlockVote("Notarize", b) \in h.cast /\ BlockVote("Notarize", b).type = "Notarize"
      /\ SlotOf(BlockVote("Notarize", b)) = b[1]
  BY BlockVotes DEF MayFinalize, BlockTypes
<1>3. \A w \in h.cast : SlotOf(w) = b[1] =>
          w.type \notin {"NotarizeFallback", "Skip", "SkipFallback"}
  BY DEF MayFinalize, BadWindow, Cast
<1> HIDE DEF v
<1>4. Fits(v, h)
  BY <1>1, <1>2, <1>3 DEF Fits
<1> QED
  BY <1>4 DEF v

LEMMA TryNotarKeeps ==
    ASSUME IInv, NEW b \in Block, TryNotar(b)
    PROVE  IInv'
<1>1. /\ GoodTodo(todo, h) /\ todo # <<>> /\ Head(todo) = <<"notar", b>>
      /\ \A p \in pending : p[1] >= h.root
      /\ pending \subseteq Block
  BY DEF IInv, Work, Types, TryNotar, Doing, Call
<1>2. b[1] >= h.root
  BY <1>1, HeadSane DEF CallSane
<1>3. CASE MayNotarize(b)
  <2> DEFINE v == BlockVote("Notarize", b)
  <2>1. v \in OurVote /\ SlotOf(v) = b[1] /\ v.type = "Notarize" /\ b \in Nat \X Nat
    BY BlockVotes DEF BlockTypes
  <2>2. Fits(v, h)
    <3>1. ~Voted(SlotOf(v)) /\ v.type \in FirstTypes
      BY <1>3, <2>1 DEF MayNotarize, FirstTypes
    <3> QED
      BY <2>1, <3>1, UnvotedFits
  <2>3. GoodTodo(<<Call("final", b)>>, h)
    BY <1>2, <2>1, OneCall DEF Call, CallSane, OurCall
  <2>4. \A i \in 1..Len(<<Call("final", b)>>) : <<Call("final", b)>>[i][1] # "root"
    BY DEF Call
  <2>5. GoodTodo(todo', h)
    BY <1>1, <1>3, <2>3, <2>4, GoodThen, Zenon DEF TryNotar, Then
  <2>6. /\ CastVote(v) /\ UNCHANGED <<released, stored, disk, sent, root>>
        /\ pending' \subseteq pending
    BY <1>3 DEF TryNotar, service, ledger
  <2> HIDE DEF v
  <2> QED
    BY <1>2, <2>1, <2>2, <2>5, <2>6, CastKeeps
<1>4. CASE ~MayNotarize(b)
  <2>1. GoodTodo(todo', h)
    BY <1>1, <1>4, GoodRest, Zenon DEF TryNotar, Then
  <2>2. UNCHANGED <<h, ops, released, stored, disk, sent, root, pooled, pending>>
    BY <1>4 DEF TryNotar, service, ledger
  <2> QED
    BY <1>1, <2>1, <2>2, StillKeeps
<1> QED
  BY <1>3, <1>4

LEMMA TryFinalKeeps ==
    ASSUME IInv, NEW b \in Block, TryFinal(b)
    PROVE  IInv'
<1>1. /\ GoodTodo(todo, h) /\ todo # <<>> /\ Head(todo) = <<"final", b>>
      /\ \A p \in pending : p[1] >= h.root
      /\ pending \subseteq Block /\ h \in OurHistory
  BY DEF IInv, Work, Types, TryFinal, Doing, Call
<1>2. b[1] >= h.root
  BY <1>1, HeadSane DEF CallSane
<1>3. GoodTodo(todo', h)
  BY <1>1, GoodRest DEF TryFinal, Then
<1>4. CASE MayFinalize(b)
  <2> DEFINE v == SlotVote("Finalize", b[1])
  <2>1. v \in OurVote /\ SlotOf(v) = b[1]
    BY BlockVotes, SlotVotes, Zenon DEF BlockTypes, SlotTypes
  <2>2. Fits(v, h)
    BY <1>1, <1>4, FinalizeFits
  <2>3. /\ CastVote(v) /\ UNCHANGED <<released, stored, disk, sent, root>>
        /\ pending' \subseteq pending
    BY <1>4 DEF TryFinal, service, ledger
  <2> HIDE DEF v
  <2> QED
    BY <1>2, <1>3, <2>1, <2>2, <2>3, CastKeeps
<1>5. CASE ~MayFinalize(b)
  <2>1. UNCHANGED <<h, ops, released, stored, disk, sent, root, pooled, pending>>
    BY <1>5 DEF TryFinal, service, ledger
  <2> QED
    BY <1>1, <1>3, <2>1, StillKeeps
<1> QED
  BY <1>4, <1>5

LEMMA TrySkipKeeps ==
    ASSUME IInv, NEW s \in Slot, TrySkip(s)
    PROVE  IInv'
<1>1. /\ GoodTodo(todo, h) /\ todo # <<>> /\ Head(todo) = <<"skip", <<s, 0>>>>
      /\ \A p \in pending : p[1] >= h.root
      /\ pending \subseteq Block
  BY DEF IInv, Work, Types, TrySkip, Doing, Call
<1>2. s >= h.root
  BY <1>1, HeadSane DEF CallSane
<1>3. GoodTodo(todo', h)
  BY <1>1, GoodRest DEF TrySkip, Then
<1>4. CASE ~Voted(s)
  <2> DEFINE v == SlotVote("Skip", s)
  <2>1. v \in OurVote /\ SlotOf(v) = s /\ v.type \in FirstTypes
    BY SlotVotes, Zenon DEF SlotTypes, FirstTypes
  <2>2. Fits(v, h)
    BY <1>4, <2>1, UnvotedFits
  <2>3. /\ CastVote(v) /\ UNCHANGED <<released, stored, disk, sent, root>>
        /\ pending' \subseteq pending
    BY <1>4 DEF TrySkip, service, ledger
  <2> HIDE DEF v
  <2> QED
    BY <1>2, <1>3, <2>1, <2>2, <2>3, CastKeeps
<1>5. CASE Voted(s)
  <2>1. UNCHANGED <<h, ops, released, stored, disk, sent, root, pooled, pending>>
    BY <1>5 DEF TrySkip, service, ledger
  <2> QED
    BY <1>1, <1>3, <2>1, StillKeeps
<1> QED
  BY <1>4, <1>5

(* The guards of SafeToNotar and SafeToSkip, kept in FirstFor: fallback fits. *)
LEMMA FallbackKeeps ==
    ASSUME IInv, NEW b, b \in Block \/ b \in Slot \X {0}, Fallback(b)
    PROVE  IInv'
<1>1. /\ GoodTodo(todo, h) /\ todo # <<>> /\ Head(todo) = <<"fallback", b>>
      /\ \A p \in pending : p[1] >= h.root
      /\ pending \subseteq Block
  BY DEF IInv, Work, Types, Fallback, Doing, Call
<1>2. b[1] >= h.root /\ FirstFor(b, h)
  BY <1>1, HeadSane DEF CallSane
<1>3. GoodTodo(todo', h)
  BY <1>1, GoodRest DEF Fallback, Then
<1> DEFINE v == IF b[2] = 0 THEN SlotVote("SkipFallback", b[1]) ELSE BlockVote("NotarizeFallback", b)
<1>4. v \in OurVote /\ SlotOf(v) = b[1] /\ v.block = b /\ v.type \in {"NotarizeFallback", "SkipFallback"}
  <2>1. CASE b \in Block
    BY <2>1, BlockVotes DEF BlockTypes
  <2>2. CASE b \in Slot \X {0}
    <3>1. b = <<b[1], 0>> /\ b[1] \in Slot /\ b[2] = 0
      BY <2>2
    <3> QED
      BY <3>1, SlotVotes DEF SlotTypes
  <2> QED
    BY <2>1, <2>2
<1>5. CASE ItsOver(b[1]) \/ v \in h.cast
  <2>1. UNCHANGED <<h, ops, released, stored, disk, sent, root, pooled, pending>>
    BY <1>5 DEF Fallback, service, ledger
  <2> HIDE DEF v
  <2> QED
    BY <1>1, <1>3, <2>1, StillKeeps
<1>6. CASE ~(ItsOver(b[1]) \/ v \in h.cast)
  <2>1. /\ CastVote(v) /\ UNCHANGED <<released, stored, disk, sent, root>>
        /\ pending' \subseteq pending
    BY <1>6 DEF Fallback, service, ledger
  <2> HIDE DEF v
  <2>2. \A w \in h.cast : SlotOf(w) = SlotOf(v) => w.type # "Finalize"
    BY <1>4, <1>6 DEF ItsOver, Cast
  <2>3. Fits(v, h)
    BY <1>2, <1>4, <2>2 DEF Fits
  <2> QED
    BY <1>2, <1>3, <1>4, <2>1, <2>3, CastKeeps, SMTT(20)
<1> QED
  BY <1>5, <1>6

-----------------------------------------------------------------------------
(* The other calls                                                           *)

(* The pending blocks are looked at again: one call for each.                *)
LEMMA CheckPendingBlocksKeeps ==
    ASSUME IInv, CheckPendingBlocks
    PROVE  IInv'
<1>1. /\ GoodTodo(todo, h) /\ todo # <<>> /\ pending \subseteq Block
      /\ \A p \in pending : p[1] >= h.root
  BY DEF IInv, Work, Types, CheckPendingBlocks, Doing
<1>2. PICK q \in [1..Cardinality(pending) -> pending] :
          todo' = [i \in DOMAIN q |-> Call("notar", q[i])] \o Tail(todo)
  BY Zenon DEF CheckPendingBlocks, PendingCalls, Then
<1> DEFINE n == [i \in DOMAIN q |-> Call("notar", q[i])]
<1>0. todo' = n \o Tail(todo)
  BY <1>2
<1>3. Cardinality(pending) \in Nat
  BY <1>1, HandlerAssumption, FS_Subset, FS_CardinalityType
<1>4. /\ n = [i \in 1..Cardinality(pending) |-> Call("notar", q[i])]
      /\ \A i \in 1..Cardinality(pending) : q[i] \in pending /\ n[i] = <<"notar", q[i]>>
  BY DEF Call
<1>5. \A b \in pending : <<"notar", b>> \in OurCall
  BY <1>1, BlockVotes DEF OurCall, BlockTypes
<1>6. n \in Seq(OurCall) /\ Len(n) = Cardinality(pending)
  <2>1. n \in [1..Cardinality(pending) -> OurCall]
    BY <1>4, <1>5, Zenon
  <2> HIDE DEF n
  <2> QED
    BY <1>3, <2>1
<1> HIDE DEF n
<1>7. ASSUME NEW i \in 1..Len(n)
      PROVE  n[i][1] # "root" /\ CallSane(n[i], h)
  <2>1. q[i] \in pending /\ n[i] = <<"notar", q[i]>>
    BY <1>4, <1>6, Zenon
  <2>2. n[i][1] = "notar" /\ n[i][2] = q[i] /\ q[i][1] >= h.root
    BY <1>1, <2>1
  <2> QED
    BY <2>2 DEF CallSane
<1>8. GoodTodo(n, h)
  BY <1>6, <1>7 DEF GoodTodo, RootLast
<1>9. GoodTodo(todo', h)
  BY <1>0, <1>1, <1>7, <1>8, GoodThen
<1>10. UNCHANGED <<h, ops, released, stored, disk, sent, root, pooled, pending>>
  BY DEF CheckPendingBlocks, service, ledger, pool
<1> QED
  BY <1>1, <1>9, <1>10, StillKeeps

(* The root moves: older histories stay older, and what is out stays known.  *)
LEMMA CheckRootableBlocksKeeps ==
    ASSUME IInv, Ground, CheckRootableBlocks
    PROVE  IInv'
<1>0. Types /\ Histories /\ Out /\ Work /\ NeverConflicting
  BY DEF IInv
<1>1. /\ GoodTodo(todo, h) /\ todo # <<>> /\ Head(todo) = <<"root", <<0, 0>>>>
      /\ \A p \in pending : p[1] >= h.root
      /\ pending \subseteq Block
  BY <1>0 DEF Work, Types, CheckRootableBlocks, Doing, Call
<1>2. \A g : GoodTodo(todo', g)
  BY <1>1, RestAfterRoot DEF CheckRootableBlocks, Then
<1>3. UNCHANGED <<ops, released, stored, disk, sent, pooled>>
  BY DEF CheckRootableBlocks, service, pool
<1>4. CASE UNCHANGED <<h, pending, root>>
  BY <1>1, <1>2, <1>3, <1>4, StillKeeps
<1>5. ASSUME NEW b \in Rootable, h' = SetHistoryRoot(b[1]), root' = b[1],
             pending' = {p \in pending : p[1] >= b[1]}
      PROVE  IInv'
  <2>1. b[1] \in Slot /\ h.root <= b[1] /\ h \in OurHistory /\ Sane(h)
    <3>1. b[1] > root /\ h.root <= root /\ root \in Nat /\ h.root \in Nat /\ h \in OurHistory
      BY <1>0, HistoryNumbers, HandlerAssumption DEF Rootable, Work, Types, Slot
    <3>2. b[1] \in Slot
      BY HandlerAssumption DEF Ground, Rootable, Slot
    <3> QED
      BY <1>0, <3>1, <3>2, HandlerAssumption DEF Histories, Slot
  <2>2. /\ h' \in OurHistory /\ Sane(h') /\ h'.root = b[1]
        /\ \A a \in OurHistory : Older(a, h) => Older(a, h')
        /\ \A v \in OurVote : KnownTo(v, h) => KnownTo(v, h')
    BY <1>5, <2>1, RootedHistory
  <2>3. Types'
    BY <1>0, <1>3, <1>5, <2>1, <2>2, SMTT(20), Zenon DEF Types
  <2>4. Histories'
    <3>1. \A i \in 1..Len(ops) : ops[i].hist \in OurHistory
      BY <1>0, OpsHistories DEF Types
    <3>2. \A i \in 1..Len(ops) : Older(ops[i].hist, h')
      BY <1>0, <2>2, <3>1 DEF Histories
    <3>3. Older(disk, h')
      BY <1>0, <2>2, Zenon DEF Histories, Types
    <3> QED
      BY <1>0, <1>3, <2>2, <3>2, <3>3 DEF Histories
  <2>5. Out'
    BY <1>0, <1>3, <2>2 DEF Out, Types
  <2>6. GoodTodo(todo, h)'
    BY <1>2
  <2>7. Work'
    BY <1>5, <2>1, <2>2, <2>6, HandlerAssumption DEF Work, Slot
  <2>8. NeverConflicting'
    BY <1>0, <1>3 DEF NeverConflicting
  <2> QED
    BY <2>3, <2>4, <2>5, <2>7, <2>8 DEF IInv
<1> QED
  BY <1>4, <1>5 DEF CheckRootableBlocks

(* A step that adds to the history no vote: a certificate or a ready parent. *)
LEMMA SameVotesKeeps ==
    ASSUME IInv, h' \in OurHistory, h'.cast = h.cast, h'.root = h.root,
           UNCHANGED <<ops, released, stored, disk, sent, root, pooled, pending>>,
           GoodTodo(todo', h)
    PROVE  IInv'
<1>0. Types /\ Histories /\ Out /\ Work /\ NeverConflicting
  BY DEF IInv
<1>1. Types'
  BY <1>0 DEF Types
<1>2. Histories'
  <2>1. Sane(h')
    BY <1>0, Zenon DEF Histories, Sane
  <2>2. \A a : Older(a, h) => Older(a, h')
    BY DEF Older
  <2> QED
    BY <1>0, <2>1, <2>2 DEF Histories
<1>3. Out'
  BY <1>0 DEF Out, KnownTo
<1>4. GoodTodo(todo', h')
  <2>1. \A c : FirstFor(c, h) => FirstFor(c, h')
    BY DEF FirstFor
  <2>2. \A c : CallSane(c, h) => CallSane(c, h')
    BY <2>1 DEF CallSane
  <2> QED
    BY <2>2 DEF GoodTodo
<1>5. Work'
  BY <1>0, <1>4 DEF Work
<1>6. NeverConflicting'
  BY <1>0 DEF NeverConflicting
<1> QED
  BY <1>1, <1>2, <1>3, <1>5, <1>6 DEF IInv

LEMMA AddParentReadyVotes ==
    ASSUME h \in OurHistory, NEW s \in Slot, NEW p \in Known, AddParentReady(s, p)
    PROVE  h' \in OurHistory /\ h'.cast = h.cast /\ h'.root = h.root
BY DEF AddParentReady, OurHistory

(* The call that looks at the pending blocks is always possible.             *)
LEMMA PendingCall ==
    ASSUME NEW g
    PROVE  GoodTodo(<<Call("pending", <<0, 0>>)>>, g)
BY OneCall DEF Call, CallSane, OurCall

LEMMA AddMissingParentReadyKeeps ==
    ASSUME IInv, NEW b \in Block, AddMissingParentReady(b)
    PROVE  IInv'
<1>1. /\ GoodTodo(todo, h) /\ todo # <<>> /\ pending \subseteq Block /\ h \in OurHistory
      /\ \A p \in pending : p[1] >= h.root
  BY DEF IInv, Work, Types, AddMissingParentReady, Doing
<1>2. UNCHANGED <<ops, released, stored, disk, sent, root, pooled, pending>>
  BY Zenon DEF AddMissingParentReady, service, ledger, pool
<1>3. CASE MissesParentReady(b)
  <2>1. GoodTodo(<<Call("pending", <<0, 0>>)>>, h)
    BY PendingCall
  <2>2. \A i \in 1..Len(<<Call("pending", <<0, 0>>)>>) :
            <<Call("pending", <<0, 0>>)>>[i][1] # "root"
    BY DEF Call
  <2>3. GoodTodo(todo', h)
    BY <1>1, <1>3, <2>1, <2>2, GoodThen, Zenon DEF AddMissingParentReady, Then
  <2>4. b[1] \in Slot /\ Parent[b] \in Known
    BY BlockVotes, HandlerAssumption DEF BlockTypes
  <2>5. AddParentReady(b[1], Parent[b])
    BY <1>3, Zenon DEF AddMissingParentReady
  <2>6. h' \in OurHistory /\ h'.cast = h.cast /\ h'.root = h.root
    BY <1>1, <2>4, <2>5, AddParentReadyVotes
  <2> QED
    BY <1>2, <2>3, <2>6, SameVotesKeeps
<1>4. CASE ~MissesParentReady(b)
  <2>1. GoodTodo(todo', h)
    BY <1>1, <1>4, GoodRest, Zenon DEF AddMissingParentReady, Then
  <2>2. UNCHANGED h
    BY <1>4 DEF AddMissingParentReady
  <2> QED
    BY <1>1, <1>2, <2>1, <2>2, StillKeeps
<1> QED
  BY <1>3, <1>4

LEMMA SendVotesKeeps ==
    ASSUME IInv, SendVotes
    PROVE  IInv'
<1>0. Types /\ Histories /\ Out /\ Work /\ NeverConflicting
  BY DEF IInv
<1>1. /\ UNCHANGED <<h, pending, todo, ops, stored, disk, sent, root, pooled>>
      /\ released' = Len(ops)
  BY DEF SendVotes, handler, ledger, pool
<1>2. Len(ops) \in 0..Len(ops)
  BY <1>0 DEF Types
<1>3. Types'
  BY <1>0, <1>1, <1>2 DEF Types
<1>4. Histories'
  BY <1>0, <1>1 DEF Histories
<1>5. Out'
  BY <1>0, <1>1 DEF Out
<1>6. Work'
  BY <1>0, <1>1 DEF Work
<1>7. NeverConflicting'
  BY <1>0, <1>1 DEF NeverConflicting
<1> QED
  BY <1>3, <1>4, <1>5, <1>6, <1>7 DEF IInv

-----------------------------------------------------------------------------
(* The events                                                                *)

(* try_skip_window() makes calls for slots from the root on.                 *)
LEMMA SkipWindowCalls ==
    ASSUME NEW s \in Int, root \in Slot, h \in OurHistory, h.root <= root
    PROVE  /\ GoodTodo(SkipWindow(s), h)
           /\ \A i \in 1..Len(SkipWindow(s)) : SkipWindow(s)[i][1] = "skip"
<1> DEFINE S == {FirstOf(s), root, 1}
           from == CHOOSE t \in S : \A u \in S : u <= t
           m == LastOf(s) + 1 - from
           n == [i \in 1..m |-> Call("skip", <<from + i - 1, 0>>)]
<1>1. SkipWindow(s) = n
  BY DEF SkipWindow
<1>2. FirstOf(s) \in Int /\ LastOf(s) \in Int /\ root \in Nat /\ h.root \in Nat
  BY HandlerAssumption, HistoryNumbers DEF FirstOf, LastOf, Slot
<1>3. \E t \in S : \A u \in S : u <= t
  BY <1>2
<1>4. from \in S /\ \A u \in S : u <= from
  BY <1>3
<1>5. from \in Nat /\ from >= h.root /\ m \in Int
  BY <1>2, <1>4
<1> HIDE DEF from, m, S
<1>6. \A i \in 1..m : n[i] = <<"skip", <<from + i - 1, 0>>>> /\ from + i - 1 \in Nat /\ from + i - 1 >= h.root
  BY <1>2, <1>5 DEF Call
<1>7. \A i \in 1..m : n[i] \in OurCall
  BY <1>6 DEF OurCall
<1>8. n \in Seq(OurCall) /\ \A i \in 1..Len(n) : i \in 1..m
  <2>1. PICK k \in Nat : 1..m = 1..k
    <3>1. CASE m \in Nat
      BY <3>1
    <3>2. CASE m \notin Nat
      <4>1. 1..m = 1..0
        BY <1>5, <3>2
      <4> QED
        BY <4>1, Zenon
    <3> QED
      BY <3>1, <3>2
  <2>2. n \in [1..k -> OurCall]
    BY <1>7, <2>1, Zenon
  <2> HIDE DEF n
  <2>3. n \in Seq(OurCall) /\ Len(n) = k
    BY <2>2
  <2> QED
    BY <2>1, <2>3, Zenon
<1> HIDE DEF n
<1>9. ASSUME NEW i \in 1..Len(n)
      PROVE  n[i][1] = "skip" /\ CallSane(n[i], h)
  <2>1. n[i][1] = "skip" /\ n[i][2][1] >= h.root
    BY <1>6, <1>8
  <2> QED
    BY <2>1 DEF CallSane
<1>10. GoodTodo(n, h)
  BY <1>8, <1>9 DEF GoodTodo, RootLast
<1> QED
  BY <1>1, <1>9, <1>10

(* The same with the fallback vote at the end.                               *)
LEMMA FallbackCalls ==
    ASSUME NEW s \in Slot, root \in Slot, h \in OurHistory, h.root <= root, s > root,
           NEW b \in Nat \X Nat, b[1] = s, FirstFor(b, h)
    PROVE  GoodTodo(Append(SkipWindow(s), Call("fallback", b)), h)
<1> DEFINE n == SkipWindow(s)
           c == Call("fallback", b)
           u == Append(n, c)
<1>1. s \in Int /\ root \in Nat /\ h.root \in Nat
  BY HandlerAssumption, HistoryNumbers DEF Slot
<1>2. GoodTodo(n, h) /\ \A i \in 1..Len(n) : n[i][1] = "skip"
  BY <1>1, SkipWindowCalls
<1>3. c \in OurCall /\ CallSane(c, h) /\ c[1] = "fallback"
  BY <1>1 DEF Call, OurCall, CallSane
<1> HIDE DEF n, c
<1>4. n \in Seq(OurCall)
  BY <1>2 DEF GoodTodo
<1>5. /\ u \in Seq(OurCall)
      /\ \A i \in 1..Len(u) : (i \in 1..Len(n) /\ u[i] = n[i]) \/ u[i] = c
  BY <1>3, <1>4
<1> HIDE DEF u
<1>6. \A i \in 1..Len(u) : u[i][1] # "root" /\ CallSane(u[i], h)
  BY <1>2, <1>3, <1>5 DEF GoodTodo
<1>7. GoodTodo(u, h)
  BY <1>5, <1>6 DEF GoodTodo, RootLast
<1> QED
  BY <1>7 DEF u, n, c

(* The calls of a Block event after a notarize vote, and otherwise.          *)
LEMMA BlockCalls ==
    ASSUME NEW b \in Nat \X Nat, NEW g, b[1] >= g.root
    PROVE  /\ GoodTodo(<<Call("final", b), Call("pending", <<0, 0>>),
                         Call("root", <<0, 0>>), Call("missing", b)>>, g)
           /\ GoodTodo(<<Call("root", <<0, 0>>), Call("missing", b)>>, g)
           /\ GoodTodo(<<Call("final", b)>>, g)
<1> DEFINE t == <<Call("final", b), Call("pending", <<0, 0>>), Call("root", <<0, 0>>), Call("missing", b)>>
           u == <<Call("root", <<0, 0>>), Call("missing", b)>>
<1>1. /\ Call("final", b) \in OurCall /\ Call("pending", <<0, 0>>) \in OurCall
      /\ Call("root", <<0, 0>>) \in OurCall /\ Call("missing", b) \in OurCall
  BY DEF Call, OurCall
<1>2. /\ CallSane(Call("final", b), g) /\ CallSane(Call("pending", <<0, 0>>), g)
      /\ CallSane(Call("root", <<0, 0>>), g) /\ CallSane(Call("missing", b), g)
  BY DEF Call, CallSane
<1>3. t \in Seq(OurCall) /\ Len(t) = 4 /\ u \in Seq(OurCall) /\ Len(u) = 2
  BY <1>1
<1>4. \A i \in 1..4 : CallSane(t[i], g)
  BY <1>2
<1>5. \A i \in 1..2 : CallSane(u[i], g)
  BY <1>2
<1>6. RootLast(t)
  BY DEF RootLast, Call
<1>7. RootLast(u)
  BY DEF RootLast, Call
<1>8. GoodTodo(<<Call("final", b)>>, g)
  BY <1>1, <1>2, OneCall
<1> HIDE DEF t, u
<1>9. GoodTodo(t, g) /\ GoodTodo(u, g)
  BY <1>3, <1>4, <1>5, <1>6, <1>7 DEF GoodTodo
<1> QED
  BY <1>8, <1>9 DEF t, u

LEMMA BlockEventKeeps ==
    ASSUME IInv, NEW b \in Block, BlockEvent(b)
    PROVE  IInv'
<1>1. /\ GoodTodo(todo, h) /\ pending \subseteq Block /\ h \in OurHistory
      /\ \A p \in pending : p[1] >= h.root
      /\ h.root <= root /\ root \in Nat /\ h.root \in Nat
  BY HistoryNumbers, HandlerAssumption DEF IInv, Work, Types, Slot
<1>2. b \in Nat \X Nat /\ b[1] \in Nat
  BY BlockVotes DEF BlockTypes
<1>3. UNCHANGED <<released, stored, disk, sent, root>>
  BY DEF BlockEvent, service
<1>4. CASE b[1] <= root
  <2>1. UNCHANGED <<h, ops, pooled, pending, todo>>
    BY <1>4 DEF BlockEvent
  <2> QED
    BY <1>1, <1>3, <2>1, StillKeeps
<1>5. CASE ~(b[1] <= root) /\ MayNotarize(b)
  <2> DEFINE v == BlockVote("Notarize", b)
  <2>1. v \in OurVote /\ SlotOf(v) = b[1] /\ v.type = "Notarize" /\ b[1] >= h.root
    BY <1>1, <1>2, <1>5, BlockVotes DEF BlockTypes
  <2>2. Fits(v, h)
    <3>1. ~Voted(SlotOf(v)) /\ v.type \in FirstTypes
      BY <1>5, <2>1 DEF MayNotarize, FirstTypes
    <3> QED
      BY <2>1, <3>1, UnvotedFits
  <2>3. GoodTodo(todo', h)
    BY <1>2, <1>5, <2>1, BlockCalls, Zenon DEF BlockEvent
  <2>4. CastVote(v) /\ pending' \subseteq pending
    BY <1>5 DEF BlockEvent
  <2> HIDE DEF v
  <2> QED
    BY <1>3, <2>1, <2>2, <2>3, <2>4, CastKeeps
<1>6. CASE ~(b[1] <= root) /\ ~MayNotarize(b)
  <2>1. b[1] >= h.root
    BY <1>1, <1>2, <1>6
  <2>2. GoodTodo(todo', h)
    BY <1>2, <1>6, <2>1, BlockCalls, Zenon DEF BlockEvent
  <2>3. UNCHANGED <<h, ops, pooled>> /\ pending' \subseteq pending \cup {b}
    BY <1>6 DEF BlockEvent
  <2>4. pending' \subseteq Block /\ \A p \in pending' : p[1] >= h.root
    BY <1>1, <2>1, <2>3
  <2> QED
    BY <1>3, <2>2, <2>3, <2>4, StillKeeps
<1> QED
  BY <1>4, <1>5, <1>6

LEMMA BlockNotarizedKeeps ==
    ASSUME IInv, NEW b \in Block, BlockNotarized(b)
    PROVE  IInv'
<1>1. h \in OurHistory /\ h.root <= root /\ root \in Nat /\ h.root \in Nat
  BY HistoryNumbers, HandlerAssumption DEF IInv, Work, Types, Slot
<1>2. b \in Nat \X Nat /\ b[1] \in Nat /\ b[1] > root
  BY BlockVotes DEF BlockTypes, BlockNotarized
<1>3. UNCHANGED <<ops, released, stored, disk, sent, root, pooled, pending>>
  BY DEF BlockNotarized, service, ledger, pool
<1>4. h' \in OurHistory /\ h'.cast = h.cast /\ h'.root = h.root
  BY <1>1 DEF BlockNotarized, OurHistory
<1>5. b[1] >= h.root
  BY <1>1, <1>2
<1>6. GoodTodo(todo', h)
  BY <1>2, <1>5, BlockCalls, Zenon DEF BlockNotarized
<1> QED
  BY <1>3, <1>4, <1>6, SameVotesKeeps, Zenon

LEMMA ParentReadyKeeps ==
    ASSUME IInv, NEW s \in Slot, NEW p \in Known, HandleParentReady(s, p)
    PROVE  IInv'
<1>1. UNCHANGED <<ops, released, stored, disk, sent, root, pooled, pending>>
  BY DEF HandleParentReady, service, ledger
<1>2. h' \in OurHistory /\ h'.cast = h.cast /\ h'.root = h.root
  BY AddParentReadyVotes DEF IInv, Types, HandleParentReady
<1>3. GoodTodo(todo', h)
  BY PendingCall DEF HandleParentReady
<1> QED
  BY <1>1, <1>2, <1>3, SameVotesKeeps

LEMMA TimerFiresKeeps ==
    ASSUME IInv, Ground, NEW s \in Slot, TimerFires(s)
    PROVE  IInv'
<1>1. /\ pending \subseteq Block /\ h \in OurHistory /\ h.root <= root /\ root \in Slot
      /\ \A p \in pending : p[1] >= h.root
  BY DEF IInv, Work, Types
<1> DEFINE t == IF timers[s] = LastOf(s) - s + 2 THEN s ELSE LastOf(s) + 1 - timers[s]
<1>2. t \in Int
  BY HandlerAssumption DEF Ground, LastOf, FirstOf, Slot
<1>3. todo' = <<>> \/ todo' = SkipWindow(t)
  BY DEF TimerFires
<1> HIDE DEF t
<1>4. GoodTodo(todo', h)
  BY <1>1, <1>2, <1>3, SkipWindowCalls, NoCalls
<1>5. UNCHANGED <<h, ops, released, stored, disk, sent, root, pooled, pending>>
  BY DEF TimerFires, service, ledger, pool
<1> QED
  BY <1>1, <1>4, <1>5, StillKeeps

(* A first vote in our own pool is the first vote of the history.            *)
LEMMA PooledFirst ==
    ASSUME IInv, NEW s \in Slot, s > root, NEW v \in FirstVotes(s)
    PROVE  v \in h.cast /\ v \in OurVote /\ SlotOf(v) = s /\ v.type \in FirstTypes
<1>1. v \in pooled /\ SlotOf(v) = s /\ v.type \in FirstTypes
  BY DEF FirstVotes, FirstTypes
<1>2. /\ h \in OurHistory /\ h.root <= root /\ root \in Nat /\ h.root \in Nat /\ s \in Nat
      /\ pooled \subseteq OurVote
  <2>1. /\ h \in OurHistory /\ h.root <= root /\ root \in Slot /\ pooled \subseteq OurVote
    BY Zenon DEF IInv, Work, Types
  <2>2. h.root \in Nat
    BY <2>1, HistoryNumbers, Zenon
  <2>3. root \in Nat /\ s \in Nat
    BY <2>1, HandlerAssumption DEF Slot
  <2> QED
    BY <2>1, <2>2, <2>3, Zenon
<1>3. KnownTo(v, h)
  BY <1>1, Zenon DEF IInv, Out
<1> QED
  BY <1>1, <1>2, <1>3 DEF KnownTo

LEMMA SafeToNotarKeeps ==
    ASSUME IInv, NEW b \in Block, SafeToNotar(b)
    PROVE  IInv'
<1>1. /\ pending \subseteq Block /\ h \in OurHistory /\ h.root <= root /\ root \in Slot
      /\ \A p \in pending : p[1] >= h.root
  BY DEF IInv, Work, Types
<1>2. b \in Nat \X Nat /\ b[1] \in Slot /\ b[2] # 0 /\ b[1] > root
  BY BlockVotes DEF BlockTypes, SafeToNotar
<1>3. PICK v \in FirstVotes(b[1]) : v # BlockVote("Notarize", b)
  BY DEF SafeToNotar
<1>4. v \in h.cast /\ v \in OurVote /\ SlotOf(v) = b[1] /\ v.type \in FirstTypes
  BY <1>2, PooledFirst
<1>5. v.type = "Notarize" => v.block # b
  BY <1>3, <1>4 DEF OurVote, BlockVote
<1>6. FirstFor(b, h)
  BY <1>2, <1>4, <1>5 DEF FirstFor, FirstTypes
<1>7. GoodTodo(todo', h)
  BY <1>1, <1>2, <1>6, FallbackCalls, Zenon DEF SafeToNotar
<1>8. UNCHANGED <<h, ops, released, stored, disk, sent, root, pooled, pending>>
  BY Zenon DEF SafeToNotar, service, ledger, pool
<1> QED
  BY <1>1, <1>7, <1>8, StillKeeps

LEMMA SafeToSkipKeeps ==
    ASSUME IInv, NEW s \in Slot, SafeToSkip(s)
    PROVE  IInv'
<1>1. /\ pending \subseteq Block /\ h \in OurHistory /\ h.root <= root /\ root \in Slot
      /\ \A p \in pending : p[1] >= h.root
  BY DEF IInv, Work, Types
<1>2. PICK v \in FirstVotes(s) : v.type = "Notarize"
  BY DEF SafeToSkip
<1>3. s > root /\ <<s, 0>> \in Nat \X Nat
  BY HandlerAssumption DEF SafeToSkip, Slot
<1>4. v \in h.cast /\ v \in OurVote /\ SlotOf(v) = s
  BY <1>3, PooledFirst
<1>5. v.block # <<s, 0>>
  BY <1>2, <1>4, VoteTypes DEF BlockTypes
<1>6. FirstFor(<<s, 0>>, h)
  BY <1>2, <1>4, <1>5 DEF FirstFor
<1>7. GoodTodo(todo', h)
  BY <1>1, <1>3, <1>6, FallbackCalls DEF SafeToSkip
<1>8. UNCHANGED <<h, ops, released, stored, disk, sent, root, pooled, pending>>
  BY DEF SafeToSkip, service, ledger, pool
<1> QED
  BY <1>1, <1>7, <1>8, StillKeeps

LEMMA FinalizedKeeps ==
    ASSUME IInv, NEW b \in Block, Finalized(b)
    PROVE  IInv'
<1>1. /\ pending \subseteq Block /\ \A p \in pending : p[1] >= h.root
      /\ h.root <= root /\ root \in Nat /\ h.root \in Nat
  BY HistoryNumbers, HandlerAssumption DEF IInv, Work, Types, Slot
<1>2. b \in Nat \X Nat /\ b[1] \in Nat /\ b[1] > root
  BY BlockVotes DEF BlockTypes, Finalized
<1>3. b[1] >= h.root
  BY <1>1, <1>2
<1>4. GoodTodo(todo', h)
  BY <1>2, <1>3, BlockCalls, Zenon DEF Finalized
<1>5. UNCHANGED <<h, ops, released, stored, disk, sent, root, pooled, pending>>
  BY Zenon DEF Finalized, service, ledger, pool
<1> QED
  BY <1>1, <1>4, <1>5, StillKeeps, SMTT(20), Zenon

(* The operations that wait, with those of a refresh at the end.             *)
LEMMA OpsConcat ==
    ASSUME NEW s \in Seq(OurOp), NEW n \in Seq(OurOp)
    PROVE  /\ s \o n \in Seq(OurOp) /\ Len(s \o n) >= Len(s) /\ Len(s) \in Nat
           /\ \A i \in 1..Len(s \o n) :
                 \/ i \in 1..Len(s) /\ (s \o n)[i] = s[i]
                 \/ i > Len(s) /\ \E j \in 1..Len(n) : (s \o n)[i] = n[j]
<1>1. s \o n \in Seq(OurOp) /\ Len(s \o n) = Len(s) + Len(n) /\ Len(s) \in Nat /\ Len(n) \in Nat
  OBVIOUS
<1>2. \A i \in 1..Len(s \o n) : (s \o n)[i] = IF i <= Len(s) THEN s[i] ELSE n[i - Len(s)]
  OBVIOUS
<1>3. ASSUME NEW i \in 1..Len(s \o n), i > Len(s)
      PROVE  i - Len(s) \in 1..Len(n) /\ (s \o n)[i] = n[i - Len(s)]
  BY <1>1, <1>2, <1>3
<1>4. ASSUME NEW i \in 1..Len(s \o n), i > Len(s)
      PROVE  \E j \in 1..Len(n) : (s \o n)[i] = n[j]
  BY <1>3, <1>4
<1>5. ASSUME NEW i \in 1..Len(s \o n), i <= Len(s)
      PROVE  i \in 1..Len(s) /\ (s \o n)[i] = s[i]
  BY <1>1, <1>2, <1>5
<1> QED
  BY <1>1, <1>4, <1>5

(* A refresh sends votes of the history again, with the history of now.      *)
LEMMA StandstillKeeps ==
    ASSUME IInv, NEW s \in Slot, Standstill(s)
    PROVE  IInv'
<1>0. Types /\ Histories /\ Out /\ Work /\ NeverConflicting
  BY DEF IInv
<1>1. PICK S \in SUBSET {v \in h.cast : SlotOf(v) > s} : \E q \in Orders(S) :
          /\ ops' = ops \o [i \in DOMAIN q |-> [vote |-> q[i], hist |-> h]]
          /\ pooled' = pooled \cup S
  BY Zenon DEF Standstill
<1>2. PICK q \in [1..Cardinality(S) -> S] :
          /\ ops' = ops \o [i \in DOMAIN q |-> [vote |-> q[i], hist |-> h]]
          /\ pooled' = pooled \cup S
  BY <1>1, Zenon DEF Orders
<1> DEFINE n == [i \in DOMAIN q |-> [vote |-> q[i], hist |-> h]]
<1>3. UNCHANGED <<h, pending, todo, released, stored, disk, sent, root>>
  BY Zenon DEF Standstill, handler, service, ledger
<1>4. S \subseteq h.cast /\ S \subseteq OurVote /\ IsFiniteSet(S) /\ h \in OurHistory /\ ops \in Seq(OurOp)
  BY <1>0, <1>1, FS_Subset, Zenon DEF Types, Histories, Sane, OurHistory
<1>5. Cardinality(S) \in Nat
  BY <1>4, FS_CardinalityType
<1>6. \A i \in 1..Cardinality(S) : q[i] \in S /\ n[i] = [vote |-> q[i], hist |-> h]
  BY Zenon
<1>7. n \in Seq(OurOp) /\ Len(n) = Cardinality(S)
  <2>1. n \in [1..Cardinality(S) -> OurOp]
    BY <1>4, <1>6 DEF OurOp
  <2> HIDE DEF n
  <2> QED
    BY <1>5, <2>1, FunctionIsSequence, Zenon
<1>8. ops' = ops \o n
  BY <1>2
<1> HIDE DEF n
<1>9. \A j \in 1..Len(n) : n[j].hist = h /\ n[j].vote \in h.cast
  <2> SUFFICES ASSUME NEW j \in 1..Len(n) PROVE n[j].hist = h /\ n[j].vote \in h.cast
    OBVIOUS
  <2>1. q[j] \in S /\ n[j] = [vote |-> q[j], hist |-> h]
    BY <1>6, <1>7, Zenon
  <2>2. q[j] \in h.cast
    BY <1>4, <2>1, Zenon
  <2> QED
    BY <2>1, <2>2
<1>10. /\ ops' \in Seq(OurOp) /\ Len(ops') >= Len(ops) /\ Len(ops) \in Nat
       /\ \A i \in 1..Len(ops') :
             \/ i \in 1..Len(ops) /\ ops'[i] = ops[i]
             \/ i > Len(ops) /\ ops'[i].hist = h /\ ops'[i].vote \in h.cast
  <2>1. /\ ops' \in Seq(OurOp) /\ Len(ops') >= Len(ops) /\ Len(ops) \in Nat
        /\ \A i \in 1..Len(ops') :
              \/ i \in 1..Len(ops) /\ ops'[i] = ops[i]
              \/ i > Len(ops) /\ \E j \in 1..Len(n) : ops'[i] = n[j]
    BY <1>4, <1>7, <1>8, OpsConcat
  <2> QED
    BY <1>9, <2>1, Zenon
<1>11. Types'
  <2>1. released' \in 0..Len(ops')
    BY <1>0, <1>3, <1>10 DEF Types
  <2> QED
    BY <1>0, <1>2, <1>3, <1>4, <1>10, <2>1, Zenon DEF Types
<1>12. Older(h, h) /\ Sane(h) /\ Older(disk, h)
  BY <1>0, <1>4, OlderReflexive, Zenon DEF Histories
<1>13. Histories'
  <2>1. ASSUME NEW i \in 1..Len(ops')
        PROVE  /\ Sane(ops'[i].hist) /\ ops'[i].vote \in ops'[i].hist.cast
               /\ Older(disk, ops'[i].hist) /\ Older(ops'[i].hist, h)
    <3>1. CASE i \in 1..Len(ops) /\ ops'[i] = ops[i]
      BY <1>0, <3>1 DEF Histories
    <3>2. CASE ops'[i].hist = h /\ ops'[i].vote \in h.cast
      BY <1>12, <3>2, Zenon
    <3> QED
      BY <1>10, <3>1, <3>2, Zenon
  <2>2. ASSUME NEW i \in 1..Len(ops'), NEW j \in 1..Len(ops'), i < j
        PROVE  Older(ops'[i].hist, ops'[j].hist)
    <3>1. CASE j \in 1..Len(ops) /\ ops'[j] = ops[j]
      <4>1. i \in 1..Len(ops) /\ ops'[i] = ops[i]
        BY <1>10, <2>2, <3>1
      <4> QED
        BY <1>0, <2>2, <3>1, <4>1 DEF Histories
    <3>2. CASE ops'[j].hist = h
      BY <2>1, <3>2
    <3> QED
      BY <1>10, <3>1, <3>2
  <2> QED
    BY <1>0, <1>3, <1>12, <2>1, <2>2, Zenon DEF Histories
<1>14. Out'
  BY <1>0, <1>2, <1>3, <1>4, Zenon DEF Out, KnownTo
<1>15. Work'
  BY <1>0, <1>3, Zenon DEF Work
<1>16. NeverConflicting'
  BY <1>0, <1>3 DEF NeverConflicting
<1> QED
  BY <1>11, <1>13, <1>14, <1>15, <1>16 DEF IInv

-----------------------------------------------------------------------------
(* The voting service, a crash, and the start                                *)

(* The head of the operations and the rest.                                  *)
LEMMA OpsTail ==
    ASSUME NEW s \in Seq(OurOp), s # <<>>
    PROVE  /\ Tail(s) \in Seq(OurOp) /\ Len(Tail(s)) = Len(s) - 1 /\ Len(s) \in Nat
           /\ Head(s) = s[1] /\ 1 \in 1..Len(s)
           /\ \A i \in 1..Len(Tail(s)) : Tail(s)[i] = s[i + 1] /\ i + 1 \in 1..Len(s) /\ 1 < i + 1
OBVIOUS

(* Storing a history: it is younger than the stored one and knows its vote.  *)
LEMMA StoreVoteKeeps ==
    ASSUME IInv, StoreVote
    PROVE  IInv'
<1>0. Types /\ Histories /\ Out /\ Work /\ NeverConflicting
  BY DEF IInv
<1>1. UNCHANGED <<h, pending, todo, sent, root, pooled>>
  BY DEF StoreVote, handler, ledger, pool
<1>2. ops \in Seq(OurOp) /\ ops # <<>> /\ released \in 1..Len(ops)
  BY <1>0 DEF Types, StoreVote
<1> DEFINE o == ops[1]
<1>3. disk' = o.hist /\ stored' = {o.vote} /\ ops' = Tail(ops) /\ released' = released - 1
  BY <1>2, OpsTail DEF StoreVote
<1>4. 1 \in 1..Len(ops) /\ o \in OurOp /\ o.hist \in OurHistory /\ o.vote \in OurVote
  BY <1>2, OpsTail, OpsHistories
<1>5. Sane(o.hist) /\ o.vote \in o.hist.cast /\ Older(disk, o.hist) /\ Older(o.hist, h)
  BY <1>0, <1>4 DEF Histories
<1>6. /\ ops' \in Seq(OurOp) /\ Len(ops') = Len(ops) - 1 /\ Len(ops) \in Nat
      /\ \A i \in 1..Len(ops') : ops'[i] = ops[i + 1] /\ i + 1 \in 1..Len(ops) /\ 1 < i + 1
  BY <1>2, <1>3, OpsTail
<1> HIDE DEF o
<1>7. Types'
  <2>1. released' \in 0..Len(ops')
    BY <1>2, <1>3, <1>6
  <2> QED
    BY <1>0, <1>1, <1>3, <1>4, <1>6, <2>1 DEF Types
<1>8. Histories'
  <2>1. ASSUME NEW i \in 1..Len(ops')
        PROVE  /\ Sane(ops'[i].hist) /\ ops'[i].vote \in ops'[i].hist.cast
               /\ Older(o.hist, ops'[i].hist) /\ Older(ops'[i].hist, h)
    <3>1. ops'[i] = ops[i + 1] /\ i + 1 \in 1..Len(ops) /\ 1 < i + 1
      BY <1>6
    <3>2. Older(o.hist, ops[i + 1].hist)
      BY <1>0, <1>4, <3>1, Zenon DEF Histories, o
    <3> QED
      BY <1>0, <3>1, <3>2, Zenon DEF Histories
  <2>2. ASSUME NEW i \in 1..Len(ops'), NEW j \in 1..Len(ops'), i < j
        PROVE  Older(ops'[i].hist, ops'[j].hist)
    <3>1. i + 1 < j + 1
      BY <2>2
    <3>2. /\ ops'[i] = ops[i + 1] /\ i + 1 \in 1..Len(ops)
          /\ ops'[j] = ops[j + 1] /\ j + 1 \in 1..Len(ops)
      BY <1>6
    <3> QED
      BY <1>0, <3>1, <3>2 DEF Histories
  <2> QED
    BY <1>0, <1>1, <1>3, <1>5, <2>1, <2>2, Zenon DEF Histories
<1>9. Out'
  <2>1. \A v \in sent : KnownTo(v, o.hist)
    BY <1>0, <1>4, <1>5, KnownOlder, Zenon DEF Out, Types
  <2> QED
    BY <1>0, <1>1, <1>3, <1>5, <2>1, Zenon DEF Out
<1>10. Work'
  BY <1>0, <1>1 DEF Work
<1>11. NeverConflicting'
  BY <1>0, <1>1 DEF NeverConflicting
<1> QED
  BY <1>7, <1>8, <1>9, <1>10, <1>11 DEF IInv

(* A vote of the stored history conflicts with no vote that is out.          *)
LEMMA BroadcastKeeps ==
    ASSUME IInv, Broadcast
    PROVE  IInv'
<1>0. Types /\ Histories /\ Out /\ Work /\ NeverConflicting
  BY DEF IInv
<1>1. /\ UNCHANGED <<h, pending, todo, ops, released, disk, root, pooled>>
      /\ sent' = sent \cup stored /\ stored' = {}
  BY DEF Broadcast, handler, ledger, pool
<1>2. Types'
  BY <1>0, <1>1 DEF Types
<1>3. Histories'
  BY <1>0, <1>1, Zenon DEF Histories
<1>4. Out'
  BY <1>0, <1>1, Zenon DEF Out, KnownTo
<1>5. Work'
  BY <1>0, <1>1 DEF Work
<1>6. ASSUME NEW v \in stored, NEW w \in sent \cup stored
      PROVE  ~Conflict(v, w) /\ ~Conflict(w, v)
  <2>1. v \in disk.cast /\ SlotOf(v) >= disk.root /\ disk \in OurHistory
    BY <1>0, Zenon DEF Out, Histories, Sane, Types
  <2>2. KnownTo(w, disk) /\ w \in OurVote
    BY <1>0, Zenon DEF Out, Types, KnownTo
  <2>3. CASE w \in disk.cast
    BY <1>0, <2>1, <2>3, Zenon DEF Histories, Sane
  <2>4. CASE SlotOf(w) < disk.root
    <3>1. SlotOf(v) \in Nat /\ SlotOf(w) \in Nat /\ disk.root \in Nat
      BY <2>1, <2>2, HistoryNumbers, VoteTypes, Zenon
    <3>2. SlotOf(v) # SlotOf(w)
      BY <2>1, <2>4, <3>1
    <3> QED
      BY <3>2 DEF Conflict
  <2> QED
    BY <2>2, <2>3, <2>4, Zenon DEF KnownTo
<1>7. NeverConflicting'
  BY <1>0, <1>1, <1>6 DEF NeverConflicting
<1> QED
  BY <1>2, <1>3, <1>4, <1>5, <1>7 DEF IInv

(* The restored history is the stored one.                                   *)
LEMMA CrashKeeps ==
    ASSUME IInv, Crash
    PROVE  IInv'
<1>0. Types /\ Histories /\ Out /\ Work /\ NeverConflicting
  BY DEF IInv
<1>1. /\ h' = disk /\ pending' = {} /\ todo' = <<>> /\ ops' = <<>> /\ released' = 0
      /\ stored' = {} /\ pooled' = {} /\ UNCHANGED <<disk, sent, root>>
  BY DEF Crash
<1>2. <<>> \in Seq(OurOp) /\ Len(<<>>) = 0 /\ 0 \in 0..0
  OBVIOUS
<1>3. Types'
  BY <1>0, <1>1, <1>2 DEF Types
<1>4. Older(disk, disk) /\ Sane(disk)
  BY <1>0, OlderReflexive DEF Types, Histories
<1>5. Histories'
  BY <1>1, <1>4 DEF Histories
<1>6. Out'
  BY <1>0, <1>1 DEF Out
<1>7. disk.root <= root
  <2>1. disk.root \in Nat /\ h.root \in Nat /\ root \in Nat
    BY <1>0, HistoryNumbers, HandlerAssumption DEF Types, Slot
  <2> QED
    <3>1. disk.root <= h.root /\ h.root <= root
      BY <1>0, Zenon DEF Histories, Older, Work
    <3> QED
      BY <2>1, <3>1
<1>8. GoodTodo(todo, h)'
  BY <1>1, NoCalls
<1>9. Work'
  BY <1>1, <1>7, <1>8 DEF Work
<1>10. NeverConflicting'
  BY <1>0, <1>1 DEF NeverConflicting
<1> QED
  BY <1>3, <1>5, <1>6, <1>9, <1>10 DEF IInv

LEMMA InitIInv ==
    ASSUME Init
    PROVE  IInv /\ Ground
<1>1. /\ h = NewHistory /\ disk = NewHistory /\ ops = <<>> /\ released = 0 /\ stored = {}
      /\ sent = {} /\ pooled = {} /\ pending = {} /\ todo = <<>> /\ root = Start[1]
  BY DEF Init
<1>2. NewHistory \in OurHistory /\ NewHistory.cast = {} /\ NewHistory.root = 0
  <2>1. 0 \in Slot
    BY HandlerAssumption DEF Slot
  <2>2. NewHistory \in OurHistory
    BY <2>1 DEF NewHistory, OurHistory
  <2> QED
    BY <2>2 DEF NewHistory
<1>3. root \in Slot /\ 0 <= root
  BY <1>1, HandlerAssumption DEF Slot
<1>4. <<>> \in Seq(OurOp) /\ Len(<<>>) = 0 /\ 0 \in 0..0
  OBVIOUS
<1>5. Types
  BY <1>1, <1>2, <1>3, <1>4 DEF Types
<1>6. Sane(NewHistory)
  BY <1>2, FS_EmptySet DEF Sane
<1>7. Older(NewHistory, NewHistory)
  BY <1>2, OlderReflexive
<1>8. Histories
  BY <1>1, <1>6, <1>7 DEF Histories
<1>9. Out
  BY <1>1 DEF Out
<1>10. Work
  BY <1>1, <1>2, <1>3, NoCalls DEF Work
<1>11. NeverConflicting
  BY <1>1 DEF NeverConflicting
<1>12. Ground
  BY DEF Ground, Init
<1> QED
  BY <1>5, <1>8, <1>9, <1>10, <1>11, <1>12 DEF IInv

-----------------------------------------------------------------------------
(* The theorems                                                              *)

LEMMA AddParentReadyTimers ==
    ASSUME Ground, NEW s \in Slot, NEW p, AddParentReady(s, p)
    PROVE  timers' \in [Slot -> Int]
<1>1. LastOf(s) - s + 2 \in Int
  BY HandlerAssumption DEF LastOf, FirstOf, Slot
<1> QED
  BY <1>1 DEF Ground, AddParentReady

LEMMA GroundStep ==
    ASSUME Types, Ground, Next
    PROVE  Ground'
<1>1. CASE UNCHANGED <<finalized, timers>>
  BY <1>1 DEF Ground
<1>2. ASSUME NEW b \in Block, AddMissingParentReady(b)
      PROVE  Ground'
  <2>1. b[1] \in Slot
    BY BlockVotes DEF BlockTypes
  <2>2. UNCHANGED timers \/ AddParentReady(b[1], Parent[b])
    BY <1>2 DEF AddMissingParentReady
  <2>3. timers' \in [Slot -> Int] /\ UNCHANGED finalized
    BY <1>2, <2>1, <2>2, AddParentReadyTimers DEF Ground, AddMissingParentReady
  <2> QED
    BY <2>3 DEF Ground
<1>3. ASSUME NEW s \in Slot, NEW p \in Known, HandleParentReady(s, p)
      PROVE  Ground'
  BY <1>3, AddParentReadyTimers, SMTT(20) DEF HandleParentReady, Ground
<1>4. ASSUME CheckRootableBlocks
      PROVE  Ground'
  BY <1>4, Zenon DEF CheckRootableBlocks, Ground
<1>5. ASSUME NEW s \in Slot, TimerFires(s)
      PROVE  Ground'
  BY <1>5 DEF TimerFires, Ground
<1>6. ASSUME NEW b \in Chain, Finalized(b)
      PROVE  Ground'
  BY <1>6, HandlerAssumption DEF Finalized, Ground
<1>7. ASSUME Crash PROVE Ground'
  BY <1>7 DEF Crash, Ground
<1>8. CASE Calls
  <2>1. ASSUME NEW b, TryNotar(b) \/ TryFinal(b) \/ Fallback(b) \/ TrySkip(b)
        PROVE  UNCHANGED <<finalized, timers>>
    BY <2>1, Zenon DEF TryNotar, TryFinal, Fallback, TrySkip
  <2>2. CheckPendingBlocks \/ SendVotes => UNCHANGED <<finalized, timers>>
    BY DEF CheckPendingBlocks, SendVotes, handler
  <2> QED
    BY <1>1, <1>2, <1>4, <1>8, <2>1, <2>2, Zenon DEF Calls
<1>9. CASE Events
  <2>1. ASSUME NEW b, BlockEvent(b) \/ SafeToNotar(b) \/ BlockNotarized(b) \/ SafeToSkip(b)
        PROVE  UNCHANGED <<finalized, timers>>
    BY <2>1 DEF BlockEvent, SafeToNotar, BlockNotarized, SafeToSkip
  <2>2. ASSUME NEW s, FirstShred(s) \/ Standstill(s)
        PROVE  UNCHANGED <<finalized, timers>>
    BY <2>2, Zenon DEF FirstShred, Standstill, handler
  <2>3. ASSUME NEW s \in Slot, NEW p \in Chain \cup {Start}, ParentReady(s, p)
        PROVE  Ground'
    BY <1>3, <2>3, HandlerAssumption DEF ParentReady, Known
  <2>4. ASSUME NEW b \in Known, KickOff(b)
        PROVE  Ground'
    <3>1. root + 1 \in Slot
      BY <2>4, HandlerAssumption DEF Types, KickOff, Slot
    <3> QED
      BY <1>3, <2>4, <3>1 DEF KickOff
  <2> QED
    BY <1>1, <1>5, <1>6, <1>9, <2>1, <2>2, <2>3, <2>4 DEF Events
<1>10. CASE Others
  <2>1. ASSUME NEW v, StoreVote \/ Broadcast \/ Replay(v)
        PROVE  UNCHANGED <<finalized, timers>>
    BY <2>1, Zenon DEF StoreVote, Broadcast, Replay, handler
  <2> QED
    BY <1>1, <1>7, <1>10, <2>1 DEF Others
<1> QED
  BY <1>8, <1>9, <1>10 DEF Next

LEMMA IInvStep ==
    ASSUME IInv, Ground, [Next]_vars
    PROVE  IInv' /\ Ground'
<1>0. /\ Types /\ pending \subseteq Block /\ \A p \in pending : p[1] >= h.root
      /\ GoodTodo(todo, h)
  BY DEF IInv, Types, Work
<1>1. CASE UNCHANGED vars
  <2>1. UNCHANGED <<h, ops, released, stored, disk, sent, root, pooled, pending, todo, finalized, timers>>
    BY <1>1 DEF vars, handler, service, ledger, pool
  <2>2. IInv'
    BY <1>0, <2>1, StillKeeps
  <2> QED
    BY <2>1, <2>2 DEF Ground
<1>2. ASSUME Next PROVE Ground'
  BY <1>0, <1>2, GroundStep
<1>3. ASSUME Calls PROVE IInv'
  <2>1. ASSUME NEW s \in Slot, Fallback(<<s, 0>>) PROVE IInv'
    <3>1. <<s, 0>> \in Slot \X {0}
      OBVIOUS
    <3> QED
      BY <2>1, <3>1, FallbackKeeps
  <2>2. ASSUME NEW b \in Block, Fallback(b) PROVE IInv'
    BY <2>2, FallbackKeeps
  <2>3. ASSUME NEW b \in Block, TryNotar(b) PROVE IInv'
    BY <2>3, TryNotarKeeps
  <2>4. ASSUME NEW b \in Block, TryFinal(b) PROVE IInv'
    BY <2>4, TryFinalKeeps
  <2>5. ASSUME NEW b \in Block, AddMissingParentReady(b) PROVE IInv'
    BY <2>5, AddMissingParentReadyKeeps
  <2>6. ASSUME NEW s \in Slot, TrySkip(s) PROVE IInv'
    BY <2>6, TrySkipKeeps
  <2>7. ASSUME CheckPendingBlocks \/ CheckRootableBlocks \/ SendVotes PROVE IInv'
    BY <2>7, CheckPendingBlocksKeeps, CheckRootableBlocksKeeps, SendVotesKeeps
  <2> QED
    BY <1>3, <2>1, <2>2, <2>3, <2>4, <2>5, <2>6, <2>7, Zenon DEF Calls
<1>4. ASSUME Events PROVE IInv'
  <2>1. ASSUME NEW s \in Slot, FirstShred(s) PROVE IInv'
    <3>1. UNCHANGED <<h, ops, released, stored, disk, sent, root, pooled, pending, todo>>
      BY <2>1 DEF FirstShred, service, ledger, pool
    <3> QED
      BY <1>0, <3>1, StillKeeps
  <2>2. ASSUME NEW s \in Slot, NEW p \in Chain \cup {Start}, ParentReady(s, p) PROVE IInv'
    <3>1. p \in Known /\ HandleParentReady(s, p)
      BY <2>2, HandlerAssumption DEF ParentReady, Known
    <3> QED
      BY <3>1, ParentReadyKeeps
  <2>3. ASSUME NEW b \in Known, KickOff(b) PROVE IInv'
    <3>1. root + 1 \in Slot /\ HandleParentReady(root + 1, b)
      BY <1>0, <2>3, HandlerAssumption DEF Types, KickOff, Slot
    <3> QED
      BY <3>1, ParentReadyKeeps
  <2>4. ASSUME NEW b \in Chain, BlockNotarized(b) \/ Finalized(b) PROVE IInv'
    <3>1. b \in Block
      BY HandlerAssumption
    <3> QED
      BY <2>4, <3>1, BlockNotarizedKeeps, FinalizedKeeps
  <2>5. ASSUME NEW b \in Block, BlockEvent(b) \/ SafeToNotar(b) PROVE IInv'
    BY <2>5, BlockEventKeeps, SafeToNotarKeeps
  <2>6. ASSUME NEW s \in Slot, TimerFires(s) \/ SafeToSkip(s) \/ Standstill(s) PROVE IInv'
    BY <2>6, SafeToSkipKeeps, TimerFiresKeeps, StandstillKeeps
  <2> QED
    BY <1>4, <2>1, <2>2, <2>3, <2>4, <2>5, <2>6 DEF Events
<1>5. ASSUME Others PROVE IInv'
  <2>1. ASSUME NEW v, Replay(v) PROVE IInv'
    <3>1. UNCHANGED <<h, ops, released, stored, disk, sent, root, pooled, pending, todo>>
      BY <2>1, Zenon DEF Replay, handler, service, ledger, pool
    <3> QED
      BY <1>0, <3>1, StillKeeps
  <2>2. ASSUME StoreVote \/ Broadcast \/ Crash PROVE IInv'
    BY <2>2, StoreVoteKeeps, BroadcastKeeps, CrashKeeps
  <2> QED
    BY <1>5, <2>1, <2>2 DEF Others
<1> QED
  BY <1>1, <1>2, <1>3, <1>4, <1>5 DEF Next

(* The votes that a node broadcasts never contradict each other, whatever    *)
(* the events, their order, the moves of the root and the crashes: the       *)
(* voting service stores the history before the vote goes out.               *)
THEOREM VotesNeverConflict == Spec => []NeverConflicting
<1>1. Init => IInv /\ Ground
  BY InitIInv
<1>2. IInv /\ Ground /\ [Next]_vars => IInv' /\ Ground'
  BY IInvStep
<1>3. IInv => NeverConflicting
  BY DEF IInv
<1> QED
  BY <1>1, <1>2, <1>3, PTL DEF Spec
================================================================================
