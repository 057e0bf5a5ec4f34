-------------------- MODULE SchedulingStateMachineProofs --------------------
(***************************************************************************)
(* Exclusion, exact counts and absence of deadlock of the unified           *)
(* scheduler's state machine, for any tasks, addresses and limits and in    *)
(* both queueing modes.                                                     *)
(***************************************************************************)
EXTENDS SchedulingStateMachine, TLAPS, FiniteSetTheorems, WellFoundedInduction

Fifo == Capability = "FifoQueueing"

(* A queue that nobody holds has nobody waiting.                            *)
IdleInv == \A q \in Queue : current[q] = {} => blocked[q] = {}

(* A writer holds its queue alone.                                          *)
AloneInv == \A q \in Queue : \A t, u \in current[q] : t # u => q \notin Writes[t]

(* A holder that still waits elsewhere outranks whoever waits for it; in    *)
(* FifoQueueing every holder does.                                          *)
OrderInv ==
    \A q \in Queue : \A c \in current[q], b \in blocked[q] :
        (Fifo \/ count[c] > 0) => Rank(c) < Rank(b)

(* A reader waits at a queue held by readers only behind a waiting writer.  *)
ReadersInv ==
    \A q \in Queue : \A r \in blocked[q] :
        (q \notin Writes[r] /\ \A c \in current[q] : q \notin Writes[c])
            => \E w \in blocked[q] : q \in Writes[w] /\ Rank(w) < Rank(r)

(* Arrival numbers are unique, and every active task has one.               *)
ArrivalInv ==
    /\ \A t \in Task : arrival[t] <= total
    /\ \A t \in active : arrival[t] > 0
    /\ \A t, u \in Task : arrival[t] = arrival[u] /\ arrival[t] > 0 => t = u

(* No task is twice in unblocked_task_queue.                                *)
QueueInv == \A i, j \in 1..Len(unblocked) : unblocked[i] = unblocked[j] => i = j

(* The registered hashes are those of the active tasks, one task each.      *)
HashInv ==
    /\ MaxUnique = 0 => hashes = {}
    /\ MaxUnique > 0 => \A t \in active : /\ Hash[t] \in hashes
                                          /\ \A u \in active : Hash[t] = Hash[u] => t = u

(* While the clearing loop runs, no task is handed out.                     *)
ClearInv == clearing => running = {}

LockInv == IdleInv /\ AloneInv /\ OrderInv /\ ReadersInv

IInv == TypeOK /\ CountsExact /\ LockInv /\ ArrivalInv /\ QueueInv /\ HashInv /\ ClearInv

-----------------------------------------------------------------------------
(* Ranks are natural numbers, and those of active tasks differ.             *)
LEMMA RankType ==
    ASSUME TypeOK
    PROVE  \A t \in Task : Rank(t) \in Nat
  BY SchedAssumption DEF TypeOK, Rank

LEMMA RankInjective ==
    ASSUME TypeOK, ArrivalInv, NEW t \in active, NEW u \in active, Rank(t) = Rank(u)
    PROVE  t = u
  BY SchedAssumption DEF TypeOK, ArrivalInv, Rank

(* A nonempty set of natural numbers has a least element.                   *)
LEMMA LeastNatural ==
    ASSUME NEW N \in SUBSET Nat, N # {}
    PROVE  \E n \in N : \A m \in N : n <= m
  <1>1. PICK n \in N : \A m \in N : ~(<<m, n>> \in OpToRel(<, Nat))
    BY NatLessThanWellFounded, WFMin, Zenon
  <1>2. \A m \in N : ~(m < n)
    BY <1>1, Zenon DEF OpToRel
  <1> QED
    BY <1>2

(* First() finds the task with the least rank.                              *)
LEMMA FirstLeast ==
    ASSUME TypeOK, NEW S \in SUBSET Task, S # {}
    PROVE  First(S) \in S /\ \A u \in S : Rank(First(S)) <= Rank(u)
  <1> DEFINE N == {Rank(t) : t \in S}
  <1>1. N \in SUBSET Nat /\ N # {}
    BY RankType
  <1>2. PICK n \in N : \A m \in N : n <= m
    BY <1>1, LeastNatural, Zenon
  <1>3. \E t \in S : \A u \in S : Rank(t) <= Rank(u)
    BY <1>2
  <1> QED
    BY <1>3 DEF First

(* The initial state satisfies the inductive invariant.                     *)
LEMMA InitIInv == Init => IInv
  <1> SUFFICES ASSUME Init PROVE IInv
    OBVIOUS
  <1> USE DEF Init
  <1>1. Runnable = {}
    BY DEF Runnable, RangeOf
  <1>2. TypeOK
    <2>1. Cardinality({}) = 0 /\ MaxRunning >= 0 /\ MaxUnique >= 0
      BY FS_EmptySet, SchedAssumption
    <2>2. <<>> \in Seq(Task)
      OBVIOUS
    <2> QED
      BY <2>1, <2>2, Zenon DEF TypeOK
  <1>3. \A t \in Task : {q \in Queue : t \in blocked[q]} = {}
    BY Zenon
  <1>4. CountsExact
    BY <1>1, <1>3, FS_EmptySet, Zenon DEF CountsExact, CountMatches, Placement, RunnableExact
  <1> QED
    BY <1>2, <1>4, SchedAssumption
    DEF IInv, LockInv, IdleInv, AloneInv, OrderInv, ReadersInv, ArrivalInv, QueueInv, HashInv, ClearInv

-----------------------------------------------------------------------------
(* The queues in which a task waits are a finite set, empty exactly when    *)
(* blocked_usage_count is zero.                                             *)
LEMMA WaitsNowhere ==
    ASSUME TypeOK, CountMatches, NEW t \in Task
    PROVE  count[t] = 0 <=> \A q \in Queue : t \notin blocked[q]
  <1> DEFINE W == {q \in Queue : t \in blocked[q]}
  <1>1. IsFiniteSet(W)
    BY SchedAssumption, FS_Subset
  <1>2. count[t] = Cardinality(W)
    BY DEF CountMatches
  <1> QED
    BY <1>1, <1>2, FS_EmptySet

(* A runnable task holds every queue it uses.                               *)
LEMMA RunnableHolds ==
    ASSUME TypeOK, CountsExact, NEW t \in Runnable, NEW q \in Uses(t)
    PROVE  t \in active /\ count[t] = 0 /\ q \in Queue /\ t \in current[q]
  <1>1. t \in active /\ t \in Task /\ count[t] = 0
    BY DEF CountsExact, RunnableExact, TypeOK
  <1>2. q \in Queue
    BY <1>1, SchedAssumption DEF Uses
  <1>3. t \notin blocked[q]
    BY <1>1, <1>2, WaitsNowhere DEF CountsExact
  <1>4. t \in current[q] \cup blocked[q]
    BY <1>1, <1>2 DEF CountsExact, Placement
  <1> QED
    BY <1>1, <1>2, <1>3, <1>4

LEMMA ExclusionFollows == IInv => SafeInParallel
  <1> SUFFICES ASSUME IInv, NEW t \in Runnable, NEW u \in Runnable, t # u,
                      NEW q \in Queue, ConflictAt(t, u, q)
               PROVE  FALSE
    BY DEF SafeInParallel, Conflict
  <1>1. q \in Uses(t) /\ q \in Uses(u) /\ (q \in Writes[t] \/ q \in Writes[u])
    BY DEF ConflictAt
  <1>2. t \in current[q] /\ u \in current[q]
    BY <1>1, RunnableHolds DEF IInv
  <1> QED
    BY <1>1, <1>2 DEF IInv, LockInv, AloneInv

(* The waiting task of least rank waits for a task that waits nowhere.      *)
LEMMA NeverStuckFollows == IInv => NeverStuck
  <1> SUFFICES ASSUME IInv, active # {}, Runnable = {} PROVE FALSE
    BY DEF NeverStuck
  <1> USE DEF IInv
  <1> DEFINE h == First(active)
  <1>1. active \in SUBSET Task
    BY DEF TypeOK
  <1>2. h \in active /\ \A u \in active : Rank(h) <= Rank(u)
    BY <1>1, FirstLeast
  <1> HIDE DEF h
  <1>3. \A u \in active : count[u] # 0
    BY DEF CountsExact, RunnableExact
  <1>4. PICK q \in Queue : h \in blocked[q]
    BY <1>1, <1>2, <1>3, WaitsNowhere DEF CountsExact
  <1>5. PICK c \in current[q] : TRUE
    BY <1>4 DEF LockInv, IdleInv
  <1>6. c \in active /\ c \in Task
    BY <1>1, <1>5 DEF CountsExact, Placement
  <1>7. count[c] > 0
    BY <1>3, <1>6 DEF TypeOK
  <1>8. Rank(c) < Rank(h)
    BY <1>4, <1>5, <1>7 DEF LockInv, OrderInv
  <1>9. Rank(c) \in Nat /\ Rank(h) \in Nat
    BY <1>1, <1>2, <1>6, RankType
  <1> QED
    BY <1>2, <1>6, <1>8, <1>9

LEMMA AssertionsFollow == IInv => AssertionsHold
  <1> SUFFICES ASSUME IInv PROVE AssertionsHold
    OBVIOUS
  <1> USE DEF IInv
  <1>1. ASSUME NEW q \in Queue, blocked[q] # {}, \A c \in current[q] : q \notin Writes[c]
        PROVE  q \in Writes[First(blocked[q])]
    <2> DEFINE f == First(blocked[q])
    <2>1. blocked[q] \in SUBSET Task
      BY DEF TypeOK
    <2>2. f \in blocked[q] /\ \A u \in blocked[q] : Rank(f) <= Rank(u)
      BY <1>1, <2>1, FirstLeast
    <2>3. \A u \in blocked[q] : Rank(u) \in Nat
      BY <2>1, RankType
    <2> HIDE DEF f
    <2>4. \A w \in blocked[q] : ~(Rank(w) < Rank(f))
      BY <2>2, <2>3
    <2>5. q \in Writes[f]
      BY <1>1, <2>2, <2>4 DEF LockInv, ReadersInv
    <2> QED
      BY <2>5 DEF f
  <1>2. (clearing /\ unblocked = <<>>) => (active = {} /\ hashes = {} /\ running = {})
    <2> SUFFICES ASSUME clearing, unblocked = <<>>
                 PROVE  active = {} /\ hashes = {} /\ running = {}
      OBVIOUS
    <2>1. running = {}
      BY DEF ClearInv
    <2>2. Runnable = {}
      BY <2>1 DEF Runnable, RangeOf
    <2>3. active = {}
      BY <2>2, NeverStuckFollows DEF NeverStuck
    <2>4. hashes = {}
      BY <2>3 DEF TypeOK
    <2> QED
      BY <2>1, <2>3, <2>4
  <1> QED
    BY <1>1, <1>2 DEF AssertionsHold, LockInv, IdleInv, AloneInv, QueueInv, HashInv

LEMMA IngestionOrderFollows == IInv => IngestionOrder
  <1> SUFFICES ASSUME IInv, Fifo, NEW t \in active, NEW u \in Runnable,
                      NEW q \in Queue, ConflictAt(t, u, q), t # u
               PROVE  arrival[u] < arrival[t]
    BY DEF IngestionOrder, Conflict, Fifo
  <1> USE DEF IInv
  <1>1. q \in Uses(t) /\ q \in Uses(u) /\ (q \in Writes[t] \/ q \in Writes[u])
    BY DEF ConflictAt
  <1>2. u \in current[q]
    BY <1>1, RunnableHolds
  <1>3. t \in current[q] \/ t \in blocked[q]
    BY <1>1 DEF CountsExact, Placement
  <1>4. t \in blocked[q]
    BY <1>1, <1>2, <1>3 DEF LockInv, AloneInv
  <1>5. Rank(u) < Rank(t)
    BY <1>2, <1>4 DEF LockInv, OrderInv
  <1> QED
    BY <1>5 DEF Rank, Fifo

-----------------------------------------------------------------------------
(* What an arriving task finds: it is in no queue yet, its rank is new and  *)
(* in FifoQueueing the highest, and no other rank changes.                  *)
LEMMA ArriveRanks ==
    ASSUME IInv, NEW t \in Task, Arrive(t)
    PROVE  /\ t \notin active
           /\ \A q \in Queue : t \notin current[q] /\ t \notin blocked[q]
           /\ \A u \in Task \ {t} : Rank(u)' = Rank(u)
           /\ ~Fifo => Rank(t)' = t /\ \A u \in Task : Rank(u) = u /\ Rank(u)' = u
           /\ Fifo => \A u \in Task \ {t} : Rank(u) < Rank(t)'
           /\ Rank(t)' \in Nat
           /\ arrival' \in [Task -> Nat] /\ total' \in Nat
  <1> USE DEF IInv
  <1>1. t \notin active
    BY DEF Arrive, ArrivalInv, TypeOK
  <1>2. arrival \in [Task -> Nat] /\ total \in Nat
    BY DEF TypeOK
  <1>3. arrival' = [arrival EXCEPT ![t] = total + 1] /\ total' = total + 1
    BY DEF Arrive
  <1>4. \A u \in Task : arrival[u] <= total
    BY DEF ArrivalInv
  <1>5. \A q \in Queue : t \notin current[q] /\ t \notin blocked[q]
    BY <1>1 DEF CountsExact, Placement
  <1>6. \A u \in Task \ {t} : Rank(u)' = Rank(u)
    BY <1>2, <1>3 DEF Rank
  <1>7. Fifo => \A u \in Task \ {t} : Rank(u) < Rank(t)'
    BY <1>2, <1>3, <1>4 DEF Rank, Fifo
  <1>8. ~Fifo => Rank(t)' = t /\ \A u \in Task : Rank(u) = u /\ Rank(u)' = u
    BY DEF Rank, Fifo
  <1>9. Rank(t)' \in Nat
    BY <1>2, <1>3, SchedAssumption DEF Rank
  <1> QED
    BY <1>1, <1>2, <1>3, <1>5, <1>6, <1>7, <1>8, <1>9

(* The tasks in a queue are active tasks that use it.                       *)
LEMMA InQueue ==
    ASSUME IInv, NEW q \in Queue, NEW u \in current[q] \cup blocked[q]
    PROVE  u \in active /\ u \in Task /\ q \in Uses(u)
  BY DEF IInv, TypeOK, CountsExact, Placement

(* The new contents of a queue.                                             *)
LEMMA LockQueues ==
    ASSUME IInv, NEW t \in Task, Admit(t), NEW q \in Queue
    PROVE  /\ q \notin Uses(t) => current'[q] = current[q] /\ blocked'[q] = blocked[q]
           /\ q \in Uses(t) /\ Lockable(t, q) =>
                 /\ current'[q] = (current[q] \ Reblocked(t, q)) \cup {t}
                 /\ blocked'[q] = blocked[q] \cup Reblocked(t, q)
           /\ q \in Uses(t) /\ ~Lockable(t, q) =>
                 /\ current'[q] = current[q] \ Reblocked(t, q)
                 /\ blocked'[q] = blocked[q] \cup Reblocked(t, q) \cup {t}
  BY DEF Admit, TryLockUsageQueues

(* What prepare_lock() leaves to try_lock(): a task that may lock conflicts *)
(* with no holder that stays and outranks everyone who waits; one that may  *)
(* not is outranked by every holder that still waits elsewhere, and by a    *)
(* waiting task unless a holder that stays conflicts with it.               *)
LEMMA LockableFacts ==
    ASSUME IInv, NEW t \in Task, Admit(t), NEW q \in Queue, q \in Uses(t)
    PROVE  /\ Lockable(t, q) =>
                 /\ \A c \in current[q] \ Reblocked(t, q) : ~ConflictAt(t, c, q)
                 /\ \A b \in blocked[q] \cup Reblocked(t, q) : Rank(t)' < Rank(b)
           /\ ~Lockable(t, q) =>
                 /\ \A c \in current[q] \ Reblocked(t, q) :
                        Fifo \/ count[c] > 0 => Rank(c) < Rank(t)'
                 /\ \/ \E b \in blocked[q] : Rank(b) < Rank(t)'
                    \/ \E c \in current[q] \ Reblocked(t, q) : ConflictAt(t, c, q)
  <1>0. Arrive(t)
    BY DEF Admit
  <1>1. /\ t \notin active
        /\ t \notin current[q] /\ t \notin blocked[q]
        /\ ~Fifo => Rank(t)' = t /\ \A u \in Task : Rank(u) = u
        /\ Fifo => \A u \in Task \ {t} : Rank(u) < Rank(t)'
    BY <1>0, ArriveRanks
  <1>2. \A u \in current[q] \cup blocked[q] : u \in active /\ u \in Task /\ q \in Uses(u) /\ u # t
    BY <1>1, InQueue
  <1>3. \A u \in Task : u \in Nat /\ count[u] \in Nat
    BY SchedAssumption DEF IInv, TypeOK
  <1>4. \A c \in current[q], b \in blocked[q] : (Fifo \/ count[c] > 0) => Rank(c) < Rank(b)
    BY DEF IInv, LockInv, OrderInv
  <1>5. \A c, d \in current[q] : c # d => q \notin Writes[c]
    BY DEF IInv, LockInv, AloneInv
  <1>6. CASE Fifo
    <2>1. Reblocked(t, q) = {}
      BY <1>6 DEF Reblocked, Fifo
    <2>2. Lockable(t, q) <=> blocked[q] = {} /\ \A c \in current[q] : ~ConflictAt(t, c, q)
      BY <1>6, <2>1 DEF Lockable, Prepared, Fifo
    <2> QED
      BY <1>1, <1>2, <1>6, <2>1, <2>2
  <1>7. CASE ~Fifo
    <2> DEFINE RB == Reblocked(t, q)
    <2>1. RB = {c \in current[q] : ConflictAt(t, c, q) /\ t < c /\ count[c] > 0}
      BY <1>7 DEF Reblocked, Fifo
    <2>2. Prepared(t, q) <=> IF \E c \in current[q] : ConflictAt(t, c, q)
                             THEN RB = current[q] ELSE \A b \in blocked[q] : t < b
      BY <1>7 DEF Prepared, Fifo
    <2>3. Lockable(t, q) <=> Prepared(t, q) /\ \A c \in current[q] \ RB : ~ConflictAt(t, c, q)
      BY DEF Lockable
    <2> HIDE DEF RB
    <2>4. \A c, b \in Task : Rank(c) = c /\ Rank(t)' = t
      BY <1>1, <1>7
    <2>5. ASSUME Lockable(t, q)
          PROVE  \A b \in blocked[q] \cup RB : t < b
      <3>1. CASE \E c \in current[q] : ConflictAt(t, c, q)
        <4>1. PICK c \in current[q] : ConflictAt(t, c, q) /\ t < c /\ count[c] > 0
          BY <2>1, <2>2, <2>3, <2>5, <3>1
        <4>2. \A b \in blocked[q] : c < b
          BY <1>2, <1>4, <2>4, <4>1
        <4> QED
          BY <1>2, <1>3, <2>1, <4>1, <4>2
      <3>2. CASE ~(\E c \in current[q] : ConflictAt(t, c, q))
        BY <2>1, <2>2, <2>3, <2>5, <3>2
      <3> QED
        BY <3>1, <3>2
    <2>6. ASSUME ~Lockable(t, q)
          PROVE  /\ \A c \in current[q] \ RB : count[c] > 0 => c < t
                 /\ \/ \E b \in blocked[q] : b < t
                    \/ \E c \in current[q] \ RB : ConflictAt(t, c, q)
      <3>1. CASE \E c \in current[q] : ConflictAt(t, c, q)
        <4>1. RB # current[q]
          BY <2>2, <2>3, <2>6, <3>1
        <4>2. \A c \in current[q] : ConflictAt(t, c, q)
          BY <1>2, <1>5, <3>1 DEF ConflictAt
        <4> QED
          BY <1>2, <1>3, <2>1, <4>1, <4>2
      <3>2. CASE ~(\E c \in current[q] : ConflictAt(t, c, q))
        <4>1. PICK b \in blocked[q] : ~(t < b)
          BY <2>2, <2>3, <2>6, <3>2
        <4>2. b < t
          BY <1>2, <1>3, <4>1
        <4>3. \A c \in current[q] : count[c] > 0 => c < b
          BY <1>2, <1>4, <2>4
        <4> QED
          BY <1>2, <1>3, <4>2, <4>3
      <3> QED
        BY <3>1, <3>2
    <2>7. \A b \in blocked[q] \cup RB : b \in Task
      BY <1>2, <2>1
    <2> QED
      BY <1>1, <1>2, <1>7, <2>1, <2>3, <2>4, <2>5, <2>6, <2>7 DEF RB
  <1> QED
    BY <1>6, <1>7

(* Only tasks that wait somewhere are pushed back.                          *)
LEMMA ReblockedFacts ==
    ASSUME IInv, NEW t \in Task, NEW q \in Queue
    PROVE  /\ Reblocked(t, q) \subseteq current[q]
           /\ \A c \in Reblocked(t, q) : ConflictAt(t, c, q) /\ t < c /\ count[c] > 0 /\ ~Fifo
  BY DEF Reblocked, Fifo

(* Cardinalities of disjoint unions and of differences.                     *)
LEMMA DisjointUnion ==
    ASSUME NEW A, NEW B, IsFiniteSet(A), IsFiniteSet(B), A \cap B = {}
    PROVE  Cardinality(A \cup B) = Cardinality(A) + Cardinality(B)
  <1>1. Cardinality(A \cap B) = 0
    BY FS_EmptySet
  <1>2. Cardinality(A) \in Nat /\ Cardinality(B) \in Nat
    BY FS_CardinalityType
  <1>3. Cardinality(A \cup B) = Cardinality(A) + Cardinality(B) - Cardinality(A \cap B)
    BY FS_Union
  <1> QED
    BY <1>1, <1>2, <1>3

LEMMA SubsetDifference ==
    ASSUME NEW A, NEW B, IsFiniteSet(A), B \subseteq A
    PROVE  /\ IsFiniteSet(B) /\ IsFiniteSet(A \ B)
           /\ Cardinality(A \ B) = Cardinality(A) - Cardinality(B)
           /\ Cardinality(A) \in Nat /\ Cardinality(B) \in Nat /\ Cardinality(A \ B) \in Nat
  <1>1. A \cap B = B
    OBVIOUS
  <1>2. IsFiniteSet(B) /\ IsFiniteSet(A \ B)
    BY FS_Subset
  <1> QED
    BY <1>1, <1>2, FS_Difference, FS_CardinalityType, Zenon

(* Locking keeps blocked_usage_count equal to the queues a task waits in.   *)
LEMMA LockCounts ==
    ASSUME IInv, NEW t \in Task, Admit(t)
    PROVE  /\ count' \in [Task -> Nat]
           /\ CountMatches'
           /\ \A u \in Task \ {t} : count'[u] = 0 <=> count[u] = 0
           /\ \A u \in Task \ {t} : count[u] <= count'[u]
           /\ count'[t] = 0 <=> BlockedAt(t) = {}
  <1>0. Arrive(t) /\ TryLockUsageQueues(t)
    BY DEF Admit
  <1>1. \A q \in Queue : t \notin current[q] /\ t \notin blocked[q]
    BY <1>0, ArriveRanks
  <1>2. Uses(t) \subseteq Queue /\ IsFiniteSet(Queue)
    BY SchedAssumption DEF Uses
  <1>3. IsFiniteSet(BlockedAt(t)) /\ Cardinality(BlockedAt(t)) \in Nat
    <2>1. BlockedAt(t) \in SUBSET Queue
      BY <1>2 DEF BlockedAt
    <2> QED
      BY <1>2, <2>1, FS_Subset, FS_CardinalityType
  <1>4. count'[t] = Cardinality(BlockedAt(t))
    BY <1>0 DEF TryLockUsageQueues
  <1>5. {q \in Queue : t \in blocked'[q]} = BlockedAt(t)
    <2>1. ASSUME NEW q \in Queue PROVE t \in blocked'[q] <=> q \in BlockedAt(t)
      <3>1. t \notin Reblocked(t, q) /\ t \notin blocked[q]
        BY <1>1, ReblockedFacts
      <3> QED
        BY <3>1, LockQueues DEF BlockedAt
    <2> QED
      BY <1>2, <2>1 DEF BlockedAt
  <1>6. ASSUME NEW u \in Task \ {t}
        PROVE  /\ count'[u] \in Nat
               /\ count'[u] = Cardinality({q \in Queue : u \in blocked'[q]})
               /\ count'[u] = 0 <=> count[u] = 0
               /\ count[u] <= count'[u]
    <2> DEFINE A == {q \in Queue : u \in blocked[q]}
               B == {q \in Uses(t) : u \in Reblocked(t, q)}
               C == {q \in Queue : u \in blocked'[q]}
    <2>1. A \in SUBSET Queue /\ B \in SUBSET Queue
      BY <1>2
    <2>2. IsFiniteSet(A) /\ IsFiniteSet(B) /\ Cardinality(A) \in Nat /\ Cardinality(B) \in Nat
      BY <1>2, <2>1, FS_Subset, FS_CardinalityType
    <2>3. A \cap B = {}
      BY <2>1, ReblockedFacts DEF IInv, CountsExact, Placement
    <2>4. C = A \cup B
      <3>1. ASSUME NEW q \in Queue PROVE q \in C <=> q \in A \/ q \in B
        <4>1. CASE q \notin Uses(t)
          BY <4>1, LockQueues
        <4>2. CASE q \in Uses(t)
          BY <4>2, LockQueues
        <4> QED
          BY <4>1, <4>2
      <3> QED
        BY <2>1, <3>1
    <2>5. Cardinality(C) = Cardinality(A) + Cardinality(B)
      BY <2>2, <2>3, <2>4, DisjointUnion
    <2>6. count[u] = Cardinality(A)
      BY DEF IInv, CountsExact, CountMatches
    <2>7. count'[u] = count[u] + Cardinality(B)
      BY <1>0 DEF TryLockUsageQueues
    <2>8. count[u] = 0 => B = {}
      BY <1>2, ReblockedFacts
    <2>9. count[u] = 0 => Cardinality(B) = 0
      BY <2>8, FS_EmptySet
    <2> HIDE DEF A, B, C
    <2>10. /\ count'[u] \in Nat
           /\ count'[u] = Cardinality(C)
           /\ count'[u] = 0 <=> count[u] = 0
           /\ count[u] <= count'[u]
      BY <2>2, <2>5, <2>6, <2>7, <2>9
    <2> QED
      BY <2>10 DEF C
  <1>7. DOMAIN count' = Task /\ count' = [u \in Task |-> count'[u]]
    BY <1>0 DEF TryLockUsageQueues
  <1>8. \A u \in Task : count'[u] \in Nat
    BY <1>3, <1>4, <1>6, Zenon
  <1>9. count' \in [Task -> Nat]
    BY <1>7, <1>8
  <1>10. CountMatches'
    BY <1>4, <1>5, <1>6 DEF CountMatches
  <1>11. count'[t] = 0 <=> BlockedAt(t) = {}
    BY <1>3, <1>4, FS_EmptySet
  <1> QED
    BY <1>6, <1>9, <1>10, <1>11, Zenon

(* Locking places the new task in each of its queues.                       *)
LEMMA LockPlacement ==
    ASSUME IInv, NEW t \in Task, Admit(t)
    PROVE  /\ Placement'
           /\ current' \in [Queue -> SUBSET Task]
           /\ blocked' \in [Queue -> SUBSET Task]
  <1>0. Arrive(t) /\ TryLockUsageQueues(t) /\ active' = active \cup {t}
    BY DEF Admit
  <1>1. \A q \in Queue : t \notin current[q] /\ t \notin blocked[q]
    BY <1>0, ArriveRanks
  <1>2. ASSUME NEW q \in Queue
        PROVE  /\ current'[q] \cap blocked'[q] = {}
               /\ current'[q] \cup blocked'[q] = {u \in active' : q \in Uses(u)}
               /\ current'[q] \in SUBSET Task /\ blocked'[q] \in SUBSET Task
    <2>1. /\ current[q] \cap blocked[q] = {}
          /\ current[q] \cup blocked[q] = {u \in active : q \in Uses(u)}
          /\ current[q] \in SUBSET Task /\ blocked[q] \in SUBSET Task
      BY DEF IInv, CountsExact, Placement, TypeOK
    <2>2. Reblocked(t, q) \subseteq current[q]
      BY ReblockedFacts
    <2>3. CASE q \notin Uses(t)
      BY <1>0, <2>1, <2>3, LockQueues, Zenon
    <2>4. CASE q \in Uses(t) /\ Lockable(t, q)
      BY <1>0, <1>1, <2>1, <2>2, <2>4, LockQueues
    <2>5. CASE q \in Uses(t) /\ ~Lockable(t, q)
      BY <1>0, <1>1, <2>1, <2>2, <2>5, LockQueues, SMTT(30)
    <2> QED
      BY <2>3, <2>4, <2>5
  <1>3. /\ current' = [q \in Queue |-> current'[q]]
        /\ blocked' = [q \in Queue |-> blocked'[q]]
    BY <1>0, Zenon DEF TryLockUsageQueues
  <1> QED
    BY <1>2, <1>3 DEF Placement

(* Locking, reblocking included, keeps the order of the queues.             *)
LEMMA LockKeepsOrder ==
    ASSUME IInv, NEW t \in Task, Admit(t), NEW q \in Queue
    PROVE  /\ current'[q] = {} => blocked'[q] = {}
           /\ \A c, d \in current'[q] : c # d => q \notin Writes[c]
           /\ \A c \in current'[q], b \in blocked'[q] :
                 (Fifo \/ count'[c] > 0) => Rank(c)' < Rank(b)'
           /\ \A r \in blocked'[q] :
                 (q \notin Writes[r] /\ \A c \in current'[q] : q \notin Writes[c])
                    => \E w \in blocked'[q] : q \in Writes[w] /\ Rank(w)' < Rank(r)'
  <1> DEFINE RB == Reblocked(t, q)
  <1>0. Arrive(t)
    BY DEF Admit
  <1>1. /\ t \notin current[q] /\ t \notin blocked[q]
        /\ \A u \in Task \ {t} : Rank(u)' = Rank(u)
        /\ Rank(t)' \in Nat
    BY <1>0, ArriveRanks
  <1>2. \A u \in current[q] \cup blocked[q] :
           u \in Task /\ q \in Uses(u) /\ u # t /\ Rank(u) \in Nat /\ Rank(u)' = Rank(u)
    BY <1>1, InQueue, RankType DEF IInv
  <1>3. /\ current[q] = {} => blocked[q] = {}
        /\ \A c, d \in current[q] : c # d => q \notin Writes[c]
        /\ \A c \in current[q], b \in blocked[q] : (Fifo \/ count[c] > 0) => Rank(c) < Rank(b)
        /\ \A r \in blocked[q] :
              (q \notin Writes[r] /\ \A c \in current[q] : q \notin Writes[c])
                 => \E w \in blocked[q] : q \in Writes[w] /\ Rank(w) < Rank(r)
    BY DEF IInv, LockInv, IdleInv, AloneInv, OrderInv, ReadersInv
  <1>4. \A c \in current[q] : count'[c] > 0 => count[c] > 0
    BY <1>2, LockCounts DEF IInv, TypeOK
  <1>5. /\ RB \subseteq current[q]
        /\ \A c \in RB : ConflictAt(t, c, q) /\ count[c] > 0 /\ ~Fifo /\ t < c
    BY ReblockedFacts
  <1>6. CASE q \notin Uses(t)
    <2>1. current'[q] = current[q] /\ blocked'[q] = blocked[q]
      BY <1>6, LockQueues
    <2> QED
      BY <1>2, <1>3, <1>4, <2>1
  <1>7. CASE q \in Uses(t) /\ Lockable(t, q)
    <2>1. current'[q] = (current[q] \ RB) \cup {t} /\ blocked'[q] = blocked[q] \cup RB
      BY <1>7, LockQueues
    <2>2. /\ \A c \in current[q] \ RB : ~ConflictAt(t, c, q)
          /\ \A b \in blocked[q] \cup RB : Rank(t)' < Rank(b)
      BY <1>7, LockableFacts, Zenon
    <2> HIDE DEF RB
    <2>3. \A c \in current[q] \ RB : q \notin Writes[t] /\ q \notin Writes[c]
      BY <1>2, <1>7, <2>2 DEF ConflictAt
    <2>4. \A c, d \in current'[q] : c # d => q \notin Writes[c]
      BY <1>3, <2>1, <2>3
    <2>5. ASSUME NEW c \in current[q] \ RB, NEW b \in RB
          PROVE  FALSE
      <3>1. c # b /\ q \notin Writes[b] /\ q \in Writes[t]
        BY <1>3, <1>5, <2>5 DEF ConflictAt
      <3> QED
        BY <2>3, <3>1
    <2>6. ASSUME NEW c \in current'[q], NEW b \in blocked'[q], Fifo \/ count'[c] > 0
          PROVE  Rank(c)' < Rank(b)'
      <3>1. CASE c = t
        BY <1>2, <1>5, <2>1, <2>2, <3>1
      <3>2. CASE c # t
        BY <1>2, <1>3, <1>4, <2>1, <2>5, <2>6, <3>2, SMTT(30)
      <3> QED
        BY <3>1, <3>2
    <2>7. ASSUME NEW r \in blocked'[q], q \notin Writes[r], \A c \in current'[q] : q \notin Writes[c]
          PROVE  \E w \in blocked'[q] : q \in Writes[w] /\ Rank(w)' < Rank(r)'
      <3>1. q \notin Writes[t]
        BY <2>1, <2>7
      <3>2. r \in blocked[q]
        BY <1>5, <2>1, <2>7, <3>1 DEF ConflictAt
      <3>3. CASE \A c \in current[q] : q \notin Writes[c]
        BY <1>2, <1>3, <2>1, <2>7, <3>2, <3>3
      <3>4. CASE \E c \in current[q] : q \in Writes[c]
        <4>1. PICK c \in current[q] : q \in Writes[c]
          BY <3>4, Zenon
        <4>2. c \in RB
          BY <2>3, <4>1
        <4>3. Rank(c) < Rank(r)
          BY <1>3, <1>5, <3>2, <4>2, Zenon
        <4> QED
          BY <1>2, <2>1, <3>2, <4>1, <4>2, <4>3, SMTT(30)
      <3> QED
        BY <3>3, <3>4
    <2> QED
      BY <2>1, <2>4, <2>6, <2>7
  <1>8. CASE q \in Uses(t) /\ ~Lockable(t, q)
    <2>1. current'[q] = current[q] \ RB /\ blocked'[q] = blocked[q] \cup RB \cup {t}
      BY <1>8, LockQueues, Zenon
    <2>2. /\ \A c \in current[q] \ RB : Fifo \/ count[c] > 0 => Rank(c) < Rank(t)'
          /\ \/ \E b \in blocked[q] : Rank(b) < Rank(t)'
             \/ \E c \in current[q] \ RB : ConflictAt(t, c, q)
      BY <1>8, LockableFacts, Zenon
    <2> HIDE DEF RB
    <2>3. current'[q] # {}
      <3>1. CASE \E c \in current[q] \ RB : ConflictAt(t, c, q)
        BY <2>1, <3>1
      <3>2. CASE ~(\E c \in current[q] \ RB : ConflictAt(t, c, q))
        <4>1. current[q] # {}
          BY <1>3, <2>2, <3>2, Zenon
        <4>2. current[q] # RB
          <5> SUFFICES ASSUME current[q] = RB PROVE FALSE
            OBVIOUS
          <5>1. \E c \in current[q] : ConflictAt(t, c, q)
            BY <1>5, <4>1
          <5>2. Prepared(t, q)
            BY <1>5, <4>1, <5>1, Zenon DEF Prepared, Fifo, RB
          <5> QED
            BY <1>8, <5>2 DEF Lockable, RB
        <4> QED
          BY <1>5, <2>1, <4>2
      <3> QED
        BY <3>1, <3>2, Zenon
    <2>4. \A c, d \in current'[q] : c # d => q \notin Writes[c]
      BY <1>3, <2>1
    <2>5. ASSUME NEW c \in current'[q], NEW b \in RB, Fifo \/ count'[c] > 0
          PROVE  Rank(c) < Rank(b)
      <3>1. c # b /\ c \in current[q] /\ b \in current[q] /\ count[c] > 0 /\ ~Fifo /\ t < b
        BY <1>4, <1>5, <2>1, <2>5
      <3>2. Rank(c) < Rank(t)'
        BY <2>1, <2>2, <2>5, <3>1
      <3>3. Rank(t)' = t /\ Rank(b) = b
        BY <1>0, <1>2, <3>1, ArriveRanks
      <3> QED
        BY <1>1, <1>2, <3>1, <3>2, <3>3
    <2>6. ASSUME NEW c \in current'[q], NEW b \in blocked'[q], Fifo \/ count'[c] > 0
          PROVE  Rank(c)' < Rank(b)'
      <3>1. c \in current[q] \ RB /\ (Fifo \/ count[c] > 0) /\ Rank(c)' = Rank(c)
        BY <1>2, <1>4, <2>1, <2>6
      <3>2. CASE b = t
        BY <2>2, <3>1, <3>2, Zenon
      <3>3. CASE b \in blocked[q]
        BY <1>2, <1>3, <3>1, <3>3
      <3>4. CASE b \in RB
        BY <1>2, <1>5, <2>5, <2>6, <3>1, <3>4, Zenon
      <3> QED
        BY <2>1, <3>2, <3>3, <3>4
    <2>7. ASSUME NEW r \in blocked'[q], q \notin Writes[r], \A c \in current'[q] : q \notin Writes[c]
          PROVE  \E w \in blocked'[q] : q \in Writes[w] /\ Rank(w)' < Rank(r)'
      <3>1. ASSUME NEW x \in blocked[q], q \notin Writes[x]
            PROVE  \E w \in blocked'[q] : q \in Writes[w] /\ Rank(w)' < Rank(x)'
        <4>1. CASE \A c \in current[q] : q \notin Writes[c]
          BY <1>2, <1>3, <2>1, <3>1, <4>1, SMTT(30)
        <4>2. CASE \E c \in current[q] : q \in Writes[c]
          <5>1. PICK c \in current[q] : q \in Writes[c]
            BY <4>2
          <5>2. c \in RB
            BY <2>1, <2>7, <5>1
          <5>3. Rank(c) < Rank(x)
            BY <1>3, <1>5, <3>1, <5>2, Zenon
          <5> QED
            BY <1>2, <2>1, <3>1, <5>1, <5>2, <5>3
        <4> QED
          BY <4>1, <4>2
      <3>2. CASE r \in blocked[q]
        BY <2>7, <3>1, <3>2
      <3>3. CASE r \in RB
        <4>1. q \in Writes[t] /\ t < r /\ ~Fifo /\ r \in current[q]
          BY <1>5, <2>7, <3>3 DEF ConflictAt
        <4>2. Rank(t)' < Rank(r)'
          BY <1>0, <1>2, <4>1, ArriveRanks, Zenon
        <4> QED
          BY <2>1, <4>1, <4>2
      <3>4. CASE r = t
        <4>1. \A c \in current[q] \ RB : ~ConflictAt(t, c, q)
          BY <2>1, <2>7, <3>4 DEF ConflictAt
        <4>2. PICK b \in blocked[q] : Rank(b) < Rank(t)'
          BY <2>2, <4>1
        <4>3. CASE q \in Writes[b]
          BY <1>2, <2>1, <3>4, <4>2, <4>3
        <4>4. CASE q \notin Writes[b]
          <5>1. PICK w \in blocked'[q] : q \in Writes[w] /\ Rank(w)' < Rank(b)'
            BY <3>1, <4>4
          <5>2. w # t
            BY <2>7, <3>4, <5>1
          <5>3. Rank(w)' \in Nat /\ Rank(b)' = Rank(b) /\ Rank(b) \in Nat
            BY <1>2, <1>5, <2>1, <5>2, Zenon
          <5> QED
            BY <1>1, <3>4, <4>2, <5>1, <5>3
        <4> QED
          BY <4>3, <4>4
      <3> QED
        BY <2>1, <3>2, <3>3, <3>4
    <2> QED
      BY <2>3, <2>4, <2>6, <2>7
  <1> QED
    BY <1>6, <1>7, <1>8, Zenon

-----------------------------------------------------------------------------
(* What unlock() hands on at a queue that t held alone: the first writer,   *)
(* or the readers ahead of every writer, and somebody if anyone waits.      *)
LEMMA GrantedFacts ==
    ASSUME IInv, NEW t \in Task, NEW q \in Queue
    PROVE  /\ Granted(t, q) \subseteq blocked[q]
           /\ Granted(t, q) # {} => q \in Uses(t) /\ current[q] = {t}
           /\ q \in Uses(t) /\ current[q] = {t} =>
                 /\ blocked[q] # {} => Granted(t, q) # {}
                 /\ \A c, d \in Granted(t, q) : c # d => q \notin Writes[c]
                 /\ \A c \in Granted(t, q), b \in blocked[q] \ Granted(t, q) : Rank(c) < Rank(b)
                 /\ \A r \in blocked[q] \ Granted(t, q) :
                       (q \notin Writes[r] /\ \A c \in Granted(t, q) : q \notin Writes[c])
                          => \E w \in blocked[q] \ Granted(t, q) :
                                q \in Writes[w] /\ Rank(w) < Rank(r)
  <1> DEFINE G == Granted(t, q)
             B == blocked[q]
             f == First(B)
             P == {r \in B : \A w \in B : q \in Writes[w] => Rank(r) < Rank(w)}
  <1>1. B \in SUBSET Task /\ \A b \in B : Rank(b) \in Nat /\ b \in active
    BY InQueue, RankType, Zenon DEF IInv, TypeOK
  <1>2. \A b, c \in B : b # c => Rank(b) # Rank(c)
    BY <1>1, RankInjective DEF IInv
  <1>3. G = IF q \notin Uses(t) \/ current[q] # {t} \/ B = {} THEN {}
            ELSE IF q \in Writes[f] THEN {f} ELSE P
    BY DEF Granted
  <1>4. B # {} => f \in B /\ \A b \in B : Rank(f) <= Rank(b)
    BY <1>1, FirstLeast DEF IInv
  <1>5. \A r \in P : q \notin Writes[r]
    BY <1>1
  <1>6. G \subseteq B /\ (G # {} => q \in Uses(t) /\ current[q] = {t})
    BY <1>3, <1>4, Zenon
  <1>7. ASSUME q \in Uses(t), current[q] = {t}, B # {}
        PROVE  /\ G # {}
               /\ \A c, d \in G : c # d => q \notin Writes[c]
               /\ \A c \in G, b \in B \ G : Rank(c) < Rank(b)
               /\ \A r \in B \ G :
                     (q \notin Writes[r] /\ \A c \in G : q \notin Writes[c])
                        => \E w \in B \ G : q \in Writes[w] /\ Rank(w) < Rank(r)
    <2> HIDE DEF f, B, G
    <2>1. CASE q \in Writes[f]
      <3>1. G = {f}
        BY <1>3, <1>7, <2>1
      <3> QED
        BY <1>1, <1>2, <1>4, <1>7, <2>1, <3>1
    <2>2. CASE q \notin Writes[f]
      <3>1. G = P
        BY <1>3, <1>7, <2>2
      <3>2. f \in P
        BY <1>1, <1>2, <1>4, <1>7, <2>2
      <3>3. ASSUME NEW b \in B \ P
            PROVE  \E w \in B : q \in Writes[w] /\ Rank(w) <= Rank(b)
        BY <1>1
      <3>4. ASSUME NEW c \in P, NEW b \in B \ P
            PROVE  Rank(c) < Rank(b)
        <4>1. PICK w \in B : q \in Writes[w] /\ Rank(w) <= Rank(b)
          BY <3>3
        <4> QED
          BY <1>1, <4>1
      <3>5. ASSUME NEW r \in B \ P, q \notin Writes[r]
            PROVE  \E w \in B \ P : q \in Writes[w] /\ Rank(w) < Rank(r)
        <4>1. PICK w \in B : q \in Writes[w] /\ Rank(w) <= Rank(r)
          BY <3>3
        <4>2. w \notin P /\ w # r
          BY <1>5, <3>5, <4>1
        <4> QED
          BY <1>1, <1>2, <4>1, <4>2
      <3> QED
        BY <1>5, <3>1, <3>2, <3>4, <3>5
    <2> QED
      BY <2>1, <2>2
  <1>8. B = {} => G = {}
    BY <1>3
  <1> HIDE DEF f, P
  <1> QED
    BY <1>6, <1>7, <1>8, Zenon

(* Unlocking keeps blocked_usage_count exact, and try_unblock() reaches     *)
(* zero for precisely the tasks of NewlyUnblocked.                          *)
LEMMA UnlockCounts ==
    ASSUME IInv, NEW t \in Task, NEW rest, UnlockUsageQueues(t, rest)
    PROVE  /\ count' \in [Task -> Nat]
           /\ CountMatches'
           /\ \A u \in Task : count'[u] <= count[u]
           /\ NewlyUnblocked(t) = {u \in Task : count[u] > 0 /\ count'[u] = 0}
  <1>1. ASSUME NEW u \in Task
        PROVE  /\ count'[u] \in Nat
               /\ count'[u] = Cardinality({q \in Queue : u \in blocked'[q]})
               /\ count'[u] <= count[u]
               /\ u \in NewlyUnblocked(t) <=> count[u] > 0 /\ count'[u] = 0
    <2> DEFINE A == {q \in Queue : u \in blocked[q]}
               B == GrantedQueues(t, u)
               C == {q \in Queue : u \in blocked'[q]}
    <2>1. B \subseteq A
      BY GrantedFacts, Zenon DEF GrantedQueues
    <2>2. C = A \ B
      BY Zenon DEF UnlockUsageQueues, GrantedQueues
    <2>3. IsFiniteSet(A)
      BY SchedAssumption, FS_Subset, Zenon
    <2>4. count[u] = Cardinality(A)
      BY Zenon DEF IInv, CountsExact, CountMatches
    <2>5. count'[u] = count[u] - Cardinality(B)
      BY Zenon DEF UnlockUsageQueues
    <2>6. u \in NewlyUnblocked(t) <=> B # {} /\ count[u] = Cardinality(B)
      BY DEF NewlyUnblocked
    <2> HIDE DEF A, B, C
    <2>7. /\ Cardinality(A) \in Nat /\ Cardinality(B) \in Nat /\ Cardinality(C) \in Nat
          /\ Cardinality(C) = Cardinality(A) - Cardinality(B)
          /\ IsFiniteSet(B)
      BY <2>1, <2>2, <2>3, SubsetDifference, Zenon
    <2>8. B = {} <=> Cardinality(B) = 0
      BY <2>7, FS_EmptySet
    <2>9. /\ count'[u] \in Nat
          /\ count'[u] = Cardinality(C)
          /\ count'[u] <= count[u]
          /\ u \in NewlyUnblocked(t) <=> count[u] > 0 /\ count'[u] = 0
      BY <2>4, <2>5, <2>6, <2>7, <2>8, SMTT(30)
    <2> QED
      BY <2>9, Zenon DEF C
  <1>2. count' = [u \in Task |-> count'[u]]
    BY Zenon DEF UnlockUsageQueues
  <1>3. count' \in [Task -> Nat]
    BY <1>1, <1>2, Zenon
  <1>4. CountMatches'
    BY <1>1, Zenon DEF CountMatches
  <1>5. NewlyUnblocked(t) \subseteq Task
    BY DEF NewlyUnblocked
  <1> QED
    BY <1>1, <1>3, <1>4, <1>5, Zenon

(* The queues after t is gone.                                              *)
LEMMA UnlockQueues ==
    ASSUME IInv, NEW t \in Runnable, NEW rest, UnlockUsageQueues(t, rest),
           arrival' = arrival, NEW q \in Queue
    PROVE  /\ q \notin Uses(t) => current'[q] = current[q] /\ blocked'[q] = blocked[q]
           /\ q \in Uses(t) /\ current[q] # {t} =>
                 current'[q] = current[q] \ {t} /\ blocked'[q] = blocked[q]
           /\ q \in Uses(t) /\ current[q] = {t} =>
                 current'[q] = Granted(t, q) /\ blocked'[q] = blocked[q] \ Granted(t, q)
           /\ q \in Uses(t) => t \in current[q]
           /\ t \in Task
           /\ \A u \in Task : Rank(u)' = Rank(u)
  <1>1. t \in Task
    BY Zenon DEF IInv, CountsExact, RunnableExact, TypeOK
  <1>2. q \in Uses(t) => t \in current[q]
    BY RunnableHolds, Zenon DEF IInv
  <1>3. /\ current'[q] = IF q \in Uses(t) THEN (current[q] \ {t}) \cup Granted(t, q) ELSE current[q]
        /\ blocked'[q] = blocked[q] \ Granted(t, q)
    BY Zenon DEF UnlockUsageQueues
  <1>4. ~(q \in Uses(t) /\ current[q] = {t}) => Granted(t, q) = {}
    BY <1>1, GrantedFacts, Zenon
  <1>5. \A u \in Task : Rank(u)' = Rank(u)
    BY DEF Rank
  <1> QED
    BY <1>1, <1>2, <1>3, <1>4, <1>5, Zenon

(* Unlocking keeps the order of the queues.                                 *)
LEMMA UnlockKeepsOrder ==
    ASSUME IInv, NEW t \in Runnable, NEW rest, UnlockUsageQueues(t, rest),
           arrival' = arrival, NEW q \in Queue
    PROVE  /\ current'[q] = {} => blocked'[q] = {}
           /\ \A c, d \in current'[q] : c # d => q \notin Writes[c]
           /\ \A c \in current'[q], b \in blocked'[q] :
                 (Fifo \/ count'[c] > 0) => Rank(c)' < Rank(b)'
           /\ \A r \in blocked'[q] :
                 (q \notin Writes[r] /\ \A c \in current'[q] : q \notin Writes[c])
                    => \E w \in blocked'[q] : q \in Writes[w] /\ Rank(w)' < Rank(r)'
  <1>1. /\ t \in Task
        /\ q \in Uses(t) => t \in current[q]
        /\ \A u \in Task : Rank(u)' = Rank(u)
    BY UnlockQueues, Zenon
  <1>2. \A u \in current[q] \cup blocked[q] : u \in Task /\ Rank(u)' = Rank(u)
    BY <1>1, InQueue, Zenon
  <1>3. /\ current[q] = {} => blocked[q] = {}
        /\ \A c, d \in current[q] : c # d => q \notin Writes[c]
        /\ \A c \in current[q], b \in blocked[q] : (Fifo \/ count[c] > 0) => Rank(c) < Rank(b)
        /\ \A r \in blocked[q] :
              (q \notin Writes[r] /\ \A c \in current[q] : q \notin Writes[c])
                 => \E w \in blocked[q] : q \in Writes[w] /\ Rank(w) < Rank(r)
    BY Zenon DEF IInv, LockInv, IdleInv, AloneInv, OrderInv, ReadersInv
  <1>4. \A c \in current[q] : count'[c] > 0 => count[c] > 0
    BY <1>1, <1>2, UnlockCounts, SMTT(30) DEF IInv, TypeOK
  <1>5. CASE q \notin Uses(t)
    <2>1. current'[q] = current[q] /\ blocked'[q] = blocked[q]
      BY <1>5, UnlockQueues, Zenon
    <2> QED
      BY <1>2, <1>3, <1>4, <2>1, SMTT(30)
  <1>6. CASE q \in Uses(t) /\ current[q] # {t}
    <2>1. current'[q] = current[q] \ {t} /\ blocked'[q] = blocked[q]
      BY <1>6, UnlockQueues, Zenon
    <2>2. q \notin Writes[t] /\ current'[q] # {}
      BY <1>1, <1>3, <1>6, <2>1, Zenon
    <2> QED
      BY <1>2, <1>3, <1>4, <2>1, <2>2, SMTT(30)
  <1>7. CASE q \in Uses(t) /\ current[q] = {t}
    <2>1. current'[q] = Granted(t, q) /\ blocked'[q] = blocked[q] \ Granted(t, q)
      BY <1>7, UnlockQueues, Zenon
    <2>2. Granted(t, q) \subseteq blocked[q]
      BY <1>1, GrantedFacts, Zenon
    <2>3. /\ blocked[q] # {} => Granted(t, q) # {}
          /\ \A c, d \in Granted(t, q) : c # d => q \notin Writes[c]
          /\ \A c \in Granted(t, q), b \in blocked[q] \ Granted(t, q) : Rank(c) < Rank(b)
          /\ \A r \in blocked[q] \ Granted(t, q) :
                (q \notin Writes[r] /\ \A c \in Granted(t, q) : q \notin Writes[c])
                   => \E w \in blocked[q] \ Granted(t, q) :
                         q \in Writes[w] /\ Rank(w) < Rank(r)
      BY <1>1, <1>7, GrantedFacts, Zenon
    <2> QED
      BY <1>2, <2>1, <2>2, <2>3, SMTT(30)
  <1> QED
    BY <1>5, <1>6, <1>7, Zenon

(* Unlocking takes t out of its queues and moves no one else.               *)
LEMMA UnlockPlacement ==
    ASSUME IInv, NEW t \in Runnable, NEW rest, UnlockUsageQueues(t, rest),
           arrival' = arrival, active' = active \ {t}
    PROVE  /\ Placement'
           /\ current' \in [Queue -> SUBSET Task]
           /\ blocked' \in [Queue -> SUBSET Task]
  <1>1. ASSUME NEW q \in Queue
        PROVE  /\ current'[q] \cap blocked'[q] = {}
               /\ current'[q] \cup blocked'[q] = {u \in active' : q \in Uses(u)}
               /\ current'[q] \in SUBSET Task /\ blocked'[q] \in SUBSET Task
    <2>1. /\ current[q] \cap blocked[q] = {}
          /\ current[q] \cup blocked[q] = {u \in active : q \in Uses(u)}
          /\ current[q] \in SUBSET Task /\ blocked[q] \in SUBSET Task
      BY Zenon DEF IInv, CountsExact, Placement, TypeOK
    <2>2. t \in Task /\ Granted(t, q) \subseteq blocked[q] /\ (q \in Uses(t) => t \in current[q])
      BY UnlockQueues, GrantedFacts, Zenon
    <2>3. CASE q \notin Uses(t)
      BY <2>1, <2>3, UnlockQueues, Zenon
    <2>4. CASE q \in Uses(t) /\ current[q] # {t}
      <3>1. current'[q] = current[q] \ {t} /\ blocked'[q] = blocked[q] /\ t \in current[q]
        BY <2>4, UnlockQueues, Zenon
      <3> QED
        BY <2>1, <2>2, <2>4, <3>1, Zenon
    <2>5. CASE q \in Uses(t) /\ current[q] = {t}
      <3>1. current'[q] = Granted(t, q) /\ blocked'[q] = blocked[q] \ Granted(t, q)
        BY <2>5, UnlockQueues, Zenon
      <3> HIDE DEF Granted
      <3> QED
        BY <2>1, <2>2, <2>5, <3>1, Zenon
    <2> QED
      BY <2>3, <2>4, <2>5, Zenon
  <1>2. /\ current' = [q \in Queue |-> current'[q]]
        /\ blocked' = [q \in Queue |-> blocked'[q]]
    BY Zenon DEF UnlockUsageQueues
  <1> QED
    BY <1>1, <1>2, Zenon DEF Placement

(* Length and elements of a concatenation.                                  *)
LEMMA Concat ==
    ASSUME NEW S, NEW a \in Seq(S), NEW b \in Seq(S)
    PROVE  /\ a \o b \in Seq(S)
           /\ Len(a \o b) = Len(a) + Len(b)
           /\ \A i \in 1..(Len(a) + Len(b)) :
                 (a \o b)[i] = IF i <= Len(a) THEN a[i] ELSE b[i - Len(a)]
  <1>1. a \o b \in Seq(S)
    OBVIOUS
  <1>2. Len(a \o b) = Len(a) + Len(b)
    OBVIOUS
  <1>3. \A i \in 1..(Len(a) + Len(b)) :
           (a \o b)[i] = IF i <= Len(a) THEN a[i] ELSE b[i - Len(a)]
    OBVIOUS
  <1> QED
    BY <1>1, <1>2, <1>3

(* The tasks pushed to unblocked_task_queue are those of NewlyUnblocked,    *)
(* each once.                                                               *)
LEMMA UnlockPushes ==
    ASSUME IInv, NEW t \in Task, NEW rest \in Seq(Task), UnlockUsageQueues(t, rest),
           \A i, j \in 1..Len(rest) : rest[i] = rest[j] => i = j,
           RangeOf(rest) \cap NewlyUnblocked(t) = {}
    PROVE  /\ unblocked' \in Seq(Task)
           /\ RangeOf(unblocked') = RangeOf(rest) \cup NewlyUnblocked(t)
           /\ \A i, j \in 1..Len(unblocked') : unblocked'[i] = unblocked'[j] => i = j
  <1> DEFINE U == NewlyUnblocked(t)
             n == Cardinality(U)
  <1>1. PICK s \in [1..n -> U] : /\ \A i, j \in DOMAIN s : i < j => PushedBefore(t, s[i], s[j])
                                 /\ unblocked' = rest \o s
    BY Zenon DEF UnlockUsageQueues
  <1>2. U \in SUBSET Task /\ IsFiniteSet(U)
    <2>1. U \in SUBSET Task
      BY Zenon DEF NewlyUnblocked
    <2> QED
      BY <2>1, SchedAssumption, FS_Subset, Zenon
  <1>3. n \in Nat
    BY <1>2, FS_CardinalityType, Zenon
  <1>4. \A u \in U : ~PushedBefore(t, u, u)
    <2> SUFFICES ASSUME NEW u \in U, PushedBefore(t, u, u) PROVE FALSE
      OBVIOUS
    <2>1. PICK i \in 1..Len(Keys[t]) : i < i \/ Rank(u) < Rank(u)
      BY Zenon DEF PushedBefore
    <2>2. Rank(u) \in Nat /\ i \in Int
      BY <1>2, RankType, SMTT(30) DEF IInv
    <2> QED
      BY <2>1, <2>2, SMTT(30)
  <1> HIDE DEF U, n
  <1>5. \A i, j \in 1..n : s[i] = s[j] => i = j
    <2> SUFFICES ASSUME NEW i \in 1..n, NEW j \in 1..n, s[i] = s[j], i < j PROVE FALSE
      BY <1>3, SMTT(30)
    <2> QED
      BY <1>1, <1>4, Zenon
  <1>6. s \in Injection(1..n, U)
    BY <1>5, Zenon DEF Injection, IsInjective
  <1>7. IsFiniteSet(1..n) /\ Cardinality(1..n) = n
    <2>1. IsFiniteSet(1..n) /\ Cardinality(1..n) = IF 1 > n THEN 0 ELSE n - 1 + 1
      BY <1>3, FS_Interval, SMTT(30)
    <2> QED
      BY <1>3, <2>1, SMTT(30)
  <1>8. s \in Surjection(1..n, U)
    BY <1>2, <1>6, <1>7, FS_Injection, Zenon DEF n
  <1>9. \A u \in U : \E i \in 1..n : s[i] = u
    BY <1>8, Zenon DEF Surjection
  <1>10. s \in Seq(Task) /\ Len(s) = n
    BY <1>2, <1>3, SMTT(30)
  <1>a. /\ rest \o s \in Seq(Task)
        /\ Len(rest \o s) = Len(rest) + Len(s)
        /\ \A i \in 1..(Len(rest) + Len(s)) :
              (rest \o s)[i] = IF i <= Len(rest) THEN rest[i] ELSE s[i - Len(rest)]
    <2>1. s \in Seq(Task)
      BY <1>10, Zenon
    <2> QED
      BY <2>1, Concat, SMTT(30)
  <1>b. unblocked' = rest \o s
    BY <1>1, Zenon
  <1>11. unblocked' \in Seq(Task) /\ Len(unblocked') = Len(rest) + n
    BY <1>10, <1>a, <1>b, Zenon
  <1>12. \A i \in 1..(Len(rest) + n) :
            unblocked'[i] = IF i <= Len(rest) THEN rest[i] ELSE s[i - Len(rest)]
    BY <1>10, <1>a, <1>b, Zenon
  <1>13. ASSUME NEW u PROVE u \in RangeOf(unblocked') <=> u \in RangeOf(rest) \cup U
    <2>0. Len(rest) \in Nat
      OBVIOUS
    <2>1. ASSUME NEW i \in 1..Len(unblocked'), u = unblocked'[i]
          PROVE  u \in RangeOf(rest) \cup U
      <3>1. CASE i <= Len(rest)
        BY <1>11, <1>12, <1>3, <2>0, <2>1, <3>1 DEF RangeOf
      <3>2. CASE ~(i <= Len(rest))
        <4>1. i - Len(rest) \in 1..n
          BY <1>11, <1>3, <2>0, <2>1, <3>2
        <4>2. u = s[i - Len(rest)]
          BY <1>11, <1>12, <2>1, <3>2
        <4> QED
          BY <4>1, <4>2
      <3> QED
        BY <3>1, <3>2
    <2>2. ASSUME NEW i \in 1..Len(rest), u = rest[i]
          PROVE  u \in RangeOf(unblocked')
      <3>1. i \in 1..Len(unblocked')
        BY <1>11, <1>3, <2>0, <2>2
      <3> QED
        BY <1>11, <1>12, <2>2, <3>1 DEF RangeOf
    <2>3. ASSUME u \in U
          PROVE  u \in RangeOf(unblocked')
      <3>1. PICK i \in 1..n : s[i] = u
        BY <1>9, <2>3
      <3>2. i + Len(rest) \in 1..Len(unblocked') /\ ~(i + Len(rest) <= Len(rest))
        BY <1>11, <1>3, <2>0
      <3>3. unblocked'[i + Len(rest)] = s[(i + Len(rest)) - Len(rest)]
        BY <1>11, <1>12, <3>2
      <3>4. (i + Len(rest)) - Len(rest) = i
        BY <1>3, <2>0
      <3> QED
        BY <3>1, <3>2, <3>3, <3>4 DEF RangeOf
    <2> QED
      BY <2>1, <2>2, <2>3, SMTT(30) DEF RangeOf
  <1>14. ASSUME NEW i \in 1..Len(unblocked'), NEW j \in 1..Len(unblocked'),
                unblocked'[i] = unblocked'[j]
         PROVE  i = j
    <2>0. Len(rest) \in Nat /\ i \in Int /\ j \in Int
      BY <1>11
    <2>1. ASSUME NEW k \in 1..Len(unblocked'), ~(k <= Len(rest))
          PROVE  /\ k - Len(rest) \in 1..n /\ unblocked'[k] = s[k - Len(rest)]
                 /\ unblocked'[k] \in U
      <3>1. k - Len(rest) \in 1..n
        BY <1>11, <1>3, <2>0, <2>1
      <3>2. unblocked'[k] = s[k - Len(rest)]
        BY <1>11, <1>12, <2>1
      <3> QED
        BY <3>1, <3>2
    <2>2. ASSUME NEW k \in 1..Len(unblocked'), k <= Len(rest)
          PROVE  /\ k \in 1..Len(rest) /\ unblocked'[k] = rest[k]
                 /\ unblocked'[k] \in RangeOf(rest)
      <3>1. k \in 1..Len(rest)
        BY <2>0, <2>2, <1>11
      <3>2. unblocked'[k] = rest[k]
        BY <1>11, <1>12, <2>2
      <3> QED
        BY <3>1, <3>2 DEF RangeOf
    <2>3. CASE i <= Len(rest) /\ j <= Len(rest)
      BY <1>14, <2>2, <2>3
    <2>4. CASE ~(i <= Len(rest)) /\ ~(j <= Len(rest))
      <3>1. i - Len(rest) = j - Len(rest)
        BY <1>14, <1>5, <2>1, <2>4
      <3> QED
        BY <2>0, <3>1
    <2>5. CASE (i <= Len(rest) /\ ~(j <= Len(rest))) \/ (j <= Len(rest) /\ ~(i <= Len(rest)))
      BY <1>14, <2>1, <2>2, <2>5 DEF U
    <2> QED
      BY <2>3, <2>4, <2>5
  <1> QED
    BY <1>11, <1>13, <1>14, Zenon DEF U

-----------------------------------------------------------------------------
(* The finite sets behind the counters.                                     *)
LEMMA FiniteCounters ==
    ASSUME IInv
    PROVE  /\ IsFiniteSet(running) /\ Cardinality(running) \in Nat
           /\ IsFiniteSet(hashes) /\ Cardinality(hashes) \in Nat
  <1> DEFINE H == {Hash[t] : t \in active}
             f == [t \in active |-> Hash[t]]
  <1>1. active \in SUBSET Task /\ running \in SUBSET active /\ hashes \in SUBSET H
    BY DEF IInv, TypeOK
  <1>2. IsFiniteSet(active)
    BY <1>1, SchedAssumption, FS_Subset, Zenon
  <1>3. f \in Surjection(active, H)
    BY DEF Surjection
  <1>4. IsFiniteSet(H)
    BY <1>2, <1>3, FS_Surjection
  <1> HIDE DEF H
  <1> QED
    BY <1>1, <1>2, <1>4, FS_Subset, FS_CardinalityType

(* An arrival takes a fresh number.                                         *)
LEMMA ArriveNumbers ==
    ASSUME IInv, NEW t \in Task, Arrive(t), active' \subseteq active \cup {t}
    PROVE  ArrivalInv'
  <1>1. arrival \in [Task -> Nat] /\ total \in Nat /\ active \subseteq Task
    BY DEF IInv, TypeOK
  <1>2. arrival' = [arrival EXCEPT ![t] = total + 1] /\ total' = total + 1
    BY DEF Arrive
  <1>3. /\ \A u \in Task : arrival[u] <= total
        /\ \A u \in active : arrival[u] > 0
        /\ \A u, v \in Task : arrival[u] = arrival[v] /\ arrival[u] > 0 => u = v
    BY DEF IInv, ArrivalInv
  <1>4. \A u \in Task : arrival'[u] = IF u = t THEN total + 1 ELSE arrival[u]
    BY <1>1, <1>2
  <1>5. \A u \in Task : arrival'[u] <= total'
    BY <1>1, <1>2, <1>3, <1>4
  <1>6. \A u \in active' : arrival'[u] > 0
    BY <1>1, <1>3, <1>4
  <1>7. \A u, v \in Task : arrival'[u] = arrival'[v] /\ arrival'[u] > 0 => u = v
    BY <1>1, <1>3, <1>4
  <1> QED
    BY <1>5, <1>6, <1>7 DEF ArrivalInv

(* A dropped task leaves only its number behind.                            *)
LEMMA DropTaskStep ==
    ASSUME IInv, NEW t \in Task, DropTask(t)
    PROVE  IInv'
  <1>1. Arrive(t) /\ UNCHANGED <<current, blocked, count, unblocked, active, running, hashes, clearing>>
    BY DEF DropTask, Arrive, locks
  <1>2. ArrivalInv'
    BY <1>1, ArriveNumbers
  <1>3. TypeOK'
    BY <1>1, ArriveRanks DEF IInv, TypeOK
  <1>4. \A q \in Queue : \A u \in current[q] \cup blocked[q] : Rank(u)' = Rank(u)
    BY <1>1, ArriveRanks, InQueue
  <1>5. OrderInv' /\ ReadersInv'
    <2>1. OrderInv'
      BY <1>1, <1>4 DEF IInv, LockInv, OrderInv
    <2>2. ReadersInv'
      BY <1>1, <1>4 DEF IInv, LockInv, ReadersInv
    <2> QED
      BY <2>1, <2>2
  <1>6. CountsExact' /\ IdleInv' /\ AloneInv' /\ QueueInv' /\ HashInv' /\ ClearInv'
    <2>1. CountsExact'
      BY <1>1 DEF IInv, LockInv, CountsExact, CountMatches, Placement, RunnableExact, Runnable
    <2>2. IdleInv' /\ AloneInv' /\ QueueInv' /\ HashInv' /\ ClearInv'
      BY <1>1 DEF IInv, LockInv, IdleInv, AloneInv, QueueInv, HashInv, ClearInv
    <2> QED
      BY <2>1, <2>2
  <1> QED
    BY <1>2, <1>3, <1>5, <1>6 DEF IInv, LockInv

(* The parts that an admitted task changes the same way in all three        *)
(* outcomes.                                                                *)
LEMMA AdmitStep ==
    ASSUME IInv, NEW t \in Task, Admit(t)
    PROVE  /\ LockInv' /\ CountMatches' /\ Placement' /\ ArrivalInv' /\ HashInv'
           /\ current' \in [Queue -> SUBSET Task] /\ blocked' \in [Queue -> SUBSET Task]
           /\ count' \in [Task -> Nat] /\ active' \subseteq Task
           /\ hashes' \subseteq {Hash[u] : u \in active'}
           /\ MaxUnique > 0 => Cardinality(hashes') <= MaxUnique
           /\ total' \in Nat /\ arrival' \in [Task -> Nat]
           /\ t \notin active /\ t \notin Runnable
           /\ {u \in active' : count'[u] = 0} =
                 Runnable \cup (IF BlockedAt(t) = {} THEN {t} ELSE {})
  <1>0. Arrive(t) /\ active' = active \cup {t}
    BY DEF Admit
  <1>1. LockInv'
    BY LockKeepsOrder DEF LockInv, IdleInv, AloneInv, OrderInv, ReadersInv
  <1>2. CountMatches' /\ count' \in [Task -> Nat]
    BY LockCounts
  <1>3. Placement' /\ current' \in [Queue -> SUBSET Task] /\ blocked' \in [Queue -> SUBSET Task]
    BY LockPlacement
  <1>4. ArrivalInv'
    BY <1>0, ArriveNumbers
  <1>5. active' \subseteq Task /\ active \subseteq Task
    BY <1>0 DEF IInv, TypeOK
  <1>6. hashes' = IF MaxUnique > 0 THEN hashes \cup {Hash[t]} ELSE hashes
    BY DEF Admit
  <1>7. hashes' \subseteq {Hash[u] : u \in active'}
    BY <1>0, <1>6 DEF IInv, TypeOK
  <1>8. MaxUnique > 0 => Cardinality(hashes) < MaxUnique /\ Hash[t] \notin hashes
    BY FiniteCounters, SchedAssumption DEF Admit, Dropped
  <1>9. MaxUnique > 0 => Cardinality(hashes') <= MaxUnique
    <2>1. Cardinality(hashes \cup {Hash[t]}) =
             IF Hash[t] \in hashes THEN Cardinality(hashes) ELSE Cardinality(hashes) + 1
      BY FiniteCounters, FS_AddElement, Zenon
    <2> QED
      BY <1>6, <1>8, <2>1, FiniteCounters, SchedAssumption
  <1>10. HashInv'
    BY <1>0, <1>6, <1>8, SchedAssumption DEF IInv, HashInv
  <1>11. total' \in Nat /\ arrival' \in [Task -> Nat] /\ t \notin active
    BY <1>0, ArriveRanks
  <1>12. Runnable = {u \in active : count[u] = 0}
    BY DEF IInv, CountsExact, RunnableExact
  <1>13. ASSUME NEW u
         PROVE  (u \in active' /\ count'[u] = 0) <=>
                   u \in Runnable \/ (u = t /\ BlockedAt(t) = {})
    BY <1>0, <1>5, <1>11, <1>12, LockCounts
  <1>14. {u \in active' : count'[u] = 0} = Runnable \cup (IF BlockedAt(t) = {} THEN {t} ELSE {})
    BY <1>13
  <1> QED
    BY <1>1, <1>2, <1>3, <1>4, <1>5, <1>7, <1>9, <1>10, <1>11, <1>12, <1>14

(* The range of a queue after push_back() and pop_front().                  *)
LEMMA RangeAppend ==
    ASSUME NEW q \in Seq(Task), NEW t \in Task,
           \A i, j \in 1..Len(q) : q[i] = q[j] => i = j, t \notin RangeOf(q)
    PROVE  /\ Append(q, t) \in Seq(Task)
           /\ RangeOf(Append(q, t)) = RangeOf(q) \cup {t}
           /\ \A i, j \in 1..Len(Append(q, t)) : Append(q, t)[i] = Append(q, t)[j] => i = j
  <1>1. Append(q, t) \in Seq(Task) /\ Len(Append(q, t)) = Len(q) + 1 /\ Len(q) \in Nat
    OBVIOUS
  <1>2. \A i \in 1..(Len(q) + 1) : Append(q, t)[i] = IF i <= Len(q) THEN q[i] ELSE t
    OBVIOUS
  <1>3. RangeOf(Append(q, t)) = RangeOf(q) \cup {t}
    <2>1. ASSUME NEW x \in RangeOf(q) PROVE x \in RangeOf(Append(q, t))
      <3>1. PICK i \in 1..Len(q) : x = q[i]
        BY DEF RangeOf
      <3>2. i \in 1..(Len(q) + 1) /\ i <= Len(q)
        BY <1>1
      <3> QED
        BY <1>1, <1>2, <3>1, <3>2 DEF RangeOf
    <2>2. t \in RangeOf(Append(q, t))
      <3>1. Len(q) + 1 \in 1..(Len(q) + 1) /\ ~(Len(q) + 1 <= Len(q))
        BY <1>1
      <3> QED
        BY <1>1, <1>2, <3>1 DEF RangeOf
    <2>3. ASSUME NEW x \in RangeOf(Append(q, t)) PROVE x \in RangeOf(q) \cup {t}
      <3>1. PICK i \in 1..(Len(q) + 1) : x = Append(q, t)[i]
        BY <1>1 DEF RangeOf
      <3>2. i <= Len(q) => i \in 1..Len(q)
        BY <1>1
      <3> QED
        BY <1>2, <3>1, <3>2 DEF RangeOf
    <2> QED
      BY <2>1, <2>2, <2>3
  <1>4. ASSUME NEW i \in 1..(Len(q) + 1), NEW j \in 1..(Len(q) + 1), Append(q, t)[i] = Append(q, t)[j]
        PROVE  i = j
    <2>1. \A k \in 1..(Len(q) + 1) : \/ k \in 1..Len(q) /\ Append(q, t)[k] = q[k]
                                     \/ k = Len(q) + 1 /\ Append(q, t)[k] = t
      BY <1>1, <1>2
    <2> QED
      BY <1>4, <2>1 DEF RangeOf
  <1> QED
    BY <1>1, <1>3, <1>4

LEMMA RangeTail ==
    ASSUME NEW q \in Seq(Task), q # <<>>,
           \A i, j \in 1..Len(q) : q[i] = q[j] => i = j
    PROVE  /\ Head(q) \in Task /\ Tail(q) \in Seq(Task)
           /\ Head(q) \in RangeOf(q)
           /\ RangeOf(Tail(q)) = RangeOf(q) \ {Head(q)}
           /\ \A i, j \in 1..Len(Tail(q)) : Tail(q)[i] = Tail(q)[j] => i = j
  <1>1. /\ Len(q) \in Nat \ {0} /\ Tail(q) \in Seq(Task) /\ Len(Tail(q)) = Len(q) - 1
        /\ Head(q) = q[1] /\ Head(q) \in Task
    OBVIOUS
  <1>2. \A i \in 1..(Len(q) - 1) : Tail(q)[i] = q[i + 1]
    OBVIOUS
  <1>3. \A i \in 1..(Len(q) - 1) : i + 1 \in 1..Len(q) /\ i + 1 # 1
    BY <1>1
  <1>4. 1 \in 1..Len(q) /\ \A k \in 1..Len(q) : k # 1 => k - 1 \in 1..(Len(q) - 1) /\ (k - 1) + 1 = k
    BY <1>1
  <1>5. RangeOf(Tail(q)) = RangeOf(q) \ {Head(q)}
    <2>1. ASSUME NEW x \in RangeOf(Tail(q)) PROVE x \in RangeOf(q) \ {Head(q)}
      <3>1. PICK i \in 1..(Len(q) - 1) : x = q[i + 1]
        BY <1>1, <1>2 DEF RangeOf
      <3> QED
        BY <1>1, <1>3, <1>4, <3>1 DEF RangeOf
    <2>2. ASSUME NEW x \in RangeOf(q) \ {Head(q)} PROVE x \in RangeOf(Tail(q))
      <3>1. PICK k \in 1..Len(q) : x = q[k] /\ k # 1
        BY <1>1 DEF RangeOf
      <3>2. k - 1 \in 1..(Len(q) - 1) /\ (k - 1) + 1 = k
        BY <1>4, <3>1
      <3>3. Tail(q)[k - 1] = x
        BY <1>2, <3>1, <3>2
      <3> QED
        BY <1>1, <3>2, <3>3 DEF RangeOf
    <2> QED
      BY <2>1, <2>2
  <1>6. ASSUME NEW i \in 1..(Len(q) - 1), NEW j \in 1..(Len(q) - 1), Tail(q)[i] = Tail(q)[j]
        PROVE  i = j
    <2>1. i + 1 = j + 1
      BY <1>2, <1>3, <1>6
    <2> QED
      BY <1>1, <2>1
  <1> QED
    BY <1>1, <1>4, <1>5, <1>6 DEF RangeOf

(* schedule_or_buffer_task() preserves the invariant.                       *)
LEMMA ScheduleStep ==
    ASSUME IInv, NEW t \in Task, BlockTask(t) \/ BufferTask(t) \/ RunTask(t)
    PROVE  IInv'
  <1>0. Admit(t) /\ clearing' = clearing /\ active' = active \cup {t} /\ ~clearing
    BY DEF BlockTask, BufferTask, RunTask, Admit, Arrive
  <1>1. /\ LockInv' /\ CountMatches' /\ Placement' /\ ArrivalInv' /\ HashInv'
        /\ current' \in [Queue -> SUBSET Task] /\ blocked' \in [Queue -> SUBSET Task]
        /\ count' \in [Task -> Nat] /\ active' \subseteq Task
        /\ hashes' \subseteq {Hash[u] : u \in active'}
        /\ MaxUnique > 0 => Cardinality(hashes') <= MaxUnique
        /\ total' \in Nat /\ arrival' \in [Task -> Nat]
        /\ t \notin active /\ t \notin Runnable
        /\ {u \in active' : count'[u] = 0} =
              Runnable \cup (IF BlockedAt(t) = {} THEN {t} ELSE {})
    BY <1>0, AdmitStep
  <1>2. /\ unblocked \in Seq(Task) /\ running \subseteq active /\ Cardinality(running) <= MaxRunning
        /\ clearing \in BOOLEAN
        /\ running \cap RangeOf(unblocked) = {} /\ Runnable = running \cup RangeOf(unblocked)
        /\ \A i, j \in 1..Len(unblocked) : unblocked[i] = unblocked[j] => i = j
        /\ clearing => running = {}
    BY DEF IInv, TypeOK, CountsExact, RunnableExact, Runnable, QueueInv, ClearInv
  <1>3. SUFFICES /\ unblocked' \in Seq(Task)
                 /\ running' \subseteq active' /\ Cardinality(running') <= MaxRunning
                 /\ Runnable' = {u \in active' : count'[u] = 0}
                 /\ running' \cap RangeOf(unblocked') = {}
                 /\ \A i, j \in 1..Len(unblocked') : unblocked'[i] = unblocked'[j] => i = j
    <2>1. TypeOK'
      BY <1>0, <1>1, <1>2, <1>3 DEF TypeOK
    <2>2. RunnableExact' /\ QueueInv' /\ ClearInv'
      BY <1>0, <1>2, <1>3 DEF RunnableExact, QueueInv, ClearInv
    <2> QED
      BY <1>1, <2>1, <2>2 DEF IInv, CountsExact
  <1>4. CASE BlockTask(t)
    <2>1. unblocked' = unblocked /\ running' = running /\ BlockedAt(t) # {}
      BY <1>4 DEF BlockTask
    <2>2. Runnable' = Runnable
      BY <2>1 DEF Runnable
    <2> QED
      BY <1>0, <1>1, <1>2, <2>1, <2>2
  <1>5. CASE BufferTask(t)
    <2>1. unblocked' = Append(unblocked, t) /\ running' = running /\ BlockedAt(t) = {}
      BY <1>5 DEF BufferTask
    <2>2. /\ unblocked' \in Seq(Task) /\ RangeOf(unblocked') = RangeOf(unblocked) \cup {t}
          /\ \A i, j \in 1..Len(unblocked') : unblocked'[i] = unblocked'[j] => i = j
      BY <1>1, <1>2, <2>1, RangeAppend, Zenon
    <2>3. Runnable' = Runnable \cup {t}
      BY <1>2, <2>1, <2>2 DEF Runnable
    <2>4. Runnable' = {u \in active' : count'[u] = 0}
      BY <1>1, <2>1, <2>3
    <2>5. running' \cap RangeOf(unblocked') = {}
      <3>1. t \notin running
        BY <1>1, <1>2
      <3> QED
        BY <1>2, <2>1, <2>2, <3>1
    <2>6. running' \subseteq active' /\ Cardinality(running') <= MaxRunning
      BY <1>0, <1>2, <2>1
    <2> QED
      BY <2>2, <2>4, <2>5, <2>6
  <1>6. CASE RunTask(t)
    <2>1. /\ unblocked' = unblocked /\ running' = running \cup {t} /\ BlockedAt(t) = {}
          /\ Cardinality(running) < MaxRunning
      BY <1>6 DEF RunTask
    <2>2. Cardinality(running \cup {t}) = Cardinality(running) + 1
      BY <1>1, <1>2, FiniteCounters, FS_AddElement, Zenon
    <2>3. Cardinality(running') <= MaxRunning
      BY <2>1, <2>2, FiniteCounters, SchedAssumption
    <2>4. Runnable' = Runnable \cup {t}
      BY <1>2, <2>1 DEF Runnable
    <2>5. Runnable' = {u \in active' : count'[u] = 0}
      BY <1>1, <2>1, <2>4
    <2>6. running' \cap RangeOf(unblocked') = {}
      BY <1>1, <1>2, <2>1
    <2>7. unblocked' \in Seq(Task) /\ running' \subseteq active'
      BY <1>0, <1>2, <2>1
    <2>8. \A i, j \in 1..Len(unblocked') : unblocked'[i] = unblocked'[j] => i = j
      BY <1>2, <2>1
    <2> QED
      BY <2>3, <2>5, <2>6, <2>7, <2>8
  <1> QED
    BY <1>4, <1>5, <1>6

(* schedule_next_unblocked_task() preserves the invariant.                  *)
LEMMA ScheduleNextStep ==
    ASSUME IInv, ScheduleNextUnblockedTask
    PROVE  IInv'
  <1> DEFINE h == Head(unblocked)
  <1>1. /\ unblocked \in Seq(Task) /\ running \subseteq active /\ active \subseteq Task
        /\ running \cap RangeOf(unblocked) = {}
        /\ running \cup RangeOf(unblocked) = {u \in active : count[u] = 0}
        /\ \A i, j \in 1..Len(unblocked) : unblocked[i] = unblocked[j] => i = j
    BY DEF IInv, TypeOK, CountsExact, RunnableExact, Runnable, QueueInv
  <1>2. /\ unblocked # <<>> /\ ~clearing /\ Cardinality(running) < MaxRunning
        /\ running' = running \cup {h} /\ unblocked' = Tail(unblocked)
        /\ UNCHANGED <<current, blocked, count, active, hashes, total, arrival, clearing>>
    BY DEF ScheduleNextUnblockedTask, locks
  <1>3. /\ h \in Task /\ unblocked' \in Seq(Task) /\ h \in RangeOf(unblocked)
        /\ RangeOf(unblocked') = RangeOf(unblocked) \ {h}
        /\ \A i, j \in 1..Len(unblocked') : unblocked'[i] = unblocked'[j] => i = j
    BY <1>1, <1>2, RangeTail
  <1> HIDE DEF h
  <1>4. Cardinality(running') <= MaxRunning
    <2>1. Cardinality(running \cup {h}) = Cardinality(running) + 1
      BY <1>1, <1>3, FiniteCounters, FS_AddElement, Zenon
    <2> QED
      BY <1>2, <2>1, FiniteCounters, SchedAssumption
  <1>5. Runnable' = running \cup RangeOf(unblocked)
    BY <1>2, <1>3 DEF Runnable
  <1>6. TypeOK'
    BY <1>1, <1>2, <1>3, <1>4 DEF IInv, TypeOK
  <1>7. RunnableExact'
    BY <1>1, <1>2, <1>3, <1>5 DEF RunnableExact
  <1>8. CountMatches' /\ Placement' /\ IdleInv' /\ AloneInv'
    BY <1>2 DEF IInv, CountsExact, CountMatches, Placement, LockInv, IdleInv, AloneInv
  <1>9. OrderInv' /\ ReadersInv'
    BY <1>2 DEF IInv, LockInv, OrderInv, ReadersInv, Rank
  <1>10. ArrivalInv' /\ QueueInv' /\ HashInv' /\ ClearInv'
    BY <1>2, <1>3 DEF IInv, ArrivalInv, QueueInv, HashInv, ClearInv
  <1> QED
    BY <1>6, <1>7, <1>8, <1>9, <1>10 DEF IInv, CountsExact, LockInv

(* Descheduling a runnable task, from the caller or from the clearing loop, *)
(* preserves the invariant.                                                 *)
LEMMA UnlockStep ==
    ASSUME IInv, NEW t \in Runnable, NEW rest \in Seq(Task),
           \A i, j \in 1..Len(rest) : rest[i] = rest[j] => i = j,
           RangeOf(rest) = RangeOf(unblocked) \ {t},
           running' = running \ {t}, Retire(t), UnlockUsageQueues(t, rest)
    PROVE  IInv' /\ Runnable' \ Runnable \subseteq NewlyUnblocked(t)
  <1>1. /\ t \in Task /\ t \in active /\ count[t] = 0
        /\ running \subseteq active /\ active \subseteq Task
        /\ running \cap RangeOf(unblocked) = {} /\ Runnable = running \cup RangeOf(unblocked)
        /\ Runnable = {u \in active : count[u] = 0}
        /\ count \in [Task -> Nat]
    BY DEF IInv, TypeOK, CountsExact, RunnableExact, Runnable
  <1>2. /\ active' = active \ {t} /\ hashes' = hashes \ {Hash[t]}
        /\ arrival' = arrival /\ total' = total /\ clearing' = clearing
    BY DEF Retire
  <1>3. LockInv'
    BY <1>2, UnlockKeepsOrder DEF LockInv, IdleInv, AloneInv, OrderInv, ReadersInv
  <1>4. /\ CountMatches' /\ count' \in [Task -> Nat]
        /\ \A u \in Task : count'[u] <= count[u]
        /\ NewlyUnblocked(t) = {u \in Task : count[u] > 0 /\ count'[u] = 0}
    BY <1>1, UnlockCounts
  <1>5. Placement' /\ current' \in [Queue -> SUBSET Task] /\ blocked' \in [Queue -> SUBSET Task]
    BY <1>2, UnlockPlacement
  <1>6. RangeOf(rest) \cap NewlyUnblocked(t) = {}
    BY <1>1, <1>4
  <1>7. /\ unblocked' \in Seq(Task)
        /\ RangeOf(unblocked') = RangeOf(rest) \cup NewlyUnblocked(t)
        /\ \A i, j \in 1..Len(unblocked') : unblocked'[i] = unblocked'[j] => i = j
    BY <1>1, <1>6, UnlockPushes
  <1>8. Runnable' = (Runnable \ {t}) \cup NewlyUnblocked(t)
    BY <1>1, <1>7 DEF Runnable
  <1>9. ASSUME NEW u
        PROVE  u \in Runnable' <=> u \in active' /\ count'[u] = 0
    <2>1. ASSUME NEW v \in NewlyUnblocked(t) PROVE v \in active \ {t}
      <3>1. v \in Task /\ count[v] > 0
        BY <1>4
      <3>2. PICK q \in Queue : v \in blocked[q]
        BY <1>1, <3>1, WaitsNowhere DEF IInv, CountsExact
      <3> QED
        BY <1>1, <3>1, <3>2, InQueue
    <2>2. \A v \in active : count[v] \in Nat /\ count'[v] \in Nat /\ count'[v] <= count[v]
      BY <1>1, <1>4
    <2> QED
      BY <1>1, <1>2, <1>4, <1>8, <2>1, <2>2
  <1>10. RunnableExact'
    <2>1. Runnable' = {u \in active' : count'[u] = 0}
      BY <1>9
    <2>2. running' \cap RangeOf(unblocked') = {}
      BY <1>1, <1>4, <1>7
    <2> QED
      BY <2>1, <2>2 DEF RunnableExact
  <1>11. Cardinality(running') <= MaxRunning
    <2>1. running' \in SUBSET running
      OBVIOUS
    <2>2. Cardinality(running') <= Cardinality(running) /\ Cardinality(running') \in Nat
      BY <2>1, FiniteCounters, FS_Subset, FS_CardinalityType
    <2>3. Cardinality(running) <= MaxRunning
      BY DEF IInv, TypeOK
    <2> QED
      BY <2>2, <2>3, FiniteCounters, SchedAssumption
  <1>12. MaxUnique > 0 => Cardinality(hashes') <= MaxUnique
    <2>1. hashes' \in SUBSET hashes
      BY <1>2
    <2>2. Cardinality(hashes') <= Cardinality(hashes) /\ Cardinality(hashes') \in Nat
      BY <2>1, FiniteCounters, FS_Subset, FS_CardinalityType
    <2>3. MaxUnique > 0 => Cardinality(hashes) <= MaxUnique
      BY DEF IInv, TypeOK
    <2> QED
      BY <2>2, <2>3, FiniteCounters, SchedAssumption
  <1>13. hashes' \subseteq {Hash[u] : u \in active'}
    <2>1. hashes \subseteq {Hash[u] : u \in active}
      BY Zenon DEF IInv, TypeOK
    <2>2. ASSUME NEW h \in hashes'
          PROVE  h \in {Hash[u] : u \in active'}
      <3>1. h \in hashes /\ h # Hash[t]
        BY <1>2, Zenon
      <3>2. PICK u \in active : h = Hash[u]
        BY <2>1, <3>1, Zenon
      <3>3. u \in active'
        BY <1>2, <3>1, <3>2, Zenon
      <3> QED
        BY <3>2, <3>3, Zenon
    <2> QED
      BY <2>2, Zenon
  <1>14. running' \subseteq active' /\ active' \subseteq Task
    BY <1>1, <1>2
  <1>15. total \in Nat /\ arrival \in [Task -> Nat] /\ clearing \in BOOLEAN
    BY DEF IInv, TypeOK
  <1>16. TypeOK'
    BY <1>2, <1>4, <1>5, <1>7, <1>11, <1>12, <1>13, <1>14, <1>15 DEF TypeOK
  <1>17. HashInv'
    BY <1>1, <1>2 DEF IInv, HashInv
  <1>18. ArrivalInv' /\ QueueInv' /\ ClearInv'
    BY <1>2, <1>7 DEF IInv, ArrivalInv, QueueInv, ClearInv
  <1> QED
    BY <1>3, <1>4, <1>5, <1>8, <1>10, <1>16, <1>17, <1>18 DEF IInv, CountsExact

(* Both callers of unlock_usage_queues() meet the conditions of UnlockStep. *)
LEMMA DescheduleCalls ==
    ASSUME IInv, NEW t \in Task, DescheduleTask(t)
    PROVE  /\ t \in Runnable /\ t \in running /\ unblocked \in Seq(Task)
           /\ \A i, j \in 1..Len(unblocked) : unblocked[i] = unblocked[j] => i = j
           /\ RangeOf(unblocked) = RangeOf(unblocked) \ {t}
           /\ running' = running \ {t} /\ Retire(t) /\ UnlockUsageQueues(t, unblocked)
  <1>1. t \in running /\ running' = running \ {t} /\ Retire(t) /\ UnlockUsageQueues(t, unblocked)
    BY DEF DescheduleTask
  <1>2. running \cap RangeOf(unblocked) = {} /\ unblocked \in Seq(Task) /\ QueueInv
    BY DEF IInv, TypeOK, CountsExact, RunnableExact
  <1> QED
    BY <1>1, <1>2 DEF Runnable, QueueInv

LEMMA ClearCalls ==
    ASSUME IInv, ClearNext
    PROVE  LET h == Head(unblocked)
               rest == Tail(unblocked)
           IN  /\ h \in Runnable /\ rest \in Seq(Task)
               /\ \A i, j \in 1..Len(rest) : rest[i] = rest[j] => i = j
               /\ RangeOf(rest) = RangeOf(unblocked) \ {h}
               /\ running = {} /\ running' = running \ {h}
               /\ Retire(h) /\ UnlockUsageQueues(h, rest)
  <1>1. /\ clearing /\ unblocked # <<>> /\ Retire(Head(unblocked)) /\ running' = running
        /\ UnlockUsageQueues(Head(unblocked), Tail(unblocked))
    BY DEF ClearNext
  <1>2. /\ running = {} /\ unblocked \in Seq(Task)
        /\ \A i, j \in 1..Len(unblocked) : unblocked[i] = unblocked[j] => i = j
    BY <1>1 DEF IInv, TypeOK, QueueInv, ClearInv
  <1>3. /\ Head(unblocked) \in RangeOf(unblocked) /\ Tail(unblocked) \in Seq(Task)
        /\ RangeOf(Tail(unblocked)) = RangeOf(unblocked) \ {Head(unblocked)}
        /\ \A i, j \in 1..Len(Tail(unblocked)) : Tail(unblocked)[i] = Tail(unblocked)[j] => i = j
    BY <1>1, <1>2, RangeTail
  <1>4. Head(unblocked) \in Runnable /\ running' = running \ {Head(unblocked)}
    BY <1>1, <1>2, <1>3 DEF Runnable
  <1> QED
    BY <1>1, <1>2, <1>3, <1>4

(* The steps that change no queue.                                          *)
LEMMA SessionStep ==
    ASSUME IInv, ClearAndReinitialize \/ Reinitialize \/ UNCHANGED vars
    PROVE  IInv' /\ Runnable' = Runnable
  <1>1. UNCHANGED <<current, blocked, count, unblocked, active, running, hashes>>
    BY DEF ClearAndReinitialize, Reinitialize, vars, locks
  <1>2. Runnable' = Runnable
    BY <1>1 DEF Runnable
  <1>3. CountsExact' /\ IdleInv' /\ AloneInv' /\ QueueInv' /\ HashInv'
    BY <1>1, <1>2 DEF IInv, LockInv, CountsExact, CountMatches, Placement, RunnableExact,
                IdleInv, AloneInv, QueueInv, HashInv
  <1>4. CASE Reinitialize
    <2>1. active = {} /\ running = {} /\ clearing' = FALSE /\ total' = 0 /\ arrival' = [t \in Task |-> 0]
      BY <1>4 DEF Reinitialize
    <2>2. \A q \in Queue : current[q] = {} /\ blocked[q] = {}
      BY <2>1 DEF IInv, CountsExact, Placement
    <2>3. TypeOK'
      <3>1. arrival' \in [Task -> Nat] /\ total' \in Nat /\ clearing' \in BOOLEAN
        BY <2>1, Zenon
      <3> QED
        BY <1>1, <3>1 DEF IInv, TypeOK
    <2>5. ArrivalInv' /\ ClearInv'
      BY <1>1, <2>1 DEF ArrivalInv, ClearInv
    <2>4. OrderInv' /\ ReadersInv'
      BY <1>1, <2>2 DEF OrderInv, ReadersInv
    <2> QED
      BY <1>2, <1>3, <2>3, <2>4, <2>5 DEF IInv, LockInv
  <1>5. CASE ClearAndReinitialize \/ UNCHANGED vars
    <2>0. clearing \in BOOLEAN /\ (clearing => running = {})
      BY DEF IInv, TypeOK, ClearInv
    <2>1. arrival' = arrival /\ total' = total /\ clearing' \in BOOLEAN /\ (clearing' => running = {})
      <3>1. CASE ClearAndReinitialize
        BY <3>1 DEF ClearAndReinitialize, locks
      <3>2. CASE UNCHANGED vars
        BY <2>0, <3>2 DEF vars
      <3> QED
        BY <1>5, <3>1, <3>2
    <2>2. TypeOK'
      BY <1>1, <2>1 DEF IInv, TypeOK
    <2>4. ArrivalInv' /\ ClearInv'
      BY <1>1, <2>1 DEF IInv, ArrivalInv, ClearInv
    <2>3. OrderInv' /\ ReadersInv'
      BY <1>1, <2>1 DEF IInv, LockInv, OrderInv, ReadersInv, Rank
    <2> QED
      BY <1>2, <1>3, <2>2, <2>3, <2>4 DEF IInv, LockInv
  <1> QED
    BY <1>4, <1>5

(* Every step preserves the inductive invariant.                            *)
LEMMA NextIInv == IInv /\ [Next]_vars => IInv'
  <1> SUFFICES ASSUME IInv, [Next]_vars PROVE IInv'
    OBVIOUS
  <1>1. ASSUME NEW t \in Task, DropTask(t) PROVE IInv'
    BY <1>1, DropTaskStep
  <1>2. ASSUME NEW t \in Task, BlockTask(t) \/ BufferTask(t) \/ RunTask(t) PROVE IInv'
    BY <1>2, ScheduleStep
  <1>3. CASE ScheduleNextUnblockedTask
    BY <1>3, ScheduleNextStep
  <1>4. ASSUME NEW t \in Task, DescheduleTask(t) PROVE IInv'
    BY <1>4, DescheduleCalls, UnlockStep
  <1>5. CASE ClearNext
    BY <1>5, ClearCalls, UnlockStep, Zenon
  <1>6. CASE ClearAndReinitialize \/ Reinitialize \/ UNCHANGED vars
    BY <1>6, SessionStep
  <1> QED
    BY <1>1, <1>2, <1>3, <1>4, <1>5, <1>6 DEF Next

LEMMA SpecIInv == Spec => []IInv
  BY InitIInv, NextIInv, PTL DEF Spec

(* The queues, usages and counters keep their types.                        *)
THEOREM SchedulerTyped == Spec => []TypeOK
  <1>1. IInv => TypeOK
    BY DEF IInv
  <1> QED
    BY <1>1, SpecIInv, PTL

(* For any tasks, addresses, limits and either capability, two runnable     *)
(* tasks never conflict: the lock of every address they share is a reader's *)
(* for both.                                                                *)
THEOREM SchedulerSafe == Spec => []SafeInParallel
  BY ExclusionFollows, SpecIInv, PTL

(* blocked_usage_count of a task is the number of its addresses whose lock  *)
(* it waits for, which is what makes unblocking at zero right.              *)
THEOREM BlockedCountsExact == Spec => []CountsExact
  <1>1. IInv => CountsExact
    BY DEF IInv
  <1> QED
    BY <1>1, SpecIInv, PTL

(* No assertion of lib.rs fires, whatever the order of the calls.           *)
THEOREM NoAssertionFires == Spec => []AssertionsHold
  BY AssertionsFollow, SpecIInv, PTL

(* An active machine always has a runnable task, so that the scheduler's    *)
(* loop never waits for a task that nothing will unblock.                   *)
THEOREM SchedulerNeverStuck == Spec => []NeverStuck
  BY NeverStuckFollows, SpecIInv, PTL

(* FifoQueueing never deviates from the ingestion order of conflicting      *)
(* tasks.                                                                   *)
THEOREM FifoKeepsIngestionOrder == Spec => []IngestionOrder
  BY IngestionOrderFollows, SpecIInv, PTL

-----------------------------------------------------------------------------
(* A task that is runnable from now on outranks every pending task that     *)
(* conflicts with it.                                                       *)
LEMMA NoOvertaking ==
    ASSUME IInv, [Next]_vars,
           NEW u \in Runnable' \ Runnable, NEW t \in active' \ {u}, Conflict(t, u)
    PROVE  Rank(u)' < Rank(t)'
  <1>0. IInv'
    BY NextIInv
  <1>1. PICK q \in Queue : ConflictAt(t, u, q)
    BY DEF Conflict
  <1>2. q \in Uses(t) /\ q \in Uses(u) /\ (q \in Writes[t] \/ q \in Writes[u])
    BY <1>1 DEF ConflictAt
  <1>3. /\ Runnable' = {v \in active' : count'[v] = 0}
        /\ active' \subseteq Task
        /\ current'[q] \cup blocked'[q] = {v \in active' : q \in Uses(v)}
        /\ \A v \in Task : count'[v] = Cardinality({p \in Queue : v \in blocked'[p]})
        /\ \A v, w \in current'[q] : v # w => q \notin Writes[v]
    BY <1>0, Zenon DEF IInv, TypeOK, CountsExact, CountMatches, Placement, RunnableExact, LockInv, AloneInv
  <1>4. u \in active' /\ u \in Task /\ t \in Task /\ u \notin blocked'[q]
    <2>1. u \in active' /\ count'[u] = 0 /\ u \in Task /\ t \in Task
      BY <1>3
    <2> DEFINE W == {p \in Queue : u \in blocked'[p]}
    <2>2. IsFiniteSet(W) /\ Cardinality(W) = 0
      BY <1>3, <2>1, SchedAssumption, FS_Subset
    <2>3. W = {}
      BY <2>2, FS_EmptySet
    <2> QED
      BY <2>1, <2>3
  <1>5. u \in current'[q] /\ t \in blocked'[q]
    BY <1>2, <1>3, <1>4
  <1>6. ASSUME NEW n \in Task, Admit(n), Runnable' \subseteq Runnable \cup {n}, BlockedAt(n) = {}
        PROVE  Rank(u)' < Rank(t)'
    <2>1. u = n
      BY <1>6
    <2>2. Lockable(n, q) /\ q \in Uses(n)
      BY <1>2, <1>6, <2>1 DEF BlockedAt
    <2>3. t \in blocked[q] \cup Reblocked(n, q)
      BY <1>5, <1>6, <2>2, LockQueues
    <2>4. Rank(u)' < Rank(t)
      BY <1>6, <2>1, <2>2, <2>3, LockableFacts, Zenon
    <2>5. Arrive(n)
      BY <1>6 DEF Admit
    <2>6. Rank(t)' = Rank(t)
      BY <1>4, <2>1, <2>5, ArriveRanks
    <2> QED
      BY <2>4, <2>6
  <1>7. ASSUME NEW n \in Runnable, NEW rest, UnlockUsageQueues(n, rest), arrival' = arrival,
               u \in NewlyUnblocked(n)
        PROVE  Rank(u)' < Rank(t)'
    <2>1. n \in Task /\ Rank(u)' = Rank(u) /\ Rank(t)' = Rank(t)
      BY <1>4, <1>7, UnlockQueues
    <2>2. count[u] > 0
      BY <1>7, <2>1, UnlockCounts
    <2>3. t \in blocked[q]
      BY <1>5, <1>7, Zenon DEF UnlockUsageQueues
    <2>4. CASE u \in current[q]
      BY <2>1, <2>2, <2>3, <2>4 DEF IInv, LockInv, OrderInv
    <2>5. CASE u \notin current[q]
      <3>1. u \in Granted(n, q) /\ t \notin Granted(n, q)
        BY <1>5, <1>7, <2>5 DEF UnlockUsageQueues
      <3>2. q \in Uses(n) /\ current[q] = {n}
        BY <2>1, <3>1, GrantedFacts
      <3>3. Rank(u) < Rank(t)
        BY <2>1, <2>3, <3>1, <3>2, GrantedFacts
      <3> QED
        BY <2>1, <3>3
    <2> QED
      BY <2>4, <2>5
  <1>8. ASSUME NEW n \in Task, DropTask(n) PROVE FALSE
    BY <1>8 DEF DropTask, Runnable
  <1>9. ASSUME NEW n \in Task, BlockTask(n) PROVE FALSE
    BY <1>9 DEF BlockTask, Runnable
  <1>10. ASSUME NEW n \in Task, BufferTask(n) \/ RunTask(n) PROVE Rank(u)' < Rank(t)'
    <2>1. Admit(n) /\ BlockedAt(n) = {}
      BY <1>10 DEF BufferTask, RunTask
    <2>2. Runnable' \subseteq Runnable \cup {n}
      BY <1>3, <2>1, AdmitStep
    <2> QED
      BY <1>6, <2>1, <2>2
  <1>11. CASE ScheduleNextUnblockedTask
    <2>1. count' = count /\ active' = active
      BY <1>11 DEF ScheduleNextUnblockedTask, locks
    <2> QED
      BY <1>3, <2>1 DEF IInv, CountsExact, RunnableExact
  <1>12. ASSUME NEW n \in Task, DescheduleTask(n) PROVE Rank(u)' < Rank(t)'
    <2>1. n \in Runnable /\ UnlockUsageQueues(n, unblocked) /\ arrival' = arrival
      BY <1>12, DescheduleCalls DEF Retire
    <2>2. u \in NewlyUnblocked(n)
      BY <1>12, DescheduleCalls, UnlockStep
    <2> QED
      BY <1>7, <2>1, <2>2
  <1>13. CASE ClearNext
    <2>1. /\ Head(unblocked) \in Runnable /\ arrival' = arrival
          /\ UnlockUsageQueues(Head(unblocked), Tail(unblocked))
      BY <1>13, ClearCalls DEF Retire
    <2>2. u \in NewlyUnblocked(Head(unblocked))
      BY <1>13, ClearCalls, UnlockStep, Zenon
    <2> QED
      BY <1>7, <2>1, <2>2
  <1>14. CASE ClearAndReinitialize \/ Reinitialize \/ UNCHANGED vars
    BY <1>14, SessionStep
  <1> QED
    BY <1>8, <1>9, <1>10, <1>11, <1>12, <1>13, <1>14 DEF Next

(* With reblocking, a task that becomes runnable never overtakes a pending, *)
(* conflicting task of higher priority.                                     *)
THEOREM PriorityRespected == Spec => NoPriorityInversion
  <1>1. IInv /\ [Next]_vars =>
           [\A u \in Runnable' \ Runnable : \A t \in active' \ {u} :
               Conflict(t, u) => Rank(u)' < Rank(t)']_vars
    BY NoOvertaking
  <1> QED
    BY <1>1, SpecIInv, PTL DEF Spec, NoPriorityInversion

-----------------------------------------------------------------------------
(* The number that an arriving task gets is larger than all others.         *)
LEMMA ArriveMaps ==
    ASSUME IInv, NEW t \in Task, Arrive(t)
    PROVE  /\ arrival[t] = 0
           /\ \E n \in {arrival'[t]} :
                 /\ \A u \in Task : arrival[u] < n
                 /\ arrival' = [arrival EXCEPT ![t] = n]
  <1>1. arrival \in [Task -> Nat] /\ total \in Nat /\ \A u \in Task : arrival[u] <= total
    BY DEF IInv, TypeOK, ArrivalInv
  <1>2. arrival[t] = 0 /\ arrival' = [arrival EXCEPT ![t] = total + 1]
    BY DEF Arrive
  <1>3. arrival'[t] = total + 1
    BY <1>1, <1>2
  <1>4. \A u \in Task : arrival[u] < total + 1
    BY <1>1
  <1> QED
    BY <1>2, <1>3, <1>4, Zenon

(* A task that is handed out on arrival conflicts with no task that is      *)
(* handed out, and in FifoQueueing with no active task.                     *)
LEMMA RunsAlone ==
    ASSUME IInv, NEW t \in Task, Admit(t), BlockedAt(t) = {},
           NEW u \in active, Conflict(t, u)
    PROVE  ~Fifo /\ u \notin running
  <1>1. PICK q \in Queue : ConflictAt(t, u, q)
    BY DEF Conflict
  <1>2. q \in Uses(t) /\ q \in Uses(u)
    BY <1>1 DEF ConflictAt
  <1>3. Lockable(t, q)
    BY <1>1, <1>2 DEF BlockedAt
  <1>4. u \in current[q] \cup blocked[q] /\ u \in Task
    BY <1>2 DEF IInv, TypeOK, CountsExact, Placement
  <1>5. Arrive(t)
    BY DEF Admit
  <1>6. u \in blocked[q] \cup Reblocked(t, q)
    BY <1>1, <1>2, <1>3, <1>4, LockableFacts, Zenon
  <1>7. ~Fifo
    <2>1. Rank(t)' < Rank(u)
      BY <1>2, <1>3, <1>6, LockableFacts, Zenon
    <2>2. t \notin active /\ Rank(t)' \in Nat /\ (Fifo => \A v \in Task \ {t} : Rank(v) < Rank(t)')
      BY <1>5, ArriveRanks
    <2>3. Rank(u) \in Nat
      BY <1>4, RankType, Zenon DEF IInv
    <2> QED
      BY <1>4, <2>1, <2>2, <2>3
  <1>8. u \notin Runnable
    <2>1. CASE u \in blocked[q]
      <3>1. u \notin current[q]
        BY <2>1 DEF IInv, CountsExact, Placement
      <3> QED
        BY <1>2, <3>1, RunnableHolds DEF IInv
    <2>2. CASE u \in Reblocked(t, q)
      <3>1. count[u] > 0
        BY <2>2, ReblockedFacts
      <3> QED
        BY <3>1 DEF IInv, CountsExact, RunnableExact
    <2> QED
      BY <1>6, <2>1, <2>2
  <1> QED
    BY <1>7, <1>8 DEF Runnable

LEMMA ConflictSymmetric == ASSUME NEW t, NEW u PROVE Conflict(t, u) <=> Conflict(u, t)
  BY DEF Conflict, ConflictAt

(* Every step of the state machine is a step of the promise, or leaves it   *)
(* alone.                                                                   *)
LEMMA StepKeepsPromise ==
    ASSUME IInv, [Next]_vars
    PROVE  [Promise!Next]_(Promise!vars)
  <1>1. ASSUME NEW t \in Task, DropTask(t) PROVE Promise!Arrive(t)
    <2>1. Arrive(t) /\ UNCHANGED <<active, running>>
      BY <1>1 DEF DropTask
    <2> QED
      BY <2>1, ArriveMaps DEF Promise!Arrive
  <1>2. ASSUME NEW t \in Task, BlockTask(t) \/ BufferTask(t) PROVE Promise!Arrive(t)
    <2>1. Arrive(t) /\ active' = active \cup {t} /\ running' = running
      BY <1>2 DEF BlockTask, BufferTask, Admit
    <2> QED
      BY <2>1, ArriveMaps DEF Promise!Arrive
  <1>3. ASSUME NEW t \in Task, RunTask(t) PROVE Promise!Arrive(t)
    <2>1. /\ Arrive(t) /\ Admit(t) /\ BlockedAt(t) = {}
          /\ active' = active \cup {t} /\ running' = running \cup {t}
      BY <1>3 DEF RunTask, Admit
    <2>2. \A u \in active : Conflict(t, u) => ~(Capability = "FifoQueueing") /\ u \notin running
      BY <2>1, RunsAlone DEF Fifo
    <2> QED
      BY <2>1, <2>2, ArriveMaps DEF Promise!Arrive
  <1>4. CASE ScheduleNextUnblockedTask
    <2> DEFINE h == Head(unblocked)
    <2>1. /\ unblocked \in Seq(Task) /\ unblocked # <<>>
          /\ running' = running \cup {h} /\ UNCHANGED <<arrival, active>>
      BY <1>4 DEF ScheduleNextUnblockedTask, IInv, TypeOK
    <2>2. h \in RangeOf(unblocked) /\ h \in Task
      BY <2>1 DEF RangeOf
    <2> HIDE DEF h
    <2>3. h \in Runnable /\ h \in active /\ h \notin running
      BY <2>2 DEF Runnable, IInv, CountsExact, RunnableExact
    <2>4. ASSUME NEW u \in active \ {h}, Conflict(h, u)
          PROVE  u \notin running /\ (Capability = "FifoQueueing" => arrival[h] < arrival[u])
      <3>1. SafeInParallel /\ IngestionOrder
        BY ExclusionFollows, IngestionOrderFollows
      <3>2. u \notin running
        BY <2>3, <2>4, <3>1 DEF SafeInParallel, Runnable
      <3>3. Conflict(u, h) /\ u # h
        BY <2>4, ConflictSymmetric
      <3>4. Capability = "FifoQueueing" => arrival[h] < arrival[u]
        BY <2>3, <2>4, <3>1, <3>3 DEF IngestionOrder
      <3> QED
        BY <3>2, <3>4
    <2>5. Promise!Start(h)
      BY <2>1, <2>3, <2>4 DEF Promise!Start, Promise!MayRun
    <2> QED
      BY <2>2, <2>5 DEF Promise!Next
  <1>5. ASSUME NEW t \in Task, DescheduleTask(t) PROVE Promise!Finish(t)
    <2>1. t \in Runnable
      BY <1>5, DescheduleCalls
    <2>2. t \in active
      BY <2>1 DEF IInv, CountsExact, RunnableExact
    <2> QED
      BY <1>5, <2>2 DEF DescheduleTask, Retire, Promise!Finish
  <1>6. CASE ClearNext
    <2> DEFINE h == Head(unblocked)
    <2>1. h \in Runnable
      BY <1>6, ClearCalls
    <2>2. active' = active \ {h} /\ running' = running /\ arrival' = arrival /\ running = {}
      BY <1>6 DEF ClearNext, Retire, IInv, ClearInv
    <2> HIDE DEF h
    <2>3. h \in active /\ h \in Task
      BY <2>1 DEF IInv, TypeOK, CountsExact, RunnableExact
    <2>4. Promise!Finish(h)
      BY <2>2, <2>3 DEF Promise!Finish
    <2> QED
      BY <2>3, <2>4 DEF Promise!Next
  <1>7. CASE ClearAndReinitialize
    BY <1>7 DEF ClearAndReinitialize, Promise!vars
  <1>8. CASE Reinitialize
    BY <1>8 DEF Reinitialize, Promise!Restart, Promise!Next
  <1>9. CASE UNCHANGED vars
    BY <1>9 DEF vars, Promise!vars
  <1> QED
    BY <1>1, <1>2, <1>3, <1>4, <1>5, <1>6, <1>7, <1>8, <1>9 DEF Next, Promise!Next

(* The state machine, with its queues, counters and reblocking, implements  *)
(* OrderedExecution: conflicting tasks are never handed out together, and   *)
(* FifoQueueing hands them out in the order of their arrival.               *)
THEOREM SchedulerImplementsPromise == Spec => ImplementsPromise
  <1>1. Init => Promise!Init
    BY DEF Init, Promise!Init
  <1>2. IInv /\ [Next]_vars => [Promise!Next]_(Promise!vars)
    BY StepKeepsPromise
  <1> QED
    BY <1>1, <1>2, SpecIInv, PTL DEF Spec, ImplementsPromise, Promise!Spec
=============================================================================
