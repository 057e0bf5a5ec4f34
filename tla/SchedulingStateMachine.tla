----------------------- MODULE SchedulingStateMachine -----------------------
(***************************************************************************)
(* SchedulingStateMachine of the unified scheduler                          *)
(* (unified-scheduler-logic/src/lib.rs): per-address usage queues in which   *)
(* tasks take read and write locks, the count of locks a task still waits   *)
(* for, and the queue of unblocked tasks.  One thread owns all of it, so     *)
(* each method of the state machine is one step.                            *)
(*                                                                         *)
(* current_usage is the set of the tasks that hold the address: None is     *)
(* {}, Readonly(n) a set of n readers, Writable a single writer.  A blocked *)
(* queue is the set of its tasks together with their rank, the position of  *)
(* their arrival in the VecDeque of FifoQueueing and their task_id in the   *)
(* BTreeMap of PriorityQueueing.                                            *)
(***************************************************************************)
EXTENDS Integers, Sequences, FiniteSets

CONSTANTS Task,        \* the tasks, named by their task_id
          Queue,       \* the usage queues, one per address
          Keys,        \* the addresses of a task in the order of account_keys
          Writes,      \* the addresses that a task writes
          Hash,        \* the message hash of a task
          Capability,  \* "FifoQueueing" or "PriorityQueueing"
          MaxRunning,  \* max_running_task_count
          MaxUnique    \* max_unique_active_task_count, 0 for None

ASSUME SchedAssumption ==
    /\ Task \subseteq Nat /\ IsFiniteSet(Task)
    /\ IsFiniteSet(Queue)
    /\ Keys \in [Task -> Seq(Queue)]
    /\ \A t \in Task : \A i, j \in 1..Len(Keys[t]) : Keys[t][i] = Keys[t][j] => i = j
    /\ Writes \in [Task -> SUBSET Queue]
    /\ Capability \in {"FifoQueueing", "PriorityQueueing"}
    /\ MaxRunning \in Nat \ {0}
    /\ MaxUnique \in Nat

VARIABLES current,    \* per queue, the tasks that hold it
          blocked,    \* per queue, the tasks that wait for it
          count,      \* blocked_usage_count of a task
          unblocked,  \* unblocked_task_queue
          active,     \* the tasks behind active_task_count
          running,    \* the tasks behind running_task_count
          hashes,     \* unique_active_task_hashes
          total,      \* total_task_count
          arrival,    \* the value of total with which a task arrived, or 0
          clearing    \* clear_and_reinitialize is in its loop

locks == <<current, blocked, count>>
vars == <<current, blocked, count, unblocked, active, running, hashes,
          total, arrival, clearing>>

Uses(t) == {Keys[t][i] : i \in 1..Len(Keys[t])}

ConflictAt(t, u, q) ==
    /\ q \in Uses(t) \cap Uses(u)
    /\ q \in Writes[t] \/ q \in Writes[u]

Conflict(t, u) == \E q \in Queue : ConflictAt(t, u, q)

Rank(t) == IF Capability = "FifoQueueing" THEN arrival[t] ELSE t

First(S) == CHOOSE t \in S : \A u \in S : Rank(t) <= Rank(u)

RangeOf(s) == {s[i] : i \in 1..Len(s)}

Init ==
    /\ current = [q \in Queue |-> {}]
    /\ blocked = [q \in Queue |-> {}]
    /\ count = [t \in Task |-> 0]
    /\ unblocked = <<>>
    /\ active = {} /\ running = {} /\ hashes = {}
    /\ total = 0
    /\ arrival = [t \in Task |-> 0]
    /\ clearing = FALSE

-----------------------------------------------------------------------------
(* Mutant: try_reblock() does not ask whether the holder is still blocked.   *)
ReblockedRunnable(t, q) ==
    IF Capability = "FifoQueueing" THEN {}
    ELSE {c \in current[q] : ConflictAt(t, c, q) /\ t < c}

(* prepare_lock(): the holders that the arriving task t pushes back into the *)
(* blocked queue.  Only holders that conflict with t, that t outranks and    *)
(* that try_reblock() finds still blocked elsewhere give way.                *)
Reblocked(t, q) ==
    IF Capability = "FifoQueueing" THEN {}
    ELSE {c \in current[q] : ConflictAt(t, c, q) /\ t < c /\ count[c] > 0}

(* Mutant: a reader joins the readers without a look at the blocked queue.   *)
PreparedBargingReader(t, q) ==
    IF Capability = "FifoQueueing" THEN blocked[q] = {}
    ELSE IF \E c \in current[q] : ConflictAt(t, c, q)
         THEN Reblocked(t, q) = current[q]
         ELSE TRUE

(* Mutant: FifoQueueing takes a free usage although others wait for it.      *)
PreparedBargingFifo(t, q) ==
    IF Capability = "FifoQueueing" THEN TRUE
    ELSE IF \E c \in current[q] : ConflictAt(t, c, q)
         THEN Reblocked(t, q) = current[q]
         ELSE \A b \in blocked[q] : t < b

(* prepare_lock() answers Ok(()).                                           *)
Prepared(t, q) ==
    IF Capability = "FifoQueueing" THEN blocked[q] = {}
    ELSE IF \E c \in current[q] : ConflictAt(t, c, q)
         THEN Reblocked(t, q) = current[q]
         ELSE \A b \in blocked[q] : t < b

(* prepare_lock() and try_lock() together give the usage to t.              *)
Lockable(t, q) ==
    /\ Prepared(t, q)
    /\ \A c \in current[q] \ Reblocked(t, q) : ~ConflictAt(t, c, q)

BlockedAt(t) == {q \in Uses(t) : ~Lockable(t, q)}

(* try_lock_usage_queues()                                                  *)
TryLockUsageQueues(t) ==
    /\ current' = [q \in Queue |->
          IF q \in Uses(t)
          THEN (current[q] \ Reblocked(t, q)) \cup (IF Lockable(t, q) THEN {t} ELSE {})
          ELSE current[q]]
    /\ blocked' = [q \in Queue |->
          IF q \in Uses(t)
          THEN blocked[q] \cup Reblocked(t, q) \cup (IF Lockable(t, q) THEN {} ELSE {t})
          ELSE blocked[q]]
    /\ count' = [u \in Task |->
          IF u = t THEN Cardinality(BlockedAt(t))
          ELSE count[u] + Cardinality({q \in Uses(t) : u \in Reblocked(t, q)})]

(* schedule_or_buffer_task() drops a task: too many active ones, or its     *)
(* hash is active already.                                                  *)
Dropped(t) ==
    /\ MaxUnique > 0
    /\ Cardinality(hashes) >= MaxUnique \/ Hash[t] \in hashes

Arrive(t) ==
    /\ ~clearing
    /\ arrival[t] = 0
    /\ total' = total + 1
    /\ arrival' = [arrival EXCEPT ![t] = total + 1]
    /\ UNCHANGED clearing

DropTask(t) ==
    /\ Arrive(t)
    /\ Dropped(t)
    /\ UNCHANGED <<locks, unblocked, active, running, hashes>>

Admit(t) ==
    /\ Arrive(t)
    /\ ~Dropped(t)
    /\ hashes' = IF MaxUnique > 0 THEN hashes \cup {Hash[t]} ELSE hashes
    /\ active' = active \cup {t}
    /\ TryLockUsageQueues(t)

(* schedule_or_buffer_task(): the task is blocked, buffered or runs.        *)
BlockTask(t) ==
    /\ Admit(t)
    /\ BlockedAt(t) # {}
    /\ UNCHANGED <<unblocked, running>>

BufferTask(t) ==
    /\ Admit(t)
    /\ BlockedAt(t) = {}
    /\ unblocked' = Append(unblocked, t)
    /\ UNCHANGED running

RunTask(t) ==
    /\ Admit(t)
    /\ BlockedAt(t) = {}
    /\ Cardinality(running) < MaxRunning
    /\ running' = running \cup {t}
    /\ UNCHANGED unblocked

(* schedule_next_unblocked_task()                                           *)
ScheduleNextUnblockedTask ==
    /\ ~clearing
    /\ Cardinality(running) < MaxRunning
    /\ unblocked # <<>>
    /\ running' = running \cup {Head(unblocked)}
    /\ unblocked' = Tail(unblocked)
    /\ UNCHANGED <<locks, active, hashes, total, arrival, clearing>>

-----------------------------------------------------------------------------
(* Mutant: the loop takes every blocked reader, also those behind a writer.  *)
GrantedAllReaders(t, q) ==
    IF q \notin Uses(t) \/ current[q] # {t} \/ blocked[q] = {} THEN {}
    ELSE IF q \in Writes[First(blocked[q])] THEN {First(blocked[q])}
    ELSE {r \in blocked[q] : q \notin Writes[r]}

(* Mutant: the queue is taken for free as soon as one reader leaves.         *)
GrantedAfterAnyReader(t, q) ==
    IF q \notin Uses(t) \/ t \notin current[q] \/ blocked[q] = {} THEN {}
    ELSE IF q \in Writes[First(blocked[q])] THEN {First(blocked[q])}
    ELSE {r \in blocked[q] : \A w \in blocked[q] : q \in Writes[w] => Rank(r) < Rank(w)}

(* Mutant: the loop stops after the first reader.                            *)
GrantedFirstReader(t, q) ==
    IF q \notin Uses(t) \/ current[q] # {t} \/ blocked[q] = {} THEN {}
    ELSE {First(blocked[q])}

(* unlock() of t at q with the loop over pop_lockable_readonly(): the first  *)
(* blocked writer, or every reader that is ahead of all blocked writers.     *)
Granted(t, q) ==
    IF q \notin Uses(t) \/ current[q] # {t} \/ blocked[q] = {} THEN {}
    ELSE IF q \in Writes[First(blocked[q])] THEN {First(blocked[q])}
    ELSE {r \in blocked[q] : \A w \in blocked[q] : q \in Writes[w] => Rank(r) < Rank(w)}

GrantedQueues(t, u) == {q \in Queue : u \in Granted(t, q)}

(* Mutant: a task that gets its last two usages in one call is not woken.    *)
NewlyUnblockedLost(t) ==
    {u \in Task : GrantedQueues(t, u) # {} /\ count[u] = 1}

(* The tasks whose try_unblock() reaches zero while t is descheduled.       *)
NewlyUnblocked(t) ==
    {u \in Task : GrantedQueues(t, u) # {}
                  /\ count[u] = Cardinality(GrantedQueues(t, u))}

(* They are pushed in the order of t's lock contexts and, within one queue, *)
(* in the order in which they are popped: u before v when v gets a usage    *)
(* after the last one that u gets.                                          *)
PushedBefore(t, u, v) ==
    \E i \in 1..Len(Keys[t]) :
        /\ v \in Granted(t, Keys[t][i])
        /\ \A j \in 1..Len(Keys[t]) : u \in Granted(t, Keys[t][j]) =>
              j < i \/ (j = i /\ Rank(u) < Rank(v))

(* unlock_usage_queues(), with rest the unblocked queue before it.          *)
UnlockUsageQueues(t, rest) ==
    /\ current' = [q \in Queue |->
          IF q \in Uses(t) THEN (current[q] \ {t}) \cup Granted(t, q) ELSE current[q]]
    /\ blocked' = [q \in Queue |-> blocked[q] \ Granted(t, q)]
    /\ count' = [u \in Task |-> count[u] - Cardinality(GrantedQueues(t, u))]
    /\ \E s \in [1..Cardinality(NewlyUnblocked(t)) -> NewlyUnblocked(t)] :
          /\ \A i, j \in DOMAIN s : i < j => PushedBefore(t, s[i], s[j])
          /\ unblocked' = rest \o s

(* The bookkeeping of deschedule_task().                                    *)
Retire(t) ==
    /\ active' = active \ {t}
    /\ hashes' = hashes \ {Hash[t]}
    /\ UNCHANGED <<total, arrival, clearing>>

DescheduleTask(t) ==
    /\ ~clearing
    /\ t \in running
    /\ running' = running \ {t}
    /\ Retire(t)
    /\ UnlockUsageQueues(t, unblocked)

-----------------------------------------------------------------------------
(* clear_and_reinitialize(): called when no task is handed out, it          *)
(* schedules and deschedules until no task is unblocked.                    *)
ClearAndReinitialize ==
    /\ ~clearing
    /\ running = {}
    /\ clearing' = TRUE
    /\ UNCHANGED <<locks, unblocked, active, running, hashes, total, arrival>>

(* Mutant: the task goes back to the buffer instead of being descheduled.   *)
ClearNextPutsBack ==
    /\ clearing
    /\ unblocked # <<>>
    /\ unblocked' = Append(Tail(unblocked), Head(unblocked))
    /\ UNCHANGED <<locks, active, running, hashes, total, arrival, clearing>>

ClearNext ==
    /\ clearing
    /\ unblocked # <<>>
    /\ Retire(Head(unblocked))
    /\ UnlockUsageQueues(Head(unblocked), Tail(unblocked))
    /\ UNCHANGED running

(* reinitialize(), at the end of the loop or when a session is over.        *)
Reinitialize ==
    /\ clearing => unblocked = <<>>
    /\ active = {} /\ hashes = {} /\ running = {} /\ unblocked = <<>>
    /\ clearing' = FALSE
    /\ total' = 0
    /\ arrival' = [t \in Task |-> 0]
    /\ UNCHANGED <<locks, unblocked, active, running, hashes>>

Next ==
    \/ \E t \in Task : DropTask(t) \/ BlockTask(t) \/ BufferTask(t) \/ RunTask(t)
    \/ ScheduleNextUnblockedTask
    \/ \E t \in Task : DescheduleTask(t)
    \/ ClearAndReinitialize
    \/ ClearNext
    \/ Reinitialize

Spec == Init /\ [][Next]_vars

(* The scheduler thread keeps taking unblocked tasks and every handler      *)
(* gives its task back; arrivals and sessions owe nothing.                  *)
FairSpec ==
    /\ Spec
    /\ WF_vars(ScheduleNextUnblockedTask)
    /\ \A t \in Task : WF_vars(DescheduleTask(t))
    /\ WF_vars(ClearNext)
    /\ WF_vars(clearing /\ Reinitialize)

-----------------------------------------------------------------------------
(* The variables of lib.rs keep their types, and neither the running limit  *)
(* nor the number of unique hashes is exceeded.                             *)
TypeOK ==
    /\ current \in [Queue -> SUBSET Task]
    /\ blocked \in [Queue -> SUBSET Task]
    /\ count \in [Task -> Nat]
    /\ unblocked \in Seq(Task)
    /\ active \subseteq Task
    /\ running \subseteq active
    /\ Cardinality(running) <= MaxRunning
    /\ hashes \subseteq {Hash[t] : t \in active}
    /\ MaxUnique > 0 => Cardinality(hashes) <= MaxUnique
    /\ total \in Nat
    /\ arrival \in [Task -> Nat]
    /\ clearing \in BOOLEAN

Runnable == running \cup RangeOf(unblocked)

(* "Those returned runnable tasks are guaranteed to be safe to execute in   *)
(* parallel" (lib.rs, module documentation): no two tasks that are running  *)
(* or ready to be returned touch an address that one of them writes.        *)
SafeInParallel ==
    \A t, u \in Runnable : t # u => ~Conflict(t, u)

CountMatches ==
    \A t \in Task : count[t] = Cardinality({q \in Queue : t \in blocked[q]})

Placement ==
    \A q \in Queue :
        /\ current[q] \cap blocked[q] = {}
        /\ current[q] \cup blocked[q] = {t \in active : q \in Uses(t)}

RunnableExact ==
    /\ Runnable = {t \in active : count[t] = 0}
    /\ running \cap RangeOf(unblocked) = {}

(* blocked_usage_count is the number of queues in which a task still waits, *)
(* a task sits in each of its queues exactly once, and it is handed to the  *)
(* caller or to unblocked_task_queue precisely when it waits nowhere:       *)
(* try_unblock() neither underflows nor wakes a task early or never.        *)
CountsExact == CountMatches /\ Placement /\ RunnableExact

(* The assertions, unwraps and unreachable!() arms of lib.rs cannot fire:    *)
(* an idle queue has nobody waiting, a queue held by readers has a writer   *)
(* first in line, a writer holds alone, no task is queued twice as          *)
(* unblocked, every active task's hash is registered, and the loop of       *)
(* clear_and_reinitialize() ends with nothing active.                       *)
AssertionsHold ==
    /\ \A q \in Queue :
          /\ current[q] = {} => blocked[q] = {}
          /\ \A t, u \in current[q] : t # u => q \notin Writes[t]
          /\ (blocked[q] # {} /\ \A c \in current[q] : q \notin Writes[c])
                => q \in Writes[First(blocked[q])]
    /\ \A i, j \in 1..Len(unblocked) : unblocked[i] = unblocked[j] => i = j
    /\ MaxUnique > 0 => \A t \in active : Hash[t] \in hashes
    /\ (clearing /\ unblocked = <<>>) => (active = {} /\ hashes = {} /\ running = {})

(* "reblocking must be consistently applied across all usage queues         *)
(* otherwise, deadlock would happen" (lib.rs, prepare_lock): while a task is *)
(* active, some task is running or ready to run.                            *)
NeverStuck == active # {} => Runnable # {}

(* FifoQueueing is "not deviating the execution order from the original task  *)
(* ingestion order": a task is never runnable while a conflicting task that *)
(* arrived earlier is still active.                                         *)
IngestionOrder ==
    Capability = "FifoQueueing" =>
        \A t \in active, u \in Runnable :
            Conflict(t, u) /\ t # u => arrival[u] < arrival[t]

(* prepare_lock() queues tasks "as if those tasks should have arrived        *)
(* earlier in the precise order of their task_ids": a task that becomes     *)
(* runnable never overtakes a pending, conflicting task of higher priority. *)
NoPriorityInversion ==
    [][\A u \in Runnable' \ Runnable : \A t \in active' \ {u} :
          Conflict(t, u) => Rank(u)' < Rank(t)']_vars

(* Every task that schedule_or_buffer_task() accepts is eventually          *)
(* descheduled or cleared: "every task will eventually succeed to be        *)
(* unblocked" (lib.rs, unlock_usage_queues).                                *)
EveryTaskFinishes == \A t \in Task : t \in active ~> t \notin active

(* The state machine implements the ordered parallel execution that its     *)
(* callers rely on.                                                         *)
Promise == INSTANCE OrderedExecution WITH Ordered <- (Capability = "FifoQueueing")

ImplementsPromise == Promise!Spec
=============================================================================
