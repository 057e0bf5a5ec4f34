-------------------------- MODULE OrderedExecution --------------------------
(***************************************************************************)
(* What a transaction scheduler promises to its caller, without locks,      *)
(* queues or counters: conflicting tasks are never handed out together, and *)
(* an ordered scheduler hands them out in the order in which they arrived.  *)
(***************************************************************************)
EXTENDS Naturals

CONSTANTS Task,              \* the tasks of a session
          Conflict(_, _),    \* two tasks that must not run together
          Ordered            \* whether arrival order binds conflicting tasks

VARIABLES arrival,   \* 0, or the position of a task in the order of arrival
          active,    \* the accepted tasks that have not finished
          running    \* the tasks that are handed out

vars == <<arrival, active, running>>

Init ==
    /\ arrival = [t \in Task |-> 0]
    /\ active = {}
    /\ running = {}

(* Task t may be handed out: nothing that conflicts with it is handed out,  *)
(* and in an ordered scheduler nothing earlier that conflicts is pending.   *)
MayRun(t) ==
    \A u \in active \ {t} : Conflict(t, u) =>
        /\ u \notin running
        /\ Ordered => arrival[t] < arrival[u]

(* A task arrives; it is dropped, kept for later or handed out at once.     *)
Arrive(t) ==
    /\ arrival[t] = 0
    /\ \E n \in {arrival'[t]} :
          /\ \A u \in Task : arrival[u] < n
          /\ arrival' = [arrival EXCEPT ![t] = n]
    /\ \/ UNCHANGED <<active, running>>
       \/ active' = active \cup {t} /\ running' = running
       \/ /\ active' = active \cup {t}
          /\ running' = running \cup {t}
          /\ \A u \in active : Conflict(t, u) => ~Ordered /\ u \notin running

Start(t) ==
    /\ t \in active \ running
    /\ MayRun(t)
    /\ running' = running \cup {t}
    /\ UNCHANGED <<arrival, active>>

(* A task that was handed out comes back, or a task is discarded while      *)
(* nothing is handed out.                                                   *)
Finish(t) ==
    /\ t \in active
    /\ t \in running \/ running = {}
    /\ active' = active \ {t}
    /\ running' = running \ {t}
    /\ UNCHANGED arrival

Restart ==
    /\ active = {} /\ running = {}
    /\ arrival' = [t \in Task |-> 0]
    /\ UNCHANGED <<active, running>>

Next ==
    \/ \E t \in Task : Arrive(t) \/ Start(t) \/ Finish(t)
    \/ Restart

Spec == Init /\ [][Next]_vars
=============================================================================
