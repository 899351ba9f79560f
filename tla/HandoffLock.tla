---------------------------- MODULE HandoffLock ----------------------------
(***************************************************************************)
(* What dhruva_mutex_lock and dhruva_mutex_unlock promise their callers    *)
(* about one mutex, on a single processor: a free mutex is taken at once;  *)
(* a task that meets an owner stops running until the mutex is its own;    *)
(* only the owner, while it runs, gives the mutex up; and it gives it to   *)
(* a most urgent waiter whenever there is one, so a mutex with waiters is  *)
(* never free and nobody barges in.                                        *)
(***************************************************************************)
EXTENDS Integers

CONSTANTS Task, NoOwner

VARIABLES
    owner,     \* the owner, or NoOwner
    waiting,   \* the tasks that wait
    runner,    \* the task that has the processor
    urgency    \* each task's own priority, 0 the most urgent

lockVars == <<owner, waiting, runner, urgency>>

Init ==
    /\ owner = NoOwner
    /\ waiting = {}
    /\ runner \in Task
    /\ urgency \in [Task -> Nat]

Acquire ==
    /\ owner = NoOwner
    /\ owner' = runner
    /\ UNCHANGED <<waiting, runner, urgency>>

Wait ==
    /\ owner \notin {NoOwner, runner}
    /\ waiting' = waiting \cup {runner}
    /\ runner' \in Task \ waiting'
    /\ UNCHANGED <<owner, urgency>>

Release ==
    /\ owner = runner
    /\ waiting = {}
    /\ owner' = NoOwner
    /\ UNCHANGED <<waiting, runner, urgency>>

Handoff ==
    /\ owner = runner
    /\ \E w \in waiting :
        /\ \A v \in waiting : urgency[w] <= urgency[v]
        /\ owner' = w
        /\ waiting' = waiting \ {w}
    /\ UNCHANGED <<runner, urgency>>

\* The processor goes to any task that does not wait for this mutex.
Dispatch ==
    /\ runner' \in Task \ waiting
    /\ UNCHANGED <<owner, waiting, urgency>>

\* Priorities are only settled while nobody uses the mutex.
SetUrgency ==
    /\ owner = NoOwner
    /\ waiting = {}
    /\ urgency' \in [Task -> Nat]
    /\ UNCHANGED <<owner, waiting, runner>>

Next == Acquire \/ Wait \/ Release \/ Handoff \/ Dispatch \/ SetUrgency

Spec == Init /\ [][Next]_lockVars
=============================================================================
