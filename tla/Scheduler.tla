---------------------------- MODULE Scheduler ----------------------------
(***************************************************************************)
(* The task table and the scheduler of boot/context_switch.S: table and    *)
(* task creation at boot, the reschedule (scheduler_pick_next) with its    *)
(* two selection algorithms and its aging pass, the four system calls that *)
(* touch the tables (task_sleep_ticks, dhruva_prio_lock / _unlock,         *)
(* dhruva_mutex_lock / _unlock) and the interrupt path that runs           *)
(* scheduling_decision_prelude before it reschedules.                      *)
(*                                                                         *)
(* Every call masks IRQ and FIQ for its whole body, so each is one atomic  *)
(* step.  Time is relative: sleep_left is what sleep_until_table minus     *)
(* tick_count leaves (0 once it is not positive) and hb_elapsed is         *)
(* tick_count minus the heartbeat stamp, saturated at the bound it is      *)
(* compared with, so no counter grows and no bound on time is needed.  The *)
(* sleep_until value 0x7FFFFFFF of a blocked task is Never.                *)
(*                                                                         *)
(* This module lets the running task make any call at any time; what the   *)
(* real tasks do with the calls is module SchedTasks.                      *)
(***************************************************************************)
EXTENDS Integers, FiniteSets

CONSTANTS
    MaxTasks,      \* MAX_TASKS: the slots are 0 .. MaxTasks-1
    Idle,          \* IDLE_TASK_INDEX
    FixedPrio,     \* priorities start_multitasking gives its fixed slots
    CreatePrios,   \* priorities task_create_usr may be called with at boot
    Unused,        \* eff_prio of a slot nobody created (255)
    Mutexes,       \* mutex identifiers, MAX_MUTEXES of them
    AgingQuantum,  \* 2^AGING_SHIFT
    AgingCap,      \* AGING_CAP
    HbBound,       \* task_heartbeat_bound_table, 0 = not supervised
    SleepTicks,    \* arguments of task_sleep_ticks
    Ceilings,      \* arguments of dhruva_prio_lock
    Restores       \* arguments of dhruva_prio_unlock

Task     == 0 .. MaxTasks - 1
Fixed    == DOMAIN FixedPrio
IdlePrio == FixedPrio[Idle]
Prio     == 0 .. IdlePrio
NoOwner  == -1     \* mutex_owner_table's 255
Never    == -1     \* sleep_until of a blocked task, 0x7FFFFFFF

ASSUME TasksAssumption ==
    /\ MaxTasks \in Nat \ {0}
    /\ FixedPrio \in [Fixed -> Nat]
    /\ Fixed \subseteq Task
    /\ Idle \in Fixed
    /\ 0 \in Fixed

\* Idle is the numerically worst priority of all.
ASSUME PrioAssumption ==
    /\ \A t \in Fixed \ {Idle} : FixedPrio[t] < IdlePrio
    /\ CreatePrios \subseteq 0 .. IdlePrio - 1
    /\ Ceilings \subseteq Prio
    /\ Restores \subseteq Prio

\* Aging can never bring the unused sentinel down to a real priority.
ASSUME AgingAssumption ==
    /\ AgingQuantum \in Nat \ {0}
    /\ AgingCap \in Nat
    /\ Unused \in Nat
    /\ IdlePrio + (AgingCap \div AgingQuantum) < Unused

ASSUME TimeAssumption ==
    /\ SleepTicks \subseteq Nat \ {0}
    /\ HbBound \in [Task -> Nat]
    /\ HbBound[Idle] = 0

VARIABLES
    started,         \* start_multitasking has run
    current_task,
    rr_last_picked,
    eff_prio,        \* eff_prio_table
    base_prio,       \* base_prio_table
    sleep_left,      \* sleep_until_table - tick_count
    ceiling_depth,   \* ceiling_depth_table
    ready_wait,      \* ready_wait_ticks_table
    mutex_owner,     \* mutex_owner_table
    mutex_waiters,   \* mutex_waiters_table, a bit set
    hb_elapsed       \* tick_count - task_heartbeat_last_tick_table

pickVars  == <<current_task, rr_last_picked, ready_wait>>
mutexVars == <<mutex_owner, mutex_waiters>>
schedVars == <<started, pickVars, eff_prio, base_prio, sleep_left,
               ceiling_depth, mutexVars, hb_elapsed>>

TypeOK ==
    /\ started \in BOOLEAN
    /\ current_task \in Task
    /\ rr_last_picked \in Task
    /\ eff_prio \in [Task -> Prio \cup {Unused}]
    /\ base_prio \in [Task -> Prio]
    /\ sleep_left \in [Task -> Nat \cup {Never}]
    /\ ceiling_depth \in [Task -> Nat]
    /\ ready_wait \in [Task -> 0 .. AgingCap]
    /\ mutex_owner \in [Mutexes -> Task \cup {NoOwner}]
    /\ mutex_waiters \in [Mutexes -> SUBSET Task]
    /\ hb_elapsed \in [Task -> Nat]

---------------------------------------------------------------------------
(* Boot: task_table_init, task_create_usr, start_multitasking              *)

Init ==
    /\ started = FALSE
    /\ current_task = 0
    /\ rr_last_picked = 0
    /\ eff_prio = [t \in Task |-> IF t \in Fixed THEN 0 ELSE Unused]
    /\ base_prio = [t \in Task |-> 0]
    /\ sleep_left = [t \in Task |-> 0]
    /\ ceiling_depth = [t \in Task |-> 0]
    /\ ready_wait = [t \in Task |-> 0]
    /\ mutex_owner = [m \in Mutexes |-> NoOwner]
    /\ mutex_waiters = [m \in Mutexes |-> {}]
    /\ hb_elapsed = [t \in Task |-> 0]

FreeSlots == {t \in Task \ Fixed : eff_prio[t] = Unused}

\* The first free slot takes the new task; with none left the call returns
\* -1 and changes nothing (a stutter).
TaskCreate(p) ==
    /\ ~started
    /\ \E t \in FreeSlots :
        /\ \A u \in FreeSlots : t <= u
        /\ eff_prio' = [eff_prio EXCEPT ![t] = p]
        /\ base_prio' = [base_prio EXCEPT ![t] = p]
        /\ sleep_left' = [sleep_left EXCEPT ![t] = 0]
    /\ UNCHANGED <<started, pickVars, ceiling_depth, mutexVars, hb_elapsed>>

StartMultitasking ==
    /\ ~started
    /\ started' = TRUE
    /\ eff_prio' = [t \in Task |->
                        IF t \in Fixed THEN FixedPrio[t] ELSE eff_prio[t]]
    /\ base_prio' = [t \in Task |->
                        IF t \in Fixed THEN FixedPrio[t] ELSE base_prio[t]]
    /\ current_task' = 0
    /\ UNCHANGED <<rr_last_picked, ready_wait, sleep_left, ceiling_depth,
                   mutexVars, hb_elapsed>>

---------------------------------------------------------------------------
(* scheduler_pick_next.  sl and ep are the sleep and priority tables as    *)
(* its caller left them.                                                   *)

Ready(sl, t) == sl[t] = 0

Min2(a, b) == IF a < b THEN a ELSE b

\* Mutant of Aged: aging never takes effect.
AgedIgnoringWait(ep, t) == ep[t]

\* eff_prio less the aging bonus, never below 0.
Aged(ep, t) == ep[t] - Min2(ep[t], ready_wait[t] \div AgingQuantum)

\* The ready tasks at the lowest aged priority (pass 1).
Contenders(sl, ep) ==
    {t \in Task : /\ Ready(sl, t)
                  /\ \A u \in Task : Ready(sl, u) => Aged(ep, t) <= Aged(ep, u)}

\* How far t is from the cursor in pass 2's scan, which begins just past it.
ScanDistance(t) == (t - rr_last_picked - 1) % MaxTasks

FairPick(sl, ep) ==
    CHOOSE t \in Contenders(sl, ep) :
        \A u \in Contenders(sl, ep) : ScanDistance(t) <= ScanDistance(u)

\* Mutant of Preemptors: a sleeping or blocked task counts.
PreemptorsAsleepToo(sl, ep) == {t \in Task : ep[t] < ep[current_task]}

\* The tasks that beat a running holder of a ceiling: strictly more urgent,
\* aging ignored, the lowest index first among the most urgent.
Preemptors(sl, ep) ==
    {t \in Task : /\ Ready(sl, t)
                  /\ ep[t] < ep[current_task]}

MostUrgent(S, ep) == {t \in S : \A u \in S : ep[t] <= ep[u]}

HolderPick(sl, ep) ==
    IF Preemptors(sl, ep) = {}
    THEN current_task
    ELSE CHOOSE t \in MostUrgent(Preemptors(sl, ep), ep) :
            \A u \in MostUrgent(Preemptors(sl, ep), ep) : t <= u

\* A running task inside a ceiling section keeps ties (spn_old_algorithm).
HolderKeepsTies(sl) ==
    Ready(sl, current_task) /\ ceiling_depth[current_task] > 0

PickNext(sl, ep) ==
    IF HolderKeepsTies(sl) THEN HolderPick(sl, ep) ELSE FairPick(sl, ep)

\* The aging pass: every ready task but idle, unused slots included.
AgedWaits(sl, pick) ==
    [t \in Task |->
        IF t = Idle \/ ~Ready(sl, t) THEN ready_wait[t]
        ELSE IF t = pick THEN 0
        ELSE Min2(ready_wait[t] + 1, AgingCap)]

Reschedule(sl, ep) ==
    LET pick == PickNext(sl, ep) IN
    /\ sleep_left' = sl
    /\ eff_prio' = ep
    /\ current_task' = pick
    /\ rr_last_picked' = IF HolderKeepsTies(sl) THEN rr_last_picked ELSE pick
    /\ ready_wait' = AgedWaits(sl, pick)

---------------------------------------------------------------------------
(* System calls of the running task                                        *)

\* task_sleep_ticks(n), which is also the task's sign of life.
Sleep(n) ==
    /\ started
    /\ hb_elapsed' = [hb_elapsed EXCEPT ![current_task] = 0]
    /\ Reschedule([sleep_left EXCEPT ![current_task] = n], eff_prio)
    /\ UNCHANGED <<started, base_prio, ceiling_depth, mutexVars>>

\* dhruva_prio_lock(c): the ceiling is stored whatever the priority was.
PrioLock(c) ==
    /\ started
    /\ eff_prio' = [eff_prio EXCEPT ![current_task] = c]
    /\ ceiling_depth' = [ceiling_depth EXCEPT ![current_task] = @ + 1]
    /\ UNCHANGED <<started, pickVars, base_prio, sleep_left, mutexVars,
                   hb_elapsed>>

\* dhruva_prio_unlock(p): only the outermost unlock restores a priority.
PrioUnlock(p) ==
    LET depth == IF ceiling_depth[current_task] = 0 THEN 0
                 ELSE ceiling_depth[current_task] - 1 IN
    /\ started
    /\ ceiling_depth' = [ceiling_depth EXCEPT ![current_task] = depth]
    /\ eff_prio' = IF depth = 0
                   THEN [eff_prio EXCEPT ![current_task] = p]
                   ELSE eff_prio
    /\ UNCHANGED <<started, pickVars, base_prio, sleep_left, mutexVars,
                   hb_elapsed>>

MutexAcquire(m) ==
    /\ started
    /\ mutex_owner[m] = NoOwner
    /\ mutex_owner' = [mutex_owner EXCEPT ![m] = current_task]
    /\ UNCHANGED <<started, pickVars, eff_prio, base_prio, sleep_left,
                   ceiling_depth, mutex_waiters, hb_elapsed>>

\* dml_contended: lend the owner our priority, queue, block and reschedule.
MutexBlock(m) ==
    LET owner == mutex_owner[m]
        lent  == Min2(eff_prio[current_task], eff_prio[owner]) IN
    /\ started
    /\ owner # NoOwner
    /\ mutex_waiters' = [mutex_waiters EXCEPT ![m] = @ \cup {current_task}]
    /\ hb_elapsed' = [hb_elapsed EXCEPT ![current_task] = 0]
    /\ Reschedule([sleep_left EXCEPT ![current_task] = Never],
                  [eff_prio EXCEPT ![owner] = lent])
    /\ UNCHANGED <<started, base_prio, ceiling_depth, mutex_owner>>

MutexLock(m) == MutexAcquire(m) \/ MutexBlock(m)

\* Mutant of NextOwner: the scan keeps the last waiter instead of the most
\* urgent one.
NextOwnerLast(m) ==
    CHOOSE w \in mutex_waiters[m] : \A v \in mutex_waiters[m] : v <= w

\* The waiter dmu_scan finds: lowest base priority, then lowest index.
NextOwner(m) ==
    LET urgent == MostUrgent(mutex_waiters[m], base_prio) IN
    CHOOSE w \in urgent : \A v \in urgent : w <= v

\* Mutant of PrioAfterUnlock: a lent priority is kept.
PrioKeptAfterUnlock == eff_prio

\* The caller's base priority comes back unless it is in a ceiling section.
PrioAfterUnlock ==
    IF ceiling_depth[current_task] = 0
    THEN [eff_prio EXCEPT ![current_task] = base_prio[current_task]]
    ELSE eff_prio

\* Mutant of MutexRelease: the mutex is freed without a look at its waiters.
MutexReleaseIgnoringWaiters(m) ==
    /\ started
    /\ mutex_owner' = [mutex_owner EXCEPT ![m] = NoOwner]
    /\ eff_prio' = PrioAfterUnlock
    /\ UNCHANGED <<started, pickVars, base_prio, sleep_left, ceiling_depth,
                   mutex_waiters, hb_elapsed>>

MutexRelease(m) ==
    /\ started
    /\ mutex_waiters[m] = {}
    /\ mutex_owner' = [mutex_owner EXCEPT ![m] = NoOwner]
    /\ eff_prio' = PrioAfterUnlock
    /\ UNCHANGED <<started, pickVars, base_prio, sleep_left, ceiling_depth,
                   mutex_waiters, hb_elapsed>>

\* Mutant of MutexHandoff: the waiter is woken to compete for a free mutex.
MutexHandoffFree(m) ==
    LET w == NextOwner(m) IN
    /\ started
    /\ mutex_waiters[m] # {}
    /\ mutex_owner' = [mutex_owner EXCEPT ![m] = NoOwner]
    /\ mutex_waiters' = [mutex_waiters EXCEPT ![m] = @ \ {w}]
    /\ sleep_left' = [sleep_left EXCEPT ![w] = 0]
    /\ eff_prio' = PrioAfterUnlock
    /\ UNCHANGED <<started, pickVars, base_prio, ceiling_depth, hb_elapsed>>

\* Ownership passes to the waiter before it is made ready; nobody is
\* rescheduled.
MutexHandoff(m) ==
    LET w == NextOwner(m) IN
    /\ started
    /\ mutex_waiters[m] # {}
    /\ mutex_owner' = [mutex_owner EXCEPT ![m] = w]
    /\ mutex_waiters' = [mutex_waiters EXCEPT ![m] = @ \ {w}]
    /\ sleep_left' = [sleep_left EXCEPT ![w] = 0]
    /\ eff_prio' = PrioAfterUnlock
    /\ UNCHANGED <<started, pickVars, base_prio, ceiling_depth, hb_elapsed>>

MutexUnlock(m) == MutexRelease(m) \/ MutexHandoff(m)

---------------------------------------------------------------------------
(* Interrupts: the heartbeat loop of scheduling_decision_prelude, then     *)
(* scheduler_switch_from_irq, which counts a tick if the timer fired.      *)

Overdue(t) == HbBound[t] > 0 /\ hb_elapsed[t] >= HbBound[t]

HoldsMutex(t) == \E m \in Mutexes : mutex_owner[m] = t

\* Mutant of Evicted: a task inside a ceiling section is evicted as well.
EvictedHolderToo(t) == Overdue(t) /\ ~HoldsMutex(t)

\* A stuck task that holds nothing is put to sleep for one more bound.
Evicted(t) == Overdue(t) /\ ceiling_depth[t] = 0 /\ ~HoldsMutex(t)

\* One tick later, saturating at 0; a blocked task stays blocked.
TickDown(n) == IF n > 0 THEN n - 1 ELSE n

Interrupt(tick) ==
    LET sleep == [t \in Task |-> IF Evicted(t) THEN HbBound[t]
                                 ELSE sleep_left[t]]
        stamp == [t \in Task |-> IF Overdue(t) THEN 0 ELSE hb_elapsed[t]] IN
    /\ started
    /\ hb_elapsed' = [t \in Task |->
                        IF tick THEN Min2(stamp[t] + 1, HbBound[t])
                        ELSE stamp[t]]
    /\ Reschedule([t \in Task |-> IF tick THEN TickDown(sleep[t])
                                  ELSE sleep[t]],
                  eff_prio)
    /\ UNCHANGED <<started, base_prio, ceiling_depth, mutexVars>>

---------------------------------------------------------------------------
Boot == StartMultitasking \/ \E p \in CreatePrios : TaskCreate(p)

\* Idle only ever computes and takes the UART's ceiling; it neither sleeps
\* nor waits for a mutex.
Call ==
    \/ \E c \in Ceilings : PrioLock(c)
    \/ \E p \in Restores : PrioUnlock(p)
    \/ /\ current_task # Idle
       /\ \/ \E n \in SleepTicks : Sleep(n)
          \/ \E m \in Mutexes : MutexLock(m) \/ MutexUnlock(m)

Next == Boot \/ Call \/ \E tick \in BOOLEAN : Interrupt(tick)

Spec == Init /\ [][Next]_schedVars

---------------------------------------------------------------------------
\* The processor is only ever given to a task that exists and is ready:
\* never to a slot nobody created (a wild stack pointer) and never to a
\* task that sleeps, is blocked on a mutex or was just evicted.
CurrentRunnable ==
    started => /\ Ready(sleep_left, current_task)
               /\ eff_prio[current_task] # Unused

\* Aging bounds how long a ready task can be passed over: priority times
\* the quantum to reach the top, then at most one turn of the cursor.  An
\* eviction takes a waiting task out of turn and leaves it what it waited.
WaitBounded ==
    \A t \in Task \ {Idle} :
        eff_prio[t] # Unused /\ HbBound[t] = 0
            => ready_wait[t] < AgingQuantum * base_prio[t] + MaxTasks
==========================================================================
