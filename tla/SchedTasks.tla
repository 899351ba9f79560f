---------------------------- MODULE SchedTasks ----------------------------
(***************************************************************************)
(* The kernel's tasks as clients of module Scheduler: what each of them    *)
(* does with the two locking protocols between two sleeps.                 *)
(*                                                                         *)
(*   - a ceiling section around the file system, the reboot record or the  *)
(*     demo resource: dhruva_prio_lock(c) ... dhruva_prio_unlock(base);    *)
(*   - uart_puts and its siblings, which read their own priority, take     *)
(*     ceiling 0, write, and restore the priority they read; they are      *)
(*     called on their own and inside every other section;                 *)
(*   - a blocking mutex (the demo mutex, DWC2_MUTEX_ID), never recursive   *)
(*     and never two at a time; the demo's holder sleeps while holding it; *)
(*   - the shell's section, taken around the whole of shell_dispatch, in   *)
(*     which a command may lock DWC2_MUTEX_ID, and may sleep.              *)
(*                                                                         *)
(* A command that ends the shell's section early leaves its second unlock  *)
(* to the caller: with no section open it writes the base priority, which  *)
(* is in force anyway (BoostEnds): a stutter.                              *)
(*                                                                         *)
(* Computing without a call is a stutter; an interrupt may fall between    *)
(* any two calls.                                                          *)
(***************************************************************************)
EXTENDS Scheduler

CONSTANTS
    Sections,        \* ceiling sections other than the console's
    Ceiling,         \* the ceiling each passes to dhruva_prio_lock
    Users,           \* the tasks that use each section and each mutex
    OuterSections,   \* the sections a mutex may be taken, or a sleep fall, in
    ConsoleUsers,    \* the tasks that print
    SleepsHolding    \* the mutexes a holder may sleep with

NoSection == "none"
ConsoleCeiling == 0

ASSUME ClientAssumption ==
    /\ Sections \cap Mutexes = {}
    /\ NoSection \notin Sections \cup Mutexes
    /\ Ceiling \in [Sections -> Ceilings]
    /\ Users \in [Sections \cup Mutexes -> SUBSET (Task \ {Idle})]
    /\ ConsoleUsers \subseteq Task
    /\ SleepsHolding \subseteq Mutexes
    /\ OuterSections \subseteq {r \in Sections : Ceiling[r] # ConsoleCeiling}
    /\ ConsoleCeiling \in Ceilings
    /\ Restores = Prio

VARIABLES
    section,     \* the section or mutex each task is in, or waits for
    outer,       \* the section it locked, or waits to lock, a mutex in
    console,     \* how far each task is in uart_puts
    saved_prio   \* uart_puts' local of that name

clientVars == <<section, outer, console, saved_prio>>
vars == <<schedVars, clientVars>>

ClientTypeOK ==
    /\ section \in [Task -> Sections \cup Mutexes \cup {NoSection}]
    /\ outer \in [Task -> OuterSections \cup {NoSection}]
    /\ console \in [Task -> {"out", "saved", "in"}]
    /\ saved_prio \in [Task -> Prio]

InitTasks ==
    /\ Init
    /\ section = [t \in Task |-> NoSection]
    /\ outer = [t \in Task |-> NoSection]
    /\ console = [t \in Task |-> "out"]
    /\ saved_prio = [t \in Task |-> 0]

---------------------------------------------------------------------------
(* uart_puts: current_eff_prio, then two system calls.                     *)

ConsoleBegin(t) ==
    /\ started
    /\ t = current_task
    /\ t \in ConsoleUsers
    /\ console[t] = "out"
    /\ console' = [console EXCEPT ![t] = "saved"]
    /\ saved_prio' = [saved_prio EXCEPT ![t] = eff_prio[t]]
    /\ UNCHANGED <<schedVars, section, outer>>

ConsoleLock(t) ==
    /\ t = current_task
    /\ console[t] = "saved"
    /\ console' = [console EXCEPT ![t] = "in"]
    /\ PrioLock(ConsoleCeiling)
    /\ UNCHANGED <<section, outer, saved_prio>>

ConsoleUnlock(t) ==
    /\ t = current_task
    /\ console[t] = "in"
    /\ console' = [console EXCEPT ![t] = "out"]
    /\ saved_prio' = [saved_prio EXCEPT ![t] = 0]
    /\ PrioUnlock(saved_prio[t])
    /\ UNCHANGED <<section, outer>>

(* The ceiling sections and the mutexes                                    *)

Calm(t) == t = current_task /\ console[t] = "out"

SectionEnter(t, r) ==
    /\ Calm(t)
    /\ section[t] = NoSection
    /\ t \in Users[r]
    /\ section' = [section EXCEPT ![t] = r]
    /\ PrioLock(Ceiling[r])
    /\ UNCHANGED <<outer, console, saved_prio>>

SectionLeave(t) ==
    /\ Calm(t)
    /\ section[t] \in Sections
    /\ section' = [section EXCEPT ![t] = NoSection]
    /\ PrioUnlock(base_prio[t])
    /\ UNCHANGED <<outer, console, saved_prio>>

Lock(t, m) ==
    /\ Calm(t)
    /\ section[t] \in OuterSections \cup {NoSection}
    /\ t \in Users[m]
    /\ section' = [section EXCEPT ![t] = m]
    /\ outer' = [outer EXCEPT ![t] = section[t]]
    /\ MutexLock(m)
    /\ UNCHANGED <<console, saved_prio>>

Unlock(t) ==
    /\ Calm(t)
    /\ section[t] \in Mutexes
    /\ section' = [section EXCEPT ![t] = outer[t]]
    /\ outer' = [outer EXCEPT ![t] = NoSection]
    /\ MutexUnlock(section[t])
    /\ UNCHANGED <<console, saved_prio>>

Rest(t) ==
    /\ Calm(t)
    /\ t # Idle
    /\ section[t] \in SleepsHolding \cup OuterSections \cup {NoSection}
    /\ \E n \in SleepTicks : Sleep(n)
    /\ UNCHANGED clientVars

---------------------------------------------------------------------------
(* What brings a task out of the sections it is in.                        *)
Proceed(t) ==
    \/ ConsoleLock(t)
    \/ ConsoleUnlock(t)
    \/ SectionLeave(t)
    \/ Unlock(t)

Request(t) ==
    \/ ConsoleBegin(t)
    \/ \E r \in Sections : SectionEnter(t, r)
    \/ \E m \in Mutexes : Lock(t, m)

TimerTick == Interrupt(TRUE) /\ UNCHANGED clientVars
OtherIrq  == Interrupt(FALSE) /\ UNCHANGED clientVars

NextTasks ==
    \/ Boot /\ UNCHANGED clientVars
    \/ \E t \in Task : Proceed(t) \/ Request(t) \/ Rest(t)
    \/ TimerTick
    \/ OtherIrq

SpecTasks == InitTasks /\ [][NextTasks]_vars

\* The boot sequence ends, the timer keeps firing, and a task that is given
\* the processor again and again gets through each section it is in: what a
\* section does is finite, with the mutexes taken inside, and waits for
\* nothing but the processor and those mutexes.  The timer runs free of the
\* code, so it cannot for ever meet a task inside a ceiling section that the
\* task keeps leaving.  No task need ever sleep, and no other interrupt is
\* assumed.
Fairness ==
    /\ WF_vars(StartMultitasking /\ UNCHANGED clientVars)
    /\ WF_vars(TimerTick)
    /\ SF_vars(TimerTick /\ ceiling_depth[current_task] = 0)
    /\ \A t \in ConsoleUsers : SF_vars(ConsoleLock(t) \/ ConsoleUnlock(t))
    /\ \A t \in Task \ {Idle} : SF_vars(SectionLeave(t)) /\ SF_vars(Unlock(t))

FairSpec == SpecTasks /\ Fairness

---------------------------------------------------------------------------
(* Safety                                                                  *)

\* dhruva_prio_lock needs no owner and no queue because a correctly assigned
\* ceiling keeps every other user of the section off the processor; so no
\* two tasks are ever inside one section (top of context_switch.S).
SectionsOf(t) == {section[t], outer[t]} \cap Sections

SectionExclusion ==
    \A t, u \in Task : t # u => SectionsOf(t) \cap SectionsOf(u) = {}

\* The same for the sections whose ceiling no task's priority beats, and
\* for the console among all of those.
InTopSection(t) ==
    \/ console[t] = "in"
    \/ section[t] \in {r \in Sections : Ceiling[r] = ConsoleCeiling}

TopSectionExclusion ==
    \A t, u \in Task : InTopSection(t) /\ InTopSection(u) => t = u

\* The mutex protocol's promises depend on no user of a mutex having a
\* heartbeat bound: an eviction wakes a blocked task before its turn.
MutexUsersUnsupervised ==
    \A m \in Mutexes : \A t \in Users[m] : HbBound[t] = 0

\* A task that runs inside a mutex section owns the mutex: the one resumed
\* from the blocked path never re-checks (dhruva_mutex_lock's comment).
RunnerOwnsMutex ==
    section[current_task] \in Mutexes
        => mutex_owner[section[current_task]] = current_task

\* No wakeup is lost: a mutex with waiters has an owner who will hand it
\* over, and every waiter stays blocked until that happens.
NoLostWakeup ==
    \A m \in Mutexes : \A w \in mutex_waiters[m] :
        /\ mutex_owner[m] \notin {NoOwner, w}
        /\ section[mutex_owner[m]] = m
        /\ section[w] = m
        /\ sleep_left[w] = Never

\* Each mutex is a HandoffLock: the abstract lock's owner, waiters, runner
\* and urgencies are the mutex tables, current_task and base_prio_table.
Abstract(m) == INSTANCE HandoffLock
    WITH owner   <- mutex_owner[m],
         waiting <- mutex_waiters[m],
         runner  <- current_task,
         urgency <- base_prio

\* While a task waits, the owner runs at the waiter's priority or better.
OwnerInheritsPrio ==
    \A m \in Mutexes : \A w \in mutex_waiters[m] :
        eff_prio[mutex_owner[m]] <= base_prio[w]

\* Outside every section a task runs at its own priority: no boost, lent or
\* taken, outlives what it was for.
BoostEnds ==
    started => \A t \in Task :
        eff_prio[t] # Unused /\ section[t] = NoSection /\ console[t] # "in"
            => eff_prio[t] = base_prio[t] /\ ceiling_depth[t] = 0

(* Liveness                                                                *)

\* Every ready task runs again, whatever its priority.
ReadyRuns ==
    \A t \in Task \ {Idle} :
        started /\ eff_prio[t] # Unused /\ Ready(sleep_left, t)
            ~> current_task = t

\* The most urgent user of a mutex gets it whenever it waits for it, so that
\* nobody can hold up HIGH's request for ever.
FirstInLine(t, m) ==
    /\ t \in mutex_waiters[m]
    /\ \A u \in Users[m] : eff_prio[u] # Unused => base_prio[t] <= base_prio[u]

UrgentWaiterOwns ==
    \A m \in Mutexes : \A t \in Task :
        FirstInLine(t, m) ~> mutex_owner[m] = t
==========================================================================
