------------------------- MODULE SchedTasksProofs -------------------------
(***************************************************************************)
(* Proofs about SchedTasks, for any number of tasks, sections and mutexes: *)
(* the tasks only make the calls Scheduler allows them; no two tasks are   *)
(* ever inside sections whose ceiling is the system ceiling; each mutex is *)
(* a HandoffLock; a boost ends with what it was for and reaches the owner; *)
(* aging bounds how long a ready task waits.                               *)
(***************************************************************************)
EXTENDS SchedTasks, SchedulerProofs

(***************************************************************************)
(* What the tasks' positions say about the scheduler's tables              *)
(***************************************************************************)

One(b) == IF b THEN 1 ELSE 0

\* A task's ceiling depth counts the sections it is in; nobody is in one
\* before multitasking starts, and idle is only ever in uart_puts.
DepthCounts ==
    \A t \in Task :
        ceiling_depth[t] = One(section[t] \in Sections)
                           + One(outer[t] \in Sections) + One(console[t] = "in")

\* Only around a mutex is there an outer section.
OuterAroundMutex ==
    \A t \in Task : section[t] \notin Mutexes => outer[t] = NoSection

OutsideAtBoot ==
    ~started => \A t \in Task : section[t] = NoSection /\ console[t] = "out"

ClientInv ==
    /\ ClientTypeOK
    /\ DepthCounts
    /\ OuterAroundMutex
    /\ OutsideAtBoot
    /\ section[Idle] = NoSection

\* A task inside a top section runs at priority 0 and has the processor.
TopRuns ==
    \A t \in Task : InTopSection(t) => t = current_task /\ eff_prio[t] = 0

\* Slot 0 is the one multitasking starts with.
BootTask == ~started => current_task = 0

TasksInv == SchedInv /\ ClientInv /\ TopRuns /\ BootTask

LEMMA InitTasksInv == InitTasks => TasksInv
<1> SUFFICES ASSUME InitTasks PROVE TasksInv
  OBVIOUS
<1>1. SchedInv
  BY InitSchedInv DEF InitTasks
<1>2. 0 \in Prio
  BY ConstantFacts, SMT DEF Prio
<1>3. ClientTypeOK /\ OutsideAtBoot /\ section[Idle] = NoSection
      /\ OuterAroundMutex
  BY <1>2, ConstantFacts
     DEF InitTasks, ClientTypeOK, OutsideAtBoot, OuterAroundMutex
<1>4. /\ NoSection \notin Sections
      /\ \A t \in Task : section[t] \notin Sections /\ outer[t] \notin Sections
  BY ClientAssumption DEF InitTasks
<1>5. DepthCounts
  BY <1>4 DEF InitTasks, Init, DepthCounts, One
<1>6. TopRuns
  BY <1>4 DEF InitTasks, TopRuns, InTopSection
<1>7. BootTask
  BY DEF InitTasks, Init, BootTask
<1> QED BY <1>1, <1>3, <1>5, <1>6, <1>7 DEF TasksInv, ClientInv

(***************************************************************************)
(* SchedTasks implements Scheduler                                         *)
(***************************************************************************)

LEMMA StepImplements ==
    ASSUME SchedInv, ClientInv, [NextTasks]_vars
    PROVE  [Next]_schedVars
<1>1. CASE Boot /\ UNCHANGED clientVars
  BY <1>1 DEF Next
<1>2. ASSUME NEW t \in Task, Proceed(t) PROVE [Next]_schedVars
  <2>1. CASE ConsoleLock(t)
    BY <2>1, ClientAssumption DEF ConsoleLock, Next, Call
  <2>2. CASE ConsoleUnlock(t)
    <3>1. saved_prio[t] \in Restores
      BY ClientAssumption DEF ClientInv, ClientTypeOK
    <3> QED BY <2>2, <3>1 DEF ConsoleUnlock, Next, Call
  <2>3. CASE SectionLeave(t)
    <3>1. base_prio[t] \in Restores
      BY ClientAssumption DEF SchedInv, TypeOK
    <3> QED BY <2>3, <3>1 DEF SectionLeave, Next, Call
  <2>4. CASE Unlock(t)
    <3>1. current_task # Idle
      BY <2>4, ClientAssumption, ConstantFacts DEF Unlock, Calm, ClientInv
    <3> QED BY <2>4, <3>1 DEF Unlock, Next, Call
  <2> QED BY <1>2, <2>1, <2>2, <2>3, <2>4 DEF Proceed
<1>3. ASSUME NEW t \in Task, Request(t) PROVE [Next]_schedVars
  <2>1. CASE ConsoleBegin(t)
    BY <2>1 DEF ConsoleBegin
  <2>2. ASSUME NEW r \in Sections, SectionEnter(t, r) PROVE [Next]_schedVars
    <3>1. Ceiling[r] \in Ceilings
      BY ClientAssumption
    <3> QED BY <2>2, <3>1 DEF SectionEnter, Next, Call
  <2>3. ASSUME NEW m \in Mutexes, Lock(t, m) PROVE [Next]_schedVars
    <3>1. current_task # Idle
      BY <2>3, ClientAssumption DEF Lock, Calm
    <3> QED BY <2>3, <3>1 DEF Lock, Next, Call
  <2> QED BY <1>3, <2>1, <2>2, <2>3 DEF Request
<1>4. ASSUME NEW t \in Task, Rest(t) PROVE [Next]_schedVars
  BY <1>4 DEF Rest, Calm, Next, Call
<1>5. CASE TimerTick \/ OtherIrq
  BY <1>5 DEF TimerTick, OtherIrq, Next
<1>6. CASE UNCHANGED vars
  BY <1>6 DEF vars
<1> QED BY <1>1, <1>2, <1>3, <1>4, <1>5, <1>6 DEF NextTasks

LEMMA SchedInvStep ==
    ASSUME SchedInv, ClientInv, [NextTasks]_vars
    PROVE  SchedInv'
BY StepImplements, NextSchedInv

(***************************************************************************)
(* ClientInv is kept                                                       *)
(***************************************************************************)

\* A step that leaves the depths and the tasks' places alone.
LEMMA PlacesUnchanged ==
    ASSUME ClientInv, TypeOK, UNCHANGED <<ceiling_depth, clientVars>>,
           started => started'
    PROVE  ClientInv'
BY DEF ClientInv, ClientTypeOK, DepthCounts, OuterAroundMutex, OutsideAtBoot,
       clientVars

LEMMA ConsoleLockClientInv ==
    ASSUME SchedInv, ClientInv, NEW t \in Task, ConsoleLock(t)
    PROVE  ClientInv'
<1>1. /\ t = current_task /\ started /\ started' /\ console[t] = "saved"
      /\ console' = [console EXCEPT ![t] = "in"]
      /\ ceiling_depth' = [ceiling_depth EXCEPT ![t] = @ + 1]
      /\ UNCHANGED <<section, outer, saved_prio>>
  BY DEF ConsoleLock, PrioLock
<1>2. ClientTypeOK'
  BY <1>1 DEF ClientInv, ClientTypeOK
<1>3. DepthCounts'
  BY <1>1 DEF ClientInv, ClientTypeOK, DepthCounts, One, SchedInv, TypeOK
<1> QED BY <1>1, <1>2, <1>3 DEF ClientInv, OuterAroundMutex, OutsideAtBoot

\* dhruva_prio_unlock inside a section lowers the depth by one.
LEMMA PrioUnlockDepth ==
    ASSUME TypeOK, NEW p, PrioUnlock(p), ceiling_depth[current_task] # 0
    PROVE  /\ ceiling_depth' = [ceiling_depth EXCEPT ![current_task] = @ - 1]
           /\ ceiling_depth[current_task] > 1 => eff_prio' = eff_prio
<1>1. ceiling_depth[current_task] \in Nat
  BY DEF TypeOK
<1> QED BY <1>1, SMT DEF PrioUnlock

LEMMA ConsoleUnlockClientInv ==
    ASSUME SchedInv, ClientInv, NEW t \in Task, ConsoleUnlock(t)
    PROVE  ClientInv'
<1>1. /\ t = current_task /\ started /\ started' /\ console[t] = "in"
      /\ console' = [console EXCEPT ![t] = "out"]
      /\ saved_prio' = [saved_prio EXCEPT ![t] = 0]
      /\ PrioUnlock(saved_prio[t])
      /\ UNCHANGED <<section, outer>>
  BY DEF ConsoleUnlock, PrioUnlock
<1>2. ceiling_depth[t] # 0
  BY <1>1 DEF ClientInv, DepthCounts, One
<1>3. ceiling_depth' = [ceiling_depth EXCEPT ![t] = @ - 1]
  BY <1>1, <1>2, PrioUnlockDepth DEF SchedInv
<1>4. ClientTypeOK'
  BY <1>1, ConstantFacts, SMT DEF ClientInv, ClientTypeOK, Prio
<1>5. DepthCounts'
  BY <1>1, <1>3, SMTT(30) DEF ClientInv, ClientTypeOK, DepthCounts, One, SchedInv, TypeOK
<1> QED BY <1>1, <1>4, <1>5 DEF ClientInv, OuterAroundMutex, OutsideAtBoot

LEMMA SectionEnterClientInv ==
    ASSUME SchedInv, ClientInv, NEW t \in Task, NEW r \in Sections,
           SectionEnter(t, r)
    PROVE  ClientInv'
<1>1. /\ t = current_task /\ started /\ started' /\ t # Idle
      /\ section[t] = NoSection
      /\ section' = [section EXCEPT ![t] = r]
      /\ ceiling_depth' = [ceiling_depth EXCEPT ![t] = @ + 1]
      /\ UNCHANGED <<outer, console, saved_prio>>
  BY ClientAssumption DEF SectionEnter, PrioLock, Calm
<1>2. NoSection \notin Sections /\ NoSection \notin Mutexes
  BY ClientAssumption
<1>3. ClientTypeOK'
  BY <1>1 DEF ClientInv, ClientTypeOK
<1>4. DepthCounts'
  BY <1>1, <1>2 DEF ClientInv, ClientTypeOK, DepthCounts, One, SchedInv, TypeOK
<1>5. OuterAroundMutex'
  BY <1>1, <1>2 DEF ClientInv, ClientTypeOK, OuterAroundMutex
<1> QED BY <1>1, <1>3, <1>4, <1>5 DEF ClientInv, OutsideAtBoot

LEMMA SectionLeaveClientInv ==
    ASSUME SchedInv, ClientInv, NEW t \in Task, SectionLeave(t)
    PROVE  ClientInv'
<1>1. /\ t = current_task /\ started /\ started'
      /\ section[t] \in Sections /\ console[t] = "out"
      /\ section' = [section EXCEPT ![t] = NoSection]
      /\ PrioUnlock(base_prio[t])
      /\ UNCHANGED <<outer, console, saved_prio>>
  BY DEF SectionLeave, Calm, PrioUnlock
<1>2. /\ NoSection \notin Sections /\ section[t] \notin Mutexes
  BY <1>1, ClientAssumption
<1>3. outer[t] = NoSection
  BY <1>2 DEF ClientInv, OuterAroundMutex
<1>4. ceiling_depth[t] # 0
  BY <1>1, <1>2, <1>3 DEF ClientInv, DepthCounts, One
<1>5. ceiling_depth' = [ceiling_depth EXCEPT ![t] = @ - 1]
  BY <1>1, <1>4, PrioUnlockDepth DEF SchedInv
<1>6. ClientTypeOK'
  BY <1>1 DEF ClientInv, ClientTypeOK
<1>7. DepthCounts'
  BY <1>1, <1>2, <1>3, <1>5
     DEF ClientInv, ClientTypeOK, DepthCounts, One, SchedInv, TypeOK
<1>8. OuterAroundMutex'
  BY <1>1, <1>3 DEF ClientInv, ClientTypeOK, OuterAroundMutex
<1> QED BY <1>1, <1>6, <1>7, <1>8, ConstantFacts
        DEF ClientInv, ClientTypeOK, OutsideAtBoot

\* Entering or leaving a mutex changes neither depths nor the console: the
\* section around it is counted before, meanwhile and after.
LEMMA LockClientInv ==
    ASSUME SchedInv, ClientInv, NEW t \in Task, NEW m \in Mutexes, Lock(t, m)
    PROVE  ClientInv'
<1>1. /\ t \in Users[m] /\ section[t] \in OuterSections \cup {NoSection}
      /\ section' = [section EXCEPT ![t] = m]
      /\ outer' = [outer EXCEPT ![t] = section[t]]
      /\ started /\ started'
      /\ UNCHANGED <<ceiling_depth, console, saved_prio>>
  BY DEF Lock, MutexLock, MutexAcquire, MutexBlock
<1>2. /\ m \notin Sections /\ NoSection \notin Sections \cup Mutexes
      /\ OuterSections \subseteq Sections /\ Sections \cap Mutexes = {}
  BY ClientAssumption
<1>3. t # Idle
  <2>1. Users[m] \in SUBSET (Task \ {Idle})
    BY ClientAssumption
  <2> QED BY <1>1, <2>1
<1>4. outer[t] = NoSection
  BY <1>1, <1>2 DEF ClientInv, OuterAroundMutex
<1>5. ClientTypeOK'
  BY <1>1 DEF ClientInv, ClientTypeOK
<1>6. DepthCounts'
  <2> SUFFICES ASSUME NEW u \in Task
               PROVE  ceiling_depth[u] = One(section'[u] \in Sections)
                          + One(outer'[u] \in Sections) + One(console[u] = "in")
    BY <1>1 DEF DepthCounts
  <2>1. ceiling_depth[u] = One(section[u] \in Sections)
                           + One(outer[u] \in Sections) + One(console[u] = "in")
    BY DEF ClientInv, DepthCounts
  <2>2. u # t => section'[u] = section[u] /\ outer'[u] = outer[u]
    BY <1>1 DEF ClientInv, ClientTypeOK
  <2>3. section'[t] = m /\ outer'[t] = section[t]
    BY <1>1 DEF ClientInv, ClientTypeOK
  <2> QED BY <1>2, <1>4, <2>1, <2>2, <2>3 DEF One
<1>7. OuterAroundMutex'
  BY <1>1 DEF ClientInv, ClientTypeOK, OuterAroundMutex
<1> QED BY <1>1, <1>3, <1>5, <1>6, <1>7 DEF ClientInv, OutsideAtBoot

LEMMA UnlockClientInv ==
    ASSUME SchedInv, ClientInv, NEW t \in Task, Unlock(t)
    PROVE  ClientInv'
<1>1. /\ section[t] \in Mutexes
      /\ section' = [section EXCEPT ![t] = outer[t]]
      /\ outer' = [outer EXCEPT ![t] = NoSection]
      /\ MutexUnlock(section[t])
      /\ UNCHANGED <<console, saved_prio>>
  BY DEF Unlock
<1>2. started /\ UNCHANGED <<started, ceiling_depth>>
  <2>1. \A m : MutexUnlock(m) => started /\ UNCHANGED <<started, ceiling_depth>>
    BY DEF MutexUnlock, MutexRelease, MutexHandoff
  <2> QED BY <1>1, <2>1
<1>3. /\ section[t] \notin Sections /\ NoSection \notin Sections \cup Mutexes
      /\ OuterSections \subseteq Sections /\ Sections \cap Mutexes = {}
  BY <1>1, ClientAssumption
<1>4. t # Idle /\ outer[t] \in OuterSections \cup {NoSection}
  BY <1>1, <1>3 DEF ClientInv, ClientTypeOK
<1>5. ClientTypeOK'
  BY <1>1, <1>3, <1>4 DEF ClientInv, ClientTypeOK
<1>6. DepthCounts'
  <2> SUFFICES ASSUME NEW u \in Task
               PROVE  ceiling_depth[u] = One(section'[u] \in Sections)
                          + One(outer'[u] \in Sections) + One(console[u] = "in")
    BY <1>1, <1>2 DEF DepthCounts
  <2>1. ceiling_depth[u] = One(section[u] \in Sections)
                           + One(outer[u] \in Sections) + One(console[u] = "in")
    BY DEF ClientInv, DepthCounts
  <2>2. u # t => section'[u] = section[u] /\ outer'[u] = outer[u]
    BY <1>1 DEF ClientInv, ClientTypeOK
  <2>3. section'[t] = outer[t] /\ outer'[t] = NoSection
    BY <1>1 DEF ClientInv, ClientTypeOK
  <2> QED BY <1>3, <2>1, <2>2, <2>3 DEF One
<1>7. OuterAroundMutex'
  BY <1>1 DEF ClientInv, ClientTypeOK, OuterAroundMutex
<1> QED BY <1>1, <1>2, <1>4, <1>5, <1>6, <1>7 DEF ClientInv, OutsideAtBoot

LEMMA ClientInvStep ==
    ASSUME SchedInv, ClientInv, [NextTasks]_vars
    PROVE  ClientInv'
<1>0. TypeOK
  BY DEF SchedInv
<1>1. CASE Boot /\ UNCHANGED clientVars
  BY <1>0, <1>1, PlacesUnchanged DEF Boot, TaskCreate, StartMultitasking
<1>2. ASSUME NEW t \in Task, Proceed(t) PROVE ClientInv'
  BY <1>2, ConsoleLockClientInv, ConsoleUnlockClientInv, SectionLeaveClientInv,
     UnlockClientInv DEF Proceed
<1>3. ASSUME NEW t \in Task, Request(t) PROVE ClientInv'
  <2>1. CASE ConsoleBegin(t)
    <3>1. eff_prio[t] \in Prio
      BY <2>1 DEF ConsoleBegin, SchedInv, TypeOK, CurrentRunnable
    <3> QED BY <2>1, <3>1
            DEF ConsoleBegin, ClientInv, ClientTypeOK, DepthCounts,
                OuterAroundMutex, OutsideAtBoot, schedVars
  <2> QED BY <1>3, <2>1, SectionEnterClientInv, LockClientInv DEF Request
<1>4. ASSUME NEW t \in Task, Rest(t) PROVE ClientInv'
  BY <1>0, <1>4, PlacesUnchanged DEF Rest, Sleep
<1>5. CASE TimerTick \/ OtherIrq
  BY <1>0, <1>5, PlacesUnchanged DEF TimerTick, OtherIrq, Interrupt
<1>6. CASE UNCHANGED vars
  BY <1>0, <1>6, PlacesUnchanged DEF vars, schedVars
<1> QED BY <1>1, <1>2, <1>3, <1>4, <1>5, <1>6 DEF NextTasks

(***************************************************************************)
(* TopRuns is kept                                                         *)
(***************************************************************************)

\* A running holder at priority 0 keeps the processor.
LEMMA HolderStays ==
    ASSUME TypeOK,
           NEW sl \in [Task -> Nat \cup {Never}],
           NEW ep \in [Task -> Prio \cup {Unused}],
           HolderKeepsTies(sl), ep[current_task] = 0, Reschedule(sl, ep)
    PROVE  current_task' = current_task
<1>1. \A t \in Task : ~(ep[t] < 0)
  <2> TAKE t \in Task
  <2>1. ep[t] \in Nat
    BY ConstantFacts
  <2> QED BY <2>1, SMT
<1>2. Preemptors(sl, ep) = {}
  BY <1>1 DEF Preemptors
<1> QED BY <1>2 DEF Reschedule, PickNext, HolderPick

\* Nobody else is inside a top section when the running task is outside one.
LEMMA NobodyInTop ==
    ASSUME TasksInv, ~InTopSection(current_task)
    PROVE  \A t \in Task : ~InTopSection(t)
BY DEF TasksInv, TopRuns

LEMMA InterruptTopRuns ==
    ASSUME TasksInv, NEW tick \in BOOLEAN, Interrupt(tick), UNCHANGED clientVars
    PROVE  TopRuns'
<1> DEFINE sleep == [t \in Task |-> IF Evicted(t) THEN HbBound[t]
                                    ELSE sleep_left[t]]
           sl == [t \in Task |-> IF tick THEN TickDown(sleep[t]) ELSE sleep[t]]
<1> SUFFICES ASSUME NEW t \in Task, InTopSection(t)
             PROVE  t = current_task' /\ eff_prio'[t] = 0
  BY DEF TopRuns, InTopSection, clientVars
<1>1. started /\ Reschedule(sl, eff_prio)
  BY DEF Interrupt
<1>2. t = current_task /\ eff_prio[t] = 0 /\ sleep_left[t] = 0
  BY <1>1 DEF TasksInv, TopRuns, SchedInv, CurrentRunnable, Ready
<1>3. ceiling_depth[t] # 0 /\ ceiling_depth[t] \in Nat
  BY DEF TasksInv, ClientInv, SchedInv, TypeOK, DepthCounts, One, InTopSection
<1>4. sleep \in [Task -> Nat \cup {Never}] /\ sleep[t] = 0
  BY <1>2, <1>3, TimeAssumption DEF TasksInv, SchedInv, TypeOK, Evicted
<1>5. \A n \in Nat \cup {Never} : TickDown(n) \in Nat \cup {Never}
  BY SMT DEF TickDown, Never
<1>6. TickDown(0) = 0
  BY SMT DEF TickDown
<1> HIDE DEF sleep
<1>7. sl \in [Task -> Nat \cup {Never}] /\ sl[t] = 0
  BY <1>4, <1>5, <1>6
<1> HIDE DEF sl
<1>8. HolderKeepsTies(sl)
  BY <1>2, <1>3, <1>7, SMT DEF HolderKeepsTies, Ready
<1>9. current_task' = current_task /\ eff_prio' = eff_prio
  BY <1>1, <1>2, <1>7, <1>8, HolderStays DEF TasksInv, SchedInv, TypeOK, Reschedule
<1> QED BY <1>2, <1>9

\* A step of the running task t that leaves the others' places alone.
LEMMA OthersOutside ==
    ASSUME TasksInv, NEW t \in Task, t = current_task,
           \A u \in Task \ {t} : section'[u] = section[u] /\ console'[u] = console[u],
           InTopSection(t)' => current_task' = t /\ eff_prio'[t] = 0
    PROVE  TopRuns'
<1>1. \A u \in Task \ {t} : ~InTopSection(u)
  BY DEF TasksInv, TopRuns
<1>2. \A u \in Task \ {t} : ~InTopSection(u)'
  BY <1>1 DEF InTopSection
<1> QED BY <1>2 DEF TopRuns

LEMMA ProceedTopRuns ==
    ASSUME TasksInv, NEW t \in Task, Proceed(t)
    PROVE  TopRuns'
<1>0. t = current_task /\ TypeOK /\ ClientTypeOK
  BY DEF Proceed, ConsoleLock, ConsoleUnlock, SectionLeave, Unlock, Calm,
         TasksInv, SchedInv, ClientInv
<1>1. CASE ConsoleLock(t)
  BY <1>0, <1>1, OthersOutside
     DEF ConsoleLock, PrioLock, ConsoleCeiling, pickVars, TypeOK, ClientTypeOK
<1>2. CASE ConsoleUnlock(t)
  <2>1. /\ console[t] = "in" /\ console' = [console EXCEPT ![t] = "out"]
        /\ section' = section /\ PrioUnlock(saved_prio[t])
        /\ current_task' = current_task
    BY <1>2 DEF ConsoleUnlock, PrioUnlock, pickVars
  <2>2. ASSUME InTopSection(t)' PROVE current_task' = t /\ eff_prio'[t] = 0
    <3>1. section[t] \in Sections
      BY <1>0, <2>1, <2>2 DEF InTopSection, ClientTypeOK
    <3>2. outer[t] = NoSection /\ NoSection \notin Sections
      BY <3>1, ClientAssumption DEF TasksInv, ClientInv, OuterAroundMutex
    <3>3. ceiling_depth[t] = 2
      BY <2>1, <3>1, <3>2 DEF TasksInv, ClientInv, DepthCounts, One
    <3>4. eff_prio' = eff_prio
      BY <1>0, <2>1, <3>3, PrioUnlockDepth
    <3>5. eff_prio[t] = 0
      BY <2>1 DEF TasksInv, TopRuns, InTopSection
    <3> QED BY <1>0, <2>1, <3>4, <3>5
  <2> QED BY <1>0, <2>1, <2>2, OthersOutside DEF ClientTypeOK
<1>3. CASE SectionLeave(t)
  <2>1. ~InTopSection(t)'
    BY <1>0, <1>3, ClientAssumption
       DEF SectionLeave, Calm, InTopSection, ClientTypeOK
  <2> QED BY <1>0, <1>3, <2>1, OthersOutside DEF SectionLeave, ClientTypeOK
<1>4. CASE Unlock(t)
  <2>1. /\ section'[t] = outer[t] /\ outer[t] \in OuterSections \cup {NoSection}
        /\ console' = console /\ console[t] = "out"
    BY <1>0, <1>4 DEF Unlock, Calm, ClientTypeOK
  <2>2. ~InTopSection(t)'
    BY <2>1, ClientAssumption DEF InTopSection
  <2> QED BY <1>0, <1>4, <2>2, OthersOutside DEF Unlock, ClientTypeOK
<1> QED BY <1>1, <1>2, <1>3, <1>4 DEF Proceed

LEMMA RequestTopRuns ==
    ASSUME TasksInv, NEW t \in Task, Request(t) \/ Rest(t)
    PROVE  TopRuns'
<1>0. TypeOK /\ ClientTypeOK
  BY DEF TasksInv, SchedInv, ClientInv
<1>1. CASE ConsoleBegin(t)
  <2>1. /\ t = current_task /\ console[t] = "out"
        /\ console' = [console EXCEPT ![t] = "saved"]
        /\ UNCHANGED <<schedVars, section, outer>>
    BY <1>1 DEF ConsoleBegin
  <2>2. ASSUME InTopSection(t)' PROVE current_task' = t /\ eff_prio'[t] = 0
    BY <1>0, <2>1, <2>2
       DEF InTopSection, ClientTypeOK, TasksInv, TopRuns, schedVars, pickVars
  <2> QED BY <1>0, <2>1, <2>2, OthersOutside DEF ClientTypeOK
<1>2. ASSUME NEW r \in Sections, SectionEnter(t, r) PROVE TopRuns'
  <2>1. /\ t = current_task /\ console[t] = "out" /\ console' = console
        /\ section' = [section EXCEPT ![t] = r]
        /\ eff_prio' = [eff_prio EXCEPT ![t] = Ceiling[r]]
        /\ current_task' = current_task
    BY <1>2 DEF SectionEnter, Calm, PrioLock, pickVars
  <2>2. ASSUME InTopSection(t)' PROVE current_task' = t /\ eff_prio'[t] = 0
    BY <1>0, <2>1, <2>2
       DEF InTopSection, ClientTypeOK, TypeOK, ConsoleCeiling
  <2> QED BY <1>0, <2>1, <2>2, OthersOutside DEF ClientTypeOK
<1>3. ASSUME NEW m \in Mutexes, Lock(t, m) PROVE TopRuns'
  <2>1. /\ t = current_task /\ console[t] = "out" /\ console' = console
        /\ section' = [section EXCEPT ![t] = m]
    BY <1>3 DEF Lock, Calm
  <2>2. ~InTopSection(t)'
    BY <1>0, <2>1, ClientAssumption DEF InTopSection, ClientTypeOK
  <2> QED BY <1>0, <2>1, <2>2, OthersOutside DEF ClientTypeOK
<1>4. CASE Rest(t)
  <2>1. /\ t = current_task /\ console[t] = "out"
        /\ section[t] \in Mutexes \cup OuterSections \cup {NoSection}
        /\ UNCHANGED clientVars
    BY <1>4, ClientAssumption DEF Rest, Calm
  <2>2. ~InTopSection(t)
    BY <2>1, ClientAssumption DEF InTopSection
  <2>3. ~InTopSection(t)'
    BY <2>1, <2>2 DEF InTopSection, clientVars
  <2> QED BY <1>0, <2>1, <2>3, OthersOutside DEF clientVars
<1> QED BY <1>1, <1>2, <1>3, <1>4 DEF Request

LEMMA TasksInvStep == TasksInv /\ [NextTasks]_vars => TasksInv'
<1> SUFFICES ASSUME TasksInv, [NextTasks]_vars PROVE TasksInv'
  OBVIOUS
<1>0. SchedInv /\ ClientInv
  BY DEF TasksInv
<1>1. SchedInv' /\ ClientInv'
  BY <1>0, SchedInvStep, ClientInvStep
<1>2. TopRuns'
  <2>1. CASE Boot /\ UNCHANGED clientVars
    <3>1. ~started
      BY <2>1 DEF Boot, TaskCreate, StartMultitasking
    <3>2. \A t \in Task : ~InTopSection(t)
      BY <3>1, <1>0, ClientAssumption
         DEF ClientInv, OutsideAtBoot, InTopSection
    <3> QED BY <2>1, <3>2 DEF TopRuns, InTopSection, clientVars
  <2>2. ASSUME NEW t \in Task, Proceed(t) \/ Request(t) \/ Rest(t)
        PROVE  TopRuns'
    BY <2>2, ProceedTopRuns, RequestTopRuns
  <2>3. CASE TimerTick \/ OtherIrq
    BY <2>3, InterruptTopRuns DEF TimerTick, OtherIrq
  <2>4. CASE UNCHANGED vars
    BY <2>4 DEF vars, schedVars, pickVars, clientVars, TasksInv, TopRuns,
                InTopSection
  <2> QED BY <2>1, <2>2, <2>3, <2>4 DEF NextTasks
<1>3. BootTask'
  <2>1. [Next]_schedVars
    BY <1>0, StepImplements
  <2>2. started' \/ ~started
    BY <2>1 DEF Next, Boot, Call, TaskCreate, StartMultitasking, PrioLock,
                PrioUnlock, Sleep, MutexLock, MutexAcquire, MutexBlock,
                MutexUnlock, MutexRelease, MutexHandoff, Interrupt, schedVars
  <2>3. ~started => started' \/ current_task' = current_task
    BY <2>1 DEF Next, Boot, Call, TaskCreate, StartMultitasking, PrioLock,
                PrioUnlock, Sleep, MutexLock, MutexAcquire, MutexBlock,
                MutexUnlock, MutexRelease, MutexHandoff, Interrupt, schedVars,
                pickVars
  <2> QED BY <2>2, <2>3 DEF TasksInv, BootTask
<1> QED BY <1>1, <1>2, <1>3 DEF TasksInv

(***************************************************************************)
(* The mutex protocol                                                      *)
(***************************************************************************)

OwnerInside ==
    \A m \in Mutexes : mutex_owner[m] # NoOwner => section[mutex_owner[m]] = m

WaiterBlocked ==
    \A m \in Mutexes : \A w \in mutex_waiters[m] :
        /\ section[w] = m
        /\ sleep_left[w] = Never
        /\ mutex_owner[m] \notin {NoOwner, w}

OwnsOrWaits ==
    \A t \in Task : \A m \in Mutexes :
        section[t] = m => /\ t \in Users[m]
                          /\ mutex_owner[m] = t \/ t \in mutex_waiters[m]

MutexInv == OwnerInside /\ WaiterBlocked /\ OwnsOrWaits

LEMMA InitMutexInv == InitTasks => MutexInv
<1> SUFFICES ASSUME InitTasks PROVE MutexInv
  OBVIOUS
<1>1. \A t \in Task : section[t] \notin Mutexes
  BY ClientAssumption DEF InitTasks
<1> QED
  BY <1>1 DEF InitTasks, Init, MutexInv, OwnerInside, WaiterBlocked, OwnsOrWaits

\* The running task is nobody's waiter.
LEMMA RunnerNotWaiting ==
    ASSUME TasksInv, MutexInv, started, NEW m \in Mutexes
    PROVE  /\ current_task \notin mutex_waiters[m]
           /\ section[current_task] = m => mutex_owner[m] = current_task
<1>1. sleep_left[current_task] = 0 /\ current_task \in Task
  BY DEF TasksInv, SchedInv, CurrentRunnable, Ready, TypeOK
<1>2. 0 # Never
  BY DEF Never
<1> QED BY <1>1, <1>2 DEF MutexInv, WaiterBlocked, OwnsOrWaits

\* A step that leaves the mutexes and the tasks' places in them alone, and
\* every blocked waiter blocked.
LEMMA MutexFrame ==
    ASSUME MutexInv, UNCHANGED <<mutex_owner, mutex_waiters>>,
           TypeOK, ClientTypeOK,
           \A t \in Task : section'[t] = section[t]
                          \/ (section[t] \notin Mutexes /\ section'[t] \notin Mutexes),
           \A m \in Mutexes : \A w \in mutex_waiters[m] : sleep_left'[w] = Never
    PROVE  MutexInv'
<1>1. \A m \in Mutexes : /\ mutex_waiters[m] \subseteq Task
                         /\ mutex_owner[m] \in Task \cup {NoOwner}
  BY DEF TypeOK
<1>2. OwnerInside'
  BY <1>1 DEF MutexInv, OwnerInside
<1>3. WaiterBlocked'
  BY <1>1 DEF MutexInv, WaiterBlocked
<1>4. OwnsOrWaits'
  BY DEF MutexInv, OwnsOrWaits
<1> QED BY <1>2, <1>3, <1>4 DEF MutexInv

LEMMA LockMutexInv ==
    ASSUME TasksInv, MutexInv, NEW t \in Task, NEW m \in Mutexes, Lock(t, m)
    PROVE  MutexInv'
<1>1. /\ t = current_task /\ t \in Users[m]
      /\ section' = [section EXCEPT ![t] = m]
      /\ TypeOK /\ ClientTypeOK
  BY DEF Lock, Calm, TasksInv, SchedInv, ClientInv
<1>2. section[t] \notin Mutexes
  BY ClientAssumption DEF Lock
<1>3. \A k \in Mutexes : mutex_owner[k] # t
  <2>1. t # NoOwner
    BY ConstantFacts, SMT DEF NoOwner
  <2> QED BY <1>1, <1>2, <2>1 DEF MutexInv, OwnerInside
<1>4. \A k \in Mutexes : t \notin mutex_waiters[k]
  BY <1>1, <1>2 DEF MutexInv, WaiterBlocked
<1>5. t # NoOwner
  BY ConstantFacts, SMT DEF NoOwner
<1>6. CASE MutexAcquire(m)
  <2>1. /\ mutex_owner[m] = NoOwner
        /\ mutex_owner' = [mutex_owner EXCEPT ![m] = t]
        /\ mutex_waiters' = mutex_waiters /\ sleep_left' = sleep_left
    BY <1>1, <1>6 DEF MutexAcquire
  <2>2. mutex_waiters[m] = {}
    BY <2>1 DEF MutexInv, WaiterBlocked
  <2>3. OwnerInside'
    BY <1>1, <1>3, <2>1 DEF MutexInv, OwnerInside, TypeOK, ClientTypeOK
  <2>4. WaiterBlocked'
    BY <1>1, <1>4, <2>1, <2>2 DEF MutexInv, WaiterBlocked, TypeOK, ClientTypeOK
  <2>5. OwnsOrWaits'
    <3> SUFFICES ASSUME NEW u \in Task, NEW k \in Mutexes, section'[u] = k
                 PROVE  u \in Users[k] /\ (mutex_owner'[k] = u \/ u \in mutex_waiters'[k])
      BY DEF OwnsOrWaits
    <3>1. CASE u = t
      BY <1>1, <2>1, <3>1 DEF TypeOK, ClientTypeOK
    <3>2. CASE u # t
      <4>1. u # NoOwner
        BY ConstantFacts, SMT DEF NoOwner
      <4>2. section[u] = k
        BY <1>1, <3>2 DEF ClientTypeOK
      <4> QED BY <1>1, <2>1, <2>2, <4>1, <4>2 DEF MutexInv, OwnsOrWaits, TypeOK
    <3> QED BY <3>1, <3>2
  <2> QED BY <2>3, <2>4, <2>5 DEF MutexInv
<1>7. CASE MutexBlock(m)
  <2>1. /\ mutex_owner[m] # NoOwner /\ mutex_owner' = mutex_owner
        /\ mutex_waiters' = [mutex_waiters EXCEPT ![m] = @ \cup {t}]
        /\ sleep_left' = [sleep_left EXCEPT ![t] = Never]
    BY <1>1, <1>7 DEF MutexBlock, Reschedule
  <2>2. OwnerInside'
    BY <1>1, <1>3, <2>1 DEF MutexInv, OwnerInside, TypeOK, ClientTypeOK
  <2>3. WaiterBlocked'
    <3> SUFFICES ASSUME NEW k \in Mutexes, NEW w \in mutex_waiters'[k]
                 PROVE  /\ section'[w] = k /\ sleep_left'[w] = Never
                        /\ mutex_owner[k] \notin {NoOwner, w}
      BY <2>1 DEF WaiterBlocked
    <3>1. CASE w = t
      <4>1. k = m
        BY <1>1, <1>4, <2>1, <3>1 DEF TypeOK
      <4> QED BY <1>1, <1>3, <2>1, <3>1, <4>1 DEF TypeOK, ClientTypeOK
    <3>2. CASE w # t
      <4>1. w \in mutex_waiters[k] /\ w \in Task
        BY <1>1, <2>1, <3>2 DEF TypeOK
      <4> QED BY <1>1, <2>1, <3>2, <4>1
              DEF MutexInv, WaiterBlocked, TypeOK, ClientTypeOK
    <3> QED BY <3>1, <3>2
  <2>4. OwnsOrWaits'
    <3> SUFFICES ASSUME NEW u \in Task, NEW k \in Mutexes, section'[u] = k
                 PROVE  u \in Users[k] /\ (mutex_owner'[k] = u \/ u \in mutex_waiters'[k])
      BY DEF OwnsOrWaits
    <3>1. CASE u = t
      BY <1>1, <2>1, <3>1 DEF TypeOK, ClientTypeOK
    <3>2. CASE u # t
      BY <1>1, <2>1, <3>2 DEF MutexInv, OwnsOrWaits, TypeOK, ClientTypeOK
    <3> QED BY <3>1, <3>2
  <2> QED BY <2>2, <2>3, <2>4 DEF MutexInv
<1> QED BY <1>6, <1>7 DEF Lock, MutexLock

LEMMA UnlockMutexInv ==
    ASSUME TasksInv, MutexInv, NEW t \in Task, Unlock(t)
    PROVE  MutexInv'
<1> DEFINE m == section[t]
<1>1. /\ t = current_task /\ m \in Mutexes /\ MutexUnlock(m)
      /\ section' = [section EXCEPT ![t] = outer[t]]
      /\ TypeOK /\ ClientTypeOK
  BY DEF Unlock, Calm, TasksInv, SchedInv, ClientInv
<1>0. outer[t] \notin Mutexes
  BY <1>1, ClientAssumption DEF ClientTypeOK
<1>2. started /\ t # NoOwner
  BY <1>1, ConstantFacts, SMT
     DEF MutexUnlock, MutexRelease, MutexHandoff, NoOwner
<1>3. mutex_owner[m] = t /\ \A k \in Mutexes : t \notin mutex_waiters[k]
  BY <1>1, <1>2, RunnerNotWaiting
<1>4. \A k \in Mutexes : k # m => mutex_owner[k] # t
  BY <1>2 DEF MutexInv, OwnerInside
<1>5. CASE MutexRelease(m)
  <2>1. /\ mutex_waiters[m] = {} /\ mutex_waiters' = mutex_waiters
        /\ mutex_owner' = [mutex_owner EXCEPT ![m] = NoOwner]
        /\ sleep_left' = sleep_left
    BY <1>5 DEF MutexRelease
  <2> HIDE DEF m
  <2>2. OwnerInside'
    BY <1>1, <1>4, <2>1 DEF MutexInv, OwnerInside, TypeOK, ClientTypeOK
  <2>3. WaiterBlocked'
    BY <1>1, <1>3, <2>1 DEF MutexInv, WaiterBlocked, TypeOK, ClientTypeOK
  <2>4. OwnsOrWaits'
    BY <1>0, <1>1, <1>2, <1>3, <2>1 DEF MutexInv, OwnsOrWaits, TypeOK, ClientTypeOK
  <2> QED BY <2>2, <2>3, <2>4 DEF MutexInv
<1>6. CASE MutexHandoff(m)
  <2> DEFINE w == NextOwner(m)
  <2>1. w \in mutex_waiters[m] /\ w \in Task
    BY <1>1, <1>6, NextOwnerWaits DEF MutexHandoff, TypeOK
  <2>2. /\ mutex_owner' = [mutex_owner EXCEPT ![m] = w]
        /\ mutex_waiters' = [mutex_waiters EXCEPT ![m] = @ \ {w}]
        /\ sleep_left' = [sleep_left EXCEPT ![w] = 0]
    BY <1>6 DEF MutexHandoff
  <2> HIDE DEF m, w
  <2>3. w # t /\ section[w] = m /\ \A k \in Mutexes : k # m => w \notin mutex_waiters[k]
    BY <1>1, <1>3, <2>1 DEF MutexInv, WaiterBlocked
  <2>4. OwnerInside'
    BY <1>1, <1>4, <2>1, <2>2, <2>3 DEF MutexInv, OwnerInside, TypeOK, ClientTypeOK
  <2>5. WaiterBlocked'
    <3> SUFFICES ASSUME NEW k \in Mutexes, NEW v \in mutex_waiters'[k]
                 PROVE  /\ section'[v] = k /\ sleep_left'[v] = Never
                        /\ mutex_owner'[k] \notin {NoOwner, v}
      BY DEF WaiterBlocked
    <3>1. v \in mutex_waiters[k] /\ v # w /\ v # t /\ v \in Task
      BY <1>1, <1>3, <2>2, <2>3 DEF TypeOK
    <3>2. section'[v] = k /\ sleep_left'[v] = Never
      BY <1>1, <2>2, <3>1 DEF MutexInv, WaiterBlocked, TypeOK, ClientTypeOK
    <3>3. w # NoOwner
      BY <2>1, ConstantFacts, SMT DEF NoOwner
    <3>4. mutex_owner'[k] \notin {NoOwner, v}
      BY <1>1, <2>2, <3>1, <3>3 DEF MutexInv, WaiterBlocked, TypeOK
    <3> QED BY <3>2, <3>4
  <2>6. OwnsOrWaits'
    <3> SUFFICES ASSUME NEW u \in Task, NEW k \in Mutexes, section'[u] = k
                 PROVE  /\ u \in Users[k]
                        /\ mutex_owner'[k] = u \/ u \in mutex_waiters'[k]
      BY DEF OwnsOrWaits
    <3>1. u # t /\ section[u] = k
      BY <1>0, <1>1 DEF ClientTypeOK
    <3> QED BY <1>1, <1>3, <2>1, <2>2, <3>1 DEF MutexInv, OwnsOrWaits, TypeOK
  <2> QED BY <2>4, <2>5, <2>6 DEF MutexInv
<1> QED BY <1>1, <1>5, <1>6 DEF MutexUnlock

LEMMA InterruptMutexInv ==
    ASSUME MutexUsersUnsupervised, TasksInv, MutexInv,
           NEW tick \in BOOLEAN, Interrupt(tick), UNCHANGED clientVars
    PROVE  MutexInv'
<1>1. TypeOK /\ ClientTypeOK
  BY DEF TasksInv, SchedInv, ClientInv
<1>2. ASSUME NEW m \in Mutexes, NEW w \in mutex_waiters[m]
      PROVE  sleep_left'[w] = Never
  <2>1. w \in Task /\ section[w] = m /\ sleep_left[w] = Never
    BY <1>1, <1>2 DEF MutexInv, WaiterBlocked, TypeOK
  <2>2. HbBound[w] = 0
    BY <2>1 DEF MutexInv, OwnsOrWaits, MutexUsersUnsupervised
  <2>3. ~Evicted(w)
    BY <2>2, SMT DEF Evicted, Overdue
  <2>4. TickDown(Never) = Never
    BY SMT DEF TickDown, Never
  <2> QED BY <2>1, <2>3, <2>4 DEF Interrupt, Reschedule
<1>3. UNCHANGED <<mutex_owner, mutex_waiters>> /\ section' = section
  BY DEF Interrupt, mutexVars, clientVars
<1> QED BY <1>1, <1>2, <1>3, MutexFrame

LEMMA MutexInvStep ==
    ASSUME MutexUsersUnsupervised
    PROVE  TasksInv /\ MutexInv /\ [NextTasks]_vars => MutexInv'
<1> SUFFICES ASSUME TasksInv, MutexInv, [NextTasks]_vars PROVE MutexInv'
  OBVIOUS
<1>0. TypeOK /\ ClientTypeOK
  BY DEF TasksInv, SchedInv, ClientInv
<1> DEFINE StaysBlocked ==
      \A m \in Mutexes : \A w \in mutex_waiters[m] : sleep_left'[w] = Never
<1>1. sleep_left' = sleep_left => StaysBlocked
  BY DEF MutexInv, WaiterBlocked
<1>2. CASE Boot /\ UNCHANGED clientVars
  <2>1. ~started /\ UNCHANGED <<mutex_owner, mutex_waiters>> /\ section' = section
    BY <1>2 DEF Boot, TaskCreate, StartMultitasking, mutexVars, clientVars
  <2>2. \A m \in Mutexes : mutex_waiters[m] = {}
    <3> SUFFICES ASSUME NEW m \in Mutexes, NEW w \in mutex_waiters[m] PROVE FALSE
      OBVIOUS
    <3>1. w \in Task /\ section[w] = m
      BY <1>0 DEF MutexInv, WaiterBlocked, TypeOK
    <3> QED BY <2>1, <3>1, ClientAssumption DEF TasksInv, ClientInv, OutsideAtBoot
  <2> QED BY <1>0, <2>1, <2>2, MutexFrame
<1>3. ASSUME NEW t \in Task, Proceed(t) PROVE MutexInv'
  <2>1. CASE ConsoleLock(t) \/ ConsoleUnlock(t)
    <3>1. /\ UNCHANGED <<mutex_owner, mutex_waiters>>
          /\ section' = section /\ sleep_left' = sleep_left
      BY <2>1 DEF ConsoleLock, ConsoleUnlock, PrioLock, PrioUnlock, mutexVars
    <3> QED BY <1>0, <1>1, <3>1, MutexFrame
  <2>2. CASE SectionLeave(t)
    <3>1. /\ UNCHANGED <<mutex_owner, mutex_waiters>> /\ sleep_left' = sleep_left
          /\ section[t] \in Sections
          /\ section' = [section EXCEPT ![t] = NoSection]
      BY <2>2 DEF SectionLeave, PrioUnlock, mutexVars
    <3>2. section[t] \notin Mutexes /\ NoSection \notin Mutexes
      BY <3>1, ClientAssumption
    <3>3. \A u \in Task : section'[u] = section[u]
                          \/ (section[u] \notin Mutexes /\ section'[u] \notin Mutexes)
      BY <1>0, <3>1, <3>2 DEF ClientTypeOK
    <3> QED BY <1>0, <1>1, <3>1, <3>3, MutexFrame
  <2> QED BY <1>3, <2>1, <2>2, UnlockMutexInv DEF Proceed
<1>4. ASSUME NEW t \in Task, Request(t) PROVE MutexInv'
  <2>1. CASE ConsoleBegin(t)
    <3>1. /\ UNCHANGED <<mutex_owner, mutex_waiters>>
          /\ section' = section /\ sleep_left' = sleep_left
      BY <2>1 DEF ConsoleBegin, schedVars, mutexVars
    <3> QED BY <1>0, <1>1, <3>1, MutexFrame
  <2>2. ASSUME NEW r \in Sections, SectionEnter(t, r) PROVE MutexInv'
    <3>1. /\ UNCHANGED <<mutex_owner, mutex_waiters>> /\ sleep_left' = sleep_left
          /\ section[t] = NoSection
          /\ section' = [section EXCEPT ![t] = r]
      BY <2>2 DEF SectionEnter, Calm, PrioLock, mutexVars
    <3>2. NoSection \notin Mutexes /\ r \notin Mutexes
      BY ClientAssumption
    <3>3. \A u \in Task : section'[u] = section[u]
                          \/ (section[u] \notin Mutexes /\ section'[u] \notin Mutexes)
      BY <1>0, <3>1, <3>2 DEF ClientTypeOK
    <3> QED BY <1>0, <1>1, <3>1, <3>3, MutexFrame
  <2> QED BY <1>4, <2>1, <2>2, LockMutexInv DEF Request
<1>5. ASSUME NEW t \in Task, Rest(t) PROVE MutexInv'
  <2>1. PICK n \in SleepTicks : Sleep(n)
    BY <1>5 DEF Rest
  <2>2. /\ started /\ UNCHANGED <<mutex_owner, mutex_waiters>> /\ section' = section
        /\ sleep_left' = [sleep_left EXCEPT ![current_task] = n]
    BY <1>5, <2>1 DEF Rest, Sleep, Reschedule, mutexVars, clientVars
  <2>3. \A m \in Mutexes : current_task \notin mutex_waiters[m]
    BY <2>2, RunnerNotWaiting
  <2>4. StaysBlocked
    BY <1>0, <2>2, <2>3 DEF MutexInv, WaiterBlocked, TypeOK
  <2> QED BY <1>0, <2>2, <2>4, MutexFrame
<1>6. CASE TimerTick \/ OtherIrq
  BY <1>6, InterruptMutexInv DEF TimerTick, OtherIrq
<1>7. CASE UNCHANGED vars
  <2>1. /\ UNCHANGED <<mutex_owner, mutex_waiters>>
        /\ section' = section /\ sleep_left' = sleep_left
    BY <1>7 DEF vars, schedVars, mutexVars, clientVars
  <2> QED BY <1>0, <1>1, <2>1, MutexFrame
<1> QED BY <1>2, <1>3, <1>4, <1>5, <1>6, <1>7 DEF NextTasks

(***************************************************************************)
(* The theorems                                                            *)
(***************************************************************************)

\* The tasks, whatever they do between their sleeps, are a case of the
\* scheduler running arbitrary calls: the detailed system implements Spec.
THEOREM TasksImplementScheduler == SpecTasks => Spec
<1>1. InitTasks => Init
  BY DEF InitTasks
<1>2. TasksInv /\ [NextTasks]_vars => [Next]_schedVars
  BY StepImplements DEF TasksInv
<1> QED BY <1>1, <1>2, InitTasksInv, TasksInvStep, PTL DEF SpecTasks, Spec

\* Every table and every task's place keeps its type, and only created,
\* ready tasks run.
THEOREM TasksSafe == SpecTasks => [](TypeOK /\ ClientTypeOK /\ CurrentRunnable)
<1>1. TasksInv => TypeOK /\ ClientTypeOK /\ CurrentRunnable
  BY DEF TasksInv, SchedInv, ClientInv
<1> QED BY <1>1, InitTasksInv, TasksInvStep, PTL DEF SpecTasks

\* No two tasks are ever in the middle of uart_puts or inside a section
\* whose ceiling is 0, with any number of tasks, whatever is preempted,
\* evicted or woken meanwhile.
THEOREM ConsoleExclusion == SpecTasks => []TopSectionExclusion
<1>1. TasksInv => TopSectionExclusion
  BY DEF TasksInv, TopRuns, TopSectionExclusion
<1> QED BY <1>1, InitTasksInv, TasksInvStep, PTL DEF SpecTasks

\* With no supervised user, dhruva_mutex_lock keeps what its comment
\* promises for any number of tasks and mutexes: whoever runs inside a mutex
\* section owns the mutex, resumed from the blocked path or not.
THEOREM BlockingMutexOwned ==
    ASSUME MutexUsersUnsupervised
    PROVE  SpecTasks => []RunnerOwnsMutex
<1>1. TasksInv /\ MutexInv => RunnerOwnsMutex
  <2> SUFFICES ASSUME TasksInv, MutexInv, section[current_task] \in Mutexes
               PROVE  mutex_owner[section[current_task]] = current_task
    BY DEF RunnerOwnsMutex
  <2>1. started
    BY ClientAssumption
       DEF TasksInv, ClientInv, OutsideAtBoot, SchedInv, TypeOK
  <2> QED BY <2>1, RunnerNotWaiting
<1> QED
  BY <1>1, InitTasksInv, TasksInvStep, InitMutexInv, MutexInvStep, PTL
     DEF SpecTasks

\* Under the same condition no wakeup is lost: every waiter is blocked on a
\* mutex whose owner is another task still inside its section.
THEOREM NoWakeupLost ==
    ASSUME MutexUsersUnsupervised
    PROVE  SpecTasks => []NoLostWakeup
<1>1. TasksInv /\ MutexInv => NoLostWakeup
  BY DEF MutexInv, OwnerInside, WaiterBlocked, NoLostWakeup
<1> QED
  BY <1>1, InitTasksInv, TasksInvStep, InitMutexInv, MutexInvStep, PTL
     DEF SpecTasks

(***************************************************************************)
(* Each mutex implements HandoffLock                                       *)
(***************************************************************************)

\* A reschedule gives the processor to a task that does not wait.
LEMMA NextRunnerFree ==
    ASSUME MutexUsersUnsupervised, TasksInv, MutexInv, [NextTasks]_vars,
           started', NEW m \in Mutexes
    PROVE  current_task' \in Task \ mutex_waiters'[m]
<1>1. TasksInv' /\ MutexInv'
  BY TasksInvStep, MutexInvStep
<1>2. Ready(sleep_left, current_task)' /\ current_task' \in Task
  BY <1>1 DEF TasksInv, SchedInv, CurrentRunnable, TypeOK
<1>3. 0 # Never
  BY DEF Never
<1>4. \A w \in mutex_waiters'[m] : sleep_left'[w] = Never
  BY <1>1 DEF MutexInv, WaiterBlocked
<1> QED BY <1>2, <1>3, <1>4 DEF Ready

LEMMA AbstractStep ==
    ASSUME MutexUsersUnsupervised, NEW m \in Mutexes
    PROVE  TasksInv /\ MutexInv /\ [NextTasks]_vars
               => [Abstract(m)!Next]_(Abstract(m)!lockVars)
<1> SUFFICES ASSUME TasksInv, MutexInv, [NextTasks]_vars
             PROVE  [Abstract(m)!Next]_(Abstract(m)!lockVars)
  OBVIOUS
<1>0. TypeOK /\ TypeOK'
  BY TasksInvStep DEF TasksInv, SchedInv
<1>1. UNCHANGED <<mutex_owner, mutex_waiters, base_prio>> /\ started'
          => Abstract(m)!Dispatch
  BY NextRunnerFree DEF Abstract!Dispatch
<1>2. CASE Boot /\ UNCHANGED clientVars
  <2>1. ~started /\ UNCHANGED <<mutex_owner, mutex_waiters>>
    BY <1>2 DEF Boot, TaskCreate, StartMultitasking, mutexVars
  <2>2. mutex_owner[m] = NoOwner
    <3>1. mutex_owner[m] \in Task => section[mutex_owner[m]] = NoSection
      BY <2>1 DEF TasksInv, ClientInv, OutsideAtBoot
    <3>2. NoSection \notin Mutexes
      BY ClientAssumption
    <3> QED BY <1>0, <3>1, <3>2 DEF MutexInv, OwnerInside, TypeOK
  <2>3. mutex_waiters[m] = {}
    BY <2>2 DEF MutexInv, WaiterBlocked
  <2>4. base_prio' \in [Task -> Nat]
    BY <1>0, ConstantFacts DEF TypeOK
  <2>5. CASE \E p \in CreatePrios : TaskCreate(p)
    <3>1. current_task' = current_task
      BY <2>5 DEF TaskCreate, pickVars
    <3> QED BY <2>1, <2>2, <2>3, <2>4, <3>1 DEF Abstract!Next, Abstract!SetUrgency
  <2>6. CASE StartMultitasking
    <3>1. current_task = 0
      BY <2>1 DEF TasksInv, BootTask
    <3>2. current_task' = current_task
      BY <2>6, <3>1 DEF StartMultitasking
    <3> QED BY <2>1, <2>2, <2>3, <2>4, <3>2 DEF Abstract!Next, Abstract!SetUrgency
  <2> QED BY <1>2, <2>5, <2>6 DEF Boot
<1>3. ASSUME NEW t \in Task,
             \/ ConsoleLock(t) \/ ConsoleUnlock(t) \/ SectionLeave(t)
             \/ \E r \in Sections : SectionEnter(t, r)
      PROVE  Abstract(m)!Dispatch
  <2>1. /\ started' /\ UNCHANGED <<mutex_owner, mutex_waiters, base_prio>>
    BY <1>3 DEF ConsoleLock, ConsoleUnlock, SectionLeave, SectionEnter, PrioLock,
                PrioUnlock, mutexVars
  <2> QED BY <1>1, <2>1
<1>4. ASSUME NEW t \in Task, ConsoleBegin(t) \/ Rest(t)
      PROVE  Abstract(m)!Dispatch
  <2>1. /\ started' /\ UNCHANGED <<mutex_owner, mutex_waiters, base_prio>>
    <3>1. CASE ConsoleBegin(t)
      BY <3>1 DEF ConsoleBegin, schedVars, mutexVars
    <3>2. CASE Rest(t)
      <4>1. PICK n \in SleepTicks : Sleep(n)
        BY <3>2 DEF Rest
      <4> QED BY <4>1 DEF Sleep, mutexVars
    <3> QED BY <1>4, <3>1, <3>2
  <2> QED BY <1>1, <2>1
<1>5. CASE TimerTick \/ OtherIrq
  <2>1. /\ started' /\ UNCHANGED <<mutex_owner, mutex_waiters, base_prio>>
    BY <1>5 DEF TimerTick, OtherIrq, Interrupt, mutexVars
  <2> QED BY <1>1, <2>1 DEF Abstract!Next
<1>6. CASE UNCHANGED vars
  BY <1>6 DEF vars, schedVars, mutexVars, pickVars, Abstract!lockVars
<1>7. ASSUME NEW t \in Task, NEW k \in Mutexes, Lock(t, k)
      PROVE  Abstract(m)!Next
  <2>1. /\ t = current_task /\ section[t] \notin Mutexes
    BY <1>7, ClientAssumption DEF Lock, Calm
  <2>2. CASE k # m
    <3>1. started' /\ base_prio' = base_prio
          /\ mutex_owner'[m] = mutex_owner[m] /\ mutex_waiters'[m] = mutex_waiters[m]
      BY <1>0, <1>7, <2>2 DEF Lock, MutexLock, MutexAcquire, MutexBlock, TypeOK
    <3>2. current_task' \in Task \ mutex_waiters'[m]
      BY <3>1, NextRunnerFree
    <3> QED BY <3>1, <3>2 DEF Abstract!Next, Abstract!Dispatch
  <2>3. CASE k = m /\ MutexAcquire(m)
    BY <1>0, <2>1, <2>3
       DEF MutexAcquire, pickVars, TypeOK, Abstract!Next, Abstract!Acquire
  <2>4. CASE k = m /\ MutexBlock(m)
    <3>1. /\ mutex_owner[m] # NoOwner
          /\ mutex_waiters' = [mutex_waiters EXCEPT ![m] = @ \cup {t}]
          /\ UNCHANGED <<mutex_owner, base_prio>> /\ started'
      BY <2>1, <2>4 DEF MutexBlock
    <3>2. mutex_owner[m] # t
      BY <2>1, <3>1 DEF MutexInv, OwnerInside
    <3>3. current_task' \in Task \ mutex_waiters'[m]
      BY <3>1, NextRunnerFree
    <3> QED BY <1>0, <2>1, <3>1, <3>2, <3>3
            DEF TypeOK, Abstract!Next, Abstract!Wait
  <2> QED BY <1>7, <2>2, <2>3, <2>4 DEF Lock, MutexLock
<1>8. ASSUME NEW t \in Task, Unlock(t)
      PROVE  Abstract(m)!Next
  <2> DEFINE k == section[t]
  <2>1. t = current_task /\ k \in Mutexes /\ MutexUnlock(k)
    BY <1>8 DEF Unlock, Calm
  <2>2. started /\ started' /\ UNCHANGED <<pickVars, base_prio>>
    <3>1. \A j : MutexUnlock(j) => started /\ started' /\ UNCHANGED <<pickVars, base_prio>>
      BY DEF MutexUnlock, MutexRelease, MutexHandoff
    <3> QED BY <2>1, <3>1
  <2> HIDE DEF k
  <2>3. CASE k # m
    <3>1. mutex_owner'[m] = mutex_owner[m] /\ mutex_waiters'[m] = mutex_waiters[m]
      BY <1>0, <2>1, <2>3 DEF MutexUnlock, MutexRelease, MutexHandoff, TypeOK
    <3>2. current_task' \in Task \ mutex_waiters'[m]
      BY <2>2, NextRunnerFree
    <3> QED BY <2>2, <3>1, <3>2 DEF Abstract!Next, Abstract!Dispatch
  <2>4. CASE k = m
    <3>1. mutex_owner[m] = t
      BY <2>1, <2>2, <2>4, RunnerNotWaiting DEF k
    <3>2. CASE MutexRelease(m)
      BY <1>0, <2>1, <2>2, <3>1, <3>2
         DEF MutexRelease, pickVars, TypeOK, Abstract!Next, Abstract!Release
    <3>3. CASE MutexHandoff(m)
      <4>1. /\ mutex_owner' = [mutex_owner EXCEPT ![m] = NextOwner(m)]
            /\ mutex_waiters' = [mutex_waiters EXCEPT ![m] = @ \ {NextOwner(m)}]
            /\ mutex_waiters[m] # {}
        BY <3>3 DEF MutexHandoff
      <4>2. /\ NextOwner(m) \in mutex_waiters[m]
            /\ \A v \in mutex_waiters[m] : base_prio[NextOwner(m)] <= base_prio[v]
        BY <1>0, <4>1, NextOwnerWaits
      <4> QED BY <1>0, <2>1, <2>2, <3>1, <4>1, <4>2
              DEF pickVars, TypeOK, Abstract!Next, Abstract!Handoff
    <3> QED BY <2>1, <2>4, <3>2, <3>3 DEF MutexUnlock
  <2> QED BY <2>3, <2>4
<1> QED
  BY <1>2, <1>3, <1>4, <1>5, <1>6, <1>7, <1>8
     DEF NextTasks, Proceed, Request, Abstract!Next

\* With no supervised user, every mutex is a HandoffLock: it is never free
\* while a task waits, only its running owner gives it up, and it goes to a
\* most urgent waiter.
THEOREM MutexImplementsHandoffLock ==
    ASSUME MutexUsersUnsupervised, NEW m \in Mutexes
    PROVE  SpecTasks => Abstract(m)!Spec
<1>1. InitTasks => Abstract(m)!Init
  BY InitTasksInv, ConstantFacts
     DEF InitTasks, Init, Abstract!Init, TasksInv, SchedInv, TypeOK
<1>2. TasksInv /\ MutexInv /\ [NextTasks]_vars
          => [Abstract(m)!Next]_(Abstract(m)!lockVars)
  BY AbstractStep
<1> QED
  BY <1>1, <1>2, InitTasksInv, TasksInvStep, InitMutexInv, MutexInvStep,
     PTL DEF SpecTasks, Abstract!Spec

(***************************************************************************)
(* Boosts end                                                              *)
(***************************************************************************)

\* Outside the mutexes and the ceiling sections a task has its own priority
\* and uart_puts has read no other.
AtBase(t) ==
    section[t] = NoSection /\ eff_prio[t] # Unused
        => /\ console[t] # "in" => eff_prio[t] = base_prio[t]
           /\ console[t] # "out" => saved_prio[t] = base_prio[t]

BoostInv ==
    /\ ~started => \A t \in Task \ Fixed :
                       eff_prio[t] # Unused => eff_prio[t] = base_prio[t]
    /\ started => \A t \in Task : AtBase(t)

LEMMA InitBoostInv == InitTasks => BoostInv
BY DEF InitTasks, Init, BoostInv

\* A step that settles the case of one task and leaves the others alone.
LEMMA BoostFrame ==
    ASSUME BoostInv, started, started', NEW t \in Task, AtBase(t)',
           \A u \in Task \ {t} :
               /\ section'[u] = section[u] /\ console'[u] = console[u]
               /\ saved_prio'[u] = saved_prio[u]
               /\ eff_prio'[u] = eff_prio[u] \/ section[u] # NoSection,
           base_prio' = base_prio
    PROVE  BoostInv'
<1>1. \A u \in Task \ {t} : AtBase(u)'
  BY DEF BoostInv, AtBase
<1> QED BY <1>1 DEF BoostInv

\* The same for a step that moves no task and lends or restores nothing.
LEMMA BoostKept ==
    ASSUME BoostInv, started, started', UNCHANGED <<clientVars, eff_prio, base_prio>>
    PROVE  BoostInv'
BY DEF BoostInv, AtBase, clientVars

LEMMA BootBoostInv ==
    ASSUME TasksInv, BoostInv, Boot, UNCHANGED clientVars
    PROVE  BoostInv'
<1>0. TypeOK
  BY DEF TasksInv, SchedInv
<1>1. ASSUME NEW p \in CreatePrios, TaskCreate(p) PROVE BoostInv'
  <2>1. PICK u \in FreeSlots :
            /\ eff_prio' = [eff_prio EXCEPT ![u] = p]
            /\ base_prio' = [base_prio EXCEPT ![u] = p]
    BY <1>1 DEF TaskCreate
  <2>2. ~started /\ ~started'
    BY <1>1 DEF TaskCreate
  <2> QED BY <1>0, <2>1, <2>2 DEF BoostInv, TypeOK
<1>2. CASE StartMultitasking
  <2>1. ~started /\ started'
    BY <1>2 DEF StartMultitasking
  <2>2. \A t \in Task : console'[t] = "out"
    BY <2>1 DEF TasksInv, ClientInv, OutsideAtBoot, clientVars
  <2>3. ASSUME NEW t \in Task, eff_prio'[t] # Unused
        PROVE  eff_prio'[t] = base_prio'[t]
    BY <1>2, <2>1, <2>3 DEF StartMultitasking, BoostInv
  <2> QED BY <2>1, <2>2, <2>3 DEF BoostInv, AtBase
<1> QED BY <1>1, <1>2 DEF Boot

\* Only the outermost dhruva_prio_unlock restores, and it does restore.
LEMMA PrioUnlockRestores ==
    ASSUME TypeOK, NEW p, PrioUnlock(p), ceiling_depth[current_task] = 1
    PROVE  eff_prio'[current_task] = p
BY DEF PrioUnlock, TypeOK

LEMMA ConsoleBoostInv ==
    ASSUME TasksInv, BoostInv, NEW t \in Task,
           ConsoleBegin(t) \/ ConsoleLock(t) \/ ConsoleUnlock(t)
    PROVE  BoostInv'
<1>0. TypeOK /\ ClientTypeOK
  BY DEF TasksInv, SchedInv, ClientInv
<1>1. /\ started /\ started' /\ t = current_task /\ eff_prio[t] # Unused
      /\ section' = section /\ base_prio' = base_prio
  BY DEF ConsoleBegin, ConsoleLock, ConsoleUnlock, PrioLock, PrioUnlock, schedVars,
         TasksInv, SchedInv, CurrentRunnable
<1>2. AtBase(t)
  BY <1>1 DEF BoostInv
<1>3. CASE ConsoleBegin(t)
  <2>1. /\ console[t] = "out" /\ console' = [console EXCEPT ![t] = "saved"]
        /\ saved_prio' = [saved_prio EXCEPT ![t] = eff_prio[t]]
        /\ eff_prio' = eff_prio
    BY <1>3 DEF ConsoleBegin, schedVars
  <2>2. AtBase(t)'
    BY <1>0, <1>1, <1>2, <2>1 DEF AtBase, ClientTypeOK
  <2> QED BY <1>0, <1>1, <2>1, <2>2, BoostFrame DEF ClientTypeOK
<1>4. CASE ConsoleLock(t)
  <2>1. /\ console[t] = "saved" /\ console' = [console EXCEPT ![t] = "in"]
        /\ saved_prio' = saved_prio
        /\ eff_prio' = [eff_prio EXCEPT ![t] = ConsoleCeiling]
    BY <1>1, <1>4 DEF ConsoleLock, PrioLock
  <2>2. AtBase(t)'
    BY <1>0, <1>1, <1>2, <2>1 DEF AtBase, ClientTypeOK
  <2> QED BY <1>0, <1>1, <2>1, <2>2, BoostFrame DEF ClientTypeOK, TypeOK
<1>5. CASE ConsoleUnlock(t)
  <2>1. /\ console[t] = "in" /\ console' = [console EXCEPT ![t] = "out"]
        /\ saved_prio' = [saved_prio EXCEPT ![t] = 0]
        /\ PrioUnlock(saved_prio[t])
    BY <1>5 DEF ConsoleUnlock
  <2>2. \A u \in Task \ {t} : eff_prio'[u] = eff_prio[u]
    BY <1>0, <1>1, <2>1 DEF PrioUnlock, TypeOK
  <2>3. CASE section[t] = NoSection
    <3>1. ceiling_depth[t] = 1
      BY <2>1, <2>3, ClientAssumption
         DEF TasksInv, ClientInv, OuterAroundMutex, DepthCounts, One
    <3>2. eff_prio'[t] = saved_prio[t]
      BY <1>0, <1>1, <2>1, <3>1, PrioUnlockRestores
    <3>3. AtBase(t)'
      BY <1>0, <1>1, <1>2, <2>1, <2>3, <3>2 DEF AtBase, ClientTypeOK
    <3> QED BY <1>0, <1>1, <2>1, <2>2, <3>3, BoostFrame DEF ClientTypeOK
  <2>4. CASE section[t] # NoSection
    <3>1. AtBase(t)'
      BY <1>1, <2>4 DEF AtBase
    <3> QED BY <1>0, <1>1, <2>1, <2>2, <3>1, BoostFrame DEF ClientTypeOK
  <2> QED BY <2>3, <2>4
<1> QED BY <1>3, <1>4, <1>5

LEMMA SectionBoostInv ==
    ASSUME TasksInv, BoostInv, NEW t \in Task,
           SectionLeave(t) \/ \E r \in Sections : SectionEnter(t, r)
    PROVE  BoostInv'
<1>0. TypeOK /\ ClientTypeOK
  BY DEF TasksInv, SchedInv, ClientInv
<1>1. /\ started /\ started' /\ t = current_task /\ console[t] = "out"
      /\ UNCHANGED <<console, saved_prio, base_prio>>
  BY DEF SectionLeave, SectionEnter, Calm, PrioLock, PrioUnlock
<1>2. \A u \in Task \ {t} : eff_prio'[u] = eff_prio[u] /\ section'[u] = section[u]
  BY <1>0, <1>1
     DEF SectionLeave, SectionEnter, PrioLock, PrioUnlock, TypeOK, ClientTypeOK
<1>3. AtBase(t)'
  <2>1. ASSUME NEW r \in Sections, SectionEnter(t, r) PROVE AtBase(t)'
    BY <1>0, <2>1, ClientAssumption DEF SectionEnter, AtBase, ClientTypeOK
  <2>2. CASE SectionLeave(t)
    <3>1. section[t] \in Sections /\ PrioUnlock(base_prio[t])
      BY <2>2 DEF SectionLeave
    <3>2. ceiling_depth[t] = 1
      BY <1>1, <3>1, ClientAssumption
         DEF TasksInv, ClientInv, OuterAroundMutex, DepthCounts, One
    <3>3. eff_prio'[t] = base_prio[t]
      BY <1>0, <1>1, <3>1, <3>2, PrioUnlockRestores
    <3> QED BY <1>1, <3>3 DEF AtBase
  <2> QED BY <2>1, <2>2
<1> QED BY <1>1, <1>2, <1>3, BoostFrame

\* A priority is lent to the owner of a mutex, who is inside its section.
LEMMA LockBoostInv ==
    ASSUME TasksInv, MutexInv, BoostInv, NEW t \in Task, NEW m \in Mutexes, Lock(t, m)
    PROVE  BoostInv'
<1>0. TypeOK /\ ClientTypeOK
  BY DEF TasksInv, SchedInv, ClientInv
<1>1. /\ started /\ started' /\ t = current_task
      /\ section' = [section EXCEPT ![t] = m]
      /\ UNCHANGED <<console, saved_prio, base_prio>>
  BY DEF Lock, Calm, MutexLock, MutexAcquire, MutexBlock
<1>2. m # NoSection
  BY ClientAssumption
<1>3. AtBase(t)'
  BY <1>0, <1>1, <1>2 DEF AtBase, ClientTypeOK
<1>4. \A u \in Task : eff_prio'[u] = eff_prio[u] \/ section[u] # NoSection
  <2>1. CASE MutexAcquire(m)
    BY <2>1 DEF MutexAcquire
  <2>2. CASE MutexBlock(m)
    <3> DEFINE owner == mutex_owner[m]
    <3>1. section[owner] = m
      BY <2>2 DEF MutexBlock, MutexInv, OwnerInside
    <3>2. \E lent : eff_prio' = [eff_prio EXCEPT ![owner] = lent]
      BY <2>2 DEF MutexBlock, Reschedule
    <3> QED BY <1>0, <1>2, <3>1, <3>2 DEF TypeOK
  <2> QED BY <2>1, <2>2 DEF Lock, MutexLock
<1> QED BY <1>0, <1>1, <1>3, <1>4, BoostFrame DEF ClientTypeOK

LEMMA UnlockBoostInv ==
    ASSUME TasksInv, BoostInv, NEW t \in Task, Unlock(t)
    PROVE  BoostInv'
<1>0. TypeOK /\ ClientTypeOK
  BY DEF TasksInv, SchedInv, ClientInv
<1>1. /\ t = current_task /\ console[t] = "out"
      /\ section[t] \in Mutexes /\ section' = [section EXCEPT ![t] = outer[t]]
      /\ UNCHANGED <<console, saved_prio>> /\ MutexUnlock(section[t])
  BY DEF Unlock, Calm
<1>2. started /\ started' /\ base_prio' = base_prio /\ eff_prio' = PrioAfterUnlock
  <2>1. \A m : MutexUnlock(m) => /\ started /\ started' /\ base_prio' = base_prio
                                 /\ eff_prio' = PrioAfterUnlock
    BY DEF MutexUnlock, MutexRelease, MutexHandoff
  <2> QED BY <1>1, <2>1
<1>3. \A u \in Task \ {t} : eff_prio'[u] = eff_prio[u] /\ section'[u] = section[u]
  BY <1>0, <1>1, <1>2 DEF PrioAfterUnlock, TypeOK, ClientTypeOK
<1>4. AtBase(t)'
  <2>1. CASE outer[t] = NoSection
    <3>1. ceiling_depth[t] = 0
      BY <1>1, <2>1, ClientAssumption DEF TasksInv, ClientInv, DepthCounts, One
    <3>2. eff_prio'[t] = base_prio[t]
      BY <1>0, <1>1, <1>2, <3>1 DEF PrioAfterUnlock, TypeOK
    <3> QED BY <1>1, <1>2, <3>2 DEF AtBase
  <2>2. CASE outer[t] # NoSection
    BY <1>0, <1>1, <2>2 DEF AtBase, ClientTypeOK
  <2> QED BY <2>1, <2>2
<1> QED BY <1>1, <1>2, <1>3, <1>4, BoostFrame

LEMMA BoostInvStep == TasksInv /\ MutexInv /\ BoostInv /\ [NextTasks]_vars => BoostInv'
<1> SUFFICES ASSUME TasksInv, MutexInv, BoostInv, [NextTasks]_vars PROVE BoostInv'
  OBVIOUS
<1>1. CASE Boot /\ UNCHANGED clientVars
  BY <1>1, BootBoostInv
<1>2. ASSUME NEW t \in Task, Proceed(t) \/ Request(t) PROVE BoostInv'
  BY <1>2, ConsoleBoostInv, SectionBoostInv, LockBoostInv, UnlockBoostInv
     DEF Proceed, Request
<1>3. ASSUME NEW t \in Task, Rest(t) PROVE BoostInv'
  BY <1>3, BoostKept DEF Rest, Sleep, Reschedule
<1>4. CASE TimerTick \/ OtherIrq
  BY <1>4, BoostKept DEF TimerTick, OtherIrq, Interrupt, Reschedule
<1>5. CASE UNCHANGED vars
  BY <1>5 DEF vars, schedVars, clientVars, BoostInv, AtBase
<1> QED BY <1>1, <1>2, <1>3, <1>4, <1>5 DEF NextTasks

\* With no supervised mutex user, no boost outlives what it was for: a task
\* outside every section has its own priority and no section counted, after
\* any nesting of sections, mutexes and uart_puts and any lending.
THEOREM BoostsEnd ==
    ASSUME MutexUsersUnsupervised
    PROVE  SpecTasks => []BoostEnds
<1>1. TasksInv /\ BoostInv => BoostEnds
  <2> SUFFICES ASSUME TasksInv, BoostInv, started, NEW t \in Task,
                      eff_prio[t] # Unused, section[t] = NoSection, console[t] # "in"
               PROVE  eff_prio[t] = base_prio[t] /\ ceiling_depth[t] = 0
    BY DEF BoostEnds
  <2>1. outer[t] = NoSection
    BY ClientAssumption DEF TasksInv, ClientInv, OuterAroundMutex
  <2>2. ceiling_depth[t] = 0
    BY <2>1, ClientAssumption DEF TasksInv, ClientInv, DepthCounts, One
  <2> QED BY <2>2 DEF BoostInv, AtBase
<1> QED
  BY <1>1, InitTasksInv, TasksInvStep, InitMutexInv, MutexInvStep, InitBoostInv,
     BoostInvStep, PTL DEF SpecTasks

(***************************************************************************)
(* Priority inheritance                                                    *)
(***************************************************************************)

\* No user of a mutex prints.  One that does may read its priority before a
\* waiter lends it a better one and write the old one back after.
MutexUsersSilent == \A m \in Mutexes : Users[m] \cap ConsoleUsers = {}

\* A section a mutex may be taken in has a ceiling none of its users beats.
CeilingsReachUsers ==
    \A r \in OuterSections : \A t \in Users[r] :
        IF t \in Fixed THEN Ceiling[r] <= FixedPrio[t]
        ELSE \A p \in CreatePrios : Ceiling[r] <= p

\* Base priorities are the ones tasks are created and started with, and only
\* created tasks enter anything.
BaseSettled ==
    \A t \in Task :
        /\ t \in Fixed /\ started => base_prio[t] = FixedPrio[t]
        /\ t \notin Fixed /\ eff_prio[t] # Unused => base_prio[t] \in CreatePrios
        /\ section[t] # NoSection => eff_prio[t] # Unused

\* Who never prints is never in uart_puts, and is boosted, if anything,
\* inside a mutex or a section around one.
SilentAtMostBase ==
    \A t \in Task \ ConsoleUsers :
        /\ console[t] = "out"
        /\ section[t] \in Mutexes \cup OuterSections => eff_prio[t] <= base_prio[t]

InheritInv == BaseSettled /\ SilentAtMostBase /\ OwnerInheritsPrio

\* Priorities are numbers.
LEMMA PrioNumbers ==
    ASSUME TypeOK, NEW t \in Task
    PROVE  eff_prio[t] \in Nat /\ base_prio[t] \in Nat
<1>1. eff_prio[t] \in Prio \cup {Unused} /\ base_prio[t] \in Prio
  BY DEF TypeOK
<1> QED BY <1>1, ConstantFacts

LEMMA InitInheritInv == InitTasks => InheritInv
<1> SUFFICES ASSUME InitTasks PROVE InheritInv
  OBVIOUS
<1>1. \A t \in Task : section[t] = NoSection
  BY DEF InitTasks
<1>2. NoSection \notin Mutexes \cup OuterSections
  BY ClientAssumption
<1> QED
  BY <1>1, <1>2 DEF InitTasks, Init, InheritInv, BaseSettled, SilentAtMostBase,
                   OwnerInheritsPrio

\* A running task that is in no mutex owns none.
LEMMA OutsiderOwnsNone ==
    ASSUME MutexInv, TypeOK, NEW t \in Task, section[t] \notin Mutexes
    PROVE  \A m \in Mutexes : \A w \in mutex_waiters[m] :
               mutex_owner[m] \in Task \ {t} /\ w \in Task \ {t}
BY DEF MutexInv, OwnerInside, WaiterBlocked, TypeOK

\* A step of a task t that is in no mutex, before or after, and that settles
\* t's own case.
LEMMA InheritFrame ==
    ASSUME InheritInv, MutexInv, TypeOK, started, started', NEW t \in Task,
           section[t] \notin Mutexes,
           UNCHANGED <<mutex_owner, mutex_waiters, base_prio>>,
           \A u \in Task \ {t} : /\ section'[u] = section[u]
                                 /\ console'[u] = console[u]
                                 /\ eff_prio'[u] = eff_prio[u],
           eff_prio[t] # Unused, eff_prio'[t] # Unused,
           t \notin ConsoleUsers
               => /\ console'[t] = "out"
                  /\ section'[t] \in Mutexes \cup OuterSections
                         => eff_prio'[t] <= base_prio[t]
    PROVE  InheritInv'
<1>1. BaseSettled'
  BY DEF InheritInv, BaseSettled
<1>2. SilentAtMostBase'
  BY DEF InheritInv, SilentAtMostBase
<1>3. OwnerInheritsPrio'
  BY OutsiderOwnsNone DEF InheritInv, OwnerInheritsPrio
<1> QED BY <1>1, <1>2, <1>3 DEF InheritInv

\* A step that moves nobody and neither lends nor restores.
LEMMA InheritKept ==
    ASSUME InheritInv, started, started',
           UNCHANGED <<clientVars, eff_prio, base_prio, mutex_owner, mutex_waiters>>
    PROVE  InheritInv'
BY DEF InheritInv, BaseSettled, SilentAtMostBase, OwnerInheritsPrio, clientVars

LEMMA BootInheritInv ==
    ASSUME TasksInv, MutexInv, InheritInv, Boot, UNCHANGED clientVars
    PROVE  InheritInv'
<1>0. TypeOK /\ ~started /\ UNCHANGED <<mutex_owner, mutex_waiters>>
  BY DEF TasksInv, SchedInv, Boot, TaskCreate, StartMultitasking, mutexVars
<1>1. /\ \A t \in Task : section'[t] = NoSection /\ console'[t] = "out"
      /\ NoSection \notin Mutexes \cup OuterSections
  BY <1>0, ClientAssumption DEF TasksInv, ClientInv, OutsideAtBoot, clientVars
<1>2. SilentAtMostBase'
  BY <1>1 DEF SilentAtMostBase
<1>3. OwnerInheritsPrio'
  <2>1. \A m \in Mutexes : mutex_waiters'[m] = {}
    BY <1>0, <1>1 DEF MutexInv, WaiterBlocked, TypeOK, clientVars
  <2> QED BY <2>1 DEF OwnerInheritsPrio
<1>4. BaseSettled'
  <2>1. ASSUME NEW p \in CreatePrios, TaskCreate(p) PROVE BaseSettled'
    <3>1. PICK u \in FreeSlots :
              /\ eff_prio' = [eff_prio EXCEPT ![u] = p]
              /\ base_prio' = [base_prio EXCEPT ![u] = p]
      BY <2>1 DEF TaskCreate
    <3>2. ~started' /\ u \in Task
      BY <2>1 DEF TaskCreate, FreeSlots
    <3> QED BY <1>0, <1>1, <3>1, <3>2 DEF InheritInv, BaseSettled, TypeOK
  <2>2. CASE StartMultitasking
    BY <1>1, <2>2 DEF StartMultitasking, InheritInv, BaseSettled
  <2> QED BY <2>1, <2>2 DEF Boot
<1> QED BY <1>2, <1>3, <1>4 DEF InheritInv

LEMMA SectionInheritInv ==
    ASSUME MutexUsersSilent, CeilingsReachUsers, TasksInv, MutexInv, InheritInv,
           NEW t \in Task,
           \/ ConsoleBegin(t) \/ ConsoleLock(t) \/ ConsoleUnlock(t)
           \/ SectionLeave(t) \/ \E r \in Sections : SectionEnter(t, r)
    PROVE  InheritInv'
<1>0. TypeOK /\ ClientTypeOK
  BY DEF TasksInv, SchedInv, ClientInv
<1>1. /\ started /\ started' /\ t = current_task /\ eff_prio[t] # Unused
      /\ UNCHANGED <<mutex_owner, mutex_waiters, base_prio>>
  BY DEF ConsoleBegin, ConsoleLock, ConsoleUnlock, SectionLeave, SectionEnter, Calm,
         PrioLock, PrioUnlock, schedVars, mutexVars, TasksInv, SchedInv,
         CurrentRunnable
<1>2. \A u \in Task \ {t} : /\ section'[u] = section[u] /\ console'[u] = console[u]
                            /\ eff_prio'[u] = eff_prio[u]
  BY <1>0, <1>1
     DEF ConsoleBegin, ConsoleLock, ConsoleUnlock, SectionLeave, SectionEnter,
         PrioLock, PrioUnlock, schedVars, TypeOK, ClientTypeOK
<1>6. eff_prio'[t] # Unused
  <2>1. /\ eff_prio[t] \in Prio /\ base_prio[t] \in Prio /\ saved_prio[t] \in Prio
        /\ ConsoleCeiling \in Prio /\ \A r \in Sections : Ceiling[r] \in Prio
    BY <1>0, <1>1, ClientAssumption, PrioAssumption DEF TypeOK, ClientTypeOK
  <2>2. eff_prio'[t] \in Prio
    BY <1>0, <1>1, <2>1
       DEF ConsoleBegin, ConsoleLock, ConsoleUnlock, SectionLeave, SectionEnter,
           PrioLock, PrioUnlock, schedVars, TypeOK
  <2> QED BY <2>2, ConstantFacts
<1>3. CASE ConsoleBegin(t) \/ ConsoleLock(t) \/ ConsoleUnlock(t)
  <2>1. t \in ConsoleUsers
    BY <1>3 DEF ConsoleBegin, ConsoleLock, ConsoleUnlock, InheritInv,
                SilentAtMostBase
  <2>2. section[t] \notin Mutexes
    BY <2>1 DEF MutexInv, OwnsOrWaits, MutexUsersSilent
  <2> QED BY <1>0, <1>1, <1>2, <1>6, <2>1, <2>2, InheritFrame
<1>4. CASE SectionLeave(t)
  <2>1. section[t] \notin Mutexes /\ section'[t] = NoSection
        /\ console'[t] = "out" /\ NoSection \notin Mutexes \cup OuterSections
    BY <1>0, <1>4, ClientAssumption DEF SectionLeave, Calm, ClientTypeOK
  <2> QED BY <1>0, <1>1, <1>2, <1>6, <2>1, InheritFrame
<1>5. ASSUME NEW r \in Sections, SectionEnter(t, r) PROVE InheritInv'
  <2>1. /\ section[t] = NoSection /\ t \in Users[r] /\ section'[t] = r
        /\ eff_prio'[t] = Ceiling[r] /\ console'[t] = "out"
    BY <1>0, <1>1, <1>5 DEF SectionEnter, Calm, PrioLock, ClientTypeOK, TypeOK
  <2>2. NoSection \notin Mutexes /\ r \notin Mutexes
    BY ClientAssumption
  <2>3. r \in OuterSections => Ceiling[r] <= base_prio[t]
    BY <1>1, <2>1 DEF CeilingsReachUsers, InheritInv, BaseSettled
  <2> QED BY <1>0, <1>1, <1>2, <1>6, <2>1, <2>2, <2>3,
         InheritFrame
<1> QED BY <1>3, <1>4, <1>5

LEMMA LockInheritInv ==
    ASSUME MutexUsersSilent, TasksInv, MutexInv, BoostInv, InheritInv,
           NEW t \in Task, NEW m \in Mutexes, Lock(t, m)
    PROVE  InheritInv'
<1>0. TypeOK /\ ClientTypeOK
  BY DEF TasksInv, SchedInv, ClientInv
<1>1. /\ started /\ started' /\ t = current_task /\ eff_prio[t] # Unused
      /\ t \notin ConsoleUsers
      /\ section[t] \notin Mutexes
      /\ section' = [section EXCEPT ![t] = m]
      /\ UNCHANGED <<console, base_prio>>
  BY ClientAssumption
     DEF Lock, Calm, MutexLock, MutexAcquire, MutexBlock, MutexUsersSilent,
         TasksInv, SchedInv, CurrentRunnable
\* Outside every section it has its own priority, inside one no worse.
<1>2. eff_prio[t] <= base_prio[t]
  <2>1. console[t] = "out"
    BY DEF Lock, Calm
  <2>2. CASE section[t] = NoSection
    <3>1. eff_prio[t] = base_prio[t]
      BY <1>1, <2>1, <2>2 DEF BoostInv, AtBase
    <3> QED BY <1>0, <3>1, PrioNumbers, SMT
  <2>3. CASE section[t] \in OuterSections
    BY <1>1, <2>3 DEF InheritInv, SilentAtMostBase
  <2> QED BY <2>2, <2>3 DEF Lock
<1>3. \A k \in Mutexes : \A w \in mutex_waiters[k] :
          mutex_owner[k] \in Task \ {t} /\ w \in Task \ {t}
  BY <1>0, <1>1, OutsiderOwnsNone
<1>4. CASE MutexAcquire(m)
  <2>1. /\ mutex_owner[m] = NoOwner /\ UNCHANGED <<mutex_waiters, eff_prio>>
        /\ mutex_owner' = [mutex_owner EXCEPT ![m] = t]
    BY <1>1, <1>4 DEF MutexAcquire
  <2>2. mutex_waiters[m] = {}
    BY <2>1 DEF MutexInv, WaiterBlocked
  <2>3. BaseSettled' /\ SilentAtMostBase'
    BY <1>0, <1>1, <1>2, <2>1
       DEF InheritInv, BaseSettled, SilentAtMostBase, ClientTypeOK
  <2>4. OwnerInheritsPrio'
    BY <1>0, <1>1, <2>1, <2>2 DEF InheritInv, OwnerInheritsPrio, TypeOK
  <2> QED BY <2>3, <2>4 DEF InheritInv
<1>5. CASE MutexBlock(m)
  <2> DEFINE owner == mutex_owner[m]
             lent  == Min2(eff_prio[t], eff_prio[owner])
  <2>1. /\ owner # NoOwner /\ mutex_owner' = mutex_owner
        /\ mutex_waiters' = [mutex_waiters EXCEPT ![m] = @ \cup {t}]
        /\ eff_prio' = [eff_prio EXCEPT ![owner] = lent]
    BY <1>1, <1>5 DEF MutexBlock, Reschedule
  <2>2. owner \in Task /\ owner # t /\ section[owner] = m
    BY <1>0, <1>1, <2>1 DEF TypeOK, MutexInv, OwnerInside
  <2>3. lent <= eff_prio[t] /\ lent <= eff_prio[owner] /\ lent \in Nat
    BY <1>0, <2>2, PrioNumbers, SMT DEF Min2
  <2> HIDE DEF lent, owner
  <2>4. \A u \in Task : /\ eff_prio'[u] \in Nat /\ eff_prio'[u] <= eff_prio[u]
                         /\ eff_prio[u] \in Nat /\ base_prio[u] \in Nat
    BY <1>0, <2>1, <2>2, <2>3, PrioNumbers DEF TypeOK
  <2>5. \A a, b, c \in Nat : a <= b /\ b <= c => a <= c
    BY SMT
  <2>6. \A u \in Task : eff_prio[u] <= base_prio[u] => eff_prio'[u] <= base_prio[u]
    BY <2>4, <2>5
  <2>7. BaseSettled'
    <3>1. eff_prio[owner] # Unused /\ lent # Unused
      <4>1. m # NoSection
        BY ClientAssumption
      <4>2. eff_prio[owner] # Unused /\ eff_prio[t] \in Prio
        BY <1>0, <1>1, <2>2, <4>1 DEF InheritInv, BaseSettled, TypeOK
      <4>3. eff_prio[t] < Unused /\ Unused \in Nat
        BY <4>2, ConstantFacts, SMT DEF Prio
      <4> QED BY <1>0, <2>3, <4>2, <4>3, PrioNumbers, SMT
    <3> QED BY <1>0, <1>1, <2>1, <2>2, <3>1
            DEF InheritInv, BaseSettled, TypeOK, ClientTypeOK
  <2>8. SilentAtMostBase'
    BY <1>0, <1>1, <1>2, <2>6 DEF InheritInv, SilentAtMostBase, ClientTypeOK
  <2>9. OwnerInheritsPrio'
    <3> SUFFICES ASSUME NEW k \in Mutexes, NEW w \in mutex_waiters'[k]
                 PROVE  eff_prio'[mutex_owner[k]] <= base_prio[w]
      BY <1>1, <2>1 DEF OwnerInheritsPrio
    <3>1. CASE w \in mutex_waiters[k]
      <4>1. eff_prio[mutex_owner[k]] <= base_prio[w]
        BY <3>1 DEF InheritInv, OwnerInheritsPrio
      <4> QED BY <1>3, <2>4, <2>5, <3>1, <4>1
    <3>2. CASE w \notin mutex_waiters[k]
      <4>1. k = m /\ w = t
        BY <1>0, <2>1, <3>2 DEF TypeOK
      <4>2. mutex_owner[k] = owner /\ eff_prio'[owner] = lent
        BY <1>0, <2>1, <2>2, <4>1 DEF owner, TypeOK
      <4> QED BY <1>0, <1>2, <2>3, <2>4, <2>5, <4>1, <4>2
    <3> QED BY <3>1, <3>2
  <2> QED BY <2>7, <2>8, <2>9 DEF InheritInv
<1> QED BY <1>4, <1>5 DEF Lock, MutexLock

LEMMA UnlockInheritInv ==
    ASSUME MutexUsersSilent, TasksInv, MutexInv, InheritInv, NEW t \in Task, Unlock(t)
    PROVE  InheritInv'
<1> DEFINE m == section[t]
<1>0. TypeOK /\ ClientTypeOK
  BY DEF TasksInv, SchedInv, ClientInv
<1>1. /\ t = current_task /\ m \in Mutexes /\ MutexUnlock(m)
      /\ section' = [section EXCEPT ![t] = outer[t]] /\ console' = console
  BY DEF Unlock, Calm
<1>2. started /\ started' /\ base_prio' = base_prio /\ eff_prio' = PrioAfterUnlock
  <2>1. \A k : MutexUnlock(k) => /\ started /\ started' /\ base_prio' = base_prio
                                 /\ eff_prio' = PrioAfterUnlock
    BY DEF MutexUnlock, MutexRelease, MutexHandoff
  <2> QED BY <1>1, <2>1
<1>3. mutex_owner[m] = t /\ \A k \in Mutexes : t \notin mutex_waiters[k]
  BY <1>1, <1>2, RunnerNotWaiting
<1>4. \A k \in Mutexes : k # m =>
          \A w \in mutex_waiters[k] : mutex_owner[k] \in Task \ {t} /\ w \in Task
  BY <1>0 DEF MutexInv, OwnerInside, WaiterBlocked, TypeOK
<1> HIDE DEF m
<1>5. /\ \A u \in Task \ {t} : eff_prio'[u] = eff_prio[u] /\ section'[u] = section[u]
      /\ eff_prio'[t] = eff_prio[t] \/ eff_prio'[t] = base_prio[t]
      /\ section'[t] \notin Mutexes
  BY <1>0, <1>1, <1>2, ClientAssumption DEF PrioAfterUnlock, TypeOK, ClientTypeOK
<1>6. eff_prio[t] # Unused /\ base_prio[t] # Unused
  BY <1>0, <1>1, <1>2, ConstantFacts DEF TasksInv, SchedInv, CurrentRunnable, TypeOK
<1>7. BaseSettled'
  BY <1>2, <1>5, <1>6 DEF InheritInv, BaseSettled
<1>8. SilentAtMostBase'
  <2>1. base_prio[t] <= base_prio[t]
    BY <1>0, PrioNumbers, SMT
  <2> QED BY <1>1, <1>2, <1>5, <2>1 DEF m, InheritInv, SilentAtMostBase
<1>9. OwnerInheritsPrio'
  <2>1. CASE MutexRelease(m)
    <3>1. /\ mutex_waiters[m] = {} /\ mutex_waiters' = mutex_waiters
          /\ mutex_owner' = [mutex_owner EXCEPT ![m] = NoOwner]
      BY <2>1 DEF MutexRelease
    <3> QED BY <1>0, <1>2, <1>4, <1>5, <3>1
            DEF InheritInv, OwnerInheritsPrio, TypeOK
  <2>2. CASE MutexHandoff(m)
    <3> DEFINE w == NextOwner(m)
    <3>1. /\ mutex_waiters[m] # {}
          /\ mutex_owner' = [mutex_owner EXCEPT ![m] = w]
          /\ mutex_waiters' = [mutex_waiters EXCEPT ![m] = @ \ {w}]
      BY <2>2 DEF MutexHandoff
    <3>2. w \in mutex_waiters[m]
          /\ \A v \in mutex_waiters[m] : base_prio[w] <= base_prio[v]
      BY <1>0, <1>1, <3>1, NextOwnerWaits
    <3> HIDE DEF w
    <3>3. w \in Task /\ w # t /\ mutex_waiters[m] \subseteq Task
      BY <1>0, <1>1, <1>3, <3>2 DEF TypeOK
    \* The new owner waited at its own priority or better.
    <3>4. eff_prio[w] <= base_prio[w]
      <4>1. section[w] = m /\ w \in Users[m]
        BY <1>1, <3>2, <3>3 DEF MutexInv, WaiterBlocked, OwnsOrWaits
      <4> QED BY <1>1, <3>3, <4>1 DEF InheritInv, SilentAtMostBase, MutexUsersSilent
    <3> SUFFICES ASSUME NEW k \in Mutexes, NEW v \in mutex_waiters'[k]
                 PROVE  eff_prio'[mutex_owner'[k]] <= base_prio[v]
      BY <1>2 DEF OwnerInheritsPrio
    <3>5. CASE k = m
      <4>1. v \in mutex_waiters[m] /\ mutex_owner'[k] = w /\ eff_prio'[w] = eff_prio[w]
        BY <1>0, <1>1, <1>5, <3>1, <3>3, <3>5 DEF TypeOK
      <4>2. base_prio[w] <= base_prio[v] /\ v \in Task
        BY <3>2, <3>3, <4>1
      <4> QED BY <1>0, <3>3, <3>4, <4>1, <4>2, PrioNumbers, SMT
    <3>6. CASE k # m
      <4>1. v \in mutex_waiters[k] /\ mutex_owner'[k] = mutex_owner[k]
        BY <1>0, <1>1, <3>1, <3>6 DEF TypeOK
      <4> QED BY <1>4, <1>5, <3>6, <4>1 DEF InheritInv, OwnerInheritsPrio
    <3> QED BY <3>5, <3>6
  <2> QED BY <1>1, <2>1, <2>2 DEF MutexUnlock
<1> QED BY <1>7, <1>8, <1>9 DEF InheritInv

LEMMA InheritInvStep ==
    ASSUME MutexUsersSilent, CeilingsReachUsers
    PROVE  TasksInv /\ MutexInv /\ BoostInv /\ InheritInv /\ [NextTasks]_vars
               => InheritInv'
<1> SUFFICES ASSUME TasksInv, MutexInv, BoostInv, InheritInv, [NextTasks]_vars
             PROVE  InheritInv'
  OBVIOUS
<1>1. CASE Boot /\ UNCHANGED clientVars
  BY <1>1, BootInheritInv
<1>2. ASSUME NEW t \in Task, Proceed(t) \/ Request(t) PROVE InheritInv'
  BY <1>2, SectionInheritInv, LockInheritInv, UnlockInheritInv DEF Proceed, Request
<1>3. ASSUME NEW t \in Task, Rest(t) PROVE InheritInv'
  BY <1>3, InheritKept DEF Rest, Sleep, Reschedule, mutexVars
<1>4. CASE TimerTick \/ OtherIrq
  BY <1>4, InheritKept DEF TimerTick, OtherIrq, Interrupt, Reschedule, mutexVars
<1>5. CASE UNCHANGED vars
  BY <1>5 DEF vars, schedVars, mutexVars, clientVars, InheritInv, BaseSettled,
              SilentAtMostBase, OwnerInheritsPrio
<1> QED BY <1>1, <1>2, <1>3, <1>4, <1>5 DEF NextTasks

\* With silent, unsupervised mutex users, and ceilings that reach the users
\* of a section a mutex is taken in, the owner of a mutex runs at the
\* priority of its most urgent waiter or better from the moment that task
\* waits until the mutex is handed over, and so does each later owner.
THEOREM OwnersInherit ==
    ASSUME MutexUsersUnsupervised, MutexUsersSilent, CeilingsReachUsers
    PROVE  SpecTasks => []OwnerInheritsPrio
<1>1. InheritInv => OwnerInheritsPrio
  BY DEF InheritInv
<1> QED
  BY <1>1, InitTasksInv, TasksInvStep, InitMutexInv, MutexInvStep, InitBoostInv,
     BoostInvStep, InitInheritInv, InheritInvStep, PTL DEF SpecTasks

(***************************************************************************)
(* Aging bounds the wait                                                   *)
(***************************************************************************)

\* The scan starts just past its cursor, here any slot, and wraps around.
LEMMA ScanFrom ==
    ASSUME NEW c \in Task, NEW t \in Task
    PROVE  (t - c - 1) % MaxTasks = IF t > c THEN t - c - 1 ELSE t - c - 1 + MaxTasks
<1> DEFINE n == t - c - 1
           q == n \div MaxTasks
           r == n % MaxTasks
<1>1. MaxTasks \in Nat /\ MaxTasks > 0
  BY TasksAssumption
<1>2. t \in 0 .. MaxTasks - 1 /\ c \in 0 .. MaxTasks - 1
  BY DEF Task
<1>3. n \in Int /\ n < MaxTasks /\ n >= -MaxTasks /\ (n >= 0 <=> t > c)
  BY <1>1, <1>2
<1> HIDE DEF n
<1>4. q \in Int /\ r \in 0 .. MaxTasks - 1 /\ n = MaxTasks * q + r
  BY <1>1, <1>3
<1> HIDE DEF q, r
<1>5. q < 1
  <2>1. SUFFICES ASSUME q >= 1 PROVE FALSE
    BY <1>4
  <2>2. MaxTasks * q >= MaxTasks
    BY <1>1, <1>4, <2>1
  <2> QED BY <1>1, <1>3, <1>4, <2>2
<1>6. q > -2
  <2>1. SUFFICES ASSUME q <= -2 PROVE FALSE
    BY <1>4
  <2>2. MaxTasks * q <= MaxTasks * (-2)
    BY <1>1, <1>4, <2>1
  <2>3. MaxTasks * (-2) = -MaxTasks - MaxTasks
    BY <1>1
  <2> QED BY <1>1, <1>3, <1>4, <2>2, <2>3
<1>7. q = 0 \/ q = -1
  BY <1>4, <1>5, <1>6
<1>8. MaxTasks * 0 = 0 /\ MaxTasks * (-1) = -MaxTasks
  BY <1>1
<1>9. r = IF t > c THEN n ELSE n + MaxTasks
  BY <1>1, <1>3, <1>4, <1>7, <1>8
<1> QED BY <1>9 DEF n, r

\* One turn of the scan is all there is.
LEMMA ScanRange ==
    ASSUME TypeOK, NEW t \in Task
    PROVE  ScanDistance(t) \in 0 .. MaxTasks - 1
<1>1. rr_last_picked \in Task
  BY DEF TypeOK
<1>2. t \in 0 .. MaxTasks - 1 /\ rr_last_picked \in 0 .. MaxTasks - 1
  BY <1>1 DEF Task
<1> QED BY <1>1, <1>2, ScanFrom, TasksAssumption DEF ScanDistance

\* The wait that brings a task to the top.
ToTheTop(t) == AgingQuantum * base_prio[t]

LEMMA TopNumber ==
    ASSUME TypeOK, NEW t \in Task
    PROVE  ToTheTop(t) \in Nat
BY PrioNumbers, AgingAssumption DEF ToTheTop

\* After it, no other task's aged priority is better.
LEMMA TopContends ==
    ASSUME TypeOK, NEW sl, NEW ep \in [Task -> Prio \cup {Unused}],
           NEW t \in Task, Ready(sl, t),
           ep[t] <= base_prio[t], ready_wait[t] >= ToTheTop(t)
    PROVE  t \in Contenders(sl, ep)
<1> DEFINE bonus == ready_wait[t] \div AgingQuantum
           rest  == ready_wait[t] % AgingQuantum
<1>1. /\ ready_wait[t] \in Nat /\ base_prio[t] \in Nat
      /\ AgingQuantum \in Nat /\ AgingQuantum > 0
  BY PrioNumbers, AgingAssumption DEF TypeOK
<1>2. /\ bonus \in Int /\ rest \in 0 .. AgingQuantum - 1
      /\ ready_wait[t] = AgingQuantum * bonus + rest
  BY <1>1
<1>3. AgingQuantum * base_prio[t] <= ready_wait[t]
  BY <1>1 DEF ToTheTop
<1> HIDE DEF bonus, rest
<1>4. bonus >= base_prio[t]
  <2>1. SUFFICES ASSUME bonus + 1 <= base_prio[t] PROVE FALSE
    BY <1>1, <1>2
  <2>2. AgingQuantum * (bonus + 1) <= AgingQuantum * base_prio[t]
    BY <1>1, <1>2, <2>1
  <2>3. AgingQuantum * (bonus + 1) = AgingQuantum * bonus + AgingQuantum
    BY <1>1, <1>2
  <2>4. AgingQuantum * bonus \in Int /\ AgingQuantum * base_prio[t] \in Int
    BY <1>1, <1>2
  <2> QED BY <1>1, <1>2, <1>3, <2>2, <2>3, <2>4
<1>5. ep[t] \in Nat
  <2>1. ep[t] \in Prio \cup {Unused}
    OBVIOUS
  <2> QED BY <2>1, ConstantFacts
<1>6. Aged(ep, t) = 0
  <2>1. Aged(ep, t) = ep[t] - Min2(ep[t], bonus)
    BY DEF Aged, bonus
  <2> QED BY <1>1, <1>2, <1>4, <1>5, <2>1 DEF Min2
<1>7. \A u \in Task : Aged(ep, u) \in Nat
  BY AgedBounds DEF TypeOK
<1> QED BY <1>6, <1>7 DEF Contenders

\* Passed over at the top, a task is nearer to the cursor than before.
LEMMA TurnComesNearer ==
    ASSUME TypeOK,
           NEW sl \in [Task -> Nat \cup {Never}],
           NEW ep \in [Task -> Prio \cup {Unused}],
           Ready(sl, Idle), Reschedule(sl, ep), ~HolderKeepsTies(sl),
           NEW t \in Task, Ready(sl, t), ep[t] <= base_prio[t],
           ready_wait[t] >= ToTheTop(t), t # current_task'
    PROVE  ScanDistance(t)' < ScanDistance(t)
<1> DEFINE p == FairPick(sl, ep)
<1>1. current_task' = p /\ rr_last_picked' = p
  BY DEF Reschedule, PickNext
<1>2. p \in Contenders(sl, ep) /\ ScanDistance(p) <= ScanDistance(t)
  BY TopContends, FairPickContends DEF TypeOK
<1>3. p \in Task /\ p # t /\ rr_last_picked \in Task
  BY <1>1, <1>2 DEF Contenders, TypeOK
<1> HIDE DEF p
<1>4. /\ ScanDistance(t)' = IF t > p THEN t - p - 1 ELSE t - p - 1 + MaxTasks
      /\ ScanDistance(t) = IF t > rr_last_picked THEN t - rr_last_picked - 1
                           ELSE t - rr_last_picked - 1 + MaxTasks
      /\ ScanDistance(p) = IF p > rr_last_picked THEN p - rr_last_picked - 1
                           ELSE p - rr_last_picked - 1 + MaxTasks
  BY <1>1, <1>3, ScanFrom DEF ScanDistance
<1>5. /\ t \in 0 .. MaxTasks - 1 /\ p \in 0 .. MaxTasks - 1
      /\ rr_last_picked \in 0 .. MaxTasks - 1 /\ MaxTasks \in Nat
  BY <1>3, TasksAssumption DEF Task
<1> QED BY <1>2, <1>3, <1>4, <1>5

\* Without ceiling sections, uart_puts' included, aging is never suspended.
NoCeilings == Sections = {} /\ ConsoleUsers = {}

\* No task is ever less urgent than it was created.
NeverBelowBase ==
    \A t \in Task : eff_prio[t] # Unused => eff_prio[t] <= base_prio[t]

\* A task that is not ready slept or blocked while it ran: it has not waited.
WaitStartsAtZero ==
    /\ \A t \in Task \ {Idle} :
           HbBound[t] = 0 /\ ~Ready(sleep_left, t) => ready_wait[t] = 0
    /\ current_task # Idle => ready_wait[current_task] = 0
    /\ ~started => \A t \in Task : ready_wait[t] = 0

\* Once at the top, what a task has waited there and what the cursor is from
\* it are together less than one turn.
OneTurn(t) ==
    ready_wait[t] >= ToTheTop(t)
        => ready_wait[t] - ToTheTop(t) + ScanDistance(t) <= MaxTasks - 1

WaitInv ==
    /\ \A t \in Task : console[t] = "out"
    /\ NeverBelowBase
    /\ WaitStartsAtZero
    /\ \A t \in Task \ {Idle} :
           HbBound[t] = 0 /\ eff_prio[t] # Unused => OneTurn(t)

\* Nothing waited, nothing to show.
LEMMA NoWait ==
    ASSUME TypeOK, NEW t \in Task, ready_wait[t] = 0
    PROVE  OneTurn(t)
BY TopNumber, ScanRange, TasksAssumption DEF OneTurn

LEMMA InitWaitInv == InitTasks => WaitInv
<1> SUFFICES ASSUME InitTasks PROVE WaitInv
  OBVIOUS
<1>1. TypeOK
  BY InitTasksInv DEF TasksInv, SchedInv
<1>2. \A t \in Task : /\ ready_wait[t] = 0 /\ console[t] = "out"
                      /\ base_prio[t] = 0 /\ eff_prio[t] \in {0, Unused}
  BY DEF InitTasks, Init
<1>3. NeverBelowBase
  BY <1>2, SMT DEF NeverBelowBase
<1>4. WaitStartsAtZero
  BY <1>1, <1>2, ConstantFacts DEF WaitStartsAtZero, TypeOK
<1>5. \A t \in Task : OneTurn(t)
  BY <1>1, <1>2, NoWait
<1> QED BY <1>2, <1>3, <1>4, <1>5 DEF WaitInv

\* What a reschedule does to the waits: whoever is ready and passed over
\* has waited one more, and nobody but the caller falls asleep.
LEMMA RescheduleWaits ==
    ASSUME TypeOK, WaitInv, started, started',
           NEW sl \in [Task -> Nat \cup {Never}],
           NEW ep \in [Task -> Prio \cup {Unused}],
           Ready(sl, Idle), ep[Idle] \in Prio, ep[current_task] # Unused,
           Reschedule(sl, ep), ~HolderKeepsTies(sl),
           TypeOK', base_prio' = base_prio, console' = console,
           \A t \in Task : ep[t] # Unused => ep[t] <= base_prio[t],
           \A t \in Task : ep[t] # Unused => eff_prio[t] # Unused,
           \A t \in Task \ {Idle} :
               HbBound[t] = 0 /\ ~Ready(sl, t)
                   => ~Ready(sleep_left, t) \/ t = current_task
    PROVE  WaitInv'
<1>1. /\ sleep_left' = sl /\ eff_prio' = ep
      /\ current_task' \in Task /\ Ready(sl, current_task')
  BY RescheduleSafe
<1>2. ready_wait' = AgedWaits(sl, current_task')
  BY DEF Reschedule
<1>3. \A t \in Task \ {Idle} :
          HbBound[t] = 0 /\ ~Ready(sl, t) => ready_wait'[t] = 0
  BY <1>2 DEF AgedWaits, WaitInv, WaitStartsAtZero
<1>4. current_task' # Idle => ready_wait'[current_task'] = 0
  BY <1>1, <1>2 DEF AgedWaits
<1>5. \A t \in Task : /\ ScanDistance(t)' \in 0 .. MaxTasks - 1
                       /\ ToTheTop(t)' = ToTheTop(t) /\ ToTheTop(t) \in Nat
  <2> TAKE t \in Task
  <2>1. rr_last_picked' \in Task
    BY DEF TypeOK
  <2>2. t \in 0 .. MaxTasks - 1 /\ rr_last_picked' \in 0 .. MaxTasks - 1
    BY <2>1 DEF Task
  <2>3. ScanDistance(t)' = IF t > rr_last_picked' THEN t - rr_last_picked' - 1
                           ELSE t - rr_last_picked' - 1 + MaxTasks
    BY <2>1, ScanFrom DEF ScanDistance
  <2>4. ScanDistance(t)' \in 0 .. MaxTasks - 1
    BY <2>2, <2>3, TasksAssumption
  <2> QED BY <2>4, TopNumber DEF ToTheTop
<1>6. ASSUME NEW t \in Task \ {Idle}, HbBound[t] = 0, ep[t] # Unused
      PROVE  OneTurn(t)'
  <2>1. CASE ~Ready(sl, t) \/ t = current_task'
    <3>1. ready_wait'[t] = 0
      BY <1>3, <1>4, <1>6, <2>1
    <3> QED BY <1>5, <3>1, TasksAssumption DEF OneTurn
  <2>2. CASE Ready(sl, t) /\ t # current_task'
    <3> DEFINE wait == ready_wait[t]
               dist == ScanDistance(t)
               top  == ToTheTop(t)
    <3>1. ready_wait'[t] = Min2(wait + 1, AgingCap)
      BY <1>2, <2>2 DEF AgedWaits
    <3>2. /\ wait \in Nat /\ dist \in 0 .. MaxTasks - 1 /\ top \in Nat
          /\ AgingCap \in Nat /\ MaxTasks \in Nat
      BY ScanRange, TopNumber, AgingAssumption, TasksAssumption DEF TypeOK
    <3>3. dist' \in 0 .. MaxTasks - 1
      BY <1>5
    <3>4. top' = top
      BY <1>5
    <3>5. wait >= top => dist' < dist
      BY <1>6, <2>2, TurnComesNearer
    <3>6. wait >= top => wait - top + dist <= MaxTasks - 1
      BY <1>6 DEF WaitInv, OneTurn
    <3> HIDE DEF wait, dist, top
    <3>7. ready_wait'[t] \in Nat /\ ready_wait'[t] <= wait + 1
      BY <3>1, <3>2 DEF Min2
    <3>8. ready_wait'[t] >= top => ready_wait'[t] - top + dist' <= MaxTasks - 1
      BY <3>2, <3>3, <3>5, <3>6, <3>7
    <3> QED BY <3>4, <3>8 DEF OneTurn, dist, top
  <2> QED BY <2>1, <2>2
<1> QED
  BY <1>1, <1>3, <1>4, <1>6 DEF WaitInv, NeverBelowBase, WaitStartsAtZero

\* Whoever owns a mutex or waits for one is a created task.
TakersCreated ==
    \A m \in Mutexes :
        /\ mutex_owner[m] # NoOwner => eff_prio[mutex_owner[m]] # Unused
        /\ \A w \in mutex_waiters[m] : eff_prio[w] # Unused

LEMMA InitTakersCreated == Init => TakersCreated
BY DEF Init, TakersCreated

\* What is lent is a priority, and no worse than the owner's own.
LEMMA LentPrio ==
    ASSUME TypeOK, NEW t \in Task, NEW o \in Task, eff_prio[t] \in Prio
    PROVE  /\ Min2(eff_prio[t], eff_prio[o]) \in Prio
           /\ Min2(eff_prio[t], eff_prio[o]) <= eff_prio[o]
<1>1. eff_prio[o] \in Prio \cup {Unused}
  BY DEF TypeOK
<1>2. eff_prio[t] \in Nat /\ eff_prio[o] \in Nat
  BY PrioNumbers
<1>3. Min2(eff_prio[t], eff_prio[o]) <= eff_prio[o]
  BY <1>2, SMT DEF Min2
<1>4. eff_prio[t] < Unused
  BY ConstantFacts, SMT DEF Prio
<1>5. eff_prio[o] = Unused => Min2(eff_prio[t], eff_prio[o]) = eff_prio[t]
  BY <1>4 DEF Min2
<1>6. eff_prio[o] \in Prio => Min2(eff_prio[t], eff_prio[o]) \in Prio
  BY DEF Min2
<1> QED BY <1>1, <1>3, <1>5, <1>6

\* A created task stays created.
LEMMA CreatedStays ==
    ASSUME SchedInv, ClientInv, [NextTasks]_vars, NEW t \in Task,
           eff_prio[t] # Unused
    PROVE  eff_prio'[t] # Unused
<1>0. TypeOK /\ ClientTypeOK
  BY DEF SchedInv, ClientInv
<1>1. /\ \A u \in Task : base_prio[u] \in Prio /\ saved_prio[u] \in Prio
      /\ ConsoleCeiling \in Prio /\ \A r \in Sections : Ceiling[r] \in Prio
  BY <1>0, ClientAssumption, PrioAssumption DEF TypeOK, ClientTypeOK
<1>2. CASE Boot /\ UNCHANGED clientVars
  <2>1. \A p \in CreatePrios : p \in Prio
    BY PrioAssumption, ConstantFacts, SMT DEF Prio
  <2> QED BY <1>0, <1>2, <2>1, FixedPrioOK, ConstantFacts
          DEF Boot, TaskCreate, StartMultitasking, TypeOK
<1>3. ASSUME NEW u \in Task, Proceed(u) \/ Request(u) PROVE eff_prio'[t] # Unused
  <2>1. CASE ConsoleLock(u) \/ ConsoleUnlock(u) \/ SectionLeave(u)
             \/ \E r \in Sections : SectionEnter(u, r)
    BY <1>0, <1>1, <2>1, ConstantFacts
       DEF ConsoleLock, ConsoleUnlock, SectionLeave, SectionEnter, PrioLock,
           PrioUnlock, TypeOK
  <2>2. CASE ConsoleBegin(u)
    BY <2>2 DEF ConsoleBegin, schedVars
  <2>3. CASE Unlock(u)
    <3>1. \A m : MutexUnlock(m) => eff_prio' = PrioAfterUnlock
      BY DEF MutexUnlock, MutexRelease, MutexHandoff
    <3> QED BY <1>0, <1>1, <2>3, <3>1, ConstantFacts
            DEF Unlock, PrioAfterUnlock, TypeOK
  <2>4. ASSUME NEW m \in Mutexes, Lock(u, m) PROVE eff_prio'[t] # Unused
    <3>1. CASE MutexAcquire(m)
      BY <3>1 DEF MutexAcquire
    <3>2. CASE MutexBlock(m)
      <4> DEFINE o == mutex_owner[m]
                 lent == Min2(eff_prio[u], eff_prio[o])
      <4>1. /\ u = current_task /\ started /\ o \in Task
            /\ eff_prio' = [eff_prio EXCEPT ![o] = lent]
        BY <1>0, <2>4, <3>2 DEF Lock, Calm, MutexBlock, Reschedule, TypeOK
      <4>2. eff_prio[u] \in Prio
        BY <1>0, <4>1 DEF SchedInv, CurrentRunnable, TypeOK
      <4>3. lent \in Prio
        BY <1>0, <4>1, <4>2, LentPrio
      <4> QED BY <1>0, <4>1, <4>3, ConstantFacts DEF TypeOK
    <3> QED BY <2>4, <3>1, <3>2 DEF Lock, MutexLock
  <2> QED BY <1>3, <2>1, <2>2, <2>3, <2>4 DEF Proceed, Request
<1>4. CASE \/ \E u \in Task : Rest(u)
           \/ TimerTick \/ OtherIrq \/ UNCHANGED vars
  BY <1>4 DEF Rest, Sleep, TimerTick, OtherIrq, Interrupt, Reschedule, vars,
              schedVars
<1> QED BY <1>2, <1>3, <1>4 DEF NextTasks

LEMMA TakersCreatedStep ==
    TasksInv /\ TakersCreated /\ [NextTasks]_vars => TakersCreated'
<1> SUFFICES ASSUME TasksInv, TakersCreated, [NextTasks]_vars PROVE TakersCreated'
  OBVIOUS
<1>0. TypeOK /\ SchedInv /\ ClientInv
  BY DEF TasksInv, SchedInv
<1>1. \A t \in Task : eff_prio[t] # Unused => eff_prio'[t] # Unused
  BY <1>0, CreatedStays
<1>2. \A m \in Mutexes : /\ mutex_waiters[m] \subseteq Task
                         /\ mutex_owner[m] \in Task \cup {NoOwner}
  BY <1>0 DEF TypeOK
<1>3. CASE UNCHANGED mutexVars
  BY <1>1, <1>2, <1>3 DEF TakersCreated, mutexVars
<1>4. ASSUME NEW t \in Task, NEW m \in Mutexes, Lock(t, m) PROVE TakersCreated'
  <2>1. t = current_task /\ eff_prio'[t] # Unused
    BY <1>0, <1>1, <1>4
       DEF Lock, Calm, MutexLock, MutexAcquire, MutexBlock, SchedInv, CurrentRunnable
  <2>2. \/ mutex_owner' = [mutex_owner EXCEPT ![m] = t] /\ mutex_waiters' = mutex_waiters
        \/ /\ mutex_waiters' = [mutex_waiters EXCEPT ![m] = @ \cup {t}]
           /\ mutex_owner' = mutex_owner
    BY <1>4, <2>1 DEF Lock, MutexLock, MutexAcquire, MutexBlock
  <2> QED BY <1>0, <1>1, <1>2, <2>1, <2>2 DEF TakersCreated, TypeOK
<1>5. ASSUME NEW t \in Task, Unlock(t) PROVE TakersCreated'
  <2> DEFINE m == section[t]
  <2>1. m \in Mutexes /\ MutexUnlock(m)
    BY <1>5 DEF Unlock
  <2> HIDE DEF m
  <2>2. CASE MutexRelease(m)
    BY <1>0, <1>1, <1>2, <2>1, <2>2 DEF MutexRelease, TakersCreated, TypeOK
  <2>3. CASE MutexHandoff(m)
    <3>1. NextOwner(m) \in mutex_waiters[m]
      BY <1>0, <2>1, <2>3, NextOwnerWaits DEF MutexHandoff
    <3>2. /\ mutex_owner' = [mutex_owner EXCEPT ![m] = NextOwner(m)]
          /\ mutex_waiters' = [mutex_waiters EXCEPT ![m] = @ \ {NextOwner(m)}]
      BY <2>3 DEF MutexHandoff
    <3> QED BY <1>0, <1>1, <1>2, <2>1, <3>1, <3>2 DEF TakersCreated, TypeOK
  <2> QED BY <2>1, <2>2, <2>3 DEF MutexUnlock
<1>6. \/ \E t \in Task : Unlock(t) \/ \E m \in Mutexes : Lock(t, m)
      \/ UNCHANGED mutexVars
  BY DEF NextTasks, Proceed, Request, Boot, TaskCreate, StartMultitasking,
         ConsoleBegin, ConsoleLock, ConsoleUnlock, SectionEnter, SectionLeave,
         PrioLock, PrioUnlock, Rest, Sleep, TimerTick, OtherIrq, Interrupt, vars,
         schedVars
<1> QED BY <1>3, <1>4, <1>5, <1>6

\* A step that reschedules nobody: what it wakes has not waited, and what it
\* gives another priority keeps its base.
LEMMA WaitFrame ==
    ASSUME TypeOK, WaitInv, started, started', TypeOK',
           UNCHANGED <<pickVars, base_prio, console>>,
           \A t \in Task : Ready(sleep_left, t) => Ready(sleep_left, t)',
           \A t \in Task : eff_prio'[t] # Unused =>
               eff_prio[t] # Unused /\ eff_prio'[t] <= base_prio[t]
    PROVE  WaitInv'
<1>1. \A t \in Task : OneTurn(t)' <=> OneTurn(t)
  BY DEF OneTurn, ToTheTop, ScanDistance, pickVars
<1>2. WaitStartsAtZero'
  BY DEF WaitInv, WaitStartsAtZero, pickVars
<1>3. NeverBelowBase'
  BY DEF NeverBelowBase
<1> QED BY <1>1, <1>2, <1>3 DEF WaitInv

LEMMA BootWaitInv ==
    ASSUME TasksInv, TasksInv', WaitInv, Boot, UNCHANGED clientVars
    PROVE  WaitInv'
<1>0. TypeOK /\ TypeOK'
  BY DEF TasksInv, SchedInv
<1>1. ~started /\ UNCHANGED <<rr_last_picked, ready_wait, console>>
  BY DEF Boot, TaskCreate, StartMultitasking, pickVars, clientVars
<1>2. \A t \in Task : ready_wait'[t] = 0
  BY <1>1 DEF WaitInv, WaitStartsAtZero
<1>3. WaitStartsAtZero'
  BY <1>0, <1>2 DEF WaitStartsAtZero, TypeOK
<1>4. NeverBelowBase'
  <2> SUFFICES ASSUME NEW t \in Task, eff_prio'[t] # Unused
               PROVE  eff_prio'[t] <= base_prio'[t]
    BY DEF NeverBelowBase
  <2>1. \A n \in Nat : n <= n
    OBVIOUS
  <2>2. eff_prio'[t] \in Nat /\ base_prio'[t] \in Nat
    BY <1>0, ConstantFacts DEF TypeOK
  <2>3. \/ eff_prio'[t] = base_prio'[t]
        \/ eff_prio'[t] = eff_prio[t] /\ base_prio'[t] = base_prio[t]
    BY <1>0 DEF Boot, TaskCreate, StartMultitasking, TypeOK
  <2> QED BY <2>1, <2>2, <2>3 DEF WaitInv, NeverBelowBase
<1>5. \A t \in Task : OneTurn(t)'
  <2> TAKE t \in Task
  <2>1. ToTheTop(t)' \in Nat
    <3>1. base_prio'[t] \in Nat
      BY <1>0, ConstantFacts DEF TypeOK
    <3> QED BY <3>1, AgingAssumption DEF ToTheTop
  <2>2. ScanDistance(t)' \in 0 .. MaxTasks - 1
    BY <1>0, <1>1, ScanRange DEF ScanDistance
  <2> QED BY <1>2, <2>1, <2>2, TasksAssumption DEF OneTurn
<1> QED BY <1>1, <1>3, <1>4, <1>5 DEF WaitInv

\* Without ceilings nobody holds the processor against its equals.
LEMMA NobodyHolds ==
    ASSUME NoCeilings, TasksInv, WaitInv, NEW sl
    PROVE  ~HolderKeepsTies(sl)
<1>1. current_task \in Task
  BY DEF TasksInv, SchedInv, TypeOK
<1>2. ceiling_depth[current_task] = 0
  BY <1>1 DEF NoCeilings, TasksInv, ClientInv, DepthCounts, One, WaitInv
<1> QED BY <1>2 DEF HolderKeepsTies

LEMMA InterruptWaitInv ==
    ASSUME NoCeilings, TasksInv, TasksInv', WaitInv,
           NEW tick \in BOOLEAN, Interrupt(tick), UNCHANGED clientVars
    PROVE  WaitInv'
<1> DEFINE sleep == [t \in Task |-> IF Evicted(t) THEN HbBound[t]
                                    ELSE sleep_left[t]]
           sl == [t \in Task |-> IF tick THEN TickDown(sleep[t]) ELSE sleep[t]]
<1>0. TypeOK /\ TypeOK'
  BY DEF TasksInv, SchedInv
<1>1. started /\ started' /\ Reschedule(sl, eff_prio) /\ base_prio' = base_prio
  BY DEF Interrupt
<1>2. sleep \in [Task -> Nat \cup {Never}]
  BY <1>0, TimeAssumption DEF TypeOK
<1>3. \A n \in Nat \cup {Never} : TickDown(n) \in Nat \cup {Never}
  BY SMT DEF TickDown, Never
<1>4. TickDown(0) = 0
  BY SMT DEF TickDown
<1>5. \A t \in Task : HbBound[t] = 0 => sleep[t] = sleep_left[t]
  BY SMT DEF Evicted, Overdue
<1>6. sleep_left[Idle] = 0 /\ HbBound[Idle] = 0 /\ Idle \in Task
  BY TimeAssumption, ConstantFacts
     DEF TasksInv, SchedInv, IdleAvailable, Ready
<1> HIDE DEF sleep
<1>7. sl \in [Task -> Nat \cup {Never}] /\ Ready(sl, Idle)
  BY <1>2, <1>3, <1>4, <1>5, <1>6 DEF Ready
<1>8. \A t \in Task \ {Idle} :
          HbBound[t] = 0 /\ ~Ready(sl, t) => ~Ready(sleep_left, t)
  BY <1>4, <1>5 DEF Ready
<1> HIDE DEF sl
<1>9. /\ eff_prio \in [Task -> Prio \cup {Unused}] /\ eff_prio[Idle] \in Prio
      /\ eff_prio[current_task] # Unused
  BY <1>0, <1>1 DEF TasksInv, SchedInv, IdleAvailable, CurrentRunnable, TypeOK
<1>10. /\ console' = console
       /\ \A t \in Task : eff_prio[t] # Unused => eff_prio[t] <= base_prio[t]
  BY DEF clientVars, WaitInv, NeverBelowBase
<1> QED BY <1>0, <1>1, <1>7, <1>8, <1>9, <1>10, NobodyHolds, RescheduleWaits

LEMMA RestWaitInv ==
    ASSUME NoCeilings, TasksInv, TasksInv', WaitInv, NEW t \in Task, Rest(t)
    PROVE  WaitInv'
<1>1. PICK n \in SleepTicks : Sleep(n)
  BY DEF Rest
<1> DEFINE sl == [sleep_left EXCEPT ![t] = n]
<1>0. TypeOK /\ TypeOK'
  BY DEF TasksInv, SchedInv
<1>2. /\ started /\ started' /\ t = current_task /\ t # Idle
      /\ Reschedule(sl, eff_prio) /\ base_prio' = base_prio /\ console' = console
  BY <1>1 DEF Sleep, Rest, Calm, clientVars
<1>3. sl \in [Task -> Nat \cup {Never}] /\ Ready(sl, Idle)
  BY <1>0, <1>2, TimeAssumption, ConstantFacts
     DEF TypeOK, TasksInv, SchedInv, IdleAvailable, Ready
<1>4. \A u \in Task \ {t} : sl[u] = sleep_left[u]
  BY <1>0 DEF TypeOK
<1>5. /\ eff_prio \in [Task -> Prio \cup {Unused}] /\ eff_prio[Idle] \in Prio
      /\ eff_prio[current_task] # Unused
  BY <1>0, <1>2 DEF TasksInv, SchedInv, IdleAvailable, CurrentRunnable, TypeOK
<1>6. \A u \in Task : eff_prio[u] # Unused => eff_prio[u] <= base_prio[u]
  BY DEF WaitInv, NeverBelowBase
<1> HIDE DEF sl
<1>7. \A u \in Task \ {Idle} :
          HbBound[u] = 0 /\ ~Ready(sl, u)
              => ~Ready(sleep_left, u) \/ u = current_task
  BY <1>2, <1>4 DEF Ready
<1> QED BY <1>0, <1>2, <1>3, <1>5, <1>6, <1>7, NobodyHolds, RescheduleWaits

LEMMA LockWaitInv ==
    ASSUME NoCeilings, TasksInv, TasksInv', TakersCreated, WaitInv, NEW t \in Task,
           NEW m \in Mutexes, Lock(t, m)
    PROVE  WaitInv'
<1>0. TypeOK /\ TypeOK'
  BY DEF TasksInv, SchedInv
<1>1. t = current_task /\ t # Idle /\ console' = console
  BY ClientAssumption DEF Lock, Calm
<1>2. CASE MutexAcquire(m)
  <2>1. /\ started /\ started' /\ UNCHANGED <<pickVars, base_prio, eff_prio, sleep_left>>
    BY <1>2 DEF MutexAcquire
  <2>2. \A u \in Task : eff_prio[u] # Unused => eff_prio[u] <= base_prio[u]
    BY DEF WaitInv, NeverBelowBase
  <2> QED BY <1>0, <1>1, <2>1, <2>2, WaitFrame DEF Ready
<1>3. CASE MutexBlock(m)
  <2> DEFINE owner == mutex_owner[m]
             lent  == Min2(eff_prio[t], eff_prio[owner])
             sl    == [sleep_left EXCEPT ![t] = Never]
             ep    == [eff_prio EXCEPT ![owner] = lent]
  <2>1. /\ started /\ started' /\ owner \in Task
        /\ Reschedule(sl, ep) /\ base_prio' = base_prio
    BY <1>0, <1>1, <1>3 DEF MutexBlock, TypeOK
  <2>2. eff_prio[t] \in Prio /\ eff_prio[t] # Unused
    BY <1>0, <1>1, <2>1, ConstantFacts DEF TasksInv, SchedInv, CurrentRunnable, TypeOK
  <2>3. lent \in Prio /\ lent <= eff_prio[owner]
    BY <1>0, <2>1, <2>2, LentPrio
  <2>4. /\ owner # NoOwner /\ eff_prio[owner] # Unused
        /\ eff_prio[owner] <= base_prio[owner]
    BY <1>3, <2>1 DEF MutexBlock, TakersCreated, WaitInv, NeverBelowBase
  <2>5. lent <= base_prio[owner]
    <3>1. lent \in Nat /\ eff_prio[owner] \in Nat /\ base_prio[owner] \in Nat
      BY <1>0, <2>1, <2>3, PrioNumbers, ConstantFacts
    <3>2. \A a, b, c \in Nat : a <= b /\ b <= c => a <= c
      BY SMT
    <3> QED BY <2>3, <2>4, <3>1, <3>2
  <2>6. \A u \in Task \ {t} : sl[u] = sleep_left[u]
    BY <1>0 DEF TypeOK
  <2>7. sl \in [Task -> Nat \cup {Never}] /\ Ready(sl, Idle)
    BY <1>0, <1>1, ConstantFacts
       DEF TypeOK, TasksInv, SchedInv, IdleAvailable, Ready
  <2> HIDE DEF lent, owner
  <2>8. /\ ep \in [Task -> Prio \cup {Unused}]
        /\ ep[Idle] \in Prio /\ ep[current_task] # Unused
    BY <1>0, <1>1, <2>1, <2>2, <2>3, ConstantFacts
       DEF TypeOK, TasksInv, SchedInv, IdleAvailable
  <2>9. \A u \in Task : ep[u] # Unused => eff_prio[u] # Unused /\ ep[u] <= base_prio[u]
    BY <1>0, <2>1, <2>4, <2>5 DEF TypeOK, WaitInv, NeverBelowBase
  <2> HIDE DEF sl, ep
  <2>10. \A u \in Task \ {Idle} :
             HbBound[u] = 0 /\ ~Ready(sl, u)
                 => ~Ready(sleep_left, u) \/ u = current_task
    BY <1>1, <2>6 DEF Ready
  <2> QED BY <1>0, <1>1, <2>1, <2>7, <2>8, <2>9, <2>10, NobodyHolds, RescheduleWaits
<1> QED BY <1>2, <1>3 DEF Lock, MutexLock

LEMMA UnlockWaitInv ==
    ASSUME TasksInv, TasksInv', WaitInv, NEW t \in Task, Unlock(t)
    PROVE  WaitInv'
<1> DEFINE m == section[t]
<1>0. TypeOK /\ TypeOK'
  BY DEF TasksInv, SchedInv
<1>1. t = current_task /\ m \in Mutexes /\ MutexUnlock(m) /\ console' = console
  BY DEF Unlock, Calm
<1> HIDE DEF m
<1>2. /\ started /\ started' /\ UNCHANGED <<pickVars, base_prio>>
      /\ eff_prio' = PrioAfterUnlock
      /\ sleep_left' = sleep_left
         \/ \E w : sleep_left' = [sleep_left EXCEPT ![w] = 0]
  BY <1>1 DEF MutexUnlock, MutexRelease, MutexHandoff
<1>3. \A u \in Task : Ready(sleep_left, u) => Ready(sleep_left, u)'
  BY <1>0, <1>2 DEF Ready, TypeOK
<1>4. eff_prio[t] # Unused
  BY <1>1, <1>2 DEF TasksInv, SchedInv, CurrentRunnable
<1>5. base_prio[t] <= base_prio[t]
  BY <1>0, PrioNumbers, SMT
<1>6. \A u \in Task : eff_prio'[u] # Unused =>
          eff_prio[u] # Unused /\ eff_prio'[u] <= base_prio[u]
  BY <1>0, <1>1, <1>2, <1>4, <1>5
     DEF PrioAfterUnlock, TypeOK, WaitInv, NeverBelowBase
<1> QED BY <1>0, <1>1, <1>2, <1>3, <1>6, WaitFrame

LEMMA WaitInvStep ==
    ASSUME NoCeilings
    PROVE  TasksInv /\ TakersCreated /\ WaitInv /\ [NextTasks]_vars => WaitInv'
<1> SUFFICES ASSUME TasksInv, TakersCreated, WaitInv, [NextTasks]_vars PROVE WaitInv'
  OBVIOUS
<1>0. TasksInv' /\ TypeOK /\ ClientTypeOK
  BY TasksInvStep DEF TasksInv, SchedInv, ClientInv
<1>1. CASE Boot /\ UNCHANGED clientVars
  BY <1>0, <1>1, BootWaitInv
<1>2. ASSUME NEW t \in Task, Proceed(t) PROVE WaitInv'
  <2>1. ~ConsoleLock(t) /\ ~ConsoleUnlock(t) /\ ~SectionLeave(t)
    BY DEF WaitInv, ConsoleLock, ConsoleUnlock, SectionLeave, NoCeilings
  <2> QED BY <1>0, <1>2, <2>1, UnlockWaitInv DEF Proceed
<1>3. ASSUME NEW t \in Task, Request(t) PROVE WaitInv'
  BY <1>0, <1>3, LockWaitInv DEF Request, ConsoleBegin, NoCeilings
<1>4. ASSUME NEW t \in Task, Rest(t) PROVE WaitInv'
  BY <1>0, <1>4, RestWaitInv
<1>5. CASE TimerTick \/ OtherIrq
  BY <1>0, <1>5, InterruptWaitInv DEF TimerTick, OtherIrq
<1>6. CASE UNCHANGED vars
  BY <1>6 DEF vars, schedVars, pickVars, clientVars, WaitInv, NeverBelowBase,
              WaitStartsAtZero, OneTurn, ToTheTop, ScanDistance, Ready
<1> QED BY <1>1, <1>2, <1>3, <1>4, <1>5, <1>6 DEF NextTasks

\* Where nothing suspends aging, no ready task is passed over for longer
\* than its priority times the quantum and one turn of the cursor, with any
\* number of tasks, whatever they lend each other and whenever they sleep.
THEOREM AgingBoundsTheWait ==
    ASSUME NoCeilings
    PROVE  SpecTasks => []WaitBounded
<1>1. TasksInv /\ WaitInv => WaitBounded
  <2> SUFFICES ASSUME TasksInv, WaitInv, NEW t \in Task \ {Idle},
                      eff_prio[t] # Unused, HbBound[t] = 0
               PROVE  ready_wait[t] < ToTheTop(t) + MaxTasks
    BY DEF WaitBounded, ToTheTop
  <2>1. TypeOK /\ ready_wait[t] \in Nat /\ MaxTasks \in Nat \ {0}
    BY AgingAssumption, TasksAssumption DEF TasksInv, SchedInv, TypeOK
  <2>2. ToTheTop(t) \in Nat /\ ScanDistance(t) \in 0 .. MaxTasks - 1
    BY <2>1, TopNumber, ScanRange
  <2>3. OneTurn(t)
    BY DEF WaitInv
  <2> QED BY <2>1, <2>2, <2>3 DEF OneTurn
<1>2. InitTasks => TakersCreated
  BY InitTakersCreated DEF InitTasks
<1> QED
  BY <1>1, <1>2, InitTasksInv, TasksInvStep, InitWaitInv, TakersCreatedStep,
     WaitInvStep, PTL DEF SpecTasks
=============================================================================
