-------------------------- MODULE SchedulerProofs --------------------------
(***************************************************************************)
(* Proofs about Scheduler, for any number of slots, any priorities and any *)
(* set of mutexes: whatever calls the tasks make, the tables keep their    *)
(* types and the processor goes to a ready, created task.                  *)
(***************************************************************************)
EXTENDS Scheduler, WellFoundedInduction, TLAPS

(***************************************************************************)
(* Choosing a least element                                                *)
(***************************************************************************)

\* Every non-empty set of natural numbers has a least element.
LEMMA NatMin ==
    ASSUME NEW S \in SUBSET Nat, S # {}
    PROVE  \E x \in S : \A y \in S : x <= y
<1> DEFINE R == {ss \in Nat \X Nat : ss[1] < ss[2]}
<1>1. IsWellFoundedOn(R, Nat)
  BY NatLessThanWellFounded, Zenon DEF OpToRel
<1> HIDE DEF R
<1>2. PICK x \in S : \A y \in S : ~(<<y, x>> \in R)
  BY <1>1, WFMin, Zenon
<1>3. \A y \in S : ~(y < x)
  <2> SUFFICES ASSUME NEW y \in S, y < x PROVE FALSE
    OBVIOUS
  <2>1. y \in Nat /\ x \in Nat
    OBVIOUS
  <2>2. <<y, x>> \in R
    BY <2>1, Zenon DEF R
  <2> QED BY <1>2, <2>2, Zenon
<1>4. \A y \in S : x <= y
  BY <1>3, SMT
<1> QED BY <1>4, SMT

\* Every non-empty set has an element at which a Nat-valued function is
\* least; the function is given by its graph on the set.
LEMMA ArgMin ==
    ASSUME NEW S, S # {}, NEW f \in [S -> Nat]
    PROVE  \E x \in S : \A y \in S : f[x] <= f[y]
<1>1. {f[x] : x \in S} \in SUBSET Nat /\ {f[x] : x \in S} # {}
  OBVIOUS
<1>2. PICK v \in {f[x] : x \in S} : \A w \in {f[x] : x \in S} : v <= w
  BY <1>1, NatMin
<1> QED BY <1>2

(***************************************************************************)
(* scheduler_pick_next                                                     *)
(***************************************************************************)

\* Prio is a set of naturals below Unused, and idle's slot exists.
LEMMA ConstantFacts ==
    /\ Prio \subseteq Nat
    /\ IdlePrio \in Nat /\ IdlePrio \in Prio /\ IdlePrio < Unused
    /\ Unused \in Nat /\ Unused \notin Prio
    /\ Idle \in Task /\ 0 \in Task /\ Task \subseteq Nat
<1>1. AgingCap \div AgingQuantum \in Nat
  BY AgingAssumption, SMT
<1>2. IdlePrio \in Nat
  BY TasksAssumption, SMT DEF IdlePrio
<1> QED
  BY <1>1, <1>2, TasksAssumption, AgingAssumption, SMT DEF Prio, Task

\* Aging lowers a priority by at most its cap: never below 0, and never an
\* unused slot's to that of a real task.
LEMMA AgedBounds ==
    ASSUME ready_wait \in [Task -> 0 .. AgingCap],
           NEW ep \in [Task -> Prio \cup {Unused}],
           NEW t \in Task
    PROVE  /\ Aged(ep, t) \in Nat
           /\ Aged(ep, t) <= ep[t]
           /\ ep[t] = Unused => Aged(ep, t) > IdlePrio
<1> DEFINE bonus == ready_wait[t] \div AgingQuantum
<1>1. ready_wait[t] \in Nat /\ ready_wait[t] <= AgingCap
  BY AgingAssumption, SMT
<1>2. bonus \in Nat /\ bonus <= AgingCap \div AgingQuantum
  BY <1>1, AgingAssumption, SMT
<1>3. ep[t] \in Nat
  <2>1. ep[t] \in Prio \cup {Unused}
    OBVIOUS
  <2> QED BY <2>1, ConstantFacts
<1>4. Aged(ep, t) = ep[t] - Min2(ep[t], bonus)
  BY DEF Aged
<1> HIDE DEF bonus
<1>5. AgingCap \div AgingQuantum \in Nat
  BY AgingAssumption, SMT
<1> QED
  BY <1>2, <1>3, <1>4, <1>5, ConstantFacts, AgingAssumption, SMT DEF Min2

\* The fair pick is a ready task at the lowest aged priority, the first one
\* the scan from the cursor meets.
LEMMA FairPickContends ==
    ASSUME ready_wait \in [Task -> 0 .. AgingCap],
           rr_last_picked \in Task,
           NEW sl \in [Task -> Nat \cup {Never}],
           NEW ep \in [Task -> Prio \cup {Unused}],
           Ready(sl, Idle)
    PROVE  /\ FairPick(sl, ep) \in Contenders(sl, ep)
           /\ \A u \in Contenders(sl, ep) :
                  ScanDistance(FairPick(sl, ep)) <= ScanDistance(u)
<1> DEFINE R == {t \in Task : Ready(sl, t)}
<1> DEFINE C == Contenders(sl, ep)
<1>1. \E t \in R : \A u \in R : Aged(ep, t) <= Aged(ep, u)
  <2> DEFINE f == [t \in R |-> Aged(ep, t)]
  <2>1. R # {} /\ R \subseteq Task
    BY ConstantFacts
  <2>2. f \in [R -> Nat]
    BY AgedBounds, <2>1
  <2>3. PICK t \in R : \A u \in R : f[t] <= f[u]
    <3> HIDE DEF f, R
    <3> QED BY <2>1, <2>2, ArgMin
  <2> QED BY <2>3
<1>2. C # {} /\ C \subseteq Task
  BY <1>1 DEF Contenders
<1>3. \E t \in C : \A u \in C : ScanDistance(t) <= ScanDistance(u)
  <2> DEFINE f == [t \in C |-> ScanDistance(t)]
  <2>1. \A t \in Task : ScanDistance(t) \in Nat
    <3> TAKE t \in Task
    <3>1. t - rr_last_picked - 1 \in Int
      BY ConstantFacts, SMT
    <3> QED BY <3>1, TasksAssumption, SMT DEF ScanDistance
  <2>2. f \in [C -> Nat]
    BY <2>1, <1>2
  <2>3. PICK t \in C : \A u \in C : f[t] <= f[u]
    <3> HIDE DEF f, C
    <3> QED BY <1>2, <2>2, ArgMin
  <2> QED BY <2>3
<1> QED
  BY <1>3, Zenon DEF FairPick

\* The pick of a running holder is itself or a strictly more urgent ready
\* task.
LEMMA HolderPickUrgent ==
    ASSUME current_task \in Task,
           NEW sl \in [Task -> Nat \cup {Never}],
           NEW ep \in [Task -> Prio \cup {Unused}]
    PROVE  HolderPick(sl, ep) \in Preemptors(sl, ep) \cup {current_task}
<1> DEFINE P == Preemptors(sl, ep)
<1> DEFINE U == MostUrgent(P, ep)
<1>1. CASE P = {}
  BY <1>1 DEF HolderPick
<1>2. CASE P # {}
  <2>1. P \subseteq Task
    BY DEF Preemptors
  <2>2. U # {} /\ U \subseteq P
    <3> DEFINE f == [t \in P |-> ep[t]]
    <3>1. f \in [P -> Nat]
      <4>1. \A t \in P : ep[t] \in Prio \cup {Unused}
        BY <2>1
      <4>2. Prio \cup {Unused} \subseteq Nat
        BY ConstantFacts
      <4> QED BY <4>1, <4>2
    <3>2. PICK t \in P : \A u \in P : f[t] <= f[u]
      <4> HIDE DEF f, P
      <4> QED BY <1>2, <3>1, ArgMin
    <3> QED BY <3>2 DEF MostUrgent
  <2>3. U \in SUBSET Nat
    BY <2>1, <2>2, ConstantFacts
  <2>4. \E t \in U : \A u \in U : t <= u
    <3> HIDE DEF U
    <3> QED BY <2>2, <2>3, NatMin
  <2>5. HolderPick(sl, ep) \in U
    BY <1>2, <2>4, Zenon DEF HolderPick
  <2> QED BY <2>2, <2>5
<1> QED BY <1>1, <1>2

\* A reschedule keeps the types and leaves a ready, created task running.
LEMMA RescheduleSafe ==
    ASSUME TypeOK,
           NEW sl \in [Task -> Nat \cup {Never}],
           NEW ep \in [Task -> Prio \cup {Unused}],
           Ready(sl, Idle), ep[Idle] \in Prio, ep[current_task] # Unused,
           Reschedule(sl, ep)
    PROVE  /\ sleep_left' = sl /\ eff_prio' = ep
           /\ current_task' \in Task
           /\ rr_last_picked' \in Task
           /\ ready_wait' \in [Task -> 0 .. AgingCap]
           /\ Ready(sl, current_task') /\ ep[current_task'] # Unused
<1> DEFINE pick == PickNext(sl, ep)
<1>1. pick \in Task /\ Ready(sl, pick) /\ ep[pick] # Unused
  <2>1. CASE HolderKeepsTies(sl)
    <3>1. pick \in Preemptors(sl, ep) \cup {current_task}
      BY <2>1, HolderPickUrgent DEF TypeOK, PickNext
    <3>2. Preemptors(sl, ep) \subseteq {t \in Task : Ready(sl, t) /\ ep[t] # Unused}
      <4> SUFFICES ASSUME NEW t \in Preemptors(sl, ep)
                   PROVE  t \in Task /\ Ready(sl, t) /\ ep[t] # Unused
        OBVIOUS
      <4>1. t \in Task /\ Ready(sl, t) /\ ep[t] < ep[current_task]
        BY DEF Preemptors
      <4>2. ep[current_task] \in Prio
        BY DEF TypeOK
      <4>3. ep[current_task] < Unused
        BY <4>2, ConstantFacts, SMT DEF Prio
      <4> QED BY <4>1, <4>2, <4>3, ConstantFacts, SMT DEF Prio
    <3>3. current_task \in Task /\ Ready(sl, current_task)
      BY <2>1 DEF TypeOK, HolderKeepsTies
    <3> QED BY <3>1, <3>2, <3>3
  <2>2. CASE ~HolderKeepsTies(sl)
    <3>1. pick \in Contenders(sl, ep)
      BY <2>2, FairPickContends DEF TypeOK, PickNext
    <3>2. pick \in Task /\ Ready(sl, pick) /\ Aged(ep, pick) <= Aged(ep, Idle)
      BY <3>1, ConstantFacts DEF Contenders
    <3>3. Aged(ep, Idle) \in Nat /\ Aged(ep, Idle) <= ep[Idle]
      BY AgedBounds, ConstantFacts DEF TypeOK
    <3>4. /\ Aged(ep, pick) \in Nat
          /\ ep[pick] = Unused => Aged(ep, pick) > IdlePrio
      BY <3>2, AgedBounds DEF TypeOK
    <3>5. ep[Idle] \in Nat /\ ep[Idle] <= IdlePrio
      BY ConstantFacts, SMT DEF Prio
    <3> HIDE DEF pick
    <3>6. ep[pick] # Unused
      <4>1. Aged(ep, pick) <= IdlePrio
        <5>1. \A a, b, c, d \in Nat : a <= b /\ b <= c /\ c <= d => a <= d
          BY SMT
        <5> QED BY <5>1, <3>2, <3>3, <3>4, <3>5, ConstantFacts
      <4>2. \A a, b \in Nat : a <= b => ~(a > b)
        BY SMT
      <4> QED BY <4>1, <4>2, <3>4, ConstantFacts
    <3> QED BY <3>2, <3>6
  <2> QED BY <2>1, <2>2
<1> HIDE DEF pick
<1>2. /\ sleep_left' = sl /\ eff_prio' = ep /\ current_task' = pick
      /\ ready_wait' = AgedWaits(sl, pick)
      /\ rr_last_picked' = IF HolderKeepsTies(sl) THEN rr_last_picked ELSE pick
  BY DEF Reschedule, pick
<1>3. AgedWaits(sl, pick) \in [Task -> 0 .. AgingCap]
  <2> SUFFICES ASSUME NEW t \in Task
               PROVE  /\ ready_wait[t] \in 0 .. AgingCap
                      /\ Min2(ready_wait[t] + 1, AgingCap) \in 0 .. AgingCap
                      /\ 0 \in 0 .. AgingCap
    BY DEF AgedWaits
  <2>1. ready_wait[t] \in 0 .. AgingCap
    BY DEF TypeOK
  <2> QED BY <2>1, AgingAssumption, SMT DEF Min2
<1>4. rr_last_picked \in Task
  BY DEF TypeOK
<1> QED BY <1>1, <1>2, <1>3, <1>4

(***************************************************************************)
(* The scheduler never runs a slot that is unused, asleep or blocked       *)
(***************************************************************************)

\* Idle is always ready and always created, which is what every reschedule
\* falls back on; slot 0 is awake until multitasking starts with it.
IdleAvailable ==
    /\ Ready(sleep_left, Idle)
    /\ eff_prio[Idle] \in Prio
    /\ ~started => Ready(sleep_left, 0)

SchedInv == TypeOK /\ IdleAvailable /\ CurrentRunnable

LEMMA FixedPrioOK == \A t \in Fixed : FixedPrio[t] \in Prio
<1> SUFFICES ASSUME NEW t \in Fixed PROVE FixedPrio[t] \in Prio
  OBVIOUS
<1>1. FixedPrio[t] \in Nat /\ FixedPrio[Idle] \in Nat
  BY TasksAssumption
<1>2. t # Idle => FixedPrio[t] < FixedPrio[Idle]
  BY PrioAssumption DEF IdlePrio
<1> QED BY <1>1, <1>2, SMT DEF Prio, IdlePrio

LEMMA InitSchedInv == Init => SchedInv
<1> SUFFICES ASSUME Init PROVE SchedInv
  OBVIOUS
<1>1. 0 \in Prio
  BY ConstantFacts, SMT DEF Prio
<1>2. 0 \in 0 .. AgingCap
  BY AgingAssumption, SMT
<1>3. TypeOK
  BY <1>1, <1>2, ConstantFacts DEF Init, TypeOK
<1>4. IdleAvailable
  BY <1>1, ConstantFacts, TasksAssumption DEF Init, IdleAvailable, Ready
<1> QED BY <1>3, <1>4 DEF Init, SchedInv, CurrentRunnable

LEMMA TaskCreateSchedInv ==
    ASSUME SchedInv, NEW p \in CreatePrios, TaskCreate(p)
    PROVE  SchedInv'
<1>1. p \in Prio
  BY PrioAssumption, ConstantFacts, SMT DEF Prio
<1>2. PICK t \in FreeSlots :
          /\ eff_prio' = [eff_prio EXCEPT ![t] = p]
          /\ base_prio' = [base_prio EXCEPT ![t] = p]
          /\ sleep_left' = [sleep_left EXCEPT ![t] = 0]
  BY DEF TaskCreate
<1>3. t \in Task /\ t \notin Fixed
  BY DEF FreeSlots
<1>4. TypeOK'
  BY <1>1, <1>2, <1>3 DEF TaskCreate, SchedInv, TypeOK, pickVars, mutexVars
<1>5. IdleAvailable'
  BY <1>2, <1>3, TasksAssumption, ConstantFacts
     DEF TaskCreate, SchedInv, TypeOK, IdleAvailable, Ready
<1> QED BY <1>4, <1>5 DEF TaskCreate, SchedInv, CurrentRunnable

LEMMA StartSchedInv ==
    ASSUME SchedInv, StartMultitasking
    PROVE  SchedInv'
<1>1. TypeOK'
  BY FixedPrioOK, ConstantFacts
     DEF StartMultitasking, SchedInv, TypeOK, pickVars, mutexVars
<1>2. eff_prio'[Idle] \in Prio /\ eff_prio'[0] \in Prio
  BY FixedPrioOK, TasksAssumption, ConstantFacts DEF StartMultitasking
<1> QED
  BY <1>1, <1>2, ConstantFacts
     DEF StartMultitasking, SchedInv, IdleAvailable, CurrentRunnable, Ready

\* What a step that reschedules has to show.
LEMMA RescheduleSchedInv ==
    ASSUME SchedInv, started,
           NEW sl \in [Task -> Nat \cup {Never}],
           NEW ep \in [Task -> Prio \cup {Unused}],
           Ready(sl, Idle), ep[Idle] \in Prio, ep[current_task] # Unused,
           Reschedule(sl, ep),
           UNCHANGED <<started, base_prio, ceiling_depth>>,
           mutex_owner' \in [Mutexes -> Task \cup {NoOwner}],
           mutex_waiters' \in [Mutexes -> SUBSET Task],
           hb_elapsed' \in [Task -> Nat]
    PROVE  SchedInv'
<1>1. TypeOK
  BY DEF SchedInv
<1>2. /\ sleep_left' = sl /\ eff_prio' = ep
      /\ current_task' \in Task /\ rr_last_picked' \in Task
      /\ ready_wait' \in [Task -> 0 .. AgingCap]
      /\ Ready(sl, current_task') /\ ep[current_task'] # Unused
  BY <1>1, RescheduleSafe
<1>3. TypeOK'
  BY <1>1, <1>2 DEF TypeOK
<1> QED BY <1>2, <1>3 DEF SchedInv, IdleAvailable, CurrentRunnable

LEMMA SleepSchedInv ==
    ASSUME SchedInv, current_task # Idle, NEW n \in SleepTicks, Sleep(n)
    PROVE  SchedInv'
<1> DEFINE sl == [sleep_left EXCEPT ![current_task] = n]
<1>1. n \in Nat
  BY TimeAssumption
<1>2. current_task \in Task /\ started /\ eff_prio[current_task] # Unused
  BY DEF SchedInv, TypeOK, CurrentRunnable, Sleep
<1>3. sl \in [Task -> Nat \cup {Never}] /\ Ready(sl, Idle)
  BY <1>1, <1>2, ConstantFacts DEF SchedInv, TypeOK, IdleAvailable, Ready
<1>4. Reschedule(sl, eff_prio)
  BY DEF Sleep
<1>5. /\ eff_prio \in [Task -> Prio \cup {Unused}] /\ eff_prio[Idle] \in Prio
      /\ UNCHANGED <<started, base_prio, ceiling_depth>>
      /\ mutex_owner' \in [Mutexes -> Task \cup {NoOwner}]
      /\ mutex_waiters' \in [Mutexes -> SUBSET Task]
      /\ hb_elapsed' \in [Task -> Nat]
  BY <1>2 DEF Sleep, SchedInv, TypeOK, IdleAvailable, mutexVars
<1> HIDE DEF sl
<1> QED BY <1>2, <1>3, <1>4, <1>5, RescheduleSchedInv

LEMMA PrioCallSchedInv ==
    ASSUME SchedInv,
           \/ \E c \in Ceilings : PrioLock(c)
           \/ \E p \in Restores : PrioUnlock(p)
    PROVE  SchedInv'
<1> DEFINE Effect(q, d) ==
              /\ ceiling_depth' = [ceiling_depth EXCEPT ![current_task] = d]
              /\ \/ eff_prio' = [eff_prio EXCEPT ![current_task] = q]
                 \/ eff_prio' = eff_prio
<1>0. /\ started
      /\ UNCHANGED <<started, pickVars, base_prio, sleep_left, mutexVars,
                     hb_elapsed>>
  BY DEF PrioLock, PrioUnlock
<1>1. PICK q \in Prio, d \in Nat : Effect(q, d)
  <2>1. current_task \in Task /\ ceiling_depth[current_task] \in Nat
    BY DEF SchedInv, TypeOK
  <2>2. ASSUME NEW c \in Ceilings, PrioLock(c)
        PROVE  \E q \in Prio, d \in Nat : Effect(q, d)
    <3>1. c \in Prio /\ ceiling_depth[current_task] + 1 \in Nat
      BY <2>1, PrioAssumption, SMT
    <3>2. Effect(c, ceiling_depth[current_task] + 1)
      BY <2>2 DEF PrioLock
    <3> QED BY <3>1, <3>2
  <2>3. ASSUME NEW p \in Restores, PrioUnlock(p)
        PROVE  \E q \in Prio, d \in Nat : Effect(q, d)
    <3> DEFINE depth == IF ceiling_depth[current_task] = 0 THEN 0
                        ELSE ceiling_depth[current_task] - 1
    <3>1. p \in Prio /\ depth \in Nat
      BY <2>1, PrioAssumption, SMT
    <3>2. Effect(p, depth)
      BY <2>3 DEF PrioUnlock
    <3> QED BY <3>1, <3>2
  <2> QED BY <2>2, <2>3
<1>2. current_task \in Task /\ q # Unused
  BY ConstantFacts DEF SchedInv, TypeOK
<1>3. TypeOK'
  BY <1>0, <1>1, <1>2 DEF SchedInv, TypeOK, pickVars, mutexVars
<1>4. IdleAvailable'
  BY <1>0, <1>1, <1>2, ConstantFacts
     DEF SchedInv, TypeOK, IdleAvailable, Ready
<1>5. CurrentRunnable'
  BY <1>0, <1>1, <1>2 DEF SchedInv, TypeOK, CurrentRunnable, Ready, pickVars
<1> QED BY <1>3, <1>4, <1>5 DEF SchedInv

LEMMA MutexAcquireSchedInv ==
    ASSUME SchedInv, NEW m \in Mutexes, MutexAcquire(m)
    PROVE  SchedInv'
<1>1. TypeOK'
  BY DEF SchedInv, TypeOK, MutexAcquire, pickVars
<1> QED
  BY <1>1 DEF SchedInv, IdleAvailable, CurrentRunnable, Ready, MutexAcquire,
              pickVars

LEMMA MutexBlockSchedInv ==
    ASSUME SchedInv, current_task # Idle, NEW m \in Mutexes, MutexBlock(m)
    PROVE  SchedInv'
<1> DEFINE owner == mutex_owner[m]
           lent  == Min2(eff_prio[current_task], eff_prio[owner])
           sl    == [sleep_left EXCEPT ![current_task] = Never]
           ep    == [eff_prio EXCEPT ![owner] = lent]
<1>1. started /\ owner \in Task /\ Reschedule(sl, ep)
  BY DEF MutexBlock, SchedInv, TypeOK
<1>2. current_task \in Task /\ eff_prio[current_task] \in Prio
  BY <1>1 DEF SchedInv, TypeOK, CurrentRunnable
<1>3. lent \in Prio
  <2>1. eff_prio[owner] \in Prio \cup {Unused}
    BY <1>1 DEF SchedInv, TypeOK
  <2>2. \A a \in Prio : a < Unused
    BY ConstantFacts, SMT DEF Prio
  <2> QED BY <1>2, <2>1, <2>2, ConstantFacts DEF Min2
<1>4. sl \in [Task -> Nat \cup {Never}] /\ Ready(sl, Idle)
  BY <1>2, ConstantFacts DEF SchedInv, TypeOK, IdleAvailable, Ready
<1> HIDE DEF lent, owner
<1>5. /\ ep \in [Task -> Prio \cup {Unused}]
      /\ ep[Idle] \in Prio /\ ep[current_task] # Unused
  BY <1>1, <1>2, <1>3, ConstantFacts DEF SchedInv, TypeOK, IdleAvailable
<1>6. /\ UNCHANGED <<started, base_prio, ceiling_depth>>
      /\ mutex_owner' \in [Mutexes -> Task \cup {NoOwner}]
      /\ mutex_waiters' \in [Mutexes -> SUBSET Task]
      /\ hb_elapsed' \in [Task -> Nat]
  BY <1>2 DEF MutexBlock, SchedInv, TypeOK
<1> HIDE DEF sl, ep
<1> QED BY <1>1, <1>4, <1>5, <1>6, RescheduleSchedInv

\* The hand-over finds one of the waiters.
LEMMA NextOwnerWaits ==
    ASSUME TypeOK, NEW m \in Mutexes, mutex_waiters[m] # {}
    PROVE  /\ NextOwner(m) \in mutex_waiters[m]
           /\ \A v \in mutex_waiters[m] : base_prio[NextOwner(m)] <= base_prio[v]
<1> DEFINE W == mutex_waiters[m]
           U == MostUrgent(W, base_prio)
<1>1. W \subseteq Task /\ W # {}
  BY DEF TypeOK
<1>2. U # {} /\ U \subseteq W
  <2> DEFINE f == [t \in W |-> base_prio[t]]
  <2>1. f \in [W -> Nat]
    BY <1>1, ConstantFacts DEF TypeOK
  <2>2. PICK t \in W : \A u \in W : f[t] <= f[u]
    <3> HIDE DEF f, W
    <3> QED BY <1>1, <2>1, ArgMin
  <2> QED BY <2>2 DEF MostUrgent
<1>3. U \in SUBSET Nat
  BY <1>1, <1>2, ConstantFacts
<1>4. \E w \in U : \A v \in U : w <= v
  <2> HIDE DEF U
  <2> QED BY <1>2, <1>3, NatMin
<1>5. NextOwner(m) \in U
  BY <1>4, Zenon DEF NextOwner
<1> QED BY <1>2, <1>5 DEF MostUrgent

LEMMA MutexUnlockSchedInv ==
    ASSUME SchedInv, NEW m \in Mutexes, MutexUnlock(m)
    PROVE  SchedInv'
<1>1. /\ started /\ current_task \in Task
      /\ base_prio[current_task] \in Prio /\ base_prio[current_task] # Unused
  BY ConstantFacts
     DEF MutexUnlock, MutexRelease, MutexHandoff, SchedInv, TypeOK
<1>2. \/ eff_prio' = [eff_prio EXCEPT ![current_task] = base_prio[current_task]]
      \/ eff_prio' = eff_prio
  BY DEF MutexUnlock, MutexRelease, MutexHandoff, PrioAfterUnlock
<1>3. UNCHANGED <<started, pickVars, base_prio, ceiling_depth, hb_elapsed>>
  BY DEF MutexUnlock, MutexRelease, MutexHandoff
<1>4. /\ mutex_owner' \in [Mutexes -> Task \cup {NoOwner}]
      /\ mutex_waiters' \in [Mutexes -> SUBSET Task]
      /\ \/ sleep_left' = sleep_left
         \/ \E w \in Task : sleep_left' = [sleep_left EXCEPT ![w] = 0]
  <2>1. CASE MutexRelease(m)
    BY <2>1 DEF MutexRelease, SchedInv, TypeOK
  <2>2. CASE MutexHandoff(m)
    <3>1. NextOwner(m) \in Task
      BY <2>2, NextOwnerWaits DEF MutexHandoff, SchedInv, TypeOK
    <3> QED BY <2>2, <3>1 DEF MutexHandoff, SchedInv, TypeOK
  <2> QED BY <2>1, <2>2 DEF MutexUnlock
<1>5. /\ eff_prio' \in [Task -> Prio \cup {Unused}] /\ eff_prio'[Idle] \in Prio
      /\ eff_prio'[current_task] # Unused
  BY <1>1, <1>2, ConstantFacts DEF SchedInv, TypeOK, IdleAvailable, CurrentRunnable
<1>6. /\ sleep_left' \in [Task -> Nat \cup {Never}]
      /\ Ready(sleep_left', Idle) /\ Ready(sleep_left', current_task)
  BY <1>1, <1>4, ConstantFacts
     DEF SchedInv, TypeOK, IdleAvailable, CurrentRunnable, Ready
<1>7. TypeOK'
  BY <1>3, <1>4, <1>5, <1>6 DEF SchedInv, TypeOK, pickVars
<1> QED
  BY <1>1, <1>3, <1>5, <1>6, <1>7
     DEF SchedInv, IdleAvailable, CurrentRunnable, pickVars

LEMMA InterruptSchedInv ==
    ASSUME SchedInv, NEW tick \in BOOLEAN, Interrupt(tick)
    PROVE  SchedInv'
<1> DEFINE sleep == [t \in Task |-> IF Evicted(t) THEN HbBound[t]
                                    ELSE sleep_left[t]]
           stamp == [t \in Task |-> IF Overdue(t) THEN 0 ELSE hb_elapsed[t]]
           sl == [t \in Task |-> IF tick THEN TickDown(sleep[t]) ELSE sleep[t]]
<1>1. started /\ Reschedule(sl, eff_prio)
  BY DEF Interrupt
<1>2. sleep \in [Task -> Nat \cup {Never}] /\ stamp \in [Task -> Nat]
  BY TimeAssumption DEF SchedInv, TypeOK
<1>3. \A n \in Nat \cup {Never} : TickDown(n) \in Nat \cup {Never}
  BY SMT DEF TickDown, Never
<1>4. ~Evicted(Idle)
  BY TimeAssumption, ConstantFacts, SMT DEF Evicted, Overdue
<1>5. sleep[Idle] = 0 /\ TickDown(0) = 0
  BY <1>4, ConstantFacts DEF SchedInv, IdleAvailable, Ready, TickDown
<1>6. hb_elapsed' \in [Task -> Nat]
  <2>1. \A a, b \in Nat : Min2(a + 1, b) \in Nat
    BY SMT DEF Min2
  <2>2. hb_elapsed' = [t \in Task |-> IF tick THEN Min2(stamp[t] + 1, HbBound[t])
                                      ELSE stamp[t]]
    BY DEF Interrupt
  <2> HIDE DEF stamp
  <2> QED BY <1>2, <2>1, <2>2, TimeAssumption
<1> HIDE DEF sleep, stamp
<1>7. sl \in [Task -> Nat \cup {Never}] /\ Ready(sl, Idle)
  BY <1>2, <1>3, <1>5, ConstantFacts DEF Ready
<1>8. /\ eff_prio \in [Task -> Prio \cup {Unused}] /\ eff_prio[Idle] \in Prio
      /\ eff_prio[current_task] # Unused
      /\ UNCHANGED <<started, base_prio, ceiling_depth>>
      /\ mutex_owner' \in [Mutexes -> Task \cup {NoOwner}]
      /\ mutex_waiters' \in [Mutexes -> SUBSET Task]
  BY <1>1
     DEF Interrupt, SchedInv, TypeOK, IdleAvailable, CurrentRunnable, mutexVars
<1> HIDE DEF sl
<1> QED BY <1>1, <1>6, <1>7, <1>8, RescheduleSchedInv

LEMMA NextSchedInv == SchedInv /\ [Next]_schedVars => SchedInv'
<1> SUFFICES ASSUME SchedInv, [Next]_schedVars PROVE SchedInv'
  OBVIOUS
<1>1. CASE Boot
  BY <1>1, TaskCreateSchedInv, StartSchedInv DEF Boot
<1>2. CASE Call
  BY <1>2, PrioCallSchedInv, SleepSchedInv, MutexAcquireSchedInv,
     MutexBlockSchedInv, MutexUnlockSchedInv DEF Call, MutexLock
<1>3. CASE \E tick \in BOOLEAN : Interrupt(tick)
  BY <1>3, InterruptSchedInv
<1>4. CASE UNCHANGED schedVars
  BY <1>4 DEF schedVars, pickVars, mutexVars, SchedInv, TypeOK, IdleAvailable,
              CurrentRunnable, Ready
<1> QED BY <1>1, <1>2, <1>3, <1>4 DEF Next

\* Whatever calls the tasks make, in any order, and whenever interrupts
\* come, every table keeps its type and the scheduler only ever runs a
\* created task that is neither asleep nor blocked.
THEOREM SchedulerSafe == Spec => [](TypeOK /\ CurrentRunnable)
<1>1. SchedInv => TypeOK /\ CurrentRunnable
  BY DEF SchedInv
<1> QED BY <1>1, InitSchedInv, NextSchedInv, PTL DEF Spec
=============================================================================
