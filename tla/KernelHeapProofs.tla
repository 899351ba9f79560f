-------------------------- MODULE KernelHeapProofs --------------------------
(***************************************************************************)
(* Proofs about module KernelHeap.                                         *)
(***************************************************************************)
EXTENDS KernelHeap, TLAPS

LEMMA AlignedUpBound ==
    ASSUME NEW n \in Nat
    PROVE  AlignedUp(n) \in Nat /\ n <= AlignedUp(n)
<1> DEFINE m == n + Align - 1
           q == m \div Align
<1>1. m \in Nat /\ Align \in Nat \ {0}
  BY HeapAssumption
<1>2. q \in Nat
  BY <1>1
<1>3. m = Align * q + (m % Align) /\ m % Align \in 0 .. Align - 1
  BY <1>1
<1>4. n <= q * Align /\ q * Align \in Nat
  BY <1>1, <1>2, <1>3
<1>5. QED
  BY <1>4 DEF AlignedUp

---------------------------------------------------------------------------
(* The tasks' calls may race, but each of them reads a top that is at      *)
(* least the one kernel_main left, and writes one above what it read.      *)

Regions == granted \cup pending

RegionsFit ==
    /\ heap_used <= HeapBytes
    /\ \A r \in Regions : 0 <= r.lo /\ r.lo < r.hi /\ r.hi <= HeapBytes

\* Who allocates when, and one call at a time each.
CallersInOrder ==
    /\ ~started => \A r \in Regions : r.by = Boot
    /\ started => \A p \in pending : p.by # Boot
    /\ \A p, q \in pending : p.by = q.by => p = q

BootBelow ==
    \A r \in granted : r.by = Boot
        => r.hi <= heap_used /\ \A p \in pending : r.hi <= p.lo

HeapInv == TypeOK /\ RegionsFit /\ CallersInOrder /\ BootBelow /\ BootRegionsKept

LEMMA InitHeap == Init => HeapInv
<1> SUFFICES ASSUME Init PROVE HeapInv
  OBVIOUS
<1>1. heap_used = 0 /\ countdown = 0 /\ started = FALSE
  BY DEF Init
<1>2. pending = {} /\ granted = {} /\ stuck = {}
  BY DEF Init
<1>3. TypeOK
  BY <1>1, <1>2 DEF TypeOK
<1>4. RegionsFit
  BY <1>1, <1>2, HeapAssumption DEF RegionsFit, Regions
<1>5. CallersInOrder /\ BootBelow /\ BootRegionsKept
  BY <1>1, <1>2 DEF CallersInOrder, Regions, BootBelow, BootRegionsKept
<1>6. QED
  BY <1>3, <1>4, <1>5 DEF HeapInv

LEMMA ReserveKeeps ==
    ASSUME HeapInv, NEW c \in Caller, NEW n \in Sizes, Reserve(c, n)
    PROVE  HeapInv'
<1> DEFINE lo == AlignedUp(heap_used)
           r  == [by |-> c, lo |-> lo, hi |-> lo + n]
<1>1. lo \in Nat /\ heap_used <= lo /\ lo + n <= HeapBytes /\ n \in Nat \ {0}
  BY AlignedUpBound, HeapAssumption DEF HeapInv, TypeOK, Reserve, Fits
<1>2. r \in Region /\ r.by = c /\ r.lo = lo /\ r.hi = lo + n
  BY <1>1 DEF Region
<1>3. pending' = pending \cup {r} /\ UNCHANGED <<started, heap_used, stuck, granted>>
  BY DEF Reserve
<1> HIDE DEF r, lo
<1>4. TypeOK'
  BY <1>2, <1>3 DEF HeapInv, TypeOK, Reserve, Counted
<1>5. RegionsFit'
  BY <1>1, <1>2, <1>3, HeapAssumption DEF HeapInv, RegionsFit, Regions, TypeOK
<1>6. CallersInOrder'
  <2>1. ~started => c = Boot
    BY DEF Reserve, Runs
  <2>2. started => c # Boot
    BY HeapAssumption DEF Reserve, Runs
  <2>3. \A p \in pending : p.by # c
    BY DEF Reserve, InCall
  <2> QED
    BY <2>1, <2>2, <2>3, <1>2, <1>3 DEF HeapInv, CallersInOrder, Regions
<1>7. BootBelow'
  BY <1>1, <1>2, <1>3 DEF HeapInv, BootBelow, TypeOK, Region
<1>8. BootRegionsKept'
  BY <1>3 DEF HeapInv, BootRegionsKept
<1>9. QED
  BY <1>4, <1>5, <1>6, <1>7, <1>8 DEF HeapInv

LEMMA BumpKeeps ==
    ASSUME HeapInv, NEW r \in pending, Bump(r)
    PROVE  HeapInv'
<1>1. /\ heap_used' = r.hi
      /\ granted' = granted \cup {r}
      /\ pending' = pending \ {r}
      /\ UNCHANGED <<started, countdown, stuck>>
  BY DEF Bump
<1>2. /\ r \in Region /\ r.lo \in Int /\ r.hi \in Int
      /\ 0 <= r.lo /\ r.lo < r.hi /\ r.hi <= HeapBytes
  BY DEF HeapInv, TypeOK, Region, RegionsFit, Regions
<1>3. TypeOK'
  BY <1>1, <1>2 DEF HeapInv, TypeOK
<1>4. RegionsFit'
  BY <1>1, <1>2 DEF HeapInv, RegionsFit, Regions
<1>5. CallersInOrder'
  BY <1>1 DEF HeapInv, CallersInOrder, Regions
<1>6. BootBelow'
  <2>1. r.by = Boot => pending = {r}
    <3>1. r.by = Boot => ~started
      BY DEF HeapInv, CallersInOrder
    <3>2. QED
      BY <3>1 DEF HeapInv, CallersInOrder, Regions
  <2>2. ASSUME NEW s \in granted, s.by = Boot
        PROVE  s.hi <= r.hi
    BY <2>2, <1>2 DEF HeapInv, BootBelow, TypeOK, Region
  <2>3. QED
    BY <2>1, <2>2, <1>1, <1>2 DEF HeapInv, BootBelow
<1>7. BootRegionsKept'
  <2>1. ASSUME NEW s \in granted, s.by = Boot
        PROVE  Disjoint(s, r) /\ Disjoint(r, s)
    BY <2>1 DEF HeapInv, BootBelow, Disjoint
  <2>2. ASSUME r.by = Boot, NEW s \in granted
        PROVE  s.by = Boot
    BY <2>2 DEF HeapInv, CallersInOrder, Regions
  <2>3. QED
    BY <2>1, <2>2, <1>1 DEF HeapInv, BootRegionsKept
<1>8. QED
  BY <1>3, <1>4, <1>5, <1>6, <1>7 DEF HeapInv

LEMMA OtherStepsKeep ==
    ASSUME HeapInv,
           \/ StartMultitasking
           \/ \E c \in Caller, n \in Sizes : Exhausted(c, n)
           \/ \E n \in Faults : ArmFault(n)
           \/ UNCHANGED vars
    PROVE  HeapInv'
<1>1. /\ UNCHANGED <<heap_used, pending, granted>>
      /\ started' # started => StartMultitasking
  BY DEF StartMultitasking, Exhausted, ArmFault, vars
<1>2. TypeOK'
  <2>1. countdown' \in Nat
    BY HeapAssumption
       DEF HeapInv, TypeOK, StartMultitasking, Exhausted, Counted, ArmFault, vars
  <2>2. stuck' \subseteq Caller /\ started' \in BOOLEAN
    BY DEF HeapInv, TypeOK, StartMultitasking, Exhausted, ArmFault, vars
  <2>3. QED
    BY <1>1, <2>1, <2>2 DEF HeapInv, TypeOK
<1>3. CallersInOrder'
  <2>1. CASE StartMultitasking
    <3>1. pending = {}
      BY <2>1 DEF HeapInv, CallersInOrder, Regions, StartMultitasking, InCall
    <3>2. QED
      BY <3>1, <2>1, <1>1 DEF StartMultitasking, CallersInOrder
  <2>2. CASE ~StartMultitasking
    BY <2>2, <1>1 DEF HeapInv, CallersInOrder, Regions
  <2>3. QED
    BY <2>1, <2>2
<1>4. QED
  BY <1>1, <1>2, <1>3
     DEF HeapInv, RegionsFit, Regions, BootBelow, BootRegionsKept

LEMMA HeapInvariant == Spec => []HeapInv
<1>1. HeapInv /\ [Next]_vars => HeapInv'
  <2> SUFFICES ASSUME HeapInv, [Next]_vars PROVE HeapInv'
    OBVIOUS
  <2>1. ASSUME NEW c \in Caller, NEW n \in Sizes, Reserve(c, n) PROVE HeapInv'
    BY <2>1, ReserveKeeps
  <2>2. ASSUME NEW r \in pending, Bump(r) PROVE HeapInv'
    BY <2>2, BumpKeeps
  <2>3. QED
    BY <2>1, <2>2, OtherStepsKeep DEF Next
<1>2. QED
  BY InitHeap, <1>1, PTL DEF Spec

\* For any number of tasks, any sizes and any interleaving of their calls:
\* every region dhruva_alloc_bytes returns lies within the heap, because the
\* top that a call writes is one that it has checked.
THEOREM RegionsWithinHeap == Spec => []WithinHeap
<1>1. HeapInv => WithinHeap
  BY DEF HeapInv, RegionsFit, Regions, WithinHeap
<1>2. QED
  BY HeapInvariant, <1>1, PTL

\* However those calls race, what kernel_main allocated before multitasking
\* is never handed out again.
THEOREM HeapSafe == Spec => [](TypeOK /\ BootRegionsKept)
<1>1. HeapInv => TypeOK /\ BootRegionsKept
  BY DEF HeapInv
<1>2. QED
  BY HeapInvariant, <1>1, PTL

---------------------------------------------------------------------------
(* One allocating task: no two calls are ever in progress together, and    *)
(* the top never goes back.                                                *)

Stacked ==
    /\ \A p, q \in pending : p = q
    /\ \A p \in pending : heap_used <= p.lo
    /\ \A r \in granted : r.hi <= heap_used

AloneInv == HeapInv /\ Stacked /\ RegionsDisjoint

LEMMA StackedStep ==
    ASSUME NEW only, Task = {only}, AloneInv, HeapInv', [Next]_vars
    PROVE  Stacked' /\ RegionsDisjoint'
<1>1. ASSUME NEW c \in Caller, NEW n \in Sizes, Reserve(c, n)
      PROVE  Stacked' /\ RegionsDisjoint'
  <2> DEFINE lo == AlignedUp(heap_used)
             r  == [by |-> c, lo |-> lo, hi |-> lo + n]
  <2>1. heap_used <= lo
    BY AlignedUpBound DEF AloneInv, HeapInv, TypeOK
  <2>2. r.lo = lo /\ r.by = c
    OBVIOUS
  <2>3. pending' = pending \cup {r} /\ UNCHANGED <<started, heap_used, granted>>
    BY <1>1 DEF Reserve
  <2> HIDE DEF r, lo
  <2>4. pending = {}
    <3>1. ASSUME NEW p \in pending PROVE FALSE
      <4>1. p.by \in Caller /\ p.by # c
        BY <1>1 DEF AloneInv, HeapInv, TypeOK, Region, Reserve, InCall
      <4>2. started => p.by # Boot /\ c # Boot
        BY <1>1, HeapAssumption
           DEF AloneInv, HeapInv, CallersInOrder, Reserve, Runs
      <4>3. ~started => p.by = Boot /\ c = Boot
        BY <1>1 DEF AloneInv, HeapInv, CallersInOrder, Regions, Reserve, Runs
      <4>4. QED
        BY <4>1, <4>2, <4>3 DEF Caller
    <3>2. QED
      BY <3>1
  <2>5. QED
    BY <2>1, <2>2, <2>3, <2>4 DEF AloneInv, Stacked, RegionsDisjoint
<1>2. ASSUME NEW r \in pending, Bump(r)
      PROVE  Stacked' /\ RegionsDisjoint'
  <2>1. /\ heap_used' = r.hi
        /\ granted' = granted \cup {r}
        /\ pending' = {}
    BY <1>2 DEF Bump, AloneInv, Stacked
  <2>2. /\ heap_used \in Int /\ r.lo \in Int /\ r.hi \in Int
        /\ heap_used <= r.lo /\ r.lo < r.hi
    BY DEF AloneInv, HeapInv, TypeOK, Region, RegionsFit, Regions, Stacked
  <2>3. ASSUME NEW s \in granted
        PROVE  s.hi \in Int /\ s.hi <= r.lo /\ s.hi <= r.hi
    BY <2>2 DEF AloneInv, HeapInv, TypeOK, Region, Stacked
  <2>4. Stacked'
    BY <2>1, <2>2, <2>3 DEF Stacked
  <2>5. RegionsDisjoint'
    BY <2>1, <2>3 DEF AloneInv, RegionsDisjoint, Disjoint
  <2>6. QED
    BY <2>4, <2>5
<1>3. CASE UNCHANGED <<heap_used, pending, granted>>
  BY <1>3 DEF AloneInv, Stacked, RegionsDisjoint
<1>4. QED
  BY <1>1, <1>2, <1>3 DEF Next, StartMultitasking, Exhausted, ArmFault, vars

\* With a single task that allocates, the bump pointer needs no protection:
\* every two regions dhruva_alloc_bytes ever returned are disjoint.
THEOREM AloneDisjoint ==
    ASSUME NEW only, Task = {only}
    PROVE  Spec => []RegionsDisjoint
<1>1. Init => AloneInv
  <2> SUFFICES ASSUME Init PROVE AloneInv
    OBVIOUS
  <2>1. pending = {} /\ granted = {}
    BY DEF Init
  <2>2. QED
    BY <2>1, InitHeap DEF AloneInv, Stacked, RegionsDisjoint
<1>2. HeapInv /\ HeapInv' /\ AloneInv /\ [Next]_vars => AloneInv'
  BY StackedStep DEF AloneInv
<1>3. AloneInv => RegionsDisjoint
  BY DEF AloneInv
<1>4. QED
  BY <1>1, <1>2, <1>3, HeapInvariant, PTL DEF Spec
=============================================================================
