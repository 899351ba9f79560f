----------------------------- MODULE KernelHeap -----------------------------
(***************************************************************************)
(* The bump allocator of boot/rpi1/runtime_stubs.c.  Nothing is ever       *)
(* freed: dhruva_alloc_bytes reads dhruva_heap_used, checks the new top    *)
(* against the size of the heap and writes it back.  It means to be        *)
(* atomic: it masks IRQ around the three.  kernel_main calls it alone, and *)
(* there it is.  The tasks run in user mode, where cpsid does nothing, and *)
(* the timer that preempts them is an FIQ, which cpsid i does not mask in  *)
(* any mode: once started, a call of another task fits between the read    *)
(* and the write.                                                          *)
(*                                                                         *)
(* The zero fill and dhruva_alloc_count, a diagnostic, are left out.  The  *)
(* fault countdown, a test aid with a race of its own, changes in the step *)
(* that reads the top.                                                     *)
(***************************************************************************)
EXTENDS Integers

CONSTANTS
    HeapBytes,   \* DHRUVA_HEAP_BYTES
    Align,       \* 8
    Sizes,       \* arguments of dhruva_alloc_bytes
    Task,        \* the tasks that allocate once multitasking has started
    Boot,        \* kernel_main, before that
    Faults       \* arguments of dhruva_fault_inject_alloc_arm

ASSUME HeapAssumption ==
    /\ HeapBytes \in Nat
    /\ Align \in Nat \ {0}
    /\ Sizes \subseteq Nat \ {0}
    /\ Boot \notin Task
    /\ Faults \subseteq Nat

VARIABLES
    started,     \* start_multitasking has run
    heap_used,
    countdown,   \* dhruva_fault_inject_alloc_countdown, 0 when disarmed
    pending,     \* the regions that calls in progress are about to take
    stuck,       \* the callers that dhruva_oom_fatal never returned to
    granted      \* the regions handed out

vars == <<started, heap_used, countdown, pending, stuck, granted>>

Caller == Task \cup {Boot}

\* Region [lo, hi) of the heap, given to by.
Region == [by : Caller, lo : Int, hi : Int]

Init ==
    /\ started = FALSE
    /\ heap_used = 0
    /\ countdown = 0
    /\ pending = {}
    /\ stuck = {}
    /\ granted = {}

Runs(c) ==
    /\ IF started THEN c \in Task ELSE c = Boot
    /\ c \notin stuck

InCall(c) == \E r \in pending : r.by = c

AlignedUp(n) == ((n + Align - 1) \div Align) * Align

\* Mutant of Fits: the check looks at the top before it is aligned.
FitsUnaligned(n) == heap_used + n <= HeapBytes

Fits(n) == AlignedUp(heap_used) + n <= HeapBytes

\* The armed countdown reaches its end with this call.
Injected == countdown = 1

Counted == IF countdown > 0 THEN countdown - 1 ELSE 0

\* Up to the check, with the result in registers.
Reserve(c, n) ==
    LET lo == AlignedUp(heap_used) IN
    /\ Runs(c)
    /\ ~InCall(c)
    /\ ~Injected
    /\ Fits(n)
    /\ pending' = pending \cup {[by |-> c, lo |-> lo, hi |-> lo + n]}
    /\ countdown' = Counted
    /\ UNCHANGED <<started, heap_used, stuck, granted>>

\* dhruva_oom_fatal
Exhausted(c, n) ==
    /\ Runs(c)
    /\ ~InCall(c)
    /\ Injected \/ ~Fits(n)
    /\ stuck' = stuck \cup {c}
    /\ countdown' = Counted
    /\ UNCHANGED <<started, heap_used, pending, granted>>

\* Mutant of Bump: the top is left as it was.
BumpForgotten(r) ==
    /\ Runs(r.by)
    /\ granted' = granted \cup {r}
    /\ pending' = pending \ {r}
    /\ UNCHANGED <<started, heap_used, countdown, stuck>>

\* The write of dhruva_heap_used, and the return.
Bump(r) ==
    /\ Runs(r.by)
    /\ heap_used' = r.hi
    /\ granted' = granted \cup {r}
    /\ pending' = pending \ {r}
    /\ UNCHANGED <<started, countdown, stuck>>

\* The shell's fault-injection command.
ArmFault(n) ==
    /\ started
    /\ \E c \in Task : Runs(c) /\ ~InCall(c)
    /\ countdown' = n
    /\ UNCHANGED <<started, heap_used, pending, stuck, granted>>

StartMultitasking ==
    /\ ~started
    /\ ~InCall(Boot)
    /\ Boot \notin stuck
    /\ started' = TRUE
    /\ UNCHANGED <<heap_used, countdown, pending, stuck, granted>>

Next ==
    \/ StartMultitasking
    \/ \E c \in Caller, n \in Sizes : Reserve(c, n) \/ Exhausted(c, n)
    \/ \E r \in pending : Bump(r)
    \/ \E n \in Faults : ArmFault(n)

Spec == Init /\ [][Next]_vars

---------------------------------------------------------------------------
TypeOK ==
    /\ started \in BOOLEAN
    /\ heap_used \in Nat
    /\ countdown \in Nat
    /\ pending \subseteq Region
    /\ stuck \subseteq Caller
    /\ granted \subseteq Region

Disjoint(r, s) == r.hi <= s.lo \/ s.hi <= r.lo

\* However the calls interleave, no region handed out reaches past the end
\* of the heap: every writer writes a top that it has checked.
WithinHeap == \A r \in granted : 0 <= r.lo /\ r.hi <= HeapBytes

\* What kernel_main allocated, the SD and network buffers among it, is never
\* handed out again, even when the tasks' calls race: a stale top is never
\* older than the last top that kernel_main wrote.
BootRegionsKept ==
    \A r, s \in granted : r.by = Boot /\ s # r => Disjoint(r, s)

\* No two regions overlap ("sufficient -- no real critical-section primitive
\* needed", dhruva_alloc_bytes' comment).
RegionsDisjoint == \A r, s \in granted : s # r => Disjoint(r, s)
=============================================================================
