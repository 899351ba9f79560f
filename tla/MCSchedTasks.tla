--------------------------- MODULE MCSchedTasks ---------------------------
(***************************************************************************)
(* Instances of SchedTasks small enough for TLC: the hard-real-time task   *)
(* HIGH in slot 0, idle in slot 1, a low-priority task in slot 2 and one   *)
(* or two slots for created tasks.                                         *)
(***************************************************************************)
EXTENDS SchedTasks, TLC

McMaxTasks  == 4
McIdle      == 1
McFixedPrio == (0 :> 0) @@ (McIdle :> 3) @@ (2 :> 2)
McPrio      == 0 .. 3
McUnused    == 12

Unsupervised == [t \in 0 .. McMaxTasks - 1 |-> 0]
\* HIGH and the low task are supervised; idle is not.
Supervised   == [Unsupervised EXCEPT ![0] = 2, ![2] = 3]

\* The demo mutex, used by everyone but idle.
MutexUsers   == [m \in {"demo"} |-> {0, 2, 3}]
NoCeiling    == [r \in {} |-> 0]

\* The file system's ceiling is the created task's priority, 1: both it and
\* the low task use the section, HIGH does not.  HIGH's own section and the
\* created task share a section at the system ceiling.
FsCeiling    == [r \in {"fs"} |-> 1]
FsUsers      == [r \in {"fs"} |-> {2, 3}]
BothCeilings == [r \in {"fs", "top"} |-> IF r = "fs" THEN 1 ELSE 0]
AllUsers     == [s \in {"fs", "top", "demo"} |->
                    CASE s = "fs" -> {2, 3} [] s = "top" -> {0, 3} [] OTHER -> {0, 2}]

\* Everyone but idle uses the mutex, and the low and the created task the
\* file system's section, in which they may take the mutex.
NestedUsers  == [s \in {"fs", "demo"} |-> IF s = "fs" THEN {2, 3} ELSE {0, 2, 3}]

NonIdle == {0, 2, 3}

\* Two created tasks, so that three can wait for one mutex at a time and two
\* of them at one priority.
Mc5MaxTasks      == 5
Mc5Unsupervised  == [t \in 0 .. Mc5MaxTasks - 1 |-> 0]
Mc5MutexUsers    == [m \in {"demo"} |-> {0, 2, 3, 4}]

\* The demo mutex is a HandoffLock: Abstract("demo") of SchedTasks, written
\* out because TLC takes no parameterised instance in a PROPERTY.
Demo == INSTANCE HandoffLock
    WITH owner   <- mutex_owner["demo"],
         waiting <- mutex_waiters["demo"],
         runner  <- current_task,
         urgency <- base_prio

DemoHandsOff == Demo!Spec
==========================================================================
