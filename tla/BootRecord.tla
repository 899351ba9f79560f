----------------------------- MODULE BootRecord -----------------------------
(***************************************************************************)
(* What the boot record promises: stage 0 and the kernel share one record, *)
(* changed by the six operations below, each at once or not at all.  That  *)
(* it lies twice on a card, and is rewritten by a program that may lose    *)
(* its power in the middle of a write, shows only to a reader that cannot  *)
(* read the card: it may come back to the record before, and its operation *)
(* then takes the place of the last one.                                   *)
(***************************************************************************)
EXTENDS Integers

CONSTANTS
    Limit,     \* bootlimit
    Image,     \* what length and SHA-256 identify
    Blank      \* length 0: nothing was ever uploaded

VARIABLES
    rec,
    before,    \* the record before the last operation, unless it is lost
    misread    \* how often rec could not be read

recordVars == <<rec, before, misread>>

Slot == {0, 1}

Other(s) == 1 - s

Reasons == {"power_on", "clean_reboot", "watchdog_or_hang", "auto_fallback"}

\* The attempts are counted no further than Limit + 1, a bound: the code
\* counts on, and only compares with Limit.
Record == [active   : Slot,
           reason   : Reasons,
           attempts : 0 .. Limit + 1,
           ready    : [Slot -> BOOLEAN],
           image    : [Slot -> Image \cup {Blank}]]

\* A boot of the active slot is counted.
Attempt(r) ==
    {[r EXCEPT !.attempts = IF @ <= Limit THEN @ + 1 ELSE @, !.reason = why]
       : why \in Reasons \ {"auto_fallback"}}

\* The active slot has had its attempts, and the other one is ready.
Fallback(r) ==
    {[r EXCEPT !.active = s, !.attempts = 0, !.reason = "auto_fallback"]
       : s \in {o \in Slot : o # r.active /\ r.ready[o] /\ r.attempts >= Limit}}

Confirm(r) == {[r EXCEPT !.attempts = 0]}

Activate(r) ==
    {[r EXCEPT !.active = s, !.attempts = 0] : s \in {o \in Slot : r.ready[o]}}

\* An upload is complete.
Install(r) ==
    UNION {{[r EXCEPT !.ready[s] = TRUE, !.image[s] = i] : i \in Image} : s \in Slot}

NoteReboot(r) == {[r EXCEPT !.reason = "clean_reboot"]}

Operation(r) ==
    Attempt(r) \cup Fallback(r) \cup Confirm(r) \cup Activate(r) \cup Install(r)
      \cup NoteReboot(r)

Init ==
    /\ rec \in Record /\ rec.ready[rec.active]
    /\ before = {rec}
    /\ misread = 0

Operate ==
    /\ before' = {rec}
    /\ rec' \in Operation(rec)
    /\ UNCHANGED misread

\* An operation breaks off.
Lose ==
    /\ before' = {}
    /\ UNCHANGED <<rec, misread>>

\* The record cannot be read: the operation does nothing, or is one on the
\* record before, or breaks off and leaves that one.
Misread ==
    /\ misread' = misread + 1
    /\ \/ UNCHANGED <<rec, before>>
       \/ \E r \in before : rec' \in Operation(r) /\ UNCHANGED before
       \/ \E r \in before : rec' = r /\ before' = {}

RecordSpec == Init /\ [][Operate \/ Lose \/ Misread]_recordVars
=============================================================================
