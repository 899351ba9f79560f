----------------------------- MODULE BootSlots -----------------------------
(***************************************************************************)
(* The two kernel slots: boot/stage0/stage0_main.c, which chooses, counts, *)
(* verifies and starts one, and the parts of kernel_main.vani that confirm *)
(* a boot, switch slots and reboot.  Both sides read and write one record, *)
(* of which the card holds two copies: a lookup takes the newer one of     *)
(* those that it can read and finds valid, and a write goes to the other.  *)
(*                                                                         *)
(* SHA-256 and CRC-32 are taken as free of collisions: an image is known   *)
(* by its blocks, and a copy half written is not valid.  The length of an  *)
(* image is a whole number of blocks.  preferred_slot, written along with  *)
(* active_slot and never read, is left out.                                *)
(***************************************************************************)
EXTENDS Integers, Sequences

CONSTANTS
    Limit,         \* bootlimit
    SlotBlocks,    \* the blocks of a slot
    Image,         \* kernels: sequences of blocks
    Healthy,       \* those that reach PASS
    Junk,          \* what a block holds before any upload
    Watchdog,      \* STAGE0_PREJUMP_WATCHDOG_FOR_REAL_HARDWARE
    MaxCuts,       \* power cuts, a bound
    MaxRefused,    \* failing writes to the card, a bound
    MaxMisread,    \* lookups that miss the newest copy, a bound
    MaxFaults      \* all of these, a bound

ASSUME BootAssumption ==
    /\ Limit \in Nat
    /\ SlotBlocks \in Nat \ {0}
    /\ Healthy \subseteq Image
    /\ \A i \in Image : Len(i) \in 1 .. SlotBlocks
    /\ Watchdog \in BOOLEAN
    /\ MaxCuts \in Nat /\ MaxRefused \in Nat /\ MaxMisread \in Nat
    /\ MaxFaults \in Nat

VARIABLES
    copy,      \* the two copies of the record
    card,      \* the blocks of the two slots, slot B's after slot A's
    pc,        \* how far the machine is
    booted,    \* the slot that stage 0 chose, handed to the kernel in r0
    kernel,    \* the image that it chose, in RAM
    passed,    \* the last kernel started has confirmed itself, and no lookup
               \* has missed the newest copy since
    tries,     \* how often in a row it was started and did not get up
    cuts, refused, misread   \* the faults so far

bootVars == <<copy, card, pc, booted, kernel, passed, tries, cuts, refused, misread>>

Slot == {0, 1}
Copy == {0, 1}
Other(s) == 1 - s

\* An image of length 0: nothing was ever uploaded.
Blank == <<>>

\* A copy without a valid CRC.
Torn == [gen |-> -1,
         rec |-> [active |-> 0, reason |-> "power_on", attempts |-> 0,
                  ready |-> [s \in Slot |-> FALSE], image |-> [s \in Slot |-> Blank]]]

\* tries is counted no further than this, a bound.
MaxTries == Limit + MaxRefused + MaxMisread + 2

(***************************************************************************)
(* Reading and writing the record.  Of the generations only their order    *)
(* and distance matter: they are kept relative to the copy last read, 0.   *)
(***************************************************************************)
Valid(c) == copy[c].gen >= 0

\* The copy that both sides choose, when they can read it.
Newest ==
    IF copy[0].gen >= copy[1].gen THEN 0 ELSE 1

Stale == Other(Newest)

Rec == copy[Newest].rec

Miss ==
    /\ misread < MaxMisread
    /\ cuts + refused + misread < MaxFaults
    /\ misread' = misread + 1

\* A lookup finds copy c: the newest, or the other one, if that is valid and
\* the newest cannot be read.
Lookup(c) ==
    /\ Valid(c)
    /\ IF c = Newest THEN UNCHANGED misread ELSE Miss

\* The newest copy cannot be read, nor can the other, or it is not valid.
LookupFails == Miss

\* Mutant of Saved: the copy that was found is overwritten.
SavedInPlace(c, content) ==
    [copy EXCEPT ![c] = content]

\* The copies, once the one that lookup did not find has been written.
Saved(c, content) ==
    [copy EXCEPT ![c].gen = 0, ![Other(c)] = content]

\* A write fails; the lookup of the same command may have missed before.
Refuse ==
    /\ refused < MaxRefused
    /\ cuts + refused + misread' < MaxFaults
    /\ refused' = refused + 1

\* A write of the record after a lookup that found c is reported as done; or
\* it fails, and leaves the other copy as it was or torn.
Write(c, r) ==
    \/ copy' = Saved(c, [gen |-> 1, rec |-> r]) /\ UNCHANGED refused
    \/ Refuse /\ copy' \in {copy, Saved(c, Torn)}

---------------------------------------------------------------------------
Init ==
    \E i \in Healthy :
        /\ copy = [c \in Copy |->
                     [gen |-> 0,
                      rec |-> [active |-> 0, reason |-> "power_on", attempts |-> 0,
                               ready |-> [s \in Slot |-> s = 0],
                               image |-> [s \in Slot |-> IF s = 0 THEN i ELSE Blank]]]]
        /\ card = [b \in 0 .. 2 * SlotBlocks - 1 |->
                     IF b < Len(i) THEN i[b + 1] ELSE Junk]
        /\ pc = "off"
        /\ booted = 0
        /\ kernel = Blank
        /\ passed = TRUE
        /\ tries = 0
        /\ cuts = 0 /\ refused = 0 /\ misread = 0

\* The card holds image i in slot s.
Holds(s, i) ==
    /\ Len(i) > 0
    /\ \A n \in 1 .. Len(i) : card[s * SlotBlocks + n - 1] = i[n]

Exhausted(r) == r.attempts >= Limit /\ r.ready[Other(r.active)]

\* Mutant of WhyReset: it looks at the count of this boot, not the last.
WhyResetNow(r) ==
    IF r.reason = "clean_reboot" THEN "clean_reboot"
    ELSE IF r.attempts + 1 > 0 THEN "watchdog_or_hang" ELSE "power_on"

WhyReset(r) ==
    IF r.reason = "clean_reboot" THEN "clean_reboot"
    ELSE IF r.attempts > 0 THEN "watchdog_or_hang" ELSE "power_on"

\* Mutant of Counted: the fallback chooses the other slot for this boot only.
CountedOnce(r) ==
    IF Exhausted(r)
    THEN [r EXCEPT !.attempts = 0, !.reason = "auto_fallback"]
    ELSE [r EXCEPT !.attempts = IF @ <= Limit THEN @ + 1 ELSE @,
                   !.reason = WhyReset(r)]

\* The record that stage 0 makes of r.
Counted(r) ==
    IF Exhausted(r)
    THEN [r EXCEPT !.active = Other(@), !.attempts = 0, !.reason = "auto_fallback"]
    ELSE [r EXCEPT !.attempts = IF @ <= Limit THEN @ + 1 ELSE @,
                   !.reason = WhyReset(r)]

\* Stage 0 up to its write of the record, whose failure it only reports.
Select(c) ==
    LET r == Counted(copy[c].rec) IN
    /\ pc = "off"
    /\ Lookup(c)
    /\ Write(c, r)
    /\ booted' = r.active
    /\ kernel' = r.image[r.active]
    /\ pc' = "load"
    /\ passed' = FALSE
    /\ tries' = IF r.active = booted THEN tries ELSE 0
    /\ UNCHANGED <<card, cuts>>

\* Stage 0 finds no record, and halts in stage0_fault.
NoRecord ==
    /\ pc = "off"
    /\ LookupFails
    /\ pc' = "fault"
    /\ UNCHANGED <<copy, card, booted, kernel, passed, tries, cuts, refused>>

\* Stage 0 from there: it starts the image, or halts in stage0_fault.
Load ==
    /\ pc = "load"
    /\ pc' = IF Holds(booted, kernel) THEN "booting" ELSE "fault"
    /\ tries' = IF tries < MaxTries THEN tries + 1 ELSE tries
    /\ UNCHANGED <<copy, card, booted, kernel, passed, cuts, refused, misread>>

Confirmed(r) == [r EXCEPT !.attempts = 0]

\* The kernel prints PASS and calls kernel_slot_mark_boot_good.
MarkBootGood ==
    /\ pc = "booting"
    /\ kernel \in Healthy
    /\ \/ /\ LookupFails
          /\ UNCHANGED <<copy, refused>>
       \/ \E c \in Copy :
            LET r == copy[c].rec IN
            /\ Lookup(c)
            /\ IF r.active = booted /\ r.attempts > 0
               THEN Write(c, Confirmed(r)) ELSE UNCHANGED <<copy, refused>>
    /\ passed' = (Rec'.active = booted /\ Rec'.attempts = 0)
    /\ pc' = "up"
    /\ tries' = 0
    /\ UNCHANGED <<card, booted, kernel, cuts>>

Hang ==
    /\ pc = "booting"
    /\ kernel \notin Healthy
    /\ pc' = "hung"
    /\ UNCHANGED <<copy, card, booted, kernel, passed, tries, cuts, refused, misread>>

WatchdogReset ==
    /\ Watchdog
    /\ pc \in {"hung", "fault"}
    /\ pc' = "off"
    /\ kernel' = Blank
    /\ UNCHANGED <<copy, card, booted, passed, tries, cuts, refused, misread>>

\* The power goes, or a kernel that is up hangs: a copy of the record that
\* is being written may be left torn.
PowerCut ==
    /\ cuts < MaxCuts
    /\ \/ UNCHANGED <<copy, misread>>
       \/ /\ pc \in {"off", "booting", "up"}
          /\ \E c \in Copy : Lookup(c) /\ copy' = Saved(c, Torn)
    /\ cuts + refused + misread' < MaxFaults
    /\ pc' = "off"
    /\ kernel' = Blank
    /\ passed' = (passed /\ misread' = misread)
    /\ cuts' = cuts + 1
    /\ UNCHANGED <<card, booted, tries, refused>>

\* kernelslot activate
Activate(s) ==
    /\ pc = "up"
    /\ \E c \in Copy :
         LET r == copy[c].rec IN
         /\ Lookup(c)
         /\ r.ready[s]
         /\ Write(c, [r EXCEPT !.active = s, !.attempts = 0])
    /\ passed' = (passed /\ misread' = misread)
    /\ UNCHANGED <<card, pc, booted, kernel, tries, cuts>>

\* The reboot command: no failure to note the reason keeps it.
Reboot ==
    /\ pc = "up"
    /\ \/ /\ LookupFails
          /\ UNCHANGED <<copy, refused>>
       \/ \E c \in Copy :
            /\ Lookup(c)
            /\ Write(c, [copy[c].rec EXCEPT !.reason = "clean_reboot"])
    /\ pc' = "off"
    /\ kernel' = Blank
    /\ passed' = (passed /\ misread' = misread)
    /\ UNCHANGED <<card, booted, tries, cuts>>

---------------------------------------------------------------------------
\* The two copies together are one record: every step is one of the
\* operations of BootRecord on it or, when a lookup missed the newest copy,
\* on the record before it.  A write that is torn or refused is never seen.
Boot == INSTANCE BootRecord WITH
    rec <- Rec,
    before <- IF Valid(Stale) THEN {copy[Stale].rec} ELSE {}

OneRecord == Boot!RecordSpec

\* The machine never loses the way back: at every moment each copy that a
\* lookup may find names as ready a slot whose image is whole on the card
\* and does reach PASS.
SomeSlotBoots ==
    \A c \in Copy : Valid(c) =>
        \E s \in Slot :
            /\ copy[c].rec.ready[s]
            /\ copy[c].rec.image[s] \in Healthy
            /\ Holds(s, copy[c].rec.image[s])

\* A slot that does not get up is given up: while the other one is ready, no
\* slot is started more often in a row than bootlimit and one, and once more
\* for each write of the record that failed and for each lookup that missed
\* the newest copy.
RetriesBounded ==
    pc # "off" /\ Rec.ready[Other(booted)] => tries <= Limit + 1 + refused + misread

\* A boot that follows a confirmed one is never reported as one that
\* follows a hang (the reason handed over in r0, resetreason), unless a
\* lookup missed the newest copy since.
NoFalseAlarm ==
    [][passed /\ pc = "off" /\ pc' = "load" /\ misread' = misread
         => Counted(Rec).reason # "watchdog_or_hang"]_bootVars

\* The machine always gets up again, whatever image was uploaded and made
\* active: each failure ends in a reset, and the resets in a fallback.
ComesUp == []<>(pc = "up")
=============================================================================
