---------------------------- MODULE KernelUpload ----------------------------
(***************************************************************************)
(* The kernelupload command of kernel_main.vani beside the boot slots: a   *)
(* new image goes, block by block, into the slot that is not active, and   *)
(* commit marks it ready.  There are three ways to send the blocks, on one *)
(* set of variables in RAM: chunk, in hexadecimal lines of the shell;      *)
(* stream, raw, with the shell deaf until the last byte or ten seconds of  *)
(* silence; and the resumable upload, a stream for each part, with its     *)
(* progress on the card.  Here a part is one block.                        *)
(*                                                                         *)
(* The progress record is kept in two copies like the boot record, and     *)
(* read and written in the same way.  It is one register here: that a      *)
(* lookup may miss its newest copy, as one of the boot record may, is left *)
(* out.                                                                    *)
(***************************************************************************)
EXTENDS BootSlots

CONSTANTS
    Careful,       \* the operator keeps to the rules MayUpload and MayResume
    ResumeLimit    \* KERNELUPLOAD_CHUNK_ATTEMPT_LIMIT

ASSUME UploadAssumption == Careful \in BOOLEAN /\ ResumeLimit \in Nat \ {0}

VARIABLES
    up,      \* the upload in RAM, in the .bss: lost with a reset
    prog     \* the progress record, or NoProgress

vars == <<copy, card, pc, booted, kernel, passed, tries, cuts, refused, misread,
          up, prog>>

NoProgress == [target |-> 0, image |-> <<>>, confirmed |-> 0, attempts |-> 0]

\* on: kernelupload_active; expect: the length of the stream in progress, 0
\* if there is none; offset: kernelupload_chunk_base_block_offset; digest:
\* what has been hashed, so far as it can still become an image.
NoUpload ==
    [on |-> FALSE, target |-> 0, total |-> 0, offset |-> 0, expect |-> 0,
     digest |-> <<>>]

\* What is left of an upload that is over, as far as it matters.
Ended(u) == [NoUpload EXCEPT !.total = u.total, !.offset = u.offset]

UploadInit == Init /\ up = NoUpload /\ prog = NoProgress

Prefixes == UNION {{SubSeq(i, 1, n) : n \in 0 .. Len(i)} : i \in Image}

Hashed(blocks) == IF blocks \in Prefixes THEN blocks ELSE <<Junk>>

\* What may arrive as the n-th block: of one image, or another.
Received(n) == {i[n] : i \in {j \in Image : Len(j) >= n}}

\* All that a block may hold.
Known == {Junk} \cup UNION {Received(n) : n \in 1 .. SlotBlocks}

\* The rules, which the code does not check: no upload while a copy of the
\* record names another slot as active than the running one, or another
\* image in that than the running one, as after an activate or a fallback ...
MayUpload ==
    Careful => \A c \in Copy : Valid(c) =>
        /\ copy[c].rec.active = booted
        /\ copy[c].rec.image[booted] = kernel

\* ... and none that goes on, from before a fallback, into the slot that is
\* running now.
MayResume == MayUpload /\ (Careful => prog.target # booted)

\* Mutant of Target: the running slot.
TargetActive(c) == copy[c].rec.active

\* Where a new upload goes, when its lookup has found copy c.
Target(c) == Other(copy[c].rec.active)

Idle == pc = "up" /\ up.expect = 0

\* kernelupload_accumulate_bytes, with one block: a failure ends the upload.
Accumulate(u, b) ==
    LET at == u.target * SlotBlocks + u.offset + u.total IN
    /\ at < 2 * SlotBlocks
    /\ \/ /\ card' = [card EXCEPT ![at] = b]
          /\ up' = [u EXCEPT !.total = @ + 1,
                             !.digest = Hashed(Append(@, b)),
                             !.expect = IF @ = u.total + 1 THEN 0 ELSE @]
          /\ UNCHANGED refused
       \/ /\ Refuse
          /\ up' = Ended([u EXCEPT !.total = @ + 1])
          /\ UNCHANGED card
    /\ UNCHANGED <<copy, pc, booted, kernel, passed, tries, cuts, prog>>

\* chunk: a first one starts an upload, but leaves the offset as it is, and
\* there is no check that the slot has room.
Chunk ==
    /\ Idle
    /\ MayUpload
    /\ Careful => up.offset + (IF up.on THEN up.total ELSE 0) < SlotBlocks
    /\ \/ /\ up.on
          /\ UNCHANGED misread
          /\ \E b \in Received(up.total + 1) : Accumulate(up, b)
       \/ /\ ~up.on
          /\ \E c \in Copy, b \in Received(1) :
               /\ Lookup(c)
               /\ Accumulate([NoUpload EXCEPT !.on = TRUE, !.target = Target(c),
                                              !.offset = up.offset], b)

Stream(n) ==
    /\ Idle
    /\ MayUpload
    /\ \E c \in Copy :
         /\ Lookup(c)
         /\ up' = [NoUpload EXCEPT !.on = TRUE, !.target = Target(c), !.expect = n]
    /\ UNCHANGED <<copy, card, pc, booted, kernel, passed, tries, cuts, refused, prog>>

\* task_f takes a block from the ring.
StreamBlock ==
    /\ pc = "up"
    /\ up.expect > 0
    /\ UNCHANGED misread
    /\ \E b \in Received(up.offset + up.total + 1) : Accumulate(up, b)

\* Nothing came for ten seconds.
StreamTimeout ==
    /\ pc = "up"
    /\ up.expect > 0
    /\ up' = Ended(up)
    /\ UNCHANGED <<bootVars, prog>>

Abort ==
    /\ Idle
    /\ up' = [NoUpload EXCEPT !.offset = up.offset]
    /\ UNCHANGED <<bootVars, prog>>

---------------------------------------------------------------------------
\* The progress record is written, or that fails and the command ends.
WriteProgress(p) ==
    /\ \/ prog' = p /\ UNCHANGED refused
       \/ prog' = prog /\ Refuse
    /\ UNCHANGED copy

InProgress == prog # NoProgress /\ prog.confirmed < Len(prog.image)

\* resumebegin: the answers ALLDONE, LIMIT_EXCEEDED and BUSY change nothing.
ResumeBegin(i) ==
    /\ Idle
    /\ MayUpload
    /\ \E c \in Copy :
         LET same == prog # NoProgress /\ prog.target = Target(c) /\ prog.image = i IN
         /\ Lookup(c)
         /\ IF same
            THEN /\ InProgress
                 /\ prog.attempts < ResumeLimit
                 /\ WriteProgress([prog EXCEPT !.attempts = @ + 1])
            ELSE /\ ~InProgress
                 /\ WriteProgress([target |-> Target(c), image |-> i, confirmed |-> 0,
                                   attempts |-> 1])
    /\ UNCHANGED <<card, pc, booted, kernel, passed, tries, cuts, up>>

ResumeChunk ==
    /\ Idle
    /\ InProgress
    /\ MayResume
    /\ up' = [NoUpload EXCEPT !.on = TRUE, !.target = prog.target,
                              !.offset = prog.confirmed, !.expect = 1]
    /\ UNCHANGED <<bootVars, prog>>

\* Digest of the first n blocks on the card in slot s.
OnCard(s, n) == Hashed([k \in 1 .. n |-> card[s * SlotBlocks + k - 1]])

\* resumeverify reads the part back; after the last part the whole image is
\* hashed from the card, and lies ready for commit.
ResumeVerify ==
    LET n == prog.confirmed + 1
        good == /\ up.total = 1
                /\ card[prog.target * SlotBlocks + n - 1] = prog.image[n]
        whole == n = Len(prog.image) IN
    /\ Idle
    /\ InProgress
    /\ MayResume
    /\ UNCHANGED misread
    /\ IF good THEN WriteProgress([prog EXCEPT !.confirmed = n])
               ELSE UNCHANGED <<prog, copy, refused>>
    /\ up' = IF good /\ prog' # prog /\ whole
             THEN [up EXCEPT !.on = TRUE, !.target = prog.target, !.total = n,
                             !.digest = OnCard(prog.target, n)]
             ELSE Ended(up)
    /\ UNCHANGED <<card, pc, booted, kernel, passed, tries, cuts>>

ResumeAbort ==
    /\ Idle
    /\ prog # NoProgress
    /\ up' = [NoUpload EXCEPT !.offset = up.offset]
    /\ UNCHANGED misread
    /\ WriteProgress(NoProgress)
    /\ UNCHANGED <<card, pc, booted, kernel, passed, tries, cuts>>

---------------------------------------------------------------------------
\* Mutant of Verified: the card is not read back.
VerifiedHash(i) == up.total = Len(i) /\ up.digest = i

\* commit finds what was received, and what the card holds, to be image i.
Verified(i) == up.total = Len(i) /\ up.digest = i /\ Holds(up.target, i)

Installed(r, i) == [r EXCEPT !.ready[up.target] = TRUE, !.image[up.target] = i]

\* commit: the boot record, then, if that went well, the progress record,
\* whose clearing nobody checks.
Commit(i) ==
    /\ Idle
    /\ up.on
    /\ Verified(i)
    /\ \E c \in Copy : Lookup(c) /\ Write(c, Installed(copy[c].rec, i))
    /\ up' = Ended(up)
    /\ prog' \in IF prog # NoProgress /\ refused' = refused /\ prog.target = up.target
                 THEN {NoProgress, prog} ELSE {prog}
    /\ passed' = (passed /\ misread' = misread)
    /\ UNCHANGED <<card, pc, booted, kernel, tries, cuts>>

\* commit names another digest than that of what was received, or what the
\* card holds has another, or cannot be read, or no record can be.
CommitRefused ==
    /\ Idle
    /\ up.on /\ up.total > 0
    /\ up' = Ended(up)
    /\ UNCHANGED <<bootVars, prog>>

\* A boot loses the RAM; the shell is deaf while a stream is received.
BootStep ==
    /\ \/ \E c \in Copy : Select(c)
       \/ NoRecord \/ Load \/ MarkBootGood \/ Hang \/ WatchdogReset \/ PowerCut
       \/ Idle /\ (Reboot \/ \E s \in Slot : Activate(s))
    /\ up' = IF pc' = "up" THEN up ELSE NoUpload
    /\ prog' = prog

UploadStep ==
    \/ Chunk \/ StreamBlock \/ StreamTimeout \/ Abort
    \/ ResumeChunk \/ ResumeVerify \/ ResumeAbort \/ CommitRefused
    \/ \E i \in Image : Stream(Len(i))
    \/ \E i \in Image : ResumeBegin(i) \/ Commit(i)

UploadNext == BootStep \/ UploadStep

UploadSpec == UploadInit /\ [][UploadNext]_vars

\* Stage 0 and the kernel run on by themselves, and the watchdog fires.
BootFairness ==
    WF_vars(pc # "up" /\ UNCHANGED <<cuts, refused, misread>> /\ BootStep)

FairUploadSpec == UploadSpec /\ BootFairness

---------------------------------------------------------------------------
UploadTypeOK ==
    /\ copy \in [Copy -> {Torn} \cup [gen : 0 .. 1, rec : Boot!Record]]
    /\ Valid(Newest)
    /\ card \in [0 .. 2 * SlotBlocks - 1 -> Known]
    /\ pc \in {"off", "load", "booting", "up", "hung", "fault"}
    /\ booted \in Slot
    /\ kernel \in Image \cup {Blank}
    /\ passed \in BOOLEAN
    /\ tries \in 0 .. MaxTries
    /\ cuts \in 0 .. MaxCuts
    /\ refused \in 0 .. MaxRefused
    /\ misread \in 0 .. MaxMisread
    /\ up \in [on : BOOLEAN, target : Slot, total : Nat, offset : Nat, expect : Nat,
               digest : Prefixes \cup {<<>>, <<Junk>>}]
    /\ \/ prog = NoProgress
       \/ prog \in [target : Slot, image : Image, confirmed : Nat, attempts : Nat]

\* A copy of the record comes to name an image for a slot that no copy named
\* before only when the card holds just that one in it: so commit does,
\* whichever ways of uploading were mixed before, where they wrote, and what
\* was left of them in RAM.
CommittedWhole ==
    [][\A c \in Copy, s \in Slot :
         copy'[c].gen >= 0 =>
            \/ \E d \in Copy : Valid(d) /\ copy[d].rec.image[s] = copy'[c].rec.image[s]
            \/ Holds(s, copy'[c].rec.image[s])]_vars
=============================================================================
