----------------------------- MODULE Stage0Load -----------------------------
(***************************************************************************)
(* stage0_main of boot/stage0/stage0_main.c on the SD driver: it reads the *)
(* two copies of the boot record, writes the next one over the stale copy, *)
(* loads the payload block by block, hashes it in pieces and jumps to it,  *)
(* or halts.  Which slot the record names next, and what becomes of a boot *)
(* after the jump, is BootSlots' part: here a record keeps its slot.  The  *)
(* length, in bytes in the code, is in words.                              *)
(***************************************************************************)
EXTENDS SdHost, Sha256Stream

CONSTANTS
    SlotBlocks,  \* the blocks of a slot: 12288
    ShaChunk,    \* the length of the pieces that are hashed: 256 KiB
    Data,        \* the words of images, and what else is in no record
    Cards        \* what the card may hold at first

VARIABLES
    pc,          \* how far stage0_main is
    got,         \* what it has read of the copies
    chosen,      \* the record of this boot
    ram,         \* the memory from REAL_KERNEL_LOAD_ADDR on
    i,           \* the next block, then the offset hashed so far
    ctx,         \* the SHA-256 context
    code         \* of stage0_fault, less 0xDEAD0000

mainVars == <<pc, got, chosen, ram, i, ctx, code>>
vars == <<sdVars, mainVars>>

Slot == {0, 1}
Copy == {0, 1}

\* The blocks are numbered: the two copies, the two slots, and the rest.
CopyBlock(c) == c
SlotBlock(s, n) == 2 + s * SlotBlocks + n

NoRecord == [gen |-> -1, slot |-> 0, image |-> <<>>]

\* build_slot_state, with the magic number and the CRC in every word; image
\* stands for the length and the digest in the record.
RecordBlock(r) == [w \in 1 .. Words |-> <<"record", r, w>>]

\* parse_slot_state
Parsed(words) ==
    IF /\ Len(words) = Words /\ words[1][1] = "record"
       /\ words = RecordBlock(words[1][2])
    THEN words[1][2]
    ELSE NoRecord

Record == [gen : Nat, slot : Slot, image : Seq(Data)]

RecordWord == {"record"} \X Record \X (1 .. Words)

Word == Data \cup {Damaged} \cup RecordWord

\* Of the two copies one is valid at least, and not the same as the other; a
\* word of a record lies in its place, and not where a wrong address leads.
CardOK(c) ==
    /\ c \in [Block -> [1 .. Words -> Word]]
    /\ \A b \in Block, w \in 1 .. Words :
          c[b][w] \in RecordWord => b # Far /\ c[b][w][3] = w
    /\ Parsed(c[CopyBlock(0)]) # Parsed(c[CopyBlock(1)])

ASSUME Stage0Assumption ==
    /\ SlotBlocks \in Nat \ {0} /\ ShaChunk \in Nat \ {0}
    /\ Far = SlotBlock(1, SlotBlocks) /\ Block = 0 .. Far
    /\ \A d \in Data : d[1] # "record"
    /\ \A c \in Cards : CardOK(c)

Init ==
    /\ card \in Cards
    /\ SdInit
    /\ pc = "start"
    /\ got = [c \in Copy |-> NoRecord]
    /\ chosen = NoRecord
    /\ ram = <<>>
    /\ i = 0
    /\ ctx = ShaInit
    /\ code = 0

---------------------------------------------------------------------------
\* The driver's call is over.
After(step) == pc = step /\ Done

Fault(n) == pc' = "fault" /\ code' = n

Start ==
    /\ pc = "start"
    /\ CallInit
    /\ pc' = "init"
    /\ UNCHANGED <<card, sdhc, isSdhc, sd, faults, got, chosen, ram, i, ctx, code>>

ReadFirst ==
    /\ After("init")
    /\ IF drv.ok
       THEN /\ CallRead(CopyBlock(0))
            /\ pc' = "first"
            /\ UNCHANGED code
       ELSE Fault(1) /\ UNCHANGED drv
    /\ UNCHANGED <<card, sdhc, isSdhc, sd, faults, got, chosen, ram, i, ctx>>

\* What the block just read holds, if it was read.
Heard == IF drv.ok THEN Parsed(drv.buf) ELSE NoRecord

ReadSecond ==
    /\ After("first")
    /\ got' = [got EXCEPT ![0] = Heard]
    /\ CallRead(CopyBlock(1))
    /\ pc' = "second"
    /\ UNCHANGED <<card, sdhc, isSdhc, sd, faults, chosen, ram, i, ctx, code>>

\* Mutant of Stale: the copy that was read.
StaleRead(c) == c

\* Mutant of Stale: the block after the one that was read.
StaleNext(c) == c + 1

\* The copy to be written, when c is the newer one.
Stale(c) == 1 - c

\* The newer record, of those that were read, with a new generation.
Choose ==
    LET a == got[0].gen
        b == Heard.gen
        c == IF a >= b THEN 0 ELSE 1
        r == IF c = 0 THEN got[0] ELSE Heard IN
    /\ After("second")
    /\ got' = [got EXCEPT ![1] = Heard]
    /\ IF a < 0 /\ b < 0
       THEN Fault(2) /\ UNCHANGED <<chosen, drv>>
       ELSE /\ chosen' = [r EXCEPT !.gen = @ + 1]
            /\ CallWrite(CopyBlock(Stale(c)), RecordBlock(chosen'))
            /\ pc' = "record"
            /\ UNCHANGED code
    /\ UNCHANGED <<card, sdhc, isSdhc, sd, faults, ram, i, ctx>>

Length == Len(chosen.image)

NBlocks == (Length + Words - 1) \div Words

\* Whether the record was written only makes a difference to the console.
CheckLength ==
    /\ After("record")
    /\ IF Length = 0 \/ Length > SlotBlocks * Words
       THEN Fault(3)
       ELSE pc' = "load" /\ UNCHANGED code
    /\ UNCHANGED <<sdVars, got, chosen, ram, i, ctx>>

LoadBlock ==
    /\ pc = "load"
    /\ i < NBlocks
    /\ CallRead(SlotBlock(chosen.slot, i))
    /\ pc' = "copy"
    /\ UNCHANGED <<card, sdhc, isSdhc, sd, faults, got, chosen, ram, i, ctx, code>>

CopyOut ==
    /\ After("copy")
    /\ IF drv.ok
       THEN ram' = ram \o drv.buf /\ i' = i + 1 /\ pc' = "load" /\ UNCHANGED code
       ELSE Fault(4) /\ UNCHANGED <<ram, i>>
    /\ UNCHANGED <<sdVars, got, chosen, ctx>>

StartHash ==
    /\ pc = "load"
    /\ i = NBlocks
    /\ pc' = "hash" /\ i' = 0 /\ ctx' = ShaInit
    /\ UNCHANGED <<sdVars, got, chosen, ram, code>>

HashChunk ==
    LET n == Lesser(ShaChunk, Length - i) IN
    /\ pc = "hash"
    /\ i < Length
    /\ ctx' = Update(ctx, SubSeq(ram, i + 1, i + n))
    /\ i' = i + n
    /\ UNCHANGED <<sdVars, pc, got, chosen, ram, code>>

\* Mutant of Matches: the comparison ends with the first block.
MatchesStart(digest) == digest[1] = Digest(chosen.image)[1]

\* The digest in the record is that of the image.
Matches(digest) == digest = Digest(chosen.image)

Verify ==
    /\ pc = "hash"
    /\ i = Length
    /\ IF Matches(Finalize(ctx))
       THEN pc' = "jump" /\ UNCHANGED code
       ELSE Fault(6)
    /\ UNCHANGED <<sdVars, got, chosen, ram, i, ctx>>

Main ==
    \/ Start \/ ReadFirst \/ ReadSecond \/ Choose \/ CheckLength
    \/ LoadBlock \/ CopyOut \/ StartHash \/ HashChunk \/ Verify

Program == Main \/ (Driver /\ UNCHANGED mainVars)

Next == Program \/ (Controller /\ UNCHANGED mainVars)

Spec == Init /\ [][Next]_vars

\* The program runs on; the controller and the card promise nothing.
FairSpec == Spec /\ WF_vars(Program)

---------------------------------------------------------------------------
\* What stage 0 jumps to is the image that the record names, word for word:
\* nothing that a wrong address, a word left over in the FIFO, a read cut
\* short or a damaged card can do gets past the hash.
JumpVerified ==
    pc = "jump" => SubSeq(ram, 1, Length) = chosen.image

\* Nor is a good image refused: hashed in pieces of any length it has the
\* digest that the host computed of it at once.
MismatchReal ==
    code = 6 => SubSeq(ram, 1, Length) # chosen.image

\* At every moment the card holds a record that stage 0 could choose: also
\* when one copy could not be read, and the write of the other went wrong.
RecordSurvives == \E c \in Copy : Parsed(card[CopyBlock(c)]) # NoRecord

\* Stage 0 writes nothing but a copy of the record, wherever its idea of
\* the card's addressing leads it.
OnlyRecordsWritten ==
    [][\A b \in Block : card'[b] # card[b] => \E c \in Copy : b = CopyBlock(c)]_vars

\* Stage 0 always comes to an end, a jump or a halt, even when the
\* controller stops at the worst moment: no loop waits for ever.
Stage0Ends == <>(pc \in {"jump", "fault"})
=============================================================================
