---------------------------- MODULE Stage0Proofs ----------------------------
(***************************************************************************)
(* Theorems about stage 0 and its SD driver, for every length of a block,  *)
(* depth of the FIFO, size of a burst and number of polls.  First their    *)
(* types: what the variables hold, how much of a block has been moved at   *)
(* each step of a transfer, which call stage0_main waits for, and what     *)
(* every step of the driver and of the controller does, field by field.    *)
(* Then: a read and a write that report success have moved the block,      *)
(* nothing but a copy of the boot record is ever written, and a valid copy *)
(* survives.  At the end the hash, for every length of a block, of a length*)
(* field and of the pieces an image is hashed in: the incremental digest is*)
(* the digest of the standard, it tells images of one length apart, and so *)
(* stage 0 jumps to the image that the record names, and refuses no other. *)
(***************************************************************************)
EXTENDS Stage0Load, SequenceTheorems, TLAPS

Modes == {"idle", "read", "crc", "write", "parked"}

SdType == [fsm : Modes, fifo : Seq(Word), sts : BOOLEAN, force : BOOLEAN,
           todo : Seq(Word), at : Block, bad : BOOLEAN]

Ops == {"none", "init", "read", "write"}

\* The loops of a block's transfer, and all steps of a call.
Transfer == {"fifo", "drain", "sts", "fsm", "settle", "final"}

Steps == {"done", "reset", "ident", "acmd41", "select", "cmd"} \cup Transfer

DrvType == [op : Ops, step : Steps, block : Block, left : Nat, buf : Seq(Word),
            waits : Nat, ok : BOOLEAN, clean : BOOLEAN]

Typed ==
    /\ card \in [Block -> Seq(Word)] /\ \A b \in Block : Len(card[b]) = Words
    /\ sdhc \in BOOLEAN /\ isSdhc \in BOOLEAN
    /\ sd \in SdType /\ Len(sd.fifo) <= Depth
    /\ drv \in DrvType

\* How much of a block the driver has moved.
Lengths ==
    /\ drv.op = "read" =>
          /\ drv.step # "drain"
          /\ drv.step = "cmd" => drv.buf = <<>> /\ drv.left = Words
          /\ drv.step = "fifo" => Len(drv.buf) + drv.left = Words /\ drv.left > 0
          /\ drv.step \in Transfer \ {"fifo"} \/ (Done /\ drv.ok) => Len(drv.buf) = Words
    /\ drv.op = "write" =>
          /\ Len(drv.buf) = Words /\ drv.left <= Words
          /\ drv.step = "cmd" => drv.left = Words
          /\ drv.step = "fifo" => drv.left > 0
          /\ drv.step \in Transfer \ {"fifo"} => drv.left = 0

MainTyped ==
    /\ got \in [Copy -> Record \cup {NoRecord}]
    /\ chosen \in Record \cup {NoRecord}
    /\ pc \in {"record", "load", "copy", "hash", "jump"} => chosen \in Record
    /\ pc \notin {"hash", "jump", "fault"} => i \in Nat
    /\ pc \in {"load", "copy"} => Length <= SlotBlocks * Words

\* The call that each step of stage0_main waits for.
Calls ==
    /\ pc = "start" => drv.op = "none"
    /\ pc = "init" => drv.op = "init"
    /\ pc = "first" => drv.op = "read" /\ drv.block = CopyBlock(0)
    /\ pc = "second" => drv.op = "read" /\ drv.block = CopyBlock(1)
    /\ pc = "record" => drv.op = "write"
    /\ pc = "copy" => drv.op = "read"
    /\ pc \in {"start", "load", "hash", "jump", "fault"} => Done
    /\ drv.op = "none" => pc = "start"
    /\ drv.op = "init" => pc \in {"init", "fault"}
    /\ pc \in {"start", "init", "first", "second"} => drv.op # "write"

TypesInv == Typed /\ Lengths /\ MainTyped /\ Calls

---------------------------------------------------------------------------
(* Constants, words and records.                                           *)

LEMMA Numbers ==
    /\ Words \in Nat /\ Depth \in Nat /\ Burst \in Nat /\ SlotBlocks \in Nat
    /\ 1 <= Depth /\ Depth < Words /\ 2 <= Words /\ 1 <= Burst /\ Burst <= Depth
    /\ 1 <= SlotBlocks
    /\ Block = 0 .. Far /\ Far = 2 + SlotBlocks + SlotBlocks
    /\ MaxWaits \in Nat /\ Retries \in Nat
  BY SdAssumption, Stage0Assumption DEF SlotBlock

LEMMA Places ==
    /\ Copy \subseteq Block /\ Far \in Block /\ Far \notin Copy
    /\ \A c \in Copy : CopyBlock(c) = c /\ Stale(c) \in Copy /\ Stale(c) # c
    /\ \A s \in Slot, n \in 0 .. SlotBlocks - 1 : SlotBlock(s, n) \in Block
  <1>1. \A s \in Slot, n \in 0 .. SlotBlocks - 1 : SlotBlock(s, n) \in Block
    <2>1. ASSUME NEW s \in Slot, NEW n \in 0 .. SlotBlocks - 1
          PROVE  SlotBlock(s, n) \in Block
      <3>1. s * SlotBlocks = IF s = 0 THEN 0 ELSE SlotBlocks
        BY Numbers DEF Slot
      <3> QED
        BY <3>1, Numbers DEF SlotBlock
    <2> QED
      BY <2>1
  <1> QED
    BY <1>1, Numbers DEF Copy, CopyBlock, Stale

LEMMA NotWords ==
    /\ Damaged \in Word /\ Damaged \notin RecordWord /\ Damaged[1] # "record"
    /\ \A w \in Word : w[1] = "record" <=> w \in RecordWord
    /\ \A w \in RecordWord : w[2] \in Record /\ w[3] \in 1 .. Words
                             /\ w = <<"record", w[2], w[3]>>
  <1>1. Damaged \in Word /\ Damaged[1] # "record" /\ Damaged[1] = "damaged"
    BY DEF Word, Damaged
  <1>2. \A w \in RecordWord : /\ w[1] = "record" /\ w[2] \in Record /\ w[3] \in 1 .. Words
                              /\ w = <<"record", w[2], w[3]>>
    BY DEF RecordWord
  <1>3. Damaged \notin RecordWord
    BY <1>1, <1>2
  <1>4. \A w \in Word : w[1] = "record" <=> w \in RecordWord
    BY <1>1, <1>2, Stage0Assumption DEF Word
  <1> QED
    BY <1>1, <1>2, <1>3, <1>4

LEMMA RecordBlockWords ==
    ASSUME NEW r \in Record
    PROVE  /\ RecordBlock(r) \in Seq(Word) /\ Len(RecordBlock(r)) = Words
           /\ \A w \in 1 .. Words : RecordBlock(r)[w] = <<"record", r, w>>
  <1>1. RecordBlock(r) \in [1 .. Words -> Word]
    BY DEF RecordBlock, Word, RecordWord
  <1>2. RecordBlock(r) \in Seq(Word) /\ Len(RecordBlock(r)) = Words
    BY <1>1, Numbers, SeqDef
  <1> QED
    BY <1>2 DEF RecordBlock

\* What parse_slot_state makes of a block.
LEMMA ParsedRecord ==
    ASSUME NEW s \in Seq(Word), Parsed(s) # NoRecord
    PROVE  /\ Parsed(s) \in Record /\ Len(s) = Words
           /\ s = RecordBlock(Parsed(s))
           /\ \A w \in 1 .. Words : s[w] = <<"record", Parsed(s), w>>
                                    /\ s[w] \in RecordWord /\ s[w][3] = w
  <1>1. Len(s) = Words /\ s[1][1] = "record" /\ s = RecordBlock(s[1][2])
        /\ Parsed(s) = s[1][2]
    BY DEF Parsed
  <1>2. 1 \in 1 .. Len(s)
    BY <1>1, Numbers
  <1>3. s[1] \in Word
    BY <1>2, ElementOfSeq
  <1>4. s[1] \in RecordWord /\ s[1][2] \in Record
    BY <1>1, <1>3, NotWords
  <1>5. ASSUME NEW w \in 1 .. Words
        PROVE  /\ s[w] = <<"record", Parsed(s), w>>
               /\ s[w] \in RecordWord /\ s[w][3] = w
    <2>1. s[w] = <<"record", Parsed(s), w>>
      BY <1>1, <1>4, RecordBlockWords
    <2> QED
      BY <2>1, <1>1, <1>4 DEF RecordWord
  <1> QED
    BY <1>1, <1>4, <1>5

LEMMA ParsedType ==
    ASSUME NEW s \in Seq(Word)
    PROVE  Parsed(s) \in Record \cup {NoRecord}
  BY ParsedRecord

---------------------------------------------------------------------------
(* Types.                                                                  *)

LEMMA InitTypes == Init => Typed /\ Lengths /\ MainTyped /\ Calls
  <1> SUFFICES ASSUME Init PROVE Typed /\ Lengths /\ MainTyped /\ Calls
    OBVIOUS
  <1>1. card \in [Block -> [1 .. Words -> Word]]
    BY Stage0Assumption DEF Init, CardOK
  <1>2. \A b \in Block : card[b] \in Seq(Word) /\ Len(card[b]) = Words
    BY <1>1, Numbers, SeqDef
  <1>3. card \in [Block -> Seq(Word)]
    BY <1>1, <1>2
  <1>4. <<>> \in Seq(Word) /\ Len(<<>>) = 0 /\ <<Damaged>> \in Seq(Word) /\ Len(<<Damaged>>) = 1
    BY NotWords
  <1>5. sd \in SdType /\ Len(sd.fifo) <= Depth
    <2>1. PICK f \in {"idle", "parked"}, w \in {<<>>, <<Damaged>>} :
            sd = [SdIdle EXCEPT !.fsm = f, !.fifo = w]
      BY DEF Init, SdInit
    <2>2. sd = [fsm |-> f, fifo |-> w, sts |-> FALSE, force |-> FALSE,
                todo |-> <<>>, at |-> Far, bad |-> FALSE]
      BY <2>1 DEF SdIdle
    <2>3. f \in Modes
      BY DEF Modes
    <2>4. w \in Seq(Word) /\ Len(w) <= Depth
      <3>1. CASE w = <<>>
        BY <3>1, <1>4, Numbers
      <3>2. CASE w = <<Damaged>>
        BY <3>2, <1>4, Numbers
      <3> QED
        BY <3>1, <3>2
    <2> QED
      BY <2>2, <2>3, <2>4, <1>4, Places DEF SdType
  <1>6. drv \in DrvType /\ drv.op = "none" /\ Done
    BY <1>4, Places DEF Init, SdInit, NoCall, DrvType, Done, Ops, Steps
  <1>7. sdhc \in BOOLEAN /\ isSdhc \in BOOLEAN
    <2>1. SdInit
      BY DEF Init
    <2>2. sdhc \in BOOLEAN
      BY <2>1 DEF SdInit
    <2>3. isSdhc = FALSE
      BY <2>1, Zenon DEF SdInit
    <2>4. isSdhc \in BOOLEAN
      BY <2>3
    <2> QED
      BY <2>2, <2>4
  <1>10. Typed
    BY <1>2, <1>3, <1>5, <1>6, <1>7 DEF Typed
  <1>8. Lengths /\ Calls
    BY <1>6 DEF Init, Lengths, Calls
  <1>9. MainTyped
    BY DEF Init, MainTyped, Copy
  <1> QED
    BY <1>10, <1>8, <1>9

LEMMA WaitTypes ==
    ASSUME drv \in DrvType, NEW over \in DrvType, Wait(over)
    PROVE  drv' \in DrvType /\ (drv' = over \/ drv' = [drv EXCEPT !.waits = @ + 1])
  <1>1. drv.waits + 1 \in Nat
    BY DEF DrvType
  <1>2. [drv EXCEPT !.waits = @ + 1] \in DrvType
    BY <1>1 DEF DrvType
  <1> QED
    BY <1>2 DEF Wait

\* What happens to a call's record.
LEMMA Calling ==
    ASSUME drv \in DrvType
    PROVE  /\ \A ok \in BOOLEAN :
                /\ Returned(ok) \in DrvType /\ Returned(ok).step = "done"
                /\ Returned(ok).op = drv.op /\ Returned(ok).ok = ok
           /\ \A s \in Steps :
                /\ On(s) \in DrvType /\ On(s).step = s
                /\ On(s).op = drv.op /\ On(s).left = drv.left /\ On(s).buf = drv.buf
  BY DEF Returned, On, DrvType, Steps

\* The steps of the driver that move no word.
LEMMA CommandTypes ==
    ASSUME Typed, Lengths, Reset \/ Identify \/ SendOpCond \/ SelectCard
    PROVE  Typed' /\ Lengths' /\ drv.op = "init" /\ drv'.op = "init"
  <1>1. drv \in DrvType /\ sd \in SdType
    BY DEF Typed
  <1>2. drv.op = "init"
    BY DEF Reset, Identify, SendOpCond, SelectCard
  <1>3. \/ drv' \in {On("ident"), On("acmd41"), On("select"), Returned(FALSE), Returned(TRUE)}
        \/ drv.left # 0 /\ drv' = [drv EXCEPT !.left = @ - 1]
    <2>1. CASE Reset
      BY <2>1 DEF Reset
    <2>2. CASE Identify
      BY <2>2 DEF Identify, Command
    <2>3. CASE SendOpCond
      BY <2>3 DEF SendOpCond, Command
    <2>4. CASE SelectCard
      BY <2>4 DEF SelectCard, Command
    <2> QED
      BY <2>1, <2>2, <2>3, <2>4
  <1>4. drv' \in DrvType /\ drv'.op = "init"
    <2>1. CASE drv.left # 0 /\ drv' = [drv EXCEPT !.left = @ - 1]
      <3>1. drv.left - 1 \in Nat
        BY <1>1, <2>1 DEF DrvType
      <3> QED
        BY <1>1, <1>2, <2>1, <3>1 DEF DrvType
    <2>2. {"ident", "acmd41", "select"} \subseteq Steps
      BY DEF Steps
    <2> QED
      BY <1>1, <1>2, <1>3, <2>1, <2>2, Calling, ZenonT(60)
  <1>5. <<>> \in Seq(Word) /\ Len(<<>>) = 0
    OBVIOUS
  <1>6. sd' \in {sd, [sd EXCEPT !.fifo = <<>>], [sd EXCEPT !.sts = FALSE]}
    BY DEF Reset, Identify, SendOpCond, SelectCard, Command
  <1>7. sd' \in SdType /\ (sd'.fifo = sd.fifo \/ sd'.fifo = <<>>)
    BY <1>1, <1>5, <1>6 DEF SdType
  <1>8. card' = card /\ sdhc' = sdhc /\ isSdhc' \in BOOLEAN
    BY DEF Reset, Identify, SendOpCond, SelectCard, Typed
  <1> QED
    BY <1>2, <1>4, <1>5, <1>7, <1>8, Numbers DEF Typed, Lengths

---------------------------------------------------------------------------
(* What the steps of a transfer do, field by field.                        *)

SameCall == drv'.op = drv.op /\ drv'.block = drv.block /\ drv'.clean = drv.clean

CardSame == card' = card /\ sdhc' = sdhc /\ isSdhc' = isSdhc

\* One more turn of the loop, or the call is given up.
Turned ==
    /\ SameCall
    /\ drv'.buf = drv.buf
    /\ \/ drv'.step = drv.step /\ drv'.left = drv.left
       \/ drv'.step = "done" /\ ~drv'.ok /\ drv'.left = 0

LEMMA Waited ==
    ASSUME drv \in DrvType, Wait(Returned(FALSE))
    PROVE  drv' \in DrvType /\ Turned
  <1>1. Returned(FALSE) \in DrvType
    BY Calling
  <1>2. drv' \in DrvType
    BY <1>1, WaitTypes
  <1>3. drv' = [drv EXCEPT !.waits = @ + 1] \/ drv' = Returned(FALSE)
    BY DEF Wait
  <1>4. CASE drv' = [drv EXCEPT !.waits = @ + 1]
    BY <1>2, <1>4 DEF Turned, SameCall, DrvType
  <1>5. CASE drv' = Returned(FALSE)
    BY <1>2, <1>5 DEF Turned, SameCall, Returned, DrvType
  <1> QED
    BY <1>2, <1>3, <1>4, <1>5

\* n words are moved, and the loop ends when none is left.
Moves(n, over) ==
    /\ n \in Nat /\ n <= drv.left
    /\ SameCall
    /\ drv'.left = drv.left - n
    /\ drv'.step = IF n < drv.left THEN "fifo" ELSE over

LEMMA TakeEffect ==
    ASSUME Typed, Lengths, Take
    PROVE  /\ drv.op = "read" /\ drv.step = "fifo" /\ CardSame
           /\ drv' \in DrvType
           /\ \/ sd' = sd /\ Turned
              \/ \E n \in 0 .. Len(sd.fifo) :
                    /\ Moves(n, "sts")
                    /\ drv'.buf = drv.buf \o SubSeq(sd.fifo, 1, n)
                    /\ sd' = [sd EXCEPT !.fifo = SubSeq(@, n + 1, Len(sd.fifo))]
  <1> DEFINE fill == Len(sd.fifo)
             n == Movable(fill)
             part == SubSeq(sd.fifo, 1, n)
             rest == [drv EXCEPT !.left = @ - n, !.buf = @ \o part]
             last == [rest EXCEPT !.step = "sts", !.waits = 0]
  <1>1. drv.op = "read" /\ drv.step = "fifo" /\ CardSame
    BY DEF Take, At, CardSame
  <1>2. drv \in DrvType /\ drv.left \in Nat /\ sd.fifo \in Seq(Word) /\ fill \in Nat
        /\ drv.buf \in Seq(Word)
    BY DEF Typed, DrvType, SdType
  <1>3. n \in 0 .. fill /\ n <= drv.left
    BY <1>2 DEF Movable, Lesser
  <1>4. part \in Seq(Word) /\ drv.buf \o part \in Seq(Word) /\ drv.left - n \in Nat
    BY <1>2, <1>3
  <1>5. CASE fill < Lesser(Burst, drv.left)
    <2>1. Wait(Returned(FALSE)) /\ sd' = sd
      BY <1>5 DEF Take
    <2> QED
      BY <1>1, <1>2, <2>1, Waited
  <1>6. CASE ~(fill < Lesser(Burst, drv.left))
    <2>1. /\ sd' = [sd EXCEPT !.fifo = SubSeq(@, n + 1, fill)]
          /\ drv' = IF n < drv.left THEN rest ELSE last
      BY <1>6 DEF Take
    <2> HIDE DEF n, part, fill
    <2>2. rest \in DrvType
      BY <1>2, <1>4 DEF DrvType
    <2>3. rest.op = drv.op /\ rest.block = drv.block /\ rest.clean = drv.clean
          /\ rest.left = drv.left - n /\ rest.buf = drv.buf \o part /\ rest.step = drv.step
      BY <1>2 DEF DrvType
    <2> HIDE DEF rest
    <2>4. last \in DrvType /\ last.op = rest.op /\ last.block = rest.block
          /\ last.clean = rest.clean /\ last.left = rest.left /\ last.buf = rest.buf
          /\ last.step = "sts"
      BY <2>2 DEF DrvType, Steps, Transfer
    <2> HIDE DEF last
    <2>5. Moves(n, "sts") /\ drv' \in DrvType /\ drv'.buf = drv.buf \o part
      <3>1. CASE n < drv.left
        BY <3>1, <1>1, <1>3, <2>1, <2>2, <2>3 DEF Moves, SameCall
      <3>2. CASE ~(n < drv.left)
        BY <3>2, <1>1, <1>3, <2>1, <2>3, <2>4 DEF Moves, SameCall
      <3> QED
        BY <3>1, <3>2
    <2> USE DEF part, fill
    <2> QED
      BY <1>1, <1>3, <2>1, <2>5
  <1> QED
    BY <1>5, <1>6

\* The rest of the data for a write.
NextWords(n) == SubSeq(drv.buf, Words - drv.left + 1, Words - drv.left + n)

LEMMA FillEffect ==
    ASSUME Typed, Lengths, Fill
    PROVE  /\ drv.op = "write" /\ drv.step = "fifo" /\ CardSame
           /\ drv' \in DrvType
           /\ \/ sd' = sd /\ Turned
              \/ \E n \in 0 .. Depth - Len(sd.fifo) :
                    /\ Moves(n, "drain")
                    /\ drv'.buf = drv.buf
                    /\ sd' = [sd EXCEPT !.fifo = @ \o NextWords(n)]
  <1> DEFINE room == Depth - Len(sd.fifo)
             n == Movable(room)
             first == Words - drv.left + 1
             rest == [drv EXCEPT !.left = @ - n]
             last == [rest EXCEPT !.step = "drain", !.waits = 0]
  <1>1. drv.op = "write" /\ drv.step = "fifo" /\ CardSame
    BY DEF Fill, At, CardSame
  <1>2. drv \in DrvType /\ drv.left \in Nat /\ room \in Nat
    BY Numbers DEF Typed, DrvType, SdType
  <1>3. n \in 0 .. room /\ n <= drv.left /\ drv.left - n \in Nat
    BY <1>2 DEF Movable, Lesser
  <1>4. NextWords(n) = SubSeq(drv.buf, first, first + n - 1)
    <2>1. first + n - 1 = Words - drv.left + n
      <3> DEFINE left == drv.left
      <3>1. left \in Nat /\ n \in Nat /\ Words \in Nat
        BY <1>2, <1>3, Numbers
      <3> HIDE DEF left, n
      <3> QED
        BY <3>1 DEF left
    <2> QED
      BY <2>1 DEF NextWords
  <1>5. CASE room < Lesser(Burst, drv.left)
    <2>1. Wait(Returned(FALSE)) /\ sd' = sd
      BY <1>5 DEF Fill
    <2> QED
      BY <1>1, <1>2, <2>1, Waited
  <1>6. CASE ~(room < Lesser(Burst, drv.left))
    <2>1. /\ sd' = [sd EXCEPT !.fifo = @ \o SubSeq(drv.buf, first, first + n - 1)]
          /\ drv' = IF n < drv.left THEN rest ELSE last
      BY <1>6 DEF Fill
    <2>2. sd' = [sd EXCEPT !.fifo = @ \o NextWords(n)]
      BY <2>1, <1>4
    <2> HIDE DEF n, first, room
    <2>3. rest \in DrvType
      BY <1>2, <1>3 DEF DrvType
    <2>4. rest.op = drv.op /\ rest.block = drv.block /\ rest.clean = drv.clean
          /\ rest.left = drv.left - n /\ rest.buf = drv.buf /\ rest.step = drv.step
      BY <1>2 DEF DrvType
    <2> HIDE DEF rest
    <2>5. last \in DrvType /\ last.op = rest.op /\ last.block = rest.block
          /\ last.clean = rest.clean /\ last.left = rest.left /\ last.buf = rest.buf
          /\ last.step = "drain"
      BY <2>3 DEF DrvType, Steps, Transfer
    <2> HIDE DEF last
    <2>6. Moves(n, "drain") /\ drv' \in DrvType /\ drv'.buf = drv.buf
      <3>1. CASE n < drv.left
        BY <3>1, <1>1, <1>3, <2>1, <2>3, <2>4 DEF Moves, SameCall
      <3>2. CASE ~(n < drv.left)
        BY <3>2, <1>1, <1>3, <2>1, <2>4, <2>5 DEF Moves, SameCall
      <3> QED
        BY <3>1, <3>2
    <2> USE DEF room
    <2> QED
      BY <1>1, <1>3, <2>2, <2>6
  <1> QED
    BY <1>5, <1>6

\* The driver goes from one of its loops to another.
Goes(step) ==
    /\ SameCall /\ drv'.buf = drv.buf /\ drv'.left = drv.left /\ drv'.step = step

LEMMA WentOn ==
    ASSUME drv \in DrvType, NEW s \in Steps, drv' = On(s)
    PROVE  drv' \in DrvType /\ Goes(s)
  BY Calling DEF Goes, SameCall, On, DrvType

LEMMA GaveUp ==
    ASSUME drv \in DrvType, NEW ok \in BOOLEAN, drv' = Returned(ok)
    PROVE  drv' \in DrvType /\ SameCall /\ drv'.buf = drv.buf /\ drv'.step = "done"
           /\ drv'.ok = ok /\ drv'.left = 0
  BY Calling DEF SameCall, Returned, DrvType

\* The loops behind the last word.
LEMMA TailEffect ==
    ASSUME Typed, Drain \/ CheckStatus \/ PollState \/ Settle \/ Conclude
    PROVE  /\ drv.op \in {"read", "write"} /\ CardSame /\ drv' \in DrvType
           /\ \/ drv.step = "drain" /\ sd' = sd /\ (Goes("drain") \/ Goes("sts"))
              \/ drv.step = "sts" /\ sd' = sd /\ (Turned \/ (~sd.sts /\ Goes("fsm")))
              \/ drv.step = "fsm" /\ sd' = sd
                    /\ (Turned \/ (sd.fsm = "idle" /\ Goes("final")))
              \/ /\ drv.step = "fsm" /\ sd.fsm \in {"read", "parked"} /\ Goes("settle")
                 /\ sd' = [sd EXCEPT !.force = TRUE]
              \/ drv.step = "settle" /\ sd' = sd /\ Goes("settle")
              \/ drv.step = "settle" /\ sd' = [sd EXCEPT !.force = FALSE] /\ Goes("final")
              \/ /\ drv.step = "final" /\ sd' = [sd EXCEPT !.sts = FALSE]
                 /\ SameCall /\ drv'.buf = drv.buf
                 /\ drv'.step = "done" /\ drv'.left = 0 /\ drv'.ok = ~sd.sts
  <1>1. drv.op \in {"read", "write"} /\ CardSame
    BY DEF Drain, CheckStatus, PollState, Settle, Conclude, At, CardSame
  <1>2. drv \in DrvType /\ sd.sts \in BOOLEAN
    BY DEF Typed, SdType
  <1>3. {"drain", "sts", "fsm", "settle", "final"} \subseteq Steps
    BY DEF Steps, Transfer
  <1>4. ASSUME NEW over \in {On("sts"), drv}, Wait(over)
        PROVE  drv' \in DrvType /\ (drv' = over \/ Goes(drv.step))
    <2>1. over \in DrvType
      BY <1>2, <1>3, Calling
    <2>2. drv' \in DrvType /\ (drv' = over \/ drv' = [drv EXCEPT !.waits = @ + 1])
      BY <1>2, <1>4, <2>1, WaitTypes
    <2> QED
      BY <1>2, <2>2 DEF Goes, SameCall, DrvType
  <1>5. CASE Drain
    BY <1>1, <1>2, <1>3, <1>4, <1>5, WentOn DEF Drain, At
  <1>6. CASE CheckStatus
    <2>1. drv.step = "sts" /\ sd' = sd
      BY <1>6 DEF CheckStatus, At
    <2>2. CASE sd.sts
      <3>1. drv' = Returned(FALSE)
        BY <1>6, <2>2 DEF CheckStatus
      <3>2. drv' \in DrvType /\ Turned
        BY <1>2, <3>1, GaveUp DEF Turned
      <3> QED
        BY <1>1, <2>1, <3>2
    <2>3. CASE ~sd.sts
      <3>1. drv' = On("fsm")
        BY <1>6, <2>3 DEF CheckStatus
      <3>2. drv' \in DrvType /\ Goes("fsm")
        BY <1>2, <1>3, <3>1, WentOn
      <3> QED
        BY <1>1, <2>1, <2>3, <3>2
    <2> QED
      BY <2>2, <2>3
  <1>7. CASE PollState
    <2>1. drv.step = "fsm"
      BY <1>7 DEF PollState, At
    <2>2. CASE sd.fsm = "idle"
      BY <1>1, <1>2, <1>3, <1>7, <2>1, <2>2, WentOn DEF PollState
    <2>3. CASE sd.fsm # "idle" /\ sd.fsm \in Forced
      <3>1. drv' = On("settle") /\ sd' = [sd EXCEPT !.force = TRUE]
        BY <1>7, <2>3 DEF PollState
      <3> QED
        BY <1>1, <1>2, <1>3, <2>1, <2>3, <3>1, WentOn DEF Forced
    <2>4. CASE sd.fsm # "idle" /\ sd.fsm \notin Forced
      <3>1. Wait(Returned(FALSE)) /\ sd' = sd
        BY <1>7, <2>4 DEF PollState
      <3>2. drv' \in DrvType /\ Turned
        BY <1>2, <3>1, Waited
      <3> QED
        BY <1>1, <2>1, <3>1, <3>2
    <2> QED
      BY <2>2, <2>3, <2>4
  <1>8. CASE Settle
    <2>1. drv.step = "settle"
      BY <1>8 DEF Settle, At
    <2>2. drv' = drv => Goes("settle")
      BY <2>1 DEF Goes, SameCall
    <2>3. CASE sd.fsm = "idle" \/ drv.waits = MaxWaits
      BY <1>1, <1>2, <1>3, <1>8, <2>1, <2>3, WentOn DEF Settle
    <2>4. CASE ~(sd.fsm = "idle" \/ drv.waits = MaxWaits)
      <3>1. Wait(drv) /\ sd' = sd
        BY <1>8, <2>4 DEF Settle
      <3> QED
        BY <1>1, <1>4, <2>1, <2>2, <3>1
    <2> QED
      BY <2>3, <2>4
  <1>9. CASE Conclude
    BY <1>1, <1>2, <1>9, GaveUp DEF Conclude, At
  <1> QED
    BY <1>5, <1>6, <1>7, <1>8, <1>9

LEMMA AddressedType ==
    ASSUME Typed, NEW b \in Block
    PROVE  Addressed(b) \in Block
  BY Places DEF Addressed

LEMMA BegunFields ==
    ASSUME Typed, drv.op \in {"read", "write"}, NEW f \in Seq(Word)
    PROVE  /\ Begun(f) \in SdType
           /\ Begun(f).fsm = drv.op /\ Begun(f).fifo = f
           /\ Begun(f).at = Addressed(drv.block) /\ Begun(f).force = sd.force
           /\ drv.op = "read" => Begun(f).todo = card[Addressed(drv.block)]
           /\ drv.op = "write" => Begun(f).todo = <<>>
  <1>1. sd \in SdType /\ Addressed(drv.block) \in Block /\ drv.op \in Modes
    BY AddressedType DEF Typed, DrvType, Modes
  <1> DEFINE todo == IF drv.op = "read" THEN card[Addressed(drv.block)] ELSE <<>>
  <1>2. todo \in Seq(Word)
    BY <1>1 DEF Typed
  <1>3. Begun(f) = [sd EXCEPT !.fsm = drv.op, !.fifo = f, !.sts = FALSE, !.bad = FALSE,
                              !.at = Addressed(drv.block), !.todo = todo]
    BY DEF Begun
  <1> HIDE DEF todo
  <1>4. /\ Begun(f) \in SdType
        /\ Begun(f).fsm = drv.op /\ Begun(f).fifo = f
        /\ Begun(f).at = Addressed(drv.block) /\ Begun(f).force = sd.force
        /\ Begun(f).todo = todo
    BY <1>1, <1>2, <1>3, ZenonT(60) DEF SdType
  <1> QED
    BY <1>4 DEF todo

\* The command is accepted by an idle controller, with f left in the FIFO.
Accepted(f) ==
    /\ sd.fsm = "idle" /\ sd' = Begun(f)
    /\ drv'.op = drv.op /\ drv'.block = drv.block /\ drv'.buf = drv.buf
    /\ drv'.left = drv.left /\ drv'.step = "fifo"
    /\ drv'.clean <=> drv.clean /\ f = <<>>

\* The call fails; the controller may have accepted the command all the same.
Failed ==
    /\ SameCall /\ drv'.buf = drv.buf /\ drv'.step = "done" /\ ~drv'.ok /\ drv'.left = 0
    /\ \/ sd' = sd \/ sd' = [sd EXCEPT !.sts = FALSE]
       \/ sd.fsm = "idle" /\ \E f \in {sd.fifo, <<>>} : sd' = Begun(f)

LEMMA SendCmdEffect ==
    ASSUME Typed, SendCmd
    PROVE  /\ drv.op \in {"read", "write"} /\ drv.step = "cmd" /\ CardSame
           /\ drv' \in DrvType
           /\ Failed \/ \E f \in {sd.fifo, <<>>} : Accepted(f)
  <1>1. drv.op \in {"read", "write"} /\ drv.step = "cmd" /\ CardSame /\ drv \in DrvType
    BY DEF SendCmd, At, CardSame, Typed
  <1>2. ASSUME drv' = Returned(FALSE)
        PROVE  drv' \in DrvType /\ SameCall /\ drv'.buf = drv.buf /\ drv'.step = "done"
               /\ ~drv'.ok /\ drv'.left = 0
    BY <1>1, <1>2, GaveUp
  <1>3. CASE sd.fsm # "idle" /\ drv' = Returned(FALSE) /\ sd' = sd
    BY <1>1, <1>2, <1>3 DEF Failed
  <1>4. ASSUME sd.fsm = "idle", NEW f \in {sd.fifo, <<>>}, drv' = Returned(FALSE),
               sd' \in {Begun(f), [sd EXCEPT !.sts = FALSE]}
        PROVE  drv' \in DrvType /\ Failed
    BY <1>1, <1>2, <1>4 DEF Failed
  <1>5. ASSUME sd.fsm = "idle", NEW f \in {sd.fifo, <<>>}, sd' = Begun(f),
               drv' = [On("fifo") EXCEPT !.clean = @ /\ f = <<>>]
        PROVE  drv' \in DrvType /\ Accepted(f)
    <2>1. "fifo" \in Steps
      BY DEF Steps, Transfer
    <2>2. On("fifo") \in DrvType /\ On("fifo").step = "fifo" /\ On("fifo").op = drv.op
          /\ On("fifo").left = drv.left /\ On("fifo").buf = drv.buf
          /\ On("fifo").block = drv.block /\ On("fifo").clean = drv.clean
      BY <1>1, <2>1, Calling DEF On, DrvType
    <2>3. drv'.op = drv.op /\ drv'.block = drv.block /\ drv'.buf = drv.buf
          /\ drv'.left = drv.left /\ drv'.step = "fifo" /\ drv' \in DrvType
      BY <1>5, <2>2 DEF DrvType
    <2>4. drv'.clean = (On("fifo").clean /\ f = <<>>)
      BY <1>5, <2>2 DEF DrvType
    <2> QED
      BY <1>5, <2>2, <2>3, <2>4 DEF Accepted
  <1> QED
    BY <1>1, <1>3, <1>4, <1>5 DEF SendCmd

LEMMA SameTypes ==
    ASSUME Typed, CardSame, sd' \in SdType, Len(sd'.fifo) <= Depth, drv' \in DrvType
    PROVE  Typed'
  BY DEF Typed, CardSame

LEMMA SdTurned ==
    ASSUME Typed, NEW b \in BOOLEAN,
           sd' \in {sd, [sd EXCEPT !.force = b], [sd EXCEPT !.sts = b]}
    PROVE  sd' \in SdType /\ sd'.fifo = sd.fifo /\ sd'.todo = sd.todo /\ sd'.fsm = sd.fsm
           /\ sd'.at = sd.at
  BY DEF Typed, SdType

LEMMA TakeTypes ==
    ASSUME Typed, Lengths, Take
    PROVE  Typed' /\ Lengths'
  <1>1. drv.op = "read" /\ drv.step = "fifo" /\ CardSame /\ drv' \in DrvType
    BY TakeEffect
  <1>2. Len(drv.buf) + drv.left = Words /\ drv.left > 0 /\ sd \in SdType /\ drv \in DrvType
        /\ sd.fifo \in Seq(Word) /\ drv.buf \in Seq(Word) /\ drv.left \in Nat
        /\ Len(sd.fifo) <= Depth
    BY <1>1 DEF Lengths, Typed, DrvType, SdType
  <1>3. CASE sd' = sd /\ Turned
    <2>1. Typed'
      BY <1>1, <1>2, <1>3, SameTypes
    <2>2. Lengths'
      BY <1>1, <1>2, <1>3 DEF Turned, SameCall, Lengths, Done, Transfer
    <2> QED
      BY <2>1, <2>2
  <1>4. ASSUME NEW n \in 0 .. Len(sd.fifo), Moves(n, "sts"),
               drv'.buf = drv.buf \o SubSeq(sd.fifo, 1, n),
               sd' = [sd EXCEPT !.fifo = SubSeq(@, n + 1, Len(sd.fifo))]
        PROVE  Typed' /\ Lengths'
    <2>1. SubSeq(sd.fifo, 1, n) \in Seq(Word) /\ Len(SubSeq(sd.fifo, 1, n)) = n
          /\ SubSeq(sd.fifo, n + 1, Len(sd.fifo)) \in Seq(Word)
          /\ Len(SubSeq(sd.fifo, n + 1, Len(sd.fifo))) <= Depth
      BY <1>2, Numbers
    <2>2. Len(drv'.buf) = Len(drv.buf) + n
      BY <1>2, <1>4, <2>1
    <2>3. sd' \in SdType /\ Len(sd'.fifo) <= Depth
      BY <1>2, <1>4, <2>1 DEF SdType
    <2>4. Typed'
      BY <1>1, <2>3, SameTypes
    <2>5. Lengths'
      BY <1>1, <1>2, <1>4, <2>2, SMTT(30) DEF Moves, SameCall, Lengths, Done, Transfer
    <2> QED
      BY <2>4, <2>5
  <1> QED
    BY <1>3, <1>4, TakeEffect

LEMMA FillTypes ==
    ASSUME Typed, Lengths, Fill
    PROVE  Typed' /\ Lengths'
  <1>1. drv.op = "write" /\ drv.step = "fifo" /\ CardSame /\ drv' \in DrvType
    BY FillEffect
  <1>2. Len(drv.buf) = Words /\ drv.left > 0 /\ drv.left <= Words
        /\ sd \in SdType /\ drv \in DrvType /\ sd.fifo \in Seq(Word) /\ drv.buf \in Seq(Word)
        /\ drv.left \in Nat /\ Len(sd.fifo) <= Depth /\ Len(sd.fifo) \in Nat
    BY <1>1 DEF Lengths, Typed, DrvType, SdType
  <1>3. CASE sd' = sd /\ Turned
    <2>1. Typed'
      BY <1>1, <1>2, <1>3, SameTypes
    <2>2. drv'.left \in Nat
      BY <1>1 DEF DrvType
    <2>3. Lengths'
      <3>1. CASE drv'.step = "done"
        BY <1>1, <1>2, <1>3, <2>2, <3>1 DEF Turned, SameCall, Lengths, Transfer
      <3>2. CASE drv'.step = drv.step
        BY <1>1, <1>2, <1>3, <3>2 DEF Turned, SameCall, Lengths, Transfer
      <3> QED
        BY <1>3, <3>1, <3>2 DEF Turned
    <2> QED
      BY <2>1, <2>3
  <1>4. ASSUME NEW n \in 0 .. Depth - Len(sd.fifo), Moves(n, "drain"), drv'.buf = drv.buf,
               sd' = [sd EXCEPT !.fifo = @ \o NextWords(n)]
        PROVE  Typed' /\ Lengths'
    <2>1. NextWords(n) \in Seq(Word) /\ Len(NextWords(n)) = n
      <3>1. n \in Nat /\ n <= drv.left
        BY <1>4 DEF Moves
      <3>2. /\ Words - drv.left + 1 \in 1 .. Words
            /\ Words - drv.left + n \in 0 .. Words
        BY <1>2, <3>1, Numbers, SMTT(30)
      <3>3. \A k \in Words - drv.left + 1 .. Words - drv.left + n : drv.buf[k] \in Word
        BY <1>2, <3>1, <3>2, Numbers, ElementOfSeq
      <3> DEFINE a == Words - drv.left + 1
                 b == Words - drv.left + n
      <3>4. a \in Int /\ b \in Int /\ b - a + 1 = n /\ (a <= b <=> n > 0)
        BY <1>2, <3>1, Numbers
      <3>5. \A k \in a .. b : drv.buf[k] \in Word
        BY <3>3
      <3>6. NextWords(n) = SubSeq(drv.buf, a, b)
        BY DEF NextWords
      <3> HIDE DEF a, b
      <3>7. /\ SubSeq(drv.buf, a, b) \in Seq(Word)
            /\ Len(SubSeq(drv.buf, a, b)) = IF a <= b THEN b - a + 1 ELSE 0
        BY <3>4, <3>5, SubSeqProperties
      <3> QED
        BY <3>1, <3>4, <3>6, <3>7
    <2>2. sd.fifo \o NextWords(n) \in Seq(Word) /\ Len(sd.fifo \o NextWords(n)) <= Depth
      BY <1>2, <2>1, Numbers
    <2>3. sd' \in SdType /\ Len(sd'.fifo) <= Depth
      BY <1>2, <1>4, <2>2 DEF SdType
    <2>4. Typed'
      BY <1>1, <2>3, SameTypes
    <2>5. Lengths'
      BY <1>1, <1>2, <1>4 DEF Moves, SameCall, Lengths, Done, Transfer
    <2> QED
      BY <2>4, <2>5
  <1> QED
    BY <1>3, <1>4, FillEffect

LEMMA TailTypes ==
    ASSUME Typed, Lengths, Drain \/ CheckStatus \/ PollState \/ Settle \/ Conclude
    PROVE  Typed' /\ Lengths'
  <1>1. drv.op \in {"read", "write"} /\ CardSame /\ drv' \in DrvType
    BY TailEffect
  <1>2. \E b \in BOOLEAN : sd' \in {sd, [sd EXCEPT !.force = b], [sd EXCEPT !.sts = b]}
    BY TailEffect
  <1>3. sd' \in SdType /\ sd'.fifo = sd.fifo
    BY <1>2, SdTurned
  <1>4. Typed'
    BY <1>1, <1>3, SameTypes DEF Typed
  <1>5. drv.step \in Transfer \ {"fifo"} /\ SameCall /\ drv'.buf = drv.buf
        /\ \/ drv'.step \in Transfer \ {"fifo", "drain"} /\ drv'.left = drv.left
           \/ drv'.step = "drain" /\ drv.step = "drain" /\ drv'.left = drv.left
           \/ drv'.step = "done" /\ drv'.left = 0
    BY TailEffect DEF Goes, Turned, SameCall, Transfer
  <1>7. Lengths'
    <2>1. CASE drv.op = "read"
      BY <1>1, <1>5, <2>1 DEF SameCall, Lengths, Done, Transfer
    <2>2. CASE drv.op = "write"
      BY <1>1, <1>5, <2>2, Numbers DEF SameCall, Lengths, Done, Transfer
    <2> QED
      BY <1>1, <2>1, <2>2
  <1> QED
    BY <1>4, <1>7

LEMMA SendCmdTypes ==
    ASSUME Typed, Lengths, SendCmd
    PROVE  Typed' /\ Lengths'
  <1>1. drv.op \in {"read", "write"} /\ drv.step = "cmd" /\ CardSame /\ drv' \in DrvType
    BY SendCmdEffect
  <1>2. sd \in SdType /\ sd.fifo \in Seq(Word) /\ Len(sd.fifo) <= Depth
        /\ <<>> \in Seq(Word) /\ Len(<<>>) = 0
    BY DEF Typed, SdType
  <1>3. ASSUME NEW f \in {sd.fifo, <<>>}, sd' = Begun(f)
        PROVE  sd' \in SdType /\ Len(sd'.fifo) <= Depth
    <2>1. CASE f = sd.fifo
      BY <1>1, <1>2, <1>3, <2>1, BegunFields
    <2>2. CASE f = <<>>
      <3>1. <<>> \in Seq(Word)
        BY <1>2
      <3>2. Begun(<<>>) \in SdType /\ Begun(<<>>).fifo = <<>>
        BY <1>1, <3>1, BegunFields
      <3>3. Len(<<>>) <= Depth
        BY <1>2, Numbers
      <3> QED
        BY <1>3, <2>2, <3>2, <3>3
    <2> QED
      BY <2>1, <2>2
  <1>4. sd' \in SdType /\ Len(sd'.fifo) <= Depth
    <2>0. \/ sd' = sd \/ sd' = [sd EXCEPT !.sts = FALSE]
          \/ \E f \in {sd.fifo, <<>>} : sd' = Begun(f)
      <3>1. CASE Failed
        BY <3>1 DEF Failed
      <3>2. ASSUME NEW f \in {sd.fifo, <<>>}, Accepted(f)
            PROVE  \E g \in {sd.fifo, <<>>} : sd' = Begun(g)
        BY <3>2 DEF Accepted
      <3> QED
        BY <3>1, <3>2, SendCmdEffect
    <2>1. ASSUME sd' = sd \/ sd' = [sd EXCEPT !.sts = FALSE]
          PROVE  sd' \in SdType /\ Len(sd'.fifo) <= Depth
      <3>1. FALSE \in BOOLEAN
        OBVIOUS
      <3>2. sd' \in {sd, [sd EXCEPT !.force = FALSE], [sd EXCEPT !.sts = FALSE]}
        BY <2>1
      <3>3. sd' \in SdType /\ sd'.fifo = sd.fifo
        BY <3>1, <3>2, SdTurned
      <3> QED
        BY <1>2, <3>3
    <2> QED
      BY <1>3, <2>0, <2>1
  <1>5. Typed'
    BY <1>1, <1>4, SameTypes
  <1>6. /\ drv'.op = drv.op /\ drv'.buf = drv.buf
        /\ \/ drv'.step = "done" /\ ~drv'.ok /\ drv'.left = 0
           \/ drv'.step = "fifo" /\ drv'.left = drv.left
    BY SendCmdEffect DEF Failed, Accepted, SameCall
  <1>7. Lengths'
    BY <1>1, <1>6, Numbers DEF Lengths, Done, Transfer
  <1> QED
    BY <1>5, <1>7

LEMMA DriverTypes ==
    ASSUME Typed, Lengths, Driver
    PROVE  Typed' /\ Lengths'
  BY CommandTypes, SendCmdTypes, TakeTypes, FillTypes, TailTypes DEF Driver

---------------------------------------------------------------------------
(* The controller, field by field.                                         *)

LEMMA RxWordEffect ==
    ASSUME Typed, RxWord
    PROVE  /\ CardSame /\ sd' \in SdType /\ drv' \in DrvType
           /\ sd.fsm = "read" /\ sd'.fsm \in {"read", "crc"} /\ sd.todo # <<>>
           /\ Len(sd'.fifo) <= Depth
           /\ sd'.todo = Tail(sd.todo) /\ sd'.at = sd.at /\ sd'.force = sd.force
           /\ \/ drv' = drv /\ sd'.fifo = Append(sd.fifo, Head(sd.todo))
              \/ drv' = [drv EXCEPT !.clean = FALSE] /\ sd'.fifo = Append(sd.fifo, Damaged)
  <1>1. sd \in SdType /\ drv \in DrvType /\ sd.todo \in Seq(Word) /\ sd.fifo \in Seq(Word)
        /\ sd.todo # <<>> /\ sd.fsm = "read" /\ Len(sd.fifo) < Depth /\ CardSame
    BY DEF Typed, SdType, RxWord, CardSame
  <1>2. Head(sd.todo) \in Word /\ Tail(sd.todo) \in Seq(Word) /\ Damaged \in Word
    BY <1>1, NotWords, HeadTailProperties
  <1>3. ASSUME NEW w \in Word
        PROVE  Append(sd.fifo, w) \in Seq(Word) /\ Len(Append(sd.fifo, w)) <= Depth
    BY <1>1, Numbers
  <1>4. PICK fsm \in {"read", "crc"} :
          \/ /\ sd' = [sd EXCEPT !.fifo = Append(@, Head(sd.todo)), !.todo = Tail(@), !.fsm = fsm]
             /\ drv' = drv
          \/ /\ sd' = [sd EXCEPT !.fifo = Append(@, Damaged), !.todo = Tail(@), !.fsm = fsm,
                                 !.bad = TRUE]
             /\ drv' = [drv EXCEPT !.clean = FALSE]
    BY DEF RxWord
  <1>5. fsm \in Modes
    BY DEF Modes
  <1>6. CASE /\ sd' = [sd EXCEPT !.fifo = Append(@, Head(sd.todo)), !.todo = Tail(@), !.fsm = fsm]
             /\ drv' = drv
    <2>1. sd' \in SdType /\ sd'.fsm = fsm /\ sd'.todo = Tail(sd.todo) /\ sd'.at = sd.at
          /\ sd'.force = sd.force /\ sd'.fifo = Append(sd.fifo, Head(sd.todo))
      BY <1>1, <1>2, <1>3, <1>5, <1>6 DEF SdType
    <2> QED
      BY <1>1, <1>2, <1>3, <1>6, <2>1
  <1>7. CASE /\ sd' = [sd EXCEPT !.fifo = Append(@, Damaged), !.todo = Tail(@), !.fsm = fsm,
                                 !.bad = TRUE]
             /\ drv' = [drv EXCEPT !.clean = FALSE]
    <2>1. sd' \in SdType /\ sd'.fsm = fsm /\ sd'.todo = Tail(sd.todo) /\ sd'.at = sd.at
          /\ sd'.force = sd.force /\ sd'.fifo = Append(sd.fifo, Damaged)
      BY <1>1, <1>2, <1>3, <1>5, <1>7 DEF SdType
    <2>2. drv' \in DrvType
      BY <1>1, <1>7 DEF DrvType
    <2> QED
      BY <1>1, <1>2, <1>3, <1>7, <2>1, <2>2
  <1> QED
    BY <1>4, <1>6, <1>7

LEMMA TxWordEffect ==
    ASSUME Typed, TxWord
    PROVE  /\ CardSame /\ drv' = drv /\ sd' \in SdType
           /\ sd.fsm = "write" /\ sd'.fsm = "write" /\ sd.fifo # <<>>
           /\ sd'.fifo = Tail(sd.fifo) /\ sd'.todo = Append(sd.todo, Head(sd.fifo))
           /\ Len(sd'.fifo) <= Depth
           /\ sd'.at = sd.at /\ sd'.force = sd.force
  <1>1. sd \in SdType /\ sd.todo \in Seq(Word) /\ sd.fifo \in Seq(Word) /\ Len(sd.fifo) <= Depth
        /\ sd.fifo # <<>> /\ sd.fsm = "write" /\ CardSame /\ drv' = drv
        /\ sd' = [sd EXCEPT !.todo = Append(@, Head(sd.fifo)), !.fifo = Tail(@)]
    BY DEF Typed, SdType, TxWord, CardSame
  <1>2. Head(sd.fifo) \in Word /\ Tail(sd.fifo) \in Seq(Word)
        /\ Len(Tail(sd.fifo)) = Len(sd.fifo) - 1
    BY <1>1, HeadTailProperties
  <1>3. Append(sd.todo, Head(sd.fifo)) \in Seq(Word) /\ Len(Tail(sd.fifo)) <= Depth
    BY <1>1, <1>2, Numbers
  <1> QED
    BY <1>1, <1>2, <1>3 DEF SdType

LEMMA TxEndEffect ==
    ASSUME Typed, TxEnd
    PROVE  /\ drv' = drv /\ sdhc' = sdhc /\ isSdhc' = isSdhc /\ sd' \in SdType
           /\ sd.fsm = "write" /\ Len(sd.todo) = Words
           /\ sd'.fsm \in {"idle", "parked"} /\ sd'.fifo = sd.fifo /\ sd'.at = sd.at
           /\ sd'.force = sd.force
           /\ \/ card' = [card EXCEPT ![sd.at] = sd.todo]
              \/ card' = card /\ sd'.sts
  <1>1. sd \in SdType /\ drv' = drv /\ sdhc' = sdhc /\ isSdhc' = isSdhc
        /\ sd.fsm = "write" /\ Len(sd.todo) = Words /\ <<>> \in Seq(Word)
    BY DEF Typed, TxEnd
  <1>2. PICK fsm \in {"idle", "parked"} :
          \/ /\ card' = [card EXCEPT ![sd.at] = sd.todo]
             /\ sd' = [sd EXCEPT !.fsm = fsm, !.todo = <<>>]
          \/ /\ sd' = [sd EXCEPT !.fsm = fsm, !.todo = <<>>, !.sts = TRUE]
             /\ card' = card
    BY DEF TxEnd
  <1>3. fsm \in Modes
    BY DEF Modes
  <1> QED
    BY <1>1, <1>2, <1>3 DEF SdType

LEMMA OtherEffect ==
    ASSUME Typed, RxEnd \/ ForceIdle
    PROVE  /\ CardSame /\ drv' = drv /\ sd' \in SdType
           /\ sd'.fsm \in {"idle", "parked"} /\ sd'.fifo = sd.fifo /\ sd'.at = sd.at
           /\ sd'.force = sd.force /\ (sd.sts => sd'.sts)
           /\ RxEnd => sd.fsm \in {"read", "crc"}
           /\ sd.fsm \in {"read", "crc"} \/ sd.force
           /\ sd.fsm = "write" => sd.force
  <1>1. sd \in SdType /\ CardSame /\ drv' = drv /\ <<>> \in Seq(Word)
    BY DEF Typed, RxEnd, ForceIdle, CardSame
  <1>2. CASE RxEnd
    <2>1. PICK fsm \in {"idle", "parked"} : sd' = [sd EXCEPT !.fsm = fsm, !.sts = @ \/ sd.bad]
      BY <1>2 DEF RxEnd
    <2>2. fsm \in Modes /\ (sd.sts \/ sd.bad) \in BOOLEAN
      BY <1>1 DEF Modes
    <2>3. sd.fsm \in {"read", "crc"}
      BY <1>2 DEF RxEnd
    <2>4. sd.sts => sd'.sts
      BY <1>1, <2>1, <2>2 DEF SdType
    <2> QED
      BY <1>1, <2>1, <2>2, <2>3, <2>4 DEF SdType
  <1>3. CASE ForceIdle
    <2>1. sd' = [sd EXCEPT !.fsm = "idle", !.todo = <<>>] /\ sd.force /\ "idle" \in Modes
      BY <1>3 DEF ForceIdle, Modes
    <2>2. sd' \in SdType /\ sd'.fsm = "idle" /\ sd'.fifo = sd.fifo /\ sd'.at = sd.at
          /\ sd'.force = sd.force /\ sd'.sts = sd.sts
      BY <1>1, <2>1 DEF SdType
    <2>3. RxEnd => sd.fsm \in {"read", "crc"}
      BY DEF RxEnd
    <2> QED
      BY <1>1, <2>1, <2>2, <2>3
  <1> QED
    BY <1>2, <1>3

LEMMA ControllerTypes ==
    ASSUME Typed, Lengths, Controller
    PROVE  Typed' /\ Lengths'
  <1>1. CASE RxWord
    <2>1. Typed'
      BY <1>1, RxWordEffect, SameTypes
    <2>2. drv \in DrvType
      BY DEF Typed
    <2>3. drv'.op = drv.op /\ drv'.step = drv.step /\ drv'.left = drv.left /\ drv'.buf = drv.buf
          /\ drv'.ok = drv.ok
      BY <1>1, <2>2, RxWordEffect DEF DrvType
    <2>4. Lengths'
      BY <2>3 DEF Lengths, Done
    <2> QED
      BY <2>1, <2>4
  <1>2. ASSUME drv' = drv PROVE Lengths'
    BY <1>2 DEF Lengths, Done
  <1>3. CASE TxWord
    BY <1>2, <1>3, TxWordEffect, SameTypes DEF Typed
  <1>4. CASE RxEnd \/ ForceIdle
    <2>1. Len(sd'.fifo) <= Depth /\ drv' \in DrvType
      BY <1>4, OtherEffect DEF Typed
    <2> QED
      BY <1>2, <1>4, <2>1, OtherEffect, SameTypes
  <1>5. CASE TxEnd
    <2>1. card' \in [Block -> Seq(Word)] /\ \A b \in Block : Len(card'[b]) = Words
      <3>1. sd.todo \in Seq(Word) /\ sd.at \in Block
        BY DEF Typed, SdType
      <3> QED
        BY <1>5, <3>1, TxEndEffect DEF Typed
    <2>2. sd' \in SdType /\ Len(sd'.fifo) <= Depth /\ drv' \in DrvType /\ drv' = drv
          /\ sdhc' = sdhc /\ isSdhc' = isSdhc
      BY <1>5, TxEndEffect DEF Typed
    <2>3. Typed'
      BY <2>1, <2>2 DEF Typed
    <2> QED
      BY <1>2, <2>2, <2>3
  <1> QED
    BY <1>1, <1>3, <1>4, <1>5 DEF Controller

---------------------------------------------------------------------------
(* The steps of stage0_main.                                               *)

SdSame == card' = card /\ sdhc' = sdhc /\ isSdhc' = isSdhc /\ sd' = sd

\* A block that a call asks for lies on the card.
LEMMA BlocksInSlot ==
    ASSUME NEW n \in Nat, NEW len \in Nat, len <= SlotBlocks * Words,
           n < (len + Words - 1) \div Words
    PROVE  n \in 0 .. SlotBlocks - 1
  <1> DEFINE q == (len + Words - 1) \div Words
  <1>1. len + Words - 1 \in Nat /\ Words \in Nat /\ Words > 0 /\ SlotBlocks \in Nat
    BY Numbers
  <1>2. q \in Int /\ q * Words <= len + Words - 1
    BY <1>1
  <1>3. SlotBlocks * Words \in Nat
    BY <1>1
  <1>4. q * Words < SlotBlocks * Words + Words
    BY <1>1, <1>2, <1>3
  <1>5. SlotBlocks * Words + Words = (SlotBlocks + 1) * Words
    BY <1>1
  <1> HIDE DEF q
  <1>6. q <= SlotBlocks
    <2>1. SUFFICES ASSUME q >= SlotBlocks + 1 PROVE FALSE
      BY <1>1, <1>2
    <2>2. q * Words >= (SlotBlocks + 1) * Words
      BY <1>1, <1>2, <2>1
    <2> QED
      BY <1>1, <1>2, <1>3, <1>4, <1>5, <2>2
  <1> USE DEF q
  <1> QED
    BY <1>1, <1>2, <1>6

LEMMA CalledType ==
    ASSUME Typed, NEW op \in Ops, NEW b \in Block, NEW s \in Seq(Word)
    PROVE  /\ Called(op, b, s) \in DrvType
           /\ Called(op, b, s).op = op /\ Called(op, b, s).step = "cmd"
           /\ Called(op, b, s).block = b /\ Called(op, b, s).left = Words
           /\ Called(op, b, s).buf = s /\ ~Called(op, b, s).ok
  <1>1. "cmd" \in Steps /\ Words \in Nat
    BY Numbers DEF Steps
  <1> QED
    BY <1>1 DEF Called, DrvType

LEMMA ReadCall ==
    ASSUME Typed, NEW b \in Block, CallRead(b)
    PROVE  /\ drv' \in DrvType /\ drv'.op = "read" /\ drv'.step = "cmd" /\ drv'.block = b
           /\ drv'.left = Words /\ drv'.buf = <<>>
  <1> DEFINE s == <<>>
             c == Called("read", b, s)
  <1>1. "read" \in Ops /\ s \in Seq(Word)
    BY DEF Ops
  <1>2. drv' = c
    BY DEF CallRead
  <1> HIDE DEF s
  <1>3. c \in DrvType /\ c.op = "read" /\ c.step = "cmd" /\ c.block = b /\ c.left = Words
        /\ c.buf = s
    BY <1>1, CalledType
  <1> HIDE DEF c
  <1>4. s = <<>>
    BY DEF s
  <1> QED
    BY <1>2, <1>3, <1>4

LEMMA HeardType ==
    ASSUME Typed
    PROVE  Heard \in Record \cup {NoRecord}
  <1>1. drv.buf \in Seq(Word)
    BY DEF Typed, DrvType
  <1> QED
    BY <1>1, ParsedType DEF Heard

\* The record to be written over the other copy is the newer one, c.
LEMMA ChooseEffect ==
    ASSUME Typed, MainTyped, Choose
    PROVE  /\ pc = "second" /\ Done /\ SdSame /\ i' = i
           /\ got' = [got EXCEPT ![1] = Heard]
           /\ \/ pc' = "fault" /\ drv' = drv /\ chosen' = chosen
              \/ \E c \in Copy :
                    /\ c = 0 => got[0] # NoRecord
                    /\ c = 1 => Heard # NoRecord
                    /\ pc' = "record" /\ chosen' \in Record
                    /\ CallWrite(CopyBlock(Stale(c)), RecordBlock(chosen'))
  <1> DEFINE a == got[0].gen
             b == Heard.gen
             c == IF a >= b THEN 0 ELSE 1
             r == IF c = 0 THEN got[0] ELSE Heard
  <1>1. pc = "second" /\ Done /\ SdSame /\ i' = i /\ got' = [got EXCEPT ![1] = Heard]
    BY DEF Choose, After, SdSame
  <1>2. got[0] \in Record \cup {NoRecord} /\ Heard \in Record \cup {NoRecord}
    BY HeardType DEF MainTyped, Copy
  <1>3. NoRecord.gen = -1 /\ \A x \in Record : x.gen \in Nat /\ x # NoRecord
    BY DEF NoRecord, Record
  <1>4. CASE a < 0 /\ b < 0
    BY <1>1, <1>4 DEF Choose, Fault
  <1>5. CASE ~(a < 0 /\ b < 0)
    <2>1. /\ chosen' = [r EXCEPT !.gen = @ + 1]
          /\ CallWrite(CopyBlock(Stale(c)), RecordBlock(chosen'))
          /\ pc' = "record"
      BY <1>5 DEF Choose
    <2>2. a \in Int /\ b \in Int
      BY <1>2, <1>3
    <2>3. c \in Copy /\ (c = 0 => a >= 0) /\ (c = 1 => b >= 0)
      BY <1>5, <2>2 DEF Copy
    <2>4. (c = 0 => got[0] # NoRecord) /\ (c = 1 => Heard # NoRecord)
      BY <1>3, <2>3
    <2>5. r \in Record
      BY <1>2, <2>3, <2>4 DEF Copy
    <2> HIDE DEF r, c
    <2>6. r.gen + 1 \in Nat
      BY <2>5 DEF Record
    <2>7. chosen' \in Record
      BY <2>1, <2>5, <2>6 DEF Record
    <2> QED
      BY <1>1, <2>1, <2>3, <2>4, <2>7
  <1> QED
    BY <1>4, <1>5

LEMMA LoadCalls ==
    ASSUME MainTyped, LoadBlock
    PROVE  SdSame /\ \E b \in Block : CallRead(b)
  <1>1. pc = "load" /\ i < NBlocks /\ CallRead(SlotBlock(chosen.slot, i)) /\ SdSame
    BY DEF LoadBlock, SdSame
  <1>2. chosen \in Record /\ i \in Nat /\ Length <= SlotBlocks * Words
    BY <1>1 DEF MainTyped
  <1>3. chosen.slot \in Slot /\ Length \in Nat
    BY <1>2 DEF Record, Length
  <1>4. i \in 0 .. SlotBlocks - 1
    BY <1>1, <1>2, <1>3, BlocksInSlot DEF NBlocks
  <1>5. SlotBlock(chosen.slot, i) \in Block
    BY <1>3, <1>4, Places
  <1> QED
    BY <1>1, <1>5

\* What a step of stage0_main leaves to the driver: a call, or nothing.
LEMMA MainEffect ==
    ASSUME Typed, MainTyped, Main
    PROVE  /\ SdSame
           /\ \/ drv' = drv
              \/ pc = "start" /\ CallInit
              \/ \E b \in Block : CallRead(b)
              \/ \E c \in Copy, r \in Record : CallWrite(CopyBlock(c), RecordBlock(r))
  <1>1. CASE Start
    BY <1>1 DEF Start, SdSame
  <1>2. CASE ReadFirst
    <2>1. CopyBlock(0) \in Block
      BY Places DEF Copy
    <2> QED
      BY <1>2, <2>1 DEF ReadFirst, SdSame
  <1>3. CASE ReadSecond
    <2>1. CopyBlock(1) \in Block
      BY Places DEF Copy
    <2> QED
      BY <1>3, <2>1 DEF ReadSecond, SdSame
  <1>4. CASE Choose
    BY <1>4, ChooseEffect, Places
  <1>5. CASE CheckLength \/ CopyOut \/ StartHash \/ HashChunk \/ Verify
    BY <1>5 DEF CheckLength, CopyOut, StartHash, HashChunk, Verify, SdSame, sdVars
  <1>6. CASE LoadBlock
    BY <1>6, LoadCalls
  <1> QED
    BY <1>1, <1>2, <1>3, <1>4, <1>5, <1>6 DEF Main

LEMMA MainCallType ==
    ASSUME Typed, Lengths, MainTyped, Main
    PROVE  Typed' /\ Lengths'
  <1>1. SdSame /\ Typed
    BY MainEffect
  <1>2. <<>> \in Seq(Word) /\ "init" \in Ops /\ "read" \in Ops /\ "write" \in Ops
        /\ Retries \in Nat
    BY Numbers DEF Ops
  <1>3. CASE drv' = drv
    BY <1>1, <1>3 DEF SdSame, Typed, Lengths, Done
  <1>4. CASE CallInit
    <2>1. NoCall \in DrvType
      BY <1>2, Places DEF NoCall, DrvType, Ops, Steps
    <2>2. drv' \in DrvType /\ drv'.op = "init"
      BY <1>2, <1>4, <2>1 DEF CallInit, DrvType, Steps
    <2> QED
      BY <1>1, <2>2 DEF SdSame, Typed, Lengths
  <1>5. CASE \E b \in Block : CallRead(b)
    <2>1. drv' \in DrvType /\ drv'.op = "read" /\ drv'.step = "cmd" /\ drv'.left = Words
          /\ drv'.buf = <<>>
      BY <1>5, ReadCall
    <2> QED
      BY <1>1, <2>1 DEF SdSame, Typed, Lengths, Done, Transfer
  <1>6. CASE \E c \in Copy, r \in Record : CallWrite(CopyBlock(c), RecordBlock(r))
    <2>1. PICK c \in Copy, r \in Record : CallWrite(CopyBlock(c), RecordBlock(r))
      BY <1>6
    <2>2. CopyBlock(c) \in Block /\ RecordBlock(r) \in Seq(Word)
          /\ Len(RecordBlock(r)) = Words
      BY Places, RecordBlockWords
    <2>3. drv' \in DrvType /\ drv'.op = "write" /\ drv'.step = "cmd" /\ drv'.left = Words
          /\ Len(drv'.buf) = Words
      BY <1>2, <2>1, <2>2, CalledType DEF CallWrite
    <2> QED
      BY <1>1, <2>3, Numbers DEF SdSame, Typed, Lengths, Done, Transfer
  <1> QED
    BY <1>3, <1>4, <1>5, <1>6, MainEffect

LEMMA MainProgress ==
    ASSUME Typed, Lengths, MainTyped, Calls, Main
    PROVE  MainTyped' /\ Calls'
  <1>1. "init" \in Ops /\ "read" \in Ops /\ "write" \in Ops /\ <<>> \in Seq(Word)
        /\ CopyBlock(0) \in Block /\ CopyBlock(1) \in Block
    BY Places DEF Ops, Copy
  <1>2. \A b \in Block : CallRead(b) => drv'.op = "read" /\ drv'.block = b
    BY ReadCall
  <1>3. CASE Start
    <2>1. drv'.op = "init"
      BY <1>3 DEF Start, CallInit, NoCall
    <2> QED
      BY <1>3, <2>1 DEF Start, MainTyped, Calls, Length
  <1>4. CASE ReadFirst
    <2>1. CASE drv.ok
      BY <1>1, <1>2, <1>4, <2>1 DEF ReadFirst, After, MainTyped, Calls, Length
    <2>2. CASE ~drv.ok
      BY <1>4, <2>2 DEF ReadFirst, After, Fault, MainTyped, Calls, Length, Done
    <2> QED
      BY <2>1, <2>2
  <1>5. CASE ReadSecond
    <2>1. drv'.op = "read" /\ drv'.block = CopyBlock(1)
      BY <1>1, <1>2, <1>5 DEF ReadSecond
    <2>2. got' \in [Copy -> Record \cup {NoRecord}]
      BY <1>5, HeardType DEF ReadSecond, MainTyped
    <2> QED
      BY <1>5, <2>1, <2>2 DEF ReadSecond, After, MainTyped, Calls, Length
  <1>6. CASE Choose
    <2>1. got' \in [Copy -> Record \cup {NoRecord}]
      BY <1>6, ChooseEffect, HeardType DEF MainTyped
    <2>2. CASE pc' = "fault" /\ drv' = drv /\ chosen' = chosen
      BY <1>6, <2>1, <2>2, ChooseEffect DEF MainTyped, Calls, Done
    <2>3. ASSUME NEW c \in Copy, pc' = "record", chosen' \in Record,
                 CallWrite(CopyBlock(Stale(c)), RecordBlock(chosen'))
          PROVE  MainTyped' /\ Calls'
      <3>1. CopyBlock(Stale(c)) \in Block /\ RecordBlock(chosen') \in Seq(Word)
        BY <2>3, Places, RecordBlockWords
      <3>2. drv'.op = "write"
        BY <1>1, <2>3, <3>1, CalledType DEF CallWrite
      <3> QED
        BY <1>6, <2>1, <2>3, <3>2, ChooseEffect DEF MainTyped, Calls
    <2> QED
      BY <1>6, <2>2, <2>3, ChooseEffect
  <1>7. CASE CheckLength
    <2>1. pc = "record" /\ Done /\ drv' = drv /\ got' = got /\ chosen' = chosen /\ i' = i
          /\ (pc' = "fault" \/ (pc' = "load" /\ Length' <= SlotBlocks * Words))
      <3>1. pc = "record" /\ Done /\ drv' = drv /\ got' = got /\ chosen' = chosen /\ i' = i
        BY <1>7 DEF CheckLength, After, sdVars
      <3>2. chosen \in Record
        BY <3>1 DEF MainTyped
      <3>3. Length \in Nat /\ SlotBlocks * Words \in Nat
        BY <3>2, Numbers DEF Length, Record
      <3>4. Length' = Length
        BY <3>1 DEF Length
      <3>5. pc' = "fault" \/ (pc' = "load" /\ ~(Length > SlotBlocks * Words))
        BY <1>7 DEF CheckLength, Fault
      <3> HIDE DEF Length
      <3> QED
        BY <3>1, <3>3, <3>4, <3>5
    <2> QED
      BY <2>1 DEF MainTyped, Calls, Done
  <1>8. CASE LoadBlock
    <2>1. /\ pc = "load" /\ pc' = "copy" /\ got' = got /\ chosen' = chosen /\ i' = i
          /\ \E b \in Block : CallRead(b)
      BY <1>8, LoadCalls DEF LoadBlock
    <2>2. drv'.op = "read"
      BY <1>2, <2>1
    <2> QED
      BY <2>1, <2>2 DEF MainTyped, Calls, Length
  <1>9. CASE CopyOut
    <2>1. pc = "copy" /\ Done /\ drv' = drv /\ got' = got /\ chosen' = chosen
          /\ (pc' = "fault" \/ (pc' = "load" /\ i' = i + 1))
      BY <1>9 DEF CopyOut, After, Fault, sdVars
    <2> QED
      BY <2>1 DEF MainTyped, Calls, Done, Length
  <1>10. CASE StartHash \/ HashChunk \/ Verify
    <2>1. pc \in {"load", "hash"} /\ pc' \in {"hash", "jump", "fault"} /\ drv' = drv
          /\ got' = got /\ chosen' = chosen
      BY <1>10 DEF StartHash, HashChunk, Verify, Fault, sdVars
    <2> QED
      BY <2>1 DEF MainTyped, Calls, Done
  <1> QED
    BY <1>3, <1>4, <1>5, <1>6, <1>7, <1>8, <1>9, <1>10 DEF Main

---------------------------------------------------------------------------
(* The theorem.                                                            *)

\* No step of the driver or of the controller changes which call is under
\* way, and none is taken by the driver when the call is over.
LEMMA CallKept ==
    ASSUME Typed, Lengths, Driver \/ Controller
    PROVE  /\ drv'.op = drv.op
           /\ drv.op # "init" => drv'.block = drv.block
           /\ drv.op = "none" => ~Driver
           /\ Done => ~Driver /\ Done'
  <1>1. drv \in DrvType
    BY DEF Typed
  <1>2. CASE Driver
    <2>1. ~Done /\ drv.op # "none"
      BY <1>2 DEF Driver, Reset, Identify, SendOpCond, SelectCard, SendCmd, Take, Fill, Drain,
                  CheckStatus, PollState, Settle, Conclude, At, Done
    <2>2. CASE Reset \/ Identify \/ SendOpCond \/ SelectCard
      BY <2>1, <2>2, CommandTypes
    <2>3. CASE SendCmd
      BY <2>1, <2>3, SendCmdEffect DEF Failed, Accepted, SameCall
    <2>4. CASE Take
      BY <2>1, <2>4, TakeEffect DEF Turned, Moves, SameCall
    <2>5. CASE Fill
      BY <2>1, <2>5, FillEffect DEF Turned, Moves, SameCall
    <2>6. CASE Drain \/ CheckStatus \/ PollState \/ Settle \/ Conclude
      BY <2>1, <2>6, TailEffect DEF Turned, Goes, SameCall
    <2> QED
      BY <1>2, <2>2, <2>3, <2>4, <2>5, <2>6, SMTT(30) DEF Driver
  <1>3. CASE Controller
    <2>1. drv' = drv \/ drv' = [drv EXCEPT !.clean = FALSE]
      BY <1>3, RxWordEffect, TxWordEffect, TxEndEffect, OtherEffect DEF Controller
    <2>2. drv'.op = drv.op /\ drv'.block = drv.block /\ drv'.step = drv.step
      BY <1>1, <2>1 DEF DrvType
    <2>3. ~Driver \/ Driver
      OBVIOUS
    <2> QED
      BY <1>2, <2>2 DEF Done
  <1> QED
    BY <1>2, <1>3

LEMMA StepTypes ==
    ASSUME Typed, Lengths, MainTyped, Calls, Next
    PROVE  Typed' /\ Lengths' /\ MainTyped' /\ Calls'
  <1>1. CASE Main
    BY <1>1, MainCallType, MainProgress
  <1>2. CASE (Driver \/ Controller) /\ UNCHANGED mainVars
    <2>1. Typed' /\ Lengths'
      BY <1>2, DriverTypes, ControllerTypes
    <2>2. pc' = pc /\ got' = got /\ chosen' = chosen /\ i' = i
      BY <1>2 DEF mainVars
    <2>3. MainTyped'
      BY <2>2 DEF MainTyped, Length
    <2>4. Calls'
      BY <1>2, <2>2, CallKept DEF Calls
    <2> QED
      BY <2>1, <2>3, <2>4
  <1> QED
    BY <1>1, <1>2 DEF Next, Program

\* The types, the lengths and the calls hold at every moment, whatever the
\* controller does.
THEOREM TypesHold == Spec => []TypesInv
  <1>1. Init => TypesInv
    BY InitTypes DEF TypesInv
  <1>2. TypesInv /\ [Next]_vars => TypesInv'
    <2>1. ASSUME TypesInv, UNCHANGED vars PROVE TypesInv'
      BY <2>1 DEF TypesInv, vars, sdVars, mainVars, Typed, Lengths, MainTyped, Calls, Done, CopyBlock, Length
    <2> QED
      BY <2>1, StepTypes DEF TypesInv
  <1> QED
    BY <1>1, <1>2, PTL DEF Spec

---------------------------------------------------------------------------
(* What is read and what is written.                                       *)

\* The call moves a block, or has moved it with success.
Busy(op) == drv.op = op /\ (drv.step \in Transfer \/ (Done /\ drv.ok))

\* The controller is never forced out of a write.
NotForced ==
    /\ drv.step = "settle" => sd.fsm # "write"
    /\ sd.force => drv.step = "settle"

\* Behind d words that were left over, s has the words of block b in their
\* order, but for damaged ones.
FromCard(s, d, b, clean) ==
    \A k \in d + 1 .. Len(s) :
        k - d <= Words /\ (s[k] = b[k - d] \/ (~clean /\ s[k] = Damaged))

\* The words that are still on the card follow those of s.
Remains(s, d, b, todo) ==
    /\ Len(s) + Len(todo) = Words + d
    /\ \A k \in 1 .. Len(todo) : todo[k] = b[Words - Len(todo) + k]

\* The words the driver has, and those on their way to it.
Stream == drv.buf \o sd.fifo

\* A call that is clean has the right address.
Asked ==
    drv.op \in {"read", "write"} /\ drv.step = "cmd" /\ drv.clean =>
       Addressed(drv.block) = drv.block

Reading ==
    Busy("read") =>
       /\ sd.fsm # "write"
       /\ sd.at = Addressed(drv.block)
       /\ drv.clean => sd.at = drv.block
       /\ \E d \in 0 .. Depth :
             /\ drv.clean => d = 0
             /\ drv.step # "fifo" => FromCard(drv.buf, d, card[sd.at], drv.clean)
             /\ drv.step = "fifo" =>
                   /\ FromCard(Stream, d, card[sd.at], drv.clean)
                   /\ sd.fsm = "read" => Remains(Stream, d, card[sd.at], sd.todo)

Writing ==
    Busy("write") /\ drv.clean =>
       /\ sd.at = drv.block
       /\ sd.fsm \in {"write", "idle", "parked"}
       /\ sd.fsm = "write" =>
             /\ drv.step \in {"fifo", "drain", "sts", "fsm"}
             /\ sd.todo \o sd.fifo = SubSeq(drv.buf, 1, Words - drv.left)
       /\ sd.fsm # "write" =>
             /\ drv.left = 0
             /\ card[drv.block] = drv.buf \/ (sd.sts /\ ~Done)

\* What stage0_main knows of the card: until it writes the card is as it
\* was, and a record that it has read is where it was looked for.
Known ==
    /\ pc \in {"start", "init", "first", "second"} => card \in Cards /\ sd.fsm # "write"
    /\ pc \in {"start", "init", "first"} => got[0] = NoRecord
    /\ pc = "second" /\ got[0] # NoRecord =>
          isSdhc = sdhc /\ Parsed(card[CopyBlock(0)]) = got[0]

\* Only the copies are written, and never the last one that is valid.
RecordSafe ==
    /\ sd.fsm = "write" => sd.at \in Copy
    /\ drv.op = "write" => isSdhc = sdhc /\ drv.block \in Copy
    /\ \E c \in Copy :
          /\ Parsed(card[CopyBlock(c)]) # NoRecord
          /\ sd.fsm = "write" => sd.at # c
          /\ drv.op = "write" => drv.block # c

---------------------------------------------------------------------------
(* Sequences of words.                                                     *)

LEMMA Joined ==
    ASSUME NEW s \in Seq(Word), NEW t \in Seq(Word)
    PROVE  /\ s \o t \in Seq(Word) /\ Len(s \o t) = Len(s) + Len(t)
           /\ Len(s) \in Nat /\ Len(t) \in Nat
           /\ \A k \in 1 .. Len(s) : (s \o t)[k] = s[k]
  <1>1. Len(s) \in Nat /\ Len(t) \in Nat
    OBVIOUS
  <1>2. s \o t \in Seq(Word) /\ Len(s \o t) = Len(s) + Len(t)
    BY ConcatProperties
  <1>3. \A k \in 1 .. Len(s) + Len(t) :
          (s \o t)[k] = IF k <= Len(s) THEN s[k] ELSE t[k - Len(s)]
    BY ConcatProperties
  <1>4. \A k \in 1 .. Len(s) : (s \o t)[k] = s[k]
    BY <1>1, <1>3
  <1> QED
    BY <1>1, <1>2, <1>4

LEMMA Regroup ==
    ASSUME NEW s \in Seq(Word), NEW a \in Seq(Word), NEW b \in Seq(Word)
    PROVE  (s \o a) \o b = s \o (a \o b)
  BY ConcatAssociative, SMTT(30)

LEMMA SplitAt ==
    ASSUME NEW s \in Seq(Word), NEW t \in Seq(Word), NEW n \in 0 .. Len(t)
    PROVE  /\ (s \o SubSeq(t, 1, n)) \o SubSeq(t, n + 1, Len(t)) = s \o t
           /\ SubSeq(t, 1, n) \in Seq(Word) /\ SubSeq(t, n + 1, Len(t)) \in Seq(Word)
           /\ Len(SubSeq(t, 1, n)) = n
  <1>1. SubSeq(t, 1, n) \in Seq(Word) /\ SubSeq(t, n + 1, Len(t)) \in Seq(Word)
        /\ Len(SubSeq(t, 1, n)) = n
    OBVIOUS
  <1>2. 1 \in 1 .. Len(t) + 1 /\ n \in 1 - 1 .. Len(t) /\ Len(t) \in n .. Len(t)
    OBVIOUS
  <1>3. SubSeq(t, 1, n) \o SubSeq(t, n + 1, Len(t)) = SubSeq(t, 1, Len(t))
    BY <1>2, ConcatAdjacentSubSeq
  <1>4. SubSeq(t, 1, Len(t)) = t
    BY SubSeqFull
  <1> DEFINE a == SubSeq(t, 1, n)
             b == SubSeq(t, n + 1, Len(t))
  <1>5. a \in Seq(Word) /\ b \in Seq(Word) /\ a \o b = t
    BY <1>1, <1>3, <1>4, Zenon
  <1>8. Len(a) = n
    BY <1>1, Zenon
  <1> HIDE DEF a, b
  <1>6. (s \o a) \o b = s \o (a \o b)
    BY <1>5, Regroup, ZenonT(60)
  <1>7. (s \o a) \o b = s \o t
    BY <1>5, <1>6, Zenon
  <1> QED
    BY <1>5, <1>7, <1>8, Zenon DEF a, b

LEMMA AppendOn ==
    ASSUME NEW s \in Seq(Word), NEW t \in Seq(Word), NEW w \in Word
    PROVE  s \o Append(t, w) = Append(s \o t, w)
  <1>1. <<w>> \in Seq(Word)
    OBVIOUS
  <1>2. s \o t \in Seq(Word)
    BY ConcatProperties
  <1>3. Append(t, w) = t \o <<w>> /\ Append(s \o t, w) = (s \o t) \o <<w>>
    BY <1>2, AppendIsConcat
  <1> QED
    BY <1>1, <1>3, ConcatAssociative

LEMMA MoveOn ==
    ASSUME NEW s \in Seq(Word), NEW t \in Seq(Word), t # <<>>
    PROVE  Append(s, Head(t)) \o Tail(t) = s \o t
  <1>1. Head(t) \in Word /\ Tail(t) \in Seq(Word) /\ <<Head(t)>> \in Seq(Word)
    BY HeadTailProperties
  <1>2. Append(s, Head(t)) = s \o <<Head(t)>>
    BY <1>1, AppendIsConcat
  <1>3. <<Head(t)>> \o Tail(t) = t
    <2>1. Len(t) \in Nat \ {0}
      BY EmptySeq
    <2>2. 1 \in 1 .. Len(t) /\ Len(t) \in 1 .. Len(t)
      BY <2>1
    <2>3. SubSeq(t, 1, Len(t)) = <<t[1]>> \o SubSeq(t, 1 + 1, Len(t))
      BY <2>2, SubSeqRecursiveFirst
    <2>4. SubSeq(t, 1, Len(t)) = t /\ Tail(t) = SubSeq(t, 2, Len(t)) /\ Head(t) = t[1]
      BY SubSeqFull, TailIsSubSeq
    <2> QED
      BY <2>3, <2>4
  <1> QED
    BY <1>1, <1>2, <1>3, ConcatAssociative

LEMMA Adjacent ==
    ASSUME NEW s \in Seq(Word), NEW a \in Nat, NEW n \in Nat, a + n <= Len(s)
    PROVE  /\ SubSeq(s, 1, a) \o SubSeq(s, a + 1, a + n) = SubSeq(s, 1, a + n)
           /\ SubSeq(s, a + 1, a + n) \in Seq(Word)
  <1>1. Len(s) \in Nat
    OBVIOUS
  <1> DEFINE m == 1
             c == a + n
  <1>2. m \in 1 .. Len(s) + 1 /\ a \in m - 1 .. Len(s) /\ c \in a .. Len(s)
    BY <1>1
  <1>3. SubSeq(s, m, a) \o SubSeq(s, a + 1, c) = SubSeq(s, m, c)
    BY <1>2, ConcatAdjacentSubSeq
  <1>4. \A k \in a + 1 .. c : s[k] \in Word
    BY <1>1, ElementOfSeq
  <1>5. a + 1 \in Int /\ c \in Int
    OBVIOUS
  <1>6. SubSeq(s, a + 1, c) \in Seq(Word)
    BY <1>4, <1>5, SubSeqProperties
  <1> QED
    BY <1>3, <1>6

LEMMA FromPrefix ==
    ASSUME NEW s \in Seq(Word), NEW t \in Seq(Word), NEW d \in Nat, NEW b, NEW clean,
           FromCard(s \o t, d, b, clean)
    PROVE  FromCard(s, d, b, clean)
  <1> SUFFICES ASSUME NEW k \in d + 1 .. Len(s)
               PROVE  k - d <= Words /\ (s[k] = b[k - d] \/ (~clean /\ s[k] = Damaged))
    BY DEF FromCard
  <1>1. Len(s \o t) = Len(s) + Len(t) /\ Len(s) \in Nat /\ Len(t) \in Nat
    BY Joined
  <1>2. k \in 1 .. Len(s) /\ k \in d + 1 .. Len(s \o t)
    BY <1>1
  <1>3. (s \o t)[k] = s[k]
    BY <1>2, Joined
  <1> QED
    BY <1>2, <1>3 DEF FromCard

\* The next word has come.
LEMMA FromAppend ==
    ASSUME NEW s \in Seq(Word), NEW todo \in Seq(Word), todo # <<>>, NEW d \in Nat, NEW b,
           NEW clean \in BOOLEAN, NEW still \in BOOLEAN, still => clean, NEW w \in Word,
           w = Head(todo) \/ (~still /\ w = Damaged),
           FromCard(s, d, b, clean), Remains(s, d, b, todo)
    PROVE  /\ FromCard(Append(s, w), d, b, still)
           /\ Remains(Append(s, w), d, b, Tail(todo))
  <1>0. Len(s) \in Nat /\ Len(todo) \in Nat /\ Len(todo) # 0 /\ Words \in Nat
    BY EmptySeq, Numbers
  <1>1. /\ Len(s) \in Nat /\ Len(todo) \in Nat /\ Len(todo) >= 1 /\ Words \in Nat
        /\ Len(Tail(todo)) = Len(todo) - 1
        /\ \A k \in 1 .. Len(todo) - 1 : Tail(todo)[k] = todo[k + 1]
    BY <1>0, HeadTailProperties
  <1>2. /\ Len(Append(s, w)) = Len(s) + 1
        /\ \A k \in 1 .. Len(s) : Append(s, w)[k] = s[k]
        /\ Append(s, w)[Len(s) + 1] = w
    BY AppendProperties
  <1>3. Len(s) + Len(todo) = Words + d
        /\ \A k \in 1 .. Len(todo) : todo[k] = b[Words - Len(todo) + k]
    BY DEF Remains
  <1> DEFINE t == Append(s, w)
             rest == Tail(todo)
  <1> HIDE DEF t, rest
  <1>4. ASSUME NEW k \in d + 1 .. Len(t)
        PROVE  k - d <= Words /\ (t[k] = b[k - d] \/ (~still /\ t[k] = Damaged))
    <2>1. CASE k <= Len(s)
      <3>1. k \in d + 1 .. Len(s) /\ k \in 1 .. Len(s)
        BY <1>1, <2>1
      <3>2. t[k] = s[k]
        BY <1>2, <3>1 DEF t
      <3> QED
        BY <3>1, <3>2 DEF FromCard
    <2>2. CASE k > Len(s)
      <3>1. k = Len(s) + 1
        BY <1>1, <1>2, <2>2 DEF t
      <3>2. t[k] = w
        BY <1>2, <3>1 DEF t
      <3>3. k - d = Words - Len(todo) + 1 /\ 1 \in 1 .. Len(todo)
        <4> DEFINE m == Len(todo)
                   n == Len(s)
        <4>1. m \in Nat /\ n \in Nat /\ m >= 1 /\ n + m = Words + d /\ k = n + 1
              /\ Words \in Nat
          BY <1>1, <1>3, <3>1
        <4> HIDE DEF m, n
        <4>2. k - d = Words - m + 1 /\ 1 \in 1 .. m
          BY <4>1
        <4> QED
          BY <4>2 DEF m
      <3>4. todo[1] = b[Words - Len(todo) + 1]
        BY <1>3, <3>3
      <3>5. Head(todo) = todo[1]
        OBVIOUS
      <3>6. t[k] = b[k - d] \/ (~still /\ t[k] = Damaged)
        BY <3>2, <3>3, <3>4, <3>5
      <3> QED
        BY <1>1, <3>3, <3>6
    <2> QED
      BY <1>1, <2>1, <2>2
  <1>5. Len(t) + Len(rest) = Words + d
    <2>1. Len(t) = Len(s) + 1
      BY <1>2 DEF t
    <2>2. Len(rest) = Len(todo) - 1
      BY <1>1 DEF rest
    <2>3. Len(s) \in Nat /\ Len(todo) \in Nat /\ Len(s) + Len(todo) = Words + d
      BY <1>1, <1>3
    <2> DEFINE a == Len(s)
               b2 == Len(todo)
    <2>4. Len(t) = a + 1 /\ Len(rest) = b2 - 1 /\ a \in Nat /\ b2 \in Nat /\ a + b2 = Words + d
      BY <2>1, <2>2, <2>3
    <2> HIDE DEF a, b2
    <2> QED
      BY <2>4
  <1>6. ASSUME NEW k \in 1 .. Len(rest)
        PROVE  rest[k] = b[Words - Len(rest) + k]
    <2>1. k \in 1 .. Len(todo) - 1 /\ k + 1 \in 1 .. Len(todo)
      BY <1>1, <1>6 DEF rest
    <2>2. Words - Len(todo) + (k + 1) = Words - Len(rest) + k
      BY <1>1, <2>1 DEF rest
    <2>3. rest[k] = todo[k + 1]
      BY <1>1, <2>1 DEF rest
    <2> QED
      BY <1>3, <2>1, <2>2, <2>3
  <1>7. FromCard(t, d, b, still) /\ Remains(t, d, b, rest)
    BY <1>4, <1>5, <1>6 DEF FromCard, Remains
  <1> QED
    BY <1>7 DEF t, rest

LEMMA FromStart ==
    ASSUME NEW f \in Seq(Word), NEW b, Len(b) = Words, NEW clean
    PROVE  FromCard(f, Len(f), b, clean) /\ Remains(f, Len(f), b, b)
  <1>1. Len(f) \in Nat /\ Words \in Nat
    BY Numbers
  <1>2. FromCard(f, Len(f), b, clean)
    BY <1>1 DEF FromCard
  <1>3. \A k \in 1 .. Len(b) : Words - Len(b) + k = k
    BY <1>1
  <1> QED
    BY <1>1, <1>2, <1>3 DEF Remains

\* Nothing left over, nothing damaged.
LEMMA FromWhole ==
    ASSUME NEW s \in Seq(Word), NEW b \in Seq(Word), Len(s) = Words, Len(b) = Words,
           FromCard(s, 0, b, TRUE)
    PROVE  s = b
  <1>1. \A k \in 1 .. Len(s) : k \in 0 + 1 .. Len(s) /\ k - 0 = k
    BY Numbers
  <1>2. \A k \in 1 .. Len(s) : s[k] = b[k]
    BY <1>1 DEF FromCard
  <1> QED
    BY <1>2, SeqEqual

---------------------------------------------------------------------------
(* The steps that leave a transfer alone.                                  *)

LEMMA MainIdle ==
    ASSUME TypesInv, Main
    PROVE  /\ SdSame
           /\ \/ drv' = drv
              \/ /\ Done /\ drv'.step \in {"reset", "cmd"}
                 /\ drv'.step = "cmd" => (drv'.clean => Addressed(drv'.block) = drv'.block)
  <1>1. CASE Start
    <2>1. drv'.step = "reset"
      BY <1>1 DEF Start, CallInit, NoCall
    <2> QED
      BY <1>1, <2>1 DEF Start, SdSame, TypesInv, Calls
  <1>2. ASSUME NEW b, CallRead(b) \/ \E s : CallWrite(b, s)
        PROVE  drv'.step = "cmd" /\ (drv'.clean => Addressed(drv'.block) = drv'.block)
    <2>1. drv'.step = "cmd" /\ drv'.block = b
      BY <1>2 DEF CallRead, CallWrite, Called
    <2>2. drv'.clean = (Addressed(b) = b)
      BY <1>2 DEF CallRead, CallWrite, Called
    <2>3. drv'.clean => Addressed(b) = b
      BY <2>2, Zenon
    <2> QED
      BY <2>1, <2>3
  <1>3. CASE ReadFirst \/ ReadSecond \/ Choose
    <2>1. SdSame /\ Done
      BY <1>3 DEF ReadFirst, ReadSecond, Choose, After, SdSame
    <2>2. drv' = drv \/ \E b : CallRead(b) \/ \E s : CallWrite(b, s)
      BY <1>3 DEF ReadFirst, ReadSecond, Choose
    <2> QED
      BY <1>2, <2>1, <2>2
  <1>4. CASE LoadBlock
    BY <1>2, <1>4 DEF LoadBlock, SdSame, TypesInv, Calls
  <1>5. CASE CheckLength \/ CopyOut \/ StartHash \/ HashChunk \/ Verify
    BY <1>5 DEF CheckLength, CopyOut, StartHash, HashChunk, Verify, sdVars, SdSame
  <1> QED
    BY <1>1, <1>3, <1>4, <1>5 DEF Main

LEMMA CommandEffect ==
    ASSUME TypesInv, Reset \/ Identify \/ SendOpCond \/ SelectCard
    PROVE  /\ drv.op = "init" /\ drv'.op = "init"
           /\ drv.step \in {"reset", "ident", "acmd41", "select"}
           /\ drv'.step \in {"ident", "acmd41", "select", "done"}
           /\ card' = card /\ sdhc' = sdhc
           /\ sd'.fsm = sd.fsm /\ sd'.force = sd.force /\ sd'.at = sd.at
  <1>1. drv \in DrvType /\ sd \in SdType
    BY DEF TypesInv, Typed
  <1>2. card' = card /\ sdhc' = sdhc /\ drv.op = "init"
        /\ drv.step \in {"reset", "ident", "acmd41", "select"}
    BY DEF Reset, Identify, SendOpCond, SelectCard
  <1>3. sd' \in {sd, [sd EXCEPT !.fifo = <<>>], [sd EXCEPT !.sts = FALSE]}
    BY DEF Reset, Identify, SendOpCond, SelectCard, Command
  <1>4. sd'.fsm = sd.fsm /\ sd'.force = sd.force /\ sd'.at = sd.at
    BY <1>1, <1>3 DEF SdType
  <1>5. drv'.step \in {"ident", "acmd41", "select", "done"}
    <2>1. CASE Reset
      BY <1>1, <2>1 DEF Reset, On, DrvType
    <2>2. CASE Identify
      BY <1>1, <2>2 DEF Identify, Command, On, Returned, DrvType
    <2>3. CASE SendOpCond
      <3>1. \/ drv' \in {On("select"), Returned(FALSE)}
            \/ drv' = [drv EXCEPT !.left = @ - 1]
        BY <2>3 DEF SendOpCond, Command
      <3>2. drv.step = "acmd41"
        BY <2>3 DEF SendOpCond
      <3> QED
        BY <1>1, <3>1, <3>2 DEF On, Returned, DrvType
    <2>4. CASE SelectCard
      BY <1>1, <2>4 DEF SelectCard, Command, Returned, DrvType
    <2> QED
      BY <2>1, <2>2, <2>3, <2>4
  <1>6. drv'.op = "init"
    BY CommandTypes DEF TypesInv
  <1> QED
    BY <1>2, <1>4, <1>5, <1>6

TransferInv == NotForced /\ Asked /\ Reading /\ Writing

LEMMA IdleTransfers ==
    ASSUME TypesInv, TransferInv,
           Main \/ Reset \/ Identify \/ SendOpCond \/ SelectCard
    PROVE  TransferInv'
  <1>1. CASE SdSame /\ drv' = drv
    BY <1>1 DEF SdSame, TransferInv, NotForced, Asked, Reading, Writing, Busy, Done, Stream,
                Addressed
  <1>2. CASE /\ SdSame /\ Done /\ drv'.step \in {"reset", "cmd"}
             /\ drv'.step = "cmd" => (drv'.clean => Addressed(drv'.block) = drv'.block)
    <2>1. NotForced' /\ Reading' /\ Writing'
      BY <1>2 DEF SdSame, TransferInv, NotForced, Reading, Writing, Busy, Done, Transfer
    <2>2. Asked'
      BY <1>2 DEF SdSame, Asked, Addressed
    <2> QED
      BY <2>1, <2>2 DEF TransferInv
  <1>3. CASE Reset \/ Identify \/ SendOpCond \/ SelectCard
    BY <1>3, CommandEffect DEF TransferInv, NotForced, Asked, Reading, Writing, Busy
  <1> QED
    BY <1>1, <1>2, <1>3, MainIdle

---------------------------------------------------------------------------
(* A block on its way to or from the card.                                 *)

LEMMA Fields ==
    ASSUME Typed
    PROVE  /\ sd \in SdType /\ drv \in DrvType
           /\ sd.fifo \in Seq(Word) /\ sd.todo \in Seq(Word) /\ drv.buf \in Seq(Word)
           /\ Len(sd.fifo) <= Depth /\ Len(sd.fifo) \in Nat /\ Len(drv.buf) \in Nat
           /\ Len(sd.todo) \in Nat /\ drv.left \in Nat
           /\ sd.at \in Block /\ drv.block \in Block
           /\ sd.sts \in BOOLEAN /\ drv.clean \in BOOLEAN /\ drv.ok \in BOOLEAN
           /\ \A b \in Block : card[b] \in Seq(Word) /\ Len(card[b]) = Words
           /\ Stream \in Seq(Word) /\ Len(Stream) = Len(drv.buf) + Len(sd.fifo)
           /\ \A k \in 1 .. Len(drv.buf) : Stream[k] = drv.buf[k]
  <1>1. /\ sd \in SdType /\ drv \in DrvType
        /\ sd.fifo \in Seq(Word) /\ sd.todo \in Seq(Word) /\ drv.buf \in Seq(Word)
        /\ Len(sd.fifo) <= Depth /\ drv.left \in Nat /\ sd.at \in Block /\ drv.block \in Block
        /\ sd.sts \in BOOLEAN /\ drv.clean \in BOOLEAN /\ drv.ok \in BOOLEAN
        /\ \A b \in Block : card[b] \in Seq(Word) /\ Len(card[b]) = Words
    BY DEF Typed, SdType, DrvType
  <1>2. Len(sd.fifo) \in Nat /\ Len(drv.buf) \in Nat /\ Len(sd.todo) \in Nat
    BY <1>1
  <1>3. Stream \in Seq(Word) /\ Len(Stream) = Len(drv.buf) + Len(sd.fifo)
        /\ \A k \in 1 .. Len(drv.buf) : Stream[k] = drv.buf[k]
    BY <1>1, Joined DEF Stream
  <1> QED
    BY <1>1, <1>2, <1>3

LEMMA FifoFields ==
    ASSUME Typed, NEW s, sd' = [sd EXCEPT !.fifo = s]
    PROVE  /\ sd'.fifo = s /\ sd'.fsm = sd.fsm /\ sd'.todo = sd.todo /\ sd'.at = sd.at
           /\ sd'.force = sd.force /\ sd'.sts = sd.sts
  BY DEF Typed, SdType

\* The call is given up, or its loop takes one more turn.
LEMMA TurnedTransfer ==
    ASSUME TransferInv, CardSame, sd' = sd, Turned, drv.step \in Transfer \ {"settle"}
    PROVE  TransferInv'
  <1>1. CASE drv'.step = drv.step /\ drv'.left = drv.left
    <2>1. (Stream' = Stream) /\ ~Done /\ ~Done'
      BY <1>1 DEF Turned, Stream, Done, Transfer
    <2>2. /\ drv'.op = drv.op /\ drv'.block = drv.block /\ drv'.clean = drv.clean
          /\ drv'.buf = drv.buf /\ drv'.left = drv.left /\ drv'.step = drv.step
          /\ card' = card /\ isSdhc' = isSdhc /\ sdhc' = sdhc /\ sd' = sd
      BY <1>1 DEF Turned, SameCall, CardSame
    <2>4. Reading'
      BY <2>1, <2>2 DEF TransferInv, Reading, Busy, Addressed
    <2>5. NotForced' /\ Asked' /\ Writing'
      BY <2>1, <2>2 DEF TransferInv, NotForced, Asked, Writing, Busy, Transfer
    <2> QED
      BY <2>4, <2>5 DEF TransferInv
  <1>2. CASE drv'.step = "done" /\ ~drv'.ok
    <2>1. ~Busy("read")' /\ ~Busy("write")'
      BY <1>2 DEF Busy, Transfer
    <2> QED
      BY <1>2, <2>1 DEF TransferInv, NotForced, Asked, Reading, Writing
  <1> QED
    BY <1>1, <1>2 DEF Turned

LEMMA TakeTransfer ==
    ASSUME TypesInv, TransferInv, Take
    PROVE  TransferInv'
  <1>1. drv.op = "read" /\ drv.step = "fifo" /\ CardSame /\ drv' \in DrvType
    BY TakeEffect DEF TypesInv
  <1>2. Typed /\ Lengths /\ Lengths' /\ Typed'
    BY TakeTypes DEF TypesInv
  <1>3. ASSUME NEW n \in 0 .. Len(sd.fifo), Moves(n, "sts"),
               drv'.buf = drv.buf \o SubSeq(sd.fifo, 1, n),
               sd' = [sd EXCEPT !.fifo = SubSeq(@, n + 1, Len(sd.fifo))]
        PROVE  TransferInv'
    <2>1. /\ sd'.fifo = SubSeq(sd.fifo, n + 1, Len(sd.fifo))
          /\ sd'.fsm = sd.fsm /\ sd'.todo = sd.todo /\ sd'.at = sd.at /\ sd'.force = sd.force
      BY <1>2, <1>3, FifoFields
    <2>2. Stream' = Stream
      <3>1. (drv.buf \o SubSeq(sd.fifo, 1, n)) \o SubSeq(sd.fifo, n + 1, Len(sd.fifo))
              = drv.buf \o sd.fifo
        BY <1>2, Fields, SplitAt
      <3> QED
        BY <1>3, <2>1, <3>1 DEF Stream
    <2>3. SameCall /\ drv'.step \in {"fifo", "sts"}
      BY <1>3 DEF Moves
    <2>4. PICK d \in 0 .. Depth :
            /\ drv.clean => d = 0
            /\ FromCard(Stream, d, card[sd.at], drv.clean)
            /\ sd.fsm = "read" => Remains(Stream, d, card[sd.at], sd.todo)
      BY <1>1 DEF TransferInv, Reading, Busy, Transfer
    <2>5. drv'.clean = drv.clean /\ card' = card /\ sd'.at = sd.at
      BY <1>1, <2>1, <2>3 DEF CardSame, SameCall
    <2>6. FromCard(drv'.buf, d, card'[sd'.at], drv'.clean)
      <3>1. drv'.buf \in Seq(Word) /\ sd'.fifo \in Seq(Word) /\ d \in Nat
        BY <1>2, Numbers DEF Typed, SdType, DrvType
      <3>2. FromCard(drv'.buf \o sd'.fifo, d, card'[sd'.at], drv'.clean)
        BY <2>2, <2>4, <2>5 DEF Stream
      <3> QED
        BY <3>1, <3>2, FromPrefix
    <2>7. Reading'
      BY <1>1, <2>1, <2>2, <2>3, <2>4, <2>5, <2>6
         DEF TransferInv, Reading, Busy, Transfer, SameCall, CardSame, Addressed
    <2>8. NotForced' /\ Asked' /\ Writing'
      BY <1>1, <2>1, <2>3 DEF TransferInv, NotForced, Asked, Writing, Busy, SameCall
    <2> QED
      BY <2>7, <2>8 DEF TransferInv
  <1> QED
    BY <1>1, <1>3, TakeEffect, TurnedTransfer DEF TypesInv, Transfer

LEMMA FillTransfer ==
    ASSUME TypesInv, TransferInv, Fill
    PROVE  TransferInv'
  <1>1. drv.op = "write" /\ drv.step = "fifo" /\ CardSame /\ drv' \in DrvType
    BY FillEffect DEF TypesInv
  <1>2. Typed /\ Lengths
    BY DEF TypesInv
  <1>3. Len(drv.buf) = Words /\ drv.left > 0 /\ drv.left <= Words /\ drv.left \in Nat
        /\ drv.buf \in Seq(Word) /\ sd.fifo \in Seq(Word) /\ sd.todo \in Seq(Word)
    BY <1>1, <1>2, Fields DEF Lengths
  <1>4. ASSUME NEW n \in 0 .. Depth - Len(sd.fifo), Moves(n, "drain"), drv'.buf = drv.buf,
               sd' = [sd EXCEPT !.fifo = @ \o NextWords(n)]
        PROVE  TransferInv'
    <2>1. /\ sd'.fifo = sd.fifo \o NextWords(n)
          /\ sd'.fsm = sd.fsm /\ sd'.todo = sd.todo /\ sd'.at = sd.at /\ sd'.force = sd.force
      BY <1>2, <1>4, FifoFields
    <2>2. /\ SameCall /\ drv'.step \in {"fifo", "drain"}
          /\ n \in Nat /\ n <= drv.left /\ drv'.left = drv.left - n
      BY <1>4 DEF Moves
    <2>3. NotForced' /\ Asked' /\ Reading'
      BY <1>1, <2>1, <2>2 DEF TransferInv, NotForced, Asked, Reading, Busy, SameCall
    <2>4. Writing'
      <3> SUFFICES ASSUME drv'.clean
                   PROVE  /\ sd'.at = drv'.block /\ sd'.fsm = "write"
                          /\ sd'.todo \o sd'.fifo = SubSeq(drv'.buf, 1, Words - drv'.left)
        BY <2>2 DEF Writing
      <3>1. drv.clean /\ drv'.block = drv.block
        BY <2>2 DEF SameCall
      <3>2. /\ sd.at = drv.block /\ sd.fsm = "write"
            /\ sd.todo \o sd.fifo = SubSeq(drv.buf, 1, Words - drv.left)
        <4>1. Busy("write") /\ ~(drv.left = 0)
          BY <1>1, <1>3 DEF Busy, Transfer
        <4> QED
          BY <3>1, <4>1 DEF TransferInv, Writing
      <3> DEFINE a == Words - drv.left
      <3>3. a \in Nat /\ a + n <= Words /\ Words - drv'.left = a + n
        BY <1>3, <2>2, Numbers, SMTT(30)
      <3>4. NextWords(n) = SubSeq(drv.buf, a + 1, a + n)
        BY DEF NextWords
      <3> HIDE DEF a
      <3>5. /\ SubSeq(drv.buf, 1, a) \o SubSeq(drv.buf, a + 1, a + n)
                = SubSeq(drv.buf, 1, a + n)
            /\ SubSeq(drv.buf, a + 1, a + n) \in Seq(Word)
        BY <1>3, <2>2, <3>3, Adjacent
      <3>6. (sd.todo \o sd.fifo) \o NextWords(n) = sd.todo \o (sd.fifo \o NextWords(n))
        <4> DEFINE part == NextWords(n)
        <4>1. part \in Seq(Word)
          BY <3>4, <3>5
        <4> HIDE DEF part
        <4>2. (sd.todo \o sd.fifo) \o part = sd.todo \o (sd.fifo \o part)
          BY <1>3, <4>1, Regroup
        <4> QED
          BY <4>2 DEF part
      <3>7. sd.todo \o sd.fifo = SubSeq(drv.buf, 1, a)
        BY <3>2 DEF a
      <3>8. sd'.todo \o sd'.fifo = SubSeq(drv'.buf, 1, Words - drv'.left)
        BY <1>4, <2>1, <3>3, <3>4, <3>5, <3>6, <3>7
      <3> QED
        BY <2>1, <3>1, <3>2, <3>8
    <2> QED
      BY <2>3, <2>4 DEF TransferInv
  <1> QED
    BY <1>1, <1>2, <1>4, FillEffect, TurnedTransfer DEF Transfer

LEMMA SendCmdTransfer ==
    ASSUME TypesInv, TransferInv, SendCmd
    PROVE  TransferInv'
  <1>1. /\ drv.op \in {"read", "write"} /\ drv.step = "cmd" /\ CardSame /\ drv' \in DrvType
        /\ Failed \/ \E f \in {sd.fifo, <<>>} : Accepted(f)
    BY SendCmdEffect DEF TypesInv
  <1>2. Typed /\ Lengths
    BY DEF TypesInv
  <1>3. ~sd.force /\ sd.fsm \in Modes
    BY <1>1, <1>2 DEF TransferInv, NotForced, Typed, SdType
  <1>4. \A f \in {sd.fifo, <<>>} : f \in Seq(Word) /\ Len(f) \in 0 .. Depth
    <2>1. <<>> \in Seq(Word) /\ Len(<<>>) = 0 /\ 0 \in 0 .. Depth
      BY Numbers
    <2>2. sd.fifo \in Seq(Word) /\ Len(sd.fifo) \in 0 .. Depth
      BY <1>2, Fields, Numbers
    <2>3. ASSUME NEW f \in {sd.fifo, <<>>} PROVE f = sd.fifo \/ f = <<>>
      OBVIOUS
    <2> QED
      BY <2>1, <2>2, <2>3
  <1>5. ASSUME NEW f \in {sd.fifo, <<>>}, sd' = Begun(f)
        PROVE  /\ ~sd'.force /\ sd'.fsm = drv.op /\ sd'.fifo = f
               /\ sd'.at = Addressed(drv.block)
               /\ drv.op = "read" => sd'.todo = card[Addressed(drv.block)]
               /\ drv.op = "write" => sd'.todo = <<>>
    BY <1>1, <1>2, <1>3, <1>4, <1>5, BegunFields
  <1>6. CASE Failed
    <2>1. ~sd'.force
      <3>1. CASE sd' = sd \/ sd' = [sd EXCEPT !.sts = FALSE]
        BY <1>2, <1>3, <3>1 DEF Typed, SdType
      <3> QED
        BY <1>5, <1>6, <3>1 DEF Failed
    <2>2. drv'.step = "done" /\ ~drv'.ok
      BY <1>6 DEF Failed
    <2> QED
      BY <2>1, <2>2 DEF TransferInv, NotForced, Asked, Reading, Writing, Busy, Transfer
  <1>7. ASSUME NEW f \in {sd.fifo, <<>>}, Accepted(f)
        PROVE  TransferInv'
    <2>1. /\ sd' = Begun(f) /\ drv'.op = drv.op /\ drv'.block = drv.block
          /\ drv'.buf = drv.buf /\ drv'.left = drv.left /\ drv'.step = "fifo"
          /\ drv'.clean => drv.clean /\ f = <<>>
      BY <1>7 DEF Accepted
    <2>2. /\ ~sd'.force /\ sd'.fsm = drv.op /\ sd'.fifo = f /\ sd'.at = Addressed(drv.block)
          /\ drv.op = "read" => sd'.todo = card[Addressed(drv.block)]
          /\ drv.op = "write" => sd'.todo = <<>>
      BY <1>5, <2>1
    <2>3. drv'.clean => sd'.at = drv'.block
      BY <1>1, <2>1, <2>2 DEF TransferInv, Asked
    <2>4. NotForced' /\ Asked'
      BY <2>1, <2>2 DEF NotForced, Asked
    <2>5. CASE drv.op = "read"
      <3>1. Addressed(drv.block)' = sd'.at /\ card' = card /\ sd'.todo = card'[sd'.at]
        BY <1>1, <2>1, <2>2, <2>5 DEF CardSame, Addressed
      <3>2. drv'.buf = <<>>
        BY <1>1, <1>2, <2>1, <2>5 DEF Lengths
      <3>3. f \in Seq(Word) /\ Len(f) \in 0 .. Depth /\ Len(sd'.todo) = Words
        BY <1>2, <1>4, <2>2, <2>5, AddressedType, Fields
      <3>4. Stream' = f
        BY <2>2, <3>2, <3>3, ConcatEmptySeq DEF Stream
      <3>5. /\ FromCard(Stream', Len(f), card'[sd'.at], drv'.clean)
            /\ Remains(Stream', Len(f), card'[sd'.at], sd'.todo)
        BY <3>1, <3>3, <3>4, FromStart
      <3>6. drv'.clean => Len(f) = 0
        BY <2>1
      <3>7. Reading'
        BY <2>1, <2>2, <2>3, <2>5, <3>1, <3>3, <3>5, <3>6 DEF Reading
      <3>8. Writing'
        BY <2>1, <2>5 DEF Writing, Busy
      <3> QED
        BY <2>4, <3>7, <3>8 DEF TransferInv
    <2>6. CASE drv.op = "write"
      <3>1. Reading'
        BY <2>1, <2>6 DEF Reading, Busy
      <3>2. Words - drv'.left = 0
        BY <1>1, <1>2, <2>1, <2>6, Numbers DEF Lengths
      <3>3. SubSeq(drv'.buf, 1, Words - drv'.left) = <<>>
        BY <3>2, SubSeqEmpty
      <3>4. drv'.clean => sd'.todo \o sd'.fifo = <<>>
        BY <2>1, <2>2, <2>6
      <3>5. Writing'
        BY <2>1, <2>2, <2>3, <2>6, <3>3, <3>4 DEF Writing
      <3> QED
        BY <2>4, <3>1, <3>5 DEF TransferInv
    <2> QED
      BY <1>1, <2>5, <2>6
  <1> QED
    BY <1>1, <1>6, <1>7

LEMMA TailTransfer ==
    ASSUME TypesInv, TransferInv, Drain \/ CheckStatus \/ PollState \/ Settle \/ Conclude
    PROVE  TransferInv'
  <1>1. Typed /\ drv.op \in {"read", "write"} /\ CardSame
    BY TailEffect DEF TypesInv
  <1>2. CASE sd' = sd /\ Turned /\ drv.step \in {"sts", "fsm"}
    BY <1>1, <1>2, TurnedTransfer DEF Transfer
  <1>3. \/ sd' = sd /\ Turned /\ drv.step \in {"sts", "fsm"}
        \/ /\ SameCall /\ drv'.buf = drv.buf
           /\ sd'.fsm = sd.fsm /\ sd'.at = sd.at /\ sd'.todo = sd.todo /\ sd'.fifo = sd.fifo
           /\ drv.step \in Transfer \ {"fifo"}
           /\ \/ /\ drv'.left = drv.left /\ sd'.sts = sd.sts
                 /\ drv'.step \in Transfer \ {"fifo"}
                 /\ drv.step \in {"settle", "final"} \/ sd.fsm # "write"
                       \/ drv'.step \in {"drain", "sts", "fsm"}
                 /\ drv'.step = "settle" => sd.fsm # "write"
                 /\ sd'.force => drv'.step = "settle"
              \/ /\ drv.step = "final" /\ drv'.step = "done" /\ drv'.left = 0
                 /\ drv'.ok = ~sd.sts /\ ~sd'.force
    <2>1. sd \in SdType /\ NotForced
      BY <1>1 DEF Typed, TransferInv
    <2>2. ASSUME NEW b \in BOOLEAN, sd' = [sd EXCEPT !.force = b]
          PROVE  /\ sd'.fsm = sd.fsm /\ sd'.at = sd.at /\ sd'.todo = sd.todo
                 /\ sd'.fifo = sd.fifo /\ sd'.sts = sd.sts /\ sd'.force = b
      BY <2>1, <2>2 DEF SdType
    <2>3. ASSUME sd' = [sd EXCEPT !.sts = FALSE]
          PROVE  /\ sd'.fsm = sd.fsm /\ sd'.at = sd.at /\ sd'.todo = sd.todo
                 /\ sd'.fifo = sd.fifo /\ sd'.force = sd.force
      BY <2>1, <2>3 DEF SdType
    <2>4. CASE drv.step = "drain" /\ sd' = sd /\ (Goes("drain") \/ Goes("sts"))
      BY <2>1, <2>4 DEF Goes, NotForced, Transfer
    <2>5. CASE drv.step = "sts" /\ sd' = sd /\ Goes("fsm")
      BY <2>1, <2>5 DEF Goes, NotForced, Transfer
    <2>6. CASE drv.step = "fsm" /\ sd' = sd /\ sd.fsm = "idle" /\ Goes("final")
      BY <2>1, <2>6 DEF Goes, NotForced, Transfer
    <2>7. CASE /\ drv.step = "fsm" /\ sd.fsm \in {"read", "parked"} /\ Goes("settle")
               /\ sd' = [sd EXCEPT !.force = TRUE]
      BY <2>1, <2>2, <2>7 DEF Goes, NotForced, Transfer
    <2>8. CASE drv.step = "settle" /\ sd' = sd /\ Goes("settle")
      BY <2>1, <2>8 DEF Goes, NotForced, Transfer
    <2>9. CASE drv.step = "settle" /\ sd' = [sd EXCEPT !.force = FALSE] /\ Goes("final")
      BY <2>1, <2>2, <2>9 DEF Goes, NotForced, Transfer
    <2>10. CASE /\ drv.step = "final" /\ sd' = [sd EXCEPT !.sts = FALSE]
                /\ SameCall /\ drv'.buf = drv.buf
                /\ drv'.step = "done" /\ drv'.left = 0 /\ drv'.ok = ~sd.sts
      BY <2>1, <2>3, <2>10 DEF NotForced, Transfer
    <2> QED
      BY <1>1, <2>4, <2>5, <2>6, <2>7, <2>8, <2>9, <2>10, TailEffect
  <1>4. ASSUME SameCall, drv'.buf = drv.buf,
               sd'.fsm = sd.fsm, sd'.at = sd.at, sd'.todo = sd.todo, sd'.fifo = sd.fifo,
               drv.step \in Transfer \ {"fifo"}
        PROVE  /\ drv'.step # "fifo" => Reading'
               /\ drv'.step # "cmd" => Asked'
               /\ Busy("write") => drv.op = "write"
    <2>1. drv'.op = drv.op /\ drv'.block = drv.block /\ drv'.clean = drv.clean
          /\ card' = card /\ sdhc' = sdhc /\ isSdhc' = isSdhc
      BY <1>1, <1>4 DEF SameCall, CardSame
    <2>2. Busy("read")' => Busy("read")
      BY <1>4, <2>1 DEF Busy
    <2>3. drv'.step # "fifo" => Reading'
      BY <1>4, <2>1, <2>2 DEF TransferInv, Reading, Addressed
    <2> QED
      BY <2>3 DEF Asked, Busy
  <1>5. ASSUME SameCall, drv'.buf = drv.buf,
               sd'.fsm = sd.fsm, sd'.at = sd.at, sd'.todo = sd.todo, sd'.fifo = sd.fifo,
               drv.step \in Transfer \ {"fifo"},
               drv'.left = drv.left, sd'.sts = sd.sts, drv'.step \in Transfer \ {"fifo"},
               drv.step \in {"settle", "final"} \/ sd.fsm # "write"
                  \/ drv'.step \in {"drain", "sts", "fsm"},
               drv'.step = "settle" => sd.fsm # "write",
               sd'.force => drv'.step = "settle"
        PROVE  TransferInv'
    <2>1. Reading' /\ Asked' /\ NotForced'
      BY <1>4, <1>5 DEF NotForced, Transfer
    <2>2. Writing'
      <3> SUFFICES ASSUME Busy("write")', drv'.clean
                   PROVE  /\ sd.at = drv.block
                          /\ sd.fsm \in {"write", "idle", "parked"}
                          /\ sd.fsm = "write" =>
                                /\ drv'.step \in {"fifo", "drain", "sts", "fsm"}
                                /\ sd.todo \o sd.fifo = SubSeq(drv.buf, 1, Words - drv.left)
                          /\ sd.fsm # "write" =>
                                /\ drv.left = 0
                                /\ card[drv.block] = drv.buf \/ (sd.sts /\ ~Done')
        BY <1>1, <1>5 DEF Writing, SameCall, CardSame
      <3>1. Busy("write") /\ drv.clean /\ ~Done'
        BY <1>5 DEF Busy, SameCall, Done, Transfer
      <3>2. drv.step = "settle" => sd.fsm # "write"
        BY DEF TransferInv, NotForced
      <3> QED
        BY <1>5, <3>1, <3>2 DEF TransferInv, Writing
    <2> QED
      BY <2>1, <2>2 DEF TransferInv
  <1>6. ASSUME SameCall, drv'.buf = drv.buf,
               sd'.fsm = sd.fsm, sd'.at = sd.at, sd'.todo = sd.todo, sd'.fifo = sd.fifo,
               drv.step = "final", drv'.step = "done", drv'.left = 0,
               drv'.ok = ~sd.sts, ~sd'.force
        PROVE  TransferInv'
    <2>1. drv.step \in Transfer \ {"fifo"} /\ drv'.step \notin Transfer
      BY <1>6 DEF Transfer
    <2>2. Reading' /\ Asked' /\ NotForced'
      BY <1>4, <1>6, <2>1 DEF NotForced
    <2>3. Writing'
      <3> SUFFICES ASSUME Busy("write")', drv'.clean
                   PROVE  /\ sd.at = drv.block /\ sd.fsm \in {"idle", "parked"}
                          /\ card[drv.block] = drv.buf
        BY <1>1, <1>6 DEF Writing, SameCall, CardSame
      <3>1. Busy("write") /\ drv.clean
        BY <1>6, <2>1 DEF Busy, SameCall
      <3>2. drv'.ok
        BY <2>1 DEF Busy
      <3>3. ~sd.sts
        BY <1>6, <3>2, Zenon
      <3> QED
        BY <1>6, <3>1, <3>3 DEF TransferInv, Writing
    <2> QED
      BY <2>2, <2>3 DEF TransferInv
  <1> QED
    BY <1>2, <1>3, <1>5, <1>6

LEMMA DriverTransfer ==
    ASSUME TypesInv, TransferInv, Driver
    PROVE  TransferInv'
  BY IdleTransfers, SendCmdTransfer, TakeTransfer, FillTransfer, TailTransfer DEF Driver

---------------------------------------------------------------------------
(* The controller.                                                         *)

LEMMA RxWordTransfer ==
    ASSUME TypesInv, TransferInv, RxWord
    PROVE  TransferInv'
  <1>1. /\ CardSame /\ sd' \in SdType /\ drv' \in DrvType
        /\ sd.fsm = "read" /\ sd'.fsm \in {"read", "crc"} /\ sd.todo # <<>>
        /\ sd'.todo = Tail(sd.todo) /\ sd'.at = sd.at /\ sd'.force = sd.force
        /\ \/ drv' = drv /\ sd'.fifo = Append(sd.fifo, Head(sd.todo))
           \/ drv' = [drv EXCEPT !.clean = FALSE] /\ sd'.fifo = Append(sd.fifo, Damaged)
    BY RxWordEffect DEF TypesInv
  <1>2. Typed /\ drv \in DrvType /\ sd.todo \in Seq(Word) /\ sd.fifo \in Seq(Word)
        /\ drv.buf \in Seq(Word)
    BY Fields DEF TypesInv
  <1>3. drv'.op = drv.op /\ drv'.step = drv.step /\ drv'.block = drv.block
        /\ drv'.left = drv.left /\ drv'.buf = drv.buf /\ drv'.ok = drv.ok
    BY <1>1, <1>2 DEF DrvType
  <1>4. drv' = drv \/ drv'.clean = FALSE
    BY <1>1, <1>2 DEF DrvType
  <1>5. drv.clean \in BOOLEAN /\ drv'.clean \in BOOLEAN /\ (drv'.clean => drv.clean)
    BY <1>1, <1>2, <1>4 DEF DrvType
  <1>6. PICK w \in Word :
          sd'.fifo = Append(sd.fifo, w) /\ (w = Head(sd.todo) \/ (~drv'.clean /\ w = Damaged))
    <2>1. Head(sd.todo) \in Word /\ Damaged \in Word
      BY <1>1, <1>2, HeadTailProperties, NotWords
    <2>2. CASE drv' = drv /\ sd'.fifo = Append(sd.fifo, Head(sd.todo))
      BY <2>1, <2>2
    <2>3. CASE drv' = [drv EXCEPT !.clean = FALSE] /\ sd'.fifo = Append(sd.fifo, Damaged)
      <3>1. ~drv'.clean
        BY <1>2, <2>3 DEF DrvType
      <3> QED
        BY <2>1, <2>3, <3>1
    <2> QED
      BY <1>1, <2>2, <2>3
  <1>7. card' = card /\ sdhc' = sdhc /\ isSdhc' = isSdhc
    BY <1>1 DEF CardSame
  <1>8. NotForced' /\ Asked'
    BY <1>1, <1>3, <1>5, <1>7 DEF TransferInv, NotForced, Asked, Addressed
  <1>9. Writing'
    <2>1. Busy("write")' /\ drv'.clean => Busy("write") /\ drv.clean
      BY <1>3, <1>5 DEF Busy, Done
    <2> QED
      BY <1>1, <2>1 DEF TransferInv, Writing
  <1>10. Reading'
    <2> SUFFICES ASSUME Busy("read")' PROVE Reading'
      BY DEF Reading
    <2>1. Busy("read")
      BY <1>3 DEF Busy, Done
    <2>2. PICK d \in 0 .. Depth :
            /\ drv.clean => d = 0
            /\ drv.step # "fifo" => FromCard(drv.buf, d, card[sd.at], drv.clean)
            /\ drv.step = "fifo" => /\ FromCard(Stream, d, card[sd.at], drv.clean)
                                    /\ Remains(Stream, d, card[sd.at], sd.todo)
      BY <1>1, <2>1 DEF TransferInv, Reading
    <2>3. Stream' = Append(Stream, w) /\ Stream \in Seq(Word)
      <3>1. drv.buf \o Append(sd.fifo, w) = Append(drv.buf \o sd.fifo, w)
        BY <1>2, AppendOn
      <3>2. drv.buf \o sd.fifo \in Seq(Word)
        BY <1>2, Joined
      <3>3. Stream' = drv.buf \o Append(sd.fifo, w)
        BY <1>3, <1>6 DEF Stream
      <3> QED
        BY <3>1, <3>2, <3>3 DEF Stream
    <2>4. d \in Nat
      BY Numbers
    <2>5. CASE drv.step = "fifo"
      <3>1. /\ FromCard(Stream', d, card[sd.at], drv'.clean)
            /\ Remains(Stream', d, card[sd.at], Tail(sd.todo))
        BY <1>1, <1>2, <1>5, <1>6, <2>2, <2>3, <2>4, <2>5, FromAppend
      <3> QED
        BY <1>1, <1>3, <1>5, <1>7, <2>1, <2>2, <2>5, <3>1
           DEF TransferInv, Reading, Addressed
    <2>6. CASE drv.step # "fifo"
      <3>1. FromCard(drv.buf, d, card[sd.at], drv'.clean)
        BY <1>5, <2>2, <2>6 DEF FromCard
      <3> QED
        BY <1>1, <1>3, <1>5, <1>7, <2>1, <2>2, <2>6, <3>1
           DEF TransferInv, Reading, Addressed
    <2> QED
      BY <2>5, <2>6
  <1> QED
    BY <1>8, <1>9, <1>10 DEF TransferInv

LEMMA TxWordTransfer ==
    ASSUME TypesInv, TransferInv, TxWord
    PROVE  TransferInv'
  <1>1. /\ CardSame /\ drv' = drv /\ sd.fsm = "write" /\ sd'.fsm = "write" /\ sd.fifo # <<>>
        /\ sd'.fifo = Tail(sd.fifo) /\ sd'.todo = Append(sd.todo, Head(sd.fifo))
        /\ sd'.at = sd.at /\ sd'.force = sd.force
    BY TxWordEffect DEF TypesInv
  <1>2. sd.todo \in Seq(Word) /\ sd.fifo \in Seq(Word)
    BY Fields DEF TypesInv
  <1>3. sd'.todo \o sd'.fifo = sd.todo \o sd.fifo
    BY <1>1, <1>2, MoveOn
  <1> QED
    BY <1>1, <1>3 DEF TransferInv, NotForced, Asked, Reading, Writing, Busy, Done, CardSame,
                      Addressed

LEMMA TxEndTransfer ==
    ASSUME TypesInv, TransferInv, TxEnd
    PROVE  TransferInv'
  <1>1. /\ drv' = drv /\ sdhc' = sdhc /\ isSdhc' = isSdhc
        /\ sd.fsm = "write" /\ Len(sd.todo) = Words
        /\ sd'.fsm \in {"idle", "parked"} /\ sd'.fifo = sd.fifo /\ sd'.at = sd.at
        /\ sd'.force = sd.force
        /\ \/ card' = [card EXCEPT ![sd.at] = sd.todo]
           \/ card' = card /\ sd'.sts
    BY TxEndEffect DEF TypesInv
  <1>2. Typed /\ Lengths
    BY DEF TypesInv
  <1>3. NotForced' /\ Asked' /\ Reading'
    BY <1>1 DEF TransferInv, NotForced, Asked, Reading, Busy, Done, Addressed
  <1>4. Writing'
    <2> SUFFICES ASSUME Busy("write"), drv.clean
                 PROVE  /\ sd.at = drv.block /\ drv.left = 0 /\ ~Done
                        /\ card'[drv.block] = drv.buf \/ sd'.sts
      BY <1>1 DEF Writing, Busy, Done
    <2>1. /\ sd.at = drv.block /\ drv.step \in {"fifo", "drain", "sts", "fsm"}
          /\ sd.todo \o sd.fifo = SubSeq(drv.buf, 1, Words - drv.left)
      BY <1>1 DEF TransferInv, Writing
    <2>2. /\ Len(drv.buf) = Words /\ drv.left \in Nat /\ drv.left <= Words /\ Words \in Nat
          /\ drv.buf \in Seq(Word) /\ sd.todo \in Seq(Word) /\ sd.fifo \in Seq(Word)
          /\ Len(sd.fifo) \in Nat
      BY <1>2, Fields, Numbers DEF Lengths, Busy
    <2>3. Len(sd.todo \o sd.fifo) = Words + Len(sd.fifo)
      <3>1. Len(sd.todo \o sd.fifo) = Len(sd.todo) + Len(sd.fifo)
        BY <2>2, Joined
      <3> QED
        BY <1>1, <3>1
    <2>4. Len(SubSeq(drv.buf, 1, Words - drv.left)) = Words - drv.left
      <3>1. Words - drv.left \in 0 .. Len(drv.buf)
        BY <2>2
      <3> QED
        BY <2>2, <3>1, SplitAt
    <2>5. drv.left = 0 /\ Len(sd.fifo) = 0
      <3>1. Words + Len(sd.fifo) = Words - drv.left
        BY <2>1, <2>3, <2>4
      <3> QED
        BY <2>2, <3>1
    <2>6. sd.fifo = <<>>
      BY <2>2, <2>5, EmptySeq
    <2>7. SubSeq(drv.buf, 1, Words - drv.left) = drv.buf
      <3>1. Words - drv.left = Len(drv.buf)
        BY <2>2, <2>5
      <3> QED
        BY <2>2, <3>1, SubSeqFull
    <2>8. sd.todo = drv.buf
      BY <2>1, <2>2, <2>6, <2>7, ConcatEmptySeq
    <2>9. card'[drv.block] = drv.buf \/ sd'.sts
      BY <1>1, <1>2, <2>1, <2>8 DEF Typed, DrvType
    <2> QED
      BY <2>1, <2>5, <2>9 DEF Done
  <1> QED
    BY <1>3, <1>4 DEF TransferInv

LEMMA EndTransfer ==
    ASSUME TypesInv, TransferInv, RxEnd \/ ForceIdle
    PROVE  TransferInv'
  <1>1. /\ CardSame /\ drv' = drv /\ sd'.fsm \in {"idle", "parked"} /\ sd'.fifo = sd.fifo
        /\ sd'.at = sd.at /\ sd'.force = sd.force /\ (sd.sts => sd'.sts)
        /\ sd.fsm = "write" => sd.force
    BY OtherEffect DEF TypesInv
  <1>2. sd.fsm # "write"
    BY <1>1 DEF TransferInv, NotForced
  <1>3. Stream' = Stream /\ card' = card /\ sdhc' = sdhc /\ isSdhc' = isSdhc
    BY <1>1 DEF Stream, CardSame
  <1>4. NotForced' /\ Asked' /\ Writing'
    BY <1>1, <1>2, <1>3 DEF TransferInv, NotForced, Asked, Writing, Busy, Done, Addressed
  <1>5. Reading'
    BY <1>1, <1>2, <1>3 DEF TransferInv, Reading, Busy, Done, Addressed
  <1> QED
    BY <1>4, <1>5 DEF TransferInv

LEMMA TransferStep ==
    ASSUME TypesInv, TransferInv, Next
    PROVE  TransferInv'
  BY IdleTransfers, DriverTransfer, RxWordTransfer, TxWordTransfer, TxEndTransfer, EndTransfer
     DEF Next, Program, Controller

LEMMA TransferInit == Init => TransferInv
  <1> SUFFICES ASSUME Init PROVE TransferInv
    OBVIOUS
  <1>1. drv.op = "none" /\ drv.step = "done" /\ ~sd.force
    <2>1. drv.op = "none" /\ drv.step = "done"
      BY DEF Init, SdInit, NoCall
    <2>2. PICK f \in {"idle", "parked"}, w \in {<<>>, <<Damaged>>} :
            sd = [SdIdle EXCEPT !.fsm = f, !.fifo = w]
      BY DEF Init, SdInit
    <2>3. ~sd.force
      BY <2>2 DEF SdIdle
    <2> QED
      BY <2>1, <2>3
  <1> QED
    BY <1>1 DEF TransferInv, NotForced, Asked, Reading, Writing, Busy

---------------------------------------------------------------------------
(* The copies of the record.                                               *)

\* A record that was read lies where it was looked for: nothing that was
\* left in the FIFO, and no other block, makes one.
LEMMA HeardRecord ==
    ASSUME TypesInv, TransferInv, card \in Cards, NEW c \in Copy,
           Done, drv.op = "read", drv.block = CopyBlock(c), Heard # NoRecord
    PROVE  isSdhc = sdhc /\ Parsed(card[CopyBlock(c)]) = Heard
  <1>1. drv.ok /\ Heard = Parsed(drv.buf)
    BY DEF Heard
  <1>2. Busy("read") /\ drv.step # "fifo"
    BY <1>1 DEF Busy, Done
  <1>3. drv.buf \in Seq(Word) /\ Typed /\ sd.at \in Block
        /\ card[sd.at] \in Seq(Word) /\ Len(card[sd.at]) = Words
    BY Fields DEF TypesInv
  <1>4. /\ Len(drv.buf) = Words
        /\ \A k \in 1 .. Words : drv.buf[k] \in RecordWord /\ drv.buf[k][3] = k
    BY <1>1, <1>3, ParsedRecord
  <1>5. PICK d \in 0 .. Depth : FromCard(drv.buf, d, card[sd.at], drv.clean)
    BY <1>2 DEF TransferInv, Reading
  <1>6. d \in Nat /\ d < Words /\ Words \in Nat
    BY Numbers
  <1>7. ASSUME NEW k \in d + 1 .. Words
        PROVE  drv.buf[k] = card[sd.at][k - d]
    <2>1. k \in 1 .. Words
      BY <1>6
    <2>2. drv.buf[k] # Damaged
      BY <1>4, <2>1, NotWords
    <2> QED
      BY <1>4, <1>5, <2>2 DEF FromCard
  <1>8. CardOK(card)
    BY Stage0Assumption
  <1>9. ASSUME NEW k \in d + 1 .. Words
        PROVE  sd.at # Far /\ k = k - d
    <2>1. k \in 1 .. Words /\ k - d \in 1 .. Words
      BY <1>6
    <2>2. card[sd.at][k - d] \in RecordWord /\ card[sd.at][k - d][3] = k
      BY <1>4, <1>7, <2>1
    <2>3. sd.at # Far /\ card[sd.at][k - d][3] = k - d
      BY <1>3, <1>8, <2>1, <2>2 DEF CardOK
    <2> QED
      BY <2>2, <2>3
  <1>10. Words \in d + 1 .. Words
    BY <1>6
  <1>11. sd.at # Far /\ d = 0
    <2>1. Words = Words - d
      BY <1>9, <1>10
    <2> QED
      BY <1>6, <1>9, <1>10, <2>1
  <1>12. sd.at = Addressed(drv.block)
    BY <1>2 DEF TransferInv, Reading
  <1>13. isSdhc = sdhc /\ sd.at = CopyBlock(c)
    BY <1>11, <1>12 DEF Addressed
  <1>14. \A k \in 1 .. Words : drv.buf[k] = card[sd.at][k]
    <2> TAKE k \in 1 .. Words
    <2>1. k \in d + 1 .. Words /\ k - d = k
      BY <1>6, <1>11
    <2>2. drv.buf[k] = card[sd.at][k - d]
      BY <1>7, <2>1
    <2> QED
      BY <2>1, <2>2
  <1>15. drv.buf = card[sd.at]
    BY <1>3, <1>4, <1>14, SeqEqual
  <1> QED
    BY <1>1, <1>13, <1>15

LEMMA DriverEffect ==
    ASSUME TypesInv, Driver
    PROVE  /\ card' = card /\ sdhc' = sdhc
           /\ drv'.op = drv.op /\ drv.op # "none"
           /\ drv.op # "init" => isSdhc' = isSdhc /\ drv'.block = drv.block
           /\ \/ sd'.fsm = sd.fsm /\ sd'.at = sd.at
              \/ /\ drv.op \in {"read", "write"}
                 /\ sd'.fsm = drv.op /\ sd'.at = Addressed(drv.block)
  <1>1. Typed /\ Lengths
    BY DEF TypesInv
  <1>2. drv'.op = drv.op /\ drv.op # "none" /\ (drv.op # "init" => drv'.block = drv.block)
    BY <1>1, CallKept
  <1>3. CASE Reset \/ Identify \/ SendOpCond \/ SelectCard
    BY <1>2, <1>3, CommandEffect
  <1>4. CASE SendCmd
    <2>1. CardSame /\ drv.op \in {"read", "write"}
          /\ (Failed \/ \E f \in {sd.fifo, <<>>} : Accepted(f))
      BY <1>1, <1>4, SendCmdEffect
    <2>2. ASSUME NEW f \in {sd.fifo, <<>>}, sd' = Begun(f)
          PROVE  sd'.fsm = drv.op /\ sd'.at = Addressed(drv.block)
      <3>1. f \in Seq(Word)
        <4>1. sd.fifo \in Seq(Word) /\ <<>> \in Seq(Word)
          BY <1>1, Fields
        <4>2. f = sd.fifo \/ f = <<>>
          BY <2>2
        <4> QED
          BY <4>1, <4>2
      <3> QED
        BY <1>1, <2>1, <2>2, <3>1, BegunFields
    <2>3. CASE Failed
      <3>1. CASE sd' = sd \/ sd' = [sd EXCEPT !.sts = FALSE]
        <4>1. sd'.fsm = sd.fsm /\ sd'.at = sd.at
          BY <1>1, <3>1 DEF Typed, SdType
        <4> QED
          BY <1>2, <2>1, <4>1 DEF CardSame
      <3>2. CASE \E f \in {sd.fifo, <<>>} : sd' = Begun(f)
        BY <1>2, <2>1, <2>2, <3>2 DEF CardSame
      <3> QED
        BY <2>3, <3>1, <3>2 DEF Failed
    <2>4. CASE \E f \in {sd.fifo, <<>>} : Accepted(f)
      BY <1>2, <2>1, <2>2, <2>4 DEF CardSame, Accepted
    <2> QED
      BY <2>1, <2>3, <2>4
  <1>5. CASE Take
    <2>1. CardSame /\ sd'.fsm = sd.fsm /\ sd'.at = sd.at
      BY <1>1, <1>5, TakeEffect, FifoFields
    <2> QED
      BY <1>2, <2>1 DEF CardSame
  <1>6. CASE Fill
    <2>1. CardSame /\ sd'.fsm = sd.fsm /\ sd'.at = sd.at
      BY <1>1, <1>6, FillEffect, FifoFields
    <2> QED
      BY <1>2, <2>1 DEF CardSame
  <1>7. CASE Drain \/ CheckStatus \/ PollState \/ Settle \/ Conclude
    <2>1. CardSame /\ \E b \in BOOLEAN : sd' \in {sd, [sd EXCEPT !.force = b], [sd EXCEPT !.sts = b]}
      BY <1>1, <1>7, TailEffect
    <2>2. sd'.fsm = sd.fsm /\ sd'.at = sd.at
      BY <1>1, <2>1, SdTurned
    <2> QED
      BY <1>2, <2>1, <2>2 DEF CardSame
  <1> QED
    BY <1>3, <1>4, <1>5, <1>6, <1>7 DEF Driver

LEMMA ControllerEffect ==
    ASSUME TypesInv, Controller
    PROVE  /\ sdhc' = sdhc /\ isSdhc' = isSdhc /\ sd'.at = sd.at
           /\ drv'.op = drv.op /\ drv'.block = drv.block
           /\ sd'.fsm = "write" => sd.fsm = "write"
           /\ \/ card' = card
              \/ /\ sd.fsm = "write" /\ sd'.fsm # "write"
                 /\ \A b \in Block : b # sd.at => card'[b] = card[b]
  <1>1. Typed /\ drv \in DrvType
    BY DEF TypesInv, Typed
  <1>2. CASE RxWord
    <2>1. drv' = drv \/ drv' = [drv EXCEPT !.clean = FALSE]
      BY <1>1, <1>2, RxWordEffect
    <2>2. drv'.op = drv.op /\ drv'.block = drv.block
      BY <1>1, <2>1 DEF DrvType
    <2> QED
      BY <1>1, <1>2, <2>2, RxWordEffect DEF CardSame
  <1>3. CASE TxWord
    BY <1>1, <1>3, TxWordEffect DEF CardSame
  <1>4. CASE TxEnd
    BY <1>1, <1>4, TxEndEffect DEF Typed
  <1>5. CASE RxEnd \/ ForceIdle
    BY <1>1, <1>5, OtherEffect DEF CardSame
  <1> QED
    BY <1>2, <1>3, <1>4, <1>5 DEF Controller

IInv == TypesInv /\ TransferInv /\ Known /\ RecordSafe

LEMMA RecordInit == Init => Known /\ RecordSafe
  <1> SUFFICES ASSUME Init PROVE Known /\ RecordSafe
    OBVIOUS
  <1>1. card \in Cards /\ pc = "start" /\ got[0] = NoRecord /\ drv.op = "none"
    BY DEF Init, SdInit, NoCall, Copy
  <1>2. sd.fsm # "write"
    <2>1. PICK f \in {"idle", "parked"}, w \in {<<>>, <<Damaged>>} :
            sd = [SdIdle EXCEPT !.fsm = f, !.fifo = w]
      BY DEF Init, SdInit
    <2> QED
      BY <2>1 DEF SdIdle
  <1>3. \E c \in Copy : Parsed(card[CopyBlock(c)]) # NoRecord
    BY <1>1, Stage0Assumption DEF CardOK, Copy
  <1> QED
    BY <1>1, <1>2, <1>3 DEF Known, RecordSafe

LEMMA MainRecord ==
    ASSUME IInv, Main
    PROVE  Known' /\ RecordSafe'
  <1>1. TypesInv /\ TransferInv /\ Known /\ RecordSafe /\ Typed /\ MainTyped /\ Calls
    BY DEF IInv, TypesInv
  <1>2. SdSame
    BY <1>1, MainIdle
  <1>3. drv'.op # "write" \/ drv' = drv => RecordSafe'
    BY <1>1, <1>2 DEF RecordSafe, SdSame
  <1>4. Heard # NoRecord /\ pc = "first" /\ Done =>
          isSdhc = sdhc /\ Parsed(card[CopyBlock(0)]) = Heard
    BY <1>1, HeardRecord DEF Known, Calls, Copy
  <1>5. Heard # NoRecord /\ pc = "second" /\ Done =>
          isSdhc = sdhc /\ Parsed(card[CopyBlock(1)]) = Heard
    BY <1>1, HeardRecord DEF Known, Calls, Copy
  <1>6. CASE Start
    <2>1. drv'.op = "init" /\ pc = "start" /\ pc' = "init" /\ got' = got
      BY <1>6 DEF Start, CallInit, NoCall
    <2> QED
      BY <1>1, <1>2, <1>3, <2>1 DEF Known, SdSame
  <1>7. CASE ReadFirst
    <2>1. drv' = drv \/ CallRead(CopyBlock(0))
      BY <1>7 DEF ReadFirst
    <2>2. drv' = drv \/ drv'.op = "read"
      BY <2>1 DEF CallRead, Called
    <2>3. pc = "init" /\ pc' \in {"first", "fault"} /\ got' = got
      BY <1>7 DEF ReadFirst, After, Fault
    <2> QED
      BY <1>1, <1>2, <1>3, <2>2, <2>3 DEF Known, SdSame
  <1>8. CASE ReadSecond
    <2>1. drv'.op = "read"
      BY <1>8 DEF ReadSecond, CallRead, Called
    <2>2. pc = "first" /\ Done /\ pc' = "second"
      BY <1>8 DEF ReadSecond, After
    <2>3. got'[0] = Heard
      BY <1>1, <1>8 DEF ReadSecond, MainTyped, Copy
    <2>4. Known'
      BY <1>1, <1>2, <1>4, <2>2, <2>3 DEF Known, SdSame, CopyBlock
    <2> QED
      BY <1>3, <2>1, <2>4
  <1>9. CASE Choose
    <2>1. /\ pc = "second" /\ Done
          /\ \/ pc' = "fault" /\ drv' = drv
             \/ \E c \in Copy :
                   /\ c = 0 => got[0] # NoRecord
                   /\ c = 1 => Heard # NoRecord
                   /\ pc' = "record"
                   /\ CallWrite(CopyBlock(Stale(c)), RecordBlock(chosen'))
      BY <1>1, <1>9, ChooseEffect
    <2>2. Known'
      BY <2>1 DEF Known
    <2>3. ASSUME NEW c \in Copy, c = 0 => got[0] # NoRecord, c = 1 => Heard # NoRecord,
                 CallWrite(CopyBlock(Stale(c)), RecordBlock(chosen'))
          PROVE  RecordSafe'
      <3>1. drv'.op = "write" /\ drv'.block = CopyBlock(Stale(c))
        BY <2>3 DEF CallWrite, Called
      <3>2. drv'.block \in Copy /\ drv'.block # c
        BY <3>1, Places
      <3>3. isSdhc = sdhc /\ Parsed(card[CopyBlock(c)]) # NoRecord
        <4>1. CASE c = 0
          BY <1>1, <2>1, <2>3, <4>1 DEF Known
        <4>2. CASE c = 1
          BY <1>5, <2>1, <2>3, <4>2
        <4> QED
          BY <4>1, <4>2 DEF Copy
      <3>4. sd.fsm # "write"
        BY <1>1, <2>1 DEF Known
      <3>5. isSdhc' = sdhc' /\ card' = card /\ sd' = sd
        BY <1>2, <3>3 DEF SdSame
      <3> QED
        BY <3>1, <3>2, <3>3, <3>4, <3>5 DEF RecordSafe, CopyBlock
    <2> QED
      BY <1>3, <2>1, <2>2, <2>3
  <1>10. CASE LoadBlock
    <2>1. drv'.op = "read" /\ pc' = "copy"
      BY <1>10 DEF LoadBlock, CallRead, Called
    <2> QED
      BY <1>3, <2>1 DEF Known
  <1>11. CASE CheckLength \/ CopyOut \/ StartHash \/ HashChunk \/ Verify
    <2>1. drv' = drv /\ pc' \in {"load", "hash", "jump", "fault"}
      BY <1>11 DEF CheckLength, CopyOut, StartHash, HashChunk, Verify, Fault, sdVars, After
    <2> QED
      BY <1>3, <2>1 DEF Known
  <1> QED
    BY <1>6, <1>7, <1>8, <1>9, <1>10, <1>11 DEF Main

LEMMA DriverRecord ==
    ASSUME IInv, Driver, UNCHANGED mainVars
    PROVE  Known' /\ RecordSafe'
  <1>1. TypesInv /\ Known /\ RecordSafe /\ Typed /\ Calls
    BY DEF IInv, TypesInv
  <1>2. /\ card' = card /\ sdhc' = sdhc
        /\ drv'.op = drv.op /\ drv.op # "none"
        /\ drv.op # "init" => isSdhc' = isSdhc /\ drv'.block = drv.block
        /\ \/ sd'.fsm = sd.fsm /\ sd'.at = sd.at
           \/ /\ drv.op \in {"read", "write"}
              /\ sd'.fsm = drv.op /\ sd'.at = Addressed(drv.block)
    BY <1>1, DriverEffect
  <1>3. pc' = pc /\ got' = got
    BY DEF mainVars
  <1>4. Known'
    BY <1>1, <1>2, <1>3 DEF Known, Calls
  <1>5. drv.op = "write" => Addressed(drv.block) = drv.block
    BY <1>1 DEF RecordSafe, Addressed
  <1>6. sd'.fsm = "write" => \/ sd.fsm = "write" /\ sd'.at = sd.at
                             \/ drv.op = "write" /\ sd'.at = drv.block
    <2>1. CASE sd'.fsm = sd.fsm /\ sd'.at = sd.at
      BY <2>1
    <2>2. CASE /\ drv.op \in {"read", "write"}
               /\ sd'.fsm = drv.op /\ sd'.at = Addressed(drv.block)
      BY <1>5, <2>2
    <2> QED
      BY <1>2, <2>1, <2>2
  <1>7. RecordSafe'
    BY <1>1, <1>2, <1>6 DEF RecordSafe
  <1> QED
    BY <1>4, <1>7

LEMMA ControllerRecord ==
    ASSUME IInv, Controller, UNCHANGED mainVars
    PROVE  Known' /\ RecordSafe'
  <1>1. TypesInv /\ Known /\ RecordSafe /\ Calls
    BY DEF IInv, TypesInv
  <1>2. /\ sdhc' = sdhc /\ isSdhc' = isSdhc /\ sd'.at = sd.at
        /\ drv'.op = drv.op /\ drv'.block = drv.block
        /\ sd'.fsm = "write" => sd.fsm = "write"
        /\ \/ card' = card
           \/ /\ sd.fsm = "write" /\ sd'.fsm # "write"
              /\ \A b \in Block : b # sd.at => card'[b] = card[b]
    BY <1>1, ControllerEffect
  <1>3. pc' = pc /\ got' = got
    BY DEF mainVars
  <1>4. Known'
    <2>1. CASE card' = card
      BY <1>1, <1>2, <1>3, <2>1 DEF Known
    <2>2. CASE sd.fsm = "write"
      <3>1. pc \notin {"start", "init", "first", "second"}
        BY <1>1, <2>2 DEF Known
      <3> QED
        BY <1>3, <3>1 DEF Known
    <2> QED
      BY <1>2, <2>1, <2>2
  <1>5. PICK c \in Copy : /\ Parsed(card[CopyBlock(c)]) # NoRecord
                          /\ sd.fsm = "write" => sd.at # c
                          /\ drv.op = "write" => drv.block # c
    BY <1>1 DEF RecordSafe
  <1>6. card'[CopyBlock(c)] = card[CopyBlock(c)]
    <2>1. CopyBlock(c) \in Block /\ CopyBlock(c) = c
      BY Places
    <2>2. CASE card' = card
      BY <2>2
    <2>3. CASE sd.fsm = "write" /\ \A b \in Block : b # sd.at => card'[b] = card[b]
      <3>1. CopyBlock(c) # sd.at
        BY <1>5, <2>1, <2>3
      <3> QED
        BY <2>1, <2>3, <3>1
    <2> QED
      BY <1>2, <2>2, <2>3
  <1>7. RecordSafe'
    <2>1. /\ sd'.fsm = "write" => sd'.at \in Copy
          /\ drv'.op = "write" => isSdhc' = sdhc' /\ drv'.block \in Copy
      BY <1>1, <1>2 DEF RecordSafe
    <2>2. /\ Parsed(card'[CopyBlock(c)]) # NoRecord
          /\ sd'.fsm = "write" => sd'.at # c
          /\ drv'.op = "write" => drv'.block # c
      BY <1>2, <1>5, <1>6
    <2> QED
      BY <2>1, <2>2 DEF RecordSafe, CopyBlock
  <1> QED
    BY <1>4, <1>7

---------------------------------------------------------------------------
(* The theorems.                                                           *)

LEMMA IInvInit == Init => IInv
  BY InitTypes, TransferInit, RecordInit DEF IInv, TypesInv

LEMMA IInvStep == IInv /\ [Next]_vars => IInv'
  <1>1. ASSUME IInv, Next PROVE IInv'
    <2>1. TypesInv' /\ TransferInv'
      BY <1>1, StepTypes, TransferStep DEF IInv, TypesInv
    <2>2. Known' /\ RecordSafe'
      BY <1>1, MainRecord, DriverRecord, ControllerRecord DEF Next, Program
    <2> QED
      BY <2>1, <2>2 DEF IInv
  <1>2. ASSUME IInv, UNCHANGED vars PROVE IInv'
    <2>1. /\ card' = card /\ sdhc' = sdhc /\ isSdhc' = isSdhc /\ sd' = sd /\ drv' = drv
          /\ pc' = pc /\ got' = got /\ chosen' = chosen /\ i' = i
      BY <1>2 DEF vars, sdVars, mainVars
    <2>2. TypesInv'
      BY <1>2, <2>1 DEF IInv, TypesInv, Typed, Lengths, MainTyped, Calls, Done, CopyBlock, Length
    <2>3. TransferInv'
      BY <1>2, <2>1 DEF IInv, TransferInv, NotForced, Asked, Reading, Writing, Busy, Done, Stream,
                        Addressed
    <2>4. Known' /\ RecordSafe'
      BY <1>2, <2>1 DEF IInv, Known, RecordSafe
    <2> QED
      BY <2>2, <2>3, <2>4 DEF IInv
  <1> QED
    BY <1>1, <1>2

\* The inductive invariant of stage0_main on its driver: no force out of a
\* write, the words of a read and of a write on their way, what is known of
\* the card, and that a write goes to a copy which is not the only valid one.
THEOREM IInvHolds == Spec => []IInv
  BY IInvInit, IInvStep, PTL DEF Spec

\* A read that reports success has the block that was asked for, word for
\* word (stage0_sd_read_block), for every depth of the FIFO and every size of
\* a burst.
THEOREM ReadsWhole == Spec => []ReadWhole
  <1>1. IInv => ReadWhole
    <2> SUFFICES ASSUME IInv, Done, drv.op = "read", drv.ok, drv.clean
                 PROVE  drv.buf = card[drv.block]
      BY DEF ReadWhole
    <2>1. TypesInv /\ Typed /\ Lengths
      BY DEF IInv, TypesInv
    <2>2. Busy("read") /\ drv.step # "fifo"
      BY DEF Busy, Done
    <2>3. sd.at = drv.block /\ FromCard(drv.buf, 0, card[sd.at], drv.clean)
      BY <2>2 DEF IInv, TransferInv, Reading
    <2>4. FromCard(drv.buf, 0, card[sd.at], TRUE)
      BY <2>3 DEF FromCard
    <2>5. Len(drv.buf) = Words
      BY <2>1 DEF Lengths
    <2> QED
      BY <2>1, <2>3, <2>4, <2>5, Fields, FromWhole
  <1> QED
    BY <1>1, IInvHolds, PTL

\* A write that reports success is on the card when the call returns
\* (stage0_sd_write_block): no state it is cut short in is taken for the end.
THEOREM WritesDurable == Spec => []WriteDurable
  <1>1. IInv => WriteDurable
    <2> SUFFICES ASSUME IInv, Done, drv.op = "write", drv.ok, drv.clean
                 PROVE  card[drv.block] = drv.buf
      BY DEF WriteDurable
    <2>1. Busy("write")
      BY DEF Busy
    <2>2. sd.fsm # "write"
      BY <2>1 DEF IInv, TransferInv, Writing, Done
    <2> QED
      BY <2>1, <2>2 DEF IInv, TransferInv, Writing
  <1> QED
    BY <1>1, IInvHolds, PTL

\* Stage 0 writes nothing but the copies of the record: the block of every
\* write is one, and when a record was read the address is right.
THEOREM WritesRecordsOnly == Spec => OnlyRecordsWritten
  <1> DEFINE Wrote == \A b \in Block : card'[b] # card[b] => \E c \in Copy : b = CopyBlock(c)
  <1>1. IInv /\ [Next]_vars => [Wrote]_vars
    <2> SUFFICES ASSUME IInv, Next PROVE Wrote
      OBVIOUS
    <2>1. TypesInv /\ RecordSafe
      BY DEF IInv
    <2>2. CASE Main
      BY <2>1, <2>2, MainIdle DEF SdSame
    <2>3. CASE Driver
      BY <2>1, <2>3, DriverEffect
    <2>4. CASE Controller
      BY <2>1, <2>4, ControllerEffect DEF RecordSafe, CopyBlock
    <2> QED
      BY <2>2, <2>3, <2>4 DEF Next, Program
  <1> QED
    BY <1>1, IInvHolds, PTL DEF Spec, OnlyRecordsWritten

\* At every moment the card holds a record that stage 0 could choose, also
\* when a copy was not read and the write of the other went wrong.
THEOREM RecordsSurvive == Spec => []RecordSurvives
  <1>1. IInv => RecordSurvives
    BY DEF IInv, RecordSafe, RecordSurvives
  <1> QED
    BY <1>1, IInvHolds, PTL

---------------------------------------------------------------------------
(* Blocks of a sequence.                                                   *)

LEMMA Divided ==
    ASSUME NEW n \in Nat
    PROVE  /\ n \div HashBlock \in Nat /\ n % HashBlock \in 0 .. HashBlock - 1
           /\ n = (n \div HashBlock) * HashBlock + (n % HashBlock)
           /\ (n \div HashBlock) * HashBlock \in 0 .. n
           /\ HashBlock \in Nat /\ HashBlock >= 2
  <1>1. HashBlock \in Nat /\ HashBlock >= 2
    BY HashAssumption
  <1>2. n \div HashBlock \in Int /\ n % HashBlock \in 0 .. HashBlock - 1
        /\ n = HashBlock * (n \div HashBlock) + (n % HashBlock)
    BY <1>1
  <1>3. n \div HashBlock >= 0
    <2>1. SUFFICES ASSUME n \div HashBlock <= -1 PROVE FALSE
      BY <1>2
    <2>2. HashBlock * (n \div HashBlock) <= -HashBlock
      BY <1>1, <1>2, <2>1
    <2> QED
      BY <1>1, <1>2, <2>2
  <1>4. (n \div HashBlock) * HashBlock >= 0 /\ (n \div HashBlock) * HashBlock \in Int
    BY <1>1, <1>2, <1>3
  <1> QED
    BY <1>1, <1>2, <1>3, <1>4

\* A quotient and a remainder are what they should be.
LEMMA Quotient ==
    ASSUME NEW q \in Int, NEW r \in 0 .. HashBlock - 1
    PROVE  (q * HashBlock + r) \div HashBlock = q /\ (q * HashBlock + r) % HashBlock = r
  <1> DEFINE n == q * HashBlock + r
             p == n \div HashBlock
             x == n % HashBlock
  <1>1. n \in Int /\ HashBlock \in Nat /\ HashBlock >= 2
    BY HashAssumption
  <1>2. p \in Int /\ x \in 0 .. HashBlock - 1 /\ n = p * HashBlock + x
    <2> HIDE DEF n
    <2> QED
      BY <1>1
  <1>3. p * HashBlock + x = q * HashBlock + r
    BY <1>2
  <1> HIDE DEF n, p, x
  <1>4. ~(p < q)
    <2>1. SUFFICES ASSUME p + 1 <= q PROVE FALSE
      BY <1>2
    <2>2. (p + 1) * HashBlock <= q * HashBlock
      BY <1>1, <1>2, <2>1
    <2>3. (p + 1) * HashBlock = p * HashBlock + HashBlock
      BY <1>1, <1>2
    <2> QED
      BY <1>1, <1>2, <1>3, <2>2, <2>3
  <1>5. ~(q < p)
    <2>1. SUFFICES ASSUME q + 1 <= p PROVE FALSE
      BY <1>2
    <2>2. (q + 1) * HashBlock <= p * HashBlock
      BY <1>1, <1>2, <2>1
    <2>3. (q + 1) * HashBlock = q * HashBlock + HashBlock
      BY <1>1
    <2> QED
      BY <1>1, <1>2, <1>3, <2>2, <2>3
  <1>6. p = q
    BY <1>2, <1>4, <1>5
  <1>7. x = r
    BY <1>1, <1>2, <1>3, <1>6
  <1> QED
    BY <1>6, <1>7 DEF n, p, x

LEMMA BlockElements ==
    ASSUME NEW S, NEW s \in Seq(S)
    PROVE  /\ Blocks(s) \in Seq(Seq(S)) /\ Len(Blocks(s)) = Len(s) \div HashBlock
           /\ \A k \in 1 .. Len(s) \div HashBlock :
                 /\ Blocks(s)[k] \in Seq(S) /\ Len(Blocks(s)[k]) = HashBlock
                 /\ \A j \in 1 .. HashBlock :
                       /\ (k - 1) * HashBlock + j \in 1 .. Len(s)
                       /\ Blocks(s)[k][j] = s[(k - 1) * HashBlock + j]
  <1> DEFINE q == Len(s) \div HashBlock
             piece(k) == SubSeq(s, (k - 1) * HashBlock + 1, k * HashBlock)
  <1>1. Len(s) \in Nat /\ q \in Nat /\ q * HashBlock \in 0 .. Len(s)
        /\ HashBlock \in Nat /\ HashBlock >= 2
    BY Divided
  <1> HIDE DEF q
  <1>2. ASSUME NEW k \in 1 .. q
        PROVE  /\ piece(k) \in Seq(S) /\ Len(piece(k)) = HashBlock
               /\ \A j \in 1 .. HashBlock :
                     /\ (k - 1) * HashBlock + j \in 1 .. Len(s)
                     /\ piece(k)[j] = s[(k - 1) * HashBlock + j]
    <2> DEFINE a == (k - 1) * HashBlock
               b == k * HashBlock
    <2>1. a \in Nat /\ b \in Nat /\ b = a + HashBlock
      BY <1>1
    <2>2. b <= q * HashBlock
      BY <1>1
    <2>3. b <= Len(s)
      BY <1>1, <2>1, <2>2
    <2>4. piece(k) = SubSeq(s, a + 1, b)
      OBVIOUS
    <2> HIDE DEF a, b
    <2>5. \A j \in a + 1 .. b : s[j] \in S
      BY <1>1, <2>1, <2>3, ElementOfSeq
    <2> DEFINE c == a + 1
    <2>6. c \in Int /\ b \in Int /\ c <= b /\ b - c + 1 = HashBlock
      BY <1>1, <2>1
    <2>7. \A j \in c .. b : s[j] \in S
      BY <2>5
    <2> HIDE DEF c
    <2>8. /\ SubSeq(s, c, b) \in Seq(S) /\ Len(SubSeq(s, c, b)) = HashBlock
          /\ \A j \in 1 .. HashBlock : SubSeq(s, c, b)[j] = s[c + j - 1]
      BY <2>6, <2>7, SubSeqProperties
    <2>9. \A j \in 1 .. HashBlock : c + j - 1 = a + j /\ a + j \in 1 .. Len(s)
      BY <1>1, <2>1, <2>3 DEF c
    <2> QED
      BY <2>4, <2>8, <2>9 DEF a, c
  <1> HIDE DEF piece
  <1>3. Blocks(s) = [k \in 1 .. q |-> piece(k)]
    BY DEF Blocks, q, piece
  <1>4. Blocks(s) \in [1 .. q -> Seq(S)]
    BY <1>2, <1>3
  <1>5. Blocks(s) \in Seq(Seq(S)) /\ Len(Blocks(s)) = q
    BY <1>1, <1>4, SeqDef
  <1>6. \A k \in 1 .. q : Blocks(s)[k] = piece(k)
    BY <1>3
  <1> QED
    BY <1>2, <1>5, <1>6 DEF q

LEMMA RestElements ==
    ASSUME NEW S, NEW s \in Seq(S)
    PROVE  /\ Rest(s) \in Seq(S) /\ Len(Rest(s)) = Len(s) % HashBlock
           /\ Len(Rest(s)) \in 0 .. HashBlock - 1
           /\ \A j \in 1 .. Len(Rest(s)) :
                 Rest(s)[j] = s[(Len(s) \div HashBlock) * HashBlock + j]
  <1> DEFINE q == Len(s) \div HashBlock
             a == q * HashBlock
             r == Len(s) % HashBlock
  <1>0. Len(s) \in Nat
    OBVIOUS
  <1>1. Len(s) \in Nat /\ a \in Nat /\ r \in 0 .. HashBlock - 1 /\ Len(s) = a + r
        /\ HashBlock \in Nat
    BY <1>0, Divided
  <1>2. Rest(s) = SubSeq(s, a + 1, Len(s))
    BY DEF Rest
  <1> HIDE DEF a, r
  <1> DEFINE c == a + 1
             n == Len(s)
  <1>3. c \in Int /\ n \in Int /\ n - c + 1 = r /\ (c <= n <=> r > 0)
    BY <1>1
  <1>4. \A j \in c .. n : s[j] \in S
    BY <1>1, ElementOfSeq
  <1> HIDE DEF c, n
  <1>5. /\ SubSeq(s, c, n) \in Seq(S)
        /\ Len(SubSeq(s, c, n)) = IF c <= n THEN n - c + 1 ELSE 0
        /\ \A j \in 1 .. n - c + 1 : SubSeq(s, c, n)[j] = s[c + j - 1]
    BY <1>3, <1>4, SubSeqProperties
  <1>6. Len(SubSeq(s, c, n)) = r
    BY <1>1, <1>3, <1>5
  <1>7. \A j \in 1 .. r : c + j - 1 = a + j
    BY <1>1 DEF c
  <1> QED
    BY <1>1, <1>2, <1>3, <1>5, <1>6, <1>7 DEF c, n, a, q, r

\* Too short for a block, or just one.
LEMMA ShortBlocks ==
    ASSUME NEW S, NEW s \in Seq(S)
    PROVE  /\ Len(s) < HashBlock => Blocks(s) = <<>> /\ Rest(s) = s
           /\ Len(s) = HashBlock => Blocks(s) = <<s>> /\ Rest(s) = <<>>
  <1>1. Len(s) \in Nat /\ HashBlock \in Nat /\ HashBlock >= 2
    BY HashAssumption
  <1>2. CASE Len(s) < HashBlock
    <2>1. Len(s) = 0 * HashBlock + Len(s) /\ Len(s) \in 0 .. HashBlock - 1
      BY <1>1, <1>2
    <2>2. Len(s) \div HashBlock = 0
      BY <2>1, Quotient
    <2>3. Blocks(s) \in Seq(Seq(S)) /\ Len(Blocks(s)) = 0
      BY <2>2, BlockElements
    <2>4. Blocks(s) = <<>>
      BY <2>3, EmptySeq
    <2>5. Rest(s) = SubSeq(s, 1, Len(s))
      BY <1>1, <2>2 DEF Rest
    <2>6. Rest(s) = s
      BY <2>5, SubSeqFull
    <2> QED
      BY <1>1, <1>2, <2>4, <2>6
  <1>3. CASE Len(s) = HashBlock
    <2>1. Len(s) = 1 * HashBlock + 0 /\ 0 \in 0 .. HashBlock - 1
      BY <1>1, <1>3
    <2>2. Len(s) \div HashBlock = 1 /\ Len(s) % HashBlock = 0
      BY <2>1, Quotient
    <2>11. 1 \in 1 .. Len(s) \div HashBlock
      BY <2>2
    <2>3. /\ Blocks(s) \in Seq(Seq(S)) /\ Len(Blocks(s)) = 1
          /\ Blocks(s)[1] \in Seq(S) /\ Len(Blocks(s)[1]) = HashBlock
      <3>1. Blocks(s) \in Seq(Seq(S)) /\ Len(Blocks(s)) = 1
        BY <2>2, BlockElements
      <3>2. \A k \in 1 .. Len(s) \div HashBlock :
               Blocks(s)[k] \in Seq(S) /\ Len(Blocks(s)[k]) = HashBlock
        BY BlockElements
      <3> QED
        BY <2>11, <3>1, <3>2
    <2>4. \A j \in 1 .. HashBlock : Blocks(s)[1][j] = s[j]
      <3>1. \A k \in 1 .. Len(s) \div HashBlock : \A j \in 1 .. HashBlock :
               Blocks(s)[k][j] = s[(k - 1) * HashBlock + j]
        BY BlockElements
      <3>2. \A j \in 1 .. HashBlock : Blocks(s)[1][j] = s[(1 - 1) * HashBlock + j]
        BY <2>11, <3>1
      <3>3. (1 - 1) * HashBlock = 0
        BY <1>1
      <3>4. \A j \in 1 .. HashBlock : (1 - 1) * HashBlock + j = j
        BY <1>1, <3>3
      <3> QED
        BY <3>2, <3>4
    <2>5. Blocks(s)[1] = s
      BY <1>3, <2>3, <2>4, SeqEqual
    <2>6. <<s>> \in Seq(Seq(S)) /\ Len(<<s>>) = 1 /\ <<s>>[1] = s
      OBVIOUS
    <2>7. \A k \in 1 .. Len(<<s>>) : Blocks(s)[k] = <<s>>[k]
      BY <2>5, <2>6
    <2>8. Blocks(s) = <<s>>
      BY <2>3, <2>6, <2>7, SeqEqual
    <2>9. Rest(s) \in Seq(S) /\ Len(Rest(s)) = 0
      BY <2>2, RestElements
    <2>10. Rest(s) = <<>>
      BY <2>9, EmptySeq
    <2> QED
      BY <1>1, <1>3, <2>8, <2>10
  <1> QED
    BY <1>2, <1>3

\* Behind whole blocks the blocks are those of what follows.
LEMMA WholeThenMore ==
    ASSUME NEW S, NEW s \in Seq(S), NEW t \in Seq(S), Rest(s) = <<>>
    PROVE  Blocks(s \o t) = Blocks(s) \o Blocks(t) /\ Rest(s \o t) = Rest(t)
  <1> DEFINE p == Len(s) \div HashBlock
             q == Len(t) \div HashBlock
             r == Len(t) % HashBlock
             u == s \o t
  <1>1. Len(s) \in Nat /\ Len(t) \in Nat
    OBVIOUS
  <1>2. p \in Nat /\ q \in Nat /\ r \in 0 .. HashBlock - 1 /\ HashBlock \in Nat
        /\ HashBlock >= 2 /\ Len(t) = q * HashBlock + r
        /\ Len(s) = p * HashBlock + (Len(s) % HashBlock)
    BY <1>1, Divided
  <1>3. Len(s) % HashBlock = 0
    <2>1. Len(Rest(s)) = Len(s) % HashBlock
      BY RestElements
    <2> QED
      BY <2>1
  <1>4. Len(s) = p * HashBlock
    BY <1>2, <1>3
  <1>5. /\ u \in Seq(S) /\ Len(u) = Len(s) + Len(t)
        /\ \A j \in 1 .. Len(s) + Len(t) :
              u[j] = IF j <= Len(s) THEN s[j] ELSE t[j - Len(s)]
    BY ConcatProperties
  <1> HIDE DEF p, q, r, u
  <1>6. Len(u) = (p + q) * HashBlock + r
    BY <1>2, <1>4, <1>5
  <1>7. Len(u) \div HashBlock = p + q /\ Len(u) % HashBlock = r /\ p + q \in Nat
    <2> DEFINE m == p + q
    <2>1. m \in Nat
      BY <1>2
    <2>2. Len(u) = m * HashBlock + r
      BY <1>6
    <2> HIDE DEF m
    <2>4. m \in Int /\ r \in 0 .. HashBlock - 1
      BY <1>2, <2>1
    <2>3. Len(u) \div HashBlock = m /\ Len(u) % HashBlock = r
      BY <2>2, <2>4, Quotient
    <2> QED
      BY <2>1, <2>3 DEF m
  <1>8. Rest(u) = Rest(t)
    <2>1. Rest(u) \in Seq(S) /\ Rest(t) \in Seq(S) /\ Len(Rest(u)) = r /\ Len(Rest(t)) = r
      BY <1>5, <1>7, RestElements DEF r
    <2>2. ASSUME NEW j \in 1 .. r
          PROVE  Rest(u)[j] = Rest(t)[j]
      <3> DEFINE a == p * HashBlock
                 b == q * HashBlock
      <3>1. a \in Nat /\ b \in Nat /\ (p + q) * HashBlock = a + b
        BY <1>2
      <3>2. Rest(u)[j] = u[(p + q) * HashBlock + j] /\ Rest(t)[j] = t[b + j]
        BY <1>5, <1>7, <2>1, RestElements DEF q
      <3>3. Len(s) = a /\ Len(t) = b + r
        BY <1>2, <1>4
      <3> HIDE DEF a, b
      <3>5. Rest(u)[j] = u[a + b + j]
        BY <3>1, <3>2
      <3> DEFINE x == a + b + j
      <3>7. x \in 1 .. Len(s) + Len(t) /\ ~(x <= Len(s)) /\ x - Len(s) = b + j
        BY <1>2, <3>1, <3>3
      <3> HIDE DEF x
      <3>8. u[x] = t[b + j]
        BY <1>5, <3>7
      <3>6. u[a + b + j] = t[b + j]
        BY <3>8 DEF x
      <3> QED
        BY <3>2, <3>5, <3>6
    <2> QED
      BY <2>1, <2>2, SeqEqual
  <1>9. Blocks(u) = Blocks(s) \o Blocks(t)
    <2> DEFINE v == Blocks(s) \o Blocks(t)
    <2>1. /\ Blocks(u) \in Seq(Seq(S)) /\ Blocks(s) \in Seq(Seq(S))
          /\ Blocks(t) \in Seq(Seq(S)) /\ Len(Blocks(u)) = p + q
          /\ Len(Blocks(s)) = p /\ Len(Blocks(t)) = q
      BY <1>5, <1>7, BlockElements DEF p, q
    <2>2. /\ v \in Seq(Seq(S)) /\ Len(v) = p + q
          /\ \A k \in 1 .. p + q :
                v[k] = IF k <= p THEN Blocks(s)[k] ELSE Blocks(t)[k - p]
      BY <2>1, ConcatProperties
    <2> HIDE DEF v
    <2>3. ASSUME NEW k \in 1 .. p + q
          PROVE  Blocks(u)[k] = v[k]
      <3> DEFINE a == (k - 1) * HashBlock
      <3>1. a \in Nat
        BY <1>2
      <3>0. u \in Seq(S) /\ k \in 1 .. Len(u) \div HashBlock
        BY <1>5, <1>7, Zenon
      <3>2. /\ Blocks(u)[k] \in Seq(S) /\ Len(Blocks(u)[k]) = HashBlock
            /\ \A j \in 1 .. HashBlock :
                  a + j \in 1 .. Len(u) /\ Blocks(u)[k][j] = u[a + j]
        BY <3>0, BlockElements, Zenon
      <3>3. CASE k <= p
        <4>1. k \in 1 .. p
          BY <1>2, <3>3
        <4>2. /\ Blocks(s)[k] \in Seq(S) /\ Len(Blocks(s)[k]) = HashBlock
              /\ \A j \in 1 .. HashBlock :
                    a + j \in 1 .. Len(s) /\ Blocks(s)[k][j] = s[a + j]
          BY <4>1, BlockElements, Zenon DEF p
        <4> HIDE DEF a
        <4>3. ASSUME NEW j \in 1 .. HashBlock
              PROVE  Blocks(u)[k][j] = Blocks(s)[k][j]
          <5>1. a + j \in 1 .. Len(s)
            BY <4>2
          <5>2. a + j \in 1 .. Len(s) + Len(t) /\ a + j <= Len(s)
            BY <1>1, <5>1
          <5>3. u[a + j] = s[a + j]
            BY <1>5, <5>2
          <5> QED
            BY <3>2, <4>2, <5>3
        <4>4. Blocks(u)[k] = Blocks(s)[k]
          BY <3>2, <4>2, <4>3, SeqEqual
        <4> QED
          BY <2>2, <3>3, <4>4
      <3>4. CASE ~(k <= p)
        <4> DEFINE c == (k - p - 1) * HashBlock
        <4>1. k - p \in 1 .. q /\ (k - p) - 1 = k - p - 1
          BY <1>2, <3>4
        <4>2. /\ Blocks(t)[k - p] \in Seq(S) /\ Len(Blocks(t)[k - p]) = HashBlock
              /\ \A j \in 1 .. HashBlock :
                    c + j \in 1 .. Len(t) /\ Blocks(t)[k - p][j] = t[c + j]
          BY <4>1, BlockElements, Zenon DEF q
        <4>3. c \in Nat
          BY <1>2, <4>1
        <4>4. a = Len(s) + c
          BY <1>2, <1>4, <4>1
        <4> HIDE DEF a, c
        <4>5. ASSUME NEW j \in 1 .. HashBlock
              PROVE  Blocks(u)[k][j] = Blocks(t)[k - p][j]
          <5>0. j \in Nat /\ c + j \in 1 .. Len(t)
            BY <1>2, <4>2
          <5>1. c + j \in 1 .. Len(t) /\ a + j = Len(s) + (c + j)
            BY <1>1, <4>3, <4>4, <5>0
          <5>2. a + j \in 1 .. Len(s) + Len(t) /\ ~(a + j <= Len(s))
                /\ (a + j) - Len(s) = c + j
            BY <1>1, <5>1
          <5>3. u[a + j] = t[c + j]
            BY <1>5, <5>2
          <5> QED
            BY <3>2, <4>2, <5>3
        <4>6. Blocks(u)[k] = Blocks(t)[k - p]
          BY <3>2, <4>2, <4>5, SeqEqual
        <4> QED
          BY <2>2, <3>4, <4>6
      <3> QED
        BY <3>3, <3>4
    <2> QED
      BY <2>1, <2>2, <2>3, SeqEqual DEF v
  <1> QED
    BY <1>8, <1>9 DEF u

\* A sequence is its whole blocks and its rest.
LEMMA WholePart ==
    ASSUME NEW S, NEW s \in Seq(S)
    PROVE  \E w \in Seq(S) : /\ s = w \o Rest(s)
                             /\ Blocks(w) = Blocks(s) /\ Rest(w) = <<>>
  <1> DEFINE a == (Len(s) \div HashBlock) * HashBlock
             w == SubSeq(s, 1, a)
  <1>1. Len(s) \in Nat
    OBVIOUS
  <1>2. a \in 0 .. Len(s) /\ Len(s) \div HashBlock \in Nat /\ HashBlock \in Nat
        /\ HashBlock >= 2
    BY <1>1, Divided
  <1>3. w \in Seq(S) /\ Len(w) = a
    BY <1>1, <1>2
  <1>4. Rest(s) = SubSeq(s, a + 1, Len(s))
    BY DEF Rest
  <1>5. s = w \o Rest(s)
    <2>1. 1 \in 1 .. Len(s) + 1 /\ a \in 1 - 1 .. Len(s) /\ Len(s) \in a .. Len(s)
      BY <1>1, <1>2
    <2> HIDE DEF a
    <2>2. SubSeq(s, 1, a) \o SubSeq(s, a + 1, Len(s)) = SubSeq(s, 1, Len(s))
      BY <2>1, ConcatAdjacentSubSeq
    <2> QED
      BY <1>4, <2>2, SubSeqFull
  <1>6. Len(w) % HashBlock = 0
    <2> DEFINE k == Len(s) \div HashBlock
    <2>1. Len(w) = k * HashBlock + 0 /\ 0 \in 0 .. HashBlock - 1 /\ k \in Nat
      BY <1>2, <1>3
    <2> HIDE DEF k, w
    <2> QED
      BY <2>1, Quotient
  <1> HIDE DEF w, a
  <1>7. Rest(w) = <<>>
    BY <1>3, <1>6, RestElements, EmptySeq
  <1>8. Rest(s) \in Seq(S) /\ Len(Rest(s)) < HashBlock
    BY <1>2, RestElements
  <1>9. Blocks(Rest(s)) = <<>>
    BY <1>8, ShortBlocks
  <1>10. Blocks(w \o Rest(s)) = Blocks(w) \o Blocks(Rest(s))
    BY <1>3, <1>7, <1>8, WholeThenMore
  <1>11. Blocks(w) \in Seq(Seq(S))
    BY <1>3, BlockElements
  <1>12. Blocks(w) \o <<>> = Blocks(w)
    BY <1>11, ConcatEmptySeq
  <1> QED
    BY <1>3, <1>5, <1>7, <1>9, <1>10, <1>12

---------------------------------------------------------------------------
(* The incremental digest.                                                 *)

\* The context once the bytes of m have been hashed.
HashedSoFar(m) == [h |-> Blocks(m), buf |-> Rest(m), total |-> Len(m)]

LEMMA OneBlockMore ==
    ASSUME NEW S, NEW w \in Seq(S), Rest(w) = <<>>, NEW b \in Seq(S), Len(b) = HashBlock
    PROVE  Blocks(w \o b) = Append(Blocks(w), b) /\ Rest(w \o b) = <<>>
  <1>1. Blocks(w \o b) = Blocks(w) \o Blocks(b) /\ Rest(w \o b) = Rest(b)
    BY WholeThenMore
  <1>2. Blocks(b) = <<b>> /\ Rest(b) = <<>>
    BY ShortBlocks
  <1>3. Blocks(w) \in Seq(Seq(S))
    BY BlockElements
  <1>4. Append(Blocks(w), b) = Blocks(w) \o <<b>>
    BY <1>3, AppendIsConcat
  <1> QED
    BY <1>1, <1>2, <1>4

LEMMA Parted ==
    ASSUME NEW S, NEW d \in Seq(S), NEW n \in 0 .. Len(d)
    PROVE  /\ SubSeq(d, 1, n) \in Seq(S) /\ Len(SubSeq(d, 1, n)) = n
           /\ SubSeq(d, n + 1, Len(d)) \in Seq(S)
           /\ SubSeq(d, 1, n) \o SubSeq(d, n + 1, Len(d)) = d
  <1>1. Len(d) \in Nat
    OBVIOUS
  <1>2. SubSeq(d, 1, n) \in Seq(S) /\ Len(SubSeq(d, 1, n)) = n
    BY <1>1
  <1>3. SubSeq(d, n + 1, Len(d)) \in Seq(S)
    BY <1>1
  <1>4. 1 \in 1 .. Len(d) + 1 /\ n \in 1 - 1 .. Len(d) /\ Len(d) \in n .. Len(d)
    BY <1>1
  <1>5. SubSeq(d, 1, n) \o SubSeq(d, n + 1, Len(d)) = SubSeq(d, 1, Len(d))
    BY <1>4, ConcatAdjacentSubSeq
  <1> QED
    BY <1>2, <1>3, <1>5, SubSeqFull

\* A piece goes where it would have gone in one go: sha256_update on a
\* buffer that is empty, that it fills, or that it does not fill.
THEOREM UpdateAdds ==
    ASSUME NEW S, NEW m \in Seq(S), NEW d \in Seq(S)
    PROVE  Update(HashedSoFar(m), d) = HashedSoFar(m \o d)
  <1> DEFINE x == HashedSoFar(m)
             r == Rest(m)
  <1>1. x.h = Blocks(m) /\ x.buf = r /\ x.total = Len(m)
    BY DEF HashedSoFar
  <1>2. Len(m) \in Nat /\ Len(d) \in Nat /\ m \o d \in Seq(S)
        /\ Len(m \o d) = Len(m) + Len(d) /\ HashBlock \in Nat /\ HashBlock >= 2
    BY ConcatProperties, HashAssumption
  <1>3. r \in Seq(S) /\ Len(r) \in 0 .. HashBlock - 1
    BY RestElements
  <1> DEFINE n == Least(HashBlock - Len(r), Len(d))
             b == r \o SubSeq(d, 1, n)
             left == SubSeq(d, n + 1, Len(d))
  <1>4. n \in 0 .. Len(d) /\ n <= HashBlock - Len(r)
        /\ (n = HashBlock - Len(r) \/ n = Len(d))
    BY <1>2, <1>3 DEF Least
  <1>5. SubSeq(d, 1, n) \in Seq(S) /\ Len(SubSeq(d, 1, n)) = n /\ left \in Seq(S)
        /\ SubSeq(d, 1, n) \o left = d
    BY <1>4, Parted
  <1>6. b \in Seq(S) /\ Len(b) = Len(r) + n
    BY <1>3, <1>5, ConcatProperties
  <1>7. PICK w \in Seq(S) : m = w \o r /\ Blocks(w) = Blocks(m) /\ Rest(w) = <<>>
    BY WholePart
  <1>8. Blocks(m) \in Seq(Seq(S)) /\ Blocks(left) \in Seq(Seq(S)) /\ Rest(left) \in Seq(S)
    BY <1>5, BlockElements, RestElements
  <1>9. m \o d = (w \o b) \o left
    <2> DEFINE s == SubSeq(d, 1, n)
               cat(x1, x2) == x1 \o x2
    <2>1. s \in Seq(S) /\ left \in Seq(S) /\ r \in Seq(S) /\ w \in Seq(S) /\ m \in Seq(S)
      BY <1>3, <1>5
    <2>2. m = cat(w, r) /\ d = cat(s, left) /\ b = cat(r, s)
      BY <1>5, <1>7, Zenon
    <2>3. \A x1, x2, x3 \in Seq(S) : cat(cat(x1, x2), x3) = cat(x1, cat(x2, x3))
      <3> SUFFICES ASSUME NEW x1 \in Seq(S), NEW x2 \in Seq(S), NEW x3 \in Seq(S)
                   PROVE  (x1 \o x2) \o x3 = x1 \o (x2 \o x3)
        BY Zenon
      <3> QED
        BY ConcatAssociative, SMTT(30)
    <2> HIDE DEF s, left, r, b, n, cat
    <2>4. cat(m, d) = cat(cat(m, s), left)
      BY <2>1, <2>2, <2>3
    <2>5. cat(m, s) = cat(w, b)
      BY <2>1, <2>2, <2>3
    <2> QED
      BY <2>4, <2>5, Zenon DEF cat
  <1>10. CASE r = <<>>
    <2>1. SubSeq(d, 0 + 1, Len(d)) = d
      BY SubSeqFull
    <2>2. Update(x, d) = [h |-> Blocks(m) \o Blocks(d), buf |-> r \o Rest(d),
                          total |-> Len(m) + Len(d)]
      BY <1>1, <1>10, <2>1 DEF Update
    <2>3. Rest(d) \in Seq(S)
      BY RestElements
    <2>4. r \o Rest(d) = Rest(d)
      BY <1>10, <2>3, ConcatEmptySeq
    <2>5. Blocks(m \o d) = Blocks(m) \o Blocks(d) /\ Rest(m \o d) = Rest(d)
      BY <1>10, WholeThenMore
    <2> QED
      BY <1>2, <2>2, <2>4, <2>5 DEF HashedSoFar
  <1>11. CASE r # <<>> /\ Len(b) = HashBlock
    <2>1. Filled(x, d) = [h |-> Append(Blocks(m), b), buf |-> <<>>, total |-> Len(m)]
      BY <1>1, <1>11 DEF Filled, HashedSoFar
    <2>2. Update(x, d) = [h |-> Append(Blocks(m), b) \o Blocks(left),
                          buf |-> <<>> \o Rest(left), total |-> Len(m) + Len(d)]
      BY <1>1, <1>11, <2>1 DEF Update
    <2>3. Blocks(w \o b) = Append(Blocks(m), b) /\ Rest(w \o b) = <<>>
      BY <1>6, <1>7, <1>11, OneBlockMore
    <2>4. w \o b \in Seq(S)
      BY <1>6, ConcatProperties
    <2> HIDE DEF b, left
    <2>5. Blocks((w \o b) \o left) = Blocks(w \o b) \o Blocks(left)
          /\ Rest((w \o b) \o left) = Rest(left)
      BY <1>5, <2>3, <2>4, WholeThenMore
    <2>6. <<>> \o Rest(left) = Rest(left)
      BY <1>8, ConcatEmptySeq
    <2> QED
      BY <1>2, <1>9, <2>2, <2>3, <2>5, <2>6 DEF HashedSoFar
  <1>12. CASE r # <<>> /\ Len(b) # HashBlock
    <2>1. n = Len(d) /\ Len(b) < HashBlock
      BY <1>2, <1>3, <1>4, <1>6, <1>12
    <2>2. left = <<>>
      BY <1>2, <2>1, SubSeqEmpty
    <2>3. Filled(x, d) = [h |-> Blocks(m), buf |-> b, total |-> Len(m)]
      BY <1>1, <1>12 DEF Filled, HashedSoFar
    <2>4. Update(x, d) = [h |-> Blocks(m) \o Blocks(left), buf |-> b \o Rest(left),
                          total |-> Len(m) + Len(d)]
      BY <1>1, <1>12, <2>3 DEF Update
    <2>5. Blocks(left) = <<>> /\ Rest(left) = <<>>
      <3>1. Len(left) < HashBlock
        <4>1. Len(<<>>) = 0
          OBVIOUS
        <4> HIDE DEF left
        <4> QED
          BY <1>2, <2>2, <4>1
      <3> QED
        BY <1>5, <2>2, <3>1, ShortBlocks
    <2>6. Blocks(m) \o <<>> = Blocks(m) /\ b \o <<>> = b
      BY <1>6, <1>8, ConcatEmptySeq
    <2>7. w \o b \in Seq(S)
      BY <1>6, ConcatProperties
    <2>8. m \o d = w \o b
      BY <1>9, <2>2, <2>7, ConcatEmptySeq
    <2>9. Blocks(b) = <<>> /\ Rest(b) = b
      BY <1>6, <2>1, ShortBlocks
    <2> HIDE DEF b
    <2>10. Blocks(w \o b) = Blocks(w) \o Blocks(b) /\ Rest(w \o b) = Rest(b)
      BY <1>6, <1>7, WholeThenMore
    <2> QED
      BY <1>2, <1>7, <2>4, <2>5, <2>6, <2>8, <2>9, <2>10 DEF HashedSoFar
  <1> QED
    BY <1>10, <1>11, <1>12

---------------------------------------------------------------------------
(* The padding.                                                            *)

\* A word of a padded message.
Symbol == Word \cup {One, Zero} \cup ({"length"} \X Nat \X (1 .. LenField))

Zeros(n) == [k \in 1 .. (HashBlock - LenField - n - 1) % HashBlock |-> Zero]

Marked(m) == m \o <<One>>

Filling(m) == Marked(m) \o Zeros(Len(m))

Padded(m) == Filling(m) \o LengthOf(Len(m))

\* The zeros are as many for the length as for the part of a block, and the
\* length field ends the last block.
LEMMA ZeroCount ==
    ASSUME NEW n \in Nat
    PROVE  LET z == (HashBlock - LenField - n - 1) % HashBlock IN
           /\ z \in Nat
           /\ z = (HashBlock - LenField - ((n + 1) % HashBlock)) % HashBlock
           /\ (n + 1 + z) % HashBlock = HashBlock - LenField
           /\ (n + 1 + z + LenField) % HashBlock = 0
  <1> DEFINE z == (HashBlock - LenField - n - 1) % HashBlock
             q == (n + 1) \div HashBlock
             r == (n + 1) % HashBlock
             a == HashBlock - LenField - r
             e == IF a >= 0 THEN 0 ELSE 1
             y == a + e * HashBlock
  <1>1. HashBlock \in Nat /\ HashBlock >= 2 /\ LenField \in 1 .. HashBlock - 1
    BY HashAssumption
  <1>2. q \in Nat /\ r \in 0 .. HashBlock - 1 /\ n + 1 = q * HashBlock + r
    <2>1. n + 1 \in Nat
      OBVIOUS
    <2> QED
      BY <2>1, Divided
  <1>3. HashBlock - LenField - n - 1 = HashBlock - LenField - (n + 1)
    BY <1>1
  <1> HIDE DEF q, r
  <1>4. e \in {0, 1} /\ a \in Int /\ y \in 0 .. HashBlock - 1
    BY <1>1, <1>2
  <1>5. a % HashBlock = y
    <2>1. a = (-e) * HashBlock + y /\ -e \in Int
      BY <1>1, <1>4
    <2> DEFINE f == -e
    <2> HIDE DEF a, y, e, f
    <2>2. a = f * HashBlock + y /\ f \in Int
      BY <2>1 DEF f
    <2> QED
      BY <1>4, <2>2, Quotient
  <1>6. z = y
    <2> DEFINE f == -(q + e)
    <2>1. f \in Int /\ f * HashBlock = -(q * HashBlock) - e * HashBlock
      BY <1>1, <1>2, <1>4
    <2>2. HashBlock - LenField - n - 1 = f * HashBlock + y
      BY <1>1, <1>2, <1>3, <2>1
    <2> HIDE DEF f, y
    <2> QED
      BY <1>4, <2>1, <2>2, Quotient
  <1> HIDE DEF z
  <1>7. (n + 1 + z) % HashBlock = HashBlock - LenField
    <2> DEFINE f == q + e
               x == HashBlock - LenField
    <2>1. f \in Int /\ f * HashBlock = q * HashBlock + e * HashBlock
      BY <1>1, <1>2, <1>4
    <2>2. n + 1 + z = f * HashBlock + x
      BY <1>1, <1>2, <1>4, <1>6, <2>1
    <2>3. x \in 0 .. HashBlock - 1
      BY <1>1
    <2> HIDE DEF f, x
    <2>4. (n + 1 + z) % HashBlock = x
      BY <2>1, <2>2, <2>3, Quotient
    <2> QED
      BY <2>4 DEF x
  <1>8. (n + 1 + z + LenField) % HashBlock = 0
    <2> DEFINE f == q + e + 1
    <2>1. f \in Int /\ f * HashBlock = q * HashBlock + e * HashBlock + HashBlock
      BY <1>1, <1>2, <1>4
    <2>2. n + 1 + z + LenField = f * HashBlock + 0 /\ 0 \in 0 .. HashBlock - 1
      BY <1>1, <1>2, <1>4, <1>6, <2>1
    <2> HIDE DEF f
    <2> QED
      BY <2>1, <2>2, Quotient
  <1> QED
    BY <1>4, <1>5, <1>6, <1>7, <1>8 DEF z, r

LEMMA PaddingParts ==
    ASSUME NEW n \in Nat
    PROVE  /\ <<One>> \in Seq(Symbol) /\ Len(<<One>>) = 1
           /\ Zeros(n) \in Seq(Symbol)
           /\ Len(Zeros(n)) = (HashBlock - LenField - n - 1) % HashBlock
           /\ LengthOf(n) \in Seq(Symbol) /\ Len(LengthOf(n)) = LenField
  <1>1. One \in Symbol /\ Zero \in Symbol
    BY DEF Symbol
  <1>2. \A k \in 1 .. LenField : <<"length", n, k>> \in Symbol
    BY DEF Symbol
  <1>3. <<One>> \in Seq(Symbol) /\ Len(<<One>>) = 1
    BY <1>1
  <1> DEFINE z == (HashBlock - LenField - n - 1) % HashBlock
  <1>4. z \in Nat /\ LenField \in Nat
    BY ZeroCount, HashAssumption
  <1> HIDE DEF z
  <1>5. Zeros(n) \in [1 .. z -> Symbol]
    BY <1>1 DEF Zeros, z
  <1>6. Zeros(n) \in Seq(Symbol) /\ Len(Zeros(n)) = z
    BY <1>4, <1>5, SeqDef
  <1>7. LengthOf(n) \in [1 .. LenField -> Symbol]
    BY <1>2 DEF LengthOf
  <1>8. LengthOf(n) \in Seq(Symbol) /\ Len(LengthOf(n)) = LenField
    BY <1>4, <1>7, SeqDef
  <1> QED
    BY <1>3, <1>6, <1>8 DEF z

LEMMA Extended ==
    ASSUME NEW S, NEW s \in Seq(S), NEW t \in Seq(S)
    PROVE  /\ s \o t \in Seq(S) /\ Len(s \o t) = Len(s) + Len(t)
           /\ \A j \in 1 .. Len(s) : (s \o t)[j] = s[j]
  <1>1. Len(s) \in Nat /\ Len(t) \in Nat
    OBVIOUS
  <1>2. s \o t \in Seq(S) /\ Len(s \o t) = Len(s) + Len(t)
    BY ConcatProperties
  <1>3. \A j \in 1 .. Len(s) + Len(t) :
          (s \o t)[j] = IF j <= Len(s) THEN s[j] ELSE t[j - Len(s)]
    BY ConcatProperties
  <1> QED
    BY <1>1, <1>2, <1>3

LEMMA PaddedMessage ==
    ASSUME NEW m \in Seq(Word)
    PROVE  /\ Len(m) \in Nat /\ m \in Seq(Symbol)
           /\ Marked(m) \in Seq(Symbol) /\ Len(Marked(m)) = Len(m) + 1
           /\ Filling(m) \in Seq(Symbol)
           /\ Len(Filling(m)) = Len(m) + 1 + Len(Zeros(Len(m)))
           /\ Padded(m) \in Seq(Symbol)
           /\ Len(Padded(m)) = Len(m) + 1 + Len(Zeros(Len(m))) + LenField
           /\ \A j \in 1 .. Len(m) : j \in 1 .. Len(Padded(m)) /\ Padded(m)[j] = m[j]
           /\ Digest(m) = Blocks(Padded(m))
  <1> DEFINE n == Len(m)
             l == Len(Zeros(n))
  <1>1. n \in Nat
    OBVIOUS
  <1>2. m \in Seq(Symbol)
    BY SeqMonotonic DEF Symbol
  <1>3. /\ <<One>> \in Seq(Symbol) /\ Len(<<One>>) = 1
        /\ Zeros(n) \in Seq(Symbol) /\ LengthOf(n) \in Seq(Symbol)
        /\ Len(LengthOf(n)) = LenField
    BY <1>1, PaddingParts
  <1>4. l \in Nat /\ LenField \in Nat
    BY <1>3, HashAssumption
  <1>5. /\ Marked(m) \in Seq(Symbol) /\ Len(Marked(m)) = n + 1
        /\ \A j \in 1 .. n : Marked(m)[j] = m[j]
    BY <1>1, <1>2, <1>3, Extended DEF Marked
  <1>6. /\ Filling(m) \in Seq(Symbol) /\ Len(Filling(m)) = n + 1 + l
        /\ \A j \in 1 .. n : Filling(m)[j] = m[j]
    <2> DEFINE a == Marked(m)
               b == Zeros(n)
    <2>1. /\ a \in Seq(Symbol) /\ b \in Seq(Symbol) /\ Len(a) = n + 1 /\ Len(b) = l
          /\ Filling(m) = a \o b
      BY <1>3, <1>5 DEF Filling
    <2> HIDE DEF a, b
    <2>2. /\ a \o b \in Seq(Symbol) /\ Len(a \o b) = Len(a) + Len(b)
          /\ \A j \in 1 .. Len(a) : (a \o b)[j] = a[j]
      BY <2>1, Extended
    <2>3. \A j \in 1 .. n : j \in 1 .. Len(a)
      BY <1>1, <2>1
    <2> QED
      BY <1>5, <2>1, <2>2, <2>3 DEF a
  <1>7. /\ Padded(m) \in Seq(Symbol) /\ Len(Padded(m)) = n + 1 + l + LenField
        /\ \A j \in 1 .. n : Padded(m)[j] = m[j]
    <2> DEFINE a == Filling(m)
               b == LengthOf(n)
    <2>1. /\ a \in Seq(Symbol) /\ b \in Seq(Symbol) /\ Len(a) = n + 1 + l
          /\ Len(b) = LenField /\ Padded(m) = a \o b
      BY <1>3, <1>6 DEF Padded
    <2> HIDE DEF a, b
    <2>2. /\ a \o b \in Seq(Symbol) /\ Len(a \o b) = Len(a) + Len(b)
          /\ \A j \in 1 .. Len(a) : (a \o b)[j] = a[j]
      BY <2>1, Extended
    <2>3. \A j \in 1 .. n : j \in 1 .. Len(a)
      BY <1>1, <1>4, <2>1
    <2> QED
      BY <1>6, <2>1, <2>2, <2>3 DEF a
  <1>8. Digest(m) = Blocks(Padded(m))
    BY DEF Digest, Padded, Filling, Marked, Zeros
  <1>9. \A j \in 1 .. n : j \in 1 .. n + 1 + l + LenField
    BY <1>1, <1>4
  <1> HIDE DEF n, l
  <1>10. \A j \in 1 .. n : j \in 1 .. Len(Padded(m)) /\ Padded(m)[j] = m[j]
    BY <1>7, <1>9
  <1> QED
    BY <1>1, <1>2, <1>5, <1>6, <1>7, <1>8, <1>10 DEF n, l

\* sha256_final ends what the pieces began as the standard ends the message.
THEOREM FinalizeDigest ==
    ASSUME NEW m \in Seq(Word)
    PROVE  Finalize(HashedSoFar(m)) = Digest(m)
  <1> DEFINE n == Len(m)
             m1 == Marked(m)
             m2 == Filling(m)
             zeros == (HashBlock - LenField - Len(Rest(m1))) % HashBlock
             fill == LengthOf(n)
             last == Rest(m2) \o fill
  <1>1. /\ n \in Nat /\ m \in Seq(Symbol) /\ m1 \in Seq(Symbol) /\ Len(m1) = n + 1
        /\ m2 \in Seq(Symbol) /\ Len(m2) = n + 1 + Len(Zeros(n))
        /\ Padded(m) = m2 \o fill /\ Digest(m) = Blocks(Padded(m))
    BY PaddedMessage DEF Padded
  <1>2. /\ <<One>> \in Seq(Symbol) /\ Zeros(n) \in Seq(Symbol)
        /\ Len(Zeros(n)) = (HashBlock - LenField - n - 1) % HashBlock
        /\ fill \in Seq(Symbol) /\ Len(fill) = LenField
    BY <1>1, PaddingParts
  <1>3. Len(Rest(m1)) = (n + 1) % HashBlock
    BY <1>1, RestElements
  <1>4. zeros = Len(Zeros(n)) /\ Len(m2) % HashBlock = HashBlock - LenField
    BY <1>1, <1>2, <1>3, ZeroCount
  <1>5. Len(Rest(m2)) = HashBlock - LenField /\ Rest(m2) \in Seq(Symbol)
    BY <1>1, <1>4, RestElements
  <1>6. Update(HashedSoFar(m), <<One>>) = HashedSoFar(m1)
    BY <1>1, <1>2, UpdateAdds DEF Marked
  <1>7. [k \in 1 .. zeros |-> Zero] = Zeros(n)
    BY <1>2, <1>4 DEF Zeros
  <1>8. Update(HashedSoFar(m1), Zeros(n)) = HashedSoFar(m2)
    BY <1>1, <1>2, UpdateAdds DEF Filling
  <1>9. /\ HashedSoFar(m).total = n /\ HashedSoFar(m1).buf = Rest(m1)
        /\ HashedSoFar(m2).h = Blocks(m2) /\ HashedSoFar(m2).buf = Rest(m2)
    BY DEF HashedSoFar
  <1> HIDE DEF m1, m2, zeros
  <1>10. Finalize(HashedSoFar(m)) = Append(Blocks(m2), last)
    <2>1. Finalize(HashedSoFar(m)) =
             Append(Update(HashedSoFar(m1), [k \in 1 .. zeros |-> Zero]).h,
                    Update(HashedSoFar(m1), [k \in 1 .. zeros |-> Zero]).buf \o fill)
      BY <1>6, <1>9 DEF Finalize, zeros
    <2> QED
      BY <1>7, <1>8, <1>9, <2>1
  <1>11. PICK w \in Seq(Symbol) : m2 = w \o Rest(m2) /\ Blocks(w) = Blocks(m2) /\ Rest(w) = <<>>
    BY <1>1, WholePart
  <1>12. last \in Seq(Symbol) /\ Len(last) = HashBlock
    <2>1. last \in Seq(Symbol) /\ Len(last) = Len(Rest(m2)) + Len(fill)
      BY <1>2, <1>5, ConcatProperties
    <2> QED
      BY <1>2, <1>5, <2>1, HashAssumption
  <1>13. Padded(m) = w \o last
    <2> DEFINE r == Rest(m2)
    <2>1. r \in Seq(Symbol) /\ fill \in Seq(Symbol) /\ w \in Seq(Symbol)
      BY <1>2, <1>5
    <2>2. m2 = w \o r /\ last = r \o fill
      BY <1>11
    <2> HIDE DEF r, fill, last
    <2>3. (w \o r) \o fill = w \o (r \o fill)
      BY <2>1, ConcatAssociative
    <2> QED
      BY <1>1, <2>2, <2>3
  <1> HIDE DEF last
  <1>14. Blocks(w \o last) = Append(Blocks(w), last)
    BY <1>11, <1>12, OneBlockMore
  <1> QED
    BY <1>1, <1>10, <1>11, <1>13, <1>14

\* Of two images of one length only one has a given digest.
LEMMA DigestTells ==
    ASSUME NEW m \in Seq(Word), NEW n \in Seq(Word), Len(m) = Len(n), Digest(m) = Digest(n)
    PROVE  m = n
  <1> DEFINE s == Padded(m)
             t == Padded(n)
             size == Len(m) + 1 + Len(Zeros(Len(m))) + LenField
  <1>1. /\ Len(m) \in Nat /\ s \in Seq(Symbol) /\ Len(s) = size /\ Digest(m) = Blocks(s)
        /\ \A j \in 1 .. Len(m) : j \in 1 .. Len(s) /\ s[j] = m[j]
    BY PaddedMessage
  <1>2. /\ t \in Seq(Symbol) /\ Len(t) = size /\ Digest(n) = Blocks(t)
        /\ \A j \in 1 .. Len(m) : t[j] = n[j]
    BY PaddedMessage
  <1>3. size \in Nat /\ size % HashBlock = 0
    <2>1. Len(Zeros(Len(m))) = (HashBlock - LenField - Len(m) - 1) % HashBlock
      BY <1>1, PaddingParts
    <2> QED
      BY <1>1, <2>1, ZeroCount, HashAssumption
  <1> HIDE DEF s, t, size
  <1>4. ASSUME NEW j \in 1 .. Len(m)
        PROVE  m[j] = n[j]
    <2> DEFINE j0 == j - 1
               k == (j0 \div HashBlock) + 1
               x == (j0 % HashBlock) + 1
    <2>1. j0 \in Nat /\ j0 < size
      BY <1>1
    <2>2. /\ j0 \div HashBlock \in Nat /\ j0 % HashBlock \in 0 .. HashBlock - 1
          /\ j0 = (j0 \div HashBlock) * HashBlock + (j0 % HashBlock)
          /\ HashBlock \in Nat /\ HashBlock >= 2
      BY <2>1, Divided
    <2>3. size = (size \div HashBlock) * HashBlock /\ size \div HashBlock \in Nat
      BY <1>3, Divided
    <2> HIDE DEF j0
    <2>4. k \in Nat /\ k >= 1 /\ x \in 1 .. HashBlock /\ (k - 1) * HashBlock + x = j
      BY <2>2 DEF j0
    <2>5. k <= size \div HashBlock
      <3> DEFINE q == size \div HashBlock
                 p == j0 \div HashBlock
      <3>1. q \in Nat /\ p \in Nat /\ size = q * HashBlock /\ p * HashBlock <= j0 /\ k = p + 1
        BY <2>1, <2>2, <2>3
      <3> HIDE DEF p, q, k
      <3>2. SUFFICES ASSUME q <= p PROVE FALSE
        BY <3>1 DEF q
      <3>3. q * HashBlock <= p * HashBlock
        BY <2>2, <3>1, <3>2
      <3>4. q * HashBlock \in Int /\ p * HashBlock \in Int
        BY <2>2, <3>1
      <3> QED
        BY <1>3, <2>1, <3>1, <3>3, <3>4
    <2> HIDE DEF k, x
    <2>6. k \in 1 .. Len(s) \div HashBlock /\ k \in 1 .. Len(t) \div HashBlock
      BY <1>1, <1>2, <2>3, <2>4, <2>5
    <2>10. s \in Seq(Symbol) /\ t \in Seq(Symbol)
      BY <1>1, <1>2
    <2>7. \A y \in 1 .. HashBlock : Blocks(s)[k][y] = s[(k - 1) * HashBlock + y]
      BY <2>6, <2>10, BlockElements, Zenon
    <2>8. \A y \in 1 .. HashBlock : Blocks(t)[k][y] = t[(k - 1) * HashBlock + y]
      BY <2>6, <2>10, BlockElements, Zenon
    <2>9. s[j] = t[j]
      <3> DEFINE a == (k - 1) * HashBlock
      <3>1. a + x = j
        BY <2>4, Zenon
      <3>2. \A y \in 1 .. HashBlock : Blocks(s)[k][y] = s[a + y] /\ Blocks(t)[k][y] = t[a + y]
        BY <2>7, <2>8, Zenon
      <3>3. x \in 1 .. HashBlock
        BY <2>4, Zenon
      <3> HIDE DEF a
      <3>4. Blocks(s)[k][x] = s[a + x] /\ Blocks(t)[k][x] = t[a + x]
        BY <3>2, <3>3, Zenon
      <3>5. Blocks(s) = Blocks(t)
        BY <1>1, <1>2, Zenon
      <3> QED
        BY <3>1, <3>4, <3>5, Zenon
    <2> QED
      BY <1>1, <1>2, <2>9
  <1> QED
    BY <1>4, SeqEqual

---------------------------------------------------------------------------
(* The load and the check of stage0_main.                                  *)

\* The memory grows by whole blocks, the context is that of what has been
\* hashed so far, and nothing follows a jump or a fault.
LoadSound ==
    /\ pc \in {"start", "init", "first", "second", "record"} => ram = <<>> /\ i = 0
    /\ pc \in {"load", "copy"} =>
          ram \in Seq(Word) /\ i \in 0 .. NBlocks /\ Len(ram) = i * Words
    /\ pc = "copy" => i < NBlocks
    /\ pc = "hash" => /\ ram \in Seq(Word) /\ Length <= Len(ram) /\ i \in 0 .. Length
                      /\ ctx = HashedSoFar(SubSeq(ram, 1, i))
    /\ code # 0 => pc = "fault"
    /\ JumpVerified /\ MismatchReal

LEMMA ImageType ==
    ASSUME MainTyped, pc \in {"record", "load", "copy", "hash", "jump"}
    PROVE  /\ chosen.image \in Seq(Word) /\ Length \in Nat /\ NBlocks \in Nat
           /\ Length <= NBlocks * Words
  <1>1. chosen.image \in Seq(Data)
    BY DEF MainTyped, Record
  <1>2. chosen.image \in Seq(Word)
    BY <1>1, SeqMonotonic DEF Word
  <1>3. Length \in Nat /\ Words \in Nat /\ Words >= 2
    BY <1>1, Numbers DEF Length
  <1>4. NBlocks \in Nat /\ Length <= NBlocks * Words
    <2> DEFINE n == Length + Words - 1
               q == n \div Words
    <2>1. n \in Nat
      BY <1>3
    <2>2. NBlocks = q
      BY DEF NBlocks
    <2> HIDE DEF n
    <2>3. q \in Int /\ n % Words \in 0 .. Words - 1 /\ n = Words * q + (n % Words)
      BY <1>3, <2>1
    <2> HIDE DEF q
    <2>4. q >= 0
      <3>1. SUFFICES ASSUME q <= -1 PROVE FALSE
        BY <2>3
      <3>2. Words * q <= -Words
        BY <1>3, <2>3, <3>1
      <3> QED
        BY <1>3, <2>1, <2>3, <3>2
    <2>5. Words * q \in Int /\ Words * q = q * Words
      BY <1>3, <2>3
    <2>6. Length = n - Words + 1
      BY <1>3 DEF n
    <2>7. Length <= q * Words
      BY <1>3, <2>1, <2>3, <2>5, <2>6
    <2> QED
      BY <2>2, <2>3, <2>4, <2>7
  <1> QED
    BY <1>2, <1>3, <1>4

LEMMA LoadInit == Init => LoadSound
  BY DEF Init, LoadSound, JumpVerified, MismatchReal

\* Of what step of stage0_main leaves alone.
LEMMA LoadKept ==
    ASSUME LoadSound, UNCHANGED mainVars
    PROVE  LoadSound'
  <1>1. pc' = pc /\ chosen' = chosen /\ ram' = ram /\ i' = i /\ ctx' = ctx /\ code' = code
    BY DEF mainVars
  <1>2. Length' = Length /\ NBlocks' = NBlocks
    BY <1>1 DEF Length, NBlocks
  <1> QED
    BY <1>1, <1>2 DEF LoadSound, JumpVerified, MismatchReal

\* The steps up to the record.
LEMMA BeforeLoad ==
    ASSUME LoadSound, Start \/ ReadFirst \/ ReadSecond \/ Choose
    PROVE  LoadSound'
  <1>1. pc \in {"start", "init", "first", "second"} /\ ram' = ram /\ i' = i
    BY DEF Start, ReadFirst, ReadSecond, Choose, After
  <1>2. \/ pc' \in {"init", "first", "second", "record"} /\ code' = code
        \/ pc' = "fault" /\ code' \in {1, 2}
    BY DEF Start, ReadFirst, ReadSecond, Choose, Fault
  <1>3. code = 0 /\ ram = <<>> /\ i = 0
    BY <1>1 DEF LoadSound
  <1> QED
    BY <1>1, <1>2, <1>3 DEF LoadSound, JumpVerified, MismatchReal

LEMMA LoadMain ==
    ASSUME TypesInv, LoadSound, Main
    PROVE  LoadSound'
  <1> USE DEF TypesInv
  <1>1. CASE Start \/ ReadFirst \/ ReadSecond \/ Choose
    BY <1>1, BeforeLoad
  <1>2. CASE CheckLength
    <2>1. pc = "record" /\ chosen' = chosen /\ ram' = ram /\ i' = i /\ ctx' = ctx
          /\ ((pc' = "load" /\ code' = code) \/ (pc' = "fault" /\ code' = 3))
      BY <1>2 DEF CheckLength, After, Fault
    <2>2. ram = <<>> /\ i = 0 /\ code = 0
      BY <2>1 DEF LoadSound
    <2>3. NBlocks' = NBlocks /\ NBlocks \in Nat /\ Words \in Nat
      BY <2>1, ImageType, Numbers DEF NBlocks, Length
    <2>4. <<>> \in Seq(Word) /\ Len(<<>>) = 0 /\ 0 * Words = 0 /\ 0 \in 0 .. NBlocks
      BY <2>3
    <2> QED
      BY <2>1, <2>2, <2>3, <2>4 DEF LoadSound, JumpVerified, MismatchReal
  <1>3. CASE LoadBlock
    <2>1. /\ pc = "load" /\ pc' = "copy" /\ i < NBlocks /\ chosen' = chosen /\ ram' = ram
          /\ i' = i /\ code' = code
      BY <1>3 DEF LoadBlock
    <2>2. code = 0 /\ NBlocks' = NBlocks
      BY <2>1 DEF LoadSound, NBlocks, Length
    <2> QED
      BY <2>1, <2>2 DEF LoadSound, JumpVerified, MismatchReal
  <1>4. CASE CopyOut
    <2>1. pc = "copy" /\ Done /\ chosen' = chosen /\ code = 0 /\ NBlocks' = NBlocks
      BY <1>4 DEF CopyOut, After, LoadSound, NBlocks, Length
    <2>2. CASE drv.ok
      <3>1. ram' = ram \o drv.buf /\ i' = i + 1 /\ pc' = "load" /\ code' = code
        BY <1>4, <2>2 DEF CopyOut
      <3>2. drv.buf \in Seq(Word) /\ Len(drv.buf) = Words
        BY <2>1, <2>2 DEF Typed, DrvType, Calls, Lengths
      <3>3. /\ ram \in Seq(Word) /\ i \in 0 .. NBlocks /\ i < NBlocks /\ NBlocks \in Nat
            /\ Len(ram) = i * Words /\ Words \in Nat
        BY <2>1, ImageType, Numbers DEF LoadSound
      <3>4. ram' \in Seq(Word) /\ Len(ram') = Len(ram) + Words
        BY <3>1, <3>2, <3>3, ConcatProperties
      <3>5. Len(ram') = i' * Words /\ i' \in 0 .. NBlocks
        BY <3>1, <3>3, <3>4
      <3> QED
        BY <2>1, <3>1, <3>4, <3>5 DEF LoadSound, JumpVerified, MismatchReal
    <2>3. CASE ~drv.ok
      BY <1>4, <2>1, <2>3 DEF CopyOut, Fault, LoadSound, JumpVerified, MismatchReal
    <2> QED
      BY <2>2, <2>3
  <1>5. CASE StartHash
    <2>1. /\ pc = "load" /\ i = NBlocks /\ pc' = "hash" /\ i' = 0 /\ ctx' = ShaInit
          /\ chosen' = chosen /\ ram' = ram /\ code' = code
      BY <1>5 DEF StartHash
    <2>2. code = 0 /\ Length' = Length /\ ram \in Seq(Word) /\ Len(ram) = NBlocks * Words
      BY <2>1 DEF LoadSound, Length
    <2>3. Length \in Nat /\ Length <= Len(ram)
      BY <2>1, <2>2, ImageType
    <2>4. ShaInit = HashedSoFar(SubSeq(ram, 1, 0))
      <3>1. SubSeq(ram, 1, 0) = <<>> /\ <<>> \in Seq(Word) /\ Len(<<>>) = 0
        BY SubSeqEmpty
      <3>2. Len(<<>>) < HashBlock
        BY <3>1, HashAssumption
      <3>3. Blocks(<<>>) = <<>> /\ Rest(<<>>) = <<>>
        BY <3>1, <3>2, ShortBlocks
      <3> QED
        BY <3>1, <3>3 DEF ShaInit, HashedSoFar
    <2> QED
      BY <2>1, <2>2, <2>3, <2>4 DEF LoadSound, JumpVerified, MismatchReal
  <1>6. CASE HashChunk
    <2> DEFINE n == Lesser(ShaChunk, Length - i)
               done == SubSeq(ram, 1, i)
               piece == SubSeq(ram, i + 1, i + n)
    <2>1. /\ pc = "hash" /\ i < Length /\ ctx' = Update(ctx, piece) /\ i' = i + n
          /\ pc' = pc /\ chosen' = chosen /\ ram' = ram /\ code' = code
      BY <1>6 DEF HashChunk
    <2>2. /\ code = 0 /\ Length' = Length /\ ram \in Seq(Word) /\ Length <= Len(ram)
          /\ i \in 0 .. Length /\ ctx = HashedSoFar(done)
      BY <2>1 DEF LoadSound, Length
    <2>3. Length \in Nat /\ Len(ram) \in Nat /\ ShaChunk \in Nat
      BY <2>1, <2>2, ImageType, Stage0Assumption
    <2>4. n \in Nat /\ i \in Nat /\ i + n <= Length /\ i + n <= Len(ram)
          /\ i + n \in 0 .. Length
      BY <2>1, <2>2, <2>3 DEF Lesser
    <2> HIDE DEF n
    <2>5. done \o piece = SubSeq(ram, 1, i + n) /\ piece \in Seq(Word)
      BY <2>2, <2>4, Adjacent
    <2>6. done \in Seq(Word)
      <3>1. i \in 0 .. Len(ram)
        BY <2>2, <2>3
      <3> QED
        BY <2>2, <3>1, Parted
    <2> HIDE DEF done, piece
    <2>7. Update(HashedSoFar(done), piece) = HashedSoFar(done \o piece)
      BY <2>5, <2>6, UpdateAdds
    <2>8. ctx' = HashedSoFar(SubSeq(ram, 1, i + n))
      BY <2>1, <2>2, <2>5, <2>7
    <2> QED
      BY <2>1, <2>2, <2>4, <2>8 DEF LoadSound, JumpVerified, MismatchReal
  <1>7. CASE Verify
    <2> DEFINE m == SubSeq(ram, 1, Length)
    <2>1. /\ pc = "hash" /\ i = Length /\ chosen' = chosen /\ ram' = ram
          /\ IF Matches(Finalize(ctx)) THEN pc' = "jump" /\ code' = code ELSE Fault(6)
      BY <1>7 DEF Verify
    <2>2. /\ code = 0 /\ Length' = Length /\ ram \in Seq(Word) /\ Length <= Len(ram)
          /\ ctx = HashedSoFar(m)
      BY <2>1 DEF LoadSound, Length
    <2>3. Length \in Nat /\ chosen.image \in Seq(Word)
      BY <2>1, ImageType
    <2>4. m \in Seq(Word) /\ Len(m) = Length
      <3>1. Length \in 0 .. Len(ram)
        BY <2>2, <2>3
      <3> QED
        BY <2>2, <3>1, Parted
    <2>5. m' = m
      BY <2>1, <2>2
    <2> HIDE DEF m
    <2>6. Finalize(ctx) = Digest(m)
      BY <2>2, <2>4, FinalizeDigest
    <2>7. Matches(Finalize(ctx)) <=> m = chosen.image
      <3>1. Matches(Finalize(ctx)) <=> Digest(m) = Digest(chosen.image)
        BY <2>6 DEF Matches
      <3>2. Len(m) = Len(chosen.image)
        BY <2>4 DEF Length
      <3> QED
        BY <2>3, <2>4, <3>1, <3>2, DigestTells
    <2>8. CASE m = chosen.image
      <3>1. pc' = "jump" /\ code' = 0
        BY <2>1, <2>2, <2>7, <2>8
      <3>2. (SubSeq(ram, 1, Length) = chosen.image)'
        BY <2>1, <2>5, <2>8 DEF m
      <3> QED
        BY <3>1, <3>2 DEF LoadSound, JumpVerified, MismatchReal
    <2>9. CASE m # chosen.image
      <3>1. pc' = "fault" /\ code' = 6
        BY <2>1, <2>7, <2>9 DEF Fault
      <3>2. (SubSeq(ram, 1, Length) # chosen.image)'
        BY <2>1, <2>5, <2>9 DEF m
      <3> QED
        BY <3>1, <3>2 DEF LoadSound, JumpVerified, MismatchReal
    <2> QED
      BY <2>8, <2>9
  <1> QED
    BY <1>1, <1>2, <1>3, <1>4, <1>5, <1>6, <1>7 DEF Main

LEMMA LoadHolds == Spec => []LoadSound
  <1>1. TypesInv /\ LoadSound /\ [Next]_vars => LoadSound'
    <2> SUFFICES ASSUME TypesInv, LoadSound, [Next]_vars PROVE LoadSound'
      OBVIOUS
    <2>1. CASE Main
      BY <2>1, LoadMain
    <2>2. CASE UNCHANGED mainVars
      BY <2>2, LoadKept
    <2> QED
      BY <2>1, <2>2 DEF Next, Program, vars
  <1> QED
    BY <1>1, LoadInit, TypesHold, PTL DEF Spec

\* What stage 0 jumps to is the image that the record names, word for word,
\* whatever the controller, the card and a wrong address did to the load.
THEOREM JumpsToTheImage == Spec => []JumpVerified
  <1>1. LoadSound => JumpVerified
    BY DEF LoadSound
  <1> QED
    BY <1>1, LoadHolds, PTL

\* A halt with the code for a wrong digest is never a good image refused:
\* the pieces it was hashed in make no difference.
THEOREM RefusesNoImage == Spec => []MismatchReal
  <1>1. LoadSound => MismatchReal
    BY DEF LoadSound
  <1> QED
    BY <1>1, LoadHolds, PTL
=============================================================================
