------------------------------- MODULE SdHost -------------------------------
(***************************************************************************)
(* The SD driver of stage 0, boot/stage0/sdread.c, between its caller and  *)
(* the BCM2835 SDHOST controller.  The program polls the registers while   *)
(* the controller moves words between its FIFO and the card: every read of *)
(* a register is a step, and so is every word on the bus.                  *)
(*                                                                         *)
(* The controller and the card are external: all that is assumed of them   *)
(* is in the actions under "The controller".  They may stop at any moment. *)
(* A command is one step: the program sends one only when the controller   *)
(* is idle, and only waits for it to be over.  CMD16, whose result is      *)
(* ignored, changes nothing; clocks, pins and SDHCFG are left out.         *)
(***************************************************************************)
EXTENDS Integers, Sequences

CONSTANTS
    Words,       \* the words of a block: 128
    Depth,       \* of the FIFO: 16
    Burst,       \* SDDATA_FIFO_PIO_BURST: 8
    MaxWaits,    \* how often each loop of the driver polls in vain, a bound
    Retries,     \* of ACMD41: 1000
    MaxFaults,   \* commands that fail and words damaged on the bus, a bound
    Block,       \* the blocks of the card
    Far          \* the one that a wrong address leads to

ASSUME SdAssumption ==
    /\ Words \in Nat /\ Depth \in 1 .. Words - 1 /\ Burst \in 1 .. Depth
    /\ MaxWaits \in Nat /\ Retries \in Nat /\ MaxFaults \in Nat
    /\ Far \in Block

VARIABLES
    card,      \* the words of each block
    sdhc,      \* the card takes block numbers, not bytes
    isSdhc,    \* s_is_sdhc: what the driver takes it for
    sd,        \* the controller: see SdIdle
    drv,       \* the call in progress: see NoCall
    faults     \* so far

sdVars == <<card, sdhc, isSdhc, sd, drv, faults>>

\* fsm: "idle" (IDENTMODE, DATAMODE), "read" (READDATA), "crc" (READCRC),
\* "write" (WRITEDATA and on), "parked" (READWAIT, WRITESTART1); todo: the
\* words still to be read, or those already written; bad: one was damaged.
SdIdle ==
    [fsm |-> "idle", fifo |-> <<>>, sts |-> FALSE, force |-> FALSE,
     todo |-> <<>>, at |-> Far, bad |-> FALSE]

\* clean, a history variable: the FIFO was empty when the command was sent,
\* the address is right, and no word was damaged.
NoCall ==
    [op |-> "none", step |-> "done", block |-> Far, left |-> 0, buf |-> <<>>,
     waits |-> 0, ok |-> TRUE, clean |-> FALSE]

Lesser(a, b) == IF a <= b THEN a ELSE b

Damaged == <<"damaged">>

\* What the controller makes of the address the driver computes for b.
Addressed(b) == IF isSdhc = sdhc THEN b ELSE Far

SdInit ==
    /\ sdhc \in BOOLEAN
    /\ isSdhc = FALSE
    /\ sd \in {[SdIdle EXCEPT !.fsm = f, !.fifo = w] :
                 f \in {"idle", "parked"}, w \in {<<>>, <<Damaged>>}}
    /\ drv = NoCall
    /\ faults = 0

---------------------------------------------------------------------------
(* The calls.                                                              *)

Done == drv.step = "done"

\* A call returns ok, or a negative number.
Returned(ok) == [drv EXCEPT !.step = "done", !.ok = ok, !.waits = 0, !.left = 0]

Called(op, b, words) ==
    [op |-> op, step |-> "cmd", block |-> b, left |-> Words, buf |-> words,
     waits |-> 0, ok |-> FALSE, clean |-> Addressed(b) = b]

CallInit == drv' = [NoCall EXCEPT !.op = "init", !.step = "reset", !.left = Retries]
CallRead(b) == drv' = Called("read", b, <<>>)
CallWrite(b, words) == drv' = Called("write", b, words)

At(step) == drv.op \in {"read", "write"} /\ drv.step = step

\* The driver goes on to another of its loops.
On(step) == [drv EXCEPT !.step = step, !.waits = 0]

\* Mutant of Wait: a loop that has had its polls goes on.
WaitThenOn(over) ==
    drv' = IF drv.waits < MaxWaits THEN [drv EXCEPT !.waits = @ + 1] ELSE On("sts")

\* Mutant of Wait: a loop that polls for ever.
WaitForEver(over) ==
    drv' = [drv EXCEPT !.waits = Lesser(@ + 1, MaxWaits)]

\* One more poll in vain; the loop that has had its polls goes to "over".
Wait(over) ==
    drv' = IF drv.waits < MaxWaits THEN [drv EXCEPT !.waits = @ + 1] ELSE over

---------------------------------------------------------------------------
(* stage0_sd_init                                                          *)

\* stage0_reset_and_ident_clock drains the FIFO.
Reset ==
    /\ drv.op = "init" /\ drv.step = "reset"
    /\ sd' = [sd EXCEPT !.fifo = <<>>]
    /\ drv' = On("ident")
    /\ UNCHANGED <<card, sdhc, isSdhc, faults>>

\* stage0_send_cmd, while no block is moved.
Command(next) ==
    /\ sd' = IF sd.fsm = "idle" THEN [sd EXCEPT !.sts = FALSE] ELSE sd
    /\ \/ /\ drv' = IF sd.fsm = "idle" THEN next ELSE Returned(FALSE)
          /\ UNCHANGED faults
       \/ faults < MaxFaults /\ faults' = faults + 1 /\ drv' = Returned(FALSE)

\* CMD0 and CMD8, of which only the timeout counts.
Identify ==
    /\ drv.op = "init" /\ drv.step = "ident"
    /\ Command(On("acmd41"))
    /\ UNCHANGED <<card, sdhc, isSdhc>>

\* CMD55 and ACMD41: an answer that is lost leaves that of CMD55 in RSP0,
\* which looks like a card that is not ready.  After the last retry the
\* driver takes what it has.
SendOpCond ==
    /\ drv.op = "init" /\ drv.step = "acmd41"
    /\ \E ready \in BOOLEAN :
          /\ Command(IF ready \/ drv.left = 0 THEN On("select")
                     ELSE [drv EXCEPT !.left = @ - 1])
          /\ isSdhc' = (ready /\ sdhc)
    /\ UNCHANGED <<card, sdhc>>

\* CMD2, CMD3, CMD9 and CMD7.
SelectCard ==
    /\ drv.op = "init" /\ drv.step = "select"
    /\ Command(Returned(TRUE))
    /\ UNCHANGED <<card, sdhc, isSdhc>>

---------------------------------------------------------------------------
(* stage0_sd_read_block and stage0_sd_write_block                          *)

\* The command is accepted; whether it empties the FIFO is not known.
Begun(fifo) ==
    [sd EXCEPT !.fsm = drv.op, !.fifo = fifo, !.sts = FALSE, !.bad = FALSE,
               !.at = Addressed(drv.block),
               !.todo = IF drv.op = "read" THEN card[Addressed(drv.block)] ELSE <<>>]

\* CMD17 or CMD24.  One that is reported as failed may have been accepted.
SendCmd ==
    /\ At("cmd")
    /\ \/ /\ sd.fsm = "idle"
          /\ \E f \in {sd.fifo, <<>>} :
                \/ /\ sd' = Begun(f)
                   /\ drv' = [On("fifo") EXCEPT !.clean = @ /\ f = <<>>]
                   /\ UNCHANGED faults
                \/ /\ faults < MaxFaults
                   /\ faults' = faults + 1
                   /\ sd' \in {Begun(f), [sd EXCEPT !.sts = FALSE]}
                   /\ drv' = Returned(FALSE)
       \/ /\ sd.fsm # "idle"
          /\ drv' = Returned(FALSE)
          /\ UNCHANGED <<sd, faults>>
    /\ UNCHANGED <<card, sdhc, isSdhc>>

\* How many words to move, of those there are, or there is room for.
Movable(have) == Lesser(have, drv.left)

Take ==
    LET fill == Len(sd.fifo)
        n == Movable(fill)
        rest == [drv EXCEPT !.left = @ - n, !.buf = @ \o SubSeq(sd.fifo, 1, n)] IN
    /\ At("fifo") /\ drv.op = "read"
    /\ IF fill < Lesser(Burst, drv.left)
       THEN Wait(Returned(FALSE)) /\ UNCHANGED sd
       ELSE /\ sd' = [sd EXCEPT !.fifo = SubSeq(@, n + 1, fill)]
            /\ drv' = IF n < drv.left THEN rest ELSE [rest EXCEPT !.step = "sts", !.waits = 0]
    /\ UNCHANGED <<card, sdhc, isSdhc, faults>>

Fill ==
    LET room == Depth - Len(sd.fifo)
        n == Movable(room)
        first == Words - drv.left + 1
        rest == [drv EXCEPT !.left = @ - n] IN
    /\ At("fifo") /\ drv.op = "write"
    /\ IF room < Lesser(Burst, drv.left)
       THEN Wait(Returned(FALSE)) /\ UNCHANGED sd
       ELSE /\ sd' = [sd EXCEPT !.fifo = @ \o SubSeq(drv.buf, first, first + n - 1)]
            /\ drv' = IF n < drv.left THEN rest ELSE [rest EXCEPT !.step = "drain", !.waits = 0]
    /\ UNCHANGED <<card, sdhc, isSdhc, faults>>

\* The wait for the FIFO to be empty, which is never fatal.
Drain ==
    /\ At("drain")
    /\ IF sd.fifo = <<>> THEN drv' = On("sts") ELSE Wait(On("sts"))
    /\ UNCHANGED <<card, sdhc, isSdhc, sd, faults>>

CheckStatus ==
    /\ At("sts")
    /\ drv' = IF sd.sts THEN Returned(FALSE) ELSE On("fsm")
    /\ UNCHANGED <<card, sdhc, isSdhc, sd, faults>>

\* Mutant of Forced: a write is cut short, too.
ForcedWrites == {"read", "parked", "write"}

\* The states the controller is forced out of.
Forced == {"read", "parked"}

PollState ==
    /\ At("fsm")
    /\ IF sd.fsm = "idle" THEN drv' = On("final") /\ UNCHANGED sd
       ELSE IF sd.fsm \in Forced
       THEN drv' = On("settle") /\ sd' = [sd EXCEPT !.force = TRUE]
       ELSE Wait(Returned(FALSE)) /\ UNCHANGED sd
    /\ UNCHANGED <<card, sdhc, isSdhc, faults>>

\* stage0_force_data_mode_settle: the bit is cleared in the end, whether or
\* not the state has settled.
Settle ==
    /\ At("settle")
    /\ IF sd.fsm = "idle" \/ drv.waits = MaxWaits
       THEN /\ sd' = [sd EXCEPT !.force = FALSE]
            /\ drv' = On("final")
       ELSE Wait(drv) /\ UNCHANGED sd
    /\ UNCHANGED <<card, sdhc, isSdhc, faults>>

Conclude ==
    /\ At("final")
    /\ sd' = [sd EXCEPT !.sts = FALSE]
    /\ drv' = Returned(~sd.sts)
    /\ UNCHANGED <<card, sdhc, isSdhc, faults>>

Driver ==
    \/ Reset \/ Identify \/ SendOpCond \/ SelectCard
    \/ SendCmd \/ Take \/ Fill \/ Drain \/ CheckStatus \/ PollState \/ Settle
    \/ Conclude

---------------------------------------------------------------------------
(* The controller.                                                         *)

\* A word comes from the card, damaged perhaps.  After the last one the
\* state may still be READDATA.
RxWord ==
    /\ sd.fsm = "read" /\ sd.todo # <<>> /\ Len(sd.fifo) < Depth
    /\ \E fsm \in IF Len(sd.todo) = 1 THEN {"read", "crc"} ELSE {"read"} :
          \/ /\ sd' = [sd EXCEPT !.fifo = Append(@, Head(sd.todo)), !.todo = Tail(@),
                                 !.fsm = fsm]
             /\ UNCHANGED <<faults, drv>>
          \/ /\ faults < MaxFaults
             /\ faults' = faults + 1
             /\ sd' = [sd EXCEPT !.fifo = Append(@, Damaged), !.todo = Tail(@),
                                 !.fsm = fsm, !.bad = TRUE]
             /\ drv' = [drv EXCEPT !.clean = FALSE]
    /\ UNCHANGED <<card, sdhc, isSdhc>>

\* The CRC shows it.
RxEnd ==
    /\ sd.fsm \in {"read", "crc"} /\ sd.todo = <<>>
    /\ \E fsm \in {"idle", "parked"} :
          sd' = [sd EXCEPT !.fsm = fsm, !.sts = @ \/ sd.bad]
    /\ UNCHANGED <<card, sdhc, isSdhc, drv, faults>>

TxWord ==
    /\ sd.fsm = "write" /\ sd.fifo # <<>> /\ Len(sd.todo) < Words
    /\ sd' = [sd EXCEPT !.todo = Append(@, Head(sd.fifo)), !.fifo = Tail(@)]
    /\ UNCHANGED <<card, sdhc, isSdhc, drv, faults>>

\* The card takes the whole block, or refuses it.
TxEnd ==
    /\ sd.fsm = "write" /\ Len(sd.todo) = Words
    /\ \E fsm \in {"idle", "parked"} :
          \/ /\ card' = [card EXCEPT ![sd.at] = sd.todo]
             /\ sd' = [sd EXCEPT !.fsm = fsm, !.todo = <<>>]
             /\ UNCHANGED faults
          \/ /\ faults < MaxFaults
             /\ faults' = faults + 1
             /\ sd' = [sd EXCEPT !.fsm = fsm, !.todo = <<>>, !.sts = TRUE]
             /\ UNCHANGED card
    /\ UNCHANGED <<sdhc, isSdhc, drv>>

\* The force bit takes effect.
ForceIdle ==
    /\ sd.force /\ sd.fsm # "idle"
    /\ sd' = [sd EXCEPT !.fsm = "idle", !.todo = <<>>]
    /\ UNCHANGED <<card, sdhc, isSdhc, drv, faults>>

Controller == RxWord \/ RxEnd \/ TxWord \/ TxEnd \/ ForceIdle

---------------------------------------------------------------------------
\* A read that reports success delivers the block that was asked for, when
\* nothing was left in the FIFO before its command, the address is right and no word
\* was damaged: whatever the two sides' speeds, no word is lost, doubled or
\* out of place (the drain loop of stage0_sd_read_block).
ReadWhole ==
    Done /\ drv.op = "read" /\ drv.ok /\ drv.clean => drv.buf = card[drv.block]

\* A write that reports success, under the same conditions, is on the card
\* when the call returns (the wait for the state in stage0_sd_write_block).
WriteDurable ==
    Done /\ drv.op = "write" /\ drv.ok /\ drv.clean => card[drv.block] = drv.buf
=============================================================================
