------------------------------- MODULE UartTx -------------------------------
(***************************************************************************)
(* What the kernel sends on its UART: uart_puts by DMA or byte by byte     *)
(* (uart_putc), uart_put_hex32 byte by byte and without a lock,            *)
(* uart_puts_bounded and the echo of the receive interrupt through the     *)
(* ring of boot/uart_tx_ring_state.S, which a tick empties too.  All of    *)
(* them end in the FIFO of the PL011, which drops what does not fit.       *)
(*                                                                         *)
(* A byte is its source and its number: <<t, n>> is the n-th byte that     *)
(* task t writes itself, <<"ring", n>> the n-th that the ring accepted.    *)
(* The carriage return that uart_putc puts before a line feed is a byte    *)
(* too, and one byte stands for the line break of a message that meets a   *)
(* half-typed line.                                                        *)
(***************************************************************************)
EXTENDS Integers, Sequences, FiniteSets

CONSTANTS
    Task,       \* the tasks that print
    Uses,       \* in which ways each of them does
    Lengths,    \* of what they print
    DmaMinLen,  \* UART_DMA_MIN_LEN: 8
    ScratchCap, \* UART_DMA_SCRATCH_CAP: 512
    FifoDepth,  \* 16
    RingSlots,  \* 64
    Burst,      \* bytes that a drain moves at most: 16
    MaxPrints,  \* a bound
    MaxEchoes,  \* bytes that the interrupt echoes, a bound
    MayStick    \* the DMA may stop in the middle of a transfer

ASSUME UartAssumption ==
    /\ Uses \in [Task -> SUBSET {"puts", "bounded", "hex"}]
    /\ "ring" \notin Task /\ "nobody" \notin Task
    /\ Lengths \subseteq Nat \ {0} /\ DmaMinLen \in Nat /\ ScratchCap \in Nat
    /\ FifoDepth \in Nat \ {0} /\ RingSlots \in Nat \ {0} /\ Burst \in Nat \ {0}
    /\ MaxPrints \in Nat /\ MaxEchoes \in Nat /\ MayStick \in BOOLEAN

VARIABLES
    fifo,       \* the transmit FIFO of the PL011
    dma,        \* the transfer: CS.ACTIVE, and what it has still to read
    scratch,    \* uart_dma_scratch, by word
    stuck,      \* the transfer does not go on
    busy,       \* uart_pio_busy
    buf, head, tail,  \* uart_tx_ring_*
    drain,      \* where a drain of the ring is, "off" if there is none,
    burst,      \* and how many bytes it may still move
    console,    \* who has ceiling 0 for its message
    pc,         \* of each task: where it is,
    left,       \* the bytes it has still to write,
    body,       \* and the bytes of the message behind the line break
    given,      \* of each source: how many bytes it was given to print,
    sent,       \* and the number of the last of them on the wire
    dropped,    \* the bytes of the ring that met a full FIFO
    ended,      \* the transfers that came to their end
    prints      \* a count, for the bound

ring == <<buf, head, tail, drain, burst>>
wire == <<sent, dropped, ended>>
vars == <<fifo, dma, scratch, stuck, busy, ring, console, pc, left, body, given, wire, prints>>

Source == Task \cup {"ring"}
Word == Source \X Nat
Idle == [active |-> FALSE, from |-> 1, to |-> 0]

Init ==
    /\ fifo = <<>> /\ dma = Idle /\ scratch = <<>> /\ stuck = FALSE
    /\ busy = FALSE
    /\ buf = [k \in 0 .. RingSlots - 1 |-> <<"ring", 0>>] /\ head = 0 /\ tail = 0
    /\ drain = "off" /\ burst = 0
    /\ console = "nobody"
    /\ pc = [t \in Task |-> "idle"]
    /\ left = [t \in Task |-> 0] /\ body = [t \in Task |-> 0]
    /\ given = [s \in Source |-> 0] /\ sent = [s \in Source |-> 0]
    /\ dropped = {} /\ ended = 0 /\ prints = 0

---------------------------------------------------------------------------
(* The ring.  A push and a drain run with interrupts masked: until they are *)
(* over no task and no handler takes a step.  The UART and the DMA engine   *)
(* do, so that each look of drain_step at one of them is a step of its own. *)

Next1(k) == (k + 1) % RingSlots

\* The bytes in the ring from t on, up to h.
Held(b, h, t) == [k \in 1 .. (h - t) % RingSlots |-> b[(t + k - 1) % RingSlots]]

RingFull == Next1(head) = tail

Unmasked == drain = "off"

BeginDrain == Unmasked /\ drain' = "fifo" /\ burst' = Burst

EndDrain == drain' = "off" /\ burst' = 0

\* Mutant of RoomSeen: it is looked for before the first byte only.
RoomSeenOnce == Len(fifo) < FifoDepth \/ burst < Burst

\* UART_FR
RoomSeen == Len(fifo) < FifoDepth

\* drain_step: first the burst, the ring and the room in the FIFO.
DrainLook ==
    /\ drain = "fifo"
    /\ IF burst = 0 \/ head = tail \/ ~RoomSeen
       THEN EndDrain
       ELSE drain' = "dma" /\ burst' = burst - 1
    /\ UNCHANGED <<fifo, dma, scratch, stuck, busy, buf, head, tail, console, pc, left, body,
                   given, wire, prints>>

\* Mutant of DrainStops: the flag of uart_putc is not looked at.
DrainStopsDma == dma.active

\* The drain leaves the FIFO to a transfer and to a task in uart_putc.
DrainStops == dma.active \/ busy

\* Then dma_uart_tx_busy; and uart_pio_busy_get, of a flag that only tasks set.
DrainAsk ==
    /\ drain = "dma"
    /\ IF DrainStops THEN EndDrain ELSE drain' = "write" /\ UNCHANGED burst
    /\ UNCHANGED <<fifo, dma, scratch, stuck, busy, buf, head, tail, console, pc, left, body,
                   given, wire, prints>>

\* Then the write.  The byte leaves the ring whether the FIFO takes it or not.
DrainWrite ==
    /\ drain = "write"
    /\ IF Len(fifo) < FifoDepth
       THEN fifo' = Append(fifo, buf[tail]) /\ UNCHANGED dropped
       ELSE dropped' = dropped \cup {buf[tail][2]} /\ UNCHANGED fifo
    /\ tail' = Next1(tail)
    /\ drain' = "fifo"
    /\ UNCHANGED <<dma, scratch, stuck, busy, buf, head, burst, console, pc, left, body, given,
                   sent, ended, prints>>

DrainStep == DrainLook \/ DrainAsk \/ DrainWrite

\* uart_tx_ring_push_and_drain, up to the drain; a full ring drops the byte.
PushAndDrain ==
    /\ IF RingFull
       THEN UNCHANGED <<buf, head, given>>
       ELSE /\ buf' = [buf EXCEPT ![head] = <<"ring", given["ring"] + 1>>]
            /\ head' = Next1(head)
            /\ given' = [given EXCEPT !["ring"] = @ + 1]
    /\ BeginDrain
    /\ UNCHANGED tail

\* timer_tick_dispatch pumps the ring at every tick; nothing comes of it if
\* the ring is empty.
Tick ==
    /\ head # tail
    /\ BeginDrain
    /\ UNCHANGED <<fifo, dma, scratch, stuck, busy, buf, head, tail, console, pc, left, body,
                   given, wire, prints>>

\* shell_echo_char in the receive interrupt.
Echo ==
    /\ given["ring"] < MaxEchoes
    /\ PushAndDrain
    /\ UNCHANGED <<fifo, dma, scratch, stuck, busy, console, pc, left, body, wire, prints>>

---------------------------------------------------------------------------
(* The tasks.  At ceiling 0 the holder is the running task.                *)

Runs(t) == console \in {"nobody", t}

At(t, step) == Unmasked /\ Runs(t) /\ pc[t] = step

Goes(t, step) == pc' = [pc EXCEPT ![t] = step]

\* The next n bytes that t writes itself: by DMA or byte by byte.
Piece(t, n, way) ==
    /\ left' = [left EXCEPT ![t] = n]
    /\ given' = [given EXCEPT ![t] = @ + n]
    /\ Goes(t, way)

PutsWay(n) == IF n \in DmaMinLen .. ScratchCap THEN "dma" ELSE "putc"

\* uart_puts takes the ceiling, and breaks a half-typed line first.
BeginPuts(t, n, broken) ==
    /\ console' = t
    /\ body' = [body EXCEPT ![t] = IF broken THEN n ELSE 0]
    /\ IF broken THEN Piece(t, 1, "putc") ELSE Piece(t, n, PutsWay(n))

\* uart_puts_bounded takes it too.
BeginBounded(t, n) ==
    /\ console' = t
    /\ left' = [left EXCEPT ![t] = n]
    /\ Goes(t, "ring")
    /\ UNCHANGED <<body, given>>

\* uart_put_hex32 does not.
BeginHex(t, n) ==
    /\ Piece(t, n, "putc")
    /\ UNCHANGED <<console, body>>

Begin(t) ==
    /\ At(t, "idle") /\ prints < MaxPrints
    /\ prints' = prints + 1
    /\ \E n \in Lengths :
          \/ "puts" \in Uses[t] /\ \E broken \in BOOLEAN : BeginPuts(t, n, broken)
          \/ "bounded" \in Uses[t] /\ BeginBounded(t, n)
          \/ "hex" \in Uses[t] /\ BeginHex(t, n)
    /\ UNCHANGED <<fifo, dma, scratch, stuck, busy, ring, wire>>

\* uart_puts_bounded: one byte.
Bounded(t) ==
    /\ At(t, "ring")
    /\ left' = [left EXCEPT ![t] = @ - 1]
    /\ Goes(t, IF left[t] = 1 THEN "return" ELSE "ring")
    /\ PushAndDrain
    /\ UNCHANGED <<fifo, dma, scratch, stuck, busy, console, body, wire, prints>>

\* Mutant of DmaOver: the wait that never gives up.
DmaOverAlways == ~dma.active

\* dma_uart_tx_busy is polled until the transfer is over, or for longer than
\* any transfer that goes on.
DmaOver == ~dma.active \/ stuck

\* The numbers of the bytes that t has still to write.
Rest(t) == [k \in 1 .. left[t] |-> <<t, given[t] - left[t] + k>>]

\* Mutant of ScratchFree: the buffer is filled at once.
ScratchTaken == TRUE

ScratchFree == DmaOver

\* uart_puts: the scratch buffer is free, and filled.
Fill(t) ==
    /\ At(t, "dma") /\ ScratchFree
    /\ scratch' = Rest(t) \o SubSeq(scratch, left[t] + 1, Len(scratch))
    /\ Goes(t, "start")
    /\ UNCHANGED <<fifo, dma, stuck, busy, ring, console, left, body, given, wire, prints>>

\* dma_uart_tx_start, which refuses if a transfer is still active: then byte
\* by byte.  Nobody waits for the end of the transfer.
StartDma(t) ==
    /\ At(t, "start")
    /\ IF dma.active
       THEN Goes(t, "putc") /\ UNCHANGED <<dma, left>>
       ELSE /\ dma' = [active |-> TRUE, from |-> 1, to |-> left[t]]
            /\ left' = [left EXCEPT ![t] = 0]
            /\ Goes(t, "return")
    /\ UNCHANGED <<fifo, scratch, stuck, busy, ring, console, body, given, wire, prints>>

\* uart_putc
PutcWait(t) ==
    /\ At(t, "putc") /\ DmaOver
    /\ Goes(t, "flag")
    /\ UNCHANGED <<fifo, dma, scratch, stuck, busy, ring, console, left, body, given, wire, prints>>

SetBusy(t) ==
    /\ At(t, "flag")
    /\ busy' = TRUE
    /\ Goes(t, "room")
    /\ UNCHANGED <<fifo, dma, scratch, stuck, ring, console, left, body, given, wire, prints>>

Room(t) ==
    /\ At(t, "room") /\ Len(fifo) < FifoDepth
    /\ Goes(t, "write")
    /\ UNCHANGED <<fifo, dma, scratch, stuck, busy, ring, console, left, body, given, wire, prints>>

\* A full FIFO drops what is written.  A carriage return leaves the flag set
\* for its line feed.
Write(t) ==
    /\ At(t, "write")
    /\ fifo' = IF Len(fifo) < FifoDepth THEN Append(fifo, Rest(t)[1]) ELSE fifo
    /\ left' = [left EXCEPT ![t] = @ - 1]
    /\ \/ Goes(t, "clear")
       \/ left[t] > 1 /\ Goes(t, "room")
    /\ UNCHANGED <<dma, scratch, stuck, busy, ring, console, body, given, wire, prints>>

\* Mutant of Cleared: the flag stays set.
StaysSet == busy

Cleared == FALSE

ClearBusy(t) ==
    /\ At(t, "clear")
    /\ busy' = Cleared
    /\ CASE left[t] > 0 -> Goes(t, "putc") /\ UNCHANGED <<left, body, given>>
         [] left[t] = 0 /\ body[t] > 0 ->
              Piece(t, body[t], PutsWay(body[t])) /\ body' = [body EXCEPT ![t] = 0]
         [] OTHER -> Goes(t, "return") /\ UNCHANGED <<left, body, given>>
    /\ UNCHANGED <<fifo, dma, scratch, stuck, ring, console, wire, prints>>

Return(t) ==
    /\ At(t, "return")
    /\ Goes(t, "idle")
    /\ console' = IF console = t THEN "nobody" ELSE console
    /\ UNCHANGED <<fifo, dma, scratch, stuck, busy, ring, left, body, given, wire, prints>>

TaskStep(t) ==
    \/ Bounded(t) \/ Fill(t) \/ StartDma(t)
    \/ PutcWait(t) \/ SetBusy(t) \/ Room(t) \/ Write(t) \/ ClearBusy(t) \/ Return(t)

---------------------------------------------------------------------------
(* The PL011 and the DMA engine.                                           *)

Shift ==
    /\ fifo # <<>>
    /\ fifo' = Tail(fifo)
    /\ sent' = [sent EXCEPT ![Head(fifo)[1]] = Head(fifo)[2]]
    /\ UNCHANGED <<dma, scratch, stuck, busy, ring, console, pc, left, body, given, dropped,
                   ended, prints>>

\* A word is moved when there is room for it (DREQ).
Beat ==
    /\ dma.active /\ ~stuck /\ Len(fifo) < FifoDepth
    /\ fifo' = Append(fifo, scratch[dma.from])
    /\ IF dma.from = dma.to
       THEN dma' = Idle /\ ended' = ended + 1
       ELSE dma' = [dma EXCEPT !.from = @ + 1] /\ UNCHANGED ended
    /\ UNCHANGED <<scratch, stuck, busy, ring, console, pc, left, body, given, sent, dropped,
                   prints>>

Stick ==
    /\ MayStick /\ dma.active /\ ~stuck
    /\ stuck' = TRUE
    /\ UNCHANGED <<fifo, dma, scratch, busy, ring, console, pc, left, body, given, wire, prints>>

Next ==
    \/ Tick \/ Echo \/ DrainStep \/ Shift \/ Beat \/ Stick
    \/ \E t \in Task : Begin(t) \/ TaskStep(t)

Spec == Init /\ [][Next]_vars

\* The tasks, the UART, the engine and the timer go on, and a drain to its
\* end.  Ticks may mask a task again and again, but not so often that it never
\* takes a step between two of them.
FairSpec ==
    /\ Spec
    /\ \A t \in Task : SF_vars(TaskStep(t))
    /\ WF_vars(DrainStep)
    /\ WF_vars(Shift) /\ WF_vars(Beat) /\ WF_vars(Tick)

---------------------------------------------------------------------------
TypeOK ==
    /\ fifo \in Seq(Word) /\ Len(fifo) <= FifoDepth
    /\ dma \in [active : BOOLEAN, from : Nat, to : Nat]
    /\ scratch \in Seq(Word)
    /\ stuck \in BOOLEAN /\ busy \in BOOLEAN
    /\ buf \in [0 .. RingSlots - 1 -> Word]
    /\ head \in 0 .. RingSlots - 1 /\ tail \in 0 .. RingSlots - 1
    /\ console \in Task \cup {"nobody"}
    /\ pc \in [Task -> {"idle", "ring", "dma", "start", "putc", "flag", "room", "write",
                        "clear", "return"}]
    /\ left \in [Task -> Nat] /\ body \in [Task -> Nat]
    /\ drain \in {"off", "fifo", "dma", "write"} /\ burst \in 0 .. Burst
    /\ given \in [Source -> Nat] /\ sent \in [Source -> Nat]
    /\ dropped \in SUBSET Nat /\ ended \in Nat /\ prints \in Nat

\* What is on its way, in the order in which it will be on the wire, what the
\* source s has still to write last.
OnTheWay(s) ==
    fifo \o SubSeq(scratch, dma.from, dma.to)
         \o (IF s = "ring" THEN Held(buf, head, tail)
             ELSE IF pc[s] = "ring" THEN <<>> ELSE Rest(s))

\* The bytes of s in w are those from number lo + 1 to number hi except the
\* ones in gone, each of them once and in their order.
InOrder(w, s, lo, hi, gone) ==
    LET own == {i \in DOMAIN w : w[i][1] = s} IN
    /\ {w[i][2] : i \in own} = (lo + 1 .. hi) \ gone
    /\ \A i, j \in own : i < j => w[i][2] < w[j][2]

Gone(s) == IF s = "ring" THEN dropped ELSE {}

\* Of what a task was given nothing is lost, doubled or overtaken, and of what
\* the ring was given nothing but what the FIFO dropped, by whichever of the
\* three ways its bytes go: at every moment those on their way are the ones
\* behind the last on the wire, in their order.  When the engine has stopped
\* for good, what is printed past it overtakes what it has not read; the ring
\* waits.
Accounted ==
    \A s \in IF stuck THEN {"ring"} ELSE Source :
        InOrder(OnTheWay(s), s, sent[s], given[s], Gone(s))

\* The ring loses no more than one byte to a transfer: the one that drain_step
\* writes after the engine's last word, which came between its looks at the
\* FIFO and at the engine, has taken the room.
OneByteATransfer == Cardinality(dropped) <= ended

\* A task that has found room in the FIFO still finds it when it writes,
\* whatever interrupts and transfers come in between (uart_putc).
RoomStays == \A t \in Task : pc[t] = "write" => Len(fifo) < FifoDepth

\* The ring leaves the UART alone while a task is in the middle of a byte, as
\* the comment on uart_pio_busy_set says.
DrainKeepsOut ==
    [][tail' # tail => \A t \in Task : pc[t] \notin {"room", "write", "clear"}]_vars

\* What is in the ring leaves it even if nothing is printed any more, for the
\* wire or dropped, unless the engine has stopped for good (the drain at every
\* tick).
RingEmpties ==
    \A n \in 1 .. MaxEchoes : given["ring"] >= n ~> (sent["ring"] >= n \/ n \in dropped \/ stuck)

\* No print waits for ever, whatever the engine does.
PrintsEnd == \A t \in Task : pc[t] # "idle" ~> pc[t] = "idle"
=============================================================================
