---------------------------- MODULE UartTxProofs ----------------------------
(***************************************************************************)
(* Theorems about UartTx for every depth of the FIFO, size of the ring and *)
(* number of tasks: its types, and, as long as one task only writes to the *)
(* FIFO itself, that no byte of uart_putc meets a full FIFO and that every *)
(* source's bytes reach the wire once and in their order, but for those of *)
(* the ring that met a full FIFO.  Of these there are never more than      *)
(* transfers by DMA that have ended, whatever the tasks do.                *)
(***************************************************************************)
EXTENDS UartTx, TLAPS, FiniteSetTheorems

\* The steps in which a task has bytes of its own to write.
OwnSteps == {"dma", "start", "putc", "flag", "room", "write"}

\* A task has something to print until it has printed it.
Something ==
    \A t \in Task :
        /\ pc[t] \in OwnSteps \cup {"ring"} => left[t] >= 1
        /\ pc[t] \in OwnSteps \cup {"clear"} => left[t] <= given[t]

\* A transfer reads nothing but what has been put into the buffer.
Filled ==
    /\ dma.active => 1 <= dma.from /\ dma.from <= dma.to /\ dma.to <= Len(scratch)
    /\ \A t \in Task : pc[t] = "start" => left[t] <= Len(scratch)

UartInv == TypeOK /\ Something /\ Filled

---------------------------------------------------------------------------
(* The ring.                                                               *)

\* A remainder is within the ring.
LEMMA RemainderInRing ==
    ASSUME NEW k \in Int
    PROVE  k % RingSlots \in 0 .. RingSlots - 1
  BY UartAssumption

\* What a push into the ring changes.
LEMMA PushFits ==
    ASSUME TypeOK, PushAndDrain
    PROVE  /\ tail' = tail /\ head' \in 0 .. RingSlots - 1
           /\ buf' \in [0 .. RingSlots - 1 -> Word]
           /\ given' \in [Source -> Nat] /\ \A t \in Task : given'[t] = given[t]
           /\ drain = "off" /\ drain' = "fifo" /\ burst' \in 0 .. Burst
  <1>1. /\ buf \in [0 .. RingSlots - 1 -> Word] /\ head \in 0 .. RingSlots - 1
        /\ given \in [Source -> Nat]
    BY DEF TypeOK
  <1>2. tail' = tail /\ drain = "off" /\ drain' = "fifo" /\ burst' \in 0 .. Burst
    BY UartAssumption DEF PushAndDrain, BeginDrain, Unmasked
  <1>3. CASE RingFull
    BY <1>1, <1>2, <1>3 DEF PushAndDrain
  <1>4. CASE ~RingFull
    <2>1. /\ buf' = [buf EXCEPT ![head] = <<"ring", given["ring"] + 1>>]
          /\ head' = Next1(head)
          /\ given' = [given EXCEPT !["ring"] = @ + 1]
      BY <1>4 DEF PushAndDrain
    <2>2. "ring" \in Source /\ <<"ring", given["ring"] + 1>> \in Word
      BY <1>1 DEF Source, Word
    <2>3. buf' \in [0 .. RingSlots - 1 -> Word]
      BY <1>1, <2>1, <2>2
    <2>4. head' \in 0 .. RingSlots - 1
      <3>1. head + 1 \in Int
        BY <1>1, UartAssumption
      <3> QED
        BY <2>1, <3>1, RemainderInRing DEF Next1
    <2>5. given' \in [Source -> Nat] /\ \A t \in Task : given'[t] = given[t]
      BY <1>1, <2>1, <2>2, UartAssumption DEF Source
    <2> QED
      BY <1>2, <2>3, <2>4, <2>5
  <1> QED
    BY <1>3, <1>4

---------------------------------------------------------------------------
(* The types.                                                              *)

LEMMA InitUart == Init => UartInv
  <1> SUFFICES ASSUME Init PROVE UartInv
    OBVIOUS
  <1>1. TypeOK
    <2>1. fifo = <<>> /\ scratch = <<>> /\ dma = Idle /\ stuck = FALSE /\ busy = FALSE
      BY DEF Init
    <2>2. /\ fifo \in Seq(Word) /\ Len(fifo) <= FifoDepth /\ scratch \in Seq(Word)
          /\ stuck \in BOOLEAN /\ busy \in BOOLEAN
      <3>1. <<>> \in Seq(Word) /\ Len(<<>>) = 0
        OBVIOUS
      <3>2. FifoDepth >= 0
        BY UartAssumption
      <3> QED
        BY <2>1, <3>1, <3>2
    <2>3. dma \in [active : BOOLEAN, from : Nat, to : Nat]
      BY <2>1 DEF Idle
    <2>4. /\ buf \in [0 .. RingSlots - 1 -> Word]
          /\ head \in 0 .. RingSlots - 1 /\ tail \in 0 .. RingSlots - 1
      <3>1. <<"ring", 0>> \in Word
        BY DEF Source, Word
      <3>2. head = 0 /\ tail = 0 /\ buf = [k \in 0 .. RingSlots - 1 |-> <<"ring", 0>>]
        BY DEF Init
      <3>3. 0 \in 0 .. RingSlots - 1
        BY UartAssumption
      <3> QED
        BY <3>1, <3>2, <3>3
    <2>5. /\ console \in Task \cup {"nobody"}
          /\ pc \in [Task -> {"idle", "ring", "dma", "start", "putc", "flag", "room",
                               "write", "clear", "return"}]
          /\ left \in [Task -> Nat] /\ body \in [Task -> Nat]
          /\ given \in [Source -> Nat] /\ sent \in [Source -> Nat] /\ prints \in Nat
          /\ drain \in {"off", "fifo", "dma", "write"}
          /\ dropped \in SUBSET Nat /\ ended \in Nat
      BY DEF Init
    <2>6. burst \in 0 .. Burst
      BY UartAssumption DEF Init
    <2> QED
      BY <2>2, <2>3, <2>4, <2>5, <2>6 DEF TypeOK
  <1>2. Something /\ Filled
    BY <1>1 DEF Init, Something, Filled, OwnSteps, Idle, TypeOK
  <1> QED
    BY <1>1, <1>2 DEF UartInv

\* What t has still to write is a sequence of bytes.
LEMMA RestIsSeq ==
    ASSUME TypeOK, NEW t \in Task, left[t] <= given[t]
    PROVE  /\ Rest(t) \in Seq(Word) /\ Len(Rest(t)) = left[t]
           /\ left[t] >= 1 => Rest(t)[1] \in Word
  <1>1. left[t] \in Nat /\ given[t] \in Nat /\ t \in Source
    BY DEF TypeOK, Source
  <1>2. \A k \in 1 .. left[t] : <<t, given[t] - left[t] + k>> \in Word
    BY <1>1 DEF Word
  <1>3. Rest(t) = [k \in 1 .. left[t] |-> <<t, given[t] - left[t] + k>>]
    BY DEF Rest
  <1> HIDE DEF Rest
  <1>4. Rest(t) \in Seq(Word) /\ Len(Rest(t)) = left[t]
    BY <1>1, <1>2, <1>3
  <1>5. left[t] >= 1 => Rest(t)[1] \in Word
    BY <1>1, <1>4
  <1> QED
    BY <1>4, <1>5

\* Beginning a piece of at least one byte.
LEMMA PieceFits ==
    ASSUME UartInv, NEW t \in Task, NEW n \in Nat, n >= 1, NEW way \in {"dma", "putc"},
           Piece(t, n, way)
    PROVE  /\ left' \in [Task -> Nat] /\ given' \in [Source -> Nat]
           /\ pc' \in [Task -> {"idle", "ring", "dma", "start", "putc", "flag", "room",
                                 "write", "clear", "return"}]
           /\ \A u \in Task :
                 /\ pc'[u] \in OwnSteps \cup {"ring"} => left'[u] >= 1
                 /\ pc'[u] \in OwnSteps \cup {"clear"} => left'[u] <= given'[u]
           /\ \A u \in Task : pc'[u] = "start" => pc[u] = "start" /\ left'[u] = left[u]
  <1>1. TypeOK /\ Something /\ t \in Source
    BY DEF UartInv, Source
  <1>2. /\ left' = [left EXCEPT ![t] = n] /\ given' = [given EXCEPT ![t] = @ + n]
        /\ pc' = [pc EXCEPT ![t] = way]
    BY DEF Piece, Goes
  <1>3. left' \in [Task -> Nat] /\ given' \in [Source -> Nat]
    BY <1>1, <1>2, SMTT(30) DEF TypeOK
  <1>4. \A u \in Task : u # t => pc'[u] = pc[u] /\ left'[u] = left[u] /\ given'[u] = given[u]
    BY <1>1, <1>2 DEF TypeOK, Source
  <1>5. pc'[t] = way /\ left'[t] = n /\ given'[t] = given[t] + n /\ given[t] \in Nat
    BY <1>1, <1>2 DEF TypeOK
  <1>6. pc' \in [Task -> {"idle", "ring", "dma", "start", "putc", "flag", "room",
                          "write", "clear", "return"}]
    BY <1>1, <1>2 DEF TypeOK
  <1>7. \A u \in Task :
           /\ pc'[u] \in OwnSteps \cup {"ring"} => left'[u] >= 1
           /\ pc'[u] \in OwnSteps \cup {"clear"} => left'[u] <= given'[u]
    <2> TAKE u \in Task
    <2>1. CASE u = t
      BY <2>1, <1>5
    <2>2. CASE u # t
      BY <2>2, <1>1, <1>4 DEF Something
    <2> QED
      BY <2>1, <2>2
  <1>8. \A u \in Task : pc'[u] = "start" => pc[u] = "start" /\ left'[u] = left[u]
    BY <1>4, <1>5
  <1> QED
    BY <1>3, <1>6, <1>7, <1>8

\* The three ways to begin.
LEMMA BeginKeeps == ASSUME UartInv, NEW t \in Task, Begin(t) PROVE UartInv'
  <1>1. TypeOK /\ Something /\ Filled
    BY DEF UartInv
  <1>2. prints' \in Nat
        /\ UNCHANGED <<fifo, dma, scratch, stuck, busy, buf, head, tail, drain, burst, sent,
                       dropped, ended>>
    BY <1>1 DEF Begin, TypeOK, ring, wire
  <1>3. PICK n \in Lengths :
           \/ \E broken \in BOOLEAN : BeginPuts(t, n, broken)
           \/ BeginBounded(t, n)
           \/ BeginHex(t, n)
    BY DEF Begin
  <1>4. n \in Nat /\ n >= 1
    BY UartAssumption
  <1>5. ASSUME NEW k \in Nat, k >= 1, NEW way \in {"dma", "putc"}, Piece(t, k, way),
               console' \in Task \cup {"nobody"}, body' \in [Task -> Nat]
        PROVE  UartInv'
    <2>1. /\ left' \in [Task -> Nat] /\ given' \in [Source -> Nat]
          /\ pc' \in [Task -> {"idle", "ring", "dma", "start", "putc", "flag", "room",
                                "write", "clear", "return"}]
          /\ \A u \in Task : pc'[u] = "start" => pc[u] = "start" /\ left'[u] = left[u]
      BY <1>5, PieceFits
    <2>2. Something'
      BY <1>5, PieceFits DEF Something
    <2>3. TypeOK'
      BY <1>1, <1>2, <1>5, <2>1 DEF TypeOK
    <2>4. Filled'
      BY <1>1, <1>2, <2>1 DEF Filled
    <2> QED
      BY <2>2, <2>3, <2>4 DEF UartInv
  <1>6. ASSUME NEW broken \in BOOLEAN, BeginPuts(t, n, broken)
        PROVE  UartInv'
    <2>1. console' \in Task \cup {"nobody"} /\ body' \in [Task -> Nat]
      BY <1>1, <1>4, <1>6 DEF BeginPuts, TypeOK
    <2>2. PutsWay(n) \in {"dma", "putc"}
      BY DEF PutsWay
    <2>3. Piece(t, 1, "putc") \/ Piece(t, n, PutsWay(n))
      BY <1>6 DEF BeginPuts
    <2> QED
      BY <1>4, <1>5, <2>1, <2>2, <2>3
  <1>7. CASE BeginHex(t, n)
    <2>1. console' \in Task \cup {"nobody"} /\ body' \in [Task -> Nat]
      BY <1>1, <1>7 DEF BeginHex, TypeOK
    <2> QED
      BY <1>4, <1>5, <1>7, <2>1 DEF BeginHex
  <1>8. CASE BeginBounded(t, n)
    <2>1. /\ console' = t /\ left' = [left EXCEPT ![t] = n] /\ pc' = [pc EXCEPT ![t] = "ring"]
          /\ body' = body /\ given' = given
      BY <1>8 DEF BeginBounded, Goes
    <2>2. TypeOK'
      BY <1>1, <1>2, <1>4, <2>1 DEF TypeOK
    <2>3. Something' /\ Filled'
      BY <1>1, <1>2, <1>4, <2>1 DEF TypeOK, Something, Filled, OwnSteps
    <2> QED
      BY <2>2, <2>3 DEF UartInv
  <1> QED
    BY <1>3, <1>6, <1>7, <1>8

\* The interrupts, and a byte printed through the ring.
LEMMA RingKeeps ==
    ASSUME UartInv, Tick \/ Echo \/ \E t \in Task : Bounded(t)
    PROVE  UartInv'
  <1>1. TypeOK /\ Something /\ Filled
    BY DEF UartInv
  <1>2. CASE Tick
    <2>1. /\ UNCHANGED <<fifo, dma, scratch, stuck, busy, buf, head, tail, console, pc, left,
                         body, given, sent, dropped, ended, prints>>
          /\ drain' = "fifo" /\ burst' \in 0 .. Burst
      BY <1>2, UartAssumption DEF Tick, BeginDrain, wire
    <2>2. TypeOK' /\ Something' /\ Filled'
      BY <1>1, <2>1 DEF TypeOK, Something, Filled
    <2> QED
      BY <2>2 DEF UartInv
  <1>3. CASE Echo
    <2>1. /\ UNCHANGED <<fifo, dma, scratch, stuck, busy, console, pc, left, body, sent, dropped,
                         ended, prints>>
          /\ PushAndDrain
      BY <1>3 DEF Echo, wire
    <2>2. /\ tail' = tail /\ head' \in 0 .. RingSlots - 1
          /\ buf' \in [0 .. RingSlots - 1 -> Word]
          /\ given' \in [Source -> Nat] /\ \A t \in Task : given'[t] = given[t]
          /\ drain' = "fifo" /\ burst' \in 0 .. Burst
      BY <1>1, <2>1, PushFits
    <2>3. TypeOK'
      BY <1>1, <2>1, <2>2 DEF TypeOK
    <2>4. Something' /\ Filled'
      BY <1>1, <2>1, <2>2 DEF Something, Filled
    <2> QED
      BY <2>3, <2>4 DEF UartInv
  <1>4. ASSUME NEW t \in Task, Bounded(t) PROVE UartInv'
    <2>1. /\ UNCHANGED <<fifo, dma, scratch, stuck, busy, console, body, sent, dropped, ended,
                         prints>>
          /\ PushAndDrain /\ pc[t] = "ring"
          /\ left' = [left EXCEPT ![t] = @ - 1]
          /\ pc' = [pc EXCEPT ![t] = IF left[t] = 1 THEN "return" ELSE "ring"]
      BY <1>4 DEF Bounded, At, Goes, wire
    <2>2. left[t] \in Nat /\ left[t] >= 1
      BY <1>1, <2>1 DEF TypeOK, Something
    <2>3. left' \in [Task -> Nat]
      BY <1>1, <2>1, <2>2 DEF TypeOK
    <2>10. /\ tail' = tail /\ head' \in 0 .. RingSlots - 1
           /\ buf' \in [0 .. RingSlots - 1 -> Word] /\ given' \in [Source -> Nat]
           /\ drain' = "fifo" /\ burst' \in 0 .. Burst
      BY <1>1, <2>1, PushFits
    <2>11. pc' \in [Task -> {"idle", "ring", "dma", "start", "putc", "flag", "room", "write",
                             "clear", "return"}]
      BY <1>1, <2>1 DEF TypeOK
    <2>4. TypeOK'
      BY <1>1, <2>1, <2>3, <2>10, <2>11 DEF TypeOK
    <2>5. \A u \in Task : u # t => pc'[u] = pc[u] /\ left'[u] = left[u]
      BY <1>1, <2>1 DEF TypeOK
    <2>6. pc'[t] \notin OwnSteps \cup {"clear"} /\ (pc'[t] = "ring" => left'[t] >= 1)
      BY <1>1, <2>1, <2>2 DEF TypeOK, OwnSteps
    <2>7. \A u \in Task : given'[u] = given[u]
      BY <1>1, <2>1, PushFits
    <2>8. Something'
      BY <1>1, <2>5, <2>6, <2>7 DEF Something, OwnSteps
    <2>9. Filled'
      BY <1>1, <2>1, <2>5, <2>6 DEF Filled, OwnSteps
    <2> QED
      BY <2>4, <2>8, <2>9 DEF UartInv
  <1> QED
    BY <1>2, <1>3, <1>4

\* A step of a drain.
LEMMA DrainKeeps ==
    ASSUME UartInv, DrainStep
    PROVE  UartInv'
  <1>1. TypeOK /\ Something /\ Filled
    BY DEF UartInv
  <1>2. UNCHANGED <<dma, scratch, stuck, busy, buf, head, console, pc, left, body, given, sent,
                   ended, prints>>
    BY DEF DrainStep, DrainLook, DrainAsk, DrainWrite, wire
  <1>3. CASE DrainLook \/ DrainAsk
    <2>1. UNCHANGED <<fifo, tail, dropped>>
      BY <1>3 DEF DrainLook, DrainAsk, wire
    <2>2. drain' \in {"off", "fifo", "dma", "write"}
      BY <1>3 DEF DrainLook, DrainAsk, EndDrain
    <2>3. burst' \in 0 .. Burst
      <3>1. burst \in 0 .. Burst /\ Burst \in Nat
        BY <1>1, UartAssumption DEF TypeOK
      <3>2. CASE DrainLook
        <4>1. CASE burst = 0 \/ head = tail \/ ~RoomSeen
          <5>1. burst' = 0
            BY <3>2, <4>1, Zenon DEF DrainLook, EndDrain
          <5> QED
            BY <3>1, <5>1
        <4>2. CASE ~(burst = 0 \/ head = tail \/ ~RoomSeen)
          <5>1. burst' = burst - 1 /\ burst # 0
            BY <3>2, <4>2, Zenon DEF DrainLook
          <5> QED
            BY <3>1, <5>1
        <4> QED
          BY <4>1, <4>2
      <3>3. CASE DrainAsk
        <4>1. burst' = 0 \/ burst' = burst
          BY <3>3 DEF DrainAsk, EndDrain
        <4> QED
          BY <3>1, <4>1
      <3> QED
        BY <1>3, <3>2, <3>3
    <2>4. TypeOK' /\ Something' /\ Filled'
      BY <1>1, <1>2, <2>1, <2>2, <2>3 DEF TypeOK, Something, Filled
    <2> QED
      BY <2>4 DEF UartInv
  <1>4. CASE DrainWrite
    <2>1. /\ fifo \in Seq(Word) /\ buf \in [0 .. RingSlots - 1 -> Word]
          /\ tail \in 0 .. RingSlots - 1 /\ FifoDepth \in Nat /\ Len(fifo) \in Nat
          /\ Len(fifo) <= FifoDepth /\ dropped \in SUBSET Nat
      BY <1>1, UartAssumption DEF TypeOK
    <2>2. buf[tail] \in Word /\ buf[tail][2] \in Nat
      BY <2>1 DEF Word
    <2>3. /\ fifo' \in Seq(Word) /\ Len(fifo') <= FifoDepth /\ dropped' \in SUBSET Nat
      <3>1. CASE Len(fifo) < FifoDepth
        <4>1. fifo' = Append(fifo, buf[tail]) /\ dropped' = dropped
          BY <1>4, <3>1 DEF DrainWrite
        <4>2. Append(fifo, buf[tail]) \in Seq(Word) /\ Len(Append(fifo, buf[tail])) = Len(fifo) + 1
          BY <2>1, <2>2
        <4> QED
          BY <2>1, <3>1, <4>1, <4>2
      <3>2. CASE ~(Len(fifo) < FifoDepth)
        <4>1. fifo' = fifo /\ dropped' = dropped \cup {buf[tail][2]}
          BY <1>4, <3>2 DEF DrainWrite
        <4> QED
          BY <2>1, <2>2, <4>1
      <3> QED
        BY <3>1, <3>2
    <2>4. tail' \in 0 .. RingSlots - 1
      <3>1. tail + 1 \in Int
        BY <2>1, UartAssumption
      <3> QED
        BY <1>4, <3>1, RemainderInRing DEF DrainWrite, Next1
    <2>5. drain' = "fifo" /\ burst' = burst
      BY <1>4 DEF DrainWrite
    <2>6. TypeOK' /\ Something' /\ Filled'
      BY <1>1, <1>2, <2>3, <2>4, <2>5 DEF TypeOK, Something, Filled
    <2> QED
      BY <2>6 DEF UartInv
  <1> QED
    BY <1>3, <1>4 DEF DrainStep

\* A step of t within uart_putc that writes nothing.
LEMMA PutcKeeps ==
    ASSUME UartInv, NEW t \in Task,
           PutcWait(t) \/ SetBusy(t) \/ Room(t) \/ Return(t)
    PROVE  UartInv'
  <1>1. TypeOK /\ Something /\ Filled
    BY DEF UartInv
  <1>2. UNCHANGED <<fifo, dma, scratch, stuck, buf, head, tail, drain, burst, left, body, given,
                   sent, dropped, ended, prints>>
    BY DEF PutcWait, SetBusy, Room, Return, ring, wire
  <1>3. busy' \in BOOLEAN /\ console' \in Task \cup {"nobody"}
    BY <1>1 DEF PutcWait, SetBusy, Room, Return, TypeOK
  <1>4. \/ pc[t] = "putc" /\ pc' = [pc EXCEPT ![t] = "flag"]
        \/ pc[t] = "flag" /\ pc' = [pc EXCEPT ![t] = "room"]
        \/ pc[t] = "room" /\ pc' = [pc EXCEPT ![t] = "write"]
        \/ pc[t] = "return" /\ pc' = [pc EXCEPT ![t] = "idle"]
    BY DEF PutcWait, SetBusy, Room, Return, At, Goes
  <1>5. TypeOK'
    BY <1>1, <1>2, <1>3, <1>4 DEF TypeOK
  <1>6. Something' /\ Filled'
    BY <1>1, <1>2, <1>4 DEF TypeOK, Something, Filled, OwnSteps
  <1> QED
    BY <1>5, <1>6 DEF UartInv

\* uart_puts by DMA.
LEMMA DmaKeeps ==
    ASSUME UartInv, NEW t \in Task, Fill(t) \/ StartDma(t)
    PROVE  UartInv'
  <1>1. TypeOK /\ Something /\ Filled
    BY DEF UartInv
  <1>2. UNCHANGED <<fifo, stuck, busy, buf, head, tail, drain, burst, console, body, given, sent,
                   dropped, ended, prints>>
    BY DEF Fill, StartDma, ring, wire
  <1>3. CASE Fill(t)
    <2>1. /\ UNCHANGED <<dma, left>> /\ pc[t] = "dma" /\ pc' = [pc EXCEPT ![t] = "start"]
          /\ scratch' = Rest(t) \o SubSeq(scratch, left[t] + 1, Len(scratch))
      BY <1>3 DEF Fill, At, Goes
    <2>2. left[t] \in Nat /\ left[t] >= 1 /\ left[t] <= given[t]
          /\ scratch \in Seq(Word) /\ Len(scratch) \in Nat
      BY <1>1, <2>1, SMTT(30) DEF TypeOK, Something, OwnSteps
    <2>3. Rest(t) \in Seq(Word) /\ Len(Rest(t)) = left[t]
      BY <1>1, <2>2, RestIsSeq
    <2>4. /\ SubSeq(scratch, left[t] + 1, Len(scratch)) \in Seq(Word)
          /\ Len(SubSeq(scratch, left[t] + 1, Len(scratch))) >= 0
          /\ left[t] <= Len(scratch)
                => Len(SubSeq(scratch, left[t] + 1, Len(scratch))) = Len(scratch) - left[t]
      BY <2>2
    <2>5. /\ scratch' \in Seq(Word)
          /\ Len(scratch') >= Len(scratch) /\ Len(scratch') >= left[t]
          /\ Len(scratch') \in Nat
      BY <2>1, <2>2, <2>3, <2>4, SMTT(30)
    <2>6. TypeOK'
      BY <1>1, <1>2, <2>1, <2>5 DEF TypeOK
    <2>7. Something'
      BY <1>1, <1>2, <2>1 DEF TypeOK, Something, OwnSteps
    <2>8. Filled'
      <3>1. \A u \in Task : pc'[u] = "start" => pc[u] = "start" \/ u = t
        BY <1>1, <2>1 DEF TypeOK
      <3>2. \A u \in Task : left[u] \in Nat
        BY <1>1 DEF TypeOK
      <3>3. dma.to \in Nat
        BY <1>1 DEF TypeOK
      <3> QED
        BY <1>1, <2>1, <2>2, <2>5, <3>1, <3>2, <3>3, SMTT(30) DEF Filled
    <2> QED
      BY <2>6, <2>7, <2>8 DEF UartInv
  <1>4. CASE StartDma(t) /\ dma.active
    <2>1. UNCHANGED <<dma, left, scratch>> /\ pc[t] = "start" /\ pc' = [pc EXCEPT ![t] = "putc"]
      BY <1>4 DEF StartDma, At, Goes
    <2>2. TypeOK'
      BY <1>1, <1>2, <2>1 DEF TypeOK
    <2>3. Something' /\ Filled'
      BY <1>1, <1>2, <2>1 DEF TypeOK, Something, Filled, OwnSteps
    <2> QED
      BY <2>2, <2>3 DEF UartInv
  <1>5. CASE StartDma(t) /\ ~dma.active
    <2>1. /\ dma' = [active |-> TRUE, from |-> 1, to |-> left[t]]
          /\ left' = [left EXCEPT ![t] = 0] /\ scratch' = scratch
          /\ pc[t] = "start" /\ pc' = [pc EXCEPT ![t] = "return"]
      BY <1>5 DEF StartDma, At, Goes
    <2>2. left[t] \in Nat /\ left[t] >= 1 /\ left[t] <= Len(scratch)
      BY <1>1, <2>1 DEF TypeOK, Something, OwnSteps, Filled
    <2>3. TypeOK'
      BY <1>1, <1>2, <2>1, <2>2 DEF TypeOK
    <2>4. Something' /\ Filled'
      BY <1>1, <1>2, <2>1, <2>2 DEF TypeOK, Something, Filled, OwnSteps
    <2> QED
      BY <2>3, <2>4 DEF UartInv
  <1> QED
    BY <1>3, <1>4, <1>5

\* A byte written by uart_putc, and what comes after it.
LEMMA WriteKeeps ==
    ASSUME UartInv, NEW t \in Task, Write(t) \/ ClearBusy(t)
    PROVE  UartInv'
  <1>1. TypeOK /\ Something /\ Filled
    BY DEF UartInv
  <1>2. UNCHANGED <<dma, scratch, stuck, buf, head, tail, drain, burst, console, sent, dropped,
                   ended, prints>>
    BY DEF Write, ClearBusy, ring, wire
  <1>3. CASE Write(t)
    <2>1. /\ UNCHANGED <<busy, body, given>> /\ pc[t] = "write"
          /\ fifo' = IF Len(fifo) < FifoDepth THEN Append(fifo, Rest(t)[1]) ELSE fifo
          /\ left' = [left EXCEPT ![t] = @ - 1]
          /\ \/ pc' = [pc EXCEPT ![t] = "clear"]
             \/ left[t] > 1 /\ pc' = [pc EXCEPT ![t] = "room"]
      BY <1>3 DEF Write, At, Goes
    <2>2. left[t] \in Nat /\ left[t] >= 1 /\ left[t] <= given[t] /\ given[t] \in Nat
      BY <1>1, <2>1 DEF TypeOK, Something, OwnSteps, Source
    <2>3. fifo' \in Seq(Word) /\ Len(fifo') <= FifoDepth
      <3>1. Rest(t)[1] \in Word /\ fifo \in Seq(Word) /\ Len(fifo) <= FifoDepth
            /\ Len(fifo) \in Nat /\ FifoDepth \in Nat
        BY <1>1, <2>2, RestIsSeq, UartAssumption DEF TypeOK
      <3>2. CASE Len(fifo) < FifoDepth
        BY <2>1, <3>1, <3>2
      <3>3. CASE ~(Len(fifo) < FifoDepth)
        BY <2>1, <3>1, <3>3
      <3> QED
        BY <3>2, <3>3
    <2>4. left' \in [Task -> Nat]
      BY <1>1, <2>1, <2>2 DEF TypeOK
    <2>5. TypeOK'
      BY <1>1, <1>2, <2>1, <2>3, <2>4 DEF TypeOK
    <2>6. \A u \in Task : u # t => pc'[u] = pc[u] /\ left'[u] = left[u]
      BY <1>1, <2>1 DEF TypeOK
    <2>7. /\ left'[t] = left[t] - 1
          /\ \/ pc'[t] = "clear"
             \/ left[t] > 1 /\ pc'[t] = "room"
      BY <1>1, <2>1 DEF TypeOK
    <2>8. Something' /\ Filled'
      BY <1>1, <1>2, <2>1, <2>2, <2>6, <2>7 DEF Something, Filled, OwnSteps
    <2> QED
      BY <2>5, <2>8 DEF UartInv
  <1>4. CASE ClearBusy(t)
    <2>1. busy' \in BOOLEAN /\ fifo' = fifo /\ pc[t] = "clear"
      BY <1>4 DEF ClearBusy, Cleared, At
    <2>2. left[t] \in Nat /\ body[t] \in Nat
      BY <1>1 DEF TypeOK
    <2>3. \A u \in Task : u # t => pc'[u] = pc[u] /\ left'[u] = left[u] /\ given'[u] = given[u]
      BY <1>1, <1>4, SMTT(30) DEF ClearBusy, Piece, Goes, TypeOK, Source
    <2>4. CASE left[t] > 0
      <3>1. UNCHANGED <<left, body, given>> /\ pc' = [pc EXCEPT ![t] = "putc"]
        BY <1>4, <2>4 DEF ClearBusy, Goes
      <3>2. TypeOK'
        BY <1>1, <1>2, <2>1, <3>1 DEF TypeOK
      <3>3. left[t] <= given[t] /\ pc'[t] = "putc"
        BY <1>1, <2>1, <3>1 DEF Something, TypeOK
      <3>4. Something' /\ Filled'
        BY <1>1, <1>2, <2>2, <2>3, <2>4, <3>1, <3>3 DEF Something, Filled
      <3> QED
        BY <3>2, <3>4 DEF UartInv
    <2>5. CASE left[t] = 0 /\ body[t] > 0
      <3>1. Piece(t, body[t], PutsWay(body[t])) /\ body' = [body EXCEPT ![t] = 0]
        BY <1>4, <2>5 DEF ClearBusy
      <3>2. PutsWay(body[t]) \in {"dma", "putc"}
        BY DEF PutsWay
      <3>3. /\ left' \in [Task -> Nat] /\ given' \in [Source -> Nat]
            /\ pc' \in [Task -> {"idle", "ring", "dma", "start", "putc", "flag", "room",
                                  "write", "clear", "return"}]
            /\ \A u \in Task : pc'[u] = "start" => pc[u] = "start" /\ left'[u] = left[u]
        BY <2>2, <2>5, <3>1, <3>2, PieceFits
      <3>4. Something'
        BY <2>2, <2>5, <3>1, <3>2, PieceFits DEF Something
      <3>5. TypeOK'
        BY <1>1, <1>2, <2>1, <3>1, <3>3 DEF TypeOK
      <3>6. Filled'
        BY <1>1, <1>2, <3>3 DEF Filled
      <3> QED
        BY <3>4, <3>5, <3>6 DEF UartInv
    <2>6. CASE left[t] = 0 /\ ~(body[t] > 0)
      <3>1. UNCHANGED <<left, body, given>> /\ pc' = [pc EXCEPT ![t] = "return"]
        BY <1>4, <2>6 DEF ClearBusy, Goes
      <3>2. TypeOK'
        BY <1>1, <1>2, <2>1, <3>1 DEF TypeOK
      <3>3. pc'[t] = "return"
        BY <1>1, <3>1 DEF TypeOK
      <3>4. Something' /\ Filled'
        BY <1>1, <1>2, <2>3, <3>1, <3>3 DEF Something, Filled, OwnSteps
      <3> QED
        BY <3>2, <3>4 DEF UartInv
    <2> QED
      BY <2>2, <2>4, <2>5, <2>6
  <1> QED
    BY <1>3, <1>4

\* The UART and the engine.
LEMMA EngineKeeps ==
    ASSUME UartInv, Shift \/ Beat \/ Stick
    PROVE  UartInv'
  <1>1. TypeOK /\ Something /\ Filled
    BY DEF UartInv
  <1>2. UNCHANGED <<scratch, busy, buf, head, tail, drain, burst, console, pc, left, body, given,
                   dropped, prints>>
    BY DEF Shift, Beat, Stick, ring, wire
  <1>3. CASE Shift
    <2>1. /\ UNCHANGED <<dma, stuck, ended>> /\ fifo # <<>> /\ fifo' = Tail(fifo)
          /\ sent' = [sent EXCEPT ![Head(fifo)[1]] = Head(fifo)[2]]
      BY <1>3 DEF Shift
    <2>2. fifo \in Seq(Word) /\ Len(fifo) <= FifoDepth /\ FifoDepth \in Nat
      BY <1>1, UartAssumption DEF TypeOK
    <2>3. fifo' \in Seq(Word) /\ Len(fifo') <= FifoDepth
      BY <2>1, <2>2
    <2>4. sent' \in [Source -> Nat]
      <3>1. sent \in [Source -> Nat]
        BY <1>1 DEF TypeOK
      <3>2. Head(fifo) \in Word
        BY <2>1, <2>2
      <3>3. Head(fifo)[1] \in Source /\ Head(fifo)[2] \in Nat
        BY <3>2 DEF Word
      <3> QED
        BY <2>1, <3>1, <3>3
    <2>5. TypeOK' /\ Something' /\ Filled'
      BY <1>1, <1>2, <2>1, <2>3, <2>4 DEF TypeOK, Something, Filled
    <2> QED
      BY <2>5 DEF UartInv
  <1>4. CASE Beat
    <2>1. /\ UNCHANGED <<stuck, sent>> /\ dma.active /\ Len(fifo) < FifoDepth
          /\ fifo' = Append(fifo, scratch[dma.from])
          /\ IF dma.from = dma.to
             THEN dma' = Idle /\ ended' = ended + 1
             ELSE dma' = [dma EXCEPT !.from = @ + 1] /\ ended' = ended
      BY <1>4 DEF Beat
    <2>2. /\ dma \in [active : BOOLEAN, from : Nat, to : Nat]
          /\ 1 <= dma.from /\ dma.from <= dma.to /\ dma.to <= Len(scratch)
          /\ scratch \in Seq(Word) /\ fifo \in Seq(Word) /\ ended \in Nat
      BY <1>1, <2>1 DEF TypeOK, Filled
    <2>3. scratch[dma.from] \in Word
      BY <2>2
    <2>4. fifo' \in Seq(Word) /\ Len(fifo') <= FifoDepth
      BY <2>1, <2>2, <2>3, UartAssumption
    <2>5. CASE dma.from = dma.to
      <3>1. dma' = [active |-> FALSE, from |-> 1, to |-> 0] /\ ended' \in Nat
        BY <2>1, <2>2, <2>5 DEF Idle
      <3>2. dma' \in [active : BOOLEAN, from : Nat, to : Nat] /\ ~dma'.active
        BY <3>1
      <3>3. TypeOK'
        BY <1>1, <1>2, <2>1, <2>4, <3>1, <3>2 DEF TypeOK
      <3>4. Something' /\ Filled'
        BY <1>1, <1>2, <3>2 DEF Something, Filled
      <3> QED
        BY <3>3, <3>4 DEF UartInv
    <2>6. CASE dma.from # dma.to
      <3>1. dma' = [dma EXCEPT !.from = @ + 1] /\ ended' = ended
        BY <2>1, <2>6
      <3>2. /\ dma' \in [active : BOOLEAN, from : Nat, to : Nat]
            /\ 1 <= dma'.from /\ dma'.from <= dma'.to /\ dma'.to <= Len(scratch)
        BY <2>2, <2>6, <3>1
      <3>3. TypeOK' /\ Something' /\ Filled'
        BY <1>1, <1>2, <2>1, <2>4, <3>1, <3>2 DEF TypeOK, Something, Filled
      <3> QED
        BY <3>3 DEF UartInv
    <2> QED
      BY <2>5, <2>6
  <1>5. CASE Stick
    <2>1. UNCHANGED <<fifo, dma, sent, ended>> /\ stuck' = TRUE
      BY <1>5 DEF Stick, wire
    <2>2. TypeOK' /\ Something' /\ Filled'
      BY <1>1, <1>2, <2>1 DEF TypeOK, Something, Filled
    <2> QED
      BY <2>2 DEF UartInv
  <1> QED
    BY <1>3, <1>4, <1>5

LEMMA StepKeepsUart == UartInv /\ [Next]_vars => UartInv'
  <1> SUFFICES ASSUME UartInv, [Next]_vars PROVE UartInv'
    OBVIOUS
  <1>1. CASE UNCHANGED vars
    BY <1>1 DEF UartInv, TypeOK, Something, Filled, vars, ring, wire
  <1>2. CASE Tick \/ Echo \/ DrainStep
    BY <1>2, RingKeeps, DrainKeeps
  <1>3. CASE Shift \/ Beat \/ Stick
    BY <1>3, EngineKeeps
  <1>4. ASSUME NEW t \in Task, Begin(t) \/ TaskStep(t) PROVE UartInv'
    BY <1>4, BeginKeeps, RingKeeps, PutcKeeps, DmaKeeps, WriteKeeps DEF TaskStep
  <1> QED
    BY <1>1, <1>2, <1>3, <1>4 DEF Next

\* The types of what is printed and how far it is: in particular the indices
\* stay in the ring, whatever the FIFO takes of what a drain writes to it
\* (uart_tx_ring_push_and_drain_impl), and a drain moves no more than a burst.
THEOREM UartTypes == Spec => []TypeOK
  <1>1. UartInv => TypeOK
    BY DEF UartInv
  <1> QED
    BY <1>1, InitUart, StepKeepsUart, PTL DEF Spec

---------------------------------------------------------------------------
(* The drain of the ring.                                                  *)

\* A drain writes a byte of the ring, and after it has found the engine idle
\* and the flag clear, which only tasks change.  It writes to a full FIFO only
\* if a transfer has ended since it looked there.
DrainInv ==
    /\ drain \in {"dma", "write"} => head # tail
    /\ drain = "write" => ~DrainStops
    /\ IsFiniteSet(dropped) /\ Cardinality(dropped) <= ended
    /\ drain \in {"dma", "write"} /\ ~dma.active /\ ~(Len(fifo) < FifoDepth)
          => Cardinality(dropped) + 1 <= ended

LEMMA InitDrain == Init => DrainInv
  <1> SUFFICES ASSUME Init PROVE DrainInv
    OBVIOUS
  <1>1. drain = "off" /\ dropped = {} /\ ended = 0
    BY DEF Init
  <1>2. IsFiniteSet({}) /\ Cardinality({}) = 0
    BY FS_EmptySet
  <1> QED
    BY <1>1, <1>2 DEF DrainInv

\* The drain's own steps.
LEMMA DrainStepKeepsDrain ==
    ASSUME UartInv, DrainInv, DrainStep
    PROVE  DrainInv'
  <1>1. /\ IsFiniteSet(dropped) /\ Cardinality(dropped) <= ended
        /\ ended \in Nat /\ Cardinality(dropped) \in Nat
    BY FS_CardinalityType DEF DrainInv, UartInv, TypeOK
  <1>2. UNCHANGED <<dma, busy, ended>>
    BY DEF DrainStep, DrainLook, DrainAsk, DrainWrite, wire
  <1>3. CASE DrainLook
    <2>1. UNCHANGED <<fifo, dropped, head, tail>>
      BY <1>3 DEF DrainLook, wire
    <2>2. CASE burst = 0 \/ head = tail \/ ~RoomSeen
      <3>1. drain' = "off"
        BY <1>3, <2>2, Zenon DEF DrainLook, EndDrain
      <3> QED
        BY <1>1, <1>2, <2>1, <3>1 DEF DrainInv
    <2>3. CASE ~(burst = 0 \/ head = tail \/ ~RoomSeen)
      <3>1. drain' = "dma" /\ head # tail /\ Len(fifo) < FifoDepth
        BY <1>3, <2>3, Zenon DEF DrainLook, RoomSeen
      <3> QED
        BY <1>1, <1>2, <2>1, <3>1 DEF DrainInv
    <2> QED
      BY <2>2, <2>3
  <1>4. CASE DrainAsk
    <2>1. UNCHANGED <<fifo, dropped, head, tail>> /\ drain = "dma"
      BY <1>4 DEF DrainAsk, wire
    <2>2. \/ drain' = "off"
          \/ drain' = "write" /\ ~DrainStops
      <3>1. CASE DrainStops
        BY <1>4, <3>1 DEF DrainAsk, EndDrain
      <3>2. CASE ~DrainStops
        BY <1>4, <3>2 DEF DrainAsk
      <3> QED
        BY <3>1, <3>2
    <2>3. DrainStops' = DrainStops
      BY <1>2 DEF DrainStops
    <2> QED
      BY <1>1, <1>2, <2>1, <2>2, <2>3 DEF DrainInv
  <1>5. CASE DrainWrite
    <2>1. drain = "write" /\ drain' = "fifo"
      BY <1>5 DEF DrainWrite
    <2>2. IsFiniteSet(dropped') /\ Cardinality(dropped') <= ended
      <3>1. CASE Len(fifo) < FifoDepth
        <4>1. dropped' = dropped
          BY <1>5, <3>1 DEF DrainWrite
        <4> QED
          BY <1>1, <4>1
      <3>2. CASE ~(Len(fifo) < FifoDepth)
        <4>1. dropped' = dropped \cup {buf[tail][2]}
          BY <1>5, <3>2 DEF DrainWrite
        <4>2. Cardinality(dropped) + 1 <= ended
          BY <2>1, <3>2 DEF DrainInv, DrainStops
        <4>3. /\ IsFiniteSet(dropped')
              /\ \/ Cardinality(dropped') = Cardinality(dropped)
                 \/ Cardinality(dropped') = Cardinality(dropped) + 1
          BY <1>1, <4>1, FS_AddElement
        <4> QED
          BY <1>1, <4>2, <4>3
      <3> QED
        BY <3>1, <3>2
    <2> QED
      BY <1>2, <2>1, <2>2 DEF DrainInv
  <1> QED
    BY <1>3, <1>4, <1>5 DEF DrainStep

LEMMA StepKeepsDrain == UartInv /\ DrainInv /\ [Next]_vars => DrainInv'
  <1> SUFFICES ASSUME UartInv, DrainInv, [Next]_vars PROVE DrainInv'
    OBVIOUS
  <1>1. /\ IsFiniteSet(dropped) /\ Cardinality(dropped) <= ended
        /\ ended \in Nat /\ Cardinality(dropped) \in Nat
    BY FS_CardinalityType DEF DrainInv, UartInv, TypeOK
  <1>2. CASE UNCHANGED vars
    BY <1>2 DEF DrainInv, DrainStops, vars, ring, wire
  <1>3. ASSUME drain = "off", drain' = drain \/ drain' = "fifo", UNCHANGED <<dropped, ended>>
        PROVE  DrainInv'
    BY <1>1, <1>3 DEF DrainInv
  <1>4. CASE Tick \/ Echo
    BY <1>3, <1>4 DEF Tick, Echo, PushAndDrain, BeginDrain, Unmasked, wire
  <1>5. CASE DrainStep
    BY <1>5, DrainStepKeepsDrain
  <1>6. CASE Shift
    <2>1. /\ UNCHANGED <<drain, head, tail, dma, busy, dropped, ended>>
          /\ fifo # <<>> /\ fifo' = Tail(fifo)
      BY <1>6 DEF Shift, ring
    <2>2. Len(fifo') < FifoDepth
      <3>1. fifo \in Seq(Word) /\ Len(fifo) <= FifoDepth /\ FifoDepth \in Nat
        BY UartAssumption DEF UartInv, TypeOK
      <3>2. Len(fifo') = Len(fifo) - 1 /\ Len(fifo) \in Nat
        BY <2>1, <3>1
      <3> QED
        BY <3>1, <3>2
    <2> QED
      BY <1>1, <2>1, <2>2 DEF DrainInv, DrainStops
  <1>7. CASE Beat
    <2>1. /\ UNCHANGED <<drain, head, tail, busy, dropped>> /\ dma.active
          /\ \/ dma' = Idle /\ ended' = ended + 1
             \/ dma' = [dma EXCEPT !.from = @ + 1] /\ ended' = ended
      BY <1>7 DEF Beat, ring
    <2>2. drain # "write"
      BY <2>1 DEF DrainInv, DrainStops
    <2>3. \/ ended' = ended + 1
          \/ dma'.active /\ ended' = ended
      BY <2>1 DEF UartInv, TypeOK
    <2> QED
      BY <1>1, <2>1, <2>2, <2>3 DEF DrainInv
  <1>8. CASE Stick
    BY <1>8 DEF Stick, DrainInv, DrainStops, ring, wire
  <1>9. ASSUME NEW t \in Task, Begin(t) \/ TaskStep(t) PROVE DrainInv'
    <2>1. drain = "off"
      BY <1>9 DEF Begin, TaskStep, Bounded, Fill, StartDma, PutcWait, SetBusy, Room, Write,
                  ClearBusy, Return, At, Unmasked
    <2>2. (drain' = drain \/ drain' = "fifo") /\ UNCHANGED <<dropped, ended>>
      BY <1>9 DEF Begin, TaskStep, Bounded, Fill, StartDma, PutcWait, SetBusy, Room, Write,
                  ClearBusy, Return, PushAndDrain, BeginDrain, ring, wire
    <2> QED
      BY <1>3, <2>1, <2>2
  <1> QED
    BY <1>2, <1>4, <1>5, <1>6, <1>7, <1>8, <1>9 DEF Next

\* The ring loses at most one byte to each transfer that has come to its end,
\* however many tasks write: the only way into a full FIFO is between the
\* drain's look at it and its look at the engine, by that engine's last word
\* (drain_step: UART_FR before CS.ACTIVE).
THEOREM FewAreDropped == Spec => []OneByteATransfer
  <1>1. DrainInv => OneByteATransfer
    BY DEF DrainInv, OneByteATransfer
  <1> QED
    BY <1>1, InitUart, InitDrain, StepKeepsUart, StepKeepsDrain, PTL DEF Spec

---------------------------------------------------------------------------
(* One task that writes itself.                                            *)

Writer(t) == Uses[t] \cap {"puts", "hex"} # {}

\* Every other task prints through the ring.
OneWriter == \A t, u \in Task : Writer(t) /\ Writer(u) => t = u

\* Only a writer is in the middle of its own bytes; there the flag is set, and
\* no transfer goes on.
WriterOnly ==
    \A t \in Task :
        /\ pc[t] \in OwnSteps \cup {"clear"} => Writer(t)
        /\ pc[t] \in {"room", "write", "clear"} => busy
        /\ pc[t] \in {"flag", "room", "write", "clear"} => DmaOver

RoomInv == WriterOnly /\ RoomStays

\* A step of the one writer t in which the rest of the UART stands still.
LEMMA WriterStep ==
    ASSUME OneWriter, UartInv, RoomInv, NEW t \in Task, Writer(t),
           \A u \in Task : u # t => pc'[u] = pc[u],
           pc'[t] \in {"room", "write", "clear"} => busy',
           pc'[t] \in {"flag", "room", "write", "clear"} => DmaOver',
           pc'[t] = "write" => Len(fifo') < FifoDepth
    PROVE  RoomInv'
  <1>1. \A u \in Task : u # t => pc[u] \notin OwnSteps \cup {"clear"}
    BY DEF OneWriter, RoomInv, WriterOnly
  <1>2. \A u \in Task : u # t => pc'[u] \notin OwnSteps \cup {"clear"}
    BY <1>1
  <1>3. WriterOnly'
    <2> SUFFICES ASSUME NEW u \in Task
                 PROVE  /\ pc'[u] \in OwnSteps \cup {"clear"} => Writer(u)
                        /\ pc'[u] \in {"room", "write", "clear"} => busy'
                        /\ pc'[u] \in {"flag", "room", "write", "clear"} => DmaOver'
      BY DEF WriterOnly, Writer
    <2>1. CASE u = t
      BY <2>1
    <2>2. CASE u # t
      BY <2>2, <1>2 DEF OwnSteps
    <2> QED
      BY <2>1, <2>2
  <1>4. RoomStays'
    BY <1>2 DEF RoomStays, OwnSteps
  <1> QED
    BY <1>3, <1>4 DEF RoomInv

LEMMA InitRoom == Init => RoomInv
  <1> SUFFICES ASSUME Init PROVE RoomInv
    OBVIOUS
  <1>1. \A t \in Task : pc[t] = "idle"
    BY DEF Init
  <1> QED
    BY <1>1 DEF RoomInv, WriterOnly, RoomStays, OwnSteps



LEMMA StepKeepsRoom ==
    ASSUME OneWriter
    PROVE  UartInv /\ DrainInv /\ RoomInv /\ [Next]_vars => RoomInv'
  <1> SUFFICES ASSUME UartInv, DrainInv, RoomInv, [Next]_vars PROVE RoomInv'
    OBVIOUS
  <1>1. TypeOK /\ WriterOnly /\ RoomStays
    BY DEF UartInv, RoomInv
  <1>2. CASE UNCHANGED vars
    BY <1>1, <1>2 DEF RoomInv, WriterOnly, RoomStays, DmaOver, vars
  <1>3. ASSUME UNCHANGED <<dma, stuck, busy>>, busy => fifo' = fifo,
               \A u \in Task : pc'[u] \in OwnSteps \cup {"clear"} => pc'[u] = pc[u]
        PROVE  RoomInv'
    <2>1. WriterOnly'
      BY <1>1, <1>3 DEF WriterOnly, DmaOver, Writer, OwnSteps
    <2>2. RoomStays'
      BY <1>1, <1>3 DEF WriterOnly, RoomStays, OwnSteps
    <2> QED
      BY <2>1, <2>2 DEF RoomInv
  <1>4. CASE Tick \/ Echo
    <2>1. UNCHANGED <<fifo, dma, stuck, busy, pc>>
      BY <1>4 DEF Tick, Echo
    <2> QED
      BY <1>3, <2>1
  <1>5. CASE DrainStep
    <2>1. UNCHANGED <<dma, stuck, busy, pc>>
      BY <1>5 DEF DrainStep, DrainLook, DrainAsk, DrainWrite
    <2>2. fifo' = fifo \/ drain = "write"
      BY <1>5 DEF DrainStep, DrainLook, DrainAsk, DrainWrite
    <2>3. busy => fifo' = fifo
      BY <2>2 DEF DrainInv, DrainStops
    <2> QED
      BY <1>3, <2>1, <2>3
  <1>6. ASSUME NEW t \in Task, Bounded(t) PROVE RoomInv'
    <2>1. /\ UNCHANGED <<fifo, dma, stuck, busy>>
          /\ pc' = [pc EXCEPT ![t] = IF left[t] = 1 THEN "return" ELSE "ring"]
      BY <1>6 DEF Bounded, Goes
    <2>2. \A u \in Task : pc'[u] \in OwnSteps \cup {"clear"} => pc'[u] = pc[u]
      BY <1>1, <2>1 DEF TypeOK, OwnSteps
    <2> QED
      BY <1>3, <2>1, <2>2
  <1>7. CASE Shift
    <2>1. fifo # <<>> /\ fifo' = Tail(fifo) /\ UNCHANGED <<dma, stuck, busy, pc>>
      BY <1>7 DEF Shift
    <2>2. fifo \in Seq(Word)
      BY <1>1 DEF TypeOK
    <2>3. Len(fifo') = Len(fifo) - 1 /\ Len(fifo) \in Nat
      BY <2>1, <2>2
    <2> QED
      BY <1>1, <2>1, <2>3, UartAssumption DEF RoomInv, WriterOnly, RoomStays, DmaOver
  <1>8. CASE Beat
    <2>1. ~DmaOver /\ UNCHANGED <<stuck, busy, pc>>
      BY <1>8 DEF Beat, DmaOver
    <2>2. \A u \in Task : pc[u] \notin {"flag", "room", "write", "clear"}
      BY <1>1, <2>1 DEF WriterOnly
    <2> QED
      BY <1>1, <2>1, <2>2 DEF RoomInv, WriterOnly, RoomStays
  <1>9. CASE Stick
    <2>1. stuck' = TRUE /\ UNCHANGED <<fifo, dma, busy, pc>>
      BY <1>9 DEF Stick
    <2> QED
      BY <1>1, <2>1 DEF RoomInv, WriterOnly, RoomStays, DmaOver
  <1>10. ASSUME NEW t \in Task, Begin(t) PROVE RoomInv'
    <2>1. UNCHANGED <<fifo, dma, stuck, busy>>
      BY <1>10 DEF Begin
    <2>2. PICK n \in Lengths :
             \/ "puts" \in Uses[t] /\ \E broken \in BOOLEAN : BeginPuts(t, n, broken)
             \/ "bounded" \in Uses[t] /\ BeginBounded(t, n)
             \/ "hex" \in Uses[t] /\ BeginHex(t, n)
      BY <1>10 DEF Begin
    <2>3. CASE BeginBounded(t, n)
      <3>1. pc' = [pc EXCEPT ![t] = "ring"]
        BY <2>3 DEF BeginBounded, Goes
      <3>2. \A u \in Task : pc'[u] \in OwnSteps \cup {"clear"} => pc'[u] = pc[u]
        BY <1>1, <3>1 DEF TypeOK, OwnSteps
      <3> QED
        BY <1>3, <2>1, <3>2
    <2>4. CASE ~BeginBounded(t, n)
      <3>1. Writer(t)
        BY <2>2, <2>4 DEF Writer
      <3>2. PICK way \in {"dma", "putc"} : pc' = [pc EXCEPT ![t] = way]
        BY <2>2, <2>4 DEF BeginPuts, BeginHex, Piece, Goes, PutsWay
      <3>3. pc'[t] = way /\ \A u \in Task : u # t => pc'[u] = pc[u]
        BY <1>1, <3>2 DEF TypeOK
      <3> QED
        BY <3>1, <3>3, WriterStep
    <2> QED
      BY <2>3, <2>4
  <1>11. ASSUME NEW t \in Task, Return(t) PROVE RoomInv'
    <2>1. pc' = [pc EXCEPT ![t] = "idle"] /\ UNCHANGED <<fifo, dma, stuck, busy>>
      BY <1>11 DEF Return, Goes
    <2>2. \A u \in Task : pc'[u] \in OwnSteps \cup {"clear"} => pc'[u] = pc[u]
      BY <1>1, <2>1 DEF TypeOK, OwnSteps
    <2> QED
      BY <1>3, <2>1, <2>2
  <1>12. ASSUME NEW t \in Task,
                Fill(t) \/ StartDma(t) \/ PutcWait(t) \/ SetBusy(t) \/ Room(t)
                \/ Write(t) \/ ClearBusy(t)
         PROVE  RoomInv'
    <2>1. pc[t] \in OwnSteps \cup {"clear"}
      BY <1>12 DEF Fill, StartDma, PutcWait, SetBusy, Room, Write, ClearBusy, At, OwnSteps
    <2>2. Writer(t)
      BY <1>1, <2>1 DEF WriterOnly
    <2>3. \A u \in Task : u # t => pc'[u] = pc[u]
      BY <1>1, <1>12 DEF Fill, StartDma, PutcWait, SetBusy, Room, Write, ClearBusy, Goes,
                         Piece, TypeOK
    <2>4. CASE Fill(t) \/ StartDma(t)
      <3>1. pc'[t] \in {"start", "putc", "return"}
        BY <1>1, <2>4 DEF Fill, StartDma, Goes, TypeOK
      <3> QED
        BY <2>2, <2>3, <3>1, WriterStep
    <2>5. CASE PutcWait(t)
      <3>1. pc'[t] = "flag" /\ DmaOver'
        BY <1>1, <2>5 DEF PutcWait, Goes, TypeOK, DmaOver
      <3> QED
        BY <2>2, <2>3, <3>1, WriterStep
    <2>6. CASE SetBusy(t)
      <3>1. pc[t] = "flag" /\ pc'[t] = "room" /\ busy' /\ UNCHANGED <<dma, stuck>>
        BY <1>1, <2>6 DEF SetBusy, At, Goes, TypeOK
      <3>2. DmaOver'
        BY <1>1, <3>1 DEF WriterOnly, DmaOver
      <3> QED
        BY <2>2, <2>3, <3>1, <3>2, WriterStep
    <2>7. CASE Room(t)
      <3>1. /\ pc[t] = "room" /\ pc'[t] = "write" /\ UNCHANGED <<fifo, busy, dma, stuck>>
            /\ Len(fifo) < FifoDepth
        BY <1>1, <2>7 DEF Room, At, Goes, TypeOK
      <3>2. DmaOver' /\ busy'
        BY <1>1, <3>1 DEF WriterOnly, DmaOver
      <3> QED
        BY <2>2, <2>3, <3>1, <3>2, WriterStep
    <2>8. CASE Write(t)
      <3>1. pc[t] = "write" /\ pc'[t] \in {"clear", "room"} /\ UNCHANGED <<busy, dma, stuck>>
        BY <1>1, <2>8 DEF Write, At, Goes, TypeOK
      <3>2. DmaOver' /\ busy'
        BY <1>1, <3>1 DEF WriterOnly, DmaOver
      <3> QED
        BY <2>2, <2>3, <3>1, <3>2, WriterStep
    <2>9. CASE ClearBusy(t)
      <3>1. pc'[t] \in {"putc", "dma", "return"}
        BY <1>1, <2>9 DEF ClearBusy, Goes, Piece, PutsWay, TypeOK
      <3> QED
        BY <2>2, <2>3, <3>1, WriterStep
    <2> QED
      BY <1>12, <2>4, <2>5, <2>6, <2>7, <2>8, <2>9
  <1> QED
    BY <1>2, <1>4, <1>5, <1>6, <1>7, <1>8, <1>9, <1>10, <1>11, <1>12 DEF Next, TaskStep

\* A byte of uart_putc never meets a full FIFO, whatever the interrupts, the
\* other tasks' rings and a stopped engine do between its look at the FIFO and
\* its write, as long as one task only writes itself.
THEOREM WriterFindsRoom ==
    ASSUME OneWriter
    PROVE  Spec => []RoomStays
  <1>1. RoomInv => RoomStays
    BY DEF RoomInv
  <1> QED
    BY <1>1, InitUart, InitDrain, InitRoom, StepKeepsUart, StepKeepsDrain, StepKeepsRoom,
       PTL DEF Spec

LEMMA StepDrainsOut ==
    ASSUME DrainInv, RoomInv, [Next]_vars
    PROVE  [tail' # tail => \A t \in Task : pc[t] \notin {"room", "write", "clear"}]_vars
  <1> SUFFICES ASSUME NEW t \in Task, pc[t] \in {"room", "write", "clear"}, Next
               PROVE  tail' = tail
    BY DEF vars, ring
  <1>1. busy
    BY DEF RoomInv, WriterOnly
  <1>2. CASE Tick \/ Echo
    BY <1>2 DEF Tick, Echo, PushAndDrain
  <1>3. CASE DrainLook \/ DrainAsk
    BY <1>3 DEF DrainLook, DrainAsk
  <1>4. CASE DrainWrite
    BY <1>1, <1>4 DEF DrainWrite, DrainInv, DrainStops
  <1>5. ASSUME NEW u \in Task, Bounded(u) PROVE tail' = tail
    BY <1>5 DEF Bounded, PushAndDrain
  <1>6. CASE Shift \/ Beat \/ Stick
    BY <1>6 DEF Shift, Beat, Stick, ring
  <1>7. ASSUME NEW u \in Task,
               Begin(u) \/ Fill(u) \/ StartDma(u) \/ PutcWait(u) \/ SetBusy(u) \/ Room(u)
               \/ Write(u) \/ ClearBusy(u) \/ Return(u)
        PROVE  tail' = tail
    BY <1>7 DEF Begin, Fill, StartDma, PutcWait, SetBusy, Room, Write, ClearBusy, Return, ring
  <1> QED
    BY <1>2, <1>3, <1>4, <1>5, <1>6, <1>7 DEF Next, TaskStep, DrainStep

\* With one such task the flag does what its comment says: the ring leaves the
\* UART alone while a byte is being written.  MCUartTx names an instance with
\* two that breaks it.
THEOREM FlagKeepsOut ==
    ASSUME OneWriter
    PROVE  Spec => DrainKeepsOut
  <1>1. DrainInv /\ RoomInv /\ [Next]_vars
          => [tail' # tail => \A t \in Task : pc[t] \notin {"room", "write", "clear"}]_vars
    BY StepDrainsOut
  <1> QED
    BY <1>1, InitUart, InitDrain, InitRoom, StepKeepsUart, StepKeepsDrain, StepKeepsRoom,
       PTL DEF Spec, DrainKeepsOut

---------------------------------------------------------------------------
(* Bytes in their order.                                                   *)

\* What one sequence begins another goes on with.
LEMMA OrderGoesOn ==
    ASSUME NEW u \in Seq(Word), NEW v \in Seq(Word), NEW s,
           NEW lo \in Nat, NEW mid \in Nat, NEW hi \in Nat, lo <= mid, mid <= hi, NEW gone,
           InOrder(u, s, lo, mid, gone), InOrder(v, s, mid, hi, gone)
    PROVE  InOrder(u \o v, s, lo, hi, gone)
  <1> DEFINE w == u \o v
             of(x) == {i \in DOMAIN x : x[i][1] = s}
  <1>1. /\ {u[i][2] : i \in of(u)} = (lo + 1 .. mid) \ gone
        /\ \A i, j \in of(u) : i < j => u[i][2] < u[j][2]
        /\ {v[i][2] : i \in of(v)} = (mid + 1 .. hi) \ gone
        /\ \A i, j \in of(v) : i < j => v[i][2] < v[j][2]
    BY DEF InOrder
  <1>2. /\ Len(u) \in Nat /\ Len(v) \in Nat /\ DOMAIN u = 1 .. Len(u) /\ DOMAIN v = 1 .. Len(v)
        /\ DOMAIN w = 1 .. Len(u) + Len(v)
        /\ \A i \in 1 .. Len(u) : w[i] = u[i]
        /\ \A i \in 1 .. Len(v) : w[Len(u) + i] = v[i]
    OBVIOUS
  <1>3. \A i \in DOMAIN w : \/ i \in DOMAIN u
                            \/ i - Len(u) \in DOMAIN v /\ w[i] = v[i - Len(u)]
    <2> TAKE i \in DOMAIN w
    <2>1. CASE i <= Len(u)
      BY <1>2, <2>1
    <2>2. CASE i > Len(u)
      <3>1. i - Len(u) \in 1 .. Len(v) /\ Len(u) + (i - Len(u)) = i
        BY <1>2, <2>2
      <3> QED
        BY <1>2, <3>1
    <2> QED
      BY <1>2, <2>1, <2>2
  <1> HIDE DEF w
  <1>4. \A i \in of(w) : \/ i \in of(u) /\ w[i] = u[i]
                         \/ i > Len(u) /\ i - Len(u) \in of(v) /\ w[i] = v[i - Len(u)]
    BY <1>2, <1>3
  <1>5. \A i \in of(u) : i \in of(w) /\ w[i] = u[i]
    BY <1>2
  <1>6. \A i \in of(v) : Len(u) + i \in of(w) /\ w[Len(u) + i] = v[i]
    BY <1>2
  <1>7. {w[i][2] : i \in of(w)} = (lo + 1 .. hi) \ gone
    <2> DEFINE first == (lo + 1 .. mid) \ gone
               rest == (mid + 1 .. hi) \ gone
    <2>1. \A i \in of(w) : w[i][2] \in first \/ w[i][2] \in rest
      <3> HIDE DEF first, rest
      <3>1. \A i \in of(u) : u[i][2] \in first
        BY <1>1 DEF first
      <3>2. \A i \in of(v) : v[i][2] \in rest
        BY <1>1 DEF rest
      <3> QED
        BY <1>4, <3>1, <3>2
    <2>2. \A n \in first : \E i \in of(w) : w[i][2] = n
      <3>1. \A n \in first : \E i \in of(u) : u[i][2] = n
        BY <1>1
      <3> QED
        BY <1>5, <3>1
    <2>3. \A n \in rest : \E i \in of(w) : w[i][2] = n
      <3>1. \A n \in rest : \E i \in of(v) : v[i][2] = n
        BY <1>1
      <3> SUFFICES ASSUME NEW n \in rest PROVE \E i \in of(w) : w[i][2] = n
        OBVIOUS
      <3>2. PICK i \in of(v) : v[i][2] = n
        BY <3>1
      <3> HIDE DEF rest, of
      <3>3. Len(u) + i \in of(w) /\ w[Len(u) + i][2] = n
        BY <1>6, <3>2
      <3> QED
        BY <3>3
    <2>4. \A n : n \in (lo + 1 .. hi) \ gone <=> (n \in first \/ n \in rest)
      OBVIOUS
    <2> HIDE DEF of, first, rest
    <2> QED
      BY <2>1, <2>2, <2>3, <2>4
  <1>8. ASSUME NEW i \in of(w), NEW j \in of(w), i < j PROVE w[i][2] < w[j][2]
    <2>1. i \in Nat /\ j \in Nat
      BY <1>2
    <2>2. CASE i \in of(u) /\ w[i] = u[i] /\ j \in of(u) /\ w[j] = u[j]
      BY <1>1, <1>8, <2>2
    <2>3. CASE /\ i > Len(u) /\ i - Len(u) \in of(v) /\ w[i] = v[i - Len(u)]
               /\ j > Len(u) /\ j - Len(u) \in of(v) /\ w[j] = v[j - Len(u)]
      <3>1. i - Len(u) < j - Len(u)
        BY <1>2, <1>8, <2>1
      <3> QED
        BY <1>1, <2>3, <3>1
    <2>4. CASE i \in of(u) /\ w[i] = u[i] /\ j - Len(u) \in of(v) /\ w[j] = v[j - Len(u)]
      <3>1. w[i][2] \in lo + 1 .. mid /\ w[j][2] \in mid + 1 .. hi
        <4>1. u[i][2] \in (lo + 1 .. mid) \ gone /\ v[j - Len(u)][2] \in (mid + 1 .. hi) \ gone
          BY <1>1, <2>4
        <4> QED
          BY <2>4, <4>1
      <3> QED
        BY <3>1
    <2>5. CASE i > Len(u) /\ j \in of(u)
      BY <1>2, <1>8, <2>1, <2>5
    <2> QED
      BY <1>4, <2>2, <2>3, <2>4, <2>5
  <1> QED
    BY <1>7, <1>8 DEF InOrder, w

\* A run of bytes of s, none of which is gone.
LEMMA OrderOfRun ==
    ASSUME NEW s, NEW lo \in Nat, NEW hi \in Nat, lo <= hi,
           NEW gone, \A n \in lo + 1 .. hi : n \notin gone,
           NEW w \in Seq(Word), Len(w) = hi - lo,
           \A k \in 1 .. hi - lo : w[k] = <<s, lo + k>>
    PROVE  InOrder(w, s, lo, hi, gone)
  <1> DEFINE own == {i \in DOMAIN w : w[i][1] = s}
  <1>1. DOMAIN w = 1 .. hi - lo
    OBVIOUS
  <1>2. own = 1 .. hi - lo /\ \A k \in own : w[k][2] = lo + k
    BY <1>1
  <1> HIDE DEF own
  <1>3. {w[k][2] : k \in own} = (lo + 1 .. hi) \ gone
    <2>1. \A k \in own : w[k][2] \in lo + 1 .. hi
      BY <1>2
    <2>2. \A n \in lo + 1 .. hi : n - lo \in own /\ w[n - lo][2] = n
      BY <1>2
    <2>3. (lo + 1 .. hi) \ gone = lo + 1 .. hi
      OBVIOUS
    <2> QED
      BY <2>1, <2>2, <2>3
  <1>4. \A i, j \in own : i < j => w[i][2] < w[j][2]
    BY <1>2
  <1> QED
    BY <1>3, <1>4 DEF InOrder, own

\* No byte of s.
LEMMA OrderOfNone ==
    ASSUME NEW s, NEW n \in Nat, NEW gone, NEW w, \A k \in DOMAIN w : w[k][1] # s
    PROVE  InOrder(w, s, n, n, gone)
  <1> DEFINE own == {i \in DOMAIN w : w[i][1] = s}
  <1>1. own = {}
    OBVIOUS
  <1>2. (n + 1 .. n) \ gone = {}
    OBVIOUS
  <1> QED
    BY <1>1, <1>2 DEF InOrder

\* The first byte leaves.
LEMMA OrderOfTail ==
    ASSUME NEW w \in Seq(Word), w # <<>>, NEW s, NEW lo \in Nat, NEW hi \in Nat, lo <= hi,
           NEW gone, InOrder(w, s, lo, hi, gone)
    PROVE  /\ Head(w)[1] = s =>
                 Head(w)[2] \in lo + 1 .. hi /\ InOrder(Tail(w), s, Head(w)[2], hi, gone)
           /\ Head(w)[1] # s => InOrder(Tail(w), s, lo, hi, gone)
  <1> DEFINE x == Tail(w)
             of(y) == {i \in DOMAIN y : y[i][1] = s}
             n == Head(w)[2]
  <1>1. /\ {w[i][2] : i \in of(w)} = (lo + 1 .. hi) \ gone
        /\ \A i, j \in of(w) : i < j => w[i][2] < w[j][2]
    BY DEF InOrder
  <1>2. /\ Len(w) \in Nat /\ Len(w) >= 1 /\ DOMAIN w = 1 .. Len(w)
        /\ DOMAIN x = 1 .. Len(w) - 1 /\ Head(w) = w[1]
        /\ \A i \in 1 .. Len(w) - 1 : x[i] = w[i + 1]
    OBVIOUS
  <1> HIDE DEF x
  <1>3. \A i \in of(x) : i + 1 \in of(w) /\ x[i] = w[i + 1] /\ i \in Nat /\ i >= 1
    BY <1>2
  <1>4. \A i \in of(w) : i # 1 => i - 1 \in of(x) /\ x[i - 1] = w[i]
    <2> TAKE i \in of(w)
    <2> HAVE i # 1
    <2>1. i - 1 \in 1 .. Len(w) - 1 /\ (i - 1) + 1 = i
      BY <1>2
    <2> QED
      BY <1>2, <2>1
  <1>5. \A i, j \in of(x) : i < j => x[i][2] < x[j][2]
    BY <1>1, <1>3
  <1>6. CASE Head(w)[1] # s
    <2>1. 1 \notin of(w)
      BY <1>2, <1>6
    <2>2. {x[i][2] : i \in of(x)} = {w[i][2] : i \in of(w)}
      <3>1. \A i \in of(x) : \E j \in of(w) : x[i][2] = w[j][2]
        BY <1>3
      <3>2. \A i \in of(w) : \E j \in of(x) : w[i][2] = x[j][2]
        BY <1>4, <2>1
      <3> HIDE DEF of
      <3> QED
        BY <3>1, <3>2
    <2> QED
      BY <1>1, <1>5, <1>6, <2>2 DEF InOrder, x
  <1>7. CASE Head(w)[1] = s
    <2>1. 1 \in of(w)
      BY <1>2, <1>7
    <2>2. w[1][2] = n /\ n \in (lo + 1 .. hi) \ gone
      BY <1>1, <1>2, <2>1
    <2> HIDE DEF n
    <2>3. n \in Nat /\ lo + 1 <= n
      BY <2>2
    <2>4. \A i \in of(x) : x[i][2] \in (n + 1 .. hi) \ gone
      <3> TAKE i \in of(x)
      <3>1. i + 1 \in of(w) /\ x[i] = w[i + 1] /\ 1 < i + 1
        BY <1>3
      <3>2. n < w[i + 1][2] /\ w[i + 1][2] \in (lo + 1 .. hi) \ gone
        BY <1>1, <2>1, <2>2, <3>1
      <3> QED
        BY <2>3, <3>1, <3>2
    <2>5. \A k \in (n + 1 .. hi) \ gone : \E i \in of(x) : x[i][2] = k
      <3> TAKE k \in (n + 1 .. hi) \ gone
      <3>1. k \in (lo + 1 .. hi) \ gone /\ k # n
        BY <2>3
      <3>2. PICK i \in of(w) : w[i][2] = k
        BY <1>1, <3>1
      <3>3. i # 1
        BY <2>2, <3>1, <3>2
      <3> QED
        BY <1>4, <3>2, <3>3
    <2>6. {x[i][2] : i \in of(x)} = (n + 1 .. hi) \ gone
      <3> HIDE DEF of
      <3> QED
        BY <2>4, <2>5
    <2> QED
      BY <1>5, <1>7, <2>2, <2>6 DEF InOrder, x, n
  <1> QED
    BY <1>6, <1>7

---------------------------------------------------------------------------
(* Positions in the ring.                                                  *)

\* A step past either end of the ring comes in again at the other.
LEMMA Around ==
    ASSUME NEW n \in Int
    PROVE  /\ 0 <= n /\ n < RingSlots => n % RingSlots = n
           /\ RingSlots <= n /\ n < RingSlots + RingSlots => n % RingSlots = n - RingSlots
           /\ -RingSlots <= n /\ n < 0 => n % RingSlots = n + RingSlots
  <1> DEFINE q == n \div RingSlots
             r == n % RingSlots
  <1>1. RingSlots \in Nat /\ RingSlots > 0
    BY UartAssumption
  <1>2. q \in Int /\ r \in 0 .. RingSlots - 1 /\ n = RingSlots * q + r
    BY <1>1
  <1> HIDE DEF q, r
  <1>3. q >= 2 => RingSlots * q >= RingSlots + RingSlots
    BY <1>1, <1>2
  <1>4. q <= -2 => RingSlots * q <= -RingSlots - RingSlots
    BY <1>1, <1>2
  <1>5. RingSlots * 0 = 0 /\ RingSlots * 1 = RingSlots /\ RingSlots * (-1) = -RingSlots
    BY <1>1
  <1>6. q >= 2 \/ q <= -2 \/ q = 0 \/ q = 1 \/ q = -1
    BY <1>2
  <1> QED
    BY <1>1, <1>2, <1>3, <1>4, <1>5, <1>6 DEF r

\* How many bytes the ring holds, and where the k-th of them is.
InRing(h, t) == IF h >= t THEN h - t ELSE h - t + RingSlots

Cell(t, k) == IF t + k - 1 < RingSlots THEN t + k - 1 ELSE t + k - 1 - RingSlots

Index == 0 .. RingSlots - 1

LEMMA HeldCells ==
    ASSUME NEW b, NEW h \in Index, NEW t \in Index
    PROVE  /\ InRing(h, t) \in Index /\ (h - t) % RingSlots = InRing(h, t)
           /\ Held(b, h, t) = [k \in 1 .. InRing(h, t) |-> b[Cell(t, k)]]
           /\ \A k \in 1 .. InRing(h, t) : Cell(t, k) \in Index
  <1>1. RingSlots \in Nat /\ RingSlots > 0 /\ h \in Int /\ t \in Int /\ h - t \in Int
    BY UartAssumption DEF Index
  <1>2. InRing(h, t) \in Index
    BY <1>1 DEF InRing, Index
  <1>3. (h - t) % RingSlots = InRing(h, t)
    BY <1>1, Around DEF InRing, Index
  <1>4. \A k \in 1 .. InRing(h, t) :
           (t + k - 1) % RingSlots = Cell(t, k) /\ Cell(t, k) \in Index
    <2> TAKE k \in 1 .. InRing(h, t)
    <2>1. /\ t + k - 1 \in Int /\ 0 <= t + k - 1 /\ t + k - 1 < RingSlots + RingSlots
      BY <1>1, <1>2 DEF Index
    <2>2. (t + k - 1) % RingSlots = Cell(t, k)
      BY <1>1, <2>1, Around DEF Cell
    <2> QED
      BY <1>1, <2>1, <2>2 DEF Cell, Index
  <1> QED
    BY <1>2, <1>3, <1>4 DEF Held

\* After n bytes have left, the rest are where they were.
LEMMA RingAfter ==
    ASSUME NEW h \in Index, NEW t \in Index, NEW n \in Nat, n <= InRing(h, t),
           NEW u, u = (t + n) % RingSlots
    PROVE  /\ u \in Index /\ InRing(h, u) = InRing(h, t) - n
           /\ \A k \in 1 .. InRing(h, u) : Cell(u, k) = Cell(t, n + k)
  <1>1. RingSlots \in Nat /\ RingSlots > 0 /\ h \in Int /\ t \in Int
    BY UartAssumption DEF Index
  <1>2. InRing(h, t) \in Index
    BY <1>1 DEF InRing, Index
  <1>3. u = IF t + n < RingSlots THEN t + n ELSE t + n - RingSlots
    BY <1>1, <1>2, Around DEF Index
  <1>4. u \in Index /\ InRing(h, u) = InRing(h, t) - n
    BY <1>1, <1>2, <1>3 DEF InRing, Index
  <1>5. \A k \in 1 .. InRing(h, u) : Cell(u, k) = Cell(t, n + k)
    BY <1>1, <1>2, <1>3, <1>4 DEF Cell, Index
  <1> QED
    BY <1>4, <1>5

\* A push takes the first free cell.
LEMMA RingBefore ==
    ASSUME NEW h \in Index, NEW t \in Index, Next1(h) # t
    PROVE  /\ Next1(h) \in Index /\ InRing(Next1(h), t) = InRing(h, t) + 1
           /\ \A k \in 1 .. InRing(h, t) : Cell(t, k) # h
           /\ Cell(t, InRing(h, t) + 1) = h
  <1>1. RingSlots \in Nat /\ RingSlots > 0 /\ h \in Int /\ t \in Int
    BY UartAssumption DEF Index
  <1>2. InRing(h, t) \in Index
    BY <1>1 DEF InRing, Index
  <1>3. Next1(h) = IF h + 1 < RingSlots THEN h + 1 ELSE 0
    BY <1>1, Around DEF Next1, Index
  <1>4. Next1(h) \in Index /\ InRing(Next1(h), t) = InRing(h, t) + 1
    BY <1>1, <1>3 DEF InRing, Index
  <1>5. \A k \in 1 .. InRing(h, t) : Cell(t, k) # h
    BY <1>1, <1>2 DEF Cell, InRing, Index
  <1>6. Cell(t, InRing(h, t) + 1) = h
    BY <1>1 DEF Cell, InRing, Index
  <1> QED
    BY <1>4, <1>5, <1>6

\* The bytes in the ring are the last that it was given, up to number g.
RingHolds(b, h, t, g) ==
    \A k \in 1 .. InRing(h, t) : b[Cell(t, k)] = <<"ring", g - InRing(h, t) + k>>

\* Up to byte g the ring's bytes are on the wire, dropped, in the FIFO or in
\* the ring, and none in the ring is dropped.
RingUpTo(f, b, h, t, g) ==
    /\ sent["ring"] + InRing(h, t) <= g
    /\ RingHolds(b, h, t, g)
    /\ InOrder(f, "ring", sent["ring"], g - InRing(h, t), dropped)
    /\ \A n \in dropped : n <= g - InRing(h, t)

---------------------------------------------------------------------------
(* What holds of the bytes of every source at every step.                *)

\* One more byte at the end.
LEMMA OrderOfAppend ==
    ASSUME NEW w \in Seq(Word), NEW c \in Word, NEW s, NEW lo \in Nat, NEW hi \in Nat,
           NEW gone, lo <= hi, InOrder(w, s, lo, hi, gone)
    PROVE  /\ c = <<s, hi + 1>> /\ hi + 1 \notin gone => InOrder(Append(w, c), s, lo, hi + 1, gone)
           /\ c[1] # s => InOrder(Append(w, c), s, lo, hi, gone)
  <1> DEFINE v == <<c>>
  <1>1. Append(w, c) = w \o v /\ v \in Seq(Word) /\ Len(v) = 1 /\ DOMAIN v = 1 .. 1 /\ v[1] = c
    OBVIOUS
  <1> HIDE DEF v
  <1>2. CASE c = <<s, hi + 1>> /\ hi + 1 \notin gone
    <2>1. /\ hi + 1 \in Nat /\ hi <= hi + 1 /\ (hi + 1) - hi = 1
          /\ \A n \in hi + 1 .. hi + 1 : n \notin gone
          /\ \A k \in 1 .. (hi + 1) - hi : v[k] = <<s, hi + k>>
      BY <1>1, <1>2
    <2>2. InOrder(v, s, hi, hi + 1, gone)
      BY <1>1, <1>2, <2>1, OrderOfRun
    <2>3. InOrder(w \o v, s, lo, hi + 1, gone)
      BY <1>1, <2>1, <2>2, OrderGoesOn
    <2>4. c[1] = s
      BY <1>2
    <2> QED
      BY <1>1, <2>3, <2>4
  <1>3. CASE c[1] # s
    <2>1. \A k \in DOMAIN v : v[k][1] # s
      BY <1>1, <1>3
    <2>2. InOrder(v, s, hi, hi, gone)
      BY <2>1, OrderOfNone
    <2>3. InOrder(w \o v, s, lo, hi, gone)
      BY <1>1, <2>2, OrderGoesOn
    <2>4. c # <<s, hi + 1>>
      BY <1>3
    <2> QED
      BY <1>1, <2>3, <2>4
  <1>4. CASE c[1] = s /\ ~(c = <<s, hi + 1>> /\ hi + 1 \notin gone)
    BY <1>4
  <1> QED
    BY <1>2, <1>3, <1>4

\* The next byte is gone.
LEMMA OrderOfDrop ==
    ASSUME NEW w, NEW s, NEW lo \in Nat, NEW hi \in Nat, NEW gone,
           InOrder(w, s, lo, hi, gone)
    PROVE  InOrder(w, s, lo, hi + 1, gone \cup {hi + 1})
  <1>1. (lo + 1 .. hi + 1) \ (gone \cup {hi + 1}) = (lo + 1 .. hi) \ gone
    OBVIOUS
  <1> QED
    BY <1>1 DEF InOrder

RingOrder == RingUpTo(fifo, buf, head, tail, given["ring"])

\* What t has still to write itself, and what a transfer has still to read
\* for it; all other bytes it was given have been in the FIFO.
Pending(t) == IF pc[t] = "ring" THEN 0 ELSE left[t]

InDma(t) == IF dma.active /\ Writer(t) THEN dma.to - dma.from + 1 ELSE 0

Reached(t) == given[t] - Pending(t) - InDma(t)

TaskOrder(t) ==
    /\ sent[t] <= Reached(t)
    /\ InOrder(fifo, t, sent[t], Reached(t), {})
    /\ dma.active /\ Writer(t) =>
          \A k \in 1 .. dma.to - dma.from + 1 :
             scratch[dma.from + k - 1] = <<t, Reached(t) + k>>
    /\ pc[t] = "start" =>
          ~dma.active /\ \A k \in 1 .. left[t] : scratch[k] = Rest(t)[k]

\* What is in the buffer is a writer's.
ScratchOwn == \A k \in DOMAIN scratch : scratch[k][1] \in Task /\ Writer(scratch[k][1])

\* Nothing is left to read or to write where nothing is in progress.
NothingLeft ==
    /\ \A t \in Task : pc[t] \in {"idle", "return"} => left[t] = 0
    /\ dma.active \/ dma = Idle

OrderInv ==
    /\ ScratchOwn /\ NothingLeft
    /\ RingOrder
    /\ ~stuck => \A t \in Task : TaskOrder(t)

\* The ring is left alone, and so are its bytes in the FIFO.
LEMMA RingKept ==
    ASSUME RingOrder, UNCHANGED <<buf, head, tail, dropped>>,
           given'["ring"] = given["ring"], sent'["ring"] = sent["ring"],
           InOrder(fifo, "ring", sent["ring"], given["ring"] - InRing(head, tail), dropped) =>
           InOrder(fifo', "ring", sent["ring"], given["ring"] - InRing(head, tail), dropped)
    PROVE  RingOrder'
  <1>1. InRing(head', tail') = InRing(head, tail)
    OBVIOUS
  <1> QED
    BY <1>1 DEF RingOrder, RingUpTo, RingHolds

\* A byte into the ring.
LEMMA PushHolds ==
    ASSUME NEW f, NEW b \in [Index -> Word], NEW h \in Index, NEW t \in Index, NEW g \in Nat,
           sent["ring"] \in Nat, Next1(h) # t, RingUpTo(f, b, h, t, g),
           NEW c, c = [b EXCEPT ![h] = <<"ring", g + 1>>], NEW j, j = Next1(h)
    PROVE  c \in [Index -> Word] /\ j \in Index /\ RingUpTo(f, c, j, t, g + 1)
  <1> DEFINE m == InRing(h, t)
  <1>1. /\ j \in Index /\ InRing(j, t) = m + 1 /\ Cell(t, m + 1) = h
        /\ \A k \in 1 .. m : Cell(t, k) # h
    BY RingBefore
  <1>2. m \in Nat /\ \A k \in 1 .. m : Cell(t, k) \in Index
    BY HeldCells DEF Index
  <1>3. c \in [Index -> Word]
    BY DEF Word, Source
  <1>4. /\ sent["ring"] + m <= g
        /\ \A k \in 1 .. m : b[Cell(t, k)] = <<"ring", g - m + k>>
        /\ InOrder(f, "ring", sent["ring"], g - m, dropped)
        /\ \A n \in dropped : n <= g - m
    BY DEF RingUpTo, RingHolds
  <1>5. c[h] = <<"ring", g + 1>> /\ \A k \in 1 .. m : c[Cell(t, k)] = b[Cell(t, k)]
    BY <1>1, <1>2
  <1> HIDE DEF m
  <1>6. (g + 1) - (m + 1) = g - m /\ sent["ring"] + (m + 1) <= g + 1
    BY <1>2, <1>4
  <1>7. ASSUME NEW k \in 1 .. m + 1
        PROVE  c[Cell(t, k)] = <<"ring", (g + 1) - (m + 1) + k>>
    <2>1. CASE k \in 1 .. m
      <3>1. c[Cell(t, k)] = <<"ring", g - m + k>>
        BY <1>4, <1>5, <2>1
      <3> QED
        BY <1>6, <3>1
    <2>2. CASE k = m + 1
      <3>1. (g + 1) - (m + 1) + k = g + 1
        BY <1>2, <2>2
      <3>2. c[Cell(t, k)] = <<"ring", g + 1>>
        BY <1>1, <1>5, <2>2
      <3> QED
        BY <3>1, <3>2
    <2> QED
      BY <1>2, <2>1, <2>2
  <1>8. RingHolds(c, j, t, g + 1)
    BY <1>1, <1>7 DEF RingHolds
  <1>9. /\ InOrder(f, "ring", sent["ring"], (g + 1) - InRing(j, t), dropped)
        /\ \A n \in dropped : n <= (g + 1) - InRing(j, t)
    BY <1>1, <1>4, <1>6
  <1> QED
    BY <1>1, <1>3, <1>6, <1>8, <1>9 DEF RingUpTo

\* The ring after a push.
LEMMA PushInOrder ==
    ASSUME TypeOK, PushAndDrain, RingOrder, UNCHANGED <<fifo, sent, dropped>>
    PROVE  RingOrder'
  <1>1. /\ buf \in [Index -> Word] /\ head \in Index /\ tail \in Index
        /\ given \in [Source -> Nat] /\ given["ring"] \in Nat /\ "ring" \in Source
        /\ sent["ring"] \in Nat
    BY DEF TypeOK, Index, Source
  <1>2. RingUpTo(fifo, buf, head, tail, given["ring"])
    BY DEF RingOrder
  <1>3. RingUpTo(fifo, buf', head', tail, given'["ring"]) /\ tail' = tail
    <2>1. CASE RingFull
      <3>1. buf' = buf /\ head' = head /\ given' = given /\ tail' = tail
        BY <2>1 DEF PushAndDrain
      <3> QED
        BY <1>2, <3>1
    <2>2. CASE ~RingFull
      <3>1. /\ tail' = tail /\ head' = Next1(head)
            /\ buf' = [buf EXCEPT ![head] = <<"ring", given["ring"] + 1>>]
            /\ given' = [given EXCEPT !["ring"] = @ + 1]
        BY <2>2 DEF PushAndDrain
      <3>2. given'["ring"] = given["ring"] + 1
        BY <1>1, <3>1
      <3>3. RingUpTo(fifo, buf', head', tail, given["ring"] + 1)
        BY <1>1, <1>2, <2>2, <3>1, PushHolds DEF RingFull
      <3> QED
        BY <3>1, <3>2, <3>3
    <2> QED
      BY <2>1, <2>2
  <1> QED
    BY <1>3 DEF RingOrder, RingUpTo, RingHolds

\* A byte out of the ring: into the FIFO, or dropped.
LEMMA DrainInOrder ==
    ASSUME UartInv, DrainInv, RingOrder, DrainStep
    PROVE  /\ RingOrder'
           /\ \A t \in Task, lo, hi \in Nat :
                 lo <= hi /\ InOrder(fifo, t, lo, hi, {}) => InOrder(fifo', t, lo, hi, {})
  <1>1. UNCHANGED <<buf, head, given, sent>>
    BY DEF DrainStep, DrainLook, DrainAsk, DrainWrite, wire
  <1>2. CASE DrainLook \/ DrainAsk
    <2>1. UNCHANGED <<fifo, tail, dropped>>
      BY <1>2 DEF DrainLook, DrainAsk, wire
    <2>2. RingOrder'
      BY <1>1, <2>1 DEF RingOrder, RingUpTo, RingHolds
    <2> QED
      BY <2>1, <2>2
  <1>3. CASE DrainWrite
    <2> DEFINE g == given["ring"]
               m == InRing(head, tail)
               lo0 == sent["ring"]
    <2>1. /\ fifo \in Seq(Word) /\ buf \in [Index -> Word] /\ head \in Index /\ tail \in Index
          /\ g \in Nat /\ lo0 \in Nat /\ RingSlots \in Nat /\ RingSlots > 0
      BY UartAssumption DEF UartInv, TypeOK, Index, Source
    <2>2. head # tail /\ tail' = (tail + 1) % RingSlots
      BY <1>3 DEF DrainInv, DrainWrite, Next1
    <2>3. m \in Nat /\ m >= 1 /\ Cell(tail, 1) = tail
      <3>1. m \in Int /\ m >= 1
        BY <2>1, <2>2 DEF InRing, Index
      <3>2. Cell(tail, 1) = tail
        BY <2>1 DEF Cell, Index
      <3> QED
        BY <3>1, <3>2
    <2>4. /\ tail' \in Index /\ InRing(head, tail') = m - 1
          /\ \A k \in 1 .. m - 1 : Cell(tail', k) = Cell(tail, 1 + k)
      <3>1. 1 \in Nat /\ 1 <= InRing(head, tail)
        BY <2>3
      <3> QED
        BY <2>1, <2>2, <3>1, RingAfter
    <2>5. /\ lo0 + m <= g
          /\ \A k \in 1 .. m : buf[Cell(tail, k)] = <<"ring", g - m + k>>
          /\ InOrder(fifo, "ring", lo0, g - m, dropped)
          /\ \A n \in dropped : n <= g - m
      BY DEF RingOrder, RingUpTo, RingHolds
    <2> HIDE DEF g, m, lo0
    <2>6. /\ g - m \in Nat /\ lo0 <= g - m /\ g - (m - 1) = g - m + 1
          /\ lo0 + (m - 1) <= g
      BY <2>1, <2>3, <2>5
    <2>7. buf[tail] = <<"ring", g - m + 1>> /\ buf[tail] \in Word
      BY <2>1, <2>3, <2>5
    <2>8. /\ InOrder(fifo', "ring", lo0, g - m + 1, dropped')
          /\ \A n \in dropped' : n <= g - m + 1
      <3>1. CASE Len(fifo) < FifoDepth
        <4>1. fifo' = Append(fifo, buf[tail]) /\ dropped' = dropped
          BY <1>3, <3>1 DEF DrainWrite
        <4>2. g - m + 1 \notin dropped
          BY <2>5, <2>6
        <4>3. InOrder(Append(fifo, buf[tail]), "ring", lo0, g - m + 1, dropped)
          BY <2>1, <2>5, <2>6, <2>7, <4>2, OrderOfAppend
        <4>4. \A n \in dropped : n <= g - m + 1
          <5>1. \A n \in dropped : n \in Nat
            BY DEF UartInv, TypeOK
          <5> QED
            BY <2>5, <2>6, <5>1
        <4> QED
          BY <4>1, <4>3, <4>4
      <3>2. CASE ~(Len(fifo) < FifoDepth)
        <4>1. fifo' = fifo /\ dropped' = dropped \cup {g - m + 1}
          BY <1>3, <2>7, <3>2 DEF DrainWrite
        <4>2. InOrder(fifo, "ring", lo0, g - m + 1, dropped \cup {g - m + 1})
          BY <2>1, <2>5, <2>6, OrderOfDrop
        <4>3. \A n \in dropped : n <= g - m + 1
          <5>1. \A n \in dropped : n \in Nat
            BY DEF UartInv, TypeOK
          <5> QED
            BY <2>5, <2>6, <5>1
        <4> QED
          BY <2>6, <4>1, <4>2, <4>3
      <3> QED
        BY <3>1, <3>2
    <2>9. RingHolds(buf, head, tail', g)
      <3> SUFFICES ASSUME NEW k \in 1 .. m - 1
                   PROVE  buf[Cell(tail', k)] = <<"ring", g - (m - 1) + k>>
        BY <2>4 DEF RingHolds
      <3>1. 1 + k \in 1 .. m /\ g - m + (1 + k) = g - (m - 1) + k
        BY <2>1, <2>3
      <3>2. buf[Cell(tail, 1 + k)] = <<"ring", g - m + (1 + k)>>
        BY <2>5, <3>1
      <3> QED
        BY <2>4, <3>1, <3>2
    <2>10. RingOrder'
      <3>1. g' = g /\ lo0' = lo0 /\ InRing(head', tail') = m - 1
        BY <1>1, <2>4 DEF g, lo0
      <3>2. RingHolds(buf', head', tail', g')
        BY <1>1, <2>9, <3>1
      <3>3. /\ lo0' + InRing(head', tail') <= g'
            /\ InOrder(fifo', "ring", lo0', g' - InRing(head', tail'), dropped')
            /\ \A n \in dropped' : n <= g' - InRing(head', tail')
        BY <2>6, <2>8, <3>1
      <3> QED
        BY <3>2, <3>3 DEF RingOrder, RingUpTo, RingHolds, g, lo0
    <2>11. ASSUME NEW t \in Task, NEW lo \in Nat, NEW hi \in Nat, lo <= hi,
                  InOrder(fifo, t, lo, hi, {})
           PROVE  InOrder(fifo', t, lo, hi, {})
      <3>1. buf[tail][1] # t
        BY <2>7, UartAssumption
      <3>2. fifo' = fifo \/ fifo' = Append(fifo, buf[tail])
        BY <1>3 DEF DrainWrite
      <3> QED
        BY <2>1, <2>7, <2>11, <3>1, <3>2, OrderOfAppend
    <2> QED
      BY <2>10, <2>11
  <1> QED
    BY <1>2, <1>3 DEF DrainStep

\* What t has reached is a number.
LEMMA ReachedNumber ==
    ASSUME UartInv, NEW t \in Task
    PROVE  /\ given[t] \in Nat /\ sent[t] \in Nat /\ left[t] \in Nat /\ Pending(t) \in Nat
           /\ InDma(t) \in Nat /\ Reached(t) \in Int
           /\ TaskOrder(t) => Reached(t) \in Nat
  <1>1. /\ given[t] \in Nat /\ sent[t] \in Nat /\ left[t] \in Nat
        /\ dma.to \in Nat /\ dma.from \in Nat
        /\ dma.active => dma.from <= dma.to
    BY DEF UartInv, TypeOK, Filled, Source
  <1>2. Pending(t) \in Nat /\ InDma(t) \in Nat
    BY <1>1 DEF Pending, InDma
  <1> QED
    BY <1>1, <1>2 DEF Reached, TaskOrder

\* A step in which t comes no nearer to the wire.
LEMMA TaskKept ==
    ASSUME UartInv, NEW t \in Task, TaskOrder(t), UNCHANGED <<dma, scratch>>,
           sent'[t] = sent[t], given'[t] - Pending(t)' = given[t] - Pending(t),
           \A lo, hi \in Nat :
              lo <= hi /\ InOrder(fifo, t, lo, hi, {}) => InOrder(fifo', t, lo, hi, {}),
           pc'[t] = "start" =>
              pc[t] = "start" /\ left'[t] = left[t] /\ given'[t] = given[t]
    PROVE  TaskOrder(t)'
  <1>1. InDma(t)' = InDma(t)
    BY DEF InDma, Writer
  <1>2. Reached(t)' = Reached(t)
    BY <1>1 DEF Reached
  <1>3. sent[t] \in Nat /\ Reached(t) \in Nat /\ sent[t] <= Reached(t)
    BY ReachedNumber DEF TaskOrder
  <1>4. InOrder(fifo', t, sent[t], Reached(t), {})
    BY <1>3 DEF TaskOrder
  <1>5. pc'[t] = "start" => Rest(t)' = Rest(t)
    BY DEF Rest
  <1> QED
    BY <1>2, <1>3, <1>4, <1>5 DEF TaskOrder, Writer

\* Nothing is on its way at first.
LEMMA InitOrder == Init => OrderInv
  <1> SUFFICES ASSUME Init PROVE OrderInv
    OBVIOUS
  <1>1. /\ fifo = <<>> /\ scratch = <<>> /\ dma = Idle /\ head = 0 /\ tail = 0
        /\ \A s \in Source : given[s] = 0 /\ sent[s] = 0
        /\ \A t \in Task : pc[t] = "idle" /\ left[t] = 0
        /\ "ring" \in Source /\ Task \subseteq Source /\ dropped = {}
    BY DEF Init, Source
  <1>2. ScratchOwn /\ NothingLeft
    BY <1>1 DEF ScratchOwn, NothingLeft
  <1>3. \A s : InOrder(fifo, s, 0, 0, {})
    BY <1>1, OrderOfNone
  <1>4. RingOrder
    <2>1. InRing(head, tail) = 0
      BY <1>1 DEF InRing
    <2> QED
      BY <1>1, <1>3, <2>1 DEF RingOrder, RingUpTo, RingHolds
  <1>5. ASSUME NEW t \in Task PROVE TaskOrder(t)
    <2>1. Reached(t) = 0 /\ ~dma.active
      BY <1>1 DEF Reached, Pending, InDma, Idle
    <2> QED
      BY <1>1, <1>3, <2>1 DEF TaskOrder
  <1> QED
    BY <1>2, <1>4, <1>5 DEF OrderInv

\* A step that moves nothing towards the wire.
LEMMA NothingMoves ==
    ASSUME UartInv, OrderInv, UNCHANGED <<fifo, dma, scratch, buf, head, tail, sent, dropped>>,
           given'["ring"] = given["ring"], ~stuck' => ~stuck, NothingLeft',
           \A t \in Task :
              /\ given'[t] - Pending(t)' = given[t] - Pending(t)
              /\ pc'[t] = "start" =>
                    pc[t] = "start" /\ left'[t] = left[t] /\ given'[t] = given[t]
    PROVE  OrderInv'
  <1>1. ScratchOwn' /\ RingOrder'
    BY RingKept DEF OrderInv, ScratchOwn, Writer
  <1>2. ~stuck' => \A t \in Task : TaskOrder(t)'
    BY TaskKept DEF OrderInv
  <1> QED
    BY <1>1, <1>2 DEF OrderInv

\* The interrupts, a byte printed through the ring, and the drain's steps.
LEMMA InterruptInOrder ==
    ASSUME UartInv, DrainInv, OrderInv,
           Tick \/ Echo \/ DrainStep \/ \E t \in Task : Bounded(t)
    PROVE  OrderInv'
  <1>1. TypeOK /\ Something /\ ScratchOwn /\ NothingLeft /\ RingOrder
    BY DEF UartInv, OrderInv
  <1>2. UNCHANGED <<dma, scratch, stuck, sent>>
    BY DEF Tick, Echo, Bounded, DrainStep, DrainLook, DrainAsk, DrainWrite, wire
  <1>3. /\ RingOrder'
        /\ \A t \in Task, lo, hi \in Nat :
              lo <= hi /\ InOrder(fifo, t, lo, hi, {}) => InOrder(fifo', t, lo, hi, {})
        /\ \A t \in Task : given'[t] = given[t]
    <2>1. CASE Tick
      <3>1. UNCHANGED <<fifo, buf, head, tail, given, sent, dropped>>
        BY <2>1 DEF Tick, wire
      <3> QED
        BY <1>1, <3>1, RingKept
    <2>2. CASE DrainStep
      <3>1. given' = given
        BY <2>2 DEF DrainStep, DrainLook, DrainAsk, DrainWrite
      <3> QED
        BY <1>1, <2>2, <3>1, DrainInOrder
    <2>3. CASE PushAndDrain /\ UNCHANGED <<fifo, sent, dropped>>
      BY <1>1, <2>3, PushInOrder, PushFits
    <2> QED
      BY <2>1, <2>2, <2>3 DEF Echo, Bounded, wire
  <1>4. /\ \A t \in Task : Pending(t)' = Pending(t)
        /\ \A t \in Task : pc'[t] = "start" => pc[t] = "start" /\ left'[t] = left[t]
        /\ \A t \in Task : pc'[t] \in {"idle", "return"} => left'[t] = 0
    <2>1. CASE UNCHANGED <<pc, left>>
      BY <1>1, <2>1 DEF Pending, NothingLeft
    <2>2. ASSUME NEW u \in Task, Bounded(u)
          PROVE  /\ \A t \in Task : Pending(t)' = Pending(t)
                 /\ \A t \in Task : pc'[t] = "start" => pc[t] = "start" /\ left'[t] = left[t]
                 /\ \A t \in Task : pc'[t] \in {"idle", "return"} => left'[t] = 0
      <3>1. /\ pc[u] = "ring" /\ left' = [left EXCEPT ![u] = @ - 1]
            /\ pc' = [pc EXCEPT ![u] = IF left[u] = 1 THEN "return" ELSE "ring"]
        BY <2>2 DEF Bounded, At, Goes
      <3>2. left[u] \in Nat /\ left[u] >= 1
        BY <1>1, <3>1 DEF TypeOK, Something
      <3>3. \A t \in Task : t # u => pc'[t] = pc[t] /\ left'[t] = left[t]
        BY <1>1, <3>1 DEF TypeOK
      <3>4. \/ pc'[u] = "return" /\ left'[u] = 0
            \/ pc'[u] = "ring"
        BY <1>1, <3>1, <3>2 DEF TypeOK
      <3> QED
        BY <1>1, <3>1, <3>3, <3>4 DEF Pending, NothingLeft
    <2> QED
      BY <2>1, <2>2 DEF Tick, Echo, DrainStep, DrainLook, DrainAsk, DrainWrite
  <1>5. ScratchOwn' /\ NothingLeft'
    BY <1>1, <1>2, <1>4 DEF ScratchOwn, NothingLeft, Writer
  <1>6. ASSUME ~stuck, NEW t \in Task PROVE TaskOrder(t)'
    BY <1>2, <1>3, <1>4, <1>6, TaskKept DEF OrderInv
  <1> QED
    BY <1>2, <1>3, <1>5, <1>6 DEF OrderInv

\* What moves between the steps of a task: the next piece, the steps of
\* uart_putc that write nothing.
LEMMA StillInOrder ==
    ASSUME UartInv, OrderInv, NEW t \in Task,
           Begin(t) \/ PutcWait(t) \/ SetBusy(t) \/ Room(t) \/ ClearBusy(t) \/ Return(t)
    PROVE  OrderInv'
  <1>1. TypeOK /\ NothingLeft /\ t # "ring" /\ t \in Source /\ "ring" \in Source
    BY UartAssumption DEF UartInv, OrderInv, Source
  <1>2. UNCHANGED <<fifo, dma, scratch, stuck, buf, head, tail, sent, dropped>>
    BY DEF Begin, PutcWait, SetBusy, Room, ClearBusy, Return, ring, wire
  <1>3. left[t] \in Nat /\ given[t] \in Nat /\ body[t] \in Nat
    BY <1>1 DEF TypeOK
  <1>4. /\ given'["ring"] = given["ring"]
        /\ \A u \in Task : u # t => pc'[u] = pc[u] /\ left'[u] = left[u] /\ given'[u] = given[u]
    <2>1. /\ \E n \in Nat : left' = [left EXCEPT ![t] = n] \/ left' = left
          /\ \E n \in Nat : given' = [given EXCEPT ![t] = @ + n] \/ given' = given
          /\ \E step \in {"idle", "ring", "dma", "putc", "flag", "room", "write", "return"} :
                pc' = [pc EXCEPT ![t] = step]
      <3>1. CASE Begin(t)
        BY <3>1, UartAssumption DEF Begin, BeginPuts, BeginBounded, BeginHex, Piece, Goes, PutsWay
      <3>2. CASE PutcWait(t) \/ SetBusy(t) \/ Room(t) \/ Return(t)
        BY <3>2 DEF PutcWait, SetBusy, Room, Return, Goes
      <3>3. CASE ClearBusy(t)
        BY <1>3, <3>3 DEF ClearBusy, Piece, Goes, PutsWay
      <3> QED
        BY <3>1, <3>2, <3>3
    <2> QED
      BY <1>1, <2>1 DEF TypeOK, Source
  <1>5. ASSUME NEW n \in Nat, NEW way \in {"dma", "putc"}, Piece(t, n, way),
               left[t] = 0
        PROVE  given'[t] - left'[t] = given[t] - left[t] /\ pc'[t] = way
    BY <1>1, <1>3, <1>5 DEF Piece, Goes, TypeOK
  <1>6. /\ given'[t] - Pending(t)' = given[t] - Pending(t)
        /\ pc'[t] # "start"
        /\ pc'[t] \in {"idle", "return"} => left'[t] = 0
    <2>1. CASE Begin(t)
      <3>1. PICK n \in Lengths :
               \/ \E broken \in BOOLEAN : BeginPuts(t, n, broken)
               \/ BeginBounded(t, n)
               \/ BeginHex(t, n)
        BY <2>1 DEF Begin
      <3>2. n \in Nat /\ pc[t] = "idle" /\ left[t] = 0 /\ Pending(t) = 0
        BY <1>1, <2>1, UartAssumption DEF Begin, At, NothingLeft, Pending
      <3>3. CASE BeginBounded(t, n)
        BY <1>1, <1>3, <3>2, <3>3 DEF BeginBounded, Goes, Pending, TypeOK
      <3>4. CASE ~BeginBounded(t, n)
        <4>1. PICK k \in Nat, way \in {"dma", "putc"} : Piece(t, k, way)
          BY <3>1, <3>2, <3>4 DEF BeginPuts, BeginHex, PutsWay
        <4>2. given'[t] - left'[t] = given[t] - left[t] /\ pc'[t] = way
          BY <1>5, <3>2, <4>1
        <4> QED
          BY <3>2, <4>2 DEF Pending
      <3> QED
        BY <3>3, <3>4
    <2>2. CASE PutcWait(t) \/ SetBusy(t) \/ Room(t) \/ Return(t)
      <3>1. UNCHANGED <<left, given>>
        BY <2>2 DEF PutcWait, SetBusy, Room, Return
      <3>2. \/ pc[t] = "putc" /\ pc'[t] = "flag"
            \/ pc[t] = "flag" /\ pc'[t] = "room"
            \/ pc[t] = "room" /\ pc'[t] = "write"
            \/ pc[t] = "return" /\ pc'[t] = "idle"
        BY <1>1, <2>2 DEF PutcWait, SetBusy, Room, Return, At, Goes, TypeOK
      <3> QED
        BY <1>1, <3>1, <3>2 DEF Pending, NothingLeft
    <2>3. CASE ClearBusy(t)
      <3>1. pc[t] = "clear"
        BY <2>3 DEF ClearBusy, At
      <3>2. CASE left[t] > 0
        <4>1. UNCHANGED <<left, given>> /\ pc'[t] = "putc"
          BY <1>1, <2>3, <3>2 DEF ClearBusy, Goes, TypeOK
        <4> QED
          BY <3>1, <4>1 DEF Pending
      <3>3. CASE left[t] = 0 /\ body[t] > 0
        <4>1. Piece(t, body[t], PutsWay(body[t])) /\ PutsWay(body[t]) \in {"dma", "putc"}
          BY <2>3, <3>3 DEF ClearBusy, PutsWay
        <4>2. given'[t] - left'[t] = given[t] - left[t] /\ pc'[t] \in {"dma", "putc"}
          BY <1>3, <1>5, <3>3, <4>1
        <4> QED
          BY <3>1, <4>2 DEF Pending
      <3>4. CASE left[t] = 0 /\ ~(body[t] > 0)
        <4>1. UNCHANGED <<left, given>> /\ pc'[t] = "return"
          BY <1>1, <2>3, <3>4 DEF ClearBusy, Goes, TypeOK
        <4> QED
          BY <3>1, <3>4, <4>1 DEF Pending
      <3> QED
        BY <1>3, <3>2, <3>3, <3>4
    <2> QED
      BY <2>1, <2>2, <2>3
  <1>7. NothingLeft'
    BY <1>1, <1>2, <1>4, <1>6 DEF NothingLeft
  <1>8. \A u \in Task :
           /\ given'[u] - Pending(u)' = given[u] - Pending(u)
           /\ pc'[u] = "start" => pc[u] = "start" /\ left'[u] = left[u] /\ given'[u] = given[u]
    BY <1>4, <1>6 DEF Pending
  <1> QED
    BY <1>2, <1>4, <1>7, <1>8, NothingMoves

\* Only one task is in the middle of bytes of its own.
LEMMA OthersAreOut ==
    ASSUME OneWriter, RoomInv, NEW t \in Task, pc[t] \in OwnSteps \cup {"clear"}
    PROVE  Writer(t) /\ \A u \in Task : u # t => ~Writer(u) /\ pc[u] \notin OwnSteps
  BY DEF OneWriter, RoomInv, WriterOnly

\* The buffer is filled.
LEMMA FillInOrder ==
    ASSUME OneWriter, UartInv, RoomInv, OrderInv, NEW t \in Task, Fill(t)
    PROVE  OrderInv'
  <1>1. /\ TypeOK /\ Something /\ ScratchOwn /\ NothingLeft /\ RingOrder
        /\ pc[t] = "dma" /\ pc' = [pc EXCEPT ![t] = "start"] /\ (dma.active => stuck)
        /\ UNCHANGED <<fifo, dma, stuck, buf, head, tail, left, given, sent, dropped>>
        /\ scratch' = Rest(t) \o SubSeq(scratch, left[t] + 1, Len(scratch))
    BY DEF UartInv, OrderInv, Fill, At, Goes, ring, wire, ScratchFree, DmaOver
  <1>2. Writer(t) /\ \A u \in Task : u # t => ~Writer(u) /\ pc[u] \notin OwnSteps
    BY <1>1, OthersAreOut DEF OwnSteps
  <1>3. left[t] \in Nat /\ left[t] <= given[t] /\ given[t] \in Nat
        /\ scratch \in Seq(Word) /\ Len(scratch) \in Nat
    BY <1>1 DEF TypeOK, Something, OwnSteps, Source
  <1> DEFINE v == SubSeq(scratch, left[t] + 1, Len(scratch))
  <1>4. /\ Rest(t) \in Seq(Word) /\ Len(Rest(t)) = left[t]
        /\ \A k \in 1 .. left[t] : Rest(t)[k] = <<t, given[t] - left[t] + k>>
    BY <1>1, <1>3, RestIsSeq DEF Rest
  <1>5. v \in Seq(Word) /\ \A k \in 1 .. Len(v) : v[k] = scratch[left[t] + k]
                                                 /\ left[t] + k \in 1 .. Len(scratch)
    <2>1. v \in Seq(Word)
      BY <1>3
    <2>2. CASE left[t] >= Len(scratch)
      BY <1>3, <2>1, <2>2
    <2>3. CASE left[t] < Len(scratch)
      <3>1. Len(v) = Len(scratch) - left[t]
        BY <1>3, <2>3, SMTT(30)
      <3>2. ASSUME NEW k \in 1 .. Len(scratch) - left[t]
            PROVE  v[k] = scratch[left[t] + k] /\ left[t] + k \in 1 .. Len(scratch)
        <4>1. v[k] = scratch[left[t] + 1 + k - 1]
          BY <1>3, <2>3
        <4>2. left[t] + 1 + k - 1 = left[t] + k /\ left[t] + k \in 1 .. Len(scratch)
          BY <1>3, <2>3
        <4> QED
          BY <4>1, <4>2
      <3> HIDE DEF v
      <3> QED
        BY <2>1, <3>1, <3>2
    <2> QED
      BY <1>3, <2>1, <2>2, <2>3
  <1> HIDE DEF v
  <1>6. /\ \A k \in 1 .. left[t] : scratch'[k] = Rest(t)[k]
        /\ \A k \in DOMAIN scratch' :
              \/ k \in 1 .. left[t] /\ scratch'[k] = Rest(t)[k]
              \/ \E n \in 1 .. Len(scratch) : scratch'[k] = scratch[n]
    <2>1. scratch' = Rest(t) \o v
      BY <1>1 DEF v
    <2>2. /\ DOMAIN scratch' = 1 .. left[t] + Len(v) /\ Len(v) \in Nat
          /\ \A k \in 1 .. left[t] : scratch'[k] = Rest(t)[k]
          /\ \A k \in 1 .. Len(v) : scratch'[left[t] + k] = v[k]
      BY <1>3, <1>4, <1>5, <2>1, SMTT(30)
    <2>3. ASSUME NEW k \in DOMAIN scratch', k > left[t]
          PROVE  \E n \in 1 .. Len(scratch) : scratch'[k] = scratch[n]
      <3>1. k - left[t] \in 1 .. Len(v) /\ left[t] + (k - left[t]) = k
        BY <1>3, <2>2, <2>3
      <3>2. scratch'[k] = v[k - left[t]]
        BY <2>2, <3>1
      <3> QED
        BY <1>5, <3>1, <3>2
    <2> QED
      BY <1>3, <2>2, <2>3
  <1>7. ScratchOwn'
    <2> SUFFICES ASSUME NEW k \in DOMAIN scratch'
                 PROVE  scratch'[k][1] \in Task /\ Writer(scratch'[k][1])
      BY DEF ScratchOwn, Writer
    <2>1. CASE k \in 1 .. left[t] /\ scratch'[k] = Rest(t)[k]
      BY <1>2, <1>4, <2>1
    <2>2. CASE \E n \in 1 .. Len(scratch) : scratch'[k] = scratch[n]
      <3>1. PICK n \in 1 .. Len(scratch) : scratch'[k] = scratch[n]
        BY <2>2
      <3>2. n \in DOMAIN scratch
        BY <1>3
      <3>3. scratch[n][1] \in Task /\ Writer(scratch[n][1])
        BY <1>1, <3>2, Zenon DEF ScratchOwn
      <3> QED
        BY <3>1, <3>3, Zenon
    <2> QED
      BY <1>6, <2>1, <2>2
  <1>8. NothingLeft' /\ RingOrder'
    BY <1>1, RingKept DEF NothingLeft, TypeOK
  <1>9. ASSUME ~stuck, NEW u \in Task PROVE TaskOrder(u)'
    <2>1. TaskOrder(u) /\ ~dma.active
      BY <1>1, <1>9 DEF OrderInv
    <2>2. pc'[u] = "start" => u = t
      BY <1>1, <1>2 DEF TypeOK, OwnSteps
    <2>3. Pending(u)' = Pending(u) /\ InDma(u)' = 0 /\ InDma(u) = 0
      BY <1>1, <2>1 DEF Pending, InDma, TypeOK
    <2>4. Reached(u)' = Reached(u) /\ Rest(u)' = Rest(u)
      BY <1>1, <2>3 DEF Reached, Rest
    <2> QED
      BY <1>1, <1>6, <2>1, <2>2, <2>4, ZenonT(60) DEF TaskOrder
  <1> QED
    BY <1>1, <1>7, <1>8, <1>9 DEF OrderInv

\* The transfer begins: what t had to write the engine has to read.
LEMMA StartInOrder ==
    ASSUME OneWriter, UartInv, RoomInv, OrderInv, NEW t \in Task, StartDma(t)
    PROVE  OrderInv'
  <1>1. /\ TypeOK /\ Something /\ ScratchOwn /\ NothingLeft /\ RingOrder /\ pc[t] = "start"
        /\ UNCHANGED <<fifo, scratch, stuck, buf, head, tail, given, sent, dropped>>
    BY DEF UartInv, OrderInv, StartDma, At, ring, wire
  <1>2. Writer(t) /\ \A u \in Task : u # t => ~Writer(u) /\ pc[u] \notin OwnSteps
    BY <1>1, OthersAreOut DEF OwnSteps
  <1>3. left[t] \in Nat /\ left[t] >= 1 /\ given[t] \in Nat
    BY <1>1 DEF TypeOK, Something, OwnSteps, Source
  <1>4. CASE dma.active
    <2>1. UNCHANGED <<dma, left>> /\ pc' = [pc EXCEPT ![t] = "putc"]
      BY <1>4 DEF StartDma, Goes
    <2>2. stuck
      BY <1>1, <1>4 DEF OrderInv, TaskOrder
    <2>3. ScratchOwn' /\ NothingLeft' /\ RingOrder'
      BY <1>1, <2>1, RingKept DEF ScratchOwn, NothingLeft, TypeOK, Writer
    <2> QED
      BY <1>1, <2>2, <2>3 DEF OrderInv
  <1>5. CASE ~dma.active
    <2>1. /\ dma' = [active |-> TRUE, from |-> 1, to |-> left[t]]
          /\ left' = [left EXCEPT ![t] = 0] /\ pc' = [pc EXCEPT ![t] = "return"]
      BY <1>5 DEF StartDma, Goes
    <2>2. /\ dma'.active /\ dma'.from = 1 /\ dma'.to = left[t]
          /\ left'[t] = 0 /\ pc'[t] = "return"
          /\ \A u \in Task : u # t => left'[u] = left[u] /\ pc'[u] = pc[u]
      BY <1>1, <2>1 DEF TypeOK
    <2>3. ScratchOwn' /\ NothingLeft' /\ RingOrder'
      BY <1>1, <2>2, RingKept DEF ScratchOwn, NothingLeft, Writer
    <2>4. ASSUME ~stuck, NEW u \in Task PROVE TaskOrder(u)'
      <3>1. TaskOrder(u)
        BY <2>4 DEF OrderInv
      <3>2. CASE u # t
        <4>1. Pending(u)' = Pending(u) /\ InDma(u)' = 0 /\ InDma(u) = 0
          BY <1>2, <1>5, <2>2, <3>2 DEF Pending, InDma, Writer
        <4>2. Reached(u)' = Reached(u)
          BY <1>1, <4>1 DEF Reached
        <4> QED
          BY <1>1, <1>2, <2>2, <3>1, <3>2, <4>2 DEF TaskOrder, OwnSteps, Writer
      <3>3. CASE u = t
        <4>1. Pending(t) = left[t] /\ InDma(t) = 0 /\ Pending(t)' = 0 /\ InDma(t)' = left[t]
          BY <1>1, <1>2, <1>3, <1>5, <2>2 DEF Pending, InDma, Writer
        <4>2. Reached(t) = given[t] - left[t] /\ Reached(t)' = Reached(t)
          BY <1>1, <1>3, <4>1 DEF Reached
        <4>3. \A k \in 1 .. left[t] : scratch[k] = <<t, Reached(t) + k>>
          BY <1>1, <3>1, <3>3, <4>2 DEF TaskOrder, Rest
        <4>4. \A k \in 1 .. dma'.to - dma'.from + 1 :
                 scratch'[dma'.from + k - 1] = <<t, Reached(t)' + k>>
          <5> TAKE k \in 1 .. dma'.to - dma'.from + 1
          <5>1. k \in 1 .. left[t] /\ dma'.from + k - 1 = k
            BY <1>3, <2>2
          <5>2. scratch[k] = <<t, Reached(t) + k>>
            BY <4>3, <5>1
          <5> QED
            BY <1>1, <4>2, <5>1, <5>2
        <4> QED
          BY <1>1, <2>2, <3>1, <3>3, <4>2, <4>4 DEF TaskOrder
      <3> QED
        BY <3>2, <3>3
    <2> QED
      BY <1>1, <2>3, <2>4 DEF OrderInv
  <1> QED
    BY <1>4, <1>5

\* uart_putc's byte: the FIFO has room, and no transfer is before it.
LEMMA WriteInOrder ==
    ASSUME OneWriter, UartInv, RoomInv, OrderInv, NEW t \in Task, Write(t)
    PROVE  OrderInv'
  <1>1. /\ TypeOK /\ Something /\ ScratchOwn /\ NothingLeft /\ RingOrder /\ pc[t] = "write"
        /\ UNCHANGED <<dma, scratch, stuck, buf, head, tail, given, sent, dropped>>
        /\ left' = [left EXCEPT ![t] = @ - 1]
        /\ \/ pc' = [pc EXCEPT ![t] = "clear"] \/ pc' = [pc EXCEPT ![t] = "room"]
    BY DEF UartInv, OrderInv, Write, At, Goes, ring, wire
  <1>2. Writer(t) /\ \A u \in Task : u # t => ~Writer(u) /\ pc[u] \notin OwnSteps
    BY <1>1, OthersAreOut DEF OwnSteps
  <1>3. /\ left[t] \in Nat /\ left[t] >= 1 /\ left[t] <= given[t] /\ given[t] \in Nat
        /\ fifo \in Seq(Word) /\ t \in Source /\ t # "ring"
    BY <1>1, UartAssumption DEF TypeOK, Something, OwnSteps, Source
  <1> DEFINE c == <<t, given[t] - left[t] + 1>>
  <1>4. fifo' = Append(fifo, c) /\ c \in Word
    <2>1. Len(fifo) < FifoDepth
      BY <1>1 DEF RoomInv, RoomStays
    <2>2. Rest(t)[1] = c
      BY <1>3 DEF Rest
    <2>3. given[t] - left[t] + 1 \in Nat
      BY <1>3
    <2> QED
      BY <1>3, <2>1, <2>2, <2>3 DEF Write, Word
  <1>5. c[1] = t /\ c = <<t, given[t] - left[t] + 1>>
    OBVIOUS
  <1> HIDE DEF c
  <1>6. ScratchOwn'
    BY <1>1 DEF ScratchOwn, Writer
  <1>7. NothingLeft'
    BY <1>1 DEF NothingLeft, TypeOK
  <1>8. RingOrder'
    <2>1. sent["ring"] \in Nat /\ given["ring"] - InRing(head, tail) \in Nat
          /\ sent["ring"] <= given["ring"] - InRing(head, tail)
      <3>1. /\ sent["ring"] \in Nat /\ given["ring"] \in Nat
            /\ head \in Index /\ tail \in Index
        BY <1>1 DEF TypeOK, Source, Index
      <3>2. InRing(head, tail) \in Nat
        BY <3>1, HeldCells DEF Index
      <3> QED
        BY <1>1, <3>1, <3>2 DEF RingOrder, RingUpTo
    <2>2. InOrder(fifo, "ring", sent["ring"], given["ring"] - InRing(head, tail), dropped) =>
          InOrder(fifo', "ring", sent["ring"], given["ring"] - InRing(head, tail), dropped)
      BY <1>3, <1>4, <1>5, <2>1, OrderOfAppend
    <2> QED
      BY <1>1, <2>2, RingKept
  <1>9. ASSUME ~stuck, NEW u \in Task PROVE TaskOrder(u)'
    <2>1. TaskOrder(u) /\ Reached(u) \in Nat /\ sent[u] \in Nat /\ sent[u] <= Reached(u)
      BY <1>9, ReachedNumber DEF OrderInv, TaskOrder
    <2>2. ~dma.active
      BY <1>1, <1>9 DEF RoomInv, WriterOnly, DmaOver
    <2>3. pc'[u] # "start"
      BY <1>1, <1>2 DEF TypeOK, OwnSteps
    <2>4. InDma(u) = 0 /\ InDma(u)' = 0
      BY <1>1, <2>2 DEF InDma
    <2>5. CASE u # t
      <3>1. Pending(u)' = Pending(u)
        BY <1>1, <2>5 DEF Pending, TypeOK
      <3>2. Reached(u)' = Reached(u)
        BY <1>1, <2>4, <3>1 DEF Reached
      <3>3. InOrder(fifo', u, sent[u], Reached(u), {})
        BY <1>3, <1>4, <1>5, <2>1, <2>5, OrderOfAppend DEF TaskOrder
      <3> QED
        BY <1>1, <2>1, <2>2, <2>3, <3>2, <3>3 DEF TaskOrder
    <2>6. CASE u = t
      <3>1. Pending(t) = left[t] /\ Pending(t)' = left[t] - 1
        BY <1>1 DEF Pending, TypeOK
      <3>2. Reached(t) = given[t] - left[t] /\ Reached(t)' = Reached(t) + 1
        BY <1>1, <1>3, <2>4, <2>6, <3>1 DEF Reached
      <3>3. c = <<t, Reached(t) + 1>>
        BY <1>5, <3>2
      <3>4. InOrder(fifo', t, sent[t], Reached(t) + 1, {})
        BY <1>3, <1>4, <2>1, <2>6, <3>3, OrderOfAppend DEF TaskOrder
      <3>5. sent'[t] <= Reached(t)' /\ InOrder(fifo', t, sent'[t], Reached(t)', {})
        BY <1>1, <2>1, <2>6, <3>2, <3>4
      <3> QED
        BY <1>1, <2>2, <2>3, <2>6, <3>5 DEF TaskOrder
    <2> QED
      BY <2>5, <2>6
  <1> QED
    BY <1>1, <1>6, <1>7, <1>8, <1>9 DEF OrderInv

\* The first byte of the FIFO goes onto the wire.
LEMMA ShiftInOrder ==
    ASSUME UartInv, OrderInv, Shift
    PROVE  OrderInv'
  <1> DEFINE s == Head(fifo)[1]
  <1>1. /\ TypeOK /\ ScratchOwn /\ NothingLeft /\ RingOrder
        /\ fifo # <<>> /\ fifo' = Tail(fifo) /\ sent' = [sent EXCEPT ![s] = Head(fifo)[2]]
        /\ UNCHANGED <<dma, scratch, stuck, buf, head, tail, pc, left, given, dropped>>
    BY DEF UartInv, OrderInv, Shift, ring
  <1>2. fifo \in Seq(Word) /\ sent \in [Source -> Nat] /\ sent' \in [Source -> Nat]
    <2>1. UartInv'
      BY EngineKeeps
    <2> QED
      BY <1>1, <2>1 DEF UartInv, TypeOK
  <1>3. ASSUME NEW u \in Source, NEW n \in Nat, NEW gone, sent[u] <= n,
               InOrder(fifo, u, sent[u], n, gone)
        PROVE  sent'[u] <= n /\ InOrder(fifo', u, sent'[u], n, gone)
    <2>1. sent[u] \in Nat
      BY <1>2
    <2>2. /\ s = u => Head(fifo)[2] \in sent[u] + 1 .. n
                      /\ InOrder(Tail(fifo), u, Head(fifo)[2], n, gone)
          /\ s # u => InOrder(Tail(fifo), u, sent[u], n, gone)
      BY <1>1, <1>2, <1>3, <2>1, OrderOfTail
    <2>3. (s = u => sent'[u] = Head(fifo)[2]) /\ (s # u => sent'[u] = sent[u])
      BY <1>1, <1>2
    <2> QED
      BY <1>1, <1>3, <2>1, <2>2, <2>3
  <1>4. ScratchOwn' /\ NothingLeft'
    BY <1>1 DEF ScratchOwn, NothingLeft, Writer
  <1>5. RingOrder'
    <2> DEFINE g == given["ring"]
               m == InRing(head, tail)
    <2>1. /\ sent["ring"] + m <= g /\ RingHolds(buf, head, tail, g)
          /\ InOrder(fifo, "ring", sent["ring"], g - m, dropped)
          /\ \A n \in dropped : n <= g - m
      BY <1>1 DEF RingOrder, RingUpTo
    <2>2. m \in Nat /\ g \in Nat /\ sent["ring"] \in Nat /\ "ring" \in Source
      <3>1. head \in Index /\ tail \in Index
        BY <1>1 DEF TypeOK, Index
      <3>2. InRing(head, tail) \in Index
        BY <3>1, HeldCells
      <3>3. InRing(head, tail) \in Nat
        BY <3>2 DEF Index
      <3>4. g \in Nat /\ sent["ring"] \in Nat /\ "ring" \in Source
        BY <1>1 DEF TypeOK, Source
      <3> QED
        BY <3>3, <3>4
    <2> HIDE DEF g, m
    <2>3. g - m \in Nat /\ sent["ring"] <= g - m
      BY <2>1, <2>2
    <2>4. sent'["ring"] <= g - m /\ InOrder(fifo', "ring", sent'["ring"], g - m, dropped)
      BY <1>3, <2>1, <2>2, <2>3
    <2>5. sent'["ring"] \in Nat
      BY <1>2, <2>2
    <2>6. sent'["ring"] + m <= g
      BY <2>2, <2>4, <2>5
    <2> QED
      BY <1>1, <2>1, <2>4, <2>6 DEF RingOrder, RingUpTo, RingHolds, g, m
  <1>6. ASSUME ~stuck, NEW u \in Task PROVE TaskOrder(u)'
    <2>1. TaskOrder(u) /\ Reached(u) \in Nat /\ u \in Source
      BY <1>6, ReachedNumber DEF OrderInv, Source
    <2>2. sent'[u] <= Reached(u) /\ InOrder(fifo', u, sent'[u], Reached(u), {})
      BY <1>3, <2>1 DEF TaskOrder
    <2>3. Reached(u)' = Reached(u) /\ Rest(u)' = Rest(u)
      BY <1>1 DEF Reached, Pending, InDma, Rest, Writer
    <2> QED
      BY <1>1, <2>1, <2>2, <2>3 DEF TaskOrder, Writer
  <1> QED
    BY <1>1, <1>4, <1>5, <1>6 DEF OrderInv

\* The engine moves a word from the buffer into the FIFO.
LEMMA BeatInOrder ==
    ASSUME UartInv, OrderInv, Beat
    PROVE  OrderInv'
  <1> DEFINE c == scratch[dma.from]
  <1>1. /\ TypeOK /\ Filled /\ ScratchOwn /\ NothingLeft /\ RingOrder
        /\ dma.active /\ ~stuck
        /\ fifo' = Append(fifo, c)
        /\ dma' = IF dma.from = dma.to THEN Idle ELSE [dma EXCEPT !.from = @ + 1]
        /\ UNCHANGED <<scratch, stuck, buf, head, tail, pc, left, given, sent, dropped>>
    BY DEF UartInv, OrderInv, Beat, ring
  <1>2. /\ fifo \in Seq(Word) /\ scratch \in Seq(Word)
        /\ dma \in [active : BOOLEAN, from : Nat, to : Nat]
        /\ dma.from \in Nat /\ dma.to \in Nat
        /\ 1 <= dma.from /\ dma.from <= dma.to /\ dma.to <= Len(scratch)
    BY <1>1 DEF TypeOK, Filled
  <1>3. c \in Word /\ c[1] \in Task /\ Writer(c[1]) /\ c[1] # "ring"
    <2>1. dma.from \in DOMAIN scratch
      BY <1>2
    <2>2. c \in Word /\ c[1] \in Task /\ Writer(c[1])
      BY <1>1, <1>2, <2>1 DEF ScratchOwn
    <2> QED
      BY <2>2, UartAssumption
  <1> HIDE DEF c
  <1>4. \/ dma.from = dma.to /\ dma' = Idle /\ ~dma'.active
        \/ /\ dma.from < dma.to /\ dma'.active
           /\ dma'.from = dma.from + 1 /\ dma'.to = dma.to
    BY <1>1, <1>2 DEF Idle
  <1>5. ScratchOwn' /\ NothingLeft'
    BY <1>1, <1>4 DEF ScratchOwn, NothingLeft, Writer
  <1>6. RingOrder'
    <2> DEFINE n == given["ring"] - InRing(head, tail)
    <2>1. /\ sent["ring"] \in Nat /\ given["ring"] \in Nat
          /\ head \in Index /\ tail \in Index
      BY <1>1 DEF TypeOK, Source, Index
    <2>2. InRing(head, tail) \in Nat
      BY <2>1, HeldCells DEF Index
    <2>3. n \in Nat /\ sent["ring"] <= n
      BY <1>1, <2>1, <2>2 DEF RingOrder, RingUpTo
    <2> HIDE DEF n
    <2>4. InOrder(fifo, "ring", sent["ring"], n, dropped) =>
          InOrder(fifo', "ring", sent["ring"], n, dropped)
      BY <1>1, <1>2, <1>3, <2>1, <2>3, OrderOfAppend
    <2> QED
      BY <1>1, <2>4, RingKept DEF n
  <1>7. ASSUME NEW u \in Task PROVE TaskOrder(u)'
    <2>1. TaskOrder(u) /\ Reached(u) \in Nat /\ sent[u] \in Nat /\ sent[u] <= Reached(u)
      BY <1>1, ReachedNumber DEF OrderInv, TaskOrder
    <2>2. pc[u] # "start"
      BY <1>1, <2>1 DEF TaskOrder
    <2>3. Pending(u)' = Pending(u) /\ Pending(u) \in Nat /\ given[u] \in Nat
      BY <1>1, ReachedNumber DEF Pending
    <2>4. CASE ~Writer(u)
      <3>1. InDma(u) = 0 /\ InDma(u)' = 0
        BY <2>4 DEF InDma, Writer
      <3>2. Reached(u)' = Reached(u)
        BY <1>1, <2>3, <3>1 DEF Reached
      <3>3. c[1] # u
        BY <1>3, <2>4
      <3>4. InOrder(fifo', u, sent[u], Reached(u), {})
        BY <1>1, <1>2, <1>3, <2>1, <3>3, OrderOfAppend DEF TaskOrder
      <3> QED
        BY <1>1, <2>1, <2>2, <2>4, <3>2, <3>4 DEF TaskOrder, Writer
    <2>5. CASE Writer(u)
      <3>1. InDma(u) = dma.to - dma.from + 1 /\ InDma(u)' = InDma(u) - 1
        BY <1>1, <1>2, <1>4, <2>5 DEF InDma, Writer
      <3>2. Reached(u)' = Reached(u) + 1
        <4> DEFINE p == Pending(u)
                   i == InDma(u)
                   j == InDma(u)'
        <4>1. /\ p \in Nat /\ i \in Int /\ j = i - 1 /\ given[u] \in Nat
          BY <1>2, <2>3, <3>1
        <4>2. Reached(u) = given[u] - p - i /\ Reached(u)' = given[u] - p - j
          BY <1>1, <2>3 DEF Reached
        <4> HIDE DEF p, i, j
        <4> QED
          BY <4>1, <4>2
      <3>3. \A k \in 1 .. dma.to - dma.from + 1 :
               scratch[dma.from + k - 1] = <<u, Reached(u) + k>>
        BY <1>1, <2>1, <2>5 DEF TaskOrder
      <3>4. c = <<u, Reached(u) + 1>>
        <4>1. 1 \in 1 .. dma.to - dma.from + 1 /\ dma.from + 1 - 1 = dma.from
          BY <1>2
        <4>2. scratch[dma.from + 1 - 1] = <<u, Reached(u) + 1>>
          BY <3>3, <4>1
        <4> QED
          BY <4>1, <4>2 DEF c
      <3>5. InOrder(fifo', u, sent[u], Reached(u) + 1, {})
        BY <1>1, <1>2, <1>3, <2>1, <3>4, OrderOfAppend DEF TaskOrder
      <3>6. dma'.active =>
               \A k \in 1 .. dma'.to - dma'.from + 1 :
                  scratch[dma'.from + k - 1] = <<u, Reached(u) + 1 + k>>
        <4> SUFFICES ASSUME dma'.active, NEW k \in 1 .. dma'.to - dma'.from + 1
                     PROVE  scratch[dma'.from + k - 1] = <<u, Reached(u) + 1 + k>>
          OBVIOUS
        <4>1. dma'.from = dma.from + 1 /\ dma'.to = dma.to
          BY <1>4
        <4>2. /\ k + 1 \in 1 .. dma.to - dma.from + 1
              /\ dma.from + (k + 1) - 1 = dma'.from + k - 1
              /\ Reached(u) + (k + 1) = Reached(u) + 1 + k
          <5> DEFINE a == dma.from
                     b == dma.to
                     r == Reached(u)
          <5>1. a \in Nat /\ b \in Nat /\ r \in Nat
            BY <1>2, <2>1
          <5>2. k \in 1 .. b - (a + 1) + 1 /\ dma'.from = a + 1
            BY <4>1
          <5> HIDE DEF a, b, r
          <5>3. k \in Int /\ 1 <= k /\ k <= b - (a + 1) + 1
            BY <5>1, <5>2
          <5>4. /\ k + 1 \in 1 .. b - a + 1 /\ a + (k + 1) - 1 = (a + 1) + k - 1
                /\ r + (k + 1) = r + 1 + k
            BY <5>1, <5>3
          <5> QED
            BY <5>2, <5>4 DEF a, b, r
        <4>3. scratch[dma.from + (k + 1) - 1] = <<u, Reached(u) + (k + 1)>>
          BY <3>3, <4>2
        <4> QED
          BY <4>2, <4>3
      <3>7. sent'[u] <= Reached(u)' /\ InOrder(fifo', u, sent'[u], Reached(u)', {})
        BY <1>1, <2>1, <3>2, <3>5
      <3>8. dma'.active =>
               \A k \in 1 .. dma'.to - dma'.from + 1 :
                  scratch'[dma'.from + k - 1] = <<u, Reached(u)' + k>>
        BY <1>1, <3>2, <3>6
      <3> QED
        BY <1>1, <2>2, <3>7, <3>8 DEF TaskOrder
    <2> QED
      BY <2>4, <2>5
  <1> QED
    BY <1>5, <1>6, <1>7 DEF OrderInv

\* Every step keeps the bytes of every source in their order.
LEMMA StepInOrder ==
    ASSUME OneWriter
    PROVE  UartInv /\ DrainInv /\ RoomInv /\ OrderInv /\ [Next]_vars => OrderInv'
  <1> SUFFICES ASSUME UartInv, DrainInv, RoomInv, OrderInv, [Next]_vars PROVE OrderInv'
    OBVIOUS
  <1>1. CASE UNCHANGED vars \/ Stick
    <2>1. /\ UNCHANGED <<fifo, dma, scratch, buf, head, tail, sent, given, pc, left, dropped>>
          /\ ~stuck' => ~stuck
      BY <1>1 DEF vars, ring, wire, Stick
    <2>2. NothingLeft'
      BY <2>1 DEF NothingLeft, OrderInv
    <2>3. \A t \in Task : Pending(t)' = Pending(t)
      BY <2>1 DEF Pending
    <2> QED
      BY <2>1, <2>2, <2>3, NothingMoves
  <1>2. CASE Tick \/ Echo \/ DrainStep
    BY <1>2, InterruptInOrder
  <1>3. CASE Shift \/ Beat
    BY <1>3, ShiftInOrder, BeatInOrder
  <1>4. ASSUME NEW t \in Task, Begin(t) \/ TaskStep(t) PROVE OrderInv'
    BY <1>4, InterruptInOrder, StillInOrder, FillInOrder, StartInOrder, WriteInOrder
       DEF TaskStep
  <1> QED
    BY <1>1, <1>2, <1>3, <1>4 DEF Next

\* What the invariant says of the bytes on their way.
LEMMA AccountFollows ==
    ASSUME OneWriter, UartInv, RoomInv, OrderInv
    PROVE  Accounted
  <1> DEFINE v == SubSeq(scratch, dma.from, dma.to)
  <1>1. /\ TypeOK /\ Something /\ Filled /\ ScratchOwn /\ NothingLeft /\ RingOrder
        /\ WriterOnly /\ "ring" \in Source /\ "ring" \notin Task
    BY UartAssumption DEF UartInv, OrderInv, RoomInv, Source
  <1>2. /\ fifo \in Seq(Word) /\ scratch \in Seq(Word) /\ Len(scratch) \in Nat
        /\ dma \in [active : BOOLEAN, from : Nat, to : Nat]
        /\ head \in Index /\ tail \in Index /\ buf \in [Index -> Word]
        /\ given \in [Source -> Nat] /\ sent \in [Source -> Nat]
    BY <1>1 DEF TypeOK, Index
  <1>3. /\ v \in Seq(Word)
        /\ \A k \in DOMAIN v : v[k][1] \in Task /\ Writer(v[k][1])
        /\ dma.active => Len(v) = dma.to - dma.from + 1
        /\ dma.active => \A k \in 1 .. dma.to - dma.from + 1 : v[k] = scratch[dma.from + k - 1]
        /\ ~dma.active => v = <<>>
    <2>1. CASE dma.active
      <3>1. 1 <= dma.from /\ dma.from <= dma.to /\ dma.to <= Len(scratch)
            /\ dma.from \in Nat /\ dma.to \in Nat
        BY <1>1, <1>2, <2>1 DEF Filled
      <3>2. /\ v \in Seq(Word) /\ Len(v) = dma.to - dma.from + 1
            /\ \A k \in 1 .. dma.to - dma.from + 1 :
                  v[k] = scratch[dma.from + k - 1] /\ dma.from + k - 1 \in DOMAIN scratch
        BY <1>2, <3>1
      <3> HIDE DEF v
      <3>3. DOMAIN v = 1 .. dma.to - dma.from + 1
        BY <3>1, <3>2
      <3>4. ASSUME NEW k \in DOMAIN v PROVE v[k][1] \in Task /\ Writer(v[k][1])
        <4>1. v[k] = scratch[dma.from + k - 1] /\ dma.from + k - 1 \in DOMAIN scratch
          BY <3>2, <3>3, <3>4
        <4>2. \A n \in DOMAIN scratch : scratch[n][1] \in Task /\ Writer(scratch[n][1])
          BY <1>1 DEF ScratchOwn
        <4> QED
          BY <4>1, <4>2, Zenon
      <3> QED
        BY <2>1, <3>2, <3>4
    <2>2. CASE ~dma.active
      <3>1. dma.from = 1 /\ dma.to = 0
        BY <1>1, <2>2 DEF NothingLeft, Idle
      <3>2. v = <<>>
        BY <1>2, <3>1
      <3> HIDE DEF v
      <3> QED
        BY <2>2, <3>2
    <2> QED
      BY <2>1, <2>2
  <1> HIDE DEF v
  <1>4. ASSUME NEW s, NEW w \in Seq(Word), NEW n1 \in Nat, NEW n2 \in Nat, NEW n3 \in Nat,
               NEW n4 \in Nat, n1 <= n2, n2 <= n3, n3 <= n4, NEW gone,
               InOrder(fifo, s, n1, n2, gone), InOrder(v, s, n2, n3, gone),
               InOrder(w, s, n3, n4, gone)
        PROVE  InOrder(fifo \o v \o w, s, n1, n4, gone)
    <2>1. fifo \o v \in Seq(Word) /\ n1 <= n3
      BY <1>2, <1>3, <1>4
    <2>2. InOrder(fifo \o v, s, n1, n3, gone)
      BY <1>2, <1>3, <1>4, OrderGoesOn
    <2> QED
      BY <1>4, <2>1, <2>2, OrderGoesOn
  <1>5. InOrder(OnTheWay("ring"), "ring", sent["ring"], given["ring"], dropped)
    <2> DEFINE g == given["ring"]
               m == InRing(head, tail)
               w == Held(buf, head, tail)
    <2>1. /\ sent["ring"] + m <= g /\ InOrder(fifo, "ring", sent["ring"], g - m, dropped)
          /\ \A k \in 1 .. m : buf[Cell(tail, k)] = <<"ring", g - m + k>>
          /\ \A n \in dropped : n <= g - m
      BY <1>1 DEF RingOrder, RingUpTo, RingHolds
    <2>2. /\ m \in Nat /\ g \in Nat /\ sent["ring"] \in Nat
          /\ w = [k \in 1 .. m |-> buf[Cell(tail, k)]]
          /\ \A k \in 1 .. m : Cell(tail, k) \in Index
      <3>1. /\ InRing(head, tail) \in Index
            /\ Held(buf, head, tail) = [k \in 1 .. InRing(head, tail) |-> buf[Cell(tail, k)]]
            /\ \A k \in 1 .. InRing(head, tail) : Cell(tail, k) \in Index
        BY <1>2, HeldCells
      <3>2. InRing(head, tail) \in Nat
        BY <3>1 DEF Index
      <3>3. g \in Nat /\ sent["ring"] \in Nat
        BY <1>1, <1>2
      <3> QED
        BY <3>1, <3>2, <3>3, Zenon
    <2>3. w \in Seq(Word) /\ Len(w) = m /\ \A k \in 1 .. m : w[k] = <<"ring", g - m + k>>
      <3> HIDE DEF m, g, w
      <3>1. \A k \in 1 .. m : buf[Cell(tail, k)] \in Word
        BY <1>2, <2>2
      <3> QED
        BY <2>1, <2>2, <3>1
    <2>4. OnTheWay("ring") = fifo \o v \o w
      BY DEF OnTheWay, v
    <2> HIDE DEF m, g, w
    <2>5. /\ g - m \in Nat /\ sent["ring"] <= g - m /\ g - m <= g /\ g - (g - m) = m
      BY <2>1, <2>2
    <2>6. InOrder(w, "ring", g - m, g, dropped)
      <3>1. \A n \in g - m + 1 .. g : n \notin dropped
        BY <2>1, <2>5
      <3> QED
        BY <2>2, <2>3, <2>5, <3>1, OrderOfRun
    <2>7. InOrder(v, "ring", g - m, g - m, dropped)
      BY <1>1, <1>3, <2>5, OrderOfNone
    <2>8. InOrder(fifo \o v \o w, "ring", sent["ring"], g, dropped)
      BY <1>4, <2>1, <2>2, <2>3, <2>5, <2>6, <2>7
    <2> QED
      BY <2>4, <2>8 DEF g
  <1>6. ASSUME ~stuck, NEW t \in Task
        PROVE  InOrder(OnTheWay(t), t, sent[t], given[t], {})
    <2> DEFINE w == IF pc[t] = "ring" THEN <<>> ELSE Rest(t)
               r == Reached(t)
               d == InDma(t)
    <2>1. TaskOrder(t)
      BY <1>6 DEF OrderInv
    <2>2. /\ r \in Nat /\ d \in Nat /\ Pending(t) \in Nat /\ given[t] \in Nat
          /\ sent[t] \in Nat /\ left[t] \in Nat
          /\ sent[t] <= r /\ InOrder(fifo, t, sent[t], r, {})
      BY <2>1, ReachedNumber DEF TaskOrder
    <2>3. r + d = given[t] - Pending(t)
      BY <2>2 DEF Reached
    <2>4. OnTheWay(t) = fifo \o v \o w
      BY <1>1 DEF OnTheWay, v
    <2>5. /\ w \in Seq(Word) /\ Len(w) = Pending(t)
          /\ \A k \in 1 .. Pending(t) : w[k] = <<t, r + d + k>>
      <3>1. CASE pc[t] = "ring"
        BY <3>1 DEF Pending
      <3>2. CASE pc[t] # "ring"
        <4>1. Pending(t) = left[t] /\ left[t] <= given[t] /\ r + d = given[t] - left[t]
          BY <2>2, <2>3, <3>2 DEF Pending
        <4>2. w = Rest(t) /\ w \in Seq(Word) /\ Len(w) = left[t]
          BY <1>1, <3>2, <4>1, RestIsSeq
        <4>3. \A k \in 1 .. left[t] : Rest(t)[k] = <<t, given[t] - left[t] + k>>
          BY DEF Rest
        <4> HIDE DEF w
        <4> QED
          BY <4>1, <4>2, <4>3
      <3> QED
        BY <3>1, <3>2
    <2>6. /\ Writer(t) /\ dma.active =>
               Len(v) = d /\ \A k \in 1 .. d : v[k] = <<t, r + k>>
          /\ ~(Writer(t) /\ dma.active) => d = 0 /\ \A k \in DOMAIN v : v[k][1] # t
      <3>1. CASE Writer(t) /\ dma.active
        <4>1. d = dma.to - dma.from + 1
          BY <3>1 DEF InDma
        <4>2. \A k \in 1 .. dma.to - dma.from + 1 :
                 scratch[dma.from + k - 1] = <<t, Reached(t) + k>>
          BY <2>1, <3>1 DEF TaskOrder
        <4> HIDE DEF d
        <4> QED
          BY <1>3, <3>1, <4>1, <4>2
      <3>2. CASE ~(Writer(t) /\ dma.active)
        <4>1. d = 0
          BY <3>2 DEF InDma
        <4>2. \A k \in DOMAIN v : v[k][1] # t
          <5>1. CASE dma.active
            BY <1>3, <3>2, <5>1
          <5>2. CASE ~dma.active
            BY <1>3, <5>2
          <5> QED
            BY <5>1, <5>2
        <4> QED
          BY <3>2, <4>1, <4>2
      <3> QED
        BY <3>1, <3>2
    <2> HIDE DEF w, r, d
    <2>7. /\ r + d \in Nat /\ r <= r + d /\ r + d <= given[t] /\ (r + d) - r = d
          /\ given[t] - (r + d) = Pending(t)
      BY <2>2, <2>3
    <2>8. InOrder(w, t, r + d, given[t], {})
      BY <2>2, <2>5, <2>7, OrderOfRun
    <2>9. InOrder(v, t, r, r + d, {})
      <3>1. CASE Writer(t) /\ dma.active
        BY <1>3, <2>2, <2>6, <2>7, <3>1, OrderOfRun
      <3>2. CASE ~(Writer(t) /\ dma.active)
        <4>1. r + d = r
          BY <2>2, <2>6, <3>2
        <4> QED
          BY <2>2, <2>6, <3>2, <4>1, OrderOfNone
      <3> QED
        BY <3>1, <3>2
    <2>10. InOrder(fifo \o v \o w, t, sent[t], given[t], {})
      BY <1>4, <2>2, <2>5, <2>7, <2>8, <2>9
    <2> QED
      BY <2>4, <2>10
  <1> QED
    BY <1>1, <1>5, <1>6 DEF Accounted, Gone, Source

\* With one task that writes itself, what that task was given comes out whole
\* and in order, and what any others that print through the ring and the echo
\* were given comes out in order but for the bytes that a full FIFO dropped,
\* for every size of the ring, the FIFO and the buffer and whatever the
\* interrupts and the engine do in between; the ring also when the engine has
\* stopped.
THEOREM BytesAccounted ==
    ASSUME OneWriter
    PROVE  Spec => []Accounted
  <1>1. UartInv /\ RoomInv /\ OrderInv => Accounted
    BY AccountFollows
  <1> QED
    BY <1>1, InitUart, InitDrain, InitRoom, InitOrder, StepKeepsUart, StepKeepsDrain,
       StepKeepsRoom, StepInOrder, PTL DEF Spec
=============================================================================
