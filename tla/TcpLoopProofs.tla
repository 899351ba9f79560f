---------------------------- MODULE TcpLoopProofs ----------------------------
(***************************************************************************)
(* Theorems about TcpLoop for every length of the queue, number of         *)
(* sessions, units, faults and retransmissions, and whatever sequence      *)
(* numbers the sessions begin with: what is delivered, what both ends      *)
(* agree on, what retransmission keeps and how connections end.            *)
(***************************************************************************)
EXTENDS TcpLoop, TLAPS

\* The states of a slot that knows its peer's first sequence number, of one
\* whose own was acknowledged too, and of one that has sent its FIN.
Synced == {"syn_rcvd", "established", "fin_wait", "closing", "closed_final"}
Opened == Synced \ {"syn_rcvd"}
Finished == Opened \ {"established"}

Kinds == {{"syn"}, {"syn", "ack"}, {"ack"}, {"psh", "ack"}, {"ack", "fin"}}

Unit == Nat \X Nat

Payload == Unit \cup {NoData}

Frame == [to : Slot, flags : Kinds, seq : Int, ack : Int, data : Payload]

Rtx == [seq : Int, data : Payload, count : Nat]

Record == [state : States, local : Int, remote : Int, timer : BOOLEAN, rtx : Rtx]

TypeOK ==
    /\ conn \in [Slot -> Record]
    /\ queue \in Seq(Frame)
    /\ sent \in [Slot -> Seq(Unit)] /\ got \in [Slot -> Seq(Unit)]
    /\ sessions \in Nat /\ faults \in Nat

---------------------------------------------------------------------------
(* Slots, units and the queue.                                             *)

LEMMA Peers ==
    ASSUME NEW c \in Slot
    PROVE  /\ Peer(c) \in Slot /\ Peer(Peer(c)) = c /\ Peer(c) # c
           /\ \A d \in Slot : d = c \/ d = Peer(c)
  BY DEF Slot, Peer

\* Nothing is no unit.
LEMMA NoUnit == NoData \notin Unit
  <1>1. \A a, b \in Nat : <<a, b>> # <<>>
    OBVIOUS
  <1> QED
    BY <1>1 DEF NoData, Unit

\* The frames of a queue.
LEMMA QueueFrames ==
    ASSUME NEW q \in Seq(Frame)
    PROVE  ToSet(q) = {q[n] : n \in 1 .. Len(q)} /\ ToSet(q) \subseteq Frame /\ Len(q) \in Nat
  BY DEF ToSet

LEMMA AfterHead ==
    ASSUME NEW q \in Seq(Frame), q # <<>>
    PROVE  /\ Head(q) = q[1] /\ Head(q) \in ToSet(q) /\ Tail(q) \in Seq(Frame)
           /\ ToSet(Tail(q)) \subseteq ToSet(q)
           /\ Len(q) \in Nat /\ Len(q) >= 1 /\ Len(Tail(q)) = Len(q) - 1
           /\ \A n \in 1 .. Len(Tail(q)) : n + 1 \in 1 .. Len(q) /\ Tail(q)[n] = q[n + 1]
  <1>1. /\ Head(q) = q[1] /\ Tail(q) \in Seq(Frame)
        /\ Len(q) \in Nat /\ Len(q) >= 1 /\ Len(Tail(q)) = Len(q) - 1
        /\ \A n \in 1 .. Len(Tail(q)) : n + 1 \in 1 .. Len(q) /\ Tail(q)[n] = q[n + 1]
    OBVIOUS
  <1>2. ToSet(q) = {q[n] : n \in 1 .. Len(q)}
        /\ ToSet(Tail(q)) = {Tail(q)[n] : n \in 1 .. Len(Tail(q))}
    BY <1>1, QueueFrames
  <1>3. q[1] \in ToSet(q)
    BY <1>1, <1>2
  <1>4. ToSet(Tail(q)) \subseteq ToSet(q)
    BY <1>1, <1>2
  <1> QED
    BY <1>1, <1>3, <1>4

LEMMA AfterQueued ==
    ASSUME NEW q \in Seq(Frame), NEW s \in Frame
    PROVE  /\ Queued(q, s) \in Seq(Frame)
           /\ ToSet(Queued(q, s)) \subseteq ToSet(q) \cup {s}
           /\ Len(q) \in Nat /\ Len(Queued(q, s)) \in {Len(q), Len(q) + 1}
           /\ \A n \in 1 .. Len(q) : Queued(q, s)[n] = q[n]
           /\ \A n \in 1 .. Len(Queued(q, s)) : n > Len(q) => Queued(q, s)[n] = s
  <1>1. /\ Queued(q, s) \in Seq(Frame)
        /\ Len(q) \in Nat /\ Len(Queued(q, s)) \in {Len(q), Len(q) + 1}
        /\ \A n \in 1 .. Len(q) : Queued(q, s)[n] = q[n]
        /\ \A n \in 1 .. Len(Queued(q, s)) : n > Len(q) => Queued(q, s)[n] = s
    BY DEF Queued
  <1>2. ToSet(q) = {q[n] : n \in 1 .. Len(q)}
        /\ ToSet(Queued(q, s)) = {Queued(q, s)[n] : n \in 1 .. Len(Queued(q, s))}
    BY <1>1, QueueFrames
  <1>3. ToSet(Queued(q, s)) \subseteq ToSet(q) \cup {s}
    BY <1>1, <1>2
  <1> QED
    BY <1>1, <1>3

\* Every branch takes the frame at the head; what is ignored changes nothing
\* else.
LEMMA IgnoredOnly ==
    ASSUME NEW c \in Slot, NEW s, Ignored(c, s)
    PROVE  queue # <<>> /\ s = Head(queue) /\ s.to = c /\ Silent(c, conn[c])
  BY DEF Ignored, Taken

---------------------------------------------------------------------------
(* The types.                                                              *)

LEMMA SlotTypes ==
    ASSUME TypeOK, NEW c \in Slot
    PROVE  /\ conn[c] \in Record /\ conn[c].state \in States
           /\ conn[c].local \in Int /\ conn[c].remote \in Int /\ conn[c].timer \in BOOLEAN
           /\ conn[c].rtx \in Rtx /\ conn[c].rtx.seq \in Int /\ conn[c].rtx.data \in Payload
           /\ conn[c].rtx.count \in Nat
           /\ sent[c] \in Seq(Unit) /\ got[c] \in Seq(Unit)
           /\ Len(sent[c]) \in Nat /\ Len(got[c]) \in Nat /\ sessions \in Nat
  <1>1. conn[c] \in Record
    BY DEF TypeOK
  <1>2. conn[c].rtx \in Rtx
    BY <1>1 DEF Record
  <1> QED
    BY <1>1, <1>2 DEF TypeOK, Record, Rtx

\* The same after a step.
LEMMA NextTypes ==
    ASSUME TypeOK', NEW c \in Slot
    PROVE  /\ conn'[c] \in Record /\ conn'[c].state \in States
           /\ conn'[c].local \in Int /\ conn'[c].remote \in Int /\ conn'[c].timer \in BOOLEAN
           /\ conn'[c].rtx.seq \in Int /\ conn'[c].rtx.data \in Payload
           /\ conn'[c].rtx.count \in Nat
           /\ sent'[c] \in Seq(Unit) /\ got'[c] \in Seq(Unit)
           /\ Len(sent'[c]) \in Nat /\ Len(got'[c]) \in Nat
           /\ queue' \in Seq(Frame)
  <1>1. conn'[c] \in Record
    BY DEF TypeOK
  <1>2. conn'[c].rtx \in Rtx
    BY <1>1 DEF Record
  <1>3. sent'[c] \in Seq(Unit) /\ got'[c] \in Seq(Unit) /\ queue' \in Seq(Frame)
    BY DEF TypeOK
  <1> QED
    BY <1>1, <1>2, <1>3 DEF Record, Rtx

LEMMA SegmentTypes ==
    ASSUME NEW c \in Slot, NEW flags \in Kinds, NEW seq \in Int, NEW ack \in Int,
           NEW data \in Payload
    PROVE  LET s == Segment(c, flags, seq, ack, data) IN
           /\ s \in Frame /\ s.to = Peer(c) /\ s.flags = flags /\ s.seq = seq /\ s.ack = ack
           /\ s.data = data
  BY Peers DEF Segment, Frame

\* What the steps make of a record.
LEMMA Updated ==
    ASSUME NEW k \in Record
    PROVE  /\ \A st \in States : [k EXCEPT !.state = st] \in Record
           /\ \A i \in Int : [k EXCEPT !.local = i] \in Record
           /\ \A b \in BOOLEAN : [k EXCEPT !.timer = b] \in Record
           /\ \A b \in BOOLEAN, r \in Rtx : [k EXCEPT !.timer = b, !.rtx = r] \in Record
           /\ \A i \in Int, st \in States : [k EXCEPT !.local = i, !.state = st] \in Record
           /\ \A j \in Int, st \in States : [k EXCEPT !.remote = j, !.state = st] \in Record
           /\ \A i, j \in Int, st \in States :
                 [k EXCEPT !.remote = j, !.local = i, !.state = st] \in Record
           /\ \A b \in BOOLEAN, j \in Int, st \in States :
                 [k EXCEPT !.timer = b, !.remote = j, !.state = st] \in Record
           /\ \A b \in BOOLEAN, i, j \in Int, st \in States :
                 [k EXCEPT !.timer = b, !.remote = j, !.local = i, !.state = st] \in Record
  BY DEF Record

LEMMA TimerSet ==
    ASSUME NEW k \in Record, NEW b \in BOOLEAN
    PROVE  LET k2 == [k EXCEPT !.timer = b] IN
           /\ k2 \in Record /\ k2.timer = b /\ k2.state = k.state
           /\ k2.local = k.local /\ k2.remote = k.remote /\ k2.rtx = k.rtx
  BY DEF Record

\* A slot's record is replaced.
LEMMA Replaced ==
    ASSUME NEW f \in [Slot -> Record], NEW c \in Slot, NEW k \in Record
    PROVE  /\ [f EXCEPT ![c] = k] \in [Slot -> Record]
           /\ [f EXCEPT ![c] = k][c] = k
           /\ [f EXCEPT ![c] = k][Peer(c)] = f[Peer(c)]
  BY Peers

LEMMA SendTypes ==
    ASSUME TypeOK, NEW c \in Slot, NEW k \in Record, NEW d \in Unit, NEW q \in Seq(Frame),
           SendData(c, k, d, q)
    PROVE  /\ conn' \in [Slot -> Record] /\ queue' \in Seq(Frame)
           /\ sent' \in [Slot -> Seq(Unit)] /\ faults' \in Nat
  <1> DEFINE s == Segment(c, {"psh", "ack"}, k.local, k.remote, d)
             k2 == [k EXCEPT !.local = @ + 1]
             k3 == [k2 EXCEPT !.timer = TRUE, !.rtx = Armed(k.local, d)]
  <1>1. k.local \in Int /\ k.remote \in Int /\ d \in Payload /\ {"psh", "ack"} \in Kinds
    BY DEF Record, Payload, Kinds
  <1>2. s \in Frame
    BY <1>1, SegmentTypes
  <1>3. Queued(q, s) \in Seq(Frame)
    BY <1>2, AfterQueued
  <1>4. k2 \in Record /\ k3 \in Record
    <2>1. Armed(k.local, d) \in Rtx /\ k.local + 1 \in Int
      BY <1>1 DEF Armed, Rtx
    <2>2. k2 \in Record
      BY <1>1, <2>1 DEF Record
    <2> HIDE DEF k2
    <2> QED
      BY <2>1, <2>2, Updated
  <1> HIDE DEF s, k2, k3
  <1>5. conn' \in {[conn EXCEPT ![c] = k2], [conn EXCEPT ![c] = k3]}
        /\ queue' \in {q, Queued(q, s)} /\ faults' \in {faults, faults + 1}
        /\ sent' = [sent EXCEPT ![c] = Append(@, d)]
    BY DEF SendData, s, k2, k3
  <1>6. conn' \in [Slot -> Record]
    <2>1. conn \in [Slot -> Record]
      BY DEF TypeOK
    <2>2. [conn EXCEPT ![c] = k2] \in [Slot -> Record]
      BY <1>4, <2>1
    <2>3. [conn EXCEPT ![c] = k3] \in [Slot -> Record]
      BY <1>4, <2>1
    <2> QED
      BY <1>5, <2>2, <2>3, Zenon
  <1> QED
    BY <1>3, <1>5, <1>6 DEF TypeOK

\* A branch that replaces the slot's record and replies.
LEMMA AnswerTypes ==
    ASSUME TypeOK, queue # <<>>, NEW c \in Slot, NEW k \in Record,
           \/ Silent(c, k)
           \/ \E s \in Frame : Answers(c, k, s)
    PROVE  TypeOK'
  <1>1. Tail(queue) \in Seq(Frame)
    BY AfterHead DEF TypeOK
  <1>2. conn' = [conn EXCEPT ![c] = k] /\ UNCHANGED <<sent, got, sessions, faults>>
    BY DEF Silent, Answers
  <1>3. queue' \in Seq(Frame)
    <2>1. CASE Silent(c, k)
      BY <1>1, <2>1 DEF Silent
    <2>2. CASE \E s \in Frame : Answers(c, k, s)
      BY <1>1, <2>2, AfterQueued, ZenonT(60) DEF Answers
    <2> QED
      BY <2>1, <2>2
  <1> QED
    BY <1>2, <1>3, Replaced DEF TypeOK

LEMMA HeadFrame ==
    ASSUME TypeOK, NEW c \in Slot, NEW s, NEW S, Taken(c, s, S)
    PROVE  queue # <<>> /\ queue[1] = s /\ s \in ToSet(queue) /\ s \in Frame /\ s.to = c
           /\ conn[c].state \in S
           /\ s.flags \in Kinds /\ s.seq \in Int /\ s.ack \in Int /\ s.data \in Payload
  <1>1. queue # <<>> /\ s = Head(queue) /\ s.to = c /\ conn[c].state \in S
    BY DEF Taken
  <1>2. s \in Frame /\ queue[1] = s /\ s \in ToSet(queue)
    BY <1>1, AfterHead, QueueFrames DEF TypeOK
  <1> QED
    BY <1>1, <1>2 DEF Frame

\* The branches but Data.
LEMMA HandledTypes ==
    ASSUME TypeOK, NEW c \in Slot, NEW s,
           \/ PassiveSyn(c, s) \/ SynAcked(c, s) \/ SimultaneousSyn(c, s) \/ HandshakeDone(c, s)
           \/ Acked(c, s) \/ Fin(c, s) \/ FinWait(c, s) \/ Closing(c, s)
    PROVE  TypeOK'
  <1>1. /\ conn[c] \in Record /\ ServerIsn \in Int /\ NoData \in Payload
        /\ conn[c].local \in Int /\ conn[c].local + 1 \in Int /\ conn[c].timer \in BOOLEAN
    BY SlotTypes, TcpAssumption DEF Payload
  <1>2. {"syn", "ack"} \in Kinds /\ {"ack"} \in Kinds /\ {"ack", "fin"} \in Kinds
    BY DEF Kinds
  <1>3. /\ "syn_rcvd" \in States /\ "established" \in States /\ "fin_wait" \in States
        /\ "closing" \in States /\ "closed_final" \in States
    BY DEF States
  <1>4. CASE PassiveSyn(c, s)
    <2> DEFINE k == [conn[c] EXCEPT !.remote = s.seq + 1, !.local = ServerIsn, !.state = "syn_rcvd"]
               r == Segment(c, {"syn", "ack"}, k.local, k.remote, NoData)
    <2>1. queue # <<>> /\ s.seq + 1 \in Int
      BY <1>4, HeadFrame DEF PassiveSyn
    <2>2. k \in Record
      BY <1>1, <1>3, <2>1, Updated
    <2>3. Answers(c, k, r)
      BY <1>4 DEF PassiveSyn
    <2> HIDE DEF k
    <2>4. r \in Frame
      BY <1>1, <1>2, <2>2, SegmentTypes DEF Record
    <2> QED
      BY <2>1, <2>2, <2>3, <2>4, AnswerTypes
  <1>5. CASE SynAcked(c, s)
    <2> DEFINE k == [conn[c] EXCEPT !.timer = FALSE, !.remote = s.seq + 1,
                                    !.local = SynCounted(conn[c]), !.state = "established"]
               r == Segment(c, {"ack"}, k.local, k.remote, NoData)
    <2>1. queue # <<>> /\ s.seq + 1 \in Int
      BY <1>5, HeadFrame, SMTT(30) DEF SynAcked
    <2>2. k \in Record
      BY <1>1, <1>3, <2>1, Updated DEF SynCounted
    <2>3. Answers(c, k, r)
      BY <1>5 DEF SynAcked
    <2> HIDE DEF k
    <2>4. r \in Frame
      BY <1>1, <1>2, <2>2, SegmentTypes DEF Record
    <2> QED
      BY <2>1, <2>2, <2>3, <2>4, AnswerTypes
  <1>6. CASE SimultaneousSyn(c, s)
    <2> DEFINE k == [conn[c] EXCEPT !.timer = FALSE, !.remote = s.seq + 1, !.state = "syn_rcvd"]
               r == Segment(c, {"syn", "ack"}, k.local, k.remote, NoData)
    <2>1. queue # <<>> /\ s.seq + 1 \in Int
      BY <1>6, HeadFrame, SMTT(30) DEF SimultaneousSyn
    <2>2. k \in Record
      BY <1>1, <1>3, <2>1, Updated
    <2>3. Answers(c, k, r)
      BY <1>6 DEF SimultaneousSyn
    <2> HIDE DEF k
    <2>4. r \in Frame
      BY <1>1, <1>2, <2>2, SegmentTypes DEF Record
    <2> QED
      BY <2>1, <2>2, <2>3, <2>4, AnswerTypes
  <1>7. CASE HandshakeDone(c, s)
    <2> DEFINE k == [conn[c] EXCEPT !.local = SynCounted(conn[c]), !.state = "established"]
    <2>1. k \in Record
      BY <1>1, <1>3, Updated DEF SynCounted
    <2>2. Silent(c, k) /\ queue # <<>>
      BY <1>7, SMTT(30) DEF HandshakeDone, Taken
    <2> HIDE DEF k
    <2> QED
      BY <2>1, <2>2, AnswerTypes
  <1>8. CASE Acked(c, s)
    <2> DEFINE k == [conn[c] EXCEPT !.timer = @ /\ ~Covers(s, conn[c].rtx)]
    <2>1. k \in Record
      BY <1>1, Updated
    <2>2. Silent(c, k) /\ queue # <<>>
      BY <1>8 DEF Acked, Taken
    <2> HIDE DEF k
    <2> QED
      BY <2>1, <2>2, AnswerTypes
  <1>9. CASE Fin(c, s)
    <2> DEFINE k == [conn[c] EXCEPT !.remote = s.seq + 1, !.state = "fin_wait"]
               k2 == [k EXCEPT !.local = @ + 1]
               r == Segment(c, {"ack", "fin"}, k.local, k.remote, NoData)
    <2>1. queue # <<>> /\ s.seq + 1 \in Int
      BY <1>9, HeadFrame DEF Fin
    <2>2. k \in Record
      BY <1>1, <1>3, <2>1, Updated
    <2>3. Answers(c, k2, r)
      BY <1>9 DEF Fin
    <2> HIDE DEF k
    <2>4. k.local + 1 \in Int
      BY <2>2 DEF Record
    <2>5. k2 \in Record
      BY <2>2, <2>4, Updated
    <2>6. r \in Frame
      BY <1>1, <1>2, <2>2, SegmentTypes DEF Record
    <2> QED
      BY <2>1, <2>3, <2>5, <2>6, AnswerTypes
  <1>10. CASE FinWait(c, s)
    <2> DEFINE k2 == [conn[c] EXCEPT !.remote = s.seq + 1,
                         !.state = IF FinAcked(conn[c], s) THEN "closed_final" ELSE "closing"]
               k3 == IF FinAcked(conn[c], s) THEN [conn[c] EXCEPT !.state = "closed_final"]
                     ELSE conn[c]
               r == Segment(c, {"ack"}, k2.local, k2.remote, NoData)
    <2>1. queue # <<>> /\ s.seq + 1 \in Int
      BY <1>10, HeadFrame, SMTT(30) DEF FinWait
    <2>2. k2 \in Record /\ k3 \in Record
      BY <1>1, <1>3, <2>1, Updated, ZenonT(60)
    <2>3. Answers(c, k2, r) \/ Silent(c, k3)
      BY <1>10 DEF FinWait
    <2> HIDE DEF k2, k3
    <2>4. r \in Frame
      BY <1>1, <1>2, <2>2, SegmentTypes DEF Record
    <2> QED
      BY <2>1, <2>2, <2>3, <2>4, AnswerTypes
  <1>11. CASE Closing(c, s)
    <2> DEFINE k == [conn[c] EXCEPT !.state = "closed_final"]
    <2>1. k \in Record
      BY <1>1, <1>3, Updated
    <2>2. Silent(c, k) /\ queue # <<>>
      BY <1>11 DEF Closing, Taken
    <2> HIDE DEF k
    <2> QED
      BY <2>1, <2>2, AnswerTypes
  <1> QED
    BY <1>4, <1>5, <1>6, <1>7, <1>8, <1>9, <1>10, <1>11

LEMMA RetransmitTypes ==
    ASSUME TypeOK, NEW c \in Slot, Retransmit(c)
    PROVE  TypeOK'
  <1> DEFINE k == conn[c]
             r == k.rtx
             s == IF r.data = NoData THEN Segment(c, {"syn"}, r.seq, 0, NoData)
                  ELSE Segment(c, {"psh", "ack"}, r.seq, k.remote, r.data)
  <1>1. k \in Record /\ r \in Rtx /\ NoData \in Payload /\ k.remote \in Int /\ k.state \in States
    BY SlotTypes DEF TypeOK, Record, Payload
  <1>2. {"syn"} \in Kinds /\ {"psh", "ack"} \in Kinds /\ "closed" \in States
    BY DEF Kinds, States
  <1>3. r.seq \in Int /\ r.data \in Payload /\ r.count \in Nat
    BY <1>1 DEF Rtx
  <1>4. s \in Frame
    BY <1>1, <1>2, <1>3, SegmentTypes
  <1>5. UNCHANGED <<sent, got, sessions, faults>>
    BY DEF Retransmit
  <1>6. CASE GivenUp(r)
    <2> DEFINE st == IF k.state = "syn_sent" THEN "closed" ELSE k.state
               k2 == [k EXCEPT !.timer = FALSE, !.state = st]
    <2>1. st \in States
      BY <1>1, <1>2
    <2>2. conn' = [conn EXCEPT ![c] = k2] /\ queue' = queue
      BY <1>1, <1>6 DEF Retransmit, TypeOK, Record
    <2> HIDE DEF st
    <2>3. k2 \in Record
      BY <1>1, <2>1 DEF Record
    <2> QED
      BY <1>5, <2>2, <2>3, Replaced DEF TypeOK
  <1>7. CASE ~GivenUp(r)
    <2> DEFINE r2 == [r EXCEPT !.count = @ + 1]
               k2 == [k EXCEPT !.rtx = r2]
    <2>1. conn' = [conn EXCEPT ![c] = k2] /\ queue' = Queued(queue, s)
      BY <1>1, <1>7 DEF Retransmit, TypeOK
    <2>2. r2 \in Rtx
      BY <1>1, <1>3 DEF Rtx
    <2> HIDE DEF r2
    <2>3. k2 \in Record
      BY <1>1, <2>2 DEF Record
    <2> HIDE DEF s, k2
    <2>4. queue' \in Seq(Frame)
      BY <1>4, <2>1, AfterQueued DEF TypeOK
    <2> QED
      BY <1>5, <2>1, <2>3, <2>4, Replaced DEF TypeOK
  <1> QED
    BY <1>6, <1>7

\* A session begins with numbers and an empty account.
LEMMA OpenTypes ==
    ASSUME NEW k \in Record, NEW isn \in Int
    PROVE  /\ ActiveOpen(k, isn) \in Record /\ PassiveOpen(k) \in Record
           /\ ActiveOpen(k, isn).state = "syn_sent" /\ PassiveOpen(k).state = "closed"
           /\ ActiveOpen(k, isn).rtx = Armed(isn, NoData) /\ ActiveOpen(k, isn).timer
           /\ PassiveOpen(k).rtx = k.rtx /\ PassiveOpen(k).timer = k.timer
  <1> DEFINE r == Armed(isn, NoData)
  <1>1. "syn_sent" \in States /\ "closed" \in States /\ 0 \in Int /\ TRUE \in BOOLEAN
    BY DEF States
  <1>2. r \in Rtx
    BY DEF Armed, Rtx, Payload
  <1>3. ActiveOpen(k, isn) = [k EXCEPT !.state = "syn_sent", !.local = isn, !.remote = 0,
                                       !.timer = TRUE, !.rtx = r]
    BY DEF ActiveOpen
  <1>4. PassiveOpen(k) = [k EXCEPT !.state = "closed"]
    BY DEF PassiveOpen
  <1> HIDE DEF r
  <1>5. ActiveOpen(k, isn) \in Record
    <2>1. ActiveOpen(k, isn) = [state |-> "syn_sent", local |-> isn, remote |-> 0,
                                timer |-> TRUE, rtx |-> r]
      BY <1>3 DEF Record
    <2> QED
      BY <1>1, <1>2, <2>1 DEF Record
  <1>6. PassiveOpen(k) \in Record
    BY <1>1, <1>4 DEF Record
  <1>7. /\ ActiveOpen(k, isn).state = "syn_sent" /\ ActiveOpen(k, isn).rtx = r
        /\ ActiveOpen(k, isn).timer
    BY <1>3 DEF Record
  <1>8. /\ PassiveOpen(k).state = "closed" /\ PassiveOpen(k).rtx = k.rtx
        /\ PassiveOpen(k).timer = k.timer
    BY <1>4 DEF Record
  <1> QED
    BY <1>5, <1>6, <1>7, <1>8 DEF r

LEMMA ConnectTypes ==
    ASSUME TypeOK, Connect \/ ConnectBoth
    PROVE  TypeOK'
  <1>1. /\ sessions \in 0 .. MaxSessions /\ sessions + 1 \in Nat
        /\ ClientIsn(sessions) \in Int /\ ServerIsn \in Int /\ NoData \in Payload
        /\ {"syn"} \in Kinds /\ 0 \in Slot /\ 1 \in Slot
        /\ conn[0] \in Record /\ conn[1] \in Record
    BY TcpAssumption DEF TypeOK, Connect, ConnectBoth, Payload, Kinds, Slot
  <1>2. CASE Connect
    <2> DEFINE s == Segment(0, {"syn"}, ClientIsn(sessions), 0, NoData)
    <2>1. /\ conn' = [c \in Slot |-> IF c = 0 THEN ActiveOpen(conn[0], ClientIsn(sessions))
                                     ELSE PassiveOpen(conn[1])]
          /\ sent' = [c \in Slot |-> <<>>] /\ got' = [c \in Slot |-> <<>>]
          /\ queue' = Queued(queue, s) /\ sessions' = sessions + 1 /\ faults' = faults
      BY <1>2 DEF Connect
    <2>2. conn' \in [Slot -> Record]
      BY <1>1, <2>1, OpenTypes DEF Slot
    <2>3. queue' \in Seq(Frame)
      BY <1>1, <2>1, SegmentTypes, AfterQueued DEF TypeOK
    <2> QED
      BY <1>1, <2>1, <2>2, <2>3 DEF TypeOK
  <1>3. CASE ConnectBoth
    <2> DEFINE s == Segment(0, {"syn"}, ClientIsn(0), 0, NoData)
               u == Segment(1, {"syn"}, ServerIsn, 0, NoData)
               isn == [c \in Slot |-> IF c = 0 THEN ClientIsn(0) ELSE ServerIsn]
    <2>1. /\ conn' = [c \in Slot |-> ActiveOpen(conn[c], isn[c])]
          /\ queue' = queue \o <<s, u>> /\ sessions' = 1
          /\ UNCHANGED <<sent, got, faults>> /\ sessions = 0
      BY <1>3 DEF ConnectBoth, Slot
    <2>2. s \in Frame /\ u \in Frame
      BY <1>1, <2>1, SegmentTypes
    <2>3. conn' \in [Slot -> Record]
      BY <1>1, <2>1, OpenTypes DEF Slot
    <2> HIDE DEF s, u
    <2>4. queue' \in Seq(Frame)
      BY <2>1, <2>2 DEF TypeOK
    <2> QED
      BY <2>1, <2>3, <2>4 DEF TypeOK
  <1> QED
    BY <1>2, <1>3

LEMMA CloseTypes ==
    ASSUME TypeOK, NEW c \in Slot, Close(c)
    PROVE  TypeOK'
  <1> DEFINE k == [conn[c] EXCEPT !.local = @ + 1, !.state = "fin_wait"]
             s == Segment(c, {"fin", "ack"}, conn[c].local, conn[c].remote, NoData)
  <1>1. /\ conn[c] \in Record /\ conn[c].local \in Int /\ conn[c].local + 1 \in Int
        /\ conn[c].remote \in Int /\ "fin_wait" \in States /\ {"fin", "ack"} \in Kinds
        /\ NoData \in Payload
    BY SlotTypes DEF States, Kinds, Payload
  <1>2. k \in Record
    BY <1>1, Updated
  <1>3. s \in Frame
    BY <1>1, SegmentTypes
  <1>4. conn' = [conn EXCEPT ![c] = k] /\ queue' = Queued(queue, s)
        /\ UNCHANGED <<sent, got, sessions, faults>>
    BY <1>1 DEF Close, TypeOK, Record
  <1> HIDE DEF k, s
  <1> QED
    BY <1>2, <1>3, <1>4, Replaced, AfterQueued DEF TypeOK

---------------------------------------------------------------------------
(* The invariant.                                                          *)

\* The units are the first ones of this session.
Numbered(w) == \A n \in 1 .. Len(w) : w[n] = <<sessions, n>>

\* Nothing is delivered that was not sent, and slot 1 echoes what it gets.
Counted ==
    /\ \A c \in Slot :
          /\ Numbered(sent[c]) /\ Numbered(got[c])
          /\ Len(got[c]) <= Len(sent[Peer(c)])
    /\ Len(sent[1]) = Len(got[1])

\* The sequence number c began with, and the one its peer began with as c has
\* it: SYN, FIN and each unit take one.
Number(c) ==
    conn[c].local - Len(sent[c])
        - (IF conn[c].state \in Finished THEN 2
           ELSE IF conn[c].state = "established" THEN 1 ELSE 0)

Known(c) == conn[c].remote - 1 - Len(got[c])

\* What a frame says is true of the slot that sent it.
GoodFrame(s) ==
    LET p == Peer(s.to) IN
    /\ "ack" \in s.flags =>
          /\ conn[p].state \in Synced
          /\ Known(p) < s.ack /\ s.ack <= conn[p].remote
    /\ "fin" \in s.flags => conn[p].state \in Finished
    /\ "psh" \in s.flags =>
          /\ s.seq - Number(p) \in 1 .. Len(sent[p])
          /\ s.data = <<sessions, s.seq - Number(p)>>

\* Until a first SYN is taken, frames of an earlier session may be in front of
\* it; neither slot listens to them.
Opening == conn[1].state = "closed" /\ conn[0].state \in {"closed", "syn_sent"}

Frames ==
    \A s \in ToSet(queue) : GoodFrame(s) \/ (Opening /\ "syn" \notin s.flags)

SynLast(q) ==
    \A m, n \in 1 .. Len(q) : m < n /\ "syn" \in q[m].flags => "syn" \in q[n].flags

OldFirst == Opening => SynLast(queue)

\* A slot whose SYN was acknowledged has a peer that knows its number.
Shaken(c) ==
    conn[c].state \in Opened =>
        conn[Peer(c)].state \in Synced /\ Known(Peer(c)) = Number(c)

NothingYet ==
    (\E c \in Slot : conn[c].state \notin Opened) =>
        \A c \in Slot : sent[c] = <<>> /\ got[c] = <<>>

\* What is kept for retransmission is a unit of this session at its place, and
\* has been delivered, unless it still is to be retransmitted or was given up.
Kept(c) ==
    LET k == conn[c]
        r == k.rtx
        n == r.seq - Number(c) IN
    /\ k.timer /\ r.data # NoData => r.data[1] = sessions
    /\ r.data # NoData /\ r.data[1] = sessions =>
          /\ n \in 1 .. Len(sent[c]) /\ r.data[2] = n
          /\ k.timer \/ r.count >= MaxRetries \/ n <= Len(got[Peer(c)])

\* As long as one of the slots has not finished.
Talking ==
    /\ Frames /\ OldFirst /\ NothingYet
    /\ \A c \in Slot :
          conn[c].state \notin {"closing", "closed_final"} /\ Shaken(c) /\ Kept(c)

BothFinished == \A c \in Slot : conn[c].state \in Finished

\* There are no units of later sessions.
NoneLater ==
    \A c \in Slot : conn[c].rtx.data # NoData => conn[c].rtx.data[1] <= sessions

BeforeAll ==
    sessions = 0 =>
        queue = <<>> /\ \A c \in Slot : conn[c].state = "closed" /\ ~conn[c].timer

TcpInv ==
    /\ TypeOK /\ Counted /\ NoneLater /\ BeforeAll
    /\ BothFinished \/ Talking

---------------------------------------------------------------------------
(* What a step within a session does to a slot.                            *)

\* A synchronised slot stays so, keeps both numbers and goes on.
Onward(p) ==
    conn[p].state \in Synced =>
        /\ conn'[p].state \in Synced
        /\ conn[p].state \in Opened => conn'[p].state \in Opened
        /\ conn[p].state \in Finished => conn'[p].state \in Finished
        /\ Known(p)' = Known(p) /\ conn[p].remote <= conn'[p].remote
        /\ Number(p)' = Number(p) /\ Len(sent[p]) <= Len(sent'[p])

LEMMA NumberTypes ==
    ASSUME TypeOK, NEW c \in Slot
    PROVE  Number(c) \in Int /\ Known(c) \in Int
  <1>1. /\ conn[c].local \in Int /\ conn[c].remote \in Int
        /\ Len(sent[c]) \in Nat /\ Len(got[c]) \in Nat
    BY SlotTypes
  <1> DEFINE l == conn[c].local
             n == Len(sent[c])
             e == IF conn[c].state \in Finished THEN 2
                  ELSE IF conn[c].state = "established" THEN 1 ELSE 0
  <1>2. Number(c) = l - n - e /\ e \in Int
    BY DEF Number
  <1>3. l \in Int /\ n \in Int
    BY <1>1
  <1> HIDE DEF l, n, e
  <1>4. l - n - e \in Int
    BY <1>2, <1>3
  <1>5. Known(c) \in Int
    BY <1>1 DEF Known
  <1> QED
    BY <1>2, <1>4, <1>5

\* A slot that the step leaves alone.
LEMMA OnwardSame ==
    ASSUME TypeOK, NEW p \in Slot, conn'[p] = conn[p], sent'[p] = sent[p], got'[p] = got[p]
    PROVE  Onward(p) /\ Known(p)' = Known(p) /\ Number(p)' = Number(p)
  <1>1. conn[p].remote \in Int /\ Len(sent[p]) \in Nat
    BY SlotTypes
  <1>2. Known(p)' = Known(p) /\ Number(p)' = Number(p)
    BY DEF Known, Number
  <1> QED
    BY <1>1, <1>2 DEF Onward

\* A frame that was right stays so.
LEMMA GoodOn ==
    ASSUME TypeOK, TypeOK', sessions' = sessions, NEW s \in Frame, GoodFrame(s),
           \A p \in Slot : Onward(p)
    PROVE  GoodFrame(s)'
  <1> DEFINE p == Peer(s.to)
  <1>1. p \in Slot /\ s.ack \in Int /\ s.seq \in Int /\ s.flags \in Kinds
    BY Peers DEF Frame
  <1> HIDE DEF p
  <1>2. /\ Known(p) \in Int /\ Known(p)' \in Int /\ Number(p) \in Int
        /\ conn[p].remote \in Int /\ conn'[p].remote \in Int
        /\ Len(sent[p]) \in Nat /\ Len(sent'[p]) \in Nat
    <2>1. conn'[p].remote \in Int /\ Len(sent'[p]) \in Nat
      BY <1>1 DEF TypeOK, Record
    <2>2. Known(p)' \in Int
      BY <1>1, <2>1 DEF Known, TypeOK
    <2> QED
      BY <1>1, <2>1, <2>2, SlotTypes, NumberTypes
  <1>3. "psh" \in s.flags \/ "fin" \in s.flags => "ack" \in s.flags
    BY <1>1 DEF Kinds
  <1>4. /\ "ack" \in s.flags =>
              conn[p].state \in Synced /\ Known(p) < s.ack /\ s.ack <= conn[p].remote
        /\ "fin" \in s.flags => conn[p].state \in Finished
        /\ "psh" \in s.flags =>
              /\ s.seq - Number(p) \in 1 .. Len(sent[p])
              /\ s.data = <<sessions, s.seq - Number(p)>>
    BY DEF GoodFrame, p
  <1>5. "ack" \in s.flags =>
           /\ conn'[p].state \in Synced
           /\ conn[p].state \in Finished => conn'[p].state \in Finished
           /\ Known(p)' = Known(p) /\ conn[p].remote <= conn'[p].remote
           /\ Number(p)' = Number(p) /\ Len(sent[p]) <= Len(sent'[p])
    BY <1>1, <1>4 DEF Onward
  <1>6. "ack" \in s.flags =>
           conn'[p].state \in Synced /\ Known(p)' < s.ack /\ s.ack <= conn'[p].remote
    BY <1>1, <1>2, <1>4, <1>5
  <1>7. "fin" \in s.flags => conn'[p].state \in Finished
    BY <1>3, <1>4, <1>5
  <1>8. "psh" \in s.flags =>
           /\ s.seq - Number(p)' \in 1 .. Len(sent'[p])
           /\ s.data = <<sessions', s.seq - Number(p)'>>
    BY <1>1, <1>2, <1>3, <1>4, <1>5, SMTT(30)
  <1> QED
    BY <1>6, <1>7, <1>8 DEF GoodFrame, p

\* The frames in the queue are right when each was there or is right.
LEMMA FramesOn ==
    ASSUME TypeOK, TypeOK', sessions' = sessions, Frames, \A p \in Slot : Onward(p),
           Opening => Opening',
           \A s \in Frame : s \in ToSet(queue') => s \in ToSet(queue) \/ GoodFrame(s)'
    PROVE  Frames'
  <1> SUFFICES ASSUME NEW s \in ToSet(queue')
               PROVE  GoodFrame(s)' \/ (Opening' /\ "syn" \notin s.flags)
    BY DEF Frames
  <1>1. s \in Frame
    <2>1. queue' \in Seq(Frame)
      BY DEF TypeOK
    <2> QED
      BY <2>1, QueueFrames
  <1>2. CASE s \in ToSet(queue)
    <2>1. GoodFrame(s) \/ (Opening /\ "syn" \notin s.flags)
      BY <1>2 DEF Frames
    <2> QED
      BY <1>1, <2>1, GoodOn
  <1> QED
    BY <1>1, <1>2

\* A SYN behind the others keeps the order; so does taking the first frame.
LEMMA SynLastOn ==
    ASSUME NEW q \in Seq(Frame), SynLast(q)
    PROVE  /\ q # <<>> => SynLast(Tail(q))
           /\ \A s \in Frame : "syn" \in s.flags => SynLast(Queued(q, s))
  <1>1. ASSUME q # <<>> PROVE SynLast(Tail(q))
    <2> SUFFICES ASSUME NEW m \in 1 .. Len(Tail(q)), NEW n \in 1 .. Len(Tail(q)),
                        m < n, "syn" \in Tail(q)[m].flags
                 PROVE  "syn" \in Tail(q)[n].flags
      BY DEF SynLast
    <2>1. /\ m + 1 \in 1 .. Len(q) /\ Tail(q)[m] = q[m + 1]
          /\ n + 1 \in 1 .. Len(q) /\ Tail(q)[n] = q[n + 1]
      BY <1>1, AfterHead
    <2>2. m + 1 < n + 1
      OBVIOUS
    <2> QED
      BY <2>1, <2>2 DEF SynLast
  <1>2. ASSUME NEW s \in Frame, "syn" \in s.flags PROVE SynLast(Queued(q, s))
    <2> DEFINE q2 == Queued(q, s)
    <2>1. /\ Len(q) \in Nat /\ Len(q2) \in {Len(q), Len(q) + 1}
          /\ \A n \in 1 .. Len(q) : q2[n] = q[n]
          /\ \A n \in 1 .. Len(q2) : n > Len(q) => q2[n] = s
      BY AfterQueued
    <2> HIDE DEF q2
    <2> SUFFICES ASSUME NEW m \in 1 .. Len(q2), NEW n \in 1 .. Len(q2),
                        m < n, "syn" \in q2[m].flags
                 PROVE  "syn" \in q2[n].flags
      BY DEF SynLast, q2
    <2>2. CASE n > Len(q)
      BY <1>2, <2>1, <2>2
    <2>3. CASE n <= Len(q)
      BY <2>1, <2>3 DEF SynLast
    <2> QED
      BY <2>1, <2>2, <2>3
  <1> QED
    BY <1>1, <1>2

\* Once the first frame is one that the slots listen to, all of them are right.
LEMMA AllGood ==
    ASSUME TypeOK, Frames, OldFirst, queue # <<>>, Opening => "syn" \in queue[1].flags
    PROVE  \A s \in ToSet(queue) : GoodFrame(s)
  <1>1. CASE ~Opening
    BY <1>1 DEF Frames
  <1>2. CASE Opening
    <2>1. SynLast(queue) /\ "syn" \in queue[1].flags
      BY <1>2 DEF OldFirst
    <2>2. ToSet(queue) = {queue[n] : n \in 1 .. Len(queue)} /\ Len(queue) \in Nat
          /\ Len(queue) >= 1
      BY QueueFrames, AfterHead DEF TypeOK
    <2>3. \A n \in 1 .. Len(queue) : "syn" \in queue[n].flags
      <3> SUFFICES ASSUME NEW n \in 1 .. Len(queue) PROVE "syn" \in queue[n].flags
        OBVIOUS
      <3>1. n = 1 \/ 1 < n
        OBVIOUS
      <3> QED
        BY <2>1, <2>2, <3>1 DEF SynLast
    <2> QED
      BY <2>2, <2>3 DEF Frames
  <1> QED
    BY <1>1, <1>2

\* Before both slots are open nothing was sent.
LEMMA NothingSent ==
    ASSUME TypeOK, NothingYet, NEW c \in Slot, conn[c].state \notin Opened, NEW d \in Slot
    PROVE  sent[d] = <<>> /\ got[d] = <<>> /\ Len(sent[d]) = 0 /\ Len(got[d]) = 0
  <1>1. sent[d] = <<>> /\ got[d] = <<>>
    BY DEF NothingYet
  <1> QED
    BY <1>1

\* What is kept stays right through a step that keeps it.
LEMMA KeptOn ==
    ASSUME TypeOK, TypeOK', sessions' = sessions, NothingYet, NEW c \in Slot, Kept(c), Onward(c),
           conn'[c].timer => conn[c].timer,
           conn'[c].rtx.seq = conn[c].rtx.seq, conn'[c].rtx.data = conn[c].rtx.data,
           conn'[c].rtx.count >= conn[c].rtx.count,
           Len(got[Peer(c)]) <= Len(got'[Peer(c)]),
           \/ conn'[c].timer = conn[c].timer
           \/ conn'[c].rtx.count >= MaxRetries
           \/ conn[c].rtx.data # NoData => conn[c].rtx.seq - Number(c) <= Len(got[Peer(c)])
           \/ conn[c].state \notin Opened
    PROVE  Kept(c)'
  <1> DEFINE r == conn[c].rtx
             n == r.seq - Number(c)
  <1>1. /\ conn[c].timer /\ r.data # NoData => r.data[1] = sessions
        /\ r.data # NoData /\ r.data[1] = sessions =>
              /\ n \in 1 .. Len(sent[c]) /\ r.data[2] = n
              /\ conn[c].timer \/ r.count >= MaxRetries \/ n <= Len(got[Peer(c)])
    BY DEF Kept
  <1>2. CASE conn[c].state \notin Opened
    <2>1. Len(sent[c]) = 0
      BY <1>2, NothingSent
    <2>2. ~(r.data # NoData /\ r.data[1] = sessions)
      BY <1>1, <2>1
    <2> QED
      BY <1>1, <2>2 DEF Kept
  <1>3. CASE conn[c].state \in Opened
    <2>1. Number(c)' = Number(c) /\ Len(sent[c]) <= Len(sent'[c])
      BY <1>3 DEF Onward, Opened
    <2>2. /\ r.count \in Nat /\ conn'[c].rtx.count \in Nat /\ MaxRetries \in Nat
          /\ Len(got[Peer(c)]) \in Nat /\ Len(got'[Peer(c)]) \in Nat
          /\ Len(sent[c]) \in Nat /\ Len(sent'[c]) \in Nat /\ n \in Int
      <3>1. conn'[c].rtx.count \in Nat /\ Len(got'[Peer(c)]) \in Nat /\ Len(sent'[c]) \in Nat
        BY Peers, NextTypes
      <3>2. n \in Int /\ r.count \in Nat /\ Len(sent[c]) \in Nat /\ Len(got[Peer(c)]) \in Nat
        BY SlotTypes, NumberTypes, Peers
      <3> QED
        BY <3>1, <3>2, TcpAssumption
    <2>3. conn'[c].rtx.seq - Number(c)' = n
      BY <2>1
    <2> HIDE DEF n
    <2>4. ASSUME r.data # NoData, r.data[1] = sessions
          PROVE  /\ n \in 1 .. Len(sent'[c]) /\ r.data[2] = n
                 /\ conn'[c].timer \/ conn'[c].rtx.count >= MaxRetries \/ n <= Len(got'[Peer(c)])
      BY <1>1, <1>3, <2>1, <2>2, <2>4, SMTT(30) DEF n
    <2>5. conn'[c].timer /\ r.data # NoData => r.data[1] = sessions
      BY <1>1
    <2>6. /\ conn'[c].rtx.data = r.data /\ sessions' = sessions
      OBVIOUS
    <2> HIDE DEF r
    <2> QED
      BY <2>3, <2>4, <2>5, <2>6 DEF Kept
  <1> QED
    BY <1>2, <1>3

\* The conversation goes on.
LEMMA TalkingOn ==
    ASSUME TypeOK, TypeOK', sessions' = sessions, Talking, Frames', OldFirst',
           \A c \in Slot :
              /\ Onward(c) /\ Kept(c)' /\ conn'[c].state \notin {"closing", "closed_final"}
              /\ conn[c].state \notin Opened /\ conn'[c].state \in Opened =>
                    conn[Peer(c)].state \in Synced /\ Known(Peer(c)) = Number(c)',
           (\E c \in Slot : conn'[c].state \notin Opened) => UNCHANGED <<sent, got>>
    PROVE  Talking'
  <1>1. NothingYet'
    <2> SUFFICES ASSUME NEW c \in Slot, conn'[c].state \notin Opened
                 PROVE  \A d \in Slot : sent'[d] = <<>> /\ got'[d] = <<>>
      BY DEF NothingYet
    <2>1. conn[c].state \notin Opened
      BY DEF Onward, Opened
    <2>2. sent' = sent /\ got' = got
      OBVIOUS
    <2> QED
      BY <2>1, <2>2 DEF Talking, NothingYet
  <1>2. ASSUME NEW c \in Slot PROVE Shaken(c)'
    <2> DEFINE p == Peer(c)
    <2> SUFFICES ASSUME conn'[c].state \in Opened
                 PROVE  conn'[p].state \in Synced /\ Known(p)' = Number(c)'
      BY DEF Shaken
    <2>1. p \in Slot
      BY Peers
    <2>2. conn[p].state \in Synced /\ Known(p) = Number(c)'
      <3>1. CASE conn[c].state \in Opened
        <4>1. conn[p].state \in Synced /\ Known(p) = Number(c)
          BY <3>1 DEF Talking, Shaken
        <4>2. Number(c)' = Number(c)
          BY <3>1 DEF Onward, Opened
        <4> QED
          BY <4>1, <4>2
      <3> QED
        BY <3>1
    <2> QED
      BY <2>1, <2>2 DEF Onward
  <1> QED
    BY <1>1, <1>2 DEF Talking

---------------------------------------------------------------------------
(* The steps, as long as one of the slots has not finished.                *)

\* A step that delivers nothing keeps the account.
LEMMA AccountOn ==
    ASSUME TypeOK, Counted, NoneLater, sessions # 0, UNCHANGED <<sent, got, sessions>>,
           \A d \in Slot : conn'[d].rtx.data = conn[d].rtx.data
    PROVE  Counted' /\ NoneLater' /\ BeforeAll'
  <1>1. Counted'
    BY DEF Counted, Numbered
  <1>2. NoneLater'
    BY DEF NoneLater
  <1> QED
    BY <1>1, <1>2 DEF BeforeAll

\* As FramesOn, when the step ends the opening.
LEMMA FramesGood ==
    ASSUME TypeOK, TypeOK', sessions' = sessions, \A s \in ToSet(queue) : GoodFrame(s),
           \A p \in Slot : Onward(p),
           \A s \in Frame : s \in ToSet(queue') => s \in ToSet(queue) \/ GoodFrame(s)'
    PROVE  Frames'
  <1> SUFFICES ASSUME NEW s \in ToSet(queue') PROVE GoodFrame(s)'
    BY DEF Frames
  <1>1. s \in Frame
    <2>1. queue' \in Seq(Frame)
      BY DEF TypeOK
    <2> QED
      BY <2>1, QueueFrames
  <1> QED
    BY <1>1, GoodOn

\* A slot that the step leaves alone keeps what it keeps.
LEMMA KeptSame ==
    ASSUME TypeOK, TypeOK', sessions' = sessions, NothingYet, NEW c \in Slot, Kept(c),
           conn'[c] = conn[c], sent'[c] = sent[c], got'[c] = got[c],
           Len(got[Peer(c)]) <= Len(got'[Peer(c)])
    PROVE  Kept(c)'
  <1>1. Onward(c)
    BY OnwardSame
  <1>2. conn[c].rtx.count \in Nat
    BY SlotTypes
  <1>3. conn'[c].rtx.count >= conn[c].rtx.count
    BY <1>2
  <1> QED
    BY <1>1, <1>3, KeptOn

\* The first frame goes, and nothing else happens: it was lost or ignored.
LEMMA TalkingTail ==
    ASSUME TypeOK, TypeOK', Talking, queue # <<>>, conn' = conn, queue' = Tail(queue),
           UNCHANGED <<sent, got, sessions>>
    PROVE  Talking'
  <1>1. \A p \in Slot : Onward(p)
    BY OnwardSame
  <1>2. ToSet(queue') \subseteq ToSet(queue)
    BY AfterHead DEF TypeOK
  <1>3. Frames /\ OldFirst /\ NothingYet
    BY DEF Talking
  <1>4. Opening' <=> Opening
    BY DEF Opening
  <1>5. Frames'
    BY <1>1, <1>2, <1>3, <1>4, FramesOn
  <1>6. OldFirst'
    BY <1>3, <1>4, SynLastOn DEF OldFirst, TypeOK
  <1>7. ASSUME NEW c \in Slot PROVE Kept(c)'
    <2>1. Kept(c) /\ Len(got[Peer(c)]) <= Len(got'[Peer(c)])
      BY SlotTypes, Peers DEF Talking
    <2> QED
      BY <1>3, <2>1, KeptSame
  <1>8. \A c \in Slot : conn'[c].state \notin {"closing", "closed_final"}
    BY DEF Talking
  <1> QED
    BY <1>1, <1>5, <1>6, <1>7, <1>8, TalkingOn

\* A slot synchronises: what its replies say holds of it from then on.
LEMMA TalkingShake ==
    ASSUME TypeOK, TypeOK', Talking, NEW c \in Slot,
           conn[c].state \notin Opened, conn'[c].state \in {"syn_rcvd", "established"},
           \A s \in ToSet(queue) : GoodFrame(s),
           conn'[Peer(c)] = conn[Peer(c)], UNCHANGED <<sent, got, sessions>>,
           conn'[c].rtx = conn[c].rtx, conn'[c].timer => conn[c].timer, Onward(c),
           conn'[c].state = "established" =>
              conn[Peer(c)].state \in Synced /\ Known(Peer(c)) = conn'[c].local - 1,
           \A s \in Frame : s \in ToSet(queue') => s \in ToSet(queue) \/ GoodFrame(s)'
    PROVE  Talking'
  <1> DEFINE p == Peer(c)
  <1>1. p \in Slot /\ \A d \in Slot : d = c \/ d = p
    BY Peers
  <1> HIDE DEF p
  <1>2. conn'[p] = conn[p]
    BY DEF p
  <1>3. \A d \in Slot : Onward(d)
    BY <1>1, <1>2, OnwardSame
  <1>4. NothingYet /\ \A d \in Slot : conn[d].state \notin {"closing", "closed_final"} /\ Kept(d)
    BY DEF Talking
  <1>5. Frames'
    BY <1>3, FramesGood
  <1>6. OldFirst'
    BY <1>1 DEF OldFirst, Opening, Slot
  <1>7. ASSUME NEW d \in Slot PROVE Kept(d)'
    <2>1. Len(got[Peer(d)]) <= Len(got'[Peer(d)]) /\ conn[c].rtx.count \in Nat
      BY SlotTypes, Peers
    <2>2. CASE d = p
      BY <1>2, <1>4, <2>1, <2>2, KeptSame
    <2>3. CASE d = c
      <3>1. conn'[c].rtx.count >= conn[c].rtx.count
        BY <2>1
      <3> QED
        BY <1>4, <2>1, <2>3, <3>1, KeptOn
    <2> QED
      BY <1>1, <2>2, <2>3
  <1>8. ASSUME NEW d \in Slot, conn[d].state \notin Opened, conn'[d].state \in Opened
        PROVE  conn[Peer(d)].state \in Synced /\ Known(Peer(d)) = Number(d)'
    <2>1. d = c
      BY <1>1, <1>2, <1>8
    <2>2. conn'[c].state = "established"
      BY <1>8, <2>1 DEF Opened
    <2>3. Number(c)' = conn'[c].local - 1
      <3>1. Len(sent'[c]) = 0 /\ conn'[c].local \in Int
        BY <1>4, NothingSent, NextTypes
      <3>2. "established" \notin Finished
        BY DEF Finished
      <3> QED
        BY <2>2, <3>1, <3>2 DEF Number
    <2> QED
      BY <2>1, <2>2, <2>3
  <1>9. \A d \in Slot : conn'[d].state \notin {"closing", "closed_final"}
    BY <1>1, <1>2, <1>4
  <1> QED
    BY <1>3, <1>5, <1>6, <1>7, <1>8, <1>9, TalkingOn

\* What a branch that replies makes of the slots and the queue.
LEMMA AnswerFrames ==
    ASSUME TypeOK, queue # <<>>, NEW c \in Slot, NEW k \in Record, NEW r \in Frame,
           Answers(c, k, r)
    PROVE  /\ conn'[c] = k /\ conn'[Peer(c)] = conn[Peer(c)]
           /\ ToSet(queue') \subseteq ToSet(queue) \cup {r}
           /\ UNCHANGED <<sent, got, sessions, faults>>
  <1>1. conn' = [conn EXCEPT ![c] = k] /\ queue' = Queued(Tail(queue), r)
        /\ UNCHANGED <<sent, got, sessions, faults>>
    BY DEF Answers
  <1>2. Tail(queue) \in Seq(Frame) /\ ToSet(Tail(queue)) \subseteq ToSet(queue)
    BY AfterHead DEF TypeOK
  <1>3. ToSet(queue') \subseteq ToSet(Tail(queue)) \cup {r}
    BY <1>1, <1>2, AfterQueued
  <1> QED
    BY <1>1, <1>2, <1>3, Replaced DEF TypeOK

LEMMA SilentFrames ==
    ASSUME TypeOK, queue # <<>>, NEW c \in Slot, NEW k \in Record, Silent(c, k)
    PROVE  /\ conn'[c] = k /\ conn'[Peer(c)] = conn[Peer(c)]
           /\ ToSet(queue') \subseteq ToSet(queue) /\ queue' = Tail(queue)
           /\ UNCHANGED <<sent, got, sessions, faults>>
  <1>1. conn' = [conn EXCEPT ![c] = k] /\ queue' = Tail(queue)
        /\ UNCHANGED <<sent, got, sessions, faults>>
    BY DEF Silent
  <1> QED
    BY <1>1, AfterHead, Replaced, ZenonT(60) DEF TypeOK

\* A frame that acknowledges what its sender has taken is right.
LEMMA ReplyGood ==
    ASSUME TypeOK', NEW c \in Slot, NEW r \in Frame, r.to = Peer(c),
           r.flags \in {{"ack"}, {"syn", "ack"}}, r.ack = conn'[c].remote,
           conn'[c].state \in Synced
    PROVE  GoodFrame(r)'
  <1>1. conn'[c].remote \in Int /\ Len(got'[c]) \in Nat
    BY NextTypes
  <1>2. Known(c)' < conn'[c].remote
    BY <1>1 DEF Known
  <1>3. Peer(r.to) = c /\ "fin" \notin r.flags /\ "psh" \notin r.flags
    BY Peers
  <1> QED
    BY <1>1, <1>2, <1>3 DEF GoodFrame

\* The acknowledgement of one's SYN says that the peer knows the number.
LEMMA AckIs ==
    ASSUME TypeOK, NothingYet, NEW c \in Slot, conn[c].state \notin Opened,
           NEW s \in Frame, GoodFrame(s), s.to = c, "ack" \in s.flags,
           s.ack = conn[c].local + 1
    PROVE  conn[Peer(c)].state \in Synced /\ Known(Peer(c)) = conn[c].local
  <1> DEFINE p == Peer(c)
  <1>1. /\ conn[p].state \in Synced
        /\ Known(p) < conn[c].local + 1 /\ conn[c].local + 1 <= conn[p].remote
    BY DEF GoodFrame
  <1>2. Len(got[p]) = 0 /\ conn[p].remote \in Int /\ conn[c].local \in Int
    BY NothingSent, SlotTypes, Peers
  <1>3. Known(p) = conn[p].remote - 1
    BY <1>2 DEF Known
  <1> QED
    BY <1>1, <1>2, <1>3

\* A SYN is taken and answered.
LEMMA ShakeReply ==
    ASSUME TypeOK, TypeOK', Talking, NEW c \in Slot, NEW k \in Record,
           NEW flags \in {{"ack"}, {"syn", "ack"}},
           conn[c].state \in {"closed", "syn_sent"}, queue # <<>>, "syn" \in queue[1].flags,
           Answers(c, k, Segment(c, flags, k.local, k.remote, NoData)),
           k.rtx = conn[c].rtx, k.timer => conn[c].timer, k.state \in {"syn_rcvd", "established"},
           k.state = "established" =>
              conn[Peer(c)].state \in Synced /\ Known(Peer(c)) = k.local - 1
    PROVE  Talking'
  <1> DEFINE r == Segment(c, flags, k.local, k.remote, NoData)
  <1>1. k.local \in Int /\ k.remote \in Int /\ flags \in Kinds /\ NoData \in Payload
    BY DEF Record, Kinds, Payload
  <1>2. r \in Frame /\ r.to = Peer(c) /\ r.flags = flags /\ r.ack = k.remote
    BY <1>1, SegmentTypes
  <1>3. /\ conn'[c] = k /\ conn'[Peer(c)] = conn[Peer(c)]
        /\ ToSet(queue') \subseteq ToSet(queue) \cup {r}
        /\ UNCHANGED <<sent, got, sessions>>
    BY <1>2, AnswerFrames
  <1>4. k.state \in Synced /\ conn[c].state \notin Opened /\ conn[c].state \notin Synced
    BY DEF Synced, Opened
  <1> HIDE DEF r
  <1>5. GoodFrame(r)'
    BY <1>2, <1>3, <1>4, ReplyGood
  <1>6. \A s \in ToSet(queue) : GoodFrame(s)
    BY AllGood DEF Talking
  <1>7. Onward(c)
    BY <1>4 DEF Onward
  <1> QED
    BY <1>3, <1>4, <1>5, <1>6, <1>7, TalkingShake

LEMMA PassiveSynTalks ==
    ASSUME TypeOK, TypeOK', Talking, NEW c \in Slot, NEW s, PassiveSyn(c, s)
    PROVE  Talking'
  <1> DEFINE k == [conn[c] EXCEPT !.remote = s.seq + 1, !.local = ServerIsn, !.state = "syn_rcvd"]
  <1>1. /\ queue # <<>> /\ queue[1] = s /\ s.seq \in Int /\ conn[c].state = "closed"
        /\ "syn" \in s.flags
    BY HeadFrame DEF PassiveSyn, Has
  <1>2. k \in Record
    <2>1. "syn_rcvd" \in States /\ FALSE \in BOOLEAN
      BY DEF States
    <2>2. conn[c] \in Record /\ s.seq + 1 \in Int /\ ServerIsn \in Int
      BY <1>1, SlotTypes, TcpAssumption
    <2> QED
      BY <2>1, <2>2, Updated
  <1>3. k.rtx = conn[c].rtx /\ k.timer = conn[c].timer /\ k.state = "syn_rcvd"
    BY SlotTypes DEF Record
  <1>4. Answers(c, k, Segment(c, {"syn", "ack"}, k.local, k.remote, NoData))
    BY DEF PassiveSyn
  <1> HIDE DEF k
  <1> QED
    BY <1>1, <1>2, <1>3, <1>4, ShakeReply

LEMMA SimultaneousSynTalks ==
    ASSUME TypeOK, TypeOK', Talking, NEW c \in Slot, NEW s, SimultaneousSyn(c, s)
    PROVE  Talking'
  <1> DEFINE k == [conn[c] EXCEPT !.timer = FALSE, !.remote = s.seq + 1, !.state = "syn_rcvd"]
  <1>1. /\ queue # <<>> /\ queue[1] = s /\ s.seq \in Int /\ conn[c].state = "syn_sent"
        /\ "syn" \in s.flags
    BY HeadFrame DEF SimultaneousSyn, Has
  <1>2. k \in Record
    <2>1. "syn_rcvd" \in States /\ FALSE \in BOOLEAN
      BY DEF States
    <2>2. conn[c] \in Record /\ s.seq + 1 \in Int
      BY <1>1, SlotTypes
    <2> QED
      BY <2>1, <2>2, Updated
  <1>3. k.rtx = conn[c].rtx /\ ~k.timer /\ k.state = "syn_rcvd"
    BY SlotTypes DEF Record
  <1>4. Answers(c, k, Segment(c, {"syn", "ack"}, k.local, k.remote, NoData))
    BY DEF SimultaneousSyn
  <1> HIDE DEF k
  <1> QED
    BY <1>1, <1>2, <1>3, <1>4, ShakeReply

LEMMA SynAckedTalks ==
    ASSUME TypeOK, TypeOK', Talking, NEW c \in Slot, NEW s, SynAcked(c, s)
    PROVE  Talking'
  <1> DEFINE k == [conn[c] EXCEPT !.timer = FALSE, !.remote = s.seq + 1,
                                  !.local = SynCounted(conn[c]), !.state = "established"]
  <1>1. /\ queue # <<>> /\ queue[1] = s /\ s.seq \in Int /\ conn[c].state = "syn_sent"
        /\ s \in ToSet(queue) /\ s \in Frame /\ s.to = c
    BY HeadFrame DEF SynAcked
  <1>2. "syn" \in s.flags /\ "ack" \in s.flags /\ s.ack = conn[c].local + 1
    BY DEF SynAcked
  <1>3. SynCounted(conn[c]) = conn[c].local + 1 /\ conn[c].local \in Int
    BY SlotTypes DEF SynCounted
  <1>4. k \in Record
    <2>1. "established" \in States /\ FALSE \in BOOLEAN
      BY DEF States
    <2>2. conn[c] \in Record /\ s.seq + 1 \in Int /\ SynCounted(conn[c]) \in Int
      BY <1>1, <1>3, SlotTypes
    <2> QED
      BY <2>1, <2>2, Updated
  <1>5. /\ k.rtx = conn[c].rtx /\ ~k.timer /\ k.state = "established"
        /\ k.local = conn[c].local + 1
    BY <1>3, SlotTypes DEF Record
  <1>6. Answers(c, k, Segment(c, {"ack"}, k.local, k.remote, NoData))
    BY DEF SynAcked
  <1> HIDE DEF k
  <1>7. GoodFrame(s)
    BY <1>1, <1>2, AllGood DEF Talking
  <1>8. conn[c].state \notin Opened
    BY <1>1 DEF Opened, Synced
  <1>9. conn[Peer(c)].state \in Synced /\ Known(Peer(c)) = conn[c].local
    BY <1>1, <1>2, <1>7, <1>8, AckIs DEF Talking
  <1>10. Known(Peer(c)) = k.local - 1
    BY <1>3, <1>5, <1>9
  <1> QED
    BY <1>1, <1>2, <1>4, <1>5, <1>6, <1>9, <1>10, ShakeReply

LEMMA HandshakeDoneTalks ==
    ASSUME TypeOK, TypeOK', Talking, NEW c \in Slot, NEW s, HandshakeDone(c, s)
    PROVE  Talking'
  <1> DEFINE k == [conn[c] EXCEPT !.local = SynCounted(conn[c]), !.state = "established"]
  <1>1. /\ queue # <<>> /\ queue[1] = s /\ conn[c].state = "syn_rcvd"
        /\ s \in ToSet(queue) /\ s \in Frame /\ s.to = c
    BY HeadFrame DEF HandshakeDone
  <1>2. "ack" \in s.flags /\ s.ack = conn[c].local + 1
    BY DEF HandshakeDone, Has
  <1>3. SynCounted(conn[c]) = conn[c].local + 1 /\ conn[c].local \in Int
    BY SlotTypes DEF SynCounted
  <1>4. k \in Record
    <2>1. "established" \in States /\ FALSE \in BOOLEAN
      BY DEF States
    <2>2. conn[c] \in Record /\ SynCounted(conn[c]) \in Int
      BY <1>3, SlotTypes
    <2> QED
      BY <2>1, <2>2, Updated
  <1>5. /\ k.rtx = conn[c].rtx /\ k.timer = conn[c].timer /\ k.state = "established"
        /\ k.local = conn[c].local + 1 /\ k.remote = conn[c].remote
    BY <1>3, SlotTypes DEF Record
  <1>6. Silent(c, k)
    BY DEF HandshakeDone
  <1> HIDE DEF k
  <1>7. /\ conn'[c] = k /\ conn'[Peer(c)] = conn[Peer(c)]
        /\ ToSet(queue') \subseteq ToSet(queue) /\ UNCHANGED <<sent, got, sessions>>
    BY <1>1, <1>4, <1>6, SilentFrames
  <1>8. ~Opening /\ conn[c].state \notin Opened
    BY <1>1 DEF Opening, Slot, Opened, Synced
  <1>9. \A f \in ToSet(queue) : GoodFrame(f)
    BY <1>8 DEF Talking, Frames
  <1>10. conn[Peer(c)].state \in Synced /\ Known(Peer(c)) = conn[c].local
    BY <1>1, <1>2, <1>8, <1>9, AckIs DEF Talking
  <1>11. Known(Peer(c)) = k.local - 1
    BY <1>3, <1>5, <1>10
  <1>12. Onward(c)
    <2>1. Len(sent[c]) \in Nat /\ conn[c].remote \in Int /\ conn[c].local \in Int
      BY SlotTypes
    <2>2. "established" \in Synced /\ "established" \notin Finished
          /\ "syn_rcvd" \notin Finished /\ "syn_rcvd" \notin Opened
      BY DEF Synced, Opened, Finished
    <2>3. Known(c)' = Known(c)
      BY <1>5, <1>7 DEF Known
    <2>4. Number(c)' = Number(c)
      BY <1>1, <1>5, <1>7, <2>1, <2>2 DEF Number
    <2> QED
      BY <1>1, <1>5, <1>7, <2>1, <2>2, <2>3, <2>4 DEF Onward, Finished, Opened
  <1> QED
    BY <1>5, <1>7, <1>8, <1>9, <1>10, <1>11, <1>12, TalkingShake

\* A slot that is open goes on.
LEMMA TalkingOpened ==
    ASSUME TypeOK, TypeOK', Talking, sessions' = sessions, NEW c \in Slot,
           conn[c].state \in Opened, conn'[c].state \notin {"closing", "closed_final"},
           Onward(c), Kept(c)', Len(got[c]) <= Len(got'[c]),
           conn'[Peer(c)] = conn[Peer(c)],
           sent'[Peer(c)] = sent[Peer(c)], got'[Peer(c)] = got[Peer(c)],
           UNCHANGED <<sent, got>> \/ conn[Peer(c)].state \in Opened,
           \A s \in Frame : s \in ToSet(queue') => s \in ToSet(queue) \/ GoodFrame(s)'
    PROVE  Talking'
  <1> DEFINE p == Peer(c)
  <1>1. p \in Slot /\ Peer(p) = c /\ \A d \in Slot : d = c \/ d = p
    BY Peers
  <1>2. conn'[p] = conn[p] /\ sent'[p] = sent[p] /\ got'[p] = got[p]
    OBVIOUS
  <1>3. UNCHANGED <<sent, got>> \/ conn[p].state \in Opened
    OBVIOUS
  <1> HIDE DEF p
  <1>4. \A d \in Slot : Onward(d)
    BY <1>1, <1>2, OnwardSame
  <1>5. Frames /\ NothingYet
        /\ \A d \in Slot : conn[d].state \notin {"closing", "closed_final"} /\ Kept(d)
    BY DEF Talking
  <1>6. conn'[c].state \in Opened
    BY DEF Onward, Opened
  <1>7. ~Opening /\ ~Opening'
    <2>1. {"closed", "syn_sent"} \cap Opened = {}
      BY DEF Opened, Synced
    <2> QED
      BY <1>6, <2>1 DEF Opening, Slot
  <1>8. Frames'
    BY <1>4, <1>5, <1>7, FramesOn
  <1>9. OldFirst'
    BY <1>7 DEF OldFirst
  <1>10. \A d \in Slot : Kept(d)'
    BY <1>1, <1>2, <1>5, KeptSame
  <1>11. \A d \in Slot : conn'[d].state \notin {"closing", "closed_final"}
    BY <1>1, <1>2, <1>5
  <1>12. (\E d \in Slot : conn'[d].state \notin Opened) => UNCHANGED <<sent, got>>
    BY <1>1, <1>2, <1>3, <1>6
  <1>13. \A d \in Slot : conn[d].state \notin Opened /\ conn'[d].state \in Opened =>
            conn[Peer(d)].state \in Synced /\ Known(Peer(d)) = Number(d)'
    BY <1>1, <1>2
  <1> QED
    BY <1>4, <1>8, <1>9, <1>10, <1>11, <1>12, <1>13, TalkingOn

LEMMA CloseTalks ==
    ASSUME TypeOK, TypeOK', Talking, NEW c \in Slot, Close(c)
    PROVE  Talking'
  <1> DEFINE k == [conn[c] EXCEPT !.local = @ + 1, !.state = "fin_wait"]
             f == Segment(c, {"fin", "ack"}, conn[c].local, conn[c].remote, NoData)
  <1>1. /\ conn[c] \in Record /\ conn[c].local \in Int /\ conn[c].remote \in Int
        /\ conn[c].state = "established" /\ conn[c].rtx.count \in Nat
        /\ Len(sent[c]) \in Nat /\ Len(got[c]) \in Nat
    BY SlotTypes DEF Close
  <1>2. conn' = [conn EXCEPT ![c] = k] /\ queue' = Queued(queue, f)
        /\ UNCHANGED <<sent, got, sessions>>
    BY <1>1, ZenonT(60) DEF Close, TypeOK, Record
  <1>3. /\ k.state = "fin_wait" /\ k.local = conn[c].local + 1 /\ k.remote = conn[c].remote
        /\ k.rtx = conn[c].rtx /\ k.timer = conn[c].timer
    BY <1>1 DEF Record
  <1>4. k \in Record
    <2>1. "fin_wait" \in States /\ conn[c].local + 1 \in Int
      BY <1>1 DEF States
    <2> QED
      BY <1>1, <2>1, Updated
  <1>5. PICK r \in Frame : /\ r.to = Peer(c) /\ r.flags = {"fin", "ack"}
                           /\ r.ack = conn[c].remote /\ queue' = Queued(queue, r)
    <2>1. {"fin", "ack"} \in Kinds /\ NoData \in Payload
      BY DEF Kinds, Payload
    <2> QED
      BY <1>1, <1>2, <2>1, SegmentTypes
  <1> HIDE DEF k, f
  <1>6. conn'[c] = k /\ conn'[Peer(c)] = conn[Peer(c)]
    BY <1>2, <1>4, Replaced DEF TypeOK
  <1>7. ToSet(queue') \subseteq ToSet(queue) \cup {r}
    BY <1>5, AfterQueued DEF TypeOK
  <1>8. /\ {"fin_wait", "established"} \subseteq Synced /\ {"fin_wait", "established"} \subseteq Opened
        /\ "fin_wait" \in Finished /\ "established" \notin Finished
    BY DEF Synced, Opened, Finished
  <1>9. Known(c)' = Known(c) /\ Known(c) < conn[c].remote
    BY <1>1, <1>2, <1>3, <1>6 DEF Known
  <1>10. Number(c)' = Number(c)
    BY <1>1, <1>2, <1>3, <1>6, <1>8 DEF Number
  <1>11. Onward(c)
    BY <1>1, <1>2, <1>3, <1>6, <1>8, <1>9, <1>10 DEF Onward
  <1>12. GoodFrame(r)'
    <2>1. Peer(r.to) = c /\ "psh" \notin r.flags
      BY <1>5, Peers
    <2> QED
      BY <1>1, <1>3, <1>5, <1>6, <1>8, <1>9, <2>1 DEF GoodFrame
  <1>13. Kept(c)'
    <2>1. Len(got[Peer(c)]) <= Len(got'[Peer(c)]) /\ conn'[c].rtx.count >= conn[c].rtx.count
      BY <1>1, <1>2, <1>3, <1>6, SlotTypes, Peers
    <2>2. NothingYet /\ Kept(c)
      BY DEF Talking
    <2> QED
      BY <1>2, <1>3, <1>6, <1>11, <2>1, <2>2, KeptOn
  <1>14. \A s \in Frame : s \in ToSet(queue') => s \in ToSet(queue) \/ GoodFrame(s)'
    BY <1>7, <1>12
  <1>15. Len(got[c]) <= Len(got'[c])
    BY <1>1, <1>2
  <1> QED
    BY <1>1, <1>2, <1>3, <1>6, <1>8, <1>11, <1>13, <1>14, <1>15, TalkingOpened

\* An acknowledgement that ends the retransmission says that the unit was
\* delivered.
LEMMA AckedTalks ==
    ASSUME TypeOK, TypeOK', Talking, NEW c \in Slot, NEW s, Acked(c, s)
    PROVE  Talking'
  <1> DEFINE k == [conn[c] EXCEPT !.timer = @ /\ ~Covers(s, conn[c].rtx)]
             r == conn[c].rtx
             p == Peer(c)
  <1>1. /\ queue # <<>> /\ s \in ToSet(queue) /\ s \in Frame /\ s.to = c /\ s.ack \in Int
        /\ conn[c].state = "established"
    BY HeadFrame DEF Acked
  <1>2. s.flags = {"ack"} /\ Silent(c, k)
    BY DEF Acked
  <1>3. /\ conn[c] \in Record /\ conn[c].timer \in BOOLEAN /\ r.seq \in Int /\ r.count \in Nat
        /\ conn[c].remote \in Int /\ Len(got[c]) \in Nat /\ Len(sent[c]) \in Nat
        /\ Len(got[p]) \in Nat /\ conn[p].remote \in Int /\ Number(c) \in Int
    BY SlotTypes, NumberTypes, Peers
  <1>4. /\ k.state = conn[c].state /\ k.local = conn[c].local /\ k.remote = conn[c].remote
        /\ k.rtx = r /\ k.timer = (conn[c].timer /\ ~Covers(s, r)) /\ k \in Record
    <2> DEFINE b == conn[c].timer /\ ~Covers(s, r)
    <2>1. b \in BOOLEAN /\ k = [conn[c] EXCEPT !.timer = b]
      BY <1>3 DEF Record
    <2> HIDE DEF b, k
    <2>2. k \in Record /\ k.timer = b /\ k.state = conn[c].state
          /\ k.local = conn[c].local /\ k.remote = conn[c].remote /\ k.rtx = r
      BY <1>3, <2>1, TimerSet
    <2> QED
      BY <2>2 DEF b
  <1> HIDE DEF k
  <1>5. /\ conn'[c] = k /\ conn'[p] = conn[p] /\ ToSet(queue') \subseteq ToSet(queue)
        /\ UNCHANGED <<sent, got, sessions>>
    BY <1>1, <1>2, <1>4, SilentFrames
  <1>6. "established" \in Opened /\ ~Opening
    BY <1>1 DEF Opened, Synced, Opening, Slot
  <1>7. Onward(c)
    <2>1. Known(c)' = Known(c) /\ Number(c)' = Number(c)
      BY <1>4, <1>5 DEF Known, Number
    <2> QED
      BY <1>3, <1>4, <1>5, <2>1 DEF Onward
  <1>8. ASSUME Covers(s, r), r.data # NoData PROVE r.seq - Number(c) <= Len(got[p])
    <2>1. s.ack >= r.seq + 1
      BY <1>8 DEF Covers
    <2>2. s.ack <= conn[p].remote
      BY <1>1, <1>2, <1>6 DEF Talking, Frames, GoodFrame
    <2>3. conn[p].remote - 1 - Len(got[p]) = Number(c)
      BY <1>1, <1>6 DEF Talking, Shaken, Known
    <2>4. /\ s.ack \in Int /\ r.seq \in Int /\ conn[p].remote \in Int
          /\ Len(got[p]) \in Nat /\ Number(c) \in Int
      BY <1>1, <1>3
    <2> HIDE DEF r, p
    <2> QED
      BY <2>1, <2>2, <2>3, <2>4, SMTT(30)
  <1>9. Kept(c)'
    <2>1. Len(got[p]) <= Len(got'[p]) /\ conn'[c].rtx.count >= r.count
      BY <1>3, <1>4, <1>5
    <2>2. NothingYet /\ Kept(c)
      BY DEF Talking
    <2>3. conn'[c].timer => conn[c].timer
      BY <1>4, <1>5
    <2>4. conn'[c].timer = conn[c].timer \/ (r.data # NoData => r.seq - Number(c) <= Len(got[p]))
      BY <1>3, <1>4, <1>5, <1>8
    <2> QED
      BY <1>4, <1>5, <1>7, <2>1, <2>2, <2>3, <2>4, KeptOn
  <1>10. Len(got[c]) <= Len(got'[c]) /\ "established" \notin {"closing", "closed_final"}
    BY <1>3, <1>5
  <1> QED
    BY <1>1, <1>4, <1>5, <1>6, <1>7, <1>9, <1>10, TalkingOpened

\* A retransmission gives up or sends again what is kept.
LEMMA RetransmitFacts ==
    ASSUME TypeOK, NEW c \in Slot, Retransmit(c)
    PROVE  /\ conn[c].timer /\ conn'[Peer(c)] = conn[Peer(c)]
           /\ UNCHANGED <<sent, got, sessions>>
           /\ conn'[c].rtx.seq = conn[c].rtx.seq /\ conn'[c].rtx.data = conn[c].rtx.data
           /\ conn'[c].rtx.count >= conn[c].rtx.count
           /\ conn'[c].local = conn[c].local /\ conn'[c].remote = conn[c].remote
           /\ \/ /\ queue' = queue /\ conn'[c].rtx.count >= MaxRetries /\ ~conn'[c].timer
                 /\ conn'[c].state = IF conn[c].state = "syn_sent" THEN "closed" ELSE conn[c].state
              \/ /\ conn'[c].state = conn[c].state /\ conn'[c].timer = conn[c].timer
                 /\ \E f \in Frame :
                       /\ queue' = Queued(queue, f) /\ f.to = Peer(c)
                       /\ \/ conn[c].rtx.data = NoData /\ f.flags = {"syn"}
                          \/ /\ conn[c].rtx.data # NoData /\ f.flags = {"psh", "ack"}
                             /\ f.seq = conn[c].rtx.seq /\ f.ack = conn[c].remote
                             /\ f.data = conn[c].rtx.data
  <1> DEFINE k == conn[c]
             r == k.rtx
  <1>1. /\ k \in Record /\ r \in Rtx /\ NoData \in Payload /\ k.remote \in Int /\ k.state \in States
        /\ r.seq \in Int /\ r.data \in Payload /\ r.count \in Nat /\ MaxRetries \in Nat
    BY SlotTypes, TcpAssumption DEF Payload
  <1>2. k.timer /\ UNCHANGED <<sent, got, sessions>>
    BY DEF Retransmit
  <1>3. CASE GivenUp(r)
    <2> DEFINE st == IF k.state = "syn_sent" THEN "closed" ELSE k.state
               k2 == [k EXCEPT !.timer = FALSE, !.state = st]
    <2>1. st \in States
      BY <1>1 DEF States
    <2>2. conn' = [conn EXCEPT ![c] = k2] /\ queue' = queue
      BY <1>1, <1>3 DEF Retransmit, TypeOK, Record
    <2> HIDE DEF st
    <2>3. /\ k2 \in Record /\ ~k2.timer /\ k2.state = st /\ k2.rtx = r
          /\ k2.local = k.local /\ k2.remote = k.remote
      BY <1>1, <2>1 DEF Record
    <2> HIDE DEF k2
    <2>4. conn'[c] = k2 /\ conn'[Peer(c)] = conn[Peer(c)]
      BY <2>2, <2>3, Replaced DEF TypeOK
    <2>5. r.count >= MaxRetries
      BY <1>3 DEF GivenUp
    <2>6. /\ conn'[c].rtx.seq = r.seq /\ conn'[c].rtx.data = r.data
          /\ conn'[c].rtx.count = r.count
          /\ conn'[c].local = conn[c].local /\ conn'[c].remote = conn[c].remote
          /\ ~conn'[c].timer /\ conn'[c].state = st
      BY <2>3, <2>4
    <2>7. r.count >= r.count
      BY <1>1
    <2>8. conn'[c].rtx.count >= r.count /\ conn'[c].rtx.count >= MaxRetries
      BY <2>5, <2>6, <2>7
    <2> QED
      BY <1>2, <2>2, <2>4, <2>6, <2>8 DEF st
  <1>4. CASE ~GivenUp(r)
    <2> DEFINE r2 == [r EXCEPT !.count = @ + 1]
               k2 == [k EXCEPT !.rtx = r2]
               s == IF r.data = NoData THEN Segment(c, {"syn"}, r.seq, 0, NoData)
                    ELSE Segment(c, {"psh", "ack"}, r.seq, k.remote, r.data)
    <2>1. conn' = [conn EXCEPT ![c] = k2] /\ queue' = Queued(queue, s)
      BY <1>1, <1>4 DEF Retransmit, TypeOK
    <2>2. r2 \in Rtx /\ r2.seq = r.seq /\ r2.data = r.data /\ r2.count = r.count + 1
      BY <1>1 DEF Rtx
    <2> HIDE DEF r2
    <2>3. /\ k2 \in Record /\ k2.timer = k.timer /\ k2.state = k.state /\ k2.rtx = r2
          /\ k2.local = k.local /\ k2.remote = k.remote
      BY <1>1, <2>2 DEF Record
    <2> HIDE DEF k2
    <2>4. conn'[c] = k2 /\ conn'[Peer(c)] = conn[Peer(c)]
      BY <2>1, <2>3, Replaced DEF TypeOK
    <2>5. {"syn"} \in Kinds /\ {"psh", "ack"} \in Kinds
      BY DEF Kinds
    <2>6. /\ s \in Frame /\ s.to = Peer(c)
          /\ \/ r.data = NoData /\ s.flags = {"syn"}
             \/ /\ r.data # NoData /\ s.flags = {"psh", "ack"}
                /\ s.seq = r.seq /\ s.ack = k.remote /\ s.data = r.data
      BY <1>1, <2>5, SegmentTypes
    <2> HIDE DEF s
    <2>7. r2.count >= r.count
      BY <1>1, <2>2
    <2> QED
      BY <1>2, <2>1, <2>2, <2>3, <2>4, <2>6, <2>7
  <1> QED
    BY <1>3, <1>4

LEMMA RetransmitTalks ==
    ASSUME TypeOK, TypeOK', Talking, NEW c \in Slot, Retransmit(c)
    PROVE  Talking'
  <1> DEFINE p == Peer(c)
             r == conn[c].rtx
  <1>1. p \in Slot /\ Peer(p) = c /\ \A d \in Slot : d = c \/ d = p
    BY Peers
  <1>2. /\ conn[c].timer /\ conn'[p] = conn[p] /\ UNCHANGED <<sent, got, sessions>>
        /\ conn'[c].rtx.seq = r.seq /\ conn'[c].rtx.data = r.data
        /\ conn'[c].rtx.count >= r.count
        /\ conn'[c].local = conn[c].local /\ conn'[c].remote = conn[c].remote
        /\ \/ conn'[c].state = conn[c].state
           \/ conn[c].state = "syn_sent" /\ conn'[c].state = "closed"
        /\ conn'[c].timer = conn[c].timer \/ conn'[c].rtx.count >= MaxRetries
    BY RetransmitFacts
  <1>3. /\ Frames /\ OldFirst /\ NothingYet
        /\ \A d \in Slot : conn[d].state \notin {"closing", "closed_final"} /\ Kept(d)
    BY DEF Talking
  <1>4. /\ conn[c].remote \in Int /\ Len(sent[c]) \in Nat /\ Len(got[c]) \in Nat
        /\ Len(got[p]) \in Nat /\ Number(c) \in Int /\ queue \in Seq(Frame)
    BY <1>1, SlotTypes, NumberTypes DEF TypeOK
  <1>5. "closed" \notin Synced /\ "syn_sent" \notin Synced
        /\ Opened \subseteq Synced /\ Finished \subseteq Synced
    BY DEF Synced, Opened, Finished
  <1>6. Known(c)' = Known(c)
    BY <1>2 DEF Known
  <1>7. conn[c].state \in Synced => conn'[c].state = conn[c].state /\ Number(c)' = Number(c)
    BY <1>2, <1>5 DEF Number
  <1>8. Onward(c)
    BY <1>2, <1>4, <1>6, <1>7 DEF Onward
  <1>9. \A d \in Slot : Onward(d)
    BY <1>1, <1>2, <1>8, OnwardSame
  <1>10. \A d \in Slot : Kept(d)'
    <2>1. Kept(c)'
      <3>1. Len(got[p]) <= Len(got'[p])
        BY <1>2, <1>4
      <3> QED
        BY <1>2, <1>3, <1>8, <3>1, KeptOn
    <2>2. Kept(p)'
      <3>1. Len(got[c]) <= Len(got'[c])
        BY <1>2, <1>4
      <3> QED
        BY <1>1, <1>2, <1>3, <3>1, KeptSame
    <2> QED
      BY <1>1, <2>1, <2>2
  <1>11. Opening => Opening'
    BY <1>1, <1>2 DEF Opening, Slot
  <1>12. Frames' /\ OldFirst'
    <2>1. CASE queue' = queue
      <3>1. Frames'
        BY <1>2, <1>3, <1>9, <1>11, <2>1, FramesOn
      <3>2. ASSUME Opening', ~Opening PROVE SynLast(queue)
        <4>1. \A d \in Slot : conn[d].state \in {"closed", "syn_sent"}
          BY <1>1, <1>2, <3>2 DEF Opening, Slot
        <4>2. \A s \in ToSet(queue) : "syn" \in s.flags
          <5> SUFFICES ASSUME NEW s \in ToSet(queue) PROVE "syn" \in s.flags
            OBVIOUS
          <5>1. s \in Frame /\ s.flags \in Kinds /\ Peer(s.to) \in Slot
            BY <1>4, QueueFrames, Peers DEF Frame
          <5>2. "ack" \notin s.flags
            BY <1>3, <1>5, <3>2, <4>1, <5>1 DEF Frames, GoodFrame
          <5> QED
            BY <5>1, <5>2 DEF Kinds
        <4>3. \A n \in 1 .. Len(queue) : queue[n] \in ToSet(queue)
          BY <1>4, QueueFrames
        <4> QED
          BY <4>2, <4>3 DEF SynLast
      <3> QED
        BY <1>3, <2>1, <3>1, <3>2 DEF OldFirst
    <2>2. CASE \E f \in Frame :
                  /\ queue' = Queued(queue, f) /\ f.to = p
                  /\ \/ r.data = NoData /\ f.flags = {"syn"}
                     \/ /\ r.data # NoData /\ f.flags = {"psh", "ack"}
                        /\ f.seq = r.seq /\ f.ack = conn[c].remote /\ f.data = r.data
               /\ conn'[c].state = conn[c].state
      <3>1. PICK f \in Frame :
                  /\ queue' = Queued(queue, f) /\ f.to = p
                  /\ \/ r.data = NoData /\ f.flags = {"syn"}
                     \/ /\ r.data # NoData /\ f.flags = {"psh", "ack"}
                        /\ f.seq = r.seq /\ f.ack = conn[c].remote /\ f.data = r.data
        BY <2>2
      <3>2. Opening' <=> Opening
        BY <1>1, <1>2, <2>2 DEF Opening, Slot
      <3>3. ToSet(queue') \subseteq ToSet(queue) \cup {f}
        BY <1>4, <3>1, AfterQueued
      <3>4. CASE f.flags = {"syn"}
        <4>1. GoodFrame(f)'
          BY <3>4 DEF GoodFrame
        <4>2. Frames'
          BY <1>2, <1>3, <1>9, <1>11, <3>3, <4>1, FramesOn
        <4>3. OldFirst'
          BY <1>3, <1>4, <3>1, <3>2, <3>4, SynLastOn DEF OldFirst
        <4> QED
          BY <4>2, <4>3
      <3>5. CASE f.flags # {"syn"}
        <4>1. /\ r.data # NoData /\ f.flags = {"psh", "ack"}
              /\ f.seq = r.seq /\ f.ack = conn[c].remote /\ f.data = r.data
          BY <3>1, <3>5
        <4>2. /\ r.seq - Number(c) \in 1 .. Len(sent[c])
              /\ r.data[1] = sessions /\ r.data[2] = r.seq - Number(c)
          BY <1>2, <1>3, <4>1 DEF Kept
        <4>3. r.data = <<sessions, r.seq - Number(c)>>
          <5>1. r.data \in Unit
            BY <4>1, SlotTypes DEF Payload
          <5> QED
            BY <4>2, <5>1 DEF Unit
        <4>4. conn[c].state \in Opened
          BY <1>4, <4>2, NothingSent, <1>3
        <4>5. Known(c) < conn[c].remote
          BY <1>4 DEF Known
        <4>6. GoodFrame(f)'
          <5>1. Peer(f.to) = c
            BY <1>1, <3>1
          <5>2. conn'[c].state \in Synced /\ Number(c)' = Number(c)
            BY <1>5, <1>7, <4>4
          <5>3. /\ Known(c)' < f.ack /\ f.ack <= conn'[c].remote
                /\ "fin" \notin f.flags
                /\ f.seq - Number(c)' \in 1 .. Len(sent'[c])
                /\ f.data = <<sessions', f.seq - Number(c)'>>
            BY <1>2, <1>4, <1>6, <4>1, <4>2, <4>3, <4>5, <5>2
          <5> QED
            BY <5>1, <5>2, <5>3 DEF GoodFrame
        <4>7. Frames'
          BY <1>2, <1>3, <1>9, <1>11, <3>3, <4>6, FramesOn
        <4>8. ~Opening
          BY <4>4 DEF Opening, Slot, Opened, Synced
        <4> QED
          BY <3>2, <4>7, <4>8 DEF OldFirst
      <3> QED
        BY <3>4, <3>5
    <2> QED
      BY <2>1, <2>2, RetransmitFacts
  <1>13. \A d \in Slot : /\ conn'[d].state \notin {"closing", "closed_final"}
                         /\ conn'[d].state \in Opened => conn[d].state \in Opened
    BY <1>1, <1>2, <1>3, <1>5
  <1> QED
    BY <1>2, <1>9, <1>10, <1>12, <1>13, TalkingOn

\* What the sending of a unit does to the slot and the queue.
LEMMA SendFacts ==
    ASSUME TypeOK, NEW c \in Slot, NEW k \in Record, NEW d \in Unit, NEW q \in Seq(Frame),
           SendData(c, k, d, q)
    PROVE  /\ conn'[Peer(c)] = conn[Peer(c)] /\ sent'[Peer(c)] = sent[Peer(c)]
           /\ sent'[c] = Append(sent[c], d)
           /\ conn'[c].state = k.state /\ conn'[c].local = k.local + 1
           /\ conn'[c].remote = k.remote
           /\ \/ conn'[c].timer = k.timer /\ conn'[c].rtx = k.rtx
              \/ conn'[c].timer /\ conn'[c].rtx = Armed(k.local, d)
  <1> DEFINE s == Segment(c, {"psh", "ack"}, k.local, k.remote, d)
             k2 == [k EXCEPT !.local = @ + 1]
             k3 == [k2 EXCEPT !.timer = TRUE, !.rtx = Armed(k.local, d)]
  <1>1. k.local \in Int /\ k.remote \in Int /\ d \in Payload /\ {"psh", "ack"} \in Kinds
    BY DEF Record, Payload, Kinds
  <1>3. Armed(k.local, d) \in Rtx /\ k.local + 1 \in Int
    BY <1>1 DEF Armed, Rtx
  <1>4. /\ k2 \in Record /\ k2.state = k.state /\ k2.local = k.local + 1
        /\ k2.remote = k.remote /\ k2.timer = k.timer /\ k2.rtx = k.rtx
    BY <1>1, <1>3 DEF Record
  <1>5. k3 = [k2 EXCEPT !.timer = TRUE, !.rtx = Armed(k.local, d)]
    OBVIOUS
  <1> HIDE DEF s, k2, k3
  <1>6. /\ k3 \in Record /\ k3.state = k2.state /\ k3.local = k2.local
        /\ k3.remote = k2.remote /\ k3.timer /\ k3.rtx = Armed(k.local, d)
    BY <1>3, <1>4, <1>5 DEF Record
  <1>7. conn' \in {[conn EXCEPT ![c] = k2], [conn EXCEPT ![c] = k3]}
        /\ sent' = [sent EXCEPT ![c] = Append(@, d)]
    BY DEF SendData, s, k2, k3
  <1>8. conn'[c] \in {k2, k3} /\ conn'[Peer(c)] = conn[Peer(c)]
    <2>1. conn \in [Slot -> Record]
      BY DEF TypeOK
    <2>2. CASE conn' = [conn EXCEPT ![c] = k2]
      BY <1>4, <2>1, <2>2, Replaced
    <2>3. CASE conn' = [conn EXCEPT ![c] = k3]
      BY <1>6, <2>1, <2>3, Replaced
    <2> QED
      BY <1>7, <2>2, <2>3
  <1>9. sent'[c] = Append(sent[c], d) /\ sent'[Peer(c)] = sent[Peer(c)]
    BY <1>7, Peers DEF TypeOK
  <1>10. /\ conn'[c].state = k.state /\ conn'[c].local = k.local + 1
         /\ conn'[c].remote = k.remote
         /\ \/ conn'[c].timer = k.timer /\ conn'[c].rtx = k.rtx
            \/ conn'[c].timer /\ conn'[c].rtx = Armed(k.local, d)
    BY <1>4, <1>6, <1>8
  <1> QED
    BY <1>8, <1>9, <1>10

\* Its frame.
LEMMA SendFrame ==
    ASSUME NEW c \in Slot, NEW k \in Record, NEW d \in Unit, NEW q \in Seq(Frame),
           SendData(c, k, d, q)
    PROVE  \E f \in Frame :
              /\ ToSet(queue') \subseteq ToSet(q) \cup {f}
              /\ f.to = Peer(c) /\ f.flags = {"psh", "ack"} /\ f.seq = k.local
              /\ f.ack = k.remote /\ f.data = d
  <1> DEFINE s == Segment(c, {"psh", "ack"}, k.local, k.remote, d)
  <1>1. k.local \in Int /\ k.remote \in Int /\ d \in Payload /\ {"psh", "ack"} \in Kinds
    BY DEF Record, Payload, Kinds
  <1>2. /\ s \in Frame /\ s.to = Peer(c) /\ s.flags = {"psh", "ack"} /\ s.seq = k.local
        /\ s.ack = k.remote /\ s.data = d
    BY <1>1, SegmentTypes
  <1>3. queue' \in {q, Queued(q, s)}
    BY DEF SendData
  <1> HIDE DEF s
  <1>4. ToSet(queue') \subseteq ToSet(q) \cup {s}
    BY <1>2, <1>3, AfterQueued
  <1> QED
    BY <1>2, <1>4

\* The sums of the next lemmas.
LEMMA NumberSum ==
    ASSUME NEW i \in Int, NEW n \in Int
    PROVE  (i + 1) - (n + 1) - 1 = i - n - 1 /\ i - ((i + 1) - (n + 1) - 1) = n + 1
  OBVIOUS

LEMMA KnownSum ==
    ASSUME NEW i \in Int, NEW n \in Int
    PROVE  (i + 1) - 1 - (n + 1) = i - 1 - n
  OBVIOUS

\* A unit that is sent takes a sequence number.
LEMMA SentNumber ==
    ASSUME TypeOK, NEW c \in Slot, conn[c].state = "established", conn'[c].state = "established",
           conn'[c].local = conn[c].local + 1, Len(sent'[c]) = Len(sent[c]) + 1
    PROVE  Number(c)' = Number(c) /\ conn[c].local - Number(c)' = Len(sent[c]) + 1
  <1>1. conn[c].local \in Int /\ Len(sent[c]) \in Int /\ "established" \notin Finished
    BY SlotTypes DEF Finished
  <1>2. /\ Number(c) = conn[c].local - Len(sent[c]) - 1
        /\ Number(c)' = (conn[c].local + 1) - (Len(sent[c]) + 1) - 1
    BY <1>1 DEF Number
  <1> QED
    BY <1>1, <1>2, NumberSum

\* So does one that is taken.
LEMMA TakenKnown ==
    ASSUME TypeOK, NEW c \in Slot, conn'[c].remote = conn[c].remote + 1,
           Len(got'[c]) = Len(got[c]) + 1
    PROVE  Known(c)' = Known(c)
  <1>1. conn[c].remote \in Int /\ Len(got[c]) \in Int
    BY SlotTypes
  <1>2. /\ Known(c) = conn[c].remote - 1 - Len(got[c])
        /\ Known(c)' = (conn[c].remote + 1) - 1 - (Len(got[c]) + 1)
    BY DEF Known
  <1> QED
    BY <1>1, <1>2, KnownSum

\* Whoever goes on expecting its peer's units from the same number on.
LEMMA KnownRemote ==
    ASSUME TypeOK, TypeOK', NEW c \in Slot, Known(c)' = Known(c), Len(got[c]) <= Len(got'[c])
    PROVE  Known(c)' < conn'[c].remote /\ conn[c].remote <= conn'[c].remote
  <1>1. /\ conn[c].remote \in Int /\ conn'[c].remote \in Int
        /\ Len(got[c]) \in Nat /\ Len(got'[c]) \in Nat
    BY SlotTypes, NextTypes
  <1>2. /\ Known(c)' = conn'[c].remote - 1 - Len(got'[c])
        /\ Known(c) = conn[c].remote - 1 - Len(got[c])
    BY DEF Known
  <1>3. conn'[c].remote - 1 - Len(got'[c]) = conn[c].remote - 1 - Len(got[c])
    BY <1>2
  <1>4. conn[c].remote <= conn'[c].remote
    <2> DEFINE i == conn[c].remote
               j == conn'[c].remote
               m == Len(got[c])
               n == Len(got'[c])
    <2>1. i \in Int /\ j \in Int /\ m \in Nat /\ n \in Nat /\ j - 1 - n = i - 1 - m /\ m <= n
      BY <1>1, <1>3
    <2> HIDE DEF i, j, m, n
    <2>2. i <= j
      BY <2>1
    <2> QED
      BY <2>2 DEF i, j
  <1>5. conn'[c].remote - 1 - Len(got'[c]) < conn'[c].remote
    BY <1>1
  <1> QED
    BY <1>2, <1>4, <1>5

\* A slot sent the next unit, possibly after it took one.
LEMMA SendTalks ==
    ASSUME TypeOK, TypeOK', Talking, sessions' = sessions, NEW c \in Slot, NEW f \in Frame,
           conn[c].state = "established", conn[Peer(c)].state \in Opened,
           conn'[Peer(c)] = conn[Peer(c)], sent'[Peer(c)] = sent[Peer(c)],
           got'[Peer(c)] = got[Peer(c)],
           conn'[c].state = "established", conn'[c].local = conn[c].local + 1,
           Len(sent'[c]) = Len(sent[c]) + 1,
           Known(c)' = Known(c), Len(got[c]) <= Len(got'[c]),
           \/ conn'[c].timer = conn[c].timer /\ conn'[c].rtx = conn[c].rtx
           \/ conn'[c].timer /\ conn'[c].rtx = Armed(conn[c].local, f.data),
           f.to = Peer(c), f.flags = {"psh", "ack"}, f.seq = conn[c].local,
           f.ack = conn'[c].remote, f.data = <<sessions, Len(sent[c]) + 1>>,
           \A g \in Frame :
              g \in ToSet(queue') => g \in ToSet(queue) \/ g = f \/ GoodFrame(g)'
    PROVE  Talking'
  <1>1. Peer(c) \in Slot /\ Peer(Peer(c)) = c
    BY Peers
  <1>2. /\ conn[c].local \in Int /\ conn[c].remote \in Int /\ conn'[c].remote \in Int
        /\ Len(sent[c]) \in Nat /\ Len(got[c]) \in Nat /\ Len(got'[c]) \in Nat
        /\ Len(got[Peer(c)]) \in Nat /\ conn[c].rtx.count \in Nat
    BY <1>1, SlotTypes, NextTypes
  <1>3. /\ "established" \in Synced /\ "established" \in Opened /\ "established" \notin Finished
        /\ "established" \notin {"closing", "closed_final"}
    BY DEF Synced, Opened, Finished
  <1>4. Known(c)' < conn'[c].remote /\ conn[c].remote <= conn'[c].remote
    BY KnownRemote
  <1>5. Number(c)' = Number(c) /\ conn[c].local - Number(c)' = Len(sent[c]) + 1
    BY SentNumber
  <1>6. conn[c].local - Number(c)' = Len(sent[c]) + 1
    BY <1>5
  <1>7. Onward(c)
    BY <1>2, <1>3, <1>4, <1>5 DEF Onward
  <1>8. GoodFrame(f)'
    <2>1. Peer(f.to) = c
      BY <1>1
    <2>2. f.seq - Number(c)' = Len(sent[c]) + 1
      BY <1>6
    <2>3. f.seq - Number(c)' \in 1 .. Len(sent'[c]) /\ "fin" \notin f.flags
      BY <1>2, <2>2
    <2>4. f.data = <<sessions', f.seq - Number(c)'>>
      BY <2>2
    <2>5. Known(c)' < f.ack /\ f.ack <= conn'[c].remote
      BY <1>2, <1>4
    <2> QED
      BY <1>3, <2>1, <2>3, <2>4, <2>5 DEF GoodFrame
  <1>9. Kept(c)'
    <2>1. CASE conn'[c].timer = conn[c].timer /\ conn'[c].rtx = conn[c].rtx
      <3>1. /\ Len(got[Peer(c)]) <= Len(got'[Peer(c)])
            /\ conn'[c].rtx.count >= conn[c].rtx.count
        BY <1>2, <2>1
      <3>2. NothingYet /\ Kept(c)
        BY DEF Talking
      <3> QED
        BY <1>7, <2>1, <3>1, <3>2, KeptOn
    <2>2. CASE conn'[c].timer /\ conn'[c].rtx = Armed(conn[c].local, f.data)
      <3>1. conn'[c].rtx.seq = conn[c].local /\ conn'[c].rtx.data = f.data
        BY <2>2 DEF Armed
      <3>2. f.data[1] = sessions' /\ f.data[2] = Len(sent[c]) + 1
        OBVIOUS
      <3>3. conn'[c].rtx.seq - Number(c)' = Len(sent[c]) + 1
        BY <1>6, <3>1
      <3>4. Len(sent[c]) + 1 \in 1 .. Len(sent'[c])
        BY <1>2
      <3> QED
        BY <2>2, <3>1, <3>2, <3>3, <3>4 DEF Kept
    <2> QED
      BY <2>1, <2>2
  <1>10. \A g \in Frame : g \in ToSet(queue') => g \in ToSet(queue) \/ GoodFrame(g)'
    BY <1>8
  <1> QED
    BY <1>3, <1>7, <1>9, <1>10, TalkingOpened

\* What is kept is of no later session.
LEMMA SendNotLater ==
    ASSUME TypeOK, NoneLater, NEW c \in Slot, NEW k \in Record, NEW d \in Unit,
           NEW q \in Seq(Frame), SendData(c, k, d, q), k.rtx = conn[c].rtx,
           d[1] = sessions, sessions' = sessions
    PROVE  NoneLater'
  <1>1. /\ conn'[Peer(c)] = conn[Peer(c)]
        /\ conn'[c].rtx = conn[c].rtx \/ conn'[c].rtx = Armed(k.local, d)
    BY SendFacts
  <1>2. Armed(k.local, d).data = d
    BY DEF Armed
  <1>3. sessions \in Nat
    BY DEF TypeOK
  <1> QED
    BY <1>1, <1>2, <1>3, Peers DEF NoneLater

\* Adding the next unit.
LEMMA NumberedOn ==
    ASSUME NEW w \in Seq(Unit), Numbered(w), sessions \in Nat
    PROVE  Numbered(Append(w, <<sessions, Len(w) + 1>>))
           /\ Append(w, <<sessions, Len(w) + 1>>) \in Seq(Unit)
  <1> DEFINE d == <<sessions, Len(w) + 1>>
  <1>1. d \in Unit /\ Len(w) \in Nat
    BY DEF Unit
  <1>2. ASSUME NEW n \in 1 .. Len(w) + 1 PROVE Append(w, d)[n] = <<sessions, n>>
    <2>1. CASE n \in 1 .. Len(w)
      <3>1. w[n] = <<sessions, n>>
        BY <2>1 DEF Numbered
      <3> HIDE DEF d
      <3>2. Append(w, d)[n] = w[n]
        BY <1>1, <2>1
      <3> QED
        BY <3>1, <3>2
    <2>2. CASE n = Len(w) + 1
      <3> HIDE DEF d
      <3>1. Append(w, d)[n] = d
        BY <1>1, <2>2
      <3> QED
        BY <2>2, <3>1 DEF d
    <2> QED
      BY <1>1, <2>1, <2>2
  <1> HIDE DEF d
  <1>3. Append(w, d) \in Seq(Unit) /\ Len(Append(w, d)) = Len(w) + 1
    BY <1>1
  <1> QED
    BY <1>2, <1>3 DEF Numbered, d

\* The unit that is taken is the next one.
LEMMA DataIs ==
    ASSUME TypeOK, Talking, NEW c \in Slot, NEW s, Data(c, s)
    PROVE  /\ queue # <<>> /\ conn[c].state = "established" /\ conn[Peer(c)].state \in Opened
           /\ s.seq = conn[c].remote /\ s.data = <<sessions, Len(got[c]) + 1>>
           /\ s.data \in Unit /\ Len(got[c]) + 1 <= Len(sent[Peer(c)])
  <1> DEFINE p == Peer(c)
             n == s.seq - Number(p)
  <1>1. /\ queue # <<>> /\ s \in ToSet(queue) /\ s.to = c /\ conn[c].state = "established"
        /\ "psh" \in s.flags /\ s.seq = conn[c].remote
    BY HeadFrame DEF Data, Has, InOrder
  <1>2. p \in Slot /\ Peer(p) = c
    BY Peers
  <1>3. /\ conn[c].remote \in Int /\ Len(got[c]) \in Nat /\ Len(sent[p]) \in Nat
        /\ sessions \in Nat
    BY <1>2, SlotTypes
  <1>4. ~Opening
    BY <1>1 DEF Opening, Slot
  <1>5. GoodFrame(s)
    BY <1>1, <1>4 DEF Talking, Frames
  <1>6. n \in 1 .. Len(sent[p]) /\ s.data = <<sessions, n>>
    BY <1>1, <1>5 DEF GoodFrame
  <1>7. conn[p].state \in Opened
    <2>1. Len(sent[p]) # 0
      BY <1>3, <1>6
    <2> QED
      BY <1>2, <2>1, NothingSent DEF Talking
  <1>8. Known(c) = Number(p)
    BY <1>2, <1>7 DEF Talking, Shaken
  <1>9. n = Len(got[c]) + 1
    <2>1. n = conn[c].remote - (conn[c].remote - 1 - Len(got[c]))
      BY <1>1, <1>8 DEF Known
    <2> QED
      BY <1>3, <2>1
  <1> HIDE DEF n
  <1>10. s.data = <<sessions, Len(got[c]) + 1>> /\ Len(got[c]) + 1 <= Len(sent[p])
    BY <1>3, <1>6, <1>9
  <1>11. s.data \in Unit
    BY <1>3, <1>10 DEF Unit
  <1> QED
    BY <1>1, <1>7, <1>10, <1>11

\* What it is made of.
LEMMA DataFacts ==
    ASSUME TypeOK, Talking, NEW c \in Slot, NEW s, Data(c, s)
    PROVE  \E k \in Record, r \in Frame :
              /\ k.state = "established" /\ k.local = conn[c].local
              /\ k.remote = conn[c].remote + 1 /\ k.timer = conn[c].timer /\ k.rtx = conn[c].rtx
              /\ r.to = Peer(c) /\ r.flags = {"ack"} /\ r.ack = k.remote
              /\ Queued(Tail(queue), r) \in Seq(Frame)
              /\ ToSet(Queued(Tail(queue), r)) \subseteq ToSet(queue) \cup {r}
              /\ got' = [got EXCEPT ![c] = Append(@, s.data)] /\ sessions' = sessions
              /\ IF c = 1
                 THEN SendData(c, k, s.data, Queued(Tail(queue), r))
                 ELSE /\ conn' = [conn EXCEPT ![c] = k]
                      /\ queue' = Queued(Tail(queue), r)
                      /\ UNCHANGED <<sent, faults>>
  <1> DEFINE k == [conn[c] EXCEPT !.remote = s.seq + 1]
             r == Segment(c, {"ack"}, k.local, k.remote, NoData)
  <1>1. queue # <<>> /\ conn[c].state = "established" /\ s.seq = conn[c].remote
    BY DataIs
  <1>2. conn[c] \in Record /\ s.seq + 1 \in Int
    BY <1>1, SlotTypes
  <1>3. /\ k \in Record /\ k.state = "established" /\ k.local = conn[c].local
        /\ k.remote = conn[c].remote + 1 /\ k.timer = conn[c].timer /\ k.rtx = conn[c].rtx
    BY <1>1, <1>2 DEF Record
  <1>4. /\ got' = [got EXCEPT ![c] = Append(@, s.data)] /\ sessions' = sessions
        /\ IF c = 1
           THEN SendData(c, k, s.data, Queued(Tail(queue), r))
           ELSE /\ conn' = [conn EXCEPT ![c] = k]
                /\ queue' = Queued(Tail(queue), r)
                /\ UNCHANGED <<sent, faults>>
    BY DEF Data
  <1> HIDE DEF k
  <1>5. r \in Frame /\ r.to = Peer(c) /\ r.flags = {"ack"} /\ r.ack = k.remote
    <2>1. {"ack"} \in Kinds /\ NoData \in Payload /\ k.local \in Int /\ k.remote \in Int
      BY <1>3 DEF Kinds, Payload, Record
    <2> QED
      BY <2>1, SegmentTypes
  <1> HIDE DEF r
  <1>6. /\ Queued(Tail(queue), r) \in Seq(Frame)
        /\ ToSet(Queued(Tail(queue), r)) \subseteq ToSet(queue) \cup {r}
    <2>1. Tail(queue) \in Seq(Frame) /\ ToSet(Tail(queue)) \subseteq ToSet(queue)
      BY <1>1, AfterHead DEF TypeOK
    <2> QED
      BY <1>5, <2>1, AfterQueued
  <1> QED
    BY <1>3, <1>4, <1>5, <1>6

\* A unit is taken, and echoed by slot 1.
LEMMA DataSteps ==
    ASSUME TypeOK, Counted, NoneLater, Talking, sessions # 0, NEW c \in Slot, NEW s, Data(c, s)
    PROVE  TypeOK' /\ Counted' /\ NoneLater' /\ BeforeAll' /\ Talking'
  <1> DEFINE p == Peer(c)
             d == s.data
  <1>1. p \in Slot /\ Peer(p) = c /\ p # c /\ \A e \in Slot : e = c \/ e = p
    BY Peers
  <1>2. /\ queue # <<>> /\ conn[c].state = "established" /\ conn[p].state \in Opened
        /\ d = <<sessions, Len(got[c]) + 1>> /\ d \in Unit /\ Len(got[c]) + 1 <= Len(sent[p])
    BY DataIs
  <1>3. PICK k \in Record, r \in Frame :
              /\ k.state = "established" /\ k.local = conn[c].local
              /\ k.remote = conn[c].remote + 1 /\ k.timer = conn[c].timer /\ k.rtx = conn[c].rtx
              /\ r.to = p /\ r.flags = {"ack"} /\ r.ack = k.remote
              /\ Queued(Tail(queue), r) \in Seq(Frame)
              /\ ToSet(Queued(Tail(queue), r)) \subseteq ToSet(queue) \cup {r}
              /\ got' = [got EXCEPT ![c] = Append(@, d)] /\ sessions' = sessions
              /\ IF c = 1
                 THEN SendData(c, k, d, Queued(Tail(queue), r))
                 ELSE /\ conn' = [conn EXCEPT ![c] = k]
                      /\ queue' = Queued(Tail(queue), r)
                      /\ UNCHANGED <<sent, faults>>
    BY DataFacts
  <1>4. /\ got[c] \in Seq(Unit) /\ sent[c] \in Seq(Unit) /\ sessions \in Nat
        /\ Len(got[c]) \in Nat /\ Len(sent[c]) \in Nat
        /\ Len(got[p]) \in Nat /\ Len(sent[p]) \in Nat /\ conn[c].remote \in Int
        /\ conn[c].rtx.count \in Nat /\ conn[c].local \in Int
    BY <1>1, SlotTypes
  <1> HIDE DEF d, p
  <1>5. got'[c] = Append(got[c], d) /\ got'[p] = got[p] /\ got' \in [Slot -> Seq(Unit)]
    BY <1>1, <1>2, <1>3, <1>4 DEF TypeOK
  <1>6. Len(got'[c]) = Len(got[c]) + 1
    BY <1>2, <1>4, <1>5
  <1>7. TypeOK'
    <2>1. /\ conn' \in [Slot -> Record] /\ queue' \in Seq(Frame)
          /\ sent' \in [Slot -> Seq(Unit)] /\ faults' \in Nat
      <3>1. CASE c = 1
        BY <1>2, <1>3, <3>1, SendTypes
      <3>2. CASE c # 1
        <4>1. /\ conn' = [conn EXCEPT ![c] = k] /\ queue' = Queued(Tail(queue), r)
              /\ sent' = sent /\ faults' = faults
          BY <1>3, <3>2
        <4>2. conn \in [Slot -> Record] /\ sent \in [Slot -> Seq(Unit)] /\ faults \in Nat
          BY DEF TypeOK
        <4> QED
          BY <1>3, <4>1, <4>2, Replaced
      <3> QED
        BY <3>1, <3>2
    <2> QED
      BY <1>3, <1>4, <1>5, <2>1 DEF TypeOK
  <1>8. /\ conn'[p] = conn[p] /\ sent'[p] = sent[p] /\ conn'[c].remote = conn[c].remote + 1
        /\ conn'[c].state = "established"
    <2>1. CASE c = 1
      BY <1>1, <1>2, <1>3, <2>1, SendFacts DEF p
    <2>2. CASE c # 1
      <3>1. conn' = [conn EXCEPT ![c] = k] /\ sent' = sent
        BY <1>3, <2>2
      <3>2. conn'[c] = k /\ conn'[p] = conn[p]
        BY <3>1, Replaced DEF TypeOK, p
      <3> QED
        BY <1>3, <3>1, <3>2
    <2> QED
      BY <2>1, <2>2
  <1>9. Known(c)' = Known(c)
    BY <1>6, <1>8, TakenKnown
  <1>10. GoodFrame(r)'
    <2>1. conn'[c].state \in Synced /\ r.ack = conn'[c].remote /\ r.to = Peer(c)
      BY <1>3, <1>8 DEF Synced, p
    <2> QED
      BY <1>3, <1>7, <2>1, ReplyGood
  <1>11. /\ Numbered(got[c]) /\ Numbered(sent[c]) /\ Numbered(got[p]) /\ Numbered(sent[p])
         /\ Len(got[p]) <= Len(sent[c]) /\ Len(sent[1]) = Len(got[1])
    BY <1>1 DEF Counted
  <1>12. Numbered(Append(got[c], d))
    BY <1>2, <1>4, <1>11, NumberedOn
  <1>13. Numbered(got[c])' /\ Numbered(got[p])' /\ Numbered(sent[p])'
    BY <1>3, <1>5, <1>8, <1>11, <1>12 DEF Numbered
  <1>14. BeforeAll'
    BY <1>3 DEF BeforeAll
  <1>15. Len(got[c]) <= Len(got'[c])
    BY <1>4, <1>6
  <1>16. CASE c = 1
    <2>1. /\ sent'[c] = Append(sent[c], d) /\ conn'[c].local = conn[c].local + 1
          /\ \/ conn'[c].timer = conn[c].timer /\ conn'[c].rtx = conn[c].rtx
             \/ conn'[c].timer /\ conn'[c].rtx = Armed(conn[c].local, d)
      BY <1>2, <1>3, <1>16, SendFacts
    <2>2. PICK f \in Frame :
             /\ ToSet(queue') \subseteq ToSet(Queued(Tail(queue), r)) \cup {f}
             /\ f.to = Peer(c) /\ f.flags = {"psh", "ack"} /\ f.seq = k.local
             /\ f.ack = k.remote /\ f.data = d
      BY <1>2, <1>3, <1>16, SendFrame, SMTT(30)
    <2>3. d = <<sessions, Len(sent[c]) + 1>>
      BY <1>2, <1>11, <1>16
    <2>4. Len(sent'[c]) = Len(sent[c]) + 1
      BY <1>2, <1>4, <2>1
    <2>5. Numbered(sent[c])'
      <3>1. Numbered(Append(sent[c], d))
        BY <1>4, <1>11, <2>3, NumberedOn
      <3> QED
        BY <1>3, <2>1, <3>1 DEF Numbered
    <2>6. Counted'
      <3>1. Len(sent'[1]) = Len(got'[1])
        BY <1>6, <1>11, <1>16, <2>4
      <3>2. Len(got'[c]) <= Len(sent'[p]) /\ Len(got'[p]) <= Len(sent'[c])
        BY <1>2, <1>4, <1>5, <1>6, <1>8, <1>11, <2>4
      <3> QED
        BY <1>1, <1>13, <2>5, <3>1, <3>2 DEF Counted, p
    <2>7. NoneLater'
      <3>1. d[1] = sessions
        BY <1>2
      <3> QED
        BY <1>2, <1>3, <1>16, <3>1, SendNotLater
    <2>8. Talking'
      <3>1. /\ f.seq = conn[c].local /\ f.ack = conn'[c].remote
            /\ f.data = <<sessions, Len(sent[c]) + 1>>
        BY <1>3, <1>8, <2>2, <2>3
      <3>2. \A g \in Frame :
               g \in ToSet(queue') => g \in ToSet(queue) \/ g = f \/ GoodFrame(g)'
        BY <1>3, <1>10, <2>2
      <3>3. /\ conn[Peer(c)].state \in Opened /\ conn'[Peer(c)] = conn[Peer(c)]
            /\ sent'[Peer(c)] = sent[Peer(c)] /\ got'[Peer(c)] = got[Peer(c)]
        BY <1>2, <1>5, <1>8 DEF p
      <3>4. \/ conn'[c].timer = conn[c].timer /\ conn'[c].rtx = conn[c].rtx
            \/ conn'[c].timer /\ conn'[c].rtx = Armed(conn[c].local, f.data)
        BY <2>1, <2>2
      <3> QED
        BY <1>2, <1>3, <1>7, <1>8, <1>9, <1>15, <2>1, <2>2, <2>4, <3>1, <3>2, <3>3, <3>4,
           SendTalks
    <2> QED
      BY <1>7, <1>14, <2>6, <2>7, <2>8
  <1>17. CASE c # 1
    <2>1. /\ conn' = [conn EXCEPT ![c] = k] /\ queue' = Queued(Tail(queue), r) /\ sent' = sent
      BY <1>3, <1>17
    <2>2. conn'[c] = k
      BY <2>1, Replaced DEF TypeOK
    <2>3. Counted'
      <3>1. p = 1
        BY <1>1, <1>17 DEF Slot
      <3>2. Numbered(sent[c])'
        BY <1>3, <1>11, <2>1 DEF Numbered
      <3>3. Len(sent'[1]) = Len(got'[1])
        BY <1>5, <1>11, <2>1, <3>1
      <3>4. Len(got'[c]) <= Len(sent'[p]) /\ Len(got'[p]) <= Len(sent'[c])
        BY <1>2, <1>4, <1>5, <1>6, <1>8, <1>11, <2>1
      <3> QED
        BY <1>1, <1>13, <3>2, <3>3, <3>4 DEF Counted, p
    <2>4. NoneLater'
      BY <1>1, <1>3, <1>8, <2>2 DEF NoneLater
    <2>5. Onward(c)
      <3>1. Number(c)' = Number(c)
        BY <1>2, <1>3, <2>1, <2>2 DEF Number
      <3>2. conn[c].remote <= conn'[c].remote /\ Len(sent[c]) <= Len(sent'[c])
        BY <1>4, <1>8, <2>1
      <3>3. conn'[c].state = conn[c].state
        BY <1>2, <1>8
      <3> QED
        BY <1>9, <3>1, <3>2, <3>3 DEF Onward
    <2>6. Kept(c)'
      <3>1. /\ Len(got[Peer(c)]) <= Len(got'[Peer(c)])
            /\ conn'[c].rtx.count >= conn[c].rtx.count
        BY <1>3, <1>4, <1>5, <2>2 DEF p
      <3>2. NothingYet /\ Kept(c)
        BY DEF Talking
      <3> QED
        BY <1>3, <1>7, <2>2, <2>5, <3>1, <3>2, KeptOn
    <2>7. Talking'
      <3>1. \A g \in Frame : g \in ToSet(queue') => g \in ToSet(queue) \/ GoodFrame(g)'
        BY <1>3, <1>10, <2>1
      <3>2. /\ conn[Peer(c)].state \in Opened /\ conn'[Peer(c)] = conn[Peer(c)]
            /\ sent'[Peer(c)] = sent[Peer(c)] /\ got'[Peer(c)] = got[Peer(c)]
        BY <1>2, <1>5, <1>8 DEF p
      <3>3. conn[c].state \in Opened /\ conn'[c].state \notin {"closing", "closed_final"}
        BY <1>2, <1>8 DEF Opened, Synced
      <3> QED
        BY <1>3, <1>7, <1>15, <2>5, <2>6, <3>1, <3>2, <3>3, TalkingOpened
    <2> QED
      BY <1>7, <1>14, <2>3, <2>4, <2>7
  <1> QED
    BY <1>16, <1>17

\* A command sends a unit.
LEMMA SendSteps ==
    ASSUME TypeOK, Counted, NoneLater, Talking, sessions # 0, Send
    PROVE  TypeOK' /\ Counted' /\ NoneLater' /\ BeforeAll' /\ Talking'
  <1> DEFINE d == <<sessions, Len(sent[0]) + 1>>
  <1>1. 0 \in Slot /\ 1 \in Slot /\ Peer(0) = 1 /\ \A e \in Slot : e = 0 \/ e = 1
    BY DEF Slot, Peer
  <1>2. /\ sessions \in Nat /\ sent[0] \in Seq(Unit) /\ Len(sent[0]) \in Nat
        /\ Len(got[0]) \in Nat /\ Len(got[1]) \in Nat /\ conn[0] \in Record
        /\ queue \in Seq(Frame) /\ got \in [Slot -> Seq(Unit)]
    BY <1>1, SlotTypes DEF TypeOK
  <1>3. d \in Unit /\ d[1] = sessions
    BY <1>2 DEF Unit
  <1>4. /\ conn[0].state = "established" /\ conn[1].state = "established"
        /\ SendData(0, conn[0], d, queue) /\ got' = got /\ sessions' = sessions
    BY <1>1 DEF Send
  <1> HIDE DEF d
  <1>5. TypeOK'
    <2>1. /\ conn' \in [Slot -> Record] /\ queue' \in Seq(Frame)
          /\ sent' \in [Slot -> Seq(Unit)] /\ faults' \in Nat
      BY <1>1, <1>2, <1>3, <1>4, SendTypes
    <2> QED
      BY <1>2, <1>4, <2>1 DEF TypeOK
  <1>6. /\ conn'[1] = conn[1] /\ sent'[1] = sent[1] /\ sent'[0] = Append(sent[0], d)
        /\ conn'[0].state = "established" /\ conn'[0].local = conn[0].local + 1
        /\ conn'[0].remote = conn[0].remote
        /\ \/ conn'[0].timer = conn[0].timer /\ conn'[0].rtx = conn[0].rtx
           \/ conn'[0].timer /\ conn'[0].rtx = Armed(conn[0].local, d)
    BY <1>1, <1>2, <1>3, <1>4, SendFacts
  <1>7. PICK f \in Frame :
           /\ ToSet(queue') \subseteq ToSet(queue) \cup {f}
           /\ f.to = Peer(0) /\ f.flags = {"psh", "ack"} /\ f.seq = conn[0].local
           /\ f.ack = conn[0].remote /\ f.data = d
    <2>1. PICK c \in Slot, k \in Record, q \in Seq(Frame) : c = 0 /\ k = conn[c] /\ q = queue
      BY <1>1, <1>2
    <2>2. SendData(c, k, d, q)
      BY <1>4, <2>1
    <2>3. \E f \in Frame :
             /\ ToSet(queue') \subseteq ToSet(q) \cup {f}
             /\ f.to = Peer(c) /\ f.flags = {"psh", "ack"} /\ f.seq = k.local
             /\ f.ack = k.remote /\ f.data = d
      BY <1>3, <2>2, SendFrame
    <2> QED
      BY <2>1, <2>3
  <1>8. Len(sent'[0]) = Len(sent[0]) + 1
    BY <1>2, <1>3, <1>6
  <1>9. Counted'
    <2>1. /\ Numbered(sent[0]) /\ Numbered(sent[1]) /\ Numbered(got[0]) /\ Numbered(got[1])
          /\ Len(got[0]) <= Len(sent[1]) /\ Len(got[1]) <= Len(sent[0])
          /\ Len(sent[1]) = Len(got[1])
      BY <1>1 DEF Counted, Peer
    <2>2. Numbered(Append(sent[0], d))
      BY <1>2, <2>1, NumberedOn DEF d
    <2>3. Numbered(sent[0])' /\ Numbered(sent[1])' /\ Numbered(got[0])' /\ Numbered(got[1])'
      BY <1>4, <1>6, <2>1, <2>2 DEF Numbered
    <2>4. /\ Len(got'[0]) <= Len(sent'[1]) /\ Len(got'[1]) <= Len(sent'[0])
          /\ Len(sent'[1]) = Len(got'[1])
      BY <1>2, <1>4, <1>6, <1>8, <2>1
    <2> QED
      BY <1>1, <2>3, <2>4 DEF Counted, Peer
  <1>10. NoneLater'
    BY <1>1, <1>2, <1>3, <1>4, SendNotLater
  <1>11. BeforeAll'
    BY <1>4 DEF BeforeAll
  <1>12. Talking'
    <2>1. Known(0)' = Known(0)
      BY <1>4, <1>6 DEF Known
    <2>2. conn[1].state \in Opened
      BY <1>4 DEF Opened, Synced
    <2>3. Len(got[0]) <= Len(got'[0])
      BY <1>2, <1>4
    <2>4. \A g \in Frame : g \in ToSet(queue') => g \in ToSet(queue) \/ g = f \/ GoodFrame(g)'
      BY <1>7
    <2>5. /\ conn[Peer(0)].state \in Opened /\ conn'[Peer(0)] = conn[Peer(0)]
          /\ sent'[Peer(0)] = sent[Peer(0)] /\ got'[Peer(0)] = got[Peer(0)]
      BY <1>1, <1>4, <1>6, <2>2
    <2>6. /\ f.ack = conn'[0].remote /\ f.data = <<sessions, Len(sent[0]) + 1>>
          /\ \/ conn'[0].timer = conn[0].timer /\ conn'[0].rtx = conn[0].rtx
             \/ conn'[0].timer /\ conn'[0].rtx = Armed(conn[0].local, f.data)
      BY <1>6, <1>7 DEF d
    <2> QED
      BY <1>1, <1>4, <1>5, <1>6, <1>7, <1>8, <2>1, <2>3, <2>4, <2>5, <2>6, SendTalks
  <1> QED
    BY <1>5, <1>9, <1>10, <1>11, <1>12

\* A session begins: nothing is left of the one before but frames without a
\* SYN.
LEMMA ConnectSteps ==
    ASSUME Leftovers = {}, TcpInv, Connect
    PROVE  TcpInv'
  <1> DEFINE s == Segment(0, {"syn"}, ClientIsn(sessions), 0, NoData)
  <1>1. TypeOK /\ TypeOK' /\ NoneLater /\ sessions \in Nat
    BY ConnectTypes DEF TcpInv, TypeOK
  <1>2. 0 \in Slot /\ 1 \in Slot /\ 0 # 1 /\ \A e \in Slot : e = 0 \/ e = 1
    BY DEF Slot
  <1>3. ClientIsn(sessions) \in Int /\ conn[0] \in Record /\ conn[1] \in Record
    BY <1>1, <1>2, TcpAssumption, SlotTypes DEF Connect
  <1>4. /\ conn' = [c \in Slot |-> IF c = 0 THEN ActiveOpen(conn[0], ClientIsn(sessions))
                                   ELSE PassiveOpen(conn[1])]
        /\ sent' = [c \in Slot |-> <<>>] /\ got' = [c \in Slot |-> <<>>]
        /\ queue' = Queued(queue, s) /\ sessions' = sessions + 1 /\ ~conn[1].timer
        /\ \A n \in 1 .. Len(queue) : "syn" \notin queue[n].flags
    BY DEF Connect
  <1>5. conn'[0] = ActiveOpen(conn[0], ClientIsn(sessions)) /\ conn'[1] = PassiveOpen(conn[1])
    BY <1>2, <1>4
  <1>6. /\ conn'[0].state = "syn_sent" /\ conn'[1].state = "closed"
        /\ conn'[0].rtx.data = NoData /\ conn'[1].rtx = conn[1].rtx /\ ~conn'[1].timer
    <2>1. Armed(ClientIsn(sessions), NoData).data = NoData
      BY DEF Armed
    <2>2. conn'[0].state = "syn_sent" /\ conn'[0].rtx = Armed(ClientIsn(sessions), NoData)
      <3>1. PICK k \in Record, i \in Int : k = conn[0] /\ i = ClientIsn(sessions)
        BY <1>3
      <3>2. ActiveOpen(k, i).state = "syn_sent" /\ ActiveOpen(k, i).rtx = Armed(i, NoData)
        BY OpenTypes
      <3> QED
        BY <1>5, <3>1, <3>2
    <2>3. /\ conn'[1].state = "closed" /\ conn'[1].rtx = conn[1].rtx
          /\ conn'[1].timer = conn[1].timer
      BY <1>3, <1>5, OpenTypes
    <2> QED
      BY <1>4, <2>1, <2>2, <2>3
  <1>7. PICK f \in Frame : queue' = Queued(queue, f) /\ f.flags = {"syn"}
    <2>1. {"syn"} \in Kinds /\ NoData \in Payload /\ 0 \in Int
      BY DEF Kinds, Payload
    <2>2. s \in Frame /\ s.flags = {"syn"}
      BY <1>2, <1>3, <2>1, SegmentTypes
    <2> QED
      BY <1>4, <2>2
  <1>8. \A c \in Slot : sent'[c] = <<>> /\ got'[c] = <<>>
    BY <1>4
  <1>9. Counted'
    BY <1>2, <1>8, Peers DEF Counted, Numbered
  <1>10. NoneLater'
    <2>1. conn[1].rtx.data # NoData => conn[1].rtx.data[1] <= sessions /\ conn[1].rtx.data[1] \in Nat
      <3>1. conn[1].rtx.data \in Unit \cup {NoData}
        BY <1>1, <1>2, SlotTypes DEF Payload
      <3> QED
        BY <1>1, <1>2, <3>1 DEF NoneLater, Unit
    <2>2. conn[1].rtx.data # NoData => conn[1].rtx.data[1] <= sessions + 1
      BY <1>1, <2>1
    <2> QED
      BY <1>2, <1>4, <1>6, <2>2 DEF NoneLater
  <1>11. BeforeAll'
    BY <1>1, <1>4 DEF BeforeAll
  <1>12. Talking'
    <2>1. Opening'
      BY <1>6 DEF Opening
    <2>2. queue \in Seq(Frame) /\ \A g \in ToSet(queue) : "syn" \notin g.flags
      <3>1. queue \in Seq(Frame)
        BY <1>1 DEF TypeOK
      <3> QED
        BY <1>4, <3>1, QueueFrames
    <2>3. Frames'
      <3>1. ToSet(queue') \subseteq ToSet(queue) \cup {f}
        BY <1>7, <2>2, AfterQueued
      <3>2. GoodFrame(f)'
        BY <1>7 DEF GoodFrame
      <3> QED
        BY <2>1, <2>2, <3>1, <3>2 DEF Frames
    <2>4. OldFirst'
      <3>1. SynLast(queue)
        BY <1>4 DEF SynLast
      <3>2. SynLast(Queued(queue, f))
        BY <1>7, <2>2, <3>1, SynLastOn
      <3> QED
        BY <1>7, <3>2 DEF OldFirst
    <2>5. NothingYet'
      BY <1>8 DEF NothingYet
    <2>6. \A c \in Slot : conn'[c].state \notin {"closing", "closed_final"} /\ Shaken(c)'
      BY <1>2, <1>6 DEF Shaken, Opened, Synced
    <2>7. Kept(0)'
      BY <1>6 DEF Kept
    <2>8. Kept(1)'
      <3>1. ~(conn[1].rtx.data # NoData /\ conn[1].rtx.data[1] = sessions + 1)
        <4>1. conn[1].rtx.data # NoData => conn[1].rtx.data[1] <= sessions
          BY <1>1, <1>2 DEF NoneLater
        <4> QED
          BY <1>1, <4>1
      <3> QED
        BY <1>4, <1>6, <3>1 DEF Kept
    <2> QED
      BY <1>2, <2>3, <2>4, <2>5, <2>6, <2>7, <2>8 DEF Talking
  <1> QED
    BY <1>1, <1>9, <1>10, <1>11, <1>12 DEF TcpInv

LEMMA ConnectBothSteps ==
    ASSUME TcpInv, ConnectBoth
    PROVE  TcpInv'
  <1> DEFINE isn == [c \in Slot |-> IF c = 0 THEN ClientIsn(0) ELSE ServerIsn]
             s == Segment(0, {"syn"}, ClientIsn(0), 0, NoData)
             u == Segment(1, {"syn"}, ServerIsn, 0, NoData)
  <1>1. TypeOK /\ TypeOK' /\ NoneLater /\ Counted
    BY ConnectTypes DEF TcpInv
  <1>2. 0 \in Slot /\ 1 \in Slot
    BY DEF Slot
  <1>3. /\ sessions = 0 /\ sessions' = 1 /\ queue' = queue \o <<s, u>>
        /\ conn' = [c \in Slot |-> ActiveOpen(conn[c], isn[c])]
        /\ sent' = sent /\ got' = got
    BY <1>2 DEF ConnectBoth
  <1>4. queue = <<>> /\ \A c \in Slot : conn[c].state = "closed"
    BY <1>3 DEF TcpInv, BeforeAll
  <1>5. NothingYet
    BY <1>2, <1>4 DEF TcpInv, BothFinished, Finished, Opened, Synced, Talking
  <1>6. \A c \in Slot : sent'[c] = <<>> /\ got'[c] = <<>>
    BY <1>2, <1>3, <1>4, <1>5 DEF NothingYet, Opened, Synced
  <1>7. /\ ClientIsn(0) \in Int /\ ServerIsn \in Int /\ {"syn"} \in Kinds /\ NoData \in Payload
        /\ \A c \in Slot : isn[c] \in Int
    BY TcpAssumption DEF Kinds, Payload, ConnectBoth
  <1>8. s \in Frame /\ s.flags = {"syn"} /\ u \in Frame /\ u.flags = {"syn"}
    BY <1>2, <1>7, SegmentTypes
  <1> HIDE DEF s, u, isn
  <1>9. ASSUME NEW c \in Slot PROVE conn'[c].state = "syn_sent" /\ conn'[c].rtx.data = NoData
    <2>1. conn[c] \in Record /\ isn[c] \in Int
      BY <1>1, <1>7, SlotTypes
    <2>2. Armed(isn[c], NoData).data = NoData
      BY DEF Armed
    <2> QED
      BY <1>3, <2>1, <2>2, OpenTypes
  <1>10. Counted'
    BY <1>2, <1>6, Peers DEF Counted, Numbered
  <1>11. NoneLater'
    BY <1>9 DEF NoneLater
  <1>12. BeforeAll'
    BY <1>3 DEF BeforeAll
  <1>13. Talking'
    <2>1. ~Opening'
      BY <1>2, <1>9 DEF Opening
    <2>2. queue' = <<s, u>>
      BY <1>3, <1>4
    <2>3. Frames'
      <3>1. \A g \in ToSet(queue') : g.flags = {"syn"}
        BY <1>8, <2>2 DEF ToSet
      <3> QED
        BY <3>1 DEF Frames, GoodFrame
    <2>4. OldFirst'
      BY <2>1 DEF OldFirst
    <2>5. NothingYet'
      BY <1>6 DEF NothingYet
    <2>6. \A c \in Slot : /\ conn'[c].state \notin {"closing", "closed_final"}
                          /\ Shaken(c)' /\ Kept(c)'
      BY <1>9 DEF Shaken, Opened, Synced, Kept
    <2> QED
      BY <2>3, <2>4, <2>5, <2>6 DEF Talking
  <1> QED
    BY <1>1, <1>10, <1>11, <1>12, <1>13 DEF TcpInv

---------------------------------------------------------------------------
(* The end of a connection.                                                *)

\* The branches but Data change the slot only, and not what it keeps.
LEMMA BranchFacts ==
    ASSUME TypeOK, NEW c \in Slot, NEW s,
           \/ PassiveSyn(c, s) \/ SynAcked(c, s) \/ SimultaneousSyn(c, s) \/ HandshakeDone(c, s)
           \/ Acked(c, s) \/ Fin(c, s) \/ FinWait(c, s) \/ Closing(c, s)
    PROVE  /\ queue # <<>> /\ UNCHANGED <<sent, got, sessions>>
           /\ conn'[Peer(c)] = conn[Peer(c)] /\ conn'[c].rtx = conn[c].rtx
  <1>1. conn[c] \in Record /\ conn \in [Slot -> Record]
    BY SlotTypes DEF TypeOK
  <1>2. queue # <<>> /\ UNCHANGED <<sent, got, sessions>>
    BY DEF PassiveSyn, SynAcked, SimultaneousSyn, HandshakeDone, Acked, Fin, FinWait, Closing,
           Answers, Silent, Taken
  <1>3. conn'[c].rtx = conn[c].rtx
    <2>1. CASE PassiveSyn(c, s)
      BY <1>1, <2>1 DEF PassiveSyn, Answers, Record
    <2>2. CASE SynAcked(c, s)
      BY <1>1, <2>2 DEF SynAcked, Answers, Record
    <2>3. CASE SimultaneousSyn(c, s)
      BY <1>1, <2>3 DEF SimultaneousSyn, Answers, Record
    <2>4. CASE HandshakeDone(c, s)
      BY <1>1, <2>4 DEF HandshakeDone, Silent, Record
    <2>5. CASE Acked(c, s)
      BY <1>1, <2>5 DEF Acked, Silent, Record
    <2>6. CASE Fin(c, s)
      BY <1>1, <2>6 DEF Fin, Answers, Record
    <2>7. CASE FinWait(c, s)
      BY <1>1, <2>7, ZenonT(60) DEF FinWait, Answers, Silent, Record
    <2>8. CASE Closing(c, s)
      BY <1>1, <2>8 DEF Closing, Silent, Record
    <2> QED
      BY <2>1, <2>2, <2>3, <2>4, <2>5, <2>6, <2>7, <2>8
  <1>4. conn'[Peer(c)] = conn[Peer(c)]
    <2>1. Peer(c) \in Slot /\ Peer(c) # c
      BY Peers
    <2>2. \E k : conn' = [conn EXCEPT ![c] = k]
      BY DEF PassiveSyn, SynAcked, SimultaneousSyn, HandshakeDone, Acked, Fin, FinWait, Closing,
             Answers, Silent
    <2> QED
      BY <1>1, <2>1, <2>2
  <1> QED
    BY <1>2, <1>3, <1>4

\* Such a branch keeps the account.
LEMMA BranchAccount ==
    ASSUME TypeOK, Counted, NoneLater, BeforeAll, NEW c \in Slot, NEW s,
           \/ PassiveSyn(c, s) \/ SynAcked(c, s) \/ SimultaneousSyn(c, s) \/ HandshakeDone(c, s)
           \/ Acked(c, s) \/ Fin(c, s) \/ FinWait(c, s) \/ Closing(c, s)
    PROVE  TypeOK' /\ Counted' /\ NoneLater' /\ BeforeAll'
  <1>1. TypeOK'
    BY HandledTypes
  <1>2. /\ queue # <<>> /\ UNCHANGED <<sent, got, sessions>>
        /\ conn'[Peer(c)] = conn[Peer(c)] /\ conn'[c].rtx = conn[c].rtx
    BY BranchFacts
  <1>3. \A d \in Slot : conn'[d].rtx.data = conn[d].rtx.data
    BY <1>2, Peers
  <1>4. sessions # 0
    BY <1>2 DEF BeforeAll
  <1> QED
    BY <1>1, <1>2, <1>3, <1>4, AccountOn

\* Whoever takes a FIN has a peer that sent it.
LEMMA FinEnds ==
    ASSUME TypeOK, Talking, NEW c \in Slot, NEW s, Fin(c, s)
    PROVE  BothFinished'
  <1>1. /\ s \in ToSet(queue) /\ s.to = c /\ conn[c].state = "established" /\ "fin" \in s.flags
    BY HeadFrame DEF Fin, Has
  <1>2. ~Opening
    BY <1>1 DEF Opening, Slot
  <1>3. conn[Peer(c)].state \in Finished
    BY <1>1, <1>2 DEF Talking, Frames, GoodFrame
  <1>4. conn'[c].state = "fin_wait"
    BY SlotTypes DEF Fin, Answers, Record, TypeOK
  <1>5. conn'[Peer(c)] = conn[Peer(c)]
    BY BranchFacts
  <1> QED
    BY <1>3, <1>4, <1>5, Peers DEF BothFinished, Finished, Opened, Synced

\* Nobody acknowledges a FIN that it has not seen.
LEMMA FinWaitTalks ==
    ASSUME TypeOK, TypeOK', Counted, Talking, ~BothFinished, NEW c \in Slot, NEW s, FinWait(c, s)
    PROVE  Talking'
  <1> DEFINE p == Peer(c)
  <1>1. /\ queue # <<>> /\ s \in ToSet(queue) /\ s.to = c /\ conn[c].state = "fin_wait"
        /\ "ack" \in s.flags /\ s.ack \in Int
    BY HeadFrame DEF FinWait, Has
  <1>2. "fin_wait" \in Finished /\ "fin_wait" \in Opened /\ "fin_wait" # "established"
    BY DEF Finished, Opened, Synced
  <1>3. GoodFrame(s)
    BY <1>1 DEF Talking, Frames, Opening, Slot
  <1>4. p \in Slot /\ Peer(p) = c /\ conn[p].state \notin Finished
    BY <1>1, <1>2, Peers DEF BothFinished
  <1>5. "fin" \notin s.flags
    BY <1>1, <1>3, <1>4 DEF GoodFrame
  <1>6. ~FinAcked(conn[c], s)
    <2>1. s.ack <= conn[p].remote
      BY <1>1, <1>3 DEF GoodFrame
    <2>2. conn[p].remote - 1 - Len(got[p]) = conn[c].local - Len(sent[c]) - 2
      <3>1. Known(p) = Number(c)
        BY <1>1, <1>2 DEF Talking, Shaken
      <3> QED
        BY <1>1, <1>2, <3>1 DEF Known, Number
    <2>3. Len(got[p]) <= Len(sent[c])
      BY <1>4 DEF Counted
    <2>4. /\ conn[p].remote \in Int /\ conn[c].local \in Int
          /\ Len(got[p]) \in Nat /\ Len(sent[c]) \in Nat
      BY <1>4, SlotTypes
    <2>5. conn[p].remote < conn[c].local
      BY <2>2, <2>3, <2>4, SMTT(30)
    <2> QED
      BY <1>1, <2>1, <2>4, <2>5 DEF FinAcked
  <1>7. Silent(c, conn[c])
    BY <1>5, <1>6 DEF FinWait, Has
  <1>8. conn' = conn /\ queue' = Tail(queue) /\ UNCHANGED <<sent, got, sessions>>
    BY <1>7 DEF Silent, TypeOK
  <1> QED
    BY <1>1, <1>8, TalkingTail

\* A slot that has finished stays so.
LEMMA FinishedStays ==
    ASSUME TypeOK, NEW c \in Slot, NEW s, FinWait(c, s) \/ Closing(c, s)
    PROVE  conn'[c].state \in Finished
  <1>1. conn[c] \in Record /\ conn \in [Slot -> Record]
    BY SlotTypes DEF TypeOK
  <1>2. {"fin_wait", "closing", "closed_final"} \subseteq Finished
    BY DEF Finished, Opened, Synced
  <1>3. CASE FinWait(c, s)
    <2>1. conn[c].state = "fin_wait"
      BY <1>3 DEF FinWait, Taken
    <2>2. conn'[c].state \in {"fin_wait", "closing", "closed_final"}
      BY <1>1, <1>3, <2>1 DEF FinWait, Answers, Silent, Record
    <2> QED
      BY <1>2, <2>2
  <1>4. CASE Closing(c, s)
    <2>1. conn'[c].state = "closed_final"
      BY <1>1, <1>4 DEF Closing, Silent, Record
    <2> QED
      BY <1>2, <2>1
  <1> QED
    BY <1>3, <1>4

---------------------------------------------------------------------------
(* The invariant holds, whatever the steps.                                *)

\* The first frame is lost or ignored.
LEMMA TailKeeps ==
    ASSUME TcpInv, queue # <<>>, conn' = conn, queue' = Tail(queue), faults' \in Nat,
           UNCHANGED <<sent, got, sessions>>
    PROVE  TcpInv'
  <1>1. TypeOK /\ Counted /\ NoneLater /\ BeforeAll /\ (BothFinished \/ Talking)
    BY DEF TcpInv
  <1>2. TypeOK'
    BY <1>1, AfterHead DEF TypeOK
  <1>3. sessions # 0
    BY <1>1 DEF BeforeAll
  <1>4. \A d \in Slot : conn'[d].rtx.data = conn[d].rtx.data
    OBVIOUS
  <1>5. Counted' /\ NoneLater' /\ BeforeAll'
    BY <1>1, <1>3, <1>4, AccountOn
  <1>6. BothFinished => BothFinished'
    BY DEF BothFinished
  <1>7. Talking => Talking'
    BY <1>1, <1>2, TalkingTail
  <1> QED
    BY <1>1, <1>2, <1>5, <1>6, <1>7 DEF TcpInv

LEMMA HandledKeeps ==
    ASSUME TcpInv, NEW c \in Slot, NEW s, Handled(c, s)
    PROVE  TcpInv'
  <1>1. TypeOK /\ Counted /\ NoneLater /\ BeforeAll /\ (BothFinished \/ Talking)
    BY DEF TcpInv
  <1>2. CASE BothFinished
    <2>1. conn[c].state \in Finished /\ conn[Peer(c)].state \in Finished
      BY <1>2, Peers DEF BothFinished
    <2>2. FinWait(c, s) \/ Closing(c, s)
      BY <2>1 DEF Handled, PassiveSyn, SynAcked, SimultaneousSyn, HandshakeDone, Data, Acked,
                  Fin, Taken, Finished, Opened, Synced
    <2>3. conn'[c].state \in Finished
      BY <1>1, <2>2, FinishedStays
    <2>4. conn'[Peer(c)] = conn[Peer(c)]
      BY <1>1, <2>2, BranchFacts
    <2>5. BothFinished'
      BY <2>1, <2>3, <2>4, Peers DEF BothFinished
    <2>6. TypeOK' /\ Counted' /\ NoneLater' /\ BeforeAll'
      BY <1>1, <2>2, BranchAccount
    <2> QED
      BY <2>5, <2>6 DEF TcpInv
  <1>3. CASE Talking /\ ~BothFinished /\ Data(c, s)
    <2>1. sessions # 0
      BY <1>1, <1>3, DataIs DEF BeforeAll
    <2> QED
      BY <1>1, <1>3, <2>1, DataSteps DEF TcpInv
  <1>4. CASE Talking /\ ~BothFinished /\ ~Data(c, s)
    <2>1. \/ PassiveSyn(c, s) \/ SynAcked(c, s) \/ SimultaneousSyn(c, s)
          \/ HandshakeDone(c, s) \/ Acked(c, s) \/ Fin(c, s) \/ FinWait(c, s) \/ Closing(c, s)
      BY <1>4 DEF Handled
    <2>2. TypeOK' /\ Counted' /\ NoneLater' /\ BeforeAll'
      BY <1>1, <2>1, BranchAccount
    <2>3. ~Closing(c, s)
      BY <1>4 DEF Talking, Closing, Taken
    <2>4. Talking' \/ BothFinished'
      BY <1>1, <1>4, <2>1, <2>2, <2>3, PassiveSynTalks, SynAckedTalks, SimultaneousSynTalks,
         HandshakeDoneTalks, AckedTalks, FinEnds, FinWaitTalks
    <2> QED
      BY <2>2, <2>4 DEF TcpInv
  <1> QED
    BY <1>1, <1>2, <1>3, <1>4

LEMMA RetransmitKeeps ==
    ASSUME TcpInv, NEW c \in Slot, Retransmit(c)
    PROVE  TcpInv'
  <1>1. TypeOK /\ Counted /\ NoneLater /\ BeforeAll /\ (BothFinished \/ Talking)
    BY DEF TcpInv
  <1>2. TypeOK'
    BY <1>1, RetransmitTypes
  <1>3. /\ conn[c].timer /\ conn'[Peer(c)] = conn[Peer(c)] /\ UNCHANGED <<sent, got, sessions>>
        /\ conn'[c].rtx.data = conn[c].rtx.data
        /\ conn'[c].state = conn[c].state \/ conn[c].state = "syn_sent"
    BY <1>1, RetransmitFacts
  <1>4. \A d \in Slot : conn'[d].rtx.data = conn[d].rtx.data
    BY <1>3, Peers
  <1>5. sessions # 0
    BY <1>1, <1>3 DEF BeforeAll
  <1>6. Counted' /\ NoneLater' /\ BeforeAll'
    BY <1>1, <1>3, <1>4, <1>5, AccountOn
  <1>7. BothFinished => BothFinished'
    <2>1. "syn_sent" \notin Finished
      BY DEF Finished, Opened, Synced
    <2> QED
      BY <1>3, <2>1, Peers DEF BothFinished
  <1>8. Talking => Talking'
    BY <1>1, <1>2, RetransmitTalks
  <1> QED
    BY <1>1, <1>2, <1>6, <1>7, <1>8 DEF TcpInv

LEMMA CloseKeeps ==
    ASSUME TcpInv, NEW c \in Slot, Close(c)
    PROVE  TcpInv'
  <1>1. TypeOK /\ Counted /\ NoneLater /\ BeforeAll /\ (BothFinished \/ Talking)
    BY DEF TcpInv
  <1>2. conn[c].state = "established" /\ UNCHANGED <<sent, got, sessions>>
    BY DEF Close
  <1>3. TypeOK'
    BY <1>1, CloseTypes
  <1>4. Talking
    BY <1>1, <1>2 DEF BothFinished, Finished
  <1>5. Talking'
    BY <1>1, <1>3, <1>4, CloseTalks
  <1>6. \A d \in Slot : conn'[d].rtx.data = conn[d].rtx.data
    <2>1. conn[c] \in Record /\ conn \in [Slot -> Record]
      BY <1>1, SlotTypes DEF TypeOK
    <2> QED
      BY <2>1 DEF Close, Record
  <1>7. sessions # 0
    BY <1>1, <1>2 DEF BeforeAll
  <1>8. Counted' /\ NoneLater' /\ BeforeAll'
    BY <1>1, <1>2, <1>6, <1>7, AccountOn
  <1> QED
    BY <1>3, <1>5, <1>8 DEF TcpInv

LEMMA SendKeeps ==
    ASSUME TcpInv, Send
    PROVE  TcpInv'
  <1>1. TypeOK /\ Counted /\ NoneLater /\ BeforeAll /\ (BothFinished \/ Talking)
    BY DEF TcpInv
  <1>2. 0 \in Slot /\ conn[0].state = "established"
    BY DEF Send, Slot
  <1>3. Talking
    BY <1>1, <1>2 DEF BothFinished, Finished
  <1>4. sessions # 0
    BY <1>1, <1>2 DEF BeforeAll
  <1> QED
    BY <1>1, <1>3, <1>4, SendSteps DEF TcpInv

LEMMA StutterKeeps ==
    ASSUME TcpInv, UNCHANGED vars
    PROVE  TcpInv'
  <1>1. /\ conn' = conn /\ queue' = queue /\ sent' = sent /\ got' = got
        /\ sessions' = sessions /\ faults' = faults
    BY DEF vars
  <1>2. TypeOK' /\ Counted' /\ NoneLater' /\ BeforeAll'
    BY <1>1 DEF TcpInv, TypeOK, Counted, Numbered, NoneLater, BeforeAll
  <1>3. BothFinished' <=> BothFinished
    BY <1>1 DEF BothFinished
  <1>4. \A c : Number(c)' = Number(c) /\ Known(c)' = Known(c)
    BY <1>1 DEF Number, Known
  <1>5. Talking => Frames' /\ OldFirst' /\ NothingYet'
    BY <1>1, <1>4 DEF Talking, Frames, GoodFrame, Opening, OldFirst, NothingYet
  <1>6. Talking => \A c \in Slot : /\ conn'[c].state \notin {"closing", "closed_final"}
                                  /\ Shaken(c)' /\ Kept(c)'
    BY <1>1, <1>4 DEF Talking, Shaken, Kept
  <1> QED
    BY <1>2, <1>3, <1>5, <1>6 DEF TcpInv, Talking

LEMMA StepKeeps ==
    ASSUME Leftovers = {}, TcpInv, [Next]_vars
    PROVE  TcpInv'
  <1>1. TypeOK
    BY DEF TcpInv
  <1>2. ASSUME Lose PROVE TcpInv'
    <2>1. faults' \in Nat
      BY <1>1, <1>2 DEF Lose, TypeOK
    <2> QED
      BY <1>2, <2>1, TailKeeps DEF Lose
  <1>3. ASSUME NEW c \in Slot, NEW s, Ignored(c, s) PROVE TcpInv'
    <2>1. queue # <<>> /\ Silent(c, conn[c])
      BY <1>3, IgnoredOnly
    <2>2. conn' = conn /\ queue' = Tail(queue) /\ UNCHANGED <<sent, got, sessions, faults>>
      BY <1>1, <2>1 DEF Silent, TypeOK
    <2>3. faults' \in Nat
      BY <1>1, <2>2 DEF TypeOK
    <2> QED
      BY <2>1, <2>2, <2>3, TailKeeps
  <1>4. ASSUME NEW c \in Slot, Close(c) \/ Retransmit(c) \/ Poll(c) PROVE TcpInv'
    BY <1>3, <1>4, CloseKeeps, RetransmitKeeps, HandledKeeps DEF Poll
  <1> QED
    BY <1>2, <1>4, ConnectSteps, ConnectBothSteps, SendKeeps, StutterKeeps DEF Next

LEMMA InitHolds ==
    ASSUME Init
    PROVE  TcpInv
  <1>1. Fresh \in Record /\ Fresh.state = "closed" /\ ~Fresh.timer /\ Fresh.rtx.data = NoData
    BY DEF Fresh, Record, Rtx, States, Payload
  <1>2. /\ \A c \in Slot : conn[c] = Fresh /\ sent[c] = <<>> /\ got[c] = <<>>
        /\ queue = <<>> /\ sessions = 0 /\ faults = 0
    BY DEF Init
  <1>3. TypeOK
    BY <1>1 DEF Init, TypeOK
  <1>4. Counted
    BY <1>2, Peers DEF Counted, Numbered, Slot
  <1>5. NoneLater /\ BeforeAll
    BY <1>1, <1>2 DEF NoneLater, BeforeAll
  <1>6. Frames
    BY <1>2 DEF Frames, ToSet
  <1>7. OldFirst
    BY <1>2 DEF OldFirst, SynLast
  <1>8. NothingYet
    BY <1>2 DEF NothingYet
  <1>9. \A c \in Slot : /\ conn[c].state \notin {"closing", "closed_final"}
                        /\ Shaken(c) /\ Kept(c)
    BY <1>1, <1>2 DEF Shaken, Opened, Synced, Kept
  <1> QED
    BY <1>3, <1>4, <1>5, <1>6, <1>7, <1>8, <1>9 DEF TcpInv, Talking

---------------------------------------------------------------------------
(* What follows.                                                           *)

\* The first units of two accounts that are numbered alike.
LEMMA NumberedPrefix ==
    ASSUME NEW w \in Seq(Unit), NEW v \in Seq(Unit), Numbered(w), Numbered(v), Len(w) <= Len(v)
    PROVE  IsPrefix(w, v)
  <1>1. \A n \in 1 .. Len(w) : w[n] = v[n]
    <2>1. Len(w) \in Nat /\ Len(v) \in Nat
      OBVIOUS
    <2> SUFFICES ASSUME NEW n \in 1 .. Len(w) PROVE w[n] = v[n]
      OBVIOUS
    <2>2. n \in 1 .. Len(v)
      BY <2>1
    <2>3. w[n] = <<sessions, n>>
      BY DEF Numbered
    <2>4. v[n] = <<sessions, n>>
      BY <2>2 DEF Numbered
    <2> QED
      BY <2>3, <2>4
  <1>2. SubSeq(w, 1, Len(w)) = SubSeq(v, 1, Len(w))
    BY <1>1
  <1> QED
    BY <1>2 DEF IsPrefix

LEMMA InvFollows ==
    ASSUME TcpInv
    PROVE  DeliveredInOrder /\ SeqAgree /\ LastKeptUntilDelivered /\ CloseAgreed
  <1>1. TypeOK /\ Counted /\ (BothFinished \/ Talking)
    BY DEF TcpInv
  <1>2. "established" \notin Finished /\ "established" \in Opened
    BY DEF Finished, Opened, Synced
  <1>3. DeliveredInOrder
    <2> SUFFICES ASSUME NEW c \in Slot PROVE IsPrefix(got[c], sent[Peer(c)])
      BY DEF DeliveredInOrder
    <2>1. Peer(c) \in Slot
      BY Peers
    <2>2. got[c] \in Seq(Unit) /\ sent[Peer(c)] \in Seq(Unit)
      BY <1>1, <2>1, SlotTypes
    <2>3. Numbered(got[c]) /\ Numbered(sent[Peer(c)]) /\ Len(got[c]) <= Len(sent[Peer(c)])
      BY <1>1, <2>1 DEF Counted
    <2> QED
      BY <2>2, <2>3, NumberedPrefix
  <1>4. SeqAgree
    <2> SUFFICES ASSUME \A c \in Slot : conn[c].state = "established", NEW c \in Slot
                 PROVE  conn[c].remote + Len(sent[Peer(c)]) - Len(got[c]) = conn[Peer(c)].local
      BY DEF SeqAgree
    <2> DEFINE p == Peer(c)
    <2>1. p \in Slot /\ Peer(p) = c
      BY Peers
    <2>2. Talking
      BY <1>1, <1>2 DEF BothFinished
    <2>3. Known(c) = Number(p)
      BY <1>2, <2>1, <2>2 DEF Talking, Shaken
    <2>4. conn[c].remote - 1 - Len(got[c]) = conn[p].local - Len(sent[p]) - 1
      BY <1>2, <2>1, <2>3 DEF Known, Number
    <2>5. /\ conn[c].remote \in Int /\ conn[p].local \in Int
          /\ Len(got[c]) \in Nat /\ Len(sent[p]) \in Nat
      BY <1>1, <2>1, SlotTypes
    <2> DEFINE i == conn[c].remote
               j == conn[p].local
               m == Len(got[c])
               n == Len(sent[p])
    <2>6. i \in Int /\ j \in Int /\ m \in Nat /\ n \in Nat /\ i - 1 - m = j - n - 1
      BY <2>4, <2>5
    <2> HIDE DEF i, j, m, n
    <2>7. i + n - m = j
      BY <2>6
    <2> QED
      BY <2>7 DEF i, j, m, n
  <1>5. LastKeptUntilDelivered
    <2> SUFFICES ASSUME NEW c \in Slot, conn[c].state = "established", ~conn[c].timer,
                        conn[c].rtx.count < MaxRetries, Contains(sent[c], conn[c].rtx.data)
                 PROVE  Contains(got[Peer(c)], conn[c].rtx.data)
      BY DEF LastKeptUntilDelivered
    <2> DEFINE p == Peer(c)
               r == conn[c].rtx
               n == r.seq - Number(c)
    <2>1. Kept(c)
      BY <1>1, <1>2 DEF BothFinished, Talking
    <2>2. p \in Slot
      BY Peers
    <2>3. PICK i \in 1 .. Len(sent[c]) : sent[c][i] = r.data
      BY DEF Contains
    <2>4. sent[c] \in Seq(Unit) /\ Len(sent[c]) \in Nat /\ Len(got[p]) \in Nat
          /\ r.count \in Nat /\ MaxRetries \in Nat
      BY <1>1, <2>2, SlotTypes, TcpAssumption
    <2>5. r.data = <<sessions, i>>
      BY <1>1, <2>3 DEF Counted, Numbered
    <2>6. r.data \in Unit
      BY <2>3, <2>4
    <2>7. r.data # NoData /\ r.data[1] = sessions /\ r.data[2] = i
      BY <2>5, <2>6, NoUnit
    <2>8. n \in 1 .. Len(sent[c]) /\ i = n /\ (r.count >= MaxRetries \/ n <= Len(got[p]))
      BY <2>1, <2>7 DEF Kept
    <2> HIDE DEF n
    <2>9. n \in 1 .. Len(got[p])
      BY <2>4, <2>8
    <2>10. got[p][n] = <<sessions, n>>
      BY <1>1, <2>2, <2>9 DEF Counted, Numbered
    <2> QED
      BY <2>5, <2>8, <2>9, <2>10 DEF Contains
  <1>6. CloseAgreed
    <2> SUFFICES ASSUME NEW c \in Slot, conn[c].state = "closed_final"
                 PROVE  conn[Peer(c)].state \in {"fin_wait", "closing", "closed_final"}
      BY DEF CloseAgreed
    <2>1. BothFinished
      BY <1>1 DEF Talking
    <2> QED
      BY <2>1, Peers DEF BothFinished, Finished, Opened, Synced
  <1> QED
    BY <1>3, <1>4, <1>5, <1>6

\* The invariant holds of every behaviour in which a session finds nothing
\* that tcp_conn_handle_segment or tcp_conn_check_retransmit would take up
\* for its own.
THEOREM TcpInvariant ==
    ASSUME Leftovers = {}
    PROVE  Spec => []TcpInv
  <1>1. TcpInv /\ [Next]_vars => TcpInv'
    BY StepKeeps
  <1> QED
    BY <1>1, InitHolds, PTL DEF Spec

\* What tcp_conn_handle_segment delivers is what tcp_conn_send_data was given
\* at the other end, in order and once, however often it was retransmitted.
THEOREM UnitsInOrder ==
    ASSUME Leftovers = {}
    PROVE  Spec => []DeliveredInOrder
  <1> QED
    BY TcpInvariant, InvFollows, PTL

\* Two slots that are established agree on their sequence numbers, whichever
\* of them opened the connection and whatever numbers they began with.
THEOREM NumbersAgree ==
    ASSUME Leftovers = {}
    PROVE  Spec => []SeqAgree
  <1> QED
    BY TcpInvariant, InvFollows, PTL

\* While a connection stands, an acknowledgement ends the retransmission of
\* tcp_conn_check_retransmit only if the unit in the slot, the last that
\* tcp_conn_send_data got into the queue, was delivered.  Of a unit that a
\* later one has replaced there, or that was refused, nothing is said.
THEOREM LastRetransmittedUntilDelivered ==
    ASSUME Leftovers = {}
    PROVE  Spec => []LastKeptUntilDelivered
  <1> QED
    BY TcpInvariant, InvFollows, PTL

\* No slot comes to CLOSED_FINAL while its peer still takes the connection for
\* open.
THEOREM ClosesAgree ==
    ASSUME Leftovers = {}
    PROVE  Spec => []CloseAgreed
  <1> QED
    BY TcpInvariant, InvFollows, PTL
=============================================================================
