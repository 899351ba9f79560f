------------------------------- MODULE TcpLoop -------------------------------
(***************************************************************************)
(* The TCP of kernel_main.vani between its two connection slots, as the    *)
(* shell's tcpecho, tcprtx and the like use it: slot 0 opens, sends and    *)
(* closes, slot 1 listens and echoes, and every segment goes through the   *)
(* loopback queue of netif, from which task_e may take it first.           *)
(*                                                                         *)
(* A segment carries one unit of data or none.  The window advertised is   *)
(* always 65535, ports and addresses always match, checksums are right.    *)
(* Time is left out: a deadline may have passed at any moment.             *)
(***************************************************************************)
EXTENDS Integers, Sequences, SequencesExt

CONSTANTS
    QueueSlots,    \* frames in the loopback queue: 4
    MaxRetries,    \* tcp_rtx_max_retries: 3
    ServerIsn,     \* 5000
    ClientIsn(_),  \* the sequence number that a session begins with
    MaxSends,      \* units that slot 0 sends in a session, a bound
    MaxSessions,   \* a bound
    MaxFaults,     \* frames lost or not accepted, a bound
    Leftovers      \* what of an earlier session may be there when one begins:
                   \* a retransmission pending in slot 1, a SYN in the queue

ASSUME TcpAssumption ==
    /\ QueueSlots \in Nat \ {0} /\ MaxRetries \in Nat /\ ServerIsn \in Nat
    /\ \A n \in 0 .. MaxSessions : ClientIsn(n) \in Nat
    /\ MaxSends \in Nat /\ MaxSessions \in Nat /\ MaxFaults \in Nat
    /\ Leftovers \subseteq {"pending", "syn"}

VARIABLES
    conn,      \* the two slots
    queue,     \* the frames on their way
    sent, got, \* the units of this session: given to send_data, delivered
    sessions, faults

vars == <<conn, queue, sent, got, sessions, faults>>

Slot == {0, 1}
Peer(c) == 1 - c

States == {"closed", "syn_sent", "syn_rcvd", "established", "fin_wait", "closing",
           "closed_final"}

NoData == <<>>

\* rtx: what is to be retransmitted, a SYN if it holds no data; timer: a
\* deadline is set.
Fresh == [state |-> "closed", local |-> 0, remote |-> 0, timer |-> FALSE,
          rtx |-> [seq |-> 0, data |-> NoData, count |-> 0]]

Init ==
    /\ conn = [c \in Slot |-> Fresh]
    /\ queue = <<>>
    /\ sent = [c \in Slot |-> <<>>]
    /\ got = [c \in Slot |-> <<>>]
    /\ sessions = 0
    /\ faults = 0

---------------------------------------------------------------------------
Segment(c, flags, seq, ack, data) ==
    [to |-> Peer(c), flags |-> flags, seq |-> seq, ack |-> ack, data |-> data]

\* netif_send_frame of s: a full queue refuses it.
Queued(q, s) == IF Len(q) < QueueSlots THEN Append(q, s) ELSE q

Armed(seq, data) == [seq |-> seq, data |-> data, count |-> 0]

\* tcp_conn_passive_open: the timer stays as it is.
PassiveOpen(k) == [k EXCEPT !.state = "closed"]

\* tcp_conn_active_open
ActiveOpen(k, isn) ==
    [k EXCEPT !.state = "syn_sent", !.local = isn, !.remote = 0, !.timer = TRUE,
              !.rtx = Armed(isn, NoData)]

\* A command begins: slot 1 listens, slot 0 sends its SYN.
Connect ==
    LET isn == ClientIsn(sessions) IN
    /\ sessions < MaxSessions
    /\ conn[1].timer => "pending" \in Leftovers
    /\ \A n \in 1 .. Len(queue) : "syn" \in queue[n].flags => "syn" \in Leftovers
    /\ sessions' = sessions + 1
    /\ conn' = [c \in Slot |-> IF c = 0 THEN ActiveOpen(conn[0], isn) ELSE PassiveOpen(conn[1])]
    /\ sent' = [c \in Slot |-> <<>>] /\ got' = [c \in Slot |-> <<>>]
    /\ queue' = Queued(queue, Segment(0, {"syn"}, isn, 0, NoData))
    /\ UNCHANGED faults

\* Both sides open at once, as the boot-time test has it.
ConnectBoth ==
    LET isn == [c \in Slot |-> IF c = 0 THEN ClientIsn(0) ELSE ServerIsn] IN
    /\ sessions = 0 /\ sessions < MaxSessions
    /\ Len(queue) + 2 <= QueueSlots
    /\ sessions' = 1
    /\ conn' = [c \in Slot |-> ActiveOpen(conn[c], isn[c])]
    /\ queue' = queue \o <<Segment(0, {"syn"}, isn[0], 0, NoData),
                           Segment(1, {"syn"}, isn[1], 0, NoData)>>
    /\ UNCHANGED <<sent, got, faults>>

\* tcp_conn_send_data of unit d by slot c, whose record is k, into queue q.
\* The queue may be full of other frames; the sequence number then advances
\* all the same.
SendData(c, k, d, q) ==
    LET q2 == Queued(q, Segment(c, {"psh", "ack"}, k.local, k.remote, d))
        k2 == [k EXCEPT !.local = @ + 1] IN
    /\ sent' = [sent EXCEPT ![c] = Append(@, d)]
    /\ \/ /\ q2 # q
          /\ queue' = q2
          /\ conn' = [conn EXCEPT ![c] = [k2 EXCEPT !.timer = TRUE, !.rtx = Armed(k.local, d)]]
          /\ UNCHANGED faults
       \/ /\ q2 = q \/ faults < MaxFaults
          /\ queue' = q
          /\ conn' = [conn EXCEPT ![c] = k2]
          /\ faults' = IF q2 = q THEN faults ELSE faults + 1

\* A command sends, once both sides are established.
Send ==
    /\ \A c \in Slot : conn[c].state = "established"
    /\ Len(sent[0]) < MaxSends
    /\ SendData(0, conn[0], <<sessions, Len(sent[0]) + 1>>, queue)
    /\ UNCHANGED <<got, sessions>>

\* tcp_conn_close
Close(c) ==
    LET k == conn[c] IN
    /\ k.state = "established"
    /\ conn' = [conn EXCEPT ![c].state = "fin_wait", ![c].local = @ + 1]
    /\ queue' = Queued(queue, Segment(c, {"fin", "ack"}, k.local, k.remote, NoData))
    /\ UNCHANGED <<sent, got, sessions, faults>>

\* It has been retransmitted often enough.
GivenUp(r) == r.count >= MaxRetries

\* tcp_conn_check_retransmit, once the deadline has passed: the state of the
\* connection does not matter.
Retransmit(c) ==
    LET k == conn[c]
        r == k.rtx IN
    /\ k.timer
    /\ IF GivenUp(r)
       THEN /\ conn' = [conn EXCEPT ![c].timer = FALSE,
                                    ![c].state = IF @ = "syn_sent" THEN "closed" ELSE @]
            /\ UNCHANGED queue
       ELSE /\ conn' = [conn EXCEPT ![c].rtx.count = @ + 1]
            /\ queue' = Queued(queue, IF r.data = NoData
                                      THEN Segment(c, {"syn"}, r.seq, 0, NoData)
                                      ELSE Segment(c, {"psh", "ack"}, r.seq, k.remote, r.data))
    /\ UNCHANGED <<sent, got, sessions, faults>>

---------------------------------------------------------------------------
(* tcp_conn_poll takes the first frame: tcp_conn_handle_segment, by branch. *)

\* The frame s goes to slot c in one of the states.
Taken(c, s, states) ==
    queue # <<>> /\ s = Head(queue) /\ s.to = c /\ conn[c].state \in states

Has(s, flag) == flag \in s.flags

\* The branch only changes slot c, to k, and replies, or not.
Answers(c, k, s) ==
    /\ conn' = [conn EXCEPT ![c] = k]
    /\ queue' = Queued(Tail(queue), s)
    /\ UNCHANGED <<sent, got, sessions, faults>>

Silent(c, k) ==
    /\ conn' = [conn EXCEPT ![c] = k]
    /\ queue' = Tail(queue)
    /\ UNCHANGED <<sent, got, sessions, faults>>

\* The first SYN, in CLOSED.
PassiveSyn(c, s) ==
    LET k == [conn[c] EXCEPT !.remote = s.seq + 1, !.local = ServerIsn, !.state = "syn_rcvd"] IN
    /\ Taken(c, s, {"closed"}) /\ Has(s, "syn")
    /\ Answers(c, k, Segment(c, {"syn", "ack"}, k.local, k.remote, NoData))

\* Mutant of SynCounted: it takes none.
SynNotCounted(k) == k.local

\* One's own SYN takes a sequence number, once it is acknowledged.
SynCounted(k) == k.local + 1

SynAcked(c, s) ==
    LET k == [conn[c] EXCEPT !.timer = FALSE, !.remote = s.seq + 1, !.local = SynCounted(conn[c]),
                             !.state = "established"] IN
    /\ Taken(c, s, {"syn_sent"}) /\ {"syn", "ack"} \subseteq s.flags
    /\ s.ack = conn[c].local + 1
    /\ Answers(c, k, Segment(c, {"ack"}, k.local, k.remote, NoData))

SimultaneousSyn(c, s) ==
    LET k == [conn[c] EXCEPT !.timer = FALSE, !.remote = s.seq + 1, !.state = "syn_rcvd"] IN
    /\ Taken(c, s, {"syn_sent"}) /\ Has(s, "syn") /\ ~Has(s, "ack")
    /\ Answers(c, k, Segment(c, {"syn", "ack"}, k.local, k.remote, NoData))

\* Any segment that acknowledges the SYN: what else it carries is dropped.
HandshakeDone(c, s) ==
    /\ Taken(c, s, {"syn_rcvd"}) /\ Has(s, "ack")
    /\ s.ack = conn[c].local + 1
    /\ Silent(c, [conn[c] EXCEPT !.local = SynCounted(conn[c]), !.state = "established"])

\* Mutant of InOrder: whatever comes is taken.
AnyOrder(k, s) == TRUE

\* The unit is the one expected next.
InOrder(k, s) == s.seq = k.remote

\* A unit is delivered and acknowledged, and echoed if the slot is the
\* server's: two frames, one after the other.
Data(c, s) ==
    LET k == [conn[c] EXCEPT !.remote = s.seq + 1]
        ack == Segment(c, {"ack"}, k.local, k.remote, NoData) IN
    /\ Taken(c, s, {"established"}) /\ Has(s, "psh") /\ InOrder(conn[c], s)
    /\ got' = [got EXCEPT ![c] = Append(@, s.data)]
    /\ IF c = 1
       THEN SendData(c, k, s.data, Queued(Tail(queue), ack))
       ELSE /\ conn' = [conn EXCEPT ![c] = k]
            /\ queue' = Queued(Tail(queue), ack)
            /\ UNCHANGED <<sent, faults>>
    /\ UNCHANGED sessions

\* Mutant of Covers: any acknowledgement.
CoversAny(s, r) == TRUE

\* The acknowledgement covers what is to be retransmitted.
Covers(s, r) == s.ack >= r.seq + (IF r.data = NoData THEN 0 ELSE 1)

Acked(c, s) ==
    LET k == conn[c] IN
    /\ Taken(c, s, {"established"}) /\ s.flags = {"ack"}
    /\ Silent(c, [k EXCEPT !.timer = @ /\ ~Covers(s, k.rtx)])

\* The peer's FIN, whatever its sequence number, is answered by one's own.
Fin(c, s) ==
    LET k == [conn[c] EXCEPT !.remote = s.seq + 1, !.state = "fin_wait"] IN
    /\ Taken(c, s, {"established"}) /\ Has(s, "fin")
    /\ Answers(c, [k EXCEPT !.local = @ + 1],
               Segment(c, {"ack", "fin"}, k.local, k.remote, NoData))

\* Mutant of FinAcked: any acknowledgement will do.
FinAckedAny(k, s) == TRUE

\* One's own FIN is acknowledged.
FinAcked(k, s) == s.ack = k.local

FinWait(c, s) ==
    LET k == conn[c]
        acked == FinAcked(k, s)
        k2 == [k EXCEPT !.remote = s.seq + 1,
                        !.state = IF acked THEN "closed_final" ELSE "closing"] IN
    /\ Taken(c, s, {"fin_wait"}) /\ Has(s, "ack")
    /\ \/ /\ Has(s, "fin")
          /\ Answers(c, k2, Segment(c, {"ack"}, k2.local, k2.remote, NoData))
       \/ /\ ~Has(s, "fin")
          /\ Silent(c, IF acked THEN [k EXCEPT !.state = "closed_final"] ELSE k)

Closing(c, s) ==
    /\ Taken(c, s, {"closing"}) /\ Has(s, "ack") /\ FinAcked(conn[c], s)
    /\ Silent(c, [conn[c] EXCEPT !.state = "closed_final"])

Handled(c, s) ==
    \/ PassiveSyn(c, s) \/ SynAcked(c, s) \/ SimultaneousSyn(c, s) \/ HandshakeDone(c, s)
    \/ Data(c, s) \/ Acked(c, s) \/ Fin(c, s) \/ FinWait(c, s) \/ Closing(c, s)

\* What no branch expects is dropped.
Ignored(c, s) == Taken(c, s, States) /\ ~ENABLED Handled(c, s) /\ Silent(c, conn[c])

\* task_e took the frame, or the firewall or a fault injected dropped it.
Lose ==
    /\ queue # <<>> /\ faults < MaxFaults
    /\ queue' = Tail(queue)
    /\ faults' = faults + 1
    /\ UNCHANGED <<conn, sent, got, sessions>>

Poll(c) == \E s \in {queue[n] : n \in 1 .. Len(queue)} : Handled(c, s) \/ Ignored(c, s)

Next ==
    \/ Connect \/ ConnectBoth \/ Send \/ Lose
    \/ \E c \in Slot : Close(c) \/ Retransmit(c) \/ Poll(c)

Spec == Init /\ [][Next]_vars

---------------------------------------------------------------------------
\* What a slot delivers is what the other one sent in this session, in order,
\* none of it twice: whatever was lost, retransmitted too early, left in the
\* queue by an earlier session, or ended by a FIN that overtook it.
DeliveredInOrder ==
    \A c \in Slot : IsPrefix(got[c], sent[Peer(c)])

\* Two slots that are both established agree on where they are: what one
\* expects and what it has not been sent yet add up to what the other is at.
SeqAgree ==
    (\A c \in Slot : conn[c].state = "established") =>
        \A c \in Slot :
            conn[c].remote + Len(sent[Peer(c)]) - Len(got[c]) = conn[Peer(c)].local

\* The unit that a slot keeps for retransmission is the last one that its
\* queue accepted: a later send takes the place of an earlier unit, delivered
\* or not, and one that was refused is never kept.  While its connection
\* stands, the retransmission of the unit kept ends with its delivery or after
\* MaxRetries: a late acknowledgement of something else does not end it.
LastKeptUntilDelivered ==
    \A c \in Slot :
        LET k == conn[c] IN
        k.state = "established" /\ ~k.timer /\ k.rtx.count < MaxRetries
            /\ Contains(sent[c], k.rtx.data)
            => Contains(got[Peer(c)], k.rtx.data)

\* No connection is closed at one side only: whoever has seen the end of it
\* has a peer that is closing it too.
CloseAgreed ==
    \A c \in Slot :
        conn[c].state = "closed_final" =>
            conn[Peer(c)].state \in {"fin_wait", "closing", "closed_final"}
=============================================================================
