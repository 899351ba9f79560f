------------------------------ MODULE DharaLog ------------------------------
(***************************************************************************)
(* DharaFS, the log-structured file system of kernel_main.vani: appending  *)
(* a record of one or several blocks, deleting with a tombstone, renaming  *)
(* under a TX_BEGIN marker, the incremental compaction and the recovery    *)
(* scan of dharafs_init, over a block device that can refuse a write, tear *)
(* one in a reset, or fail to read a block.                                *)
(*                                                                         *)
(* The only atomic thing is one block write.  An operation is a sequence   *)
(* of stages (a TX_BEGIN, a record, a tombstone), each written block by    *)
(* block, the state in RAM changing when a stage is complete; a reset or a *)
(* refused write can come before each block.  No two operations overlap:   *)
(* the callers hold the file system's ceiling (module SchedTasks says when *)
(* that is enough).  A block is a record with a valid checksum and a       *)
(* sequence number above 0, or NoRecord, which stands for blank, torn and  *)
(* unreadable blocks alike.  Encryption at rest is off, its default.       *)
(***************************************************************************)
EXTENDS Integers, Sequences, FiniteSets

CONSTANTS
    Path,        \* file names
    Value,       \* file contents
    Blocks,      \* how many blocks each value takes
    Absent,      \* reading a path that holds no file
    NoPath,      \* path_len 0: a continuation block
    MaxBlk,      \* dharafs_init scans the blocks below max_blk
    DiskEnd,     \* the last block of the device that may be written
    BadLimit,    \* DHARAFS_RECOVERY_MAX_CONSECUTIVE_BAD_BLOCKS
    MinPass,     \* the shortest log a compaction pass starts on
    IndexSlots,  \* dirindex_max_slots
    Renames,     \* the pairs <<old, new>> dharafs_rename is called with
    Faults       \* a subset of {"reset", "write_error", "read_error"}

ASSUME LogAssumption ==
    /\ Blocks \in [Value -> Nat \ {0}]
    /\ Absent \notin Value
    /\ NoPath \notin Path
    /\ MaxBlk \in Nat \ {0}
    /\ DiskEnd \in Nat
    /\ BadLimit \in Nat \ {0}
    /\ MinPass \in Nat \ {0}
    /\ IndexSlots \in Nat
    /\ Renames \subseteq Path \X Path
    /\ Faults \subseteq {"reset", "write_error", "read_error"}

VARIABLES
    disk,        \* the blocks of the log
    next_block,
    next_seq,
    log_start,
    dirindex,    \* the block each path is indexed at, 0 for none
    compact,     \* compact_resume_block, _pass_target and _failed
    job,         \* the operation in progress: its stages still to write and
                 \* how many blocks of the first one are left
    answer       \* what the last call returned

ramVars == <<next_block, next_seq, log_start, dirindex>>
vars == <<disk, ramVars, compact, job, answer>>

Block == 1 .. DiskEnd
Names == Path \cup {NoPath}

NoRecord == [kind |-> "none", seq |-> 0, path |-> NoPath, value |-> Absent,
             part |-> 0]

\* path is NoPath in a continuation and in a TX_BEGIN; part is the chunk's
\* place in its record, or block_count in a TX_BEGIN.
Record == [kind  : {"none", "data", "more", "tombstone", "tx_begin"},
           seq   : Nat,
           path  : Names,
           value : Value \cup {Absent},
           part  : Nat]

---------------------------------------------------------------------------
(* Looking things up.  m is the state in RAM: next_block, next_seq,        *)
(* log_start and dirindex.                                                 *)

\* A path that is not indexed takes a free slot; with none left it stays out.
Upsert(index, p, b) ==
    IF index[p] # 0 \/ Cardinality({q \in Names : index[q] # 0}) < IndexSlots
    THEN [index EXCEPT ![p] = b]
    ELSE index

\* dharafs_find_latest_block_raw: the index, or else the record with the
\* highest sequence number in the log, the last of equals.
RecordsOf(d, m, p) ==
    {b \in m.log_start .. m.next_block - 1 :
        b \in Block /\ d[b].kind \in {"data", "tombstone"} /\ d[b].path = p}

Latest(d, m, p) ==
    IF m.dirindex[p] # 0 THEN m.dirindex[p]
    ELSE IF RecordsOf(d, m, p) = {} THEN 0
    ELSE CHOOSE b \in RecordsOf(d, m, p) :
            \A c \in RecordsOf(d, m, p) :
                d[c].seq < d[b].seq \/ (d[c].seq = d[b].seq /\ c <= b)

Garbled == "garbled"   \* a read that returns other bytes than were written
Broken  == "broken"    \* a read that fails although the record is there

\* dharafs_read_from_block_raw follows the chain and rejects one that has a
\* hole; it has no way to tell whose continuation it follows.
ReadBlock(d, b) ==
    LET rest == 1 .. Blocks[d[b].value] - 1 IN
    IF d[b].kind = "tombstone" THEN Absent
    ELSE IF d[b].kind # "data" THEN Garbled
    ELSE IF \E i \in rest : b + i \notin Block \/ d[b + i].kind # "more"
    THEN Broken
    ELSE IF \E i \in rest : d[b + i].value # d[b].value \/ d[b + i].part # i
    THEN Garbled
    ELSE d[b].value

ReadFile(d, m, p) ==
    IF Latest(d, m, p) = 0 THEN Absent ELSE ReadBlock(d, Latest(d, m, p))

---------------------------------------------------------------------------
(* Recovery: dharafs_init                                                  *)

\* The blocks a TX_BEGIN at b covers are all there.
TxComplete(d, b) ==
    \A j \in 1 .. d[b].part :
        /\ b + j < MaxBlk
        /\ b + j \in Block
        /\ d[b + j].kind # "none"

\* Mutant of IndexTx: what a transaction covers is not indexed.
IndexTxSkipped(d, b, index) == index

\* Indexing every block of a complete transaction, in order.
IndexTx(d, b, index) ==
    LET after[j \in 0 .. d[b].part] ==
            IF j = 0 THEN index
            ELSE Upsert(after[j - 1], d[b + j].path, b + j)
    IN after[d[b].part]

ScanStart == [blk |-> 1, bad |-> 0, seq |-> 0, stopped |-> FALSE,
              dirindex |-> [p \in Names |-> 0]]

BadBlock(c) ==
    IF c.bad + 1 >= BadLimit
    THEN [c EXCEPT !.bad = @ + 1, !.stopped = TRUE]
    ELSE [c EXCEPT !.bad = @ + 1, !.blk = @ + 1]

TxBegin(d, c) ==
    IF TxComplete(d, c.blk)
    THEN [c EXCEPT !.bad = 0,
                   !.seq = d[c.blk].seq + d[c.blk].part,
                   !.dirindex = IndexTx(d, c.blk, @),
                   !.blk = @ + 1 + d[c.blk].part]
    ELSE [c EXCEPT !.bad = 0, !.stopped = TRUE]

GoodBlock(d, c) ==
    [c EXCEPT !.bad = 0,
              !.seq = IF d[c.blk].seq > @ THEN d[c.blk].seq ELSE @,
              !.dirindex = Upsert(@, d[c.blk].path, c.blk),
              !.blk = @ + 1]

\* One turn of the scan loop, if the cursor is still at block b.
ScanBlock(d, c, b) ==
    IF c.stopped \/ c.blk # b THEN c
    ELSE IF b \notin Block \/ d[b].kind = "none" THEN BadBlock(c)
    ELSE IF d[b].kind = "tx_begin" THEN TxBegin(d, c)
    ELSE GoodBlock(d, c)

\* The singleton sets bind a value, so that TLC computes it only once.
Scan(d) ==
    LET cursor[b \in 0 .. MaxBlk - 1] ==
            IF b = 0 THEN {ScanStart} ELSE {ScanBlock(d, c, b) : c \in cursor[b - 1]}
    IN cursor[MaxBlk - 1]

\* Mutant of Recovered: the last sequence number is given out again.
RecoveredSameSeq(d) ==
    CHOOSE m \in {[next_block |-> c.blk, next_seq |-> c.seq, log_start |-> 1,
                   dirindex |-> c.dirindex] : c \in Scan(d)} : TRUE

\* The state in RAM after dharafs_init.
Recovered(d) ==
    CHOOSE m \in {[next_block |-> c.blk, next_seq |-> c.seq + 1,
                   log_start |-> 1, dirindex |-> c.dirindex] : c \in Scan(d)} : TRUE

\* What the paths hold for a system that has just restarted on d.
AfterRestart(d) ==
    CHOOSE f \in {[p \in Path |-> ReadFile(d, m, p)] : m \in {Recovered(d)}} : TRUE

Ram == [next_block |-> next_block, next_seq |-> next_seq,
        log_start |-> log_start, dirindex |-> dirindex]

SetRam(m) ==
    /\ next_block' = m.next_block
    /\ next_seq' = m.next_seq
    /\ log_start' = m.log_start
    /\ dirindex' = m.dirindex

---------------------------------------------------------------------------
(* Operations.  A stage is [kind, path, value]; a TX_BEGIN's value is that *)
(* of the record it precedes.                                              *)

Stage(k, p, v) == [kind |-> k, path |-> p, value |-> v]

Length(s) == IF s.kind = "data" THEN Blocks[s.value] ELSE 1

NoRequest == [op |-> "none", path |-> NoPath, to |-> NoPath, value |-> Absent]
Carry     == [op |-> "carry", path |-> NoPath, to |-> NoPath, value |-> Absent]

Idle == [request |-> NoRequest, stages |-> <<>>, left |-> 0]

Busy(r, stages) ==
    [request |-> r, stages |-> stages, left |-> Length(Head(stages))]

NoPass == [resume |-> 0, target |-> 0, failed |-> FALSE]

\* Bound: an operation is only called while the device has room for it.
HasRoom(stages) ==
    LET need[i \in 0 .. Len(stages)] ==
            IF i = 0 THEN 0 ELSE need[i - 1] + Length(stages[i])
    IN next_block + need[Len(stages)] - 1 <= DiskEnd

Call(r, stages) ==
    /\ job = Idle
    /\ HasRoom(stages)
    /\ job' = Busy(r, stages)
    /\ UNCHANGED <<disk, ramVars, compact, answer>>

AppendFile(p, v) ==
    Call([op |-> "write", path |-> p, to |-> p, value |-> v],
         <<Stage("data", p, v)>>)

DeleteFile(p) ==
    Call([op |-> "delete", path |-> p, to |-> p, value |-> Absent],
         <<Stage("tombstone", p, Absent)>>)

\* dharafs_rename_raw; a path that cannot be read is refused before anything
\* is written.
RenameFile(p, q) ==
    LET v == ReadFile(disk, Ram, p) IN
    /\ p # q
    /\ v \in Value
    /\ Call([op |-> "rename", path |-> p, to |-> q, value |-> v],
            <<Stage("tx_begin", NoPath, v), Stage("data", q, v),
              Stage("tombstone", p, Absent)>>)

---------------------------------------------------------------------------
(* Compaction: one block of the pass per call.                             *)

PassBlock == IF compact.resume = 0 THEN log_start ELSE compact.resume

PassTarget == IF compact.resume = 0 THEN next_block ELSE compact.target

PassFailed == compact.resume # 0 /\ compact.failed

\* Mutant of CompactReturn: a failure is forgotten by the next call.
CompactReturnForgets(start, p, ok) ==
    LET ended == p.resume + 1 >= p.target IN
    /\ compact' = IF ended THEN NoPass
                  ELSE [p EXCEPT !.resume = @ + 1, !.failed = ~ok]
    /\ log_start' = IF ended /\ ok THEN p.target ELSE start

\* The pass goes on at the next block, or ends: the log starts at its target
\* if nothing in the pass failed.
CompactReturn(start, p, ok) ==
    LET failed == p.failed \/ ~ok
        ended  == p.resume + 1 >= p.target IN
    /\ compact' = IF ended THEN NoPass
                  ELSE [p EXCEPT !.resume = @ + 1, !.failed = failed]
    /\ log_start' = IF ended /\ ~failed THEN p.target ELSE start

ThisPass == [resume |-> PassBlock, target |-> PassTarget, failed |-> PassFailed]

CompactCalled ==
    /\ job = Idle
    /\ compact.resume = 0 => next_block - log_start >= MinPass

\* The record at b is the one its path is read from.
IsLatest(b) ==
    /\ b \in Block
    /\ disk[b].kind \in {"data", "tombstone"}
    /\ Latest(disk, Ram, disk[b].path) = b

\* Nothing to carry forward, or a record that can no longer be read.
CompactSkip ==
    /\ CompactCalled
    /\ IsLatest(PassBlock)
        => ReadFile(disk, Ram, disk[PassBlock].path) \in {Broken, Garbled}
    /\ CompactReturn(log_start, ThisPass, ~IsLatest(PassBlock))
    /\ UNCHANGED <<disk, next_block, next_seq, dirindex, job, answer>>

\* A block that cannot be read this time is passed over.
CompactUnreadable ==
    /\ "read_error" \in Faults
    /\ CompactCalled
    /\ CompactReturn(log_start, ThisPass, TRUE)
    /\ UNCHANGED <<disk, next_block, next_seq, dirindex, job, answer>>

CompactCarry ==
    LET r == disk[PassBlock]
        s == Stage(r.kind, r.path, ReadFile(disk, Ram, r.path)) IN
    /\ CompactCalled
    /\ IsLatest(PassBlock)
    /\ s.value \in Value \cup {Absent}
    /\ HasRoom(<<s>>)
    /\ job' = Busy(Carry, <<s>>)
    /\ compact' = ThisPass
    /\ UNCHANGED <<disk, ramVars, answer>>

---------------------------------------------------------------------------
(* Block by block                                                          *)

Now == Head(job.stages)

\* The chunks of a record are written last to first, its head at the end.
WriteAt == job.left - 1

\* Mutants of BlockOf: continuations look like records; block_count leaves
\* the tombstone out.
BlockOfUnmarked(s, i) ==
    [kind  |-> s.kind,
     seq   |-> next_seq + i,
     path  |-> s.path,
     value |-> IF s.kind = "data" THEN s.value ELSE Absent,
     part  |-> IF s.kind = "tx_begin" THEN Blocks[s.value] + 1 ELSE i]

BlockOfShortTx(s, i) ==
    [kind  |-> IF s.kind = "data" /\ i > 0 THEN "more" ELSE s.kind,
     seq   |-> next_seq + i,
     path  |-> IF i > 0 THEN NoPath ELSE s.path,
     value |-> IF s.kind = "data" THEN s.value ELSE Absent,
     part  |-> IF s.kind = "tx_begin" THEN Blocks[s.value] ELSE i]

BlockOf(s, i) ==
    [kind  |-> IF s.kind = "data" /\ i > 0 THEN "more" ELSE s.kind,
     seq   |-> next_seq + i,
     path  |-> IF i > 0 THEN NoPath ELSE s.path,
     value |-> IF s.kind = "data" THEN s.value ELSE Absent,
     part  |-> IF s.kind = "tx_begin" THEN Blocks[s.value] + 1 ELSE i]

\* Mutant of Indexed: a tombstone is not indexed.
IndexedDataOnly(s) ==
    IF s.kind # "data" THEN dirindex ELSE Upsert(dirindex, s.path, next_block)

\* dharafs_state_set and dirindex_upsert, once a stage is complete.
Indexed(s) ==
    IF s.kind = "tx_begin" THEN dirindex ELSE Upsert(dirindex, s.path, next_block)

WriteChunk ==
    /\ job # Idle
    /\ WriteAt > 0
    /\ disk' = [disk EXCEPT ![next_block + WriteAt] = BlockOf(Now, WriteAt)]
    /\ job' = [job EXCEPT !.left = @ - 1]
    /\ UNCHANGED <<ramVars, compact, answer>>

\* The stage's last write, then the next stage or the return.
WriteHead ==
    /\ job # Idle
    /\ WriteAt = 0
    /\ disk' = [disk EXCEPT ![next_block] = BlockOf(Now, 0)]
    /\ next_block' = next_block + Length(Now)
    /\ next_seq' = next_seq + Length(Now)
    /\ dirindex' = Indexed(Now)
    /\ IF Len(job.stages) > 1
       THEN /\ job' = Busy(job.request, Tail(job.stages))
            /\ UNCHANGED <<log_start, compact, answer>>
       ELSE /\ job' = Idle
            /\ IF job.request = Carry
               THEN CompactReturn(log_start, compact, TRUE) /\ UNCHANGED answer
               ELSE answer' = "ok" /\ UNCHANGED <<log_start, compact>>

\* What a write that did not succeed may leave of its block.
Unwritten(b) == {disk, [disk EXCEPT ![b] = NoRecord]}

WriteError ==
    /\ "write_error" \in Faults
    /\ job # Idle
    /\ disk' \in Unwritten(next_block + WriteAt)
    /\ job' = Idle
    /\ IF job.request = Carry
       THEN CompactReturn(log_start, compact, FALSE) /\ UNCHANGED answer
       ELSE answer' = "error" /\ UNCHANGED <<log_start, compact>>
    /\ UNCHANGED <<next_block, next_seq, dirindex>>

\* A restart between calls, or a reset in the middle of one.
Restart ==
    /\ job # Idle => "reset" \in Faults
    /\ disk' \in IF job = Idle THEN {disk} ELSE Unwritten(next_block + WriteAt)
    /\ \E m \in {Recovered(disk')} : SetRam(m)
    /\ compact' = NoPass
    /\ job' = Idle
    /\ answer' = IF job.request \in {NoRequest, Carry} THEN answer ELSE "lost"

---------------------------------------------------------------------------
Init ==
    /\ disk = [b \in Block |-> NoRecord]
    /\ next_block = Recovered(disk).next_block
    /\ next_seq = Recovered(disk).next_seq
    /\ log_start = Recovered(disk).log_start
    /\ dirindex = Recovered(disk).dirindex
    /\ compact = NoPass
    /\ job = Idle
    /\ answer = "ok"

Request ==
    \/ \E p \in Path : DeleteFile(p) \/ \E v \in Value : AppendFile(p, v)
    \/ \E pq \in Renames : RenameFile(pq[1], pq[2])

Compact == CompactSkip \/ CompactUnreadable \/ CompactCarry

Next == Request \/ Compact \/ WriteChunk \/ WriteHead \/ WriteError \/ Restart

Spec == Init /\ [][Next]_vars

---------------------------------------------------------------------------
TypeOK ==
    /\ disk \in [Block -> Record]
    /\ next_block \in Nat \ {0}
    /\ next_seq \in Nat \ {0}
    /\ log_start \in Nat \ {0}
    /\ dirindex \in [Names -> Nat]
    /\ compact \in [resume : Nat, target : Nat, failed : BOOLEAN]
    /\ job.left \in Nat
    /\ answer \in {"ok", "error", "lost"}

\* What each path would hold if the machine were reset now.
Durable == AfterRestart(disk)

\* DharaFS is a DharaStore: the map is what a reset would leave, so every
\* operation commits with one block write and no other step, a restart and
\* a compaction among them, changes what is stored.
Store == INSTANCE DharaStore
    WITH store   <- Durable,
         request <- IF job.request = Carry THEN NoRequest ELSE job.request,
         answer  <- answer

StoreSpec == Store!Spec

\* A read between two calls returns what is durable: the index and the log
\* bounds in RAM agree with what a restart would rebuild from the blocks.
ReadsDurable ==
    job = Idle => [p \in Path |-> ReadFile(disk, Ram, p)] = Durable

\* A compaction pass proves what it drops: every path's current record lies
\* at or after log_start.
LiveAfterLogStart ==
    \A p \in Path : Latest(disk, Ram, p) # 0 => Latest(disk, Ram, p) >= log_start

\* Sequence numbers follow block numbers, so "the later block" (recovery) and
\* "the higher number" (the search without the index) name the same record,
\* and none is given out again after a restart.  Only continuations that an
\* interrupted write left behind may repeat one: nothing compares those.
LogOrdered ==
    \A b, c \in Block :
        b < c /\ c < next_block /\ disk[b].kind # "none" /\ disk[c].kind # "none"
            => /\ disk[b].seq < next_seq
               /\ disk[c].seq < next_seq
               /\ disk[c].kind # "more" => disk[b].seq < disk[c].seq
============================================================================
