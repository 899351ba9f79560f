--------------------------- MODULE DharaLogProofs ---------------------------
(***************************************************************************)
(* Theorems about the log of DharaFS, for every set of paths and values,   *)
(* every length of a value, size of the index and limit on bad blocks: a   *)
(* restart rebuilds from the blocks what RAM says, compaction drops no     *)
(* record that is read, and the log implements a map that each call        *)
(* changes at one instant or not at all.                                   *)
(***************************************************************************)
EXTENDS DharaLog, FiniteSetTheorems, WellFoundedInduction, TLAPS

\* What the theorems assume.  A reset or a refused write in the middle of a
\* rename leaves blocks behind that can come alive.
RenamesUndisturbed ==
    Renames = {} \/ ("reset" \notin Faults /\ "write_error" \notin Faults)

\* A block that cannot be read for once makes compaction drop a live record
\* from the log; it is still read where the index has room for every name.
ReadsNeverFail == "read_error" \notin Faults

RoomForNames == IsFiniteSet(Names) /\ Cardinality(Names) <= IndexSlots

NothingMissed == ReadsNeverFail \/ RoomForNames

\* The device is not longer than the scan of dharafs_init.
ScanCoversLog == DiskEnd < MaxBlk

\* The blocks of d a path can be read from, the marks of renames, and the last
\* record of path p.
Heads(d) == {b \in Block : d[b].kind \in {"data", "tombstone"}}

Marks(d) == {b \in Block : d[b].kind = "tx_begin"}

IsLast(d, p, b) ==
    /\ b \in Heads(d)
    /\ d[b].path = p
    /\ \A c \in Heads(d) : d[c].path = p => c <= b

\* Every record is whole and lies below block n.
Whole(d, b, n) ==
    /\ b < n
    /\ d[b].path \in Path
    /\ d[b].kind = "tombstone" => d[b].value = Absent
    /\ d[b].kind = "data" =>
          /\ d[b].value \in Value
          /\ b + Blocks[d[b].value] <= n
          /\ \A i \in 1 .. Blocks[d[b].value] - 1 :
                b + i \in Block /\ d[b + i].kind = "more"
                /\ d[b + i].value = d[b].value /\ d[b + i].part = i

\* The scan passes over every run of blocks below n that hold nothing.
Dense(d, n) ==
    \A s \in Nat \ {0} :
        s + BadLimit <= n =>
            \E k \in s .. s + BadLimit - 1 : k \in Block /\ d[k].kind # "none"

\* A record or a mark has a higher number than every block below it.
Ordered(d) ==
    \A b \in Block, c \in Heads(d) \cup Marks(d) :
        b < c /\ d[b].kind # "none" => d[b].seq < d[c].seq

DiskOK(d, n) ==
    /\ d \in [Block -> Record]
    /\ n \in Nat \ {0}
    /\ \A b \in Marks(d) : b < n
    /\ \A b \in Block : d[b].kind \in {"more", "tx_begin"} => d[b].path = NoPath
    /\ \A b \in Heads(d) : Whole(d, b, n)
    /\ Dense(d, n)
    /\ Ordered(d)

\* The numbers from s on are not in use below block n.
Unused(d, n, s) ==
    \A b \in Block : b < n /\ d[b].kind # "none" => d[b].seq < s

\* The index names the last record of a path, or none.
IndexRight(d, index) ==
    \A p \in Path : index[p] = 0 \/ IsLast(d, p, index[p])

\* With room for all names it names the last record of every path that has one.
IndexFull(d, index) ==
    RoomForNames => \A p \in Path, b \in Block : IsLast(d, p, b) => index[p] = b

\* The log begins at or before the last record of every path, but for one that
\* a block that could not be read has made compaction pass over: the index
\* still names it.
Live(d, start, index) ==
    \A p \in Path, b \in Block :
        IsLast(d, p, b) => start <= b \/ (~ReadsNeverFail /\ index[p] = b)

\* What the mark of a rename at b covers is there, below block n, and numbered
\* as dharafs_init takes it to be.
Covered(d, b, n) ==
    /\ b + d[b].part < n
    /\ \A j \in 1 .. d[b].part :
          /\ b + j \in Block
          /\ d[b + j].kind \notin {"none", "tx_begin"}
          /\ d[b + j].seq <= d[b].seq + d[b].part

\* Every rename on d is complete.
Settled(d, n) == \A b \in Marks(d) : Covered(d, b, n)

RamOK(d, m) ==
    /\ DiskOK(d, m.next_block)
    /\ m.next_seq \in Nat \ {0}
    /\ m.log_start \in Nat \ {0}
    /\ m.log_start <= m.next_block
    /\ m.dirindex \in [Names -> Nat]
    /\ Unused(d, m.next_block, m.next_seq)
    /\ IndexRight(d, m.dirindex)
    /\ IndexFull(d, m.dirindex)
    /\ Live(d, m.log_start, m.dirindex)

---------------------------------------------------------------------------
(* Numbers                                                                 *)

\* A nonempty set of natural numbers has a least element.
LEMMA Least ==
    ASSUME NEW S \in SUBSET Nat, S # {}
    PROVE  \E x \in S : \A y \in S : x <= y
<1> DEFINE R == {ss \in Nat \X Nat : ss[1] < ss[2]}
<1>1. IsWellFoundedOn(R, Nat)
  BY NatLessThanWellFounded, Zenon DEF OpToRel
<1> HIDE DEF R
<1>2. PICK x \in S : \A y \in S : ~(<<y, x>> \in R)
  BY <1>1, WFMin, Zenon
<1>3. \A y \in S : ~(y < x)
  <2> SUFFICES ASSUME NEW y \in S, y < x PROVE FALSE
    OBVIOUS
  <2>1. y \in Nat /\ x \in Nat
    OBVIOUS
  <2>2. <<y, x>> \in R
    BY <2>1 DEF R
  <2> QED BY <1>2, <2>2
<1>4. \A y \in S : x <= y
  BY <1>3
<1> QED BY <1>4

\* A nonempty set of natural numbers below n has a greatest element.
LEMMA Greatest ==
    ASSUME NEW n \in Nat, NEW S \in SUBSET (0 .. n), S # {}
    PROVE  \E x \in S : \A y \in S : y <= x
<1> DEFINE T == {n - y : y \in S}
<1>1. T \in SUBSET Nat /\ T # {}
  <2>1. \A y \in S : n - y \in Nat
    OBVIOUS
  <2>2. T \in SUBSET Nat
    BY <2>1
  <2>3. PICK y \in S : TRUE
    OBVIOUS
  <2>4. n - y \in T
    OBVIOUS
  <2> QED BY <2>2, <2>4
<1>2. PICK z \in T : \A y \in T : z <= y
  <2> HIDE DEF T
  <2> QED BY <1>1, Least
<1>3. PICK x \in S : z = n - x
  BY <1>2
<1>4. ASSUME NEW y \in S PROVE y <= x
  <2>1. n - y \in T
    OBVIOUS
  <2>2. n - x <= n - y
    BY <1>2, <1>3, <2>1
  <2>3. x \in 0 .. n /\ y \in 0 .. n
    BY <1>3
  <2> QED BY <2>2, <2>3
<1> QED BY <1>4

LEMMA ConstantFacts ==
    /\ DiskEnd \in Nat /\ MaxBlk \in Nat /\ MaxBlk > 0
    /\ BadLimit \in Nat /\ BadLimit > 0
    /\ Block \subseteq Nat
    /\ \A b \in Block : b >= 1 /\ b <= DiskEnd
    /\ Path \subseteq Names /\ NoPath \in Names /\ NoPath \notin Path
BY LogAssumption DEF Block, Names

---------------------------------------------------------------------------
(* The recovery scan                                                       *)

\* The turns of the scan, block by block.
Turns(d, f) ==
    f = [b \in 0 .. MaxBlk - 1 |->
            IF b = 0 THEN {ScanStart} ELSE {ScanBlock(d, c, b) : c \in f[b - 1]}]

\* The first n turns of the scan.
FirstTurns(d, n, f) ==
    f = [b \in 0 .. n |->
            IF b = 0 THEN {ScanStart} ELSE {ScanBlock(d, c, b) : c \in f[b - 1]}]

\* The scan is well defined.
LEMMA TurnsExist ==
    ASSUME NEW d PROVE \E f : Turns(d, f)
<1> DEFINE S == {n \in Nat : ~ \E f : FirstTurns(d, n, f)}
<1>1. S = {}
  <2> SUFFICES ASSUME S # {} PROVE FALSE
    OBVIOUS
  <2>1. PICK n \in S : \A k \in S : n <= k
    BY Least
  <2>2. CASE n = 0
    <3>1. FirstTurns(d, 0, [b \in 0 .. 0 |-> {ScanStart}])
      BY DEF FirstTurns
    <3> QED BY <2>1, <2>2, <3>1
  <2>3. CASE n # 0
    <3>1. n - 1 \in Nat /\ n \in Nat /\ n - 1 \notin S
      BY <2>1, <2>3
    <3>2. PICK f : FirstTurns(d, n - 1, f)
      BY <3>1
    <3> DEFINE g == [b \in 0 .. n |-> IF b = n THEN {ScanBlock(d, c, n) : c \in f[n - 1]}
                                      ELSE f[b]]
    <3>3. ASSUME NEW b \in 0 .. n
          PROVE  g[b] = IF b = 0 THEN {ScanStart}
                        ELSE {ScanBlock(d, c, b) : c \in g[b - 1]}
      <4>1. CASE b = n
        <5>1. g[b - 1] = f[n - 1]
          BY <3>1, <2>3, <4>1
        <5> QED BY <5>1, <4>1, <2>3
      <4>2. CASE b # n
        <5>1. b \in 0 .. n - 1 /\ g[b] = f[b]
          BY <4>2, <3>1
        <5>2. b # 0 => g[b - 1] = f[b - 1]
          BY <4>2, <3>1
        <5>3. f[b] = IF b = 0 THEN {ScanStart}
                     ELSE {ScanBlock(d, c, b) : c \in f[b - 1]}
          BY <3>2, <5>1 DEF FirstTurns
        <5> QED BY <5>1, <5>2, <5>3
      <4> QED BY <4>1, <4>2
    <3>4. g = [b \in 0 .. n |-> g[b]]
      OBVIOUS
    <3>5. FirstTurns(d, n, g)
      <4> HIDE DEF g
      <4> QED BY <3>3, <3>4, Zenon DEF FirstTurns
    <3> QED BY <3>1, <3>5, <2>1
  <2> QED BY <2>2, <2>3
<1>2. MaxBlk - 1 \in Nat
  BY ConstantFacts
<1> QED BY <1>1, <1>2 DEF FirstTurns, Turns

\* Nothing to read at block k.
Empty(d, k) == k \notin Block \/ d[k].kind = "none"

\* The last block a cursor has passed, or has looked at in vain.
Reached(c) == IF c.stopped /\ c.bad # 0 THEN c.blk ELSE c.blk - 1

Cursor == [blk : Nat \ {0}, bad : Nat, seq : Nat, stopped : BOOLEAN,
           dirindex : [Names -> Nat]]

\* bad counts the empty blocks since the last one that holds something.
CountsBad(d, c) ==
    /\ c.bad >= BadLimit => c.stopped
    /\ c.stopped => c.bad = 0 \/ c.bad >= BadLimit
    /\ c.bad <= Reached(c)
    /\ \A k \in Nat : Reached(c) - c.bad < k /\ k <= Reached(c) => Empty(d, k)
    /\ ~c.stopped /\ c.bad < Reached(c) => ~Empty(d, Reached(c) - c.bad)

\* A cursor passes complete renames, and stops at one that is not.
PastMarks(d, c) ==
    /\ \A k \in Marks(d) : k <= Reached(c) => TxComplete(d, k)
    /\ c.stopped /\ c.bad = 0 => c.blk \in Marks(d) /\ ~TxComplete(d, c.blk)

\* The index names the last record of a path so far, or none; with room for
\* all names none only for a path that has none.
IndexSoFar(d, e, index) ==
    \A p \in Path :
        /\ index[p] # 0 =>
              /\ index[p] \in Heads(d)
              /\ d[index[p]].path = p
              /\ index[p] <= e
              /\ \A k \in Heads(d) : k <= e /\ d[k].path = p => k <= index[p]
        /\ RoomForNames /\ index[p] = 0 =>
              \A k \in Heads(d) : k <= e => d[k].path # p

\* No number so far is higher than s.
HighestSoFar(d, e, s) ==
    \A k \in Block : k <= e /\ d[k].kind # "none" => d[k].seq <= s

ScanInv(d, b, c) ==
    /\ c \in Cursor
    /\ IF c.stopped THEN c.blk <= b ELSE b < c.blk
    /\ c.blk <= MaxBlk
    /\ CountsBad(d, c)
    /\ PastMarks(d, c)
    /\ HighestSoFar(d, Reached(c), c.seq)
    /\ IndexSoFar(d, Reached(c), c.dirindex)
    /\ Dense(d, c.blk)

\* A complete rename covers what it says.
MarksTrue(d) ==
    \A b \in Marks(d) : TxComplete(d, b) => Covered(d, b, DiskEnd + 1)

LEMMA ScanStarts ==
    ASSUME NEW d PROVE ScanInv(d, 0, ScanStart)
<1>1. ScanStart \in Cursor
  BY DEF ScanStart, Cursor
<1>2. Reached(ScanStart) = 0 /\ ScanStart.bad = 0 /\ ~ScanStart.stopped
      /\ ScanStart.blk = 1 /\ ScanStart.dirindex = [p \in Names |-> 0]
  BY DEF Reached, ScanStart
<1>3. CountsBad(d, ScanStart)
  BY <1>2, ConstantFacts DEF CountsBad
<1>4. HighestSoFar(d, 0, ScanStart.seq)
  BY ConstantFacts DEF HighestSoFar
<1>5. IndexSoFar(d, 0, ScanStart.dirindex)
  BY <1>2, ConstantFacts DEF IndexSoFar, Heads
<1>6. Dense(d, 1)
  BY ConstantFacts DEF Dense
<1>7. PastMarks(d, ScanStart)
  BY <1>2, ConstantFacts DEF PastMarks, Marks
<1>8. 1 <= MaxBlk
  BY ConstantFacts
<1> QED BY <1>1, <1>2, <1>3, <1>4, <1>5, <1>6, <1>7, <1>8 DEF ScanInv

\* A path that is not in the index may stay out of it, if there is no room.
LEMMA UpsertOf ==
    ASSUME NEW index \in [Names -> Nat], NEW p \in Names, NEW b \in Nat
    PROVE  /\ Upsert(index, p, b) \in [Names -> Nat]
           /\ \A q \in Names : q # p => Upsert(index, p, b)[q] = index[q]
           /\ \/ Upsert(index, p, b)[p] = b
              \/ Upsert(index, p, b)[p] = 0 /\ index[p] = 0 /\ ~RoomForNames
<1>1. ASSUME RoomForNames, index[p] = 0
      PROVE  Cardinality({q \in Names : index[q] # 0}) < IndexSlots
  <2> DEFINE used == {q \in Names : index[q] # 0}
  <2>1. used \in SUBSET Names /\ used # Names
    BY <1>1
  <2> HIDE DEF used
  <2>2. /\ IsFiniteSet(Names) /\ Cardinality(Names) <= IndexSlots
        /\ Cardinality(Names) \in Nat /\ IndexSlots \in Nat
    BY <1>1, FS_CardinalityType, LogAssumption DEF RoomForNames
  <2>3. /\ IsFiniteSet(used) /\ Cardinality(used) <= Cardinality(Names)
        /\ Cardinality(used) # Cardinality(Names)
    BY <2>1, <2>2, FS_Subset
  <2>4. Cardinality(used) \in Nat
    BY <2>3, FS_CardinalityType
  <2>5. Cardinality(used) < IndexSlots
    BY <2>2, <2>3, <2>4
  <2> QED BY <2>5 DEF used
<1> QED BY <1>1 DEF Upsert

\* A block that holds something goes into the index.
LEMMA IndexGrows ==
    ASSUME NEW d, NEW n, DiskOK(d, n), NEW b \in Block, d[b].kind # "none",
           NEW old \in [Names -> Nat], IndexSoFar(d, b - 1, old)
    PROVE  /\ Upsert(old, d[b].path, b) \in [Names -> Nat]
           /\ IndexSoFar(d, b, Upsert(old, d[b].path, b))
<1> DEFINE index == Upsert(old, d[b].path, b)
<1>1. /\ d[b] \in Record /\ d[b].path \in Names /\ b \in Nat
      /\ \A k \in Heads(d) : k \in Nat
  BY ConstantFacts DEF DiskOK, Record, Heads
<1>2. /\ index \in [Names -> Nat]
      /\ \A q \in Names : q # d[b].path => index[q] = old[q]
      /\ \/ index[d[b].path] = b
         \/ index[d[b].path] = 0 /\ old[d[b].path] = 0 /\ ~RoomForNames
  BY <1>1, UpsertOf
<1> HIDE DEF index
<1>3. ASSUME NEW p \in Path
      PROVE  /\ index[p] # 0 =>
                   /\ index[p] \in Heads(d) /\ d[index[p]].path = p /\ index[p] <= b
                   /\ \A k \in Heads(d) : k <= b /\ d[k].path = p => k <= index[p]
             /\ RoomForNames /\ index[p] = 0 =>
                   \A k \in Heads(d) : k <= b => d[k].path # p
  <2>1. p \in Names
    BY ConstantFacts
  <2>2. CASE d[b].path = p
    <3>1. d[b].kind \notin {"more", "tx_begin"}
      BY <2>2, ConstantFacts DEF DiskOK
    <3>2. b \in Heads(d)
      BY <1>1, <3>1 DEF Heads, Record
    <3>3. index[p] = b \/ (index[p] = 0 /\ ~RoomForNames)
      BY <1>2, <2>2
    <3>4. b # 0
      BY ConstantFacts
    <3> QED BY <1>1, <2>2, <3>2, <3>3, <3>4
  <2>3. CASE d[b].path # p
    <3>1. index[p] = old[p]
      BY <1>2, <2>1, <2>3
    <3>2. ASSUME NEW k \in Heads(d), k <= b, d[k].path = p PROVE k <= b - 1
      <4>1. k \in Nat /\ k # b
        BY <1>1, <2>3, <3>2
      <4> QED BY <1>1, <3>2, <4>1
    <3>3. index[p] <= b - 1 => index[p] <= b
      BY <1>1, <1>2, <2>1
    <3> QED BY <3>1, <3>2, <3>3 DEF IndexSoFar
  <2> QED BY <2>2, <2>3
<1>4. IndexSoFar(d, b, index)
  BY <1>3 DEF IndexSoFar
<1> QED BY <1>2, <1>4 DEF index

\* The blocks that a mark at b covers go into the index one by one.
Covering(d, b, index, f) ==
    f = [j \in 0 .. d[b].part |->
            IF j = 0 THEN index ELSE Upsert(f[j - 1], d[b + j].path, b + j)]

FirstCovered(d, b, index, n, f) ==
    f = [j \in 0 .. n |->
            IF j = 0 THEN index ELSE Upsert(f[j - 1], d[b + j].path, b + j)]

LEMMA CoveringExists ==
    ASSUME NEW d, NEW b, d[b].part \in Nat, NEW index
    PROVE  \E f : Covering(d, b, index, f)
<1> DEFINE S == {n \in Nat : ~ \E f : FirstCovered(d, b, index, n, f)}
<1>1. S = {}
  <2> SUFFICES ASSUME S # {} PROVE FALSE
    OBVIOUS
  <2>1. PICK n \in S : \A k \in S : n <= k
    BY Least
  <2>2. CASE n = 0
    <3>1. FirstCovered(d, b, index, 0, [j \in 0 .. 0 |-> index])
      BY DEF FirstCovered
    <3> QED BY <2>1, <2>2, <3>1
  <2>3. CASE n # 0
    <3>1. n - 1 \in Nat /\ n \in Nat /\ n - 1 \notin S
      BY <2>1, <2>3
    <3>2. PICK f : FirstCovered(d, b, index, n - 1, f)
      BY <3>1
    <3> DEFINE g == [j \in 0 .. n |-> IF j = n THEN Upsert(f[n - 1], d[b + n].path, b + n)
                                      ELSE f[j]]
    <3>3. ASSUME NEW j \in 0 .. n
          PROVE  g[j] = IF j = 0 THEN index ELSE Upsert(g[j - 1], d[b + j].path, b + j)
      <4>1. CASE j = n
        <5>1. g[j - 1] = f[n - 1]
          BY <3>1, <2>3, <4>1
        <5> QED BY <5>1, <4>1, <2>3
      <4>2. CASE j # n
        <5>1. j \in 0 .. n - 1 /\ g[j] = f[j]
          BY <4>2, <3>1
        <5>2. j # 0 => g[j - 1] = f[j - 1]
          BY <4>2, <3>1
        <5>3. f[j] = IF j = 0 THEN index ELSE Upsert(f[j - 1], d[b + j].path, b + j)
          BY <3>2, <5>1 DEF FirstCovered
        <5> QED BY <5>1, <5>2, <5>3
      <4> QED BY <4>1, <4>2
    <3>4. g = [j \in 0 .. n |-> g[j]]
      OBVIOUS
    <3>5. FirstCovered(d, b, index, n, g)
      <4> HIDE DEF g
      <4> QED BY <3>3, <3>4, Zenon DEF FirstCovered
    <3> QED BY <3>1, <3>5, <2>1
  <2> QED BY <2>2, <2>3
<1> QED BY <1>1 DEF FirstCovered, Covering

LEMMA IndexTxGrows ==
    ASSUME NEW d, NEW n, DiskOK(d, n), NEW b \in Marks(d), Covered(d, b, DiskEnd + 1),
           NEW index \in [Names -> Nat], IndexSoFar(d, b, index)
    PROVE  /\ IndexTx(d, b, index) \in [Names -> Nat]
           /\ IndexSoFar(d, b + d[b].part, IndexTx(d, b, index))
<1> DEFINE f == CHOOSE f : Covering(d, b, index, f)
           last == d[b].part
<1>1. b \in Block /\ b \in Nat /\ last \in Nat
  BY ConstantFacts DEF Marks, DiskOK, Record
<1>2. Covering(d, b, index, f)
  BY <1>1, CoveringExists
<1>3. IndexTx(d, b, index) = f[last]
  BY Zenon DEF IndexTx, Covering
<1> HIDE DEF f
<1> DEFINE Good(j) == f[j] \in [Names -> Nat] /\ IndexSoFar(d, b + j, f[j])
           S == {j \in 0 .. last : ~Good(j)}
<1>4. S = {}
  <2> SUFFICES ASSUME S # {} PROVE FALSE
    OBVIOUS
  <2>1. S \in SUBSET Nat
    BY <1>1
  <2>2. PICK j \in S : \A k \in S : j <= k
    <3> HIDE DEF S
    <3> QED BY <2>1, Least
  <2>3. j \in 0 .. last /\ j \in Nat /\ ~Good(j)
    BY <1>1
  <2> HIDE DEF Good
  <2>4. CASE j = 0
    <3>1. f[0] = index /\ b + 0 = b
      BY <1>1, <1>2, <2>3 DEF Covering
    <3> QED BY <3>1, <2>3, <2>4 DEF Good
  <2>5. CASE j # 0
    <3>1. j - 1 \in 0 .. last /\ j - 1 \notin S /\ j \in 1 .. last
      BY <2>2, <2>3, <2>5, <1>1
    <3>2. Good(j - 1)
      BY <3>1
    <3>3. f[j] = Upsert(f[j - 1], d[b + j].path, b + j)
      BY <1>2, <2>3, <2>5 DEF Covering
    <3>4. b + j \in Block /\ d[b + j].kind # "none"
      BY <3>1 DEF Covered
    <3>5. f[j - 1] \in [Names -> Nat] /\ IndexSoFar(d, (b + j) - 1, f[j - 1])
      <4>1. (b + j) - 1 = b + (j - 1)
        BY <1>1, <2>3
      <4> QED BY <3>2, <4>1 DEF Good
    <3>6. Good(j)
      BY <3>3, <3>4, <3>5, IndexGrows DEF Good
    <3> QED BY <2>3, <3>6
  <2> QED BY <2>4, <2>5
<1>5. last \in 0 .. last
  BY <1>1
<1>6. Good(last)
  BY <1>4, <1>5
<1> QED BY <1>3, <1>6

\* The scan looks at an empty block b.
LEMMA ScanEmpty ==
    ASSUME NEW d, NEW n, DiskOK(d, n), NEW b \in 1 .. MaxBlk - 1,
           NEW c, ScanInv(d, b - 1, c), ~c.stopped, c.blk = b, Empty(d, b)
    PROVE  ScanInv(d, b, BadBlock(c))
<1> DEFINE r == BadBlock(c)
<1>1. c \in Cursor /\ b \in Nat \ {0} /\ MaxBlk \in Nat
  BY ConstantFacts DEF ScanInv
<1>t. /\ c.blk \in Nat \ {0} /\ c.bad \in Nat /\ c.seq \in Nat
      /\ c.stopped \in BOOLEAN /\ c.dirindex \in [Names -> Nat]
  BY <1>1 DEF Cursor
<1>2. Reached(c) = b - 1 /\ c.bad <= b - 1 /\ c.bad < BadLimit
  BY <1>t, ConstantFacts DEF ScanInv, CountsBad, Reached
<1>3. /\ \A k \in Nat : b - 1 - c.bad < k /\ k <= b - 1 => Empty(d, k)
      /\ c.bad < b - 1 => ~Empty(d, b - 1 - c.bad)
  BY <1>2 DEF ScanInv, CountsBad
<1>4. /\ Dense(d, b) /\ HighestSoFar(d, b - 1, c.seq) /\ IndexSoFar(d, b - 1, c.dirindex)
      /\ \A k \in Marks(d) : k <= b - 1 => TxComplete(d, k)
  BY <1>2 DEF ScanInv, PastMarks
<1>5. /\ r \in Cursor /\ r.bad = c.bad + 1 /\ r.seq = c.seq
      /\ r.dirindex = c.dirindex
      /\ r.stopped <=> c.bad + 1 >= BadLimit
      /\ r.blk = IF r.stopped THEN b ELSE b + 1
  <2>0. c.bad + 1 \in Nat /\ c.blk + 1 \in Nat \ {0} /\ TRUE \in BOOLEAN
    BY <1>t
  <2>1. CASE c.bad + 1 >= BadLimit
    <3>1. r = [c EXCEPT !.bad = c.bad + 1, !.stopped = TRUE]
      BY <2>1 DEF BadBlock
    <3> HIDE DEF r
    <3>2. /\ r.bad = c.bad + 1 /\ r.seq = c.seq /\ r.dirindex = c.dirindex
          /\ r.stopped = TRUE /\ r.blk = b
      BY <3>1, <1>1 DEF Cursor
    <3>3. r \in Cursor
      BY <3>1, <2>0, <1>1, Zenon DEF Cursor
    <3> QED BY <3>2, <3>3, <2>1
  <2>2. CASE ~(c.bad + 1 >= BadLimit)
    <3>1. r = [c EXCEPT !.bad = c.bad + 1, !.blk = c.blk + 1]
      BY <2>2 DEF BadBlock
    <3> HIDE DEF r
    <3>2. /\ r.bad = c.bad + 1 /\ r.seq = c.seq /\ r.dirindex = c.dirindex
          /\ r.stopped = c.stopped /\ r.blk = b + 1
      BY <3>1, <1>1 DEF Cursor
    <3>3. r \in Cursor
      BY <3>1, <2>0, <1>1, Zenon DEF Cursor
    <3> QED BY <3>2, <3>3, <2>2
  <2> QED BY <2>1, <2>2
<1> HIDE DEF r
<1>6. Reached(r) = b
  BY <1>5, <1>t DEF Reached
<1>7. CountsBad(d, r)
  <2>1. ASSUME NEW k \in Nat, b - (c.bad + 1) < k, k <= b PROVE Empty(d, k)
    BY <2>1, <1>1, <1>3, <1>t
  <2>2. c.bad + 1 < b => ~Empty(d, b - (c.bad + 1))
    BY <1>1, <1>3, <1>t
  <2>3. c.bad + 1 <= b
    BY <1>1, <1>2, <1>t
  <2> QED BY <1>5, <1>6, <2>1, <2>2, <2>3 DEF CountsBad
<1>8. HighestSoFar(d, b, r.seq)
  BY <1>1, <1>4, <1>5, ConstantFacts DEF HighestSoFar, Empty
<1>9. b \notin Heads(d) /\ b \notin Marks(d)
  BY DEF Heads, Marks, Empty
<1>10. \A k \in Heads(d) \cup Marks(d) : k <= b => k <= b - 1
  <2>1. \A k \in Heads(d) \cup Marks(d) : k \in Nat /\ k # b
    BY <1>9, ConstantFacts DEF Heads, Marks
  <2> QED BY <1>1, <2>1
<1>11. IndexSoFar(d, b, r.dirindex)
  <2>1. ASSUME NEW p \in Path, c.dirindex[p] # 0, c.dirindex[p] <= b - 1
        PROVE  c.dirindex[p] <= b
    BY <2>1, <1>1, <1>t, ConstantFacts
  <2> QED BY <1>4, <1>5, <1>10, <2>1 DEF IndexSoFar
<1>12. PastMarks(d, r)
  <2>1. r.bad # 0
    BY <1>5, <1>t
  <2> QED BY <1>4, <1>6, <1>10, <2>1 DEF PastMarks
<1>13. Dense(d, r.blk)
  <2>1. CASE r.stopped
    BY <2>1, <1>4, <1>5
  <2>2. CASE ~r.stopped
    <3> SUFFICES ASSUME NEW s \in Nat \ {0}, s + BadLimit <= b + 1
                 PROVE  \E k \in s .. s + BadLimit - 1 : ~Empty(d, k)
      BY <2>2, <1>5 DEF Dense, Empty
    <3>1. CASE s + BadLimit <= b
      BY <3>1, <1>4 DEF Dense, Empty
    <3>2. CASE s + BadLimit = b + 1
      <4>1. c.bad + 1 < BadLimit
        BY <2>2, <1>5, <1>t, ConstantFacts
      <4>2. b - 1 - c.bad \in s .. s + BadLimit - 1 /\ c.bad < b - 1
        BY <4>1, <3>2, <1>1, <1>t, ConstantFacts
      <4> QED BY <4>2, <1>3
    <3> QED BY <3>1, <3>2, <1>1, ConstantFacts
  <2> QED BY <2>1, <2>2
<1>14. (IF r.stopped THEN r.blk <= b ELSE b < r.blk) /\ r.blk <= MaxBlk
  BY <1>1, <1>5
<1>15. ScanInv(d, b, r)
  BY <1>5, <1>6, <1>7, <1>8, <1>11, <1>12, <1>13, <1>14 DEF ScanInv
<1> QED BY <1>15 DEF r

\* A cursor c comes to the end of e blocks from b on that hold something.
LEMMA ScanPasses ==
    ASSUME NEW d, NEW n, DiskOK(d, n), NEW b \in 1 .. MaxBlk - 1,
           NEW c, ScanInv(d, b - 1, c), ~c.stopped, c.blk = b,
           NEW e \in Nat, b <= e, e < MaxBlk, \A k \in b .. e : ~Empty(d, k),
           \A k \in Marks(d) : b <= k /\ k <= e => TxComplete(d, k),
           NEW r \in Cursor, r.bad = 0, r.stopped = FALSE, r.blk = e + 1,
           HighestSoFar(d, e, r.seq), IndexSoFar(d, e, r.dirindex)
    PROVE  ScanInv(d, b, r)
<1>1. b \in Nat \ {0} /\ MaxBlk \in Nat /\ BadLimit \in Nat /\ BadLimit > 0
  BY ConstantFacts
<1>2. Reached(c) = b - 1
  BY DEF Reached
<1>3. Dense(d, b) /\ \A k \in Marks(d) : k <= b - 1 => TxComplete(d, k)
  BY <1>2 DEF ScanInv, PastMarks
<1>4. Reached(r) = e
  BY <1>1 DEF Reached
<1>5. e \in b .. e
  BY <1>1
<1>6. CountsBad(d, r)
  BY <1>1, <1>4, <1>5 DEF CountsBad
<1>7. PastMarks(d, r)
  <2>1. ASSUME NEW k \in Marks(d), k <= e PROVE TxComplete(d, k)
    <3>1. k \in Nat
      BY ConstantFacts DEF Marks
    <3>2. k <= b - 1 \/ b <= k
      BY <1>1, <3>1
    <3> QED BY <1>3, <2>1, <3>2
  <2> QED BY <1>4, <2>1 DEF PastMarks
<1>8. Dense(d, r.blk)
  <2> SUFFICES ASSUME NEW s \in Nat \ {0}, s + BadLimit <= e + 1
               PROVE  \E k \in s .. s + BadLimit - 1 : ~Empty(d, k)
    BY DEF Dense, Empty
  <2>1. CASE s + BadLimit <= b
    BY <2>1, <1>3 DEF Dense, Empty
  <2>2. CASE ~(s + BadLimit <= b)
    <3>1. s + BadLimit - 1 \in s .. s + BadLimit - 1 /\ s + BadLimit - 1 \in b .. e
      BY <1>1, <2>2
    <3> QED BY <3>1
  <2> QED BY <2>1, <2>2
<1>9. b < r.blk /\ r.blk <= MaxBlk
  BY <1>1
<1> QED BY <1>4, <1>6, <1>7, <1>8, <1>9 DEF ScanInv

\* The scan looks at a block of a record.
LEMMA ScanGood ==
    ASSUME NEW d, NEW n, DiskOK(d, n), NEW b \in 1 .. MaxBlk - 1,
           NEW c, ScanInv(d, b - 1, c), ~c.stopped, c.blk = b,
           ~Empty(d, b), d[b].kind # "tx_begin"
    PROVE  ScanInv(d, b, GoodBlock(d, c))
<1> DEFINE r == GoodBlock(d, c)
<1>1. /\ c \in Cursor /\ b \in Nat \ {0} /\ MaxBlk \in Nat
      /\ b \in Block /\ d[b] \in Record /\ d[b].kind # "none"
      /\ d[b].seq \in Nat /\ d[b].path \in Names
  BY ConstantFacts DEF ScanInv, Empty, DiskOK, Record
<1>t. c.seq \in Nat /\ c.dirindex \in [Names -> Nat] /\ c.stopped \in BOOLEAN
  BY <1>1 DEF Cursor
<1>2. Reached(c) = b - 1
  BY DEF Reached
<1>3. HighestSoFar(d, b - 1, c.seq) /\ IndexSoFar(d, b - 1, c.dirindex)
  BY <1>2 DEF ScanInv
<1> DEFINE top == IF d[b].seq > c.seq THEN d[b].seq ELSE c.seq
           index == Upsert(c.dirindex, d[b].path, b)
<1>4. r = [c EXCEPT !.bad = 0, !.seq = top, !.dirindex = index, !.blk = b + 1]
  BY DEF GoodBlock
<1>5. index \in [Names -> Nat] /\ IndexSoFar(d, b, index)
  BY <1>1, <1>3, <1>t, IndexGrows
<1>6. top \in Nat /\ c.seq <= top /\ d[b].seq <= top
  BY <1>1, <1>t
<1> HIDE DEF top, index, r
<1>7. /\ r.bad = 0 /\ r.seq = top /\ r.dirindex = index
      /\ r.stopped = c.stopped /\ r.blk = b + 1
  BY <1>4, <1>1 DEF Cursor
<1>8. r \in Cursor
  <2>1. b + 1 \in Nat \ {0} /\ 0 \in Nat
    BY <1>1
  <2> QED BY <1>1, <1>4, <1>5, <1>6, <2>1, Zenon DEF Cursor
<1>9. HighestSoFar(d, b, top)
  <2> SUFFICES ASSUME NEW k \in Block, k <= b, d[k].kind # "none"
               PROVE  d[k].seq <= top
    BY DEF HighestSoFar
  <2>1. k \in Nat /\ d[k].seq \in Nat
    BY ConstantFacts DEF DiskOK, Record
  <2>2. k = b \/ k <= b - 1
    BY <1>1, <2>1
  <2>3. CASE k = b
    BY <1>6, <2>3
  <2>4. CASE k <= b - 1
    <3>1. d[k].seq <= c.seq
      BY <1>3, <2>4 DEF HighestSoFar
    <3> QED BY <1>6, <1>t, <2>1, <3>1
  <2> QED BY <2>2, <2>3, <2>4
<1>10. /\ \A k \in b .. b : ~Empty(d, k)
       /\ \A k \in Marks(d) : b <= k /\ k <= b => TxComplete(d, k)
  <2>1. b \notin Marks(d) /\ \A k \in Marks(d) : k \in Nat
    BY ConstantFacts DEF Marks
  <2>2. \A k \in b .. b : k = b
    BY <1>1
  <2> QED BY <1>1, <2>1, <2>2
<1>11. r.stopped = FALSE /\ b <= b /\ b < MaxBlk
  BY <1>1, <1>7, <1>t
<1>12. ScanInv(d, b, r)
  BY <1>1, <1>5, <1>7, <1>8, <1>9, <1>10, <1>11, ScanPasses
<1> QED BY <1>12 DEF r

\* The scan looks at the mark of a rename.
LEMMA ScanMark ==
    ASSUME NEW d, NEW n, DiskOK(d, n), MarksTrue(d), NEW b \in 1 .. MaxBlk - 1,
           NEW c, ScanInv(d, b - 1, c), ~c.stopped, c.blk = b, b \in Marks(d)
    PROVE  ScanInv(d, b, TxBegin(d, c))
<1> DEFINE r == TxBegin(d, c)
           part == d[b].part
<1>1. /\ c \in Cursor /\ b \in Nat \ {0} /\ MaxBlk \in Nat
      /\ b \in Block /\ d[b] \in Record /\ d[b].kind # "none"
      /\ d[b].seq \in Nat /\ part \in Nat
  BY ConstantFacts DEF ScanInv, Marks, DiskOK, Record
<1>t. /\ c.seq \in Nat /\ c.dirindex \in [Names -> Nat] /\ c.stopped \in BOOLEAN
      /\ c.bad \in Nat /\ c.blk \in Nat \ {0}
  BY <1>1 DEF Cursor
<1>2. Reached(c) = b - 1
  BY DEF Reached
<1>3. /\ HighestSoFar(d, b - 1, c.seq) /\ IndexSoFar(d, b - 1, c.dirindex)
      /\ \A k \in Marks(d) : k <= b - 1 => TxComplete(d, k)
      /\ Dense(d, b)
  BY <1>2 DEF ScanInv, PastMarks
<1>4. CASE TxComplete(d, b)
  <2> DEFINE e == b + part
             top == d[b].seq + part
             index == IndexTx(d, b, c.dirindex)
  <2>1. r = [c EXCEPT !.bad = 0, !.seq = top, !.dirindex = index, !.blk = b + 1 + part]
    BY <1>4 DEF TxBegin
  <2>2. Covered(d, b, DiskEnd + 1)
    BY <1>4 DEF MarksTrue
  <2>3. IndexSoFar(d, b, c.dirindex)
    <3>1. b \notin Heads(d)
      BY DEF Heads, Marks
    <3>2. \A k \in Heads(d) : k <= b => k <= b - 1
      BY <1>1, <3>1, ConstantFacts DEF Heads
    <3>3. ASSUME NEW p \in Path, c.dirindex[p] # 0, c.dirindex[p] <= b - 1
          PROVE  c.dirindex[p] <= b
      BY <1>1, <1>t, <3>3, ConstantFacts
    <3> QED BY <1>3, <3>2, <3>3 DEF IndexSoFar
  <2>4. index \in [Names -> Nat] /\ IndexSoFar(d, e, index)
    BY <1>t, <2>2, <2>3, IndexTxGrows
  <2>5. /\ e \in Nat /\ top \in Nat /\ b <= e /\ e + 1 = b + 1 + part
        /\ \A k \in b .. e : k = b \/ (k - b \in 1 .. part /\ b + (k - b) = k)
    BY <1>1
  <2>6. \A k \in b .. e : k \in Block /\ d[k].kind # "none"
                          /\ d[k].seq <= top /\ (k # b => d[k].kind # "tx_begin")
    <3> SUFFICES ASSUME NEW k \in b .. e
                 PROVE  /\ k \in Block /\ d[k].kind # "none"
                        /\ d[k].seq <= top /\ (k # b => d[k].kind # "tx_begin")
      OBVIOUS
    <3>1. CASE k = b
      BY <1>1, <3>1
    <3>2. CASE k - b \in 1 .. part /\ b + (k - b) = k
      BY <2>2, <3>2 DEF Covered
    <3> QED BY <2>5, <3>1, <3>2
  <2>7. e < MaxBlk
    <3>1. CASE part = 0
      BY <1>1, <3>1
    <3>2. CASE part # 0
      <4>1. part \in 1 .. part
        BY <1>1, <3>2
      <4> QED BY <1>4, <4>1 DEF TxComplete
    <3> QED BY <3>1, <3>2
  <2>8. HighestSoFar(d, e, top)
    <3> SUFFICES ASSUME NEW k \in Block, k <= e, d[k].kind # "none"
                 PROVE  d[k].seq <= top
      BY DEF HighestSoFar
    <3>1. k \in Nat /\ d[k].seq \in Nat
      BY ConstantFacts DEF DiskOK, Record
    <3>2. CASE k < b
      <4>1. d[k].seq < d[b].seq
        BY <3>2 DEF DiskOK, Ordered
      <4> QED BY <1>1, <3>1, <4>1
    <3>3. CASE ~(k < b)
      <4>1. k \in b .. e
        BY <1>1, <2>5, <3>1, <3>3
      <4> QED BY <2>6, <4>1
    <3> QED BY <3>2, <3>3
  <2> HIDE DEF top, index, r, e
  <2>9. /\ r.bad = 0 /\ r.seq = top /\ r.dirindex = index
        /\ r.stopped = c.stopped /\ r.blk = b + 1 + part
    BY <2>1, <1>1 DEF Cursor
  <2>10. r \in Cursor
    <3>1. b + 1 + part \in Nat \ {0} /\ 0 \in Nat
      BY <1>1
    <3> HIDE DEF part
    <3> QED BY <1>1, <2>1, <2>4, <2>5, <3>1, Zenon DEF Cursor
  <2>11. r.stopped = FALSE /\ r.blk = e + 1
    BY <1>t, <2>5, <2>9
  <2>12. /\ \A k \in b .. e : ~Empty(d, k)
         /\ \A k \in Marks(d) : b <= k /\ k <= e => TxComplete(d, k)
    <3>1. ASSUME NEW k \in Marks(d), b <= k, k <= e PROVE k = b
      <4>1. k \in b .. e /\ d[k].kind = "tx_begin"
        BY <1>1, <2>5, <3>1, ConstantFacts DEF Marks
      <4> QED BY <2>6, <4>1
    <3> QED BY <1>4, <2>6, <3>1 DEF Empty
  <2>13. ScanInv(d, b, r)
    BY <2>4, <2>5, <2>7, <2>8, <2>9, <2>10, <2>11, <2>12, ScanPasses
  <2> QED BY <2>13 DEF r
<1>5. CASE ~TxComplete(d, b)
  <2>1. r = [c EXCEPT !.bad = 0, !.stopped = TRUE]
    BY <1>5 DEF TxBegin
  <2> HIDE DEF r
  <2>2. /\ r.bad = 0 /\ r.seq = c.seq /\ r.dirindex = c.dirindex
        /\ r.stopped = TRUE /\ r.blk = b
    BY <2>1, <1>1 DEF Cursor
  <2>3. r \in Cursor
    <3>1. 0 \in Nat /\ TRUE \in BOOLEAN
      OBVIOUS
    <3> QED BY <1>1, <2>1, <3>1, Zenon DEF Cursor
  <2>4. Reached(r) = b - 1
    BY <2>2 DEF Reached
  <2>5. CountsBad(d, r)
    BY <1>1, <2>2, <2>4, ConstantFacts DEF CountsBad
  <2>6. PastMarks(d, r)
    BY <1>3, <1>5, <2>2, <2>4 DEF PastMarks
  <2>7. (IF r.stopped THEN r.blk <= b ELSE b < r.blk) /\ r.blk <= MaxBlk
    BY <1>1, <2>2
  <2>8. ScanInv(d, b, r)
    BY <1>3, <2>2, <2>3, <2>4, <2>5, <2>6, <2>7 DEF ScanInv
  <2> QED BY <2>8 DEF r
<1> QED BY <1>4, <1>5

\* A turn of the scan: a cursor that looks at block b.
LEMMA ScanTurns ==
    ASSUME NEW d, NEW n, DiskOK(d, n), MarksTrue(d),
           NEW b \in 1 .. MaxBlk - 1, NEW c, ScanInv(d, b - 1, c)
    PROVE  ScanInv(d, b, ScanBlock(d, c, b))
<1>1. /\ b \in Nat \ {0}
      /\ c.blk \in Nat \ {0} /\ c.stopped \in BOOLEAN
  BY ConstantFacts DEF ScanInv, Cursor
<1>2. CASE c.stopped \/ c.blk # b
  <2>1. ScanBlock(d, c, b) = c
    BY <1>2 DEF ScanBlock
  <2>2. IF c.stopped THEN c.blk <= b ELSE b < c.blk
    BY <1>1, <1>2 DEF ScanInv
  <2> QED BY <2>1, <2>2 DEF ScanInv
<1>3. CASE ~c.stopped /\ c.blk = b
  <2>1. CASE Empty(d, b)
    <3>1. ScanBlock(d, c, b) = BadBlock(c)
      BY <1>3, <2>1 DEF ScanBlock, Empty
    <3> QED BY <1>3, <2>1, <3>1, ScanEmpty
  <2>2. CASE ~Empty(d, b) /\ d[b].kind = "tx_begin"
    <3>1. ScanBlock(d, c, b) = TxBegin(d, c) /\ b \in Marks(d)
      BY <1>3, <2>2 DEF ScanBlock, Empty, Marks
    <3> QED BY <1>3, <3>1, ScanMark
  <2>3. CASE ~Empty(d, b) /\ d[b].kind # "tx_begin"
    <3>1. ScanBlock(d, c, b) = GoodBlock(d, c)
      BY <1>3, <2>3 DEF ScanBlock, Empty
    <3> QED BY <1>3, <2>3, <3>1, ScanGood
  <2> QED BY <2>1, <2>2, <2>3
<1> QED BY <1>2, <1>3

\* The scan ends with one cursor.
LEMMA ScanEnds ==
    ASSUME NEW d, NEW n, DiskOK(d, n), MarksTrue(d)
    PROVE  \E c : Scan(d) = {c} /\ ScanInv(d, MaxBlk - 1, c)
<1> DEFINE f == CHOOSE f : Turns(d, f)
<1>1. Turns(d, f)
  BY TurnsExist
<1>2. Scan(d) = f[MaxBlk - 1]
  BY Zenon DEF Scan, Turns
<1> HIDE DEF f
<1>m. MaxBlk \in Nat /\ MaxBlk - 1 \in Nat
  BY ConstantFacts
<1> DEFINE S == {b \in 0 .. MaxBlk - 1 : ~ \E c : f[b] = {c} /\ ScanInv(d, b, c)}
<1>3. S = {}
  <2> SUFFICES ASSUME S # {} PROVE FALSE
    OBVIOUS
  <2>1. S \in SUBSET Nat
    BY <1>m
  <2>2. PICK b \in S : \A k \in S : b <= k
    <3> HIDE DEF S
    <3> QED BY <2>1, Least
  <2>3. b \in 0 .. MaxBlk - 1 /\ b \in Nat
    BY <1>m
  <2>4. CASE b = 0
    <3>1. f[0] = {ScanStart}
      BY <1>1, <2>3, <2>4 DEF Turns
    <3> QED BY <3>1, <2>4, ScanStarts
  <2>5. CASE b # 0
    <3>1. b - 1 \in 0 .. MaxBlk - 1 /\ b - 1 \notin S /\ b \in 1 .. MaxBlk - 1
      BY <2>2, <2>3, <2>5, <1>m
    <3>2. PICK c : f[b - 1] = {c} /\ ScanInv(d, b - 1, c)
      BY <3>1
    <3>3. f[b] = {ScanBlock(d, x, b) : x \in f[b - 1]}
      BY <1>1, <2>3, <2>5 DEF Turns
    <3>4. f[b] = {ScanBlock(d, c, b)}
      BY <3>2, <3>3, Zenon
    <3>5. ScanInv(d, b, ScanBlock(d, c, b))
      BY <3>1, <3>2, ScanTurns
    <3> QED BY <3>4, <3>5
  <2> QED BY <2>4, <2>5
<1>4. MaxBlk - 1 \in 0 .. MaxBlk - 1
  BY <1>m
<1>5. PICK c : f[MaxBlk - 1] = {c} /\ ScanInv(d, MaxBlk - 1, c)
  BY <1>3, <1>4, Zenon
<1> QED BY <1>2, <1>5

\* dharafs_init takes its state from that cursor.
LEMMA RecoveredFrom ==
    ASSUME NEW d, NEW c, Scan(d) = {c}
    PROVE  Recovered(d) = [next_block |-> c.blk, next_seq |-> c.seq + 1,
                           log_start |-> 1, dirindex |-> c.dirindex]
<1> DEFINE m == [next_block |-> c.blk, next_seq |-> c.seq + 1,
                 log_start |-> 1, dirindex |-> c.dirindex]
<1>1. {[next_block |-> x.blk, next_seq |-> x.seq + 1, log_start |-> 1,
        dirindex |-> x.dirindex] : x \in Scan(d)} = {m}
  OBVIOUS
<1> HIDE DEF m
<1>2. Recovered(d) = m
  BY <1>1 DEF Recovered
<1> QED BY <1>2 DEF m

\* The scan comes to the end of the log, or to a rename that is not complete.
LEMMA ScanReaches ==
    ASSUME ScanCoversLog, NEW d, NEW n, DiskOK(d, n),
           NEW c, ScanInv(d, MaxBlk - 1, c)
    PROVE  \/ n <= c.blk /\ Reached(c) = c.blk
           \/ c.blk = MaxBlk /\ Reached(c) = MaxBlk - 1
           \/ /\ c.blk \in Marks(d) /\ ~TxComplete(d, c.blk)
              /\ Reached(c) = c.blk - 1
<1>1. /\ c.blk \in Nat \ {0} /\ c.bad \in Nat /\ c.stopped \in BOOLEAN
      /\ n \in Nat
  BY DEF ScanInv, Cursor, DiskOK
<1>2. CASE c.stopped /\ c.bad # 0
  <2>1. Reached(c) = c.blk /\ BadLimit <= c.bad /\ c.bad <= c.blk
    BY <1>1, <1>2, ConstantFacts DEF ScanInv, CountsBad, Reached
  <2>2. \A k \in Nat : c.blk - c.bad < k /\ k <= c.blk => Empty(d, k)
    BY <2>1 DEF ScanInv, CountsBad
  <2> DEFINE s == c.blk - BadLimit + 1
  <2>3. s \in Nat \ {0} /\ s + BadLimit = c.blk + 1
    BY <2>1, <1>1, ConstantFacts
  <2>4. \A k \in s .. s + BadLimit - 1 : Empty(d, k)
    <3> SUFFICES ASSUME NEW k \in s .. s + BadLimit - 1 PROVE Empty(d, k)
      OBVIOUS
    <3>1. k \in Nat /\ c.blk - c.bad < k /\ k <= c.blk
      BY <2>1, <2>3, <1>1, ConstantFacts
    <3> QED BY <3>1, <2>2
  <2> HIDE DEF s
  <2>5. ~(s + BadLimit <= n)
    BY <2>3, <2>4 DEF DiskOK, Dense, Empty
  <2> QED BY <2>1, <2>3, <2>5, <1>1
<1>3. CASE c.stopped /\ c.bad = 0
  BY <1>3 DEF ScanInv, PastMarks, Reached
<1>4. CASE ~c.stopped
  <2>1. c.blk = MaxBlk
    BY <1>1, <1>4, ConstantFacts DEF ScanInv
  <2> QED BY <1>4, <2>1 DEF Reached
<1> QED BY <1>1, <1>2, <1>3, <1>4

\* A rename that covers what it says is complete.
LEMMA CoveredIsComplete ==
    ASSUME ScanCoversLog, NEW d, NEW b, NEW n, Covered(d, b, n)
    PROVE  TxComplete(d, b)
<1> SUFFICES ASSUME NEW j \in 1 .. d[b].part
             PROVE  b + j < MaxBlk /\ b + j \in Block /\ d[b + j].kind # "none"
  BY DEF TxComplete
<1>1. b + j \in Block /\ d[b + j].kind # "none"
  BY DEF Covered
<1>2. \A k \in Block : k < MaxBlk
  BY ConstantFacts DEF ScanCoversLog
<1> QED BY <1>1, <1>2

\* Where every rename is complete, what it covers is within the device.
LEMMA CoveredInside ==
    ASSUME NEW d, NEW n, DiskOK(d, n), NEW b \in Marks(d), NEW k, Covered(d, b, k)
    PROVE  /\ b + d[b].part \in Block
           /\ Covered(d, b, DiskEnd + 1)
<1>1. b \in Block /\ b \in Nat /\ d[b].part \in Nat /\ DiskEnd \in Nat
  BY ConstantFacts DEF Marks, DiskOK, Record
<1>2. b + d[b].part \in Block
  <2>1. CASE d[b].part = 0
    BY <1>1, <2>1
  <2>2. CASE d[b].part # 0
    <3>1. d[b].part \in 1 .. d[b].part
      BY <1>1, <2>2
    <3> QED BY <3>1 DEF Covered
  <2> QED BY <2>1, <2>2
<1>3. b + d[b].part < DiskEnd + 1
  BY <1>1, <1>2, ConstantFacts DEF Block
<1> QED BY <1>2, <1>3 DEF Covered

\* dharafs_init finds the end of the log, a new sequence number and the last
\* record of every path it indexes.
LEMMA Recovers ==
    ASSUME ScanCoversLog, NEW d, NEW n, DiskOK(d, n), Settled(d, n)
    PROVE  /\ RamOK(d, Recovered(d))
           /\ Settled(d, Recovered(d).next_block)
           /\ \A b \in Block : Recovered(d).next_block <= b => n <= b
<1>s. /\ MarksTrue(d)
      /\ \A b \in Marks(d) : TxComplete(d, b)
  <2> SUFFICES ASSUME NEW b \in Marks(d)
               PROVE  Covered(d, b, DiskEnd + 1) /\ TxComplete(d, b)
    BY DEF MarksTrue
  <2>1. Covered(d, b, n)
    BY DEF Settled
  <2> QED BY <2>1, CoveredIsComplete, CoveredInside
<1>1. PICK c : Scan(d) = {c} /\ ScanInv(d, MaxBlk - 1, c)
  BY <1>s, ScanEnds
<1> DEFINE m == [next_block |-> c.blk, next_seq |-> c.seq + 1,
                 log_start |-> 1, dirindex |-> c.dirindex]
<1>2. Recovered(d) = m
  BY <1>1, RecoveredFrom
<1>3. /\ c.blk \in Nat \ {0} /\ c.seq \in Nat /\ c.dirindex \in [Names -> Nat]
      /\ n \in Nat
  BY <1>1 DEF ScanInv, Cursor, DiskOK
<1>4. \/ n <= c.blk /\ Reached(c) = c.blk
      \/ c.blk = MaxBlk /\ Reached(c) = MaxBlk - 1
  BY <1>1, <1>s, ScanReaches
<1>e. \A b \in Block : b <= DiskEnd /\ b \in Nat /\ b < MaxBlk
  BY ConstantFacts DEF ScanCoversLog
<1>5. \A b \in Heads(d) : Whole(d, b, c.blk) /\ b <= Reached(c)
  <2> SUFFICES ASSUME NEW b \in Heads(d)
               PROVE  Whole(d, b, c.blk) /\ b <= Reached(c)
    OBVIOUS
  <2>1. Whole(d, b, n) /\ b \in Block /\ b \in Nat /\ b <= DiskEnd
    BY ConstantFacts DEF DiskOK, Heads
  <2>2. CASE n <= c.blk /\ Reached(c) = c.blk
    <3>1. b < c.blk
      BY <2>1, <2>2, <1>3 DEF Whole
    <3>2. ASSUME d[b].kind = "data" PROVE b + Blocks[d[b].value] <= c.blk
      <4>1. Blocks[d[b].value] \in Nat /\ b + Blocks[d[b].value] <= n
        BY <2>1, <3>2, LogAssumption DEF Whole
      <4> QED BY <4>1, <2>1, <2>2, <1>3
    <3> QED BY <2>1, <2>2, <3>1, <3>2, <1>3 DEF Whole
  <2>3. CASE c.blk = MaxBlk /\ Reached(c) = MaxBlk - 1
    <3>1. b < MaxBlk /\ b <= MaxBlk - 1
      BY <2>1, ConstantFacts DEF ScanCoversLog
    <3>2. ASSUME d[b].kind = "data" PROVE b + Blocks[d[b].value] <= MaxBlk
      <4> DEFINE z == Blocks[d[b].value]
      <4>1. z \in Nat \ {0}
        BY <2>1, <3>2, LogAssumption DEF Whole
      <4>2. \A i \in 1 .. z - 1 : b + i \in Block
        BY <2>1, <3>2 DEF Whole
      <4> HIDE DEF z
      <4>3. CASE z = 1
        BY <4>3, <3>1, <2>1, ConstantFacts DEF z
      <4>4. CASE z # 1
        <5>1. z - 1 \in 1 .. z - 1
          BY <4>1, <4>4
        <5>2. b + (z - 1) \in Block
          BY <5>1, <4>2
        <5>3. b + (z - 1) <= DiskEnd
          BY <5>2, ConstantFacts
        <5>4. b + z <= MaxBlk
          BY <5>3, <4>1, <2>1, ConstantFacts DEF ScanCoversLog
        <5> QED BY <5>4 DEF z
      <4> QED BY <4>3, <4>4
    <3> QED BY <2>1, <2>3, <3>1, <3>2 DEF Whole
  <2> QED BY <2>2, <2>3, <1>4
<1>m. \A b \in Marks(d) : Covered(d, b, c.blk) /\ b < c.blk
  <2> SUFFICES ASSUME NEW b \in Marks(d) PROVE Covered(d, b, c.blk) /\ b < c.blk
    OBVIOUS
  <2>1. /\ b \in Block /\ b \in Nat /\ d[b].part \in Nat /\ MaxBlk \in Nat
        /\ Covered(d, b, n) /\ b + d[b].part \in Block
    BY CoveredInside, ConstantFacts DEF Marks, DiskOK, Record, Settled
  <2>2. b + d[b].part < c.blk
    <3>1. b + d[b].part < n /\ b + d[b].part < MaxBlk
      BY <1>e, <2>1 DEF Covered
    <3> QED BY <1>3, <1>4, <2>1, <3>1
  <2>3. b < c.blk
    BY <1>3, <2>1, <2>2
  <2> QED BY <2>1, <2>2, <2>3 DEF Covered
<1>6. DiskOK(d, c.blk)
  <2>1. Dense(d, c.blk)
    BY <1>1 DEF ScanInv
  <2> QED BY <1>3, <1>5, <1>m, <2>1 DEF DiskOK
<1>7. Unused(d, c.blk, c.seq + 1)
  <2> SUFFICES ASSUME NEW b \in Block, b < c.blk, d[b].kind # "none"
               PROVE  d[b].seq < c.seq + 1
    BY DEF Unused
  <2>1. b \in Nat /\ d[b].seq \in Nat
    BY ConstantFacts DEF DiskOK, Record
  <2>2. b <= Reached(c)
    BY <2>1, <1>3, <1>4
  <2>3. d[b].seq <= c.seq
    BY <2>2, <1>1 DEF ScanInv, HighestSoFar
  <2> QED BY <2>1, <2>3, <1>3
<1>8. IndexRight(d, c.dirindex)
  <2> SUFFICES ASSUME NEW p \in Path, c.dirindex[p] # 0
               PROVE  IsLast(d, p, c.dirindex[p])
    BY DEF IndexRight
  <2> QED BY <1>1, <1>5 DEF ScanInv, IndexSoFar, IsLast
<1>f. IndexFull(d, c.dirindex)
  <2> SUFFICES ASSUME RoomForNames, NEW p \in Path, NEW b \in Block, IsLast(d, p, b)
               PROVE  c.dirindex[p] = b
    BY DEF IndexFull
  <2>1. b \in Heads(d) /\ d[b].path = p /\ b <= Reached(c)
    BY <1>5 DEF IsLast
  <2>2. c.dirindex[p] # 0
    BY <1>1, <2>1 DEF ScanInv, IndexSoFar
  <2>3. IsLast(d, p, c.dirindex[p])
    BY <1>8, <2>2 DEF IndexRight
  <2>4. c.dirindex[p] <= b /\ b <= c.dirindex[p] /\ c.dirindex[p] \in Nat
    BY <2>1, <2>3, <1>e DEF IsLast, Heads
  <2> QED BY <1>e, <2>4
<1>9. Live(d, 1, c.dirindex)
  BY ConstantFacts DEF Live
<1>10. c.seq + 1 \in Nat \ {0} /\ 1 <= c.blk
  BY <1>3
<1>11. RamOK(d, m)
  BY <1>3, <1>6, <1>7, <1>8, <1>f, <1>9, <1>10 DEF RamOK
<1>12. Settled(d, c.blk)
  BY <1>m DEF Settled
<1>13. \A b \in Block : c.blk <= b => n <= b
  BY <1>3, <1>4, <1>e
<1> QED BY <1>2, <1>11, <1>12, <1>13

---------------------------------------------------------------------------
(* What a path holds                                                       *)

\* The value of the last record of path p.
Held(d, p) ==
    IF \E b \in Heads(d) : IsLast(d, p, b)
    THEN d[CHOOSE b \in Heads(d) : IsLast(d, p, b)].value
    ELSE Absent

\* There is one last record of a path.
LEMMA LastUnique ==
    ASSUME NEW d, NEW p, NEW b, NEW c, IsLast(d, p, b), IsLast(d, p, c)
    PROVE  b = c
<1>1. b \in Heads(d) /\ c \in Heads(d) /\ b <= c /\ c <= b
  BY DEF IsLast
<1>2. b \in Nat /\ c \in Nat
  BY <1>1, ConstantFacts DEF Heads
<1> QED BY <1>1, <1>2

LEMMA HeldAtLast ==
    ASSUME NEW d, NEW p, NEW b, IsLast(d, p, b)
    PROVE  Held(d, p) = d[b].value
<1> DEFINE c == CHOOSE c \in Heads(d) : IsLast(d, p, c)
<1>1. b \in Heads(d)
  BY DEF IsLast
<1>2. IsLast(d, p, c)
  BY <1>1
<1>3. c = b
  <2> HIDE DEF c
  <2> QED BY <1>2, LastUnique
<1> QED BY <1>1, <1>3 DEF Held

\* A path with a record has a last one.
LEMMA LastExists ==
    ASSUME NEW d, NEW p, NEW b \in Heads(d), d[b].path = p
    PROVE  \E c : IsLast(d, p, c)
<1> DEFINE S == {c \in Heads(d) : d[c].path = p}
<1>1. S \in SUBSET (0 .. DiskEnd) /\ S # {} /\ DiskEnd \in Nat
  <2>1. \A c \in Block : c \in 0 .. DiskEnd
    BY ConstantFacts
  <2>2. S \subseteq Block /\ b \in S
    BY DEF Heads
  <2> HIDE DEF S
  <2> QED BY <2>1, <2>2, ConstantFacts
<1>2. PICK c \in S : \A x \in S : x <= c
  <2> HIDE DEF S
  <2> QED BY <1>1, Greatest
<1> QED BY <1>2 DEF IsLast

\* g is d below block n.
Below(d, g, n) == \A b \in Block : b < n => g[b] = d[b]

\* Looking a path up in d, below the end of the log g, finds the last record
\* the path has in g, with and without the index.
LEMMA LatestIn ==
    ASSUME NEW d, NEW g, NEW m, RamOK(g, m), Below(d, g, m.next_block),
           NEW p \in Path
    PROVE  \/ Latest(d, m, p) = 0 /\ \A b \in Heads(g) : g[b].path # p
           \/ Latest(d, m, p) # 0 /\ IsLast(g, p, Latest(d, m, p))
<1>1. CASE m.dirindex[p] # 0
  BY <1>1 DEF Latest, RamOK, IndexRight
<1>2. CASE m.dirindex[p] = 0
  <2> DEFINE R == RecordsOf(d, m, p)
             Top(b) == \A c \in R : d[c].seq < d[b].seq
                                    \/ (d[c].seq = d[b].seq /\ c <= b)
  <2>t. m.log_start \in Nat \ {0} /\ m.next_block \in Nat \ {0}
    BY DEF RamOK, DiskOK
  <2>1. \A c \in R : /\ c \in Heads(g) /\ g[c].path = p /\ c \in Nat
                     /\ g[c] = d[c]
    <3> SUFFICES ASSUME NEW c \in R
                 PROVE  c \in Heads(g) /\ g[c].path = p /\ c \in Nat /\ g[c] = d[c]
      OBVIOUS
    <3>1. /\ c \in Block /\ c \in Nat /\ c < m.next_block
          /\ d[c].kind \in {"data", "tombstone"} /\ d[c].path = p
      BY <2>t, ConstantFacts DEF RecordsOf
    <3> QED BY <3>1 DEF Below, Heads
  <2>2. \A c \in Heads(g) : g[c].path = p /\ m.log_start <= c => c \in R
    <3> SUFFICES ASSUME NEW c \in Heads(g), g[c].path = p, m.log_start <= c
                 PROVE  c \in R
      OBVIOUS
    <3>1. c \in Block /\ c \in Nat /\ c < m.next_block
      BY ConstantFacts DEF Heads, RamOK, DiskOK, Whole
    <3>2. c \in m.log_start .. m.next_block - 1 /\ g[c] = d[c]
      BY <3>1, <2>t DEF Below
    <3> QED BY <3>1, <3>2 DEF RecordsOf, Heads
  <2>i. \A x \in Block : IsLast(g, p, x) => m.log_start <= x
    <3> SUFFICES ASSUME NEW x \in Block, IsLast(g, p, x)
                 PROVE  m.log_start <= x
      OBVIOUS
    <3>1. m.log_start <= x \/ m.dirindex[p] = x
      BY DEF RamOK, Live
    <3>2. x # 0
      BY ConstantFacts
    <3> QED BY <1>2, <3>1, <3>2
  <2>3. CASE R = {}
    <3>1. Latest(d, m, p) = 0
      BY <1>2, <2>3 DEF Latest
    <3>2. \A b \in Heads(g) : g[b].path # p
      <4> SUFFICES ASSUME NEW b \in Heads(g), g[b].path = p PROVE FALSE
        OBVIOUS
      <4>1. PICK c : IsLast(g, p, c)
        BY LastExists
      <4>2. c \in Heads(g) /\ g[c].path = p /\ c \in Block
        BY <4>1 DEF IsLast, Heads
      <4>3. m.log_start <= c
        BY <4>1, <4>2, <2>i
      <4> QED BY <4>2, <4>3, <2>2, <2>3
    <3> QED BY <3>1, <3>2
  <2>4. CASE R # {}
    <3>1. PICK x : IsLast(g, p, x)
      BY <2>4, <2>1, LastExists
    <3>2. x \in Heads(g) /\ x \in Nat /\ x \in Block /\ g[x].path = p
      BY <3>1, ConstantFacts DEF IsLast, Heads
    <3>3. m.log_start <= x
      BY <3>1, <3>2, <2>i
    <3>4. x \in R
      BY <3>2, <3>3, <2>2
    <3>5. \A b, c \in R : b < c => d[b].seq < d[c].seq
      <4> SUFFICES ASSUME NEW b \in R, NEW c \in R, b < c
                   PROVE  d[b].seq < d[c].seq
        OBVIOUS
      <4>1. /\ b \in Block /\ c \in Heads(g) /\ g[b].kind # "none"
            /\ g[b] = d[b] /\ g[c] = d[c]
        BY <2>1 DEF Heads
      <4> QED BY <4>1 DEF RamOK, DiskOK, Ordered
    <3>6. Top(x)
      <4> SUFFICES ASSUME NEW c \in R, c # x PROVE d[c].seq < d[x].seq
        BY <3>4, <3>2
      <4>1. c < x
        BY <2>1, <3>1, <3>2 DEF IsLast
      <4> QED BY <4>1, <3>4, <3>5
    <3> DEFINE l == CHOOSE b \in R : Top(b)
    <3>7. Latest(d, m, p) = l
      BY <1>2, <2>4 DEF Latest
    <3>8. l \in R /\ Top(l)
      BY <3>4, <3>6
    <3> HIDE DEF l
    <3>9. l = x
      <4>1. l <= x /\ l \in Nat
        BY <3>8, <2>1, <3>1 DEF IsLast
      <4>2. ~(l < x)
        <5> SUFFICES ASSUME l < x PROVE FALSE
          OBVIOUS
        <5>1. d[l].seq < d[x].seq
          BY <3>5, <3>4, <3>8
        <5>2. d[x].seq < d[l].seq \/ (d[x].seq = d[l].seq /\ x <= l)
          BY <3>8, <3>4
        <5>3. d[l].seq \in Nat /\ d[x].seq \in Nat
          <6>1. d[l] = g[l] /\ d[x] = g[x] /\ l \in Block
            BY <3>4, <3>8, <2>1 DEF Heads
          <6> QED BY <6>1, <3>2 DEF RamOK, DiskOK, Record
        <5> QED BY <5>1, <5>2, <5>3
      <4> QED BY <4>1, <4>2, <3>2
    <3>10. x # 0
      BY <3>2, ConstantFacts
    <3> QED BY <3>1, <3>7, <3>9, <3>10
  <2> QED BY <2>3, <2>4
<1> QED BY <1>1, <1>2

LEMMA LatestIsLast ==
    ASSUME NEW d, NEW m, RamOK(d, m), NEW p \in Path
    PROVE  \/ Latest(d, m, p) = 0 /\ \A b \in Heads(d) : d[b].path # p
           \/ Latest(d, m, p) # 0 /\ IsLast(d, p, Latest(d, m, p))
<1>1. Below(d, d, m.next_block)
  BY DEF Below
<1> QED BY <1>1, LatestIn

\* A record reads as what was written.
LEMMA HeadReads ==
    ASSUME NEW d, NEW g, NEW n, DiskOK(g, n), Below(d, g, n), NEW b \in Heads(g)
    PROVE  ReadBlock(d, b) = g[b].value
<1>1. Whole(g, b, n) /\ b \in Block /\ b < n /\ n \in Nat /\ b \in Nat
  BY ConstantFacts DEF DiskOK, Heads, Whole
<1>b. g[b] = d[b]
  BY <1>1 DEF Below
<1>2. CASE d[b].kind = "tombstone"
  BY <1>1, <1>b, <1>2 DEF Whole, ReadBlock
<1>3. CASE d[b].kind = "data"
  <2> DEFINE z == Blocks[d[b].value]
  <2>1. /\ z \in Nat /\ b + z <= n
        /\ \A i \in 1 .. z - 1 :
            b + i \in Block /\ g[b + i].kind = "more"
            /\ g[b + i].value = d[b].value /\ g[b + i].part = i
    BY <1>1, <1>b, <1>3, LogAssumption DEF Whole
  <2> HIDE DEF z
  <2>2. \A i \in 1 .. z - 1 : b + i < n
    BY <1>1, <2>1
  <2>3. \A i \in 1 .. z - 1 :
            b + i \in Block /\ d[b + i].kind = "more"
            /\ d[b + i].value = d[b].value /\ d[b + i].part = i
    BY <2>1, <2>2 DEF Below
  <2> QED BY <1>3, <1>b, <2>3, Zenon DEF ReadBlock, z
<1> QED BY <1>2, <1>3, <1>b DEF Heads

\* A read returns the value of the path's last record.
LEMMA ReadsIn ==
    ASSUME NEW d, NEW g, NEW m, RamOK(g, m), Below(d, g, m.next_block),
           NEW p \in Path
    PROVE  ReadFile(d, m, p) = Held(g, p)
<1>1. DiskOK(g, m.next_block)
  BY DEF RamOK
<1>2. CASE Latest(d, m, p) = 0 /\ \A b \in Heads(g) : g[b].path # p
  <2>1. ~ \E b \in Heads(g) : IsLast(g, p, b)
    BY <1>2 DEF IsLast
  <2> QED BY <1>2, <2>1 DEF ReadFile, Held
<1>3. CASE Latest(d, m, p) # 0 /\ IsLast(g, p, Latest(d, m, p))
  <2> DEFINE l == Latest(d, m, p)
  <2>1. l \in Heads(g)
    BY <1>3 DEF IsLast
  <2>2. ReadBlock(d, l) = g[l].value
    BY <1>1, <2>1, HeadReads
  <2>3. Held(g, p) = g[l].value
    BY <1>3, HeldAtLast
  <2> QED BY <1>3, <2>2, <2>3 DEF ReadFile
<1> QED BY <1>2, <1>3, LatestIn

LEMMA ReadsHeld ==
    ASSUME NEW d, NEW m, RamOK(d, m), NEW p \in Path
    PROVE  ReadFile(d, m, p) = Held(d, p)
<1>1. Below(d, d, m.next_block)
  BY DEF Below
<1> QED BY <1>1, ReadsIn

\* What the paths hold.
HeldMap(d) == [p \in Path |-> Held(d, p)]

\* After a restart every path holds the value of its last record.
LEMMA RestartReadsHeld ==
    ASSUME ScanCoversLog, NEW d, NEW n, DiskOK(d, n), Settled(d, n)
    PROVE  AfterRestart(d) = HeldMap(d)
<1>1. RamOK(d, Recovered(d))
  BY Recovers
<1> DEFINE f == [p \in Path |-> ReadFile(d, Recovered(d), p)]
<1>2. AfterRestart(d) = f
  BY DEF AfterRestart
<1>3. f = HeldMap(d)
  BY <1>1, ReadsHeld DEF HeldMap
<1> QED BY <1>2, <1>3

\* The log of d up to block t.
Cut(d, t) == [b \in Block |-> IF b < t THEN d[b] ELSE NoRecord]

LEMMA CutFacts ==
    ASSUME NEW d, NEW t
    PROVE  /\ \A b \in Block : b < t => Cut(d, t)[b] = d[b]
           /\ \A b \in Block : ~(b < t) => Cut(d, t)[b] = NoRecord
           /\ Heads(Cut(d, t)) = {b \in Heads(d) : b < t}
           /\ Marks(Cut(d, t)) = {b \in Marks(d) : b < t}
           /\ Below(d, Cut(d, t), t)
<1>1. /\ \A b \in Block : b < t => Cut(d, t)[b] = d[b]
      /\ \A b \in Block : ~(b < t) => Cut(d, t)[b] = NoRecord
  BY DEF Cut
<1>2. NoRecord.kind = "none"
  BY DEF NoRecord
<1> QED BY <1>1, <1>2 DEF Heads, Marks, Below

\* Up to a mark the log is one by itself: no record goes across it.
LEMMA CutOK ==
    ASSUME NEW d, NEW n, DiskOK(d, n), NEW t \in Marks(d), Dense(d, t)
    PROVE  DiskOK(Cut(d, t), t)
<1> DEFINE g == Cut(d, t)
<1>1. /\ d \in [Block -> Record] /\ n \in Nat \ {0} /\ t \in Nat \ {0}
      /\ t \in Block /\ \A b \in Block : b \in Nat
  BY ConstantFacts DEF DiskOK, Marks
<1>2. /\ \A b \in Block : b < t => g[b] = d[b]
      /\ \A b \in Block : ~(b < t) => g[b] = NoRecord
      /\ Heads(g) = {b \in Heads(d) : b < t}
      /\ Marks(g) = {b \in Marks(d) : b < t}
      /\ g = [b \in Block |-> IF b < t THEN d[b] ELSE NoRecord]
  BY CutFacts DEF Cut
<1> HIDE DEF g
<1>n. NoRecord \in Record /\ NoRecord.kind = "none"
  BY ConstantFacts DEF NoRecord, Record
<1>3. g \in [Block -> Record]
  BY <1>1, <1>2, <1>n
<1>4. \A b \in Block : g[b].kind \in {"more", "tx_begin"} => g[b].path = NoPath
  BY <1>2, <1>n DEF DiskOK
<1>5. ASSUME NEW b \in Heads(g) PROVE Whole(g, b, t)
  <2>1. b \in Heads(d) /\ b < t /\ b \in Block /\ b \in Nat /\ g[b] = d[b]
        /\ Whole(d, b, n)
    BY <1>1, <1>2 DEF Heads, DiskOK
  <2>2. ASSUME d[b].kind = "data"
        PROVE  /\ b + Blocks[d[b].value] <= t
               /\ \A i \in 1 .. Blocks[d[b].value] - 1 :
                      b + i \in Block /\ g[b + i] = d[b + i]
    <3> DEFINE z == Blocks[d[b].value]
    <3>1. /\ z \in Nat \ {0}
          /\ \A i \in 1 .. z - 1 : b + i \in Block /\ d[b + i].kind = "more"
      BY <2>1, <2>2, LogAssumption DEF Whole
    <3> HIDE DEF z
    <3>2. d[t].kind = "tx_begin"
      BY DEF Marks
    <3>3. b + z <= t
      <4> SUFFICES ASSUME t < b + z PROVE FALSE
        BY <1>1, <2>1, <3>1
      <4>1. t - b \in 1 .. z - 1 /\ b + (t - b) = t
        BY <1>1, <2>1, <3>1
      <4>2. d[b + (t - b)].kind = "more"
        BY <4>1, <3>1
      <4> QED BY <3>2, <4>1, <4>2
    <3>4. \A i \in 1 .. z - 1 : b + i < t
      BY <1>1, <2>1, <3>1, <3>3
    <3> QED BY <3>1, <3>3, <3>4, <1>2 DEF z
  <2> QED BY <2>1, <2>2 DEF Whole
<1>6. Dense(g, t)
  <2> SUFFICES ASSUME NEW s \in Nat \ {0}, s + BadLimit <= t
               PROVE  \E k \in s .. s + BadLimit - 1 :
                         k \in Block /\ g[k].kind # "none"
    BY DEF Dense
  <2>1. PICK k \in s .. s + BadLimit - 1 : k \in Block /\ d[k].kind # "none"
    BY DEF Dense
  <2>2. k < t
    BY <1>1, ConstantFacts
  <2> QED BY <2>1, <2>2, <1>2
<1>7. Ordered(g)
  <2> SUFFICES ASSUME NEW b \in Block, NEW c \in Heads(g) \cup Marks(g), b < c,
                      g[b].kind # "none"
               PROVE  g[b].seq < g[c].seq
    BY DEF Ordered
  <2>1. c \in Heads(d) \cup Marks(d) /\ c < t /\ c \in Block
    BY <1>2 DEF Heads, Marks
  <2>2. g[b] = d[b] /\ g[c] = d[c]
    BY <1>2, <1>n, <2>1
  <2> QED BY <2>1, <2>2 DEF DiskOK, Ordered
<1>8. \A b \in Marks(g) : b < t
  BY <1>2
<1> QED BY <1>1, <1>3, <1>4, <1>5, <1>6, <1>7, <1>8 DEF DiskOK, g

\* A rename from block t on is not complete, and every one before it is.
OpenAt(d, t) ==
    /\ t \in Marks(d)
    /\ ~TxComplete(d, t)
    /\ \A b \in Marks(d) : b # t => b < t /\ Covered(d, b, t)

\* With such a rename at its end, the log reads after a restart as what it was
\* when the rename began.
LEMMA RestartReadsCut ==
    ASSUME ScanCoversLog, NEW d, NEW n, DiskOK(d, n), NEW t, OpenAt(d, t)
    PROVE  AfterRestart(d) = HeldMap(Cut(d, t))
<1>s. MarksTrue(d)
  <2> SUFFICES ASSUME NEW b \in Marks(d), TxComplete(d, b)
               PROVE  Covered(d, b, DiskEnd + 1)
    BY DEF MarksTrue
  <2>1. Covered(d, b, t)
    BY DEF OpenAt
  <2> QED BY <2>1, CoveredInside
<1>t. /\ t \in Marks(d) /\ ~TxComplete(d, t) /\ t \in Block /\ t \in Nat \ {0}
      /\ t < n /\ t < MaxBlk /\ n \in Nat /\ MaxBlk \in Nat
  BY ConstantFacts DEF OpenAt, Marks, DiskOK, ScanCoversLog
<1>1. PICK c : Scan(d) = {c} /\ ScanInv(d, MaxBlk - 1, c)
  BY <1>s, ScanEnds
<1> DEFINE m == [next_block |-> c.blk, next_seq |-> c.seq + 1,
                 log_start |-> 1, dirindex |-> c.dirindex]
<1>2. Recovered(d) = m
  BY <1>1, RecoveredFrom
<1>3. /\ c.blk \in Nat \ {0} /\ c.seq \in Nat /\ c.dirindex \in [Names -> Nat]
  BY <1>1 DEF ScanInv, Cursor
<1>4. c.blk = t /\ Reached(c) = t - 1
  <2>1. ~(t <= Reached(c))
    BY <1>1, <1>t DEF ScanInv, PastMarks
  <2>2. c.blk \in Marks(d) /\ ~TxComplete(d, c.blk) /\ Reached(c) = c.blk - 1
    BY <2>1, <1>1, <1>3, <1>t, ScanReaches
  <2>3. c.blk = t
    <3> SUFFICES ASSUME c.blk # t PROVE FALSE
      OBVIOUS
    <3>1. Covered(d, c.blk, t)
      BY <2>2 DEF OpenAt
    <3> QED BY <2>2, <3>1, CoveredIsComplete
  <2> QED BY <2>2, <2>3
<1> DEFINE g == Cut(d, t)
<1>5. /\ DiskOK(g, t)
      /\ \A b \in Block : b < t => g[b] = d[b]
      /\ \A b \in Block : ~(b < t) => g[b] = NoRecord
      /\ Heads(g) = {b \in Heads(d) : b < t}
      /\ Below(d, g, t)
  <2>1. Dense(d, t)
    BY <1>1, <1>4 DEF ScanInv
  <2> QED BY <2>1, <1>t, CutOK, CutFacts
<1> HIDE DEF g
<1>e. \A b \in Block : b \in Nat /\ (b <= t - 1 <=> b < t)
  BY <1>t, ConstantFacts
<1>6. Unused(g, t, c.seq + 1)
  <2> SUFFICES ASSUME NEW b \in Block, b < t, g[b].kind # "none"
               PROVE  g[b].seq < c.seq + 1
    BY DEF Unused
  <2>1. g[b] = d[b] /\ d[b].seq \in Nat /\ b <= Reached(c)
    BY <1>4, <1>5, <1>e DEF DiskOK, Record
  <2>2. d[b].seq <= c.seq
    BY <2>1, <1>1 DEF ScanInv, HighestSoFar
  <2> QED BY <2>1, <2>2, <1>3
<1>h. \A k \in Heads(g) : /\ k \in Heads(d) /\ g[k] = d[k] /\ k <= Reached(c)
                          /\ k \in Block
  BY <1>4, <1>5, <1>e DEF Heads
<1>7. IndexRight(g, c.dirindex)
  <2> SUFFICES ASSUME NEW p \in Path, c.dirindex[p] # 0
               PROVE  IsLast(g, p, c.dirindex[p])
    BY DEF IndexRight
  <2> DEFINE i == c.dirindex[p]
  <2>1. /\ i \in Heads(d) /\ d[i].path = p /\ i <= Reached(c)
        /\ \A k \in Heads(d) : k <= Reached(c) /\ d[k].path = p => k <= i
    BY <1>1 DEF ScanInv, IndexSoFar
  <2> HIDE DEF i
  <2>2. i \in Heads(g)
    BY <2>1, <1>4, <1>5, <1>e DEF Heads
  <2>3. IsLast(g, p, i)
    BY <2>1, <2>2, <1>h DEF IsLast
  <2> QED BY <2>3 DEF i
<1>8. IndexFull(g, c.dirindex)
  <2> SUFFICES ASSUME RoomForNames, NEW p \in Path, NEW b \in Block, IsLast(g, p, b)
               PROVE  c.dirindex[p] = b
    BY DEF IndexFull
  <2>1. b \in Heads(g) /\ g[b].path = p
    BY DEF IsLast
  <2>2. c.dirindex[p] # 0
    BY <1>1, <1>h, <2>1 DEF ScanInv, IndexSoFar
  <2>3. IsLast(g, p, c.dirindex[p])
    BY <1>7, <2>2 DEF IndexRight
  <2> QED BY <2>3, LastUnique
<1>9. Live(g, 1, c.dirindex)
  BY ConstantFacts DEF Live
<1>10. c.seq + 1 \in Nat \ {0} /\ 1 <= c.blk /\ 1 \in Nat \ {0}
  BY <1>3
<1>11. RamOK(g, m)
  BY <1>3, <1>4, <1>5, <1>6, <1>7, <1>8, <1>9, <1>10 DEF RamOK
<1>12. Below(d, g, m.next_block)
  BY <1>4, <1>5
<1> HIDE DEF m
<1> DEFINE f == [p \in Path |-> ReadFile(d, Recovered(d), p)]
<1>13. AfterRestart(d) = f
  BY DEF AfterRestart
<1>14. f = HeldMap(g)
  BY <1>2, <1>11, <1>12, ReadsIn DEF HeldMap
<1> QED BY <1>13, <1>14 DEF g

---------------------------------------------------------------------------
(* Writing                                                                 *)

\* What a write above the log leaves: nothing, or part of a record whose
\* head is not there.
Headless(r) == r \in Record /\ r.kind \in {"none", "more"} /\ r.path = NoPath

\* e is d with r written at block k.
Written(d, e, k, r) == e = [d EXCEPT ![k] = r]

\* What a complete rename covers stays covered.
LEMMA CoveredKept ==
    ASSUME NEW d, NEW n, DiskOK(d, n), NEW b \in Marks(d),
           NEW k \in Nat, Covered(d, b, k),
           NEW e, Below(d, e, k), NEW l \in Nat, k <= l
    PROVE  Covered(e, b, l)
<1>1. b \in Nat /\ b \in Block /\ d[b].part \in Nat /\ b + d[b].part < k
  BY ConstantFacts DEF Marks, DiskOK, Record, Covered
<1>2. e[b] = d[b]
  BY <1>1 DEF Below
<1>3. b + d[b].part < l
  BY <1>1
<1>4. ASSUME NEW j \in 1 .. d[b].part
      PROVE  b + j \in Block /\ e[b + j] = d[b + j]
  <2>1. b + j \in Block /\ b + j < k
    BY <1>1 DEF Covered
  <2> QED BY <2>1 DEF Below
<1> QED BY <1>2, <1>3, <1>4 DEF Covered

\* A write above the log changes no record.
LEMMA WriteAbove ==
    ASSUME NEW d, NEW n, DiskOK(d, n),
           NEW k \in Block, n <= k, NEW r, Headless(r),
           NEW e, Written(d, e, k, r)
    PROVE  /\ DiskOK(e, n)
           /\ Heads(e) = Heads(d) /\ Marks(e) = Marks(d)
           /\ \A b \in Block : b < n => e[b] = d[b]
           /\ \A b \in Heads(d) \cup Marks(d) : e[b] = d[b]
<1>1. /\ d \in [Block -> Record] /\ n \in Nat \ {0} /\ k \in Nat
      /\ \A b \in Block : b \in Nat
  BY ConstantFacts DEF DiskOK
<1>2. /\ e \in [Block -> Record]
      /\ e[k] = r
      /\ \A b \in Block : b # k => e[b] = d[b]
  BY <1>1 DEF Headless, Written
<1>3. \A b \in Block : b < n => e[b] = d[b]
  BY <1>1, <1>2
<1>4. /\ \A b \in Heads(d) : b < n /\ b \in Block /\ Whole(d, b, n)
      /\ \A b \in Marks(d) : b < n /\ b \in Block
  BY DEF DiskOK, Heads, Marks, Whole
<1>5. \A b \in Heads(d) \cup Marks(d) : e[b] = d[b]
  BY <1>3, <1>4
<1>m. Marks(e) = Marks(d)
  <2>1. ASSUME NEW b \in Marks(e) PROVE b \in Marks(d)
    BY <1>2, <2>1 DEF Marks, Headless
  <2>2. ASSUME NEW b \in Marks(d) PROVE b \in Marks(e)
    BY <1>4, <1>5 DEF Marks
  <2> QED BY <2>1, <2>2
<1>6. Heads(e) = Heads(d)
  <2>1. ASSUME NEW b \in Heads(e) PROVE b \in Heads(d)
    BY <1>2, <2>1 DEF Heads, Headless
  <2>2. ASSUME NEW b \in Heads(d) PROVE b \in Heads(e)
    BY <1>4, <1>5 DEF Heads
  <2> QED BY <2>1, <2>2
<1>7. ASSUME NEW b \in Heads(e) PROVE Whole(e, b, n)
  <2>1. b \in Heads(d) /\ e[b] = d[b] /\ b \in Block /\ Whole(d, b, n)
    BY <1>4, <1>5, <1>6
  <2>2. ASSUME d[b].kind = "data", NEW i \in 1 .. Blocks[d[b].value] - 1
        PROVE  b + i \in Block /\ e[b + i] = d[b + i]
    <3> DEFINE z == Blocks[d[b].value]
    <3>1. z \in Nat /\ b + z <= n /\ b + i \in Block
      BY <2>1, <2>2, LogAssumption DEF Whole
    <3> HIDE DEF z
    <3>2. i \in 1 .. z - 1
      BY DEF z
    <3>3. b + i < n
      BY <3>1, <3>2, <2>1, <1>1
    <3> QED BY <3>1, <3>3, <1>3
  <2> QED BY <2>1, <2>2 DEF Whole
<1>8. Dense(e, n)
  <2> SUFFICES ASSUME NEW s \in Nat \ {0}, s + BadLimit <= n
               PROVE  \E j \in s .. s + BadLimit - 1 :
                         j \in Block /\ e[j].kind # "none"
    BY DEF Dense
  <2>1. PICK j \in s .. s + BadLimit - 1 : j \in Block /\ d[j].kind # "none"
    BY DEF DiskOK, Dense
  <2>2. j < n
    BY <1>1, ConstantFacts
  <2> QED BY <2>1, <2>2, <1>3
<1>9. Ordered(e)
  <2> SUFFICES ASSUME NEW b \in Block, NEW c \in Heads(e) \cup Marks(e), b < c,
                      e[b].kind # "none"
               PROVE  e[b].seq < e[c].seq
    BY DEF Ordered
  <2>1. /\ c \in Heads(d) \cup Marks(d) /\ e[c] = d[c] /\ c < n
        /\ c \in Nat /\ b \in Nat
    BY <1>1, <1>4, <1>5, <1>6, <1>m
  <2>2. e[b] = d[b]
    BY <2>1, <1>1, <1>3
  <2> QED BY <2>1, <2>2 DEF DiskOK, Ordered
<1>10. \A b \in Block : e[b].kind \in {"more", "tx_begin"} => e[b].path = NoPath
  <2> SUFFICES ASSUME NEW b \in Block
               PROVE  e[b].kind \in {"more", "tx_begin"} => e[b].path = NoPath
    OBVIOUS
  <2>1. CASE b = k
    BY <2>1, <1>2 DEF Headless
  <2>2. CASE b # k
    BY <2>2, <1>2 DEF DiskOK
  <2> QED BY <2>1, <2>2
<1>11. DiskOK(e, n)
  BY <1>1, <1>2, <1>4, <1>7, <1>8, <1>9, <1>10, <1>m DEF DiskOK
<1> QED BY <1>3, <1>5, <1>6, <1>11, <1>m

\* Two disks with the same records hold the same.
LEMMA SameHeads ==
    ASSUME NEW d, NEW e, Heads(e) = Heads(d), \A b \in Heads(d) : e[b] = d[b]
    PROVE  /\ \A p, b : IsLast(e, p, b) <=> IsLast(d, p, b)
           /\ \A p : Held(e, p) = Held(d, p)
<1>1. ASSUME NEW p, NEW b PROVE IsLast(e, p, b) <=> IsLast(d, p, b)
  BY DEF IsLast
<1>2. ASSUME NEW p PROVE Held(e, p) = Held(d, p)
  <2>1. CASE \E b : IsLast(d, p, b)
    <3>1. PICK b : IsLast(d, p, b)
      BY <2>1
    <3>2. b \in Heads(d) /\ IsLast(e, p, b)
      BY <1>1, <3>1 DEF IsLast
    <3>3. Held(e, p) = e[b].value /\ Held(d, p) = d[b].value
      BY <3>1, <3>2, HeldAtLast
    <3> QED BY <3>2, <3>3
  <2>2. CASE ~ \E b : IsLast(d, p, b)
    BY <2>2, <1>1 DEF Held
  <2> QED BY <2>1, <2>2
<1> QED BY <1>1, <1>2

\* A write above the log leaves RAM right.
LEMMA RamKept ==
    ASSUME NEW d, NEW m, RamOK(d, m),
           NEW k \in Block, m.next_block <= k, NEW r, Headless(r),
           NEW e, Written(d, e, k, r)
    PROVE  RamOK(e, m)
<1>1. DiskOK(d, m.next_block)
  BY DEF RamOK
<1>2. /\ DiskOK(e, m.next_block)
      /\ Heads(e) = Heads(d)
      /\ \A b \in Block : b < m.next_block => e[b] = d[b]
      /\ \A b \in Heads(d) : e[b] = d[b]
  <2> DEFINE n == m.next_block
  <2>1. DiskOK(d, n) /\ n <= k
    BY <1>1
  <2> HIDE DEF n
  <2>2. /\ DiskOK(e, n)
        /\ Heads(e) = Heads(d)
        /\ \A b \in Block : b < n => e[b] = d[b]
        /\ \A b \in Heads(d) : e[b] = d[b]
    BY <2>1, WriteAbove
  <2> QED BY <2>2 DEF n
<1>3. \A p, b : IsLast(e, p, b) <=> IsLast(d, p, b)
  BY <1>2, SameHeads
<1> QED BY <1>2, <1>3 DEF RamOK, Unused, IndexRight, IndexFull, Live

\* A record or a tombstone to be written.
GoodStage(s) ==
    /\ s \in [kind : {"data", "tombstone"}, path : Path, value : Value \cup {Absent}]
    /\ s.kind = "data" => s.value \in Value
    /\ s.kind = "tombstone" => s.value = Absent

\* Block i of a record with sequence number q.
Piece(s, q, i) ==
    [kind  |-> IF i > 0 THEN "more" ELSE s.kind,
     seq   |-> q + i,
     path  |-> IF i > 0 THEN NoPath ELSE s.path,
     value |-> s.value,
     part  |-> i]

\* The state in RAM once record s is written.
After(m, s) ==
    [next_block |-> m.next_block + Length(s),
     next_seq   |-> m.next_seq + Length(s),
     log_start  |-> m.log_start,
     dirindex   |-> Upsert(m.dirindex, s.path, m.next_block)]

LEMMA StageFacts ==
    ASSUME NEW s, GoodStage(s)
    PROVE  /\ Length(s) \in Nat \ {0}
           /\ s.kind = "data" => Length(s) = Blocks[s.value]
           /\ s.kind # "data" => Length(s) = 1
           /\ s.kind \in {"data", "tombstone"}
           /\ s.path \in Path /\ s.path \in Names
           /\ s.value \in Value \cup {Absent}
BY LogAssumption, ConstantFacts DEF GoodStage, Length

\* The head of a record, whose other blocks are there, makes it the last
\* record of its path.
LEMMA HeadAppears ==
    ASSUME NEW d, NEW n, DiskOK(d, n), NEW q \in Nat, Unused(d, n, q),
           NEW s, GoodStage(s), NEW len, len = Length(s),
           n + len - 1 <= DiskEnd,
           \A i \in 1 .. len - 1 : d[n + i] = Piece(s, q, i),
           NEW e, Written(d, e, n, Piece(s, q, 0))
    PROVE  /\ n \in Block
           /\ Heads(e) = Heads(d) \cup {n} /\ Marks(e) = Marks(d)
           /\ \A b \in Block : b # n => e[b] = d[b]
           /\ e[n] = Piece(s, q, 0)
           /\ \A i \in 0 .. len - 1 : n + i \in Block /\ e[n + i] = Piece(s, q, i)
           /\ DiskOK(e, n + len)
           /\ Unused(e, n + len, q + len)
<1>1. /\ d \in [Block -> Record] /\ n \in Nat \ {0} /\ len \in Nat \ {0}
      /\ \A b \in Block : b \in Nat
  BY ConstantFacts, StageFacts DEF DiskOK
<1>2. /\ s.kind \in {"data", "tombstone"} /\ s.path \in Path /\ s.path \in Names
      /\ s.value \in Value \cup {Absent}
      /\ s.kind = "data" => len = Blocks[s.value] /\ s.value \in Value
      /\ s.kind = "tombstone" => len = 1 /\ s.value = Absent
  BY StageFacts DEF GoodStage
<1>3. \A i \in 0 .. len - 1 : n + i \in Block
  BY <1>1, ConstantFacts DEF Block
<1>4. n \in Block
  <2>1. 0 \in 0 .. len - 1 /\ n + 0 = n
    BY <1>1
  <2> QED BY <1>3, <2>1
<1> DEFINE r == Piece(s, q, 0)
<1>5. /\ r \in Record
      /\ r.kind = s.kind /\ r.seq = q /\ r.path = s.path /\ r.value = s.value
      /\ r.part = 0
  BY <1>2 DEF Piece, Record
<1> HIDE DEF r
<1>6. /\ e \in [Block -> Record]
      /\ e[n] = r
      /\ \A b \in Block : b # n => e[b] = d[b]
  BY <1>1, <1>4, <1>5 DEF Written, r
<1>7. \A i \in 0 .. len - 1 : e[n + i] = Piece(s, q, i)
  <2> SUFFICES ASSUME NEW i \in 0 .. len - 1 PROVE e[n + i] = Piece(s, q, i)
    OBVIOUS
  <2>1. CASE i = 0
    <3>1. n + i = n
      BY <1>1, <2>1
    <3> QED BY <3>1, <2>1, <1>6 DEF r
  <2>2. CASE i # 0
    <3>1. i \in 1 .. len - 1 /\ n + i # n /\ n + i \in Block
      BY <1>1, <1>3, <2>2
    <3> QED BY <3>1, <1>6
  <2> QED BY <2>1, <2>2
<1>8. \A b \in Heads(d) : b < n /\ b \in Block /\ Whole(d, b, n) /\ e[b] = d[b]
  <2>1. \A b \in Heads(d) : b < n /\ b \in Block /\ Whole(d, b, n)
    BY DEF DiskOK, Heads, Whole
  <2> QED BY <2>1, <1>1, <1>6
<1>9. Heads(e) = Heads(d) \cup {n}
  <2>1. ASSUME NEW b \in Heads(e), b # n PROVE b \in Heads(d)
    BY <1>6, <2>1 DEF Heads
  <2>2. ASSUME NEW b \in Heads(d) PROVE b \in Heads(e)
    BY <1>8 DEF Heads
  <2>3. n \in Heads(e)
    BY <1>2, <1>4, <1>5, <1>6 DEF Heads
  <2> QED BY <2>1, <2>2, <2>3
<1>m. /\ \A b \in Marks(d) : b < n /\ b \in Block /\ e[b] = d[b]
      /\ Marks(e) = Marks(d)
  <2>1. \A b \in Marks(d) : b < n /\ b \in Block
    BY DEF DiskOK, Marks
  <2>2. \A b \in Marks(d) : e[b] = d[b]
    BY <2>1, <1>1, <1>6
  <2>3. ASSUME NEW b \in Marks(e) PROVE b \in Marks(d)
    <3>1. b # n
      BY <1>2, <1>5, <1>6 DEF Marks
    <3> QED BY <3>1, <1>6 DEF Marks
  <2>4. ASSUME NEW b \in Marks(d) PROVE b \in Marks(e)
    BY <2>1, <2>2 DEF Marks
  <2> QED BY <2>1, <2>2, <2>3, <2>4
<1>10. ASSUME NEW b \in Heads(e) PROVE Whole(e, b, n + len)
  <2>1. CASE b = n
    <3>1. n < n + len
      BY <1>1
    <3>2. ASSUME NEW i \in 1 .. len - 1
          PROVE  /\ n + i \in Block /\ e[n + i].kind = "more"
                 /\ e[n + i].value = s.value /\ e[n + i].part = i
      <4>1. i \in 0 .. len - 1 /\ i > 0
        BY <1>1
      <4>2. n + i \in Block /\ e[n + i] = Piece(s, q, i)
        BY <4>1, <1>3, <1>7
      <4>3. /\ Piece(s, q, i).kind = "more" /\ Piece(s, q, i).value = s.value
            /\ Piece(s, q, i).part = i
        BY <4>1, Zenon DEF Piece
      <4> QED BY <4>2, <4>3
    <3>3. e[n].kind = "tombstone" => e[n].value = Absent
      BY <1>2, <1>5, <1>6
    <3>4. e[n].kind = "data" => e[n].value \in Value /\ Blocks[e[n].value] = len
      BY <1>2, <1>5, <1>6
    <3>5. e[n].path \in Path /\ e[n].value = s.value
      BY <1>2, <1>5, <1>6
    <3>6. n + len <= n + len
      BY <1>1
    <3> QED BY <2>1, <3>1, <3>2, <3>3, <3>4, <3>5, <3>6 DEF Whole
  <2>2. CASE b # n
    <3>1. b \in Heads(d) /\ e[b] = d[b] /\ b \in Block /\ Whole(d, b, n)
      BY <1>8, <1>9, <2>2
    <3>2. ASSUME d[b].kind = "data"
          PROVE  /\ b + Blocks[d[b].value] <= n + len
                 /\ \A i \in 1 .. Blocks[d[b].value] - 1 :
                        b + i \in Block /\ e[b + i] = d[b + i]
      <4> DEFINE z == Blocks[d[b].value]
      <4>1. z \in Nat /\ b + z <= n
        BY <3>1, <3>2, LogAssumption DEF Whole
      <4>2. \A i \in 1 .. z - 1 : b + i \in Block
        BY <3>1, <3>2 DEF Whole
      <4> HIDE DEF z
      <4>3. b + z <= n + len
        BY <4>1, <3>1, <1>1
      <4>4. \A i \in 1 .. z - 1 : b + i < n
        BY <4>1, <3>1, <1>1
      <4>5. \A i \in 1 .. z - 1 : e[b + i] = d[b + i]
        BY <4>2, <4>4, <1>1, <1>6
      <4> QED BY <4>2, <4>3, <4>5 DEF z
    <3>3. b < n + len
      BY <3>1, <1>1 DEF Whole
    <3> QED BY <3>1, <3>2, <3>3 DEF Whole
  <2> QED BY <2>1, <2>2
<1>11. Dense(e, n + len)
  <2> SUFFICES ASSUME NEW j \in Nat \ {0}, j + BadLimit <= n + len
               PROVE  \E k \in j .. j + BadLimit - 1 :
                         k \in Block /\ e[k].kind # "none"
    BY DEF Dense
  <2>1. CASE j + BadLimit <= n
    <3>1. PICK k \in j .. j + BadLimit - 1 : k \in Block /\ d[k].kind # "none"
      BY <2>1 DEF DiskOK, Dense
    <3>2. k # n
      BY <2>1, <1>1, ConstantFacts
    <3> QED BY <3>1, <3>2, <1>6
  <2>2. CASE n < j + BadLimit
    <3> DEFINE k == j + BadLimit - 1
               i == k - n
    <3>1. k \in j .. j + BadLimit - 1 /\ i \in 0 .. len - 1 /\ k = n + i
      BY <2>2, <1>1, ConstantFacts
    <3> HIDE DEF k, i
    <3>2. k \in Block /\ e[k] = Piece(s, q, i)
      BY <3>1, <1>3, <1>7
    <3>3. e[k].kind # "none"
      BY <3>2, <1>2 DEF Piece
    <3> QED BY <3>1, <3>2, <3>3
  <2> QED BY <2>1, <2>2, <1>1, ConstantFacts
<1>12. Ordered(e)
  <2> SUFFICES ASSUME NEW b \in Block, NEW c \in Heads(e) \cup Marks(e), b < c,
                      e[b].kind # "none"
               PROVE  e[b].seq < e[c].seq
    BY DEF Ordered
  <2>1. b \in Nat
    BY <1>1
  <2>2. CASE c = n
    <3>1. b < n /\ e[b] = d[b]
      BY <2>1, <2>2, <1>1, <1>6
    <3>2. d[b].seq < q
      BY <3>1 DEF Unused
    <3> QED BY <2>2, <3>1, <3>2, <1>5, <1>6
  <2>3. CASE c # n
    <3>1. c \in Heads(d) \cup Marks(d) /\ e[c] = d[c] /\ c < n /\ c \in Nat
      BY <1>1, <1>8, <1>9, <1>m, <2>3
    <3>2. e[b] = d[b]
      BY <3>1, <2>1, <1>1, <1>6
    <3> QED BY <3>1, <3>2 DEF DiskOK, Ordered
  <2> QED BY <2>2, <2>3
<1>13. \A b \in Block : e[b].kind \in {"more", "tx_begin"} => e[b].path = NoPath
  <2> SUFFICES ASSUME NEW b \in Block
               PROVE  e[b].kind \in {"more", "tx_begin"} => e[b].path = NoPath
    OBVIOUS
  <2>1. CASE b = n
    BY <2>1, <1>2, <1>5, <1>6
  <2>2. CASE b # n
    BY <2>2, <1>6 DEF DiskOK
  <2> QED BY <2>1, <2>2
<1>14. Unused(e, n + len, q + len)
  <2> SUFFICES ASSUME NEW b \in Block, b < n + len, e[b].kind # "none"
               PROVE  e[b].seq < q + len
    BY DEF Unused
  <2>1. b \in Nat
    BY <1>1
  <2>2. CASE b < n
    <3>1. e[b] = d[b] /\ d[b].seq < q
      BY <2>1, <2>2, <1>1, <1>6 DEF Unused
    <3>2. d[b].seq \in Nat
      BY <1>1 DEF Record
    <3> QED BY <3>1, <3>2, <1>1
  <2>3. CASE ~(b < n)
    <3> DEFINE i == b - n
    <3>1. i \in 0 .. len - 1 /\ b = n + i
      BY <2>1, <2>3, <1>1
    <3> HIDE DEF i
    <3>2. e[b].seq = q + i
      <4>1. e[b] = Piece(s, q, i)
        BY <3>1, <1>7
      <4>2. Piece(s, q, i).seq = q + i
        BY Zenon DEF Piece
      <4> QED BY <4>1, <4>2
    <3> QED BY <3>1, <3>2, <1>1
  <2> QED BY <2>2, <2>3
<1>15. n + len \in Nat \ {0}
  BY <1>1
<1>16. DiskOK(e, n + len)
  <2>1. \A b \in Marks(e) : b < n + len
    BY <1>1, <1>m
  <2> QED BY <2>1, <1>6, <1>10, <1>11, <1>12, <1>13, <1>15 DEF DiskOK
<1> QED BY <1>3, <1>4, <1>6, <1>7, <1>9, <1>14, <1>16, <1>m DEF r

\* It is the last record of its path, and no other path's last one changes.
LEMMA HeadIsLast ==
    ASSUME NEW d, NEW n, DiskOK(d, n), NEW q, NEW s, n \in Block,
           NEW e, Heads(e) = Heads(d) \cup {n},
           \A b \in Block : b # n => e[b] = d[b],
           e[n] = Piece(s, q, 0)
    PROVE  /\ IsLast(e, s.path, n)
           /\ \A b : IsLast(e, s.path, b) => b = n
           /\ \A p, b : p # s.path => (IsLast(e, p, b) <=> IsLast(d, p, b))
           /\ Held(e, s.path) = s.value
           /\ \A p : p # s.path => Held(e, p) = Held(d, p)
<1>1. \A b \in Heads(d) : b < n /\ b \in Block /\ b \in Nat /\ e[b] = d[b]
  BY ConstantFacts DEF DiskOK, Heads, Whole
<1>2. e[n].path = s.path /\ e[n].value = s.value
  BY DEF Piece
<1>3. n \in Nat /\ n \notin Heads(d)
  BY <1>1, ConstantFacts
<1>4. IsLast(e, s.path, n)
  BY <1>1, <1>2, <1>3 DEF IsLast
<1>5. \A b : IsLast(e, s.path, b) => b = n
  BY <1>4, LastUnique
<1>6. ASSUME NEW p, NEW b, p # s.path
      PROVE  IsLast(e, p, b) <=> IsLast(d, p, b)
  <2>1. b \in Heads(e) /\ e[b].path = p <=> b \in Heads(d) /\ d[b].path = p
    BY <1>1, <1>2, <1>6
  <2>2. \A c : c \in Heads(e) /\ e[c].path = p <=> c \in Heads(d) /\ d[c].path = p
    BY <1>1, <1>2, <1>6
  <2> QED BY <2>1, <2>2 DEF IsLast
<1>7. Held(e, s.path) = s.value
  BY <1>2, <1>4, HeldAtLast
<1>8. ASSUME NEW p, p # s.path PROVE Held(e, p) = Held(d, p)
  <2>1. CASE \E b : IsLast(d, p, b)
    <3>1. PICK b : IsLast(d, p, b)
      BY <2>1
    <3>2. b \in Heads(d) /\ IsLast(e, p, b)
      BY <1>6, <1>8, <3>1 DEF IsLast
    <3>3. Held(e, p) = e[b].value /\ Held(d, p) = d[b].value
      BY <3>1, <3>2, HeldAtLast
    <3> QED BY <1>1, <3>2, <3>3
  <2>2. CASE ~ \E b : IsLast(d, p, b)
    BY <2>2, <1>6, <1>8 DEF Held
  <2> QED BY <2>1, <2>2
<1> QED BY <1>4, <1>5, <1>6, <1>7, <1>8

\* With the state in RAM that goes with it, the record is found.
LEMMA RamFollows ==
    ASSUME NEW d, NEW m, RamOK(d, m), NEW s, GoodStage(s),
           m.next_block + Length(s) - 1 <= DiskEnd,
           \A i \in 1 .. Length(s) - 1 :
               d[m.next_block + i] = Piece(s, m.next_seq, i),
           NEW e, Written(d, e, m.next_block, Piece(s, m.next_seq, 0))
    PROVE  /\ RamOK(e, After(m, s))
           /\ m.next_block \in Block
           /\ Marks(e) = Marks(d)
           /\ \A b \in Block : b # m.next_block => e[b] = d[b]
           /\ e[m.next_block] = Piece(s, m.next_seq, 0)
           /\ IsLast(e, s.path, m.next_block)
           /\ \A b : IsLast(e, s.path, b) => b = m.next_block
           /\ \A p, b : p # s.path => (IsLast(e, p, b) <=> IsLast(d, p, b))
           /\ Held(e, s.path) = s.value
           /\ \A p : p # s.path => Held(e, p) = Held(d, p)
<1> DEFINE n == m.next_block
           q == m.next_seq
           len == Length(s)
<1>1. /\ DiskOK(d, n) /\ Unused(d, n, q) /\ n \in Nat \ {0} /\ q \in Nat \ {0}
      /\ n + len - 1 <= DiskEnd
      /\ \A i \in 1 .. len - 1 : d[n + i] = Piece(s, q, i)
      /\ Written(d, e, n, Piece(s, q, 0))
      /\ len \in Nat \ {0}
  BY StageFacts DEF RamOK, DiskOK
<1>i. /\ IndexRight(d, m.dirindex) /\ m.dirindex \in [Names -> Nat]
      /\ Live(d, m.log_start, m.dirindex) /\ IndexFull(d, m.dirindex)
      /\ m.log_start \in Nat \ {0} /\ m.log_start <= n
  BY DEF RamOK
<1>a. /\ After(m, s).next_block = n + len
      /\ After(m, s).next_seq = q + len
      /\ After(m, s).log_start = m.log_start
      /\ After(m, s).dirindex = Upsert(m.dirindex, s.path, n)
  BY DEF After
<1>l. len = Length(s)
  OBVIOUS
<1> HIDE DEF n, q, len
<1>2. /\ n \in Block
      /\ Heads(e) = Heads(d) \cup {n} /\ Marks(e) = Marks(d)
      /\ \A b \in Block : b # n => e[b] = d[b]
      /\ e[n] = Piece(s, q, 0)
      /\ DiskOK(e, n + len)
      /\ Unused(e, n + len, q + len)
  BY <1>1, <1>l, HeadAppears
<1>3. /\ IsLast(e, s.path, n)
      /\ \A b : IsLast(e, s.path, b) => b = n
      /\ \A p, b : p # s.path => (IsLast(e, p, b) <=> IsLast(d, p, b))
      /\ Held(e, s.path) = s.value
      /\ \A p : p # s.path => Held(e, p) = Held(d, p)
  BY <1>1, <1>2, HeadIsLast
<1> DEFINE index == Upsert(m.dirindex, s.path, n)
<1>4. /\ index \in [Names -> Nat]
      /\ \A p \in Names : p # s.path => index[p] = m.dirindex[p]
      /\ index[s.path] = n \/ (index[s.path] = 0 /\ ~RoomForNames)
  <2> DEFINE old == m.dirindex
  <2>1. old \in [Names -> Nat] /\ s.path \in Names /\ n \in Nat
    BY <1>1, <1>i, StageFacts
  <2> HIDE DEF old
  <2>2. /\ Upsert(old, s.path, n) \in [Names -> Nat]
        /\ \A p \in Names : p # s.path => Upsert(old, s.path, n)[p] = old[p]
        /\ \/ Upsert(old, s.path, n)[s.path] = n
           \/ Upsert(old, s.path, n)[s.path] = 0 /\ ~RoomForNames
    BY <2>1, UpsertOf
  <2> QED BY <2>2 DEF old
<1> HIDE DEF index
<1>5. IndexRight(e, index)
  <2> SUFFICES ASSUME NEW p \in Path PROVE index[p] = 0 \/ IsLast(e, p, index[p])
    BY DEF IndexRight
  <2>1. CASE p = s.path
    BY <2>1, <1>3, <1>4
  <2>2. CASE p # s.path
    <3>1. index[p] = m.dirindex[p]
      BY <2>2, <1>4, ConstantFacts
    <3> QED BY <3>1, <2>2, <1>i, <1>3 DEF IndexRight
  <2> QED BY <2>1, <2>2
<1>f. IndexFull(e, index)
  <2> SUFFICES ASSUME RoomForNames, NEW p \in Path, NEW b \in Block, IsLast(e, p, b)
               PROVE  index[p] = b
    BY DEF IndexFull
  <2>1. CASE p = s.path
    BY <2>1, <1>3, <1>4
  <2>2. CASE p # s.path
    <3>1. index[p] = m.dirindex[p] /\ IsLast(d, p, b)
      BY <2>2, <1>3, <1>4, ConstantFacts
    <3> QED BY <3>1, <1>i DEF IndexFull
  <2> QED BY <2>1, <2>2
<1>6. Live(e, m.log_start, index)
  <2> SUFFICES ASSUME NEW p \in Path, NEW b \in Block, IsLast(e, p, b)
               PROVE  m.log_start <= b \/ (~ReadsNeverFail /\ index[p] = b)
    BY DEF Live
  <2>1. CASE p = s.path
    <3>1. b = n
      BY <1>3, <2>1
    <3> QED BY <3>1, <1>i
  <2>2. CASE p # s.path
    <3>1. index[p] = m.dirindex[p] /\ IsLast(d, p, b)
      BY <2>2, <1>3, <1>4, ConstantFacts
    <3> QED BY <3>1, <1>i DEF Live
  <2> QED BY <2>1, <2>2
<1>7. m.log_start <= n + len /\ q + len \in Nat \ {0}
  BY <1>1, <1>i
<1>8. RamOK(e, After(m, s))
  BY <1>a, <1>2, <1>i, <1>4, <1>5, <1>f, <1>6, <1>7 DEF RamOK, index
<1> QED BY <1>2, <1>3, <1>8 DEF n, q

\* The mark of a rename changes no record either.
LEMMA MarkAppears ==
    ASSUME NEW d, NEW m, RamOK(d, m), m.next_block \in Block,
           NEW r \in Record, r.kind = "tx_begin", r.seq = m.next_seq,
           r.path = NoPath,
           NEW e, Written(d, e, m.next_block, r),
           NEW k, k.next_block = m.next_block + 1, k.next_seq = m.next_seq + 1,
           k.log_start = m.log_start, k.dirindex = m.dirindex
    PROVE  /\ RamOK(e, k)
           /\ Heads(e) = Heads(d)
           /\ Marks(e) = Marks(d) \cup {m.next_block}
           /\ \A b \in Block : b # m.next_block => e[b] = d[b]
           /\ e[m.next_block] = r
           /\ \A b \in Heads(d) \cup Marks(d) : e[b] = d[b]
<1> DEFINE n == m.next_block
           q == m.next_seq
<1>1. /\ DiskOK(d, n) /\ Unused(d, n, q) /\ n \in Nat \ {0} /\ q \in Nat \ {0}
      /\ d \in [Block -> Record] /\ n \in Block /\ n + 1 \in Nat \ {0}
      /\ \A b \in Block : b \in Nat
      /\ m.log_start \in Nat \ {0} /\ m.log_start <= n
  BY ConstantFacts DEF RamOK, DiskOK
<1>r. r.kind = "tx_begin" /\ r.seq = q /\ r.path = NoPath
  OBVIOUS
<1>k. /\ k.next_block = n + 1 /\ k.next_seq = q + 1
      /\ k.log_start = m.log_start /\ k.dirindex = m.dirindex
  OBVIOUS
<1>w. Written(d, e, n, r)
  OBVIOUS
<1> HIDE DEF n, q
<1>2. /\ e \in [Block -> Record]
      /\ e[n] = r
      /\ \A b \in Block : b # n => e[b] = d[b]
  BY <1>1, <1>w DEF Written
<1>3. /\ \A b \in Heads(d) : b < n /\ b \in Block /\ Whole(d, b, n)
      /\ \A b \in Marks(d) : b < n /\ b \in Block
  BY <1>1 DEF DiskOK, Heads, Marks, Whole
<1>4. \A b \in Heads(d) \cup Marks(d) : e[b] = d[b]
  BY <1>1, <1>2, <1>3
<1>5. Heads(e) = Heads(d)
  <2>1. ASSUME NEW b \in Heads(e) PROVE b \in Heads(d)
    BY <1>2, <1>r, <2>1 DEF Heads
  <2>2. ASSUME NEW b \in Heads(d) PROVE b \in Heads(e)
    BY <1>3, <1>4 DEF Heads
  <2> QED BY <2>1, <2>2
<1>6. Marks(e) = Marks(d) \cup {n}
  <2>1. ASSUME NEW b \in Marks(e), b # n PROVE b \in Marks(d)
    BY <1>2, <2>1 DEF Marks
  <2>2. ASSUME NEW b \in Marks(d) PROVE b \in Marks(e)
    BY <1>3, <1>4 DEF Marks
  <2>3. n \in Marks(e)
    BY <1>1, <1>2, <1>r DEF Marks
  <2> QED BY <2>1, <2>2, <2>3
<1>7. ASSUME NEW b \in Heads(e) PROVE Whole(e, b, n + 1)
  <2>1. b \in Heads(d) /\ e[b] = d[b] /\ b \in Block /\ Whole(d, b, n)
    BY <1>3, <1>4, <1>5
  <2>2. ASSUME d[b].kind = "data"
        PROVE  /\ b + Blocks[d[b].value] <= n + 1
               /\ \A i \in 1 .. Blocks[d[b].value] - 1 :
                      b + i \in Block /\ e[b + i] = d[b + i]
    <3> DEFINE z == Blocks[d[b].value]
    <3>1. z \in Nat /\ b + z <= n
      BY <2>1, <2>2, LogAssumption DEF Whole
    <3>2. \A i \in 1 .. z - 1 : b + i \in Block
      BY <2>1, <2>2 DEF Whole
    <3> HIDE DEF z
    <3>3. b + z <= n + 1
      BY <3>1, <2>1, <1>1
    <3>4. \A i \in 1 .. z - 1 : b + i < n
      BY <3>1, <2>1, <1>1
    <3>5. \A i \in 1 .. z - 1 : e[b + i] = d[b + i]
      BY <3>2, <3>4, <1>1, <1>2
    <3> QED BY <3>2, <3>3, <3>5 DEF z
  <2>3. b < n + 1
    BY <2>1, <1>1 DEF Whole
  <2> QED BY <2>1, <2>2, <2>3 DEF Whole
<1>8. Dense(e, n + 1)
  <2> SUFFICES ASSUME NEW j \in Nat \ {0}, j + BadLimit <= n + 1
               PROVE  \E x \in j .. j + BadLimit - 1 :
                         x \in Block /\ e[x].kind # "none"
    BY DEF Dense
  <2>1. CASE j + BadLimit <= n
    <3>1. PICK x \in j .. j + BadLimit - 1 : x \in Block /\ d[x].kind # "none"
      BY <2>1, <1>1 DEF DiskOK, Dense
    <3>2. x # n
      BY <2>1, <1>1, ConstantFacts
    <3> QED BY <3>1, <3>2, <1>2
  <2>2. CASE j + BadLimit = n + 1
    <3>1. n \in j .. j + BadLimit - 1 /\ e[n].kind # "none"
      BY <2>2, <1>1, <1>2, <1>r, ConstantFacts
    <3> QED BY <3>1, <1>1
  <2> QED BY <2>1, <2>2, <1>1, ConstantFacts
<1>9. Ordered(e)
  <2> SUFFICES ASSUME NEW b \in Block, NEW c \in Heads(e) \cup Marks(e), b < c,
                      e[b].kind # "none"
               PROVE  e[b].seq < e[c].seq
    BY DEF Ordered
  <2>1. b \in Nat
    BY <1>1
  <2>2. CASE c = n
    <3>1. b < n /\ e[b] = d[b]
      BY <2>1, <2>2, <1>1, <1>2
    <3>2. d[b].seq < q
      BY <3>1, <1>1 DEF Unused
    <3> QED BY <2>2, <3>1, <3>2, <1>2, <1>r
  <2>3. CASE c # n
    <3>1. c \in Heads(d) \cup Marks(d) /\ e[c] = d[c] /\ c < n /\ c \in Nat
      BY <1>1, <1>3, <1>4, <1>5, <1>6, <2>3
    <3>2. e[b] = d[b]
      BY <3>1, <2>1, <1>1, <1>2
    <3> QED BY <3>1, <3>2, <1>1 DEF DiskOK, Ordered
  <2> QED BY <2>2, <2>3
<1>10. /\ \A b \in Block : e[b].kind \in {"more", "tx_begin"} => e[b].path = NoPath
       /\ \A b \in Marks(e) : b < n + 1
  <2>1. ASSUME NEW b \in Block
        PROVE  e[b].kind \in {"more", "tx_begin"} => e[b].path = NoPath
    BY <1>1, <1>2, <1>r DEF DiskOK
  <2>2. ASSUME NEW b \in Marks(e) PROVE b < n + 1
    <3>1. b \in Nat /\ (b = n \/ b < n)
      BY <1>1, <1>3, <1>6
    <3> QED BY <3>1, <1>1
  <2> QED BY <2>1, <2>2
<1>11. DiskOK(e, n + 1)
  BY <1>1, <1>2, <1>7, <1>8, <1>9, <1>10 DEF DiskOK
<1>12. Unused(e, n + 1, q + 1)
  <2> SUFFICES ASSUME NEW b \in Block, b < n + 1, e[b].kind # "none"
               PROVE  e[b].seq < q + 1
    BY DEF Unused
  <2>1. CASE b = n
    BY <2>1, <1>1, <1>2, <1>r
  <2>2. CASE b # n
    <3>1. b < n /\ e[b] = d[b] /\ d[b].seq \in Nat
      BY <2>2, <1>1, <1>2 DEF Record
    <3>2. d[b].seq < q
      BY <3>1, <1>1 DEF Unused
    <3> QED BY <3>1, <3>2, <1>1
  <2> QED BY <2>1, <2>2
<1>13. \A p, b : IsLast(e, p, b) <=> IsLast(d, p, b)
  BY <1>4, <1>5, SameHeads
<1>14. /\ IndexRight(e, m.dirindex) /\ IndexFull(e, m.dirindex)
       /\ Live(e, m.log_start, m.dirindex) /\ m.dirindex \in [Names -> Nat]
  BY <1>13 DEF RamOK, IndexRight, IndexFull, Live
<1>15. q + 1 \in Nat \ {0} /\ m.log_start <= n + 1
  BY <1>1
<1>16. RamOK(e, k)
  BY <1>k, <1>1, <1>11, <1>12, <1>14, <1>15 DEF RamOK
<1> QED BY <1>2, <1>4, <1>5, <1>6, <1>16 DEF n

---------------------------------------------------------------------------
(* The inductive invariant                                                 *)

\* A compaction pass that has not failed has gone past no record that is the
\* last of its path, but for one that the index still names.
PassSafe(d, n, index, p) ==
    /\ p \in [resume : Nat, target : Nat, failed : BOOLEAN]
    /\ p.resume # 0 /\ ~p.failed =>
          p.resume < p.target /\ p.target <= n /\ Live(d, p.resume, index)

\* With renames, which then nothing disturbs, no block from n on holds anything.
Clear(n) ==
    Renames # {} => \A k \in Block : n <= k => disk[k].kind = "none"

\* Record s is being written, its last blocks first.
InHand(s) ==
    /\ GoodStage(s)
    /\ job.left \in 1 .. Length(s)
    /\ next_block + Length(s) - 1 <= DiskEnd
    /\ \A i \in 1 .. Length(s) - 1 :
          job.left <= i => disk[next_block + i] = Piece(s, next_seq, i)

\* The call that writes record s, and the rename of p, which holds v, to q.
CallOf(s) ==
    [op    |-> IF s.kind = "data" THEN "write" ELSE "delete",
     path  |-> s.path, to |-> s.path, value |-> s.value]

RenameOf(p, q, v) == [op |-> "rename", path |-> p, to |-> q, value |-> v]

\* What the call in progress was asked, or the record it carries forward.
AskedFor(s) ==
    \/ /\ job.request = Carry
       /\ IsLast(disk, s.path, compact.resume)
       /\ disk[compact.resume].value = s.value
    \/ job.request = CallOf(s)

Doing(r, stages) == job = [request |-> r, stages |-> stages, left |-> job.left]

\* A call that writes record s and nothing else.
Single(s) ==
    /\ InHand(s)
    /\ Doing(job.request, <<s>>)
    /\ AskedFor(s)
    /\ Settled(disk, next_block)
    /\ Clear(next_block + Length(s))

\* The stages of a rename: its mark, the copy and the tombstone.
MarkOf(v) == Stage("tx_begin", NoPath, v)
CopyOf(q, v) == Stage("data", q, v)
EndOf(p) == Stage("tombstone", p, Absent)

\* A rename before its mark is written.
Begins(p, q, v) ==
    /\ Doing(RenameOf(p, q, v), <<MarkOf(v), CopyOf(q, v), EndOf(p)>>)
    /\ job.left = 1
    /\ next_block + Blocks[v] + 1 <= DiskEnd
    /\ Settled(disk, next_block)
    /\ Clear(next_block)

\* The mark is at block t: the copy is being written.
Copies(p, q, v, t) ==
    /\ Doing(RenameOf(p, q, v), <<CopyOf(q, v), EndOf(p)>>)
    /\ InHand(CopyOf(q, v))
    /\ next_block = t + 1 /\ next_seq = disk[t].seq + 1
    /\ t + Blocks[v] + 1 <= DiskEnd
    /\ OpenAt(disk, t) /\ disk[t].part = Blocks[v] + 1
    /\ HeldMap(disk) = HeldMap(Cut(disk, t))
    /\ Clear(next_block + Blocks[v])

\* The copy is complete, and the tombstone to be written.
Ends(p, q, v, t) ==
    /\ Doing(RenameOf(p, q, v), <<EndOf(p)>>)
    /\ InHand(EndOf(p))
    /\ next_block = t + 1 + Blocks[v] /\ next_seq = disk[t].seq + 1 + Blocks[v]
    /\ OpenAt(disk, t) /\ disk[t].part = Blocks[v] + 1
    /\ \A i \in 0 .. Blocks[v] - 1 :
          disk[t + 1 + i] = Piece(CopyOf(q, v), disk[t].seq + 1, i)
    /\ HeldMap(disk) = [HeldMap(Cut(disk, t)) EXCEPT ![q] = v]
    /\ Clear(next_block)

Renaming(p, q, v) ==
    /\ Renames # {}
    /\ p # q
    /\ Begins(p, q, v) \/ \E t : Copies(p, q, v, t) \/ Ends(p, q, v, t)

JobOK ==
    \/ job = Idle /\ Settled(disk, next_block) /\ Clear(next_block)
    \/ \E s : Single(s)
    \/ \E p, q \in Path, v \in Value : Renaming(p, q, v)

LogInv ==
    /\ RamOK(disk, Ram)
    /\ PassSafe(disk, next_block, dirindex, compact)
    /\ JobOK
    /\ answer \in {"ok", "error", "lost"}

LEMMA SequenceFacts ==
    ASSUME NEW a, NEW b, NEW c
    PROVE  /\ Head(<<a>>) = a /\ Head(<<a, b>>) = a /\ Head(<<a, b, c>>) = a
           /\ Tail(<<a, b, c>>) = <<b, c>> /\ Tail(<<a, b>>) = <<b>>
           /\ Len(<<a>>) = 1 /\ Len(<<a, b>>) = 2 /\ Len(<<a, b, c>>) = 3
           /\ <<a, b, c>>[1] = a /\ <<a, b, c>>[2] = b /\ <<a, b, c>>[3] = c
OBVIOUS

\* RAM, variable by variable.
LEMMA RamFacts ==
    ASSUME RamOK(disk, Ram)
    PROVE  /\ DiskOK(disk, next_block)
           /\ disk \in [Block -> Record]
           /\ next_block \in Nat \ {0}
           /\ next_seq \in Nat \ {0}
           /\ log_start \in Nat \ {0} /\ log_start <= next_block
           /\ dirindex \in [Names -> Nat]
           /\ Unused(disk, next_block, next_seq)
           /\ IndexRight(disk, dirindex)
           /\ IndexFull(disk, dirindex)
           /\ Live(disk, log_start, dirindex)
BY DEF RamOK, Ram, DiskOK

\* Only the fields of the state in RAM count.
LEMMA RamFields ==
    ASSUME NEW d, NEW m, NEW k, RamOK(d, m),
           k.next_block = m.next_block, k.next_seq = m.next_seq,
           k.log_start = m.log_start, k.dirindex = m.dirindex
    PROVE  RamOK(d, k)
BY Zenon DEF RamOK

LEMMA RoomForOne ==
    ASSUME NEW s, HasRoom(<<s>>), GoodStage(s)
    PROVE  next_block + Length(s) - 1 <= DiskEnd
<1> DEFINE P(f) == f = [i \in 0 .. Len(<<s>>) |->
                          IF i = 0 THEN 0 ELSE f[i - 1] + Length(<<s>>[i])]
           h == CHOOSE f : P(f)
           w == [i \in 0 .. 1 |-> IF i = 0 THEN 0 ELSE Length(s)]
<1>1. next_block + h[Len(<<s>>)] - 1 <= DiskEnd
  BY DEF HasRoom
<1>2. Length(s) \in Nat /\ Len(<<s>>) = 1 /\ <<s>>[1] = s
  BY StageFacts
<1>3. P(w)
  <2>1. ASSUME NEW i \in 0 .. 1
        PROVE  w[i] = IF i = 0 THEN 0 ELSE w[i - 1] + Length(<<s>>[i])
    <3>1. CASE i = 0
      BY <3>1
    <3>2. CASE i = 1
      <4>1. w[0] = 0 /\ w[1] = Length(s) /\ i - 1 = 0
        BY <3>2
      <4> QED BY <4>1, <3>2, <1>2
    <3> QED BY <3>1, <3>2
  <2>2. w = [i \in 0 .. 1 |-> w[i]]
    OBVIOUS
  <2>3. w = [i \in 0 .. 1 |-> IF i = 0 THEN 0 ELSE w[i - 1] + Length(<<s>>[i])]
    <3> HIDE DEF w
    <3> QED BY <2>1, <2>2, Zenon
  <2> QED BY <2>3, <1>2
<1>4. P(h)
  <2> HIDE DEF P
  <2> QED BY <1>3
<1>5. h[1] = Length(s)
  <2> HIDE DEF h
  <2>1. /\ h[1] = h[0] + Length(<<s>>[1])
        /\ h[0] = 0
    BY <1>4, <1>2
  <2> QED BY <2>1, <1>2
<1> HIDE DEF h
<1> QED BY <1>1, <1>2, <1>5

\* The stages of a rename have the room they ask for.
LEMMA RenameStages ==
    ASSUME NEW p \in Path, NEW q \in Path, NEW v \in Value
    PROVE  /\ GoodStage(CopyOf(q, v)) /\ GoodStage(EndOf(p))
           /\ Length(MarkOf(v)) = 1 /\ Length(CopyOf(q, v)) = Blocks[v]
           /\ Length(EndOf(p)) = 1 /\ Blocks[v] \in Nat \ {0}
           /\ CopyOf(q, v).path = q /\ CopyOf(q, v).value = v
           /\ CopyOf(q, v).kind = "data"
           /\ EndOf(p).path = p /\ EndOf(p).value = Absent
           /\ EndOf(p).kind = "tombstone"
BY LogAssumption DEF GoodStage, MarkOf, CopyOf, EndOf, Stage, Length

LEMMA RoomForRename ==
    ASSUME next_block \in Nat, NEW p \in Path, NEW q \in Path, NEW v \in Value,
           HasRoom(<<MarkOf(v), CopyOf(q, v), EndOf(p)>>)
    PROVE  next_block + Blocks[v] + 1 <= DiskEnd
<1> DEFINE st == <<MarkOf(v), CopyOf(q, v), EndOf(p)>>
           P(f) == f = [i \in 0 .. Len(st) |->
                          IF i = 0 THEN 0 ELSE f[i - 1] + Length(st[i])]
           h == CHOOSE f : P(f)
           z == Blocks[v]
           w == [i \in 0 .. 3 |-> IF i = 0 THEN 0 ELSE
                                  IF i = 1 THEN 1 ELSE
                                  IF i = 2 THEN 1 + z ELSE 1 + z + 1]
<1>1. next_block + h[Len(st)] - 1 <= DiskEnd
  BY DEF HasRoom
<1>2. /\ Length(st[1]) = 1 /\ Length(st[2]) = z /\ Length(st[3]) = 1
      /\ Len(st) = 3 /\ z \in Nat
  BY RenameStages, SequenceFacts
<1> HIDE DEF st, z
<1>3. P(w)
  <2>1. ASSUME NEW i \in 0 .. 3
        PROVE  w[i] = IF i = 0 THEN 0 ELSE w[i - 1] + Length(st[i])
    <3>0. w[0] = 0 /\ w[1] = 1 /\ w[2] = 1 + z /\ w[3] = 1 + z + 1
      OBVIOUS
    <3> HIDE DEF w
    <3>1. CASE i = 0
      BY <3>0, <3>1
    <3>2. CASE i = 1
      BY <3>0, <3>2, <1>2
    <3>3. CASE i = 2
      BY <3>0, <3>3, <1>2
    <3>4. CASE i = 3
      BY <3>0, <3>4, <1>2
    <3> QED BY <3>1, <3>2, <3>3, <3>4
  <2>2. w = [i \in 0 .. 3 |-> w[i]]
    OBVIOUS
  <2>3. w = [i \in 0 .. 3 |-> IF i = 0 THEN 0 ELSE w[i - 1] + Length(st[i])]
    <3> HIDE DEF w
    <3> QED BY <2>1, <2>2, Zenon
  <2> HIDE DEF w
  <2> QED BY <2>3, <1>2
<1>4. P(h)
  <2> HIDE DEF P
  <2> QED BY <1>3
<1>5. h[3] = z + 2
  <2> HIDE DEF h
  <2>1. /\ h[3] = h[2] + Length(st[3])
        /\ h[2] = h[1] + Length(st[2])
        /\ h[1] = h[0] + Length(st[1])
        /\ h[0] = 0
    BY <1>4, <1>2
  <2> QED BY <2>1, <1>2
<1> HIDE DEF h
<1>6. next_block + z + 1 <= DiskEnd
  BY <1>1, <1>2, <1>5, ConstantFacts
<1> QED BY <1>6 DEF z

\* The blocks of a record are the pieces of it.
LEMMA BlockIsPiece ==
    ASSUME NEW s, GoodStage(s), NEW i \in Nat, i < Length(s)
    PROVE  BlockOf(s, i) = Piece(s, next_seq, i)
<1>1. s.kind \in {"data", "tombstone"} /\ (s.kind = "tombstone" => Length(s) = 1)
  BY StageFacts
<1>2. s.kind = "data" \/ (s.kind = "tombstone" /\ i = 0 /\ s.value = Absent)
  BY <1>1 DEF GoodStage
<1>3. CASE s.kind = "data"
  BY <1>3 DEF BlockOf, Piece
<1>4. CASE s.kind = "tombstone" /\ i = 0 /\ s.value = Absent
  BY <1>4 DEF BlockOf, Piece
<1> QED BY <1>2, <1>3, <1>4

\* The record at b is the one its path is read from: the last of the path.
LEMMA LatestIff ==
    ASSUME RamOK(disk, Ram), NEW b
    PROVE  /\ IsLatest(b) => b \in Heads(disk) /\ disk[b].path \in Path
                             /\ IsLast(disk, disk[b].path, b)
           /\ (\E p \in Path : IsLast(disk, p, b)) => IsLatest(b)
<1>0. \A c \in Heads(disk) : disk[c].path \in Path
  BY RamFacts DEF DiskOK, Whole
<1>1. ASSUME IsLatest(b)
      PROVE  b \in Heads(disk) /\ disk[b].path \in Path
             /\ IsLast(disk, disk[b].path, b)
  <2>1. b \in Heads(disk) /\ Latest(disk, Ram, disk[b].path) = b
    BY <1>1 DEF IsLatest, Heads
  <2>2. disk[b].path \in Path
    BY <2>1, <1>0
  <2> QED BY <2>1, <2>2, LatestIsLast
<1>2. ASSUME NEW p \in Path, IsLast(disk, p, b) PROVE IsLatest(b)
  <2>1. b \in Heads(disk) /\ disk[b].path = p
    BY <1>2 DEF IsLast
  <2>2. IsLast(disk, p, Latest(disk, Ram, p))
    BY <2>1, LatestIsLast
  <2>3. Latest(disk, Ram, p) = b
    BY <1>2, <2>2, LastUnique
  <2> QED BY <2>1, <2>3 DEF IsLatest, Heads
<1> QED BY <1>1, <1>2

\* One block of a pass: if it says that the block holds no last record, the
\* pass, or the new start of the log, still loses none.
LEMMA PassGoesOn ==
    ASSUME NEW d, NEW n \in Nat, NEW index, NEW p, PassSafe(d, n, index, p),
           p.resume # 0,
           NEW start \in Nat \ {0}, start <= n, Live(d, start, index),
           NEW ok \in BOOLEAN,
           ok => \A q \in Path : IsLast(d, q, p.resume)
                                  => ~ReadsNeverFail /\ index[q] = p.resume,
           CompactReturn(start, p, ok)
    PROVE  /\ PassSafe(d, n, index, compact')
           /\ log_start' \in Nat \ {0} /\ log_start' <= n
           /\ Live(d, log_start', index)
<1> DEFINE failed == p.failed \/ ~ok
           ended == p.resume + 1 >= p.target
<1>1. /\ p \in [resume : Nat, target : Nat, failed : BOOLEAN]
      /\ p.resume \in Nat /\ p.target \in Nat /\ p.failed \in BOOLEAN
  BY DEF PassSafe
<1>2. /\ compact' = IF ended THEN NoPass
                    ELSE [p EXCEPT !.resume = p.resume + 1, !.failed = failed]
      /\ log_start' = IF ended /\ ~failed THEN p.target ELSE start
  BY DEF CompactReturn
<1>3. ASSUME ~failed
      PROVE  p.resume < p.target /\ p.target <= n /\ Live(d, p.resume + 1, index)
  <2>1. p.resume < p.target /\ p.target <= n /\ Live(d, p.resume, index) /\ ok
    BY <1>3, <1>1 DEF PassSafe
  <2>2. ASSUME NEW q \in Path, NEW b \in Block, IsLast(d, q, b)
        PROVE  p.resume + 1 <= b \/ (~ReadsNeverFail /\ index[q] = b)
    <3>1. /\ p.resume <= b \/ (~ReadsNeverFail /\ index[q] = b)
          /\ b = p.resume => ~ReadsNeverFail /\ index[q] = b
          /\ b \in Nat
      BY <2>1, <2>2, ConstantFacts DEF Live
    <3> QED BY <3>1, <1>1
  <2> QED BY <2>1, <2>2 DEF Live
<1>4. CASE ended
  <2>1. PassSafe(d, n, index, compact')
    BY <1>2, <1>4 DEF PassSafe, NoPass
  <2>2. CASE failed
    BY <1>2, <2>1, <2>2
  <2>3. CASE ~failed
    <3>1. log_start' = p.target
      BY <1>2, <1>4, <2>3
    <3>2. p.target = p.resume + 1 /\ p.target <= n
      BY <1>1, <1>3, <1>4, <2>3
    <3>3. Live(d, p.target, index)
      BY <1>3, <2>3, <3>2
    <3> QED BY <2>1, <3>1, <3>2, <3>3, <1>1
  <2> QED BY <2>2, <2>3
<1>5. CASE ~ended
  <2>1. log_start' = start
    BY <1>2, <1>5
  <2> DEFINE c == [p EXCEPT !.resume = p.resume + 1, !.failed = failed]
  <2>2. failed \in BOOLEAN /\ p.resume + 1 \in Nat
    BY <1>1
  <2>f. failed <=> p.failed \/ ~ok
    OBVIOUS
  <2> HIDE DEF failed
  <2>3. /\ c \in [resume : Nat, target : Nat, failed : BOOLEAN]
        /\ c.resume = p.resume + 1 /\ c.target = p.target /\ c.failed = failed
    BY <1>1, <2>2
  <2>4. compact' = c
    BY <1>2, <1>5
  <2> HIDE DEF c
  <2>5. ASSUME ~c.failed
        PROVE  c.resume < c.target /\ c.target <= n /\ Live(d, c.resume, index)
    <3>1. p.target <= n /\ Live(d, p.resume + 1, index)
      BY <1>3, <2>3, <2>5
    <3>2. p.resume + 1 < p.target
      BY <1>1, <1>5
    <3> QED BY <2>3, <3>1, <3>2
  <2> QED BY <2>1, <2>3, <2>4, <2>5 DEF PassSafe
<1> QED BY <1>4, <1>5

---------------------------------------------------------------------------
(* Every step keeps it                                                     *)

\* Complete renames stay complete when the log grows.
LEMMA SettledKept ==
    ASSUME NEW d, NEW n, DiskOK(d, n), Settled(d, n),
           NEW e, Marks(e) = Marks(d), Below(d, e, n), NEW l \in Nat, n <= l
    PROVE  Settled(e, l)
<1> SUFFICES ASSUME NEW b \in Marks(d) PROVE Covered(e, b, l)
  BY DEF Settled
<1>1. Covered(d, b, n) /\ n \in Nat
  BY DEF Settled, DiskOK
<1> QED BY <1>1, CoveredKept

\* A rename whose last block is not there is not complete.
LEMMA OpenFrom ==
    ASSUME NEW d, NEW t \in Marks(d), NEW z \in Nat, d[t].part = z + 1,
           t + (z + 1) \in Block => d[t + (z + 1)].kind = "none"
    PROVE  ~TxComplete(d, t)
<1>1. z + 1 \in 1 .. d[t].part
  OBVIOUS
<1> QED BY <1>1 DEF TxComplete

\* Writing behind the mark of a rename, but not its last block, leaves it open
\* and the log before it what it was.
LEMMA OpenKept ==
    ASSUME NEW d, NEW n, DiskOK(d, n), NEW t, OpenAt(d, t),
           NEW e, Marks(e) = Marks(d), Below(d, e, t + 1),
           NEW z \in Nat, d[t].part = z + 1,
           t + (z + 1) \in Block => e[t + (z + 1)].kind = "none"
    PROVE  /\ OpenAt(e, t) /\ e[t] = d[t]
           /\ Cut(e, t) = Cut(d, t)
<1>1. t \in Marks(d) /\ t \in Block /\ t \in Nat /\ t + 1 \in Nat /\ t < t + 1
  <2>1. t \in Marks(d) /\ t \in Block
    BY DEF OpenAt, Marks
  <2>2. t \in Nat
    BY <2>1, ConstantFacts
  <2> QED BY <2>1, <2>2
<1>2. e[t] = d[t] /\ Below(d, e, t)
  <2>1. ASSUME NEW b \in Block, b < t PROVE b < t + 1
    <3>1. b \in Nat
      BY ConstantFacts
    <3> QED BY <1>1, <2>1, <3>1
  <2> QED BY <1>1, <2>1 DEF Below
<1>3. ~TxComplete(e, t)
  BY <1>1, <1>2, OpenFrom
<1>4. ASSUME NEW b \in Marks(e), b # t PROVE b < t /\ Covered(e, b, t)
  <2>1. b \in Marks(d) /\ b < t /\ Covered(d, b, t)
    BY <1>4 DEF OpenAt
  <2>2. t <= t
    BY <1>1
  <2> QED BY <1>1, <1>2, <2>1, <2>2, CoveredKept
<1>5. Cut(e, t) = Cut(d, t)
  BY <1>2 DEF Cut, Below
<1> QED BY <1>1, <1>2, <1>3, <1>4, <1>5 DEF OpenAt

\* What the variable job says.
LEMMA DoingFacts ==
    ASSUME NEW r, NEW stages, Len(stages) # 0, Doing(r, stages)
    PROVE  /\ job.request = r /\ job.stages = stages /\ Now = Head(stages)
           /\ job # Idle
<1>1. job = [request |-> r, stages |-> stages, left |-> job.left]
  BY DEF Doing
<1>2. job.request = r /\ job.stages = stages
  BY <1>1
<1>3. job # Idle
  <2>1. Len(Idle.stages) = 0
    BY DEF Idle
  <2> QED BY <1>2, <2>1
<1> QED BY <1>2, <1>3 DEF Now

\* Without renames the call in progress writes one record.
LEMMA SingleOnly ==
    ASSUME LogInv, job # Idle, Renames = {}
    PROVE  \E s : Single(s)
BY DEF LogInv, JobOK, Renaming

\* What a restart would read.
LEMMA DurableSettled ==
    ASSUME ScanCoversLog, LogInv, Settled(disk, next_block)
    PROVE  Durable = HeldMap(disk)
BY RamFacts, RestartReadsHeld DEF LogInv, Durable

LEMMA DurableOpen ==
    ASSUME ScanCoversLog, LogInv, NEW t, OpenAt(disk, t)
    PROVE  Durable = HeldMap(Cut(disk, t))
BY RamFacts, RestartReadsCut DEF LogInv, Durable

\* What the steps without a write leave alone.
LEMMA DiskUntouched ==
    ASSUME LogInv, UNCHANGED <<disk, ramVars>>
    PROVE  /\ RamOK(disk', Ram') /\ Durable' = Durable /\ Ram' = Ram
           /\ \A n : Clear(n)' <=> Clear(n')
<1>1. Ram' = Ram /\ disk' = disk
  BY DEF ramVars, Ram
<1> QED BY <1>1 DEF LogInv, Durable, Clear

\* A rename in progress has something left to write.
LEMMA RenamingDoes ==
    ASSUME NEW p \in Path, NEW q \in Path, NEW v \in Value, Renaming(p, q, v)
    PROVE  job.request = RenameOf(p, q, v) /\ job # Idle
<1>1. CASE Begins(p, q, v)
  <2>1. Doing(RenameOf(p, q, v), <<MarkOf(v), CopyOf(q, v), EndOf(p)>>)
    BY <1>1 DEF Begins
  <2>2. Len(<<MarkOf(v), CopyOf(q, v), EndOf(p)>>) # 0
    BY SequenceFacts
  <2> QED BY <2>1, <2>2, DoingFacts
<1>2. CASE \E t : Copies(p, q, v, t)
  <2>1. Doing(RenameOf(p, q, v), <<CopyOf(q, v), EndOf(p)>>)
    BY <1>2 DEF Copies
  <2>2. Len(<<CopyOf(q, v), EndOf(p)>>) # 0
    BY SequenceFacts
  <2> QED BY <2>1, <2>2, DoingFacts
<1>3. CASE \E t : Ends(p, q, v, t)
  <2>1. Doing(RenameOf(p, q, v), <<EndOf(p)>>)
    BY <1>3 DEF Ends
  <2>2. Len(<<EndOf(p)>>) # 0
    BY SequenceFacts
  <2> QED BY <2>1, <2>2, DoingFacts
<1> QED BY <1>1, <1>2, <1>3 DEF Renaming

LEMMA SingleDoes ==
    ASSUME NEW s, Single(s)
    PROVE  job # Idle /\ job.stages = <<s>> /\ Now = s
<1>1. Doing(job.request, <<s>>) /\ Len(<<s>>) # 0 /\ Head(<<s>>) = s
  BY SequenceFacts DEF Single
<1> QED BY <1>1, DoingFacts

\* Between two calls every rename is complete.
LEMMA IdleFacts ==
    ASSUME LogInv, job = Idle
    PROVE  Settled(disk, next_block) /\ Clear(next_block)
BY RenamingDoes, SingleDoes DEF LogInv, JobOK

\* A call with one record to write.
LEMMA CallBegins ==
    ASSUME LogInv, job = Idle, NEW r, NEW s, GoodStage(s), HasRoom(<<s>>),
           job' = Busy(r, <<s>>),
           \/ /\ r = Carry
              /\ IsLast(disk, s.path, compact'.resume)
              /\ disk[compact'.resume].value = s.value
           \/ r = CallOf(s),
           UNCHANGED <<disk, ramVars>>
    PROVE  JobOK'
<1>1. /\ Length(s) \in Nat \ {0} /\ next_block + Length(s) - 1 <= DiskEnd
      /\ next_block \in Nat
  BY RoomForOne, StageFacts, RamFacts DEF LogInv
<1>2. job' = [request |-> r, stages |-> <<s>>, left |-> Length(s)]
  BY SequenceFacts DEF Busy
<1>3. job'.request = r /\ job'.left = Length(s)
  BY <1>2
<1>4. Doing(job.request, <<s>>)'
  BY <1>2, <1>3 DEF Doing
<1>5. disk' = disk /\ next_block' = next_block /\ next_seq' = next_seq
  BY DEF ramVars
<1>6. \A i \in 1 .. Length(s) - 1 : ~(job'.left <= i)
  BY <1>1, <1>3
<1>7. job'.left \in 1 .. Length(s)
  BY <1>1, <1>3
<1>8. AskedFor(s)'
  BY <1>3, <1>5 DEF AskedFor
<1>9. InHand(s)'
  BY <1>1, <1>5, <1>6, <1>7 DEF InHand
<1>10. Settled(disk, next_block) /\ Clear(next_block)
  BY IdleFacts
<1>11. (Settled(disk, next_block) /\ Clear(next_block + Length(s)))'
  <2>1. \A k \in Block : next_block + Length(s) <= k => next_block <= k
    BY <1>1, ConstantFacts
  <2> QED BY <2>1, <1>5, <1>10 DEF Clear
<1>12. Single(s)'
  BY <1>4, <1>8, <1>9, <1>11 DEF Single
<1> QED BY <1>12 DEF JobOK

LEMMA RequestInv ==
    ASSUME LogInv, Request
    PROVE  /\ LogInv'
           /\ Durable' = Durable
           /\ job = Idle
           /\ UNCHANGED answer
           /\ \/ \E s : GoodStage(s) /\ job'.request = CallOf(s)
              \/ \E p, q \in Path : \E v \in Value :
                    /\ p # q /\ v = Held(disk, p)
                    /\ job'.request = RenameOf(p, q, v)
<1>0. /\ RamOK(disk, Ram) /\ next_block \in Nat
  BY RamFacts DEF LogInv
<1>1. ASSUME NEW s, NEW r, GoodStage(s), r = CallOf(s), Call(r, <<s>>)
      PROVE  /\ LogInv' /\ Durable' = Durable /\ job = Idle /\ UNCHANGED answer
             /\ job'.request = CallOf(s)
  <2>1. /\ job = Idle /\ HasRoom(<<s>>) /\ job' = Busy(r, <<s>>)
        /\ UNCHANGED <<disk, ramVars, compact, answer>>
    BY <1>1 DEF Call
  <2>2. RamOK(disk', Ram') /\ Durable' = Durable
    BY <2>1, DiskUntouched
  <2>3. JobOK'
    BY <1>1, <2>1, CallBegins
  <2>4. job'.request = r
    BY <2>1 DEF Busy
  <2>5. PassSafe(disk', next_block', dirindex', compact') /\ answer' = answer
    BY <2>1 DEF ramVars, LogInv
  <2> QED BY <1>1, <2>1, <2>2, <2>3, <2>4, <2>5 DEF LogInv
<1>2. CASE \E p \in Path : DeleteFile(p)
  <2>1. PICK p \in Path : DeleteFile(p)
    BY <1>2
  <2> DEFINE s == Stage("tombstone", p, Absent)
  <2>2. GoodStage(s) /\ s.kind = "tombstone" /\ s.path = p /\ s.value = Absent
    BY DEF GoodStage, Stage
  <2>3. Call([op |-> "delete", path |-> p, to |-> p, value |-> Absent], <<s>>)
    BY <2>1 DEF DeleteFile
  <2> HIDE DEF s
  <2>4. CallOf(s) = [op |-> "delete", path |-> p, to |-> p, value |-> Absent]
    BY <2>2 DEF CallOf
  <2> QED BY <2>2, <2>3, <2>4, <1>1
<1>3. CASE \E p \in Path, v \in Value : AppendFile(p, v)
  <2>1. PICK p \in Path, v \in Value : AppendFile(p, v)
    BY <1>3
  <2> DEFINE s == Stage("data", p, v)
  <2>2. GoodStage(s) /\ s.kind = "data" /\ s.path = p /\ s.value = v
    BY DEF GoodStage, Stage
  <2>3. Call([op |-> "write", path |-> p, to |-> p, value |-> v], <<s>>)
    BY <2>1 DEF AppendFile
  <2> HIDE DEF s
  <2>4. CallOf(s) = [op |-> "write", path |-> p, to |-> p, value |-> v]
    BY <2>2 DEF CallOf
  <2> QED BY <2>2, <2>3, <2>4, <1>1
<1>4. CASE \E pq \in Renames : RenameFile(pq[1], pq[2])
  <2>1. PICK pq \in Renames : RenameFile(pq[1], pq[2])
    BY <1>4
  <2> DEFINE p == pq[1]
             q == pq[2]
  <2>2. p \in Path /\ q \in Path /\ Renames # {}
    BY LogAssumption
  <2>v. PICK v : v = ReadFile(disk, Ram, p)
    OBVIOUS
  <2>3. p # q /\ v \in Value
    BY <2>1, <2>v DEF RenameFile
  <2>4. Call([op |-> "rename", path |-> p, to |-> q, value |-> v],
             <<Stage("tx_begin", NoPath, v), Stage("data", q, v),
               Stage("tombstone", p, Absent)>>)
    BY <2>1, <2>v DEF RenameFile
  <2>5. v = Held(disk, p)
    BY <1>0, <2>2, <2>v, ReadsHeld
  <2> HIDE DEF p, q
  <2>6. Call(RenameOf(p, q, v), <<MarkOf(v), CopyOf(q, v), EndOf(p)>>)
    BY <2>4 DEF RenameOf, MarkOf, CopyOf, EndOf
  <2> DEFINE stages == <<MarkOf(v), CopyOf(q, v), EndOf(p)>>
  <2>7. /\ job = Idle /\ HasRoom(stages) /\ job' = Busy(RenameOf(p, q, v), stages)
        /\ UNCHANGED <<disk, ramVars, compact, answer>>
    BY <2>6 DEF Call
  <2>8. RamOK(disk', Ram') /\ Durable' = Durable
    BY <2>7, DiskUntouched
  <2>9. job' = [request |-> RenameOf(p, q, v), stages |-> stages, left |-> 1]
    <3>1. Head(stages) = MarkOf(v) /\ Length(MarkOf(v)) = 1
      BY <2>2, <2>3, SequenceFacts, RenameStages
    <3> HIDE DEF stages
    <3> QED BY <2>7, <3>1 DEF Busy
  <2>10. next_block + Blocks[v] + 1 <= DiskEnd
    BY <1>0, <2>2, <2>3, <2>7, RoomForRename
  <2> HIDE DEF stages
  <2>11. /\ job'.request = RenameOf(p, q, v) /\ job'.left = 1
         /\ Doing(RenameOf(p, q, v), stages)'
    BY <2>9 DEF Doing
  <2>12. disk' = disk /\ next_block' = next_block
    BY <2>7 DEF ramVars
  <2>13. Settled(disk', next_block') /\ Clear(next_block)'
    BY <2>7, <2>12, IdleFacts DEF Clear
  <2>14. Begins(p, q, v)'
    BY <2>10, <2>11, <2>12, <2>13 DEF Begins, stages
  <2>15. JobOK'
    BY <2>2, <2>3, <2>14 DEF JobOK, Renaming
  <2>16. PassSafe(disk', next_block', dirindex', compact') /\ answer' = answer
    BY <2>7 DEF ramVars, LogInv
  <2>17. LogInv'
    BY <2>8, <2>15, <2>16 DEF LogInv
  <2> QED BY <2>2, <2>3, <2>5, <2>7, <2>8, <2>11, <2>17
<1> QED BY <1>2, <1>3, <1>4 DEF Request

\* The pass that goes on, or begins at the start of the log.
LEMMA PassOfCall ==
    ASSUME LogInv, CompactCalled
    PROVE  /\ PassSafe(disk, next_block, dirindex, ThisPass)
           /\ ThisPass.resume = PassBlock /\ PassBlock # 0
<1>1. /\ compact \in [resume : Nat, target : Nat, failed : BOOLEAN]
      /\ compact.resume \in Nat /\ compact.target \in Nat
      /\ compact.failed \in BOOLEAN
  BY DEF LogInv, PassSafe
<1>2. /\ log_start \in Nat \ {0} /\ next_block \in Nat \ {0}
      /\ Live(disk, log_start, dirindex)
  BY RamFacts DEF LogInv
<1>3. CASE compact.resume = 0
  <2>1. ThisPass = [resume |-> log_start, target |-> next_block, failed |-> FALSE]
    BY <1>3 DEF ThisPass, PassBlock, PassTarget, PassFailed
  <2>2. log_start < next_block
    BY <1>2, <1>3, LogAssumption DEF CompactCalled
  <2>3. next_block <= next_block
    BY <1>2
  <2> QED BY <1>2, <1>3, <2>1, <2>2, <2>3 DEF PassSafe, PassBlock
<1>4. CASE compact.resume # 0
  <2>1. /\ ThisPass.resume = compact.resume /\ ThisPass.target = compact.target
        /\ ThisPass.failed = compact.failed
        /\ ThisPass \in [resume : Nat, target : Nat, failed : BOOLEAN]
    BY <1>1, <1>4 DEF ThisPass, PassBlock, PassTarget, PassFailed
  <2> QED BY <1>4, <2>1 DEF PassSafe, PassBlock, LogInv
<1> QED BY <1>3, <1>4

\* A pass that goes on without a write.
LEMMA PassStep ==
    ASSUME LogInv, CompactCalled, NEW ok \in BOOLEAN,
           ok => \A q \in Path : IsLast(disk, q, PassBlock)
                                  => ~ReadsNeverFail /\ dirindex[q] = PassBlock,
           CompactReturn(log_start, ThisPass, ok),
           UNCHANGED <<disk, next_block, next_seq, dirindex, job, answer>>
    PROVE  LogInv' /\ Durable' = Durable
<1>1. /\ PassSafe(disk, next_block, dirindex, ThisPass)
      /\ ThisPass.resume = PassBlock /\ ThisPass.resume # 0
  BY PassOfCall
<1>2. /\ log_start \in Nat \ {0} /\ next_block \in Nat /\ log_start <= next_block
      /\ Live(disk, log_start, dirindex)
  BY RamFacts DEF LogInv
<1>3. ok => \A q \in Path : IsLast(disk, q, ThisPass.resume)
                          => ~ReadsNeverFail /\ dirindex[q] = ThisPass.resume
  BY <1>1
<1> DEFINE p == ThisPass
<1>4. /\ PassSafe(disk, next_block, dirindex, p) /\ p.resume # 0
      /\ ok => \A q \in Path : IsLast(disk, q, p.resume)
                             => ~ReadsNeverFail /\ dirindex[q] = p.resume
      /\ CompactReturn(log_start, p, ok)
  BY <1>1, <1>3
<1> HIDE DEF p
<1>5. /\ PassSafe(disk, next_block, dirindex, compact')
      /\ log_start' \in Nat \ {0} /\ log_start' <= next_block
      /\ Live(disk, log_start', dirindex)
  BY <1>2, <1>4, PassGoesOn
<1>6. RamOK(disk', Ram')
  BY <1>5 DEF LogInv, RamOK, Ram
<1>7. job = Idle /\ job' = Idle
  BY DEF CompactCalled
<1>8. JobOK'
  BY <1>7, IdleFacts DEF JobOK, Clear
<1>9. Durable' = Durable
  BY DEF Durable
<1> QED BY <1>5, <1>6, <1>8, <1>9 DEF LogInv

LEMMA CompactInv ==
    ASSUME NothingMissed, LogInv, Compact
    PROVE  /\ LogInv'
           /\ Durable' = Durable
           /\ UNCHANGED answer
           /\ job = Idle
           /\ job' = Idle \/ job'.request = Carry
<1>0. RamOK(disk, Ram)
  BY DEF LogInv
<1>1. CASE CompactSkip
  <2> DEFINE ok == ~IsLatest(PassBlock)
  <2>1. ok => \A q \in Path : IsLast(disk, q, PassBlock)
                           => ~ReadsNeverFail /\ dirindex[q] = PassBlock
    BY <1>0, LatestIff
  <2>2. /\ CompactCalled /\ CompactReturn(log_start, ThisPass, ok)
        /\ ok \in BOOLEAN
        /\ UNCHANGED <<disk, next_block, next_seq, dirindex, job, answer>>
    BY <1>1 DEF CompactSkip
  <2>3. job = Idle /\ job' = Idle /\ UNCHANGED answer
    BY <2>2 DEF CompactCalled
  <2> HIDE DEF ok
  <2> QED BY <2>1, <2>2, <2>3, PassStep
<1>2. CASE CompactCarry
  <2> DEFINE r == disk[PassBlock]
             s == Stage(r.kind, r.path, ReadFile(disk, Ram, r.path))
  <2>1. /\ CompactCalled /\ IsLatest(PassBlock) /\ HasRoom(<<s>>)
        /\ job' = Busy(Carry, <<s>>) /\ compact' = ThisPass
        /\ UNCHANGED <<disk, ramVars, answer>>
    BY <1>2 DEF CompactCarry
  <2>2. /\ PassBlock \in Heads(disk) /\ r.path \in Path
        /\ IsLast(disk, r.path, PassBlock)
    BY <1>0, <2>1, LatestIff
  <2>3. ReadFile(disk, Ram, r.path) = r.value
    BY <1>0, <2>2, ReadsHeld, HeldAtLast
  <2>4. s = [kind |-> r.kind, path |-> r.path, value |-> r.value]
    BY <2>3 DEF Stage
  <2>5. /\ r.kind \in {"data", "tombstone"}
        /\ r.kind = "data" => r.value \in Value
        /\ r.kind = "tombstone" => r.value = Absent
    BY <1>0, <2>2, RamFacts DEF DiskOK, Whole, Heads
  <2>6. GoodStage(s) /\ s.path = r.path /\ s.value = r.value
    BY <2>2, <2>4, <2>5 DEF GoodStage
  <2>7. /\ PassSafe(disk, next_block, dirindex, ThisPass)
        /\ ThisPass.resume = PassBlock
    BY <2>1, PassOfCall
  <2>8. /\ IsLast(disk, s.path, compact'.resume)
        /\ disk[compact'.resume].value = s.value
    BY <2>1, <2>2, <2>6, <2>7
  <2> HIDE DEF s
  <2>9. JobOK'
    BY <2>1, <2>6, <2>8, CallBegins DEF CompactCalled
  <2>10. RamOK(disk', Ram') /\ Durable' = Durable
    BY <2>1, DiskUntouched
  <2>11. PassSafe(disk', next_block', dirindex', compact')
    BY <2>1, <2>7 DEF ramVars
  <2>12. job = Idle /\ job'.request = Carry
    BY <2>1 DEF Busy, CompactCalled
  <2> QED BY <2>1, <2>9, <2>10, <2>11, <2>12 DEF LogInv
<1>3. CASE CompactUnreadable
  <2>1. /\ ~ReadsNeverFail /\ CompactCalled
        /\ CompactReturn(log_start, ThisPass, TRUE)
        /\ UNCHANGED <<disk, next_block, next_seq, dirindex, job, answer>>
    BY <1>3 DEF CompactUnreadable, ReadsNeverFail
  <2>2. ASSUME NEW q \in Path, IsLast(disk, q, PassBlock)
        PROVE  dirindex[q] = PassBlock
    <3>1. IndexFull(disk, dirindex) /\ RoomForNames
      BY <1>0, <2>1, RamFacts DEF NothingMissed
    <3>2. PassBlock \in Block
      BY <2>2 DEF IsLast, Heads
    <3> QED BY <2>2, <3>1, <3>2 DEF IndexFull
  <2>3. LogInv' /\ Durable' = Durable
    BY <2>1, <2>2, PassStep
  <2> QED BY <2>1, <2>3 DEF CompactCalled
<1> QED BY <1>1, <1>2, <1>3 DEF Compact

\* Where the record in hand is written, and what the next block of it is.
LEMMA NextPiece ==
    ASSUME LogInv, NEW s, InHand(s)
    PROVE  /\ Length(s) \in Nat \ {0}
           /\ job.left \in 1 .. Length(s)
           /\ WriteAt = job.left - 1
           /\ WriteAt \in 0 .. Length(s) - 1
           /\ next_block + WriteAt \in Block
           /\ next_block <= next_block + WriteAt
           /\ BlockOf(s, WriteAt) = Piece(s, next_seq, WriteAt)
<1>1. /\ GoodStage(s) /\ job.left \in 1 .. Length(s)
      /\ next_block + Length(s) - 1 <= DiskEnd
  BY DEF InHand
<1>2. Length(s) \in Nat \ {0} /\ next_block \in Nat \ {0} /\ DiskEnd \in Nat
  BY <1>1, StageFacts, RamFacts, ConstantFacts DEF LogInv
<1>5. WriteAt = job.left - 1 /\ WriteAt \in 0 .. Length(s) - 1
  BY <1>1, <1>2 DEF WriteAt
<1>6. /\ next_block + WriteAt \in Block
      /\ next_block <= next_block + WriteAt
      /\ WriteAt \in Nat /\ WriteAt < Length(s)
  BY <1>1, <1>2, <1>5 DEF Block
<1>7. BlockOf(s, WriteAt) = Piece(s, next_seq, WriteAt)
  BY <1>1, <1>6, BlockIsPiece
<1> QED BY <1>1, <1>2, <1>5, <1>6, <1>7

\* A block written above the log.
LEMMA AboveTheLog ==
    ASSUME RamOK(disk, Ram), NEW k \in Block, next_block <= k,
           NEW r, Headless(r), Written(disk, disk', k, r)
    PROVE  /\ RamOK(disk', Ram)
           /\ DiskOK(disk', next_block)
           /\ HeldMap(disk') = HeldMap(disk)
           /\ \A p, b : IsLast(disk', p, b) <=> IsLast(disk, p, b)
           /\ \A b \in Heads(disk) : disk'[b] = disk[b]
           /\ Marks(disk') = Marks(disk)
           /\ Below(disk, disk', next_block)
           /\ \A b \in Block : b # k => disk'[b] = disk[b]
           /\ disk'[k] = r
<1>1. Ram.next_block = next_block
  BY DEF Ram
<1>2. RamOK(disk', Ram)
  BY <1>1, RamKept
<1>3. DiskOK(disk, next_block)
  BY RamFacts
<1>4. /\ DiskOK(disk', next_block)
      /\ Heads(disk') = Heads(disk) /\ Marks(disk') = Marks(disk)
      /\ \A b \in Block : b < next_block => disk'[b] = disk[b]
      /\ \A b \in Heads(disk) : disk'[b] = disk[b]
  BY <1>3, WriteAbove
<1>5. /\ \A p, b : IsLast(disk', p, b) <=> IsLast(disk, p, b)
      /\ \A p : Held(disk', p) = Held(disk, p)
  BY <1>4, SameHeads
<1>6. (\A b \in Block : b # k => disk'[b] = disk[b]) /\ disk'[k] = r
  BY RamFacts DEF Written
<1> QED BY <1>2, <1>4, <1>5, <1>6 DEF HeldMap, Below

\* A block of the record in hand that is not its head.
LEMMA ChunkWritten ==
    ASSUME LogInv, WriteChunk, NEW s, InHand(s), Now = s
    PROVE  /\ RamOK(disk', Ram') /\ DiskOK(disk', next_block')
           /\ UNCHANGED <<next_block, next_seq, compact, answer>>
           /\ PassSafe(disk', next_block', dirindex', compact')
           /\ HeldMap(disk') = HeldMap(disk)
           /\ \A p, b : IsLast(disk', p, b) <=> IsLast(disk, p, b)
           /\ \A b \in Heads(disk) : disk'[b] = disk[b]
           /\ Marks(disk') = Marks(disk)
           /\ Below(disk, disk', next_block)
           /\ \A k \in Block : next_block + Length(s) <= k => disk'[k] = disk[k]
           /\ job' = [job EXCEPT !.left = job.left - 1]
           /\ \A t : job.left - 1 = t => t \in 1 .. Length(s)
           /\ \A i \in 1 .. Length(s) - 1 :
                job.left - 1 <= i => disk'[next_block + i] = Piece(s, next_seq, i)
<1>0. WriteAt > 0 /\ UNCHANGED <<ramVars, compact, answer>>
  BY DEF WriteChunk
<1>2. /\ Length(s) \in Nat \ {0} /\ job.left \in 1 .. Length(s)
      /\ WriteAt \in 0 .. Length(s) - 1 /\ next_block + WriteAt \in Block
      /\ next_block <= next_block + WriteAt /\ WriteAt = job.left - 1
      /\ BlockOf(s, WriteAt) = Piece(s, next_seq, WriteAt)
  BY NextPiece
<1>3. /\ RamOK(disk, Ram) /\ next_block \in Nat \ {0} /\ next_seq \in Nat \ {0}
      /\ disk \in [Block -> Record]
  BY RamFacts DEF LogInv
<1>4. GoodStage(s) /\ next_block + Length(s) - 1 <= DiskEnd
  BY DEF InHand
<1>o. \A i \in 1 .. Length(s) - 1 :
          job.left <= i => disk[next_block + i] = Piece(s, next_seq, i)
  BY DEF InHand
<1>j. job' = [job EXCEPT !.left = job.left - 1]
  BY DEF WriteChunk
<1>d. Written(disk, disk', next_block + WriteAt, Piece(s, next_seq, WriteAt))
  BY <1>2 DEF WriteChunk, Written
<1> DEFINE w == WriteAt
           k == next_block + w
           r == Piece(s, next_seq, w)
<1>w. w = job.left - 1 /\ w \in 1 .. Length(s) - 1
  BY <1>0, <1>2
<1>k. k \in Block /\ next_block <= k
  BY <1>2
<1>5. Written(disk, disk', k, r)
  BY <1>d
<1>6. Headless(r)
  <2>1. w > 0 /\ next_seq + w \in Nat /\ w \in Nat
    BY <1>2, <1>3, <1>w
  <2>2. /\ s.value \in Value \cup {Absent}
        /\ NoPath \in Names
    BY <1>4, StageFacts, ConstantFacts
  <2> HIDE DEF w
  <2>3. r = [kind |-> "more", seq |-> next_seq + w, path |-> NoPath,
             value |-> s.value, part |-> w]
    BY <2>1 DEF Piece
  <2> HIDE DEF r
  <2> QED BY <2>1, <2>2, <2>3 DEF Headless, Record
<1> HIDE DEF w, r, k
<1>7. /\ RamOK(disk', Ram)
      /\ DiskOK(disk', next_block)
      /\ HeldMap(disk') = HeldMap(disk)
      /\ \A p, b : IsLast(disk', p, b) <=> IsLast(disk, p, b)
      /\ \A b \in Heads(disk) : disk'[b] = disk[b]
      /\ Marks(disk') = Marks(disk)
      /\ Below(disk, disk', next_block)
      /\ \A b \in Block : b # k => disk'[b] = disk[b]
      /\ disk'[k] = r
  BY <1>3, <1>5, <1>6, <1>k, AboveTheLog
<1>8. /\ Ram' = Ram /\ next_block' = next_block /\ next_seq' = next_seq
      /\ dirindex' = dirindex /\ compact' = compact /\ answer' = answer
  BY <1>0 DEF ramVars, Ram
<1>9. PassSafe(disk', next_block', dirindex', compact')
  BY <1>7, <1>8 DEF LogInv, PassSafe, Live
<1>13. ASSUME NEW i \in 1 .. Length(s) - 1, w <= i
       PROVE  disk'[next_block + i] = Piece(s, next_seq, i)
  <2>1. CASE i = w
    BY <1>7, <2>1 DEF k, r
  <2>2. CASE i # w
    <3>1. job.left <= i
      BY <1>13, <2>2, <1>w, <1>2
    <3>2. disk[next_block + i] = Piece(s, next_seq, i)
      BY <1>o, <3>1
    <3>3. next_block + i \in Block /\ next_block + i # k
      BY <1>4, <2>2, <1>2, <1>3, <1>w, ConstantFacts DEF Block, k
    <3> QED BY <3>2, <3>3, <1>7
  <2> QED BY <2>1, <2>2
<1>14. ASSUME NEW b \in Block, next_block + Length(s) <= b PROVE disk'[b] = disk[b]
  <2>1. b # k
    BY <1>14, <1>w, <1>2, <1>3, ConstantFacts DEF k
  <2> QED BY <2>1, <1>7
<1>15. w \in 1 .. Length(s)
  BY <1>w, <1>2
<1> QED BY <1>7, <1>8, <1>9, <1>j, <1>w, <1>13, <1>14, <1>15

\* The record goes on being in hand.
LEMMA StillInHand ==
    ASSUME LogInv, WriteChunk, NEW s, InHand(s), Now = s,
           NEW r, NEW stages, Doing(r, stages)
    PROVE  InHand(s)' /\ Doing(r, stages)'
<1>1. /\ next_block' = next_block /\ next_seq' = next_seq
      /\ job' = [job EXCEPT !.left = job.left - 1]
      /\ job.left - 1 \in 1 .. Length(s)
      /\ \A i \in 1 .. Length(s) - 1 :
            job.left - 1 <= i => disk'[next_block + i] = Piece(s, next_seq, i)
  BY ChunkWritten
<1>2. job = [request |-> r, stages |-> stages, left |-> job.left]
  BY DEF Doing
<1>3. job' = [request |-> r, stages |-> stages, left |-> job.left - 1]
  BY <1>1, <1>2
<1>4. job'.left = job.left - 1
  BY <1>3
<1> QED BY <1>1, <1>3, <1>4 DEF InHand, Doing

LEMMA WriteChunkInv ==
    ASSUME ScanCoversLog, LogInv, WriteChunk
    PROVE  /\ LogInv'
           /\ Durable' = Durable
           /\ UNCHANGED answer
           /\ job'.request = job.request
<1>0. job # Idle /\ WriteAt > 0
  BY DEF WriteChunk
<1>n. next_block \in Nat \ {0} /\ DiskOK(disk, next_block)
  BY RamFacts DEF LogInv
<1>1. ASSUME NEW s, Single(s)
      PROVE  /\ LogInv' /\ Durable' = Durable /\ UNCHANGED answer
             /\ job'.request = job.request
  <2>1. /\ InHand(s) /\ AskedFor(s) /\ Settled(disk, next_block)
        /\ Clear(next_block + Length(s)) /\ Now = s
    BY <1>1, SingleDoes DEF Single
  <2>2. PICK r : r = job.request
    OBVIOUS
  <2>3. Doing(r, <<s>>)
    BY <1>1, <2>2 DEF Single
  <2>4. /\ RamOK(disk', Ram') /\ next_block' = next_block
        /\ compact' = compact /\ answer' = answer
        /\ PassSafe(disk', next_block', dirindex', compact')
        /\ HeldMap(disk') = HeldMap(disk)
        /\ \A p, b : IsLast(disk', p, b) <=> IsLast(disk, p, b)
        /\ \A b \in Heads(disk) : disk'[b] = disk[b]
        /\ Marks(disk') = Marks(disk) /\ Below(disk, disk', next_block)
        /\ \A k \in Block : next_block + Length(s) <= k => disk'[k] = disk[k]
    BY <2>1, ChunkWritten
  <2>5. InHand(s)' /\ Doing(r, <<s>>)'
    BY <2>1, <2>3, StillInHand
  <2>6. job'.request = r
    BY <2>5 DEF Doing
  <2>7. AskedFor(s)'
    <3>1. \A b : IsLast(disk, s.path, b) => disk'[b] = disk[b]
      BY <2>4 DEF IsLast
    <3> QED BY <3>1, <2>1, <2>2, <2>4, <2>6 DEF AskedFor, CallOf
  <2>8. Settled(disk', next_block')
    <3>1. next_block <= next_block
      BY <1>n
    <3> QED BY <3>1, <1>n, <2>1, <2>4, SettledKept
  <2>9. Clear(next_block + Length(s))'
    BY <2>1, <2>4 DEF Clear
  <2>10. Single(s)'
    BY <2>5, <2>6, <2>7, <2>8, <2>9 DEF Single
  <2>11. LogInv'
    BY <2>4, <2>10 DEF LogInv, JobOK
  <2>12. Durable = HeldMap(disk)
    BY <2>1, DurableSettled
  <2>13. Durable' = HeldMap(disk')
    <3>1. DiskOK(disk', next_block')
      BY <2>1, ChunkWritten
    <3> QED BY <3>1, <2>8, RestartReadsHeld DEF Durable
  <2> QED BY <2>2, <2>4, <2>6, <2>11, <2>12, <2>13
<1>2. ASSUME NEW p \in Path, NEW q \in Path, NEW v \in Value, Renaming(p, q, v)
      PROVE  /\ LogInv' /\ Durable' = Durable /\ UNCHANGED answer
             /\ job'.request = job.request
  <2>1. ~Begins(p, q, v)
    BY <1>0 DEF Begins, WriteAt
  <2>2. ASSUME NEW t PROVE ~Ends(p, q, v, t)
    <3> SUFFICES ASSUME Ends(p, q, v, t) PROVE FALSE
      OBVIOUS
    <3>1. job.left \in 1 .. 1
      BY RenameStages DEF Ends, InHand
    <3> QED BY <3>1, <1>0 DEF WriteAt
  <2>3. PICK t : Copies(p, q, v, t)
    BY <1>2, <2>1, <2>2 DEF Renaming
  <2> DEFINE s == CopyOf(q, v)
             st == <<s, EndOf(p)>>
             z == Blocks[v]
             r == RenameOf(p, q, v)
  <2>4. /\ Doing(r, st) /\ InHand(s) /\ next_block = t + 1
        /\ next_seq = disk[t].seq + 1 /\ t + z + 1 <= DiskEnd
        /\ OpenAt(disk, t) /\ disk[t].part = z + 1
        /\ HeldMap(disk) = HeldMap(Cut(disk, t))
        /\ Clear(next_block + z)
    BY <2>3 DEF Copies
  <2>5. /\ Length(s) = z /\ z \in Nat \ {0}
        /\ Len(st) # 0 /\ Head(st) = s
    BY RenameStages, SequenceFacts
  <2>t. t \in Nat /\ t \in Marks(disk) /\ Renames # {} /\ p # q
    <3>1. t \in Block /\ t \in Marks(disk)
      BY <2>4 DEF OpenAt, Marks
    <3> QED BY <3>1, <1>2, ConstantFacts DEF Renaming
  <2> HIDE DEF s, st, z, r
  <2>6. Now = s /\ job.request = r
    BY <2>4, <2>5, DoingFacts
  <2>7. /\ RamOK(disk', Ram') /\ next_block' = next_block /\ next_seq' = next_seq
        /\ compact' = compact /\ answer' = answer /\ DiskOK(disk', next_block')
        /\ PassSafe(disk', next_block', dirindex', compact')
        /\ HeldMap(disk') = HeldMap(disk)
        /\ Marks(disk') = Marks(disk) /\ Below(disk, disk', next_block)
        /\ \A k \in Block : next_block + z <= k => disk'[k] = disk[k]
    BY <2>4, <2>5, <2>6, ChunkWritten
  <2>8. InHand(s)' /\ Doing(r, st)'
    BY <2>4, <2>6, StillInHand
  <2>9. Clear(next_block + z)'
    <3>1. (next_block + z)' = next_block + z
      BY <2>7 DEF z
    <3> QED BY <3>1, <2>4, <2>7 DEF Clear
  <2>10. t + (z + 1) \in Block => disk'[t + (z + 1)].kind = "none"
    <3>1. t + (z + 1) = next_block + z
      BY <2>4, <2>5, <2>t
    <3>2. next_block' + z <= t + (z + 1)
      BY <3>1, <2>7, <1>n, <2>5
    <3> QED BY <2>9, <3>2, <2>t DEF Clear, z
  <2>11. /\ OpenAt(disk', t) /\ disk'[t] = disk[t]
         /\ Cut(disk', t) = Cut(disk, t)
    BY <1>n, <2>4, <2>5, <2>7, <2>10, OpenKept
  <2>12. Copies(p, q, v, t)'
    BY <2>4, <2>7, <2>8, <2>9, <2>11 DEF Copies, s, st, z, r
  <2>13. LogInv'
    <3>1. JobOK'
      BY <2>12, <2>t DEF JobOK, Renaming
    <3> QED BY <3>1, <2>7 DEF LogInv
  <2>14. Durable = HeldMap(Cut(disk, t))
    BY <2>4, DurableOpen
  <2>15. Durable' = HeldMap(Cut(disk', t))
    BY <2>7, <2>11, RestartReadsCut DEF Durable
  <2>16. job'.request = r
    BY <2>8 DEF Doing, r
  <2> QED BY <2>6, <2>7, <2>11, <2>13, <2>14, <2>15, <2>16
<1> QED BY <1>0, <1>1, <1>2 DEF LogInv, JobOK

\* The last write of the record in hand.
LEMMA HeadWritten ==
    ASSUME LogInv, WriteHead, NEW s, InHand(s), Now = s
    PROVE  /\ s.path \in Path /\ Length(s) \in Nat \ {0}
           /\ next_block \in Block
           /\ next_block' = next_block + Length(s)
           /\ next_seq' = next_seq + Length(s)
           /\ DiskOK(disk', next_block')
           /\ PassSafe(disk', next_block', dirindex', compact)
           /\ log_start \in Nat \ {0} /\ log_start <= next_block'
           /\ Live(disk', log_start, dirindex')
           /\ log_start' \in Nat \ {0} /\ log_start' <= next_block'
              /\ Live(disk', log_start', dirindex') => RamOK(disk', Ram')
           /\ Marks(disk') = Marks(disk)
           /\ \A b \in Block : b # next_block => disk'[b] = disk[b]
           /\ \A i \in 0 .. Length(s) - 1 :
                 disk'[next_block + i] = Piece(s, next_seq, i)
           /\ \A b : IsLast(disk', s.path, b) => b = next_block
           /\ \A p, b : p # s.path => (IsLast(disk', p, b) <=> IsLast(disk, p, b))
           /\ Held(disk', s.path) = s.value
           /\ \A p : p # s.path => Held(disk', p) = Held(disk, p)
           /\ HeldMap(disk') = [HeldMap(disk) EXCEPT ![s.path] = s.value]
<1>0. WriteAt = 0
  BY DEF WriteHead
<1>2. /\ Length(s) \in Nat \ {0} /\ job.left \in 1 .. Length(s)
      /\ WriteAt = job.left - 1
      /\ BlockOf(s, 0) = Piece(s, next_seq, 0)
  BY <1>0, NextPiece
<1>3. /\ RamOK(disk, Ram) /\ DiskOK(disk, next_block)
      /\ next_block \in Nat \ {0} /\ disk \in [Block -> Record]
  BY RamFacts DEF LogInv
<1>4. /\ GoodStage(s) /\ s.path \in Path
      /\ next_block + Length(s) - 1 <= DiskEnd
  BY StageFacts DEF InHand
<1>5. \A i \in 1 .. Length(s) - 1 :
          disk[next_block + i] = Piece(s, next_seq, i)
  <2>1. job.left = 1
    BY <1>0, <1>2
  <2> QED BY <2>1 DEF InHand
<1>6. /\ Written(disk, disk', next_block, Piece(s, next_seq, 0))
      /\ next_block' = next_block + Length(s)
      /\ next_seq' = next_seq + Length(s)
      /\ dirindex' = Upsert(dirindex, s.path, next_block)
  <2>1. s.kind # "tx_begin"
    BY <1>4 DEF GoodStage
  <2>2. Written(disk, disk', next_block, Piece(s, next_seq, 0))
    BY <1>2 DEF WriteHead, Written
  <2>3. Indexed(s) = Upsert(dirindex, s.path, next_block)
    BY <2>1 DEF Indexed
  <2>4. /\ next_block' = next_block + Length(s)
        /\ next_seq' = next_seq + Length(s)
        /\ dirindex' = Indexed(s)
    BY <1>2 DEF WriteHead
  <2> QED BY <2>2, <2>3, <2>4
<1> DEFINE m == Ram
<1>7. /\ m.next_block = next_block /\ m.next_seq = next_seq
      /\ m.log_start = log_start /\ m.dirindex = dirindex
      /\ RamOK(disk, m)
  BY <1>3 DEF Ram
<1> HIDE DEF m
<1>8. /\ RamOK(disk', After(m, s))
      /\ next_block \in Block
      /\ Marks(disk') = Marks(disk)
      /\ \A b \in Block : b # next_block => disk'[b] = disk[b]
      /\ disk'[next_block] = Piece(s, next_seq, 0)
      /\ IsLast(disk', s.path, next_block)
      /\ \A b : IsLast(disk', s.path, b) => b = next_block
      /\ \A p, b : p # s.path => (IsLast(disk', p, b) <=> IsLast(disk, p, b))
      /\ Held(disk', s.path) = s.value
      /\ \A p : p # s.path => Held(disk', p) = Held(disk, p)
  <2>1. /\ m.next_block + Length(s) - 1 <= DiskEnd
        /\ \A i \in 1 .. Length(s) - 1 :
              disk[m.next_block + i] = Piece(s, m.next_seq, i)
        /\ Written(disk, disk', m.next_block, Piece(s, m.next_seq, 0))
    BY <1>4, <1>5, <1>6, <1>7
  <2>2. /\ RamOK(disk', After(m, s))
        /\ m.next_block \in Block
        /\ Marks(disk') = Marks(disk)
        /\ \A b \in Block : b # m.next_block => disk'[b] = disk[b]
        /\ disk'[m.next_block] = Piece(s, m.next_seq, 0)
        /\ IsLast(disk', s.path, m.next_block)
        /\ \A b : IsLast(disk', s.path, b) => b = m.next_block
        /\ \A p, b : p # s.path => (IsLast(disk', p, b) <=> IsLast(disk, p, b))
        /\ Held(disk', s.path) = s.value
        /\ \A p : p # s.path => Held(disk', p) = Held(disk, p)
    BY <1>4, <1>7, <2>1, RamFollows
  <2> QED BY <2>2, <1>7
<1> DEFINE n == next_block'
<1>9. /\ After(m, s).next_block = n /\ After(m, s).next_seq = next_seq'
      /\ After(m, s).log_start = log_start /\ After(m, s).dirindex = dirindex'
      /\ n \in Nat \ {0} /\ next_block <= n
  BY <1>2, <1>3, <1>6, <1>7 DEF After
<1> HIDE DEF n
<1>10. /\ DiskOK(disk', n) /\ next_seq' \in Nat \ {0}
       /\ log_start \in Nat \ {0} /\ log_start <= n
       /\ dirindex' \in [Names -> Nat]
       /\ Unused(disk', n, next_seq') /\ IndexRight(disk', dirindex')
       /\ IndexFull(disk', dirindex')
       /\ Live(disk', log_start, dirindex')
  BY <1>8, <1>9 DEF RamOK
<1>x. \A p \in Path : p # s.path => dirindex'[p] = dirindex[p]
  <2>1. dirindex \in [Names -> Nat] /\ s.path \in Names /\ next_block \in Nat
    BY <1>3, <1>4, RamFacts, ConstantFacts
  <2>2. \A p \in Names : p # s.path =>
            Upsert(dirindex, s.path, next_block)[p] = dirindex[p]
    BY <2>1, UpsertOf
  <2> QED BY <2>2, <1>6, ConstantFacts
<1>11. PassSafe(disk', n, dirindex', compact)
  <2>1. PassSafe(disk, next_block, dirindex, compact)
    BY DEF LogInv
  <2>2. /\ compact.resume \in Nat /\ compact.target \in Nat
        /\ compact \in [resume : Nat, target : Nat, failed : BOOLEAN]
    BY <2>1 DEF PassSafe
  <2> SUFFICES ASSUME compact.resume # 0, ~compact.failed
               PROVE  /\ compact.resume < compact.target
                      /\ compact.target <= n
                      /\ Live(disk', compact.resume, dirindex')
    BY <2>2 DEF PassSafe
  <2>3. /\ compact.resume < compact.target /\ compact.target <= next_block
        /\ Live(disk, compact.resume, dirindex)
    BY <2>1 DEF PassSafe
  <2>4. ASSUME NEW p \in Path, NEW b \in Block, IsLast(disk', p, b)
        PROVE  compact.resume <= b \/ (~ReadsNeverFail /\ dirindex'[p] = b)
    <3>1. CASE p = s.path
      <4>1. b = next_block
        BY <1>8, <2>4, <3>1
      <4> QED BY <4>1, <2>2, <2>3, <1>3
    <3>2. CASE p # s.path
      <4>1. IsLast(disk, p, b) /\ dirindex'[p] = dirindex[p]
        BY <1>8, <1>x, <2>4, <3>2
      <4> QED BY <4>1, <2>3 DEF Live
    <3> QED BY <3>1, <3>2
  <2>5. compact.target <= n
    BY <1>3, <1>9, <2>2, <2>3
  <2> QED BY <2>3, <2>4, <2>5 DEF Live
<1>12. ASSUME log_start' \in Nat \ {0}, log_start' <= n,
              Live(disk', log_start', dirindex')
       PROVE  RamOK(disk', Ram')
  <2>1. /\ Ram'.next_block = n /\ Ram'.next_seq = next_seq'
        /\ Ram'.log_start = log_start' /\ Ram'.dirindex = dirindex'
    BY DEF Ram, n
  <2> QED BY <1>10, <1>12, <2>1 DEF RamOK
<1>13. ASSUME NEW i \in 0 .. Length(s) - 1
       PROVE  disk'[next_block + i] = Piece(s, next_seq, i)
  <2>1. CASE i = 0
    <3>1. next_block + i = next_block
      BY <1>3, <2>1
    <3> QED BY <3>1, <2>1, <1>8
  <2>2. CASE i # 0
    <3>1. i \in 1 .. Length(s) - 1 /\ next_block + i # next_block
      BY <1>2, <1>3, <2>2
    <3>2. next_block + i \in Block
      BY <3>1, <1>2, <1>3, <1>4, ConstantFacts DEF Block
    <3> QED BY <3>1, <3>2, <1>5, <1>8
  <2> QED BY <2>1, <2>2
<1>14. HeldMap(disk') = [HeldMap(disk) EXCEPT ![s.path] = s.value]
  BY <1>4, <1>8 DEF HeldMap
<1> QED BY <1>2, <1>4, <1>6, <1>8, <1>10, <1>11, <1>12, <1>13, <1>14 DEF n

\* What a call that took effect leaves: its request done, and nothing else.
TookEffect ==
    /\ job.request \notin {NoRequest, Carry}
    /\ job' = Idle
    /\ answer' = "ok"
    /\ Durable' = [[Durable EXCEPT ![job.request.path] = Absent]
                      EXCEPT ![job.request.to] = job.request.value]

\* What a step inside a call, or of a record carried forward, leaves.
NotSeen ==
    /\ Durable' = Durable
    /\ UNCHANGED answer
    /\ \/ job'.request = job.request
       \/ job.request = Carry /\ job' = Idle

\* The record of a call with one record, or one carried forward.
LEMMA SingleHead ==
    ASSUME ScanCoversLog, LogInv, WriteHead, NEW s, Single(s)
    PROVE  LogInv' /\ (TookEffect \/ NotSeen)
<1>1. /\ InHand(s) /\ AskedFor(s) /\ Settled(disk, next_block)
      /\ Clear(next_block + Length(s)) /\ Now = s /\ Len(job.stages) = 1
  BY SingleDoes, SequenceFacts DEF Single
<1>2. /\ s.path \in Path /\ Length(s) \in Nat \ {0}
      /\ next_block \in Block
      /\ next_block' = next_block + Length(s)
      /\ DiskOK(disk', next_block')
      /\ PassSafe(disk', next_block', dirindex', compact)
      /\ log_start \in Nat \ {0} /\ log_start <= next_block'
      /\ Live(disk', log_start, dirindex')
      /\ log_start' \in Nat \ {0} /\ log_start' <= next_block'
         /\ Live(disk', log_start', dirindex') => RamOK(disk', Ram')
      /\ Marks(disk') = Marks(disk)
      /\ \A b \in Block : b # next_block => disk'[b] = disk[b]
      /\ \A b : IsLast(disk', s.path, b) => b = next_block
      /\ \A p, b : p # s.path => (IsLast(disk', p, b) <=> IsLast(disk, p, b))
      /\ HeldMap(disk') = [HeldMap(disk) EXCEPT ![s.path] = s.value]
  BY <1>1, HeadWritten
<1>3. /\ job' = Idle
      /\ IF job.request = Carry
         THEN CompactReturn(log_start, compact, TRUE) /\ UNCHANGED answer
         ELSE answer' = "ok" /\ UNCHANGED <<log_start, compact>>
  <2>1. ~(Len(job.stages) > 1)
    BY <1>1
  <2> QED BY <2>1 DEF WriteHead
<1>4. DiskOK(disk, next_block) /\ next_block \in Nat \ {0}
  BY RamFacts DEF LogInv
<1>5. Settled(disk', next_block') /\ Clear(next_block)'
  <2>1. Below(disk, disk', next_block)
    BY <1>2, <1>4, ConstantFacts DEF Below
  <2>2. next_block <= next_block' /\ next_block' \in Nat
    BY <1>2, <1>4
  <2>3. Settled(disk', next_block')
    BY <2>1, <2>2, <1>1, <1>2, <1>4, SettledKept
  <2>4. ASSUME NEW k \in Block, next_block' <= k, Renames # {}
        PROVE  disk'[k].kind = "none"
    <3>1. k # next_block /\ next_block + Length(s) <= k
      BY <2>4, <1>2, <1>4, ConstantFacts
    <3> QED BY <3>1, <2>4, <1>1, <1>2 DEF Clear
  <2> QED BY <2>3, <2>4 DEF Clear
<1>6. JobOK'
  BY <1>3, <1>5 DEF JobOK
<1>7. Durable = HeldMap(disk) /\ Durable' = HeldMap(disk')
  <2>1. Durable = HeldMap(disk)
    BY <1>1, DurableSettled
  <2> QED BY <2>1, <1>2, <1>5, RestartReadsHeld DEF Durable
<1>c. Carry # CallOf(s) /\ NoRequest # CallOf(s)
  <2>1. /\ CallOf(s).op = (IF s.kind = "data" THEN "write" ELSE "delete")
        /\ Carry.op = "carry" /\ NoRequest.op = "none"
    BY DEF CallOf, Carry, NoRequest
  <2>2. CallOf(s).op # "carry" /\ CallOf(s).op # "none"
    BY <2>1
  <2> QED BY <2>1, <2>2
<1>13. CASE job.request = Carry
  <2>1. /\ IsLast(disk, s.path, compact.resume)
        /\ disk[compact.resume].value = s.value
    BY <1>1, <1>13, <1>c DEF AskedFor
  <2>2. /\ compact.resume \in Heads(disk) /\ compact.resume \in Block
        /\ compact.resume \in Nat \ {0} /\ compact.resume < next_block
        /\ disk[compact.resume].path = s.path
    <3>1. compact.resume \in Heads(disk) /\ disk[compact.resume].path = s.path
      BY <2>1 DEF IsLast
    <3>2. compact.resume < next_block
      BY <1>4, <3>1 DEF DiskOK, Whole
    <3>3. compact.resume \in Block
      BY <3>1 DEF Heads
    <3>4. \A b \in Block : b \in Nat \ {0}
      BY ConstantFacts
    <3>5. compact.resume \in Nat \ {0}
      BY <3>3, <3>4
    <3> QED BY <3>1, <3>2, <3>3, <3>5, Zenon
  <2>3. \A q \in Path : ~IsLast(disk', q, compact.resume)
    <3> SUFFICES ASSUME NEW q \in Path, IsLast(disk', q, compact.resume)
                 PROVE  FALSE
      OBVIOUS
    <3>1. CASE q = s.path
      <4>1. compact.resume = next_block
        BY <1>2, <3>1
      <4> QED BY <4>1, <2>2, <1>4
    <3>2. CASE q # s.path
      <4>1. IsLast(disk, q, compact.resume)
        BY <1>2, <3>2
      <4> QED BY <4>1, <2>2, <3>2 DEF IsLast
    <3> QED BY <3>1, <3>2
  <2>4. /\ PassSafe(disk', next_block', dirindex', compact')
        /\ log_start' \in Nat \ {0} /\ log_start' <= next_block'
        /\ Live(disk', log_start', dirindex')
    <3>1. CompactReturn(log_start, compact, TRUE)
      BY <1>3, <1>13
    <3>2. compact.resume # 0 /\ next_block' \in Nat
      BY <1>2, <1>4, <2>2
    <3> QED BY <3>1, <3>2, <1>2, <2>3, PassGoesOn
  <2>5. HeldMap(disk') = HeldMap(disk)
    <3>1. Held(disk, s.path) = s.value
      BY <2>1, HeldAtLast
    <3> QED BY <3>1, <1>2 DEF HeldMap
  <2>6. RamOK(disk', Ram')
    BY <2>4, <1>2
  <2>7. answer' = answer
    BY <1>3, <1>13
  <2>8. LogInv'
    BY <2>4, <2>6, <2>7, <1>6 DEF LogInv
  <2> QED BY <2>5, <2>7, <2>8, <1>3, <1>7, <1>13 DEF NotSeen
<1>14. CASE job.request # Carry
  <2>1. answer' = "ok" /\ log_start' = log_start /\ compact' = compact
    BY <1>3, <1>14
  <2>2. job.request = CallOf(s)
    BY <1>1, <1>14 DEF AskedFor
  <2>3. RamOK(disk', Ram')
    BY <2>1, <1>2
  <2>4. PassSafe(disk', next_block', dirindex', compact')
    BY <2>1, <1>2
  <2>5. LogInv'
    BY <2>1, <2>3, <2>4, <1>6 DEF LogInv
  <2>6. /\ job.request.path = s.path /\ job.request.to = s.path
        /\ job.request.value = s.value
    BY <2>2 DEF CallOf
  <2>7. HeldMap(disk') = [[HeldMap(disk) EXCEPT ![s.path] = Absent]
                             EXCEPT ![s.path] = s.value]
    BY <1>2 DEF HeldMap
  <2> QED BY <2>1, <2>2, <2>5, <2>6, <2>7, <1>3, <1>7, <1>14, <1>c DEF TookEffect
<1> QED BY <1>13, <1>14

\* A stage of a rename that is not the last is complete.
LEMMA StageOver ==
    ASSUME WriteHead, NEW r, NEW stages, Doing(r, stages), Len(stages) > 1
    PROVE  /\ job' = [request |-> r, stages |-> Tail(stages),
                      left |-> Length(Head(Tail(stages)))]
           /\ UNCHANGED <<log_start, compact, answer>>
           /\ Doing(r, Tail(stages))' /\ job'.request = r
           /\ job'.left = Length(Head(Tail(stages)))
<1>1. job.stages = stages /\ job.request = r
  BY DEF Doing
<1>2. /\ job' = Busy(r, Tail(stages))
      /\ UNCHANGED <<log_start, compact, answer>>
  BY <1>1 DEF WriteHead
<1>3. job' = [request |-> r, stages |-> Tail(stages),
              left |-> Length(Head(Tail(stages)))]
  BY <1>2 DEF Busy
<1>4. job'.left = Length(Head(Tail(stages))) /\ job'.request = r
  BY <1>3
<1> QED BY <1>2, <1>3, <1>4 DEF Doing

\* The mark of a rename: a restart now finds the log as it was, too.
LEMMA BeginsHead ==
    ASSUME ScanCoversLog, LogInv, WriteHead,
           NEW p \in Path, NEW q \in Path, NEW v \in Value,
           Renaming(p, q, v), Begins(p, q, v)
    PROVE  LogInv' /\ NotSeen
<1> DEFINE r == RenameOf(p, q, v)
           s == CopyOf(q, v)
           mark == BlockOf(MarkOf(v), 0)
<1>z. PICK z \in Nat \ {0} : z = Blocks[v]
  BY RenameStages
<1>1. /\ Doing(r, <<MarkOf(v), s, EndOf(p)>>) /\ job.left = 1
      /\ next_block + z + 1 <= DiskEnd
      /\ Settled(disk, next_block) /\ Clear(next_block)
      /\ Renames # {} /\ p # q
  BY <1>z DEF Begins, Renaming
<1>2. /\ GoodStage(s) /\ Length(MarkOf(v)) = 1 /\ Length(s) = z
  BY <1>z, RenameStages
<1>t. PICK t : t = next_block
  OBVIOUS
<1>3. /\ RamOK(disk, Ram) /\ DiskOK(disk, t) /\ t \in Nat \ {0}
      /\ next_seq \in Nat \ {0} /\ disk \in [Block -> Record] /\ t \in Block
      /\ DiskEnd \in Nat
  <2>1. /\ RamOK(disk, Ram) /\ DiskOK(disk, t) /\ t \in Nat \ {0}
        /\ next_seq \in Nat \ {0} /\ disk \in [Block -> Record]
    BY <1>t, RamFacts DEF LogInv
  <2>2. t \in Block
    BY <2>1, <1>1, <1>t, ConstantFacts DEF Block
  <2> QED BY <2>1, <2>2, ConstantFacts
<1>4. /\ Now = MarkOf(v) /\ job.request = r
  <2>1. /\ Len(<<MarkOf(v), s, EndOf(p)>>) # 0
        /\ Head(<<MarkOf(v), s, EndOf(p)>>) = MarkOf(v)
    BY SequenceFacts
  <2> QED BY <1>1, <2>1, DoingFacts
<1>5. /\ mark.kind = "tx_begin" /\ mark.seq = next_seq /\ mark.path = NoPath
      /\ mark.part = z + 1 /\ mark \in Record
  <2>1. mark = [kind |-> "tx_begin", seq |-> next_seq + 0, path |-> NoPath,
                value |-> Absent, part |-> Blocks[v] + 1]
    BY DEF BlockOf, MarkOf, Stage
  <2> HIDE DEF mark
  <2>2. next_seq + 0 = next_seq /\ Blocks[v] + 1 = z + 1 /\ z + 1 \in Nat
    BY <1>3, <1>z
  <2> QED BY <2>1, <2>2, <1>3, ConstantFacts DEF Record
<1>6. /\ Written(disk, disk', next_block, mark)
      /\ next_block' = next_block + 1 /\ next_seq' = next_seq + 1
      /\ dirindex' = dirindex
  <2>1. MarkOf(v).kind = "tx_begin"
    BY DEF MarkOf, Stage
  <2> QED BY <2>1, <1>2, <1>4 DEF WriteHead, Written, Indexed
<1>7. /\ log_start' = log_start /\ compact' = compact /\ answer' = answer
      /\ Doing(r, <<s, EndOf(p)>>)' /\ job'.request = r /\ job'.left = z
  <2> DEFINE st == <<MarkOf(v), s, EndOf(p)>>
  <2>1. Len(st) > 1 /\ Tail(st) = <<s, EndOf(p)>> /\ Head(<<s, EndOf(p)>>) = s
    BY SequenceFacts
  <2>2. Doing(r, st)
    BY <1>1
  <2> HIDE DEF st
  <2>3. /\ UNCHANGED <<log_start, compact, answer>>
        /\ Doing(r, Tail(st))' /\ job'.request = r
        /\ job'.left = Length(Head(Tail(st)))
        /\ job' = [request |-> r, stages |-> Tail(st),
                   left |-> Length(Head(Tail(st)))]
    BY <2>1, <2>2, StageOver
  <2>4. job' = [request |-> r, stages |-> <<s, EndOf(p)>>, left |-> z]
    BY <2>1, <2>3, <1>2
  <2>5. job'.left = z
    BY <2>1, <2>3, <1>2
  <2>6. Doing(r, <<s, EndOf(p)>>)'
    BY <2>1, <2>3
  <2> QED BY <2>3, <2>5, <2>6
<1> HIDE DEF mark, r
<1>8. /\ RamOK(disk', Ram')
      /\ Heads(disk') = Heads(disk)
      /\ Marks(disk') = Marks(disk) \cup {t}
      /\ \A b \in Block : b # t => disk'[b] = disk[b]
      /\ disk'[t] = mark
      /\ \A b \in Heads(disk) \cup Marks(disk) : disk'[b] = disk[b]
  <2>1. /\ Ram.next_block = t /\ Ram.next_seq = next_seq
        /\ Ram'.next_block = Ram.next_block + 1
        /\ Ram'.next_seq = Ram.next_seq + 1
        /\ Ram'.log_start = Ram.log_start /\ Ram'.dirindex = Ram.dirindex
    BY <1>t, <1>6, <1>7 DEF Ram
  <2>2. PICK m, k : m = Ram /\ k = Ram'
    OBVIOUS
  <2>3. /\ RamOK(disk, m) /\ m.next_block = t /\ m.next_seq = next_seq
        /\ k.next_block = m.next_block + 1 /\ k.next_seq = m.next_seq + 1
        /\ k.log_start = m.log_start /\ k.dirindex = m.dirindex
        /\ Written(disk, disk', m.next_block, mark)
    BY <2>1, <2>2, <1>t, <1>3, <1>6
  <2>4. /\ RamOK(disk', k)
        /\ Heads(disk') = Heads(disk)
        /\ Marks(disk') = Marks(disk) \cup {m.next_block}
        /\ \A b \in Block : b # m.next_block => disk'[b] = disk[b]
        /\ disk'[m.next_block] = mark
        /\ \A b \in Heads(disk) \cup Marks(disk) : disk'[b] = disk[b]
    BY <2>3, <1>3, <1>5, MarkAppears
  <2> QED BY <2>2, <2>3, <2>4
<1>9. /\ \A b \in Heads(disk) \cup Marks(disk) : b < t
      /\ Below(disk, disk', t)
  BY <1>3, <1>8, ConstantFacts DEF DiskOK, Whole, Below
<1>10. Clear(t + 1)' /\ Clear(next_block + z)'
  <2>1. ASSUME NEW k \in Block, t + 1 <= k PROVE disk'[k].kind = "none"
    <3>1. k \in Nat /\ k # t /\ t <= k
      BY <1>3, <2>1, ConstantFacts
    <3> QED BY <3>1, <1>1, <1>8, <1>t DEF Clear
  <2>2. ASSUME NEW k \in Block, (next_block + z)' <= k PROVE t + 1 <= k
    <3>1. next_block' = t + 1 /\ k \in Nat
      BY <1>6, <1>t, ConstantFacts
    <3>2. t + 1 + z <= k
      BY <2>2, <3>1
    <3> QED BY <3>1, <3>2, <1>3, <1>z
  <2> QED BY <2>1, <2>2 DEF Clear
<1>11. OpenAt(disk', t) /\ disk'[t].part = z + 1
  <2>1. t \in Marks(disk') /\ disk'[t].part = z + 1
    BY <1>5, <1>8
  <2>2. t + (z + 1) \in Block => disk'[t + (z + 1)].kind = "none"
    <3>1. t + 1 <= t + (z + 1)
      BY <1>3, <1>z
    <3> QED BY <3>1, <1>1, <1>10 DEF Clear
  <2>3. ~TxComplete(disk', t)
    BY <2>1, <2>2, <1>z, OpenFrom
  <2>4. ASSUME NEW b \in Marks(disk'), b # t PROVE b < t /\ Covered(disk', b, t)
    <3>1. b \in Marks(disk) /\ b < t /\ t <= t
      BY <1>3, <1>8, <1>9, <2>4
    <3>2. Covered(disk, b, t)
      BY <3>1, <1>1, <1>t DEF Settled
    <3> QED BY <3>1, <3>2, <1>3, <1>9, CoveredKept
  <2> QED BY <2>1, <2>3, <2>4 DEF OpenAt
<1>12. HeldMap(disk') = HeldMap(Cut(disk', t)) /\ HeldMap(disk') = HeldMap(disk)
  <2> DEFINE g == Cut(disk', t)
  <2>1. Heads(g) = Heads(disk') /\ \A b \in Heads(disk') : g[b] = disk'[b]
    <3>1. /\ Heads(g) = {b \in Heads(disk') : b < t}
          /\ \A b \in Block : b < t => g[b] = disk'[b]
      BY CutFacts
    <3>2. \A b \in Heads(disk') : b < t /\ b \in Block
      BY <1>8, <1>9 DEF Heads
    <3> HIDE DEF g
    <3> QED BY <3>1, <3>2
  <2>2. \A x : Held(g, x) = Held(disk', x)
    BY <2>1, SameHeads
  <2>3. \A x : Held(disk', x) = Held(disk, x)
    BY <1>8, SameHeads
  <2> QED BY <2>2, <2>3 DEF HeldMap
<1>13. InHand(s)'
  <2>1. \A i \in 1 .. z - 1 : ~(job'.left <= i)
    BY <1>7, <1>z
  <2>2. job'.left \in 1 .. z
    BY <1>7, <1>z
  <2>3. next_block' + z - 1 <= DiskEnd
    BY <1>1, <1>3, <1>6, <1>t, <1>z
  <2> QED BY <2>1, <2>2, <2>3, <1>2 DEF InHand
<1>14. PassSafe(disk', next_block', dirindex', compact')
  <2>1. PassSafe(disk, next_block, dirindex, compact) /\ compact.target \in Nat
    BY DEF LogInv, PassSafe
  <2>2. \A x, b : IsLast(disk', x, b) <=> IsLast(disk, x, b)
    BY <1>8, SameHeads
  <2>3. compact.target <= next_block => compact.target <= next_block'
    BY <2>1, <1>3, <1>6, <1>t
  <2> QED BY <2>1, <2>2, <2>3, <1>6, <1>7 DEF PassSafe, Live
<1>15. Copies(p, q, v, t)'
  <2>1. /\ next_block' = t + 1 /\ next_seq' = disk'[t].seq + 1
        /\ t + z + 1 <= DiskEnd
    BY <1>1, <1>5, <1>6, <1>8, <1>t
  <2> QED BY <2>1, <1>z, <1>7, <1>10, <1>11, <1>12, <1>13 DEF Copies, r
<1>16. LogInv'
  <2>1. JobOK'
    BY <1>1, <1>15 DEF JobOK, Renaming
  <2> QED BY <2>1, <1>7, <1>8, <1>14 DEF LogInv
<1>17. Durable' = Durable
  <2>1. Durable = HeldMap(disk)
    BY <1>1, DurableSettled
  <2>2. DiskOK(disk', next_block')
    BY <1>16, RamFacts DEF LogInv, RamOK, Ram
  <2>3. Durable' = HeldMap(Cut(disk', t))
    BY <2>2, <1>11, RestartReadsCut DEF Durable
  <2> QED BY <2>1, <2>3, <1>12
<1> QED BY <1>4, <1>7, <1>16, <1>17 DEF NotSeen


\* The copy of a rename is complete: a restart still finds the log before it.
LEMMA CopiesHead ==
    ASSUME ScanCoversLog, LogInv, WriteHead,
           NEW p \in Path, NEW q \in Path, NEW v \in Value,
           Renaming(p, q, v), NEW t, Copies(p, q, v, t)
    PROVE  LogInv' /\ NotSeen
<1> DEFINE r == RenameOf(p, q, v)
           s == CopyOf(q, v)
<1>z. PICK z \in Nat \ {0} : z = Blocks[v]
  BY RenameStages
<1>1. /\ Doing(r, <<s, EndOf(p)>>) /\ InHand(s) /\ next_block = t + 1
      /\ next_seq = disk[t].seq + 1 /\ t + z + 1 <= DiskEnd
      /\ OpenAt(disk, t) /\ disk[t].part = z + 1
      /\ HeldMap(disk) = HeldMap(Cut(disk, t))
      /\ Clear(next_block + z) /\ Renames # {} /\ p # q
  BY <1>z DEF Copies, Renaming
<1>2. /\ GoodStage(s) /\ Length(s) = z /\ s.path = q /\ s.value = v
      /\ GoodStage(EndOf(p)) /\ Length(EndOf(p)) = 1
  BY <1>z, RenameStages
<1>3. /\ t \in Nat /\ t \in Block /\ t \in Marks(disk) /\ DiskEnd \in Nat
      /\ disk[t].seq \in Nat /\ DiskOK(disk, next_block)
      /\ next_block \in Nat \ {0}
  <2>1. t \in Block /\ t \in Marks(disk) /\ disk \in [Block -> Record]
    BY <1>1, RamFacts DEF OpenAt, Marks, LogInv
  <2>2. disk[t].seq \in Nat
    BY <2>1 DEF Record
  <2> QED BY <2>1, <2>2, ConstantFacts, RamFacts DEF LogInv
<1>4. /\ Now = s /\ job.request = r
      /\ Len(<<s, EndOf(p)>>) > 1 /\ Tail(<<s, EndOf(p)>>) = <<EndOf(p)>>
      /\ Head(<<EndOf(p)>>) = EndOf(p)
  <2>1. /\ Len(<<s, EndOf(p)>>) # 0 /\ Len(<<s, EndOf(p)>>) > 1
        /\ Head(<<s, EndOf(p)>>) = s
        /\ Tail(<<s, EndOf(p)>>) = <<EndOf(p)>>
        /\ Head(<<EndOf(p)>>) = EndOf(p)
    BY SequenceFacts
  <2> QED BY <1>1, <2>1, DoingFacts
<1>5. /\ log_start' = log_start /\ compact' = compact /\ answer' = answer
      /\ Doing(r, <<EndOf(p)>>)' /\ job'.request = r /\ job'.left = 1
  <2> DEFINE st == <<s, EndOf(p)>>
  <2>1. Doing(r, st) /\ Len(st) > 1 /\ Tail(st) = <<EndOf(p)>>
    BY <1>1, <1>4
  <2> HIDE DEF st, r
  <2>2. /\ UNCHANGED <<log_start, compact, answer>>
        /\ Doing(r, Tail(st))' /\ job'.request = r
        /\ job'.left = Length(Head(Tail(st)))
    BY <2>1, StageOver
  <2>3. Doing(r, <<EndOf(p)>>)'
    BY <2>1, <2>2
  <2>4. job'.left = 1
    BY <2>1, <2>2, <1>2, <1>4
  <2> QED BY <2>2, <2>3, <2>4
<1> HIDE DEF r, s
<1>6. /\ next_block' = next_block + z /\ next_seq' = next_seq + z
      /\ DiskOK(disk', next_block')
      /\ PassSafe(disk', next_block', dirindex', compact)
      /\ RamOK(disk', Ram')
      /\ Marks(disk') = Marks(disk)
      /\ \A b \in Block : b # next_block => disk'[b] = disk[b]
      /\ \A i \in 0 .. z - 1 : disk'[next_block + i] = Piece(s, next_seq, i)
      /\ HeldMap(disk') = [HeldMap(disk) EXCEPT ![q] = v]
  <2>1. /\ next_block' = next_block + z /\ next_seq' = next_seq + z
        /\ DiskOK(disk', next_block')
        /\ PassSafe(disk', next_block', dirindex', compact)
        /\ log_start \in Nat \ {0} /\ log_start <= next_block'
        /\ Live(disk', log_start, dirindex')
        /\ log_start' \in Nat \ {0} /\ log_start' <= next_block'
           /\ Live(disk', log_start', dirindex') => RamOK(disk', Ram')
        /\ Marks(disk') = Marks(disk)
        /\ \A b \in Block : b # next_block => disk'[b] = disk[b]
        /\ \A i \in 0 .. z - 1 : disk'[next_block + i] = Piece(s, next_seq, i)
        /\ HeldMap(disk') = [HeldMap(disk) EXCEPT ![q] = v]
    BY <1>1, <1>2, <1>4, HeadWritten
  <2> QED BY <2>1, <1>5
<1>7. Clear(next_block)'
  <2> SUFFICES ASSUME NEW k \in Block, next_block' <= k, Renames # {}
               PROVE  disk'[k].kind = "none"
    BY DEF Clear
  <2>1. next_block + z <= k /\ k # next_block
    BY <1>3, <1>6, <1>z, ConstantFacts
  <2> QED BY <2>1, <1>1, <1>6 DEF Clear
<1>8. /\ OpenAt(disk', t) /\ disk'[t] = disk[t]
      /\ Cut(disk', t) = Cut(disk, t)
  <2>1. Below(disk, disk', t + 1)
    BY <1>1, <1>3, <1>6, ConstantFacts DEF Below
  <2>2. t + (z + 1) \in Block => disk'[t + (z + 1)].kind = "none"
    <3>1. next_block' <= t + (z + 1)
      BY <1>1, <1>3, <1>6, <1>z
    <3> QED BY <3>1, <1>1, <1>7 DEF Clear
  <2> QED BY <2>1, <2>2, <1>1, <1>3, <1>6, <1>z, OpenKept
<1>9. InHand(EndOf(p))'
  <2>1. /\ GoodStage(EndOf(p)) /\ job'.left \in 1 .. Length(EndOf(p))
        /\ \A i \in 1 .. Length(EndOf(p)) - 1 : FALSE
    BY <1>2, <1>5
  <2>2. next_block' + Length(EndOf(p)) - 1 <= DiskEnd
    BY <1>1, <1>2, <1>3, <1>6, <1>z
  <2> QED BY <2>1, <2>2 DEF InHand
<1>10. Ends(p, q, v, t)'
  <2>1. /\ next_block' = t + 1 + z /\ next_seq' = disk'[t].seq + 1 + z
        /\ \A i \in 0 .. z - 1 :
              disk'[t + 1 + i] = Piece(s, disk'[t].seq + 1, i)
    BY <1>1, <1>6, <1>8
  <2>2. HeldMap(disk') = [HeldMap(Cut(disk', t)) EXCEPT ![q] = v]
    BY <1>1, <1>6, <1>8
  <2>3. disk'[t].part = z + 1
    BY <1>1, <1>8
  <2> QED BY <2>1, <2>2, <2>3, <1>z, <1>5, <1>7, <1>8, <1>9 DEF Ends, r, s
<1>11. LogInv'
  <2>1. JobOK'
    BY <1>1, <1>10 DEF JobOK, Renaming
  <2>2. answer' \in {"ok", "error", "lost"}
    BY <1>5 DEF LogInv
  <2> QED BY <2>1, <2>2, <1>5, <1>6 DEF LogInv
<1>12. Durable' = Durable
  <2>1. Durable = HeldMap(Cut(disk, t))
    BY <1>1, DurableOpen
  <2>2. Durable' = HeldMap(Cut(disk', t))
    BY <1>6, <1>8, RestartReadsCut DEF Durable
  <2> QED BY <2>1, <2>2, <1>8
<1> QED BY <1>4, <1>5, <1>11, <1>12 DEF NotSeen


\* The tombstone of a rename: a restart now finds all of it.
LEMMA EndsHead ==
    ASSUME ScanCoversLog, LogInv, WriteHead,
           NEW p \in Path, NEW q \in Path, NEW v \in Value,
           Renaming(p, q, v), NEW t, Ends(p, q, v, t)
    PROVE  LogInv' /\ TookEffect
<1> DEFINE r == RenameOf(p, q, v)
           s == EndOf(p)
           c == CopyOf(q, v)
<1>z. PICK z \in Nat \ {0} : z = Blocks[v]
  BY RenameStages
<1>1. /\ Doing(r, <<s>>) /\ InHand(s) /\ next_block = t + 1 + z
      /\ next_seq = disk[t].seq + 1 + z
      /\ OpenAt(disk, t) /\ disk[t].part = z + 1
      /\ \A i \in 0 .. z - 1 : disk[t + 1 + i] = Piece(c, disk[t].seq + 1, i)
      /\ HeldMap(disk) = [HeldMap(Cut(disk, t)) EXCEPT ![q] = v]
      /\ Clear(next_block) /\ Renames # {} /\ p # q
  BY <1>z DEF Ends, Renaming
<1>2. /\ GoodStage(s) /\ Length(s) = 1 /\ s.path = p /\ s.value = Absent
      /\ s.kind = "tombstone" /\ c.kind = "data"
  BY <1>z, RenameStages
<1>3. /\ t \in Nat /\ t \in Block /\ t \in Marks(disk) /\ DiskEnd \in Nat
      /\ disk[t].seq \in Nat /\ DiskOK(disk, next_block)
      /\ next_block \in Nat \ {0}
  <2>1. t \in Block /\ t \in Marks(disk) /\ disk \in [Block -> Record]
    BY <1>1, RamFacts DEF OpenAt, Marks, LogInv
  <2>2. disk[t].seq \in Nat
    BY <2>1 DEF Record
  <2> QED BY <2>1, <2>2, ConstantFacts, RamFacts DEF LogInv
<1>4. Now = s /\ job.request = r /\ Len(job.stages) = 1
  <2>1. Len(<<s>>) = 1 /\ Len(<<s>>) # 0 /\ Head(<<s>>) = s
    BY SequenceFacts
  <2> QED BY <1>1, <2>1, DoingFacts
<1>c. /\ r # Carry /\ r # NoRequest
      /\ r.path = p /\ r.to = q /\ r.value = v
  <2>1. r.op = "rename" /\ Carry.op = "carry" /\ NoRequest.op = "none"
    BY DEF RenameOf, Carry, NoRequest
  <2>2. r.op # "carry" /\ r.op # "none"
    BY <2>1
  <2> QED BY <2>1, <2>2 DEF RenameOf
<1>5. /\ job' = Idle /\ answer' = "ok"
      /\ log_start' = log_start /\ compact' = compact
  <2>1. ~(Len(job.stages) > 1) /\ job.request # Carry
    BY <1>4, <1>c
  <2> QED BY <2>1 DEF WriteHead
<1> HIDE DEF r, s, c
<1>6. /\ next_block' = next_block + 1 /\ next_block \in Block
      /\ DiskOK(disk', next_block')
      /\ PassSafe(disk', next_block', dirindex', compact')
      /\ RamOK(disk', Ram')
      /\ Marks(disk') = Marks(disk)
      /\ \A b \in Block : b # next_block => disk'[b] = disk[b]
      /\ disk'[next_block] = Piece(s, next_seq, 0)
      /\ HeldMap(disk') = [HeldMap(disk) EXCEPT ![p] = Absent]
  <2>1. /\ next_block' = next_block + 1 /\ next_block \in Block
        /\ DiskOK(disk', next_block')
        /\ PassSafe(disk', next_block', dirindex', compact)
        /\ log_start \in Nat \ {0} /\ log_start <= next_block'
        /\ Live(disk', log_start, dirindex')
        /\ log_start' \in Nat \ {0} /\ log_start' <= next_block'
           /\ Live(disk', log_start', dirindex') => RamOK(disk', Ram')
        /\ Marks(disk') = Marks(disk)
        /\ \A b \in Block : b # next_block => disk'[b] = disk[b]
        /\ \A i \in 0 .. 0 : disk'[next_block + i] = Piece(s, next_seq, i)
        /\ HeldMap(disk') = [HeldMap(disk) EXCEPT ![p] = Absent]
    BY <1>1, <1>2, <1>4, HeadWritten
  <2>2. 0 \in 0 .. 0 /\ next_block + 0 = next_block
    BY <1>3
  <2>3. disk'[next_block] = Piece(s, next_seq, 0)
    BY <2>1, <2>2
  <2> QED BY <2>1, <2>3, <1>5
<1>7. Clear(next_block)'
  <2> SUFFICES ASSUME NEW k \in Block, next_block' <= k, Renames # {}
               PROVE  disk'[k].kind = "none"
    BY DEF Clear
  <2>1. next_block <= k /\ k # next_block
    BY <1>3, <1>6, ConstantFacts
  <2> QED BY <2>1, <1>1, <1>6 DEF Clear
<1>8. Covered(disk', t, next_block')
  <2>1. disk'[t] = disk[t] /\ t + disk'[t].part < next_block'
    <3>1. t # next_block
      BY <1>1, <1>3, <1>z
    <3>2. disk'[t] = disk[t]
      BY <3>1, <1>3, <1>6
    <3> QED BY <3>2, <1>1, <1>3, <1>6, <1>z
  <2>2. ASSUME NEW j \in 1 .. z + 1
        PROVE  /\ t + j \in Block
               /\ disk'[t + j].kind \notin {"none", "tx_begin"}
               /\ disk'[t + j].seq <= disk[t].seq + (z + 1)
    <3>1. CASE j = z + 1
      <4>1. t + j = next_block
        BY <3>1, <1>1, <1>3, <1>z
      <4>2. disk'[t + j].kind = "tombstone" /\ disk'[t + j].seq = next_seq + 0
        BY <4>1, <1>2, <1>6 DEF Piece
      <4> QED BY <4>1, <4>2, <1>1, <1>3, <1>6, <1>z
    <3>2. CASE j # z + 1
      <4>1. PICK i \in 0 .. z - 1 : i = j - 1
        BY <3>2, <2>2, <1>z
      <4>2. /\ t + j = t + 1 + i /\ t + j < next_block
            /\ t + j \in Nat \ {0} /\ t + j # next_block
        BY <4>1, <1>1, <1>3, <1>z
      <4>3. t + j \in Block
        BY <4>2, <1>3, <1>6 DEF Block
      <4>4. disk'[t + j] = Piece(c, disk[t].seq + 1, i)
        BY <4>1, <4>2, <4>3, <1>1, <1>6
      <4>5. /\ disk'[t + j].kind \in {"data", "more"}
            /\ disk'[t + j].seq = disk[t].seq + 1 + i
        BY <4>4, <1>2 DEF Piece
      <4> QED BY <4>1, <4>3, <4>5, <1>3, <1>z
    <3> QED BY <3>1, <3>2
  <2> QED BY <2>1, <2>2, <1>1 DEF Covered
<1>9. Settled(disk', next_block')
  <2> SUFFICES ASSUME NEW b \in Marks(disk'), b # t
               PROVE  Covered(disk', b, next_block')
    BY <1>8 DEF Settled
  <2>1. b \in Marks(disk) /\ Covered(disk, b, t)
    BY <1>1, <1>6 DEF OpenAt
  <2>2. /\ Below(disk, disk', t)
        /\ t <= next_block' /\ next_block' \in Nat
    <3>1. t < next_block /\ t <= next_block' /\ next_block' \in Nat
      BY <1>1, <1>3, <1>6, <1>z
    <3> QED BY <3>1, <1>3, <1>6, ConstantFacts DEF Below
  <2> QED BY <2>1, <2>2, <1>3, CoveredKept
<1>10. LogInv'
  <2>1. JobOK'
    BY <1>5, <1>7, <1>9 DEF JobOK
  <2> QED BY <2>1, <1>5, <1>6 DEF LogInv
<1>11. Durable' = [[Durable EXCEPT ![p] = Absent] EXCEPT ![q] = v]
  <2> DEFINE h == HeldMap(Cut(disk, t))
  <2>1. Durable = h
    BY <1>1, DurableOpen
  <2>2. Durable' = HeldMap(disk')
    BY <1>6, <1>9, RestartReadsHeld DEF Durable
  <2>3. Durable' = [[h EXCEPT ![q] = v] EXCEPT ![p] = Absent]
    BY <2>2, <1>1, <1>6
  <2>4. DOMAIN h = Path /\ h = [x \in Path |-> h[x]]
    BY DEF HeldMap
  <2> HIDE DEF h
  <2>5. /\ [[h EXCEPT ![q] = v] EXCEPT ![p] = Absent]
             = [[h EXCEPT ![p] = Absent] EXCEPT ![q] = v]
    BY <2>4, <1>1
  <2> QED BY <2>1, <2>3, <2>5
<1> QED BY <1>4, <1>c, <1>5, <1>10, <1>11 DEF TookEffect

\* The last write of a stage.
LEMMA WriteHeadInv ==
    ASSUME ScanCoversLog, LogInv, WriteHead
    PROVE  LogInv' /\ (TookEffect \/ NotSeen)
<1>1. job # Idle
  BY DEF WriteHead
<1>2. CASE \E s : Single(s)
  BY <1>2, SingleHead
<1>3. ASSUME NEW p \in Path, NEW q \in Path, NEW v \in Value, Renaming(p, q, v)
      PROVE  LogInv' /\ (TookEffect \/ NotSeen)
  <2>1. CASE Begins(p, q, v)
    BY <1>3, <2>1, BeginsHead
  <2>2. CASE \E t : Copies(p, q, v, t)
    BY <1>3, <2>2, CopiesHead
  <2>3. CASE \E t : Ends(p, q, v, t)
    BY <1>3, <2>3, EndsHead
  <2> QED BY <1>3, <2>1, <2>2, <2>3 DEF Renaming
<1> QED BY <1>1, <1>2, <1>3 DEF LogInv, JobOK


\* What a write that does not succeed leaves.
LEMMA UnwrittenKeeps ==
    ASSUME LogInv, job # Idle, Renames = {},
           disk' \in Unwritten(next_block + WriteAt)
    PROVE  /\ RamOK(disk', Ram)
           /\ DiskOK(disk', next_block)
           /\ HeldMap(disk') = HeldMap(disk)
           /\ \A p, b : IsLast(disk', p, b) <=> IsLast(disk, p, b)
           /\ Settled(disk, next_block) /\ Settled(disk', next_block)
<1>1. RamOK(disk, Ram) /\ DiskOK(disk, next_block) /\ next_block \in Nat
  BY RamFacts DEF LogInv
<1>2. PICK s : InHand(s) /\ Settled(disk, next_block)
  BY SingleOnly DEF Single
<1> DEFINE k == next_block + WriteAt
<1>3. k \in Block /\ next_block <= k
  BY <1>2, NextPiece
<1>4. Headless(NoRecord)
  BY ConstantFacts DEF Headless, NoRecord, Record
<1>5. disk' = disk \/ Written(disk, disk', k, NoRecord)
  BY DEF Unwritten, Written
<1> HIDE DEF k
<1>6. CASE disk' = disk
  BY <1>1, <1>2, <1>6
<1>7. CASE Written(disk, disk', k, NoRecord)
  <2>1. /\ RamOK(disk', Ram) /\ DiskOK(disk', next_block)
        /\ HeldMap(disk') = HeldMap(disk)
        /\ \A p, b : IsLast(disk', p, b) <=> IsLast(disk, p, b)
        /\ Marks(disk') = Marks(disk) /\ Below(disk, disk', next_block)
    BY <1>1, <1>3, <1>4, <1>7, AboveTheLog
  <2>2. next_block <= next_block
    BY <1>1
  <2> QED BY <2>1, <2>2, <1>1, <1>2, SettledKept
<1> QED BY <1>5, <1>6, <1>7

LEMMA WriteErrorInv ==
    ASSUME RenamesUndisturbed, ScanCoversLog, LogInv, WriteError
    PROVE  /\ LogInv'
           /\ Durable' = Durable
           /\ job # Idle /\ job' = Idle
           /\ answer' = IF job.request = Carry THEN answer ELSE "error"
<1>0. /\ job # Idle /\ disk' \in Unwritten(next_block + WriteAt) /\ job' = Idle
      /\ UNCHANGED <<next_block, next_seq, dirindex>>
      /\ IF job.request = Carry
         THEN CompactReturn(log_start, compact, FALSE) /\ UNCHANGED answer
         ELSE answer' = "error" /\ UNCHANGED <<log_start, compact>>
      /\ Renames = {}
  BY DEF WriteError, RenamesUndisturbed
<1>1. /\ RamOK(disk', Ram) /\ DiskOK(disk', next_block)
      /\ HeldMap(disk') = HeldMap(disk)
      /\ \A p, b : IsLast(disk', p, b) <=> IsLast(disk, p, b)
      /\ Settled(disk, next_block) /\ Settled(disk', next_block)
  BY <1>0, UnwrittenKeeps
<1>2. PassSafe(disk', next_block, dirindex, compact)
  BY <1>1 DEF LogInv, PassSafe, Live
<1>3. /\ next_block \in Nat \ {0} /\ log_start \in Nat \ {0}
      /\ log_start <= next_block /\ Live(disk', log_start, dirindex)
  BY <1>1 DEF RamOK, Ram, DiskOK
<1>4. /\ PassSafe(disk', next_block, dirindex, compact')
      /\ log_start' \in Nat \ {0} /\ log_start' <= next_block
      /\ Live(disk', log_start', dirindex)
  <2>1. CASE job.request = Carry
    <3>1. PICK s : AskedFor(s)
      BY <1>0, SingleOnly DEF Single
    <3>2. IsLast(disk, s.path, compact.resume)
      <4>1. /\ Carry.op = "carry"
            /\ CallOf(s).op = IF s.kind = "data" THEN "write" ELSE "delete"
        BY DEF Carry, CallOf
      <4>2. Carry # CallOf(s)
        BY <4>1
      <4> QED BY <2>1, <3>1, <4>2 DEF AskedFor
    <3>3. compact.resume # 0
      BY <3>2, ConstantFacts DEF IsLast, Heads
    <3>4. CompactReturn(log_start, compact, FALSE)
      BY <1>0, <2>1
    <3> QED BY <3>3, <3>4, <1>2, <1>3, PassGoesOn
  <2>2. CASE job.request # Carry
    BY <2>2, <1>0, <1>2, <1>3
  <2> QED BY <2>1, <2>2
<1>5. RamOK(disk', Ram')
  <2>1. /\ Ram'.next_block = Ram.next_block /\ Ram'.next_seq = Ram.next_seq
        /\ Ram'.log_start = log_start' /\ Ram'.dirindex = Ram.dirindex
        /\ Ram.next_block = next_block /\ Ram.dirindex = dirindex
    BY <1>0 DEF Ram
  <2> QED BY <2>1, <1>1, <1>4 DEF RamOK
<1>6. answer' = IF job.request = Carry THEN answer ELSE "error"
  BY <1>0
<1>7. answer' \in {"ok", "error", "lost"}
  BY <1>6 DEF LogInv
<1>8. next_block' = next_block /\ dirindex' = dirindex
  BY <1>0
<1>9. JobOK'
  BY <1>0, <1>1, <1>8 DEF JobOK, Clear
<1>10. Durable' = Durable
  <2>1. Durable = HeldMap(disk)
    BY <1>1, DurableSettled
  <2>2. Durable' = HeldMap(disk')
    BY <1>1, RestartReadsHeld DEF Durable
  <2> QED BY <2>1, <2>2, <1>1
<1> QED BY <1>0, <1>4, <1>5, <1>6, <1>7, <1>8, <1>9, <1>10 DEF LogInv

LEMMA RestartInv ==
    ASSUME RenamesUndisturbed, ScanCoversLog, LogInv, Restart
    PROVE  /\ LogInv'
           /\ Durable' = Durable
           /\ job' = Idle
           /\ answer' = IF job.request \in {NoRequest, Carry} THEN answer
                        ELSE "lost"
<1>1. /\ DiskOK(disk', next_block) /\ HeldMap(disk') = HeldMap(disk)
      /\ Settled(disk, next_block) /\ Settled(disk', next_block)
      /\ Renames # {} => \A k \in Block : next_block <= k => disk'[k].kind = "none"
  <2>1. CASE job = Idle
    <3>1. disk' = disk
      BY <2>1 DEF Restart
    <3>2. DiskOK(disk, next_block)
      BY RamFacts DEF LogInv
    <3> QED BY <3>1, <3>2, <2>1, IdleFacts DEF Clear
  <2>2. CASE job # Idle
    <3>1. disk' \in Unwritten(next_block + WriteAt) /\ Renames = {}
      BY <2>2 DEF Restart, RenamesUndisturbed
    <3> QED BY <2>2, <3>1, UnwrittenKeeps
  <2> QED BY <2>1, <2>2
<1> DEFINE m == Recovered(disk')
<1>2. /\ RamOK(disk', m) /\ Settled(disk', m.next_block)
      /\ \A b \in Block : m.next_block <= b => next_block <= b
  BY <1>1, Recovers
<1>3. /\ SetRam(m) /\ compact' = NoPass /\ job' = Idle
      /\ answer' = IF job.request \in {NoRequest, Carry} THEN answer ELSE "lost"
  BY DEF Restart
<1> HIDE DEF m
<1>r. next_block' = m.next_block
  BY <1>3 DEF SetRam
<1>4. RamOK(disk', Ram')
  <2>1. /\ Ram'.next_block = m.next_block /\ Ram'.next_seq = m.next_seq
        /\ Ram'.log_start = m.log_start /\ Ram'.dirindex = m.dirindex
    BY <1>3 DEF SetRam, Ram
  <2> QED BY <1>2, <2>1 DEF RamOK
<1>5. PassSafe(disk', next_block', dirindex', compact')
  BY <1>3 DEF PassSafe, NoPass
<1>6. answer' \in {"ok", "error", "lost"}
  BY <1>3 DEF LogInv
<1>7. JobOK'
  BY <1>1, <1>2, <1>3, <1>r DEF JobOK, Clear
<1>8. Durable' = Durable
  <2>1. Durable = HeldMap(disk)
    BY <1>1, DurableSettled
  <2>2. Durable' = HeldMap(disk')
    BY <1>1, RestartReadsHeld DEF Durable
  <2> QED BY <2>1, <2>2, <1>1
<1> QED BY <1>3, <1>4, <1>5, <1>6, <1>7, <1>8 DEF LogInv

LEMMA InitInv ==
    ASSUME ScanCoversLog, Init
    PROVE  LogInv /\ \A p \in Path : Held(disk, p) = Absent
<1>1. disk = [b \in Block |-> NoRecord]
  BY DEF Init
<1>2. disk \in [Block -> Record] /\ \A b \in Block : disk[b].kind = "none"
  BY <1>1, ConstantFacts DEF NoRecord, Record
<1>3. Heads(disk) = {} /\ Marks(disk) = {}
  BY <1>2 DEF Heads, Marks
<1>4. DiskOK(disk, 1) /\ Settled(disk, 1)
  BY <1>2, <1>3, ConstantFacts DEF DiskOK, Dense, Ordered, Settled
<1>5. RamOK(disk, Recovered(disk))
  BY <1>4, Recovers
<1> DEFINE m == Recovered(disk)
<1>6. /\ Ram.next_block = m.next_block /\ Ram.next_seq = m.next_seq
      /\ Ram.log_start = m.log_start /\ Ram.dirindex = m.dirindex
      /\ RamOK(disk, m)
  BY <1>5 DEF Init, Ram
<1> HIDE DEF m
<1>7. RamOK(disk, Ram)
  BY <1>6 DEF RamOK
<1>8. PassSafe(disk, next_block, dirindex, compact)
  BY DEF Init, PassSafe, NoPass
<1>9. \A p \in Path : Held(disk, p) = Absent
  BY <1>3 DEF Held
<1>10. JobOK
  BY <1>2, <1>3 DEF JobOK, Settled, Clear, Init
<1> QED BY <1>7, <1>8, <1>9, <1>10 DEF LogInv, Init

\* Every step keeps the invariant.
LEMMA StepInv ==
    ASSUME RenamesUndisturbed, NothingMissed, ScanCoversLog, LogInv, [Next]_vars
    PROVE  LogInv'
<1>1. CASE Request
  BY <1>1, RequestInv
<1>2. CASE Compact
  BY <1>2, CompactInv
<1>3. CASE WriteChunk
  BY <1>3, WriteChunkInv
<1>4. CASE WriteHead
  BY <1>4, WriteHeadInv
<1>5. CASE WriteError
  BY <1>5, WriteErrorInv
<1>6. CASE Restart
  BY <1>6, RestartInv
<1>7. CASE UNCHANGED vars
  <2>1. RamOK(disk', Ram')
    BY <1>7, DiskUntouched DEF vars
  <2>2. JobOK'
    <3>1. /\ disk' = disk /\ next_block' = next_block /\ next_seq' = next_seq
          /\ compact' = compact /\ job' = job
      BY <1>7 DEF vars, ramVars
    <3>2. ASSUME NEW s, Single(s) PROVE Single(s)'
      BY <3>1, <3>2 DEF Single, InHand, Doing, AskedFor, Clear
    <3>3. ASSUME NEW p \in Path, NEW q \in Path, NEW v \in Value,
                 Renaming(p, q, v)
          PROVE  Renaming(p, q, v)'
      <4>1. Begins(p, q, v) => Begins(p, q, v)'
        BY <3>1 DEF Begins, Doing, Clear
      <4>2. ASSUME NEW t
            PROVE  /\ Copies(p, q, v, t) => Copies(p, q, v, t)'
                   /\ Ends(p, q, v, t) => Ends(p, q, v, t)'
        BY <3>1 DEF Copies, Ends, Doing, Clear, InHand
      <4> QED BY <3>3, <4>1, <4>2 DEF Renaming
    <3> QED BY <3>1, <3>2, <3>3 DEF LogInv, JobOK, Clear
  <2>3. PassSafe(disk', next_block', dirindex', compact')
    BY <1>7 DEF LogInv, vars, ramVars
  <2> QED BY <1>7, <2>1, <2>2, <2>3 DEF LogInv, vars
<1> QED BY <1>1, <1>2, <1>3, <1>4, <1>5, <1>6, <1>7 DEF Next


---------------------------------------------------------------------------
(* What the invariant says                                                 *)

\* Between two calls RAM reads what a restart would.
LEMMA ReadsAgree ==
    ASSUME ScanCoversLog, LogInv, job = Idle
    PROVE  /\ Durable = HeldMap(disk)
           /\ [p \in Path |-> ReadFile(disk, Ram, p)] = HeldMap(disk)
<1>1. RamOK(disk, Ram)
  BY DEF LogInv
<1>2. Durable = HeldMap(disk)
  BY IdleFacts, DurableSettled
<1> QED BY <1>1, <1>2, ReadsHeld DEF HeldMap

LEMMA LiveFollows ==
    ASSUME ReadsNeverFail, LogInv PROVE LiveAfterLogStart
<1> SUFFICES ASSUME NEW p \in Path, Latest(disk, Ram, p) # 0
             PROVE  Latest(disk, Ram, p) >= log_start
  BY DEF LiveAfterLogStart
<1> DEFINE l == Latest(disk, Ram, p)
<1>1. IsLast(disk, p, l)
  BY LatestIsLast DEF LogInv
<1>2. l \in Block /\ l \in Nat
  BY <1>1, ConstantFacts DEF IsLast, Heads
<1>3. log_start <= l /\ log_start \in Nat
  BY <1>1, <1>2, RamFacts DEF LogInv, Live
<1> HIDE DEF l
<1>4. l >= log_start
  BY <1>2, <1>3
<1> QED BY <1>4 DEF l

LEMMA OrderFollows ==
    ASSUME LogInv PROVE LogOrdered
<1>1. DiskOK(disk, next_block) /\ Unused(disk, next_block, next_seq)
      /\ next_block \in Nat
  BY RamFacts DEF LogInv
<1> SUFFICES ASSUME NEW b \in Block, NEW c \in Block, b < c, c < next_block,
                    disk[b].kind # "none", disk[c].kind # "none"
             PROVE  /\ disk[b].seq < next_seq
                    /\ disk[c].seq < next_seq
                    /\ disk[c].kind # "more" => disk[b].seq < disk[c].seq
  BY DEF LogOrdered
<1>2. b < next_block
  <2>1. b \in Nat /\ c \in Nat
    BY ConstantFacts
  <2> QED BY <2>1, <1>1
<1>3. disk[b].seq < next_seq /\ disk[c].seq < next_seq
  BY <1>1, <1>2 DEF Unused
<1>4. ASSUME disk[c].kind # "more" PROVE disk[b].seq < disk[c].seq
  <2>1. disk[c] \in Record
    BY <1>1 DEF DiskOK
  <2>2. c \in Heads(disk) \cup Marks(disk)
    BY <2>1, <1>4 DEF Heads, Marks, Record
  <2> QED BY <2>2, <1>1 DEF DiskOK, Ordered
<1> QED BY <1>3, <1>4

LEMMA TypesFollow ==
    ASSUME LogInv PROVE TypeOK
<1>1. /\ disk \in [Block -> Record] /\ next_block \in Nat \ {0}
      /\ next_seq \in Nat \ {0} /\ log_start \in Nat \ {0}
      /\ dirindex \in [Names -> Nat]
  BY RamFacts DEF LogInv
<1>2. compact \in [resume : Nat, target : Nat, failed : BOOLEAN]
  BY DEF LogInv, PassSafe
<1>3. job.left \in Nat
  <2>1. CASE job = Idle
    BY <2>1 DEF Idle
  <2>2. CASE \E s : InHand(s)
    <3>1. PICK s : job.left \in 1 .. Length(s) /\ GoodStage(s)
      BY <2>2 DEF InHand
    <3> QED BY <3>1, StageFacts
  <2>3. CASE \E p, q \in Path, v \in Value : Begins(p, q, v)
    BY <2>3 DEF Begins
  <2>4. ASSUME NEW p \in Path, NEW q \in Path, NEW v \in Value, Renaming(p, q, v)
        PROVE  Begins(p, q, v) \/ \E s : InHand(s)
    <3>1. ASSUME NEW t, Copies(p, q, v, t) \/ Ends(p, q, v, t)
          PROVE  \E s : InHand(s)
      BY <3>1 DEF Copies, Ends
    <3> QED BY <2>4, <3>1 DEF Renaming
  <2> QED BY <2>1, <2>2, <2>3, <2>4 DEF LogInv, JobOK, Single
<1> QED BY <1>1, <1>2, <1>3 DEF LogInv, TypeOK

\* The request the abstract store serves.
Serving == IF job.request = Carry THEN NoRequest ELSE job.request

\* The calls are not mistaken for the record that compaction carries forward.
LEMMA CallsAreRequests ==
    /\ NoRequest # Carry
    /\ \A s : CallOf(s) # Carry /\ CallOf(s) # NoRequest
    /\ \A p, q, v : RenameOf(p, q, v) # Carry /\ RenameOf(p, q, v) # NoRequest
<1>1. NoRequest.op = "none" /\ Carry.op = "carry"
  BY DEF NoRequest, Carry
<1>2. NoRequest # Carry
  BY <1>1
<1>3. ASSUME NEW s PROVE CallOf(s) # Carry /\ CallOf(s) # NoRequest
  <2>1. CallOf(s).op = IF s.kind = "data" THEN "write" ELSE "delete"
    BY DEF CallOf
  <2> QED BY <2>1, <1>1
<1>4. ASSUME NEW p, NEW q, NEW v
      PROVE  RenameOf(p, q, v) # Carry /\ RenameOf(p, q, v) # NoRequest
  <2>1. RenameOf(p, q, v).op = "rename"
    BY DEF RenameOf
  <2> QED BY <2>1, <1>1
<1> QED BY <1>2, <1>3, <1>4

\* A call in progress serves a request, or none: it carries a record forward.
LEMMA ServingFacts ==
    ASSUME LogInv
    PROVE  /\ job = Idle => job.request = NoRequest /\ Serving = NoRequest
           /\ job # Idle /\ job.request # Carry =>
                 Serving = job.request /\ job.request # NoRequest
           /\ job.request = Carry => Serving = NoRequest
<1>1. ASSUME job # Idle, job.request # Carry PROVE job.request # NoRequest
  <2>1. CASE \E s : Single(s)
    <3>1. PICK s : job.request = CallOf(s)
      BY <1>1, <2>1 DEF Single, AskedFor
    <3> QED BY <3>1, CallsAreRequests
  <2>2. CASE \E p, q \in Path, v \in Value : Renaming(p, q, v)
    <3>1. PICK p \in Path, q \in Path, v \in Value : Renaming(p, q, v)
      BY <2>2
    <3>2. job.request = RenameOf(p, q, v)
      BY <3>1, RenamingDoes
    <3> QED BY <3>2, CallsAreRequests
  <2> QED BY <1>1, <2>1, <2>2 DEF LogInv, JobOK
<1>2. job = Idle => job.request = NoRequest
  BY DEF Idle
<1> QED BY <1>1, <1>2, CallsAreRequests DEF Serving


\* Every step is a step of the abstract store, or changes nothing of it.
LEMMA StepMaps ==
    ASSUME RenamesUndisturbed, NothingMissed, ScanCoversLog, LogInv, [Next]_vars
    PROVE  [Store!Next]_(Store!storeVars)
<1>2. /\ job = Idle => job.request = NoRequest /\ Serving = NoRequest
      /\ job # Idle /\ job.request # Carry =>
            Serving = job.request /\ job.request # NoRequest
      /\ job.request = Carry => Serving = NoRequest
  BY ServingFacts
<1>3. /\ job' = Idle => Serving' = NoRequest
      /\ job'.request = Carry => Serving' = NoRequest
  BY DEF Serving, Idle
<1>4. ASSUME Durable' = Durable, Serving' = Serving, answer' = answer
      PROVE  UNCHANGED Store!storeVars
  BY <1>4 DEF Store!storeVars, Serving
<1>5. CASE Request
  <2>1. /\ Durable' = Durable /\ job = Idle /\ answer' = answer
        /\ \/ \E s : GoodStage(s) /\ job'.request = CallOf(s)
           \/ \E p, q \in Path : \E v \in Value :
                 /\ p # q /\ v = Held(disk, p)
                 /\ job'.request = RenameOf(p, q, v)
    BY <1>5, RequestInv
  <2>2. Serving' = job'.request /\ Serving = NoRequest
    <3>1. job'.request # Carry
      BY <2>1, CallsAreRequests
    <3> QED BY <1>2, <2>1, <3>1 DEF Serving
  <2>3. \E p, q \in Path :
           Serving' \in {Store!Write(p, v) : v \in Value} \cup {Store!Delete(p)}
                          \cup {r \in {Store!Rename(p, q)} :
                                   p # q /\ Durable[p] # Absent}
    <3>1. ASSUME NEW s, GoodStage(s), job'.request = CallOf(s)
          PROVE  \E p \in Path :
                    Serving' \in {Store!Write(p, v) : v \in Value}
                                     \cup {Store!Delete(p)}
      <4>1. /\ s.path \in Path /\ s.kind \in {"data", "tombstone"}
            /\ s.kind = "data" => s.value \in Value
            /\ s.kind = "tombstone" => s.value = Absent
        BY <3>1, StageFacts DEF GoodStage
      <4>2. CASE s.kind = "data"
        <5>1. Serving' = Store!Write(s.path, s.value)
          BY <2>2, <3>1, <4>2 DEF CallOf, Store!Write
        <5> QED BY <4>1, <4>2, <5>1
      <4>3. CASE s.kind = "tombstone"
        <5>1. Serving' = Store!Delete(s.path)
          BY <2>2, <3>1, <4>1, <4>3 DEF CallOf, Store!Delete
        <5> QED BY <4>1, <5>1
      <4> QED BY <4>1, <4>2, <4>3
    <3>2. ASSUME NEW p \in Path, NEW q \in Path, NEW v \in Value, p # q,
                 v = Held(disk, p), job'.request = RenameOf(p, q, v)
          PROVE  /\ Serving' = Store!Rename(p, q)
                 /\ p # q /\ Durable[p] # Absent
      <4>1. Durable = HeldMap(disk)
        BY <2>1, ReadsAgree
      <4>2. Durable[p] = v /\ v # Absent
        BY <3>2, <4>1, LogAssumption DEF HeldMap
      <4> QED BY <2>2, <3>2, <4>2 DEF RenameOf, Store!Rename
    <3> QED BY <2>1, <3>1, <3>2
  <2>4. Store!Begin
    BY <2>1, <2>2, <2>3 DEF Store!Begin, Serving
  <2> QED BY <2>4 DEF Store!Next
<1>6. CASE Compact
  <2>1. /\ Durable' = Durable /\ answer' = answer
        /\ job = Idle /\ (job' = Idle \/ job'.request = Carry)
    BY <1>6, CompactInv
  <2> QED BY <2>1, <1>2, <1>3, <1>4
<1>7. CASE WriteChunk
  <2>1. /\ Durable' = Durable /\ answer' = answer
        /\ job'.request = job.request
    BY <1>7, WriteChunkInv
  <2>2. Serving' = Serving
    BY <2>1 DEF Serving
  <2> QED BY <2>1, <2>2, <1>4
<1>8. CASE WriteHead
  <2>1. TookEffect \/ NotSeen
    BY <1>8, WriteHeadInv
  <2>2. CASE TookEffect
    <3>1. /\ job.request \notin {NoRequest, Carry} /\ job' = Idle
          /\ answer' = "ok"
          /\ Durable' = [[Durable EXCEPT ![job.request.path] = Absent]
                            EXCEPT ![job.request.to] = job.request.value]
      BY <2>2 DEF TookEffect
    <3>2. Serving = job.request /\ Serving # NoRequest /\ Serving' = NoRequest
      BY <1>3, <3>1 DEF Serving
    <3>3. Store!Commit
      BY <3>1, <3>2 DEF Store!Commit, Store!Effect, Serving
    <3> QED BY <3>3 DEF Store!Next
  <2>3. CASE NotSeen
    <3>1. /\ Durable' = Durable /\ answer' = answer
          /\ \/ job'.request = job.request
             \/ job.request = Carry /\ job' = Idle
      BY <2>3 DEF NotSeen
    <3>2. Serving' = Serving
      BY <1>2, <1>3, <3>1 DEF Serving
    <3> QED BY <3>1, <3>2, <1>4
  <2> QED BY <2>1, <2>2, <2>3
<1>9. CASE WriteError
  <2>1. /\ Durable' = Durable /\ job # Idle /\ job' = Idle
        /\ answer' = IF job.request = Carry THEN answer ELSE "error"
    BY <1>9, WriteErrorInv
  <2>2. CASE job.request = Carry
    BY <2>1, <2>2, <1>2, <1>3, <1>4
  <2>3. CASE job.request # Carry
    <3>1. Serving # NoRequest /\ Serving' = NoRequest /\ answer' = "error"
      BY <2>1, <2>3, <1>2, <1>3
    <3>2. Store!Abandon
      BY <3>1, <2>1 DEF Store!Abandon, Serving
    <3> QED BY <3>2 DEF Store!Next
  <2> QED BY <2>2, <2>3
<1>10. CASE Restart
  <2>1. /\ Durable' = Durable /\ job' = Idle
        /\ answer' = IF job.request \in {NoRequest, Carry} THEN answer
                     ELSE "lost"
    BY <1>10, RestartInv
  <2>2. CASE job.request \in {NoRequest, Carry}
    <3>1. Serving = NoRequest
      BY <2>2 DEF Serving
    <3> QED BY <3>1, <2>1, <2>2, <1>3, <1>4
  <2>3. CASE job.request \notin {NoRequest, Carry}
    <3>1. Serving # NoRequest /\ Serving' = NoRequest /\ answer' = "lost"
      BY <2>1, <2>3, <1>3 DEF Serving
    <3>2. Store!Abandon
      BY <3>1, <2>1 DEF Store!Abandon, Serving
    <3> QED BY <3>2 DEF Store!Next
  <2> QED BY <2>2, <2>3
<1>11. CASE UNCHANGED vars
  BY <1>11, <1>4 DEF vars, ramVars, Serving, Durable
<1> QED BY <1>5, <1>6, <1>7, <1>8, <1>9, <1>10, <1>11 DEF Next

---------------------------------------------------------------------------
(* Theorems                                                                *)

\* The invariant holds of every log whose renames nothing disturbs, in which
\* no block that cannot be read hides a record, and that the scan covers.
LEMMA LogInvHolds ==
    ASSUME RenamesUndisturbed, NothingMissed, ScanCoversLog
    PROVE  Spec => []LogInv
<1>1. Init => LogInv
  BY InitInv
<1>2. LogInv /\ [Next]_vars => LogInv'
  BY StepInv
<1> QED BY <1>1, <1>2, PTL DEF Spec

\* The variables of the log keep their types: no block number or sequence
\* number goes wrong in an append, a rename, a compaction or a recovery.
THEOREM LogTypes ==
    ASSUME RenamesUndisturbed, NothingMissed, ScanCoversLog
    PROVE  Spec => []TypeOK
<1>1. LogInv => TypeOK
  BY TypesFollow
<1> QED BY <1>1, LogInvHolds, PTL

\* Between two calls a read through the index or the log of RAM returns what
\* dharafs_init would find after a reset, however the appends, the renames,
\* the refused writes, the resets and the compaction have followed each other.
THEOREM ReadsAreDurable ==
    ASSUME RenamesUndisturbed, NothingMissed, ScanCoversLog
    PROVE  Spec => []ReadsDurable
<1>1. LogInv => ReadsDurable
  BY ReadsAgree DEF ReadsDurable
<1> QED BY <1>1, LogInvHolds, PTL

\* Compaction, a block per call, with other calls and failures in between,
\* never moves log_start past the record a path is read from, as long as it
\* can read every block.
THEOREM CompactionKeepsLive ==
    ASSUME RenamesUndisturbed, ReadsNeverFail, ScanCoversLog
    PROVE  Spec => []LiveAfterLogStart
<1>1. LogInv => LiveAfterLogStart
  BY LiveFollows
<1>2. NothingMissed
  BY DEF NothingMissed
<1> QED BY <1>1, <1>2, LogInvHolds, PTL

\* Sequence numbers follow block numbers across restarts and torn writes, so
\* that recovery and the search without the index agree.
THEOREM SequenceOrdered ==
    ASSUME RenamesUndisturbed, NothingMissed, ScanCoversLog
    PROVE  Spec => []LogOrdered
<1>1. LogInv => LogOrdered
  BY OrderFollows
<1> QED BY <1>1, LogInvHolds, PTL

\* The log is a map that every append, delete and rename changes at one
\* instant, the write of its last head, or not at all: no reset, refused
\* write, unreadable block, recovery or compaction is seen.
THEOREM LogImplementsStore ==
    ASSUME RenamesUndisturbed, NothingMissed, ScanCoversLog
    PROVE  Spec => StoreSpec
<1>1. Init => Store!Init
  <2> SUFFICES ASSUME Init PROVE Store!Init
    OBVIOUS
  <2>1. LogInv /\ \A p \in Path : Held(disk, p) = Absent
    BY InitInv
  <2>2. job = Idle /\ answer = "ok"
    BY DEF Init
  <2>3. Durable = [p \in Path |-> Absent]
    BY <2>1, <2>2, ReadsAgree DEF HeldMap
  <2>4. Serving = NoRequest
    BY <2>1, <2>2, ServingFacts
  <2> QED BY <2>2, <2>3, <2>4 DEF Store!Init, Serving
<1>2. LogInv /\ [Next]_vars => [Store!Next]_(Store!storeVars)
  BY StepMaps
<1> QED BY <1>1, <1>2, LogInvHolds, PTL DEF Spec, StoreSpec, Store!Spec
=============================================================================
