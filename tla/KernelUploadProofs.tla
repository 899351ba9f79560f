------------------------- MODULE KernelUploadProofs -------------------------
(***************************************************************************)
(* Theorems about the boot slots and the kernel upload, for every number   *)
(* of blocks, every set of kernels and every bound: types, that the two    *)
(* copies behave as one record, that a commit names only what the card     *)
(* holds, that a confirmed boot is not reported as a hang, how often a     *)
(* slot is started, and that there is always one that boots.               *)
(***************************************************************************)
EXTENDS KernelUpload, TLAPS

CopyOK ==
    /\ copy \in [Copy -> {Torn} \cup [gen : 0 .. 1, rec : Boot!Record]]
    /\ Valid(Newest)

\* The record that a lookup finds when it cannot read the newest copy, and
\* all that it may find.
Before == IF Valid(Stale) THEN {copy[Stale].rec} ELSE {}

Found == {Rec} \cup Before

LEMMA TornRecord == Torn.rec \in Boot!Record /\ Torn.gen = -1
  <1>1. Limit + 1 \in Nat /\ 0 \in 0 .. Limit + 1
    BY BootAssumption
  <1> QED
    BY <1>1 DEF Torn, Boot!Record, Boot!Slot, Boot!Reasons, Slot, Blank

\* What is read of the two copies.
LEMMA TheRecord ==
    ASSUME CopyOK
    PROVE  /\ Newest \in Copy /\ Stale \in Copy /\ Stale # Newest
           /\ Copy = {Newest, Stale}
           /\ Rec \in Boot!Record
           /\ Found \subseteq Boot!Record
           /\ \A c \in Copy : copy[c] = [gen |-> copy[c].gen, rec |-> copy[c].rec]
  <1>1. Newest \in Copy /\ Stale \in Copy /\ Stale # Newest /\ Copy = {Newest, Stale}
    BY DEF Newest, Stale, Copy, Other
  <1>2. \A c \in Copy : /\ copy[c].rec \in Boot!Record
                        /\ copy[c] = [gen |-> copy[c].gen, rec |-> copy[c].rec]
    <2> TAKE c \in Copy
    <2>1. CASE copy[c] = Torn
      BY <2>1, TornRecord DEF Torn
    <2>2. CASE copy[c] \in [gen : 0 .. 1, rec : Boot!Record]
      BY <2>2
    <2> QED
      BY <2>1, <2>2 DEF CopyOK
  <1> QED
    BY <1>1, <1>2 DEF Rec, Found, Before

\* A lookup finds the record or, if it missed that, the one before it.
LEMMA LookedUp ==
    ASSUME CopyOK, NEW c \in Copy, Valid(c)
    PROVE  /\ copy[c].rec \in Found
           /\ Lookup(c) => \/ copy[c].rec = Rec /\ misread' = misread
                           \/ copy[c].rec \in Before /\ misread' = misread + 1
  <1>1. c = Newest \/ c = Stale
    BY TheRecord
  <1>2. CASE c = Newest
    BY <1>2 DEF Found, Rec, Lookup
  <1>3. CASE c = Stale
    BY <1>3, TheRecord DEF Found, Before, Lookup, Miss
  <1> QED
    BY <1>1, <1>2, <1>3

\* Each record that may be found lies in a valid copy.
LEMMA FoundValid ==
    ASSUME CopyOK, NEW q \in Found
    PROVE  \E d \in Copy : Valid(d) /\ copy[d].rec = q
  BY TheRecord DEF CopyOK, Found, Before, Rec

---------------------------------------------------------------------------
(* What a write makes of the two copies.                                   *)

\* r was found, and n has been written.
Wrote(r, n) == Rec' = n /\ Before' = {r}

\* r was found, and the copy that should be written is torn.
Tore(r) == Rec' = r /\ Before' = {}

Kept == Rec' = Rec /\ Before' = Before

LEMMA SavedRecord ==
    ASSUME CopyOK, NEW c \in Copy, NEW r \in Boot!Record
    PROVE  /\ copy' = Saved(c, [gen |-> 1, rec |-> r]) => CopyOK' /\ Wrote(copy[c].rec, r)
           /\ copy' = Saved(c, Torn) => CopyOK' /\ Tore(copy[c].rec)
  <1> DEFINE Old == [gen |-> 0, rec |-> copy[c].rec]
  <1>1. c \in {0, 1} /\ Other(c) \in {0, 1} /\ Other(c) # c /\ Copy = {0, 1}
    BY DEF Copy, Other
  <1>2. copy[c] = [gen |-> copy[c].gen, rec |-> copy[c].rec] /\ DOMAIN copy = Copy
    BY TheRecord DEF CopyOK
  <1>3. copy[c].rec \in Boot!Record
    BY <1>1, TornRecord DEF CopyOK
  <1>4. \A x : Saved(c, x) = [d \in Copy |-> IF d = c THEN Old ELSE x]
    <2> TAKE x
    <2>1. [copy[c] EXCEPT !.gen = 0] = Old
      BY <1>2
    <2> HIDE DEF Old
    <2>2. Saved(c, x) = [[copy EXCEPT ![c] = Old] EXCEPT ![Other(c)] = x]
      BY <2>1 DEF Saved
    <2>3. Other(c) \in Copy /\ Other(c) # c /\ Copy = {c, Other(c)}
      BY <1>1
    <2> QED
      BY <1>2, <2>2, <2>3
  <1>5. ASSUME copy' = Saved(c, [gen |-> 1, rec |-> r])
        PROVE  CopyOK' /\ Wrote(copy[c].rec, r)
    <2>1. copy' = [d \in Copy |-> IF d = c THEN Old ELSE [gen |-> 1, rec |-> r]]
      BY <1>4, <1>5
    <2>2. copy' \in [Copy -> {Torn} \cup [gen : 0 .. 1, rec : Boot!Record]]
      BY <1>1, <1>3, <2>1
    <2>3. copy'[c].gen = 0 /\ copy'[Other(c)].gen = 1 /\ copy'[Other(c)].rec = r
          /\ copy'[c].rec = copy[c].rec
      BY <1>1, <2>1
    <2>4. Newest' = Other(c) /\ Stale' = c
      BY <1>1, <2>3 DEF Newest, Stale, Other
    <2> QED
      BY <2>2, <2>3, <2>4 DEF CopyOK, Valid, Rec, Before, Wrote
  <1>6. ASSUME copy' = Saved(c, Torn) PROVE CopyOK' /\ Tore(copy[c].rec)
    <2>1. copy' = [d \in Copy |-> IF d = c THEN Old ELSE Torn]
      BY <1>4, <1>6
    <2>2. copy' \in [Copy -> {Torn} \cup [gen : 0 .. 1, rec : Boot!Record]]
      BY <1>1, <1>3, <2>1
    <2>3. copy'[c].gen = 0 /\ copy'[Other(c)].gen = -1 /\ copy'[c].rec = copy[c].rec
      BY <1>1, <2>1, TornRecord
    <2>4. Newest' = c /\ Stale' = Other(c)
      BY <1>1, <2>3 DEF Newest, Stale, Other
    <2> QED
      BY <2>2, <2>3, <2>4 DEF CopyOK, Valid, Rec, Before, Tore
  <1> QED
    BY <1>5, <1>6

LEMMA SameRecord ==
    ASSUME CopyOK, copy' = copy
    PROVE  CopyOK' /\ Kept
  BY DEF CopyOK, Valid, Rec, Newest, Stale, Before, Kept

\* A write of the record is seen whole, or not at all.
LEMMA WriteRecord ==
    ASSUME CopyOK, NEW c \in Copy, NEW r \in Boot!Record, Write(c, r),
           refused \in 0 .. MaxRefused
    PROVE  /\ CopyOK'
           /\ \/ Wrote(copy[c].rec, r) /\ refused' = refused
              \/ Tore(copy[c].rec) /\ refused' = refused + 1
              \/ Kept /\ refused' = refused + 1
           /\ refused' \in 0 .. MaxRefused
  <1>1. Refuse => refused' = refused + 1 /\ refused' \in 0 .. MaxRefused
    BY BootAssumption DEF Refuse
  <1>2. CASE copy' = Saved(c, [gen |-> 1, rec |-> r]) /\ refused' = refused
    BY <1>2, SavedRecord
  <1>3. CASE Refuse /\ copy' = Saved(c, Torn)
    BY <1>1, <1>3, SavedRecord
  <1>4. CASE Refuse /\ copy' = copy
    BY <1>1, <1>4, SameRecord
  <1> QED
    BY <1>2, <1>3, <1>4 DEF Write

---------------------------------------------------------------------------
\* One of the operations of a boot makes n of record r: a start is counted,
\* a boot confirmed, a slot activated, a reboot noted.
BootOp(r, n) ==
    \/ pc = "off" /\ pc' = "load" /\ n = Counted(r)
    \/ n = Confirmed(r)
    \/ \E s \in Slot : r.ready[s] /\ n = [r EXCEPT !.active = s, !.attempts = 0]
    \/ n = [r EXCEPT !.reason = "clean_reboot"]

\* An upload makes n of record r.
UploadOp(r, n) ==
    \E i \in Image : Holds(up.target, i) /\ n = Installed(r, i)

\* A lookup found r.
Source(r) ==
    \/ r = Rec /\ misread' = misread
    \/ r \in Before /\ misread' = misread + 1

\* How a step may change the record: not at all, or by a lookup and what
\* came of the write.
BootChange ==
    \/ Kept /\ misread' \in {misread, misread + 1}
    \/ \E r \in Found : Source(r) /\ Tore(r)
    \/ \E r \in Found : Source(r) /\ Wrote(r, Rec') /\ BootOp(r, Rec')

Operation ==
    \/ BootChange
    \/ \E r \in Found : Source(r) /\ Wrote(r, Rec') /\ UploadOp(r, Rec')

FaultsOK == refused \in 0 .. MaxRefused /\ misread \in 0 .. MaxMisread

LEMMA LookupSource ==
    ASSUME CopyOK, FaultsOK, NEW c \in Copy, Lookup(c)
    PROVE  /\ copy[c].rec \in Found /\ Source(copy[c].rec)
           /\ copy[c].rec \in Boot!Record
           /\ misread' \in 0 .. MaxMisread
           /\ misread' \in {misread, misread + 1}
  <1>1. Valid(c)
    BY DEF Lookup
  <1>2. copy[c].rec \in Found /\ Source(copy[c].rec)
    BY <1>1, LookedUp DEF Source
  <1>3. misread' \in 0 .. MaxMisread /\ misread' \in {misread, misread + 1}
    BY BootAssumption DEF FaultsOK, Lookup, Miss
  <1> QED
    BY <1>2, <1>3, TheRecord

\* A lookup and a write: nothing, a torn copy, or the record that is meant.
LEMMA LookedUpAndWritten ==
    ASSUME CopyOK, FaultsOK, NEW c \in Copy, Lookup(c),
           NEW n \in Boot!Record, Write(c, n)
    PROVE  /\ CopyOK' /\ FaultsOK'
           /\ misread' \in {misread, misread + 1}
           /\ LET r == copy[c].rec IN
              \/ Kept
              \/ r \in Found /\ Source(r) /\ Tore(r)
              \/ r \in Found /\ Source(r) /\ Wrote(r, n) /\ Rec' = n
  <1>1. FaultsOK' /\ CopyOK'
    BY LookupSource, WriteRecord DEF FaultsOK
  <1> QED
    BY <1>1, LookupSource, WriteRecord DEF FaultsOK, Wrote

---------------------------------------------------------------------------
\* What the operations make of a record.
LEMMA RecordChanges ==
    ASSUME NEW r \in Boot!Record
    PROVE  /\ Counted(r) \in Boot!Record
           /\ Confirmed(r) \in Boot!Record
           /\ \A s \in Slot : [r EXCEPT !.active = s, !.attempts = 0] \in Boot!Record
           /\ [r EXCEPT !.reason = "clean_reboot"] \in Boot!Record
  <1>1. /\ r.active \in {0, 1} /\ 1 - r.active \in {0, 1}
        /\ r.attempts \in 0 .. Limit + 1 /\ 0 \in 0 .. Limit + 1
        /\ (r.attempts <= Limit => r.attempts + 1 \in 0 .. Limit + 1)
    BY BootAssumption DEF Boot!Record, Boot!Slot
  <1>2. WhyReset(r) \in Boot!Reasons
    BY DEF WhyReset, Boot!Reasons
  <1>3. Counted(r) \in Boot!Record
    <2>1. CASE Exhausted(r)
      BY <1>1, <2>1 DEF Counted, Other, Boot!Record, Boot!Slot, Boot!Reasons
    <2>2. CASE ~Exhausted(r)
      <3> DEFINE n == IF r.attempts <= Limit THEN r.attempts + 1 ELSE r.attempts
      <3>1. n \in 0 .. Limit + 1
        BY <1>1
      <3>2. Counted(r) = [r EXCEPT !.attempts = n, !.reason = WhyReset(r)]
        BY <2>2 DEF Counted
      <3> HIDE DEF n
      <3> QED
        BY <1>2, <3>1, <3>2 DEF Boot!Record
    <2> QED
      BY <2>1, <2>2
  <1>4. Confirmed(r) \in Boot!Record
    BY <1>1 DEF Confirmed, Boot!Record
  <1>5. \A s \in Slot : [r EXCEPT !.active = s, !.attempts = 0] \in Boot!Record
    BY <1>1 DEF Slot, Boot!Record, Boot!Slot
  <1>6. [r EXCEPT !.reason = "clean_reboot"] \in Boot!Record
    BY DEF Boot!Record, Boot!Reasons
  <1> QED
    BY <1>3, <1>4, <1>5, <1>6

LEMMA InstalledType ==
    ASSUME NEW r \in Boot!Record, up.target \in Slot, NEW i \in Image
    PROVE  Installed(r, i) \in Boot!Record
  BY DEF Installed, Slot, Boot!Record, Boot!Slot

\* Where the record is left alone.
LEMMA Untouched ==
    ASSUME CopyOK, copy' = copy, misread' \in {misread, misread + 1}
    PROVE  CopyOK' /\ BootChange
  BY SameRecord DEF BootChange

\* A lookup, and a write of what a boot makes of the record it found.
LEMMA BootWrite ==
    ASSUME CopyOK, FaultsOK, NEW c \in Copy, Lookup(c), NEW n, Write(c, n),
           n \in Boot!Record, BootOp(copy[c].rec, n)
    PROVE  CopyOK' /\ FaultsOK' /\ BootChange
  <1>1. PICK r \in Boot!Record : r = copy[c].rec
    BY LookupSource
  <1>2. /\ CopyOK' /\ FaultsOK' /\ misread' \in {misread, misread + 1}
        /\ \/ Kept
           \/ r \in Found /\ Source(r) /\ Tore(r)
           \/ r \in Found /\ Source(r) /\ Wrote(r, n) /\ Rec' = n
    BY <1>1, LookedUpAndWritten
  <1>3. CASE Kept
    BY <1>2, <1>3 DEF BootChange
  <1>4. CASE r \in Found /\ Source(r) /\ Tore(r)
    BY <1>2, <1>4, Zenon DEF BootChange
  <1>5. CASE r \in Found /\ Source(r) /\ Wrote(r, n) /\ Rec' = n
    <2>1. Wrote(r, Rec') /\ BootOp(r, Rec')
      BY <1>1, <1>5 DEF Wrote
    <2> QED
      BY <1>2, <1>5, <2>1, Zenon DEF BootChange
  <1> QED
    BY <1>2, <1>3, <1>4, <1>5

LEMMA BootOperation ==
    ASSUME UploadTypeOK, BootStep
    PROVE  CopyOK' /\ FaultsOK' /\ BootChange
  <1>1. CopyOK /\ FaultsOK
    BY DEF UploadTypeOK, CopyOK, FaultsOK
  <1>2. ASSUME NEW c \in Copy, Select(c) PROVE CopyOK' /\ FaultsOK' /\ BootChange
    <2> DEFINE n == Counted(copy[c].rec)
    <2>1. Lookup(c) /\ Write(c, n) /\ pc = "off" /\ pc' = "load"
      BY <1>2 DEF Select
    <2>2. n \in Boot!Record
      BY <1>1, <2>1, LookupSource, RecordChanges
    <2>3. BootOp(copy[c].rec, n)
      BY <2>1 DEF BootOp
    <2> HIDE DEF n
    <2> QED
      BY <1>1, <2>1, <2>2, <2>3, BootWrite
  <1>3. CASE MarkBootGood
    <2>1. CASE LookupFails /\ copy' = copy /\ refused' = refused
      BY <1>1, <2>1, Untouched, BootAssumption DEF LookupFails, Miss, FaultsOK
    <2>2. ASSUME NEW c \in Copy, Lookup(c), Write(c, Confirmed(copy[c].rec))
          PROVE  CopyOK' /\ FaultsOK' /\ BootChange
      <3>1. Confirmed(copy[c].rec) \in Boot!Record
        BY <1>1, <2>2, LookupSource, RecordChanges
      <3> QED
        BY <1>1, <2>2, <3>1, BootWrite DEF BootOp
    <2>3. ASSUME NEW c \in Copy, Lookup(c), copy' = copy, refused' = refused
          PROVE  CopyOK' /\ FaultsOK' /\ BootChange
      BY <1>1, <2>3, LookupSource, Untouched DEF FaultsOK
    <2> QED
      BY <1>3, <2>1, <2>2, <2>3 DEF MarkBootGood
  <1>4. CASE PowerCut
    <2>1. refused' = refused
      BY <1>4 DEF PowerCut
    <2>2. CASE copy' = copy /\ misread' = misread
      BY <1>1, <2>1, <2>2, Untouched DEF FaultsOK
    <2>3. ASSUME NEW c \in Copy, Lookup(c), copy' = Saved(c, Torn)
          PROVE  CopyOK' /\ FaultsOK' /\ BootChange
      <3>1. PICK r \in Boot!Record : r = copy[c].rec
        BY <1>1, <2>3, LookupSource
      <3>2. CopyOK' /\ Tore(r)
        BY <1>1, <2>3, <3>1, SavedRecord
      <3>3. r \in Found /\ Source(r) /\ misread' \in 0 .. MaxMisread
        BY <1>1, <2>3, <3>1, LookupSource
      <3>4. FaultsOK'
        BY <1>1, <2>1, <3>3 DEF FaultsOK
      <3> QED
        BY <3>2, <3>3, <3>4, Zenon DEF BootChange
    <2> QED
      BY <1>4, <2>2, <2>3 DEF PowerCut
  <1>5. CASE Reboot
    <2>1. CASE LookupFails /\ copy' = copy /\ refused' = refused
      BY <1>1, <2>1, Untouched, BootAssumption DEF LookupFails, Miss, FaultsOK
    <2>2. ASSUME NEW c \in Copy, Lookup(c),
                 Write(c, [copy[c].rec EXCEPT !.reason = "clean_reboot"])
          PROVE  CopyOK' /\ FaultsOK' /\ BootChange
      <3>1. [copy[c].rec EXCEPT !.reason = "clean_reboot"] \in Boot!Record
        BY <1>1, <2>2, LookupSource, RecordChanges
      <3> QED
        BY <1>1, <2>2, <3>1, BootWrite DEF BootOp
    <2> QED
      BY <1>5, <2>1, <2>2 DEF Reboot
  <1>6. ASSUME NEW s \in Slot, Activate(s) PROVE CopyOK' /\ FaultsOK' /\ BootChange
    <2>1. PICK c \in Copy : /\ Lookup(c) /\ copy[c].rec.ready[s]
                            /\ Write(c, [copy[c].rec EXCEPT !.active = s, !.attempts = 0])
      BY <1>6 DEF Activate
    <2>2. [copy[c].rec EXCEPT !.active = s, !.attempts = 0] \in Boot!Record
      BY <1>1, <2>1, LookupSource, RecordChanges
    <2> QED
      BY <1>1, <2>1, <2>2, BootWrite DEF BootOp
  <1>7. CASE Load \/ Hang \/ WatchdogReset
    <2>1. copy' = copy /\ refused' = refused /\ misread' = misread
      BY <1>7 DEF Load, Hang, WatchdogReset
    <2> QED
      BY <1>1, <2>1, Untouched DEF FaultsOK
  <1>8. CASE NoRecord
    <2>1. copy' = copy /\ refused' = refused /\ LookupFails
      BY <1>8 DEF NoRecord
    <2> QED
      BY <1>1, <2>1, Untouched, BootAssumption DEF LookupFails, Miss, FaultsOK
  <1> QED
    BY <1>2, <1>3, <1>4, <1>5, <1>6, <1>7, <1>8 DEF BootStep

LEMMA UploadOperation ==
    ASSUME UploadTypeOK, UploadStep
    PROVE  CopyOK' /\ FaultsOK' /\ Operation
  <1>1. CopyOK /\ FaultsOK /\ up.target \in Slot
    BY DEF UploadTypeOK, CopyOK, FaultsOK
  <1>2. ASSUME NEW i \in Image, Commit(i)
        PROVE  CopyOK' /\ FaultsOK' /\ Operation
    <2>1. PICK c \in Copy : Lookup(c) /\ Write(c, Installed(copy[c].rec, i))
      BY <1>2 DEF Commit
    <2>2. Holds(up.target, i)
      BY <1>2 DEF Commit, Verified
    <2>3. PICK r \in Boot!Record : r = copy[c].rec
      BY <1>1, <2>1, LookupSource
    <2>4. PICK n \in Boot!Record : n = Installed(r, i)
      BY <1>1, InstalledType
    <2>5. /\ CopyOK' /\ FaultsOK' /\ misread' \in {misread, misread + 1}
          /\ \/ Kept
             \/ r \in Found /\ Source(r) /\ Tore(r)
             \/ r \in Found /\ Source(r) /\ Wrote(r, n) /\ Rec' = n
      BY <1>1, <2>1, <2>3, <2>4, LookedUpAndWritten
    <2>6. CASE Kept
      BY <2>5, <2>6 DEF BootChange, Operation
    <2>7. CASE r \in Found /\ Source(r) /\ Tore(r)
      BY <2>5, <2>7, Zenon DEF BootChange, Operation
    <2>8. CASE r \in Found /\ Source(r) /\ Wrote(r, n) /\ Rec' = n
      <3>1. Wrote(r, Rec') /\ UploadOp(r, Rec')
        BY <2>2, <2>4, <2>8 DEF UploadOp
      <3> QED
        BY <2>5, <2>8, <3>1, Zenon DEF Operation
    <2> QED
      BY <2>5, <2>6, <2>7, <2>8
  <1>3. ASSUME copy' = copy, FaultsOK', misread' \in {misread, misread + 1}
        PROVE  CopyOK' /\ FaultsOK' /\ Operation
    BY <1>1, <1>3, Untouched DEF Operation
  <1>4. ASSUME misread' = misread, refused' = refused \/ Refuse PROVE FaultsOK'
    BY <1>1, <1>4, BootAssumption DEF FaultsOK, Refuse
  <1>5. ASSUME misread' \in 0 .. MaxMisread, refused' = refused \/ Refuse PROVE FaultsOK'
    BY <1>1, <1>5, BootAssumption DEF FaultsOK, Refuse
  <1>6. ASSUME NEW u, NEW b, Accumulate(u, b)
        PROVE  copy' = copy /\ (refused' = refused \/ Refuse)
    BY <1>6 DEF Accumulate
  <1>7. ASSUME NEW c \in Copy, Lookup(c), copy' = copy, refused' = refused \/ Refuse
        PROVE  CopyOK' /\ FaultsOK' /\ Operation
    <2>1. misread' \in 0 .. MaxMisread /\ misread' \in {misread, misread + 1}
      BY <1>1, <1>7, LookupSource
    <2> QED
      BY <1>3, <1>5, <1>7, <2>1
  <1>8. ASSUME misread' = misread, copy' = copy, refused' = refused \/ Refuse
        PROVE  CopyOK' /\ FaultsOK' /\ Operation
    BY <1>3, <1>4, <1>8
  <1>9. CASE Chunk
    <2>1. CASE \E b \in Received(up.total + 1) : misread' = misread /\ Accumulate(up, b)
      BY <1>6, <1>8, <2>1
    <2>2. ASSUME NEW c \in Copy, NEW u, NEW b, Lookup(c), Accumulate(u, b)
          PROVE  CopyOK' /\ FaultsOK' /\ Operation
      BY <1>6, <1>7, <2>2
    <2>3. CASE ~up.on
      <3> DEFINE first(c) == [NoUpload EXCEPT !.on = TRUE, !.target = Target(c),
                                              !.offset = up.offset]
      <3>1. PICK c \in Copy, b \in Received(1) : Lookup(c) /\ Accumulate(first(c), b)
        BY <1>9, <2>3 DEF Chunk
      <3> HIDE DEF first
      <3> QED
        BY <2>2, <3>1
    <2> QED
      BY <1>9, <2>1, <2>3 DEF Chunk
  <1>10. CASE StreamBlock
    BY <1>6, <1>8, <1>10 DEF StreamBlock
  <1>11. ASSUME NEW n, Stream(n) PROVE CopyOK' /\ FaultsOK' /\ Operation
    BY <1>7, <1>11 DEF Stream
  <1>12. CASE StreamTimeout \/ Abort \/ ResumeChunk \/ CommitRefused
    BY <1>8, <1>12 DEF StreamTimeout, Abort, ResumeChunk, CommitRefused, bootVars
  <1>13. ASSUME NEW i \in Image, ResumeBegin(i) PROVE CopyOK' /\ FaultsOK' /\ Operation
    <2>1. PICK c \in Copy : Lookup(c) /\ \E p : WriteProgress(p)
      BY <1>13 DEF ResumeBegin
    <2> QED
      BY <1>7, <2>1 DEF WriteProgress
  <1>14. CASE ResumeVerify \/ ResumeAbort
    BY <1>8, <1>14 DEF ResumeVerify, ResumeAbort, WriteProgress
  <1> QED
    BY <1>2, <1>9, <1>10, <1>11, <1>12, <1>13, <1>14 DEF UploadStep

---------------------------------------------------------------------------
BlocksOK == card \in [0 .. 2 * SlotBlocks - 1 -> Known]

UpType == [on : BOOLEAN, target : Slot, total : Nat, offset : Nat, expect : Nat,
           digest : Prefixes \cup {<<>>, <<Junk>>}]

ProgOK ==
    \/ prog = NoProgress
    \/ prog \in [target : Slot, image : Image, confirmed : Nat, attempts : Nat]

MachineOK ==
    /\ pc \in {"off", "load", "booting", "up", "hung", "fault"}
    /\ booted \in Slot
    /\ kernel \in Image \cup {Blank}
    /\ passed \in BOOLEAN
    /\ tries \in 0 .. MaxTries
    /\ cuts \in 0 .. MaxCuts

LEMMA TypeParts ==
    UploadTypeOK <=> /\ CopyOK /\ BlocksOK /\ MachineOK /\ FaultsOK
                     /\ up \in UpType /\ ProgOK
  BY DEF UploadTypeOK, CopyOK, BlocksOK, MachineOK, FaultsOK, UpType, ProgOK

LEMMA TypePartsNext ==
    ASSUME CopyOK', BlocksOK', MachineOK', FaultsOK', up' \in UpType, ProgOK'
    PROVE  UploadTypeOK'
  BY DEF UploadTypeOK, CopyOK, BlocksOK, MachineOK, FaultsOK, UpType, ProgOK

LEMMA HashedType == \A blocks : Hashed(blocks) \in Prefixes \cup {<<>>, <<Junk>>}
  BY DEF Hashed

LEMMA NoUploadType == NoUpload \in UpType
  BY DEF NoUpload, UpType, Slot

LEMMA EndedType ==
    ASSUME NEW u \in UpType
    PROVE  Ended(u) \in UpType
  BY NoUploadType DEF Ended, NoUpload, UpType

LEMMA TypeInit == UploadInit => UploadTypeOK
  <1> SUFFICES ASSUME UploadInit PROVE UploadTypeOK
    OBVIOUS
  <1>1. PICK i \in Healthy :
          /\ copy = [c \in Copy |->
                       [gen |-> 0,
                        rec |-> [active |-> 0, reason |-> "power_on", attempts |-> 0,
                                 ready |-> [s \in Slot |-> s = 0],
                                 image |-> [s \in Slot |-> IF s = 0 THEN i ELSE Blank]]]]
          /\ card = [b \in 0 .. 2 * SlotBlocks - 1 |->
                       IF b < Len(i) THEN i[b + 1] ELSE Junk]
    BY DEF UploadInit, Init
  <1>2. i \in Image /\ Len(i) \in 1 .. SlotBlocks /\ SlotBlocks \in Nat /\ Limit \in Nat
    BY BootAssumption
  <1>3. CopyOK
    <2> DEFINE r == [active |-> 0, reason |-> "power_on", attempts |-> 0,
                     ready |-> [s \in Slot |-> s = 0],
                     image |-> [s \in Slot |-> IF s = 0 THEN i ELSE Blank]]
    <2>1. r \in Boot!Record
      <3>1. 0 \in 0 .. Limit + 1
        BY <1>2
      <3> QED
        BY <1>2, <3>1 DEF Boot!Record, Boot!Slot, Boot!Reasons, Slot
    <2>2. copy = [c \in Copy |-> [gen |-> 0, rec |-> r]]
      BY <1>1
    <2> HIDE DEF r
    <2>3. copy[0].gen = 0 /\ copy[1].gen = 0
      BY <2>2 DEF Copy
    <2> QED
      BY <2>1, <2>2, <2>3 DEF CopyOK, Valid, Newest, Copy
  <1>4. BlocksOK
    <2>1. ASSUME NEW b \in 0 .. 2 * SlotBlocks - 1, b < Len(i)
          PROVE  i[b + 1] \in Known
      <3>1. b + 1 \in 1 .. SlotBlocks /\ Len(i) >= b + 1
        BY <1>2, <2>1
      <3>2. i[b + 1] \in Received(b + 1)
        BY <1>2, <3>1 DEF Received
      <3> QED
        BY <3>1, <3>2 DEF Known
    <2>2. Junk \in Known
      BY DEF Known
    <2> QED
      BY <1>1, <2>1, <2>2 DEF BlocksOK
  <1>5. MachineOK /\ FaultsOK
    BY <1>2, BootAssumption DEF UploadInit, Init, MachineOK, FaultsOK, MaxTries, Slot
  <1>6. up \in UpType /\ ProgOK
    BY NoUploadType DEF UploadInit, ProgOK
  <1> QED
    BY <1>3, <1>4, <1>5, <1>6, TypeParts

---------------------------------------------------------------------------
LEMMA BootTypes ==
    ASSUME UploadTypeOK, BootStep
    PROVE  BlocksOK' /\ MachineOK' /\ up' \in UpType /\ ProgOK'
  <1>1. /\ BlocksOK /\ MachineOK /\ up \in UpType /\ ProgOK
        /\ MaxTries \in Nat /\ 0 \in 0 .. MaxTries /\ MaxCuts \in Nat
    BY TypeParts, BootAssumption DEF MaxTries
  <1>2. up' \in UpType /\ ProgOK'
    <2>1. up' = (IF pc' = "up" THEN up ELSE NoUpload) /\ prog' = prog
      BY Zenon DEF BootStep
    <2> QED
      BY <1>1, <2>1, NoUploadType DEF ProgOK
  <1>3. card' = card
    BY DEF BootStep, Select, NoRecord, Load, MarkBootGood, Hang, WatchdogReset, PowerCut,
       Reboot, Activate
  <1>4. BlocksOK'
    BY <1>1, <1>3 DEF BlocksOK
  <1>5. MachineOK'
    <2>1. ASSUME NEW c \in Copy, Select(c) PROVE MachineOK'
      <3>1. PICK r \in Boot!Record : r = Counted(copy[c].rec)
        BY <2>1, LookupSource, RecordChanges, TypeParts DEF Select
      <3>2. r.active \in Slot /\ r.image[r.active] \in Image \cup {Blank}
        BY DEF Boot!Record, Boot!Slot, Slot
      <3>3. /\ booted' = r.active /\ kernel' = r.image[r.active] /\ pc' = "load"
            /\ passed' = FALSE /\ tries' \in {tries, 0} /\ cuts' = cuts
        BY <2>1, <3>1 DEF Select
      <3> QED
        BY <1>1, <3>2, <3>3 DEF MachineOK
    <2>2. CASE Load
      BY <1>1, <2>2 DEF Load, MachineOK
    <2>3. CASE MarkBootGood
      <3>1. passed' = (Rec'.active = booted /\ Rec'.attempts = 0)
        BY <2>3 DEF MarkBootGood
      <3>2. passed' \in BOOLEAN
        BY <3>1, Zenon
      <3>3. /\ pc' = "up" /\ booted' = booted /\ kernel' = kernel
            /\ tries' = 0 /\ cuts' = cuts
        BY <2>3 DEF MarkBootGood
      <3> QED
        BY <1>1, <3>2, <3>3 DEF MachineOK
    <2>4. CASE Hang \/ WatchdogReset \/ NoRecord
      BY <1>1, <2>4 DEF Hang, WatchdogReset, NoRecord, MachineOK
    <2>5. (passed /\ misread' = misread) \in BOOLEAN
      BY Zenon
    <2>6. CASE PowerCut
      <3>1. /\ pc' = "off" /\ booted' = booted /\ kernel' = Blank /\ tries' = tries
            /\ passed' = (passed /\ misread' = misread)
            /\ cuts < MaxCuts /\ cuts' = cuts + 1
        BY <2>6 DEF PowerCut
      <3>2. cuts' \in 0 .. MaxCuts
        BY <1>1, <3>1 DEF MachineOK
      <3> HIDE DEF PowerCut
      <3>3. passed' \in BOOLEAN
        BY <2>5, <3>1, Zenon
      <3> QED
        BY <1>1, <3>1, <3>2, <3>3 DEF MachineOK
    <2>7. CASE Reboot
      <3>1. /\ pc' = "off" /\ booted' = booted /\ kernel' = Blank /\ tries' = tries
            /\ passed' = (passed /\ misread' = misread) /\ cuts' = cuts
        BY <2>7 DEF Reboot
      <3>2. passed' \in BOOLEAN
        BY <2>5, <3>1, Zenon
      <3> QED
        BY <1>1, <3>1, <3>2 DEF MachineOK
    <2>8. ASSUME NEW s \in Slot, Activate(s) PROVE MachineOK'
      <3>1. /\ UNCHANGED <<pc, booted, kernel, tries, cuts>>
            /\ passed' = (passed /\ misread' = misread)
        BY <2>8 DEF Activate
      <3>2. passed' \in BOOLEAN
        BY <2>5, <3>1, Zenon
      <3> QED
        BY <1>1, <3>1, <3>2 DEF MachineOK
    <2> QED
      BY <2>1, <2>2, <2>3, <2>4, <2>6, <2>7, <2>8 DEF BootStep
  <1> QED
    BY <1>2, <1>4, <1>5

LEMMA BlockType ==
    ASSUME UploadTypeOK, NEW n \in Nat \ {0}, NEW b \in Received(n)
    PROVE  b \in Known
  <1>1. PICK i \in Image : Len(i) >= n
    BY DEF Received
  <1>2. n \in 1 .. SlotBlocks
    BY <1>1, BootAssumption
  <1> QED
    BY <1>2 DEF Known

LEMMA AccumulateTypes ==
    ASSUME UploadTypeOK, NEW u \in UpType, NEW n \in Nat \ {0}, NEW b \in Received(n),
           Accumulate(u, b)
    PROVE  BlocksOK' /\ MachineOK' /\ up' \in UpType /\ ProgOK'
  <1>1. BlocksOK /\ MachineOK /\ ProgOK
    BY TypeParts
  <1>2. MachineOK' /\ ProgOK'
    BY <1>1 DEF Accumulate, MachineOK, ProgOK
  <1> DEFINE at == u.target * SlotBlocks + u.offset + u.total
             more == [u EXCEPT !.total = @ + 1, !.digest = Hashed(Append(@, b)),
                               !.expect = IF @ = u.total + 1 THEN 0 ELSE @]
  <1>3. u.total + 1 \in Nat /\ [u EXCEPT !.total = @ + 1] \in UpType
    BY DEF UpType
  <1>4. CASE card' = [card EXCEPT ![at] = b] /\ up' = more
    <2>1. BlocksOK'
      BY <1>1, <1>4, BlockType DEF BlocksOK
    <2>2. Hashed(Append(u.digest, b)) \in Prefixes \cup {<<>>, <<Junk>>}
      BY HashedType
    <2>3. (IF u.expect = u.total + 1 THEN 0 ELSE u.expect) \in Nat
      BY DEF UpType
    <2>4. up' \in UpType
      BY <1>3, <1>4, <2>2, <2>3 DEF UpType
    <2> QED
      BY <1>2, <2>1, <2>4
  <1>5. CASE card' = card /\ up' = Ended([u EXCEPT !.total = @ + 1])
    BY <1>1, <1>2, <1>3, <1>5, EndedType DEF BlocksOK
  <1> QED
    BY <1>4, <1>5 DEF Accumulate

LEMMA UploadTypes ==
    ASSUME UploadTypeOK, UploadStep
    PROVE  BlocksOK' /\ MachineOK' /\ up' \in UpType /\ ProgOK'
  <1>1. /\ BlocksOK /\ MachineOK /\ up \in UpType /\ ProgOK
        /\ \A c \in Copy : Lookup(c) => Target(c) \in Slot
        /\ \A i \in Image : Len(i) \in Nat
    BY TypeParts, LookupSource, BootAssumption DEF Boot!Record, Boot!Slot, Slot, Target, Other
  <1>2. ASSUME card' = card, UNCHANGED <<pc, booted, kernel, passed, tries, cuts>>
        PROVE  BlocksOK' /\ MachineOK'
    BY <1>1, <1>2 DEF BlocksOK, MachineOK
  <1>3. prog.target \in Slot /\ prog.confirmed \in Nat /\ prog.attempts \in Nat
    BY <1>1 DEF ProgOK, NoProgress, Slot
  <1>4. CASE Chunk
    <2>1. CASE up.on
      <3>1. PICK b \in Received(up.total + 1) : Accumulate(up, b)
        BY <1>4, <2>1 DEF Chunk
      <3>2. up.total + 1 \in Nat \ {0}
        BY <1>1 DEF UpType
      <3> QED
        BY <1>1, <3>1, <3>2, AccumulateTypes
    <2>2. CASE ~up.on
      <3> DEFINE first(c) == [NoUpload EXCEPT !.on = TRUE, !.target = Target(c),
                                              !.offset = up.offset]
      <3>1. PICK c \in Copy, b \in Received(1) : Lookup(c) /\ Accumulate(first(c), b)
        BY <1>4, <2>2 DEF Chunk
      <3>2. first(c) \in UpType
        BY <1>1, <3>1, NoUploadType DEF UpType
      <3> HIDE DEF first
      <3> QED
        BY <3>1, <3>2, AccumulateTypes
    <2> QED
      BY <2>1, <2>2
  <1>5. CASE StreamBlock
    <2>1. PICK b \in Received(up.offset + up.total + 1) : Accumulate(up, b)
      BY <1>5 DEF StreamBlock
    <2>2. up.offset + up.total + 1 \in Nat \ {0}
      BY <1>1 DEF UpType
    <2> QED
      BY <1>1, <2>1, <2>2, AccumulateTypes
  <1>6. ASSUME NEW i \in Image, Stream(Len(i))
        PROVE  BlocksOK' /\ MachineOK' /\ up' \in UpType /\ ProgOK'
    <2>1. PICK c \in Copy :
            /\ Lookup(c)
            /\ up' = [NoUpload EXCEPT !.on = TRUE, !.target = Target(c), !.expect = Len(i)]
      BY <1>6 DEF Stream
    <2>2. up' \in UpType
      BY <1>1, <2>1, NoUploadType DEF UpType
    <2> QED
      BY <1>1, <1>2, <1>6, <2>2 DEF Stream, ProgOK
  <1>7. CASE StreamTimeout \/ Abort \/ CommitRefused
    <2>1. up' \in UpType
      <3>1. [NoUpload EXCEPT !.offset = up.offset] \in UpType
        BY <1>1, NoUploadType DEF UpType
      <3> QED
        BY <1>1, <1>7, <3>1, EndedType DEF StreamTimeout, Abort, CommitRefused
    <2> QED
      BY <1>1, <1>2, <1>7, <2>1 DEF StreamTimeout, Abort, CommitRefused, ProgOK, bootVars
  <1>8. CASE ResumeChunk
    <2>1. up' \in UpType
      BY <1>3, <1>8, NoUploadType DEF ResumeChunk, UpType
    <2> QED
      BY <1>1, <1>2, <1>8, <2>1 DEF ResumeChunk, ProgOK, bootVars
  <1>9. ASSUME NEW i \in Image, ResumeBegin(i)
        PROVE  BlocksOK' /\ MachineOK' /\ up' \in UpType /\ ProgOK'
    <2>1. ASSUME NEW p, WriteProgress(p), p \in [target : Slot, image : Image, confirmed : Nat, attempts : Nat]
          PROVE  ProgOK'
      BY <1>1, <2>1 DEF WriteProgress, ProgOK
    <2>2. ASSUME prog # NoProgress, WriteProgress([prog EXCEPT !.attempts = @ + 1])
          PROVE  ProgOK'
      <3>1. prog \in [target : Slot, image : Image, confirmed : Nat, attempts : Nat]
        BY <1>1, <2>2 DEF ProgOK
      <3>2. [prog EXCEPT !.attempts = @ + 1]
              \in [target : Slot, image : Image, confirmed : Nat, attempts : Nat]
        BY <3>1
      <3> QED
        BY <2>1, <2>2, <3>2
    <2>3. ASSUME NEW c \in Copy, Lookup(c),
                 WriteProgress([target |-> Target(c), image |-> i, confirmed |-> 0,
                                attempts |-> 1])
          PROVE  ProgOK'
      <3>1. [target |-> Target(c), image |-> i, confirmed |-> 0, attempts |-> 1]
              \in [target : Slot, image : Image, confirmed : Nat, attempts : Nat]
        BY <1>1, <2>3
      <3> QED
        BY <2>1, <2>3, <3>1
    <2>4. ProgOK'
      BY <1>9, <2>2, <2>3 DEF ResumeBegin
    <2>5. up' \in UpType /\ card' = card /\ UNCHANGED <<pc, booted, kernel, passed, tries, cuts>>
      BY <1>1, <1>9 DEF ResumeBegin
    <2> QED
      BY <1>2, <2>4, <2>5
  <1>10. CASE ResumeVerify
    <2>1. prog \in [target : Slot, image : Image, confirmed : Nat, attempts : Nat]
      BY <1>1, <1>10 DEF ResumeVerify, InProgress, ProgOK
    <2> DEFINE n == prog.confirmed + 1
               next == [prog EXCEPT !.confirmed = n]
    <2>2. n \in Nat /\ next \in [target : Slot, image : Image, confirmed : Nat, attempts : Nat]
      BY <2>1
    <2>3. prog' \in {prog, next}
      BY <1>10 DEF ResumeVerify, WriteProgress
    <2>4. ProgOK'
      BY <1>1, <2>2, <2>3 DEF ProgOK
    <2> DEFINE done == [up EXCEPT !.on = TRUE, !.target = prog.target, !.total = n,
                                  !.digest = OnCard(prog.target, n)]
    <2>5. up' \in {done, Ended(up)}
      BY <1>10 DEF ResumeVerify
    <2>6. OnCard(prog.target, n) \in Prefixes \cup {<<>>, <<Junk>>}
      BY HashedType DEF OnCard
    <2>7. done \in UpType
      <3> HIDE DEF n
      <3> QED
        BY <1>1, <2>1, <2>2, <2>6 DEF UpType
    <2>8. up' \in UpType
      BY <1>1, <2>5, <2>7, EndedType
    <2> QED
      BY <1>2, <1>10, <2>4, <2>8 DEF ResumeVerify
  <1>11. CASE ResumeAbort
    <2>1. up' \in UpType
      BY <1>1, <1>11, NoUploadType DEF ResumeAbort, UpType
    <2>2. ProgOK'
      BY <1>1, <1>11 DEF ResumeAbort, WriteProgress, ProgOK
    <2> QED
      BY <1>2, <1>11, <2>1, <2>2 DEF ResumeAbort
  <1>12. ASSUME NEW i \in Image, Commit(i)
         PROVE  BlocksOK' /\ MachineOK' /\ up' \in UpType /\ ProgOK'
    <2>1. /\ prog' \in {NoProgress, prog} /\ up' = Ended(up) /\ card' = card
          /\ UNCHANGED <<pc, booted, kernel, tries, cuts>>
          /\ passed' = (passed /\ misread' = misread)
      BY <1>12 DEF Commit
    <2>2. up' \in UpType /\ ProgOK' /\ BlocksOK'
      BY <1>1, <2>1, EndedType DEF ProgOK, BlocksOK
    <2>3. passed' \in BOOLEAN
      BY <2>1, Zenon
    <2> QED
      BY <1>1, <2>1, <2>2, <2>3 DEF MachineOK
  <1> QED
    BY <1>4, <1>5, <1>6, <1>7, <1>8, <1>9, <1>10, <1>11, <1>12 DEF UploadStep

LEMMA TypeStep == UploadTypeOK /\ [UploadNext]_vars => UploadTypeOK' /\ Operation
  <1> SUFFICES ASSUME UploadTypeOK, [UploadNext]_vars PROVE UploadTypeOK' /\ Operation
    OBVIOUS
  <1>1. CASE BootStep
    BY <1>1, BootOperation, BootTypes, TypePartsNext DEF Operation
  <1>2. CASE UploadStep
    BY <1>2, UploadOperation, UploadTypes, TypePartsNext
  <1>3. CASE UNCHANGED vars
    <2>1. CopyOK' /\ Operation
      BY <1>3, Untouched, TypeParts DEF vars, Operation
    <2>2. BlocksOK' /\ MachineOK' /\ FaultsOK' /\ up' \in UpType /\ ProgOK'
      BY <1>3, TypeParts DEF vars, BlocksOK, MachineOK, FaultsOK, ProgOK
    <2> QED
      BY <2>1, <2>2, TypePartsNext
  <1> QED
    BY <1>1, <1>2, <1>3 DEF UploadNext

\* The types of all variables, and with them that an upload is for one of the
\* two slots and that the newest copy of the boot record is a valid one.
THEOREM UploadTypeCorrect == UploadSpec => []UploadTypeOK
  <1> QED
    BY TypeInit, TypeStep, PTL DEF UploadSpec

---------------------------------------------------------------------------
LEMMA RecordInit == UploadInit => Boot!Init
  <1> SUFFICES ASSUME UploadInit PROVE Boot!Init
    OBVIOUS
  <1>1. Rec \in Boot!Record
    BY TypeInit, TypeParts, TheRecord
  <1>2. copy[0].gen = 0 /\ copy[1] = copy[0]
    BY DEF UploadInit, Init, Copy
  <1>3. Rec = copy[0].rec /\ Valid(Stale) /\ Stale = 1
    BY <1>2 DEF Newest, Stale, Other, Valid, Rec
  <1>4. Rec.ready[Rec.active]
    BY <1>3 DEF UploadInit, Init, Copy, Slot
  <1>5. misread = 0
    BY DEF UploadInit, Init
  <1> QED
    BY <1>1, <1>2, <1>3, <1>4, <1>5 DEF Boot!Init

\* What a boot or an upload makes of a record is an operation on it.
LEMMA BootOpAllowed ==
    ASSUME NEW r \in Boot!Record, NEW n, BootOp(r, n)
    PROVE  n \in Boot!Operation(r)
  <1>1. CASE n = Counted(r)
    <2>1. CASE Exhausted(r)
      <3> DEFINE o == Other(r.active)
      <3>1. o \in {x \in Boot!Slot : x # r.active /\ r.ready[x] /\ r.attempts >= Limit}
        BY <2>1 DEF Exhausted, Other, Boot!Slot, Boot!Record
      <3>2. n = [r EXCEPT !.active = o, !.attempts = 0, !.reason = "auto_fallback"]
        BY <1>1, <2>1 DEF Counted
      <3> HIDE DEF o
      <3>3. n \in Boot!Fallback(r)
        BY <3>1, <3>2 DEF Boot!Fallback
      <3> QED
        BY <3>3 DEF Boot!Operation
    <2>2. CASE ~Exhausted(r)
      <3>1. WhyReset(r) \in Boot!Reasons \ {"auto_fallback"}
        BY DEF WhyReset, Boot!Reasons
      <3>2. n = [r EXCEPT !.attempts = IF @ <= Limit THEN @ + 1 ELSE @,
                          !.reason = WhyReset(r)]
        BY <1>1, <2>2 DEF Counted
      <3>3. n \in Boot!Attempt(r)
        BY <3>1, <3>2 DEF Boot!Attempt
      <3> QED
        BY <3>3 DEF Boot!Operation
    <2> QED
      BY <2>1, <2>2
  <1>2. CASE n = Confirmed(r)
    BY <1>2 DEF Confirmed, Boot!Operation, Boot!Confirm
  <1>3. CASE \E s \in Slot : r.ready[s] /\ n = [r EXCEPT !.active = s, !.attempts = 0]
    <2>1. n \in Boot!Activate(r)
      BY <1>3 DEF Slot, Boot!Slot, Boot!Activate
    <2> QED
      BY <2>1 DEF Boot!Operation
  <1>4. CASE n = [r EXCEPT !.reason = "clean_reboot"]
    BY <1>4 DEF Boot!Operation, Boot!NoteReboot
  <1> QED
    BY <1>1, <1>2, <1>3, <1>4 DEF BootOp

LEMMA UploadOpAllowed ==
    ASSUME UploadTypeOK, NEW r \in Boot!Record, NEW n, UploadOp(r, n)
    PROVE  n \in Boot!Operation(r)
  <1>1. up.target \in Boot!Slot
    BY TypeParts DEF UpType, Slot, Boot!Slot
  <1>2. PICK t \in Boot!Slot, i \in Image :
          n = [r EXCEPT !.ready[t] = TRUE, !.image[t] = i]
    BY <1>1 DEF UploadOp, Installed
  <1>3. n \in Boot!Install(r)
    <2> DEFINE into(x) == {[r EXCEPT !.ready[x] = TRUE, !.image[x] = j] : j \in Image}
    <2>1. n \in into(t)
      BY <1>2
    <2> HIDE DEF into
    <2>2. n \in UNION {into(x) : x \in Boot!Slot}
      BY <2>1
    <2> QED
      BY <2>2 DEF into, Boot!Install
  <1> QED
    BY <1>3 DEF Boot!Operation

LEMMA RecordStep ==
    ASSUME UploadTypeOK, Operation
    PROVE  [Boot!Operate \/ Boot!Lose \/ Boot!Misread]_(Boot!recordVars)
  <1>1. CASE Kept /\ misread' \in {misread, misread + 1}
    BY <1>1 DEF Kept, Before, Boot!Misread, Boot!recordVars
  <1>2. ASSUME NEW r \in Found, Source(r), Tore(r)
        PROVE  Boot!Lose \/ Boot!Misread
    BY <1>2 DEF Source, Tore, Before, Boot!Lose, Boot!Misread
  <1>3. ASSUME NEW r \in Found, Source(r), Wrote(r, Rec'), Rec' \in Boot!Operation(r)
        PROVE  Boot!Operate \/ Boot!Misread
    <2>1. CASE r = Rec /\ misread' = misread
      BY <1>3, <2>1 DEF Wrote, Before, Boot!Operate
    <2>2. CASE r \in Before /\ misread' = misread + 1
      <3>1. Before' = Before
        BY <1>3, <2>2 DEF Wrote, Before
      <3> QED
        BY <1>3, <2>2, <3>1 DEF Before, Boot!Misread
    <2> QED
      BY <1>3, <2>1, <2>2 DEF Source
  <1>4. ASSUME NEW r \in Found, BootOp(r, Rec') \/ UploadOp(r, Rec')
        PROVE  Rec' \in Boot!Operation(r)
    BY <1>4, TheRecord, TypeParts, BootOpAllowed, UploadOpAllowed
  <1> QED
    BY <1>1, <1>2, <1>3, <1>4 DEF Operation, BootChange

\* The two copies on the card, written in turn by two programs whose writes
\* may fail, and torn by a loss of power, are one record that changes by the
\* operations of BootRecord, each at once or not at all; and that comes back
\* to the one before only in a lookup that cannot read the newest copy.
THEOREM UploadImplementsRecord == UploadSpec => OneRecord
  <1>1. UploadTypeOK /\ [UploadNext]_vars
          => [Boot!Operate \/ Boot!Lose \/ Boot!Misread]_(Boot!recordVars)
    BY TypeStep, RecordStep
  <1> QED
    BY <1>1, UploadTypeCorrect, RecordInit, PTL DEF UploadSpec, OneRecord, Boot!RecordSpec

---------------------------------------------------------------------------
LEMMA ValidFound == UploadTypeOK => \A d \in Copy : Valid(d) => copy[d].rec \in Found
  BY LookedUp, TypeParts

LEMMA ValidFoundNext == UploadTypeOK' => (\A d \in Copy : Valid(d) => copy[d].rec \in Found)'
  BY ValidFound, PTL

\* A commit is the only step that brings an image into a copy of the record,
\* and it has found the whole of it on the card, whatever came before.
THEOREM CommitSound == UploadSpec => CommittedWhole
  <1> DEFINE Step == \A c \in Copy, s \in Slot :
                       copy'[c].gen >= 0 =>
                         \/ \E d \in Copy : Valid(d) /\ copy[d].rec.image[s] = copy'[c].rec.image[s]
                         \/ Holds(s, copy'[c].rec.image[s])
  <1>1. ASSUME UploadTypeOK, Operation, CopyOK', NEW s \in Slot, NEW n \in Found'
        PROVE  (\E q \in Found : q.image[s] = n.image[s]) \/ Holds(s, n.image[s])
    <2>1. up.target \in Slot /\ Found \subseteq Boot!Record
      BY <1>1, TypeParts, TheRecord DEF UpType
    <2>2. CASE Kept
      BY <1>1, <2>2 DEF Kept, Found
    <2>3. ASSUME NEW r \in Found, Tore(r)
          PROVE  \E q \in Found : q.image[s] = n.image[s]
      BY <1>1, <2>3 DEF Tore, Found
    <2>4. ASSUME NEW r \in Found, Wrote(r, Rec'), BootOp(r, Rec')
          PROVE  \E q \in Found : q.image[s] = n.image[s]
      <3>1. r \in Boot!Record /\ n \in {r, Rec'}
        BY <1>1, <2>1, <2>4 DEF Wrote, Found
      <3>2. Rec'.image = r.image
        BY <2>4, <3>1 DEF BootOp, Counted, Confirmed, Boot!Record
      <3> QED
        BY <3>1, <3>2
    <2>5. ASSUME NEW r \in Found, Wrote(r, Rec'), UploadOp(r, Rec')
          PROVE  (\E q \in Found : q.image[s] = n.image[s]) \/ Holds(s, n.image[s])
      <3>1. r \in Boot!Record /\ n \in {r, Rec'}
        BY <1>1, <2>1, <2>5 DEF Wrote, Found
      <3>2. PICK i \in Image : Holds(up.target, i) /\ Rec' = Installed(r, i)
        BY <2>5 DEF UploadOp
      <3>3. Rec'.image = [r.image EXCEPT ![up.target] = i]
        BY <3>1, <3>2 DEF Installed, Boot!Record
      <3>4. s = up.target => Rec'.image[s] = i
        BY <2>1, <3>1, <3>3 DEF Boot!Record, Boot!Slot, Slot
      <3>5. s # up.target => Rec'.image[s] = r.image[s]
        BY <2>1, <3>1, <3>3 DEF Boot!Record, Boot!Slot, Slot
      <3> QED
        BY <3>1, <3>2, <3>4, <3>5
    <2> QED
      BY <1>1, <2>2, <2>3, <2>4, <2>5 DEF Operation, BootChange
  <1>2. ASSUME UploadTypeOK, UploadTypeOK', Operation PROVE Step
    <2> SUFFICES ASSUME NEW c \in Copy, NEW s \in Slot, copy'[c].gen >= 0
                 PROVE  \/ \E d \in Copy : Valid(d) /\ copy[d].rec.image[s] = copy'[c].rec.image[s]
                        \/ Holds(s, copy'[c].rec.image[s])
      OBVIOUS
    <2>1. copy'[c].rec \in Found' /\ CopyOK'
      BY <1>2, ValidFoundNext DEF Valid, UploadTypeOK, CopyOK
    <2>2. \A q \in Found : \E d \in Copy : Valid(d) /\ copy[d].rec = q
      BY <1>2, FoundValid, TypeParts
    <2> QED
      BY <1>1, <1>2, <2>1, <2>2
  <1>3. UploadTypeOK /\ UploadTypeOK' /\ [UploadNext]_vars => [Step]_vars
    BY <1>2, TypeStep
  <1> QED
    BY <1>3, UploadTypeCorrect, PTL DEF UploadSpec, CommittedWhole

---------------------------------------------------------------------------
\* The invariant: a boot that was confirmed has its count at zero.
CountCleared == passed => Rec.attempts = 0

LEMMA CountKept ==
    ASSUME UploadTypeOK, CountCleared, [UploadNext]_vars
    PROVE  CountCleared'
  <1>1. Operation /\ Found \subseteq Boot!Record /\ Rec \in Found
    BY TypeStep, TypeParts, TheRecord DEF Found
  <1>2. ASSUME NEW c \in Copy, Select(c) PROVE CountCleared'
    BY <1>2 DEF Select, CountCleared
  <1>3. CASE MarkBootGood
    BY <1>3 DEF MarkBootGood, CountCleared
  <1>4. ASSUME passed' = passed, copy' = copy PROVE CountCleared'
    BY <1>4, SameRecord, TypeParts DEF CountCleared, Kept
  <1>5. ASSUME passed' = (passed /\ misread' = misread), ~(pc = "off" /\ pc' = "load")
        PROVE  CountCleared'
    <2> SUFFICES ASSUME passed, misread' = misread PROVE Rec'.attempts = 0
      BY <1>5 DEF CountCleared
    <2>1. Rec.attempts = 0 /\ misread \in Nat
      BY TypeParts, BootAssumption DEF CountCleared, FaultsOK
    <2>2. \A r : Source(r) => r = Rec
      BY <2>1 DEF Source
    <2>3. \/ Kept \/ Tore(Rec)
          \/ Wrote(Rec, Rec') /\ (BootOp(Rec, Rec') \/ UploadOp(Rec, Rec'))
      BY <1>1, <2>2 DEF Operation, BootChange
    <2>4. CASE Kept \/ Tore(Rec)
      BY <2>1, <2>4 DEF Kept, Tore
    <2>5. CASE BootOp(Rec, Rec') \/ UploadOp(Rec, Rec')
      BY <1>1, <1>5, <2>1, <2>5 DEF BootOp, UploadOp, Confirmed, Installed, Boot!Record
    <2> QED
      BY <2>3, <2>4, <2>5
  <1>6. CASE Load \/ NoRecord \/ Hang \/ WatchdogReset
    BY <1>4, <1>6 DEF Load, NoRecord, Hang, WatchdogReset
  <1>7. CASE PowerCut \/ Reboot \/ \E s \in Slot : Activate(s)
    BY <1>5, <1>7 DEF PowerCut, Reboot, Activate
  <1>8. ASSUME NEW i \in Image, Commit(i) PROVE CountCleared'
    BY <1>5, <1>8 DEF Commit, Idle
  <1>9. CASE UploadStep /\ ~\E i \in Image : Commit(i)
    BY <1>4, <1>9 DEF UploadStep, Accumulate, Chunk, Stream, StreamBlock, StreamTimeout, Abort,
         ResumeBegin, ResumeChunk, ResumeVerify, ResumeAbort, CommitRefused, WriteProgress,
         bootVars
  <1>10. CASE UNCHANGED vars
    BY <1>4, <1>10 DEF vars
  <1> QED
    BY <1>2, <1>3, <1>6, <1>7, <1>8, <1>9, <1>10 DEF UploadNext, BootStep

\* A boot that follows a confirmed one is not reported as one that follows
\* a hang, so long as each lookup could read the newest copy: what stage 0
\* tells the two apart by, the count, is zero then, through every reboot,
\* upload, activate and loss of power in between.
THEOREM ConfirmedBootsQuiet == UploadSpec => NoFalseAlarm
  <1> DEFINE Step == passed /\ pc = "off" /\ pc' = "load" /\ misread' = misread
                       => Counted(Rec).reason # "watchdog_or_hang"
  <1>1. UploadInit => CountCleared
    <2> SUFFICES ASSUME UploadInit PROVE Rec.attempts = 0
      BY DEF CountCleared
    <2> QED
      BY DEF UploadInit, Init, Rec, Newest, Copy, Slot
  <1>2. UploadTypeOK /\ CountCleared /\ [UploadNext]_vars => CountCleared'
    BY CountKept
  <1>3. UploadTypeOK /\ CountCleared => Step
    <2> SUFFICES ASSUME UploadTypeOK, Rec.attempts = 0
                 PROVE  Counted(Rec).reason # "watchdog_or_hang"
      BY DEF CountCleared
    <2>1. Rec \in Boot!Record
      BY TypeParts, TheRecord
    <2> QED
      BY <2>1 DEF Counted, WhyReset, Boot!Record
  <1>4. UploadTypeOK /\ CountCleared /\ [UploadNext]_vars => [Step]_bootVars
    BY <1>3
  <1> QED
    BY <1>1, <1>2, <1>4, UploadTypeCorrect, PTL DEF UploadSpec, NoFalseAlarm

---------------------------------------------------------------------------
(* How often a slot is started: each start is counted in the record, was   *)
(* the first after a fallback, or comes with a write that failed or with a *)
(* lookup that missed the newest copy.                                     *)

\* The starts of the booted slot, the one under way included.
Starts == IF pc = "load" THEN tries + 1 ELSE tries

CountedStarts(q) == IF q.attempts <= Limit THEN q.attempts ELSE Limit

Faults == refused + misread

\* The starts are those that record q accounts for, but for k and the faults.
Bounded(q, k) ==
    /\ q.active # booted => Starts <= Faults + k
    /\ q.active = booted /\ q.ready[Other(booted)]
         => Starts <= CountedStarts(q) + 1 + Faults + k

StartsCounted ==
    /\ pc = "up" => tries = 0
    /\ Bounded(Rec, 0)
    /\ \A q \in Before : Bounded(q, 1)

LEMMA StartsInit == UploadInit => StartsCounted
  <1> SUFFICES ASSUME UploadInit PROVE StartsCounted
    OBVIOUS
  <1>1. UploadTypeOK /\ Rec \in Found
    BY TypeInit DEF Found
  <1>2. tries = 0 /\ pc = "off" /\ refused = 0 /\ misread = 0
    BY DEF UploadInit, Init
  <1>3. \A q \in Found : CountedStarts(q) \in Nat
    BY <1>1, TypeParts, TheRecord, BootAssumption DEF CountedStarts, Boot!Record
  <1>4. \A q \in Found : Bounded(q, 0) /\ Bounded(q, 1)
    <2> TAKE q \in Found
    <2> DEFINE n == CountedStarts(q)
    <2>1. n \in Nat
      BY <1>3
    <2>2. Starts = 0 /\ Faults = 0
      BY <1>2 DEF Starts, Faults
    <2> HIDE DEF n
    <2>3. 0 <= 0 + 1 /\ 0 <= n + 1 + 0 + 0 /\ 0 <= n + 1 + 0 + 1
      BY <2>1
    <2> QED
      BY <2>2, <2>3 DEF Bounded, n
  <1> QED
    BY <1>1, <1>2, <1>4 DEF StartsCounted, Found

LEMMA StartsTypes ==
    ASSUME UploadTypeOK
    PROVE  /\ tries \in Nat /\ refused \in Nat /\ misread \in Nat /\ Limit \in Nat
           /\ booted \in {0, 1} /\ Starts \in Nat /\ Faults \in Nat
           /\ Found \subseteq Boot!Record /\ Rec \in Found
           /\ \A q \in Found : /\ q.active \in {0, 1} /\ q.attempts \in 0 .. Limit + 1
                               /\ q.ready \in [Slot -> BOOLEAN]
                               /\ CountedStarts(q) \in 0 .. Limit
  <1>1. MachineOK /\ FaultsOK /\ Found \subseteq Boot!Record /\ Rec \in Found
    BY TypeParts, TheRecord DEF Found
  <1>2. \A q \in Boot!Record : /\ q.active \in {0, 1} /\ q.attempts \in 0 .. Limit + 1
                               /\ q.ready \in [Slot -> BOOLEAN]
                               /\ CountedStarts(q) \in 0 .. Limit
    BY BootAssumption DEF Boot!Record, Boot!Slot, Slot, CountedStarts
  <1>3. tries \in Nat /\ refused \in Nat /\ misread \in Nat /\ booted \in {0, 1}
    BY <1>1, BootAssumption DEF MachineOK, FaultsOK, MaxTries, Slot
  <1> QED
    BY <1>1, <1>2, <1>3, BootAssumption DEF Starts, Faults

LEMMA StartsTypesNext ==
    UploadTypeOK' => /\ (tries \in Nat)' /\ (Starts \in Nat)' /\ (Faults \in Nat)'
                     /\ (booted \in {0, 1})'
                     /\ (\A q \in Found : CountedStarts(q) \in 0 .. Limit)'
  <1>1. UploadTypeOK => /\ tries \in Nat /\ Starts \in Nat /\ Faults \in Nat
                        /\ booted \in {0, 1}
                        /\ \A q \in Found : CountedStarts(q) \in 0 .. Limit
    BY StartsTypes
  <1> QED
    BY <1>1, PTL

\* What a lookup found is bounded as the record is, once a miss is counted.
LEMMA SourceBounded ==
    ASSUME UploadTypeOK, StartsCounted, NEW r \in Found, Source(r)
    PROVE  /\ misread' \in Nat
           /\ r.active # booted => Starts <= refused + misread'
           /\ r.active = booted /\ r.ready[Other(booted)]
                => Starts <= CountedStarts(r) + 1 + refused + misread'
  <1>1. CASE r = Rec /\ misread' = misread
    BY <1>1, StartsTypes DEF StartsCounted, Bounded, Faults
  <1>2. CASE r \in Before /\ misread' = misread + 1
    BY <1>2, StartsTypes DEF StartsCounted, Bounded, Faults
  <1> QED
    BY <1>1, <1>2 DEF Source

\* Where nothing new is written, each start that is added comes with a fault.
LEMMA KeptBounded ==
    ASSUME UploadTypeOK, UploadTypeOK', StartsCounted, Kept, pc' # "up",
           \/ booted' = booted /\ Starts' <= Starts + Faults' - Faults /\ Faults <= Faults'
           \/ Starts' <= 1 /\ 1 <= Faults'
    PROVE  StartsCounted'
  <1>1. ASSUME NEW q \in Found, NEW k \in {0, 1}, Bounded(q, k) PROVE Bounded(q, k)'
    <2>1. /\ Starts \in Nat /\ Starts' \in Nat /\ Faults \in Nat /\ Faults' \in Nat
          /\ CountedStarts(q) \in Nat /\ k \in Nat
      BY StartsTypes, StartsTypesNext
    <2>2. CountedStarts(q)' = CountedStarts(q)
      BY DEF CountedStarts
    <2>3. CASE booted' = booted /\ Starts' <= Starts + Faults' - Faults
      <3>1. \A a, b, f, g, m \in Nat : b <= a + g - f /\ a <= f + m => b <= g + m
        OBVIOUS
      <3>2. \A a, b, f, g, m, n \in Nat :
              b <= a + g - f /\ a <= n + 1 + f + m => b <= n + 1 + g + m
        OBVIOUS
      <3>3. Starts <= Faults + k => Starts' <= Faults' + k
        BY <2>1, <2>3, <3>1, Zenon
      <3>4. Starts <= CountedStarts(q) + 1 + Faults + k
              => Starts' <= CountedStarts(q) + 1 + Faults' + k
        BY <2>1, <2>3, <3>2, Zenon
      <3> QED
        BY <1>1, <2>2, <2>3, <3>3, <3>4, Zenon DEF Bounded
    <2>4. CASE Starts' <= 1 /\ 1 <= Faults'
      <3>1. \A b, g, n, m \in Nat : b <= 1 /\ 1 <= g => b <= g + m /\ b <= n + 1 + g + m
        OBVIOUS
      <3>2. Starts' <= Faults' + k /\ Starts' <= CountedStarts(q) + 1 + Faults' + k
        BY <2>1, <2>4, <3>1, Zenon
      <3> QED
        BY <2>2, <3>2, Zenon DEF Bounded
    <2> QED
      BY <2>3, <2>4
  <1>2. Rec \in Found /\ Before \subseteq Found /\ Rec' = Rec /\ Before' = Before
    BY DEF Found, Kept
  <1>3. Bounded(Rec, 0)'
    <2>1. PICK q \in Found : q = Rec
      BY <1>2
    <2>2. Bounded(q, 0)'
      BY <1>1, <2>1 DEF StartsCounted
    <2> QED
      BY <1>2, <2>1, <2>2 DEF Bounded, CountedStarts
  <1>4. \A q \in Before' : Bounded(q, 1)'
    BY <1>1, <1>2 DEF StartsCounted
  <1> QED
    BY <1>3, <1>4 DEF StartsCounted

\* A copy is torn: what remains is the record that the lookup found.
LEMMA TornBounded ==
    ASSUME UploadTypeOK, UploadTypeOK', StartsCounted, NEW r \in Found, Source(r), Tore(r),
           refused' = refused, booted' = booted, Starts' <= Starts, pc' # "up"
    PROVE  StartsCounted'
  <1>1. /\ r.active # booted => Starts <= refused + misread'
        /\ r.active = booted /\ r.ready[Other(booted)]
             => Starts <= CountedStarts(r) + 1 + refused + misread'
        /\ refused \in Nat /\ misread' \in Nat /\ CountedStarts(r) \in Nat
        /\ Starts \in Nat /\ Starts' \in Nat
    BY SourceBounded, StartsTypes, StartsTypesNext
  <1>2. Faults' = refused + misread'
    BY DEF Faults
  <1>3. Rec' = r /\ Before' = {}
    BY DEF Tore
  <1>4. \A a, b, f, g, n \in Nat : /\ b <= a /\ a <= f + g => b <= f + g + 0
                                   /\ b <= a /\ a <= n + 1 + f + g => b <= n + 1 + (f + g) + 0
    OBVIOUS
  <1>5. /\ Starts <= refused + misread' => Starts' <= Faults' + 0
        /\ Starts <= CountedStarts(r) + 1 + refused + misread'
             => Starts' <= CountedStarts(r) + 1 + Faults' + 0
    BY <1>1, <1>2, <1>4, Zenon
  <1>6. Bounded(Rec, 0)'
    BY <1>1, <1>3, <1>5, Zenon DEF Bounded, CountedStarts
  <1> QED
    BY <1>3, <1>6 DEF StartsCounted

\* Stage 0 chooses: the start that follows is counted, or is the first of
\* the other slot, or a write has failed.
LEMMA SelectStarts ==
    ASSUME UploadTypeOK, UploadTypeOK', StartsCounted, NEW c \in Copy, Select(c)
    PROVE  StartsCounted'
  <1>1. PICK r \in Found : r = copy[c].rec /\ Source(r) /\ r \in Boot!Record
    BY LookupSource, TypeParts DEF Select
  <1> DEFINE n == Counted(r)
  <1>2. /\ n \in Boot!Record /\ booted' = n.active /\ pc = "off" /\ pc' = "load"
        /\ tries' = IF n.active = booted THEN tries ELSE 0
    BY <1>1, RecordChanges DEF Select
  <1>3. \/ Wrote(r, n) /\ refused' = refused
        \/ Tore(r) /\ refused' = refused + 1
        \/ Kept /\ refused' = refused + 1
    BY <1>1, <1>2, WriteRecord, TypeParts DEF Select, FaultsOK
  \* The starts and the slot after the step, the faults before it, and those
  \* with a lookup that missed counted.
  <1>4. PICK t \in Nat, b \in {0, 1}, f \in Nat, g \in Nat :
          /\ t = tries' /\ b = booted' /\ f = refused + misread /\ g = refused + misread'
          /\ g \in {f, f + 1}
    <2>1. /\ refused \in Nat /\ misread \in Nat /\ misread' \in {misread, misread + 1}
          /\ tries' \in Nat /\ booted' \in {0, 1}
      BY <1>1, StartsTypes, StartsTypesNext DEF Source
    <2>2. \A p, m \in Nat : /\ p + m \in Nat /\ p + (m + 1) \in Nat
                             /\ p + (m + 1) = (p + m) + 1
      OBVIOUS
    <2>3. refused + misread \in Nat /\ refused + misread' \in Nat
          /\ refused + misread' \in {refused + misread, (refused + misread) + 1}
      BY <2>1, <2>2, ZenonT(60)
    <2> QED
      BY <2>1, <2>3, Zenon
  <1>5. /\ Starts = tries /\ Starts' = t + 1 /\ Faults = f
        /\ refused' = refused => Faults' = g
        /\ refused' = refused + 1 => Faults' = g + 1
    <2>1. Starts = tries /\ Starts' = tries' + 1 /\ Faults = refused + misread
          /\ Faults' = refused' + misread'
      BY <1>2 DEF Starts, Faults
    <2>2. refused \in Nat /\ misread' \in Nat
      BY <1>1, StartsTypes, SourceBounded
    <2>3. refused' = refused + 1 => refused' + misread' = (refused + misread') + 1
      BY <2>2
    <2> QED
      BY <1>4, <2>1, <2>3
  <1>6. /\ tries \in Nat /\ Limit \in Nat /\ booted \in {0, 1}
        /\ r.active \in {0, 1} /\ r.attempts \in 0 .. Limit + 1
        /\ r.active # booted => tries <= g
        /\ r.active = booted /\ r.ready[Other(booted)] => tries <= CountedStarts(r) + 1 + g
        /\ CountedStarts(r) = IF r.attempts <= Limit THEN r.attempts ELSE Limit
    <2>1. /\ tries \in Nat /\ Limit \in Nat /\ booted \in {0, 1} /\ refused \in Nat /\ misread' \in Nat
          /\ r.active \in {0, 1} /\ r.attempts \in 0 .. Limit + 1 /\ CountedStarts(r) \in Nat
      BY <1>1, StartsTypes, SourceBounded
    <2>2. CountedStarts(r) + 1 + refused + misread' = CountedStarts(r) + 1 + (refused + misread')
      BY <2>1
    <2>3. /\ r.active # booted => tries <= g
          /\ r.active = booted /\ r.ready[Other(booted)] => tries <= CountedStarts(r) + 1 + g
      BY <1>1, <1>4, <1>5, <2>2, SourceBounded
    <2> QED
      BY <2>1, <2>3 DEF CountedStarts
  <1>7. b = n.active /\ t = IF b = booted THEN tries ELSE 0
    BY <1>2, <1>4
  \* What r says of the slot that is started now.
  <1>8. /\ r.active # b => t <= g /\ n.attempts = 0
        /\ r.active = b /\ r.ready[Other(b)]
             => r.attempts < Limit /\ t <= r.attempts + 1 + g /\ n.attempts = r.attempts + 1
        /\ r.active = b => n.ready = r.ready
    <2>1. CASE Exhausted(r)
      <3>1. n.active = Other(r.active) /\ n.attempts = 0
        BY <1>1, <2>1 DEF Counted, Boot!Record
      <3> HIDE DEF n
      <3> QED
        BY <1>6, <1>7, <3>1 DEF Other
    <2>2. CASE ~Exhausted(r)
      <3>1. /\ n.active = r.active /\ n.ready = r.ready
            /\ n.attempts = IF r.attempts <= Limit THEN r.attempts + 1 ELSE r.attempts
        BY <1>1, <2>2 DEF Counted, Boot!Record
      <3> HIDE DEF n
      <3>2. ASSUME r.ready[Other(b)] PROVE r.attempts < Limit
        BY <1>6, <1>7, <2>2, <3>1, <3>2 DEF Exhausted
      <3>3. ASSUME r.ready[Other(b)] PROVE t <= r.attempts + 1 + g
        <4>1. CASE r.active = booted
          <5>1. tries <= CountedStarts(r) + 1 + g
            BY <1>6, <1>7, <3>1, <3>3, <4>1
          <5> QED
            BY <1>6, <1>7, <3>1, <3>2, <3>3, <4>1, <5>1
        <4>2. CASE r.active # booted
          BY <1>6, <1>7, <3>1, <4>2
        <4> QED
          BY <4>1, <4>2
      <3> QED
        BY <1>6, <1>7, <3>1, <3>2, <3>3
    <2> QED
      BY <2>1, <2>2
  <1>9. CountedStarts(r) \in Nat /\ (r.attempts < Limit => CountedStarts(r) = r.attempts)
    BY <1>6
  <1>10. CountedStarts(n) \in Nat /\ (n.attempts <= Limit => CountedStarts(n) = n.attempts)
    BY <1>2, <1>6 DEF CountedStarts, Boot!Record
  <1> HIDE DEF n
  <1>11. /\ r.active # b => t + 1 <= g + 1
         /\ r.active = b /\ r.ready[Other(b)] => t + 1 <= CountedStarts(r) + 1 + g + 1
    BY <1>6, <1>8, <1>9
  <1>12. CASE Kept /\ refused' = refused + 1
    <2>1. \/ b = booted /\ t + 1 <= tries + (g + 1) - f /\ f <= g + 1
          \/ t + 1 <= 1 /\ 1 <= g + 1
      BY <1>4, <1>6, <1>7
    <2>2. \/ booted' = booted /\ Starts' <= Starts + Faults' - Faults /\ Faults <= Faults'
          \/ Starts' <= 1 /\ 1 <= Faults'
      BY <1>4, <1>5, <1>12, <2>1, Zenon
    <2> QED
      BY <1>2, <1>12, <2>2, KeptBounded
  <1>13. CASE Tore(r) /\ refused' = refused + 1
    <2>1. /\ r.active # b => t + 1 <= g + 1 + 0
          /\ r.active = b /\ r.ready[Other(b)]
               => t + 1 <= CountedStarts(r) + 1 + (g + 1) + 0
      BY <1>9, <1>11
    <2>2. Rec' = r /\ Before' = {}
      BY <1>13 DEF Tore
    <2>3. Bounded(Rec, 0)'
      BY <1>4, <1>5, <1>13, <2>1, <2>2, Zenon DEF Bounded, CountedStarts
    <2> QED
      BY <1>2, <2>2, <2>3 DEF StartsCounted
  <1>14. CASE Wrote(r, n) /\ refused' = refused
    <2>1. Rec' = n /\ Before' = {r}
      BY <1>14 DEF Wrote
    <2>2. n.ready[Other(b)] => t + 1 <= CountedStarts(n) + 1 + g + 0
      <3>1. CASE r.active # b
        BY <1>8, <1>10, <3>1
      <3>2. CASE r.active = b
        <4> SUFFICES ASSUME r.ready[Other(b)] PROVE t + 1 <= CountedStarts(n) + 1 + g + 0
          BY <1>8, <3>2
        <4>1. CountedStarts(n) = r.attempts + 1
          BY <1>6, <1>8, <1>10, <3>2
        <4> QED
          BY <1>6, <1>8, <3>2, <4>1
      <3> QED
        BY <3>1, <3>2
    <2>3. Bounded(Rec, 0)'
      BY <1>4, <1>5, <1>7, <1>14, <2>1, <2>2, Zenon DEF Bounded, CountedStarts
    <2>4. Bounded(r, 1)'
      BY <1>4, <1>5, <1>11, <1>14, Zenon DEF Bounded, CountedStarts
    <2> QED
      BY <1>2, <2>1, <2>3, <2>4 DEF StartsCounted
  <1> QED
    BY <1>3, <1>12, <1>13, <1>14

LEMMA StartsStep ==
    ASSUME UploadTypeOK, UploadTypeOK', StartsCounted, [UploadNext]_vars
    PROVE  StartsCounted'
  <1>1. ASSUME tries' = 0, pc' # "load" PROVE StartsCounted'
    <2>1. Starts' = 0 /\ Faults' \in Nat /\ \A q \in Found' : CountedStarts(q)' \in Nat
      BY <1>1, StartsTypes, StartsTypesNext DEF Starts
    <2>2. \A n, f \in Nat : /\ 0 <= f + 0 /\ 0 <= f + 1
                            /\ 0 <= n + 1 + f + 0 /\ 0 <= n + 1 + f + 1
      OBVIOUS
    <2>3. \A q \in Found' : Bounded(q, 0)' /\ Bounded(q, 1)'
      BY <2>1, <2>2, Zenon DEF Bounded
    <2>4. PICK q \in Found' : q = Rec'
      BY DEF Found
    <2>5. Bounded(Rec, 0)'
      BY <2>3, <2>4 DEF Bounded, CountedStarts
    <2>6. (\A p \in Before : Bounded(p, 1))'
      BY <2>3 DEF Found
    <2> QED
      BY <1>1, <2>5, <2>6 DEF StartsCounted
  <1>2. ASSUME Kept, misread' \in {misread, misread + 1}, refused' = refused,
               booted' = booted, Starts' <= Starts, pc' # "up"
        PROVE  StartsCounted'
    <2>1. Faults <= Faults' /\ Starts \in Nat /\ Starts' \in Nat /\ Faults \in Nat /\ Faults' \in Nat
      BY <1>2, StartsTypes, StartsTypesNext DEF Faults
    <2>2. \A a, b, f, g \in Nat : b <= a /\ f <= g => b <= a + g - f
      OBVIOUS
    <2>3. Starts' <= Starts + Faults' - Faults
      BY <1>2, <2>1, <2>2, Zenon
    <2> QED
      BY <1>2, <2>1, <2>3, KeptBounded
  <1>3. ASSUME NEW c \in Copy, Select(c) PROVE StartsCounted'
    BY <1>3, SelectStarts
  <1>4. CASE MarkBootGood
    BY <1>1, <1>4 DEF MarkBootGood
  <1>5. CASE Load \/ Hang \/ WatchdogReset \/ NoRecord
    <2>1. Kept /\ booted' = booted /\ refused' = refused /\ pc' # "up"
      BY <1>5, SameRecord, TypeParts DEF Load, Hang, WatchdogReset, NoRecord
    <2>2. misread' \in {misread, misread + 1}
      BY <1>5 DEF Load, Hang, WatchdogReset, NoRecord, LookupFails, Miss
    <2>3. Starts' <= Starts
      BY <1>5, StartsTypes DEF Load, Hang, WatchdogReset, NoRecord, Starts
    <2> QED
      BY <1>2, <2>1, <2>2, <2>3
  <1>6. CASE PowerCut
    <2>1. booted' = booted /\ refused' = refused /\ pc' # "up"
      BY <1>6 DEF PowerCut
    <2>2. Starts' <= Starts
      BY <1>6, StartsTypes DEF PowerCut, Starts
    <2>3. CASE copy' = copy /\ misread' = misread
      BY <1>2, <2>1, <2>2, <2>3, SameRecord, TypeParts
    <2>4. ASSUME NEW c \in Copy, Lookup(c), copy' = Saved(c, Torn) PROVE StartsCounted'
      <3>1. PICK r \in Found : r = copy[c].rec /\ Source(r) /\ r \in Boot!Record
        BY <2>4, LookupSource, TypeParts
      <3>2. Tore(r)
        BY <2>4, <3>1, SavedRecord, TypeParts
      <3> QED
        BY <2>1, <2>2, <3>1, <3>2, TornBounded
    <2> QED
      BY <1>6, <2>3, <2>4 DEF PowerCut
  <1>7. CASE pc = "up" /\ pc' \in {"up", "off"} /\ tries' = tries
    BY <1>1, <1>7 DEF StartsCounted
  <1>8. CASE Reboot \/ \E s \in Slot : Activate(s)
    BY <1>7, <1>8 DEF Reboot, Activate
  <1>9. CASE UploadStep
    BY <1>7, <1>9 DEF UploadStep, Accumulate, Chunk, Stream, StreamBlock, StreamTimeout, Abort,
         ResumeBegin, ResumeChunk, ResumeVerify, ResumeAbort, Commit, CommitRefused, Idle, bootVars
  <1>10. CASE UNCHANGED vars
    <2>1. CASE pc = "up"
      BY <1>7, <1>10, <2>1 DEF vars
    <2>2. CASE pc # "up"
      <3>1. Kept
        BY <1>10, SameRecord, TypeParts DEF vars
      <3> QED
        BY <1>2, <1>10, <2>2, <3>1, StartsTypes DEF vars, Starts
    <2> QED
      BY <2>1, <2>2
  <1> QED
    BY <1>3, <1>4, <1>5, <1>6, <1>8, <1>9, <1>10 DEF UploadNext, BootStep

\* While the other slot is ready, no slot is started in vain more often in a
\* row than bootlimit and one, and once for each write of the record that
\* failed and for each lookup that missed the newest copy.
THEOREM RetriesAreBounded == UploadSpec => []RetriesBounded
  <1>1. UploadTypeOK /\ UploadTypeOK' /\ StartsCounted /\ [UploadNext]_vars => StartsCounted'
    BY StartsStep
  <1>2. UploadTypeOK /\ StartsCounted => RetriesBounded
    <2> SUFFICES ASSUME UploadTypeOK, StartsCounted, Rec.ready[Other(booted)]
                 PROVE  tries <= Limit + 1 + refused + misread
      BY DEF RetriesBounded
    <2>1. /\ CountedStarts(Rec) \in 0 .. Limit /\ Limit \in Nat /\ tries \in Nat
          /\ refused \in Nat /\ misread \in Nat /\ Rec.active \in {0, 1} /\ booted \in {0, 1}
          /\ tries <= Starts /\ Starts \in Nat /\ Faults = refused + misread
      BY StartsTypes DEF Starts, Faults
    <2> QED
      BY <2>1 DEF StartsCounted, Bounded
  <1> QED
    BY <1>1, <1>2, StartsInit, UploadTypeCorrect, PTL DEF UploadSpec

---------------------------------------------------------------------------
(* The machine never loses the way back, when the operator keeps to the    *)
(* rules: the slot that is running is whole, and healthy, and no upload    *)
(* writes into it, whichever copy of the record its lookup found.          *)

SlotGood(q, s) == q.ready[s] /\ q.image[s] \in Healthy /\ Holds(s, q.image[s])

\* What is known of the slots at each stage of a boot.
SlotsKept ==
    /\ \A q \in Found : q.ready[q.active] /\ \E s \in Slot : SlotGood(q, s)
    /\ pc = "booting" => Holds(booted, kernel)
    /\ pc = "up" => kernel \in Healthy /\ Holds(booted, kernel)

\* While an upload is in progress, both copies of the record rely on the
\* slot that is running; the upload is for the other one, and fits.
UploadElsewhere ==
    /\ up.expect > 0 => up.on
    /\ up.on => up.target # booted /\ \A q \in Found : SlotGood(q, booted)
    /\ up.expect > 0 => up.total < up.expect /\ up.offset + up.expect <= SlotBlocks

WayBack == SlotsKept /\ UploadElsewhere

LEMMA Rest0 == NoUpload.expect = 0 /\ ~NoUpload.on
  BY DEF NoUpload

LEMMA WayBackInit == UploadInit => WayBack
  <1> SUFFICES ASSUME UploadInit PROVE WayBack
    OBVIOUS
  <1>1. PICK i \in Healthy :
          /\ copy = [c \in Copy |->
                       [gen |-> 0,
                        rec |-> [active |-> 0, reason |-> "power_on", attempts |-> 0,
                                 ready |-> [s \in Slot |-> s = 0],
                                 image |-> [s \in Slot |-> IF s = 0 THEN i ELSE Blank]]]]
          /\ card = [b \in 0 .. 2 * SlotBlocks - 1 |->
                       IF b < Len(i) THEN i[b + 1] ELSE Junk]
          /\ pc = "off"
    BY DEF UploadInit, Init
  <1>2. i \in Image /\ Len(i) \in 1 .. SlotBlocks /\ SlotBlocks \in Nat \ {0}
    BY BootAssumption
  <1>3. ASSUME NEW q \in Found
        PROVE  q.active = 0 /\ q.ready[0] /\ q.image[0] = i
    <2>1. PICK d \in Copy : copy[d].rec = q
      BY TypeInit, TypeParts, FoundValid
    <2>2. copy[d].rec = [active |-> 0, reason |-> "power_on", attempts |-> 0,
                         ready |-> [s \in Slot |-> s = 0],
                         image |-> [s \in Slot |-> IF s = 0 THEN i ELSE Blank]]
      BY <1>1
    <2>3. /\ q.active = 0 /\ q.ready = [s \in Slot |-> s = 0]
          /\ q.image = [s \in Slot |-> IF s = 0 THEN i ELSE Blank]
      BY <2>1, <2>2
    <2> QED
      BY <2>3 DEF Slot
  <1>4. Holds(0, i)
    <2>1. ASSUME NEW n \in 1 .. Len(i) PROVE card[0 * SlotBlocks + n - 1] = i[n]
      <3>1. n - 1 \in 0 .. 2 * SlotBlocks - 1 /\ n - 1 < Len(i) /\ (n - 1) + 1 = n
            /\ 0 * SlotBlocks + n - 1 = n - 1
        BY <1>2, <2>1
      <3> QED
        BY <1>1, <3>1
    <2> QED
      BY <1>2, <2>1 DEF Holds
  <1>5. \A q \in Found : q.ready[q.active] /\ SlotGood(q, 0)
    BY <1>3, <1>4 DEF SlotGood
  <1>6. SlotsKept
    BY <1>1, <1>5 DEF SlotsKept, Slot
  <1>7. UploadElsewhere
    BY Rest0 DEF UploadInit, UploadElsewhere
  <1> QED
    BY <1>6, <1>7 DEF WayBack

---------------------------------------------------------------------------
\* What may be found after a step is what could be found before, or what an
\* operation made of it.
LEMMA BootFoundNext ==
    ASSUME UploadTypeOK, BootChange, NEW n \in Found'
    PROVE  n \in Found \/ \E r \in Found : BootOp(r, n)
  <1>1. CASE Kept
    BY <1>1 DEF Kept, Found
  <1>2. ASSUME NEW r \in Found, Tore(r) PROVE n \in Found
    BY <1>2 DEF Tore, Found
  <1>3. ASSUME NEW r \in Found, Wrote(r, Rec'), BootOp(r, Rec')
        PROVE  n \in Found \/ BootOp(r, n)
    BY <1>3 DEF Wrote, Found
  <1> QED
    BY <1>1, <1>2, <1>3 DEF BootChange

\* A boot changes neither what is ready nor an image, and what it makes
\* active is ready.
LEMMA BootOpKeeps ==
    ASSUME NEW r \in Boot!Record, NEW n, BootOp(r, n)
    PROVE  /\ n.ready = r.ready /\ n.image = r.image
           /\ r.ready[r.active] => n.ready[n.active]
  <1>1. CASE n = Counted(r)
    <2>1. CASE Exhausted(r)
      BY <1>1, <2>1 DEF Counted, Exhausted, Boot!Record
    <2>2. CASE ~Exhausted(r)
      BY <1>1, <2>2 DEF Counted, Boot!Record
    <2> QED
      BY <2>1, <2>2
  <1>2. CASE n = Confirmed(r) \/ n = [r EXCEPT !.reason = "clean_reboot"]
    BY <1>2 DEF Confirmed, Boot!Record
  <1>3. CASE \E s \in Slot : r.ready[s] /\ n = [r EXCEPT !.active = s, !.attempts = 0]
    BY <1>3 DEF Boot!Record
  <1> QED
    BY <1>1, <1>2, <1>3 DEF BootOp

LEMMA BootWayBack ==
    ASSUME UploadTypeOK, BootStep, WayBack
    PROVE  WayBack'
  <1>1. BootChange /\ Found \subseteq Boot!Record
    <2>1. BootChange
      BY BootOperation
    <2>2. CopyOK
      BY TypeParts, Zenon
    <2> QED
      BY <2>1, <2>2, TheRecord
  <1>2. card' = card
    BY DEF BootStep, Select, NoRecord, Load, MarkBootGood, Hang, WatchdogReset, PowerCut,
       Reboot, Activate
  <1>3. \A s, i : Holds(s, i)' <=> Holds(s, i)
    BY <1>2 DEF Holds
  <1>4. \A n \in Found' : \E r \in Found : /\ n.ready = r.ready /\ n.image = r.image
                                           /\ r.ready[r.active] => n.ready[n.active]
    BY <1>1, BootFoundNext, BootOpKeeps
  <1>5. ASSUME NEW n \in Found', NEW r \in Found, n.ready = r.ready, n.image = r.image,
               NEW s
        PROVE  SlotGood(r, s) => SlotGood(n, s)'
    BY <1>3, <1>5 DEF SlotGood
  <1>6. \A n \in Found' : n.ready[n.active] /\ \E s \in Slot : SlotGood(n, s)'
    BY <1>4, <1>5 DEF WayBack, SlotsKept
  <1>7. \A s : (\A q \in Found : SlotGood(q, s)) => \A n \in Found' : SlotGood(n, s)'
    BY <1>4, <1>5
  <1>8. up' = NoUpload \/ (up' = up /\ booted' = booted)
    <2>1. ASSUME NEW c \in Copy, Select(c) PROVE pc' # "up"
      BY <2>1 DEF Select
    <2>2. up' = IF pc' = "up" THEN up ELSE NoUpload
      BY DEF BootStep
    <2>3. CASE \E c \in Copy : Select(c)
      BY <2>1, <2>2, <2>3
    <2>4. CASE ~\E c \in Copy : Select(c)
      <3>1. booted' = booted
        BY <2>4 DEF BootStep, NoRecord, Load, MarkBootGood, Hang, WatchdogReset, PowerCut,
           Reboot, Activate
      <3> QED
        BY <2>2, <3>1
    <2> QED
      BY <2>3, <2>4
  <1>9. UploadElsewhere'
    <2>1. CASE up' = NoUpload
      BY <2>1, Rest0 DEF UploadElsewhere
    <2>2. CASE up' = up /\ booted' = booted
      <3>1. up.on => \A n \in Found' : SlotGood(n, booted)'
        <4>1. ASSUME NEW b, b = booted PROVE up.on => \A n \in Found' : SlotGood(n, b)'
          BY <1>7, <4>1 DEF WayBack, UploadElsewhere
        <4>2. ASSUME NEW b, b = booted, NEW n, SlotGood(n, b)' PROVE SlotGood(n, booted)'
          BY <2>2, <4>2 DEF SlotGood, Holds
        <4> QED
          BY <4>1, <4>2
      <3> QED
        BY <2>2, <3>1 DEF WayBack, UploadElsewhere
    <2> QED
      BY <1>8, <2>1, <2>2
  <1>10. /\ pc' = "booting" => Holds(booted, kernel)'
         /\ pc' = "up" => (kernel \in Healthy)' /\ Holds(booted, kernel)'
    <2>1. ASSUME NEW b, NEW k, b = booted, k = kernel, booted' = booted, kernel' = kernel
          PROVE  Holds(booted, kernel)' <=> Holds(b, k)
      BY <1>2, <2>1 DEF Holds
    <2>2. CASE Load
      BY <2>1, <2>2 DEF Load
    <2>3. CASE MarkBootGood
      BY <2>1, <2>3 DEF MarkBootGood, WayBack, SlotsKept
    <2>4. ASSUME NEW s \in Slot, Activate(s)
          PROVE  /\ pc' = "up" /\ (kernel \in Healthy)' /\ Holds(booted, kernel)'
      BY <2>1, <2>4 DEF Activate, WayBack, SlotsKept
    <2>5. CASE NoRecord \/ Hang \/ WatchdogReset \/ PowerCut \/ Reboot \/ \E c \in Copy : Select(c)
      BY <2>5 DEF NoRecord, Hang, WatchdogReset, PowerCut, Reboot, Select
    <2> QED
      BY <2>2, <2>3, <2>4, <2>5 DEF BootStep
  <1>11. SlotsKept'
    BY <1>6, <1>10 DEF SlotsKept
  <1> QED
    BY <1>9, <1>11 DEF WayBack

---------------------------------------------------------------------------
\* A block that goes into the other slot leaves this one as it is.
LEMMA CardKept ==
    ASSUME UploadTypeOK, NEW u \in UpType, NEW b, Accumulate(u, b),
           u.target # booted, u.offset + u.total < SlotBlocks, NEW i \in Image,
           Holds(booted, i)
    PROVE  Holds(booted, i)'
  <1> DEFINE at == u.target * SlotBlocks + u.offset + u.total
  <1>1. /\ SlotBlocks \in Nat \ {0} /\ Len(i) \in 1 .. SlotBlocks
        /\ booted \in {0, 1} /\ u.target \in {0, 1} /\ u.offset + u.total \in Nat
        /\ u.offset \in Nat /\ u.total \in Nat
        /\ card \in [0 .. 2 * SlotBlocks - 1 -> Known]
    BY TypeParts, BootAssumption DEF MachineOK, BlocksOK, UpType, Slot
  <1>2. booted' = booted /\ (card' = [card EXCEPT ![at] = b] \/ card' = card)
    BY DEF Accumulate
  <1>3. ASSUME NEW n \in 1 .. Len(i)
        PROVE  card'[booted * SlotBlocks + n - 1] = card[booted * SlotBlocks + n - 1]
    <2> DEFINE k == booted * SlotBlocks + n - 1
    <2>1. k # at
      <3>1. CASE booted = 0 /\ u.target = 1
        <4>1. k = n - 1 /\ at = SlotBlocks + u.offset + u.total
          BY <1>1, <3>1
        <4> QED
          BY <1>1, <4>1
      <3>2. CASE booted = 1 /\ u.target = 0
        <4>1. k = SlotBlocks + n - 1 /\ at = u.offset + u.total
          BY <1>1, <3>2
        <4> QED
          BY <1>1, <4>1
      <3> QED
        BY <1>1, <3>1, <3>2
    <2>2. k \in 0 .. 2 * SlotBlocks - 1
      <3>1. CASE booted = 0
        BY <1>1, <3>1
      <3>2. CASE booted = 1
        BY <1>1, <3>2
      <3> QED
        BY <1>1, <3>1, <3>2
    <2> HIDE DEF k, at
    <2>3. card'[k] = card[k]
      BY <1>1, <1>2, <2>1, <2>2
    <2> QED
      BY <2>3 DEF k
  <1> QED
    BY <1>2, <1>3 DEF Holds

LEMMA AccumulateElsewhere ==
    ASSUME UploadTypeOK, NEW u \in UpType, NEW b, Accumulate(u, b),
           u.target # booted, (\A q \in Found : SlotGood(q, booted))',
           u.expect = 0 \/ (u.total < u.expect /\ u.offset + u.expect <= SlotBlocks),
           u.on
    PROVE  UploadElsewhere'
  <1>1. booted' = booted /\ SlotBlocks \in Nat
    BY BootAssumption DEF Accumulate
  <1>2. u.offset \in Nat /\ u.total \in Nat /\ u.expect \in Nat
    BY DEF UpType
  <1>3. CASE up' = [u EXCEPT !.total = @ + 1, !.digest = Hashed(Append(@, b)),
                             !.expect = IF @ = u.total + 1 THEN 0 ELSE @]
    <2>1. /\ up'.on = u.on /\ up'.target = u.target /\ up'.offset = u.offset
          /\ up'.total = u.total + 1
          /\ up'.expect = IF u.expect = u.total + 1 THEN 0 ELSE u.expect
      BY <1>3 DEF UpType
    <2> QED
      BY <1>1, <1>2, <2>1 DEF UploadElsewhere
  <1>4. CASE up' = Ended([u EXCEPT !.total = @ + 1])
    <2>1. up'.expect = 0 /\ ~up'.on
      BY <1>4 DEF Ended, NoUpload
    <2> QED
      BY <2>1 DEF UploadElsewhere
  <1> QED
    BY <1>3, <1>4 DEF Accumulate

\* Under the rule for an upload both copies rely on the running slot.
LEMMA RuleKeeps ==
    ASSUME UploadTypeOK, SlotsKept, pc = "up", MayUpload, Careful
    PROVE  \A q \in Found : SlotGood(q, booted) /\ q.active = booted
  <1> TAKE q \in Found
  <1>1. PICK d \in Copy : Valid(d) /\ copy[d].rec = q
    BY FoundValid, TypeParts
  <1>2. q.active = booted /\ q.image[booted] = kernel
    BY <1>1 DEF MayUpload
  <1> QED
    BY <1>2 DEF SlotsKept, SlotGood

LEMMA UploadWayBack ==
    ASSUME UploadTypeOK, UploadStep, WayBack, Careful
    PROVE  WayBack'
  <1>1. /\ CopyOK /\ up \in UpType /\ ProgOK /\ MachineOK /\ booted \in {0, 1}
        /\ SlotBlocks \in Nat \ {0} /\ Healthy \subseteq Image
        /\ \A i \in Image : Len(i) \in 1 .. SlotBlocks
        /\ Found \subseteq Boot!Record
    BY TypeParts, TheRecord, BootAssumption DEF MachineOK, Slot
  <1>2. pc = "up" /\ pc' = "up" /\ booted' = booted /\ kernel' = kernel
    BY DEF UploadStep, Accumulate, Chunk, Stream, StreamBlock, StreamTimeout, Abort,
       ResumeBegin, ResumeChunk, ResumeVerify, ResumeAbort, Commit, CommitRefused, Idle, bootVars
  <1>3. kernel \in Healthy /\ Holds(booted, kernel)
    BY <1>2 DEF WayBack, SlotsKept
  <1>4. MayUpload => \A q \in Found : SlotGood(q, booted) /\ q.active = booted
    BY <1>2, RuleKeeps DEF WayBack
  \* Whatever leaves the card and the record alone is safe.
  <1>5. ASSUME copy' = copy, card' = card
        PROVE  SlotsKept' /\ \A q : SlotGood(q, booted)' <=> SlotGood(q, booted)
    <2>1. Found' = Found
      BY <1>1, <1>5, SameRecord DEF Kept, Found
    <2>2. \A q, s : SlotGood(q, s)' <=> SlotGood(q, s)
      BY <1>5 DEF SlotGood, Holds
    <2>3. \A q : SlotGood(q, booted)' <=> SlotGood(q, booted)
      BY <1>2, <1>5 DEF SlotGood, Holds
    <2>4. Holds(booted, kernel)'
      BY <1>2, <1>3, <1>5 DEF Holds
    <2>5. \A q \in Found' : q.ready[q.active] /\ \E s \in Slot : SlotGood(q, s)'
      BY <2>1, <2>2 DEF WayBack, SlotsKept
    <2> QED
      BY <1>2, <1>3, <2>3, <2>4, <2>5 DEF SlotsKept
  <1>6. ASSUME copy' = copy PROVE Found' = Found
    BY <1>1, <1>6, SameRecord DEF Kept, Found
  \* So is a block for the other slot.
  <1>7. ASSUME NEW u \in UpType, NEW b, Accumulate(u, b), u.target # booted,
               u.offset + u.total < SlotBlocks, \A q \in Found : SlotGood(q, booted)
        PROVE  SlotsKept' /\ (\A q \in Found : SlotGood(q, booted))'
    <2>1. Found' = Found
      BY <1>6, <1>7 DEF Accumulate
    <2>2. \A i \in Image : Holds(booted, i) => Holds(booted, i)'
      BY <1>7, CardKept
    <2>3. \A q : SlotGood(q, booted) => SlotGood(q, booted)'
      <3> SUFFICES ASSUME NEW q, SlotGood(q, booted) PROVE SlotGood(q, booted)'
        OBVIOUS
      <3>1. PICK i \in Image : i = q.image[booted] /\ Holds(booted, i)
        BY <1>1 DEF SlotGood
      <3>2. Holds(booted, i)'
        BY <2>2, <3>1
      <3> QED
        BY <1>2, <3>1, <3>2 DEF SlotGood, Holds
    <2>4. Holds(booted, kernel)'
      <3>1. PICK i \in Image : i = kernel /\ Holds(booted, i)
        BY <1>1, <1>3
      <3>2. Holds(booted, i)'
        BY <2>2, <3>1
      <3> QED
        BY <1>2, <3>1, <3>2 DEF Holds
    <2>5. \A q \in Found' : SlotGood(q, booted)' /\ q.ready[q.active]
      BY <1>7, <2>1, <2>3 DEF WayBack, SlotsKept
    <2>6. \A q \in Found' : \E s \in Slot : SlotGood(q, s)'
      <3> TAKE q \in Found'
      <3>1. PICK s \in Slot : s = booted'
        BY <1>1, <1>2 DEF Slot
      <3>2. SlotGood(q, s)'
        BY <2>5, <3>1 DEF SlotGood, Holds
      <3> QED
        BY <3>2
    <2> QED
      BY <1>2, <1>3, <2>4, <2>5, <2>6 DEF SlotsKept
  <1>8. \A u : Ended(u).expect = 0 /\ ~Ended(u).on
    BY DEF Ended, NoUpload
  <1>9. ASSUME up'.expect = 0, ~up'.on PROVE UploadElsewhere'
    BY <1>9 DEF UploadElsewhere
  <1>10. CASE Chunk
    <2>1. up.expect = 0 /\ \A q \in Found : SlotGood(q, booted) /\ q.active = booted
      BY <1>4, <1>10 DEF Chunk, Idle
    <2>2. ASSUME NEW u \in UpType, NEW b, Accumulate(u, b), u.on, u.expect = 0,
                 u.target # booted, u.offset + u.total < SlotBlocks
          PROVE  WayBack'
      BY <1>7, <2>1, <2>2, AccumulateElsewhere DEF WayBack
    <2>3. CASE up.on
      <3>1. PICK b : Accumulate(up, b)
        BY <1>10, <2>3 DEF Chunk
      <3>2. up.target # booted /\ up.offset + up.total < SlotBlocks
        BY <1>10, <2>3 DEF Chunk, WayBack, UploadElsewhere
      <3> QED
        BY <1>1, <2>1, <2>2, <2>3, <3>1, <3>2
    <2>4. CASE ~up.on
      <3> DEFINE first(c) == [NoUpload EXCEPT !.on = TRUE, !.target = Target(c),
                                              !.offset = up.offset]
      <3>1. PICK c \in Copy, b \in Received(1) : Lookup(c) /\ Accumulate(first(c), b)
        BY <1>10, <2>4 DEF Chunk
      <3>2. copy[c].rec \in Found
        BY <1>1, <3>1, LookedUp DEF Lookup
      <3>3. Target(c) # booted /\ Target(c) \in Slot
        BY <1>1, <2>1, <3>2 DEF Target, Other, Slot
      <3>4. up.offset \in Nat /\ up.offset + 0 < SlotBlocks
        BY <1>1, <1>10, <2>4 DEF Chunk, UpType
      <3>5. /\ first(c) \in UpType /\ first(c).on /\ first(c).expect = 0
            /\ first(c).target # booted /\ first(c).offset + first(c).total < SlotBlocks
        BY <3>3, <3>4, NoUploadType DEF UpType, NoUpload
      <3> HIDE DEF first
      <3> QED
        BY <2>2, <3>1, <3>5
    <2> QED
      BY <2>3, <2>4
  <1>11. CASE StreamBlock
    <2>1. PICK b : up.expect > 0 /\ Accumulate(up, b)
      BY <1>11 DEF StreamBlock
    <2>2. /\ up.on /\ up.target # booted /\ \A q \in Found : SlotGood(q, booted)
          /\ up.total < up.expect /\ up.offset + up.expect <= SlotBlocks
      BY <2>1 DEF WayBack, UploadElsewhere
    <2>3. up.offset + up.total < SlotBlocks
      BY <1>1, <2>2 DEF UpType
    <2> QED
      BY <1>1, <1>7, <2>1, <2>2, <2>3, AccumulateElsewhere DEF WayBack
  <1>12. ASSUME NEW i \in Image, Stream(Len(i)) PROVE WayBack'
    <2>1. PICK c \in Copy :
            /\ Lookup(c)
            /\ up' = [NoUpload EXCEPT !.on = TRUE, !.target = Target(c), !.expect = Len(i)]
      BY <1>12 DEF Stream
    <2>2. copy[c].rec \in Found
      BY <1>1, <2>1, LookedUp DEF Lookup
    <2>3. \A q \in Found : SlotGood(q, booted) /\ q.active = booted
      BY <1>4, <1>12 DEF Stream
    <2>4. Target(c) # booted
      BY <1>1, <2>2, <2>3 DEF Target, Other
    <2>5. /\ up'.on /\ up'.target = Target(c) /\ up'.offset = 0 /\ up'.total = 0
          /\ up'.expect = Len(i)
      BY <2>1 DEF NoUpload
    <2>6. SlotsKept' /\ (\A q \in Found : SlotGood(q, booted))'
      BY <1>5, <1>6, <1>12, <2>3 DEF Stream
    <2>7. UploadElsewhere'
      BY <1>1, <1>2, <2>4, <2>5, <2>6 DEF UploadElsewhere
    <2> QED
      BY <2>6, <2>7 DEF WayBack
  <1>13. CASE StreamTimeout \/ Abort \/ CommitRefused \/ ResumeAbort
    <2>1. up'.expect = 0 /\ ~up'.on
      BY <1>8, <1>13 DEF StreamTimeout, Abort, CommitRefused, ResumeAbort, NoUpload
    <2>2. copy' = copy /\ card' = card
      BY <1>13 DEF StreamTimeout, Abort, CommitRefused, ResumeAbort, WriteProgress, bootVars
    <2> QED
      BY <1>5, <1>9, <2>1, <2>2 DEF WayBack
  <1>14. CASE ResumeChunk
    <2>1. prog \in [target : Slot, image : Image, confirmed : Nat, attempts : Nat]
      BY <1>1, <1>14 DEF ResumeChunk, InProgress, ProgOK
    <2>2. prog.confirmed < Len(prog.image) /\ prog.target # booted /\ MayUpload
      BY <1>14 DEF ResumeChunk, InProgress, MayResume
    <2>3. prog.confirmed + 1 <= SlotBlocks
      BY <1>1, <2>1, <2>2
    <2>4. /\ up'.on /\ up'.target = prog.target /\ up'.offset = prog.confirmed
          /\ up'.total = 0 /\ up'.expect = 1
      BY <1>14 DEF ResumeChunk, NoUpload
    <2>5. copy' = copy /\ card' = card
      BY <1>14 DEF ResumeChunk, bootVars
    <2>6. SlotsKept' /\ (\A q \in Found : SlotGood(q, booted))'
      BY <1>4, <1>5, <1>6, <2>2, <2>5
    <2>7. UploadElsewhere'
      BY <1>2, <2>2, <2>3, <2>4, <2>6 DEF UploadElsewhere
    <2> QED
      BY <2>6, <2>7 DEF WayBack
  <1>15. ASSUME NEW i \in Image, ResumeBegin(i) PROVE WayBack'
    <2>1. copy' = copy /\ card' = card /\ up' = up
      BY <1>15 DEF ResumeBegin, WriteProgress
    <2>2. UploadElsewhere'
      BY <1>2, <1>5, <1>6, <2>1 DEF WayBack, UploadElsewhere
    <2> QED
      BY <1>5, <2>1, <2>2 DEF WayBack
  <1>16. CASE ResumeVerify
    <2>1. copy' = copy /\ card' = card
      BY <1>16 DEF ResumeVerify, WriteProgress
    <2>2. prog.target # booted /\ up.expect = 0 /\ MayUpload
      BY <1>16 DEF ResumeVerify, MayResume, Idle
    <2> DEFINE n == prog.confirmed + 1
               d == OnCard(prog.target, n)
    <2>3. \/ up' = [up EXCEPT !.on = TRUE, !.target = prog.target, !.total = n, !.digest = d]
          \/ up' = Ended(up)
      BY <1>16 DEF ResumeVerify
    <2> HIDE DEF n, d
    <2>4. SlotsKept' /\ (\A q \in Found : SlotGood(q, booted))'
      BY <1>4, <1>5, <1>6, <2>1, <2>2
    <2>5. UploadElsewhere'
      <3>1. CASE up' = [up EXCEPT !.on = TRUE, !.target = prog.target, !.total = n, !.digest = d]
        <4>1. up'.expect = 0 /\ up'.target = prog.target
          BY <1>1, <2>2, <3>1 DEF UpType
        <4> QED
          BY <1>2, <2>2, <2>4, <4>1 DEF UploadElsewhere
      <3>2. CASE up' = Ended(up)
        BY <1>8, <1>9, <3>2
      <3> QED
        BY <2>3, <3>1, <3>2
    <2> QED
      BY <2>4, <2>5 DEF WayBack
  <1>17. ASSUME NEW i \in Image, Commit(i) PROVE WayBack'
    <2>1. /\ up.on /\ up.target # booted /\ card' = card /\ up' = Ended(up)
          /\ \A q \in Found : SlotGood(q, booted)
      BY <1>17 DEF Commit, WayBack, UploadElsewhere
    <2>2. UploadElsewhere'
      BY <1>8, <1>9, <2>1
    <2>3. up.target \in Slot /\ booted \in Slot
      BY <1>1 DEF UpType, Slot
    <2>4. PICK c \in Copy : Lookup(c) /\ Write(c, Installed(copy[c].rec, i))
      BY <1>17 DEF Commit
    <2>5. PICK r \in Found : r = copy[c].rec /\ r \in Boot!Record
      BY <1>1, <2>4, LookedUp, TheRecord DEF Lookup
    <2>6. Installed(r, i) \in Boot!Record
      BY <2>3, <2>5, InstalledType
    <2>7. \A n \in Found' : n \in Found \/ n = Installed(r, i)
      <3>1. Wrote(r, Installed(r, i)) \/ Tore(r) \/ Kept
        BY <1>1, <2>4, <2>5, <2>6, WriteRecord, TypeParts DEF FaultsOK
      <3> QED
        BY <2>5, <3>1 DEF Wrote, Tore, Kept, Found
    <2>8. \A n \in Found' : SlotGood(n, booted) /\ n.ready[n.active]
      <3>1. \A q \in Found : SlotGood(q, booted) /\ q.ready[q.active]
        BY <2>1 DEF WayBack, SlotsKept
      <3>2. SlotGood(Installed(r, i), booted)
        BY <2>1, <2>3, <2>5, <3>1 DEF Installed, SlotGood, Boot!Record, Boot!Slot, Slot
      <3>3. Installed(r, i).ready[Installed(r, i).active]
        BY <2>3, <2>5, <3>1 DEF Installed, Boot!Record, Boot!Slot, Slot
      <3> QED
        BY <2>7, <3>1, <3>2, <3>3
    <2>9. \A q, s : SlotGood(q, s)' <=> SlotGood(q, s)
      BY <2>1 DEF SlotGood, Holds
    <2>10. Holds(booted, kernel)'
      BY <1>2, <1>3, <2>1 DEF Holds
    <2>11. \A n \in Found' : n.ready[n.active] /\ \E s \in Slot : SlotGood(n, s)'
      BY <2>3, <2>8, <2>9
    <2>12. SlotsKept'
      BY <1>2, <1>3, <2>10, <2>11 DEF SlotsKept
    <2> QED
      BY <2>2, <2>12 DEF WayBack
  <1> QED
    BY <1>10, <1>11, <1>12, <1>13, <1>14, <1>15, <1>16, <1>17 DEF UploadStep

\* The machine never loses the way back: at every moment each copy of the
\* record that a lookup may find names as ready a slot that holds, whole, a
\* kernel that reaches PASS.  The operator must keep to the rules of
\* MayUpload and MayResume, which the code does not check.
THEOREM AlwaysAWayBack == Careful => (UploadSpec => []SomeSlotBoots)
  <1> SUFFICES ASSUME Careful PROVE UploadSpec => []SomeSlotBoots
    OBVIOUS
  <1>1. UploadTypeOK /\ WayBack /\ [UploadNext]_vars => WayBack'
    <2> SUFFICES ASSUME UploadTypeOK, WayBack, [UploadNext]_vars PROVE WayBack'
      OBVIOUS
    <2>1. CASE UNCHANGED vars
      <3>1. Found' = Found
        BY <2>1, SameRecord, TypeParts DEF vars, Kept, Found
      <3> QED
        BY <2>1, <3>1 DEF vars, WayBack, SlotsKept, SlotGood, Holds, UploadElsewhere
    <2> QED
      BY <2>1, BootWayBack, UploadWayBack DEF UploadNext
  <1>2. UploadTypeOK /\ WayBack => SomeSlotBoots
    <2> SUFFICES ASSUME UploadTypeOK, WayBack, NEW c \in Copy, Valid(c)
                 PROVE  \E s \in Slot : /\ copy[c].rec.ready[s]
                                        /\ copy[c].rec.image[s] \in Healthy
                                        /\ Holds(s, copy[c].rec.image[s])
      BY DEF SomeSlotBoots
    <2>1. copy[c].rec \in Found
      BY ValidFound
    <2> QED
      BY <2>1 DEF WayBack, SlotsKept, SlotGood
  <1> QED
    BY <1>1, <1>2, WayBackInit, UploadTypeCorrect, PTL DEF UploadSpec
=============================================================================
