---------------------------- MODULE MCStage0Load ----------------------------
(***************************************************************************)
(* Cards for the run of Stage0Load: an image of four blocks in slot A, the *)
(* last one not full, and one of less than a block in slot B.              *)
(***************************************************************************)
EXTENDS Stage0Load

McImage(s) == [n \in 1 .. (IF s = 0 THEN 11 ELSE 2) |-> <<"image", s, n>>]

McWord(s, n, w) == <<"image", s, n * Words + w>>

McData ==
    {<<"image", s, n>> : s \in Slot, n \in 1 .. SlotBlocks * Words}
        \cup {<<kind, w>> : kind \in {"torn", "other"}, w \in 1 .. Words}

McTorn == [w \in 1 .. Words |-> <<"torn", w>>]

\* The copies of the record and the blocks of the slots, of which block bad
\* is damaged.
McCard(copies, bad) ==
    [b \in Block |->
        IF b \in Copy THEN copies[b + 1]
        ELSE IF b = bad \/ b = Far THEN [w \in 1 .. Words |-> <<"other", w>>]
        ELSE [w \in 1 .. Words |->
                McWord((b - 2) \div SlotBlocks, (b - 2) % SlotBlocks, w)]]

McA == [gen |-> 1, slot |-> 0, image |-> McImage(0)]
McB == [gen |-> 0, slot |-> 1, image |-> McImage(1)]
McNone == [gen |-> 2, slot |-> 1, image |-> <<>>]

McCards == {
    McCard(<<RecordBlock(McA), RecordBlock(McB)>>, Far),
    McCard(<<RecordBlock(McB), RecordBlock(McA)>>, SlotBlock(0, 3)),
    McCard(<<RecordBlock(McB), McTorn>>, Far),
    McCard(<<RecordBlock(McNone), RecordBlock(McB)>>, Far)}

McBlocks == 0 .. 10
=============================================================================
