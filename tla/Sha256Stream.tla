---------------------------- MODULE Sha256Stream ----------------------------
(***************************************************************************)
(* The incremental SHA-256 of boot/stage0/sha256.c: how the bytes that     *)
(* arrive in pieces are gathered into blocks, and how the last block is    *)
(* padded.  The compression function is taken as free of collisions: the   *)
(* eight words of state are the sequence of the blocks it was given.       *)
(***************************************************************************)
EXTENDS Integers, Sequences

CONSTANTS
    HashBlock,   \* the length of a block: 64 bytes
    LenField     \* the end of the last one, for the length: 8 bytes

ASSUME HashAssumption ==
    HashBlock \in Nat /\ LenField \in 1 .. HashBlock - 1

One == <<"0x80">>
Zero == <<"0x00">>
LengthOf(n) == [k \in 1 .. LenField |-> <<"length", n, k>>]

Least(a, b) == IF a <= b THEN a ELSE b

\* The blocks one after the other, from the start of s.
Blocks(s) ==
    [k \in 1 .. Len(s) \div HashBlock |->
        SubSeq(s, (k - 1) * HashBlock + 1, k * HashBlock)]

\* What is left of s after them.
Rest(s) == SubSeq(s, (Len(s) \div HashBlock) * HashBlock + 1, Len(s))

---------------------------------------------------------------------------
ShaInit == [h |-> <<>>, buf |-> <<>>, total |-> 0]

\* Mutant of Filled: the buffer is hashed, and stays as it was.
FilledKept(ctx, data) ==
    LET n == Least(HashBlock - Len(ctx.buf), Len(data))
        b == ctx.buf \o SubSeq(data, 1, n) IN
    IF Len(b) = HashBlock
    THEN [ctx EXCEPT !.h = Append(@, b)]
    ELSE [ctx EXCEPT !.buf = b]

\* A buffer that was begun is filled up first, and hashed once it is full.
Filled(ctx, data) ==
    LET n == Least(HashBlock - Len(ctx.buf), Len(data))
        b == ctx.buf \o SubSeq(data, 1, n) IN
    IF Len(b) = HashBlock
    THEN [ctx EXCEPT !.h = Append(@, b), !.buf = <<>>]
    ELSE [ctx EXCEPT !.buf = b]

\* Then whole blocks are hashed from the data, and the rest is buffered.
Update(ctx, data) ==
    LET c == IF ctx.buf = <<>> THEN ctx ELSE Filled(ctx, data)
        used == IF ctx.buf = <<>> THEN 0 ELSE Least(HashBlock - Len(ctx.buf), Len(data))
        left == SubSeq(data, used + 1, Len(data)) IN
    [h |-> c.h \o Blocks(left), buf |-> c.buf \o Rest(left), total |-> ctx.total + Len(data)]

\* The mark, zeros up to the length field, and the length before all that.
Finalize(ctx) ==
    LET marked == Update(ctx, <<One>>)
        zeros == (HashBlock - LenField - Len(marked.buf)) % HashBlock
        padded == Update(marked, [k \in 1 .. zeros |-> Zero]) IN
    Append(padded.h, padded.buf \o LengthOf(ctx.total))

---------------------------------------------------------------------------
\* The definition of the standard: the message is padded, then cut.
Digest(message) ==
    LET zeros == (HashBlock - LenField - Len(message) - 1) % HashBlock IN
    Blocks(message \o <<One>> \o [k \in 1 .. zeros |-> Zero] \o LengthOf(Len(message)))
=============================================================================
