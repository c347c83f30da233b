------------------------------- MODULE Blocks -------------------------------
(***************************************************************************)
(* Files as sequences of bytes, and the block arithmetic and the in-memory *)
(* block operations of iFuse.BufferedFS.cpp.  Offsets count from 0, as in  *)
(* the code; the byte at offset i of file f is f[i + 1].                   *)
(***************************************************************************)
EXTENDS Naturals, Sequences

CONSTANTS
    BlockSize,    \* g_Blocksize
    Zero          \* the byte of a hole

ASSUME BlockSizeAssumption == BlockSize \in Nat \ {0}

Larger(m, n) == IF m > n THEN m ELSE n
Smaller(m, n) == IF m < n THEN m ELSE n

getBlockID(off) == off \div BlockSize
getBlockStartOffset(b) == b * BlockSize
getInBlockOffset(off) == off - getBlockStartOffset(getBlockID(off))
IsSameBlock(o1, o2) == getBlockID(o1) = getBlockID(o2)

(* What a read of n bytes at off returns: less at the end of the file.     *)
Slice(f, off, n) == SubSeq(f, off + 1, Smaller(off + n, Len(f)))

BlockOf(f, b) == Slice(f, getBlockStartOffset(b), BlockSize)

(* What a write of data at off leaves: a gap before it is a hole.          *)
Patch(f, off, data) ==
    [i \in 1..Larger(Len(f), off + Len(data)) |->
        IF i \in off + 1 .. off + Len(data) THEN data[i - off]
        ELSE IF i <= Len(f) THEN f[i] ELSE Zero]

(* A delta is a run of written bytes the server has not got.               *)
NoDelta == [off |-> 0, data |-> <<>>]
HasDelta(d) == d.data # <<>>
DeltaEnd(d) == d.off + Len(d.data)

PatchWith(f, d) == IF HasDelta(d) THEN Patch(f, d.off, d.data) ELSE f

(* Variant: runs that touch across a block boundary are joined. *)
IntersectsAcross(d, off, data) ==
    DeltaEnd(d) >= off /\ d.off <= off + Len(data)

(* _writeBlock: the new bytes overlap the delta or touch it.               *)
Intersects(d, off, data) ==
    /\ IsSameBlock(d.off, off)
    /\ DeltaEnd(d) >= off
    /\ d.off <= off + Len(data)

(* The delta grown by the new bytes, which win where both have one.        *)
Expand(d, off, data) ==
    LET start == Smaller(off, d.off)
    IN [off |-> start,
        data |-> Patch(Patch(<<>>, d.off - start, d.data), off - start, data)]

(* _applyDeltaToCache on one cached block: it may grow, never shrink.      *)
ApplyTo(block, d) ==
    IF IsSameBlock(getBlockStartOffset(block.id), d.off)
    THEN [block EXCEPT
            !.data = Patch(block.data, getInBlockOffset(d.off), d.data)]
    ELSE block

(* The end of _readBlock: a delta of this block is laid over the bytes of  *)
(* the cache.  buf is the caller's buffer, whose bytes show in a gap.      *)
Overlay(buf, data, b, d) ==
    IF HasDelta(d) /\ getBlockID(d.off) = b
    THEN LET at == d.off - getBlockStartOffset(b)
         IN Patch(data \o SubSeq(buf, Len(data) + 1, at), at, d.data)
    ELSE data

ZeroBlock == [i \in 1..BlockSize |-> Zero]
=============================================================================
