---------------------------- MODULE BufferedRead ----------------------------
(***************************************************************************)
(* The loop of iFuseBufferedFsRead, which is also that of                  *)
(* iFusePreloadRead: a read of any offset and size, put together from      *)
(* blocks, each the bytes at the server under the delta of the path.  With *)
(* preload a block can fail, and the read is then made anew without it.    *)
(* Nothing else happens to the file meanwhile (BufferedFs and Preload have *)
(* the interleavings); what is asked here is whether the loop returns the  *)
(* bytes of the file.                                                      *)
(***************************************************************************)
EXTENDS Blocks

CONSTANTS
    Byte,         \* bytes of the server's file
    Written,      \* the byte of the delta
    MaxSize,      \* bound of this model: the longest file
    MaxRead       \* bound of this model: the longest read

ASSUME BoundAssumption == {MaxSize, MaxRead} \subseteq Nat

VARIABLES
    file,         \* the bytes at the server
    delta,        \* the delta of the path
    asked,        \* offset and size of the read
    preload,      \* the loop is that of iFusePreloadRead
    curOffset,
    remain,
    blockBuffer,  \* one buffer for all rounds of the loop
    out,          \* the bytes copied to the caller
    pc            \* "read", "done", or "overrun": a copy out of all bounds

vars == <<file, delta, asked, preload, curOffset, remain, blockBuffer, out, pc>>
inputs == <<file, delta, asked>>

View == PatchWith(file, delta)

Bytes == UNION {[1..n -> Byte] : n \in 0..MaxSize}
Delta ==
    {NoDelta} \cup
    {[off |-> o, data |-> [i \in 1..n |-> Written]] :
        o \in 0..MaxSize - 1, n \in 1..BlockSize}

(* A delta continues or overwrites the file: it leaves no hole.            *)
Init ==
    /\ file \in Bytes
    /\ delta \in {d \in Delta :
                    /\ getInBlockOffset(d.off) + Len(d.data) <= BlockSize
                    /\ d.off <= Len(file)}
    /\ asked \in [off : 0..MaxSize + BlockSize, size : 1..MaxRead]
    /\ preload \in BOOLEAN
    /\ curOffset = asked.off
    /\ remain = asked.size
    /\ blockBuffer = ZeroBlock
    /\ out = <<>>
    /\ pc = "read"

(* What _readBlock leaves for the block of curOffset, and its size.        *)
Block ==
    LET b == getBlockID(curOffset)
    IN Overlay(blockBuffer, BlockOf(file, b), b, delta)

(* How much of the block is asked for.                                     *)
CurSize ==
    LET avail == BlockSize - getInBlockOffset(curOffset)
    IN IF avail > remain THEN remain ELSE avail

(* Variant: a block is taken to be full. *)
TakeFull(block) == CurSize

(* How much of it is copied: no more than the block has.                   *)
Take(block) ==
    IF getInBlockOffset(curOffset) + CurSize > Len(block)
    THEN Len(block) - getInBlockOffset(curOffset)
    ELSE CurSize

(* The block ends before the offset: the size_t difference wraps around,   *)
(* and the copy has no bound.                                              *)
Overrun(block) ==
    /\ block # <<>>
    /\ getInBlockOffset(curOffset) > Len(block)
    /\ pc' = "overrun"
    /\ UNCHANGED <<inputs, preload, curOffset, remain, blockBuffer, out>>

(* No bytes, or none from the offset on: "eof".                            *)
EndOfFile(block) ==
    /\ block = <<>> \/ Len(block) = getInBlockOffset(curOffset)
    /\ pc' = "done"
    /\ UNCHANGED <<inputs, preload, curOffset, remain, blockBuffer, out>>

Copy(block) ==
    LET in == getInBlockOffset(curOffset)
        whole == block \o SubSeq(blockBuffer, Len(block) + 1, BlockSize)
    IN /\ Len(block) > in
       /\ out' = out \o SubSeq(whole, in + 1, in + Take(block))
       /\ blockBuffer' = whole
       /\ remain' = remain - Take(block)
       /\ curOffset' = curOffset + Take(block)
       /\ pc' = IF remain' > 0 /\ Len(block) = BlockSize THEN "read"
                                                         ELSE "done"
       /\ UNCHANGED <<inputs, preload>>

Round ==
    /\ pc = "read"
    /\ Overrun(Block) \/ EndOfFile(Block) \/ Copy(Block)

(* _readPreload returned an error: iFuseBufferedFsRead reads everything    *)
(* again, over what there is in the caller's buffer.                       *)
Fallback ==
    /\ pc = "read" /\ preload
    /\ preload' = FALSE
    /\ curOffset' = asked.off
    /\ remain' = asked.size
    /\ blockBuffer' = ZeroBlock
    /\ out' = <<>>
    /\ UNCHANGED <<inputs, pc>>

Next == Round \/ Fallback

Spec == Init /\ [][Next]_vars

-----------------------------------------------------------------------------
(* A read returns the bytes of the file from its offset on, as many as are *)
(* asked for or there are, put together from however many blocks, and none *)
(* behind its end.  (A read that begins behind the end of the last block   *)
(* never gets done, see Overrun.)                                          *)
ReadIsSlice == pc = "done" => out = Slice(View, asked.off, asked.size)
=============================================================================
