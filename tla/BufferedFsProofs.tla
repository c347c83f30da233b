-------------------------- MODULE BufferedFsProofs --------------------------
(***************************************************************************)
(* What BufferedFs promises, proved for every block size, every longest    *)
(* file, every set of handles and every kind of use in Setting.            *)
(*                                                                         *)
(* The argument: an operation that flushes is a writer's, and with one     *)
(* writer, or operations that do not overlap, one delta at most is on its  *)
(* way to the server (Flushing).  Then the file is well defined: what the  *)
(* server has, under what is on its way (Base), under the delta (View).    *)
(* A cached block, and one that is read, has the bytes of Base, where it   *)
(* has any (CachesGood): this is what _applyDeltaToCache is for.  A size   *)
(* that is cached or found is at least the one the server learnt in the    *)
(* last flush or close, since these drop the cached stat (SizesCurrent).   *)
(***************************************************************************)
EXTENDS BufferedFs, BlocksProofs

AllBytes == Byte \cup {Zero, Old}

Busy(h) == pc[h] \notin {"idle", "closed", "lost"}

(* Flushes are of writers, and fail only where calls to the server do;     *)
(* serial operations do not overlap.                                       *)
Flushing ==
    /\ Sending \subseteq Writer
    /\ dropped => Failures
    /\ Serial => \A h, k \in Handle : Busy(h) /\ Busy(k) => h = k

(* The handles whose cached blocks nobody else makes stale.                *)
Watched == IF Serial THEN Handle ELSE Writer

Reading(h) == pc[h] \in {"insert", "overlay"}

(* A block has the bytes of the file, and where the file has no hole it    *)
(* does not end too early.                                                 *)
Good(c) ==
    /\ Covers(c.data, Base, c.id)
    /\ ~Sparse => Complete(c.data, Base, c.id)

CachesGood ==
    /\ ~Sparse /\ HasDelta(delta) => delta.off <= Len(Base)
    /\ \A h \in Watched :
        /\ cache[h].held => Good(cache[h])
        /\ Reading(h) => Good(local[h])

Caches == OneFlush /\ ~dropped => CachesGood

(* A size that is cached, or that a stat has found, is not older than the  *)
(* last flush or close of a writer, which leaves no delta behind.          *)
SyncPlace == {"sendflush", "reopen", "sendclose", "drop", "close"}
DropPlace == {"dropstat", "closestat"}
SizesCurrent ==
    /\ statCache # Nothing /\ (\A h \in Handle : pc[h] \notin DropPlace)
          => registered <= statCache
    /\ \A h \in Handle : pc[h] \in {"putstat", "stat"} => registered <= found[h]
    /\ \A h \in Writer : pc[h] \in SyncPlace => ~HasDelta(delta)

Sizes == Orderly => SizesCurrent

-----------------------------------------------------------------------------
(* Types.                                                                  *)

LEMMA ZeroIsByte == Zero \in AllBytes
BY DEF AllBytes

LEMMA ToBytes ==
  ASSUME NEW x \in Seq(AllBytes), Len(x) <= MaxSize
  PROVE  x \in Bytes
<1>1. Len(x) \in Nat /\ x \in [1..Len(x) -> AllBytes]
  BY LenProperties
<1>2. Len(x) \in 0..MaxSize
  BY <1>1, SizeAssumption
<1> QED
  BY <1>1, <1>2 DEF Bytes, AllBytes

LEMMA OfBytes ==
  ASSUME NEW x \in Bytes
  PROVE  x \in Seq(AllBytes) /\ Len(x) \in Nat /\ Len(x) <= MaxSize
<1>1. PICK n \in 0..MaxSize : x \in [1..n -> AllBytes]
  BY DEF Bytes, AllBytes
<1>2. n \in Nat /\ n <= MaxSize
  BY SizeAssumption
<1> QED
  BY <1>1, <1>2, FunctionIsSeq

LEMMA NoBytes == <<>> \in Bytes
<1>1. <<>> \in Seq(AllBytes) /\ Len(<<>>) = 0
  BY EmptySeq
<1>2. Len(<<>>) <= MaxSize
  BY <1>1, SizeAssumption
<1> QED
  BY <1>1, <1>2, ToBytes

LEMMA OfDelta ==
  ASSUME NEW d, IsDelta(d)
  PROVE  /\ d \in Deltas(AllBytes) /\ InOneBlock(d)
         /\ d.off \in Nat /\ d.data \in Seq(AllBytes)
         /\ DeltaEnd(d) \in Nat /\ DeltaEnd(d) <= MaxSize
<1>1. d \in [off : 0..MaxSize, data : Bytes]
  BY DEF IsDelta
<1>2. d.off \in Nat /\ d.data \in Seq(AllBytes) /\ Len(d.data) \in Nat
  BY <1>1, OfBytes, SizeAssumption
<1> QED
  BY <1>1, <1>2 DEF IsDelta, InOneBlock, DeltaEnd, Deltas

LEMMA ToDelta ==
  ASSUME NEW d \in Deltas(AllBytes), InOneBlock(d), DeltaEnd(d) <= MaxSize
  PROVE  IsDelta(d)
<1>1. PICK o \in Nat, x \in Seq(AllBytes) :
         d.off = o /\ d.data = x /\ DeltaEnd(d) = o + Len(x)
  BY DeltaIs
<1>2. Len(x) \in Nat /\ o + Len(x) <= MaxSize
  BY <1>1, LenProperties
<1>3. o \in 0..MaxSize /\ x \in Bytes
  BY <1>2, ToBytes, SizeAssumption
<1> QED
  BY <1>1, <1>3 DEF IsDelta, InOneBlock, Deltas

LEMMA NoDeltaType == IsDelta(NoDelta) /\ ~HasDelta(NoDelta)
<1>1. NoDelta \in [off : 0..MaxSize, data : Bytes] /\ Len(NoDelta.data) = 0
  BY NoBytes, EmptySeq, SizeAssumption DEF NoDelta
<1>2. getInBlockOffset(0) = 0
  BY BlockSizeAssumption DEF getInBlockOffset, getBlockStartOffset, getBlockID
<1> QED
  BY <1>1, <1>2, SizeAssumption, BlockSizeAssumption
  DEF IsDelta, HasDelta, NoDelta, DeltaEnd

LEMMA BlockIDType == BlockID \subseteq Nat /\ 0 \in BlockID
BY SizeAssumption, BlockSizeAssumption DEF BlockID, getBlockID

Cached == [id : Nat, data : Seq(AllBytes), held : BOOLEAN]

LEMMA OfBlock ==
  ASSUME NEW c \in BlockType
  PROVE  /\ c \in Cached /\ c.id \in Nat /\ c.data \in Seq(AllBytes)
         /\ Len(c.data) \in Nat /\ Len(c.data) <= MaxSize
<1>1. c.id \in BlockID /\ c.data \in Bytes /\ c \in [id : BlockID, data : Bytes, held : BOOLEAN]
  BY DEF BlockType
<1>2. c.id \in Nat /\ c.data \in Seq(AllBytes)
  BY <1>1, BlockIDType, OfBytes
<1> QED
  BY <1>1, <1>2, OfBytes DEF Cached

LEMMA NoBlockType == NoBlock \in BlockType /\ Len(NoBlock.data) = 0 /\ ~NoBlock.held
BY NoBytes, BlockIDType, EmptySeq DEF NoBlock, BlockType

(* A piece is a run of bytes within one block.                             *)
LEMMA PieceIs ==
  ASSUME setting \in Setting, NEW p \in Piece
  PROVE  /\ p.off \in Nat
         /\ DataOf(p) \in Seq(AllBytes) /\ DataOf(p) # <<>>
         /\ Len(DataOf(p)) = p.n /\ p.n \in 1..BlockSize
         /\ getInBlockOffset(p.off) + Len(DataOf(p)) <= BlockSize
         /\ p.off + Len(DataOf(p)) <= MaxSize
<1>1. setting.bytes \subseteq Byte
  BY SettingAssumption
<1>2. /\ p.off \in 0..MaxSize - 1 /\ p.n \in 1..BlockSize /\ p.byte \in setting.bytes
      /\ getInBlockOffset(p.off) + p.n <= BlockSize /\ p.off + p.n <= MaxSize
  BY DEF Piece
<1>3. p.off \in Nat /\ p.n \in Nat /\ p.n > 0
  BY <1>2, SizeAssumption, BlockSizeAssumption
<1>4. DataOf(p) \in [1..p.n -> AllBytes]
  BY <1>1, <1>2 DEF DataOf, AllBytes
<1>5. DataOf(p) \in Seq(AllBytes) /\ Len(DataOf(p)) = p.n
  BY <1>3, <1>4, FunctionIsSeq
<1>6. DataOf(p) # <<>>
  BY <1>3, <1>5, NotEmpty
<1> QED
  BY <1>2, <1>3, <1>5, <1>6

LEMMA PieceDelta ==
  ASSUME setting \in Setting, NEW p \in Piece
  PROVE  /\ IsDelta([off |-> p.off, data |-> DataOf(p)])
         /\ HasDelta([off |-> p.off, data |-> DataOf(p)])
<1>1. PICK o \in Nat, x \in Seq(AllBytes) :
         /\ o = p.off /\ x = DataOf(p) /\ x # <<>>
         /\ getInBlockOffset(o) + Len(x) <= BlockSize /\ o + Len(x) <= MaxSize
  BY PieceIs
<1>2. MakeDelta(o, x) \in Deltas(AllBytes) /\ InOneBlock(MakeDelta(o, x))
  BY <1>1 DEF MakeDelta, Deltas, InOneBlock
<1>3. DeltaEnd(MakeDelta(o, x)) = o + Len(x) /\ HasDelta(MakeDelta(o, x))
  BY <1>1, DeltaFields
<1>4. IsDelta(MakeDelta(o, x))
  BY <1>1, <1>2, <1>3, ToDelta
<1> QED
  BY <1>1, <1>3, <1>4 DEF MakeDelta

-----------------------------------------------------------------------------
(* The type invariant.                                                     *)

FileType ==
    setting \in Setting /\ remote \in Bytes /\ IsDelta(delta) /\ dropped \in BOOLEAN
CacheType ==
    /\ cache \in [Handle -> BlockType]
    /\ \A h \in Handle : Len(cache[h].data) <= BlockSize
LocalType ==
    /\ local \in [Handle -> BlockType]
    /\ pc \in [Handle -> Place]
    /\ \A h \in Handle : pc[h] \in {"fetch", "insert", "overlay"} =>
                            Len(local[h].data) <= BlockSize
OutgoingType ==
    /\ DOMAIN outgoing = Handle
    /\ \A h \in Handle :
        /\ IsDelta(outgoing[h])
        /\ HasDelta(outgoing[h]) <=> pc[h] \in {"send", "sendflush", "sendclose"}
AnswerType ==
    /\ size \in [Handle -> 0..MaxSize \cup {Nothing}]
    /\ answer \in [Handle -> Bytes \cup {Nothing, Failed}]

SizeType ==
    /\ registered \in 0..Len(remote)
    /\ statCache \in 0..Len(remote) \cup {Nothing}
    /\ found \in [Handle -> 0..Len(remote)]

Types == FileType /\ CacheType /\ LocalType /\ OutgoingType /\ AnswerType

LEMMA TypesAre == TypeOK <=> Types /\ SizeType
BY DEF TypeOK, Types, FileType, CacheType, LocalType, OutgoingType, AnswerType,
       SizeType, Sending

LEMMA InitTypes == Init => Types /\ SizeType
<1> SUFFICES ASSUME Init PROVE Types /\ SizeType
  OBVIOUS
<1> USE DEF Init
<1>1. remote \in Bytes
  <2>1. PICK n \in 0..MaxSize : n = setting.length
    BY SettingAssumption
  <2>2. [i \in 1..n |-> Old] \in [1..n -> AllBytes]
    BY DEF AllBytes
  <2> QED
    BY <2>1, <2>2 DEF Bytes, AllBytes
<1>2. FileType
  BY <1>1, NoDeltaType DEF FileType
<1>3. CacheType /\ LocalType
  BY NoBlockType, BlockSizeAssumption DEF CacheType, LocalType, Place
<1>4. OutgoingType
  BY NoDeltaType DEF OutgoingType
<1>5. AnswerType
  BY DEF AnswerType
<1>6. SizeType
  <2>1. PICK n \in Nat : n = Len(remote)
    BY <1>1, OfBytes
  <2>2. registered = n /\ statCache = Nothing /\ found = [h \in Handle |-> 0]
    BY <2>1
  <2>3. 0 \in 0..n /\ n \in 0..n
    OBVIOUS
  <2> QED
    BY ONLY <2>1, <2>2, <2>3 DEF SizeType
<1> QED
  BY <1>2, <1>3, <1>4, <1>5, <1>6 DEF Types

(* A step that leaves the handle's place out of a flush, and the deltas    *)
(* on their way alone.                                                     *)
LEMMA GotoTypes ==
  ASSUME LocalType, OutgoingType, NEW h \in Handle, NEW l \in Place, Goto(h, l),
         NEW c \in BlockType, local' = [local EXCEPT ![h] = c],
         l \in {"fetch", "insert", "overlay"} => Len(c.data) <= BlockSize
  PROVE  LocalType'
BY DEF LocalType, Goto

LEMMA StayTypes ==
  ASSUME LocalType, NEW h \in Handle, NEW l \in Place, Goto(h, l),
         UNCHANGED local, l \in {"fetch", "insert", "overlay"} =>
                             Len(local[h].data) <= BlockSize
  PROVE  LocalType'
BY DEF LocalType, Goto

LEMMA OutgoingStays ==
  ASSUME LocalType, OutgoingType, NEW h \in Handle, NEW l \in Place, Goto(h, l),
         UNCHANGED outgoing, pc[h] \notin {"send", "sendflush", "sendclose"},
         l \notin {"send", "sendflush", "sendclose"}
  PROVE  OutgoingType'
BY DEF LocalType, OutgoingType, Goto

LEMMA OutgoingTaken ==
  ASSUME LocalType, OutgoingType, NEW h \in Handle, NEW l \in {"send", "sendflush", "sendclose"},
         Goto(h, l), NEW d, IsDelta(d), HasDelta(d), outgoing' = [outgoing EXCEPT ![h] = d]
  PROVE  OutgoingType'
BY DEF LocalType, OutgoingType, Goto

LEMMA OutgoingGone ==
  ASSUME LocalType, OutgoingType, NEW h \in Handle, NEW l \in Place,
         l \notin {"send", "sendflush", "sendclose"},
         Goto(h, l), outgoing' = [outgoing EXCEPT ![h] = NoDelta]
  PROVE  OutgoingType'
BY NoDeltaType DEF LocalType, OutgoingType, Goto

LEMMA CacheSet ==
  ASSUME CacheType, NEW h \in Handle, NEW c \in BlockType, Len(c.data) <= BlockSize,
         cache' = [cache EXCEPT ![h] = c]
  PROVE  CacheType'
BY DEF CacheType

LEMMA CachesApplied ==
  ASSUME CacheType, NEW d, IsDelta(d), ApplyToCaches(d)
  PROVE  CacheType'
<1>1. d \in Deltas(AllBytes) /\ InOneBlock(d) /\ DeltaEnd(d) \in Nat /\ DeltaEnd(d) <= MaxSize
  BY OfDelta
<1>2. ASSUME NEW k \in Handle
      PROVE  ApplyTo(cache[k], d) \in BlockType /\ Len(ApplyTo(cache[k], d).data) <= BlockSize
  <2>1. /\ cache[k] \in BlockType /\ Len(cache[k].data) <= BlockSize
        /\ cache[k] \in Cached /\ Len(cache[k].data) \in Nat
        /\ Len(cache[k].data) <= MaxSize
    BY OfBlock DEF CacheType
  <2>2. PICK c \in [id : Nat, data : Seq(AllBytes), held : BOOLEAN] :
           c = cache[k] /\ Len(c.data) <= BlockSize
    BY <2>1 DEF Cached
  <2>3. PICK a : a = ApplyTo(c, d)
    OBVIOUS
  <2>4. /\ a \in [id : Nat, data : Seq(AllBytes), held : BOOLEAN]
        /\ a.id = c.id /\ Len(a.data) <= BlockSize
        /\ Len(a.data) <= Larger(Len(c.data), DeltaEnd(d))
    BY <1>1, <2>2, <2>3, ApplyType, ZeroIsByte
  <2>5. Len(c.data) \in Nat /\ Len(c.data) <= MaxSize /\ c.id \in BlockID
    BY <2>1, <2>2 DEF BlockType
  <2>6. Len(a.data) \in Nat /\ Len(a.data) <= MaxSize
    BY <1>1, <2>4, <2>5, LenProperties, SizeAssumption DEF Larger
  <2>7. a.data \in Bytes
    BY <2>4, <2>6, ToBytes
  <2> QED
    BY <2>2, <2>3, <2>4, <2>5, <2>7 DEF BlockType
<1> QED
  BY <1>2 DEF CacheType, ApplyToCaches

(* _writeBlock, in its three ways.                                         *)
LEMMA WriteTypes ==
  ASSUME Types, UNCHANGED setting, NEW h \in Handle, pc[h] = "idle",
         NEW p \in Piece, WritePiece(h, p)
  PROVE  Types'
<1> USE DEF Types
<1>1. /\ p.off \in Nat
      /\ DataOf(p) \in Seq(AllBytes) /\ DataOf(p) # <<>>
      /\ getInBlockOffset(p.off) + Len(DataOf(p)) <= BlockSize
      /\ p.off + Len(DataOf(p)) <= MaxSize
      /\ IsDelta([off |-> p.off, data |-> DataOf(p)])
  BY PieceIs, PieceDelta DEF FileType
<1>2. PICK o \in Nat, x \in Seq(AllBytes) :
         /\ o = p.off /\ x = DataOf(p) /\ x # <<>>
         /\ getInBlockOffset(o) + Len(x) <= BlockSize
         /\ o + Len(x) <= MaxSize
         /\ IsDelta([off |-> o, data |-> x])
  BY <1>1
<1>3. CASE WriteNew(h, o, x)
  BY <1>2, <1>3
  DEF WriteNew, FileType, CacheType, LocalType, OutgoingType, AnswerType
<1>4. CASE WriteExpand(h, o, x)
  <2>1. /\ delta \in Deltas(AllBytes) /\ InOneBlock(delta)
        /\ DeltaEnd(delta) \in Nat /\ DeltaEnd(delta) <= MaxSize
    BY OfDelta DEF FileType
  <2>2. HasDelta(delta) /\ Intersects(delta, o, x) /\ delta' = Expand(delta, o, x)
    BY <1>4 DEF WriteExpand
  <2>3. PICK e : e = Expand(delta, o, x)
    OBVIOUS
  <2>4. /\ e \in Deltas(AllBytes) /\ InOneBlock(e)
        /\ DeltaEnd(e) <= Larger(DeltaEnd(delta), o + Len(x))
    BY <1>2, <2>1, <2>2, <2>3, ExpandType, ZeroIsByte
  <2>5. DeltaEnd(e) <= MaxSize
    <3>1. DeltaEnd(e) \in Nat /\ Len(x) \in Nat
      BY <2>4, DeltaIs, LenProperties
    <3> QED
      BY <1>2, <2>1, <2>4, <3>1, SizeAssumption DEF Larger
  <2>6. IsDelta(delta')
    BY <2>2, <2>3, <2>4, <2>5, ToDelta
  <2> QED
    BY <1>4, <2>6
    DEF WriteExpand, FileType, CacheType, LocalType, OutgoingType, AnswerType
<1>5. CASE WriteReplace(h, o, x)
  <2>1. HasDelta(delta) /\ IsDelta(delta)
    BY <1>5 DEF WriteReplace, FileType
  <2>2. CacheType'
    BY <1>5, <2>1, CachesApplied DEF WriteReplace
  <2>3. LocalType'
    BY <1>5, StayTypes DEF WriteReplace, Place
  <2>4. OutgoingType'
    BY <1>5, <2>1, OutgoingTaken DEF WriteReplace
  <2> QED
    BY <1>2, <1>5, <2>2, <2>3, <2>4 DEF WriteReplace, FileType, AnswerType
<1> QED
  BY <1>2, <1>3, <1>4, <1>5 DEF WritePiece

LEMMA TakeTypes ==
  ASSUME Types, UNCHANGED setting, NEW h \in Handle, NEW l \in {"send", "sendflush", "sendclose"},
         TakeDelta(h, l)
  PROVE  Types'
<1> USE DEF Types
<1>1. HasDelta(delta) /\ IsDelta(delta)
  BY DEF TakeDelta, FileType
<1>2. CacheType'
  BY <1>1, CachesApplied DEF TakeDelta
<1>3. LocalType'
  BY StayTypes DEF TakeDelta, Place
<1>4. OutgoingType'
  BY <1>1, OutgoingTaken DEF TakeDelta
<1> QED
  BY <1>2, <1>3, <1>4, NoDeltaType DEF TakeDelta, FileType, AnswerType

(* The write of outgoing bytes leaves a file no longer than the longest.   *)
LEMMA SendTypes ==
  ASSUME Types, NEW h \in Handle, Send(h)
  PROVE  remote' \in Bytes
<1> USE DEF Types
<1>1. IsDelta(outgoing[h]) /\ remote \in Seq(AllBytes) /\ Len(remote) \in Nat
      /\ Len(remote) <= MaxSize
  BY OfBytes DEF FileType, OutgoingType
<1>2. PICK d \in Deltas(AllBytes) :
         d = outgoing[h] /\ DeltaEnd(d) \in Nat /\ DeltaEnd(d) <= MaxSize
  BY <1>1, OfDelta
<1>3. PICK f : f = PatchWith(remote, d)
  OBVIOUS
<1>4. /\ f \in Seq(AllBytes)
      /\ Len(f) = IF HasDelta(d) THEN Larger(Len(remote), DeltaEnd(d)) ELSE Len(remote)
  BY <1>1, <1>3, PatchWithType, ZeroIsByte
<1>5. Len(f) <= MaxSize
  BY <1>1, <1>2, <1>4 DEF Larger
<1> QED
  BY <1>2, <1>3, <1>4, <1>5, ToBytes DEF Send

(* What is read is as long as a block, and as the file.                    *)
LEMMA BlockOfBytes ==
  ASSUME NEW f \in Bytes, NEW b \in Nat
  PROVE  BlockOf(f, b) \in Bytes /\ Len(BlockOf(f, b)) <= BlockSize
<1>1. f \in Seq(AllBytes) /\ Len(f) \in Nat /\ Len(f) <= MaxSize
  BY OfBytes
<1>2. PICK s \in Nat : s = getBlockStartOffset(b)
  BY BlockStart
<1>3. PICK g : g = BlockOf(f, b)
  OBVIOUS
<1>4. /\ g \in Seq(AllBytes)
      /\ Len(g) = IF s < Len(f) THEN Smaller(BlockSize, Len(f) - s) ELSE 0
  BY <1>1, <1>2, <1>3, BlockOfType
<1>5. Len(g) <= MaxSize /\ Len(g) <= BlockSize
  BY <1>1, <1>4, BlockSizeAssumption, SizeAssumption DEF Smaller
<1> QED
  BY <1>3, <1>4, <1>5, ToBytes

LEMMA OverlayBytes ==
  ASSUME IsDelta(delta), NEW c \in BlockType, Len(c.data) <= BlockSize
  PROVE  Overlay(ZeroBlock, c.data, c.id, delta) \in Bytes
<1>1. /\ delta \in Deltas(AllBytes) /\ InOneBlock(delta)
      /\ DeltaEnd(delta) \in Nat /\ DeltaEnd(delta) <= MaxSize
  BY OfDelta
<1>2. PICK y \in Seq(AllBytes), b \in Nat :
         y = c.data /\ b = c.id /\ Len(y) <= MaxSize /\ Len(y) <= BlockSize
  BY OfBlock
<1>3. PICK a : a = Overlay(ZeroBlock, y, b, delta)
  OBVIOUS
<1>4. a \in Seq(AllBytes) /\ Len(a) <= Larger(Len(y), DeltaEnd(delta))
  BY <1>1, <1>2, <1>3, OverlayType, ZeroIsByte
<1>5. Len(a) <= MaxSize
  BY <1>1, <1>2, <1>4, LenProperties, SizeAssumption DEF Larger
<1> QED
  BY <1>2, <1>3, <1>4, <1>5, ToBytes

(* The steps of a stat, and what the server's catalogue learns, leave the  *)
(* bytes alone.                                                            *)
SizePlace == {"idle", "closed", "reopen", "close", "dropstat", "closestat",
              "objstat", "putstat", "stat", "reply"}

LEMMA SizeMoves ==
  ASSUME NEW h \in Handle, SizeStep(h)
  PROVE  /\ \E l \in SizePlace : Goto(h, l)
         /\ pc[h] \in SizePlace
         /\ Busy(h) \/ Alone
<1>1. CASE StatHit(h) \/ StatMiss(h) \/ ObjStat(h) \/ ObjStatFails(h) \/ PutStat(h)
           \/ StatDelta(h)
  BY <1>1 DEF StatHit, StatMiss, ObjStat, ObjStatFails, PutStat, StatDelta, Begin,
              SizePlace, Busy
<1>2. CASE Reopen(h) \/ ReopenFails(h) \/ CloseFd(h) \/ Open(h) \/ DropStat(h)
  BY <1>2 DEF Reopen, ReopenFails, CloseFd, Open, DropStat, SizePlace, Busy
<1> QED
  BY <1>1, <1>2 DEF SizeStep

LEMMA SizeAnswers ==
  ASSUME Types, SizeType, NEW h \in Handle, SizeStep(h)
  PROVE  AnswerType'
<1>1. CASE StatDelta(h)
  <2>1. PICK n \in Nat : n = Len(remote) /\ n <= MaxSize
    BY OfBytes DEF Types, FileType
  <2>2. found[h] \in 0..MaxSize
    BY <2>1, SizeAssumption DEF SizeType
  <2>3. Pending \in 0..MaxSize
    BY OfDelta, SizeAssumption DEF Types, FileType, Pending
  <2>4. Larger(found[h], Pending) \in 0..MaxSize
    BY <2>2, <2>3 DEF Larger
  <2> QED
    BY <1>1, <2>4 DEF StatDelta, Types, AnswerType
<1>2. CASE ObjStatFails(h) \/ ReopenFails(h)
  BY <1>2 DEF ObjStatFails, ReopenFails, Types, AnswerType
<1>3. CASE StatHit(h) \/ StatMiss(h) \/ ObjStat(h) \/ PutStat(h) \/ Reopen(h)
           \/ CloseFd(h) \/ Open(h) \/ DropStat(h)
  BY <1>3 DEF StatHit, StatMiss, ObjStat, PutStat, Reopen, CloseFd, Open, DropStat,
              Types, AnswerType
<1> QED
  BY <1>1, <1>2, <1>3 DEF SizeStep

LEMMA FlushDeltaTypes ==
  ASSUME Types, UNCHANGED setting, NEW h \in Handle, pc[h] = "idle",
         NEW l \in {"send", "sendflush", "sendclose"}, NEW m \in {"reopen", "drop"},
         FlushDelta(h, l, m)
  PROVE  Types'
<1>1. CASE TakeDelta(h, l)
  BY <1>1, TakeTypes
<1>2. CASE Goto(h, m) /\ UNCHANGED <<fileVars, outgoing, local, size, answer, dropped>>
  <2>1. LocalType' /\ OutgoingType'
    BY <1>2, StayTypes, OutgoingStays DEF Place, Types
  <2> QED
    BY <1>2, <2>1 DEF Types, fileVars, FileType, CacheType, AnswerType
<1> QED
  BY <1>1, <1>2 DEF FlushDelta

LEMMA StepTypes ==
  ASSUME Types, SizeType, UNCHANGED setting, NEW h \in Handle, Step(h)
  PROVE  Types'
<1> USE DEF Types
<1>1. CASE Reply(h)
  <2>1. LocalType' /\ OutgoingType'
    BY <1>1, StayTypes, OutgoingStays DEF Reply, Place
  <2> QED
    BY <1>1, <2>1 DEF Reply, fileVars, FileType, CacheType, AnswerType
<1>2. CASE WriteBlock(h)
  BY <1>2, WriteTypes DEF WriteBlock, Begin
<1>3. CASE Flush(h)
  BY <1>3, FlushDeltaTypes DEF Flush, Begin
<1>4. CASE Close(h)
  BY <1>4, FlushDeltaTypes DEF Close, Begin
<1>5. CASE Drop(h)
  <2>1. LocalType' /\ OutgoingType'
    BY <1>5, StayTypes, OutgoingStays DEF Drop, Place
  <2>2. CacheType'
    <3>1. NoBlock \in BlockType /\ Len(NoBlock.data) <= BlockSize
      BY NoBlockType, BlockSizeAssumption
    <3>2. cache' = [cache EXCEPT ![h] = NoBlock]
      BY <1>5 DEF Drop
    <3> QED
      BY <3>1, <3>2, CacheSet
  <2> QED
    BY <1>5, <2>1, <2>2 DEF Drop, FileType, AnswerType
<1>6. CASE Send(h)
  <2>1. remote' \in Bytes
    BY <1>6, SendTypes
  <2>2. \E l \in {"idle", "reopen", "drop"} : Goto(h, l)
    BY <1>6 DEF Send, Sending, After
  <2>3. LocalType' /\ OutgoingType'
    BY <1>6, <2>2, StayTypes, OutgoingGone DEF Send, Place
  <2> QED
    BY <1>6, <2>1, <2>3 DEF Send, FileType, CacheType, AnswerType
<1>7. CASE SendFails(h)
  <2>1. \E l \in {"reply", "lost"} : Goto(h, l)
    BY <1>7 DEF SendFails
  <2>2. LocalType' /\ OutgoingType'
    BY <1>7, <2>1, StayTypes, OutgoingGone DEF SendFails, Place
  <2> QED
    BY <1>7, <2>2 DEF SendFails, fileVars, FileType, CacheType, AnswerType
<1>8. CASE Lookup(h)
  <2>1. pc[h] = "idle"
    BY <1>8 DEF Lookup, Begin
  <2>2. PICK b \in BlockID :
          IF cache[h].held /\ cache[h].id = b
          THEN /\ local' = [local EXCEPT ![h] = cache[h]]
               /\ Goto(h, "overlay")
               /\ UNCHANGED cache
          ELSE /\ local' = [local EXCEPT ![h] = Block(b, <<>>)]
               /\ cache' = [cache EXCEPT ![h] = NoBlock]
               /\ Goto(h, "fetch")
    BY <1>8 DEF Lookup
  <2>3. Block(b, <<>>) \in BlockType /\ Len(Block(b, <<>>).data) <= BlockSize
    BY NoBytes, EmptySeq, BlockSizeAssumption DEF Block, BlockType
  <2>4. cache[h] \in BlockType /\ Len(cache[h].data) <= BlockSize
    BY DEF CacheType
  <2>5. OutgoingType'
    BY <1>8, <2>1, <2>2, OutgoingStays DEF Lookup, Place
  <2>6. CASE cache[h].held /\ cache[h].id = b
    <3>1. LocalType'
      BY <2>2, <2>4, <2>6, GotoTypes DEF Place
    <3>2. CacheType'
      BY <2>2, <2>6 DEF CacheType
    <3> QED
      BY <1>8, <2>5, <3>1, <3>2 DEF Lookup, FileType, AnswerType
  <2>7. CASE ~(cache[h].held /\ cache[h].id = b)
    <3>1. LocalType'
      BY <2>2, <2>3, <2>7, GotoTypes DEF Place
    <3>2. CacheType'
      BY <2>2, <2>7, CacheSet, NoBlockType, BlockSizeAssumption
    <3> QED
      BY <1>8, <2>5, <3>1, <3>2 DEF Lookup, FileType, AnswerType
  <2> QED
    BY <2>6, <2>7
<1>9. CASE Fetch(h)
  <2>1. local[h] \in BlockType /\ local[h].id \in Nat /\ remote \in Bytes
    BY OfBlock DEF LocalType, FileType
  <2>2. PICK g \in Bytes : g = BlockOf(remote, local[h].id) /\ Len(g) <= BlockSize
    BY <2>1, BlockOfBytes
  <2>3. PICK c \in BlockType : c = [local[h] EXCEPT !.data = g] /\ Len(c.data) <= BlockSize
    <3>1. PICK l \in [id : BlockID, data : Bytes, held : BOOLEAN] : l = local[h]
      BY <2>1 DEF BlockType
    <3>2. [l EXCEPT !.data = g] \in BlockType /\ [l EXCEPT !.data = g].data = g
      BY DEF BlockType
    <3> QED
      BY <2>2, <3>1, <3>2
  <2>4. local' = [local EXCEPT ![h] = c]
    BY <1>9, <2>2, <2>3 DEF Fetch
  <2>5. LocalType' /\ OutgoingType'
    BY <1>9, <2>3, <2>4, GotoTypes, OutgoingStays DEF Fetch, Place
  <2> QED
    BY <1>9, <2>5 DEF Fetch, fileVars, FileType, CacheType, AnswerType
<1>10. CASE FetchFails(h)
  <2>1. LocalType' /\ OutgoingType'
    BY <1>10, GotoTypes, OutgoingStays, NoBlockType DEF FetchFails, Return, Place
  <2> QED
    BY <1>10, <2>1 DEF FetchFails, Return, fileVars, FileType, CacheType, AnswerType
<1>11. CASE Insert(h)
  <2>1. local[h] \in BlockType /\ Len(local[h].data) <= BlockSize
    BY <1>11 DEF Insert, LocalType
  <2>2. LocalType' /\ OutgoingType'
    BY <1>11, <2>1, StayTypes, OutgoingStays DEF Insert, Place
  <2>3. CacheType'
    BY <1>11, <2>1, CacheSet DEF Insert
  <2> QED
    BY <1>11, <2>2, <2>3 DEF Insert, FileType, AnswerType
<1>12. CASE ReadOverlay(h)
  <2>1. Overlay(ZeroBlock, local[h].data, local[h].id, delta) \in Bytes
    BY <1>12, OverlayBytes DEF ReadOverlay, LocalType, FileType
  <2>2. LocalType' /\ OutgoingType'
    BY <1>12, GotoTypes, OutgoingStays, NoBlockType DEF ReadOverlay, Return, Place
  <2> QED
    BY <1>12, <2>1, <2>2 DEF ReadOverlay, Return, fileVars, FileType, CacheType, AnswerType
<1>13. CASE SizeStep(h) /\ UNCHANGED <<fileVars, outgoing, local, dropped>>
  <2>1. PICK l \in SizePlace : Goto(h, l)
    BY <1>13, SizeMoves
  <2>2. pc[h] \in SizePlace
    BY <1>13, SizeMoves
  <2>3. LocalType'
    BY <1>13, <2>1, StayTypes DEF SizePlace, Place
  <2>4. OutgoingType'
    BY <1>13, <2>1, <2>2, OutgoingStays DEF SizePlace, Place
  <2>5. AnswerType'
    BY <1>13, SizeAnswers
  <2> QED
    BY <1>13, <2>3, <2>4, <2>5 DEF fileVars, FileType, CacheType
<1> QED
  BY <1>1, <1>2, <1>3, <1>4, <1>5, <1>6, <1>7, <1>8, <1>9, <1>10, <1>11, <1>12,
     <1>13 DEF Step, FileStep

(* The file at the server does not shrink.                                 *)
LEMMA RemoteGrows ==
  ASSUME Types, NEW h \in Handle, Step(h)
  PROVE  /\ Len(remote) \in Nat /\ Len(remote') \in Nat
         /\ Len(remote) <= Len(remote')
<1>1. Len(remote) \in Nat
  BY OfBytes DEF Types, FileType
<1>2. CASE Send(h)
  <2>1. PICK d \in Deltas(AllBytes) : d = outgoing[h] /\ DeltaEnd(d) \in Nat
    BY OfDelta DEF Types, OutgoingType
  <2>2. PICK g \in Seq(AllBytes) : g = remote
    BY OfBytes DEF Types, FileType
  <2>3. Len(PatchWith(g, d)) =
          IF HasDelta(d) THEN Larger(Len(g), DeltaEnd(d)) ELSE Len(g)
    BY <2>1, <2>2, PatchWithType, ZeroIsByte
  <2>4. remote' = PatchWith(g, d)
    BY <1>2, <2>1, <2>2 DEF Send
  <2> QED
    BY <1>1, <2>1, <2>2, <2>3, <2>4 DEF Larger
<1>3. CASE ~Send(h)
  <2>1. remote' = remote
    BY <1>3 DEF Step, FileStep, Reply, WriteBlock, WritePiece, WriteNew, WriteExpand,
                WriteReplace, Flush, Close, FlushDelta, TakeDelta, Drop, SendFails,
                Lookup, Fetch, FetchFails, Insert, ReadOverlay, Return, fileVars
  <2> QED
    BY <1>1, <2>1
<1> QED
  BY <1>2, <1>3

(* A size that is known is one the file at the server has reached.         *)
LEMMA SizeTypes ==
  ASSUME Types, SizeType, NEW h \in Handle, Step(h)
  PROVE  SizeType'
<1>1. PICK n \in Nat, m \in Nat : n = Len(remote) /\ m = Len(remote') /\ n <= m
  BY RemoteGrows
<1>2. /\ registered \in 0..n
      /\ statCache \in 0..n \cup {Nothing}
      /\ found \in [Handle -> 0..n]
  BY <1>1 DEF SizeType
<1>3. CASE UNCHANGED sizeVars
  <2>1. 0..n \subseteq 0..m
    BY <1>1
  <2> QED
    BY <1>1, <1>2, <1>3, <2>1 DEF sizeVars, SizeType
<1>4. CASE SizeStep(h) /\ UNCHANGED remote
  <2>1. m = n
    BY <1>1, <1>4
  <2>2. CASE StatHit(h) \/ StatMiss(h) \/ ObjStat(h) \/ ObjStatFails(h) \/ PutStat(h)
             \/ StatDelta(h)
    <3>1. registered' = registered /\ statCache' \in 0..n \cup {Nothing}
      BY <1>2, <2>2 DEF StatHit, StatMiss, ObjStat, ObjStatFails, PutStat, StatDelta,
                        sizeVars
    <3>2. found' \in [Handle -> 0..n]
      <4>1. CASE StatHit(h)
        BY <1>2, <4>1 DEF StatHit
      <4>2. CASE ObjStat(h)
        <5>1. PICK k \in registered..n : found' = [found EXCEPT ![h] = k]
          BY <1>1, <4>2 DEF ObjStat
        <5> QED
          BY <1>2, <5>1
      <4>3. CASE StatMiss(h) \/ ObjStatFails(h) \/ PutStat(h) \/ StatDelta(h)
        BY <1>1, <1>2, <4>3 DEF StatMiss, ObjStatFails, PutStat, StatDelta, sizeVars
      <4> QED
        BY <2>2, <4>1, <4>2, <4>3
    <3> QED
      BY <1>1, <1>2, <2>1, <3>1, <3>2 DEF SizeType
  <2>3. CASE Reopen(h) \/ ReopenFails(h) \/ CloseFd(h) \/ Open(h) \/ DropStat(h)
    <3>1. registered' \in 0..n /\ found' = found /\ statCache' \in {statCache, Nothing}
      BY <1>1, <1>2, <2>3 DEF Reopen, ReopenFails, CloseFd, Open, DropStat, Register,
                              sizeVars
    <3> QED
      BY <1>1, <1>2, <2>1, <3>1 DEF SizeType
  <2> QED
    BY <1>4, <2>2, <2>3 DEF SizeStep
<1> QED
  BY <1>3, <1>4 DEF Step, fileVars

(* Every variable has its type, a delta and a cached block lie within one  *)
(* block of the file, a delta of a handle is on its way just when the      *)
(* handle is at the write call of a flush, and no size is known that the   *)
(* file at the server has not reached.                                     *)
THEOREM TypeCorrect == Spec => []TypeOK
<1> DEFINE T == Types /\ SizeType
<1>1. Init => T
  BY InitTypes
<1>2. T /\ [Next]_vars => T'
  <2>1. T /\ UNCHANGED vars => T'
    BY DEF vars, fileVars, sizeVars, Types, FileType, CacheType, LocalType,
           OutgoingType, AnswerType, SizeType
  <2>2. T /\ Next => T'
    BY StepTypes, SizeTypes DEF Next
  <2> QED
    BY <2>1, <2>2
<1>3. T => TypeOK
  BY TypesAre
<1> QED
  BY <1>1, <1>2, <1>3, PTL DEF Spec

-----------------------------------------------------------------------------
(* One flush at a time.                                                    *)

LEMMA SettingStays ==
  ASSUME UNCHANGED setting
  PROVE  /\ Serial' <=> Serial
         /\ Sparse' <=> Sparse
         /\ Failures' <=> Failures
         /\ OneFlush' <=> OneFlush
         /\ Orderly' <=> Orderly
         /\ Writer' = Writer /\ Watched' = Watched
BY DEF Serial, Sparse, Failures, OneFlush, Orderly, Writer, Watched

(* A step moves its own handle, and one that moves has begun.              *)
LEMMA StepMoves ==
  ASSUME Types, NEW h \in Handle, Step(h)
  PROVE  /\ pc' = pc \/ \E l \in Place : Goto(h, l)
         /\ \A k \in Handle : k # h => pc'[k] = pc[k]
         /\ Busy(h) \/ Alone
         /\ pc'[h] \in {"send", "sendflush", "sendclose"} => h \in Writer \/ h \in Sending
<1> USE DEF Types, LocalType
<1>1. pc \in [Handle -> Place]
  OBVIOUS
<1>2. /\ pc' = pc \/ \E l \in Place : Goto(h, l)
      /\ Busy(h) \/ Alone
      /\ pc'[h] \in {"send", "sendflush", "sendclose"} => h \in Writer \/ h \in Sending
  <2>1. CASE Reply(h) \/ Drop(h) \/ Send(h) \/ SendFails(h)
    <3>1. pc[h] \in {"reply", "drop", "send", "sendflush", "sendclose"}
      BY <2>1 DEF Reply, Drop, Send, SendFails, Sending
    <3>2. \E l \in {"idle", "reopen", "drop", "close", "reply", "lost"} : Goto(h, l)
      BY <2>1 DEF Reply, Drop, Send, SendFails, Sending, After
    <3> QED
      BY <1>1, <3>1, <3>2 DEF Goto, Place, Busy
  <2>2. CASE Fetch(h) \/ FetchFails(h) \/ Insert(h) \/ ReadOverlay(h)
    <3>1. pc[h] \in {"fetch", "insert", "overlay"}
      BY <2>2 DEF Fetch, FetchFails, Insert, ReadOverlay
    <3>2. \E l \in {"insert", "overlay", "reply"} : Goto(h, l)
      BY <2>2 DEF Fetch, FetchFails, Insert, ReadOverlay, Return
    <3> QED
      BY <1>1, <3>1, <3>2 DEF Goto, Place, Busy
  <2>3. CASE Lookup(h)
    <3>1. Begin(h) /\ \E l \in {"fetch", "overlay"} : Goto(h, l)
      BY <2>3 DEF Lookup
    <3> QED
      BY <1>1, <3>1 DEF Goto, Place, Begin
  <2>4. CASE Flush(h) \/ Close(h)
    <3>1. Begin(h) /\ \E l \in {"sendflush", "sendclose"}, m \in {"reopen", "drop"} :
             \/ h \in Writer /\ Goto(h, l)
             \/ Goto(h, m)
      BY <2>4 DEF Flush, Close, FlushDelta, TakeDelta
    <3> QED
      BY <1>1, <3>1 DEF Goto, Place, Begin
  <2>5. CASE SizeStep(h)
    <3>1. PICK l \in SizePlace : Goto(h, l)
      BY <2>5, SizeMoves
    <3>2. Busy(h) \/ Alone
      BY <2>5, SizeMoves
    <3> QED
      BY <1>1, <3>1, <3>2 DEF Goto, Place, SizePlace
  <2>6. CASE WriteBlock(h)
    <3>1. Begin(h) /\ h \in Writer
      BY <2>6 DEF WriteBlock
    <3>2. pc' = pc \/ Goto(h, "send")
      BY <2>6 DEF WriteBlock, WritePiece, WriteNew, WriteExpand, WriteReplace
    <3> QED
      BY <1>1, <3>1, <3>2 DEF Place, Goto, Begin
  <2> QED
    BY <2>1, <2>2, <2>3, <2>4, <2>5, <2>6 DEF Step, FileStep
<1>3. \A k \in Handle : k # h => pc'[k] = pc[k]
  BY <1>1, <1>2 DEF Goto
<1> QED
  BY <1>2, <1>3

LEMMA FlushingKept ==
  ASSUME Types, Flushing, UNCHANGED setting, NEW h \in Handle, Step(h)
  PROVE  Flushing'
<1>1. /\ Serial' <=> Serial
      /\ Writer' = Writer
  BY SettingStays
<1>2. /\ \A k \in Handle : k # h => pc'[k] = pc[k]
      /\ Busy(h) \/ Alone
      /\ pc'[h] \in {"send", "sendflush", "sendclose"} => h \in Writer \/ h \in Sending
  BY StepMoves
<1>3. Sending' \subseteq Writer'
  BY <1>1, <1>2 DEF Flushing, Sending
<1>4. ASSUME Serial', NEW i \in Handle, NEW k \in Handle, Busy(i)', Busy(k)'
      PROVE  i = k
  <2>1. \A j \in Handle : j # h => ~Busy(j)
    BY <1>1, <1>2, <1>4 DEF Flushing, Alone, Busy
  <2>2. \A j \in Handle : j # h => ~Busy(j)'
    BY <1>2, <2>1 DEF Busy
  <2> QED
    BY <1>4, <2>2
<1>5. dropped' => Failures'
  <2>1. CASE SendFails(h)
    BY <2>1, SettingStays DEF SendFails
  <2>2. CASE ~SendFails(h)
    <3>1. dropped' = dropped
      BY <2>2 DEF Step, FileStep, Reply, WriteBlock, WritePiece, WriteNew,
                  WriteExpand, WriteReplace, Flush, Close, FlushDelta, TakeDelta, Drop,
                  Send, Lookup, Fetch, FetchFails, Insert, ReadOverlay, Return
    <3> QED
      BY <3>1, SettingStays DEF Flushing
  <2> QED
    BY <2>1, <2>2
<1> QED
  BY <1>3, <1>4, <1>5 DEF Flushing

OneSender == \A h, k \in Sending : h = k

LEMMA OneSenderNow ==
  ASSUME Flushing, OneFlush
  PROVE  OneSender
BY DEF Flushing, OneFlush, OneSender, Sending, Busy

LEMMA OneSenderNext ==
  ASSUME Flushing', OneFlush'
  PROVE  OneSender'
BY DEF Flushing, OneFlush, OneSender, Sending, Busy

LEMMA ChooseOnly ==
  ASSUME NEW T, NEW h \in T, \A k \in T : k = h
  PROVE  (CHOOSE k \in T : TRUE) = h
OBVIOUS

(* Under one flush, and nobody flushes: the file is the server's.  When    *)
(* one does: it is the server's with the bytes on their way.               *)
LEMMA BaseIs ==
  ASSUME OneSender
  PROVE  /\ Sending = {} => Base = remote
         /\ \A h \in Sending : Base = PatchWith(remote, outgoing[h])
<1>1. ASSUME NEW h \in Sending PROVE Base = PatchWith(remote, outgoing[h])
  <2>1. (CHOOSE k \in Sending : TRUE) = h
    BY ChooseOnly DEF OneSender
  <2> QED
    BY <2>1 DEF Base
<1> QED
  BY <1>1 DEF Base

LEMMA BaseIsNext ==
  ASSUME OneSender'
  PROVE  /\ Sending' = {} => Base' = remote'
         /\ \A h \in Sending' : Base' = PatchWith(remote', outgoing'[h])
<1>1. ASSUME NEW h \in Sending' PROVE Base' = PatchWith(remote', outgoing'[h])
  <2>1. (CHOOSE k \in Sending' : TRUE) = h
    BY ChooseOnly DEF OneSender
  <2> QED
    BY <2>1 DEF Base
<1> QED
  BY <1>1 DEF Base

LEMMA BaseType ==
  ASSUME Types, OneSender
  PROVE  Base \in Seq(AllBytes) /\ View \in Seq(AllBytes)
<1>1. remote \in Seq(AllBytes) /\ delta \in Deltas(AllBytes)
  BY OfBytes, OfDelta DEF Types, FileType
<1>2. Base \in Seq(AllBytes)
  <2>1. CASE Sending = {}
    BY <1>1, <2>1, BaseIs
  <2>2. CASE Sending # {}
    <3>1. PICK h \in Handle : h \in Sending
      BY <2>2 DEF Sending
    <3>2. outgoing[h] \in Deltas(AllBytes)
      BY OfDelta DEF Types, OutgoingType
    <3>3. Base = PatchWith(remote, outgoing[h])
      BY <3>1, BaseIs
    <3> QED
      BY <1>1, <3>2, <3>3, PatchWithType, ZeroIsByte
  <2> QED
    BY <2>1, <2>2
<1>3. PatchWith(Base, delta) \in Seq(AllBytes)
  BY <1>1, <1>2, PatchWithType, ZeroIsByte
<1> QED
  BY <1>2, <1>3 DEF View

-----------------------------------------------------------------------------
(* What the steps do to the file.                                          *)

(* A step that does not begin or end a flush leaves it alone.              *)
LEMMA BaseStays ==
  ASSUME LocalType, NEW h \in Handle, NEW l \in Place, pc' = pc \/ Goto(h, l),
         pc[h] \notin {"send", "sendflush", "sendclose"}, l \notin {"send", "sendflush", "sendclose"},
         UNCHANGED <<remote, outgoing>>
  PROVE  Sending' = Sending /\ Base' = Base
<1>1. Sending' = Sending
  BY DEF Sending, LocalType, Goto
<1> QED
  BY <1>1 DEF Base

(* The delta is taken for a flush: it counts as before.                    *)
LEMMA BaseTaken ==
  ASSUME Types, Flushing, Flushing', OneFlush, UNCHANGED setting,
         NEW h \in Handle, pc[h] = "idle", NEW l \in {"send", "sendflush", "sendclose"},
         Goto(h, l), UNCHANGED remote, outgoing' = [outgoing EXCEPT ![h] = delta]
  PROVE  Sending = {} /\ Base = remote /\ Base' = PatchWith(remote, delta)
<1>1. OneFlush'
  BY SettingStays
<1>2. OneSender /\ OneSender'
  BY <1>1, OneSenderNow, OneSenderNext
<1>3. h \in Sending' /\ h \notin Sending
  BY DEF Types, LocalType, Sending, Goto
<1>4. Sending \subseteq Sending'
  BY DEF Types, LocalType, Sending, Goto
<1>5. Sending = {}
  BY <1>2, <1>3, <1>4 DEF OneSender
<1>6. Base = remote
  BY <1>2, <1>5, BaseIs
<1>7. Base' = PatchWith(remote', outgoing'[h])
  BY <1>2, <1>3, BaseIsNext
<1>8. outgoing'[h] = delta /\ remote' = remote
  BY DEF Types, OutgoingType
<1> QED
  BY <1>5, <1>6, <1>7, <1>8

(* The write call has returned: the server has what was on its way.        *)
LEMMA BaseSent ==
  ASSUME Types, OneSender, OneSender', NEW h \in Handle, Send(h)
  PROVE  Base' = Base
<1>1. h \in Sending
  BY DEF Send
<1>2. Base = PatchWith(remote, outgoing[h])
  BY <1>1, BaseIs
<1>3. Sending' = {}
  <2>1. \E l \in {"idle", "reopen", "drop"} : Goto(h, l)
    BY <1>1 DEF Send, Sending, After
  <2> QED
    BY <1>1, <2>1 DEF Sending, Types, LocalType, Goto, OneSender
<1>4. Base' = remote'
  BY <1>3, BaseIsNext
<1> QED
  BY <1>2, <1>4 DEF Send

(* A piece that is written is there, in whichever way it joins the delta.  *)
LEMMA PieceWritten ==
  ASSUME Types, Flushing, Flushing', OneFlush, UNCHANGED setting,
         NEW h \in Handle, pc[h] = "idle", NEW p \in Piece, WritePiece(h, p)
  PROVE  /\ View' = Patch(View, p.off, DataOf(p))
         /\ HasDelta(delta') /\ View' = PatchWith(View, delta')
         /\ pc'[h] \in {"idle", "send"}
         /\ UNCHANGED <<size, answer, dropped>>
<1>1. PICK o \in Nat, x \in Seq(AllBytes) :
         o = p.off /\ x = DataOf(p) /\ x # <<>>
  BY PieceIs DEF Types, FileType
<1>2. OneSender
  BY OneSenderNow
<1>3. PICK f \in Seq(AllBytes) : f = Base
  BY <1>2, BaseType
<1>4. delta \in Deltas(AllBytes)
  BY OfDelta DEF Types, FileType
<1>5. pc \in [Handle -> Place]
  BY DEF Types, LocalType
<1>6. PatchWith(f, [off |-> o, data |-> x]) = Patch(f, o, x) /\ HasDelta([off |-> o, data |-> x])
  BY <1>1 DEF PatchWith, HasDelta
<1>7. CASE WriteNew(h, o, x)
  <2>1. Base' = Base
    BY <1>7, <1>5, BaseStays DEF WriteNew, Types, Place
  <2>2. View = f /\ delta' = [off |-> o, data |-> x]
    BY <1>3, <1>7 DEF WriteNew, View, PatchWith
  <2> QED
    BY <1>1, <1>3, <1>6, <1>7, <2>1, <2>2 DEF WriteNew, View
<1>8. CASE WriteExpand(h, o, x)
  <2>1. Base' = Base
    BY <1>8, <1>5, BaseStays DEF WriteExpand, Types, Place
  <2>2. HasDelta(delta) /\ Intersects(delta, o, x) /\ delta' = Expand(delta, o, x)
    BY <1>8 DEF WriteExpand
  <2>3. /\ PatchWith(f, Expand(delta, o, x)) = Patch(PatchWith(f, delta), o, x)
        /\ PatchWith(PatchWith(f, delta), Expand(delta, o, x))
              = PatchWith(f, Expand(delta, o, x))
    BY <1>1, <1>4, <2>2, ExpandWrites, ZeroIsByte
  <2>4. IsDelta(delta) /\ setting \in Setting
    BY DEF Types, FileType
  <2>5. HasDelta(Expand(delta, o, x))
    <3>1. InOneBlock(delta) /\ getInBlockOffset(o) + Len(x) <= BlockSize
      BY <1>1, <2>4, OfDelta, PieceIs
    <3> QED
      BY <1>1, <1>4, <2>2, <3>1, ExpandType, ZeroIsByte
  <2> QED
    BY <1>1, <1>3, <1>8, <2>1, <2>2, <2>3, <2>5 DEF WriteExpand, View
<1>9. CASE WriteReplace(h, o, x)
  <2>1. Base = remote /\ Base' = PatchWith(remote, delta)
    BY <1>9, BaseTaken DEF WriteReplace
  <2>2. View = Base' /\ delta' = [off |-> o, data |-> x]
    BY <1>9, <2>1 DEF WriteReplace, View
  <2>3. PatchWith(View, [off |-> o, data |-> x]) = Patch(View, o, x)
    BY <1>6 DEF PatchWith
  <2>4. View' = PatchWith(View, delta')
    BY <2>2 DEF View
  <2>5. pc'[h] = "send"
    BY <1>5, <1>9 DEF WriteReplace, Goto
  <2> QED
    BY <1>1, <1>6, <1>9, <2>2, <2>3, <2>4, <2>5 DEF WriteReplace
<1> QED
  BY <1>1, <1>7, <1>8, <1>9 DEF WritePiece

-----------------------------------------------------------------------------
(* Writes are seen, and nothing else changes the file.                     *)

LEMMA WatchedIs ==
  ASSUME Types
  PROVE  Writer \subseteq Handle /\ Watched \subseteq Handle
BY SettingAssumption DEF Types, FileType, Watched, Writer

Flushes == Types /\ SizeType /\ Flushing

LEMMA FlushesInvariant ==
  /\ Init => Flushes
  /\ Flushes /\ [Next]_vars => Flushes'
<1>1. Init => Flushes
  <2>1. Init => Flushing
    BY DEF Init, Flushing, Sending, Busy, Failures
  <2> QED
    BY <2>1, InitTypes DEF Flushes
<1>2. Flushes /\ UNCHANGED vars => Flushes'
  BY DEF vars, fileVars, sizeVars, Flushes, Types, FileType, CacheType, LocalType,
         OutgoingType, AnswerType, SizeType, Flushing, Sending, Writer, Serial,
         Failures, Busy
<1>3. Flushes /\ Next => Flushes'
  BY StepTypes, SizeTypes, FlushingKept DEF Flushes, Next
<1> QED
  BY <1>1, <1>2, <1>3

(* A piece that is written is there at once, over every byte written       *)
(* before, in whichever of the three ways it joins the delta.              *)
THEOREM WritesAreSeen == Spec => WriteSeen
<1>1. Flushes /\ [Next]_vars =>
        [OneFlush => \A h \in Writer, p \in Piece :
           pc[h] = "idle" /\ WritePiece(h, p)
              => View' = Patch(View, p.off, DataOf(p))]_vars
  <2> SUFFICES ASSUME Flushes, Next, OneFlush, NEW h \in Writer, NEW p \in Piece,
                      pc[h] = "idle", WritePiece(h, p)
               PROVE  View' = Patch(View, p.off, DataOf(p))
    OBVIOUS
  <2>1. Flushes' /\ UNCHANGED setting
    BY FlushesInvariant DEF Next
  <2>2. h \in Handle
    BY WatchedIs DEF Flushes
  <2> QED
    BY <2>1, <2>2, PieceWritten DEF Flushes
<1> QED
  BY <1>1, FlushesInvariant, PTL DEF Spec, WriteSeen

(* Every step but a write and a flush that fails leaves the file as it is. *)
LEMMA StepKeepsFile ==
  ASSUME Types, Flushing, Flushing', OneFlush, UNCHANGED setting,
         NEW h \in Handle, Step(h), ~WriteBlock(h), ~SendFails(h)
  PROVE  View' = View
<1>1. pc \in [Handle -> Place] /\ LocalType
  BY DEF Types, LocalType
<1>2. CASE Reply(h) \/ Drop(h) \/ Lookup(h) \/ Fetch(h) \/ FetchFails(h)
           \/ Insert(h) \/ ReadOverlay(h)
  <2>1. UNCHANGED <<remote, delta, outgoing>>
    BY <1>2 DEF Reply, Drop, Lookup, Fetch, FetchFails, Insert, ReadOverlay, Return,
                fileVars
  <2>2. pc[h] \notin {"send", "sendflush", "sendclose"}
    BY <1>2 DEF Reply, Drop, Lookup, Fetch, FetchFails, Insert, ReadOverlay, Begin
  <2>3. \E l \in {"idle", "close", "overlay", "fetch", "insert", "reply"} : Goto(h, l)
    BY <1>2 DEF Reply, Drop, Lookup, Fetch, FetchFails, Insert, ReadOverlay, Return
  <2>4. Base' = Base
    BY <1>1, <2>1, <2>2, <2>3, BaseStays DEF Place
  <2> QED
    BY <2>1, <2>4 DEF View
<1>3. ASSUME NEW l \in {"sendflush", "sendclose"}, NEW m \in {"reopen", "drop"},
             FlushDelta(h, l, m), Begin(h)
      PROVE  View' = View
  <2>1. CASE TakeDelta(h, l)
    <3>1. Base = remote /\ Base' = PatchWith(remote, delta)
      BY <1>3, <2>1, BaseTaken DEF TakeDelta, Begin
    <3>2. View = Base' /\ View' = Base'
      BY <2>1, <3>1, NoDeltaType DEF View, TakeDelta, PatchWith
    <3> QED
      BY <3>2
  <2>2. CASE Goto(h, m) /\ UNCHANGED <<fileVars, outgoing, local, size, answer, dropped>>
    <3>1. Base' = Base
      BY <1>1, <1>3, <2>2, BaseStays DEF Begin, Place, fileVars
    <3> QED
      BY <2>2, <3>1 DEF View, fileVars
  <2> QED
    BY <1>3, <2>1, <2>2 DEF FlushDelta
<1>4. CASE Flush(h) \/ Close(h)
  BY <1>3, <1>4 DEF Flush, Close
<1>5. CASE SizeStep(h) /\ UNCHANGED <<fileVars, outgoing, local, dropped>>
  <2>1. PICK l \in SizePlace : Goto(h, l)
    BY <1>5, SizeMoves
  <2>2. pc[h] \in SizePlace
    BY <1>5, SizeMoves
  <2>3. Base' = Base
    BY <1>1, <1>5, <2>1, <2>2, BaseStays DEF SizePlace, Place, fileVars
  <2> QED
    BY <1>5, <2>3 DEF View, fileVars
<1>6. CASE Send(h)
  <2>1. OneSender /\ OneSender'
    BY SettingStays, OneSenderNow, OneSenderNext
  <2>2. Base' = Base
    BY <1>6, <2>1, BaseSent
  <2> QED
    BY <1>6, <2>2 DEF Send, View
<1> QED
  BY <1>2, <1>4, <1>5, <1>6 DEF Step, FileStep

(* Only a write changes what the file holds, or else a flush that failed   *)
(* and says so.                                                            *)
THEOREM ContentIsKept == Spec => ContentKept
<1>1. Flushes /\ [Next]_vars =>
        [OneFlush /\ View' # View =>
         \/ \E h \in Writer : pc[h] = "idle" /\ pc'[h] \in {"idle", "send"}
                              /\ HasDelta(delta')
                              /\ View' = PatchWith(View, delta')
         \/ \E h \in Sending : h \notin Sending' /\ answer'[h] = Failed]_vars
  <2> SUFFICES ASSUME Flushes, Next, OneFlush, View' # View
               PROVE
         \/ \E h \in Writer : pc[h] = "idle" /\ pc'[h] \in {"idle", "send"}
                              /\ HasDelta(delta')
                              /\ View' = PatchWith(View, delta')
         \/ \E h \in Sending : h \notin Sending' /\ answer'[h] = Failed
    OBVIOUS
  <2>1. Flushes' /\ UNCHANGED setting
    BY FlushesInvariant DEF Next
  <2>2. PICK h \in Handle : Step(h)
    BY DEF Next
  <2>3. CASE WriteBlock(h)
    <3>1. PICK p \in Piece : WritePiece(h, p)
      BY <2>3 DEF WriteBlock
    <3>2. h \in Writer /\ pc[h] = "idle"
      BY <2>3 DEF WriteBlock, Begin
    <3>3. HasDelta(delta') /\ View' = PatchWith(View, delta') /\ pc'[h] \in {"idle", "send"}
      BY <2>1, <3>1, <3>2, PieceWritten DEF Flushes
    <3> QED
      BY <3>2, <3>3
  <2>4. CASE SendFails(h)
    <3>1. h \in Sending
      BY <2>4 DEF SendFails
    <3>2. \E l \in {"reply", "lost"} : pc' = [pc EXCEPT ![h] = l]
      BY <2>4 DEF SendFails, Goto
    <3>3. pc \in [Handle -> Place] /\ answer \in [Handle -> Bytes \cup {Nothing, Failed}]
      BY DEF Flushes, Types, LocalType, AnswerType
    <3>4. h \notin Sending'
      BY <3>2, <3>3 DEF Sending
    <3>5. answer'[h] = Failed
      BY <2>4, <3>3 DEF SendFails
    <3> QED
      BY <3>1, <3>4, <3>5
  <2> QED
    BY <2>1, <2>2, <2>3, <2>4, StepKeepsFile DEF Flushes
<1> QED
  BY <1>1, FlushesInvariant, PTL DEF Spec, ContentKept

-----------------------------------------------------------------------------
(* Cached blocks.                                                          *)

(* What a step with the file unchanged has to show for its own handle.     *)
LEMMA OwnBlocks ==
  ASSUME Types, CachesGood, UNCHANGED setting, NEW h \in Handle, Base' = Base,
         \A k \in Handle : k # h =>
            cache'[k] = cache[k] /\ local'[k] = local[k] /\ pc'[k] = pc[k],
         h \in Watched => /\ cache'[h].held => Good(cache'[h])
                          /\ pc'[h] \in {"insert", "overlay"} => Good(local'[h]),
         ~Sparse /\ HasDelta(delta') => delta'.off <= Len(Base)
  PROVE  CachesGood'
<1>1. Watched' = Watched /\ (Sparse' <=> Sparse)
  BY SettingStays
<1>0. Watched \subseteq Handle
  BY WatchedIs
<1>2. ~Sparse' /\ HasDelta(delta)' => (delta.off <= Len(Base))'
  BY <1>1 DEF HasDelta
<1>3. ASSUME NEW k \in Watched
      PROVE  /\ cache'[k].held => Good(cache'[k])
             /\ pc'[k] \in {"insert", "overlay"} => Good(local'[k])
  <2>1. CASE k = h
    BY <2>1
  <2>2. CASE k # h
    <3>1. /\ cache[k].held => Good(cache[k])
          /\ pc[k] \in {"insert", "overlay"} => Good(local[k])
      BY DEF CachesGood, Reading
    <3>2. cache'[k] = cache[k] /\ local'[k] = local[k] /\ pc'[k] = pc[k]
      BY <1>0, <2>2
    <3> QED
      BY <3>1, <3>2
  <2> QED
    BY <2>1, <2>2
<1>4. ASSUME NEW k \in Watched
      PROVE  /\ (cache[k].held => Good(cache[k]))'
             /\ (Reading(k) => Good(local[k]))'
  BY <1>1, <1>3 DEF Good, Reading
<1> QED
  BY <1>1, <1>2, <1>4 DEF CachesGood

(* A block that is fetched with no flush under way is of the file.         *)
LEMMA FetchedGood ==
  ASSUME Types, Flushing, OneFlush, NEW h \in Watched, pc[h] = "fetch",
         NEW c \in BlockType, c.data = BlockOf(remote, c.id)
  PROVE  Good(c)
<1>1. h \in Handle
  BY WatchedIs
<1>2. Sending = {}
  <2>1. CASE Serial
    BY <1>1, <2>1 DEF Flushing, Sending, Busy
  <2>2. CASE ~Serial
    BY <2>2 DEF Watched, Flushing, OneFlush, Sending
  <2> QED
    BY <2>1, <2>2
<1>3. Base = remote
  BY <1>2, OneSenderNow, BaseIs
<1>4. remote \in Seq(AllBytes) /\ c.id \in Nat
  BY OfBytes, OfBlock DEF Types, FileType
<1>5. Covers(c.data, remote, c.id) /\ Complete(c.data, remote, c.id)
  BY <1>4, CoversBlockOf
<1> QED
  BY <1>3, <1>5 DEF Good

(* _applyDeltaToCache: a flush leaves no cached block behind the file.     *)
LEMMA AppliedGood ==
  ASSUME Types, OneSender, CachesGood, HasDelta(delta), Base = remote,
         NEW h \in Watched, cache[h].held
  PROVE  /\ Covers(ApplyTo(cache[h], delta).data, PatchWith(remote, delta),
                   ApplyTo(cache[h], delta).id)
         /\ ~Sparse => Complete(ApplyTo(cache[h], delta).data,
                                PatchWith(remote, delta), ApplyTo(cache[h], delta).id)
<1>1. PICK c \in Cached : c = cache[h] /\ Len(c.data) <= BlockSize
  BY WatchedIs, OfBlock DEF Types, CacheType
<1>2. PICK f \in Seq(AllBytes) : f = Base
  BY BaseType
<1>3. /\ delta \in Deltas(AllBytes) /\ InOneBlock(delta)
      /\ ~Sparse => delta.off <= Len(f)
  BY <1>2, OfDelta DEF Types, FileType, CachesGood
<1>4. Covers(c.data, f, c.id) /\ (~Sparse => Complete(c.data, f, c.id))
  BY <1>1, <1>2 DEF CachesGood, Good
<1>5. c \in [id : Nat, data : Seq(AllBytes), held : BOOLEAN]
  BY DEF Cached
<1>6. Covers(ApplyTo(c, delta).data, Patch(f, delta.off, delta.data), c.id)
  BY <1>3, <1>4, <1>5, ApplyCovers, ZeroIsByte
<1>7. ~Sparse => Complete(ApplyTo(c, delta).data, Patch(f, delta.off, delta.data), c.id)
  BY <1>3, <1>4, <1>5, ApplyComplete, ZeroIsByte
<1>8. ApplyTo(c, delta).id = c.id
  BY <1>1, <1>3, <1>5, ApplyType, ZeroIsByte
<1> QED
  BY <1>1, <1>2, <1>6, <1>7, <1>8 DEF PatchWith

(* The step of a flush, or of a write that replaces the delta.             *)
LEMMA TakenGood ==
  ASSUME Types, Flushing, Flushing', OneFlush, UNCHANGED setting, CachesGood,
         NEW h \in Writer, Begin(h), NEW l \in {"send", "sendflush", "sendclose"}, Goto(h, l),
         HasDelta(delta), ApplyToCaches(delta), UNCHANGED <<remote, local>>,
         outgoing' = [outgoing EXCEPT ![h] = delta],
         ~Sparse /\ HasDelta(delta') => delta'.off <= Len(PatchWith(remote, delta))
  PROVE  CachesGood'
<1>1. Watched' = Watched /\ (Sparse' <=> Sparse)
  BY SettingStays
<1>2. h \in Handle /\ Watched \subseteq Handle /\ pc[h] = "idle"
  BY WatchedIs DEF Begin
<1>3. Base = remote /\ Base' = PatchWith(remote, delta)
  BY <1>2, BaseTaken
<1>4. OneSender
  BY OneSenderNow
<1>5. ASSUME NEW k \in Watched PROVE ~(Reading(k)')
  <2>1. k \in Handle /\ pc \in [Handle -> Place]
    BY <1>2 DEF Types, LocalType
  <2>2. CASE k = h
    BY <2>1, <2>2 DEF Goto, Reading
  <2>3. CASE k # h
    <3>1. Serial
      BY <2>3 DEF Watched, OneFlush
    <3>2. pc[k] \in {"idle", "closed", "lost"}
      BY <2>1, <3>1 DEF Begin, Alone
    <3> QED
      BY <2>1, <2>3, <3>2 DEF Goto, Reading
  <2> QED
    BY <2>2, <2>3
<1>6. ASSUME NEW k \in Watched PROVE (cache[k].held => Good(cache[k]))'
  <2>1. k \in Handle /\ cache[k] \in BlockType
    BY <1>2 DEF Types, CacheType
  <2>2. CASE ~cache[k].held
    BY <2>1, <2>2 DEF ApplyToCaches
  <2>3. CASE cache[k].held
    <3>1. cache'[k] = ApplyTo(cache[k], delta)
      BY <2>1, <2>3 DEF ApplyToCaches
    <3>2. /\ Covers(ApplyTo(cache[k], delta).data, PatchWith(remote, delta),
                    ApplyTo(cache[k], delta).id)
          /\ ~Sparse => Complete(ApplyTo(cache[k], delta).data,
                                 PatchWith(remote, delta), ApplyTo(cache[k], delta).id)
      BY <1>3, <1>4, <2>3, AppliedGood
    <3> QED
      BY <1>1, <1>3, <3>1, <3>2 DEF Good
  <2> QED
    BY <2>2, <2>3
<1>7. (~Sparse /\ HasDelta(delta) => delta.off <= Len(Base))'
  BY <1>1, <1>3 DEF HasDelta
<1> QED
  BY <1>1, <1>5, <1>6, <1>7 DEF CachesGood

LEMMA WriteGood ==
  ASSUME Types, Flushing, Flushing', OneFlush, UNCHANGED setting, CachesGood,
         NEW h \in Handle, WriteBlock(h)
  PROVE  CachesGood'
<1>1. h \in Writer /\ Begin(h) /\ pc[h] = "idle"
  BY DEF WriteBlock, Begin
<1>2. PICK p \in Piece : (Sparse \/ p.off <= Len(View)) /\ WritePiece(h, p)
  BY DEF WriteBlock
<1>3. PICK o \in Nat, x \in Seq(AllBytes) :
         /\ o = p.off /\ x = DataOf(p) /\ x # <<>>
         /\ getInBlockOffset(o) + Len(x) <= BlockSize
  BY PieceIs DEF Types, FileType
<1>4. pc \in [Handle -> Place] /\ LocalType
  BY DEF Types, LocalType
<1>5. h \in Watched => /\ cache[h].held => Good(cache[h])
                       /\ pc[h] \in {"insert", "overlay"} => Good(local[h])
  BY DEF CachesGood, Reading
<1>6. CASE WriteNew(h, o, x)
  <2>1. Base' = Base /\ UNCHANGED <<cache, local, pc>>
    BY <1>1, <1>4, <1>6, BaseStays DEF WriteNew, Place
  <2>2. View = Base /\ delta'.off = o
    BY <1>6 DEF WriteNew, View, PatchWith
  <2> QED
    BY <1>2, <1>3, <1>5, <2>1, <2>2, OwnBlocks
<1>7. CASE WriteExpand(h, o, x)
  <2>1. Base' = Base /\ UNCHANGED <<cache, local, pc>>
    BY <1>1, <1>4, <1>7, BaseStays DEF WriteExpand, Place
  <2>2. HasDelta(delta) /\ Intersects(delta, o, x) /\ delta' = Expand(delta, o, x)
    BY <1>7 DEF WriteExpand
  <2>3. delta \in Deltas(AllBytes) /\ InOneBlock(delta) /\ delta.off \in Nat
    BY OfDelta DEF Types, FileType
  <2>4. PICK e : e = Expand(delta, o, x)
    OBVIOUS
  <2>5. e \in Deltas(AllBytes) /\ e.off <= delta.off
    BY <1>3, <2>2, <2>3, <2>4, ExpandType, ZeroIsByte
  <2>6. e.off \in Nat /\ Len(Base) \in Nat
    BY <2>5, OneSenderNow, BaseType, LenProperties DEF Deltas
  <2>7. ~Sparse => e.off <= Len(Base)
    <3>1. ~Sparse => delta.off <= Len(Base)
      BY <2>2 DEF CachesGood
    <3> QED
      BY <2>3, <2>5, <2>6, <3>1
  <2> QED
    BY <1>5, <2>1, <2>2, <2>4, <2>7, OwnBlocks
<1>8. CASE WriteReplace(h, o, x)
  <2>1. Base = remote
    BY <1>1, <1>8, BaseTaken DEF WriteReplace
  <2>2. View = PatchWith(remote, delta) /\ delta'.off = o
    BY <1>8, <2>1 DEF WriteReplace, View
  <2>3. ~Sparse /\ HasDelta(delta') => delta'.off <= Len(PatchWith(remote, delta))
    BY <1>2, <1>3, <2>2
  <2> QED
    BY <1>1, <1>8, <2>3, TakenGood DEF WriteReplace
<1> QED
  BY <1>2, <1>3, <1>6, <1>7, <1>8 DEF WritePiece

(* The steps of a read, its answer, and the drop of the cache in a close.  *)
LEMMA ReadGood ==
  ASSUME Types, Flushing, OneFlush, UNCHANGED setting, CachesGood, NEW h \in Handle,
         \/ Reply(h) \/ Drop(h) \/ Lookup(h) \/ Fetch(h) \/ FetchFails(h)
         \/ Insert(h) \/ ReadOverlay(h)
  PROVE  CachesGood'
<1>1. pc \in [Handle -> Place] /\ LocalType
  BY DEF Types, LocalType
<1>2. cache \in [Handle -> BlockType] /\ local \in [Handle -> BlockType]
  BY DEF Types, LocalType, CacheType
<1>3. UNCHANGED <<remote, delta, outgoing>>
  BY DEF Reply, Drop, Lookup, Fetch, FetchFails, Insert, ReadOverlay,
         Return, fileVars
<1>4. PICK l \in {"idle", "close", "overlay", "fetch", "insert", "reply"} : Goto(h, l)
  BY DEF Reply, Drop, Lookup, Fetch, FetchFails, Insert, ReadOverlay,
         Return
<1>5. Base' = Base
  <2>1. pc[h] \notin {"send", "sendflush", "sendclose"}
    BY DEF Reply, Drop, Lookup, Fetch, FetchFails, Insert, ReadOverlay,
           Begin
  <2> QED
    BY <1>1, <1>3, <1>4, <2>1, BaseStays DEF Place
<1>6. \A k \in Handle : k # h =>
            cache'[k] = cache[k] /\ local'[k] = local[k] /\ pc'[k] = pc[k]
  <2>1. \A k \in Handle : k # h => pc'[k] = pc[k]
    BY <1>1, <1>4 DEF Goto
  <2>2. \A k \in Handle : k # h => cache'[k] = cache[k] /\ local'[k] = local[k]
    BY <1>2 DEF Reply, Drop, Lookup, Fetch, FetchFails, Insert, ReadOverlay,
                Return, fileVars
  <2> QED
    BY <2>1, <2>2
<1>7. ~Sparse /\ HasDelta(delta') => delta'.off <= Len(Base)
  BY <1>3 DEF CachesGood
<1>8. h \in Watched => /\ cache[h].held => Good(cache[h])
                       /\ pc[h] \in {"insert", "overlay"} => Good(local[h])
  BY DEF CachesGood, Reading
<1>9. h \in Watched => /\ cache'[h].held => Good(cache'[h])
                       /\ pc'[h] \in {"insert", "overlay"} => Good(local'[h])
  <2>1. CASE Reply(h) \/ FetchFails(h) \/ ReadOverlay(h)
    <3>1. cache' = cache
      BY <2>1 DEF Reply, FetchFails, ReadOverlay, Return, fileVars
    <3>2. pc'[h] \in {"idle", "reply"}
      BY <1>1, <2>1 DEF Reply, FetchFails, ReadOverlay, Return, Goto
    <3> QED
      BY <1>8, <3>1, <3>2
  <2>2. CASE Drop(h)
    BY <1>1, <1>2, <2>2, NoBlockType DEF Drop, Goto
  <2>3. CASE Lookup(h)
    <3>1. PICK b \in BlockID :
            IF cache[h].held /\ cache[h].id = b
            THEN /\ local' = [local EXCEPT ![h] = cache[h]]
                 /\ Goto(h, "overlay")
                 /\ UNCHANGED cache
            ELSE /\ local' = [local EXCEPT ![h] = Block(b, <<>>)]
                 /\ cache' = [cache EXCEPT ![h] = NoBlock]
                 /\ Goto(h, "fetch")
      BY <2>3 DEF Lookup
    <3>2. CASE cache[h].held /\ cache[h].id = b
      <4>1. cache' = cache /\ local'[h] = cache[h] /\ cache[h].held
        BY <1>2, <3>1, <3>2
      <4> QED
        BY <1>8, <4>1
    <3>3. CASE ~(cache[h].held /\ cache[h].id = b)
      BY <1>1, <1>2, <3>1, <3>3, NoBlockType DEF Goto
    <3> QED
      BY <3>2, <3>3
  <2>4. CASE Fetch(h)
    <3>1. cache' = cache /\ pc[h] = "fetch"
      BY <2>4 DEF Fetch, fileVars
    <3>2. PICK m \in [id : BlockID, data : Bytes, held : BOOLEAN] : m = local[h]
      BY <1>2 DEF BlockType
    <3>3. PICK g \in Bytes : g = BlockOf(remote, m.id)
      BY <3>2, OfBlock, BlockOfBytes DEF Types, FileType, BlockType
    <3>4. PICK c \in BlockType : c = [m EXCEPT !.data = g] /\ c.data = g /\ c.id = m.id
      <4>1. /\ [m EXCEPT !.data = g] \in BlockType
            /\ [m EXCEPT !.data = g].data = g /\ [m EXCEPT !.data = g].id = m.id
        BY DEF BlockType
      <4> QED
        BY <4>1
    <3>5. local'[h] = c
      BY <1>2, <2>4, <3>2, <3>3, <3>4 DEF Fetch
    <3>6. c.data = BlockOf(remote, c.id)
      BY <3>3, <3>4
    <3>7. h \in Watched => Good(c)
      BY <3>1, <3>6, FetchedGood
    <3> QED
      BY <1>8, <3>1, <3>5, <3>7
  <2>5. CASE Insert(h)
    <3>1. /\ cache'[h] = local[h] /\ local' = local
          /\ pc[h] = "insert"
      BY <1>2, <2>5 DEF Insert
    <3> QED
      BY <1>8, <3>1
  <2> QED
    BY <2>1, <2>2, <2>3, <2>4, <2>5
<1> QED
  BY <1>5, <1>6, <1>7, <1>9, OwnBlocks

LEMMA StepGood ==
  ASSUME Types, Flushing, Flushing', UNCHANGED setting, Caches,
         NEW h \in Handle, Step(h)
  PROVE  Caches'
<1> SUFFICES ASSUME OneFlush', ~dropped' PROVE CachesGood'
  BY DEF Caches
<1>1. OneFlush
  BY SettingStays
<1>2. ~SendFails(h) /\ dropped' = dropped
  BY DEF Step, FileStep, Reply, WriteBlock, WritePiece, WriteNew, WriteExpand,
         WriteReplace, Flush, Close, FlushDelta, TakeDelta, Drop, Send, SendFails,
         Lookup, Fetch, FetchFails, Insert, ReadOverlay, Return
<1>3. CachesGood
  BY <1>1, <1>2 DEF Caches
<1>4. pc \in [Handle -> Place] /\ LocalType
  BY DEF Types, LocalType
<1>5. h \in Watched => /\ cache[h].held => Good(cache[h])
                       /\ pc[h] \in {"insert", "overlay"} => Good(local[h])
  BY <1>3 DEF CachesGood, Reading
<1>6. ASSUME NEW l \in {"sendflush", "sendclose"}, NEW m \in {"reopen", "drop"},
             FlushDelta(h, l, m), Begin(h)
      PROVE  CachesGood'
  <2>1. CASE h \in Writer /\ TakeDelta(h, l)
    <3>1. ~HasDelta(delta')
      BY <2>1, NoDeltaType DEF TakeDelta
    <3> QED
      BY <1>1, <1>3, <1>6, <2>1, <3>1, TakenGood DEF TakeDelta
  <2>2. CASE Goto(h, m) /\ UNCHANGED <<fileVars, outgoing, local, size, answer, dropped>>
    <3>1. Base' = Base
      BY <1>4, <1>6, <2>2, BaseStays DEF Begin, Place, fileVars
    <3>2. UNCHANGED <<cache, local, delta>> /\ pc'[h] = m
          /\ \A k \in Handle : k # h => pc'[k] = pc[k]
      BY <1>4, <2>2 DEF fileVars, Goto
    <3>3. ~Sparse /\ HasDelta(delta') => delta'.off <= Len(Base)
      BY <1>3, <3>2 DEF CachesGood
    <3> QED
      BY <1>3, <1>5, <3>1, <3>2, <3>3, OwnBlocks
  <2> QED
    BY <1>6, <2>1, <2>2 DEF FlushDelta
<1>7. CASE WriteBlock(h)
  BY <1>1, <1>3, <1>7, WriteGood
<1>8. CASE Flush(h) \/ Close(h)
  BY <1>6, <1>8 DEF Flush, Close
<1>9. CASE SizeStep(h) /\ UNCHANGED <<fileVars, outgoing, local, dropped>>
  <2>1. PICK l \in SizePlace : Goto(h, l)
    BY <1>9, SizeMoves
  <2>2. pc[h] \in SizePlace
    BY <1>9, SizeMoves
  <2>3. Base' = Base
    BY <1>4, <1>9, <2>1, <2>2, BaseStays DEF SizePlace, Place, fileVars
  <2>4. UNCHANGED <<cache, local, delta>> /\ pc'[h] \in SizePlace
        /\ \A k \in Handle : k # h => pc'[k] = pc[k]
    BY <1>4, <1>9, <2>1 DEF fileVars, Goto
  <2>5. ~Sparse /\ HasDelta(delta') => delta'.off <= Len(Base)
    BY <1>3, <2>4 DEF CachesGood
  <2>6. pc'[h] \notin {"insert", "overlay"}
    BY <2>4 DEF SizePlace
  <2> QED
    BY <1>3, <1>5, <2>3, <2>4, <2>5, <2>6, OwnBlocks
<1>10. CASE Send(h)
  <2>1. OneSender /\ OneSender'
    BY <1>1, OneSenderNow, OneSenderNext
  <2>2. Base' = Base
    BY <1>10, <2>1, BaseSent
  <2>3. UNCHANGED <<cache, local, delta>> /\ pc'[h] \in {"idle", "reopen", "drop"}
        /\ \A k \in Handle : k # h => pc'[k] = pc[k]
    BY <1>4, <1>10 DEF Send, Sending, After, Goto
  <2>4. ~Sparse /\ HasDelta(delta') => delta'.off <= Len(Base)
    BY <1>3, <2>3 DEF CachesGood
  <2> QED
    BY <1>3, <1>5, <2>2, <2>3, <2>4, OwnBlocks
<1> QED
  BY <1>1, <1>2, <1>3, <1>7, <1>8, <1>9, <1>10, ReadGood DEF Step, FileStep

(* Where operations do not overlap, nobody but the stepping handle is at   *)
(* work.                                                                   *)
LEMMA OthersRest ==
  ASSUME Types, Flushing, Serial, NEW h \in Handle, Step(h), NEW k \in Handle, k # h
  PROVE  ~Busy(k) /\ pc'[k] = pc[k]
<1>1. Busy(h) \/ Alone
  BY StepMoves
<1>2. pc'[k] = pc[k]
  BY StepMoves
<1> QED
  BY <1>1, <1>2 DEF Flushing, Alone, Busy

(* The places of the handle around a step on the bytes, and what it leaves *)
(* of the delta where it comes to a place of a flush or close.             *)
LEMMA FileMoves ==
  ASSUME Types, NEW h \in Handle, FileStep(h)
  PROVE  /\ pc[h] \notin DropPlace /\ pc'[h] \notin DropPlace
         /\ pc'[h] \notin {"putstat", "stat"}
         /\ h \in Writer /\ pc'[h] \in SyncPlace /\ HasDelta(delta')
              => pc[h] \in SyncPlace /\ delta' = delta
<1> USE DEF SyncPlace, DropPlace
<1>1. pc \in [Handle -> Place]
  BY DEF Types, LocalType
<1>2. CASE Reply(h) \/ WriteBlock(h) \/ SendFails(h) \/ Lookup(h) \/ Fetch(h)
           \/ FetchFails(h) \/ Insert(h) \/ ReadOverlay(h)
  <2>1. pc[h] \notin DropPlace
    BY <1>2 DEF Reply, WriteBlock, Begin, SendFails, Sending, Lookup, Fetch,
                FetchFails, Insert, ReadOverlay
  <2>2. \/ pc' = pc /\ pc[h] = "idle"
        \/ \E l \in {"idle", "send", "reply", "lost", "overlay", "fetch", "insert"} :
              Goto(h, l)
    BY <1>2 DEF Reply, WriteBlock, Begin, WritePiece, WriteNew, WriteExpand,
                WriteReplace, SendFails, Lookup, Fetch, FetchFails, Insert,
                ReadOverlay, Return
  <2>3. pc'[h] \in {"idle", "send", "reply", "lost", "overlay", "fetch", "insert"}
    BY <1>1, <2>2 DEF Goto
  <2> QED
    BY <2>1, <2>3
<1>3. CASE Flush(h) \/ Close(h)
  <2>1. PICK l \in {"sendflush", "sendclose"}, m \in {"reopen", "drop"} :
           FlushDelta(h, l, m) /\ pc[h] = "idle"
    BY <1>3 DEF Flush, Close, Begin
  <2>2. CASE TakeDelta(h, l)
    <3>1. pc'[h] = l /\ delta' = NoDelta
      BY <1>1, <2>2 DEF TakeDelta, Goto
    <3> QED
      BY <2>1, <3>1, NoDeltaType
  <2>3. CASE /\ h \notin Writer \/ ~HasDelta(delta)
             /\ Goto(h, m) /\ UNCHANGED fileVars
    <3>1. pc'[h] = m /\ delta' = delta
      BY <1>1, <2>3 DEF fileVars, Goto
    <3> QED
      BY <2>1, <2>3, <3>1
  <2> QED
    BY <2>1, <2>2, <2>3 DEF FlushDelta
<1>4. CASE Drop(h)
  BY <1>1, <1>4 DEF Drop, Goto
<1>5. CASE Send(h)
  <2>1. \/ pc[h] = "send" /\ Goto(h, "idle")
        \/ pc[h] = "sendflush" /\ Goto(h, "reopen")
        \/ pc[h] = "sendclose" /\ Goto(h, "drop")
    BY <1>5 DEF Send, Sending, After
  <2> QED
    BY <1>1, <1>5, <2>1 DEF Send, Goto
<1> QED
  BY <1>2, <1>3, <1>4, <1>5 DEF FileStep

(* The sizes are as new as the last flush or close.                        *)
LEMMA StepSizes ==
  ASSUME Types, SizeType, Flushing, Flushing', UNCHANGED setting, Sizes,
         NEW h \in Handle, Step(h)
  PROVE  Sizes'
<1> SUFFICES ASSUME Orderly' PROVE SizesCurrent'
  BY DEF Sizes
<1>1. Serial /\ ~Failures /\ SizesCurrent /\ Writer' = Writer
  BY SettingStays DEF Orderly, Sizes
<1>2. \A k \in Handle : k # h => ~Busy(k) /\ pc'[k] = pc[k]
  BY <1>1, OthersRest
<1>3. pc \in [Handle -> Place] /\ Writer \subseteq Handle
  BY WatchedIs DEF Types, LocalType
<1>4. \A k \in Handle : k # h => pc'[k] \notin SyncPlace \cup DropPlace \cup {"putstat", "stat"}
  BY <1>2 DEF Busy, SyncPlace, DropPlace
(* What the step has to show for its own handle.                           *)
<1>5. ASSUME pc[h] \notin DropPlace /\ pc'[h] \notin DropPlace /\ statCache' # Nothing
                => registered' <= statCache',
             pc[h] \in DropPlace => statCache' = Nothing,
             pc'[h] \in {"putstat", "stat"} => registered' <= found'[h],
             h \in Writer /\ pc'[h] \in SyncPlace => ~HasDelta(delta')
      PROVE  SizesCurrent'
  <2>1. ASSUME (statCache # Nothing)', (\A k \in Handle : pc[k] \notin DropPlace)'
        PROVE  (registered <= statCache)'
    BY <1>5, <2>1
  <2>2. ASSUME NEW k \in Handle, (pc[k] \in {"putstat", "stat"})'
        PROVE  (registered <= found[k])'
    BY <1>4, <1>5, <2>2
  <2>3. ASSUME NEW k \in Writer, (pc[k] \in SyncPlace)' PROVE ~HasDelta(delta)'
    <3>1. k = h
      BY <1>3, <1>4, <2>3
    <3> QED
      BY <1>5, <2>3, <3>1 DEF HasDelta
  <2> QED
    BY <1>1, <2>1, <2>2, <2>3 DEF SizesCurrent
<1>6. pc[h] \notin DropPlace /\ statCache # Nothing => registered <= statCache
  <2>1. \A k \in Handle : k # h => pc[k] \notin DropPlace
    BY <1>2 DEF Busy, DropPlace
  <2> QED
    BY <1>1, <2>1 DEF SizesCurrent
<1>7. CASE FileStep(h) /\ UNCHANGED sizeVars
  <2>1. /\ pc[h] \notin DropPlace /\ pc'[h] \notin {"putstat", "stat"}
        /\ h \in Writer /\ pc'[h] \in SyncPlace /\ HasDelta(delta')
              => pc[h] \in SyncPlace /\ delta' = delta
    BY <1>7, FileMoves
  <2>2. h \in Writer /\ pc'[h] \in SyncPlace => ~HasDelta(delta')
    BY <1>1, <2>1 DEF SizesCurrent
  <2> QED
    BY <1>5, <1>6, <1>7, <2>1, <2>2 DEF sizeVars
<1>8. CASE SizeStep(h) /\ UNCHANGED delta
  <2> USE DEF SyncPlace, DropPlace
  <2>1. found \in [Handle -> 0..Len(remote)]
    BY DEF SizeType
  <2>2. CASE StatHit(h) \/ StatMiss(h) \/ ObjStat(h) \/ PutStat(h) \/ StatDelta(h)
    <3>1. pc[h] \notin DropPlace /\ registered' = registered
      BY <2>2 DEF StatHit, StatMiss, ObjStat, PutStat, StatDelta, Begin
    <3>2. CASE StatHit(h)
      <4>1. statCache' = statCache /\ statCache # Nothing /\ found'[h] = statCache
            /\ pc'[h] = "stat"
        BY <1>3, <2>1, <3>2 DEF StatHit, Goto
      <4> QED
        BY <1>5, <1>6, <3>1, <4>1
    <3>3. CASE StatMiss(h)
      <4>1. statCache' = Nothing /\ pc'[h] = "objstat"
        BY <1>3, <3>3 DEF StatMiss, Goto
      <4> QED
        BY <1>5, <3>1, <4>1
    <3>4. CASE ObjStat(h)
      <4>1. statCache' = statCache /\ pc'[h] = "putstat"
        BY <1>3, <3>4 DEF ObjStat, Goto
      <4>2. registered <= found'[h]
        BY <2>1, <3>4 DEF ObjStat
      <4> QED
        BY <1>5, <1>6, <3>1, <4>1, <4>2
    <3>5. CASE PutStat(h)
      <4>1. statCache' = found[h] /\ found' = found /\ pc[h] = "putstat" /\ pc'[h] = "stat"
        BY <1>3, <3>5 DEF PutStat, Goto
      <4>2. registered <= found[h]
        BY <1>1, <4>1 DEF SizesCurrent
      <4> QED
        BY <1>5, <3>1, <4>1, <4>2
    <3>6. CASE StatDelta(h)
      <4>1. statCache' = statCache /\ pc'[h] = "reply"
        BY <1>3, <3>6 DEF StatDelta, Goto
      <4> QED
        BY <1>5, <1>6, <3>1, <4>1
    <3> QED
      BY <2>2, <3>2, <3>3, <3>4, <3>5, <3>6
  <2>3. CASE Reopen(h) \/ CloseFd(h)
    <3>1. pc[h] \in {"reopen", "close"} /\ statCache' = statCache
      BY <2>3 DEF Reopen, CloseFd
    <3>2. pc'[h] \in {"dropstat", "closestat", "closed"}
          /\ (pc'[h] = "closed" => h \notin Writer)
      BY <1>3, <2>3 DEF Reopen, CloseFd, Goto
    <3>3. h \notin Writer => registered' = registered
      BY <2>3 DEF Reopen, CloseFd, Register
    <3> QED
      BY <1>5, <1>6, <3>1, <3>2, <3>3
  <2>4. CASE Open(h)
    <3>1. pc[h] = "closed" /\ pc'[h] \in {"dropstat", "idle"} /\ UNCHANGED sizeVars
      BY <1>3, <2>4 DEF Open, Goto
    <3> QED
      BY <1>5, <1>6, <3>1 DEF sizeVars
  <2>5. CASE DropStat(h)
    <3>1. statCache' = Nothing /\ pc'[h] \in {"idle", "closed"}
      BY <1>3, <2>5 DEF DropStat, Goto
    <3> QED
      BY <1>5, <3>1
  <2>6. ~ObjStatFails(h) /\ ~ReopenFails(h)
    BY <1>1 DEF ObjStatFails, ReopenFails
  <2> QED
    BY <1>8, <2>2, <2>3, <2>4, <2>5, <2>6 DEF SizeStep
<1> QED
  BY <1>7, <1>8 DEF Step, fileVars

-----------------------------------------------------------------------------
(* The inductive invariant.                                                *)

IInv == Flushes /\ Sizes /\ Caches

LEMMA InitIInv == Init => IInv
<1> SUFFICES ASSUME Init PROVE IInv
  OBVIOUS
<1>1. Flushes
  BY FlushesInvariant
<1>2. Sizes
  <2>1. Writer \subseteq Handle
    BY <1>1, WatchedIs DEF Flushes
  <2>2. statCache = Nothing /\ \A h \in Handle : pc[h] = "idle"
    BY DEF Init
  <2> QED
    BY <2>1, <2>2 DEF Sizes, SizesCurrent, SyncPlace
<1>3. CachesGood
  <2>1. Watched \subseteq Handle
    BY <1>1, WatchedIs DEF Flushes
  <2> QED
    BY <2>1, NoDeltaType, NoBlockType DEF Init, CachesGood, Reading
<1> QED
  BY <1>1, <1>2, <1>3 DEF IInv, Caches

LEMMA NextIInv == IInv /\ [Next]_vars => IInv'
<1>1. IInv /\ [Next]_vars => Flushes'
  BY FlushesInvariant DEF IInv
<1>2. IInv /\ UNCHANGED vars => Sizes' /\ Caches'
  BY DEF vars, fileVars, sizeVars, IInv, Sizes, SizesCurrent, Caches, CachesGood, Good,
         Base, Sending, Reading, Watched, OneFlush, Serial, Sparse, Failures, Orderly,
         Writer, HasDelta
<1>3. ASSUME IInv, Next PROVE Sizes' /\ Caches'
  <2>1. Types /\ SizeType /\ Flushing /\ Flushing' /\ UNCHANGED setting
    BY <1>1, <1>3 DEF IInv, Flushes, Next
  <2>2. PICK h \in Handle : Step(h)
    BY <1>3 DEF Next
  <2> QED
    BY <1>3, <2>1, <2>2, StepGood, StepSizes DEF IInv
<1> QED
  BY <1>1, <1>2, <1>3 DEF IInv

THEOREM Invariance == Spec => []IInv
  BY InitIInv, NextIInv, PTL DEF Spec

(* Without overlapping operations, holes and failed flushes every cached   *)
(* block is what the server has, once nothing is under way.                *)
THEOREM CachesAreCurrent == Spec => []SerialCachesCurrent
<1>1. IInv => SerialCachesCurrent
  <2> SUFFICES ASSUME IInv, Serial, ~Sparse, ~dropped, Settled,
                      NEW h \in Handle, cache[h].held
               PROVE  cache[h].data = BlockOf(remote, cache[h].id)
    BY DEF SerialCachesCurrent, CachesCurrent
  <2>1. Types /\ Flushing /\ OneFlush /\ CachesGood /\ h \in Watched
    BY DEF IInv, Flushes, OneFlush, Caches, Watched
  <2>2. Base = remote
    <3>1. Sending = {}
      BY DEF Settled, Sending
    <3> QED
      BY <2>1, <3>1, OneSenderNow, BaseIs
  <2>3. Covers(cache[h].data, remote, cache[h].id)
        /\ Complete(cache[h].data, remote, cache[h].id)
    BY <2>1, <2>2 DEF CachesGood, Good
  <2>4. /\ remote \in Seq(AllBytes)
        /\ cache[h].data \in Seq(AllBytes) /\ cache[h].id \in Nat
    BY <2>1, OfBytes, OfBlock DEF Types, FileType, CacheType
  <2> QED
    BY <2>3, <2>4, CoversComplete
<1> QED
  BY <1>1, Invariance, PTL

-----------------------------------------------------------------------------
(* What a read returns.                                                    *)

LEMMA ReadIs ==
  ASSUME IInv, OneFlush, ~dropped, NEW h \in Watched, pc[h] = "overlay"
  PROVE  LET c == local[h]
             a == Overlay(ZeroBlock, c.data, c.id, delta)
         IN  /\ a \in Seq(AllBytes) /\ c.id \in Nat /\ View \in Seq(AllBytes)
             /\ Covers(a, View, c.id)
             /\ ~Sparse => Complete(a, View, c.id)
<1>1. Types /\ Flushing /\ CachesGood
  BY DEF IInv, Flushes, Caches
<1>2. h \in Handle /\ local[h] \in BlockType /\ Len(local[h].data) <= BlockSize
  BY <1>1, WatchedIs DEF Types, LocalType
<1>3. PICK y \in Seq(AllBytes), b \in Nat :
         y = local[h].data /\ b = local[h].id /\ Len(y) <= BlockSize
  BY <1>2, OfBlock
<1>4. PICK f \in Seq(AllBytes) : f = Base
  BY <1>1, OneSenderNow, BaseType
<1>5. delta \in Deltas(AllBytes) /\ InOneBlock(delta)
  BY <1>1, OfDelta DEF Types, FileType
<1>6. Covers(y, f, b) /\ (~Sparse => Complete(y, f, b))
  BY <1>1, <1>3, <1>4 DEF CachesGood, Good, Reading
<1>7. ~Sparse => (HasDelta(delta) => delta.off <= Len(f))
  BY <1>1, <1>4 DEF CachesGood
<1>8. PICK a : a = Overlay(ZeroBlock, y, b, delta)
  OBVIOUS
<1>9. a \in Seq(AllBytes)
  BY <1>3, <1>5, <1>8, OverlayType, ZeroIsByte
<1>10. Covers(a, PatchWith(f, delta), b)
  BY <1>5, <1>6, <1>8, OverlayCovers, ZeroIsByte
<1>11. ~Sparse => Complete(a, PatchWith(f, delta), b)
  BY <1>5, <1>6, <1>7, <1>8, OverlayComplete, ZeroIsByte
<1>12. View = PatchWith(f, delta) /\ View \in Seq(AllBytes)
  BY <1>1, <1>4, OneSenderNow, BaseType DEF View
<1> QED
  BY <1>3, <1>8, <1>9, <1>10, <1>11, <1>12

(* Only the end of a read leads from its last place to the answer.         *)
LEMMA ReadEnds ==
  ASSUME Types, NEW h \in Handle, NEW k \in Handle, Step(k),
         pc[h] = "overlay", pc'[h] = "reply"
  PROVE  ReadOverlay(h)
<1>1. k = h
  BY StepMoves
<1>2. pc[h] # "idle" /\ pc[h] \notin SizePlace
  BY DEF SizePlace
<1>3. ~SizeStep(h)
  BY <1>2, SizeMoves
<1> QED
  BY <1>1, <1>2, <1>3
  DEF Step, FileStep, Reply, WriteBlock, Flush, Close, Drop, Send, SendFails, Sending,
      Lookup, Fetch, FetchFails, Insert, Begin, SizePlace

(* The only writer reads what it has written, whatever the readers do,     *)
(* until a flush has failed and as long as the file has no hole.           *)
THEOREM WriterReadsItsWrites == Spec => WriterReads
<1>1. IInv /\ [Next]_vars =>
        [OneFlush => \A h \in Writer :
           pc[h] = "overlay" /\ pc'[h] = "reply" /\ ~dropped /\ Whole
              => answer'[h] = BlockOf(View, local[h].id)]_vars
  <2> SUFFICES ASSUME IInv, Next, OneFlush, NEW h \in Writer,
                      pc[h] = "overlay", pc'[h] = "reply", ~dropped, Whole
               PROVE  answer'[h] = BlockOf(View, local[h].id)
    OBVIOUS
  <2>1. Types
    BY DEF IInv, Flushes
  <2>2. h \in Handle /\ h \in Watched
    BY <2>1, WatchedIs DEF Watched
  <2>3. ReadOverlay(h)
    BY <2>1, <2>2, ReadEnds DEF Next
  <2>4. PICK a, b : a = Overlay(ZeroBlock, local[h].data, local[h].id, delta)
                    /\ b = local[h].id
    OBVIOUS
  <2>5. answer'[h] = a
    BY <2>1, <2>2, <2>3, <2>4 DEF ReadOverlay, Types, AnswerType
  <2>6. a \in Seq(AllBytes) /\ b \in Nat /\ View \in Seq(AllBytes) /\ Covers(a, View, b)
    BY <2>2, <2>4, ReadIs
  <2>7. a = BlockOf(View, b)
    BY <2>6, CoversWhole DEF Whole
  <2> QED
    BY <2>4, <2>5, <2>7
<1> QED
  BY <1>1, Invariance, PTL DEF Spec, WriterReads

-----------------------------------------------------------------------------
(* One file.                                                               *)

LEMMA ReadOfFile ==
  ASSUME IInv, Orderly, NEW h \in Handle, ReadOverlay(h)
  PROVE  answer' = [answer EXCEPT ![h] = BlockOf(View, local[h].id)]
<1>1. OneFlush /\ h \in Watched /\ ~Sparse
  BY DEF Orderly, OneFlush, Watched
<1>2. ~dropped
  BY DEF IInv, Flushes, Flushing, Orderly
<1>3. pc[h] = "overlay"
  BY DEF ReadOverlay
<1>4. PICK a, b : a = Overlay(ZeroBlock, local[h].data, local[h].id, delta)
                  /\ b = local[h].id
  OBVIOUS
<1>5. /\ a \in Seq(AllBytes) /\ b \in Nat /\ View \in Seq(AllBytes)
      /\ Covers(a, View, b) /\ Complete(a, View, b)
  BY <1>1, <1>2, <1>3, <1>4, ReadIs
<1>6. a = BlockOf(View, b)
  BY <1>5, CoversComplete
<1> QED
  BY <1>4, <1>6 DEF ReadOverlay

(* What the size of the file must not be less than.                        *)
Synced == IF Syncing THEN Len(View) ELSE registered

LEMMA SyncingIs ==
  ASSUME Types, Flushing, UNCHANGED setting, Serial, NEW h \in Handle, Step(h)
  PROVE  /\ Syncing <=> h \in Writer /\ pc[h] \in SyncPlace
         /\ Syncing' <=> h \in Writer /\ pc'[h] \in SyncPlace
<1>1. Writer \subseteq Handle /\ Writer' = Writer
  BY WatchedIs, SettingStays
<1>2. \A k \in Handle : k # h => pc[k] \notin SyncPlace /\ pc'[k] \notin SyncPlace
  BY OthersRest DEF Busy, SyncPlace
<1>3. Syncing <=> \E k \in Writer : pc[k] \in SyncPlace
  BY DEF Syncing, SyncPlace
<1>4. Syncing' <=> \E k \in Writer : pc'[k] \in SyncPlace
  BY <1>1 DEF Syncing, SyncPlace
<1> QED
  BY <1>1, <1>2, <1>3, <1>4

LEMMA NobodySends ==
  ASSUME Types, Flushing, Serial, NEW h \in Handle, Step(h), h \notin Sending
  PROVE  Sending = {} /\ Base = remote
<1>1. \A k \in Handle : k # h => ~Busy(k)
  BY OthersRest
<1>2. Sending = {}
  BY <1>1 DEF Sending, Busy
<1>3. OneFlush
  BY DEF OneFlush
<1> QED
  BY <1>2, <1>3, OneSenderNow, BaseIs

(* The file is as long as the server's, or as its delta reaches.           *)
LEMMA ViewLength ==
  ASSUME Types, Base = remote
  PROVE  /\ Len(View) = Larger(Len(remote), Pending)
         /\ Len(remote) \in Nat /\ Pending \in Nat
<1>1. PICK f \in Seq(AllBytes) : f = remote
  BY OfBytes DEF Types, FileType
<1>2. delta \in Deltas(AllBytes) /\ DeltaEnd(delta) \in Nat
  BY OfDelta DEF Types, FileType
<1>3. Len(PatchWith(f, delta)) =
        IF HasDelta(delta) THEN Larger(Len(f), DeltaEnd(delta)) ELSE Len(f)
  BY <1>1, <1>2, PatchWithType, ZeroIsByte
<1>4. Len(f) \in Nat
  BY LenProperties
<1> QED
  BY <1>1, <1>2, <1>3, <1>4 DEF View, Pending, Larger

(* A size counts the delta and the last flush or close, and is never more  *)
(* than the file has.                                                      *)
LEMMA SizeOfFile ==
  ASSUME IInv, Orderly, UNCHANGED setting, NEW h \in Handle, Step(h), StatDelta(h)
  PROVE  /\ \E n \in Larger(Synced, Pending)..Len(View) :
               size' = [size EXCEPT ![h] = n]
         /\ ~Syncing
<1>1. Types /\ SizeType /\ Flushing /\ Serial /\ SizesCurrent
  BY DEF IInv, Flushes, Sizes, Orderly
<1>2. pc[h] = "stat" /\ h \notin Sending
  BY DEF StatDelta, Sending
<1>3. Base = remote
  BY <1>1, <1>2, NobodySends
<1>4. ~Syncing
  BY <1>1, <1>2, SyncingIs DEF SyncPlace
<1>5. registered <= found[h] /\ found[h] \in 0..Len(remote) /\ registered \in 0..Len(remote)
  BY <1>1, <1>2 DEF SizesCurrent, SizeType
<1>6. Len(View) = Larger(Len(remote), Pending) /\ Len(remote) \in Nat /\ Pending \in Nat
  BY <1>1, <1>3, ViewLength
<1>7. Larger(found[h], Pending) \in Larger(registered, Pending)..Len(View)
  BY <1>5, <1>6 DEF Larger
<1> QED
  BY <1>4, <1>7 DEF StatDelta, Synced

LEMMA SameOperators ==
  /\ \A f, o, x : Content!Patch(f, o, x) = Patch(f, o, x)
  /\ \A f, o, n : Content!Slice(f, o, n) = Slice(f, o, n)
  /\ \A f, b : Content!BlockOf(f, b) = BlockOf(f, b)
  /\ \A o : Content!getBlockID(o) = getBlockID(o)
  /\ \A m, n : Content!Larger(m, n) = Larger(m, n)
BY DEF Content!Patch, Patch, Content!Larger, Larger, Content!Slice, Slice,
       Content!Smaller, Smaller, Content!BlockOf, BlockOf, Content!getBlockID,
       getBlockID, Content!getBlockStartOffset, getBlockStartOffset

(* The delta ends where the bytes that were written do, or later.          *)
LEMMA PieceReaches ==
  ASSUME Types, NEW h \in Handle, NEW p \in Piece, WritePiece(h, p)
  PROVE  /\ HasDelta(delta')
         /\ p.off + Len(DataOf(p)) <= DeltaEnd(delta')
<1>1. PICK o \in Nat, x \in Seq(AllBytes) :
         /\ o = p.off /\ x = DataOf(p) /\ x # <<>>
         /\ getInBlockOffset(o) + Len(x) <= BlockSize
  BY PieceIs DEF Types, FileType
<1>2. Len(x) \in Nat
  BY LenProperties
<1>3. CASE WriteNew(h, o, x) \/ WriteReplace(h, o, x)
  <2>1. delta' = MakeDelta(o, x)
    BY <1>3 DEF WriteNew, WriteReplace, MakeDelta
  <2> QED
    BY <1>1, <1>2, <2>1, DeltaFields
<1>4. CASE WriteExpand(h, o, x)
  <2>1. HasDelta(delta) /\ Intersects(delta, o, x) /\ delta' = Expand(delta, o, x)
    BY <1>4 DEF WriteExpand
  <2>2. delta \in Deltas(AllBytes) /\ InOneBlock(delta)
    BY OfDelta DEF Types, FileType
  <2>3. HasDelta(Expand(delta, o, x)) /\ o + Len(x) <= DeltaEnd(Expand(delta, o, x))
    BY <1>1, <2>1, <2>2, ExpandType, ZeroIsByte
  <2> QED
    BY <1>1, <2>1, <2>3
<1> QED
  BY <1>1, <1>3, <1>4 DEF WritePiece

(* A piece that is written is a write of the file.                         *)
LEMMA WriteIsWrite ==
  ASSUME IInv, IInv', Orderly, Orderly', UNCHANGED setting, NEW h \in Handle,
         Step(h), WriteBlock(h), UNCHANGED registered
  PROVE  Content!Next
<1>1. Types /\ Flushing /\ Flushing' /\ OneFlush /\ OneFlush' /\ Serial /\ Types'
  BY SettingStays DEF IInv, Flushes, Orderly, OneFlush
<1>2. PICK p \in Piece : WritePiece(h, p)
  BY DEF WriteBlock
<1>3. PICK o \in Nat, x \in Seq(AllBytes) :
         /\ o = p.off /\ x = DataOf(p) /\ Len(x) = p.n /\ p.n \in 1..BlockSize
         /\ x # <<>>
  BY <1>1, PieceIs DEF Types, FileType
<1>4. /\ View' = Patch(View, o, x) /\ UNCHANGED <<size, answer>>
      /\ View' = PatchWith(View, delta') /\ HasDelta(delta')
  BY <1>1, <1>2, <1>3, PieceWritten DEF WriteBlock, Begin
<1>5. PICK f \in Seq(AllBytes) : f = View
  BY <1>1, OneSenderNow, BaseType
<1>6. PICK g \in Seq(AllBytes) : g = Patch(f, o, x)
  BY PatchType, ZeroIsByte
<1>7. PICK d \in Deltas(AllBytes) : d = delta' /\ DeltaEnd(d) \in Nat
  <2>1. IsDelta(delta')
    BY <1>1 DEF Types, FileType, IsDelta
  <2> QED
    BY <2>1, OfDelta
<1>8. Len(x) \in Nat /\ Len(f) \in Nat
  BY LenProperties
<1>9. PICK n \in 1..BlockSize : n = Len(x)
  BY <1>3
<1>10. Slice(g, o, n) = x
  BY <1>6, <1>8, <1>9, PatchSlice, ZeroIsByte
<1>11. o + n <= DeltaEnd(d) /\ Pending' = DeltaEnd(d)
  BY <1>1, <1>2, <1>3, <1>4, <1>7, <1>9, PieceReaches DEF Pending, DeltaEnd, HasDelta
<1>12. DeltaEnd(d) <= Len(g)
  <2>1. Len(PatchWith(f, d)) = Larger(Len(f), DeltaEnd(d))
    BY <1>4, <1>7, PatchWithType, ZeroIsByte
  <2>2. g = PatchWith(f, d)
    BY <1>4, <1>5, <1>6, <1>7
  <2> QED
    BY <1>7, <1>8, <2>1, <2>2 DEF Larger
<1>13. PICK m \in 1..Len(g) : m = DeltaEnd(d) /\ o \in 0..m - 1 /\ o + n <= m
  BY <1>7, <1>8, <1>9, <1>11, <1>12
<1>14. g = Content!Patch(f, o, Content!Slice(g, o, n))
  BY <1>6, <1>10, SameOperators
<1>15. ~Syncing /\ ~Syncing'
  <2>1. pc[h] = "idle" /\ pc'[h] \in {"idle", "send"}
    BY <1>1, <1>2, PieceWritten DEF WriteBlock, Begin
  <2> QED
    BY <1>1, <2>1, SyncingIs DEF SyncPlace
<1>16. Synced' = Synced
  BY <1>15 DEF Synced
<1>17. View' = g
  BY <1>4, <1>5, <1>6
<1>18. Content!Write
  BY <1>4, <1>5, <1>11, <1>13, <1>14, <1>16, <1>17
  DEF Content!Write, IfOrderly, Synced
<1> QED
  BY <1>18 DEF Content!Next

(* A read of a block, also of one behind the end, is a read of the file.   *)
LEMMA ReadIsRead ==
  ASSUME IInv, Orderly, Orderly', NEW h \in Handle, ReadOverlay(h),
         View' = View, Synced' = Synced, Pending' = Pending
  PROVE  Content!Next
<1>1. Types /\ Flushing /\ OneFlush
  BY DEF IInv, Flushes, Orderly, OneFlush
<1>2. answer' = [answer EXCEPT ![h] = BlockOf(View, local[h].id)] /\ UNCHANGED size
  BY ReadOfFile DEF ReadOverlay
<1>3. PICK f \in Seq(AllBytes) : f = View
  BY <1>1, OneSenderNow, BaseType
<1>4. PICK b \in Nat : b = local[h].id
  BY <1>1, OfBlock DEF Types, LocalType
<1>5. PICK e \in Nat : e = getBlockID(Len(f))
  BY LenProperties, BlockArithmetic
<1>6. PICK c \in 0..e + 1 : BlockOf(f, c) = BlockOf(f, b)
  <2>1. CASE b <= e + 1
    BY <2>1
  <2>2. CASE b > e + 1
    <3>1. b > getBlockID(Len(f)) /\ e + 1 > getBlockID(Len(f)) /\ e + 1 \in Nat
      BY <1>5, <2>2
    <3>2. BlockOf(f, b) = <<>>
      BY <3>1, BlockBehind
    <3>3. BlockOf(f, e + 1) = <<>>
      BY <3>1, BlockBehind
    <3>4. e + 1 \in 0..e + 1
      OBVIOUS
    <3> QED
      BY <3>2, <3>3, <3>4
  <2> QED
    BY <2>1, <2>2
<1>7. Content!Read(h)
  BY <1>2, <1>3, <1>4, <1>5, <1>6, SameOperators DEF Content!Read, IfOrderly, Synced
<1> QED
  BY <1>7 DEF Content!Next

LEMMA SizesApart ==
  ASSUME Types, NEW h \in Handle, SizeStep(h)
  PROVE  ~WriteBlock(h) /\ ~Flush(h) /\ ~Close(h)
<1> SUFFICES ASSUME WriteBlock(h) \/ Flush(h) \/ Close(h) PROVE FALSE
  OBVIOUS
<1>1. pc \in [Handle -> Place]
  BY DEF Types, LocalType
<1>2. pc[h] = "idle"
  BY DEF WriteBlock, Flush, Close, Begin
<1>3. pc'[h] \in {"stat", "objstat"}
  BY <1>1, <1>2 DEF SizeStep, StatHit, StatMiss, ObjStat, ObjStatFails, PutStat,
                    StatDelta, Reopen, ReopenFails, CloseFd, Open, DropStat, Goto
<1>4. pc' = pc \/ \E l \in {"send", "sendflush", "sendclose", "reopen", "drop"} : Goto(h, l)
  BY DEF WriteBlock, WritePiece, WriteNew, WriteExpand, WriteReplace, Flush, Close,
         FlushDelta, TakeDelta
<1> QED
  BY <1>1, <1>2, <1>3, <1>4 DEF Goto

(* A flush or close of a writer is a sync of the file.                     *)
LEMMA FlushIsSync ==
  ASSUME IInv, IInv', Orderly, Orderly', UNCHANGED setting, NEW h \in Handle, Step(h),
         Flush(h) \/ Close(h), View' = View, UNCHANGED registered
  PROVE  Content!Next \/ UNCHANGED Content!vars
<1>1. Types /\ Flushing /\ Serial /\ SizesCurrent'
  BY DEF IInv, Flushes, Orderly, Sizes
<1>2. pc \in [Handle -> Place]
  BY <1>1 DEF Types, LocalType
<1>3. PICK l \in {"sendflush", "sendclose"}, m \in {"reopen", "drop"} :
         FlushDelta(h, l, m) /\ pc[h] = "idle"
  BY DEF Flush, Close, Begin
<1>4. UNCHANGED <<size, answer>>
  BY <1>3 DEF FlushDelta, TakeDelta
<1>5. pc'[h] \in SyncPlace
  BY <1>2, <1>3 DEF FlushDelta, TakeDelta, Goto, SyncPlace
<1>6. CASE h \in Writer
  <2>1. Syncing'
    BY <1>1, <1>5, <1>6, SyncingIs
  <2>2. ~HasDelta(delta')
    BY <1>1, <1>5, <1>6, SettingStays DEF SizesCurrent, HasDelta
  <2>3. Synced' = Len(View') /\ Pending' = 0
    BY <2>1, <2>2 DEF Synced, Pending, HasDelta
  <2>4. Content!Sync
    BY <1>4, <2>3 DEF Content!Sync, IfOrderly, Synced
  <2> QED
    BY <2>4 DEF Content!Next
<1>7. CASE h \notin Writer
  <2>1. delta' = delta
    BY <1>3, <1>7 DEF FlushDelta, fileVars
  <2>2. ~Syncing /\ ~Syncing'
    BY <1>1, <1>7, SyncingIs
  <2>3. Synced' = Synced /\ Pending' = Pending
    BY <2>1, <2>2 DEF Synced, Pending, HasDelta, DeltaEnd
  <2> QED
    BY <1>4, <2>3 DEF Content!vars, IfOrderly, Synced
<1> QED
  BY <1>6, <1>7

(* Nothing else changes what has been synced: the catalogue learns of the  *)
(* bytes in the course of the flush or close.                              *)
LEMMA SyncedStays ==
  ASSUME IInv, Orderly, UNCHANGED setting, NEW h \in Handle, Step(h),
         View' = View, ~Flush(h), ~Close(h), ~WriteBlock(h)
  PROVE  Synced' = Synced /\ Pending' = Pending
<1>1. Types /\ SizeType /\ Flushing /\ Serial /\ SizesCurrent /\ ~Failures
  BY DEF IInv, Flushes, Orderly, Sizes
<1>2. pc \in [Handle -> Place]
  BY <1>1 DEF Types, LocalType
<1>3. /\ Syncing <=> h \in Writer /\ pc[h] \in SyncPlace
      /\ Syncing' <=> h \in Writer /\ pc'[h] \in SyncPlace
  BY <1>1, SyncingIs
<1>4. Pending' = Pending
  <2>1. delta' = delta
    BY DEF Step, FileStep, Reply, Drop, Send, SendFails, Lookup, Fetch, FetchFails,
           Insert, ReadOverlay, Return, fileVars
  <2> QED
    BY <2>1 DEF Pending, HasDelta, DeltaEnd
<1>5. CASE (Syncing' <=> Syncing) /\ UNCHANGED registered
  BY <1>4, <1>5 DEF Synced
<1>6. CASE FileStep(h) /\ UNCHANGED sizeVars
  <2>1. CASE Drop(h) \/ Send(h)
    <3>1. \/ pc[h] = "send" /\ Goto(h, "idle")
          \/ pc[h] = "sendflush" /\ Goto(h, "reopen")
          \/ pc[h] = "sendclose" /\ Goto(h, "drop")
          \/ pc[h] = "drop" /\ Goto(h, "close")
      BY <2>1 DEF Drop, Send, Sending, After
    <3>2. pc[h] \in SyncPlace <=> pc'[h] \in SyncPlace
      BY <1>2, <3>1 DEF Goto, SyncPlace
    <3> QED
      BY <1>3, <1>5, <1>6, <3>2 DEF sizeVars
  <2>2. CASE Reply(h) \/ Lookup(h) \/ Fetch(h) \/ Insert(h) \/ ReadOverlay(h)
    <3>1. /\ pc[h] \in {"reply", "idle", "fetch", "insert", "overlay"}
          /\ \E l \in {"idle", "overlay", "fetch", "insert", "reply"} : Goto(h, l)
      BY <2>2 DEF Reply, Lookup, Begin, Fetch, Insert, ReadOverlay, Return
    <3>2. pc[h] \notin SyncPlace /\ pc'[h] \notin SyncPlace
      BY <1>2, <3>1 DEF Goto, SyncPlace
    <3> QED
      BY <1>3, <1>5, <1>6, <3>2 DEF sizeVars
  <2>3. ~SendFails(h) /\ ~FetchFails(h)
    BY <1>1 DEF SendFails, FetchFails
  <2> QED
    BY <1>6, <2>1, <2>2, <2>3 DEF FileStep
<1>7. CASE SizeStep(h)
  <2>1. CASE Reopen(h) \/ CloseFd(h)
    <3>1. pc[h] \in {"reopen", "close"} /\ Register(h)
      BY <2>1 DEF Reopen, CloseFd
    <3>2. pc'[h] \in {"dropstat", "closestat", "closed"}
      BY <1>2, <2>1 DEF Reopen, CloseFd, Goto
    <3>3. CASE h \notin Writer
      BY <1>3, <1>5, <3>1, <3>3 DEF Register
    <3>4. CASE h \in Writer
      <4>1. Syncing /\ ~Syncing' /\ registered' = Len(remote)
        BY <1>1, <1>3, <3>1, <3>2, <3>4 DEF SyncPlace, Register
      <4>2. ~HasDelta(delta)
        BY <1>1, <3>1, <3>4 DEF SizesCurrent, SyncPlace
      <4>3. Base = remote
        <5>1. h \notin Sending
          BY <3>1 DEF Sending
        <5> QED
          BY <1>1, <5>1, NobodySends
      <4>4. View = remote
        BY <4>2, <4>3 DEF View, PatchWith
      <4> QED
        BY <1>4, <4>1, <4>4 DEF Synced
    <3> QED
      BY <3>3, <3>4
  <2>2. CASE StatHit(h) \/ StatMiss(h) \/ ObjStat(h) \/ PutStat(h) \/ StatDelta(h)
             \/ Open(h) \/ DropStat(h)
    <3>1. registered' = registered
      BY <2>2 DEF StatHit, StatMiss, ObjStat, PutStat, StatDelta, Open, DropStat, sizeVars
    <3>2. pc[h] \in {"idle", "objstat", "putstat", "stat", "closed", "dropstat",
                     "closestat"}
      BY <2>2 DEF StatHit, StatMiss, Begin, ObjStat, PutStat, StatDelta, Open, DropStat
    <3>3. \E l \in {"idle", "objstat", "putstat", "stat", "reply", "dropstat",
                    "closed"} : Goto(h, l)
      BY <2>2 DEF StatHit, StatMiss, ObjStat, PutStat, StatDelta, Open, DropStat
    <3>4. pc[h] \notin SyncPlace /\ pc'[h] \notin SyncPlace
      BY <1>2, <3>2, <3>3 DEF Goto, SyncPlace
    <3> QED
      BY <1>3, <1>5, <3>1, <3>4
  <2>3. ~ObjStatFails(h) /\ ~ReopenFails(h)
    BY <1>1 DEF ObjStatFails, ReopenFails
  <2> QED
    BY <1>7, <2>1, <2>2, <2>3 DEF SizeStep
<1> QED
  BY <1>6, <1>7 DEF Step

LEMMA StepImplements ==
  ASSUME IInv, IInv', Orderly, Orderly', UNCHANGED setting, NEW h \in Handle, Step(h)
  PROVE  Content!Next \/ UNCHANGED Content!vars
<1>1. Types /\ Flushing /\ Flushing' /\ OneFlush
  BY DEF IInv, Flushes, Orderly, OneFlush
<1>2. ~SendFails(h) /\ ~FetchFails(h) /\ ~ObjStatFails(h) /\ ~ReopenFails(h)
  BY DEF SendFails, FetchFails, ObjStatFails, ReopenFails, Orderly
<1>3. CASE FileStep(h) /\ UNCHANGED sizeVars /\ WriteBlock(h)
  BY <1>3, WriteIsWrite DEF sizeVars
<1>4. CASE ~WriteBlock(h)
  <2>1. View' = View
    BY <1>1, <1>2, <1>4, StepKeepsFile
  <2>2. CASE FileStep(h) /\ UNCHANGED sizeVars /\ (Flush(h) \/ Close(h))
    BY <2>1, <2>2, FlushIsSync DEF sizeVars
  <2>3. CASE ~Flush(h) /\ ~Close(h)
    <3>1. Synced' = Synced /\ Pending' = Pending
      BY <1>4, <2>1, <2>3, SyncedStays
    <3>2. CASE Reply(h)
      <4>1. Content!Reply(h)
        BY <2>1, <3>1, <3>2 DEF Reply, Content!Reply, IfOrderly, Synced
      <4> QED
        BY <4>1 DEF Content!Next
    <3>3. CASE ReadOverlay(h)
      BY <2>1, <3>1, <3>3, ReadIsRead
    <3>4. CASE StatDelta(h)
      <4>1. PICK n \in Larger(Synced, Pending)..Len(View) :
               size' = [size EXCEPT ![h] = n] /\ UNCHANGED answer
        BY <3>4, SizeOfFile DEF StatDelta
      <4>2. Content!Stat(h)
        BY <2>1, <3>1, <4>1, SameOperators DEF Content!Stat, IfOrderly, Synced
      <4> QED
        BY <4>2 DEF Content!Next
    <3>5. CASE Drop(h) \/ Send(h) \/ Lookup(h) \/ Fetch(h) \/ Insert(h) \/ StatHit(h)
               \/ StatMiss(h) \/ ObjStat(h) \/ PutStat(h) \/ Reopen(h) \/ CloseFd(h)
               \/ Open(h) \/ DropStat(h)
      <4>1. UNCHANGED <<size, answer>>
        BY <3>5 DEF Drop, Send, Lookup, Fetch, Insert, StatHit, StatMiss, ObjStat,
                    PutStat, Reopen, CloseFd, Open, DropStat
      <4> QED
        BY <2>1, <3>1, <4>1 DEF Content!vars, IfOrderly, Synced
    <3> QED
      BY <1>2, <1>4, <2>3, <3>2, <3>3, <3>4, <3>5 DEF Step, FileStep, SizeStep
  <2>4. SizeStep(h) => ~Flush(h) /\ ~Close(h)
    BY <1>1, SizesApart
  <2> QED
    BY <2>2, <2>3, <2>4 DEF Step
<1>5. SizeStep(h) => ~WriteBlock(h)
  BY <1>1, SizesApart
<1> QED
  BY <1>3, <1>4, <1>5 DEF Step

(* Operations that do not overlap see one file: each read is of all bytes  *)
(* written before, whichever handle wrote them and wherever they are       *)
(* (server, delta, cache), and each size counts the delta and what a       *)
(* writer has flushed or closed, and no more than the file has.            *)
THEOREM OneFile == Spec => FileSpec
<1>1. Init => Content!Init
  <2> SUFFICES ASSUME Init PROVE Content!Init
    OBVIOUS
  <2>1. Types /\ Flushing
    BY FlushesInvariant DEF Flushes
  <2>2. View = remote /\ Pending = 0
    <3>1. Sending = {} /\ ~HasDelta(delta)
      BY NoDeltaType DEF Init, Sending
    <3> QED
      BY <3>1 DEF View, Base, PatchWith, Pending
  <2>3. ~Syncing
    <3>1. Writer \subseteq Handle /\ \A h \in Handle : pc[h] = "idle"
      BY <2>1, WatchedIs DEF Init
    <3> QED
      BY <3>1 DEF Syncing
  <2>4. /\ registered = Len(remote)
        /\ size = [h \in Handle |-> Nothing] /\ answer = [h \in Handle |-> Nothing]
    BY DEF Init
  <2>5. /\ remote \in Seq(AllBytes)
        /\ <<>> \in Seq(AllBytes) /\ Len(<<>>) = 0
    BY <2>1, EmptySeq, OfBytes DEF Types, FileType
  <2> QED
    BY <2>2, <2>3, <2>4, <2>5 DEF Content!Init, IfOrderly, AllBytes
<1>2. IInv /\ [Next]_vars => [Content!Next]_(Content!vars)
  <2>1. IInv /\ UNCHANGED vars => UNCHANGED Content!vars
    BY DEF vars, fileVars, sizeVars, Content!vars, IfOrderly, Orderly, Serial, Sparse,
           Failures, View, Base, Sending, Syncing, Writer, Pending, HasDelta
  <2>2. ASSUME IInv, Next PROVE Content!Next \/ UNCHANGED Content!vars
    <3>1. IInv' /\ UNCHANGED setting /\ (Orderly' <=> Orderly)
      BY <2>2, NextIInv, SettingStays DEF Next
    <3>2. PICK h \in Handle : Step(h)
      BY <2>2 DEF Next
    <3>3. CASE Orderly
      BY <2>2, <3>1, <3>2, <3>3, StepImplements
    <3>4. CASE ~Orderly
      BY <3>1, <3>4 DEF Content!vars, IfOrderly
    <3> QED
      BY <3>3, <3>4
  <2> QED
    BY <2>1, <2>2
<1> QED
  BY <1>1, <1>2, Invariance, PTL DEF Spec, FileSpec, Content!Spec
=============================================================================
