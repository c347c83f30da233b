------------------------- MODULE BufferedReadProofs -------------------------
(***************************************************************************)
(* The read loop returns the bytes of the file, for every file, every      *)
(* delta, every block size and every read: the loop invariant is that the  *)
(* bytes copied so far are those of the file from the offset of the read   *)
(* to the current one.                                                     *)
(***************************************************************************)
EXTENDS BufferedRead, BlocksProofs

AllBytes == Byte \cup {Written, Zero}

Inputs ==
    /\ file \in Seq(AllBytes)
    /\ delta \in Deltas(AllBytes) /\ InOneBlock(delta)
    /\ HasDelta(delta) => delta.off <= Len(file)
    /\ asked.off \in Nat /\ asked.size \in Nat /\ asked.size > 0

(* What is copied is a beginning of what is asked for.                     *)
Copied ==
    /\ curOffset \in Nat /\ remain \in Nat
    /\ asked.off <= curOffset
    /\ curOffset + remain <= asked.off + asked.size
    /\ asked.off + asked.size <= curOffset + remain
    /\ out \in Seq(AllBytes)
    /\ asked.off + Len(out) <= curOffset /\ curOffset <= asked.off + Len(out)
    /\ \A i \in 1..Len(out) :
          asked.off + i <= Len(View) /\ out[i] = View[asked.off + i]

(* All of it, or up to the end of the file.                                *)
Finished == remain = 0 \/ curOffset >= Len(View)

IInv ==
    /\ Inputs
    /\ Copied
    /\ blockBuffer \in Seq(AllBytes) /\ Len(blockBuffer) = BlockSize
    /\ pc = "read" => remain > 0
    /\ pc = "done" => Finished

LEMMA ZeroIsByte == Zero \in AllBytes
BY DEF AllBytes

LEMMA SeqWider ==
  ASSUME NEW S, NEW T, S \subseteq T, NEW s \in Seq(S)
  PROVE  s \in Seq(T)
<1>1. Len(s) \in Nat /\ s \in [1..Len(s) -> S]
  BY LenProperties
<1>2. s \in [1..Len(s) -> T]
  BY <1>1
<1> QED
  BY <1>1, <1>2, FunctionIsSeq

LEMMA InitIInv == Init => IInv
<1> SUFFICES ASSUME Init PROVE IInv
  OBVIOUS
<1>1. file \in Seq(AllBytes)
  <2>1. PICK n \in 0..MaxSize : file \in [1..n -> Byte]
    BY DEF Init, Bytes
  <2>2. n \in Nat
    BY BoundAssumption
  <2>3. file \in [1..n -> AllBytes]
    BY <2>1 DEF AllBytes
  <2> QED
    BY <2>2, <2>3, FunctionIsSeq
<1>2. delta \in Deltas(AllBytes) /\ InOneBlock(delta) /\ delta.off <= Len(file)
  <2>1. getInBlockOffset(delta.off) + Len(delta.data) <= BlockSize /\ delta.off <= Len(file)
    BY DEF Init
  <2>2. CASE delta = NoDelta
    <3>1. <<>> \in Seq(AllBytes)
      BY EmptySeq
    <3>2. NoDelta \in Deltas(AllBytes)
      BY <3>1 DEF NoDelta, Deltas
    <3> QED
      BY <2>1, <2>2, <3>2 DEF InOneBlock
  <2>3. CASE delta # NoDelta
    <3>1. PICK o \in 0..MaxSize - 1, n \in 1..BlockSize :
            delta = [off |-> o, data |-> [i \in 1..n |-> Written]]
      BY <2>3 DEF Init, Delta
    <3>2. o \in Nat /\ n \in Nat
      BY BoundAssumption, BlockSizeAssumption
    <3>3. [i \in 1..n |-> Written] \in [1..n -> AllBytes]
      BY DEF AllBytes
    <3>4. [i \in 1..n |-> Written] \in Seq(AllBytes)
      BY <3>2, <3>3, FunctionIsSeq
    <3> QED
      BY <2>1, <3>1, <3>2, <3>4 DEF InOneBlock, Deltas
  <2> QED
    BY <2>2, <2>3
<1>3. asked.off \in Nat /\ asked.size \in Nat /\ asked.size > 0
  BY BoundAssumption, BlockSizeAssumption DEF Init
<1>4. out \in Seq(AllBytes) /\ Len(out) = 0
  BY EmptySeq DEF Init
<1>5. curOffset = asked.off /\ remain = asked.size
  BY DEF Init
<1>6. Copied
  BY <1>3, <1>4, <1>5 DEF Copied
<1>7. blockBuffer \in Seq(AllBytes) /\ Len(blockBuffer) = BlockSize
  BY ZeroBlockIs, ZeroIsByte DEF Init
<1> QED
  BY <1>1, <1>2, <1>3, <1>5, <1>6, <1>7 DEF IInv, Inputs, Init

LEMMA ViewType ==
  ASSUME Inputs
  PROVE  View \in Seq(AllBytes)
BY PatchWithType, ZeroIsByte DEF Inputs, View

(* What _readBlock leaves is the block of the file under the delta,        *)
(* whatever the buffer had in it.                                          *)
LEMMA BlockIs ==
  ASSUME IInv
  PROVE  Block = BlockOf(View, getBlockID(curOffset))
<1>1. PICK b \in Nat : b = getBlockID(curOffset)
  BY BlockArithmetic DEF IInv, Copied
<1>2. PICK f \in Seq(AllBytes) : f = file
  BY DEF IInv, Inputs
<1>3. PICK c \in Seq(AllBytes) : c = BlockOf(f, b)
  BY BlockOfType
<1>4. PICK o \in Nat, x \in Seq(AllBytes) :
         /\ delta = MakeDelta(o, x) /\ delta.off = o /\ delta.data = x
         /\ HasDelta(delta) <=> x # <<>>
         /\ getInBlockOffset(o) + Len(x) <= BlockSize
  BY DeltaIs DEF IInv, Inputs
<1>5. HasDelta(delta) => o <= Len(f)
  BY <1>2, <1>4 DEF IInv, Inputs
<1>6. Covers(c, f, b) /\ Complete(c, f, b)
  BY <1>3, CoversBlockOf
<1>7. CASE HasDelta(delta) /\ getBlockID(o) = b
  <2>1. getInBlockOffset(o) <= Len(c)
    <3>1. PICK s \in Nat, in \in Nat :
             /\ s = getBlockStartOffset(b) /\ in = getInBlockOffset(o)
             /\ s + in <= o /\ o <= s + in
      BY <1>7, BlockSplit
    <3>2. in < BlockSize
      BY <3>1, BlockArithmetic, BlockSizeAssumption
    <3>3. Len(c) = IF s < Len(f) THEN Smaller(BlockSize, Len(f) - s) ELSE 0
      BY <1>3, <3>1, BlockOfType
    <3>4. Len(f) \in Nat /\ o <= Len(f) /\ s + in <= o
      BY <1>5, <1>7, <3>1, LenProperties
    <3>5. in <= Len(c)
      BY <3>2, <3>3, <3>4, BlockSizeAssumption DEF Smaller
    <3> QED
      BY <3>1, <3>5
  <2>2. \A i \in Len(c) + 1 .. getInBlockOffset(o) : blockBuffer[i] = Zero
    <3>1. Len(c) \in Nat /\ getInBlockOffset(o) \in Nat
      BY LenProperties, BlockSplit
    <3> QED
      BY <2>1, <3>1
  <2>3. x # <<>> /\ getBlockID(o) = b
    BY <1>4, <1>7
  <2>4. PICK p : p = Patch(c, getInBlockOffset(o), x)
    OBVIOUS
  <2>5. Overlay(blockBuffer, c, b, MakeDelta(o, x)) = p
    BY <2>2, <2>3, <2>4, OverlayIs, ZeroIsByte
  <2>6. p \in Seq(AllBytes)
    BY <2>4, PatchFits, <1>4, <1>6, ZeroIsByte DEF Covers
  <2>7. Covers(p, Patch(f, o, x), b)
    BY <1>4, <1>6, <2>3, <2>4, PatchCovers, ZeroIsByte
  <2>8. Complete(p, Patch(f, o, x), b)
    BY <1>6, <2>3, <2>4, PatchComplete, ZeroIsByte
  <2>9. View = Patch(f, o, x) /\ View \in Seq(AllBytes)
    BY <1>2, <1>4, <1>7, ViewType DEF View, PatchWith, IInv
  <2>10. p = BlockOf(View, b)
    BY <2>6, <2>7, <2>8, <2>9, CoversComplete
  <2> QED
    BY <1>1, <1>2, <1>3, <1>4, <2>5, <2>10 DEF Block
<1>8. CASE ~(HasDelta(delta) /\ getBlockID(o) = b)
  <2>1. Block = c
    BY <1>1, <1>2, <1>3, <1>4, <1>8 DEF Block, Overlay
  <2>2. Covers(c, View, b) /\ Complete(c, View, b)
    <3>1. CASE ~HasDelta(delta)
      BY <1>2, <1>6, <3>1 DEF View, PatchWith
    <3>2. CASE HasDelta(delta)
      <4>1. View = Patch(f, o, x) /\ getBlockID(o) # b /\ o <= Len(f)
        BY <1>2, <1>4, <1>5, <1>8, <3>2 DEF View, PatchWith
      <4>2. Covers(c, Patch(f, o, x), b)
        BY <1>4, <1>6, <4>1, PatchCoversOther, ZeroIsByte
      <4>3. Complete(c, Patch(f, o, x), b)
        BY <1>4, <1>6, <4>1, PatchCompleteOther, ZeroIsByte
      <4> QED
        BY <4>1, <4>2, <4>3
    <3> QED
      BY <3>1, <3>2
  <2>3. c = BlockOf(View, b)
    BY <2>2, ViewType, CoversComplete DEF IInv
  <2> QED
    BY <1>1, <2>1, <2>3
<1> QED
  BY <1>7, <1>8

-----------------------------------------------------------------------------
(* One round.                                                              *)

(* How much is copied, and where that ends.                                *)
LEMMA TakeIs ==
  ASSUME IInv, pc = "read", NEW c \in Seq(AllBytes), Len(c) <= BlockSize,
         NEW in \in Nat, in = getInBlockOffset(curOffset), Len(c) > in
  PROVE  /\ Take(c) \in Nat /\ Take(c) > 0 /\ Take(c) <= remain
         /\ in + Take(c) <= Len(c)
         /\ Len(c) = BlockSize \/ Take(c) = remain \/ in + Take(c) = Len(c)
<1>1. /\ remain \in Nat /\ Len(c) \in Nat /\ BlockSize \in Nat /\ curOffset \in Nat
      /\ in < BlockSize
  BY BlockArithmetic, LenProperties, BlockSizeAssumption DEF IInv, Copied
<1>2. PICK r \in Nat : r = remain
  BY <1>1
<1>3. PICK n : n = CurSize
  OBVIOUS
<1>4. n = IF BlockSize - in > r THEN r ELSE BlockSize - in
  BY <1>2, <1>3 DEF CurSize
<1>5. PICK t : t = Take(c)
  OBVIOUS
<1>6. t = IF in + n > Len(c) THEN Len(c) - in ELSE n
  BY <1>3, <1>5 DEF Take
<1>7. r > 0
  BY <1>2 DEF IInv
<1>8. n \in Nat /\ n <= r /\ (n = r \/ n = BlockSize - in)
  BY <1>1, <1>4
<1>9. /\ t \in Nat /\ t > 0 /\ t <= r /\ in + t <= Len(c)
      /\ Len(c) = BlockSize \/ t = r \/ in + t = Len(c)
  BY <1>1, <1>6, <1>7, <1>8
<1> QED
  BY <1>2, <1>5, <1>9

(* The block of the offset, against the file: its bytes, and that nothing  *)
(* is behind a short one.                                                  *)
LEMMA BlockBytes ==
  ASSUME NEW f \in Seq(AllBytes), NEW cur \in Nat, NEW c \in Seq(AllBytes),
         c = BlockOf(f, getBlockID(cur)), NEW in \in Nat, in = getInBlockOffset(cur),
         NEW i \in 1 .. Len(c) - in
  PROVE  cur + i <= Len(f) /\ c[in + i] = f[cur + i]
<1>1. PICK b \in Nat, s \in Nat : /\ b = getBlockID(cur) /\ s = getBlockStartOffset(b)
                                  /\ s + in <= cur /\ cur <= s + in
  BY BlockSplit
<1>2. Len(f) \in Nat /\ Len(c) \in Nat
  BY LenProperties
<1>3. PICK j \in Nat : j = in + i /\ j >= 1 /\ j <= Len(c)
  <2>1. PICK n \in Nat : n = Len(c)
    BY <1>2
  <2>2. i \in 1 .. n - in
    BY <2>1
  <2>3. in + i \in Nat /\ in + i >= 1 /\ in + i <= n
    BY <2>2
  <2> QED
    BY <2>1, <2>3
<1>30. s + j <= cur + i /\ cur + i <= s + j
  <2>1. PICK m \in Nat : m = in
    OBVIOUS
  <2>2. s + m <= cur /\ cur <= s + m
    BY <1>1, <2>1
  <2>3. j = m + i /\ i \in Int
    BY <1>2, <1>3, <2>1
  <2> QED
    BY <2>2, <2>3
<1>31. s + j = cur + i
  BY <1>2, <1>30
<1>4. PICK g : g = BlockOf(f, b)
  OBVIOUS
<1>5. j \in 1..Len(g)
  BY <1>1, <1>2, <1>3, <1>4
<1>6. g[j] = f[getBlockStartOffset(b) + j] /\ getBlockStartOffset(b) + j \in 1..Len(f)
  BY <1>4, <1>5, BlockOfAt
<1>7. c[j] = f[s + j] /\ s + j \in 1..Len(f)
  BY <1>1, <1>4, <1>6
<1> QED
  BY ONLY <1>2, <1>3, <1>31, <1>7

LEMMA BlockEnd ==
  ASSUME NEW f \in Seq(AllBytes), NEW cur \in Nat, NEW c \in Seq(AllBytes),
         c = BlockOf(f, getBlockID(cur)), NEW in \in Nat, in = getInBlockOffset(cur),
         NEW t \in Nat, in + t = Len(c), Len(c) < BlockSize
  PROVE  cur + t >= Len(f)
<1>1. PICK b \in Nat, s \in Nat : /\ b = getBlockID(cur) /\ s = getBlockStartOffset(b)
                                  /\ s + in <= cur /\ cur <= s + in
  BY BlockSplit
<1>2. Len(f) \in Nat /\ Len(c) \in Nat /\ BlockSize \in Nat
  BY LenProperties, BlockSizeAssumption
<1>3. Len(c) = IF s < Len(f) THEN Smaller(BlockSize, Len(f) - s) ELSE 0
  BY <1>1, BlockOfType
<1>4. s + in <= cur /\ cur <= s + in
  BY <1>1
<1> QED
  BY <1>2, <1>3, <1>4 DEF Smaller

LEMMA NothingThere ==
  ASSUME NEW f \in Seq(AllBytes), NEW cur \in Nat, NEW c \in Seq(AllBytes),
         c = BlockOf(f, getBlockID(cur)), c = <<>> \/ Len(c) = getInBlockOffset(cur)
  PROVE  cur >= Len(f)
<1>1. PICK b \in Nat, s \in Nat, in \in Nat :
         /\ b = getBlockID(cur) /\ s = getBlockStartOffset(b) /\ in = getInBlockOffset(cur)
         /\ s + in <= cur /\ cur <= s + in
  BY BlockSplit
<1>2. Len(f) \in Nat /\ Len(c) \in Nat /\ BlockSize \in Nat /\ in < BlockSize
  BY <1>1, LenProperties, BlockArithmetic, BlockSizeAssumption
<1>3. Len(c) = IF s < Len(f) THEN Smaller(BlockSize, Len(f) - s) ELSE 0
  BY <1>1, BlockOfType
<1>4. s + in <= cur /\ cur <= s + in
  BY <1>1
<1>5. Len(c) = 0 \/ Len(c) = in
  BY <1>1, EmptySeq
<1> QED
  BY <1>2, <1>3, <1>4, <1>5 DEF Smaller

LEMMA CopyKept ==
  ASSUME IInv, NEW c \in Seq(AllBytes), c = BlockOf(View, getBlockID(curOffset)), pc = "read",
         Copy(c)
  PROVE  IInv'
<1>1. PICK cur \in Nat, r \in Nat, off \in Nat, size \in Nat :
         /\ cur = curOffset /\ r = remain /\ off = asked.off /\ size = asked.size
         /\ off <= cur /\ cur + r <= off + size /\ off + size <= cur + r
  BY DEF IInv, Copied, Inputs
<1>2. PICK f \in Seq(AllBytes) : f = View
  BY ViewType DEF IInv
<1>3. PICK in \in Nat : in = getInBlockOffset(cur) /\ Len(c) > in
  BY <1>1, BlockSplit DEF Copy
<1>4. PICK whole : whole = c \o SubSeq(blockBuffer, Len(c) + 1, BlockSize)
  OBVIOUS
<1>9. Len(c) \in Nat /\ Len(c) <= BlockSize /\ BlockSize \in Nat
  <2>1. Covers(c, f, getBlockID(cur))
    BY <1>1, <1>2, CoversBlockOf, BlockArithmetic
  <2> QED
    BY <2>1, LenProperties, BlockSizeAssumption DEF Covers
<1>5. PICK t \in Nat :
         /\ Take(c) = t /\ t > 0 /\ t <= r /\ in + t <= Len(c)
         /\ Len(c) = BlockSize \/ t = r \/ in + t = Len(c)
  BY <1>1, <1>3, <1>9, TakeIs
<1>50. /\ t > 0 /\ t <= r /\ in + t <= Len(c) /\ Len(c) > in
       /\ Len(c) = BlockSize \/ t = r \/ in + t = Len(c)
       /\ off <= cur /\ cur + r <= off + size /\ off + size <= cur + r
  BY <1>1, <1>3, <1>5
<1>6. /\ out' = out \o SubSeq(whole, in + 1, in + t)
      /\ blockBuffer' = whole
      /\ remain' = r - t /\ curOffset' = cur + t
      /\ pc' = IF r - t > 0 /\ Len(c) = BlockSize THEN "read" ELSE "done"
      /\ UNCHANGED inputs
  BY <1>1, <1>3, <1>4, <1>5 DEF Copy
<1>7. UNCHANGED <<file, delta, asked>> /\ View' = View
  BY <1>6 DEF inputs, View
<1>8. /\ \A i \in 1 .. Len(c) - in : cur + i <= Len(f) /\ c[in + i] = f[cur + i]
      /\ Len(c) < BlockSize => \A n \in Nat : in + n = Len(c) => cur + n >= Len(f)
  <2>1. PICK d \in Seq(AllBytes) : d = BlockOf(f, getBlockID(cur)) /\ d = c
    BY <1>1, <1>2
  <2>2. ASSUME NEW i \in 1 .. Len(d) - in
        PROVE  cur + i <= Len(f) /\ d[in + i] = f[cur + i]
    <3>1. in = getInBlockOffset(cur) /\ d = BlockOf(f, getBlockID(cur))
      BY <1>3, <2>1
    <3> HIDE <2>1
    <3> QED
      BY <3>1, BlockBytes
  <2>3. Len(d) < BlockSize => \A n \in Nat : in + n = Len(d) => cur + n >= Len(f)
    BY <1>3, <2>1, BlockEnd
  <2> QED
    BY <2>1, <2>2, <2>3
<1>10. /\ whole \in Seq(AllBytes) /\ Len(whole) = BlockSize
       /\ \A i \in 1..Len(c) : whole[i] = c[i]
  <2>1. blockBuffer \in Seq(AllBytes) /\ Len(blockBuffer) = BlockSize
    BY DEF IInv
  <2>2. \A i \in Len(c) + 1 .. BlockSize : blockBuffer[i] \in AllBytes
    BY <1>9, <2>1, ElementOfSeq
  <2>3. PICK rest : rest = SubSeq(blockBuffer, Len(c) + 1, BlockSize)
    OBVIOUS
  <2>4. rest \in Seq(AllBytes) /\ Len(rest) = BlockSize - Len(c)
    BY <1>9, <2>2, <2>3, SubSeqProperties
  <2>5. whole \in Seq(AllBytes) /\ Len(whole) = Len(c) + Len(rest)
        /\ \A i \in 1 .. Len(c) + Len(rest) : whole[i] =
                 IF i <= Len(c) THEN c[i] ELSE rest[i - Len(c)]
    BY <1>4, <2>3, <2>4, ConcatProperties
  <2> QED
    BY <1>9, <2>4, <2>5
<1>11. PICK new : new = SubSeq(whole, in + 1, in + t)
  OBVIOUS
<1>12. /\ new \in Seq(AllBytes) /\ Len(new) = t
       /\ \A i \in 1..t : new[i] = c[in + i]
  <2>1. \A i \in in + 1 .. in + t : whole[i] \in AllBytes
    BY <1>5, <1>9, <1>10, ElementOfSeq
  <2>2. /\ new \in Seq(AllBytes)
        /\ Len(new) = IF in + 1 <= in + t THEN in + t - (in + 1) + 1 ELSE 0
        /\ \A i \in 1 .. in + t - (in + 1) + 1 : new[i] = whole[in + 1 + i - 1]
    BY <1>11, <2>1, SubSeqProperties
  <2>3. Len(new) = t
    BY <1>5, <2>2
  <2>4. ASSUME NEW i \in 1..t PROVE new[i] = c[in + i]
    <3>1. i \in 1 .. in + t - (in + 1) + 1 /\ in + 1 + i - 1 = in + i /\ in + i \in 1..Len(c)
      BY <1>5, <1>9
    <3> QED
      BY <1>10, <2>2, <3>1
  <2> QED
    BY <2>2, <2>3, <2>4
<1>13. /\ out \in Seq(AllBytes) /\ Len(out) \in Nat
       /\ off + Len(out) <= cur /\ cur <= off + Len(out)
       /\ \A i \in 1..Len(out) : off + i <= Len(f) /\ out[i] = f[off + i]
  BY <1>1, <1>2, LenProperties DEF IInv, Copied
<1>14. PICK o : o = out \o new
  OBVIOUS
<1>15. /\ o \in Seq(AllBytes) /\ Len(o) = Len(out) + t
       /\ \A i \in 1 .. Len(out) + t : o[i] = IF i <= Len(out) THEN out[i] ELSE new[i - Len(out)]
  <2>1. out \in Seq(AllBytes) /\ new \in Seq(AllBytes) /\ Len(new) = t
    BY <1>12, <1>13
  <2>2. /\ out \o new \in Seq(AllBytes) /\ Len(out \o new) = Len(out) + Len(new)
        /\ \A i \in 1 .. Len(out) + Len(new) :
              (out \o new)[i] = IF i <= Len(out) THEN out[i] ELSE new[i - Len(out)]
    BY <2>1, ConcatProperties
  <2> QED
    BY <1>14, <2>1, <2>2
<1>16. ASSUME NEW i \in 1..Len(o) PROVE off + i <= Len(f) /\ o[i] = f[off + i]
  <2>1. i \in Nat /\ i >= 1 /\ i <= Len(out) + t
    BY <1>13, <1>15
  <2>2. CASE i <= Len(out)
    BY <1>13, <1>15, <2>1, <2>2, SMTT(30)
  <2>3. CASE i > Len(out)
    <3>0. i - Len(out) \in Nat
      BY <1>13, <2>1, <2>3
    <3>1. PICK j \in Nat : j = i - Len(out)
      BY <3>0
    <3>5. /\ j + Len(out) <= i /\ i <= j + Len(out)
          /\ off + Len(out) <= cur /\ cur <= off + Len(out) /\ Len(out) \in Nat
      BY <1>13, <2>1, <3>1
    <3>2. j \in 1..t /\ j \in 1 .. Len(c) - in /\ cur + j = off + i
      BY <1>50, <1>9, <2>1, <2>3, <3>5
    <3>3. o[i] = new[j] /\ new[j] = c[in + j]
      BY <1>12, <1>13, <1>15, <2>1, <2>3, <3>1, <3>2, SMTT(30)
    <3>4. cur + j <= Len(f) /\ c[in + j] = f[cur + j]
      BY <1>8, <3>2
    <3> QED
      BY <3>2, <3>3, <3>4
  <2> QED
    BY <1>13, <2>1, <2>2, <2>3
<1>17. /\ curOffset' \in Nat /\ remain' \in Nat /\ off <= curOffset'
       /\ curOffset' + remain' <= off + size /\ off + size <= curOffset' + remain'
       /\ off + Len(o) <= curOffset' /\ curOffset' <= off + Len(o)
  <2>1. /\ cur + t \in Nat /\ r - t \in Nat /\ off <= cur + t
        /\ cur + t + (r - t) <= off + size /\ off + size <= cur + t + (r - t)
    BY <1>50
  <2>2. off + (Len(out) + t) <= cur + t /\ cur + t <= off + (Len(out) + t)
    BY <1>13
  <2> QED
    BY <1>6, <1>15, <2>1, <2>2
<1>18. Copied'
  BY <1>1, <1>2, <1>6, <1>7, <1>11, <1>14, <1>15, <1>16, <1>17 DEF Copied
<1>19. pc' = "done" => remain' = 0 \/ curOffset' >= Len(f)
  <2>1. ~(r - t > 0 /\ Len(c) = BlockSize) => r - t = 0 \/ cur + t >= Len(f)
    BY <1>50, <1>8, <1>9
  <2> QED
    BY <1>6, <2>1
<1>20. Finished' \/ pc' # "done"
  BY <1>2, <1>7, <1>19 DEF Finished
<1>21. Inputs'
  BY <1>7 DEF IInv, Inputs
<1> QED
  BY <1>6, <1>10, <1>18, <1>20, <1>21 DEF IInv

LEMMA NextIInv == IInv /\ [Next]_vars => IInv'
<1>1. IInv /\ UNCHANGED vars => IInv'
  BY DEF vars, IInv, Inputs, Copied, Finished, View
<1>2. ASSUME IInv, Round PROVE IInv'
  <2>1. PICK c \in Seq(AllBytes) : c = Block /\ c = BlockOf(View, getBlockID(curOffset))
    BY <1>2, BlockIs, ViewType, BlockOfType, BlockArithmetic DEF IInv, Copied
  <2>2. pc = "read"
    BY <1>2 DEF Round
  <2>3. CASE Overrun(c)
    BY <1>2, <2>3 DEF Overrun, IInv, inputs, Inputs, Copied, View
  <2>4. CASE EndOfFile(c)
    <3>1. View \in Seq(AllBytes) /\ curOffset \in Nat
      BY <1>2, ViewType DEF IInv, Copied
    <3>2. curOffset >= Len(View)
      BY <2>1, <2>4, <3>1, NothingThere DEF EndOfFile
    <3> QED
      BY <1>2, <2>4, <3>2 DEF EndOfFile, IInv, inputs, Inputs, Copied, View, Finished
  <2>5. CASE Copy(c)
    BY <1>2, <2>1, <2>2, <2>5, CopyKept
  <2> QED
    BY <1>2, <2>1, <2>3, <2>4, <2>5 DEF Round
<1>3. ASSUME IInv, Fallback PROVE IInv'
  <2>1. <<>> \in Seq(AllBytes) /\ Len(<<>>) = 0
    BY EmptySeq
  <2>2. Inputs' /\ pc' = "read"
    BY <1>3 DEF Fallback, inputs, IInv, Inputs
  <2>3. Copied' /\ remain' > 0
    BY <1>3, <2>1 DEF Fallback, inputs, IInv, Inputs, Copied
  <2>4. blockBuffer' \in Seq(AllBytes) /\ Len(blockBuffer') = BlockSize
    BY <1>3, ZeroBlockIs, ZeroIsByte DEF Fallback
  <2> QED
    BY <2>2, <2>3, <2>4 DEF IInv
<1> QED
  BY <1>1, <1>2, <1>3 DEF Next

THEOREM Invariance == Spec => []IInv
  BY InitIInv, NextIInv, PTL DEF Spec

(* A read returns the bytes of the file from its offset on, as many as are *)
(* asked for or there are, put together from however many blocks, and none *)
(* behind its end.                                                         *)
THEOREM ReadsAreSlices == Spec => []ReadIsSlice
<1>1. IInv => ReadIsSlice
  <2> SUFFICES ASSUME IInv, pc = "done"
               PROVE  out = Slice(View, asked.off, asked.size)
    BY DEF ReadIsSlice
  <2>1. PICK f \in Seq(AllBytes) : f = View
    BY ViewType DEF IInv
  <2>2. PICK cur \in Nat, r \in Nat, off \in Nat, size \in Nat :
         /\ cur = curOffset /\ r = remain /\ off = asked.off /\ size = asked.size
         /\ off <= cur /\ cur + r <= off + size /\ off + size <= cur + r
         /\ r = 0 \/ cur >= Len(f)
    BY <2>1 DEF IInv, Copied, Inputs, Finished
  <2>3. /\ out \in Seq(AllBytes) /\ Len(out) \in Nat
        /\ off + Len(out) <= cur /\ cur <= off + Len(out)
        /\ \A i \in 1..Len(out) : off + i <= Len(f) /\ out[i] = f[off + i]
    BY <2>1, <2>2, LenProperties DEF IInv, Copied
  <2>4. PICK g \in Seq(AllBytes) : g = Slice(f, off, size)
    BY SliceType
  <2>5. Len(g) = IF off < Len(f) THEN Smaller(size, Len(f) - off) ELSE 0
    BY <2>4, SliceType
  <2>6. Len(f) \in Nat
    BY LenProperties
  <2>7. Len(out) > 0 => off + Len(out) <= Len(f)
    <3>1. Len(out) > 0 => Len(out) \in 1..Len(out)
      BY <2>3
    <3> QED
      BY <2>3, <3>1
  <2>8. off <= cur /\ cur + r <= off + size /\ off + size <= cur + r
        /\ (r = 0 \/ cur >= Len(f))
    BY <2>2
  <2>9. Len(out) = Len(g)
    BY <2>3, <2>5, <2>6, <2>7, <2>8 DEF Smaller
  <2>10. \A i \in 1..Len(out) : out[i] = g[i]
    BY <2>3, <2>4, <2>9, SliceAt
  <2>11. out = g
    BY <2>3, <2>9, <2>10, SeqEqual
  <2> QED
    BY <2>1, <2>2, <2>4, <2>11
<1> QED
  BY <1>1, Invariance, PTL
=============================================================================
