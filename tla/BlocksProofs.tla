---------------------------- MODULE BlocksProofs ----------------------------
(***************************************************************************)
(* Lemmas about the operators of Blocks, for every block size and every    *)
(* set S of bytes: what a write leaves in a file, in a block and in a      *)
(* delta, and what a read of a block returns.                              *)
(***************************************************************************)
EXTENDS Blocks, SequenceTheorems, TLAPS

LEMMA FunctionIsSeq ==
  ASSUME NEW S, NEW n \in Nat, NEW f \in [1..n -> S]
  PROVE  f \in Seq(S) /\ Len(f) = n
<1>1. f \in Seq(S)
  BY SeqDef
<1> QED
  BY <1>1, LenProperties

LEMMA NotEmpty ==
  ASSUME NEW S, NEW f \in Seq(S)
  PROVE  Len(f) \in Nat /\ (f # <<>> <=> Len(f) > 0)
BY EmptySeq, LenProperties

-----------------------------------------------------------------------------
(* Block arithmetic: every offset is in one block.                         *)

LEMMA BlockArithmetic ==
  ASSUME NEW off \in Nat
  PROVE  /\ getBlockID(off) \in Nat
         /\ getBlockStartOffset(getBlockID(off)) \in Nat
         /\ getBlockStartOffset(getBlockID(off)) <= off
         /\ off < getBlockStartOffset(getBlockID(off)) + BlockSize
         /\ getInBlockOffset(off) \in 0..(BlockSize - 1)
BY BlockSizeAssumption DEF getBlockID, getBlockStartOffset, getInBlockOffset

LEMMA BlocksApart ==
  ASSUME NEW b \in Nat, NEW c \in Nat, b < c
  PROVE  getBlockStartOffset(b) + BlockSize <= getBlockStartOffset(c)
BY BlockSizeAssumption DEF getBlockStartOffset

(* Where an offset is, with its equation as two inequalities: the provers  *)
(* would otherwise replace the offset everywhere.                          *)
LEMMA BlockSplit ==
  ASSUME NEW off \in Nat
  PROVE  \E b \in Nat, s \in Nat, in \in Nat :
            /\ b = getBlockID(off)
            /\ s = getBlockStartOffset(b)
            /\ in = getInBlockOffset(off)
            /\ s + in <= off /\ off <= s + in
<1>1. /\ getBlockID(off) \in Nat
      /\ getBlockStartOffset(getBlockID(off)) \in Nat
      /\ getInBlockOffset(off) \in Nat
  BY BlockArithmetic, BlockSizeAssumption
<1>2. /\ getBlockStartOffset(getBlockID(off)) + getInBlockOffset(off) <= off
      /\ off <= getBlockStartOffset(getBlockID(off)) + getInBlockOffset(off)
  BY <1>1 DEF getInBlockOffset
<1> QED
  BY <1>1, <1>2

(* Bytes within one block are apart from every other block.                *)
LEMMA OtherBlock ==
  ASSUME NEW o \in Nat, NEW n \in Nat, getInBlockOffset(o) + n <= BlockSize,
         NEW b \in Nat, getBlockID(o) # b
  PROVE  o + n <= getBlockStartOffset(b) \/ getBlockStartOffset(b) + BlockSize <= o
<1>1. PICK a \in Nat, t \in Nat, in \in Nat :
         /\ a = getBlockID(o) /\ t = getBlockStartOffset(a)
         /\ in = getInBlockOffset(o) /\ t + in <= o /\ o <= t + in
  BY BlockSplit
<1>2. PICK s \in Nat : s = getBlockStartOffset(b)
  BY BlockSizeAssumption DEF getBlockStartOffset
<1>3. in + n <= BlockSize
  BY <1>1
<1>4. a < b \/ b < a
  BY <1>1
<1>5. a < b => t + BlockSize <= s
  BY <1>1, <1>2, BlocksApart
<1>6. b < a => s + BlockSize <= t
  BY <1>1, <1>2, BlocksApart
<1>7. t + in <= o /\ o <= t + in
  BY <1>1
<1>8. o + n <= s \/ s + BlockSize <= o
  BY <1>3, <1>4, <1>5, <1>6, <1>7, BlockSizeAssumption
<1> QED
  BY <1>2, <1>8

LEMMA BlockStart ==
  ASSUME NEW b \in Nat
  PROVE  getBlockStartOffset(b) \in Nat /\ getBlockID(getBlockStartOffset(b)) = b
BY BlockSizeAssumption DEF getBlockStartOffset, getBlockID

-----------------------------------------------------------------------------
(* What Patch returns: its type, its length and each byte of it.           *)

LEMMA PatchType ==
  ASSUME NEW S, Zero \in S, NEW f \in Seq(S), NEW off \in Nat, NEW data \in Seq(S)
  PROVE  /\ Patch(f, off, data) \in Seq(S)
         /\ Len(Patch(f, off, data)) = Larger(Len(f), off + Len(data))
<1> DEFINE n == Larger(Len(f), off + Len(data))
<1>1. n \in Nat /\ Len(f) \in Nat /\ Len(data) \in Nat
  BY LenProperties DEF Larger
<1>2. Patch(f, off, data) \in [1..n -> S]
  BY <1>1, ElementOfSeq DEF Patch
<1> QED
  BY <1>1, <1>2, FunctionIsSeq

LEMMA PatchAt ==
  ASSUME NEW S, Zero \in S, NEW f \in Seq(S), NEW off \in Nat, NEW data \in Seq(S),
         NEW i \in 1..Len(Patch(f, off, data))
  PROVE  Patch(f, off, data)[i] =
           IF i \in off + 1 .. off + Len(data) THEN data[i - off]
           ELSE IF i <= Len(f) THEN f[i] ELSE Zero
<1>1. i \in 1..Larger(Len(f), off + Len(data))
  BY PatchType
<1> QED
  BY <1>1 DEF Patch

-----------------------------------------------------------------------------
(* Slices and blocks of a file.                                            *)

LEMMA SliceType ==
  ASSUME NEW S, NEW f \in Seq(S), NEW off \in Nat, NEW n \in Nat
  PROVE  /\ Slice(f, off, n) \in Seq(S)
         /\ Len(Slice(f, off, n)) =
               IF off < Len(f) THEN Smaller(n, Len(f) - off) ELSE 0
<1> DEFINE last == Smaller(off + n, Len(f))
<1>1. Len(f) \in Nat /\ last \in Nat /\ last <= Len(f)
  BY LenProperties DEF Smaller
<1>2. \A i \in off + 1 .. last : f[i] \in S
  BY <1>1, ElementOfSeq
<1>3. /\ SubSeq(f, off + 1, last) \in Seq(S)
      /\ Len(SubSeq(f, off + 1, last)) = IF off + 1 <= last THEN last - off ELSE 0
  BY <1>1, <1>2, SubSeqProperties
<1> QED
  BY <1>1, <1>3 DEF Slice, Smaller

LEMMA SliceAt ==
  ASSUME NEW S, NEW f \in Seq(S), NEW off \in Nat, NEW n \in Nat,
         NEW i \in 1..Len(Slice(f, off, n))
  PROVE  Slice(f, off, n)[i] = f[off + i] /\ off + i \in 1..Len(f)
<1> DEFINE last == Smaller(off + n, Len(f))
<1>1. Len(f) \in Nat /\ last \in Nat /\ last <= Len(f)
  BY LenProperties DEF Smaller
<1>2. \A j \in off + 1 .. last : f[j] \in S
  BY <1>1, ElementOfSeq
<1>3. \A j \in 1 .. last - off : SubSeq(f, off + 1, last)[j] = f[off + j]
  BY <1>1, <1>2, SubSeqProperties
<1>4. Len(Slice(f, off, n)) = IF off < Len(f) THEN Smaller(n, Len(f) - off) ELSE 0
  BY SliceType
<1>5. i \in 1 .. last - off
  BY <1>1, <1>4 DEF Smaller
<1> QED
  <2>1. off < Len(f) /\ off + i \in 1..Len(f)
    BY <1>1, <1>5
  <2>2. Slice(f, off, n) = SubSeq(f, off + 1, last)
    BY <2>1 DEF Slice
  <2>3. SubSeq(f, off + 1, last)[i] = f[off + i]
    BY <1>3, <1>5
  <2> QED
    BY <2>1, <2>2, <2>3

LEMMA BlockOfType ==
  ASSUME NEW S, NEW f \in Seq(S), NEW b \in Nat
  PROVE  /\ BlockOf(f, b) \in Seq(S)
         /\ Len(BlockOf(f, b)) =
               IF getBlockStartOffset(b) < Len(f)
               THEN Smaller(BlockSize, Len(f) - getBlockStartOffset(b)) ELSE 0
BY SliceType, BlockStart, BlockSizeAssumption DEF BlockOf

LEMMA BlockOfAt ==
  ASSUME NEW S, NEW f \in Seq(S), NEW b \in Nat, NEW i \in 1..Len(BlockOf(f, b))
  PROVE  /\ BlockOf(f, b)[i] = f[getBlockStartOffset(b) + i]
         /\ getBlockStartOffset(b) + i \in 1..Len(f)
BY SliceAt, BlockStart, BlockSizeAssumption DEF BlockOf

-----------------------------------------------------------------------------
(* Deltas.  The provers do better with an offset and bytes of their own    *)
(* than with the fields of a record.                                       *)

MakeDelta(o, x) == [off |-> o, data |-> x]

LEMMA DeltaFields ==
  ASSUME NEW o, NEW x
  PROVE  /\ MakeDelta(o, x).off = o /\ MakeDelta(o, x).data = x
         /\ DeltaEnd(MakeDelta(o, x)) = o + Len(x)
         /\ HasDelta(MakeDelta(o, x)) <=> x # <<>>
BY DEF MakeDelta, DeltaEnd, HasDelta

(* Two writes to nothing, the first or the second at its beginning, that   *)
(* overlap or touch: no byte is missing.                                   *)
LEMMA Join ==
  ASSUME NEW S, Zero \in S, NEW a \in Nat, NEW x \in Seq(S),
         NEW b \in Nat, NEW y \in Seq(S),
         a = 0 \/ b = 0, a + Len(x) >= b, a <= b + Len(y),
         NEW p, p = Patch(<<>>, a, x), NEW q, q = Patch(p, b, y)
  PROVE  /\ q \in Seq(S)
         /\ Len(q) = Larger(a + Len(x), b + Len(y))
         /\ \A i \in 1..Len(q) :
               q[i] = IF i \in b + 1 .. b + Len(y) THEN y[i - b] ELSE x[i - a]
<1>1. Len(x) \in Nat /\ Len(y) \in Nat
  BY LenProperties
<1>2. <<>> \in Seq(S) /\ Len(<<>>) = 0
  BY EmptySeq
<1>3. p \in Seq(S) /\ Len(p) = Larger(Len(<<>>), a + Len(x))
  BY <1>2, PatchType
<1>4. Len(p) = a + Len(x)
  BY <1>1, <1>2, <1>3 DEF Larger
<1>5. q \in Seq(S) /\ Len(q) = Larger(Len(p), b + Len(y))
  BY <1>3, PatchType
<1>6. ASSUME NEW i \in 1..Len(q)
      PROVE  q[i] = IF i \in b + 1 .. b + Len(y) THEN y[i - b] ELSE x[i - a]
  <2>1. q[i] = IF i \in b + 1 .. b + Len(y) THEN y[i - b]
               ELSE IF i <= Len(p) THEN p[i] ELSE Zero
    BY <1>3, PatchAt
  <2>2. CASE i \notin b + 1 .. b + Len(y)
    <3>1. i \in Nat /\ i >= 1 /\ i <= Len(q)
      BY <1>1, <1>4, <1>5 DEF Larger
    <3>2. i \in a + 1 .. a + Len(x)
      BY <1>1, <1>4, <1>5, <2>2, <3>1 DEF Larger
    <3>3. i \in 1..Len(p)
      BY <1>1, <1>4, <3>1, <3>2
    <3>4. p[i] = x[i - a]
      BY <1>2, <3>2, <3>3, PatchAt
    <3> QED
      BY <2>1, <2>2, <3>1, <3>3, <3>4, <1>4, <1>1
  <2> QED
    BY <2>1, <2>2
<1> QED
  BY <1>4, <1>5, <1>6

(* The bytes z at e are x at o with y at u laid over it, without a gap.    *)
Joined(o, x, u, y, e, z) ==
    /\ e <= u /\ e <= o /\ (e = u \/ e = o)
    /\ o + Len(x) <= e + Len(z) /\ u + Len(y) <= e + Len(z)
    /\ e + Len(z) = o + Len(x) \/ e + Len(z) = u + Len(y)
    /\ \A i \in e + 1 .. e + Len(z) :
          z[i - e] = IF i \in u + 1 .. u + Len(y) THEN y[i - u] ELSE x[i - o]

(* What _writeBlock makes of a delta and new bytes that overlap or touch   *)
(* it: the bytes of both, without a gap, the new ones on top.              *)
LEMMA ExpandIs ==
  ASSUME NEW S, Zero \in S, NEW o \in Nat, NEW x \in Seq(S), x # <<>>,
         NEW off \in Nat, NEW data \in Seq(S), data # <<>>,
         o + Len(x) >= off, o <= off + Len(data)
  PROVE  \E e \in Nat, z \in Seq(S) :
            /\ Expand(MakeDelta(o, x), off, data) = MakeDelta(e, z)
            /\ z # <<>>
            /\ Joined(o, x, off, data, e, z)
<1>1. Len(x) \in Nat /\ Len(x) > 0 /\ Len(data) \in Nat /\ Len(data) > 0
  BY NotEmpty
<1>2. PICK e \in Nat, a \in Nat, b \in Nat :
         /\ e = Smaller(off, o)
         /\ a = o - e /\ b = off - e
         /\ a = 0 \/ b = 0
  BY DEF Smaller
<1>3. o = e + a /\ off = e + b
  BY <1>2
<1>4. PICK p, z : p = Patch(<<>>, a, x) /\ z = Patch(p, b, data)
  OBVIOUS
<1>5. Expand(MakeDelta(o, x), off, data) = MakeDelta(e, z)
  BY <1>2, <1>4 DEF Expand, MakeDelta
<1>6. a + Len(x) >= b /\ a <= b + Len(data)
  BY <1>1, <1>3
<1>7. a = 0 \/ b = 0
  BY <1>2
<1>8. /\ z \in Seq(S)
      /\ Len(z) = Larger(a + Len(x), b + Len(data))
      /\ \A i \in 1..Len(z) :
            z[i] = IF i \in b + 1 .. b + Len(data) THEN data[i - b] ELSE x[i - a]
  BY <1>4, <1>6, <1>7, Join, SMTT(30)
<1>9. Len(z) = Larger(a + Len(x), b + Len(data)) /\ z \in Seq(S)
  BY <1>8
<1>10. e + Len(z) = Larger(o + Len(x), off + Len(data)) /\ Len(z) > 0 /\ Len(z) \in Nat
  BY <1>1, <1>3, <1>9 DEF Larger
<1>14. /\ o + Len(x) <= e + Len(z) /\ off + Len(data) <= e + Len(z)
       /\ e + Len(z) = o + Len(x) \/ e + Len(z) = off + Len(data)
  BY <1>1, <1>10 DEF Larger
<1>11. z # <<>>
  BY <1>9, <1>10, NotEmpty
<1>12. ASSUME NEW i \in e + 1 .. e + Len(z)
       PROVE  z[i - e] = IF i \in off + 1 .. off + Len(data) THEN data[i - off]
                         ELSE x[i - o]
  <2>0. Len(z) \in Nat
    BY <1>10
  <2>1. i - e \in 1..Len(z)
    BY <2>0
  <2>2. /\ i - e - b = i - off /\ i - e - a = i - o
        /\ i - e \in b + 1 .. b + Len(data) <=> i \in off + 1 .. off + Len(data)
    BY <1>1, <1>3, <2>0
  <2>3. z[i - e] = IF i - e \in b + 1 .. b + Len(data) THEN data[i - e - b] ELSE x[i - e - a]
    BY <1>8, <2>1
  <2> QED
    BY <2>2, <2>3
<1>13. e <= off /\ e <= o /\ (e = off \/ e = o)
  BY <1>2 DEF Smaller
<1> QED
  BY <1>5, <1>9, <1>11, <1>12, <1>13, <1>14 DEF Joined

(* To write the joined bytes is to write the old ones and then the new.    *)
LEMMA PatchJoined ==
  ASSUME NEW S, Zero \in S, NEW f \in Seq(S),
         NEW o \in Nat, NEW x \in Seq(S), x # <<>>,
         NEW off \in Nat, NEW data \in Seq(S), data # <<>>,
         o + Len(x) >= off, o <= off + Len(data),
         NEW e \in Nat, NEW z \in Seq(S), Joined(o, x, off, data, e, z)
  PROVE  Patch(f, e, z) = Patch(Patch(f, o, x), off, data)
<1>1. PICK g \in Seq(S) : g = Patch(f, o, x)
  BY PatchType
<1>2. PICK l \in Seq(S), r \in Seq(S) : l = Patch(f, e, z) /\ r = Patch(g, off, data)
  BY PatchType
<1>3. /\ Len(x) \in Nat /\ Len(x) > 0 /\ Len(data) \in Nat /\ Len(data) > 0
      /\ Len(f) \in Nat /\ Len(z) \in Nat
  BY NotEmpty
<1>4. Len(g) = Larger(Len(f), o + Len(x))
  BY <1>1, PatchType
<1>5. Len(l) = Larger(Len(f), e + Len(z)) /\ Len(r) = Larger(Len(g), off + Len(data))
  <2>1. /\ Len(Patch(f, e, z)) = Larger(Len(f), e + Len(z))
        /\ Len(Patch(g, off, data)) = Larger(Len(g), off + Len(data))
    BY PatchType, ZenonT(30)
  <2> QED
    BY <1>2, <2>1
<1>6. Len(g) \in Nat /\ Len(l) \in Nat /\ Len(l) = Len(r)
  BY <1>3, <1>4, <1>5 DEF Larger, Joined
<1>7. ASSUME NEW i \in 1..Len(l) PROVE l[i] = r[i]
  <2>1. i \in Nat /\ i >= 1
    BY <1>6
  <2>2. l[i] = IF i \in e + 1 .. e + Len(z) THEN z[i - e]
               ELSE IF i <= Len(f) THEN f[i] ELSE Zero
    BY <1>2, PatchAt
  <2>3. r[i] = IF i \in off + 1 .. off + Len(data) THEN data[i - off]
               ELSE IF i <= Len(g) THEN g[i] ELSE Zero
    BY <1>2, <1>6, PatchAt
  <2>4. i \in 1..Len(g) => g[i] = IF i \in o + 1 .. o + Len(x) THEN x[i - o]
                                  ELSE IF i <= Len(f) THEN f[i] ELSE Zero
    BY <1>1, PatchAt
  <2>5. i \in e + 1 .. e + Len(z)
           <=> i \in off + 1 .. off + Len(data) \/ i \in o + 1 .. o + Len(x)
    BY <1>3, <2>1, SMTT(30) DEF Joined
  <2>6. i \in o + 1 .. o + Len(x) => i \in 1..Len(g) /\ i <= Len(g)
    BY <1>3, <1>4, <1>6, <2>1 DEF Larger
  <2>7. i <= Len(f) => i \in 1..Len(g) /\ i <= Len(g)
    BY <1>3, <1>4, <1>6, <2>1 DEF Larger
  <2>8. i <= Len(g) => i \in 1..Len(g)
    BY <1>6, <2>1
  <2>9. CASE i \in off + 1 .. off + Len(data)
    BY <2>2, <2>3, <2>5, <2>9 DEF Joined
  <2>10. CASE i \notin off + 1 .. off + Len(data) /\ i \in o + 1 .. o + Len(x)
    BY <2>2, <2>3, <2>4, <2>5, <2>6, <2>10 DEF Joined
  <2>11. CASE i \notin off + 1 .. off + Len(data) /\ i \notin o + 1 .. o + Len(x)
    BY <2>2, <2>3, <2>4, <2>5, <2>7, <2>8, <2>11
  <2> QED
    BY <2>9, <2>10, <2>11
<1>8. l = r
  BY <1>6, <1>7, SeqEqual
<1> QED
  BY <1>1, <1>2, <1>8

(* A write hides an earlier one that lies within it.                       *)
LEMMA PatchHides ==
  ASSUME NEW S, Zero \in S, NEW f \in Seq(S),
         NEW o \in Nat, NEW x \in Seq(S), NEW e \in Nat, NEW z \in Seq(S),
         e <= o, o + Len(x) <= e + Len(z)
  PROVE  Patch(Patch(f, o, x), e, z) = Patch(f, e, z)
<1>1. PICK g \in Seq(S) : g = Patch(f, o, x)
  BY PatchType
<1>2. PICK l \in Seq(S), r \in Seq(S) : l = Patch(g, e, z) /\ r = Patch(f, e, z)
  BY PatchType
<1>3. Len(x) \in Nat /\ Len(f) \in Nat /\ Len(z) \in Nat
  BY NotEmpty
<1>4. Len(g) = Larger(Len(f), o + Len(x))
  BY <1>1, PatchType
<1>5. Len(l) = Larger(Len(g), e + Len(z)) /\ Len(r) = Larger(Len(f), e + Len(z))
  BY <1>2, PatchType, SMTT(30)
<1>6. Len(g) \in Nat /\ Len(l) \in Nat /\ Len(l) = Len(r)
  BY <1>3, <1>4, <1>5 DEF Larger
<1>7. ASSUME NEW i \in 1..Len(l) PROVE l[i] = r[i]
  <2>1. i \in Nat /\ i >= 1
    BY <1>6
  <2>2. l[i] = IF i \in e + 1 .. e + Len(z) THEN z[i - e]
               ELSE IF i <= Len(g) THEN g[i] ELSE Zero
    BY <1>2, PatchAt
  <2>3. r[i] = IF i \in e + 1 .. e + Len(z) THEN z[i - e]
               ELSE IF i <= Len(f) THEN f[i] ELSE Zero
    BY <1>2, <1>6, PatchAt
  <2>4. i \in 1..Len(g) => g[i] = IF i \in o + 1 .. o + Len(x) THEN x[i - o]
                                  ELSE IF i <= Len(f) THEN f[i] ELSE Zero
    BY <1>1, PatchAt
  <2>5. i \in o + 1 .. o + Len(x) => i \in e + 1 .. e + Len(z)
    BY <1>3, <2>1
  <2>6. i <= Len(f) => i <= Len(g)
    BY <1>3, <1>4, <2>1 DEF Larger
  <2>7. i <= Len(g) => i \in 1..Len(g)
    BY <1>6, <2>1
  <2>8. CASE i \in e + 1 .. e + Len(z)
    BY <2>2, <2>3, <2>8
  <2>9. CASE i \notin e + 1 .. e + Len(z)
    BY <2>2, <2>3, <2>4, <2>5, <2>6, <2>7, <2>9
  <2> QED
    BY <2>8, <2>9
<1>8. l = r
  BY <1>6, <1>7, SeqEqual
<1> QED
  BY <1>1, <1>2, <1>8

-----------------------------------------------------------------------------
(* A block that is kept in memory, against the file it is of: the bytes it *)
(* has are those of the file, and the file has a hole where it ends early. *)

Covers(c, f, b) ==
    /\ Len(c) <= BlockSize
    /\ \A i \in 1..Len(c) :
          getBlockStartOffset(b) + i <= Len(f) /\ c[i] = f[getBlockStartOffset(b) + i]
    /\ \A i \in Len(c) + 1 .. BlockSize :
          getBlockStartOffset(b) + i <= Len(f) => f[getBlockStartOffset(b) + i] = Zero

(* ... and it does not end early.                                          *)
Complete(c, f, b) ==
    \A i \in Len(c) + 1 .. BlockSize : getBlockStartOffset(b) + i > Len(f)

LEMMA CoversBlockOf ==
  ASSUME NEW S, NEW f \in Seq(S), NEW b \in Nat, NEW c, c = BlockOf(f, b)
  PROVE  Covers(c, f, b) /\ Complete(c, f, b)
<1>1. PICK s \in Nat : s = getBlockStartOffset(b)
  BY BlockStart
<1>2. Len(f) \in Nat /\ BlockSize \in Nat
  BY LenProperties, BlockSizeAssumption
<1>3. Len(c) = IF s < Len(f) THEN Smaller(BlockSize, Len(f) - s) ELSE 0
  BY <1>1, BlockOfType
<1>4. Len(c) \in Nat /\ Len(c) <= BlockSize
  BY <1>2, <1>3 DEF Smaller
<1>5. \A i \in 1..Len(c) : s + i <= Len(f) /\ c[i] = f[s + i]
  <2> TAKE i \in 1..Len(c)
  <2>1. c[i] = f[s + i] /\ s + i \in 1..Len(f)
    BY <1>1, BlockOfAt
  <2> QED
    BY <2>1, <1>2
<1>6. \A i \in Len(c) + 1 .. BlockSize : s + i > Len(f)
  BY <1>2, <1>3, <1>4 DEF Smaller
<1>7. \A i \in Len(c) + 1 .. BlockSize : ~(s + i <= Len(f))
  BY <1>2, <1>4, <1>6
<1> QED
  BY <1>1, <1>4, <1>5, <1>6, <1>7 DEF Covers, Complete

LEMMA CoversComplete ==
  ASSUME NEW S, NEW f \in Seq(S), NEW b \in Nat, NEW c \in Seq(S),
         Covers(c, f, b), Complete(c, f, b)
  PROVE  c = BlockOf(f, b)
<1>1. PICK s \in Nat : s = getBlockStartOffset(b)
  BY BlockStart
<1>2. PICK g \in Seq(S) : g = BlockOf(f, b)
  BY BlockOfType
<1>3. Len(f) \in Nat /\ BlockSize \in Nat \ {0} /\ Len(c) \in Nat
  BY LenProperties, BlockSizeAssumption
<1>4. Len(g) = IF s < Len(f) THEN Smaller(BlockSize, Len(f) - s) ELSE 0
  BY <1>1, <1>2, BlockOfType
<1>5. /\ Len(c) <= BlockSize
      /\ \A i \in 1..Len(c) : s + i <= Len(f) /\ c[i] = f[s + i]
      /\ \A i \in Len(c) + 1 .. BlockSize : s + i > Len(f)
  BY <1>1 DEF Covers, Complete
<1>6. Len(c) > 0 => s + Len(c) <= Len(f)
  <2>1. Len(c) > 0 => Len(c) \in 1..Len(c)
    BY <1>3
  <2> QED
    BY <2>1, <1>5
<1>7. Len(c) < BlockSize => s + Len(c) + 1 > Len(f)
  <2>1. Len(c) < BlockSize => Len(c) + 1 \in Len(c) + 1 .. BlockSize
    BY <1>3
  <2>2. s + (Len(c) + 1) = s + Len(c) + 1
    BY <1>3
  <2> QED
    BY <2>1, <2>2, <1>5
<1>8. Len(c) = Len(g)
  BY <1>3, <1>4, <1>5, <1>6, <1>7 DEF Smaller
<1>9. ASSUME NEW i \in 1..Len(c) PROVE c[i] = g[i]
  <2>1. i \in 1..Len(g)
    BY <1>8
  <2>2. g[i] = f[s + i]
    BY <1>1, <1>2, <2>1, BlockOfAt
  <2> QED
    BY <2>2, <1>5
<1>10. c = g
  BY <1>8, <1>9, SeqEqual
<1> QED
  BY <1>2, <1>10

(* A file without holes has none where a block could end early.            *)
LEMMA CoversWhole ==
  ASSUME NEW S, NEW f \in Seq(S), NEW b \in Nat, NEW c \in Seq(S),
         Covers(c, f, b), \A i \in 1..Len(f) : f[i] # Zero
  PROVE  c = BlockOf(f, b)
<1>1. PICK s \in Nat : s = getBlockStartOffset(b)
  BY BlockStart
<1>2. Len(f) \in Nat /\ BlockSize \in Nat \ {0} /\ Len(c) \in Nat
  BY LenProperties, BlockSizeAssumption
<1>3. ASSUME NEW i \in Len(c) + 1 .. BlockSize
      PROVE  s + i > Len(f)
  <2>1. i \in Nat /\ i >= 1
    BY <1>2
  <2>2. s + i <= Len(f) => f[s + i] = Zero
    BY <1>1 DEF Covers
  <2>3. s + i <= Len(f) => s + i \in 1..Len(f)
    BY <1>2, <2>1
  <2>4. ~(s + i <= Len(f))
    BY <2>2, <2>3
  <2> QED
    BY <2>4, <1>2, <2>1
<1> QED
  BY <1>1, <1>3, CoversComplete DEF Complete

(* What _applyDeltaToCache does to a block keeps it good for the file that *)
(* the bytes are written to.                                               *)
LEMMA PatchCovers ==
  ASSUME NEW S, Zero \in S, NEW f \in Seq(S), NEW b \in Nat, NEW c \in Seq(S),
         NEW o \in Nat, NEW x \in Seq(S), getBlockID(o) = b,
         getInBlockOffset(o) + Len(x) <= BlockSize, Covers(c, f, b)
  PROVE  Covers(Patch(c, getInBlockOffset(o), x), Patch(f, o, x), b)
<1>1. PICK s \in Nat, in \in Nat :
         /\ s = getBlockStartOffset(b) /\ in = getInBlockOffset(o)
         /\ s + in <= o /\ o <= s + in
  BY BlockSplit
<1>0. s + in <= o /\ o <= s + in
  BY <1>1
<1>2. PICK p \in Seq(S) : p = Patch(c, in, x)
  BY PatchType
<1>3. PICK g \in Seq(S) : g = Patch(f, o, x)
  BY PatchType
<1>4. Len(p) = Larger(Len(c), in + Len(x))
  BY <1>2, PatchType
<1>5. Len(g) = Larger(Len(f), o + Len(x))
  BY <1>3, PatchType
<1>6. /\ Len(c) \in Nat /\ Len(x) \in Nat /\ Len(f) \in Nat /\ Len(p) \in Nat
      /\ Len(g) \in Nat /\ BlockSize \in Nat
  BY LenProperties, BlockSizeAssumption
<1>7. /\ Len(c) <= BlockSize
      /\ \A i \in 1..Len(c) : s + i <= Len(f) /\ c[i] = f[s + i]
      /\ \A i \in Len(c) + 1 .. BlockSize : s + i <= Len(f) => f[s + i] = Zero
  BY <1>1 DEF Covers
<1>8. in + Len(x) <= BlockSize
  BY <1>1
<1>9. Len(p) <= BlockSize
  BY <1>4, <1>6, <1>7, <1>8 DEF Larger
<1>10. ASSUME NEW i \in 1..BlockSize
       PROVE  /\ i <= Len(p) => s + i <= Len(g) /\ p[i] = g[s + i]
              /\ i > Len(p) /\ s + i <= Len(g) => g[s + i] = Zero
  <2>1. i \in Nat /\ i >= 1 /\ s + i \in Nat /\ s + i >= 1
    BY <1>6
  <2>2. PICK t \in Nat : t = s + i
    BY <2>1
  <2>3. i <= Len(p) => p[i] = IF i \in in + 1 .. in + Len(x) THEN x[i - in]
                              ELSE IF i <= Len(c) THEN c[i] ELSE Zero
    <3>1. i <= Len(p) => i \in 1..Len(p)
      BY <1>6, <2>1
    <3> QED
      BY <1>2, <3>1, PatchAt
  <2>4. t <= Len(g) => g[t] = IF t \in o + 1 .. o + Len(x) THEN x[t - o]
                              ELSE IF t <= Len(f) THEN f[t] ELSE Zero
    <3>1. t <= Len(g) => t \in 1..Len(g)
      BY <1>6, <2>1, <2>2
    <3> QED
      BY <1>3, <3>1, PatchAt
  <2>5. /\ i \in in + 1 .. in + Len(x) <=> t \in o + 1 .. o + Len(x)
        /\ i - in = t - o
    BY <1>0, <1>6, <2>1, <2>2
  <2>6. /\ i <= Len(c) => t <= Len(f) /\ c[i] = f[t]
        /\ i > Len(c) /\ t <= Len(f) => f[t] = Zero
    <3>1. i <= Len(c) => i \in 1..Len(c)
      BY <1>6, <2>1
    <3>2. i > Len(c) => i \in Len(c) + 1 .. BlockSize
      BY <1>6, <2>1
    <3> QED
      BY <1>7, <2>2, <3>1, <3>2
  <2>7. /\ t \in o + 1 .. o + Len(x) => t <= Len(g) /\ i <= Len(p)
        /\ t <= Len(f) => t <= Len(g)
        /\ i > Len(p) => i > Len(c)
        /\ i <= Len(c) \/ i > Len(c)
    BY <1>0, <1>4, <1>5, <1>6, <2>1, <2>2 DEF Larger
  <2>8. i <= Len(p) => t <= Len(g)
    BY <1>0, <1>4, <1>5, <1>6, <2>1, <2>2, <2>6 DEF Larger
  <2>9. CASE t \in o + 1 .. o + Len(x)
    <3>1. i <= Len(p) /\ t <= Len(g) /\ p[i] = x[i - in] /\ g[t] = x[t - o]
      BY <2>3, <2>4, <2>5, <2>7, <2>9
    <3>2. ~(i > Len(p))
      BY <1>6, <2>1, <3>1
    <3> QED
      BY <2>2, <2>5, <3>1, <3>2
  <2>10. CASE t \notin o + 1 .. o + Len(x)
    <3>1. i <= Len(p) => p[i] = IF i <= Len(c) THEN c[i] ELSE Zero
      BY <2>3, <2>5, <2>10
    <3>2. t <= Len(g) => g[t] = IF t <= Len(f) THEN f[t] ELSE Zero
      BY <2>4, <2>10
    <3> QED
      BY <2>2, <2>6, <2>7, <2>8, <3>1, <3>2
  <2> QED
    BY <2>9, <2>10
<1>11. \A i \in 1..Len(p) : s + i <= Len(g) /\ p[i] = g[s + i]
  <2> TAKE i \in 1..Len(p)
  <2>1. i \in 1..BlockSize /\ i <= Len(p)
    BY <1>6, <1>9
  <2> QED
    BY <2>1, <1>10
<1>12. \A i \in Len(p) + 1 .. BlockSize : s + i <= Len(g) => g[s + i] = Zero
  <2> TAKE i \in Len(p) + 1 .. BlockSize
  <2>1. i \in 1..BlockSize /\ i > Len(p)
    BY <1>6
  <2> QED
    BY <2>1, <1>10
<1>13. Covers(p, g, b)
  BY <1>1, <1>9, <1>11, <1>12 DEF Covers
<1> QED
  BY <1>1, <1>2, <1>3, <1>13

LEMMA PatchComplete ==
  ASSUME NEW S, Zero \in S, NEW f \in Seq(S), NEW b \in Nat, NEW c \in Seq(S),
         NEW o \in Nat, NEW x \in Seq(S), getBlockID(o) = b, x # <<>>,
         Complete(c, f, b)
  PROVE  Complete(Patch(c, getInBlockOffset(o), x), Patch(f, o, x), b)
<1>1. PICK s \in Nat, in \in Nat :
         /\ s = getBlockStartOffset(b) /\ in = getInBlockOffset(o)
         /\ s + in <= o /\ o <= s + in
  BY BlockSplit
<1>0. s + in <= o /\ o <= s + in
  BY <1>1
<1>2. PICK p \in Seq(S) : p = Patch(c, in, x)
  BY PatchType
<1>3. PICK g \in Seq(S) : g = Patch(f, o, x)
  BY PatchType
<1>4. Len(p) = Larger(Len(c), in + Len(x))
  BY <1>2, PatchType
<1>5. Len(g) = Larger(Len(f), o + Len(x))
  BY <1>3, PatchType
<1>6. Len(c) \in Nat /\ Len(x) \in Nat /\ Len(f) \in Nat /\ BlockSize \in Nat
  BY LenProperties, BlockSizeAssumption
<1>7. \A i \in Len(c) + 1 .. BlockSize : s + i > Len(f)
  BY <1>1 DEF Complete
<1>8. ASSUME NEW i \in Len(p) + 1 .. BlockSize PROVE s + i > Len(g)
  <2>1. i \in Len(c) + 1 .. BlockSize /\ i > in + Len(x)
    BY <1>4, <1>6 DEF Larger
  <2> QED
    BY <1>0, <1>5, <1>6, <1>7, <2>1 DEF Larger
<1>9. Complete(p, g, b)
  BY <1>1, <1>8 DEF Complete
<1> QED
  BY <1>1, <1>2, <1>3, <1>9

(* A write to another block leaves this one alone ...                      *)
LEMMA PatchCoversOther ==
  ASSUME NEW S, Zero \in S, NEW f \in Seq(S), NEW b \in Nat, NEW c \in Seq(S),
         NEW o \in Nat, NEW x \in Seq(S), getBlockID(o) # b,
         getInBlockOffset(o) + Len(x) <= BlockSize, Covers(c, f, b)
  PROVE  Covers(c, Patch(f, o, x), b)
<1>1. PICK s \in Nat : s = getBlockStartOffset(b)
  BY BlockStart
<1>2. PICK g \in Seq(S) : g = Patch(f, o, x)
  BY PatchType
<1>3. Len(g) = Larger(Len(f), o + Len(x))
  BY <1>2, PatchType
<1>4. /\ Len(c) \in Nat /\ Len(x) \in Nat /\ Len(f) \in Nat /\ BlockSize \in Nat
  BY LenProperties, BlockSizeAssumption
<1>5. /\ Len(c) <= BlockSize
      /\ \A i \in 1..Len(c) : s + i <= Len(f) /\ c[i] = f[s + i]
      /\ \A i \in Len(c) + 1 .. BlockSize : s + i <= Len(f) => f[s + i] = Zero
  BY <1>1 DEF Covers
<1>6. o + Len(x) <= s \/ s + BlockSize <= o
  BY <1>1, <1>4, OtherBlock
<1>7. ASSUME NEW i \in 1..BlockSize
      PROVE  /\ s + i <= Len(f) => s + i <= Len(g) /\ g[s + i] = f[s + i]
             /\ s + i <= Len(g) => s + i <= Len(f) \/ g[s + i] = Zero
  <2>1. PICK t \in Nat : t = s + i /\ t >= 1
    BY <1>4
  <2>2. t \notin o + 1 .. o + Len(x)
    BY <1>4, <1>6, <2>1
  <2>3. t <= Len(g) => t \in 1..Len(g)
    BY <2>1, <1>3, <1>4 DEF Larger
  <2>4. t <= Len(g) => g[t] = IF t <= Len(f) THEN f[t] ELSE Zero
    BY <1>2, <2>2, <2>3, PatchAt
  <2>5. t <= Len(f) => t <= Len(g)
    BY <2>1, <1>3, <1>4 DEF Larger
  <2> QED
    BY <2>1, <2>4, <2>5
<1>8. \A i \in 1..Len(c) : s + i <= Len(g) /\ c[i] = g[s + i]
  <2> TAKE i \in 1..Len(c)
  <2>1. i \in 1..BlockSize
    BY <1>4, <1>5
  <2> QED
    BY <2>1, <1>5, <1>7
<1>9. \A i \in Len(c) + 1 .. BlockSize : s + i <= Len(g) => g[s + i] = Zero
  <2> TAKE i \in Len(c) + 1 .. BlockSize
  <2>1. i \in 1..BlockSize
    BY <1>4
  <2> QED
    BY <2>1, <1>5, <1>7
<1> QED
  BY <1>1, <1>2, <1>5, <1>8, <1>9 DEF Covers

(* ... and does not end it early, unless it leaves a hole.                 *)
LEMMA PatchCompleteOther ==
  ASSUME NEW S, Zero \in S, NEW f \in Seq(S), NEW b \in Nat, NEW c \in Seq(S),
         NEW o \in Nat, NEW x \in Seq(S), getBlockID(o) # b, o <= Len(f),
         getInBlockOffset(o) + Len(x) <= BlockSize, Complete(c, f, b)
  PROVE  Complete(c, Patch(f, o, x), b)
<1>1. PICK s \in Nat : s = getBlockStartOffset(b)
  BY BlockStart
<1>2. PICK g \in Seq(S) : g = Patch(f, o, x)
  BY PatchType
<1>3. Len(g) = Larger(Len(f), o + Len(x))
  BY <1>2, PatchType
<1>4. /\ Len(c) \in Nat /\ Len(x) \in Nat /\ Len(f) \in Nat /\ BlockSize \in Nat
  BY LenProperties, BlockSizeAssumption
<1>5. \A i \in Len(c) + 1 .. BlockSize : s + i > Len(f)
  BY <1>1 DEF Complete
<1>6. o + Len(x) <= s \/ s + BlockSize <= o
  BY <1>1, <1>4, OtherBlock
<1>7. \A i \in Len(c) + 1 .. BlockSize : s + i > Len(g)
  <2> TAKE i \in Len(c) + 1 .. BlockSize
  <2>1. s + i > Len(f) /\ i \in Nat /\ i >= 1 /\ i <= BlockSize
    BY <1>4, <1>5
  <2> QED
    BY <1>3, <1>4, <1>6, <2>1 DEF Larger
<1> QED
  BY <1>1, <1>2, <1>7 DEF Complete

-----------------------------------------------------------------------------
(* The end of _readBlock: what it returns is the cached bytes with the     *)
(* delta of the block written to them.                                     *)

LEMMA PatchPadded ==
  ASSUME NEW S, Zero \in S, NEW c \in Seq(S), NEW at \in Nat, NEW x \in Seq(S),
         NEW w \in Seq(S), Len(c) <= Len(w), at <= Len(w),
         Len(w) <= Len(c) \/ Len(w) <= at,
         \A i \in 1..Len(w) : w[i] = IF i <= Len(c) THEN c[i] ELSE Zero
  PROVE  Patch(w, at, x) = Patch(c, at, x)
<1>1. PICK l \in Seq(S) : l = Patch(w, at, x)
  BY PatchType
<1>2. PICK r \in Seq(S) : r = Patch(c, at, x)
  BY PatchType
<1>3. Len(l) = Larger(Len(w), at + Len(x))
  BY <1>1, PatchType
<1>4. Len(r) = Larger(Len(c), at + Len(x))
  BY <1>2, PatchType
<1>5. /\ Len(c) \in Nat /\ Len(x) \in Nat /\ Len(w) \in Nat
      /\ Len(l) \in Nat /\ Len(r) \in Nat
  BY LenProperties
<1>6. Len(l) = Len(r)
  BY <1>3, <1>4, <1>5 DEF Larger
<1>7. ASSUME NEW i \in 1..Len(l) PROVE l[i] = r[i]
  <2>1. i \in Nat /\ i >= 1
    BY <1>5
  <2>2. l[i] = IF i \in at + 1 .. at + Len(x) THEN x[i - at]
               ELSE IF i <= Len(w) THEN w[i] ELSE Zero
    BY <1>1, PatchAt
  <2>3. r[i] = IF i \in at + 1 .. at + Len(x) THEN x[i - at]
               ELSE IF i <= Len(c) THEN c[i] ELSE Zero
    BY <1>2, <1>6, PatchAt
  <2>4. i <= Len(w) => i \in 1..Len(w)
    BY <1>5, <2>1
  <2>5. i <= Len(c) => i <= Len(w)
    BY <1>5, <2>1
  <2> QED
    BY <2>2, <2>3, <2>4, <2>5
<1>8. l = r
  BY <1>6, <1>7, SeqEqual
<1> QED
  BY <1>1, <1>2, <1>8

(* The bytes of the buffer that show in a gap must be zero.                *)
LEMMA OverlayIs ==
  ASSUME NEW S, Zero \in S, NEW buf, NEW c \in Seq(S), NEW b \in Nat,
         NEW o \in Nat, NEW x \in Seq(S), x # <<>>, getBlockID(o) = b,
         \A i \in Len(c) + 1 .. getInBlockOffset(o) : buf[i] = Zero
  PROVE  Overlay(buf, c, b, MakeDelta(o, x)) = Patch(c, getInBlockOffset(o), x)
<1>1. PICK at \in Nat : at = getInBlockOffset(o)
  BY BlockSplit
<1>2. at = o - getBlockStartOffset(b)
  BY <1>1 DEF getInBlockOffset
<1>3. PICK pad : pad = SubSeq(buf, Len(c) + 1, at)
  OBVIOUS
<1>4. Len(c) \in Nat /\ Len(c) + 1 \in Nat
  BY LenProperties
<1>5. /\ pad \in Seq(S)
      /\ Len(pad) = IF Len(c) + 1 <= at THEN at - (Len(c) + 1) + 1 ELSE 0
      /\ \A i \in 1 .. at - (Len(c) + 1) + 1 : pad[i] = buf[Len(c) + 1 + i - 1]
  <2>1. \A i \in Len(c) + 1 .. at : buf[i] \in S
    BY <1>1
  <2> QED
    BY <1>3, <1>4, <2>1, SubSeqProperties
<1>6. PICK w \in Seq(S) : w = c \o pad
  BY <1>5, ConcatProperties
<1>7. Len(w) = Len(c) + Len(pad) /\ Len(pad) \in Nat
  BY <1>5, <1>6, ConcatProperties, LenProperties
<1>8. /\ Len(c) <= Len(w) /\ at <= Len(w)
      /\ Len(w) <= Len(c) \/ Len(w) <= at
  BY <1>4, <1>5, <1>7
<1>9. ASSUME NEW i \in 1..Len(w)
      PROVE  w[i] = IF i <= Len(c) THEN c[i] ELSE Zero
  <2>1. i \in Nat /\ i >= 1
    BY <1>4, <1>7
  <2>2. w[i] = IF i <= Len(c) THEN c[i] ELSE pad[i - Len(c)]
    BY <1>5, <1>6, <1>7, ConcatProperties
  <2>3. CASE i <= Len(c)
    BY <2>2, <2>3
  <2>4. CASE ~(i <= Len(c))
    <3>0. i - Len(c) \in Nat
      BY <1>4, <2>1, <2>4
    <3>1. PICK j \in Nat : j = i - Len(c)
      BY <3>0
    <3>2. /\ j \in 1 .. at - (Len(c) + 1) + 1
          /\ Len(c) + 1 + j - 1 = i /\ i \in Len(c) + 1 .. at
      BY <1>4, <1>5, <1>7, <2>1, <2>4, <3>1
    <3>3. pad[j] = buf[i]
      BY <1>5, <3>2
    <3>4. buf[i] = Zero
      BY <1>1, <3>2
    <3> QED
      BY <2>2, <2>4, <3>1, <3>3, <3>4
  <2> QED
    BY <2>3, <2>4
<1>10. Patch(w, at, x) = Patch(c, at, x)
  BY <1>8, <1>9, PatchPadded
<1>11. HasDelta(MakeDelta(o, x)) /\ getBlockID(MakeDelta(o, x).off) = b
  BY DeltaFields
<1>12. Overlay(buf, c, b, MakeDelta(o, x)) = Patch(w, at, x)
  BY <1>2, <1>3, <1>6, <1>11, DeltaFields DEF Overlay
<1> QED
  BY <1>1, <1>10, <1>12

LEMMA ZeroBlockIs ==
  /\ Len(ZeroBlock) = BlockSize
  /\ \A i \in 1..BlockSize : ZeroBlock[i] = Zero
  /\ \A S : Zero \in S => ZeroBlock \in Seq(S)
<1>1. \A S : Zero \in S => ZeroBlock \in [1..BlockSize -> S]
  BY DEF ZeroBlock
<1>2. \A S : Zero \in S => ZeroBlock \in Seq(S) /\ Len(ZeroBlock) = BlockSize
  BY <1>1, FunctionIsSeq, BlockSizeAssumption
<1>3. Zero \in {Zero}
  OBVIOUS
<1>4. \A i \in 1..BlockSize : ZeroBlock[i] = Zero
  BY DEF ZeroBlock
<1> QED
  BY <1>2, <1>3, <1>4

-----------------------------------------------------------------------------
(* The same for a delta as it is in g_DeltaMap.                            *)

Deltas(S) == [off : Nat, data : Seq(S)]
InOneBlock(d) == getInBlockOffset(d.off) + Len(d.data) <= BlockSize

LEMMA DeltaIs ==
  ASSUME NEW S, NEW d \in Deltas(S)
  PROVE  \E o \in Nat, x \in Seq(S) :
            /\ d = MakeDelta(o, x) /\ d.off = o /\ d.data = x
            /\ DeltaEnd(d) = o + Len(x)
            /\ HasDelta(d) <=> x # <<>>
            /\ InOneBlock(d) <=> getInBlockOffset(o) + Len(x) <= BlockSize
<1>1. d = MakeDelta(d.off, d.data) /\ d.off \in Nat /\ d.data \in Seq(S)
  BY DEF MakeDelta, Deltas
<1> QED
  BY <1>1 DEF DeltaEnd, HasDelta, InOneBlock

LEMMA PatchWithType ==
  ASSUME NEW S, Zero \in S, NEW f \in Seq(S), NEW d \in Deltas(S)
  PROVE  /\ PatchWith(f, d) \in Seq(S)
         /\ Len(PatchWith(f, d)) =
               IF HasDelta(d) THEN Larger(Len(f), DeltaEnd(d)) ELSE Len(f)
<1>1. PICK o \in Nat, x \in Seq(S) : d.off = o /\ d.data = x /\ DeltaEnd(d) = o + Len(x)
  BY DeltaIs
<1>2. Patch(f, o, x) \in Seq(S) /\ Len(Patch(f, o, x)) = Larger(Len(f), o + Len(x))
  BY PatchType
<1> QED
  BY <1>1, <1>2 DEF PatchWith

(* A block with bytes written to it stays a block, and does not grow       *)
(* beyond the end of the file they are written to.                         *)
LEMMA PatchFits ==
  ASSUME NEW S, Zero \in S, NEW c \in Seq(S), Len(c) <= BlockSize,
         NEW o \in Nat, NEW x \in Seq(S), getInBlockOffset(o) + Len(x) <= BlockSize
  PROVE  /\ Patch(c, getInBlockOffset(o), x) \in Seq(S)
         /\ Len(Patch(c, getInBlockOffset(o), x)) <= BlockSize
         /\ Len(Patch(c, getInBlockOffset(o), x)) <= Larger(Len(c), o + Len(x))
<1>1. PICK b \in Nat, s \in Nat, in \in Nat :
         in = getInBlockOffset(o) /\ s + in <= o /\ o <= s + in
  BY BlockSplit
<1>2. PICK p \in Seq(S) : p = Patch(c, in, x)
  BY PatchType
<1>3. Len(p) = Larger(Len(c), in + Len(x))
  BY <1>2, PatchType
<1>4. Len(c) \in Nat /\ Len(x) \in Nat /\ BlockSize \in Nat
  BY LenProperties, BlockSizeAssumption
<1>5. in + Len(x) <= BlockSize /\ s + in <= o
  BY <1>1
<1>6. Len(p) <= BlockSize /\ Len(p) <= Larger(Len(c), o + Len(x))
  BY <1>3, <1>4, <1>5 DEF Larger
<1> QED
  BY <1>1, <1>2, <1>6

LEMMA ApplyType ==
  ASSUME NEW S, Zero \in S, NEW c \in [id : Nat, data : Seq(S), held : BOOLEAN],
         Len(c.data) <= BlockSize, NEW d \in Deltas(S), InOneBlock(d)
  PROVE  /\ ApplyTo(c, d) \in [id : Nat, data : Seq(S), held : BOOLEAN]
         /\ ApplyTo(c, d).id = c.id /\ ApplyTo(c, d).held = c.held
         /\ Len(ApplyTo(c, d).data) <= BlockSize
         /\ Len(ApplyTo(c, d).data) <= Larger(Len(c.data), DeltaEnd(d))
<1>1. PICK o \in Nat, x \in Seq(S) :
         /\ d.off = o /\ d.data = x /\ DeltaEnd(d) = o + Len(x)
         /\ getInBlockOffset(o) + Len(x) <= BlockSize
  BY DeltaIs
<1>2. PICK y \in Seq(S) : y = c.data /\ Len(y) <= BlockSize
  OBVIOUS
<1>3. Len(y) \in Nat /\ Len(x) \in Nat /\ Len(y) <= Larger(Len(y), o + Len(x))
  BY LenProperties DEF Larger
<1>4. CASE IsSameBlock(getBlockStartOffset(c.id), o)
  <2>1. ApplyTo(c, d) = [c EXCEPT !.data = Patch(y, getInBlockOffset(o), x)]
    BY <1>1, <1>2, <1>4 DEF ApplyTo
  <2>2. /\ Patch(y, getInBlockOffset(o), x) \in Seq(S)
        /\ Len(Patch(y, getInBlockOffset(o), x)) <= BlockSize
        /\ Len(Patch(y, getInBlockOffset(o), x)) <= Larger(Len(y), o + Len(x))
    BY <1>1, <1>2, PatchFits
  <2> QED
    BY <1>1, <1>2, <2>1, <2>2
<1>5. CASE ~IsSameBlock(getBlockStartOffset(c.id), o)
  <2>1. ApplyTo(c, d) = c
    BY <1>1, <1>5 DEF ApplyTo
  <2> QED
    BY <1>1, <1>2, <1>3, <2>1
<1> QED
  BY <1>4, <1>5

(* _applyDeltaToCache keeps a cached block good for the file with the      *)
(* bytes of the delta, whichever block they are of.                        *)
LEMMA ApplyCovers ==
  ASSUME NEW S, Zero \in S, NEW f \in Seq(S),
         NEW c \in [id : Nat, data : Seq(S), held : BOOLEAN],
         NEW d \in Deltas(S), InOneBlock(d), Covers(c.data, f, c.id)
  PROVE  Covers(ApplyTo(c, d).data, Patch(f, d.off, d.data), c.id)
<1>1. PICK o \in Nat, x \in Seq(S) :
         /\ d.off = o /\ d.data = x
         /\ getInBlockOffset(o) + Len(x) <= BlockSize
  BY DeltaIs
<1>2. PICK y \in Seq(S), b \in Nat : y = c.data /\ b = c.id
  OBVIOUS
<1>3. IsSameBlock(getBlockStartOffset(b), o) <=> getBlockID(o) = b
  BY BlockStart DEF IsSameBlock
<1>4. CASE getBlockID(o) = b
  <2>1. Covers(Patch(y, getInBlockOffset(o), x), Patch(f, o, x), b)
    BY <1>1, <1>2, <1>4, PatchCovers
  <2>2. ApplyTo(c, d).data = Patch(y, getInBlockOffset(o), x)
    BY <1>1, <1>2, <1>3, <1>4 DEF ApplyTo
  <2> QED
    BY <1>1, <1>2, <2>1, <2>2
<1>5. CASE getBlockID(o) # b
  <2>1. Covers(y, Patch(f, o, x), b)
    BY <1>1, <1>2, <1>5, PatchCoversOther
  <2>2. ApplyTo(c, d).data = y
    BY <1>1, <1>2, <1>3, <1>5 DEF ApplyTo
  <2> QED
    BY <1>1, <1>2, <2>1, <2>2
<1> QED
  BY <1>4, <1>5

LEMMA ApplyComplete ==
  ASSUME NEW S, Zero \in S, NEW f \in Seq(S),
         NEW c \in [id : Nat, data : Seq(S), held : BOOLEAN],
         NEW d \in Deltas(S), InOneBlock(d), HasDelta(d), d.off <= Len(f),
         Complete(c.data, f, c.id)
  PROVE  Complete(ApplyTo(c, d).data, Patch(f, d.off, d.data), c.id)
<1>1. PICK o \in Nat, x \in Seq(S) :
         /\ d.off = o /\ d.data = x /\ x # <<>> /\ o <= Len(f)
         /\ getInBlockOffset(o) + Len(x) <= BlockSize
  BY DeltaIs
<1>2. PICK y \in Seq(S), b \in Nat : y = c.data /\ b = c.id
  OBVIOUS
<1>3. IsSameBlock(getBlockStartOffset(b), o) <=> getBlockID(o) = b
  BY BlockStart DEF IsSameBlock
<1>4. CASE getBlockID(o) = b
  <2>1. Complete(Patch(y, getInBlockOffset(o), x), Patch(f, o, x), b)
    BY <1>1, <1>2, <1>4, PatchComplete
  <2>2. ApplyTo(c, d).data = Patch(y, getInBlockOffset(o), x)
    BY <1>1, <1>2, <1>3, <1>4 DEF ApplyTo
  <2> QED
    BY <1>1, <1>2, <2>1, <2>2
<1>5. CASE getBlockID(o) # b
  <2>1. Complete(y, Patch(f, o, x), b)
    BY <1>1, <1>2, <1>5, PatchCompleteOther
  <2>2. ApplyTo(c, d).data = y
    BY <1>1, <1>2, <1>3, <1>5 DEF ApplyTo
  <2> QED
    BY <1>1, <1>2, <2>1, <2>2
<1> QED
  BY <1>4, <1>5

(* What _readBlock returns of a block that covers the file at the server:  *)
(* one that covers the file with the delta.                                *)
LEMMA OverlayWith ==
  ASSUME NEW S, Zero \in S, NEW c \in Seq(S), NEW b \in Nat, NEW d \in Deltas(S)
  PROVE  Overlay(ZeroBlock, c, b, d) =
            IF HasDelta(d) /\ getBlockID(d.off) = b
            THEN Patch(c, getInBlockOffset(d.off), d.data) ELSE c
<1>1. PICK o \in Nat, x \in Seq(S) :
         d = MakeDelta(o, x) /\ d.off = o /\ d.data = x /\ (HasDelta(d) <=> x # <<>>)
  BY DeltaIs
<1>2. CASE HasDelta(d) /\ getBlockID(d.off) = b
  <2>1. getInBlockOffset(o) \in 0..BlockSize - 1 /\ Len(c) \in Nat
    BY BlockArithmetic, LenProperties
  <2>2. \A i \in Len(c) + 1 .. getInBlockOffset(o) : i \in 1..BlockSize
    BY <2>1, BlockSizeAssumption
  <2>3. \A i \in Len(c) + 1 .. getInBlockOffset(o) : ZeroBlock[i] = Zero
    BY <2>2, ZeroBlockIs
  <2>4. x # <<>> /\ getBlockID(o) = b
    BY <1>1, <1>2
  <2>5. Overlay(ZeroBlock, c, b, MakeDelta(o, x)) = Patch(c, getInBlockOffset(o), x)
    BY <2>3, <2>4, OverlayIs
  <2> QED
    BY <1>1, <1>2, <2>5
<1>3. CASE ~(HasDelta(d) /\ getBlockID(d.off) = b)
  BY <1>3 DEF Overlay
<1> QED
  BY <1>2, <1>3

LEMMA OverlayCovers ==
  ASSUME NEW S, Zero \in S, NEW f \in Seq(S), NEW c \in Seq(S), NEW b \in Nat,
         NEW d \in Deltas(S), InOneBlock(d), Covers(c, f, b)
  PROVE  Covers(Overlay(ZeroBlock, c, b, d), PatchWith(f, d), b)
<1>1. PICK o \in Nat, x \in Seq(S) :
         /\ d.off = o /\ d.data = x
         /\ getInBlockOffset(o) + Len(x) <= BlockSize
  BY DeltaIs
<1>2. Overlay(ZeroBlock, c, b, d) = IF HasDelta(d) /\ getBlockID(o) = b
                                    THEN Patch(c, getInBlockOffset(o), x) ELSE c
  BY <1>1, OverlayWith
<1>3. PatchWith(f, d) = IF HasDelta(d) THEN Patch(f, o, x) ELSE f
  BY <1>1 DEF PatchWith
<1>4. CASE ~HasDelta(d)
  BY <1>2, <1>3, <1>4
<1>5. CASE HasDelta(d) /\ getBlockID(o) = b
  <2>1. Covers(Patch(c, getInBlockOffset(o), x), Patch(f, o, x), b)
    BY <1>1, <1>5, PatchCovers
  <2> QED
    BY <1>2, <1>3, <1>5, <2>1
<1>6. CASE HasDelta(d) /\ getBlockID(o) # b
  <2>1. Covers(c, Patch(f, o, x), b)
    BY <1>1, <1>6, PatchCoversOther
  <2> QED
    BY <1>2, <1>3, <1>6, <2>1
<1> QED
  BY <1>4, <1>5, <1>6

LEMMA OverlayComplete ==
  ASSUME NEW S, Zero \in S, NEW f \in Seq(S), NEW c \in Seq(S), NEW b \in Nat,
         NEW d \in Deltas(S), InOneBlock(d), HasDelta(d) => d.off <= Len(f),
         Complete(c, f, b)
  PROVE  Complete(Overlay(ZeroBlock, c, b, d), PatchWith(f, d), b)
<1>1. PICK o \in Nat, x \in Seq(S) :
         /\ d.off = o /\ d.data = x /\ (HasDelta(d) <=> x # <<>>)
         /\ HasDelta(d) => o <= Len(f)
         /\ getInBlockOffset(o) + Len(x) <= BlockSize
  BY DeltaIs
<1>2. Overlay(ZeroBlock, c, b, d) = IF HasDelta(d) /\ getBlockID(o) = b
                                    THEN Patch(c, getInBlockOffset(o), x) ELSE c
  BY <1>1, OverlayWith
<1>3. PatchWith(f, d) = IF HasDelta(d) THEN Patch(f, o, x) ELSE f
  BY <1>1 DEF PatchWith
<1>4. CASE ~HasDelta(d)
  BY <1>2, <1>3, <1>4
<1>5. CASE HasDelta(d) /\ getBlockID(o) = b
  <2>1. Complete(Patch(c, getInBlockOffset(o), x), Patch(f, o, x), b)
    BY <1>1, <1>5, PatchComplete
  <2> QED
    BY <1>2, <1>3, <1>5, <2>1
<1>6. CASE HasDelta(d) /\ getBlockID(o) # b
  <2>1. Complete(c, Patch(f, o, x), b)
    BY <1>1, <1>6, PatchCompleteOther
  <2> QED
    BY <1>2, <1>3, <1>6, <2>1
<1> QED
  BY <1>4, <1>5, <1>6

LEMMA OverlayType ==
  ASSUME NEW S, Zero \in S, NEW c \in Seq(S), Len(c) <= BlockSize, NEW b \in Nat,
         NEW d \in Deltas(S), InOneBlock(d)
  PROVE  /\ Overlay(ZeroBlock, c, b, d) \in Seq(S)
         /\ Len(Overlay(ZeroBlock, c, b, d)) <= BlockSize
         /\ Len(Overlay(ZeroBlock, c, b, d)) <= Larger(Len(c), DeltaEnd(d))
<1>1. PICK o \in Nat, x \in Seq(S) :
         /\ d.off = o /\ d.data = x /\ DeltaEnd(d) = o + Len(x)
         /\ getInBlockOffset(o) + Len(x) <= BlockSize
  BY DeltaIs
<1>2. Overlay(ZeroBlock, c, b, d) = IF HasDelta(d) /\ getBlockID(o) = b
                                    THEN Patch(c, getInBlockOffset(o), x) ELSE c
  BY <1>1, OverlayWith
<1>3. Len(c) \in Nat /\ Len(x) \in Nat /\ Len(c) <= Larger(Len(c), o + Len(x))
  BY LenProperties DEF Larger
<1>4. /\ Patch(c, getInBlockOffset(o), x) \in Seq(S)
      /\ Len(Patch(c, getInBlockOffset(o), x)) <= BlockSize
      /\ Len(Patch(c, getInBlockOffset(o), x)) <= Larger(Len(c), o + Len(x))
  BY <1>1, PatchFits
<1> QED
  BY <1>1, <1>2, <1>3, <1>4

(* What _writeBlock makes of a delta that the new bytes overlap or touch:  *)
(* a delta of the same block,                                              *)
LEMMA ExpandType ==
  ASSUME NEW S, Zero \in S, NEW d \in Deltas(S), HasDelta(d), InOneBlock(d),
         NEW off \in Nat, NEW data \in Seq(S), data # <<>>,
         getInBlockOffset(off) + Len(data) <= BlockSize, Intersects(d, off, data)
  PROVE  /\ Expand(d, off, data) \in Deltas(S)
         /\ HasDelta(Expand(d, off, data))
         /\ InOneBlock(Expand(d, off, data))
         /\ Expand(d, off, data).off <= d.off
         /\ DeltaEnd(Expand(d, off, data)) <= Larger(DeltaEnd(d), off + Len(data))
         /\ off + Len(data) <= DeltaEnd(Expand(d, off, data))
<1>1. PICK o \in Nat, x \in Seq(S) :
         /\ d = MakeDelta(o, x) /\ d.off = o /\ d.data = x /\ DeltaEnd(d) = o + Len(x)
         /\ x # <<>> /\ getInBlockOffset(o) + Len(x) <= BlockSize
  BY DeltaIs
<1>2. /\ getBlockID(o) = getBlockID(off)
      /\ o + Len(x) >= off /\ o <= off + Len(data)
  BY <1>1 DEF Intersects, IsSameBlock
<1>3. x # <<>> /\ o + Len(x) >= off /\ o <= off + Len(data)
  BY <1>1, <1>2
<1>4. PICK e \in Nat, z \in Seq(S) :
         /\ Expand(MakeDelta(o, x), off, data) = MakeDelta(e, z)
         /\ z # <<>> /\ Joined(o, x, off, data, e, z)
  BY <1>3, ExpandIs
<1>5. /\ e <= off /\ e <= o /\ (e = off \/ e = o)
      /\ o + Len(x) <= e + Len(z) /\ off + Len(data) <= e + Len(z)
      /\ e + Len(z) = o + Len(x) \/ e + Len(z) = off + Len(data)
  BY <1>4 DEF Joined
<1>6. Len(x) \in Nat /\ Len(data) \in Nat /\ Len(z) \in Nat /\ BlockSize \in Nat
  BY LenProperties, BlockSizeAssumption
<1>7. getInBlockOffset(e) + Len(z) <= BlockSize
  <2>1. getBlockID(e) = getBlockID(off)
    BY <1>2, <1>5
  <2>2. PICK s \in Nat : s = getBlockStartOffset(getBlockID(off))
    BY BlockSplit
  <2>3. /\ getInBlockOffset(e) = e - s /\ getInBlockOffset(o) = o - s
        /\ getInBlockOffset(off) = off - s
    BY <1>2, <2>1, <2>2 DEF getInBlockOffset
  <2>4. o - s + Len(x) <= BlockSize /\ off - s + Len(data) <= BlockSize
    BY <1>1, <2>3
  <2>5. e - s + Len(z) <= BlockSize
    BY <1>5, <1>6, <2>4
  <2> QED
    BY <2>3, <2>5
<1>8. e + Len(z) <= Larger(o + Len(x), off + Len(data))
  BY <1>5, <1>6 DEF Larger
<1>9. Expand(d, off, data) = MakeDelta(e, z)
  BY <1>1, <1>4
<1>10. MakeDelta(e, z) \in Deltas(S) /\ MakeDelta(e, z).off = e /\ MakeDelta(e, z).data = z
  BY DEF MakeDelta, Deltas
<1>11. HasDelta(MakeDelta(e, z)) /\ DeltaEnd(MakeDelta(e, z)) = e + Len(z)
  BY <1>4, DeltaFields
<1>12. InOneBlock(MakeDelta(e, z))
  BY <1>7, <1>10 DEF InOneBlock
<1> QED
  BY <1>1, <1>5, <1>8, <1>9, <1>10, <1>11, <1>12

(* ... which stands for both in turn, and hides the old one.               *)
LEMMA ExpandWrites ==
  ASSUME NEW S, Zero \in S, NEW f \in Seq(S), NEW d \in Deltas(S), HasDelta(d),
         NEW off \in Nat, NEW data \in Seq(S), data # <<>>, Intersects(d, off, data)
  PROVE  /\ PatchWith(f, Expand(d, off, data)) = Patch(PatchWith(f, d), off, data)
         /\ PatchWith(PatchWith(f, d), Expand(d, off, data))
               = PatchWith(f, Expand(d, off, data))
<1>1. PICK o \in Nat, x \in Seq(S) :
         /\ d = MakeDelta(o, x) /\ d.off = o /\ d.data = x /\ DeltaEnd(d) = o + Len(x)
         /\ x # <<>>
  BY DeltaIs
<1>2. x # <<>> /\ o + Len(x) >= off /\ o <= off + Len(data)
  BY <1>1 DEF Intersects
<1>3. PICK e \in Nat, z \in Seq(S) :
         /\ Expand(MakeDelta(o, x), off, data) = MakeDelta(e, z)
         /\ z # <<>> /\ Joined(o, x, off, data, e, z)
  BY <1>2, ExpandIs
<1>4. e <= o /\ o + Len(x) <= e + Len(z)
  BY <1>3 DEF Joined
<1>5. Patch(f, e, z) = Patch(Patch(f, o, x), off, data)
  BY <1>2, <1>3, PatchJoined
<1>6. Patch(Patch(f, o, x), e, z) = Patch(f, e, z)
  BY <1>4, PatchHides
<1>7. \A g : PatchWith(g, MakeDelta(e, z)) = Patch(g, e, z)
  BY <1>3, DeltaFields DEF PatchWith
<1>8. PatchWith(f, d) = Patch(f, o, x)
  BY <1>1 DEF PatchWith
<1>9. Expand(d, off, data) = MakeDelta(e, z)
  BY <1>1, <1>3
<1> QED
  BY <1>5, <1>6, <1>7, <1>8, <1>9

-----------------------------------------------------------------------------
(* What was written can be read back.                                      *)
LEMMA PatchSlice ==
  ASSUME NEW S, Zero \in S, NEW f \in Seq(S), NEW o \in Nat, NEW x \in Seq(S),
         NEW n \in Nat, n <= Len(x), Len(x) <= n
  PROVE  Slice(Patch(f, o, x), o, n) = x
<1>1. PICK g \in Seq(S) : g = Patch(f, o, x)
  BY PatchType
<1>2. PICK y \in Seq(S) : y = Slice(g, o, n)
  BY SliceType
<1>3. Len(g) = Larger(Len(f), o + Len(x))
  BY <1>1, PatchType
<1>4. Len(y) = IF o < Len(g) THEN Smaller(n, Len(g) - o) ELSE 0
  BY <1>2, SliceType
<1>5. Len(x) \in Nat /\ Len(f) \in Nat
  BY LenProperties
<1>6. Len(y) = Len(x)
  BY <1>3, <1>4, <1>5 DEF Larger, Smaller
<1>7. ASSUME NEW i \in 1..Len(y) PROVE y[i] = x[i]
  <2>1. i \in Nat /\ i >= 1 /\ i <= Len(x)
    BY <1>5, <1>6
  <2>2. PICK t \in Nat : t = o + i
    BY <2>1
  <2>3. t \in 1..Len(g) /\ t \in o + 1 .. o + Len(x)
    BY <1>3, <1>5, <2>1, <2>2 DEF Larger
  <2>4. y[i] = g[o + i]
    BY <1>2, SliceAt
  <2>5. g[t] = x[t - o]
    BY <1>1, <2>3, PatchAt
  <2>6. t - o = i
    BY <2>1, <2>2
  <2> QED
    BY <2>2, <2>4, <2>5, <2>6
<1>8. y = x
  BY <1>6, <1>7, SeqEqual
<1> QED
  BY <1>1, <1>2, <1>8

(* A block that begins at the end of the file, or behind it, is empty.     *)
LEMMA BlockBehind ==
  ASSUME NEW S, NEW f \in Seq(S), NEW b \in Nat, b > getBlockID(Len(f))
  PROVE  BlockOf(f, b) = <<>>
<1>1. PICK g \in Seq(S) : g = BlockOf(f, b)
  BY BlockOfType
<1>2. Len(f) \in Nat
  BY LenProperties
<1>3. PICK c \in Nat, s \in Nat, in \in Nat :
         /\ c = getBlockID(Len(f)) /\ s = getBlockStartOffset(c)
         /\ s + in <= Len(f) /\ Len(f) <= s + in /\ in = getInBlockOffset(Len(f))
  BY <1>2, BlockSplit
<1>4. PICK t \in Nat : t = getBlockStartOffset(b)
  BY BlockStart
<1>5. s + BlockSize <= t
  BY <1>3, <1>4, BlocksApart
<1>6. in < BlockSize
  BY <1>2, <1>3, BlockArithmetic, BlockSizeAssumption
<1>7. Len(f) <= t
  BY <1>2, <1>3, <1>5, <1>6, BlockSizeAssumption
<1>8. Len(g) = IF t < Len(f) THEN Smaller(BlockSize, Len(f) - t) ELSE 0
  BY <1>1, <1>4, BlockOfType
<1>9. Len(g) = 0
  BY <1>2, <1>7, <1>8
<1> QED
  BY <1>1, <1>9, EmptySeq, NotEmpty
=============================================================================
