--------------------------- MODULE PreloadProofs ---------------------------
(***************************************************************************)
(* Reading ahead, proved for any number of requests, of blocks in a window *)
(* and of blocks in a file: no block and no open file is lost or freed     *)
(* twice, however requests overlap; with one request at a time every       *)
(* thread is joined once, a window is whole after each read, and only the  *)
(* end of the file is reported as one.                                     *)
(***************************************************************************)
EXTENDS Preload, FiniteSetTheorems, TLAPS

(* The places of a request that may have something on its recycle list,    *)
(* and those where it has a readSize.                                      *)
Handing == {"first", "take", "look", "wait", "fill"}
Reading == {"look", "wait", "fill"}

(* Requests only run on an open file, and nothing is left of a closed one. *)
Standing ==
    /\ file # "open" => \A r \in Reader : pc[r] = "idle"
    /\ file = "closed" => Allocated = {}
    /\ file # "crashed" => \A r \in Reader :
        /\ pc[r] \notin Handing => recycleList[r] = <<>>
        /\ pc[r] \notin Reading => readSize[r] = "none"
        /\ readSize[r] = "eof" => asked[r].block >= FileBlocks

(* A thread that has yet to open has no file.                              *)
Owned ==
    /\ FilesOwned
    /\ \A p \in PBlock : pblock[p].thread = "opening" => ~pblock[p].fd

(* A block that may give away its file is done with.                       *)
DoneWith(p) == Recyclable(p) /\ pblock[p].threadJoined
GivenAway == \A r \in Reader : \A p \in Recycled(r) : DoneWith(p)

(* Between the two looks at the list under the lock for writing.           *)
OldOnes ==
    \A r \in Reader : pc[r] = "old" =>
        /\ IsInjective(todo[r])
        /\ ToSet(todo[r]) = {p \in Listed : pblock[p].blockID \notin Window(asked[r].block)}
        /\ missing[r] = Missing(asked[r].block)

(* Who waits for a block has it in the list.                               *)
Waiting ==
    \A r \in Reader :
        /\ pc[r] \in {"look", "wait"} => \A p \in ToSet(todo[r]) :
              p \in Listed /\ pblock[p].blockID = asked[r].block
        /\ pc[r] = "wait" => todo[r] # <<>>

-----------------------------------------------------------------------------
(* One request at a time. *)

OneRequest == \A r, o \in Reader : pc[r] # "idle" /\ pc[o] # "idle" => r = o

BlockIDs == {pblock[p].blockID : p \in Listed}

Distinct ==
    /\ \A p, q \in Listed : pblock[p].blockID = pblock[q].blockID => p = q
    /\ Cardinality(Listed) <= g_preloadNumBlocks + 1

(* What is missing in the window of a request, before it is started.       *)
Filling(r) ==
    LET b == asked[r].block
    IN  /\ missing[r] \subseteq Window(b)
        /\ BlockIDs \subseteq Window(b) \ missing[r]
        /\ ~setting.noThread => Window(b) \ missing[r] \subseteq BlockIDs
        /\ Cardinality(Recycled(r)) <= Cardinality(missing[r])
        /\ pc[r] = "first" <=> b \in missing[r]

(* The block that is asked for is found.                                   *)
Found(r) ==
    /\ pc[r] \in {"look", "wait"} /\ readSize[r] = "none" => todo[r] # <<>>
    /\ pc[r] = "fill" => readSize[r] # "none"

Working(r) ==
    /\ pc[r] \in Handing => Filling(r)
    /\ ~setting.noThread => Found(r)
    /\ pc[r] = "wait" => ~pblock[Head(todo[r])].threadJoined

JoinsCounted ==
    \A p \in Allocated : joins[p] = IF pblock[p].threadJoined THEN 1 ELSE 0

Serially ==
    ~setting.overlap =>
        /\ OneRequest
        /\ Distinct
        /\ \A r \in Reader : Working(r)
        /\ JoinsCounted

IInv ==
    /\ TypeOK
    /\ Standing
    /\ Owned
    /\ BlocksReachable
    /\ GivenAway
    /\ OldOnes
    /\ Waiting
    /\ Serially
-----------------------------------------------------------------------------
(* What Kept does to a list: the rank of an element of a finite set of     *)
(* numbers runs through 1 .. Cardinality(I), so that no element is left    *)
(* out.                                                                    *)

LEMMA RankLess ==
  ASSUME NEW n \in Nat, NEW I \in SUBSET (1..n), NEW i \in I, NEW k \in I, i < k
  PROVE  Rank(i, I) < Rank(k, I)
<1> DEFINE A == {x \in I : x <= i}
           B == {x \in I : x <= k}
<1>0. IsFiniteSet(1..n)
  BY FS_Interval
<1>a. \A x \in I : x \in Nat
  OBVIOUS
<1>1. IsFiniteSet(B)
  <2>1. B \in SUBSET (1..n)
    OBVIOUS
  <2> QED
    BY <2>1, <1>0, FS_Subset
<1>2. A \in SUBSET B
  <2>1. \A x \in I : x <= i => x <= k
    BY <1>a
  <2> QED
    BY <2>1
<1>3. A # B
  <2>1. k \in B /\ k \notin A
    OBVIOUS
  <2> QED
    BY <2>1
<1>4. IsFiniteSet(A) /\ Cardinality(A) <= Cardinality(B) /\ Cardinality(A) # Cardinality(B)
  BY <1>1, <1>2, <1>3, FS_Subset
<1>5. Cardinality(A) \in Nat /\ Cardinality(B) \in Nat
  BY <1>1, <1>4, FS_CardinalityType
<1>6. Cardinality(A) < Cardinality(B)
  BY <1>4, <1>5
<1> QED
  BY <1>6 DEF Rank

LEMMA RankRange ==
  ASSUME NEW n \in Nat, NEW I \in SUBSET (1..n), NEW i \in I
  PROVE  Rank(i, I) \in 1..Cardinality(I)
<1> DEFINE A == {x \in I : x <= i}
<1>1. IsFiniteSet(I) /\ IsFiniteSet(A) /\ Cardinality(A) <= Cardinality(I)
  <2>1. IsFiniteSet(1..n)
    BY FS_Interval
  <2>2. IsFiniteSet(I)
    BY <2>1, FS_Subset
  <2>3. A \in SUBSET I
    OBVIOUS
  <2> QED
    BY <2>2, <2>3, FS_Subset
<1>2. Cardinality(I) \in Nat /\ Cardinality(A) \in Nat
  BY <1>1, FS_CardinalityType
<1>3. Cardinality(A) # 0
  <2>1. i \in A
    OBVIOUS
  <2> QED
    BY <2>1, <1>1, FS_EmptySet
<1>4. Cardinality(A) \in 1..Cardinality(I)
  BY <1>1, <1>2, <1>3
<1> QED
  BY <1>4 DEF Rank

LEMMA RankOnto ==
  ASSUME NEW n \in Nat, NEW I \in SUBSET (1..n)
  PROVE  /\ Cardinality(I) \in Nat
         /\ \A j \in 1..Cardinality(I) : \E i \in I : Rank(i, I) = j
<1> DEFINE c == Cardinality(I)
           R == [i \in I |-> Rank(i, I)]
<1>1. IsFiniteSet(I) /\ c \in Nat
  <2>1. IsFiniteSet(1..n)
    BY FS_Interval
  <2>2. IsFiniteSet(I)
    BY <2>1, FS_Subset
  <2> QED
    BY <2>2, FS_CardinalityType
<1>2. \A i \in I : Rank(i, I) \in 1..c
  BY RankRange
<1>3. R \in [I -> 1..c]
  BY <1>2
<1>4. \A i, k \in I : R[i] = R[k] => i = k
  <2> SUFFICES ASSUME NEW i \in I, NEW k \in I, i # k
               PROVE  Rank(i, I) # Rank(k, I)
    OBVIOUS
  <2>1. i < k \/ k < i
    OBVIOUS
  <2>2. Rank(i, I) < Rank(k, I) \/ Rank(k, I) < Rank(i, I)
    BY <2>1, RankLess
  <2> QED
    BY <2>2, <1>2, <1>1
<1>5. R \in Injection(I, 1..c)
  BY <1>3, <1>4 DEF Injection, IsInjective
<1>6. IsFiniteSet(1..c) /\ Cardinality(1..c) = c
  <2> HIDE DEF c
  <2>1. IsFiniteSet(1..c) /\ Cardinality(1..c) = IF 1 > c THEN 0 ELSE c - 1 + 1
    BY <1>1, FS_Interval
  <2> QED
    BY <2>1, <1>1
<1>7. R \in Surjection(I, 1..c)
  BY <1>5, <1>6, <1>1, FS_Injection
<1> QED
  BY <1>1, <1>7 DEF Surjection

(* Kept keeps what is in S, and nothing else.                              *)
LEMMA KeptIs ==
  ASSUME NEW T, NEW s \in Seq(T), NEW S
  PROVE  /\ Cardinality(Where(s, S)) \in Nat
         /\ DOMAIN Kept(s, S) = 1..Cardinality(Where(s, S))
         /\ \A j \in 1..Cardinality(Where(s, S)) : \E i \in Where(s, S) :
                Rank(i, Where(s, S)) = j /\ Kept(s, S)[j] = s[i]
         /\ \A i \in Where(s, S) : \E j \in 1..Cardinality(Where(s, S)) :
                Kept(s, S)[j] = s[i]
<1> DEFINE I == Where(s, S)
           nth(j) == CHOOSE i \in I : Rank(i, I) = j
<1>1. PICK n \in Nat : n = Len(s)
  OBVIOUS
<1>2. DOMAIN s = 1..n
  BY <1>1
<1>3. I \in SUBSET (1..n)
  BY <1>2 DEF Where
<1>4. Cardinality(I) \in Nat /\ \A j \in 1..Cardinality(I) : \E i \in I : Rank(i, I) = j
  <2> HIDE DEF I
  <2> QED
    BY <1>3, RankOnto
<1>5. Kept(s, S) = [j \in 1..Cardinality(I) |-> s[nth(j)]]
  BY DEF Kept
<1>6. \A j \in 1..Cardinality(I) : nth(j) \in I /\ Rank(nth(j), I) = j
  <2> HIDE DEF I
  <2> QED
    BY <1>4
<1>7. \A i \in I : Rank(i, I) \in 1..Cardinality(I)
  <2> HIDE DEF I
  <2> QED
    BY <1>3, RankRange
<1>8. \A i \in I : nth(Rank(i, I)) = i
  <2> HIDE DEF nth
  <2> SUFFICES ASSUME NEW i \in I PROVE nth(Rank(i, I)) = i
    OBVIOUS
  <2>1. nth(Rank(i, I)) \in I /\ Rank(nth(Rank(i, I)), I) = Rank(i, I)
    BY <1>6, <1>7
  <2>2. PICK k \in I : k = nth(Rank(i, I))
    BY <2>1
  <2>3. Rank(k, I) = Rank(i, I)
    BY <2>1, <2>2
  <2>4. ~(k < i) /\ ~(i < k)
    <3> HIDE DEF I
    <3>1. k < i => Rank(k, I) < Rank(i, I)
      BY <1>3, RankLess
    <3>2. i < k => Rank(i, I) < Rank(k, I)
      BY <1>3, RankLess
    <3> QED
      BY <3>1, <3>2, <2>3, <1>7, <1>4
  <2>5. k = i
    BY <2>4, <1>3
  <2> QED
    BY <2>5, <2>2
<1> HIDE DEF I, nth
<1>9. DOMAIN Kept(s, S) = 1..Cardinality(I)
  BY <1>5
<1>10. \A j \in 1..Cardinality(I) :
         \E i \in I : Rank(i, I) = j /\ Kept(s, S)[j] = s[i]
  BY <1>5, <1>6
<1>11. \A i \in I : \E j \in 1..Cardinality(I) : Kept(s, S)[j] = s[i]
  BY <1>5, <1>7, <1>8
<1> QED
  BY <1>4, <1>9, <1>10, <1>11 DEF I

LEMMA KeptType ==
  ASSUME NEW T, NEW s \in Seq(T), NEW S
  PROVE  Kept(s, S) \in Seq(T)
<1> DEFINE I == Where(s, S)
<1>1. /\ Cardinality(I) \in Nat /\ DOMAIN Kept(s, S) = 1..Cardinality(I)
      /\ \A j \in 1..Cardinality(I) : \E i \in I : Kept(s, S)[j] = s[i]
  BY KeptIs
<1>2. \A i \in I : s[i] \in T
  BY DEF Where
<1>3. Kept(s, S) = [j \in 1..Cardinality(I) |-> Kept(s, S)[j]]
  BY DEF Kept
<1> HIDE DEF I
<1>4. Kept(s, S) \in [1..Cardinality(I) -> T]
  BY <1>1, <1>2, <1>3
<1> QED
  BY <1>1, <1>4

LEMMA KeptSet ==
  ASSUME NEW T, NEW s \in Seq(T), NEW S
  PROVE  ToSet(Kept(s, S)) = ToSet(s) \cap S
<1> DEFINE I == Where(s, S)
<1>1. /\ DOMAIN Kept(s, S) = 1..Cardinality(I)
      /\ \A j \in 1..Cardinality(I) : \E i \in I : Kept(s, S)[j] = s[i]
      /\ \A i \in I : \E j \in 1..Cardinality(I) : Kept(s, S)[j] = s[i]
  BY KeptIs
<1>2. ToSet(s) \cap S = {s[i] : i \in I}
  BY DEF ToSet, Where
<1> HIDE DEF I
<1> QED
  BY <1>1, <1>2, SMTT(30) DEF ToSet

LEMMA KeptInjective ==
  ASSUME NEW T, NEW s \in Seq(T), NEW S, IsInjective(s)
  PROVE  IsInjective(Kept(s, S))
<1> DEFINE I == Where(s, S)
<1>1. /\ DOMAIN Kept(s, S) = 1..Cardinality(I)
      /\ \A j \in 1..Cardinality(I) :
            \E i \in I : Rank(i, I) = j /\ Kept(s, S)[j] = s[i]
  BY KeptIs
<1>2. \A i, k \in I : s[i] = s[k] => i = k
  BY DEF IsInjective, Where
<1> HIDE DEF I
<1> QED
  BY <1>1, <1>2 DEF IsInjective

(* A set of numbers that is bounded has a least one.                       *)
LEMMA LeastIn ==
  ASSUME NEW n \in Nat, NEW I \in SUBSET (0..n), I # {}
  PROVE  Min(I) \in I
<1> DEFINE J == {i + 1 : i \in I}
<1>0. \A i \in I : i \in 0..n
  OBVIOUS
<1>1. J \in SUBSET (1..(n + 1)) /\ n + 1 \in Nat /\ J # {}
  <2>1. \A j \in J : j \in 1..(n + 1)
    BY <1>0
  <2>2. J # {}
    OBVIOUS
  <2>3. n + 1 \in Nat
    OBVIOUS
  <2> HIDE DEF J
  <2> QED
    BY <2>1, <2>2, <2>3
<1>2. IsFiniteSet(J) /\ Cardinality(J) \in Nat /\ Cardinality(J) # 0
  <2> HIDE DEF J
  <2>1. IsFiniteSet(1..(n + 1))
    BY FS_Interval
  <2>2. IsFiniteSet(J)
    BY <1>1, <2>1, FS_Subset
  <2> QED
    BY <1>1, <2>2, FS_CardinalityType, FS_EmptySet
<1>3. \E j \in J : Rank(j, J) = 1
  <2> HIDE DEF J
  <2> QED
    BY <1>1, <1>2, RankOnto
<1>4. PICK i \in I : Rank(i + 1, J) = 1
  BY <1>3
<1>5. \A k \in I : i <= k
  <2> SUFFICES ASSUME NEW k \in I, ~(i <= k) PROVE FALSE
    OBVIOUS
  <2>1. k + 1 < i + 1 /\ k + 1 \in J /\ i + 1 \in J
    OBVIOUS
  <2> HIDE DEF J
  <2>2. Rank(k + 1, J) < Rank(i + 1, J)
    BY <1>1, <2>1, RankLess
  <2>3. Rank(k + 1, J) \in 1..Cardinality(J)
    BY <1>1, <2>1, RankRange
  <2> QED
    BY <2>2, <2>3, <1>4, <1>2
<1> QED
  BY <1>5 DEF Min

-----------------------------------------------------------------------------
(* Lists of blocks, as sets. *)

LEMMA BlocksFinite ==
  /\ IsFiniteSet(PBlock) /\ Cardinality(PBlock) \in Nat
  /\ \A S \in SUBSET PBlock : IsFiniteSet(S) /\ Cardinality(S) \in Nat
<1>1. IsFiniteSet(PBlock)
  BY FS_Interval, NumAssumption DEF PBlock
<1> QED
  BY <1>1, FS_Subset, FS_CardinalityType

LEMMA SetOf ==
  ASSUME NEW T, NEW s \in Seq(T)
  PROVE  /\ ToSet(s) \subseteq T
         /\ s = <<>> <=> ToSet(s) = {}
         /\ s # <<>> => Head(s) \in ToSet(s)
<1>1. ToSet(s) \subseteq T
  BY DEF ToSet
<1>2. s # <<>> => Head(s) \in ToSet(s)
  <2>1. s # <<>> => 1 \in DOMAIN s /\ Head(s) = s[1]
    OBVIOUS
  <2> QED
    BY <2>1 DEF ToSet
<1>3. s = <<>> => ToSet(s) = {}
  BY DEF ToSet
<1> QED
  BY <1>1, <1>2, <1>3

LEMMA SetOfEmpty == ToSet(<<>>) = {} /\ IsInjective(<<>>)
  BY DEF ToSet, IsInjective

LEMMA AppendSet ==
  ASSUME NEW T, NEW s \in Seq(T), NEW p \in T
  PROVE  ToSet(Append(s, p)) = ToSet(s) \cup {p}
<1>1. PICK n \in Nat : n = Len(s)
  OBVIOUS
<1>2. /\ DOMAIN Append(s, p) = 1..(n + 1)
      /\ \A i \in 1..n : Append(s, p)[i] = s[i]
      /\ Append(s, p)[n + 1] = p
      /\ DOMAIN s = 1..n
  BY <1>1
<1>3. \A i \in 1..(n + 1) : i \in 1..n \/ i = n + 1
  OBVIOUS
<1> QED
  BY <1>2, <1>3 DEF ToSet

LEMMA AppendKeeps ==
  ASSUME NEW T, NEW s \in Seq(T), NEW p \in T, IsInjective(s), p \notin ToSet(s)
  PROVE  IsInjective(Append(s, p))
<1>1. \A j \in DOMAIN s : s[j] # p
  BY DEF ToSet
<1>2. \A j \in DOMAIN Append(s, p) :
        \/ j \in DOMAIN s /\ Append(s, p)[j] = s[j]
        \/ j = Len(s) + 1 /\ Append(s, p)[j] = p
  OBVIOUS
<1>3. \A j, l \in DOMAIN s : s[j] = s[l] => j = l
  BY DEF IsInjective
<1>4. \A i, k \in DOMAIN Append(s, p) : Append(s, p)[i] = Append(s, p)[k] => i = k
  <2> SUFFICES ASSUME NEW i \in DOMAIN Append(s, p), NEW k \in DOMAIN Append(s, p),
                    Append(s, p)[i] = Append(s, p)[k]
             PROVE  i = k
    OBVIOUS
  <2>1. CASE i \in DOMAIN s /\ k \in DOMAIN s
    BY <2>1, <1>3, <1>2
  <2>2. CASE i = Len(s) + 1 /\ k = Len(s) + 1
    BY <2>2
  <2>3. CASE i = Len(s) + 1 /\ k \in DOMAIN s
    BY <2>3, <1>1, <1>2
  <2>4. CASE k = Len(s) + 1 /\ i \in DOMAIN s
    BY <2>4, <1>1, <1>2
  <2> QED
    BY <2>1, <2>2, <2>3, <2>4, <1>2
<1> QED
  BY <1>4 DEF IsInjective

(* What is left of a list without its front.                               *)
Rest(s) == SubSeq(s, 2, Len(s))

LEMMA RestIs ==
  ASSUME NEW T, NEW s \in Seq(T)
  PROVE  /\ Rest(s) \in Seq(T)
         /\ s = <<>> => Rest(s) = <<>>
         /\ s # <<>> => Rest(s) = Tail(s)
  BY DEF Rest

LEMMA TailIs ==
  ASSUME NEW T, NEW s \in Seq(T), s # <<>>, IsInjective(s)
  PROVE  /\ ToSet(Tail(s)) = ToSet(s) \ {Head(s)}
         /\ IsInjective(Tail(s))
<1>1. PICK n \in Nat : n = Len(s)
  OBVIOUS
<1>2. /\ n # 0 /\ DOMAIN s = 1..n /\ Head(s) = s[1]
      /\ DOMAIN Tail(s) = 1..(n - 1)
      /\ \A i \in 1..(n - 1) : Tail(s)[i] = s[i + 1]
  BY <1>1
<1>3. \A i \in 1..n : i = 1 \/ (i - 1 \in 1..(n - 1) /\ (i - 1) + 1 = i)
  OBVIOUS
<1>4. \A i \in 1..(n - 1) : i + 1 \in 1..n /\ i + 1 # 1
  OBVIOUS
<1>5. \A i \in 1..n : s[i] = s[1] => i = 1
  BY <1>2 DEF IsInjective
<1>6. \A i \in 1..(n - 1) : Tail(s)[i] \in ToSet(s) \ {s[1]}
  BY <1>2, <1>4, <1>5 DEF ToSet
<1>7. \A i \in 1..n : i # 1 => s[i] \in ToSet(Tail(s))
  <2> SUFFICES ASSUME NEW i \in 1..n, i # 1 PROVE s[i] \in ToSet(Tail(s))
    OBVIOUS
  <2>1. PICK k \in 1..(n - 1) : k + 1 = i
    OBVIOUS
  <2>2. Tail(s)[k] = s[i]
    BY <1>2, <2>1
  <2> QED
    BY <1>2, <2>2 DEF ToSet
<1>8. ToSet(Tail(s)) = ToSet(s) \ {s[1]}
  BY <1>2, <1>6, <1>7 DEF ToSet
<1>9. IsInjective(Tail(s))
  BY <1>2, <1>4 DEF IsInjective
<1> QED
  BY <1>2, <1>8, <1>9

LEMMA TailSet ==
  ASSUME NEW T, NEW s \in Seq(T), s # <<>>
  PROVE  Tail(s) \in Seq(T) /\ ToSet(Tail(s)) \subseteq ToSet(s)
<1>1. \A i \in DOMAIN Tail(s) : i + 1 \in DOMAIN s /\ Tail(s)[i] = s[i + 1]
  OBVIOUS
<1> QED
  BY <1>1 DEF ToSet

LEMMA FrontSet ==
  ASSUME NEW T, NEW s \in Seq(T), IsInjective(s)
  PROVE  /\ FrontOf(s) \subseteq ToSet(s)
         /\ ToSet(Rest(s)) = ToSet(s) \ FrontOf(s)
         /\ IsInjective(Rest(s))
<1>1. CASE s = <<>>
  BY <1>1, RestIs, SetOfEmpty DEF FrontOf
<1>2. CASE s # <<>>
  <2>1. Head(s) \in ToSet(s)
    BY <1>2, SetOf
  <2>2. ToSet(Tail(s)) = ToSet(s) \ {Head(s)} /\ IsInjective(Tail(s))
    BY <1>2, TailIs
  <2>3. Rest(s) = Tail(s)
    BY <1>2, RestIs
  <2> QED
    BY <1>2, <2>1, <2>2, <2>3 DEF FrontOf
<1> QED
  BY <1>1, <1>2

(* A list without repetitions has as many elements as its set.             *)
LEMMA LengthIs ==
  ASSUME NEW T, NEW s \in Seq(T), IsInjective(s)
  PROVE  IsFiniteSet(ToSet(s)) /\ Cardinality(ToSet(s)) = Len(s)
<1>1. PICK n \in Nat : n = Len(s)
  OBVIOUS
<1>2. DOMAIN s = 1..n /\ s = [i \in 1..n |-> s[i]]
  BY <1>1
<1>3. s \in Bijection(1..n, ToSet(s))
  BY <1>2 DEF Bijection, Injection, Surjection, IsInjective, ToSet
<1>4. IsFiniteSet(1..n) /\ Cardinality(1..n) = n
  BY FS_Interval
<1> QED
  BY <1>1, <1>3, <1>4, FS_Bijection DEF ExistsBijection

-----------------------------------------------------------------------------
(* What a step leaves as it was. *)

LEMMA Types ==
  ASSUME TypeOK
  PROVE  /\ pblocks \in Seq(PBlock) /\ Listed \subseteq PBlock
         /\ \A r \in Reader : /\ recycleList[r] \in Seq(PBlock)
                              /\ Recycled(r) \subseteq PBlock
                              /\ todo[r] \in Seq(PBlock)
                              /\ ToSet(todo[r]) \subseteq PBlock
                              /\ missing[r] \subseteq AnyBlock
                              /\ asked[r] \in [block : 0..LastBlock, more : 0..1]
  BY SetOf DEF TypeOK, Listed, Recycled

LEMMA WindowType ==
  ASSUME TypeOK
  PROVE  /\ g_preloadNumBlocks \in Nat /\ g_preloadNumBlocks <= MaxNum
         /\ \A b \in 0..LastBlock : Window(b) \subseteq AnyBlock
<1>1. g_preloadNumBlocks \in Nat /\ g_preloadNumBlocks <= MaxNum
  BY NumAssumption, SettingAssumption DEF TypeOK, g_preloadNumBlocks
<1> QED
  BY <1>1, NumAssumption DEF Window, AnyBlock

(* The blocks and the recycle lists stay.                                  *)
LEMMA BlocksSame ==
  ASSUME IInv, UNCHANGED <<setting, blockVars, recycleList>>
  PROVE  /\ Owned' /\ BlocksReachable' /\ GivenAway'
         /\ ~setting.overlap => Distinct' /\ JoinsCounted'
<1> USE DEF blockVars
<1>1. Owned'
  BY DEF IInv, Owned, FilesOwned
<1>2. BlocksReachable'
  BY DEF IInv, BlocksReachable, Recycled, Listed, Allocated
<1>3. GivenAway'
  BY DEF IInv, GivenAway, Recycled, DoneWith, Recyclable
<1>4. ~setting.overlap => Distinct'
  BY DEF IInv, Serially, Distinct, Listed, g_preloadNumBlocks
<1>5. ~setting.overlap => JoinsCounted'
  BY DEF IInv, Serially, JoinsCounted, Allocated
<1> QED
  BY <1>1, <1>2, <1>3, <1>4, <1>5

(* Nobody begins to look for old blocks, and those who do go on.           *)
LEMMA OldSame ==
  ASSUME IInv, UNCHANGED <<setting, pblocks>>,
         \A p \in Listed : pblock'[p].blockID = pblock[p].blockID,
         \A o \in Reader : pc'[o] = "old" =>
            /\ pc[o] = "old" /\ todo'[o] = todo[o]
            /\ missing'[o] = missing[o] /\ asked'[o] = asked[o]
  PROVE  OldOnes'
  BY DEF IInv, OldOnes, Missing, Window, g_preloadNumBlocks, Listed

LEMMA OldNone ==
  ASSUME TypeOK', writer' = NoReader
  PROVE  OldOnes'
  BY ReaderAssumption DEF TypeOK, OldOnes

LEMMA WaitSame ==
  ASSUME IInv, UNCHANGED pblocks,
         \A p \in Listed : pblock'[p].blockID = pblock[p].blockID,
         \A o \in Reader :
            /\ pc'[o] \in {"look", "wait"} =>
                  /\ pc[o] \in {"look", "wait"}
                  /\ ToSet(todo'[o]) \subseteq ToSet(todo[o]) /\ asked'[o] = asked[o]
            /\ pc'[o] = "wait" => todo'[o] # <<>>
  PROVE  Waiting'
  BY DEF IInv, Waiting, Listed

LEMMA WaitOn ==
  ASSUME IInv, UNCHANGED <<pblocks, pblock, todo>>,
         \A o \in Reader : pc'[o] \in {"look", "wait"} =>
                              pc'[o] = pc[o] /\ asked'[o] = asked[o]
  PROVE  Waiting'
<1>1. Waiting
  BY DEF IInv
<1> QED
  BY <1>1 DEF Waiting, Listed

LEMMA WaitNone ==
  ASSUME TypeOK', readers' = {}
  PROVE  Waiting'
  BY DEF TypeOK, Waiting

(* With one request at a time, a step of that request says nothing of the  *)
(* others.                                                                 *)
LEMMA SeriallyBy ==
  ASSUME IInv, NEW r \in Reader, UNCHANGED setting,
         \A o \in Reader \ {r} : pc'[o] = pc[o],
         setting.overlap \/ pc[r] # "idle" \/ \A o \in Reader : pc[o] = "idle",
         ~setting.overlap => Distinct' /\ JoinsCounted' /\ Working(r)'
  PROVE  Serially'
<1> SUFFICES ASSUME ~setting.overlap PROVE Serially'
  BY DEF Serially
<1>1. \A o \in Reader \ {r} : pc[o] = "idle"
  BY DEF IInv, Serially, OneRequest
<1>2. \A o \in Reader \ {r} : pc'[o] = "idle"
  BY <1>1
<1>3. OneRequest'
  BY <1>2 DEF OneRequest
<1>4. \A o \in Reader \ {r} : Working(o)'
  BY <1>2 DEF Working, Handing, Found
<1> QED
  BY <1>3, <1>4 DEF Serially

(* A step that marks blocks: which they are and where they are stays.      *)
LEMMA MarkedOnly ==
  ASSUME IInv, UNCHANGED <<setting, pblocks, recycleList>>, Allocated' = Allocated,
         \A p \in PBlock : pblock'[p].blockID = pblock[p].blockID
  PROVE  /\ BlocksReachable'
         /\ ~setting.overlap => Distinct'
<1>1. BlocksReachable'
  BY DEF IInv, BlocksReachable, Recycled, Listed
<1>2. ~setting.overlap => Distinct'
  BY Types DEF IInv, Serially, Distinct, Listed, g_preloadNumBlocks
<1> QED
  BY <1>1, <1>2

LEMMA FillingSame ==
  ASSUME IInv, UNCHANGED <<setting, pblocks>>, NEW r \in Reader, Filling(r),
         recycleList'[r] = recycleList[r],
         \A p \in Listed : pblock'[p].blockID = pblock[p].blockID,
         missing'[r] = missing[r], asked'[r] = asked[r],
         pc'[r] = "first" <=> pc[r] = "first"
  PROVE  Filling(r)'
<1>1. BlockIDs' = BlockIDs
  BY DEF BlockIDs, Listed
<1> QED
  BY <1>1 DEF Filling, Window, g_preloadNumBlocks, Recycled

-----------------------------------------------------------------------------
(* The steps that leave the blocks as they are. *)

LEMMA InitIInv == Init => IInv
<1> SUFFICES ASSUME Init PROVE IInv
  OBVIOUS
<1> USE DEF Init
<1>0. Allocated = {} /\ Listed = {} /\ \A r \in Reader : Recycled(r) = {}
  BY SetOfEmpty DEF Allocated, Listed, Recycled
<1>1. TypeOK
  <2>1. NoPBlock \in [blockID : AnyBlock,
                      status : {"INIT", "RUNNING", "COMPLETED", "TASK_FAILED"},
                      fd : BOOLEAN,
                      threadJoined : BOOLEAN,
                      thread : {"none", "opening", "reading", "ended"}]
    BY NumAssumption DEF NoPBlock, AnyBlock
  <2>2. NoRequest \in [block : 0..LastBlock, more : 0..1]
    BY NumAssumption DEF NoRequest
  <2>3. \A p \in PBlock : pblock[p] = NoPBlock
    OBVIOUS
  <2>4. \A p \in PBlock :
          pblock[p].status = "RUNNING" <=> pblock[p].thread \in {"opening", "reading"}
    BY <2>3 DEF NoPBlock
  <2>5. \A r \in Reader : asked[r].block + asked[r].more <= LastBlock
    BY NumAssumption DEF NoRequest
  <2>6. \A r \in Reader : writer # r
    BY ReaderAssumption
  <2>7. /\ pblock \in [PBlock -> [blockID : AnyBlock,
                      status : {"INIT", "RUNNING", "COMPLETED", "TASK_FAILED"},
                      fd : BOOLEAN,
                      threadJoined : BOOLEAN,
                      thread : {"none", "opening", "reading", "ended"}]]
        /\ asked \in [Reader -> [block : 0..LastBlock, more : 0..1]]
    BY <2>1, <2>2
  <2>8. /\ pblocks \in Seq(PBlock) /\ joins \in [PBlock -> Nat]
        /\ recycleList \in [Reader -> Seq(PBlock)]
        /\ missing \in [Reader -> SUBSET AnyBlock]
        /\ todo \in [Reader -> Seq(PBlock)]
    OBVIOUS
  <2>9. \A r \in Reader : pc[r] = "idle" /\ r \notin readers
    OBVIOUS
  <2>10. setting \in Setting /\ opened \in Nat /\ left \in Nat /\ readers \subseteq Reader
    OBVIOUS
  <2>11. /\ pc \in [Reader -> {"idle", "scan", "old", "first", "take", "look", "wait",
                              "fill", "fallback"}]
         /\ readSize \in [Reader -> {"none", "failed", "eof", "data"}]
    OBVIOUS
  <2>12. /\ file \in {"closed", "open", "closing", "lost", "crashed"} /\ mapped \in BOOLEAN
         /\ writer \in Reader \cup {NoReader}
         /\ writer = NoReader \/ readers = {}
    OBVIOUS
  <2> HIDE DEF Init
  <2> QED
    BY <2>4, <2>5, <2>6, <2>7, <2>8, <2>9, <2>10, <2>11, <2>12 DEF TypeOK
<1>2. Standing
  BY <1>0 DEF Standing
<1>3. Owned
  <2>1. {p \in PBlock : pblock[p].fd} = {}
    BY DEF NoPBlock
  <2> QED
    BY <2>1, FS_EmptySet DEF Owned, FilesOwned, NoPBlock
<1>4. BlocksReachable
  BY <1>0, SetOfEmpty DEF BlocksReachable
<1>5. GivenAway /\ OldOnes /\ Waiting
  BY <1>0 DEF GivenAway, OldOnes, Waiting
<1>6. Serially
  <2>1. Cardinality(Listed) <= g_preloadNumBlocks + 1
    BY <1>0, <1>1, FS_EmptySet, WindowType
  <2> QED
    BY <1>0, <2>1 DEF Serially, OneRequest, Distinct, Working, Handing, Found, JoinsCounted
<1> QED
  BY <1>1, <1>2, <1>3, <1>4, <1>5, <1>6 DEF IInv

(* A request begins.                                                       *)
LEMMA BeginIInv ==
  ASSUME IInv, NEW r \in Reader, Begin(r)
  PROVE  IInv'
<1>1. PICK b \in 0..LastBlock, more \in 0..1 :
        /\ b + more <= LastBlock
        /\ IF setting.overlap THEN left > more /\ left' = left - more - 1
           ELSE UNCHANGED left
        /\ asked' = [asked EXCEPT ![r] =
                        IF mapped THEN [block |-> b, more |-> more] ELSE NoRequest]
  BY DEF Begin
<1>2. /\ file = "open" /\ pc[r] = "idle"
      /\ setting.overlap \/ \A o \in Reader : pc[o] = "idle"
      /\ pc' = [pc EXCEPT ![r] = IF mapped THEN "scan" ELSE "fallback"]
      /\ UNCHANGED <<setting, file, mapped, blockVars, lockVars,
                     recycleList, missing, todo, readSize>>
  BY DEF Begin, Goto
<1>3. TypeOK'
  <2>1. left' \in Nat
    BY <1>1 DEF IInv, TypeOK
  <2>2. NoRequest \in [block : 0..LastBlock, more : 0..1]
    BY NumAssumption DEF NoRequest
  <2>3. /\ asked' \in [Reader -> [block : 0..LastBlock, more : 0..1]]
        /\ \A o \in Reader : asked'[o].block + asked'[o].more <= LastBlock
    BY <1>1, <2>2, NumAssumption DEF IInv, TypeOK, NoRequest
  <2> QED
    BY <1>2, <2>1, <2>3 DEF IInv, TypeOK, blockVars, lockVars
<1>4. Standing'
  BY <1>1, <1>2 DEF IInv, Standing, Allocated, blockVars, Handing, Reading, TypeOK
<1>5. /\ Owned' /\ BlocksReachable' /\ GivenAway'
      /\ ~setting.overlap => Distinct' /\ JoinsCounted'
  BY <1>2, BlocksSame
<1>6. OldOnes'
  BY <1>1, <1>2, OldSame DEF IInv, TypeOK, blockVars
<1>7. Waiting'
  <2>1. UNCHANGED <<pblocks, pblock, todo>>
    BY <1>2 DEF blockVars
  <2>2. \A o \in Reader : pc'[o] \in {"look", "wait"} =>
                              pc'[o] = pc[o] /\ asked'[o] = asked[o]
    BY <1>1, <1>2 DEF IInv, TypeOK
  <2> QED
    BY <2>1, <2>2, WaitOn
<1>8. Working(r)'
  BY <1>2 DEF Working, Handing, Found, IInv, TypeOK
<1>9. Serially'
  BY <1>2, <1>5, <1>8, SeriallyBy DEF IInv, TypeOK
<1> QED
  BY <1>3, <1>4, <1>5, <1>6, <1>7, <1>9 DEF IInv

(* The first look at the list: the lock for writing is held, and what is   *)
(* noted is what the list has.                                             *)
LEMMA ScanIInv ==
  ASSUME IInv, NEW r \in Reader, Scan(r)
  PROVE  IInv'
<1> DEFINE b == asked[r].block
<1>1. /\ pc[r] = "scan" /\ writer = NoReader /\ readers = {}
      /\ writer' = r
      /\ todo' = [todo EXCEPT ![r] = OldBlocks(b)]
      /\ missing' = [missing EXCEPT ![r] = Missing(b)]
      /\ pc' = [pc EXCEPT ![r] = "old"]
      /\ UNCHANGED <<setting, handleVars, blockVars, readers,
                     asked, recycleList, readSize>>
  BY DEF Scan, Goto
<1>2. /\ OldBlocks(b) \in Seq(PBlock) /\ IsInjective(OldBlocks(b))
      /\ ToSet(OldBlocks(b)) = {p \in Listed : pblock[p].blockID \notin Window(b)}
  <2>1. pblocks \in Seq(PBlock) /\ IsInjective(pblocks) /\ Listed \subseteq PBlock
    BY Types DEF IInv, BlocksReachable
  <2>2. ToSet(OldBlocks(b)) = Listed \cap {p \in PBlock : pblock[p].blockID \notin Window(b)}
    BY <2>1, KeptSet DEF OldBlocks, Listed
  <2> QED
    BY <2>1, <2>2, KeptType, KeptInjective DEF OldBlocks
<1>3. TypeOK'
  <2>1. Missing(b) \subseteq AnyBlock
    BY WindowType, Types DEF IInv, Missing
  <2> QED
    BY <1>1, <1>2, <2>1, ReaderAssumption DEF IInv, TypeOK, blockVars, handleVars
<1>4. Standing'
  BY <1>1 DEF IInv, Standing, Allocated, blockVars, handleVars, Handing, Reading, TypeOK
<1>5. /\ Owned' /\ BlocksReachable' /\ GivenAway'
      /\ ~setting.overlap => Distinct' /\ JoinsCounted'
  BY <1>1, BlocksSame
<1>6. OldOnes'
  <2> SUFFICES ASSUME NEW o \in Reader, pc'[o] = "old"
               PROVE  /\ IsInjective(todo'[o])
                      /\ ToSet(todo'[o]) =
                           {p \in Listed : pblock[p].blockID \notin Window(asked[o].block)}
                      /\ missing'[o] = Missing(asked[o].block)
    BY <1>1 DEF OldOnes, Listed, Window, Missing, g_preloadNumBlocks, blockVars
  <2>1. o = r
    BY <1>1, <1>3, ReaderAssumption DEF TypeOK
  <2> QED
    BY <1>1, <1>2, <2>1 DEF IInv, TypeOK
<1>7. Waiting'
  BY <1>1, <1>3, WaitNone
<1>8. Working(r)'
  BY <1>1 DEF Working, Handing, Found, IInv, TypeOK
<1>9. Serially'
  BY <1>1, <1>5, <1>8, SeriallyBy DEF IInv, TypeOK
<1> QED
  BY <1>3, <1>4, <1>5, <1>6, <1>7, <1>9 DEF IInv

(* The lock for reading is taken again, and the list is looked at again.   *)
LEMMA TakeIInv ==
  ASSUME IInv, NEW r \in Reader, Take(r)
  PROVE  IInv'
<1> DEFINE b == asked[r].block
<1>1. /\ pc[r] = "take" /\ writer = NoReader
      /\ readers' = readers \cup {r}
      /\ todo' = [todo EXCEPT ![r] = BlocksOf(b)]
      /\ pc' = [pc EXCEPT ![r] = "look"]
      /\ UNCHANGED <<setting, handleVars, blockVars, writer,
                     asked, recycleList, missing, readSize>>
  BY DEF Take, Goto
<1>2. /\ BlocksOf(b) \in Seq(PBlock)
      /\ ToSet(BlocksOf(b)) = {p \in Listed : pblock[p].blockID = b}
  <2>1. pblocks \in Seq(PBlock) /\ Listed \subseteq PBlock
    BY Types DEF IInv
  <2>2. ToSet(BlocksOf(b)) = Listed \cap {p \in PBlock : pblock[p].blockID = b}
    BY <2>1, KeptSet DEF BlocksOf, Listed
  <2> QED
    BY <2>1, <2>2, KeptType DEF BlocksOf
<1>3. TypeOK'
  BY <1>1, <1>2, ReaderAssumption DEF IInv, TypeOK, blockVars, handleVars
<1>4. Standing'
  BY <1>1 DEF IInv, Standing, Allocated, blockVars, handleVars, Handing, Reading, TypeOK
<1>5. /\ Owned' /\ BlocksReachable' /\ GivenAway'
      /\ ~setting.overlap => Distinct' /\ JoinsCounted'
  BY <1>1, BlocksSame
<1>6. OldOnes'
  BY <1>1, OldSame DEF IInv, TypeOK, blockVars
<1>7. Waiting'
  <2> SUFFICES ASSUME NEW o \in Reader
               PROVE  /\ pc'[o] \in {"look", "wait"} => \A p \in ToSet(todo'[o]) :
                           p \in Listed /\ pblock[p].blockID = asked[o].block
                      /\ pc'[o] = "wait" => todo'[o] # <<>>
    BY <1>1 DEF Waiting, Listed, blockVars
  <2>1. CASE o = r
    BY <1>1, <1>2, <2>1 DEF IInv, TypeOK
  <2>2. CASE o # r
    BY <1>1, <2>2 DEF IInv, TypeOK, Waiting
  <2> QED
    BY <2>1, <2>2
<1>8. ~setting.overlap => Working(r)'
  <2> SUFFICES ASSUME ~setting.overlap PROVE Working(r)'
    OBVIOUS
  <2>1. Filling(r) /\ b \notin missing[r]
    BY <1>1 DEF IInv, Serially, Working, Handing, Filling
  <2>2. Filling(r)'
    BY <1>1, <2>1, FillingSame DEF IInv, TypeOK, blockVars
  <2>3. ~setting.noThread => todo'[r] # <<>>
    <3> SUFFICES ASSUME ~setting.noThread PROVE todo'[r] # <<>>
      OBVIOUS
    <3>1. b \in Nat
      BY Types DEF IInv
    <3>2. b \in Window(b)
      BY <3>1, WindowType DEF Window, IInv
    <3>3. b \in BlockIDs
      BY <2>1, <3>2 DEF Filling
    <3>4. ToSet(BlocksOf(b)) # {}
      BY <1>2, <3>3 DEF BlockIDs
    <3>5. BlocksOf(b) # <<>>
      BY <1>2, <3>4, SetOf
    <3> QED
      BY <1>1, <3>5 DEF IInv, TypeOK
  <2> QED
    BY <1>1, <2>2, <2>3 DEF Working, Found, IInv, TypeOK
<1>9. Serially'
  BY <1>1, <1>5, <1>8, SeriallyBy DEF IInv, TypeOK
<1> QED
  BY <1>3, <1>4, <1>5, <1>6, <1>7, <1>9 DEF IInv

(* The lock for reading is given back.                                     *)
LEMMA LetGoIInv ==
  ASSUME IInv, NEW r \in Reader, LetGo(r)
  PROVE  IInv'
<1>1. /\ pc[r] = "look" /\ todo[r] = <<>>
      /\ readers' = readers \ {r}
      /\ pc' = [pc EXCEPT ![r] = "fill"]
      /\ UNCHANGED <<setting, handleVars, blockVars, writer, localVars>>
  BY DEF LetGo, Goto
<1>3. TypeOK'
  BY <1>1, ReaderAssumption DEF IInv, TypeOK, blockVars, handleVars, localVars
<1>4. Standing'
  BY <1>1 DEF IInv, Standing, Allocated, blockVars, handleVars, localVars, Handing,
              Reading, TypeOK
<1>5. /\ Owned' /\ BlocksReachable' /\ GivenAway'
      /\ ~setting.overlap => Distinct' /\ JoinsCounted'
  BY <1>1, BlocksSame DEF localVars
<1>6. OldOnes'
  BY <1>1, OldSame DEF IInv, TypeOK, blockVars, localVars
<1>7. Waiting'
  BY <1>1, WaitSame DEF IInv, TypeOK, blockVars, localVars, Waiting
<1>8. ~setting.overlap => Working(r)'
  <2> SUFFICES ASSUME ~setting.overlap PROVE Working(r)'
    OBVIOUS
  <2>1. Filling(r) /\ (~setting.noThread => Found(r))
    BY <1>1 DEF IInv, Serially, Working, Handing
  <2>2. Filling(r)'
    BY <1>1, <2>1, FillingSame DEF IInv, TypeOK, blockVars, localVars
  <2> QED
    BY <1>1, <2>1, <2>2 DEF Working, Found, IInv, TypeOK, localVars
<1>9. Serially'
  BY <1>1, <1>5, <1>8, SeriallyBy DEF IInv, TypeOK
<1> QED
  BY <1>3, <1>4, <1>5, <1>6, <1>7, <1>9 DEF IInv

(* A block is read, or fails to be.                                        *)
LEMMA ReadPBlockIInv ==
  ASSUME IInv, NEW r \in Reader, ReadPBlock(r)
  PROVE  IInv'
<1>1. /\ pc[r] = "look" /\ todo[r] # <<>>
      /\ todo' = [todo EXCEPT ![r] = Tail(@)]
      /\ UNCHANGED <<setting, handleVars, blockVars, lockVars, pc,
                     asked, recycleList, missing>>
  BY DEF ReadPBlock
<1>2. PICK s \in {"data", "eof", "failed"} :
        /\ s = "eof" => ~(asked[r].block < FileBlocks)
        /\ readSize' = [readSize EXCEPT ![r] = s]
  BY DEF ReadPBlock
<1>3. Tail(todo[r]) \in Seq(PBlock) /\ ToSet(Tail(todo[r])) \subseteq ToSet(todo[r])
  BY <1>1, Types, TailSet DEF IInv
<1>4. TypeOK'
  BY <1>1, <1>2, <1>3, ReaderAssumption DEF IInv, TypeOK, blockVars, handleVars, lockVars
<1>5. Standing'
  <2>1. asked[r].block \in Nat /\ FileBlocks \in Nat
    BY Types, NumAssumption DEF IInv
  <2> QED
    BY <1>1, <1>2, <2>1 DEF IInv, Standing, Allocated, blockVars, handleVars, Handing,
                            Reading, TypeOK
<1>6. /\ Owned' /\ BlocksReachable' /\ GivenAway'
      /\ ~setting.overlap => Distinct' /\ JoinsCounted'
  BY <1>1, BlocksSame
<1>7. OldOnes'
  BY <1>1, OldSame DEF IInv, TypeOK, blockVars
<1>8. Waiting'
  BY <1>1, <1>3, WaitSame DEF IInv, TypeOK, blockVars, Waiting
<1>9. ~setting.overlap => Working(r)'
  <2> SUFFICES ASSUME ~setting.overlap PROVE Working(r)'
    OBVIOUS
  <2>1. Filling(r)
    BY <1>1 DEF IInv, Serially, Working, Handing
  <2>2. Filling(r)'
    BY <1>1, <2>1, FillingSame DEF IInv, TypeOK, blockVars
  <2> QED
    BY <1>1, <1>2, <2>2 DEF Working, Found, IInv, TypeOK
<1>10. Serially'
  BY <1>1, <1>6, <1>9, SeriallyBy DEF IInv, TypeOK
<1> QED
  BY <1>4, <1>5, <1>6, <1>7, <1>8, <1>10 DEF IInv

(* A request goes on with its next block, or ends.                         *)
LEMMA NextBlockIInv ==
  ASSUME IInv, NEW r \in Reader, NextBlock(r)
  PROVE  IInv'
<1>1. /\ pc[r] = "fill" /\ recycleList[r] = <<>>
      /\ readSize' = [readSize EXCEPT ![r] = "none"]
      /\ UNCHANGED <<setting, handleVars, blockVars, lockVars,
                     recycleList, missing, todo>>
  BY DEF NextBlock, Ended
<1>2. PICK l \in {"scan", "fallback", "idle"} : pc' = [pc EXCEPT ![r] = l]
  BY DEF NextBlock, Goto
<1>3. PICK a \in [block : 0..LastBlock, more : 0..1] :
        a.block + a.more <= LastBlock /\ asked' = [asked EXCEPT ![r] = a]
  <2>1. /\ asked[r] \in [block : 0..LastBlock, more : 0..1]
        /\ asked[r].block + asked[r].more <= LastBlock
    BY DEF IInv, TypeOK
  <2>2. CASE readSize[r] = "data" /\ asked[r].more > 0
    <3>1. [block |-> asked[r].block + 1, more |-> asked[r].more - 1]
            \in [block : 0..LastBlock, more : 0..1]
      BY <2>1, <2>2, NumAssumption
    <3>2. asked' = [asked EXCEPT ![r] = [block |-> asked[r].block + 1,
                                         more |-> asked[r].more - 1]]
      BY <2>2 DEF NextBlock
    <3>3. asked[r].block + 1 + (asked[r].more - 1) <= LastBlock
      BY <2>1, NumAssumption
    <3> QED
      BY <3>1, <3>2, <3>3
  <2>3. CASE ~(readSize[r] = "data" /\ asked[r].more > 0)
    <3>1. /\ NoRequest \in [block : 0..LastBlock, more : 0..1]
          /\ NoRequest.block + NoRequest.more <= LastBlock
      BY NumAssumption DEF NoRequest
    <3>2. asked' = [asked EXCEPT ![r] = NoRequest]
      BY <2>3 DEF NextBlock
    <3> QED
      BY <3>1, <3>2
  <2> QED
    BY <2>2, <2>3
<1>4. TypeOK'
  BY <1>1, <1>2, <1>3 DEF IInv, TypeOK, blockVars, handleVars, lockVars
<1>5. Standing'
  BY <1>1, <1>2, <1>3 DEF IInv, Standing, Allocated, blockVars, handleVars, Handing,
                          Reading, TypeOK
<1>6. /\ Owned' /\ BlocksReachable' /\ GivenAway'
      /\ ~setting.overlap => Distinct' /\ JoinsCounted'
  BY <1>1, BlocksSame
<1>7. OldOnes'
  <2>1. UNCHANGED <<setting, pblocks, pblock>>
    BY <1>1 DEF blockVars
  <2>2. \A o \in Reader : pc'[o] = "old" =>
            /\ pc[o] = "old" /\ todo'[o] = todo[o]
            /\ missing'[o] = missing[o] /\ asked'[o] = asked[o]
    BY <1>1, <1>2, <1>3 DEF IInv, TypeOK
  <2> QED
    BY <2>1, <2>2, OldSame
<1>8. Waiting'
  <2>1. UNCHANGED <<pblocks, pblock, todo>>
    BY <1>1 DEF blockVars
  <2>2. \A o \in Reader : pc'[o] \in {"look", "wait"} =>
                              pc'[o] = pc[o] /\ asked'[o] = asked[o]
    BY <1>2, <1>3 DEF IInv, TypeOK
  <2> QED
    BY <2>1, <2>2, WaitOn
<1>9. Working(r)'
  BY <1>1, <1>2 DEF Working, Handing, Found, IInv, TypeOK
<1>10. Serially'
  BY <1>1, <1>2, <1>6, <1>9, SeriallyBy DEF IInv, TypeOK
<1> QED
  BY <1>4, <1>5, <1>6, <1>7, <1>8, <1>10 DEF IInv

(* Where the loop over what is left of the recycle list ends the process.  *)
LEMMA LeftoverIInv ==
  ASSUME IInv, NEW r \in Reader, Leftover(r)
  PROVE  IInv'
<1>1. /\ file' = "crashed"
      /\ pc' = [o \in Reader |-> "idle"]
      /\ writer' = NoReader /\ readers' = {}
      /\ UNCHANGED <<setting, mapped, left, blockVars, localVars>>
  BY DEF Leftover
<1>2. TypeOK'
  BY <1>1, ReaderAssumption DEF IInv, TypeOK, blockVars, localVars
<1>3. Standing'
  BY <1>1 DEF Standing
<1>4. /\ Owned' /\ BlocksReachable' /\ GivenAway'
      /\ ~setting.overlap => Distinct' /\ JoinsCounted'
  BY <1>1, BlocksSame DEF localVars
<1>5. OldOnes' /\ Waiting'
  BY <1>1, <1>2, OldNone, WaitNone
<1>6. Serially'
  BY <1>1, <1>4 DEF Serially, OneRequest, Working, Handing, Found
<1> QED
  BY <1>2, <1>3, <1>4, <1>5, <1>6 DEF IInv

(* The buffered read that is made instead.                                 *)
LEMMA FallbackIInv ==
  ASSUME IInv, NEW r \in Reader, Fallback(r)
  PROVE  IInv'
<1>1. /\ pc[r] = "fallback"
      /\ pc' = [pc EXCEPT ![r] = "idle"]
      /\ UNCHANGED <<setting, handleVars, blockVars, lockVars, localVars>>
  BY DEF Fallback, Goto
<1>2. TypeOK'
  BY <1>1 DEF IInv, TypeOK, blockVars, handleVars, lockVars, localVars
<1>3. Standing'
  BY <1>1 DEF IInv, Standing, Allocated, blockVars, handleVars, localVars, Handing,
              Reading, TypeOK
<1>4. /\ Owned' /\ BlocksReachable' /\ GivenAway'
      /\ ~setting.overlap => Distinct' /\ JoinsCounted'
  BY <1>1, BlocksSame DEF localVars
<1>5. OldOnes'
  BY <1>1, OldSame DEF IInv, TypeOK, blockVars, localVars
<1>6. Waiting'
  BY <1>1, WaitSame DEF IInv, TypeOK, blockVars, localVars, Waiting
<1>7. Working(r)'
  BY <1>1 DEF Working, Handing, Found, IInv, TypeOK
<1>8. Serially'
  BY <1>1, <1>4, <1>7, SeriallyBy DEF IInv, TypeOK
<1> QED
  BY <1>2, <1>3, <1>4, <1>5, <1>6, <1>8 DEF IInv

(* A file is closed, or its close fails, or the blocks of it are gone: the *)
(* only thing that changes is the file.                                    *)
LEMMA FileIInv ==
  ASSUME IInv, file' \in {"closed", "closing", "lost"}, mapped' \in BOOLEAN,
         \A r \in Reader : pc[r] = "idle",
         file # "crashed", file' = "closed" => Allocated = {},
         UNCHANGED <<setting, left, blockVars, lockVars, pc, localVars>>
  PROVE  IInv'
<1>1. TypeOK'
  BY DEF IInv, TypeOK, blockVars, handleVars, lockVars, localVars
<1>2. Standing'
  BY DEF IInv, Standing, Allocated, blockVars, localVars
<1>3. /\ Owned' /\ BlocksReachable' /\ GivenAway'
      /\ ~setting.overlap => Distinct' /\ JoinsCounted'
  BY BlocksSame DEF localVars
<1>4. OldOnes' /\ Waiting'
  BY DEF OldOnes, Waiting
<1>5. Serially'
  BY <1>3 DEF Serially, OneRequest, Working, Handing, Found
<1> QED
  BY <1>1, <1>2, <1>3, <1>4, <1>5 DEF IInv

(* Nothing is on a recycle list of an idle request.                        *)
LEMMA IdleListed ==
  ASSUME IInv, file # "crashed", \A r \in Reader : pc[r] = "idle"
  PROVE  Allocated = Listed /\ \A r \in Reader : Recycled(r) = {}
<1>1. \A r \in Reader : Recycled(r) = {}
  BY SetOfEmpty DEF IInv, Standing, Handing, Recycled
<1> QED
  BY <1>1 DEF IInv, BlocksReachable

LEMMA CloseIInv ==
  ASSUME IInv, CloseFile \/ Unmount \/ Freed
  PROVE  IInv'
<1>1. file # "crashed"
  BY DEF CloseFile, Unmount, Freed
<1>2. \A r \in Reader : pc[r] = "idle"
  BY DEF CloseFile, Unmount, Freed, IInv, Standing
<1>3. file' \in {"closed", "closing", "lost"} /\ mapped' \in BOOLEAN
  BY DEF CloseFile, Unmount, Freed, IInv, TypeOK
<1>4. file' = "closed" => Allocated = {}
  <2>1. file' = "closed" => pblocks = <<>>
    BY DEF CloseFile, Unmount, Freed
  <2> QED
    BY <1>1, <1>2, <2>1, IdleListed, SetOfEmpty DEF Listed
<1>5. UNCHANGED <<setting, left, blockVars, lockVars, pc, localVars>>
  BY DEF CloseFile, Unmount, Freed
<1> QED
  BY <1>1, <1>2, <1>3, <1>4, <1>5, FileIInv

-----------------------------------------------------------------------------
(* The steps of the threads, and those that join them. *)

(* A block whose thread has gone on.                                       *)
Ran(k, s, f) == [k EXCEPT !.status = s, !.fd = f,
                          !.thread = IF s = "RUNNING" THEN "reading" ELSE "ended"]

ABlock == [blockID : AnyBlock,
           status : {"INIT", "RUNNING", "COMPLETED", "TASK_FAILED"},
           fd : BOOLEAN,
           threadJoined : BOOLEAN,
           thread : {"none", "opening", "reading", "ended"}]

LEMMA RanIs ==
  ASSUME NEW k \in ABlock, NEW s \in {"RUNNING", "COMPLETED", "TASK_FAILED"},
         NEW f \in BOOLEAN
  PROVE  /\ Ran(k, s, f) \in ABlock
         /\ Ran(k, s, f).blockID = k.blockID
         /\ Ran(k, s, f).threadJoined = k.threadJoined
         /\ Ran(k, s, f).status = s /\ Ran(k, s, f).fd = f
         /\ Ran(k, s, f).thread = IF s = "RUNNING" THEN "reading" ELSE "ended"
  BY DEF Ran, ABlock

(* What a thread does to its block: it opens a file, or ends.              *)
LEMMA TaskParts ==
  ASSUME IInv, NEW p \in PBlock,
         NEW s \in {"RUNNING", "COMPLETED", "TASK_FAILED"}, NEW f \in BOOLEAN,
         pblock[p].thread \in {"opening", "reading"},
         pblock' = [pblock EXCEPT ![p] = Ran(pblock[p], s, f)],
         opened' = IF f /\ ~pblock[p].fd THEN opened + 1 ELSE opened,
         pblock[p].fd => f,
         UNCHANGED <<setting, file, mapped, left, writer, readers, pc, asked,
                     recycleList, missing, todo, readSize, pblocks, joins>>
  PROVE  IInv'
<1>0. pblock \in [PBlock -> ABlock]
  BY DEF IInv, TypeOK, ABlock
<1>1. /\ pblock' \in [PBlock -> ABlock]
      /\ pblock'[p].fd = f /\ pblock'[p].status = s
      /\ pblock'[p].thread = IF s = "RUNNING" THEN "reading" ELSE "ended"
      /\ \A q \in PBlock : pblock'[q].blockID = pblock[q].blockID
                           /\ pblock'[q].threadJoined = pblock[q].threadJoined
      /\ \A q \in PBlock \ {p} : pblock'[q] = pblock[q]
  <2>1. pblock[p] \in ABlock
    BY <1>0
  <2>2. /\ Ran(pblock[p], s, f) \in ABlock
        /\ Ran(pblock[p], s, f).blockID = pblock[p].blockID
        /\ Ran(pblock[p], s, f).threadJoined = pblock[p].threadJoined
        /\ Ran(pblock[p], s, f).status = s /\ Ran(pblock[p], s, f).fd = f
        /\ Ran(pblock[p], s, f).thread = IF s = "RUNNING" THEN "reading" ELSE "ended"
    BY <2>1, RanIs, SMTT(30)
  <2>3. /\ pblock' \in [PBlock -> ABlock] /\ pblock'[p] = Ran(pblock[p], s, f)
        /\ \A q \in PBlock \ {p} : pblock'[q] = pblock[q]
    BY <1>0, <2>2
  <2> HIDE DEF Ran
  <2> QED
    BY <2>2, <2>3
<1>2. pblock[p] # NoPBlock /\ pblock'[p] # NoPBlock
  <2>1. NoPBlock.thread = "none"
    BY DEF NoPBlock
  <2>2. pblock[p].thread # "none" /\ pblock'[p].thread # "none"
    BY <1>1
  <2> QED
    BY <2>1, <2>2
<1>3. Allocated' = Allocated
  BY <1>1, <1>2 DEF Allocated
<1>4. TypeOK'
  <2>1. opened' \in Nat
    BY DEF IInv, TypeOK
  <2>2. \A q \in PBlock :
          pblock'[q].status = "RUNNING" <=> pblock'[q].thread \in {"opening", "reading"}
    BY <1>1 DEF IInv, TypeOK
  <2> QED
    BY <1>1, <2>1, <2>2 DEF IInv, TypeOK, ABlock
<1>5. Standing'
  BY <1>3 DEF IInv, Standing
<1>6. Owned'
  <2> DEFINE F == {q \in PBlock : pblock[q].fd}
             G == {q \in PBlock : pblock'[q].fd}
  <2>1. IsFiniteSet(F) /\ opened = Cardinality(F)
    BY BlocksFinite DEF IInv, Owned, FilesOwned
  <2>2. G = IF f THEN F \cup {p} ELSE F
    BY <1>1
  <2>3. opened' = Cardinality(G)
    <3>1. p \in F <=> pblock[p].fd
      OBVIOUS
    <3> HIDE DEF F, G
    <3>2. f => Cardinality(F \cup {p}) = IF p \in F THEN Cardinality(F) ELSE Cardinality(F) + 1
      BY <2>1, FS_AddElement
    <3> QED
      BY <2>1, <2>2, <3>1, <3>2
  <2>4. \A q \in PBlock : pblock'[q].thread = "opening" => ~pblock'[q].fd
    BY <1>1 DEF IInv, Owned
  <2> QED
    BY <2>3, <2>4 DEF Owned, FilesOwned
<1>7. BlocksReachable' /\ (~setting.overlap => Distinct')
  BY <1>1, <1>3, MarkedOnly
<1>8. GivenAway'
  <2> SUFFICES ASSUME NEW r \in Reader, NEW q \in Recycled(r) PROVE DoneWith(q)'
    BY DEF GivenAway, Recycled
  <2>1. DoneWith(q) /\ q \in PBlock
    BY Types DEF IInv, GivenAway
  <2>2. q # p
    BY <2>1 DEF DoneWith, Recyclable, IInv, TypeOK
  <2> QED
    BY <1>1, <2>1, <2>2 DEF DoneWith, Recyclable
<1>9. OldOnes'
  BY <1>1, Types, OldSame DEF IInv
<1>10. Waiting'
  BY <1>1, Types, WaitSame DEF IInv, Waiting
<1>11. Serially'
  <2> SUFFICES ASSUME ~setting.overlap PROVE Serially'
    BY DEF Serially
  <2>1. OneRequest'
    BY DEF IInv, Serially, OneRequest
  <2>2. JoinsCounted'
    BY <1>1, <1>3 DEF IInv, Serially, JoinsCounted, Allocated
  <2>3. \A r \in Reader : Working(r)'
    <3> SUFFICES ASSUME NEW r \in Reader PROVE Working(r)'
      OBVIOUS
    <3>1. Working(r)
      BY DEF IInv, Serially
    <3>2. pc'[r] \in Handing => Filling(r)'
      BY <1>1, <3>1, Types, FillingSame DEF Working, IInv
    <3>3. ~setting.noThread => Found(r)'
      BY <3>1 DEF Working, Found
    <3>4. pc[r] = "wait" => Head(todo[r]) \in PBlock
      BY SetOf, Types DEF IInv, Waiting
    <3> QED
      BY <1>1, <3>1, <3>2, <3>3, <3>4 DEF Working
  <2> QED
    BY <1>7, <2>1, <2>2, <2>3 DEF Serially
<1> QED
  BY <1>4, <1>5, <1>6, <1>7, <1>8, <1>9, <1>10, <1>11 DEF IInv

LEMMA TaskIInv ==
  ASSUME IInv, NEW p \in PBlock, Task(p)
  PROVE  IInv'
<1>0. UNCHANGED <<setting, file, mapped, left, writer, readers, pc, asked,
                  recycleList, missing, todo, readSize, pblocks, joins>>
  BY DEF Task, TaskOpen, TaskRead, handleVars, lockVars, localVars
<1>1. /\ pblock[p] \in ABlock /\ pblock \in [PBlock -> ABlock]
      /\ pblock[p].status = "RUNNING" <=> pblock[p].thread \in {"opening", "reading"}
  BY DEF IInv, TypeOK, ABlock
<1>2. CASE TaskOpen(p)
  <2>1. pblock[p].thread = "opening" /\ ~pblock[p].fd /\ pblock[p].status = "RUNNING"
    BY <1>1, <1>2 DEF TaskOpen, IInv, Owned
  <2>2. CASE /\ pblock' = [pblock EXCEPT ![p].fd = TRUE, ![p].thread = "reading"]
             /\ opened' = opened + 1
    <3>1. pblock' = [pblock EXCEPT ![p] = Ran(pblock[p], "RUNNING", TRUE)]
      BY <1>1, <2>1, <2>2 DEF Ran, ABlock
    <3>2. PICK f \in BOOLEAN : f
      OBVIOUS
    <3> QED
      BY <1>0, <2>1, <2>2, <3>1, <3>2, TaskParts
  <2>3. CASE /\ pblock' = [pblock EXCEPT ![p].status = "TASK_FAILED",
                                         ![p].thread = "ended"]
             /\ UNCHANGED opened
    <3>1. pblock' = [pblock EXCEPT ![p] = Ran(pblock[p], "TASK_FAILED", pblock[p].fd)]
      BY <1>1, <2>1, <2>3 DEF Ran, ABlock
    <3>2. pblock[p].fd \in BOOLEAN
      BY <1>1 DEF ABlock
    <3>3. opened' = IF pblock[p].fd /\ ~pblock[p].fd THEN opened + 1 ELSE opened
      BY <2>3
    <3>4. "TASK_FAILED" \in {"RUNNING", "COMPLETED", "TASK_FAILED"}
      OBVIOUS
    <3>5. pblock[p].thread \in {"opening", "reading"}
      BY <2>1
    <3> QED
      BY <1>0, <3>1, <3>2, <3>3, <3>4, <3>5, TaskParts, ZenonT(30)
  <2> QED
    BY <1>2, <2>2, <2>3 DEF TaskOpen
<1>3. CASE TaskRead(p)
  <2>1. pblock[p].thread = "reading" /\ UNCHANGED opened
    BY <1>3 DEF TaskRead
  <2>2. PICK s \in {"COMPLETED", "TASK_FAILED"} :
          pblock' = [pblock EXCEPT ![p].status = s, ![p].thread = "ended"]
    BY <1>3 DEF TaskRead
  <2>3. pblock' = [pblock EXCEPT ![p] = Ran(pblock[p], s, pblock[p].fd)]
    BY <1>1, <2>2 DEF Ran, ABlock
  <2>4. pblock[p].fd \in BOOLEAN
    BY <1>1 DEF ABlock
  <2>5. opened' = IF pblock[p].fd /\ ~pblock[p].fd THEN opened + 1 ELSE opened
    BY <2>1
  <2>6. s \in {"RUNNING", "COMPLETED", "TASK_FAILED"}
    OBVIOUS
  <2>7. pblock[p].thread \in {"opening", "reading"}
    BY <2>1
  <2> QED
    BY <1>0, <2>3, <2>4, <2>5, <2>6, <2>7, TaskParts, ZenonT(30)
<1> QED
  BY <1>2, <1>3 DEF Task

(* A block whose thread has been joined.                                   *)
Marked(k) == [k EXCEPT !.threadJoined = TRUE]

LEMMA MarkedIs ==
  ASSUME NEW k \in ABlock
  PROVE  /\ Marked(k) \in ABlock /\ Marked(k).threadJoined = TRUE
         /\ Marked(k).blockID = k.blockID /\ Marked(k).status = k.status
         /\ Marked(k).fd = k.fd /\ Marked(k).thread = k.thread
  BY DEF Marked, ABlock

(* A request joins the thread of a block that is in the list.              *)
LEMMA JoinParts ==
  ASSUME IInv, NEW r \in Reader, NEW p \in Listed, NEW l \in {"old", "look"},
         pc[r] \in {"old", "look", "wait"}, pc[r] = "old" <=> l = "old",
         ~setting.overlap => ~pblock[p].threadJoined, Join(p),
         pc' = [pc EXCEPT ![r] = l],
         UNCHANGED <<setting, handleVars, lockVars, localVars>>
  PROVE  IInv'
<1>0. pblock \in [PBlock -> ABlock] /\ p \in PBlock /\ joins \in [PBlock -> Nat]
  BY Types DEF IInv, TypeOK, ABlock
<1>a. /\ pblock' = [pblock EXCEPT ![p] = Marked(pblock[p])]
      /\ joins' = [joins EXCEPT ![p] = joins[p] + 1]
      /\ UNCHANGED <<opened, pblocks>>
  BY <1>0 DEF Join, Marked
<1>1. /\ pblock' \in [PBlock -> ABlock] /\ joins' \in [PBlock -> Nat]
      /\ pblock'[p].threadJoined = TRUE /\ joins'[p] = joins[p] + 1
      /\ \A q \in PBlock :
           /\ pblock'[q].blockID = pblock[q].blockID /\ pblock'[q].fd = pblock[q].fd
           /\ pblock'[q].status = pblock[q].status /\ pblock'[q].thread = pblock[q].thread
      /\ \A q \in PBlock \ {p} : pblock'[q] = pblock[q] /\ joins'[q] = joins[q]
  <2>1. \A q \in PBlock : pblock'[q] = IF q = p THEN Marked(pblock[p]) ELSE pblock[q]
    BY <1>0, <1>a
  <2>2. pblock[p] \in ABlock
    BY <1>0
  <2>3. /\ Marked(pblock[p]) \in ABlock /\ Marked(pblock[p]).threadJoined = TRUE
        /\ Marked(pblock[p]).blockID = pblock[p].blockID
        /\ Marked(pblock[p]).status = pblock[p].status
        /\ Marked(pblock[p]).fd = pblock[p].fd /\ Marked(pblock[p]).thread = pblock[p].thread
    BY <2>2, MarkedIs
  <2>4. pblock' \in [PBlock -> ABlock]
    BY <1>0, <1>a, <2>3
  <2>5. /\ joins' \in [PBlock -> Nat] /\ joins'[p] = joins[p] + 1
        /\ \A q \in PBlock \ {p} : joins'[q] = joins[q]
    BY <1>0, <1>a
  <2>6. pblock'[p] = Marked(pblock[p]) /\ \A q \in PBlock \ {p} : pblock'[q] = pblock[q]
    BY <1>0, <2>1
  <2>7. pblock'[p].threadJoined = TRUE
    BY <2>3, <2>6
  <2>8. /\ pblock'[p].blockID = pblock[p].blockID /\ pblock'[p].fd = pblock[p].fd
        /\ pblock'[p].status = pblock[p].status /\ pblock'[p].thread = pblock[p].thread
    BY <2>3, <2>6
  <2>9. \A q \in PBlock :
           /\ pblock'[q].blockID = pblock[q].blockID /\ pblock'[q].fd = pblock[q].fd
           /\ pblock'[q].status = pblock[q].status /\ pblock'[q].thread = pblock[q].thread
    BY <2>6, <2>8
  <2> QED
    BY <2>4, <2>5, <2>6, <2>7, <2>9
<1>2. pblock[p] # NoPBlock
  BY DEF IInv, BlocksReachable, Allocated
<1>3. pblock'[p] # NoPBlock
  BY <1>1 DEF NoPBlock
<1>4. Allocated' = Allocated
  BY <1>1, <1>2, <1>3 DEF Allocated
<1>5. /\ pc'[r] = l /\ \A o \in Reader \ {r} : pc'[o] = pc[o]
      /\ pc' \in [Reader -> {"idle", "scan", "old", "first", "take", "look", "wait",
                             "fill", "fallback"}]
  BY DEF IInv, TypeOK
<1>b. UNCHANGED <<setting, file, mapped, left, writer, readers, asked, recycleList,
                  missing, todo, readSize>>
  BY DEF handleVars, lockVars, localVars
<1>6. TypeOK'
  <2>1. \A q \in PBlock :
          pblock'[q].status = "RUNNING" <=> pblock'[q].thread \in {"opening", "reading"}
    BY <1>1 DEF IInv, TypeOK
  <2>2. \A o \in Reader : /\ writer' = o <=> pc'[o] = "old"
                          /\ o \in readers' <=> pc'[o] \in {"look", "wait"}
    BY <1>5, <1>b DEF IInv, TypeOK
  <2> QED
    BY <1>1, <1>5, <1>a, <1>b, <2>1, <2>2 DEF IInv, TypeOK, ABlock
<1>7. Standing'
  BY <1>4, <1>5, <1>b DEF IInv, Standing, Handing, Reading
<1>8. Owned'
  BY <1>1, <1>a DEF IInv, Owned, FilesOwned
<1>9. BlocksReachable' /\ (~setting.overlap => Distinct')
  BY <1>1, <1>4, <1>a, <1>b, MarkedOnly
<1>10. GivenAway'
  <2> SUFFICES ASSUME NEW o \in Reader, NEW q \in Recycled(o)
               PROVE  DoneWith(q)'
    BY <1>b DEF GivenAway, Recycled
  <2>1. DoneWith(q) /\ q \in PBlock
    BY Types DEF IInv, GivenAway
  <2>2. /\ pblock'[q].status = pblock[q].status /\ pblock'[q].thread = pblock[q].thread
        /\ pblock'[q].fd = pblock[q].fd
        /\ pblock[q].threadJoined => pblock'[q].threadJoined
    BY <1>1, <2>1
  <2> QED
    BY <1>b, <2>1, <2>2 DEF DoneWith, Recyclable
<1>11. OldOnes'
  BY <1>1, <1>5, <1>a, <1>b, Types, OldSame DEF IInv
<1>12. Waiting'
  BY <1>1, <1>5, <1>a, <1>b, Types, WaitSame DEF IInv, Waiting
<1>13. ~setting.overlap => JoinsCounted'
  <2> SUFFICES ASSUME ~setting.overlap, NEW q \in Allocated
               PROVE  joins'[q] = IF pblock'[q].threadJoined THEN 1 ELSE 0
    BY <1>4 DEF JoinsCounted
  <2>1. joins[q] = IF pblock[q].threadJoined THEN 1 ELSE 0
    BY DEF IInv, Serially, JoinsCounted
  <2>2. CASE q = p
    BY <1>1, <2>1, <2>2
  <2>3. CASE q # p
    BY <1>1, <2>1, <2>3 DEF Allocated
  <2> QED
    BY <2>2, <2>3
<1>14. ~setting.overlap => Working(r)'
  <2> SUFFICES ASSUME ~setting.overlap PROVE Working(r)'
    OBVIOUS
  <2>1. Working(r)
    BY DEF IInv, Serially
  <2>2. pc'[r] \in Handing => Filling(r)'
    <3> SUFFICES ASSUME pc'[r] \in Handing PROVE Filling(r)'
      OBVIOUS
    <3>1. Filling(r)
      BY <1>5, <2>1 DEF Working, Handing
    <3> QED
      BY <1>1, <1>5, <1>a, <1>b, <3>1, Types, FillingSame DEF IInv
  <2>3. ~setting.noThread => Found(r)'
    BY <1>5, <1>b, <2>1 DEF Working, Found
  <2> QED
    BY <1>5, <1>b, <2>2, <2>3 DEF Working
<1>15. Serially'
  BY <1>5, <1>b, <1>9, <1>13, <1>14, SeriallyBy
<1> QED
  BY <1>6, <1>7, <1>8, <1>9, <1>10, <1>11, <1>12, <1>15 DEF IInv

LEMMA JoinOldIInv ==
  ASSUME IInv, NEW r \in Reader, JoinOld(r)
  PROVE  IInv'
<1>1. PICK i \in DOMAIN todo[r] : /\ ~pblock[todo[r][i]].threadJoined
                                  /\ Join(todo[r][i])
  BY DEF JoinOld
<1>2. todo[r][i] \in Listed
  BY DEF JoinOld, IInv, OldOnes, ToSet
<1>3. /\ pc[r] = "old" /\ pc' = [pc EXCEPT ![r] = "old"]
      /\ UNCHANGED <<setting, handleVars, lockVars, localVars>>
  BY DEF JoinOld, IInv, TypeOK
<1> QED
  BY <1>1, <1>2, <1>3, JoinParts

LEMMA JoinedIInv ==
  ASSUME IInv, NEW r \in Reader, Joined(r)
  PROVE  IInv'
<1>1. /\ pc[r] = "wait" /\ pc' = [pc EXCEPT ![r] = "look"] /\ Join(Head(todo[r]))
      /\ UNCHANGED <<setting, handleVars, lockVars, localVars>>
  BY DEF Joined, Goto
<1>2. Head(todo[r]) \in Listed
  <2>1. todo[r] # <<>> /\ todo[r] \in Seq(PBlock)
    BY <1>1, Types DEF IInv, Waiting
  <2> QED
    BY <1>1, <2>1, SetOf DEF IInv, Waiting
<1>3. ~setting.overlap => ~pblock[Head(todo[r])].threadJoined
  BY <1>1 DEF IInv, Serially, Working
<1> QED
  BY <1>1, <1>2, <1>3, JoinParts

(* A request finds a block that it has to wait for.                        *)
LEMMA LookIInv ==
  ASSUME IInv, NEW r \in Reader, Look(r)
  PROVE  IInv'
<1>1. /\ pc[r] = "look" /\ todo[r] # <<>> /\ ~pblock[Head(todo[r])].threadJoined
      /\ UNCHANGED <<setting, handleVars, lockVars, localVars>>
  BY DEF Look
<1>2. CASE Goto(r, "wait") /\ UNCHANGED blockVars
  <2>1. pc' = [pc EXCEPT ![r] = "wait"]
    BY <1>2 DEF Goto
  <2>2. TypeOK'
    BY <1>1, <1>2, <2>1 DEF IInv, TypeOK, blockVars, handleVars, lockVars, localVars
  <2>3. Standing'
    BY <1>1, <1>2, <2>1 DEF IInv, Standing, Allocated, blockVars, handleVars, localVars,
                            Handing, Reading, TypeOK
  <2>4. /\ Owned' /\ BlocksReachable' /\ GivenAway'
        /\ ~setting.overlap => Distinct' /\ JoinsCounted'
    BY <1>1, <1>2, BlocksSame DEF localVars
  <2>5. OldOnes'
    BY <1>1, <1>2, <2>1, OldSame DEF IInv, TypeOK, blockVars, localVars
  <2>6. Waiting'
    BY <1>1, <1>2, <2>1, WaitSame DEF IInv, TypeOK, blockVars, localVars, Waiting
  <2>7. ~setting.overlap => Working(r)'
    <3> SUFFICES ASSUME ~setting.overlap PROVE Working(r)'
      OBVIOUS
    <3>1. Filling(r) /\ (~setting.noThread => Found(r))
      BY <1>1 DEF IInv, Serially, Working, Handing
    <3>2. Filling(r)'
      BY <1>1, <1>2, <2>1, <3>1, FillingSame DEF IInv, TypeOK, blockVars, localVars
    <3> QED
      BY <1>1, <1>2, <2>1, <3>1, <3>2 DEF Working, Found, IInv, TypeOK, blockVars,
                                          localVars
  <2>8. Serially'
    BY <1>1, <2>1, <2>4, <2>7, SeriallyBy DEF IInv, TypeOK
  <2> QED
    BY <2>2, <2>3, <2>4, <2>5, <2>6, <2>8 DEF IInv
<1>3. CASE Join(Head(todo[r])) /\ UNCHANGED pc
  <2>1. Head(todo[r]) \in Listed
    BY <1>1, Types, SetOf DEF IInv, Waiting
  <2>2. pc' = [pc EXCEPT ![r] = "look"]
    BY <1>1, <1>3 DEF IInv, TypeOK
  <2> QED
    BY <1>1, <1>3, <2>1, <2>2, JoinParts
<1> QED
  BY <1>2, <1>3 DEF Look

-----------------------------------------------------------------------------
(* The steps that free blocks. *)

(* Blocks that have nothing in common are as many as their numbers.        *)
NumbersOf(k, L) == {k[p].blockID : p \in L}

LEMMA IDsCounted ==
  ASSUME NEW k, NEW L \in SUBSET PBlock,
         \A p, q \in L : k[p].blockID = k[q].blockID => p = q
  PROVE  IsFiniteSet(NumbersOf(k, L)) /\ Cardinality(NumbersOf(k, L)) = Cardinality(L)
<1> DEFINE I == {k[p].blockID : p \in L}
           f == [p \in L |-> k[p].blockID]
<1>1. IsFiniteSet(L)
  BY BlocksFinite
<1>2. f \in Bijection(L, I)
  BY DEF Bijection, Injection, Surjection, IsInjective
<1>3. ExistsBijection(L, I)
  BY <1>2 DEF ExistsBijection
<1> HIDE DEF I
<1>4. IsFiniteSet(I) /\ Cardinality(I) = Cardinality(L)
  BY <1>1, <1>3, FS_Bijection
<1> QED
  BY <1>4 DEF I, NumbersOf

LEMMA FitIn ==
  ASSUME NEW k, NEW L \in SUBSET PBlock, NEW W, IsFiniteSet(W),
         \A p \in L : k[p].blockID \in W,
         \A p, q \in L : k[p].blockID = k[q].blockID => p = q
  PROVE  Cardinality(L) <= Cardinality(W)
<1> DEFINE I == NumbersOf(k, L)
<1>1. I \in SUBSET W
  BY DEF NumbersOf
<1>2. Cardinality(I) = Cardinality(L)
  BY IDsCounted
<1> HIDE DEF I
<1> QED
  BY <1>1, <1>2, FS_Subset

LEMMA WindowCount ==
  ASSUME TypeOK, NEW b \in 0..LastBlock
  PROVE  /\ IsFiniteSet(Window(b)) /\ Cardinality(Window(b)) = g_preloadNumBlocks + 1
         /\ b \in Window(b)
<1>1. PICK n \in Nat : n = g_preloadNumBlocks
  BY WindowType
<1>2. b \in Nat /\ b + n \in Nat
  BY NumAssumption
<1>3. IsFiniteSet(b..(b + n)) /\ Cardinality(b..(b + n)) = n + 1
  <2>1. /\ IsFiniteSet(b..(b + n))
        /\ Cardinality(b..(b + n)) = IF b > b + n THEN 0 ELSE b + n - b + 1
    BY <1>2, FS_Interval
  <2> QED
    BY <1>2, <2>1
<1> QED
  BY <1>1, <1>2, <1>3 DEF Window

LEMMA CountLess ==
  ASSUME NEW S, IsFiniteSet(S), NEW T \in SUBSET S
  PROVE  Cardinality(S \ T) = Cardinality(S) - Cardinality(T)
<1>1. S \cap T = T
  OBVIOUS
<1>2. Cardinality(S \ T) = Cardinality(S) - Cardinality(S \cap T)
  BY FS_Difference, ZenonT(30)
<1> QED
  BY <1>1, <1>2

(* What leaves the list makes room for what is missing.                    *)
LEMMA RoomLeft ==
  ASSUME NEW L \in SUBSET PBlock, NEW O \in SUBSET L, NEW k,
         NEW W, NEW M \in SUBSET W,
         IsFiniteSet(W), Cardinality(L) <= Cardinality(W),
         \A p, q \in L : k[p].blockID = k[q].blockID => p = q,
         NumbersOf(k, L \ O) = W \ M
  PROVE  Cardinality(O) <= Cardinality(M)
<1>1. /\ IsFiniteSet(L) /\ IsFiniteSet(O) /\ IsFiniteSet(M)
      /\ Cardinality(L) \in Nat /\ Cardinality(O) \in Nat /\ Cardinality(M) \in Nat
      /\ Cardinality(W) \in Nat
  BY BlocksFinite, FS_Subset, FS_CardinalityType
<1>2. Cardinality(L \ O) = Cardinality(L) - Cardinality(O)
  BY <1>1, CountLess, ZenonT(30)
<1>3. Cardinality(W \ M) = Cardinality(W) - Cardinality(M)
  BY <1>1, CountLess, ZenonT(30)
<1>4. Cardinality(W \ M) = Cardinality(L \ O)
  <2>1. L \ O \in SUBSET PBlock
    OBVIOUS
  <2>2. \A p, q \in L \ O : k[p].blockID = k[q].blockID => p = q
    OBVIOUS
  <2>3. Cardinality(NumbersOf(k, L \ O)) = Cardinality(L \ O)
    BY <2>1, <2>2, IDsCounted, ZenonT(30)
  <2> QED
    BY <2>3
<1> QED
  BY <1>1, <1>2, <1>3, <1>4

LEMMA FreedIs ==
  ASSUME IInv, NEW S \in SUBSET PBlock, FreeBlocks(S)
  PROVE  /\ pblock' \in [PBlock -> ABlock]
         /\ \A q \in PBlock : pblock'[q] = IF q \in S THEN NoPBlock ELSE pblock[q]
         /\ \A q \in PBlock :
              pblock'[q].status = "RUNNING" <=> pblock'[q].thread \in {"opening", "reading"}
         /\ joins' \in [PBlock -> Nat]
         /\ Owned' /\ opened' \in Nat
         /\ Allocated' = Allocated \ S
         /\ ~setting.overlap => JoinsCounted'
<1>0. pblock \in [PBlock -> ABlock] /\ joins \in [PBlock -> Nat]
  BY DEF IInv, TypeOK, ABlock
<1>1. NoPBlock \in ABlock
  BY NumAssumption DEF NoPBlock, ABlock, AnyBlock
<1>2. /\ pblock' \in [PBlock -> ABlock]
      /\ \A q \in PBlock : pblock'[q] = IF q \in S THEN NoPBlock ELSE pblock[q]
  BY <1>0, <1>1 DEF FreeBlocks
<1>3. NoPBlock.status = "INIT" /\ NoPBlock.thread = "none" /\ NoPBlock.fd = FALSE
  BY DEF NoPBlock
<1>4. \A q \in PBlock :
        pblock'[q].status = "RUNNING" <=> pblock'[q].thread \in {"opening", "reading"}
  <2>1. \A q \in PBlock :
          pblock[q].status = "RUNNING" <=> pblock[q].thread \in {"opening", "reading"}
    BY DEF IInv, TypeOK
  <2> HIDE DEF NoPBlock
  <2> SUFFICES ASSUME NEW q \in PBlock
               PROVE  pblock'[q].status = "RUNNING"
                        <=> pblock'[q].thread \in {"opening", "reading"}
    OBVIOUS
  <2>2. CASE q \in S
    BY <1>2, <1>3, <2>2
  <2>3. CASE q \notin S
    BY <1>2, <2>1, <2>3
  <2> QED
    BY <2>2, <2>3
<1>5. /\ joins' \in [PBlock -> Nat]
      /\ \A q \in PBlock \ S : joins'[q] = joins[q]
  BY <1>0 DEF FreeBlocks
<1>6. Allocated' = Allocated \ S
  BY <1>2 DEF Allocated
<1>7. opened' = Cardinality({p \in PBlock : pblock'[p].fd}) /\ opened' \in Nat
  <2> DEFINE F == {p \in PBlock : pblock[p].fd}
             X == {p \in S : pblock[p].fd}
  <2>1. {p \in PBlock : pblock'[p].fd} = F \ X
    BY <1>2, <1>3
  <2>2. F \cap X = X /\ F \in SUBSET PBlock
    OBVIOUS
  <2>3. opened = Cardinality(F) /\ opened' = opened - Cardinality(X)
    BY DEF IInv, Owned, FilesOwned, FreeBlocks
  <2> HIDE DEF F, X
  <2>4. IsFiniteSet(F) /\ IsFiniteSet(F \ X) /\ IsFiniteSet(X)
    BY <2>2, BlocksFinite, FS_Subset
  <2>5. Cardinality(F \ X) = Cardinality(F) - Cardinality(X)
    BY <2>2, <2>4, FS_Difference
  <2> QED
    BY <2>1, <2>3, <2>4, <2>5, FS_CardinalityType
<1>8. Owned'
  BY <1>2, <1>3, <1>7 DEF IInv, Owned, FilesOwned
<1>9. ~setting.overlap => JoinsCounted'
  BY <1>2, <1>5, <1>6 DEF IInv, Serially, JoinsCounted, Allocated
<1> QED
  BY <1>2, <1>4, <1>5, <1>6, <1>7, <1>8, <1>9

LEMMA ReachableSo ==
  ASSUME \A p : p \in Allocated' <=>
                  p \in Listed' \/ \E o \in Reader : p \in ToSet(recycleList'[o]),
         IsInjective(pblocks'),
         \A o \in Reader :
            /\ IsInjective(recycleList'[o])
            /\ ToSet(recycleList'[o]) \cap Listed' = {}
            /\ \A u \in Reader \ {o} : ToSet(recycleList'[o]) \cap ToSet(recycleList'[u]) = {}
  PROVE  BlocksReachable'
<1>1. UNION {ToSet(recycleList'[o]) : o \in Reader}
        = {p \in Allocated' : \E o \in Reader : p \in ToSet(recycleList'[o])}
  OBVIOUS
<1>2. Allocated' = Listed' \cup UNION {ToSet(recycleList'[o]) : o \in Reader}
  BY <1>1
<1> QED
  BY <1>2 DEF BlocksReachable, Recycled

(* Blocks leave the list.                                                  *)
LEMMA DistinctLess ==
  ASSUME TypeOK, Distinct, UNCHANGED setting, Listed' \subseteq Listed,
         \A p \in Listed' : pblock'[p] = pblock[p]
  PROVE  Distinct'
<1>1. IsFiniteSet(Listed) /\ Cardinality(Listed) \in Nat /\ Listed \subseteq PBlock
  BY Types, BlocksFinite
<1>2. Cardinality(Listed') <= Cardinality(Listed) /\ Cardinality(Listed') \in Nat
  BY <1>1, FS_Subset, FS_CardinalityType
<1>3. g_preloadNumBlocks' = g_preloadNumBlocks /\ g_preloadNumBlocks \in Nat
  BY WindowType DEF g_preloadNumBlocks
<1>4. Cardinality(Listed') <= g_preloadNumBlocks' + 1
  BY <1>1, <1>2, <1>3 DEF Distinct
<1> QED
  BY <1>4 DEF Distinct

LEMMA FreeNextIInv ==
  ASSUME IInv, FreeNext
  PROVE  IInv'
<1>1. /\ file = "closing" /\ pblocks # <<>>
      /\ FreeBlocks({Head(pblocks)}) /\ pblocks' = Tail(pblocks)
      /\ UNCHANGED <<setting, file, mapped, left, writer, readers, pc, asked,
                     recycleList, missing, todo, readSize>>
  BY DEF FreeNext, handleVars, lockVars, localVars
<1>2. /\ \A r \in Reader : pc[r] = "idle"
      /\ Allocated = Listed /\ \A r \in Reader : Recycled(r) = {}
  BY <1>1, IdleListed DEF IInv, Standing
<1>3. pblocks \in Seq(PBlock) /\ IsInjective(pblocks) /\ Head(pblocks) \in PBlock
  BY <1>1, Types, SetOf DEF IInv, BlocksReachable
<1>4. Tail(pblocks) \in Seq(PBlock) /\ Listed' = Listed \ {Head(pblocks)}
      /\ IsInjective(pblocks')
  BY <1>1, <1>3, TailIs, TailSet DEF Listed
<1>5. /\ pblock' \in [PBlock -> ABlock]
      /\ \A q \in PBlock : pblock'[q] = IF q = Head(pblocks) THEN NoPBlock ELSE pblock[q]
      /\ \A q \in PBlock :
           pblock'[q].status = "RUNNING" <=> pblock'[q].thread \in {"opening", "reading"}
      /\ joins' \in [PBlock -> Nat]
      /\ Owned' /\ opened' \in Nat
      /\ Allocated' = Allocated \ {Head(pblocks)}
      /\ ~setting.overlap => JoinsCounted'
  BY <1>1, <1>3, FreedIs
<1>6. TypeOK'
  BY <1>1, <1>4, <1>5 DEF IInv, TypeOK, ABlock
<1>7. Standing'
  BY <1>1 DEF IInv, Standing
<1>8. BlocksReachable'
  <2>1. \A o \in Reader : ToSet(recycleList'[o]) = {} /\ IsInjective(recycleList'[o])
    BY <1>1, <1>2 DEF Recycled, IInv, BlocksReachable
  <2> QED
    BY <1>2, <1>4, <1>5, <2>1, ReachableSo
<1>9. GivenAway' /\ OldOnes' /\ Waiting'
  BY <1>1, <1>2 DEF GivenAway, Recycled, OldOnes, Waiting
<1>10. Serially'
  <2>1. ~setting.overlap => Distinct'
    BY <1>1, <1>4, <1>5, Types, DistinctLess DEF IInv, Serially
  <2> QED
    BY <1>1, <1>2, <1>5, <2>1 DEF Serially, OneRequest, Working, Handing, Found
<1> QED
  BY <1>5, <1>6, <1>7, <1>8, <1>9, <1>10 DEF IInv

(* The old blocks leave the list, and those that have no open file are     *)
(* freed.  What is left of them is no more than what is missing.           *)
LEMMA DropOldIInv ==
  ASSUME IInv, NEW r \in Reader, DropOld(r)
  PROVE  IInv'
<1> DEFINE old == ToSet(todo[r])
           b == asked[r].block
           S == {p \in old : ~Recyclable(p)}
           K == Kept(todo[r], {p \in PBlock : Recyclable(p)})
           l == IF b \in missing[r] THEN "first" ELSE "take"
<1>1. /\ pc[r] = "old" /\ \A p \in old : pblock[p].threadJoined
      /\ pblocks' = Kept(pblocks, PBlock \ old)
      /\ recycleList' = [recycleList EXCEPT ![r] = K]
      /\ FreeBlocks(S)
      /\ todo' = [todo EXCEPT ![r] = <<>>]
      /\ writer' = NoReader
      /\ pc' = [pc EXCEPT ![r] = l]
      /\ UNCHANGED <<setting, file, mapped, left, readers, asked, missing, readSize>>
  BY DEF DropOld, Goto, handleVars
<1>2. /\ pblocks \in Seq(PBlock) /\ IsInjective(pblocks) /\ Listed \subseteq PBlock
      /\ todo[r] \in Seq(PBlock) /\ IsInjective(todo[r])
      /\ old = {p \in Listed : pblock[p].blockID \notin Window(b)}
      /\ missing[r] = Missing(b)
  BY <1>1, Types DEF IInv, BlocksReachable, OldOnes
<1>3. old \subseteq Listed /\ S \subseteq old /\ S \in SUBSET PBlock
  BY <1>2
<1>4. /\ pblocks' \in Seq(PBlock) /\ IsInjective(pblocks') /\ Listed' = Listed \ old
  <2>1. ToSet(pblocks') = ToSet(pblocks) \cap (PBlock \ old)
    BY <1>1, <1>2, KeptSet
  <2> QED
    BY <1>1, <1>2, <2>1, KeptType, KeptInjective DEF Listed
<1>5. K \in Seq(PBlock) /\ IsInjective(K) /\ ToSet(K) = old \ S
  <2>1. ToSet(K) = old \cap {p \in PBlock : Recyclable(p)}
    BY <1>2, KeptSet
  <2> QED
    BY <1>2, <1>3, <2>1, KeptType, KeptInjective
<1>6. /\ pblock' \in [PBlock -> ABlock]
      /\ \A q \in PBlock : pblock'[q] = IF q \in S THEN NoPBlock ELSE pblock[q]
      /\ \A q \in PBlock :
           pblock'[q].status = "RUNNING" <=> pblock'[q].thread \in {"opening", "reading"}
      /\ joins' \in [PBlock -> Nat]
      /\ Owned' /\ opened' \in Nat
      /\ Allocated' = Allocated \ S
      /\ ~setting.overlap => JoinsCounted'
  BY <1>1, <1>3, FreedIs
<1> HIDE DEF S, K, old
<1>7. /\ pc'[r] = l /\ recycleList'[r] = K /\ todo'[r] = <<>>
      /\ \A o \in Reader \ {r} : /\ pc'[o] = pc[o] /\ recycleList'[o] = recycleList[o]
                                 /\ todo'[o] = todo[o]
      /\ l \in {"first", "take"}
  BY <1>1 DEF IInv, TypeOK
<1>8. writer = r /\ readers = {} /\ file = "open"
  BY <1>1, ReaderAssumption DEF IInv, TypeOK, Standing
<1>9. recycleList[r] = <<>> /\ readSize[r] = "none"
  BY <1>1, <1>8 DEF IInv, Standing, Handing, Reading
<1>10. TypeOK'
  <2>1. \A o \in Reader : /\ writer' = o <=> pc'[o] = "old"
                          /\ o \in readers' <=> pc'[o] \in {"look", "wait"}
    BY <1>1, <1>7, <1>8, ReaderAssumption DEF IInv, TypeOK
  <2>2. /\ recycleList' \in [Reader -> Seq(PBlock)] /\ todo' \in [Reader -> Seq(PBlock)]
        /\ pc' \in [Reader -> {"idle", "scan", "old", "first", "take", "look", "wait",
                               "fill", "fallback"}]
    <3>1. <<>> \in Seq(PBlock)
      OBVIOUS
    <3> QED
      BY <1>1, <1>5, <1>7, <3>1 DEF IInv, TypeOK
  <2>3. writer' \in Reader \cup {NoReader} /\ readers' = {}
    BY <1>1, <1>8
  <2>4. /\ setting' \in Setting /\ left' \in Nat
        /\ file' \in {"closed", "open", "closing", "lost", "crashed"} /\ mapped' \in BOOLEAN
        /\ asked' \in [Reader -> [block : 0..LastBlock, more : 0..1]]
        /\ missing' \in [Reader -> SUBSET AnyBlock]
        /\ readSize' \in [Reader -> {"none", "failed", "eof", "data"}]
        /\ \A o \in Reader : asked'[o].block + asked'[o].more <= LastBlock
    BY <1>1 DEF IInv, TypeOK
  <2> QED
    BY <1>4, <1>6, <2>1, <2>2, <2>3, <2>4 DEF TypeOK, ABlock
<1>11. Standing'
  BY <1>1, <1>7, <1>8, <1>9 DEF IInv, Standing, Handing, Reading
<1>12. BlocksReachable'
  <2>1. Recycled(r) = {} /\ \A o \in Reader : Recycled(o) \cap Listed = {}
    BY <1>9, SetOfEmpty DEF Recycled, IInv, BlocksReachable
  <2>2. \A p : p \in Allocated <=> p \in Listed \/ \E o \in Reader \ {r} : p \in Recycled(o)
    BY <2>1 DEF IInv, BlocksReachable
  <2>3. \A o \in Reader \ {r} : ToSet(recycleList'[o]) = Recycled(o)
    BY <1>7 DEF Recycled
  <2>4. ToSet(recycleList'[r]) = old \ S
    BY <1>5, <1>7
  <2>5. \A p : p \in Allocated' <=>
                  p \in Listed' \/ \E o \in Reader : p \in ToSet(recycleList'[o])
    <3>1. \A o \in Reader \ {r} : \A p \in Recycled(o) : p \notin S
      BY <1>3, <2>1
    <3> QED
      BY <1>3, <1>4, <1>6, <2>2, <2>3, <2>4, <3>1
  <2>6. \A o \in Reader : IsInjective(recycleList'[o])
    BY <1>5, <1>7 DEF IInv, BlocksReachable
  <2>7. \A o \in Reader : ToSet(recycleList'[o]) \cap Listed' = {}
    BY <1>4, <2>1, <2>3, <2>4
  <2>8. \A o \in Reader : \A u \in Reader \ {o} :
           ToSet(recycleList'[o]) \cap ToSet(recycleList'[u]) = {}
    <3> SUFFICES ASSUME NEW o \in Reader, NEW u \in Reader \ {o}
                 PROVE  ToSet(recycleList'[o]) \cap ToSet(recycleList'[u]) = {}
      OBVIOUS
    <3>1. CASE o # r /\ u # r
      BY <2>3, <3>1 DEF IInv, BlocksReachable
    <3>2. CASE o = r
      BY <1>3, <2>1, <2>3, <2>4, <3>2
    <3>3. CASE u = r
      BY <1>3, <2>1, <2>3, <2>4, <3>3
    <3> QED
      BY <3>1, <3>2, <3>3
  <2> QED
    BY <1>4, <2>5, <2>6, <2>7, <2>8, ReachableSo
<1>13. GivenAway'
  <2> SUFFICES ASSUME NEW o \in Reader, NEW p \in ToSet(recycleList'[o])
               PROVE  DoneWith(p)'
    BY DEF GivenAway, Recycled
  <2>1. DoneWith(p) /\ p \in PBlock /\ p \notin S
    <3>1. CASE o = r
      <4>1. p \in old \ S
        BY <1>5, <1>7, <3>1
      <4> QED
        BY <1>1, <1>2, <1>3, <4>1 DEF S, DoneWith
    <3>2. CASE o # r
      <4>1. p \in Recycled(o)
        BY <1>7, <3>2 DEF Recycled
      <4> QED
        BY <1>3, <4>1, Types DEF IInv, GivenAway, BlocksReachable
    <3> QED
      BY <3>1, <3>2
  <2>2. pblock'[p] = pblock[p]
    BY <1>6, <2>1
  <2> QED
    BY <2>1, <2>2 DEF DoneWith, Recyclable
<1>14. OldOnes' /\ Waiting'
  BY <1>1, <1>8, <1>10, OldNone, WaitNone
<1>15. ~setting.overlap => Distinct'
  BY <1>1, <1>2, <1>3, <1>4, <1>6, DistinctLess DEF IInv, Serially
<1>16. ~setting.overlap => Working(r)'
  <2> SUFFICES ASSUME ~setting.overlap PROVE Working(r)'
    OBVIOUS
  <2>1. TypeOK /\ Distinct
    BY DEF IInv, Serially
  <2>2. b \in 0..LastBlock
    BY Types DEF IInv
  <2>3. Window(b)' = Window(b) /\ g_preloadNumBlocks' = g_preloadNumBlocks
    BY <1>1 DEF Window, g_preloadNumBlocks
  <2>4. BlockIDs' = {pblock[p].blockID : p \in Listed \ old}
    BY <1>2, <1>3, <1>4, <1>6 DEF BlockIDs
  <2>5. BlockIDs' = Window(b) \ missing[r] /\ missing[r] \subseteq Window(b)
    BY <1>2, <2>4 DEF Missing
  <2>6. /\ IsFiniteSet(Window(b)) /\ Cardinality(Window(b)) = g_preloadNumBlocks + 1
        /\ g_preloadNumBlocks + 1 \in Nat
    BY <2>1, <2>2, WindowCount, WindowType
  <2>7. Cardinality(old) <= Cardinality(missing[r])
    <3>1. /\ Cardinality(Listed) <= g_preloadNumBlocks + 1
          /\ \A p, q \in Listed : pblock[p].blockID = pblock[q].blockID => p = q
      BY <2>1 DEF Distinct
    <3>2. \A p, q \in Listed : pblock[p].blockID = pblock[q].blockID => p = q
      BY <3>1
    <3>3. IsFiniteSet(Window(b)) /\ Cardinality(Listed) <= Cardinality(Window(b))
      BY <2>6, <3>1
    <3>4. NumbersOf(pblock, Listed \ old) = Window(b) \ missing[r]
      BY <2>4, <2>5 DEF NumbersOf
    <3>5. Listed \in SUBSET PBlock /\ old \in SUBSET Listed /\ missing[r] \in SUBSET Window(b)
      BY <1>2, <1>3, <2>5
    <3> QED
      BY <3>2, <3>3, <3>4, <3>5, RoomLeft, ZenonT(30)
  <2>8. Cardinality(ToSet(K)) <= Cardinality(missing[r])
    <3>1. IsFiniteSet(old) /\ IsFiniteSet(ToSet(K)) /\ IsFiniteSet(missing[r])
      BY <1>2, <1>3, <1>5, <2>5, <2>6, BlocksFinite, FS_Subset
    <3>2. Cardinality(ToSet(K)) <= Cardinality(old)
      BY <1>5, <3>1, FS_Subset
    <3> QED
      BY <2>7, <3>1, <3>2, FS_CardinalityType
  <2>9. Filling(r)'
    BY <1>1, <1>7, <2>3, <2>5, <2>8 DEF Filling, Recycled, Window, g_preloadNumBlocks
  <2> QED
    BY <1>7, <2>9 DEF Working, Found
<1>17. Serially'
  BY <1>1, <1>6, <1>7, <1>15, <1>16, SeriallyBy
<1> QED
  BY <1>6, <1>10, <1>11, <1>12, <1>13, <1>14, <1>17 DEF IInv

-----------------------------------------------------------------------------
(* The steps that start blocks.  N is what is new: one block, or nothing   *)
(* if its thread cannot be made.                                           *)

LEMMA OneLess ==
  ASSUME NEW M, IsFiniteSet(M), NEW b \in M, NEW R, IsFiniteSet(R),
         Cardinality(R) <= Cardinality(M), NEW h, R = {} \/ h \in R
  PROVE  Cardinality(R \ {h}) <= Cardinality(M \ {b})
<1>1. Cardinality(M) \in Nat /\ Cardinality(R) \in Nat
  BY FS_CardinalityType
<1>2. Cardinality(M \ {b}) = Cardinality(M) - 1
  BY FS_RemoveElement
<1>3. CASE R = {}
  <2>1. R \ {h} = {}
    BY <1>3
  <2>2. Cardinality(R \ {h}) = 0
    BY <2>1, FS_EmptySet
  <2>3. Cardinality(M) # 0
    BY FS_EmptySet
  <2> QED
    BY <1>1, <1>2, <2>2, <2>3
<1>4. CASE h \in R
  <2>1. Cardinality(R \ {h}) = Cardinality(R) - 1
    BY <1>4, FS_RemoveElement
  <2> QED
    BY <1>1, <1>2, <2>1
<1> QED
  BY <1>3, <1>4

(* The numbers of the blocks in the list, and one more.                    *)
LEMMA OneMore ==
  ASSUME NEW k, NEW h, NEW L, NEW N, NEW b, \A p \in L : h[p].blockID = k[p].blockID,
         \A p \in N : h[p].blockID = b
  PROVE  /\ NumbersOf(h, L \cup N) \subseteq NumbersOf(k, L) \cup {b}
         /\ NumbersOf(k, L) \subseteq NumbersOf(h, L \cup N)
         /\ N # {} => b \in NumbersOf(h, L \cup N)
  BY DEF NumbersOf

(* The blocks N take the place of the first block that was given away.     *)
Placing(r, b, N) ==
    /\ pblock' \in [PBlock -> ABlock]
    /\ \A q \in PBlock :
         pblock'[q].status = "RUNNING" <=> pblock'[q].thread \in {"opening", "reading"}
    /\ joins' \in [PBlock -> Nat] /\ Owned' /\ opened' \in Nat
    /\ \A p, q \in N : p = q
    /\ N \cap Allocated = {}
    /\ N = {} => setting.noThread
    /\ Allocated' = (Allocated \ FrontOf(recycleList[r])) \cup N
    /\ pblocks' \in Seq(PBlock) /\ IsInjective(pblocks') /\ Listed' = Listed \cup N
    /\ \A q \in Allocated \ FrontOf(recycleList[r]) : pblock'[q] = pblock[q]
    /\ \A q \in N : pblock'[q].blockID = b
    /\ ~setting.overlap => JoinsCounted'

LEMMA StartParts ==
  ASSUME IInv, NEW r \in Reader, NEW b \in AnyBlock, NEW l \in {"take", "fill"},
         NEW N \in SUBSET PBlock,
         pc[r] \in {"first", "fill"}, pc[r] = "fill" <=> l = "fill",
         pc[r] = "first" => b = asked[r].block,
         ~setting.overlap => b \in missing[r],
         writer = NoReader, readers = {},
         recycleList' = [recycleList EXCEPT ![r] = Rest(recycleList[r])],
         missing' = [missing EXCEPT ![r] = missing[r] \ {b}],
         pc' = [pc EXCEPT ![r] = l],
         UNCHANGED <<setting, file, mapped, left, writer, readers, asked, todo, readSize>>,
         Placing(r, b, N)
  PROVE  IInv'
<1> USE DEF Placing
<1> DEFINE old == FrontOf(recycleList[r])
<1>1. /\ recycleList[r] \in Seq(PBlock) /\ IsInjective(recycleList[r])
      /\ Recycled(r) \subseteq Allocated /\ Recycled(r) \cap Listed = {}
      /\ Listed \subseteq Allocated /\ Allocated \subseteq PBlock
  BY Types DEF IInv, BlocksReachable, Allocated
<1>2. /\ old \subseteq Recycled(r) /\ ToSet(Rest(recycleList[r])) = Recycled(r) \ old
      /\ IsInjective(Rest(recycleList[r])) /\ Rest(recycleList[r]) \in Seq(PBlock)
  BY <1>1, FrontSet, RestIs DEF Recycled
<1> HIDE DEF old
<1>3. /\ pc'[r] = l /\ recycleList'[r] = Rest(recycleList[r])
      /\ missing'[r] = missing[r] \ {b}
      /\ \A o \in Reader \ {r} : /\ pc'[o] = pc[o] /\ recycleList'[o] = recycleList[o]
                                 /\ missing'[o] = missing[o]
  BY DEF IInv, TypeOK
<1>4. file = "open"
  BY DEF IInv, Standing
<1>5. TypeOK'
  <2>1. \A o \in Reader : /\ writer' = o <=> pc'[o] = "old"
                          /\ o \in readers' <=> pc'[o] \in {"look", "wait"}
    BY <1>3, ReaderAssumption DEF IInv, TypeOK
  <2>2. /\ recycleList' \in [Reader -> Seq(PBlock)]
        /\ missing' \in [Reader -> SUBSET AnyBlock]
        /\ pc' \in [Reader -> {"idle", "scan", "old", "first", "take", "look", "wait",
                               "fill", "fallback"}]
    BY <1>2 DEF IInv, TypeOK
  <2>3. /\ setting' \in Setting /\ left' \in Nat
        /\ file' \in {"closed", "open", "closing", "lost", "crashed"} /\ mapped' \in BOOLEAN
        /\ asked' \in [Reader -> [block : 0..LastBlock, more : 0..1]]
        /\ todo' \in [Reader -> Seq(PBlock)]
        /\ readSize' \in [Reader -> {"none", "failed", "eof", "data"}]
        /\ \A o \in Reader : asked'[o].block + asked'[o].more <= LastBlock
        /\ writer' \in Reader \cup {NoReader} /\ readers' = {}
    BY DEF IInv, TypeOK
  <2> QED
    BY <2>1, <2>2, <2>3 DEF TypeOK, ABlock
<1>6. Standing'
  BY <1>3, <1>4 DEF IInv, Standing, Handing, Reading
<1>7. /\ ToSet(recycleList'[r]) = Recycled(r) \ old
      /\ \A o \in Reader \ {r} : /\ ToSet(recycleList'[o]) = Recycled(o)
                                 /\ Recycled(o) \cap Recycled(r) = {}
                                 /\ Recycled(o) \cap Listed = {}
                                 /\ Recycled(o) \subseteq Allocated
  <2>1. ToSet(recycleList'[r]) = Recycled(r) \ old
    BY <1>2, <1>3
  <2>2. \A o \in Reader \ {r} : ToSet(recycleList'[o]) = Recycled(o)
    BY <1>3 DEF Recycled
  <2>3. \A o \in Reader \ {r} : /\ Recycled(o) \cap Recycled(r) = {}
                                 /\ Recycled(o) \cap Listed = {}
                                 /\ Recycled(o) \subseteq Allocated
    BY DEF IInv, BlocksReachable
  <2> QED
    BY <2>1, <2>2, <2>3
<1>8. BlocksReachable'
  <2>1. \A p : p \in Allocated' <=>
                  p \in Listed' \/ \E o \in Reader : p \in ToSet(recycleList'[o])
    <3>1. \A p : p \in Allocated <=> p \in Listed \/ \E o \in Reader : p \in Recycled(o)
      BY DEF IInv, BlocksReachable
    <3>2. Allocated' = (Allocated \ old) \cup N
      BY DEF old
    <3>3. \A p : p \in Allocated \ old <=>
                  p \in Listed \/ p \in Recycled(r) \ old
                  \/ \E o \in Reader \ {r} : p \in Recycled(o)
      BY <1>1, <1>2, <1>7, <3>1
    <3>4. \A p : (\E o \in Reader : p \in ToSet(recycleList'[o])) <=>
                  p \in Recycled(r) \ old \/ \E o \in Reader \ {r} : p \in Recycled(o)
      BY <1>7
    <3> QED
      BY <3>2, <3>3, <3>4
  <2>2. \A o \in Reader : IsInjective(recycleList'[o])
    BY <1>2, <1>3 DEF IInv, BlocksReachable
  <2>3. \A o \in Reader : ToSet(recycleList'[o]) \cap Listed' = {}
    BY <1>1, <1>7
  <2>4. \A o \in Reader : \A u \in Reader \ {o} :
           ToSet(recycleList'[o]) \cap ToSet(recycleList'[u]) = {}
    <3> SUFFICES ASSUME NEW o \in Reader, NEW u \in Reader \ {o}
                 PROVE  ToSet(recycleList'[o]) \cap ToSet(recycleList'[u]) = {}
      OBVIOUS
    <3>1. CASE o # r /\ u # r
      BY <1>7, <3>1 DEF IInv, BlocksReachable
    <3>2. CASE o = r \/ u = r
      BY <1>7, <3>2
    <3> QED
      BY <3>1, <3>2
  <2> QED
    BY <2>1, <2>2, <2>3, <2>4, ReachableSo
<1>9. GivenAway'
  <2> SUFFICES ASSUME NEW o \in Reader, NEW p \in ToSet(recycleList'[o])
               PROVE  DoneWith(p)'
    BY DEF GivenAway, Recycled
  <2>1. DoneWith(p) /\ p \in Allocated \ old
    <3>1. CASE o = r
      BY <1>1, <1>7, <3>1 DEF IInv, GivenAway
    <3>2. CASE o # r
      BY <1>2, <1>7, <3>2 DEF IInv, GivenAway
    <3> QED
      BY <3>1, <3>2
  <2>2. pblock'[p] = pblock[p]
    BY <2>1 DEF old
  <2> QED
    BY <2>1, <2>2 DEF DoneWith, Recyclable
<1>10. OldOnes' /\ Waiting'
  BY <1>5, OldNone, WaitNone
<1>11. \A p \in Listed : pblock'[p] = pblock[p] /\ p \notin N
  BY <1>1, <1>2 DEF old
<1>12. ~setting.overlap => Distinct' /\ Working(r)'
  <2> SUFFICES ASSUME ~setting.overlap PROVE Distinct' /\ Working(r)'
    OBVIOUS
  <2> DEFINE a == asked[r].block
  <2>1. TypeOK /\ Distinct /\ Filling(r) /\ (~setting.noThread => Found(r))
    BY DEF IInv, Serially, Working, Handing
  <2>2. a \in 0..LastBlock /\ b \in missing[r]
    BY Types DEF IInv
  <2>3. Window(a)' = Window(a) /\ g_preloadNumBlocks' = g_preloadNumBlocks
    BY DEF Window, g_preloadNumBlocks
  <2>4. /\ missing[r] \subseteq Window(a) /\ BlockIDs \subseteq Window(a) \ missing[r]
        /\ ~setting.noThread => Window(a) \ missing[r] \subseteq BlockIDs
        /\ Cardinality(Recycled(r)) <= Cardinality(missing[r])
        /\ pc[r] = "first" <=> a \in missing[r]
    BY <2>1 DEF Filling
  <2>5. /\ BlockIDs' \subseteq BlockIDs \cup {b} /\ BlockIDs \subseteq BlockIDs'
        /\ N # {} => b \in BlockIDs'
    <3>1. \A p \in Listed : pblock'[p].blockID = pblock[p].blockID
      BY <1>11
    <3>2. BlockIDs' = NumbersOf(pblock', Listed \cup N)
      BY DEF BlockIDs, NumbersOf
    <3>3. BlockIDs = NumbersOf(pblock, Listed)
      BY DEF BlockIDs, NumbersOf
    <3>4. \A p \in N : pblock'[p].blockID = b
      OBVIOUS
    <3>5. /\ NumbersOf(pblock', Listed \cup N) \subseteq NumbersOf(pblock, Listed) \cup {b}
          /\ NumbersOf(pblock, Listed) \subseteq NumbersOf(pblock', Listed \cup N)
          /\ N # {} => b \in NumbersOf(pblock', Listed \cup N)
      BY <3>1, <3>4, OneMore, ZenonT(30)
    <3> QED
      BY <3>2, <3>3, <3>5
  <2>6. BlockIDs' \subseteq Window(a) \ missing'[r]
    BY <1>3, <2>2, <2>4, <2>5
  <2>7. ~setting.noThread => Window(a) \ missing'[r] \subseteq BlockIDs'
    BY <1>3, <2>4, <2>5
  <2>8. /\ IsFiniteSet(Window(a)) /\ Cardinality(Window(a)) = g_preloadNumBlocks + 1
        /\ g_preloadNumBlocks + 1 \in Nat
    BY <2>1, <2>2, WindowCount, WindowType
  <2>9. \A p, q \in Listed' : pblock'[p].blockID = pblock'[q].blockID => p = q
    <3>1. \A p \in Listed : pblock'[p].blockID \in BlockIDs /\ pblock'[p].blockID # b
      BY <1>11, <2>2, <2>4 DEF BlockIDs
    <3>2. \A p, q \in Listed : pblock[p].blockID = pblock[q].blockID => p = q
      BY <2>1 DEF Distinct
    <3>3. \A p, q \in Listed : pblock'[p].blockID = pblock'[q].blockID => p = q
      <4>1. \A p \in Listed : pblock'[p] = pblock[p]
        BY <1>11
      <4> QED
        BY <3>2, <4>1
    <3>4. \A p \in N : pblock'[p].blockID = b
      OBVIOUS
    <3> QED
      BY <3>1, <3>3, <3>4
  <2>10. Cardinality(Listed') <= g_preloadNumBlocks + 1
    <3>1. Listed' \in SUBSET PBlock
      BY <1>1
    <3>2. \A p \in Listed' : pblock'[p].blockID \in Window(a)
      BY <2>6 DEF BlockIDs
    <3>3. Cardinality(Listed') <= Cardinality(Window(a))
      BY ONLY <2>8, <2>9, <3>1, <3>2, FitIn
    <3> QED
      BY <2>8, <3>3
  <2>11. Distinct'
    BY <2>3, <2>9, <2>10 DEF Distinct
  <2>12. Cardinality(ToSet(recycleList'[r])) <= Cardinality(missing'[r])
    <3>1. IsFiniteSet(missing[r]) /\ IsFiniteSet(Recycled(r))
      BY <1>1, <2>4, <2>8, FS_Subset, BlocksFinite
    <3>2. \E h : (Recycled(r) = {} \/ h \in Recycled(r)) /\ Recycled(r) \ old = Recycled(r) \ {h}
      <4>1. CASE recycleList[r] = <<>>
        BY <4>1, SetOfEmpty DEF Recycled
      <4>2. CASE recycleList[r] # <<>>
        <5>1. old = {Head(recycleList[r])} /\ Head(recycleList[r]) \in Recycled(r)
          BY <1>1, <4>2, SetOf DEF old, FrontOf, Recycled
        <5> QED
          BY <5>1
      <4> QED
        BY <4>1, <4>2
    <3>h. PICK h : (Recycled(r) = {} \/ h \in Recycled(r)) /\ Recycled(r) \ old = Recycled(r) \ {h}
      BY <3>2
    <3>3. Cardinality(Recycled(r) \ {h}) <= Cardinality(missing[r] \ {b})
      BY <2>2, <2>4, <3>1, <3>h, OneLess
    <3> QED
      BY <1>3, <1>7, <3>h, <3>3
  <2>13. pc'[r] # "first" /\ a \notin missing'[r]
    BY <1>3, <2>4
  <2>14. missing'[r] \subseteq Window(a)
    BY <1>3, <2>4
  <2>15. Filling(r)'
    BY <2>3, <2>6, <2>7, <2>12, <2>13, <2>14 DEF Filling, Recycled, Window,
                                                 g_preloadNumBlocks
  <2>16. ~setting.noThread => Found(r)'
    BY <1>3, <2>1 DEF Found
  <2> QED
    BY <1>3, <2>11, <2>15, <2>16 DEF Working
<1>13. Serially'
  BY <1>3, <1>12, SeriallyBy
<1> QED
  BY <1>5, <1>6, <1>8, <1>9, <1>10, <1>13 DEF IInv

LEMMA StartedIs ==
  ASSUME NEW b \in AnyBlock, NEW f \in BOOLEAN
  PROVE  /\ Started(b, f) \in ABlock /\ Started(b, f) # NoPBlock
         /\ Started(b, f).blockID = b /\ Started(b, f).fd = f
         /\ Started(b, f).threadJoined = FALSE /\ Started(b, f).status = "RUNNING"
         /\ Started(b, f).thread = IF f THEN "reading" ELSE "opening"
<1>1. /\ Started(b, f) \in ABlock
      /\ Started(b, f).blockID = b /\ Started(b, f).fd = f
      /\ Started(b, f).threadJoined = FALSE /\ Started(b, f).status = "RUNNING"
      /\ Started(b, f).thread = IF f THEN "reading" ELSE "opening"
  BY DEF Started, ABlock
<1>2. NoPBlock.status = "INIT"
  BY DEF NoPBlock
<1> QED
  BY <1>1, <1>2

LEMMA NewIs ==
  ASSUME TypeOK, Allocated # PBlock
  PROVE  NewAddress \in PBlock /\ NewAddress \notin Allocated
<1>1. \E p \in PBlock : p \notin Allocated
  BY DEF Allocated
<1> QED
  BY <1>1 DEF NewAddress

(* A new block that takes over the open file of an old one, if there is an *)
(* old one: as many files are open as before.                              *)
LEMMA HandOver ==
  ASSUME NEW F \in SUBSET PBlock, NEW G, NEW O \in SUBSET F, NEW p \in PBlock \ F,
         O = {} => G = F, O # {} => \E h : O = {h} /\ G = (F \ {h}) \cup {p}
  PROVE  Cardinality(G) = Cardinality(F)
<1>1. IsFiniteSet(F) /\ Cardinality(F) \in Nat
  BY BlocksFinite
<1>2. CASE O = {}
  BY <1>2
<1>3. CASE O # {}
  <2>1. PICK h : O = {h} /\ G = (F \ {h}) \cup {p}
    BY <1>3
  <2>2. h \in F
    BY <2>1
  <2>3. IsFiniteSet(F \ {h}) /\ Cardinality(F \ {h}) = Cardinality(F) - 1
    BY <1>1, <2>2, FS_RemoveElement
  <2>4. Cardinality((F \ {h}) \cup {p}) = Cardinality(F \ {h}) + 1
    BY <2>3, FS_AddElement
  <2> QED
    BY <1>1, <2>1, <2>3, <2>4
<1> QED
  BY <1>2, <1>3

(* What a start does to the blocks.                                        *)
LEMMA NewBlock ==
  ASSUME IInv, NEW r \in Reader, NEW b \in AnyBlock, NEW p \in PBlock,
         p \notin Allocated, NEW f \in BOOLEAN, f <=> FrontOf(recycleList[r]) # {},
         UNCHANGED <<setting, opened>>,
         pblock' = [q \in PBlock |->
                       IF q = p THEN Started(b, f)
                       ELSE IF q \in FrontOf(recycleList[r]) THEN NoPBlock ELSE pblock[q]],
         joins' = [joins EXCEPT ![p] = 0],
         pblocks' = Append(pblocks, p)
  PROVE  /\ pblock' \in [PBlock -> ABlock]
         /\ \A q \in PBlock :
              pblock'[q].status = "RUNNING" <=> pblock'[q].thread \in {"opening", "reading"}
         /\ joins' \in [PBlock -> Nat] /\ Owned' /\ opened' \in Nat
         /\ Allocated' = (Allocated \ FrontOf(recycleList[r])) \cup {p}
         /\ pblocks' \in Seq(PBlock) /\ IsInjective(pblocks') /\ Listed' = Listed \cup {p}
         /\ \A q \in Allocated \ FrontOf(recycleList[r]) : pblock'[q] = pblock[q]
         /\ pblock'[p].blockID = b
         /\ ~setting.overlap => JoinsCounted'
<1> DEFINE old == FrontOf(recycleList[r])
<1>0. pblock \in [PBlock -> ABlock] /\ joins \in [PBlock -> Nat]
  BY DEF IInv, TypeOK, ABlock
<1>1. NoPBlock \in ABlock /\ NoPBlock.status = "INIT" /\ NoPBlock.thread = "none"
      /\ NoPBlock.fd = FALSE
  BY NumAssumption DEF NoPBlock, ABlock, AnyBlock
<1>2. /\ old \subseteq Recycled(r) /\ Recycled(r) \subseteq Allocated
      /\ old \subseteq {q \in PBlock : pblock[q].fd} /\ old \subseteq PBlock
      /\ old # {} => \E h : old = {h}
  <2>1. recycleList[r] \in Seq(PBlock) /\ IsInjective(recycleList[r])
    BY Types DEF IInv, BlocksReachable
  <2>2. old \subseteq Recycled(r)
    BY <2>1, FrontSet DEF Recycled
  <2>3. Recycled(r) \subseteq Allocated
    BY DEF IInv, BlocksReachable
  <2>4. \A q \in old : pblock[q].fd /\ q \in PBlock
    BY <2>2, <2>3 DEF IInv, GivenAway, DoneWith, Recyclable, Allocated
  <2>5. old # {} => \E h : old = {h}
    BY DEF FrontOf
  <2> QED
    BY <2>2, <2>3, <2>4, <2>5
<1> HIDE DEF old
<1>3. /\ Started(b, f) \in ABlock /\ Started(b, f) # NoPBlock
      /\ Started(b, f).blockID = b /\ Started(b, f).fd = f
      /\ Started(b, f).threadJoined = FALSE /\ Started(b, f).status = "RUNNING"
      /\ Started(b, f).thread = IF f THEN "reading" ELSE "opening"
  BY StartedIs
<1> DEFINE new == Started(b, f)
<1> HIDE DEF new
<1>4. /\ pblock' \in [PBlock -> ABlock]
      /\ pblock'[p] = new
      /\ \A q \in PBlock \ {p} : pblock'[q] = IF q \in old THEN NoPBlock ELSE pblock[q]
  BY <1>0, <1>1, <1>3 DEF new, old
<1>5. \A q \in PBlock :
        pblock'[q].status = "RUNNING" <=> pblock'[q].thread \in {"opening", "reading"}
  <2>1. new.status = "RUNNING" /\ new.thread \in {"opening", "reading"}
    BY <1>3 DEF new
  <2>2. \A q \in PBlock :
          pblock[q].status = "RUNNING" <=> pblock[q].thread \in {"opening", "reading"}
    BY DEF IInv, TypeOK
  <2> SUFFICES ASSUME NEW q \in PBlock
               PROVE  pblock'[q].status = "RUNNING"
                        <=> pblock'[q].thread \in {"opening", "reading"}
    OBVIOUS
  <2>3. CASE q = p
    BY <1>4, <2>1, <2>3
  <2>4. CASE q # p /\ q \in old
    BY <1>1, <1>4, <2>4
  <2>5. CASE q # p /\ q \notin old
    BY <1>4, <2>2, <2>5
  <2> QED
    BY <2>3, <2>4, <2>5
<1>6. joins' \in [PBlock -> Nat] /\ joins'[p] = 0
      /\ \A q \in PBlock \ {p} : joins'[q] = joins[q]
  BY <1>0
<1>7. \A q \in Allocated \ old : q \in PBlock /\ q # p /\ pblock'[q] = pblock[q]
  BY <1>4 DEF Allocated
<1>8. Allocated' = (Allocated \ old) \cup {p}
  <2>1. pblock[p] = NoPBlock /\ new # NoPBlock
    BY <1>3 DEF Allocated, new
  <2>2. \A q \in PBlock : q \in Allocated' <=> (q \in Allocated /\ q \notin old) \/ q = p
    <3> SUFFICES ASSUME NEW q \in PBlock
                 PROVE  pblock'[q] # NoPBlock
                          <=> (pblock[q] # NoPBlock /\ q \notin old) \/ q = p
      BY DEF Allocated
    <3>1. CASE q = p
      BY <1>4, <2>1, <3>1
    <3>2. CASE q # p
      BY <1>4, <3>2
    <3> QED
      BY <3>1, <3>2
  <2>3. Allocated' \subseteq PBlock /\ Allocated \subseteq PBlock
    BY DEF Allocated
  <2> QED
    BY <2>2, <2>3
<1>9. Owned' /\ opened' \in Nat
  <2> DEFINE F == {q \in PBlock : pblock[q].fd}
             G == {q \in PBlock : pblock'[q].fd}
  <2>1. ~pblock[p].fd
    BY <1>1 DEF Allocated
  <2>2. \A q \in PBlock : q \in G <=> (q = p /\ f) \/ (q # p /\ q \in F \ old)
    <3> SUFFICES ASSUME NEW q \in PBlock
                 PROVE  pblock'[q].fd <=> (q = p /\ f) \/ (q # p /\ pblock[q].fd /\ q \notin old)
      OBVIOUS
    <3>1. CASE q = p
      BY <1>3, <1>4, <3>1 DEF new
    <3>2. CASE q # p /\ q \in old
      BY <1>1, <1>4, <3>2
    <3>3. CASE q # p /\ q \notin old
      BY <1>4, <3>3
    <3> QED
      BY <3>1, <3>2, <3>3
  <2>3. p \notin F /\ old \subseteq F
    BY <1>2, <2>1
  <2>4. F \in SUBSET PBlock /\ G \subseteq PBlock
    OBVIOUS
  <2>5. opened = Cardinality(F)
    BY DEF IInv, Owned, FilesOwned
  <2> HIDE DEF F, G
  <2>6. old = {} => G = F
    BY <2>2, <2>3, <2>4 DEF old
  <2>7. old # {} => \E h : old = {h} /\ G = (F \ {h}) \cup {p}
    <3> SUFFICES ASSUME old # {} PROVE \E h : old = {h} /\ G = (F \ {h}) \cup {p}
      OBVIOUS
    <3>1. PICK h : old = {h}
      BY DEF old, FrontOf
    <3>2. f
      BY DEF old
    <3> HIDE DEF old
    <3>3. \A q \in PBlock : q \in G <=> q = p \/ q \in F \ {h}
      BY <2>2, <2>3, <3>1, <3>2
    <3>4. G = (F \ {h}) \cup {p}
      BY <2>4, <3>3
    <3> QED
      BY <3>1, <3>4
  <2>8. Cardinality(G) = Cardinality(F)
    BY <2>3, <2>4, <2>6, <2>7, HandOver
  <2>9. \A q \in PBlock : pblock'[q].thread = "opening" => ~pblock'[q].fd
    <3> SUFFICES ASSUME NEW q \in PBlock PROVE pblock'[q].thread = "opening" => ~pblock'[q].fd
      OBVIOUS
    <3>1. CASE q = p
      BY <1>3, <1>4, <3>1 DEF new
    <3>2. CASE q # p /\ q \in old
      BY <1>1, <1>4, <3>2
    <3>3. CASE q # p /\ q \notin old
      BY <1>4, <3>3 DEF IInv, Owned
    <3> QED
      BY <3>1, <3>2, <3>3
  <2> QED
    BY <2>5, <2>8, <2>9 DEF Owned, FilesOwned, G, IInv, TypeOK
<1>10. pblocks' \in Seq(PBlock) /\ IsInjective(pblocks') /\ Listed' = Listed \cup {p}
  <2>1. pblocks \in Seq(PBlock) /\ IsInjective(pblocks) /\ p \notin Listed
    BY Types DEF IInv, BlocksReachable
  <2> QED
    BY <2>1, AppendSet, AppendKeeps DEF Listed
<1>11. ~setting.overlap => JoinsCounted'
  <2> SUFFICES ASSUME ~setting.overlap, NEW q \in Allocated'
               PROVE  joins'[q] = IF pblock'[q].threadJoined THEN 1 ELSE 0
    BY DEF JoinsCounted
  <2>1. CASE q = p
    BY <1>3, <1>4, <1>6, <2>1 DEF new
  <2>2. CASE q \in Allocated \ old
    BY <1>6, <1>7, <2>2 DEF IInv, Serially, JoinsCounted
  <2> QED
    BY <1>8, <2>1, <2>2
<1> QED
  BY <1>3, <1>4, <1>5, <1>6, <1>7, <1>8, <1>9, <1>10, <1>11 DEF new, old

LEMMA StartBlockIInv ==
  ASSUME IInv, NEW r \in Reader, NEW b \in AnyBlock, NEW l \in {"take", "fill"},
         pc[r] \in {"first", "fill"}, pc[r] = "fill" <=> l = "fill",
         pc[r] = "first" => b = asked[r].block,
         ~setting.overlap => b \in missing[r],
         StartBlock(r, b),
         missing' = [missing EXCEPT ![r] = missing[r] \ {b}],
         pc' = [pc EXCEPT ![r] = l],
         UNCHANGED <<setting, file, mapped, left, writer, readers, asked, todo, readSize>>
  PROVE  IInv'
<1> DEFINE old == FrontOf(recycleList[r])
           p == NewAddress
<1>1. /\ writer = NoReader /\ readers = {} /\ Allocated # PBlock
      /\ recycleList' = [recycleList EXCEPT ![r] = Rest(recycleList[r])]
  BY DEF StartBlock, Rest
<1>2. p \in PBlock /\ p \notin Allocated
  BY <1>1, NewIs DEF IInv
<1>3. CASE /\ pblock' = [q \in PBlock |->
                            IF q = p THEN Started(b, old # {})
                            ELSE IF q \in old THEN NoPBlock ELSE pblock[q]]
           /\ joins' = [joins EXCEPT ![p] = 0]
           /\ pblocks' = Append(pblocks, p)
           /\ UNCHANGED opened
  <2> HIDE DEF p
  <2> DEFINE f == old # {}
  <2>1. f \in BOOLEAN /\ (f <=> FrontOf(recycleList[r]) # {})
    OBVIOUS
  <2>2. pblock' = [q \in PBlock |->
                       IF q = p THEN Started(b, f)
                       ELSE IF q \in FrontOf(recycleList[r]) THEN NoPBlock ELSE pblock[q]]
    BY <1>3
  <2> HIDE DEF f
  <2>3. /\ pblock' \in [PBlock -> ABlock]
        /\ \A q \in PBlock :
             pblock'[q].status = "RUNNING" <=> pblock'[q].thread \in {"opening", "reading"}
        /\ joins' \in [PBlock -> Nat] /\ Owned' /\ opened' \in Nat
        /\ Allocated' = (Allocated \ FrontOf(recycleList[r])) \cup {p}
        /\ pblocks' \in Seq(PBlock) /\ IsInjective(pblocks') /\ Listed' = Listed \cup {p}
        /\ \A q \in Allocated \ FrontOf(recycleList[r]) : pblock'[q] = pblock[q]
        /\ pblock'[p].blockID = b
        /\ ~setting.overlap => JoinsCounted'
    BY <1>2, <1>3, <2>1, <2>2, NewBlock
  <2> DEFINE N == {p}
  <2>4. /\ N \in SUBSET PBlock /\ N \cap Allocated = {} /\ N # {}
        /\ \A u, q \in N : u = q
        /\ \A q \in N : pblock'[q].blockID = b
        /\ Allocated' = (Allocated \ FrontOf(recycleList[r])) \cup N
        /\ Listed' = Listed \cup N
    BY <1>2, <2>3
  <2> HIDE DEF N, p
  <2>5. N = {} => setting.noThread
    BY <2>4
  <2> QED
    <3>1. Placing(r, b, N)
      BY <2>3, <2>4, <2>5 DEF Placing
    <3> QED
      BY <1>1, <2>4, <3>1, StartParts
<1>4. CASE setting.noThread /\ FreeBlocks(old) /\ UNCHANGED pblocks
  <2>1. /\ pblocks \in Seq(PBlock) /\ IsInjective(pblocks)
        /\ old \in SUBSET PBlock
    <3>1. /\ recycleList[r] \in Seq(PBlock) /\ IsInjective(recycleList[r])
          /\ Recycled(r) \subseteq PBlock
          /\ pblocks \in Seq(PBlock) /\ IsInjective(pblocks)
      BY Types DEF IInv, BlocksReachable
    <3> QED
      BY <3>1, FrontSet DEF Recycled
  <2> HIDE DEF old
  <2>2. /\ pblock' \in [PBlock -> ABlock]
        /\ \A q \in PBlock : pblock'[q] = IF q \in old THEN NoPBlock ELSE pblock[q]
        /\ \A q \in PBlock :
             pblock'[q].status = "RUNNING" <=> pblock'[q].thread \in {"opening", "reading"}
        /\ joins' \in [PBlock -> Nat]
        /\ Owned' /\ opened' \in Nat
        /\ Allocated' = Allocated \ old
        /\ ~setting.overlap => JoinsCounted'
    BY <1>4, <2>1, FreedIs
  <2> DEFINE N == {}
  <2>3. /\ N \in SUBSET PBlock /\ N \cap Allocated = {} /\ (N = {} => setting.noThread)
        /\ \A u, q \in N : u = q
        /\ \A q \in N : pblock'[q].blockID = b
        /\ Allocated' = (Allocated \ FrontOf(recycleList[r])) \cup N
        /\ Listed' = Listed \cup N
    BY <1>4, <2>2 DEF old, Listed
  <2>4. \A q \in Allocated \ FrontOf(recycleList[r]) : pblock'[q] = pblock[q]
    BY <2>2 DEF old, Allocated
  <2>5. pblocks' \in Seq(PBlock) /\ IsInjective(pblocks')
    BY <1>4, <2>1
  <2> HIDE DEF N
  <2> QED
    <3>1. Placing(r, b, N)
      BY <2>2, <2>3, <2>4, <2>5 DEF Placing
    <3> QED
      BY <1>1, <2>3, <3>1, StartParts
<1> QED
  BY <1>3, <1>4 DEF StartBlock

LEMMA StartFirstIInv ==
  ASSUME IInv, NEW r \in Reader, StartFirst(r)
  PROVE  IInv'
<1> DEFINE b == asked[r].block
<1>1. /\ pc[r] = "first" /\ StartBlock(r, b)
      /\ missing' = [missing EXCEPT ![r] = missing[r] \ {b}]
      /\ pc' = [pc EXCEPT ![r] = "take"]
      /\ UNCHANGED <<setting, file, mapped, left, writer, readers, asked, todo, readSize>>
  BY DEF StartFirst, Goto, handleVars, lockVars
<1>2. b \in AnyBlock
  BY Types, NumAssumption DEF IInv, AnyBlock
<1>3. ~setting.overlap => b \in missing[r]
  BY <1>1 DEF IInv, Serially, Working, Handing, Filling
<1> QED
  BY <1>1, <1>2, <1>3, StartBlockIInv

LEMMA FillIInv ==
  ASSUME IInv, NEW r \in Reader, Fill(r)
  PROVE  IInv'
<1> DEFINE b == Min(missing[r])
<1>1. /\ pc[r] = "fill" /\ missing[r] # {} /\ StartBlock(r, b)
      /\ missing' = [missing EXCEPT ![r] = missing[r] \ {b}]
      /\ UNCHANGED <<setting, file, mapped, left, writer, readers, pc, asked, todo, readSize>>
  BY DEF Fill, handleVars, lockVars
<1>2. missing[r] \in SUBSET (0..(LastBlock + MaxNum)) /\ LastBlock + MaxNum \in Nat
  BY NumAssumption DEF IInv, TypeOK, AnyBlock
<1>3. b \in missing[r]
  BY <1>1, <1>2, LeastIn
<1> HIDE DEF b
<1>4. b \in AnyBlock
  BY <1>2, <1>3 DEF AnyBlock
<1>5. pc' = [pc EXCEPT ![r] = "fill"]
  BY <1>1 DEF IInv, TypeOK
<1> QED
  BY <1>1, <1>3, <1>4, <1>5, StartBlockIInv

-----------------------------------------------------------------------------
(* A file is opened: the first blocks are there, and nothing else.         *)

LEMMA OpenFileIInv ==
  ASSUME IInv, OpenFile
  PROVE  IInv'
<1>1. PICK made \in SUBSET (0..(g_preloadNumBlocks - 1)) :
        /\ pblocks' = Kept([i \in 1..g_preloadNumBlocks |-> i], {b + 1 : b \in made})
        /\ pblock' = [p \in PBlock |->
                         IF p - 1 \in made THEN Started(p - 1, FALSE) ELSE NoPBlock]
        /\ mapped' \in BOOLEAN
  BY DEF OpenFile
<1>2. /\ file = "closed" /\ file' = "open" /\ joins' = [p \in PBlock |-> 0]
      /\ UNCHANGED <<setting, opened, writer, readers, pc, asked, recycleList, missing,
                     todo, readSize>>
  BY DEF OpenFile, lockVars, localVars
<1>3. left' \in Nat
  BY NumAssumption DEF OpenFile
<1>4. /\ \A r \in Reader : pc[r] = "idle" /\ Recycled(r) = {} /\ recycleList[r] = <<>>
      /\ \A p \in PBlock : pblock[p] = NoPBlock
  BY <1>2, SetOfEmpty DEF IInv, Standing, Handing, Allocated, Recycled
<1>5. PICK n \in Nat : n = g_preloadNumBlocks /\ n <= MaxNum /\ n <= Addresses
  BY WindowType, NumAssumption DEF IInv
<1> DEFINE s == [i \in 1..n |-> i]
           M == {b + 1 : b \in made}
<1>6. made \subseteq 0..(n - 1)
  BY <1>5
<1>7. M \subseteq 1..n /\ 1..n \subseteq PBlock
  BY <1>5, <1>6, NumAssumption DEF PBlock
<1>8. \A p \in PBlock : p - 1 \in made <=> p \in M
  BY <1>6, NumAssumption DEF PBlock
<1>9. s \in Seq(PBlock) /\ IsInjective(s) /\ ToSet(s) = 1..n
  <2>1. s \in [1..n -> PBlock]
    BY <1>7
  <2>2. s \in Seq(PBlock)
    BY <2>1
  <2> QED
    BY <2>1, <2>2 DEF IsInjective, ToSet
<1>10. pblocks' = Kept(s, M)
  BY <1>1, <1>5
<1> HIDE DEF s, M
<1>11. /\ pblocks' \in Seq(PBlock) /\ IsInjective(pblocks') /\ Listed' = M
  <2>1. ToSet(Kept(s, M)) = (1..n) \cap M
    BY <1>9, KeptSet
  <2>2. Kept(s, M) \in Seq(PBlock) /\ IsInjective(Kept(s, M))
    BY <1>9, KeptType, KeptInjective
  <2> QED
    BY <1>7, <1>10, <2>1, <2>2 DEF Listed
<1>12. \A p \in M :
         /\ Started(p - 1, FALSE) \in ABlock /\ Started(p - 1, FALSE) # NoPBlock
         /\ Started(p - 1, FALSE).blockID = p - 1 /\ Started(p - 1, FALSE).fd = FALSE
         /\ Started(p - 1, FALSE).threadJoined = FALSE
         /\ Started(p - 1, FALSE).status = "RUNNING"
         /\ Started(p - 1, FALSE).thread = "opening"
  <2> SUFFICES ASSUME NEW p \in M
               PROVE  /\ Started(p - 1, FALSE) \in ABlock /\ Started(p - 1, FALSE) # NoPBlock
                      /\ Started(p - 1, FALSE).blockID = p - 1
                      /\ Started(p - 1, FALSE).fd = FALSE
                      /\ Started(p - 1, FALSE).threadJoined = FALSE
                      /\ Started(p - 1, FALSE).status = "RUNNING"
                      /\ Started(p - 1, FALSE).thread = "opening"
    OBVIOUS
  <2>1. p - 1 \in AnyBlock
    BY <1>5, <1>7, NumAssumption DEF AnyBlock
  <2>2. PICK f \in BOOLEAN : f = FALSE
    OBVIOUS
  <2> QED
    BY <2>1, <2>2, StartedIs
<1>13. NoPBlock \in ABlock /\ NoPBlock.status = "INIT" /\ NoPBlock.thread = "none"
       /\ NoPBlock.fd = FALSE
  BY NumAssumption DEF NoPBlock, ABlock, AnyBlock
<1>14. \A p \in PBlock :
         pblock'[p] = IF p \in M THEN Started(p - 1, FALSE) ELSE NoPBlock
  BY <1>1, <1>8
<1>15. pblock' \in [PBlock -> ABlock]
  <2>1. \A p \in PBlock :
          (IF p - 1 \in made THEN Started(p - 1, FALSE) ELSE NoPBlock) \in ABlock
    BY <1>8, <1>12, <1>13
  <2> QED
    BY <1>1, <2>1
<1>16. /\ \A p \in M : /\ pblock'[p].blockID = p - 1 /\ ~pblock'[p].fd
                       /\ ~pblock'[p].threadJoined /\ pblock'[p] # NoPBlock
       /\ \A p \in PBlock : ~pblock'[p].fd
       /\ \A p \in PBlock :
            pblock'[p].status = "RUNNING" <=> pblock'[p].thread \in {"opening", "reading"}
       /\ \A p \in PBlock : pblock'[p] # NoPBlock <=> p \in M
  BY <1>7, <1>12, <1>13, <1>14
<1>17. Allocated' = M
  BY <1>7, <1>16 DEF Allocated
<1>18. TypeOK'
  <2>1. /\ file' \in {"closed", "open", "closing", "lost", "crashed"} /\ mapped' \in BOOLEAN
        /\ joins' \in [PBlock -> Nat] /\ left' \in Nat
    BY <1>1, <1>2, <1>3
  <2> QED
    BY <1>2, <1>11, <1>15, <1>16, <2>1 DEF IInv, TypeOK, ABlock
<1>19. Standing'
  BY <1>2 DEF IInv, Standing
<1>20. Owned'
  <2>1. {p \in PBlock : pblock[p].fd} = {} /\ {p \in PBlock : pblock'[p].fd} = {}
    BY <1>4, <1>13, <1>16
  <2>2. opened' = Cardinality({p \in PBlock : pblock'[p].fd})
    BY <1>2, <2>1 DEF IInv, Owned, FilesOwned
  <2> QED
    BY <1>16, <2>2 DEF Owned, FilesOwned
<1>21. BlocksReachable'
  <2>1. \A o \in Reader : ToSet(recycleList'[o]) = {} /\ IsInjective(recycleList'[o])
    BY <1>2, <1>4, SetOfEmpty DEF Recycled
  <2> QED
    BY <1>11, <1>17, <2>1, ReachableSo
<1>22. GivenAway' /\ OldOnes' /\ Waiting'
  BY <1>2, <1>4 DEF GivenAway, Recycled, OldOnes, Waiting
<1>23. ~setting.overlap => Distinct'
  <2>1. \A p, q \in M : p - 1 = q - 1 => p = q
    BY <1>7
  <2>2. Cardinality(M) <= n + 1
    <3>1. IsFiniteSet(1..n) /\ Cardinality(1..n) = n
      BY FS_Interval
    <3>2. M \in SUBSET (1..n)
      BY <1>7
    <3>3. IsFiniteSet(M) /\ Cardinality(M) <= n
      BY <3>1, <3>2, FS_Subset
    <3> QED
      BY <3>3, FS_CardinalityType
  <2>3. g_preloadNumBlocks' = n
    BY <1>2, <1>5 DEF g_preloadNumBlocks
  <2> QED
    BY <1>11, <1>16, <2>1, <2>2, <2>3 DEF Distinct
<1>24. JoinsCounted'
  BY <1>2, <1>7, <1>16, <1>17 DEF JoinsCounted
<1>25. Serially'
  BY <1>2, <1>4, <1>23, <1>24 DEF Serially, OneRequest, Working, Handing, Found
<1> QED
  BY <1>18, <1>19, <1>20, <1>21, <1>22, <1>25 DEF IInv

-----------------------------------------------------------------------------
(* The invariant, and what follows from it. *)

LEMMA StutterIInv ==
  ASSUME IInv, UNCHANGED vars
  PROVE  IInv'
<1> USE DEF vars, handleVars, lockVars, localVars
<1>1. TypeOK' /\ Standing'
  BY DEF IInv, TypeOK, Standing, Allocated, blockVars
<1>2. /\ Owned' /\ BlocksReachable' /\ GivenAway'
      /\ ~setting.overlap => Distinct' /\ JoinsCounted'
  BY BlocksSame
<1>3. OldOnes'
  BY OldSame DEF blockVars
<1>4. Waiting'
  BY WaitSame DEF blockVars, IInv, Waiting
<1>5. Serially'
  <2> SUFFICES ASSUME ~setting.overlap PROVE Serially'
    BY DEF Serially
  <2>1. OneRequest' /\ \A r \in Reader : Working(r)
    BY DEF IInv, Serially, OneRequest
  <2>2. \A r \in Reader : Working(r)'
    <3> SUFFICES ASSUME NEW r \in Reader PROVE Working(r)'
      OBVIOUS
    <3>1. pc'[r] \in Handing => Filling(r)'
      BY <2>1, FillingSame DEF Working, blockVars
    <3>2. ~setting.noThread => Found(r)'
      BY <2>1 DEF Working, Found
    <3> QED
      BY <2>1, <3>1, <3>2 DEF Working, blockVars
  <2> QED
    BY <1>2, <2>1, <2>2 DEF Serially
<1> QED
  BY <1>1, <1>2, <1>3, <1>4, <1>5 DEF IInv

LEMMA NextIInv == IInv /\ [Next]_vars => IInv'
<1> SUFFICES ASSUME IInv, [Next]_vars PROVE IInv'
  OBVIOUS
<1>1. CASE OpenFile
  BY <1>1, OpenFileIInv
<1>2. CASE CloseFile \/ Unmount \/ Freed
  BY <1>2, CloseIInv
<1>3. CASE FreeNext
  BY <1>3, FreeNextIInv
<1>4. CASE Crashed \/ UNCHANGED vars
  BY <1>4, StutterIInv DEF Crashed
<1>5. ASSUME NEW r \in Reader, Begin(r) PROVE IInv'
  BY <1>5, BeginIInv
<1>6. ASSUME NEW r \in Reader, ReadStep(r) PROVE IInv'
  BY <1>6, ScanIInv, JoinOldIInv, DropOldIInv, StartFirstIInv, TakeIInv, LookIInv,
     JoinedIInv, ReadPBlockIInv, LetGoIInv, FillIInv, NextBlockIInv, LeftoverIInv,
     FallbackIInv DEF ReadStep
<1>7. ASSUME NEW p \in PBlock, Task(p) PROVE IInv'
  BY <1>7, TaskIInv
<1> QED
  BY <1>1, <1>2, <1>3, <1>4, <1>5, <1>6, <1>7 DEF Next

(* The invariant: however requests overlap, each block has one owner, each *)
(* open file one block; and with one request at a time the recycle list of *)
(* it is never longer than what it has yet to start.                       *)
THEOREM Invariance == Spec => []IInv
<1>1. Init => IInv
  BY InitIInv
<1>2. IInv /\ [Next]_vars => IInv'
  BY NextIInv
<1> QED
  BY <1>1, <1>2, PTL DEF Spec

(* Every variable keeps its type; the lock of the list is held by one      *)
(* writer or by readers.                                                   *)
THEOREM TypeCorrect == Spec => []TypeOK
<1>1. IInv => TypeOK
  BY DEF IInv
<1> QED
  BY <1>1, Invariance, PTL

(* However requests overlap, an open file belongs to one block: none is    *)
(* closed under a thread and none forgotten.                               *)
THEOREM OneOwner == Spec => []FilesOwned
<1>1. IInv => FilesOwned
  BY DEF IInv, Owned
<1> QED
  BY <1>1, Invariance, PTL

(* However requests overlap, a block is in the list or in one recycle      *)
(* list, once: none is leaked and none freed twice.                        *)
THEOREM NoneLeaked == Spec => []BlocksReachable
<1>1. IInv => BlocksReachable
  BY DEF IInv
<1> QED
  BY <1>1, Invariance, PTL

(* Who waits for a block, or reads it, has it: nobody takes it away.       *)
THEOREM NoneLost == Spec => []WaitedForStays
<1>1. IInv => WaitedForStays
  BY DEF IInv, TypeOK, Waiting, WaitedForStays, ToSet
<1> QED
  BY <1>1, Invariance, PTL

(* Nothing is left of a file that is closed.                               *)
THEOREM NothingLeft == Spec => []AllReleased
<1>1. IInv => AllReleased
  <2> SUFFICES ASSUME IInv, file = "closed" PROVE Allocated = {} /\ opened = 0
    BY DEF AllReleased
  <2>1. Allocated = {}
    BY DEF IInv, Standing
  <2>2. {p \in PBlock : pblock[p].fd} = {}
    BY <2>1 DEF Allocated, NoPBlock
  <2> QED
    BY <2>1, <2>2, FS_EmptySet DEF IInv, Owned, FilesOwned
<1> QED
  BY <1>1, Invariance, PTL

(* One request at a time: when it is done with a block, the list is that   *)
(* block and those behind it, and no old block is left over, so that the   *)
(* loop which would not end is never entered.                              *)
THEOREM WindowWhole == Spec => []WindowComplete
<1>1. IInv => WindowComplete
  <2> SUFFICES ASSUME IInv, NEW r \in Reader, ~setting.overlap, Ended(r)
               PROVE  /\ recycleList[r] = <<>>
                      /\ ~setting.noThread =>
                           /\ BlockIDs = Window(asked[r].block)
                           /\ Len(pblocks) = g_preloadNumBlocks + 1
    BY DEF WindowComplete, BlockIDs, Window
  <2>1. missing[r] = {} /\ Filling(r) /\ Distinct /\ TypeOK
    BY DEF Ended, IInv, Serially, Working, Handing
  <2>2. /\ recycleList[r] \in Seq(PBlock) /\ Recycled(r) \in SUBSET PBlock
        /\ Listed \in SUBSET PBlock /\ asked[r].block \in 0..LastBlock
        /\ pblocks \in Seq(PBlock) /\ IsInjective(pblocks)
    BY Types DEF IInv, BlocksReachable
  <2>3. recycleList[r] = <<>>
    <3>1. IsFiniteSet(Recycled(r)) /\ Cardinality(Recycled(r)) \in Nat
      BY <2>2, BlocksFinite
    <3>2. Cardinality(Recycled(r)) <= 0
      BY <2>1, FS_EmptySet DEF Filling
    <3>3. Recycled(r) = {}
      BY <3>1, <3>2, FS_EmptySet
    <3> QED
      BY <2>2, <3>3, SetOf DEF Recycled
  <2>4. ASSUME ~setting.noThread
        PROVE  /\ BlockIDs = Window(asked[r].block)
               /\ Len(pblocks) = g_preloadNumBlocks + 1
    <3>1. BlockIDs = Window(asked[r].block)
      BY <2>1, <2>4 DEF Filling
    <3>2. Cardinality(BlockIDs) = Cardinality(Listed)
      <4>1. \A p, q \in Listed : pblock[p].blockID = pblock[q].blockID => p = q
        BY <2>1 DEF Distinct
      <4>2. Cardinality(NumbersOf(pblock, Listed)) = Cardinality(Listed)
        BY <2>2, <4>1, IDsCounted, ZenonT(30)
      <4> QED
        BY <4>2 DEF BlockIDs, NumbersOf
    <3>3. Cardinality(Listed) = Len(pblocks)
      BY <2>2, LengthIs DEF Listed
    <3>4. Cardinality(Window(asked[r].block)) = g_preloadNumBlocks + 1
      BY <2>1, <2>2, WindowCount
    <3> QED
      BY <3>1, <3>2, <3>3, <3>4
  <2> QED
    BY <2>3, <2>4
<1> QED
  BY <1>1, Invariance, PTL

(* One request at a time, and every thread made: a request that ends       *)
(* before its last block ends where the file does.                         *)
THEOREM EofTrue == Spec => []SerialEof
<1>1. IInv => SerialEof
  BY DEF IInv, Serially, Working, Handing, Found, Standing, SerialEof, EofIsTrue, Ended
<1> QED
  BY <1>1, Invariance, PTL

LEMMA FreedJoined ==
  ASSUME IInv, NEW S \in SUBSET PBlock, FreeBlocks(S), ~setting.overlap,
         NEW p \in PBlock, pblock[p] # NoPBlock, pblock'[p] = NoPBlock
  PROVE  joins'[p] = 1
<1>1. p \in S
  BY DEF FreeBlocks
<1>2. joins'[p] = IF NeedsJoin(p) THEN joins[p] + 1 ELSE joins[p]
  BY <1>1 DEF FreeBlocks
<1>3. joins[p] = IF pblock[p].threadJoined THEN 1 ELSE 0
  BY DEF IInv, Serially, JoinsCounted, Allocated
<1> QED
  BY <1>2, <1>3 DEF NeedsJoin

LEMMA HandedJoined ==
  ASSUME IInv, NEW r \in Reader, NEW b, StartBlock(r, b), ~setting.overlap,
         NEW p \in PBlock, pblock[p] # NoPBlock, pblock'[p] = NoPBlock
  PROVE  joins'[p] = 1
<1> DEFINE old == FrontOf(recycleList[r])
<1>1. old \subseteq Recycled(r) /\ Recycled(r) \subseteq PBlock
  BY Types, FrontSet DEF IInv, BlocksReachable, Recycled
<1> HIDE DEF old
<1>2. CASE /\ pblock' = [q \in PBlock |->
                            IF q = NewAddress THEN Started(b, old # {})
                            ELSE IF q \in old THEN NoPBlock ELSE pblock[q]]
           /\ joins' = [joins EXCEPT ![NewAddress] = 0]
  <2>1. Started(b, old # {}) # NoPBlock
    BY DEF Started, NoPBlock
  <2>2. p # NewAddress /\ p \in old
    BY <1>2, <2>1
  <2>3. joins'[p] = joins[p]
    BY <1>2, <2>2 DEF IInv, TypeOK
  <2>4. pblock[p].threadJoined
    BY <1>1, <2>2 DEF IInv, GivenAway, DoneWith
  <2> QED
    BY <2>3, <2>4 DEF IInv, Serially, JoinsCounted, Allocated
<1>3. CASE FreeBlocks(old)
  <2>1. old \in SUBSET PBlock
    BY <1>1
  <2> QED
    BY <1>3, <2>1, FreedJoined
<1> QED
  BY <1>2, <1>3 DEF StartBlock, old

LEMMA JoinFrees ==
  ASSUME IInv, NEW q \in PBlock, Join(q), NEW p \in PBlock, pblock[p] # NoPBlock
  PROVE  pblock'[p] # NoPBlock
<1>1. pblock \in [PBlock -> ABlock]
  BY DEF IInv, TypeOK, ABlock
<1>2. pblock'[p] = IF p = q THEN Marked(pblock[q]) ELSE pblock[p]
  BY <1>1 DEF Join, Marked
<1>3. pblock[q] \in ABlock
  BY <1>1
<1>4. Marked(pblock[q]).threadJoined = TRUE
  BY <1>3, MarkedIs
<1>5. NoPBlock.threadJoined = FALSE
  BY DEF NoPBlock
<1> QED
  BY <1>2, <1>4, <1>5

LEMMA TaskFrees ==
  ASSUME IInv, NEW q \in PBlock, Task(q), NEW p \in PBlock, pblock[p] # NoPBlock
  PROVE  pblock'[p] # NoPBlock
<1>1. pblock \in [PBlock -> ABlock]
  BY DEF IInv, TypeOK, ABlock
<1>2. pblock'[q].thread \in {"reading", "ended"}
  BY <1>1 DEF Task, TaskOpen, TaskRead, ABlock
<1>3. p # q => pblock'[p] = pblock[p]
  BY <1>1 DEF Task, TaskOpen, TaskRead
<1>4. NoPBlock.thread = "none"
  BY DEF NoPBlock
<1> QED
  BY <1>2, <1>3, <1>4

(* One request at a time: the thread of a block is joined exactly once     *)
(* before the block is gone.                                               *)
THEOREM ThreadsJoinedOnce == Spec => JoinedOnce
<1> DEFINE A == ~setting.overlap =>
                  \A p \in PBlock : pblock[p] # NoPBlock /\ pblock'[p] = NoPBlock =>
                      joins'[p] = 1
<1>1. IInv /\ [Next]_vars => A
  <2> SUFFICES ASSUME IInv, [Next]_vars, ~setting.overlap,
                      NEW p \in PBlock, pblock[p] # NoPBlock, pblock'[p] = NoPBlock
               PROVE  joins'[p] = 1
    OBVIOUS
  <2>1. CASE OpenFile
    BY <2>1 DEF OpenFile, IInv, Standing, Allocated
  <2>2. CASE FreeNext
    <3>1. FreeBlocks({Head(pblocks)}) /\ Head(pblocks) \in PBlock
      BY <2>2, Types, SetOf DEF FreeNext, IInv, Listed
    <3>2. {Head(pblocks)} \in SUBSET PBlock
      BY <3>1
    <3> QED
      BY <3>1, <3>2, FreedJoined
  <2>3. CASE UNCHANGED pblock
    BY <2>3
  <2>4. ASSUME NEW r \in Reader, JoinOld(r) PROVE FALSE
    <3>1. PICK i \in DOMAIN todo[r] : Join(todo[r][i])
      BY <2>4 DEF JoinOld
    <3>2. todo[r][i] \in PBlock
      BY Types DEF IInv, ToSet
    <3> QED
      BY <3>1, <3>2, JoinFrees
  <2>5. ASSUME NEW r \in Reader, Look(r), Join(Head(todo[r])) PROVE FALSE
    <3>1. Head(todo[r]) \in PBlock
      BY <2>5, Types, SetOf DEF Look, IInv
    <3> QED
      BY <2>5, <3>1, JoinFrees
  <2>6. ASSUME NEW r \in Reader, Joined(r) PROVE FALSE
    <3>1. Join(Head(todo[r])) /\ todo[r] # <<>>
      BY <2>6 DEF Joined, IInv, Waiting
    <3>2. Head(todo[r]) \in PBlock
      BY <3>1, Types, SetOf DEF IInv
    <3> QED
      BY <3>1, <3>2, JoinFrees
  <2>7. ASSUME NEW r \in Reader, DropOld(r) PROVE joins'[p] = 1
    <3>1. PICK S \in SUBSET PBlock : FreeBlocks(S)
      BY <2>7, Types DEF DropOld, IInv
    <3> QED
      BY <3>1, FreedJoined
  <2>8. ASSUME NEW r \in Reader, StartFirst(r) \/ Fill(r) PROVE joins'[p] = 1
    <3>1. PICK b : StartBlock(r, b)
      BY <2>8 DEF StartFirst, Fill
    <3> QED
      BY <3>1, HandedJoined
  <2>9. ASSUME NEW q \in PBlock, Task(q) PROVE FALSE
    BY <2>9, TaskFrees
  <2>10. ASSUME NEW r \in Reader,
                Begin(r) \/ Scan(r) \/ Take(r) \/ ReadPBlock(r) \/ LetGo(r)
                  \/ NextBlock(r) \/ Leftover(r) \/ Fallback(r)
         PROVE  UNCHANGED pblock
    BY <2>10 DEF Begin, Scan, Take, ReadPBlock, LetGo, NextBlock, Leftover, Fallback,
                 blockVars
  <2>11. ASSUME NEW r \in Reader, Look(r) PROVE UNCHANGED pblock
    BY <2>5, <2>11 DEF Look, blockVars
  <2>12. ASSUME CloseFile \/ Unmount \/ Freed \/ Crashed \/ UNCHANGED vars
         PROVE  UNCHANGED pblock
    BY <2>12 DEF CloseFile, Unmount, Freed, Crashed, vars, blockVars
  <2> QED
    BY <2>1, <2>2, <2>3, <2>4, <2>6, <2>7, <2>8, <2>9, <2>10, <2>11, <2>12
       DEF Next, ReadStep
<1>2. Spec => [][A]_vars
  BY <1>1, Invariance, PTL DEF Spec
<1> QED
  BY <1>2 DEF JoinedOnce
=============================================================================
