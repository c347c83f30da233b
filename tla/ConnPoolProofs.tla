---------------------------- MODULE ConnPoolProofs ----------------------------
(***************************************************************************)
(* The inductive invariant of ConnPool.  First the three facts about       *)
(* sequences the free list needs, then one lemma per action, each with one *)
(* step per part of the invariant; the counting argument (RefTake,         *)
(* RefUnuse, RefForget) is shared by the actions.                          *)
(***************************************************************************)
EXTENDS ConnPool, FiniteSetTheorems, SequenceTheorems, TLAPS

\* push_front of an element that is not on the list.
LEMMA PushFront ==
  ASSUME NEW S, NEW q \in Seq(S), NEW c \in S, c \notin ToSet(q), IsInjective(q)
  PROVE  /\ <<c>> \o q \in Seq(S)
         /\ ToSet(<<c>> \o q) = ToSet(q) \cup {c}
         /\ IsInjective(<<c>> \o q)
<1> DEFINE r == <<c>> \o q
<1>1. r \in Seq(S) /\ Len(r) = Len(q) + 1 /\ r[1] = c /\ DOMAIN r = 1 .. Len(q) + 1
  OBVIOUS
<1>2. \A i \in 1 .. Len(q) : r[i + 1] = q[i]
  OBVIOUS
<1>3. \A i \in 2 .. Len(q) + 1 : i - 1 \in DOMAIN q /\ r[i] = q[i - 1]
  BY <1>2
<1>4. ToSet(r) = ToSet(q) \cup {c}
  <2>1. ASSUME NEW x \in ToSet(q) PROVE x \in ToSet(r)
    <3>1. PICK i \in 1 .. Len(q) : q[i] = x
      BY DEF ToSet
    <3>2. i + 1 \in DOMAIN r /\ r[i + 1] = x
      BY <1>1, <1>2, <3>1
    <3>. QED BY <3>2 DEF ToSet
  <2>2. c \in ToSet(r)
    BY <1>1 DEF ToSet
  <2>3. ASSUME NEW i \in DOMAIN r PROVE r[i] \in ToSet(q) \cup {c}
    BY <1>1, <1>3 DEF ToSet
  <2>. HIDE DEF r
  <2>. QED BY <2>1, <2>2, <2>3 DEF ToSet
<1>5. IsInjective(r)
  BY <1>1, <1>3 DEF IsInjective, ToSet
<1>. QED BY <1>1, <1>4, <1>5

\* front and remove(front).
LEMMA PopFront ==
  ASSUME NEW S, NEW q \in Seq(S), q # <<>>, IsInjective(q)
  PROVE  /\ Head(q) \in S
         /\ Tail(q) \in Seq(S)
         /\ ToSet(Tail(q)) = ToSet(q) \ {Head(q)}
         /\ Head(q) \in ToSet(q)
         /\ IsInjective(Tail(q))
<1> DEFINE r == Tail(q)
<1>1. /\ r \in Seq(S) /\ DOMAIN r = 1 .. Len(q) - 1 /\ Len(q) \in Nat \ {0}
      /\ Head(q) = q[1] /\ DOMAIN q = 1 .. Len(q)
  OBVIOUS
<1>2. \A i \in DOMAIN r : r[i] = q[i + 1] /\ i + 1 \in DOMAIN q
  BY <1>1
<1>3. ToSet(r) = ToSet(q) \ {Head(q)}
  <2>1. ASSUME NEW x \in ToSet(q), x # Head(q) PROVE x \in ToSet(r)
    <3>1. PICK i \in DOMAIN q : q[i] = x
      BY DEF ToSet
    <3>2. i - 1 \in DOMAIN r /\ r[i - 1] = x
      BY <1>1, <1>2, <2>1, <3>1
    <3>. QED BY <3>2 DEF ToSet
  <2>2. ASSUME NEW i \in DOMAIN r PROVE r[i] \in ToSet(q) /\ r[i] # Head(q)
    BY <1>1, <1>2 DEF ToSet, IsInjective
  <2>. QED BY <2>1, <2>2 DEF ToSet
<1>4. IsInjective(r)
  BY <1>1, <1>2 DEF IsInjective
<1>5. Head(q) \in S /\ Head(q) \in ToSet(q)
  BY <1>1 DEF ToSet
<1>. QED BY <1>1, <1>3, <1>4, <1>5

\* remove of an element somewhere on the list.
LEMMA DropOne ==
  ASSUME NEW S, NEW q \in Seq(S), NEW k \in DOMAIN q, IsInjective(q)
  PROVE  /\ RemoveAt(q, k) \in Seq(S)
         /\ ToSet(RemoveAt(q, k)) = ToSet(q) \ {q[k]}
         /\ IsInjective(RemoveAt(q, k))
<1> DEFINE a == SubSeq(q, 1, k - 1)
           b == SubSeq(q, k + 1, Len(q))
           r == a \o b
<1>1. /\ a \in Seq(S) /\ Len(a) = k - 1 /\ DOMAIN q = 1 .. Len(q) /\ k \in 1 .. Len(q)
      /\ Len(q) \in Nat /\ k \in Nat
      /\ \A i \in 1 .. k - 1 : a[i] = q[i]
  OBVIOUS
<1>2. /\ b \in Seq(S) /\ Len(b) = Len(q) - k
      /\ \A i \in 1 .. Len(q) - k : b[i] = q[k + i]
  <2>1. k + 1 <= Len(q) + 1 /\ k \in Nat /\ Len(q) \in Nat
    BY <1>1
  <2>. QED BY <2>1, SubSeqProperties
<1>3. r \in Seq(S) /\ Len(r) = Len(q) - 1 /\ DOMAIN r = 1 .. Len(q) - 1
  <2>. HIDE DEF a, b
  <2>1. r \in Seq(S) /\ Len(r) = Len(a) + Len(b)
    BY <1>1, <1>2, ConcatProperties
  <2>. HIDE DEF r
  <2>2. DOMAIN r = 1 .. Len(r)
    BY <2>1
  <2>. QED BY <1>1, <1>2, <2>1, <2>2
<1>4. \A i \in DOMAIN r : r[i] = IF i < k THEN q[i] ELSE q[i + 1]
  <2>. SUFFICES ASSUME NEW i \in DOMAIN r
                PROVE  r[i] = IF i < k THEN q[i] ELSE q[i + 1]
    OBVIOUS
  <2>1. i \in 1 .. Len(q) - 1
    BY <1>3
  <2>. HIDE DEF a, b
  <2>2. r[i] = IF i <= Len(a) THEN a[i] ELSE b[i - Len(a)]
    BY <2>1, <1>1, <1>2, ConcatProperties
  <2>. HIDE DEF r
  <2>3. CASE i < k
    BY <1>1, <2>1, <2>2, <2>3
  <2>4. CASE i >= k
    <3>1. i - (k - 1) \in 1 .. Len(q) - k /\ k + (i - (k - 1)) = i + 1
      BY <1>1, <2>1, <2>4
    <3>. QED BY <1>1, <1>2, <2>1, <2>2, <2>4, <3>1
  <2>. QED BY <1>1, <2>1, <2>3, <2>4
<1> HIDE DEF r
<1>5. ToSet(r) = ToSet(q) \ {q[k]}
  <2>1. ASSUME NEW x \in ToSet(q), x # q[k] PROVE x \in ToSet(r)
    <3>1. PICK i \in DOMAIN q : q[i] = x
      BY DEF ToSet
    <3>2. CASE i < k
      <4>1. i \in DOMAIN r /\ r[i] = x
        BY <1>1, <1>3, <1>4, <3>1, <3>2
      <4>. QED BY <4>1 DEF ToSet
    <3>3. CASE i > k
      <4>1. i - 1 \in DOMAIN r /\ r[i - 1] = x
        BY <1>1, <1>3, <1>4, <3>1, <3>3
      <4>. QED BY <4>1 DEF ToSet
    <3>. QED BY <1>1, <2>1, <3>1, <3>2, <3>3
  <2>2. ASSUME NEW i \in DOMAIN r PROVE r[i] \in ToSet(q) /\ r[i] # q[k]
    BY <1>1, <1>3, <1>4 DEF ToSet, IsInjective
  <2>. QED BY <2>1, <2>2 DEF ToSet
<1>6. IsInjective(r)
  <2>. SUFFICES ASSUME NEW i \in DOMAIN r, NEW j \in DOMAIN r, r[i] = r[j]
                PROVE  i = j
    BY DEF IsInjective
  <2>. DEFINE u == IF i < k THEN i ELSE i + 1
              v == IF j < k THEN j ELSE j + 1
  <2>1. i \in Nat /\ j \in Nat /\ u \in DOMAIN q /\ v \in DOMAIN q
    BY <1>1, <1>3
  <2>2. q[u] = r[i] /\ q[v] = r[j]
    BY <1>4
  <2>3. u = v
    BY <2>1, <2>2 DEF IsInjective
  <2>. QED BY <1>1, <2>1, <2>3
<1>7. RemoveAt(q, k) = r
  BY DEF RemoveAt, r
<1>. QED BY <1>3, <1>5, <1>6, <1>7

-----------------------------------------------------------------------------
(* Sessions and the references they hold *)

LEMMA HoldersFinite ==
  ASSUME NEW c \in Conn
  PROVE  IsFiniteSet(Holders(c)) /\ Cardinality(Holders(c)) \in Nat
<1>1. Holders(c) \subseteq Session
  BY DEF Holders
<1>. QED BY <1>1, ConnAssumption, FS_Subset, FS_CardinalityType

Busy == {"calling", "opening", "open"}

\* A busy session holds an allocated connection that counts it.
LEMMA HeldIsCounted ==
  ASSUME IInv, NEW s \in Session, pc[s] \in Busy
  PROVE  /\ held[s] \in Conn /\ held[s] \in allocated
         /\ inuseCnt[held[s]] \in Nat \ {0}
         /\ mounted
<1>1. held[s] \in Conn /\ held[s] # NoConn
  BY ConnAssumption DEF IInv, SessionInv, TypeOK, Busy
<1>2. held[s] \in allocated
  BY <1>1 DEF IInv, NoDangling
<1>3. s \in Holders(held[s])
  BY DEF Holders, Busy
<1>4. Cardinality(Holders(held[s])) # 0
  BY <1>1, <1>3, HoldersFinite, FS_EmptySet
<1>5. inuseCnt[held[s]] # 0
  BY <1>1, <1>4, HoldersFinite DEF IInv, RefCount, TypeOK
<1>. QED BY <1>1, <1>2, <1>5 DEF IInv, TypeOK, UnmountClosesAll

LEMMA HoldersTake ==
  ASSUME IInv, NEW s \in Session, NEW c \in Conn, pc[s] = "idle",
         NEW k \in PC \ {"freeing"},
         pc' = [pc EXCEPT ![s] = k], held' = [held EXCEPT ![s] = c]
  PROVE  /\ Cardinality(Holders(c)') = Cardinality(Holders(c)) + 1
         /\ \A d \in Conn \ {c} : Holders(d)' = Holders(d)
<1>0. held[s] = NoConn
  BY DEF IInv, SessionInv
<1>1. Holders(c)' = Holders(c) \cup {s} /\ s \notin Holders(c)
  BY <1>0, ConnAssumption DEF Holders, IInv, TypeOK
<1>2. \A d \in Conn \ {c} : Holders(d)' = Holders(d)
  BY <1>0, ConnAssumption DEF Holders, IInv, TypeOK
<1>. QED BY <1>1, <1>2, HoldersFinite, FS_AddElement

LEMMA HoldersDrop ==
  ASSUME IInv, NEW s \in Session, NEW c \in Conn, held[s] = c, pc[s] \in Busy,
         \/ Leave(s)
         \/ pc' = [pc EXCEPT ![s] = "freeing"] /\ UNCHANGED held
  PROVE  /\ Cardinality(Holders(c)') = Cardinality(Holders(c)) - 1
         /\ \A d \in Conn \ {c} : Holders(d)' = Holders(d)
<1>1. s \in Holders(c)
  BY DEF Holders, Busy
<1>2. pc \in [Session -> PC] /\ held \in [Session -> Conn \cup {NoConn}] /\ c # NoConn
  BY ConnAssumption DEF IInv, TypeOK
<1>3. Holders(c)' = Holders(c) \ {s}
  BY <1>2 DEF Holders, Leave, Busy
<1>4. \A d \in Conn \ {c} : Holders(d)' = Holders(d)
  BY <1>2, ConnAssumption DEF Holders, Leave, Busy
<1>5. IsFiniteSet(Holders(c))
  BY HoldersFinite
<1>6. Cardinality(Holders(c)') = Cardinality(Holders(c)) - 1
  BY <1>1, <1>3, <1>5, FS_RemoveElement
<1>. QED BY <1>4, <1>6

\* The variables Take changes keep their types.
LEMMA TakeType ==
  ASSUME IInv, NEW s \in Session, NEW u \in Use, NEW c \in Conn, Take(s, u, c)
  PROVE  /\ pc' \in [Session -> PC] /\ held' \in [Session -> Conn \cup {NoConn}]
         /\ inuseCnt' \in [Conn -> Nat] /\ idleFor' \in [Conn -> 0 .. ConnTimeout]
<1>1. pc' \in [Session -> PC]
  BY DEF IInv, TypeOK, Take, PC
<1>2. held' \in [Session -> Conn \cup {NoConn}]
  BY DEF IInv, TypeOK, Take
<1>3. inuseCnt' \in [Conn -> Nat]
  BY DEF IInv, TypeOK, Take
<1>4. idleFor' \in [Conn -> 0 .. ConnTimeout]
  BY ConnAssumption DEF IInv, TypeOK, Take
<1>. QED BY <1>1, <1>2, <1>3, <1>4

LEMMA RefTake ==
  ASSUME IInv, NEW s \in Session, NEW u \in Use, NEW c \in Conn,
         pc[s] = "idle", Take(s, u, c)
  PROVE  RefCount'
<1>1. /\ Cardinality(Holders(c)') = Cardinality(Holders(c)) + 1
      /\ \A d \in Conn \ {c} : Holders(d)' = Holders(d)
  BY HoldersTake DEF Take, PC
<1>2. SUFFICES ASSUME NEW d \in Conn
               PROVE  inuseCnt'[d] = Cardinality(Holders(d)') + lost[d]
  BY DEF RefCount, Take
<1>3. inuseCnt[d] = Cardinality(Holders(d)) + lost[d]
      /\ Cardinality(Holders(d)) \in Nat /\ lost[d] \in Nat
  BY HoldersFinite, ConnAssumption DEF IInv, RefCount, TypeOK
<1>4. CASE d = c
  BY <1>1, <1>3, <1>4 DEF Take, IInv, TypeOK
<1>5. CASE d # c
  BY <1>1, <1>3, <1>5 DEF Take, IInv, TypeOK
<1>. QED BY <1>4, <1>5

LEMMA RefUnuse ==
  ASSUME IInv, NEW s \in Session, NEW t \in ConnType, Unuses(s, t),
         \/ Leave(s)
         \/ pc' = [pc EXCEPT ![s] = "freeing"] /\ UNCHANGED held
  PROVE  RefCount'
<1> DEFINE c == held[s]
<1>1. c \in Conn /\ inuseCnt[c] \in Nat \ {0}
  BY HeldIsCounted DEF Unuses, Busy
<1>2. inuseCnt' = [inuseCnt EXCEPT ![c] = @ - 1] /\ UNCHANGED lost
  BY DEF Unuses
<1>3. PICK d \in Conn : d = c
  BY <1>1
<1>4. /\ Cardinality(Holders(d)') = Cardinality(Holders(d)) - 1
      /\ \A e \in Conn \ {d} : Holders(e)' = Holders(e)
  BY <1>3, HoldersDrop DEF Unuses, Busy
<1>5. SUFFICES ASSUME NEW e \in Conn
               PROVE  inuseCnt'[e] = Cardinality(Holders(e)') + lost'[e]
  BY DEF RefCount
<1>6. /\ inuseCnt[e] = Cardinality(Holders(e)) + lost[e]
      /\ Cardinality(Holders(e)) \in Nat /\ lost[e] \in Nat
  BY HoldersFinite, ConnAssumption DEF IInv, RefCount, TypeOK
<1>7. CASE e = d
  BY <1>1, <1>2, <1>3, <1>4, <1>6, <1>7 DEF IInv, TypeOK
<1>8. CASE e # d
  BY <1>1, <1>2, <1>3, <1>4, <1>6, <1>8 DEF IInv, TypeOK
<1>. QED BY <1>7, <1>8

LEMMA RefForget ==
  ASSUME IInv, NEW s \in Session, pc[s] \in Busy, Forget(s)
  PROVE  RefCount'
<1> DEFINE c == held[s]
<1>1. c \in Conn
  BY HeldIsCounted
<1>2. PICK d \in Conn : d = c
  BY <1>1
<1>3. /\ Cardinality(Holders(d)') = Cardinality(Holders(d)) - 1
      /\ \A e \in Conn \ {d} : Holders(e)' = Holders(e)
  BY <1>2, HoldersDrop DEF Forget, Leave
<1>4. SUFFICES ASSUME NEW e \in Conn
               PROVE  inuseCnt'[e] = Cardinality(Holders(e)') + lost'[e]
  BY DEF RefCount
<1>5. /\ inuseCnt[e] = Cardinality(Holders(e)) + lost[e]
      /\ Cardinality(Holders(e)) \in Nat /\ lost[e] \in Nat
  BY HoldersFinite, ConnAssumption DEF IInv, RefCount, TypeOK
<1>6. CASE e = d
  BY <1>1, <1>2, <1>3, <1>5, <1>6 DEF IInv, TypeOK, Forget, objVars
<1>7. CASE e # d
  BY <1>1, <1>2, <1>3, <1>5, <1>7 DEF IInv, TypeOK, Forget, objVars
<1>. QED BY <1>6, <1>7

-----------------------------------------------------------------------------
(* iFuseConnGetAndUse preserves the invariant, branch by branch *)

LEMMA StepUseShortInUse ==
  ASSUME IInv, NEW s \in Session, NEW u \in Use, UseShortInUse(s, u)
  PROVE  IInv'
<1>1. PICK c \in Conn : c = inUseShortopConn
  BY DEF IInv, TypeOK, UseShortInUse
<1>2. /\ pc[s] = "idle" /\ PoolUnlocked
      /\ Take(s, u, c) /\ UNCHANGED <<allocated, connType, hasComm>>
      /\ UNCHANGED <<inUseShortopConn, freeShortopConn, inUseConn,
                     inUseOnetimeuseConn, freeConn>>
  BY <1>1 DEF UseShortInUse, Reuse, Requests
<1>3. Is(c, "SHORTOP") /\ inuseCnt[c] > 0
  BY <1>1 DEF IInv, PlacedOnce, ShortHome
<1>4. Free' = Free
  BY <1>2 DEF Free
<1> USE <1>2, <1>3, <1>4, ConnAssumption
<1>5. TypeOK'
  BY TakeType DEF IInv, TypeOK, Take, ConnType
<1>6. SessionInv'
  BY DEF IInv, SessionInv, TypeOK, Take, Is
<1>7. RefCount'
  BY RefTake
<1>8. NoDangling'
  BY DEF IInv, TypeOK, NoDangling, Take, Pooled, Is
<1>9. FileHome'
  BY DEF IInv, TypeOK, PlacedOnce, FileHome, Take, Is
<1>10. ShortHome'
  BY DEF IInv, TypeOK, PlacedOnce, ShortHome, Take, Is
<1>11. OnetimeHome'
  BY DEF IInv, TypeOK, PlacedOnce, OnetimeHome, Take, Is
<1>12. ReapInv' /\ FreshInv' /\ UnmountClosesAll'
  BY DEF IInv, TypeOK, ReapInv, FreshInv, UnmountClosesAll, Take, PoolUnlocked, Is
<1>. QED BY <1>5, <1>6, <1>7, <1>8, <1>9, <1>10, <1>11, <1>12 DEF IInv, PlacedOnce

LEMMA StepUseFileFree ==
  ASSUME IInv, NEW s \in Session, NEW u \in Use, UseFileFree(s, u)
  PROVE  IInv'
<1>1. PICK c \in Conn : c = Head(freeConn)
  BY PopFront DEF IInv, TypeOK, PlacedOnce, FileHome, UseFileFree
<1>2. /\ c \in Free
      /\ freeConn' \in Seq(Conn) /\ Free' = Free \ {c} /\ IsInjective(freeConn')
  BY <1>1, PopFront DEF IInv, TypeOK, PlacedOnce, FileHome, Free, UseFileFree
<1>3. /\ pc[s] = "idle" /\ PoolUnlocked
      /\ Take(s, u, c) /\ UNCHANGED <<allocated, connType, hasComm>>
      /\ UNCHANGED <<inUseShortopConn, freeShortopConn, inUseOnetimeuseConn>>
  BY <1>1 DEF UseFileFree, Reuse, Requests
<1>4. PICK i \in Slot : /\ inUseConn[i] = NoConn
                        /\ inUseConn' = [inUseConn EXCEPT ![i] = c]
  BY <1>1 DEF UseFileFree, FirstEmpty
<1>5. Is(c, "FILE_IO") /\ inuseCnt[c] = 0 /\ \A j \in Slot : inUseConn[j] # c
  <2>1. c \in Free
    BY <1>2
  <2>2. Is(c, "FILE_IO") /\ inuseCnt[c] = 0
    BY <2>1 DEF IInv, PlacedOnce, FileHome
  <2>. QED BY <2>2 DEF IInv, PlacedOnce, FileHome
<1> USE <1>2, <1>3, <1>4, <1>5, ConnAssumption
<1>6. TypeOK'
  BY TakeType DEF IInv, TypeOK, Take, ConnType
<1>7. SessionInv'
  BY DEF IInv, SessionInv, TypeOK, Take, Is
<1>8. RefCount'
  BY RefTake
<1>9. NoDangling'
  BY DEF IInv, TypeOK, NoDangling, Take, Pooled, Is
<1>10. FileHome'
  BY DEF IInv, TypeOK, PlacedOnce, FileHome, Take, Is
<1>11. ShortHome'
  BY DEF IInv, TypeOK, PlacedOnce, ShortHome, Take, Is
<1>12. OnetimeHome'
  BY DEF IInv, TypeOK, PlacedOnce, OnetimeHome, Take, Is
<1>13. ReapInv' /\ FreshInv' /\ UnmountClosesAll'
  BY DEF IInv, TypeOK, ReapInv, FreshInv, UnmountClosesAll, Take, PoolUnlocked, Is
<1>. QED BY <1>6, <1>7, <1>8, <1>9, <1>10, <1>11, <1>12, <1>13 DEF IInv, PlacedOnce

LEMMA StepUseShortFree ==
  ASSUME IInv, NEW s \in Session, NEW u \in Use, UseShortFree(s, u)
  PROVE  IInv'
<1>1. PICK c \in Conn : c = freeShortopConn
  BY DEF IInv, TypeOK, UseShortFree
<1>2. /\ pc[s] = "idle" /\ PoolUnlocked
      /\ Take(s, u, c) /\ UNCHANGED <<allocated, connType, hasComm>>
      /\ inUseShortopConn' = c /\ freeShortopConn' = NoConn
      /\ UNCHANGED <<inUseConn, inUseOnetimeuseConn, freeConn>>
      /\ inUseShortopConn = NoConn
  BY <1>1 DEF UseShortFree, Reuse, Requests
<1>3. Is(c, "SHORTOP") /\ inuseCnt[c] = 0
  BY <1>1 DEF IInv, PlacedOnce, ShortHome
<1>4. Free' = Free
  BY <1>2 DEF Free
<1> USE <1>1, <1>2, <1>3, <1>4, ConnAssumption
<1>5. TypeOK'
  BY TakeType DEF IInv, TypeOK, Take, ConnType
<1>6. SessionInv'
  BY DEF IInv, SessionInv, TypeOK, Take, Is
<1>7. RefCount'
  BY RefTake
<1>8. NoDangling'
  BY DEF IInv, TypeOK, NoDangling, Take, Pooled, Is
<1>9. FileHome'
  BY DEF IInv, TypeOK, PlacedOnce, FileHome, Take, Is
<1>10. ShortHome'
  BY DEF IInv, TypeOK, PlacedOnce, ShortHome, Take, Is
<1>11. OnetimeHome'
  BY DEF IInv, TypeOK, PlacedOnce, OnetimeHome, Take, Is
<1>12. ReapInv' /\ FreshInv' /\ UnmountClosesAll'
  BY DEF IInv, TypeOK, ReapInv, FreshInv, UnmountClosesAll, Take, PoolUnlocked, Is
<1>. QED BY <1>5, <1>6, <1>7, <1>8, <1>9, <1>10, <1>11, <1>12 DEF IInv, PlacedOnce

\* What a new connection may rely on: nobody knows its address.
LEMMA FreshIsUnknown ==
  ASSUME IInv, NEW c \in Conn \ allocated
  PROVE  /\ c \notin Pooled /\ c \notin removeList /\ c # NoConn
         /\ \A s \in Session : held[s] # c
         /\ inuseCnt[c] = 0
BY ConnAssumption DEF IInv, NoDangling, FreshInv

LEMMA StepUseShortNew ==
  ASSUME IInv, NEW s \in Session, NEW u \in Use, NEW c \in Conn, UseShortNew(s, u, c)
  PROVE  IInv'
<1>1. /\ pc[s] = "idle" /\ PoolUnlocked /\ TypeFor(u) = "SHORTOP"
      /\ c \in Conn \ allocated
      /\ allocated' = allocated \cup {c}
      /\ connType' = [connType EXCEPT ![c] = "SHORTOP"]
      /\ hasComm' = [hasComm EXCEPT ![c] = TRUE]
      /\ Take(s, u, c)
      /\ inUseShortopConn' = c
      /\ UNCHANGED <<freeShortopConn, inUseConn, inUseOnetimeuseConn, freeConn>>
      /\ inUseShortopConn = NoConn /\ freeShortopConn = NoConn
  BY DEF UseShortNew, NewConn, Requests
<1>2. /\ c \notin Pooled /\ c \notin removeList /\ c # NoConn
      /\ \A t \in Session : held[t] # c
      /\ inuseCnt[c] = 0
  BY <1>1, FreshIsUnknown
<1>3. c \notin Free /\ c \notin inUseOnetimeuseConn /\ \A i \in Slot : inUseConn[i] # c
  BY <1>2 DEF Pooled
<1>4. Free' = Free
  BY <1>1 DEF Free
<1> USE <1>1, <1>2, <1>3, <1>4, ConnAssumption
<1>5. TypeOK'
  BY TakeType DEF IInv, TypeOK, Take, ConnType
<1>6. SessionInv'
  BY DEF IInv, SessionInv, TypeOK, Take, Is
<1>7. RefCount'
  BY RefTake
<1>8. NoDangling'
  BY DEF IInv, TypeOK, NoDangling, Take, Pooled, Is
<1>9. FileHome'
  BY DEF IInv, TypeOK, PlacedOnce, FileHome, Take, Is
<1>10. ShortHome'
  BY DEF IInv, TypeOK, PlacedOnce, ShortHome, Take, Is
<1>11. OnetimeHome'
  BY DEF IInv, TypeOK, PlacedOnce, OnetimeHome, Take, Is
<1>12. ReapInv' /\ FreshInv' /\ UnmountClosesAll'
  BY DEF IInv, TypeOK, ReapInv, FreshInv, UnmountClosesAll, Take, PoolUnlocked, Is
<1>. QED BY <1>5, <1>6, <1>7, <1>8, <1>9, <1>10, <1>11, <1>12 DEF IInv, PlacedOnce

LEMMA StepUseFileNew ==
  ASSUME IInv, NEW s \in Session, NEW u \in Use, NEW c \in Conn, UseFileNew(s, u, c)
  PROVE  IInv'
<1>1. /\ pc[s] = "idle" /\ PoolUnlocked /\ TypeFor(u) = "FILE_IO"
      /\ c \in Conn \ allocated
      /\ allocated' = allocated \cup {c}
      /\ connType' = [connType EXCEPT ![c] = "FILE_IO"]
      /\ hasComm' = [hasComm EXCEPT ![c] = TRUE]
      /\ Take(s, u, c)
      /\ UNCHANGED <<inUseShortopConn, freeShortopConn, inUseOnetimeuseConn, freeConn>>
  BY DEF UseFileNew, NewConn, Requests
<1>2. /\ c \notin Pooled /\ c \notin removeList /\ c # NoConn
      /\ \A t \in Session : held[t] # c
      /\ inuseCnt[c] = 0
  BY <1>1, FreshIsUnknown
<1>3. /\ c \notin Free /\ c \notin inUseOnetimeuseConn /\ \A i \in Slot : inUseConn[i] # c
      /\ c # inUseShortopConn /\ c # freeShortopConn
  BY <1>2 DEF Pooled
<1>4. Free' = Free
  BY <1>1 DEF Free
<1>5. PICK i \in Slot : /\ inUseConn[i] = NoConn
                        /\ inUseConn' = [inUseConn EXCEPT ![i] = c]
  BY DEF UseFileNew, FirstEmpty
<1> USE <1>1, <1>2, <1>3, <1>4, <1>5, ConnAssumption
<1>6. TypeOK'
  BY TakeType DEF IInv, TypeOK, Take, ConnType
<1>7. SessionInv'
  BY DEF IInv, SessionInv, TypeOK, Take, Is
<1>8. RefCount'
  BY RefTake
<1>9. NoDangling'
  BY DEF IInv, TypeOK, NoDangling, Take, Pooled, Is
<1>10. FileHome'
  BY DEF IInv, TypeOK, PlacedOnce, FileHome, Take, Is
<1>11. ShortHome'
  BY DEF IInv, TypeOK, PlacedOnce, ShortHome, Take, Is
<1>12. OnetimeHome'
  BY DEF IInv, TypeOK, PlacedOnce, OnetimeHome, Take, Is
<1>13. ReapInv' /\ FreshInv' /\ UnmountClosesAll'
  BY DEF IInv, TypeOK, ReapInv, FreshInv, UnmountClosesAll, Take, PoolUnlocked, Is
<1>. QED BY <1>6, <1>7, <1>8, <1>9, <1>10, <1>11, <1>12, <1>13 DEF IInv, PlacedOnce

LEMMA StepUseFileShared ==
  ASSUME IInv, NEW s \in Session, NEW u \in Use, UseFileShared(s, u)
  PROVE  IInv'
<1>1. PICK i \in Slot : Reuse(s, u, inUseConn[i])
  BY DEF UseFileShared, LeastUsed
<1>2. PICK c \in Conn : c = inUseConn[i]
  BY DEF UseFileShared, IInv, TypeOK
<1>3. /\ pc[s] = "idle" /\ PoolUnlocked
      /\ Take(s, u, c) /\ UNCHANGED <<allocated, connType, hasComm>>
      /\ UNCHANGED <<inUseShortopConn, freeShortopConn, inUseConn,
                     inUseOnetimeuseConn, freeConn>>
  BY <1>1, <1>2 DEF UseFileShared, Reuse, Requests
<1>4. Is(c, "FILE_IO") /\ inuseCnt[c] > 0
  BY <1>2 DEF IInv, PlacedOnce, FileHome
<1>5. Free' = Free
  BY <1>3 DEF Free
<1> USE <1>3, <1>4, <1>5, ConnAssumption
<1>6. TypeOK'
  BY TakeType DEF IInv, TypeOK, Take, ConnType
<1>7. SessionInv'
  BY DEF IInv, SessionInv, TypeOK, Take, Is
<1>8. RefCount'
  BY RefTake
<1>9. NoDangling'
  BY DEF IInv, TypeOK, NoDangling, Take, Pooled, Is
<1>10. FileHome'
  BY SMTT(30) DEF IInv, TypeOK, PlacedOnce, FileHome, Take, Is
<1>11. ShortHome'
  BY DEF IInv, TypeOK, PlacedOnce, ShortHome, Take, Is
<1>12. OnetimeHome'
  BY DEF IInv, TypeOK, PlacedOnce, OnetimeHome, Take, Is
<1>13. ReapInv' /\ FreshInv' /\ UnmountClosesAll'
  BY DEF IInv, TypeOK, ReapInv, FreshInv, UnmountClosesAll, Take, PoolUnlocked, Is
<1>. QED BY <1>6, <1>7, <1>8, <1>9, <1>10, <1>11, <1>12, <1>13 DEF IInv, PlacedOnce

LEMMA StepUseOnetimeNew ==
  ASSUME IInv, NEW s \in Session, NEW u \in Use, NEW c \in Conn, UseOnetimeNew(s, u, c)
  PROVE  IInv'
<1>1. /\ pc[s] = "idle" /\ PoolUnlocked /\ TypeFor(u) = "ONETIMEUSE"
      /\ c \in Conn \ allocated
      /\ allocated' = allocated \cup {c}
      /\ connType' = [connType EXCEPT ![c] = "ONETIMEUSE"]
      /\ hasComm' = [hasComm EXCEPT ![c] = TRUE]
      /\ Take(s, u, c)
      /\ inUseOnetimeuseConn' = inUseOnetimeuseConn \cup {c}
      /\ UNCHANGED <<inUseShortopConn, freeShortopConn, inUseConn, freeConn>>
  BY DEF UseOnetimeNew, NewConn, Requests
<1>2. /\ c \notin Pooled /\ c \notin removeList /\ c # NoConn
      /\ \A t \in Session : held[t] # c
      /\ inuseCnt[c] = 0
  BY <1>1, FreshIsUnknown
<1>3. /\ c \notin Free /\ c \notin inUseOnetimeuseConn /\ \A i \in Slot : inUseConn[i] # c
      /\ c # inUseShortopConn /\ c # freeShortopConn
  BY <1>2 DEF Pooled
<1>4. Free' = Free
  BY <1>1 DEF Free
<1> USE <1>1, <1>2, <1>3, <1>4, ConnAssumption
<1>5. TypeOK'
  BY TakeType DEF IInv, TypeOK, Take, ConnType
<1>6. SessionInv'
  BY DEF IInv, SessionInv, TypeOK, Take, Is
<1>7. RefCount'
  BY RefTake
<1>8. NoDangling'
  BY DEF IInv, TypeOK, NoDangling, Take, Pooled, Is
<1>9. FileHome'
  BY DEF IInv, TypeOK, PlacedOnce, FileHome, Take, Is
<1>10. ShortHome'
  BY DEF IInv, TypeOK, PlacedOnce, ShortHome, Take, Is
<1>11. OnetimeHome'
  BY DEF IInv, TypeOK, PlacedOnce, OnetimeHome, Take, Is
<1>12. ReapInv' /\ FreshInv' /\ UnmountClosesAll'
  BY DEF IInv, TypeOK, ReapInv, FreshInv, UnmountClosesAll, Take, PoolUnlocked, Is
<1>. QED BY <1>5, <1>6, <1>7, <1>8, <1>9, <1>10, <1>11, <1>12 DEF IInv, PlacedOnce

-----------------------------------------------------------------------------
(* The other steps of a session *)

LEMMA StepReconnect ==
  ASSUME IInv, NEW s \in Session, Reconnect(s)
  PROVE  IInv'
<1>1. PICK b \in BOOLEAN : hasComm' = [hasComm EXCEPT ![held[s]] = b]
  BY DEF Reconnect
<1>2. hasComm' \in [Conn -> BOOLEAN]
  BY <1>1 DEF IInv, TypeOK
<1>3. UNCHANGED <<allocated, connType, inuseCnt, idleFor, poolVars, pc, held, mounted, connReuse, lost>>
  BY DEF Reconnect
<1>4. TypeOK'
  BY <1>2, <1>3 DEF IInv, TypeOK, poolVars
<1>5. \A c \in Conn : Holders(c)' = Holders(c)
  BY <1>3 DEF Holders
<1>6. RefCount'
  BY <1>3, <1>5 DEF IInv, RefCount
<1>7. SessionInv' /\ NoDangling' /\ ReapInv' /\ FreshInv' /\ UnmountClosesAll'
  BY <1>3 DEF IInv, SessionInv, NoDangling, ReapInv, FreshInv, UnmountClosesAll,
              Pooled, Free, Is, poolVars
<1>8. PlacedOnce'
  BY <1>3 DEF IInv, PlacedOnce, FileHome, ShortHome, OnetimeHome, Free, Is, poolVars
<1>. QED BY <1>4, <1>6, <1>7, <1>8 DEF IInv

\* What concerns the pool only, and is therefore left alone by a step of a
\* session that does not touch the pool.
PoolInv == FileHome /\ ShortHome /\ ReapInv /\ FreshInv /\ UnmountClosesAll

LEMMA PoolUntouched ==
  ASSUME PoolInv, UNCHANGED <<objVars, poolVars, mounted, connReuse>>
  PROVE  PoolInv'
BY DEF PoolInv, FileHome, ShortHome, ReapInv, FreshInv, UnmountClosesAll,
       Free, Is, objVars, poolVars

LEMMA StepOpenSucceeds ==
  ASSUME IInv, NEW s \in Session, OpenSucceeds(s)
  PROVE  IInv'
<1>1. /\ pc[s] = "opening" /\ pc' = [pc EXCEPT ![s] = "open"]
      /\ UNCHANGED <<objVars, poolVars, held, mounted, connReuse, lost>>
  BY DEF OpenSucceeds
<1> USE <1>1
<1>2. TypeOK'
  BY DEF IInv, TypeOK, PC, objVars, poolVars
<1>3. SessionInv'
  BY DEF IInv, TypeOK, SessionInv, Is, objVars
<1>4. \A c \in Conn : Holders(c)' = Holders(c)
  BY DEF Holders, IInv, TypeOK
<1>5. RefCount'
  BY <1>4 DEF IInv, RefCount, objVars
<1>6. NoDangling'
  BY DEF IInv, NoDangling, Pooled, Free, objVars, poolVars
<1>7. OnetimeHome'
  BY DEF IInv, TypeOK, PlacedOnce, OnetimeHome, Is, objVars, poolVars
<1>8. PoolInv'
  BY PoolUntouched DEF IInv, PlacedOnce, PoolInv
<1>. QED BY <1>2, <1>3, <1>5, <1>6, <1>7, <1>8 DEF IInv, PlacedOnce, PoolInv

LEMMA StepForget ==
  ASSUME IInv, NEW s \in Session, pc[s] \in Busy, Forget(s)
  PROVE  IInv'
<1>1. PICK c \in Conn : c = held[s]
  BY HeldIsCounted
<1>2. /\ lost[c] < MaxLost /\ lost' = [lost EXCEPT ![c] = @ + 1]
      /\ pc' = [pc EXCEPT ![s] = "idle"] /\ held' = [held EXCEPT ![s] = NoConn]
      /\ UNCHANGED <<objVars, poolVars, mounted, connReuse>>
  BY <1>1 DEF Forget
<1>3. pc[s] # "freeing"
  BY DEF Busy
<1> USE <1>2, <1>3, ConnAssumption
<1>4. TypeOK'
  <2>1. lost' \in [Conn -> 0 .. MaxLost]
    BY DEF IInv, TypeOK
  <2>2. pc' \in [Session -> PC] /\ held' \in [Session -> Conn \cup {NoConn}]
    BY DEF IInv, TypeOK, PC
  <2>. QED BY <2>1, <2>2 DEF IInv, TypeOK, objVars, poolVars
<1>5. SessionInv'
  BY DEF IInv, TypeOK, SessionInv, Is, objVars
<1>6. RefCount'
  BY RefForget
<1>7. NoDangling'
  BY DEF IInv, TypeOK, NoDangling, Pooled, Free, objVars, poolVars
<1>8. OnetimeHome'
  BY DEF IInv, TypeOK, PlacedOnce, OnetimeHome, Is, objVars, poolVars
<1>9. PoolInv'
  BY PoolUntouched DEF IInv, PlacedOnce, PoolInv
<1>. QED BY <1>4, <1>5, <1>6, <1>7, <1>8, <1>9 DEF IInv, PlacedOnce, PoolInv

-----------------------------------------------------------------------------
(* iFuseConnUnuse *)

\* What every branch of iFuseConnUnuse starts from.
LEMMA UnuseFacts ==
  ASSUME IInv, NEW s \in Session, NEW t \in ConnType, Unuses(s, t)
  PROVE  \E c \in Conn :
           /\ c = held[s] /\ Is(c, t) /\ inuseCnt[c] \in Nat \ {0}
           /\ pc[s] # "freeing" /\ mounted /\ removeList = {}
           /\ inuseCnt' = [inuseCnt EXCEPT ![c] = @ - 1]
           /\ idleFor' = [idleFor EXCEPT ![c] = 0]
           /\ UNCHANGED <<allocated, connType, hasComm, removeList, mounted, connReuse, lost>>
<1>1. pc[s] \in Busy
  BY DEF Unuses, Busy
<1>. QED BY <1>1, HeldIsCounted DEF Unuses, Is, PoolUnlocked, Busy

LEMMA StepUnuseStillUsed ==
  ASSUME IInv, NEW s \in Session, UnuseStillUsed(s)
  PROVE  IInv'
<1>1. PICK t \in ConnType : Unuses(s, t)
  BY DEF UnuseStillUsed
<1>2. PICK c \in Conn :
           /\ c = held[s] /\ Is(c, t) /\ inuseCnt[c] \in Nat \ {0}
           /\ pc[s] # "freeing" /\ mounted /\ removeList = {}
           /\ inuseCnt' = [inuseCnt EXCEPT ![c] = @ - 1]
           /\ idleFor' = [idleFor EXCEPT ![c] = 0]
           /\ UNCHANGED <<allocated, connType, hasComm, removeList, mounted, connReuse, lost>>
  BY <1>1, UnuseFacts
<1>3. /\ inuseCnt[c] # 1
      /\ pc' = [pc EXCEPT ![s] = "idle"] /\ held' = [held EXCEPT ![s] = NoConn]
      /\ UNCHANGED <<inUseShortopConn, freeShortopConn, inUseConn,
                     inUseOnetimeuseConn, freeConn>>
  BY <1>2 DEF UnuseStillUsed, Leave
<1>4. inuseCnt[c] - 1 \in Nat \ {0}
  BY <1>2, <1>3
<1>5. Free' = Free
  BY <1>3 DEF Free
<1>6. RefCount'
  BY <1>1, RefUnuse DEF UnuseStillUsed
<1> USE <1>2, <1>3, <1>4, <1>5, ConnAssumption
<1>7. TypeOK'
  BY SMTT(30) DEF IInv, TypeOK, PC
<1>8. SessionInv'
  BY ZenonT(30) DEF IInv, SessionInv, TypeOK, Is
<1>9. NoDangling'
  BY DEF IInv, TypeOK, NoDangling, Pooled, Is
<1>10. FileHome'
  BY SMTT(30) DEF IInv, TypeOK, PlacedOnce, FileHome, Is
<1>11. ShortHome'
  BY DEF IInv, TypeOK, PlacedOnce, ShortHome, Is
<1>12. OnetimeHome'
  <2>1. /\ pc[s] # "freeing" /\ OnetimeHome /\ inuseCnt \in [Conn -> Nat] /\ c \in Conn
        /\ held \in [Session -> Conn \cup {NoConn}]
        /\ pc \in [Session -> PC]
    BY DEF IInv, TypeOK, PlacedOnce
  <2>2. \A u \in Session : pc[u] = "freeing" => pc'[u] = "freeing" /\ held'[u] = held[u]
    BY <2>1
  <2>3. inuseCnt[c] > 0 /\ inuseCnt'[c] > 0
    BY <2>1
  <2>4. \A d \in Conn : d # c => inuseCnt'[d] = inuseCnt[d]
    BY <2>1
  <2>5. \A d \in Conn : Is(d, "ONETIMEUSE")' <=> Is(d, "ONETIMEUSE")
    BY DEF Is
  <2> QED
    BY <2>1, <2>2, <2>3, <2>4, <2>5 DEF OnetimeHome
<1>13. ReapInv' /\ FreshInv' /\ UnmountClosesAll'
  BY DEF IInv, TypeOK, ReapInv, FreshInv, UnmountClosesAll, Is
<1>. QED BY <1>6, <1>7, <1>8, <1>9, <1>10, <1>11, <1>12, <1>13 DEF IInv, PlacedOnce

LEMMA StepUnuseShort ==
  ASSUME IInv, NEW s \in Session, UnuseShort(s)
  PROVE  IInv'
<1>1. Unuses(s, "SHORTOP")
  BY DEF UnuseShort
<1>2. PICK c \in Conn :
           /\ c = held[s] /\ Is(c, "SHORTOP") /\ inuseCnt[c] \in Nat \ {0}
           /\ pc[s] # "freeing" /\ mounted /\ removeList = {}
           /\ inuseCnt' = [inuseCnt EXCEPT ![c] = @ - 1]
           /\ idleFor' = [idleFor EXCEPT ![c] = 0]
           /\ UNCHANGED <<allocated, connType, hasComm, removeList, mounted, connReuse, lost>>
  BY <1>1, UnuseFacts DEF ConnType
<1>3. /\ inuseCnt[c] = 1
      /\ pc' = [pc EXCEPT ![s] = "idle"] /\ held' = [held EXCEPT ![s] = NoConn]
      /\ inUseShortopConn' = NoConn /\ freeShortopConn' = c
      /\ UNCHANGED <<inUseConn, inUseOnetimeuseConn, freeConn>>
  BY <1>2 DEF UnuseShort, Leave
<1>4. inUseShortopConn = c /\ freeShortopConn = NoConn
  BY <1>2, <1>3, ConnAssumption DEF IInv, PlacedOnce, ShortHome
<1>5. Free' = Free
  BY <1>3 DEF Free
<1>6. RefCount'
  BY <1>1, RefUnuse DEF UnuseShort, ConnType
<1> USE <1>2, <1>3, <1>4, <1>5, ConnAssumption
<1>7. TypeOK'
  BY DEF IInv, TypeOK, PC
<1>8. SessionInv'
  BY DEF IInv, SessionInv, TypeOK, Is
<1>9. NoDangling'
  BY DEF IInv, TypeOK, NoDangling, Pooled, Is
<1>10. FileHome'
  BY DEF IInv, TypeOK, PlacedOnce, FileHome, Is
<1>11. ShortHome'
  BY DEF IInv, TypeOK, PlacedOnce, ShortHome, Is
<1>12. OnetimeHome'
  BY DEF IInv, TypeOK, PlacedOnce, OnetimeHome, Is
<1>13. ReapInv' /\ FreshInv' /\ UnmountClosesAll'
  BY DEF IInv, TypeOK, ReapInv, FreshInv, UnmountClosesAll, Is
<1>. QED BY <1>6, <1>7, <1>8, <1>9, <1>10, <1>11, <1>12, <1>13 DEF IInv, PlacedOnce

LEMMA StepUnuseFile ==
  ASSUME IInv, NEW s \in Session, UnuseFile(s)
  PROVE  IInv'
<1>1. Unuses(s, "FILE_IO")
  BY DEF UnuseFile
<1>2. PICK c \in Conn :
           /\ c = held[s] /\ Is(c, "FILE_IO") /\ inuseCnt[c] \in Nat \ {0}
           /\ pc[s] # "freeing" /\ mounted /\ removeList = {}
           /\ inuseCnt' = [inuseCnt EXCEPT ![c] = @ - 1]
           /\ idleFor' = [idleFor EXCEPT ![c] = 0]
           /\ UNCHANGED <<allocated, connType, hasComm, removeList, mounted, connReuse, lost>>
  BY <1>1, UnuseFacts DEF ConnType
<1>3. /\ inuseCnt[c] = 1
      /\ pc' = [pc EXCEPT ![s] = "idle"] /\ held' = [held EXCEPT ![s] = NoConn]
      /\ inUseConn' = [i \in Slot |-> IF inUseConn[i] = c THEN NoConn ELSE inUseConn[i]]
      /\ freeConn' = <<c>> \o freeConn
      /\ UNCHANGED <<inUseShortopConn, freeShortopConn, inUseOnetimeuseConn>>
  BY <1>2 DEF UnuseFile, Leave, Cleared
<1>4. c \notin Free
  BY <1>2, <1>3 DEF IInv, PlacedOnce, FileHome
<1>5. freeConn' \in Seq(Conn) /\ Free' = Free \cup {c} /\ IsInjective(freeConn')
  BY <1>3, <1>4, PushFront DEF IInv, TypeOK, PlacedOnce, FileHome, Free
<1>6. RefCount'
  BY <1>1, RefUnuse DEF UnuseFile, ConnType
<1> USE <1>2, <1>3, <1>4, <1>5, ConnAssumption
<1>7. TypeOK'
  BY DEF IInv, TypeOK, PC
<1>8. SessionInv'
  BY DEF IInv, SessionInv, TypeOK, Is
<1>9. NoDangling'
  BY DEF IInv, TypeOK, NoDangling, Pooled, Is
<1>10. FileHome'
  BY SMTT(30) DEF IInv, TypeOK, PlacedOnce, FileHome, Is
<1>11. ShortHome'
  BY DEF IInv, TypeOK, PlacedOnce, ShortHome, Is
<1>12. OnetimeHome'
  BY SMTT(30) DEF IInv, TypeOK, PlacedOnce, OnetimeHome, Is
<1>13. ReapInv' /\ FreshInv' /\ UnmountClosesAll'
  BY DEF IInv, TypeOK, ReapInv, FreshInv, UnmountClosesAll, Is
<1>. QED BY <1>6, <1>7, <1>8, <1>9, <1>10, <1>11, <1>12, <1>13 DEF IInv, PlacedOnce

LEMMA StepUnuseOnetime ==
  ASSUME IInv, NEW s \in Session, UnuseOnetime(s)
  PROVE  IInv'
<1>1. Unuses(s, "ONETIMEUSE")
  BY DEF UnuseOnetime
<1>2. PICK c \in Conn :
           /\ c = held[s] /\ Is(c, "ONETIMEUSE") /\ inuseCnt[c] \in Nat \ {0}
           /\ pc[s] # "freeing" /\ mounted /\ removeList = {}
           /\ inuseCnt' = [inuseCnt EXCEPT ![c] = @ - 1]
           /\ idleFor' = [idleFor EXCEPT ![c] = 0]
           /\ UNCHANGED <<allocated, connType, hasComm, removeList, mounted, connReuse, lost>>
  BY <1>1, UnuseFacts DEF ConnType
<1>3. /\ inuseCnt[c] = 1
      /\ pc' = [pc EXCEPT ![s] = "freeing"] /\ UNCHANGED held
      /\ inUseOnetimeuseConn' = inUseOnetimeuseConn \ {c}
      /\ UNCHANGED <<inUseShortopConn, freeShortopConn, inUseConn, freeConn>>
  BY <1>2 DEF UnuseOnetime
<1>4. Free' = Free
  BY <1>3 DEF Free
<1>5. RefCount'
  BY <1>1, RefUnuse DEF UnuseOnetime, ConnType
\* A session that is freeing another connection found its count at zero.
<1>6. \A t \in Session : pc[t] = "freeing" => held[t] # c
  BY <1>2 DEF IInv, SessionInv
<1> USE <1>2, <1>3, <1>4, <1>6, ConnAssumption
<1>7. TypeOK'
  BY DEF IInv, TypeOK, PC
<1>8. SessionInv'
  BY DEF IInv, SessionInv, TypeOK, Is
<1>9. NoDangling'
  BY DEF IInv, TypeOK, NoDangling, Pooled, Is
<1>10. FileHome'
  BY DEF IInv, TypeOK, PlacedOnce, FileHome, Is
<1>11. ShortHome'
  BY DEF IInv, TypeOK, PlacedOnce, ShortHome, Is
<1>12. OnetimeHome'
  BY DEF IInv, TypeOK, PlacedOnce, OnetimeHome, Is
<1>13. ReapInv' /\ FreshInv' /\ UnmountClosesAll'
  BY DEF IInv, TypeOK, ReapInv, FreshInv, UnmountClosesAll, Is
<1>. QED BY <1>5, <1>7, <1>8, <1>9, <1>10, <1>11, <1>12, <1>13 DEF IInv, PlacedOnce

\* A connection that counts no user is held by none, but for the session that
\* is freeing it.
LEMMA UncountedIsUnheld ==
  ASSUME IInv, NEW c \in Conn, inuseCnt[c] = 0
  PROVE  \A s \in Session : held[s] = c => pc[s] = "freeing"
<1>1. Cardinality(Holders(c)) = 0
  <2>1. lost[c] \in Nat
    BY ConnAssumption DEF IInv, TypeOK
  <2>. QED BY <2>1, HoldersFinite DEF IInv, RefCount
<1>2. Holders(c) = {}
  BY <1>1, HoldersFinite, FS_EmptySet
<1>. QED BY <1>2 DEF Holders

\* _freeConn of connections that count no user changes no count and no
\* type, and leaves the functions over Conn what they are.
LEMMA FreeUncounted ==
  ASSUME IInv, NEW C \in SUBSET Conn, \A c \in C : inuseCnt[c] = 0, FreeObjects(C)
  PROVE  /\ allocated' = allocated \ C /\ connType' = connType
         /\ inuseCnt' = inuseCnt
         /\ hasComm' \in [Conn -> BOOLEAN] /\ idleFor' \in [Conn -> 0 .. ConnTimeout]
<1>1. inuseCnt' = inuseCnt
  BY DEF FreeObjects, IInv, TypeOK
<1>2. hasComm' \in [Conn -> BOOLEAN]
  BY DEF FreeObjects, IInv, TypeOK
<1>3. idleFor' \in [Conn -> 0 .. ConnTimeout]
  BY ConnAssumption DEF FreeObjects, IInv, TypeOK
<1>. QED BY <1>1, <1>2, <1>3 DEF FreeObjects

LEMMA StepFreeOnetime ==
  ASSUME IInv, NEW s \in Session, FreeOnetime(s)
  PROVE  IInv'
<1>1. PICK c \in Conn : c = held[s] /\ Is(c, "ONETIMEUSE") /\ inuseCnt[c] = 0
  BY DEF FreeOnetime, IInv, SessionInv, TypeOK, Is
<1>2. /\ pc[s] = "freeing" /\ FreeObjects({c})
      /\ pc' = [pc EXCEPT ![s] = "idle"] /\ held' = [held EXCEPT ![s] = NoConn]
      /\ UNCHANGED <<poolVars, mounted, connReuse, lost>>
  BY <1>1 DEF FreeOnetime, Leave
<1>3. /\ allocated' = allocated \ {c} /\ connType' = connType /\ inuseCnt' = inuseCnt
      /\ hasComm' \in [Conn -> BOOLEAN] /\ idleFor' \in [Conn -> 0 .. ConnTimeout]
  BY <1>1, <1>2, FreeUncounted
<1>4. \A t \in Session \ {s} : held[t] # c
  BY <1>1, <1>2, UncountedIsUnheld DEF IInv, SessionInv
<1>5. /\ c \notin Free /\ c \notin inUseOnetimeuseConn /\ \A i \in Slot : inUseConn[i] # c
      /\ c # inUseShortopConn /\ c # freeShortopConn
  BY <1>1 DEF IInv, PlacedOnce, FileHome, ShortHome, OnetimeHome, Is
<1>6. c \notin removeList
  BY <1>5 DEF IInv, ReapInv
<1>7. Free' = Free
  BY <1>2 DEF Free, poolVars
<1> USE <1>1, <1>2, <1>3, <1>4, <1>5, <1>6, <1>7, ConnAssumption
<1>8. TypeOK'
  <2>1. pc' \in [Session -> PC] /\ held' \in [Session -> Conn \cup {NoConn}]
    BY DEF IInv, TypeOK, PC
  <2>. QED BY <2>1 DEF IInv, TypeOK, poolVars
<1>9. SessionInv'
  BY DEF IInv, SessionInv, TypeOK, Is
<1>10. RefCount'
  <2>1. \A d \in Conn : Holders(d)' = Holders(d)
    BY DEF Holders, IInv, TypeOK
  <2>. QED BY <2>1 DEF IInv, RefCount
<1>11. NoDangling'
  <2>1. Pooled' = Pooled /\ c \notin Pooled
    BY DEF Pooled, poolVars
  <2>2. \A t \in Session : held'[t] # c /\ held'[t] \in {NoConn} \cup {held[r] : r \in Session}
    BY DEF IInv, TypeOK
  <2>. QED BY <2>1, <2>2 DEF IInv, NoDangling, poolVars
<1>12. FileHome'
  BY DEF IInv, PlacedOnce, FileHome, Is, poolVars
<1>13. ShortHome'
  BY DEF IInv, PlacedOnce, ShortHome, Is, poolVars
<1>14. OnetimeHome'
  <2>1. UNCHANGED inUseOnetimeuseConn
    BY DEF poolVars
  <2>2. ASSUME NEW d \in Conn, Is(d, "ONETIMEUSE")', inuseCnt[d] = 0
        PROVE  \E t \in Session : held'[t] = d /\ pc'[t] = "freeing"
    <3>1. d # c /\ Is(d, "ONETIMEUSE")
      BY <2>2 DEF Is
    <3>2. PICK t \in Session : held[t] = d /\ pc[t] = "freeing"
      BY <2>2, <3>1 DEF IInv, PlacedOnce, OnetimeHome
    <3>3. t # s
      BY <3>1, <3>2
    <3>4. held'[t] = d /\ pc'[t] = "freeing"
      BY <3>2, <3>3 DEF IInv, TypeOK
    <3>. QED BY <3>4
  <2>3. \A d \in Conn : d \in inUseOnetimeuseConn <=> Is(d, "ONETIMEUSE")' /\ inuseCnt[d] > 0
    BY DEF IInv, PlacedOnce, OnetimeHome, Is
  <2>. QED BY <2>1, <2>2, <2>3 DEF OnetimeHome
<1>15. ReapInv' /\ FreshInv' /\ UnmountClosesAll'
  BY DEF IInv, TypeOK, ReapInv, FreshInv, UnmountClosesAll, Is, poolVars
<1>. QED BY <1>8, <1>9, <1>10, <1>11, <1>12, <1>13, <1>14, <1>15 DEF IInv, PlacedOnce

-----------------------------------------------------------------------------
(* The clock, the idle check, the end of the process *)

\* A step that changes neither counts, places nor sessions.
LEMMA SameBooks ==
  ASSUME IInv, TypeOK', ReapInv', removeList' \subseteq allocated, UnmountClosesAll',
         UNCHANGED <<allocated, connType, inuseCnt, inUseShortopConn,
                     freeShortopConn, inUseConn, inUseOnetimeuseConn, freeConn,
                     pc, held, lost>>
  PROVE  IInv'
<1>1. Free' = Free /\ Pooled' = Pooled
  BY DEF Free, Pooled
<1>2. \A c \in Conn : Holders(c)' = Holders(c)
  BY DEF Holders
<1>3. RefCount'
  BY <1>2 DEF IInv, RefCount
<1>4. SessionInv' /\ FreshInv'
  BY DEF IInv, SessionInv, FreshInv, Is
<1>5. NoDangling'
  BY <1>1 DEF IInv, NoDangling
<1>6. PlacedOnce'
  BY <1>1 DEF IInv, PlacedOnce, FileHome, ShortHome, OnetimeHome, Is
<1>. QED BY <1>3, <1>4, <1>5, <1>6 DEF IInv

LEMMA StepTick ==
  ASSUME IInv, Tick
  PROVE  IInv'
<1>1. idleFor' \in [Conn -> 0 .. ConnTimeout]
  BY ConnAssumption DEF Tick, IInv, TypeOK
<1>2. TypeOK'
  BY <1>1 DEF Tick, IInv, TypeOK, poolVars
<1>3. ReapInv' /\ UnmountClosesAll' /\ removeList' \subseteq allocated
  BY DEF Tick, IInv, ReapInv, UnmountClosesAll, NoDangling, Free, poolVars
<1>. QED BY <1>2, <1>3, SameBooks DEF Tick, poolVars

LEMMA StepCheckIdle ==
  ASSUME IInv, CheckIdle
  PROVE  IInv'
<1>1. /\ removeList' = TimedOut
      /\ TimedOut \subseteq Free \cup ({freeShortopConn} \ {NoConn})
      /\ UNCHANGED <<objVars, inUseShortopConn, freeShortopConn, inUseConn,
                     inUseOnetimeuseConn, freeConn, pc, held, mounted, connReuse, lost>>
  BY DEF CheckIdle, TimedOut
<1>2. removeList' \subseteq allocated /\ removeList' \subseteq Conn
  <2>1. Free \subseteq Pooled /\ {freeShortopConn} \ {NoConn} \subseteq Pooled
    BY DEF Pooled
  <2>2. Free \subseteq allocated /\ {freeShortopConn} \ {NoConn} \subseteq allocated
    BY <2>1 DEF IInv, NoDangling
  <2>. QED BY <1>1, <2>2 DEF IInv, TypeOK
<1>3. TypeOK'
  BY <1>1, <1>2 DEF IInv, TypeOK, objVars
<1>4. ReapInv' /\ UnmountClosesAll'
  BY <1>1 DEF IInv, ReapInv, UnmountClosesAll, Free, objVars
<1>. QED BY <1>1, <1>2, <1>3, <1>4, SameBooks DEF objVars

\* A parked connection is held by no session.
LEMMA ParkedIsUnheld ==
  ASSUME IInv, NEW c \in Conn, inuseCnt[c] = 0, ~Is(c, "ONETIMEUSE")
  PROVE  \A s \in Session : held[s] # c
BY UncountedIsUnheld DEF IInv, SessionInv

LEMMA StepReap ==
  ASSUME IInv, NEW c \in Conn, Reap(c)
  PROVE  IInv'
<1>1. /\ mounted /\ c \in removeList /\ removeList' = removeList \ {c}
      /\ FreeObjects({c})
      /\ UNCHANGED <<inUseShortopConn, inUseConn, inUseOnetimeuseConn, pc, held,
                     mounted, connReuse, lost>>
  BY DEF Reap
<1>2. /\ inuseCnt[c] = 0
      /\ \/ c \in Free /\ Is(c, "FILE_IO")
         \/ c = freeShortopConn /\ Is(c, "SHORTOP")
  BY <1>1 DEF IInv, ReapInv, PlacedOnce, FileHome, ShortHome
<1>3. ~Is(c, "ONETIMEUSE")
  BY <1>2 DEF Is
<1>4. /\ allocated' = allocated \ {c} /\ connType' = connType /\ inuseCnt' = inuseCnt
      /\ hasComm' \in [Conn -> BOOLEAN] /\ idleFor' \in [Conn -> 0 .. ConnTimeout]
  BY <1>1, <1>2, FreeUncounted
<1>5. \A s \in Session : held[s] # c
  BY <1>2, <1>3, ParkedIsUnheld
\* The two branches, as one statement about the places.
<1>6. /\ freeConn' \in Seq(Conn) /\ IsInjective(freeConn')
      /\ Free' = Free \ {c}
      /\ freeShortopConn' = IF c = freeShortopConn THEN NoConn ELSE freeShortopConn
  <2>1. CASE c = freeShortopConn /\ freeShortopConn' = NoConn /\ UNCHANGED freeConn
    <3>1. c \notin Free
      BY <2>1, <1>2 DEF IInv, PlacedOnce, FileHome, ShortHome, Is
    <3>. QED BY <2>1, <3>1 DEF IInv, TypeOK, PlacedOnce, FileHome, Free
  <2>2. CASE /\ c # freeShortopConn /\ UNCHANGED freeShortopConn
             /\ \E i \in DOMAIN freeConn :
                   freeConn[i] = c /\ freeConn' = RemoveAt(freeConn, i)
    <3>1. PICK i \in DOMAIN freeConn :
                   freeConn[i] = c /\ freeConn' = RemoveAt(freeConn, i)
      BY <2>2
    <3>2. freeConn \in Seq(Conn) /\ IsInjective(freeConn)
      BY DEF IInv, TypeOK, PlacedOnce, FileHome
    <3>. QED BY <2>2, <3>1, <3>2, DropOne DEF Free
  <2>. QED BY <2>1, <2>2 DEF Reap
<1>7. \A i \in Slot : inUseConn[i] # c
  BY <1>2 DEF IInv, PlacedOnce, FileHome
<1>8. inUseShortopConn # c /\ c \notin inUseOnetimeuseConn
  BY <1>2, <1>3 DEF IInv, PlacedOnce, ShortHome, OnetimeHome
<1> USE <1>1, <1>2, <1>3, <1>4, <1>5, <1>6, <1>7, <1>8, ConnAssumption
<1>9. TypeOK'
  BY DEF IInv, TypeOK
<1>10. SessionInv'
  BY DEF IInv, SessionInv, TypeOK, Is
<1>11. RefCount'
  <2>1. \A d \in Conn : Holders(d)' = Holders(d)
    BY DEF Holders
  <2>. QED BY <2>1 DEF IInv, RefCount
<1>12. NoDangling'
  BY SMTT(30) DEF IInv, TypeOK, NoDangling, Pooled
<1>13. FileHome'
  BY DEF IInv, PlacedOnce, FileHome, Is
<1>14. ShortHome'
  BY DEF IInv, PlacedOnce, ShortHome, Is
<1>15. OnetimeHome'
  BY DEF IInv, PlacedOnce, OnetimeHome, Is
<1>16. ReapInv' /\ FreshInv' /\ UnmountClosesAll'
  BY DEF IInv, TypeOK, ReapInv, FreshInv, UnmountClosesAll
<1>. QED BY <1>9, <1>10, <1>11, <1>12, <1>13, <1>14, <1>15, <1>16 DEF IInv, PlacedOnce

LEMMA StepUnmount ==
  ASSUME IInv, Unmount
  PROVE  IInv'
<1>1. /\ mounted /\ removeList = {}
      /\ \A s \in Session : pc[s] \in {"idle", "open"}
      /\ FreeObjects(Pooled)
      /\ inUseShortopConn' = NoConn /\ freeShortopConn' = NoConn
      /\ inUseConn' = [i \in Slot |-> NoConn]
      /\ inUseOnetimeuseConn' = {} /\ freeConn' = <<>> /\ removeList' = {}
      /\ pc' = [s \in Session |-> "idle"] /\ held' = [s \in Session |-> NoConn]
      /\ mounted' = FALSE /\ connReuse' = connReuse
      /\ lost' = [c \in Conn |-> 0]
  BY DEF Unmount, PoolUnlocked
\* The pool knows every connection: none is on its way out.
<1>2. allocated \subseteq Pooled
  <2>1. SUFFICES ASSUME NEW c \in Conn, c \in allocated PROVE c \in Pooled
    BY DEF IInv, TypeOK
  <2>2. connType[c] \in ConnType /\ inuseCnt[c] \in Nat
    BY DEF IInv, TypeOK
  <2>3. CASE Is(c, "FILE_IO")
    BY <2>2, <2>3, ConnAssumption DEF Pooled, IInv, PlacedOnce, FileHome
  <2>4. CASE Is(c, "SHORTOP")
    BY <2>2, <2>4, ConnAssumption DEF Pooled, IInv, PlacedOnce, ShortHome
  <2>5. CASE Is(c, "ONETIMEUSE")
    BY <1>1, <2>2, <2>5 DEF Pooled, IInv, PlacedOnce, OnetimeHome
  <2>. QED BY <2>1, <2>2, <2>3, <2>4, <2>5 DEF ConnType, Is
<1>3. /\ allocated' = {} /\ connType' = connType
      /\ inuseCnt' = [c \in Conn |-> IF c \in Pooled THEN 0 ELSE inuseCnt[c]]
      /\ hasComm' = [c \in Conn |-> hasComm[c] /\ c \notin Pooled]
      /\ idleFor' = [c \in Conn |-> IF c \in Pooled THEN 0 ELSE idleFor[c]]
  BY <1>1, <1>2 DEF FreeObjects
<1>4. \A c \in Conn : inuseCnt'[c] = 0
  BY <1>2, <1>3 DEF IInv, FreshInv
<1>5. Free' = {}
  BY <1>1 DEF Free, ToSet
<1> USE <1>1, <1>3, <1>4, <1>5, ConnAssumption
<1>6. TypeOK'
  <2>1. hasComm' \in [Conn -> BOOLEAN]
    BY DEF IInv, TypeOK
  <2>2. idleFor' \in [Conn -> 0 .. ConnTimeout] /\ inuseCnt' \in [Conn -> Nat]
    BY DEF IInv, TypeOK
  <2>3. lost' \in [Conn -> 0 .. MaxLost] /\ freeConn' \in Seq(Conn)
    OBVIOUS
  <2>. QED BY <2>1, <2>2, <2>3 DEF IInv, TypeOK, PC
<1>7. SessionInv'
  BY DEF SessionInv
<1>8. RefCount'
  <2>1. \A c \in Conn : Holders(c)' = {}
    BY DEF Holders
  <2>2. Cardinality({}) = 0
    BY FS_EmptySet
  <2>3. \A c \in Conn : Cardinality(Holders(c)') = 0 /\ lost'[c] = 0
    BY <2>1, <2>2
  <2>. QED BY <2>3 DEF RefCount
<1>9. NoDangling' /\ ReapInv' /\ FreshInv' /\ UnmountClosesAll'
  BY DEF NoDangling, Pooled, ReapInv, FreshInv, UnmountClosesAll
<1>10. PlacedOnce'
  BY DEF PlacedOnce, FileHome, ShortHome, OnetimeHome, Is, IsInjective
<1>. QED BY <1>6, <1>7, <1>8, <1>9, <1>10 DEF IInv

LEMMA StepMount ==
  ASSUME IInv, Mount
  PROVE  IInv'
<1>1. TypeOK' /\ ReapInv' /\ removeList' \subseteq allocated /\ UnmountClosesAll'
  BY DEF Mount, IInv, TypeOK, ReapInv, UnmountClosesAll, NoDangling, Free, objVars, poolVars
<1>. QED BY <1>1, SameBooks DEF Mount, objVars, poolVars

LEMMA StepStutter ==
  ASSUME IInv, UNCHANGED vars
  PROVE  IInv'
<1>1. TypeOK' /\ ReapInv' /\ removeList' \subseteq allocated /\ UnmountClosesAll'
  BY DEF vars, IInv, TypeOK, ReapInv, UnmountClosesAll, NoDangling, Free, objVars, poolVars
<1>. QED BY <1>1, SameBooks DEF vars, objVars, poolVars

-----------------------------------------------------------------------------
(* The inductive invariant *)

LEMMA InitIInv ==
  ASSUME Init
  PROVE  IInv
<1> USE ConnAssumption DEF Init
<1>1. Free = {} /\ Pooled = {}
  BY DEF Free, ToSet, Pooled
<1>2. TypeOK
  BY DEF TypeOK, ConnType, PC
<1>3. RefCount
  <2>1. \A c \in Conn : Holders(c) = {}
    BY DEF Holders
  <2>2. Cardinality({}) = 0
    BY FS_EmptySet
  <2>3. \A c \in Conn : Cardinality(Holders(c)) = 0 /\ lost[c] = 0
    BY <2>1, <2>2
  <2>. QED BY <2>3 DEF RefCount
<1>4. PlacedOnce
  BY <1>1 DEF PlacedOnce, FileHome, ShortHome, OnetimeHome, Is, IsInjective
<1>5. SessionInv /\ NoDangling /\ ReapInv /\ FreshInv /\ UnmountClosesAll
  BY <1>1 DEF SessionInv, NoDangling, ReapInv, FreshInv, UnmountClosesAll
<1>. QED BY <1>2, <1>3, <1>4, <1>5 DEF IInv

LEMMA NextIInv ==
  ASSUME IInv, [Next]_vars
  PROVE  IInv'
<1>1. ASSUME NEW s \in Session, NEW u \in Use, GetAndUse(s, u)
      PROVE  IInv'
  BY <1>1, StepUseShortInUse, StepUseShortFree, StepUseShortNew, StepUseFileFree,
     StepUseFileNew, StepUseFileShared, StepUseOnetimeNew DEF GetAndUse
<1>2. ASSUME NEW s \in Session, OpenFails(s) \/ CloseAbandoned(s)
      PROVE  IInv'
  BY <1>2, StepForget DEF OpenFails, CloseAbandoned, Busy
<1>3. ASSUME NEW s \in Session, Unuse(s)
      PROVE  IInv'
  BY <1>3, StepUnuseStillUsed, StepUnuseShort, StepUnuseFile, StepUnuseOnetime,
     StepFreeOnetime DEF Unuse
<1>4. ASSUME NEW s \in Session, SessionStep(s)
      PROVE  IInv'
  BY <1>1, <1>2, <1>3, <1>4, StepReconnect, StepOpenSucceeds DEF SessionStep
<1>. QED BY <1>4, StepTick, StepCheckIdle, StepReap, StepUnmount, StepMount, StepStutter
        DEF Next

\* The books of the pool are right in every reachable state, whatever the
\* number of connections, sessions and slots and for both values of the
\* --connreuse option.
THEOREM Invariance == Spec => []IInv
<1>1. Init => IInv
  BY InitIInv
<1>2. IInv /\ [Next]_vars => IInv'
  BY NextIInv
<1>. QED BY <1>1, <1>2, PTL DEF Spec

-----------------------------------------------------------------------------
(* What follows from the invariant: the properties of ConnPool that its    *)
(* runs check on small instances, for every number of connections,         *)
(* sessions and slots, and that the pool implements ConnLease.             *)

\* Type correctness of the pool and its sessions.
THEOREM TypeCorrect == Spec => []TypeOK
<1>1. IInv => TypeOK
  BY DEF IInv
<1>. QED BY <1>1, Invariance, PTL

\* The reference count of a connection is exact: it counts the sessions that
\* will call iFuseConnUnuse and the references dropped on error paths.
THEOREM CountsAreExact == Spec => []RefCount
<1>1. IInv => RefCount
  BY DEF IInv
<1>. QED BY <1>1, Invariance, PTL

\* No freed iFuseConn_t is reachable from the pool, the idle check or a
\* session.
THEOREM NoUseAfterFree == Spec => []NoDangling
<1>1. IInv => NoDangling
  BY DEF IInv
<1>. QED BY <1>1, Invariance, PTL

\* Every connection is in exactly one place of the pool.
THEOREM OnePlace == Spec => []PlacedOnce
<1>1. IInv => PlacedOnce
  BY DEF IInv
<1>. QED BY <1>1, Invariance, PTL

\* After the last unmount step no connection is left.
THEOREM NothingLeftOpen == Spec => []UnmountClosesAll
<1>1. IInv => UnmountClosesAll
  BY DEF IInv
<1>. QED BY <1>1, Invariance, PTL

\* The assertions of iFuseConnUnuse cannot fail.
THEOREM AssertionsHold == Spec => []UnuseAssertions
<1>1. ASSUME IInv, NEW s \in Session, pc[s] \in {"calling", "open"}
      PROVE  /\ inuseCnt[held[s]] >= 1
             /\ connType[held[s]] = "SHORTOP" =>
                  inUseShortopConn = held[s] /\ freeShortopConn = NoConn
  <2>1. held[s] \in Conn /\ held[s] \in allocated /\ inuseCnt[held[s]] \in Nat \ {0}
    BY <1>1, HeldIsCounted DEF Busy
  <2>. QED BY <1>1, <2>1, ConnAssumption DEF IInv, PlacedOnce, ShortHome, Is
<1>2. IInv => UnuseAssertions
  BY <1>1 DEF UnuseAssertions
<1>. QED BY <1>2, Invariance, PTL

-----------------------------------------------------------------------------
(* The bound of the pool *)

FileConns == {c \in allocated : connType[c] = "FILE_IO"}
UsedSlots == {i \in Slot : inUseConn[i] # NoConn}
InUseFile == {inUseConn[i] : i \in UsedSlots}

LEMMA SlotsFinite ==
  IsFiniteSet(Slot) /\ Cardinality(Slot) = MaxConnNum
<1>1. MaxConnNum \in Int /\ ~(1 > MaxConnNum)
  BY ConnAssumption
<1>. QED BY <1>1, FS_Interval DEF Slot

\* The slots in use and the connections in them are equally many.
LEMMA SlotsCount ==
  ASSUME IInv
  PROVE  /\ IsFiniteSet(InUseFile) /\ IsFiniteSet(UsedSlots)
         /\ Cardinality(InUseFile) = Cardinality(UsedSlots)
<1> DEFINE f == [i \in UsedSlots |-> inUseConn[i]]
<1>1. IsFiniteSet(UsedSlots)
  BY SlotsFinite, FS_Subset DEF UsedSlots
<1>2. f \in Bijection(UsedSlots, InUseFile)
  <2>1. f \in Surjection(UsedSlots, InUseFile)
    BY DEF Surjection, InUseFile
  <2>2. \A i, j \in UsedSlots : inUseConn[i] = inUseConn[j] => i = j
    BY DEF UsedSlots, IInv, PlacedOnce, FileHome
  <2>3. f \in [UsedSlots -> InUseFile]
    BY DEF InUseFile
  <2>4. f \in Injection(UsedSlots, InUseFile)
    BY <2>2, <2>3 DEF Injection, IsInjective
  <2>. QED BY <2>1, <2>4 DEF Bijection
<1>3. ExistsBijection(UsedSlots, InUseFile)
  BY <1>2 DEF ExistsBijection
<1>. QED BY <1>1, <1>3, FS_Bijection

LEMMA FreeFinite ==
  ASSUME IInv
  PROVE  IsFiniteSet(Free)
<1> DEFINE n == Len(freeConn)
<1>1. freeConn \in Seq(Conn) /\ n \in Nat /\ DOMAIN freeConn = 1 .. n
  BY DEF IInv, TypeOK
<1>2. freeConn \in Surjection(1 .. n, Free)
  BY <1>1 DEF Surjection, Free, ToSet
<1>3. IsFiniteSet(1 .. n)
  BY <1>1, FS_Interval
<1>. QED BY <1>2, <1>3, FS_Surjection

\* The connections for file I/O are those in a slot and those parked.
LEMMA FileConnsAre ==
  ASSUME IInv
  PROVE  /\ FileConns = InUseFile \cup Free
         /\ InUseFile \cap Free = {}
         /\ IsFiniteSet(FileConns)
<1>1. FileConns = InUseFile \cup Free
  <2>1. ASSUME NEW c \in Conn
        PROVE  c \in FileConns <=> c \in InUseFile \/ c \in Free
    <3>1. inuseCnt[c] \in Nat
      BY DEF IInv, TypeOK
    <3>2. c \in InUseFile <=> \E i \in Slot : inUseConn[i] = c
      BY ConnAssumption DEF InUseFile, UsedSlots
    <3>. QED BY <3>1, <3>2 DEF FileConns, IInv, PlacedOnce, FileHome, Is
  <2>2. FileConns \subseteq Conn /\ InUseFile \subseteq Conn
    BY DEF IInv, TypeOK, FileConns, InUseFile, UsedSlots
  <2>3. Free \subseteq Conn
    BY DEF IInv, TypeOK, Free, ToSet
  <2>. QED BY <2>1, <2>2, <2>3
<1>2. InUseFile \cap Free = {}
  <2>1. \A i \in UsedSlots : inUseConn[i] \in Conn /\ inuseCnt[inUseConn[i]] > 0
    BY DEF UsedSlots, IInv, TypeOK, PlacedOnce, FileHome
  <2>2. \A c \in InUseFile : c \in Conn /\ inuseCnt[c] > 0
    BY <2>1 DEF InUseFile
  <2>. QED BY <2>2 DEF IInv, PlacedOnce, FileHome
<1>. QED BY <1>1, <1>2, SlotsCount, FreeFinite, FS_Union

FileBound == Cardinality(FileConns) <= MaxConnNum

\* Only a new connection for file I/O makes the set grow.
LEMMA OnlyNewGrows ==
  ASSUME IInv, [Next]_vars,
         \A s \in Session, u \in Use, c \in Conn : ~UseFileNew(s, u, c)
  PROVE  FileConns' \subseteq FileConns
<1>1. ASSUME NEW s \in Session, NEW u \in Use, GetAndUse(s, u)
      PROVE  FileConns' \subseteq FileConns
  <2>1. CASE \E c \in Conn : UseShortNew(s, u, c) \/ UseOnetimeNew(s, u, c)
    <3>1. PICK c \in Conn : /\ allocated' = allocated \cup {c}
                            /\ connType' = [connType EXCEPT ![c] = TypeFor(u)]
                            /\ TypeFor(u) # "FILE_IO"
      BY <2>1 DEF UseShortNew, UseOnetimeNew, NewConn, Requests
    <3>. QED BY <3>1 DEF FileConns, IInv, TypeOK
  <2>2. CASE \/ UseShortInUse(s, u) \/ UseShortFree(s, u)
             \/ UseFileFree(s, u) \/ UseFileShared(s, u)
    BY <2>2 DEF UseShortInUse, UseShortFree, UseFileFree, UseFileShared, Reuse,
                FileConns
  <2>. QED BY <1>1, <2>1, <2>2 DEF GetAndUse
<1>2. ASSUME NEW s \in Session, SessionStep(s), ~ \E u \in Use : GetAndUse(s, u)
      PROVE  FileConns' \subseteq FileConns
  <2>1. allocated' \subseteq allocated /\ connType' = connType
    BY <1>2 DEF SessionStep, Reconnect, OpenSucceeds, OpenFails, CloseAbandoned,
       Forget, Unuse, UnuseStillUsed, UnuseShort, UnuseFile, UnuseOnetime, Unuses,
       FreeOnetime, FreeObjects, objVars
  <2>. QED BY <2>1 DEF FileConns
<1>3. CASE Tick \/ CheckIdle \/ (\E c \in Conn : Reap(c)) \/ Unmount \/ Mount \/ UNCHANGED vars
  <2>1. allocated' \subseteq allocated /\ connType' = connType
    BY <1>3 DEF Tick, CheckIdle, Reap, Unmount, Mount, FreeObjects, vars, objVars
  <2>. QED BY <2>1 DEF FileConns
<1>. QED BY <1>1, <1>2, <1>3 DEF Next

LEMMA NewFitsIn ==
  ASSUME IInv, NEW s \in Session, NEW u \in Use, NEW c \in Conn, UseFileNew(s, u, c)
  PROVE  FileBound'
<1>1. PICK i \in Slot : inUseConn[i] = NoConn
  BY DEF UseFileNew, FirstEmpty
<1>2. Cardinality(UsedSlots) <= MaxConnNum - 1
  <2>1. UsedSlots \subseteq Slot \ {i}
    BY <1>1 DEF UsedSlots
  <2>2. IsFiniteSet(Slot \ {i}) /\ Cardinality(Slot \ {i}) = MaxConnNum - 1
    BY SlotsFinite, FS_RemoveElement
  <2>. QED BY <2>1, <2>2, FS_Subset
<1>3. Free = {}
  BY DEF UseFileNew, Free, ToSet
<1>4. Cardinality(FileConns) <= MaxConnNum - 1
  BY <1>2, <1>3, FileConnsAre, SlotsCount
<1>5. FileConns' = FileConns \cup {c} /\ c \notin FileConns
  BY DEF UseFileNew, NewConn, Requests, FileConns, IInv, TypeOK
<1>6. Cardinality(FileConns)  \in Nat /\ Cardinality(FileConns') = Cardinality(FileConns) + 1
  BY <1>5, FileConnsAre, FS_AddElement, FS_CardinalityType
<1>. QED BY <1>4, <1>6, ConnAssumption DEF FileBound

\* The connections for file I/O, in use and parked, never outnumber the slots
\* (--maxconn), and there is at most one connection for short operations.
THEOREM PoolIsBounded == Spec => []PoolBounded
<1>1. Init => FileBound
  <2>1. ASSUME Init PROVE FileConns = {} /\ MaxConnNum >= 0
    BY <2>1, ConnAssumption DEF Init, FileConns
  <2>2. Cardinality({}) = 0
    BY FS_EmptySet
  <2>. QED BY <2>1, <2>2 DEF FileBound
<1>2. ASSUME IInv, FileBound, [Next]_vars PROVE FileBound'
  <2>1. CASE \E s \in Session, u \in Use, c \in Conn : UseFileNew(s, u, c)
    BY <1>2, <2>1, NewFitsIn
  <2>2. CASE \A s \in Session, u \in Use, c \in Conn : ~UseFileNew(s, u, c)
    <3>1. FileConns' \subseteq FileConns
      BY <1>2, <2>2, OnlyNewGrows
    <3>2. IsFiniteSet(FileConns) /\ Cardinality(FileConns) \in Nat
      BY <1>2, FileConnsAre, FS_CardinalityType
    <3>3. Cardinality(FileConns') <= Cardinality(FileConns) /\ Cardinality(FileConns') \in Nat
      BY <3>1, <3>2, FS_Subset, FS_CardinalityType
    <3>. QED BY <1>2, <3>2, <3>3, ConnAssumption DEF FileBound
  <2>. QED BY <2>1, <2>2
<1>3. ASSUME IInv, FileBound PROVE PoolBounded
  <2> DEFINE short == {c \in allocated : connType[c] = "SHORTOP"}
  <2>1. PICK d : short \subseteq {d}
    <3>1. \A c \in short : c \in Conn /\ inuseCnt[c] \in Nat /\ Is(c, "SHORTOP")
      BY <1>3 DEF IInv, TypeOK, Is
    <3>2. \A c \in short : c = inUseShortopConn \/ c = freeShortopConn
      BY <1>3, <3>1 DEF IInv, PlacedOnce, ShortHome
    <3>3. CASE inUseShortopConn = NoConn
      BY <3>1, <3>2, <3>3, ConnAssumption
    <3>4. CASE freeShortopConn = NoConn
      BY <3>1, <3>2, <3>4, ConnAssumption
    <3>. QED BY <1>3, <3>3, <3>4 DEF IInv, PlacedOnce, ShortHome
  <2>2. Cardinality(short) <= 1
    <3>1. IsFiniteSet({d}) /\ Cardinality({d}) = 1
      BY FS_Singleton
    <3>. HIDE DEF short
    <3>2. Cardinality(short) <= Cardinality({d})
      BY <2>1, <3>1, FS_Subset
    <3>. QED BY <3>1, <3>2
  <2>. QED BY <1>3, <2>2 DEF PoolBounded, FileBound, FileConns
<1>. QED BY <1>1, <1>2, <1>3, Invariance, PTL DEF Spec

\* A connection that is in use gets a further user only when none is parked.
THEOREM SharingIsLastResort == Spec => SharedOnlyWhenNoneFree
<1>1. ASSUME IInv, PoolBounded, NEW s \in Session, NEW u \in Use, UseFileShared(s, u)
      PROVE  freeConn = <<>>
  <2>1. UsedSlots = Slot
    BY <1>1 DEF UseFileShared, UsedSlots
  <2>2. Cardinality(InUseFile) = MaxConnNum /\ InUseFile \subseteq FileConns
    BY <1>1, <2>1, SlotsCount, SlotsFinite, FileConnsAre
  <2>3. Cardinality(FileConns) = MaxConnNum
    <3>1. IsFiniteSet(FileConns) /\ Cardinality(FileConns) \in Nat
      BY <1>1, FileConnsAre, FS_CardinalityType
    <3>2. Cardinality(InUseFile) <= Cardinality(FileConns)
      BY <2>2, <3>1, FS_Subset
    <3>3. Cardinality(FileConns) <= MaxConnNum
      BY <1>1 DEF PoolBounded, FileConns
    <3>. QED BY <2>2, <3>1, <3>2, <3>3, ConnAssumption
  <2>4. InUseFile = FileConns
    BY <1>1, <2>2, <2>3, FileConnsAre, FS_Subset
  <2>5. Free = {}
    BY <1>1, <2>4, FileConnsAre
  <2>6. freeConn \in Seq(Conn)
    BY <1>1 DEF IInv, TypeOK
  <2>. QED BY <2>5, <2>6, EmptySeq DEF Free, ToSet
<1>2. ASSUME IInv, [Next]_vars, ~ \E s \in Session, u \in Use : GetAndUse(s, u),
             NEW c \in Conn
      PROVE  ~(inuseCnt'[c] > inuseCnt[c])
  <2>1. inuseCnt \in [Conn -> Nat] /\ inuseCnt[c] \in Nat
    BY <1>2 DEF IInv, TypeOK
  <2>2. ASSUME NEW s \in Session, NEW t \in ConnType, Unuses(s, t)
        PROVE  ~(inuseCnt'[c] > inuseCnt[c])
    BY <2>1, <2>2 DEF Unuses
  <2>3. ASSUME NEW C, FreeObjects(C)
        PROVE  ~(inuseCnt'[c] > inuseCnt[c])
    BY <2>1, <2>3 DEF FreeObjects
  <2>4. ASSUME NEW s \in Session, Unuse(s)
        PROVE  ~(inuseCnt'[c] > inuseCnt[c])
    BY <2>2, <2>3, <2>4 DEF Unuse, UnuseStillUsed, UnuseShort, UnuseFile,
       UnuseOnetime, FreeOnetime, ConnType
  <2>5. CASE UNCHANGED inuseCnt
    BY <2>1, <2>5
  <2>6. ASSUME NEW s \in Session, SessionStep(s)
        PROVE  ~(inuseCnt'[c] > inuseCnt[c])
    BY <1>2, <2>4, <2>5, <2>6 DEF SessionStep, Reconnect, OpenSucceeds, OpenFails,
       CloseAbandoned, Forget, objVars
  <2>. QED BY <1>2, <2>3, <2>5, <2>6 DEF Next, Tick, CheckIdle, Reap, Unmount, Mount,
         vars, objVars
<1>3. ASSUME IInv, PoolBounded, NEW s \in Session, NEW u \in Use, GetAndUse(s, u),
             NEW c \in Conn, connType[c] = "FILE_IO", inuseCnt[c] > 0,
             inuseCnt'[c] > inuseCnt[c]
      PROVE  freeConn = <<>>
  <2>1. inuseCnt \in [Conn -> Nat] /\ inuseCnt[c] \in Nat
    BY <1>3 DEF IInv, TypeOK
  <2>2. ASSUME NEW d, Take(s, u, d) PROVE d = c
    BY <1>3, <2>1, <2>2 DEF Take
  <2>3. ASSUME NEW d \in Conn PROVE ~NewConn(s, u, d)
    BY <1>3, <2>1, <2>2, <2>3 DEF NewConn, IInv, FreshInv
  <2>4. ~UseShortInUse(s, u) /\ ~UseShortFree(s, u)
    BY <1>3, <2>1, <2>2 DEF UseShortInUse, UseShortFree, Reuse, IInv, PlacedOnce,
       ShortHome, Is
  <2>5. ~UseFileFree(s, u)
    <3>1. freeConn # <<>> => Head(freeConn) \in Free
      BY <1>3, PopFront DEF Free, IInv, TypeOK, PlacedOnce, FileHome
    <3>. QED BY <1>3, <2>1, <2>2, <3>1 DEF UseFileFree, Reuse, IInv, PlacedOnce, FileHome
  <2>6. UseFileShared(s, u)
    BY <1>3, <2>3, <2>4, <2>5 DEF GetAndUse, UseShortNew, UseFileNew, UseOnetimeNew
  <2>. QED BY <1>1, <1>3, <2>6
<1>4. IInv /\ PoolBounded /\ [Next]_vars =>
        [\A c \in Conn : connType[c] = "FILE_IO" /\ inuseCnt[c] > 0
           /\ inuseCnt'[c] > inuseCnt[c] => freeConn = <<>>]_vars
  BY <1>2, <1>3
<1>. QED BY <1>4, Invariance, PoolIsBounded, PTL DEF Spec, SharedOnlyWhenNoneFree

-----------------------------------------------------------------------------
(* The pool implements the lease contract *)

\* A session that begins a use of a connection gets a lease on it.
LEMMA TakeLeases ==
  ASSUME IInv, NEW s \in Session, NEW u \in Use, NEW c \in Conn, pc[s] = "idle",
         Take(s, u, c)
  PROVE  LeaseOf[s] = NoConn /\ LeaseOf' = [LeaseOf EXCEPT ![s] = c]
<1>1. /\ pc' = [pc EXCEPT ![s] = IF u = "open" THEN "opening" ELSE "calling"]
      /\ held' = [held EXCEPT ![s] = c]
  BY DEF Take
<1>2. pc \in [Session -> PC] /\ held \in [Session -> Conn \cup {NoConn}] /\ held[s] = NoConn
  BY DEF IInv, TypeOK, SessionInv
<1>. QED BY <1>1, <1>2 DEF LeaseOf

LEMMA ReuseShares ==
  ASSUME IInv, NEW s \in Session, NEW u \in Use, NEW c \in Conn, pc[s] = "idle",
         Reuse(s, u, c), c \in allocated, connType[c] # "ONETIMEUSE"
  PROVE  Lease!Next
<1>1. UNCHANGED <<allocated, PrivateConns>>
  BY DEF Reuse, PrivateConns
<1>2. Lease!Share(s, c)
  BY <1>1, TakeLeases DEF Lease!Share, Reuse, PrivateConns
<1>. QED BY <1>2 DEF Lease!Next

LEMMA NewEstablishes ==
  ASSUME IInv, NEW s \in Session, NEW u \in Use, NEW c \in Conn, pc[s] = "idle",
         NewConn(s, u, c)
  PROVE  Lease!Next
<1>1. PrivateConns' \in {PrivateConns, PrivateConns \cup {c}}
  <2>1. c \notin allocated /\ allocated' = allocated \cup {c}
        /\ connType' = [connType EXCEPT ![c] = TypeFor(u)]
    BY DEF NewConn
  <2>2. connType \in [Conn -> ConnType] /\ allocated \subseteq Conn
    BY DEF IInv, TypeOK
  <2>3. CASE TypeFor(u) = "ONETIMEUSE"
    <3>1. PrivateConns' = PrivateConns \cup {c}
      BY <2>1, <2>2, <2>3 DEF PrivateConns
    <3>. QED BY <3>1
  <2>4. CASE TypeFor(u) # "ONETIMEUSE"
    <3>1. PrivateConns' = PrivateConns
      BY <2>1, <2>2, <2>4 DEF PrivateConns
    <3>. QED BY <3>1
  <2>. QED BY <2>3, <2>4
<1>2. Lease!Establish(s, c)
  BY <1>1, TakeLeases DEF Lease!Establish, NewConn
<1>. QED BY <1>2 DEF Lease!Next

LEMMA GetLeases ==
  ASSUME IInv, NEW s \in Session, NEW u \in Use, GetAndUse(s, u)
  PROVE  Lease!Next
<1>1. CASE UseShortInUse(s, u)
  <2>1. inUseShortopConn \in Conn /\ Is(inUseShortopConn, "SHORTOP")
    BY <1>1 DEF UseShortInUse, IInv, TypeOK, PlacedOnce, ShortHome
  <2>. QED BY <1>1, <2>1, ReuseShares DEF UseShortInUse, Requests, Is
<1>2. CASE UseShortFree(s, u)
  <2>1. freeShortopConn \in Conn /\ Is(freeShortopConn, "SHORTOP")
    BY <1>2 DEF UseShortFree, IInv, TypeOK, PlacedOnce, ShortHome
  <2>. QED BY <1>2, <2>1, ReuseShares DEF UseShortFree, Requests, Is
<1>3. CASE UseFileFree(s, u)
  <2>1. Head(freeConn) \in Conn /\ Head(freeConn) \in Free
    BY <1>3, PopFront DEF UseFileFree, Free, IInv, TypeOK, PlacedOnce, FileHome
  <2>2. Is(Head(freeConn), "FILE_IO")
    BY <2>1 DEF IInv, PlacedOnce, FileHome
  <2>. QED BY <1>3, <2>1, <2>2, ReuseShares DEF UseFileFree, Requests, Is
<1>4. CASE UseFileShared(s, u)
  <2>1. PICK i \in Slot : Reuse(s, u, inUseConn[i]) /\ inUseConn[i] # NoConn
    BY <1>4 DEF UseFileShared, LeastUsed
  <2>2. inUseConn[i] \in Conn /\ Is(inUseConn[i], "FILE_IO")
    BY <2>1 DEF IInv, TypeOK, PlacedOnce, FileHome
  <2>. QED BY <1>4, <2>1, <2>2, ReuseShares DEF UseFileShared, Requests, Is
<1>5. CASE \E c \in Conn : UseShortNew(s, u, c) \/ UseFileNew(s, u, c) \/ UseOnetimeNew(s, u, c)
  BY <1>5, NewEstablishes DEF UseShortNew, UseFileNew, UseOnetimeNew, Requests
<1>. QED BY <1>1, <1>2, <1>3, <1>4, <1>5 DEF GetAndUse

\* Giving a connection back, or forgetting it, ends the lease.
LEMMA LeaveReturns ==
  ASSUME IInv, NEW s \in Session, pc[s] \in Busy,
         Leave(s) \/ (pc' = [pc EXCEPT ![s] = "freeing"] /\ UNCHANGED held),
         UNCHANGED <<allocated, connType>>
  PROVE  Lease!Next
<1>1. pc \in [Session -> PC] /\ held \in [Session -> Conn \cup {NoConn}] /\ held[s] # NoConn
  BY DEF IInv, TypeOK, SessionInv, Busy
<1>2. LeaseOf[s] # NoConn /\ LeaseOf' = [LeaseOf EXCEPT ![s] = NoConn]
  BY <1>1 DEF LeaseOf, Leave, Busy
<1>3. Lease!Return(s)
  BY <1>2 DEF Lease!Return, PrivateConns
<1>. QED BY <1>3 DEF Lease!Next

\* Freeing a connection that counts no user closes an unleased connection.
LEMMA FreeCloses ==
  ASSUME IInv, NEW c \in Conn, c \in allocated, inuseCnt[c] = 0, FreeObjects({c}),
         UNCHANGED LeaseOf
  PROVE  Lease!Next
<1>1. \A s \in Session : LeaseOf[s] # c
  BY UncountedIsUnheld, ConnAssumption DEF LeaseOf
<1>2. PrivateConns' = PrivateConns \ {c} /\ allocated' = allocated \ {c}
  BY DEF FreeObjects, PrivateConns
<1>3. Lease!Close(c)
  BY <1>1, <1>2 DEF Lease!Close, Lease!Leased
<1>. QED BY <1>3 DEF Lease!Next

\* Every step of the pool is a step of the contract or leaves its state alone.
LEMMA StepLeases ==
  ASSUME IInv, [Next]_vars
  PROVE  [Lease!Next]_(Lease!vars)
<1> USE DEF Lease!vars
<1>1. ASSUME UNCHANGED <<allocated, connType, pc, held>>
      PROVE  UNCHANGED Lease!vars
  BY <1>1 DEF PrivateConns, LeaseOf
<1>2. ASSUME NEW s \in Session, SessionStep(s)
      PROVE  [Lease!Next]_(Lease!vars)
  <2>1. CASE \E u \in Use : GetAndUse(s, u)
    BY <2>1, GetLeases
  <2>2. CASE Reconnect(s)
    BY <1>1, <2>2 DEF Reconnect
  <2>3. CASE OpenSucceeds(s)
    <3>1. UNCHANGED LeaseOf
      BY <2>3 DEF OpenSucceeds, LeaseOf, IInv, TypeOK
    <3>. QED BY <2>3, <3>1 DEF OpenSucceeds, PrivateConns, objVars
  <2>4. CASE OpenFails(s) \/ CloseAbandoned(s)
    BY <2>4, LeaveReturns DEF OpenFails, CloseAbandoned, Forget, Leave, Busy, objVars
  <2>5. CASE UnuseStillUsed(s) \/ UnuseShort(s) \/ UnuseFile(s) \/ UnuseOnetime(s)
    BY <2>5, LeaveReturns DEF UnuseStillUsed, UnuseShort, UnuseFile, UnuseOnetime,
       Unuses, Busy
  <2>6. CASE FreeOnetime(s)
    <3>1. PICK c \in Conn : c = held[s] /\ c \in allocated /\ inuseCnt[c] = 0
      BY <2>6 DEF FreeOnetime, IInv, SessionInv, TypeOK, Is
    <3>2. UNCHANGED LeaseOf
      BY <2>6 DEF FreeOnetime, Leave, LeaseOf, IInv, TypeOK
    <3>. QED BY <2>6, <3>1, <3>2, FreeCloses DEF FreeOnetime
  <2>. QED BY <1>2, <2>1, <2>2, <2>3, <2>4, <2>5, <2>6 DEF SessionStep, Unuse
<1>3. CASE \E c \in Conn : Reap(c)
  <2>1. PICK c \in Conn : Reap(c)
    BY <1>3
  <2>2. inuseCnt[c] = 0 /\ c \in allocated /\ FreeObjects({c})
    BY <2>1 DEF Reap, IInv, ReapInv, PlacedOnce, FileHome, ShortHome, Is
  <2>3. UNCHANGED LeaseOf
    BY <2>1 DEF Reap, LeaseOf
  <2>. QED BY <2>2, <2>3, FreeCloses
<1>4. CASE Unmount
  <2>1. allocated' = {}
    BY <1>4, StepUnmount DEF Unmount, IInv, UnmountClosesAll
  <2>2. PrivateConns' = {} /\ LeaseOf' = [s \in Session |-> NoConn]
    BY <1>4, <2>1 DEF Unmount, PrivateConns, LeaseOf
  <2>. QED BY <2>1, <2>2 DEF Lease!Shutdown, Lease!Next
<1>5. CASE Tick \/ CheckIdle \/ Mount \/ UNCHANGED vars
  BY <1>1, <1>5 DEF Tick, CheckIdle, Mount, vars, objVars
<1>. QED BY <1>2, <1>3, <1>4, <1>5 DEF Next

\* The pool keeps the contract of include/iFuse.Lib.Conn.hpp: a session keeps
\* the connection it was given until it gives it back, nothing leased is
\* closed, and a one-time connection is never leased twice.
THEOREM ImplementsLease == Spec => LeaseSpec
<1>1. Init => Lease!Init
  BY DEF Init, Lease!Init, PrivateConns, LeaseOf
<1>2. IInv /\ [Next]_vars => [Lease!Next]_(Lease!vars)
  BY StepLeases
<1>. QED BY <1>1, <1>2, Invariance, PTL DEF Spec, LeaseSpec, Lease!Spec
=============================================================================
