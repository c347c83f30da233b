------------------------ MODULE MetadataCacheProofs ------------------------
(***************************************************************************)
(* The caches of one directory, for every set of names and threads, every  *)
(* timeout and every number of changes.  The invariant says of the cache   *)
(* operations that a request has still to do what the caches will be like  *)
(* when they are done.                                                     *)
(***************************************************************************)
EXTENDS MetadataCache, FiniteSetTheorems, SequenceTheorems, TLAPS

(* An operation op on n is among those of s.                               *)
In(s, op, n) == \E i \in DOMAIN s : s[i].op = op /\ s[i].name = n

ListOps == {"AddDirEntry", "RemoveDirEntry"}

(* A check of the list is followed by what it is for, and then nothing; so *)
(* is a reset; no name is added or taken off twice.                        *)
Shape(s) ==
    /\ \A i \in DOMAIN s :
          /\ s[i].op = "CheckFreshness" =>
                i + 1 = Len(s) /\ s[i + 1].op = "AddDirEntry"
          /\ s[i].op = "ReleaseDirs" => i = Len(s)
          /\ s[i].op \in ListOps \cup {"PutStat"} => s[i].name \in Name
    /\ \A i, j \in DOMAIN s :
          i # j /\ s[i].op \in ListOps /\ s[j].op \in ListOps => s[i].name # s[j].name

(* An entry will be added, whether the list is fresh by then or not.       *)
Certain(s) ==
    \E i \in DOMAIN s :
        s[i].op = "AddDirEntry" /\ (i > 1 => s[i - 1].op # "CheckFreshness")

(* The list has what the operations in s will not add or take off.         *)
ListIs(s) ==
    \A n \in Name :
        dirCache.count[n] =
            IF (server[n] # 0 /\ ~In(s, "AddDirEntry", n)) \/ In(s, "RemoveDirEntry", n)
            THEN 1 ELSE 0

(* A stat is right, or the operations in s will drop it.                   *)
StatsAre(s) ==
    \A n \in Name :
        \/ statCache[n].ver = 0 \/ statCache[n].ver = server[n]
        \/ n \in dirty
        \/ In(s, "RemoveStat", n) \/ In(s, "ReleaseStats", Dir)

(* The operations in s agree with the server.                              *)
Planned(s) ==
    /\ \A n \in Name :
          /\ In(s, "AddDirEntry", n) => server[n] # 0
          /\ In(s, "RemoveDirEntry", n) => server[n] = 0
    /\ \A i \in DOMAIN s : s[i].op = "PutStat" => s[i].ver = server[s[i].name]

Right(s) ==
    /\ Planned(s)
    /\ StatsAre(s)
    /\ FreshList \/ (~dirCache.held /\ Certain(s)) => ListIs(s)

Alone(t) == \A u \in Thread \ {t} : pc[u] = "idle"

Working(t) ==
    /\ Alone(t)
    /\ Right(todo[t])
    /\ pc[t] = "query" => ~dirCache.held
    /\ pc[t] = "steps" => StatRight(t)
    /\ pc[t] = "reply" /\ (dirCache.held => FreshList) => StatRight(t)

Serially ==
    /\ Quiet => Right(<<>>)
    /\ \A t \in Thread : pc[t] # "idle" => Working(t)

Requests ==
    \A t \in Thread :
        /\ Shape(todo[t])
        /\ pc[t] \in {"idle", "opened", "query"} => answer[t] = NoAnswer
        /\ pc[t] \in {"exists", "fetch"} => answer[t].about \in Name
        /\ pc[t] = "exists" => answer[t].ver = 0

NoListIsEmpty == ~dirCache.held => dirCache = NoList

IInv ==
    /\ TypeOK
    /\ Requests
    /\ NoListIsEmpty
    /\ ~setting.overlap => Serially
-----------------------------------------------------------------------------
(* What is left of a series of operations when the first one is done.      *)

LEMMA TailIs ==
  ASSUME NEW s \in Seq(Step), s # <<>>
  PROVE  /\ Head(s) \in Step /\ Tail(s) \in Seq(Step)
         /\ Len(s) \in Nat /\ DOMAIN s = 1..Len(s) /\ Len(s) > 0
         /\ DOMAIN Tail(s) = 1 .. Len(s) - 1 /\ Len(Tail(s)) = Len(s) - 1
         /\ Head(s) = s[1]
         /\ \A i \in 1 .. Len(s) - 1 : Tail(s)[i] = s[i + 1]
<1>1. /\ Head(s) \in Step /\ Tail(s) \in Seq(Step)
      /\ Len(Tail(s)) = Len(s) - 1 /\ \A i \in 1..Len(Tail(s)) : Tail(s)[i] = s[i + 1]
  BY HeadTailProperties
<1>2. Len(s) \in Nat /\ DOMAIN s = 1..Len(s) /\ DOMAIN Tail(s) = 1..Len(Tail(s)) /\ Len(s) > 0
  BY <1>1, LenProperties, EmptySeq
<1>3. Head(s) = s[1]
  OBVIOUS
<1> QED
  BY <1>1, <1>2, <1>3

LEMMA InTail ==
  ASSUME NEW s \in Seq(Step), s # <<>>, NEW op, NEW n
  PROVE  In(s, op, n) <=> (Head(s).op = op /\ Head(s).name = n) \/ In(Tail(s), op, n)
<1>1. ASSUME In(s, op, n)
      PROVE  (Head(s).op = op /\ Head(s).name = n) \/ In(Tail(s), op, n)
  <2>1. PICK i \in DOMAIN s : s[i].op = op /\ s[i].name = n
    BY <1>1 DEF In
  <2>2. CASE i = 1
    BY <2>1, <2>2, TailIs
  <2>3. CASE i # 1
    <3>1. i - 1 \in DOMAIN Tail(s) /\ Tail(s)[i - 1] = s[i]
      BY <2>3, TailIs
    <3> QED
      BY <2>1, <3>1 DEF In
  <2> QED
    BY <2>2, <2>3
<1>2. ASSUME Head(s).op = op, Head(s).name = n
      PROVE  In(s, op, n)
  <2>1. 1 \in DOMAIN s /\ s[1] = Head(s)
    BY TailIs
  <2> QED
    BY <1>2, <2>1 DEF In
<1>3. ASSUME In(Tail(s), op, n)
      PROVE  In(s, op, n)
  <2>1. PICK i \in DOMAIN Tail(s) : Tail(s)[i].op = op /\ Tail(s)[i].name = n
    BY <1>3 DEF In
  <2>2. i + 1 \in DOMAIN s /\ s[i + 1] = Tail(s)[i]
    BY TailIs
  <2> QED
    BY <2>1, <2>2 DEF In
<1> QED
  BY <1>1, <1>2, <1>3

LEMMA ShapeTail ==
  ASSUME NEW s \in Seq(Step), s # <<>>, Shape(s)
  PROVE  Shape(Tail(s))
<1>10. PICK r : r = Tail(s)
  OBVIOUS
<1>11. PICK l \in Nat : l = Len(s)
  BY TailIs
<1>1. /\ r = Tail(s) /\ l = Len(s) /\ l > 0 /\ DOMAIN s = 1..l /\ DOMAIN r = 1 .. l - 1
      /\ Len(r) = l - 1 /\ \A i \in 1 .. l - 1 : r[i] = s[i + 1] /\ i + 1 \in 1..l
  BY <1>10, <1>11, TailIs
<1>2. ASSUME NEW i \in DOMAIN r
      PROVE  /\ r[i].op = "CheckFreshness" => i + 1 = Len(r) /\ r[i + 1].op = "AddDirEntry"
             /\ r[i].op = "ReleaseDirs" => i = Len(r)
             /\ r[i].op \in ListOps \cup {"PutStat"} => r[i].name \in Name
  <2>1. i + 1 \in DOMAIN s /\ r[i] = s[i + 1] /\ i \in Nat
    BY <1>1
  <2>2. /\ s[i + 1].op = "CheckFreshness" => i + 2 = Len(s) /\ s[i + 2].op = "AddDirEntry"
        /\ s[i + 1].op = "ReleaseDirs" => i + 1 = Len(s)
        /\ s[i + 1].op \in ListOps \cup {"PutStat"} => s[i + 1].name \in Name
    BY <2>1 DEF Shape
  <2>3. i + 2 = l => i + 1 = l - 1 /\ i + 1 \in 1 .. l - 1 /\ s[i + 2] = s[i + 1 + 1]
    BY <2>1
  <2>4. i + 1 = l => i = l - 1
    BY <2>1
  <2> QED
    BY <1>1, <2>1, <2>2, <2>3, <2>4
<1>3. ASSUME NEW i \in DOMAIN r, NEW j \in DOMAIN r, i # j, r[i].op \in ListOps, r[j].op \in ListOps
      PROVE  r[i].name # r[j].name
  <2>1. i + 1 \in DOMAIN s /\ j + 1 \in DOMAIN s /\ i + 1 # j + 1
        /\ r[i] = s[i + 1] /\ r[j] = s[j + 1]
    BY <1>1, <1>3
  <2> QED
    BY <1>3, <2>1 DEF Shape
<1> QED
  BY <1>1, <1>2, <1>3 DEF Shape

LEMMA ShapeHead ==
  ASSUME NEW s \in Seq(Step), s # <<>>, Shape(s), Head(s).op \in ListOps, NEW op \in ListOps
  PROVE  Head(s).name \in Name /\ ~In(Tail(s), op, Head(s).name)
<1>1. 1 \in DOMAIN s /\ s[1] = Head(s)
  BY TailIs
<1>2. Head(s).name \in Name
  BY <1>1 DEF Shape
<1>3. ASSUME NEW i \in DOMAIN Tail(s), Tail(s)[i].op = op
      PROVE  Tail(s)[i].name # Head(s).name
  <2>1. i + 1 \in DOMAIN s /\ s[i + 1] = Tail(s)[i] /\ i + 1 # 1
    BY TailIs
  <2> QED
    BY <1>1, <1>3, <2>1 DEF Shape
<1> QED
  BY <1>2, <1>3 DEF In

LEMMA PutHead ==
  ASSUME NEW s \in Seq(Step), s # <<>>, Shape(s), Planned(s), Head(s).op = "PutStat"
  PROVE  Head(s).name \in Name /\ Head(s).ver = server[Head(s).name]
<1>1. 1 \in DOMAIN s /\ s[1] = Head(s)
  BY TailIs
<1> QED
  BY <1>1 DEF Shape, Planned

LEMMA CertainTail ==
  ASSUME NEW s \in Seq(Step), s # <<>>, Head(s).op # "CheckFreshness", Certain(Tail(s))
  PROVE  Certain(s)
<1>1. PICK i \in DOMAIN Tail(s) :
         Tail(s)[i].op = "AddDirEntry" /\ (i > 1 => Tail(s)[i - 1].op # "CheckFreshness")
  BY DEF Certain
<1>20. PICK r : r = Tail(s)
  OBVIOUS
<1>21. PICK l \in Nat : l = Len(s)
  BY TailIs
<1>2. /\ r = Tail(s) /\ l = Len(s) /\ l > 0 /\ DOMAIN s = 1..l /\ DOMAIN r = 1 .. l - 1
      /\ Head(s) = s[1] /\ \A j \in 1 .. l - 1 : r[j] = s[j + 1]
  BY <1>20, <1>21, TailIs
<1>3. i + 1 \in DOMAIN s /\ s[i + 1].op = "AddDirEntry"
  BY <1>1, <1>2
<1>4. s[i + 1 - 1].op # "CheckFreshness"
  <2>1. CASE i = 1
    BY <1>2, <2>1
  <2>2. CASE i # 1
    <3>1. i - 1 \in 1 .. l - 1 /\ i - 1 + 1 = i /\ i > 1 /\ i + 1 - 1 = i
      BY <1>2, <2>2
    <3>2. r[i - 1] = s[i]
      BY <1>2, <3>1
    <3> QED
      BY <1>1, <1>2, <3>1, <3>2
  <2> QED
    BY <2>1, <2>2
<1>5. PICK k : k = i + 1
  OBVIOUS
<1>6. k \in DOMAIN s /\ s[k].op = "AddDirEntry" /\ s[k - 1].op # "CheckFreshness"
  BY <1>3, <1>4, <1>5
<1> QED
  BY <1>6 DEF Certain

LEMMA CertainHead ==
  ASSUME NEW s \in Seq(Step), s # <<>>, Head(s).op = "AddDirEntry"
  PROVE  Certain(s)
<1>1. 1 \in DOMAIN s /\ s[1] = Head(s)
  BY TailIs
<1> QED
  BY <1>1 DEF Certain

(* A check is the last but one.                                            *)
LEMMA CheckTail ==
  ASSUME NEW s \in Seq(Step), s # <<>>, Shape(s), Head(s).op = "CheckFreshness"
  PROVE  Tail(s) # <<>> /\ Tail(Tail(s)) = <<>> /\ Head(Tail(s)).op = "AddDirEntry"
<1>1. Len(s) = 2 /\ s[2].op = "AddDirEntry"
  <2>1. 1 \in DOMAIN s /\ s[1].op = "CheckFreshness"
    BY TailIs
  <2>2. 1 + 1 = Len(s) /\ s[1 + 1].op = "AddDirEntry"
    BY <2>1 DEF Shape
  <2> QED
    BY <2>2
<1>2. PICK r \in Seq(Step) : r = Tail(s) /\ Len(r) = 1 /\ r[1] = s[2]
  <2>1. 1 \in 1 .. Len(s) - 1 /\ 1 + 1 = 2 /\ Len(s) - 1 = 1
    BY <1>1
  <2>2. Tail(s)[1] = s[1 + 1] /\ Len(Tail(s)) = Len(s) - 1 /\ Tail(s) \in Seq(Step)
    BY <2>1, TailIs
  <2>3. Tail(s)[1] = s[2] /\ Len(Tail(s)) = 1
    BY <2>1, <2>2
  <2> QED
    BY <2>2, <2>3
<1>3. r # <<>>
  <2>1. Len(r) # 0
    BY <1>2
  <2> QED
    BY <2>1, EmptySeq
<1>4. Head(r) = r[1] /\ Tail(r) \in Seq(Step) /\ Len(Tail(r)) = Len(r) - 1
  BY <1>3, TailIs
<1>5. Len(Tail(r)) = 0
  BY <1>2, <1>4
<1>6. Tail(r) = <<>>
  BY <1>4, <1>5, EmptySeq
<1> QED
  BY <1>1, <1>2, <1>3, <1>4, <1>6

LEMMA ReleaseTail ==
  ASSUME NEW s \in Seq(Step), s # <<>>, Shape(s), Head(s).op = "ReleaseDirs"
  PROVE  Tail(s) = <<>>
<1>1. 1 \in DOMAIN s /\ s[1] = Head(s)
  BY TailIs
<1>2. Len(s) = 1
  BY <1>1 DEF Shape
<1>3. Tail(s) \in Seq(Step) /\ Len(Tail(s)) = 0
  BY <1>2, TailIs
<1> QED
  BY <1>3, EmptySeq

LEMMA PlannedTail ==
  ASSUME NEW s \in Seq(Step), s # <<>>, Planned(s)
  PROVE  Planned(Tail(s))
<1>1. ASSUME NEW i \in DOMAIN Tail(s), Tail(s)[i].op = "PutStat"
      PROVE  Tail(s)[i].ver = server[Tail(s)[i].name]
  <2>1. i + 1 \in DOMAIN s /\ s[i + 1] = Tail(s)[i]
    BY TailIs
  <2> QED
    BY <1>1, <2>1 DEF Planned
<1> QED
  BY <1>1, InTail DEF Planned

LEMMA NothingLeft ==
  /\ \A op, n : ~In(<<>>, op, n)
  /\ Shape(<<>>) /\ ~Certain(<<>>) /\ Planned(<<>>)
  /\ <<>> \in Seq(Step)
<1>1. DOMAIN <<>> = {} /\ <<>> \in Seq(Step)
  BY EmptySeq
<1> QED
  BY <1>1 DEF In, Shape, Certain, Planned

-----------------------------------------------------------------------------
(* A step of one thread.                                                   *)

StatType == [ver : Version, age : 0..Timeout + 1]
ListType == [held : BOOLEAN, count : [Name -> Nat], age : 0..Timeout + 1]
CacheTypes == statCache \in [Name -> StatType] /\ dirCache \in ListType

LEMMA SettingIs ==
  ASSUME TypeOK
  PROVE  setting.timeout \in Nat /\ setting.maxChanges \in Nat /\ setting.overlap \in BOOLEAN
BY SettingAssumption DEF TypeOK

(* The last conditions of Working, for the thread t and the operations s.  *)
LEMMA SerialStep ==
  ASSUME NEW t \in Thread, NEW s, Alone(t),
         pc'[t] # "idle", \A u \in Thread \ {t} : pc'[u] = pc[u],
         todo'[t] = s, Right(s)',
         pc'[t] = "query" => ~dirCache'.held,
         pc'[t] \in {"steps", "reply"} => StatRight(t)' \/ (pc'[t] = "reply" /\ ~(dirCache'.held => FreshList'))
  PROVE  Serially'
<1>1. Alone(t)'
  BY DEF Alone
<1>2. Right(todo[t])'
  BY DEF Right, Planned, StatsAre, ListIs
<1>3. Working(t)'
  BY <1>1, <1>2 DEF Working
<1>4. ~Quiet'
  BY DEF Quiet
<1>5. \A u \in Thread : pc'[u] # "idle" => u = t
  BY <1>1 DEF Alone
<1> QED
  BY <1>3, <1>4, <1>5 DEF Serially

LEMMA Beginning ==
  ASSUME IInv, NEW t \in Thread, Begin(t)
  PROVE  /\ todo[t] = <<>> /\ answer[t] = NoAnswer
         /\ ~setting.overlap => Alone(t) /\ Right(<<>>)
<1>1. todo[t] = <<>> /\ answer[t] = NoAnswer
  BY DEF IInv, TypeOK, Requests, Begin
<1>2. ~setting.overlap => Quiet
  BY DEF Begin, Quiet
<1> QED
  BY <1>1, <1>2 DEF IInv, Serially, Alone, Quiet

LEMMA Proceeding ==
  ASSUME IInv, NEW t \in Thread, pc[t] # "idle"
  PROVE  ~setting.overlap => Working(t)
BY DEF IInv, Serially

(* What Left does to the threads.                                          *)
LEMMA LeftKeeps ==
  ASSUME TypeOK, Requests, NEW t \in Thread, NEW s \in Seq(Step), Shape(s), Left(t, s),
         \A u \in Thread \ {t} : answer'[u] = answer[u]
  PROVE  /\ Requests'
         /\ todo' \in [Thread -> Seq(Step)] /\ todo'[t] = s
         /\ pc' \in [Thread -> {"idle", "exists", "fetch", "opened", "query", "steps", "reply"}]
         /\ \A u \in Thread : todo'[u] # <<>> <=> pc'[u] = "steps"
         /\ pc'[t] = IF s = <<>> THEN "reply" ELSE "steps"
         /\ \A u \in Thread \ {t} : pc'[u] = pc[u]
<1>1. todo' = [todo EXCEPT ![t] = s] /\ pc' = [pc EXCEPT ![t] = IF s = <<>> THEN "reply" ELSE "steps"]
  BY DEF Left, Goto
<1>2. /\ todo \in [Thread -> Seq(Step)]
      /\ pc \in [Thread -> {"idle", "exists", "fetch", "opened", "query", "steps", "reply"}]
      /\ \A u \in Thread : todo[u] # <<>> <=> pc[u] = "steps"
  BY DEF TypeOK
<1>3. todo'[t] = s /\ pc'[t] = IF s = <<>> THEN "reply" ELSE "steps"
  BY <1>1, <1>2
<1>4. \A u \in Thread \ {t} : todo'[u] = todo[u] /\ pc'[u] = pc[u]
  BY <1>1, <1>2
<1>5. todo' \in [Thread -> Seq(Step)]
  BY <1>1, <1>2
<1>6. pc' \in [Thread -> {"idle", "exists", "fetch", "opened", "query", "steps", "reply"}]
  BY <1>1, <1>2
<1>7. \A u \in Thread : todo'[u] # <<>> <=> pc'[u] = "steps"
  BY <1>2, <1>3, <1>4
<1>8. Requests'
  <2>1. \A u \in Thread : Shape(todo'[u])
    BY <1>3, <1>4 DEF Requests
  <2>2. ASSUME NEW u \in Thread
        PROVE  /\ pc'[u] \in {"idle", "opened", "query"} => answer'[u] = NoAnswer
               /\ pc'[u] \in {"exists", "fetch"} => answer'[u].about \in Name
               /\ pc'[u] = "exists" => answer'[u].ver = 0
    <3>1. CASE u = t
      BY <1>3, <3>1
    <3>2. CASE u # t
      BY <1>4, <3>2 DEF Requests
    <3> QED
      BY <3>1, <3>2
  <2> QED
    BY <2>1, <2>2 DEF Requests, Shape
<1> QED
  BY <1>3, <1>4, <1>5, <1>6, <1>7, <1>8

-----------------------------------------------------------------------------
(* The cache operations.                                                   *)

(* What each has to show about the caches.                                 *)
CachesAfter(s) ==
    /\ StatsAre(s)
    /\ FreshList \/ (~dirCache.held /\ Certain(s)) => ListIs(s)

LEMMA StepKept ==
  ASSUME IInv, NEW t \in Thread, pc[t] = "steps", NEW s \in Seq(Step), Shape(s),
         ~setting.overlap => Planned(s) /\ CachesAfter(s)',
         Left(t, s), UNCHANGED <<serverVars, answer>>,
         sinceCheck' = sinceCheck, CacheTypes', NoListIsEmpty'
  PROVE  IInv'
<1>1. TypeOK /\ Requests
  BY DEF IInv
<1>2. UNCHANGED <<setting, server, changes, dirty, answer, sinceCheck>>
  BY DEF serverVars
<1>3. /\ Requests'
      /\ todo' \in [Thread -> Seq(Step)] /\ todo'[t] = s
      /\ pc' \in [Thread -> {"idle", "exists", "fetch", "opened", "query", "steps", "reply"}]
      /\ \A u \in Thread : todo'[u] # <<>> <=> pc'[u] = "steps"
      /\ pc'[t] = IF s = <<>> THEN "reply" ELSE "steps"
      /\ \A u \in Thread \ {t} : pc'[u] = pc[u]
  BY <1>1, <1>2, LeftKeeps
<1>4. TypeOK'
  BY <1>1, <1>2, <1>3 DEF TypeOK, CacheTypes, StatType, ListType, Existing, Version, Step, Timeout
<1>5. ASSUME ~setting.overlap PROVE Serially'
  <2>1. Working(t)
    BY <1>5, Proceeding
  <2>2. Right(s)'
    BY <1>2, <1>5 DEF Right, Planned, CachesAfter
  <2>3. StatRight(t)'
    BY <1>2, <2>1 DEF Working, StatRight
  <2> QED
    BY <1>3, <2>1, <2>2, <2>3, SerialStep DEF Working
<1> QED
  BY <1>2, <1>3, <1>4, <1>5 DEF IInv

(* The operations of a thread, its next one and the rest.                  *)
LEMMA StepsOf ==
  ASSUME IInv, NEW t \in Thread, pc[t] = "steps"
  PROVE  /\ todo[t] \in Seq(Step) /\ todo[t] # <<>>
         /\ Head(todo[t]) \in Step /\ Tail(todo[t]) \in Seq(Step)
         /\ Shape(todo[t]) /\ Shape(Tail(todo[t]))
         /\ ~setting.overlap =>
               Right(todo[t]) /\ Planned(Tail(todo[t])) /\ StatsAre(todo[t])
<1>1. todo[t] \in Seq(Step) /\ todo[t] # <<>> /\ Shape(todo[t])
  BY DEF IInv, TypeOK, Requests
<1>2. ~setting.overlap => Right(todo[t])
  BY Proceeding DEF Working
<1>3. ~setting.overlap => Planned(todo[t]) /\ StatsAre(todo[t])
  BY <1>2 DEF Right
<1> QED
  BY <1>1, <1>2, <1>3, TailIs, ShapeTail, PlannedTail

(* The list is what it was and so is what will be done to it.              *)
LEMMA ListUntouched ==
  ASSUME NEW s \in Seq(Step), s # <<>>, Head(s).op \notin ListOps \cup {"CheckFreshness"},
         NEW r, r = Tail(s), Right(s), UNCHANGED <<setting, server, dirCache>>
  PROVE  FreshList' \/ (~dirCache'.held /\ Certain(r)') => ListIs(r)'
<1>1. Certain(r)' = Certain(r)
  BY DEF Certain
<1>2. Certain(r) => Certain(s)
  BY CertainTail
<1>3. FreshList' = FreshList
  BY DEF FreshList, Timeout
<1>4. \A n \in Name, op \in ListOps : In(s, op, n) <=> In(r, op, n)
  BY InTail DEF ListOps
<1>5. ListIs(s) => ListIs(r)'
  <2>1. \A n \in Name : /\ In(s, "AddDirEntry", n) <=> In(r, "AddDirEntry", n)
                        /\ In(s, "RemoveDirEntry", n) <=> In(r, "RemoveDirEntry", n)
    BY <1>4 DEF ListOps
  <2> QED
    BY <2>1 DEF ListIs, In
<1> QED
  BY <1>1, <1>2, <1>3, <1>5 DEF Right

(* The stats are what they were, and none that is wrong is kept.           *)
LEMMA StatsUntouched ==
  ASSUME NEW s \in Seq(Step), s # <<>>, Head(s).op \notin {"RemoveStat", "ReleaseStats"},
         NEW r, r = Tail(s), StatsAre(s), UNCHANGED <<server, dirty, statCache>>
  PROVE  StatsAre(r)'
<1>1. \A n : In(s, "RemoveStat", n) <=> In(r, "RemoveStat", n)
  BY InTail
<1>2. In(s, "ReleaseStats", Dir) <=> In(r, "ReleaseStats", Dir)
  BY InTail
<1> QED
  BY <1>1, <1>2 DEF StatsAre, In

LEMMA PutStatKept ==
  ASSUME IInv, NEW t \in Thread, PutStat(t)
  PROVE  IInv'
<1>1. PICK s : s = todo[t]
  OBVIOUS
<1>2. PICK r : r = Tail(s)
  OBVIOUS
<1>3. /\ pc[t] = "steps" /\ Head(s).op = "PutStat"
      /\ statCache' = [statCache EXCEPT ![Head(s).name] = [ver |-> Head(s).ver, age |-> 0]]
      /\ Left(t, r) /\ UNCHANGED <<serverVars, sinceCheck, answer, dirCache>>
  BY <1>1, <1>2 DEF PutStat, Next1, Subject, Done
<1>4. /\ s \in Seq(Step) /\ s # <<>> /\ Head(s) \in Step /\ r \in Seq(Step)
      /\ Shape(s) /\ Shape(r)
      /\ ~setting.overlap => Right(s) /\ Planned(r) /\ StatsAre(s)
  BY <1>1, <1>2, <1>3, StepsOf
<1>5. UNCHANGED <<setting, server, changes, dirty>>
  BY <1>3 DEF serverVars
<1>6. setting.timeout \in Nat /\ TypeOK
  BY SettingIs DEF IInv
<1>7. CacheTypes'
  <2>1. [ver |-> Head(s).ver, age |-> 0] \in [ver : Version, age : 0..Timeout + 1]
    BY <1>4, <1>6 DEF Step, Timeout
  <2>2. statCache' \in [Name -> [ver : Version, age : 0..Timeout + 1]]
    BY <1>3, <1>6, <2>1 DEF TypeOK
  <2> QED
    BY <1>3, <1>5, <1>6, <2>2 DEF CacheTypes, StatType, ListType, TypeOK, Version, Timeout
<1>8. NoListIsEmpty'
  BY <1>3 DEF IInv, NoListIsEmpty, NoList
<1>9. ASSUME ~setting.overlap PROVE Planned(r) /\ CachesAfter(r)'
  <2>1. FreshList' \/ (~dirCache'.held /\ Certain(r)') => ListIs(r)'
    BY <1>2, <1>3, <1>4, <1>5, <1>9, ListUntouched DEF ListOps
  <2>2. Head(s).name \in Name /\ Head(s).ver = server[Head(s).name]
    BY <1>3, <1>4, <1>9, PutHead DEF Right
  <2>3. \A n : In(s, "RemoveStat", n) <=> In(r, "RemoveStat", n)
    BY <1>2, <1>3, <1>4, InTail
  <2>4. In(s, "ReleaseStats", Dir) <=> In(r, "ReleaseStats", Dir)
    BY <1>2, <1>3, <1>4, InTail
  <2>5. ASSUME NEW n \in Name
        PROVE  \/ statCache'[n].ver = 0 \/ statCache'[n].ver = server[n]
               \/ n \in dirty
               \/ In(r, "RemoveStat", n) \/ In(r, "ReleaseStats", Dir)
    <3>1. CASE n = Head(s).name
      BY <1>3, <1>6, <2>2, <3>1 DEF TypeOK
    <3>2. CASE n # Head(s).name
      <4>1. statCache'[n] = statCache[n]
        BY <1>3, <1>6, <3>2 DEF TypeOK
      <4> QED
        BY <1>4, <1>9, <2>3, <2>4, <4>1 DEF StatsAre
    <3> QED
      BY <3>1, <3>2
  <2>6. StatsAre(r)'
    BY <1>5, <2>5 DEF StatsAre, In
  <2> QED
    BY <1>4, <1>9, <2>1, <2>6 DEF CachesAfter
<1> QED
  BY <1>3, <1>4, <1>7, <1>8, <1>9, StepKept

LEMMA RemoveStatKept ==
  ASSUME IInv, NEW t \in Thread, RemoveStat(t)
  PROVE  IInv'
<1>1. PICK s : s = todo[t]
  OBVIOUS
<1>2. PICK r : r = Tail(s)
  OBVIOUS
<1>3. /\ pc[t] = "steps" /\ Head(s).op = "RemoveStat"
      /\ statCache' = [statCache EXCEPT ![Head(s).name] = NoStat]
      /\ Left(t, r) /\ UNCHANGED <<serverVars, sinceCheck, answer, dirCache>>
  BY <1>1, <1>2 DEF RemoveStat, Next1, Subject, Done
<1>4. /\ s \in Seq(Step) /\ s # <<>> /\ Head(s) \in Step /\ r \in Seq(Step)
      /\ Shape(s) /\ Shape(r)
      /\ ~setting.overlap => Right(s) /\ Planned(r) /\ StatsAre(s)
  BY <1>1, <1>2, <1>3, StepsOf
<1>5. UNCHANGED <<setting, server, changes, dirty>>
  BY <1>3 DEF serverVars
<1>6. setting.timeout \in Nat /\ setting.maxChanges \in Nat /\ TypeOK
  BY SettingIs DEF IInv
<1>7. CacheTypes'
  <2>1. NoStat \in [ver : Version, age : 0..Timeout + 1]
    BY <1>6 DEF NoStat, Version, Timeout
  <2>2. statCache' \in [Name -> [ver : Version, age : 0..Timeout + 1]]
    BY <1>3, <1>6, <2>1 DEF TypeOK
  <2> QED
    BY <1>3, <1>5, <1>6, <2>2 DEF CacheTypes, StatType, ListType, TypeOK, Version, Timeout
<1>8. NoListIsEmpty'
  BY <1>3 DEF IInv, NoListIsEmpty, NoList
<1>9. ASSUME ~setting.overlap PROVE Planned(r) /\ CachesAfter(r)'
  <2>1. FreshList' \/ (~dirCache'.held /\ Certain(r)') => ListIs(r)'
    BY <1>2, <1>3, <1>4, <1>5, <1>9, ListUntouched DEF ListOps
  <2>3. \A n : n # Head(s).name => (In(s, "RemoveStat", n) <=> In(r, "RemoveStat", n))
    BY <1>2, <1>3, <1>4, InTail
  <2>4. In(s, "ReleaseStats", Dir) <=> In(r, "ReleaseStats", Dir)
    BY <1>2, <1>3, <1>4, InTail
  <2>5. ASSUME NEW n \in Name
        PROVE  \/ statCache'[n].ver = 0 \/ statCache'[n].ver = server[n]
               \/ n \in dirty
               \/ In(r, "RemoveStat", n) \/ In(r, "ReleaseStats", Dir)
    <3>1. CASE n = Head(s).name
      BY <1>3, <1>6, <3>1 DEF TypeOK, NoStat
    <3>2. CASE n # Head(s).name
      <4>1. statCache'[n] = statCache[n]
        BY <1>3, <1>6, <3>2 DEF TypeOK
      <4> QED
        BY <1>4, <1>9, <2>3, <2>4, <3>2, <4>1 DEF StatsAre
    <3> QED
      BY <3>1, <3>2
  <2>6. StatsAre(r)'
    BY <1>5, <2>5 DEF StatsAre, In
  <2> QED
    BY <1>4, <1>9, <2>1, <2>6 DEF CachesAfter
<1> QED
  BY <1>3, <1>4, <1>7, <1>8, <1>9, StepKept

LEMMA ReleaseStatsKept ==
  ASSUME IInv, NEW t \in Thread, ReleaseStats(t)
  PROVE  IInv'
<1>1. PICK s : s = todo[t]
  OBVIOUS
<1>2. PICK r : r = Tail(s)
  OBVIOUS
<1>3. /\ pc[t] = "steps" /\ Head(s).op = "ReleaseStats"
      /\ statCache' = [n \in Name |-> NoStat]
      /\ Left(t, r) /\ UNCHANGED <<serverVars, sinceCheck, answer, dirCache>>
  BY <1>1, <1>2 DEF ReleaseStats, Next1, Done
<1>4. /\ s \in Seq(Step) /\ s # <<>> /\ r \in Seq(Step) /\ Shape(r)
      /\ ~setting.overlap => Right(s) /\ Planned(r)
  BY <1>1, <1>2, <1>3, StepsOf
<1>5. UNCHANGED <<setting, server, changes, dirty>>
  BY <1>3 DEF serverVars
<1>6. setting.timeout \in Nat /\ setting.maxChanges \in Nat /\ TypeOK
  BY SettingIs DEF IInv
<1>7. CacheTypes'
  <2>1. NoStat \in [ver : Version, age : 0..Timeout + 1]
    BY <1>6 DEF NoStat, Version, Timeout
  <2>2. statCache' \in [Name -> [ver : Version, age : 0..Timeout + 1]]
    BY <1>3, <2>1
  <2> QED
    BY <1>3, <1>5, <1>6, <2>2 DEF CacheTypes, StatType, ListType, TypeOK, Version, Timeout
<1>8. NoListIsEmpty'
  BY <1>3 DEF IInv, NoListIsEmpty, NoList
<1>9. ASSUME ~setting.overlap PROVE Planned(r) /\ CachesAfter(r)'
  <2>1. FreshList' \/ (~dirCache'.held /\ Certain(r)') => ListIs(r)'
    BY <1>2, <1>3, <1>4, <1>5, <1>9, ListUntouched DEF ListOps
  <2>2. StatsAre(r)'
    BY <1>3 DEF StatsAre, NoStat
  <2> QED
    BY <1>4, <1>9, <2>1, <2>2 DEF CachesAfter
<1> QED
  BY <1>3, <1>4, <1>7, <1>8, <1>9, StepKept

(* The count of one name, and nothing else of a list.                      *)
Counted(h, n, k) ==
    [held |-> h, count |-> [dirCache.count EXCEPT ![n] = k], age |-> dirCache.age]

LEMMA CountedIs ==
  ASSUME TypeOK, NEW n \in Name, NEW k \in Nat, NEW h \in BOOLEAN
  PROVE  /\ Counted(h, n, k) \in ListType
         /\ Counted(h, n, k).held = h /\ Counted(h, n, k).age = dirCache.age
         /\ Counted(h, n, k).count[n] = k
         /\ \A m \in Name : m # n => Counted(h, n, k).count[m] = dirCache.count[m]
<1>1. PICK c \in [Name -> Nat], a \in 0..Timeout + 1, g \in BOOLEAN :
         dirCache = [held |-> g, count |-> c, age |-> a]
  BY DEF TypeOK
<1>2. PICK e : e = [c EXCEPT ![n] = k]
  OBVIOUS
<1>3. e \in [Name -> Nat] /\ e[n] = k /\ \A m \in Name : m # n => e[m] = c[m]
  BY <1>2
<1>4. Counted(h, n, k) = [held |-> h, count |-> e, age |-> a]
  BY <1>1, <1>2 DEF Counted
<1> QED
  BY <1>1, <1>3, <1>4 DEF ListType

LEMMA SameList ==
  ASSUME NEW d \in ListType, NEW e \in ListType, d.held = e.held, d.age = e.age,
         \A n \in Name : d.count[n] = e.count[n]
  PROVE  d = e
<1>1. PICK c \in [Name -> Nat], a \in 0..Timeout + 1, g \in BOOLEAN :
         d = [held |-> g, count |-> c, age |-> a]
  BY DEF ListType
<1>2. PICK f \in [Name -> Nat], b \in 0..Timeout + 1, h \in BOOLEAN :
         e = [held |-> h, count |-> f, age |-> b]
  BY DEF ListType
<1>3. g = h /\ a = b /\ \A n \in Name : c[n] = f[n]
  BY <1>1, <1>2
<1>4. c = f
  BY <1>3
<1> QED
  BY <1>1, <1>2, <1>3, <1>4

LEMMA AddDirEntryKept ==
  ASSUME IInv, NEW t \in Thread, AddDirEntry(t)
  PROVE  IInv'
<1>1. PICK s : s = todo[t]
  OBVIOUS
<1>2. PICK r : r = Tail(s)
  OBVIOUS
<1>3. /\ pc[t] = "steps" /\ Head(s).op = "AddDirEntry"
      /\ dirCache' = [dirCache EXCEPT !.held = TRUE, !.count[Head(s).name] = @ + 1]
      /\ Left(t, r) /\ UNCHANGED <<serverVars, sinceCheck, answer, statCache>>
  BY <1>1, <1>2 DEF AddDirEntry, Next1, Subject, Done
<1>4. /\ s \in Seq(Step) /\ s # <<>> /\ Head(s) \in Step /\ r \in Seq(Step)
      /\ Shape(s) /\ Shape(r)
      /\ ~setting.overlap => Right(s) /\ Planned(r) /\ StatsAre(s)
  BY <1>1, <1>2, <1>3, StepsOf
<1>5. UNCHANGED <<setting, server, changes, dirty>>
  BY <1>3 DEF serverVars
<1>6. TypeOK
  BY DEF IInv
<1>7. PICK n \in Name : n = Head(s).name /\ \A op \in ListOps : ~In(r, op, n)
  BY <1>2, <1>3, <1>4, ShapeHead DEF ListOps
<1>8. PICK k \in Nat : k = dirCache.count[n]
  BY <1>6 DEF TypeOK
<1>90. PICK j \in Nat : j = k + 1
  OBVIOUS
<1>91. PICK h \in BOOLEAN : h
  OBVIOUS
<1>9. j = k + 1 /\ h = TRUE
  BY <1>90, <1>91
<1>10. /\ dirCache' \in ListType
       /\ dirCache'.held = TRUE /\ dirCache'.age = dirCache.age
       /\ dirCache'.count[n] = k + 1
       /\ \A m \in Name : m # n => dirCache'.count[m] = dirCache.count[m]
  <2>1. dirCache' = Counted(h, n, j)
    BY <1>3, <1>6, <1>7, <1>8, <1>9 DEF TypeOK, Counted
  <2>2. /\ dirCache' \in ListType
        /\ dirCache'.held = h /\ dirCache'.age = dirCache.age
        /\ dirCache'.count[n] = j
        /\ \A m \in Name : m # n => dirCache'.count[m] = dirCache.count[m]
    BY <1>6, <2>1, CountedIs
  <2> QED
    BY <1>9, <2>2
<1>11. CacheTypes'
  BY <1>3, <1>5, <1>6, <1>10 DEF CacheTypes, StatType, ListType, TypeOK, Version, Timeout
<1>12. NoListIsEmpty'
  BY <1>10 DEF NoListIsEmpty
<1>13. ASSUME ~setting.overlap PROVE Planned(r) /\ CachesAfter(r)'
  <2>1. StatsAre(r)'
    BY <1>2, <1>3, <1>4, <1>5, <1>13, StatsUntouched
  <2>2. ASSUME FreshList' \/ (~dirCache'.held /\ Certain(r)') PROVE ListIs(r)'
    <3>1. FreshList \/ (~dirCache.held /\ Certain(s))
      <4>1. dirCache.age <= Timeout
        BY <1>5, <1>10, <2>2 DEF FreshList, Timeout
      <4>2. Certain(s)
        BY <1>3, <1>4, CertainHead
      <4>3. dirCache.held \in BOOLEAN
        BY <1>6 DEF TypeOK
      <4> QED
        BY <4>1, <4>2, <4>3 DEF FreshList
    <3>2. ListIs(s) /\ Planned(s)
      BY <1>4, <1>13, <3>1 DEF Right
    <3>3. In(s, "AddDirEntry", n) /\ ~In(s, "RemoveDirEntry", n)
      BY <1>2, <1>3, <1>4, <1>7, InTail DEF ListOps
    <3>4. ~In(r, "AddDirEntry", n) /\ ~In(r, "RemoveDirEntry", n)
      BY <1>7 DEF ListOps
    <3>5. dirCache.count[n] = 0 /\ server[n] # 0
      BY <3>2, <3>3 DEF ListIs, Planned
    <3>6. ASSUME NEW m \in Name
          PROVE  dirCache'.count[m] =
                   IF (server[m] # 0 /\ ~In(r, "AddDirEntry", m)) \/ In(r, "RemoveDirEntry", m)
                   THEN 1 ELSE 0
      <4>1. CASE m = n
        BY <1>8, <1>10, <3>4, <3>5, <4>1
      <4>2. CASE m # n
        <5>1. /\ In(s, "AddDirEntry", m) <=> In(r, "AddDirEntry", m)
              /\ In(s, "RemoveDirEntry", m) <=> In(r, "RemoveDirEntry", m)
          BY <1>2, <1>4, <1>7, <4>2, InTail
        <5> QED
          BY <1>10, <3>2, <4>2, <5>1 DEF ListIs
      <4> QED
        BY <4>1, <4>2
    <3> QED
      BY <1>5, <3>6 DEF ListIs, In
  <2> QED
    BY <1>4, <1>13, <2>1, <2>2 DEF CachesAfter
<1> QED
  BY <1>3, <1>4, <1>11, <1>12, <1>13, StepKept

LEMMA RemoveDirEntryKept ==
  ASSUME IInv, NEW t \in Thread, RemoveDirEntry(t)
  PROVE  IInv'
<1>1. PICK s : s = todo[t]
  OBVIOUS
<1>2. PICK r : r = Tail(s)
  OBVIOUS
<1>3. /\ pc[t] = "steps" /\ Head(s).op = "RemoveDirEntry"
      /\ dirCache' = [dirCache EXCEPT !.count[Head(s).name] = IF @ = 0 THEN 0 ELSE @ - 1]
      /\ Left(t, r) /\ UNCHANGED <<serverVars, sinceCheck, answer, statCache>>
  BY <1>1, <1>2 DEF RemoveDirEntry, Next1, Subject, Done
<1>4. /\ s \in Seq(Step) /\ s # <<>> /\ Head(s) \in Step /\ r \in Seq(Step)
      /\ Shape(s) /\ Shape(r)
      /\ ~setting.overlap => Right(s) /\ Planned(r) /\ StatsAre(s)
  BY <1>1, <1>2, <1>3, StepsOf
<1>5. UNCHANGED <<setting, server, changes, dirty>>
  BY <1>3 DEF serverVars
<1>6. TypeOK
  BY DEF IInv
<1>7. PICK n \in Name : n = Head(s).name /\ \A op \in ListOps : ~In(r, op, n)
  BY <1>2, <1>3, <1>4, ShapeHead DEF ListOps
<1>8. PICK k \in Nat : k = IF dirCache.count[n] = 0 THEN 0 ELSE dirCache.count[n] - 1
  BY <1>6 DEF TypeOK
<1>9. PICK h \in BOOLEAN : h = dirCache.held
  BY <1>6 DEF TypeOK
<1>10. /\ dirCache' \in ListType
       /\ dirCache'.held = h /\ dirCache'.age = dirCache.age
       /\ dirCache'.count[n] = k
       /\ \A m \in Name : m # n => dirCache'.count[m] = dirCache.count[m]
  <2>1. dirCache' = Counted(h, n, k)
    BY <1>3, <1>6, <1>7, <1>8, <1>9 DEF TypeOK, Counted
  <2> QED
    BY <1>6, <2>1, CountedIs
<1>11. CacheTypes'
  BY <1>3, <1>5, <1>6, <1>10 DEF CacheTypes, StatType, ListType, TypeOK, Version, Timeout
<1>12. NoListIsEmpty'
  <2>1. ASSUME ~dirCache'.held PROVE dirCache' = dirCache
    <3>1. dirCache = NoList
      BY <1>9, <1>10, <2>1 DEF IInv, NoListIsEmpty
    <3>2. dirCache.count[n] = 0
      BY <3>1 DEF NoList
    <3>3. \A m \in Name : dirCache'.count[m] = dirCache.count[m]
      BY <1>8, <1>10, <3>2
    <3>4. dirCache \in ListType
      BY <1>6 DEF TypeOK, ListType
    <3> QED
      BY <1>9, <1>10, <3>3, <3>4, SameList
  <2> QED
    BY <1>9, <1>10, <2>1 DEF NoListIsEmpty, IInv, NoList
<1>13. ASSUME ~setting.overlap PROVE Planned(r) /\ CachesAfter(r)'
  <2>1. StatsAre(r)'
    BY <1>2, <1>3, <1>4, <1>5, <1>13, StatsUntouched
  <2>2. ASSUME FreshList' \/ (~dirCache'.held /\ Certain(r)') PROVE ListIs(r)'
    <3>1. FreshList \/ (~dirCache.held /\ Certain(s))
      BY <1>2, <1>3, <1>4, <1>5, <1>9, <1>10, <2>2, CertainTail DEF FreshList, Timeout, Certain
    <3>2. ListIs(s) /\ Planned(s)
      BY <1>4, <1>13, <3>1 DEF Right
    <3>3. In(s, "RemoveDirEntry", n)
      BY <1>3, <1>4, <1>7, InTail
    <3>4. ~In(r, "AddDirEntry", n) /\ ~In(r, "RemoveDirEntry", n)
      BY <1>7 DEF ListOps
    <3>5. dirCache.count[n] = 1 /\ server[n] = 0
      BY <3>2, <3>3 DEF ListIs, Planned
    <3>6. ASSUME NEW m \in Name
          PROVE  dirCache'.count[m] =
                   IF (server[m] # 0 /\ ~In(r, "AddDirEntry", m)) \/ In(r, "RemoveDirEntry", m)
                   THEN 1 ELSE 0
      <4>1. CASE m = n
        BY <1>8, <1>10, <3>4, <3>5, <4>1
      <4>2. CASE m # n
        <5>1. /\ In(s, "AddDirEntry", m) <=> In(r, "AddDirEntry", m)
              /\ In(s, "RemoveDirEntry", m) <=> In(r, "RemoveDirEntry", m)
          BY <1>2, <1>4, <1>7, <4>2, InTail
        <5> QED
          BY <1>10, <3>2, <4>2, <5>1 DEF ListIs
      <4> QED
        BY <4>1, <4>2
    <3> QED
      BY <1>5, <3>6 DEF ListIs, In
  <2> QED
    BY <1>4, <1>13, <2>1, <2>2 DEF CachesAfter
<1> QED
  BY <1>3, <1>4, <1>11, <1>12, <1>13, StepKept

LEMMA NoListType ==
  ASSUME TypeOK
  PROVE  NoList \in ListType /\ ~NoList.held
BY SettingIs DEF NoList, ListType, Timeout

LEMMA ReleaseDirsKept ==
  ASSUME IInv, NEW t \in Thread, ReleaseDirs(t)
  PROVE  IInv'
<1>1. PICK s : s = todo[t]
  OBVIOUS
<1>2. PICK r : r = Tail(s)
  OBVIOUS
<1>3. /\ pc[t] = "steps" /\ Head(s).op = "ReleaseDirs"
      /\ dirCache' = NoList
      /\ Left(t, r) /\ UNCHANGED <<serverVars, sinceCheck, answer, statCache>>
  BY <1>1, <1>2 DEF ReleaseDirs, Next1, Done
<1>4. /\ s \in Seq(Step) /\ s # <<>> /\ r \in Seq(Step)
      /\ Shape(s) /\ Shape(r)
      /\ ~setting.overlap => Right(s) /\ Planned(r) /\ StatsAre(s)
  BY <1>1, <1>2, <1>3, StepsOf
<1>5. UNCHANGED <<setting, server, changes, dirty>>
  BY <1>3 DEF serverVars
<1>6. TypeOK /\ NoList \in ListType /\ ~NoList.held
  BY NoListType DEF IInv
<1>7. CacheTypes'
  BY <1>3, <1>5, <1>6 DEF CacheTypes, StatType, ListType, TypeOK, Version, Timeout
<1>8. NoListIsEmpty'
  BY <1>3 DEF NoListIsEmpty, NoList
<1>9. ASSUME ~setting.overlap PROVE Planned(r) /\ CachesAfter(r)'
  <2>1. StatsAre(r)'
    BY <1>2, <1>3, <1>4, <1>5, <1>9, StatsUntouched
  <2>2. ~FreshList'
    BY <1>3, <1>6 DEF FreshList, NoList
  <2>3. ~Certain(r)'
    BY <1>1, <1>2, <1>3, <1>4, ReleaseTail, NothingLeft DEF Certain
  <2> QED
    BY <1>4, <1>9, <2>1, <2>2, <2>3 DEF CachesAfter
<1> QED
  BY <1>3, <1>4, <1>7, <1>8, <1>9, StepKept

LEMMA CheckFreshnessKept ==
  ASSUME IInv, NEW t \in Thread, CheckFreshness(t)
  PROVE  IInv'
<1>1. PICK s : s = todo[t]
  OBVIOUS
<1>2. PICK r : r = Tail(s)
  OBVIOUS
<1>3. /\ pc[t] = "steps" /\ Head(s).op = "CheckFreshness"
      /\ Left(t, IF FreshList THEN r ELSE Tail(r))
      /\ UNCHANGED <<serverVars, cacheVars, answer>>
  BY <1>1, <1>2 DEF CheckFreshness, Next1
<1>4. /\ s \in Seq(Step) /\ s # <<>> /\ r \in Seq(Step)
      /\ Shape(s) /\ Shape(r)
      /\ ~setting.overlap => Right(s) /\ Planned(r) /\ StatsAre(s)
  BY <1>1, <1>2, <1>3, StepsOf
<1>5. UNCHANGED <<setting, server, changes, dirty, statCache, dirCache, sinceCheck>>
  BY <1>3 DEF serverVars, cacheVars
<1>6. TypeOK /\ NoListIsEmpty
  BY DEF IInv
<1>7. CacheTypes'
  BY <1>5, <1>6 DEF CacheTypes, StatType, ListType, TypeOK, Version, Timeout
<1>8. NoListIsEmpty'
  BY <1>5, <1>6 DEF NoListIsEmpty, NoList
<1>9. r # <<>> /\ Tail(r) = <<>> /\ Head(r).op = "AddDirEntry"
  BY <1>2, <1>3, <1>4, CheckTail
<1>10. ASSUME ~setting.overlap PROVE StatsAre(r)' /\ StatsAre(<<>>)'
  <2>1. StatsAre(r)'
    BY <1>2, <1>3, <1>4, <1>5, <1>10, StatsUntouched
  <2>2. \A op, n : op # "CheckFreshness" /\ op # "AddDirEntry" => ~In(s, op, n)
    <3>1. ASSUME NEW op, NEW n, op # "CheckFreshness", op # "AddDirEntry"
          PROVE  ~In(s, op, n)
      <4>1. In(s, op, n) <=> In(r, op, n)
        BY <1>2, <1>3, <1>4, <3>1, InTail
      <4>2. In(r, op, n) <=> In(<<>>, op, n)
        BY <1>4, <1>9, <3>1, InTail
      <4> QED
        BY <4>1, <4>2, NothingLeft
    <3> QED
      BY <3>1
  <2>3. StatsAre(<<>>)'
    BY <1>4, <1>5, <1>10, <2>2 DEF StatsAre
  <2> QED
    BY <2>1, <2>3
<1>11. CASE FreshList
  <2>1. ASSUME ~setting.overlap PROVE Planned(r) /\ CachesAfter(r)'
    <3>1. ListIs(s)
      BY <1>4, <1>11, <2>1 DEF Right
    <3>2. \A n \in Name : /\ In(s, "AddDirEntry", n) <=> In(r, "AddDirEntry", n)
                          /\ In(s, "RemoveDirEntry", n) <=> In(r, "RemoveDirEntry", n)
      BY <1>2, <1>3, <1>4, InTail
    <3>3. ListIs(r)'
      BY <1>5, <3>1, <3>2 DEF ListIs, In
    <3> QED
      BY <1>4, <1>10, <2>1, <3>3 DEF CachesAfter
  <2> QED
    BY <1>3, <1>4, <1>5, <1>7, <1>8, <1>11, <2>1, StepKept
<1>12. CASE ~FreshList
  <2>1. ASSUME ~setting.overlap PROVE Planned(<<>>) /\ CachesAfter(<<>>)'
    <3>1. ~FreshList' /\ ~Certain(<<>>)'
      BY <1>5, <1>12, NothingLeft DEF FreshList, Timeout, Certain
    <3> QED
      BY <1>10, <2>1, <3>1, NothingLeft DEF CachesAfter
  <2>2. Left(t, <<>>) /\ <<>> \in Seq(Step) /\ Shape(<<>>)
    BY <1>3, <1>9, <1>12, NothingLeft
  <2> QED
    BY <1>3, <1>5, <1>7, <1>8, <2>1, <2>2, StepKept
<1> QED
  BY <1>11, <1>12

LEMMA CacheStepKept ==
  ASSUME IInv, NEW t \in Thread, CacheStep(t)
  PROVE  IInv'
BY PutStatKept, RemoveStatKept, AddDirEntryKept, CheckFreshnessKept, RemoveDirEntryKept,
   ReleaseStatsKept, ReleaseDirsKept DEF CacheStep

-----------------------------------------------------------------------------
(* The other steps of requests: those without cache operations to do, ...  *)

AnswerType == [about : Name \cup {Nothing}, ver : Version]

LEMMA MoveKept ==
  ASSUME IInv, NEW t \in Thread, pc[t] # "steps",
         NEW l \in {"idle", "exists", "fetch", "opened", "query", "reply"}, Goto(t, l),
         UNCHANGED <<serverVars, statCache, todo>>,
         sinceCheck' \in 0..(Timeout \div 2) + 1,
         dirCache' = dirCache \/ dirCache' = NoList,
         answer' \in [Thread -> AnswerType],
         \A u \in Thread \ {t} : answer'[u] = answer[u],
         l \in {"idle", "opened", "query"} => answer'[t] = NoAnswer,
         l \in {"exists", "fetch"} => answer'[t].about \in Name,
         l = "exists" => answer'[t].ver = 0,
         ~setting.overlap =>
            /\ Alone(t) /\ Right(<<>>)
            /\ l = "query" => ~dirCache'.held
            /\ l = "reply" => StatRight(t)' \/ ~(dirCache'.held => FreshList')
  PROVE  IInv'
<1>1. TypeOK /\ Requests /\ NoListIsEmpty /\ dirCache \in ListType
  BY DEF IInv, TypeOK, ListType
<1>2. UNCHANGED <<setting, server, changes, dirty, statCache, todo>>
  BY DEF serverVars
<1>3. NoList \in ListType /\ ~NoList.held
  BY <1>1, NoListType
<1>4. NoListIsEmpty'
  BY <1>1, <1>3 DEF NoListIsEmpty, NoList
<1>5. pc'[t] = l /\ \A u \in Thread \ {t} : pc'[u] = pc[u]
  BY <1>1 DEF Goto, TypeOK
<1>6. pc' \in [Thread -> {"idle", "exists", "fetch", "opened", "query", "steps", "reply"}]
  BY <1>1 DEF Goto, TypeOK
<1>7. todo[t] = <<>>
  BY <1>1 DEF TypeOK
<1>8. \A u \in Thread : todo[u] # <<>> <=> pc'[u] = "steps"
  BY <1>1, <1>5, <1>7 DEF TypeOK
<1>9. TypeOK'
  BY <1>1, <1>2, <1>3, <1>6, <1>8 DEF TypeOK, AnswerType, ListType, Existing, Version, Step, Timeout
<1>10. Requests'
  <2>1. ASSUME NEW u \in Thread
        PROVE  /\ pc'[u] \in {"idle", "opened", "query"} => answer'[u] = NoAnswer
               /\ pc'[u] \in {"exists", "fetch"} => answer'[u].about \in Name
               /\ pc'[u] = "exists" => answer'[u].ver = 0
    <3>1. CASE u = t
      BY <1>5, <3>1
    <3>2. CASE u # t
      BY <1>1, <1>5, <3>2 DEF Requests
    <3> QED
      BY <3>1, <3>2
  <2>2. \A u \in Thread : Shape(todo'[u])
    BY <1>1, <1>2 DEF Requests, Shape
  <2> QED
    BY <2>1, <2>2 DEF Requests, Shape
<1>11. ASSUME ~setting.overlap PROVE Serially'
  <2>1. Right(<<>>)'
    <3>1. FreshList' => FreshList /\ dirCache' = dirCache
      BY <1>2, <1>3 DEF FreshList, Timeout
    <3>2. ~Certain(<<>>)'
      BY NothingLeft DEF Certain
    <3>3. StatsAre(<<>>)'
      BY <1>2, <1>11 DEF Right, StatsAre, In
    <3>4. Planned(<<>>)'
      BY <1>2, <1>11 DEF Right, Planned, In
    <3>5. FreshList' => ListIs(<<>>)'
      BY <1>2, <1>11, <3>1 DEF Right, ListIs, In
    <3> QED
      BY <3>2, <3>3, <3>4, <3>5 DEF Right
  <2>2. CASE l = "idle"
    <3>1. \A u \in Thread : pc'[u] = "idle"
      BY <1>5, <1>11, <2>2 DEF Alone
    <3> QED
      BY <2>1, <3>1 DEF Serially, Quiet
  <2>3. CASE l # "idle"
    <3>1. todo'[t] = <<>>
      BY <1>2, <1>7
    <3> QED
      BY <1>5, <1>11, <2>1, <2>3, <3>1, SerialStep
  <2> QED
    BY <2>2, <2>3
<1> QED
  BY <1>2, <1>4, <1>9, <1>10, <1>11 DEF IInv

(* ... and those that have from then on.                                   *)
LEMMA StartKept ==
  ASSUME IInv, NEW t \in Thread, pc[t] # "steps", NEW s \in Seq(Step), Shape(s), Left(t, s),
         UNCHANGED <<setting, cacheVars>>,
         server' \in [Name -> Version], changes' \in 0..setting.maxChanges,
         dirty' \subseteq Existing',
         answer' \in [Thread -> AnswerType],
         \A u \in Thread \ {t} : answer'[u] = answer[u],
         ~setting.overlap => Alone(t) /\ Right(s)' /\ StatRight(t)'
  PROVE  IInv'
<1>1. TypeOK /\ Requests /\ NoListIsEmpty
  BY DEF IInv
<1>2. UNCHANGED <<setting, statCache, dirCache, sinceCheck>>
  BY DEF cacheVars
<1>3. /\ Requests'
      /\ todo' \in [Thread -> Seq(Step)] /\ todo'[t] = s
      /\ pc' \in [Thread -> {"idle", "exists", "fetch", "opened", "query", "steps", "reply"}]
      /\ \A u \in Thread : todo'[u] # <<>> <=> pc'[u] = "steps"
      /\ pc'[t] = IF s = <<>> THEN "reply" ELSE "steps"
      /\ \A u \in Thread \ {t} : pc'[u] = pc[u]
  BY <1>1, <1>2, LeftKeeps
<1>4. TypeOK'
  BY <1>1, <1>2, <1>3 DEF TypeOK, AnswerType, Version, Step, Timeout
<1>5. NoListIsEmpty'
  BY <1>1, <1>2 DEF NoListIsEmpty, NoList
<1>6. ~setting.overlap => Serially'
  BY <1>3, SerialStep
<1> QED
  BY <1>2, <1>3, <1>4, <1>5, <1>6 DEF IInv

-----------------------------------------------------------------------------
(* Requests that ask.                                                      *)

LEMMA SameAnswer ==
  ASSUME TypeOK, answer' = answer
  PROVE  answer' \in [Thread -> AnswerType]
BY DEF TypeOK, AnswerType

LEMMA AnswerIs ==
  ASSUME TypeOK, NEW t \in Thread, NEW n \in Name \cup {Nothing}, NEW v \in Version,
         Answer(t, n, v)
  PROVE  /\ answer' \in [Thread -> AnswerType]
         /\ answer'[t].about = n /\ answer'[t].ver = v
         /\ \A u \in Thread \ {t} : answer'[u] = answer[u]
<1>1. [about |-> n, ver |-> v] \in AnswerType
  BY DEF AnswerType
<1>2. answer' = [answer EXCEPT ![t] = [about |-> n, ver |-> v]] /\ answer \in [Thread -> AnswerType]
  BY DEF Answer, TypeOK, AnswerType
<1>3. answer' \in [Thread -> AnswerType] /\ answer'[t] = [about |-> n, ver |-> v]
  BY <1>1, <1>2
<1> QED
  BY <1>2, <1>3

LEMMA NothingAnswered ==
  ASSUME TypeOK, NEW t \in Thread, answer' = [answer EXCEPT ![t] = NoAnswer]
  PROVE  /\ answer' \in [Thread -> AnswerType]
         /\ answer'[t] = NoAnswer
         /\ \A u \in Thread \ {t} : answer'[u] = answer[u]
         /\ StatRight(t)'
<1>1. NoAnswer \in AnswerType
  BY SettingIs DEF NoAnswer, AnswerType, Version
<1>2. answer \in [Thread -> AnswerType]
  BY DEF TypeOK, AnswerType
<1>3. answer' \in [Thread -> AnswerType] /\ answer'[t] = NoAnswer
  BY <1>1, <1>2
<1>4. StatRight(t)'
  BY <1>3, NameAssumption DEF StatRight, NoAnswer
<1> QED
  BY <1>2, <1>3, <1>4

LEMMA NoAnswerRight ==
  ASSUME NEW t \in Thread, answer[t] = NoAnswer, answer' = answer
  PROVE  StatRight(t)'
BY NameAssumption DEF StatRight, NoAnswer

(* A check that drops an expired list keeps every other.                   *)
LEMMA ClearedIs ==
  ASSUME TypeOK, ClearExpiredDir, setting' = setting
  PROVE  /\ dirCache' = dirCache \/ dirCache' = NoList
         /\ sinceCheck' \in 0..(Timeout \div 2) + 1
         /\ dirCache' = Cleared
<1>1. PICK d \in Nat : d = Timeout \div 2
  BY SettingIs DEF Timeout
<1>2. sinceCheck' \in 0..d + 1
  BY <1>1 DEF TypeOK, ClearExpiredDir
<1> QED
  BY <1>1, <1>2 DEF ClearExpiredDir, Cleared

LEMMA ReplyKept ==
  ASSUME IInv, NEW t \in Thread, Reply(t)
  PROVE  IInv'
<1>1. /\ pc[t] = "reply" /\ answer' = [answer EXCEPT ![t] = NoAnswer] /\ Goto(t, "idle")
      /\ UNCHANGED <<serverVars, statCache, dirCache, sinceCheck, todo>>
  BY DEF Reply, cacheVars
<1>2. TypeOK /\ sinceCheck' \in 0..(Timeout \div 2) + 1 /\ todo[t] = <<>>
  BY <1>1 DEF IInv, TypeOK
<1>3. /\ answer' \in [Thread -> AnswerType] /\ answer'[t] = NoAnswer
      /\ \A u \in Thread \ {t} : answer'[u] = answer[u]
  BY <1>1, <1>2, NothingAnswered
<1>4. ~setting.overlap => Alone(t) /\ Right(<<>>)
  BY <1>1, <1>2, Proceeding DEF Working
<1> QED
  BY <1>1, <1>2, <1>3, <1>4, MoveKept

LEMMA GetStatKept ==
  ASSUME IInv, NEW t \in Thread, GetStat(t)
  PROVE  IInv'
<1>1. PICK n \in Name :
         /\ Answer(t, n, IF FreshStat(n) THEN statCache[n].ver ELSE 0)
         /\ Goto(t, IF FreshStat(n) THEN "reply" ELSE "exists")
  BY DEF GetStat
<1>2. Begin(t) /\ UNCHANGED <<serverVars, statCache, dirCache, sinceCheck, todo>>
  BY DEF GetStat, cacheVars
<1>3. /\ todo[t] = <<>> /\ answer[t] = NoAnswer
      /\ ~setting.overlap => Alone(t) /\ Right(<<>>)
  BY <1>2, Beginning
<1>4. TypeOK /\ sinceCheck' \in 0..(Timeout \div 2) + 1 /\ pc[t] = "idle"
  BY <1>2 DEF IInv, TypeOK, Begin
<1>5. PICK v \in Version : v = IF FreshStat(n) THEN statCache[n].ver ELSE 0
  <2>1. statCache[n].ver \in Version /\ 0 \in Version
    <3>1. statCache[n].ver \in Version
      BY <1>4 DEF TypeOK
    <3>2. 0 \in Version
      BY <1>4, SettingIs DEF Version
    <3> QED
      BY <3>1, <3>2
  <2> QED
    BY <2>1
<1>6. /\ answer' \in [Thread -> AnswerType]
      /\ answer'[t].about = n /\ answer'[t].ver = v
      /\ \A u \in Thread \ {t} : answer'[u] = answer[u]
  BY <1>1, <1>4, <1>5, AnswerIs
<1>7. CASE FreshStat(n)
  <2>1. ASSUME ~setting.overlap PROVE StatRight(t)'
    <3>1. statCache[n].ver = server[n] \/ n \in dirty
      BY <1>3, <1>7, <2>1, NothingLeft DEF Right, StatsAre, FreshStat
    <3> QED
      BY <1>2, <1>5, <1>6, <1>7, <3>1 DEF StatRight, serverVars
  <2>2. Goto(t, "reply")
    BY <1>1, <1>7
  <2> QED
    BY <1>2, <1>3, <1>4, <1>6, <2>1, <2>2, MoveKept
<1>8. CASE ~FreshStat(n)
  <2>1. Goto(t, "exists") /\ v = 0
    BY <1>1, <1>5, <1>8
  <2> QED
    BY <1>2, <1>3, <1>4, <1>6, <2>1, MoveKept
<1> QED
  BY <1>7, <1>8

LEMMA CheckExistenceKept ==
  ASSUME IInv, NEW t \in Thread, CheckExistence(t)
  PROVE  IInv'
<1>1. PICK n \in Name : n = answer[t].about
  BY DEF CheckExistence, IInv, Requests
<1>2. /\ pc[t] = "exists" /\ ClearExpiredDir
      /\ UNCHANGED <<serverVars, statCache, todo, answer>>
      /\ Goto(t, IF Cleared.held /\ Cleared.count[n] = 0 THEN "reply" ELSE "fetch")
  BY <1>1 DEF CheckExistence
<1>3. TypeOK /\ answer[t].ver = 0 /\ todo[t] = <<>> /\ setting' = setting
  BY <1>2 DEF IInv, Requests, TypeOK, serverVars
<1>4. /\ dirCache' = dirCache \/ dirCache' = NoList
      /\ sinceCheck' \in 0..(Timeout \div 2) + 1
      /\ dirCache' = Cleared
  BY <1>2, <1>3, ClearedIs
<1>5. answer' \in [Thread -> AnswerType]
  BY <1>2, <1>3, SameAnswer
<1>6. ~setting.overlap => Alone(t) /\ Right(<<>>)
  BY <1>2, <1>3, Proceeding DEF Working
<1>7. CASE Cleared.held /\ Cleared.count[n] = 0
  <2>1. ASSUME ~setting.overlap, dirCache'.held => FreshList' PROVE StatRight(t)'
    <3>1. dirCache' = dirCache
      BY <1>3, <1>4, <1>7, NoListType
    <3>2. FreshList
      BY <1>3, <1>4, <1>7, <2>1, <3>1 DEF FreshList, Timeout
    <3>3. server[n] = 0
      BY <1>4, <1>6, <1>7, <2>1, <3>1, <3>2, NothingLeft DEF Right, ListIs
    <3> QED
      BY <1>1, <1>2, <1>3, <3>3 DEF StatRight, serverVars
  <2>2. Goto(t, "reply")
    BY <1>2, <1>7
  <2> QED
    BY <1>2, <1>4, <1>5, <1>6, <2>1, <2>2, MoveKept
<1>8. CASE ~(Cleared.held /\ Cleared.count[n] = 0)
  <2>1. Goto(t, "fetch") /\ answer'[t].about \in Name
    BY <1>1, <1>2, <1>8
  <2> QED
    BY <1>2, <1>4, <1>5, <1>6, <2>1, MoveKept
<1> QED
  BY <1>7, <1>8

LEMMA ObjStatFailsKept ==
  ASSUME IInv, NEW t \in Thread, ObjStatFails(t)
  PROVE  IInv'
<1>1. /\ setting.overlap /\ pc[t] = "fetch"
      /\ answer' = [answer EXCEPT ![t] = NoAnswer] /\ Goto(t, "reply")
      /\ UNCHANGED <<serverVars, statCache, dirCache, sinceCheck, todo>>
  BY DEF ObjStatFails, cacheVars
<1>2. TypeOK /\ sinceCheck' \in 0..(Timeout \div 2) + 1
  BY <1>1 DEF IInv, TypeOK
<1>3. /\ answer' \in [Thread -> AnswerType] /\ answer'[t] = NoAnswer
      /\ \A u \in Thread \ {t} : answer'[u] = answer[u]
  BY <1>1, <1>2, NothingAnswered
<1> QED
  BY <1>1, <1>2, <1>3, MoveKept

LEMMA OpenDirKept ==
  ASSUME IInv, NEW t \in Thread, OpenDir(t)
  PROVE  IInv'
<1>1. /\ Begin(t) /\ ClearExpiredDir
      /\ UNCHANGED <<serverVars, statCache, todo, answer>>
  BY DEF OpenDir
<1>2. PICK l \in {"reply", "opened"} : Goto(t, l)
  BY DEF OpenDir
<1>3. /\ todo[t] = <<>> /\ answer[t] = NoAnswer
      /\ ~setting.overlap => Alone(t) /\ Right(<<>>)
  BY <1>1, Beginning
<1>4. TypeOK /\ pc[t] = "idle" /\ setting' = setting
  BY <1>1 DEF IInv, Begin, serverVars
<1>5. /\ dirCache' = dirCache \/ dirCache' = NoList
      /\ sinceCheck' \in 0..(Timeout \div 2) + 1
  BY <1>1, <1>4, ClearedIs
<1>6. answer' \in [Thread -> AnswerType] /\ answer'[t] = NoAnswer /\ StatRight(t)'
  BY <1>1, <1>3, <1>4, SameAnswer, NoAnswerRight
<1> QED
  BY <1>1, <1>2, <1>3, <1>4, <1>5, <1>6, MoveKept

LEMMA ReadDirKept ==
  ASSUME IInv, NEW t \in Thread, ReadDir(t)
  PROVE  IInv'
<1>1. /\ pc[t] = "opened" /\ dirCache' = NoList /\ Goto(t, "query")
      /\ UNCHANGED <<serverVars, statCache, sinceCheck, todo, answer>>
  BY DEF ReadDir
<1>2. /\ TypeOK /\ sinceCheck' \in 0..(Timeout \div 2) + 1
      /\ answer[t] = NoAnswer /\ todo[t] = <<>>
  BY <1>1 DEF IInv, TypeOK, Requests
<1>3. answer' \in [Thread -> AnswerType] /\ answer'[t] = NoAnswer /\ ~dirCache'.held
  BY <1>1, <1>2, SameAnswer, NoListType
<1>4. ~setting.overlap => Alone(t) /\ Right(<<>>)
  BY <1>1, <1>2, Proceeding DEF Working
<1> QED
  BY <1>1, <1>2, <1>3, <1>4, MoveKept

-----------------------------------------------------------------------------
(* The cache operations of each request.                                   *)

Kinds == {"PutStat", "RemoveStat", "AddDirEntry", "CheckFreshness",
          "RemoveDirEntry", "ReleaseStats", "ReleaseDirs"}

LEMMA DoIs ==
  ASSUME NEW op \in Kinds, NEW n \in Name \cup {Dir}, NEW v \in Version
  PROVE  /\ Do(op, n, v) \in Step
         /\ Do(op, n, v).op = op /\ Do(op, n, v).name = n /\ Do(op, n, v).ver = v
BY DEF Do, Step, Kinds

LEMMA ZeroVersion ==
  ASSUME TypeOK
  PROVE  0 \in Version
BY SettingIs DEF Version

LEMMA PutStep ==
  ASSUME NEW n \in Name, NEW v \in Version, NEW s, s = <<Do("PutStat", n, v)>>
  PROVE  /\ s \in Seq(Step) /\ s # <<>> /\ Shape(s) /\ ~Certain(s)
         /\ \A op, m : op # "PutStat" => ~In(s, op, m)
         /\ \A i \in DOMAIN s : s[i].name = n /\ s[i].ver = v
<1>1. PICK d \in Step : d = Do("PutStat", n, v) /\ d.op = "PutStat" /\ d.name = n /\ d.ver = v
  BY DoIs DEF Kinds
<1>2. s = <<d>> /\ s \in Seq(Step) /\ DOMAIN s = {1} /\ s[1] = d /\ s # <<>>
  BY <1>1
<1> QED
  BY <1>1, <1>2 DEF Shape, Certain, In, ListOps

LEMMA DropStep ==
  ASSUME NEW n \in Name, 0 \in Version, NEW s, s = <<Do("RemoveStat", n, 0)>>
  PROVE  /\ s \in Seq(Step) /\ s # <<>> /\ Shape(s) /\ ~Certain(s)
         /\ \A op, m : In(s, op, m) <=> op = "RemoveStat" /\ m = n
         /\ \A i \in DOMAIN s : s[i].op # "PutStat"
<1>1. PICK d \in Step : d = Do("RemoveStat", n, 0) /\ d.op = "RemoveStat" /\ d.name = n
  BY DoIs DEF Kinds
<1>2. s = <<d>> /\ s \in Seq(Step) /\ DOMAIN s = {1} /\ s[1] = d /\ s # <<>>
  BY <1>1
<1> QED
  BY <1>1, <1>2 DEF Shape, Certain, In, ListOps

LEMMA CreateSteps ==
  ASSUME NEW n \in Name, 0 \in Version, NEW s,
         s = <<Do("RemoveStat", n, 0), Do("CheckFreshness", n, 0), Do("AddDirEntry", n, 0)>>
  PROVE  /\ s \in Seq(Step) /\ s # <<>> /\ Shape(s) /\ ~Certain(s)
         /\ \A op, m : In(s, op, m) <=>
                         op \in {"RemoveStat", "CheckFreshness", "AddDirEntry"} /\ m = n
         /\ \A i \in DOMAIN s : s[i].op # "PutStat"
<1>1. PICK d \in Step : d = Do("RemoveStat", n, 0) /\ d.op = "RemoveStat" /\ d.name = n
  BY DoIs DEF Kinds
<1>2. PICK e \in Step : e = Do("CheckFreshness", n, 0) /\ e.op = "CheckFreshness" /\ e.name = n
  BY DoIs DEF Kinds
<1>3. PICK f \in Step : f = Do("AddDirEntry", n, 0) /\ f.op = "AddDirEntry" /\ f.name = n
  BY DoIs DEF Kinds
<1>4. /\ s = <<d, e, f>> /\ s \in Seq(Step) /\ DOMAIN s = {1, 2, 3} /\ Len(s) = 3
      /\ s[1] = d /\ s[2] = e /\ s[3] = f /\ s # <<>>
  BY <1>1, <1>2, <1>3
<1>5. Shape(s)
  BY <1>1, <1>2, <1>3, <1>4 DEF Shape, ListOps
<1>6. ~Certain(s)
  BY <1>1, <1>2, <1>3, <1>4 DEF Certain
<1>7. \A op, m : In(s, op, m) <=>
                   op \in {"RemoveStat", "CheckFreshness", "AddDirEntry"} /\ m = n
  BY <1>1, <1>2, <1>3, <1>4 DEF In
<1> QED
  BY <1>1, <1>2, <1>3, <1>4, <1>5, <1>6, <1>7

LEMMA UnlinkSteps ==
  ASSUME NEW n \in Name, 0 \in Version, NEW s,
         s = <<Do("RemoveStat", n, 0), Do("RemoveDirEntry", n, 0)>>
  PROVE  /\ s \in Seq(Step) /\ s # <<>> /\ Shape(s) /\ ~Certain(s)
         /\ \A op, m : In(s, op, m) <=> op \in {"RemoveStat", "RemoveDirEntry"} /\ m = n
         /\ \A i \in DOMAIN s : s[i].op # "PutStat"
<1>1. PICK d \in Step : d = Do("RemoveStat", n, 0) /\ d.op = "RemoveStat" /\ d.name = n
  BY DoIs DEF Kinds
<1>2. PICK e \in Step : e = Do("RemoveDirEntry", n, 0) /\ e.op = "RemoveDirEntry" /\ e.name = n
  BY DoIs DEF Kinds
<1>4. /\ s = <<d, e>> /\ s \in Seq(Step) /\ DOMAIN s = {1, 2} /\ Len(s) = 2
      /\ s[1] = d /\ s[2] = e /\ s # <<>>
  BY <1>1, <1>2
<1>5. Shape(s)
  BY <1>1, <1>2, <1>4 DEF Shape, ListOps
<1>6. ~Certain(s)
  BY <1>1, <1>2, <1>4 DEF Certain
<1>7. \A op, m : In(s, op, m) <=> op \in {"RemoveStat", "RemoveDirEntry"} /\ m = n
  BY <1>1, <1>2, <1>4 DEF In
<1> QED
  BY <1>1, <1>2, <1>4, <1>5, <1>6, <1>7

LEMMA ResetSteps ==
  ASSUME 0 \in Version, NEW s, s = <<Do("ReleaseStats", Dir, 0), Do("ReleaseDirs", Dir, 0)>>
  PROVE  /\ s \in Seq(Step) /\ s # <<>> /\ Shape(s) /\ ~Certain(s)
         /\ \A op, m : In(s, op, m) <=> op \in {"ReleaseStats", "ReleaseDirs"} /\ m = Dir
         /\ \A i \in DOMAIN s : s[i].op # "PutStat"
<1>1. PICK d \in Step : d = Do("ReleaseStats", Dir, 0) /\ d.op = "ReleaseStats" /\ d.name = Dir
  BY DoIs DEF Kinds
<1>2. PICK e \in Step : e = Do("ReleaseDirs", Dir, 0) /\ e.op = "ReleaseDirs" /\ e.name = Dir
  BY DoIs DEF Kinds
<1>4. /\ s = <<d, e>> /\ s \in Seq(Step) /\ DOMAIN s = {1, 2} /\ Len(s) = 2
      /\ s[1] = d /\ s[2] = e /\ s # <<>>
  BY <1>1, <1>2
<1>5. Shape(s)
  BY <1>1, <1>2, <1>4 DEF Shape, ListOps
<1>6. ~Certain(s)
  BY <1>1, <1>2, <1>4 DEF Certain
<1>7. \A op, m : In(s, op, m) <=> op \in {"ReleaseStats", "ReleaseDirs"} /\ m = Dir
  BY <1>1, <1>2, <1>4 DEF In
<1> QED
  BY <1>1, <1>2, <1>4, <1>5, <1>6, <1>7

LEMMA RenameSteps ==
  ASSUME NEW from \in Name, NEW to \in Name, from # to, 0 \in Version, NEW s,
         s = <<Do("RemoveStat", from, 0), Do("RemoveStat", to, 0),
               Do("RemoveDirEntry", from, 0),
               Do("CheckFreshness", to, 0), Do("AddDirEntry", to, 0)>>
  PROVE  /\ s \in Seq(Step) /\ s # <<>> /\ Shape(s) /\ ~Certain(s)
         /\ \A m : In(s, "RemoveStat", m) <=> m \in {from, to}
         /\ \A m : In(s, "RemoveDirEntry", m) <=> m = from
         /\ \A m : In(s, "AddDirEntry", m) <=> m = to
         /\ \A i \in DOMAIN s : s[i].op # "PutStat"
<1>1. PICK a \in Step : a = Do("RemoveStat", from, 0) /\ a.op = "RemoveStat" /\ a.name = from
  BY DoIs DEF Kinds
<1>2. PICK b \in Step : b = Do("RemoveStat", to, 0) /\ b.op = "RemoveStat" /\ b.name = to
  BY DoIs DEF Kinds
<1>3. PICK c \in Step :
         c = Do("RemoveDirEntry", from, 0) /\ c.op = "RemoveDirEntry" /\ c.name = from
  BY DoIs DEF Kinds
<1>4. PICK d \in Step : d = Do("CheckFreshness", to, 0) /\ d.op = "CheckFreshness" /\ d.name = to
  BY DoIs DEF Kinds
<1>5. PICK e \in Step : e = Do("AddDirEntry", to, 0) /\ e.op = "AddDirEntry" /\ e.name = to
  BY DoIs DEF Kinds
<1>6. /\ s = <<a, b, c, d, e>> /\ s \in Seq(Step) /\ DOMAIN s = {1, 2, 3, 4, 5} /\ Len(s) = 5
      /\ s[1] = a /\ s[2] = b /\ s[3] = c /\ s[4] = d /\ s[5] = e /\ s # <<>>
  BY <1>1, <1>2, <1>3, <1>4, <1>5
<1>7. Shape(s)
  BY <1>1, <1>2, <1>3, <1>4, <1>5, <1>6 DEF Shape, ListOps
<1>8. ~Certain(s)
  BY <1>1, <1>2, <1>3, <1>4, <1>5, <1>6 DEF Certain
<1>9. /\ \A m : In(s, "RemoveStat", m) <=> m \in {from, to}
      /\ \A m : In(s, "RemoveDirEntry", m) <=> m = from
      /\ \A m : In(s, "AddDirEntry", m) <=> m = to
  BY <1>1, <1>2, <1>3, <1>4, <1>5, <1>6 DEF In
<1> QED
  BY <1>1, <1>2, <1>3, <1>4, <1>5, <1>6, <1>7, <1>8, <1>9

(* With nothing to do, as it is when a request begins.                     *)
LEMMA NowRight ==
  ASSUME Right(<<>>)
  PROVE  /\ \A n \in Name : statCache[n].ver = 0 \/ statCache[n].ver = server[n] \/ n \in dirty
         /\ FreshList => \A n \in Name : dirCache.count[n] = IF server[n] # 0 THEN 1 ELSE 0
BY NothingLeft DEF Right, StatsAre, ListIs

(* What a request has to show when it begins with its operations s: that   *)
(* they repair the caches.                                                 *)
LEMMA RightThen ==
  ASSUME NEW s, UNCHANGED <<setting, cacheVars>>,
         \A i \in DOMAIN s : s[i].op = "PutStat" => s[i].ver = server'[s[i].name],
         \A n \in Name : /\ In(s, "AddDirEntry", n) => server'[n] # 0
                         /\ In(s, "RemoveDirEntry", n) => server'[n] = 0,
         \A n \in Name : \/ statCache[n].ver = 0 \/ statCache[n].ver = server'[n]
                         \/ n \in dirty'
                         \/ In(s, "RemoveStat", n) \/ In(s, "ReleaseStats", Dir),
         FreshList \/ (~dirCache.held /\ Certain(s)) =>
            \A n \in Name : dirCache.count[n] =
               IF (server'[n] # 0 /\ ~In(s, "AddDirEntry", n)) \/ In(s, "RemoveDirEntry", n)
               THEN 1 ELSE 0
  PROVE  Right(s)'
<1>1. UNCHANGED <<statCache, dirCache, setting>>
  BY DEF cacheVars
<1>2. Planned(s)'
  BY DEF Planned, In
<1>3. StatsAre(s)'
  BY <1>1 DEF StatsAre, In
<1>4. FreshList' = FreshList
  BY <1>1 DEF FreshList, Timeout
<1>5. FreshList \/ (~dirCache.held /\ Certain(s)) => ListIs(s)'
  BY <1>1 DEF ListIs, In
<1>6. Certain(s)' = Certain(s)
  BY DEF Certain
<1> QED
  BY <1>1, <1>2, <1>3, <1>4, <1>5, <1>6 DEF Right

(* With changes of the list that depend on its freshness, if any.          *)
LEMMA RightAfter ==
  ASSUME NEW s, ~Certain(s), \A i \in DOMAIN s : s[i].op # "PutStat",
         UNCHANGED <<setting, cacheVars>>,
         \A n \in Name : /\ In(s, "AddDirEntry", n) => server'[n] # 0
                         /\ In(s, "RemoveDirEntry", n) => server'[n] = 0,
         \A n \in Name : \/ statCache[n].ver = 0 \/ statCache[n].ver = server'[n]
                         \/ n \in dirty'
                         \/ In(s, "RemoveStat", n) \/ In(s, "ReleaseStats", Dir),
         FreshList =>
            \A n \in Name : dirCache.count[n] =
               IF (server'[n] # 0 /\ ~In(s, "AddDirEntry", n)) \/ In(s, "RemoveDirEntry", n)
               THEN 1 ELSE 0
  PROVE  Right(s)'
BY RightThen

LEMMA ChangeKept ==
  ASSUME IInv, NEW t \in Thread, Begin(t), NEW s \in Seq(Step), Shape(s), Change(t, s),
         server' \in [Name -> Version], dirty' \subseteq Existing',
         ~setting.overlap => Right(s)'
  PROVE  IInv'
<1>1. TypeOK /\ pc[t] = "idle" /\ setting.maxChanges \in Nat
  BY SettingIs DEF IInv, Begin
<1>2. changes' \in 0..setting.maxChanges /\ UNCHANGED <<setting, cacheVars, answer>>
  BY <1>1 DEF Change, TypeOK
<1>3. answer[t] = NoAnswer /\ (~setting.overlap => Alone(t))
  BY Beginning
<1>4. answer' \in [Thread -> AnswerType] /\ StatRight(t)'
  BY <1>1, <1>2, <1>3, SameAnswer, NoAnswerRight
<1>5. CASE Left(t, s)
  BY <1>1, <1>2, <1>3, <1>4, <1>5, StartKept
<1>6. CASE setting.overlap /\ Left(t, <<>>)
  BY <1>1, <1>2, <1>3, <1>4, <1>6, NothingLeft, StartKept
<1> QED
  BY <1>5, <1>6 DEF Change

(* A new version is one.                                                   *)
LEMMA NewVersionIs ==
  ASSUME TypeOK, NEW t \in Thread, NEW s, Change(t, s)
  PROVE  NewVersion \in Version /\ NewVersion # 0 /\ 0 \in Version
<1>1. setting.maxChanges \in Nat /\ changes \in Nat /\ changes < setting.maxChanges
  BY SettingIs DEF Change, TypeOK
<1> QED
  BY <1>1 DEF NewVersion, Version

LEMMA CreateKept ==
  ASSUME IInv, NEW t \in Thread, Create(t)
  PROVE  IInv'
<1>1. PICK n \in Name \ Existing :
         /\ server' = [server EXCEPT ![n] = NewVersion]
         /\ Change(t, <<Do("RemoveStat", n, 0), Do("CheckFreshness", n, 0),
                        Do("AddDirEntry", n, 0)>>)
  BY DEF Create
<1>2. Begin(t) /\ dirty' = dirty /\ TypeOK
  BY DEF Create, IInv
<1>3. PICK s : s = <<Do("RemoveStat", n, 0), Do("CheckFreshness", n, 0),
                     Do("AddDirEntry", n, 0)>>
  OBVIOUS
<1>4. Change(t, s)
  BY <1>1, <1>3
<1>5. NewVersion \in Version /\ NewVersion # 0 /\ 0 \in Version
  BY <1>2, <1>4, NewVersionIs
<1>6. /\ s \in Seq(Step) /\ Shape(s) /\ ~Certain(s)
      /\ \A op, m : In(s, op, m) <=>
                      op \in {"RemoveStat", "CheckFreshness", "AddDirEntry"} /\ m = n
      /\ \A i \in DOMAIN s : s[i].op # "PutStat"
  BY <1>3, <1>5, CreateSteps
<1>7. /\ server' \in [Name -> Version] /\ server'[n] # 0 /\ server[n] = 0
      /\ \A m \in Name : m # n => server'[m] = server[m]
  BY <1>1, <1>2, <1>5 DEF TypeOK, Existing
<1>8. dirty' \subseteq Existing'
  BY <1>2, <1>7 DEF TypeOK, Existing
<1>9. ASSUME ~setting.overlap PROVE Right(s)'
  <2>1. /\ \A m \in Name : statCache[m].ver = 0 \/ statCache[m].ver = server[m] \/ m \in dirty
        /\ FreshList => \A m \in Name : dirCache.count[m] = IF server[m] # 0 THEN 1 ELSE 0
    BY <1>2, <1>9, Beginning, NowRight
  <2>2. UNCHANGED <<setting, cacheVars>>
    BY <1>4 DEF Change
  <2>3. \A m \in Name : /\ In(s, "RemoveStat", m) <=> m = n
                        /\ In(s, "AddDirEntry", m) <=> m = n
                        /\ ~In(s, "RemoveDirEntry", m)
    BY <1>6
  <2> QED
    BY <1>2, <1>6, <1>7, <2>1, <2>2, <2>3, RightAfter
<1> QED
  BY <1>2, <1>4, <1>6, <1>7, <1>8, <1>9, ChangeKept

LEMMA UnlinkKept ==
  ASSUME IInv, NEW t \in Thread, Unlink(t)
  PROVE  IInv'
<1>1. PICK n \in Existing \ dirty :
         /\ server' = [server EXCEPT ![n] = 0]
         /\ Change(t, <<Do("RemoveStat", n, 0), Do("RemoveDirEntry", n, 0)>>)
  BY DEF Unlink
<1>2. Begin(t) /\ dirty' = dirty /\ TypeOK
  BY DEF Unlink, IInv
<1>3. PICK s : s = <<Do("RemoveStat", n, 0), Do("RemoveDirEntry", n, 0)>>
  OBVIOUS
<1>4. Change(t, s)
  BY <1>1, <1>3
<1>5. 0 \in Version /\ n \in Name
  BY <1>2, ZeroVersion DEF Existing
<1>6. /\ s \in Seq(Step) /\ Shape(s) /\ ~Certain(s)
      /\ \A op, m : In(s, op, m) <=> op \in {"RemoveStat", "RemoveDirEntry"} /\ m = n
      /\ \A i \in DOMAIN s : s[i].op # "PutStat"
  BY <1>3, <1>5, UnlinkSteps
<1>7. /\ server' \in [Name -> Version] /\ server'[n] = 0 /\ server[n] # 0
      /\ \A m \in Name : m # n => server'[m] = server[m]
  BY <1>1, <1>2, <1>5 DEF TypeOK, Existing
<1>8. dirty' \subseteq Existing'
  BY <1>1, <1>2, <1>7 DEF TypeOK, Existing
<1>9. ASSUME ~setting.overlap PROVE Right(s)'
  <2>1. /\ \A m \in Name : statCache[m].ver = 0 \/ statCache[m].ver = server[m] \/ m \in dirty
        /\ FreshList => \A m \in Name : dirCache.count[m] = IF server[m] # 0 THEN 1 ELSE 0
    BY <1>2, <1>9, Beginning, NowRight
  <2>2. UNCHANGED <<setting, cacheVars>>
    BY <1>4 DEF Change
  <2>3. \A m \in Name : /\ In(s, "RemoveStat", m) <=> m = n
                        /\ In(s, "RemoveDirEntry", m) <=> m = n
                        /\ ~In(s, "AddDirEntry", m)
    BY <1>6
  <2> QED
    BY <1>2, <1>6, <1>7, <2>1, <2>2, <2>3, RightAfter
<1> QED
  BY <1>2, <1>4, <1>6, <1>7, <1>8, <1>9, ChangeKept

LEMMA RenameKept ==
  ASSUME IInv, NEW t \in Thread, Rename(t)
  PROVE  IInv'
<1>1. PICK from \in Existing \ dirty, to \in Name \ Existing :
         /\ server' = [server EXCEPT ![from] = 0, ![to] = NewVersion]
         /\ Change(t, <<Do("RemoveStat", from, 0), Do("RemoveStat", to, 0),
                        Do("RemoveDirEntry", from, 0),
                        Do("CheckFreshness", to, 0), Do("AddDirEntry", to, 0)>>)
  BY DEF Rename
<1>2. Begin(t) /\ dirty' = dirty /\ TypeOK
  BY DEF Rename, IInv
<1>3. PICK s : s = <<Do("RemoveStat", from, 0), Do("RemoveStat", to, 0),
                     Do("RemoveDirEntry", from, 0),
                     Do("CheckFreshness", to, 0), Do("AddDirEntry", to, 0)>>
  OBVIOUS
<1>4. Change(t, s)
  BY <1>1, <1>3
<1>5. NewVersion \in Version /\ NewVersion # 0 /\ 0 \in Version
      /\ from \in Name /\ to \in Name /\ from # to
  BY <1>2, <1>4, NewVersionIs DEF Existing
<1>6. /\ s \in Seq(Step) /\ Shape(s) /\ ~Certain(s)
      /\ \A m : In(s, "RemoveStat", m) <=> m \in {from, to}
      /\ \A m : In(s, "RemoveDirEntry", m) <=> m = from
      /\ \A m : In(s, "AddDirEntry", m) <=> m = to
      /\ \A i \in DOMAIN s : s[i].op # "PutStat"
  BY <1>3, <1>5, RenameSteps
<1>7. /\ server' \in [Name -> Version]
      /\ server'[from] = 0 /\ server[from] # 0 /\ server'[to] # 0 /\ server[to] = 0
      /\ \A m \in Name : m \notin {from, to} => server'[m] = server[m]
  BY <1>1, <1>2, <1>5 DEF TypeOK, Existing
<1>8. dirty' \subseteq Existing'
  BY <1>1, <1>2, <1>7 DEF TypeOK, Existing
<1>9. ASSUME ~setting.overlap PROVE Right(s)'
  <2>1. /\ \A m \in Name : statCache[m].ver = 0 \/ statCache[m].ver = server[m] \/ m \in dirty
        /\ FreshList => \A m \in Name : dirCache.count[m] = IF server[m] # 0 THEN 1 ELSE 0
    BY <1>2, <1>9, Beginning, NowRight
  <2>2. UNCHANGED <<setting, cacheVars>>
    BY <1>4 DEF Change
  <2>3. ASSUME FreshList, NEW m \in Name
        PROVE  dirCache.count[m] =
                 IF (server'[m] # 0 /\ ~In(s, "AddDirEntry", m)) \/ In(s, "RemoveDirEntry", m)
                 THEN 1 ELSE 0
    BY <1>6, <1>7, <2>1, <2>3
  <2>4. ASSUME NEW m \in Name
        PROVE  \/ statCache[m].ver = 0 \/ statCache[m].ver = server'[m]
               \/ m \in dirty' \/ In(s, "RemoveStat", m)
    BY <1>2, <1>6, <1>7, <2>1
  <2> QED
    BY <1>6, <1>7, <2>2, <2>3, <2>4, RightAfter
<1> QED
  BY <1>2, <1>4, <1>6, <1>7, <1>8, <1>9, ChangeKept

LEMMA ModifyKept ==
  ASSUME IInv, NEW t \in Thread, Modify(t)
  PROVE  IInv'
<1>1. PICK n \in Existing :
         /\ server' = [server EXCEPT ![n] = NewVersion]
         /\ Change(t, <<Do("RemoveStat", n, 0)>>)
  BY DEF Modify
<1>2. Begin(t) /\ dirty' = dirty /\ TypeOK
  BY DEF Modify, IInv
<1>3. PICK s : s = <<Do("RemoveStat", n, 0)>>
  OBVIOUS
<1>4. Change(t, s)
  BY <1>1, <1>3
<1>5. NewVersion \in Version /\ NewVersion # 0 /\ 0 \in Version /\ n \in Name
  BY <1>2, <1>4, NewVersionIs DEF Existing
<1>6. /\ s \in Seq(Step) /\ Shape(s) /\ ~Certain(s)
      /\ \A op, m : In(s, op, m) <=> op = "RemoveStat" /\ m = n
      /\ \A i \in DOMAIN s : s[i].op # "PutStat"
  BY <1>3, <1>5, DropStep
<1>7. /\ server' \in [Name -> Version] /\ server'[n] # 0 /\ server[n] # 0
      /\ \A m \in Name : m # n => server'[m] = server[m]
  BY <1>1, <1>2, <1>5 DEF TypeOK, Existing
<1>8. dirty' \subseteq Existing'
  BY <1>2, <1>7 DEF TypeOK, Existing
<1>9. ASSUME ~setting.overlap PROVE Right(s)'
  <2>1. /\ \A m \in Name : statCache[m].ver = 0 \/ statCache[m].ver = server[m] \/ m \in dirty
        /\ FreshList => \A m \in Name : dirCache.count[m] = IF server[m] # 0 THEN 1 ELSE 0
    BY <1>2, <1>9, Beginning, NowRight
  <2>2. UNCHANGED <<setting, cacheVars>>
    BY <1>4 DEF Change
  <2>3. \A m \in Name : /\ In(s, "RemoveStat", m) <=> m = n
                        /\ ~In(s, "RemoveDirEntry", m) /\ ~In(s, "AddDirEntry", m)
    BY <1>6
  <2> QED
    BY <1>2, <1>6, <1>7, <2>1, <2>2, <2>3, RightAfter
<1> QED
  BY <1>2, <1>4, <1>6, <1>7, <1>8, <1>9, ChangeKept

LEMMA WriteKept ==
  ASSUME IInv, NEW t \in Thread, Write(t)
  PROVE  IInv'
<1>1. PICK n \in Existing :
         server' = [server EXCEPT ![n] = NewVersion] /\ dirty' = dirty \cup {n}
  BY DEF Write
<1>2. Begin(t) /\ Change(t, <<>>) /\ TypeOK
  BY DEF Write, IInv
<1>3. NewVersion \in Version /\ NewVersion # 0 /\ n \in Name
  BY <1>2, NewVersionIs DEF Existing
<1>4. /\ server' \in [Name -> Version] /\ server'[n] # 0 /\ server[n] # 0
      /\ \A m \in Name : m # n => server'[m] = server[m]
  BY <1>1, <1>2, <1>3 DEF TypeOK, Existing
<1>5. dirty' \subseteq Existing'
  BY <1>1, <1>2, <1>4 DEF TypeOK, Existing
<1>6. ASSUME ~setting.overlap PROVE Right(<<>>)'
  <2>1. /\ \A m \in Name : statCache[m].ver = 0 \/ statCache[m].ver = server[m] \/ m \in dirty
        /\ FreshList => \A m \in Name : dirCache.count[m] = IF server[m] # 0 THEN 1 ELSE 0
    BY <1>2, <1>6, Beginning, NowRight
  <2>2. UNCHANGED <<setting, cacheVars>>
    BY <1>2 DEF Change
  <2>3. DOMAIN <<>> = {}
    OBVIOUS
  <2> QED
    BY <1>1, <1>4, <2>1, <2>2, <2>3, NothingLeft, RightAfter
<1> QED
  BY <1>2, <1>4, <1>5, <1>6, NothingLeft, ChangeKept

LEMMA FlushKept ==
  ASSUME IInv, NEW t \in Thread, Flush(t)
  PROVE  IInv'
<1>1. PICK n \in dirty : dirty' = dirty \ {n} /\ Left(t, <<Do("RemoveStat", n, 0)>>)
  BY DEF Flush
<1>2. Begin(t) /\ UNCHANGED <<setting, server, changes, cacheVars, answer>> /\ TypeOK
  BY DEF Flush, IInv
<1>3. PICK s : s = <<Do("RemoveStat", n, 0)>>
  OBVIOUS
<1>4. n \in Name /\ 0 \in Version
  BY <1>2, ZeroVersion DEF TypeOK, Existing
<1>5. /\ s \in Seq(Step) /\ Shape(s) /\ ~Certain(s)
      /\ \A op, m : In(s, op, m) <=> op = "RemoveStat" /\ m = n
      /\ \A i \in DOMAIN s : s[i].op # "PutStat"
  BY <1>3, <1>4, DropStep
<1>6. /\ server' \in [Name -> Version] /\ changes' \in 0..setting.maxChanges
      /\ dirty' \subseteq Existing' /\ pc[t] # "steps"
  BY <1>1, <1>2 DEF TypeOK, Existing, Begin
<1>7. answer' \in [Thread -> AnswerType] /\ StatRight(t)'
  BY <1>2, Beginning, SameAnswer, NoAnswerRight
<1>8. ASSUME ~setting.overlap PROVE Right(s)'
  <2>1. /\ \A m \in Name : statCache[m].ver = 0 \/ statCache[m].ver = server[m] \/ m \in dirty
        /\ FreshList => \A m \in Name : dirCache.count[m] = IF server[m] # 0 THEN 1 ELSE 0
    BY <1>2, <1>8, Beginning, NowRight
  <2>2. \A m \in Name : /\ In(s, "RemoveStat", m) <=> m = n
                        /\ ~In(s, "RemoveDirEntry", m) /\ ~In(s, "AddDirEntry", m)
    BY <1>5
  <2> QED
    BY <1>1, <1>2, <1>5, <2>1, <2>2, RightAfter
<1> QED
  BY <1>1, <1>2, <1>3, <1>5, <1>6, <1>7, <1>8, Beginning, StartKept

LEMMA ResetKept ==
  ASSUME IInv, NEW t \in Thread, Reset(t)
  PROVE  IInv'
<1>1. PICK s : s = <<Do("ReleaseStats", Dir, 0), Do("ReleaseDirs", Dir, 0)>>
  OBVIOUS
<1>2. /\ Begin(t) /\ Left(t, s) /\ TypeOK
      /\ UNCHANGED <<setting, server, changes, dirty, cacheVars, answer>>
  BY <1>1 DEF Reset, IInv, serverVars
<1>3. /\ s \in Seq(Step) /\ Shape(s) /\ ~Certain(s)
      /\ \A op, m : In(s, op, m) <=> op \in {"ReleaseStats", "ReleaseDirs"} /\ m = Dir
      /\ \A i \in DOMAIN s : s[i].op # "PutStat"
  BY <1>1, <1>2, ZeroVersion, ResetSteps
<1>4. /\ server' \in [Name -> Version] /\ changes' \in 0..setting.maxChanges
      /\ dirty' \subseteq Existing' /\ pc[t] # "steps"
  BY <1>2 DEF TypeOK, Existing, Begin
<1>5. answer' \in [Thread -> AnswerType] /\ StatRight(t)'
  BY <1>2, Beginning, SameAnswer, NoAnswerRight
<1>6. ASSUME ~setting.overlap PROVE Right(s)'
  <2>1. FreshList => \A m \in Name : dirCache.count[m] = IF server[m] # 0 THEN 1 ELSE 0
    BY <1>2, <1>6, Beginning, NowRight
  <2>2. \A m \in Name : ~In(s, "RemoveDirEntry", m) /\ ~In(s, "AddDirEntry", m)
    BY <1>3
  <2>3. In(s, "ReleaseStats", Dir)
    BY <1>3
  <2> QED
    BY <1>2, <1>3, <2>1, <2>2, <2>3, RightAfter
<1> QED
  BY <1>2, <1>3, <1>4, <1>5, <1>6, Beginning, StartKept

LEMMA ObjStatKept ==
  ASSUME IInv, NEW t \in Thread, ObjStat(t)
  PROVE  IInv'
<1>1. PICK n \in Name : n = answer[t].about
  BY DEF ObjStat, IInv, Requests
<1>2. PICK v \in Version : v = server[n]
  BY DEF IInv, TypeOK
<1>3. /\ pc[t] = "fetch" /\ Answer(t, n, v)
      /\ Left(t, IF v = 0 THEN <<>> ELSE <<Do("PutStat", n, v)>>)
      /\ UNCHANGED <<serverVars, cacheVars>>
  BY <1>1, <1>2 DEF ObjStat
<1>4. PICK s : s = IF v = 0 THEN <<>> ELSE <<Do("PutStat", n, v)>>
  OBVIOUS
<1>5. /\ s \in Seq(Step) /\ Shape(s) /\ ~Certain(s)
      /\ \A op, m : op # "PutStat" => ~In(s, op, m)
      /\ \A i \in DOMAIN s : s[i].name = n /\ s[i].ver = v
  <2>1. CASE v = 0
    <3>1. DOMAIN <<>> = {} /\ s = <<>>
      BY <1>4, <2>1
    <3> QED
      BY <3>1, NothingLeft
  <2>2. CASE v # 0
    BY <1>4, <2>2, PutStep
  <2> QED
    BY <2>1, <2>2
<1>6. UNCHANGED <<setting, server, changes, dirty, cacheVars>> /\ TypeOK /\ todo[t] = <<>>
  BY <1>3 DEF serverVars, IInv, TypeOK
<1>7. /\ answer' \in [Thread -> AnswerType]
      /\ answer'[t].about = n /\ answer'[t].ver = v
      /\ \A u \in Thread \ {t} : answer'[u] = answer[u]
  BY <1>3, <1>6, AnswerIs
<1>8. /\ server' \in [Name -> Version] /\ changes' \in 0..setting.maxChanges
      /\ dirty' \subseteq Existing'
  BY <1>6 DEF TypeOK, Existing
<1>9. ASSUME ~setting.overlap PROVE Alone(t) /\ Right(s)' /\ StatRight(t)'
  <2>1. Alone(t) /\ Right(<<>>)
    BY <1>3, <1>6, <1>9, Proceeding DEF Working
  <2>2. /\ \A m \in Name : statCache[m].ver = 0 \/ statCache[m].ver = server[m] \/ m \in dirty
        /\ FreshList => \A m \in Name : dirCache.count[m] = IF server[m] # 0 THEN 1 ELSE 0
    BY <2>1, NowRight
  <2>3. Right(s)'
    BY <1>2, <1>5, <1>6, <2>2, RightThen
  <2>4. StatRight(t)'
    BY <1>2, <1>6, <1>7 DEF StatRight
  <2> QED
    BY <2>1, <2>3, <2>4
<1> QED
  BY <1>3, <1>4, <1>5, <1>6, <1>7, <1>8, <1>9, StartKept

(* The operations that a listing of p leads to: two for each name.         *)
LEMMA ListingIs ==
  ASSUME TypeOK, NEW l \in Nat, NEW p \in [1..l -> Name],
         \A i, j \in 1..l : i # j => p[i] # p[j],
         NEW s, s = Listing(p)
  PROVE  /\ s \in Seq(Step) /\ Shape(s)
         /\ \A n : In(s, "AddDirEntry", n) <=> \E j \in 1..l : p[j] = n
         /\ \A n : ~In(s, "RemoveDirEntry", n)
         /\ \A i \in DOMAIN s : s[i].op = "PutStat" => s[i].ver = server[s[i].name]
<1>1. Len(p) = l /\ DOMAIN p = 1..l
  <2>1. p \in Seq(Name)
    BY SeqDef
  <2> QED
    BY <2>1, LenProperties
<1>2. s = [i \in 1..2 * l |->
             IF i % 2 = 1 THEN Do("PutStat", p[(i + 1) \div 2], server[p[(i + 1) \div 2]])
                          ELSE Do("AddDirEntry", p[i \div 2], 0)]
  BY <1>1 DEF Listing
<1>3. ASSUME NEW i \in 1..2 * l
      PROVE  \E j \in 1..l : \/ i = 2 * j - 1 /\ s[i] = Do("PutStat", p[j], server[p[j]])
                             \/ i = 2 * j /\ s[i] = Do("AddDirEntry", p[j], 0)
  <2>1. CASE i % 2 = 1
    <3>1. PICK j \in 1..l : j = (i + 1) \div 2 /\ i = 2 * j - 1
      BY <2>1
    <3>2. s[i] = Do("PutStat", p[j], server[p[j]])
      BY <1>2, <2>1, <3>1
    <3> QED
      BY <3>1, <3>2
  <2>2. CASE i % 2 # 1
    <3>1. PICK j \in 1..l : j = i \div 2 /\ i = 2 * j
      BY <2>2
    <3>2. s[i] = Do("AddDirEntry", p[j], 0)
      BY <1>2, <2>2, <3>1
    <3> QED
      BY <3>1, <3>2
  <2> QED
    BY <2>1, <2>2
<1>4. ASSUME NEW j \in 1..l
      PROVE  2 * j \in 1..2 * l /\ s[2 * j] = Do("AddDirEntry", p[j], 0)
  <2>1. 2 * j \in 1..2 * l /\ (2 * j) % 2 # 1 /\ (2 * j) \div 2 = j
    OBVIOUS
  <2> QED
    BY <1>2, <2>1
<1>5. ASSUME NEW j \in 1..l
      PROVE  /\ Do("PutStat", p[j], server[p[j]]) \in Step
             /\ Do("PutStat", p[j], server[p[j]]).op = "PutStat"
             /\ Do("PutStat", p[j], server[p[j]]).name = p[j]
             /\ Do("PutStat", p[j], server[p[j]]).ver = server[p[j]]
             /\ Do("AddDirEntry", p[j], 0) \in Step
             /\ Do("AddDirEntry", p[j], 0).op = "AddDirEntry"
             /\ Do("AddDirEntry", p[j], 0).name = p[j]
  <2>1. p[j] \in Name /\ server[p[j]] \in Version /\ 0 \in Version
    BY ZeroVersion DEF TypeOK
  <2> QED
    BY <2>1, DoIs DEF Kinds
<1>6. s \in [1..2 * l -> Step]
  <2>1. \A i \in 1..2 * l : s[i] \in Step
    BY <1>3, <1>5
  <2> QED
    BY <1>2, <2>1
<1>7. s \in Seq(Step) /\ DOMAIN s = 1..2 * l
  BY <1>6, SeqDef
<1>8. ASSUME NEW i \in DOMAIN s
      PROVE  \E j \in 1..l :
               /\ s[i].name = p[j] /\ p[j] \in Name
               /\ \/ i = 2 * j - 1 /\ s[i].op = "PutStat" /\ s[i].ver = server[p[j]]
                  \/ i = 2 * j /\ s[i].op = "AddDirEntry"
  <2>1. PICK j \in 1..l : \/ i = 2 * j - 1 /\ s[i] = Do("PutStat", p[j], server[p[j]])
                          \/ i = 2 * j /\ s[i] = Do("AddDirEntry", p[j], 0)
    BY <1>3, <1>7
  <2>2. p[j] \in Name
    OBVIOUS
  <2>3. CASE i = 2 * j - 1 /\ s[i] = Do("PutStat", p[j], server[p[j]])
    <3>1. s[i].name = p[j] /\ s[i].op = "PutStat" /\ s[i].ver = server[p[j]]
      BY <1>5, <2>3
    <3> QED
      BY <2>2, <2>3, <3>1
  <2>4. CASE i = 2 * j /\ s[i] = Do("AddDirEntry", p[j], 0)
    <3>1. s[i].name = p[j] /\ s[i].op = "AddDirEntry"
      BY <1>5, <2>4
    <3> QED
      BY <2>2, <2>4, <3>1
  <2> QED
    BY <2>1, <2>3, <2>4
<1>9. Shape(s)
  <2>1. ASSUME NEW i \in DOMAIN s, NEW k \in DOMAIN s, i # k,
               s[i].op \in ListOps, s[k].op \in ListOps
        PROVE  s[i].name # s[k].name
    <3>1. PICK a \in 1..l : i = 2 * a /\ s[i].name = p[a]
      BY <1>8, <2>1 DEF ListOps
    <3>2. PICK b \in 1..l : k = 2 * b /\ s[k].name = p[b]
      BY <1>8, <2>1 DEF ListOps
    <3>3. a # b
      BY <2>1, <3>1, <3>2
    <3> QED
      BY <3>1, <3>2, <3>3
  <2> QED
    BY <1>8, <2>1 DEF Shape, ListOps
<1>10. \A n : In(s, "AddDirEntry", n) <=> \E j \in 1..l : p[j] = n
  <2>1. ASSUME NEW n, In(s, "AddDirEntry", n) PROVE \E j \in 1..l : p[j] = n
    BY <1>8, <2>1 DEF In
  <2>2. ASSUME NEW j \in 1..l PROVE In(s, "AddDirEntry", p[j])
    <3>1. PICK i : i = 2 * j
      OBVIOUS
    <3>2. i \in DOMAIN s /\ s[i].op = "AddDirEntry" /\ s[i].name = p[j]
      BY <1>4, <1>5, <1>7, <3>1
    <3> QED
      BY <3>2 DEF In
  <2> QED
    BY <2>1, <2>2
<1>11. \A n : ~In(s, "RemoveDirEntry", n)
  BY <1>8 DEF In
<1> QED
  BY <1>7, <1>8, <1>9, <1>10, <1>11

(* A series of all names of a finite set has them all.                     *)
LEMMA SetToSeqsIs ==
  ASSUME NEW S, IsFiniteSet(S), NEW q \in SetToSeqs(S)
  PROVE  \E c \in Nat :
           /\ q \in [1..c -> S] /\ \A i, j \in 1..c : i # j => q[i] # q[j]
           /\ \A x \in S : \E i \in 1..c : q[i] = x
<1>1. PICK c \in Nat : c = Cardinality(S)
  BY FS_CardinalityType
<1>2. q \in [1..c -> S] /\ \A i, j \in 1..c : i # j => q[i] # q[j]
  BY <1>1 DEF SetToSeqs
<1>3. q \in Injection(1..c, S)
  BY <1>2 DEF Injection, IsInjective
<1>4. Cardinality(1..c) = c
  BY FS_Interval
<1>5. q \in Surjection(1..c, S)
  BY <1>1, <1>3, <1>4, FS_Injection
<1> QED
  BY <1>2, <1>5 DEF Surjection

LEMMA ReadCollectionKept ==
  ASSUME IInv, NEW t \in Thread, ReadCollection(t)
  PROVE  IInv'
<1>1. PICK q \in SetToSeqs(Existing) : \E k \in 0..Len(q) :
         /\ k = Len(q) \/ setting.overlap
         /\ Left(t, Listing(SubSeq(q, 1, k)))
  BY DEF ReadCollection
<1>2. PICK k \in 0..Len(q) : /\ k = Len(q) \/ setting.overlap
                             /\ Left(t, Listing(SubSeq(q, 1, k)))
  BY <1>1
<1>3. /\ pc[t] = "query" /\ TypeOK
      /\ UNCHANGED <<setting, server, changes, dirty, cacheVars, answer>>
  BY DEF ReadCollection, IInv, serverVars
<1>4. IsFiniteSet(Existing) /\ Existing \subseteq Name
  BY NameAssumption, FS_Subset DEF Existing
<1>5. PICK c \in Nat :
         /\ q \in [1..c -> Existing] /\ \A i, j \in 1..c : i # j => q[i] # q[j]
         /\ \A n \in Existing : \E i \in 1..c : q[i] = n
  BY <1>1, <1>4, SetToSeqsIs
<1>6. Len(q) = c /\ k \in Nat /\ k <= c
  <2>1. q \in Seq(Existing)
    BY <1>5, SeqDef
  <2> QED
    BY <1>5, <2>1, LenProperties
<1>7. PICK p : p = SubSeq(q, 1, k)
  OBVIOUS
<1>8. p \in [1..k -> Existing] /\ \A i \in 1..k : p[i] = q[i]
  <2>1. \A i \in 1..k : q[i] \in Existing
    BY <1>5, <1>6
  <2>2. /\ p \in Seq(Existing) /\ Len(p) = IF 1 <= k THEN k - 1 + 1 ELSE 0
        /\ \A i \in 1 .. k - 1 + 1 : p[i] = q[1 + i - 1]
    BY <1>6, <1>7, <2>1, SubSeqProperties
  <2>3. Len(p) = k
    BY <1>6, <2>2
  <2>4. \A i \in 1..k : i \in 1 .. k - 1 + 1 /\ 1 + i - 1 = i
    BY <1>6
  <2> QED
    BY <2>2, <2>3, <2>4, LenProperties
<1>9. PICK s : s = Listing(p)
  OBVIOUS
<1>10. /\ s \in Seq(Step) /\ Shape(s)
       /\ \A n : In(s, "AddDirEntry", n) <=> \E j \in 1..k : p[j] = n
       /\ \A n : ~In(s, "RemoveDirEntry", n)
       /\ \A i \in DOMAIN s : s[i].op = "PutStat" => s[i].ver = server[s[i].name]
  <2>1. p \in [1..k -> Name]
    BY <1>4, <1>8
  <2>2. \A i, j \in 1..k : i # j => p[i] # p[j]
    BY <1>5, <1>6, <1>8
  <2> QED
    BY <1>3, <1>6, <1>9, <2>1, <2>2, ListingIs
<1>11. Left(t, s)
  BY <1>2, <1>7, <1>9
<1>12. /\ answer[t] = NoAnswer /\ todo[t] = <<>>
       /\ ~setting.overlap => Working(t)
  BY <1>3, Proceeding DEF IInv, Requests, TypeOK
<1>13. answer' \in [Thread -> AnswerType] /\ StatRight(t)'
  BY <1>3, <1>12, SameAnswer, NoAnswerRight
<1>14. /\ server' \in [Name -> Version] /\ changes' \in 0..setting.maxChanges
       /\ dirty' \subseteq Existing'
  BY <1>3 DEF TypeOK, Existing
<1>15. ASSUME ~setting.overlap PROVE Alone(t) /\ Right(s)'
  <2>1. Alone(t) /\ Right(<<>>) /\ ~dirCache.held
    BY <1>3, <1>12, <1>15 DEF Working
  <2>2. \A m \in Name : statCache[m].ver = 0 \/ statCache[m].ver = server[m] \/ m \in dirty
    BY <2>1, NowRight
  <2>3. \A n \in Name : dirCache.count[n] = 0
    BY <2>1 DEF IInv, NoListIsEmpty, NoList
  <2>4. \A n \in Name : In(s, "AddDirEntry", n) <=> server[n] # 0
    <3>1. \A n \in Name : In(s, "AddDirEntry", n) <=> n \in Existing
      BY <1>2, <1>5, <1>6, <1>8, <1>10, <1>15
    <3> QED
      BY <3>1 DEF Existing
  <2>5. Right(s)'
    BY <1>3, <1>10, <2>2, <2>3, <2>4, RightThen
  <2> QED
    BY <2>1, <2>5
<1> QED
  BY <1>3, <1>10, <1>11, <1>13, <1>14, <1>15, StartKept

-----------------------------------------------------------------------------
(* Time, and all steps together.                                           *)

LEMMA OlderStat ==
  ASSUME NEW e \in StatType, NEW p \in BOOLEAN, Timeout \in Nat
  PROVE  Older(e, p) \in StatType /\ Older(e, p).ver = e.ver
<1>1. PICK v \in Version, a \in 0..Timeout + 1 : e = [ver |-> v, age |-> a]
  BY DEF StatType
<1>2. CASE p /\ a <= Timeout
  <2>1. a + 1 \in 0..Timeout + 1
    BY <1>2
  <2>2. Older(e, p) = [ver |-> v, age |-> a + 1]
    BY <1>1, <1>2 DEF Older
  <2> QED
    BY <1>1, <2>1, <2>2 DEF StatType
<1>3. CASE ~(p /\ a <= Timeout)
  BY <1>1, <1>3 DEF Older
<1> QED
  BY <1>2, <1>3

LEMMA OlderList ==
  ASSUME NEW e \in ListType, Timeout \in Nat
  PROVE  /\ Older(e, e.held) \in ListType
         /\ Older(e, e.held).held = e.held /\ Older(e, e.held).count = e.count
         /\ Older(e, e.held).age >= e.age /\ e.age \in Int /\ Older(e, e.held).age \in Int
         /\ ~e.held => Older(e, e.held) = e
<1>1. PICK h \in BOOLEAN, c \in [Name -> Nat], a \in 0..Timeout + 1 :
         e = [held |-> h, count |-> c, age |-> a]
  BY DEF ListType
<1>2. CASE h /\ a <= Timeout
  <2>1. PICK b \in 0..Timeout + 1 : b = a + 1
    BY <1>2
  <2>2. b >= a /\ a \in Int /\ b \in Int
    BY <2>1
  <2>3. PICK f \in ListType : f = [held |-> h, count |-> c, age |-> b]
    BY DEF ListType
  <2>4. e.held = h /\ e.count = c /\ e.age = a /\ f.held = h /\ f.count = c /\ f.age = b
    BY <1>1, <2>3
  <2>5. Older(e, e.held) = f
    <3>1. Older(e, e.held) = [e EXCEPT !.age = @ + 1]
      BY <1>2, <2>4 DEF Older
    <3>2. [e EXCEPT !.age = @ + 1] = [held |-> h, count |-> c, age |-> a + 1]
      BY <1>1
    <3> QED
      BY <2>1, <2>3, <3>1, <3>2
  <2> QED
    BY <1>2, <2>2, <2>4, <2>5
<1>3. CASE ~(h /\ a <= Timeout)
  <2>1. Older(e, e.held) = e /\ e.age = a /\ a \in Int /\ a >= a
    BY <1>1, <1>3 DEF Older
  <2> QED
    BY <2>1
<1> QED
  BY <1>2, <1>3

LEMMA TickKept ==
  ASSUME IInv, Tick
  PROVE  IInv'
<1>1. /\ TypeOK /\ Requests /\ NoListIsEmpty /\ Timeout \in Nat
      /\ statCache \in [Name -> StatType] /\ dirCache \in ListType
  BY SettingIs DEF IInv, TypeOK, StatType, ListType, Timeout
<1>2. UNCHANGED <<setting, server, changes, dirty, pc, todo, answer>>
  BY DEF Tick, serverVars
<1>3. statCache' \in [Name -> StatType] /\ \A n \in Name : statCache'[n].ver = statCache[n].ver
  <2>1. statCache' = [n \in Name |-> Older(statCache[n], statCache[n].ver # 0)]
    BY DEF Tick
  <2>2. ASSUME NEW n \in Name
        PROVE  /\ Older(statCache[n], statCache[n].ver # 0) \in StatType
               /\ Older(statCache[n], statCache[n].ver # 0).ver = statCache[n].ver
    <3>1. PICK p \in BOOLEAN : p <=> statCache[n].ver # 0
      OBVIOUS
    <3>2. p = (statCache[n].ver # 0)
      BY <3>1
    <3> QED
      BY <1>1, <3>2, OlderStat
  <2> QED
    BY <2>1, <2>2
<1>4. /\ dirCache' \in ListType
      /\ dirCache'.held = dirCache.held /\ dirCache'.count = dirCache.count
      /\ dirCache'.age >= dirCache.age /\ dirCache.age \in Int /\ dirCache'.age \in Int
      /\ ~dirCache.held => dirCache' = dirCache
  BY <1>1, OlderList DEF Tick
<1>5. sinceCheck' \in 0..(Timeout \div 2) + 1
  <2>1. PICK d \in Nat : d = Timeout \div 2
    BY <1>1
  <2> QED
    BY <1>1, <2>1 DEF TypeOK, Tick
<1>6. TypeOK'
  BY <1>1, <1>2, <1>3, <1>4, <1>5 DEF TypeOK, StatType, ListType, Existing, Version, Step, Timeout
<1>7. Requests' /\ NoListIsEmpty'
  BY <1>1, <1>2, <1>4 DEF Requests, Shape, NoListIsEmpty, NoList
<1>8. FreshList' => FreshList
  BY <1>1, <1>2, <1>4 DEF FreshList, Timeout
<1>9. ASSUME NEW s, Right(s) PROVE Right(s)'
  <2>1. Planned(s)' /\ StatsAre(s)'
    BY <1>2, <1>3, <1>9 DEF Right, Planned, StatsAre, In
  <2>2. ListIs(s) => ListIs(s)'
    BY <1>2, <1>4 DEF ListIs, In
  <2>3. Certain(s)' = Certain(s)
    BY DEF Certain
  <2> QED
    BY <1>4, <1>8, <1>9, <2>1, <2>2, <2>3 DEF Right
<1>10. ASSUME Serially PROVE Serially'
  <2>1. Quiet' => Right(<<>>)'
    <3>1. Quiet' => Quiet
      BY <1>2 DEF Quiet
    <3> QED
      BY <1>9, <1>10, <3>1 DEF Serially
  <2>2. ASSUME NEW t \in Thread, pc'[t] # "idle" PROVE Working(t)'
    <3>1. Working(t)
      BY <1>2, <1>10, <2>2 DEF Serially
    <3>2. PICK s : s = todo[t]
      OBVIOUS
    <3>3. Right(s)' /\ todo'[t] = s
      BY <1>2, <1>9, <3>1, <3>2 DEF Working
    <3>4. Right(todo[t])'
      BY <3>3 DEF Right, Planned, StatsAre, ListIs
    <3>5. Alone(t)' /\ StatRight(t)' = StatRight(t)
      BY <1>2, <3>1 DEF Working, Alone, StatRight
    <3> QED
      BY <1>2, <1>4, <1>8, <3>1, <3>4, <3>5 DEF Working
  <2> QED
    BY <2>1, <2>2 DEF Serially
<1> QED
  BY <1>2, <1>6, <1>7, <1>10 DEF IInv

LEMMA InitIInv == Init => IInv
<1> SUFFICES ASSUME Init PROVE IInv
  OBVIOUS
<1>1. /\ setting.timeout \in Nat /\ setting.maxChanges \in Nat /\ setting \in Setting
      /\ server \in [Name -> {0, 1}]
  BY SettingAssumption DEF Init
<1>2. 0 \in Version /\ 1 \in Version /\ Timeout \in Nat /\ 0 \in 0..Timeout + 1
  BY <1>1 DEF Version, Timeout
<1>3. \A n \in Name : server[n] \in Version
  BY <1>1, <1>2
<1>4. statCache \in [Name -> [ver : Version, age : 0..Timeout + 1]]
  BY <1>2, <1>3 DEF Init, NoStat
<1>5. dirCache \in ListType
  <2>1. NoList \in ListType
    BY <1>2 DEF NoList, ListType
  <2>2. ListOf(Existing) \in ListType
    <3>1. [n \in Name |-> IF n \in Existing THEN 1 ELSE 0] \in [Name -> Nat]
      OBVIOUS
    <3> QED
      BY <1>2, <3>1 DEF ListOf, ListType
  <2> QED
    BY <2>1, <2>2 DEF Init
<1>6. TypeOK
  <2>1. sinceCheck \in 0..(Timeout \div 2) + 1
    <3>1. PICK d \in Nat : d = Timeout \div 2
      BY <1>2
    <3> QED
      BY <3>1 DEF Init
  <2>2. server \in [Name -> Version]
    BY <1>1, <1>3
  <2>3. NoAnswer \in AnswerType
    BY <1>2 DEF NoAnswer, AnswerType
  <2>4. changes \in 0..setting.maxChanges /\ dirty \subseteq Existing
    BY <1>1 DEF Init
  <2>5. /\ todo \in [Thread -> Seq(Step)] /\ answer \in [Thread -> AnswerType]
        /\ pc \in [Thread -> {"idle", "exists", "fetch", "opened", "query", "steps", "reply"}]
        /\ \A t \in Thread : todo[t] # <<>> <=> pc[t] = "steps"
    BY <2>3, NothingLeft DEF Init
  <2> QED
    BY <1>1, <1>4, <1>5, <2>1, <2>2, <2>4, <2>5 DEF TypeOK, ListType, AnswerType
<1>7. Requests
  <2>1. \A t \in Thread : todo[t] = <<>> /\ pc[t] = "idle" /\ answer[t] = NoAnswer
    BY DEF Init
  <2> QED
    BY <2>1, NothingLeft DEF Requests
<1>8. NoListIsEmpty
  BY DEF Init, NoListIsEmpty, ListOf
<1>9. Serially
  <2>1. \A t \in Thread : pc[t] = "idle"
    BY DEF Init
  <2>2. StatsAre(<<>>)
    BY DEF Init, StatsAre, NoStat
  <2>3. FreshList => ListIs(<<>>)
    BY NothingLeft DEF Init, FreshList, NoList, ListOf, ListIs, Existing
  <2> QED
    BY <2>1, <2>2, <2>3, NothingLeft DEF Serially, Right
<1> QED
  BY <1>6, <1>7, <1>8, <1>9 DEF IInv

LEMMA NextIInv == IInv /\ [Next]_vars => IInv'
<1>1. ASSUME IInv, UNCHANGED vars PROVE IInv'
  <2>1. UNCHANGED <<setting, server, changes, dirty, statCache, dirCache, sinceCheck, pc, todo, answer>>
    BY <1>1 DEF vars, serverVars, cacheVars
  <2>2. TypeOK'
    BY <1>1, <2>1 DEF IInv, TypeOK, Existing, Version, Step, Timeout
  <2>4. Requests' /\ NoListIsEmpty'
    BY <1>1, <2>1 DEF IInv, Requests, Shape, NoListIsEmpty, NoList
  <2>3. Serially => Serially'
    BY <2>1 DEF Serially, Working, Right, Planned, StatsAre, ListIs, In, Certain, Alone, Quiet,
                FreshList, StatRight, Timeout
  <2> QED
    BY <1>1, <2>1, <2>2, <2>3, <2>4 DEF IInv
<1>2. ASSUME IInv, NEW t \in Thread, Ask(t) \/ Alter(t) \/ Proceed(t) PROVE IInv'
  <2>1. CASE Ask(t)
    BY <1>2, <2>1, GetStatKept, OpenDirKept DEF Ask
  <2>2. CASE Alter(t)
    BY <1>2, <2>2, CreateKept, UnlinkKept, RenameKept, ModifyKept, WriteKept, FlushKept,
       ResetKept DEF Alter
  <2>3. CASE Proceed(t)
    BY <1>2, <2>3, CheckExistenceKept, ObjStatKept, ObjStatFailsKept, ReadDirKept,
       ReadCollectionKept, CacheStepKept, ReplyKept DEF Proceed
  <2> QED
    BY <1>2, <2>1, <2>2, <2>3
<1> QED
  BY <1>1, <1>2, TickKept DEF Next

THEOREM Invariance == Spec => []IInv
  BY InitIInv, NextIInv, PTL DEF Spec

-----------------------------------------------------------------------------
(* What follows from the invariant.                                        *)

(* Every variable has its type, also when requests overlap.                *)
THEOREM TypeCorrect == Spec => []TypeOK
<1>1. IInv => TypeOK
  BY DEF IInv
<1> QED
  BY <1>1, Invariance, PTL

(* A fresh list of a directory that only one request at a time looks at or *)
(* changes has each of its names once, and no other.                       *)
THEOREM ListsAreExact == Spec => []ListExact
<1>1. IInv => ListExact
  <2> SUFFICES ASSUME IInv, ~setting.overlap, Quiet, FreshList
               PROVE  dirCache.count = ListOf(Existing).count
    BY DEF ListExact
  <2>1. Right(<<>>)
    BY DEF IInv, Serially
  <2>2. \A n \in Name : dirCache.count[n] = IF server[n] # 0 THEN 1 ELSE 0
    BY <2>1, NowRight
  <2>3. dirCache.count \in [Name -> Nat]
    BY DEF IInv, TypeOK
  <2>4. ListOf(Existing).count = [n \in Name |-> IF n \in Existing THEN 1 ELSE 0]
    BY DEF ListOf
  <2> QED
    BY <2>2, <2>3, <2>4 DEF Existing
<1> QED
  BY <1>1, Invariance, PTL

(* The stat that such a request returns is that of the server, but for a   *)
(* file with writes that no flush or close has followed, and as long as no *)
(* expired list is kept.                                                   *)
THEOREM StatsAreTrue == Spec => []StatTrueIfListFresh
<1>1. IInv => StatTrueIfListFresh
  BY DEF IInv, Serially, Working, StatTrueIfListFresh
<1> QED
  BY <1>1, Invariance, PTL
=============================================================================
