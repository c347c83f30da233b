-------------------------- MODULE ApiTimeoutProofs --------------------------
(***************************************************************************)
(* The lock order of iFuse.Lib.Conn.cpp, proved for any number of requests *)
(* and connections, with and without faults, and whatever the C library    *)
(* makes of a stray unlock.                                                *)
(***************************************************************************)
EXTENDS ApiTimeout, TLAPS

(* Where a thread may hold the lock of a connection, and of which one.     *)
MayHold == {"start", "calling", "reconnect", "rejoin", "unlock", "ping"}

Holders ==
    \A t \in Thread, c \in Conn :
        owner[c] = t => conn[t] = c /\ pc[t] \in MayHold

LInv ==
    /\ pc \in [Thread -> Places \cup TimerPlaces]
    /\ conn = [t \in Thread |-> conn[t]]
    /\ owner \in [Conn -> Thread \cup {Nobody}]
    /\ \A t \in Req : pc[t] \notin TimerPlaces
    /\ pc[Timer] \in TimerPlaces
    /\ Holders

(* A thread never waits for the pool lock while it holds the lock of a     *)
(* connection: LInv says which lock a thread may hold at which place.      *)
LEMMA LInvLockOrder == LInv => LockOrder
  BY DEF LInv, LockOrder, Holders, MayHold, NeedsPool

LEMMA InitLInv == Init => LInv
  BY ThreadAssumption
     DEF Init, LInv, Holders, Thread, Places, TimerPlaces

(* A step of one thread that changes no lock and no connection keeps LInv  *)
(* when it leaves a place where it may hold one only for another such.     *)
LEMMA MoveLInv ==
  ASSUME LInv, NEW t \in Thread, NEW l \in Places \cup TimerPlaces,
         Goto(t, l), UNCHANGED <<conn, owner>>,
         l \in TimerPlaces <=> t = Timer,
         pc[t] \in MayHold => l \in MayHold
  PROVE  LInv'
  BY ThreadAssumption DEF LInv, Holders, Goto, Thread

(* A step that releases the lock of a connection, or nothing, keeps LInv   *)
(* when its thread held at most that lock.                                 *)
LEMMA ReleaseLInv ==
  ASSUME LInv, NEW t \in Thread, NEW l \in Places \cup TimerPlaces,
         Goto(t, l), Release(t, conn[t]),
         conn' \in {conn, [conn EXCEPT ![t] = NoConn]},
         l \in TimerPlaces <=> t = Timer
  PROVE  LInv'
<1>1. CASE owner[conn[t]] = t
  <2>1. owner' = [owner EXCEPT ![conn[t]] = Nobody]
    BY <1>1 DEF Release
  <2>2. \A c \in Conn : owner'[c] # t
    BY <2>1, ThreadAssumption DEF LInv, Holders, Thread
  <2>3. \A c \in Conn, u \in Thread : owner'[c] = u => owner[c] = u /\ u # t
    BY <2>1, <2>2, ThreadAssumption DEF LInv, Thread
  <2>4. Holders'
    BY <2>3 DEF LInv, Holders, Goto
  <2> QED
    BY <2>1, <2>4, ThreadAssumption DEF LInv, Goto, Thread
<1>2. CASE owner[conn[t]] # t
  <2>1. \A c \in Conn : owner[c] # t
    BY <1>2 DEF LInv, Holders
  <2>2. \/ owner' = owner
        \/ owner' = [owner EXCEPT ![conn[t]] = Nobody]
    BY <1>2 DEF Release
  <2> QED
    BY <2>1, <2>2, ThreadAssumption DEF LInv, Holders, Goto, Thread
<1> QED
  BY <1>1, <1>2

LEMMA RequestLInv ==
  ASSUME LInv, NEW t \in Req, Request(t)
  PROVE  LInv'
<1> USE ThreadAssumption DEF Thread
<1>1. CASE Get(t)
  <2>1. PICK c \in Conn, l \in {"connect", "use"} :
           conn' = [conn EXCEPT ![t] = c] /\ Goto(t, l)
    BY <1>1 DEF Get
  <2>2. \A d \in Conn : owner[d] # t
    BY <1>1 DEF Get, LInv, Holders, MayHold
  <2> QED
    BY <1>1, <2>1, <2>2 DEF Get, Goto, LInv, Holders, Places, TimerPlaces
<1>2. CASE Use(t) \/ Unuse(t)
  BY <1>2, MoveLInv DEF Use, Unuse, MayHold, Places, TimerPlaces
<1>3. CASE Lock(t)
  <2>1. owner[conn[t]] = Nobody /\ pc[t] = "lock"
    BY <1>3 DEF Lock, Grantable
  <2>2. owner' = [owner EXCEPT ![conn[t]] = t] /\ UNCHANGED conn
    BY <1>3 DEF Lock
  <2>3. pc' = [pc EXCEPT ![t] = "start"]
    BY <1>3 DEF Lock, Goto
  <2>4. \A c \in Conn : owner[c] # t
    BY <2>1 DEF LInv, Holders, MayHold
  <2>5. \A c \in Conn : owner'[c] = IF c = conn[t] THEN t ELSE owner[c]
    BY <2>2 DEF LInv
  <2>6. Holders'
    BY <2>2, <2>3, <2>4, <2>5 DEF LInv, Holders, MayHold
  <2> QED
    BY <2>2, <2>3, <2>6 DEF LInv, Places, TimerPlaces
<1>4. CASE Call(t)
  BY <1>4, MoveLInv DEF Call, lockVars, MayHold, Places, TimerPlaces
<1>5. CASE Answer(t) \/ CutOff(t)
  <2>1. \E l \in {"unlock", "reconnect"} : Goto(t, l)
    BY <1>5 DEF Answer, CutOff, MessageError
  <2>2. UNCHANGED <<conn, owner>>
    BY <1>5 DEF Answer, CutOff, lockVars
  <2> QED
    BY <2>1, <2>2, MoveLInv DEF MayHold, Places, TimerPlaces
<1>6. CASE Reconnect(t)
  <2>1. pc' = [pc EXCEPT ![t] = "rejoin"] /\ UNCHANGED conn
    BY <1>6 DEF Reconnect, Goto
  <2>2. \A c \in Conn : owner'[c] = IF c = conn[t] THEN t ELSE owner[c]
    BY <1>6 DEF Reconnect, LInv
  <2>3. Holders'
    BY <2>1, <2>2 DEF LInv, Holders, MayHold
  <2> QED
    BY <1>6, <2>1, <2>3 DEF Reconnect, LInv, Places, TimerPlaces
<1>7. CASE Unlock(t)
  BY <1>7, ReleaseLInv DEF Unlock, Places, TimerPlaces
<1>8. CASE PutBack(t)
  <2>1. \A c \in Conn : owner[c] # t
    BY <1>8 DEF PutBack, LInv, Holders, MayHold
  <2> QED
    BY <1>8, <2>1 DEF PutBack, Goto, LInv, Holders, Places, TimerPlaces
<1>9. CASE Connected(t)
  <2>1. \A c \in Conn : owner[c] # t
    BY <1>9 DEF Connected, LInv, Holders, MayHold
  <2>2. PICK l \in {"lock", "idle"} : Goto(t, l)
    BY <1>9 DEF Connected
  <2>3. conn' = conn \/ conn' = [conn EXCEPT ![t] = NoConn]
    BY <1>9 DEF Connected
  <2>4. UNCHANGED owner
    BY <1>9 DEF Connected
  <2> QED
    BY <2>1, <2>2, <2>3, <2>4 DEF Goto, LInv, Holders, Places, TimerPlaces
<1>10. CASE Rejoin(t)
  <2>1. PICK l \in {"start", "unlock"} : Goto(t, l)
    BY <1>10 DEF Rejoin
  <2> QED
    BY <1>10, <2>1, ReleaseLInv DEF Rejoin, Places, TimerPlaces
<1> QED
  BY <1>1, <1>2, <1>3, <1>4, <1>5, <1>6, <1>7, <1>8, <1>9, <1>10
     DEF Request, Proceed, Connect

LEMMA TimerLInv ==
  ASSUME LInv, TimerProceed \/ Pong
  PROVE  LInv'
<1> USE ThreadAssumption DEF Thread
<1>1. CASE CheckTimeouts
  BY <1>1, MoveLInv DEF CheckTimeouts, lockVars, MayHold, TimerPlaces
<1>2. CASE NotYet
  BY <1>2, MoveLInv DEF NotYet, lockVars, MayHold, TimerPlaces
<1>3. CASE BeginKeepAlive
  BY <1>3, MoveLInv DEF BeginKeepAlive, MayHold, TimerPlaces
<1>4. CASE Visit
  <2>1. PICK c \in due :
          /\ owner[c] = Nobody
          /\ owner' = [owner EXCEPT ![c] = Timer]
          /\ conn' = [conn EXCEPT ![Timer] = c]
    BY <1>4 DEF Visit, Grantable
  <2>2. pc' = [pc EXCEPT ![Timer] = "ping"] /\ pc[Timer] = "visit"
    BY <1>4 DEF Visit, Goto
  <2>3. \A d \in Conn : owner[d] # Timer
    BY <2>2 DEF LInv, Holders, MayHold
  <2> QED
    BY <2>1, <2>2, <2>3 DEF LInv, Holders, MayHold, TimerPlaces
<1>5. CASE EndKeepAlive
  BY <1>5, MoveLInv DEF EndKeepAlive, MayHold, TimerPlaces
<1>6. CASE ReapIdle
  BY <1>6, MoveLInv DEF ReapIdle, lockVars, MayHold, TimerPlaces
<1>7. CASE Pong
  BY <1>7, ReleaseLInv DEF Pong, TimerPlaces
<1> QED
  BY <1>1, <1>2, <1>3, <1>4, <1>5, <1>6, <1>7 DEF TimerProceed

(* LInv holds in every state the threads reach.                            *)
THEOREM LockInvariant == Spec => []LInv
<1>1. LInv /\ [Next]_vars => LInv'
  <2> SUFFICES ASSUME LInv, [Next]_vars PROVE LInv'
    OBVIOUS
  <2>1. CASE \E t \in Req : Request(t)
    BY <2>1, RequestLInv
  <2>2. CASE TimerProceed \/ Pong
    BY <2>2, TimerLInv
  <2>3. CASE Tick
    BY <2>3 DEF Tick, lockVars, LInv, Holders
  <2>4. CASE UNCHANGED vars
    BY <2>4 DEF vars, LInv, Holders
  <2> QED
    BY <2>1, <2>2, <2>3, <2>4 DEF Next
<1> QED
  BY <1>1, InitLInv, PTL DEF Spec

(* No thread waits for the pool lock while it holds a connection's lock:   *)
(* the order iFuse.Lib.Conn.cpp declares is kept on every path, also after *)
(* the reconnect that gives the lock away.                                 *)
THEOREM LockOrderKept == Spec => []LockOrder
  BY LockInvariant, LInvLockOrder, PTL

-----------------------------------------------------------------------------
(* Types.                                                                  *)

(* What TypeOK says of the variables that are not about where threads are. *)
LockTypes ==
    /\ pool \in Thread \cup {Nobody}
    /\ owner \in [Conn -> Thread \cup {Nobody}]
    /\ broken \subseteq Conn
WatchTypes ==
    /\ age \in [Thread -> 0..Timeout]
    /\ cut \subseteq Conn
    /\ checkDue \in BOOLEAN /\ connDue \in BOOLEAN
OtherTypes == due \subseteq Conn /\ retried \subseteq Req

(* A step of thread t to place l.                                          *)
LEMMA MoveTypes ==
  ASSUME TypeOK, NEW t \in Thread, NEW l \in Places \cup TimerPlaces,
         Goto(t, l), l \in TimerPlaces <=> t = Timer,
         NEW c \in Conn \cup {NoConn}, conn' = [conn EXCEPT ![t] = c],
         c = NoConn <=> l \in Unconnected,
         registered' \subseteq registered \cup {t},
         t \in registered' => l \in InCall,
         LockTypes', WatchTypes', OtherTypes'
  PROVE  TypeOK'
<1>1. pc' \in [Thread -> Places \cup TimerPlaces] /\ setting' \in Setting
  BY DEF TypeOK, Goto
<1>2. \A u \in Thread : pc'[u] = IF u = t THEN l ELSE pc[u]
  BY DEF TypeOK, Goto
<1>3. /\ conn' \in [Thread -> Conn \cup {NoConn}]
      /\ \A u \in Thread : conn'[u] = IF u = t THEN c ELSE conn[u]
  BY DEF TypeOK
<1>4. registered' \subseteq {u \in Thread : pc'[u] \in InCall}
  BY <1>2 DEF TypeOK
<1> QED
  BY <1>1, <1>2, <1>3, <1>4 DEF TypeOK, LockTypes, WatchTypes, OtherTypes

(* The same when the thread keeps its connection.                          *)
LEMMA StayTypes ==
  ASSUME TypeOK, NEW t \in Thread, NEW l \in Places \cup TimerPlaces,
         Goto(t, l), l \in TimerPlaces <=> t = Timer,
         UNCHANGED conn, l \in Unconnected <=> pc[t] \in Unconnected,
         registered' \subseteq registered \cup {t},
         t \in registered' => l \in InCall,
         LockTypes', WatchTypes', OtherTypes'
  PROVE  TypeOK'
<1>1. /\ conn[t] \in Conn \cup {NoConn}
      /\ conn' = [conn EXCEPT ![t] = conn[t]]
      /\ conn[t] = NoConn <=> l \in Unconnected
  BY DEF TypeOK
<1> QED
  BY <1>1, MoveTypes

(* A thread that makes a call or holds a lock has a connection.            *)
LEMMA HasConn ==
  ASSUME TypeOK, NEW t \in Thread, pc[t] \notin Unconnected
  PROVE  conn[t] \in Conn
  BY ConnAssumption DEF TypeOK

LEMMA KeptTypes ==
  ASSUME TypeOK
  PROVE  /\ UNCHANGED lockVars => LockTypes'
         /\ UNCHANGED <<owner, broken>> /\ pool' \in Thread \cup {Nobody} => LockTypes'
         /\ UNCHANGED watchVars => WatchTypes'
         /\ UNCHANGED <<due, retried>> => OtherTypes'
  BY DEF TypeOK, LockTypes, WatchTypes, OtherTypes, lockVars, watchVars

(* Locking and unlocking a connection, starting and ending a call.         *)
LEMMA LockTypesKept ==
  ASSUME TypeOK, NEW t \in Thread, NEW c \in Conn, UNCHANGED pool,
         \/ owner' = [owner EXCEPT ![c] = t] /\ UNCHANGED broken
         \/ Release(t, c)
  PROVE  LockTypes'
<1>1. \/ owner' = [owner EXCEPT ![c] = t] /\ UNCHANGED broken
      \/ owner' = [owner EXCEPT ![c] = Nobody] /\ UNCHANGED broken
      \/ UNCHANGED owner /\ broken' = broken \cup {c}
      \/ UNCHANGED <<owner, broken>>
  BY DEF Release
<1> QED
  BY <1>1 DEF TypeOK, LockTypes

LEMMA WatchTypesKept ==
  ASSUME TypeOK, NEW t \in Thread, StartOperation(t) \/ EndOperation(t),
         UNCHANGED <<cut, checkDue, connDue>>
  PROVE  WatchTypes'
<1>1. age' = [age EXCEPT ![t] = 0]
  BY DEF StartOperation, EndOperation
<1>2. 0 \in 0..Timeout
  BY TimeoutAssumption
<1> QED
  BY <1>1, <1>2 DEF TypeOK, WatchTypes

LEMMA RequestTypes ==
  ASSUME TypeOK, NEW t \in Req, Request(t)
  PROVE  TypeOK'
<1> USE ThreadAssumption DEF Places, TimerPlaces, Unconnected, InCall
<1>0. t \in Thread /\ t # Timer
  BY DEF Thread
<1>1. CASE Get(t)
  <2>1. PICK c \in Conn, l \in {"connect", "use"} :
           conn' = [conn EXCEPT ![t] = c] /\ Goto(t, l)
    BY <1>1 DEF Get
  <2>2. t \notin registered'
    BY <1>1 DEF Get, TypeOK, watchVars
  <2>3. LockTypes' /\ WatchTypes' /\ OtherTypes'
    BY <1>0, <1>1, KeptTypes DEF Get, OtherTypes, TypeOK
  <2> QED
    BY <1>0, <1>1, <2>1, <2>2, <2>3, MoveTypes, ConnAssumption DEF Get, watchVars
<1>2. CASE Use(t)
  <2>1. t \notin registered'
    BY <1>2 DEF Use, TypeOK, watchVars
  <2> QED
    BY <1>0, <1>2, <2>1, StayTypes, KeptTypes DEF Use, watchVars
<1>3. CASE Connected(t)
  <2>1. PICK l \in {"lock", "idle"} : Goto(t, l)
                 /\ conn' = IF l = "lock" THEN conn ELSE [conn EXCEPT ![t] = NoConn]
    BY <1>3 DEF Connected
  <2>2. t \notin registered' /\ registered' = registered
    BY <1>3 DEF Connected, TypeOK
  <2>3. LockTypes' /\ WatchTypes' /\ OtherTypes'
    BY <1>3 DEF Connected, TypeOK, LockTypes, WatchTypes, OtherTypes
  <2>4. CASE l = "lock"
    BY <1>0, <1>3, <2>1, <2>2, <2>3, <2>4, StayTypes DEF Connected
  <2>5. CASE l = "idle"
    BY <1>0, <1>3, <2>1, <2>2, <2>3, <2>5, MoveTypes DEF Connected
  <2> QED
    BY <2>1, <2>4, <2>5
<1>4. CASE Lock(t)
  <2>1. t \notin registered' /\ registered' = registered
    BY <1>4 DEF Lock, TypeOK, watchVars
  <2>2. LockTypes'
    BY <1>0, <1>4, LockTypesKept, HasConn DEF Lock
  <2> QED
    BY <1>0, <1>4, <2>1, <2>2, StayTypes, KeptTypes DEF Lock
<1>5. CASE Call(t)
  <2>1. WatchTypes'
    BY <1>0, <1>5, WatchTypesKept DEF Call
  <2> QED
    BY <1>0, <1>5, <2>1, StayTypes, KeptTypes DEF Call, StartOperation
<1>6. CASE Answer(t) \/ CutOff(t)
  <2>1. PICK l \in {"unlock", "reconnect"} : Goto(t, l)
    BY <1>6 DEF Answer, CutOff, MessageError
  <2>2. EndOperation(t)
    BY <1>6 DEF Answer, CutOff, MessageError
  <2>3. /\ UNCHANGED <<conn, due, retried, cut, checkDue, connDue>>
        /\ UNCHANGED lockVars /\ pc[t] = "calling"
    BY <1>6 DEF Answer, CutOff
  <2>4. WatchTypes'
    BY <1>0, <2>2, <2>3, WatchTypesKept
  <2> QED
    BY <1>0, <2>1, <2>2, <2>3, <2>4, StayTypes, KeptTypes DEF EndOperation
<1>7. CASE Reconnect(t)
  <2>1. t \notin registered' /\ registered' = registered
    BY <1>7 DEF Reconnect, TypeOK, watchVars
  <2>2. LockTypes'
    BY <1>0, <1>7, LockTypesKept, HasConn DEF Reconnect
  <2> QED
    BY <1>0, <1>7, <2>1, <2>2, StayTypes, KeptTypes DEF Reconnect
<1>8. CASE Rejoin(t)
  <2>1. PICK l \in {"start", "unlock"} : Goto(t, l)
    BY <1>8 DEF Rejoin
  <2>2. t \notin registered' /\ registered' = registered
    BY <1>8 DEF Rejoin, TypeOK
  <2>3. LockTypes'
    BY <1>0, <1>8, LockTypesKept, HasConn DEF Rejoin
  <2>4. WatchTypes' /\ OtherTypes'
    BY <1>8 DEF Rejoin, TypeOK, WatchTypes, OtherTypes
  <2> QED
    BY <1>0, <1>8, <2>1, <2>2, <2>3, <2>4, StayTypes DEF Rejoin
<1>9. CASE Unlock(t)
  <2>1. t \notin registered' /\ registered' = registered
    BY <1>9 DEF Unlock, TypeOK, watchVars
  <2>2. LockTypes'
    BY <1>0, <1>9, LockTypesKept, HasConn DEF Unlock
  <2> QED
    BY <1>0, <1>9, <2>1, <2>2, StayTypes, KeptTypes DEF Unlock
<1>10. CASE Unuse(t)
  <2>1. t \notin registered' /\ registered' = registered
    BY <1>10 DEF Unuse, TypeOK, watchVars
  <2> QED
    BY <1>0, <1>10, <2>1, StayTypes, KeptTypes DEF Unuse
<1>11. CASE PutBack(t)
  <2>1. t \notin registered' /\ registered' = registered
    BY <1>11 DEF PutBack, TypeOK, watchVars
  <2> QED
    BY <1>0, <1>11, <2>1, MoveTypes, KeptTypes DEF PutBack
<1> QED
  BY <1>1, <1>2, <1>3, <1>4, <1>5, <1>6, <1>7, <1>8, <1>9, <1>10, <1>11
     DEF Request, Proceed, Connect

LEMMA TimerTypes ==
  ASSUME TypeOK, TimerProceed \/ Pong
  PROVE  TypeOK'
<1> USE ThreadAssumption DEF Places, TimerPlaces, Unconnected, InCall
<1>0. Timer \in Thread
  BY DEF Thread
<1>1. CASE CheckTimeouts
  <2>1. /\ registered' \subseteq registered
        /\ Timer \notin registered' /\ pc[Timer] = "check"
        /\ UNCHANGED <<conn, due, retried>> /\ UNCHANGED lockVars
        /\ Goto(Timer, "conn")
    BY <1>1 DEF CheckTimeouts, TypeOK
  <2>2. \A t \in Overdue : conn[t] \in Conn
    BY HasConn DEF Overdue, TypeOK
  <2>3. cut' \subseteq Conn
    BY <1>1, <2>2 DEF CheckTimeouts, TypeOK
  <2>4. WatchTypes'
    BY <1>1, <2>3 DEF CheckTimeouts, TypeOK, WatchTypes
  <2> QED
    BY <1>0, <2>1, <2>4, StayTypes, KeptTypes
<1>2. CASE NotYet
  <2>1. Timer \notin registered'
    BY <1>2 DEF NotYet, TypeOK, watchVars
  <2> QED
    BY <1>0, <1>2, <2>1, StayTypes, KeptTypes DEF NotYet, watchVars
<1>3. CASE BeginKeepAlive
  <2>1. Timer \notin registered' /\ registered' = registered
    BY <1>3 DEF BeginKeepAlive, TypeOK, watchVars
  <2>2. OtherTypes'
    BY <1>3 DEF BeginKeepAlive, TypeOK, OtherTypes
  <2> QED
    BY <1>0, <1>3, <2>1, <2>2, StayTypes, KeptTypes DEF BeginKeepAlive
<1>4. CASE Visit
  <2>1. PICK c \in due :
          /\ owner' = [owner EXCEPT ![c] = Timer]
          /\ conn' = [conn EXCEPT ![Timer] = c]
          /\ due' = due \ {c}
    BY <1>4 DEF Visit
  <2>2. c \in Conn /\ c # NoConn
    BY ConnAssumption DEF TypeOK
  <2>3. LockTypes'
    BY <1>0, <1>4, <2>1, <2>2, LockTypesKept DEF Visit
  <2>4. WatchTypes'
    BY <1>0, <1>4, WatchTypesKept DEF Visit
  <2>5. OtherTypes'
    BY <1>4, <2>1 DEF Visit, TypeOK, OtherTypes
  <2> QED
    BY <1>0, <1>4, <2>1, <2>2, <2>3, <2>4, <2>5, MoveTypes DEF Visit, StartOperation
<1>5. CASE Pong
  <2>1. LockTypes'
    BY <1>0, <1>5, LockTypesKept, HasConn DEF Pong
  <2>2. WatchTypes'
    BY <1>0, <1>5, WatchTypesKept DEF Pong
  <2> QED
    BY <1>0, <1>5, <2>1, <2>2, MoveTypes, KeptTypes DEF Pong, EndOperation
<1>6. CASE EndKeepAlive
  <2>1. Timer \notin registered' /\ registered' = registered
    BY <1>6 DEF EndKeepAlive, TypeOK, watchVars
  <2> QED
    BY <1>0, <1>6, <2>1, StayTypes, KeptTypes DEF EndKeepAlive
<1>7. CASE ReapIdle
  <2>1. Timer \notin registered' /\ registered' = registered
    BY <1>7 DEF ReapIdle, TypeOK
  <2>2. WatchTypes'
    BY <1>7 DEF ReapIdle, TypeOK, WatchTypes
  <2> QED
    BY <1>0, <1>7, <2>1, <2>2, StayTypes, KeptTypes DEF ReapIdle
<1> QED
  BY <1>1, <1>2, <1>3, <1>4, <1>5, <1>6, <1>7 DEF TimerProceed

(* Every variable has its type; a thread is at a place of its kind, with a *)
(* connection exactly where it works with one; g_Operations holds running  *)
(* calls only, whatever the watchdog has removed.                          *)
THEOREM TypeCorrect == Spec => []TypeOK
<1>1. Init => TypeOK
  <2> SUFFICES ASSUME Init PROVE TypeOK
    OBVIOUS
  <2>1. /\ pc \in [Thread -> Places \cup TimerPlaces]
        /\ \A t \in Thread : pc[t] \in TimerPlaces <=> t = Timer
        /\ \A t \in Thread : pc[t] \in Unconnected
    BY DEF Init, Places, TimerPlaces, Unconnected
  <2>2. age \in [Thread -> 0..Timeout]
    BY TimeoutAssumption DEF Init
  <2> QED
    BY <2>1, <2>2 DEF Init, TypeOK
<1>2. TypeOK /\ [Next]_vars => TypeOK'
  <2> SUFFICES ASSUME TypeOK, [Next]_vars PROVE TypeOK'
    OBVIOUS
  <2>1. CASE \E t \in Req : Request(t)
    BY <2>1, RequestTypes
  <2>2. CASE TimerProceed \/ Pong
    BY <2>2, TimerTypes
  <2>3. CASE Tick
    <3>1. age' \in [Thread -> 0..Timeout]
      BY <2>3, TimeoutAssumption DEF Tick, TypeOK
    <3> QED
      BY <2>3, <3>1 DEF Tick, lockVars, TypeOK
  <2>4. CASE UNCHANGED vars
    BY <2>4 DEF vars, TypeOK
  <2> QED
    BY <2>1, <2>2, <2>3, <2>4 DEF Next
<1> QED
  BY <1>1, <1>2, PTL DEF Spec

-----------------------------------------------------------------------------
(* One exchange at a time.                                                 *)

(* Without faults nobody reconnects, so whoever may hold a lock does.      *)
Held ==
    Calm => \A t \in Thread :
        pc[t] \in MayHold => pc[t] \notin {"reconnect", "rejoin"} /\ owner[conn[t]] = t

LEMMA HeldOneCall == TypeOK /\ Held => OneCallAtATime
  BY DEF Held, OneCallAtATime, InCall, MayHold

(* A step to a place where no lock is needed, that takes none away.        *)
LEMMA FreeHeld ==
  ASSUME TypeOK, Held, NEW t \in Thread, NEW l, Goto(t, l), l \notin MayHold,
         UNCHANGED owner, \A u \in Thread : u # t => conn'[u] = conn[u]
  PROVE  Held'
  BY DEF TypeOK, Held, Goto, Calm, Faults

(* A step of a thread that keeps its lock.                                 *)
LEMMA KeepHeld ==
  ASSUME TypeOK, Held, NEW t \in Thread, NEW l, Goto(t, l),
         UNCHANGED <<owner, conn>>, Calm => pc[t] \in MayHold /\ l \notin {"reconnect", "rejoin"}
  PROVE  Held'
  BY DEF TypeOK, Held, Goto, Calm, Faults

(* A lock that is free can be taken.                                       *)
LEMMA TakeHeld ==
  ASSUME TypeOK, Held, NEW t \in Thread, NEW l \in {"start", "ping"}, Goto(t, l),
         NEW c \in Conn, Grantable(c), owner' = [owner EXCEPT ![c] = t],
         conn' = [conn EXCEPT ![t] = c]
  PROVE  Held'
<1>1. SUFFICES ASSUME Calm, NEW u \in Thread, pc'[u] \in MayHold
               PROVE  pc'[u] \notin {"reconnect", "rejoin"} /\ owner'[conn'[u]] = u
  BY DEF Held, Calm, Faults, Goto
<1>2. CASE u = t
  BY <1>2 DEF TypeOK, Goto
<1>3. CASE u # t
  <2>1. pc[u] \in MayHold /\ pc'[u] = pc[u] /\ conn'[u] = conn[u]
    BY <1>1, <1>3 DEF TypeOK, Goto
  <2>2. owner[conn[u]] = u
    BY <1>1, <2>1 DEF Held
  <2>3. conn[u] # c
    BY <2>2, ThreadAssumption DEF Grantable, Thread
  <2> QED
    BY <1>1, <2>1, <2>2, <2>3 DEF Held, TypeOK
<1> QED
  BY <1>2, <1>3

(* A thread that unlocks its connection takes no other thread's lock.      *)
LEMMA LeaveHeld ==
  ASSUME TypeOK, Held, NEW t \in Thread, NEW l, l \notin MayHold, Goto(t, l),
         pc[t] \in MayHold, Release(t, conn[t]),
         \A u \in Thread : u # t => conn'[u] = conn[u]
  PROVE  Held'
<1>1. SUFFICES ASSUME Calm, NEW u \in Thread, pc'[u] \in MayHold
               PROVE  pc'[u] \notin {"reconnect", "rejoin"} /\ owner'[conn'[u]] = u
  BY DEF Held, Calm, Faults, Goto
<1>2. owner[conn[t]] = t /\ owner' = [owner EXCEPT ![conn[t]] = Nobody]
  BY <1>1 DEF Held, Release
<1>3. u # t /\ pc'[u] = pc[u] /\ conn'[u] = conn[u]
  BY <1>1 DEF TypeOK, Goto
<1>4. owner[conn[u]] = u /\ conn[u] # conn[t] /\ pc[u] \notin {"reconnect", "rejoin"}
  BY <1>1, <1>2, <1>3 DEF Held
<1> QED
  BY <1>2, <1>3, <1>4 DEF TypeOK

LEMMA NextHeld == TypeOK /\ Held /\ [Next]_vars => Held'
<1> SUFFICES ASSUME TypeOK, Held, [Next]_vars PROVE Held'
  OBVIOUS
<1> USE DEF MayHold
<1>1. ASSUME NEW t \in Req, Request(t) PROVE Held'
  <2>0. t \in Thread
    BY DEF Thread
  <2>1. CASE Get(t)
    <3>1. PICK l \in {"connect", "use"} : Goto(t, l)
      BY <2>1 DEF Get
    <3>2. UNCHANGED owner /\ \A u \in Thread : u # t => conn'[u] = conn[u]
      BY <2>1 DEF Get, TypeOK
    <3> QED
      BY <2>0, <3>1, <3>2, FreeHeld
  <2>2. CASE Use(t) \/ Unuse(t)
    BY <2>0, <2>2, FreeHeld DEF Use, Unuse
  <2>3. CASE Connected(t)
    <3>1. PICK l \in {"lock", "idle"} : Goto(t, l)
      BY <2>3 DEF Connected
    <3>2. UNCHANGED owner /\ \A u \in Thread : u # t => conn'[u] = conn[u]
      BY <2>3 DEF Connected, TypeOK
    <3> QED
      BY <2>0, <3>1, <3>2, FreeHeld
  <2>4. CASE Lock(t)
    <3>1. conn' = [conn EXCEPT ![t] = conn[t]]
      BY <2>4 DEF Lock, TypeOK
    <3>2. conn[t] \in Conn
      BY <2>0, <2>4, HasConn DEF Lock, Unconnected
    <3> QED
      BY <2>0, <2>4, <3>1, <3>2, TakeHeld DEF Lock
  <2>5. CASE Call(t)
    BY <2>0, <2>5, KeepHeld DEF Call, lockVars
  <2>6. CASE Answer(t) \/ CutOff(t)
    <3>1. PICK l \in {"unlock", "reconnect"} : Goto(t, l) /\ (Calm => l = "unlock")
      BY <2>6 DEF Answer, CutOff, MessageError, Calm
    <3>2. UNCHANGED <<owner, conn>> /\ pc[t] = "calling"
      BY <2>6 DEF Answer, CutOff, lockVars
    <3> QED
      BY <2>0, <3>1, <3>2, KeepHeld
  <2>7. CASE Reconnect(t) \/ Rejoin(t)
    <3>1. ~Calm /\ UNCHANGED setting
      BY <2>0, <2>7 DEF Reconnect, Rejoin, Held, Goto
    <3> QED
      BY <3>1 DEF Held, Calm, Faults
  <2>8. CASE Unlock(t)
    BY <2>0, <2>8, LeaveHeld DEF Unlock
  <2>9. CASE PutBack(t)
    <3>1. UNCHANGED owner /\ \A u \in Thread : u # t => conn'[u] = conn[u]
      BY <2>9 DEF PutBack, TypeOK
    <3> QED
      BY <2>0, <2>9, <3>1, FreeHeld DEF PutBack
  <2> QED
    BY <1>1, <2>1, <2>2, <2>3, <2>4, <2>5, <2>6, <2>7, <2>8, <2>9
       DEF Request, Proceed, Connect
<1>2. CASE TimerProceed \/ Pong
  <2>0. Timer \in Thread
    BY DEF Thread
  <2>1. CASE CheckTimeouts \/ NotYet \/ BeginKeepAlive \/ EndKeepAlive \/ ReapIdle
    <3>1. PICK l \in {"conn", "check", "visit", "reap"} : Goto(Timer, l)
      BY <2>1 DEF CheckTimeouts, NotYet, BeginKeepAlive, EndKeepAlive, ReapIdle
    <3>2. UNCHANGED <<owner, conn>>
      BY <2>1 DEF CheckTimeouts, NotYet, BeginKeepAlive, EndKeepAlive, ReapIdle, lockVars
    <3> QED
      BY <2>0, <3>1, <3>2, FreeHeld
  <2>2. CASE Visit
    <3>1. PICK c \in due : Grantable(c) /\ owner' = [owner EXCEPT ![c] = Timer]
                           /\ conn' = [conn EXCEPT ![Timer] = c]
      BY <2>2 DEF Visit
    <3>2. c \in Conn
      BY DEF TypeOK
    <3> QED
      BY <2>0, <2>2, <3>1, <3>2, TakeHeld DEF Visit
  <2>3. CASE Pong
    <3>1. \A u \in Thread : u # Timer => conn'[u] = conn[u]
      BY <2>3 DEF Pong, TypeOK
    <3> QED
      BY <2>0, <2>3, <3>1, LeaveHeld DEF Pong
  <2> QED
    BY <1>2, <2>1, <2>2, <2>3 DEF TimerProceed
<1>3. CASE Tick \/ UNCHANGED vars
  BY <1>3 DEF Tick, vars, lockVars, Held, Calm, Faults
<1> QED
  BY <1>1, <1>2, <1>3 DEF Next

(* As long as the server answers, a connection carries one exchange at a   *)
(* time, the keep-alive of the timer included, for any number of requests  *)
(* and connections: iFuseConnLock is enough for that on every path.        *)
THEOREM OneExchange == Spec => []OneCallAtATime
<1>1. Init => Held
  BY ThreadAssumption DEF Init, Held, MayHold
<1> QED
  BY <1>1, NextHeld, HeldOneCall, TypeCorrect, PTL DEF Spec

-----------------------------------------------------------------------------
(* Who waits for whom.                                                     *)

(* Where a thread may hold the pool lock, and which locks are ruined.      *)
PoolPlaces == {"use", "connect", "putback", "visit", "ping"}
PoolHeld == \A t \in Thread : pool = t => pc[t] \in PoolPlaces
Unbroken == "breaks" \notin StrayUnlock => broken = {}
WInv == TypeOK /\ LInv /\ PoolHeld /\ Unbroken

(* The lock a thread asks for in its next step: that of the pool, or that  *)
(* of a connection, of any one that is due for the timer.  A request that  *)
(* reconnects and holds the lock is refused it at once and goes on.        *)
AsksPool(t) == pc[t] \in {"idle", "unuse", "reap"} \/ (pc[t] = "conn" /\ connDue)
AsksLock(t, c) ==
    \/ pc[t] \in {"use", "lock", "putback"} /\ c = conn[t]
    \/ pc[t] = "reconnect" /\ c = conn[t] /\ owner[c] # t
    \/ pc[t] = "visit" /\ c \in due

Waits(t, u) ==
    \/ AsksPool(t) /\ pool = u
    \/ \E c \in Conn : AsksLock(t, c) /\ owner[c] = u

(* It asks for a lock and cannot have it, or none of those it asks for.    *)
Stuck(t) ==
    \/ AsksPool(t) /\ ~PoolFree
    \/ /\ \E c \in Conn : AsksLock(t, c)
       /\ \A c \in Conn : AsksLock(t, c) => ~Grantable(c)

Level(t) ==
    IF AsksPool(t) THEN 0 ELSE IF \E c \in Conn : AsksLock(t, c) THEN 1 ELSE 2

(* Every wait leads upwards: from the pool lock to the lock of a           *)
(* connection, and from there to a thread that asks for no lock.           *)
WaitsUpward == \A t, u \in Thread : Waits(t, u) => Level(t) < Level(u)

(* Behind a thread that is stuck there is, after at most two waits, one    *)
(* that is not: no deadlock among requests, the timer and their locks, as  *)
(* long as no stray unlock ruins a lock.                                   *)
OneAtLeastGoes ==
    "breaks" \notin StrayUnlock =>
        \A t \in Thread : Stuck(t) =>
            \E u \in Thread :
                /\ Waits(t, u)
                /\ ~Stuck(u) \/ \E v \in Thread : Waits(u, v) /\ ~Stuck(v)

(* A step of one thread that takes the pool lock, gives it up or keeps it. *)
LEMMA MovePoolHeld ==
  ASSUME TypeOK, PoolHeld, NEW t \in Thread, NEW l, Goto(t, l),
         \/ pool' = Nobody
         \/ pool' = t /\ l \in PoolPlaces
         \/ pool' = pool /\ (pc[t] \in PoolPlaces => l \in PoolPlaces)
  PROVE  PoolHeld'
<1>1. \A u \in Thread : pc'[u] = IF u = t THEN l ELSE pc[u]
  BY DEF TypeOK, Goto
<1> QED
  BY <1>1, ThreadAssumption DEF PoolHeld, Thread

(* Who holds the pool lock is where it may be held, after every step.      *)
LEMMA NextPoolHeld == TypeOK /\ PoolHeld /\ [Next]_vars => PoolHeld'
<1> SUFFICES ASSUME TypeOK, PoolHeld, [Next]_vars PROVE PoolHeld'
  OBVIOUS
<1> USE DEF PoolPlaces
<1>1. ASSUME NEW t \in Req, Request(t) PROVE PoolHeld'
  <2>0. t \in Thread
    BY DEF Thread
  <2>1. CASE Get(t)
    BY <2>0, <2>1, MovePoolHeld DEF Get
  <2>2. CASE Use(t) \/ PutBack(t) \/ Connected(t)
    <3>1. pool' = Nobody /\ \E l \in {"lock", "idle"} : Goto(t, l)
      BY <2>2 DEF Use, PutBack, Connected
    <3> QED
      BY <2>0, <3>1, MovePoolHeld
  <2>3. CASE Unuse(t)
    BY <2>0, <2>3, MovePoolHeld DEF Unuse
  <2>4. CASE Lock(t) \/ Call(t) \/ Answer(t) \/ CutOff(t) \/ Reconnect(t) \/ Rejoin(t) \/ Unlock(t)
    <3>1. /\ UNCHANGED pool /\ pc[t] \notin PoolPlaces
          /\ \E l : Goto(t, l)
      BY <2>4 DEF Lock, Call, Answer, CutOff, MessageError, Reconnect, Rejoin, Unlock, lockVars
    <3> QED
      BY <2>0, <3>1, MovePoolHeld
  <2> QED
    BY <1>1, <2>1, <2>2, <2>3, <2>4 DEF Request, Proceed, Connect
<1>2. CASE TimerProceed \/ Pong
  <2>0. Timer \in Thread
    BY DEF Thread
  <2>1. CASE CheckTimeouts \/ NotYet \/ ReapIdle
    <3>1. /\ UNCHANGED pool /\ pc[Timer] \notin PoolPlaces
          /\ \E l : Goto(Timer, l)
      BY <2>1 DEF CheckTimeouts, NotYet, ReapIdle, lockVars
    <3> QED
      BY <2>0, <3>1, MovePoolHeld
  <2>2. CASE BeginKeepAlive \/ Visit \/ Pong
    <3>1. /\ pool' = Timer \/ UNCHANGED pool
          /\ \E l \in PoolPlaces : Goto(Timer, l)
      BY <2>2 DEF BeginKeepAlive, Visit, Pong
    <3> QED
      BY <2>0, <3>1, MovePoolHeld
  <2>3. CASE EndKeepAlive
    BY <2>0, <2>3, MovePoolHeld DEF EndKeepAlive
  <2> QED
    BY <1>2, <2>1, <2>2, <2>3 DEF TimerProceed
<1>3. CASE Tick \/ UNCHANGED vars
  BY <1>3 DEF Tick, vars, lockVars, PoolHeld
<1> QED
  BY <1>1, <1>2, <1>3 DEF Next

(* Only a stray unlock that breaks the lock breaks one.                    *)
LEMMA NextUnbroken == Unbroken /\ [Next]_vars => Unbroken'
<1> DEFINE Kept == UNCHANGED setting /\ ("breaks" \in StrayUnlock \/ broken' = {})
<1> SUFFICES ASSUME Unbroken, [Next]_vars PROVE Kept
  BY DEF Unbroken, StrayUnlock
<1>1. "breaks" \in StrayUnlock \/ broken = {}
  BY DEF Unbroken
<1>2. ASSUME NEW t \in Req, Request(t) PROVE Kept
  <2>1. CASE Get(t) \/ Use(t) \/ Lock(t) \/ Call(t) \/ Unuse(t) \/ PutBack(t)
    BY <1>1, <2>1 DEF Get, Use, Lock, Call, Unuse, PutBack, Goto, lockVars
  <2>2. CASE Answer(t) \/ CutOff(t) \/ Reconnect(t)
    BY <1>1, <2>2 DEF Answer, CutOff, MessageError, Reconnect, Goto, lockVars
  <2>3. CASE Connected(t)
    BY <1>1, <2>3 DEF Connected, Goto
  <2>4. CASE Rejoin(t) \/ Unlock(t)
    <3>1. UNCHANGED setting /\ Release(t, conn[t])
      BY <2>4 DEF Rejoin, Unlock, Goto
    <3> QED
      BY <1>1, <3>1 DEF Release
  <2> QED
    BY <1>2, <2>1, <2>2, <2>3, <2>4 DEF Request, Proceed, Connect
<1>3. CASE TimerProceed
  BY <1>1, <1>3 DEF TimerProceed, CheckTimeouts, NotYet, BeginKeepAlive, Visit, EndKeepAlive,
                    ReapIdle, Goto, lockVars
<1>4. CASE Pong
  <2>1. UNCHANGED setting /\ Release(Timer, conn[Timer])
    BY <1>4 DEF Pong, Goto
  <2> QED
    BY <1>1, <2>1 DEF Release
<1>5. CASE Tick \/ UNCHANGED vars
  BY <1>1, <1>5 DEF Tick, vars, lockVars
<1> QED
  BY <1>2, <1>3, <1>4, <1>5 DEF Next

(* WInv holds in every state the threads reach.                            *)
LEMMA WaitInvariant == Spec => []WInv
<1>1. Init => PoolHeld /\ Unbroken
  BY ThreadAssumption DEF Init, PoolHeld, Unbroken, Thread
<1>2. TypeOK /\ PoolHeld /\ Unbroken /\ [Next]_vars => PoolHeld' /\ Unbroken'
  BY NextPoolHeld, NextUnbroken
<1> QED
  BY <1>1, <1>2, TypeCorrect, LockInvariant, PTL DEF Spec, WInv

(* Who holds the lock of a connection asks for none.                       *)
LEMMA HolderGoes ==
  ASSUME WInv, NEW c \in Conn, NEW u \in Thread, owner[c] = u
  PROVE  ~AsksPool(u) /\ \A d \in Conn : ~AsksLock(u, d)
<1>1. conn[u] = c /\ pc[u] \in MayHold
  BY DEF WInv, LInv, Holders
<1> QED
  BY <1>1 DEF MayHold, AsksPool, AsksLock

(* Who holds the lock of the pool does not ask for it.                     *)
LEMMA PoolHolderPast ==
  ASSUME WInv, NEW u \in Thread, pool = u
  PROVE  ~AsksPool(u)
  BY DEF WInv, PoolHeld, PoolPlaces, AsksPool

(* No circle of threads waits for each other's locks, in any setting, for  *)
(* any number of requests and connections: iFuse.Lib.Conn.cpp takes the    *)
(* pool lock first, and nobody with a connection's lock asks for another.  *)
THEOREM NoCircularWait == Spec => []WaitsUpward
<1>1. WInv => WaitsUpward
  <2> SUFFICES ASSUME WInv, NEW t \in Thread, NEW u \in Thread, Waits(t, u)
               PROVE  Level(t) < Level(u)
    BY DEF WaitsUpward
  <2>1. CASE AsksPool(t) /\ pool = u
    BY <2>1, PoolHolderPast DEF Level
  <2>2. CASE \E c \in Conn : AsksLock(t, c) /\ owner[c] = u
    BY <2>2, HolderGoes DEF Level
  <2> QED
    BY <2>1, <2>2 DEF Waits
<1> QED
  BY <1>1, WaitInvariant, PTL

(* A thread that is stuck takes no step, as its guards say.                *)
LEMMA StuckStays ==
  ASSUME NEW t \in Req, Stuck(t)
  PROVE  ~Request(t)
<1>1. CASE AsksPool(t) /\ ~PoolFree
  <2>1. pc[t] \in {"idle", "unuse", "reap", "conn"}
    BY <1>1 DEF AsksPool
  <2>2. ~Get(t) /\ ~Unuse(t)
    BY <1>1 DEF Get, Unuse
  <2>3. ~Answer(t) /\ ~Connect(t)
    BY <2>1 DEF Answer, Connect, Connected, Rejoin
  <2>4. ~Proceed(t)
    BY <2>1, <2>2 DEF Proceed, Use, Lock, Call, CutOff, Reconnect, Unlock, PutBack
  <2> QED
    BY <2>2, <2>3, <2>4 DEF Request
<1>2. CASE \E c \in Conn : AsksLock(t, c) /\ ~Grantable(c) /\ pc[t] # "visit"
  <2>1. PICK c \in Conn : AsksLock(t, c) /\ ~Grantable(c) /\ pc[t] # "visit"
    BY <1>2
  <2>2. /\ pc[t] \in {"use", "lock", "putback", "reconnect"} /\ c = conn[t]
        /\ pc[t] = "reconnect" => owner[c] # t
    BY <2>1 DEF AsksLock
  <2>3. ~Get(t) /\ ~Answer(t) /\ ~Connect(t)
    BY <2>2 DEF Get, Answer, Connect, Connected, Rejoin
  <2>4. ~(Use(t) \/ Lock(t) \/ PutBack(t) \/ Reconnect(t))
    BY <2>1, <2>2 DEF Use, Lock, PutBack, Reconnect
  <2>5. ~(Call(t) \/ CutOff(t) \/ Unlock(t) \/ Unuse(t))
    BY <2>2 DEF Call, CutOff, Unlock, Unuse
  <2> QED
    BY <2>3, <2>4, <2>5 DEF Request, Proceed
<1>3. CASE pc[t] = "visit"
  BY <1>3 DEF Request, Get, Answer, Connect, Connected, Rejoin, Proceed, Use, Lock, Call,
              CutOff, Reconnect, Unlock, Unuse, PutBack
<1> QED
  BY <1>1, <1>2, <1>3 DEF Stuck

(* Nor does the timer, that asks for the lock of any connection that is due. *)
LEMMA StuckTimerStays ==
  ASSUME TypeOK, Stuck(Timer)
  PROVE  ~(TimerProceed \/ Pong)
<1>1. CASE AsksPool(Timer) /\ ~PoolFree
  <2>1. \/ pc[Timer] \in {"idle", "unuse", "reap"}
        \/ pc[Timer] = "conn" /\ connDue
    BY <1>1 DEF AsksPool
  <2>2. ~BeginKeepAlive /\ ~ReapIdle /\ ~NotYet
    BY <1>1, <2>1 DEF BeginKeepAlive, ReapIdle, NotYet
  <2>3. ~CheckTimeouts /\ ~Visit /\ ~EndKeepAlive /\ ~Pong
    BY <2>1 DEF CheckTimeouts, Visit, EndKeepAlive, Pong
  <2> QED
    BY <2>2, <2>3 DEF TimerProceed
<1>2. CASE /\ \E c \in Conn : AsksLock(Timer, c)
           /\ \A c \in Conn : AsksLock(Timer, c) => ~Grantable(c)
  <2>1. pc[Timer] \in {"use", "lock", "putback", "reconnect", "visit"}
    BY <1>2 DEF AsksLock
  <2>2. ~CheckTimeouts /\ ~NotYet /\ ~BeginKeepAlive /\ ~ReapIdle /\ ~Pong
    BY <2>1 DEF CheckTimeouts, NotYet, BeginKeepAlive, ReapIdle, Pong
  <2>3. pc[Timer] = "visit" => due # {} /\ \A c \in due : ~Grantable(c)
    BY <1>2 DEF AsksLock, TypeOK
  <2>4. ~Visit /\ ~EndKeepAlive
    BY <2>3 DEF Visit, EndKeepAlive
  <2> QED
    BY <2>2, <2>4 DEF TimerProceed
<1> QED
  BY <1>1, <1>2 DEF Stuck

(* A thread that is stuck has someone to wait for.                         *)
LEMMA StuckWaits ==
  ASSUME WInv, "breaks" \notin StrayUnlock, NEW t \in Thread, Stuck(t)
  PROVE  \E u \in Thread : Waits(t, u)
<1>1. CASE AsksPool(t) /\ ~PoolFree
  <2>1. pool \in Thread
    BY <1>1 DEF PoolFree, WInv, TypeOK
  <2> QED
    BY <1>1, <2>1 DEF Waits
<1>2. CASE \E c \in Conn : AsksLock(t, c) /\ ~Grantable(c)
  <2>1. PICK c \in Conn : AsksLock(t, c) /\ ~Grantable(c)
    BY <1>2
  <2>2. owner[c] \in Thread
    BY <2>1 DEF Grantable, WInv, Unbroken, TypeOK
  <2> QED
    BY <2>1, <2>2 DEF Waits
<1> QED
  BY <1>1, <1>2 DEF Stuck

(* When a thread cannot have the lock it asks for, some thread can go on:  *)
(* iFuse.Lib.Conn.cpp and the timer never block each other for good.       *)
THEOREM NoDeadlock == Spec => []OneAtLeastGoes
<1>1. WInv => OneAtLeastGoes
  <2> SUFFICES ASSUME WInv, "breaks" \notin StrayUnlock, NEW t \in Thread, Stuck(t)
               PROVE  \E u \in Thread :
                        /\ Waits(t, u)
                        /\ ~Stuck(u) \/ \E v \in Thread : Waits(u, v) /\ ~Stuck(v)
    BY DEF OneAtLeastGoes
  <2>1. PICK u \in Thread : Waits(t, u)
    BY StuckWaits
  <2>2. CASE Stuck(u)
    <3>1. PICK v \in Thread : Waits(u, v)
      BY <2>2, StuckWaits
    <3>2. ~AsksPool(u)
      BY <2>1, HolderGoes, PoolHolderPast DEF Waits
    <3>3. ~Stuck(v)
      BY <3>1, <3>2, HolderGoes DEF Waits, Stuck
    <3> QED
      BY <2>1, <3>1, <3>3
  <2> QED
    BY <2>1, <2>2
<1> QED
  BY <1>1, WaitInvariant, PTL
=============================================================================
