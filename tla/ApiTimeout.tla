----------------------------- MODULE ApiTimeout -----------------------------
(***************************************************************************)
(* The two levels of locks a request takes (g_ConnectedConnLock, then the  *)
(* lock of the connection), the timer thread that takes them too, and the  *)
(* watchdog of iFuse.Lib.RodsClientAPI.cpp that ends a call the server     *)
(* does not answer.                                                        *)
(*                                                                         *)
(* A request is any operation of iFuse.FS.cpp that takes a connection,     *)
(* locks it, makes a call, reconnects and repeats the call once after a    *)
(* message error, unlocks and gives the connection back.  The pool itself  *)
(* is the subject of ConnPool; here it is the lock and who uses what.      *)
(* A step is one stretch between two lock operations or network waits.     *)
(***************************************************************************)
EXTENDS FiniteSets, Naturals

CONSTANTS
    Req,          \* threads of FUSE that run requests
    Timer,        \* the timer thread of iFuse.Lib.cpp
    Nobody,       \* owner of a free lock
    Conn,         \* iFuseConn_t objects
    NoConn,
    Timeout,      \* g_RodsapiTimeoutSec, in ticks of more than half of it
    Setting       \* the options and surroundings to consider, see below

ASSUME ThreadAssumption == Timer \notin Req /\ Nobody \notin Req \cup {Timer}
ASSUME ConnAssumption == NoConn \notin Conn
ASSUME TimeoutAssumption == Timeout \in Nat \ {0}
ASSUME SettingAssumption ==
    Setting \subseteq [shared : BOOLEAN, keepAlive : BOOLEAN, faults : BOOLEAN,
                       silent : BOOLEAN,
                       stray : SUBSET {"harmless", "frees", "breaks"}]

Thread == Req \cup {Timer}

VARIABLES
    setting,      \* what this mount runs with
    pc,           \* where a thread is
    conn,         \* the connection it works with
    pool,         \* holder of g_ConnectedConnLock
    owner,        \* holder of the write lock of a connection
    broken,       \* connection locks ruined by a stray unlock
    registered,   \* threads with an entry in g_Operations
    age,          \* ticks since oper->start
    cut,          \* connections whose socket is shut down
    due,          \* connections the timer has still to keep alive
    checkDue,     \* more than Timeout / 2 since g_LastRodsapiTimeoutCheck
    connDue,      \* more than g_ConnCheckIntervalSec since g_LastConnCheck
    retried       \* requests that repeat their call after a reconnect

lockVars == <<pool, owner, broken>>
watchVars == <<registered, age, cut, checkDue, connDue>>
vars == <<setting, pc, conn, pool, owner, broken, registered, age, cut, due,
          checkDue, connDue, retried>>

Shared == setting.shared         \* --connreuse: requests share connections
KeepAlive == setting.keepAlive   \* keep-alive calls come due in the run
Faults == setting.faults         \* calls fail, or are late
Silent == Faults /\ setting.silent   \* a connect may never be answered
StrayUnlock == setting.stray     \* what unlocking another's lock may do

Init ==
    /\ setting \in Setting
    /\ pc = [t \in Thread |-> IF t = Timer THEN "check" ELSE "idle"]
    /\ conn = [t \in Thread |-> NoConn]
    /\ pool = Nobody
    /\ owner = [c \in Conn |-> Nobody]
    /\ broken = {}
    /\ registered = {}
    /\ age = [t \in Thread |-> 0]
    /\ cut = {}
    /\ due = {}
    /\ checkDue = FALSE
    /\ connDue = FALSE
    /\ retried = {}

-----------------------------------------------------------------------------
(* Locks and the list of running calls. *)

(* A thread goes on; what the mount runs with does not change. *)
Goto(t, l) ==
    /\ pc' = [pc EXCEPT ![t] = l]
    /\ UNCHANGED setting

PoolFree == pool = Nobody
Grantable(c) == owner[c] = Nobody /\ c \notin broken

(* pthread_rwlock_unlock of a connection's lock by t.  POSIX leaves an     *)
(* unlock by a thread that does not hold the lock undefined.               *)
Release(t, c) ==
    IF owner[c] = t
    THEN owner' = [owner EXCEPT ![c] = Nobody] /\ UNCHANGED broken
    ELSE \/ /\ "harmless" \in StrayUnlock
            /\ UNCHANGED <<owner, broken>>
         \/ /\ "frees" \in StrayUnlock
            /\ owner' = [owner EXCEPT ![c] = Nobody]
            /\ UNCHANGED broken
         \/ /\ "breaks" \in StrayUnlock
            /\ broken' = broken \cup {c}
            /\ UNCHANGED owner

StartOperation(t) ==
    /\ registered' = registered \cup {t}
    /\ age' = [age EXCEPT ![t] = 0]

(* Variant: the entry of a finished call stays in g_Operations. *)
EndForgotten(t) ==
    /\ age' = [age EXCEPT ![t] = 0]
    /\ UNCHANGED registered

EndOperation(t) ==
    /\ registered' = registered \ {t}
    /\ age' = [age EXCEPT ![t] = 0]

-----------------------------------------------------------------------------
(* A request. *)

(* iFuseConnGetAndUse takes the pool lock and chooses a connection: a new  *)
(* one, or with --connreuse one that is parked or that others use.         *)
Get(t) ==
    /\ pc[t] = "idle"
    /\ PoolFree
    /\ \E c \in Conn :
        /\ conn' = [conn EXCEPT ![t] = c]
        /\ \/ (\A u \in Req : conn[u] # c) /\ Goto(t, "connect")
           \/ Shared /\ Goto(t, "use")
    /\ pool' = t
    /\ retried' = retried \ {t}
    /\ UNCHANGED <<owner, broken, due>>
    /\ UNCHANGED watchVars

(* Still under the pool lock it waits for the lock of a connection that is *)
(* reused, updates the use count and releases both.                        *)
Use(t) ==
    /\ pc[t] = "use"
    /\ Grantable(conn[t])
    /\ pool' = Nobody
    /\ Goto(t, "lock")
    /\ UNCHANGED <<conn, owner, broken, due, retried>>
    /\ UNCHANGED watchVars

(* The new connection is there, with a lock of its own, or the operation   *)
(* ends.  The pool lock was kept all the time, and rcConnect has no entry  *)
(* in g_Operations.                                                        *)
Connected(t) ==
    /\ pc[t] = "connect"
    /\ pool' = Nobody
    /\ \/ Goto(t, "lock") /\ UNCHANGED conn
       \/ Faults /\ Goto(t, "idle") /\ conn' = [conn EXCEPT ![t] = NoConn]
    /\ cut' = cut \ {conn[t]}
    /\ broken' = broken \ {conn[t]}
    /\ UNCHANGED <<owner, due, retried, registered, age, checkDue, connDue>>

(* Variant: the connection is used without its lock. *)
LockNot(t) ==
    /\ pc[t] = "lock"
    /\ Goto(t, "start")
    /\ UNCHANGED <<conn, lockVars, due, retried>>
    /\ UNCHANGED watchVars

(* iFuseConnLock. *)
Lock(t) ==
    /\ pc[t] = "lock"
    /\ Grantable(conn[t])
    /\ owner' = [owner EXCEPT ![conn[t]] = t]
    /\ Goto(t, "start")
    /\ UNCHANGED <<conn, pool, broken, due, retried>>
    /\ UNCHANGED watchVars

(* The wrapper registers the call before it sends it. *)
Call(t) ==
    /\ pc[t] = "start"
    /\ StartOperation(t)
    /\ Goto(t, "calling")
    /\ UNCHANGED <<conn, due, retried, cut, checkDue, connDue>>
    /\ UNCHANGED lockVars

(* A call ends with a status, or with the message error of a socket that   *)
(* was shut down; the first message error leads to a reconnect.            *)
MessageError(t) ==
    /\ Faults
    /\ EndOperation(t)
    /\ Goto(t, IF t \in retried THEN "unlock" ELSE "reconnect")

Answer(t) ==
    /\ pc[t] = "calling"
    /\ conn[t] \notin cut
    /\ \/ EndOperation(t) /\ Goto(t, "unlock")
       \/ MessageError(t)
    /\ UNCHANGED <<conn, due, retried, cut, checkDue, connDue>>
    /\ UNCHANGED lockVars

CutOff(t) ==
    /\ pc[t] = "calling"
    /\ conn[t] \in cut
    /\ MessageError(t)
    /\ UNCHANGED <<conn, due, retried, cut, checkDue, connDue>>
    /\ UNCHANGED lockVars

(* iFuseConnReconnect locks the connection again: the request holds that   *)
(* lock, the call returns EDEADLK at once and its result is not looked at. *)
Reconnect(t) ==
    /\ pc[t] = "reconnect"
    /\ owner[conn[t]] = t \/ Grantable(conn[t])
    /\ owner' = [owner EXCEPT ![conn[t]] = t]
    /\ Goto(t, "rejoin")
    /\ UNCHANGED <<conn, pool, broken, due, retried>>
    /\ UNCHANGED watchVars

(* The unlock at its end releases the lock the request still counts on.    *)
Rejoin(t) ==
    /\ pc[t] = "rejoin"
    /\ Release(t, conn[t])
    /\ cut' = cut \ {conn[t]}
    /\ retried' = retried \cup {t}
    /\ Goto(t, "start") \/ Goto(t, "unlock")
    /\ UNCHANGED <<conn, pool, due, registered, age, checkDue, connDue>>

(* Variant: a return path without iFuseConnUnlock. *)
UnlockSkipped(t) ==
    /\ pc[t] = "unlock"
    /\ Goto(t, "unuse")
    /\ UNCHANGED <<conn, lockVars, due, retried>>
    /\ UNCHANGED watchVars

(* iFuseConnUnlock. *)
Unlock(t) ==
    /\ pc[t] = "unlock"
    /\ Release(t, conn[t])
    /\ Goto(t, "unuse")
    /\ UNCHANGED <<conn, pool, due, retried>>
    /\ UNCHANGED watchVars

(* iFuseConnUnuse takes the pool lock, then the connection's. *)
Unuse(t) ==
    /\ pc[t] = "unuse"
    /\ PoolFree
    /\ pool' = t
    /\ Goto(t, "putback")
    /\ UNCHANGED <<conn, owner, broken, due, retried>>
    /\ UNCHANGED watchVars

PutBack(t) ==
    /\ pc[t] = "putback"
    /\ Grantable(conn[t])
    /\ pool' = Nobody
    /\ conn' = [conn EXCEPT ![t] = NoConn]
    /\ Goto(t, "idle")
    /\ UNCHANGED <<owner, broken, due, retried>>
    /\ UNCHANGED watchVars

-----------------------------------------------------------------------------
(* The timer thread: _timeoutChecker, then _connChecker, then a sleep. *)

Overdue == {t \in registered : age[t] >= Timeout}

(* Variant: the overdue call is forgotten, its socket stays open. *)
CheckTimeoutsKept ==
    /\ pc[Timer] = "check"
    /\ IF checkDue
       THEN registered' = registered \ Overdue
       ELSE UNCHANGED registered
    /\ checkDue' = FALSE
    /\ Goto(Timer, "conn")
    /\ UNCHANGED <<conn, age, due, retried, cut, connDue>>
    /\ UNCHANGED lockVars

CheckTimeouts ==
    /\ pc[Timer] = "check"
    /\ IF checkDue
       THEN /\ registered' = registered \ Overdue
            /\ cut' = cut \cup {conn[t] : t \in Overdue}
       ELSE UNCHANGED <<registered, cut>>
    /\ checkDue' = FALSE
    /\ Goto(Timer, "conn")
    /\ UNCHANGED <<conn, age, due, retried, connDue>>
    /\ UNCHANGED lockVars

(* _connChecker: not yet its interval, or the keep-alive pass begins.      *)
NotYet ==
    /\ pc[Timer] = "conn"
    /\ ~connDue
    /\ Goto(Timer, "check")
    /\ UNCHANGED <<conn, due, retried>>
    /\ UNCHANGED <<lockVars, watchVars>>

BeginKeepAlive ==
    /\ pc[Timer] = "conn"
    /\ PoolFree
    /\ pool' = Timer
    /\ due' \in (IF KeepAlive THEN SUBSET Conn ELSE {{}})
    /\ Goto(Timer, "visit")
    /\ UNCHANGED <<conn, owner, broken, retried>>
    /\ UNCHANGED watchVars

(* _keepAlive: lock the connection, ObjStat of "/", unlock.                *)
Visit ==
    /\ pc[Timer] = "visit"
    /\ \E c \in due :
        /\ Grantable(c)
        /\ owner' = [owner EXCEPT ![c] = Timer]
        /\ conn' = [conn EXCEPT ![Timer] = c]
        /\ due' = due \ {c}
    /\ StartOperation(Timer)
    /\ Goto(Timer, "ping")
    /\ UNCHANGED <<pool, broken, cut, checkDue, connDue, retried>>

(* Variant: a failed keep-alive call returns without the unlock. *)
PongKept ==
    /\ pc[Timer] = "ping"
    /\ EndOperation(Timer)
    /\ conn' = [conn EXCEPT ![Timer] = NoConn]
    /\ Goto(Timer, "visit")
    /\ UNCHANGED <<lockVars, due, cut, checkDue, connDue, retried>>

Pong ==
    /\ pc[Timer] = "ping"
    /\ EndOperation(Timer)
    /\ Release(Timer, conn[Timer])
    /\ conn' = [conn EXCEPT ![Timer] = NoConn]
    /\ Goto(Timer, "visit")
    /\ UNCHANGED <<pool, due, cut, checkDue, connDue, retried>>

EndKeepAlive ==
    /\ pc[Timer] = "visit"
    /\ due = {}
    /\ pool' = Nobody
    /\ Goto(Timer, "reap")
    /\ UNCHANGED <<conn, owner, broken, due, retried>>
    /\ UNCHANGED watchVars

(* The idle connections are released under the pool lock (ConnPool!Reap).  *)
ReapIdle ==
    /\ pc[Timer] = "reap"
    /\ PoolFree
    /\ connDue' = FALSE
    /\ Goto(Timer, "check")
    /\ UNCHANGED <<conn, due, retried, registered, age, cut, checkDue>>
    /\ UNCHANGED lockVars

(* More than half of the timeout passes, which is more than the interval   *)
(* of _connChecker.                                                        *)
Tick ==
    /\ Faults
    /\ age' = [t \in Thread |->
                 IF t \in registered /\ age[t] < Timeout THEN age[t] + 1
                                                         ELSE age[t]]
    /\ checkDue' = TRUE
    /\ connDue' = TRUE
    /\ UNCHANGED <<setting, pc, conn, due, retried, registered, cut>>
    /\ UNCHANGED lockVars

-----------------------------------------------------------------------------
(* What a request does once it has begun, except for the server's answer.  *)
Proceed(t) ==
    \/ Use(t) \/ Lock(t) \/ Call(t) \/ CutOff(t) \/ Reconnect(t)
    \/ Unlock(t) \/ Unuse(t) \/ PutBack(t)

(* What it waits for outside g_Operations: a new connection.               *)
Connect(t) == Connected(t) \/ Rejoin(t)

Request(t) == Get(t) \/ Answer(t) \/ Connect(t) \/ Proceed(t)

TimerProceed ==
    \/ CheckTimeouts \/ NotYet \/ BeginKeepAlive \/ Visit \/ EndKeepAlive
    \/ ReapIdle

Next == (\E t \in Req : Request(t)) \/ TimerProceed \/ Pong \/ Tick

Spec == Init /\ [][Next]_vars

(* The threads are scheduled, time passes, and a lock that is free again   *)
(* and again is granted in the end.  A thread waits in one place at a      *)
(* time, so fairness to the union of its steps is fairness to each.  Only  *)
(* a server without faults has to answer; a connect ends, unless the       *)
(* server may be silent to it.                                             *)
Calm == ~Faults

FairSpec ==
    /\ Spec
    /\ WF_vars(Tick)
    /\ SF_vars(TimerProceed)
    /\ WF_vars(Calm /\ Pong)
    /\ \A t \in Req :
          /\ SF_vars(Proceed(t))
          /\ WF_vars(~Silent /\ Connect(t))
          /\ WF_vars(Calm /\ Answer(t))

-----------------------------------------------------------------------------
Places == {"idle", "use", "connect", "lock", "start", "calling", "reconnect",
           "rejoin", "unlock", "unuse", "putback"}
TimerPlaces == {"check", "conn", "visit", "ping", "reap"}

Unconnected == {"idle", "check", "conn", "visit", "reap"}

InCall == {"calling", "ping"}

(* Every variable has its type, a thread has a connection exactly while it *)
(* works with one, and g_Operations holds running calls only.              *)
TypeOK ==
    /\ setting \in Setting
    /\ pc \in [Thread -> Places \cup TimerPlaces]
    /\ \A t \in Thread : pc[t] \in TimerPlaces <=> t = Timer
    /\ conn \in [Thread -> Conn \cup {NoConn}]
    /\ \A t \in Thread : conn[t] = NoConn <=> pc[t] \in Unconnected
    /\ pool \in Thread \cup {Nobody}
    /\ owner \in [Conn -> Thread \cup {Nobody}]
    /\ broken \subseteq Conn
    /\ registered \subseteq {t \in Thread : pc[t] \in InCall}
    /\ age \in [Thread -> 0..Timeout]
    /\ cut \subseteq Conn
    /\ due \subseteq Conn
    /\ checkDue \in BOOLEAN /\ connDue \in BOOLEAN
    /\ retried \subseteq Req

(* The lock order iFuse.Lib.Conn.cpp declares (the pool lock first, then a *)
(* connection's): a thread that waits for the pool lock, or has just taken *)
(* it, holds no connection's lock.                                         *)
NeedsPool == {"idle", "unuse", "use", "connect", "putback", "conn", "reap", "visit"}
LockOrder ==
    \A t \in Thread, c \in Conn : owner[c] = t => pc[t] \notin NeedsPool

(* While no fault makes a request reconnect, a connection carries one      *)
(* exchange at a time, the keep-alive of the timer included: two calls in  *)
(* one rcComm_t would read each other's replies.                           *)
OneCallAtATime ==
    Calm => \A t, u \in Thread :
        pc[t] \in InCall /\ pc[u] \in InCall /\ conn[t] = conn[u] => t = u

(* The usage pattern of iFuse.Lib.Conn.hpp: the operations on a connection *)
(* lie between iFuseConnLock and iFuseConnUnlock.                          *)
CallHoldsLock ==
    \A t \in Thread : pc[t] \in InCall => owner[conn[t]] = t

(* With a server that answers, nobody is left waiting for ever for the     *)
(* pool lock or for a connection: a request that has begun ends.           *)
RequestsComplete ==
    \A t \in Req : Calm /\ pc[t] # "idle" ~> pc[t] = "idle"

(* What the README says of --apitimeout: a call the server does not answer *)
(* is ended.                                                               *)
CallsEnd == \A t \in Req : pc[t] = "calling" ~> pc[t] # "calling"

(* It is, when no request and no keep-alive waits for a connection that    *)
(* another thread uses, connects are answered (the pool lock is kept for   *)
(* them, and the timer needs it), and a stray unlock does no harm.         *)
Undisturbed == ~Shared /\ ~KeepAlive /\ ~Silent /\ StrayUnlock = {"harmless"}
LoneCallsEnd ==
    \A t \in Req : Undisturbed /\ pc[t] = "calling" ~> pc[t] # "calling"
=============================================================================
