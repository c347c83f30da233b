------------------------------ MODULE ConnPool ------------------------------
(***************************************************************************)
(* The connection pool of irodsFs, src/src/iFuse.Lib.Conn.cpp, with the    *)
(* sessions of src/src/iFuse.FS.cpp that use it.                           *)
(*                                                                         *)
(* Every pool operation runs under the write lock g_ConnectedConnLock, so  *)
(* each of its branches is one atomic action here.  (What the lock-level   *)
(* interleavings do to the callers' own locks is the subject of other      *)
(* modules.)  Two operations leave the lock before they are finished: the  *)
(* return of a one-time connection, which is freed after the unlock, and   *)
(* the idle check, whose removal list is emptied one connection at a time  *)
(* (removeList # {} stands for "the timer thread holds the lock").         *)
(*                                                                         *)
(* A session is a FUSE request (getattr, create, unlink, ...) or an open   *)
(* file or directory with the request that is running on it.  The result   *)
(* of a remote call is chosen nondeterministically.                        *)
(***************************************************************************)
EXTENDS Naturals, Sequences, FiniteSets, SequencesExt

CONSTANTS
  Conn,        \* addresses of iFuseConn_t objects (reused after free)
  Session,     \* concurrent requests and open handles
  NoConn,      \* NULL
  MaxConnNum,  \* g_MaxConnNum, the length of g_InUseConn
  ConnTimeout, \* g_ConnTimeoutSec, in ticks
  MaxLost      \* bound of the model: references a connection may lose

ASSUME ConnAssumption ==
  /\ NoConn \notin Conn
  /\ IsFiniteSet(Session)
  /\ MaxConnNum \in Nat \ {0}
  /\ ConnTimeout \in Nat \ {0}
  /\ MaxLost \in Nat

ConnType == {"FILE_IO", "SHORTOP", "ONETIMEUSE"}

\* Kinds of use: getattr; the requests that always take the short-operation
\* connection (create, unlink, mkdir, rmdir, rename, truncate, chmod, and the
\* start-up test iFuseConnTest); open, opendir and the root prefetch.
Use == {"stat", "modify", "open"}

Slot == 1 .. MaxConnNum

VARIABLES
  \* --- the iFuseConn_t objects
  allocated,           \* those that are calloc'ed and not yet freed
  connType,            \* type
  hasComm,             \* conn # NULL: there is a server connection
  inuseCnt,            \* inuseCnt
  idleFor,             \* ticks since lastUseTime, up to ConnTimeout
  \* --- the pool
  inUseShortopConn, freeShortopConn,
  inUseConn,           \* the slots of connections used for file I/O
  inUseOnetimeuseConn, \* as a set: its keys, the connIds, are unique
  freeConn,            \* g_FreeConn, front first
  removeList,          \* connections the running idle check has found
  \* --- the sessions
  pc, held,
  mounted,             \* the process runs
  connReuse,           \* g_ConnReuse, the --connreuse option of the mount
  lost                 \* history: references dropped without iFuseConnUnuse

\* The type of connection a use asks for.
TypeFor(u) ==
  CASE u = "modify" -> "SHORTOP"
    [] u = "stat"   -> IF connReuse THEN "SHORTOP" ELSE "ONETIMEUSE"
    [] u = "open"   -> IF connReuse THEN "FILE_IO" ELSE "ONETIMEUSE"

objVars  == <<allocated, connType, hasComm, inuseCnt, idleFor>>
poolVars == <<inUseShortopConn, freeShortopConn, inUseConn,
              inUseOnetimeuseConn, freeConn, removeList>>
vars == <<objVars, poolVars, pc, held, mounted, connReuse, lost>>

PC == {"idle", "calling", "opening", "open", "freeing"}

TypeOK ==
  /\ allocated \in SUBSET Conn
  /\ connType \in [Conn -> ConnType]
  /\ hasComm \in [Conn -> BOOLEAN]
  /\ inuseCnt \in [Conn -> Nat]
  /\ idleFor \in [Conn -> 0 .. ConnTimeout]
  /\ inUseShortopConn \in Conn \cup {NoConn}
  /\ freeShortopConn \in Conn \cup {NoConn}
  /\ inUseConn \in [Slot -> Conn \cup {NoConn}]
  /\ inUseOnetimeuseConn \in SUBSET Conn
  /\ freeConn \in Seq(Conn)
  /\ removeList \in SUBSET Conn
  /\ pc \in [Session -> PC]
  /\ held \in [Session -> Conn \cup {NoConn}]
  /\ mounted \in BOOLEAN
  /\ connReuse \in BOOLEAN
  /\ lost \in [Conn -> 0 .. MaxLost]

Init ==
  /\ allocated = {}
  /\ connType = [c \in Conn |-> "FILE_IO"]
  /\ hasComm = [c \in Conn |-> FALSE]
  /\ inuseCnt = [c \in Conn |-> 0]
  /\ idleFor = [c \in Conn |-> 0]
  /\ inUseShortopConn = NoConn
  /\ freeShortopConn = NoConn
  /\ inUseConn = [i \in Slot |-> NoConn]
  /\ inUseOnetimeuseConn = {}
  /\ freeConn = <<>>
  /\ removeList = {}
  /\ pc = [s \in Session |-> "idle"]
  /\ held = [s \in Session |-> NoConn]
  /\ mounted = TRUE
  /\ connReuse \in BOOLEAN
  /\ lost = [c \in Conn |-> 0]

Free == ToSet(freeConn)

PoolUnlocked == mounted /\ removeList = {}

----------------------------------------------------------------------------
(* iFuseConnGetAndUse *)

\* Variants of the definitions below that are wrong the way a bug would make
\* them wrong are kept beside them; PROJECT.json pairs each with the property
\* that rejects it.  Here: a use that is not counted.
TakeUncounted(s, u, c) ==
  /\ pc' = [pc EXCEPT ![s] = IF u = "open" THEN "opening" ELSE "calling"]
  /\ held' = [held EXCEPT ![s] = c]
  /\ idleFor' = [idleFor EXCEPT ![c] = 0]
  /\ UNCHANGED <<inuseCnt, removeList, mounted, connReuse, lost>>

\* Session s starts a use u on connection c, which counts it.
Take(s, u, c) ==
  /\ pc' = [pc EXCEPT ![s] = IF u = "open" THEN "opening" ELSE "calling"]
  /\ held' = [held EXCEPT ![s] = c]
  /\ inuseCnt' = [inuseCnt EXCEPT ![c] = @ + 1]
  /\ idleFor' = [idleFor EXCEPT ![c] = 0]
  /\ UNCHANGED <<removeList, mounted, connReuse, lost>>

\* An existing connection is taken.
Reuse(s, u, c) == Take(s, u, c) /\ UNCHANGED <<allocated, connType, hasComm>>

\* _newConn: a new object, connected and logged in.  When either fails the
\* object is freed and the request ends with an error: nothing has changed.
NewConn(s, u, c) ==
  /\ c \in Conn \ allocated
  /\ allocated' = allocated \cup {c}
  /\ connType' = [connType EXCEPT ![c] = TypeFor(u)]
  /\ hasComm' = [hasComm EXCEPT ![c] = TRUE]
  /\ Take(s, u, c)

Requests(s, u, t) == PoolUnlocked /\ pc[s] = "idle" /\ TypeFor(u) = t

UseShortInUse(s, u) ==
  /\ Requests(s, u, "SHORTOP")
  /\ inUseShortopConn # NoConn
  /\ Reuse(s, u, inUseShortopConn)
  /\ UNCHANGED <<inUseShortopConn, freeShortopConn, inUseConn,
                 inUseOnetimeuseConn, freeConn>>

\* Variant: g_FreeShortopConn is not reset.
UseShortFreeKept(s, u) ==
  /\ Requests(s, u, "SHORTOP")
  /\ inUseShortopConn = NoConn
  /\ freeShortopConn # NoConn
  /\ Reuse(s, u, freeShortopConn)
  /\ inUseShortopConn' = freeShortopConn
  /\ UNCHANGED <<freeShortopConn, inUseConn, inUseOnetimeuseConn, freeConn>>

UseShortFree(s, u) ==
  /\ Requests(s, u, "SHORTOP")
  /\ inUseShortopConn = NoConn
  /\ freeShortopConn # NoConn
  /\ Reuse(s, u, freeShortopConn)
  /\ inUseShortopConn' = freeShortopConn
  /\ freeShortopConn' = NoConn
  /\ UNCHANGED <<inUseConn, inUseOnetimeuseConn, freeConn>>

UseShortNew(s, u, c) ==
  /\ Requests(s, u, "SHORTOP")
  /\ inUseShortopConn = NoConn
  /\ freeShortopConn = NoConn
  /\ NewConn(s, u, c)
  /\ inUseShortopConn' = c
  /\ UNCHANGED <<freeShortopConn, inUseConn, inUseOnetimeuseConn, freeConn>>

\* The slot the scan of g_InUseConn stops at.
FirstEmpty(i) == /\ i \in Slot
                 /\ inUseConn[i] = NoConn
                 /\ \A j \in 1 .. i - 1 : inUseConn[j] # NoConn

UseFileFree(s, u) ==
  /\ Requests(s, u, "FILE_IO")
  /\ freeConn # <<>>
  /\ Reuse(s, u, Head(freeConn))
  /\ \E i \in Slot : /\ FirstEmpty(i)
                     /\ inUseConn' = [inUseConn EXCEPT ![i] = Head(freeConn)]
  /\ freeConn' = Tail(freeConn)
  /\ UNCHANGED <<inUseShortopConn, freeShortopConn, inUseOnetimeuseConn>>

\* Variant: a new connection although one is parked.
UseFileNewAlways(s, u, c) ==
  /\ Requests(s, u, "FILE_IO")
  /\ NewConn(s, u, c)
  /\ \E i \in Slot : /\ FirstEmpty(i)
                     /\ inUseConn' = [inUseConn EXCEPT ![i] = c]
  /\ UNCHANGED <<inUseShortopConn, freeShortopConn, inUseOnetimeuseConn,
                 freeConn>>

UseFileNew(s, u, c) ==
  /\ Requests(s, u, "FILE_IO")
  /\ freeConn = <<>>
  /\ NewConn(s, u, c)
  /\ \E i \in Slot : /\ FirstEmpty(i)
                     /\ inUseConn' = [inUseConn EXCEPT ![i] = c]
  /\ UNCHANGED <<inUseShortopConn, freeShortopConn, inUseOnetimeuseConn,
                 freeConn>>

\* No slot is empty: share the first connection with the fewest users.
LeastUsed(i) ==
  /\ i \in Slot
  /\ \A j \in Slot : inuseCnt[inUseConn[i]] <= inuseCnt[inUseConn[j]]
  /\ \A j \in 1 .. i - 1 : inuseCnt[inUseConn[i]] < inuseCnt[inUseConn[j]]

UseFileShared(s, u) ==
  /\ Requests(s, u, "FILE_IO")
  /\ \A i \in Slot : inUseConn[i] # NoConn
  /\ \E i \in Slot : LeastUsed(i) /\ Reuse(s, u, inUseConn[i])
  /\ UNCHANGED <<inUseShortopConn, freeShortopConn, inUseConn,
                 inUseOnetimeuseConn, freeConn>>

UseOnetimeNew(s, u, c) ==
  /\ Requests(s, u, "ONETIMEUSE")
  /\ NewConn(s, u, c)
  /\ inUseOnetimeuseConn' = inUseOnetimeuseConn \cup {c}
  /\ UNCHANGED <<inUseShortopConn, freeShortopConn, inUseConn, freeConn>>

GetAndUse(s, u) ==
  \/ UseShortInUse(s, u)
  \/ UseShortFree(s, u)
  \/ UseFileFree(s, u)
  \/ UseFileShared(s, u)
  \/ \E c \in Conn : \/ UseShortNew(s, u, c)
                     \/ UseFileNew(s, u, c)
                     \/ UseOnetimeNew(s, u, c)

----------------------------------------------------------------------------
(* What a session does with its connection *)

\* A call fails with a message error and the connection is replaced:
\* _disconnect, _connect.  When connecting fails conn stays NULL and the
\* object stays where it is.  A call on a NULL conn fails at once, with an
\* error that is not a message error (there is no message to read).
Reconnect(s) ==
  /\ pc[s] \in {"calling", "opening", "open"}
  /\ hasComm[held[s]]
  /\ \E ok \in BOOLEAN : hasComm' = [hasComm EXCEPT ![held[s]] = ok]
  /\ UNCHANGED <<allocated, connType, inuseCnt, idleFor, poolVars, pc, held,
                 mounted, connReuse, lost>>

\* iFuseFdOpen or iFuseDirOpen: the server opened the file or directory.
OpenSucceeds(s) ==
  /\ pc[s] = "opening"
  /\ hasComm[held[s]]
  /\ pc' = [pc EXCEPT ![s] = "open"]
  /\ UNCHANGED <<objVars, poolVars, held, mounted, connReuse, lost>>

\* The session forgets its connection without iFuseConnUnuse.
Forget(s) ==
  /\ lost[held[s]] < MaxLost
  /\ lost' = [lost EXCEPT ![held[s]] = @ + 1]
  /\ pc' = [pc EXCEPT ![s] = "idle"]
  /\ held' = [held EXCEPT ![s] = NoConn]
  /\ UNCHANGED <<objVars, poolVars, mounted, connReuse>>

\* iFuseFsOpen, iFuseFsOpenDir and iFuseFsCacheDir return -ENOENT when the
\* open fails.
OpenFails(s) == pc[s] = "opening" /\ Forget(s)

\* iFuseBufferedFsClose returns -ENOENT when the pending delta of the file
\* cannot be written, before iFuseFsClose.
CloseAbandoned(s) == pc[s] = "open" /\ Forget(s)

----------------------------------------------------------------------------
(* iFuseConnUnuse: at the end of a request, or by iFuseFsClose and
   iFuseFsCloseDir.  iFuseFdClose and iFuseDirClose never fail. *)

Unuses(s, t) ==
  /\ PoolUnlocked
  /\ pc[s] \in {"calling", "open"}
  /\ connType[held[s]] = t
  /\ inuseCnt' = [inuseCnt EXCEPT ![held[s]] = @ - 1]
  /\ idleFor' = [idleFor EXCEPT ![held[s]] = 0]
  /\ UNCHANGED <<allocated, connType, hasComm, removeList, mounted, connReuse, lost>>

\* Variant: the session keeps its pointer.
LeaveKept(s) == pc' = [pc EXCEPT ![s] = "idle"] /\ UNCHANGED held

Leave(s) == /\ pc' = [pc EXCEPT ![s] = "idle"]
            /\ held' = [held EXCEPT ![s] = NoConn]

UnuseStillUsed(s) ==
  /\ \E t \in ConnType : Unuses(s, t)
  /\ inuseCnt[held[s]] # 1
  /\ Leave(s)
  /\ UNCHANGED <<inUseShortopConn, freeShortopConn, inUseConn,
                 inUseOnetimeuseConn, freeConn>>

UnuseShort(s) ==
  /\ Unuses(s, "SHORTOP")
  /\ inuseCnt[held[s]] = 1
  /\ Leave(s)
  /\ inUseShortopConn' = NoConn
  /\ freeShortopConn' = held[s]
  /\ UNCHANGED <<inUseConn, inUseOnetimeuseConn, freeConn>>

\* Variant: the slot is not cleared.
NotCleared(c) == inUseConn

\* The slots that hold c lose it (the code clears the first one it finds;
\* PlacedOnce says there is no other).
Cleared(c) == [i \in Slot |-> IF inUseConn[i] = c THEN NoConn ELSE inUseConn[i]]

UnuseFile(s) ==
  /\ Unuses(s, "FILE_IO")
  /\ inuseCnt[held[s]] = 1
  /\ Leave(s)
  /\ inUseConn' = Cleared(held[s])
  /\ freeConn' = <<held[s]>> \o freeConn
  /\ UNCHANGED <<inUseShortopConn, freeShortopConn, inUseOnetimeuseConn>>

\* Variant: the connection is freed but not erased from the map.
UnuseOnetimeKept(s) ==
  /\ Unuses(s, "ONETIMEUSE")
  /\ inuseCnt[held[s]] = 1
  /\ pc' = [pc EXCEPT ![s] = "freeing"]
  /\ UNCHANGED <<held, inUseShortopConn, freeShortopConn, inUseConn,
                 inUseOnetimeuseConn, freeConn>>

UnuseOnetime(s) ==
  /\ Unuses(s, "ONETIMEUSE")
  /\ inuseCnt[held[s]] = 1
  /\ inUseOnetimeuseConn' = inUseOnetimeuseConn \ {held[s]}
  /\ pc' = [pc EXCEPT ![s] = "freeing"]
  /\ UNCHANGED <<held, inUseShortopConn, freeShortopConn, inUseConn, freeConn>>

\* _freeConn: disconnect and free.
FreeObjects(C) ==
  /\ allocated' = allocated \ C
  /\ hasComm' = [c \in Conn |-> hasComm[c] /\ c \notin C]
  /\ inuseCnt' = [c \in Conn |-> IF c \in C THEN 0 ELSE inuseCnt[c]]
  /\ idleFor' = [c \in Conn |-> IF c \in C THEN 0 ELSE idleFor[c]]
  /\ UNCHANGED connType

\* The end of iFuseConnUnuse, after both unlocks.
FreeOnetime(s) ==
  /\ pc[s] = "freeing"
  /\ FreeObjects({held[s]})
  /\ Leave(s)
  /\ UNCHANGED <<poolVars, mounted, connReuse, lost>>

Unuse(s) == \/ UnuseStillUsed(s)
            \/ UnuseShort(s)
            \/ UnuseFile(s)
            \/ UnuseOnetime(s)
            \/ FreeOnetime(s)

----------------------------------------------------------------------------
(* Time, the idle check of the timer thread, the end of the process *)

Tick ==
  /\ idleFor' = [c \in Conn |-> IF c \in allocated /\ idleFor[c] < ConnTimeout
                                THEN idleFor[c] + 1 ELSE idleFor[c]]
  /\ UNCHANGED <<allocated, connType, hasComm, inuseCnt, poolVars, pc, held,
                 mounted, connReuse, lost>>

\* Variant: > instead of >= (idleFor stops counting at ConnTimeout).
TimedOutLate == {c \in Free \cup ({freeShortopConn} \ {NoConn}) :
                    idleFor[c] > ConnTimeout}

TimedOut == {c \in Free \cup ({freeShortopConn} \ {NoConn}) :
                idleFor[c] >= ConnTimeout}

\* _connChecker takes the write lock and lists the timed out connections.
CheckIdle ==
  /\ PoolUnlocked
  /\ TimedOut # {}
  /\ removeList' = TimedOut
  /\ UNCHANGED <<objVars, inUseShortopConn, freeShortopConn, inUseConn,
                 inUseOnetimeuseConn, freeConn, pc, held, mounted, connReuse, lost>>

\* ... and frees them, the one for short operations last; then it releases
\* the lock.
Reap(c) ==
  /\ mounted
  /\ c \in removeList
  /\ removeList' = removeList \ {c}
  /\ FreeObjects({c})
  /\ \/ /\ c = freeShortopConn
        /\ removeList = {c}
        /\ freeShortopConn' = NoConn
        /\ UNCHANGED freeConn
     \/ /\ c # freeShortopConn
        /\ \E i \in DOMAIN freeConn :
              freeConn[i] = c /\ freeConn' = RemoveAt(freeConn, i)
        /\ UNCHANGED freeShortopConn
  /\ UNCHANGED <<inUseShortopConn, inUseConn, inUseOnetimeuseConn, pc, held,
                 mounted, connReuse, lost>>

\* Variant: the parked short-operation connection is forgotten.
PooledButShort == Free \cup inUseOnetimeuseConn
                    \cup (({inUseShortopConn} \cup {inUseConn[i] : i \in Slot})
                            \ {NoConn})

Pooled == Free \cup inUseOnetimeuseConn
            \cup (({inUseShortopConn, freeShortopConn}
                     \cup {inUseConn[i] : i \in Slot}) \ {NoConn})

\* fuse_main has returned: the timer thread is joined and no request runs,
\* but handles may be open.  iFuseFdDestroy closes those, iFuseConnDestroy
\* (_freeAllConn) frees what the pool knows.
Unmount ==
  /\ PoolUnlocked
  /\ \A s \in Session : pc[s] \in {"idle", "open"}
  /\ FreeObjects(Pooled)
  /\ inUseShortopConn' = NoConn
  /\ freeShortopConn' = NoConn
  /\ inUseConn' = [i \in Slot |-> NoConn]
  /\ inUseOnetimeuseConn' = {}
  /\ freeConn' = <<>>
  /\ removeList' = {}
  /\ pc' = [s \in Session |-> "idle"]
  /\ held' = [s \in Session |-> NoConn]
  /\ mounted' = FALSE
  /\ UNCHANGED connReuse
  /\ lost' = [c \in Conn |-> 0]

\* A new mount (iFuseConnInit) finds the pool empty and has its own option.
Mount == /\ ~mounted
         /\ mounted' = TRUE
         /\ connReuse' \in BOOLEAN
         /\ UNCHANGED <<objVars, poolVars, pc, held, lost>>

SessionStep(s) ==
  \/ \E u \in Use : GetAndUse(s, u)
  \/ Reconnect(s)
  \/ OpenSucceeds(s)
  \/ OpenFails(s)
  \/ CloseAbandoned(s)
  \/ Unuse(s)

Next == \/ \E s \in Session : SessionStep(s)
        \/ Tick
        \/ CheckIdle
        \/ \E c \in Conn : Reap(c)
        \/ Unmount
        \/ Mount

Spec == Init /\ [][Next]_vars

\* The timer thread keeps running and time passes; requests owe nothing.
FairSpec == Spec /\ WF_vars(Tick) /\ WF_vars(CheckIdle)
                 /\ WF_vars(\E c \in Conn : Reap(c))

----------------------------------------------------------------------------
(* Properties *)

Holders(c) == {s \in Session : held[s] = c /\ pc[s] # "freeing"}

\* The reference count is exact: every reference is a session that will give
\* it back, or one that was dropped on an error path (history variable lost).
\* inuseCnt decides when a connection is parked, shared or freed.
RefCount ==
  \A c \in Conn : inuseCnt[c] = Cardinality(Holders(c)) + lost[c]

\* Nobody holds or reaches an object after _freeConn has freed it: not the
\* pool's five places, not the removal list, not a session.
NoDangling ==
  Pooled \cup removeList \cup ({held[s] : s \in Session} \ {NoConn})
     \subseteq allocated

Is(c, t) == c \in allocated /\ connType[c] = t

FileHome ==
  /\ \A i, j \in Slot : inUseConn[i] = inUseConn[j] /\ inUseConn[i] # NoConn
                           => i = j
  /\ IsInjective(freeConn)
  /\ \A c \in Conn :
       /\ (\E i \in Slot : inUseConn[i] = c) <=> Is(c, "FILE_IO") /\ inuseCnt[c] > 0
       /\ c \in Free <=> Is(c, "FILE_IO") /\ inuseCnt[c] = 0

ShortHome ==
  /\ inUseShortopConn = NoConn \/ freeShortopConn = NoConn
  /\ \A c \in Conn :
       /\ inUseShortopConn = c <=> Is(c, "SHORTOP") /\ inuseCnt[c] > 0
       /\ freeShortopConn = c <=> Is(c, "SHORTOP") /\ inuseCnt[c] = 0

OnetimeHome ==
  \A c \in Conn :
    /\ c \in inUseOnetimeuseConn <=> Is(c, "ONETIMEUSE") /\ inuseCnt[c] > 0
    /\ Is(c, "ONETIMEUSE") /\ inuseCnt[c] = 0
         => \E s \in Session : held[s] = c /\ pc[s] = "freeing"

\* Every connection is in exactly one place of the pool, the one that its
\* type and its reference count say, and the pool never loses sight of one:
\* only a one-time connection that is just being freed is in none.
PlacedOnce == FileHome /\ ShortHome /\ OnetimeHome

\* The assertions of iFuseConnUnuse (Conn.cpp:692, 697, 698): the last user
\* of a short-operation connection finds it in use and no other one parked.
UnuseAssertions ==
  \A s \in Session :
    pc[s] \in {"calling", "open"} =>
      /\ inuseCnt[held[s]] >= 1
      /\ connType[held[s]] = "SHORTOP" =>
           /\ inUseShortopConn = held[s]
           /\ freeShortopConn = NoConn

\* The connections for file I/O, in use and parked together, never exceed
\* the slots, and there is one connection for short operations.
PoolBounded ==
  /\ Cardinality({c \in allocated : connType[c] = "FILE_IO"}) <= MaxConnNum
  /\ Cardinality({c \in allocated : connType[c] = "SHORTOP"}) <= 1

\* A file shares a connection with another one only when no connection is
\* parked idle: the parked ones are used up before sharing starts.
SharedOnlyWhenNoneFree ==
  [][\A c \in Conn : connType[c] = "FILE_IO" /\ inuseCnt[c] > 0
        /\ inuseCnt'[c] > inuseCnt[c] => freeConn = <<>>]_vars

\* "After the timeout, idle connections will be automatically closed"
\* (README.md:170-172): a parked connection is used again or closed.
ParkedIsReusedOrClosed == \A c \in Conn : c \in Free ~> c \notin Free

\* After the process has ended no connection is left open.
UnmountClosesAll == ~mounted => allocated = {}

\* The pool implements the lease contract of ConnLease: a one-time connection
\* is private, and what a session is just freeing it has given back.
PrivateConns == {c \in allocated : connType[c] = "ONETIMEUSE"}
LeaseOf == [s \in Session |-> IF pc[s] = "freeing" THEN NoConn ELSE held[s]]

Lease == INSTANCE ConnLease WITH
  established <- allocated, private <- PrivateConns, lease <- LeaseOf

LeaseSpec == Lease!Spec

----------------------------------------------------------------------------
(* The inductive invariant.  PlacedOnce and RefCount carry it; the other
   parts say what the two unfinished operations (a one-time connection being
   freed, the idle check) may rely on. *)

\* A session holds a connection exactly while it is busy, and a connection
\* is freed by one session, which is its last user.
SessionInv ==
  /\ \A s \in Session : held[s] = NoConn <=> pc[s] = "idle"
  /\ \A s \in Session : pc[s] = "freeing" =>
        Is(held[s], "ONETIMEUSE") /\ inuseCnt[held[s]] = 0
  /\ \A s, t \in Session : pc[s] = "freeing" /\ pc[t] = "freeing"
        /\ held[s] = held[t] => s = t

\* The idle check frees parked connections only.
ReapInv == \A c \in removeList : c \in Free \/ c = freeShortopConn

\* calloc: an object that does not exist yet counts no user.
FreshInv == \A c \in Conn \ allocated : inuseCnt[c] = 0

IInv == /\ TypeOK
        /\ SessionInv
        /\ RefCount
        /\ NoDangling
        /\ PlacedOnce
        /\ ReapInv
        /\ FreshInv
        /\ UnmountClosesAll

=============================================================================
