----------------------------- MODULE FdSession -----------------------------
(***************************************************************************)
(* Open files, iFuse.Lib.Fd.cpp, and what iFuse.FS.cpp does with them.     *)
(* The server side of a connection (its agent) has a table of open files,  *)
(* each with a position; a handle remembers its number in that table and,  *)
(* in lastFilePointer, the position it should have.  A connection that     *)
(* breaks takes its agent with it: iFuseConnReconnect gives the same       *)
(* connection object a new agent, with an empty table, and the call is     *)
(* made again with the old number.                                         *)
(* A close that the server refuses is only logged: the handle is gone, its *)
(* file stays open at the agent, and is nobody's.                          *)
(* A connection is private to its handle, or with --connreuse shared by    *)
(* all of them (ConnPool has the choice); calls that the server does not   *)
(* answer are in ApiTimeout.                                               *)
(***************************************************************************)
EXTENDS Naturals, FiniteSets

CONSTANTS
    Handle,       \* iFuseFd_t objects
    Request,      \* threads
    NoOne,        \* holds a lock that is free, or has a file left open
    Common,       \* the connection of all handles, when it is shared
    Numbers,      \* bound of this model: how many files an agent can open
    FileSize,     \* bound of this model: how long a file is
    Setting       \* kinds of use

ASSUME NameAssumption ==
    NoOne \notin Request \cup Handle /\ Common \notin Handle
ASSUME NumbersAssumption ==
    Numbers \in Nat /\ FileSize \in Nat
ASSUME SettingAssumption ==
    Setting \subseteq [shared : BOOLEAN,    \* --connreuse, at its limit
                      breaks : BOOLEAN,    \* connections break
                      refuses : BOOLEAN,   \* the server refuses what it likes
                      handles : SUBSET Handle]    \* those that are opened

Number == 1..Numbers
Conn == Handle \cup {Common}
NoPos == FileSize + 9
Pos == 0..FileSize
Closed == [of |-> NoOne, pos |-> NoPos]
NoRequest == [op |-> "none", h |-> NoOne, off |-> NoPos]

VARIABLES
    setting,
    \* --- connections and their agents
    comm,         \* "up", "lost", or "null": conn of the iFuseConn_t is NULL
    agent,        \* the files an agent has open: whose handle, which position
    disturbed,    \* connections that a handle lost its file on
    \* --- handles
    fd, lastFilePointer,
    assigned,     \* g_AssignedFd
    unmounting,
    \* --- locks: who holds them
    tableLock, fdLock, connLock,
    \* --- requests
    req, pc,
    retried,      \* those that have reconnected in the call they are in
    touched       \* what the bytes of a read or write were read from or put in

connVars == <<comm, agent, disturbed>>
handleVars == <<fd, lastFilePointer, assigned, unmounting>>
lockVars == <<tableLock, fdLock, connLock>>
vars == <<setting, connVars, handleVars, lockVars, req, pc, retried, touched>>

Empty == [n \in Number |-> Closed]

ConnOf(h) == IF setting.shared THEN Common ELSE h

On(h) == {r \in Request : req[r].h = h}

(* The handles that keep connection c in use.                              *)
Users(c) == {h \in Handle : ConnOf(h) = c /\ (h \in assigned \/ On(h) # {})}

Init ==
    /\ setting \in Setting
    /\ comm = [c \in Conn |-> "up"]
    /\ agent = [c \in Conn |-> Empty]
    /\ disturbed = {}
    /\ fd = [h \in Handle |-> 0]
    /\ lastFilePointer = [h \in Handle |-> NoPos]
    /\ assigned = {} /\ unmounting = FALSE
    /\ tableLock = NoOne
    /\ fdLock = [h \in Handle |-> NoOne]
    /\ connLock = [c \in Conn |-> NoOne]
    /\ req = [r \in Request |-> NoRequest]
    /\ pc = [r \in Request |-> "idle"]
    /\ retried = {}
    /\ touched = [r \in Request |-> Closed]

Goto(r, l) == pc' = [pc EXCEPT ![r] = l]

-----------------------------------------------------------------------------
(* Requests begin: iFuseFsOpen, iFuseFsRead and iFuseFsWrite, iFuseFsFlush,*)
(* iFuseFsClose.  The kernel closes a handle when nothing else uses it.    *)

(* iFuseConnGetAndUse returns a new connection, or the shared one as it    *)
(* is: parked, or in use.                                                  *)
BeginOpen(r, h) ==
    LET c == ConnOf(h)
    IN  /\ pc[r] = "idle" /\ ~unmounting
        /\ h \in setting.handles \ assigned /\ On(h) = {}
        /\ req' = [req EXCEPT ![r] = [op |-> "open", h |-> h, off |-> NoPos]]
        /\ Goto(r, "conn")
        /\ \/ /\ Users(c) = {}
              /\ comm' = [comm EXCEPT ![c] = "up"]
              /\ agent' = [agent EXCEPT ![c] = Empty]
           \/ setting.shared /\ UNCHANGED <<comm, agent>>
        /\ UNCHANGED <<setting, disturbed, handleVars, lockVars, retried, touched>>

BeginIO(r, h) ==
    /\ pc[r] = "idle" /\ ~unmounting
    /\ h \in assigned /\ \A o \in On(h) : req[o].op # "close"
    /\ \/ /\ \E off \in Pos :
              req' = [req EXCEPT ![r] = [op |-> "io", h |-> h, off |-> off]]
       \/ req' = [req EXCEPT ![r] = [op |-> "flush", h |-> h, off |-> NoPos]]
    /\ Goto(r, "fd")
    /\ UNCHANGED <<setting, connVars, handleVars, lockVars, retried, touched>>

BeginClose(r, h) ==
    /\ pc[r] = "idle"
    /\ h \in assigned /\ On(h) = {}
    /\ unmounting => \A o \in Request : pc[o] = "idle"
    /\ req' = [req EXCEPT ![r] = [op |-> "close", h |-> h, off |-> NoPos]]
    /\ Goto(r, "table")
    /\ UNCHANGED <<setting, connVars, handleVars, lockVars, retried, touched>>

-----------------------------------------------------------------------------
(* Locks, in their order: g_AssignedFdLock, the handle, the connection *)

TakeTable(r) ==
    /\ pc[r] = "table" /\ tableLock = NoOne
    /\ tableLock' = r
    /\ Goto(r, "fd")
    /\ UNCHANGED <<setting, connVars, handleVars, fdLock, connLock, req, retried, touched>>

(* Variant: nobody waits for another request on the handle. *)
TakeFdShared(r) ==
    /\ pc[r] = "fd"
    /\ fdLock' = [fdLock EXCEPT ![req[r].h] = r]
    /\ Goto(r, "conn")
    /\ UNCHANGED <<setting, connVars, handleVars, tableLock, connLock, req, retried, touched>>

TakeFd(r) ==
    /\ pc[r] = "fd" /\ fdLock[req[r].h] = NoOne
    /\ fdLock' = [fdLock EXCEPT ![req[r].h] = r]
    /\ Goto(r, "conn")
    /\ UNCHANGED <<setting, connVars, handleVars, tableLock, connLock, req, retried, touched>>

(* The first call to the server: a read or write at the place where the    *)
(* file is already needs no seek.                                          *)
FirstCall(q) ==
    CASE q.op = "io" -> IF lastFilePointer[q.h] # q.off THEN "seek" ELSE "data"
      [] q.op = "flush" -> "reclose"
      [] OTHER -> q.op

TakeConn(r) ==
    LET c == ConnOf(req[r].h)
    IN  /\ pc[r] = "conn" /\ connLock[c] = NoOne
        /\ connLock' = [connLock EXCEPT ![c] = r]
        /\ Goto(r, FirstCall(req[r]))
        /\ UNCHANGED <<setting, connVars, handleVars, tableLock, fdLock, req, retried, touched>>

-----------------------------------------------------------------------------
(* A call to the server *)

Calling(r) == pc[r] \in {"open", "seek", "data", "reclose", "reopen", "close"}

Breaks(c) ==
    \/ comm[c] = "lost"
    \/ comm[c] = "up" /\ setting.breaks

Rejoined(r) == retried' = retried \ {r}

(* What an operation does about a call that failed for good.  A reopen     *)
(* that could close the file and not open it keeps the number of the       *)
(* closed one.                                                             *)
Fail(r) ==
    /\ Goto(r, "unlock")
    /\ lastFilePointer' =
         IF pc[r] = "seek" THEN [lastFilePointer EXCEPT ![req[r].h] = NoPos]
                           ELSE lastFilePointer
    /\ UNCHANGED <<fd, assigned, unmounting>>

(* The call finds the connection broken.  iFuseConnReconnect replaces it,  *)
(* or leaves NULL, and unlocks what its caller has locked.  The call is    *)
(* then made again.                                                        *)
Reconnect(r) ==
    LET c == ConnOf(req[r].h)
    IN  /\ Calling(r) /\ r \notin retried
        /\ Breaks(c)
        /\ agent' = [agent EXCEPT ![c] = Empty]
        /\ disturbed' = disturbed \cup {c}
        /\ connLock' = [connLock EXCEPT ![c] = NoOne]
        /\ \/ /\ comm' = [comm EXCEPT ![c] = "up"]
              /\ retried' = retried \cup {r}
              /\ UNCHANGED <<pc, handleVars>>
           \/ /\ comm' = [comm EXCEPT ![c] = "null"]
              /\ Fail(r)
              /\ UNCHANGED retried
        /\ UNCHANGED <<setting, tableLock, fdLock, req, touched>>

(* There is no second reconnect in one call.                               *)
BrokenAgain(r) ==
    LET c == ConnOf(req[r].h)
    IN  /\ Calling(r) /\ r \in retried
        /\ Breaks(c)
        /\ agent' = [agent EXCEPT ![c] = Empty]
        /\ comm' = [comm EXCEPT ![c] = "lost"]
        /\ disturbed' = disturbed \cup {c}
        /\ Fail(r)
        /\ UNCHANGED <<setting, lockVars, req, retried, touched>>

(* The entry of the agent's table that a call is about.                    *)
Entry(h) == IF fd[h] = 0 THEN Closed ELSE agent[ConnOf(h)][fd[h]]

Full(c) == \A n \in Number : agent[c][n] # Closed

(* The server has no such number, or none left, or refuses for reasons of  *)
(* its own, also a close; no call goes out without a connection.           *)
Refused(r) ==
    LET c == ConnOf(req[r].h)
    IN  /\ Calling(r)
        /\ \/ comm[c] = "null"
           \/ comm[c] = "up" /\ setting.refuses
           \/ comm[c] = "up" /\ pc[r] \in {"open", "reopen"} /\ Full(c)
           \/ comm[c] = "up" /\ pc[r] \notin {"open", "reopen"} /\ Entry(req[r].h) = Closed
        /\ disturbed' = IF pc[r] = "reopen" THEN disturbed \cup {c} ELSE disturbed
        /\ Fail(r)
        /\ UNCHANGED <<setting, comm, agent, lockVars, req, retried, touched>>

-----------------------------------------------------------------------------
(* The calls that succeed *)

Succeeds(r) ==
    /\ comm[ConnOf(req[r].h)] = "up"
    /\ pc[r] \in {"open", "reopen"} \/ Entry(req[r].h) # Closed
    /\ Rejoined(r)
    /\ UNCHANGED <<setting, comm, disturbed, assigned, unmounting, lockVars, req>>

LowestFree(c, n) ==
    /\ agent[c][n] = Closed
    /\ \A i \in Number : agent[c][i] = Closed => n <= i

(* Variant: the number that the file had is kept. *)
OpenKept(r) ==
    LET h == req[r].h
        c == ConnOf(h)
    IN  /\ pc[r] \in {"open", "reopen"} /\ Succeeds(r)
        /\ \E n \in Number :
              /\ LowestFree(c, n)
              /\ agent' = [agent EXCEPT ![c][n] = [of |-> h, pos |-> 0]]
              /\ fd' = [fd EXCEPT ![h] = IF pc[r] = "reopen" THEN @ ELSE n]
        /\ Goto(r, "unlock")
        /\ UNCHANGED <<lastFilePointer, touched>>

(* The agent takes the lowest number that is free.                         *)
Open(r) ==
    LET h == req[r].h
        c == ConnOf(h)
    IN  /\ pc[r] \in {"open", "reopen"} /\ Succeeds(r)
        /\ \E n \in Number :
              /\ LowestFree(c, n)
              /\ agent' = [agent EXCEPT ![c][n] = [of |-> h, pos |-> 0]]
              /\ fd' = [fd EXCEPT ![h] = n]
        /\ Goto(r, "unlock")
        /\ UNCHANGED <<lastFilePointer, touched>>

Seek(r) ==
    LET h == req[r].h
    IN  /\ pc[r] = "seek" /\ Succeeds(r)
        /\ agent' = [agent EXCEPT ![ConnOf(h)][fd[h]].pos = req[r].off]
        /\ lastFilePointer' = [lastFilePointer EXCEPT ![h] = req[r].off]
        /\ Goto(r, "data")
        /\ UNCHANGED <<fd, touched>>

(* One byte, or none at the end of the file.                               *)
Data(r) ==
    LET h == req[r].h
        n == IF Entry(h).pos = FileSize THEN 0 ELSE 1
    IN  /\ pc[r] = "data" /\ Succeeds(r)
        /\ agent' = [agent EXCEPT ![ConnOf(h)][fd[h]].pos = @ + n]
        /\ lastFilePointer' = [lastFilePointer EXCEPT ![h] = @ + n]
        /\ touched' = [touched EXCEPT ![r] = Entry(h)]
        /\ Goto(r, "unlock")
        /\ UNCHANGED fd

(* Variant: the position is taken to be what it was. *)
RecloseKept(r) ==
    LET h == req[r].h
    IN  /\ pc[r] = "reclose" /\ Succeeds(r)
        /\ agent' = [agent EXCEPT ![ConnOf(h)][fd[h]] = Closed]
        /\ Goto(r, "reopen")
        /\ UNCHANGED <<fd, lastFilePointer, touched>>

(* iFuseFdReopen, before it opens.                                         *)
Reclose(r) ==
    LET h == req[r].h
    IN  /\ pc[r] = "reclose" /\ Succeeds(r)
        /\ agent' = [agent EXCEPT ![ConnOf(h)][fd[h]] = Closed]
        /\ lastFilePointer' = [lastFilePointer EXCEPT ![h] = NoPos]
        /\ Goto(r, "reopen")
        /\ UNCHANGED <<fd, touched>>

Close(r) ==
    LET h == req[r].h
    IN  /\ pc[r] = "close" /\ Succeeds(r)
        /\ agent' = [agent EXCEPT ![ConnOf(h)][fd[h]] = Closed]
        /\ Goto(r, "unlock")
        /\ UNCHANGED <<fd, lastFilePointer, touched>>

-----------------------------------------------------------------------------
(* The end of a request.  An unlock frees the lock whoever holds it: after *)
(* a reconnect that may be another request.                                *)

Idle(r) ==
    /\ Goto(r, "idle")
    /\ req' = [req EXCEPT ![r] = NoRequest]
    /\ touched' = [touched EXCEPT ![r] = Closed]

(* The file of a handle that goes, if the close has left it open.          *)
Abandon(h) ==
    IF Entry(h).of = h THEN [agent EXCEPT ![ConnOf(h)][fd[h]].of = NoOne] ELSE agent

(* A connection that nothing uses any more is parked, or ended.            *)
LetGo(r) ==
    LET h == req[r].h
        c == ConnOf(h)
        last == Users(c) = {h}
    IN  /\ disturbed' = IF last THEN disturbed \ {c} ELSE disturbed
        /\ IF last /\ ~setting.shared
           THEN /\ agent' = [agent EXCEPT ![c] = Empty]
                /\ comm' = [comm EXCEPT ![c] = "up"]
           ELSE agent' = Abandon(h) /\ UNCHANGED comm

UnlockConn(r) ==
    /\ pc[r] = "unlock"
    /\ Rejoined(r)
    /\ connLock' = [connLock EXCEPT ![ConnOf(req[r].h)] = NoOne]

EndIO(r) ==
    /\ req[r].op \in {"io", "flush"} /\ UnlockConn(r)
    /\ fdLock' = [fdLock EXCEPT ![req[r].h] = NoOne]
    /\ Idle(r)
    /\ UNCHANGED <<setting, connVars, handleVars, tableLock>>

(* Variant: the file counts as open whatever the server said. *)
EndOpenAny(r) ==
    /\ req[r].op = "open" /\ UnlockConn(r)
    /\ Goto(r, "enter")
    /\ UNCHANGED <<setting, connVars, handleVars, tableLock, fdLock, req, touched>>

(* An open that failed leaves its connection in use (ConnPool).            *)
EndOpen(r) ==
    LET c == ConnOf(req[r].h)
    IN  /\ req[r].op = "open" /\ UnlockConn(r)
        /\ IF fd[req[r].h] = 0
           THEN /\ Idle(r)
                /\ disturbed' = IF Users(c) = {req[r].h} THEN disturbed \ {c} ELSE disturbed
           ELSE Goto(r, "enter") /\ UNCHANGED <<req, touched, disturbed>>
        /\ UNCHANGED <<setting, comm, agent, handleVars, tableLock, fdLock>>

(* Into g_AssignedFd.                                                      *)
Enter(r) ==
    /\ pc[r] = "enter" /\ tableLock = NoOne
    /\ assigned' = assigned \cup {req[r].h}
    /\ Idle(r)
    /\ UNCHANGED <<setting, connVars, fd, lastFilePointer, unmounting, lockVars, retried>>

(* Variant: the lock of the table is kept when the close fails. *)
EndCloseKept(r) ==
    LET h == req[r].h
    IN  /\ req[r].op = "close" /\ UnlockConn(r)
        /\ fd' = [fd EXCEPT ![h] = 0]
        /\ lastFilePointer' = [lastFilePointer EXCEPT ![h] = NoPos]
        /\ assigned' = assigned \ {h}
        /\ fdLock' = [fdLock EXCEPT ![h] = NoOne]
        /\ tableLock' = IF comm[ConnOf(h)] = "null" THEN tableLock ELSE NoOne
        /\ LetGo(r) /\ Idle(r)
        /\ UNCHANGED <<setting, unmounting>>

(* Whatever the server said, the handle is gone.                           *)
EndClose(r) ==
    LET h == req[r].h
    IN  /\ req[r].op = "close" /\ UnlockConn(r)
        /\ fd' = [fd EXCEPT ![h] = 0]
        /\ lastFilePointer' = [lastFilePointer EXCEPT ![h] = NoPos]
        /\ assigned' = assigned \ {h}
        /\ fdLock' = [fdLock EXCEPT ![h] = NoOne]
        /\ tableLock' = NoOne
        /\ LetGo(r) /\ Idle(r)
        /\ UNCHANGED <<setting, unmounting>>

(* iFuseFdDestroy closes one handle after the other, after the last        *)
(* request; then the connections end, and the file system may be mounted   *)
(* again.                                                                  *)
StartUnmount ==
    /\ ~unmounting /\ \A r \in Request : pc[r] = "idle"
    /\ unmounting' = TRUE
    /\ UNCHANGED <<setting, connVars, fd, lastFilePointer, assigned, lockVars,
                   req, pc, retried, touched>>

Remount ==
    /\ unmounting /\ assigned = {} /\ \A r \in Request : pc[r] = "idle"
    /\ unmounting' = FALSE
    /\ comm' = [c \in Conn |-> "up"]
    /\ agent' = [c \in Conn |-> Empty]
    /\ UNCHANGED <<setting, disturbed, fd, lastFilePointer, assigned, lockVars,
                   req, pc, retried, touched>>

LockStep(r) == TakeTable(r) \/ TakeFd(r) \/ TakeConn(r) \/ Enter(r)

CallStep(r) ==
    \/ Reconnect(r) \/ BrokenAgain(r) \/ Refused(r)
    \/ Open(r) \/ Seek(r) \/ Data(r) \/ Reclose(r) \/ Close(r)
    \/ EndIO(r) \/ EndOpen(r) \/ EndClose(r)

Begin(r) == \E h \in Handle : BeginOpen(r, h) \/ BeginIO(r, h) \/ BeginClose(r, h)

Next ==
    \/ \E r \in Request : Begin(r) \/ LockStep(r) \/ CallStep(r)
    \/ StartUnmount \/ Remount

Spec == Init /\ [][Next]_vars

(* The server answers, by itself or cut off by the watchdog; a lock that   *)
(* is free again and again is granted in the end.                          *)
FairSpec ==
    /\ Spec
    /\ \A r \in Request : SF_vars(LockStep(r) \/ CallStep(r))

-----------------------------------------------------------------------------
(* Properties *)

Places == {"idle", "table", "fd", "conn", "open", "seek", "data", "reclose",
           "reopen", "close", "unlock", "enter"}

(* Where a request of each kind can be.                                    *)
Placed(r) ==
    /\ req[r].op = "none" => pc[r] = "idle"
    /\ req[r].op = "open" => pc[r] \in {"conn", "open", "unlock", "enter"}
    /\ req[r].op = "io" => pc[r] \in {"fd", "conn", "seek", "data", "unlock"}
    /\ req[r].op = "flush" => pc[r] \in {"fd", "conn", "reclose", "reopen", "unlock"}
    /\ req[r].op = "close" => pc[r] \in {"table", "fd", "conn", "close", "unlock"}

TypeOK ==
    /\ setting \in Setting
    /\ comm \in [Conn -> {"up", "lost", "null"}]
    /\ agent \in [Conn -> [Number -> {Closed} \cup [of : Handle \cup {NoOne}, pos : Pos]]]
    /\ disturbed \subseteq Conn
    /\ fd \in [Handle -> 0..Numbers]
    /\ lastFilePointer \in [Handle -> 0..(FileSize + 1) \cup {NoPos}]
    /\ assigned \subseteq {h \in Handle : fd[h] # 0} /\ unmounting \in BOOLEAN
    /\ tableLock \in Request \cup {NoOne}
    /\ fdLock \in [Handle -> Request \cup {NoOne}]
    /\ connLock \in [Conn -> Request \cup {NoOne}]
    /\ retried \subseteq {r \in Request : pc[r] \notin {"idle", "enter"}}
    /\ touched \in [Request -> {Closed} \cup [of : Handle \cup {NoOne}, pos : Pos]]
    /\ req \in [Request -> [op : {"none", "open", "io", "flush", "close"},
                            h : Handle \cup {NoOne}, off : Pos \cup {NoPos}]]
    /\ pc \in [Request -> Places]
    /\ \A r \in Request : Placed(r)

(* The bytes of a read or write come from the file the handle was opened   *)
(* for, and from the offset that was asked for.                            *)
Own(r) == touched[r] # Closed => touched[r] = [of |-> req[r].h, pos |-> req[r].off]

(* So it is whenever the connection is private to the handle, also after   *)
(* it was replaced, and on a shared one as long as no handle has lost its  *)
(* file.  Two requests on one handle depend on its lock for this, since    *)
(* the seek and the transfer are two calls.                                *)
OwnFile ==
    \A r \in Request :
        ~setting.shared \/ ConnOf(req[r].h) \notin disturbed => Own(r)

(* After writing or reading a file one gets back the same bytes (test at   *)
(* src/test/test_fuse.py:54): so for every request, whatever happened to   *)
(* the connection.                                                         *)
AlwaysOwn == \A r \in Request : Own(r)

(* A position that is remembered is the one at the server, so that leaving *)
(* out the seek is right.                                                  *)
PointerTrue ==
    \A h \in assigned :
        /\ fdLock[h] = NoOne /\ lastFilePointer[h] # NoPos
        /\ ConnOf(h) \notin disturbed
        => Entry(h) = [of |-> h, pos |-> lastFilePointer[h]]

(* On a connection that no handle lost its file on, each handle has its    *)
(* file, and no other handle's: what the agent has open besides was left   *)
(* by closes that the server refused, and is nobody's.  A private          *)
(* connection takes that with it, and where the server refuses nothing the *)
(* table of a parked connection is empty.                                  *)
DescriptorsExact ==
    \A c \in Conn \ disturbed :
        (\A h \in Users(c) : On(h) = {}) =>
            /\ \A h \in Users(c) : Entry(h).of = h
            /\ Cardinality({n \in Number : agent[c][n].of # NoOne}) = Cardinality(Users(c))
            /\ \A n \in Number :
                 ~(setting.shared /\ setting.refuses) /\ agent[c][n].of = NoOne
                   => agent[c][n] = Closed

(* Every request ends: none waits for ever under the lock of the table of  *)
(* open files, of a handle and of a connection.                            *)
RequestsEnd == \A r \in Request : pc[r] # "idle" ~> pc[r] = "idle"

=============================================================================
