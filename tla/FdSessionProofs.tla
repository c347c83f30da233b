-------------------------- MODULE FdSessionProofs --------------------------
(***************************************************************************)
(* That a request reaches its own file at its own offset, proved for any   *)
(* number of handles and requests, any size of file, private connections   *)
(* or a shared one, and connections that break at any call; and what the   *)
(* server has open.                                                        *)
(***************************************************************************)
EXTENDS FdSession, FiniteSetTheorems, TLAPS

(* A request on a handle that has passed the lock of the handle.           *)
Inside(r) == req[r].op \in {"io", "flush", "close"} /\ pc[r] \notin {"table", "fd"}

LockInv == \A r \in Request : Inside(r) => fdLock[req[r].h] = r

(* Opening and closing are alone on their handle; what is in between is in *)
(* the table.                                                              *)
UseInv ==
    \A r \in Request :
        /\ req[r].op # "none" => req[r].h \in Handle
        /\ req[r].op = "none" => req[r].h = NoOne
        /\ req[r].op = "io" => req[r].off \in Pos
        /\ req[r].op = "open" => req[r].h \notin assigned
        /\ req[r].op \in {"io", "flush", "close"} => req[r].h \in assigned
        /\ req[r].op \in {"open", "close"} =>
              \A o \in Request : req[o].h = req[r].h => o = r

(* Only handles in use have a number.                                      *)
NumberInv ==
    /\ \A h \in Handle : fd[h] # 0 => h \in assigned \/ \E r \in Request : req[r].h = h
    /\ \A h \in Handle : fd[h] = 0 => lastFilePointer[h] = NoPos
    /\ \A r \in Request :
          req[r].op = "open" =>
              /\ pc[r] \in {"conn", "open"} => fd[req[r].h] = 0
              /\ pc[r] = "enter" => fd[req[r].h] # 0

(* A transfer begins where the seek has put the position.                  *)
PointerInv ==
    \A r \in Request :
        /\ pc[r] = "data" => lastFilePointer[req[r].h] = req[r].off
        /\ pc[r] = "reopen" => lastFilePointer[req[r].h] = NoPos

(* The number of a handle is that of its file, at the position it thinks.  *)
OwnEntry(h) ==
    /\ Entry(h).of = h
    /\ lastFilePointer[h] # NoPos => Entry(h).pos = lastFilePointer[h]

(* Between the two halves of a reopen, and at the end of a close, a handle *)
(* has no file.                                                            *)
HasFile(h) ==
    /\ fd[h] # 0
    /\ \A r \in Request : req[r].h = h =>
          pc[r] # "reopen" /\ ~(req[r].op = "close" /\ pc[r] = "unlock")

FileInv ==
    \A h \in Handle : HasFile(h) /\ ConnOf(h) \notin disturbed => OwnEntry(h)

(* A private agent never has another file under the number, if it has one. *)
PrivateInv ==
    ~setting.shared =>
        \A h \in Handle : fd[h] # 0 => Entry(h) = Closed \/ OwnEntry(h)

TouchInv ==
    \A r \in Request :
        touched[r] # Closed =>
            /\ req[r].op = "io" /\ pc[r] = "unlock"
            /\ ~setting.shared \/ ConnOf(req[r].h) \notin disturbed => Own(r)

IInv ==
    /\ TypeOK
    /\ LockInv
    /\ UseInv
    /\ NumberInv
    /\ PointerInv
    /\ FileInv
    /\ PrivateInv
    /\ TouchInv

-----------------------------------------------------------------------------

(* The entry of a handle is one of its agent.                              *)
LEMMA EntryType ==
  ASSUME TypeOK, NEW h \in Handle
  PROVE  /\ ConnOf(h) \in Conn
         /\ fd[h] # 0 => fd[h] \in Number /\ Entry(h) = agent[ConnOf(h)][fd[h]]
         /\ Entry(h) \in {Closed} \cup [of : Handle \cup {NoOne}, pos : Pos]
<1>1. ConnOf(h) \in Conn
  BY DEF ConnOf, Conn
<1>2. fd[h] # 0 => fd[h] \in Number
  BY NumbersAssumption DEF TypeOK, Number
<1>3. fd[h] # 0 => agent[ConnOf(h)][fd[h]] \in {Closed} \cup [of : Handle \cup {NoOne}, pos : Pos]
  BY <1>1, <1>2 DEF TypeOK
<1> QED
  BY <1>1, <1>2, <1>3 DEF Entry

(* What was asked for is what is touched, when the file is the right one.  *)
LEMMA IInvOwnFile == IInv => OwnFile
  BY DEF IInv, TouchInv, OwnFile, Own

(* A handle that nobody uses has its file, when its connection is whole.   *)
LEMMA IInvPointerTrue == IInv => PointerTrue
<1> SUFFICES ASSUME IInv, NEW h \in assigned, fdLock[h] = NoOne,
                    lastFilePointer[h] # NoPos, ConnOf(h) \notin disturbed
             PROVE  Entry(h) = [of |-> h, pos |-> lastFilePointer[h]]
  BY DEF PointerTrue
<1>1. h \in Handle /\ fd[h] # 0
  BY DEF IInv, TypeOK
<1>2. \A r \in Request : req[r].h = h => ~Inside(r)
  BY NameAssumption DEF IInv, LockInv
<1>3. \A r \in Request : req[r].h = h => req[r].op # "open"
  BY DEF IInv, UseInv
<1>4. HasFile(h)
  BY <1>1, <1>2, <1>3 DEF HasFile, Inside, IInv, TypeOK, Placed
<1>5. OwnEntry(h)
  BY <1>1, <1>4 DEF IInv, FileInv
<1>6. Entry(h) \in {Closed} \cup [of : Handle \cup {NoOne}, pos : Pos]
  BY <1>1, EntryType DEF IInv
<1>7. Entry(h) # Closed
  BY <1>1, <1>5, NameAssumption DEF OwnEntry, Closed
<1> QED
  BY <1>5, <1>6, <1>7 DEF OwnEntry

-----------------------------------------------------------------------------

(* Nothing is open and nobody is there.                                    *)
LEMMA InitIInv == Init => IInv
<1> SUFFICES ASSUME Init PROVE IInv
  OBVIOUS
<1> USE NameAssumption, NumbersAssumption DEF Init, NoRequest
<1>1. TypeOK
  <2>1. agent \in [Conn -> [Number -> {Closed} \cup [of : Handle \cup {NoOne}, pos : Pos]]]
    BY DEF Empty
  <2>2. lastFilePointer \in [Handle -> 0..(FileSize + 1) \cup {NoPos}]
    OBVIOUS
  <2>3. \A x \in Request : Placed(x)
    BY DEF Placed
  <2>4. /\ req \in [Request -> [op : {"none", "open", "io", "flush", "close"},
                              h : Handle \cup {NoOne}, off : Pos \cup {NoPos}]]
        /\ pc \in [Request -> Places]
    BY DEF Places
  <2>5. fd \in [Handle -> 0..Numbers] /\ assigned \subseteq {h \in Handle : fd[h] # 0}
    OBVIOUS
  <2>6. retried \subseteq {x \in Request : pc[x] \notin {"idle", "enter"}}
    OBVIOUS
  <2> QED
    BY <2>1, <2>2, <2>3, <2>4, <2>5, <2>6 DEF TypeOK
<1>2. UseInv /\ LockInv /\ PointerInv /\ NumberInv
  BY DEF UseInv, LockInv, Inside, PointerInv, NumberInv
<1>3. FileInv /\ PrivateInv /\ TouchInv
  BY DEF FileInv, HasFile, PrivateInv, TouchInv
<1> QED
  BY <1>1, <1>2, <1>3 DEF IInv

(* A step that leaves the agents, the numbers and the positions alone.     *)
LEMMA FilesKept ==
  ASSUME IInv, UNCHANGED <<setting, agent, disturbed, fd, lastFilePointer>>,
         \A h \in Handle : HasFile(h)' => HasFile(h)
  PROVE  FileInv' /\ PrivateInv'
  BY DEF IInv, FileInv, PrivateInv, OwnEntry, Entry, ConnOf

(* A request that begins has no lock yet.                                 *)
LEMMA BeginIOIInv ==
  ASSUME IInv, NEW r \in Request, NEW h \in Handle, BeginIO(r, h)
  PROVE  IInv'
<1> USE NameAssumption DEF IInv
<1>0. UNCHANGED <<setting, connVars, handleVars, lockVars, retried, touched>>
  BY DEF BeginIO
<1>1. /\ pc[r] = "idle" /\ h \in assigned
      /\ \A o \in Request : req[o].h = h => req[o].op # "close"
      /\ pc' = [pc EXCEPT ![r] = "fd"]
  BY DEF BeginIO, Goto, On
<1>2. PICK op \in {"io", "flush"}, off \in Pos \cup {NoPos} :
         /\ req' = [req EXCEPT ![r] = [op |-> op, h |-> h, off |-> off]]
         /\ op = "io" => off \in Pos
  BY DEF BeginIO
<1>3. TypeOK'
  BY <1>0, <1>1, <1>2 DEF TypeOK, Placed, Places, connVars, handleVars, lockVars
<1>4. UseInv'
  BY <1>0, <1>1, <1>2 DEF TypeOK, UseInv, handleVars
<1>5. LockInv'
  BY <1>0, <1>1, <1>2 DEF TypeOK, LockInv, Inside, lockVars
<1>6. NumberInv'
  BY <1>0, <1>1, <1>2 DEF TypeOK, NumberInv, UseInv, Placed, handleVars
<1>7. PointerInv'
  BY <1>0, <1>1, <1>2 DEF TypeOK, PointerInv, handleVars
<1>8. FileInv' /\ PrivateInv'
  BY <1>0, <1>1, <1>2, FilesKept DEF TypeOK, HasFile, connVars, handleVars, Placed
<1>9. TouchInv'
  BY <1>0, <1>1, <1>2 DEF TypeOK, TouchInv, Own, ConnOf, connVars
<1> QED
  BY <1>3, <1>4, <1>5, <1>6, <1>7, <1>8, <1>9

(* Nor has a close, and its handle has no other request.                   *)
LEMMA BeginCloseIInv ==
  ASSUME IInv, NEW r \in Request, NEW h \in Handle, BeginClose(r, h)
  PROVE  IInv'
<1> USE NameAssumption DEF IInv
<1>0. UNCHANGED <<setting, connVars, handleVars, lockVars, retried, touched>>
  BY DEF BeginClose
<1>1. /\ pc[r] = "idle" /\ h \in assigned
      /\ \A o \in Request : req[o].h # h
      /\ pc' = [pc EXCEPT ![r] = "table"]
      /\ req' = [req EXCEPT ![r] = [op |-> "close", h |-> h, off |-> NoPos]]
  BY DEF BeginClose, Goto, On
<1>3. TypeOK'
  BY <1>0, <1>1 DEF TypeOK, Placed, Places, connVars, handleVars, lockVars
<1>4. UseInv'
  BY <1>0, <1>1 DEF TypeOK, UseInv, handleVars
<1>5. LockInv'
  BY <1>0, <1>1 DEF TypeOK, LockInv, Inside, lockVars
<1>6. NumberInv'
  BY <1>0, <1>1 DEF TypeOK, NumberInv, UseInv, Placed, handleVars
<1>7. PointerInv'
  BY <1>0, <1>1 DEF TypeOK, PointerInv, handleVars
<1>8. FileInv' /\ PrivateInv'
  BY <1>0, <1>1, FilesKept DEF TypeOK, HasFile, connVars, handleVars, Placed
<1>9. TouchInv'
  BY <1>0, <1>1 DEF TypeOK, TouchInv, Own, ConnOf, connVars
<1> QED
  BY <1>3, <1>4, <1>5, <1>6, <1>7, <1>8, <1>9

(* A connection that nobody uses is replaced by a new one, or used again:  *)
(* no handle has a number on it.                                           *)
LEMMA BeginOpenIInv ==
  ASSUME IInv, NEW r \in Request, NEW h \in Handle, BeginOpen(r, h)
  PROVE  IInv'
<1> USE NameAssumption DEF IInv
<1>0. UNCHANGED <<setting, disturbed, handleVars, lockVars, retried, touched>>
  BY DEF BeginOpen
<1>1. /\ pc[r] = "idle" /\ h \notin assigned
      /\ \A o \in Request : req[o].h # h
      /\ pc' = [pc EXCEPT ![r] = "conn"]
      /\ req' = [req EXCEPT ![r] = [op |-> "open", h |-> h, off |-> NoPos]]
  BY DEF BeginOpen, Goto, On
<1>2. \/ UNCHANGED <<comm, agent>>
      \/ /\ Users(ConnOf(h)) = {}
         /\ comm' = [comm EXCEPT ![ConnOf(h)] = "up"]
         /\ agent' = [agent EXCEPT ![ConnOf(h)] = Empty]
  BY DEF BeginOpen
<1>3. TypeOK'
  <2>1. agent' \in [Conn -> [Number -> {Closed} \cup [of : Handle \cup {NoOne}, pos : Pos]]]
    <3>1. Empty \in [Number -> {Closed} \cup [of : Handle \cup {NoOne}, pos : Pos]]
      BY DEF Empty
    <3>2. agent \in [Conn -> [Number -> {Closed} \cup [of : Handle \cup {NoOne}, pos : Pos]]]
      BY DEF TypeOK
    <3> QED
      BY <1>2, <3>1, <3>2
  <2>2. comm' \in [Conn -> {"up", "lost", "null"}]
    BY <1>2 DEF TypeOK
  <2> QED
    BY <1>0, <1>1, <2>1, <2>2 DEF TypeOK, Placed, Places, handleVars, lockVars
<1>4. UseInv'
  BY <1>0, <1>1 DEF TypeOK, UseInv, handleVars
<1>5. LockInv'
  BY <1>0, <1>1 DEF TypeOK, LockInv, Inside, lockVars
<1>6. NumberInv'
  BY <1>0, <1>1 DEF TypeOK, NumberInv, UseInv, Placed, handleVars
<1>7. PointerInv'
  BY <1>0, <1>1 DEF TypeOK, PointerInv, handleVars
<1>8. FileInv' /\ PrivateInv'
  <2>1. \A g \in Handle : fd[g] # 0 /\ Users(ConnOf(h)) = {} => ConnOf(g) # ConnOf(h)
    BY DEF NumberInv, Users, On
  <2>2. \A g \in Handle : fd[g] # 0 => agent'[ConnOf(g)] = agent[ConnOf(g)]
    BY <1>2, <2>1, EntryType DEF TypeOK
  <2>3. \A g \in Handle : ConnOf(g)' = ConnOf(g)
    BY <1>0 DEF ConnOf
  <2>4. \A g \in Handle : Entry(g)' = Entry(g) /\ (OwnEntry(g) => OwnEntry(g)')
    BY <1>0, <2>2, <2>3 DEF Entry, OwnEntry, handleVars
  <2>5. \A g \in Handle : HasFile(g)' => HasFile(g)
    BY <1>0, <1>1 DEF TypeOK, HasFile, handleVars, Placed
  <2> QED
    BY <1>0, <2>3, <2>4, <2>5 DEF FileInv, PrivateInv, handleVars
<1>9. TouchInv'
  BY <1>0, <1>1 DEF TypeOK, TouchInv, Own, ConnOf
<1> QED
  BY <1>3, <1>4, <1>5, <1>6, <1>7, <1>8, <1>9

(* A step from one lock to the next, or to the first call.                 *)
LEMMA LocksIInv ==
  ASSUME IInv, NEW r \in Request, TakeTable(r) \/ TakeFd(r) \/ TakeConn(r)
  PROVE  IInv'
<1> USE NameAssumption DEF IInv
<1>0. UNCHANGED <<setting, connVars, handleVars, req, retried, touched>>
  BY DEF TakeTable, TakeFd, TakeConn
<1>1. PICK l \in Places \ {"idle", "unlock", "enter", "reopen"} :
        /\ pc' = [pc EXCEPT ![r] = l]
        /\ pc[r] = "table" => l = "fd"
        /\ pc[r] = "fd" => l = "conn"
        /\ pc[r] = "conn" => l = FirstCall(req[r])
  <2>1. CASE TakeTable(r)
    BY <2>1 DEF TakeTable, Goto, Places
  <2>2. CASE TakeFd(r)
    BY <2>2 DEF TakeFd, Goto, Places
  <2>3. CASE TakeConn(r)
    <3>1. FirstCall(req[r]) \in Places \ {"idle", "unlock", "enter", "reopen"}
      BY <2>3 DEF TakeConn, FirstCall, TypeOK, Placed, Places
    <3> QED
      BY <2>3, <3>1 DEF TakeConn, Goto
  <2> QED
    BY <2>1, <2>2, <2>3
<1>2. /\ pc[r] \in {"table", "fd", "conn"}
      /\ pc[r] # "fd" => UNCHANGED fdLock
      /\ pc[r] = "fd" => fdLock[req[r].h] = NoOne /\ fdLock' = [fdLock EXCEPT ![req[r].h] = r]
  BY DEF TakeTable, TakeFd, TakeConn
<1>3. TypeOK'
  <2>1. Placed(r)'
    BY <1>0, <1>1, <1>2 DEF TypeOK, Placed, FirstCall
  <2>2. \A o \in Request : Placed(o)'
    BY <1>0, <1>1, <2>1 DEF TypeOK, Placed
  <2>3. fdLock' \in [Handle -> Request \cup {NoOne}]
    BY <1>2 DEF TypeOK
  <2>4. /\ tableLock' \in Request \cup {NoOne}
        /\ connLock' \in [Conn -> Request \cup {NoOne}]
    <3>1. tableLock' \in {tableLock, r}
      <4>1. TakeTable(r) => tableLock' = r
        BY DEF TakeTable
      <4>2. TakeFd(r) \/ TakeConn(r) => tableLock' = tableLock
        BY DEF TakeFd, TakeConn
      <4> QED
        BY <4>1, <4>2
    <3>2. connLock' = connLock \/ connLock' = [connLock EXCEPT ![ConnOf(req[r].h)] = r]
      BY DEF TakeTable, TakeFd, TakeConn
    <3> QED
      BY <3>1, <3>2 DEF TypeOK
  <2>5. pc' \in [Request -> Places]
    BY <1>1 DEF TypeOK
  <2>6. retried' \subseteq {o \in Request : pc'[o] \notin {"idle", "enter"}}
    BY <1>0, <1>1 DEF TypeOK
  <2>7. UNCHANGED <<setting, comm, agent, disturbed, fd, lastFilePointer, assigned,
                    unmounting, req, touched>>
    BY <1>0 DEF connVars, handleVars
  <2> QED
    BY ONLY IInv, <2>2, <2>3, <2>4, <2>5, <2>6, <2>7, SMTT(30) DEF IInv, TypeOK
<1>4. UseInv'
  BY <1>0 DEF UseInv, handleVars
<1>5. LockInv'
  <2>1. \A o \in Request : o # r /\ Inside(o)' => Inside(o) /\ fdLock'[req[o].h] = o
    BY <1>0, <1>1, <1>2 DEF TypeOK, LockInv, UseInv, Inside
  <2>2. Inside(r)' => fdLock'[req[r].h] = r
    BY <1>0, <1>1, <1>2 DEF TypeOK, LockInv, UseInv, Inside
  <2> QED
    BY <1>0, <2>1, <2>2 DEF LockInv
<1>6. NumberInv'
  BY <1>0, <1>1, <1>2 DEF TypeOK, NumberInv, handleVars, Placed
<1>7. PointerInv'
  BY <1>0, <1>1, <1>2 DEF TypeOK, PointerInv, handleVars, FirstCall, Placed
<1>8. FileInv' /\ PrivateInv'
  BY <1>0, <1>1, <1>2, FilesKept DEF TypeOK, HasFile, connVars, handleVars
<1>9. TouchInv'
  BY <1>0, <1>1, <1>2 DEF TypeOK, TouchInv, Own, ConnOf, connVars
<1> QED
  BY <1>3, <1>4, <1>5, <1>6, <1>7, <1>8, <1>9

(* A handle gets into the table with a number.                             *)
LEMMA EnterIInv ==
  ASSUME IInv, NEW r \in Request, Enter(r)
  PROVE  IInv'
<1> USE NameAssumption DEF IInv
<1>0. UNCHANGED <<setting, connVars, fd, lastFilePointer, unmounting, lockVars, retried>>
  BY DEF Enter
<1>1. /\ pc[r] = "enter"
      /\ assigned' = assigned \cup {req[r].h}
      /\ pc' = [pc EXCEPT ![r] = "idle"]
      /\ req' = [req EXCEPT ![r] = NoRequest]
      /\ touched' = [touched EXCEPT ![r] = Closed]
  BY DEF Enter, Idle, Goto
<1>2. req[r].op = "open" /\ fd[req[r].h] # 0 /\ req[r].h \in Handle
  BY <1>1 DEF TypeOK, Placed, NumberInv, UseInv
<1>3. TypeOK'
  BY <1>0, <1>1, <1>2 DEF TypeOK, Placed, Places, NoRequest, connVars, lockVars
<1>4. UseInv'
  BY <1>0, <1>1, <1>2 DEF TypeOK, UseInv, NoRequest
<1>5. LockInv'
  BY <1>0, <1>1 DEF TypeOK, LockInv, Inside, lockVars, NoRequest
<1>6. NumberInv'
  BY <1>0, <1>1, <1>2 DEF TypeOK, NumberInv, UseInv, Placed, NoRequest
<1>7. PointerInv'
  BY <1>0, <1>1 DEF TypeOK, PointerInv, NoRequest
<1>8. FileInv' /\ PrivateInv'
  BY <1>0, <1>1, <1>2, FilesKept DEF TypeOK, HasFile, connVars, NoRequest, UseInv
<1>9. TouchInv'
  BY <1>0, <1>1 DEF TypeOK, TouchInv, Own, ConnOf, connVars
<1> QED
  BY <1>3, <1>4, <1>5, <1>6, <1>7, <1>8, <1>9

(* The unmount takes the connections away when no handle is left.          *)
LEMMA UnmountIInv ==
  ASSUME IInv, StartUnmount \/ Remount
  PROVE  IInv'
<1> USE NameAssumption DEF IInv
<1>0. UNCHANGED <<setting, disturbed, fd, lastFilePointer, assigned, lockVars,
                  req, pc, retried, touched>>
  BY DEF StartUnmount, Remount, connVars
<1>1. /\ unmounting' \in BOOLEAN
      /\ \/ UNCHANGED connVars
         \/ /\ assigned = {} /\ \A r \in Request : pc[r] = "idle"
            /\ comm' = [c \in Conn |-> "up"] /\ agent' = [c \in Conn |-> Empty]
  BY DEF StartUnmount, Remount
<1>2. TypeOK'
  <2>1. agent' \in [Conn -> [Number -> {Closed} \cup [of : Handle \cup {NoOne}, pos : Pos]]]
    BY <1>1 DEF TypeOK, Empty, connVars
  <2>2. comm' \in [Conn -> {"up", "lost", "null"}]
    BY <1>1 DEF TypeOK, connVars
  <2> QED
    BY <1>0, <1>1, <2>1, <2>2 DEF TypeOK, Placed, lockVars
<1>3. UseInv' /\ LockInv' /\ NumberInv' /\ PointerInv' /\ TouchInv'
  BY <1>0 DEF UseInv, LockInv, Inside, NumberInv, PointerInv, TouchInv, Own, ConnOf, lockVars
<1>4. CASE UNCHANGED connVars
  BY <1>0, <1>2, <1>3, <1>4, FilesKept DEF HasFile, connVars
<1>5. CASE assigned = {} /\ \A r \in Request : pc[r] = "idle"
  <2>1. \A h \in Handle : fd[h] = 0
    BY <1>5 DEF NumberInv, UseInv, TypeOK, Placed
  <2>2. FileInv' /\ PrivateInv'
    BY <1>0, <2>1 DEF FileInv, HasFile, PrivateInv
  <2> QED
    BY <1>2, <1>3, <2>2
<1> QED
  BY <1>1, <1>4, <1>5

-----------------------------------------------------------------------------

(* While a request makes a call, no other one on its handle does.          *)
LEMMA CallingAlone ==
  ASSUME IInv, NEW r \in Request, Calling(r)
  PROVE  \A o \in Request : o # r /\ req[o].h = req[r].h => ~Calling(o) /\ ~Inside(o)
<1> SUFFICES ASSUME NEW o \in Request, o # r, req[o].h = req[r].h
             PROVE  ~Calling(o) /\ ~Inside(o)
  OBVIOUS
<1>1. req[r].op \notin {"open", "close"} /\ req[o].op # "open"
  BY DEF IInv, UseInv
<1>2. Inside(r)
  BY <1>1 DEF IInv, TypeOK, Placed, Calling, Inside
<1>3. ~Inside(o)
  BY <1>2 DEF IInv, LockInv
<1>4. Calling(o) => Inside(o)
  BY <1>1 DEF IInv, TypeOK, Placed, Calling, Inside
<1> QED
  BY <1>3, <1>4

(* What a call that failed for good does to its request.                   *)
LEMMA FailFacts ==
  ASSUME IInv, NEW r \in Request, Calling(r), Fail(r)
  PROVE  /\ pc' = [pc EXCEPT ![r] = "unlock"]
         /\ UNCHANGED <<fd, assigned, unmounting>>
         /\ lastFilePointer' \in [Handle -> 0..(FileSize + 1) \cup {NoPos}]
         /\ \A h \in Handle : lastFilePointer'[h] = lastFilePointer[h] \/ lastFilePointer'[h] = NoPos
         /\ \A h \in Handle : h # req[r].h => lastFilePointer'[h] = lastFilePointer[h]
  BY DEF Fail, Goto, IInv, TypeOK

(* A call that has failed, or is to be repeated: TypeOK and what concerns  *)
(* requests, whatever happened to the agent.                               *)
LEMMA FailedIInv ==
  ASSUME IInv, NEW r \in Request, Calling(r),
         UNCHANGED <<setting, fd, assigned, unmounting, tableLock, fdLock, req, touched>>,
         pc' = pc \/ pc' = [pc EXCEPT ![r] = "unlock"],
         lastFilePointer' \in [Handle -> 0..(FileSize + 1) \cup {NoPos}],
         \A h \in Handle : lastFilePointer'[h] = lastFilePointer[h] \/ lastFilePointer'[h] = NoPos,
         \A h \in Handle : h # req[r].h => lastFilePointer'[h] = lastFilePointer[h],
         pc' = pc => UNCHANGED lastFilePointer,
         agent' \in [Conn -> [Number -> {Closed} \cup [of : Handle \cup {NoOne}, pos : Pos]]],
         comm' \in [Conn -> {"up", "lost", "null"}],
         connLock' \in [Conn -> Request \cup {NoOne}],
         retried' \subseteq retried \cup {r},
         disturbed' \subseteq Conn, disturbed \subseteq disturbed'
  PROVE  TypeOK' /\ UseInv' /\ LockInv' /\ NumberInv' /\ PointerInv' /\ TouchInv'
<1> USE NameAssumption DEF IInv
<1>1. req[r].op # "none" /\ req[r].h \in Handle
  BY DEF TypeOK, Calling, Placed, UseInv
<1>2. TypeOK'
  <2>1. \A o \in Request : Placed(o)'
    BY DEF TypeOK, Placed, Calling
  <2> QED
    <3>1. pc' \in [Request -> Places]
      BY DEF TypeOK, Places
    <3>2. retried' \subseteq {o \in Request : pc'[o] \notin {"idle", "enter"}}
      BY DEF TypeOK, Calling
    <3>3. touched' \in [Request -> {Closed} \cup [of : Handle \cup {NoOne}, pos : Pos]]
      BY DEF TypeOK
    <3> QED
      BY <2>1, <3>1, <3>2, <3>3 DEF TypeOK
<1>3. UseInv'
  BY DEF UseInv
<1>4. LockInv'
  BY DEF TypeOK, LockInv, Inside, Calling
<1>5. NumberInv'
  BY DEF TypeOK, NumberInv, Calling
<1>6. PointerInv'
  <2>1. \A o \in Request : o # r /\ req[o].h = req[r].h => pc[o] \notin {"data", "reopen"}
    BY CallingAlone DEF Calling, IInv
  <2>2. \A o \in Request : req[o].h \in Handle \/ pc[o] = "idle"
    BY DEF TypeOK, UseInv, Placed
  <2> QED
    BY <2>1, <2>2 DEF TypeOK, PointerInv, Calling
<1>7. TouchInv'
  BY DEF TypeOK, TouchInv, Own, ConnOf, Calling
<1> QED
  BY <1>2, <1>3, <1>4, <1>5, <1>6, <1>7

(* The connection breaks: its agent and every file on it are gone.         *)
LEMMA BrokenIInv ==
  ASSUME IInv, NEW r \in Request, Reconnect(r) \/ BrokenAgain(r)
  PROVE  IInv'
<1> USE NameAssumption DEF IInv
<1> DEFINE h == req[r].h
           c == ConnOf(h)
<1>0. /\ Calling(r)
      /\ agent' = [agent EXCEPT ![c] = Empty]
      /\ disturbed' = disturbed \cup {c}
      /\ UNCHANGED <<setting, tableLock, fdLock, req, touched>>
  BY DEF Reconnect, BrokenAgain, lockVars
<1>1. h \in Handle /\ c \in Conn
  BY <1>0, EntryType DEF TypeOK, Calling, Placed, UseInv
<1>2. UNCHANGED <<pc, handleVars>> \/ Fail(r)
  BY DEF Reconnect, BrokenAgain
<1>3. /\ UNCHANGED <<fd, assigned, unmounting>>
      /\ \/ pc' = pc /\ UNCHANGED lastFilePointer
         \/ pc' = [pc EXCEPT ![r] = "unlock"]
      /\ lastFilePointer' \in [Handle -> 0..(FileSize + 1) \cup {NoPos}]
      /\ \A g \in Handle : lastFilePointer'[g] = lastFilePointer[g] \/ lastFilePointer'[g] = NoPos
      /\ \A g \in Handle : g # h => lastFilePointer'[g] = lastFilePointer[g]
  BY <1>0, <1>2, FailFacts DEF handleVars, TypeOK
<1>4. /\ agent' \in [Conn -> [Number -> {Closed} \cup [of : Handle \cup {NoOne}, pos : Pos]]]
      /\ disturbed' \subseteq Conn
  BY <1>0, <1>1 DEF TypeOK, Empty
<1>5. /\ comm' \in [Conn -> {"up", "lost", "null"}]
      /\ connLock' \in [Conn -> Request \cup {NoOne}]
      /\ retried' \subseteq retried \cup {r}
  BY <1>1 DEF Reconnect, BrokenAgain, TypeOK, lockVars
<1>6. pc' = pc => UNCHANGED lastFilePointer
  BY <1>0, <1>3 DEF Calling, TypeOK
<1>7. TypeOK' /\ UseInv' /\ LockInv' /\ NumberInv' /\ PointerInv' /\ TouchInv'
  <2>1. disturbed \subseteq disturbed'
    BY <1>0
  <2> HIDE DEF h, c
  <2> QED
    BY <1>0, <1>3, <1>4, <1>5, <1>6, <2>1, FailedIInv DEF h
<1>8. FileInv'
  <2>1. SUFFICES ASSUME NEW g \in Handle, HasFile(g)', ConnOf(g) \notin disturbed'
                 PROVE  OwnEntry(g)'
    BY <1>0 DEF FileInv, ConnOf
  <2>2. ConnOf(g) # c /\ g # h /\ ConnOf(g) \notin disturbed
    BY <1>0, <2>1
  <2>3. HasFile(g)
    BY <1>0, <1>3, <2>1, <2>2 DEF HasFile, TypeOK
  <2>4. Entry(g)' = Entry(g)
    BY <1>0, <1>1, <1>3, <2>2, EntryType DEF Entry, ConnOf, TypeOK
  <2> QED
    BY <1>3, <2>2, <2>3, <2>4 DEF FileInv, OwnEntry
<1>9. PrivateInv'
  <2>1. SUFFICES ASSUME ~setting.shared, NEW g \in Handle, fd[g] # 0
                 PROVE  Entry(g)' = Closed \/ OwnEntry(g)'
    BY <1>0, <1>3 DEF PrivateInv
  <2>2. CASE ConnOf(g) = c
    <3>1. agent'[c][fd[g]] = Closed
      BY <1>0, <1>1, <2>1, EntryType DEF TypeOK, Empty
    <3> QED
      BY <1>0, <1>3, <2>2, <3>1 DEF Entry, ConnOf
  <2>3. CASE ConnOf(g) # c
    <3>1. Entry(g)' = Entry(g) /\ lastFilePointer'[g] = lastFilePointer[g]
      BY <1>0, <1>1, <1>3, <2>3, EntryType DEF Entry, ConnOf, TypeOK
    <3> QED
      BY <2>1, <3>1 DEF PrivateInv, OwnEntry
  <2> QED
    BY <2>2, <2>3
<1> QED
  BY <1>7, <1>8, <1>9

(* The server refuses: nothing changes there.                              *)
LEMMA RefusedIInv ==
  ASSUME IInv, NEW r \in Request, Refused(r)
  PROVE  IInv'
<1> USE NameAssumption DEF IInv
<1>0. /\ Calling(r) /\ Fail(r)
      /\ disturbed' = IF pc[r] = "reopen" THEN disturbed \cup {ConnOf(req[r].h)} ELSE disturbed
      /\ UNCHANGED <<setting, comm, agent, lockVars, req, retried, touched>>
  BY DEF Refused
<1>1. req[r].h \in Handle /\ ConnOf(req[r].h) \in Conn
  BY <1>0, EntryType DEF TypeOK, Calling, Placed, UseInv
<1>2. /\ pc' = [pc EXCEPT ![r] = "unlock"]
      /\ UNCHANGED <<fd, assigned, unmounting>>
      /\ lastFilePointer' \in [Handle -> 0..(FileSize + 1) \cup {NoPos}]
      /\ \A h \in Handle : lastFilePointer'[h] = lastFilePointer[h] \/ lastFilePointer'[h] = NoPos
      /\ \A h \in Handle : h # req[r].h => lastFilePointer'[h] = lastFilePointer[h]
  BY <1>0, FailFacts
<1>3. TypeOK' /\ UseInv' /\ LockInv' /\ NumberInv' /\ PointerInv' /\ TouchInv'
  <2>1. pc' # pc
    BY <1>0, <1>2 DEF Calling, TypeOK
  <2>2. disturbed' \subseteq Conn /\ disturbed \subseteq disturbed'
    BY <1>0, <1>1 DEF TypeOK
  <2>3. /\ agent' \in [Conn -> [Number -> {Closed} \cup [of : Handle \cup {NoOne}, pos : Pos]]]
        /\ comm' \in [Conn -> {"up", "lost", "null"}]
        /\ connLock' \in [Conn -> Request \cup {NoOne}]
        /\ retried' \subseteq retried \cup {r}
        /\ UNCHANGED <<setting, tableLock, fdLock, req, touched>>
    BY <1>0 DEF TypeOK, lockVars
  <2> QED
    BY <1>0, <1>2, <2>1, <2>2, <2>3, FailedIInv
<1>4. \A g \in Handle : Entry(g)' = Entry(g) /\ (OwnEntry(g) => OwnEntry(g)')
  BY <1>0, <1>2 DEF Entry, ConnOf, OwnEntry
<1>5. FileInv'
  <2>1. SUFFICES ASSUME NEW g \in Handle, HasFile(g)', ConnOf(g) \notin disturbed'
                 PROVE  OwnEntry(g)'
    BY <1>0 DEF FileInv, ConnOf
  <2>2. HasFile(g) /\ ConnOf(g) \notin disturbed
    BY <1>0, <1>2, <2>1 DEF HasFile, TypeOK, Placed, Calling
  <2> QED
    BY <1>4, <2>2 DEF FileInv
<1>6. PrivateInv'
  BY <1>0, <1>2, <1>4 DEF PrivateInv
<1> QED
  BY <1>3, <1>5, <1>6

-----------------------------------------------------------------------------

(* A call changes the entry e that the number of its handle names: on a    *)
(* connection that is whole no other handle has that number.               *)
LEMMA EntryChanged ==
  ASSUME IInv, NEW r \in Request, Calling(r), NEW e,
         Entry(req[r].h) # Closed,
         agent' = [agent EXCEPT ![ConnOf(req[r].h)][fd[req[r].h]] = e],
         UNCHANGED <<setting, disturbed, fd, req>>,
         \A g \in Handle : g # req[r].h => lastFilePointer'[g] = lastFilePointer[g],
         HasFile(req[r].h),
         \A g \in Handle : HasFile(g)' => HasFile(g),
         \/ e = Closed /\ ~HasFile(req[r].h)'
         \/ /\ OwnEntry(req[r].h)
            => e.of = req[r].h /\ (lastFilePointer'[req[r].h] # NoPos => e.pos = lastFilePointer'[req[r].h])
  PROVE  FileInv' /\ PrivateInv'
<1> USE NameAssumption DEF IInv
<1> DEFINE h == req[r].h
           c == ConnOf(h)
           Good == e.of = h /\ (lastFilePointer'[h] # NoPos => e.pos = lastFilePointer'[h])
<1>1. h \in Handle /\ c \in Conn /\ fd[h] \in Number
  BY EntryType DEF TypeOK, Calling, Placed, UseInv, Entry
<1>2. \A d \in Conn, i \in Number :
         agent'[d][i] = IF d = c /\ i = fd[h] THEN e ELSE agent[d][i]
  BY <1>1 DEF TypeOK
<1>3. \A g \in Handle : ConnOf(g)' = ConnOf(g) /\ ConnOf(g) \in Conn
                        /\ (fd[g] # 0 => fd[g] \in Number)
  BY EntryType DEF ConnOf
<1>4. Entry(h)' = e
  BY <1>1, <1>2, <1>3, NumbersAssumption DEF Entry, Number
<1>5. \A g \in Handle : ConnOf(g) # c \/ fd[g] # fd[h] => Entry(g)' = Entry(g)
  BY <1>2, <1>3 DEF Entry
<1>6. OwnEntry(h) /\ e # Closed => OwnEntry(h)'
  BY <1>4 DEF OwnEntry
<1> HIDE DEF h, c
<1>7. FileInv'
  <2>1. SUFFICES ASSUME NEW g \in Handle, HasFile(g)', ConnOf(g) \notin disturbed
                 PROVE  OwnEntry(g)'
    BY <1>3 DEF FileInv
  <2>2. OwnEntry(g)
    BY <2>1 DEF FileInv
  <2>3. CASE g = h
    BY <1>4, <2>1, <2>2, <2>3 DEF h, OwnEntry
  <2>4. CASE g # h /\ ConnOf(g) = c /\ fd[g] = fd[h]
    <3>1. OwnEntry(h)
      BY <1>1, <2>1, <2>4 DEF FileInv, h, c
    <3>2. Entry(g) = Entry(h)
      BY <2>4 DEF Entry, c
    <3> QED
      BY <2>2, <2>4, <3>1, <3>2 DEF OwnEntry
  <2>5. CASE g # h /\ ~(ConnOf(g) = c /\ fd[g] = fd[h])
    <3>1. Entry(g)' = Entry(g) /\ lastFilePointer'[g] = lastFilePointer[g]
      BY <1>5, <2>5 DEF h
    <3> QED
      BY <2>2, <3>1 DEF OwnEntry
  <2> QED
    BY <2>3, <2>4, <2>5
<1>8. PrivateInv'
  <2>1. SUFFICES ASSUME ~setting.shared, NEW g \in Handle, fd[g] # 0
                 PROVE  Entry(g)' = Closed \/ OwnEntry(g)'
    BY DEF PrivateInv
  <2>2. CASE g = h
    <3>1. OwnEntry(h)
      BY <1>1, <2>1, <2>2 DEF PrivateInv, h
    <3> QED
      BY <1>4, <2>2, <3>1 DEF h, OwnEntry
  <2>3. CASE g # h
    <3>1. ConnOf(g) # c
      BY <2>1, <2>3 DEF ConnOf, c
    <3>2. Entry(g)' = Entry(g) /\ lastFilePointer'[g] = lastFilePointer[g]
      BY <1>5, <2>3, <3>1 DEF h
    <3> QED
      BY <2>1, <3>2 DEF PrivateInv, OwnEntry
  <2> QED
    BY <2>2, <2>3
<1> QED
  BY <1>7, <1>8

(* A call on a file is made by a handle that has one.                      *)
LEMMA CallingHasFile ==
  ASSUME IInv, NEW r \in Request, pc[r] \in {"seek", "data", "reclose", "close"},
         Entry(req[r].h) # Closed
  PROVE  req[r].h \in Handle /\ HasFile(req[r].h)
<1>1. req[r].h \in Handle
  BY DEF IInv, TypeOK, Placed, UseInv
<1>2. \A o \in Request : o # r /\ req[o].h = req[r].h => ~Calling(o) /\ ~Inside(o)
  BY CallingAlone DEF Calling
<1> QED
  BY <1>1, <1>2 DEF HasFile, Entry, Calling, Inside

(* A seek sets both positions.                                             *)
LEMMA SeekIInv ==
  ASSUME IInv, NEW r \in Request, Seek(r)
  PROVE  IInv'
<1> USE NameAssumption DEF IInv
<1> DEFINE h == req[r].h
<1>0. /\ pc[r] = "seek" /\ Entry(h) # Closed
      /\ UNCHANGED <<setting, comm, disturbed, assigned, unmounting, lockVars, req, fd, touched>>
      /\ retried' = retried \ {r}
      /\ pc' = [pc EXCEPT ![r] = "data"]
      /\ agent' = [agent EXCEPT ![ConnOf(h)][fd[h]].pos = req[r].off]
      /\ lastFilePointer' = [lastFilePointer EXCEPT ![h] = req[r].off]
  BY DEF Seek, Succeeds, Rejoined, Goto
<1>1. /\ h \in Handle /\ HasFile(h) /\ Calling(r)
      /\ req[r].op = "io" /\ req[r].off \in Pos
  BY <1>0, CallingHasFile DEF Calling, TypeOK, Placed, UseInv
<1>2. /\ ConnOf(h) \in Conn /\ fd[h] \in Number
      /\ Entry(h) = agent[ConnOf(h)][fd[h]]
      /\ Entry(h) \in [of : Handle \cup {NoOne}, pos : Pos]
  BY <1>0, <1>1, EntryType DEF Entry
<1>3. TypeOK'
  <2>1. agent' \in [Conn -> [Number -> {Closed} \cup [of : Handle \cup {NoOne}, pos : Pos]]]
    BY <1>0, <1>1, <1>2 DEF TypeOK
  <2>2. lastFilePointer' \in [Handle -> 0..(FileSize + 1) \cup {NoPos}]
    BY <1>0, <1>1, NumbersAssumption DEF TypeOK, Pos
  <2>3. \A o \in Request : Placed(o)'
    BY <1>0, <1>1 DEF TypeOK, Placed
  <2> QED
    BY <1>0, <2>1, <2>2, <2>3 DEF TypeOK, Places, lockVars
<1>4. UseInv'
  BY <1>0 DEF UseInv
<1>5. LockInv'
  BY <1>0 DEF TypeOK, LockInv, Inside, lockVars
<1>6. NumberInv'
  BY <1>0, <1>1, <1>2, NumbersAssumption DEF TypeOK, NumberInv, Number
<1>7. PointerInv'
  <2>1. \A o \in Request : o # r /\ req[o].h = h => pc[o] \notin {"data", "reopen"}
    BY <1>1, CallingAlone DEF Calling
  <2>2. \A o \in Request : req[o].h \in Handle \/ pc[o] = "idle"
    BY DEF TypeOK, UseInv, Placed
  <2> QED
    BY <1>0, <1>1, <2>1, <2>2 DEF TypeOK, PointerInv
<1>8. FileInv' /\ PrivateInv'
  <2> DEFINE e == [agent[ConnOf(h)][fd[h]] EXCEPT !.pos = req[r].off]
  <2>1. agent' = [agent EXCEPT ![ConnOf(h)][fd[h]] = e]
    BY <1>0
  <2>2. e.of = Entry(h).of /\ e.pos = req[r].off
    BY <1>2
  <2>3. /\ \A g \in Handle : g # h => lastFilePointer'[g] = lastFilePointer[g]
        /\ lastFilePointer'[h] = req[r].off
    BY <1>0, <1>1 DEF TypeOK
  <2>4. \A g \in Handle : HasFile(g)' => HasFile(g)
    BY <1>0 DEF TypeOK, HasFile
  <2>5. OwnEntry(h) => e.of = h /\ (lastFilePointer'[h] # NoPos => e.pos = lastFilePointer'[h])
    BY <2>2, <2>3 DEF OwnEntry
  <2> HIDE DEF e
  <2> QED
    BY <1>0, <1>1, <2>1, <2>3, <2>4, <2>5, EntryChanged
<1>9. TouchInv'
  BY <1>0 DEF TypeOK, TouchInv, Own, ConnOf
<1> QED
  BY <1>3, <1>4, <1>5, <1>6, <1>7, <1>8, <1>9

(* A transfer moves both positions, and touches its own file.              *)
LEMMA DataIInv ==
  ASSUME IInv, NEW r \in Request, Data(r)
  PROVE  IInv'
<1> USE NameAssumption DEF IInv
<1> DEFINE h == req[r].h
           n == IF Entry(h).pos = FileSize THEN 0 ELSE 1
<1>0. /\ pc[r] = "data" /\ Entry(h) # Closed
      /\ UNCHANGED <<setting, comm, disturbed, assigned, unmounting, lockVars, req, fd>>
      /\ retried' = retried \ {r}
      /\ pc' = [pc EXCEPT ![r] = "unlock"]
      /\ agent' = [agent EXCEPT ![ConnOf(h)][fd[h]].pos = @ + n]
      /\ lastFilePointer' = [lastFilePointer EXCEPT ![h] = @ + n]
      /\ touched' = [touched EXCEPT ![r] = Entry(h)]
  BY DEF Data, Succeeds, Rejoined, Goto
<1>1. /\ h \in Handle /\ HasFile(h) /\ Calling(r)
      /\ req[r].op = "io" /\ req[r].off \in Pos
      /\ lastFilePointer[h] = req[r].off
  BY <1>0, CallingHasFile, ZenonT(30) DEF Calling, TypeOK, Placed, UseInv, PointerInv
<1>2. /\ ConnOf(h) \in Conn /\ fd[h] \in Number
      /\ Entry(h) = agent[ConnOf(h)][fd[h]]
      /\ Entry(h) \in [of : Handle \cup {NoOne}, pos : Pos]
  BY <1>0, <1>1, EntryType DEF Entry
<1>3. /\ n \in {0, 1} /\ Entry(h).pos + n \in Pos
      /\ lastFilePointer[h] + n \in 0..(FileSize + 1)
  BY <1>1, <1>2, NumbersAssumption DEF Pos
<1> DEFINE e == [agent[ConnOf(h)][fd[h]] EXCEPT !.pos = @ + n]
<1>4. /\ agent' = [agent EXCEPT ![ConnOf(h)][fd[h]] = e]
      /\ e.of = Entry(h).of /\ e.pos = Entry(h).pos + n
      /\ e \in [of : Handle \cup {NoOne}, pos : Pos]
  BY <1>0, <1>2, <1>3
<1>5. /\ \A g \in Handle : g # h => lastFilePointer'[g] = lastFilePointer[g]
      /\ lastFilePointer'[h] = lastFilePointer[h] + n
      /\ lastFilePointer' \in [Handle -> 0..(FileSize + 1) \cup {NoPos}]
  BY <1>0, <1>1, <1>3 DEF TypeOK
<1> HIDE DEF e, n
<1>6. TypeOK'
  <2>1. agent' \in [Conn -> [Number -> {Closed} \cup [of : Handle \cup {NoOne}, pos : Pos]]]
    BY <1>1, <1>2, <1>4 DEF TypeOK
  <2>2. \A o \in Request : Placed(o)'
    BY <1>0, <1>1 DEF TypeOK, Placed
  <2> QED
    BY <1>0, <1>2, <1>5, <2>1, <2>2 DEF TypeOK, Places, lockVars
<1>7. UseInv'
  BY <1>0 DEF UseInv
<1>8. LockInv'
  BY <1>0 DEF TypeOK, LockInv, Inside, lockVars
<1>9. NumberInv'
  BY <1>0, <1>1, <1>2, <1>5, NumbersAssumption DEF TypeOK, NumberInv, Number
<1>10. PointerInv'
  <2>1. \A o \in Request : o # r /\ req[o].h = h => pc[o] \notin {"data", "reopen"}
    BY <1>1, CallingAlone DEF Calling
  <2>2. \A o \in Request : req[o].h \in Handle \/ pc[o] = "idle"
    BY DEF TypeOK, UseInv, Placed
  <2> QED
    BY <1>0, <1>1, <1>5, <2>1, <2>2 DEF TypeOK, PointerInv
<1>11. lastFilePointer[h] # NoPos
  BY <1>1, NumbersAssumption DEF Pos, NoPos
<1>12. FileInv' /\ PrivateInv'
  <2>1. \A g \in Handle : HasFile(g)' => HasFile(g)
    BY <1>0, <1>1 DEF TypeOK, HasFile
  <2>2. OwnEntry(h) => e.of = h /\ (lastFilePointer'[h] # NoPos => e.pos = lastFilePointer'[h])
    BY <1>4, <1>5, <1>11 DEF OwnEntry
  <2> QED
    BY <1>0, <1>1, <1>4, <1>5, <2>1, <2>2, EntryChanged, ZenonT(30)
<1>13. TouchInv'
  <2>1. OwnEntry(h) => Entry(h) = [of |-> h, pos |-> req[r].off]
    BY <1>1, <1>2, <1>11 DEF OwnEntry
  <2>2. ~setting.shared \/ ConnOf(h) \notin disturbed => OwnEntry(h)
    BY <1>0, <1>1, <1>2, NumbersAssumption DEF FileInv, PrivateInv, HasFile
  <2>3. ~setting.shared \/ ConnOf(h) \notin disturbed => Own(r)'
    BY <1>0, <2>1, <2>2 DEF Own, TypeOK
  <2>4. \A o \in Request : o # r => touched'[o] = touched[o]
    BY <1>0 DEF TypeOK
  <2>5. \A o \in Request : o # r => Own(o)' = Own(o)
    BY <1>0, <2>4 DEF Own
  <2> QED
    BY <1>0, <1>1, <2>3, <2>4, <2>5 DEF TouchInv, ConnOf, TypeOK
<1> QED
  BY <1>6, <1>7, <1>8, <1>9, <1>10, <1>12, <1>13

(* The file of the handle is closed, for good or before it is reopened.    *)
LEMMA ClosedIInv ==
  ASSUME IInv, NEW r \in Request, Reclose(r) \/ Close(r)
  PROVE  IInv'
<1> USE NameAssumption DEF IInv
<1> DEFINE h == req[r].h
           l == IF pc[r] = "reclose" THEN "reopen" ELSE "unlock"
<1>0. /\ pc[r] \in {"reclose", "close"} /\ Entry(h) # Closed
      /\ UNCHANGED <<setting, comm, disturbed, assigned, unmounting, lockVars, req, fd, touched>>
      /\ retried' = retried \ {r}
      /\ pc' = [pc EXCEPT ![r] = l]
      /\ agent' = [agent EXCEPT ![ConnOf(h)][fd[h]] = Closed]
      /\ lastFilePointer' = IF pc[r] = "reclose" THEN [lastFilePointer EXCEPT ![h] = NoPos]
                                                 ELSE lastFilePointer
  BY DEF Reclose, Close, Succeeds, Rejoined, Goto
<1>1. /\ h \in Handle /\ HasFile(h) /\ Calling(r)
      /\ pc[r] = "close" => req[r].op = "close"
      /\ pc[r] = "reclose" => req[r].op = "flush"
  BY <1>0, CallingHasFile DEF Calling, TypeOK, Placed
<1>2. ConnOf(h) \in Conn /\ fd[h] \in Number
  BY <1>0, <1>1, EntryType DEF Entry
<1>3. /\ \A g \in Handle : g # h => lastFilePointer'[g] = lastFilePointer[g]
      /\ lastFilePointer' \in [Handle -> 0..(FileSize + 1) \cup {NoPos}]
      /\ pc[r] = "reclose" => lastFilePointer'[h] = NoPos
  BY <1>0, <1>1 DEF TypeOK
<1>6. TypeOK'
  <2>1. agent' \in [Conn -> [Number -> {Closed} \cup [of : Handle \cup {NoOne}, pos : Pos]]]
    BY <1>0, <1>1, <1>2 DEF TypeOK
  <2>2. \A o \in Request : Placed(o)'
    BY <1>0, <1>1 DEF TypeOK, Placed
  <2> QED
    BY <1>0, <1>3, <2>1, <2>2 DEF TypeOK, Places, lockVars
<1>7. UseInv'
  BY <1>0 DEF UseInv
<1>8. LockInv'
  BY <1>0 DEF TypeOK, LockInv, Inside, lockVars
<1>9. NumberInv'
  BY <1>0, <1>1, <1>2, <1>3, NumbersAssumption DEF TypeOK, NumberInv, Number
<1>10. PointerInv'
  <2>1. \A o \in Request : o # r /\ req[o].h = h => pc[o] \notin {"data", "reopen"}
    BY <1>1, CallingAlone DEF Calling
  <2>2. \A o \in Request : req[o].h \in Handle \/ pc[o] = "idle"
    BY DEF TypeOK, UseInv, Placed
  <2> QED
    BY <1>0, <1>1, <1>3, <2>1, <2>2 DEF TypeOK, PointerInv
<1>12. FileInv' /\ PrivateInv'
  <2>1. \A g \in Handle : g # h /\ HasFile(g)' => HasFile(g)
    BY <1>0, <1>1 DEF TypeOK, HasFile
  <2>2. ~HasFile(h)'
    BY <1>0, <1>1 DEF TypeOK, HasFile
  <2> QED
    BY <1>0, <1>1, <1>3, <2>1, <2>2, EntryChanged
<1>13. TouchInv'
  BY <1>0 DEF TypeOK, TouchInv, Own, ConnOf
<1> QED
  BY <1>6, <1>7, <1>8, <1>9, <1>10, <1>12, <1>13

(* The agent gives a free number, so no other handle's.                    *)
LEMMA OpenIInv ==
  ASSUME IInv, NEW r \in Request, Open(r)
  PROVE  IInv'
<1> USE NameAssumption DEF IInv
<1> DEFINE h == req[r].h
           c == ConnOf(h)
           e == [of |-> h, pos |-> 0]
<1>0. /\ pc[r] \in {"open", "reopen"}
      /\ UNCHANGED <<setting, comm, disturbed, assigned, unmounting, lockVars, req,
                     lastFilePointer, touched>>
      /\ retried' = retried \ {r}
      /\ pc' = [pc EXCEPT ![r] = "unlock"]
  BY DEF Open, Succeeds, Rejoined, Goto
<1>1. PICK n \in Number :
         /\ agent[c][n] = Closed
         /\ agent' = [agent EXCEPT ![c][n] = e]
         /\ fd' = [fd EXCEPT ![h] = n]
  BY DEF Open, LowestFree
<1>2. /\ h \in Handle /\ Calling(r) /\ c \in Conn
      /\ pc[r] = "open" => req[r].op = "open"
      /\ pc[r] = "reopen" => req[r].op = "flush"
  BY ONLY IInv, <1>0, EntryType, ZenonT(30) DEF Calling, TypeOK, Placed, UseInv
<1>3. lastFilePointer[h] = NoPos
  BY <1>0, <1>2 DEF NumberInv, PointerInv
<1>4. n \in 0..Numbers /\ n # 0 /\ e \in [of : Handle \cup {NoOne}, pos : Pos] /\ e # Closed
  BY <1>2, NumbersAssumption DEF Number, Pos, Closed
<1>5. /\ \A g \in Handle : fd'[g] = IF g = h THEN n ELSE fd[g]
      /\ \A d \in Conn, i \in Number :
            agent'[d][i] = IF d = c /\ i = n THEN e ELSE agent[d][i]
      /\ fd' \in [Handle -> 0..Numbers]
      /\ agent' \in [Conn -> [Number -> {Closed} \cup [of : Handle \cup {NoOne}, pos : Pos]]]
  BY <1>1, <1>2, <1>4 DEF TypeOK
<1>6. TypeOK'
  <2>1. \A o \in Request : Placed(o)'
    BY <1>0, <1>2 DEF TypeOK, Placed
  <2>2. assigned' \subseteq {g \in Handle : fd'[g] # 0}
    BY <1>0, <1>4, <1>5 DEF TypeOK
  <2> HIDE DEF e
  <2> QED
    BY <1>0, <1>5, <2>1, <2>2 DEF TypeOK, Places, lockVars
<1>7. UseInv'
  BY <1>0 DEF UseInv
<1>8. LockInv'
  BY <1>0 DEF TypeOK, LockInv, Inside, lockVars
<1>9. NumberInv'
  <2>1. \A g \in Handle : fd'[g] # 0 => g \in assigned \/ \E o \in Request : req[o].h = g
    BY <1>5 DEF NumberInv
  <2>2. \A g \in Handle : fd'[g] = 0 => lastFilePointer[g] = NoPos
    BY <1>4, <1>5 DEF NumberInv
  <2>3. \A o \in Request : o # r /\ req[o].op = "open" => req[o].h \in Handle /\ req[o].h # h
    BY <1>0, <1>2 DEF UseInv
  <2> QED
    BY <1>0, <1>5, <2>1, <2>2, <2>3 DEF TypeOK, NumberInv
<1>10. PointerInv'
  BY <1>0 DEF TypeOK, PointerInv
<1>11. \A g \in Handle : ConnOf(g)' = ConnOf(g) /\ ConnOf(g) \in Conn
                         /\ (fd[g] # 0 => fd[g] \in Number)
  BY <1>0, EntryType DEF ConnOf
<1>12. OwnEntry(h)'
  <2>1. Entry(h)' = e
    BY <1>0, <1>2, <1>4, <1>5, <1>11 DEF Entry
  <2> QED
    BY <1>0, <1>3, <2>1 DEF OwnEntry
<1>13. \A g \in Handle : g # h /\ OwnEntry(g) => OwnEntry(g)'
  <2>1. SUFFICES ASSUME NEW g \in Handle, g # h, OwnEntry(g)
                 PROVE  OwnEntry(g)'
    OBVIOUS
  <2>2. Entry(g) # Closed
    BY <2>1 DEF OwnEntry, Closed
  <2>3. Entry(g)' = Entry(g)
    BY <1>1, <1>5, <1>11, <2>1, <2>2 DEF Entry
  <2> QED
    BY <1>0, <2>1, <2>3 DEF OwnEntry
<1>14. FileInv'
  <2>1. \A g \in Handle : g # h /\ HasFile(g)' => HasFile(g)
    BY <1>0, <1>5 DEF TypeOK, HasFile
  <2> QED
    BY <1>0, <1>11, <1>12, <1>13, <2>1 DEF FileInv
<1>15. PrivateInv'
  <2>1. \A g \in Handle : g # h /\ ~setting.shared => Entry(g)' = Entry(g)
    BY <1>5, <1>11 DEF Entry, ConnOf
  <2> QED
    BY <1>0, <1>5, <1>12, <1>13, <2>1 DEF PrivateInv
<1>16. TouchInv'
  BY <1>0 DEF TypeOK, TouchInv, Own, ConnOf
<1> QED
  BY <1>6, <1>7, <1>8, <1>9, <1>10, <1>14, <1>15, <1>16

-----------------------------------------------------------------------------

(* At the end of a request nobody else holds its handle.                   *)
LEMMA EndAlone ==
  ASSUME IInv, NEW r \in Request, pc[r] = "unlock"
  PROVE  \A o \in Request : o # r /\ req[o].h = req[r].h => ~Inside(o)
<1> SUFFICES ASSUME NEW o \in Request, o # r, req[o].h = req[r].h
             PROVE  ~Inside(o)
  OBVIOUS
<1>1. req[r].op \notin {"open", "close"}
  BY DEF IInv, UseInv
<1>2. Inside(r)
  BY <1>1 DEF IInv, TypeOK, Placed, Inside
<1> QED
  BY <1>2 DEF IInv, LockInv

(* A request that ends gives back the lock of its handle.                  *)
LEMMA EndIOIInv ==
  ASSUME IInv, NEW r \in Request, EndIO(r)
  PROVE  IInv'
<1> USE NameAssumption DEF IInv
<1>0. /\ req[r].op \in {"io", "flush"} /\ pc[r] = "unlock"
      /\ UNCHANGED <<setting, connVars, handleVars, tableLock>>
      /\ retried' = retried \ {r}
      /\ connLock' = [connLock EXCEPT ![ConnOf(req[r].h)] = NoOne]
      /\ fdLock' = [fdLock EXCEPT ![req[r].h] = NoOne]
      /\ pc' = [pc EXCEPT ![r] = "idle"]
      /\ req' = [req EXCEPT ![r] = NoRequest]
      /\ touched' = [touched EXCEPT ![r] = Closed]
  BY DEF EndIO, UnlockConn, Rejoined, Idle, Goto
<1>1. req[r].h \in assigned /\ req[r].h \in Handle
  BY <1>0 DEF UseInv
<1>2. TypeOK'
  <2>1. \A o \in Request : Placed(o)'
    BY <1>0 DEF TypeOK, Placed, NoRequest
  <2>2. /\ connLock' \in [Conn -> Request \cup {NoOne}]
        /\ fdLock' \in [Handle -> Request \cup {NoOne}]
    BY <1>0 DEF TypeOK
  <2> QED
    BY <1>0, <2>1, <2>2 DEF TypeOK, Places, NoRequest, connVars, handleVars
<1>3. UseInv'
  BY <1>0 DEF TypeOK, UseInv, NoRequest, handleVars
<1>4. LockInv'
  <2>1. \A o \in Request : o # r => req'[o] = req[o] /\ Inside(o)' = Inside(o)
    BY <1>0 DEF TypeOK, Inside
  <2>2. \A o \in Request : o # r /\ Inside(o) => req[o].h # req[r].h /\ req[o].h \in Handle
    BY <1>0, EndAlone DEF Inside, UseInv
  <2>3. ~Inside(r)'
    BY <1>0 DEF TypeOK, Inside, NoRequest
  <2> QED
    BY <1>0, <2>1, <2>2, <2>3 DEF LockInv, TypeOK
<1>5. NumberInv'
  BY <1>0, <1>1 DEF TypeOK, NumberInv, NoRequest, handleVars
<1>6. PointerInv'
  BY <1>0 DEF TypeOK, PointerInv, handleVars
<1>7. FileInv' /\ PrivateInv'
  BY <1>0, FilesKept DEF TypeOK, HasFile, connVars, handleVars
<1>8. TouchInv'
  BY <1>0 DEF TypeOK, TouchInv, Own, ConnOf, connVars
<1> QED
  BY <1>2, <1>3, <1>4, <1>5, <1>6, <1>7, <1>8

(* A handle that is alone on its connection: no other has a number or a    *)
(* request there.                                                          *)
LEMMA LastUser ==
  ASSUME IInv, NEW h \in Handle, Users(ConnOf(h)) = {h}
  PROVE  \A g \in Handle :
            g # h /\ (fd[g] # 0 \/ g \in assigned \/ \E o \in Request : req[o].h = g)
               => ConnOf(g) # ConnOf(h)
<1> SUFFICES ASSUME NEW g \in Handle, g # h, ConnOf(g) = ConnOf(h),
                    fd[g] # 0 \/ g \in assigned \/ \E o \in Request : req[o].h = g
             PROVE  FALSE
  OBVIOUS
<1>1. g \in assigned \/ \E o \in Request : req[o].h = g
  BY DEF IInv, NumberInv
<1>2. g \in Users(ConnOf(h))
  BY <1>1 DEF Users, On
<1> QED
  BY <1>2

(* An open that failed is over, one that did not goes on to the table.     *)
LEMMA EndOpenIInv ==
  ASSUME IInv, NEW r \in Request, EndOpen(r)
  PROVE  IInv'
<1> USE NameAssumption DEF IInv
<1> DEFINE h == req[r].h
           c == ConnOf(h)
<1>0. /\ req[r].op = "open" /\ pc[r] = "unlock"
      /\ UNCHANGED <<setting, comm, agent, handleVars, tableLock, fdLock>>
      /\ retried' = retried \ {r}
      /\ connLock' = [connLock EXCEPT ![c] = NoOne]
  BY DEF EndOpen, UnlockConn, Rejoined
<1>1. h \in Handle /\ h \notin assigned
  BY <1>0 DEF UseInv
<1>2. \/ /\ fd[h] = 0
         /\ pc' = [pc EXCEPT ![r] = "idle"]
         /\ req' = [req EXCEPT ![r] = NoRequest]
         /\ touched' = [touched EXCEPT ![r] = Closed]
         /\ disturbed' = IF Users(c) = {h} THEN disturbed \ {c} ELSE disturbed
      \/ /\ fd[h] # 0
         /\ pc' = [pc EXCEPT ![r] = "enter"]
         /\ UNCHANGED <<req, touched, disturbed>>
  BY DEF EndOpen, Idle, Goto
<1>3. TypeOK'
  <2>1. \A o \in Request : Placed(o)'
    BY <1>0, <1>2 DEF TypeOK, Placed, NoRequest
  <2>2. connLock' \in [Conn -> Request \cup {NoOne}]
    BY <1>0 DEF TypeOK
  <2>3. retried' \subseteq {o \in Request : pc'[o] \notin {"idle", "enter"}}
    BY <1>0, <1>2 DEF TypeOK
  <2>4. /\ pc' \in [Request -> Places]
        /\ touched' \in [Request -> {Closed} \cup [of : Handle \cup {NoOne}, pos : Pos]]
        /\ disturbed' \subseteq Conn
    <3>1. pc' \in [Request -> Places]
      BY <1>2 DEF TypeOK, Places
    <3>2. touched' \in [Request -> {Closed} \cup [of : Handle \cup {NoOne}, pos : Pos]]
      BY <1>2 DEF TypeOK
    <3>3. disturbed' \subseteq Conn
      BY <1>2 DEF TypeOK
    <3> QED
      BY <3>1, <3>2, <3>3
  <2>5. req' \in [Request -> [op : {"none", "open", "io", "flush", "close"},
                             h : Handle \cup {NoOne}, off : Pos \cup {NoPos}]]
    BY <1>0, <1>2 DEF TypeOK, NoRequest
  <2> QED
    BY <1>0, <2>1, <2>2, <2>3, <2>4, <2>5 DEF TypeOK, handleVars
<1>4. UseInv'
  <2>1. CASE fd[h] = 0
    <3>1. /\ \A o \in Request : o # r => req'[o] = req[o]
          /\ req'[r].op = "none" /\ req'[r].h = NoOne
      BY <1>2, <2>1 DEF TypeOK, NoRequest
    <3> QED
      BY <1>0, <3>1 DEF UseInv, handleVars
  <2>2. CASE fd[h] # 0
    BY <1>0, <1>2, <2>2 DEF UseInv, handleVars
  <2> QED
    BY <2>1, <2>2
<1>5. LockInv'
  <2>1. \A o \in Request : Inside(o)' => req'[o] = req[o] /\ Inside(o)
    BY <1>0, <1>2, SMTT(30) DEF TypeOK, Inside, NoRequest
  <2> QED
    BY <1>0, <2>1 DEF LockInv
<1>6. NumberInv'
  <2>1. UNCHANGED <<fd, lastFilePointer, assigned>>
    BY <1>0 DEF handleVars
  <2>2. \A g \in Handle : fd[g] # 0 =>
           g \in assigned \/ \E o \in Request : req[o].h = g
    BY DEF NumberInv
  <2>3. \A o \in Request : o # r => req'[o] = req[o] /\ pc'[o] = pc[o]
    BY <1>2 DEF TypeOK
  <2>4. pc[r] = "unlock" /\ req[r].op = "open"
    BY <1>0
  <2>5. CASE fd[h] = 0
    <3>1. req'[r].op = "none"
      BY <1>2, <2>5 DEF TypeOK, NoRequest
    <3>2. \A g \in Handle : fd[g] # 0 =>
             g \in assigned \/ \E o \in Request : req'[o].h = g
      BY <2>2, <2>3, <2>5
    <3> QED
      BY <2>1, <2>3, <3>1, <3>2 DEF NumberInv
  <2>6. CASE fd[h] # 0
    <3>1. req' = req /\ pc'[r] = "enter"
      BY <1>2, <2>6 DEF TypeOK
    <3> QED
      BY <2>1, <2>3, <2>6, <3>1 DEF NumberInv
  <2> QED
    BY <2>5, <2>6
<1>7. PointerInv'
  BY <1>0, <1>2 DEF TypeOK, PointerInv, handleVars
<1>8. \A g \in Handle :
         /\ ConnOf(g)' = ConnOf(g) /\ Entry(g)' = Entry(g)
         /\ OwnEntry(g)' = OwnEntry(g)
         /\ HasFile(g)' => HasFile(g)
  BY <1>0, <1>2 DEF ConnOf, Entry, OwnEntry, handleVars, TypeOK, HasFile
<1>9. \A g \in Handle :
         fd[g] # 0 \/ g \in assigned => ConnOf(g) \in disturbed' \/ ConnOf(g) \notin disturbed
  BY <1>1, <1>2, LastUser
<1>10. FileInv' /\ PrivateInv'
  BY <1>0, <1>8, <1>9 DEF FileInv, PrivateInv, HasFile, handleVars
<1>11. TouchInv'
  <2>1. \A o \in Request : touched[o] # Closed => req[o].h \in assigned /\ req[o].h \in Handle
    BY DEF TouchInv, UseInv
  <2>2. \A o \in Request :
           touched'[o] # Closed => o # r /\ req'[o] = req[o] /\ pc'[o] = pc[o] /\ touched'[o] = touched[o]
    BY <1>0, <1>2 DEF TypeOK, TouchInv
  <2>3. \A o \in Request : touched'[o] # Closed => Own(o)' = Own(o)
    BY <2>2 DEF Own
  <2> QED
    BY <1>0, <1>8, <1>9, <2>1, <2>2, <2>3 DEF TouchInv
<1> QED
  BY <1>3, <1>4, <1>5, <1>6, <1>7, <1>10, <1>11

(* A file that is given up is nobody's from then on; nothing else changes. *)
LEMMA AbandonFacts ==
  ASSUME TypeOK, NEW h \in Handle
  PROVE  /\ Abandon(h) \in [Conn -> [Number -> {Closed} \cup [of : Handle \cup {NoOne}, pos : Pos]]]
         /\ \A d \in Conn, n \in Number :
               \/ Abandon(h)[d][n] = agent[d][n]
               \/ d = ConnOf(h) /\ agent[d][n].of = h /\ Abandon(h)[d][n].of = NoOne
         /\ fd[h] # 0 => Abandon(h)[ConnOf(h)][fd[h]].of # h
<1>1. CASE Entry(h).of = h
  <2>1. fd[h] # 0
    BY <1>1, NameAssumption DEF Entry, Closed
  <2>2. ConnOf(h) \in Conn /\ fd[h] \in Number /\ agent[ConnOf(h)][fd[h]].of = h
    BY <1>1, <2>1, EntryType
  <2>3. PICK e : e = agent[ConnOf(h)][fd[h]]
    OBVIOUS
  <2>4. e \in [of : Handle \cup {NoOne}, pos : Pos]
    BY <2>1, <2>2, <2>3, EntryType, NameAssumption DEF Closed
  <2>5. PICK z : z = [e EXCEPT !.of = NoOne]
    OBVIOUS
  <2>6. z \in [of : Handle \cup {NoOne}, pos : Pos] /\ z.of = NoOne
    BY <2>4, <2>5
  <2>7. Abandon(h) = [agent EXCEPT ![ConnOf(h)][fd[h]] = z]
    BY <1>1, <2>3, <2>5 DEF Abandon
  <2>8. agent \in [Conn -> [Number -> {Closed} \cup [of : Handle \cup {NoOne}, pos : Pos]]]
    BY DEF TypeOK
  <2> QED
    BY <2>2, <2>6, <2>7, <2>8, NameAssumption
<1>2. CASE Entry(h).of # h
  BY <1>2, EntryType DEF Abandon, TypeOK
<1> QED
  BY <1>1, <1>2

(* The handle is gone, and with it the private connection.                 *)
LEMMA EndCloseIInv ==
  ASSUME IInv, NEW r \in Request, EndClose(r)
  PROVE  IInv'
<1> USE NameAssumption DEF IInv
<1> DEFINE h == req[r].h
           c == ConnOf(h)
<1>0. /\ req[r].op = "close" /\ pc[r] = "unlock"
      /\ UNCHANGED <<setting, unmounting>>
      /\ retried' = retried \ {r}
      /\ connLock' = [connLock EXCEPT ![c] = NoOne]
      /\ fdLock' = [fdLock EXCEPT ![h] = NoOne]
      /\ tableLock' = NoOne
      /\ fd' = [fd EXCEPT ![h] = 0]
      /\ lastFilePointer' = [lastFilePointer EXCEPT ![h] = NoPos]
      /\ assigned' = assigned \ {h}
      /\ pc' = [pc EXCEPT ![r] = "idle"]
      /\ req' = [req EXCEPT ![r] = NoRequest]
      /\ touched' = [touched EXCEPT ![r] = Closed]
  BY DEF EndClose, UnlockConn, Rejoined, Idle, Goto
<1>1. /\ h \in Handle /\ h \in assigned /\ c \in Conn
      /\ \A o \in Request : req[o].h = h => o = r
  BY <1>0, EntryType DEF UseInv
<1>2. /\ \/ disturbed' = disturbed
         \/ Users(c) = {h} /\ disturbed' = disturbed \ {c}
      /\ \/ agent' = Abandon(h) /\ UNCHANGED comm
         \/ /\ ~setting.shared
            /\ agent' = [agent EXCEPT ![c] = Empty]
            /\ comm' = [comm EXCEPT ![c] = "up"]
  BY DEF EndClose, LetGo
<1>3. TypeOK'
  <2>1. \A o \in Request : Placed(o)'
    BY <1>0 DEF TypeOK, Placed, NoRequest
  <2>2. /\ connLock' \in [Conn -> Request \cup {NoOne}]
        /\ fdLock' \in [Handle -> Request \cup {NoOne}]
        /\ tableLock' \in Request \cup {NoOne}
    BY <1>0 DEF TypeOK
  <2>3. /\ comm' \in [Conn -> {"up", "lost", "null"}]
        /\ agent' \in [Conn -> [Number -> {Closed} \cup [of : Handle \cup {NoOne}, pos : Pos]]]
        /\ disturbed' \subseteq Conn
    <3>1. disturbed' \subseteq Conn
      BY <1>2 DEF TypeOK
    <3>2. comm' \in [Conn -> {"up", "lost", "null"}]
      BY <1>2 DEF TypeOK
    <3>3. agent' \in [Conn -> [Number -> {Closed} \cup [of : Handle \cup {NoOne}, pos : Pos]]]
      <4>1. Empty \in [Number -> {Closed} \cup [of : Handle \cup {NoOne}, pos : Pos]]
        BY DEF Empty
      <4>2. agent \in [Conn -> [Number -> {Closed} \cup [of : Handle \cup {NoOne}, pos : Pos]]]
        BY DEF TypeOK
      <4>3. Abandon(h) \in [Conn -> [Number -> {Closed} \cup [of : Handle \cup {NoOne}, pos : Pos]]]
        BY <1>1, AbandonFacts
      <4> QED
        BY <1>2, <4>1, <4>2, <4>3
    <3> QED
      BY <3>1, <3>2, <3>3
  <2>4. /\ fd' \in [Handle -> 0..Numbers]
        /\ lastFilePointer' \in [Handle -> 0..(FileSize + 1) \cup {NoPos}]
        /\ assigned' \subseteq {g \in Handle : fd'[g] # 0}
    <3>1. fd' \in [Handle -> 0..Numbers]
      <4>1. 0 \in 0..Numbers
        BY NumbersAssumption
      <4>2. fd \in [Handle -> 0..Numbers]
        BY DEF TypeOK
      <4> QED
        BY <1>0, <4>1, <4>2
    <3>2. lastFilePointer' \in [Handle -> 0..(FileSize + 1) \cup {NoPos}]
      BY <1>0 DEF TypeOK
    <3>3. \A g \in Handle : g # h => fd'[g] = fd[g]
      BY <1>0 DEF TypeOK
    <3> QED
      BY <1>0, <3>1, <3>2, <3>3 DEF TypeOK
  <2> QED
    BY <1>0, <2>1, <2>2, <2>3, <2>4 DEF TypeOK, Places, NoRequest
<1>4. UseInv'
  BY <1>0, <1>1 DEF TypeOK, UseInv, NoRequest
<1>5. LockInv'
  <2>1. \A o \in Request : o # r => req'[o] = req[o] /\ Inside(o)' = Inside(o)
    BY <1>0 DEF TypeOK, Inside
  <2>2. \A o \in Request : o # r /\ Inside(o) => req[o].h # h /\ req[o].h \in Handle
    BY <1>1 DEF Inside, UseInv
  <2>3. ~Inside(r)'
    BY <1>0 DEF TypeOK, Inside, NoRequest
  <2> QED
    BY <1>0, <2>1, <2>2, <2>3 DEF LockInv, TypeOK
<1>6. \A g \in Handle : g # h => fd'[g] = fd[g] /\ lastFilePointer'[g] = lastFilePointer[g]
  BY <1>0 DEF TypeOK
<1>7. fd'[h] = 0 /\ lastFilePointer'[h] = NoPos
  BY <1>0, <1>1 DEF TypeOK
<1>8. \A o \in Request : o # r => req'[o] = req[o] /\ pc'[o] = pc[o] /\ req[o].h # h
  BY <1>0, <1>1 DEF TypeOK
<1>9. req'[r] = NoRequest /\ pc'[r] = "idle" /\ touched'[r] = Closed
  BY <1>0 DEF TypeOK
<1>10. NumberInv'
  <2>1. \A g \in Handle : fd'[g] # 0 => g \in assigned' \/ \E o \in Request : req'[o].h = g
    BY <1>0, <1>1, <1>6, <1>7, <1>8 DEF NumberInv
  <2>2. \A g \in Handle : fd'[g] = 0 => lastFilePointer'[g] = NoPos
    BY <1>6, <1>7 DEF NumberInv
  <2>3. \A o \in Request : req'[o].op = "open" =>
           /\ pc'[o] \in {"conn", "open"} => fd'[req'[o].h] = 0
           /\ pc'[o] = "enter" => fd'[req'[o].h] # 0
    BY <1>6, <1>8, <1>9 DEF NumberInv, NoRequest, UseInv
  <2> QED
    BY <2>1, <2>2, <2>3 DEF NumberInv
<1>11. PointerInv'
  <2>1. \A o \in Request : pc[o] \in {"data", "reopen"} => req[o].h \in Handle
    BY DEF TypeOK, Placed, UseInv
  <2> QED
    BY <1>6, <1>8, <1>9, <2>1 DEF PointerInv
<1>12. \A g \in Handle :
          g # h /\ (fd[g] # 0 \/ g \in assigned)
             => /\ ConnOf(g)' = ConnOf(g)
                /\ ConnOf(g) \in disturbed' \/ ConnOf(g) \notin disturbed
  BY <1>0, <1>1, <1>2, LastUser DEF ConnOf
<1>13. \A g \in Handle : g # h /\ fd[g] # 0 /\ OwnEntry(g) => OwnEntry(g)'
  <2> SUFFICES ASSUME NEW g \in Handle, g # h, fd[g] # 0, OwnEntry(g)
               PROVE  OwnEntry(g)'
    OBVIOUS
  <2>1. ConnOf(g)' = ConnOf(g) /\ ConnOf(g) \in Conn /\ fd[g] \in Number
    BY <1>12, EntryType
  <2>2. agent[ConnOf(g)][fd[g]].of = g
    BY EntryType DEF OwnEntry
  <2>3. agent'[ConnOf(g)][fd[g]] = agent[ConnOf(g)][fd[g]]
    <3>1. CASE agent' = Abandon(h)
      BY <1>1, <2>1, <2>2, <3>1, AbandonFacts
    <3>2. CASE ~setting.shared /\ agent' = [agent EXCEPT ![c] = Empty]
      BY <2>1, <3>2 DEF ConnOf, TypeOK
    <3> QED
      BY <1>2, <3>1, <3>2
  <2>4. Entry(g)' = Entry(g)
    BY <1>6, <2>1, <2>3 DEF Entry
  <2> QED
    BY <1>6, <2>4 DEF OwnEntry
<1>14. \A g \in Handle : HasFile(g)' => g # h /\ HasFile(g)
  BY <1>1, <1>6, <1>7, <1>8, <1>9 DEF HasFile
<1>15. FileInv'
  BY <1>12, <1>13, <1>14 DEF FileInv, HasFile
<1>16. PrivateInv'
  <2> SUFFICES ASSUME ~setting.shared, NEW g \in Handle, fd'[g] # 0
               PROVE  Entry(g)' = Closed \/ OwnEntry(g)'
    BY <1>0 DEF PrivateInv
  <2>1. g # h /\ fd[g] # 0 /\ fd'[g] = fd[g]
    BY <1>6, <1>7
  <2>2. ConnOf(g)' = ConnOf(g) /\ ConnOf(g) \in Conn /\ fd[g] \in Number /\ ConnOf(g) # c
    BY <1>12, <2>1, EntryType DEF ConnOf
  <2>3. agent'[ConnOf(g)][fd[g]] = agent[ConnOf(g)][fd[g]]
    BY <1>1, <1>2, <2>2, AbandonFacts DEF TypeOK
  <2>4. Entry(g)' = Entry(g)
    BY <2>1, <2>2, <2>3 DEF Entry
  <2> QED
    BY <1>13, <2>1, <2>4 DEF PrivateInv
<1>17. TouchInv'
  <2>1. \A o \in Request : touched'[o] # Closed =>
           o # r /\ touched[o] = touched'[o] /\ req[o].h \in assigned /\ req[o].h \in Handle
    BY <1>0, <1>9 DEF TypeOK, TouchInv, UseInv
  <2>2. \A o \in Request : touched'[o] # Closed => Own(o)' = Own(o)
    BY <1>8, <2>1 DEF Own
  <2> QED
    BY <1>0, <1>8, <1>12, <2>1, <2>2 DEF TouchInv
<1> QED
  BY <1>3, <1>4, <1>5, <1>10, <1>11, <1>15, <1>16, <1>17

-----------------------------------------------------------------------------

(* Every step keeps the invariant.                                         *)
LEMMA NextIInv == IInv /\ [Next]_vars => IInv'
<1> SUFFICES ASSUME IInv, [Next]_vars PROVE IInv'
  OBVIOUS
<1>1. ASSUME NEW r \in Request, Begin(r) PROVE IInv'
  BY <1>1, BeginOpenIInv, BeginIOIInv, BeginCloseIInv DEF Begin
<1>2. ASSUME NEW r \in Request, LockStep(r) PROVE IInv'
  BY <1>2, LocksIInv, EnterIInv DEF LockStep
<1>3. ASSUME NEW r \in Request, CallStep(r) PROVE IInv'
  BY <1>3, BrokenIInv, RefusedIInv, OpenIInv, SeekIInv, DataIInv, ClosedIInv,
     EndIOIInv, EndOpenIInv, EndCloseIInv DEF CallStep
<1>4. CASE StartUnmount \/ Remount
  BY <1>4, UnmountIInv
<1>5. CASE UNCHANGED vars
  BY <1>5 DEF IInv, TypeOK, Placed, LockInv, Inside, UseInv, NumberInv, PointerInv,
     FileInv, HasFile, OwnEntry, Entry, ConnOf, PrivateInv, TouchInv, Own,
     vars, connVars, handleVars, lockVars
<1> QED
  BY <1>1, <1>2, <1>3, <1>4, <1>5 DEF Next

(* The invariant holds of every state.                                     *)
THEOREM Invariance == Spec => []IInv
  BY InitIInv, NextIInv, PTL DEF Spec

(* Every variable has its type, and a request is where its kind can be:    *)
(* only handles with a number are in g_AssignedFd.                         *)
THEOREM TypeCorrect == Spec => []TypeOK
<1>1. IInv => TypeOK
  BY DEF IInv
<1> QED
  BY <1>1, Invariance, PTL

(* A read or write gets the bytes of its own file at the offset asked for, *)
(* across reconnects on a private connection, and on a shared one that no  *)
(* handle has lost its file on: the two calls of iFuseFsRead and           *)
(* iFuseFsWrite, seek and transfer, are one under the lock of the handle.  *)
THEOREM RightFile == Spec => []OwnFile
  BY Invariance, IInvOwnFile, PTL

(* lastFilePointer is the position at the server whenever no request is    *)
(* inside the handle, so iFuseFsRead and iFuseFsWrite may leave out the    *)
(* seek.                                                                   *)
THEOREM PositionsTrue == Spec => []PointerTrue
  BY Invariance, IInvPointerTrue, PTL

-----------------------------------------------------------------------------

(* A handle knows the number of its file until it has closed it; where the *)
(* server refuses nothing, a close has closed it when it ends.             *)
Keeps(h) ==
    /\ fd[h] # 0
    /\ \A r \in Request : req[r].h = h =>
          pc[r] # "reopen" /\ (req[r].op = "close" /\ pc[r] = "unlock" => setting.refuses)

(* What the server has open, seen from there: each entry of an agent's     *)
(* table is the file of a handle that knows its number, or was left by a   *)
(* close that the server of a shared connection refused; a connection      *)
(* without a socket has no agent.  It holds of replaced connections too.   *)
Opened(c, n, h) ==
    /\ ConnOf(h) = c /\ fd[h] = n /\ Keeps(h)
    /\ agent[c][n].of = h

Left(c, n) == setting.shared /\ setting.refuses /\ agent[c][n].of = NoOne

TableInv ==
    /\ \A c \in Conn, n \in Number :
          agent[c][n] # Closed => Left(c, n) \/ \E h \in Handle : Opened(c, n, h)
    /\ \A c \in Conn : comm[c] = "null" => \A n \in Number : agent[c][n] = Closed

(* A step that opens nothing, and leaves the handles what stays open.      *)
LEMMA TableKept ==
  ASSUME TableInv, UNCHANGED setting,
         \A c \in Conn, n \in Number :
            agent'[c][n] # Closed =>
               agent[c][n] # Closed /\ agent'[c][n].of = agent[c][n].of,
         \A h \in Handle :
            Keeps(h) /\ fd[h] \in Number /\ agent'[ConnOf(h)][fd[h]] # Closed =>
               fd'[h] = fd[h] /\ Keeps(h)',
         \A c \in Conn :
            comm'[c] = "null" => comm[c] = "null" \/ \A n \in Number : agent'[c][n] = Closed
  PROVE  TableInv'
<1>1. SUFFICES ASSUME NEW c \in Conn, NEW n \in Number, agent'[c][n] # Closed
               PROVE  Left(c, n)' \/ \E h \in Handle : Opened(c, n, h)'
  BY DEF TableInv
<1>2. CASE Left(c, n)
  BY <1>1, <1>2 DEF Left
<1>3. CASE \E h \in Handle : Opened(c, n, h)
  <2>1. PICK h \in Handle : Opened(c, n, h)
    BY <1>3
  <2>2. Opened(c, n, h)'
    BY <1>1, <2>1 DEF Opened, ConnOf
  <2> QED
    BY <2>2
<1> QED
  BY <1>1, <1>2, <1>3 DEF TableInv

(* Requests begin, and take their locks, without a word to the server; a   *)
(* connection that nobody uses may be replaced.                            *)
LEMMA BeginTable ==
  ASSUME IInv, TableInv, NEW r \in Request, Begin(r)
  PROVE  TableInv'
<1> USE NameAssumption DEF IInv
<1>1. PICK h \in Handle : BeginOpen(r, h) \/ BeginIO(r, h) \/ BeginClose(r, h)
  BY DEF Begin
<1>2. /\ UNCHANGED <<setting, fd>>
      /\ pc[r] = "idle"
      /\ \/ UNCHANGED <<comm, agent>>
         \/ /\ comm' = [comm EXCEPT ![ConnOf(h)] = "up"]
            /\ agent' = [agent EXCEPT ![ConnOf(h)] = Empty]
  BY <1>1 DEF BeginOpen, BeginIO, BeginClose, connVars, handleVars
<1>3. \A g \in Handle : Keeps(g) => Keeps(g)'
  <2>1. \E op \in {"open", "io", "flush", "close"}, off \in Pos \cup {NoPos} :
           req' = [req EXCEPT ![r] = [op |-> op, h |-> h, off |-> off]]
    BY <1>1 DEF BeginOpen, BeginIO, BeginClose
  <2>2. \E l \in {"conn", "fd", "table"} : pc' = [pc EXCEPT ![r] = l]
    BY <1>1 DEF BeginOpen, BeginIO, BeginClose, Goto
  <2> QED
    BY <1>2, <2>1, <2>2 DEF Keeps, TypeOK
<1>4. ConnOf(h) \in Conn
  BY EntryType
<1>5. \A c \in Conn, n \in Number :
         agent'[c][n] # Closed => agent[c][n] # Closed /\ agent'[c][n].of = agent[c][n].of
  <2>1. CASE UNCHANGED agent
    BY <2>1
  <2>2. CASE agent' = [agent EXCEPT ![ConnOf(h)] = Empty]
    <3>1. \A c \in Conn, n \in Number :
             agent'[c][n] = IF c = ConnOf(h) THEN Closed ELSE agent[c][n]
      BY <2>2, <1>4 DEF TypeOK, Empty
    <3> QED
      BY <3>1
  <2> QED
    BY <1>2, <2>1, <2>2
<1>6. \A c \in Conn : comm'[c] = "null" => comm[c] = "null"
  BY <1>2, <1>4 DEF TypeOK
<1> QED
  BY <1>2, <1>3, <1>5, <1>6, TableKept

LEMMA LocksTable ==
  ASSUME IInv, TableInv, NEW r \in Request, LockStep(r)
  PROVE  TableInv'
<1> USE NameAssumption DEF IInv
<1>1. UNCHANGED <<setting, fd, comm, agent>>
  BY DEF LockStep, TakeTable, TakeFd, TakeConn, Enter, connVars, handleVars
<1>2. \A g \in Handle : Keeps(g) => Keeps(g)'
  <2>1. CASE Enter(r)
    <3>1. \A o \in Request : req'[o].h \in Handle => req'[o] = req[o] /\ pc'[o] = pc[o]
      BY <2>1 DEF Enter, Idle, Goto, NoRequest, TypeOK
    <3> QED
      BY <1>1, <3>1 DEF Keeps
  <2>2. CASE TakeTable(r) \/ TakeFd(r) \/ TakeConn(r)
    <3>1. UNCHANGED req /\ \E l \in Places \ {"unlock", "reopen"} : pc' = [pc EXCEPT ![r] = l]
      <4>1. CASE TakeTable(r) \/ TakeFd(r)
        BY <4>1 DEF TakeTable, TakeFd, Goto, Places
      <4>2. CASE TakeConn(r)
        <5>1. FirstCall(req[r]) \in Places \ {"unlock", "reopen"}
          BY <4>2 DEF TakeConn, FirstCall, TypeOK, Placed, Places
        <5> QED
          BY <4>2, <5>1 DEF TakeConn, Goto
      <4> QED
        BY <2>2, <4>1, <4>2
    <3> QED
      BY <1>1, <3>1 DEF Keeps, TypeOK
  <2> QED
    BY <2>1, <2>2 DEF LockStep
<1> QED
  BY <1>1, <1>2, TableKept

(* The agent that breaks takes its whole table along.                      *)
LEMMA BrokenTable ==
  ASSUME IInv, TableInv, NEW r \in Request, Reconnect(r) \/ BrokenAgain(r)
  PROVE  TableInv'
<1> USE NameAssumption DEF IInv
<1> DEFINE h == req[r].h
           c == ConnOf(h)
<1>0. /\ Calling(r)
      /\ agent' = [agent EXCEPT ![c] = Empty]
      /\ \E s \in {"up", "lost", "null"} : comm' = [comm EXCEPT ![c] = s]
      /\ UNCHANGED <<setting, req>>
  BY DEF Reconnect, BrokenAgain
<1>1. h \in Handle /\ c \in Conn
  BY <1>0, EntryType DEF TypeOK, Calling, Placed, UseInv
<1>2. UNCHANGED fd /\ (UNCHANGED pc \/ pc' = [pc EXCEPT ![r] = "unlock"])
  BY DEF Reconnect, BrokenAgain, Fail, Goto, handleVars
<1>3. \A d \in Conn, n \in Number : agent'[d][n] = IF d = c THEN Closed ELSE agent[d][n]
  BY <1>0, <1>1 DEF TypeOK, Empty
<1>4. \A d \in Conn : d # c => comm'[d] = comm[d]
  BY <1>0 DEF TypeOK
<1> HIDE DEF c
<1>5. \A g \in Handle : Keeps(g) /\ g # h => Keeps(g)'
  BY <1>0, <1>2 DEF Keeps, TypeOK
<1>6. \A g \in Handle : fd[g] \in Number /\ agent'[ConnOf(g)][fd[g]] # Closed => g # h
  BY <1>1, <1>3 DEF c
<1> QED
  BY <1>0, <1>2, <1>3, <1>4, <1>5, <1>6, TableKept

(* A close that is refused closes nothing: where the server refuses for no *)
(* reason of its own there was nothing to close.                           *)
LEMMA RefusedTable ==
  ASSUME IInv, TableInv, NEW r \in Request, Refused(r)
  PROVE  TableInv'
<1> USE NameAssumption DEF IInv
<1> DEFINE h == req[r].h
<1>0. /\ Calling(r)
      /\ pc' = [pc EXCEPT ![r] = "unlock"]
      /\ UNCHANGED <<setting, req, comm, agent, fd>>
      /\ pc[r] = "close" => setting.refuses \/ comm[ConnOf(h)] = "null" \/ Entry(h) = Closed
  BY DEF Refused, Fail, Goto
<1>1. h \in Handle /\ ConnOf(h) \in Conn
  BY <1>0, EntryType DEF TypeOK, Calling, Placed, UseInv
<1>2. pc[r] = "close" /\ fd[h] \in Number =>
         setting.refuses \/ agent[ConnOf(h)][fd[h]] = Closed
  BY <1>0, <1>1, NumbersAssumption DEF TableInv, Entry, Number
<1>3. req[r].op = "close" => pc[r] = "close"
  BY <1>0 DEF TypeOK, Calling, Placed
<1>4. \A g \in Handle :
         Keeps(g) /\ fd[g] \in Number /\ agent[ConnOf(g)][fd[g]] # Closed => Keeps(g)'
  BY <1>0, <1>2, <1>3 DEF Keeps, TypeOK
<1> QED
  BY <1>0, <1>4, TableKept

(* A seek and a transfer move a position, no more.                         *)
LEMMA MovedTable ==
  ASSUME IInv, TableInv, NEW r \in Request, Seek(r) \/ Data(r)
  PROVE  TableInv'
<1> USE NameAssumption DEF IInv
<1> DEFINE h == req[r].h
<1>0. /\ pc[r] \in {"seek", "data"} /\ Entry(h) # Closed
      /\ UNCHANGED <<setting, comm, req, fd>>
      /\ \E l \in {"data", "unlock"} : pc' = [pc EXCEPT ![r] = l]
  BY DEF Seek, Data, Succeeds, Goto
<1>1. h \in Handle /\ req[r].op = "io"
  BY <1>0 DEF TypeOK, Placed, UseInv
<1>2. /\ ConnOf(h) \in Conn /\ fd[h] \in Number
      /\ Entry(h) = agent[ConnOf(h)][fd[h]]
      /\ Entry(h) \in [of : Handle \cup {NoOne}, pos : Pos]
  BY <1>0, <1>1, EntryType DEF Entry
<1>3. \E p : agent' = [agent EXCEPT ![ConnOf(h)][fd[h]].pos = p]
  BY DEF Seek, Data
<1>4. \A c \in Conn, n \in Number :
         /\ c = ConnOf(h) /\ n = fd[h] => agent'[c][n].of = agent[c][n].of
         /\ ~(c = ConnOf(h) /\ n = fd[h]) => agent'[c][n] = agent[c][n]
  BY <1>2, <1>3 DEF TypeOK
<1>5. \A c \in Conn, n \in Number :
         agent'[c][n] # Closed => agent[c][n] # Closed /\ agent'[c][n].of = agent[c][n].of
  BY <1>0, <1>2, <1>4
<1>6. \A g \in Handle : Keeps(g) => Keeps(g)'
  BY <1>0, <1>1 DEF Keeps, TypeOK
<1> QED
  BY <1>0, <1>5, <1>6, TableKept

(* A close takes the entry that the number of its handle names, and no     *)
(* other entry can be that of the handle.                                  *)
LEMMA ClosedTable ==
  ASSUME IInv, TableInv, NEW r \in Request, Reclose(r) \/ Close(r)
  PROVE  TableInv'
<1> USE NameAssumption DEF IInv
<1> DEFINE h == req[r].h
<1>0. /\ pc[r] \in {"reclose", "close"} /\ Entry(h) # Closed
      /\ UNCHANGED <<setting, comm, req, fd>>
      /\ \E l \in Places : pc' = [pc EXCEPT ![r] = l]
      /\ agent' = [agent EXCEPT ![ConnOf(h)][fd[h]] = Closed]
  BY DEF Reclose, Close, Succeeds, Goto, Places
<1>1. h \in Handle
  BY <1>0 DEF TypeOK, Placed, UseInv
<1>2. ConnOf(h) \in Conn /\ fd[h] \in Number
  BY <1>0, <1>1, EntryType DEF Entry
<1>3. \A c \in Conn, n \in Number :
         agent'[c][n] = IF c = ConnOf(h) /\ n = fd[h] THEN Closed ELSE agent[c][n]
  BY <1>0, <1>2 DEF TypeOK
<1>4. \A g \in Handle : Keeps(g) /\ g # h => Keeps(g)'
  BY <1>0 DEF Keeps, TypeOK
<1>5. agent'[ConnOf(h)][fd[h]] = Closed
  BY <1>2, <1>3
<1> QED
  BY <1>0, <1>3, <1>4, <1>5, TableKept

(* A new entry is that of its handle, which had none.                      *)
LEMMA OpenTable ==
  ASSUME IInv, TableInv, NEW r \in Request, Open(r)
  PROVE  TableInv'
<1> USE NameAssumption DEF IInv
<1> DEFINE h == req[r].h
           c == ConnOf(h)
<1>0. PICK m \in Number :
         /\ pc[r] \in {"open", "reopen"} /\ comm[c] = "up"
         /\ UNCHANGED <<setting, comm, req>>
         /\ pc' = [pc EXCEPT ![r] = "unlock"]
         /\ agent' = [agent EXCEPT ![c][m] = [of |-> h, pos |-> 0]]
         /\ fd' = [fd EXCEPT ![h] = m]
  BY DEF Open, Succeeds, Goto
<1>1. h \in Handle /\ c \in Conn /\ m # 0 /\ Calling(r)
  BY <1>0, EntryType, NumbersAssumption DEF TypeOK, Placed, UseInv, Calling, Number
<1>2. ~Keeps(h)
  <2>1. CASE pc[r] = "open"
    <3>1. req[r].op = "open"
      BY <2>1 DEF TypeOK, Placed
    <3> QED
      BY <2>1, <3>1 DEF Keeps, NumberInv
  <2>2. CASE pc[r] = "reopen"
    BY <2>2 DEF Keeps
  <2> QED
    BY <1>0, <2>1, <2>2
<1>3. \A d \in Conn, n \in Number :
         agent'[d][n] = IF d = c /\ n = m THEN [of |-> h, pos |-> 0] ELSE agent[d][n]
  BY <1>0, <1>1 DEF TypeOK
<1>4. \A g \in Handle : g # h => fd'[g] = fd[g] /\ (Keeps(g) => Keeps(g)')
  BY <1>0, <1>1 DEF Keeps, TypeOK
<1>5. Keeps(h)'
  <2>1. \A o \in Request : o # r /\ req[o].h = h => ~Calling(o) /\ ~Inside(o)
    BY <1>1, CallingAlone
  <2>2. \A o \in Request :
           req[o].h = h => pc'[o] # "reopen" /\ ~(req[o].op = "close" /\ pc'[o] = "unlock")
    BY <1>0, <2>1 DEF Calling, Inside, TypeOK, Placed
  <2> QED
    BY <1>0, <1>1, <2>2 DEF Keeps, TypeOK
<1>6. ASSUME NEW d \in Conn, NEW n \in Number, agent'[d][n] # Closed
      PROVE  Left(d, n)' \/ \E g \in Handle : Opened(d, n, g)'
  <2>1. CASE d = c /\ n = m
    BY <1>0, <1>1, <1>3, <1>5, <2>1 DEF Opened, ConnOf, TypeOK
  <2>2. CASE ~(d = c /\ n = m)
    <3>1. Left(d, n) \/ \E g \in Handle : Opened(d, n, g)
      BY <1>3, <1>6, <2>2 DEF TableInv
    <3>2. CASE Left(d, n)
      BY <1>0, <1>3, <2>2, <3>2 DEF Left
    <3>3. ASSUME NEW g \in Handle, Opened(d, n, g)
          PROVE  Opened(d, n, g)'
      <4>1. g # h
        BY <1>2, <3>3 DEF Opened
      <4> QED
        BY <1>0, <1>3, <1>4, <2>2, <3>3, <4>1 DEF Opened, ConnOf
    <3> QED
      BY <3>1, <3>2, <3>3
  <2> QED
    BY <2>1, <2>2
<1>7. \A d \in Conn : comm'[d] = "null" => \A n \in Number : agent'[d][n] = Closed
  BY <1>0, <1>3 DEF TableInv
<1> QED
  BY <1>6, <1>7 DEF TableInv

(* The end of a request that is no close takes no number away.             *)
LEMMA EndTable ==
  ASSUME IInv, TableInv, NEW r \in Request, EndIO(r) \/ EndOpen(r)
  PROVE  TableInv'
<1> USE NameAssumption DEF IInv
<1>0. /\ UNCHANGED <<setting, comm, agent, fd>>
      /\ \E l \in {"idle", "enter"} : pc' = [pc EXCEPT ![r] = l]
      /\ UNCHANGED req \/ req' = [req EXCEPT ![r] = NoRequest]
  BY DEF EndIO, EndOpen, UnlockConn, Idle, Goto, connVars, handleVars
<1>1. \A o \in Request : req'[o].h \in Handle =>
         /\ req'[o] = req[o]
         /\ pc'[o] = pc[o] \/ pc'[o] \in {"idle", "enter"}
  BY <1>0 DEF TypeOK, NoRequest
<1>2. \A g \in Handle : Keeps(g) => Keeps(g)'
  BY <1>0, <1>1 DEF Keeps
<1> QED
  BY <1>0, <1>2, TableKept

(* The handle goes: if it has a file still, the server has refused to      *)
(* close it, and it is nobody's from then on; a private connection ends.   *)
LEMMA EndCloseTable ==
  ASSUME IInv, TableInv, NEW r \in Request, EndClose(r)
  PROVE  TableInv'
<1> USE NameAssumption DEF IInv
<1> DEFINE h == req[r].h
           c == ConnOf(h)
<1>0. /\ req[r].op = "close" /\ pc[r] = "unlock" /\ UNCHANGED setting
      /\ fd' = [fd EXCEPT ![h] = 0]
      /\ pc' = [pc EXCEPT ![r] = "idle"]
      /\ req' = [req EXCEPT ![r] = NoRequest]
  BY DEF EndClose, UnlockConn, Idle, Goto
<1>1. h \in Handle /\ c \in Conn /\ h \in assigned
  BY <1>0, EntryType DEF UseInv
<1>2. IF ~setting.shared
      THEN agent' = [agent EXCEPT ![c] = Empty] /\ comm' = [comm EXCEPT ![c] = "up"]
      ELSE agent' = Abandon(h) /\ UNCHANGED comm
  <2>1. ~setting.shared => Users(c) = {h}
    BY <1>0, <1>1 DEF Users, ConnOf
  <2> QED
    BY <2>1 DEF EndClose, LetGo
<1>3. \A g \in Handle : g # h /\ Keeps(g) => fd'[g] = fd[g] /\ Keeps(g)'
  <2>1. \A o \in Request : req'[o].h \in Handle => req'[o] = req[o] /\ pc'[o] = pc[o]
    BY <1>0 DEF TypeOK, NoRequest
  <2> QED
    BY <1>0, <1>1, <2>1 DEF Keeps, TypeOK
<1>4. ASSUME NEW d \in Conn, NEW n \in Number, agent'[d][n] # Closed
      PROVE  Left(d, n)' \/ \E g \in Handle : Opened(d, n, g)'
  <2>1. CASE ~setting.shared
    <3>1. agent'[d][n] = agent[d][n] /\ d # c
      BY <1>1, <1>2, <1>4, <2>1 DEF TypeOK, Empty
    <3>2. PICK g \in Handle : Opened(d, n, g)
      BY <1>4, <2>1, <3>1 DEF TableInv, Left
    <3>3. Opened(d, n, g)'
      BY <1>0, <1>3, <3>1, <3>2 DEF Opened, ConnOf
    <3> QED
      BY <3>3
  <2>2. CASE setting.shared
    <3>1. \/ agent'[d][n] = agent[d][n]
          \/ agent[d][n].of = h /\ agent'[d][n].of = NoOne
      BY <1>1, <1>2, <2>2, AbandonFacts
    <3>2. agent[d][n] # Closed
      BY <1>1, <1>4, <3>1 DEF Closed
    <3>3. Left(d, n) \/ \E g \in Handle : Opened(d, n, g)
      BY <3>2 DEF TableInv
    <3>4. CASE agent[d][n].of = h
      <4>1. Opened(d, n, h)
        BY <1>1, <3>3, <3>4 DEF Left, Opened
      <4>2. setting.refuses
        BY <1>0, <4>1 DEF Opened, Keeps
      <4>3. agent'[d][n].of = NoOne
        BY <1>1, <1>2, <2>2, <3>1, <3>4, <4>1, AbandonFacts DEF Opened, Keeps
      <4> QED
        BY <1>0, <2>2, <4>2, <4>3 DEF Left
    <3>5. CASE agent[d][n].of # h
      <4>1. agent'[d][n] = agent[d][n]
        BY <3>1, <3>5
      <4>2. CASE Left(d, n)
        BY <1>0, <4>1, <4>2 DEF Left
      <4>3. ASSUME NEW g \in Handle, Opened(d, n, g)
            PROVE  Opened(d, n, g)'
        BY <1>0, <1>3, <3>5, <4>1, <4>3 DEF Opened, ConnOf
      <4> QED
        BY <3>3, <4>2, <4>3
    <3> QED
      BY <3>4, <3>5
  <2> QED
    BY <2>1, <2>2
<1>5. \A d \in Conn : comm'[d] = "null" => \A n \in Number : agent'[d][n] = Closed
  <2>1. SUFFICES ASSUME NEW d \in Conn, comm'[d] = "null", NEW n \in Number
                 PROVE  agent'[d][n] = Closed
    OBVIOUS
  <2>2. comm[d] = "null" /\ agent[d][n] = Closed
    BY <1>1, <1>2, <2>1 DEF TypeOK, TableInv
  <2>3. CASE setting.shared
    BY <1>1, <1>2, <2>2, <2>3, AbandonFacts DEF Closed
  <2>4. CASE ~setting.shared
    BY <1>1, <1>2, <2>2, <2>4 DEF TypeOK, Empty
  <2> QED
    BY <2>3, <2>4
<1> QED
  BY <1>4, <1>5 DEF TableInv

LEMMA UnmountTable ==
  ASSUME IInv, TableInv, StartUnmount \/ Remount
  PROVE  TableInv'
<1>1. CASE StartUnmount
  BY <1>1 DEF StartUnmount, TableInv, Left, Opened, ConnOf, Keeps, connVars
<1>2. CASE Remount
  BY <1>2 DEF Remount, TableInv, Empty
<1> QED
  BY <1>1, <1>2

LEMMA InitTable == Init => TableInv
  BY DEF Init, TableInv, Empty

LEMMA NextTable == IInv /\ TableInv /\ [Next]_vars => TableInv'
<1> SUFFICES ASSUME IInv, TableInv, [Next]_vars PROVE TableInv'
  OBVIOUS
<1>1. ASSUME NEW r \in Request, CallStep(r) PROVE TableInv'
  BY <1>1, BrokenTable, RefusedTable, OpenTable, MovedTable, ClosedTable, EndTable, EndCloseTable
  DEF CallStep
<1>2. CASE UNCHANGED vars
  BY <1>2 DEF TableInv, Left, Opened, ConnOf, Keeps, vars, connVars, handleVars
<1> QED
  BY <1>1, <1>2, BeginTable, LocksTable, UnmountTable DEF Next

(* The handles on a connection that is whole, and the entries that are     *)
(* open there, are as many: a handle's number is one of them, that of two  *)
(* handles cannot be the same, and each entry is that of a user.           *)
LEMMA TableExact ==
  ASSUME IInv, TableInv, NEW c \in Conn \ disturbed, \A h \in Users(c) : On(h) = {}
  PROVE  /\ \A h \in Users(c) : Entry(h).of = h
         /\ Cardinality({n \in Number : agent[c][n].of # NoOne}) = Cardinality(Users(c))
         /\ \A n \in Number :
              ~(setting.shared /\ setting.refuses) /\ agent[c][n].of = NoOne
                => agent[c][n] = Closed
<1> USE NameAssumption DEF IInv
<1> DEFINE N == {n \in Number : agent[c][n].of # NoOne}
           f == [n \in N |-> agent[c][n].of]
<1>1. \A h \in Users(c) :
         /\ h \in Handle /\ ConnOf(h) = c /\ fd[h] \in N
         /\ Entry(h).of = h /\ agent[c][fd[h]].of = h
  <2> SUFFICES ASSUME NEW h \in Users(c)
               PROVE  /\ h \in Handle /\ ConnOf(h) = c /\ fd[h] \in N
                      /\ Entry(h).of = h /\ agent[c][fd[h]].of = h
    OBVIOUS
  <2>1. h \in Handle /\ ConnOf(h) = c /\ h \in assigned /\ fd[h] # 0
    BY DEF Users, TypeOK
  <2>2. HasFile(h)
    BY <2>1 DEF HasFile, On
  <2>3. Entry(h).of = h
    BY <2>1, <2>2 DEF FileInv, OwnEntry
  <2>4. fd[h] \in Number /\ Entry(h) = agent[c][fd[h]]
    BY <2>1, EntryType
  <2> QED
    BY <2>1, <2>3, <2>4
<1>2. \A n \in N : f[n] \in Users(c) /\ fd[f[n]] = n
  <2> SUFFICES ASSUME NEW n \in N PROVE f[n] \in Users(c) /\ fd[f[n]] = n
    OBVIOUS
  <2>1. PICK h \in Handle : Opened(c, n, h)
    BY DEF TableInv, Left, Closed
  <2>2. h \in Users(c)
    BY <2>1 DEF Opened, Keeps, NumberInv, Users, On
  <2> QED
    BY <2>1, <2>2 DEF Opened
<1>3. f \in Bijection(N, Users(c))
  <2>1. f \in [N -> Users(c)]
    BY <1>2
  <2>2. IsInjective(f)
    BY <1>2 DEF IsInjective
  <2>3. \A h \in Users(c) : \E n \in N : f[n] = h
    BY <1>1
  <2> QED
    BY <2>1, <2>2, <2>3 DEF Bijection, Injection, Surjection
<1>4. IsFiniteSet(N)
  <2>1. IsFiniteSet(Number)
    BY FS_Interval, NumbersAssumption DEF Number
  <2> QED
    BY <2>1, FS_Subset
<1>5. Cardinality(Users(c)) = Cardinality(N)
  <2> HIDE DEF f, N
  <2> QED
    BY <1>3, <1>4, FS_Bijection DEF ExistsBijection
<1>6. \A n \in Number :
         ~(setting.shared /\ setting.refuses) /\ agent[c][n].of = NoOne
           => agent[c][n] = Closed
  BY DEF TableInv, Left, Opened
<1> QED
  BY <1>1, <1>5, <1>6

(* Every file that is open at the server is that of a handle that knows    *)
(* its number, whatever breaks; or it is nobody's, left on a shared        *)
(* connection by iFuseFdClose when the server refused to close it.         *)
THEOREM TablesOwned == Spec => []TableInv
  BY InitTable, NextTable, Invariance, PTL DEF Spec

(* As long as no handle has lost its file on a connection, the server has  *)
(* open on it the files of the handles that use it, one each: iFuseFdClose *)
(* and iFuseFdReopen give back what they no longer name.  Other files stay *)
(* open only on a shared connection with a server that refuses to close.   *)
THEOREM NothingLeaks == Spec => []DescriptorsExact
<1>1. IInv /\ TableInv => DescriptorsExact
  BY TableExact DEF DescriptorsExact
<1> QED
  BY <1>1, Invariance, TablesOwned, PTL

-----------------------------------------------------------------------------
(* Who waits for whom.                                                     *)

(* Who holds which lock, and where it is then: g_AssignedFdLock from the   *)
(* table to the end of a close, the lock of a handle while a request is    *)
(* inside it, and that of a connection during the calls on it.             *)
TableHeld == \A r \in Request : tableLock = r <=> req[r].op = "close" /\ pc[r] # "table"
FdHeld == \A r \in Request, h \in Handle : fdLock[h] = r <=> Inside(r) /\ req[r].h = h
ConnHeld ==
    \A r \in Request, c \in Conn :
        connLock[c] = r => (Calling(r) \/ pc[r] = "unlock") /\ ConnOf(req[r].h) = c
HeldInv == TableHeld /\ FdHeld /\ ConnHeld

(* The request needs, for its next step, a lock that the other one holds.  *)
Waits(r, u) ==
    \/ pc[r] \in {"table", "enter"} /\ tableLock = u
    \/ pc[r] = "fd" /\ fdLock[req[r].h] = u
    \/ pc[r] = "conn" /\ connLock[ConnOf(req[r].h)] = u

(* The order of the locks: the table of descriptors, then the handle, then *)
(* its connection; a request past all of them waits for none.              *)
Level(r) ==
    CASE pc[r] \in {"table", "enter"} -> 0
      [] pc[r] = "fd" -> 1
      [] pc[r] = "conn" -> 2
      [] OTHER -> 3

(* Every wait leads upwards in that order, so that no circle closes.       *)
WaitsUpward == \A r, u \in Request : Waits(r, u) => Level(r) < Level(u)

(* It cannot have the lock it needs.                                       *)
Blocked(r) == \E u \in Request : Waits(r, u)

(* Behind a request that is blocked there is one further on that is not: no *)
(* deadlock among requests and their locks.                                *)
OneAtLeastGoes ==
    \A r \in Request : Blocked(r) =>
        \E u \in Request : Level(r) < Level(u) /\ ~Blocked(u)

(* At most one close is under way once it has the table of descriptors.    *)
CloseAlone ==
    \A r, u \in Request :
        /\ req[r].op = "close" /\ pc[r] # "table"
        /\ req[u].op = "close" /\ pc[u] # "table"
        => r = u

(* No request runs at first and no lock is held.                           *)
LEMMA InitHeld == Init => HeldInv
  BY NameAssumption DEF Init, HeldInv, TableHeld, FdHeld, ConnHeld, Inside, NoRequest

(* A step that takes and frees no lock, of a request that goes on.         *)
LEMMA GoingOn ==
  ASSUME IInv, HeldInv, NEW r \in Request, NEW l \in Places,
         UNCHANGED <<setting, lockVars, req>>, pc' = [pc EXCEPT ![r] = l],
         Calling(r), l \in {"open", "seek", "data", "reclose", "reopen", "close", "unlock"}
  PROVE  HeldInv'
<1>1. \A u \in Request : pc'[u] = IF u = r THEN l ELSE pc[u]
  BY DEF IInv, TypeOK
<1>2. UNCHANGED <<setting, tableLock, fdLock, connLock, req>>
  BY DEF lockVars
<1>3. TableHeld'
  BY <1>1, <1>2 DEF HeldInv, TableHeld, Calling
<1>4. FdHeld'
  BY <1>1, <1>2 DEF HeldInv, FdHeld, Inside, Calling
<1>5. ConnHeld'
  BY <1>1, <1>2 DEF HeldInv, ConnHeld, Calling, ConnOf
<1> QED
  BY <1>3, <1>4, <1>5 DEF HeldInv

(* The same when the lock of the connection may be given up.               *)
LEMMA GivingUp ==
  ASSUME IInv, HeldInv, NEW r \in Request, Calling(r),
         UNCHANGED <<setting, tableLock, fdLock, req>>,
         pc' = pc \/ pc' = [pc EXCEPT ![r] = "unlock"],
         \A c \in Conn : connLock'[c] \in {connLock[c], NoOne}
  PROVE  HeldInv'
<1>1. \A u \in Request : pc'[u] = pc[u] \/ (u = r /\ pc'[u] = "unlock")
  BY DEF IInv, TypeOK
<1>2. TableHeld'
  BY <1>1 DEF HeldInv, TableHeld, Calling
<1>3. FdHeld'
  BY <1>1 DEF HeldInv, FdHeld, Inside, Calling
<1>4. ConnHeld'
  BY <1>1, NameAssumption DEF HeldInv, ConnHeld, Calling, ConnOf
<1> QED
  BY <1>2, <1>3, <1>4 DEF HeldInv

(* The calls of a request on its connection, and what it does when they    *)
(* fail, take no lock.                                                     *)
LEMMA CallHeld ==
  ASSUME IInv, HeldInv, NEW r \in Request,
         Reconnect(r) \/ BrokenAgain(r) \/ Refused(r) \/ Open(r) \/ Seek(r) \/ Data(r)
           \/ Reclose(r) \/ Close(r)
  PROVE  HeldInv'
<1>1. CASE Reconnect(r)
  <2>1. connLock' = [connLock EXCEPT ![ConnOf(req[r].h)] = NoOne]
    BY <1>1 DEF Reconnect
  <2>2. \A c \in Conn : connLock'[c] \in {connLock[c], NoOne}
    BY <2>1 DEF IInv, TypeOK
  <2> QED
    BY <1>1, <2>2, GivingUp DEF Reconnect, Fail, Goto
<1>2. CASE BrokenAgain(r) \/ Refused(r)
  <2>1. /\ Calling(r) /\ pc' = [pc EXCEPT ![r] = "unlock"]
        /\ UNCHANGED <<setting, lockVars, req>>
    BY <1>2 DEF BrokenAgain, Refused, Fail, Goto
  <2> QED
    BY <2>1, GoingOn DEF Places
<1>3. CASE Open(r) \/ Seek(r) \/ Data(r) \/ Reclose(r) \/ Close(r)
  <2>1. /\ Calling(r) /\ UNCHANGED <<setting, lockVars, req>>
        /\ \E l \in {"unlock", "data", "reopen"} : pc' = [pc EXCEPT ![r] = l]
    BY <1>3 DEF Open, Seek, Data, Reclose, Close, Succeeds, Calling, Goto
  <2> QED
    BY <2>1, GoingOn DEF Places
<1> QED
  BY <1>1, <1>2, <1>3

(* A request that begins holds nothing.                                    *)
LEMMA BeginHeld ==
  ASSUME IInv, HeldInv, NEW r \in Request, Begin(r)
  PROVE  HeldInv'
<1>1. /\ pc[r] = "idle" /\ UNCHANGED <<setting, tableLock, fdLock, connLock>>
      /\ \E h \in Handle : \E q, l :
           /\ req' = [req EXCEPT ![r] = q] /\ q.h = h
           /\ pc' = [pc EXCEPT ![r] = l]
           /\ \/ q.op = "open" /\ l = "conn"
              \/ q.op \in {"io", "flush"} /\ l = "fd"
              \/ q.op = "close" /\ l = "table"
  <2>1. PICK h \in Handle : BeginOpen(r, h) \/ BeginIO(r, h) \/ BeginClose(r, h)
    BY DEF Begin
  <2>2. CASE BeginOpen(r, h)
    <3> DEFINE q == [op |-> "open", h |-> h, off |-> NoPos]
    <3>1. q.op = "open" /\ q.h = h
      OBVIOUS
    <3>2. /\ req' = [req EXCEPT ![r] = q] /\ pc' = [pc EXCEPT ![r] = "conn"]
          /\ pc[r] = "idle" /\ UNCHANGED <<setting, lockVars>>
      BY <2>2 DEF BeginOpen, Goto
    <3> HIDE DEF q
    <3> QED
      BY <3>1, <3>2 DEF lockVars
  <2>3. CASE BeginIO(r, h)
    <3>1. PICK off \in Pos \cup {NoPos}, o \in {"io", "flush"} :
             req' = [req EXCEPT ![r] = [op |-> o, h |-> h, off |-> off]]
      BY <2>3 DEF BeginIO
    <3> DEFINE q == [op |-> o, h |-> h, off |-> off]
    <3>2. q.op \in {"io", "flush"} /\ q.h = h
      OBVIOUS
    <3>3. /\ req' = [req EXCEPT ![r] = q] /\ pc' = [pc EXCEPT ![r] = "fd"]
          /\ pc[r] = "idle" /\ UNCHANGED <<setting, lockVars>>
      BY <2>3, <3>1 DEF BeginIO, Goto
    <3> HIDE DEF q
    <3> QED
      BY <3>2, <3>3 DEF lockVars
  <2>4. CASE BeginClose(r, h)
    <3> DEFINE q == [op |-> "close", h |-> h, off |-> NoPos]
    <3>1. q.op = "close" /\ q.h = h
      OBVIOUS
    <3>2. /\ req' = [req EXCEPT ![r] = q] /\ pc' = [pc EXCEPT ![r] = "table"]
          /\ pc[r] = "idle" /\ UNCHANGED <<setting, lockVars>>
      BY <2>4 DEF BeginClose, Goto
    <3> HIDE DEF q
    <3> QED
      BY <3>1, <3>2 DEF lockVars
  <2> QED
    BY <2>1, <2>2, <2>3, <2>4
<1>2. PICK h \in Handle : \E q, l :
           /\ req' = [req EXCEPT ![r] = q] /\ q.h = h
           /\ pc' = [pc EXCEPT ![r] = l]
           /\ \/ q.op = "open" /\ l = "conn"
              \/ q.op \in {"io", "flush"} /\ l = "fd"
              \/ q.op = "close" /\ l = "table"
  BY <1>1
<1>3. \A u \in Request : u # r => req'[u] = req[u] /\ pc'[u] = pc[u]
  BY <1>2 DEF IInv, TypeOK
<1>4. \/ req'[r].op = "open" /\ pc'[r] = "conn"
      \/ req'[r].op \in {"io", "flush"} /\ pc'[r] = "fd"
      \/ req'[r].op = "close" /\ pc'[r] = "table"
  BY <1>2 DEF IInv, TypeOK
<1>5. /\ req[r].op = "none"
      /\ tableLock # r /\ \A g \in Handle : fdLock[g] # r
      /\ \A c \in Conn : connLock[c] # r
  <2>1. pc[r] = "idle" /\ req[r].op = "none"
    BY <1>1 DEF IInv, TypeOK, Placed, Places
  <2>2. tableLock # r
    BY <2>1 DEF HeldInv, TableHeld
  <2>3. \A g \in Handle : fdLock[g] # r
    BY <2>1 DEF HeldInv, FdHeld, Inside
  <2>4. \A c \in Conn : connLock[c] # r
    BY <2>1 DEF HeldInv, ConnHeld, Calling
  <2> QED
    BY <2>1, <2>2, <2>3, <2>4
<1>6. TableHeld'
  BY <1>1, <1>3, <1>4, <1>5 DEF HeldInv, TableHeld
<1>7. FdHeld'
  BY <1>1, <1>3, <1>4, <1>5 DEF HeldInv, FdHeld, Inside
<1>8. ConnHeld'
  BY <1>1, <1>3, <1>4, <1>5 DEF HeldInv, ConnHeld, Calling, ConnOf
<1> QED
  BY <1>6, <1>7, <1>8 DEF HeldInv

(* A request that takes the next lock.                                     *)
LEMMA LockHeld ==
  ASSUME IInv, HeldInv, NEW r \in Request, LockStep(r)
  PROVE  HeldInv'
<1> USE NameAssumption
<1>0. req[r].op # "none" => req[r].h \in Handle /\ ConnOf(req[r].h) \in Conn
  BY EntryType DEF IInv, UseInv
<1>1. CASE TakeTable(r)
  <2>1. /\ pc[r] = "table" /\ tableLock = NoOne /\ tableLock' = r
        /\ \A u \in Request : pc'[u] = IF u = r THEN "fd" ELSE pc[u]
        /\ UNCHANGED <<setting, fdLock, connLock, req>>
    BY <1>1 DEF TakeTable, Goto, IInv, TypeOK
  <2>2. req[r].op = "close"
    BY <2>1 DEF IInv, TypeOK, Placed, Places
  <2>3. TableHeld'
    BY <2>1, <2>2 DEF HeldInv, TableHeld
  <2>4. FdHeld'
    BY <2>1 DEF HeldInv, FdHeld, Inside
  <2>5. ConnHeld'
    BY <2>1 DEF HeldInv, ConnHeld, Calling, ConnOf
  <2> QED
    BY <2>3, <2>4, <2>5 DEF HeldInv
<1>2. CASE TakeFd(r)
  <2>1. /\ pc[r] = "fd" /\ fdLock[req[r].h] = NoOne
        /\ fdLock' = [fdLock EXCEPT ![req[r].h] = r]
        /\ \A u \in Request : pc'[u] = IF u = r THEN "conn" ELSE pc[u]
        /\ UNCHANGED <<setting, tableLock, connLock, req>>
    BY <1>2 DEF TakeFd, Goto, IInv, TypeOK
  <2>2. req[r].op \in {"io", "flush", "close"} /\ req[r].h \in Handle
    BY <1>0, <2>1 DEF IInv, TypeOK, Placed, Places
  <2>3. \A h \in Handle : fdLock'[h] = IF h = req[r].h THEN r ELSE fdLock[h]
    BY <2>1 DEF IInv, TypeOK
  <2>4. FdHeld'
    BY <2>1, <2>2, <2>3 DEF HeldInv, FdHeld, Inside
  <2>5. TableHeld'
    BY <2>1 DEF HeldInv, TableHeld
  <2>6. ConnHeld'
    BY <2>1 DEF HeldInv, ConnHeld, Calling, ConnOf
  <2> QED
    BY <2>4, <2>5, <2>6 DEF HeldInv
<1>3. CASE TakeConn(r)
  <2> DEFINE l == FirstCall(req[r])
  <2>1. /\ pc[r] = "conn" /\ connLock[ConnOf(req[r].h)] = NoOne
        /\ connLock' = [connLock EXCEPT ![ConnOf(req[r].h)] = r]
        /\ \A u \in Request : pc'[u] = IF u = r THEN l ELSE pc[u]
        /\ UNCHANGED <<setting, tableLock, fdLock, req>>
    BY <1>3 DEF TakeConn, Goto, IInv, TypeOK
  <2>2. req[r].op \in {"open", "io", "flush", "close"} /\ ConnOf(req[r].h) \in Conn
    BY <1>0, <2>1 DEF IInv, TypeOK, Placed, Places
  <2>3. l \in {"open", "seek", "data", "reclose", "close"}
    BY <2>2 DEF FirstCall
  <2> HIDE DEF l
  <2>4. \A c \in Conn : connLock'[c] = IF c = ConnOf(req[r].h) THEN r ELSE connLock[c]
    BY <2>1 DEF IInv, TypeOK
  <2>5. FdHeld'
    BY <2>1, <2>3 DEF HeldInv, FdHeld, Inside
  <2>6. TableHeld'
    BY <2>1, <2>3 DEF HeldInv, TableHeld
  <2>7. ConnHeld'
    BY <2>1, <2>3, <2>4 DEF HeldInv, ConnHeld, Calling, ConnOf
  <2> QED
    BY <2>5, <2>6, <2>7 DEF HeldInv
<1>4. CASE Enter(r)
  <2>1. /\ pc[r] = "enter" /\ UNCHANGED <<setting, tableLock, fdLock, connLock>>
        /\ pc' = [pc EXCEPT ![r] = "idle"] /\ req' = [req EXCEPT ![r] = NoRequest]
    BY <1>4 DEF Enter, Idle, Goto, lockVars
  <2>2. req[r].op = "open"
    BY <2>1 DEF IInv, TypeOK, Placed, Places
  <2>3. /\ \A u \in Request : u # r => pc'[u] = pc[u] /\ req'[u] = req[u]
        /\ pc'[r] = "idle" /\ req'[r].op = "none"
    BY <2>1 DEF IInv, TypeOK, NoRequest
  <2>4. TableHeld'
    BY <2>1, <2>2, <2>3 DEF HeldInv, TableHeld
  <2>5. FdHeld'
    BY <2>1, <2>2, <2>3 DEF HeldInv, FdHeld, Inside
  <2>6. ConnHeld'
    BY <2>1, <2>2, <2>3 DEF HeldInv, ConnHeld, Calling, ConnOf
  <2> QED
    BY <2>4, <2>5, <2>6 DEF HeldInv
<1> QED
  BY <1>1, <1>2, <1>3, <1>4 DEF LockStep

(* A request that ends frees what it has, and the lock of the connection   *)
(* whoever has that.                                                       *)
LEMMA EndHeld ==
  ASSUME IInv, HeldInv, NEW r \in Request, EndIO(r) \/ EndOpen(r) \/ EndClose(r)
  PROVE  HeldInv'
<1> USE NameAssumption
<1> DEFINE h == req[r].h
           c == ConnOf(h)
<1>0. /\ pc[r] = "unlock" /\ UNCHANGED setting
      /\ connLock' = [connLock EXCEPT ![c] = NoOne]
      /\ req[r].op \in {"io", "flush", "open", "close"}
  BY DEF EndIO, EndOpen, EndClose, UnlockConn
<1>1. h \in Handle /\ c \in Conn
  BY <1>0, EntryType DEF IInv, UseInv
<1>2. \A d \in Conn : connLock'[d] = IF d = c THEN NoOne ELSE connLock[d]
  BY <1>0 DEF IInv, TypeOK
<1>3. \A u \in Request : u # r => pc'[u] = pc[u] /\ req'[u] = req[u]
  BY DEF EndIO, EndOpen, EndClose, Idle, Goto, IInv, TypeOK
<1>4. \A d \in Conn : connLock[d] = r => d = c
  BY <1>1 DEF HeldInv, ConnHeld
<1>5. ConnHeld'
  BY <1>0, <1>2, <1>3, <1>4 DEF HeldInv, ConnHeld, Calling, ConnOf
<1>6. \/ req'[r].op = "none" /\ pc'[r] = "idle"
      \/ req[r].op = "open" /\ req'[r] = req[r] /\ pc'[r] = "enter"
  BY DEF EndIO, EndOpen, EndClose, Idle, Goto, IInv, TypeOK, NoRequest
<1>7. CASE EndIO(r)
  <2>1. /\ fdLock' = [fdLock EXCEPT ![h] = NoOne] /\ UNCHANGED tableLock
        /\ req[r].op \in {"io", "flush"}
    BY <1>7 DEF EndIO
  <2>2. \A g \in Handle : fdLock'[g] = IF g = h THEN NoOne ELSE fdLock[g]
    BY <2>1 DEF IInv, TypeOK
  <2>3. fdLock[h] = r /\ \A g \in Handle : fdLock[g] = r => g = h
    BY <1>0, <1>1, <2>1 DEF HeldInv, FdHeld, Inside
  <2>4. FdHeld'
    BY <1>3, <1>6, <2>1, <2>2, <2>3 DEF HeldInv, FdHeld, Inside
  <2>5. TableHeld'
    BY <1>3, <1>6, <2>1 DEF HeldInv, TableHeld
  <2> QED
    BY <1>5, <2>4, <2>5 DEF HeldInv
<1>8. CASE EndOpen(r)
  <2>1. UNCHANGED <<tableLock, fdLock>> /\ req[r].op = "open"
    BY <1>8 DEF EndOpen
  <2>2. FdHeld'
    BY <1>3, <1>6, <2>1 DEF HeldInv, FdHeld, Inside
  <2>3. TableHeld'
    BY <1>3, <1>6, <2>1 DEF HeldInv, TableHeld
  <2> QED
    BY <1>5, <2>2, <2>3 DEF HeldInv
<1>9. CASE EndClose(r)
  <2>1. /\ fdLock' = [fdLock EXCEPT ![h] = NoOne] /\ tableLock' = NoOne
        /\ req[r].op = "close"
    BY <1>9 DEF EndClose
  <2>2. \A g \in Handle : fdLock'[g] = IF g = h THEN NoOne ELSE fdLock[g]
    BY <2>1 DEF IInv, TypeOK
  <2>3. fdLock[h] = r /\ \A g \in Handle : fdLock[g] = r => g = h
    BY <1>0, <1>1, <2>1 DEF HeldInv, FdHeld, Inside
  <2>4. FdHeld'
    BY <1>3, <1>6, <2>1, <2>2, <2>3 DEF HeldInv, FdHeld, Inside
  <2>5. tableLock = r
    BY <1>0, <2>1 DEF HeldInv, TableHeld
  <2>6. TableHeld'
    BY <1>3, <1>6, <2>1, <2>5 DEF HeldInv, TableHeld
  <2> QED
    BY <1>5, <2>4, <2>6 DEF HeldInv
<1> QED
  BY <1>7, <1>8, <1>9

(* HeldInv holds in every state the requests reach.                        *)
LEMMA HeldInvariant == Spec => [](IInv /\ HeldInv)
<1>1. IInv /\ HeldInv /\ [Next]_vars => HeldInv'
  <2> SUFFICES ASSUME IInv, HeldInv, [Next]_vars PROVE HeldInv'
    OBVIOUS
  <2>1. CASE \E r \in Request : Begin(r) \/ LockStep(r) \/ CallStep(r)
    BY <2>1, BeginHeld, LockHeld, CallHeld, EndHeld DEF CallStep
  <2>2. CASE StartUnmount \/ Remount \/ UNCHANGED vars
    <3>1. UNCHANGED <<setting, tableLock, fdLock, connLock, req, pc>>
      BY <2>2 DEF StartUnmount, Remount, vars, lockVars
    <3> QED
      BY <3>1 DEF HeldInv, TableHeld, FdHeld, ConnHeld, Inside, Calling, ConnOf
  <2> QED
    BY <2>1, <2>2 DEF Next
<1> QED
  BY <1>1, InitHeld, Invariance, PTL DEF Spec

(* A request that is blocked takes no step, as its guards say.             *)
LEMMA BlockedStays ==
  ASSUME NEW r \in Request, Blocked(r)
  PROVE  ~(LockStep(r) \/ CallStep(r))
<1>1. PICK u \in Request : Waits(r, u)
  BY DEF Blocked
<1>2. pc[r] \in {"table", "enter", "fd", "conn"}
  BY <1>1 DEF Waits
<1>3. ~LockStep(r)
  BY <1>1, NameAssumption DEF Waits, LockStep, TakeTable, TakeFd, TakeConn, Enter
<1>4. ~(Reconnect(r) \/ BrokenAgain(r) \/ Refused(r))
  BY <1>2 DEF Reconnect, BrokenAgain, Refused, Calling
<1>5. ~(Open(r) \/ Seek(r) \/ Data(r) \/ Reclose(r) \/ Close(r))
  BY <1>2 DEF Open, Seek, Data, Reclose, Close, Succeeds, Calling
<1>6. ~(EndIO(r) \/ EndOpen(r) \/ EndClose(r))
  BY <1>2 DEF EndIO, EndOpen, EndClose, UnlockConn
<1> QED
  BY <1>3, <1>4, <1>5, <1>6 DEF CallStep

LEMMA WaitsLeadUp == IInv /\ HeldInv => WaitsUpward
<1> SUFFICES ASSUME IInv, HeldInv, NEW r \in Request, NEW u \in Request, Waits(r, u)
             PROVE  Level(r) < Level(u)
  BY DEF WaitsUpward
<1>0. \A o \in Request : req[o].op # "none" => req[o].h \in Handle /\ ConnOf(req[o].h) \in Conn
  BY EntryType DEF IInv, UseInv
<1>1. CASE pc[r] \in {"table", "enter"} /\ tableLock = u
  <2>1. req[u].op = "close" /\ pc[u] # "table"
    BY <1>1 DEF HeldInv, TableHeld
  <2>2. pc[u] \in {"fd", "conn", "close", "unlock"}
    BY <2>1 DEF IInv, TypeOK, Placed
  <2> QED
    BY <1>1, <2>2 DEF Level
<1>2. CASE pc[r] = "fd" /\ fdLock[req[r].h] = u
  <2>1. req[r].h \in Handle
    BY <1>0, <1>2 DEF IInv, TypeOK, Placed
  <2>2. Inside(u)
    BY <1>2, <2>1 DEF HeldInv, FdHeld
  <2>3. pc[u] \notin {"table", "enter", "fd"}
    BY <2>2 DEF Inside, IInv, TypeOK, Placed
  <2> QED
    BY <1>2, <2>3 DEF Level
<1>3. CASE pc[r] = "conn" /\ connLock[ConnOf(req[r].h)] = u
  <2>1. ConnOf(req[r].h) \in Conn
    BY <1>0, <1>3 DEF IInv, TypeOK, Placed
  <2>2. pc[u] \notin {"table", "enter", "fd", "conn"}
    BY <1>3, <2>1 DEF HeldInv, ConnHeld, Calling
  <2> QED
    BY <1>3, <2>2 DEF Level
<1> QED
  BY <1>1, <1>2, <1>3 DEF Waits

(* No circle of requests waits for each other's locks, for any number of   *)
(* requests, handles and connections, whether connections are shared and   *)
(* break or not: iFuse.Lib.Fd.cpp and iFuse.FS.cpp take the lock of the    *)
(* table first and that of the connection last.                            *)
THEOREM NoCircularWait == Spec => []WaitsUpward
  BY WaitsLeadUp, HeldInvariant, PTL

(* When a request cannot have the lock it needs, some request can go on,   *)
(* in every setting: iFuseFdOpen, iFuseFsRead, iFuseFsWrite and iFuseFdClose *)
(* never block each other for good.                                        *)
THEOREM NoDeadlock == Spec => []OneAtLeastGoes
<1>1. WaitsUpward => OneAtLeastGoes
  <2> SUFFICES ASSUME WaitsUpward, NEW r \in Request, Blocked(r)
               PROVE  \E u \in Request : Level(r) < Level(u) /\ ~Blocked(u)
    BY DEF OneAtLeastGoes
  <2>1. \A u \in Request : Level(u) \in 0..3
    BY DEF Level
  <2>2. \A u \in Request : Blocked(u) => \E v \in Request : Level(u) < Level(v)
    BY DEF WaitsUpward, Blocked
  <2>3. \A u \in Request : Level(u) = 3 => ~Blocked(u)
    BY <2>1, <2>2
  <2>4. \A u \in Request : Level(u) = 2 /\ Blocked(u) =>
           \E v \in Request : Level(u) < Level(v) /\ ~Blocked(v)
    BY <2>1, <2>2, <2>3
  <2>5. \A u \in Request : Level(u) = 1 /\ Blocked(u) =>
           \E v \in Request : Level(u) < Level(v) /\ ~Blocked(v)
    BY <2>1, <2>2, <2>3, <2>4
  <2>6. PICK u \in Request : Level(r) < Level(u)
    BY <2>2
  <2>7. CASE ~Blocked(u)
    BY <2>6, <2>7
  <2>8. CASE Blocked(u)
    <3>1. PICK v \in Request : Level(u) < Level(v) /\ ~Blocked(v)
      BY <2>1, <2>3, <2>4, <2>5, <2>6, <2>8
    <3> QED
      BY <2>1, <2>6, <3>1
  <2> QED
    BY <2>7, <2>8
<1> QED
  BY <1>1, NoCircularWait, PTL

(* iFuseFdClose holds g_AssignedFdLock until the server has answered, so   *)
(* that closes, of any handles, pass one after the other.                  *)
THEOREM ClosesOneByOne == Spec => []CloseAlone
<1>1. HeldInv => CloseAlone
  BY DEF HeldInv, TableHeld, CloseAlone
<1> QED
  BY <1>1, HeldInvariant, PTL
=============================================================================
