----------------------------- MODULE BufferedFs -----------------------------
(***************************************************************************)
(* The buffered file layer, iFuse.BufferedFS.cpp, for one path.  Written   *)
(* bytes gather in a delta of the path (g_DeltaMap), read blocks stay in a *)
(* cache of one block per open file (g_CacheMap).  Both are guarded by     *)
(* g_BufferCacheLock, which is released before every call to the server:   *)
(* an action here is one critical section or one call, and the handles     *)
(* interleave between them.  A handle runs one operation at a time.        *)
(*                                                                         *)
(* A size is not read from the file: iFuseFsGetAttr takes the one in the   *)
(* stat cache, or else the one the server's catalogue has, which learns of *)
(* writes when a writer closes or reopens.  The cached stat is dropped     *)
(* then, not when bytes are written.                                       *)
(***************************************************************************)
EXTENDS Blocks

CONSTANTS
    Byte,         \* bytes that are written
    Old,          \* the byte of the file before
    Handle,       \* open files on the path
    MaxSize,      \* bound of this model: the longest file
    Setting,      \* kinds of use: see SettingAssumption
    Nothing,
    Failed

ASSUME SizeAssumption == MaxSize \in Nat
ASSUME SettingAssumption ==
    Setting \subseteq [serial : BOOLEAN,  \* operations do not overlap
                      sparse : BOOLEAN,  \* writes may begin behind the end
                      failures : BOOLEAN,  \* calls to the server may fail
                      length : 0..MaxSize,  \* of the file at first
                      writers : SUBSET Handle,  \* those not opened O_RDONLY
                      stats : SUBSET Handle,  \* those that ask for the size
                      bytes : SUBSET Byte]  \* what they write

VARIABLES
    setting,      \* which kind of use this is
    remote,       \* the file at the server
    delta,        \* g_DeltaMap[path]
    cache,        \* g_CacheMap, by handle
    pc,           \* where the operation of a handle is
    outgoing,     \* the delta a handle is writing to the server
    local,        \* the block and its bytes a handle works with
    registered,   \* the size in the server's catalogue
    statCache,    \* the size in the metadata cache, if there is one
    found,        \* the size a stat has found so far
    size,         \* what a stat returns
    answer,       \* what a read or a failed call returns
    dropped       \* a flush has failed (for the properties only)

fileVars == <<remote, delta, cache>>
sizeVars == <<registered, statCache, found>>
vars == <<setting, fileVars, sizeVars, pc, outgoing, local, size, answer, dropped>>

NoBlock == [id |-> 0, data |-> <<>>, held |-> FALSE]
Block(b, data) == [id |-> b, data |-> data, held |-> TRUE]

BlockID == 0..getBlockID(MaxSize)

Serial == setting.serial
Sparse == setting.sparse
Failures == setting.failures
Writer == setting.writers

Init ==
    /\ setting \in Setting
    /\ remote = [i \in 1..setting.length |-> Old]
    /\ delta = NoDelta
    /\ cache = [h \in Handle |-> NoBlock]
    /\ pc = [h \in Handle |-> "idle"]
    /\ outgoing = [h \in Handle |-> NoDelta]
    /\ local = [h \in Handle |-> NoBlock]
    /\ registered = Len(remote)
    /\ statCache = Nothing
    /\ found = [h \in Handle |-> 0]
    /\ size = [h \in Handle |-> Nothing]
    /\ answer = [h \in Handle |-> Nothing]
    /\ dropped = FALSE

(* The bytes a reader ought to see: what the server has, under what is on  *)
(* its way there, under the delta.  (With one flush under way at a time.)  *)
Sending == {h \in Handle : pc[h] \in {"send", "sendflush", "sendclose"}}
Base ==
    IF Sending = {} THEN remote
    ELSE PatchWith(remote, outgoing[CHOOSE h \in Sending : TRUE])
View == PatchWith(Base, delta)

Goto(h, l) == pc' = [pc EXCEPT ![h] = l]

Alone == Serial => \A k \in Handle : pc[k] \in {"idle", "closed", "lost"}
Begin(h) == pc[h] = "idle" /\ Alone

(* An operation is done with its answer; then FUSE has it.                 *)
Return(h) ==
    /\ Goto(h, "reply")
    /\ local' = [local EXCEPT ![h] = NoBlock]
    /\ UNCHANGED <<fileVars, outgoing, dropped>>

Reply(h) ==
    /\ pc[h] = "reply"
    /\ answer' = [answer EXCEPT ![h] = Nothing]
    /\ size' = [size EXCEPT ![h] = Nothing]
    /\ Goto(h, "idle")
    /\ UNCHANGED <<fileVars, outgoing, local, dropped>>

-----------------------------------------------------------------------------
(* Writing. *)

(* Variant: caches are not told of the flushed bytes. *)
NotApplied(d) == UNCHANGED cache

(* _applyDeltaToCache: every cached block the delta lies in. *)
ApplyToCaches(d) ==
    cache' = [h \in Handle |->
                IF cache[h].held THEN ApplyTo(cache[h], d) ELSE cache[h]]

WriteNew(h, off, data) ==
    /\ ~HasDelta(delta)
    /\ delta' = [off |-> off, data |-> data]
    /\ UNCHANGED <<remote, cache, pc, outgoing, local, size, answer, dropped>>

(* Variant: the old bytes are laid over the new. *)
WriteExpandOld(h, off, data) ==
    /\ HasDelta(delta)
    /\ Intersects(delta, off, data)
    /\ delta' = Expand([off |-> off, data |-> data], delta.off, delta.data)
    /\ UNCHANGED <<remote, cache, pc, outgoing, local, size, answer, dropped>>

WriteExpand(h, off, data) ==
    /\ HasDelta(delta)
    /\ Intersects(delta, off, data)
    /\ delta' = Expand(delta, off, data)
    /\ UNCHANGED <<remote, cache, pc, outgoing, local, size, answer, dropped>>

(* Variant: the delta is replaced without a flush. *)
WriteReplaceOnly(h, off, data) ==
    /\ HasDelta(delta)
    /\ ~Intersects(delta, off, data)
    /\ delta' = [off |-> off, data |-> data]
    /\ UNCHANGED <<remote, cache, pc, outgoing, local, size, answer, dropped>>

(* A delta apart from the new bytes is replaced, and sent.                 *)
WriteReplace(h, off, data) ==
    /\ HasDelta(delta)
    /\ ~Intersects(delta, off, data)
    /\ ApplyToCaches(delta)
    /\ outgoing' = [outgoing EXCEPT ![h] = delta]
    /\ delta' = [off |-> off, data |-> data]
    /\ Goto(h, "send")
    /\ UNCHANGED <<remote, local, size, answer, dropped>>

(* The pieces iFuseBufferedFsWrite makes of a write: each within a block.  *)
Piece ==
    {p \in [off : 0..MaxSize - 1, n : 1..BlockSize, byte : setting.bytes] :
        /\ getInBlockOffset(p.off) + p.n <= BlockSize
        /\ p.off + p.n <= MaxSize}

DataOf(p) == [i \in 1..p.n |-> p.byte]

WritePiece(h, p) ==
    \/ WriteNew(h, p.off, DataOf(p))
    \/ WriteExpand(h, p.off, DataOf(p))
    \/ WriteReplace(h, p.off, DataOf(p))

WriteBlock(h) ==
    /\ Begin(h)
    /\ h \in Writer
    /\ \E p \in Piece :
        /\ Sparse \/ p.off <= Len(View)
        /\ WritePiece(h, p)

(* The first half of _flushDelta; what follows the write is place l.       *)
TakeDelta(h, l) ==
    /\ HasDelta(delta)
    /\ delta' = NoDelta
    /\ ApplyToCaches(delta)
    /\ outgoing' = [outgoing EXCEPT ![h] = delta]
    /\ Goto(h, l)
    /\ UNCHANGED <<remote, local, size, answer, dropped>>

(* _flushDelta, which readers leave out; then place l.                     *)
FlushDelta(h, sending, l) ==
    \/ h \in Writer /\ TakeDelta(h, sending)
    \/ /\ h \notin Writer \/ ~HasDelta(delta)
       /\ Goto(h, l)
       /\ UNCHANGED <<fileVars, outgoing, local, size, answer, dropped>>

(* iFuseBufferedFsFlush; iFuseFsFlush then reopens the file.               *)
Flush(h) == Begin(h) /\ FlushDelta(h, "sendflush", "reopen")

(* iFuseBufferedFsClose flushes, drops the cache, and closes the file.     *)
Close(h) == Begin(h) /\ FlushDelta(h, "sendclose", "drop")

Drop(h) ==
    /\ pc[h] = "drop"
    /\ cache' = [cache EXCEPT ![h] = NoBlock]
    /\ Goto(h, "close")
    /\ UNCHANGED <<remote, delta, outgoing, local, size, answer, dropped>>

(* The write call of _flushDelta and _writeBlock.                          *)
After == [send |-> "idle", sendflush |-> "reopen", sendclose |-> "drop"]
Send(h) ==
    /\ h \in Sending
    /\ remote' = PatchWith(remote, outgoing[h])
    /\ outgoing' = [outgoing EXCEPT ![h] = NoDelta]
    /\ Goto(h, After[pc[h]])
    /\ UNCHANGED <<delta, cache, local, size, answer, dropped>>

(* It fails: the bytes are gone, the caller gets an error.  Close returns  *)
(* at once and the handle is neither closed nor used again.                *)
SendFails(h) ==
    /\ Failures
    /\ h \in Sending
    /\ outgoing' = [outgoing EXCEPT ![h] = NoDelta]
    /\ answer' = [answer EXCEPT ![h] = Failed]
    /\ Goto(h, IF pc[h] = "sendclose" THEN "lost" ELSE "reply")
    /\ dropped' = TRUE
    /\ UNCHANGED <<fileVars, local, size>>

-----------------------------------------------------------------------------
(* Reading. *)

(* _readBlock: the cache of the handle has the block, or it is emptied.    *)
Lookup(h) ==
    /\ Begin(h)
    /\ \E b \in BlockID :
        IF cache[h].held /\ cache[h].id = b
        THEN /\ local' = [local EXCEPT ![h] = cache[h]]
             /\ Goto(h, "overlay")
             /\ UNCHANGED cache
        ELSE /\ local' = [local EXCEPT ![h] = Block(b, <<>>)]
             /\ cache' = [cache EXCEPT ![h] = NoBlock]
             /\ Goto(h, "fetch")
    /\ UNCHANGED <<remote, delta, outgoing, size, answer, dropped>>

(* The block is read from the server, without the lock.                    *)
Fetch(h) ==
    /\ pc[h] = "fetch"
    /\ local' = [local EXCEPT ![h].data = BlockOf(remote, local[h].id)]
    /\ Goto(h, "insert")
    /\ UNCHANGED <<fileVars, outgoing, size, answer, dropped>>

FetchFails(h) ==
    /\ Failures
    /\ pc[h] = "fetch"
    /\ answer' = [answer EXCEPT ![h] = Failed]
    /\ Return(h)
    /\ UNCHANGED size

Insert(h) ==
    /\ pc[h] = "insert"
    /\ cache' = [cache EXCEPT ![h] = local[h]]
    /\ Goto(h, "overlay")
    /\ UNCHANGED <<remote, delta, outgoing, local, size, answer, dropped>>

(* Variant: the delta is not looked at. *)
ReadOverlayBare(h) ==
    /\ pc[h] = "overlay"
    /\ answer' = [answer EXCEPT ![h] = local[h].data]
    /\ Return(h)
    /\ UNCHANGED size

(* The delta is laid over the bytes, under a lock of its own.              *)
ReadOverlay(h) ==
    /\ pc[h] = "overlay"
    /\ answer' = [answer EXCEPT ![h] =
                    Overlay(ZeroBlock, local[h].data, local[h].id, delta)]
    /\ Return(h)
    /\ UNCHANGED size

FileStep(h) ==
    \/ Reply(h) \/ WriteBlock(h) \/ Flush(h) \/ Close(h) \/ Drop(h)
    \/ Send(h) \/ SendFails(h)
    \/ Lookup(h) \/ Fetch(h) \/ FetchFails(h) \/ Insert(h) \/ ReadOverlay(h)

-----------------------------------------------------------------------------
(* Sizes.  These steps leave the bytes alone. *)

(* iFuseFsGetAttr: a stat is cached that has not expired ...               *)
StatHit(h) ==
    /\ Begin(h)
    /\ h \in setting.stats
    /\ statCache # Nothing
    /\ found' = [found EXCEPT ![h] = statCache]
    /\ Goto(h, "stat")
    /\ UNCHANGED <<registered, statCache, size, answer>>

(* ... or none is, any more.                                               *)
StatMiss(h) ==
    /\ Begin(h)
    /\ h \in setting.stats
    /\ statCache' = Nothing
    /\ Goto(h, "objstat")
    /\ UNCHANGED <<registered, found, size, answer>>

(* The server answers with what its catalogue has, or with more.           *)
ObjStat(h) ==
    /\ pc[h] = "objstat"
    /\ \E n \in registered..Len(remote) : found' = [found EXCEPT ![h] = n]
    /\ Goto(h, "putstat")
    /\ UNCHANGED <<registered, statCache, size, answer>>

ObjStatFails(h) ==
    /\ Failures
    /\ pc[h] = "objstat"
    /\ answer' = [answer EXCEPT ![h] = Failed]
    /\ Goto(h, "reply")
    /\ UNCHANGED <<sizeVars, size>>

PutStat(h) ==
    /\ pc[h] = "putstat"
    /\ statCache' = found[h]
    /\ Goto(h, "stat")
    /\ UNCHANGED <<registered, found, size, answer>>

(* iFuseBufferedFsGetAttr: the delta may end behind the size found.        *)
Pending == IF HasDelta(delta) THEN DeltaEnd(delta) ELSE 0
StatDelta(h) ==
    /\ pc[h] = "stat"
    /\ size' = [size EXCEPT ![h] = Larger(found[h], Pending)]
    /\ found' = [found EXCEPT ![h] = 0]
    /\ Goto(h, "reply")
    /\ UNCHANGED <<registered, statCache, answer>>

(* A close at the server: the catalogue learns what a writer has written,  *)
(* unless the close fails.                                                 *)
Register(h) ==
    \/ h \in Writer /\ registered' = Len(remote)
    \/ (h \notin Writer \/ Failures) /\ UNCHANGED registered

(* iFuseFsFlush closes and opens the file again, by iFuseFdReopen.         *)
Reopen(h) ==
    /\ pc[h] = "reopen"
    /\ Register(h)
    /\ Goto(h, "dropstat")
    /\ UNCHANGED <<statCache, found, size, answer>>

ReopenFails(h) ==
    /\ Failures
    /\ pc[h] = "reopen"
    /\ Register(h)
    /\ answer' = [answer EXCEPT ![h] = Failed]
    /\ Goto(h, "reply")
    /\ UNCHANGED <<statCache, found, size>>

(* iFuseFsClose: the file is closed, at least here (_freeFd does not say). *)
CloseFd(h) ==
    /\ pc[h] = "close"
    /\ Register(h)
    /\ Goto(h, IF h \in Writer THEN "closestat" ELSE "closed")
    /\ UNCHANGED <<statCache, found, size, answer>>

(* iFuseFsOpen: the path is opened again, as a new handle in this place.   *)
Open(h) ==
    /\ pc[h] = "closed"
    /\ Alone
    /\ Goto(h, IF h \in Writer THEN "dropstat" ELSE "idle")
    /\ UNCHANGED <<sizeVars, size, answer>>

(* Variant: the cached stat stays. *)
DropStatKept(h) ==
    /\ pc[h] \in {"dropstat", "closestat"}
    /\ Goto(h, IF pc[h] = "dropstat" THEN "idle" ELSE "closed")
    /\ UNCHANGED <<sizeVars, size, answer>>

(* iFuseMetadataCacheRemoveStat, the last of iFuseFsOpen and iFuseFsClose  *)
(* of a writer and of every iFuseFsFlush.                                  *)
DropStat(h) ==
    /\ pc[h] \in {"dropstat", "closestat"}
    /\ statCache' = Nothing
    /\ Goto(h, IF pc[h] = "dropstat" THEN "idle" ELSE "closed")
    /\ UNCHANGED <<registered, found, size, answer>>

SizeStep(h) ==
    \/ StatHit(h) \/ StatMiss(h) \/ ObjStat(h) \/ ObjStatFails(h) \/ PutStat(h)
    \/ StatDelta(h)
    \/ Reopen(h) \/ ReopenFails(h) \/ CloseFd(h) \/ Open(h) \/ DropStat(h)

-----------------------------------------------------------------------------
Step(h) ==
    \/ FileStep(h) /\ UNCHANGED sizeVars
    \/ SizeStep(h) /\ UNCHANGED <<fileVars, outgoing, local, dropped>>

Next == UNCHANGED setting /\ \E h \in Handle : Step(h)

Spec == Init /\ [][Next]_vars

-----------------------------------------------------------------------------
Bytes == UNION {[1..n -> Byte \cup {Zero, Old}] : n \in 0..MaxSize}

(* The bytes of a delta are of one block of the file.                      *)
IsDelta(d) ==
    /\ d \in [off : 0..MaxSize, data : Bytes]
    /\ getInBlockOffset(d.off) + Len(d.data) <= BlockSize
    /\ DeltaEnd(d) <= MaxSize

BlockType == [id : BlockID, data : Bytes, held : BOOLEAN]
Place == {"idle", "send", "sendflush", "sendclose", "reopen", "drop", "close",
          "closestat", "dropstat", "closed", "fetch", "insert", "overlay",
          "objstat", "putstat", "stat", "reply", "lost"}

(* Every variable has its type; a delta and a cached block lie within one  *)
(* block, only bytes on their way to the server are kept as outgoing, and  *)
(* no size is known that the file at the server has not reached.           *)
TypeOK ==
    /\ setting \in Setting
    /\ remote \in Bytes
    /\ IsDelta(delta)
    /\ cache \in [Handle -> BlockType]
    /\ local \in [Handle -> BlockType]
    /\ pc \in [Handle -> Place]
    /\ DOMAIN outgoing = Handle
    /\ size \in [Handle -> 0..MaxSize \cup {Nothing}]
    /\ answer \in [Handle -> Bytes \cup {Nothing, Failed}]
    /\ dropped \in BOOLEAN
    /\ registered \in 0..Len(remote)
    /\ statCache \in 0..Len(remote) \cup {Nothing}
    /\ found \in [Handle -> 0..Len(remote)]
    /\ \A h \in Handle :
        /\ Len(cache[h].data) <= BlockSize
        /\ pc[h] \in {"fetch", "insert", "overlay"} =>
              Len(local[h].data) <= BlockSize
        /\ IsDelta(outgoing[h])
        /\ HasDelta(outgoing[h]) <=> h \in Sending

(* Operations that do not overlap see one file: each read is of all bytes  *)
(* written before, whichever handle wrote them and wherever they are       *)
(* (server, delta, cache).  A size counts the delta, and what a writer has *)
(* flushed or closed: a cached stat does not outlive these.  It need not   *)
(* count a delta that was sent to make room for the next.                  *)
(* In the other settings (with holes, or with calls that fail, it is not   *)
(* so) the file of File stays empty and is not used.                       *)
Orderly == Serial /\ ~Sparse /\ ~Failures
IfOrderly(seen, unseen) == IF Orderly THEN seen ELSE unseen
Syncing ==
    \E h \in Writer :
        pc[h] \in {"sendflush", "reopen", "sendclose", "drop", "close"}
Content ==
    INSTANCE File WITH
        Byte <- Byte \cup {Zero, Old},
        content <- IfOrderly(View, <<>>),
        synced <- IfOrderly(IF Syncing THEN Len(View) ELSE registered, 0),
        recent <- IfOrderly(Pending, 0),
        size <- IfOrderly(size, [h \in Handle |-> Nothing]),
        answer <- IfOrderly(answer, [h \in Handle |-> Nothing])
FileSpec == Content!Spec

(* When nothing is under way, what a handle has cached is what the server  *)
(* has: a delta that is flushed is applied to every cache of its path.     *)
Settled == ~HasDelta(delta) /\ \A h \in Handle : pc[h] \in {"idle", "closed"}
CachesCurrent ==
    Settled => \A h \in Handle :
        cache[h].held => cache[h].data = BlockOf(remote, cache[h].id)

(* Without overlapping operations they are current, as long as the file    *)
(* has no hole and no flush has failed.                                    *)
SerialCachesCurrent == Serial /\ ~Sparse /\ ~dropped => CachesCurrent

(* One delta at most is on its way to the server.  Two writers of a path   *)
(* that overlap can flush at the same time, and which delta then comes     *)
(* first is open.                                                          *)
OneFlush == Serial \/ \A h, k \in Writer : h = k

(* The only writer reads what it has written, whatever the readers do,     *)
(* until a flush has failed (the caches have the bytes that were dropped)  *)
(* and as long as the file has no hole.                                    *)
Whole == \A i \in 1..Len(View) : View[i] # Zero
WriterReads ==
    [][OneFlush => \A h \in Writer :
         pc[h] = "overlay" /\ pc'[h] = "reply" /\ ~dropped /\ Whole
            => answer'[h] = BlockOf(View, local[h].id)]_vars

(* A piece that is written is there at once, over every byte written       *)
(* before, in whichever of the three ways it joins the delta.              *)
WriteSeen ==
    [][OneFlush => \A h \in Writer, p \in Piece :
         pc[h] = "idle" /\ WritePiece(h, p)
            => View' = Patch(View, p.off, DataOf(p))]_vars

(* Only a write changes what the file holds, or else a flush that failed   *)
(* and says so: no other step, of a reader or of the flush, loses bytes.   *)
ContentKept ==
    [][OneFlush /\ View' # View =>
         \/ \E h \in Writer : pc[h] = "idle" /\ pc'[h] \in {"idle", "send"}
                              /\ HasDelta(delta')
                              /\ View' = PatchWith(View, delta')
         \/ \E h \in Sending : h \notin Sending' /\ answer'[h] = Failed]_vars
=============================================================================
