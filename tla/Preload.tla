------------------------------ MODULE Preload ------------------------------
(***************************************************************************)
(* Reading ahead, iFuse.Preload.cpp, for one open file.  A preload is a    *)
(* list of blocks, each with a thread that opens the file once more and    *)
(* reads the block into the cache of that open file.  A read of block b    *)
(* drops the blocks outside b .. b + g_preloadNumBlocks, takes over their  *)
(* open files, waits for b and starts the blocks that are missing.  The    *)
(* lock of the list is given up twice in the middle of a read.             *)
(* A block is a number here; its bytes are in BufferedFs, and how a read   *)
(* is put together from blocks is in BufferedRead.                         *)
(***************************************************************************)
EXTENDS Naturals, Sequences, FiniteSets, FiniteSetsExt, SequencesExt

CONSTANTS
    Reader,       \* concurrent requests on the file
    NoReader,
    Addresses,    \* bound of this model: how many blocks exist at a time
    MaxAsked,     \* bound of this model: how many blocks are asked for in one
                  \* opening of the file, when requests overlap
    LastBlock,    \* bound of this model: the last block that is asked for
    FileBlocks,   \* how many blocks the file has
    DefaultNum,   \* IFUSE_PRELOAD_PBLOCK_NUM
    MaxNum,       \* IFUSE_PRELOAD_MAX_PBLOCK_NUM
    Setting       \* kinds of use

ASSUME ReaderAssumption == NoReader \notin Reader
ASSUME NumAssumption ==
    /\ {Addresses, MaxAsked, LastBlock, FileBlocks, DefaultNum, MaxNum} \subseteq Nat
    /\ DefaultNum <= MaxNum /\ MaxNum <= Addresses
ASSUME SettingAssumption ==
    Setting \subseteq [overlap : BOOLEAN,   \* requests overlap
                      failures : BOOLEAN,  \* calls to the server may fail
                      noThread : BOOLEAN,  \* pthread_create may fail
                      option : Nat]        \* --preloadblocks, 0 if not given

PBlock == 1..Addresses

VARIABLES
    setting,
    file,         \* of the handle: see OpenFile, CloseFile and Leftover
    mapped,       \* the handle is in g_PreloadMap
    opened,       \* how many files the threads have opened, less those closed
    pblocks,      \* preload->pblocks, front first
    pblock,       \* what is at each address
    joins,        \* calls of pthread_join on the thread that block has or had
    writer, readers,   \* the lock of the list
    \* --- the requests
    left,         \* how many more blocks may be asked for, when requests overlap
    pc,
    asked,        \* the block a request is at, and how many follow it
    recycleList,
    missing,      \* the blocks that hasBlock and pblockExistance lack
    todo,         \* removeList; then the blocks to wait for and to read
    readSize      \* "none" until there is one; "failed", "eof" or "data"

handleVars == <<file, mapped, left>>
blockVars == <<opened, pblocks, pblock, joins>>
lockVars == <<writer, readers>>
localVars == <<asked, recycleList, missing, todo, readSize>>
vars == <<setting, handleVars, blockVars, lockVars, pc, localVars>>

NoRequest == [block |-> 0, more |-> 0]

NoPBlock == [blockID |-> 0, status |-> "INIT", fd |-> FALSE,
             threadJoined |-> FALSE, thread |-> "none"]

(* A block whose thread has just been started, with a file to take over    *)
(* or without one.                                                         *)
Started(b, fd) == [blockID |-> b, status |-> "RUNNING", fd |-> fd,
                   threadJoined |-> FALSE,
                   thread |-> IF fd THEN "reading" ELSE "opening"]

Allocated == {p \in PBlock : pblock[p] # NoPBlock}

Listed == ToSet(pblocks)

(* The members of S in the list s, in their order: SelectSeq by positions, *)
(* which a proof can speak of.                                             *)
Rank(i, I) == Cardinality({k \in I : k <= i})
Where(s, S) == {i \in DOMAIN s : s[i] \in S}
Kept(s, S) ==
    [j \in 1..Cardinality(Where(s, S)) |->
        s[CHOOSE i \in Where(s, S) : Rank(i, Where(s, S)) = j]]

(* iFusePreloadInit.                                                       *)
g_preloadNumBlocks ==
    IF setting.option = 0 THEN DefaultNum
    ELSE IF setting.option > MaxNum THEN MaxNum ELSE setting.option

Init ==
    /\ setting \in Setting
    /\ file = "closed" /\ mapped = FALSE
    /\ opened = 0
    /\ pblocks = <<>>
    /\ pblock = [p \in PBlock |-> NoPBlock]
    /\ joins = [p \in PBlock |-> 0]
    /\ left = 0
    /\ writer = NoReader /\ readers = {}
    /\ pc = [r \in Reader |-> "idle"]
    /\ asked = [r \in Reader |-> NoRequest]
    /\ recycleList = [r \in Reader |-> <<>>]
    /\ missing = [r \in Reader |-> {}]
    /\ todo = [r \in Reader |-> <<>>]
    /\ readSize = [r \in Reader |-> "none"]

Goto(r, l) == pc' = [pc EXCEPT ![r] = l]

-----------------------------------------------------------------------------
(* The threads.  _preloadTask opens the file, unless its block has taken   *)
(* over an open one, ...                                                   *)

TaskOpen(p) ==
    /\ pblock[p].thread = "opening"
    /\ \/ /\ pblock' = [pblock EXCEPT ![p].fd = TRUE, ![p].thread = "reading"]
          /\ opened' = opened + 1
       \/ /\ setting.failures
          /\ pblock' = [pblock EXCEPT ![p].status = "TASK_FAILED",
                                      ![p].thread = "ended"]
          /\ UNCHANGED opened
    /\ UNCHANGED <<pblocks, joins>>

(* Variant: a failure is not noted. *)
TaskReadQuiet(p) ==
    /\ pblock[p].thread = "reading"
    /\ \E s \in {"COMPLETED", "RUNNING"} :
        /\ s = "RUNNING" => setting.failures
        /\ pblock' = [pblock EXCEPT ![p].status = s, ![p].thread = "ended"]
    /\ UNCHANGED <<opened, pblocks, joins>>

(* ... and reads the block.                                                *)
TaskRead(p) ==
    /\ pblock[p].thread = "reading"
    /\ \E s \in {"COMPLETED", "TASK_FAILED"} :
        /\ s = "TASK_FAILED" => setting.failures
        /\ pblock' = [pblock EXCEPT ![p].status = s, ![p].thread = "ended"]
    /\ UNCHANGED <<opened, pblocks, joins>>

Task(p) ==
    /\ file # "crashed"
    /\ TaskOpen(p) \/ TaskRead(p)
    /\ UNCHANGED <<setting, handleVars, lockVars, pc, localVars>>

-----------------------------------------------------------------------------
(* Freeing and starting blocks *)

(* Variant: the thread is joined whoever has joined it. *)
NeedsJoinAlways(p) == TRUE

(* _freePreloadPBlock joins a thread that nobody has joined.               *)
NeedsJoin(p) == ~pblock[p].threadJoined

(* Variant: the files stay open. *)
FreeBlocksOpen(S) ==
    /\ pblock' = [p \in PBlock |-> IF p \in S THEN NoPBlock ELSE pblock[p]]
    /\ joins' = [p \in PBlock |->
                    IF p \in S /\ NeedsJoin(p) THEN joins[p] + 1 ELSE joins[p]]
    /\ UNCHANGED opened

(* _freePreloadPBlock of each block of S.  Those not joined have ended.    *)
FreeBlocks(S) ==
    /\ pblock' = [p \in PBlock |-> IF p \in S THEN NoPBlock ELSE pblock[p]]
    /\ joins' = [p \in PBlock |->
                    IF p \in S /\ NeedsJoin(p) THEN joins[p] + 1 ELSE joins[p]]
    /\ opened' = opened - Cardinality({p \in S : pblock[p].fd})

(* calloc: which free address it takes is of no account.                   *)
NewAddress == CHOOSE p \in PBlock : p \notin Allocated

FrontOf(s) == IF s = <<>> THEN {} ELSE {Head(s)}

(* Variant: the block that gave its file away is not freed. *)
StartBlockKept(r, b) ==
    LET old == FrontOf(recycleList[r])
        p == NewAddress
    IN  /\ writer = NoReader /\ readers = {}
        /\ Allocated # PBlock
        /\ recycleList' = [recycleList EXCEPT ![r] = SubSeq(@, 2, Len(@))]
        /\ pblock' = [q \in PBlock |->
                         IF q = p THEN Started(b, old # {}) ELSE pblock[q]]
        /\ joins' = [joins EXCEPT ![p] = 0]
        /\ pblocks' = Append(pblocks, p)
        /\ UNCHANGED opened

(* A block of the recycle list, if there is one, gives its open file to    *)
(* the new block and is freed; _startPreload makes the block and its       *)
(* thread, then takes the lock to append it.  A thread that cannot be made *)
(* costs the block and the file, and the caller does not look.             *)
StartBlock(r, b) ==
    LET old == FrontOf(recycleList[r])
        p == NewAddress
    IN  /\ writer = NoReader /\ readers = {}
        /\ Allocated # PBlock
        /\ recycleList' = [recycleList EXCEPT ![r] = SubSeq(@, 2, Len(@))]
        /\ \/ /\ pblock' = [q \in PBlock |->
                                IF q = p THEN Started(b, old # {})
                                ELSE IF q \in old THEN NoPBlock ELSE pblock[q]]
              /\ joins' = [joins EXCEPT ![p] = 0]
              /\ pblocks' = Append(pblocks, p)
              /\ UNCHANGED opened
           \/ /\ setting.noThread
              /\ FreeBlocks(old)
              /\ UNCHANGED pblocks

-----------------------------------------------------------------------------
(* Opening for reading.  iFusePreloadOpen starts the first blocks; without *)
(* memory for a preload the file is open all the same.                     *)

OpenFile ==
    /\ file = "closed"
    /\ file' = "open"
    /\ \E preload \in BOOLEAN, made \in SUBSET (0..(g_preloadNumBlocks - 1)) :
        /\ ~preload => setting.failures /\ made = {}
        /\ preload /\ ~setting.noThread => made = 0..(g_preloadNumBlocks - 1)
        /\ mapped' = preload
        /\ pblocks' = Kept([i \in 1..g_preloadNumBlocks |-> i], {b + 1 : b \in made})
        /\ pblock' = [p \in PBlock |->
                         IF p - 1 \in made THEN Started(p - 1, FALSE) ELSE NoPBlock]
    /\ joins' = [p \in PBlock |-> 0]
    /\ left' = IF setting.overlap THEN MaxAsked ELSE 0
    /\ UNCHANGED <<setting, opened, lockVars, pc, localVars>>

-----------------------------------------------------------------------------
(* Reading: iFusePreloadRead goes through the blocks of a request ... *)

Begin(r) ==
    /\ file = "open" /\ pc[r] = "idle"
    /\ setting.overlap \/ \A o \in Reader : pc[o] = "idle"
    /\ \E b \in 0..LastBlock, more \in 0..1 :
        /\ b + more <= LastBlock
        /\ IF setting.overlap THEN left > more /\ left' = left - more - 1
           ELSE UNCHANGED left
        /\ asked' = [asked EXCEPT ![r] =
                        IF mapped THEN [block |-> b, more |-> more] ELSE NoRequest]
    /\ Goto(r, IF mapped THEN "scan" ELSE "fallback")
    /\ UNCHANGED <<setting, file, mapped, blockVars, lockVars,
                   recycleList, missing, todo, readSize>>

(* Variant: the end of the window is left out. *)
WindowShort(b) == b..(b + g_preloadNumBlocks - 1)

(* The blocks that _readPreload of block b keeps and completes.            *)
Window(b) == b..(b + g_preloadNumBlocks)

(* Variant: hasBlock is not looked at. *)
MissingAhead(b) == Window(b) \ ({b} \cup {pblock[p].blockID : p \in Listed})

Missing(b) == Window(b) \ {pblock[p].blockID : p \in Listed}

(* The blocks of the list that are outside the window, and those of b.     *)
OldBlocks(b) == Kept(pblocks, {p \in PBlock : pblock[p].blockID \notin Window(b)})
BlocksOf(b) == Kept(pblocks, {p \in PBlock : pblock[p].blockID = b})

(* ... and _readPreload begins with a look at the list.  The lock is kept  *)
(* until the old blocks are gone.                                          *)
Scan(r) ==
    LET b == asked[r].block
    IN  /\ pc[r] = "scan"
        /\ writer = NoReader /\ readers = {}
        /\ writer' = r
        /\ todo' = [todo EXCEPT ![r] = OldBlocks(b)]
        /\ missing' = [missing EXCEPT ![r] = Missing(b)]
        /\ Goto(r, "old")
        /\ UNCHANGED <<setting, handleVars, blockVars, readers,
                       asked, recycleList, readSize>>

Join(p) ==
    /\ pblock' = [pblock EXCEPT ![p].threadJoined = TRUE]
    /\ joins' = [joins EXCEPT ![p] = @ + 1]
    /\ UNCHANGED <<opened, pblocks>>

JoinOld(r) ==
    /\ pc[r] = "old"
    /\ \E i \in DOMAIN todo[r] :
        /\ ~pblock[todo[r][i]].threadJoined
        /\ \A j \in 1..(i - 1) : pblock[todo[r][j]].threadJoined
        /\ pblock[todo[r][i]].thread = "ended"
        /\ Join(todo[r][i])
    /\ UNCHANGED <<setting, handleVars, lockVars, pc, localVars>>

Recyclable(p) == pblock[p].fd /\ pblock[p].status = "COMPLETED"

DropOld(r) ==
    LET old == ToSet(todo[r])
    IN  /\ pc[r] = "old"
        /\ \A p \in old : pblock[p].threadJoined
        /\ pblocks' = Kept(pblocks, PBlock \ old)
        /\ recycleList' = [recycleList EXCEPT ![r] =
                              Kept(todo[r], {p \in PBlock : Recyclable(p)})]
        /\ FreeBlocks({p \in old : ~Recyclable(p)})
        /\ todo' = [todo EXCEPT ![r] = <<>>]
        /\ writer' = NoReader
        /\ Goto(r, IF asked[r].block \in missing[r] THEN "first" ELSE "take")
        /\ UNCHANGED <<setting, handleVars, readers, asked, missing, readSize>>

(* The block that is asked for is started before the others.               *)
StartFirst(r) ==
    /\ pc[r] = "first"
    /\ StartBlock(r, asked[r].block)
    /\ missing' = [missing EXCEPT ![r] = @ \ {asked[r].block}]
    /\ Goto(r, "take")
    /\ UNCHANGED <<setting, handleVars, lockVars, asked, todo, readSize>>

(* Variant: the lock is not taken. *)
TakeUnlocked(r) ==
    /\ pc[r] = "take" /\ writer = NoReader
    /\ todo' = [todo EXCEPT ![r] = BlocksOf(asked[r].block)]
    /\ Goto(r, "look")
    /\ UNCHANGED <<setting, handleVars, blockVars, lockVars,
                   asked, recycleList, missing, readSize>>

(* By the time the lock is taken again the list may be another one.        *)
Take(r) ==
    /\ pc[r] = "take" /\ writer = NoReader
    /\ readers' = readers \cup {r}
    /\ todo' = [todo EXCEPT ![r] = BlocksOf(asked[r].block)]
    /\ Goto(r, "look")
    /\ UNCHANGED <<setting, handleVars, blockVars, writer,
                   asked, recycleList, missing, readSize>>

(* To join a thread that somebody is joining is undefined: the call may    *)
(* return at once, and the block then counts as joined.                    *)
Look(r) ==
    LET p == Head(todo[r])
    IN  /\ pc[r] = "look" /\ todo[r] # <<>> /\ ~pblock[p].threadJoined
        /\ \/ Goto(r, "wait") /\ UNCHANGED blockVars
           \/ /\ \E o \in Reader : pc[o] = "wait" /\ Head(todo[o]) = p
              /\ Join(p) /\ UNCHANGED pc
        /\ UNCHANGED <<setting, handleVars, lockVars, localVars>>

Joined(r) ==
    /\ pc[r] = "wait" /\ pblock[Head(todo[r])].thread = "ended"
    /\ Join(Head(todo[r]))
    /\ Goto(r, "look")
    /\ UNCHANGED <<setting, handleVars, lockVars, localVars>>

(* iFuseBufferedFsReadBlock of a full block, or of one where the file ends.*)
ReadPBlock(r) ==
    LET p == Head(todo[r])
        there == IF asked[r].block < FileBlocks THEN "data" ELSE "eof"
    IN  /\ pc[r] = "look" /\ todo[r] # <<>> /\ pblock[p].threadJoined
        /\ \E s \in {there, "failed"} :
            /\ s = there => Recyclable(p)
            /\ s = "failed" => ~Recyclable(p) \/ setting.failures
            /\ readSize' = [readSize EXCEPT ![r] = s]
        /\ todo' = [todo EXCEPT ![r] = Tail(@)]
        /\ UNCHANGED <<setting, handleVars, blockVars, lockVars, pc,
                       asked, recycleList, missing>>

(* Variant: a block that is not there is looked for until it is. *)
LetGoAgain(r) ==
    /\ pc[r] = "look" /\ todo[r] = <<>>
    /\ readers' = readers \ {r}
    /\ Goto(r, IF readSize[r] = "none" THEN "take" ELSE "fill")
    /\ UNCHANGED <<setting, handleVars, blockVars, writer, localVars>>

LetGo(r) ==
    /\ pc[r] = "look" /\ todo[r] = <<>>
    /\ readers' = readers \ {r}
    /\ Goto(r, "fill")
    /\ UNCHANGED <<setting, handleVars, blockVars, writer, localVars>>

Fill(r) ==
    /\ pc[r] = "fill" /\ missing[r] # {}
    /\ StartBlock(r, Min(missing[r]))
    /\ missing' = [missing EXCEPT ![r] = @ \ {Min(@)}]
    /\ UNCHANGED <<setting, handleVars, lockVars, pc, asked, todo, readSize>>

Ended(r) == pc[r] = "fill" /\ missing[r] = {}

(* A failure makes the request go the other way from its beginning; a      *)
(* readSize that was never set, 0, is taken for the end of the file.       *)
NextBlock(r) ==
    /\ Ended(r) /\ recycleList[r] = <<>>
    /\ IF readSize[r] = "data" /\ asked[r].more > 0
       THEN /\ asked' = [asked EXCEPT ![r] = [block |-> @.block + 1, more |-> @.more - 1]]
            /\ Goto(r, "scan")
       ELSE /\ asked' = [asked EXCEPT ![r] = NoRequest]
            /\ Goto(r, IF readSize[r] = "failed" THEN "fallback" ELSE "idle")
    /\ readSize' = [readSize EXCEPT ![r] = "none"]
    /\ UNCHANGED <<setting, handleVars, blockVars, lockVars,
                   recycleList, missing, todo>>

(* The loop over what is left of the recycle list frees its front again    *)
(* and again and pops from another list, which is empty: the process ends  *)
(* there.                                                                  *)
Leftover(r) ==
    /\ Ended(r) /\ recycleList[r] # <<>>
    /\ file' = "crashed"
    /\ pc' = [o \in Reader |-> "idle"]
    /\ writer' = NoReader /\ readers' = {}
    /\ UNCHANGED <<setting, mapped, left, blockVars, localVars>>

Crashed == file = "crashed" /\ UNCHANGED vars

(* iFuseBufferedFsRead of the whole request.                               *)
Fallback(r) ==
    /\ pc[r] = "fallback"
    /\ Goto(r, "idle")
    /\ UNCHANGED <<setting, handleVars, blockVars, lockVars, localVars>>

-----------------------------------------------------------------------------
(* Closing.  iFusePreloadClose closes the file of the handle first and     *)
(* gives up when that fails: the preload stays in g_PreloadMap.            *)

CloseFile ==
    /\ file = "open" /\ \A r \in Reader : pc[r] = "idle"
    /\ \/ mapped' = FALSE /\ file' = "closing"
       \/ setting.failures /\ file' = "lost" /\ UNCHANGED mapped
    /\ UNCHANGED <<setting, left, blockVars, lockVars, pc, localVars>>

(* iFusePreloadDestroy, after the last request.                            *)
Unmount ==
    /\ file \in {"open", "lost"} /\ \A r \in Reader : pc[r] = "idle"
    /\ mapped' = FALSE /\ file' = "closing"
    /\ UNCHANGED <<setting, left, blockVars, lockVars, pc, localVars>>

(* _freePreload.                                                           *)
FreeNext ==
    /\ file = "closing" /\ pblocks # <<>>
    /\ NeedsJoin(Head(pblocks)) => pblock[Head(pblocks)].thread = "ended"
    /\ FreeBlocks({Head(pblocks)})
    /\ pblocks' = Tail(pblocks)
    /\ UNCHANGED <<setting, handleVars, lockVars, pc, localVars>>

(* Variant: the blocks are left as they are. *)
FreedFirst ==
    /\ file = "closing"
    /\ file' = "closed"
    /\ UNCHANGED <<setting, mapped, left, blockVars, lockVars, pc, localVars>>

Freed ==
    /\ file = "closing" /\ pblocks = <<>>
    /\ file' = "closed"
    /\ UNCHANGED <<setting, mapped, left, blockVars, lockVars, pc, localVars>>

ReadStep(r) ==
    \/ Scan(r) \/ JoinOld(r) \/ DropOld(r) \/ StartFirst(r)
    \/ Take(r) \/ Look(r) \/ Joined(r) \/ ReadPBlock(r) \/ LetGo(r)
    \/ Fill(r) \/ NextBlock(r) \/ Leftover(r) \/ Fallback(r)

Next ==
    \/ OpenFile \/ CloseFile \/ Unmount \/ FreeNext \/ Freed \/ Crashed
    \/ \E r \in Reader : Begin(r) \/ ReadStep(r)
    \/ \E p \in PBlock : Task(p)

(* A request and a thread go on while they can.                            *)
Fairness ==
    /\ \A r \in Reader : WF_vars(ReadStep(r))
    /\ \A p \in PBlock : WF_vars(Task(p))

Spec == Init /\ [][Next]_vars /\ Fairness

-----------------------------------------------------------------------------
(* Properties *)

AnyBlock == 0..(LastBlock + MaxNum)

TypeOK ==
    /\ setting \in Setting
    /\ file \in {"closed", "open", "closing", "lost", "crashed"} /\ mapped \in BOOLEAN
    /\ opened \in Nat
    /\ pblocks \in Seq(PBlock)
    /\ pblock \in [PBlock -> [blockID : AnyBlock,
                              status : {"INIT", "RUNNING", "COMPLETED", "TASK_FAILED"},
                              fd : BOOLEAN,
                              threadJoined : BOOLEAN,
                              thread : {"none", "opening", "reading", "ended"}]]
    /\ \A p \in PBlock :
        pblock[p].status = "RUNNING" <=> pblock[p].thread \in {"opening", "reading"}
    /\ joins \in [PBlock -> Nat]
    /\ writer \in Reader \cup {NoReader} /\ readers \subseteq Reader
    /\ writer = NoReader \/ readers = {}
    /\ left \in Nat
    /\ pc \in [Reader -> {"idle", "scan", "old", "first", "take", "look", "wait",
                          "fill", "fallback"}]
    /\ asked \in [Reader -> [block : 0..LastBlock, more : 0..1]]
    /\ recycleList \in [Reader -> Seq(PBlock)]
    /\ missing \in [Reader -> SUBSET AnyBlock]
    /\ todo \in [Reader -> Seq(PBlock)]
    /\ readSize \in [Reader -> {"none", "failed", "eof", "data"}]
    /\ \A r \in Reader :
        /\ asked[r].block + asked[r].more <= LastBlock
        /\ writer = r <=> pc[r] = "old"
        /\ r \in readers <=> pc[r] \in {"look", "wait"}

(* The thread of a block is joined exactly once in the life of the block,  *)
(* if requests do not overlap.  Joins are in three places: for the old     *)
(* blocks, for the block that is read, and when a block is freed.          *)
JoinedOnce ==
    [][~setting.overlap =>
        \A p \in PBlock : pblock[p] # NoPBlock /\ pblock'[p] = NoPBlock =>
            joins'[p] = 1]_vars

(* A request that has gone through a block leaves that block and the next  *)
(* g_preloadNumBlocks in the list, each once and nothing else, whatever    *)
(* the requests before it were, and has used up its recycle list: the loop *)
(* that releases the rest of it, which would not end, has nothing to do.   *)
WindowComplete ==
    \A r \in Reader :
        ~setting.overlap /\ Ended(r) =>
            /\ recycleList[r] = <<>>
            /\ ~setting.noThread =>
                 /\ {pblock[p].blockID : p \in Listed} =
                       asked[r].block..(asked[r].block + g_preloadNumBlocks)
                 /\ Len(pblocks) = g_preloadNumBlocks + 1

(* A file that is open belongs to one block, also while it is handed from  *)
(* an old block to a new one: none is closed under a thread, and none is   *)
(* forgotten.                                                              *)
FilesOwned == opened = Cardinality({p \in PBlock : pblock[p].fd})

(* A block is in the list or in the recycle list of one request, and there *)
(* once, however requests overlap: none is leaked and none freed twice.    *)
Recycled(r) == ToSet(recycleList[r])

BlocksReachable ==
    /\ Allocated = Listed \cup UNION {Recycled(r) : r \in Reader}
    /\ IsInjective(pblocks)
    /\ \A r \in Reader :
        /\ IsInjective(recycleList[r])
        /\ Recycled(r) \cap Listed = {}
        /\ \A o \in Reader \ {r} : Recycled(r) \cap Recycled(o) = {}

(* Nobody loses a block that it is waiting for, or reads one that has been *)
(* freed or given to another part of the file, however requests overlap.   *)
WaitedForStays ==
    \A r \in Reader :
        \A i \in 1..Len(todo[r]) : pc[r] \in {"look", "wait"} =>
            /\ todo[r][i] \in Listed
            /\ pblock[todo[r][i]].blockID = asked[r].block

(* When the file is closed, or the file system is unmounted after a close  *)
(* that failed, every block, its thread and its open file are gone.        *)
AllReleased == file = "closed" => Allocated = {} /\ opened = 0

(* "eof" (iFuse.Preload.cpp:620): a request ends before its last block     *)
(* only where the file ends.                                               *)
EofIsTrue ==
    \A r \in Reader :
        Ended(r) /\ readSize[r] \in {"none", "eof"} => asked[r].block >= FileBlocks

(* That is so when requests do not overlap and every thread can be made.   *)
SerialEof == ~setting.overlap /\ ~setting.noThread => EofIsTrue

(* Every request ends, also when it waits for the lock of the list and     *)
(* others wait under that lock for threads.                                *)
ReadsEnd == \A r \in Reader : pc[r] # "idle" ~> pc[r] = "idle"

=============================================================================
