--------------------------- MODULE MetadataCache ---------------------------
(***************************************************************************)
(* The two caches of iFuse.Lib.MetadataCache.cpp, for one directory: the   *)
(* stats of its entries and the list of their names, with the requests of  *)
(* iFuse.FS.cpp that fill and invalidate them.  Each cache has a lock that *)
(* is held for one cache operation only; a request is a call to the server *)
(* and then a series of cache operations, between which others run.  Only  *)
(* this mount changes the directory (README.md, WARNING).                  *)
(***************************************************************************)
EXTENDS Integers, Sequences, SequencesExt

CONSTANTS
    Name,         \* names in the directory
    Dir,          \* the directory itself
    Thread,       \* threads of FUSE
    Nothing,
    Setting       \* how the mount is used, see setting

ASSUME NameAssumption ==
    IsFiniteSet(Name) /\ Dir \notin Name /\ Nothing \notin Name \cup {Dir}
ASSUME SettingAssumption ==
    Setting \subseteq [overlap : BOOLEAN, timeout : Nat, maxChanges : Nat]

VARIABLES
    setting,      \* overlap: requests overlap, and calls to the server may
                  \* fail; timeout: g_metadataCacheTimeoutSec, in ticks;
                  \* maxChanges: bound of this model, changes of the directory
    server,       \* the version of the metadata of a name, 0 if it is none
    changes,      \* changes of the directory so far
    dirty,        \* names written to since their handle last dropped the stat
    statCache,    \* g_StatCacheMap: version and age; version 0 is no entry
    dirCache,     \* g_DirCacheMap[Dir]: how often a name is in it, its age
    sinceCheck,   \* ticks since g_LastDirCacheTimeoutCheck
    pc,           \* where a thread is
    todo,         \* the cache operations it has still to do
    answer        \* the stat that its request will return

cacheVars == <<statCache, dirCache, sinceCheck>>
serverVars == <<setting, server, changes, dirty>>
vars == <<serverVars, cacheVars, pc, todo, answer>>

Timeout == setting.timeout

NoStat == [ver |-> 0, age |-> 0]
NoList == [held |-> FALSE, count |-> [n \in Name |-> 0], age |-> 0]
NoAnswer == [about |-> Nothing, ver |-> 0]

Existing == {n \in Name : server[n] # 0}
Entries == {n \in Name : dirCache.count[n] > 0}

FreshStat(n) == statCache[n].ver # 0 /\ statCache[n].age <= Timeout
FreshList == dirCache.held /\ dirCache.age <= Timeout

ListOf(S) == [held |-> TRUE, count |-> [n \in Name |-> IF n \in S THEN 1 ELSE 0],
              age |-> 0]

(* iFuseInit has looked for expired lists and then cached the directory,   *)
(* when it is the root and has names.                                      *)
Init ==
    /\ setting \in Setting
    /\ server \in [Name -> {0, 1}]
    /\ changes = 0
    /\ dirty = {}
    /\ \/ /\ statCache = [n \in Name |-> NoStat]
          /\ dirCache = NoList
       \/ /\ Existing # {}
          /\ statCache = [n \in Name |-> [ver |-> server[n], age |-> 0]]
          /\ dirCache = ListOf(Existing)
    /\ sinceCheck = 0
    /\ pc = [t \in Thread |-> "idle"]
    /\ todo = [t \in Thread |-> <<>>]
    /\ answer = [t \in Thread |-> NoAnswer]

Goto(t, l) == pc' = [pc EXCEPT ![t] = l]

Begin(t) ==
    /\ pc[t] = "idle"
    /\ ~setting.overlap => \A u \in Thread : pc[u] = "idle"

Reply(t) ==
    /\ pc[t] = "reply"
    /\ answer' = [answer EXCEPT ![t] = NoAnswer]
    /\ Goto(t, "idle")
    /\ UNCHANGED <<serverVars, cacheVars, todo>>

-----------------------------------------------------------------------------
(* Cache operations, the head of todo. *)

Do(op, n, v) == [op |-> op, name |-> n, ver |-> v]

Next1(t, op) == pc[t] = "steps" /\ Head(todo[t]).op = op
Subject(t) == Head(todo[t]).name

(* A thread has the operations s left to do; then it answers. *)
Left(t, s) ==
    /\ todo' = [todo EXCEPT ![t] = s]
    /\ Goto(t, IF s = <<>> THEN "reply" ELSE "steps")

Done(t) == Left(t, Tail(todo[t])) /\ UNCHANGED <<serverVars, sinceCheck, answer>>

PutStat(t) ==
    /\ Next1(t, "PutStat")
    /\ statCache' =
         [statCache EXCEPT ![Subject(t)] = [ver |-> Head(todo[t]).ver, age |-> 0]]
    /\ Done(t)
    /\ UNCHANGED dirCache

(* Variant: the entry stays. *)
StatKept(t) ==
    /\ Next1(t, "RemoveStat")
    /\ Done(t)
    /\ UNCHANGED <<statCache, dirCache>>

RemoveStat(t) ==
    /\ Next1(t, "RemoveStat")
    /\ statCache' = [statCache EXCEPT ![Subject(t)] = NoStat]
    /\ Done(t)
    /\ UNCHANGED dirCache

(* _cacheDirEntry: a list that is not there is begun, one that is there    *)
(* keeps its time.                                                         *)
AddDirEntry(t) ==
    /\ Next1(t, "AddDirEntry")
    /\ dirCache' = [dirCache EXCEPT !.held = TRUE, !.count[Subject(t)] = @ + 1]
    /\ Done(t)
    /\ UNCHANGED statCache

(* The first half of iFuseMetadataCacheAddDirEntryIfFresh2; the entry is   *)
(* added in a critical section of its own.                                 *)
CheckFreshness(t) ==
    /\ Next1(t, "CheckFreshness")
    /\ Left(t, IF FreshList THEN Tail(todo[t]) ELSE Tail(Tail(todo[t])))
    /\ UNCHANGED <<serverVars, cacheVars, answer>>

(* Variant: an entry is taken off whether it is there or not. *)
RemoveDirEntryUnchecked(t) ==
    /\ Next1(t, "RemoveDirEntry")
    /\ dirCache' = [dirCache EXCEPT !.count[Subject(t)] = @ - 1]
    /\ Done(t)
    /\ UNCHANGED statCache

(* _removeDirCacheEntry: the first of that name. *)
RemoveDirEntry(t) ==
    /\ Next1(t, "RemoveDirEntry")
    /\ dirCache' = [dirCache EXCEPT !.count[Subject(t)] = IF @ = 0 THEN 0 ELSE @ - 1]
    /\ Done(t)
    /\ UNCHANGED statCache

(* _releaseAllCache: one lock, then the other. *)
ReleaseStats(t) ==
    /\ Next1(t, "ReleaseStats")
    /\ statCache' = [n \in Name |-> NoStat]
    /\ Done(t)
    /\ UNCHANGED dirCache

ReleaseDirs(t) ==
    /\ Next1(t, "ReleaseDirs")
    /\ dirCache' = NoList
    /\ Done(t)
    /\ UNCHANGED statCache

CacheStep(t) ==
    \/ PutStat(t) \/ RemoveStat(t) \/ AddDirEntry(t) \/ CheckFreshness(t)
    \/ RemoveDirEntry(t) \/ ReleaseStats(t) \/ ReleaseDirs(t)

-----------------------------------------------------------------------------
(* Requests that ask. *)

(* iFuseMetadataCacheClearExpiredDir(false), at most every half timeout.   *)
(* (Expired stats are cleared likewise; nobody sees whether they are,      *)
(* since no stat is read without a look at its age.)                       *)
Cleared ==
    IF sinceCheck > Timeout \div 2 /\ ~FreshList THEN NoList ELSE dirCache

ClearExpiredDir ==
    /\ dirCache' = Cleared
    /\ sinceCheck' = IF sinceCheck > Timeout \div 2 THEN 0 ELSE sinceCheck

Answer(t, about, ver) ==
    answer' = [answer EXCEPT ![t] = [about |-> about, ver |-> ver]]

(* Variant: a stat that is read is young again. *)
GetStatRenewed(t) ==
    /\ Begin(t)
    /\ \E n \in Name :
        /\ Answer(t, n, IF FreshStat(n) THEN statCache[n].ver ELSE 0)
        /\ Goto(t, IF FreshStat(n) THEN "reply" ELSE "exists")
        /\ statCache' = IF FreshStat(n) THEN [statCache EXCEPT ![n].age = 0]
                                        ELSE statCache
    /\ UNCHANGED <<serverVars, dirCache, sinceCheck, todo>>

(* iFuseFsGetAttr: a cached stat, else ... *)
GetStat(t) ==
    /\ Begin(t)
    /\ \E n \in Name :
        /\ Answer(t, n, IF FreshStat(n) THEN statCache[n].ver ELSE 0)
        /\ Goto(t, IF FreshStat(n) THEN "reply" ELSE "exists")
    /\ UNCHANGED <<serverVars, cacheVars, todo>>

(* ... ENOENT when the list, of whatever age, has not got the name, ... *)
CheckExistence(t) ==
    /\ pc[t] = "exists"
    /\ ClearExpiredDir
    /\ Goto(t, IF Cleared.held /\ Cleared.count[answer[t].about] = 0
               THEN "reply" ELSE "fetch")
    /\ UNCHANGED <<serverVars, statCache, todo, answer>>

(* ... else what the server says, which is cached when the name exists. *)
ObjStat(t) ==
    LET n == answer[t].about
    IN /\ pc[t] = "fetch"
       /\ Answer(t, n, server[n])
       /\ Left(t, IF server[n] = 0 THEN <<>> ELSE <<Do("PutStat", n, server[n])>>)
       /\ UNCHANGED <<serverVars, cacheVars>>

ObjStatFails(t) ==
    /\ setting.overlap
    /\ pc[t] = "fetch"
    /\ answer' = [answer EXCEPT ![t] = NoAnswer]
    /\ Goto(t, "reply")
    /\ UNCHANGED <<serverVars, cacheVars, todo>>

(* iFuseFsOpenDir: a copy of the cached list, or the server's directory.   *)
OpenDir(t) ==
    /\ Begin(t)
    /\ ClearExpiredDir
    /\ Goto(t, IF FreshList THEN "reply" ELSE "opened")
    /\ UNCHANGED <<serverVars, statCache, todo, answer>>

(* iFuseFsReadDir drops the cached list ... *)
ReadDir(t) ==
    /\ pc[t] = "opened"
    /\ dirCache' = NoList
    /\ Goto(t, "query")
    /\ UNCHANGED <<serverVars, statCache, sinceCheck, todo, answer>>

(* ... and adds what the server lists, entry by entry.  A call that fails  *)
(* ends the loop as the end of the directory does.                         *)
Listing(s) ==
    [i \in 1..2 * Len(s) |->
        IF i % 2 = 1 THEN Do("PutStat", s[(i + 1) \div 2], server[s[(i + 1) \div 2]])
                     ELSE Do("AddDirEntry", s[i \div 2], 0)]

ReadCollection(t) ==
    /\ pc[t] = "query"
    /\ \E s \in SetToSeqs(Existing) : \E k \in 0..Len(s) :
        /\ k = Len(s) \/ setting.overlap
        /\ Left(t, Listing(SubSeq(s, 1, k)))
    /\ UNCHANGED <<serverVars, cacheVars, answer>>

-----------------------------------------------------------------------------
(* Requests that change the directory: the server first, then the caches.  *)

(* The caches are left alone when the server has made the change but its   *)
(* answer was lost: the repeated call fails.                               *)
Change(t, steps) ==
    /\ changes < setting.maxChanges
    /\ changes' = changes + 1
    /\ Left(t, steps) \/ (setting.overlap /\ Left(t, <<>>))
    /\ UNCHANGED <<setting, cacheVars, answer>>

NewVersion == changes + 2

(* Variant: the list of the parent is left alone. *)
CreateUnlisted(t) ==
    /\ Begin(t)
    /\ \E n \in Name \ Existing :
        /\ server' = [server EXCEPT ![n] = NewVersion]
        /\ Change(t, <<Do("RemoveStat", n, 0)>>)
    /\ UNCHANGED dirty

(* iFuseFsCreate, iFuseFsMakeDir. *)
Create(t) ==
    /\ Begin(t)
    /\ \E n \in Name \ Existing :
        /\ server' = [server EXCEPT ![n] = NewVersion]
        /\ Change(t, <<Do("RemoveStat", n, 0), Do("CheckFreshness", n, 0),
                       Do("AddDirEntry", n, 0)>>)
    /\ UNCHANGED dirty

(* iFuseFsUnlink, iFuseFsRemoveDir, of a name that is not open for writing. *)
Unlink(t) ==
    /\ Begin(t)
    /\ \E n \in Existing \ dirty :
        /\ server' = [server EXCEPT ![n] = 0]
        /\ Change(t, <<Do("RemoveStat", n, 0), Do("RemoveDirEntry", n, 0)>>)
    /\ UNCHANGED dirty

(* iFuseFsRename, to a name that iFuseRename has unlinked if it existed.   *)
Rename(t) ==
    /\ Begin(t)
    /\ \E from \in Existing \ dirty, to \in Name \ Existing :
        /\ server' = [server EXCEPT ![from] = 0, ![to] = NewVersion]
        /\ Change(t, <<Do("RemoveStat", from, 0), Do("RemoveStat", to, 0),
                       Do("RemoveDirEntry", from, 0),
                       Do("CheckFreshness", to, 0), Do("AddDirEntry", to, 0)>>)
    /\ UNCHANGED dirty

(* iFuseFsTruncate, iFuseFsChmod. *)
Modify(t) ==
    /\ Begin(t)
    /\ \E n \in Existing :
        /\ server' = [server EXCEPT ![n] = NewVersion]
        /\ Change(t, <<Do("RemoveStat", n, 0)>>)
    /\ UNCHANGED dirty

(* iFuseFsWrite does not touch the caches; the flush or the close of the   *)
(* handle drops the stat.                                                  *)
Write(t) ==
    /\ Begin(t)
    /\ \E n \in Existing :
        /\ server' = [server EXCEPT ![n] = NewVersion]
        /\ dirty' = dirty \cup {n}
    /\ Change(t, <<>>)

Flush(t) ==
    /\ Begin(t)
    /\ \E n \in dirty :
        /\ dirty' = dirty \ {n}
        /\ Left(t, <<Do("RemoveStat", n, 0)>>)
    /\ UNCHANGED <<setting, server, changes, cacheVars, answer>>

(* The ioctl of irodsFsCtl reset_cache. *)
Reset(t) ==
    /\ Begin(t)
    /\ Left(t, <<Do("ReleaseStats", Dir, 0), Do("ReleaseDirs", Dir, 0)>>)
    /\ UNCHANGED <<serverVars, cacheVars, answer>>

-----------------------------------------------------------------------------
Older(e, present) == IF present /\ e.age <= Timeout THEN [e EXCEPT !.age = @ + 1] ELSE e

Tick ==
    /\ statCache' = [n \in Name |-> Older(statCache[n], statCache[n].ver # 0)]
    /\ dirCache' = Older(dirCache, dirCache.held)
    /\ sinceCheck' = IF sinceCheck <= Timeout \div 2 THEN sinceCheck + 1
                                                     ELSE sinceCheck
    /\ UNCHANGED <<serverVars, pc, todo, answer>>

Ask(t) == GetStat(t) \/ OpenDir(t)
Alter(t) ==
    \/ Create(t) \/ Unlink(t) \/ Rename(t) \/ Modify(t) \/ Write(t) \/ Flush(t)
    \/ Reset(t)

(* What a request does once it has begun. *)
Proceed(t) ==
    \/ CheckExistence(t) \/ ObjStat(t) \/ ObjStatFails(t)
    \/ ReadDir(t) \/ ReadCollection(t) \/ CacheStep(t) \/ Reply(t)

Next == (\E t \in Thread : Ask(t) \/ Alter(t) \/ Proceed(t)) \/ Tick

Spec == Init /\ [][Next]_vars

(* Time passes and a request that has begun is not left standing.          *)
FairSpec == Spec /\ WF_vars(Tick) /\ \A t \in Thread : WF_vars(Proceed(t))

-----------------------------------------------------------------------------
Version == 0..setting.maxChanges + 1
Step == [op : {"PutStat", "RemoveStat", "AddDirEntry", "CheckFreshness",
               "RemoveDirEntry", "ReleaseStats", "ReleaseDirs"},
         name : Name \cup {Dir}, ver : Version]

(* Every variable has its type: no list without its marks is left behind,  *)
(* and a thread has cache operations to do exactly in its steps.           *)
TypeOK ==
    /\ setting \in Setting
    /\ server \in [Name -> Version]
    /\ changes \in 0..setting.maxChanges
    /\ dirty \subseteq Existing
    /\ statCache \in [Name -> [ver : Version, age : 0..Timeout + 1]]
    /\ dirCache \in [held : BOOLEAN, count : [Name -> Nat], age : 0..Timeout + 1]
    /\ sinceCheck \in 0..(Timeout \div 2) + 1
    /\ pc \in [Thread -> {"idle", "exists", "fetch", "opened", "query", "steps",
                          "reply"}]
    /\ answer \in [Thread -> [about : Name \cup {Nothing}, ver : Version]]
    /\ todo \in [Thread -> Seq(Step)]
    /\ \A t \in Thread : todo[t] # <<>> <=> pc[t] = "steps"

Quiet == \A t \in Thread : pc[t] = "idle"

(* Without overlap a list that is used has each name of the directory once, *)
(* whatever was created, removed and renamed since it was read.            *)
ListExact ==
    ~setting.overlap /\ Quiet /\ FreshList =>
        dirCache.count = ListOf(Existing).count

(* Without overlap a stat tells the truth, but for a file with writes that *)
(* no flush or close has followed, and as long as no expired list is kept. *)
StatRight(t) ==
    answer[t].about \in Name =>
        answer[t].ver = server[answer[t].about] \/ answer[t].about \in dirty
StatTrueIfListFresh ==
    ~setting.overlap /\ (dirCache.held => FreshList) =>
        \A t \in Thread : pc[t] = "reply" => StatRight(t)

(* "Metadata caches are invalidated after the timeout": whatever requests  *)
(* have done to each other, and whichever answers were lost, once the      *)
(* directory does not change any more the stats in use become right and    *)
(* stay so, and names that do not exist leave the lists for good.          *)
StaleEnds ==
    <>[](/\ \A n \in Name : FreshStat(n) => statCache[n].ver = server[n]
         /\ FreshList => Entries \subseteq Existing)
=============================================================================
