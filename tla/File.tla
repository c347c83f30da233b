-------------------------------- MODULE File --------------------------------
(***************************************************************************)
(* What a file promises to those who have it open: a write is seen whole   *)
(* by every later read, and nothing else changes the content.  Of the size *)
(* less is promised: it is never more than the file has, it counts what    *)
(* was written last, and it is at least what the file had at its last      *)
(* sync.  After a sync, before the next write, it is exact.                *)
(***************************************************************************)
EXTENDS Blocks

CONSTANTS
    Byte,
    Handle,       \* open files on one path
    Nothing       \* no answer is due

VARIABLES
    content,      \* the bytes of the file
    synced,       \* how long it was when it was last flushed or closed
    recent,       \* where the last bytes written since end, 0 if none are
    size,         \* what a stat returns, until it has returned
    answer        \* what a read returns, until it has returned

vars == <<content, synced, recent, size, answer>>

Init ==
    /\ content \in Seq(Byte)
    /\ synced = Len(content)
    /\ recent = 0
    /\ size = [h \in Handle |-> Nothing]
    /\ answer = [h \in Handle |-> Nothing]

Write ==
    /\ UNCHANGED <<synced, size, answer>>
    /\ recent' \in 1..Len(content')
    /\ \E off \in 0..recent' - 1, n \in 1..BlockSize :
        /\ off + n <= recent'
        /\ content' = Patch(content, off, Slice(content', off, n))

(* A writer flushes, or closes the file.                                   *)
Sync ==
    /\ synced' = Len(content)
    /\ recent' = 0
    /\ UNCHANGED <<content, size, answer>>

Read(h) ==
    /\ \E b \in 0..getBlockID(Len(content)) + 1 :
        answer' = [answer EXCEPT ![h] = BlockOf(content, b)]
    /\ UNCHANGED <<content, synced, recent, size>>

Stat(h) ==
    /\ \E n \in Larger(synced, recent)..Len(content) :
        size' = [size EXCEPT ![h] = n]
    /\ UNCHANGED <<content, synced, recent, answer>>

Reply(h) ==
    /\ size' = [size EXCEPT ![h] = Nothing]
    /\ answer' = [answer EXCEPT ![h] = Nothing]
    /\ UNCHANGED <<content, synced, recent>>

Next == Write \/ Sync \/ \E h \in Handle : Read(h) \/ Stat(h) \/ Reply(h)

Spec == Init /\ [][Next]_vars
=============================================================================
