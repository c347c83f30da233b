----------------------------- MODULE ConnLease -----------------------------
(***************************************************************************)
(* What the connection pool promises to the file system operations that   *)
(* draw connections from it (include/iFuse.Lib.Conn.hpp, "Usage pattern"): *)
(*                                                                         *)
(*   - a session is leased at most one connection at a time and keeps it   *)
(*     until it gives it back;                                             *)
(*   - a connection is closed only when nobody leases it;                  *)
(*   - a private (one-time) connection is leased once in its life.         *)
(*                                                                         *)
(* How the pool finds, shares, parks and reaps connections is not said.    *)
(***************************************************************************)
CONSTANTS Conn,    \* identities of connection objects
          Session, \* concurrent FUSE requests and open handles
          NoConn   \* NULL

VARIABLES established, \* connections that exist
          private,     \* those of them that are not for sharing
          lease        \* the connection each session holds, or NoConn

vars == <<established, private, lease>>

Leased(c) == \E s \in Session : lease[s] = c

Init == /\ established = {}
        /\ private = {}
        /\ lease = [s \in Session |-> NoConn]

\* A session gets an existing connection that may be shared ...
Share(s, c) ==
    /\ lease[s] = NoConn
    /\ c \in established \ private
    /\ lease' = [lease EXCEPT ![s] = c]
    /\ UNCHANGED <<established, private>>

\* ... or one that is established for it, private or not.
Establish(s, c) ==
    /\ lease[s] = NoConn
    /\ c \in Conn \ established
    /\ lease' = [lease EXCEPT ![s] = c]
    /\ established' = established \cup {c}
    /\ private' \in {private, private \cup {c}}

Return(s) ==
    /\ lease[s] # NoConn
    /\ lease' = [lease EXCEPT ![s] = NoConn]
    /\ UNCHANGED <<established, private>>

Close(c) ==
    /\ c \in established
    /\ ~Leased(c)
    /\ established' = established \ {c}
    /\ private' = private \ {c}
    /\ UNCHANGED lease

\* The process ends: every lease is void and every connection is closed.
Shutdown ==
    /\ established' = {}
    /\ private' = {}
    /\ lease' = [s \in Session |-> NoConn]

Next == \/ \E s \in Session, c \in Conn : Share(s, c) \/ Establish(s, c)
        \/ \E s \in Session : Return(s)
        \/ \E c \in Conn : Close(c)
        \/ Shutdown

Spec == Init /\ [][Next]_vars
=============================================================================
