---------------------------- MODULE MCConnPool ----------------------------
(* Model checking the connection pool: symmetry of addresses and sessions. *)
EXTENDS ConnPool, TLC

Symmetry == Permutations(Conn) \cup Permutations(Session)
=============================================================================
