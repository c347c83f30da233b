--------------------------- MODULE MCBufferedRead ---------------------------
(* Model values for BufferedRead: the .cfg files name the sets.            *)
EXTENDS BufferedRead
=============================================================================
