-------------------------- MODULE MCMetadataCache --------------------------
(* Settings for TLC: requests one at a time with two changes and an expiry *)
(* that the check every half timeout can miss, and overlapping ones.       *)
EXTENDS MetadataCache

Serial == {[overlap |-> FALSE, timeout |-> 2, maxChanges |-> 2]}
Overlapping == {[overlap |-> TRUE, timeout |-> 1, maxChanges |-> 1]}
SerialAndOverlapping == Serial \cup Overlapping
=============================================================================
