---------------------------- MODULE MCBufferedFs ----------------------------
(* Settings for BufferedFs: the .cfg files choose among them.              *)
EXTENDS BufferedFs

(* Two writers of one path, one operation at a time.                       *)
SerialSetting ==
    [serial |-> TRUE, sparse |-> FALSE, failures |-> FALSE, length |-> 0,
     writers |-> Handle, stats |-> Handle, bytes |-> Byte]

(* A writer and a reader, one operation at a time, with calls that fail.   *)
FailingSetting(w) ==
    [SerialSetting EXCEPT !.failures = TRUE, !.length = MaxSize,
                           !.writers = {w}, !.bytes = {"a"}]

(* A writer and a reader that overlap.                                     *)
SharedSetting(w) ==
    [serial |-> FALSE, sparse |-> FALSE, failures |-> FALSE, length |-> 0,
     writers |-> {w}, stats |-> {}, bytes |-> {"a"}]

(* ... with writes behind the end of the file and calls that fail.         *)
WildSetting(w) ==
    [SharedSetting(w) EXCEPT !.sparse = TRUE, !.failures = TRUE]

OneWriter == CHOOSE h \in Handle : TRUE

AllSettings == {SerialSetting, FailingSetting(OneWriter), WildSetting(OneWriter)}
RaceSetting == {SharedSetting(OneWriter)}
=============================================================================
