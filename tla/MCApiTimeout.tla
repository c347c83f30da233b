---------------------------- MODULE MCApiTimeout ----------------------------
(* Settings for ApiTimeout: the .cfg files choose among them.              *)
EXTENDS ApiTimeout

(* --connreuse, keep-alive calls, and a server that answers.               *)
CalmSetting ==
    [shared |-> TRUE, keepAlive |-> TRUE, faults |-> FALSE,
     silent |-> FALSE, stray |-> {"harmless"}]

(* A connection for each request, and a server with faults.                *)
LoneSetting ==
    [shared |-> FALSE, keepAlive |-> FALSE, faults |-> TRUE,
     silent |-> FALSE, stray |-> {"harmless"}]

(* Everything at once.                                                     *)
WildSetting ==
    [shared |-> TRUE, keepAlive |-> TRUE, faults |-> TRUE,
     silent |-> TRUE, stray |-> {"harmless", "frees", "breaks"}]

AllSettings == {CalmSetting, LoneSetting, WildSetting}

(* Shared connections and a server with faults, at their best.             *)
HangSetting == {[WildSetting EXCEPT !.stray = {"harmless"}, !.silent = FALSE]}

(* A connection for each request, and a connect that is never answered.    *)
SilentSetting == {[LoneSetting EXCEPT !.silent = TRUE]}
=============================================================================
