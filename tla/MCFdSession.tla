---------------------------- MODULE MCFdSession ----------------------------
EXTENDS FdSession

\* All handles where connections stay up or break, and where the server
\* of a shared connection refuses calls; one handle where both happen.
OneHandle == {CHOOSE h \in Handle : TRUE}

AllSettings ==
    [shared : BOOLEAN, breaks : BOOLEAN, refuses : {FALSE}, handles : {Handle}]
    \cup [shared : {TRUE}, breaks : {FALSE}, refuses : {TRUE}, handles : {Handle}]
    \cup [shared : BOOLEAN, breaks : {TRUE}, refuses : {TRUE}, handles : {OneHandle}]

SharedSetting ==
    [shared : {TRUE}, breaks : {TRUE}, refuses : {FALSE}, handles : {Handle}]
=============================================================================
