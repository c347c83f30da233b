----------------------------- MODULE MCPreload -----------------------------
EXTENDS Preload

Kind(overlap, failures, noThread, option) ==
    [overlap |-> overlap, failures |-> failures, noThread |-> noThread, option |-> option]

\* One request at a time, without failures, with --preloadblocks above its
\* limit, and with every kind of failure; and two requests that overlap.
AllSettings ==
    {Kind(FALSE, FALSE, FALSE, 9), Kind(FALSE, TRUE, TRUE, 0), Kind(TRUE, FALSE, FALSE, 1)}

OverlapSetting == {Kind(TRUE, FALSE, FALSE, 1)}
=============================================================================
