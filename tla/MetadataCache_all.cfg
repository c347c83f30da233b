CONSTANTS
    Name = {n1, n2}
    Dir = Dir
    Thread = {t1, t2}
    Nothing = Nothing
    Setting <- SerialAndOverlapping
SPECIFICATION FairSpec
INVARIANTS TypeOK ListExact StatTrueIfListFresh
PROPERTY StaleEnds
