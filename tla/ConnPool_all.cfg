SPECIFICATION FairSpec
CONSTANTS
  Conn = {c1, c2, c3}
  Session = {s1, s2}
  NoConn = NoConn
  MaxConnNum = 2
  ConnTimeout = 2
  MaxLost = 1
INVARIANT TypeOK
INVARIANT RefCount
INVARIANT NoDangling
INVARIANT PlacedOnce
INVARIANT UnuseAssertions
INVARIANT PoolBounded
INVARIANT UnmountClosesAll
PROPERTY LeaseSpec
PROPERTY SharedOnlyWhenNoneFree
PROPERTY ParkedIsReusedOrClosed
