SPECIFICATION Spec
CONSTANTS
    Reader = {r1, r2}
    NoReader = noReader
    Addresses = 6
    MaxAsked = 3
    LastBlock = 2
    FileBlocks = 2
    DefaultNum = 1
    MaxNum = 2
    Setting <- OverlapSetting
INVARIANT
    EofIsTrue
