CONSTANTS
    BlockSize = 2
    Zero = "0"
    Old = "o"
    Byte = {"a", "b"}
    Handle = {h1, h2}
    MaxSize = 4
    Setting <- RaceSetting
    Nothing = Nothing
    Failed = Failed
SPECIFICATION Spec
INVARIANT CachesCurrent
