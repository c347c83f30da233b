CONSTANTS
    BlockSize = 2
    Zero = "0"
    Old = "o"
    Byte = {"a", "b"}
    Handle = {h1, h2}
    MaxSize = 3
    Setting <- AllSettings
    Nothing = Nothing
    Failed = Failed
SPECIFICATION Spec
INVARIANTS TypeOK SerialCachesCurrent
PROPERTIES FileSpec WriteSeen ContentKept WriterReads
