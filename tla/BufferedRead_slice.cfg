CONSTANTS
    BlockSize = 3
    Zero = "0"
    Byte = {"a", "b"}
    Written = "w"
    MaxSize = 5
    MaxRead = 6
SPECIFICATION Spec
CHECK_DEADLOCK FALSE
INVARIANT ReadIsSlice
