CONSTANTS
    Handle = {h1, h2}
    Request = {r1, r2}
    NoOne = NoOne
    Common = Common
    Numbers = 2
    FileSize = 1
    Setting <- SharedSetting
SPECIFICATION Spec
INVARIANT AlwaysOwn
