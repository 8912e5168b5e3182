SPECIFICATION Spec
CONSTANTS
    root = root
    a = a
    b = b
    h = h
    x = x
    f1 = f1
    f2 = f2
    f3 = f3
    f4 = f4
    f5 = f5
    Null = Null
    Dirs <- MCDirs
    Files <- MCFiles
    Root = root
    Parent <- MCParent
    Hidden = {h}
    Forbidden = {x, f2}
    Tokens <- MCTokens
    OPEN_MAX = 9
INVARIANTS
    OnlyDotsSkipped
CHECK_DEADLOCK FALSE
