SPECIFICATION Spec
CONSTANTS
    Conns = {c1, c2}
    Users = {u1, u2}
    None = None
    InitAccount <- AllActive
    MAX_ATTEMPTS = 2
    MAX_LISTED = 1
    MaxCrashes = 0
PROPERTIES LockIsPermanent
