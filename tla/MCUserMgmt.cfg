SPECIFICATION Spec
CONSTANTS
    admin = admin
    blocked = blocked
    p1 = p1
    Names = {admin, blocked, new}
    Passwords = {p1, p2}
    None = None
    Dangling = Dangling
    Absent = Absent
    InitFile <- MCInitFile
    MAX_LOGIN_ATTEMPTS = 2
    UNLOCK_TIME = 2
    MAX_TIME = 3
    MAX_LOGINS = 3
    MAX_FAULTS = 1
INVARIANTS TypeOK CurrentUserListed 
PROPERTIES UnlocksOnlyInTime
