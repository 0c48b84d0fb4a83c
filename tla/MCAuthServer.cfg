SPECIFICATION FairSpec
CONSTANTS
    Conns = {c1, c2}
    Users = {u1}
    None = None
    InitAccount <- AllActive
    MAX_ATTEMPTS = 3
    MAX_LISTED = 2
    MaxCrashes = 2
INVARIANTS TypeOK NoDuplicates AuthenticatedOnly LockNeedsWrong
PROPERTIES LogoutUnlists GuessingEndsInLock
