SPECIFICATION Spec
CONSTANTS
    Addresses = {a1}
    Names = {an, binh}
    BadName = BadName
    None = None
    MAX_CLIENTS = 1
    MAX_NET = 3
    MAX_RESTARTS = 0
INVARIANT TalksUnderItsName
