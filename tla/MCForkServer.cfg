SPECIFICATION Spec
CONSTANTS
    Conns = {c1, c2}
    Letters = {"a", "b"}
    Users <- UsersAB
    AddressWidth <- SameWidth
    None = None
    MAX_ATTEMPTS = 2
    MAX_LISTED = 2
    MaxLogins = 5
SYMMETRY Symmetry
INVARIANTS TypeOK AuthenticatedOnly LockNeedsWrong AccountsSurvive ListRightWhenAlone
