SPECIFICATION Spec
CONSTANTS
    Addresses = {a1, a2, a3}
    Names = {an, binh}
    BadName = BadName
    None = None
    MAX_CLIENTS = 2
    MAX_NET = 2
    MAX_RESTARTS = 1
SYMMETRY Symmetry
INVARIANTS TypeOK OneSessionEach LoggedInHasSession ErrorMeansRestart
PROPERTY ImplementsRoom
