SPECIFICATION FairSpec
CONSTANTS
    Clients = {c1, c2}
    None = None
    Backlog = 2
PROPERTIES EveryConnectionAccepted
CHECK_DEADLOCK FALSE
