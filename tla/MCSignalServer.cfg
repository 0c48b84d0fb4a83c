SPECIFICATION FairSpec
CONSTANTS
    Clients = {c1, c2, c3}
    None = None
    Backlog = 2
INVARIANTS TypeOK OneLineEach BacklogExplained
PROPERTIES AcceptedIsWritten RepeatedTermStops
CHECK_DEADLOCK FALSE
