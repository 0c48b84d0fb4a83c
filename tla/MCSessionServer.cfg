SPECIFICATION FairSpec
CONSTANTS
    u1 = u1
    u2 = u2
    bye = bye
    Clients = {c1, c2}
    Strings = {u1, u2, bye}
    Users = {u1}
    Passwords = {u1}
    Bye = bye
    None = None
    InitFiles <- MCInitFiles
    MAX_ATTEMPTS = 2
    MAX_FAULTS = 1
INVARIANTS TypeOK PromptAgrees
PROPERTIES NoStrayPassword ImplementsService Answered
