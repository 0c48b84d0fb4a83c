SPECIFICATION FairSpec
CONSTANTS
    name = name
    pw = pw
    bye = bye
    empty = empty
    Fds <- MCFds
    Strings = {name, pw, bye, empty}
    Users = {name}
    Valid = {pw, bye, empty}
    Empty = empty
    Bye = bye
    Encoding <- MCEncoding
    InitFile <- MCInitFile
    MAX_ATTEMPTS = 1
    Closed = Closed
    MAX_CLIENTS = 2
    MaxConns = 2
    MaxFaults = 0
    Shut = Shut
    Quiet = Quiet
    Eof = Eof
PROPERTIES ImplementsService EveryLineIsRead EveryoneIsAccepted
