SPECIFICATION Spec
CONSTANTS
    name = name
    pw = name
    bye = bye
    empty = empty
    Fds <- MCFds
    Strings = {name, bye, empty}
    Users = {name}
    Valid = {name, bye, empty}
    Empty = empty
    Bye = bye
    Encoding <- MCEncoding
    InitFile <- MCInitFile
    MAX_ATTEMPTS = 2
    Closed = Closed
    MAX_CLIENTS = 2
    MaxConns = 3
    MaxFaults = 2
    Shut = Shut
    Quiet = Quiet
    Eof = Eof
INVARIANTS TypeOK NoClientForgotten NoBlockingRecv LoggedInKnowPassword RestartBringsBack
PROPERTIES EachReadyOnce BlockIsPermanent
