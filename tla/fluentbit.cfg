SPECIFICATION Spec
CONSTANTS
    Descriptors = {3, 4, 5}
    Sockets = 3
    Retries = 2
    MaxEntries = 2
    ErrorLog = TRUE
    Faults = {"getaddrinfo", "socket", "epoll", "format"}
INVARIANTS
    TypeOK
    ErrorLogIntact
    PublishedSocket
    LossExplained
PROPERTIES
    FailureIsTold
