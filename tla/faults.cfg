SPECIFICATION Spec
CONSTANTS
    Lines <- OddLines
    Payload = {"entry", ""}
    Blank = ""
    ver = 2
    BlockModulus = 4
    MaxLines = 4
    Faults = {"sem_init", "startup", "pthread_sigmask", "pthread_create", "calloc", "strdup", "send", "sem_wait", "sem_post", "unblock", "callback", "thread"}
    None = None
INVARIANTS
    TypeOK
    NothingLost
    ListTornDownAlone
    UnflaggedInSequence
    AnsweredFirst
    MessagesInPlace
    AnnouncedOnce
