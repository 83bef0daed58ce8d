--------------------------- MODULE PluginControl ---------------------------
(***************************************************************************)
(* The plug-in framework, common/plugin_control.c: one process, two        *)
(* threads.  main() becomes the communication thread ("comm"): it reads    *)
(* the lines Mistral writes to stdin, checks each with parse_message(),    *)
(* and appends what it accepts to a list.  processing_thread() ("proc")    *)
(* takes messages off the list and calls the plug-in's functions.  The     *)
(* threads share the list (under the semaphore message_list), the flags    *)
(* shutdown and complete, and mistral_plugin_info.interval.                *)
(*                                                                         *)
(* A line of input is the record the checks of parse_message can tell      *)
(* apart; which lines Mistral (or whatever corrupts its output) may send   *)
(* is the constant Lines.  Library calls that may fail in a behaviour are  *)
(* named by the constant Faults; "callback" there means that a plug-in     *)
(* function may call mistral_shutdown(), "thread" that a thread the        *)
(* plug-in started may (Fluent Bit's does when it gives up connecting).    *)
(***************************************************************************)
EXTENDS Naturals, Sequences

CONSTANTS
    Lines,          \* the lines that may arrive on stdin
    Payload,        \* contents of a data line
    Blank,          \* the contents of an empty line
    ver,            \* MISTRAL_API_VERSION
    BlockModulus,   \* 2^64 in the program: block numbers are uint64_t
    MaxLines,       \* bound on the number of lines read in a behaviour
    Faults,         \* what may fail
    None            \* no message at hand

MessageTypes == {"USED_VERSION", "SUP_VERSION", "INTERVAL", "DATA_START",
                 "DATA_LINE", "DATA_END", "SHUTDOWN"}

FaultNames == {"sem_init", "startup", "pthread_sigmask", "pthread_create",
               "calloc", "strdup", "send", "sem_wait", "sem_post", "unblock",
               "callback", "thread"}

Number == 0 .. (BlockModulus - 1)

(***************************************************************************)
(* A line as read by getline(): the message its prefix announces, the      *)
(* number strtoull() finds after it, whether that number was followed by a *)
(* separator without errno (wellformed; for the version message: whether   *)
(* sscanf() found two numbers), whether ":\n" ends it, the lower bound of  *)
(* a version message (number is the upper one) and the text of a data line.*)
(***************************************************************************)
LineType == [message    : MessageTypes,
             number     : Number,
             min        : Number,
             wellformed : BOOLEAN,
             terminated : BOOLEAN,
             data       : Payload]

(* What strdup() makes of a data line: the same, or None for want of memory.*)
Copies == Payload \cup {x \in {None} : "strdup" \in Faults}

(* message_details without its list pointers.                              *)
MessageType == [message   : MessageTypes,
                block_num : Number,
                error     : BOOLEAN,
                data      : Copies]

ASSUME ConstantsAssumption ==
    /\ BlockModulus \in Nat \ {0}
    /\ Blank \in Payload
    /\ Lines \subseteq LineType
    /\ MaxLines \in Nat
    /\ Faults \subseteq FaultNames
    /\ None \notin MessageType \cup Payload

VARIABLES
    \* --- communication thread
    cpc,                \* where main() is
    supported_version,  \* a usable supported-versions message was seen
    in_data,            \* inside a data block
    data_count,         \* number of the current or last data block
    shutdown_message,   \* Mistral sent a shutdown message
    this_message,       \* message built by parse_message, not yet listed
    \* --- processing thread
    ppc,                \* where processing_thread() is
    message,            \* message taken off the list, or None
    ret,                \* the thread's exit code
    shutdown_seen,      \* a shutdown message has been processed
    \* --- shared by the threads
    sem,                \* holder of the message_list semaphore
    messages,           \* the linked list
    shutdown,           \* set by mistral_shutdown()
    complete,           \* no more messages will be listed
    interval,           \* mistral_plugin_info.interval
    teardown,           \* both semaphores destroyed, names of call types freed
    \* --- the world outside
    stdout,             \* messages sent to Mistral
    eof,                \* Mistral has closed its end of stdin
    lines,              \* number of lines read
    \* --- history, read by no action
    accepted,           \* every message ever listed
    handled,            \* every message given to the processing switch
    intervals_set,      \* every value interval was given
    intervals_told      \* interval at each mistral_received_interval call

parser   == <<supported_version, in_data, data_count, shutdown_message>>
procVars == <<ppc, message, ret, shutdown_seen>>
world    == <<stdout, eof, lines>>
told     == <<handled, intervals_told>>
vars     == <<cpc, parser, this_message, procVars, sem, messages, shutdown,
              complete, interval, teardown, world, accepted, told, intervals_set>>

Fails(f) == f \in Faults

(* A shutdown message on the way out, which may not get through.           *)
LastWords ==
    \/ stdout' = Append(stdout, "SHUTDOWN")
    \/ Fails("send") /\ UNCHANGED stdout

(* A plug-in function is called, and may call mistral_shutdown().          *)
PluginCalled ==
    \/ UNCHANGED shutdown
    \/ Fails("callback") /\ shutdown' = TRUE

Init ==
    /\ cpc = "main" /\ this_message = None
    /\ supported_version = FALSE /\ in_data = FALSE
    /\ data_count = 0 /\ shutdown_message = FALSE
    /\ ppc = "none" /\ message = None
    /\ ret = "SUCCESS" /\ shutdown_seen = FALSE
    /\ sem = "free" /\ messages = <<>>
    /\ shutdown = FALSE /\ complete = FALSE
    /\ interval = 0 /\ teardown = FALSE
    /\ stdout = <<>> /\ eof = FALSE /\ lines = 0
    /\ accepted = <<>> /\ handled = <<>>
    /\ intervals_set = <<>> /\ intervals_told = <<>>

-----------------------------------------------------------------------------
(* main(): before the threads diverge.                                     *)

(* A step of main() that touches only its position and what it sends.      *)
MainOnly ==
    UNCHANGED <<parser, this_message, message, ret, shutdown_seen, sem,
                messages, complete, interval, eof, lines, accepted, told,
                intervals_set>>

(* main() returns early, after an attempt to tell Mistral.  It does not get *)
(* that far if the second semaphore cannot be had: the complaint is        *)
(* printed on an error log that is not set yet.                            *)
EarlyReturn ==
    /\ cpc = "main"
    /\ \/ Fails("sem_init")
       \/ Fails("pthread_sigmask")
       \/ Fails("pthread_create")
    /\ cpc' = "failed"
    /\ stdout' \in {Append(stdout, "SHUTDOWN")} \cup
                      (IF Fails("send") \/ Fails("sem_init") THEN {stdout} ELSE {})
    /\ MainOnly /\ UNCHANGED <<ppc, shutdown, teardown>>

(* mistral_startup() chose a plug-in type (it may also have called         *)
(* mistral_shutdown()), signals are blocked, the thread is created.        *)
StartThread ==
    /\ cpc = "main"
    /\ cpc' = "select" /\ ppc' = "start"
    /\ PluginCalled
    /\ MainOnly /\ UNCHANGED <<stdout, teardown>>

(* mistral_startup() left the type at MAX_PLUGIN: no thread, nothing to    *)
(* read and nothing to join.                                               *)
StartupRejected ==
    /\ cpc = "main" /\ Fails("startup")
    /\ cpc' = "notify"
    /\ PluginCalled
    /\ MainOnly /\ UNCHANGED <<ppc, stdout, teardown>>

-----------------------------------------------------------------------------
(* read_data_from_mistral(): the communication thread's loop.              *)

(* A step of the loop that listens, tests a flag or gives up.              *)
CommMoves(from, to) ==
    /\ cpc = from /\ cpc' = to
    /\ UNCHANGED <<parser, this_message, procVars, sem, messages, shutdown,
                   complete, interval, teardown, world, accepted, told,
                   intervals_set>>

(* select(): the first line is there (or stdin was closed).                *)
FirstInput == CommMoves("select", "while")

(* select() failed, or nothing came within ten seconds.                    *)
NoFirstInput == CommMoves("select", "complete")

(* The condition of the while loop, evaluated before getline().            *)
TestShutdown ==
    \/ ~shutdown /\ CommMoves("while", "getline")
    \/ shutdown /\ CommMoves("while", "complete")

(* getline() returned -1.                                                  *)
EndOfInput == eof /\ CommMoves("getline", "complete")

(* The checks parse_message makes before it allocates anything.            *)
Refused(l) ==
    \/ ~supported_version /\ l.message \notin {"SUP_VERSION", "SHUTDOWN"}
    \/ in_data /\ l.message \in {"INTERVAL", "SUP_VERSION", "DATA_START"}
    \/ ~in_data /\ l.message = "DATA_LINE" /\ l.data # Blank
    \/ l.message # "DATA_LINE" /\ ~l.terminated

(* The checks on the contents of a message, which drop it.                 *)
Invalid(l) ==
    \/ l.message = "USED_VERSION"
    \/ l.message = "INTERVAL" /\ (l.number = 0 \/ ~l.wellformed)
    \/ l.message = "SUP_VERSION" /\ (\/ ~l.wellformed
                                     \/ l.min = 0 \/ l.number = 0
                                     \/ l.min > l.number)

(* getline() returned line l and parse_message(l) is at work on it.        *)
Parses(l) ==
    /\ cpc = "getline" /\ ~eof /\ lines < MaxLines
    /\ lines' = lines + 1

(* parse_message returns PLUGIN_DATA_ERR and nothing is listed.            *)
RejectLine(l) ==
    /\ Parses(l) /\ (Refused(l) \/ Invalid(l))
    /\ cpc' = "while"
    /\ UNCHANGED <<parser, this_message, procVars, sem, messages, shutdown,
                   complete, interval, teardown, stdout, eof, accepted, told,
                   intervals_set>>

(* parse_message returns PLUGIN_FATAL_ERR: no memory, or no API version in *)
(* common.  (A failure to send the version is in ReceiveSupVersion.)       *)
FatalLine(l) ==
    /\ Parses(l) /\ ~Refused(l)
    /\ \/ Fails("calloc")
       \/ l.message = "SUP_VERSION" /\ ~Invalid(l) /\ ver \notin l.min .. l.number
    /\ cpc' = "complete"
    /\ UNCHANGED <<parser, this_message, procVars, sem, messages, shutdown,
                   complete, interval, teardown, stdout, eof, accepted, told,
                   intervals_set>>

(* parse_message goes on to list a message made from l.                    *)
Lists(l, block_num, error, data) ==
    /\ Parses(l) /\ ~Refused(l) /\ ~Invalid(l)
    /\ this_message' = [message |-> l.message, block_num |-> block_num,
                        error |-> error, data |-> data]
    /\ cpc' = "enqueue"
    /\ UNCHANGED <<procVars, sem, messages, complete, teardown, eof, accepted,
                   told>>

(* A supported version is answered at once, by this thread.                *)
ReceiveSupVersion(l) ==
    /\ l.message = "SUP_VERSION" /\ ver \in l.min .. l.number
    /\ Lists(l, 0, FALSE, Blank)
    /\ supported_version' = TRUE
    /\ stdout' = Append(stdout, "USED_VERSION")
    /\ UNCHANGED <<in_data, data_count, shutdown_message, shutdown, interval,
                   intervals_set>>

(* Wrong: not being able to answer is taken for an error in the data.      *)
AnswerFailsUnnoticed(l) ==
    /\ l.message = "SUP_VERSION" /\ ver \in l.min .. l.number
    /\ Parses(l) /\ ~Refused(l) /\ ~Invalid(l) /\ Fails("send")
    /\ supported_version' = TRUE
    /\ cpc' = "while"
    /\ UNCHANGED <<in_data, data_count, shutdown_message, this_message, procVars,
                   sem, messages, shutdown, complete, interval, teardown,
                   stdout, eof, accepted, told, intervals_set>>

(* The answer cannot be sent: parse_message returns PLUGIN_FATAL_ERR.      *)
AnswerFails(l) ==
    /\ l.message = "SUP_VERSION" /\ ver \in l.min .. l.number
    /\ Parses(l) /\ ~Refused(l) /\ ~Invalid(l) /\ Fails("send")
    /\ supported_version' = TRUE
    /\ cpc' = "complete"
    /\ UNCHANGED <<in_data, data_count, shutdown_message, this_message, procVars,
                   sem, messages, shutdown, complete, interval, teardown,
                   stdout, eof, accepted, told, intervals_set>>

(* Wrong: the interval is checked and forgotten.                           *)
ReceiveIntervalUnstored(l) ==
    /\ l.message = "INTERVAL"
    /\ Lists(l, 0, FALSE, Blank)
    /\ intervals_set' = Append(intervals_set, l.number)
    /\ UNCHANGED <<parser, stdout, shutdown, interval>>

(* The new interval is published before its message is listed.  If the     *)
(* lock cannot be claimed the message is listed all the same.              *)
ReceiveInterval(l) ==
    /\ l.message = "INTERVAL"
    /\ Lists(l, 0, FALSE, Blank)
    /\ \/ /\ interval' = l.number
          /\ intervals_set' = Append(intervals_set, l.number)
          /\ UNCHANGED shutdown
       \/ /\ Fails("sem_wait")
          /\ shutdown' = TRUE
          /\ UNCHANGED <<interval, intervals_set>>
    /\ UNCHANGED <<parser, stdout>>

(* The lock cannot be given back after the interval was stored: Mistral is *)
(* told, by other means than usual, and exit() is called.                  *)
IntervalPostFails(l) ==
    /\ l.message = "INTERVAL" /\ Fails("sem_post")
    /\ Parses(l) /\ ~Refused(l) /\ ~Invalid(l)
    /\ interval' = l.number
    /\ intervals_set' = Append(intervals_set, l.number)
    /\ cpc' = "exit"
    /\ LastWords
    /\ UNCHANGED <<parser, this_message, procVars, sem, messages, shutdown,
                   complete, teardown, eof, accepted, told>>

(* Wrong: a block number out of sequence is reported and not adopted.      *)
ReceiveDataStartKeepsCount(l) ==
    /\ l.message = "DATA_START"
    /\ Lists(l, l.number,
             \/ l.number = 0 \/ ~l.wellformed
             \/ l.number # (data_count + 1) % BlockModulus, Blank)
    /\ in_data' = TRUE
    /\ data_count' = IF this_message'.error THEN data_count ELSE l.number
    /\ UNCHANGED <<supported_version, shutdown_message, shutdown, interval,
                   stdout, intervals_set>>

(* Wrong: the number is compared with the count before it is incremented.  *)
ReceiveDataStartOffByOne(l) ==
    /\ l.message = "DATA_START"
    /\ Lists(l, l.number,
             l.number = 0 \/ ~l.wellformed \/ l.number # data_count, Blank)
    /\ in_data' = TRUE
    /\ data_count' = l.number
    /\ UNCHANGED <<supported_version, shutdown_message, shutdown, interval,
                   stdout, intervals_set>>

(* A wrong block number is reported to the plug-in and adopted.            *)
ReceiveDataStart(l) ==
    /\ l.message = "DATA_START"
    /\ Lists(l, l.number,
             \/ l.number = 0 \/ ~l.wellformed
             \/ l.number # (data_count + 1) % BlockModulus, Blank)
    /\ in_data' = TRUE
    /\ data_count' = l.number
    /\ UNCHANGED <<supported_version, shutdown_message, shutdown, interval,
                   stdout, intervals_set>>

(* Wrong: any number ends the block.                                       *)
ReceiveDataEndUncounted(l) ==
    /\ l.message = "DATA_END"
    /\ Lists(l, l.number, l.number = 0 \/ ~l.wellformed, Blank)
    /\ in_data' = FALSE
    /\ UNCHANGED <<supported_version, data_count, shutdown_message, shutdown,
                   interval, stdout, intervals_set>>

ReceiveDataEnd(l) ==
    /\ l.message = "DATA_END"
    /\ Lists(l, l.number,
             l.number = 0 \/ ~l.wellformed \/ l.number # data_count, Blank)
    /\ in_data' = FALSE
    /\ UNCHANGED <<supported_version, data_count, shutdown_message, shutdown,
                   interval, stdout, intervals_set>>

(* The line is copied.  Nobody looks whether there was memory for it.      *)
ReceiveDataLine(l) ==
    /\ l.message = "DATA_LINE"
    /\ \E copy \in Copies \cap {l.data, None} : Lists(l, data_count, FALSE, copy)
    /\ UNCHANGED <<parser, shutdown, interval, stdout, intervals_set>>

ReceiveShutdown(l) ==
    /\ l.message = "SHUTDOWN"
    /\ Lists(l, 0, FALSE, Blank)
    /\ shutdown_message' = TRUE
    /\ UNCHANGED <<supported_version, in_data, data_count, shutdown, interval,
                   stdout, intervals_set>>

ReadLine(l) ==
    \/ RejectLine(l) \/ FatalLine(l)
    \/ ReceiveSupVersion(l) \/ AnswerFails(l) \/ ReceiveInterval(l)
    \/ IntervalPostFails(l) \/ ReceiveDataStart(l) \/ ReceiveDataEnd(l)
    \/ ReceiveDataLine(l) \/ ReceiveShutdown(l)

(* Where read_data_from_mistral goes once parse_message has returned.      *)
AfterParse ==
    IF this_message.message = "SHUTDOWN" THEN "complete" ELSE "while"

Unparsed == UNCHANGED <<parser, procVars, complete, interval, teardown, eof,
                        lines, told, intervals_set>>

ClaimList ==
    /\ cpc = "enqueue" /\ sem = "free"
    /\ sem' = "comm" /\ cpc' = "link"
    /\ Unparsed /\ UNCHANGED <<this_message, messages, shutdown, stdout, accepted>>

(* Wrong: sem_wait() failed, the message is given up and listed.           *)
ClaimListFailsGoesOn ==
    /\ cpc = "enqueue" /\ Fails("sem_wait")
    /\ shutdown' = TRUE
    /\ cpc' = "link" /\ this_message' = None
    /\ Unparsed /\ UNCHANGED <<sem, messages, stdout, accepted>>

(* Wrong: sem_wait() failed, the message is given up and no one is told.   *)
ClaimListFailsQuietly ==
    /\ cpc = "enqueue" /\ Fails("sem_wait")
    /\ cpc' = AfterParse /\ this_message' = None
    /\ Unparsed /\ UNCHANGED <<sem, messages, shutdown, stdout, accepted>>

(* sem_wait() failed: the message is never listed.                         *)
ClaimListFails ==
    /\ cpc = "enqueue" /\ Fails("sem_wait")
    /\ shutdown' = TRUE
    /\ cpc' = AfterParse /\ this_message' = None
    /\ Unparsed /\ UNCHANGED <<sem, messages, stdout, accepted>>

(* Wrong: the message is inserted before the first one.                    *)
LinkMessageInFront ==
    /\ cpc = "link"
    /\ messages' = <<this_message>> \o messages
    /\ accepted' = Append(accepted, this_message)
    /\ cpc' = "post"
    /\ Unparsed /\ UNCHANGED <<this_message, sem, shutdown, stdout>>

LinkMessage ==
    /\ cpc = "link"
    /\ messages' = Append(messages, this_message)
    /\ accepted' = Append(accepted, this_message)
    /\ cpc' = "post"
    /\ Unparsed /\ UNCHANGED <<this_message, sem, shutdown, stdout>>

PostList ==
    /\ cpc = "post"
    /\ sem' = "free"
    /\ cpc' = AfterParse /\ this_message' = None
    /\ Unparsed /\ UNCHANGED <<messages, shutdown, stdout, accepted>>

(* Wrong: complete is set as soon as a shutdown message is recognised.     *)
SetCompleteEarly ==
    /\ \/ cpc = "complete"
       \/ cpc = "enqueue" /\ this_message.message = "SHUTDOWN"
    /\ cpc' = IF cpc = "complete" THEN "join" ELSE cpc
    /\ complete' = TRUE
    /\ UNCHANGED <<parser, this_message, procVars, sem, messages, shutdown,
                   interval, teardown, world, accepted, told, intervals_set>>

(* Wrong: the processing thread is not told that there is no more.         *)
SetCompleteForgotten ==
    /\ cpc = "complete" /\ cpc' = "join"
    /\ UNCHANGED <<parser, this_message, procVars, sem, messages, shutdown,
                   complete, interval, teardown, world, accepted, told,
                   intervals_set>>

SetComplete ==
    /\ cpc = "complete" /\ cpc' = "join"
    /\ complete' = TRUE
    /\ UNCHANGED <<parser, this_message, procVars, sem, messages, shutdown,
                   interval, teardown, world, accepted, told, intervals_set>>

-----------------------------------------------------------------------------
(* processing_thread(): takes messages off the list and processes them.    *)

ProcOnly == UNCHANGED <<cpc, parser, this_message, complete, interval, teardown,
                        world, accepted, intervals_set>>

(* pthread_sigmask() at the head of the thread; failing ends the thread.   *)
ThreadStarts ==
    /\ ppc = "start"
    /\ \/ ret' = "SUCCESS" /\ ppc' = "loop"
       \/ Fails("unblock") /\ ret' = "FAILURE" /\ ppc' = "exited"
    /\ ProcOnly /\ UNCHANGED <<message, shutdown_seen, sem, messages, shutdown, told>>

(* The condition of the processing loop.                                   *)
NextRound(r, seen) == IF r = "SUCCESS" /\ ~seen THEN "loop" ELSE "exited"

ClaimToTake ==
    /\ ppc = "loop" /\ sem = "free"
    /\ sem' = "proc" /\ ppc' = "take"
    /\ ProcOnly /\ UNCHANGED <<message, ret, shutdown_seen, messages, shutdown, told>>

(* sem_wait() failed: no message this time round.                          *)
ClaimToTakeFails ==
    /\ ppc = "loop" /\ Fails("sem_wait")
    /\ shutdown' = TRUE /\ ppc' = "sleep"
    /\ ProcOnly /\ UNCHANGED <<message, ret, shutdown_seen, sem, messages, told>>

(* Wrong: complete is looked at before the list.                           *)
TakeMessageUnlessComplete ==
    /\ ppc = "take" /\ ppc' = "release"
    /\ IF messages # <<>> /\ ~complete
       THEN /\ message' = Head(messages)
            /\ messages' = Tail(messages)
            /\ UNCHANGED ret
       ELSE /\ ret' = IF complete THEN "FAILURE" ELSE ret
            /\ UNCHANGED <<message, messages>>
    /\ ProcOnly /\ UNCHANGED <<shutdown_seen, sem, shutdown, told>>

(* The head of the list if there is one.  complete is looked at only when  *)
(* the list is found empty, and while the semaphore is held.               *)
TakeMessage ==
    /\ ppc = "take" /\ ppc' = "release"
    /\ IF messages # <<>>
       THEN /\ message' = Head(messages)
            /\ messages' = Tail(messages)
            /\ UNCHANGED ret
       ELSE /\ ret' = IF complete THEN "FAILURE" ELSE ret
            /\ UNCHANGED <<message, messages>>
    /\ ProcOnly /\ UNCHANGED <<shutdown_seen, sem, shutdown, told>>

ReleaseList ==
    /\ ppc = "release"
    /\ sem' = "free"
    /\ ppc' = IF message = None THEN "sleep" ELSE "process"
    /\ ProcOnly /\ UNCHANGED <<message, ret, shutdown_seen, messages, shutdown, told>>

(* sleep(1) when there was nothing to process.                             *)
SleepOneSecond ==
    /\ ppc = "sleep"
    /\ ppc' = NextRound(ret, shutdown_seen)
    /\ ProcOnly /\ UNCHANGED <<message, ret, shutdown_seen, sem, messages, shutdown, told>>

(* The switch on the message type: every type but SUP_VERSION calls a      *)
(* plug-in function, and that function may call mistral_shutdown().        *)
ProcessMessage ==
    /\ ppc = "process" /\ ppc' = "check"
    /\ handled' = Append(handled, message)
    /\ intervals_told' = IF message.message = "INTERVAL"
                         THEN Append(intervals_told, interval)
                         ELSE intervals_told
    /\ shutdown_seen' = (message.message = "SHUTDOWN")
    /\ \/ message.message = "SUP_VERSION" /\ UNCHANGED shutdown
       \/ message.message # "SUP_VERSION" /\ PluginCalled
    /\ ProcOnly /\ UNCHANGED <<message, ret, sem, messages>>

(* Wrong: the flag is left to the communication thread.                    *)
CheckShutdownForgotten ==
    /\ ppc = "check"
    /\ message' = None
    /\ ppc' = NextRound(ret, shutdown_seen)
    /\ ProcOnly
    /\ UNCHANGED <<ret, shutdown_seen, sem, messages, shutdown, told>>

(* The test of the shutdown flag once the plug-in function has returned.   *)
CheckShutdown ==
    /\ ppc = "check"
    /\ ret' = IF shutdown THEN "FAILURE" ELSE ret
    /\ message' = None
    /\ ppc' = NextRound(ret', shutdown_seen)
    /\ ProcOnly /\ UNCHANGED <<shutdown_seen, sem, messages, shutdown, told>>

(* parse_log_entry() is given a line that could not be copied: it follows  *)
(* a null pointer, and the process is gone.                                *)
ProcessCrashes ==
    /\ ppc = "process"
    /\ message.message = "DATA_LINE" /\ message.data = None
    /\ cpc' = "failed" /\ ppc' = "killed"
    /\ UNCHANGED <<parser, this_message, message, ret, shutdown_seen, sem,
                   messages, shutdown, complete, interval, teardown, world,
                   accepted, told, intervals_set>>

(* sem_post() failed in either thread, which tells Mistral before it calls *)
(* exit().                                                                 *)
PostFails ==
    /\ Fails("sem_post")
    /\ \/ cpc = "post" /\ cpc' = "exit" /\ UNCHANGED ppc
       \/ ppc = "release" /\ ppc' = "exit" /\ UNCHANGED cpc
    /\ LastWords
    /\ UNCHANGED <<parser, this_message, message, ret, shutdown_seen, sem,
                   messages, shutdown, complete, interval, teardown, eof, lines,
                   accepted, told, intervals_set>>

(* exit() ends both threads, the other one wherever it has got to.         *)
ProcessExits ==
    /\ cpc = "exit" \/ ppc = "exit"
    /\ cpc' = "failed" /\ ppc' = "killed"
    /\ UNCHANGED <<parser, this_message, message, ret, shutdown_seen, sem,
                   messages, shutdown, complete, interval, teardown, world,
                   accepted, told, intervals_set>>

-----------------------------------------------------------------------------
(* main(): after read_data_from_mistral().                                 *)

(* Wrong: the processing thread is left to itself.                         *)
JoinThreadForgotten ==
    /\ cpc = "join"
    /\ cpc' = "notify"
    /\ MainOnly /\ UNCHANGED <<ppc, shutdown, stdout, teardown>>

JoinThread ==
    /\ cpc = "join" /\ ppc = "exited"
    /\ cpc' = "notify"
    /\ MainOnly /\ UNCHANGED <<ppc, shutdown, stdout, teardown>>

(* Wrong: Mistral is told whoever asked.                                   *)
NotifyMistralAlways ==
    /\ cpc = "notify" /\ cpc' = "cleanup"
    /\ LastWords
    /\ MainOnly /\ UNCHANGED <<ppc, shutdown, teardown>>

NotifyMistral ==
    /\ cpc = "notify" /\ cpc' = "cleanup"
    /\ \/ ~shutdown_message /\ LastWords
       \/ shutdown_message /\ UNCHANGED stdout
    /\ MainOnly /\ UNCHANGED <<ppc, shutdown, teardown>>

(* Left-over messages are freed, both semaphores, the list's and the one   *)
(* mistral_err() waits on, are destroyed, and every call_type_names a log  *)
(* entry points to is freed with the tree of call types: all before the    *)
(* plug-in's last function is called.                                      *)
CleanUp ==
    /\ cpc = "cleanup" /\ cpc' = "mistral_exit"
    /\ messages' = <<>> /\ teardown' = TRUE
    /\ UNCHANGED <<parser, this_message, procVars, sem, shutdown, complete,
                   interval, world, accepted, told, intervals_set>>

(* mistral_exit(), the plug-in's last function, then return EXIT_SUCCESS.  *)
CallExit ==
    /\ cpc = "mistral_exit" /\ cpc' = "returned"
    /\ PluginCalled
    /\ MainOnly /\ UNCHANGED <<ppc, stdout, teardown>>

-----------------------------------------------------------------------------
(* Mistral closes the pipe (all that was in it has been read).             *)
MistralCloses ==
    /\ ~eof /\ eof' = TRUE
    /\ UNCHANGED <<cpc, parser, this_message, procVars, sem, messages, shutdown,
                   complete, interval, teardown, stdout, lines, accepted, told,
                   intervals_set>>

(* A thread mistral_startup() created asks for a shutdown, at any time     *)
(* until the process ends: nothing stops it before.                        *)
ThreadAsks ==
    /\ Fails("thread")
    /\ ppc \notin {"none", "killed"} /\ cpc \notin {"returned", "failed"}
    /\ ~shutdown /\ shutdown' = TRUE
    /\ UNCHANGED <<cpc, parser, this_message, procVars, sem, messages, complete,
                   interval, teardown, world, accepted, told, intervals_set>>

(* The process is gone.                                                    *)
Ended == cpc \in {"returned", "failed"}

Gone == Ended /\ UNCHANGED vars

Comm ==
    \/ EarlyReturn \/ StartThread \/ StartupRejected
    \/ FirstInput \/ NoFirstInput \/ TestShutdown \/ EndOfInput
    \/ ClaimList \/ ClaimListFails \/ LinkMessage \/ PostList \/ SetComplete
    \/ JoinThread \/ NotifyMistral \/ CleanUp \/ CallExit

Proc ==
    \/ ThreadStarts \/ ClaimToTake \/ ClaimToTakeFails \/ TakeMessage
    \/ ReleaseList \/ SleepOneSecond \/ ProcessMessage \/ CheckShutdown

Dies == ProcessCrashes \/ PostFails \/ ProcessExits

Inside == Comm \/ Proc \/ Dies \/ MistralCloses \/ ThreadAsks \/ Gone

Next == Inside \/ \E l \in Lines : ReadLine(l)

(* Mistral is under no obligation: neither ReadLine nor MistralCloses is   *)
(* fair.  The threads run when they can; the waits for the semaphore are   *)
(* strongly fair because neither thread holds it across a blocking call    *)
(* and the processing thread sleeps for a second whenever the list is      *)
(* empty.                                                                  *)
Fairness ==
    /\ WF_vars(Comm) /\ WF_vars(Proc) /\ WF_vars(ProcessExits)
    /\ SF_vars(ClaimList) /\ SF_vars(ClaimToTake)

Spec == Init /\ [][Next]_vars
FairSpec == Spec /\ Fairness

-----------------------------------------------------------------------------
(* Properties.                                                             *)

TypeOK ==
    /\ cpc \in {"main", "select", "while", "getline", "enqueue", "link", "post",
                "complete", "join", "notify", "cleanup", "mistral_exit",
                "returned", "exit", "failed"}
    /\ ppc \in {"none", "start", "loop", "take", "release", "sleep", "process",
                "check", "exited", "exit", "killed"}
    /\ supported_version \in BOOLEAN /\ in_data \in BOOLEAN
    /\ shutdown_message \in BOOLEAN /\ shutdown_seen \in BOOLEAN
    /\ shutdown \in BOOLEAN /\ complete \in BOOLEAN
    /\ teardown \in BOOLEAN /\ eof \in BOOLEAN
    /\ data_count \in Number /\ interval \in Number
    /\ this_message \in MessageType \cup {None}
    /\ message \in MessageType \cup {None}
    /\ ret \in {"SUCCESS", "FAILURE"}
    /\ sem \in {"free", "comm", "proc"}
    /\ messages \in Seq(MessageType)
    /\ stdout \in Seq({"USED_VERSION", "SHUTDOWN"})
    /\ lines \in Nat
    /\ accepted \in Seq(MessageType) /\ handled \in Seq(MessageType)
    /\ intervals_set \in Seq(Number) /\ intervals_told \in Seq(Number)

(* The message the processing thread has taken and not yet processed.      *)
InHand == IF ppc \in {"release", "process", "exit"} /\ message # None
          THEN <<message>> ELSE <<>>

(* Between the communication thread listing a message and the plug-in      *)
(* being called for it nothing is lost, repeated or reordered, whatever    *)
(* the interleaving of the two threads: what was processed, what is in     *)
(* hand and what is listed are together what was accepted (until the list  *)
(* is freed or the process is killed).                                     *)
NothingLost ==
    (~teardown /\ ppc # "killed") => handled \o InHand \o messages = accepted

(* What makes NothingLost and ListTornDownAlone hold whatever the threads do:*)
(* where one thread is bounds where the other can be and what is final,    *)
(* who holds the semaphore is who is between the wait and the post, and a  *)
(* thread has a message in its variable exactly where its code needs one.  *)
Placement ==
    /\ cpc = "main" => ppc = "none"
    /\ ppc = "killed" => cpc = "failed"
    /\ cpc \in {"notify", "cleanup", "mistral_exit", "returned"} =>
          ppc \in {"none", "exited"}
    /\ teardown => cpc \in {"mistral_exit", "returned"}
    /\ complete => cpc \in {"join", "notify", "cleanup", "mistral_exit",
                            "returned", "failed"}

Ownership ==
    /\ cpc \in {"link", "post"} => sem = "comm"
    /\ ppc \in {"take", "release"} => sem = "proc"
    /\ sem = "comm" => cpc \in {"link", "post", "exit", "failed"}
    /\ sem = "proc" => ppc \in {"take", "release", "exit", "killed"}

AtHand ==
    /\ cpc \in {"enqueue", "link", "post"} => this_message # None
    /\ ppc \in {"process", "check"} => message # None
    /\ ppc \in {"none", "start", "loop", "take", "sleep", "exited"} => message = None

ControlInv == Placement /\ Ownership /\ AtHand

(* main() throws listed messages away only after an error: when Mistral    *)
(* stops the plug-in or closes the pipe, or a line is fatal, all that was  *)
(* accepted before has been given to the plug-in.                          *)
DiscardOnlyOnError ==
    (cpc = "cleanup" /\ messages # <<>>) => shutdown \/ Fails("unblock")

(* The messages of some types before the i-th of s, and whether n is the   *)
(* number of the last block started before it, or 0 if there is none.      *)
Before(s, i, types) == {j \in 1 .. (i - 1) : s[j].message \in types}

LastBlockIs(s, i, n) ==
    LET starts == Before(s, i, {"DATA_START"})
    IN  \/ starts = {} /\ n = 0
        \/ \E j \in starts : s[j].block_num = n /\ \A k \in starts : k <= j

(* A block start that is not flagged continues the count of the start      *)
(* before it, from 1, and an end that is not flagged carries the number of *)
(* the start before it: what parse_message checks against data_count, over *)
(* the whole history.                                                      *)
UnflaggedStartsCount ==
    \A i \in DOMAIN accepted :
        (accepted[i].message = "DATA_START" /\ ~accepted[i].error) =>
            LastBlockIs(accepted, i, accepted[i].block_num - 1)

UnflaggedEndsMatch ==
    \A i \in DOMAIN accepted :
        (accepted[i].message = "DATA_END" /\ ~accepted[i].error) =>
            /\ LastBlockIs(accepted, i, accepted[i].block_num)
            /\ accepted[i].block_num # 0

UnflaggedInSequence == UnflaggedStartsCount /\ UnflaggedEndsMatch

(* Nothing but a shutdown reaches the plug-in before Mistral has been      *)
(* answered with the API version in use.                                   *)
AnsweredFirst ==
    (\E i \in DOMAIN accepted : accepted[i].message # "SHUTDOWN") =>
        \E i \in DOMAIN stdout : stdout[i] = "USED_VERSION"

(* A block is open before the i-th of s: it starts before it, and there is *)
(* no end since.                                                           *)
OpenBefore(s, i) ==
    \E j \in Before(s, i, {"DATA_START"}) :
        \A k \in Before(s, i, {"DATA_END"}) : k < j

(* The plug-in is given a log entry only inside a block, and an interval,  *)
(* a version or the start of a block only between blocks, even if starts   *)
(* or ends had to be given up on the way (an empty line may be anywhere, a *)
(* line that could not be copied is not given to the plug-in).             *)
MessagesInPlace ==
    \A i \in DOMAIN accepted :
        /\ (accepted[i].message = "DATA_LINE" /\ accepted[i].data \in Payload \ {Blank}) =>
              OpenBefore(accepted, i)
        /\ accepted[i].message \in {"INTERVAL", "SUP_VERSION", "DATA_START"} =>
              ~OpenBefore(accepted, i)

(* The places in what was sent to Mistral at which it was told of the end, *)
(* and whether the plug-in is past the point of no return.                 *)
Announced == {i \in DOMAIN stdout : stdout[i] = "SHUTDOWN"}

OnItsWayOut ==
    \/ cpc \in {"cleanup", "mistral_exit", "returned", "exit", "failed"}
    \/ ppc = "exit"

(* Mistral is told that the plug-in leaves when it does and not before.  A *)
(* plug-in that ends in order says so once, as the last thing it says, if  *)
(* Mistral did not ask for it, and never if it did, when nobody would read *)
(* it; one that ends in disorder says so unless it crashes or cannot.      *)
AnnouncedOnce ==
    /\ Announced # {} => OnItsWayOut
    /\ cpc \in {"cleanup", "mistral_exit", "returned"} =>
          \/ shutdown_message /\ Announced = {}
          \/ ~shutdown_message /\ Announced = {Len(stdout)}
          \/ Fails("send") /\ Announced = {}
    /\ (cpc \in {"exit", "failed"} \/ ppc = "exit") =>
          \/ Announced # {}
          \/ Fails("send") \/ Fails("sem_init") \/ Fails("strdup")

(* When main() takes the list apart, without the semaphore, and destroys   *)
(* the semaphore, neither is in anybody's use: the processing thread has   *)
(* ended (or never was).  NamesLast is about what else main() destroys.    *)
ListTornDownAlone ==
    (cpc = "cleanup" \/ teardown) => ppc \in {"none", "exited"} /\ sem = "free"

(* The plug-in has log entries it was given in a block that did not end    *)
(* (every plug-in that keeps entries sends them at the end of the block,   *)
(* and from mistral_exit() those that are left).                           *)
EntriesKept ==
    \E i \in DOMAIN handled :
        /\ handled[i].message = "DATA_LINE" /\ handled[i].data \in Payload \ {Blank}
        /\ \A j \in DOMAIN handled :
              j > i => handled[j].message \notin {"DATA_END", "SHUTDOWN"}

(* The call_type_names of an entry is a constant string, it is said: it is *)
(* still there when mistral_exit() sends the entries that are left.        *)
NamesLast == (cpc = "mistral_exit" /\ EntriesKept) => ~teardown

(* The interval a plug-in is told is never older than the message that     *)
(* made the framework tell it, although another thread overwrites it (the  *)
(* plug-in is shutting down if the lock around it could not be claimed).   *)
IntervalNotStale ==
    shutdown \/ \A k \in DOMAIN intervals_told :
        \E j \in DOMAIN intervals_set :
            j >= k /\ intervals_told[k] = intervals_set[j]

(* complete is a promise: nothing is listed once it is set.                *)
CompleteIsFinal == [][complete => accepted' = accepted]_vars

(* When Mistral closes the pipe, or sends a shutdown message, the process  *)
(* ends: neither thread waits for the other for ever.                      *)
EndsWhenTold == (eof \/ shutdown_message) ~> Ended
=============================================================================
