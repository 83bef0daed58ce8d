-------------------------- MODULE FluentbitOutput --------------------------
(***************************************************************************)
(* The Fluent Bit plug-in, output/mistral_fluentbit.  mistral_startup()    *)
(* starts a thread of its own (mistral_fluentbit_tcp.c) that connects to   *)
(* Fluent Bit, watches the connection, connects again when the other end   *)
(* closes it, and gives up after some attempts.  It shares with the        *)
(* processing thread a structure that holds the socket and the state of    *)
(* the connection, under a mutex; the processing thread copies both and    *)
(* writes each log entry to that descriptor after it released the mutex.   *)
(*                                                                         *)
(* The operating system is outside this code: a descriptor number is given *)
(* out again as soon as it is closed, the lowest first; getaddrinfo() and  *)
(* the error log use descriptors too; writing to a socket that is not      *)
(* connected either fails or raises SIGPIPE, which the plug-ins neither    *)
(* handle nor, in the processing thread, block.  The descriptor of the     *)
(* epoll set, held to the end, and the second and later addresses of a     *)
(* host are left out.                                                      *)
(***************************************************************************)
EXTENDS Naturals, Sequences, FiniteSets, FiniteSetsExt

CONSTANTS
    Descriptors,    \* descriptor numbers
    Sockets,        \* bound on the sockets opened: they are numbered from 1
    Retries,        \* MISTRAL_TCP_RECONNECT_TRYOUTS
    MaxEntries,     \* bound on the log entries received, numbered from 1
    ErrorLog,       \* an error log file was named on the command line
    Faults          \* what may fail

ASSUME FluentbitAssumption ==
    /\ Descriptors \subseteq Nat \ {0} /\ IsFiniteSet(Descriptors)
    /\ Cardinality(Descriptors) > 1
    /\ Sockets \in Nat /\ Retries \in Nat \ {0} /\ MaxEntries \in Nat
    /\ ErrorLog \in BOOLEAN
    /\ Faults \subseteq {"getaddrinfo", "socket", "epoll", "format"}

VARIABLES
    kpc,        \* where mistral_tcp_connection_thread is
    sockfd,     \* its socket
    tries,      \* iteration, in mistral_tcp_connect
    opened,     \* sockets opened so far
    watched,    \* the number its epoll events come with (ev.data.fd)
    ctx,        \* the shared structure: descriptor and state
    phase,      \* what the framework may still call
    ppc,        \* where the processing thread is
    copy,       \* the copy of ctx mistral_fluentbit_send made
    log_list,   \* entries received and not yet handled
    shutdown,   \* mistral_shutdown() was called
    files,      \* what each descriptor refers to
    peer,       \* each socket's other end
    handled     \* history: the entries taken off the list, and their fate

conn == <<kpc, sockfd, tries, opened, watched>>
proc == <<phase, ppc, copy, log_list, handled>>
vars == <<conn, ctx, proc, shutdown, files, peer>>

Free == [kind |-> "free", id |-> 0]
Log  == [kind |-> "log", id |-> 0]
Resolver == [kind |-> "resolver", id |-> 0]
Socket(n) == [kind |-> "socket", id |-> n]

Fails(f) == f \in Faults
Lowest == Min({d \in Descriptors : files[d] = Free})
Opens(file) == files' = [files EXCEPT ![Lowest] = file]
Closes(d) == files' = [files EXCEPT ![d] = Free]

(* mistral_err(), the first call of which opens the error log.             *)
MustOpenLog == ErrorLog /\ \A d \in Descriptors : files[d] # Log
Logged == IF MustOpenLog THEN [files EXCEPT ![Lowest] = Log] ELSE files

(* A descriptor is closed before the message is written, or after it.      *)
ClosedAndLogged ==
    LET closed == [files EXCEPT ![sockfd] = Free]
        lowest == Min({d \in Descriptors : closed[d] = Free})
    IN  files' = IF MustOpenLog THEN [closed EXCEPT ![lowest] = Log] ELSE closed

LoggedAndClosed == files' = [Logged EXCEPT ![sockfd] = Free]

Alive == phase \notin {"gone", "killed"}

Init ==
    /\ kpc = "resolve" /\ sockfd = 0 /\ tries = 0 /\ opened = 0
    /\ watched = 0
    /\ ctx = [fd |-> 0, state |-> "initialized"]
    /\ phase = "running" /\ ppc = "idle" /\ copy = ctx
    /\ log_list = <<>> /\ shutdown = FALSE
    /\ files = [d \in Descriptors |-> Free]
    /\ peer = [n \in 1 .. Sockets |-> "none"]
    /\ handled = <<>>

-----------------------------------------------------------------------------
(* mistral_tcp_connect().                                                  *)
ConnMoves(from, to) ==
    Alive /\ kpc = from /\ kpc' = to /\ UNCHANGED <<proc, shutdown, watched>>

Resolve ==
    /\ ConnMoves("resolve", "resolving") /\ Opens(Resolver)
    /\ sockfd' = Lowest /\ tries' = 0
    /\ UNCHANGED <<opened, ctx, peer>>

Resolved ==
    /\ ConnMoves("resolving", "socket") /\ Closes(sockfd)
    /\ UNCHANGED <<sockfd, tries, opened, ctx, peer>>

ResolveFails ==
    /\ Fails("getaddrinfo")
    /\ ConnMoves("resolving", "failed") /\ ClosedAndLogged
    /\ UNCHANGED <<sockfd, tries, opened, ctx, peer>>

(* Wrong: the socket is published before it is connected.                  *)
OpenSocketPublishes ==
    /\ opened < Sockets
    /\ ConnMoves("socket", "connect") /\ Opens(Socket(opened + 1))
    /\ sockfd' = Lowest /\ opened' = opened + 1
    /\ ctx' = [fd |-> sockfd', state |-> "connected"]
    /\ UNCHANGED <<tries, peer>>

OpenSocket ==
    /\ opened < Sockets
    /\ ConnMoves("socket", "connect") /\ Opens(Socket(opened + 1))
    /\ sockfd' = Lowest /\ opened' = opened + 1
    /\ UNCHANGED <<tries, ctx, peer>>

(* No socket: logged, and one of the attempts.                             *)
SocketFails ==
    /\ Fails("socket")
    /\ ConnMoves("socket", IF tries + 1 < Retries THEN "socket" ELSE "failed")
    /\ files' = Logged /\ tries' = tries + 1
    /\ UNCHANGED <<sockfd, opened, ctx, peer>>

(* The connection thread connects for the first time, or again.            *)
Connected ==
    /\ ConnMoves("connect", IF ctx.state = "initialized" THEN "publish" ELSE "add")
    /\ peer' = [peer EXCEPT ![opened] = "up"]
    /\ UNCHANGED <<sockfd, tries, opened, ctx, files>>

(* Wrong: one attempt too many.                                            *)
ConnectFailsOnceMore ==
    /\ IF tries < Retries THEN ConnMoves("connect", "socket") /\ Closes(sockfd)
                          ELSE ConnMoves("connect", "failed") /\ ClosedAndLogged
    /\ tries' = tries + 1
    /\ UNCHANGED <<sockfd, opened, ctx, peer>>

ConnectFails ==
    /\ IF tries + 1 < Retries
       THEN ConnMoves("connect", "socket") /\ Closes(sockfd)
       ELSE ConnMoves("connect", "failed") /\ ClosedAndLogged
    /\ tries' = tries + 1
    /\ UNCHANGED <<sockfd, opened, ctx, peer>>

-----------------------------------------------------------------------------
(* mistral_tcp_connection_thread().                                        *)

(* Wrong: the state of the structure is left as it was.                    *)
PublishSocketOnly ==
    /\ ConnMoves("publish", "epoll")
    /\ ctx' = [ctx EXCEPT !.fd = sockfd]
    /\ UNCHANGED <<sockfd, tries, opened, files, peer>>

Publish ==
    /\ ConnMoves("publish", "epoll")
    /\ ctx' = [fd |-> sockfd, state |-> "connected"]
    /\ UNCHANGED <<sockfd, tries, opened, files, peer>>

(* epoll_create(), epoll_ctl(): events of the socket carry its number.     *)
Watch ==
    /\ Alive /\ kpc = "epoll" /\ kpc' = "loop"
    /\ watched' = sockfd
    /\ UNCHANGED <<sockfd, tries, opened, ctx, proc, shutdown, files, peer>>

WatchFails ==
    /\ Fails("epoll")
    /\ \E from \in {"epoll", "loop", "add"} : ConnMoves(from, "failed")
    /\ LoggedAndClosed
    /\ UNCHANGED <<sockfd, tries, opened, ctx, peer>>

(* An event of the socket, unless it carries another number, and read()    *)
(* returned 0: the socket is taken out of the epoll set and closed.        *)
Disconnected ==
    /\ \/ ConnMoves("loop", "resolve")
       \/ Fails("epoll") /\ ConnMoves("loop", "failed")
    /\ watched = sockfd /\ peer[opened] = "down"
    /\ LoggedAndClosed
    /\ UNCHANGED <<sockfd, tries, opened, ctx, peer>>

(* The new socket is watched, with the number of the first, and published. *)
Republish ==
    /\ ConnMoves("add", "loop")
    /\ ctx' = [fd |-> sockfd, state |-> "connected"]
    /\ UNCHANGED <<sockfd, tries, opened, files, peer>>

Failed ==
    /\ ConnMoves("failed", "shutdown")
    /\ ctx' = [fd |-> 0, state |-> "failed"]
    /\ files' = Logged
    /\ UNCHANGED <<sockfd, tries, opened, peer>>

(* Wrong: the thread ends without a word.                                  *)
EndsSilently ==
    /\ ConnMoves("shutdown", "ended")
    /\ UNCHANGED <<sockfd, tries, opened, ctx, files, peer>>

(* mistral_shutdown(), from this thread.                                   *)
EndsWithShutdown ==
    /\ Alive /\ kpc = "shutdown" /\ kpc' = "ended"
    /\ shutdown' = TRUE
    /\ UNCHANGED <<sockfd, tries, opened, watched, ctx, proc, files, peer>>

-----------------------------------------------------------------------------
(* The plug-in functions, called by the processing thread.                 *)
ProcOnly == UNCHANGED <<conn, ctx, peer>>

At(pc) == Alive /\ ppc = pc

Received == Len(handled) + Len(log_list)

ReceivedLog ==
    /\ phase = "running" /\ ppc = "idle" /\ Received < MaxEntries
    /\ log_list' = Append(log_list, Received + 1)
    /\ ppc' = "check"
    /\ ProcOnly /\ UNCHANGED <<phase, copy, shutdown, files, handled>>

ReceivedDataEnd ==
    /\ phase = "running" /\ ppc = "idle" /\ ppc' = "entry"
    /\ ProcOnly /\ UNCHANGED <<phase, copy, log_list, shutdown, files, handled>>

ReceivedShutdown ==
    /\ phase = "running" /\ ppc = "idle"
    /\ phase' = "last"
    /\ ppc' = IF log_list # <<>> THEN "entry" ELSE "check"
    /\ ProcOnly /\ UNCHANGED <<copy, log_list, shutdown, files, handled>>

(* The framework tests the shutdown flag when a plug-in function returns.  *)
Check ==
    /\ At("check") /\ ppc' = "idle"
    /\ phase' = IF shutdown THEN "last" ELSE phase
    /\ ProcOnly /\ UNCHANGED <<copy, log_list, shutdown, files, handled>>

(* mistral_exit(), at the end of input or after the last message.          *)
Exit ==
    /\ phase \in {"running", "last"} /\ ppc = "idle"
    /\ IF log_list # <<>> THEN phase' = "exit" /\ ppc' = "entry"
                          ELSE phase' = "gone" /\ UNCHANGED ppc
    /\ ProcOnly /\ UNCHANGED <<copy, log_list, shutdown, files, handled>>

Returns ==
    /\ ppc' = "check"
    /\ phase' = IF phase = "exit" THEN "gone" ELSE phase

AllSent ==
    /\ At("entry") /\ log_list = <<>>
    /\ Returns
    /\ ProcOnly /\ UNCHANGED <<copy, log_list, shutdown, files, handled>>

(* No memory to format the entry, or no time for it.                       *)
FormatFails ==
    /\ At("entry") /\ log_list # <<>> /\ Fails("format")
    /\ Returns /\ shutdown' = TRUE /\ files' = Logged
    /\ ProcOnly /\ UNCHANGED <<copy, log_list, handled>>

(* The critical section of mistral_fluentbit_send().                       *)
CopyContext ==
    /\ At("entry") /\ log_list # <<>>
    /\ ppc' = "write" /\ copy' = ctx
    /\ ProcOnly /\ UNCHANGED <<phase, log_list, shutdown, files, handled>>

(* What becomes of an entry written by the copy made before.               *)
Target == IF copy.fd = 0 THEN Free ELSE files[copy.fd]

Fate ==
    IF copy.state # "connected"
    THEN IF copy.state = "initialized" THEN "early" ELSE "dropped"
    ELSE CASE Target.kind = "log" -> "logged"
           [] Target.kind = "resolver" -> "misplaced"
           [] Target.kind = "socket" /\ peer[Target.id] = "up" -> "delivered"
           [] OTHER -> "dropped"

(* write(), an error of which is logged; the caller does not look at the   *)
(* result and destroys the entry.                                          *)
Write ==
    /\ At("write") /\ ppc' = "entry"
    /\ files' = IF copy.state = "connected" /\ Target = Free THEN Logged ELSE files
    /\ handled' = Append(handled, [entry |-> Head(log_list), fate |-> Fate])
    /\ log_list' = Tail(log_list)
    /\ ProcOnly /\ UNCHANGED <<phase, copy, shutdown>>

(* write() to a socket that is not connected (any more): SIGPIPE.          *)
BrokenPipe ==
    /\ At("write") /\ copy.state = "connected"
    /\ Target.kind = "socket" /\ peer[Target.id] # "up"
    /\ phase' = "killed"
    /\ ProcOnly /\ UNCHANGED <<ppc, copy, log_list, shutdown, files, handled>>

-----------------------------------------------------------------------------
(* The other end closes the connection.                                    *)
PeerCloses ==
    /\ Alive
    /\ \E n \in 1 .. opened : peer[n] = "up" /\ peer' = [peer EXCEPT ![n] = "down"]
    /\ UNCHANGED <<conn, ctx, proc, shutdown, files>>

(* The framework calls mistral_err(), in any thread.                       *)
OpenErrorLog ==
    /\ Alive /\ MustOpenLog /\ Opens(Log)
    /\ UNCHANGED <<conn, ctx, proc, shutdown, peer>>

Ended == ~Alive /\ UNCHANGED vars

Connection ==
    \/ Resolve \/ Resolved \/ ResolveFails \/ OpenSocket \/ SocketFails
    \/ Connected \/ ConnectFails
    \/ Publish \/ Watch \/ WatchFails \/ Disconnected \/ Republish
    \/ Failed \/ EndsWithShutdown

Processing ==
    \/ ReceivedLog \/ ReceivedDataEnd \/ ReceivedShutdown \/ Check \/ Exit
    \/ AllSent \/ FormatFails \/ CopyContext \/ Write \/ BrokenPipe

Next == Connection \/ Processing \/ PeerCloses \/ OpenErrorLog \/ Ended

(* The thread ends in the end once it has failed: nothing blocks it.       *)
Spec == Init /\ [][Next]_vars /\ WF_vars(Connection)

-----------------------------------------------------------------------------
(* Properties.                                                             *)
TypeOK ==
    /\ kpc \in {"resolve", "resolving", "socket", "connect", "publish", "epoll",
                "loop", "add", "failed", "shutdown", "ended"}
    /\ sockfd \in Descriptors \cup {0} /\ opened \in 0 .. Sockets
    /\ watched \in Descriptors \cup {0} /\ tries \in 0 .. Retries
    /\ ctx \in [fd : Descriptors \cup {0},
                state : {"initialized", "connected", "failed"}]
    /\ phase \in {"running", "last", "exit", "gone", "killed"}
    /\ ppc \in {"idle", "check", "entry", "write"}
    /\ log_list \in Seq(1 .. MaxEntries)

(* No log entry ends up in the error log, although a descriptor that the   *)
(* connection thread has closed is free for the next file that is opened:  *)
(* by then the error log is open.                                          *)
ErrorLogIntact == \A i \in DOMAIN handled : handled[i].fate # "logged"

(* While the connection thread watches a connection it is the one the      *)
(* processing thread would write to, its descriptor refers to it, and so   *)
(* does the number its events carry, although that is the first            *)
(* connection's still (or a lost connection would not be noticed); once    *)
(* the thread has failed there is none.                                    *)
PublishedSocket ==
    /\ kpc \in {"epoll", "loop"} =>
          /\ ctx = [fd |-> sockfd, state |-> "connected"]
          /\ files[sockfd] = Socket(opened)
    /\ kpc = "loop" => watched = sockfd
    /\ kpc \in {"shutdown", "ended"} => ctx.fd = 0 /\ ctx.state = "failed"

(* An entry that was written and did not arrive was written after a        *)
(* connection ended or the thread gave up: until then nothing is lost but  *)
(* what was handled before the first connection was there.                 *)
LossExplained ==
    (\E i \in DOMAIN handled : handled[i].fate \in {"dropped", "misplaced"}) =>
        \/ \E n \in 1 .. opened : peer[n] = "down"
        \/ kpc \in {"failed", "shutdown", "ended"}

(* A connection that is given up makes the plug-in ask for a shutdown.     *)
FailureIsTold == (ctx.state = "failed") ~> (shutdown \/ ~Alive)

(* mistral_fluentbit_tcp.c, mistral_fluentbit_send: "This function sends   *)
(* data to the Fluent Bit server".                                         *)
SentToFluentBit == \A i \in DOMAIN handled : handled[i].fate # "misplaced"
=============================================================================
