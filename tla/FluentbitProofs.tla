-------------------------- MODULE FluentbitProofs --------------------------
(***************************************************************************)
(* Theorems about the Fluent Bit plug-in, for any number of descriptors,   *)
(* sockets, attempts and entries, whatever fails.  The argument is about   *)
(* numbers the two threads share with the operating system: who holds      *)
(* which descriptor, when the error log can still take one, and what is    *)
(* left of a copy of the structure made before the connection was lost.    *)
(***************************************************************************)
EXTENDS FluentbitOutput, FiniteSetTheorems, WellFoundedInduction, TLAPS

Files == {Free, Log, Resolver} \cup {Socket(n) : n \in 1 .. Sockets}
States == {"initialized", "connected", "failed"}
Contexts == [fd : Descriptors \cup {0}, state : States]
Fates == {"early", "dropped", "logged", "misplaced", "delivered"}
Handled == [entry : Nat, fate : Fates]

Types ==
    /\ TypeOK
    /\ files \in [Descriptors -> Files]
    /\ peer \in [1 .. Sockets -> {"none", "up", "down"}]
    /\ ctx \in Contexts /\ copy \in Contexts
    /\ handled \in Seq(Handled) /\ Received <= MaxEntries
    /\ ppc = "write" => log_list # <<>>
    /\ shutdown \in BOOLEAN

(* The connection thread has a descriptor open: one, and of its own.       *)
HasSocket == kpc \in {"connect", "publish", "epoll", "loop", "add"}
Holds == HasSocket \/ kpc = "resolving"

Table ==
    /\ kpc = "resolving" => sockfd \in Descriptors /\ files[sockfd] = Resolver
    /\ HasSocket => /\ sockfd \in Descriptors /\ files[sockfd] = Socket(opened)
                    /\ opened > 0
    /\ \A d \in Descriptors : files[d] \in {Free, Log} \/ (Holds /\ d = sockfd)
    /\ \A d, e \in Descriptors : files[d] = Log /\ files[e] = Log => d = e
    /\ (\E d \in Descriptors : files[d] = Log) => ErrorLog

Attempts ==
    /\ kpc \in {"resolving", "socket", "connect"} => tries < Retries
    /\ \A n \in 1 .. Sockets : n > opened => peer[n] = "none"
    /\ kpc = "connect" => peer[opened] = "none"
    /\ HasSocket /\ kpc # "connect" => peer[opened] # "none"

(* A socket has the lowest number there is but for the error log's, which  *)
(* stays where it is: one connected again has the number of the first.     *)
Below(n) == \A d \in Descriptors : d < n => files[d] = Log

Numbered ==
    /\ Holds => Below(sockfd)
    /\ kpc = "loop" => watched = sockfd /\ ctx.state = "connected"
    /\ kpc \in {"resolve", "resolving", "socket", "connect"} => ctx.state # "failed"
    /\ kpc = "add" => ctx.state = "connected"
    /\ kpc \in {"resolve", "resolving", "socket", "connect", "add"}
          /\ ctx.state = "connected" =>
          /\ watched \in Descriptors /\ Below(watched)
          /\ ~MustOpenLog /\ files[watched] # Log
          /\ Holds => sockfd = watched

(* A connection has been lost, or given up.                                *)
Excused ==
    \/ \E n \in 1 .. opened : peer[n] = "down"
    \/ kpc \in {"failed", "shutdown", "ended"}

(* What may be done with the content c of the shared structure: it is the  *)
(* connection being watched, or one lost at a time when the error log was  *)
(* already open, so that its number is never the log's.                    *)
Harmless(c) ==
    /\ c.state = "connected" =>
          /\ c.fd \in Descriptors /\ files[c.fd] # Log
          /\ \/ kpc \in {"epoll", "loop"} /\ c.fd = sockfd
             \/ ~MustOpenLog /\ Excused
    /\ c.state = "failed" => Excused

FluentInv ==
    /\ Types /\ Table /\ Attempts /\ Numbered
    /\ Harmless(ctx) /\ (ppc = "write" => Harmless(copy))
    /\ PublishedSocket /\ ErrorLogIntact /\ LossExplained

-----------------------------------------------------------------------------
LEMMA Numbers ==
    /\ Descriptors \subseteq Nat \ {0} /\ IsFiniteSet(Descriptors)
    /\ Sockets \in Nat /\ Retries \in Nat \ {0} /\ MaxEntries \in Nat
    /\ ErrorLog \in BOOLEAN
BY FluentbitAssumption

LEMMA FileFacts ==
    /\ Free # Log /\ Free # Resolver /\ Log # Resolver
    /\ \A n : Socket(n) # Free /\ Socket(n) # Log /\ Socket(n) # Resolver
    /\ \A n : Socket(n).kind = "socket" /\ Socket(n).id = n
    /\ Free.kind = "free" /\ Log.kind = "log" /\ Resolver.kind = "resolver"
BY DEF Free, Log, Resolver, Socket

LEMMA TwoDescriptors == \E d, e \in Descriptors : d # e
<1>1. SUFFICES ASSUME \A d, e \in Descriptors : d = e PROVE FALSE
  OBVIOUS
<1>2. Cardinality(Descriptors) # 0 /\ Cardinality(Descriptors) # 1
  <2>1. Cardinality(Descriptors) \in Nat
    BY Numbers, FS_CardinalityType
  <2> QED BY <2>1, FluentbitAssumption
<1>3. Descriptors # {}
  BY <1>2, FS_EmptySet
<1>4. PICK d \in Descriptors : TRUE
  BY <1>3
<1>5. Descriptors = {d}
  BY <1>1, <1>4
<1> QED
  BY <1>2, <1>5, FS_Singleton

LEMMA MinIsIn ==
    ASSUME NEW S, S \subseteq Nat, S # {}
    PROVE  Min(S) \in S /\ \A b \in S : Min(S) <= b
<1>1. PICK a \in S : \A b \in S : <<b, a>> \notin OpToRel(<, Nat)
  BY WFMin, NatLessThanWellFounded, Zenon
<1>2. \A b \in S : a <= b
  <2> SUFFICES ASSUME NEW b \in S, b < a PROVE FALSE
    OBVIOUS
  <2>1. <<b, a>> \in Nat \X Nat /\ <<b, a>>[1] < <<b, a>>[2]
    OBVIOUS
  <2>2. <<b, a>> \in OpToRel(<, Nat)
    BY <2>1, Zenon DEF OpToRel
  <2> QED BY <1>1, <2>2, Zenon
<1> QED
  BY <1>1, <1>2 DEF Min

(* There is a number left for a file when the thread has none open or the  *)
(* error log is not.                                                       *)
LEMMA LowestIsFree ==
    ASSUME Types, Table, ~Holds \/ MustOpenLog
    PROVE  /\ Lowest \in Descriptors /\ files[Lowest] = Free
           /\ \A d \in Descriptors : files[d] = Free => Lowest <= d
<1> DEFINE S == {d \in Descriptors : files[d] = Free}
<1>1. S \subseteq Nat
  BY Numbers
<1>2. PICK c \in Descriptors, e \in Descriptors : c # e
  BY TwoDescriptors
<1>3. S # {}
  BY <1>2 DEF Table, MustOpenLog
<1>4. Min(S) \in S /\ \A x \in S : Min(S) <= x
  <2> HIDE DEF S
  <2> QED BY <1>1, <1>3, MinIsIn
<1> QED
  BY <1>4 DEF Lowest

(* The three ways to close and to log.                                     *)
LEMMA LoggedIs ==
    ASSUME Types, Table
    PROVE  \/ ~MustOpenLog /\ Logged = files
           \/ /\ MustOpenLog /\ ErrorLog
              /\ \E l \in Descriptors :
                    files[l] = Free /\ Logged = [files EXCEPT ![l] = Log]
BY LowestIsFree DEF Logged, MustOpenLog

LEMMA LoggedAndClosedIs ==
    ASSUME Types, Table, Holds, LoggedAndClosed
    PROVE  /\ sockfd \in Descriptors /\ files[sockfd] \notin {Free, Log}
           /\ \/ ~MustOpenLog /\ files' = [files EXCEPT ![sockfd] = Free]
              \/ /\ MustOpenLog /\ ErrorLog
                 /\ \E l \in Descriptors \ {sockfd} :
                       /\ files[l] = Free
                       /\ files' = [[files EXCEPT ![l] = Log] EXCEPT ![sockfd] = Free]
<1>1. sockfd \in Descriptors /\ files[sockfd] \notin {Free, Log}
  BY FileFacts DEF Table, Holds
<1> QED BY <1>1, LoggedIs DEF LoggedAndClosed

LEMMA ClosedAndLoggedIs ==
    ASSUME Types, Table, Holds, ClosedAndLogged
    PROVE  /\ sockfd \in Descriptors /\ files[sockfd] \notin {Free, Log}
           /\ \/ ~MustOpenLog /\ files' = [files EXCEPT ![sockfd] = Free]
              \/ /\ MustOpenLog /\ ErrorLog
                 /\ \E l \in Descriptors :
                       /\ files[l] = Free \/ l = sockfd
                       /\ files' = [[files EXCEPT ![sockfd] = Free] EXCEPT ![l] = Log]
<1> DEFINE closed == [files EXCEPT ![sockfd] = Free]
           S == {d \in Descriptors : closed[d] = Free}
<1>1. sockfd \in Descriptors /\ files[sockfd] \notin {Free, Log}
  BY FileFacts DEF Table, Holds
<1>2. S \subseteq Nat /\ sockfd \in S
  BY <1>1, Numbers DEF Types
<1>3. Min(S) \in S
  <2> HIDE DEF S
  <2> QED BY <1>2, MinIsIn
<1>4. Min(S) \in Descriptors /\ (files[Min(S)] = Free \/ Min(S) = sockfd)
  BY <1>3 DEF Types
<1>5. files' = IF MustOpenLog THEN [closed EXCEPT ![Min(S)] = Log] ELSE closed
  BY DEF ClosedAndLogged
<1> HIDE DEF S
<1> QED BY <1>1, <1>4, <1>5 DEF MustOpenLog

-----------------------------------------------------------------------------
(* What a step may do to the table of files: the error log keeps its       *)
(* number, and takes one only if it had none.                              *)
FileStep ==
    /\ files' \in [Descriptors -> Files]
    /\ \A d \in Descriptors : files[d] = Log => files'[d] = Log
    /\ \A d \in Descriptors : files'[d] = Log => files[d] = Log \/ MustOpenLog

LEMMA FreeIsAFile == Free \in Files /\ Log \in Files /\ Resolver \in Files
BY DEF Files

LEMMA OpensIs ==
    ASSUME Types, Table, ~Holds \/ MustOpenLog, NEW f \in Files, Opens(f)
    PROVE  /\ Lowest \in Descriptors /\ files[Lowest] = Free
           /\ files' = [files EXCEPT ![Lowest] = f]
BY LowestIsFree DEF Opens

(* Steps that leave the descriptor of the connection thread as it is: the  *)
(* error log may be opened.                                                *)
LEMMA LoggedTable ==
    ASSUME Types, Table, files' \in {files, Logged}, UNCHANGED <<sockfd, opened>>,
           Holds <=> Holds', HasSocket <=> HasSocket',
           kpc' = "resolving" => kpc = "resolving"
    PROVE  Table' /\ FileStep
<1>1. \/ files' = files
      \/ /\ MustOpenLog /\ ErrorLog
         /\ \E l \in Descriptors : files[l] = Free /\ files' = [files EXCEPT ![l] = Log]
  BY LoggedIs
<1>2. CASE files' = files
  BY <1>2 DEF Table, FileStep, Types
<1>3. CASE /\ MustOpenLog /\ ErrorLog
           /\ \E l \in Descriptors : files[l] = Free /\ files' = [files EXCEPT ![l] = Log]
  <2>1. PICK l \in Descriptors : files[l] = Free /\ files' = [files EXCEPT ![l] = Log]
    BY <1>3
  <2>2. /\ files' \in [Descriptors -> Files] /\ files'[l] = Log
        /\ \A d \in Descriptors : d # l => files'[d] = files[d]
        /\ \A d \in Descriptors : files[d] # Log
        /\ \A d \in Descriptors : files'[d] = Log <=> d = l
    BY <1>3, <2>1, FreeIsAFile DEF Types, MustOpenLog
  <2>3. Holds => sockfd # l
    BY <2>1, FileFacts DEF Table, Holds
  <2>4. FileStep
    BY <1>3, <2>2 DEF FileStep
  <2>5. Table'
    BY <1>3, <2>2, <2>3 DEF Table, Holds
  <2> QED BY <2>4, <2>5
<1> QED
  BY <1>1, <1>2, <1>3

(* Steps that close the descriptor of the connection thread.               *)
LEMMA ClosedTable ==
    ASSUME Types, Table, Holds, ~Holds', LoggedAndClosed \/ ClosedAndLogged \/ Closes(sockfd)
    PROVE  /\ Table' /\ FileStep
           /\ LoggedAndClosed => files'[sockfd] # Log /\ ~MustOpenLog'
<1>1. sockfd \in Descriptors /\ files[sockfd] \notin {Free, Log}
  BY FileFacts DEF Table, Holds
<1>2. ASSUME files' = [files EXCEPT ![sockfd] = Free]
      PROVE  Table' /\ FileStep
  <2>1. /\ files' \in [Descriptors -> Files]
        /\ \A d \in Descriptors : files'[d] = Log <=> files[d] = Log
        /\ \A d \in Descriptors : files'[d] \in {Free, Log}
    BY <1>1, <1>2, FileFacts, FreeIsAFile DEF Types, Table
  <2> QED BY <2>1 DEF Table, FileStep, Holds
<1>3. ASSUME MustOpenLog, ErrorLog, NEW l \in Descriptors, files'[l] = Log,
             files' \in [Descriptors -> Files],
             \A d \in Descriptors : d \notin {l, sockfd} => files'[d] = files[d],
             sockfd # l => files'[sockfd] = Free
      PROVE  Table' /\ FileStep /\ (sockfd # l => files'[sockfd] # Log)
  <2>1. /\ \A d \in Descriptors : files'[d] = Log <=> d = l
        /\ \A d \in Descriptors : files'[d] \in {Free, Log}
    BY <1>1, <1>3, FileFacts DEF MustOpenLog, Table
  <2> QED BY <1>3, <2>1, FileFacts DEF Table, FileStep, Holds, MustOpenLog
<1>4. CASE LoggedAndClosed
  <2>1. CASE ~MustOpenLog /\ files' = [files EXCEPT ![sockfd] = Free]
    <3>1. files'[sockfd] # Log /\ ~MustOpenLog'
      BY <1>1, <2>1, FileFacts DEF MustOpenLog, Types
    <3> QED BY <1>2, <2>1, <3>1
  <2>2. ASSUME MustOpenLog, ErrorLog, NEW l \in Descriptors \ {sockfd},
               files' = [[files EXCEPT ![l] = Log] EXCEPT ![sockfd] = Free]
        PROVE  Table' /\ FileStep /\ files'[sockfd] # Log /\ ~MustOpenLog'
    <3>1. /\ files' \in [Descriptors -> Files] /\ files'[l] = Log
          /\ files'[sockfd] = Free
          /\ \A d \in Descriptors : d \notin {l, sockfd} => files'[d] = files[d]
      BY <1>1, <2>2, FreeIsAFile DEF Types
    <3> QED BY <1>3, <2>2, <3>1 DEF MustOpenLog
  <2> QED BY <1>4, <2>1, <2>2, LoggedAndClosedIs
<1>5. CASE ClosedAndLogged
  <2>1. ASSUME MustOpenLog, ErrorLog, NEW l \in Descriptors,
               files' = [[files EXCEPT ![sockfd] = Free] EXCEPT ![l] = Log]
        PROVE  Table' /\ FileStep
    <3>1. /\ files' \in [Descriptors -> Files] /\ files'[l] = Log
          /\ sockfd # l => files'[sockfd] = Free
          /\ \A d \in Descriptors : d \notin {l, sockfd} => files'[d] = files[d]
      BY <1>1, <2>1, FreeIsAFile DEF Types
    <3> QED BY <1>3, <2>1, <3>1
  <2>2. Table' /\ FileStep
    BY <1>2, <1>5, <2>1, ClosedAndLoggedIs
  <2>3. LoggedAndClosed => files'[sockfd] # Log /\ ~MustOpenLog'
    BY <1>4
  <2> QED BY <2>2, <2>3
<1>6. CASE Closes(sockfd)
  BY <1>2, <1>4, <1>6 DEF Closes
<1> QED
  BY <1>4, <1>5, <1>6

LEMMA OpenedTable ==
    ASSUME Types, Table, ~Holds, NEW f \in Files, f \notin {Free, Log}, Opens(f),
           sockfd' = Lowest, Holds',
           kpc' = "resolving" => f = Resolver,
           HasSocket' => f = Socket(opened') /\ opened' > 0
    PROVE  Table' /\ FileStep
<1>1. /\ Lowest \in Descriptors /\ files[Lowest] = Free
      /\ files' = [files EXCEPT ![Lowest] = f]
  BY OpensIs
<1>2. /\ files' \in [Descriptors -> Files]
      /\ files'[sockfd'] = f /\ sockfd' \in Descriptors
      /\ \A d \in Descriptors : d # sockfd' => files'[d] = files[d]
      /\ \A d \in Descriptors : files'[d] = Log <=> files[d] = Log
  BY <1>1, FileFacts DEF Types
<1>3. FileStep
  BY <1>2 DEF FileStep
<1>4. Table'
  BY <1>2 DEF Table
<1> QED
  BY <1>3, <1>4

-----------------------------------------------------------------------------
(* The steps of the processing thread and of the environment leave the     *)
(* connection thread alone.                                                *)
Elsewhere == Processing \/ PeerCloses \/ OpenErrorLog \/ Ended \/ UNCHANGED vars

LEMMA ElsewhereKeeps ==
    ASSUME Elsewhere
    PROVE  /\ UNCHANGED <<conn, ctx>>
           /\ files' \in {files, Logged}
<1>1. CASE Processing
  BY <1>1 DEF Processing, ReceivedLog, ReceivedDataEnd, ReceivedShutdown, Check, Exit,
     AllSent, FormatFails, CopyContext, Write, BrokenPipe, At, ProcOnly
<1>2. CASE PeerCloses \/ Ended \/ UNCHANGED vars
  BY <1>2 DEF PeerCloses, Ended, vars
<1>3. CASE OpenErrorLog
  BY <1>3 DEF OpenErrorLog, Opens, Logged
<1> QED
  BY <1>1, <1>2, <1>3 DEF Elsewhere

LEMMA TableStep ==
    ASSUME Types, Table, [Next]_vars
    PROVE  Table' /\ FileStep
<1> USE DEF ConnMoves, Holds, HasSocket
<1>1. CASE Resolve
  BY <1>1, OpenedTable, FreeIsAFile, FileFacts DEF Resolve
<1>2. CASE Resolved
  BY <1>2, ClosedTable DEF Resolved
<1>3. CASE ResolveFails
  BY <1>3, ClosedTable DEF ResolveFails
<1>4. CASE OpenSocket
  <2>1. opened' \in 1 .. Sockets /\ Socket(opened') \in Files
    BY <1>4, Numbers DEF OpenSocket, Types, TypeOK, Files
  <2>2. Socket(opened') \notin {Free, Log} /\ Opens(Socket(opened'))
    BY <1>4, FileFacts DEF OpenSocket
  <2>3. sockfd' = Lowest /\ ~Holds /\ Holds' /\ kpc' # "resolving" /\ opened' > 0
    BY <1>4, <2>1, Numbers DEF OpenSocket
  <2> QED BY <2>1, <2>2, <2>3, OpenedTable
<1>5. CASE Connected \/ Publish \/ Watch \/ Republish
  BY <1>5, LoggedTable DEF Connected, Publish, Watch, Republish
<1>6. CASE ConnectFails \/ SocketFails
  BY <1>6, ClosedTable, LoggedTable DEF ConnectFails, SocketFails
<1>7. CASE WatchFails
  BY <1>7, ClosedTable DEF WatchFails
<1>8. CASE Disconnected
  BY <1>8, ClosedTable DEF Disconnected
<1>9. CASE Failed
  BY <1>9, LoggedTable DEF Failed
<1>10. CASE EndsWithShutdown
  BY <1>10, LoggedTable DEF EndsWithShutdown
<1>11. CASE Elsewhere
  BY <1>11, ElsewhereKeeps, LoggedTable DEF conn
<1> QED
  BY <1>1, <1>2, <1>3, <1>4, <1>5, <1>6, <1>7, <1>8, <1>9, <1>10, <1>11
  DEF Next, Connection, Elsewhere

LEMMA AttemptsStep ==
    ASSUME Types, Table, Attempts, [Next]_vars
    PROVE  Attempts'
<1> USE Numbers DEF ConnMoves, HasSocket, Types, TypeOK, Attempts
<1>1. CASE Resolve
  BY <1>1 DEF Resolve
<1>2. CASE Resolved
  BY <1>2 DEF Resolved
<1>3. CASE ResolveFails
  BY <1>3 DEF ResolveFails
<1>4. CASE OpenSocket
  <2>1. /\ kpc' = "connect" /\ opened < Sockets /\ opened' = opened + 1
        /\ kpc = "socket" /\ UNCHANGED <<tries, peer>>
    BY <1>4 DEF OpenSocket
  <2> QED BY <2>1
<1>5. CASE Connected
  <2>1. /\ kpc = "connect" /\ kpc' \in {"publish", "add"} /\ opened' = opened
        /\ peer' = [peer EXCEPT ![opened] = "up"] /\ tries' = tries
    BY <1>5 DEF Connected
  <2>2. opened \in 1 .. Sockets
    BY <2>1 DEF Table
  <2> QED BY <2>1, <2>2
<1>6. CASE Publish \/ Watch \/ Republish
  BY <1>6 DEF Publish, Watch, Republish
<1>7. CASE ConnectFails \/ SocketFails
  BY <1>7 DEF ConnectFails, SocketFails
<1>8. CASE WatchFails \/ Disconnected
  BY <1>8 DEF WatchFails, Disconnected
<1>9. CASE Failed \/ EndsWithShutdown
  BY <1>9 DEF Failed, EndsWithShutdown
<1>10. CASE PeerCloses
  BY <1>10 DEF PeerCloses, conn
<1>11. CASE Processing \/ OpenErrorLog \/ Ended \/ UNCHANGED vars
  <2>1. UNCHANGED <<conn, peer>>
    BY <1>11 DEF Processing, ReceivedLog, ReceivedDataEnd, ReceivedShutdown, Check, Exit,
       AllSent, FormatFails, CopyContext, Write, BrokenPipe, At, ProcOnly, OpenErrorLog,
       Ended, vars
  <2> QED BY <2>1 DEF conn
<1> QED
  BY <1>1, <1>2, <1>3, <1>4, <1>5, <1>6, <1>7, <1>8, <1>9, <1>10, <1>11
  DEF Next, Connection

(* Losing a connection, or giving up, is not undone.                       *)
LEMMA ExcusedStays ==
    ASSUME Types, Table, Attempts, [Next]_vars, Excused
    PROVE  Excused'
<1> USE Numbers DEF ConnMoves, HasSocket, Types, TypeOK, Excused
<1>1. CASE Resolve
  BY <1>1 DEF Resolve
<1>2. CASE Resolved
  BY <1>2 DEF Resolved
<1>3. CASE ResolveFails
  BY <1>3 DEF ResolveFails
<1>4. CASE OpenSocket
  BY <1>4 DEF OpenSocket
<1>5. CASE Connected
  BY <1>5 DEF Connected, Attempts
<1>6. CASE Publish \/ Watch \/ Republish
  BY <1>6 DEF Publish, Watch, Republish
<1>7. CASE ConnectFails \/ SocketFails
  BY <1>7 DEF ConnectFails, SocketFails
<1>8. CASE WatchFails \/ Disconnected
  BY <1>8 DEF WatchFails, Disconnected
<1>9. CASE Failed \/ EndsWithShutdown
  BY <1>9 DEF Failed, EndsWithShutdown
<1>10. CASE PeerCloses
  BY <1>10 DEF PeerCloses, conn
<1>11. CASE Processing \/ OpenErrorLog \/ Ended \/ UNCHANGED vars
  <2>1. UNCHANGED <<conn, peer>>
    BY <1>11 DEF Processing, ReceivedLog, ReceivedDataEnd, ReceivedShutdown, Check, Exit,
       AllSent, FormatFails, CopyContext, Write, BrokenPipe, At, ProcOnly, OpenErrorLog,
       Ended, vars
  <2> QED BY <2>1 DEF conn
<1> QED
  BY <1>1, <1>2, <1>3, <1>4, <1>5, <1>6, <1>7, <1>8, <1>9, <1>10, <1>11
  DEF Next, Connection

-----------------------------------------------------------------------------
ConnTypes ==
    /\ kpc \in {"resolve", "resolving", "socket", "connect", "publish", "epoll",
                "loop", "add", "failed", "shutdown", "ended"}
    /\ sockfd \in Descriptors \cup {0} /\ opened \in 0 .. Sockets
    /\ watched \in Descriptors \cup {0} /\ tries \in 0 .. Retries /\ ctx \in Contexts
    /\ peer \in [1 .. Sockets -> {"none", "up", "down"}]

ProcTypes ==
    /\ phase \in {"running", "last", "exit", "gone", "killed"}
    /\ ppc \in {"idle", "check", "entry", "write"}
    /\ copy \in Contexts
    /\ log_list \in Seq(1 .. MaxEntries)
    /\ handled \in Seq(Handled) /\ Received <= MaxEntries
    /\ ppc = "write" => log_list # <<>>

LEMMA TypesAre ==
    Types <=> /\ ConnTypes /\ ProcTypes /\ files \in [Descriptors -> Files]
              /\ shutdown \in BOOLEAN
BY DEF Types, TypeOK, ConnTypes, ProcTypes, Contexts, States

LEMMA ConnTypesStep ==
    ASSUME Types, Table, Attempts, [Next]_vars
    PROVE  ConnTypes'
<1> USE TypesAre, Numbers DEF ConnTypes, ConnMoves, Contexts, States
<1>1. CASE Resolve
  <2>1. Lowest \in Descriptors
    BY <1>1, LowestIsFree DEF Resolve, Holds, HasSocket
  <2> QED BY <1>1, <2>1 DEF Resolve
<1>2. CASE Resolved \/ ResolveFails
  BY <1>2 DEF Resolved, ResolveFails
<1>3. CASE OpenSocket
  <2>1. Lowest \in Descriptors
    BY <1>3, LowestIsFree DEF OpenSocket, Holds, HasSocket
  <2> QED BY <1>3, <2>1 DEF OpenSocket
<1>4. CASE Connected
  BY <1>4 DEF Connected
<1>5. CASE Publish \/ Watch \/ Republish
  BY <1>5 DEF Publish, Watch, Republish
<1>6. CASE ConnectFails \/ SocketFails
  BY <1>6 DEF ConnectFails, SocketFails, Attempts
<1>7. CASE WatchFails \/ Disconnected
  BY <1>7 DEF WatchFails, Disconnected
<1>8. CASE Failed \/ EndsWithShutdown
  BY <1>8 DEF Failed, EndsWithShutdown
<1>9. CASE PeerCloses
  BY <1>9 DEF PeerCloses, conn
<1>10. CASE Processing \/ OpenErrorLog \/ Ended \/ UNCHANGED vars
  <2>1. UNCHANGED <<conn, ctx, peer>>
    BY <1>10 DEF Processing, ReceivedLog, ReceivedDataEnd, ReceivedShutdown, Check, Exit,
       AllSent, FormatFails, CopyContext, Write, BrokenPipe, At, ProcOnly, OpenErrorLog,
       Ended, vars
  <2> QED BY <2>1 DEF conn
<1> QED
  BY <1>1, <1>2, <1>3, <1>4, <1>5, <1>6, <1>7, <1>8, <1>9, <1>10 DEF Next, Connection

LEMMA ProcTypesStep ==
    ASSUME Types, [Next]_vars
    PROVE  ProcTypes' /\ shutdown' \in BOOLEAN
<1> USE Numbers DEF ProcTypes
<1>0. ProcTypes /\ shutdown \in BOOLEAN /\ ctx \in Contexts
  BY TypesAre DEF Types
<1>1. CASE ReceivedLog
  <2>1. /\ Received + 1 \in 1 .. MaxEntries
        /\ Len(handled) \in Nat /\ Len(log_list) \in Nat
    BY <1>0, <1>1 DEF ReceivedLog, Received
  <2>2. /\ log_list' \in Seq(1 .. MaxEntries)
        /\ Len(log_list') = Len(log_list) + 1
    BY <1>0, <1>1, <2>1 DEF ReceivedLog
  <2>3. Received' <= MaxEntries
    BY <1>1, <2>1, <2>2 DEF ReceivedLog, Received
  <2> QED BY <1>0, <1>1, <2>2, <2>3 DEF ReceivedLog
<1>2. CASE ReceivedDataEnd \/ ReceivedShutdown \/ Check \/ Exit \/ AllSent
  BY <1>0, <1>2 DEF ReceivedDataEnd, ReceivedShutdown, Check, Exit, AllSent, Returns, Received
<1>3. CASE FormatFails \/ CopyContext \/ BrokenPipe
  BY <1>0, <1>3 DEF FormatFails, CopyContext, BrokenPipe, Returns, Received
<1>4. CASE Write
  <2>1. /\ log_list # <<>> /\ log_list' = Tail(log_list) /\ ppc' = "entry"
        /\ handled' = Append(handled, [entry |-> Head(log_list), fate |-> Fate])
        /\ UNCHANGED <<phase, copy, shutdown>>
    BY <1>0, <1>4 DEF Write, At
  <2>2. /\ Head(log_list) \in 1 .. MaxEntries /\ log_list' \in Seq(1 .. MaxEntries)
        /\ Len(log_list') = Len(log_list) - 1 /\ Len(log_list) \in Nat
    <3>1. Len(log_list) \in Nat /\ Len(log_list) > 0
      BY <1>0, <2>1
    <3>2. Head(log_list) \in 1 .. MaxEntries
      BY <1>0, <2>1, <3>1
    <3> QED BY <1>0, <2>1, <3>1, <3>2
  <2>3. Fate \in Fates
    BY DEF Fate, Fates
  <2>4. [entry |-> Head(log_list), fate |-> Fate] \in Handled
    BY <2>2, <2>3 DEF Handled
  <2>5. /\ handled' \in Seq(Handled) /\ Len(handled') = Len(handled) + 1
        /\ Len(handled) \in Nat
    BY <1>0, <2>1, <2>4
  <2>6. Received' <= MaxEntries
    BY <1>0, <2>2, <2>5 DEF Received
  <2> QED BY <1>0, <2>1, <2>2, <2>5, <2>6
<1>5. CASE Connection
  <2>1. UNCHANGED proc /\ shutdown' \in {shutdown, TRUE}
    BY <1>5 DEF Connection, ConnMoves, Resolve, Resolved, ResolveFails, OpenSocket,
       Connected, ConnectFails, SocketFails, Publish, Watch, WatchFails, Disconnected,
       Republish, Failed, EndsWithShutdown
  <2> QED BY <1>0, <2>1 DEF proc, Received
<1>6. CASE PeerCloses \/ OpenErrorLog \/ Ended \/ UNCHANGED vars
  BY <1>0, <1>6 DEF PeerCloses, OpenErrorLog, Ended, vars, proc, Received
<1> QED
  BY <1>1, <1>2, <1>3, <1>4, <1>5, <1>6 DEF Next, Processing

-----------------------------------------------------------------------------
(* What was harmless stays so, however old the copy.                       *)
LEMMA HarmlessStep ==
    ASSUME Types, Table, Attempts, NEW c \in Contexts, Harmless(c), [Next]_vars
    PROVE  Harmless(c)'
<1> DEFINE Watched == kpc \in {"epoll", "loop"}
<1>1. Table' /\ FileStep /\ (Excused => Excused')
  BY TableStep, ExcusedStays
<1>2. ~MustOpenLog => ~MustOpenLog'
  BY <1>1 DEF FileStep, MustOpenLog
<1>3. c.state = "failed" => Excused'
  BY <1>1 DEF Harmless
<1>4. SUFFICES ASSUME c.state = "connected"
               PROVE  /\ files'[c.fd] # Log
                      /\ \/ kpc' \in {"epoll", "loop"} /\ c.fd = sockfd'
                         \/ ~MustOpenLog' /\ Excused'
  BY <1>3 DEF Harmless
<1>5. /\ c.fd \in Descriptors /\ files[c.fd] # Log
      /\ \/ Watched /\ c.fd = sockfd
         \/ ~MustOpenLog /\ Excused
  BY <1>4 DEF Harmless
<1>6. CASE ~MustOpenLog /\ Excused
  BY <1>1, <1>2, <1>5, <1>6 DEF FileStep
<1>7. CASE Watched /\ c.fd = sockfd
  <2>1. CASE WatchFails \/ Disconnected
    <3>1. LoggedAndClosed /\ Holds /\ ~Holds'
      BY <2>1 DEF WatchFails, Disconnected, ConnMoves, Holds, HasSocket
    <3>2. files'[sockfd] # Log /\ ~MustOpenLog'
      BY <3>1, ClosedTable
    <3>3. Excused'
      <4>1. CASE WatchFails
        BY <4>1 DEF WatchFails, ConnMoves, Excused
      <4>2. CASE Disconnected
        <5>1. opened > 0 /\ opened \in 0 .. Sockets /\ peer'[opened'] = "down"
              /\ opened' = opened
          BY <1>7, <4>2 DEF Disconnected, Table, HasSocket, Types, TypeOK
        <5>2. opened' \in 1 .. opened'
          BY <5>1, Numbers
        <5> QED BY <5>1, <5>2 DEF Excused
      <4> QED BY <2>1, <4>1, <4>2
    <3> QED BY <1>7, <3>2, <3>3
  <2>2. CASE Watch \/ Elsewhere
    <3>1. kpc' \in {"epoll", "loop"} /\ sockfd' = sockfd
      <4>1. CASE Watch
        BY <4>1 DEF Watch, ConnMoves
      <4>2. CASE Elsewhere
        BY <1>7, <4>2, ElsewhereKeeps DEF conn
      <4> QED BY <2>2, <4>1, <4>2
    <3>2. files'[sockfd'] # Log
      BY <1>1, <3>1, FileFacts DEF Table, HasSocket
    <3> QED BY <1>7, <3>1, <3>2
  <2>3. CASE Connection /\ ~(WatchFails \/ Disconnected \/ Watch)
    BY <1>7, <2>3 DEF Connection, ConnMoves, Resolve, Resolved, ResolveFails, OpenSocket,
       Connected, ConnectFails, SocketFails, Publish, Republish, Failed, EndsWithShutdown
  <2> QED BY <2>1, <2>2, <2>3 DEF Next, Elsewhere
<1> QED
  BY <1>5, <1>6, <1>7

LEMMA ContextStep ==
    ASSUME Types, Table, Attempts, Harmless(ctx), [Next]_vars
    PROVE  Harmless(ctx)'
<1>1. PICK c \in Contexts : c = ctx
  BY DEF Types
<1>2. Harmless(c)'
  BY <1>1, HarmlessStep
<1>3. CASE ctx' = ctx
  BY <1>1, <1>2, <1>3 DEF Harmless
<1>4. CASE ctx' # ctx
  <2>1. Publish \/ Republish \/ Failed
    BY <1>4, ElsewhereKeeps DEF Next, Elsewhere, Connection, Resolve, Resolved,
       ResolveFails, OpenSocket, Connected, ConnectFails, SocketFails, Watch, WatchFails,
       Disconnected, EndsWithShutdown
  <2>2. CASE Publish \/ Republish
    <3>1. /\ ctx' = [fd |-> sockfd, state |-> "connected"] /\ sockfd' = sockfd
          /\ kpc' \in {"epoll", "loop"} /\ files' = files
          /\ sockfd \in Descriptors /\ files[sockfd] = Socket(opened)
      BY <2>2 DEF Publish, Republish, ConnMoves, Table, HasSocket
    <3> QED BY <3>1, FileFacts DEF Harmless
  <2>3. CASE Failed
    BY <2>3 DEF Failed, ConnMoves, Harmless, Excused
  <2> QED BY <2>1, <2>2, <2>3
<1> QED
  BY <1>3, <1>4

LEMMA CopyStep ==
    ASSUME Types, Table, Attempts, Harmless(ctx), ppc = "write" => Harmless(copy),
           [Next]_vars, ppc' = "write"
    PROVE  Harmless(copy)'
<1>1. PICK c \in Contexts : c = copy'
  BY ProcTypesStep DEF ProcTypes
<1>2. CASE CopyContext
  <2>1. c = ctx
    BY <1>1, <1>2 DEF CopyContext
  <2>2. Harmless(c)'
    BY <2>1, HarmlessStep
  <2> QED BY <1>1, <2>2 DEF Harmless
<1>3. CASE ~CopyContext
  <2>1. ppc = "write" /\ copy' = copy
    BY <1>3 DEF Next, Processing, ReceivedLog, ReceivedDataEnd, ReceivedShutdown, Check,
       Exit, AllSent, FormatFails, Write, BrokenPipe, Returns, Connection, ConnMoves,
       Resolve, Resolved, ResolveFails, OpenSocket, Connected, ConnectFails, SocketFails, Publish,
       Watch, WatchFails, Disconnected, Republish, Failed, EndsWithShutdown, PeerCloses,
       OpenErrorLog, Ended, vars, proc
  <2>2. Harmless(c)'
    BY <1>1, <2>1, HarmlessStep
  <2> QED BY <1>1, <2>2 DEF Harmless
<1> QED
  BY <1>2, <1>3

(* A socket gets the number it is watched by.                              *)
LEMMA NumberedStep ==
    ASSUME Types, Table, Numbered, PublishedSocket, [Next]_vars
    PROVE  Numbered'
<1> USE DEF ConnMoves, Holds, HasSocket, Numbered
<1>1. FileStep
  BY TableStep
<1>2. /\ Below(sockfd) /\ sockfd' = sockfd => Below(sockfd)'
      /\ Below(watched) /\ watched' = watched => Below(watched)'
      /\ ~MustOpenLog => ~MustOpenLog'
      /\ watched \in Descriptors /\ files[watched] # Log /\ ~MustOpenLog
            => files'[watched] # Log
  BY <1>1 DEF FileStep, Below, MustOpenLog
<1>3. CASE Resolve \/ OpenSocket
  <2>1. /\ ~Holds /\ UNCHANGED <<ctx, watched>> /\ sockfd' = Lowest
        /\ kpc \in {"resolve", "socket"} /\ kpc' \in {"resolving", "connect"}
    BY <1>3 DEF Resolve, OpenSocket
  <2>2. \A d \in Descriptors : files[d] \in {Free, Log}
    BY <2>1 DEF Table
  <2>3. /\ Lowest \in Descriptors /\ files[Lowest] = Free
        /\ \A d \in Descriptors : files[d] = Free => Lowest <= d
    BY <2>1, LowestIsFree
  <2>4. Below(Lowest)
    BY <2>2, <2>3, Numbers DEF Below
  <2>5. Below(sockfd)'
    BY <1>1, <2>1, <2>4 DEF FileStep, Below
  <2>6. watched \in Descriptors /\ Below(watched) /\ files[watched] # Log => Lowest = watched
    <3> SUFFICES ASSUME watched \in Descriptors, Below(watched), files[watched] # Log
                 PROVE  Lowest = watched
      OBVIOUS
    <3>1. Lowest <= watched
      BY <2>2, <2>3
    <3>2. ~(Lowest < watched)
      BY <2>3, FileFacts DEF Below
    <3> QED BY <2>3, <3>1, <3>2, Numbers
  <2> QED BY <1>2, <2>1, <2>5, <2>6
<1>4. CASE Resolved \/ ResolveFails \/ ConnectFails \/ SocketFails
  <2>1. /\ ~Holds' /\ UNCHANGED <<ctx, watched>> /\ kpc' \in {"socket", "failed"}
        /\ kpc \in {"resolving", "connect", "socket"}
    BY <1>4 DEF Resolved, ResolveFails, ConnectFails, SocketFails
  <2> QED BY <1>2, <2>1
<1>5. CASE Connected
  <2>1. /\ kpc = "connect" /\ UNCHANGED <<ctx, watched, sockfd>>
        /\ kpc' = IF ctx.state = "initialized" THEN "publish" ELSE "add"
    BY <1>5 DEF Connected
  <2>2. ctx.state # "initialized" => ctx.state = "connected"
    BY <2>1 DEF Types, Contexts, States
  <2> QED BY <1>2, <2>1, <2>2
<1>6. CASE Publish
  BY <1>2, <1>6 DEF Publish
<1>7. CASE Watch
  <2>1. kpc = "epoll" /\ kpc' = "loop" /\ watched' = sockfd' /\ UNCHANGED <<ctx, sockfd>>
    BY <1>7 DEF Watch
  <2>2. ctx.state = "connected"
    BY <2>1 DEF PublishedSocket
  <2> QED BY <1>2, <2>1, <2>2
<1>8. CASE WatchFails
  BY <1>8 DEF WatchFails
<1>9. CASE Disconnected
  <2>1. /\ kpc = "loop" /\ kpc' \in {"resolve", "failed"} /\ watched = sockfd
        /\ UNCHANGED <<ctx, watched, sockfd>> /\ LoggedAndClosed
    BY <1>9 DEF Disconnected
  <2>2. files'[sockfd] # Log /\ ~MustOpenLog' /\ sockfd \in Descriptors
    BY <2>1, ClosedTable DEF Table
  <2> QED BY <1>2, <2>1, <2>2
<1>10. CASE Republish
  <2>1. /\ kpc = "add" /\ kpc' = "loop" /\ UNCHANGED <<watched, sockfd>>
        /\ ctx'.state = "connected"
    BY <1>10 DEF Republish
  <2> QED BY <1>2, <2>1
<1>11. CASE Failed \/ EndsWithShutdown
  BY <1>11 DEF Failed, EndsWithShutdown
<1>12. CASE Elsewhere
  <2>1. UNCHANGED <<kpc, sockfd, watched, ctx>>
    BY <1>12, ElsewhereKeeps DEF conn
  <2> QED BY <1>2, <2>1
<1> QED
  BY <1>3, <1>4, <1>5, <1>6, <1>7, <1>8, <1>9, <1>10, <1>11, <1>12
  DEF Next, Connection, Elsewhere

LEMMA PublishedStep ==
    ASSUME Types, Table, Numbered, PublishedSocket, [Next]_vars
    PROVE  PublishedSocket'
<1>1. kpc' \in {"epoll", "loop"} => files'[sockfd'] = Socket(opened)'
  BY TableStep DEF Table, HasSocket, Socket
<1>0. kpc' = "loop" => watched' = sockfd'
  BY NumberedStep DEF Numbered
<1>2. CASE Publish \/ Watch \/ Republish
  BY <1>0, <1>1, <1>2 DEF Publish, Watch, Republish, ConnMoves, PublishedSocket
<1>3. CASE Failed \/ EndsWithShutdown
  BY <1>3 DEF Failed, EndsWithShutdown, ConnMoves, PublishedSocket
<1>4. CASE Elsewhere
  BY <1>1, <1>4, ElsewhereKeeps DEF conn, PublishedSocket, Socket
<1>5. CASE Connection /\ ~(Publish \/ Watch \/ Republish \/ Failed \/ EndsWithShutdown)
  BY <1>5 DEF Connection, ConnMoves, Resolve, Resolved, ResolveFails, OpenSocket,
     Connected, ConnectFails, SocketFails, WatchFails, Disconnected, PublishedSocket
<1> QED
  BY <1>2, <1>3, <1>4, <1>5 DEF Next, Elsewhere

-----------------------------------------------------------------------------
(* Where the entry at hand goes.                                           *)
LEMMA FateIs ==
    ASSUME Types, Table, Attempts, Harmless(copy)
    PROVE  /\ Fate # "logged"
           /\ Fate \in {"dropped", "misplaced"} => Excused
<1>1. /\ \A f \in Files : f.kind = "log" => f = Log
      /\ copy.state \in States
  BY FileFacts DEF Files, Types, Contexts
<1>2. CASE copy.state # "connected"
  <2>1. Fate \in {"early", "dropped"} /\ (Fate = "dropped" => copy.state = "failed")
    BY <1>1, <1>2 DEF Fate, States
  <2> QED BY <2>1 DEF Harmless
<1>3. CASE copy.state = "connected"
  <2>1. /\ copy.fd \in Descriptors /\ files[copy.fd] # Log
        /\ \/ kpc \in {"epoll", "loop"} /\ copy.fd = sockfd
           \/ ~MustOpenLog /\ Excused
    BY <1>3 DEF Harmless
  <2>2. Target = files[copy.fd] /\ Target.kind # "log"
    BY <1>1, <2>1, Numbers DEF Target, Types
  <2>3. Fate # "logged"
    BY <1>3, <2>2 DEF Fate
  <2>4. CASE Excused
    BY <2>3, <2>4
  <2>5. CASE kpc \in {"epoll", "loop"} /\ copy.fd = sockfd
    <3>1. Target = Socket(opened) /\ opened \in 1 .. Sockets /\ peer[opened] # "none"
      BY <2>2, <2>5 DEF Table, HasSocket, Attempts, Types, TypeOK
    <3>2. Target.kind = "socket" /\ Target.id = opened
      BY <3>1, FileFacts
    <3>3. CASE peer[opened] = "up"
      <4>1. Fate = "delivered"
        BY <1>3, <3>2, <3>3 DEF Fate
      <4> QED BY <4>1
    <3>4. CASE peer[opened] # "up"
      <4>1. peer[opened] = "down" /\ opened \in 1 .. opened
        BY <3>1, <3>4, Numbers DEF Types
      <4> QED BY <2>3, <4>1 DEF Excused
    <3> QED BY <3>3, <3>4
  <2> QED BY <2>1, <2>4, <2>5
<1> QED
  BY <1>2, <1>3

LEMMA HandledStep ==
    ASSUME Types, Table, Attempts, ppc = "write" => Harmless(copy), [Next]_vars,
           ErrorLogIntact, LossExplained
    PROVE  ErrorLogIntact' /\ LossExplained'
<1>1. Excused => Excused'
  BY ExcusedStays
<1>2. LossExplained <=>
         ((\E i \in DOMAIN handled : handled[i].fate \in {"dropped", "misplaced"}) => Excused)
  BY DEF LossExplained, Excused
<1>3. LossExplained' <=>
         ((\E i \in DOMAIN handled' : handled'[i].fate \in {"dropped", "misplaced"})
            => Excused')
  BY DEF LossExplained, Excused
<1>4. CASE handled' = handled
  BY <1>1, <1>2, <1>3, <1>4 DEF ErrorLogIntact
<1>5. CASE handled' # handled
  <2>1. /\ ppc = "write"
        /\ handled' = Append(handled, [entry |-> Head(log_list), fate |-> Fate])
    BY <1>5 DEF Next, Processing, ReceivedLog, ReceivedDataEnd, ReceivedShutdown, Check,
       Exit, AllSent, FormatFails, CopyContext, Write, BrokenPipe, At, Connection,
       ConnMoves, Resolve, Resolved, ResolveFails, OpenSocket, SocketFails, Connected,
       ConnectFails, Publish, Watch, WatchFails, Disconnected, Republish, Failed,
       EndsWithShutdown, PeerCloses, OpenErrorLog, Ended, vars, proc
  <2>2. Fate # "logged" /\ (Fate \in {"dropped", "misplaced"} => Excused)
    BY <2>1, FateIs
  <2>3. \A i \in DOMAIN handled' : \/ i \in DOMAIN handled /\ handled'[i] = handled[i]
                                  \/ handled'[i].fate = Fate
    <3>1. handled \in Seq(Handled)
      BY DEF Types
    <3> HIDE <1>5
    <3> QED BY <2>1, <3>1
  <2> QED BY <1>1, <1>2, <1>3, <2>2, <2>3 DEF ErrorLogIntact
<1> QED
  BY <1>4, <1>5

LEMMA InitFluent == Init => FluentInv
<1> SUFFICES ASSUME Init PROVE FluentInv
  OBVIOUS
<1> USE Numbers, FileFacts, FreeIsAFile
<1>1. /\ kpc = "resolve" /\ ppc = "idle" /\ phase = "running" /\ sockfd = 0
      /\ tries = 0 /\ opened = 0 /\ watched = 0 /\ copy = ctx /\ shutdown = FALSE
      /\ ctx = [fd |-> 0, state |-> "initialized"]
      /\ log_list = <<>> /\ handled = <<>>
      /\ files = [d \in Descriptors |-> Free]
      /\ peer = [n \in 1 .. Sockets |-> "none"]
  BY DEF Init
<1>2. ctx \in Contexts
  BY <1>1 DEF Contexts, States
<1>3. ConnTypes
  BY <1>1, <1>2 DEF ConnTypes
<1>4. ProcTypes
  BY <1>1, <1>2 DEF ProcTypes, Received
<1>5. Types
  BY <1>1, <1>3, <1>4, TypesAre
<1>6. Table /\ Attempts /\ Numbered
  BY <1>1 DEF Table, Attempts, Numbered, Holds, HasSocket
<1>7. Harmless(ctx) /\ PublishedSocket /\ ErrorLogIntact /\ LossExplained
  BY <1>1 DEF Harmless, PublishedSocket, ErrorLogIntact, LossExplained
<1> QED
  BY <1>1, <1>5, <1>6, <1>7 DEF FluentInv

(* The inductive invariant.                                                *)
THEOREM FluentInvariant == Spec => []FluentInv
<1>1. FluentInv /\ [Next]_vars => FluentInv'
  <2> SUFFICES ASSUME FluentInv, [Next]_vars PROVE FluentInv'
    OBVIOUS
  <2> USE DEF FluentInv
  <2>1. Table' /\ files' \in [Descriptors -> Files]
    BY TableStep DEF FileStep
  <2>2. Types'
    <3>1. ConnTypes' /\ ProcTypes' /\ shutdown' \in BOOLEAN
      BY ConnTypesStep, ProcTypesStep
    <3>2. (Types <=> /\ ConnTypes /\ ProcTypes /\ files \in [Descriptors -> Files]
                     /\ shutdown \in BOOLEAN)'
      BY TypesAre, PTL
    <3> QED BY <2>1, <3>1, <3>2
  <2>3. Attempts' /\ Numbered' /\ Harmless(ctx)' /\ (ppc' = "write" => Harmless(copy)')
    BY AttemptsStep, NumberedStep, ContextStep, CopyStep
  <2>4. PublishedSocket' /\ ErrorLogIntact' /\ LossExplained'
    BY PublishedStep, HandledStep
  <2> QED BY <2>1, <2>2, <2>3, <2>4
<1> QED
  BY InitFluent, <1>1, PTL DEF Spec

(* The variables of the two threads keep their types.                      *)
THEOREM FluentTypes == Spec => []TypeOK
<1>1. FluentInv => TypeOK
  BY DEF FluentInv, Types
<1> QED
  BY <1>1, FluentInvariant, PTL

(* No log entry is written into the error log, although the number of a    *)
(* closed socket may go to any file opened next: the log is opened before  *)
(* the first connected socket is closed.                                   *)
THEOREM LogIsIntact == Spec => []ErrorLogIntact
<1>1. FluentInv => ErrorLogIntact
  BY DEF FluentInv
<1> QED
  BY <1>1, FluentInvariant, PTL

(* While a connection is watched the shared structure holds it, and no     *)
(* connection once the thread has given up.                                *)
THEOREM WatchedIsPublished == Spec => []PublishedSocket
<1>1. FluentInv => PublishedSocket
  BY DEF FluentInv
<1> QED
  BY <1>1, FluentInvariant, PTL

(* An entry written to the connection is lost only after a connection has  *)
(* been lost, or the thread has given up.                                  *)
THEOREM LossHasACause == Spec => []LossExplained
<1>1. FluentInv => LossExplained
  BY DEF FluentInv
<1> QED
  BY <1>1, FluentInvariant, PTL
=============================================================================
