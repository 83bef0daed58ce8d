---------------------------- MODULE BatchOutput ----------------------------
(***************************************************************************)
(* The plug-ins that keep the entries of a block in a list and send them   *)
(* when the block ends: Elasticsearch, Splunk and InfluxDB in one HTTP     *)
(* request, Graphite one by one over a socket.  They share the structure   *)
(* of their functions; what differs is a table or an action of its own.    *)
(*                                                                         *)
(* The framework (PluginControl) calls one function at a time, and none    *)
(* but mistral_exit() once mistral_shutdown() was called; Mistral may send *)
(* a shutdown message, or close the pipe, with a block half received.      *)
(***************************************************************************)
EXTENDS Subsequence

CONSTANTS
    MaxEntries,     \* bound on the log entries received
    MaxAddresses    \* bound on the addresses getaddrinfo() finds

ASSUME BatchAssumption == MaxEntries \in Nat /\ MaxAddresses \in Nat \ {0}

Entries == 1 .. MaxEntries

HTTPPlugins == {"elasticsearch", "splunk", "influxdb"}
Plugins == HTTPPlugins \cup {"graphite"}

VARIABLES
    plugin,         \* which of the plug-ins this is
    pc,             \* where the plug-in is
    caller,         \* the function that called mistral_received_data_end
    addresses,      \* addresses not yet tried (Graphite)
    graphite_fd,    \* -1, a connection, one the peer has reset, a closed number
    freed,          \* strings freed during start-up but still pointed to
    log_list,       \* log_list_head ... log_list_tail
    data,           \* the entries formatted so far, which are destroyed
    shutdown,       \* mistral_shutdown() was called
    told,           \* an error was logged
    received,       \* number of entries received
    stored,         \* what the destination has taken
    lost            \* entries destroyed without being stored

startup == <<addresses, graphite_fd, freed>>
entries == <<log_list, data, received, stored, lost>>
vars    == <<plugin, pc, caller, startup, shutdown, told, entries>>

Init ==
    /\ plugin \in Plugins
    /\ pc = "startup" /\ caller = "none"
    /\ addresses = 0 /\ graphite_fd = "none"
    /\ freed = {}
    /\ log_list = <<>> /\ data = <<>>
    /\ shutdown = FALSE /\ told = FALSE
    /\ received = 0 /\ stored = <<>> /\ lost = {}

Complain == told' = TRUE
Fail     == shutdown' = TRUE /\ Complain
NoError  == UNCHANGED <<shutdown, told>>

(***************************************************************************)
(* mistral_startup(): the calls that may fail, in order.  A failure before *)
(* the plug-in's type is set ends the process, through mistral_exit().     *)
(***************************************************************************)
ElasticsearchSetup ==
    {"password", "init", "ERRORBUFFER", "FAILONERROR", "SSL_VERIFYPEER", "CAINFO", "CAPATH",
     "WRITEFUNCTION", "HTTPHEADER", "URL", "USERPWD", "asprintf"}

SplunkSetup == (ElasticsearchSetup \ {"password", "USERPWD"}) \cup {"token"}

InfluxSetup == ElasticsearchSetup \ {"password", "WRITEFUNCTION", "HTTPHEADER"}

SetupOf == [elasticsearch |-> ElasticsearchSetup, splunk |-> SplunkSetup,
            influxdb |-> InfluxSetup, graphite |-> {"getaddrinfo"}]

\* set_curl_option() calls mistral_shutdown(); the others return.
ShutsDown == {"WRITEFUNCTION", "HTTPHEADER", "URL"}

StartupFails ==
    /\ pc = "startup" /\ pc' = "exit"
    /\ \E c \in SetupOf[plugin] :
        /\ shutdown' = (c \in ShutsDown)
        /\ freed' = {c} \cap {"URL", "USERPWD"}
    /\ Complain
    /\ UNCHANGED <<plugin, caller, addresses, graphite_fd, entries>>

HTTPReady ==
    /\ pc = "startup" /\ plugin \in HTTPPlugins
    /\ pc' = "running"
    /\ NoError /\ UNCHANGED <<plugin, caller, startup, entries>>

Resolve ==
    /\ pc = "startup" /\ plugin = "graphite"
    /\ pc' = "connect"
    /\ addresses' \in 1 .. MaxAddresses
    /\ NoError
    /\ UNCHANGED <<plugin, caller, graphite_fd, freed, entries>>

(* Wrong: no check that there is another address.                          *)
TryAddressUnchecked ==
    /\ pc = "connect" /\ graphite_fd # "connected"
    /\ addresses' = addresses - 1
    /\ graphite_fd' \in {"closed", "connected"}
    /\ UNCHANGED <<plugin, pc, caller, freed, shutdown, told, entries>>

(* Graphite tries the addresses in turn.  A connect() that fails leaves    *)
(* the closed number in graphite_fd.                                       *)
TryAddress ==
    /\ pc = "connect"
    /\ graphite_fd # "connected" /\ addresses > 0
    /\ addresses' = addresses - 1
    /\ \/ graphite_fd' = "none" /\ Complain         \* socket() fails
       \/ graphite_fd' = "closed" /\ UNCHANGED told \* connect() fails
       \/ graphite_fd' = "connected" /\ UNCHANGED told
    /\ UNCHANGED <<plugin, pc, caller, freed, shutdown, entries>>

(* The plug-in starts whether or not it is connected.                      *)
GraphiteReady ==
    /\ pc = "connect"
    /\ addresses = 0 \/ graphite_fd = "connected"
    /\ pc' = "running"
    /\ told' = (told \/ graphite_fd = "none")
    /\ UNCHANGED <<plugin, caller, startup, shutdown, entries>>

(***************************************************************************)
(* The framework's calls.                                                  *)
(***************************************************************************)
mistral_received_log ==
    /\ pc = "running" /\ ~shutdown /\ received < MaxEntries
    /\ received' = received + 1
    /\ log_list' = Append(log_list, received')
    /\ NoError
    /\ UNCHANGED <<plugin, pc, caller, startup, data, stored, lost>>

CallDataEnd(c) ==
    /\ pc' = "format" /\ caller' = c
    /\ data' = <<>>
    /\ NoError
    /\ UNCHANGED <<plugin, startup, log_list, received, stored, lost>>

mistral_received_data_end ==
    pc = "running" /\ ~shutdown /\ CallDataEnd("framework")

Leave(to) ==
    /\ pc' = to
    /\ NoError /\ UNCHANGED <<plugin, caller, startup, entries>>

mistral_received_shutdown ==
    /\ pc = "running" /\ ~shutdown
    /\ IF log_list # <<>> THEN CallDataEnd("shutdown") ELSE Leave("exit")

(* The pipe is closed, or the framework notices the flag.                  *)
Stop == pc = "running" /\ Leave("exit")

mistral_exit ==
    /\ pc = "exit"
    /\ \/ log_list # <<>> /\ CallDataEnd("exit")
       \/ log_list = <<>> /\ Leave("ended")
       \/ log_list = <<>> /\ freed # {} /\ Leave("aborted")  \* freed again

(***************************************************************************)
(* mistral_received_data_end(): format the entries, destroying each, and   *)
(* send.                                                                   *)
(***************************************************************************)
After == CASE caller = "framework" -> "running"
           [] caller = "shutdown"  -> "exit"
           [] caller = "exit"      -> "ended"

FormatEntry ==
    /\ pc = "format" /\ plugin \in HTTPPlugins /\ log_list # <<>>
    /\ data' = Append(data, Head(log_list))
    /\ log_list' = Tail(log_list)
    /\ NoError
    /\ UNCHANGED <<plugin, pc, caller, startup, received, stored, lost>>

(* What was formatted is freed; the entry at hand and the rest are kept.   *)
FormatFails ==
    /\ pc = "format" /\ log_list # <<>>
    /\ pc' = After
    /\ data' = <<>> /\ lost' = lost \cup Range(data)
    /\ Fail
    /\ UNCHANGED <<plugin, caller, startup, log_list, received, stored>>

Formatted ==
    /\ pc = "format" /\ log_list = <<>>
    /\ pc' = IF data = <<>> THEN After ELSE "post"
    /\ NoError /\ UNCHANGED <<plugin, caller, startup, entries>>

(* The end of the request: kept is what the server has taken.              *)
Posted(kept) ==
    /\ pc = "post" /\ pc' = After
    /\ stored' = stored \o kept
    /\ lost' = lost \cup (Range(data) \ Range(kept))
    /\ data' = <<>>
    /\ UNCHANGED <<plugin, caller, startup, log_list, received>>

Post == Posted(data) /\ NoError

(* The options of the request that may be refused, and its outcomes other  *)
(* than success, by plug-in.  A request that failed may have been served,  *)
(* in full or in part: a server that refuses some entries keeps the rest   *)
(* and answers with an error.                                              *)
ElasticsearchErrors == {"POSTFIELDS", "WRITEDATA", "perform", "errors"}
SplunkErrors        == {"POSTFIELDS", "WRITEDATA", "perform"}
InfluxErrors        == {"POSTFIELDS", "perform"}

ErrorsOf == [elasticsearch |-> ElasticsearchErrors, splunk |-> SplunkErrors,
             influxdb |-> InfluxErrors]

KeptAfter(error) ==
    CASE error = "perform" -> Subsequences(data)
      [] error = "errors"  -> Subsequences(data) \ {data}
      [] OTHER             -> {<<>>}

(* Wrong: the entries are put back, for mistral_exit() to try again.       *)
PostFailsRetries ==
    /\ pc = "post" /\ pc' = After
    /\ \E kept \in {<<>>, data} : stored' = stored \o kept
    /\ log_list' = data /\ data' = <<>>
    /\ Fail
    /\ UNCHANGED <<plugin, caller, startup, received, lost>>

PostFails ==
    /\ pc = "post"
    /\ \E error \in ErrorsOf[plugin] : \E kept \in KeptAfter(error) : Posted(kept)
    /\ Fail

(* Graphite: one send() for each entry; one that fails is only logged.     *)
SendEntry ==
    /\ pc = "format" /\ plugin = "graphite" /\ log_list # <<>>
    /\ log_list' = Tail(log_list)
    /\ \/ /\ graphite_fd = "connected"
          /\ stored' = Append(stored, Head(log_list))
          /\ UNCHANGED <<lost, told>>
       \/ /\ lost' = lost \cup {Head(log_list)}
          /\ Complain /\ UNCHANGED stored
    /\ UNCHANGED <<plugin, pc, caller, startup, data, shutdown, received>>

(* The peer resets the connection: from then on a send() fails or raises   *)
(* SIGPIPE, which the plug-in does not handle.                             *)
PeerResets ==
    /\ graphite_fd = "connected" /\ pc \notin {"connect", "ended", "aborted"}
    /\ graphite_fd' = "reset"
    /\ NoError
    /\ UNCHANGED <<plugin, pc, caller, addresses, freed, entries>>

BrokenPipe ==
    /\ pc = "format" /\ plugin = "graphite" /\ log_list # <<>>
    /\ graphite_fd = "reset"
    /\ Leave("aborted")

(* No memory for a name that is looked at before it is formatted.          *)
EscapeFails ==
    /\ pc = "format" /\ plugin = "graphite" /\ log_list # <<>>
    /\ Leave("aborted")

Next ==
    \/ StartupFails \/ HTTPReady \/ Resolve \/ TryAddress \/ GraphiteReady
    \/ mistral_received_log \/ mistral_received_data_end
    \/ mistral_received_shutdown \/ Stop \/ mistral_exit
    \/ FormatEntry \/ FormatFails \/ Formatted
    \/ Post \/ PostFails \/ SendEntry \/ PeerResets \/ BrokenPipe
    \/ EscapeFails

Spec == Init /\ [][Next]_vars

(***************************************************************************)
(* Properties                                                              *)
(***************************************************************************)

(* The variables have their types, and a plug-in has a socket only if it   *)
(* is Graphite and a request only if it is not.                            *)
TypeOK ==
    /\ plugin \in Plugins
    /\ pc \in {"startup", "connect", "running", "format", "post", "exit", "ended", "aborted"}
    /\ caller \in {"none", "framework", "shutdown", "exit"}
    /\ addresses \in 0 .. MaxAddresses
    /\ graphite_fd \in {"none", "connected", "reset", "closed"}
    /\ freed \subseteq {"URL", "USERPWD"}
    /\ log_list \in Seq(Entries) /\ data \in Seq(Entries)
    /\ shutdown \in BOOLEAN /\ told \in BOOLEAN
    /\ received \in 0 .. MaxEntries
    /\ stored \in Seq(Entries) /\ lost \subseteq Entries
    /\ plugin \in HTTPPlugins => graphite_fd = "none"
    /\ plugin = "graphite" => data = <<>>

(* Each of the four plug-ins stores an entry at most once, in order, and   *)
(* loses none without a complaint.  What is pending is what has been       *)
(* formatted and is not yet sent, followed by the list.  What the list     *)
(* still holds when the plug-in ends is lost, as mistral_exit() was its    *)
(* last chance; a process that was killed needs no words of its own.       *)
gone == pc \in {"ended", "aborted"}

Promised == INSTANCE OutputPlugin WITH
    pending <- IF gone THEN <<>> ELSE data \o log_list,
    lost    <- IF gone THEN lost \cup Range(data \o log_list) ELSE lost,
    told    <- told \/ pc = "aborted"

ImplementsOutput == Promised!Spec
=============================================================================
