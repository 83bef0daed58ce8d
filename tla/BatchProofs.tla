---------------------------- MODULE BatchProofs ----------------------------
(***************************************************************************)
(* Theorems about Elasticsearch, Splunk, InfluxDB and Graphite, for any    *)
(* number of entries and addresses: that they keep what OutputPlugin       *)
(* promises, whatever fails and whenever they are told to stop.            *)
(***************************************************************************)
EXTENDS BatchOutput, SequenceTheorems, TLAPS

Control ==
    /\ plugin \in Plugins
    /\ pc \in {"startup", "connect", "running", "format", "post", "exit", "ended", "aborted"}
    /\ caller \in {"none", "framework", "shutdown", "exit"}
    /\ pc \in {"format", "post"} => caller # "none"
    /\ shutdown \in BOOLEAN /\ told \in BOOLEAN

Sockets ==
    /\ addresses \in 0 .. MaxAddresses
    /\ graphite_fd \in {"none", "connected", "reset", "closed"}
    /\ freed \subseteq {"URL", "USERPWD"}
    /\ plugin \in HTTPPlugins => pc # "connect" /\ graphite_fd = "none"

(* What has been formatted is sent or destroyed before the call ends, and  *)
(* a request is made of all that was listed.                               *)
Lists ==
    /\ log_list \in Seq(Entries) /\ data \in Seq(Entries)
    /\ pc \notin {"format", "post"} => data = <<>>
    /\ plugin = "graphite" => data = <<>>
    /\ pc = "post" => log_list = <<>> /\ data # <<>>

(* No entry is known that was not received.                                *)
Known == Range(log_list) \cup Range(data) \cup Range(stored) \cup lost

Numbers ==
    /\ received \in 0 .. MaxEntries
    /\ stored \in Seq(Entries) /\ lost \subseteq Entries
    /\ \A e \in Known : e <= received

BatchInv == Control /\ Sockets /\ Lists /\ Numbers

-----------------------------------------------------------------------------
(* Parts of a sequence: of its members, and among them all and none.       *)
LEMMA PartsAre ==
    ASSUME NEW E, NEW s \in Seq(E), NEW p \in Subsequences(s)
    PROVE  p \in Seq(E) /\ Range(p) \subseteq Range(s)
<1>1. PICK at \in Ascending(Len(s)) : p = [i \in DOMAIN at |-> s[at[i]]]
  BY DEF Subsequences
<1>2. PICK m \in 0 .. Len(s) : at \in [1 .. m -> 1 .. Len(s)]
  BY <1>1 DEF Ascending, BoundedSeq, SeqOf
<1>3. \A i \in 1 .. m : at[i] \in 1 .. Len(s) /\ s[at[i]] \in E
  BY <1>2
<1>4. p \in [1 .. m -> E] /\ m \in Nat
  BY <1>1, <1>2, <1>3
<1>5. \A i \in 1 .. m : p[i] \in Range(s)
  BY <1>1, <1>2, <1>3 DEF Range
<1> QED BY <1>4, <1>5 DEF Range

LEMMA WholeIsPart ==
    ASSUME NEW E, NEW s \in Seq(E)
    PROVE  s \in Subsequences(s) /\ <<>> \in Subsequences(s)
<1>1. Len(s) \in Nat /\ DOMAIN s = 1 .. Len(s)
  OBVIOUS
<1>2. s \in Subsequences(s)
  <2> DEFINE at == [i \in 1 .. Len(s) |-> i]
  <2>1. at \in Ascending(Len(s))
    BY <1>1 DEF Ascending, BoundedSeq, SeqOf
  <2>2. s = [i \in DOMAIN at |-> s[at[i]]]
    BY <1>1
  <2> QED BY <2>1, <2>2 DEF Subsequences
<1>3. <<>> \in Subsequences(s)
  <2> DEFINE at == [i \in 1 .. 0 |-> i]
  <2>1. at \in Ascending(Len(s))
    BY <1>1 DEF Ascending, BoundedSeq, SeqOf
  <2>2. <<>> = [i \in DOMAIN at |-> s[at[i]]]
    OBVIOUS
  <2> QED BY <2>1, <2>2 DEF Subsequences
<1> QED BY <1>2, <1>3

(* A sequence taken apart again.                                           *)
LEMMA FrontAndRest ==
    ASSUME NEW E, NEW s \in Seq(E), NEW t \in Seq(E)
    PROVE  /\ SubSeq(s \o t, 1, Len(s)) = s
           /\ SubSeq(s \o t, Len(s) + 1, Len(s \o t)) = t
           /\ Range(s \o t) = Range(s) \cup Range(t)
           /\ s \o t \in Seq(E) /\ Len(s \o t) = Len(s) + Len(t)
<1>1. /\ s \o t \in Seq(E) /\ Len(s \o t) = Len(s) + Len(t)
      /\ Len(s) \in Nat /\ Len(t) \in Nat
      /\ \A i \in 1 .. Len(s) : (s \o t)[i] = s[i]
      /\ \A i \in 1 .. Len(t) : (s \o t)[Len(s) + i] = t[i]
  OBVIOUS
<1>2. SubSeq(s \o t, 1, Len(s)) = s
  BY <1>1
<1>3. SubSeq(s \o t, Len(s) + 1, Len(s \o t)) = t
  BY <1>1
<1> QED BY <1>1, <1>2, <1>3, RangeConcatenation

LEMMA HeadAndTail ==
    ASSUME NEW E, NEW s \in Seq(E), s # <<>>
    PROVE  /\ Head(s) \in E /\ Tail(s) \in Seq(E)
           /\ s = <<Head(s)>> \o Tail(s)
           /\ Range(s) = {Head(s)} \cup Range(Tail(s))
<1>1. Head(s) \in E /\ Tail(s) \in Seq(E) /\ s = <<Head(s)>> \o Tail(s)
  <2>1. /\ Head(s) \in E /\ Head(s) = s[1] /\ Tail(s) \in Seq(E)
        /\ Len(s) \in Nat \ {0} /\ Len(Tail(s)) = Len(s) - 1
        /\ \A i \in 1 .. Len(s) - 1 : Tail(s)[i] = s[i + 1]
    OBVIOUS
  <2> DEFINE t == <<Head(s)>> \o Tail(s)
  <2>2. <<Head(s)>> \in Seq(E) /\ Len(<<Head(s)>>) = 1 /\ <<Head(s)>>[1] = Head(s)
    BY <2>1
  <2>3. /\ t \in Seq(E) /\ Len(t) = Len(s)
        /\ \A i \in 1 .. Len(s) : t[i] = IF i <= 1 THEN Head(s) ELSE Tail(s)[i - 1]
    BY <2>1, <2>2, ConcatProperties
  <2>4. \A i \in 1 .. Len(s) : t[i] = s[i]
    BY <2>1, <2>3
  <2> QED BY <2>1, <2>3, <2>4, SeqEqual
<1> DEFINE one == <<Head(s)>>
<1>2. one \in Seq(E) /\ Range(one) = {Head(s)}
  BY <1>1 DEF Range
<1>3. s = one \o Tail(s)
  BY <1>1
<1> HIDE DEF one
<1>4. Range(one \o Tail(s)) = Range(one) \cup Range(Tail(s))
  <2>1. one \in Seq(E) /\ Tail(s) \in Seq(E)
    BY <1>1, <1>2
  <2> QED BY <2>1, RangeConcatenation, Zenon
<1> QED BY <1>1, <1>2, <1>3, <1>4

LEMMA AppendedIs ==
    ASSUME NEW E, NEW s \in Seq(E), NEW e \in E
    PROVE  /\ Append(s, e) \in Seq(E)
           /\ Range(Append(s, e)) = Range(s) \cup {e}
<1> DEFINE one == <<e>>
<1>1. Append(s, e) = s \o one /\ Append(s, e) \in Seq(E) /\ one \in Seq(E)
  OBVIOUS
<1>2. Range(one) = {e}
  BY DEF Range
<1> HIDE DEF one
<1>3. Range(s \o one) = Range(s) \cup Range(one)
  BY <1>1, RangeConcatenation
<1> QED BY <1>1, <1>2, <1>3, Zenon

LEMMA NoneAre == <<>> \in Seq(Entries) /\ Range(<<>>) = {} /\ Len(<<>>) = 0
BY DEF Range

-----------------------------------------------------------------------------
(* The invariant.                                                          *)
LEMMA TypesAre == BatchInv => TypeOK
BY DEF BatchInv, Control, Sockets, Lists, Numbers, TypeOK

LEMMA BatchInit == ASSUME BatchAssumption, Init PROVE BatchInv
<1>1. Control
  BY DEF Init, Control
<1>2. Sockets
  BY DEF Init, Sockets, BatchAssumption
<1>3. Lists
  BY NoneAre DEF Init, Lists
<1>4. Known = {}
  BY NoneAre DEF Init, Known
<1>5. Numbers
  BY <1>4, NoneAre DEF Init, Numbers, BatchAssumption
<1> QED BY <1>1, <1>2, <1>3, <1>5 DEF BatchInv

LEMMA AfterIs ==
    ASSUME Control, pc \in {"format", "post"}
    PROVE  After \in {"running", "exit", "ended"}
BY DEF After, Control

(* The actions, by what they do to the entries.                            *)
Starting == StartupFails \/ HTTPReady \/ Resolve \/ TryAddress \/ GraphiteReady

Calling == \/ mistral_received_data_end \/ mistral_received_shutdown \/ Stop
           \/ mistral_exit

LEMMA ControlStep == ASSUME BatchInv, [Next]_vars PROVE Control'
<1> USE DEF BatchInv, Control
<1>1. CASE Starting
  <2>1. shutdown' \in BOOLEAN
    <3>1. CASE StartupFails
      <4>1. PICK c : shutdown' = (c \in ShutsDown)
        BY <3>1 DEF StartupFails
      <4>2. CASE c \in ShutsDown
        BY <4>1, <4>2, Zenon
      <4>3. CASE c \notin ShutsDown
        BY <4>1, <4>3
      <4> QED BY <4>2, <4>3
    <3>2. CASE ~StartupFails
      BY <1>1, <3>2, Zenon DEF Starting, HTTPReady, Resolve, TryAddress, GraphiteReady,
         NoError
    <3> QED BY <3>1, <3>2
  <2>2. told' \in BOOLEAN
    <3>1. told' = TRUE \/ told' = told \/ told' = (told \/ graphite_fd = "none")
      BY <1>1, Zenon DEF Starting, StartupFails, HTTPReady, Resolve, TryAddress,
         GraphiteReady, Complain, NoError
    <3> QED BY <3>1, Zenon
  <2>3. UNCHANGED <<plugin, caller>> /\ pc' \in {"connect", "running", "exit"}
    BY <1>1 DEF Starting, StartupFails, HTTPReady, Resolve, TryAddress, GraphiteReady
  <2> QED BY <2>1, <2>2, <2>3
<1>2. CASE Calling
  BY <1>2 DEF Calling, mistral_received_data_end, mistral_received_shutdown, Stop,
     mistral_exit, CallDataEnd, Leave, NoError
<1>3. CASE mistral_received_log \/ FormatEntry \/ PeerResets
  BY <1>3 DEF mistral_received_log, FormatEntry, PeerResets, NoError
<1>4. CASE FormatFails \/ Formatted \/ Post \/ PostFails
  BY <1>4, AfterIs DEF FormatFails, Formatted, Post, PostFails, Posted, Fail, Complain,
     NoError
<1>5. CASE SendEntry \/ BrokenPipe \/ EscapeFails
  BY <1>5 DEF SendEntry, BrokenPipe, EscapeFails, Complain, Leave, NoError
<1> QED
  BY <1>1, <1>2, <1>3, <1>4, <1>5 DEF Next, Starting, Calling, vars

LEMMA SocketsStep == ASSUME BatchAssumption, BatchInv, [Next]_vars PROVE Sockets'
<1> USE DEF BatchInv, Control, Sockets
<1>1. CASE StartupFails
  BY <1>1 DEF StartupFails
<1>6. CASE HTTPReady \/ GraphiteReady
  BY <1>6 DEF HTTPReady, GraphiteReady, startup
<1>7. CASE Resolve
  BY <1>7 DEF Resolve, HTTPPlugins, BatchAssumption
<1>8. CASE TryAddress
  BY <1>8 DEF TryAddress
<1>2. CASE Calling
  BY <1>2 DEF Calling, mistral_received_data_end, mistral_received_shutdown, Stop,
     mistral_exit, CallDataEnd, Leave, startup
<1>3. CASE mistral_received_log \/ FormatEntry \/ PeerResets
  BY <1>3 DEF mistral_received_log, FormatEntry, PeerResets, startup
<1>4. CASE FormatFails \/ Formatted \/ Post \/ PostFails
  BY <1>4, AfterIs DEF FormatFails, Formatted, Post, PostFails, Posted, startup
<1>5. CASE SendEntry \/ BrokenPipe \/ EscapeFails
  BY <1>5 DEF SendEntry, BrokenPipe, EscapeFails, Leave, startup
<1> QED
  BY <1>1, <1>2, <1>3, <1>4, <1>5, <1>6, <1>7, <1>8 DEF Next, Calling, vars, startup

(* What an action does to the entries.                                     *)
Stays ==
    /\ UNCHANGED <<log_list, data, received, stored, lost>>
    /\ pc' \notin {"format", "post"} => data = <<>>
    /\ pc' = "post" => log_list = <<>> /\ data # <<>>
    /\ gone => pc' = pc
    /\ gone' => \/ gone
                \/ pc' = "ended" /\ log_list = <<>>
                \/ pc' = "aborted"
    /\ told' = told \/ told' = TRUE

Arrives ==
    /\ received' = received + 1 /\ received < MaxEntries
    /\ log_list' = Append(log_list, received')
    /\ pc' = "running" /\ pc = "running"
    /\ UNCHANGED <<data, stored, lost, told>>

Formats ==
    /\ log_list # <<>> /\ pc = "format" /\ pc' = "format" /\ plugin # "graphite"
    /\ data' = Append(data, Head(log_list)) /\ log_list' = Tail(log_list)
    /\ UNCHANGED <<received, stored, lost, told>>

(* What was formatted is dealt with, and kept of it reaches the server.    *)
Settles(kept) ==
    /\ pc' = After /\ pc = "post" /\ log_list = <<>>
    /\ kept \in Subsequences(data) /\ data' = <<>>
    /\ stored' = stored \o kept /\ lost' = lost \cup (Range(data) \ Range(kept))
    /\ UNCHANGED <<log_list, received>>
    /\ (kept = data /\ told' = told) \/ told' = TRUE

Sends ==
    /\ plugin = "graphite" /\ log_list # <<>> /\ pc = "format" /\ pc' = "format"
    /\ log_list' = Tail(log_list)
    /\ \/ stored' = Append(stored, Head(log_list)) /\ UNCHANGED <<lost, told>>
       \/ lost' = lost \cup {Head(log_list)} /\ told' = TRUE /\ stored' = stored
    /\ UNCHANGED <<data, received>>

LEMMA Movement ==
    ASSUME BatchInv, [Next]_vars
    PROVE  \/ Stays \/ Arrives \/ Formats \/ FormatFails \/ Sends
           \/ \E kept : Settles(kept)
<1> USE DEF BatchInv, Lists
<1>1. CASE Starting
  <2>1. pc \in {"startup", "connect"} /\ pc' \in {"connect", "running", "exit"}
    BY <1>1 DEF Starting, StartupFails, HTTPReady, Resolve, TryAddress, GraphiteReady
  <2>2. UNCHANGED entries
    BY <1>1 DEF Starting, StartupFails, HTTPReady, Resolve, TryAddress, GraphiteReady
  <2>3. told' = told \/ told' = TRUE
    <3>1. CASE GraphiteReady
      <4>1. told' = (told \/ graphite_fd = "none")
        BY <3>1 DEF GraphiteReady
      <4>2. CASE graphite_fd = "none"
        BY <4>1, <4>2, Zenon
      <4>3. CASE graphite_fd # "none"
        BY <4>1, <4>3 DEF Control
      <4> QED BY <4>2, <4>3
    <3>2. CASE ~GraphiteReady
      BY <1>1, <3>2, Zenon DEF Starting, StartupFails, HTTPReady, Resolve, TryAddress,
         Complain, NoError
    <3> QED BY <3>1, <3>2
  <2> QED BY <2>1, <2>2, <2>3 DEF Stays, entries, gone
<1>2. CASE Calling
  BY <1>2 DEF Calling, mistral_received_data_end, mistral_received_shutdown, Stop,
     mistral_exit, CallDataEnd, Leave, NoError, entries, gone, Stays
<1>3. CASE mistral_received_log
  BY <1>3 DEF mistral_received_log, NoError, Arrives
<1>4. CASE FormatEntry
  BY <1>4 DEF FormatEntry, NoError, Formats, HTTPPlugins
<1>5. CASE PeerResets \/ BrokenPipe \/ EscapeFails
  BY <1>5 DEF PeerResets, BrokenPipe, EscapeFails, Leave, NoError, entries, gone, Stays
<1>6. CASE Formatted
  BY <1>6, AfterIs DEF Formatted, NoError, entries, gone, Stays
<1>7. CASE Post
  BY <1>7, WholeIsPart DEF Post, Posted, NoError, Settles
<1>8. CASE PostFails
  <2>1. PICK error, kept : kept \in KeptAfter(error) /\ Posted(kept) /\ told' = TRUE
    BY <1>8 DEF PostFails, Fail, Complain
  <2>2. kept \in Subsequences(data)
    BY <2>1, WholeIsPart DEF KeptAfter
  <2> QED BY <1>8, <2>1, <2>2 DEF PostFails, Posted, Settles
<1>9. CASE SendEntry
  BY <1>9 DEF SendEntry, Complain, Sends
<1> QED
  BY <1>1, <1>2, <1>3, <1>4, <1>5, <1>6, <1>7, <1>8, <1>9
     DEF Next, Starting, Calling, vars, entries, gone, Stays

LEMMA PluginIs == ASSUME [Next]_vars PROVE plugin' = plugin
BY DEF Next, vars, StartupFails, HTTPReady, Resolve, TryAddress, GraphiteReady,
   mistral_received_log, mistral_received_data_end, mistral_received_shutdown, Stop,
   mistral_exit, CallDataEnd, Leave, FormatEntry, FormatFails, Formatted, Post, PostFails,
   Posted, SendEntry, PeerResets, BrokenPipe, EscapeFails

LEMMA ListsStep == ASSUME BatchInv, [Next]_vars PROVE Lists'
<1> USE PluginIs DEF BatchInv, Lists
<1>1. CASE Stays
  BY <1>1 DEF Stays
<1>2. CASE Arrives
  <2>1. received' \in Entries
    BY <1>2, BatchAssumption DEF Arrives, Entries, Numbers, BatchAssumption
  <2> QED BY <1>2, <2>1, AppendedIs DEF Arrives
<1>3. CASE Formats
  BY <1>3, HeadAndTail, AppendedIs DEF Formats
<1>4. CASE FormatFails
  BY <1>4, AfterIs, NoneAre DEF FormatFails
<1>5. CASE Sends
  BY <1>5, HeadAndTail DEF Sends
<1>6. ASSUME NEW kept, Settles(kept) PROVE Lists'
  BY <1>6, AfterIs, NoneAre DEF Settles
<1> QED
  BY <1>1, <1>2, <1>3, <1>4, <1>5, <1>6, Movement

LEMMA KnownAre ==
    ASSUME BatchInv
    PROVE  /\ Range(log_list) \subseteq Entries /\ Range(data) \subseteq Entries
           /\ Range(stored) \subseteq Entries /\ Known \subseteq Entries
<1>1. Range(log_list) \subseteq Entries
  BY RangeOfSeq DEF BatchInv, Lists
<1>2. Range(data) \subseteq Entries
  BY RangeOfSeq DEF BatchInv, Lists
<1>3. Range(stored) \subseteq Entries
  BY RangeOfSeq DEF BatchInv, Numbers
<1> QED BY <1>1, <1>2, <1>3 DEF Known, BatchInv, Numbers

LEMMA NumbersStep == ASSUME BatchInv, [Next]_vars PROVE Numbers'
<1> USE DEF BatchInv, Numbers
<1>1. CASE Stays
  BY <1>1 DEF Stays, Known
<1>2. CASE Arrives
  <2>1. received' \in Entries /\ received' \in 0 .. MaxEntries /\ received < received'
    BY <1>2, BatchAssumption DEF Arrives, Entries, BatchAssumption
  <2>2. Known' = Known \cup {received'}
    BY <1>2, <2>1, AppendedIs DEF Arrives, Known, Lists
  <2>3. Known \subseteq Entries
    BY KnownAre
  <2>4. \A e \in Known' : e <= received'
    BY <2>1, <2>2, <2>3 DEF Entries
  <2> QED BY <1>2, <2>1, <2>4 DEF Arrives
<1>3. CASE Formats
  <2>1. /\ Head(log_list) \in Entries
        /\ Range(log_list) = {Head(log_list)} \cup Range(Tail(log_list))
    BY <1>3, HeadAndTail DEF Formats, Lists
  <2>2. Range(data') = Range(data) \cup {Head(log_list)}
    BY <1>3, <2>1, AppendedIs DEF Formats, Lists
  <2>3. Known' = Known
    BY <1>3, <2>1, <2>2, Zenon DEF Formats, Known
  <2> QED BY <1>3, <2>3 DEF Formats
<1>4. CASE FormatFails
  <2>1. Known' \subseteq Known /\ lost' \subseteq Entries
    BY <1>4, NoneAre, KnownAre DEF FormatFails, Known
  <2> QED BY <1>4, <2>1 DEF FormatFails
<1>5. CASE Sends
  <2>1. /\ Head(log_list) \in Entries
        /\ Range(log_list) = {Head(log_list)} \cup Range(Tail(log_list))
    BY <1>5, HeadAndTail DEF Sends, Lists
  <2>2. /\ stored' \in Seq(Entries) /\ lost' \subseteq Entries
        /\ Range(stored') \cup lost' = Range(stored) \cup lost \cup {Head(log_list)}
    <3>1. CASE stored' = Append(stored, Head(log_list)) /\ lost' = lost
      <4>1. /\ stored' \in Seq(Entries)
            /\ Range(stored') = Range(stored) \cup {Head(log_list)}
        BY <3>1, <2>1, AppendedIs
      <4> QED BY <3>1, <4>1
    <3>2. CASE lost' = lost \cup {Head(log_list)} /\ stored' = stored
      BY <3>2, <2>1
    <3> QED BY <1>5, <3>1, <3>2 DEF Sends
  <2>3. Known' = Known
    BY <1>5, <2>1, <2>2 DEF Sends, Known
  <2> QED BY <1>5, <2>2, <2>3 DEF Sends
<1>6. ASSUME NEW kept, Settles(kept) PROVE Numbers'
  <2>1. kept \in Seq(Entries) /\ Range(kept) \subseteq Range(data)
    BY <1>6, PartsAre DEF Settles, Lists
  <2>2. stored' \in Seq(Entries) /\ Range(stored') = Range(stored) \cup Range(kept)
    BY <1>6, <2>1, FrontAndRest DEF Settles
  <2>3. Known' \subseteq Known /\ lost' \subseteq Entries
    BY <1>6, <2>1, <2>2, NoneAre, KnownAre DEF Settles, Known
  <2> QED BY <1>6, <2>2, <2>3 DEF Settles
<1> QED
  BY <1>1, <1>2, <1>3, <1>4, <1>5, <1>6, Movement

LEMMA BatchStep == ASSUME BatchInv, [Next]_vars PROVE BatchInv'
BY BatchAssumption, ControlStep, SocketsStep, ListsStep, NumbersStep DEF BatchInv

LEMMA BatchInvariant == Spec => []BatchInv
<1>1. Init => BatchInv
  BY BatchAssumption, BatchInit
<1>2. BatchInv /\ [Next]_vars => BatchInv'
  BY BatchStep
<1> QED BY <1>1, <1>2, PTL DEF Spec

(* Every variable keeps to its type; only Graphite has a socket, and only  *)
(* the others a request.                                                   *)
THEOREM BatchTypes == Spec => []TypeOK
<1>1. BatchInv => TypeOK
  BY TypesAre
<1> QED BY <1>1, BatchInvariant, PTL

-----------------------------------------------------------------------------
(* The refinement: what the mapping makes of the entries.                  *)
Pending == IF gone THEN <<>> ELSE data \o log_list
Lost    == IF gone THEN lost \cup Range(data \o log_list) ELSE lost
Told    == told \/ pc = "aborted"

(* The operators the abstract module uses are this module's own.           *)
LEMMA SameRange == \A s : Promised!Range(s) = Range(s)
BY DEF Range, Promised!Range

LEMMA SameParts == \A s : Promised!Subsequences(s) = Subsequences(s)
BY DEF Subsequences, Promised!Subsequences, Ascending, Promised!Ascending,
   BoundedSeq, Promised!BoundedSeq, SeqOf, Promised!SeqOf

Same == Pending' = Pending /\ stored' = stored /\ Lost' = Lost

(* Entries dealt with: a part of the front reaches the destination, and    *)
(* the plug-in has complained if it is not all of it.                      *)
LEMMA SettleIs ==
    ASSUME NEW front \in Seq(Entries), front # <<>>, NEW rest \in Seq(Entries),
           NEW kept \in Subsequences(front),
           Pending = front \o rest, Pending' = rest, stored' = stored \o kept,
           Lost' = Lost \cup (Range(front) \ Range(kept)),
           Told' \in {Told, TRUE}, kept = front \/ Told'
    PROVE  Promised!Settle
<1>1. Len(front) \in 1 .. Len(Pending)
  BY FrontAndRest
<1>2. /\ SubSeq(Pending, 1, Len(front)) = front
      /\ SubSeq(Pending, Len(front) + 1, Len(Pending)) = rest
  BY FrontAndRest
<1>3. Lost' # Lost => Told'
  OBVIOUS
<1>4. \E n \in 1 .. Len(Pending) : \E k \in Subsequences(SubSeq(Pending, 1, n)) :
        /\ Pending' = SubSeq(Pending, n + 1, Len(Pending))
        /\ stored' = stored \o k
        /\ Lost' = Lost \cup (Range(SubSeq(Pending, 1, n)) \ Range(k))
        /\ Told' \in {Told, TRUE}
        /\ Lost' # Lost => Told'
  BY <1>1, <1>2, <1>3
<1> QED BY <1>4, SameRange, SameParts DEF Promised!Settle, Pending, Lost, Told

LEMMA SameIs ==
    ASSUME Same, Told' \in {Told, TRUE}
    PROVE  Promised!Complain \/ UNCHANGED Promised!vars
BY DEF Promised!Complain, Promised!vars, Same, Pending, Lost, Told

LEMMA TellsIs ==
    ASSUME BatchInv, told' = told \/ told' = TRUE, ~gone
    PROVE  Told' \in {Told, TRUE} /\ (told' = TRUE => Told' = TRUE)
<1>1. CASE pc' = "aborted"
  BY <1>1, Zenon DEF Told
<1>2. CASE pc' # "aborted"
  BY <1>2 DEF Told, gone, BatchInv, Control
<1> QED BY <1>1, <1>2

LEMMA StaysImplements ==
    ASSUME BatchInv, Stays
    PROVE  Promised!Next \/ UNCHANGED Promised!vars
<1> USE DEF Promised!Next
<1>1. CASE gone
  <2>1. Same /\ pc' = pc
    BY <1>1 DEF Stays, Same, Pending, Lost, gone
  <2>2. Told' \in {Told, TRUE}
    <3>1. CASE told' = TRUE
      BY <3>1, Zenon DEF Told
    <3>2. CASE told' = told
      BY <2>1, <3>2 DEF Told
    <3> QED BY <3>1, <3>2 DEF Stays
  <2> QED BY <2>1, <2>2, SameIs
<1>2. CASE ~gone
  <2>1. Told' \in {Told, TRUE}
    BY <1>2, TellsIs DEF Stays
  <2>2. CASE ~gone'
    BY <1>2, <2>1, <2>2, SameIs DEF Stays, Same, Pending, Lost
  <2>3. CASE gone'
    <3>1. data = <<>> /\ data \o log_list = log_list /\ log_list \in Seq(Entries)
      BY <2>3 DEF Stays, gone, BatchInv, Lists
    <3>2. Pending' = <<>> /\ Lost' = lost \cup Range(log_list)
      BY <2>3, <3>1 DEF Stays, Pending, Lost
    <3>3. Pending = log_list /\ Lost = lost
      BY <1>2, <3>1 DEF Pending, Lost
    <3>4. CASE log_list = <<>>
      BY <2>1, <3>2, <3>3, <3>4, NoneAre, SameIs DEF Stays, Same
    <3>5. CASE log_list # <<>>
      <4>1. Told' = TRUE
        BY <1>2, <2>3, <3>5, Zenon DEF Stays, Told
      <4>2. <<>> \in Subsequences(log_list) /\ stored' = stored \o <<>>
        BY <3>1, WholeIsPart DEF Stays, BatchInv, Numbers
      <4>3. log_list = log_list \o <<>>
        BY <3>1
      <4> QED BY <3>1, <3>2, <3>3, <3>5, <4>1, <4>2, <4>3, NoneAre, SettleIs
    <3> QED BY <3>4, <3>5
  <2> QED BY <2>2, <2>3
<1> QED BY <1>1, <1>2

LEMMA ArrivesImplements ==
    ASSUME BatchInv, Arrives, Lists'
    PROVE  Promised!Next
<1>1. ~gone /\ ~gone' /\ data = <<>> /\ data' = <<>>
  BY DEF Arrives, gone, BatchInv, Lists
<1>2. received' \in Entries
  BY BatchAssumption DEF Arrives, Entries, BatchInv, Numbers, BatchAssumption
<1>3. Pending = log_list /\ Pending' = Append(Pending, received')
  BY <1>1 DEF Pending, Arrives, BatchInv, Lists
<1>4. UNCHANGED <<stored, Lost, Told>>
  BY <1>1 DEF Arrives, Lost, Told
<1>5. received' \notin Known
  BY <1>2 DEF Arrives, BatchInv, Numbers, Entries
<1>6. received' \notin Range(Pending) \cup Range(stored) \cup Lost
  BY <1>1, <1>3, <1>5 DEF Known, Lost
<1>7. Promised!Receive
  BY <1>2, <1>3, <1>4, <1>6, SameRange DEF Promised!Receive, Pending, Lost, Told
<1> QED BY <1>7 DEF Promised!Next

LEMMA FormatsImplements ==
    ASSUME BatchInv, Formats
    PROVE  UNCHANGED Promised!vars
<1>1. ~gone /\ ~gone'
  BY DEF Formats, gone
<1>2. data' \o log_list' = data \o log_list
  <2>1. /\ Head(log_list) \in Entries /\ Tail(log_list) \in Seq(Entries)
        /\ log_list = <<Head(log_list)>> \o Tail(log_list)
    BY HeadAndTail DEF Formats, BatchInv, Lists
  <2>2. /\ Append(data, Head(log_list)) = data \o <<Head(log_list)>>
        /\ data \in Seq(Entries) /\ <<Head(log_list)>> \in Seq(Entries)
    BY <2>1 DEF BatchInv, Lists
  <2>3. (data \o <<Head(log_list)>>) \o Tail(log_list)
            = data \o (<<Head(log_list)>> \o Tail(log_list))
    BY <2>1, <2>2, ConcatAssociative
  <2> QED BY <2>1, <2>2, <2>3 DEF Formats
<1>3. Pending' = Pending /\ Lost' = Lost /\ Told' = Told
  BY <1>1, <1>2 DEF Pending, Lost, Told, Formats
<1> QED BY <1>3 DEF Promised!vars, Pending, Lost, Told, Formats

(* mistral_exit() was the last chance: what is listed yet goes with what   *)
(* was formatted.                                                          *)
LEMMA FormatFailsImplements ==
    ASSUME BatchInv, FormatFails
    PROVE  Promised!Next \/ UNCHANGED Promised!vars
<1> USE DEF Promised!Next
<1>1. ~gone /\ told' = TRUE /\ pc' \in {"running", "exit", "ended"}
  BY AfterIs DEF FormatFails, gone, Fail, Complain, BatchInv
<1>2. Told' = TRUE
  BY <1>1, Zenon DEF Told
<1>3. /\ data \in Seq(Entries) /\ log_list \in Seq(Entries) /\ log_list # <<>>
      /\ data' = <<>> /\ log_list' = log_list /\ stored' = stored
      /\ stored \in Seq(Entries) /\ lost' = lost \cup Range(data)
  BY DEF FormatFails, BatchInv, Lists, Numbers
<1>4. /\ data' \o log_list' = log_list /\ stored' = stored \o <<>>
      /\ Range(data \o log_list) = Range(data) \cup Range(log_list)
  BY <1>3, FrontAndRest
<1>5. Pending = data \o log_list /\ Lost = lost
  BY <1>1 DEF Pending, Lost
<1>6. CASE ~gone' /\ data = <<>>
  BY <1>2, <1>3, <1>4, <1>5, <1>6, NoneAre, SameIs DEF Same, Pending, Lost
<1>7. CASE ~gone' /\ data # <<>>
  <2>1. Pending' = log_list /\ Lost' = Lost \cup (Range(data) \ Range(<<>>))
    BY <1>3, <1>4, <1>5, <1>7, NoneAre DEF Pending, Lost
  <2>2. <<>> \in Subsequences(data)
    BY <1>3, WholeIsPart
  <2> QED BY <1>2, <1>3, <1>4, <1>5, <1>7, <2>1, <2>2, SettleIs
<1>8. CASE gone'
  <2> DEFINE all == data \o log_list
  <2>1. all \in Seq(Entries) /\ all # <<>> /\ all = all \o <<>>
    BY <1>3
  <2>2. Pending' = <<>> /\ Lost' = Lost \cup (Range(all) \ Range(<<>>))
    BY <1>3, <1>4, <1>5, <1>8, NoneAre DEF Pending, Lost
  <2>3. <<>> \in Subsequences(all)
    BY <2>1, WholeIsPart
  <2> HIDE DEF all
  <2>4. Pending = all \o <<>>
    BY <1>5, <2>1 DEF all
  <2> QED BY <1>2, <1>4, <2>1, <2>2, <2>3, <2>4, NoneAre, SettleIs
<1> QED BY <1>6, <1>7, <1>8

LEMMA SettlesImplements ==
    ASSUME BatchInv, NEW kept, Settles(kept)
    PROVE  Promised!Next
<1>1. ~gone /\ data \in Seq(Entries) /\ data # <<>> /\ log_list = <<>>
  BY DEF Settles, gone, BatchInv, Lists
<1>2. data' = <<>> /\ log_list' = <<>> /\ data' \o log_list' = <<>>
  BY <1>1 DEF Settles
<1>3. Pending = data \o <<>> /\ Lost = lost
  BY <1>1 DEF Pending, Lost
<1>4. Pending' = <<>> /\ Lost' = lost'
  BY <1>2, NoneAre DEF Pending, Lost
<1>5. Told' \in {Told, TRUE} /\ (told' = TRUE => Told' = TRUE)
  BY <1>1, TellsIs DEF Settles
<1>6. /\ kept \in Subsequences(data) /\ stored' = stored \o kept
      /\ Lost' = Lost \cup (Range(data) \ Range(kept))
  BY <1>3, <1>4 DEF Settles
<1>7. kept = data \/ Told'
  BY <1>5 DEF Settles
<1> QED BY <1>1, <1>3, <1>4, <1>5, <1>6, <1>7, NoneAre, SettleIs DEF Promised!Next

LEMMA SendsImplements ==
    ASSUME BatchInv, Sends
    PROVE  Promised!Next
<1> DEFINE one == <<Head(log_list)>>
<1>1. /\ ~gone /\ ~gone' /\ data = <<>> /\ data' = <<>>
      /\ log_list \in Seq(Entries) /\ log_list # <<>> /\ stored \in Seq(Entries)
  BY DEF Sends, gone, BatchInv, Lists, Numbers
<1>2. /\ Head(log_list) \in Entries /\ Tail(log_list) \in Seq(Entries)
      /\ log_list = one \o Tail(log_list) /\ one \in Seq(Entries) /\ one # <<>>
  BY <1>1, HeadAndTail
<1>3. Pending = one \o Tail(log_list) /\ Pending' = Tail(log_list)
  BY <1>1, <1>2 DEF Pending, Sends
<1>4. Lost = lost /\ Lost' = lost'
  BY <1>1 DEF Lost
<1>5. Told' \in {Told, TRUE} /\ (told' = TRUE => Told' = TRUE)
  BY <1>1, TellsIs DEF Sends
<1>6. Range(one) = {Head(log_list)}
  BY DEF Range
<1>7. one \in Subsequences(one) /\ <<>> \in Subsequences(one)
  BY <1>2, WholeIsPart
<1>8. CASE stored' = Append(stored, Head(log_list)) /\ lost' = lost
  <2>1. stored' = stored \o one /\ Lost' = Lost \cup (Range(one) \ Range(one))
    BY <1>1, <1>2, <1>4, <1>8
  <2> HIDE DEF one
  <2> QED BY <1>2, <1>3, <1>5, <1>7, <2>1, SettleIs DEF Promised!Next
<1>9. CASE lost' = lost \cup {Head(log_list)} /\ told' = TRUE /\ stored' = stored
  <2>1. stored' = stored \o <<>> /\ Lost' = Lost \cup (Range(one) \ Range(<<>>))
    BY <1>1, <1>4, <1>6, <1>9, NoneAre
  <2>2. Told' = TRUE
    BY <1>5, <1>9
  <2> HIDE DEF one
  <2> QED BY <1>2, <1>3, <1>5, <1>7, <2>1, <2>2, SettleIs DEF Promised!Next
<1> QED BY <1>8, <1>9 DEF Sends

LEMMA OutputInit == Init => Promised!Init
<1> SUFFICES ASSUME Init PROVE Promised!Init
  OBVIOUS
<1>1. Pending = <<>> /\ Lost = {} /\ Told = FALSE
  BY NoneAre DEF Init, Pending, Lost, Told, gone
<1> QED BY <1>1 DEF Promised!Init, Init, Pending, Lost, Told

LEMMA OutputStep ==
    ASSUME BatchInv, [Next]_vars, BatchInv'
    PROVE  [Promised!Next]_(Promised!vars)
<1>1. CASE Stays
  BY <1>1, StaysImplements
<1>2. CASE Arrives
  BY <1>2, ArrivesImplements DEF BatchInv
<1>3. CASE Formats
  BY <1>3, FormatsImplements
<1>4. CASE FormatFails
  BY <1>4, FormatFailsImplements
<1>5. CASE Sends
  BY <1>5, SendsImplements
<1>6. ASSUME NEW kept, Settles(kept) PROVE Promised!Next
  BY <1>6, SettlesImplements
<1> QED BY <1>1, <1>2, <1>3, <1>4, <1>5, <1>6, Movement

(* Each of the four plug-ins implements the promise, whatever fails: an    *)
(* entry is stored at most once and in order, and what is given up, with   *)
(* what the list still holds when the plug-in ends, was complained of.     *)
THEOREM BatchImplementsOutput == Spec => ImplementsOutput
<1>1. Init => Promised!Init
  BY OutputInit
<1>2. BatchInv /\ [Next]_vars /\ BatchInv' => [Promised!Next]_(Promised!vars)
  BY OutputStep
<1>3. Spec => Promised!Spec
  BY <1>1, <1>2, BatchInvariant, PTL DEF Spec, Promised!Spec
<1> QED BY <1>3 DEF ImplementsOutput
=============================================================================
