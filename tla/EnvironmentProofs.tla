-------------------------- MODULE EnvironmentProofs --------------------------
(***************************************************************************)
(* Theorems about the framework and those it works with: a plug-in that    *)
(* asks it to stop, and a session of Mistral's some lines of which are     *)
(* lost.  They rest on the theorems about the framework by itself.         *)
(***************************************************************************)
EXTENDS PluginThread, LossySession, PluginControlProofs

-----------------------------------------------------------------------------
(* How soon mistral_shutdown() is heeded, whoever calls it and however the *)
(* threads run.  The framework itself calls it when it cannot claim a      *)
(* semaphore, in the communication thread too; that is left out here.      *)

(* The framework behaves as it does when nobody looks at who asked.        *)
THEOREM ThreadIsPlugin == ThreadSpec => Spec
<1>1. ThreadInit => Init
  BY DEF ThreadInit
<1>2. [ThreadNext]_threadVars => [Next]_vars
  BY DEF ThreadNext, threadVars
<1> QED
  BY <1>1, <1>2, PTL DEF ThreadSpec, Spec

(* Once the flag is set, the processing thread is past its last call, or   *)
(* has one left if it was a thread that asked, or there never was a        *)
(* message (mistral_startup() asked); a line may be read if one was        *)
(* already waited for.                                                     *)
Heeded == ppc \in {"none", "check", "exited", "killed"}

NothingCame == accepted = <<>> /\ cpc \notin {"getline", "enqueue", "link"}

CallsLeft ==
    \/ /\ Len(handled) = asked.calls
       /\ asked.by = "thread" \/ Heeded \/ NothingCame
    \/ Len(handled) = asked.calls + 1 /\ asked.by = "thread" /\ Heeded

LinesLeft ==
    \/ lines = asked.lines
    \/ lines = asked.lines + 1 /\ cpc # "getline"

HeedInv ==
    /\ cpc = "main" => ~shutdown /\ accepted = <<>>
    /\ shutdown => CallsLeft /\ LinesLeft
    /\ shutdown => asked.calls \in Nat /\ asked.lines \in Nat

(* The steps that set the flag.                                            *)
LEMMA WhoAsks ==
    ASSUME ~Fails("sem_wait"), IInv, Next, shutdown' # shutdown
    PROVE  /\ ~shutdown /\ lines' = lines
           /\ \/ StartThread \/ StartupRejected \/ CallExit \/ ProcessMessage
              \/ ThreadAsks
<1>1. CASE \E l \in Lines : ReadLine(l)
  BY <1>1 DEF ReadLine, RejectLine, FatalLine, ReceiveSupVersion,
     AnswerFails, ReceiveInterval, IntervalPostFails, ReceiveDataStart, ReceiveDataEnd,
     ReceiveDataLine, ReceiveShutdown
<1>2. CASE Comm \/ Proc \/ Dies \/ MistralCloses \/ ThreadAsks \/ Gone
  <2>1. \/ StartThread \/ StartupRejected \/ CallExit \/ ProcessMessage \/ ThreadAsks
    BY <1>2, DiesFrame, Zenon DEF Comm, EarlyReturn, NotifyMistral, FirstInput, NoFirstInput,
     TestShutdown, EndOfInput, CommMoves, ClaimList, ClaimListFails, LinkMessage,
     PostList, SetComplete, JoinThread, CleanUp, Unparsed, Proc, ProcOnly,
     ThreadStarts, ClaimToTake, ClaimToTakeFails, TakeMessage, ReleaseList,
     SleepOneSecond, CheckShutdown, MistralCloses, Gone, vars
  <2>2. ~shutdown
    BY <2>1, Zenon DEF StartThread, StartupRejected, CallExit, ProcessMessage,
     ThreadAsks, PluginCalled, IInv, TypeOK
  <2>3. lines' = lines
    BY <2>1, Zenon DEF StartThread, StartupRejected, CallExit, ProcessMessage,
     ThreadAsks, MainOnly, ProcOnly, world
  <2> QED BY <2>1, <2>2, <2>3
<1> QED
  BY <1>1, <1>2 DEF Next, Inside

LEMMA HeedAsked ==
    ASSUME ~Fails("sem_wait"), IInv, HeedInv, ThreadNext, shutdown' # shutdown
    PROVE  HeedInv'
<1>1. /\ ~shutdown /\ lines' = lines
      /\ \/ StartThread \/ StartupRejected \/ CallExit \/ ProcessMessage
         \/ ThreadAsks
  BY WhoAsks DEF ThreadNext
<1>2. asked' = Asked(IF UNCHANGED <<cpc, ppc>> THEN "thread" ELSE "function",
                     Len(handled'), lines')
  BY DEF ThreadNext
<1>3. /\ asked'.calls = Len(handled') /\ asked'.lines = lines'
      /\ asked'.by = IF UNCHANGED <<cpc, ppc>> THEN "thread" ELSE "function"
  BY <1>2 DEF Asked
<1>t. handled' \in Seq(MessageType) /\ lines' \in Nat
  BY TypeStep DEF ThreadNext, IInv, ControlInv, TypeOK
<1>4. LinesLeft' /\ asked'.calls \in Nat /\ asked'.lines \in Nat
  BY <1>3, <1>t DEF LinesLeft
<1>5. CASE StartThread
  <2>1. cpc' = "select" /\ accepted' = accepted /\ cpc = "main"
    BY <1>5 DEF StartThread, MainOnly
  <2> QED BY <1>3, <1>4, <2>1 DEF HeedInv, CallsLeft, NothingCame
<1>6. CASE StartupRejected \/ CallExit
  <2>1. ppc \in {"none", "exited"} /\ ppc' = ppc /\ cpc' # "main"
    BY <1>6 DEF StartupRejected, CallExit, IInv, ControlInv, Placement
  <2> QED BY <1>3, <1>4, <2>1 DEF HeedInv, CallsLeft, Heeded
<1>7. CASE ProcessMessage
  <2>1. ppc' = "check" /\ cpc' = cpc /\ cpc # "main"
    BY <1>7 DEF ProcessMessage, ProcOnly, IInv, ControlInv, Placement
  <2> QED BY <1>3, <1>4, <2>1 DEF HeedInv, CallsLeft, Heeded
<1>8. CASE ThreadAsks
  <2>1. UNCHANGED <<cpc, ppc>> /\ cpc # "main"
    BY <1>8 DEF ThreadAsks, procVars, IInv, ControlInv, Placement
  <2> QED BY <1>3, <1>4, <2>1 DEF HeedInv, CallsLeft
<1> QED
  BY <1>1, <1>5, <1>6, <1>7, <1>8

(* Where the communication thread goes when the flag is set.               *)
LEMMA CommHeeds ==
    ASSUME IInv, HeedInv, shutdown, Next, Comm \/ Dies
    PROVE  /\ UNCHANGED <<handled, lines>>
           /\ cpc' # "main" /\ (cpc' = "getline" => cpc = "getline")
           /\ Heeded => Heeded'
           /\ NothingCame => NothingCame'
<1>0. cpc # "main"
  BY DEF HeedInv
<1> USE DEF Heeded, NothingCame, parser, procVars, world, told, MainOnly, Unparsed,
            AfterParse
<1>1. CASE Dies
  BY <1>0, <1>1, DiesFrame
<1>2. CASE EarlyReturn \/ StartThread \/ StartupRejected
  BY <1>0, <1>2 DEF EarlyReturn, StartThread, StartupRejected
<1>3. CASE FirstInput \/ NoFirstInput \/ TestShutdown \/ EndOfInput
  BY <1>3 DEF FirstInput, NoFirstInput, TestShutdown, EndOfInput, CommMoves
<1>4. CASE ClaimList \/ ClaimListFails \/ LinkMessage \/ PostList \/ SetComplete
  BY <1>4 DEF ClaimList, ClaimListFails, LinkMessage, PostList, SetComplete
<1>5. CASE JoinThread \/ NotifyMistral \/ CleanUp \/ CallExit
  BY <1>5 DEF JoinThread, NotifyMistral, CleanUp, CallExit
<1> QED
  BY <1>1, <1>2, <1>3, <1>4, <1>5 DEF Comm

LEMMA HeedStays ==
    ASSUME IInv, HeedInv, ThreadNext, shutdown, shutdown' = shutdown
    PROVE  HeedInv'
<1>0. asked' = asked /\ Next /\ CallsLeft /\ LinesLeft /\ cpc # "main"
  BY DEF ThreadNext, HeedInv
<1>1. CASE \E l \in Lines : ReadLine(l)
  <2>1. PICK l \in Lines : ReadLine(l)
    BY <1>1
  <2>2. /\ cpc = "getline" /\ cpc' \in {"while", "complete", "enqueue", "exit"}
        /\ UNCHANGED <<ppc, handled, accepted>>
    BY <2>1, ReadLineFrame DEF procVars, told
  <2>3. lines' = lines + 1
    BY <2>1 DEF ReadLine, RejectLine, FatalLine, ReceiveSupVersion,
       AnswerFails, ReceiveInterval, IntervalPostFails, ReceiveDataStart, ReceiveDataEnd,
       ReceiveDataLine, ReceiveShutdown, Lists, Parses
  <2> QED BY <1>0, <2>2, <2>3 DEF HeedInv, CallsLeft, LinesLeft, Heeded, NothingCame
<1>2. CASE Comm \/ Dies
  BY <1>0, <1>2, CommHeeds DEF HeedInv, CallsLeft, LinesLeft
<1>3. CASE ProcessMessage
  <2>1. /\ ppc = "process" /\ ppc' = "check" /\ cpc' = cpc /\ lines' = lines
        /\ handled' = Append(handled, message)
    BY <1>3 DEF ProcessMessage, ProcOnly, world
  <2>2. /\ message \in MessageType /\ handled \in Seq(MessageType) /\ ~teardown
        /\ messages \in Seq(MessageType)
    BY <2>1 DEF IInv, TypeOK, ControlInv, AtHand, Placement
  <2>3. Len(handled') = Len(handled) + 1
    BY <2>1, <2>2
  <2>4. accepted # <<>>
    <3>1. (handled \o <<message>>) \o messages = accepted
      BY <2>1, <2>2, ConstantsAssumption DEF IInv, NothingLost, InHand
    <3>2. Len(accepted) > 0
      BY <2>2, <3>1
    <3> QED BY <3>2
  <2>5. asked.by = "thread" /\ Len(handled) = asked.calls
    BY <1>0, <2>1, <2>4 DEF CallsLeft, Heeded, NothingCame
  <2> QED BY <1>0, <2>1, <2>3, <2>5 DEF HeedInv, CallsLeft, LinesLeft, Heeded
<1>4. CASE Proc /\ ~ProcessMessage
  <2>1. /\ UNCHANGED <<cpc, lines, accepted, handled>>
        /\ Heeded => Heeded'
    BY <1>4 DEF Proc, ProcOnly, told, world, ThreadStarts, ClaimToTake,
       ClaimToTakeFails, TakeMessage, ReleaseList, SleepOneSecond, CheckShutdown,
       Heeded, NextRound
  <2> QED BY <1>0, <2>1 DEF HeedInv, CallsLeft, LinesLeft, NothingCame
<1>5. CASE MistralCloses \/ ThreadAsks \/ Gone
  <2>1. UNCHANGED <<cpc, ppc, lines, accepted, handled>>
    BY <1>5, OtherFrame DEF procVars, told, Gone
  <2> QED BY <1>0, <2>1 DEF HeedInv, CallsLeft, LinesLeft, Heeded, NothingCame
<1> QED
  BY <1>0, <1>1, <1>2, <1>3, <1>4, <1>5 DEF Next, Inside

LEMMA HeedStep ==
    ASSUME ~Fails("sem_wait"), IInv, HeedInv, [ThreadNext]_threadVars
    PROVE  HeedInv'
<1>1. CASE UNCHANGED threadVars
  BY <1>1 DEF threadVars, vars, procVars, world, told, HeedInv, CallsLeft,
     LinesLeft, Heeded, NothingCame
<1>2. CASE ThreadNext /\ ~shutdown /\ shutdown' = shutdown
  <2>1. Next
    BY <1>2 DEF ThreadNext
  <2>2. cpc' = "main" => cpc = "main" /\ accepted' = accepted
    <3>1. CASE \E l \in Lines : ReadLine(l)
      BY <3>1, ReadLineFrame
    <3>2. CASE Comm \/ Dies
      BY <3>2, DiesFrame DEF Comm, EarlyReturn, StartThread, StartupRejected, FirstInput,
         NoFirstInput, TestShutdown, EndOfInput, CommMoves, ClaimList,
         ClaimListFails, LinkMessage, PostList, SetComplete, JoinThread,
         NotifyMistral, CleanUp, CallExit, AfterParse
    <3>3. CASE Proc
      BY <3>3, ProcFrame
    <3>4. CASE MistralCloses \/ ThreadAsks \/ Gone
      BY <3>4, OtherFrame DEF Gone
    <3> QED BY <2>1, <3>1, <3>2, <3>3, <3>4 DEF Next, Inside
  <2> QED BY <1>2, <2>2 DEF HeedInv
<1>3. CASE ThreadNext /\ shutdown /\ shutdown' = shutdown
  BY <1>3, HeedStays
<1>4. CASE ThreadNext /\ shutdown' # shutdown
  BY <1>4, HeedAsked
<1> QED
  BY <1>1, <1>2, <1>3, <1>4

(* After a plug-in function has asked for a shutdown no function but       *)
(* mistral_exit() is called; after a thread of the plug-in has, one more   *)
(* at most; and one more line at most is read.                             *)
THEOREM ShutdownIsHeeded ==
    ASSUME ~Fails("sem_wait") PROVE ThreadSpec => []ShutdownHeeded
<1>1. ThreadInit => HeedInv
  BY DEF ThreadInit, Init, HeedInv
<1>2. IInv /\ HeedInv /\ [ThreadNext]_threadVars => HeedInv'
  BY HeedStep
<1>3. IInv /\ HeedInv => ShutdownHeeded
  <2> SUFFICES ASSUME IInv, HeedInv, shutdown
               PROVE  /\ Len(handled) - asked.calls <= IF asked.by = "function" THEN 0 ELSE 1
                      /\ lines - asked.lines <= 1
    BY DEF ShutdownHeeded
  <2>1. asked.calls \in Nat /\ asked.lines \in Nat
    BY DEF HeedInv
  <2>2. /\ \/ Len(handled) = asked.calls
           \/ Len(handled) = asked.calls + 1 /\ asked.by = "thread"
        /\ lines = asked.lines \/ lines = asked.lines + 1
    BY <2>1 DEF HeedInv, CallsLeft, LinesLeft
  <2> QED BY <2>1, <2>2
<1>4. ThreadSpec => []IInv
  BY ThreadIsPlugin, Invariant
<1> QED
  BY <1>1, <1>2, <1>3, <1>4, PTL DEF ThreadSpec

-----------------------------------------------------------------------------
(* What a plug-in may believe of the blocks it is given when lines of a    *)
(* session of Mistral's are lost, for sessions of any length, any losses   *)
(* and any of the faults of PluginControl.                                 *)

(* A session is seen by the framework as any other input.                  *)
THEOREM SessionIsPlugin == SessionSpec => Spec
<1>1. SessionInit => Init
  BY DEF SessionInit
<1>2. [SessionNext]_sessionVars => [Next]_vars
  BY DEF SessionNext, sessionVars, Delivered, Lost, Next
<1> QED
  BY <1>1, <1>2, PTL DEF SessionSpec, Spec

-----------------------------------------------------------------------------
(* The side of Mistral: the block it is in, and the count of the framework,*)
(* which never runs ahead of it.                                           *)
PhaseInv ==
    /\ phase \in {"version", "between", "inside", "over"}
    /\ block \in 0 .. MaxBlocks /\ lost \in Nat
    /\ phase = "version" => block = 0
    /\ phase = "inside" => block >= 1
    /\ data_count <= block

(* The lines Mistral may write next.                                       *)
LEMMA WhatIsWritten ==
    ASSUME PhaseInv, NEW l, Writes(l)
    PROVE  /\ l.wellformed /\ l.terminated
           /\ \/ /\ l.message = "SUP_VERSION" /\ phase = "version"
                 /\ phase' = "between" /\ block' = block
              \/ /\ l.message = "DATA_START" /\ phase = "between"
                 /\ phase' = "inside" /\ block < MaxBlocks
                 /\ l.number = block + 1 /\ block' = block + 1
              \/ /\ l.message = "DATA_LINE" /\ phase = "inside"
                 /\ phase' = "inside" /\ l.data = block /\ block' = block
              \/ /\ l.message = "DATA_END" /\ phase = "inside"
                 /\ phase' = "between" /\ l.number = block /\ block' = block
              \/ /\ l.message = "SHUTDOWN" /\ phase = "between"
                 /\ phase' = "over" /\ block' = block
<1>1. \A t, n : /\ Control(t, n).message = t /\ Control(t, n).number = n
                /\ Control(t, n).wellformed = TRUE
                /\ Control(t, n).terminated = TRUE
  BY DEF Control
<1>2. ASSUME l = [Control("DATA_LINE", 0) EXCEPT !.data = block]
      PROVE  /\ l.message = "DATA_LINE" /\ l.data = block
             /\ l.wellformed = TRUE /\ l.terminated = TRUE
  BY <1>2 DEF Control
<1>3. \/ l = [Control("DATA_LINE", 0) EXCEPT !.data = block]
      \/ \E t, n : l = Control(t, n)
  BY Zenon DEF Writes
<1>4. l.wellformed = TRUE /\ l.terminated = TRUE
  <2>1. ASSUME NEW t, NEW n, l = Control(t, n)
        PROVE  l.wellformed = TRUE /\ l.terminated = TRUE
    BY <1>1, <2>1, Zenon
  <2> QED BY <1>2, <1>3, <2>1, Zenon
<1>5. ASSUME phase = "version", l = Control("SUP_VERSION", ver)
      PROVE  l.message = "SUP_VERSION"
  BY <1>1, <1>5
<1>6. ASSUME NEW n, l = Control("DATA_START", n)
      PROVE  l.message = "DATA_START" /\ l.number = n
  BY <1>1, <1>6
<1>7. ASSUME NEW n, l = Control("DATA_END", n)
      PROVE  l.message = "DATA_END" /\ l.number = n
  BY <1>1, <1>7
<1>8. ASSUME l = Control("SHUTDOWN", 0)
      PROVE  l.message = "SHUTDOWN"
  BY <1>1, <1>8
<1> QED
  BY <1>2, <1>4, <1>5, <1>6, <1>7, <1>8 DEF Writes

(* What parse_message makes of a line: the loop ends, the line is dropped, *)
(* or a message is ready to be listed.                                     *)
Dropped(l) == cpc' = "while" /\ UNCHANGED parser /\ (Refused(l) \/ Invalid(l))

Ready(l) ==
    /\ cpc' = "enqueue" /\ ~Refused(l)
    /\ this_message'.message = l.message
    /\ supported_version' <=> (supported_version \/ l.message = "SUP_VERSION")
    /\ l.message = "DATA_START" =>
          /\ in_data' /\ data_count' = l.number
          /\ this_message'.block_num = l.number
          /\ this_message'.error <=> \/ l.number = 0 \/ ~l.wellformed
                                     \/ l.number # (data_count + 1) % BlockModulus
    /\ l.message # "DATA_START" => data_count' = data_count
    /\ l.message = "DATA_END" =>
          /\ ~in_data' /\ this_message'.block_num = l.number
          /\ this_message'.error <=> \/ l.number = 0 \/ ~l.wellformed
                                     \/ l.number # data_count
    /\ l.message \notin {"DATA_START", "DATA_END"} =>
          in_data' = in_data /\ ~this_message'.error
    /\ l.message = "DATA_LINE" /\ ~Fails("strdup") => this_message'.data = l.data

LEMMA WhatIsRead ==
    ASSUME NEW l \in Lines, ReadLine(l), l.message # "INTERVAL", l.message # "USED_VERSION"
    PROVE  /\ cpc = "getline" /\ accepted' = accepted
           /\ \/ cpc' = "complete" /\ UNCHANGED <<in_data, data_count>>
              \/ Dropped(l)
              \/ Ready(l)
<1> USE DEF Dropped, Ready
<1>0. cpc = "getline" /\ accepted' = accepted
  BY ReadLineFrame
<1>1. CASE RejectLine(l) \/ FatalLine(l) \/ AnswerFails(l)
  BY <1>0, <1>1 DEF RejectLine, FatalLine, AnswerFails, parser
<1>2. CASE ReceiveSupVersion(l)
  BY <1>0, <1>2, ListsFrame DEF ReceiveSupVersion
<1>3. CASE ReceiveDataStart(l)
  BY <1>0, <1>3, ListsFrame DEF ReceiveDataStart
<1>4. CASE ReceiveDataEnd(l)
  BY <1>0, <1>4, ListsFrame DEF ReceiveDataEnd
<1>5. CASE ReceiveDataLine(l)
  <2>1. ~Fails("strdup") => this_message'.data = l.data
    BY <1>5, ConstantsAssumption DEF ReceiveDataLine, Lists, Copies, Fails
  <2> QED BY <1>0, <1>5, <2>1, ListsFrame DEF ReceiveDataLine, parser
<1>6. CASE ReceiveShutdown(l)
  BY <1>0, <1>6, ListsFrame DEF ReceiveShutdown
<1> QED
  BY <1>1, <1>2, <1>3, <1>4, <1>5, <1>6 DEF ReadLine, ReceiveInterval, IntervalPostFails

(* The steps of a session, as these proofs tell them apart.                *)
LEMMA SessionCases ==
    ASSUME [SessionNext]_sessionVars
    PROVE  \/ Delivered
           \/ Lost
           \/ LinkMessage /\ UNCHANGED mistral
           \/ OtherStep /\ UNCHANGED mistral
BY DEF SessionNext, sessionVars, Inside, OtherStep, Gone

LEMMA WrittenBlock ==
    ASSUME PhaseInv, NEW l, Writes(l)
    PROVE  /\ block \in Nat /\ block' \in Nat /\ block <= block'
           /\ l.message \in {"SUP_VERSION", "DATA_START", "DATA_LINE", "DATA_END",
                             "SHUTDOWN"}
<1>1. block \in Nat
  BY SessionAssumption, NumberFacts DEF PhaseInv
<1> QED
  BY <1>1, WhatIsWritten

LEMMA PhaseStep ==
    ASSUME TypeOK, PhaseInv, [SessionNext]_sessionVars
    PROVE  PhaseInv'
<1>0. MaxBlocks \in Nat /\ block \in Nat /\ data_count \in Nat
  BY SessionAssumption, NumberFacts DEF PhaseInv, TypeOK
<1>1. ASSUME NEW l, Writes(l), lost' \in Nat,
             \/ data_count' = data_count
             \/ l.message = "DATA_START" /\ data_count' = l.number
      PROVE  PhaseInv'
  BY <1>0, <1>1, WhatIsWritten DEF PhaseInv
<1>2. CASE Delivered
  <2>1. PICK l \in Lines : Writes(l) /\ ReadLine(l) /\ UNCHANGED lost
    BY <1>2 DEF Delivered
  <2> QED BY <1>1, <2>1, WrittenBlock, WhatIsRead DEF PhaseInv, parser, Dropped, Ready
<1>3. CASE Lost
  BY <1>1, <1>3 DEF Lost, vars, parser, PhaseInv
<1>4. CASE LinkMessage /\ UNCHANGED mistral
  BY <1>4 DEF LinkMessage, Unparsed, parser, mistral, PhaseInv
<1>5. CASE OtherStep /\ UNCHANGED mistral
  BY <1>5, CountFrame DEF parser, mistral, PhaseInv
<1> QED
  BY <1>2, <1>3, <1>4, <1>5, SessionCases

-----------------------------------------------------------------------------
(* No false alarm.  While nothing is lost the framework counts with        *)
(* Mistral: it is in the same block, and inside it or not as Mistral is.   *)
InStep == data_count = block /\ (in_data <=> phase = "inside")

AlarmInv ==
    /\ NoFalseAlarm
    /\ Pending /\ this_message.error => lost > 0
    /\ ~supported_version => data_count = 0 /\ ~in_data
    /\ supported_version => phase # "version"
    /\ lost = 0 /\ supported_version /\ (Counting \/ Pending) => InStep

LEMMA AlarmDelivered ==
    ASSUME TypeOK, PhaseInv, AlarmInv, Delivered
    PROVE  AlarmInv'
<1>1. PICK l \in Lines : Writes(l) /\ ReadLine(l) /\ UNCHANGED lost
  BY DEF Delivered
<1>2. /\ MaxBlocks \in Number /\ block \in 0 .. MaxBlocks /\ data_count \in Nat
      /\ MaxBlocks \in Nat /\ MaxBlocks < BlockModulus /\ lost \in Nat
  BY SessionAssumption, NumberFacts, ConstantsAssumption DEF PhaseInv, TypeOK, Number
<1>3. cpc = "getline" /\ accepted' = accepted
  BY <1>1, WrittenBlock, WhatIsRead
<1>4. NoFalseAlarm'
  BY <1>1, <1>3 DEF AlarmInv, NoFalseAlarm
<1>5. lost = 0 /\ supported_version => InStep
  BY <1>3 DEF AlarmInv, Counting
<1>6. CASE cpc' = "complete" /\ UNCHANGED <<in_data, data_count>>
  <2>1. supported_version' => supported_version \/ l.message = "SUP_VERSION"
    BY <1>1, <1>6, ListsFrame DEF ReadLine, RejectLine, FatalLine, AnswerFails,
       ReceiveSupVersion, ReceiveInterval, IntervalPostFails, ReceiveDataStart, ReceiveDataEnd,
       ReceiveDataLine, ReceiveShutdown, parser
  <2>2. ~supported_version' => ~supported_version
    BY <1>1, <1>6, ListsFrame DEF ReadLine, RejectLine, FatalLine, AnswerFails,
       ReceiveSupVersion, ReceiveInterval, IntervalPostFails, ReceiveDataStart, ReceiveDataEnd,
       ReceiveDataLine, ReceiveShutdown, parser
  <2> QED BY <1>1, <1>4, <1>6, <2>1, <2>2, WhatIsWritten DEF AlarmInv, Counting, Pending
<1>7. CASE Dropped(l)
  <2>1. ASSUME lost = 0, supported_version
        PROVE  InStep'
    <3>1. l.message \notin {"DATA_START", "DATA_END"}
      BY <1>1, <1>5, <1>7, <2>1, WhatIsWritten DEF Dropped, Refused, Invalid, InStep
    <3> QED BY <1>1, <1>5, <1>7, <2>1, <3>1, WhatIsWritten DEF Dropped, InStep, parser
  <2> QED BY <1>1, <1>4, <1>7, <2>1, WhatIsWritten
          DEF AlarmInv, Counting, Pending, parser, Dropped
<1>8. CASE Ready(l)
  <2>1. supported_version \/ l.message \in {"SUP_VERSION", "SHUTDOWN"}
    BY <1>8 DEF Ready, Refused
  <2>2. CASE l.message = "SUP_VERSION"
    <3>1. /\ phase = "version" /\ block = 0 /\ phase' = "between" /\ block' = 0
          /\ ~supported_version /\ data_count = 0 /\ ~in_data
      BY <1>1, <2>2, WhatIsWritten DEF AlarmInv, PhaseInv
    <3> QED BY <1>4, <1>8, <2>2, <3>1 DEF Ready, AlarmInv, InStep
  <2>3. CASE l.message = "DATA_START"
    <3>1. /\ phase = "between" /\ phase' = "inside" /\ block < MaxBlocks
          /\ l.number = block + 1 /\ block' = block + 1 /\ l.wellformed
      BY <1>1, <2>3, WhatIsWritten
    <3>2. lost = 0 => data_count = block
      BY <1>5, <2>1, <2>3 DEF InStep
    <3>3. block + 1 < BlockModulus /\ block + 1 # 0
      BY <1>2, <3>1, ConstantsAssumption
    <3>4. (block + 1) % BlockModulus = block + 1
      BY <1>2, <3>3, ConstantsAssumption
    <3>5. lost = 0 => ~this_message'.error
      BY <1>8, <2>3, <3>1, <3>2, <3>3, <3>4 DEF Ready
    <3> QED BY <1>1, <1>2, <1>4, <1>8, <2>1, <2>3, <3>1, <3>5 DEF Ready, AlarmInv, InStep
  <2>4. CASE l.message = "DATA_END"
    <3>1. /\ phase = "inside" /\ phase' = "between" /\ l.number = block
          /\ block' = block /\ l.wellformed /\ block # 0
      BY <1>1, <1>2, <2>4, WhatIsWritten DEF PhaseInv
    <3>2. lost = 0 => data_count = block
      BY <1>5, <2>1, <2>4 DEF InStep
    <3> QED BY <1>1, <1>2, <1>4, <1>8, <2>1, <2>4, <3>1, <3>2 DEF Ready, AlarmInv, InStep
  <2>5. CASE l.message \in {"DATA_LINE", "SHUTDOWN"}
    BY <1>1, <1>4, <1>5, <1>8, <2>5, WhatIsWritten DEF Ready, AlarmInv, InStep
  <2> QED BY <1>1, <2>2, <2>3, <2>4, <2>5, WrittenBlock
<1> QED
  BY <1>1, <1>6, <1>7, <1>8, WrittenBlock, WhatIsRead

LEMMA AlarmStep ==
    ASSUME TypeOK, ControlInv, PhaseInv, AlarmInv, [SessionNext]_sessionVars
    PROVE  AlarmInv'
<1>1. CASE Delivered
  BY <1>1, AlarmDelivered
<1>2. CASE Lost
  <2>1. lost \in Nat /\ lost' = lost + 1 /\ UNCHANGED vars
    BY <1>2 DEF Lost, PhaseInv
  <2>2. lost' > 0
    BY <2>1
  <2>3. PICK l \in Lines : Writes(l)
    BY <1>2 DEF Lost
  <2>4. phase' # "version"
    BY <2>3, WhatIsWritten
  <2> QED BY <2>1, <2>2, <2>4 DEF AlarmInv, NoFalseAlarm, vars, parser, Pending,
             Counting
<1>3. CASE LinkMessage /\ UNCHANGED mistral
  <2>1. /\ cpc = "link" /\ cpc' = "post" /\ UNCHANGED parser
        /\ accepted' = Append(accepted, this_message)
    BY <1>3 DEF LinkMessage, Unparsed
  <2>2. accepted \in Seq(MessageType) /\ this_message \in MessageType
    BY <2>1 DEF TypeOK, ControlInv, AtHand
  <2>3. \A i \in DOMAIN accepted' :
           \/ i \in DOMAIN accepted /\ accepted'[i] = accepted[i]
           \/ accepted'[i] = this_message
    BY <2>1, <2>2
  <2>4. this_message.error => lost > 0
    BY <2>1 DEF AlarmInv, Pending
  <2>5. NoFalseAlarm'
    BY <1>3, <2>3, <2>4 DEF NoFalseAlarm, AlarmInv, mistral
  <2> QED BY <1>3, <2>1, <2>5 DEF AlarmInv, Pending, Counting, InStep, parser, mistral
<1>4. CASE OtherStep /\ UNCHANGED mistral
  BY <1>4, CountFrame DEF AlarmInv, NoFalseAlarm, InStep, parser, mistral
<1> QED
  BY <1>1, <1>2, <1>3, <1>4, SessionCases

LEMMA SessionInvariant == SessionSpec => [](IInv /\ PhaseInv)
<1>1. SessionInit => PhaseInv
  BY SessionAssumption, NumberFacts DEF SessionInit, Init, PhaseInv
<1>2. IInv /\ PhaseInv /\ [SessionNext]_sessionVars => PhaseInv'
  BY PhaseStep DEF IInv
<1>3. SessionSpec => []IInv
  BY SessionIsPlugin, Invariant
<1> QED
  BY <1>1, <1>2, <1>3, PTL DEF SessionSpec

(* A message is flagged only when a line has been lost: counting blocks    *)
(* raises no false alarm in a session of fewer than 2^64 of them.          *)
THEOREM AlarmsAreTrue == SessionSpec => []NoFalseAlarm
<1>1. SessionInit => AlarmInv
  BY DEF SessionInit, Init, AlarmInv, NoFalseAlarm, Pending
<1>2. IInv /\ PhaseInv /\ AlarmInv /\ [SessionNext]_sessionVars => AlarmInv'
  BY AlarmStep DEF IInv
<1>3. AlarmInv => NoFalseAlarm
  BY DEF AlarmInv
<1> QED
  BY SessionInvariant, <1>1, <1>2, <1>3, PTL DEF SessionSpec

-----------------------------------------------------------------------------
(* A flagged end lacks its start.  The starts accepted carry numbers up to *)
(* the count, the ends flagged numbers up to Mistral's, and no number is   *)
(* that of both.                                                           *)
Started(s, n) ==
    \E i \in DOMAIN s : s[i].message = "DATA_START" /\ s[i].block_num = n

EndFlagged(s, n) ==
    \E i \in DOMAIN s : /\ s[i].message = "DATA_END" /\ s[i].error
                        /\ s[i].block_num = n

EndInv ==
    /\ \A n \in Number : Started(accepted, n) => n <= data_count
    /\ \A n \in Number : EndFlagged(accepted, n) =>
          n <= block /\ ~Started(accepted, n)
    /\ (Pending /\ this_message.message = "DATA_START") =>
          /\ this_message.block_num <= data_count
          /\ \A n \in Number :
                EndFlagged(accepted, n) => n < this_message.block_num
    /\ (Pending /\ this_message.message = "DATA_END" /\ this_message.error) =>
          /\ this_message.block_num <= block
          /\ \A n \in Number :
                Started(accepted, n) => n < this_message.block_num

LEMMA EndInvShows == TypeOK /\ EndInv => FlaggedEndLacksStart
<1> SUFFICES ASSUME TypeOK, EndInv, NEW i \in DOMAIN accepted, NEW j \in DOMAIN accepted,
                    accepted[i].message = "DATA_END", accepted[i].error,
                    accepted[j].message = "DATA_START",
                    accepted[j].block_num = accepted[i].block_num
             PROVE  FALSE
  BY DEF FlaggedEndLacksStart
<1>1. accepted[i] \in MessageType
  BY DEF TypeOK
<1>2. accepted[i].block_num \in Number
  BY <1>1 DEF MessageType
<1>3. /\ EndFlagged(accepted, accepted[i].block_num)
      /\ Started(accepted, accepted[i].block_num)
  BY DEF EndFlagged, Started
<1> QED
  BY <1>2, <1>3 DEF EndInv

LEMMA HistoryAppend ==
    ASSUME NEW s \in Seq(MessageType), NEW m \in MessageType, NEW n
    PROVE  /\ Started(Append(s, m), n) <=>
                 \/ Started(s, n)
                 \/ m.message = "DATA_START" /\ m.block_num = n
           /\ EndFlagged(Append(s, m), n) <=>
                 \/ EndFlagged(s, n)
                 \/ m.message = "DATA_END" /\ m.error /\ m.block_num = n
<1>1. /\ DOMAIN Append(s, m) = DOMAIN s \cup {Len(s) + 1}
      /\ Append(s, m)[Len(s) + 1] = m
      /\ \A i \in DOMAIN s : Append(s, m)[i] = s[i]
  OBVIOUS
<1> QED
  BY <1>1, Zenon DEF Started, EndFlagged

LEMMA EndDelivered ==
    ASSUME TypeOK, PhaseInv, EndInv, Delivered
    PROVE  EndInv'
<1>1. PICK l \in Lines : Writes(l) /\ ReadLine(l) /\ UNCHANGED lost
  BY DEF Delivered
<1>2. /\ accepted' = accepted
      /\ \/ cpc' \in {"complete", "while"} /\ data_count' = data_count
         \/ Ready(l)
  BY <1>1, WrittenBlock, WhatIsRead DEF Dropped, parser
<1>3. /\ block \in Nat /\ block' \in Nat /\ block <= block'
      /\ data_count \in Nat /\ data_count <= block /\ Number \subseteq Nat
  BY <1>1, WrittenBlock, NumberFacts DEF PhaseInv, TypeOK
<1>4. /\ \A n \in Number : Started(accepted, n) => n <= data_count
      /\ \A n \in Number : EndFlagged(accepted, n) =>
           n <= block /\ ~Started(accepted, n)
  BY DEF EndInv
<1>5. CASE cpc' \in {"complete", "while"} /\ data_count' = data_count
  BY <1>2, <1>3, <1>4, <1>5 DEF EndInv, Pending
<1>6. CASE Ready(l) /\ l.message = "DATA_START"
  <2>1. /\ data_count' = block + 1 /\ this_message'.block_num = block + 1
        /\ this_message'.message = "DATA_START" /\ block' = block + 1
    BY <1>1, <1>6, WhatIsWritten DEF Ready
  <2> QED BY <1>2, <1>3, <1>4, <2>1 DEF EndInv
<1>7. CASE Ready(l) /\ l.message = "DATA_END"
  <2>1. /\ data_count' = data_count /\ this_message'.block_num = block
        /\ this_message'.message = "DATA_END" /\ block' = block /\ block # 0
        /\ this_message'.error => block # data_count
    BY <1>1, <1>3, <1>7, WhatIsWritten DEF Ready, PhaseInv
  <2> QED BY <1>2, <1>3, <1>4, <2>1 DEF EndInv
<1>8. CASE Ready(l) /\ l.message \notin {"DATA_START", "DATA_END"}
  BY <1>2, <1>3, <1>4, <1>8 DEF EndInv, Ready
<1> QED
  BY <1>2, <1>5, <1>6, <1>7, <1>8

LEMMA EndStep ==
    ASSUME TypeOK, ControlInv, PhaseInv, EndInv, [SessionNext]_sessionVars
    PROVE  EndInv'
<1>0. Number \subseteq Nat
  BY NumberFacts
<1>1. CASE Delivered
  BY <1>1, EndDelivered
<1>2. CASE Lost
  <2>1. PICK l \in Lines : Writes(l)
    BY <1>2 DEF Lost
  <2>2. block \in Nat /\ block' \in Nat /\ block <= block'
    BY <2>1, WrittenBlock
  <2>3. /\ UNCHANGED <<accepted, data_count, cpc, this_message>>
        /\ Pending => this_message \in MessageType
    BY <1>2 DEF Lost, vars, parser, TypeOK, ControlInv, AtHand, Pending
  <2>4. Pending => this_message.block_num \in Nat
    BY <1>0, <2>3 DEF MessageType
  <2> QED BY <1>0, <2>2, <2>3, <2>4 DEF EndInv, Pending
<1>3. CASE LinkMessage /\ UNCHANGED mistral
  <2>1. /\ cpc = "link" /\ cpc' = "post" /\ UNCHANGED <<data_count, block>>
        /\ accepted' = Append(accepted, this_message)
    BY <1>3 DEF LinkMessage, Unparsed, parser, mistral
  <2>2. accepted \in Seq(MessageType) /\ this_message \in MessageType
    BY <2>1 DEF TypeOK, ControlInv, AtHand
  <2>3. \A n \in Number : ~(n < n)
    BY <1>0
  <2> QED BY <2>1, <2>2, <2>3, HistoryAppend DEF EndInv, Pending
<1>4. CASE OtherStep /\ UNCHANGED mistral
  BY <1>4, CountFrame DEF EndInv, parser, mistral
<1> QED
  BY <1>1, <1>2, <1>3, <1>4, SessionCases

(* The count is taken up again with every start that gets through: an end  *)
(* is flagged only if the start with its number was not accepted.          *)
THEOREM FlaggedEndsLackStarts == SessionSpec => []FlaggedEndLacksStart
<1>1. SessionInit => EndInv
  BY DEF SessionInit, Init, EndInv, Started, EndFlagged, Pending
<1>2. IInv /\ PhaseInv /\ EndInv /\ [SessionNext]_sessionVars => EndInv'
  BY EndStep DEF IInv
<1>3. IInv /\ EndInv => FlaggedEndLacksStart
  BY EndInvShows DEF IInv
<1> QED
  BY SessionInvariant, <1>1, <1>2, <1>3, PTL DEF SessionSpec

-----------------------------------------------------------------------------
(* What comes between a start and an unflagged end is one block's.  The    *)
(* data lines since the last start or end come from Mistral's blocks       *)
(* between the one the framework counts and the one Mistral is in; at an   *)
(* unflagged end these two are the same.                                   *)
OpenLines(s, i) ==
    {j \in Before(s, i, {"DATA_LINE"}) :
        \A k \in Before(s, i, {"DATA_START", "DATA_END"}) : k < j}

OpenNow == OpenLines(accepted, Len(accepted) + 1)

PureInv ==
    /\ UnflaggedBlocksArePure
    /\ (Counting \/ (Pending /\ this_message.message # "DATA_START")) =>
          \A j \in OpenNow :
              data_count <= accepted[j].data /\ accepted[j].data <= block
    /\ (Pending /\ this_message.message = "DATA_LINE") =>
          data_count <= this_message.data /\ this_message.data <= block
    /\ (Pending /\ this_message.message = "DATA_END" /\ ~this_message.error) =>
          \A j \in OpenNow : accepted[j].data = this_message.block_num

LEMMA PureMeans ==
    UnflaggedBlocksArePure <=>
        \A i \in DOMAIN accepted :
            (accepted[i].message = "DATA_END" /\ ~accepted[i].error) =>
                \A j \in OpenLines(accepted, i) :
                    accepted[j].data = accepted[i].block_num
BY Zenon DEF UnflaggedBlocksArePure, OpenLines

LEMMA OpenAppend ==
    ASSUME NEW s \in Seq(MessageType), NEW m \in MessageType
    PROVE  /\ \A i \in 1 .. (Len(s) + 1) : OpenLines(Append(s, m), i) = OpenLines(s, i)
           /\ m.message \in {"DATA_START", "DATA_END"} =>
                 OpenLines(Append(s, m), Len(s) + 2) = {}
           /\ m.message \notin {"DATA_START", "DATA_END"} =>
                 \A j \in OpenLines(Append(s, m), Len(s) + 2) :
                     \/ j \in OpenLines(s, Len(s) + 1)
                     \/ j = Len(s) + 1 /\ m.message = "DATA_LINE"
<1> DEFINE t == Append(s, m)
<1>1. /\ Len(s) \in Nat /\ t[Len(s) + 1] = m
      /\ \A j \in 1 .. Len(s) : t[j] = s[j]
  OBVIOUS
<1>2. \A i \in 1 .. (Len(s) + 1) : \A T : Before(t, i, T) = Before(s, i, T)
  BY <1>1 DEF Before
<1>3. \A T : Before(t, Len(s) + 2, T) =
                Before(s, Len(s) + 1, T) \cup
                   (IF m.message \in T THEN {Len(s) + 1} ELSE {})
  BY <1>1 DEF Before
<1>4. \A T : \A j \in Before(t, Len(s) + 2, T) : j \in Int /\ ~(Len(s) + 1 < j)
  BY <1>1 DEF Before
<1> HIDE DEF t
<1>5. \A i \in 1 .. (Len(s) + 1) : OpenLines(t, i) = OpenLines(s, i)
  BY <1>2, Zenon DEF OpenLines
<1>6. m.message \in {"DATA_START", "DATA_END"} => OpenLines(t, Len(s) + 2) = {}
  BY <1>3, <1>4 DEF OpenLines
<1>7. ASSUME m.message \notin {"DATA_START", "DATA_END"},
             NEW j \in OpenLines(t, Len(s) + 2)
      PROVE  \/ j \in OpenLines(s, Len(s) + 1)
             \/ j = Len(s) + 1 /\ m.message = "DATA_LINE"
  BY <1>3, <1>7 DEF OpenLines
<1> QED
  BY <1>5, <1>6, <1>7 DEF t

LEMMA CopiedMessage ==
    ASSUME ~Fails("strdup"), NEW m \in MessageType
    PROVE  m.data \in Nat
BY SessionAssumption, NumberFacts DEF MessageType, Copies, Fails

LEMMA PureDelivered ==
    ASSUME ~Fails("strdup"), TypeOK, PhaseInv, PureInv, Delivered
    PROVE  PureInv'
<1>1. PICK l \in Lines : Writes(l) /\ ReadLine(l) /\ UNCHANGED lost
  BY DEF Delivered
<1>2. /\ cpc = "getline" /\ accepted' = accepted
      /\ \/ cpc' \in {"complete", "while"} /\ data_count' = data_count
         \/ Ready(l)
  BY <1>1, WrittenBlock, WhatIsRead DEF Dropped, parser
<1>3. /\ block \in Nat /\ block' \in Nat /\ block <= block'
      /\ data_count \in Nat /\ data_count <= block /\ Number \subseteq Nat
  BY <1>1, WrittenBlock, NumberFacts DEF PhaseInv, TypeOK
<1>4. /\ UnflaggedBlocksArePure' /\ OpenNow' = OpenNow
      /\ \A j \in OpenNow : data_count <= accepted[j].data /\ accepted[j].data <= block
  BY <1>2 DEF PureInv, UnflaggedBlocksArePure, OpenNow, Counting
<1>5. \A j \in OpenNow : accepted[j].data \in Nat
  <2>1. \A j \in OpenNow : j \in DOMAIN accepted
    BY DEF OpenNow, OpenLines, Before, TypeOK
  <2>2. \A j \in DOMAIN accepted : accepted[j] \in MessageType
    BY DEF TypeOK
  <2> QED BY <2>1, <2>2, CopiedMessage
<1>6. CASE cpc' \in {"complete", "while"} /\ data_count' = data_count
  BY <1>2, <1>3, <1>4, <1>5, <1>6 DEF PureInv, Pending
<1>7. CASE Ready(l) /\ l.message = "DATA_START"
  BY <1>4, <1>7 DEF Ready, PureInv, Counting
<1>8. CASE Ready(l) /\ l.message = "DATA_END"
  <2>1. /\ data_count' = data_count /\ this_message'.block_num = block
        /\ this_message'.message = "DATA_END" /\ block' = block
        /\ ~this_message'.error => block = data_count
    BY <1>1, <1>3, <1>8, WhatIsWritten DEF Ready, PhaseInv
  <2> QED BY <1>2, <1>3, <1>4, <1>5, <2>1 DEF PureInv
<1>9. CASE Ready(l) /\ l.message = "DATA_LINE"
  <2>1. /\ data_count' = data_count /\ this_message'.data = block
        /\ this_message'.message = "DATA_LINE" /\ block' = block
    BY <1>1, <1>9, WhatIsWritten DEF Ready
  <2> QED BY <1>2, <1>3, <1>4, <2>1 DEF PureInv
<1>10. CASE Ready(l) /\ l.message \in {"SUP_VERSION", "SHUTDOWN"}
  <2>1. /\ data_count' = data_count /\ block' = block
        /\ this_message'.message = l.message
    BY <1>1, <1>10, WhatIsWritten DEF Ready
  <2> QED BY <1>2, <1>4, <1>10, <2>1 DEF PureInv
<1> QED
  BY <1>1, <1>2, <1>6, <1>7, <1>8, <1>9, <1>10, WrittenBlock

LEMMA PureLink ==
    ASSUME TypeOK, ControlInv, PureInv, LinkMessage, UNCHANGED mistral
    PROVE  PureInv'
<1>1. /\ cpc = "link" /\ cpc' = "post" /\ UNCHANGED <<data_count, block>>
      /\ accepted' = Append(accepted, this_message)
  BY DEF LinkMessage, Unparsed, parser, mistral
<1>2. /\ accepted \in Seq(MessageType) /\ this_message \in MessageType
      /\ Len(accepted') = Len(accepted) + 1 /\ Len(accepted) \in Nat
      /\ DOMAIN accepted' = 1 .. (Len(accepted) + 1)
      /\ accepted'[Len(accepted) + 1] = this_message
      /\ \A i \in 1 .. Len(accepted) : accepted'[i] = accepted[i]
  BY <1>1 DEF TypeOK, ControlInv, AtHand
<1>3. \A i \in 1 .. (Len(accepted) + 1) :
         /\ OpenLines(accepted', i) = OpenLines(accepted, i)
         /\ \A j \in OpenLines(accepted, i) : j \in 1 .. Len(accepted)
  <2>1. \A i \in 1 .. (Len(accepted) + 1) :
           \A j \in OpenLines(accepted, i) : j \in 1 .. Len(accepted)
    BY <1>2 DEF OpenLines, Before
  <2> QED BY <1>1, <1>2, <2>1, OpenAppend
<1>4. OpenNow = OpenLines(accepted, Len(accepted) + 1)
      /\ OpenNow' = OpenLines(accepted', Len(accepted) + 2)
  BY <1>2 DEF OpenNow
<1>5. UnflaggedBlocksArePure'
  <2> SUFFICES ASSUME NEW i \in DOMAIN accepted',
                      accepted'[i].message = "DATA_END", ~accepted'[i].error,
                      NEW j \in OpenLines(accepted', i)
               PROVE  accepted'[j].data = accepted'[i].block_num
    BY Zenon DEF UnflaggedBlocksArePure, OpenLines
  <2>1. CASE i \in 1 .. Len(accepted)
    BY <1>2, <1>3, <2>1, PureMeans DEF PureInv
  <2>2. CASE i = Len(accepted) + 1
    BY <1>1, <1>2, <1>3, <1>4, <2>2 DEF PureInv, Pending
  <2> QED BY <1>2, <2>1, <2>2
<1>6. \A j \in OpenNow' : data_count <= accepted'[j].data /\ accepted'[j].data <= block
  <2>1. CASE this_message.message \in {"DATA_START", "DATA_END"}
    BY <1>1, <1>2, <1>4, <2>1, OpenAppend
  <2>2. CASE this_message.message \notin {"DATA_START", "DATA_END"}
    <3>1. \A j \in OpenNow' : \/ j \in OpenNow
                            \/ /\ j = Len(accepted) + 1
                               /\ this_message.message = "DATA_LINE"
      BY <1>1, <1>2, <1>4, <2>2, OpenAppend
    <3>2. \A j \in OpenNow :
             data_count <= accepted[j].data /\ accepted[j].data <= block
      BY <1>1, <2>2 DEF PureInv, Pending
    <3> QED BY <1>1, <1>2, <1>3, <1>4, <3>1, <3>2 DEF PureInv, Pending
  <2> QED BY <2>1, <2>2
<1> QED
  BY <1>1, <1>5, <1>6 DEF PureInv, Pending

LEMMA PureStep ==
    ASSUME ~Fails("strdup"), TypeOK, ControlInv, PhaseInv, PureInv, [SessionNext]_sessionVars
    PROVE  PureInv'
<1>1. CASE Delivered
  BY <1>1, PureDelivered
<1>2. CASE Lost
  <2>1. PICK l \in Lines : Writes(l)
    BY <1>2 DEF Lost
  <2>2. block \in Nat /\ block' \in Nat /\ block <= block'
    BY <2>1, WrittenBlock
  <2>3. /\ UNCHANGED <<accepted, data_count, cpc, this_message, shutdown>>
        /\ Pending => this_message \in MessageType
    BY <1>2 DEF Lost, vars, parser, TypeOK, ControlInv, AtHand, Pending
  <2>4. Pending => this_message.data \in Nat
    BY <2>3, CopiedMessage
  <2>5. \A j \in OpenNow : accepted[j].data \in Nat
    <3>1. \A j \in OpenNow : j \in DOMAIN accepted
      BY DEF OpenNow, OpenLines, Before, TypeOK
    <3>2. \A j \in DOMAIN accepted : accepted[j] \in MessageType
      BY DEF TypeOK
    <3> QED BY <3>1, <3>2, CopiedMessage
  <2> QED BY <2>2, <2>3, <2>4, <2>5 DEF PureInv, Pending, Counting, OpenNow,
             UnflaggedBlocksArePure
<1>3. CASE LinkMessage /\ UNCHANGED mistral
  BY <1>3, PureLink
<1>4. CASE OtherStep /\ UNCHANGED mistral
  <2>1. /\ UNCHANGED <<accepted, data_count, block>>
        /\ Pending' => Pending /\ this_message' = this_message
        /\ Counting' => Counting
    BY <1>4, CountFrame DEF parser, mistral
  <2> QED BY <2>1 DEF PureInv, OpenNow, UnflaggedBlocksArePure
<1> QED
  BY <1>1, <1>2, <1>3, <1>4, SessionCases

(* Whatever lines are lost, all the data a plug-in is given before an end  *)
(* that is not flagged comes from the block that end names, if there is    *)
(* memory to copy it.                                                      *)
THEOREM BlocksArePure ==
    ASSUME ~Fails("strdup") PROVE SessionSpec => []UnflaggedBlocksArePure
<1>1. SessionInit => PureInv
  BY DEF SessionInit, Init, PureInv, UnflaggedBlocksArePure, Pending, OpenNow,
     OpenLines, Before
<1>2. IInv /\ PhaseInv /\ PureInv /\ [SessionNext]_sessionVars => PureInv'
  BY PureStep DEF IInv
<1>3. PureInv => UnflaggedBlocksArePure
  BY DEF PureInv
<1> QED
  BY SessionInvariant, <1>1, <1>2, <1>3, PTL DEF SessionSpec
=============================================================================
