------------------------ MODULE PluginControlProofs ------------------------
(***************************************************************************)
(* Theorems about the framework, for any set of lines, any faults and any  *)
(* number of messages.                                                     *)
(***************************************************************************)
EXTENDS PluginControl, SequenceTheorems, FiniteSetTheorems, TLAPS

(* What parse_message lists is a message whose number is a block number.   *)
LEMMA ModInNumber == ASSUME NEW n \in Number PROVE (n + 1) % BlockModulus \in Number
BY ConstantsAssumption, SMT DEF Number

LEMMA NumberFacts == 0 \in Number /\ Number \subseteq Nat
BY ConstantsAssumption DEF Number

LEMMA InitType == Init => TypeOK
<1> SUFFICES ASSUME Init PROVE TypeOK
  OBVIOUS
<1>1. /\ cpc \in {"main", "select", "while", "getline", "enqueue", "link", "post",
                   "complete", "join", "notify", "cleanup", "mistral_exit",
                   "returned", "failed"}
      /\ ppc \in {"none", "start", "loop", "take", "release", "sleep", "process",
                   "check", "exited", "killed"}
      /\ ret \in {"SUCCESS", "FAILURE"}
      /\ sem \in {"free", "comm", "proc"}
  BY DEF Init
<1>2. /\ supported_version \in BOOLEAN /\ in_data \in BOOLEAN
      /\ shutdown_message \in BOOLEAN /\ shutdown_seen \in BOOLEAN
      /\ shutdown \in BOOLEAN /\ complete \in BOOLEAN
      /\ teardown \in BOOLEAN /\ eof \in BOOLEAN
  BY DEF Init
<1>3. /\ data_count \in Number /\ interval \in Number /\ lines \in Nat
      /\ this_message \in MessageType \cup {None}
      /\ message \in MessageType \cup {None}
  BY NumberFacts DEF Init
<1>4. /\ messages \in Seq(MessageType)
      /\ stdout \in Seq({"USED_VERSION", "SHUTDOWN"})
      /\ accepted \in Seq(MessageType) /\ handled \in Seq(MessageType)
      /\ intervals_set \in Seq(Number) /\ intervals_told \in Seq(Number)
  BY EmptySeq DEF Init
<1> QED BY <1>1, <1>2, <1>3, <1>4 DEF TypeOK

LEMMA ListsType ==
    ASSUME TypeOK, NEW l \in Lines, NEW n \in Number, NEW e \in BOOLEAN,
           NEW d \in Copies, Lists(l, n, e, d)
    PROVE  this_message' \in MessageType /\ lines' \in Nat
BY ConstantsAssumption DEF Lists, Parses, MessageType, LineType, TypeOK

(* Every step that ends in disorder leaves alone all but the two positions *)
(* and what was sent to Mistral.                                           *)
LEMMA LastWordsType == TypeOK /\ LastWords => stdout' \in Seq({"USED_VERSION", "SHUTDOWN"})
<1>1. TypeOK => Append(stdout, "SHUTDOWN") \in Seq({"USED_VERSION", "SHUTDOWN"})
  BY AppendProperties DEF TypeOK
<1> QED BY <1>1 DEF LastWords, TypeOK

LEMMA DiesFrame ==
    ASSUME Dies
    PROVE  /\ UNCHANGED <<parser, this_message, message, ret, shutdown_seen, sem,
                          messages, shutdown, complete, interval, teardown, eof,
                          lines, accepted, told, intervals_set>>
           /\ stdout' = stdout \/ LastWords
           /\ \/ cpc' = "exit" /\ cpc = "post" /\ ppc' = ppc
              \/ ppc' = "exit" /\ ppc = "release" /\ cpc' = cpc
              \/ /\ cpc' = "failed" /\ ppc' = "killed"
                 /\ cpc = "exit" \/ ppc \in {"exit", "process"}
BY Zenon DEF Dies, ProcessCrashes, PostFails, ProcessExits, world

LEMMA ReadLineType ==
    ASSUME TypeOK, NEW l \in Lines, ReadLine(l)
    PROVE  TypeOK'
<1> USE DEF parser, procVars, told
<1>l. l \in LineType
  BY ConstantsAssumption
<1>f. l.number \in Number /\ l.data \in Copies /\ Blank \in Copies
  BY <1>l, ConstantsAssumption DEF LineType, Copies
<1>1. CASE RejectLine(l)
  BY <1>1 DEF RejectLine, Parses, TypeOK
<1>2. CASE FatalLine(l)
  BY <1>2 DEF FatalLine, Parses, TypeOK
<1>3. CASE ReceiveSupVersion(l)
  <2>1. this_message' \in MessageType /\ lines' \in Nat
    BY <1>3, <1>f, NumberFacts, ListsType DEF ReceiveSupVersion
  <2> QED BY <2>1, <1>3 DEF ReceiveSupVersion, Lists, TypeOK
<1>4. CASE AnswerFails(l)
  BY <1>4 DEF AnswerFails, Parses, TypeOK
<1>5. CASE ReceiveInterval(l)
  <2>1. this_message' \in MessageType /\ lines' \in Nat
    BY <1>5, <1>f, NumberFacts, ListsType DEF ReceiveInterval
  <2>2. \/ interval' = l.number /\ intervals_set' = Append(intervals_set, l.number)
        \/ interval' = interval /\ intervals_set' = intervals_set
    BY <1>5, Zenon DEF ReceiveInterval
  <2>5. Append(intervals_set, l.number) \in Seq(Number)
    BY <1>f, AppendProperties DEF TypeOK
  <2>4. intervals_set' \in Seq(Number) /\ interval' \in Number
    BY <2>2, <2>5, <1>f DEF TypeOK
  <2>3. shutdown' \in BOOLEAN
    BY <1>5 DEF ReceiveInterval, TypeOK
  <2> QED BY <2>1, <2>4, <2>3, <1>5 DEF ReceiveInterval, Lists, TypeOK
<1>6. CASE ReceiveDataStart(l)
  <2>1. this_message' \in MessageType /\ lines' \in Nat
    BY <1>6, <1>f, ListsType DEF ReceiveDataStart
  <2> QED BY <2>1, <1>6, <1>f DEF ReceiveDataStart, Lists, TypeOK
<1>7. CASE ReceiveDataEnd(l)
  <2>1. this_message' \in MessageType /\ lines' \in Nat
    BY <1>7, <1>f, ListsType DEF ReceiveDataEnd
  <2>2. in_data' \in BOOLEAN
    BY <1>7 DEF ReceiveDataEnd
  <2> QED BY <2>1, <2>2, <1>7 DEF ReceiveDataEnd, Lists, TypeOK
<1>8. CASE ReceiveDataLine(l)
  <2>1. this_message' \in MessageType /\ lines' \in Nat
    BY <1>8, <1>f, ListsType DEF ReceiveDataLine, TypeOK
  <2> QED BY <2>1, <1>8, <1>f DEF ReceiveDataLine, Lists, TypeOK
<1>9. CASE ReceiveShutdown(l)
  <2>1. this_message' \in MessageType /\ lines' \in Nat
    BY <1>9, <1>f, NumberFacts, ListsType DEF ReceiveShutdown
  <2> QED BY <2>1, <1>9, <1>f DEF ReceiveShutdown, Lists, TypeOK
<1>10. CASE IntervalPostFails(l)
  <2>1. Append(intervals_set, l.number) \in Seq(Number)
    BY <1>f, AppendProperties DEF TypeOK
  <2>2. stdout' \in Seq({"USED_VERSION", "SHUTDOWN"})
    BY <1>10, LastWordsType DEF IntervalPostFails
  <2> QED BY <2>1, <2>2, <1>10, <1>f DEF IntervalPostFails, Parses, TypeOK
<1> QED
  BY <1>1, <1>2, <1>3, <1>4, <1>5, <1>6, <1>7, <1>8, <1>9, <1>10 DEF ReadLine

(* Calling a plug-in function leaves shutdown a Boolean.                   *)
LEMMA PluginCalledType == TypeOK /\ PluginCalled => shutdown' \in BOOLEAN
BY Zenon DEF TypeOK, PluginCalled

LEMMA CommType ==
    ASSUME TypeOK, AtHand, Comm
    PROVE  TypeOK'
<1> USE DEF parser, procVars, world, told, MainOnly, Unparsed
<1>s. \A s \in {"USED_VERSION", "SHUTDOWN"} :
        Append(stdout, s) \in Seq({"USED_VERSION", "SHUTDOWN"})
  BY AppendProperties DEF TypeOK
<1>c. PluginCalled => shutdown' \in BOOLEAN
  BY PluginCalledType
<1>1. CASE EarlyReturn
  <2>1. stdout' \in Seq({"USED_VERSION", "SHUTDOWN"})
    BY <1>1, <1>s DEF EarlyReturn, TypeOK
  <2>2. cpc' = "failed" /\ MainOnly /\ UNCHANGED <<ppc, shutdown, teardown>>
    BY <1>1 DEF EarlyReturn
  <2> QED BY <2>1, <2>2 DEF TypeOK
<1>2. CASE StartThread
  BY <1>2, <1>c DEF StartThread, TypeOK
<1>3. CASE StartupRejected
  BY <1>3, <1>c DEF StartupRejected, TypeOK
<1>4. CASE FirstInput \/ NoFirstInput \/ TestShutdown \/ EndOfInput
  BY <1>4 DEF FirstInput, NoFirstInput, TestShutdown, EndOfInput, CommMoves, TypeOK
<1>5. CASE ClaimList
  BY <1>5 DEF ClaimList, TypeOK
<1>6. CASE ClaimListFails
  <2>1. shutdown' \in BOOLEAN
    BY <1>6 DEF ClaimListFails
  <2> QED BY <2>1, <1>6 DEF ClaimListFails, AfterParse, TypeOK
<1>7. CASE LinkMessage
  <2>1. Append(messages, this_message) \in Seq(MessageType)
    BY <1>7, AppendProperties DEF LinkMessage, TypeOK, AtHand
  <2>2. Append(accepted, this_message) \in Seq(MessageType)
    BY <1>7, AppendProperties DEF LinkMessage, TypeOK, AtHand
  <2> QED BY <2>1, <2>2, <1>7 DEF LinkMessage, TypeOK
<1>8. CASE PostList
  BY <1>8 DEF PostList, AfterParse, TypeOK
<1>9. CASE SetComplete
  BY <1>9 DEF SetComplete, TypeOK
<1>10. CASE JoinThread
  BY <1>10 DEF JoinThread, TypeOK
<1>11. CASE NotifyMistral
  <2>1. stdout' \in Seq({"USED_VERSION", "SHUTDOWN"})
    BY <1>11, <1>s DEF NotifyMistral, LastWords, TypeOK
  <2>2. cpc' = "cleanup" /\ MainOnly /\ UNCHANGED <<ppc, shutdown, teardown>>
    BY <1>11 DEF NotifyMistral
  <2> QED BY <2>1, <2>2 DEF TypeOK
<1>12. CASE CleanUp
  BY <1>12, EmptySeq DEF CleanUp, TypeOK
<1>13. CASE CallExit
  BY <1>13, <1>c DEF CallExit, TypeOK
<1> QED
  BY <1>1, <1>2, <1>3, <1>4, <1>5, <1>6, <1>7, <1>8, <1>9, <1>10, <1>11, <1>12,
     <1>13 DEF Comm

LEMMA ProcType ==
    ASSUME TypeOK, AtHand, Proc
    PROVE  TypeOK'
<1> USE DEF parser, procVars, world, told, ProcOnly, NextRound
<1>1. CASE ThreadStarts
  BY <1>1 DEF ThreadStarts, TypeOK
<1>2. CASE ClaimToTake
  BY <1>2 DEF ClaimToTake, TypeOK
<1>3. CASE ClaimToTakeFails
  <2>1. shutdown' \in BOOLEAN
    BY <1>3 DEF ClaimToTakeFails
  <2> QED BY <2>1, <1>3 DEF ClaimToTakeFails, TypeOK
<1>4. CASE TakeMessage
  <2>1. CASE messages # <<>>
    <3>1. Head(messages) \in MessageType /\ Tail(messages) \in Seq(MessageType)
      BY <2>1, HeadTailProperties DEF TypeOK
    <3>2. message' = Head(messages) /\ messages' = Tail(messages) /\ ret' = ret
      BY <2>1, <1>4 DEF TakeMessage
    <3> QED BY <3>1, <3>2, <1>4 DEF TakeMessage, TypeOK
  <2>2. CASE messages = <<>>
    BY <2>2, <1>4 DEF TakeMessage, TypeOK
  <2> QED BY <2>1, <2>2
<1>5. CASE ReleaseList
  BY <1>5 DEF ReleaseList, TypeOK
<1>6. CASE SleepOneSecond
  BY <1>6 DEF SleepOneSecond, TypeOK
<1>7. CASE ProcessMessage
  <2>1. Append(handled, message) \in Seq(MessageType)
    BY <1>7, AppendProperties DEF ProcessMessage, TypeOK, AtHand
  <2>2. Append(intervals_told, interval) \in Seq(Number)
    BY AppendProperties DEF TypeOK
  <2>3. shutdown' \in BOOLEAN
    BY <1>7, PluginCalledType, Zenon DEF ProcessMessage, TypeOK
  <2>4. shutdown_seen' \in BOOLEAN
    BY <1>7 DEF ProcessMessage
  <2> QED BY <2>1, <2>2, <2>3, <2>4, <1>7 DEF ProcessMessage, TypeOK
<1>8. CASE CheckShutdown
  BY <1>8 DEF CheckShutdown, TypeOK
<1> QED
  BY <1>1, <1>2, <1>3, <1>4, <1>5, <1>6, <1>7, <1>8 DEF Proc

LEMMA OtherType ==
    ASSUME TypeOK, Dies \/ MistralCloses \/ ThreadAsks \/ UNCHANGED vars
    PROVE  TypeOK'
<1> USE DEF parser, procVars, world, told
<1>1. CASE Dies
  <2>1. stdout' \in Seq({"USED_VERSION", "SHUTDOWN"})
    BY <1>1, DiesFrame, LastWordsType DEF TypeOK
  <2> QED BY <2>1, <1>1, DiesFrame DEF TypeOK
<1>2. CASE MistralCloses
  BY <1>2 DEF MistralCloses, TypeOK
<1>3. CASE ThreadAsks
  BY <1>3 DEF ThreadAsks, TypeOK
<1>4. CASE UNCHANGED vars
  BY <1>4 DEF vars, TypeOK
<1> QED
  BY <1>1, <1>2, <1>3, <1>4

(* A step leaves the types in place when a thread has a message at hand    *)
(* where its code needs one.                                               *)
LEMMA TypeStep == TypeOK /\ AtHand /\ [Next]_vars => TypeOK'
BY ReadLineType, CommType, ProcType, OtherType DEF Next, Inside, Gone

-----------------------------------------------------------------------------
(* Where the threads are, who holds the semaphore and who has a message at *)
(* hand: none of this depends on the messages.                             *)
LEMMA ReadLineControl ==
    ASSUME TypeOK, ControlInv, NEW l \in Lines, ReadLine(l)
    PROVE  ControlInv'
<1> USE DEF parser, procVars, told
<1>l. l \in LineType
  BY ConstantsAssumption
<1>f. l.number \in Number /\ l.data \in Copies /\ Blank \in Copies
  BY <1>l, ConstantsAssumption DEF LineType, Copies
<1>1. /\ cpc = "getline"
      /\ UNCHANGED <<procVars, sem, complete, teardown>>
  BY DEF ReadLine, RejectLine, FatalLine, ReceiveSupVersion, AnswerFails,
         ReceiveInterval, IntervalPostFails, ReceiveDataStart, ReceiveDataEnd, ReceiveDataLine,
         ReceiveShutdown, Lists, Parses
<1>2. \/ cpc' \in {"while", "complete", "exit"}
      \/ cpc' = "enqueue" /\ this_message' # None
  <2>1. CASE RejectLine(l) \/ FatalLine(l) \/ AnswerFails(l) \/ IntervalPostFails(l)
    BY <2>1 DEF RejectLine, FatalLine, AnswerFails, IntervalPostFails
  <2>2. CASE ReceiveSupVersion(l) \/ ReceiveInterval(l) \/ ReceiveShutdown(l)
    <3>1. Lists(l, 0, FALSE, Blank)
      BY <2>2 DEF ReceiveSupVersion, ReceiveInterval, ReceiveShutdown
    <3>2. this_message' \in MessageType
      BY <3>1, <1>f, NumberFacts, ListsType
    <3> QED BY <3>1, <3>2, ConstantsAssumption DEF Lists
  <2>3. CASE ReceiveDataStart(l)
    <3>1. this_message' \in MessageType
      BY <2>3, <1>f, ListsType DEF ReceiveDataStart
    <3> QED BY <3>1, <2>3, ConstantsAssumption DEF ReceiveDataStart, Lists
  <2>4. CASE ReceiveDataEnd(l)
    <3>1. this_message' \in MessageType
      BY <2>4, <1>f, ListsType DEF ReceiveDataEnd
    <3> QED BY <3>1, <2>4, ConstantsAssumption DEF ReceiveDataEnd, Lists
  <2>5. CASE ReceiveDataLine(l)
    <3>1. this_message' \in MessageType
      BY <2>5, <1>f, ListsType DEF ReceiveDataLine, TypeOK
    <3> QED BY <3>1, <2>5, ConstantsAssumption DEF ReceiveDataLine, Lists
  <2> QED BY <2>1, <2>2, <2>3, <2>4, <2>5 DEF ReadLine
<1> QED
  BY <1>1, <1>2 DEF ControlInv, Placement, Ownership, AtHand

LEMMA CommControl ==
    ASSUME TypeOK, ControlInv, Comm
    PROVE  ControlInv'
<1> USE DEF ControlInv, Placement, Ownership, AtHand, parser, procVars, MainOnly,
            Unparsed, AfterParse
<1>1. CASE EarlyReturn \/ StartThread \/ StartupRejected
  BY <1>1 DEF EarlyReturn, StartThread, StartupRejected
<1>2. CASE FirstInput \/ NoFirstInput \/ TestShutdown \/ EndOfInput
  BY <1>2 DEF FirstInput, NoFirstInput, TestShutdown, EndOfInput, CommMoves
<1>3. CASE ClaimList
  BY <1>3 DEF ClaimList
<1>4. CASE ClaimListFails
  BY <1>4 DEF ClaimListFails
<1>5. CASE LinkMessage
  BY <1>5 DEF LinkMessage
<1>6. CASE PostList
  BY <1>6 DEF PostList
<1>7. CASE SetComplete
  BY <1>7 DEF SetComplete
<1>8. CASE JoinThread
  BY <1>8 DEF JoinThread
<1>9. CASE NotifyMistral
  BY <1>9 DEF NotifyMistral
<1>10. CASE CleanUp
  BY <1>10 DEF CleanUp
<1>11. CASE CallExit
  BY <1>11 DEF CallExit
<1> QED
  BY <1>1, <1>2, <1>3, <1>4, <1>5, <1>6, <1>7, <1>8, <1>9, <1>10, <1>11 DEF Comm

LEMMA ProcControl ==
    ASSUME TypeOK, ControlInv, Proc
    PROVE  ControlInv'
<1> USE DEF ControlInv, Placement, Ownership, AtHand, ProcOnly, NextRound
<1>1. CASE ThreadStarts
  BY <1>1 DEF ThreadStarts
<1>2. CASE ClaimToTake \/ ClaimToTakeFails
  BY <1>2 DEF ClaimToTake, ClaimToTakeFails
<1>3. CASE TakeMessage
  BY <1>3 DEF TakeMessage
<1>4. CASE ReleaseList
  BY <1>4 DEF ReleaseList
<1>5. CASE SleepOneSecond
  BY <1>5 DEF SleepOneSecond
<1>6. CASE ProcessMessage
  BY <1>6 DEF ProcessMessage
<1>7. CASE CheckShutdown
  BY <1>7 DEF CheckShutdown
<1> QED
  BY <1>1, <1>2, <1>3, <1>4, <1>5, <1>6, <1>7 DEF Proc

LEMMA ControlStep == TypeOK /\ ControlInv /\ [Next]_vars => ControlInv'
<1> SUFFICES ASSUME TypeOK, ControlInv, [Next]_vars PROVE ControlInv'
  OBVIOUS
<1>1. CASE Dies
  BY <1>1, DiesFrame DEF ControlInv, Placement, Ownership, AtHand
<1>2. CASE MistralCloses \/ ThreadAsks
  BY <1>2 DEF MistralCloses, ThreadAsks, ControlInv, Placement, Ownership, AtHand,
              procVars
<1>3. CASE UNCHANGED vars
  BY <1>3 DEF vars, ControlInv, Placement, Ownership, AtHand, procVars
<1> QED
  BY <1>1, <1>2, <1>3, ReadLineControl, CommControl, ProcControl
  DEF Next, Inside, Gone

-----------------------------------------------------------------------------
(* Moving an element from the front of a list to the back of what precedes *)
(* it changes nothing, nor does extending both sides at the end.           *)
LEMMA ShiftHead ==
    ASSUME NEW S, NEW s \in Seq(S), NEW t \in Seq(S), t # <<>>
    PROVE  (s \o <<Head(t)>>) \o Tail(t) = (s \o <<>>) \o t
<1>1. Head(t) \in S /\ Tail(t) \in Seq(S)
  BY HeadTailProperties
<1>2. <<Head(t)>> \in Seq(S)
  BY <1>1
<1>3. <<Head(t)>> \o Tail(t) = t
  BY <1>1, <1>2
<1>4. s \o <<>> = s
  BY ConcatEmptySeq
<1> QED
  BY <1>1, <1>2, <1>3, <1>4, ConcatAssociative

LEMMA AppendRight ==
    ASSUME NEW S, NEW s \in Seq(S), NEW t \in Seq(S), NEW e \in S
    PROVE  s \o Append(t, e) = Append(s \o t, e)
<1>1. Append(t, e) = t \o <<e>> /\ <<e>> \in Seq(S)
  BY AppendIsConcat
<1>2. s \o t \in Seq(S)
  BY ConcatProperties
<1>3. Append(s \o t, e) = (s \o t) \o <<e>>
  BY <1>2, AppendIsConcat
<1> QED
  BY <1>1, <1>3, ConcatAssociative

LEMMA InHandType == TypeOK => InHand \in Seq(MessageType)
BY DEF TypeOK, InHand

Undisturbed == UNCHANGED <<ppc, message, messages, accepted, handled>>

LEMMA NothingLostUndisturbed ==
    ASSUME NothingLost, Undisturbed, teardown' = teardown
    PROVE  NothingLost'
BY DEF NothingLost, InHand, Undisturbed

LEMMA CommNothingLost ==
    ASSUME TypeOK, ControlInv, NothingLost, Comm
    PROVE  NothingLost'
<1> USE DEF parser, procVars, world, told, MainOnly, Unparsed
<1>1. CASE \/ EarlyReturn \/ StartupRejected
           \/ FirstInput \/ NoFirstInput \/ TestShutdown \/ EndOfInput
           \/ ClaimList \/ ClaimListFails \/ PostList \/ SetComplete
           \/ JoinThread \/ NotifyMistral \/ CallExit
  <2>1. Undisturbed /\ teardown' = teardown
    BY <1>1 DEF Undisturbed, EarlyReturn, StartupRejected, FirstInput,
       NoFirstInput, TestShutdown, EndOfInput, CommMoves, ClaimList,
       ClaimListFails, PostList, SetComplete, JoinThread, NotifyMistral, CallExit
  <2> QED BY <2>1, NothingLostUndisturbed
<1>2. CASE StartThread
  <2>1. ppc = "none" /\ ppc' = "start"
    BY <1>2 DEF StartThread, ControlInv, Placement
  <2>2. InHand = <<>> /\ InHand' = <<>>
    BY <2>1 DEF InHand
  <2> QED BY <2>1, <2>2, <1>2 DEF StartThread, NothingLost
<1>3. CASE LinkMessage
  <2>1. this_message \in MessageType
    BY <1>3 DEF LinkMessage, TypeOK, ControlInv, AtHand
  <2>2. /\ InHand' = InHand /\ handled' = handled
        /\ teardown' = teardown /\ ppc' = ppc
        /\ messages' = Append(messages, this_message)
        /\ accepted' = Append(accepted, this_message)
    BY <1>3 DEF LinkMessage, InHand
  <2>3. handled \o InHand \in Seq(MessageType)
    BY InHandType, ConcatProperties DEF TypeOK
  <2>4. (handled \o InHand) \o Append(messages, this_message)
          = Append((handled \o InHand) \o messages, this_message)
    BY <2>1, <2>3, AppendRight DEF TypeOK
  <2> QED BY <2>2, <2>4 DEF NothingLost
<1>4. CASE CleanUp
  BY <1>4 DEF CleanUp, NothingLost
<1> QED
  BY <1>1, <1>2, <1>3, <1>4 DEF Comm

LEMMA ProcNothingLost ==
    ASSUME TypeOK, ControlInv, NothingLost, Proc
    PROVE  NothingLost'
<1> USE DEF ProcOnly, NextRound
<1>1. teardown' = teardown /\ accepted' = accepted /\ ppc # "killed"
  BY DEF Proc, ThreadStarts, ClaimToTake, ClaimToTakeFails, TakeMessage,
         ReleaseList, SleepOneSecond, ProcessMessage, CheckShutdown
<1>2. CASE \/ ThreadStarts \/ ClaimToTake \/ ClaimToTakeFails
           \/ SleepOneSecond \/ CheckShutdown
  <2>1. /\ ppc \notin {"release", "process", "exit"}
        /\ ppc' \notin {"release", "process", "exit"}
        /\ UNCHANGED <<handled, messages>>
    BY <1>2 DEF ThreadStarts, ClaimToTake, ClaimToTakeFails, SleepOneSecond,
       CheckShutdown, told
  <2>2. InHand = <<>> /\ InHand' = <<>>
    BY <2>1 DEF InHand
  <2> QED BY <1>1, <2>1, <2>2 DEF NothingLost
<1>3. CASE TakeMessage
  <2>1. /\ message = None /\ ppc = "take" /\ ppc' = "release"
        /\ handled' = handled /\ InHand = <<>>
    BY <1>3 DEF TakeMessage, ControlInv, AtHand, InHand, told
  <2>2. CASE messages # <<>>
    <3>1. message' = Head(messages) /\ messages' = Tail(messages)
      BY <1>3, <2>2 DEF TakeMessage
    <3>2. Head(messages) \in MessageType
      BY <2>2, HeadTailProperties DEF TypeOK
    <3>3. InHand' = <<Head(messages)>>
      BY <2>1, <3>1, <3>2, ConstantsAssumption DEF InHand
    <3>4. (handled \o <<Head(messages)>>) \o Tail(messages)
            = (handled \o <<>>) \o messages
      BY <2>2, ShiftHead DEF TypeOK
    <3> QED BY <1>1, <2>1, <3>1, <3>3, <3>4 DEF NothingLost
  <2>3. CASE messages = <<>>
    <3>1. UNCHANGED <<message, messages>>
      BY <1>3, <2>3 DEF TakeMessage
    <3>2. InHand' = <<>>
      BY <2>1, <3>1 DEF InHand
    <3> QED BY <1>1, <2>1, <3>1, <3>2 DEF NothingLost
  <2> QED BY <2>2, <2>3
<1>4. CASE ReleaseList
  <2>1. UNCHANGED <<message, handled, messages>> /\ InHand' = InHand
    BY <1>4 DEF ReleaseList, InHand, told
  <2> QED BY <1>1, <2>1 DEF NothingLost
<1>5. CASE ProcessMessage
  <2>1. /\ message \in MessageType /\ ppc = "process" /\ ppc' = "check"
        /\ messages' = messages /\ handled' = Append(handled, message)
    BY <1>5 DEF ProcessMessage, ControlInv, AtHand, TypeOK
  <2>2. InHand = <<message>> /\ InHand' = <<>>
    BY <2>1, ConstantsAssumption DEF InHand
  <2>3. handled' = handled \o <<message>> /\ handled' \in Seq(MessageType)
    BY <2>1, AppendIsConcat, AppendProperties DEF TypeOK
  <2>4. handled' \o <<>> = handled'
    BY <2>3, ConcatEmptySeq
  <2> QED BY <1>1, <2>1, <2>2, <2>3, <2>4 DEF NothingLost
<1> QED
  BY <1>2, <1>3, <1>4, <1>5 DEF Proc

LEMMA NothingLostStep ==
    TypeOK /\ ControlInv /\ NothingLost /\ [Next]_vars => NothingLost'
<1> SUFFICES ASSUME TypeOK, ControlInv, NothingLost, [Next]_vars
             PROVE  NothingLost'
  OBVIOUS
<1>1. CASE \E l \in Lines : ReadLine(l)
  <2>1. Undisturbed /\ teardown' = teardown
    BY <1>1 DEF Undisturbed, ReadLine, RejectLine, FatalLine, ReceiveSupVersion,
       AnswerFails, ReceiveInterval, IntervalPostFails, ReceiveDataStart, ReceiveDataEnd,
       ReceiveDataLine, ReceiveShutdown, Lists, Parses, procVars, told
  <2> QED BY <2>1, NothingLostUndisturbed
<1>2. CASE Dies
  <2>1. ppc' # "killed" => InHand' = InHand
    BY <1>2, DiesFrame DEF InHand
  <2>2. ppc' # "killed" => ppc # "killed"
    BY <1>2, DiesFrame
  <2> QED BY <1>2, <2>1, <2>2, DiesFrame DEF NothingLost, told
<1>3. CASE MistralCloses \/ ThreadAsks \/ UNCHANGED vars
  <2>1. Undisturbed /\ teardown' = teardown
    BY <1>3 DEF Undisturbed, MistralCloses, ThreadAsks, vars, procVars, told
  <2> QED BY <2>1, NothingLostUndisturbed
<1> QED
  BY <1>1, <1>2, <1>3, CommNothingLost, ProcNothingLost DEF Next, Inside, Gone

-----------------------------------------------------------------------------
(* The inductive invariant.                                                *)
IInv == TypeOK /\ ControlInv /\ NothingLost

LEMMA InitIInv == Init => IInv
<1> SUFFICES ASSUME Init PROVE IInv
  OBVIOUS
<1>1. TypeOK
  BY InitType
<1>2. ControlInv
  BY DEF Init, ControlInv, Placement, Ownership, AtHand
<1>3. NothingLost
  <2>1. InHand = <<>>
    BY DEF Init, InHand
  <2>2. <<>> \o <<>> = <<>> /\ handled = <<>> /\ messages = <<>> /\ accepted = <<>>
    BY ConcatEmptySeq, EmptySeq DEF Init
  <2> QED BY <2>1, <2>2 DEF NothingLost
<1> QED
  BY <1>1, <1>2, <1>3 DEF IInv

THEOREM Invariant == Spec => []IInv
<1>1. IInv /\ [Next]_vars => IInv'
  BY TypeStep, ControlStep, NothingLostStep DEF IInv, ControlInv
<1> QED
  BY InitIInv, <1>1, PTL DEF Spec

(* Every variable of the framework keeps its type: in particular the       *)
(* threads never list or process anything but a message parse_message made.*)
THEOREM TypeCorrect == Spec => []TypeOK
<1>1. IInv => TypeOK
  BY DEF IInv
<1> QED
  BY Invariant, <1>1, PTL

(* At no point of any interleaving is an accepted message lost, repeated   *)
(* or out of order: what was processed, what is in hand and what is listed *)
(* are what was accepted.                                                  *)
THEOREM NothingIsLost == Spec => []NothingLost
<1>1. IInv => NothingLost
  BY DEF IInv
<1> QED
  BY Invariant, <1>1, PTL

(* main() takes the list apart and destroys its semaphore only when nobody *)
(* can use them again, whatever faults and threads there are.              *)
THEOREM ListTearDownIsSafe == Spec => []ListTornDownAlone
<1>1. IInv => ListTornDownAlone
  BY DEF IInv, TypeOK, ControlInv, Placement, Ownership, ListTornDownAlone
<1> QED
  BY Invariant, <1>1, PTL

(* Once complete is set no message is listed, so that a processing thread  *)
(* that finds the list empty may leave.                                    *)
THEOREM CompleteFinal == Spec => CompleteIsFinal
<1>1. IInv /\ [Next]_vars => [complete => accepted' = accepted]_vars
  <2> SUFFICES ASSUME IInv, Next, complete
               PROVE  accepted' = accepted
    BY DEF vars
  <2>1. cpc # "link"
    BY DEF IInv, ControlInv, Placement
  <2>2. ~ LinkMessage
    BY <2>1 DEF LinkMessage
  <2> QED
    BY <2>2, DiesFrame
    DEF Next, Inside, Comm, Proc, ReadLine, RejectLine, FatalLine,
        ReceiveSupVersion, AnswerFails, ReceiveInterval, IntervalPostFails, ReceiveDataStart,
        ReceiveDataEnd, ReceiveDataLine, ReceiveShutdown, Lists, EarlyReturn,
        StartThread, StartupRejected, FirstInput, NoFirstInput, TestShutdown,
        EndOfInput, CommMoves, ClaimList, ClaimListFails, PostList, SetComplete,
        JoinThread, NotifyMistral, CleanUp, CallExit, ThreadStarts, ClaimToTake,
        ClaimToTakeFails, TakeMessage, ReleaseList, SleepOneSecond,
        ProcessMessage, CheckShutdown, MistralCloses, ThreadAsks, Gone, vars,
        MainOnly, Unparsed, ProcOnly
<1> QED
  BY Invariant, <1>1, PTL DEF Spec, CompleteIsFinal

-----------------------------------------------------------------------------
(* What the framework has sent, accepted and handed on in the course of a  *)
(* behaviour: these theorems rest on the invariant above.                  *)

(* What reading a line leaves alone, and what it may have built.           *)
LEMMA ListsFrame ==
    ASSUME NEW l, NEW n, NEW e, NEW d, Lists(l, n, e, d)
    PROVE  /\ cpc = "getline" /\ cpc' = "enqueue"
           /\ UNCHANGED <<procVars, sem, messages, complete, teardown, eof,
                          accepted, told>>
           /\ this_message'.message = l.message /\ this_message'.block_num = n
           /\ this_message'.error = e
           /\ ~Refused(l)
BY DEF Lists, Parses

LEMMA ReadLineFrame ==
    ASSUME NEW l \in Lines, ReadLine(l)
    PROVE  /\ cpc = "getline" /\ cpc' \in {"while", "complete", "enqueue", "exit"}
           /\ UNCHANGED <<procVars, sem, messages, complete, teardown, eof,
                          accepted, told>>
           /\ cpc' = "enqueue" => this_message'.message = l.message
<1>1. CASE RejectLine(l) \/ FatalLine(l) \/ AnswerFails(l) \/ IntervalPostFails(l)
  BY <1>1 DEF RejectLine, FatalLine, AnswerFails, IntervalPostFails, Parses
<1>2. CASE ReceiveSupVersion(l) \/ ReceiveInterval(l) \/ ReceiveShutdown(l)
  BY <1>2, ListsFrame, Zenon DEF ReceiveSupVersion, ReceiveInterval, ReceiveShutdown
<1>3. CASE ReceiveDataStart(l) \/ ReceiveDataEnd(l) \/ ReceiveDataLine(l)
  BY <1>3, ListsFrame, Zenon DEF ReceiveDataStart, ReceiveDataEnd, ReceiveDataLine
<1> QED
  BY <1>1, <1>2, <1>3 DEF ReadLine

(* stdout is only ever appended to, and not by reading unless to answer.   *)
Said(s) == s = stdout \/ \E m \in {"USED_VERSION", "SHUTDOWN"} : s = Append(stdout, m)

LEMMA CommStdout ==
    ASSUME Comm \/ Dies
    PROVE  /\ Said(stdout')
           /\ UNCHANGED <<supported_version, shutdown_message>>
<1> USE DEF Said, parser, world, MainOnly, Unparsed
<1>1. CASE EarlyReturn \/ NotifyMistral \/ Dies
  BY <1>1, DiesFrame DEF EarlyReturn, NotifyMistral, LastWords
<1>2. CASE \/ StartThread \/ StartupRejected \/ FirstInput \/ NoFirstInput
           \/ TestShutdown \/ EndOfInput \/ ClaimList \/ ClaimListFails
           \/ LinkMessage \/ PostList \/ SetComplete \/ JoinThread \/ CleanUp
           \/ CallExit
  BY <1>2, Zenon DEF StartThread, StartupRejected, FirstInput, NoFirstInput,
     TestShutdown, EndOfInput, CommMoves, ClaimList, ClaimListFails, LinkMessage,
     PostList, SetComplete, JoinThread, CleanUp, CallExit
<1> QED
  BY <1>1, <1>2 DEF Comm

(* Where the communication thread is and what it has in hand are its own,  *)
(* except that a failing sem_post ends the process.                        *)
LEMMA ProcFrame ==
    ASSUME Proc
    PROVE  UNCHANGED <<cpc, parser, this_message, complete, interval, teardown,
                       world, accepted, intervals_set>>
BY Zenon DEF Proc, ProcOnly, ThreadStarts, ClaimToTake, ClaimToTakeFails, TakeMessage,
       ReleaseList, SleepOneSecond, ProcessMessage, CheckShutdown

LEMMA OtherFrame ==
    ASSUME MistralCloses \/ ThreadAsks \/ UNCHANGED vars
    PROVE  UNCHANGED <<cpc, parser, this_message, procVars, sem, messages,
                       complete, interval, teardown, stdout, lines, accepted,
                       told, intervals_set>>
BY DEF MistralCloses, ThreadAsks, vars, world

-----------------------------------------------------------------------------
(* Mistral is told of the end when there is one.  Sending the message is   *)
(* the step that leaves, and after it only steps that leave are taken by   *)
(* the thread that sent it; the other may still answer a version.          *)
LEMMA AnnouncedAppend ==
    ASSUME TypeOK, NEW m \in {"USED_VERSION", "SHUTDOWN"}, stdout' = Append(stdout, m)
    PROVE  /\ m = "USED_VERSION" => Announced' = Announced
           /\ m = "SHUTDOWN" => Announced' = Announced \cup {Len(stdout')}
<1>1. /\ stdout \in Seq({"USED_VERSION", "SHUTDOWN"}) /\ Len(stdout) \in Nat
      /\ Len(stdout') = Len(stdout) + 1
      /\ DOMAIN stdout' = DOMAIN stdout \cup {Len(stdout')}
      /\ stdout'[Len(stdout')] = m
      /\ \A i \in DOMAIN stdout : stdout'[i] = stdout[i]
  BY DEF TypeOK
<1> QED BY <1>1 DEF Announced

LEMMA LastWordsAnnounce ==
    ASSUME TypeOK, LastWords
    PROVE  \/ Announced' = Announced \cup {Len(stdout')}
           \/ Fails("send") /\ Announced' = Announced
<1>1. CASE stdout' = Append(stdout, "SHUTDOWN")
  BY <1>1, AnnouncedAppend
<1>2. CASE Fails("send") /\ stdout' = stdout
  BY <1>2 DEF Announced
<1> QED BY <1>1, <1>2 DEF LastWords

LEMMA AnnouncedReadLine ==
    ASSUME TypeOK, AnnouncedOnce, NEW l \in Lines, ReadLine(l)
    PROVE  AnnouncedOnce'
<1>0. /\ cpc = "getline" /\ cpc' \in {"while", "complete", "enqueue", "exit"}
      /\ ppc' = ppc
  BY ReadLineFrame DEF procVars
<1>1. CASE IntervalPostFails(l)
  <2>1. cpc' = "exit" /\ LastWords
    BY <1>1 DEF IntervalPostFails
  <2>2. Announced' # {} \/ Fails("send")
    BY <2>1, LastWordsAnnounce
  <2> QED BY <2>1, <2>2 DEF AnnouncedOnce, OnItsWayOut, Fails
<1>2. CASE ReceiveSupVersion(l)
  <2>1. Announced' = Announced
    BY <1>2, AnnouncedAppend DEF ReceiveSupVersion
  <2>2. cpc' = "enqueue"
    BY <1>2, ListsFrame DEF ReceiveSupVersion
  <2> QED BY <1>0, <2>1, <2>2 DEF AnnouncedOnce, OnItsWayOut, Fails
<1>3. CASE ~IntervalPostFails(l) /\ ~ReceiveSupVersion(l)
  <2>1. stdout' = stdout
    BY <1>3, Zenon DEF ReadLine, RejectLine, FatalLine, AnswerFails, ReceiveInterval,
       ReceiveDataStart, ReceiveDataEnd, ReceiveDataLine, ReceiveShutdown
  <2>2. cpc' # "exit"
    BY <1>3, ListsFrame DEF ReadLine, RejectLine, FatalLine, AnswerFails, ReceiveInterval,
       ReceiveDataStart, ReceiveDataEnd, ReceiveDataLine, ReceiveShutdown
  <2>3. Announced' = Announced
    BY <2>1 DEF Announced
  <2> QED BY <1>0, <2>2, <2>3 DEF AnnouncedOnce, OnItsWayOut, Fails
<1> QED
  BY <1>1, <1>2, <1>3

LEMMA AnnouncedStep ==
    ASSUME TypeOK, ControlInv, AnnouncedOnce, [Next]_vars
    PROVE  AnnouncedOnce'
<1>1. CASE NotifyMistral
  <2>1. /\ cpc = "notify" /\ cpc' = "cleanup" /\ ppc' = ppc
        /\ shutdown_message' = shutdown_message
    BY <1>1 DEF NotifyMistral, MainOnly, parser
  <2>2. Announced = {} /\ ppc # "exit"
    <3>1. ppc \in {"none", "exited"}
      BY <2>1 DEF ControlInv, Placement
    <3>2. ~OnItsWayOut
      BY <2>1, <3>1 DEF OnItsWayOut
    <3> QED BY <3>1, <3>2 DEF AnnouncedOnce
  <2>3. CASE ~shutdown_message /\ LastWords
    <3>1. Announced' = {Len(stdout')} \/ (Fails("send") /\ Announced' = {})
      BY <2>2, <2>3, LastWordsAnnounce
    <3> QED BY <2>1, <2>2, <2>3, <3>1 DEF AnnouncedOnce, OnItsWayOut, Fails
  <2>4. CASE shutdown_message /\ stdout' = stdout
    <3>1. Announced' = {}
      BY <2>2, <2>4 DEF Announced
    <3> QED BY <2>1, <2>2, <2>4, <3>1 DEF AnnouncedOnce, OnItsWayOut, Fails
  <2> QED BY <1>1, <2>3, <2>4 DEF NotifyMistral
<1>2. CASE EarlyReturn
  <2>1. cpc = "main" /\ cpc' = "failed" /\ ppc' = ppc
    BY <1>2 DEF EarlyReturn
  <2>2. \/ stdout' = Append(stdout, "SHUTDOWN")
        \/ Fails("send") \/ Fails("sem_init")
    BY <1>2 DEF EarlyReturn
  <2>3. Announced' # {} \/ Fails("send") \/ Fails("sem_init")
    BY <2>2, AnnouncedAppend
  <2> QED BY <2>1, <2>3 DEF AnnouncedOnce, OnItsWayOut, Fails
<1>3. CASE Comm /\ ~NotifyMistral /\ ~EarlyReturn
  <2>1. UNCHANGED <<stdout, shutdown_message>>
    BY <1>3, Zenon DEF Comm, StartThread, StartupRejected, FirstInput, NoFirstInput,
       TestShutdown, EndOfInput, CommMoves, ClaimList, ClaimListFails, LinkMessage,
       PostList, SetComplete, JoinThread, CleanUp, CallExit, MainOnly, Unparsed,
       parser, world
  <2>2. /\ cpc \notin {"exit", "failed"} /\ cpc' \notin {"exit", "failed"}
        /\ cpc \in {"cleanup", "mistral_exit", "returned"} <=>
              cpc' \in {"cleanup", "mistral_exit", "returned"}
        /\ ppc = "exit" <=> ppc' = "exit"
    BY <1>3 DEF Comm, StartThread, StartupRejected, FirstInput, NoFirstInput,
       TestShutdown, EndOfInput, CommMoves, ClaimList, ClaimListFails, LinkMessage,
       PostList, SetComplete, JoinThread, CleanUp, CallExit, MainOnly, Unparsed,
       AfterParse, procVars, ControlInv, Placement
  <2>3. Announced' = Announced
    BY <2>1 DEF Announced
  <2> QED BY <2>1, <2>2, <2>3 DEF AnnouncedOnce, OnItsWayOut, Fails
<1>4. CASE \E l \in Lines : ReadLine(l)
  BY <1>4, AnnouncedReadLine
<1>5. CASE Proc
  <2>1. cpc' = cpc /\ stdout' = stdout /\ shutdown_message' = shutdown_message
    BY <1>5, ProcFrame DEF parser, world
  <2>2. ppc # "exit" /\ ppc' # "exit"
    BY <1>5 DEF Proc, ThreadStarts, ClaimToTake, ClaimToTakeFails, TakeMessage,
       ReleaseList, SleepOneSecond, ProcessMessage, CheckShutdown, NextRound
  <2>3. Announced' = Announced
    BY <2>1 DEF Announced
  <2> QED BY <2>1, <2>2, <2>3 DEF AnnouncedOnce, OnItsWayOut, Fails
<1>6. CASE PostFails
  <2>1. /\ LastWords
        /\ \/ cpc = "post" /\ cpc' = "exit" /\ ppc' = ppc
           \/ ppc = "release" /\ ppc' = "exit" /\ cpc' = cpc
    BY <1>6 DEF PostFails
  <2>2. Announced' # {} \/ Fails("send")
    BY <2>1, LastWordsAnnounce
  <2>3. cpc' \notin {"cleanup", "mistral_exit", "returned"}
    BY <2>1 DEF ControlInv, Placement
  <2> QED BY <2>1, <2>2, <2>3 DEF AnnouncedOnce, OnItsWayOut, Fails
<1>7. CASE ProcessExits
  <2>1. (cpc = "exit" \/ ppc = "exit") /\ cpc' = "failed" /\ stdout' = stdout
    BY <1>7 DEF ProcessExits, world
  <2>2. Announced' = Announced
    BY <2>1 DEF Announced
  <2> QED BY <2>1, <2>2 DEF AnnouncedOnce, OnItsWayOut, Fails
<1>8. CASE ProcessCrashes
  <2>1. cpc' = "failed" /\ ppc = "process" /\ message.data = None
    BY <1>8 DEF ProcessCrashes
  <2>2. message \in MessageType
    BY <2>1 DEF TypeOK, ControlInv, AtHand
  <2>3. None \in Copies
    BY <2>1, <2>2 DEF MessageType
  <2>4. Fails("strdup")
    BY <2>3, ConstantsAssumption DEF Copies, Fails
  <2> QED BY <2>1, <2>4 DEF AnnouncedOnce, OnItsWayOut, Fails
<1>9. CASE MistralCloses \/ ThreadAsks \/ UNCHANGED vars
  <2>1. UNCHANGED <<cpc, ppc, stdout, shutdown_message>>
    BY <1>9, OtherFrame DEF parser, procVars
  <2>2. Announced' = Announced
    BY <2>1 DEF Announced
  <2> QED BY <2>1, <2>2 DEF AnnouncedOnce, OnItsWayOut, Fails
<1> QED
  BY <1>1, <1>2, <1>3, <1>4, <1>5, <1>6, <1>7, <1>8, <1>9 DEF Next, Inside, Dies, Gone

(* Mistral is told that the plug-in leaves when it does and not before:    *)
(* once and last if it did not ask for it, never if it did, and on the way *)
(* out of every error but a crash.                                         *)
THEOREM ExitIsAnnounced == Spec => []AnnouncedOnce
<1>1. Init => AnnouncedOnce
  BY DEF Init, AnnouncedOnce, Announced, OnItsWayOut
<1>2. IInv /\ AnnouncedOnce /\ [Next]_vars => AnnouncedOnce'
  BY AnnouncedStep DEF IInv
<1> QED
  BY Invariant, <1>1, <1>2, PTL DEF Spec

-----------------------------------------------------------------------------
(* Nothing but a shutdown reaches the plug-in before Mistral was answered. *)
(* A supported version is answered before the loop goes on, and nothing    *)
(* else passes parse_message before there is one.                          *)
Answered == \E i \in DOMAIN stdout : stdout[i] = "USED_VERSION"

AnsweredInv ==
    /\ AnsweredFirst
    /\ supported_version /\ cpc \in {"main", "select", "while", "getline",
                                      "enqueue", "link", "post"} => Answered
    /\ cpc \in {"enqueue", "link"} =>
          this_message.message = "SHUTDOWN" \/ Answered

LEMMA AnsweredStays == ASSUME TypeOK, Said(stdout'), Answered PROVE Answered'
<1>1. PICK i \in DOMAIN stdout : stdout[i] = "USED_VERSION"
  BY DEF Answered
<1>2. stdout \in Seq({"USED_VERSION", "SHUTDOWN"})
  BY DEF TypeOK
<1>3. i \in DOMAIN stdout' /\ stdout'[i] = "USED_VERSION"
  BY <1>1, <1>2 DEF Said
<1> QED
  BY <1>3 DEF Answered

LEMMA AnsweredReadLine ==
    ASSUME TypeOK, AnsweredInv, NEW l \in Lines, ReadLine(l)
    PROVE  AnsweredInv'
<1> USE DEF AnsweredInv, AnsweredFirst
<1>0. /\ cpc = "getline" /\ cpc' \in {"while", "complete", "enqueue", "exit"}
      /\ accepted' = accepted
      /\ supported_version => Answered
      /\ cpc' = "enqueue" => this_message'.message = l.message
  BY ReadLineFrame
<1>1. CASE FatalLine(l) \/ AnswerFails(l)
  <2>1. cpc' = "complete" /\ stdout' = stdout
    BY <1>1 DEF FatalLine, AnswerFails
  <2> QED BY <1>0, <2>1 DEF Answered
<1>5. CASE IntervalPostFails(l)
  <2>1. cpc' = "exit" /\ Said(stdout')
    BY <1>5 DEF IntervalPostFails, LastWords, Said
  <2>2. Answered => Answered'
    BY <2>1, AnsweredStays
  <2> QED BY <1>0, <2>1, <2>2 DEF Answered
<1>2. CASE RejectLine(l)
  <2>1. cpc' = "while" /\ stdout' = stdout /\ supported_version' = supported_version
    BY <1>2 DEF RejectLine, parser
  <2> QED BY <1>0, <2>1 DEF Answered
<1>3. CASE ReceiveSupVersion(l)
  <2>1. stdout \in Seq({"USED_VERSION", "SHUTDOWN"})
    BY DEF TypeOK
  <2>2. stdout' = Append(stdout, "USED_VERSION")
    BY <1>3 DEF ReceiveSupVersion
  <2>3. Len(stdout') \in DOMAIN stdout' /\ stdout'[Len(stdout')] = "USED_VERSION"
    BY <2>1, <2>2
  <2> QED BY <1>0, <2>3 DEF Answered
<1>4. CASE \/ ReceiveInterval(l) \/ ReceiveDataStart(l) \/ ReceiveDataEnd(l)
           \/ ReceiveDataLine(l) \/ ReceiveShutdown(l)
  <2>1. ~Refused(l)
    BY <1>4, ListsFrame, Zenon DEF ReceiveInterval, ReceiveDataStart,
       ReceiveDataEnd, ReceiveDataLine, ReceiveShutdown
  <2>2. stdout' = stdout /\ supported_version' = supported_version
    BY <1>4, Zenon DEF ReceiveInterval, ReceiveDataStart, ReceiveDataEnd, ReceiveDataLine,
       ReceiveShutdown, parser
  <2>3. l.message # "SUP_VERSION"
    BY <1>4 DEF ReceiveInterval, ReceiveDataStart, ReceiveDataEnd,
       ReceiveDataLine, ReceiveShutdown
  <2>4. l.message = "SHUTDOWN" \/ Answered
    BY <1>0, <2>1, <2>3 DEF Refused
  <2> QED BY <1>0, <2>2, <2>4 DEF Answered
<1> QED
  BY <1>1, <1>2, <1>3, <1>4, <1>5 DEF ReadLine

LEMMA AnsweredStep ==
    ASSUME TypeOK, ControlInv, AnsweredInv, [Next]_vars
    PROVE  AnsweredInv'
<1> USE DEF AnsweredInv
<1>1. CASE \E l \in Lines : ReadLine(l)
  BY <1>1, AnsweredReadLine
<1>2. CASE LinkMessage
  <2>1. /\ cpc = "link" /\ cpc' = "post" /\ stdout' = stdout
        /\ supported_version' = supported_version
        /\ accepted' = Append(accepted, this_message)
    BY <1>2 DEF LinkMessage, Unparsed, parser
  <2>2. accepted \in Seq(MessageType) /\ this_message \in MessageType
    BY <2>1 DEF TypeOK, ControlInv, AtHand
  <2>3. \A i \in DOMAIN accepted' :
           \/ i \in DOMAIN accepted /\ accepted'[i] = accepted[i]
           \/ accepted'[i] = this_message
    BY <2>1, <2>2
  <2>4. Answered' <=> Answered
    BY <2>1 DEF Answered
  <2>5. AnsweredFirst' <=> (\A i \in DOMAIN accepted' : accepted'[i].message = "SHUTDOWN") \/ Answered
    BY <2>4, Zenon DEF Answered, AnsweredFirst
  <2>6. AnsweredFirst <=> (\A i \in DOMAIN accepted : accepted[i].message = "SHUTDOWN") \/ Answered
    BY Zenon DEF Answered, AnsweredFirst
  <2>7. AnsweredFirst'
    BY <2>1, <2>3, <2>5, <2>6
  <2> QED BY <2>1, <2>4, <2>7
<1>3. CASE (Comm /\ ~LinkMessage) \/ Dies
  <2>1. Answered => Answered'
    BY <1>3, CommStdout, AnsweredStays
  <2>2. accepted' = accepted
    BY <1>3, DiesFrame, Zenon DEF Comm, EarlyReturn, NotifyMistral, StartThread,
       StartupRejected, FirstInput, NoFirstInput, TestShutdown, EndOfInput,
       CommMoves, ClaimList, ClaimListFails, PostList, SetComplete, JoinThread,
       CleanUp, CallExit, MainOnly, Unparsed
  <2>3. supported_version' = supported_version
    BY <1>3, CommStdout
  <2>4. /\ cpc' \in {"main", "select", "while", "getline", "enqueue", "link", "post"} =>
              cpc \in {"main", "select", "while", "getline", "enqueue", "link", "post"}
        /\ cpc' \in {"enqueue", "link"} =>
              cpc \in {"enqueue", "link"} /\ this_message' = this_message
    BY <1>3, DiesFrame DEF Comm, EarlyReturn, NotifyMistral, StartThread,
       StartupRejected, FirstInput, NoFirstInput, TestShutdown, EndOfInput,
       CommMoves, ClaimList, ClaimListFails, PostList, SetComplete, JoinThread,
       CleanUp, CallExit, MainOnly, Unparsed, AfterParse
  <2>5. AnsweredFirst'
    BY <2>1, <2>2 DEF AnsweredFirst, Answered
  <2> QED BY <2>1, <2>3, <2>4, <2>5
<1>4. CASE Proc
  BY <1>4, ProcFrame DEF parser, world, Answered, AnsweredFirst
<1>5. CASE MistralCloses \/ ThreadAsks \/ UNCHANGED vars
  BY <1>5, OtherFrame DEF parser, Answered, AnsweredFirst
<1> QED
  BY <1>1, <1>2, <1>3, <1>4, <1>5 DEF Next, Inside, Gone

(* No interval and no block line is accepted before the version Mistral    *)
(* supports has been answered with the version used.                       *)
THEOREM NothingBeforeTheAnswer == Spec => []AnsweredFirst
<1>1. Init => AnsweredInv
  BY DEF Init, AnsweredInv, AnsweredFirst
<1>2. IInv /\ AnsweredInv /\ [Next]_vars => AnsweredInv'
  BY AnsweredStep DEF IInv
<1>3. AnsweredInv => AnsweredFirst
  BY DEF AnsweredInv
<1> QED
  BY Invariant, <1>1, <1>2, <1>3, PTL DEF Spec

-----------------------------------------------------------------------------
(* What is not flagged is in sequence.  While the loop goes on, data_count *)
(* is the number of the last block started: of those listed, or of the     *)
(* message in hand.  A message that cannot be listed is the exception, but *)
(* then the loop has ended.                                                *)
LastBlock(n) == LastBlockIs(accepted, Len(accepted) + 1, n)

CountInv ==
    /\ cpc \in {"main", "select", "getline", "post"} => LastBlock(data_count)
    /\ cpc = "while" /\ ~shutdown => LastBlock(data_count)

PendingInv ==
    cpc \in {"enqueue", "link"} =>
        /\ this_message.message = "DATA_START" =>
              /\ this_message.block_num = data_count
              /\ ~this_message.error => LastBlock(data_count - 1)
        /\ this_message.message # "DATA_START" => LastBlock(data_count)
        /\ (this_message.message = "DATA_END" /\ ~this_message.error) =>
              this_message.block_num = data_count /\ data_count # 0

SequenceInv == UnflaggedInSequence /\ CountInv /\ PendingInv

(* What came before a message does not depend on what comes after.         *)
LEMMA BeforeAppend ==
    ASSUME NEW s \in Seq(MessageType), NEW m \in MessageType,
           NEW i \in 1 .. (Len(s) + 1), NEW n
    PROVE  LastBlockIs(Append(s, m), i, n) <=> LastBlockIs(s, i, n)
<1>1. Before(Append(s, m), i, {"DATA_START"}) = Before(s, i, {"DATA_START"})
  BY DEF Before
<1>2. \A j \in Before(s, i, {"DATA_START"}) : Append(s, m)[j] = s[j]
  BY DEF Before
<1> QED
  BY <1>1, <1>2 DEF LastBlockIs

LEMMA LastBlockAppend ==
    ASSUME NEW s \in Seq(MessageType), NEW m \in MessageType, NEW n
    PROVE  LastBlockIs(Append(s, m), Len(s) + 2, n) <=>
              IF m.message = "DATA_START" THEN m.block_num = n
              ELSE LastBlockIs(s, Len(s) + 1, n)
<1> DEFINE T == {"DATA_START"}
           t == Append(s, m)
<1>1. /\ Len(s) \in Nat /\ t[Len(s) + 1] = m
      /\ \A j \in 1 .. Len(s) : t[j] = s[j]
  OBVIOUS
<1>2. CASE m.message = "DATA_START"
  <2>1. Before(t, Len(s) + 2, T) = Before(s, Len(s) + 1, T) \cup {Len(s) + 1}
    BY <1>1, <1>2 DEF Before
  <2>2. \A k \in Before(s, Len(s) + 1, T) : k \in Nat /\ k < Len(s) + 1
    BY <1>1 DEF Before
  <2>3. \A j \in Before(t, Len(s) + 2, T) :
           (\A k \in Before(t, Len(s) + 2, T) : k <= j) <=> j = Len(s) + 1
    BY <1>1, <2>1, <2>2
  <2>4. Len(s) + 1 \in Before(t, Len(s) + 2, T)
    BY <2>1
  <2> DEFINE S == Before(t, Len(s) + 2, T)
  <2>5. LastBlockIs(t, Len(s) + 2, n) <=>
           \/ S = {} /\ n = 0
           \/ \E j \in S : t[j].block_num = n /\ \A k \in S : k <= j
    BY Zenon DEF LastBlockIs
  <2> HIDE DEF S, t
  <2>6. LastBlockIs(t, Len(s) + 2, n) <=> t[Len(s) + 1].block_num = n
    BY <2>3, <2>4, <2>5 DEF S
  <2> QED BY <1>1, <1>2, <2>6 DEF t
<1>3. CASE m.message # "DATA_START"
  <2>1. Before(t, Len(s) + 2, T) = Before(s, Len(s) + 1, T)
    BY <1>1, <1>3 DEF Before
  <2>2. \A j \in Before(s, Len(s) + 1, T) : t[j] = s[j]
    BY <1>1 DEF Before
  <2> QED BY <1>3, <2>1, <2>2 DEF LastBlockIs
<1> QED
  BY <1>2, <1>3

LEMMA NextCount ==
    ASSUME NEW n \in Number, (n + 1) % BlockModulus # 0
    PROVE  (n + 1) % BlockModulus = n + 1
<1>1. n + 1 < BlockModulus \/ n + 1 = BlockModulus
  BY ConstantsAssumption DEF Number
<1>2. n + 1 < BlockModulus => (n + 1) % BlockModulus = n + 1
  BY ConstantsAssumption, SMT DEF Number
<1>3. n + 1 = BlockModulus => (n + 1) % BlockModulus = 0
  BY ConstantsAssumption, SMT
<1> QED
  BY <1>1, <1>2, <1>3

LEMMA SequenceReadLine ==
    ASSUME TypeOK, SequenceInv, NEW l \in Lines, ReadLine(l)
    PROVE  SequenceInv'
<1>0. /\ cpc = "getline" /\ cpc' \in {"while", "complete", "enqueue", "exit"}
      /\ accepted' = accepted
  BY ReadLineFrame
<1>1. UnflaggedInSequence'
  BY <1>0 DEF SequenceInv, UnflaggedInSequence, UnflaggedStartsCount,
     UnflaggedEndsMatch
<1>2. LastBlock(data_count) /\ LastBlock(data_count)' = LastBlock(data_count')
  BY <1>0 DEF SequenceInv, CountInv, LastBlock
<1>3. CASE RejectLine(l)
  <2>1. cpc' = "while" /\ data_count' = data_count
    BY <1>3 DEF RejectLine, parser
  <2> QED BY <1>1, <1>2, <2>1 DEF SequenceInv, CountInv, PendingInv
<1>4. CASE FatalLine(l) \/ AnswerFails(l) \/ IntervalPostFails(l)
  <2>1. cpc' \in {"complete", "exit"}
    BY <1>4 DEF FatalLine, AnswerFails, IntervalPostFails
  <2> QED BY <1>1, <2>1 DEF SequenceInv, CountInv, PendingInv
<1>5. CASE \/ ReceiveSupVersion(l) \/ ReceiveInterval(l) \/ ReceiveDataLine(l)
           \/ ReceiveShutdown(l)
  <2>1. data_count' = data_count
    BY <1>5 DEF ReceiveSupVersion, ReceiveInterval, ReceiveDataLine,
       ReceiveShutdown, parser
  <2>2. cpc' = "enqueue" /\ this_message'.message \notin {"DATA_START", "DATA_END"}
    BY <1>5, ListsFrame DEF ReceiveSupVersion, ReceiveInterval, ReceiveDataLine,
       ReceiveShutdown
  <2> QED BY <1>1, <1>2, <2>1, <2>2 DEF SequenceInv, CountInv, PendingInv
<1>6. CASE ReceiveDataStart(l)
  <2>1. /\ data_count' = l.number /\ l.message = "DATA_START"
        /\ cpc' = "enqueue" /\ this_message'.message = l.message
        /\ this_message'.block_num = l.number
        /\ this_message'.error <=> \/ l.number = 0 \/ ~l.wellformed
                                   \/ l.number # (data_count + 1) % BlockModulus
    BY <1>6, ListsFrame DEF ReceiveDataStart
  <2>2. ~this_message'.error => l.number = data_count + 1
    BY <2>1, NextCount DEF TypeOK
  <2>3. data_count \in Nat
    BY NumberFacts DEF TypeOK
  <2>4. ~this_message'.error => l.number - 1 = data_count
    BY <2>2, <2>3
  <2>5. ~this_message'.error => LastBlock(data_count - 1)'
    BY <1>0, <1>2, <2>1, <2>4 DEF LastBlock
  <2> QED BY <1>1, <2>1, <2>5 DEF SequenceInv, CountInv, PendingInv
<1>7. CASE ReceiveDataEnd(l)
  <2>1. /\ data_count' = data_count /\ l.message = "DATA_END"
        /\ cpc' = "enqueue" /\ this_message'.message = l.message
        /\ this_message'.block_num = l.number
        /\ this_message'.error <=> \/ l.number = 0 \/ ~l.wellformed
                                   \/ l.number # data_count
    BY <1>7, ListsFrame DEF ReceiveDataEnd
  <2> QED BY <1>1, <1>2, <2>1 DEF SequenceInv, CountInv, PendingInv
<1> QED
  BY <1>3, <1>4, <1>5, <1>6, <1>7 DEF ReadLine

(* Listing the message in hand: it continues what was listed.              *)
LEMMA SequenceLink ==
    ASSUME TypeOK, ControlInv, SequenceInv, LinkMessage
    PROVE  SequenceInv'
<1>1. /\ cpc = "link" /\ cpc' = "post" /\ data_count' = data_count
      /\ accepted' = Append(accepted, this_message)
  BY DEF LinkMessage, Unparsed, parser
<1>2. /\ accepted \in Seq(MessageType) /\ this_message \in MessageType
      /\ Len(accepted') = Len(accepted) + 1 /\ Len(accepted) \in Nat
      /\ DOMAIN accepted' = 1 .. (Len(accepted) + 1)
      /\ accepted'[Len(accepted) + 1] = this_message
      /\ \A i \in 1 .. Len(accepted) : accepted'[i] = accepted[i]
  BY <1>1 DEF TypeOK, ControlInv, AtHand
<1>3. \A i \in 1 .. (Len(accepted) + 1) :
         \A n : LastBlockIs(accepted', i, n) <=> LastBlockIs(accepted, i, n)
  BY <1>1, <1>2, BeforeAppend
<1>p. /\ this_message.message = "DATA_START" =>
            /\ this_message.block_num = data_count
            /\ ~this_message.error => LastBlock(data_count - 1)
      /\ this_message.message # "DATA_START" => LastBlock(data_count)
      /\ (this_message.message = "DATA_END" /\ ~this_message.error) =>
            this_message.block_num = data_count /\ data_count # 0
  BY <1>1 DEF SequenceInv, PendingInv
<1>4. LastBlock(data_count)'
  <2>1. LastBlockIs(accepted', Len(accepted) + 2, data_count)
    BY <1>1, <1>2, <1>p, LastBlockAppend DEF LastBlock
  <2>2. Len(accepted') + 1 = Len(accepted) + 2
    BY <1>2
  <2> QED BY <1>1, <2>1, <2>2 DEF LastBlock
<1>5. UnflaggedStartsCount'
  <2> SUFFICES ASSUME NEW i \in DOMAIN accepted',
                      accepted'[i].message = "DATA_START", ~accepted'[i].error
               PROVE  LastBlockIs(accepted', i, accepted'[i].block_num - 1)
    BY DEF UnflaggedStartsCount
  <2>1. CASE i \in 1 .. Len(accepted)
    BY <1>2, <1>3, <2>1 DEF SequenceInv, UnflaggedInSequence, UnflaggedStartsCount
  <2>2. CASE i = Len(accepted) + 1
    BY <1>2, <1>3, <1>p, <2>2 DEF LastBlock
  <2> QED BY <1>2, <2>1, <2>2
<1>6. UnflaggedEndsMatch'
  <2> SUFFICES ASSUME NEW i \in DOMAIN accepted',
                      accepted'[i].message = "DATA_END", ~accepted'[i].error
               PROVE  /\ LastBlockIs(accepted', i, accepted'[i].block_num)
                      /\ accepted'[i].block_num # 0
    BY DEF UnflaggedEndsMatch
  <2>1. CASE i \in 1 .. Len(accepted)
    BY <1>2, <1>3, <2>1 DEF SequenceInv, UnflaggedInSequence, UnflaggedEndsMatch
  <2>2. CASE i = Len(accepted) + 1
    BY <1>2, <1>3, <1>p, <2>2 DEF LastBlock
  <2> QED BY <1>2, <2>1, <2>2
<1> QED
  BY <1>1, <1>4, <1>5, <1>6 DEF SequenceInv, UnflaggedInSequence, CountInv, PendingInv

(* Every other step leaves the list of accepted messages and the count,    *)
(* and does not bring the loop back to work.                               *)
Counting == \/ cpc \in {"main", "select", "getline", "post"}
            \/ cpc = "while" /\ ~shutdown

Pending == cpc \in {"enqueue", "link"}

OtherStep == \/ (Comm /\ ~LinkMessage) \/ Dies \/ Proc
             \/ MistralCloses \/ ThreadAsks \/ UNCHANGED vars

LEMMA CountFrame ==
    ASSUME OtherStep
    PROVE  /\ UNCHANGED <<accepted, parser>>
           /\ Pending' => Pending /\ this_message' = this_message
           /\ Counting' => Counting
<1> USE DEF Pending, Counting, parser
<1>1. CASE Comm /\ ~LinkMessage
  BY <1>1 DEF Comm, EarlyReturn, NotifyMistral, StartThread,
     StartupRejected, FirstInput, NoFirstInput, TestShutdown, EndOfInput,
     CommMoves, ClaimList, ClaimListFails, PostList, SetComplete, JoinThread,
     CleanUp, CallExit, MainOnly, Unparsed, AfterParse
<1>2. CASE Dies
  BY <1>2, DiesFrame
<1>3. CASE Proc
  <2>1. shutdown => shutdown' = TRUE
    BY <1>3, Zenon DEF Proc, ProcOnly, ThreadStarts, ClaimToTake, ClaimToTakeFails,
       TakeMessage, ReleaseList, SleepOneSecond, ProcessMessage, CheckShutdown,
       PluginCalled
  <2> QED BY <1>3, <2>1, ProcFrame
<1>4. CASE MistralCloses \/ ThreadAsks \/ UNCHANGED vars
  <2>1. shutdown => shutdown' = TRUE
    BY <1>4, Zenon DEF MistralCloses, ThreadAsks, vars
  <2> QED BY <1>4, <2>1, OtherFrame
<1> QED BY <1>1, <1>2, <1>3, <1>4 DEF OtherStep

LEMMA SequenceStep ==
    ASSUME TypeOK, ControlInv, SequenceInv, [Next]_vars
    PROVE  SequenceInv'
<1>1. CASE \E l \in Lines : ReadLine(l)
  BY <1>1, SequenceReadLine
<1>2. CASE LinkMessage
  BY <1>2, SequenceLink
<1>3. CASE OtherStep
  <2>1. /\ UNCHANGED <<accepted, data_count>>
        /\ Pending' => Pending /\ this_message' = this_message
        /\ Counting' => Counting
    BY <1>3, CountFrame DEF parser
  <2>2. UnflaggedInSequence'
    BY <2>1 DEF SequenceInv, UnflaggedInSequence, UnflaggedStartsCount,
       UnflaggedEndsMatch
  <2>3. CountInv'
    BY <2>1 DEF SequenceInv, CountInv, LastBlock, Counting
  <2>4. PendingInv'
    BY <2>1 DEF SequenceInv, PendingInv, LastBlock, Pending
  <2> QED BY <2>2, <2>3, <2>4 DEF SequenceInv
<1> QED
  BY <1>1, <1>2, <1>3 DEF Next, Inside, Gone, OtherStep

(* A block start or end handed on without its error flag really continues  *)
(* the count, or ends the block, of the last block line before it.         *)
THEOREM UnflaggedIsInSequence == Spec => []UnflaggedInSequence
<1>1. Init => SequenceInv
  BY DEF Init, SequenceInv, UnflaggedInSequence, UnflaggedStartsCount,
     UnflaggedEndsMatch, CountInv, PendingInv, LastBlock, LastBlockIs, Before
<1>2. IInv /\ SequenceInv /\ [Next]_vars => SequenceInv'
  BY SequenceStep DEF IInv
<1>3. SequenceInv => UnflaggedInSequence
  BY DEF SequenceInv
<1> QED
  BY Invariant, <1>1, <1>2, <1>3, PTL DEF Spec

-----------------------------------------------------------------------------
(* Messages in their place.  While the loop goes on, in_data says whether  *)
(* the messages listed leave a block open; a message in hand was checked   *)
(* against that.  If it cannot be listed in_data is wrong, but then the    *)
(* loop has ended.                                                         *)
BlockOpen == OpenBefore(accepted, Len(accepted) + 1)

Opened(m, open) == m.message = "DATA_START" \/ (m.message # "DATA_END" /\ open)

Fits(m, open) ==
    /\ (m.message = "DATA_LINE" /\ m.data \in Payload \ {Blank}) => open
    /\ m.message \in {"INTERVAL", "SUP_VERSION", "DATA_START"} => ~open

InPlaceInv ==
    /\ MessagesInPlace
    /\ Counting => (in_data <=> BlockOpen)
    /\ Pending => /\ in_data <=> Opened(this_message, BlockOpen)
                  /\ Fits(this_message, BlockOpen)

LEMMA OpenAfter ==
    ASSUME NEW s \in Seq(MessageType), NEW m \in MessageType
    PROVE  /\ \A i \in 1 .. (Len(s) + 1) : OpenBefore(Append(s, m), i) <=> OpenBefore(s, i)
           /\ OpenBefore(Append(s, m), Len(s) + 2) <=> Opened(m, OpenBefore(s, Len(s) + 1))
<1> DEFINE t == Append(s, m)
<1>1. /\ Len(s) \in Nat /\ t[Len(s) + 1] = m
      /\ \A j \in 1 .. Len(s) : t[j] = s[j]
  OBVIOUS
<1>2. \A i \in 1 .. (Len(s) + 1) : \A T : Before(t, i, T) = Before(s, i, T)
  BY <1>1 DEF Before
<1>3. \A T : Before(t, Len(s) + 2, T) =
                Before(s, Len(s) + 1, T) \cup
                   (IF m.message \in T THEN {Len(s) + 1} ELSE {})
  BY <1>1 DEF Before
<1>4. \A T : \A j \in Before(s, Len(s) + 1, T) : j \in Nat /\ j < Len(s) + 1
  BY <1>1 DEF Before
<1>n. ~(Len(s) + 1 < Len(s) + 1) /\ \A j \in Nat : j < Len(s) + 1 => ~(Len(s) + 1 < j)
  BY <1>1
<1> HIDE DEF t
<1>5. \A i \in 1 .. (Len(s) + 1) : OpenBefore(t, i) <=> OpenBefore(s, i)
  BY <1>2, Zenon DEF OpenBefore
<1>6. CASE m.message = "DATA_START"
  <2>1. /\ Len(s) + 1 \in Before(t, Len(s) + 2, {"DATA_START"})
        /\ Before(t, Len(s) + 2, {"DATA_END"}) = Before(s, Len(s) + 1, {"DATA_END"})
    BY <1>3, <1>6
  <2>2. OpenBefore(t, Len(s) + 2)
    BY <1>4, <2>1 DEF OpenBefore
  <2> QED BY <1>5, <1>6, <2>2 DEF t, Opened
<1>7. CASE m.message = "DATA_END"
  <2>1. /\ Len(s) + 1 \in Before(t, Len(s) + 2, {"DATA_END"})
        /\ Before(t, Len(s) + 2, {"DATA_START"}) = Before(s, Len(s) + 1, {"DATA_START"})
    BY <1>3, <1>7
  <2>2. ~OpenBefore(t, Len(s) + 2)
    BY <1>4, <1>n, <2>1, Zenon DEF OpenBefore
  <2> QED BY <1>5, <1>7, <2>2 DEF t, Opened
<1>8. CASE m.message \notin {"DATA_START", "DATA_END"}
  <2>1. \A T \in {{"DATA_START"}, {"DATA_END"}} :
           Before(t, Len(s) + 2, T) = Before(s, Len(s) + 1, T)
    BY <1>3, <1>8
  <2>2. OpenBefore(t, Len(s) + 2) <=> OpenBefore(s, Len(s) + 1)
    BY <2>1 DEF OpenBefore
  <2> QED BY <1>5, <1>8, <2>2 DEF t, Opened
<1> QED
  BY <1>6, <1>7, <1>8

LEMMA InPlaceReadLine ==
    ASSUME TypeOK, InPlaceInv, NEW l \in Lines, ReadLine(l)
    PROVE  InPlaceInv'
<1>0. /\ cpc = "getline" /\ cpc' \in {"while", "complete", "enqueue", "exit"}
      /\ accepted' = accepted /\ BlockOpen' = BlockOpen
  BY ReadLineFrame DEF BlockOpen
<1>1. MessagesInPlace' /\ (in_data <=> BlockOpen)
  BY <1>0 DEF InPlaceInv, MessagesInPlace, Counting
<1>2. CASE RejectLine(l)
  <2>1. cpc' = "while" /\ in_data' = in_data
    BY <1>2 DEF RejectLine, parser
  <2> QED BY <1>0, <1>1, <2>1 DEF InPlaceInv, Counting, Pending
<1>3. CASE FatalLine(l) \/ AnswerFails(l) \/ IntervalPostFails(l)
  <2>1. cpc' \in {"complete", "exit"}
    BY <1>3 DEF FatalLine, AnswerFails, IntervalPostFails
  <2> QED BY <1>1, <2>1 DEF InPlaceInv, Counting, Pending
<1>4. CASE \/ ReceiveSupVersion(l) \/ ReceiveInterval(l) \/ ReceiveDataStart(l)
           \/ ReceiveDataEnd(l) \/ ReceiveDataLine(l) \/ ReceiveShutdown(l)
  <2>1. cpc' = "enqueue" /\ this_message'.message = l.message /\ ~Refused(l)
    BY <1>4, ListsFrame, Zenon DEF ReceiveSupVersion, ReceiveInterval, ReceiveDataStart,
       ReceiveDataEnd, ReceiveDataLine, ReceiveShutdown
  <2>2. /\ in_data => l.message \notin {"INTERVAL", "SUP_VERSION", "DATA_START"}
        /\ l.message = "DATA_LINE" /\ ~in_data => l.data = Blank
    BY <2>1 DEF Refused
  <2>3. in_data' = IF l.message = "DATA_START" THEN TRUE
                   ELSE IF l.message = "DATA_END" THEN FALSE ELSE in_data
    BY <1>4 DEF ReceiveSupVersion, ReceiveInterval, ReceiveDataStart, ReceiveDataEnd,
       ReceiveDataLine, ReceiveShutdown, parser
  <2>4. l.message = "DATA_LINE" => this_message'.data \in {l.data, None}
    BY <1>4 DEF ReceiveSupVersion, ReceiveInterval, ReceiveDataStart, ReceiveDataEnd,
       ReceiveDataLine, ReceiveShutdown, Lists
  <2>5. None \notin Payload
    BY ConstantsAssumption
  <2>6. Fits(this_message', BlockOpen)
    BY <1>1, <2>1, <2>2, <2>4, <2>5 DEF Fits
  <2>7. in_data' <=> Opened(this_message', BlockOpen)
    BY <1>1, <2>1, <2>3 DEF Opened
  <2> QED BY <1>0, <1>1, <2>1, <2>6, <2>7 DEF InPlaceInv, Counting, Pending
<1> QED
  BY <1>2, <1>3, <1>4 DEF ReadLine

LEMMA InPlaceLink ==
    ASSUME TypeOK, ControlInv, InPlaceInv, LinkMessage
    PROVE  InPlaceInv'
<1>1. /\ cpc = "link" /\ cpc' = "post" /\ in_data' = in_data
      /\ accepted' = Append(accepted, this_message)
  BY DEF LinkMessage, Unparsed, parser
<1>2. /\ accepted \in Seq(MessageType) /\ this_message \in MessageType
      /\ Len(accepted') = Len(accepted) + 1 /\ Len(accepted) \in Nat
      /\ DOMAIN accepted' = 1 .. (Len(accepted) + 1)
      /\ accepted'[Len(accepted) + 1] = this_message
      /\ \A i \in 1 .. Len(accepted) : accepted'[i] = accepted[i]
  BY <1>1 DEF TypeOK, ControlInv, AtHand
<1>3. /\ \A i \in 1 .. (Len(accepted) + 1) : OpenBefore(accepted', i) <=> OpenBefore(accepted, i)
      /\ BlockOpen' <=> Opened(this_message, BlockOpen)
  BY <1>1, <1>2, OpenAfter DEF BlockOpen
<1>4. (in_data <=> Opened(this_message, BlockOpen)) /\ Fits(this_message, BlockOpen)
  BY <1>1 DEF InPlaceInv, Pending
<1>5. \A i \in DOMAIN accepted' : Fits(accepted'[i], OpenBefore(accepted', i))
  <2> SUFFICES ASSUME NEW i \in DOMAIN accepted'
               PROVE  Fits(accepted'[i], OpenBefore(accepted', i))
    OBVIOUS
  <2>1. CASE i \in 1 .. Len(accepted)
    BY <1>2, <1>3, <2>1 DEF InPlaceInv, MessagesInPlace, Fits
  <2>2. CASE i = Len(accepted) + 1
    BY <1>2, <1>3, <1>4, <2>2 DEF BlockOpen, Fits
  <2> QED BY <1>2, <2>1, <2>2
<1> QED
  BY <1>1, <1>3, <1>4, <1>5 DEF InPlaceInv, MessagesInPlace, Fits, Counting, Pending

LEMMA InPlaceStep ==
    ASSUME TypeOK, ControlInv, InPlaceInv, [Next]_vars
    PROVE  InPlaceInv'
<1>1. CASE \E l \in Lines : ReadLine(l)
  BY <1>1, InPlaceReadLine
<1>2. CASE LinkMessage
  BY <1>2, InPlaceLink
<1>3. CASE OtherStep
  <2>1. /\ UNCHANGED <<accepted, in_data>>
        /\ Pending' => Pending /\ this_message' = this_message
        /\ Counting' => Counting
    BY <1>3, CountFrame DEF parser
  <2>2. BlockOpen' = BlockOpen /\ MessagesInPlace' = MessagesInPlace
    BY <2>1 DEF BlockOpen, MessagesInPlace
  <2> QED BY <2>1, <2>2 DEF InPlaceInv
<1> QED
  BY <1>1, <1>2, <1>3 DEF Next, Inside, Comm, Gone, OtherStep

(* The plug-in is given entries inside a block only, and an interval, a    *)
(* version or a start only outside of one, for any lines and any faults.   *)
THEOREM MessagesAreInPlace == Spec => []MessagesInPlace
<1>1. Init => InPlaceInv
  <2> SUFFICES ASSUME Init PROVE InPlaceInv
    OBVIOUS
  <2>1. accepted = <<>> /\ ~in_data /\ cpc = "main"
    BY DEF Init
  <2>2. ~BlockOpen
    BY <2>1 DEF BlockOpen, OpenBefore, Before
  <2> QED BY <2>1, <2>2 DEF InPlaceInv, MessagesInPlace, Pending
<1>2. IInv /\ InPlaceInv /\ [Next]_vars => InPlaceInv'
  BY InPlaceStep DEF IInv
<1>3. InPlaceInv => MessagesInPlace
  BY DEF InPlaceInv
<1> QED
  BY Invariant, <1>1, <1>2, <1>3, PTL DEF Spec

-----------------------------------------------------------------------------
(* What main() throws away is thrown away only after an error.  The        *)
(* processing thread leaves when it has processed a shutdown message,      *)
(* after which nothing is accepted, or when its exit code is FAILURE: an   *)
(* error, or the list was empty and nothing was to come.                   *)
LastIsShutdown ==
    \A i \in DOMAIN accepted :
        accepted[i].message = "SHUTDOWN" =>
            /\ i = Len(accepted)
            /\ \/ cpc = "post" /\ this_message.message = "SHUTDOWN"
               \/ cpc \in {"complete", "join", "notify", "cleanup",
                            "mistral_exit", "returned", "exit", "failed"}

SeenIsLast ==
    shutdown_seen => /\ handled # <<>>
                     /\ handled[Len(handled)].message = "SHUTDOWN"

FailureHasReason ==
    ret = "FAILURE" => shutdown \/ Fails("unblock") \/ (complete /\ messages = <<>>)

Leaving ==
    /\ ppc = "exited" => ret = "FAILURE" \/ shutdown_seen
    /\ ppc = "none" => /\ messages = <<>>
                       /\ cpc \in {"main", "notify", "cleanup", "mistral_exit",
                                   "returned", "failed"}

DrainInv == LastIsShutdown /\ SeenIsLast /\ FailureHasReason /\ Leaving

(* The flag is never taken back.                                           *)
LEMMA ShutdownStays == [Next]_vars /\ shutdown => shutdown'
<1> SUFFICES ASSUME [Next]_vars, shutdown PROVE shutdown'
  OBVIOUS
<1>1. CASE \E l \in Lines : ReadLine(l)
  BY <1>1 DEF ReadLine, RejectLine, FatalLine, ReceiveSupVersion,
     AnswerFails, ReceiveInterval, IntervalPostFails, ReceiveDataStart, ReceiveDataEnd,
     ReceiveDataLine, ReceiveShutdown
<1>2. CASE Comm
  BY <1>2 DEF Comm, EarlyReturn, NotifyMistral, StartThread, StartupRejected,
     FirstInput, NoFirstInput, TestShutdown, EndOfInput, CommMoves, ClaimList,
     ClaimListFails, LinkMessage, PostList, SetComplete, JoinThread, CleanUp,
     CallExit, MainOnly, Unparsed, PluginCalled
<1>3. CASE Proc
  BY <1>3 DEF Proc, ProcOnly, ThreadStarts, ClaimToTake, ClaimToTakeFails,
     TakeMessage, ReleaseList, SleepOneSecond, ProcessMessage, CheckShutdown,
     PluginCalled
<1>4. CASE Dies \/ MistralCloses \/ ThreadAsks \/ UNCHANGED vars
  BY <1>4, DiesFrame DEF MistralCloses, ThreadAsks, vars
<1> QED
  BY <1>1, <1>2, <1>3, <1>4 DEF Next, Inside, Gone

LEMMA DrainComm ==
    ASSUME TypeOK, ControlInv, DrainInv, [Next]_vars, Comm \/ Dies
    PROVE  DrainInv'
<1> USE DEF parser, procVars, world, told, MainOnly, Unparsed
<1>0. /\ shutdown => shutdown' = TRUE
      /\ UNCHANGED <<shutdown_seen, handled, ret>>
  <2>1. UNCHANGED <<shutdown_seen, handled, ret>>
    BY DiesFrame DEF Comm, EarlyReturn, NotifyMistral, StartThread, StartupRejected,
     FirstInput, NoFirstInput, TestShutdown, EndOfInput, CommMoves, ClaimList,
     ClaimListFails, LinkMessage, PostList, SetComplete, JoinThread, CleanUp,
     CallExit
  <2>2. shutdown => shutdown'
    BY ShutdownStays
  <2>3. shutdown' \in BOOLEAN
    BY CommType, OtherType DEF TypeOK, ControlInv
  <2> QED BY <2>1, <2>2, <2>3
<1>1. SeenIsLast'
  BY <1>0 DEF DrainInv, SeenIsLast
<1>2. LastIsShutdown' /\ FailureHasReason'
  <2>1. CASE LinkMessage
    <3>1. /\ cpc = "link" /\ cpc' = "post" /\ this_message' = this_message
          /\ accepted' = Append(accepted, this_message) /\ ~complete
          /\ UNCHANGED <<shutdown, complete>>
      BY <2>1 DEF LinkMessage, ControlInv, Placement
    <3>2. accepted \in Seq(MessageType) /\ this_message \in MessageType
      BY <3>1 DEF TypeOK, ControlInv, AtHand
    <3>3. \A i \in DOMAIN accepted : accepted[i].message # "SHUTDOWN"
      BY <3>1 DEF DrainInv, LastIsShutdown
    <3>4. \A i \in DOMAIN accepted' :
             \/ i \in DOMAIN accepted /\ accepted'[i] = accepted[i]
             \/ i = Len(accepted') /\ accepted'[i] = this_message
      BY <3>1, <3>2
    <3>5. LastIsShutdown'
      BY <3>1, <3>3, <3>4 DEF LastIsShutdown
    <3> QED BY <1>0, <3>1, <3>5 DEF DrainInv, FailureHasReason, Fails
  <2>2. CASE CleanUp
    BY <1>0, <2>2 DEF CleanUp, DrainInv, LastIsShutdown, FailureHasReason, Fails
  <2>3. CASE (Comm /\ ~LinkMessage /\ ~CleanUp) \/ Dies
    <3>1. /\ UNCHANGED <<accepted, messages>>
          /\ complete => complete' = TRUE
          /\ cpc = "post" /\ this_message.message = "SHUTDOWN" =>
                cpc' = "complete" \/ cpc' = "exit" \/ cpc' = "failed"
                  \/ (cpc' = "post" /\ this_message' = this_message)
          /\ cpc \in {"complete", "join", "notify", "cleanup",
                      "mistral_exit", "returned", "exit", "failed"} =>
                cpc' \in {"complete", "join", "notify", "cleanup",
                          "mistral_exit", "returned", "exit", "failed"}
      BY <2>3, DiesFrame DEF Comm, EarlyReturn, NotifyMistral, StartThread,
         StartupRejected, FirstInput, NoFirstInput, TestShutdown, EndOfInput,
         CommMoves, ClaimList, ClaimListFails, PostList, SetComplete, JoinThread,
         CallExit, AfterParse
    <3> QED BY <1>0, <3>1 DEF DrainInv, LastIsShutdown, FailureHasReason, Fails
  <2> QED BY <2>1, <2>2, <2>3
<1>3. Leaving'
  <2>1. CASE StartThread \/ StartupRejected \/ Dies
    BY <1>0, <2>1, DiesFrame DEF StartThread, StartupRejected, DrainInv, Leaving
  <2>2. CASE \/ EarlyReturn \/ NotifyMistral \/ JoinThread \/ CallExit \/ CleanUp
    BY <1>0, <2>2 DEF EarlyReturn, NotifyMistral, JoinThread, CallExit, CleanUp,
       DrainInv, Leaving
  <2>3. CASE \/ FirstInput \/ NoFirstInput \/ TestShutdown \/ EndOfInput
             \/ ClaimList \/ ClaimListFails \/ LinkMessage \/ PostList \/ SetComplete
    BY <1>0, <2>3 DEF FirstInput, NoFirstInput, TestShutdown, EndOfInput, CommMoves,
       ClaimList, ClaimListFails, LinkMessage, PostList, SetComplete, DrainInv, Leaving
  <2> QED BY <2>1, <2>2, <2>3 DEF Comm
<1> QED
  BY <1>1, <1>2, <1>3 DEF DrainInv

LEMMA DrainProc ==
    ASSUME TypeOK, ControlInv, DrainInv, [Next]_vars, Proc
    PROVE  DrainInv'
<1> USE DEF ProcOnly, NextRound, told
<1>0. /\ shutdown => shutdown' = TRUE
      /\ UNCHANGED <<cpc, this_message, complete, accepted>>
  <2>1. shutdown => shutdown'
    BY ShutdownStays
  <2>2. shutdown' \in BOOLEAN
    BY ProcType DEF TypeOK, ControlInv
  <2> QED BY <2>1, <2>2, ProcFrame
<1>1. LastIsShutdown'
  BY <1>0 DEF DrainInv, LastIsShutdown
<1>2. SeenIsLast' /\ FailureHasReason' /\ Leaving'
  <2> USE DEF DrainInv, SeenIsLast, FailureHasReason, Leaving, Fails
  <2>1. CASE ThreadStarts \/ ClaimToTake \/ ClaimToTakeFails \/ ReleaseList
               \/ SleepOneSecond \/ CheckShutdown
    BY <1>0, <2>1 DEF ThreadStarts, ClaimToTake, ClaimToTakeFails, ReleaseList,
       SleepOneSecond, CheckShutdown, TypeOK
  <2>2. CASE TakeMessage
    BY <1>0, <2>2 DEF TakeMessage
  <2>3. CASE ProcessMessage
    <3>1. message \in MessageType /\ handled \in Seq(MessageType)
      BY <2>3 DEF ProcessMessage, ControlInv, AtHand, TypeOK
    <3>2. /\ handled' = Append(handled, message)
          /\ shutdown_seen' = (message.message = "SHUTDOWN")
          /\ ppc' = "check" /\ UNCHANGED <<ret, messages>>
      BY <2>3 DEF ProcessMessage
    <3>3. handled' # <<>> /\ handled'[Len(handled')] = message
      BY <3>1, <3>2
    <3> QED BY <1>0, <3>2, <3>3
  <2> QED BY <2>1, <2>2, <2>3 DEF Proc
<1> QED
  BY <1>1, <1>2 DEF DrainInv

LEMMA DrainStep ==
    ASSUME TypeOK, ControlInv, DrainInv, [Next]_vars
    PROVE  DrainInv'
<1> USE DEF DrainInv, LastIsShutdown, SeenIsLast, FailureHasReason, Leaving, Fails
<1>1. CASE \E l \in Lines : ReadLine(l)
  <2>1. /\ cpc = "getline" /\ cpc' \in {"while", "complete", "enqueue", "exit"}
        /\ UNCHANGED <<procVars, messages, complete, accepted, told>>
    BY <1>1, ReadLineFrame
  <2>2. shutdown => shutdown'
    BY ShutdownStays
  <2> QED BY <2>1, <2>2 DEF procVars, told
<1>2. CASE Comm \/ Dies
  BY <1>2, DrainComm
<1>3. CASE Proc
  BY <1>3, DrainProc
<1>4. CASE MistralCloses \/ ThreadAsks \/ UNCHANGED vars
  <2>1. shutdown => shutdown'
    BY ShutdownStays
  <2> QED BY <1>4, <2>1, OtherFrame DEF procVars, told
<1> QED
  BY <1>1, <1>2, <1>3, <1>4 DEF Next, Inside, Gone

(* main() throws listed messages away only if mistral_shutdown() has been  *)
(* called or the processing thread could not be started properly.          *)
THEOREM DiscardNeedsError == Spec => []DiscardOnlyOnError
<1>1. Init => DrainInv
  BY DEF Init, DrainInv, LastIsShutdown, SeenIsLast, FailureHasReason, Leaving
<1>2. IInv /\ DrainInv /\ [Next]_vars => DrainInv'
  BY DrainStep DEF IInv
<1>3. IInv /\ DrainInv => DiscardOnlyOnError
  <2> SUFFICES ASSUME IInv, DrainInv, cpc = "cleanup", messages # <<>>,
                      ~shutdown, ~Fails("unblock")
               PROVE  FALSE
    BY DEF DiscardOnlyOnError
  <2>1. ppc = "exited" /\ ~teardown
    BY DEF IInv, ControlInv, Placement, DrainInv, Leaving
  <2>2. shutdown_seen
    BY <2>1 DEF DrainInv, Leaving, FailureHasReason
  <2>3. /\ handled \in Seq(MessageType) /\ messages \in Seq(MessageType)
        /\ handled # <<>> /\ handled[Len(handled)].message = "SHUTDOWN"
    BY <2>2 DEF DrainInv, SeenIsLast, IInv, TypeOK
  <2>4. handled \o messages = accepted
    <3>1. InHand = <<>>
      BY <2>1 DEF InHand
    <3> QED BY <2>1, <2>3, <3>1, ConcatEmptySeq DEF IInv, NothingLost
  <2>5. /\ Len(handled) \in DOMAIN accepted
        /\ accepted[Len(handled)] = handled[Len(handled)]
        /\ Len(accepted) = Len(handled) + Len(messages)
    BY <2>3, <2>4
  <2>6. Len(handled) = Len(accepted)
    BY <2>3, <2>5 DEF DrainInv, LastIsShutdown
  <2> QED BY <2>3, <2>5, <2>6
<1> QED
  BY Invariant, <1>1, <1>2, <1>3, PTL DEF Spec

-----------------------------------------------------------------------------
(* The interval a plug-in is told is not older than the message that made  *)
(* the framework tell it.  The value told is the last one set, and at      *)
(* least as many have been set as interval messages were accepted, one     *)
(* more while such a message is in hand.                                   *)
Intervals(s) == {i \in DOMAIN s : s[i].message = "INTERVAL"}

ValuesSet ==
    IF cpc \in {"enqueue", "link"} /\ this_message.message = "INTERVAL"
    THEN Len(intervals_set) - 1 ELSE Len(intervals_set)

IntervalInv ==
    /\ IntervalNotStale
    /\ intervals_set # <<>> => interval = intervals_set[Len(intervals_set)]
    /\ shutdown \/ Cardinality(Intervals(accepted)) <= ValuesSet
    /\ Cardinality(Intervals(handled)) = Len(intervals_told)

LEMMA IntervalsFinite ==
    ASSUME NEW s \in Seq(MessageType)
    PROVE  IsFiniteSet(Intervals(s)) /\ Cardinality(Intervals(s)) \in Nat
<1>1. IsFiniteSet(1 .. Len(s))
  BY FS_Interval
<1>2. Intervals(s) \subseteq 1 .. Len(s)
  BY DEF Intervals
<1> QED
  BY <1>1, <1>2, FS_Subset, FS_CardinalityType

LEMMA IntervalsAppend ==
    ASSUME NEW s \in Seq(MessageType), NEW m \in MessageType
    PROVE  Cardinality(Intervals(Append(s, m))) =
              Cardinality(Intervals(s)) + (IF m.message = "INTERVAL" THEN 1 ELSE 0)
<1>1. /\ Len(s) \in Nat /\ DOMAIN Append(s, m) = 1 .. (Len(s) + 1)
      /\ Append(s, m)[Len(s) + 1] = m
      /\ \A i \in 1 .. Len(s) : Append(s, m)[i] = s[i]
      /\ DOMAIN s = 1 .. Len(s)
  OBVIOUS
<1>2. CASE m.message = "INTERVAL"
  <2>1. Intervals(Append(s, m)) = Intervals(s) \cup {Len(s) + 1}
    BY <1>1, <1>2 DEF Intervals
  <2>2. Len(s) + 1 \notin Intervals(s)
    BY <1>1 DEF Intervals
  <2> QED BY <1>2, <2>1, <2>2, IntervalsFinite, FS_AddElement
<1>3. CASE m.message # "INTERVAL"
  <2>1. Intervals(Append(s, m)) = Intervals(s)
    BY <1>1, <1>3 DEF Intervals
  <2> QED BY <1>3, <2>1, IntervalsFinite
<1> QED
  BY <1>2, <1>3

(* When a message is processed, as many intervals have been set as there   *)
(* are interval messages processed, this one included.                     *)
LEMMA IntervalsBound ==
    ASSUME TypeOK, NothingLost, ~teardown, ppc = "process",
           message \in MessageType
    PROVE  Cardinality(Intervals(Append(handled, message)))
              <= Cardinality(Intervals(accepted))
<1>1. /\ handled \in Seq(MessageType) /\ messages \in Seq(MessageType)
      /\ accepted \in Seq(MessageType)
  BY DEF TypeOK
<1>2. InHand = <<message>>
  BY ConstantsAssumption DEF InHand
<1>3. (handled \o <<message>>) \o messages = accepted
  BY <1>2 DEF NothingLost
<1>4. handled \o <<message>> = Append(handled, message)
  BY <1>1, AppendIsConcat
<1> DEFINE h == Append(handled, message)
<1>5. h \in Seq(MessageType) /\ h \o messages = accepted
  BY <1>1, <1>3, <1>4
<1> HIDE DEF h
<1>6. Len(h) <= Len(accepted) /\ \A i \in 1 .. Len(h) : accepted[i] = h[i]
  BY <1>1, <1>5
<1>7. Intervals(h) \subseteq Intervals(accepted)
  <2>1. /\ DOMAIN h = 1 .. Len(h) /\ DOMAIN accepted = 1 .. Len(accepted)
        /\ Len(h) \in Nat /\ Len(accepted) \in Nat
    BY <1>1, <1>5
  <2> QED BY <1>6, <2>1 DEF Intervals
<1> QED
  BY <1>1, <1>5, <1>7, IntervalsFinite, FS_Subset DEF h

LEMMA IntervalReadLine ==
    ASSUME TypeOK, IntervalInv, NEW l \in Lines, ReadLine(l)
    PROVE  IntervalInv'
<1>0. /\ cpc = "getline" /\ cpc' \in {"while", "complete", "enqueue", "exit"}
      /\ UNCHANGED <<accepted, handled, intervals_told>>
      /\ cpc' = "enqueue" => this_message'.message = l.message
  BY ReadLineFrame DEF told
<1> DEFINE Stored == /\ interval' = l.number /\ shutdown' = shutdown
                     /\ intervals_set' = Append(intervals_set, l.number)
<1>1. CASE ReceiveInterval(l) /\ Stored
  <2>1. /\ interval' = l.number /\ cpc' = "enqueue" /\ l.message = "INTERVAL"
        /\ intervals_set' = Append(intervals_set, l.number)
    BY <1>1, ListsFrame DEF ReceiveInterval
  <2>2. intervals_set \in Seq(Number) /\ l.number \in Number
    BY ConstantsAssumption DEF LineType, TypeOK
  <2>3. /\ Len(intervals_set) \in Nat /\ Len(intervals_set') = Len(intervals_set) + 1
        /\ intervals_set' # <<>> /\ intervals_set'[Len(intervals_set')] = l.number
        /\ \A j \in DOMAIN intervals_set :
              j \in DOMAIN intervals_set' /\ intervals_set'[j] = intervals_set[j]
    BY <2>1, <2>2
  <2>4. IntervalNotStale'
    BY <1>0, <1>1, <2>3 DEF IntervalInv, IntervalNotStale
  <2>5. ValuesSet' = ValuesSet
    BY <1>0, <2>1, <2>3 DEF ValuesSet
  <2> QED BY <1>0, <1>1, <2>1, <2>3, <2>4, <2>5 DEF IntervalInv
<1>2. CASE ReceiveInterval(l) /\ ~Stored
  <2>1. shutdown' = TRUE /\ UNCHANGED <<interval, intervals_set>>
    BY <1>2 DEF ReceiveInterval
  <2> QED BY <1>0, <2>1 DEF IntervalInv, IntervalNotStale
<1>4. CASE IntervalPostFails(l)
  <2>1. /\ interval' = l.number /\ shutdown' = shutdown /\ cpc' = "exit"
        /\ intervals_set' = Append(intervals_set, l.number)
    BY <1>4 DEF IntervalPostFails
  <2>2. intervals_set \in Seq(Number) /\ l.number \in Number
    BY ConstantsAssumption DEF LineType, TypeOK
  <2>3. /\ Len(intervals_set) \in Nat /\ Len(intervals_set') = Len(intervals_set) + 1
        /\ intervals_set' # <<>> /\ intervals_set'[Len(intervals_set')] = l.number
        /\ \A j \in DOMAIN intervals_set :
              j \in DOMAIN intervals_set' /\ intervals_set'[j] = intervals_set[j]
    BY <2>1, <2>2
  <2>4. IntervalNotStale'
    BY <1>0, <2>1, <2>3 DEF IntervalInv, IntervalNotStale
  <2>5. ValuesSet = Len(intervals_set) /\ ValuesSet' = Len(intervals_set) + 1
    BY <1>0, <2>1, <2>3 DEF ValuesSet
  <2>6. shutdown \/ Cardinality(Intervals(accepted)) <= ValuesSet'
    BY <2>3, <2>5, IntervalsFinite DEF IntervalInv, TypeOK
  <2> QED BY <1>0, <2>1, <2>3, <2>4, <2>6 DEF IntervalInv
<1>3. CASE ~ReceiveInterval(l) /\ ~IntervalPostFails(l)
  <2>1. UNCHANGED <<shutdown, interval, intervals_set>>
    BY <1>3, Zenon DEF ReadLine, RejectLine, FatalLine, ReceiveSupVersion, AnswerFails,
       ReceiveDataStart, ReceiveDataEnd, ReceiveDataLine, ReceiveShutdown
  <2>2. cpc' = "enqueue" => l.message # "INTERVAL"
    BY <1>3 DEF ReadLine, RejectLine, FatalLine, ReceiveSupVersion,
       AnswerFails, ReceiveDataStart, ReceiveDataEnd, ReceiveDataLine, ReceiveShutdown
  <2>3. ValuesSet' = ValuesSet
    BY <1>0, <2>1, <2>2 DEF ValuesSet
  <2> QED BY <1>0, <2>1, <2>3 DEF IntervalInv, IntervalNotStale
<1> QED
  BY <1>1, <1>2, <1>3, <1>4

LEMMA IntervalComm ==
    ASSUME TypeOK, ControlInv, IntervalInv, [Next]_vars, Comm \/ Dies
    PROVE  IntervalInv'
<1>0. /\ shutdown => shutdown'
      /\ UNCHANGED <<interval, intervals_set, handled, intervals_told>>
  <2>1. UNCHANGED <<interval, intervals_set, handled, intervals_told>>
    BY DiesFrame DEF Comm, EarlyReturn, NotifyMistral, StartThread, StartupRejected,
       FirstInput, NoFirstInput, TestShutdown, EndOfInput, CommMoves, ClaimList,
       ClaimListFails, LinkMessage, PostList, SetComplete, JoinThread, CleanUp,
       CallExit, MainOnly, Unparsed, told
  <2> QED BY <2>1, ShutdownStays
<1>1. IntervalNotStale'
  BY <1>0 DEF IntervalInv, IntervalNotStale
<1>2. ~shutdown' => Cardinality(Intervals(accepted')) <= ValuesSet'
  <2> SUFFICES ASSUME ~shutdown'
               PROVE  Cardinality(Intervals(accepted')) <= ValuesSet'
    OBVIOUS
  <2>1. Cardinality(Intervals(accepted)) <= ValuesSet
    BY <1>0 DEF IntervalInv
  <2>2. /\ Cardinality(Intervals(accepted)) \in Nat /\ Len(intervals_set) \in Nat
        /\ accepted \in Seq(MessageType)
    BY IntervalsFinite DEF TypeOK
  <2>3. CASE LinkMessage
    <3>1. /\ cpc = "link" /\ cpc' = "post"
          /\ accepted' = Append(accepted, this_message)
      BY <2>3 DEF LinkMessage
    <3>2. this_message \in MessageType
      BY <3>1 DEF TypeOK, ControlInv, AtHand
    <3>3. Cardinality(Intervals(accepted')) = Cardinality(Intervals(accepted))
             + (IF this_message.message = "INTERVAL" THEN 1 ELSE 0)
      BY <2>2, <3>1, <3>2, IntervalsAppend
    <3> QED BY <1>0, <2>1, <2>2, <3>1, <3>3 DEF ValuesSet
  <2>4. CASE (Comm /\ ~LinkMessage) \/ Dies
    <3>1. /\ accepted' = accepted
          /\ cpc' \in {"enqueue", "link"} =>
                cpc \in {"enqueue", "link"} /\ this_message' = this_message
      BY <2>4, DiesFrame DEF Comm, EarlyReturn, NotifyMistral, StartThread, StartupRejected,
         FirstInput, NoFirstInput, TestShutdown, EndOfInput, CommMoves, ClaimList,
         ClaimListFails, PostList, SetComplete, JoinThread, CleanUp, AfterParse,
         CallExit, MainOnly, Unparsed
    <3> QED BY <1>0, <2>1, <2>2, <3>1 DEF ValuesSet
  <2> QED BY <2>3, <2>4
<1> QED
  BY <1>0, <1>1, <1>2 DEF IntervalInv

LEMMA IntervalProcess ==
    ASSUME TypeOK, ControlInv, NothingLost, IntervalInv, [Next]_vars, ProcessMessage
    PROVE  IntervalInv'
<1>1. /\ ppc = "process" /\ handled' = Append(handled, message)
      /\ intervals_told' = IF message.message = "INTERVAL"
                           THEN Append(intervals_told, interval) ELSE intervals_told
      /\ UNCHANGED <<cpc, this_message, interval, intervals_set, accepted>>
  BY DEF ProcessMessage, ProcOnly
<1>2. /\ message \in MessageType /\ ~teardown
      /\ handled \in Seq(MessageType) /\ accepted \in Seq(MessageType)
      /\ intervals_told \in Seq(Number) /\ intervals_set \in Seq(Number)
      /\ interval \in Number
  BY <1>1 DEF TypeOK, ControlInv, Placement, AtHand
<1>3. Cardinality(Intervals(handled')) = Cardinality(Intervals(handled))
         + (IF message.message = "INTERVAL" THEN 1 ELSE 0)
  BY <1>1, <1>2, IntervalsAppend
<1>4. Cardinality(Intervals(handled')) = Len(intervals_told')
  BY <1>1, <1>2, <1>3 DEF IntervalInv
<1>5. ValuesSet' = ValuesSet /\ Intervals(accepted)' = Intervals(accepted)
  BY <1>1 DEF ValuesSet, Intervals
<1>6. shutdown => shutdown'
  BY ShutdownStays
<1>7. IntervalNotStale'
  <2> SUFFICES ASSUME ~shutdown', NEW k \in DOMAIN intervals_told'
               PROVE  \E j \in DOMAIN intervals_set :
                          j >= k /\ intervals_told'[k] = intervals_set[j]
    BY <1>1 DEF IntervalNotStale
  <2>1. CASE k \in DOMAIN intervals_told
    <3>1. intervals_told'[k] = intervals_told[k]
      BY <1>1, <1>2, <2>1
    <3> QED BY <1>6, <2>1, <3>1 DEF IntervalInv, IntervalNotStale
  <2>2. CASE k \notin DOMAIN intervals_told
    <3>1. /\ k = Len(intervals_told') /\ intervals_told'[k] = interval
      BY <1>1, <1>2, <2>2
    <3>2. Len(intervals_told') <= Cardinality(Intervals(accepted))
      BY <1>1, <1>2, <1>4, IntervalsBound
    <3>3. Cardinality(Intervals(accepted)) <= Len(intervals_set)
      <4>1. Cardinality(Intervals(accepted)) <= ValuesSet
        BY <1>6 DEF IntervalInv
      <4> QED BY <1>2, <4>1, IntervalsFinite DEF ValuesSet
    <3>4. k \in Nat /\ k > 0 /\ k <= Len(intervals_set)
      BY <1>1, <1>2, <2>2, <3>1, <3>2, <3>3, IntervalsFinite
    <3>5. intervals_set # <<>> /\ Len(intervals_set) \in DOMAIN intervals_set
      BY <1>2, <3>4
    <3> QED BY <3>1, <3>4, <3>5 DEF IntervalInv
  <2> QED BY <2>1, <2>2
<1> QED
  BY <1>1, <1>4, <1>5, <1>6, <1>7 DEF IntervalInv

LEMMA IntervalStep ==
    ASSUME TypeOK, ControlInv, NothingLost, IntervalInv, [Next]_vars
    PROVE  IntervalInv'
<1>0. shutdown => shutdown'
  BY ShutdownStays
<1>1. CASE \E l \in Lines : ReadLine(l)
  BY <1>1, IntervalReadLine
<1>2. CASE Comm \/ Dies
  BY <1>2, IntervalComm
<1>3. CASE ProcessMessage
  BY <1>3, IntervalProcess
<1>4. CASE (Proc /\ ~ProcessMessage) \/ MistralCloses \/ ThreadAsks \/ UNCHANGED vars
  <2>1. UNCHANGED <<cpc, this_message, interval, intervals_set, accepted, handled,
                    intervals_told>>
    <3>1. CASE Proc /\ ~ProcessMessage
      BY <3>1, Zenon DEF Proc, ProcOnly, told, ThreadStarts, ClaimToTake,
         ClaimToTakeFails, TakeMessage, ReleaseList, SleepOneSecond, CheckShutdown
    <3>2. CASE MistralCloses \/ ThreadAsks \/ UNCHANGED vars
      BY <3>2, OtherFrame DEF told
    <3> QED BY <1>4, <3>1, <3>2
  <2>2. ValuesSet' = ValuesSet
    BY <2>1 DEF ValuesSet
  <2> QED BY <1>0, <2>1, <2>2 DEF IntervalInv, IntervalNotStale
<1> QED
  BY <1>1, <1>2, <1>3, <1>4 DEF Next, Inside, Gone

(* Unless the plug-in is shutting down, the k-th interval it is told is    *)
(* the k-th Mistral has set or a later one.                                *)
THEOREM ToldIntervalIsFresh == Spec => []IntervalNotStale
<1>1. Init => IntervalInv
  <2> SUFFICES ASSUME Init PROVE IntervalInv
    OBVIOUS
  <2>1. Intervals(<<>>) = {}
    BY DEF Intervals
  <2> QED BY <2>1, FS_EmptySet DEF Init, IntervalInv, IntervalNotStale, ValuesSet
<1>2. IInv /\ IntervalInv /\ [Next]_vars => IntervalInv'
  BY IntervalStep DEF IInv
<1>3. IntervalInv => IntervalNotStale
  BY DEF IntervalInv
<1> QED
  BY Invariant, <1>1, <1>2, <1>3, PTL DEF Spec
=============================================================================
