------------------------------ MODULE SqlProofs ------------------------------
(***************************************************************************)
(* Theorems about the plug-ins that write to a database, for any number of *)
(* entries, dates, rules and rows to a statement, whatever queries fail    *)
(* and whatever other jobs record.  The connection, the statement and the  *)
(* tree of rules are followed through mistral_received_data_end and the    *)
(* attempt mistral_exit makes after it.                                    *)
(***************************************************************************)
EXTENDS SqlOutput, TLAPS

Working == pc \notin {"idle", "entry"}

(* Types, and what is known of the entry at the head of the list while it  *)
(* is being worked on.                                                     *)
ControlTypes ==
    /\ plugin \in Plugins
    /\ phase \in {"starting", "running", "told", "exit", "gone", "crashed"}
    /\ pc \in {"idle", "entry", "env", "rule", "insert_rule", "values", "append"}
    /\ con \in {"none", "up", "lost"} /\ shutdown \in BOOLEAN
    /\ pc # "idle" => phase \in {"running", "told", "exit"}
    /\ phase = "starting" => con = "none"

ListTypes ==
    /\ log_list \in Seq(Entry) /\ received \in Seq(Entry)
    /\ Working => log_list # <<>>

StatementTypes ==
    /\ log_insert \in Seq(Row) /\ spoiled \in BOOLEAN
    /\ insert_table \in Table
    /\ plugin = "mysql" /\ log_insert # <<>> => insert_table \in Nat
    /\ plugin = "postgresql" => log_insert = <<>>
    /\ log_rows \in Seq([row : Row, table : Table])

DateTypes ==
    /\ last_log_date \in Dates \cup {NoDate} /\ date_changed \in BOOLEAN
    /\ table_name \in Table
    /\ last_log_date \in Dates => table_name \in Nat
    /\ plugin = "mysql" /\ Working => last_log_date = entry.date

RuleTypes ==
    /\ DOMAIN rule_root \subseteq Rules
    /\ \A r \in DOMAIN rule_root : rule_root[r] \in Nat
    /\ rule_id \in Nat
    /\ rule_details \in Seq(Texts) /\ misread \subseteq Rules

EnvTypes ==
    /\ table_root \subseteq Nat \X Dates
    /\ env_rows \in Seq(Table \X (Dates \cup {NoDate}))

Types == /\ ControlTypes /\ ListTypes /\ StatementTypes
         /\ DateTypes /\ RuleTypes /\ EnvTypes

-----------------------------------------------------------------------------
(* The steps of the three plug-ins, by what they do.                       *)
Starting ==
    \/ plugin = "mysql" /\ MysqlStartup
    \/ plugin = "rtm" /\ RtmStartup
    \/ plugin = "postgresql" /\ PostgresqlStartup

FrameworkCalls == ReceivedLog \/ ReceivedDataEnd \/ ReceivedShutdown \/ Exit

Turn == NextEntry /\ (plugin = "mysql" => entry.date = last_log_date)

Environment == plugin = "mysql" /\ (EnvKnown \/ EnvNew \/ EnvNoMemory)

RuleId == RuleKnown \/ RuleNoMemory \/ \E closes \in BOOLEAN : SelectRule(closes)

RuleDetails ==
    InsertRuleFails \/ \E closes \in BOOLEAN : InsertRule(closes)

BuildFails == pc = "values" /\ Crashes

LEMMA Steps ==
    ASSUME SqlAssumption, Next
    PROVE  \/ Starting \/ FrameworkCalls \/ Turn \/ (plugin = "mysql" /\ NewDate) \/ Environment
           \/ RuleId \/ RuleDetails \/ BuildFails
           \/ plugin # "postgresql" /\ Bulk
           \/ plugin = "postgresql" /\ (InsertRow \/ InsertRowFails \/ BlockDone)
           \/ OtherJob \/ UNCHANGED vars
<1>1. CASE Mysql
  <2>1. plugin = "mysql"
    BY <1>1 DEF Mysql
  <2> QED
    BY <1>1, <2>1, Zenon DEF Mysql, MysqlDataEnd, MysqlSetRuleId, MysqlInsertRuleDetails,
      Starting, Environment, RuleId, RuleDetails, BuildFails, MysqlBuildFails, Turn,
      SameDate
<1>2. CASE Rtm
  <2>1. plugin = "rtm"
    BY <1>2 DEF Rtm
  <2>2. plugin # "mysql" /\ plugin # "postgresql"
    BY <2>1
  <2> QED
    BY <1>2, <2>1, <2>2, Zenon DEF Rtm, RtmDataEnd, RtmSetRuleId, RtmInsertRuleParameters,
      Starting, RuleId, RuleDetails, BuildFails, RtmBuildFails, Turn
<1>3. CASE Postgresql
  <2>1. plugin = "postgresql"
    BY <1>3 DEF Postgresql
  <2>2. plugin # "mysql"
    BY <2>1
  <2> QED
    BY <1>3, <2>1, <2>2, Zenon DEF Postgresql, PostgresqlDataEnd, PostgresqlSetRuleId,
      PostgresqlInsertRuleDetails, Starting, RuleId, RuleDetails, Turn
<1> QED
  BY <1>1, <1>2, <1>3, Zenon DEF Next, FrameworkCalls, Ended

-----------------------------------------------------------------------------
LEMMA TypesAre == Types => TypeOK
BY DEF Types, ControlTypes, ListTypes, StatementTypes, DateTypes, RuleTypes, EnvTypes,
   TypeOK

(* What the columns keep is a text, and all of it is kept.                 *)
LEMMA Columns ==
    ASSUME SqlAssumption, NEW t \in Texts
    PROVE  Column(t) \in Texts /\ Column(Column(t)) = Column(t)
BY DEF SqlAssumption, Column

LEMMA EmptyIsSeq == ASSUME NEW S PROVE <<>> \in Seq(S)
OBVIOUS

LEMMA InitTypes == ASSUME SqlAssumption, Init PROVE Types
<1>1. ControlTypes
  BY DEF Init, ControlTypes
<1>4. ListTypes /\ StatementTypes
  <2>1. /\ log_list = <<>> /\ received = <<>> /\ log_insert = <<>> /\ log_rows = <<>>
        /\ insert_table = NoTable /\ spoiled = FALSE /\ pc = "idle"
    BY DEF Init
  <2>2. ListTypes
    BY <2>1, EmptyIsSeq, Zenon DEF ListTypes, Working
  <2>3. insert_table \in Table
    BY <2>1 DEF Table
  <2> QED BY <2>1, <2>2, <2>3, EmptyIsSeq, Zenon DEF StatementTypes
<1>5. DateTypes
  BY DEF SqlAssumption, Init, DateTypes, Working, Table
<1>2. EnvTypes
  BY DEF Init, EnvTypes
<1>3. RuleTypes
  <2>1. \A r \in Rules : Column(r) \in Texts
    BY Columns DEF SqlAssumption
  <2>2. rule_details \in Seq(Texts)
    <3>1. CASE rule_details = <<>>
      BY <3>1
    <3>2. CASE \E r \in Rules : rule_details = <<Column(r)>>
      <4> PICK r \in Rules : rule_details = <<Column(r)>>
        BY <3>2
      <4> DEFINE c == Column(r)
      <4>1. c \in Texts
        BY <2>1
      <4> HIDE DEF c
      <4>2. <<c>> \in Seq(Texts)
        BY <4>1
      <4> QED BY <4>2 DEF c
    <3> QED BY <3>1, <3>2 DEF Init
  <2> QED BY <2>2 DEF Init, RuleTypes
<1> QED BY <1>1, <1>2, <1>3, <1>4, <1>5 DEF Types

(* The entry at hand, and what is left of the list without it.             *)
LEMMA AtHand ==
    ASSUME ListTypes, log_list # <<>>
    PROVE  /\ entry \in Entry /\ entry.date \in Dates /\ entry.rule \in Rules
           /\ Tail(log_list) \in Seq(Entry)
<1>1. entry \in Entry /\ Tail(log_list) \in Seq(Entry)
  BY DEF ListTypes, entry
<1> QED BY <1>1 DEF Entry

LEMMA ControlStep ==
    ASSUME SqlAssumption, Types, [Next]_vars PROVE ControlTypes'
<1> USE DEF Types, ControlTypes
<1>1. CASE Starting
  BY <1>1 DEF Starting, MysqlStartup, RtmStartup, PostgresqlStartup, StartFails,
     PrepareFails, StartEnvFails, Starts
<1>2. CASE FrameworkCalls
  BY <1>2 DEF FrameworkCalls, ReceivedLog, ReceivedDataEnd, ReceivedShutdown, Exit, Enter,
     NothingListed, Called
<1>3. CASE Turn \/ (plugin = "mysql" /\ NewDate) \/ Environment
  BY <1>3 DEF Turn, NextEntry, NewDate, Environment, EnvKnown, EnvNew, EnvNoMemory, Goes,
     GivesUp, Returns, Answered, Unanswered, Refused
<1>4. CASE RuleId \/ RuleDetails
  BY <1>4 DEF RuleId, RuleKnown, RuleNoMemory, SelectRule, RuleDetails, InsertRule,
     InsertRuleFails, Goes, GivesUp, Returns, Answered, Unanswered, Refused
<1>5. CASE BuildFails
  BY <1>5 DEF BuildFails, Crashes
<1>6. CASE plugin # "postgresql" /\ Bulk
  BY <1>6 DEF Bulk, SendFirst, SendFirstFails, PutRow, PutRowNoMemory, SpoiledCrash,
     SendLast, SendLastFails, Send, SendFails, CanAppend, Crashes, Goes, GivesUp,
     Returns, Answered, Unanswered, Refused
<1>7. CASE plugin = "postgresql" /\ (InsertRow \/ InsertRowFails \/ BlockDone)
  BY <1>7 DEF InsertRow, InsertRowFails, BlockDone, Goes, GivesUp, Returns, Answered,
     Unanswered, Refused
<1>8. CASE OtherJob \/ UNCHANGED vars
  BY <1>8 DEF OtherJob, vars
<1> QED
  BY <1>1, <1>2, <1>3, <1>4, <1>5, <1>6, <1>7, <1>8, Steps

(* Steps of mistral_received_data_end that leave the list alone.           *)
LEMMA ListStep ==
    ASSUME SqlAssumption, Types, [Next]_vars PROVE ListTypes'
<1> USE DEF Types, ListTypes, Working
<1>1. CASE Starting
  BY <1>1 DEF Starting, MysqlStartup, RtmStartup, PostgresqlStartup, StartFails,
     PrepareFails, StartEnvFails, Starts, list
<1>2. CASE ReceivedLog
  <2>1. PICK e \in Entry : /\ log_list' = Append(log_list, e)
                           /\ received' = Append(received, e) /\ pc' = pc
    BY <1>2 DEF ReceivedLog, NextEntries
  <2> QED BY <2>1
<1>3. CASE ReceivedDataEnd \/ ReceivedShutdown \/ Exit
  BY <1>3 DEF ReceivedDataEnd, ReceivedShutdown, Exit, Enter, NothingListed, Called, list
<1>4. CASE Turn \/ (plugin = "mysql" /\ NewDate) \/ Environment
  BY <1>4 DEF Turn, NextEntry, NewDate, Environment, EnvKnown, EnvNew, EnvNoMemory, Goes,
     GivesUp, Returns, list
<1>5. CASE RuleId \/ RuleDetails
  BY <1>5 DEF RuleId, RuleKnown, RuleNoMemory, SelectRule, RuleDetails, InsertRule,
     InsertRuleFails, Goes, GivesUp, Returns, list
<1>6. CASE BuildFails
  BY <1>6 DEF BuildFails, Crashes, list
<1>7. CASE plugin # "postgresql" /\ Bulk
  <2>1. CASE PutRow
    BY <1>7, <2>1, AtHand DEF PutRow, CanAppend
  <2>2. CASE Bulk /\ ~PutRow
    BY <2>2 DEF Bulk, SendFirst, SendFirstFails, PutRowNoMemory, SpoiledCrash,
       SendLast, SendLastFails, Send, SendFails, Crashes, Goes, GivesUp, Returns, list
  <2> QED BY <1>7, <2>1, <2>2
<1>8. CASE plugin = "postgresql" /\ (InsertRow \/ InsertRowFails \/ BlockDone)
  BY <1>8, AtHand DEF InsertRow, InsertRowFails, BlockDone, Goes, GivesUp, Returns, list
<1>9. CASE OtherJob \/ UNCHANGED vars
  BY <1>9 DEF OtherJob, vars, list
<1> QED
  BY <1>1, <1>2, <1>3, <1>4, <1>5, <1>6, <1>7, <1>8, <1>9, Steps DEF FrameworkCalls

LEMMA StatementStep ==
    ASSUME SqlAssumption, Types, [Next]_vars PROVE StatementTypes'
<1> USE DEF Types, StatementTypes
<1>1. CASE Starting \/ FrameworkCalls
  BY <1>1 DEF Starting, MysqlStartup, RtmStartup, PostgresqlStartup, StartFails,
     PrepareFails, StartEnvFails, Starts, FrameworkCalls, ReceivedLog, ReceivedDataEnd,
     ReceivedShutdown, Exit, Enter, NothingListed, list, database
<1>2. CASE Turn \/ (plugin = "mysql" /\ NewDate) \/ Environment
  BY <1>2 DEF Turn, NextEntry, NewDate, Environment, EnvKnown, EnvNew, EnvNoMemory,
     list, database
<1>3. CASE RuleId \/ RuleDetails
  BY <1>3 DEF RuleId, RuleKnown, RuleNoMemory, SelectRule, RuleDetails, InsertRule,
     InsertRuleFails, list, database
<1>4. CASE BuildFails
  BY <1>4 DEF BuildFails, Crashes, list, database
<1>5. CASE plugin # "postgresql" /\ Bulk
  <2>1. CASE PutRow
    <3>1. log_list # <<>> /\ (plugin = "mysql" => table_name \in Nat)
      BY <2>1, AtHand DEF PutRow, CanAppend, ListTypes, DateTypes, Working
    <3>2. [entry |-> entry, rule_id |-> rule_id] \in Row
      BY <3>1, AtHand DEF Row, RuleTypes
    <3> QED BY <1>5, <2>1, <3>1, <3>2 DEF PutRow, database, DateTypes
  <2>2. ASSUME Reach(log_insert) PROVE log_rows' \in Seq([row : Row, table : Table])
    <3> DEFINE more == [i \in DOMAIN log_insert |->
                           [row |-> log_insert[i], table |-> insert_table]]
    <3>1. more \in Seq([row : Row, table : Table])
      <4>1. \A i \in DOMAIN log_insert : log_insert[i] \in Row
        OBVIOUS
      <4>2. DOMAIN log_insert = 1 .. Len(log_insert) /\ Len(log_insert) \in Nat
        OBVIOUS
      <4> QED BY <4>1, <4>2
    <3>2. log_rows' = log_rows \o more
      BY <2>2 DEF Reach
    <3> HIDE DEF more
    <3> QED BY <3>1, <3>2
  <2>3. CASE Bulk /\ ~PutRow
    <3>1. log_rows' \in Seq([row : Row, table : Table])
      BY <2>2, <2>3 DEF Bulk, SendFirst, SendFirstFails, PutRowNoMemory, SpoiledCrash,
         SendLast, SendLastFails, Send, SendFails, Crashes, list, database
    <3>2. \/ log_insert' = log_insert /\ insert_table' = insert_table
          \/ log_insert' = <<>> /\ insert_table' = NoTable
      BY <2>3 DEF Bulk, SendFirst, SendFirstFails, PutRowNoMemory, SpoiledCrash,
         SendLast, SendLastFails, Send, SendFails, Crashes, list, database
    <3>3. plugin' = plugin /\ spoiled' \in BOOLEAN
      BY <2>3 DEF Bulk, SendFirst, SendFirstFails, PutRowNoMemory, SpoiledCrash,
         SendLast, SendLastFails, Send, SendFails, Crashes, list, database
    <3>4. insert_table' \in Table /\ log_insert' \in Seq(Row)
      <4>1. NoTable \in Table
        BY DEF Table
      <4> QED BY <3>2, <4>1, EmptyIsSeq, Zenon
    <3>5. plugin' = "mysql" /\ log_insert' # <<>> => insert_table' \in Nat
      BY <3>2, <3>3
    <3>6. plugin' # "postgresql"
      BY <1>5, <3>3
    <3> QED BY <3>1, <3>3, <3>4, <3>5, <3>6, Zenon
  <2> QED BY <1>5, <2>1, <2>3
<1>6. CASE plugin = "postgresql" /\ (InsertRow \/ InsertRowFails \/ BlockDone)
  <2>1. ASSUME pc = "values", RowReaches
        PROVE log_rows' \in Seq([row : Row, table : Table])
    <3>1. [entry |-> entry, rule_id |-> rule_id] \in Row
      BY <2>1, AtHand DEF Row, RuleTypes, ListTypes, Working
    <3> QED BY <2>1, <3>1 DEF RowReaches, Table
  <2>2. log_rows' \in Seq([row : Row, table : Table])
    BY <1>6, <2>1 DEF InsertRow, InsertRowFails, BlockDone, Goes, database
  <2> QED BY <1>6, <2>2 DEF InsertRow, InsertRowFails, BlockDone, list
<1>7. CASE OtherJob \/ UNCHANGED vars
  BY <1>7 DEF OtherJob, vars, list, database
<1> QED
  BY <1>1, <1>2, <1>3, <1>4, <1>5, <1>6, <1>7, Steps

LEMMA DateStep ==
    ASSUME SqlAssumption, Types, [Next]_vars PROVE DateTypes'
<1> USE DEF Types, DateTypes, Working
<1>1. CASE Starting \/ FrameworkCalls
  <2>1. UNCHANGED <<plugin, last_log_date, table_name>> /\ date_changed' \in BOOLEAN
    BY <1>1 DEF Starting, MysqlStartup, RtmStartup, PostgresqlStartup, StartFails,
       PrepareFails, StartEnvFails, Starts, FrameworkCalls, ReceivedLog, ReceivedDataEnd,
       ReceivedShutdown, Exit, Enter, NothingListed, dates
  <2>2. pc' = pc \/ pc' = "entry"
    BY <1>1 DEF Starting, MysqlStartup, RtmStartup, PostgresqlStartup, StartFails,
       PrepareFails, StartEnvFails, Starts, FrameworkCalls, ReceivedLog, ReceivedDataEnd,
       ReceivedShutdown, Exit, Enter, NothingListed
  <2>3. ~Working \/ pc' = "entry"
    BY <1>1 DEF Starting, MysqlStartup, RtmStartup, PostgresqlStartup, StartFails,
       PrepareFails, StartEnvFails, Starts, FrameworkCalls, ReceivedLog, ReceivedDataEnd,
       ReceivedShutdown, Exit, Enter, NothingListed, Called, ControlTypes
  <2> QED BY <2>1, <2>2, <2>3
<1>2. CASE Turn
  BY <1>2 DEF Turn, NextEntry, Goes, list, dates, entry
<1>3. CASE plugin = "mysql" /\ NewDate
  <2>1. last_log_date' = entry.date /\ entry' = entry /\ entry.date \in Dates
    BY <1>3, AtHand DEF NewDate, list, entry
  <2>2. table_name' \in Nat /\ date_changed' = TRUE
    BY <1>3 DEF NewDate, AsBool
  <2> QED BY <2>1, <2>2 DEF Table
<1>4. CASE Environment \/ RuleId \/ RuleDetails
  <2>1. UNCHANGED <<plugin, log_list, dates>> /\ (Working \/ pc' = "idle")
    BY <1>4 DEF Environment, EnvKnown, EnvNew, EnvNoMemory, RuleId, RuleKnown,
       RuleNoMemory, SelectRule, RuleDetails, InsertRule, InsertRuleFails, Goes, GivesUp,
       Returns, list
  <2> QED BY <2>1 DEF dates, entry
<1>5. CASE BuildFails
  BY <1>5 DEF BuildFails, Crashes, list, dates, entry
<1>6. CASE plugin # "postgresql" /\ Bulk
  <2>1. UNCHANGED <<plugin, last_log_date, table_name>> /\ date_changed' \in BOOLEAN
    BY <1>6 DEF Bulk, SendFirst, SendFirstFails, PutRow, PutRowNoMemory, SpoiledCrash,
       SendLast, SendLastFails, SendFails, Crashes, dates
  <2>2. \/ pc' \in {"idle", "entry"}
        \/ Working /\ UNCHANGED log_list
    BY <1>6 DEF Bulk, SendFirst, SendFirstFails, PutRow, PutRowNoMemory, SpoiledCrash,
       SendLast, SendLastFails, SendFails, Crashes, Goes, GivesUp, Returns
  <2> QED BY <2>1, <2>2 DEF entry
<1>7. CASE plugin = "postgresql" /\ (InsertRow \/ InsertRowFails \/ BlockDone)
  BY <1>7 DEF InsertRow, InsertRowFails, BlockDone, dates
<1>8. CASE OtherJob \/ UNCHANGED vars
  BY <1>8 DEF OtherJob, vars, list, dates, entry
<1> QED
  BY <1>1, <1>2, <1>3, <1>4, <1>5, <1>6, <1>7, <1>8, Steps

LEMMA RuleStep ==
    ASSUME SqlAssumption, Types, [Next]_vars PROVE RuleTypes'
<1> USE DEF Types, RuleTypes
<1>1. CASE Starting \/ FrameworkCalls
  BY <1>1 DEF Starting, MysqlStartup, RtmStartup, PostgresqlStartup, StartFails,
     PrepareFails, StartEnvFails, Starts, FrameworkCalls, ReceivedLog, ReceivedDataEnd,
     ReceivedShutdown, Exit, Enter, NothingListed, trees, database
<1>2. CASE Turn \/ (plugin = "mysql" /\ NewDate) \/ Environment
  BY <1>2 DEF Turn, NextEntry, NewDate, Environment, EnvKnown, EnvNew, EnvNoMemory,
     trees, database
<1>3. CASE RuleId
  <2>1. CASE RuleKnown \/ RuleNoMemory
    BY <2>1 DEF RuleKnown, RuleNoMemory, trees, database
  <2>2. CASE \E closes \in BOOLEAN : SelectRule(closes)
    <3>1. entry.rule \in Rules
      BY <2>2, AtHand DEF SelectRule, ListTypes, Working
    <3>2. rule_details' = rule_details
      BY <2>2 DEF SelectRule, database
    <3>3. PICK text \in Sent :
             \/ /\ Recorded(text) /\ rule_id' = IdOf(text)
                /\ rule_root' = RuleIdIs(entry.rule, rule_id')
             \/ rule_root' = RuleIdIs(entry.rule, 0) /\ rule_id' = rule_id
      BY <2>2 DEF SelectRule
    <3>4. Recorded(text) => IdOf(text) \in Nat
      BY DEF Recorded, IdOf, ToSet
    <3>5. \E id \in Nat : rule_root' = RuleIdIs(entry.rule, id) /\ rule_id' \in {rule_id, id}
      BY <3>3, <3>4
    <3>6. misread' \subseteq Rules
      BY <2>2, <3>1 DEF SelectRule, Asks
    <3> QED BY <3>1, <3>2, <3>5, <3>6 DEF RuleIdIs
  <2> QED BY <1>3, <2>1, <2>2 DEF RuleId
<1>4. CASE RuleDetails
  <2>1. entry.rule \in Rules
    BY <1>4, AtHand DEF RuleDetails, InsertRule, InsertRuleFails, ListTypes, Working
  <2>2. \A t \in Sent : Column(t) \in Texts
    BY <2>1, Columns DEF SqlAssumption, Sent
  <2>3. /\ \/ rule_details' = rule_details
           \/ \E t \in Sent : rule_details' = Append(rule_details, Column(t))
        /\ \E t : Asks(t)
    BY <1>4 DEF RuleDetails, InsertRule, InsertRuleFails
  <2>4. rule_details' \in Seq(Texts) /\ misread' \subseteq Rules
    BY <2>1, <2>2, <2>3 DEF Asks
  <2>5. CASE \E closes \in BOOLEAN : InsertRule(closes)
    <3>1. rule_id' \in Nat /\ rule_root' = RuleIdIs(entry.rule, rule_id')
      BY <2>4, <2>5 DEF InsertRule
    <3> QED BY <2>1, <2>4, <3>1 DEF RuleIdIs
  <2>6. CASE InsertRuleFails
    BY <2>4, <2>6 DEF InsertRuleFails
  <2> QED BY <1>4, <2>5, <2>6 DEF RuleDetails
<1>5. CASE BuildFails
  BY <1>5 DEF BuildFails, Crashes, trees, database
<1>6. CASE plugin # "postgresql" /\ Bulk
  BY <1>6 DEF Bulk, SendFirst, SendFirstFails, PutRow, PutRowNoMemory, SpoiledCrash,
     SendLast, SendLastFails, SendFails, Crashes, trees, database
<1>7. CASE plugin = "postgresql" /\ (InsertRow \/ InsertRowFails \/ BlockDone)
  BY <1>7 DEF InsertRow, InsertRowFails, BlockDone, trees, database
<1>8. CASE OtherJob
  <2>1. PICK r \in Others : rule_details' = Append(rule_details, Column(r))
    BY <1>8 DEF OtherJob
  <2>2. Column(r) \in Texts
    BY Columns DEF SqlAssumption
  <2>3. rule_details' \in Seq(Texts)
    BY <2>1, <2>2
  <2> QED BY <1>8, <2>3 DEF OtherJob, trees
<1>9. CASE UNCHANGED vars
  BY <1>9 DEF vars, trees, database
<1> QED
  BY <1>1, <1>2, <1>3, <1>4, <1>5, <1>6, <1>7, <1>8, <1>9, Steps

LEMMA EnvStep ==
    ASSUME SqlAssumption, Types, [Next]_vars PROVE EnvTypes'
<1> USE DEF Types, EnvTypes
<1>1. CASE Starting
  <2>1. <<0, NoDate>> \in Table \X (Dates \cup {NoDate})
    BY DEF Table
  <2>2. StartEnvStored => env_rows' \in Seq(Table \X (Dates \cup {NoDate}))
    BY <2>1 DEF StartEnvStored
  <2> QED
    BY <1>1, <2>2 DEF Starting, MysqlStartup, RtmStartup, PostgresqlStartup, StartFails,
       PrepareFails, StartEnvFails, Starts, trees, database
<1>2. CASE FrameworkCalls
  BY <1>2 DEF FrameworkCalls, ReceivedLog, ReceivedDataEnd, ReceivedShutdown, Exit, Enter,
     NothingListed, trees, database
<1>3. CASE Turn \/ (plugin = "mysql" /\ NewDate)
  BY <1>3 DEF Turn, NextEntry, NewDate, trees, database
<1>4. CASE Environment
  <2>1. CASE EnvNew
    <3>1. table_name \in Nat /\ last_log_date \in Dates
      BY <1>4, <2>1, AtHand DEF Environment, EnvNew, Working, ListTypes, DateTypes
    <3> DEFINE here == <<table_name, last_log_date>>
    <3>2. here \in Nat \X Dates /\ here \in Table \X (Dates \cup {NoDate})
      BY <3>1 DEF Table
    <3>3. /\ table_root' = table_root \cup {here}
          /\ env_rows' \in {env_rows, Append(env_rows, here)}
      BY <2>1 DEF EnvNew
    <3> HIDE DEF here
    <3>4. Append(env_rows, here) \in Seq(Table \X (Dates \cup {NoDate}))
      BY <3>2
    <3>5. table_root' \subseteq Nat \X Dates
      BY <3>2, <3>3
    <3> QED BY <3>3, <3>4, <3>5
  <2> QED BY <1>4, <2>1 DEF Environment, EnvKnown, EnvNoMemory, trees, database
<1>5. CASE RuleId \/ RuleDetails
  BY <1>5 DEF RuleId, RuleKnown, RuleNoMemory, SelectRule, RuleDetails, InsertRule,
     InsertRuleFails, trees, database
<1>6. CASE BuildFails
  BY <1>6 DEF BuildFails, Crashes, trees, database
<1>7. CASE plugin # "postgresql" /\ Bulk
  BY <1>7 DEF Bulk, SendFirst, SendFirstFails, PutRow, PutRowNoMemory, SpoiledCrash,
     SendLast, SendLastFails, SendFails, Crashes, trees, database
<1>8. CASE plugin = "postgresql" /\ (InsertRow \/ InsertRowFails \/ BlockDone)
  BY <1>8 DEF InsertRow, InsertRowFails, BlockDone, trees, database
<1>9. CASE OtherJob \/ UNCHANGED vars
  BY <1>9 DEF OtherJob, vars, trees, database
<1> QED
  BY <1>1, <1>2, <1>3, <1>4, <1>5, <1>6, <1>7, <1>8, <1>9, Steps

LEMMA TypesStep == ASSUME SqlAssumption, Types, [Next]_vars PROVE Types'
BY ControlStep, ListStep, StatementStep, DateStep, RuleStep, EnvStep DEF Types

-----------------------------------------------------------------------------
(* A row refers to its own rule.  An id stands for a rule when the rule is *)
(* recorded under it, or the database was asked for it by freed text; the  *)
(* tree holds such ids, and 0 for a rule that is about to be recorded or   *)
(* whose look-up failed.                                                   *)
StandsFor(id, r) ==
    id \in DOMAIN rule_details /\ (rule_details[id] = Column(r) \/ r \in misread)

Trusted(id, r) == StandsFor(id, r) \/ (id = 0 /\ shutdown)

RuleInv ==
    /\ RuleIdsMatch
    /\ \A i \in DOMAIN rule_details : \E t \in Texts : rule_details[i] = Column(t)
    /\ \A r \in DOMAIN rule_root :
          \/ Trusted(rule_root[r], r)
          \/ rule_root[r] = 0 /\ pc = "insert_rule" /\ r = entry.rule
    /\ pc \in {"values", "append"} => Trusted(rule_id, entry.rule)

(* What the rows say, apart.                                               *)
RowsTrusted ==
    /\ \A i \in DOMAIN log_rows :
          Trusted(log_rows[i].row.rule_id, log_rows[i].row.entry.rule)
    /\ \A i \in DOMAIN log_insert :
          Trusted(log_insert[i].rule_id, log_insert[i].entry.rule)
    /\ misread # {} => phase \in {"exit", "gone", "crashed"}
    /\ plugin # "mysql" => \A i \in DOMAIN log_rows : log_rows[i].row.rule_id # 0

LEMMA RowsAre == RuleIdsMatch <=> RowsTrusted
BY DEF RuleIdsMatch, RowsTrusted, Trusted, StandsFor, ToSet

(* Rules are recorded as their columns keep them: what is found whole is   *)
(* what would have been recorded.                                          *)
LEMMA FoundWhole ==
    ASSUME SqlAssumption, RuleInv, NEW t \in Texts, Recorded(t)
    PROVE  /\ IdOf(t) \in DOMAIN rule_details /\ rule_details[IdOf(t)] = t
           /\ Column(t) = t
<1>1. PICK i \in DOMAIN rule_details : rule_details[i] = t
  BY DEF Recorded, ToSet
<1>2. IdOf(t) \in DOMAIN rule_details /\ rule_details[IdOf(t)] = t
  BY <1>1 DEF IdOf
<1>3. PICK x \in Texts : t = Column(x)
  BY <1>1 DEF RuleInv
<1> QED BY <1>2, <1>3, Columns

(* Every step but OtherJob and the insertion leaves the recorded rules     *)
(* alone; those append one.                                                *)
LEMMA Recording ==
    ASSUME SqlAssumption, Types, [Next]_vars
    PROVE  /\ plugin' = plugin /\ (shutdown => shutdown') /\ misread \subseteq misread'
           /\ \/ rule_details' = rule_details
              \/ \E t \in Texts : rule_details' = Append(rule_details, Column(t))
<1>1. CASE Starting \/ FrameworkCalls
  BY <1>1 DEF Starting, MysqlStartup, RtmStartup, PostgresqlStartup, StartFails,
     PrepareFails, StartEnvFails, Starts, FrameworkCalls, ReceivedLog, ReceivedDataEnd,
     ReceivedShutdown, Exit, Enter, NothingListed, trees, database
<1>2. CASE Turn \/ (plugin = "mysql" /\ NewDate) \/ Environment \/ RuleId
  BY <1>2 DEF Turn, NextEntry, NewDate, Environment, EnvKnown, EnvNew, EnvNoMemory,
     RuleId, RuleKnown, RuleNoMemory, SelectRule, Asks, Goes, GivesUp, trees, database
<1>3. CASE RuleDetails
  <2>1. entry.rule \in Rules
    BY <1>3, AtHand DEF RuleDetails, InsertRule, InsertRuleFails, Types, ListTypes, Working
  <2>2. Sent \subseteq Texts
    BY <2>1 DEF SqlAssumption, Sent
  <2> QED
    BY <1>3, <2>2 DEF RuleDetails, InsertRule, InsertRuleFails, Asks, Goes, GivesUp
<1>4. CASE BuildFails
  BY <1>4 DEF BuildFails, Crashes, trees, database
<1>5. CASE plugin # "postgresql" /\ Bulk
  BY <1>5 DEF Bulk, SendFirst, SendFirstFails, PutRow, PutRowNoMemory, SpoiledCrash,
     SendLast, SendLastFails, SendFails, Crashes, Goes, GivesUp, trees, database
<1>6. CASE plugin = "postgresql" /\ (InsertRow \/ InsertRowFails \/ BlockDone)
  BY <1>6 DEF InsertRow, InsertRowFails, BlockDone, Goes, GivesUp, trees, database
<1>7. CASE OtherJob
  BY <1>7 DEF OtherJob, SqlAssumption, trees
<1>8. CASE UNCHANGED vars
  BY <1>8 DEF vars, trees, database
<1> QED
  BY <1>1, <1>2, <1>3, <1>4, <1>5, <1>6, <1>7, <1>8, Steps

(* Recording a rule leaves the others where they are.                      *)
TrustedNext(id, r) ==
    \/ /\ id \in DOMAIN rule_details'
       /\ rule_details'[id] = Column(r) \/ r \in misread'
    \/ id = 0 /\ shutdown'

LEMMA TrustLasts ==
    ASSUME SqlAssumption, Types, [Next]_vars
    PROVE  \A id, r : Trusted(id, r) => TrustedNext(id, r)
<1> SUFFICES ASSUME NEW id, NEW r, Trusted(id, r) PROVE TrustedNext(id, r)
  OBVIOUS
<1>1. CASE id = 0 /\ shutdown
  BY <1>1, Recording DEF TrustedNext
<1>2. CASE StandsFor(id, r)
  <2>1. id \in DOMAIN rule_details' /\ rule_details'[id] = rule_details[id]
    <3>1. CASE rule_details' = rule_details
      BY <1>2, <3>1 DEF StandsFor
    <3>2. ASSUME NEW c, rule_details' = Append(rule_details, c)
          PROVE  id \in DOMAIN rule_details' /\ rule_details'[id] = rule_details[id]
      BY <1>2, <3>2 DEF StandsFor, Types, RuleTypes
    <3> QED BY <3>1, <3>2, Recording
  <2> QED BY <1>2, <2>1, Recording DEF StandsFor, TrustedNext
<1> QED BY <1>1, <1>2 DEF Trusted

(* What a step may do with rows: start or lengthen the statement, empty it *)
(* into the database, insert one.                                          *)
ThisRow == [entry |-> entry, rule_id |-> rule_id]

LEMMA StatementMoves ==
    ASSUME SqlAssumption, Types, [Next]_vars
    PROVE  \/ log_insert' \in {log_insert, <<>>}
           \/ PutRow /\ log_insert' = Append(log_insert, ThisRow)
<1>1. CASE Starting \/ FrameworkCalls
  BY <1>1 DEF Starting, MysqlStartup, RtmStartup, PostgresqlStartup, StartFails,
     PrepareFails, StartEnvFails, Starts, FrameworkCalls, ReceivedLog, ReceivedDataEnd,
     ReceivedShutdown, Exit, Enter, NothingListed, list
<1>2. CASE Turn \/ (plugin = "mysql" /\ NewDate) \/ Environment \/ RuleId \/ RuleDetails
  BY <1>2 DEF Turn, NextEntry, NewDate, Environment, EnvKnown, EnvNew, EnvNoMemory,
     RuleId, RuleKnown, RuleNoMemory, SelectRule, RuleDetails, InsertRule,
     InsertRuleFails, list
<1>3. CASE BuildFails
  BY <1>3 DEF BuildFails, Crashes, list
<1>4. CASE plugin # "postgresql" /\ Bulk
  BY <1>4 DEF Bulk, SendFirst, SendFirstFails, PutRow, PutRowNoMemory, SpoiledCrash,
     SendLast, SendLastFails, Send, SendFails, Crashes, list, ThisRow
<1>5. CASE plugin = "postgresql" /\ (InsertRow \/ InsertRowFails \/ BlockDone)
  BY <1>5 DEF InsertRow, InsertRowFails, BlockDone, list
<1>6. CASE OtherJob \/ UNCHANGED vars
  BY <1>6 DEF OtherJob, vars, list
<1> QED
  BY <1>1, <1>2, <1>3, <1>4, <1>5, <1>6, Steps

LEMMA RowsMove ==
    ASSUME SqlAssumption, Types, [Next]_vars
    PROVE  \/ log_rows' = log_rows
           \/ /\ plugin # "postgresql" /\ Acceptable /\ Reach(log_insert)
              /\ con = "up" /\ UNCHANGED <<log_list, received>>
              /\ \/ con' = "up" /\ log_insert' = <<>>
                 \/ con' = "lost" /\ log_insert' = log_insert
           \/ /\ plugin = "postgresql" /\ pc = "values" /\ RowFits /\ RowReaches
              /\ con = "up" /\ UNCHANGED received
              /\ \/ con' = "up" /\ log_list' = Tail(log_list)
                 \/ con' = "lost" /\ log_list' = log_list
<1>1. CASE Starting \/ FrameworkCalls
  BY <1>1 DEF Starting, MysqlStartup, RtmStartup, PostgresqlStartup, StartFails,
     PrepareFails, StartEnvFails, Starts, FrameworkCalls, ReceivedLog, ReceivedDataEnd,
     ReceivedShutdown, Exit, Enter, NothingListed, database
<1>2. CASE Turn \/ (plugin = "mysql" /\ NewDate) \/ Environment \/ RuleId \/ RuleDetails
  BY <1>2 DEF Turn, NextEntry, NewDate, Environment, EnvKnown, EnvNew, EnvNoMemory,
     RuleId, RuleKnown, RuleNoMemory, SelectRule, RuleDetails, InsertRule,
     InsertRuleFails, database
<1>3. CASE BuildFails
  BY <1>3 DEF BuildFails, Crashes, database
<1>4. CASE plugin # "postgresql" /\ Bulk
  <2>1. CASE SendFirst \/ SendLast
    BY <1>4, <2>1, Zenon DEF SendFirst, SendLast, Send, Answered
  <2>2. CASE SendFails
    BY <1>4, <2>2 DEF SendFails, Unanswered, list
  <2>3. CASE PutRow \/ PutRowNoMemory \/ SpoiledCrash \/ SendLastFails
    BY <2>2, <2>3 DEF PutRow, PutRowNoMemory, SpoiledCrash, SendLastFails, Crashes, database
  <2> QED BY <1>4, <2>1, <2>2, <2>3 DEF Bulk, SendFirstFails
<1>5. CASE plugin = "postgresql" /\ (InsertRow \/ InsertRowFails \/ BlockDone)
  BY <1>5 DEF InsertRow, InsertRowFails, BlockDone, Goes, Answered, Unanswered, list,
     database
<1>6. CASE OtherJob \/ UNCHANGED vars
  BY <1>6 DEF OtherJob, vars, database
<1> QED
  BY <1>1, <1>2, <1>3, <1>4, <1>5, <1>6, Steps

LEMMA Concat ==
    ASSUME NEW R, NEW s \in Seq(R), NEW t \in Seq(R)
    PROVE  /\ Len(s \o t) = Len(s) + Len(t)
           /\ DOMAIN (s \o t) = 1 .. (Len(s) + Len(t))
           /\ \A i \in DOMAIN s : (s \o t)[i] = s[i]
           /\ \A i \in DOMAIN t : (s \o t)[Len(s) + i] = t[i]
OBVIOUS

(* What is in the database after a statement, and after a row.             *)
LEMMA Reached ==
    ASSUME StatementTypes, Reach(log_insert)
    PROVE  /\ Len(log_rows') = Len(log_rows) + Len(log_insert)
           /\ DOMAIN log_rows' = 1 .. (Len(log_rows) + Len(log_insert))
           /\ \A i \in DOMAIN log_rows : log_rows'[i] = log_rows[i]
           /\ \A i \in DOMAIN log_insert :
                 log_rows'[Len(log_rows) + i] =
                     [row |-> log_insert[i], table |-> insert_table]
<1> DEFINE more == [k \in DOMAIN log_insert |->
                       [row |-> log_insert[k], table |-> insert_table]]
           R == [row : Row, table : Table]
<1>1. /\ Len(log_insert) \in Nat /\ DOMAIN log_insert = 1 .. Len(log_insert)
      /\ \A i \in DOMAIN log_insert : log_insert[i] \in Row
      /\ log_rows \in Seq(R) /\ insert_table \in Table
  BY DEF StatementTypes
<1>2. more \in Seq(R) /\ Len(more) = Len(log_insert)
  <2>1. more \in [1 .. Len(log_insert) -> R]
    BY <1>1
  <2> QED BY <1>1, <2>1
<1>3. \A i \in DOMAIN log_insert :
          more[i] = [row |-> log_insert[i], table |-> insert_table]
  OBVIOUS
<1>4. log_rows' = log_rows \o more
  BY DEF Reach
<1> HIDE DEF more, R
<1>5. /\ Len(log_rows') = Len(log_rows) + Len(more)
      /\ DOMAIN log_rows' = 1 .. (Len(log_rows) + Len(more))
      /\ \A i \in DOMAIN log_rows : log_rows'[i] = log_rows[i]
      /\ \A i \in DOMAIN more : log_rows'[Len(log_rows) + i] = more[i]
  BY <1>1, <1>2, <1>4, Concat
<1>6. DOMAIN more = DOMAIN log_insert
  BY <1>1, <1>2
<1> QED BY <1>2, <1>3, <1>5, <1>6

LEMMA Lengths ==
    ASSUME Types
    PROVE  /\ Len(log_rows) \in Nat /\ DOMAIN log_rows = 1 .. Len(log_rows)
           /\ Len(log_insert) \in Nat /\ DOMAIN log_insert = 1 .. Len(log_insert)
           /\ Len(log_list) \in Nat /\ DOMAIN log_list = 1 .. Len(log_list)
           /\ Len(received) \in Nat /\ DOMAIN received = 1 .. Len(received)
BY DEF Types, ListTypes, StatementTypes

LEMMA RowReached ==
    ASSUME StatementTypes, RowReaches
    PROVE  /\ Len(log_rows') = Len(log_rows) + 1
           /\ DOMAIN log_rows' = 1 .. (Len(log_rows) + 1)
           /\ \A i \in DOMAIN log_rows : log_rows'[i] = log_rows[i]
           /\ log_rows'[Len(log_rows) + 1] = [row |-> ThisRow, table |-> 0]
<1> DEFINE x == [row |-> ThisRow, table |-> 0]
<1>1. log_rows' = Append(log_rows, x)
  BY DEF RowReaches, ThisRow
<1> HIDE DEF x
<1>2. /\ Len(log_rows') = Len(log_rows) + 1
      /\ DOMAIN log_rows' = 1 .. (Len(log_rows) + 1)
      /\ \A i \in DOMAIN log_rows : log_rows'[i] = log_rows[i]
      /\ log_rows'[Len(log_rows) + 1] = x
  BY <1>1 DEF StatementTypes
<1> QED BY <1>2 DEF x

(* Freed text is sent in mistral_exit only, and that is the end.           *)
LastTry == phase \in {"exit", "gone", "crashed"}

LEMMA MisreadStep ==
    ASSUME SqlAssumption, Types, [Next]_vars, misread # {} => LastTry
    PROVE  misread' # {} => LastTry'
<1>1. LastTry => LastTry'
  <2>1. CASE Starting \/ FrameworkCalls
    BY <2>1 DEF Starting, MysqlStartup, RtmStartup, PostgresqlStartup, StartFails,
       PrepareFails, StartEnvFails, Starts, FrameworkCalls, ReceivedLog, ReceivedDataEnd,
       ReceivedShutdown, Exit, Enter, NothingListed, Called, LastTry
  <2>2. CASE Turn \/ (plugin = "mysql" /\ NewDate) \/ Environment \/ RuleId \/ RuleDetails
    BY <2>2 DEF Turn, NextEntry, NewDate, Environment, EnvKnown, EnvNew, EnvNoMemory,
       RuleId, RuleKnown, RuleNoMemory, SelectRule, RuleDetails, InsertRule,
       InsertRuleFails, Goes, GivesUp, Returns, LastTry
  <2>3. CASE BuildFails
    BY <2>3 DEF BuildFails, Crashes, LastTry
  <2>4. CASE plugin # "postgresql" /\ Bulk
    BY <2>4 DEF Bulk, SendFirst, SendFirstFails, PutRow, PutRowNoMemory, SpoiledCrash,
       SendLast, SendLastFails, SendFails, Crashes, Goes, GivesUp, Returns, LastTry
  <2>5. CASE plugin = "postgresql" /\ (InsertRow \/ InsertRowFails \/ BlockDone)
    BY <2>5 DEF InsertRow, InsertRowFails, BlockDone, Goes, GivesUp, Returns, LastTry
  <2>6. CASE OtherJob \/ UNCHANGED vars
    BY <2>6 DEF OtherJob, vars, LastTry
  <2> QED
    BY <2>1, <2>2, <2>3, <2>4, <2>5, <2>6, Steps
<1>2. misread' = misread \/ phase = "exit"
  <2>1. CASE Starting \/ FrameworkCalls
    BY <2>1 DEF Starting, MysqlStartup, RtmStartup, PostgresqlStartup, StartFails,
       PrepareFails, StartEnvFails, Starts, FrameworkCalls, ReceivedLog, ReceivedDataEnd,
       ReceivedShutdown, Exit, Enter, NothingListed, trees
  <2>2. CASE Turn \/ (plugin = "mysql" /\ NewDate) \/ Environment
    BY <2>2 DEF Turn, NextEntry, NewDate, Environment, EnvKnown, EnvNew, EnvNoMemory, trees
  <2>3. CASE RuleId \/ RuleDetails
    <3>1. misread' = misread \/ \E text \in Sent : Asks(text)
      BY <2>3 DEF RuleId, RuleKnown, RuleNoMemory, SelectRule, RuleDetails, InsertRule,
         InsertRuleFails, trees
    <3>2. phase # "exit" => \A text \in Sent : Asks(text) => misread' = misread
      BY DEF Sent, Asks
    <3> QED BY <3>1, <3>2
  <2>4. CASE BuildFails
    BY <2>4 DEF BuildFails, Crashes, trees
  <2>5. CASE plugin # "postgresql" /\ Bulk
    BY <2>5 DEF Bulk, SendFirst, SendFirstFails, PutRow, PutRowNoMemory, SpoiledCrash,
       SendLast, SendLastFails, SendFails, Crashes, trees
  <2>6. CASE plugin = "postgresql" /\ (InsertRow \/ InsertRowFails \/ BlockDone)
    BY <2>6 DEF InsertRow, InsertRowFails, BlockDone, trees
  <2>7. CASE OtherJob \/ UNCHANGED vars
    BY <2>7 DEF OtherJob, vars, trees
  <2> QED
    BY <2>1, <2>2, <2>3, <2>4, <2>5, <2>6, <2>7, Steps
<1> QED BY <1>1, <1>2 DEF LastTry

LEMMA RowsTrustedStep ==
    ASSUME SqlAssumption, Types, RuleInv, [Next]_vars PROVE RowsTrusted'
<1>1. RowsTrusted /\ Types'
  BY RowsAre, TypesStep DEF RuleInv
<1>2. plugin' = plugin
  BY Recording
<1>3. \A i \in DOMAIN log_insert' :
          TrustedNext(log_insert'[i].rule_id, log_insert'[i].entry.rule)
  <2>1. CASE log_insert' \in {log_insert, <<>>}
    BY <1>1, <2>1, TrustLasts DEF RowsTrusted
  <2>2. CASE PutRow /\ log_insert' = Append(log_insert, ThisRow)
    <3>1. Trusted(rule_id, entry.rule)
      BY <2>2 DEF PutRow, CanAppend, RuleInv
    <3>2. \A i \in DOMAIN log_insert' :
              \/ i \in DOMAIN log_insert /\ log_insert'[i] = log_insert[i]
              \/ log_insert'[i] = ThisRow
      BY <2>2 DEF Types, StatementTypes
    <3> QED BY <1>1, <3>1, <3>2, TrustLasts DEF RowsTrusted, ThisRow
  <2> QED BY <2>1, <2>2, StatementMoves
<1>4. ASSUME NEW i \in DOMAIN log_rows'
      PROVE  \/ i \in DOMAIN log_rows /\ log_rows'[i] = log_rows[i]
             \/ /\ Trusted(log_rows'[i].row.rule_id, log_rows'[i].row.entry.rule)
                /\ plugin # "mysql" => log_rows'[i].row.rule_id # 0
  <2>1. CASE log_rows' = log_rows
    BY <1>4, <2>1
  <2>2. CASE plugin # "postgresql" /\ Acceptable /\ Reach(log_insert)
    <3> DEFINE j == i - Len(log_rows)
    <3>1. \/ i \in DOMAIN log_rows /\ log_rows'[i] = log_rows[i]
          \/ j \in DOMAIN log_insert /\ log_rows'[i].row = log_insert[j]
      <4>1. /\ Len(log_insert) \in Nat /\ DOMAIN log_insert = 1 .. Len(log_insert)
            /\ Len(log_rows) \in Nat /\ DOMAIN log_rows = 1 .. Len(log_rows)
        BY DEF Types, StatementTypes
      <4>2. CASE i \in DOMAIN log_rows
        BY <2>2, <4>1, <4>2, Reached DEF Types
      <4>3. CASE i \notin DOMAIN log_rows
        <5>1. j \in 1 .. Len(log_insert) /\ i = Len(log_rows) + j
          BY <1>4, <2>2, <4>1, <4>3, Reached DEF Types
        <5>2. log_rows'[i] = [row |-> log_insert[j], table |-> insert_table]
          BY <2>2, <4>1, <5>1, Reached DEF Types
        <5> QED BY <4>1, <5>1, <5>2
      <4> QED BY <4>2, <4>3
    <3>2. CASE j \in DOMAIN log_insert /\ log_rows'[i].row = log_insert[j]
      <4>1. Trusted(log_insert[j].rule_id, log_insert[j].entry.rule)
        BY <1>1, <3>2 DEF RowsTrusted
      <4>2. plugin # "mysql" => log_insert[j].rule_id \in DOMAIN rule_details
        BY <2>2, <3>2 DEF Acceptable, Types, ControlTypes, SqlAssumption
      <4> QED BY <3>2, <4>1, <4>2 DEF Types, RuleTypes
    <3> QED BY <3>1, <3>2
  <2>3. CASE plugin = "postgresql" /\ pc = "values" /\ RowFits /\ RowReaches
    <3>1. Trusted(rule_id, entry.rule) /\ rule_id # 0
      BY <2>3 DEF RuleInv, RowFits, Types, RuleTypes
    <3>2. \/ i \in DOMAIN log_rows /\ log_rows'[i] = log_rows[i]
          \/ log_rows'[i].row = ThisRow
      <4>1. /\ DOMAIN log_rows' = 1 .. (Len(log_rows) + 1)
            /\ \A k \in DOMAIN log_rows : log_rows'[k] = log_rows[k]
            /\ log_rows'[Len(log_rows) + 1] = [row |-> ThisRow, table |-> 0]
        BY <2>3, RowReached DEF Types
      <4>2. DOMAIN log_rows = 1 .. Len(log_rows) /\ Len(log_rows) \in Nat
        BY Lengths
      <4>3. CASE i \in DOMAIN log_rows
        BY <4>1, <4>3
      <4>4. CASE i = Len(log_rows) + 1
        BY <4>1, <4>4
      <4> QED BY <1>4, <4>1, <4>2, <4>3, <4>4
    <3> QED BY <3>1, <3>2 DEF ThisRow
  <2> QED BY <2>1, <2>2, <2>3, RowsMove
<1>5. \A i \in DOMAIN log_rows' :
          /\ TrustedNext(log_rows'[i].row.rule_id, log_rows'[i].row.entry.rule)
          /\ plugin # "mysql" => log_rows'[i].row.rule_id # 0
  BY <1>1, <1>4, TrustLasts DEF RowsTrusted
<1>6. misread' # {} => phase' \in {"exit", "gone", "crashed"}
  BY <1>1, MisreadStep DEF RowsTrusted, LastTry
<1> QED
  BY <1>2, <1>3, <1>5, <1>6 DEF RowsTrusted, Trusted, StandsFor, TrustedNext, Column

LEMMA TreeStep ==
    ASSUME SqlAssumption, Types, RuleInv, [Next]_vars
    PROVE  /\ \A r \in DOMAIN rule_root' :
                 \/ TrustedNext(rule_root'[r], r)
                 \/ rule_root'[r] = 0 /\ pc' = "insert_rule" /\ r = entry'.rule
           /\ pc' \in {"values", "append"} => TrustedNext(rule_id', entry'.rule)
<1> DEFINE Tree == \A r \in DOMAIN rule_root' :
                      \/ TrustedNext(rule_root'[r], r)
                      \/ rule_root'[r] = 0 /\ pc' = "insert_rule" /\ r = entry'.rule
           Id == pc' \in {"values", "append"} => TrustedNext(rule_id', entry'.rule)
<1>1. ASSUME rule_root' = rule_root, pc # "insert_rule" PROVE Tree
  BY <1>1, TrustLasts DEF RuleInv
<1>2. ASSUME rule_id' = rule_id, pc \in {"values", "append"}, log_list' = log_list PROVE Id
  BY <1>2, TrustLasts DEF RuleInv, entry
<1>3. CASE Starting \/ FrameworkCalls \/ Turn \/ (plugin = "mysql" /\ NewDate) \/ Environment
  <2>1. /\ rule_root' = rule_root /\ pc' \notin {"values", "append"}
        /\ pc # "insert_rule"
    BY <1>3 DEF Starting, MysqlStartup, RtmStartup, PostgresqlStartup, StartFails,
     PrepareFails, StartEnvFails, Starts, FrameworkCalls, ReceivedLog, ReceivedDataEnd,
     ReceivedShutdown, Exit, Enter, NothingListed, Called,
     Turn, NextEntry, NewDate, Environment, EnvKnown, EnvNew, EnvNoMemory,
     Goes, GivesUp, Returns, trees, Types, ControlTypes
  <2> QED BY <1>1, <2>1
<1>4. CASE RuleId
  <2>1. CASE RuleKnown
    <3>1. /\ rule_root' = rule_root /\ pc = "rule" /\ entry' = entry
          /\ entry.rule \in DOMAIN rule_root /\ rule_id' = rule_root[entry.rule]
      BY <2>1 DEF RuleKnown, Goes, list, entry
    <3>2. Tree
      BY <1>1, <3>1
    <3>3. Trusted(rule_id', entry'.rule)
      BY <3>1 DEF RuleInv
    <3> QED BY <3>2, <3>3, TrustLasts
  <2>2. CASE RuleNoMemory
    BY <1>1, <2>2 DEF RuleNoMemory, GivesUp, Returns, trees
  <2>3. CASE \E closes \in BOOLEAN : SelectRule(closes)
    <3>1. /\ pc = "rule" /\ entry' = entry /\ entry.rule \in Rules
          /\ rule_details' = rule_details
      BY <2>3, AtHand DEF SelectRule, list, entry, Types, ListTypes, Working, database
    <3>2. PICK text \in Sent :
             /\ Asks(text)
             /\ \/ /\ Recorded(text) /\ rule_id' = IdOf(text)
                   /\ rule_root' = RuleIdIs(entry.rule, rule_id')
                   /\ pc' \in {"values", "idle"}
                \/ /\ rule_root' = RuleIdIs(entry.rule, 0)
                   /\ pc' = "insert_rule" \/ (pc' = "idle" /\ shutdown')
      BY <2>3 DEF SelectRule, Goes, GivesUp, Returns
    <3>3. CASE /\ Recorded(text) /\ rule_id' = IdOf(text)
               /\ rule_root' = RuleIdIs(entry.rule, rule_id')
               /\ pc' \in {"values", "idle"}
      <4>1. text \in Texts /\ (text # entry.rule => entry.rule \in misread')
        BY <3>1, <3>2 DEF Sent, SqlAssumption, Asks
      <4>2. /\ rule_id' \in DOMAIN rule_details /\ rule_details[rule_id'] = text
            /\ Column(text) = text
        BY <3>3, <4>1, FoundWhole
      <4>3. TrustedNext(rule_id', entry'.rule)
        BY <3>1, <4>1, <4>2 DEF TrustedNext
      <4>4. Tree
        BY <3>1, <3>3, <4>3, TrustLasts DEF RuleInv, RuleIdIs
      <4> QED BY <4>3, <4>4
    <3>4. CASE /\ rule_root' = RuleIdIs(entry.rule, 0)
               /\ pc' = "insert_rule" \/ (pc' = "idle" /\ shutdown')
      <4>1. Tree
        BY <3>1, <3>4, TrustLasts DEF RuleInv, RuleIdIs, TrustedNext
      <4> QED BY <3>4, <4>1
    <3> QED BY <3>2, <3>3, <3>4
  <2> QED BY <1>4, <2>1, <2>2, <2>3 DEF RuleId
<1>5. CASE RuleDetails
  <2>1. /\ pc = "insert_rule" /\ entry' = entry
    BY <1>5 DEF RuleDetails, InsertRule, InsertRuleFails, list, entry
  <2>2. CASE \E closes \in BOOLEAN : InsertRule(closes)
    <3>1. /\ rule_id' = Len(rule_details')
          /\ rule_root' = RuleIdIs(entry.rule, rule_id')
          /\ \E text : Asks(text) /\ rule_details' = Append(rule_details, Column(text))
      BY <2>2 DEF InsertRule
    <3>2. TrustedNext(rule_id', entry.rule)
      BY <3>1 DEF TrustedNext, Asks, Types, RuleTypes
    <3>3. Tree
      BY <2>1, <3>1, <3>2, TrustLasts DEF RuleInv, RuleIdIs
    <3> QED BY <2>1, <3>2, <3>3
  <2>3. CASE InsertRuleFails
    <3>1. /\ rule_root' = [x \in DOMAIN rule_root \ {entry.rule} |-> rule_root[x]]
          /\ pc' = "idle"
      BY <2>3 DEF InsertRuleFails, GivesUp, Returns
    <3>2. Tree
      BY <2>1, <3>1, TrustLasts DEF RuleInv
    <3> QED BY <3>1, <3>2
  <2> QED BY <1>5, <2>2, <2>3 DEF RuleDetails
<1>6. CASE BuildFails
  BY <1>1, <1>6 DEF BuildFails, Crashes, trees
<1>7. CASE plugin # "postgresql" /\ Bulk
  <2>1. rule_root' = rule_root /\ rule_id' = rule_id
    BY <1>7 DEF Bulk, SendFirst, SendFirstFails, PutRow, PutRowNoMemory, SpoiledCrash,
       SendLast, SendLastFails, SendFails, Crashes, trees
  <2>2. pc # "insert_rule"
    BY <1>7 DEF Bulk, SendFirst, SendFirstFails, PutRow, PutRowNoMemory, SpoiledCrash,
       SendLast, SendLastFails, CanAppend, Goes
  <2>3. \/ pc' \in {"idle", "entry"}
        \/ pc = "values" /\ log_list' = log_list
    BY <1>7 DEF Bulk, SendFirst, SendFirstFails, PutRow, PutRowNoMemory, SpoiledCrash,
       SendLast, SendLastFails, SendFails, Crashes, CanAppend, Goes, GivesUp, Returns
  <2> QED BY <1>1, <1>2, <2>1, <2>2, <2>3
<1>8. CASE plugin = "postgresql" /\ (InsertRow \/ InsertRowFails \/ BlockDone)
  <2>1. rule_root' = rule_root /\ pc # "insert_rule" /\ pc' \in {"idle", "entry"}
    BY <1>8 DEF InsertRow, InsertRowFails, BlockDone, Goes, GivesUp, Returns, trees
  <2> QED BY <1>1, <2>1
<1>9. CASE OtherJob \/ UNCHANGED vars
  <2>1. UNCHANGED <<rule_root, rule_id, log_list, pc>>
    BY <1>9 DEF OtherJob, vars, list, trees
  <2>2. Tree
    BY <2>1, TrustLasts DEF RuleInv, entry
  <2> QED BY <1>2, <2>1, <2>2
<1> QED
  BY <1>3, <1>4, <1>5, <1>6, <1>7, <1>8, <1>9, Steps

LEMMA RuleInvStep ==
    ASSUME SqlAssumption, Types, RuleInv, [Next]_vars PROVE RuleInv'
<1>1. plugin' = plugin
  BY Recording
<1>2. RuleIdsMatch'
  BY RowsTrustedStep, RowsAre, PTL
<1>3. \A i \in DOMAIN rule_details' : \E t \in Texts : rule_details'[i] = Column(t)
  <2>1. CASE rule_details' = rule_details
    BY <2>1 DEF RuleInv
  <2>2. ASSUME NEW t \in Texts, rule_details' = Append(rule_details, Column(t))
        PROVE  \A i \in DOMAIN rule_details' : \E x \in Texts : rule_details'[i] = Column(x)
    <3>1. \A i \in DOMAIN rule_details' :
              \/ i \in DOMAIN rule_details /\ rule_details'[i] = rule_details[i]
              \/ rule_details'[i] = Column(t)
      BY <2>2 DEF Types, RuleTypes
    <3> QED BY <3>1 DEF RuleInv
  <2> QED BY <2>1, <2>2, Recording
<1>4. \A r : Column(r)' = Column(r)
  BY <1>1 DEF Column
<1>5. (\A i \in DOMAIN rule_details : \E t \in Texts : rule_details[i] = Column(t))'
  BY <1>3, <1>4
<1>6. (\A r \in DOMAIN rule_root :
          \/ Trusted(rule_root[r], r)
          \/ rule_root[r] = 0 /\ pc = "insert_rule" /\ r = entry.rule)'
  BY <1>1, TreeStep DEF Trusted, TrustedNext, StandsFor, Column
<1>7. (pc \in {"values", "append"} => Trusted(rule_id, entry.rule))'
  BY <1>1, TreeStep DEF Trusted, TrustedNext, StandsFor, Column
<1> QED BY <1>2, <1>5, <1>6, <1>7 DEF RuleInv

-----------------------------------------------------------------------------
(* MySQL, until something fails.  The rows of the statement are of one     *)
(* date; while no new date has been met they are of the last one, in its   *)
(* table.                                                                  *)
RowDate(i) == log_insert[i].entry.date

Untroubled == plugin = "mysql" /\ ~shutdown

DateInv ==
    Untroubled =>
        /\ pc = "idle" /\ phase # "crashed" => log_insert = <<>>
        /\ pc = "append" => log_insert = <<>>
        /\ \A i, j \in DOMAIN log_insert : RowDate(i) = RowDate(j)
        /\ pc = "entry" \/ ~date_changed =>
              \A i \in DOMAIN log_insert :
                  RowDate(i) = last_log_date /\ insert_table = table_name

LEMMA DateInvStep ==
    ASSUME SqlAssumption, Types, DateInv, [Next]_vars PROVE DateInv'
<1>1. plugin' = plugin /\ (Untroubled' => Untroubled)
  BY Recording DEF Untroubled
<1> SUFFICES ASSUME Untroubled, Untroubled' PROVE DateInv'
  BY <1>1 DEF DateInv
<1>2. plugin = "mysql" /\ ~shutdown /\ ~shutdown'
  BY DEF Untroubled
<1> USE DEF DateInv, RowDate
<1>3. CASE Starting \/ FrameworkCalls
  <2>1. /\ UNCHANGED <<log_insert, insert_table, last_log_date, table_name>>
        /\ pc = "idle" /\ pc' \in {"idle", "entry"} /\ phase # "crashed"
    BY <1>2, <1>3 DEF Starting, MysqlStartup, RtmStartup, PostgresqlStartup, StartFails,
       PrepareFails, StartEnvFails, Starts, FrameworkCalls, ReceivedLog, ReceivedDataEnd,
       ReceivedShutdown, Exit, Enter, NothingListed, Called, list, dates, Types,
       ControlTypes
  <2>2. log_insert' = <<>>
    BY <2>1
  <2> QED BY <2>1, <2>2
<1>4. CASE Turn
  BY <1>4 DEF Turn, NextEntry, Goes, list, dates
<1>5. CASE NewDate
  BY <1>5 DEF NewDate, Goes, list
<1>6. CASE Environment \/ RuleId \/ RuleDetails
  <2>1. /\ UNCHANGED <<log_insert, insert_table, last_log_date, table_name, date_changed>>
        /\ pc' \notin {"idle", "entry", "append"}
    BY <1>2, <1>6 DEF Environment, EnvKnown, EnvNew, EnvNoMemory, RuleId, RuleKnown,
       RuleNoMemory, SelectRule, RuleDetails, InsertRule, InsertRuleFails, Goes,
       GivesUp, list, dates
  <2> QED BY <2>1
<1>7. CASE BuildFails
  BY <1>7 DEF BuildFails, Crashes, list, dates
<1>8. CASE Bulk
  <2>1. CASE SendFirst
    BY <2>1 DEF SendFirst, Goes, Send
  <2>2. CASE SendLast
    BY <2>2 DEF SendLast, Send, Returns
  <2>3. CASE PutRow
    <3>1. last_log_date = entry.date /\ pc' = "entry" /\ UNCHANGED dates
      BY <1>2, <2>3 DEF PutRow, CanAppend, Types, DateTypes, Working
    <3>2. log_insert = <<>> \/ ~date_changed
      BY <2>3 DEF PutRow, CanAppend, MustSendFirst
    <3>3. \A i \in DOMAIN log_insert' :
              \/ i \in DOMAIN log_insert /\ log_insert'[i] = log_insert[i]
              \/ log_insert'[i] = ThisRow
      BY <2>3 DEF PutRow, ThisRow, Types, StatementTypes
    <3>4. \A i \in DOMAIN log_insert' :
              log_insert'[i].entry.date = last_log_date /\ insert_table' = table_name
      <4>1. insert_table' = table_name
        <5>1. CASE log_insert = <<>>
          BY <2>3, <5>1 DEF PutRow
        <5>2. CASE log_insert # <<>>
          <6>1. 1 \in DOMAIN log_insert
            BY <5>2 DEF Types, StatementTypes
          <6> QED BY <2>3, <3>2, <5>2, <6>1 DEF PutRow
        <5> QED BY <5>1, <5>2
      <4>2. \A i \in DOMAIN log_insert : log_insert[i].entry.date = last_log_date
        BY <3>2
      <4> QED BY <3>1, <3>3, <4>1, <4>2 DEF ThisRow
    <3> QED BY <3>1, <3>4 DEF dates
  <2>4. CASE SpoiledCrash
    BY <2>4 DEF SpoiledCrash, Crashes, list, dates
  <2>5. ~(SendFirstFails \/ PutRowNoMemory \/ SendLastFails)
    BY <1>2 DEF SendFirstFails, PutRowNoMemory, SendLastFails, SendFails, GivesUp
  <2> QED BY <1>8, <2>1, <2>2, <2>3, <2>4, <2>5 DEF Bulk
<1>9. CASE OtherJob \/ UNCHANGED vars
  BY <1>9 DEF OtherJob, vars, list, dates
<1> QED
  BY <1>2, <1>3, <1>4, <1>5, <1>6, <1>7, <1>8, <1>9, Steps

-----------------------------------------------------------------------------
(* The environment.  What MySQL remembers having stored is what it stored, *)
(* the date being worked on among it; every row, sent or not, is in a      *)
(* table and of a date that are.                                           *)
Remembered ==
    /\ ToSet(env_rows) = table_root /\ IsInjective(env_rows)
    /\ pc # "env" /\ last_log_date # NoDate => <<table_name, last_log_date>> \in table_root
    /\ \A i \in DOMAIN log_insert : <<insert_table, RowDate(i)>> \in table_root
    /\ \A i \in DOMAIN log_rows :
          <<log_rows[i].table, log_rows[i].row.entry.date>> \in table_root

EnvInv ==
    HasVars =>
        /\ Untroubled => Remembered
        /\ plugin = "rtm" => env_rows = <<>>
        /\ plugin = "postgresql" =>
              IF phase = "starting" THEN env_rows = <<>>
              ELSE /\ Len(env_rows) <= 1
                   /\ phase \in {"running", "told", "exit"} => Len(env_rows) = 1

LEMMA EnvMoves ==
    ASSUME SqlAssumption, Types, [Next]_vars
    PROVE  \/ UNCHANGED env_rows
           \/ plugin = "mysql" /\ EnvNew
           \/ plugin = "postgresql" /\ PostgresqlStartup
<1>1. CASE Starting
  BY <1>1 DEF Starting, MysqlStartup, RtmStartup, StartFails, database
<1>2. CASE FrameworkCalls
  BY <1>2 DEF FrameworkCalls, ReceivedLog, ReceivedDataEnd, ReceivedShutdown, Exit, Enter,
     NothingListed, database
<1>3. CASE Turn \/ (plugin = "mysql" /\ NewDate) \/ Environment \/ RuleId \/ RuleDetails
  BY <1>3 DEF Turn, NextEntry, NewDate, Environment, EnvKnown, EnvNoMemory,
     RuleId, RuleKnown, RuleNoMemory, SelectRule, RuleDetails, InsertRule,
     InsertRuleFails, database
<1>4. CASE BuildFails
  BY <1>4 DEF BuildFails, Crashes, database
<1>5. CASE plugin # "postgresql" /\ Bulk
  BY <1>5 DEF Bulk, SendFirst, SendFirstFails, PutRow, PutRowNoMemory, SpoiledCrash,
     SendLast, SendLastFails, SendFails, Crashes, database
<1>6. CASE plugin = "postgresql" /\ (InsertRow \/ InsertRowFails \/ BlockDone)
  BY <1>6 DEF InsertRow, InsertRowFails, BlockDone, database
<1>7. CASE OtherJob \/ UNCHANGED vars
  BY <1>7 DEF OtherJob, vars, database
<1> QED
  BY <1>1, <1>2, <1>3, <1>4, <1>5, <1>6, <1>7, Steps

(* A plug-in starts once, and does not come back from having ended.        *)
LEMMA PhaseMoves ==
    ASSUME SqlAssumption, Types, [Next]_vars
    PROVE  \/ Starting
           \/ /\ phase' = "starting" => phase = "starting"
              /\ phase = "starting" => phase' = "starting"
              /\ phase' \in {"running", "told", "exit"} =>
                    phase \in {"running", "told", "exit"}
<1> USE DEF Types, ControlTypes
<1>1. CASE FrameworkCalls
  BY <1>1 DEF FrameworkCalls, ReceivedLog, ReceivedDataEnd, ReceivedShutdown, Exit, Enter,
     NothingListed, Called
<1>2. CASE Turn \/ (plugin = "mysql" /\ NewDate) \/ Environment
  BY <1>2 DEF Turn, NextEntry, NewDate, Environment, EnvKnown, EnvNew, EnvNoMemory,
     Goes, GivesUp, Returns
<1>3. CASE RuleId \/ RuleDetails
  BY <1>3 DEF RuleId, RuleKnown, RuleNoMemory, SelectRule, RuleDetails, InsertRule,
     InsertRuleFails, Goes, GivesUp, Returns
<1>4. CASE BuildFails
  BY <1>4 DEF BuildFails, Crashes
<1>5. CASE plugin # "postgresql" /\ Bulk
  BY <1>5 DEF Bulk, SendFirst, SendFirstFails, PutRow, PutRowNoMemory, SpoiledCrash,
     SendLast, SendLastFails, SendFails, CanAppend, Crashes, Goes, GivesUp, Returns
<1>6. CASE plugin = "postgresql" /\ (InsertRow \/ InsertRowFails \/ BlockDone)
  BY <1>6 DEF InsertRow, InsertRowFails, BlockDone, Goes, GivesUp, Returns
<1>7. CASE OtherJob \/ UNCHANGED vars
  BY <1>7 DEF OtherJob, vars
<1> QED
  BY <1>1, <1>2, <1>3, <1>4, <1>5, <1>6, <1>7, Steps

LEMMA RememberedStep ==
    ASSUME SqlAssumption, Types, DateInv, Remembered, [Next]_vars,
           HasVars, Untroubled, Untroubled'
    PROVE  Remembered'
<1>1. plugin = "mysql" /\ ~shutdown /\ ~shutdown'
  BY DEF Untroubled
<1> USE DEF Remembered, RowDate
<1>2. CASE Starting \/ FrameworkCalls
  <2>1. /\ UNCHANGED <<log_insert, insert_table, last_log_date, table_name, table_root,
                       env_rows, log_rows>>
        /\ pc # "env"
    BY <1>1, <1>2 DEF Starting, MysqlStartup, RtmStartup, PostgresqlStartup, StartFails,
       PrepareFails, StartEnvFails, Starts, FrameworkCalls, ReceivedLog, ReceivedDataEnd,
       ReceivedShutdown, Exit, Enter, NothingListed, Called, list, dates, trees, database,
       Types, ControlTypes
  <2> QED BY <2>1
<1>3. CASE Turn
  BY <1>3 DEF Turn, NextEntry, Goes, list, dates, trees, database
<1>4. CASE NewDate
  BY <1>4 DEF NewDate, Goes, list, trees, database
<1>5. CASE Environment
  <2>1. CASE EnvKnown
    BY <2>1 DEF EnvKnown, list, dates, trees, database
  <2>2. CASE EnvNew
    <3> DEFINE here == <<table_name, last_log_date>>
    <3>1. /\ here \notin table_root /\ table_root' = table_root \cup {here}
          /\ env_rows' = Append(env_rows, here)
          /\ UNCHANGED <<log_insert, insert_table, last_log_date, table_name, log_rows>>
      BY <1>1, <2>2 DEF EnvNew, GivesUp, list, dates
    <3>2. here' = here
      BY <3>1
    <3> HIDE DEF here
    <3>3. /\ Len(env_rows') = Len(env_rows) + 1 /\ Len(env_rows) \in Nat
          /\ DOMAIN env_rows = 1 .. Len(env_rows)
          /\ DOMAIN env_rows' = 1 .. (Len(env_rows) + 1)
          /\ \A i \in DOMAIN env_rows : env_rows'[i] = env_rows[i]
          /\ env_rows'[Len(env_rows) + 1] = here
      BY <3>1 DEF Types, EnvTypes
    <3>4. \A i \in DOMAIN env_rows : env_rows[i] # here
      BY <3>1 DEF ToSet
    <3>5. ToSet(env_rows') = ToSet(env_rows) \cup {here}
      BY <3>3 DEF ToSet
    <3>6. IsInjective(env_rows')
      BY <3>3, <3>4 DEF IsInjective
    <3> QED BY <3>1, <3>2, <3>5, <3>6 DEF here
  <2>3. ~EnvNoMemory
    BY <1>1 DEF EnvNoMemory, GivesUp
  <2> QED BY <1>5, <2>1, <2>2, <2>3 DEF Environment
<1>6. CASE RuleId \/ RuleDetails
  <2>1. /\ UNCHANGED <<log_insert, insert_table, last_log_date, table_name, table_root,
                       env_rows, log_rows>>
        /\ pc # "env"
    BY <1>1, <1>6 DEF RuleId, RuleKnown, RuleNoMemory, SelectRule, RuleDetails,
       InsertRule, InsertRuleFails, Goes, GivesUp, list, dates, trees, database
  <2> QED BY <2>1
<1>7. CASE BuildFails
  BY <1>7 DEF BuildFails, Crashes, list, dates, trees, database
<1>8. CASE Bulk
  <2>1. CASE SendFirst \/ SendLast
    <3>1. /\ Reach(log_insert) /\ log_insert' = <<>> /\ pc # "env"
          /\ UNCHANGED <<last_log_date, table_name, table_root, env_rows>>
      BY <2>1 DEF SendFirst, SendLast, Send, Goes, trees, dates
    <3>2. ASSUME NEW i \in DOMAIN log_rows'
          PROVE  <<log_rows'[i].table, log_rows'[i].row.entry.date>> \in table_root
      <4>1. /\ Len(log_insert) \in Nat /\ DOMAIN log_insert = 1 .. Len(log_insert)
            /\ Len(log_rows) \in Nat /\ DOMAIN log_rows = 1 .. Len(log_rows)
        BY DEF Types, StatementTypes
      <4>2. CASE i \in DOMAIN log_rows
        BY <3>1, <4>2, Reached DEF Types
      <4>3. CASE i \notin DOMAIN log_rows
        <5> DEFINE j == i - Len(log_rows)
        <5>1. j \in 1 .. Len(log_insert) /\ i = Len(log_rows) + j
          BY <3>1, <3>2, <4>1, <4>3, Reached DEF Types
        <5>2. log_rows'[i] = [row |-> log_insert[j], table |-> insert_table]
          BY <3>1, <4>1, <5>1, Reached DEF Types
        <5> QED BY <4>1, <5>1, <5>2
      <4> QED BY <4>2, <4>3
    <3> QED BY <3>1, <3>2
  <2>2. CASE PutRow
    <3>1. DateInv'
      BY DateInvStep
    <3>2. /\ pc' = "entry" /\ Working /\ pc # "env"
          /\ UNCHANGED <<last_log_date, table_name, table_root, env_rows, log_rows>>
      BY <2>2 DEF PutRow, CanAppend, dates, trees, database, Working
    <3>3. last_log_date # NoDate
      BY <1>1, <3>2, AtHand DEF Types, ListTypes, DateTypes, SqlAssumption
    <3>4. <<table_name, last_log_date>> \in table_root
      BY <3>2, <3>3
    <3>5. \A i \in DOMAIN log_insert' :
              log_insert'[i].entry.date = last_log_date' /\ insert_table' = table_name'
      BY <3>1, <3>2 DEF DateInv
    <3> QED BY <3>2, <3>4, <3>5
  <2>3. CASE SpoiledCrash
    BY <2>3 DEF SpoiledCrash, Crashes, CanAppend, list, dates, trees, database
  <2>4. ~(SendFirstFails \/ PutRowNoMemory \/ SendLastFails)
    BY <1>1 DEF SendFirstFails, PutRowNoMemory, SendLastFails, SendFails, GivesUp
  <2> QED BY <1>8, <2>1, <2>2, <2>3, <2>4 DEF Bulk
<1>9. CASE OtherJob \/ UNCHANGED vars
  BY <1>9 DEF OtherJob, vars, list, dates, trees, database
<1> QED
  BY <1>1, <1>2, <1>3, <1>4, <1>5, <1>6, <1>7, <1>8, <1>9, Steps

LEMMA EnvInvStep ==
    ASSUME SqlAssumption, Types, DateInv, EnvInv, [Next]_vars PROVE EnvInv'
<1> SUFFICES ASSUME HasVars PROVE EnvInv'
  BY DEF EnvInv
<1>1. plugin' = plugin
  BY Recording
<1>2. Untroubled' => Remembered'
  <2>1. Untroubled' => Untroubled
    BY Recording DEF Untroubled
  <2> QED BY <2>1, RememberedStep DEF EnvInv
<1>3. plugin = "rtm" => env_rows' = <<>>
  BY EnvMoves DEF EnvInv
<1>4. ASSUME plugin = "postgresql"
      PROVE  IF phase' = "starting" THEN env_rows' = <<>>
             ELSE /\ Len(env_rows') <= 1
                  /\ phase' \in {"running", "told", "exit"} => Len(env_rows') = 1
  <2>1. CASE Starting
    <3>1. phase = "starting" /\ env_rows = <<>>
      BY <1>4, <2>1 DEF Starting, PostgresqlStartup, StartFails, PrepareFails,
         StartEnvFails, Starts, EnvInv
    <3>2. CASE Starts /\ StartEnvStored
      <4>1. Len(env_rows') = 1
        BY <3>1, <3>2 DEF StartEnvStored
      <4> QED BY <3>2, <4>1 DEF Starts
    <3>3. CASE StartFails \/ PrepareFails \/ StartEnvFails
      <4>1. env_rows' = <<>> /\ phase' = "gone"
        BY <3>1, <3>3 DEF StartFails, PrepareFails, StartEnvFails, database
      <4>2. Len(env_rows') = 0
        BY <4>1
      <4> QED BY <4>1, <4>2
    <3> QED BY <1>4, <2>1, <3>2, <3>3 DEF Starting, PostgresqlStartup
  <2>2. CASE ~Starting
    <3>1. env_rows' = env_rows
      BY <1>4, <2>2, EnvMoves DEF Starting
    <3> QED BY <1>4, <2>2, <3>1, PhaseMoves DEF EnvInv
  <2> QED BY <2>1, <2>2
<1> QED BY <1>1, <1>2, <1>3, <1>4 DEF EnvInv

LEMMA EnvInvShows == ASSUME SqlAssumption, Types, EnvInv PROVE EnvStoredOnce
<1> SUFFICES ASSUME HasVars, ~shutdown PROVE EnvStoredOnce
  BY DEF EnvStoredOnce
<1>1. CASE plugin = "mysql"
  BY <1>1 DEF EnvStoredOnce, EnvInv, Untroubled, Remembered
<1>2. CASE plugin # "mysql"
  <2>1. Len(env_rows) <= 1
    <3>1. env_rows = <<>> => Len(env_rows) <= 1
      OBVIOUS
    <3>2. plugin = "rtm" \/ plugin = "postgresql"
      BY <1>2 DEF Types, ControlTypes, SqlAssumption
    <3> QED BY <3>1, <3>2 DEF EnvInv
  <2>2. IsInjective(env_rows)
    BY <2>1 DEF IsInjective, Types, EnvTypes
  <2> QED BY <1>2, <2>2 DEF EnvStoredOnce, EnvInv
<1> QED BY <1>1, <1>2

-----------------------------------------------------------------------------
(* Where the entries are.  Of R entries the database has the first S, the  *)
(* list the last L, the statement the I before those; while the connection *)
(* is not lost they are neither short nor over by one.                     *)
Places(S, I, L, R) ==
    /\ Len(log_rows) = S /\ Len(log_insert) = I /\ Len(log_list) = L /\ Len(received) = R
    /\ S <= R /\ I + L <= R /\ S + I + L >= R
    /\ con # "lost" => S + I + L = R
    /\ \A i \in 1 .. S : log_rows[i].row.entry = received[i]
    /\ \A i \in 1 .. I : log_insert[i].entry = received[R - L - I + i]
    /\ \A i \in 1 .. L : log_list[i] = received[R - L + i]

PlaceInv == \E S, I, L, R \in Nat : Places(S, I, L, R)

(* What a step may move.                                                   *)
Stays     == UNCHANGED <<log_list, log_insert, log_rows, received>>
Comes     == \E e \in Entry :
                /\ log_list' = Append(log_list, e) /\ received' = Append(received, e)
                /\ UNCHANGED <<con, log_insert, log_rows>>
GoesOn    == /\ log_list # <<>> /\ log_list' = Tail(log_list)
             /\ log_insert' = Append(log_insert, ThisRow)
             /\ UNCHANGED <<con, log_rows, received>>
AllReach  == /\ Reach(log_insert) /\ con = "up" /\ UNCHANGED <<log_list, received>>
             /\ \/ con' = "up" /\ log_insert' = <<>>
                \/ con' = "lost" /\ log_insert' = log_insert
OneReaches == /\ log_insert = <<>> /\ log_list # <<>> /\ RowReaches /\ con = "up"
              /\ UNCHANGED <<log_insert, received>>
              /\ \/ con' = "up" /\ log_list' = Tail(log_list)
                 \/ con' = "lost" /\ log_list' = log_list

LEMMA Movement ==
    ASSUME SqlAssumption, Types, [Next]_vars
    PROVE  \/ Stays /\ (con = "lost" => con' = "lost")
           \/ Comes \/ GoesOn \/ AllReach \/ OneReaches
<1>1. CASE Starting
  <2>1. Stays
    BY <1>1 DEF Starting, MysqlStartup, RtmStartup, PostgresqlStartup, StartFails,
       PrepareFails, StartEnvFails, Starts, StartEnvStored, list, database, Stays
  <2>2. con' = "up" \/ con' = con
    BY <1>1 DEF Starting, MysqlStartup, RtmStartup, PostgresqlStartup, StartFails,
       PrepareFails, StartEnvFails, Starts
  <2>3. phase = "starting" => con # "lost"
    BY DEF Types, ControlTypes
  <2>4. phase = "starting"
    BY <1>1 DEF Starting, MysqlStartup, RtmStartup, PostgresqlStartup, StartFails,
       PrepareFails, StartEnvFails, Starts
  <2> QED BY <2>1, <2>2, <2>3, <2>4
<1>2. CASE ReceivedLog
  BY <1>2 DEF ReceivedLog, NextEntries, database, Comes
<1>3. CASE ReceivedDataEnd \/ ReceivedShutdown \/ Exit
  BY <1>3 DEF ReceivedDataEnd, ReceivedShutdown, Exit, Enter, NothingListed, list, database,
     Stays
<1>4. CASE Turn \/ (plugin = "mysql" /\ NewDate) \/ Environment
  BY <1>4 DEF Turn, NextEntry, NewDate, Environment, EnvKnown, EnvNew, EnvNoMemory,
     Answered, Unanswered, Refused, list, database, Stays
<1>5. CASE RuleId \/ RuleDetails
  BY <1>5 DEF RuleId, RuleKnown, RuleNoMemory, SelectRule, RuleDetails, InsertRule,
     InsertRuleFails, Answered, Unanswered, Refused, list, database, Stays
<1>6. CASE BuildFails
  BY <1>6 DEF BuildFails, Crashes, list, database, Stays
<1>7. CASE plugin # "postgresql" /\ Bulk
  <2>1. CASE SendFirst \/ SendLast
    BY <2>1, Zenon DEF SendFirst, SendLast, Send, Answered, AllReach
  <2>2. CASE SendFails
    BY <2>2 DEF SendFails, Unanswered, Answered, Refused, list, AllReach, Stays
  <2>3. CASE PutRow
    <3>1. log_list # <<>>
      BY <2>3 DEF PutRow, CanAppend, Types, ListTypes, Working
    <3> QED BY <2>3, <3>1 DEF PutRow, database, ThisRow, GoesOn
  <2>4. CASE PutRowNoMemory \/ SpoiledCrash
    BY <2>4 DEF PutRowNoMemory, SpoiledCrash, Crashes, list, database, Stays
  <2>5. CASE SendLastFails
    BY <2>2, <2>5 DEF SendLastFails, list, database, Stays
  <2> QED BY <1>7, <2>1, <2>2, <2>3, <2>4, <2>5 DEF Bulk, SendFirstFails
<1>8. CASE plugin = "postgresql" /\ (InsertRow \/ InsertRowFails \/ BlockDone)
  <2>1. log_insert = <<>> /\ (pc = "values" => log_list # <<>>)
    BY <1>8 DEF Types, StatementTypes, ListTypes, Working
  <2>2. CASE InsertRow
    BY <2>1, <2>2 DEF InsertRow, Goes, Answered, OneReaches
  <2>3. CASE InsertRowFails
    BY <2>1, <2>3 DEF InsertRowFails, Answered, Unanswered, Refused, list, OneReaches, Stays
  <2>4. CASE BlockDone
    BY <2>4 DEF BlockDone, list, database, Stays
  <2> QED BY <1>8, <2>2, <2>3, <2>4
<1>9. CASE OtherJob \/ UNCHANGED vars
  BY <1>9 DEF OtherJob, vars, list, database, Stays
<1> QED
  BY <1>1, <1>2, <1>3, <1>4, <1>5, <1>6, <1>7, <1>8, <1>9, Steps DEF FrameworkCalls

LEMMA AppendIs ==
    ASSUME NEW R, NEW s \in Seq(R), NEW x
    PROVE  /\ Len(Append(s, x)) = Len(s) + 1
           /\ DOMAIN Append(s, x) = 1 .. (Len(s) + 1)
           /\ \A i \in 1 .. Len(s) : Append(s, x)[i] = s[i]
           /\ Append(s, x)[Len(s) + 1] = x
OBVIOUS

LEMMA TailIs ==
    ASSUME NEW R, NEW s \in Seq(R), s # <<>>
    PROVE  /\ Len(s) > 0 /\ Len(Tail(s)) = Len(s) - 1
           /\ DOMAIN Tail(s) = 1 .. (Len(s) - 1)
           /\ \A i \in 1 .. (Len(s) - 1) : Tail(s)[i] = s[i + 1]
           /\ Head(s) = s[1]
OBVIOUS

LEMMA PlaceStep ==
    ASSUME SqlAssumption, Types, PlaceInv, [Next]_vars PROVE PlaceInv'
<1>0. PICK S \in Nat, I \in Nat, L \in Nat, R \in Nat : Places(S, I, L, R)
  BY DEF PlaceInv
<1>1. /\ Len(log_rows) = S /\ Len(log_insert) = I /\ Len(log_list) = L /\ Len(received) = R
      /\ DOMAIN log_rows = 1 .. S /\ DOMAIN log_insert = 1 .. I
      /\ DOMAIN log_list = 1 .. L /\ DOMAIN received = 1 .. R
  BY <1>0, Lengths DEF Places
<1>2. /\ log_list \in Seq(Entry) /\ received \in Seq(Entry) /\ log_insert \in Seq(Row)
      /\ StatementTypes
  BY DEF Types, ListTypes, StatementTypes
<1>3. /\ S <= R /\ I + L <= R /\ S + I + L >= R
      /\ con # "lost" => S + I + L = R
      /\ \A i \in 1 .. S : log_rows[i].row.entry = received[i]
      /\ \A i \in 1 .. I : log_insert[i].entry = received[R - L - I + i]
      /\ \A i \in 1 .. L : log_list[i] = received[R - L + i]
  BY <1>0 DEF Places
<1> SUFFICES \E s, i, l, r \in Nat : Places(s, i, l, r)'
  BY DEF PlaceInv
<1>4. CASE Stays /\ (con = "lost" => con' = "lost")
  <2>1. Places(S, I, L, R)'
    BY <1>1, <1>3, <1>4 DEF Stays, Places
  <2> QED BY <2>1
<1>5. CASE Comes
  <2>0. PICK e \in Entry : /\ log_list' = Append(log_list, e)
                         /\ received' = Append(received, e)
                         /\ UNCHANGED <<con, log_insert, log_rows>>
    BY <1>5 DEF Comes
  <2>1. /\ Len(log_list') = L + 1 /\ DOMAIN log_list' = 1 .. (L + 1)
        /\ \A i \in 1 .. L : log_list'[i] = log_list[i]
        /\ log_list'[L + 1] = e
    BY <1>1, <1>2, <2>0, AppendIs
  <2>2. /\ Len(received') = R + 1
        /\ \A i \in 1 .. R : received'[i] = received[i]
        /\ received'[R + 1] = e
    BY <1>1, <1>2, <2>0, AppendIs
  <2>3. \A i \in 1 .. S : log_rows'[i].row.entry = received'[i]
    BY <1>1, <1>3, <2>0, <2>2
  <2>4. (R + 1) - (L + 1) = R - L
    OBVIOUS
  <2>5. \A i \in 1 .. I : log_insert'[i].entry = received'[R - L - I + i]
    <3> TAKE i \in 1 .. I
    <3>1. R - L - I + i \in 1 .. R
      BY <1>3
    <3> QED BY <1>3, <2>0, <2>2, <3>1
  <2>6. \A i \in 1 .. (L + 1) : log_list'[i] = received'[R - L + i]
    <3> TAKE i \in 1 .. (L + 1)
    <3>1. CASE i \in 1 .. L
      <4>1. R - L + i \in 1 .. R
        BY <1>3, <3>1
      <4> QED BY <1>3, <2>1, <2>2, <3>1, <4>1
    <3>2. CASE i = L + 1
      <4>1. R - L + i = R + 1
        BY <3>2
      <4> QED BY <2>1, <2>2, <3>2, <4>1
    <3> QED BY <3>1, <3>2
  <2>7. Len(log_rows') = S /\ Len(log_insert') = I /\ con' = con
    BY <1>1, <2>0
  <2>8. Places(S, I, L + 1, R + 1)'
    BY <1>3, <2>1, <2>2, <2>3, <2>4, <2>5, <2>6, <2>7 DEF Places
  <2> QED BY <2>8
<1>6. CASE GoesOn
  <2>1. /\ L > 0 /\ Len(log_list') = L - 1 /\ DOMAIN log_list' = 1 .. (L - 1)
        /\ \A i \in 1 .. (L - 1) : log_list'[i] = log_list[i + 1]
        /\ entry = log_list[1]
    BY <1>1, <1>2, <1>6, TailIs DEF GoesOn, entry
  <2>2. /\ Len(log_insert') = I + 1 /\ DOMAIN log_insert' = 1 .. (I + 1)
        /\ \A i \in 1 .. I : log_insert'[i] = log_insert[i]
        /\ log_insert'[I + 1] = ThisRow
    BY <1>1, <1>2, <1>6, AppendIs DEF GoesOn
  <2>3. log_rows' = log_rows /\ received' = received /\ con' = con
    BY <1>6 DEF GoesOn
  <2>4. log_insert'[I + 1].entry = log_list[1]
    BY <2>1, <2>2 DEF ThisRow
  <2>5. \A i \in 1 .. (I + 1) : log_insert'[i].entry = received[R - (L - 1) - (I + 1) + i]
    <3> TAKE i \in 1 .. (I + 1)
    <3>1. R - (L - 1) - (I + 1) + i = R - L - I + i
      BY <1>1
    <3>2. CASE i \in 1 .. I
      BY <1>3, <2>2, <3>1, <3>2
    <3>3. CASE i = I + 1
      <4>1. log_list[1] = received[R - L + 1] /\ R - L - I + i = R - L + 1
        BY <1>1, <1>3, <2>1, <3>3
      <4> QED BY <2>4, <3>1, <3>3, <4>1
    <3> QED BY <1>1, <3>2, <3>3
  <2>6. \A i \in 1 .. (L - 1) : log_list'[i] = received[R - (L - 1) + i]
    <3> TAKE i \in 1 .. (L - 1)
    <3>1. log_list[i + 1] = received[R - L + (i + 1)] /\ R - L + (i + 1) = R - (L - 1) + i
      BY <1>1, <1>3
    <3> QED BY <2>1, <3>1
  <2>7. Len(log_rows') = S /\ Len(received') = R
    BY <1>1, <2>3
  <2>8. I + 1 \in Nat /\ L - 1 \in Nat
    BY <2>1
  <2>9. Places(S, I + 1, L - 1, R)'
    BY <1>3, <2>1, <2>2, <2>3, <2>5, <2>6, <2>7 DEF Places
  <2> QED BY <2>8, <2>9
<1>7. CASE AllReach
  <2>1. /\ Len(log_rows') = S + I /\ DOMAIN log_rows' = 1 .. (S + I)
        /\ \A i \in 1 .. S : log_rows'[i] = log_rows[i]
        /\ \A i \in 1 .. I : log_rows'[S + i] = [row |-> log_insert[i], table |-> insert_table]
    BY <1>1, <1>2, <1>7, Reached DEF AllReach
  <2>2. S + I + L = R /\ UNCHANGED <<log_list, received>>
    BY <1>3, <1>7 DEF AllReach
  <2>3. \A i \in 1 .. (S + I) : log_rows'[i].row.entry = received[i]
    <3> TAKE i \in 1 .. (S + I)
    <3>1. CASE i \in 1 .. S
      BY <1>3, <2>1, <3>1
    <3>2. CASE i \notin 1 .. S
      <4>1. i - S \in 1 .. I /\ i = S + (i - S) /\ R - L - I + (i - S) = i
        BY <1>1, <2>2, <3>2
      <4>2. log_rows'[S + (i - S)] = [row |-> log_insert[i - S], table |-> insert_table]
        BY <2>1, <4>1
      <4>3. log_rows'[i].row = log_insert[i - S]
        BY <4>1, <4>2
      <4> QED BY <1>3, <4>1, <4>3
    <3> QED BY <3>1, <3>2
  <2>4. CASE con' = "lost" /\ log_insert' = log_insert
    <3>1. Places(S + I, I, L, R)'
      BY <1>1, <1>3, <1>7, <2>1, <2>2, <2>3, <2>4 DEF Places
    <3> QED BY <3>1
  <2>5. CASE con' = "up" /\ log_insert' = <<>>
    <3>1. Len(log_insert') = 0
      BY <2>5
    <3>2. Places(S + I, 0, L, R)'
      BY <1>1, <1>3, <2>1, <2>2, <2>3, <3>1 DEF Places
    <3> QED BY <3>2
  <2> QED BY <1>7, <2>4, <2>5 DEF AllReach
<1>8. CASE OneReaches
  <2>1. /\ Len(log_rows') = S + 1 /\ DOMAIN log_rows' = 1 .. (S + 1)
        /\ \A i \in 1 .. S : log_rows'[i] = log_rows[i]
        /\ log_rows'[S + 1] = [row |-> ThisRow, table |-> 0]
    BY <1>1, <1>2, <1>8, RowReached DEF OneReaches
  <2>2. I = 0
    BY <1>1, <1>8 DEF OneReaches
  <2>3. S + L = R /\ received' = received /\ Len(log_insert') = 0
    BY <1>1, <1>3, <1>8, <2>2 DEF OneReaches
  <2>4. L > 0 /\ log_rows'[S + 1].row.entry = log_list[1]
    BY <1>1, <1>2, <1>8, <2>1, TailIs DEF OneReaches, ThisRow, entry
  <2>5. /\ Len(Tail(log_list)) = L - 1 /\ DOMAIN Tail(log_list) = 1 .. (L - 1)
        /\ \A i \in 1 .. (L - 1) : Tail(log_list)[i] = log_list[i + 1]
    BY <1>1, <1>2, <1>8, TailIs DEF OneReaches
  <2>6. \/ con' = "up" /\ log_list' = Tail(log_list)
        \/ con' = "lost" /\ log_list' = log_list
    BY <1>8 DEF OneReaches
  <2>7. \A i \in 1 .. (S + 1) : log_rows'[i].row.entry = received[i]
    <3> TAKE i \in 1 .. (S + 1)
    <3>1. CASE i \in 1 .. S
      BY <1>3, <2>1, <3>1
    <3>2. CASE i = S + 1
      <4>1. log_list[1] = received[R - L + 1] /\ R - L + 1 = i
        BY <1>1, <1>3, <2>3, <2>4, <3>2
      <4> QED BY <2>4, <3>2, <4>1
    <3> QED BY <1>1, <3>1, <3>2
  <2>8. CASE con' = "lost" /\ log_list' = log_list
    <3>1. Places(S + 1, 0, L, R)'
      BY <1>1, <1>3, <2>1, <2>3, <2>4, <2>7, <2>8 DEF Places
    <3> QED BY <3>1
  <2>9. CASE con' = "up" /\ log_list' = Tail(log_list)
    <3>1. \A i \in 1 .. (L - 1) : Tail(log_list)[i] = received[R - (L - 1) + i]
      <4> TAKE i \in 1 .. (L - 1)
      <4>1. log_list[i + 1] = received[R - L + (i + 1)] /\ R - L + (i + 1) = R - (L - 1) + i
        BY <1>1, <1>3
      <4> QED BY <2>5, <4>1
    <3>2. L - 1 \in Nat
      BY <2>4
    <3>3. /\ Len(log_rows') = S + 1 /\ Len(log_insert') = 0
          /\ Len(log_list') = L - 1 /\ Len(received') = R
      <4>1. Len(received') = R
        BY <1>1, <2>3, Zenon
      <4>2. Len(log_list') = L - 1
        BY <2>5, <2>9, Zenon
      <4> QED BY <2>1, <2>3, <4>1, <4>2, Zenon
    <3>4. /\ S + 1 <= R /\ 0 + (L - 1) <= R /\ (S + 1) + 0 + (L - 1) = R
      BY <1>1, <2>3, <2>4
    <3>5. \A i \in 1 .. (L - 1) : log_list'[i] = received'[R - (L - 1) + i]
      BY <2>3, <2>9, <3>1, Zenon
    <3>6. \A i \in 1 .. (S + 1) : log_rows'[i].row.entry = received'[i]
      BY <2>3, <2>7, Zenon
    <3>7. \A i \in 1 .. 0 : log_insert'[i].entry = received'[R - (L - 1) - 0 + i]
      OBVIOUS
    <3>8. (S + 1) + 0 + (L - 1) >= R
      BY <3>4, <1>1, <2>4
    <3>9. Places(S + 1, 0, L - 1, R)'
      BY <3>3, <3>4, <3>5, <3>6, <3>7, <3>8, Zenon DEF Places
    <3> QED BY <3>2, <3>9
  <2> QED BY <2>6, <2>8, <2>9
<1> QED
  BY <1>4, <1>5, <1>6, <1>7, <1>8, Movement

(* What the places say of NothingLost.                                     *)
LEMMA PrefixBy ==
    ASSUME NEW E, NEW s \in Seq(E), NEW t \in Seq(E), Len(s) <= Len(t),
           \A i \in 1 .. Len(s) : s[i] = t[i]
    PROVE  IsPrefix(s, t)
BY DEF IsPrefix

LEMMA SuffixBy ==
    ASSUME NEW E, NEW s \in Seq(E), NEW t \in Seq(E), Len(s) <= Len(t),
           \A i \in 1 .. Len(s) : s[i] = t[Len(t) - Len(s) + i]
    PROVE  IsSuffix(s, t)
<1> DEFINE rs == Reverse(s)
           rt == Reverse(t)
<1>1. rs \in Seq(E) /\ rt \in Seq(E) /\ Len(rs) = Len(s) /\ Len(rt) = Len(t)
  BY DEF Reverse
<1>2. ASSUME NEW i \in 1 .. Len(s) PROVE rs[i] = rt[i]
  <2>1. /\ Len(s) - i + 1 \in 1 .. Len(s) /\ i \in 1 .. Len(t)
        /\ Len(t) - Len(s) + (Len(s) - i + 1) = Len(t) - i + 1
    OBVIOUS
  <2>2. rs[i] = s[Len(s) - i + 1] /\ rt[i] = t[Len(t) - i + 1]
    BY <2>1 DEF Reverse
  <2> QED BY <2>1, <2>2
<1> HIDE DEF rs, rt
<1>3. IsPrefix(rs, rt)
  BY <1>1, <1>2, PrefixBy
<1> QED BY <1>3 DEF IsSuffix, rs, rt

LEMMA ConcatIs ==
    ASSUME NEW E, NEW s \in Seq(E), NEW t \in Seq(E)
    PROVE  /\ s \o t \in Seq(E) /\ Len(s \o t) = Len(s) + Len(t)
           /\ \A i \in 1 .. Len(s) : (s \o t)[i] = s[i]
           /\ \A i \in 1 .. Len(t) : (s \o t)[Len(s) + i] = t[i]
OBVIOUS

LEMMA EntriesAre ==
    ASSUME NEW s \in Seq(Row)
    PROVE  /\ EntriesOf(s) \in Seq(Entry) /\ Len(EntriesOf(s)) = Len(s)
           /\ \A i \in 1 .. Len(s) : EntriesOf(s)[i] = s[i].entry
<1>1. DOMAIN s = 1 .. Len(s) /\ Len(s) \in Nat
  OBVIOUS
<1>2. ASSUME NEW i \in 1 .. Len(s) PROVE s[i].entry \in Entry
  <2>1. s[i] \in Row
    OBVIOUS
  <2> QED BY <2>1, Zenon DEF Row
<1>3. EntriesOf(s) = [i \in 1 .. Len(s) |-> s[i].entry]
  BY <1>1 DEF EntriesOf
<1> QED BY <1>1, <1>2, <1>3

LEMMA ElementOf ==
    ASSUME NEW E, NEW s \in Seq(E), NEW i \in 1 .. Len(s) PROVE s[i] \in E
OBVIOUS

LEMMA FieldOf ==
    ASSUME NEW A, NEW B, NEW x \in [row : A, table : B] PROVE x.row \in A
OBVIOUS

LEMMA StoredIs ==
    ASSUME Types
    PROVE  /\ Stored \in Seq(Entry) /\ Len(Stored) = Len(log_rows)
           /\ \A i \in 1 .. Len(log_rows) : Stored[i] = log_rows[i].row.entry
<1> DEFINE rows == [i \in DOMAIN log_rows |-> log_rows[i].row]
<1>1. log_rows \in Seq([row : Row, table : Table])
  BY DEF Types, StatementTypes
<1>2. DOMAIN log_rows = 1 .. Len(log_rows) /\ Len(log_rows) \in Nat
  BY <1>1
<1>3. ASSUME NEW i \in 1 .. Len(log_rows) PROVE log_rows[i].row \in Row
  <2>1. log_rows[i] \in [row : Row, table : Table]
    BY <1>1, ElementOf
  <2> QED BY <2>1, FieldOf
<1>4. /\ rows \in Seq(Row) /\ Len(rows) = Len(log_rows)
      /\ \A i \in 1 .. Len(log_rows) : rows[i] = log_rows[i].row
  BY <1>2, <1>3
<1>5. Stored = EntriesOf(rows)
  BY DEF Stored
<1> HIDE DEF rows
<1> QED BY <1>2, <1>4, <1>5, EntriesAre

(* What the plug-in still has are the last entries received.               *)
LEMMA KeptIs ==
    ASSUME Types, PlaceInv
    PROVE  /\ Kept \in Seq(Entry) /\ Len(Kept) <= Len(received)
           /\ Len(Kept) = (IF spoiled THEN 0 ELSE Len(log_insert)) + Len(log_list)
           /\ \A i \in 1 .. Len(Kept) :
                 Kept[i] = received[Len(received) - Len(Kept) + i]
<1>1. PICK S \in Nat, I \in Nat, L \in Nat, R \in Nat : Places(S, I, L, R)
  BY DEF PlaceInv
<1>2. log_list \in Seq(Entry) /\ log_insert \in Seq(Row)
  BY DEF Types, ListTypes, StatementTypes
<1>3. /\ Len(log_insert) = I /\ Len(log_list) = L /\ Len(received) = R /\ I + L <= R
      /\ \A i \in 1 .. I : log_insert[i].entry = received[R - L - I + i]
      /\ \A i \in 1 .. L : log_list[i] = received[R - L + i]
  BY <1>1 DEF Places
<1>4. CASE spoiled
  <2>1. Kept = log_list
    BY <1>2, <1>4 DEF Kept
  <2>2. Len(Kept) = L /\ L <= R /\ Kept \in Seq(Entry)
    BY <1>2, <1>3, <2>1
  <2>3. \A i \in 1 .. L : Kept[i] = received[R - L + i]
    BY <1>3, <2>1
  <2> QED BY <1>3, <1>4, <2>2, <2>3
<1>5. CASE ~spoiled
  <2> DEFINE first == EntriesOf(log_insert)
  <2>1. /\ first \in Seq(Entry) /\ Len(first) = I
        /\ \A i \in 1 .. I : first[i] = received[R - L - I + i]
    BY <1>2, <1>3, EntriesAre
  <2>2. Kept = first \o log_list
    BY <1>5 DEF Kept
  <2> HIDE DEF first
  <2>3. /\ first \o log_list \in Seq(Entry)
        /\ Len(first \o log_list) = Len(first) + Len(log_list)
        /\ \A i \in 1 .. Len(first) : (first \o log_list)[i] = first[i]
        /\ \A i \in 1 .. Len(log_list) : (first \o log_list)[Len(first) + i] = log_list[i]
    <3>1. first \in Seq(Entry) /\ log_list \in Seq(Entry)
      BY <1>2, <2>1
    <3> QED BY <3>1, ConcatIs
  <2>4. /\ Kept \in Seq(Entry) /\ Len(Kept) = I + L
        /\ \A i \in 1 .. I : Kept[i] = first[i]
        /\ \A i \in 1 .. L : Kept[I + i] = log_list[i]
    BY <1>3, <2>1, <2>2, <2>3
  <2>5. ASSUME NEW i \in 1 .. (I + L) PROVE Kept[i] = received[R - (I + L) + i]
    <3>1. CASE i \in 1 .. I
      BY <2>1, <2>4, <3>1
    <3>2. CASE i \notin 1 .. I
      <4>1. i - I \in 1 .. L /\ I + (i - I) = i /\ R - L + (i - I) = R - (I + L) + i
        BY <3>2
      <4>2. Kept[I + (i - I)] = log_list[i - I]
        BY <2>4, <4>1
      <4>3. log_list[i - I] = received[R - L + (i - I)]
        BY <1>3, <4>1
      <4> QED BY <4>1, <4>2, <4>3
    <3> QED BY <3>1, <3>2
  <2> QED BY <1>3, <1>5, <2>4, <2>5
<1> QED BY <1>4, <1>5

LEMMA PlaceInvShows == ASSUME Types, PlaceInv PROVE NothingLost
<1>1. PICK S \in Nat, I \in Nat, L \in Nat, R \in Nat : Places(S, I, L, R)
  BY DEF PlaceInv
<1>2. received \in Seq(Entry)
  BY DEF Types, ListTypes
<1>3. /\ Len(log_rows) = S /\ Len(log_insert) = I /\ Len(log_list) = L /\ Len(received) = R
      /\ S <= R /\ S + I + L >= R
      /\ con # "lost" => S + I + L = R
      /\ \A i \in 1 .. S : log_rows[i].row.entry = received[i]
  BY <1>1 DEF Places
<1>4. Len(Stored) = S /\ IsPrefix(Stored, received)
  BY <1>2, <1>3, StoredIs, PrefixBy
<1>5. IsSuffix(Kept, received)
  BY <1>2, KeptIs, SuffixBy
<1>6. Len(Kept) = (IF spoiled THEN 0 ELSE I) + L
  BY <1>3, KeptIs
<1> QED BY <1>3, <1>4, <1>5, <1>6 DEF NothingLost

-----------------------------------------------------------------------------
(* The theorems.                                                           *)
SqlInv == Types /\ RuleInv /\ DateInv /\ EnvInv /\ PlaceInv

LEMMA SqlInit == ASSUME SqlAssumption, Init PROVE SqlInv
<1>1. Types
  BY InitTypes
<1>2. /\ log_list = <<>> /\ log_insert = <<>> /\ log_rows = <<>> /\ received = <<>>
      /\ env_rows = <<>> /\ table_root = {} /\ rule_root = <<>> /\ misread = {}
      /\ pc = "idle" /\ phase = "starting" /\ con = "none" /\ last_log_date = NoDate
  BY DEF Init
<1>3. RuleInv
  <2>1. rule_details = <<>> \/ \E r \in Rules : rule_details = <<Column(r)>>
    BY DEF Init
  <2>2. \A i \in DOMAIN rule_details : \E t \in Texts : rule_details[i] = Column(t)
    <3>1. CASE rule_details = <<>>
      BY <3>1
    <3>2. CASE \E r \in Rules : rule_details = <<Column(r)>>
      <4> PICK r \in Rules : rule_details = <<Column(r)>>
        BY <3>2
      <4> DEFINE c == Column(r)
      <4>1. rule_details = <<c>>
        OBVIOUS
      <4> HIDE DEF c
      <4>2. DOMAIN rule_details = {1} /\ rule_details[1] = c
        BY <4>1
      <4> QED BY <4>2 DEF c, SqlAssumption
    <3> QED BY <2>1, <3>1, <3>2
  <2>3. RowsTrusted
    BY <1>2 DEF RowsTrusted
  <2> QED BY <1>2, <2>2, <2>3, RowsAre DEF RuleInv
<1>4. DateInv
  BY <1>2 DEF DateInv
<1>5. EnvInv
  <2>1. Remembered
    BY <1>2 DEF Remembered, ToSet, IsInjective
  <2> QED BY <1>2, <2>1 DEF EnvInv
<1>6. PlaceInv
  <2>1. Places(0, 0, 0, 0)
    BY <1>2 DEF Places
  <2> QED BY <2>1 DEF PlaceInv
<1> QED BY <1>1, <1>3, <1>4, <1>5, <1>6 DEF SqlInv

LEMMA SqlStep == ASSUME SqlAssumption, SqlInv, [Next]_vars PROVE SqlInv'
BY TypesStep, RuleInvStep, DateInvStep, EnvInvStep, PlaceStep DEF SqlInv

LEMMA SqlInvariant == Spec => []SqlInv
<1>1. SqlInv /\ [Next]_vars => SqlInv'
  BY SqlAssumption, SqlStep
<1>2. Init => SqlInv
  BY SqlAssumption, SqlInit
<1> QED BY <1>1, <1>2, PTL DEF Spec

(* Every variable keeps to its type, and the statement MySQL builds always *)
(* names a table.                                                          *)
THEOREM SqlTypes == Spec => []TypeOK
<1>1. SqlInv => TypeOK
  BY TypesAre DEF SqlInv
<1> QED BY <1>1, SqlInvariant, PTL

(* Until mistral_exit tries again every row, in the database or in the     *)
(* statement being built, refers to the record of its own rule, whichever  *)
(* queries fail and whatever other jobs record; from then on the rows of   *)
(* rules that were asked for by freed text are excepted.  Only a row of no *)
(* rule may be built, after a failure, and only MySQL's tables take it.    *)
THEOREM RulesAreTheirs == Spec => []RuleIdsMatch
<1>1. SqlInv => RuleIdsMatch
  BY DEF SqlInv, RuleInv
<1> QED BY <1>1, SqlInvariant, PTL

(* Until something fails the rows of a statement of MySQL are of one date. *)
THEOREM DatesAreSeparate == Spec => []DatesNotMixedBefore
<1>1. SqlInv => DatesNotMixedBefore
  BY DEF SqlInv, DateInv, Untroubled, RowDate, DatesNotMixedBefore, DatesNotMixed
<1> QED BY <1>1, SqlInvariant, PTL

(* Until something fails the environment is stored before the rows it      *)
(* belongs to, and never twice.                                            *)
THEOREM EnvironmentOnce == Spec => []EnvStoredOnce
<1>1. SqlInv => EnvStoredOnce
  BY SqlAssumption, EnvInvShows DEF SqlInv
<1> QED BY <1>1, SqlInvariant, PTL

(* Whatever fails, an entry is in one place and in its turn: in the        *)
(* database, in the statement or on the list; in two only when the         *)
(* connection went down with an answer, in none only when the statement    *)
(* was freed.                                                              *)
THEOREM EntriesAreInPlace == Spec => []NothingLost
<1>1. SqlInv => NothingLost
  BY PlaceInvShows DEF SqlInv
<1> QED BY <1>1, SqlInvariant, PTL

-----------------------------------------------------------------------------
(* What the plug-ins promise.  The entries are numbered as they come, so   *)
(* that all that matters is how many were received, how many are in the    *)
(* database, and up to which one they have been dealt with.                *)
Gone == phase \in {"gone", "crashed"}
Told == shutdown \/ phase = "crashed"

(* The plug-in has said so before it leaves an entry in a statement or     *)
(* frees one.                                                              *)
ToldInv ==
    /\ \A i \in 1 .. Len(received) : received[i].id = i
    /\ phase = "starting" => received = <<>> /\ log_list = <<>>
    /\ spoiled => shutdown
    /\ Gone /\ ~Told => log_list = <<>>
    /\ pc = "idle" /\ log_insert # <<>> => Told

LEMMA ToldLasts == ASSUME SqlAssumption, Types, [Next]_vars PROVE Told => Told'
<1> USE DEF Types, ControlTypes, Told
<1>1. CASE Starting \/ FrameworkCalls
  BY <1>1 DEF Starting, MysqlStartup, RtmStartup, PostgresqlStartup, StartFails,
     PrepareFails, StartEnvFails, Starts, FrameworkCalls, ReceivedLog, ReceivedDataEnd,
     ReceivedShutdown, Exit, Enter, NothingListed, Called
<1>2. CASE Turn \/ (plugin = "mysql" /\ NewDate) \/ Environment
  BY <1>2 DEF Turn, NextEntry, NewDate, Environment, EnvKnown, EnvNew, EnvNoMemory,
     Goes, GivesUp, Returns
<1>3. CASE RuleId \/ RuleDetails
  BY <1>3 DEF RuleId, RuleKnown, RuleNoMemory, SelectRule, RuleDetails, InsertRule,
     InsertRuleFails, Goes, GivesUp, Returns
<1>4. CASE BuildFails
  BY <1>4 DEF BuildFails, Crashes
<1>5. CASE plugin # "postgresql" /\ Bulk
  BY <1>5 DEF Bulk, SendFirst, SendFirstFails, PutRow, PutRowNoMemory, SpoiledCrash,
     SendLast, SendLastFails, SendFails, CanAppend, Crashes, Goes, GivesUp, Returns
<1>6. CASE plugin = "postgresql" /\ (InsertRow \/ InsertRowFails \/ BlockDone)
  BY <1>6 DEF InsertRow, InsertRowFails, BlockDone, Goes, GivesUp, Returns
<1>7. CASE OtherJob \/ UNCHANGED vars
  BY <1>7 DEF OtherJob, vars
<1> QED
  BY <1>1, <1>2, <1>3, <1>4, <1>5, <1>6, <1>7, Steps

(* A call that returns with a row in the statement has said so, and so has *)
(* one that freed the statement.                                           *)
LEMMA LeftBehind ==
    ASSUME SqlAssumption, Types, ToldInv, [Next]_vars
    PROVE  /\ spoiled' => shutdown'
           /\ pc' = "idle" /\ log_insert' # <<>> => Told'
           /\ Gone' /\ ~Told' => log_list' = <<>>
           /\ phase' = "starting" => phase = "starting" /\ log_list' = log_list
<1> USE DEF Types, ControlTypes, ToldInv, Told, Gone
<1>1. CASE Starting \/ FrameworkCalls
  BY <1>1 DEF Starting, MysqlStartup, RtmStartup, PostgresqlStartup, StartFails,
     PrepareFails, StartEnvFails, Starts, FrameworkCalls, ReceivedLog, ReceivedDataEnd,
     ReceivedShutdown, Exit, Enter, NothingListed, Called, list
<1>2. CASE Turn \/ (plugin = "mysql" /\ NewDate) \/ Environment
  BY <1>2 DEF Turn, NextEntry, NewDate, Environment, EnvKnown, EnvNew, EnvNoMemory,
     Goes, GivesUp, Returns, list
<1>3. CASE RuleId \/ RuleDetails
  BY <1>3 DEF RuleId, RuleKnown, RuleNoMemory, SelectRule, RuleDetails, InsertRule,
     InsertRuleFails, Goes, GivesUp, Returns, list
<1>4. CASE BuildFails
  BY <1>4 DEF BuildFails, Crashes, list
<1>5. CASE plugin # "postgresql" /\ Bulk
  BY <1>5 DEF Bulk, SendFirst, SendFirstFails, PutRow, PutRowNoMemory, SpoiledCrash,
     SendLast, SendLastFails, Send, SendFails, CanAppend, Crashes, Goes, GivesUp,
     Returns, list
<1>6. CASE plugin = "postgresql" /\ (InsertRow \/ InsertRowFails \/ BlockDone)
  BY <1>6 DEF InsertRow, InsertRowFails, BlockDone, Goes, GivesUp, Returns,
     StatementTypes, list
<1>7. CASE OtherJob \/ UNCHANGED vars
  BY <1>7 DEF OtherJob, vars, list
<1> QED
  BY <1>1, <1>2, <1>3, <1>4, <1>5, <1>6, <1>7, Steps

(* Entries come while the plug-in runs, by number.                         *)
LEMMA Received ==
    ASSUME SqlAssumption, Types, [Next]_vars
    PROVE  \/ received' = received
           \/ /\ ReceivedLog /\ ~Gone /\ ~Gone' /\ phase' # "starting"
              /\ \E e \in Entry : /\ e.id = Len(received) + 1
                                  /\ received' = Append(received, e)
<1>1. CASE ReceivedLog
  BY <1>1 DEF ReceivedLog, NextEntries, Called, Gone
<1>2. CASE ~ReceivedLog
  <2>1. CASE Starting \/ ReceivedDataEnd \/ ReceivedShutdown \/ Exit
    BY <2>1 DEF Starting, MysqlStartup, RtmStartup, PostgresqlStartup, StartFails,
       PrepareFails, StartEnvFails, Starts, ReceivedDataEnd, ReceivedShutdown, Exit,
       Enter, NothingListed
  <2>2. CASE Turn \/ (plugin = "mysql" /\ NewDate) \/ Environment
    BY <2>2 DEF Turn, NextEntry, NewDate, Environment, EnvKnown, EnvNew, EnvNoMemory
  <2>3. CASE RuleId \/ RuleDetails
    BY <2>3 DEF RuleId, RuleKnown, RuleNoMemory, SelectRule, RuleDetails, InsertRule,
       InsertRuleFails
  <2>4. CASE BuildFails
    BY <2>4 DEF BuildFails, Crashes
  <2>5. CASE plugin # "postgresql" /\ Bulk
    BY <2>5 DEF Bulk, SendFirst, SendFirstFails, PutRow, PutRowNoMemory, SpoiledCrash,
       SendLast, SendLastFails, SendFails, Crashes
  <2>6. CASE plugin = "postgresql" /\ (InsertRow \/ InsertRowFails \/ BlockDone)
    BY <2>6 DEF InsertRow, InsertRowFails, BlockDone
  <2>7. CASE OtherJob \/ UNCHANGED vars
    BY <2>7 DEF OtherJob, vars
  <2> QED
    BY <1>2, <2>1, <2>2, <2>3, <2>4, <2>5, <2>6, <2>7, Steps DEF FrameworkCalls
<1> QED BY <1>1, <1>2

LEMMA ToldInvStep ==
    ASSUME SqlAssumption, Types, ToldInv, [Next]_vars PROVE ToldInv'
<1>1. received \in Seq(Entry)
  BY DEF Types, ListTypes
<1>2. \A i \in 1 .. Len(received') : received'[i].id = i
  <2>1. ASSUME NEW e \in Entry, e.id = Len(received) + 1, received' = Append(received, e)
        PROVE  \A i \in 1 .. Len(received') : received'[i].id = i
    BY <1>1, <2>1, AppendIs DEF ToldInv
  <2> QED BY <2>1, Received DEF ToldInv
<1>3. phase' = "starting" => received' = <<>> /\ log_list' = <<>>
  BY Received, LeftBehind DEF ToldInv
<1> QED BY <1>2, <1>3, LeftBehind DEF ToldInv

-----------------------------------------------------------------------------
(* The numbers after a, up to b.                                           *)
UpTo(a, b) == [i \in 1 .. (b - a) |-> a + i]

(* The last entry that has been dealt with.                                *)
KeptLen == (IF spoiled THEN 0 ELSE Len(log_insert)) + Len(log_list)

Dealt == IF Len(received) - KeptLen > Len(log_rows) THEN Len(received) - KeptLen
         ELSE Len(log_rows)

Settled == IF Gone THEN Len(received) ELSE Dealt

View(S, A, R) ==
    /\ S = Len(log_rows) /\ A = Settled /\ R = Len(received)
    /\ S <= A /\ A <= R
    /\ Ids(Stored) = UpTo(0, S) /\ Pending = UpTo(A, R)
    /\ ToSet(Ids(received)) \ (ToSet(Ids(Stored)) \cup ToSet(Pending)) = (S + 1) .. A

LEMMA UpToIs ==
    ASSUME NEW a \in Nat, NEW b \in Nat, a <= b
    PROVE  /\ UpTo(a, b) \in Seq(Nat) /\ Len(UpTo(a, b)) = b - a
           /\ \A i \in 1 .. (b - a) : UpTo(a, b)[i] = a + i
           /\ ToSet(UpTo(a, b)) = (a + 1) .. b
<1>1. /\ UpTo(a, b) \in Seq(Nat) /\ Len(UpTo(a, b)) = b - a
      /\ DOMAIN UpTo(a, b) = 1 .. (b - a)
      /\ \A i \in 1 .. (b - a) : UpTo(a, b)[i] = a + i
  BY DEF UpTo
<1>2. ASSUME NEW n \in (a + 1) .. b PROVE n \in ToSet(UpTo(a, b))
  <2>1. n - a \in 1 .. (b - a) /\ a + (n - a) = n
    OBVIOUS
  <2> QED BY <1>1, <2>1 DEF ToSet
<1>3. ASSUME NEW n \in ToSet(UpTo(a, b)) PROVE n \in (a + 1) .. b
  BY <1>1 DEF ToSet
<1> QED BY <1>1, <1>2, <1>3

(* Entries by number: those that come after the first a received.          *)
LEMMA IdsAre ==
    ASSUME Types, ToldInv, NEW s \in Seq(Entry), NEW a \in Nat, NEW b \in Nat,
           a <= b, b <= Len(received), Len(s) = b - a,
           \A i \in 1 .. Len(s) : s[i] = received[a + i]
    PROVE  Ids(s) = UpTo(a, b)
<1>1. DOMAIN s = 1 .. (b - a)
  OBVIOUS
<1>2. \A i \in 1 .. (b - a) : a + i \in 1 .. Len(received) /\ s[i] = received[a + i]
  BY DEF Types, ListTypes
<1>3. \A i \in 1 .. (b - a) : s[i].id = a + i
  BY <1>2 DEF ToldInv
<1> QED BY <1>1, <1>3 DEF Ids, UpTo

LEMMA RestOf ==
    ASSUME NEW E, NEW s \in Seq(E), NEW k \in 0 .. Len(s)
    PROVE  /\ SubSeq(s, 1 + k, Len(s)) \in Seq(E)
           /\ Len(SubSeq(s, 1 + k, Len(s))) = Len(s) - k
           /\ \A i \in 1 .. (Len(s) - k) : SubSeq(s, 1 + k, Len(s))[i] = s[k + i]
OBVIOUS

LEMMA ViewIs ==
    ASSUME Types, PlaceInv, ToldInv
    PROVE  View(Len(log_rows), Settled, Len(received))
<1> DEFINE S == Len(log_rows)
           R == Len(received)
           K == Len(Kept)
<1>1. /\ received \in Seq(Entry) /\ log_rows \in Seq([row : Row, table : Table])
      /\ S \in Nat /\ R \in Nat
  BY DEF Types, ListTypes, StatementTypes
<1>2. PICK I \in Nat, L \in Nat : Places(S, I, L, R)
  BY DEF PlaceInv, Places
<1>3. S <= R /\ \A i \in 1 .. S : log_rows[i].row.entry = received[i]
  BY <1>2 DEF Places
<1>4. /\ Kept \in Seq(Entry) /\ K \in Nat /\ K <= R /\ K = KeptLen
      /\ \A i \in 1 .. K : Kept[i] = received[R - K + i]
  BY KeptIs DEF KeptLen
<1>5. Settled \in Nat /\ S <= Settled /\ Settled <= R
  BY <1>1, <1>3, <1>4 DEF Settled, Dealt
<1>6. Ids(Stored) = UpTo(0, S)
  <2>1. /\ Stored \in Seq(Entry) /\ Len(Stored) = S
        /\ \A i \in 1 .. S : Stored[i] = log_rows[i].row.entry
    BY StoredIs
  <2>2. \A i \in 1 .. Len(Stored) : Stored[i] = received[0 + i]
    BY <1>1, <1>3, <2>1
  <2> QED BY <1>1, <1>3, <2>1, <2>2, IdsAre
<1>7. Pending = UpTo(Settled, R)
  <2>1. CASE Gone
    <3>1. Pending = <<>> /\ Settled = R
      BY <2>1 DEF Pending, Gone, Settled
    <3>2. UpTo(R, R) = <<>>
      BY <1>1 DEF UpTo
    <3> QED BY <3>1, <3>2
  <2>2. CASE ~Gone
    <3> DEFINE known == S + K - R
               k == IF known > 0 THEN known ELSE 0
               s == SubSeq(Kept, 1 + k, K)
    <3>1. k \in 0 .. K /\ R - K + k = Settled /\ K - k = R - Settled
      BY <1>1, <1>3, <1>4, <2>2 DEF Settled, Dealt
    <3>2. Len(Stored) = S
      BY StoredIs
    <3>3. Pending = Ids(s)
      BY <2>2, <3>2 DEF Pending, Gone
    <3> HIDE DEF k
    <3>4. /\ s \in Seq(Entry) /\ Len(s) = K - k
          /\ \A i \in 1 .. (K - k) : s[i] = Kept[k + i]
      BY <1>4, <3>1, RestOf
    <3> HIDE DEF s
    <3>5. ASSUME NEW i \in 1 .. Len(s) PROVE s[i] = received[Settled + i]
      <4>1. i \in 1 .. (K - k)
        BY <3>4
      <4>2. k + i \in 1 .. K
        BY <1>4, <3>1, <4>1
      <4>3. R - K + (k + i) = Settled + i
        <5>1. /\ k \in Nat /\ K \in Nat /\ R \in Nat /\ i \in Nat /\ Settled \in Nat
              /\ R - K + k = Settled
          BY <1>1, <1>4, <1>5, <3>1, <4>1
        <5> QED BY <5>1
      <4> QED BY <1>4, <3>4, <4>1, <4>2, <4>3
    <3>6. Ids(s) = UpTo(Settled, R)
      <4> DEFINE A == Settled
      <4>1. /\ s \in Seq(Entry) /\ Len(s) = R - A
            /\ A \in Nat /\ R \in Nat /\ A <= R /\ R <= Len(received)
        BY <1>1, <1>5, <3>1, <3>4
      <4>2. \A i \in 1 .. Len(s) : s[i] = received[A + i]
        BY <3>5
      <4> HIDE DEF A, R
      <4>3. Ids(s) = UpTo(A, R)
        BY <4>1, <4>2, IdsAre
      <4> QED BY <4>3 DEF A
    <3> QED BY <3>3, <3>6
  <2> QED BY <2>1, <2>2
<1>8. Ids(received) = UpTo(0, R)
  BY <1>1, IdsAre
<1>9. ToSet(Ids(received)) \ (ToSet(Ids(Stored)) \cup ToSet(Pending)) = (S + 1) .. Settled
  <2>1. ToSet(UpTo(0, R)) = (0 + 1) .. R /\ ToSet(UpTo(0, S)) = (0 + 1) .. S
    BY <1>1, UpToIs
  <2>2. ToSet(UpTo(Settled, R)) = (Settled + 1) .. R
    BY <1>1, <1>5, UpToIs
  <2>3. (1 .. R) \ ((1 .. S) \cup ((Settled + 1) .. R)) = (S + 1) .. Settled
    BY <1>1, <1>5
  <2> QED BY <1>6, <1>7, <1>8, <2>1, <2>2, <2>3
<1> QED BY <1>5, <1>6, <1>7, <1>9 DEF View

-----------------------------------------------------------------------------
(* What a step does, by these numbers.  A statement is freed by a step     *)
(* that moves no entry, and never sent after that.                         *)
LEMMA SpoiledMoves ==
    ASSUME SqlAssumption, Types, [Next]_vars
    PROVE  /\ spoiled' = spoiled \/ (Stays /\ spoiled' = TRUE /\ Told')
           /\ log_rows' # log_rows => ~spoiled \/ plugin = "postgresql"
<1>1. CASE Starting \/ FrameworkCalls
  BY <1>1 DEF Starting, MysqlStartup, RtmStartup, PostgresqlStartup, StartFails,
     PrepareFails, StartEnvFails, Starts, FrameworkCalls, ReceivedLog, ReceivedDataEnd,
     ReceivedShutdown, Exit, Enter, NothingListed, Called, list, database
<1>2. CASE Turn \/ (plugin = "mysql" /\ NewDate) \/ Environment
  BY <1>2 DEF Turn, NextEntry, NewDate, Environment, EnvKnown, EnvNew, EnvNoMemory,
     list, database
<1>3. CASE RuleId \/ RuleDetails
  BY <1>3 DEF RuleId, RuleKnown, RuleNoMemory, SelectRule, RuleDetails, InsertRule,
     InsertRuleFails, list, database
<1>4. CASE BuildFails
  BY <1>4 DEF BuildFails, Crashes, list, database
<1>5. CASE plugin # "postgresql" /\ Bulk
  <2>1. CASE PutRowNoMemory
    <3>1. UNCHANGED <<log_list, log_insert, database, received>> /\ shutdown' = TRUE
      BY <2>1 DEF PutRowNoMemory, GivesUp
    <3>2. spoiled' = spoiled \/ spoiled' = TRUE
      <4>1. spoiled' = (spoiled \/ log_insert # <<>>) /\ spoiled \in BOOLEAN
        BY <2>1 DEF PutRowNoMemory, Types, StatementTypes
      <4>2. CASE log_insert # <<>>
        BY <4>1, <4>2, Zenon
      <4>3. CASE log_insert = <<>>
        BY <4>1, <4>3
      <4> QED BY <4>2, <4>3
    <3> QED BY <3>1, <3>2 DEF Stays, Told, database
  <2>2. CASE SendFirst \/ SendLast
    BY <2>2 DEF SendFirst, SendLast, Send, Acceptable
  <2>3. CASE PutRow \/ SpoiledCrash
    BY <2>3 DEF PutRow, SpoiledCrash, Crashes, list, database
  <2>4. CASE SendFails
    BY <2>4 DEF SendFails, Acceptable, list
  <2>5. CASE SendLastFails
    BY <2>4, <2>5 DEF SendLastFails, list, database
  <2> QED BY <1>5, <2>1, <2>2, <2>3, <2>4, <2>5 DEF Bulk, SendFirstFails
<1>6. CASE plugin = "postgresql" /\ (InsertRow \/ InsertRowFails \/ BlockDone)
  BY <1>6 DEF InsertRow, InsertRowFails, BlockDone, list
<1>7. CASE OtherJob \/ UNCHANGED vars
  BY <1>7 DEF OtherJob, vars, list, database
<1> QED
  BY <1>1, <1>2, <1>3, <1>4, <1>5, <1>6, <1>7, Steps

LEMMA GoneRests ==
    ASSUME SqlAssumption, Types, Gone, [Next]_vars
    PROVE  Gone' /\ UNCHANGED <<log_rows, received>>
<1> USE DEF Types, ControlTypes, Gone
<1>0. pc = "idle"
  OBVIOUS
<1>1. CASE Starting \/ FrameworkCalls
  BY <1>1 DEF Starting, MysqlStartup, RtmStartup, PostgresqlStartup, StartFails,
     PrepareFails, StartEnvFails, Starts, FrameworkCalls, ReceivedLog, ReceivedDataEnd,
     ReceivedShutdown, Exit, Called
<1>2. CASE Turn \/ (plugin = "mysql" /\ NewDate) \/ Environment
  BY <1>0, <1>2 DEF Turn, NextEntry, NewDate, Environment, EnvKnown, EnvNew, EnvNoMemory,
     Goes
<1>3. CASE RuleId \/ RuleDetails
  BY <1>0, <1>3 DEF RuleId, RuleKnown, RuleNoMemory, SelectRule, RuleDetails, InsertRule,
     InsertRuleFails, Goes
<1>4. CASE BuildFails
  BY <1>0, <1>4 DEF BuildFails
<1>5. CASE plugin # "postgresql" /\ Bulk
  BY <1>0, <1>5 DEF Bulk, SendFirst, SendFirstFails, PutRow, PutRowNoMemory, SpoiledCrash,
     SendLast, SendLastFails, CanAppend, Goes
<1>6. CASE plugin = "postgresql" /\ (InsertRow \/ InsertRowFails \/ BlockDone)
  BY <1>0, <1>6 DEF InsertRow, InsertRowFails, BlockDone, Goes
<1>7. CASE OtherJob \/ UNCHANGED vars
  BY <1>7 DEF OtherJob, vars, database
<1> QED
  BY <1>1, <1>2, <1>3, <1>4, <1>5, <1>6, <1>7, Steps

(* An entry in the database was the next one to be dealt with.             *)
LEMMA DealtMoves ==
    ASSUME SqlAssumption, Types, PlaceInv, ToldInv, [Next]_vars, received' = received
    PROVE  /\ Len(log_rows) <= Len(log_rows') /\ Dealt <= Dealt'
           /\ Len(log_rows') = Len(log_rows) \/ Len(log_rows) = Dealt
           /\ Dealt' = Dealt => Len(log_rows') = Len(log_rows)
           /\ \/ Told' \/ Dealt' = Dealt
              \/ Len(log_rows) = Dealt /\ Len(log_rows') = Dealt'
<1>1. PICK S \in Nat, I \in Nat, L \in Nat, R \in Nat : Places(S, I, L, R)
  BY DEF PlaceInv
<1>2. /\ Len(log_rows) = S /\ Len(log_insert) = I /\ Len(log_list) = L /\ Len(received) = R
      /\ S <= R /\ I + L <= R /\ S + I + L >= R
      /\ con # "lost" => S + I + L = R
  BY <1>1 DEF Places
<1>3. /\ log_list \in Seq(Entry) /\ received \in Seq(Entry) /\ log_insert \in Seq(Row)
      /\ log_rows \in Seq([row : Row, table : Table]) /\ StatementTypes
      /\ spoiled \in BOOLEAN /\ (plugin = "postgresql" => log_insert = <<>>)
  BY DEF Types, ListTypes, StatementTypes
<1>4. Dealt = IF R - KeptLen > S THEN R - KeptLen ELSE S
  BY <1>2 DEF Dealt
<1>5. KeptLen = (IF spoiled THEN 0 ELSE I) + L
  BY <1>2 DEF KeptLen
<1>6. CASE Stays
  <2>1. /\ Len(log_rows') = S /\ Len(log_insert') = I /\ Len(log_list') = L
        /\ Len(received') = R
    BY <1>2, <1>6 DEF Stays
  <2>2. /\ KeptLen' = (IF spoiled' THEN 0 ELSE I) + L
        /\ Dealt' = IF R - KeptLen' > S THEN R - KeptLen' ELSE S
    BY <2>1 DEF KeptLen, Dealt
  <2>3. CASE spoiled' = spoiled
    BY <1>2, <1>4, <1>5, <2>1, <2>2, <2>3
  <2>4. CASE spoiled' = TRUE /\ Told'
    BY <1>2, <1>3, <1>4, <1>5, <2>1, <2>2, <2>4
  <2> QED BY <2>3, <2>4, SpoiledMoves
<1>7. CASE ~Stays /\ GoesOn
  <2>1. /\ Len(log_list') = L - 1 /\ L > 0 /\ Len(log_insert') = I + 1
        /\ Len(log_rows') = S /\ Len(received') = R /\ spoiled' = spoiled
    BY <1>2, <1>3, <1>7, TailIs, AppendIs, SpoiledMoves DEF GoesOn
  <2>2. /\ KeptLen' = (IF spoiled THEN 0 ELSE I + 1) + (L - 1)
        /\ Dealt' = IF R - KeptLen' > S THEN R - KeptLen' ELSE S
    BY <2>1 DEF KeptLen, Dealt
  <2>3. CASE spoiled
    <3>1. Told'
      BY <2>3, ToldLasts DEF ToldInv, Told
    <3> QED BY <1>2, <1>4, <1>5, <2>1, <2>2, <2>3, <3>1
  <2>4. CASE ~spoiled
    BY <1>2, <1>4, <1>5, <2>1, <2>2, <2>4
  <2> QED BY <2>3, <2>4
<1>8. CASE ~Stays /\ AllReach
  <2>1. /\ Len(log_rows') = S + I /\ Len(log_list') = L /\ Len(received') = R
        /\ spoiled' = spoiled /\ S + I + L = R
    BY <1>2, <1>3, <1>8, Reached, SpoiledMoves DEF AllReach
  <2>2. Len(log_insert') = I \/ Len(log_insert') = 0
    BY <1>2, <1>8 DEF AllReach
  <2>3. /\ KeptLen' = (IF spoiled THEN 0 ELSE Len(log_insert')) + L
        /\ Dealt' = IF R - KeptLen' > S + I THEN R - KeptLen' ELSE S + I
    BY <2>1 DEF KeptLen, Dealt
  <2>4. CASE I = 0
    BY <1>2, <1>4, <1>5, <2>1, <2>2, <2>3, <2>4
  <2>5. CASE I # 0
    <3>1. ~spoiled
      <4>1. log_rows' # log_rows /\ plugin # "postgresql"
        BY <1>2, <1>3, <2>1, <2>5
      <4> QED BY <4>1, SpoiledMoves
    <3> QED BY <1>2, <1>4, <1>5, <2>1, <2>2, <2>3, <3>1
  <2> QED BY <2>4, <2>5
<1>9. CASE ~Stays /\ OneReaches
  <2>1. /\ Len(log_rows') = S + 1 /\ I = 0 /\ Len(log_insert') = 0 /\ L > 0
        /\ Len(received') = R /\ spoiled' = spoiled /\ S + L = R
        /\ Len(log_list') = L \/ Len(log_list') = L - 1
    <3>1. Len(log_rows') = S + 1
      BY <1>2, <1>3, <1>9, RowReached DEF OneReaches
    <3>2. L > 0 /\ Len(Tail(log_list)) = L - 1
      BY <1>2, <1>3, <1>9, TailIs DEF OneReaches
    <3>3. I = 0 /\ Len(log_insert') = 0 /\ S + L = R
      BY <1>2, <1>9 DEF OneReaches
    <3>4. Len(received') = R /\ spoiled' = spoiled
      BY <1>2, <1>9, SpoiledMoves
    <3>5. Len(log_list') = L \/ Len(log_list') = L - 1
      BY <1>2, <1>9, <3>2 DEF OneReaches
    <3> QED BY <3>1, <3>2, <3>3, <3>4, <3>5
  <2>2. /\ KeptLen' = Len(log_list')
        /\ Dealt' = IF R - KeptLen' > S + 1 THEN R - KeptLen' ELSE S + 1
    BY <2>1 DEF KeptLen, Dealt
  <2> QED BY <1>2, <1>4, <1>5, <2>1, <2>2
<1>10. ~Comes
  <2>1. ASSUME NEW e, received' = Append(received, e) PROVE FALSE
    BY <1>3, <2>1, AppendIs
  <2> QED BY <2>1 DEF Comes
<1> QED BY <1>6, <1>7, <1>8, <1>9, <1>10, Movement

-----------------------------------------------------------------------------
(* The steps of the promise, in these numbers.                             *)
ViewInv == \E S, A, R \in Nat : View(S, A, R)

LEMMA SameRange == \A s : Output!Range(s) = ToSet(s)
BY DEF Output!Range, ToSet

LEMMA UpToParts ==
    ASSUME NEW a \in Nat, NEW b \in Nat, NEW c \in Nat, a <= b, b <= c
    PROVE  /\ SubSeq(UpTo(a, c), 1, b - a) = UpTo(a, b)
           /\ SubSeq(UpTo(a, c), b - a + 1, Len(UpTo(a, c))) = UpTo(b, c)
<1> DEFINE s == UpTo(a, b)
           t == UpTo(b, c)
           u == UpTo(a, c)
<1>1. s \in Seq(Nat) /\ Len(s) = b - a /\ \A i \in 1 .. (b - a) : s[i] = a + i
  BY UpToIs
<1>2. t \in Seq(Nat) /\ Len(t) = c - b /\ \A i \in 1 .. (c - b) : t[i] = b + i
  BY UpToIs
<1>3. u \in Seq(Nat) /\ Len(u) = c - a /\ \A i \in 1 .. (c - a) : u[i] = a + i
  <2>1. a <= c
    OBVIOUS
  <2> QED BY <2>1, UpToIs
<1> HIDE DEF s, t, u
<1>6. SubSeq(u, 1, b - a) = s
  BY <1>1, <1>3
<1>7. SubSeq(u, b - a + 1, Len(u)) = t
  BY <1>2, <1>3
<1> QED BY <1>6, <1>7 DEF s, t, u

LEMMA UpToJoins ==
    ASSUME NEW a \in Nat, NEW b \in Nat, NEW c \in Nat, a <= b, b <= c
    PROVE  UpTo(a, c) = UpTo(a, b) \o UpTo(b, c)
<1> DEFINE s == UpTo(a, b)
           t == UpTo(b, c)
           u == UpTo(a, c)
<1>1. s \in Seq(Nat) /\ Len(s) = b - a /\ \A i \in 1 .. (b - a) : s[i] = a + i
  BY UpToIs
<1>2. t \in Seq(Nat) /\ Len(t) = c - b /\ \A i \in 1 .. (c - b) : t[i] = b + i
  BY UpToIs
<1>3. u \in Seq(Nat) /\ Len(u) = c - a /\ \A i \in 1 .. (c - a) : u[i] = a + i
  <2>1. a <= c
    OBVIOUS
  <2> QED BY <2>1, UpToIs
<1> HIDE DEF s, t, u
<1>4. PICK p \in Nat, q \in Nat : p = b - a /\ q = c - b /\ p + q = c - a
  OBVIOUS
<1>5. u = s \o t
  <2>1. /\ s \o t \in Seq(Nat) /\ Len(s \o t) = p + q
        /\ \A i \in 1 .. p : (s \o t)[i] = s[i]
        /\ \A i \in 1 .. q : (s \o t)[p + i] = t[i]
    <3>1. Len(s) = p /\ Len(t) = q
      BY <1>1, <1>2, <1>4
    <3>2. s \in Seq(Nat) /\ t \in Seq(Nat)
      BY <1>1, <1>2
    <3>3. /\ s \o t \in Seq(Nat) /\ Len(s \o t) = Len(s) + Len(t)
          /\ \A i \in 1 .. Len(s) : (s \o t)[i] = s[i]
          /\ \A i \in 1 .. Len(t) : (s \o t)[Len(s) + i] = t[i]
      BY <3>2, ConcatIs
    <3> QED BY <3>1, <3>3
  <2>2. ASSUME NEW i \in 1 .. (p + q) PROVE (s \o t)[i] = u[i]
    <3>1. CASE i \in 1 .. p
      BY <1>1, <1>3, <1>4, <2>1, <3>1
    <3>2. CASE i \notin 1 .. p
      <4>1. i - p \in 1 .. q /\ p + (i - p) = i /\ b + (i - p) = a + i
        BY <1>4, <3>2
      <4>2. (s \o t)[p + (i - p)] = t[i - p] /\ t[i - p] = b + (i - p)
        BY <1>2, <1>4, <2>1, <4>1
      <4>3. u[i] = a + i
        BY <1>3, <1>4
      <4> QED BY <4>1, <4>2, <4>3
    <3> QED BY <3>1, <3>2
  <2>3. Len(u) = p + q /\ u \in Seq(Nat)
    BY <1>3, <1>4
  <2>4. \A v \in Seq(Nat) : v = [i \in 1 .. Len(v) |-> v[i]]
    OBVIOUS
  <2> QED BY <2>1, <2>2, <2>3, <2>4
<1> QED BY <1>5 DEF s, t, u

(* The first of a number of entries are a part of them.                    *)
LEMMA FirstArePart ==
    ASSUME NEW a \in Nat, NEW b \in Nat, NEW c \in Nat, a <= b, b <= c
    PROVE  UpTo(a, b) \in Output!Subsequences(UpTo(a, c))
<1> DEFINE at == [i \in 1 .. (b - a) |-> i]
<1>1. /\ UpTo(a, b) = [i \in 1 .. (b - a) |-> a + i] /\ Len(UpTo(a, c)) = c - a
      /\ \A i \in 1 .. (c - a) : UpTo(a, c)[i] = a + i
  BY UpToIs DEF UpTo
<1>2. b - a \in 0 .. (c - a) /\ at \in [1 .. (b - a) -> 1 .. (c - a)]
  OBVIOUS
<1>3. at \in Output!Ascending(c - a)
  BY <1>2 DEF Output!Ascending, Output!BoundedSeq, Output!SeqOf
<1>4. UpTo(a, b) = [i \in DOMAIN at |-> UpTo(a, c)[at[i]]]
  BY <1>1, <1>2
<1> QED BY <1>1, <1>3, <1>4 DEF Output!Subsequences

LEMMA NoneArePart ==
    ASSUME NEW s \in Seq(Nat) PROVE <<>> \in Output!Subsequences(s)
<1> DEFINE at == [i \in 1 .. 0 |-> i]
<1>1. Len(s) \in Nat
  OBVIOUS
<1>3. at \in Output!Ascending(Len(s))
  BY <1>1 DEF Output!Ascending, Output!BoundedSeq, Output!SeqOf
<1>2. <<>> = [i \in DOMAIN at |-> s[at[i]]]
  OBVIOUS
<1> QED BY <1>2, <1>3 DEF Output!Subsequences

LEMMA ReceiveIs ==
    ASSUME NEW S \in Nat, NEW A \in Nat, NEW R \in Nat, View(S, A, R),
           View(S, A, R + 1)', R + 1 \in 1 .. MaxEntries, Told' = Told
    PROVE  Output!Receive
<1>1. S <= A /\ A <= R
  BY DEF View
<1>2. Ids(Stored) = UpTo(0, S) /\ Pending = UpTo(A, R)
  BY DEF View
<1>3. Ids(Stored)' = UpTo(0, S) /\ Pending' = UpTo(A, R + 1)
  BY DEF View
<1>4. /\ ToSet(Ids(received)) \ (ToSet(Ids(Stored)) \cup ToSet(Pending)) = (S + 1) .. A
      /\ (ToSet(Ids(received)) \ (ToSet(Ids(Stored)) \cup ToSet(Pending)))' = (S + 1) .. A
  BY DEF View
<1>5. UpTo(A, R + 1) = Append(UpTo(A, R), R + 1)
  <2>1. UpTo(A, R + 1) = UpTo(A, R) \o UpTo(R, R + 1)
    <3>1. R + 1 \in Nat /\ R <= R + 1
      OBVIOUS
    <3> QED BY <1>1, <3>1, UpToJoins
  <2>2. UpTo(R, R + 1) = <<R + 1>>
    BY DEF UpTo
  <2>3. UpTo(A, R) \in Seq(Nat)
    BY <1>1, UpToIs
  <2>4. \A s \in Seq(Nat) : Append(s, R + 1) = s \o <<R + 1>>
    OBVIOUS
  <2> QED BY <2>1, <2>2, <2>3, <2>4
<1>6. R + 1 \notin ToSet(UpTo(A, R)) \cup ToSet(UpTo(0, S)) \cup ((S + 1) .. A)
  <2>1. ToSet(UpTo(A, R)) = (A + 1) .. R /\ ToSet(UpTo(0, S)) = (0 + 1) .. S
    BY <1>1, UpToIs
  <2> QED BY <1>1, <2>1
<1> QED BY <1>2, <1>3, <1>4, <1>5, <1>6, SameRange DEF Output!Receive, Told

LEMMA FirstsJoin ==
    ASSUME NEW b \in Nat, NEW c \in Nat, b <= c
    PROVE  UpTo(0, c) = UpTo(0, b) \o UpTo(b, c)
<1>1. \E z \in Nat : z = 0
  OBVIOUS
<1>2. PICK z \in Nat : z = 0
  BY <1>1
<1>3. z <= b
  BY <1>2
<1>4. UpTo(z, c) = UpTo(z, b) \o UpTo(b, c)
  BY <1>3, UpToJoins
<1> QED BY <1>2, <1>4

LEMMA SettleIs ==
    ASSUME NEW S \in Nat, NEW A \in Nat, NEW R \in Nat, View(S, A, R),
           NEW S1 \in Nat, NEW A1 \in Nat, View(S1, A1, R)',
           A < A1, S <= S1, S1 = S \/ S = A,
           Told' \in {Told, TRUE}, Told' \/ (S = A /\ S1 = A1)
    PROVE  Output!Settle
<1>1. S <= A /\ A <= R /\ S1 <= A1 /\ A1 <= R
  BY DEF View
<1>2. Ids(Stored) = UpTo(0, S) /\ Pending = UpTo(A, R)
  BY DEF View
<1>3. Ids(Stored)' = UpTo(0, S1) /\ Pending' = UpTo(A1, R)
  BY DEF View
<1>4. /\ ToSet(Ids(received)) \ (ToSet(Ids(Stored)) \cup ToSet(Pending)) = (S + 1) .. A
      /\ (ToSet(Ids(received)) \ (ToSet(Ids(Stored)) \cup ToSet(Pending)))' = (S1 + 1) .. A1
  BY DEF View
<1> DEFINE batch == UpTo(A, A1)
           kept == UpTo(S, S1)
<1>5. /\ SubSeq(Pending, 1, A1 - A) = batch
      /\ SubSeq(Pending, A1 - A + 1, Len(Pending)) = UpTo(A1, R)
  <2>1. A <= A1 /\ A1 <= R
    BY <1>1
  <2>2. /\ SubSeq(UpTo(A, R), 1, A1 - A) = UpTo(A, A1)
        /\ SubSeq(UpTo(A, R), A1 - A + 1, Len(UpTo(A, R))) = UpTo(A1, R)
    BY <2>1, UpToParts
  <2> QED BY <1>2, <2>2
<1>6. A1 - A \in 1 .. Len(Pending)
  <2>1. Len(UpTo(A, R)) = R - A
    BY <1>1, UpToIs
  <2> QED BY <1>1, <1>2, <2>1
<1>7. kept \in Output!Subsequences(batch)
  <2>1. CASE S = A
    BY <1>1, <2>1, FirstArePart
  <2>2. CASE S1 = S
    <3>1. kept = <<>>
      BY <2>2 DEF UpTo
    <3>2. batch \in Seq(Nat)
      BY <1>1, UpToIs
    <3> QED BY <3>1, <3>2, NoneArePart
  <2> QED BY <2>1, <2>2
<1>8. Ids(Stored)' = Ids(Stored) \o kept
  <2>1. UpTo(0, S1) = UpTo(0, S) \o UpTo(S, S1)
    BY FirstsJoin
  <2> QED BY <1>2, <1>3, <2>1
<1>9. ToSet(batch) = (A + 1) .. A1 /\ ToSet(kept) = (S + 1) .. S1
  BY <1>1, UpToIs
<1>10. (S1 + 1) .. A1 = ((S + 1) .. A) \cup (((A + 1) .. A1) \ ((S + 1) .. S1))
  BY <1>1
<1>11. (S1 + 1) .. A1 # (S + 1) .. A => Told'
  <2>1. CASE S = A /\ S1 = A1
    BY <2>1
  <2> QED BY <2>1
<1> HIDE DEF batch, kept
<1> DEFINE Lost == ToSet(Ids(received)) \ (ToSet(Ids(Stored)) \cup ToSet(Pending))
<1>12. Lost' = Lost \cup (ToSet(batch) \ ToSet(kept)) /\ (Lost' # Lost => Told')
  BY <1>4, <1>9, <1>10, <1>11
<1> HIDE DEF Lost
<1>13. \E n \in 1 .. Len(Pending) : \E k \in Output!Subsequences(SubSeq(Pending, 1, n)) :
        /\ Pending' = SubSeq(Pending, n + 1, Len(Pending))
        /\ Ids(Stored)' = Ids(Stored) \o k
        /\ Lost' = Lost \cup (ToSet(SubSeq(Pending, 1, n)) \ ToSet(k))
        /\ Told' \in {Told, TRUE}
        /\ Lost' # Lost => Told'
  BY <1>3, <1>5, <1>6, <1>7, <1>8, <1>12
<1> QED BY <1>13, SameRange DEF Output!Settle, Lost, Told

LEMMA RestIs ==
    ASSUME NEW S \in Nat, NEW A \in Nat, NEW R \in Nat, View(S, A, R), View(S, A, R)',
           Told' \in {Told, TRUE}
    PROVE  Output!Complain \/ UNCHANGED Output!vars
<1>1. Ids(Stored)' = Ids(Stored) /\ Pending' = Pending
  BY DEF View
<1> DEFINE Lost == ToSet(Ids(received)) \ (ToSet(Ids(Stored)) \cup ToSet(Pending))
<1>2. Lost' = Lost
  BY DEF View
<1> HIDE DEF Lost
<1>3. \/ Told' = TRUE /\ UNCHANGED <<Pending, Ids(Stored), Lost>>
      \/ UNCHANGED <<Pending, Ids(Stored), Lost, Told>>
  BY <1>1, <1>2
<1> QED BY <1>3 DEF Output!Complain, Output!vars, Lost, Told

LEMMA OutputStep ==
    ASSUME SqlAssumption, Types, PlaceInv, ToldInv, ViewInv, [Next]_vars,
           Types', PlaceInv', ToldInv', ViewInv'
    PROVE  [Output!Next]_(Output!vars)
<1>1. PICK S \in Nat, A \in Nat, R \in Nat : View(S, A, R)
  BY DEF ViewInv
<1>2. PICK S1 \in Nat, A1 \in Nat, R1 \in Nat : View(S1, A1, R1)'
  BY DEF ViewInv
<1>3. /\ S = Len(log_rows) /\ A = Settled /\ R = Len(received) /\ S <= A /\ A <= R
      /\ S1 = Len(log_rows') /\ A1 = Settled' /\ R1 = Len(received') /\ S1 <= A1 /\ A1 <= R1
  BY <1>1, <1>2 DEF View
<1>4. Told' \in {Told, TRUE}
  BY ToldLasts DEF Told, Types, ControlTypes
<1>5. CASE Gone
  <2>1. Gone' /\ R1 = R /\ S1 = S
    BY <1>3, <1>5, GoneRests
  <2>2. A1 = A
    BY <1>3, <1>5, <2>1 DEF Settled
  <2> QED BY <1>1, <1>2, <1>4, <2>1, <2>2, RestIs DEF Output!Next
<1>6. CASE ~Gone /\ received' = received
  <2>1. R1 = R /\ A = Dealt
    BY <1>3, <1>6 DEF Settled
  <2>2. /\ S <= S1 /\ Dealt <= Dealt' /\ (S1 = S \/ S = A)
        /\ Dealt' = Dealt => S1 = S
        /\ Told' \/ Dealt' = Dealt \/ (S = A /\ S1 = Dealt')
    BY <1>3, <1>6, <2>1, DealtMoves
  <2>3. /\ KeptLen' \in Nat
        /\ Dealt' = IF R1 - KeptLen' > S1 THEN R1 - KeptLen' ELSE S1
        /\ Dealt' \in Nat /\ Dealt' <= R1
    <3>1. KeptLen' \in Nat
      BY DEF KeptLen, Types, ListTypes, StatementTypes
    <3> QED BY <1>3, <3>1 DEF Dealt
  <2>4. A1 = Dealt' \/ (A1 = R1 /\ Told')
    <3>1. CASE ~Gone'
      BY <1>3, <3>1 DEF Settled
    <3>2. CASE Gone' /\ Told'
      BY <1>3, <3>2 DEF Settled
    <3>3. CASE Gone' /\ ~Told'
      <4>1. log_list' = <<>> /\ log_insert' = <<>>
        BY <3>3 DEF ToldInv, Gone, Types, ControlTypes
      <4>2. KeptLen' = 0
        BY <4>1 DEF KeptLen
      <4>3. A1 = R1
        BY <1>3, <3>3 DEF Settled
      <4> QED BY <1>3, <2>3, <4>2, <4>3
    <3> QED BY <3>1, <3>2, <3>3
  <2>5. CASE A1 = A
    <3>1. S1 = S
      BY <1>3, <2>1, <2>2, <2>3, <2>4, <2>5
    <3> QED BY <1>1, <1>2, <1>4, <2>1, <2>5, <3>1, RestIs DEF Output!Next
  <2>6. CASE A1 # A
    <3>1. A < A1 /\ (S1 = S \/ S = A) /\ S <= S1
      BY <1>3, <2>1, <2>2, <2>3, <2>4, <2>6
    <3>2. Told' \/ (S = A /\ S1 = A1)
      BY <1>3, <2>1, <2>2, <2>4, <2>6
    <3>3. View(S1, A1, R)'
      BY <1>2, <2>1
    <3> QED BY <1>1, <1>4, <3>1, <3>2, <3>3, SettleIs DEF Output!Next
  <2> QED BY <2>5, <2>6
<1>7. CASE ~Gone /\ received' # received
  <2>1. PICK e \in Entry : /\ e.id = Len(received) + 1 /\ received' = Append(received, e)
                           /\ ReceivedLog /\ ~Gone'
    BY <1>7, Received
  <2>2. R1 = R + 1
    BY <1>3, <2>1, AppendIs DEF Types, ListTypes
  <2>3. R + 1 \in 1 .. MaxEntries
    BY <1>3, <2>1 DEF Entry
  <2>4. PICK x : /\ log_list' = Append(log_list, x)
                 /\ UNCHANGED <<phase, log_insert, spoiled, shutdown, log_rows>>
    BY <2>1 DEF ReceivedLog, database
  <2>5. Told' = Told /\ S1 = S
    BY <1>3, <2>4 DEF Told
  <2>6. A1 = A
    <3>1. Len(log_list') = Len(log_list) + 1 /\ Len(log_list) \in Nat
      BY <2>4, AppendIs DEF Types, ListTypes
    <3>2. KeptLen' = KeptLen + 1 /\ KeptLen \in Nat
      <4>1. Len(log_insert') = Len(log_insert) /\ Len(log_insert) \in Nat
        BY <2>4 DEF Types, StatementTypes
      <4>2. spoiled' = spoiled
        BY <2>4
      <4>3. CASE spoiled
        BY <3>1, <4>2, <4>3 DEF KeptLen
      <4>4. CASE ~spoiled
        BY <3>1, <4>1, <4>2, <4>4 DEF KeptLen
      <4> QED BY <4>3, <4>4
    <3>3. R1 - KeptLen' = R - KeptLen
      BY <2>2, <3>2
    <3>4. Dealt' = Dealt
      BY <1>3, <2>5, <3>3 DEF Dealt
    <3> QED BY <1>3, <1>7, <2>1, <3>4 DEF Settled
  <2>7. View(S, A, R + 1)'
    BY <1>2, <2>2, <2>5, <2>6
  <2> QED BY <1>1, <2>3, <2>5, <2>7, ReceiveIs DEF Output!Next
<1> QED BY <1>5, <1>6, <1>7

-----------------------------------------------------------------------------
OutputInv == SqlInv /\ ToldInv

LEMMA OutputInit ==
    ASSUME SqlAssumption, Init PROVE OutputInv /\ Output!Init
<1>1. SqlInv
  BY SqlInit
<1>2. /\ log_list = <<>> /\ log_insert = <<>> /\ log_rows = <<>> /\ received = <<>>
      /\ pc = "idle" /\ phase = "starting" /\ shutdown = FALSE /\ spoiled = FALSE
  BY DEF Init
<1>3. ToldInv
  BY <1>2 DEF ToldInv, Gone
<1>4. View(0, 0, 0)
  <2>1. View(Len(log_rows), Settled, Len(received))
    BY <1>1, <1>3, ViewIs DEF SqlInv
  <2>2. Len(log_rows) = 0 /\ Len(received) = 0
    BY <1>2
  <2>3. Settled = 0
    BY <1>2, <2>2 DEF Settled, Dealt, KeptLen, Gone
  <2> QED BY <2>1, <2>2, <2>3
<1>5. Ids(Stored) = <<>> /\ Pending = <<>>
  <2>1. UpTo(0, 0) = <<>>
    BY DEF UpTo
  <2> QED BY <1>4, <2>1 DEF View
<1>6. ToSet(Ids(received)) \ (ToSet(Ids(Stored)) \cup ToSet(Pending)) = {}
  BY <1>4 DEF View
<1>7. Told = FALSE
  BY <1>2 DEF Told
<1> QED BY <1>1, <1>3, <1>5, <1>6, <1>7 DEF OutputInv, Output!Init, Told

LEMMA ViewInvShows == ASSUME OutputInv PROVE ViewInv
<1>1. /\ Len(log_rows) \in Nat /\ Settled \in Nat /\ Len(received) \in Nat
  <2>1. Len(log_rows) \in Nat /\ Len(received) \in Nat /\ KeptLen \in Nat
    BY DEF OutputInv, SqlInv, Types, ListTypes, StatementTypes, KeptLen
  <2> QED BY <2>1 DEF Settled, Dealt
<1> QED BY <1>1, ViewIs DEF ViewInv, OutputInv, SqlInv

(* Each of the three plug-ins implements the promise, whatever queries     *)
(* fail and wherever the connection goes down: a row is stored at most     *)
(* once and in order, and an entry that is in no table when the plug-in    *)
(* has ended was complained of.                                            *)
THEOREM SqlImplementsOutput == Spec => ImplementsOutput
<1>1. Init => OutputInv /\ Output!Init
  BY SqlAssumption, OutputInit
<1>2. OutputInv /\ [Next]_vars => OutputInv'
  BY SqlAssumption, SqlStep, ToldInvStep DEF OutputInv, SqlInv
<1>3. OutputInv => ViewInv
  BY ViewInvShows
<1>4. OutputInv /\ ViewInv /\ [Next]_vars /\ OutputInv' /\ ViewInv'
          => [Output!Next]_(Output!vars)
  BY SqlAssumption, OutputStep DEF OutputInv, SqlInv
<1>5. Spec => Output!Spec
  BY <1>1, <1>2, <1>3, <1>4, PTL DEF Spec, Output!Spec
<1> QED BY <1>5 DEF ImplementsOutput
=============================================================================
