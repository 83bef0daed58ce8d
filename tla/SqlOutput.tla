----------------------------- MODULE SqlOutput -----------------------------
(***************************************************************************)
(* The plug-ins that write to a database: output/mistral_mysql,            *)
(* mistral_rtm and mistral_postgresql.  The framework calls                *)
(* mistral_startup() once, mistral_received_log() for every log entry,     *)
(* which is only listed, and mistral_received_data_end() at the end of a   *)
(* block, which sends what is listed to the database.                      *)
(* mistral_received_shutdown() and mistral_exit() call it again when       *)
(* entries are left.  When a query fails it gives up half-way and calls    *)
(* mistral_shutdown(), after which the framework calls mistral_exit() and  *)
(* nothing else.  By then main() has freed the names of the call types of  *)
(* every entry, which are part of what the database is asked for a rule.   *)
(*                                                                         *)
(* All three get or create the id of the entry's rule.  MySQL and RTM then *)
(* put the row in one INSERT statement that holds as many rows as fit,     *)
(* PostgreSQL inserts it at once.  MySQL alone has a table a day, looked   *)
(* up by date, in which it stores the environment before the first row;    *)
(* PostgreSQL stores the environment when it starts, RTM never.            *)
(*                                                                         *)
(* The database is outside this code: its tables are what the queries and  *)
(* the create_mistral.sql of each plug-in say of them, and the plug-ins of *)
(* other jobs record rules in it at any time.  A query may be refused, and *)
(* the connection may go down before a query is done or after, with the    *)
(* answer; nothing reconnects.  Taken is the plug-ins whose INSERT INTO    *)
(* the log table the database accepts at all: as the code stands only      *)
(* PostgreSQL's, since MySQL's names columns twice (and 23 for 18 values)  *)
(* and RTM's names 21 columns for 24 values.  The runs that look past this *)
(* suppose the column lists to be mended and nothing else.                 *)
(***************************************************************************)
EXTENDS Integers, Sequences, FiniteSets, SequencesExt

CONSTANTS
    Plugins,    \* the plug-ins to look at
    Taken,      \* those whose INSERT the database accepts
    Dates,      \* dates of log entries
    TableNum,   \* date_table_map: the table number of each date
    Texts,      \* label, path, call types, measurement, size range, threshold
    Rules,      \* those of log entries
    Cut,        \* what columns of limited width keep of a text
    Others,     \* texts that other jobs may record
    HasVars,    \* environment variables are to be stored (option -v)
    BufferRows, \* rows that fit in a statement
    MaxEntries, \* bound on the log entries received
    Faults,     \* what may fail: queries, the connection, memory
    NoDate,     \* last_log_date before the first lookup
    NoTable     \* table_name before the first lookup

ASSUME SqlAssumption ==
    /\ Plugins \subseteq {"mysql", "rtm", "postgresql"} /\ Taken \subseteq Plugins
    /\ TableNum \in [Dates -> Nat] /\ NoDate \notin Dates
    /\ NoTable \notin Nat
    /\ Rules \subseteq Texts /\ Others \subseteq Texts
    /\ Cut \in [Texts -> Texts] /\ \A t \in Texts : Cut[Cut[t]] = Cut[t]
    /\ HasVars \in BOOLEAN
    /\ BufferRows \in Nat \ {0} /\ MaxEntries \in Nat
    /\ Faults \subseteq {"connect", "prepare", "table", "env", "select", "insert_rule",
                         "insert_log", "connection", "memory"}

(* An entry fits when RTM can parse its job ids, PostgreSQL's columns are  *)
(* wide enough for its values (timeframe has ten characters).              *)
Entry == [id : 1 .. MaxEntries, date : Dates, rule : Rules, fits : BOOLEAN]

VARIABLES
    plugin,         \* which of them this is
    phase,          \* what the framework may call, or how the plug-in ended
    pc,             \* where mistral_received_data_end is
    con,            \* the connection is up or lost
    log_list,       \* entries received and not yet in a statement
    log_insert,     \* rows of the INSERT statement being built
    insert_table,   \* the table it names
    spoiled,        \* the statement was freed while still in use
    last_log_date, table_name, date_changed,
    rule_root,      \* rules seen, with their ids: a search tree
    table_root,     \* tables and dates the environment was stored for
    rule_id,        \* id of the rule of the entry at hand
    misread,        \* history: rules the database was asked for by freed text
    shutdown,       \* mistral_shutdown() was called
    rule_details,   \* database: recorded rules, the id is the position
    log_rows,       \* database: the rows of all log tables, as inserted
    env_rows,       \* database: tables the environment was stored in
    received        \* history: every entry received

list     == <<log_list, log_insert, insert_table, spoiled>>
dates    == <<last_log_date, table_name, date_changed>>
trees    == <<rule_root, table_root, rule_id, misread>>
database == <<rule_details, log_rows, env_rows>>
vars     == <<plugin, phase, pc, con, list, dates, trees, shutdown, database,
              received>>

(* What the columns keep: call types have 45 characters in MySQL and RTM,  *)
(* so that two rules may be the same there.                                *)
Column(t) == IF plugin = "postgresql" THEN t ELSE Cut[t]

Init ==
    /\ plugin \in Plugins
    /\ phase = "starting" /\ pc = "idle" /\ con = "none"
    /\ log_list = <<>> /\ log_insert = <<>> /\ insert_table = NoTable
    /\ spoiled = FALSE
    /\ last_log_date = NoDate /\ table_name = NoTable /\ date_changed = FALSE
    /\ rule_root = <<>> /\ table_root = {} /\ rule_id = 0 /\ misread = {}
    /\ shutdown = FALSE
    /\ rule_details \in {<<>>} \cup {<<Column(r)>> : r \in Rules}
    /\ log_rows = <<>> /\ env_rows = <<>>
    /\ received = <<>>

-----------------------------------------------------------------------------
(* How a query ends: done and answered; done, but the connection goes down *)
(* with the answer; not done.                                              *)
Fails(q) == q \in Faults

Answered   == con = "up" /\ UNCHANGED con
Unanswered == con = "up" /\ Fails("connection") /\ con' = "lost"
Refused(q) ==
    \/ con = "lost" /\ UNCHANGED con
    \/ con = "up" /\ Fails(q) /\ UNCHANGED con
    \/ con = "up" /\ Fails("connection") /\ con' = "lost"

-----------------------------------------------------------------------------
(* mistral_startup: the framework ends if it does not set the plug-in      *)
(* type, and mistral_exit then finds nothing on the list.                  *)
Starts == phase = "starting" /\ phase' = "running" /\ con' = "up"

StartFails ==
    /\ phase = "starting" /\ Fails("connect")
    /\ phase' = "gone"
    /\ UNCHANGED <<plugin, pc, con, list, dates, trees, shutdown, database, received>>

MysqlStartup ==
    \/ StartFails
    \/ /\ Starts
       /\ UNCHANGED <<plugin, pc, list, dates, trees, shutdown, database, received>>

(* The host, project and submission time LSF gives are constants of a run, *)
(* and not finding them is not fatal.                                      *)
RtmStartup ==
    \/ StartFails
    \/ /\ Starts
       /\ UNCHANGED <<plugin, pc, list, dates, trees, shutdown, database, received>>

(* setup_prepared_statements: one of the nine is refused.                  *)
PrepareFails ==
    /\ phase = "starting" /\ Fails("prepare")
    /\ phase' = "gone"
    /\ UNCHANGED <<plugin, pc, con, list, dates, trees, shutdown, database, received>>

(* insert_env_records: each variable is stored by a query of its own, so a *)
(* failure may come after some.                                            *)
StartEnvFails ==
    /\ phase = "starting" /\ HasVars /\ Fails("env")
    /\ phase' = "gone"
    /\ UNCHANGED <<plugin, pc, con, list, dates, trees, shutdown, database, received>>

StartEnvStored ==
    env_rows' = IF HasVars THEN Append(env_rows, <<0, NoDate>>) ELSE env_rows

PostgresqlStartup ==
    \/ StartFails \/ PrepareFails \/ StartEnvFails
    \/ /\ Starts /\ StartEnvStored
       /\ UNCHANGED <<plugin, pc, list, dates, trees, shutdown, rule_details,
                      log_rows, received>>

-----------------------------------------------------------------------------
(* What the framework calls.                                               *)
Called == phase = "running" /\ pc = "idle" /\ ~shutdown

(* Only MySQL looks at dates, and an entry that does not fit matters only  *)
(* to the others.                                                          *)
NextEntries ==
    {e \in Entry :
        /\ e.id = Len(received) + 1
        /\ IF plugin = "mysql" THEN e.fits ELSE e.date = CHOOSE d \in Dates : TRUE}

ReceivedLog ==
    \E e \in NextEntries :
        /\ Called
        /\ log_list' = Append(log_list, e)
        /\ received' = Append(received, e)
        /\ UNCHANGED <<plugin, phase, pc, con, log_insert, insert_table, spoiled,
                       dates, trees, shutdown, database>>

(* mistral_received_data_end is entered: date_changed is a local variable, *)
(* last_log_date and table_name are static.                                *)
Enter ==
    /\ pc' = "entry" /\ date_changed' = FALSE
    /\ UNCHANGED <<plugin, con, list, last_log_date, table_name, trees, shutdown,
                   database, received>>

ReceivedDataEnd == Called /\ Enter /\ UNCHANGED phase

NothingListed ==
    /\ log_list = <<>>
    /\ UNCHANGED <<plugin, pc, con, list, dates, trees, shutdown, database, received>>

(* After a shutdown message nothing but mistral_exit is called.            *)
ReceivedShutdown ==
    /\ Called /\ phase' = "told"
    /\ NothingListed \/ (log_list # <<>> /\ Enter)

(* mistral_exit: at end of input, after a shutdown message or an error.    *)
Exit ==
    /\ phase \in {"running", "told"} /\ pc = "idle"
    /\ \/ NothingListed /\ phase' = "gone"
       \/ log_list # <<>> /\ Enter /\ phase' = "exit"

-----------------------------------------------------------------------------
(* mistral_received_data_end, for the entry at the head of the list.       *)
entry == Head(log_list)

(* The end of the call, and of mistral_exit if that made it.               *)
Returns == pc' = "idle" /\ phase' = IF phase = "exit" THEN "gone" ELSE phase

(* An error: mistral_shutdown() and return.                                *)
GivesUp == Returns /\ shutdown' = TRUE

Goes(from, to) == pc = from /\ pc' = to /\ UNCHANGED <<phase, shutdown>>

(* A pointer that is NULL or was freed is used.                            *)
Crashes ==
    /\ phase' = "crashed" /\ pc' = "idle"
    /\ UNCHANGED <<plugin, con, list, dates, trees, shutdown, database, received>>

NextEntry ==
    /\ Goes("entry", "rule") /\ log_list # <<>>
    /\ UNCHANGED <<plugin, con, list, dates, trees, database, received>>

-----------------------------------------------------------------------------
(* MySQL: the table for the date of the entry and the environment.         *)

(* get_table_number is declared bool: what it returns, -1 for a failure    *)
(* included, is converted to 0 or 1.                                       *)
AsBool(n) == IF n = 0 THEN 0 ELSE 1

SameDate == NextEntry /\ entry.date = last_log_date

NewDate ==
    /\ Goes("entry", "env") /\ log_list # <<>>
    /\ entry.date # last_log_date
    /\ last_log_date' = entry.date
    /\ \/ Answered /\ table_name' = AsBool(TableNum[entry.date])
       \/ Refused("table") /\ table_name' = AsBool(-1)
    /\ date_changed' = TRUE
    /\ UNCHANGED <<plugin, list, trees, database, received>>

(* Wrong: the environment is stored for the first date only.               *)
EnvKnownAnyDate ==
    /\ Goes("env", "rule")
    /\ ~HasVars \/ table_root # {}
    /\ UNCHANGED <<plugin, con, list, dates, trees, database, received>>

(* insert_env_records, when there is nothing to store or it is done.       *)
EnvKnown ==
    /\ Goes("env", "rule")
    /\ ~HasVars \/ <<table_name, last_log_date>> \in table_root
    /\ UNCHANGED <<plugin, con, list, dates, trees, database, received>>

EnvNoMemory ==
    /\ pc = "env" /\ HasVars /\ Fails("memory") /\ GivesUp
    /\ UNCHANGED <<plugin, con, list, dates, trees, database, received>>

(* A failure may come after some of the variables were stored.             *)
EnvNew ==
    /\ pc = "env" /\ HasVars
    /\ <<table_name, last_log_date>> \notin table_root
    /\ table_root' = table_root \cup {<<table_name, last_log_date>>}
    /\ \/ /\ \/ Answered /\ Goes("env", "rule")
             \/ Unanswered /\ GivesUp
          /\ env_rows' = Append(env_rows, <<table_name, last_log_date>>)
       \/ Refused("env") /\ GivesUp /\ UNCHANGED env_rows
    /\ UNCHANGED <<plugin, list, dates, rule_root, rule_id, misread, rule_details,
                   log_rows, received>>

-----------------------------------------------------------------------------
(* The id of the rule: in the tree rules are compared by the mask of their *)
(* call types, in the database by the names.                               *)
RuleIdIs(r, id) == [x \in DOMAIN rule_root \cup {r} |->
                        IF x = r THEN id ELSE rule_root[x]]

(* What is sent for the rule.  In mistral_exit the names of its call types *)
(* are freed memory, in each query anew.                                   *)
Sent == IF phase = "exit" THEN Texts ELSE {entry.rule}
Asks(text) == misread' = misread \cup ({entry.rule} \ {text})

Recorded(c) == c \in ToSet(rule_details)
IdOf(c) == CHOOSE i \in DOMAIN rule_details : rule_details[i] = c

(* set_rule_id for a rule that is in the tree.                             *)
RuleKnown ==
    /\ Goes("rule", "values") /\ entry.rule \in DOMAIN rule_root
    /\ rule_id' = rule_root[entry.rule]
    /\ UNCHANGED <<plugin, con, list, dates, rule_root, table_root, misread, database,
                   received>>

(* No memory for a rule that is not.                                       *)
RuleNoMemory ==
    /\ pc = "rule" /\ Fails("memory") /\ GivesUp
    /\ UNCHANGED <<plugin, con, list, dates, trees, database, received>>

(* Such a rule is put in the tree first, with id 0, and then looked up.  A *)
(* look-up that fails leaves it there.  closes: the statement is closed at *)
(* the end, and failing to is an error like any other.                     *)
SelectRule(closes) ==
    /\ pc = "rule" /\ entry.rule \notin DOMAIN rule_root
    /\ \E text \in Sent :
          /\ Asks(text)
          /\ \/ /\ Recorded(text) /\ rule_id' = IdOf(text)
                /\ rule_root' = RuleIdIs(entry.rule, rule_id')
                /\ \/ Answered /\ Goes("rule", "values")
                   \/ closes /\ Unanswered /\ GivesUp
             \/ /\ ~Recorded(text) /\ Answered
                /\ Goes("rule", "insert_rule")
                /\ rule_root' = RuleIdIs(entry.rule, 0) /\ UNCHANGED rule_id
             \/ /\ Refused("select") /\ GivesUp
                /\ rule_root' = RuleIdIs(entry.rule, 0) /\ UNCHANGED rule_id
    /\ UNCHANGED <<plugin, list, dates, table_root, database, received>>

(* Wrong: the id of a rule just recorded is not kept in the tree.          *)
InsertRuleNotKept(closes) ==
    /\ Goes("insert_rule", "values") /\ ~Recorded(Column(entry.rule)) /\ Answered
    /\ rule_details' = Append(rule_details, Column(entry.rule))
    /\ rule_id' = Len(rule_details')
    /\ UNCHANGED <<plugin, list, dates, rule_root, table_root, misread, log_rows,
                   env_rows, received>>

(* The rule is recorded.                                                   *)
InsertRule(closes) ==
    /\ pc = "insert_rule"
    /\ \E text \in Sent :
          /\ ~Recorded(Column(text)) /\ Asks(text)
          /\ rule_details' = Append(rule_details, Column(text))
    /\ rule_id' = Len(rule_details')
    /\ rule_root' = RuleIdIs(entry.rule, rule_id')
    /\ \/ Answered /\ Goes("insert_rule", "values")
       \/ closes /\ Unanswered /\ GivesUp
    /\ UNCHANGED <<plugin, list, dates, table_root, log_rows, env_rows, received>>

(* It is not, or nobody says so.  The unique key refuses a rule that was   *)
(* recorded in the meantime, or is the same when cut.  The rule is taken   *)
(* out of the tree again.                                                  *)
InsertRuleFails ==
    /\ pc = "insert_rule" /\ GivesUp
    /\ \E text \in Sent :
          /\ Asks(text)
          /\ \/ /\ Refused("insert_rule") \/ (Recorded(Column(text)) /\ Answered)
                /\ UNCHANGED rule_details
             \/ /\ Unanswered /\ ~Recorded(Column(text))
                /\ rule_details' = Append(rule_details, Column(text))
    /\ rule_root' = [x \in DOMAIN rule_root \ {entry.rule} |-> rule_root[x]]
    /\ UNCHANGED <<plugin, list, dates, table_root, rule_id, log_rows, env_rows,
                   received>>

MysqlSetRuleId == RuleKnown \/ RuleNoMemory \/ SelectRule(TRUE)
MysqlInsertRuleDetails == InsertRule(TRUE) \/ InsertRuleFails

RtmSetRuleId == RuleKnown \/ RuleNoMemory \/ SelectRule(TRUE)
RtmInsertRuleParameters == InsertRule(TRUE) \/ InsertRuleFails

PostgresqlSetRuleId == RuleKnown \/ RuleNoMemory \/ SelectRule(FALSE)
PostgresqlInsertRuleDetails == InsertRule(FALSE) \/ InsertRuleFails

-----------------------------------------------------------------------------
(* MySQL and RTM: one statement for many rows.                             *)

(* The text of a row cannot be built, and its length is asked for all the  *)
(* same.                                                                   *)
MysqlBuildFails == pc = "values" /\ Fails("memory") /\ Crashes

RtmBuildFails == pc = "values" /\ (Fails("memory") \/ ~entry.fits) /\ Crashes

CanBuild == plugin = "rtm" => entry.fits

(* The statement has to go before this row can be put in one.              *)
StatementFull == Len(log_insert) = BufferRows
MustSendFirst == StatementFull \/ (log_insert # <<>> /\ date_changed)

(* RTM's table has a foreign key on the rules, MySQL's have none.          *)
Acceptable ==
    /\ plugin \in Taken /\ ~spoiled
    /\ plugin = "rtm" =>
          \A i \in DOMAIN log_insert : log_insert[i].rule_id \in DOMAIN rule_details

Reach(rows) ==
    log_rows' = log_rows \o [i \in DOMAIN rows |->
                                [row |-> rows[i], table |-> insert_table]]

(* insert_log_to_db: the rows of the statement are in the database.        *)
Send ==
    /\ Acceptable /\ Answered /\ Reach(log_insert)
    /\ log_insert' = <<>> /\ insert_table' = NoTable

(* Wrong: mistral_shutdown() is not called.                                *)
SendFailsQuietly ==
    /\ Returns /\ Refused("insert_log")
    /\ UNCHANGED <<plugin, list, dates, trees, shutdown, database, received>>

(* They are not, or nobody says so.  The statement is kept.                *)
SendFails ==
    /\ GivesUp
    /\ \/ Acceptable /\ Unanswered /\ Reach(log_insert)
       \/ Refused("insert_log") /\ UNCHANGED log_rows
       \/ ~Acceptable /\ Answered /\ UNCHANGED log_rows
    /\ UNCHANGED <<plugin, list, dates, trees, rule_details, env_rows, received>>

SendFirst ==
    /\ Goes("values", "append") /\ CanBuild /\ MustSendFirst /\ Send
    /\ date_changed' = FALSE
    /\ UNCHANGED <<plugin, log_list, spoiled, last_log_date, table_name, trees,
                   rule_details, env_rows, received>>

SendFirstFails == pc = "values" /\ CanBuild /\ MustSendFirst /\ SendFails

CanAppend ==
    \/ pc = "append"
    \/ pc = "values" /\ CanBuild /\ ~MustSendFirst

(* Wrong: the statement is started without its table.                      *)
PutRowNowhere ==
    /\ CanAppend /\ pc' = "entry"
    /\ log_insert' = Append(log_insert, [entry |-> entry, rule_id |-> rule_id])
    /\ log_list' = Tail(log_list)
    /\ UNCHANGED <<plugin, phase, con, insert_table, spoiled, dates, trees, shutdown,
                   database, received>>

(* The row goes into a new statement or the one at hand, the entry is      *)
(* taken off the list and destroyed.                                       *)
PutRow ==
    /\ CanAppend /\ pc' = "entry"
    /\ log_insert' = Append(log_insert, [entry |-> entry, rule_id |-> rule_id])
    /\ insert_table' = IF log_insert = <<>> THEN table_name ELSE insert_table
    /\ log_list' = Tail(log_list)
    /\ UNCHANGED <<plugin, phase, con, spoiled, dates, trees, shutdown, database,
                   received>>

(* No memory for the longer statement: the one at hand is freed, but       *)
(* log_insert still points to it and log_insert_len is not reset.          *)
PutRowNoMemory ==
    /\ CanAppend /\ Fails("memory") /\ GivesUp
    /\ spoiled' = (spoiled \/ log_insert # <<>>)
    /\ UNCHANGED <<plugin, con, log_list, log_insert, insert_table, dates, trees,
                   database, received>>

(* What is freed is sent, or copied into the next statement.               *)
SpoiledCrash == spoiled /\ (CanAppend \/ pc = "values") /\ Crashes

(* Nothing is left on the list: what is in the statement is sent.  Without *)
(* a statement an empty query is sent, which the database refuses.         *)
SendLast ==
    /\ pc = "entry" /\ log_list = <<>> /\ log_insert # <<>>
    /\ Send /\ Returns
    /\ UNCHANGED <<plugin, log_list, spoiled, dates, trees, shutdown, rule_details,
                   env_rows, received>>

SendLastFails ==
    /\ pc = "entry" /\ log_list = <<>>
    /\ \/ log_insert # <<>> /\ SendFails
       \/ /\ log_insert = <<>> /\ GivesUp
          /\ UNCHANGED <<plugin, con, list, dates, trees, database, received>>

Bulk ==
    \/ SendFirst \/ SendFirstFails \/ PutRow \/ PutRowNoMemory \/ SpoiledCrash
    \/ SendLast \/ SendLastFails

MysqlDataEnd == SameDate \/ NewDate \/ MysqlBuildFails \/ Bulk
RtmDataEnd == NextEntry \/ RtmBuildFails \/ Bulk

-----------------------------------------------------------------------------
(* PostgreSQL: a query for each row, into the table of its measurement.    *)
(* Every such table has a foreign key on the rules.                        *)
RowFits ==
    /\ plugin \in Taken
    /\ entry.fits /\ rule_id \in DOMAIN rule_details

RowReaches ==
    log_rows' = Append(log_rows,
                       [row |-> [entry |-> entry, rule_id |-> rule_id], table |-> 0])

(* Wrong: the entry is taken off the list before its row is in.            *)
InsertRowFailsDrops ==
    /\ pc = "values" /\ Refused("insert_log") /\ GivesUp
    /\ log_list' = Tail(log_list)
    /\ UNCHANGED <<plugin, log_insert, insert_table, spoiled, dates, trees, database,
                   received>>

InsertRow ==
    /\ Goes("values", "entry") /\ RowFits /\ Answered /\ RowReaches
    /\ log_list' = Tail(log_list)
    /\ UNCHANGED <<plugin, log_insert, insert_table, spoiled, dates, trees,
                   rule_details, env_rows, received>>

(* The entry stays on the list, before those that were never tried.        *)
InsertRowFails ==
    /\ pc = "values" /\ GivesUp
    /\ \/ RowFits /\ Unanswered /\ RowReaches
       \/ Refused("insert_log") /\ UNCHANGED log_rows
       \/ ~RowFits /\ Answered /\ UNCHANGED log_rows
    /\ UNCHANGED <<plugin, list, dates, trees, rule_details, env_rows, received>>

BlockDone ==
    /\ pc = "entry" /\ log_list = <<>> /\ Returns
    /\ UNCHANGED <<plugin, con, list, dates, trees, shutdown, database, received>>

PostgresqlDataEnd == NextEntry \/ InsertRow \/ InsertRowFails \/ BlockDone

-----------------------------------------------------------------------------
(* The plug-in of another job records a rule.                              *)
OtherJob ==
    \E t \in Others :
        /\ ~Recorded(Column(t))
        /\ rule_details' = Append(rule_details, Column(t))
        /\ UNCHANGED <<plugin, phase, pc, con, list, dates, trees, shutdown,
                       log_rows, env_rows, received>>

Ended == phase \in {"gone", "crashed"} /\ UNCHANGED vars

Mysql ==
    /\ plugin = "mysql"
    /\ MysqlStartup \/ EnvKnown \/ EnvNew \/ EnvNoMemory
          \/ MysqlSetRuleId \/ MysqlInsertRuleDetails \/ MysqlDataEnd

Rtm ==
    /\ plugin = "rtm"
    /\ RtmStartup \/ RtmSetRuleId \/ RtmInsertRuleParameters \/ RtmDataEnd

Postgresql ==
    /\ plugin = "postgresql"
    /\ PostgresqlStartup \/ PostgresqlSetRuleId \/ PostgresqlInsertRuleDetails
          \/ PostgresqlDataEnd

Next ==
    \/ ReceivedLog \/ ReceivedDataEnd \/ ReceivedShutdown \/ Exit
    \/ Mysql \/ Rtm \/ Postgresql
    \/ OtherJob \/ Ended

Spec == Init /\ [][Next]_vars

-----------------------------------------------------------------------------
(* Properties.                                                             *)
Row == [entry : Entry, rule_id : Nat]
Table == Nat \cup {NoTable}

(* Every variable keeps to its type; a statement being built names a table *)
(* if the plug-in has tables.                                              *)
TypeOK ==
    /\ plugin \in Plugins
    /\ phase \in {"starting", "running", "told", "exit", "gone", "crashed"}
    /\ pc \in {"idle", "entry", "env", "rule", "insert_rule", "values", "append"}
    /\ con \in {"none", "up", "lost"}
    /\ log_list \in Seq(Entry) /\ log_insert \in Seq(Row)
    /\ insert_table \in Table /\ table_name \in Table
    /\ (plugin = "mysql" /\ log_insert # <<>>) => insert_table \in Nat
    /\ last_log_date \in Dates \cup {NoDate} /\ date_changed \in BOOLEAN
    /\ DOMAIN rule_root \subseteq Rules
    /\ \A r \in DOMAIN rule_root : rule_root[r] \in Nat
    /\ table_root \subseteq Nat \X Dates
    /\ rule_id \in Nat /\ misread \subseteq Rules /\ shutdown \in BOOLEAN /\ spoiled \in BOOLEAN
    /\ log_rows \in Seq([row : Row, table : Table])
    /\ received \in Seq(Entry)

EntriesOf(rows) == [i \in DOMAIN rows |-> rows[i].entry]
Stored == EntriesOf([i \in DOMAIN log_rows |-> log_rows[i].row])

(* What the plug-in still has: a statement that was freed holds nothing.   *)
Kept == (IF spoiled THEN <<>> ELSE EntriesOf(log_insert)) \o log_list

(* Whatever fails, an entry is in one place only and in its turn: in the   *)
(* database, in the statement or on the list.  A retry neither repeats nor *)
(* skips one.  An entry is in two places only when the connection went     *)
(* down with the answer, and nothing can repeat it then; it is in none     *)
(* only when the statement was freed.                                      *)
NothingLost ==
    /\ IsPrefix(Stored, received) /\ IsSuffix(Kept, received)
    /\ con = "lost" \/ Len(Stored) + Len(Kept) <= Len(received)
    /\ spoiled \/ Len(Stored) + Len(Kept) >= Len(received)

(* Until mistral_exit tries again a row refers to the record that reads as *)
(* the columns keep its rule, whoever recorded it and whether the id came  *)
(* from the tree, the database or an insertion.  (Names that are the same  *)
(* when cut share a record.)  The attempt mistral_exit makes asks for the  *)
(* rules it meets first by freed text, and such rows may refer to any      *)
(* record.  After a query has failed a row may refer to none at all, as a  *)
(* look-up that failed leaves id 0 in the tree, where that attempt finds   *)
(* it: the foreign keys of PostgreSQL and RTM keep such a row out of the   *)
(* database, MySQL takes it.                                               *)
RuleIdsMatch ==
    /\ \A row \in {log_rows[i].row : i \in DOMAIN log_rows} \cup ToSet(log_insert) :
        \/ /\ row.rule_id \in DOMAIN rule_details
           /\ \/ rule_details[row.rule_id] = Column(row.entry.rule)
              \/ row.entry.rule \in misread
        \/ row.rule_id = 0 /\ shutdown
    /\ misread # {} => phase \in {"exit", "gone", "crashed"}
    /\ plugin # "mysql" => \A i \in DOMAIN log_rows : log_rows[i].row.rule_id # 0

(* The comment of mistral_received_data_end of MySQL: a statement names    *)
(* one table, and what it holds is sent when the date changes, since that  *)
(* changes the table.                                                      *)
DatesNotMixed ==
    plugin = "mysql" =>
        \A i, j \in DOMAIN log_insert :
            log_insert[i].entry.date = log_insert[j].entry.date

(* So it is until something fails.                                         *)
DatesNotMixedBefore == shutdown \/ DatesNotMixed

(* Until something fails the environment is stored before the first row    *)
(* (MySQL: in a table, for a date, before the first row of that date), and *)
(* never twice.                                                            *)
EnvStoredOnce ==
    (HasVars /\ ~shutdown) =>
        /\ IsInjective(env_rows)
        /\ plugin = "mysql" =>
              \A i \in DOMAIN log_rows :
                 <<log_rows[i].table, log_rows[i].row.entry.date>> \in ToSet(env_rows)
        /\ plugin = "postgresql" => (phase = "running" => Len(env_rows) = 1)

(* What the plug-ins promise: OutputPlugin, for the entries by number.  A  *)
(* crash is preceded by a message in the error log.                        *)
Ids(entries) == [i \in DOMAIN entries |-> entries[i].id]

(* When the connection went down with the answer the first entries the     *)
(* plug-in still has are in the database already.                          *)
Pending ==
    LET known == Len(Stored) + Len(Kept) - Len(received)
    IN  IF phase \in {"gone", "crashed"} THEN <<>>
        ELSE Ids(SubSeq(Kept, 1 + (IF known > 0 THEN known ELSE 0), Len(Kept)))

Output == INSTANCE OutputPlugin WITH
    Entries <- 1 .. MaxEntries,
    pending <- Pending,
    stored  <- Ids(Stored),
    lost    <- ToSet(Ids(received)) \ (ToSet(Ids(Stored)) \cup ToSet(Pending)),
    told    <- shutdown \/ phase = "crashed"

ImplementsOutput == Output!Spec
=============================================================================
