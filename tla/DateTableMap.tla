---------------------------- MODULE DateTableMap ----------------------------
(***************************************************************************)
(* The daily tables of the MySQL schema,                                   *)
(* output/mistral_mysql/sql/create_mistral.sql: date_table_map gives each  *)
(* of N log tables a date, and the procedure end_of_day(), run by cron     *)
(* once a day, recycles the oldest tables for today and tomorrow.  It does *)
(* so statement by statement (TRUNCATE commits) and may die in between,    *)
(* while plug-ins look tables up by the date of an entry and insert rows   *)
(* through the number they keep while that date stays the same.  The       *)
(* number is not what they found: get_table_number() returns it as a bool. *)
(* Days are numbered.                                                      *)
(***************************************************************************)
EXTENDS Integers, FiniteSets

CONSTANTS
    N,          \* number of tables, 32 in the schema
    LastDay     \* bound on the days of a behaviour

ASSUME TablesAssumption == N \in Nat /\ N > 2 /\ LastDay \in Nat

Tables == 1 .. N
NoDay == -N - 1

VARIABLES
    today,          \* CURRENT_DATE()
    table_date,     \* date_table_map: the date of each table
    log,            \* the dates of the rows in each log table
    eod,            \* where end_of_day is
    date_today,     \* its variable, the date it started on
    oldest_table,   \* the table check_exist is recycling
    eod_day,        \* the last day end_of_day was completed on
    plugin          \* a plug-in's last_log_date and table_name

vars == <<today, table_date, log, eod, date_today, oldest_table, eod_day, plugin>>

(* populate_date_table_map: the N days before today; then the script       *)
(* itself calls end_of_day.                                                *)
Init ==
    /\ today = 0
    /\ table_date = [t \in Tables |-> t - N - 1]
    /\ log = [t \in Tables |-> {}]
    /\ eod = "today" /\ date_today = 0 /\ oldest_table = 1
    /\ eod_day = NoDay
    /\ plugin = [date |-> NoDay, table |-> 0]

Exists(d) == \E t \in Tables : table_date[t] = d

Oldest == CHOOSE t \in Tables : \A u \in Tables : table_date[t] <= table_date[u]

-----------------------------------------------------------------------------
(* end_of_day().                                                           *)
OnlyEod == UNCHANGED <<today, plugin>>

(* Started by cron.  The procedures do nothing unless a table is older     *)
(* than today.                                                             *)
EndOfDay ==
    /\ eod = "idle"
    /\ date_today' = today
    /\ IF \E t \in Tables : table_date[t] < today
       THEN eod' = "today" /\ UNCHANGED eod_day
       ELSE eod_day' = today /\ UNCHANGED eod
    /\ OnlyEod /\ UNCHANGED <<table_date, log, oldest_table>>

(* Wrong: tomorrow is a day too late.                                      *)
ToCheckLate == IF eod \in {"today", "today_map"} THEN date_today ELSE date_today + 2

(* The date check_exist is called for, and what follows its return.        *)
ToCheck == IF eod \in {"today", "today_map"} THEN date_today ELSE date_today + 1

(* Wrong: only today's table is looked after.                              *)
AfterCheckToday == eod' = "idle" /\ eod_day' = date_today

AfterCheck ==
    IF eod \in {"today", "today_map"}
    THEN eod' = "tomorrow" /\ UNCHANGED eod_day
    ELSE eod' = "idle" /\ eod_day' = date_today

CheckFound ==
    /\ eod \in {"today", "tomorrow"} /\ Exists(ToCheck)
    /\ AfterCheck
    /\ OnlyEod /\ UNCHANGED <<table_date, log, date_today, oldest_table>>

(* Wrong: the table with the highest date is recycled.                     *)
TruncateNewest ==
    /\ eod \in {"today", "tomorrow"} /\ ~Exists(ToCheck)
    /\ oldest_table' = CHOOSE t \in Tables :
                          \A u \in Tables : table_date[u] <= table_date[t]
    /\ log' = [log EXCEPT ![oldest_table'] = {}]
    /\ eod' = IF eod = "today" THEN "today_map" ELSE "tomorrow_map"
    /\ OnlyEod /\ UNCHANGED <<table_date, date_today, eod_day>>

(* Wrong: a table that exists is not noticed.                              *)
TruncateAlways ==
    /\ eod \in {"today", "tomorrow"}
    /\ oldest_table' = Oldest
    /\ log' = [log EXCEPT ![Oldest] = {}]
    /\ eod' = IF eod = "today" THEN "today_map" ELSE "tomorrow_map"
    /\ OnlyEod /\ UNCHANGED <<table_date, date_today, eod_day>>

(* The oldest table is truncated, at once and for good.                    *)
Truncate ==
    /\ eod \in {"today", "tomorrow"} /\ ~Exists(ToCheck)
    /\ oldest_table' = Oldest
    /\ log' = [log EXCEPT ![Oldest] = {}]
    /\ eod' = IF eod = "today" THEN "today_map" ELSE "tomorrow_map"
    /\ OnlyEod /\ UNCHANGED <<table_date, date_today, eod_day>>

(* Then it is given its new date.                                          *)
UpdateMap ==
    /\ eod \in {"today_map", "tomorrow_map"}
    /\ table_date' = [table_date EXCEPT ![oldest_table] = ToCheck]
    /\ AfterCheck
    /\ OnlyEod /\ UNCHANGED <<log, date_today, oldest_table>>

(* It dies between two statements: today is not seen to.                   *)
EndOfDayStops ==
    /\ eod # "idle" /\ eod' = "idle"
    /\ OnlyEod /\ UNCHANGED <<table_date, log, date_today, oldest_table, eod_day>>

-----------------------------------------------------------------------------
(* Plug-ins and the calendar.                                              *)
OnlyPlugin == UNCHANGED <<today, table_date, eod, date_today, oldest_table, eod_day>>

(* The first date of which no table may be recycled.                       *)
Recent == today - (N - 2)

(* get_table_number is declared bool: -1, when there is no table, and the  *)
(* number found alike are converted to 1.                                  *)
AsBool(n) == IF n = 0 THEN 0 ELSE 1

Found(d) == IF Exists(d) THEN CHOOSE t \in Tables : table_date[t] = d ELSE -1

(* For an entry of a new date, an old one when saved data is processed.    *)
LookUp ==
    /\ \E d \in Recent .. today : plugin' = [date |-> d, table |-> AsBool(Found(d))]
    /\ OnlyPlugin /\ UNCHANGED log

(* A row of the date looked up, whatever day it is by then.                *)
Insert ==
    /\ plugin.date # NoDay
    /\ log' = [log EXCEPT ![plugin.table] = @ \cup {plugin.date}]
    /\ OnlyPlugin /\ UNCHANGED plugin

(* end_of_day has been completed at some time of the day, by cron or again *)
(* by hand.                                                                *)
Midnight ==
    /\ eod = "idle" /\ eod_day = today /\ today < LastDay
    /\ today' = today + 1
    /\ UNCHANGED <<table_date, log, eod, date_today, oldest_table, eod_day, plugin>>

Next ==
    \/ EndOfDay \/ CheckFound \/ Truncate \/ UpdateMap \/ EndOfDayStops
    \/ LookUp \/ Insert \/ Midnight

Spec == Init /\ [][Next]_vars

-----------------------------------------------------------------------------
(* Properties.                                                             *)
TypeOK ==
    /\ today \in 0 .. LastDay /\ date_today \in 0 .. LastDay
    /\ table_date \in [Tables -> -N .. (LastDay + 1)]
    /\ log \in [Tables -> SUBSET (-N .. LastDay)]
    /\ eod \in {"idle", "today", "today_map", "tomorrow", "tomorrow_map"}
    /\ oldest_table \in Tables /\ plugin.table \in 0 .. N

(* The comment of mistral_received_data_end: once the schema is set up     *)
(* there is a table for every date from N - 2 days back (30) to today,     *)
(* from midnight on, before that day's end_of_day has been run, and while  *)
(* it runs or when it has died half-way.                                   *)
RecentDatesHaveTables == eod_day # NoDay => \A d \in Recent .. today : Exists(d)

(* The unique keys of date_table_map hold: UPDATE never gives two tables   *)
(* one date, even after an end_of_day that died.                           *)
OneTablePerDate ==
    \A t, u \in Tables : table_date[t] = table_date[u] => t = u

(* A table is emptied, or given another date, only when its date is older  *)
(* than those N - 2 days.                                                  *)
OnlyOldTablesRecycled ==
    [][\A t \in Tables :
          (table_date'[t] # table_date[t] \/ ~(log[t] \subseteq log'[t]))
              => table_date[t] < Recent]_vars
=============================================================================
