-------------------------- MODULE DateTableProofs --------------------------
(***************************************************************************)
(* Theorems about the daily tables, for any number of tables above two and *)
(* any number of days.  They all rest on one count: N tables of different  *)
(* dates, none after tomorrow, none of the date a table is wanted for.     *)
(* The oldest is then older than N - 2 days.                               *)
(***************************************************************************)
EXTENDS DateTableMap, FiniteSetTheorems, TLAPS

Types ==
    /\ TypeOK
    /\ plugin \in [date : {NoDay} \cup (-N .. LastDay), table : 0 .. N]
    /\ eod_day \in {NoDay} \cup (0 .. LastDay)

(* end_of_day is done with before the day is; no table is ahead of it.     *)
Calendar ==
    /\ eod # "idle" => date_today = today
    /\ \A t \in Tables : table_date[t] <= today + 1
    /\ eod_day \in {NoDay, today - 1, today}

(* The tables that are promised: for the days before, and for those that   *)
(* end_of_day has seen to.                                                 *)
Promised ==
    /\ \A d \in Recent .. (today - 1) : Exists(d)
    /\ eod_day = today - 1 => Exists(today)
    /\ eod_day = today => Exists(today) /\ Exists(today + 1)
    /\ eod \in {"tomorrow", "tomorrow_map"} => Exists(today)

(* The table between TRUNCATE and UPDATE.                                  *)
Recycling ==
    eod \in {"today_map", "tomorrow_map"} =>
        ~Exists(ToCheck) /\ table_date[oldest_table] < Recent

TableInv == Types /\ Calendar /\ Promised /\ Recycling /\ OneTablePerDate

-----------------------------------------------------------------------------
LEMMA Numbers ==
    /\ N \in Nat /\ N > 2 /\ LastDay \in Nat /\ NoDay \in Int /\ NoDay < -1
    /\ Tables = 1 .. N
BY TablesAssumption DEF NoDay, Tables

LEMMA Dates ==
    ASSUME Types
    PROVE  /\ today \in Nat /\ date_today \in Nat /\ Recent \in Int
           /\ Recent < today
           /\ \A t \in Tables : table_date[t] \in Int /\ table_date[t] >= -N
           /\ table_date \in [Tables -> Int]
BY Numbers DEF Types, TypeOK, Recent

(* There is an oldest table.                                               *)
LEMMA OldestExists ==
    ASSUME Types
    PROVE  /\ Oldest \in Tables
           /\ \A u \in Tables : table_date[Oldest] <= table_date[u]
<1> DEFINE Ages == {table_date[t] + N : t \in Tables}
<1>1. Ages \subseteq Nat /\ Ages # {}
  BY Dates, Numbers
<1>2. PICK a \in Ages : \A b \in Ages : <<b, a>> \notin OpToRel(<, Nat)
  <2> HIDE DEF Ages
  <2> QED BY <1>1, WFMin, NatLessThanWellFounded, Zenon
<1>3. \A b \in Ages : ~(b < a)
  <2> SUFFICES ASSUME NEW b \in Ages, b < a PROVE FALSE
    OBVIOUS
  <2>1. <<b, a>> \in Nat \X Nat
    BY <1>1
  <2>2. <<b, a>>[1] < <<b, a>>[2]
    OBVIOUS
  <2>3. <<b, a>> \in OpToRel(<, Nat)
    BY <2>1, <2>2, Zenon DEF OpToRel
  <2> QED BY <1>2, <2>3, Zenon
<1>4. PICK t \in Tables : a = table_date[t] + N
  OBVIOUS
<1>5. \A u \in Tables : table_date[t] <= table_date[u]
  <2> SUFFICES ASSUME NEW u \in Tables PROVE table_date[t] <= table_date[u]
    OBVIOUS
  <2>1. table_date[u] + N \in Ages
    OBVIOUS
  <2>2. ~(table_date[u] + N < table_date[t] + N)
    BY <1>3, <1>4, <2>1
  <2>3. table_date[t] \in Int /\ table_date[u] \in Int /\ N \in Int
    BY Dates, Numbers
  <2> HIDE DEF Ages
  <2> QED BY <2>2, <2>3
<1> QED
  BY <1>4, <1>5, Zenon DEF Oldest

(* The count: what end_of_day recycles is older than N - 2 days.           *)
LEMMA OldestIsOld ==
    ASSUME Types, Calendar, OneTablePerDate,
           NEW d \in today .. (today + 1), ~Exists(d)
    PROVE  table_date[Oldest] < Recent
<1> DEFINE m == table_date[Oldest]
           Room == (m .. (today + 1)) \ {d}
<1>1. m \in Int /\ m <= today + 1 /\ today \in Nat /\ d \in Int
  BY OldestExists, Dates DEF Calendar
<1>2. table_date \in Injection(Tables, Room)
  <2>1. \A t \in Tables : table_date[t] \in Room
    BY <1>1, OldestExists, Dates DEF Calendar, Exists
  <2>2. table_date \in [Tables -> Room]
    BY <2>1, Dates
  <2> HIDE DEF Room
  <2> QED BY <2>2, Zenon DEF Injection, IsInjective, OneTablePerDate
<1>3. IsFiniteSet(Room) /\ Cardinality(Tables) <= Cardinality(Room)
  <2>1. IsFiniteSet(m .. (today + 1))
    BY <1>1, FS_Interval
  <2>2. IsFiniteSet(Room)
    BY <2>1, FS_RemoveElement
  <2> HIDE DEF Room
  <2> QED BY <1>2, <2>2, FS_Injection
<1>4. Cardinality(Tables) = N
  BY Numbers, FS_Interval
<1>5. m <= d
  <2>1. CASE today < m
    <3>1. 1 \in Tables /\ 2 \in Tables
      BY Numbers
    <3>2. table_date[1] = today + 1 /\ table_date[2] = today + 1
      BY <1>1, <2>1, <3>1, OldestExists, Dates DEF Calendar
    <3> QED BY <3>1, <3>2 DEF OneTablePerDate
  <2> QED BY <1>1, <2>1
<1>6. Cardinality(Room) = today + 1 - m
  <2>1. /\ IsFiniteSet(m .. (today + 1))
        /\ Cardinality(m .. (today + 1)) = (today + 1) - m + 1
    BY <1>1, FS_Interval
  <2>2. d \in m .. (today + 1)
    BY <1>1, <1>5
  <2>3. Cardinality(Room) = Cardinality(m .. (today + 1)) - 1
    BY <2>1, <2>2, FS_RemoveElement
  <2> QED BY <1>1, <2>1, <2>3
<1>7. N <= today + 1 - m
  BY <1>3, <1>4, <1>6
<1> QED
  BY <1>1, <1>7, Numbers DEF Recent

-----------------------------------------------------------------------------
(* The steps.                                                              *)
LEMMA Eod ==
    ASSUME TableInv, eod # "idle"
    PROVE  /\ date_today = today
           /\ eod \in {"today", "today_map"} => ToCheck = today
           /\ eod \in {"tomorrow", "tomorrow_map"} => ToCheck = today + 1
           /\ ToCheck \in today .. (today + 1) /\ ToCheck \in -N .. (LastDay + 1)
<1>1. date_today = today /\ today \in 0 .. LastDay
  BY DEF TableInv, Types, TypeOK, Calendar
<1>2. eod \in {"today", "today_map", "tomorrow", "tomorrow_map"}
  BY DEF TableInv, Types, TypeOK
<1>3. ToCheck = today \/ ToCheck = today + 1
  BY <1>1 DEF ToCheck
<1> QED
  BY <1>1, <1>2, <1>3, Numbers DEF ToCheck

LEMMA EndOfDayStep == ASSUME TableInv, EndOfDay PROVE TableInv'
<1>1. \E t \in Tables : table_date[t] < today
  <2>1. SUFFICES ASSUME \A t \in Tables : ~(table_date[t] < today) PROVE FALSE
    OBVIOUS
  <2>2. 1 \in Tables /\ 2 \in Tables /\ 3 \in Tables
    BY Numbers
  <2>3. \A t \in Tables : table_date[t] = today \/ table_date[t] = today + 1
    BY <2>1, Dates DEF TableInv, Calendar
  <2> QED BY <2>2, <2>3 DEF TableInv, OneTablePerDate
<1>2. /\ eod' = "today" /\ date_today' = today
      /\ UNCHANGED <<today, plugin, table_date, log, oldest_table, eod_day>>
  BY <1>1 DEF EndOfDay, OnlyEod
<1> QED
  BY <1>2 DEF TableInv, Types, TypeOK, Calendar, Promised, Recycling, OneTablePerDate,
     Exists, Recent

LEMMA CheckFoundStep == ASSUME TableInv, CheckFound PROVE TableInv'
<1>1. /\ eod \in {"today", "tomorrow"} /\ Exists(ToCheck) /\ AfterCheck
      /\ UNCHANGED <<today, plugin, table_date, log, oldest_table, date_today>>
  BY DEF CheckFound, OnlyEod
<1>2. Types' /\ Calendar' /\ Recycling'
  BY <1>1, Eod DEF AfterCheck, TableInv, Types, TypeOK, Calendar, Recycling
<1>3. Promised'
  BY <1>1, Eod, Dates DEF AfterCheck, TableInv, Promised, Exists, Recent
<1> QED
  BY <1>1, <1>2, <1>3 DEF TableInv, OneTablePerDate

(* Only a table older than N - 2 days is truncated.                        *)
LEMMA TruncatesOld ==
    ASSUME TableInv, Truncate
    PROVE  /\ Oldest \in Tables /\ table_date[Oldest] < Recent
           /\ \A t \in Tables : t # Oldest => log'[t] = log[t]
BY OldestExists, OldestIsOld, Eod DEF Truncate, TableInv, Types, TypeOK

LEMMA TruncateStep == ASSUME TableInv, Truncate PROVE TableInv'
<1>1. /\ eod \in {"today", "tomorrow"} /\ ~Exists(ToCheck)
      /\ oldest_table' = Oldest /\ log' = [log EXCEPT ![Oldest] = {}]
      /\ eod' = IF eod = "today" THEN "today_map" ELSE "tomorrow_map"
      /\ UNCHANGED <<today, plugin, table_date, date_today, eod_day>>
  BY DEF Truncate, OnlyEod
<1>2. ToCheck' = ToCheck
  BY <1>1, Eod DEF TableInv, Types, TypeOK, ToCheck
<1>3. log' \in [Tables -> SUBSET (-N .. LastDay)]
  BY <1>1, TruncatesOld DEF TableInv, Types, TypeOK
<1>4. Types' /\ Calendar' /\ Promised' /\ OneTablePerDate'
  BY <1>1, <1>3, TruncatesOld DEF TableInv, Types, TypeOK, Calendar, Promised,
     OneTablePerDate, Exists, Recent
<1>5. Recycling'
  BY <1>1, <1>2, TruncatesOld DEF TableInv, Recycling, Exists, Recent
<1> QED
  BY <1>4, <1>5 DEF TableInv

LEMMA UpdateMapStep == ASSUME TableInv, UpdateMap PROVE TableInv'
<1> DEFINE o == oldest_table
           There(d) == \E t \in Tables : table_date'[t] = d
<1>1. /\ eod \in {"today_map", "tomorrow_map"} /\ AfterCheck
      /\ table_date' = [table_date EXCEPT ![o] = ToCheck]
      /\ UNCHANGED <<today, plugin, log, date_today, oldest_table>>
  BY DEF UpdateMap, OnlyEod
<1>2. /\ o \in Tables /\ ~Exists(ToCheck) /\ table_date[o] < Recent
      /\ table_date \in [Tables -> -N .. (LastDay + 1)]
  BY <1>1 DEF TableInv, Types, TypeOK, Recycling
<1>3. /\ table_date' \in [Tables -> -N .. (LastDay + 1)]
      /\ table_date'[o] = ToCheck
      /\ \A t \in Tables : t # o => table_date'[t] = table_date[t]
  BY <1>1, <1>2, Eod
<1>4. /\ ToCheck \in Int /\ ToCheck <= today + 1 /\ today <= ToCheck /\ today \in Nat
      /\ Recent \in Int /\ Recent < today /\ eod' \in {"tomorrow", "idle"}
  BY <1>1, Eod, Dates DEF AfterCheck, TableInv
<1>5. Types' /\ Calendar' /\ Recycling'
  BY <1>1, <1>2, <1>3, <1>4, Eod DEF AfterCheck, TableInv, Types, TypeOK, Calendar,
     Recycling
<1>6. /\ There(ToCheck)
      /\ \A d \in Int : d >= Recent /\ Exists(d) => There(d)
  BY <1>2, <1>3, <1>4 DEF Exists
<1>7. /\ Exists(today)' = There(today) /\ Exists(today + 1)' = There(today + 1)
      /\ Recent' = Recent /\ \A d \in Int : Exists(d)' = There(d)
  BY <1>1 DEF Exists, Recent
<1>8. (\A d \in Recent .. (today - 1) : Exists(d))'
  <2> SUFFICES ASSUME NEW d \in Recent .. (today - 1) PROVE There(d)
    BY <1>1, <1>7 DEF Exists
  <2>1. d \in Int /\ d >= Recent /\ Exists(d)
    BY <1>4 DEF TableInv, Promised
  <2> HIDE DEF There
  <2> QED BY <1>6, <2>1
<1>9. Promised'
  <2> HIDE DEF There, o
  <2>1. CASE eod = "today_map"
    <3>1. eod' = "tomorrow" /\ eod_day' = eod_day /\ ToCheck = today
      BY <1>1, <2>1, Eod DEF AfterCheck
    <3> QED BY <1>1, <1>4, <1>6, <1>7, <1>8, <3>1 DEF TableInv, Promised
  <2>2. CASE eod = "tomorrow_map"
    <3>1. eod' = "idle" /\ eod_day' = today /\ ToCheck = today + 1
      BY <1>1, <2>2, Eod DEF AfterCheck
    <3> QED BY <1>1, <1>4, <1>6, <1>7, <1>8, <2>2, <3>1 DEF TableInv, Promised
  <2> QED BY <1>1, <2>1, <2>2
<1>10. OneTablePerDate'
  BY <1>2, <1>3 DEF TableInv, OneTablePerDate, Exists
<1> QED
  BY <1>5, <1>9, <1>10 DEF TableInv

LEMMA EndOfDayStopsStep == ASSUME TableInv, EndOfDayStops PROVE TableInv'
<1>1. /\ eod' = "idle"
      /\ UNCHANGED <<today, plugin, table_date, log, date_today, oldest_table, eod_day>>
  BY DEF EndOfDayStops, OnlyEod
<1> QED
  BY <1>1 DEF TableInv, Types, TypeOK, Calendar, Promised, Recycling, OneTablePerDate,
     Exists, Recent

LEMMA PluginStep ==
    ASSUME TableInv, LookUp \/ Insert
    PROVE  TableInv' /\ \A t \in Tables : log[t] \subseteq log'[t]
<1>1. UNCHANGED <<today, table_date, eod, date_today, oldest_table, eod_day>>
  BY DEF LookUp, Insert, OnlyPlugin
<1>2. Calendar' /\ Promised' /\ Recycling' /\ OneTablePerDate'
  BY <1>1 DEF TableInv, Calendar, Promised, Recycling, OneTablePerDate, Exists, ToCheck,
     Recent
<1>3. CASE LookUp
  <2>1. PICK d \in Recent .. today : plugin' = [date |-> d, table |-> AsBool(Found(d))]
    BY <1>3 DEF LookUp
  <2>2. log' = log /\ AsBool(Found(d)) \in 0 .. N /\ d \in -N .. LastDay
    BY <1>3, Numbers DEF LookUp, AsBool, Recent, TableInv, Types, TypeOK
  <2>3. Types'
    BY <1>1, <2>1, <2>2 DEF TableInv, Types, TypeOK
  <2> QED BY <1>2, <2>2, <2>3 DEF TableInv
<1>4. CASE Insert
  <2>1. /\ plugin' = plugin /\ plugin.date \in -N .. LastDay
        /\ log' = [log EXCEPT ![plugin.table] = @ \cup {plugin.date}]
        /\ log \in [Tables -> SUBSET (-N .. LastDay)]
    BY <1>4 DEF Insert, TableInv, Types, TypeOK
  <2>2. /\ log' \in [Tables -> SUBSET (-N .. LastDay)]
        /\ \A t \in Tables : log[t] \subseteq log'[t]
    BY <2>1
  <2>3. Types'
    BY <1>1, <2>1, <2>2 DEF TableInv, Types, TypeOK
  <2> QED BY <1>2, <2>2, <2>3 DEF TableInv
<1> QED
  BY <1>3, <1>4

LEMMA MidnightStep == ASSUME TableInv, Midnight PROVE TableInv'
<1>1. /\ eod = "idle" /\ eod_day = today /\ today' = today + 1 /\ today < LastDay
      /\ UNCHANGED <<table_date, log, eod, date_today, oldest_table, eod_day, plugin>>
  BY DEF Midnight
<1>2. today \in 0 .. LastDay /\ today + 1 \in 0 .. LastDay /\ today \in Nat
  BY <1>1, Numbers DEF TableInv, Types, TypeOK
<1>3. Types'
  BY <1>1, <1>2 DEF TableInv, Types, TypeOK
<1>4. Calendar'
  BY <1>1, <1>2, Dates DEF TableInv, Calendar
<1>5. Promised'
  <2>1. Exists(today) /\ Exists(today + 1)
    BY <1>1 DEF TableInv, Promised
  <2>2. \A d \in Recent' .. today : d \in Recent .. (today - 1) \/ d = today
    BY <1>1, <1>2, Numbers DEF Recent
  <2> QED BY <1>1, <1>2, <2>1, <2>2 DEF TableInv, Promised, Exists
<1>6. Recycling'
  BY <1>1 DEF Recycling
<1> QED
  BY <1>1, <1>3, <1>4, <1>5, <1>6 DEF TableInv, OneTablePerDate

LEMMA InitTables == Init => TableInv
<1> SUFFICES ASSUME Init PROVE TableInv
  OBVIOUS
<1>1. Types
  BY Numbers DEF Init, Types, TypeOK
<1>2. ASSUME NEW d \in Recent .. (today - 1) PROVE Exists(d)
  <2>1. d + N + 1 \in Tables /\ table_date[d + N + 1] = d
    BY Numbers DEF Init, Recent
  <2> QED BY <2>1 DEF Exists
<1> QED
  BY <1>1, <1>2, Numbers DEF Init, TableInv, Calendar, Promised, Recycling,
     OneTablePerDate

(* The inductive invariant.                                                *)
THEOREM TablesInvariant == Spec => []TableInv
<1>1. TableInv /\ [Next]_vars => TableInv'
  <2> SUFFICES ASSUME TableInv, [Next]_vars PROVE TableInv'
    OBVIOUS
  <2>1. CASE Next
    BY <2>1, EndOfDayStep, CheckFoundStep, TruncateStep, UpdateMapStep,
       EndOfDayStopsStep, PluginStep, MidnightStep DEF Next
  <2>2. CASE UNCHANGED vars
    BY <2>2 DEF vars, TableInv, Types, TypeOK, Calendar, Promised, Recycling,
       OneTablePerDate, Exists, ToCheck, Recent
  <2> QED BY <2>1, <2>2
<1> QED
  BY InitTables, <1>1, PTL DEF Spec

(* The variables of end_of_day and of the plug-in keep their types.        *)
THEOREM TypesAreKept == Spec => []TypeOK
<1>1. TableInv => TypeOK
  BY DEF TableInv, Types
<1> QED
  BY <1>1, TablesInvariant, PTL

(* The unique keys of date_table_map hold, however end_of_day's two        *)
(* statements interleave with midnight and the plug-ins, and wherever it   *)
(* dies between them.                                                      *)
THEOREM DatesAreUnique == Spec => []OneTablePerDate
<1>1. TableInv => OneTablePerDate
  BY DEF TableInv
<1> QED
  BY <1>1, TablesInvariant, PTL

(* There is a table for every date from N - 2 days back to today, from     *)
(* midnight on, before that day's end_of_day has been run.                 *)
THEOREM RecentDatesAreServed == Spec => []RecentDatesHaveTables
<1>1. TableInv => RecentDatesHaveTables
  <2> SUFFICES ASSUME TableInv, eod_day # NoDay, NEW d \in Recent .. today
               PROVE  Exists(d)
    BY DEF RecentDatesHaveTables
  <2>1. Exists(today)
    BY DEF TableInv, Calendar, Promised
  <2>2. d \in Recent .. (today - 1) \/ d = today
    BY Dates DEF TableInv
  <2> QED BY <2>1, <2>2 DEF TableInv, Promised
<1> QED
  BY <1>1, TablesInvariant, PTL

(* Only a table whose date is older than that is emptied or given another. *)
THEOREM OnlyOldAreRecycled == Spec => OnlyOldTablesRecycled
<1> DEFINE Recycled(t) == table_date'[t] # table_date[t] \/ ~(log[t] \subseteq log'[t])
<1>1. TableInv /\ [Next]_vars => [\A t \in Tables : Recycled(t) => table_date[t] < Recent]_vars
  <2> SUFFICES ASSUME TableInv, Next, NEW t \in Tables, Recycled(t)
               PROVE  table_date[t] < Recent
    OBVIOUS
  <2>1. CASE Truncate
    <3>1. table_date' = table_date /\ t = Oldest
      BY <2>1, TruncatesOld DEF Truncate, OnlyEod
    <3> QED BY <2>1, <3>1, TruncatesOld
  <2>2. CASE UpdateMap
    <3>1. /\ log' = log /\ table_date' = [table_date EXCEPT ![oldest_table] = ToCheck]
          /\ eod \in {"today_map", "tomorrow_map"} /\ table_date \in [Tables -> Int]
      BY <2>2, Dates DEF UpdateMap, OnlyEod, TableInv
    <3>2. t = oldest_table
      BY <3>1
    <3> QED BY <3>1, <3>2 DEF TableInv, Recycling
  <2>3. CASE LookUp \/ Insert
    BY <2>3, PluginStep DEF LookUp, Insert, OnlyPlugin
  <2>4. CASE EndOfDay \/ CheckFound \/ EndOfDayStops \/ Midnight
    BY <2>4 DEF EndOfDay, CheckFound, EndOfDayStops, Midnight
  <2> QED BY <2>1, <2>2, <2>3, <2>4 DEF Next
<1> QED
  BY <1>1, TablesInvariant, PTL DEF Spec, OnlyOldTablesRecycled
=============================================================================
