# Verification of the Mistral plug-ins

TLA+ models of the plug-in framework and of the plug-ins built on it, the
model-checking runs over them, and machine-checked proofs about every part that is
modelled. Every definition is translated from the C and SQL sources under `src/`;
`PROJECT.json` gives, for each, the lines it stands for.

## The system

Mistral monitors the I/O of a job and writes what breaks its rules, as lines of
text, to a *plug-in*: a process it starts and talks to through stdin and stdout.
Every plug-in is one executable, made of the framework (`common/plugin_control.c`,
which holds `main`) and of the functions one output plug-in provides
(`mistral_startup`, `mistral_received_log`, `mistral_received_data_end`,
`mistral_received_shutdown`, `mistral_exit`, ...), which store the log entries
somewhere.

| Component | State | Operations | What makes it correct |
|---|---|---|---|
| Framework: communication thread (`main`, `read_data_from_mistral`, `parse_message`) | position in the protocol: `supported_version`, `in_data`, `data_count`, `shutdown_message`; `complete` | read a line, check it, answer the version, append a message | only messages in their place are accepted; a block number that is not flagged is right; `complete` is final |
| Framework: processing thread (`processing_thread`) | the message in hand, `ret`, `shutdown_seen` | take a message, call the plug-in, test the shutdown flag | messages are processed once, in order; nothing is called after a shutdown; it ends |
| Message list (`messages_head`, `messages_tail`, semaphore `message_list`) | linked cells | `insque`, `remque`, free | a FIFO; no freed cell is followed, none leaks |
| Log entry parsing (`parse_log_entry`) | the fields split off, the entry being filled, the tree of call-type names | split, unescape, convert, free on failure | an entry or a bad log, and no memory left or freed twice; sizes saturate at their limit |
| Error log (`mistral_err`) | the stream, the flag that it was opened | open on first use, write | messages go to one file |
| MySQL plug-in | list of entries, statement being built, trees of rules and of tables seen | look up a table, store the environment, get or create a rule, bulk insert, retry in `mistral_exit` | each entry is stored once, with its rule, in the table of its date (the last is not so: see below) |
| RTM plug-in | as MySQL, one table | parse the job ids, get or create a rule, bulk insert, retry | as MySQL; a foreign key ties a row to its rule |
| PostgreSQL plug-in | list, tree of rules, nine prepared statements | store the environment at start-up, get or create a rule, one row a query, retry | as MySQL; the entry whose row fails stays first on the list |
| MySQL daily tables (`create_mistral.sql`, `end_of_day`) | `date_table_map`, the log tables | recycle the oldest table for today and tomorrow | no two tables have one date; there is one for each recent date and for today; only older ones are recycled |
| Fluent Bit plug-in | shared socket and connection state, list of entries | a thread that connects, watches and connects again; send | an entry goes to Fluent Bit or is known to be lost |
| Elasticsearch, Splunk, InfluxDB plug-ins | list, curl handle | one POST for a block | an entry is stored at most once, in order, or the plug-in complains |
| Graphite plug-in | list, socket | one send for an entry | the same |
| Query and schema scripts, packaging, tests | none | | |

**How they interact.** Mistral and the framework exchange lines over pipes that
either side may close. The communication thread hands messages to the processing
thread through the list, and tells it through `complete` that there are no more. The
processing thread calls the plug-in's functions and hands each entry over for good.
A plug-in function (or a thread of the plug-in) may call `mistral_shutdown()`, which
sets a flag that both threads test, each at one point of its loop. `mistral_exit()`
is the plug-in's last function, called by `main` after the processing thread was
joined and the semaphores and the tree of call-type names were destroyed; most
plug-ins use it to try once more to send what is left.

**What is hard here.** The interleavings of the two threads around the list and the
flags; the end (five ways to reach it, and each must drain, announce and tear down
in order, which the code does not quite do: see `teardown` below); library calls
that fail in the middle; lines lost or corrupted; database queries that fail
half-way followed by a retry from `mistral_exit`; other jobs writing to the same
database; a date that changes in the middle of a statement; descriptors reused by
the operating system while another thread still has their number. `PROJECT.json`
lists each such hazard at the line where it bites and the properties that would
catch it.

## The modules

```
PluginControl ---- MCPluginControl (faults,                   MessageQueue
     |   \   \                     teardown)                       ^ implements
     |    \    PluginThread ---- MCSession (session)           MessageList (list)
     |     LossySession ---- MCLossySession (lossy)                |
     |            \                                           MessageListProofs
     PluginControlProofs <-- EnvironmentProofs

Subsequence <-- OutputPlugin                       DateTableMap (date_table)
  ^ implements    ^ implements                          |
BatchOutput     SqlOutput ---- MCSqlOutput         DateTableProofs
 (batch)          |        (sql, sql_race)
  |               |                                FluentbitOutput (fluentbit,
BatchProofs     SqlProofs                               |       fluentbit_fd)
                                                   FluentbitProofs
LogEntry (log_entry) <-- LogEntryProofs
```

Definitions keep the names of the source. A name introduced by `Wrong:` is a
plausible bug, used only to see that a property would notice it.

### PluginControl

One variable `cpc` is where `main()` is, `ppc` where `processing_thread()` is;
the other variables are those of the C code. A step is the code between two
points where the other thread can be seen or heard: the claim of the semaphore,
the work on the list, the post, a plug-in call, the test of a flag. So the test
of `shutdown` (`TestShutdown`) and the `getline` after it (`ReadLine`) are two
steps, as are `ProcessMessage` and `CheckShutdown`. `parse_message` up to the
claim of the list is one step, because it touches nothing shared but
`interval`, which it writes under a lock of its own.

A line of input is abstracted to what the checks of `parse_message` tell apart:
type, number, whether the number was well formed, whether the terminator is
there, the text. `2^64` is the constant `BlockModulus`, so that the arithmetic
on block numbers can wrap. The constant `Faults` says which library calls may
fail in a behaviour, and `"callback"` and `"thread"` whether plug-in functions,
and a thread of the plug-in's own, may call `mistral_shutdown()`. Variables under
"history" are read by no action.

The ends that are not in order are steps of their own. When `sem_post` fails the
thread tells Mistral (`LastWords`) and then calls `exit()`; between `PostFails` or
`IntervalPostFails` and `ProcessExits` the other thread goes on. `strdup` of a data
line is not checked: the copy may be `None` (`Copies`), and the process is gone when
the processing thread comes to it (`ProcessCrashes`).

`PluginThread` adds one such variable, `asked`: who asked for the shutdown, and
how far each thread was by then. With it `ShutdownHeeded` can bound what the
framework still does, which depends on the asker: a function's request is seen
when the function returns, a thread's only after the message that is being
processed, and neither by a `getline` that is already waiting.

### LossySession, MessageList, MessageQueue

`LossySession` puts Mistral's side of the protocol next to `PluginControl`: a
session with a version message, numbered blocks and a shutdown, any line of
which may be lost. Mistral is external; its side is what `parse_message`
expects of it.

`PluginControl` treats the list as a sequence. `MessageList` is what justifies
it: the cells, their pointers, `insque`/`remque` one store at a time, the
semaphore, freed memory and its reuse, and the two threads that use it. When
`sem_wait` fails (`CommGivesUp`) the message at hand is neither listed nor freed. Its run
checks the refinement mapping from the cells, as the two threads see them, to
the sequence of `MessageQueue`, whose enqueue and dequeue are atomic.

### SqlOutput, DateTableMap

`SqlOutput` is the three plug-ins that write to a database. What they share is
written once (the list, the tree of rules with an entry put in before its query and
taken out when the insertion fails, the statement of several rows), and each plug-in
is a disjunct of `Next` built from those parts and its own: the tables by date and
the environment of MySQL, the row a query and the start-up of PostgreSQL, the job
ids of RTM. `mistral_received_data_end` is one step for each query it makes, because
a query may be refused, or lose the connection before it is done or after, with the
answer; because memory may run out; and because other jobs record rules in between.
`date_changed` is reset on entry (it is local) while `last_log_date` and
`table_name` are not (they are static). The database is what the schema says: a rule
is its whole key, cut to the width of its column (`Cut`, any idempotent function of
the texts, so that two rules may be one in the database), and unique; RTM and
PostgreSQL tie rows to rules by a foreign key. When `mistral_exit` tries again, the
names of the call types are freed memory, so that a rule may be looked up and
recorded by any text (`Sent`, chosen anew for each query); `misread` is the history
of the rules this happened to. `spoiled` is a statement that was freed and that
`log_insert` still points to.

As the sources stand the database refuses every INSERT of MySQL and of RTM,
because of their column lists (see below). The constant `Taken` says
which plug-ins' INSERT is accepted; the run `sql` looks past the column lists and
supposes nothing else to be mended.

`DateTableMap` is the other half of MySQL's schema: the procedures `check_exist`
and `end_of_day` statement by statement, which may die between any two of them
(`EndOfDayStops`) and is run again until it has been completed once on the day, the
calendar, and a plug-in that looks up any date back to `N - 2` days, as the comment
at `mistral_mysql.c:1161` allows, and keeps what it found across midnight. What it
keeps is not the number of the table: `get_table_number` is declared `bool`, so that
every table, and the -1 for none, is 1 (`AsBool`, here and in `NewDate` of
`SqlOutput`), and all rows go to `log_01`.

### FluentbitOutput

The connection thread and the processing thread, step by step around their
mutex, over a model of the operating system's table of descriptors: the lowest
free number is given out, a closed one is free at once. `getaddrinfo`, the
sockets and the error log all draw from it. `socket()` may fail as well as `connect()`
(`SocketFails`). Epoll events carry the number of the first socket, also after a
reconnection (`watched`), and are ignored when it is not that of the present one. The
peer may close at any time; a process killed by SIGPIPE takes no further step (`At`).

### LogEntry

`parse_log_entry` as a sequence of steps, each with the memory it claims and the
label it jumps to when it fails, and the ladder of labels and `free` calls at the
end of the function; `mistral_destroy_log_entry` frees what was handed over. The
line is spelled out only while it is split (`CountLoop` is the first loop of
`line_split_and_unescape`, `CopyLoop` the second, each a function of the number of
characters left to read). Sizes are computed as the code does it, in doubles, scaled
down: `Width` for 64 bits, `Mantissa` for 53, `Thousand` for 1000. Call types are
the numbers below `CALL_TYPE_MAX`; `mask_root` is the tree of their names. That a
field is a valid date, host or number is left open: the step succeeds or fails.

### OutputPlugin, BatchOutput

`OutputPlugin` is what a plug-in promises for the entries it is handed: stored at
most once and in order, and lost only with a complaint. `BatchOutput` models the
four plug-ins that keep a list and send it when the block ends, with the structure
they share in actions and their differences in tables (`SetupOf`, `ErrorsOf`) or
in actions of their own (Graphite's socket). The mapping is `pending <- data \o
log_list`: what is formatted, then what is listed; when the process is over, what
was pending counts as lost, so that a plug-in that ends with a list it never
sent, and without a word, does not implement `OutputPlugin`. A request that failed may
have been served in part (`KeptAfter`). When memory runs out for one of the two ids
Graphite looks at, it crashes (`EscapeFails`); the other names would be printed as
`(null)`, wording that is left out. For Graphite,
"stored" is taken by the socket: what the kernel still holds when the peer goes
is beyond the code. `SqlOutput` implements the same `OutputPlugin`; its pending
entries are the statement and the list, less the rows that reached the database
with an answer that was lost.

## The runs

| Run | Question | Bounds, and why they are enough |
|---|---|---|
| `session` | Does any order of the two threads, and of a shutdown asked for by a function or a thread of the plug-in, lose, repeat or misplace a message, go on after the request, or fail to end? | 4 lines of 7 kinds: enough for a version, an interval overtaken by a second one, and a shutdown, with the lists of both threads empty, one and several long. |
| `faults` | What if library calls fail, and lines are odd? | 4 lines of 21 kinds, all the faults and a shutdown asked for at any time. Block numbers are modulo 4: 0, 1, 2 and the largest, so that a count can skip, repeat, go back and wrap. A version, a start and two more lines reach each of the errors. |
| `lossy` | What does a plug-in make of a session with lines lost? | 3 blocks of up to one entry, any lines lost: two starts or two ends in a row, and a block in between missing altogether. |
| `list` | Is the list safe in memory and is it a queue? | 3 messages in 4 cells, so that a freed cell is used again while the other thread may still hold its address. |
| `sql` | What can failures and other jobs do to rows, rules and dates, in each of the three plug-ins? | 4 entries of 2 dates and 2 rules (one of which the columns cut to the other) and a text that is no rule, 2 rows to a statement, every query refused or its connection lost, memory out. Two entries of one date and one of the next are needed for each of the mixtures; four leave room for a full statement and a retry. |
| `date_table` | Is a table ever missing, given twice or emptied early? | 5 tables for 32: more than the two `end_of_day` sees to and the one it may have left half-done, and a week, so that every table is recycled. |
| `fluentbit` | What can happen to a descriptor shared with a thread that closes it? | 3 sockets that open (a connection, one that fails, another), 2 attempts, 2 entries, 3 descriptors. |
| `batch` | What do four plug-ins make of an entry when anything fails? | 5 entries in any blocks, 2 addresses: a failure in the middle of a block, entries before and after it, and the last try of `mistral_exit`. |
| `log_entry` | Is memory balanced, is a line split right, are sizes right? | All lines of up to 5 characters of 5 kinds (fields of any shape and a backslash at either end), 2 lines to a behaviour (the second meets the tree the first built), 7 bits and a mantissa of 5, which leave room for rounding, for saturation in each class and for the undefined conversion. |
| `teardown`, `sql_race`, `fluentbit_fd` | Does the code do what its documents say? No: see below. | A block with one entry that does not end, and 2 entries: the fewest with which the question can be asked. |

**Fairness.** `FairSpec` (run `session`) gives each thread weak fairness: the
operating system schedules both, and no step but the waits for the semaphore can
be disabled by the other. Those two waits (`ClaimList`, `ClaimToTake`) are
strongly fair: the semaphore is held only across a few pointer operations, and
the processing thread sleeps for a second whenever it finds the list empty, so
that a waiting thread gets it. A call of `exit()` does end the process
(`ProcessExits` is fair). Mistral is not fair: it need never write nor
close. The liveness properties therefore start from the pipe being closed or
the shutdown message being read. In `fluentbit` only the connection thread is
fair (`FailureIsTold`); its peer is not.

**What the passing runs show.**

* Nothing accepted is lost, repeated or reordered between the two threads, and
  what `main` throws away is thrown away only after an error (`NothingLost`,
  `DiscardOnlyOnError`; the statement of the latter excepts `pthread_sigmask`
  failing at the head of the processing thread, after which the thread ends and
  the communication thread goes on listing what will be discarded).
* After a plug-in function has asked for a shutdown no other is called but
  `mistral_exit`; after a thread has, one more at most; and one more line at most
  is read (`ShutdownHeeded`).
* Log entries are accepted inside a block and intervals and starts between blocks,
  also when lines before them were refused or given up (`MessagesInPlace`).
* The process ends after the pipe is closed and after a shutdown message
  (`EndsWhenTold`). It announces its end only when it ends: once, as the last thing
  it says, if Mistral did not ask for it, never if it did, and also when it calls
  `exit()` in the middle (`AnnouncedOnce`, which excepts a crash and a message that
  cannot be sent).
* When `main` takes the list apart and destroys its semaphore nobody else is left to
  use them (`ListTornDownAlone`). This is not so of what else it destroys: see
  `teardown` below.
* What is not flagged is in sequence, over the whole history and not only next
  to its neighbour; with lines lost, two blocks are never taken for one, and an
  error is reported only when something was lost.
* The list is a queue and memory safe, and everything is freed in the end but a message
  that could not be listed because `sem_wait` failed (`AllFreed`).
* Through every failure and retry the three database plug-ins keep each entry in
  one place and in order, and until `mistral_exit` tries again a row has its own
  rule, as far as the columns keep it apart from others. What `mistral_exit` tries again
  it does with freed call types: a row whose rule was not met before may get any
  rule then (`RuleIdsMatch` says exactly which rows are excepted). An entry is in
  two places only when the connection went down with the answer, and nothing can
  repeat it then, as nothing reconnects. Once a query has failed, a MySQL row may
  carry no rule at all (id 0: the node a failed look-up leaves in the tree,
  `mistral_mysql.c:756`; the foreign keys keep such rows out of the other two) and
  rows of two dates may share a statement; the properties say "until then" where
  the code promises no more. Whatever is lost is complained of (`ImplementsOutput`).
* Provided `end_of_day` is completed once on each day, at any time of it and in as
  many attempts as it takes, every date from `N - 2` days back to today has one daily
  table at every moment (with 32 tables, the 30 days of `mistral_mysql.c:1161`), and
  only tables older than that are emptied. What the plug-in makes of it is another
  matter: all its rows go to `log_01`.
* The error log of the Fluent Bit plug-in is never written to by `write`, since the
  thread logs before it closes; while a connection is watched, it is the one that is
  published, and its events are not ignored: the number they carry is right because
  a new socket always gets the number of the one just closed; a connection given up
  makes the plug-in stop.
* Elasticsearch, Splunk, InfluxDB and Graphite store an entry at most once and in
  order, and lose none without a word: a POST that fails loses its block, a
  formatting that fails loses the entries of the block formatted before it, and each
  is logged (`ImplementsOutput`). When the process is ended by a second `free`, by a
  null pointer or by SIGPIPE (`aborted`), nothing is said of what was listed.
* Whatever step of `parse_log_entry` fails, what was allocated is freed once; sizes
  are right to the precision of a double (`HeapBalanced`, `ScaledRight`).

**What the violation runs show** (`findings` in `PROJECT.json`).

* `teardown`: `main` frees the tree of call types (`plugin_control.c:1816`), and with
  it the `call_type_names` of every entry a plug-in has, before it calls
  `mistral_exit`, which in most plug-ins formats or looks up the entries that are left
  (`mistral_mysql.c:277`, 673, 690; `mistral_rtm.c:180`, 419;
  `mistral_postgresql.c:290`, 497). It takes no failure: the end of the input inside a
  block is enough. The manual page `mistral_plugin.h.3:296` calls the names a constant
  string. The semaphore of `mistral_err` is destroyed just before (1815), although
  `mistral_exit` and the thread of the Fluent Bit plug-in may log; destroying a
  semaphore that is waited on is undefined, and nothing is modelled of it.
* `sql_race`: when an insertion of a rule fails because another job was faster,
  the retry of `mistral_exit` has forgotten that the date changed, and rows of two
  dates share a statement.
* `fluentbit_fd`: the processing thread writes to the number of a socket that was
  closed, and which by then belongs to something else.

Other differences between code and documents, met while modelling and not given a
run: no row of MySQL or RTM reaches the database, though nothing fails, since
MySQL's INSERT (`mistral_mysql.c:1228`) names 23 columns, five of them twice, for 18
values, and RTM's (`mistral_rtm.c:1208`) 21 columns for 24; `get_table_number` is
declared `bool`, so that all rows go to `log_01` and are lost when that table is
recycled, and a date without a table is no error (`mistral_mysql.c:132`;
`docs/mistral_mysql_plugin_manual.md:219` speaks of tables for a single day each,
used in turn); the limit of a size, 2^63 - 1, is rounded to 2^63 where it is
compared as a double (`plugin_control.c:674`), so that a size of exactly the limit
is stored as 2^63; an empty size range makes `strcmp` follow a null pointer
(`plugin_control.c:973`, the state `crashed` of `LogEntry`); when the curl options
for the URL or the authentication are refused, Elasticsearch, Splunk and InfluxDB
free the string and `mistral_exit` frees it again (`freed` in `BatchOutput`); a
`connect` that fails leaves Graphite with the number of the closed socket, so that
"Unable to connect" is never logged (`mistral_graphite.c:262`); Elasticsearch does
not free the index definition of an entry; `mistral_plugin.h:257` says that after
`mistral_shutdown()` no further line is read, but the test of the flag may already
be passed (`plugin_control.c:1560`); `docs/mistral_plugin_api.md:380` wants a data
end without a start flagged, but a second end with the same number is not
(`plugin_control.c:1431`); a block without entries makes the MySQL plug-in send an
empty query and stop (`mistral_mysql.c:1262`); call types longer than their column
of 45 are not found again (`mistral_mysql.c:702`, 256).

## The proofs

Each theorem holds for all values of the constants (lines, faults, bounds, widths,
cells, tables, descriptors) under the assumption named in its module, and under no
other unless it is said here.

**The framework** (`PluginControlProofs`, under `ConstantsAssumption`).
`TypeCorrect`, `NothingIsLost`, `ListTearDownIsSafe` and `CompleteFinal` come from one
inductive invariant, `IInv == TypeOK /\ ControlInv /\ NothingLost`. `NothingLost`
alone is not inductive: that `LinkMessage` appends a real message and that
`TakeMessage` is not at work while `CleanUp` frees the list depends on where the
threads are. `ControlInv` says that, in three parts: `Placement` (where one thread
is bounds where the other can be, and what is final), `Ownership` (the holder of
the semaphore is the thread between its wait and its post) and `AtHand` (a thread
has a message in its variable exactly where its code needs one). There is a lemma
for each thread and each conjunct, with one step per action; two lemmas about
sequences (`ShiftHead`, `AppendRight`) carry `NothingLost` across the two actions
that move a message.

A second part adds what was said and accepted in the course of a behaviour, each
from `IInv` and one more invariant: `NothingBeforeTheAnswer` (`AnsweredInv`: past
the version check, the answer is on stdout or the send failed),
`UnflaggedIsInSequence` (`CountInv` ties `data_count` to the last block accepted,
`PendingInv` says the same of the line that is checked but not yet listed),
`DiscardNeedsError` (`DrainInv`: a shutdown message is the last one accepted, and
the processing thread leaves a list behind only with a reason),
`ToldIntervalIsFresh` (`IntervalInv`: the processing thread has handled as many
interval messages as values it may have seen; a count of finite sets),
`ExitIsAnnounced` and `MessagesAreInPlace`.

**Around the framework** (`EnvironmentProofs`). `ThreadSpec` implies `Spec`, so
every theorem above holds of it; then `ShutdownIsHeeded`, from `HeedInv`, which
bounds by the place of each thread what it may still do. Its assumption is
`~Fails("sem_wait")`: when the semaphore cannot be claimed, the communication thread
itself calls `mistral_shutdown()`, and the bounds of the property are about the
plug-in.

For a session with lines lost (under `SessionAssumption` also: blocks are not so
many that their numbers wrap) `SessionSpec` implies `Spec`; then `AlarmsAreTrue`,
`FlaggedEndsLackStarts` and, if `strdup` does not fail, `BlocksArePure`, from
`PhaseInv` (what Mistral wrote and what was read agree on the phase of the session),
`AlarmInv` (as long as nothing is lost the two sides count alike), `EndInv` and
`PureInv`.

**The message list** (`MessageListProofs`, under `ListAssumption`). The invariant
`ListInv` says that there is a sequence of cells the pointers stand for, linked both
ways, with what each thread holds outside it; every store of `insque` and `remque`
keeps it, with another sequence. Types, safety of memory and freeing follow, and so
does the refinement, `ListImplementsQueue`: the sequence of the invariant is the one
the mapping reads off the pointers (`HopsAre` by the least counterexample, `ListFits`
because a list without a repetition has no more members than there are cells), and
each step enqueues, dequeues or leaves the queue alone.

**Daily tables** (`DateTableProofs`, under `TablesAssumption`: more than two tables).
Every property of the run, for any number of tables and days, from `TableInv`. The
heart is a count (`OldestIsOld`): `N` tables of different dates, none later than
tomorrow and none of the date that is wanted, so the oldest, which is the one that
is recycled, is older than `N - 2` days. With two tables it fails, and so does the
schema.

**The database plug-ins** (`SqlProofs`, under `SqlAssumption`). The five invariants
of the run, for any number of entries, rules, dates and rows to a statement, from
`SqlInv`, whose parts need one another little. `RuleInv`: an id in the tree, or the
one at hand, is that of its rule, or 0 for a rule that is about to be recorded or
whose look-up failed, or the rule is `misread`, which happens in `mistral_exit` only
(`MisreadStep`); what other jobs record moves nothing (`TrustLasts`).
`DateInv`, until something fails: the rows of a statement are of one date, which is
`last_log_date` until the next one is met; a call ends without a statement.
`EnvInv`: MySQL's tree of tables is exactly what it has stored, and every row, sent
or not, is of a date and table in it. `PlaceInv` gives the places by number: of `R`
entries the database has the first `S`, the list the last `L`, the statement the `I`
before those, and `S + I + L = R` while the connection is not lost; `Movement` says
that a step adds an entry, moves one into the statement, sends the statement or one
row, or moves nothing. The lemma `Steps` sorts the steps of the three plug-ins by
what they do, so that each is looked at once.

On top of it, `SqlImplementsOutput`: each step of the three plug-ins is a step of
`OutputPlugin` or one it cannot see. `PlaceInv` already says which entries are
pending, as numbers; what is left is that the sequence the mapping builds from the
statement and the list is those numbers in order, so that a new entry is appended to
it, a statement or a row that is stored settles a beginning of it, and a statement
that is freed is a beginning settled with a complaint.

**Sending a list** (`BatchProofs`, under `BatchAssumption`). `BatchTypes`, and
`BatchImplementsOutput` for any number of entries and addresses. The order is
in the steps: a new entry is appended to what is listed, what is formatted goes behind
what was formatted before, and a POST settles all of that with the subsequence the
destination took (`Subsequences` of module `Subsequence`, shared with
the abstract specification). The invariant says which lists are empty when (so that
nothing can be lost in silence between two calls) and that no entry is known before
it is received.

**Fluent Bit** (`FluentbitProofs`, under `FluentbitAssumption`: more than one
descriptor). The four invariants of the run from `FluentInv`: `Table` (which number is
whose), `Attempts` (how many sockets are left to be opened), `Harmless` of the shared
structure and of the processing thread's copy (what is said to be connected is a
socket, or the log was opened before it was closed, so that its number cannot be the
log's), and `Numbered` (while the thread closes and opens sockets, no other number is
free below the one its events carry, so that the next socket gets it). With one
descriptor the log could never be opened while a connection is up.

**Parsing a log entry** (`LogEntryProofs`, under `LogEntryAssumption`).

*Memory* (`HeapIsBalanced`): from `HeapInv`, which says that what is held is what the
steps before this one claim. That the label each step jumps to frees exactly that
(`JumpsRight`) is shown once for the whole ladder: between two labels, what is freed is
what the steps between them claimed (`RungsAre`), so that what is freed from a label on
follows by induction.

*Call types* (`NamesAreNormalised`): from `NamesInv` (every name in the tree is the
one of its set), with `BuildNameIs`: the loop over the call types gives the members of
a set once each and in ascending order.

*Splitting* (`LinesSplitExactly`), for lines of any length: the two loops are compared
round by round (`LoopsAgree`), and a field written with escapes in front of a line is
split off again and leaves the rest as it was (`SplitChar`, `SplitField`,
`SplitWritten`).

*Sizes* (`SizesAreScaled`), for integers and doubles of any width and any unit whose
cube fits in a double: a number rounded to `Mantissa` bits is off by one part in
`2^Mantissa + 1` at most (`RoundedIsNear`; one part in `2^Mantissa`, the bound that is
usually quoted, is not enough for two roundings in a row), a product of a rounded number
that is rounded again stays within one unit in the last place (`TwiceNear`), and a limit
`2^j - 1` is rounded to itself or to `2^j` (`DoubleOfLimit`). The provers know nothing of
powers, so the laws of `2^n` are derived from the number of subsets of a set
(`PowerOfTwo`).

Names, lines and powers need induction over data, and the library's induction
theorems take an operator, which no prover here can instantiate. They are made by
sets instead: a set of numbers with 0 and the successor of every member is `Nat`
(`NatSet`, from the well-foundedness of `<`), and a loop that computes each value
from the two before it exists as a function (`Recursion`) and is determined by them
(`SameLoop`). The loops of `LogEntry` are therefore recursive functions over a
finite interval, counted from the end of the line.

**Only model-checked.** Liveness (`EndsWhenTold`, `FailureIsTold`), which is out of
this prover's reach. Every other property of a passing run is a theorem.

## Not modelled

Left out for good: the query and schema scripts, packaging and tests (no running
state); the wording of messages; option parsing and its helpers, which run once and
before anything else; the creation and dropping of indexes in the SQL (no query can
tell). Left out of modelled parts: how RTM finds the name LSF has for the host
(`get_lsf_hostname`, a constant of a run; its array of words is one too short,
`mistral_rtm.c:772`, and what is read there depends on the allocator); a lack of
memory while PostgreSQL formats the values of a row, and which of its six tables the
row goes to.

The part most worth adding is `mistral_err` with its semaphore, of which only the
opening of the file is modelled (`FluentbitOutput`), and the end of `main`, where that
semaphore is destroyed. Nor are the numbers of Graphite's socket modelled: that an entry
may be written to another file, after a `connect` that failed, is shown of Fluent Bit
only.
